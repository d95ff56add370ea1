---------------------------- MODULE PgConnection ----------------------------
(***************************************************************************)
(* A connection to PostgreSQL: init, handle_auth, query, prepare_query,    *)
(* execute and close_sync of pg_connection.cpp, against a server that      *)
(* follows the protocol as this client uses it.                            *)
(*                                                                         *)
(* The connection has one coroutine at a time, so an action handles one    *)
(* message: it takes its header and, where the code awaits it, its body.   *)
(* The body of a row may be late: query and execute do not await           *)
(* populate_result, and what they read next is then no header; the model   *)
(* ends there (Misread).  A write or flush throws only on a connection     *)
(* that is gone; what it took and did not send stays in m_out_buffer, and  *)
(* m_query_ready stays as it was.                                          *)
(***************************************************************************)
EXTENDS Scram, PgValues

CONSTANTS Password,            \* the server's
          Passwords, Methods,  \* of clients, and of authentication by servers
          Salts, Iterations,   \* with SCRAM
          Scripts,             \* outcomes of the statements of a simple query
          ParamLists,          \* parameters of prepared statements
          MaxOperations, MaxAsync   \* bounds of the model

Outcomes == {"rows", "command", "empty", "error"}

\* Salts are bytes, and parameters have types that pg_conv.hpp knows.
ASSUME PgAssumption ==
  /\ Salts \subseteq Seq(0..255) /\ Iterations \subseteq Nat
  /\ ParamLists \subseteq Seq(Values)
  /\ Methods \subseteq {"trust", "password", "scram", "plus", "oauth", "md5", "newer"}
  /\ Scripts \subseteq Seq(Outcomes)

VARIABLES server,   \* its password, its method, and what it is in the middle of
          up, wire, \* messages under way to the server and to the client
          unsent,   \* messages in m_out_buffer
          pc, m_query_ready, scr,
          results,  \* of query or execute
          params,   \* bound to the prepared statement, and the caller's
                    \* variables for its rows: before, and as they are
          counts    \* operations and asynchronous messages still to come

sessionVars == <<pc, m_query_ready, scr, results, params>>
pgVars == <<server, up, wire, unsent, sessionVars, counts>>

Msg(type) == [type |-> type, body |-> <<>>]
With(type, body) == [type |-> type, body |-> body]

Greeting == <<Msg("PARAMETER_STATUS"), Msg("BACKEND_KEY_DATA"), Msg("READY_FOR_QUERY")>>
Auth(kind, body) == With("AUTHENTICATION", [kind |-> kind, msg |-> body])
Error == Msg("ERROR_RESPONSE")

\* m_config.m_password is kept with scr, which init destroys in the end.  The
\* startup message is sent: if that throws, init does, with nothing ready.
PgInit ==
  /\ \E method \in Methods :
       server = [method |-> method, pc |-> "startup", scram |-> NoScram,
                 values |-> [count |-> 0, values |-> <<>>],
                 outcomes |-> <<>>, gone |-> FALSE]
  /\ \E password \in Passwords : scr = [NoScram EXCEPT !.password = password]
  /\ up = <<With("startup", "user")>> /\ wire = <<>> /\ unsent = <<>>
  /\ pc = "init" /\ m_query_ready = FALSE
  /\ results = <<>> /\ params = [values |-> <<>>, before |-> <<>>, row |-> <<>>, read |-> FALSE]
  /\ counts = [operations |-> MaxOperations, async |-> MaxAsync]

-----------------------------------------------------------------------------
(* The server *)

Answer(messages) ==
  /\ up' = Tail(up)
  /\ wire' = wire \o messages
  /\ UNCHANGED <<unsent, sessionVars, counts>>

Asked(type) == up # <<>> /\ up[1].type = type /\ ~server.gone

Authenticate ==
  /\ Asked("startup")
  /\ server' = [server EXCEPT !.pc = "auth"]
  /\ Answer(CASE server.method = "trust"    -> <<Auth("OK", <<>>)>> \o Greeting
              [] server.method = "password" -> <<Auth("CLEAR_TEXT_PASSWORD", <<>>)>>
              [] server.method = "scram"    -> <<Auth("SASL", {"SCRAM-SHA-256", "SCRAM-SHA-256-PLUS"})>>
              [] server.method = "plus"     -> <<Auth("SASL", {"SCRAM-SHA-256-PLUS"})>>
              [] server.method = "oauth"    -> <<Auth("SASL", {"OAUTHBEARER"})>>
              [] server.method = "md5"      -> <<Auth("MD5", <<>>)>>
              [] server.method = "newer"    -> <<Msg("NEGOTIATE_PROTOCOL_VERSION")>>)

CheckPassword ==
  /\ Asked("password")
  /\ UNCHANGED server
  /\ Answer(IF up[1].body = Password THEN <<Auth("OK", <<>>)>> \o Greeting ELSE <<Error>>)

\* The server's first message; its nonce continues the client's.
SaslContinue ==
  /\ Asked("sasl_first") /\ server.method = "scram"
  /\ \E salt \in Salts, iterations \in Iterations :
       LET nonce == up[1].body[2] \o <<"server">>
       IN  /\ Answer(<<Auth("SASL_CONTINUE", <<nonce, base64_encode(salt), ToChars[iterations]>>)>>)
           /\ server' = [server EXCEPT !.scram =
                [NoScram EXCEPT !.client_first = up[1].body, !.server_nonce = nonce,
                   !.salt = salt, !.iterations = iterations, !.password = Password,
                   !.server_first = <<nonce, base64_encode(salt), ToChars[iterations]>>]]

\* The client has chosen a mechanism that was not offered.
SaslRefuse ==
  /\ Asked("sasl_first") /\ server.method = "plus"
  /\ UNCHANGED server
  /\ Answer(<<Error>>)

\* The server verifies the client's proof and gives its own.
SaslFinal ==
  LET s == server.scram
  IN  /\ Asked("sasl_final")
      /\ server' = [server EXCEPT !.scram = NoScram]
      /\ Answer(IF /\ up[1].body.nonce = s.server_nonce
                   /\ up[1].body.proof = Proof(Salted(s), AuthMessage(s))
                THEN <<Auth("SASL_FINAL", ServerSignature(Salted(s), AuthMessage(s))),
                       Auth("OK", <<>>)>> \o Greeting
                ELSE <<Error>>)

Messages(outcome) ==
  CASE outcome = "rows"    -> <<Msg("ROW_DESCRIPTION"), Msg("DATA_ROW"), Msg("COMMAND_COMPLETE")>>
    [] outcome = "command" -> <<Msg("COMMAND_COMPLETE")>>
    [] outcome = "empty"   -> <<Msg("EMPTY_QUERY_RESPONSE")>>
    [] outcome = "error"   -> <<Error>>

\* A simple query; what follows an error is not executed.
AnswerQuery ==
  /\ Asked("Q")
  /\ \E script \in Scripts :
       /\ server' = [server EXCEPT !.outcomes = script]
       /\ Answer(FoldLeft(LAMBDA ms, o : ms \o Messages(o), <<>>, script)
                   \o <<Msg("READY_FOR_QUERY")>>)

\* The extended protocol; after an error all is skipped up to a Sync.
AnswerExtended ==
  /\ up # <<>> /\ ~server.gone /\ up[1].type \in {"P", "B", "E", "C", "S"}
  /\ \E fails \in BOOLEAN :
       LET skips == server.pc = "skip" /\ up[1].type # "S"
           bad   == fails /\ up[1].type \in {"P", "B", "E"}
           row   == With("DATA_ROW", server.values.values)
       IN  /\ skips => ~fails
           /\ server' = [server EXCEPT
                !.pc = IF up[1].type = "S" THEN "auth" ELSE IF bad THEN "skip" ELSE @,
                !.values = IF up[1].type = "B" THEN up[1].body ELSE @]
           /\ \E ms \in
                IF skips THEN {<<>>} ELSE IF bad THEN {<<Error>>}
                ELSE CASE up[1].type = "P" -> {<<Msg("PARSE_COMPLETE")>>}
                       [] up[1].type = "B" -> {<<Msg("BIND_COMPLETE")>>}
                       [] up[1].type = "E" -> {<<row, Msg("PORTAL_SUSPENDED")>>,
                                               <<row, Msg("COMMAND_COMPLETE")>>,
                                               <<Msg("COMMAND_COMPLETE")>>,
                                               <<Msg("EMPTY_QUERY_RESPONSE")>>}
                       [] up[1].type = "C" -> {<<Msg("CLOSE_COMPLETE")>>}
                       [] OTHER            -> {<<Msg("READY_FOR_QUERY")>>} :
                Answer(ms)

\* A notice, or a parameter that changed, between any two messages
Asynchronous ==
  /\ ~server.gone /\ counts.async > 0 /\ server.pc \in {"auth", "skip"}
  /\ counts' = [counts EXCEPT !.async = @ - 1]
  /\ \E type \in {"NOTICE_RESPONSE", "PARAMETER_STATUS"}, k \in 0..Len(wire) :
       wire' = SubSeq(wire, 1, k) \o <<Msg(type)>> \o SubSeq(wire, k + 1, Len(wire))
  /\ UNCHANGED <<server, up, unsent, sessionVars>>

\* The server, or the connection, goes away.
Crash ==
  /\ ~server.gone
  /\ server' = [server EXCEPT !.gone = TRUE]
  /\ \E k \in 0..Len(wire) : wire' = SubSeq(wire, 1, k)
  /\ UNCHANGED <<up, unsent, sessionVars, counts>>

-----------------------------------------------------------------------------
(* The client *)

Reading == pc \in {"init", "query", "execute", "close"}

\* get_response_info: notices are skipped.
Takes(types) ==
  /\ wire # <<>> /\ wire[1].type \in types
  /\ wire' = Tail(wire)
  /\ UNCHANGED <<server, counts>>

\* The messages that the reading loops handle
Statuses == {"PARAMETER_STATUS", "BACKEND_KEY_DATA"}
Rows     == {"ROW_DESCRIPTION", "DATA_ROW"}
Failures == {"ERROR_RESPONSE", "EMPTY_QUERY_RESPONSE"}

SkipNotice ==
  /\ Reading /\ Takes({"NOTICE_RESPONSE"})
  /\ UNCHANGED <<up, unsent, sessionVars>>

Throw ==
  /\ pc' = "failed"
  /\ UNCHANGED <<up, unsent, m_query_ready, scr, results, params>>

\* "socket closed"
ReadFails ==
  /\ Reading /\ server.gone /\ wire = <<>>
  /\ Throw
  /\ UNCHANGED <<server, wire, counts>>

\* write of each message, and flush
Send(messages) == up' = up \o unsent \o messages /\ unsent' = <<>>

\* write without a flush: m_out_buffer is sent when it is full, never its end.
Write(messages) ==
  LET m == unsent \o messages
  IN  \E k \in 0..(Len(m) - 1) :
        up' = up \o SubSeq(m, 1, k) /\ unsent' = SubSeq(m, k + 1, Len(m))

\* The write of the n-th message, or the flush after it, throws: k were sent,
\* and the others stay in m_out_buffer.
SendFails(messages) ==
  LET m == unsent \o messages
  IN  /\ server.gone
      /\ \E n \in 1..Len(m) : \E k \in 0..(n - 1) :
           up' = up \o SubSeq(m, 1, k) /\ unsent' = SubSeq(m, k + 1, n)
      /\ pc' = "failed"

\* The offer has the string SCRAM_SHA256 in it, in whichever name.
Found(offer) == offer \cap {"SCRAM-SHA-256", "SCRAM-SHA-256-PLUS"} # {}

InitSkips ==
  /\ pc = "init" /\ Takes(Statuses)
  /\ UNCHANGED <<up, unsent, sessionVars>>

InitReady ==
  /\ pc = "init" /\ Takes({"READY_FOR_QUERY"})
  /\ m_query_ready' = TRUE
  /\ pc' = "idle"
  /\ scr' = NoScram
  /\ UNCHANGED <<up, unsent, results, params>>

InitThrows ==
  /\ pc = "init"
  /\ Takes({"ERROR_RESPONSE", "NEGOTIATE_PROTOCOL_VERSION"})
  /\ Throw

HandleAuth ==
  LET auth == wire[1].body
      Says(message) == /\ \/ Send(<<message>>) /\ UNCHANGED pc
                          \/ SendFails(<<message>>)
                       /\ UNCHANGED <<m_query_ready, results, params>>
  IN  /\ pc = "init" /\ Takes({"AUTHENTICATION"})
      /\ CASE auth.kind = "OK" -> UNCHANGED <<up, unsent, sessionVars>>
           [] auth.kind = "CLEAR_TEXT_PASSWORD" ->
                Says(With("password", scr.password)) /\ UNCHANGED scr
           [] auth.kind = "SASL" /\ Found(auth.msg) ->
                /\ scr' = generate_client_first_msg(scr, "user", <<"client">>)
                /\ Says(With("sasl_first", scr'.client_first))
           [] auth.kind = "SASL_CONTINUE" /\ Resolvable(scr, auth.msg) ->
                /\ scr' = resolve_server_first_msg(scr, auth.msg)
                /\ Says(With("sasl_final", generate_client_final_msg(scr')))
           [] auth.kind = "SASL_FINAL" /\ verify_server_final_msg(scr, auth.msg) ->
                UNCHANGED <<up, unsent, sessionVars>>
           [] OTHER -> Throw

\* A caller may go on with a connection whose write or flush has thrown.
MayQuery == pc \in {"idle", "failed"} /\ m_query_ready /\ counts.operations > 0

\* query up to its first read; m_query_ready is reset after the flush.
Query ==
  /\ MayQuery
  /\ counts' = [counts EXCEPT !.operations = @ - 1]
  /\ \/ /\ Send(<<Msg("Q")>>)
        /\ pc' = "query" /\ m_query_ready' = FALSE /\ results' = <<"PENDING">>
     \/ SendFails(<<Msg("Q")>>) /\ UNCHANGED <<m_query_ready, results>>
  /\ UNCHANGED <<server, wire, scr, params>>

Completed(type, outcome) ==
  /\ results' = Append(Front(results), outcome) \o IF pc = "query" THEN <<"PENDING">> ELSE <<>>
  /\ Takes(type)

\* populate_result with a body that has come
Populate ==
  /\ pc \in {"query", "execute"} /\ Takes(Rows)
  /\ params' = IF pc = "query" \/ wire[1].type # "DATA_ROW" THEN params
               ELSE [params EXCEPT !.row = GetRow(wire[1].body, @), !.read = TRUE]
  /\ UNCHANGED <<up, unsent, pc, m_query_ready, scr, results>>

\* ... and with one that comes later: the coroutine that awaits it is
\* destroyed.  Of a ParameterStatus only the header is taken.  From here on
\* contents are taken for headers, and two receives share m_in_buffer.
Misread ==
  /\ pc \in {"query", "execute"} /\ Takes(Rows \union {"PARAMETER_STATUS"})
  /\ pc' = "misread"
  /\ UNCHANGED <<up, unsent, m_query_ready, scr, results, params>>

QueryStatement_Fault ==
  /\ pc = "query"
  /\ \/ Completed({"COMMAND_COMPLETE"}, "SUCCESS")
     \/ Takes(Failures) /\ results' = Append(Front(results), "ERROR")
  /\ UNCHANGED <<up, unsent, pc, m_query_ready, scr, params>>

QueryStatement ==
  /\ pc = "query"
  /\ \/ Completed({"COMMAND_COMPLETE"}, "SUCCESS")
     \/ Completed(Failures, "ERROR")
  /\ UNCHANGED <<up, unsent, pc, m_query_ready, scr, params>>

QueryReady ==
  /\ pc = "query" /\ Takes({"READY_FOR_QUERY"})
  /\ m_query_ready' = TRUE /\ pc' = "idle"
  /\ results' = Front(results)
  /\ UNCHANGED <<up, unsent, scr, params>>

\* prepare_query does not flush, and resets m_query_ready at its end.  The
\* caller reads the rows into fresh variables, or into those of earlier rows.
PrepareQuery ==
  /\ MayQuery
  /\ counts' = [counts EXCEPT !.operations = @ - 1]
  /\ \E values \in ParamLists :
       LET messages == <<Msg("P"), With("B", Params(values))>>
       IN  \/ /\ Write(messages)
              /\ pc' = "portal" /\ m_query_ready' = FALSE
              /\ \E vars \in {Fresh(values), params.row} :
                   /\ TypesOf(vars) = TypesOf(values)
                   /\ params' = [values |-> values, before |-> vars, row |-> vars, read |-> FALSE]
           \/ SendFails(messages) /\ UNCHANGED <<m_query_ready, params>>
  /\ UNCHANGED <<server, wire, scr, results>>

Execute ==
  /\ pc = "portal" /\ counts.operations > 0
  /\ counts' = [counts EXCEPT !.operations = @ - 1]
  /\ \/ Send(<<Msg("E")>>) /\ pc' = "execute"
     \/ SendFails(<<Msg("E")>>)
  /\ results' = <<"PENDING">>
  /\ UNCHANGED <<server, wire, m_query_ready, scr, params>>

ExecuteSkips ==
  /\ pc = "execute" /\ Takes({"PARSE_COMPLETE", "BIND_COMPLETE"})
  /\ UNCHANGED <<up, unsent, sessionVars>>

ExecuteSuspended ==
  /\ pc = "execute" /\ Takes({"PORTAL_SUSPENDED"})
  /\ results' = <<"SUSPENDED">> /\ pc' = "portal"
  /\ UNCHANGED <<up, unsent, m_query_ready, scr, params>>

ClosesPortal ==
  \/ Send(<<Msg("C"), Msg("S")>>) /\ pc' = "close"
  \/ SendFails(<<Msg("C"), Msg("S")>>)

\* The end of execute, and close_sync up to its first read
ExecuteDone ==
  /\ pc = "execute"
  /\ \/ Completed({"COMMAND_COMPLETE"}, "SUCCESS")
     \/ Completed(Failures, "ERROR")
  /\ ClosesPortal
  /\ UNCHANGED <<m_query_ready, scr, params>>

\* The caller has enough of a suspended portal.
CloseSync ==
  /\ pc = "portal" /\ results = <<"SUSPENDED">> /\ unsent = <<>>
  /\ ClosesPortal
  /\ UNCHANGED <<server, wire, counts, m_query_ready, scr, results, params>>

CloseSkips_Fault ==
  /\ pc = "close" /\ Takes({"CLOSE_COMPLETE", "PARAMETER_STATUS", "ERROR_RESPONSE"})
  /\ m_query_ready' = (wire[1].type = "CLOSE_COMPLETE")
  /\ pc' = IF wire[1].type = "CLOSE_COMPLETE" THEN "idle" ELSE pc
  /\ UNCHANGED <<up, unsent, scr, results, params>>

CloseSkips ==
  /\ pc = "close" /\ Takes({"CLOSE_COMPLETE", "PARAMETER_STATUS"})
  /\ UNCHANGED <<up, unsent, sessionVars>>

CloseReady ==
  /\ pc = "close" /\ Takes({"READY_FOR_QUERY"})
  /\ m_query_ready' = TRUE /\ pc' = "idle"
  /\ UNCHANGED <<up, unsent, scr, results, params>>

Server ==
  \/ Authenticate \/ CheckPassword \/ SaslContinue \/ SaslRefuse
  \/ SaslFinal \/ AnswerQuery \/ AnswerExtended

\* What the coroutine does when a message has come
React ==
  \/ SkipNotice \/ ReadFails \/ InitSkips \/ InitReady \/ InitThrows \/ HandleAuth
  \/ Populate \/ Misread \/ QueryStatement \/ QueryReady
  \/ ExecuteSkips \/ ExecuteSuspended \/ ExecuteDone \/ CloseSkips \/ CloseReady

Caller == Query \/ PrepareQuery \/ Execute \/ CloseSync

PgNext == Server \/ React \/ Caller \/ Asynchronous \/ Crash

PgSpec == PgInit /\ [][PgNext]_pgVars

-----------------------------------------------------------------------------
(* Properties *)

\* With the right password, and a method that handle_auth can carry out, a
\* connection that is not lost is never refused: what the client computes from
\* the server's nonce, salt and count is what the server expects, and the
\* reverse.  It cannot carry out MD5, SASL without SCRAM or a newer protocol,
\* for which it throws, nor SCRAM-SHA-256-PLUS alone, which it takes for
\* SCRAM-SHA-256 and which the server refuses.
LoggedIn ==
  pc = "failed" => \/ server.gone
                   \/ scr.password # Password
                   \/ server.method \in {"plus", "oauth", "md5", "newer"}

\* A connection that is ready for a query owes nothing to an earlier one:
\* nothing is unsent, unanswered or unread, whichever statement failed and
\* whatever was suspended.  Only a write or flush that threw leaves it ready
\* with bytes that are unsent or unanswered, and then the server is gone: no
\* query is ever sent behind them, and no answer to them is left to be read.
InStep ==
  m_query_ready =>
    /\ server.pc = "auth"
    /\ \A k \in DOMAIN wire : wire[k].type \in {"NOTICE_RESPONSE", "PARAMETER_STATUS"}
    /\ \/ unsent = <<>> /\ up = <<>>
       \/ pc = "failed" /\ server.gone

\* query returns one result for each statement that the server executed, in
\* their order, if the body of each row had come with its header and no
\* parameter changed meanwhile: otherwise it has gone to Misread, and nothing
\* is promised.
ResultsMatch ==
  pc = "query" /\ wire # <<>> /\ wire[1].type = "READY_FOR_QUERY" =>
    Front(results) = [k \in DOMAIN server.outcomes |->
      IF server.outcomes[k] \in {"rows", "command"} THEN "SUCCESS" ELSE "ERROR"]

\* A query or a prepared statement that returns rows hands them to its caller,
\* whenever their bytes come.
RowsTakenWhole == pc # "misread"

\* A value that is stored as a parameter and comes back in a row is read as it
\* was, the empty string included; where no value was stored, the variable is
\* left as it was before, so that a fresh one has no value.
RowsKept ==
  params.read =>
    params.row = [k \in DOMAIN params.values |->
      IF params.values[k].null THEN params.before[k] ELSE params.values[k]]
=============================================================================
