--------------------------- MODULE FcgiConnection ---------------------------
(***************************************************************************)
(* One FastCGI connection of the server: read_req and on_connection of     *)
(* fcgi_server.cpp, the coroutine of each request (fcgi_handler.cpp, with  *)
(* the endpoints' reads and writes), the two streams of a request          *)
(* (stream.cpp, stream_awaiters.cpp) and the writer of all records         *)
(* (output_control.cpp).                                                   *)
(*                                                                         *)
(* All of them are coroutines of one thread.  stack is the nest of resume  *)
(* calls, the running coroutine first: an action is what that coroutine    *)
(* does up to its next choice, and only with an empty stack does the loop  *)
(* deliver a completion.  A suspended coroutine is resumed by the one that *)
(* holds its handle: m_consumer and m_producer of a stream hold the handle *)
(* of the request and of read_req, m_out_records those of requests.        *)
(*                                                                         *)
(* Content is counted in units.  A header of PARAMS is two units, its      *)
(* lengths and its text, so that it may straddle two records.              *)
(***************************************************************************)
EXTENDS Router, FiniteSets

CONSTANTS Ids,        \* request ids that the web server uses
          Forms,      \* what requests ask for: method, path, content length,
                      \* and whether that length is above MAX_ID_SIZE
          Routes,     \* the registrations of main.cpp
          MaxRecords, \* bound of the model: records the web server sends
          MaxWire,    \* bound of the model: units under way to the server
          MaxContent, \* bound of the model: units in a record
          MaxItems    \* bound of the model: market messages to streams

\* Ids are the numbers in record headers; the other coroutines have names.
ASSUME FcgiAssumption ==
  /\ Ids # {} /\ "reader" \notin Ids /\ "writer" \notin Ids
  /\ MaxRecords \in Nat /\ MaxContent \in Nat /\ MaxItems \in Nat
  /\ \A form \in Forms : form.length \in Nat

\* Forms have paths, and routes patterns; main.cpp registers routes that can all
\* be inserted, or it would end at once, and that leave no choice.
ASSUME RoutesAssumption ==
  /\ \A form \in Forms : form.path \in Seq(STRING)
  /\ Routes \in Seq([method : Methods, endpoint : STRING, pattern : Seq(Segment)])
  /\ \A n \in DOMAIN Routes :
       Insertable(RouteTree(SubSeq(Routes, 1, n - 1)), Routes[n].pattern)
  /\ Unambiguous(Routes)

VARIABLES wire,          \* what the web server sent and nobody has read
          closed,        \* the web server closed the connection, or died
          phase,         \* what the web server sends next for an id
          budget,        \* records and market messages still to come
          keep_conn,     \* the web server keeps its connections
          stack,         \* running coroutines, innermost first
          reader,        \* read_req
          request,       \* m_task of each request, "none" before the first
          stream,        \* m_params and m_stdin of each request
          m_out_records, \* requests whose record waits, with its type
          writer,        \* begin_res_task
          m_error,       \* of output_control
          signalled,     \* the event of the connection's signal was added
          gone,          \* on_connection has returned
          replies        \* types of the records sent for the last request of an id

connVars == <<wire, closed, phase, budget, keep_conn>>
outVars  == <<m_out_records, writer, m_error, replies>>
endVars  == <<signalled, gone>>
vars == <<connVars, stack, reader, request, stream, outVars, endVars>>

Tree    == RouteTree(Routes)
Types   == {"params", "stdin"}
AllSkip == MaxRecords * MaxContent + 1      \* LONG_MAX: more than ever comes

Unit(kind, type, id, len) == [kind |-> kind, type |-> type, id |-> id, len |-> len]

\* A record on the wire: its header, content and padding.
Record(type, id, len) ==
  <<Unit("header", type, id, len)>> \o [k \in 1..len |-> Unit("content", type, id, 0)]
     \o [k \in 1..(len % 2) |-> Unit("padding", type, id, 0)]

NewReader  == [pc |-> "header", id |-> CHOOSE i \in Ids : TRUE, type |-> "begin", len |-> 0, io |-> "none"]
NewStream  == [m_remaining |-> 0, m_ended |-> FALSE, m_producer |-> FALSE, m_consumer |-> FALSE]
NewRequest == [pc |-> "none", want |-> 0, io |-> "none", next |-> "none",
               headers |-> FALSE, close_conn |-> FALSE]

Init ==
  /\ wire = <<>> /\ closed = FALSE
  /\ phase = [i \in Ids |-> "free"]
  /\ budget = [records |-> MaxRecords, items |-> MaxItems]
  /\ keep_conn \in BOOLEAN
  /\ stack = <<>>
  /\ reader = [NewReader EXCEPT !.io = "recv"]
  /\ request = [i \in Ids |-> NewRequest]
  /\ stream = [i \in Ids |-> [t \in Types |-> NewStream]]
  /\ m_out_records = <<>> /\ writer = "idle" /\ m_error = FALSE
  /\ signalled = FALSE /\ gone = FALSE
  /\ replies = [i \in Ids |-> <<>>]

Running(c) == stack # <<>> /\ Head(stack) = c
Return     == stack' = Tail(stack)
Call(c)    == stack' = <<c>> \o stack
Transfer(c) == stack' = <<c>> \o Tail(stack)      \* symmetric transfer

-----------------------------------------------------------------------------
(* The web server *)

Ended(i) == replies[i] # <<>> /\ replies[i][Len(replies[i])] = "endreq"

Send(record) ==
  /\ stack = <<>> /\ ~closed /\ budget.records > 0
  /\ Len(wire) + Len(record) <= MaxWire
  /\ wire' = wire \o record
  /\ budget' = [budget EXCEPT !.records = @ - 1]
  /\ UNCHANGED <<closed, keep_conn, stack, reader, request, stream, m_out_records, writer, m_error, endVars>>

\* An id is free again once its END_REQUEST has come.
SendBegin(i) ==
  /\ phase[i] = "free" \/ Ended(i)
  /\ Send(<<Unit("header", "begin", i, 1), Unit("content", "begin", i, 0)>>)
  /\ phase' = [phase EXCEPT ![i] = "params"]
  /\ replies' = [replies EXCEPT ![i] = <<>>]

SendContent(i, type, len) ==
  /\ phase[i] = type
  /\ Send(Record(type, i, len))
  /\ phase' = [phase EXCEPT ![i] = IF len > 0 THEN @
                                   ELSE IF type = "params" THEN "stdin" ELSE "over"]
  /\ UNCHANGED replies

\* ABORT_REQUEST, GET_VALUES: types that read_req does not know, for any id
SendOther ==
  /\ Send(Record("other", CHOOSE i \in Ids : TRUE, 0))
  /\ UNCHANGED <<phase, replies>>

\* What had not arrived is lost.
Close ==
  /\ stack = <<>> /\ ~closed
  /\ closed' = TRUE
  /\ \E n \in 0..Len(wire) : wire' = SubSeq(wire, 1, n)
  /\ UNCHANGED <<phase, budget, keep_conn, stack, reader, request, stream, outVars, endVars>>

-----------------------------------------------------------------------------
(* read_req *)

\* socket::read returns when it has n units, or the connection has ended.  A
\* reader that finds fewer suspends, and so may one whose units are late.
Complete(n) == Len(wire) >= n \/ closed
Take(n)     == wire' = SubSeq(wire, n + 1, Len(wire))

ReaderNeeds == IF reader.pc = "padding" THEN reader.len % 2 ELSE 1

ReaderAt(pc) == Running("reader") /\ reader.pc = pc

ReaderSuspend ==
  /\ Running("reader") /\ reader.pc \in {"header", "begin", "padding"}
  /\ ReaderNeeds > 0 /\ reader.io = "none"
  /\ reader' = [reader EXCEPT !.io = "recv"]
  /\ Return
  /\ UNCHANGED <<connVars, request, stream, outVars, endVars>>

ReaderRecv ==
  /\ stack = <<>> /\ reader.io = "recv"
  /\ Complete(ReaderNeeds)
  /\ reader' = [reader EXCEPT !.io = "ready"]
  /\ Call("reader")
  /\ UNCHANGED <<connVars, request, stream, outVars, endVars>>

ReaderHas(n) == Len(wire) >= n /\ reader.io \in {"none", "ready"}

\* trigger.activate()
EndReading_Fault ==
  /\ reader' = [reader EXCEPT !.pc = "ended", !.io = "none"]
  /\ Return
  /\ UNCHANGED <<request, stream, outVars, endVars>>

\* The loop in read_req ends, by its break or by a std::runtime_error.
EndReading ==
  /\ reader' = [reader EXCEPT !.pc = "ended", !.io = "none"]
  /\ signalled' = TRUE
  /\ Return
  /\ UNCHANGED <<gone, request, stream, outVars>>

\* The socket closed: no header, or a begin body or padding cut short.
ReaderCut ==
  /\ Running("reader") /\ reader.pc \in {"header", "begin", "padding"}
  /\ closed /\ Len(wire) < ReaderNeeds
  /\ EndReading
  /\ UNCHANGED connVars

\* record::parse, and the branch on its type
ReadBegin ==
  /\ ReaderAt("header") /\ ReaderHas(1) /\ wire[1].type = "begin"
  /\ Take(1)
  /\ reader' = [reader EXCEPT !.pc = "begin", !.io = "none", !.id = wire[1].id,
                              !.type = "begin", !.len = 0]
  /\ UNCHANGED <<closed, phase, budget, keep_conn, stack, request, stream, outVars, endVars>>

ReadUnknown ==
  /\ ReaderAt("header") /\ ReaderHas(1) /\ wire[1].type = "other"
  /\ Take(1)
  /\ EndReading
  /\ UNCHANGED <<closed, phase, budget, keep_conn>>

\* requests[id] = make_unique<request>: the new coroutine runs up to its first
\* can_read, then the request that had the id, if any, is destroyed.
BeginRequest ==
  /\ ReaderAt("begin") /\ ReaderHas(1)
  /\ Take(1)
  /\ reader' = [reader EXCEPT !.pc = "padding", !.io = "none"]
  /\ request' = [request EXCEPT ![reader.id] =
                   [NewRequest EXCEPT !.pc = "params", !.close_conn = ~keep_conn]]
  /\ stream' = [stream EXCEPT ![reader.id] =
                  [t \in Types |-> [NewStream EXCEPT !.m_consumer = (t = "params")]]]
  /\ UNCHANGED <<closed, phase, budget, keep_conn, stack, outVars, endVars>>

\* stream::update; its result is awaited in Updated.  requests.at() finds the
\* request: the web server begins an id before it uses it, and none is erased.
Update ==
  LET h == wire[1]
      s == stream[h.id][h.type]
  IN  /\ ReaderAt("header") /\ ReaderHas(1) /\ h.type \in Types
      /\ Take(1)
      /\ reader' = [reader EXCEPT !.pc = "updating", !.io = "none", !.id = h.id,
                                  !.type = h.type, !.len = h.len]
      /\ stream' = [stream EXCEPT ![h.id][h.type] =
                      [s EXCEPT !.m_ended = (h.len = 0), !.m_remaining = h.len,
                                !.m_consumer = FALSE]]
      /\ IF s.m_consumer THEN Call(h.id) ELSE UNCHANGED stack
      /\ UNCHANGED <<closed, phase, budget, keep_conn, request, outVars, endVars>>

Updated_Fault ==
  /\ ReaderAt("updating")
  /\ reader' = [reader EXCEPT !.pc = "padding"]
  /\ UNCHANGED <<connVars, stack, request, stream, outVars, endVars>>

\* stream_update_awaiter: ready if the consumer took everything at once.
Updated ==
  /\ ReaderAt("updating")
  /\ IF stream[reader.id][reader.type].m_remaining = 0
     THEN /\ reader' = [reader EXCEPT !.pc = "padding"]
          /\ UNCHANGED <<stack, stream>>
     ELSE /\ reader' = [reader EXCEPT !.pc = "blocked"]
          /\ stream' = [stream EXCEPT ![reader.id][reader.type].m_producer = TRUE]
          /\ Return
  /\ UNCHANGED <<connVars, request, outVars, endVars>>

ReadPadding ==
  /\ ReaderAt("padding") /\ ReaderHas(ReaderNeeds)
  /\ Take(ReaderNeeds)
  /\ reader' = [reader EXCEPT !.pc = "header", !.io = "none"]
  /\ UNCHANGED <<closed, phase, budget, keep_conn, stack, request, stream, outVars, endVars>>

-----------------------------------------------------------------------------
(* The coroutine of a request *)

StreamOf(pc) == IF pc \in {"params", "lens", "value"} THEN "params" ELSE "stdin"
ReadingPcs   == {"params", "lens", "value", "body", "skip"}
Reading(i)   == Running(i) /\ request[i].pc \in ReadingPcs
Source(i)    == stream[i][StreamOf(request[i].pc)]
Readable(i)  == Source(i).m_remaining > 0 \/ Source(i).m_ended
Share_Fault(i) == request[i].want
Share(i)     == IF request[i].want < Source(i).m_remaining THEN request[i].want
                ELSE Source(i).m_remaining
InLoop(i)    == /\ request[i].pc # "params"
                /\ Source(i).m_remaining > 0 /\ request[i].want > 0

Go(i, pc)       == request' = [request EXCEPT ![i].pc = pc]
GoFor(i, pc, n) == request' = [request EXCEPT ![i].pc = pc, ![i].want = n]

\* An exception stays in the promise of m_task, which nobody awaits.
Fail(i) ==
  /\ request' = [request EXCEPT ![i].pc = "failed", ![i].io = "none"]
  /\ Return

AwaitReadable_Fault(i) ==
  /\ Reading(i) /\ ~Readable(i)
  /\ stream' = [stream EXCEPT ![i][StreamOf(request[i].pc)].m_consumer = TRUE]
  /\ Return
  /\ UNCHANGED <<connVars, reader, request, outVars, endVars>>

\* stream_readable_awaiter: the request suspends, and read_req goes on.
AwaitReadable(i) ==
  /\ Reading(i) /\ ~Readable(i)
  /\ stream' = [stream EXCEPT ![i][StreamOf(request[i].pc)] =
                  [@ EXCEPT !.m_consumer = TRUE, !.m_producer = FALSE]]
  /\ IF Source(i).m_producer
     THEN Transfer("reader") /\ reader' = [reader EXCEPT !.pc = "padding"]
     ELSE Return /\ UNCHANGED reader
  /\ UNCHANGED <<connVars, request, outVars, endVars>>

RequestSuspend(i) ==
  /\ Reading(i) /\ InLoop(i) /\ request[i].io = "none"
  /\ request' = [request EXCEPT ![i].io = "recv"]
  /\ Return
  /\ UNCHANGED <<connVars, reader, stream, outVars, endVars>>

RequestRecv(i) ==
  /\ stack = <<>> /\ request[i].io = "recv"
  /\ Complete(Share(i))
  /\ request' = [request EXCEPT ![i].io = "ready"]
  /\ Call(i)
  /\ UNCHANGED <<connVars, reader, stream, outVars, endVars>>

\* stream::read and stream::skip, the body of the loop
ReadContent(i) ==
  /\ Reading(i) /\ InLoop(i) /\ Len(wire) >= Share(i)
  /\ Take(Share(i))
  /\ request' = [request EXCEPT ![i].want = @ - Share(i), ![i].io = "none"]
  /\ stream' = [stream EXCEPT ![i][StreamOf(request[i].pc)].m_remaining = @ - Share(i)]
  /\ UNCHANGED <<closed, phase, budget, keep_conn, stack, reader, outVars, endVars>>

ContentCut(i) ==
  /\ Reading(i) /\ InLoop(i) /\ closed /\ Len(wire) < Share(i)
  /\ Fail(i)
  /\ UNCHANGED <<connVars, reader, stream, outVars, endVars>>

\* ... and what follows the loop: "stream closed", or the caller goes on.
ReadReturns(i) ==
  LET r == request[i]
  IN  /\ Reading(i) /\ Readable(i) /\ ~InLoop(i) /\ r.pc \notin {"params", "skip"}
      /\ IF r.want > 0 THEN Fail(i)
         ELSE /\ CASE r.pc = "lens"  -> GoFor(i, "value", 1)
                   [] r.pc = "value" -> request' = [request EXCEPT ![i].pc = "params",
                                                                   ![i].headers = TRUE]
                   [] r.pc = "body"  -> Go(i, "reply")
              /\ UNCHANGED stack
      /\ UNCHANGED <<connVars, reader, stream, outVars, endVars>>

\* get_headers: another header
NextHeader(i) ==
  /\ Reading(i) /\ request[i].pc = "params" /\ Source(i).m_remaining > 0
  /\ GoFor(i, "lens", 1)
  /\ UNCHANGED <<connVars, stack, reader, stream, outVars, endVars>>

\* The end of PARAMS: context, router::process and the beginning of the
\* endpoint.  The constructor of context throws for a request without
\* headers and for a method it does not know.
Dispatch(i) ==
  /\ Reading(i) /\ request[i].pc = "params"
  /\ Source(i).m_remaining = 0 /\ Source(i).m_ended
  /\ \E form \in Forms :
       LET to   == Process(Tree, form.method, form.path).endpoint
           body == \/ to \in {"join", "order", "cancel"}
                   \/ to = "create" /\ ~form.long
       IN  IF ~request[i].headers \/ form.method \notin Methods THEN Fail(i)
           ELSE /\ GoFor(i, IF body THEN "body" ELSE IF to = "stream" THEN "head" ELSE "reply",
                            IF body THEN form.length ELSE 0)
                /\ UNCHANGED stack
  /\ UNCHANGED <<connVars, reader, stream, outVars, endVars>>

\* stream_endpoint: subscribed, or told that it is a duplicate
Subscribe(i) ==
  /\ Running(i) /\ request[i].pc = "subscribe"
  /\ \E pc \in {"reply", "await"} : Go(i, pc)
  /\ UNCHANGED <<connVars, stack, reader, stream, outVars, endVars>>

AwaitItems(i) ==
  /\ Running(i) /\ request[i].pc = "await"
  /\ Go(i, "items")
  /\ Return
  /\ UNCHANGED <<connVars, reader, stream, outVars, endVars>>

\* A message of the market wakes the stream.
ItemsCome(i) ==
  /\ stack = <<>> /\ request[i].pc = "items" /\ budget.items > 0
  /\ budget' = [budget EXCEPT !.items = @ - 1]
  /\ Go(i, "message")
  /\ Call(i)
  /\ UNCHANGED <<wire, closed, phase, keep_conn, reader, stream, outVars, endVars>>

\* The end of handle_request, once STDIN has ended
Finish(i) ==
  /\ Reading(i) /\ request[i].pc = "skip" /\ Readable(i) /\ Source(i).m_remaining = 0
  /\ Go(i, "done")
  /\ signalled' = (signalled \/ request[i].close_conn)
  /\ Return
  /\ UNCHANGED <<connVars, reader, stream, outVars, gone>>

-----------------------------------------------------------------------------
(* Output *)

\* output::write of each place that writes, and where the request goes on
WriteAt == [reply |-> <<"stdout", "end">>, head |-> <<"stdout", "subscribe">>,
            message |-> <<"stdout", "await">>, end |-> <<"end", "endreq">>,
            endreq |-> <<"endreq", "skip">>]

\* fcgi_write_awaiter
Write(i) ==
  LET at == WriteAt[request[i].pc]
  IN  /\ Running(i) /\ request[i].pc \in DOMAIN WriteAt
      /\ IF m_error THEN Fail(i) /\ UNCHANGED <<m_out_records, writer>>
         ELSE /\ m_out_records' = Append(m_out_records, [id |-> i, type |-> at[1]])
              /\ request' = [request EXCEPT ![i].pc = "writing", ![i].next = at[2]]
              /\ IF writer = "idle" THEN writer' = "running" /\ Transfer("writer")
                 ELSE Return /\ UNCHANGED writer
      /\ UNCHANGED <<connVars, reader, stream, m_error, replies, endVars>>

WriterNext_Fault ==
  /\ Running("writer") /\ writer = "running"
  /\ m_out_records = <<>> \/ ~m_error
  /\ writer' = "idle"
  /\ Return
  /\ UNCHANGED <<connVars, reader, request, stream, m_out_records, m_error, replies, endVars>>

\* The writer's loop: wait for a record, or send the first one.
WriterNext ==
  /\ Running("writer") /\ writer = "running"
  /\ m_out_records = <<>> \/ ~m_error
  /\ writer' = IF m_out_records = <<>> THEN "idle" ELSE "sending"
  /\ Return
  /\ UNCHANGED <<connVars, reader, request, stream, m_out_records, m_error, replies, endVars>>

\* The writes and the flush of a record return, or throw.
SendDone(ok) ==
  LET o == Head(m_out_records)
  IN  /\ stack = <<>> /\ writer = "sending"
      /\ ok \/ closed
      /\ m_error' = ~ok
      /\ replies' = IF ok THEN [replies EXCEPT ![o.id] = Append(@, o.type)] ELSE replies
      /\ writer' = "sent"
      /\ Call("writer")
      /\ UNCHANGED <<connVars, reader, request, stream, m_out_records, endVars>>

WriterResumes_Fault ==
  LET i    == Last(m_out_records).id
      next == request[i].next
  IN  /\ Running("writer") /\ m_out_records # <<>>
      /\ writer = "sent" \/ (writer = "running" /\ m_error)
      /\ m_out_records' = Front(m_out_records)
      /\ writer' = "running"
      /\ IF m_error
         THEN Go(i, "failed") /\ UNCHANGED stack
         ELSE GoFor(i, next, IF next = "skip" THEN AllSkip ELSE 0) /\ Call(i)
      /\ UNCHANGED <<connVars, reader, stream, m_error, replies, endVars>>

\* The record is popped and its request resumed, which throws after an error.
WriterResumes ==
  LET i    == Head(m_out_records).id
      next == request[i].next
  IN  /\ Running("writer") /\ m_out_records # <<>>
      /\ writer = "sent" \/ (writer = "running" /\ m_error)
      /\ m_out_records' = Tail(m_out_records)
      /\ writer' = "running"
      /\ IF m_error
         THEN Go(i, "failed") /\ UNCHANGED stack
         ELSE GoFor(i, next, IF next = "skip" THEN AllSkip ELSE 0) /\ Call(i)
      /\ UNCHANGED <<connVars, reader, stream, m_error, replies, endVars>>

-----------------------------------------------------------------------------
(* on_connection: the signal's event shuts the socket down and destroys all  *)
(* coroutines of the connection.                                             *)

Teardown ==
  /\ stack = <<>> /\ signalled /\ ~gone
  /\ gone' = TRUE
  /\ closed' = TRUE
  /\ wire' = <<>>
  /\ reader' = [NewReader EXCEPT !.pc = "ended"]
  /\ request' = [i \in Ids |-> NewRequest]
  /\ stream' = [i \in Ids |-> [t \in Types |-> NewStream]]
  /\ m_out_records' = <<>> /\ writer' = "idle"
  /\ UNCHANGED <<phase, budget, keep_conn, stack, m_error, signalled, replies>>

\* The connection that is never torn down: read_req waits for a request that
\* does not read on.
Stuck == reader.pc = "blocked" /\ request[reader.id].pc \in {"failed", "items"}

Rest == (gone \/ (closed /\ Stuck)) /\ UNCHANGED vars

WebServer ==
  \/ \E i \in Ids : SendBegin(i)
  \/ SendOther
  \/ \E i \in Ids, type \in Types, len \in 0..MaxContent : SendContent(i, type, len)
  \/ Close

RunRequest(i) ==
  \/ AwaitReadable(i) \/ RequestSuspend(i) \/ ReadContent(i) \/ ContentCut(i)
  \/ ReadReturns(i) \/ NextHeader(i) \/ Dispatch(i) \/ Subscribe(i)
  \/ AwaitItems(i) \/ Finish(i) \/ Write(i)

\* What the one thread does without the loop
Run ==
  \/ ReaderSuspend \/ ReaderCut \/ ReadBegin \/ ReadUnknown \/ BeginRequest
  \/ Update \/ Updated \/ ReadPadding
  \/ WriterNext \/ WriterResumes
  \/ \E i \in Ids : RunRequest(i)

Sent == \E ok \in BOOLEAN : SendDone(ok)

Next ==
  \/ WebServer \/ Run \/ ReaderRecv \/ Sent \/ Teardown \/ Rest
  \/ \E i \in Ids : RequestRecv(i) \/ ItemsCome(i)

Spec == Init /\ [][Next]_vars

\* The thread runs on; data that has come and the end of a connection complete
\* a receive; the web server reads what it is sent, or the write fails; the
\* loop delivers the signal's event (module EventQueue).
Fairness ==
  /\ WF_vars(Run) /\ WF_vars(ReaderRecv) /\ WF_vars(Sent) /\ WF_vars(Teardown)
  /\ \A i \in Ids : WF_vars(RequestRecv(i))

FairSpec == Spec /\ Fairness

-----------------------------------------------------------------------------
(* Properties *)

RequestPcs == {"none", "params", "lens", "value", "body", "reply", "head", "subscribe",
               "await", "items", "message", "writing", "end", "endreq", "skip",
               "done", "failed"}

\* Type correctness.
TypeOK ==
  /\ wire \in Seq([kind : {"header", "content", "padding"}, len : 0..MaxContent + 1,
                   type : Types \union {"begin", "other"}, id : Ids])
  /\ closed \in BOOLEAN /\ keep_conn \in BOOLEAN /\ m_error \in BOOLEAN
  /\ signalled \in BOOLEAN /\ gone \in BOOLEAN
  /\ phase \in [Ids -> {"free", "params", "stdin", "over"}]
  /\ budget \in [records : 0..MaxRecords, items : 0..MaxItems]
  /\ stack \in Seq(Ids \union {"reader", "writer"})
  /\ reader \in [pc : {"header", "begin", "updating", "blocked", "padding", "ended"},
                 id : Ids, type : Types \union {"begin"},
                 len : 0..MaxContent + 1, io : {"none", "recv", "ready"}]
  /\ request \in [Ids -> [pc : RequestPcs, want : Nat, io : {"none", "recv", "ready"},
                          next : RequestPcs, headers : BOOLEAN, close_conn : BOOLEAN]]
  /\ stream \in [Ids -> [Types -> [m_remaining : 0..MaxContent + 1, m_ended : BOOLEAN,
                                   m_producer : BOOLEAN, m_consumer : BOOLEAN]]]
  /\ m_out_records \in Seq([id : Ids, type : {"stdout", "end", "endreq"}])
  /\ writer \in {"idle", "running", "sending", "sent"}
  /\ replies \in [Ids -> Seq({"stdout", "end", "endreq"})]

Receivers == {c \in Ids : request[c].io # "none"}
               \union (IF reader.io # "none" THEN {"reader"} ELSE {})

\* Two coroutines share the socket, and its one read listener throws when both
\* wait ("handle already set"): a record's content is with its request exactly
\* while read_req stands by, and read_req reads only when no stream has any
\* content left.
OneReader ==
  /\ Cardinality(Receivers) <= 1
  /\ \A i \in Ids, t \in Types :
       stream[i][t].m_remaining > 0 =>
         /\ reader.pc \in {"updating", "blocked"} /\ reader.io = "none"
         /\ reader.id = i /\ reader.type = t

\* Every unit is read as what it is: read_req finds a header where it reads one,
\* and a request only content of its own stream.
Aligned ==
  /\ reader.pc = "header" /\ wire # <<>> => wire[1].kind = "header"
  /\ reader.pc = "padding" =>
       \A k \in 1..ReaderNeeds : k \in DOMAIN wire => wire[k].kind = "padding"
  /\ \A i \in Ids, t \in Types : \A k \in 1..stream[i][t].m_remaining :
       k \in DOMAIN wire => wire[k] = Unit("content", t, i, 0)

\* A stored handle belongs to a coroutine that waits for it, also where an id
\* begins anew and destroys the request that had it: the writer resumes each
\* request once, and sleeps only when nothing is queued.
HandlesLive ==
  /\ \A k \in DOMAIN m_out_records : request[m_out_records[k].id].pc = "writing"
  /\ IsInjective([k \in DOMAIN m_out_records |-> m_out_records[k].id])
  /\ \A i \in Ids : request[i].pc = "writing" => \E k \in DOMAIN m_out_records :
                                                    m_out_records[k].id = i
  /\ \A i \in Ids, t \in Types :
       /\ stream[i][t].m_consumer => /\ request[i].pc \in ReadingPcs /\ request[i].io = "none"
                                     /\ StreamOf(request[i].pc) = t
       /\ stream[i][t].m_producer => /\ reader.pc = "blocked"
                                     /\ reader.id = i /\ reader.type = t
  /\ writer = "idle" => m_out_records = <<>>

\* The answer to a request is its output, the end of its output and the end of
\* the request, in this order and once, however requests and writes interleave.
RepliesInOrder ==
  \A i \in Ids : \A k \in DOMAIN replies[i] :
    /\ replies[i][k] = "end" => k > 1 /\ replies[i][k - 1] = "stdout"
    /\ replies[i][k] = "endreq" => k > 1 /\ replies[i][k - 1] = "end" /\ k = Len(replies[i])
    /\ replies[i][k] = "stdout" => k = 1 \/ replies[i][k - 1] = "stdout"

\* Whatever a request asks for when its headers have come, the route tree gives
\* it to the endpoint that is registered for its method and path, with the
\* segments that the variables of its route stand for, and to nobody if none is.
Routed ==
  \A i \in Ids :
    Reading(i) /\ request[i].pc = "params" /\ Source(i).m_ended =>
      \A form \in Forms :
        LET registered == Expected(Routes, form.method, form.path)
            to         == Process(Tree, form.method, form.path)
        IN  IF registered = {} THEN to.endpoint = "none" ELSE to \in registered

\* After the web server has gone the connection is torn down, unless read_req
\* is left with a request that failed, or streams, before it took its input.
TornDown == closed ~> (gone \/ Stuck)

\* A request whose input has all been sent is answered, or streams, or fails;
\* no hand-over between it, read_req and the writer loses it.
Answered ==
  \A i \in Ids :
    phase[i] = "over" ~> \/ Ended(i) \/ request[i].pc \in {"items", "failed"}
                         \/ closed \/ gone \/ Stuck
=============================================================================
