--------------------------- MODULE PostgresProofs ---------------------------
(***************************************************************************)
(* Theorems about the PostgreSQL client, for any statements, parameters,    *)
(* salts, servers and failures: a connection that is ready for a query     *)
(* owes nothing to an earlier one, unless its server is gone; a query that *)
(* reads its rows whole returns a result for each statement that ran; a row*)
(* is read as its values were stored, and leaves a variable alone where it *)
(* has none; a login that handle_auth can carry out is not refused.  And   *)
(* for any number of callers and any limit: the pool counts its connections*)
(* and those that a move assignment lost, and keeps idle ones for callers  *)
(* that were woken.                                                        *)
(***************************************************************************)
EXTENDS PgConnection, PgDatabase, FoldProofs, SequenceTheorems

-----------------------------------------------------------------------------
(* The connection.  A sequence holds its own elements: messages have bodies *)
(* of many kinds.                                                           *)

IsSeq(s) == s \in Seq({s[k] : k \in DOMAIN s})

\* What the client sends in a login, in a query and in the extended protocol
Logins   == {"startup", "password", "sasl_first", "sasl_final"}
Extended == {"P", "B", "E"}

SendTypes ==
  CASE pc = "init"                  -> Logins
    [] pc = "query"                 -> {"Q"}
    [] pc \in {"portal", "execute"} -> Extended
    [] pc = "close"                 -> Extended \union {"C", "S"}
    [] OTHER                        -> {}

\* What may come between any two messages
Aside == {"NOTICE_RESPONSE", "PARAMETER_STATUS"}

\* The server asks the client to go on with its login.
Demand(m) == m.type = "AUTHENTICATION" /\ m.body.kind \in {"CLEAR_TEXT_PASSWORD", "SASL", "SASL_CONTINUE"}

\* The server has nothing more to say before the client speaks.
Final(m) == m.type = "READY_FOR_QUERY" \/ Demand(m)

\* A message that the client does not go on from before it is answered
Closing == Logins \union {"Q", "S"}

Quiet(w, at) == \A k \in DOMAIN w : k > at => w[k].type \in Aside

Live == pc \notin {"failed", "misread"}

\* What the client has sent ends with the message that it waits for, and what
\* the server has sent ends where it waits for the client, who waits too.
Paced ==
  /\ \A k \in DOMAIN up : up[k].type \in SendTypes /\ (up[k].type \in Closing => k = Len(up))
  /\ \A k \in DOMAIN wire : Final(wire[k]) =>
       up = <<>> /\ server.pc = "auth" /\ Quiet(wire, k) /\ pc \in {"init", "query", "close"}
  /\ pc = "idle" => Quiet(wire, 0)

PgInv ==
  /\ IsSeq(up) /\ IsSeq(wire) /\ IsSeq(unsent)
  /\ server.method \in Methods /\ {"method", "pc"} \subseteq DOMAIN server
  /\ m_query_ready <=> pc = "idle"
  /\ Live => /\ Paced
             /\ \A k \in DOMAIN unsent : pc = "portal" /\ unsent[k].type \in Extended
             /\ pc = "init" => server.pc = "auth" \/ (up # <<>> /\ up[1].type = "startup")
             /\ pc \in {"query", "idle"} => server.pc = "auth"

\* A write or flush of a caller's has thrown: the server is gone, and nothing
\* that it said but asides is left to be read.  What the connection has sent
\* and not sent no longer matters.
Lost ==
  /\ server.gone /\ IsSeq(wire) /\ Quiet(wire, 0)
  /\ pc \notin {"init", "idle"}
  /\ m_query_ready => pc = "failed" /\ server.pc = "auth"

-----------------------------------------------------------------------------
(* Sequences. *)

LEMMA SeqIs ==
  ASSUME NEW S, NEW s \in Seq(S)
  PROVE  IsSeq(s)
<1>1. Len(s) \in Nat /\ s \in [1..Len(s) -> S] /\ DOMAIN s = 1..Len(s)
  BY LenProperties
<1> DEFINE n == Len(s)
           T == {s[k] : k \in DOMAIN s}
<1>2. s \in [1..n -> T] /\ n \in Nat
  BY <1>1
<1> HIDE DEF n, T
<1>3. s \in Seq(T)
  BY <1>2
<1> QED BY <1>3 DEF IsSeq, T

LEMMA Sizes ==
  ASSUME NEW s, IsSeq(s)
  PROVE  /\ Len(s) \in Nat /\ DOMAIN s = 1..Len(s)
         /\ s = <<>> <=> Len(s) = 0
         /\ s # <<>> => 1 \in DOMAIN s
<1>1. Len(s) \in Nat /\ DOMAIN s = 1..Len(s)
  BY LenProperties DEF IsSeq
<1>2. s # <<>> => Len(s) # 0
  BY EmptySeq DEF IsSeq
<1>3. s = <<>> => Len(s) = 0
  OBVIOUS
<1> QED BY <1>1, <1>2, <1>3

LEMMA Joins ==
  ASSUME NEW s, NEW t, IsSeq(s), IsSeq(t)
  PROVE  /\ IsSeq(s \o t) /\ Len(s \o t) = Len(s) + Len(t)
         /\ \A k \in DOMAIN (s \o t) :
              \/ k \in DOMAIN s /\ (s \o t)[k] = s[k]
              \/ k - Len(s) \in DOMAIN t /\ (s \o t)[k] = t[k - Len(s)]
<1> DEFINE S == {s[k] : k \in DOMAIN s} \union {t[k] : k \in DOMAIN t}
           u == s \o t
<1>1. s \in Seq(S) /\ t \in Seq(S)
  <2> DEFINE A == {s[k] : k \in DOMAIN s}
             B == {t[k] : k \in DOMAIN t}
  <2>1. s \in Seq(A) /\ t \in Seq(B)
    BY DEF IsSeq
  <2>2. A \subseteq S /\ B \subseteq S
    OBVIOUS
  <2> HIDE DEF A, B, S
  <2> QED BY <2>1, <2>2
<1> HIDE DEF S
<1>2. /\ u \in Seq(S) /\ Len(u) = Len(s) + Len(t)
      /\ \A k \in 1..(Len(s) + Len(t)) : u[k] = IF k <= Len(s) THEN s[k] ELSE t[k - Len(s)]
  BY <1>1, ConcatProperties
<1> HIDE DEF u
<1>3. IsSeq(u) /\ DOMAIN u = 1..Len(u)
  BY <1>2, SeqIs, LenProperties
<1>4. /\ Len(s) \in Nat /\ DOMAIN s = 1..Len(s)
      /\ Len(t) \in Nat /\ DOMAIN t = 1..Len(t)
  BY Sizes
<1>5. ASSUME NEW k \in DOMAIN u
      PROVE  \/ k \in DOMAIN s /\ u[k] = s[k]
             \/ k - Len(s) \in DOMAIN t /\ u[k] = t[k - Len(s)]
  BY <1>2, <1>3, <1>4
<1> QED BY <1>2, <1>3, <1>5 DEF u

LEMMA Tails ==
  ASSUME NEW s, IsSeq(s), s # <<>>
  PROVE  /\ IsSeq(Tail(s)) /\ Len(Tail(s)) = Len(s) - 1
         /\ \A k \in DOMAIN Tail(s) : k + 1 \in DOMAIN s /\ Tail(s)[k] = s[k + 1]
<1> DEFINE S == {s[k] : k \in DOMAIN s}
           t == Tail(s)
<1>1. s \in Seq(S)
  BY DEF IsSeq
<1> HIDE DEF S
<1>2. /\ t \in Seq(S) /\ Len(t) = Len(s) - 1
      /\ \A k \in 1..Len(t) : t[k] = s[k + 1]
  BY <1>1, HeadTailProperties
<1> HIDE DEF t
<1>3. IsSeq(t) /\ DOMAIN t = 1..Len(t) /\ Len(t) \in Nat
  BY <1>2, SeqIs, LenProperties
<1>4. Len(s) \in Nat /\ DOMAIN s = 1..Len(s)
  BY Sizes
<1> QED BY <1>2, <1>3, <1>4 DEF t

LEMMA Prefix ==
  ASSUME NEW s, IsSeq(s), NEW n \in 0..Len(s)
  PROVE  /\ IsSeq(SubSeq(s, 1, n)) /\ Len(SubSeq(s, 1, n)) = n
         /\ \A k \in DOMAIN SubSeq(s, 1, n) : k \in DOMAIN s /\ SubSeq(s, 1, n)[k] = s[k]
<1> DEFINE S == {s[k] : k \in DOMAIN s}
           t == SubSeq(s, 1, n)
<1>1. Len(s) \in Nat /\ DOMAIN s = 1..Len(s)
  BY Sizes
<1>2. \A k \in 1..n : s[k] \in S
  BY <1>1
<1> HIDE DEF S
<1>3. t \in Seq(S) /\ Len(t) = n /\ \A k \in 1..n : t[k] = s[k]
  <2>1. /\ t \in Seq(S) /\ Len(t) = (IF 1 <= n THEN n - 1 + 1 ELSE 0)
        /\ \A k \in 1..(n - 1 + 1) : t[k] = s[1 + k - 1]
    BY <1>1, <1>2, SubSeqProperties
  <2> HIDE DEF t
  <2> QED BY <1>1, <2>1
<1> HIDE DEF t
<1>4. IsSeq(t) /\ DOMAIN t = 1..n
  BY <1>3, SeqIs, LenProperties
<1> QED BY <1>1, <1>3, <1>4 DEF t

LEMMA Suffix ==
  ASSUME NEW s, IsSeq(s), NEW n \in 0..Len(s)
  PROVE  /\ IsSeq(SubSeq(s, n + 1, Len(s))) /\ Len(SubSeq(s, n + 1, Len(s))) = Len(s) - n
         /\ \A k \in DOMAIN SubSeq(s, n + 1, Len(s)) :
              n + k \in DOMAIN s /\ SubSeq(s, n + 1, Len(s))[k] = s[n + k]
<1> DEFINE S == {s[k] : k \in DOMAIN s}
           m == Len(s)
           t == SubSeq(s, n + 1, m)
<1>1. m \in Nat /\ DOMAIN s = 1..m
  BY Sizes
<1>2. \A k \in (n + 1)..m : s[k] \in S
  BY <1>1
<1> HIDE DEF S, m
<1>3. t \in Seq(S) /\ Len(t) = m - n /\ \A k \in 1..(m - n) : t[k] = s[n + k]
  <2>1. /\ t \in Seq(S) /\ Len(t) = (IF n + 1 <= m THEN m - (n + 1) + 1 ELSE 0)
        /\ \A k \in 1..(m - (n + 1) + 1) : t[k] = s[(n + 1) + k - 1]
    BY <1>1, <1>2, SubSeqProperties
  <2> HIDE DEF t
  <2>2. n \in 0..m
    BY DEF m
  <2>3. m - (n + 1) + 1 = m - n /\ (IF n + 1 <= m THEN m - (n + 1) + 1 ELSE 0) = m - n
    BY <1>1, <2>2
  <2>4. ASSUME NEW k \in 1..(m - n) PROVE t[k] = s[n + k]
    <3>1. (n + 1) + k - 1 = n + k
      BY <1>1, <2>2
    <3>2. t[k] = s[(n + 1) + k - 1]
      BY <2>1, <2>3
    <3> QED BY <3>1, <3>2, Zenon
  <2> QED BY <2>1, <2>3, <2>4
<1> HIDE DEF t
<1>4. IsSeq(t) /\ DOMAIN t = 1..(m - n)
  <2>1. IsSeq(t) /\ DOMAIN t = 1..Len(t)
    BY <1>3, SeqIs, LenProperties
  <2> QED BY <1>3, <2>1
<1>5. n \in 0..m
  BY DEF m
<1>6. \A k \in DOMAIN t : n + k \in DOMAIN s /\ t[k] = s[n + k]
  BY <1>1, <1>3, <1>4, <1>5
<1>7. IsSeq(t) /\ Len(t) = m - n /\ \A k \in DOMAIN t : n + k \in DOMAIN s /\ t[k] = s[n + k]
  BY <1>3, <1>4, <1>6
<1> QED BY <1>7 DEF t, m

LEMMA Slice ==
  ASSUME NEW s, IsSeq(s), NEW n \in 0..Len(s), NEW k \in 0..n
  PROVE  /\ IsSeq(SubSeq(s, k + 1, n))
         /\ \A i \in DOMAIN SubSeq(s, k + 1, n) :
              \E j \in DOMAIN s : SubSeq(s, k + 1, n)[i] = s[j]
<1> DEFINE S == {s[i] : i \in DOMAIN s}
           t == SubSeq(s, k + 1, n)
<1>1. Len(s) \in Nat /\ DOMAIN s = 1..Len(s)
  BY Sizes
<1>2. \A i \in (k + 1)..n : s[i] \in S
  BY <1>1
<1> HIDE DEF S
<1>3. t \in Seq(S)
  BY <1>1, <1>2, SubSeqProperties
<1> HIDE DEF t
<1>4. \A i \in DOMAIN t : t[i] \in S
  BY <1>3, LenProperties
<1>5. IsSeq(t) /\ \A i \in DOMAIN t : \E j \in DOMAIN s : t[i] = s[j]
  BY <1>3, <1>4, SeqIs DEF S
<1> QED BY <1>5 DEF t

-----------------------------------------------------------------------------
(* What the server answers to a simple query is folded over the outcomes   *)
(* of its statements.                                                      *)

Reply(script) == FoldLeft(LAMBDA ms, o : ms \o Messages(o), <<>>, script)

\* Messages that do not end an answer
Plain == {Msg(t) : t \in {"ROW_DESCRIPTION", "DATA_ROW", "COMMAND_COMPLETE",
                          "EMPTY_QUERY_RESPONSE", "ERROR_RESPONSE"}}

LEMMA MessagesPlain ==
  ASSUME NEW o \in Outcomes
  PROVE  Messages(o) \in Seq(Plain)
<1>1. \A t \in {"ROW_DESCRIPTION", "DATA_ROW", "COMMAND_COMPLETE",
                "EMPTY_QUERY_RESPONSE", "ERROR_RESPONSE"} : Msg(t) \in Plain
  BY DEF Plain
<1> QED BY <1>1 DEF Outcomes, Messages, Error

IsReply(script, g) ==
  g = [T \in SUBSET (DOMAIN script) |->
         IF T = {} THEN <<>> ELSE g[T \ {Max(T)}] \o Messages(script[Max(T)])]

ReplyStep == [x \in Seq(Plain) \X Outcomes |-> x[1] \o Messages(x[2])]

LEMMA ReplyFollows ==
  ASSUME NEW script \in Seq(Outcomes)
  PROVE  /\ ReplyStep \in [Seq(Plain) \X Outcomes -> Seq(Plain)] /\ <<>> \in Seq(Plain)
         /\ \E g : Follows(Seq(Plain), ReplyStep, <<>>, script, g) /\ Reply(script) = g[1..Len(script)]
         /\ Reply(script) \in Seq(Plain)
<1> DEFINE V == Seq(Plain)
           n == Len(script)
           h == CHOOSE g : IsReply(script, g)
<1>1. ReplyStep \in [V \X Outcomes -> V]
  <2>1. \A v \in V, o \in Outcomes : v \o Messages(o) \in V
    BY MessagesPlain, ConcatProperties
  <2> HIDE DEF V
  <2> QED BY <2>1 DEF ReplyStep, V
<1>2. <<>> \in V
  OBVIOUS
<1>3. /\ n \in Nat /\ DOMAIN script = 1..n
      /\ \A T \in SUBSET (1..n) : T # {} => script[Max(T)] \in Outcomes /\ T \ {Max(T)} \in SUBSET (1..n)
  BY Positions
<1>4. \A v \in V, o \in Outcomes : ReplyStep[<<v, o>>] = v \o Messages(o)
  BY DEF ReplyStep
<1> HIDE DEF V, n
<1>5. PICK g \in [SUBSET (1..n) -> V] : Table(ReplyStep, <<>>, script, g)
  BY <1>1, <1>2, TableSolved DEF n
<1>6. IsReply(script, g)
  <2>1. ASSUME NEW T \in SUBSET (1..n), T # {}
        PROVE  ReplyStep[<<g[T \ {Max(T)}], script[Max(T)]>>] = g[T \ {Max(T)}] \o Messages(script[Max(T)])
    BY <1>3, <1>4, <2>1
  <2>2. g = [T \in SUBSET (1..n) |-> IF T = {} THEN <<>>
                ELSE ReplyStep[<<g[T \ {Max(T)}], script[Max(T)]>>]]
    BY <1>5 DEF Table, n
  <2>3. g = [T \in SUBSET (1..n) |-> IF T = {} THEN <<>>
                ELSE g[T \ {Max(T)}] \o Messages(script[Max(T)])]
    BY <2>1, <2>2
  <2> QED BY <1>3, <2>3 DEF IsReply
<1>7. IsReply(script, h)
  BY <1>6
<1>8. Reply(script) = h[1..n]
  BY <1>3 DEF Reply, IsReply, FoldLeft, MapThenFoldSet
<1> HIDE DEF h
<1>9. Follows(V, ReplyStep, <<>>, script, h)
  <2>1. ASSUME NEW T \in SUBSET (1..n), T # {}, h[T \ {Max(T)}] \in V
        PROVE  h[T] = ReplyStep[<<h[T \ {Max(T)}], script[Max(T)]>>]
    <3>1. h[T] = h[T \ {Max(T)}] \o Messages(script[Max(T)])
      BY <1>3, <1>7, <2>1 DEF IsReply
    <3> QED BY <1>3, <1>4, <2>1, <3>1
  <2>2. h[{}] = <<>>
    BY <1>7 DEF IsReply
  <2> QED BY <2>1, <2>2 DEF Follows, n
<1>10. h[1..n] \in V
  BY <1>1, <1>2, <1>9, FollowsIn DEF n
<1> QED BY <1>1, <1>2, <1>8, <1>9, <1>10 DEF V, n

LEMMA ReplyAppend ==
  ASSUME NEW script \in Seq(Outcomes), NEW o \in Outcomes
  PROVE  Reply(script) \in Seq(Plain) /\ Reply(Append(script, o)) = Reply(script) \o Messages(o)
<1>1. PICK g : Follows(Seq(Plain), ReplyStep, <<>>, script, g) /\ Reply(script) = g[1..Len(script)]
  BY ReplyFollows
<1>2. PICK t : t = Append(script, o)
  OBVIOUS
<1>3. t \in Seq(Outcomes) /\ Len(t) = Len(script) + 1
  BY <1>2, AppendProperties
<1>4. PICK h : Follows(Seq(Plain), ReplyStep, <<>>, t, h) /\ Reply(t) = h[1..Len(t)]
  BY <1>3, ReplyFollows
<1>6. StepsOnce(Seq(Plain), ReplyStep, g, Len(script), h, o)
  <2>1. ReplyStep \in [Seq(Plain) \X Outcomes -> Seq(Plain)] /\ <<>> \in Seq(Plain)
    BY ReplyFollows
  <2>2. Follows(Seq(Plain), ReplyStep, <<>>, Append(script, o), h)
    BY <1>2, <1>4
  <2>3. Follows(Seq(Plain), ReplyStep, <<>>, script, g)
    BY <1>1
  <2>4. ReplyStep \in [Seq(Plain) \X Outcomes -> Seq(Plain)]
    BY <2>1
  <2>5. <<>> \in Seq(Plain)
    BY <2>1
  <2> QED BY <2>2, <2>3, <2>4, <2>5, TableAppends
<1>5. \A v \in Seq(Plain) : ReplyStep[<<v, o>>] = v \o Messages(o)
  BY DEF ReplyStep
<1> QED BY <1>1, <1>2, <1>3, <1>4, <1>5, <1>6, ReplyFollows DEF StepsOnce

-----------------------------------------------------------------------------
(* The steps of the server. *)

\* What up, wire and unsent hold while nothing has failed
LEMMA Facts ==
  ASSUME PgInv
  PROVE  /\ Len(up) \in Nat /\ DOMAIN up = 1..Len(up)
         /\ Len(wire) \in Nat /\ DOMAIN wire = 1..Len(wire)
         /\ up # <<>> => 1 \in DOMAIN up
         /\ wire # <<>> => 1 \in DOMAIN wire
         /\ Live /\ pc = "idle" => up = <<>>
         /\ Live /\ pc # "portal" => unsent = <<>>
<1>1. /\ Len(up) \in Nat /\ DOMAIN up = 1..Len(up)
      /\ Len(wire) \in Nat /\ DOMAIN wire = 1..Len(wire)
      /\ up # <<>> => 1 \in DOMAIN up
      /\ wire # <<>> => 1 \in DOMAIN wire
      /\ unsent # <<>> => 1 \in DOMAIN unsent
  BY Sizes DEF PgInv
<1>2. Live /\ pc = "idle" => up = <<>>
  BY <1>1 DEF PgInv, Paced, SendTypes
<1>3. Live /\ pc # "portal" => unsent = <<>>
  BY <1>1 DEF PgInv
<1> QED BY <1>1, <1>2, <1>3

\* An answer ends with what the server waits after only if it answers the
\* last message.
Ends(ms) ==
  \A k \in DOMAIN ms : Final(ms[k]) =>
    Len(up) = 1 /\ server'.pc = "auth" /\ Quiet(ms, k) /\ pc \in {"init", "query", "close"}

LEMMA ServerSays ==
  ASSUME PgInv, NEW ms, IsSeq(ms), up # <<>>, Answer(ms),
         server'.method \in Methods, {"method", "pc"} \subseteq DOMAIN server',
         Live => Ends(ms) /\ (pc \in {"init", "query"} => server'.pc = "auth")
  PROVE  PgInv'
<1>1. /\ up' = Tail(up) /\ wire' = wire \o ms
      /\ UNCHANGED <<unsent, pc, m_query_ready>>
  BY DEF Answer, sessionVars
<1>2. IsSeq(up) /\ IsSeq(wire) /\ IsSeq(unsent)
  BY DEF PgInv
<1>3. /\ IsSeq(up') /\ Len(up') = Len(up) - 1
      /\ \A k \in DOMAIN up' : k + 1 \in DOMAIN up /\ up'[k] = up[k + 1]
  BY <1>1, <1>2, Tails
<1>4. /\ IsSeq(wire')
      /\ \A k \in DOMAIN wire' : \/ k \in DOMAIN wire /\ wire'[k] = wire[k]
                                 \/ k - Len(wire) \in DOMAIN ms /\ wire'[k] = ms[k - Len(wire)]
  BY <1>1, <1>2, Joins
<1>5. /\ Len(up) \in Nat /\ DOMAIN up = 1..Len(up) /\ 1 \in DOMAIN up
      /\ Len(wire) \in Nat /\ DOMAIN wire = 1..Len(wire)
      /\ Live => pc # "idle"
      /\ DOMAIN wire' \subseteq Int
      /\ DOMAIN ms = 1..Len(ms) /\ Len(ms) \in Nat
  BY <1>4, Facts, Sizes
<1>6. /\ Live' <=> Live
      /\ SendTypes' = SendTypes
  BY <1>1 DEF Live, SendTypes
<1>7. ASSUME Live PROVE Paced'
  <2>1. Paced /\ Ends(ms)
    BY <1>7 DEF PgInv
  <2>2. \A k \in DOMAIN up' : up'[k].type \in SendTypes /\ (up'[k].type \in Closing => k = Len(up'))
    <3> SUFFICES ASSUME NEW k \in DOMAIN up'
                 PROVE  up'[k].type \in SendTypes /\ (up'[k].type \in Closing => k = Len(up'))
      OBVIOUS
    <3>1. k + 1 \in DOMAIN up /\ up'[k] = up[k + 1]
      BY <1>3
    <3>2. up[k + 1].type \in SendTypes /\ (up[k + 1].type \in Closing => k + 1 = Len(up))
      BY <2>1, <3>1 DEF Paced
    <3>3. k \in Int
      BY <1>3, Sizes
    <3> QED BY <1>3, <1>5, <3>1, <3>2, <3>3
  <2>3. \A k \in DOMAIN wire : ~Final(wire[k])
    BY <2>1 DEF Paced
  <2>4. ASSUME NEW k \in DOMAIN wire', Final(wire'[k])
        PROVE  up' = <<>> /\ server'.pc = "auth" /\ Quiet(wire', k) /\ pc \in {"init", "query", "close"}
    <3>1. k - Len(wire) \in DOMAIN ms /\ wire'[k] = ms[k - Len(wire)]
      BY <1>4, <2>3, <2>4
    <3>2. /\ Len(up) = 1 /\ server'.pc = "auth" /\ pc \in {"init", "query", "close"}
          /\ Quiet(ms, k - Len(wire))
      BY <2>1, <2>4, <3>1 DEF Ends
    <3>3. up' = <<>>
      <4>1. Len(up') = 0
        BY <1>3, <3>2
      <4> QED BY <1>3, <4>1, Sizes
    <3>4. ASSUME NEW i \in DOMAIN wire', i > k PROVE wire'[i].type \in Aside
      <4>1. i \in Int /\ k \in Int /\ i - Len(wire) > k - Len(wire)
        BY <1>5, <3>4
      <4>2. i \notin DOMAIN wire
        BY <1>5, <3>1, <3>4, <4>1
      <4>3. i - Len(wire) \in DOMAIN ms /\ wire'[i] = ms[i - Len(wire)]
        BY <1>4, <4>2
      <4> QED BY <3>2, <4>1, <4>3 DEF Quiet
    <3> QED BY <3>2, <3>3, <3>4 DEF Quiet
  <2> QED BY <1>1, <1>5, <1>6, <1>7, <2>2, <2>4 DEF Paced
<1>8. ASSUME Live
      PROVE  /\ \A k \in DOMAIN unsent' : pc' = "portal" /\ unsent'[k].type \in Extended
             /\ pc' = "init" => server'.pc = "auth" \/ (up' # <<>> /\ up'[1].type = "startup")
             /\ pc' \in {"query", "idle"} => server'.pc = "auth"
  BY <1>1, <1>5, <1>8 DEF PgInv
<1>9. IsSeq(unsent') /\ (m_query_ready' <=> pc' = "idle")
  BY <1>1 DEF PgInv
<1> QED BY <1>3, <1>4, <1>6, <1>7, <1>8, <1>9 DEF PgInv

\* Asides and messages of a login or of the extended protocol that are not
\* final let the server say them to anyone.
LEMMA NothingFinal ==
  ASSUME NEW ms, \A k \in DOMAIN ms : ms[k].type \notin {"READY_FOR_QUERY", "AUTHENTICATION"}
  PROVE  Ends(ms)
BY DEF Ends, Final, Demand

\* Whose turn it is, from the message that the server looks at
LEMMA Turns ==
  ASSUME PgInv, Live, up # <<>>
  PROVE  /\ up[1].type \in Closing => Len(up) = 1
         /\ up[1].type \in Logins => pc = "init"
         /\ up[1].type = "Q" => pc = "query"
         /\ up[1].type \in {"P", "B", "E", "C", "S"} => pc \in {"portal", "execute", "close"}
         /\ up[1].type = "S" => pc = "close"
<1>1. 1 \in DOMAIN up
  BY Facts
<1>2. up[1].type \in SendTypes /\ (up[1].type \in Closing => 1 = Len(up))
  BY <1>1 DEF PgInv, Paced
<1> QED BY <1>2 DEF SendTypes, Logins, Extended

\* A last message, and a sequence of at most one
LEMMA OneSays ==
  ASSUME NEW m
  PROVE  /\ IsSeq(<<m>>) /\ DOMAIN <<m>> = {1} /\ <<m>>[1] = m
         /\ Quiet(<<m>>, 1)
<1>1. <<m>> \in Seq({m})
  OBVIOUS
<1>2. IsSeq(<<m>>)
  BY <1>1, SeqIs
<1> QED BY <1>2 DEF Quiet

LEMMA OneEnds ==
  ASSUME NEW m,
         Final(m) => Len(up) = 1 /\ server'.pc = "auth" /\ pc \in {"init", "query", "close"}
  PROVE  Ends(<<m>>)
BY OneSays DEF Ends

\* The end of a login
Greets(m) == {<<m>> \o Greeting, <<m, Auth("OK", <<>>)>> \o Greeting}

LEMMA GreetingSays ==
  ASSUME NEW m, ~Final(m), NEW s \in Greets(m)
  PROVE  /\ IsSeq(s)
         /\ Len(up) = 1 /\ server'.pc = "auth" /\ pc = "init" => Ends(s)
<1> DEFINE a == Msg("PARAMETER_STATUS")
           b == Msg("BACKEND_KEY_DATA")
           c == Msg("READY_FOR_QUERY")
           d == Auth("OK", <<>>)
<1>1. ~Final(a) /\ ~Final(b) /\ ~Final(d)
  BY DEF Final, Demand, Msg, Auth, With
<1>2. Greeting = <<a, b, c>>
  BY DEF Greeting
<1> HIDE DEF a, b, c, d
<1>3. CASE s = <<m, a, b, c>>
  <2>1. s \in Seq({m, a, b, c}) /\ DOMAIN s = 1..4
    BY <1>3
  <2>2. \A k \in DOMAIN s : Final(s[k]) => k = 4
    BY <1>1, <1>3, <2>1
  <2>3. Quiet(s, 4)
    BY <2>1 DEF Quiet
  <2> QED BY <2>1, <2>2, <2>3, SeqIs DEF Ends
<1>4. CASE s = <<m, d, a, b, c>>
  <2>1. s \in Seq({m, d, a, b, c}) /\ DOMAIN s = 1..5
    BY <1>4
  <2>2. \A k \in DOMAIN s : Final(s[k]) => k = 5
    BY <1>1, <1>4, <2>1
  <2>3. Quiet(s, 5)
    BY <2>1 DEF Quiet
  <2> QED BY <2>1, <2>2, <2>3, SeqIs DEF Ends
<1>5. s \in {<<m>> \o Greeting, <<m, d>> \o Greeting}
  BY DEF Greets, d
<1>6. s = <<m, a, b, c>> \/ s = <<m, d, a, b, c>>
  BY <1>2, <1>5
<1> QED BY <1>3, <1>4, <1>6

\* The server goes on with a login: its answer to the client's message is one
\* message, or it ends with the greeting.
LEMMA LoginSays ==
  ASSUME PgInv, up # <<>>, up[1].type \in Logins,
         server'.method \in Methods, {"method", "pc"} \subseteq DOMAIN server',
         server'.pc = IF up[1].type = "startup" THEN "auth" ELSE server.pc,
         NEW ms, Answer(ms), NEW m, ms = <<m>> \/ (ms \in Greets(m) /\ ~Final(m))
  PROVE  PgInv'
<1>1. Live => pc = "init" /\ Len(up) = 1
  BY Turns DEF Closing
<1>2. Live => server'.pc = "auth"
  BY <1>1 DEF PgInv
<1>3. CASE ms = <<m>>
  <2>1. IsSeq(ms) /\ (Live => Ends(ms))
    BY <1>1, <1>2, <1>3, OneSays, OneEnds
  <2> QED BY <1>1, <1>2, <2>1, ServerSays
<1>4. CASE ms \in Greets(m) /\ ~Final(m)
  <2>1. IsSeq(ms) /\ (Live => Ends(ms))
    BY <1>1, <1>2, <1>4, GreetingSays
  <2> QED BY <1>1, <1>2, <2>1, ServerSays
<1> QED BY <1>3, <1>4

LEMMA LoginStep ==
  ASSUME PgInv, Authenticate \/ CheckPassword \/ SaslContinue \/ SaslRefuse \/ SaslFinal
  PROVE  PgInv'
<1> DEFINE ok == Auth("OK", <<>>)
<1>1. ~Final(ok)
  BY DEF Final, Demand, Auth, With
<1>2. <<ok>> \o Greeting \in Greets(ok)
  BY DEF Greets
<1>3. server.method \in {"trust", "password", "scram", "plus", "oauth", "md5", "newer"}
  BY PgAssumption DEF PgInv
<1>4. server.method \in Methods /\ {"method", "pc"} \subseteq DOMAIN server
  BY DEF PgInv
<1>5. CASE Authenticate
  <2>1. /\ up # <<>> /\ up[1].type = "startup" /\ up[1].type \in Logins
        /\ server' = [server EXCEPT !.pc = "auth"]
    BY <1>5 DEF Authenticate, Asked, Logins
  <2>2. /\ server'.method \in Methods /\ {"method", "pc"} \subseteq DOMAIN server'
        /\ server'.pc = "auth"
    BY <1>4, <2>1
  <2>3. \/ Answer(<<ok>> \o Greeting)
        \/ \E m : Answer(<<m>>)
    BY <1>3, <1>5 DEF Authenticate
  <2> HIDE DEF ok
  <2>4. ASSUME Answer(<<ok>> \o Greeting) PROVE PgInv'
    BY <1>1, <1>2, <2>1, <2>2, <2>4, LoginSays
  <2>5. ASSUME NEW m, Answer(<<m>>) PROVE PgInv'
    BY <2>1, <2>2, <2>5, LoginSays
  <2> QED BY <2>3, <2>4, <2>5
<1>6. CASE CheckPassword
  <2>1. /\ up # <<>> /\ up[1].type = "password" /\ up[1].type \in Logins
        /\ server' = server
    BY <1>6 DEF CheckPassword, Asked, Logins
  <2>2. Answer(<<ok>> \o Greeting) \/ Answer(<<Error>>)
    BY <1>6 DEF CheckPassword
  <2> HIDE DEF ok
  <2>4. ASSUME Answer(<<ok>> \o Greeting) PROVE PgInv'
    BY <1>1, <1>2, <1>4, <2>1, <2>4, LoginSays
  <2>5. ASSUME Answer(<<Error>>) PROVE PgInv'
    BY <1>4, <2>1, <2>5, LoginSays
  <2> QED BY <2>2, <2>4, <2>5
<1>7. CASE SaslContinue
  <2>1. up # <<>> /\ up[1].type = "sasl_first" /\ up[1].type \in Logins
    BY <1>7 DEF SaslContinue, Asked, Logins
  <2>2. PICK s, m : server' = [server EXCEPT !.scram = s] /\ Answer(<<m>>)
    BY <1>7 DEF SaslContinue
  <2>3. /\ server'.method \in Methods /\ {"method", "pc"} \subseteq DOMAIN server'
        /\ server'.pc = server.pc
    BY <1>4, <2>2
  <2> QED BY <2>1, <2>2, <2>3, LoginSays
<1>8. CASE SaslFinal
  <2>1. /\ up # <<>> /\ up[1].type = "sasl_final" /\ up[1].type \in Logins
        /\ server' = [server EXCEPT !.scram = NoScram]
    BY <1>8 DEF SaslFinal, Asked, Logins
  <2>2. /\ server'.method \in Methods /\ {"method", "pc"} \subseteq DOMAIN server'
        /\ server'.pc = server.pc
    BY <1>4, <2>1
  <2> DEFINE G(b) == <<Auth("SASL_FINAL", b), ok>> \o Greeting
  <2>3. (\E b : Answer(G(b))) \/ Answer(<<Error>>)
    BY <1>8 DEF SaslFinal
  <2>4. ASSUME NEW b, Answer(G(b)) PROVE PgInv'
    <3>1. ~Final(Auth("SASL_FINAL", b))
      BY DEF Final, Demand, Auth, With
    <3>2. G(b) \in Greets(Auth("SASL_FINAL", b))
      BY DEF Greets
    <3> HIDE DEF G
    <3> QED BY <2>1, <2>2, <2>4, <3>1, <3>2, LoginSays
  <2> HIDE DEF G, ok
  <2>5. ASSUME Answer(<<Error>>) PROVE PgInv'
    BY <2>1, <2>2, <2>5, LoginSays
  <2> QED BY <2>3, <2>4, <2>5
<1>9. CASE SaslRefuse
  <2>1. up # <<>> /\ up[1].type = "sasl_first" /\ up[1].type \in Logins /\ server' = server
    BY <1>9 DEF SaslRefuse, Asked, Logins
  <2>2. Answer(<<Error>>)
    BY <1>9 DEF SaslRefuse
  <2> QED BY <1>4, <2>1, <2>2, LoginSays
<1> QED BY <1>5, <1>6, <1>7, <1>8, <1>9

\* The server answers a simple query.
LEMMA QueryAnswered ==
  ASSUME PgInv, AnswerQuery
  PROVE  PgInv'
<1> DEFINE m == Msg("READY_FOR_QUERY")
<1>1. up # <<>> /\ up[1].type = "Q"
  BY DEF AnswerQuery, Asked
<1>2. PICK script \in Scripts : /\ server' = [server EXCEPT !.outcomes = script]
                                /\ Answer(Reply(script) \o <<m>>)
  BY DEF AnswerQuery, Reply
<1> HIDE DEF m
<1> DEFINE s == Reply(script)
<1>3. s \in Seq(Plain)
  BY ReplyFollows, PgAssumption
<1> HIDE DEF s
<1>4. IsSeq(s) /\ IsSeq(<<m>>) /\ DOMAIN <<m>> = {1} /\ <<m>>[1] = m /\ Len(<<m>>) = 1
  BY <1>3, SeqIs, OneSays
<1>5. Len(s) \in Nat /\ DOMAIN s = 1..Len(s)
  BY <1>4, Sizes
<1>6. \A k \in DOMAIN s : ~Final(s[k])
  <2>1. \A k \in DOMAIN s : s[k] \in Plain
    BY <1>3, <1>5
  <2> QED BY <2>1 DEF Plain, Final, Demand, Msg
<1> DEFINE ms == s \o <<m>>
<1>7. /\ IsSeq(ms) /\ Len(ms) = Len(s) + 1
      /\ \A k \in DOMAIN ms : \/ k \in DOMAIN s /\ ms[k] = s[k]
                              \/ k - Len(s) \in {1}
  BY <1>4, Joins
<1> HIDE DEF ms
<1>8. DOMAIN ms = 1..(Len(s) + 1)
  BY <1>7, Sizes
<1>9. Live => Len(up) = 1 /\ pc = "query" /\ server.pc = "auth"
  BY <1>1, Turns DEF Closing, PgInv
<1>10. /\ server'.method \in Methods /\ {"method", "pc"} \subseteq DOMAIN server'
       /\ server'.pc = server.pc
  BY <1>2 DEF PgInv
<1>11. ASSUME Live PROVE Ends(ms)
  <2>1. \A k \in DOMAIN ms : Final(ms[k]) => k = Len(s) + 1
    BY <1>5, <1>6, <1>7, <1>8
  <2>2. Quiet(ms, Len(s) + 1)
    BY <1>5, <1>8 DEF Quiet
  <2> QED BY <1>9, <1>10, <1>11, <2>1, <2>2 DEF Ends
<1>12. Answer(ms)
  BY <1>2 DEF ms, s
<1> QED BY <1>1, <1>7, <1>9, <1>10, <1>11, <1>12, ServerSays

\* The server answers a message of the extended protocol.
LEMMA ExtendedAnswered ==
  ASSUME PgInv, AnswerExtended
  PROVE  PgInv'
<1>1. up # <<>> /\ up[1].type \in {"P", "B", "E", "C", "S"}
  BY DEF AnswerExtended
<1>2. Live => /\ pc \in {"portal", "execute", "close"}
              /\ up[1].type = "S" => pc = "close" /\ Len(up) = 1
  BY <1>1, Turns DEF Closing
<1>3. PICK p, v : /\ server' = [server EXCEPT !.pc = p, !.values = v]
                  /\ up[1].type = "S" => p = "auth"
  BY DEF AnswerExtended
<1>4. /\ server'.method \in Methods /\ {"method", "pc"} \subseteq DOMAIN server'
      /\ up[1].type = "S" => server'.pc = "auth"
  BY <1>3 DEF PgInv
<1> DEFINE Ones == {<<Error>>, <<Msg("PARSE_COMPLETE")>>, <<Msg("BIND_COMPLETE")>>,
                    <<Msg("COMMAND_COMPLETE")>>, <<Msg("EMPTY_QUERY_RESPONSE")>>,
                    <<Msg("CLOSE_COMPLETE")>>}
<1>5. \/ Answer(<<>>)
      \/ \E ms \in Ones : Answer(ms)
      \/ \E b, t : Answer(<<With("DATA_ROW", b), Msg(t)>>) /\ t \in {"PORTAL_SUSPENDED", "COMMAND_COMPLETE"}
      \/ up[1].type = "S" /\ Answer(<<Msg("READY_FOR_QUERY")>>)
  BY <1>1 DEF AnswerExtended
<1>6. ASSUME NEW ms, Answer(ms), IsSeq(ms), Live => Ends(ms) PROVE PgInv'
  BY <1>1, <1>2, <1>4, <1>6, ServerSays
<1>7. ASSUME Answer(<<>>) PROVE PgInv'
  <2>0. <<>> \in Seq({})
    OBVIOUS
  <2>1. IsSeq(<<>>)
    BY <2>0, SeqIs
  <2>2. Ends(<<>>)
    BY DEF Ends
  <2> QED BY <1>6, <1>7, <2>1, <2>2
<1>8. ASSUME NEW ms \in Ones, Answer(ms) PROVE PgInv'
  <2>1. PICK m : ms = <<m>> /\ ~Final(m)
    BY DEF Final, Demand, Error, Msg
  <2>2. IsSeq(ms) /\ Ends(ms)
    BY <2>1, OneSays, OneEnds
  <2> QED BY <1>6, <1>8, <2>2
<1>9. ASSUME NEW b, NEW t \in {"PORTAL_SUSPENDED", "COMMAND_COMPLETE"},
             Answer(<<With("DATA_ROW", b), Msg(t)>>)
      PROVE  PgInv'
  <2> DEFINE c == With("DATA_ROW", b)
             d == Msg(t)
  <2>1. ~Final(c) /\ ~Final(d)
    BY DEF Final, Demand, With, Msg
  <2>2. Answer(<<c, d>>)
    BY <1>9
  <2> HIDE DEF c, d
  <2>3. <<c, d>> \in Seq({c, d})
    OBVIOUS
  <2>4. Ends(<<c, d>>)
    BY <2>1 DEF Ends
  <2> QED BY <1>6, <2>2, <2>3, <2>4, SeqIs
<1>10. ASSUME up[1].type = "S", Answer(<<Msg("READY_FOR_QUERY")>>) PROVE PgInv'
  <2> DEFINE m == Msg("READY_FOR_QUERY")
  <2>1. IsSeq(<<m>>)
    BY OneSays
  <2> HIDE DEF m
  <2>2. Live => Ends(<<m>>)
    BY <1>2, <1>4, <1>10, OneEnds
  <2> QED BY <1>6, <1>10, <2>1, <2>2 DEF m
<1> HIDE DEF Ones
<1> QED BY <1>5, <1>7, <1>8, <1>9, <1>10

-----------------------------------------------------------------------------
(* The steps of the client. *)

\* What the client has not read is as the server left it.
LEMMA WireRead ==
  ASSUME PgInv, wire # <<>>, wire' = Tail(wire)
  PROVE  /\ IsSeq(wire')
         /\ \A k \in DOMAIN wire' : k + 1 \in DOMAIN wire /\ wire'[k] = wire[k + 1]
         /\ DOMAIN wire' \subseteq Nat /\ DOMAIN wire = 1..Len(wire) /\ Len(wire) \in Nat
         /\ \A k \in Nat : Quiet(wire, k + 1) => Quiet(wire', k)
<1>1. /\ IsSeq(wire')
      /\ \A k \in DOMAIN wire' : k + 1 \in DOMAIN wire /\ wire'[k] = wire[k + 1]
  BY Tails DEF PgInv
<1>2. DOMAIN wire' \subseteq Nat /\ DOMAIN wire = 1..Len(wire) /\ Len(wire) \in Nat
  BY <1>1, Facts, Sizes
<1>3. \A k \in Nat : Quiet(wire, k + 1) => Quiet(wire', k)
  BY <1>1, <1>2 DEF Quiet
<1> QED BY <1>1, <1>2, <1>3

\* A message is read and nothing is answered.
LEMMA Reads ==
  ASSUME PgInv, wire # <<>>, wire' = Tail(wire), UNCHANGED <<server, up, unsent, m_query_ready>>,
         pc' = pc \/ (pc # "idle" /\ pc' \in {"failed", "misread"})
  PROVE  PgInv'
<1>1. /\ IsSeq(wire')
      /\ \A k \in DOMAIN wire' : k + 1 \in DOMAIN wire /\ wire'[k] = wire[k + 1]
      /\ DOMAIN wire' \subseteq Nat
      /\ \A k \in Nat : Quiet(wire, k + 1) => Quiet(wire', k)
  BY WireRead
<1>2. m_query_ready' <=> pc' = "idle"
  BY DEF PgInv
<1>3. Live' => Live /\ pc' = pc /\ SendTypes' = SendTypes
  BY DEF Live, SendTypes
<1>4. ASSUME Live' PROVE Paced'
  <2>1. Paced
    BY <1>3, <1>4 DEF PgInv
  <2>2. \A k \in DOMAIN wire' : Final(wire'[k]) =>
          up' = <<>> /\ server'.pc = "auth" /\ Quiet(wire', k) /\ pc' \in {"init", "query", "close"}
    BY <1>1, <1>3, <1>4, <2>1 DEF Paced
  <2>3. pc' = "idle" => Quiet(wire', 0)
    <3>1. Quiet(wire, 0) => Quiet(wire, 1)
      BY Facts DEF Quiet
    <3> QED BY <1>1, <1>3, <1>4, <2>1, <3>1 DEF Paced
  <2>4. \A k \in DOMAIN up' : up'[k].type \in SendTypes' /\ (up'[k].type \in Closing => k = Len(up'))
    BY <1>3, <1>4, <2>1 DEF Paced
  <2> QED BY <2>2, <2>3, <2>4 DEF Paced
<1>5. ASSUME Live'
      PROVE  /\ \A k \in DOMAIN unsent' : pc' = "portal" /\ unsent'[k].type \in Extended
             /\ pc' = "init" => server'.pc = "auth" \/ (up' # <<>> /\ up'[1].type = "startup")
             /\ pc' \in {"query", "idle"} => server'.pc = "auth"
  BY <1>3, <1>5 DEF PgInv
<1>6. /\ IsSeq(up') /\ IsSeq(unsent')
      /\ server'.method \in Methods /\ {"method", "pc"} \subseteq DOMAIN server'
  BY DEF PgInv
<1> QED BY <1>1, <1>2, <1>4, <1>5, <1>6 DEF PgInv

\* ReadyForQuery ends a login, a query and close_sync.
LEMMA Readies ==
  ASSUME PgInv, pc \in {"init", "query", "close"}, Takes({"READY_FOR_QUERY"}),
         m_query_ready' = TRUE, pc' = "idle", UNCHANGED <<up, unsent>>
  PROVE  PgInv'
<1>1. /\ wire # <<>> /\ wire[1].type = "READY_FOR_QUERY" /\ wire' = Tail(wire)
      /\ UNCHANGED server /\ Live
  BY DEF Takes, Live
<1>2. /\ IsSeq(wire')
      /\ \A k \in DOMAIN wire' : k + 1 \in DOMAIN wire /\ wire'[k] = wire[k + 1]
      /\ DOMAIN wire' \subseteq Nat
      /\ \A k \in Nat : Quiet(wire, k + 1) => Quiet(wire', k)
  BY <1>1, WireRead
<1>3. up = <<>> /\ server.pc = "auth" /\ Quiet(wire, 1) /\ unsent = <<>>
  BY <1>1, Facts DEF PgInv, Paced, Final
<1>4. Quiet(wire', 0)
  BY <1>2, <1>3
<1>5. \A k \in DOMAIN wire' : ~Final(wire'[k])
  <2>1. \A k \in DOMAIN wire' : wire'[k].type \in Aside
    <3>1. \A k \in DOMAIN wire' : k > 0
      BY <1>2, Sizes
    <3> QED BY <1>4, <3>1 DEF Quiet
  <2> QED BY <2>1 DEF Aside, Final, Demand
<1>6. up' = <<>> /\ unsent' = <<>>
  BY <1>3
<1>7. Paced'
  BY <1>4, <1>5, <1>6 DEF Paced
<1> QED BY <1>1, <1>2, <1>3, <1>6, <1>7 DEF PgInv

\* What the client sends follows what it has sent.
LEMMA Sends ==
  ASSUME PgInv, NEW ms, IsSeq(ms), Send(ms), NEW T, T \intersect Closing = {}, NEW U,
         \A k \in DOMAIN up : up[k].type \in T,
         \A k \in DOMAIN unsent : unsent[k].type \in T,
         \A k \in DOMAIN ms : ms[k].type \in U /\ (ms[k].type \in Closing => k = Len(ms))
  PROVE  /\ IsSeq(up') /\ unsent' = <<>>
         /\ \A k \in DOMAIN up' : /\ up'[k].type \in T \union U
                                  /\ up'[k].type \in Closing => k = Len(up')
<1>0. PICK v : v = up \o unsent
  OBVIOUS
<1>1. IsSeq(up) /\ IsSeq(unsent)
  BY DEF PgInv
<1>2. /\ IsSeq(v)
      /\ \A k \in DOMAIN v : \/ k \in DOMAIN up /\ v[k] = up[k]
                             \/ k - Len(up) \in DOMAIN unsent /\ v[k] = unsent[k - Len(up)]
  BY <1>0, <1>1, Joins
<1>3. up' = v \o ms /\ unsent' = <<>>
  BY <1>0 DEF Send
<1>7. \A k \in DOMAIN v : v[k].type \in T
  BY <1>2
<1>4. /\ IsSeq(up') /\ Len(up') = Len(v) + Len(ms)
      /\ \A k \in DOMAIN up' : \/ k \in DOMAIN v /\ up'[k] = v[k]
                               \/ k - Len(v) \in DOMAIN ms /\ up'[k] = ms[k - Len(v)]
  BY <1>2, <1>3, Joins
<1>5. DOMAIN up' \subseteq Int /\ Len(v) \in Nat /\ Len(ms) \in Nat
  BY <1>2, <1>4, Sizes
<1>6. \A k \in DOMAIN up' : /\ up'[k].type \in T \union U
                            /\ up'[k].type \in Closing => k = Len(up')
  BY <1>4, <1>5, <1>7
<1> QED BY <1>3, <1>4, <1>6

\* What the client writes follows what it has written, sent or not.
LEMMA WriteKeeps ==
  ASSUME PgInv, NEW ms, IsSeq(ms), Write(ms), NEW T,
         \A k \in DOMAIN up : up[k].type \in T,
         \A k \in DOMAIN unsent : unsent[k].type \in T,
         \A k \in DOMAIN ms : ms[k].type \in T
  PROVE  /\ IsSeq(up') /\ IsSeq(unsent')
         /\ \A k \in DOMAIN up' : up'[k].type \in T
         /\ \A k \in DOMAIN unsent' : unsent'[k].type \in T
<1>0. PICK v : v = unsent \o ms
  OBVIOUS
<1>1. IsSeq(up) /\ IsSeq(unsent)
  BY DEF PgInv
<1>2. IsSeq(v) /\ \A k \in DOMAIN v : v[k].type \in T
  BY <1>0, <1>1, Joins
<1>3. Len(v) \in Nat
  BY <1>2, Sizes
<1>4. PICK k \in 0..(Len(v) - 1) : up' = up \o SubSeq(v, 1, k) /\ unsent' = SubSeq(v, k + 1, Len(v))
  BY <1>0 DEF Write
<1>5. k \in 0..Len(v) /\ Len(v) \in 0..Len(v)
  BY <1>3, <1>4
<1>6. PICK p : p = SubSeq(v, 1, k)
  OBVIOUS
<1>7. IsSeq(p) /\ \A i \in DOMAIN p : p[i].type \in T
  BY <1>2, <1>5, <1>6, Prefix
<1>8. IsSeq(up') /\ \A i \in DOMAIN up' : up'[i].type \in T
  <2>1. up' = up \o p
    BY <1>4, <1>6
  <2> QED BY <1>1, <1>7, <2>1, Joins
<1>9. IsSeq(unsent') /\ \A i \in DOMAIN unsent' : unsent'[i].type \in T
  <2>1. /\ IsSeq(unsent')
        /\ \A i \in DOMAIN unsent' : \E j \in DOMAIN v : unsent'[i] = v[j]
    BY <1>2, <1>4, <1>5, Slice
  <2> QED BY <1>2, <2>1
<1> QED BY <1>8, <1>9

\* A write or flush throws.
LEMMA FailKeeps ==
  ASSUME PgInv, NEW ms, IsSeq(ms), SendFails(ms)
  PROVE  IsSeq(up') /\ IsSeq(unsent')
<1>0. PICK v : v = unsent \o ms
  OBVIOUS
<1>1. IsSeq(up) /\ IsSeq(v)
  BY <1>0, Joins DEF PgInv
<1>2. Len(v) \in Nat
  BY <1>1, Sizes
<1>3. PICK n \in 1..Len(v) : \E k \in 0..(n - 1) :
        up' = up \o SubSeq(v, 1, k) /\ unsent' = SubSeq(v, k + 1, n)
  BY <1>0 DEF SendFails
<1>4. PICK k \in 0..(n - 1) : up' = up \o SubSeq(v, 1, k) /\ unsent' = SubSeq(v, k + 1, n)
  BY <1>3
<1>5. n \in 0..Len(v) /\ k \in 0..n /\ k \in 0..Len(v)
  BY <1>2, <1>3, <1>4
<1>6. IsSeq(SubSeq(v, 1, k)) /\ IsSeq(SubSeq(v, k + 1, n))
  BY <1>1, <1>5, Prefix, Slice
<1> QED BY <1>1, <1>4, <1>6, Joins

\* Then a connection that was ready is lost, and any other has failed.
LEMMA FailStep ==
  ASSUME PgInv, NEW ms, IsSeq(ms), SendFails(ms), UNCHANGED <<server, m_query_ready>>,
         wire' = wire \/ (pc # "idle" /\ wire # <<>> /\ wire' = Tail(wire))
  PROVE  PgInv' \/ Lost'
<1>1. IsSeq(up') /\ IsSeq(unsent') /\ pc' = "failed" /\ server.gone
  BY FailKeeps DEF SendFails
<1>2. IsSeq(wire')
  BY WireRead DEF PgInv
<1>3. CASE pc = "idle"
  <2>1. Quiet(wire, 0) /\ server.pc = "auth" /\ wire' = wire
    BY <1>3 DEF PgInv, Live, Paced
  <2> QED BY <1>1, <1>2, <2>1 DEF Lost, Quiet
<1>4. CASE pc # "idle"
  BY <1>1, <1>2, <1>4 DEF PgInv, Live
<1> QED BY <1>3, <1>4

LEMMA NoneIs == ASSUME NEW s, s = <<>> PROVE IsSeq(s) /\ DOMAIN s = {}
<1>1. s \in Seq({}) /\ DOMAIN s = {}
  OBVIOUS
<1> QED BY <1>1, SeqIs

\* Nothing that the server has sent ends its turn while the client may speak.
LEMMA Unfinished ==
  ASSUME PgInv, pc \in {"portal", "execute", "idle"}
  PROVE  \A k \in DOMAIN wire : ~Final(wire[k])
<1>1. Live /\ Paced
  BY DEF PgInv, Live
<1>2. CASE pc \in {"portal", "execute"}
  BY <1>1, <1>2 DEF Paced
<1>3. CASE pc = "idle"
  <2>1. \A k \in DOMAIN wire : wire[k].type \in Aside
    BY <1>1, <1>3, Facts DEF Paced, Quiet
  <2> QED BY <2>1 DEF Aside, Final, Demand
<1> QED BY <1>2, <1>3

\* The client goes on, with something to read that ends no turn.
LEMMA GoesOn ==
  ASSUME PgInv, UNCHANGED server, pc' \in {"init", "query", "portal", "execute", "close"},
         m_query_ready' = FALSE, pc' \in {"init", "query"} => server.pc = "auth",
         IsSeq(wire'), \A k \in DOMAIN wire' : ~Final(wire'[k]),
         IsSeq(up'), \A k \in DOMAIN up' : /\ up'[k].type \in SendTypes'
                                           /\ up'[k].type \in Closing => k = Len(up'),
         IsSeq(unsent'), \A k \in DOMAIN unsent' : pc' = "portal" /\ unsent'[k].type \in Extended
  PROVE  PgInv'
<1>1. Paced'
  BY DEF Paced
<1> QED BY <1>1 DEF PgInv

\* A message is sent.
LEMMA OneSends ==
  ASSUME NEW m, NEW U, m.type \in U
  PROVE  /\ IsSeq(<<m>>)
         /\ \A k \in DOMAIN <<m>> : <<m>>[k].type \in U /\ (<<m>>[k].type \in Closing => k = Len(<<m>>))
BY OneSays

\* Close and Sync are sent, after what else the portal took.
LEMMA Closes ==
  ASSUME PgInv, pc \in {"portal", "execute"}, pc' = "close", Send(<<Msg("C"), Msg("S")>>),
         UNCHANGED <<server, m_query_ready>>,
         IsSeq(wire'), \A k \in DOMAIN wire' : ~Final(wire'[k])
  PROVE  PgInv'
<1> DEFINE c == Msg("C")
           d == Msg("S")
<1>1. c.type = "C" /\ d.type = "S"
  BY DEF Msg
<1>2. Send(<<c, d>>)
  OBVIOUS
<1> HIDE DEF c, d
<1>3. <<c, d>> \in Seq({c, d})
  OBVIOUS
<1>4. IsSeq(<<c, d>>)
  BY <1>3, SeqIs
<1> DEFINE ms == <<c, d>>
<1>5. \A k \in DOMAIN ms : ms[k].type \in {"C", "S"} /\ (ms[k].type \in Closing => k = Len(ms))
  BY <1>1 DEF Closing, Logins
<1> HIDE DEF ms
<1>6. /\ \A k \in DOMAIN up : up[k].type \in Extended
      /\ \A k \in DOMAIN unsent : unsent[k].type \in Extended
      /\ m_query_ready = FALSE
  BY DEF PgInv, Live, Paced, SendTypes
<1>7. Extended \intersect Closing = {}
  BY DEF Extended, Closing, Logins
<1>8. IsSeq(ms) /\ Send(ms)
  BY <1>2, <1>4 DEF ms
<1>9. /\ IsSeq(up') /\ unsent' = <<>>
      /\ \A k \in DOMAIN up' : /\ up'[k].type \in Extended \union {"C", "S"}
                               /\ up'[k].type \in Closing => k = Len(up')
  BY <1>5, <1>6, <1>7, <1>8, Sends
<1>10. SendTypes' = Extended \union {"C", "S"}
  BY DEF SendTypes
<1>11. IsSeq(unsent') /\ DOMAIN unsent' = {}
  BY <1>9, NoneIs
<1>12. m_query_ready' = FALSE
  BY <1>6
<1> HIDE DEF ms
<1> QED BY <1>9, <1>10, <1>11, <1>12, GoesOn

LEMMA CloseStep ==
  ASSUME PgInv, ExecuteDone \/ CloseSync
  PROVE  PgInv' \/ Lost'
<1>1. /\ ClosesPortal /\ UNCHANGED <<server, m_query_ready>>
      /\ pc \in {"portal", "execute"}
      /\ wire' = wire \/ (wire # <<>> /\ wire' = Tail(wire))
  BY DEF ExecuteDone, CloseSync, Completed, Takes
<1>2. IsSeq(wire') /\ \A k \in DOMAIN wire' : ~Final(wire'[k])
  BY <1>1, WireRead, Unfinished DEF PgInv
<1>3. CASE Send(<<Msg("C"), Msg("S")>>) /\ pc' = "close"
  BY <1>1, <1>2, <1>3, Closes
<1>4. CASE SendFails(<<Msg("C"), Msg("S")>>)
  <2> DEFINE c == Msg("C")
             d == Msg("S")
  <2>1. SendFails(<<c, d>>)
    BY <1>4
  <2> HIDE DEF c, d
  <2>2. <<c, d>> \in Seq({c, d})
    OBVIOUS
  <2>3. IsSeq(<<c, d>>)
    BY <2>2, SeqIs
  <2> QED BY <1>1, <2>1, <2>3, FailStep
<1> QED BY <1>1, <1>3, <1>4 DEF ClosesPortal

\* The portal is suspended: the caller goes on with it.
LEMMA SuspendStep ==
  ASSUME PgInv, ExecuteSuspended
  PROVE  PgInv'
<1>1. /\ wire # <<>> /\ wire' = Tail(wire) /\ UNCHANGED <<server, up, unsent, m_query_ready>>
      /\ pc = "execute" /\ pc' = "portal"
  BY DEF ExecuteSuspended, Takes
<1>2. IsSeq(wire') /\ \A k \in DOMAIN wire' : ~Final(wire'[k])
  BY <1>1, WireRead, Unfinished
<1>3. Live /\ Paced /\ m_query_ready = FALSE /\ IsSeq(up) /\ IsSeq(unsent)
  BY <1>1 DEF PgInv, Live
<1>5. \A k \in DOMAIN unsent' : pc' = "portal" /\ unsent'[k].type \in Extended
  BY <1>1, <1>3 DEF PgInv
<1>4. \A k \in DOMAIN up' : up'[k].type \in SendTypes' /\ (up'[k].type \in Closing => k = Len(up'))
  <2>1. SendTypes' = SendTypes
    BY <1>1 DEF SendTypes
  <2> QED BY <1>1, <1>3, <2>1 DEF Paced
<1> QED BY <1>1, <1>2, <1>3, <1>4, <1>5, GoesOn

\* Query, and what execute sends
LEMMA CallStep ==
  ASSUME PgInv, Query \/ Execute
  PROVE  PgInv' \/ Lost'
<1>1. ASSUME NEW t, NEW ms, ms = <<Msg(t)>>
      PROVE  IsSeq(ms) /\ \A k \in DOMAIN ms : ms[k].type \in {t} /\ (ms[k].type \in Closing => k = Len(ms))
  <2> DEFINE a == Msg(t)
  <2>1. a.type \in {t} /\ ms = <<a>>
    BY <1>1 DEF Msg
  <2> HIDE DEF a
  <2> QED BY <2>1, OneSends
<1>2. pc \in {"idle", "portal"} /\ IsSeq(wire) /\ UNCHANGED <<server, wire>>
  BY DEF Query, MayQuery, Execute, PgInv
<1>6. ASSUME NEW m, SendFails(<<m>>), UNCHANGED m_query_ready
      PROVE  PgInv' \/ Lost'
  <2>1. IsSeq(<<m>>)
    BY OneSays
  <2> QED BY <1>2, <1>6, <2>1, FailStep
<1>3. \A k \in DOMAIN wire' : ~Final(wire'[k])
  BY <1>2, Unfinished
<1>4. CASE Query /\ ~SendFails(<<Msg("Q")>>)
  <2>1. pc = "idle" /\ pc' = "query" /\ m_query_ready' = FALSE /\ Send(<<Msg("Q")>>)
    BY <1>4 DEF Query, MayQuery, PgInv
  <2>2. up = <<>> /\ unsent = <<>> /\ server.pc = "auth"
    BY <2>1, Facts DEF Live, PgInv
  <2>3. PICK ms : ms = <<Msg("Q")>>
    OBVIOUS
  <2>4. DOMAIN up = {} /\ DOMAIN unsent = {}
    BY <2>2
  <2>5. /\ IsSeq(up') /\ unsent' = <<>>
        /\ \A k \in DOMAIN up' : /\ up'[k].type \in {} \union {"Q"}
                                 /\ up'[k].type \in Closing => k = Len(up')
    <3>1. IsSeq(ms) /\ \A k \in DOMAIN ms : ms[k].type \in {"Q"} /\ (ms[k].type \in Closing => k = Len(ms))
      BY <1>1, <2>3
    <3>2. Send(ms) /\ {} \intersect Closing = {}
      BY <2>1, <2>3
    <3>3. /\ \A k \in DOMAIN up : up[k].type \in {}
          /\ \A k \in DOMAIN unsent : unsent[k].type \in {}
      BY <2>4
    <3> QED BY <3>1, <3>2, <3>3, Sends
  <2>6. SendTypes' = {"Q"}
    BY <2>1 DEF SendTypes
  <2>7. IsSeq(unsent') /\ DOMAIN unsent' = {}
    BY <2>5, NoneIs
  <2> QED BY <1>2, <1>3, <2>1, <2>2, <2>5, <2>6, <2>7, GoesOn
<1>5. CASE Execute /\ ~SendFails(<<Msg("E")>>)
  <2>1. pc = "portal" /\ pc' = "execute" /\ UNCHANGED m_query_ready /\ Send(<<Msg("E")>>)
    BY <1>5 DEF Execute
  <2>2. /\ \A k \in DOMAIN up : up[k].type \in Extended
        /\ \A k \in DOMAIN unsent : unsent[k].type \in Extended
        /\ m_query_ready = FALSE
    BY <2>1 DEF PgInv, Live, Paced, SendTypes
  <2>3. PICK ms : ms = <<Msg("E")>>
    OBVIOUS
  <2>4. Extended \intersect Closing = {}
    BY DEF Extended, Closing, Logins
  <2>5. /\ IsSeq(up') /\ unsent' = <<>>
        /\ \A k \in DOMAIN up' : /\ up'[k].type \in Extended \union {"E"}
                                 /\ up'[k].type \in Closing => k = Len(up')
    <3>1. IsSeq(ms) /\ \A k \in DOMAIN ms : ms[k].type \in {"E"} /\ (ms[k].type \in Closing => k = Len(ms))
      BY <1>1, <2>3
    <3>2. Send(ms)
      BY <2>1, <2>3
    <3> QED BY <2>2, <2>4, <3>1, <3>2, Sends
  <2>6. SendTypes' = Extended /\ "E" \in Extended
    BY <2>1 DEF SendTypes, Extended
  <2>7. IsSeq(unsent') /\ DOMAIN unsent' = {}
    BY <2>5, NoneIs
  <2>8. m_query_ready' = FALSE
    BY <2>1, <2>2
  <2> QED BY <1>2, <1>3, <2>1, <2>5, <2>6, <2>7, <2>8, GoesOn
<1>7. CASE Query /\ SendFails(<<Msg("Q")>>)
  <2>1. UNCHANGED m_query_ready
    BY <1>7 DEF Query, SendFails
  <2> QED BY <1>6, <1>7, <2>1
<1>8. CASE Execute /\ SendFails(<<Msg("E")>>)
  BY <1>6, <1>8 DEF Execute
<1> QED BY <1>4, <1>5, <1>7, <1>8

\* prepare_query keeps what it would send.
LEMMA PrepareStep ==
  ASSUME PgInv, PrepareQuery
  PROVE  PgInv' \/ Lost'
<1>1. pc = "idle" /\ UNCHANGED <<server, wire>>
  BY DEF PrepareQuery, MayQuery, PgInv
<1>2. PICK b : \/ /\ Write(<<Msg("P"), With("B", b)>>)
                  /\ pc' = "portal" /\ m_query_ready' = FALSE
               \/ SendFails(<<Msg("P"), With("B", b)>>) /\ UNCHANGED m_query_ready
  BY DEF PrepareQuery
<1> DEFINE c == Msg("P")
           d == With("B", b)
<1>3. c.type \in Extended /\ d.type \in Extended
  BY DEF Msg, With, Extended
<1>4. up = <<>> /\ unsent = <<>>
  BY <1>1, Facts DEF Live
<1>5. \/ Write(<<c, d>>) /\ pc' = "portal" /\ m_query_ready' = FALSE
      \/ SendFails(<<c, d>>) /\ UNCHANGED m_query_ready
  BY <1>2
<1> HIDE DEF c, d
<1>6. <<c, d>> \in Seq({c, d})
  OBVIOUS
<1>7. PICK ms : ms = <<c, d>>
  OBVIOUS
<1>8. IsSeq(ms) /\ \A k \in DOMAIN ms : ms[k].type \in Extended
  <2>1. IsSeq(ms)
    BY <1>6, <1>7, SeqIs
  <2>2. \A k \in DOMAIN ms : ms[k] = c \/ ms[k] = d
    BY <1>7
  <2> QED BY <1>3, <2>1, <2>2
<1>9. IsSeq(wire') /\ \A k \in DOMAIN wire' : ~Final(wire'[k])
  BY <1>1, Unfinished DEF PgInv
<1>10. CASE Write(ms) /\ pc' = "portal" /\ m_query_ready' = FALSE
  <2>1. DOMAIN up = {} /\ DOMAIN unsent = {}
    BY <1>4
  <2>2. /\ IsSeq(up') /\ IsSeq(unsent')
        /\ \A k \in DOMAIN up' : up'[k].type \in Extended
        /\ \A k \in DOMAIN unsent' : unsent'[k].type \in Extended
    BY <1>8, <1>10, <2>1, WriteKeeps
  <2>3. SendTypes' = Extended /\ Extended \intersect Closing = {}
    BY <1>10 DEF SendTypes, Extended, Closing, Logins
  <2> QED BY <1>1, <1>9, <1>10, <2>2, <2>3, GoesOn
<1>11. CASE SendFails(ms) /\ UNCHANGED m_query_ready
  BY <1>1, <1>8, <1>11, FailStep
<1> QED BY <1>5, <1>7, <1>10, <1>11

\* A login goes on with an answer to a demand, or it ends.
LEMMA AuthStep ==
  ASSUME PgInv, HandleAuth
  PROVE  PgInv' \/ Lost'
<1>1. /\ pc = "init" /\ wire # <<>> /\ wire[1].type = "AUTHENTICATION" /\ wire' = Tail(wire)
      /\ UNCHANGED server /\ Live
  BY DEF HandleAuth, Takes, Live
<1>2. \/ UNCHANGED <<up, unsent, sessionVars>>
      \/ Throw
      \/ /\ UNCHANGED <<pc, m_query_ready>>
         /\ wire[1].body.kind \in {"CLEAR_TEXT_PASSWORD", "SASL", "SASL_CONTINUE"}
         /\ \E b : \E t \in {"password", "sasl_first", "sasl_final"} : Send(<<With(t, b)>>)
      \/ UNCHANGED m_query_ready /\ \E m : SendFails(<<m>>)
  BY DEF HandleAuth
<1>3. CASE UNCHANGED <<up, unsent, sessionVars>> \/ Throw
  BY <1>1, <1>3, Reads DEF sessionVars, Throw
<1>4. ASSUME UNCHANGED <<pc, m_query_ready>>, Demand(wire[1]),
             NEW t \in {"password", "sasl_first", "sasl_final"}, NEW m, m.type = t, Send(<<m>>)
      PROVE  PgInv'
  <2>1. up = <<>> /\ server.pc = "auth" /\ Quiet(wire, 1) /\ unsent = <<>>
    BY <1>1, <1>4, Facts DEF PgInv, Paced, Final
  <2>2. /\ IsSeq(wire')
        /\ \A k \in DOMAIN wire' : k + 1 \in DOMAIN wire /\ wire'[k] = wire[k + 1]
        /\ DOMAIN wire' \subseteq Nat
        /\ Quiet(wire, 0 + 1) => Quiet(wire', 0)
    BY <1>1, WireRead
  <2>3. \A k \in DOMAIN wire' : ~Final(wire'[k])
    <3>1. \A k \in DOMAIN wire' : k > 0
      BY <2>2, Sizes
    <3>2. \A k \in DOMAIN wire' : wire'[k].type \in Aside
      BY <2>1, <2>2, <3>1 DEF Quiet
    <3> QED BY <3>2 DEF Aside, Final, Demand
  <2>4. IsSeq(<<m>>) /\ \A k \in DOMAIN <<m>> : <<m>>[k].type \in Logins
                                            /\ (<<m>>[k].type \in Closing => k = Len(<<m>>))
    BY <1>4, OneSends DEF Logins
  <2>5. DOMAIN up = {} /\ DOMAIN unsent = {} /\ {} \intersect Closing = {}
    BY <2>1
  <2>6. /\ IsSeq(up') /\ unsent' = <<>>
        /\ \A k \in DOMAIN up' : /\ up'[k].type \in {} \union Logins
                                 /\ up'[k].type \in Closing => k = Len(up')
    BY <1>4, <2>4, <2>5, Sends
  <2>7. SendTypes' = Logins
    BY <1>1, <1>4 DEF SendTypes
  <2>8. IsSeq(unsent') /\ DOMAIN unsent' = {}
    BY <2>6, NoneIs
  <2>9. m_query_ready' = FALSE /\ pc' = "init"
    BY <1>1, <1>4 DEF PgInv, HandleAuth
  <2> QED BY <1>1, <2>1, <2>2, <2>3, <2>6, <2>7, <2>8, <2>9, GoesOn
<1>5. ASSUME UNCHANGED <<pc, m_query_ready>>, Demand(wire[1]),
             NEW b, NEW t \in {"password", "sasl_first", "sasl_final"}, Send(<<With(t, b)>>)
      PROVE  PgInv'
  <2> DEFINE m == With(t, b)
  <2>1. m.type = t /\ Send(<<m>>)
    BY <1>5 DEF With
  <2> HIDE DEF m
  <2> QED BY <1>4, <1>5, <2>1
<1>6. wire[1].body.kind \in {"CLEAR_TEXT_PASSWORD", "SASL", "SASL_CONTINUE"} => Demand(wire[1])
  BY <1>1 DEF Demand
<1>7. ASSUME NEW m, SendFails(<<m>>), UNCHANGED m_query_ready PROVE PgInv' \/ Lost'
  <2>1. IsSeq(<<m>>) /\ pc # "idle"
    BY <1>1, OneSays
  <2> QED BY <1>1, <1>7, <2>1, FailStep
<1> QED BY <1>2, <1>3, <1>5, <1>6, <1>7

\* The other steps of the client
LEMMA ReactStep ==
  ASSUME PgInv, React
  PROVE  PgInv' \/ Lost'
<1>1. CASE ReadFails
  <2>1. /\ pc # "idle" /\ pc' = "failed" /\ UNCHANGED <<server, up, wire, unsent, m_query_ready>>
    BY <1>1 DEF ReadFails, Reading, Throw
  <2> QED BY <2>1 DEF PgInv, Live
<1>2. CASE \/ SkipNotice \/ InitSkips \/ InitThrows \/ Populate \/ Misread \/ QueryStatement
           \/ ExecuteSkips \/ CloseSkips
  <2>1. /\ wire # <<>> /\ wire' = Tail(wire) /\ UNCHANGED <<server, up, unsent, m_query_ready>>
        /\ pc' = pc \/ (pc # "idle" /\ pc' \in {"failed", "misread"})
    BY <1>2 DEF SkipNotice, InitSkips, InitThrows, Populate, Misread, QueryStatement,
                ExecuteSkips, CloseSkips, Throw, Takes, Completed, sessionVars
  <2> QED BY <2>1, Reads
<1>3. CASE InitReady \/ QueryReady \/ CloseReady
  <2>1. /\ pc \in {"init", "query", "close"} /\ Takes({"READY_FOR_QUERY"})
        /\ m_query_ready' = TRUE /\ pc' = "idle" /\ UNCHANGED <<up, unsent>>
    BY <1>3 DEF InitReady, QueryReady, CloseReady
  <2> QED BY <2>1, Readies
<1> QED BY <1>1, <1>2, <1>3, AuthStep, SuspendStep, CloseStep DEF React

-----------------------------------------------------------------------------
(* Asynchronous messages, a crash, and the theorem. *)

\* A message that means nothing comes between any two.
LEMMA AsideStep ==
  ASSUME PgInv, Asynchronous
  PROVE  PgInv'
<1>1. PICK t \in Aside, n \in 0..Len(wire) :
        wire' = SubSeq(wire, 1, n) \o <<Msg(t)>> \o SubSeq(wire, n + 1, Len(wire))
  BY DEF Asynchronous, Aside
<1>2. UNCHANGED <<server, up, unsent, pc, m_query_ready>>
  BY DEF Asynchronous, sessionVars
<1>3. PICK m : m = Msg(t)
  OBVIOUS
<1>4. m.type \in Aside /\ ~Final(m)
  BY <1>3 DEF Msg, Aside, Final, Demand
<1>5. PICK p : p = SubSeq(wire, 1, n)
  OBVIOUS
<1>6. PICK q : q = SubSeq(wire, n + 1, Len(wire))
  OBVIOUS
<1>7. PICK v : v = p \o <<m>>
  OBVIOUS
<1>8. wire' = v \o q
  BY <1>1, <1>3, <1>5, <1>6, <1>7
<1>9. IsSeq(wire) /\ Len(wire) \in Nat /\ DOMAIN wire = 1..Len(wire)
  BY Facts DEF PgInv
<1>10. /\ IsSeq(p) /\ Len(p) = n
       /\ \A k \in DOMAIN p : k \in DOMAIN wire /\ p[k] = wire[k]
  BY <1>5, <1>9, Prefix
<1>11. /\ IsSeq(q)
       /\ \A k \in DOMAIN q : n + k \in DOMAIN wire /\ q[k] = wire[n + k]
  BY <1>6, <1>9, Suffix
<1>12. IsSeq(<<m>>) /\ DOMAIN <<m>> = {1} /\ <<m>>[1] = m /\ Len(<<m>>) = 1
  BY OneSays
<1>13. /\ IsSeq(v) /\ Len(v) = n + 1
       /\ \A k \in DOMAIN v : \/ k \in DOMAIN p /\ v[k] = p[k]
                              \/ k - n \in {1} /\ v[k] = <<m>>[k - n]
  BY <1>7, <1>10, <1>12, Joins
<1>14. /\ IsSeq(wire')
       /\ \A k \in DOMAIN wire' : \/ k \in DOMAIN v /\ wire'[k] = v[k]
                                  \/ k - (n + 1) \in DOMAIN q /\ wire'[k] = q[k - (n + 1)]
  BY <1>8, <1>11, <1>13, Joins
<1>15. /\ DOMAIN p = 1..n /\ DOMAIN wire' \subseteq Int /\ DOMAIN v = 1..(n + 1)
       /\ DOMAIN q = 1..Len(q) /\ Len(q) \in Nat
  BY <1>10, <1>11, <1>13, <1>14, Sizes
\* Every message is the new one, or it was there, in the same order.
<1> DEFINE Old(k) == IF k <= n THEN k ELSE k - 1
<1>16. ASSUME NEW k \in DOMAIN wire', k # n + 1
       PROVE  Old(k) \in DOMAIN wire /\ wire'[k] = wire[Old(k)]
  <2>1. CASE k \in DOMAIN v
    <3>1. k \in DOMAIN p /\ wire'[k] = p[k]
      BY <1>13, <1>14, <1>15, <1>16, <2>1
    <3> QED BY <1>10, <1>15, <3>1
  <2>2. CASE k \notin DOMAIN v
    <3>1. k - (n + 1) \in DOMAIN q /\ wire'[k] = q[k - (n + 1)]
      BY <1>14, <2>2
    <3>2. n + (k - (n + 1)) \in DOMAIN wire /\ q[k - (n + 1)] = wire[n + (k - (n + 1))]
      BY <1>11, <3>1
    <3>3. n + (k - (n + 1)) = k - 1 /\ Old(k) = k - 1
      BY <1>15, <3>1
    <3> QED BY <3>1, <3>2, <3>3
  <2> QED BY <2>1, <2>2
<1>17. ASSUME n + 1 \in DOMAIN wire' PROVE wire'[n + 1] = m
  BY <1>12, <1>13, <1>14, <1>15, <1>17
<1>18. \A k \in DOMAIN wire', i \in DOMAIN wire' :
         k # n + 1 /\ i # n + 1 /\ i > k => Old(i) > Old(k)
  BY <1>15
<1> HIDE DEF Old
<1>19. ASSUME NEW k \in DOMAIN wire', k # n + 1, Quiet(wire, Old(k)) PROVE Quiet(wire', k)
  <2> SUFFICES ASSUME NEW i \in DOMAIN wire', i > k PROVE wire'[i].type \in Aside
    BY DEF Quiet
  <2>1. CASE i = n + 1
    BY <1>4, <1>17, <2>1
  <2>2. CASE i # n + 1
    BY <1>16, <1>18, <1>19, <2>2 DEF Quiet
  <2> QED BY <2>1, <2>2
<1>20. ASSUME Quiet(wire, 0) PROVE Quiet(wire', 0)
  <2> SUFFICES ASSUME NEW i \in DOMAIN wire' PROVE wire'[i].type \in Aside
    BY DEF Quiet
  <2>1. CASE i = n + 1
    BY <1>4, <1>17, <2>1
  <2>2. CASE i # n + 1
    <3>1. Old(i) \in DOMAIN wire /\ wire'[i] = wire[Old(i)] /\ Old(i) > 0
      BY <1>9, <1>16, <2>2
    <3> QED BY <1>20, <3>1 DEF Quiet
  <2> QED BY <2>1, <2>2
<1>21. SendTypes' = SendTypes /\ (Live' <=> Live)
  BY <1>2 DEF SendTypes, Live
<1>22. ASSUME Live PROVE Paced'
  <2>1. Paced
    BY <1>22 DEF PgInv
  <2>2. ASSUME NEW k \in DOMAIN wire', Final(wire'[k])
        PROVE  up' = <<>> /\ server'.pc = "auth" /\ Quiet(wire', k) /\ pc' \in {"init", "query", "close"}
    <3>1. k # n + 1
      BY <1>4, <1>17, <2>2
    <3>2. Old(k) \in DOMAIN wire /\ Final(wire[Old(k)])
      BY <1>16, <2>2, <3>1
    <3> QED BY <1>2, <1>19, <2>1, <3>1, <3>2 DEF Paced
  <2> QED BY <1>2, <1>20, <1>21, <2>1, <2>2 DEF Paced
<1> QED BY <1>2, <1>14, <1>21, <1>22 DEF PgInv

\* The server goes away, and with it some of what it has sent.
LEMMA CrashStep ==
  ASSUME PgInv, Crash
  PROVE  PgInv'
<1>1. PICK n \in 0..Len(wire) : wire' = SubSeq(wire, 1, n)
  BY DEF Crash
<1>2. UNCHANGED <<up, unsent, pc, m_query_ready>> /\ server' = [server EXCEPT !.gone = TRUE]
  BY DEF Crash, sessionVars
<1>3. /\ IsSeq(wire')
      /\ \A k \in DOMAIN wire' : k \in DOMAIN wire /\ wire'[k] = wire[k]
  BY <1>1, Prefix DEF PgInv
<1>4. /\ server'.pc = server.pc /\ server'.method = server.method
      /\ {"method", "pc"} \subseteq DOMAIN server'
  BY <1>2 DEF PgInv
<1>5. SendTypes' = SendTypes /\ (Live' <=> Live)
  BY <1>2 DEF SendTypes, Live
<1>6. \A k : Quiet(wire, k) => Quiet(wire', k)
  BY <1>3 DEF Quiet
<1>7. ASSUME Live PROVE Paced'
  <2>1. Paced
    BY <1>7 DEF PgInv
  <2>2. \A k \in DOMAIN wire' : Final(wire'[k]) =>
          up' = <<>> /\ server'.pc = "auth" /\ Quiet(wire', k) /\ pc' \in {"init", "query", "close"}
    BY <1>2, <1>3, <1>4, <1>6, <2>1 DEF Paced
  <2> QED BY <1>2, <1>5, <1>6, <2>1, <2>2 DEF Paced
<1> QED BY <1>2, <1>3, <1>4, <1>5, <1>7 DEF PgInv

LEMMA PgInvInit == PgInit => PgInv
<1> SUFFICES ASSUME PgInit PROVE PgInv
  OBVIOUS
<1> DEFINE m == With("startup", "user")
<1>1. m.type = "startup" /\ up = <<m>>
  BY DEF PgInit, With
<1> HIDE DEF m
<1>2. /\ wire = <<>> /\ unsent = <<>> /\ pc = "init" /\ m_query_ready = FALSE
      /\ server.method \in Methods /\ {"method", "pc"} \subseteq DOMAIN server
  BY DEF PgInit
<1>3. IsSeq(up) /\ IsSeq(wire) /\ IsSeq(unsent) /\ DOMAIN wire = {} /\ DOMAIN unsent = {}
  BY <1>1, <1>2, OneSays, NoneIs
<1>4. up[1] = m /\ DOMAIN up = {1} /\ Len(up) = 1 /\ up # <<>>
  BY <1>1
<1>5. SendTypes = Logins
  BY <1>2 DEF SendTypes
<1>6. "startup" \in Logins
  BY DEF Logins
<1>7. Paced
  BY <1>1, <1>2, <1>3, <1>4, <1>5, <1>6 DEF Paced
<1> QED BY <1>1, <1>2, <1>3, <1>4, <1>7 DEF PgInv

\* A connection that is lost stays so: the server says nothing, and the client
\* reads asides at most.
LEMMA LostStays == Lost /\ [PgNext]_pgVars => Lost'
<1> SUFFICES ASSUME Lost, [PgNext]_pgVars PROVE Lost'
  OBVIOUS
<1>1. /\ server.gone /\ IsSeq(wire)
      /\ pc \notin {"init", "idle"} /\ (m_query_ready => pc = "failed" /\ server.pc = "auth")
  BY DEF Lost
<1>2. \A k \in DOMAIN wire : wire[k].type \in Aside
  BY <1>1, Sizes DEF Lost, Quiet
<1>3. wire # <<>> => wire[1].type \in Aside
  BY <1>1, <1>2, Sizes
<1>4. wire # <<>> => IsSeq(Tail(wire)) /\ Quiet(Tail(wire), 0)
  <2> SUFFICES ASSUME wire # <<>>, NEW t, t = Tail(wire) PROVE IsSeq(t) /\ Quiet(t, 0)
    OBVIOUS
  <2>1. IsSeq(t) /\ \A k \in DOMAIN t : k + 1 \in DOMAIN wire /\ t[k] = wire[k + 1]
    BY <1>1, Tails
  <2> QED BY <1>2, <2>1 DEF Quiet
<1>5. Quiet(wire, 0)
  BY DEF Lost
<1>6. ASSUME UNCHANGED server, wire' = wire \/ (wire # <<>> /\ wire' = Tail(wire)),
             pc' \notin {"init", "idle"}, m_query_ready' => m_query_ready /\ pc' = "failed"
      PROVE  Lost'
  <2>1. IsSeq(wire') /\ Quiet(wire', 0)
    <3>1. CASE wire' = wire
      BY <1>1, <1>5, <3>1 DEF Quiet
    <3>2. CASE wire # <<>> /\ wire' = Tail(wire)
      BY <1>4, <3>2 DEF Quiet
    <3> QED BY <1>6, <3>1, <3>2
  <2> QED BY <1>1, <1>6, <2>1 DEF Lost
<1>7. ~Server /\ ~Asynchronous /\ ~Crash
  BY <1>1 DEF Server, Authenticate, CheckPassword, SaslContinue, SaslRefuse, SaslFinal, AnswerQuery,
              AnswerExtended, Asked, Asynchronous, Crash
<1>8. CASE Caller
  <2>1. UNCHANGED <<server, wire>>
    BY <1>8 DEF Caller, Query, PrepareQuery, Execute, CloseSync
  <2>2. pc' \notin {"init", "idle"} /\ (m_query_ready' => m_query_ready /\ pc' = "failed")
    <3>1. CASE Query
      BY <3>1 DEF Query, SendFails
    <3>2. CASE PrepareQuery
      BY <3>2 DEF PrepareQuery, SendFails
    <3>3. CASE Execute
      BY <1>1, <3>3 DEF Execute, SendFails
    <3>4. CASE CloseSync
      BY <1>1, <3>4 DEF CloseSync, ClosesPortal, SendFails
    <3> QED BY <1>8, <3>1, <3>2, <3>3, <3>4 DEF Caller
  <2> QED BY <1>6, <2>1, <2>2
<1>9. CASE React
  <2>1. \/ SkipNotice \/ ReadFails \/ Misread \/ CloseSkips
    BY <1>1, <1>3, <1>9
    DEF React, InitSkips, InitReady, InitThrows, HandleAuth, Populate, QueryStatement, QueryReady,
        ExecuteSkips, ExecuteSuspended, ExecuteDone, CloseReady, Completed, Takes, Rows, Failures, Aside
  <2>2. /\ UNCHANGED <<server, m_query_ready>>
        /\ wire' = wire \/ (wire # <<>> /\ wire' = Tail(wire))
        /\ pc' = pc \/ pc' \in {"failed", "misread"}
        /\ pc # "failed"
    BY <2>1 DEF SkipNotice, ReadFails, Misread, CloseSkips, Throw, Takes, Reading, sessionVars
  <2> QED BY <1>1, <1>6, <2>2
<1>10. CASE UNCHANGED pgVars
  BY <1>1, <1>6, <1>10 DEF pgVars, sessionVars
<1> QED BY <1>7, <1>8, <1>9, <1>10 DEF PgNext

LEMMA PgInvStep == PgInv /\ [PgNext]_pgVars => PgInv' \/ Lost'
<1> SUFFICES ASSUME PgInv, [PgNext]_pgVars PROVE PgInv' \/ Lost'
  OBVIOUS
<1>1. CASE Server
  BY <1>1, LoginStep, QueryAnswered, ExtendedAnswered DEF Server
<1>2. CASE React
  BY <1>2, ReactStep
<1>3. CASE Caller
  BY <1>3, CallStep, PrepareStep, CloseStep DEF Caller
<1>4. CASE Asynchronous \/ Crash
  BY <1>4, AsideStep, CrashStep
<1>5. CASE UNCHANGED pgVars
  <2>1. UNCHANGED <<server, up, wire, unsent, pc, m_query_ready>>
    BY <1>5 DEF pgVars, sessionVars
  <2>2. SendTypes' = SendTypes
    BY <2>1 DEF SendTypes
  <2>3. Paced => Paced'
    BY <2>1, <2>2 DEF Paced, Quiet
  <2> QED BY <2>1, <2>3 DEF PgInv, Live
<1> QED BY <1>1, <1>2, <1>3, <1>4, <1>5 DEF PgNext

\* A connection that is ready for a query owes nothing to an earlier one: of
\* what query, execute and close_sync have sent nothing is unanswered, and of
\* what the server has answered nothing is unread but notices, whichever
\* statement failed or was suspended before, for any statements, parameters and
\* servers.  Where a write or flush has thrown, and left the connection ready
\* with what it had to send, the server is gone: a query that is made all the
\* same reaches nobody and reads no answer to another one.
THEOREM ReadyOwesNothing == PgSpec => []InStep
<1>1. PgInv => InStep
  <2> SUFFICES ASSUME PgInv, m_query_ready PROVE InStep
    BY DEF InStep
  <2>1. Live /\ pc = "idle"
    BY DEF PgInv, Live
  <2>2. up = <<>> /\ unsent = <<>> /\ server.pc = "auth" /\ Quiet(wire, 0)
    BY <2>1, Facts DEF PgInv, Paced
  <2>3. \A k \in DOMAIN wire : wire[k].type \in Aside
    BY <2>2, Facts DEF Quiet
  <2> QED BY <2>2, <2>3 DEF InStep, Aside
<1>2. Lost => InStep
  <2> SUFFICES ASSUME Lost, m_query_ready PROVE InStep
    BY DEF InStep
  <2>1. \A k \in DOMAIN wire : wire[k].type \in Aside
    BY Sizes DEF Lost, Quiet
  <2> QED BY <2>1 DEF InStep, Lost, Aside
<1>3. (PgInv \/ Lost) /\ [PgNext]_pgVars => (PgInv \/ Lost)'
  BY PgInvStep, LostStays
<1> QED BY <1>1, <1>2, <1>3, PgInvInit, PTL DEF PgSpec

-----------------------------------------------------------------------------
(* The results of a query.  Counted says how a message changes the number   *)
(* of statements that have been reported, and Leads how a part of the wire  *)
(* does.                                                                    *)

Result(outcome) == IF outcome \in {"rows", "command"} THEN "SUCCESS" ELSE "ERROR"

Concludes(m) == m.type \in {"COMMAND_COMPLETE"} \union Failures

Counted(m, script, i, j) ==
  IF Concludes(m)
  THEN /\ j = i + 1 /\ j \in 1..Len(script)
       /\ Result(script[j]) = IF m.type = "COMMAND_COMPLETE" THEN "SUCCESS" ELSE "ERROR"
  ELSE j = i /\ (m.type = "READY_FOR_QUERY" => j = Len(script))

Counts(w, script, c) ==
  /\ c \in [0..Len(w) -> Nat]
  /\ \A k \in 1..Len(w) : Counted(w[k], script, c[k - 1], c[k])

Leads(w, script, i, j) == \E c : Counts(w, script, c) /\ c[0] = i /\ c[Len(w)] = j

Reported(script, i) ==
  /\ results \in Seq({"PENDING", "SUCCESS", "ERROR"})
  /\ Len(results) = i + 1
  /\ \A k \in 1..i : results[k] = Result(script[k])

\* While a query is not answered nothing is reported; then what has been read
\* and what is on the wire make up what was executed.
QueryInv ==
  /\ "outcomes" \in DOMAIN server
  /\ pc = "query" =>
       /\ up # <<>> => results = <<"PENDING">> /\ Quiet(wire, 0)
       /\ up = <<>> => /\ server.outcomes \in Scripts
                       /\ \E i, j \in Nat : Leads(wire, server.outcomes, i, j)
                                              /\ Reported(server.outcomes, i)

\* What is joined leads on.
LEMMA LeadsJoin ==
  ASSUME NEW u, IsSeq(u), NEW w, IsSeq(w), NEW script, NEW i, NEW j, NEW k,
         Leads(u, script, i, j), Leads(w, script, j, k)
  PROVE  Leads(u \o w, script, i, k)
<1>1. PICK c : Counts(u, script, c) /\ c[0] = i /\ c[Len(u)] = j
  BY DEF Leads
<1>2. PICK d : Counts(w, script, d) /\ d[0] = j /\ d[Len(w)] = k
  BY DEF Leads
<1>3. PICK t : t = u \o w
  OBVIOUS
<1>4. PICK m \in Nat : m = Len(u)
  BY Sizes
<1>5. PICK n \in Nat : n = Len(w)
  BY Sizes
<1>6. /\ IsSeq(t) /\ Len(t) = m + n /\ DOMAIN t = 1..(m + n)
      /\ DOMAIN u = 1..m /\ DOMAIN w = 1..n
      /\ \A x \in 1..(m + n) : \/ x \in 1..m /\ t[x] = u[x]
                               \/ x - m \in 1..n /\ t[x] = w[x - m]
  <2>1. /\ IsSeq(t) /\ Len(t) = m + n
        /\ \A x \in DOMAIN t : \/ x \in DOMAIN u /\ t[x] = u[x]
                               \/ x - m \in DOMAIN w /\ t[x] = w[x - m]
    BY <1>3, <1>4, <1>5, Joins
  <2>2. DOMAIN t = 1..Len(t) /\ DOMAIN u = 1..m /\ DOMAIN w = 1..n
    BY <1>4, <1>5, <2>1, Sizes
  <2> QED BY <2>1, <2>2
<1> DEFINE e == [x \in 0..(m + n) |-> IF x <= m THEN c[x] ELSE d[x - m]]
<1>7. c \in [0..m -> Nat] /\ d \in [0..n -> Nat]
  BY <1>1, <1>2, <1>4, <1>5 DEF Counts
<1>8. e \in [0..(m + n) -> Nat] /\ e[0] = i /\ e[m + n] = k /\ c[m] = d[0]
  BY <1>1, <1>2, <1>4, <1>5, <1>7
<1>9. \A x \in 0..m : e[x] = c[x]
  OBVIOUS
<1>10. \A x \in 0..n : e[x + m] = d[x]
  BY <1>8
<1> HIDE DEF e
<1>11. ASSUME NEW x \in 1..(m + n) PROVE Counted(t[x], script, e[x - 1], e[x])
  <2>1. CASE x \in 1..m /\ t[x] = u[x]
    <3>1. Counted(u[x], script, c[x - 1], c[x])
      BY <1>1, <1>4, <2>1 DEF Counts
    <3>2. x - 1 \in 0..m /\ x \in 0..m
      BY <2>1
    <3> QED BY <1>9, <2>1, <3>1, <3>2
  <2>2. CASE x - m \in 1..n /\ t[x] = w[x - m]
    <3>1. PICK y \in 1..n : y = x - m
      BY <2>2
    <3>2. Counted(w[y], script, d[y - 1], d[y])
      BY <1>2, <1>5 DEF Counts
    <3>3. y - 1 \in 0..n /\ y \in 0..n /\ (y - 1) + m = x - 1 /\ y + m = x
      BY <3>1
    <3>4. e[x - 1] = d[y - 1] /\ e[x] = d[y]
      BY <1>10, <3>3
    <3> QED BY <2>2, <3>1, <3>2, <3>4
  <2> QED BY <1>6, <2>1, <2>2
<1>12. Counts(t, script, e) /\ e[Len(t)] = k
  BY <1>6, <1>8, <1>11 DEF Counts
<1> QED BY <1>3, <1>8, <1>12 DEF Leads

\* A part of what leads from i to j leads from what comes before it to what
\* comes after it.
LEMMA LeadsPart ==
  ASSUME NEW w, NEW script, NEW c, Counts(w, script, c), NEW m \in Nat, NEW n \in Nat,
         m + n <= Len(w), Len(w) \in Nat,
         NEW t, Len(t) = n, \A k \in 1..n : t[k] = w[m + k]
  PROVE  Leads(t, script, c[m], c[m + n])
<1> DEFINE e == [x \in 0..n |-> c[m + x]]
<1>1. c \in [0..Len(w) -> Nat]
  BY DEF Counts
<1>2. e \in [0..n -> Nat] /\ e[0] = c[m] /\ e[n] = c[m + n]
  <2>1. \A x \in 0..n : m + x \in 0..Len(w)
    OBVIOUS
  <2> QED BY <1>1, <2>1
<1>3. ASSUME NEW k \in 1..n PROVE Counted(t[k], script, e[k - 1], e[k])
  <2>1. m + k \in 1..Len(w) /\ (m + k) - 1 = m + (k - 1)
    OBVIOUS
  <2>2. Counted(w[m + k], script, c[m + (k - 1)], c[m + k])
    BY <2>1 DEF Counts
  <2>3. e[k - 1] = c[m + (k - 1)] /\ e[k] = c[m + k]
    OBVIOUS
  <2> QED BY <2>2, <2>3
<1> HIDE DEF e
<1>4. Counts(t, script, e) /\ e[Len(t)] = c[m + n]
  BY <1>2, <1>3 DEF Counts
<1> QED BY <1>2, <1>4 DEF Leads

LEMMA LeadsSplit ==
  ASSUME NEW w, IsSeq(w), NEW script, NEW i, NEW j, Leads(w, script, i, j), NEW n \in 0..Len(w)
  PROVE  \E k \in Nat : /\ Leads(SubSeq(w, 1, n), script, i, k)
                        /\ Leads(SubSeq(w, n + 1, Len(w)), script, k, j)
<1>1. PICK c : Counts(w, script, c) /\ c[0] = i /\ c[Len(w)] = j
  BY DEF Leads
<1>2. Len(w) \in Nat /\ DOMAIN w = 1..Len(w) /\ n \in Nat
  BY Sizes
<1>3. PICK p : p = SubSeq(w, 1, n)
  OBVIOUS
<1>4. PICK q : q = SubSeq(w, n + 1, Len(w))
  OBVIOUS
<1>5. /\ Len(p) = n /\ \A k \in 1..n : p[k] = w[0 + k]
  <2>1. IsSeq(p) /\ Len(p) = n /\ \A k \in DOMAIN p : p[k] = w[k]
    BY <1>3, Prefix
  <2>2. DOMAIN p = 1..n
    BY <2>1, Sizes
  <2> QED BY <2>1, <2>2
<1>6. Len(q) = Len(w) - n /\ \A k \in 1..(Len(w) - n) : q[k] = w[n + k]
  <2>1. IsSeq(q) /\ \A k \in DOMAIN q : q[k] = w[n + k]
    BY <1>4, Suffix
  <2>2. Len(q) = Len(w) - n
    BY <1>4, Suffix
  <2>3. DOMAIN q = 1..(Len(w) - n)
    BY <2>1, <2>2, Sizes
  <2> QED BY <2>1, <2>2, <2>3
<1>7. Leads(p, script, c[0], c[0 + n])
  BY <1>1, <1>2, <1>5, LeadsPart
<1>8. Leads(q, script, c[n], c[n + (Len(w) - n)])
  <2>0. Len(w) - n \in Nat
    BY <1>2
  <2>1. PICK m \in Nat : m = Len(w) - n
    BY <2>0
  <2>2. n + m <= Len(w) /\ Len(q) = m /\ \A k \in 1..m : q[k] = w[n + k]
    BY <1>2, <1>6, <2>1
  <2>3. Leads(q, script, c[n], c[n + m])
    BY <1>1, <1>2, <2>2, LeadsPart
  <2> QED BY <2>1, <2>3
<1>9. 0 + n = n /\ n + (Len(w) - n) = Len(w) /\ c[n] \in Nat
  BY <1>1, <1>2 DEF Counts
<1> QED BY <1>1, <1>3, <1>4, <1>7, <1>8, <1>9

\* What leads from i to j is the first message and the others.
LEMMA LeadsTail ==
  ASSUME NEW w, IsSeq(w), w # <<>>, NEW script, NEW i, NEW j, Leads(w, script, i, j)
  PROVE  \E k \in Nat : i \in Nat /\ Counted(w[1], script, i, k) /\ Leads(Tail(w), script, k, j)
<1>1. PICK c : Counts(w, script, c) /\ c[0] = i /\ c[Len(w)] = j
  BY DEF Leads
<1>2. Len(w) \in Nat /\ DOMAIN w = 1..Len(w) /\ 1 \in 1..Len(w)
  BY Sizes
<1>3. PICK t : t = Tail(w)
  OBVIOUS
<1>9. Len(w) - 1 \in Nat
  BY <1>2
<1>4. PICK n \in Nat : n = Len(w) - 1
  BY <1>9
<1>5. Len(t) = n /\ \A k \in 1..n : t[k] = w[1 + k]
  <2>1. IsSeq(t) /\ Len(t) = n /\ \A k \in DOMAIN t : t[k] = w[k + 1]
    BY <1>3, <1>4, Tails
  <2>2. DOMAIN t = 1..n
    BY <2>1, Sizes
  <2> QED BY <2>1, <2>2
<1>6. Leads(t, script, c[1], c[1 + n])
  <2>1. 1 + n <= Len(w)
    BY <1>2, <1>4
  <2>2. Counts(w, script, c)
    BY <1>1
  <2>3. Len(t) = n
    BY <1>5
  <2>4. \A k \in 1..n : t[k] = w[1 + k]
    BY <1>5
  <2>5. Len(w) \in Nat
    BY <1>2
  <2> QED BY <2>1, <2>2, <2>3, <2>4, <2>5, LeadsPart
<1>7. c[0] \in Nat /\ c[1] \in Nat /\ Counted(w[1], script, c[1 - 1], c[1])
  BY <1>1, <1>2 DEF Counts
<1>8. 1 + n = Len(w) /\ 1 - 1 = 0
  BY <1>2, <1>4
<1> QED BY <1>1, <1>3, <1>6, <1>7, <1>8

LEMMA LeadsOne ==
  ASSUME NEW m, NEW script, NEW i \in Nat, NEW j \in Nat, Counted(m, script, i, j)
  PROVE  Leads(<<m>>, script, i, j)
<1> DEFINE c == [x \in 0..1 |-> IF x = 0 THEN i ELSE j]
<1>1. Len(<<m>>) = 1 /\ <<m>>[1] = m
  OBVIOUS
<1>2. c \in [0..1 -> Nat] /\ c[0] = i /\ c[1] = j /\ c[1 - 1] = i
  OBVIOUS
<1> HIDE DEF c
<1>3. \A k \in 1..1 : Counted(<<m>>[k], script, c[k - 1], c[k])
  <2>1. \A k \in 1..1 : k = 1
    OBVIOUS
  <2> QED BY <1>1, <1>2, <2>1
<1>4. Counts(<<m>>, script, c) /\ c[Len(<<m>>)] = j
  BY <1>1, <1>2, <1>3 DEF Counts
<1> QED BY <1>2, <1>4 DEF Leads

LEMMA AsideCounted ==
  ASSUME NEW m, m.type \in Aside, NEW script, NEW i
  PROVE  Counted(m, script, i, i)
BY DEF Counted, Concludes, Aside, Failures

LEMMA LeadsQuiet ==
  ASSUME NEW w, IsSeq(w), Quiet(w, 0), NEW script, NEW i \in Nat
  PROVE  Leads(w, script, i, i)
<1> DEFINE c == [x \in 0..Len(w) |-> i]
<1>1. Len(w) \in Nat /\ DOMAIN w = 1..Len(w)
  BY Sizes
<1>2. /\ c \in [0..Len(w) -> Nat] /\ c[0] = i /\ c[Len(w)] = i
      /\ \A k \in 1..Len(w) : c[k - 1] = i /\ c[k] = i
  BY <1>1
<1> HIDE DEF c
<1>3. \A k \in 1..Len(w) : Counted(w[k], script, c[k - 1], c[k])
  BY <1>1, <1>2, AsideCounted DEF Quiet
<1>4. Counts(w, script, c)
  BY <1>2, <1>3 DEF Counts
<1> QED BY <1>2, <1>4 DEF Leads

LEMMA ReplyEmpty == Reply(<<>>) = <<>>
<1>1. <<>> \in Seq(Outcomes)
  OBVIOUS
<1>2. PICK g : Follows(Seq(Plain), ReplyStep, <<>>, <<>>, g) /\ Reply(<<>>) = g[1..Len(<<>>)]
  BY <1>1, ReplyFollows
<1> QED BY <1>2, FollowsNone

\* Each statement that is executed is reported once.
LEMMA MessagesLead ==
  ASSUME NEW script, NEW i \in Nat, i + 1 \in 1..Len(script), script[i + 1] \in Outcomes
  PROVE  Leads(Messages(script[i + 1]), script, i, i + 1)
<1> DEFINE o == script[i + 1]
<1>1. i + 1 \in Nat
  OBVIOUS
<1>3. ASSUME NEW m, Concludes(m), Result(o) = IF m.type = "COMMAND_COMPLETE" THEN "SUCCESS" ELSE "ERROR"
      PROVE  Leads(<<m>>, script, i, i + 1)
  <2>1. Counted(m, script, i, i + 1)
    BY <1>3 DEF Counted
  <2> QED BY <1>1, <2>1, LeadsOne
<1> HIDE DEF o
<1>4. CASE o = "rows"
  <2> DEFINE a == Msg("ROW_DESCRIPTION")
             b == Msg("DATA_ROW")
             c == Msg("COMMAND_COMPLETE")
  <2>1. /\ ~Concludes(a) /\ a.type # "READY_FOR_QUERY"
        /\ ~Concludes(b) /\ b.type # "READY_FOR_QUERY"
        /\ Concludes(c) /\ c.type = "COMMAND_COMPLETE"
    BY DEF Concludes, Failures, Msg
  <2>2. Messages(o) = <<a, b, c>>
    BY <1>4 DEF Messages
  <2>3. Result(o) = "SUCCESS"
    BY <1>4 DEF Result
  <2> HIDE DEF a, b, c
  <2> DEFINE d == [x \in 0..3 |-> IF x = 3 THEN i + 1 ELSE i]
  <2>4. PICK t : t = <<a, b, c>>
    OBVIOUS
  <2>5. Len(t) = 3 /\ t[1] = a /\ t[2] = b /\ t[3] = c
    BY <2>4
  <2>6. /\ d \in [0..3 -> Nat] /\ d[0] = i /\ d[1] = i /\ d[2] = i /\ d[3] = i + 1
        /\ d[1 - 1] = i /\ d[2 - 1] = i /\ d[3 - 1] = i
    OBVIOUS
  <2> HIDE DEF d
  <2>7. Counted(a, script, i, i) /\ Counted(b, script, i, i) /\ Counted(c, script, i, i + 1)
    BY <2>1, <2>3 DEF Counted, o
  <2>8. \A k \in 1..3 : Counted(t[k], script, d[k - 1], d[k])
    <3>1. \A k \in 1..3 : k = 1 \/ k = 2 \/ k = 3
      OBVIOUS
    <3> QED BY <2>5, <2>6, <2>7, <3>1
  <2>9. Counts(t, script, d)
    BY <2>5, <2>6, <2>8 DEF Counts
  <2>10. Leads(t, script, i, i + 1)
    BY <2>5, <2>6, <2>9 DEF Leads
  <2> QED BY <2>2, <2>4, <2>10 DEF o
<1>5. CASE o # "rows"
  <2>1. PICK m : /\ Messages(o) = <<m>> /\ Concludes(m)
                 /\ Result(o) = IF m.type = "COMMAND_COMPLETE" THEN "SUCCESS" ELSE "ERROR"
    <3>1. o \in {"command", "empty", "error"}
      BY <1>5 DEF o, Outcomes
    <3> QED BY <3>1 DEF Messages, Concludes, Failures, Result, Msg, Error
  <2>2. Leads(<<m>>, script, i, i + 1)
    BY <1>3, <2>1
  <2> QED BY <2>1, <2>2 DEF o
<1> QED BY <1>4, <1>5

LEMMA ReplyLeads ==
  ASSUME NEW script \in Seq(Outcomes)
  PROVE  Leads(Reply(script), script, 0, Len(script))
<1> DEFINE n == Len(script)
           Pre(k) == SubSeq(script, 1, k)
           Good == {k \in 0..n : Leads(Reply(Pre(k)), script, 0, k)}
<1>0. n \in Nat
  OBVIOUS
<1>1. 0 \in Good
  <2>1. Reply(Pre(0)) = <<>>
    BY FrontEnds, ReplyEmpty
  <2>2. PICK s : s = <<>>
    OBVIOUS
  <2>3. IsSeq(s) /\ DOMAIN s = {}
    BY <2>2, NoneIs
  <2>4. Quiet(s, 0)
    BY <2>3 DEF Quiet
  <2>5. Leads(s, script, 0, 0)
    BY <2>3, <2>4, LeadsQuiet
  <2> QED BY <1>0, <2>1, <2>2, <2>5
<1>2. ASSUME NEW k \in 0..(n - 1), k \in Good PROVE k + 1 \in Good
  <2>1. /\ Pre(k) \in Seq(Outcomes) /\ script[k + 1] \in Outcomes
        /\ Pre(k + 1) = Append(Pre(k), script[k + 1])
    BY FrontGrows
  <2> HIDE DEF Pre
  <2>2. PICK o \in Outcomes : o = script[k + 1]
    BY <2>1
  <2>3. Reply(Pre(k)) \in Seq(Plain) /\ Reply(Pre(k + 1)) = Reply(Pre(k)) \o Messages(o)
    BY <2>1, <2>2, ReplyAppend
  <2>4. IsSeq(Reply(Pre(k))) /\ IsSeq(Messages(o))
    BY <2>3, MessagesPlain, SeqIs
  <2>5. k \in Nat /\ k + 1 \in 1..n /\ k + 1 \in 0..n
    BY <1>0, <1>2
  <2>6. Leads(Messages(o), script, k, k + 1)
    BY <2>2, <2>5, MessagesLead
  <2>7. Leads(Reply(Pre(k)), script, 0, k)
    BY <1>2
  <2>8. Leads(Reply(Pre(k)) \o Messages(o), script, 0, k + 1)
    BY <2>4, <2>6, <2>7, LeadsJoin
  <2> QED BY <2>3, <2>5, <2>8
<1> HIDE DEF Good
<1>3. n \in Good
  BY <1>0, <1>1, <1>2, UpTo
<1>4. Pre(n) = script
  BY FrontEnds
<1> QED BY <1>3, <1>4 DEF Good

LEMMA QuietReads ==
  ASSUME PgInv, wire # <<>>, wire' = Tail(wire), Quiet(wire, 0)
  PROVE  Quiet(wire', 0) /\ wire[1].type \in Aside
<1>1. Quiet(wire, 0 + 1)
  BY DEF Quiet
<1>2. Quiet(wire', 0)
  BY <1>1, WireRead
<1>3. 1 \in DOMAIN wire
  BY Facts
<1> QED BY <1>2, <1>3 DEF Quiet

\* The server answers the query.
LEMMA QueryInvAnswer ==
  ASSUME PgInv, QueryInv, AnswerQuery
  PROVE  QueryInv'
<1> DEFINE m == Msg("READY_FOR_QUERY")
<1>1. up # <<>> /\ up[1].type = "Q" /\ UNCHANGED <<pc, results>>
  BY DEF AnswerQuery, Asked, Answer, sessionVars
<1>2. PICK script \in Scripts : /\ server' = [server EXCEPT !.outcomes = script]
                                /\ Answer(Reply(script) \o <<m>>)
  BY DEF AnswerQuery, Reply
<1>3. "outcomes" \in DOMAIN server' /\ server'.outcomes = script
  BY <1>2 DEF QueryInv
<1>4. script \in Seq(Outcomes)
  BY PgAssumption
<1>5. m.type = "READY_FOR_QUERY" /\ ~Concludes(m)
  BY DEF Msg, Concludes, Failures
<1> HIDE DEF m
<1>6. ASSUME pc = "query"
      PROVE  /\ up' = <<>>
             /\ \E i, j \in Nat : Leads(wire', script, i, j) /\ Reported(script, i)'
  <2>1. results = <<"PENDING">> /\ Quiet(wire, 0) /\ IsSeq(wire) /\ IsSeq(up)
    BY <1>1, <1>6 DEF QueryInv, PgInv
  <2>2. Len(up) = 1
    BY <1>1, <1>6, Turns DEF Live, Closing
  <2>3. up' = <<>>
    <3>1. up' = Tail(up)
      BY <1>2 DEF Answer
    <3>2. IsSeq(up') /\ Len(up') = 0
      BY <1>1, <2>1, <2>2, <3>1, Tails
    <3> QED BY <3>2, Sizes
  <2>4. Len(script) \in Nat
    BY <1>4
  <2>5. Counted(m, script, Len(script), Len(script))
    BY <1>5 DEF Counted
  <2>6. Leads(<<m>>, script, Len(script), Len(script)) /\ IsSeq(<<m>>)
    BY <2>4, <2>5, LeadsOne, OneSays
  <2>7. Leads(Reply(script), script, 0, Len(script)) /\ IsSeq(Reply(script))
    BY <1>4, ReplyLeads, ReplyFollows, SeqIs
  <2>8. Leads(wire, script, 0, 0)
    BY <2>1, LeadsQuiet
  <2>9. Leads(Reply(script) \o <<m>>, script, 0, Len(script)) /\ IsSeq(Reply(script) \o <<m>>)
    BY <2>6, <2>7, LeadsJoin, Joins
  <2>10. Leads(wire \o (Reply(script) \o <<m>>), script, 0, Len(script))
    BY <2>1, <2>8, <2>9, LeadsJoin
  <2>11. wire' = wire \o (Reply(script) \o <<m>>)
    BY <1>2 DEF Answer
  <2>12. Reported(script, 0)'
    <3>1. results' = <<"PENDING">>
      BY <1>1, <2>1
    <3>2. results' \in Seq({"PENDING", "SUCCESS", "ERROR"}) /\ Len(results') = 0 + 1
      BY <3>1
    <3> QED BY <3>2 DEF Reported
  <2> QED BY <2>3, <2>4, <2>10, <2>11, <2>12
<1> QED BY <1>1, <1>3, <1>6 DEF QueryInv

\* A message is read that concludes no statement.
LEMMA QueryInvReads ==
  ASSUME PgInv, QueryInv, wire # <<>>, wire' = Tail(wire), ~Concludes(wire[1]),
         UNCHANGED <<server, up, results>>, pc' = pc
  PROVE  QueryInv'
<1>1. ASSUME pc = "query", up # <<>>
      PROVE  results' = <<"PENDING">> /\ Quiet(wire', 0)
  BY <1>1, QuietReads DEF QueryInv
<1>2. ASSUME pc = "query", up = <<>>
      PROVE  \E i, j \in Nat : Leads(wire', server.outcomes, i, j) /\ Reported(server.outcomes, i)'
  <2>1. PICK i \in Nat, j \in Nat : /\ Leads(wire, server.outcomes, i, j)
                                    /\ Reported(server.outcomes, i)
    BY <1>2 DEF QueryInv
  <2>2. IsSeq(wire)
    BY DEF PgInv
  <2>3. PICK k \in Nat : Counted(wire[1], server.outcomes, i, k) /\ Leads(wire', server.outcomes, k, j)
    BY <2>1, <2>2, LeadsTail
  <2>4. k = i
    BY <2>3 DEF Counted
  <2>5. Reported(server.outcomes, i)'
    BY <2>1 DEF Reported
  <2> QED BY <2>3, <2>4, <2>5
<1>3. server' = server /\ up' = up
  OBVIOUS
<1> QED BY <1>1, <1>2, <1>3 DEF QueryInv

\* One that does has its result put before the one that is pending.
OneMore(S, r, a, x) ==
  /\ x \in Seq(S) /\ Len(x) = Len(r) + 1
  /\ \A k \in 1..(Len(r) - 1) : x[k] = r[k]
  /\ x[Len(r)] = a

LEMMA OneResultMore ==
  ASSUME NEW S, NEW r \in Seq(S), Len(r) > 0, NEW a \in S, NEW b \in S
  PROVE  OneMore(S, r, a, Append(Front(r), a) \o <<b>>)
<1>1. PICK f : f = Front(r)
  OBVIOUS
<1>2. PICK n \in Nat : n = Len(r) /\ n > 0
  OBVIOUS
<1>3. f \in Seq(S) /\ Len(f) = n - 1 /\ \A k \in 1..(n - 1) : f[k] = r[k]
  BY <1>1, <1>2 DEF Front
<1>4. PICK g : g = Append(f, a)
  OBVIOUS
<1>5. g \in Seq(S) /\ Len(g) = n /\ g[n] = a /\ \A k \in 1..(n - 1) : g[k] = r[k]
  BY <1>3, <1>4
<1>6. PICK h : h = g \o <<b>>
  OBVIOUS
<1>7. h \in Seq(S) /\ Len(h) = n + 1 /\ \A k \in 1..n : h[k] = g[k]
  BY <1>5, <1>6
<1>8. OneMore(S, r, a, h)
  BY <1>2, <1>5, <1>7 DEF OneMore
<1> QED BY <1>1, <1>4, <1>6, <1>8, Zenon

LEMMA QueryInvConcludes ==
  ASSUME PgInv, QueryInv, QueryStatement
  PROVE  QueryInv'
<1>1. /\ pc = "query" /\ pc' = pc /\ wire # <<>> /\ wire' = Tail(wire) /\ UNCHANGED <<server, up>>
      /\ Concludes(wire[1])
  BY DEF QueryStatement, Completed, Takes, Concludes
<1>2. PICK outcome \in {"SUCCESS", "ERROR"} :
        /\ results' = Append(Front(results), outcome) \o <<"PENDING">>
        /\ outcome = IF wire[1].type = "COMMAND_COMPLETE" THEN "SUCCESS" ELSE "ERROR"
  BY DEF QueryStatement, Completed, Takes, Failures
<1>3. up = <<>>
  <2>1. wire[1].type \notin Aside
    BY <1>1 DEF Concludes, Failures, Aside
  <2> QED BY <1>1, <2>1, QuietReads DEF QueryInv
<1>4. PICK i \in Nat, j \in Nat : /\ Leads(wire, server.outcomes, i, j)
                                  /\ Reported(server.outcomes, i)
  BY <1>1, <1>3 DEF QueryInv
<1>5. IsSeq(wire)
  BY DEF PgInv
<1>6. PICK k \in Nat : Counted(wire[1], server.outcomes, i, k) /\ Leads(wire', server.outcomes, k, j)
  BY <1>1, <1>4, <1>5, LeadsTail
<1>7. k = i + 1 /\ Result(server.outcomes[k]) = outcome
  BY <1>1, <1>2, <1>6 DEF Counted
<1>8. PICK r : r = results
  OBVIOUS
<1>9. PICK x : x = results'
  OBVIOUS
<1>10. PICK S : S = {"PENDING", "SUCCESS", "ERROR"}
  OBVIOUS
<1>11. r \in Seq(S) /\ Len(r) = i + 1 /\ \A n \in 1..i : r[n] = Result(server.outcomes[n])
  BY <1>4, <1>8, <1>10 DEF Reported
<1>12. x = Append(Front(r), outcome) \o <<"PENDING">> /\ outcome \in S /\ "PENDING" \in S
  BY <1>2, <1>8, <1>9, <1>10
<1>13. /\ x \in Seq(S) /\ Len(x) = Len(r) + 1
       /\ \A n \in 1..(Len(r) - 1) : x[n] = r[n]
       /\ x[Len(r)] = outcome
  <2>1. r \in Seq(S)
    BY <1>11
  <2>2. Len(r) > 0
    BY <1>11
  <2>3. outcome \in S
    BY <1>12
  <2>4. "PENDING" \in S
    BY <1>12
  <2>5. x = Append(Front(r), outcome) \o <<"PENDING">>
    BY <1>12
  <2>6. OneMore(S, r, outcome, Append(Front(r), outcome) \o <<"PENDING">>)
    BY <2>1, <2>2, <2>3, <2>4, OneResultMore
  <2>7. OneMore(S, r, outcome, x)
    BY <2>5, <2>6, Zenon
  <2> QED BY <2>7 DEF OneMore
<1>14. \A n \in 1..k : x[n] = Result(server.outcomes[n])
  BY <1>7, <1>11, <1>13
<1>15. Reported(server.outcomes, k)'
  BY <1>1, <1>7, <1>9, <1>10, <1>11, <1>13, <1>14 DEF Reported
<1> QED BY <1>1, <1>3, <1>6, <1>15 DEF QueryInv

\* A message that means nothing comes between any two.
LEMMA QueryInvAside ==
  ASSUME PgInv, QueryInv, Asynchronous
  PROVE  QueryInv'
<1>1. PICK t \in Aside, n \in 0..Len(wire) :
        wire' = SubSeq(wire, 1, n) \o <<Msg(t)>> \o SubSeq(wire, n + 1, Len(wire))
  BY DEF Asynchronous, Aside
<1>2. UNCHANGED <<server, up, pc, results>>
  BY DEF Asynchronous, sessionVars
<1>3. PICK m : m = Msg(t)
  OBVIOUS
<1>4. m.type \in Aside
  BY <1>3 DEF Msg
<1>5. PICK p : p = SubSeq(wire, 1, n)
  OBVIOUS
<1>6. PICK q : q = SubSeq(wire, n + 1, Len(wire))
  OBVIOUS
<1>7. PICK o : o = <<m>>
  OBVIOUS
<1>8. wire' = p \o o \o q
  BY <1>1, <1>3, <1>5, <1>6, <1>7
<1>9. IsSeq(wire) /\ Len(wire) \in Nat /\ DOMAIN wire = 1..Len(wire)
  BY Facts DEF PgInv
<1>10. IsSeq(p) /\ \A k \in DOMAIN p : k \in DOMAIN wire /\ p[k] = wire[k]
  BY <1>5, <1>9, Prefix
<1>11. IsSeq(q) /\ \A k \in DOMAIN q : n + k \in DOMAIN wire /\ q[k] = wire[n + k]
  BY <1>6, <1>9, Suffix
<1>12. IsSeq(o) /\ DOMAIN o = {1} /\ o[1] = m
  BY <1>7, OneSays
<1>13. IsSeq(p \o o)
  BY <1>10, <1>12, Joins
<1>14. ASSUME NEW script, NEW i, NEW j, Leads(wire, script, i, j)
       PROVE  Leads(wire', script, i, j)
  <2>1. PICK k \in Nat : Leads(p, script, i, k) /\ Leads(q, script, k, j)
    BY <1>5, <1>6, <1>9, <1>14, LeadsSplit
  <2>2. Leads(o, script, k, k)
    BY <1>4, <1>7, AsideCounted, LeadsOne
  <2>3. Leads(p \o o, script, i, k)
    BY <1>10, <1>12, <2>1, <2>2, LeadsJoin
  <2> QED BY <1>8, <1>11, <1>13, <2>1, <2>3, LeadsJoin
<1>15. ASSUME Quiet(wire, 0) PROVE Quiet(wire', 0)
  <2>1. \A k \in DOMAIN wire : wire[k].type \in Aside
    BY <1>9, <1>15 DEF Quiet
  <2>2. /\ \A k \in DOMAIN p : p[k].type \in Aside
        /\ \A k \in DOMAIN o : o[k].type \in Aside
        /\ \A k \in DOMAIN q : q[k].type \in Aside
    BY <1>4, <1>10, <1>11, <1>12, <2>1
  <2>3. PICK v : v = p \o o
    OBVIOUS
  <2>4. /\ IsSeq(v)
        /\ \A k \in DOMAIN v : \/ k \in DOMAIN p /\ v[k] = p[k]
                               \/ k - Len(p) \in DOMAIN o /\ v[k] = o[k - Len(p)]
    BY <1>10, <1>12, <2>3, Joins
  <2>5. PICK w : w = v \o q
    OBVIOUS
  <2>6. /\ IsSeq(w)
        /\ \A k \in DOMAIN w : \/ k \in DOMAIN v /\ w[k] = v[k]
                               \/ k - Len(v) \in DOMAIN q /\ w[k] = q[k - Len(v)]
    BY <1>11, <2>4, <2>5, Joins
  <2>7. \A k \in DOMAIN v : v[k].type \in Aside
    BY <2>2, <2>4
  <2>8. \A k \in DOMAIN w : w[k].type \in Aside
    BY <2>2, <2>6, <2>7
  <2>9. wire' = w
    BY <1>8, <2>3, <2>5
  <2> QED BY <2>8, <2>9 DEF Quiet
<1>16. \A i : Reported(server.outcomes, i) => Reported(server.outcomes, i)'
  BY <1>2 DEF Reported
<1> QED BY <1>2, <1>14, <1>15, <1>16 DEF QueryInv

\* Of what the server has sent, a part is lost with it.
LEMMA QueryInvCrash ==
  ASSUME PgInv, QueryInv, Crash
  PROVE  QueryInv'
<1>1. PICK n \in 0..Len(wire) : wire' = SubSeq(wire, 1, n)
  BY DEF Crash
<1>2. UNCHANGED <<up, pc, results>> /\ server' = [server EXCEPT !.gone = TRUE]
  BY DEF Crash, sessionVars
<1>3. "outcomes" \in DOMAIN server' /\ server'.outcomes = server.outcomes
  BY <1>2 DEF QueryInv
<1>4. IsSeq(wire)
  BY DEF PgInv
<1>5. Quiet(wire, 0) => Quiet(wire', 0)
  <2>1. \A k \in DOMAIN wire' : k \in DOMAIN wire /\ wire'[k] = wire[k]
    BY <1>1, <1>4, Prefix
  <2> QED BY <2>1 DEF Quiet
<1>6. \A script, i, j : Leads(wire, script, i, j) => \E k \in Nat : Leads(wire', script, i, k)
  BY <1>1, <1>4, LeadsSplit
<1>7. \A i : Reported(server.outcomes, i) => Reported(server.outcomes, i)'
  BY <1>2, <1>3 DEF Reported
<1>8. server'.outcomes \in Scripts <=> server.outcomes \in Scripts
  BY <1>3
<1>9. ASSUME pc = "query", up = <<>>
      PROVE  \E i, j \in Nat : Leads(wire', server'.outcomes, i, j) /\ Reported(server.outcomes, i)'
  <2>1. PICK i \in Nat, j \in Nat : Leads(wire, server.outcomes, i, j) /\ Reported(server.outcomes, i)
    BY <1>9 DEF QueryInv
  <2> QED BY <1>3, <1>6, <1>7, <2>1
<1> QED BY <1>2, <1>3, <1>5, <1>8, <1>9 DEF QueryInv

LEMMA QueryInvInit == PgInit => QueryInv
BY DEF PgInit, QueryInv

LEMMA QueryInvStep == PgInv /\ QueryInv /\ [PgNext]_pgVars => QueryInv'
<1> SUFFICES ASSUME PgInv, QueryInv, [PgNext]_pgVars PROVE QueryInv'
  OBVIOUS
<1>0. "outcomes" \in DOMAIN server
  BY DEF QueryInv
<1>1. CASE Server
  <2>1. ASSUME Authenticate \/ CheckPassword \/ SaslContinue \/ SaslRefuse \/ SaslFinal \/ AnswerExtended
        PROVE  QueryInv'
    <3>1. up # <<>> /\ up[1].type # "Q" /\ pc' = pc
      BY <2>1 DEF Authenticate, CheckPassword, SaslContinue, SaslRefuse, SaslFinal, AnswerExtended,
                  Asked, Answer, sessionVars
    <3>2. pc # "query"
      <4>1. ASSUME pc = "query" PROVE FALSE
        <5>1. Live /\ Paced
          BY <4>1 DEF PgInv, Live
        <5>2. 1 \in DOMAIN up /\ SendTypes = {"Q"}
          BY <3>1, <4>1, Facts DEF SendTypes
        <5> QED BY <3>1, <5>1, <5>2 DEF Paced
      <4> QED BY <4>1
    <3>3. "outcomes" \in DOMAIN server'
      BY <1>0, <2>1 DEF Authenticate, CheckPassword, SaslContinue, SaslRefuse, SaslFinal, AnswerExtended
    <3> QED BY <3>1, <3>2, <3>3 DEF QueryInv
  <2> QED BY <1>1, <2>1, QueryInvAnswer DEF Server
<1>2. CASE React
  <2>1. ASSUME SkipNotice \/ (Populate /\ pc = "query") PROVE QueryInv'
    <3>1. /\ wire # <<>> /\ wire' = Tail(wire) /\ ~Concludes(wire[1])
          /\ UNCHANGED <<server, up, results>> /\ pc' = pc
      BY <2>1 DEF SkipNotice, Populate, Takes, Rows, Concludes, Failures, sessionVars
    <3> QED BY <3>1, QueryInvReads
  <2>2. ASSUME \/ ReadFails \/ InitSkips \/ InitReady \/ InitThrows \/ HandleAuth
               \/ (Populate /\ pc # "query") \/ Misread \/ QueryReady
               \/ ExecuteSkips \/ ExecuteSuspended \/ ExecuteDone \/ CloseSkips \/ CloseReady
        PROVE  pc' # "query" /\ server' = server
    BY <2>2 DEF ReadFails, InitSkips, InitReady, InitThrows, HandleAuth, Populate, Misread,
                QueryReady, ExecuteSkips, ExecuteSuspended, ExecuteDone, CloseSkips, CloseReady,
                Throw, Takes, Completed, ClosesPortal, SendFails, sessionVars
  <2>3. pc' # "query" /\ server' = server => QueryInv'
    BY <1>0 DEF QueryInv
  <2> QED BY <1>2, <2>1, <2>2, <2>3, QueryInvConcludes DEF React
<1>3. CASE Caller
  <2>1. CASE Query /\ pc' = "query"
    <3>1. /\ pc = "idle" /\ results' = <<"PENDING">> /\ UNCHANGED <<server, wire>>
          /\ Send(<<Msg("Q")>>)
      BY <2>1 DEF Query, MayQuery, SendFails, PgInv
    <3>2. Quiet(wire, 0) /\ up = <<>> /\ unsent = <<>>
      BY <3>1, Facts DEF PgInv, Live, Paced
    <3>3. up' # <<>>
      <4>1. PICK m : m = Msg("Q")
        OBVIOUS
      <4>2. up' = <<m>>
        BY <3>1, <3>2, <4>1 DEF Send
      <4> QED BY <4>2
    <3> QED BY <1>0, <3>1, <3>2, <3>3 DEF QueryInv, Quiet
  <2>2. CASE (Query /\ pc' # "query") \/ PrepareQuery \/ Execute \/ CloseSync
    <3>1. pc' # "query" /\ server' = server
      BY <2>2 DEF Query, PrepareQuery, Execute, CloseSync, ClosesPortal, SendFails
    <3> QED BY <1>0, <3>1 DEF QueryInv
  <2> QED BY <1>3, <2>1, <2>2 DEF Caller
<1>4. CASE Asynchronous \/ Crash
  BY <1>4, QueryInvAside, QueryInvCrash
<1>5. CASE UNCHANGED pgVars
  BY <1>5 DEF pgVars, sessionVars, QueryInv, Quiet, Reported
<1> QED BY <1>1, <1>2, <1>3, <1>4, <1>5 DEF PgNext

\* query returns one result for each statement that the server executed, in
\* their order, whatever statements, notices in between and statements that
\* fail or return rows there are: unless the body of a row came late or a
\* parameter changed, for then the query has gone on to Misread, about which
\* nothing is said.
THEOREM ResultsAreWhatRan == PgSpec => []ResultsMatch
<1>1. PgInv /\ QueryInv => ResultsMatch
  <2> SUFFICES ASSUME PgInv, QueryInv, pc = "query", wire # <<>>, wire[1].type = "READY_FOR_QUERY"
               PROVE  Front(results) = [k \in DOMAIN server.outcomes |-> Result(server.outcomes[k])]
    BY DEF ResultsMatch, Result
  <2>1. up = <<>>
    BY Facts DEF PgInv, Live, Paced, Final
  <2>2. PICK script \in Scripts : script = server.outcomes
    BY <2>1 DEF QueryInv
  <2>3. PICK i \in Nat, j \in Nat : Leads(wire, script, i, j) /\ Reported(script, i)
    BY <2>1, <2>2 DEF QueryInv
  <2>4. IsSeq(wire)
    BY DEF PgInv
  <2>5. PICK k \in Nat : Counted(wire[1], script, i, k)
    BY <2>3, <2>4, LeadsTail
  <2>6. i = Len(script)
    BY <2>5 DEF Counted, Concludes, Failures
  <2>7. script \in Seq(Outcomes)
    BY PgAssumption
  <2>8. DOMAIN script = 1..i
    BY <2>6, <2>7
  <2>9. PICK S : S = {"PENDING", "SUCCESS", "ERROR"}
    OBVIOUS
  <2>10. results \in Seq(S) /\ Len(results) = i + 1 /\ \A n \in 1..i : results[n] = Result(script[n])
    BY <2>3, <2>9 DEF Reported
  <2>11. PICK f : f = Front(results)
    OBVIOUS
  <2>12. f \in Seq(S) /\ Len(f) = i /\ \A n \in 1..i : f[n] = results[n]
    BY <2>10, <2>11 DEF Front
  <2>13. f = [n \in 1..i |-> Result(script[n])]
    BY <2>10, <2>12
  <2> QED BY <2>2, <2>8, <2>11, <2>13
<1>2. Lost => ResultsMatch
  BY Sizes DEF Lost, Quiet, Aside, ResultsMatch
<1>3. (PgInv /\ QueryInv) \/ Lost => ResultsMatch
  BY <1>1, <1>2
<1>4. PgInit => (PgInv /\ QueryInv) \/ Lost
  BY PgInvInit, QueryInvInit
<1>5. ((PgInv /\ QueryInv) \/ Lost) /\ [PgNext]_pgVars => ((PgInv /\ QueryInv) \/ Lost)'
  BY PgInvStep, QueryInvStep, LostStays
<1> QED BY <1>3, <1>4, <1>5, PTL DEF PgSpec

-----------------------------------------------------------------------------
(* Decimal numbers. *)

Numbered == {Numerals[k] : k \in 1..10}

LEMMA NumeralValues ==
  ASSUME NEW d \in 0..9
  PROVE  Numerals[d + 1] \in Numbered /\ Numeral(Numerals[d + 1]) = d /\ Numerals[d + 1] # "-"
<1>1. DOMAIN Numerals = 1..10
  BY DEF Numerals
<1>2. \A i, j \in 1..10 : Numerals[i] = Numerals[j] => i = j
  BY DEF Numerals
<1>3. \A i \in 1..10 : Numerals[i] # "-"
  BY DEF Numerals
<1>4. d + 1 \in 1..10
  OBVIOUS
<1>5. (CHOOSE k \in DOMAIN Numerals : Numerals[k] = Numerals[d + 1]) = d + 1
  BY <1>1, <1>2, <1>4
<1>6. Numeral(Numerals[d + 1]) = (d + 1) - 1
  BY <1>5, Zenon DEF Numeral
<1> HIDE DEF Numerals
<1> QED BY <1>3, <1>4, <1>6 DEF Numbered

LEMMA NumeralIs ==
  ASSUME NEW c \in Numbered
  PROVE  Numeral(c) \in 0..9
<1>1. PICK k \in 1..10 : c = Numerals[k]
  BY DEF Numbered
<1>2. k - 1 \in 0..9 /\ (k - 1) + 1 = k
  OBVIOUS
<1> QED BY <1>1, <1>2, NumeralValues

IsNumber(s, g) ==
  g = [T \in SUBSET (DOMAIN s) |->
         IF T = {} THEN 0 ELSE g[T \ {Max(T)}] * 10 + Numeral(s[Max(T)])]

NumberStep == [x \in Nat \X Numbered |-> x[1] * 10 + Numeral(x[2])]

LEMMA NumberFollows ==
  ASSUME NEW s \in Seq(Numbered)
  PROVE  /\ NumberStep \in [Nat \X Numbered -> Nat]
         /\ \E g : Follows(Nat, NumberStep, 0, s, g) /\ convert_to_num(s) = g[1..Len(s)]
         /\ convert_to_num(s) \in Nat
<1> DEFINE n == Len(s)
           h == CHOOSE g : IsNumber(s, g)
<1>1. NumberStep \in [Nat \X Numbered -> Nat]
  <2>1. \A v \in Nat, c \in Numbered : v * 10 + Numeral(c) \in Nat
    BY NumeralIs
  <2> QED BY <2>1 DEF NumberStep
<1>3. /\ n \in Nat /\ DOMAIN s = 1..n
      /\ \A T \in SUBSET (1..n) : T # {} => s[Max(T)] \in Numbered /\ T \ {Max(T)} \in SUBSET (1..n)
  BY Positions
<1>4. \A v \in Nat, c \in Numbered : NumberStep[<<v, c>>] = v * 10 + Numeral(c)
  BY DEF NumberStep
<1> HIDE DEF n
<1>5. PICK g \in [SUBSET (1..n) -> Nat] : Table(NumberStep, 0, s, g)
  BY <1>1, TableSolved DEF n
<1>6. IsNumber(s, g)
  <2>1. ASSUME NEW T \in SUBSET (1..n), T # {}
        PROVE  NumberStep[<<g[T \ {Max(T)}], s[Max(T)]>>] = g[T \ {Max(T)}] * 10 + Numeral(s[Max(T)])
    BY <1>3, <1>4, <2>1
  <2>2. g = [T \in SUBSET (1..n) |-> IF T = {} THEN 0
                ELSE NumberStep[<<g[T \ {Max(T)}], s[Max(T)]>>]]
    BY <1>5 DEF Table, n
  <2>3. g = [T \in SUBSET (1..n) |-> IF T = {} THEN 0
                ELSE g[T \ {Max(T)}] * 10 + Numeral(s[Max(T)])]
    BY <2>1, <2>2
  <2> QED BY <1>3, <2>3 DEF IsNumber
<1>7. IsNumber(s, h)
  BY <1>6
<1>8. convert_to_num(s) = h[1..n]
  BY <1>3 DEF convert_to_num, IsNumber, FoldLeft, MapThenFoldSet
<1> HIDE DEF h
<1>9. Follows(Nat, NumberStep, 0, s, h)
  <2>1. ASSUME NEW T \in SUBSET (1..n), T # {}, h[T \ {Max(T)}] \in Nat
        PROVE  h[T] = NumberStep[<<h[T \ {Max(T)}], s[Max(T)]>>]
    <3>1. h[T] = h[T \ {Max(T)}] * 10 + Numeral(s[Max(T)])
      BY <1>3, <1>7, <2>1 DEF IsNumber
    <3> QED BY <1>3, <1>4, <2>1, <3>1
  <2>2. h[{}] = 0
    BY <1>7 DEF IsNumber
  <2> QED BY <2>1, <2>2 DEF Follows, n
<1>10. h[1..n] \in Nat
  BY <1>1, <1>9, FollowsIn DEF n
<1> QED BY <1>1, <1>8, <1>9, <1>10 DEF n

LEMMA NumberNone == convert_to_num(<<>>) = 0
<1>1. PICK s \in Seq(Numbered) : s = <<>>
  BY EmptySeq
<1>2. PICK g : Follows(Nat, NumberStep, 0, s, g) /\ convert_to_num(s) = g[1..Len(s)]
  BY NumberFollows
<1>3. g[1..Len(<<>>)] = 0
  BY <1>1, <1>2, FollowsNone
<1> QED BY <1>1, <1>2, <1>3

LEMMA NumberAppend ==
  ASSUME NEW s \in Seq(Numbered), NEW c \in Numbered
  PROVE  convert_to_num(Append(s, c)) = convert_to_num(s) * 10 + Numeral(c)
<1>1. PICK g : Follows(Nat, NumberStep, 0, s, g) /\ convert_to_num(s) = g[1..Len(s)]
  BY NumberFollows
<1>2. PICK t : t = Append(s, c)
  OBVIOUS
<1>3. t \in Seq(Numbered) /\ Len(t) = Len(s) + 1
  BY <1>2, AppendProperties
<1>4. PICK h : Follows(Nat, NumberStep, 0, t, h) /\ convert_to_num(t) = h[1..Len(t)]
  BY <1>3, NumberFollows
<1>5. StepsOnce(Nat, NumberStep, g, Len(s), h, c)
  <2>1. NumberStep \in [Nat \X Numbered -> Nat]
    BY NumberFollows
  <2>2. Follows(Nat, NumberStep, 0, Append(s, c), h)
    BY <1>2, <1>4
  <2>3. Follows(Nat, NumberStep, 0, s, g)
    BY <1>1
  <2> QED BY <2>1, <2>2, <2>3, TableAppends
<1>6. \A v \in Nat : NumberStep[<<v, c>>] = v * 10 + Numeral(c)
  BY DEF NumberStep
<1> QED BY <1>1, <1>2, <1>3, <1>4, <1>5, <1>6, NumberFollows DEF StepsOnce

-----------------------------------------------------------------------------
(* The text of a number.  ToChars recurs on a number that is smaller. *)

Texts == Seq(Numbered)

Writes(n, g) ==
  g[n] = IF n < 10 THEN <<Numerals[n + 1]>> ELSE Append(g[n \div 10], Numerals[(n % 10) + 1])

WritesUpTo(m, g) == g \in [0..m -> Texts] /\ \A n \in 0..m : Writes(n, g)

SameUpTo(m, g, h) == \A n \in 0..m : g[n] = h[n]

LEMMA Tens ==
  ASSUME NEW n \in Nat
  PROVE  /\ n % 10 \in 0..9 /\ n \div 10 \in Nat /\ n = (n \div 10) * 10 + (n % 10)
         /\ n >= 10 => n \div 10 < n
OBVIOUS

LEMMA WritesAgree ==
  ASSUME NEW m \in Nat, NEW k \in Nat, k <= m,
         NEW g, WritesUpTo(m, g), NEW h, WritesUpTo(k, h)
  PROVE  SameUpTo(k, g, h)
<1> DEFINE Good == {i \in 0..k : SameUpTo(i, g, h)}
<1>1. ASSUME NEW n \in 0..k, \A i \in 0..(n - 1) : g[i] = h[i] PROVE g[n] = h[n]
  <2>1. Writes(n, g) /\ Writes(n, h)
    BY DEF WritesUpTo
  <2>2. n >= 10 => n \div 10 \in 0..(n - 1)
    BY Tens
  <2> QED BY <1>1, <2>1, <2>2 DEF Writes
<1>2. 0 \in Good
  <2>1. g[0] = h[0]
    BY <1>1
  <2> QED BY <2>1 DEF SameUpTo
<1>3. ASSUME NEW i \in 0..(k - 1), i \in Good PROVE i + 1 \in Good
  <2>1. g[i + 1] = h[i + 1]
    BY <1>1, <1>3 DEF SameUpTo
  <2> QED BY <1>3, <2>1 DEF SameUpTo
<1> HIDE DEF Good
<1>4. k \in Good
  BY <1>2, <1>3, UpTo
<1> QED BY <1>4 DEF Good

LEMMA WritesOne ==
  ASSUME NEW d \in 0..9, NEW s \in Texts
  PROVE  <<Numerals[d + 1]>> \in Texts /\ Append(s, Numerals[d + 1]) \in Texts
BY NumeralValues, AppendProperties DEF Texts

LEMMA WritesExist ==
  ASSUME NEW m \in Nat
  PROVE  \E g : WritesUpTo(m, g)
<1> DEFINE Good == {k \in 0..m : \E g : WritesUpTo(k, g)}
<1>1. 0 \in Good
  <2> DEFINE g == [n \in 0..0 |-> <<Numerals[n + 1]>>]
  <2>1. g \in [0..0 -> Texts]
    <3>1. <<>> \in Texts /\ 0 \in 0..9
      BY EmptySeq DEF Texts
    <3>2. <<Numerals[0 + 1]>> \in Texts
      BY <3>1, WritesOne
    <3> QED BY <3>2
  <2>2. Writes(0, g)
    BY DEF Writes
  <2> HIDE DEF g
  <2>3. WritesUpTo(0, g)
    BY <2>1, <2>2 DEF WritesUpTo
  <2> QED BY <2>3
<1>2. ASSUME NEW k \in 0..(m - 1), k \in Good PROVE k + 1 \in Good
  <2>1. PICK g : WritesUpTo(k, g)
    BY <1>2
  <2> DEFINE x == IF k + 1 < 10 THEN <<Numerals[(k + 1) + 1]>>
                  ELSE Append(g[(k + 1) \div 10], Numerals[((k + 1) % 10) + 1])
             h == [n \in 0..(k + 1) |-> IF n = k + 1 THEN x ELSE g[n]]
  <2>2. k + 1 \in Nat /\ (k + 1) % 10 \in 0..9 /\ (k + 1 >= 10 => (k + 1) \div 10 \in 0..k)
    BY Tens
  <2>3. g \in [0..k -> Texts]
    BY <2>1 DEF WritesUpTo
  <2>4. x \in Texts
    <3>1. CASE k + 1 < 10
      <4>1. k + 1 \in 0..9
        BY <3>1
      <4>2. <<>> \in Texts
        BY DEF Texts
      <4> QED BY <3>1, <4>1, <4>2, WritesOne
    <3>2. CASE ~(k + 1 < 10)
      <4>1. g[(k + 1) \div 10] \in Texts
        BY <2>2, <2>3, <3>2
      <4> QED BY <2>2, <3>2, <4>1, WritesOne
    <3> QED BY <3>1, <3>2
  <2>5. h \in [0..(k + 1) -> Texts]
    <3> HIDE DEF x
    <3> QED BY <2>3, <2>4
  <2>6. ASSUME NEW n \in 0..(k + 1) PROVE Writes(n, h)
    <3>1. n >= 10 => n \div 10 \in 0..k /\ h[n \div 10] = g[n \div 10]
      <4> HIDE DEF x
      <4> QED BY Tens
    <3>2. CASE n = k + 1
      BY <3>1, <3>2 DEF Writes
    <3>3. CASE n # k + 1
      <4>1. n \in 0..k /\ h[n] = g[n]
        BY <3>3
      <4>2. Writes(n, g)
        BY <2>1, <4>1 DEF WritesUpTo
      <4> HIDE DEF h
      <4> QED BY <3>1, <4>1, <4>2 DEF Writes
    <3> QED BY <3>2, <3>3
  <2> HIDE DEF h
  <2>7. WritesUpTo(k + 1, h)
    BY <2>5, <2>6 DEF WritesUpTo
  <2> QED BY <2>7
<1> HIDE DEF Good
<1>3. m \in Good
  BY <1>1, <1>2, UpTo
<1> QED BY <1>3 DEF Good

Writer(m) == CHOOSE g : WritesUpTo(m, g)

\* The recursion of ToChars
IsText(f) ==
  f = [n \in Int |-> IF n < 0 THEN <<"-">> \o f[-n]
                     ELSE IF n < 10 THEN <<Numerals[n + 1]>>
                     ELSE Append(f[n \div 10], Numerals[(n % 10) + 1])]

LEMMA TextIs ==
  /\ \A n \in Nat : ToChars[n] = IF n < 10 THEN <<Numerals[n + 1]>>
                                 ELSE Append(ToChars[n \div 10], Numerals[(n % 10) + 1])
  /\ \A n \in Int : n < 0 => ToChars[n] = <<"-">> \o ToChars[-n]
<1> DEFINE F(n) == Writer(n)[n]
           f == [n \in Int |-> IF n < 0 THEN <<"-">> \o F(-n) ELSE F(n)]
<1>1. ASSUME NEW n \in Nat
      PROVE  F(n) = IF n < 10 THEN <<Numerals[n + 1]>>
                    ELSE Append(F(n \div 10), Numerals[(n % 10) + 1])
  <2>1. \A k \in Nat : WritesUpTo(k, Writer(k))
    BY WritesExist DEF Writer
  <2>2. Writes(n, Writer(n))
    <3>1. WritesUpTo(n, Writer(n)) /\ n \in 0..n
      BY <2>1
    <3> QED BY <3>1 DEF WritesUpTo
  <2>3. CASE n < 10
    BY <2>2, <2>3 DEF Writes
  <2>4. CASE ~(n < 10)
    <3>1. PICK k \in Nat : k = n \div 10 /\ k <= n
      BY <2>4, Tens
    <3>2. WritesUpTo(n, Writer(n)) /\ WritesUpTo(k, Writer(k))
      BY <2>1
    <3>3. SameUpTo(k, Writer(n), Writer(k))
      BY <3>1, <3>2, WritesAgree
    <3>4. Writer(n)[k] = Writer(k)[k]
      BY <3>3 DEF SameUpTo
    <3> QED BY <2>2, <2>4, <3>1, <3>4 DEF Writes
  <2> QED BY <2>3, <2>4
<1> HIDE DEF F
<1>2. IsText(f)
  <2>1. ASSUME NEW n \in Int
        PROVE  f[n] = IF n < 0 THEN <<"-">> \o f[-n]
                      ELSE IF n < 10 THEN <<Numerals[n + 1]>>
                      ELSE Append(f[n \div 10], Numerals[(n % 10) + 1])
    <3>1. CASE n < 0
      <4>1. -n \in Int /\ ~(-n < 0)
        BY <3>1
      <4>2. f[-n] = F(-n)
        BY <4>1
      <4> QED BY <3>1, <4>2
    <3>2. CASE ~(n < 0)
      <4>1. n \in Nat /\ n \div 10 \in Nat
        BY <3>2, Tens
      <4>2. f[n] = F(n) /\ f[n \div 10] = F(n \div 10)
        BY <4>1
      <4> HIDE DEF f
      <4> QED BY <1>1, <3>2, <4>1, <4>2
    <3> QED BY <3>1, <3>2
  <2>2. f = [n \in Int |-> f[n]]
    OBVIOUS
  <2> HIDE DEF f
  <2> QED BY <2>1, <2>2 DEF IsText
<1> HIDE DEF f
<1>3. IsText(ToChars)
  BY <1>2 DEF IsText, ToChars
<1>4. \A n \in Int :
        ToChars[n] = IF n < 0 THEN <<"-">> \o ToChars[-n]
                     ELSE IF n < 10 THEN <<Numerals[n + 1]>>
                     ELSE Append(ToChars[n \div 10], Numerals[(n % 10) + 1])
  BY <1>3, Zenon DEF IsText
<1>5. ASSUME NEW n \in Nat
      PROVE  ToChars[n] = IF n < 10 THEN <<Numerals[n + 1]>>
                          ELSE Append(ToChars[n \div 10], Numerals[(n % 10) + 1])
  <2>1. n \in Int /\ ~(n < 0)
    OBVIOUS
  <2> QED BY <1>4, <2>1, Zenon
<1>6. ASSUME NEW n \in Int, n < 0
      PROVE  ToChars[n] = <<"-">> \o ToChars[-n]
  BY <1>4, <1>6, Zenon
<1> QED BY <1>5, <1>6

\* A text that is written for a number is read as the number.
Reads10(n) == ToChars[n] \in Texts /\ ToChars[n] # <<>> /\ convert_to_num(ToChars[n]) = n

LEMMA NaturalsKept ==
  ASSUME NEW n \in Nat
  PROVE  Reads10(n)
<1> DEFINE Good == {m \in 0..n : \A k \in 0..m : Reads10(k)}
<1>1. ASSUME NEW k \in Nat, \A i \in 0..(k - 1) : Reads10(i) PROVE Reads10(k)
  <2>1. CASE k < 10
    <3>1. PICK c \in Numbered : c = Numerals[k + 1] /\ Numeral(c) = k
      BY <2>1, NumeralValues
    <3>2. ToChars[k] = <<c>>
      BY <2>1, <3>1, TextIs
    <3>3. <<>> \in Seq(Numbered) /\ <<c>> = Append(<<>>, c) /\ <<c>> \in Seq(Numbered) /\ <<c>> # <<>>
      OBVIOUS
    <3>4. convert_to_num(<<c>>) = 0 * 10 + Numeral(c)
      BY <3>3, NumberAppend, NumberNone
    <3> QED BY <3>1, <3>2, <3>3, <3>4 DEF Reads10, Texts
  <2>2. CASE ~(k < 10)
    <3>1. PICK j \in 0..(k - 1) : j = k \div 10
      BY <2>2, Tens
    <3>2. k % 10 \in 0..9 /\ k = j * 10 + (k % 10)
      BY <3>1, Tens
    <3>3. PICK c \in Numbered : c = Numerals[(k % 10) + 1] /\ Numeral(c) = k % 10
      BY <3>2, NumeralValues
    <3>4. PICK s \in Texts : s = ToChars[j] /\ convert_to_num(s) = j
      BY <1>1 DEF Reads10
    <3>5. ToChars[k] = Append(s, c)
      BY <2>2, <3>1, <3>3, <3>4, TextIs
    <3>6. Append(s, c) \in Seq(Numbered) /\ Append(s, c) # <<>>
      BY AppendProperties DEF Texts
    <3>7. convert_to_num(Append(s, c)) = convert_to_num(s) * 10 + Numeral(c)
      BY NumberAppend DEF Texts
    <3>8. convert_to_num(Append(s, c)) = k
      BY <3>2, <3>3, <3>4, <3>7
    <3> QED BY <3>5, <3>6, <3>8 DEF Reads10, Texts
  <2> QED BY <2>1, <2>2
<1>2. 0 \in Good
  BY <1>1
<1>3. ASSUME NEW i \in 0..(n - 1), i \in Good PROVE i + 1 \in Good
  <2>1. Reads10(i + 1)
    BY <1>1, <1>3
  <2> QED BY <1>3, <2>1
<1> HIDE DEF Good
<1>4. n \in Good
  BY <1>2, <1>3, UpTo
<1> QED BY <1>4 DEF Good

Characters == Numbered \union {"-"}

LEMMA NumbersKept ==
  ASSUME NEW n \in Int
  PROVE  /\ \E s \in Seq(Characters) : s = ToChars[n] /\ s # <<>>
         /\ FromChars(ToChars[n]) = n
<1>0. \A s \in Seq(Numbered) : s \in Seq(Characters)
  <2>1. Numbered \subseteq Characters
    BY DEF Characters
  <2> QED BY <2>1
<1>1. CASE n >= 0
  <2>1. PICK s \in Seq(Numbered) : s = ToChars[n] /\ s # <<>> /\ convert_to_num(s) = n
    BY <1>1, NaturalsKept DEF Reads10, Texts
  <2>2. s[1] \in Numbered
    BY <2>1
  <2>3. s[1] # "-"
    BY <2>2 DEF Numbered, Numerals
  <2>4. s \in Seq(Characters)
    BY <1>0
  <2> QED BY <2>1, <2>3, <2>4 DEF FromChars
<1>2. CASE ~(n >= 0)
  <2>1. -n \in Nat /\ n < 0
    BY <1>2
  <2>2. PICK s \in Seq(Numbered) : s = ToChars[-n] /\ s # <<>> /\ convert_to_num(s) = -n
    BY <2>1, NaturalsKept DEF Reads10, Texts
  <2>3. ToChars[n] = <<"-">> \o s
    BY <2>1, <2>2, TextIs
  <2>4. s \in Seq(Characters)
    BY <1>0
  <2>5. PICK t \in Seq(Characters) : t = <<"-">> \o s
    <3>1. "-" \in Characters
      BY DEF Characters
    <3>2. <<"-">> \in Seq(Characters)
      BY <3>1
    <3> QED BY <2>4, <3>2, ConcatProperties
  <2>6. t # <<>> /\ t[1] = "-" /\ Tail(t) = s
    BY <2>4, <2>5
  <2>7. ToChars[n] = t
    BY <2>3, <2>5
  <2>8. FromChars(t) = -(-n)
    BY <2>2, <2>6 DEF FromChars
  <2> QED BY <2>6, <2>7, <2>8
<1> QED BY <1>1, <1>2

-----------------------------------------------------------------------------
(* Parameters, and the row that has their values. *)

Read(stored, var) ==
  IF stored.size < 0 THEN var
  ELSE Value(var.type, Parse(var.type, SubSeq(stored.text, 1, stored.size)))

LEMMA TextKept ==
  ASSUME NEW value \in Values, ~value.null
  PROVE  /\ Len(Text(value)) \in Nat
         /\ Parse(value.type, SubSeq(Text(value), 1, Len(Text(value)))) = value.v
         /\ value = Value(value.type, value.v)
<1>1. CASE value \in [type : {"number"}, null : {FALSE}, v : Int]
  <2>1. value.type = "number" /\ value.v \in Int /\ value = [type |-> "number", null |-> FALSE, v |-> value.v]
    BY <1>1
  <2>2. PICK s \in Seq(Characters) : s = ToChars[value.v] /\ FromChars(s) = value.v
    BY <2>1, NumbersKept
  <2>3. Len(s) \in Nat /\ SubSeq(s, 1, Len(s)) = s
    BY FrontEnds
  <2>4. Text(value) = s /\ \A t : Parse(value.type, t) = FromChars(t)
    BY <2>1, <2>2 DEF Text, Parse
  <2> QED BY <2>1, <2>2, <2>3, <2>4 DEF Value
<1>2. CASE value \in [type : {"bool"}, null : {FALSE}, v : BOOLEAN]
  <2>1. value.type = "bool" /\ value.v \in BOOLEAN /\ value = [type |-> "bool", null |-> FALSE, v |-> value.v]
    BY <1>2
  <2>2. PICK s \in Seq({"t", "f"}) : s = IF value.v THEN <<"t">> ELSE <<"f">>
    <3>1. <<"t">> \in Seq({"t", "f"}) /\ <<"f">> \in Seq({"t", "f"})
      OBVIOUS
    <3> QED BY <3>1
  <2>3. Len(s) \in Nat /\ SubSeq(s, 1, Len(s)) = s
    BY FrontEnds
  <2>4. (s = <<"t">>) = value.v
    BY <2>1, <2>2
  <2>5. Text(value) = s /\ \A t : Parse(value.type, t) = (t = <<"t">>)
    BY <2>1, <2>2 DEF Text, Parse
  <2> QED BY <2>1, <2>3, <2>4, <2>5 DEF Value
<1>3. CASE value \in [type : {"string"}, null : {FALSE}, v : Seq(STRING)]
  <2>1. value.type = "string" /\ value.v \in Seq(STRING) /\ value = [type |-> "string", null |-> FALSE, v |-> value.v]
    BY <1>3
  <2>2. Len(value.v) \in Nat /\ SubSeq(value.v, 1, Len(value.v)) = value.v
    BY <2>1, FrontEnds
  <2>3. Text(value) = value.v /\ \A t : Parse(value.type, t) = t
    BY <2>1 DEF Text, Parse
  <2> QED BY <2>1, <2>2, <2>3 DEF Value
<1>4. ~(value \in {Null(type) : type \in {"number", "bool", "string"}})
  BY DEF Null
<1> QED BY <1>1, <1>2, <1>3, <1>4 DEF Values

LEMMA ValueKept ==
  ASSUME NEW value \in Values, NEW var, var.type = value.type
  PROVE  Read(Store(value), var) = IF value.null THEN var ELSE value
<1>1. CASE value.null
  <2>1. Store(value).size = -1
    BY <1>1 DEF Store
  <2> QED BY <1>1, <2>1 DEF Read
<1>2. CASE ~value.null
  <2>1. Store(value).size = Len(Text(value)) /\ Store(value).text = Text(value)
    BY <1>2 DEF Store
  <2>2. ~(Len(Text(value)) < 0)
    BY <1>2, TextKept
  <2> QED BY <1>2, <2>1, <2>2, TextKept DEF Read
<1> QED BY <1>1, <1>2

\* What the columns of these values make of variables
Expected(values, vars) ==
  [k \in DOMAIN values |-> IF values[k].null THEN vars[k] ELSE values[k]]

LEMMA SameTypes ==
  ASSUME NEW vars, NEW values, TypesOf(vars) = TypesOf(values)
  PROVE  DOMAIN vars = DOMAIN values /\ \A k \in DOMAIN values : vars[k].type = values[k].type
<1> DEFINE s == TypesOf(vars)
           t == TypesOf(values)
<1>1. DOMAIN s = DOMAIN vars /\ \A k \in DOMAIN vars : s[k] = vars[k].type
  BY DEF TypesOf
<1>2. DOMAIN t = DOMAIN values /\ \A k \in DOMAIN values : t[k] = values[k].type
  BY DEF TypesOf
<1>3. s = t
  OBVIOUS
<1> HIDE DEF s, t
<1> QED BY <1>1, <1>2, <1>3

LEMMA ExpectedTypes ==
  ASSUME NEW vars, NEW values, TypesOf(vars) = TypesOf(values)
  PROVE  TypesOf(Expected(values, vars)) = TypesOf(values)
<1>1. DOMAIN vars = DOMAIN values /\ \A k \in DOMAIN values : vars[k].type = values[k].type
  BY SameTypes
<1>2. PICK e : e = Expected(values, vars)
  OBVIOUS
<1>3. DOMAIN e = DOMAIN values /\ \A k \in DOMAIN values : e[k] = IF values[k].null THEN vars[k] ELSE values[k]
  BY <1>2 DEF Expected
<1>4. \A k \in DOMAIN values : e[k].type = values[k].type
  BY <1>1, <1>3
<1>5. TypesOf(e) = TypesOf(values)
  BY <1>3, <1>4 DEF TypesOf
<1> QED BY <1>2, <1>5

LEMMA RowRead ==
  ASSUME NEW values \in Seq(Values), NEW vars, TypesOf(vars) = TypesOf(values)
  PROVE  GetRow(Params(values).values, vars) = Expected(values, vars)
<1>1. \A k \in DOMAIN values : values[k] \in Values
  OBVIOUS
<1>2. PICK row : row = Params(values).values
  OBVIOUS
<1>3. row = [k \in DOMAIN values |-> Store(values[k])]
  BY <1>2 DEF Params
<1>4. DOMAIN row = DOMAIN values /\ \A k \in DOMAIN values : row[k] = Store(values[k])
  BY <1>3
<1>5. ASSUME NEW k \in DOMAIN values
      PROVE  (IF row[k].size < 0 THEN vars[k]
              ELSE Value(vars[k].type, Parse(vars[k].type, SubSeq(row[k].text, 1, row[k].size))))
               = IF values[k].null THEN vars[k] ELSE values[k]
  <2>1. vars[k].type = values[k].type
    BY SameTypes
  <2>2. Read(row[k], vars[k]) = IF values[k].null THEN vars[k] ELSE values[k]
    BY <1>1, <1>4, <2>1, ValueKept
  <2> QED BY <2>2 DEF Read
<1>7. GetRow(row, vars) = Expected(values, vars)
  BY <1>4, <1>5 DEF GetRow, Expected
<1> QED BY <1>2, <1>7

-----------------------------------------------------------------------------
(* The portal.  Of Parse, Bind and Execute the server takes the parameters  *)
(* before it is asked for rows, or it skips to the Sync.                    *)

Portal == pc \in {"portal", "execute"}

Carries(s, values) == \A k \in DOMAIN s : s[k].type = "B" => s[k].body = Params(values)
Shows(w, values)   == \A k \in DOMAIN w : w[k].type = "DATA_ROW" => w[k].body = Params(values).values

\* Bind, with no Execute before it
BindsFirst(s) == \E j \in DOMAIN s : s[j].type = "B" /\ \A k \in DOMAIN s : k < j => s[k].type # "E"
NoneAsked(s)  == \A k \in DOMAIN s : s[k].type # "E"

Bound(values) == server.values = Params(values) \/ server.pc = "skip"

BoundFor(values) ==
  Bound(values) \/ BindsFirst(up) \/ (NoneAsked(up) /\ BindsFirst(unsent))

\* The variables have the types of the parameters, and what they are after a
\* row has been read follows from what they were before.
Follow(values, before, row, read) ==
  /\ params = [values |-> values, before |-> before, row |-> row, read |-> read]
  /\ TypesOf(before) = TypesOf(values) /\ TypesOf(row) = TypesOf(values)
  /\ \A k \in DOMAIN values : values[k].null => row[k] = before[k]
  /\ read => row = Expected(values, before)

Kept(values) == \E before, row, read : Follow(values, before, row, read)

RowsInv ==
  /\ {"values", "pc"} \subseteq DOMAIN server
  /\ \E values \in Seq(Values) :
       /\ Kept(values)
       /\ Portal => Carries(up, values) /\ Carries(unsent, values) /\ Shows(wire, values) /\ BoundFor(values)

\* Outside of the portal there is nothing to keep.
LEMMA RowsInvOther ==
  ASSUME RowsInv, ~Portal', params' = params, DOMAIN server' = DOMAIN server
  PROVE  RowsInv'
BY DEF RowsInv, Kept, Follow

\* A message is joined to others: the first ones, and the ones after them.
LEMMA Halves ==
  ASSUME NEW s, NEW t, IsSeq(s), IsSeq(t)
  PROVE  /\ \A k \in DOMAIN s : k \in DOMAIN (s \o t) /\ (s \o t)[k] = s[k]
         /\ \A k \in DOMAIN t : k + Len(s) \in DOMAIN (s \o t) /\ (s \o t)[k + Len(s)] = t[k]
<1> DEFINE u == s \o t
<1>1. /\ IsSeq(u) /\ Len(u) = Len(s) + Len(t)
      /\ \A k \in DOMAIN u : \/ k \in DOMAIN s /\ u[k] = s[k]
                             \/ k - Len(s) \in DOMAIN t /\ u[k] = t[k - Len(s)]
  BY Joins
<1> HIDE DEF u
<1>2. /\ DOMAIN u = 1..Len(u) /\ DOMAIN s = 1..Len(s) /\ DOMAIN t = 1..Len(t)
      /\ Len(s) \in Nat /\ Len(t) \in Nat
  BY <1>1, Sizes
<1>3. \A k \in DOMAIN s : k \in DOMAIN u /\ u[k] = s[k]
  BY <1>1, <1>2
<1>4. ASSUME NEW k \in DOMAIN t PROVE k + Len(s) \in DOMAIN u /\ u[k + Len(s)] = t[k]
  <2>1. k + Len(s) \in DOMAIN u /\ k + Len(s) \notin DOMAIN s /\ (k + Len(s)) - Len(s) = k
    BY <1>1, <1>2
  <2> QED BY <1>1, <2>1
<1> QED BY <1>3, <1>4 DEF u

LEMMA BindsFirstJoined ==
  ASSUME NEW s, NEW t, IsSeq(s), IsSeq(t),
         BindsFirst(s) \/ (NoneAsked(s) /\ BindsFirst(t))
  PROVE  BindsFirst(s \o t)
<1> DEFINE u == s \o t
<1>1. \A k \in DOMAIN u : \/ k \in DOMAIN s /\ u[k] = s[k]
                          \/ k - Len(s) \in DOMAIN t /\ u[k] = t[k - Len(s)]
  BY Joins
<1>2. /\ \A k \in DOMAIN s : k \in DOMAIN u /\ u[k] = s[k]
      /\ \A k \in DOMAIN t : k + Len(s) \in DOMAIN u /\ u[k + Len(s)] = t[k]
  BY Halves
<1>3. /\ DOMAIN s = 1..Len(s) /\ DOMAIN t = 1..Len(t) /\ Len(s) \in Nat /\ Len(t) \in Nat
      /\ DOMAIN u \subseteq Int
  BY Joins, Sizes
<1> HIDE DEF u
<1>4. CASE BindsFirst(s)
  <2>1. PICK j \in DOMAIN s : s[j].type = "B" /\ \A k \in DOMAIN s : k < j => s[k].type # "E"
    BY <1>4 DEF BindsFirst
  <2>2. \A k \in DOMAIN u : k < j => u[k].type # "E"
    BY <1>1, <1>3, <2>1
  <2>3. BindsFirst(u)
    BY <1>2, <2>1, <2>2 DEF BindsFirst
  <2> QED BY <2>3 DEF u
<1>5. CASE NoneAsked(s) /\ BindsFirst(t)
  <2>1. PICK j \in DOMAIN t : t[j].type = "B" /\ \A k \in DOMAIN t : k < j => t[k].type # "E"
    BY <1>5 DEF BindsFirst
  <2>2. ASSUME NEW k \in DOMAIN u, k < j + Len(s) PROVE u[k].type # "E"
    <3>1. CASE k \in DOMAIN s /\ u[k] = s[k]
      BY <1>5, <3>1 DEF NoneAsked
    <3>2. CASE k - Len(s) \in DOMAIN t /\ u[k] = t[k - Len(s)]
      <4>1. k - Len(s) < j
        BY <1>3, <2>2
      <4> QED BY <2>1, <3>2, <4>1
    <3> QED BY <1>1, <3>1, <3>2
  <2>3. BindsFirst(u)
    BY <1>2, <2>1, <2>2 DEF BindsFirst
  <2> QED BY <2>3 DEF u
<1> QED BY <1>4, <1>5

LEMMA CarriesJoined ==
  ASSUME NEW s, NEW t, IsSeq(s), IsSeq(t), NEW values, Carries(s, values), Carries(t, values)
  PROVE  Carries(s \o t, values)
<1> DEFINE u == s \o t
<1>1. \A k \in DOMAIN u : \/ k \in DOMAIN s /\ u[k] = s[k]
                          \/ k - Len(s) \in DOMAIN t /\ u[k] = t[k - Len(s)]
  BY Joins
<1> HIDE DEF u
<1>2. Carries(u, values)
  BY <1>1 DEF Carries
<1> QED BY <1>2 DEF u

LEMMA ShowsJoined ==
  ASSUME NEW s, NEW t, IsSeq(s), IsSeq(t), NEW values, Shows(s, values), Shows(t, values)
  PROVE  Shows(s \o t, values)
<1> DEFINE u == s \o t
<1>1. \A k \in DOMAIN u : \/ k \in DOMAIN s /\ u[k] = s[k]
                          \/ k - Len(s) \in DOMAIN t /\ u[k] = t[k - Len(s)]
  BY Joins
<1> HIDE DEF u
<1>2. Shows(u, values)
  BY <1>1 DEF Shows
<1> QED BY <1>2 DEF u

LEMMA KeptSame == ASSUME NEW values, Kept(values), params' = params PROVE Kept(values)'
BY DEF Kept, Follow

\* The client has read a message.
LEMMA RowsInvReads ==
  ASSUME PgInv, RowsInv, wire # <<>>, wire' = Tail(wire), UNCHANGED <<server, up, unsent, params>>,
         Portal' => Portal
  PROVE  RowsInv'
<1>1. PICK values \in Seq(Values) :
        /\ Kept(values)
        /\ Portal => Carries(up, values) /\ Carries(unsent, values) /\ Shows(wire, values) /\ BoundFor(values)
  BY DEF RowsInv
<1>2. \A k \in DOMAIN wire' : k + 1 \in DOMAIN wire /\ wire'[k] = wire[k + 1]
  BY WireRead
<1>3. Shows(wire, values) => Shows(wire', values)
  BY <1>2 DEF Shows
<1>4. BoundFor(values) => BoundFor(values)'
  BY DEF BoundFor, Bound
<1>5. Kept(values)'
  BY <1>1, KeptSame
<1>6. /\ {"values", "pc"} \subseteq DOMAIN server'
      /\ Carries(up, values) => Carries(up', values)
      /\ Carries(unsent, values) => Carries(unsent', values)
  BY DEF RowsInv
<1> QED BY <1>1, <1>3, <1>4, <1>5, <1>6 DEF RowsInv

\* The same row, read again, changes nothing, and so it does not matter how
\* many of them come.
LEMMA KeptRead ==
  ASSUME NEW values \in Seq(Values), Kept(values),
         params' = [params EXCEPT !.row = GetRow(Params(values).values, @), !.read = TRUE]
  PROVE  Kept(values)'
<1>1. PICK before, row, read : Follow(values, before, row, read)
  BY DEF Kept
<1>2. GetRow(Params(values).values, row) = Expected(values, row)
  BY <1>1, RowRead DEF Follow
<1>3. params' = [values |-> values, before |-> before, row |-> Expected(values, row), read |-> TRUE]
  BY <1>1, <1>2 DEF Follow
<1>4. Expected(values, row) = Expected(values, before)
  BY <1>1 DEF Follow, Expected
<1>5. TypesOf(Expected(values, before)) = TypesOf(values)
  BY <1>1, ExpectedTypes DEF Follow
<1>6. \A k \in DOMAIN values : values[k].null => Expected(values, before)[k] = before[k]
  BY DEF Expected
<1>7. Follow(values, before, Expected(values, before), TRUE)'
  BY <1>1, <1>3, <1>4, <1>5, <1>6 DEF Follow
<1> QED BY <1>7 DEF Kept

\* A statement is prepared, and its rows are read into these variables.
LEMMA KeptAnew ==
  ASSUME NEW values, NEW vars, TypesOf(vars) = TypesOf(values),
         params' = [values |-> values, before |-> vars, row |-> vars, read |-> FALSE]
  PROVE  Kept(values)'
<1>1. Follow(values, vars, vars, FALSE)'
  BY DEF Follow
<1> QED BY <1>1 DEF Kept

\* A row is read into variables of the parameters' types.
LEMMA RowsInvPopulates ==
  ASSUME PgInv, RowsInv, Populate
  PROVE  RowsInv'
<1>1. /\ wire # <<>> /\ wire' = Tail(wire) /\ UNCHANGED <<server, up, unsent, pc>>
  BY DEF Populate, Takes
<1>2. CASE pc = "query" \/ wire[1].type # "DATA_ROW"
  <2>1. params' = params
    BY <1>2 DEF Populate
  <2> QED BY <1>1, <2>1, RowsInvReads DEF Portal
<1>3. CASE ~(pc = "query" \/ wire[1].type # "DATA_ROW")
  <2>1. pc = "execute" /\ wire[1].type = "DATA_ROW"
        /\ params' = [params EXCEPT !.row = GetRow(wire[1].body, @), !.read = TRUE]
    BY <1>3 DEF Populate
  <2>2. PICK values \in Seq(Values) :
          /\ Kept(values)
          /\ Carries(up, values) /\ Carries(unsent, values) /\ Shows(wire, values) /\ BoundFor(values)
    BY <2>1 DEF RowsInv, Portal
  <2>3. wire[1].body = Params(values).values
    BY <1>1, <2>1, <2>2, Facts DEF Shows
  <2>4. Kept(values)'
    BY <2>1, <2>2, <2>3, KeptRead
  <2>5. \A k \in DOMAIN wire' : k + 1 \in DOMAIN wire /\ wire'[k] = wire[k + 1]
    BY <1>1, WireRead
  <2>6. Shows(wire', values)
    BY <2>2, <2>5 DEF Shows
  <2>7. BoundFor(values)'
    BY <1>1, <2>2 DEF BoundFor, Bound
  <2>8. Carries(up', values) /\ Carries(unsent', values) /\ {"values", "pc"} \subseteq DOMAIN server'
    BY <1>1, <2>2 DEF RowsInv
  <2> QED BY <2>4, <2>6, <2>7, <2>8 DEF RowsInv
<1> QED BY <1>2, <1>3

\* prepare_query: the server has nothing of the portal yet.
LEMMA RowsInvPrepares ==
  ASSUME PgInv, RowsInv, PrepareQuery, pc' = "portal"
  PROVE  RowsInv'
<1>1. pc = "idle" /\ UNCHANGED <<server, wire>>
  BY DEF PrepareQuery, MayQuery, PgInv
<1>2. PICK values \in ParamLists :
        /\ Write(<<Msg("P"), With("B", Params(values))>>)
        /\ \E vars \in {Fresh(values), params.row} :
             /\ TypesOf(vars) = TypesOf(values)
             /\ params' = [values |-> values, before |-> vars, row |-> vars, read |-> FALSE]
  BY DEF PrepareQuery, SendFails
<1>3. values \in Seq(Values) /\ Kept(values)'
  BY <1>2, KeptAnew, PgAssumption
<1>4. up = <<>> /\ unsent = <<>> /\ Quiet(wire, 0)
  BY <1>1, Facts DEF PgInv, Live, Paced
<1>5. IsSeq(up) /\ DOMAIN up = {} /\ \A k \in DOMAIN wire : wire[k].type \in Aside
  BY <1>4, NoneIs, Facts DEF Quiet
<1> DEFINE c == Msg("P")
           d == With("B", Params(values))
<1>6. c.type = "P" /\ d.type = "B" /\ d.body = Params(values)
  BY DEF Msg, With
<1>7. Write(<<c, d>>)
  BY <1>2
<1> HIDE DEF c, d
<1>8. PICK ms : ms = <<c, d>>
  OBVIOUS
<1>9. ms \in Seq({c, d}) /\ Len(ms) = 2 /\ DOMAIN ms = 1..2 /\ ms[1] = c /\ ms[2] = d
  BY <1>8
<1>10. IsSeq(ms)
  BY <1>9, SeqIs
<1>11. PICK k \in 0..1 : up' = up \o SubSeq(ms, 1, k) /\ unsent' = SubSeq(ms, k + 1, Len(ms))
  <2>1. unsent \o <<c, d>> = ms
    BY <1>4, <1>8
  <2>2. 0..(Len(ms) - 1) = 0..1
    BY <1>9
  <2> QED BY <1>7, <2>1, <2>2 DEF Write
<1>12. k \in 0..Len(ms)
  BY <1>9
<1>13. PICK p : p = SubSeq(ms, 1, k)
  OBVIOUS
<1>14. IsSeq(p) /\ \A i \in DOMAIN p : p[i] = c \/ p[i] = d
  <2>1. IsSeq(p) /\ \A i \in DOMAIN p : i \in DOMAIN ms /\ p[i] = ms[i]
    BY <1>10, <1>12, <1>13, Prefix
  <2> QED BY <1>9, <2>1
<1>15. \A i \in DOMAIN up' : up'[i] = c \/ up'[i] = d
  <2>1. up' = up \o p
    BY <1>11, <1>13
  <2> QED BY <1>5, <1>14, <2>1, Joins
<1>16. /\ IsSeq(unsent') /\ Len(unsent') = 2 - k
       /\ \A i \in DOMAIN unsent' : k + i \in DOMAIN ms /\ unsent'[i] = ms[k + i]
  <2>1. PICK q : q = SubSeq(ms, k + 1, Len(ms))
    OBVIOUS
  <2>2. /\ IsSeq(q) /\ Len(q) = Len(ms) - k
        /\ \A i \in DOMAIN q : k + i \in DOMAIN ms /\ q[i] = ms[k + i]
    BY <1>10, <1>12, <2>1, Suffix
  <2> QED BY <1>9, <1>11, <2>1, <2>2
<1>17. \A i \in DOMAIN unsent' : unsent'[i] = c \/ unsent'[i] = d
  BY <1>9, <1>16
<1>18. BindsFirst(unsent')
  <2>1. 2 - k \in DOMAIN unsent' /\ k + (2 - k) = 2
    <3>1. DOMAIN unsent' = 1..(2 - k)
      BY <1>16, Sizes
    <3>2. k \in 0..1
      BY <1>11
    <3> HIDE DEF c, d
    <3> QED BY <3>1, <3>2
  <2>2. unsent'[2 - k].type = "B"
    BY <1>6, <1>9, <1>16, <2>1
  <2>3. \A i \in DOMAIN unsent' : unsent'[i].type # "E"
    BY <1>6, <1>17
  <2> QED BY <2>1, <2>2, <2>3 DEF BindsFirst
<1>19. Carries(up', values) /\ Carries(unsent', values) /\ NoneAsked(up')
  BY <1>6, <1>15, <1>17 DEF Carries, NoneAsked
<1>20. Shows(wire', values)
  BY <1>1, <1>5 DEF Shows, Aside
<1>21. BoundFor(values)'
  BY <1>18, <1>19 DEF BoundFor
<1>22. {"values", "pc"} \subseteq DOMAIN server'
  BY <1>1 DEF RowsInv
<1> QED BY <1>3, <1>19, <1>20, <1>21, <1>22 DEF RowsInv

\* execute sends what prepare_query left, and asks for rows after it.
LEMMA RowsInvExecutes ==
  ASSUME PgInv, RowsInv, Execute, pc' = "execute"
  PROVE  RowsInv'
<1>1. pc = "portal" /\ UNCHANGED <<server, wire, params>> /\ Send(<<Msg("E")>>)
  BY DEF Execute, SendFails
<1>2. PICK values \in Seq(Values) :
        /\ Kept(values)
        /\ Carries(up, values) /\ Carries(unsent, values) /\ Shows(wire, values) /\ BoundFor(values)
  BY <1>1 DEF RowsInv, Portal
<1>3. PICK m : m = Msg("E")
  OBVIOUS
<1>4. m.type = "E"
  BY <1>3 DEF Msg
<1>5. IsSeq(<<m>>) /\ Carries(<<m>>, values)
  BY <1>4, OneSays DEF Carries
<1>6. IsSeq(up) /\ IsSeq(unsent) /\ IsSeq(up \o unsent)
  BY Joins DEF PgInv
<1>7. up' = (up \o unsent) \o <<m>> /\ unsent' = <<>>
  BY <1>1, <1>3 DEF Send
<1>8. Carries(up \o unsent, values)
  BY <1>2, <1>6, CarriesJoined
<1>9. Carries(up', values) /\ Carries(unsent', values)
  <2>1. Carries((up \o unsent) \o <<m>>, values)
    BY <1>5, <1>6, <1>8, CarriesJoined
  <2>2. DOMAIN unsent' = {}
    BY <1>7, NoneIs
  <2> QED BY <1>7, <2>1, <2>2 DEF Carries
<1>10. BoundFor(values)'
  <2>1. CASE Bound(values)
    BY <1>1, <2>1 DEF BoundFor, Bound
  <2>2. CASE BindsFirst(up) \/ (NoneAsked(up) /\ BindsFirst(unsent))
    <3>1. BindsFirst(up \o unsent)
      BY <1>6, <2>2, BindsFirstJoined
    <3>2. BindsFirst((up \o unsent) \o <<m>>)
      BY <1>5, <1>6, <3>1, BindsFirstJoined
    <3> QED BY <1>7, <3>2 DEF BoundFor
  <2> QED BY <1>2, <2>1, <2>2 DEF BoundFor
<1>11. {"values", "pc"} \subseteq DOMAIN server'
  BY <1>1 DEF RowsInv
<1>12. Kept(values)'
  BY <1>1, <1>2, KeptSame
<1>13. Shows(wire', values)
  BY <1>1, <1>2
<1> QED BY <1>9, <1>10, <1>11, <1>12, <1>13 DEF RowsInv

\* The server takes the parameters, skips, or returns the row.
LEMMA RowsInvAnswers ==
  ASSUME PgInv, RowsInv, AnswerExtended
  PROVE  RowsInv'
<1>1. up # <<>> /\ up[1].type \in {"P", "B", "E", "C", "S"} /\ UNCHANGED <<pc, params, unsent>>
  BY DEF AnswerExtended, Answer, sessionVars
<1>2. DOMAIN server' = DOMAIN server
  BY DEF AnswerExtended
<1>3. CASE ~Portal
  BY <1>1, <1>2, <1>3, RowsInvOther DEF Portal
<1>4. CASE Portal
  <2>1. PICK values \in Seq(Values) :
          /\ Kept(values)
          /\ Carries(up, values) /\ Carries(unsent, values) /\ Shows(wire, values) /\ BoundFor(values)
    BY <1>4 DEF RowsInv
  <2>2. up[1].type # "S" /\ 1 \in DOMAIN up /\ IsSeq(up) /\ IsSeq(wire)
    BY <1>1, <1>4, Turns, Facts DEF Portal, Live, PgInv
  <2>3. /\ IsSeq(up') /\ up' = Tail(up)
        /\ \A k \in DOMAIN up' : k + 1 \in DOMAIN up /\ up'[k] = up[k + 1]
    <3>1. up' = Tail(up)
      BY DEF AnswerExtended, Answer
    <3> QED BY <1>1, <2>2, <3>1, Tails
  <2>4. Carries(up', values) /\ Carries(unsent', values)
    BY <1>1, <2>1, <2>3 DEF Carries
  <2>5. /\ server'.values = IF up[1].type = "B" THEN up[1].body ELSE server.values
        /\ server.pc = "skip" => server'.pc = "skip"
    <3>1. {"values", "pc"} \subseteq DOMAIN server
      BY DEF RowsInv
    <3>2. PICK p, v : /\ server' = [server EXCEPT !.pc = p, !.values = v]
                      /\ v = IF up[1].type = "B" THEN up[1].body ELSE server.values
                      /\ server.pc = "skip" => p = "skip"
      BY <2>2 DEF AnswerExtended
    <3>3. server'.values = v /\ server'.pc = p
      BY <3>1, <3>2
    <3> QED BY <3>2, <3>3
  <2>6. BoundFor(values)'
    <3>1. CASE up[1].type = "B"
      <4>1. up[1].body = Params(values)
        BY <2>1, <2>2, <3>1 DEF Carries
      <4> QED BY <2>5, <3>1, <4>1 DEF BoundFor, Bound
    <3>2. CASE up[1].type # "B" /\ Bound(values)
      BY <2>5, <3>2 DEF BoundFor, Bound
    <3>3. CASE up[1].type # "B" /\ BindsFirst(up)
      <4>1. PICK j \in DOMAIN up : up[j].type = "B" /\ \A k \in DOMAIN up : k < j => up[k].type # "E"
        BY <3>3 DEF BindsFirst
      <4>2. /\ DOMAIN up = 1..Len(up) /\ Len(up) \in Nat
            /\ DOMAIN up' = 1..Len(up') /\ Len(up') = Len(up) - 1
        BY <1>1, <2>2, <2>3, Sizes, Tails
      <4>3. j # 1
        BY <3>3, <4>1
      <4>4. j - 1 \in DOMAIN up' /\ (j - 1) + 1 = j
        BY <4>1, <4>2, <4>3
      <4>5. up'[j - 1].type = "B"
        BY <2>3, <4>1, <4>4
      <4>6. \A k \in DOMAIN up' : k < j - 1 => up'[k].type # "E"
        <5>1. ASSUME NEW k \in DOMAIN up', k < j - 1 PROVE up'[k].type # "E"
          <6>1. k + 1 \in DOMAIN up /\ up'[k] = up[k + 1] /\ k + 1 < j
            BY <2>3, <4>2, <5>1
          <6> QED BY <4>1, <6>1
        <5> QED BY <5>1
      <4>7. BindsFirst(up')
        BY <4>4, <4>5, <4>6 DEF BindsFirst
      <4> QED BY <4>7 DEF BoundFor
    <3>4. CASE NoneAsked(up) /\ BindsFirst(unsent)
      <4>1. NoneAsked(up')
        BY <2>3, <3>4 DEF NoneAsked
      <4> QED BY <1>1, <3>4, <4>1 DEF BoundFor
    <3> QED BY <2>1, <3>1, <3>2, <3>3, <3>4 DEF BoundFor
  <2>7. up[1].type = "E" => Bound(values)
    <3>1. ASSUME up[1].type = "E", BindsFirst(up) PROVE FALSE
      <4>1. PICK j \in DOMAIN up : up[j].type = "B" /\ \A k \in DOMAIN up : k < j => up[k].type # "E"
        BY <3>1 DEF BindsFirst
      <4>2. j # 1 /\ DOMAIN up = 1..Len(up) /\ Len(up) \in Nat
        BY <2>2, <3>1, <4>1, Sizes
      <4>3. 1 < j
        BY <4>1, <4>2
      <4> QED BY <2>2, <3>1, <4>1, <4>3
    <3>2. up[1].type = "E" => ~NoneAsked(up)
      BY <2>2 DEF NoneAsked
    <3> QED BY <2>1, <3>1, <3>2 DEF BoundFor
  <2>8. Shows(wire', values)
    <3> DEFINE Ones == {<<Error>>, <<Msg("PARSE_COMPLETE")>>, <<Msg("BIND_COMPLETE")>>,
                        <<Msg("COMMAND_COMPLETE")>>, <<Msg("EMPTY_QUERY_RESPONSE")>>,
                        <<Msg("CLOSE_COMPLETE")>>}
    <3>1. \/ Answer(<<>>)
          \/ \E ms \in Ones : Answer(ms)
          \/ \E t : /\ Answer(<<With("DATA_ROW", server.values.values), Msg(t)>>)
                    /\ t \in {"PORTAL_SUSPENDED", "COMMAND_COMPLETE"}
                    /\ up[1].type = "E" /\ server.pc # "skip"
      BY <1>1, <2>2 DEF AnswerExtended
    <3>2. ASSUME NEW ms, Answer(ms), IsSeq(ms), Shows(ms, values) PROVE Shows(wire', values)
      BY <2>1, <2>2, <3>2, ShowsJoined DEF Answer
    <3>3. ASSUME Answer(<<>>) PROVE Shows(wire', values)
      <4>1. IsSeq(<<>>) /\ Shows(<<>>, values)
        BY NoneIs DEF Shows
      <4> QED BY <3>2, <3>3, <4>1
    <3>4. ASSUME NEW ms \in Ones, Answer(ms) PROVE Shows(wire', values)
      <4>1. PICK m : ms = <<m>> /\ m.type # "DATA_ROW"
        BY DEF Error, Msg
      <4>2. IsSeq(ms) /\ Shows(ms, values)
        BY <4>1, OneSays DEF Shows
      <4> QED BY <3>2, <3>4, <4>2
    <3>5. ASSUME NEW t \in {"PORTAL_SUSPENDED", "COMMAND_COMPLETE"}, up[1].type = "E", server.pc # "skip",
                 Answer(<<With("DATA_ROW", server.values.values), Msg(t)>>)
          PROVE  Shows(wire', values)
      <4> DEFINE c == With("DATA_ROW", server.values.values)
                 d == Msg(t)
      <4>1. c.body = Params(values).values /\ d.type # "DATA_ROW"
        BY <2>7, <3>5 DEF Bound, With, Msg
      <4>2. Answer(<<c, d>>)
        BY <3>5
      <4> HIDE DEF c, d
      <4>3. PICK ms : ms = <<c, d>>
        OBVIOUS
      <4>4. ms \in Seq({c, d}) /\ DOMAIN ms = 1..2 /\ ms[1] = c /\ ms[2] = d
        BY <4>3
      <4>5. IsSeq(ms) /\ Shows(ms, values) /\ Answer(ms)
        <5>1. IsSeq(ms)
          BY <4>4, SeqIs
        <5>2. \A k \in DOMAIN ms : k = 1 \/ k = 2
          BY <4>4
        <5>3. Shows(ms, values)
          BY <4>1, <4>4, <5>2 DEF Shows
        <5> QED BY <4>2, <4>3, <5>1, <5>3
      <4> QED BY <3>2, <4>5
    <3> HIDE DEF Ones
    <3> QED BY <3>1, <3>3, <3>4, <3>5
  <2>9. {"values", "pc"} \subseteq DOMAIN server'
    BY <1>2 DEF RowsInv
  <2>10. Kept(values)'
    BY <1>1, <2>1, KeptSame
  <2> QED BY <2>4, <2>6, <2>8, <2>9, <2>10 DEF RowsInv
<1> QED BY <1>3, <1>4

\* Notices come in between, and what was sent last may be lost.
LEMMA WireMixes ==
  ASSUME PgInv, Asynchronous \/ Crash
  PROVE  \A k \in DOMAIN wire' : wire'[k].type \in Aside \/ \E i \in DOMAIN wire : wire'[k] = wire[i]
<1>1. IsSeq(wire) /\ Len(wire) \in Nat
  BY Facts DEF PgInv
<1>2. CASE Crash
  BY <1>1, <1>2, Prefix DEF Crash
<1>3. CASE Asynchronous
  <2>1. PICK t \in Aside, n \in 0..Len(wire) :
          wire' = SubSeq(wire, 1, n) \o <<Msg(t)>> \o SubSeq(wire, n + 1, Len(wire))
    BY <1>3 DEF Asynchronous, Aside
  <2>2. PICK m : m = Msg(t)
    OBVIOUS
  <2>3. m.type \in Aside
    BY <2>2 DEF Msg
  <2>4. PICK p : p = SubSeq(wire, 1, n)
    OBVIOUS
  <2>5. PICK q : q = SubSeq(wire, n + 1, Len(wire))
    OBVIOUS
  <2>6. PICK o : o = <<m>>
    OBVIOUS
  <2>7. PICK v : v = p \o o
    OBVIOUS
  <2>8. wire' = v \o q
    BY <2>1, <2>2, <2>4, <2>5, <2>6, <2>7
  <2>9. IsSeq(p) /\ \A k \in DOMAIN p : k \in DOMAIN wire /\ p[k] = wire[k]
    BY <1>1, <2>4, Prefix
  <2>10. IsSeq(q) /\ \A k \in DOMAIN q : n + k \in DOMAIN wire /\ q[k] = wire[n + k]
    BY <1>1, <2>5, Suffix
  <2>11. IsSeq(o) /\ \A k \in DOMAIN o : o[k] = m
    BY <2>6, OneSays
  <2>12. /\ IsSeq(v)
         /\ \A k \in DOMAIN v : \/ k \in DOMAIN p /\ v[k] = p[k]
                                \/ k - Len(p) \in DOMAIN o /\ v[k] = o[k - Len(p)]
    BY <2>7, <2>9, <2>11, Joins
  <2>13. \A k \in DOMAIN wire' : \/ k \in DOMAIN v /\ wire'[k] = v[k]
                                 \/ k - Len(v) \in DOMAIN q /\ wire'[k] = q[k - Len(v)]
    BY <2>8, <2>10, <2>12, Joins
  <2> QED BY <2>3, <2>9, <2>10, <2>11, <2>12, <2>13
<1> QED BY <1>2, <1>3

LEMMA RowsInvMixes ==
  ASSUME PgInv, RowsInv, Asynchronous \/ Crash
  PROVE  RowsInv'
<1>1. /\ UNCHANGED <<up, unsent, pc, params>> /\ DOMAIN server' = DOMAIN server
      /\ server' = server \/ server' = [server EXCEPT !.gone = TRUE]
  BY DEF Asynchronous, Crash, sessionVars
<1>2. PICK values \in Seq(Values) :
        /\ Kept(values)
        /\ Portal => Carries(up, values) /\ Carries(unsent, values) /\ Shows(wire, values) /\ BoundFor(values)
  BY DEF RowsInv
<1>3. Shows(wire, values) => Shows(wire', values)
  BY WireMixes DEF Shows, Aside
<1>4. server'.values = server.values /\ server'.pc = server.pc
  BY <1>1 DEF RowsInv
<1>5. BoundFor(values) => BoundFor(values)'
  BY <1>1, <1>4 DEF BoundFor, Bound
<1>6. Kept(values)'
  BY <1>1, <1>2, KeptSame
<1>7. /\ {"values", "pc"} \subseteq DOMAIN server' /\ Portal' = Portal
      /\ Carries(up, values) => Carries(up', values)
      /\ Carries(unsent, values) => Carries(unsent', values)
  BY <1>1 DEF RowsInv, Portal
<1> QED BY <1>2, <1>3, <1>5, <1>6, <1>7 DEF RowsInv

LEMMA RowsInvInit == PgInit => RowsInv
<1> SUFFICES ASSUME PgInit PROVE RowsInv
  OBVIOUS
<1>1. {"values", "pc"} \subseteq DOMAIN server /\ ~Portal
  BY DEF PgInit, Portal
<1>2. Kept(<<>>) /\ <<>> \in Seq(Values)
  <2>1. Follow(<<>>, <<>>, <<>>, FALSE)
    <3>1. params = [values |-> <<>>, before |-> <<>>, row |-> <<>>, read |-> FALSE]
      BY DEF PgInit
    <3>2. DOMAIN <<>> = {}
      BY NoneIs
    <3> QED BY <3>1, <3>2 DEF Follow
  <2>2. Kept(<<>>)
    BY <2>1 DEF Kept
  <2> QED BY <2>2
<1> QED BY <1>1, <1>2 DEF RowsInv

LEMMA RowsInvStep == PgInv /\ RowsInv /\ [PgNext]_pgVars => RowsInv'
<1> SUFFICES ASSUME PgInv, RowsInv, [PgNext]_pgVars PROVE RowsInv'
  OBVIOUS
<1>1. CASE Server
  <2>1. ASSUME Authenticate \/ CheckPassword \/ SaslContinue \/ SaslRefuse \/ SaslFinal \/ AnswerQuery
        PROVE  RowsInv'
    <3>1. /\ up # <<>> /\ up[1].type \in Logins \union {"Q"} /\ UNCHANGED <<pc, params>>
          /\ DOMAIN server' = DOMAIN server
      BY <2>1 DEF Authenticate, CheckPassword, SaslContinue, SaslRefuse, SaslFinal, AnswerQuery,
                  Asked, Answer, sessionVars, Logins
    <3>2. ~Portal
      BY <3>1, Turns DEF Portal, Live
    <3> QED BY <3>1, <3>2, RowsInvOther DEF Portal
  <2> QED BY <1>1, <2>1, RowsInvAnswers DEF Server
<1>2. CASE React
  <2>1. ASSUME SkipNotice \/ ExecuteSkips \/ ExecuteSuspended PROVE RowsInv'
    <3>1. /\ wire # <<>> /\ wire' = Tail(wire) /\ UNCHANGED <<server, up, unsent, params>>
          /\ Portal' => Portal
      BY <2>1 DEF SkipNotice, ExecuteSkips, ExecuteSuspended, Takes, sessionVars, Portal
    <3> QED BY <3>1, RowsInvReads
  <2>2. ASSUME \/ ReadFails \/ InitSkips \/ InitReady \/ InitThrows \/ HandleAuth
               \/ Misread \/ QueryStatement \/ QueryReady
               \/ ExecuteDone \/ CloseSkips \/ CloseReady
        PROVE  RowsInv'
    <3>1. ~Portal' /\ params' = params /\ server' = server
      BY <2>2 DEF ReadFails, InitSkips, InitReady, InitThrows, HandleAuth, Misread, QueryStatement,
                  QueryReady, ExecuteDone, CloseSkips, CloseReady,
                  Throw, Takes, Completed, ClosesPortal, SendFails, sessionVars, Portal
    <3> QED BY <3>1, RowsInvOther
  <2> QED BY <1>2, <2>1, <2>2, RowsInvPopulates DEF React
<1>3. CASE Caller
  <2>1. CASE \/ Query \/ CloseSync
            \/ (PrepareQuery /\ pc' # "portal")
            \/ (Execute /\ pc' # "execute")
    <3>1. ~Portal' /\ params' = params /\ server' = server
      BY <2>1 DEF Query, CloseSync, PrepareQuery, Execute, ClosesPortal, SendFails, Portal
    <3> QED BY <3>1, RowsInvOther
  <2> QED BY <1>3, <2>1, RowsInvPrepares, RowsInvExecutes DEF Caller
<1>4. CASE Asynchronous \/ Crash
  BY <1>4, RowsInvMixes
<1>5. CASE UNCHANGED pgVars
  BY <1>5, KeptSame DEF pgVars, sessionVars, RowsInv, Portal, BoundFor, Bound
<1> QED BY <1>1, <1>2, <1>3, <1>4, <1>5 DEF PgNext

\* On a connection that is lost a statement may still be prepared, and no row
\* of it ever comes.
KeepsInv == \E values \in Seq(Values) : Kept(values)

LEMMA KeepsInvStep == Lost /\ KeepsInv /\ [PgNext]_pgVars => KeepsInv'
<1> SUFFICES ASSUME Lost, KeepsInv, [PgNext]_pgVars PROVE KeepsInv'
  OBVIOUS
<1>1. wire # <<>> => wire[1].type \in Aside
  BY Sizes DEF Lost, Quiet
<1>2. CASE params' = params
  BY <1>2, KeptSame DEF KeepsInv
<1>3. CASE PrepareQuery /\ params' # params
  <2>1. PICK values \in ParamLists : \E vars \in {Fresh(values), params.row} :
          /\ TypesOf(vars) = TypesOf(values)
          /\ params' = [values |-> values, before |-> vars, row |-> vars, read |-> FALSE]
    BY <1>3 DEF PrepareQuery
  <2> QED BY <2>1, KeptAnew, PgAssumption DEF KeepsInv
<1>4. Populate => params' = params
  BY <1>1 DEF Populate, Takes, Rows, Aside
<1>5. params' = params \/ PrepareQuery
  <2>1. Server \/ Asynchronous \/ Crash => params' = params
    BY DEF Server, Authenticate, CheckPassword, SaslContinue, SaslRefuse, SaslFinal, AnswerQuery,
           AnswerExtended, Answer, Asynchronous, Crash, sessionVars
  <2>2. React => params' = params
    BY <1>4 DEF React, SkipNotice, ReadFails, InitSkips, InitReady, InitThrows, HandleAuth, Misread,
                QueryStatement, QueryReady, ExecuteSkips, ExecuteSuspended, ExecuteDone, CloseSkips,
                CloseReady, Throw, sessionVars
  <2>3. Caller => params' = params \/ PrepareQuery
    BY DEF Caller, Query, Execute, CloseSync
  <2> QED BY <2>1, <2>2, <2>3 DEF PgNext, pgVars, sessionVars
<1> QED BY <1>2, <1>3, <1>5

\* A value that is stored as a parameter and comes back in a row is read as it
\* was, and where no value was stored the variable is left as it was before, for
\* any numbers, Booleans, strings and missing values, into fresh variables and
\* into those of an earlier row, whatever was suspended, failed or skipped in
\* between.
THEOREM RowsComeBack == PgSpec => []RowsKept
<1>1. KeepsInv => RowsKept
  BY DEF KeepsInv, Kept, Follow, RowsKept, Expected
<1>2. RowsInv => KeepsInv
  BY DEF RowsInv, KeepsInv
<1>3. (PgInv /\ RowsInv) \/ (Lost /\ KeepsInv) => RowsKept
  BY <1>1, <1>2
<1>4. PgInit => (PgInv /\ RowsInv) \/ (Lost /\ KeepsInv)
  BY PgInvInit, RowsInvInit
<1>5. ((PgInv /\ RowsInv) \/ (Lost /\ KeepsInv)) /\ [PgNext]_pgVars
        => ((PgInv /\ RowsInv) \/ (Lost /\ KeepsInv))'
  <2>1. RowsInv' => KeepsInv'
    BY DEF RowsInv, KeepsInv
  <2> QED BY <2>1, PgInvStep, RowsInvStep, LostStays, KeepsInvStep
<1> QED BY <1>3, <1>4, <1>5, PTL DEF PgSpec

-----------------------------------------------------------------------------
(* Base64: what is encoded, in groups of three bytes and of four letters,  *)
(* is decoded again.                                                       *)

Lettered == {Letters[k] : k \in 1..64}
Encoding == Lettered \union {"="}

LEMMA LettersDiffer ==
  /\ DOMAIN Letters = 1..64
  /\ \A i, j \in 1..64 : Letters[i] = Letters[j] => i = j
  /\ \A i \in 1..64 : Letters[i] # "="
<1>1. DOMAIN Letters = 1..64
  BY DEF Letters
<1>2. \A i, j \in 1..64 : Letters[i] = Letters[j] => i = j
  BY DEF Letters
<1>3. \A i \in 1..64 : Letters[i] # "="
  BY DEF Letters
<1> QED BY <1>1, <1>2, <1>3

LEMMA LetterValues ==
  ASSUME NEW v \in 0..63
  PROVE  base64_enc(v) \in Lettered /\ base64_dec(base64_enc(v)) = v /\ base64_enc(v) # "="
<1>1. v + 1 \in 1..64
  OBVIOUS
<1>2. (CHOOSE k \in DOMAIN Letters : Letters[k] = Letters[v + 1]) = v + 1
  BY <1>1, LettersDiffer
<1>3. base64_dec(Letters[v + 1]) = (v + 1) - 1
  BY <1>2, Zenon DEF base64_dec
<1> QED BY <1>1, <1>3, LettersDiffer DEF base64_enc, Lettered

LEMMA LetterIs ==
  ASSUME NEW c \in Lettered
  PROVE  base64_dec(c) \in 0..63 /\ c # "="
<1>1. PICK k \in 1..64 : c = Letters[k]
  BY DEF Lettered
<1>2. k - 1 \in 0..63 /\ (k - 1) + 1 = k
  OBVIOUS
<1> QED BY <1>1, <1>2, LetterValues DEF base64_enc

LEMMA Powers == 2^0 = 1 /\ 2^2 = 4 /\ 2^4 = 16 /\ 2^6 = 64 /\ 2^8 = 256 /\ 2^12 = 4096 /\ 2^16 = 65536 /\ 2^18 = 262144
BY SMT

\* The bits of a number in groups of six and of eight, the last one first
Sextet0(n) == n % 64
Sextet1(n) == (n \div 64) % 64
Sextet2(n) == (n \div 4096) % 64
Sextet3(n) == (n \div 262144) % 64
Octet0(n)  == n % 256
Octet1(n)  == (n \div 256) % 256
Octet2(n)  == (n \div 65536) % 256

LEMMA Parts ==
  ASSUME NEW n \in Nat
  PROVE  /\ Sextet0(n) \in 0..63 /\ Sextet1(n) \in 0..63 /\ Sextet2(n) \in 0..63 /\ Sextet3(n) \in 0..63
         /\ Octet0(n) \in 0..255 /\ Octet1(n) \in 0..255 /\ Octet2(n) \in 0..255
<1>1. ASSUME NEW m \in Nat PROVE m % 64 \in 0..63 /\ m % 256 \in 0..255
  BY SMT
<1>2. n \div 64 \in Nat /\ n \div 4096 \in Nat /\ n \div 262144 \in Nat /\ n \div 256 \in Nat /\ n \div 65536 \in Nat
  BY SMT
<1> QED BY SMT, <1>1, <1>2 DEF Sextet0, Sextet1, Sextet2, Sextet3, Octet0, Octet1, Octet2

LEMMA Sixes ==
  ASSUME NEW n \in Nat, n < 16777216
  PROVE  n = ((Sextet3(n) * 64 + Sextet2(n)) * 64 + Sextet1(n)) * 64 + Sextet0(n)
<1>1. PICK a \in Nat : a = n \div 64
  BY SMT
<1>2. n = a * 64 + (n % 64) /\ n % 64 \in 0..63
  BY SMT, <1>1
<1>3. PICK b \in Nat : b = a \div 64
  BY SMT
<1>4. a = b * 64 + (a % 64) /\ a % 64 \in 0..63
  BY SMT, <1>3
<1>5. b = n \div 4096
  BY SMT, <1>1, <1>3
<1>6. PICK c \in Nat : c = b \div 64
  BY SMT
<1>7. b = c * 64 + (b % 64) /\ b % 64 \in 0..63
  BY SMT, <1>6
<1>8. c = n \div 262144
  BY SMT, <1>5, <1>6
<1>9. c % 64 = c
  <2>1. c < 64
    BY SMT, <1>8
  <2> QED BY SMT, <2>1
<1>10. Sextet3(n) = c /\ Sextet2(n) = b % 64 /\ Sextet1(n) = a % 64 /\ Sextet0(n) = n % 64
  BY SMT, <1>1, <1>5, <1>8, <1>9 DEF Sextet3, Sextet2, Sextet1, Sextet0
<1> QED BY SMT, <1>2, <1>4, <1>7, <1>10

LEMMA Eights ==
  ASSUME NEW b1 \in Nat, NEW b2 \in Nat, NEW b3 \in Nat, b1 < 256, b2 < 256, b3 < 256,
         NEW n, n = (b1 * 256 + b2) * 256 + b3
  PROVE  /\ n \in Nat /\ n < 16777216
         /\ Octet2(n) = b1 /\ Octet1(n) = b2 /\ Octet0(n) = b3
<1>1. n \in Nat /\ n < 16777216
  BY SMT
<1>2. n % 256 = b3
  BY SMT
<1>3. n \div 256 = b1 * 256 + b2
  BY SMT
<1>4. (n \div 256) % 256 = b2
  BY SMT, <1>3
<1>5. n \div 65536 = b1
  BY SMT
<1>6. b1 % 256 = b1
  BY SMT
<1> QED BY SMT, <1>1, <1>2, <1>4, <1>5, <1>6 DEF Octet2, Octet1, Octet0

\* The state of both loops
St(num, num_bits, out) == [num |-> num, num_bits |-> num_bits, out |-> out]

States(bits, set) == [num : Nat, num_bits : bits, out : Seq(set)]

LEMMA StateParts ==
  ASSUME NEW bits, NEW set, NEW s \in States(bits, set)
  PROVE  s.num \in Nat /\ s.num_bits \in bits /\ s.out \in Seq(set) /\ s = St(s.num, s.num_bits, s.out)
BY DEF States, St

LEMMA StateIn ==
  ASSUME NEW bits, NEW set, NEW n \in Nat, NEW b \in bits, NEW o \in Seq(set)
  PROVE  St(n, b, o) \in States(bits, set)
BY DEF States, St

\* What the two loops do for one byte or letter, bit by bit
Puts(s, m, k, t) == [s EXCEPT !.num = m, !.num_bits = k] = t

LEMMA StatePut ==
  ASSUME NEW s, NEW n, NEW b, NEW o, NEW m, NEW k, s = St(n, b, o)
  PROVE  Puts(s, m, k, St(m, k, o))
<1>1. PICK t : t = [s EXCEPT !.num = m]
  OBVIOUS
<1>2. t = St(m, b, o)
  BY <1>1 DEF St
<1>3. [t EXCEPT !.num_bits = k] = St(m, k, o)
  BY <1>2 DEF St
<1>4. [[s EXCEPT !.num = m] EXCEPT !.num_bits = k] = St(m, k, o)
  BY <1>1, <1>3, Zenon
<1> QED BY <1>4 DEF Puts

LEMMA OutPut ==
  ASSUME NEW o
  PROVE  [Nothing EXCEPT !.out = o] = St(0, 0, o)
BY DEF St, Nothing

Encodes(n, bits, o, b) ==
  EncodeByte(St(n, bits, o), b) =
    IF bits = 16 THEN St(0, 0, o \o Encoded(n * 256 + b, 24)) ELSE St(n * 256 + b, bits + 8, o)

LEMMA EncodeStep ==
  ASSUME NEW n \in Nat, NEW bits \in {0, 8, 16}, NEW o, NEW b \in 0..255
  PROVE  Encodes(n, bits, o, b)
<1>1. (0 + 8) % 6 = 2 /\ (8 + 8) % 6 = 4 /\ (16 + 8) % 6 = 0
  BY SMT
<1>2. PICK s : s = St(n, bits, o)
  OBVIOUS
<1>3. s.num = n /\ s.num_bits = bits /\ s.out = o
  BY <1>2 DEF St
<1>4. PICK m \in Nat : m = n * 256 + b
  OBVIOUS
<1>5. PICK k : k = bits + 8
  OBVIOUS
<1>6. EncodeByte(s, b) = IF k % 6 # 0 THEN [s EXCEPT !.num = m, !.num_bits = k]
                         ELSE [Nothing EXCEPT !.out = o \o Encoded(m, k)]
  <2>1. s.num * 2^8 + b = m
    BY <1>3, <1>4, Powers
  <2>2. s.num_bits + 8 = k
    BY <1>3, <1>5
  <2> QED BY <1>3, <2>1, <2>2, Zenon DEF EncodeByte, OCTET, BASE64_BITS
<1>7. EncodeByte(s, b) = IF k % 6 # 0 THEN St(m, k, o) ELSE St(0, 0, o \o Encoded(m, k))
  <2>0. Puts(s, m, k, St(m, k, o))
    BY <1>2, StatePut
  <2>1. [s EXCEPT !.num = m, !.num_bits = k] = St(m, k, o)
    BY <2>0, Zenon DEF Puts
  <2>2. [Nothing EXCEPT !.out = o \o Encoded(m, k)] = St(0, 0, o \o Encoded(m, k))
    BY OutPut, Zenon
  <2> QED BY <1>6, <2>1, <2>2, Zenon
<1>8. k % 6 # 0 <=> bits # 16
  BY <1>1, <1>5
<1> QED BY <1>2, <1>4, <1>5, <1>7, <1>8 DEF Encodes

LEMMA EncodedIs ==
  ASSUME NEW n \in Nat
  PROVE  /\ Encoded(n, 0) = <<>>
         /\ Encoded(n, 12) = <<base64_enc(Sextet1(n)), base64_enc(Sextet0(n))>>
         /\ Encoded(n, 18) = <<base64_enc(Sextet2(n)), base64_enc(Sextet1(n)), base64_enc(Sextet0(n))>>
         /\ Encoded(n, 24) = <<base64_enc(Sextet3(n)), base64_enc(Sextet2(n)),
                               base64_enc(Sextet1(n)), base64_enc(Sextet0(n))>>
<1> USE DEF Encoded, Groups, BASE64_BITS, Sextet0, Sextet1, Sextet2, Sextet3
<1>1. 0 \div 6 = 0 /\ 12 \div 6 = 2 /\ 18 \div 6 = 3 /\ 24 \div 6 = 4 /\ n \div 1 = n
  BY SMT
<1>2. Encoded(n, 0) = <<>>
  BY SMT, <1>1
<1>3. Encoded(n, 12) = <<base64_enc(Sextet1(n)), base64_enc(Sextet0(n))>>
  BY SMT, <1>1, Powers
<1>4. Encoded(n, 18) = <<base64_enc(Sextet2(n)), base64_enc(Sextet1(n)), base64_enc(Sextet0(n))>>
  BY SMT, <1>1, Powers
<1>5. Encoded(n, 24) = <<base64_enc(Sextet3(n)), base64_enc(Sextet2(n)),
                         base64_enc(Sextet1(n)), base64_enc(Sextet0(n))>>
  BY SMT, <1>1, Powers
<1> QED BY SMT, <1>2, <1>3, <1>4, <1>5

LEMMA GroupsAre ==
  ASSUME NEW n \in Nat
  PROVE  /\ Groups(n, 8, 8) = <<Octet0(n)>>
         /\ Groups(n, 16, 8) = <<Octet1(n), Octet0(n)>>
         /\ Groups(n, 24, 8) = <<Octet2(n), Octet1(n), Octet0(n)>>
         /\ Groups(n, 0, 8) = <<>> /\ Groups(n, -8, 8) = <<>>
<1> USE DEF Groups, Octet0, Octet1, Octet2
<1>1. 8 \div 8 = 1 /\ 16 \div 8 = 2 /\ 24 \div 8 = 3 /\ 0 \div 8 = 0 /\ (-8) \div 8 = -1 /\ n \div 1 = n
  BY SMT
<1>2. Groups(n, 8, 8) = <<Octet0(n)>>
  BY SMT, <1>1, Powers
<1>3. Groups(n, 16, 8) = <<Octet1(n), Octet0(n)>>
  BY SMT, <1>1, Powers
<1>4. Groups(n, 24, 8) = <<Octet2(n), Octet1(n), Octet0(n)>>
  BY SMT, <1>1, Powers
<1>5. Groups(n, 0, 8) = <<>> /\ Groups(n, -8, 8) = <<>>
  BY SMT, <1>1
<1> QED BY SMT, <1>2, <1>3, <1>4, <1>5

LEMMA DecodeStep ==
  ASSUME NEW n \in Nat, NEW bits \in Int, NEW o, NEW c, c # "=" => base64_dec(c) \in Nat,
         NEW m, m = IF c = "=" THEN n \div 4 ELSE n * 64 + base64_dec(c),
         NEW k, k = IF c = "=" THEN bits - 2 ELSE bits + 6
  PROVE  DecodeLetter(St(n, bits, o), c) =
           IF k % 8 # 0 THEN St(m, k, o) ELSE St(0, 0, o \o Groups(m, k, 8))
<1>1. PICK s : s = St(n, bits, o)
  OBVIOUS
<1>2. s.num = n /\ s.num_bits = bits /\ s.out = o
  BY <1>1 DEF St
<1>3. DecodeLetter(s, c) = IF k % 8 # 0 THEN [s EXCEPT !.num = m, !.num_bits = k]
                           ELSE [Nothing EXCEPT !.out = o \o Groups(m, k, 8)]
  <2>1. (IF c = "=" THEN s.num \div 4 ELSE s.num * 2^6 + base64_dec(c)) = m
    BY <1>2, Powers
  <2>2. (IF c = "=" THEN s.num_bits - 2 ELSE s.num_bits + 6) = k
    BY <1>2
  <2> QED BY <1>2, <2>1, <2>2, Zenon DEF DecodeLetter, OCTET, BASE64_BITS
<1>4. DecodeLetter(s, c) = IF k % 8 # 0 THEN St(m, k, o) ELSE St(0, 0, o \o Groups(m, k, 8))
  <2>0. Puts(s, m, k, St(m, k, o))
    BY <1>1, StatePut
  <2>1. [s EXCEPT !.num = m, !.num_bits = k] = St(m, k, o)
    BY <2>0, Zenon DEF Puts
  <2>2. [Nothing EXCEPT !.out = o \o Groups(m, k, 8)] = St(0, 0, o \o Groups(m, k, 8))
    BY OutPut, Zenon
  <2> QED BY <1>3, <2>1, <2>2, Zenon
<1> QED BY <1>1, <1>4

\* Both loops keep to the states that they can be in, whatever comes.
Bytes        == 0..255
EncodeStates == States({0, 8, 16}, Lettered)
DecodeBits   == {-6, -4, -2, 0, 2, 4, 6, 10, 12, 18}
DecodeStates == States(DecodeBits, Bytes)

LEMMA NothingIs == Nothing = St(0, 0, <<>>) /\ Nothing \in EncodeStates /\ Nothing \in DecodeStates
<1>1. Nothing = St(0, 0, <<>>)
  BY DEF Nothing, St
<1>2. <<>> \in Seq(Lettered) /\ <<>> \in Seq(Bytes)
  BY EmptySeq
<1> QED BY <1>1, <1>2, StateIn DEF EncodeStates, DecodeStates, DecodeBits

LEMMA EncodedTyped ==
  ASSUME NEW m \in Nat
  PROVE  Encoded(m, 24) \in Seq(Lettered)
<1>1. Encoded(m, 24) = <<base64_enc(Sextet3(m)), base64_enc(Sextet2(m)),
                         base64_enc(Sextet1(m)), base64_enc(Sextet0(m))>>
  BY EncodedIs
<1>2. /\ base64_enc(Sextet3(m)) \in Lettered /\ base64_enc(Sextet2(m)) \in Lettered
      /\ base64_enc(Sextet1(m)) \in Lettered /\ base64_enc(Sextet0(m)) \in Lettered
  BY Parts, LetterValues
<1>3. \A x, y, z, w \in Lettered : <<x, y, z, w>> \in Seq(Lettered)
  OBVIOUS
<1> QED BY <1>1, <1>2, <1>3, Zenon

LEMMA EncodeTyped ==
  ASSUME NEW s \in EncodeStates, NEW b \in Bytes
  PROVE  EncodeByte(s, b) \in EncodeStates
<1>1. PICK n \in Nat, bits \in {0, 8, 16}, o \in Seq(Lettered) : s = St(n, bits, o)
  BY StateParts DEF EncodeStates
<1>2. PICK m \in Nat : m = n * 256 + b
  BY DEF Bytes
<1>5. EncodeByte(St(n, bits, o), b) =
        IF bits = 16 THEN St(0, 0, o \o Encoded(n * 256 + b, 24)) ELSE St(n * 256 + b, bits + 8, o)
  <2>1. Encodes(n, bits, o, b)
    BY EncodeStep DEF Bytes
  <2> QED BY <2>1, Zenon DEF Encodes
<1>3. CASE bits \in {0, 8}
  <2>1. EncodeByte(s, b) = St(m, bits + 8, o) /\ bits + 8 \in {0, 8, 16}
    BY <1>1, <1>2, <1>3, <1>5
  <2> QED BY <1>3, <2>1, StateIn DEF EncodeStates
<1>4. CASE bits = 16
  <2>1. EncodeByte(s, b) = St(0, 0, o \o Encoded(m, 24))
    BY <1>1, <1>2, <1>4, <1>5, Zenon
  <2>2. Encoded(m, 24) \in Seq(Lettered)
    BY EncodedTyped
  <2>4. o \o Encoded(m, 24) \in Seq(Lettered)
    BY <2>2, ConcatProperties
  <2> QED BY <2>1, <2>4, StateIn DEF EncodeStates
<1> QED BY <1>3, <1>4

LEMMA DecodeTyped ==
  ASSUME NEW s \in DecodeStates, NEW c \in Encoding
  PROVE  DecodeLetter(s, c) \in DecodeStates
<1>1. PICK n \in Nat, bits \in DecodeBits, o \in Seq(Bytes) : s = St(n, bits, o)
  BY StateParts DEF DecodeStates
<1>2. c # "=" => c \in Lettered /\ base64_dec(c) \in 0..63
  BY LetterIs DEF Encoding
<1>3. PICK m \in Nat : m = IF c = "=" THEN n \div 4 ELSE n * 64 + base64_dec(c)
  <2>1. n \div 4 \in Nat
    BY SMT
  <2>2. ASSUME c # "=" PROVE n * 64 + base64_dec(c) \in Nat
    <3>1. PICK d \in 0..63 : d = base64_dec(c)
      BY <1>2, <2>2
    <3>2. n * 64 + d \in Nat
      OBVIOUS
    <3> QED BY <3>1, <3>2, Zenon
  <2> QED BY <2>1, <2>2
<1>4. PICK k \in Int : k = IF c = "=" THEN bits - 2 ELSE bits + 6
  BY DEF DecodeBits
<1>5. DecodeLetter(s, c) = IF k % 8 # 0 THEN St(m, k, o) ELSE St(0, 0, o \o Groups(m, k, 8))
  <2>1. c # "=" => base64_dec(c) \in Nat
    <3>1. 0..63 \subseteq Nat
      OBVIOUS
    <3> QED BY <1>2, <3>1, Zenon
  <2>2. bits \in Int
    BY DEF DecodeBits
  <2>3. DecodeLetter(St(n, bits, o), c) =
          IF k % 8 # 0 THEN St(m, k, o) ELSE St(0, 0, o \o Groups(m, k, 8))
    BY <1>3, <1>4, <2>1, <2>2, DecodeStep
  <2> QED BY <1>1, <2>3, Zenon
<1>6. CASE k % 8 # 0
  <2>1. k \in DecodeBits
    BY <1>4, <1>6 DEF DecodeBits
  <2> QED BY <1>5, <1>6, <2>1, StateIn DEF DecodeStates
<1>7. CASE k % 8 = 0
  <2>1. k \in {-8, 0, 8, 16, 24}
    BY <1>4, <1>7 DEF DecodeBits
  <2>2. Groups(m, k, 8) \in Seq(Bytes)
    <3>1. Octet0(m) \in Bytes /\ Octet1(m) \in Bytes /\ Octet2(m) \in Bytes
      BY Parts DEF Bytes
    <3>2. \A x, y, z \in Bytes : /\ <<>> \in Seq(Bytes) /\ <<x>> \in Seq(Bytes)
                                 /\ <<x, y>> \in Seq(Bytes) /\ <<x, y, z>> \in Seq(Bytes)
      OBVIOUS
    <3>3. /\ Groups(m, 8, 8) \in Seq(Bytes) /\ Groups(m, 16, 8) \in Seq(Bytes)
          /\ Groups(m, 24, 8) \in Seq(Bytes)
          /\ Groups(m, 0, 8) \in Seq(Bytes) /\ Groups(m, -8, 8) \in Seq(Bytes)
      <4> HIDE DEF Bytes
      <4> QED BY <3>1, <3>2, GroupsAre
    <3> QED BY SMT, <2>1, <3>3
  <2>3. PICK p \in Seq(Bytes) : p = o \o Groups(m, k, 8)
    BY <2>2, ConcatProperties
  <2>4. 0 \in DecodeBits /\ 0 \in Nat
    BY DEF DecodeBits
  <2>5. St(0, 0, p) \in DecodeStates
    BY <2>4, StateIn DEF DecodeStates
  <2> QED BY <1>5, <1>7, <2>3, <2>5
<1> QED BY <1>6, <1>7

\* The two folds
IsEncode(s, g) ==
  g = [T \in SUBSET (DOMAIN s) |->
         IF T = {} THEN Nothing ELSE EncodeByte(g[T \ {Max(T)}], s[Max(T)])]
IsDecode(s, g) ==
  g = [T \in SUBSET (DOMAIN s) |->
         IF T = {} THEN Nothing ELSE DecodeLetter(g[T \ {Max(T)}], s[Max(T)])]

EncodeTable == [x \in EncodeStates \X Bytes |-> EncodeByte(x[1], x[2])]
DecodeTable == [x \in DecodeStates \X Encoding |-> DecodeLetter(x[1], x[2])]

Encode(bytes) == FoldLeft(EncodeByte, Nothing, bytes)
Decode(text)  == FoldLeft(DecodeLetter, Nothing, text)

LEMMA EncodeFollows ==
  ASSUME NEW s \in Seq(Bytes)
  PROVE  /\ EncodeTable \in [EncodeStates \X Bytes -> EncodeStates]
         /\ \E g : Follows(EncodeStates, EncodeTable, Nothing, s, g) /\ Encode(s) = g[1..Len(s)]
         /\ Encode(s) \in EncodeStates
<1> DEFINE n == Len(s)
           h == CHOOSE g : IsEncode(s, g)
<1>1. EncodeTable \in [EncodeStates \X Bytes -> EncodeStates]
  <2>1. \A v \in EncodeStates, c \in Bytes : EncodeByte(v, c) \in EncodeStates
    BY EncodeTyped
  <2> HIDE DEF EncodeStates, Bytes
  <2> QED BY <2>1 DEF EncodeTable
<1>2. /\ n \in Nat /\ DOMAIN s = 1..n
      /\ \A T \in SUBSET (1..n) : T # {} => s[Max(T)] \in Bytes /\ T \ {Max(T)} \in SUBSET (1..n)
  BY Positions
<1>3. \A v \in EncodeStates, c \in Bytes : EncodeTable[<<v, c>>] = EncodeByte(v, c)
  BY DEF EncodeTable
<1> HIDE DEF n
<1>4. PICK g \in [SUBSET (1..n) -> EncodeStates] : Table(EncodeTable, Nothing, s, g)
  BY <1>1, NothingIs, TableSolved DEF n
<1>5. IsEncode(s, g)
  <2>1. ASSUME NEW T \in SUBSET (1..n), T # {}
        PROVE  EncodeTable[<<g[T \ {Max(T)}], s[Max(T)]>>] = EncodeByte(g[T \ {Max(T)}], s[Max(T)])
    BY <1>2, <1>3, <2>1
  <2>2. g = [T \in SUBSET (1..n) |-> IF T = {} THEN Nothing
                ELSE EncodeTable[<<g[T \ {Max(T)}], s[Max(T)]>>]]
    BY <1>4 DEF Table, n
  <2>3. g = [T \in SUBSET (1..n) |-> IF T = {} THEN Nothing
                ELSE EncodeByte(g[T \ {Max(T)}], s[Max(T)])]
    BY <2>1, <2>2
  <2> QED BY <1>2, <2>3 DEF IsEncode
<1>6. IsEncode(s, h)
  BY <1>5
<1>7. Encode(s) = h[1..n]
  BY <1>2 DEF Encode, IsEncode, FoldLeft, MapThenFoldSet
<1> HIDE DEF h
<1>8. Follows(EncodeStates, EncodeTable, Nothing, s, h)
  <2>1. ASSUME NEW T \in SUBSET (1..n), T # {}, h[T \ {Max(T)}] \in EncodeStates
        PROVE  h[T] = EncodeTable[<<h[T \ {Max(T)}], s[Max(T)]>>]
    <3>1. h[T] = EncodeByte(h[T \ {Max(T)}], s[Max(T)])
      BY <1>2, <1>6, <2>1 DEF IsEncode
    <3> QED BY <1>2, <1>3, <2>1, <3>1
  <2>2. h[{}] = Nothing
    BY <1>6 DEF IsEncode
  <2> QED BY <2>1, <2>2 DEF Follows, n
<1>9. h[1..n] \in EncodeStates
  BY <1>1, <1>8, NothingIs, FollowsIn DEF n
<1> QED BY <1>1, <1>7, <1>8, <1>9 DEF n

LEMMA EncodeNone == Encode(<<>>) = Nothing
<1>1. PICK s \in Seq(Bytes) : s = <<>>
  BY EmptySeq
<1>2. PICK g : Follows(EncodeStates, EncodeTable, Nothing, s, g) /\ Encode(s) = g[1..Len(s)]
  BY EncodeFollows
<1>3. g[1..Len(<<>>)] = Nothing
  BY <1>1, <1>2, FollowsNone
<1> QED BY <1>1, <1>2, <1>3

LEMMA EncodeAppend ==
  ASSUME NEW s \in Seq(Bytes), NEW c \in Bytes
  PROVE  Encode(Append(s, c)) = EncodeByte(Encode(s), c)
<1>1. PICK g : Follows(EncodeStates, EncodeTable, Nothing, s, g) /\ Encode(s) = g[1..Len(s)]
  BY EncodeFollows
<1>2. PICK t : t = Append(s, c)
  OBVIOUS
<1>3. t \in Seq(Bytes) /\ Len(t) = Len(s) + 1
  BY <1>2, AppendProperties
<1>4. PICK h : Follows(EncodeStates, EncodeTable, Nothing, t, h) /\ Encode(t) = h[1..Len(t)]
  BY <1>3, EncodeFollows
<1>5. StepsOnce(EncodeStates, EncodeTable, g, Len(s), h, c)
  <2>1. EncodeTable \in [EncodeStates \X Bytes -> EncodeStates]
    BY EncodeFollows
  <2>2. Follows(EncodeStates, EncodeTable, Nothing, Append(s, c), h)
    BY <1>2, <1>4
  <2>3. Follows(EncodeStates, EncodeTable, Nothing, s, g)
    BY <1>1
  <2>4. Nothing \in EncodeStates
    BY NothingIs
  <2> QED BY <2>1, <2>2, <2>3, <2>4, TableAppends
<1>6. \A v \in EncodeStates : EncodeTable[<<v, c>>] = EncodeByte(v, c)
  BY DEF EncodeTable
<1> QED BY <1>1, <1>2, <1>3, <1>4, <1>5, <1>6, EncodeFollows DEF StepsOnce

LEMMA DecodeFollows ==
  ASSUME NEW s \in Seq(Encoding)
  PROVE  /\ DecodeTable \in [DecodeStates \X Encoding -> DecodeStates]
         /\ \E g : Follows(DecodeStates, DecodeTable, Nothing, s, g) /\ Decode(s) = g[1..Len(s)]
         /\ Decode(s) \in DecodeStates
<1> DEFINE n == Len(s)
           h == CHOOSE g : IsDecode(s, g)
<1>1. DecodeTable \in [DecodeStates \X Encoding -> DecodeStates]
  <2>1. \A v \in DecodeStates, c \in Encoding : DecodeLetter(v, c) \in DecodeStates
    BY DecodeTyped
  <2> HIDE DEF DecodeStates, Encoding
  <2> QED BY <2>1 DEF DecodeTable
<1>2. /\ n \in Nat /\ DOMAIN s = 1..n
      /\ \A T \in SUBSET (1..n) : T # {} => s[Max(T)] \in Encoding /\ T \ {Max(T)} \in SUBSET (1..n)
  BY Positions
<1>3. \A v \in DecodeStates, c \in Encoding : DecodeTable[<<v, c>>] = DecodeLetter(v, c)
  BY DEF DecodeTable
<1> HIDE DEF n
<1>4. PICK g \in [SUBSET (1..n) -> DecodeStates] : Table(DecodeTable, Nothing, s, g)
  BY <1>1, NothingIs, TableSolved DEF n
<1>5. IsDecode(s, g)
  <2>1. ASSUME NEW T \in SUBSET (1..n), T # {}
        PROVE  DecodeTable[<<g[T \ {Max(T)}], s[Max(T)]>>] = DecodeLetter(g[T \ {Max(T)}], s[Max(T)])
    BY <1>2, <1>3, <2>1
  <2>2. g = [T \in SUBSET (1..n) |-> IF T = {} THEN Nothing
                ELSE DecodeTable[<<g[T \ {Max(T)}], s[Max(T)]>>]]
    BY <1>4 DEF Table, n
  <2>3. g = [T \in SUBSET (1..n) |-> IF T = {} THEN Nothing
                ELSE DecodeLetter(g[T \ {Max(T)}], s[Max(T)])]
    BY <2>1, <2>2
  <2> QED BY <1>2, <2>3 DEF IsDecode
<1>6. IsDecode(s, h)
  BY <1>5
<1>7. Decode(s) = h[1..n]
  BY <1>2 DEF Decode, IsDecode, FoldLeft, MapThenFoldSet
<1> HIDE DEF h
<1>8. Follows(DecodeStates, DecodeTable, Nothing, s, h)
  <2>1. ASSUME NEW T \in SUBSET (1..n), T # {}, h[T \ {Max(T)}] \in DecodeStates
        PROVE  h[T] = DecodeTable[<<h[T \ {Max(T)}], s[Max(T)]>>]
    <3>1. h[T] = DecodeLetter(h[T \ {Max(T)}], s[Max(T)])
      BY <1>2, <1>6, <2>1 DEF IsDecode
    <3> QED BY <1>2, <1>3, <2>1, <3>1
  <2>2. h[{}] = Nothing
    BY <1>6 DEF IsDecode
  <2> QED BY <2>1, <2>2 DEF Follows, n
<1>9. h[1..n] \in DecodeStates
  BY <1>1, <1>8, NothingIs, FollowsIn DEF n
<1> QED BY <1>1, <1>7, <1>8, <1>9 DEF n

LEMMA DecodeNone == Decode(<<>>) = Nothing
<1>1. PICK s \in Seq(Encoding) : s = <<>>
  BY EmptySeq
<1>2. PICK g : Follows(DecodeStates, DecodeTable, Nothing, s, g) /\ Decode(s) = g[1..Len(s)]
  BY DecodeFollows
<1>3. g[1..Len(<<>>)] = Nothing
  BY <1>1, <1>2, FollowsNone
<1> QED BY <1>1, <1>2, <1>3

LEMMA DecodeAppend ==
  ASSUME NEW s \in Seq(Encoding), NEW c \in Encoding
  PROVE  Decode(Append(s, c)) = DecodeLetter(Decode(s), c)
<1>1. PICK g : Follows(DecodeStates, DecodeTable, Nothing, s, g) /\ Decode(s) = g[1..Len(s)]
  BY DecodeFollows
<1>2. PICK t : t = Append(s, c)
  OBVIOUS
<1>3. t \in Seq(Encoding) /\ Len(t) = Len(s) + 1
  BY <1>2, AppendProperties
<1>4. PICK h : Follows(DecodeStates, DecodeTable, Nothing, t, h) /\ Decode(t) = h[1..Len(t)]
  BY <1>3, DecodeFollows
<1>5. StepsOnce(DecodeStates, DecodeTable, g, Len(s), h, c)
  <2>1. DecodeTable \in [DecodeStates \X Encoding -> DecodeStates]
    BY DecodeFollows
  <2>2. Follows(DecodeStates, DecodeTable, Nothing, Append(s, c), h)
    BY <1>2, <1>4
  <2>3. Follows(DecodeStates, DecodeTable, Nothing, s, g)
    BY <1>1
  <2>4. Nothing \in DecodeStates
    BY NothingIs
  <2> QED BY <2>1, <2>2, <2>3, <2>4, TableAppends
<1>6. \A v \in DecodeStates : DecodeTable[<<v, c>>] = DecodeLetter(v, c)
  BY DEF DecodeTable
<1> QED BY <1>1, <1>2, <1>3, <1>4, <1>5, <1>6, DecodeFollows DEF StepsOnce

\* Letters behind a text
LEMMA Joined ==
  ASSUME NEW S, NEW t \in Seq(S), NEW a \in S, NEW b \in S, NEW c \in S, NEW d \in S
  PROVE  /\ t \o <<a>> = Append(t, a)
         /\ t \o <<a, b>> = Append(Append(t, a), b)
         /\ t \o <<a, b, c>> = Append(Append(Append(t, a), b), c)
         /\ t \o <<a, b, c, d>> = Append(Append(Append(Append(t, a), b), c), d)
<1>1. t \o <<a>> = Append(t, a)
  OBVIOUS
<1>2. t \o <<a, b>> = Append(Append(t, a), b)
  OBVIOUS
<1>3. t \o <<a, b, c>> = Append(Append(Append(t, a), b), c)
  OBVIOUS
<1>4. t \o <<a, b, c, d>> = Append(Append(Append(Append(t, a), b), c), d)
  OBVIOUS
<1> QED BY <1>1, <1>2, <1>3, <1>4

LEMMA Appended ==
  ASSUME NEW S, NEW t \in Seq(S), NEW a \in S, NEW b \in S, NEW c \in S
  PROVE  /\ Append(t, a) \in Seq(S) /\ Append(Append(t, a), b) \in Seq(S)
         /\ Append(Append(Append(t, a), b), c) \in Seq(S)
<1>1. \A u \in Seq(S), e \in S : Append(u, e) \in Seq(S)
  OBVIOUS
<1> QED BY <1>1

LEMMA GroupsTyped ==
  ASSUME NEW n \in Nat
  PROVE  Groups(n, 8, 8) \in Seq(Bytes) /\ Groups(n, 16, 8) \in Seq(Bytes) /\ Groups(n, 24, 8) \in Seq(Bytes)
<1>1. PICK x \in Bytes, y \in Bytes, z \in Bytes : x = Octet2(n) /\ y = Octet1(n) /\ z = Octet0(n)
  BY Parts DEF Bytes
<1>2. <<z>> \in Seq(Bytes) /\ <<y, z>> \in Seq(Bytes) /\ <<x, y, z>> \in Seq(Bytes)
  <2> HIDE DEF Bytes
  <2> QED OBVIOUS
<1> QED BY <1>1, <1>2, GroupsAre

\* The text read so far is in bits of a number n, behind the bytes o.
DecodesTo(t, n, bits, o) == t \in Seq(Encoding) /\ n \in Nat /\ o \in Seq(Bytes) /\ Decode(t) = St(n, bits, o)

LEMMA LetterDecoded ==
  ASSUME NEW t, NEW n, NEW o, NEW bits \in {0, 6, 12}, DecodesTo(t, n, bits, o), NEW v \in 0..63
  PROVE  DecodesTo(Append(t, base64_enc(v)), n * 64 + v, bits + 6, o)
<1> DEFINE c == base64_enc(v)
<1>1. c \in Encoding /\ c # "=" /\ base64_dec(c) = v
  BY LetterValues DEF Encoding
<1> HIDE DEF c
<1>2. t \in Seq(Encoding) /\ n \in Nat /\ o \in Seq(Bytes) /\ Decode(t) = St(n, bits, o)
  BY DEF DecodesTo
<1>3. PICK m \in Nat : m = n * 64 + v
  BY <1>2
<1>4. PICK k \in {6, 12, 18} : k = bits + 6
  OBVIOUS
<1>5. k % 8 # 0
  BY <1>4
<1>6. m = (IF c = "=" THEN n \div 4 ELSE n * 64 + base64_dec(c))
  BY <1>1, <1>3
<1>7. k = (IF c = "=" THEN bits - 2 ELSE bits + 6)
  BY <1>1, <1>4
<1>8. c # "=" => base64_dec(c) \in Nat
  BY <1>1
<1>9. DecodeLetter(St(n, bits, o), c) = St(m, k, o)
  BY <1>2, <1>5, <1>6, <1>7, <1>8, DecodeStep
<1>10. Decode(Append(t, c)) = St(m, k, o)
  BY <1>1, <1>2, <1>9, DecodeAppend
<1>11. Append(t, c) \in Seq(Encoding)
  BY <1>1, <1>2
<1> QED BY <1>2, <1>3, <1>4, <1>10, <1>11 DEF DecodesTo, c

LEMMA LastDecoded ==
  ASSUME NEW t, NEW n, NEW o, DecodesTo(t, n, 18, o), NEW v \in 0..63
  PROVE  DecodesTo(Append(t, base64_enc(v)), 0, 0, o \o Groups(n * 64 + v, 24, 8))
<1> DEFINE c == base64_enc(v)
<1>1. c \in Encoding /\ c # "=" /\ base64_dec(c) = v
  BY LetterValues DEF Encoding
<1> HIDE DEF c
<1>2. t \in Seq(Encoding) /\ n \in Nat /\ o \in Seq(Bytes) /\ Decode(t) = St(n, 18, o)
  BY DEF DecodesTo
<1>3. PICK m \in Nat : m = n * 64 + v
  BY <1>2
<1>4. 24 % 8 = 0
  OBVIOUS
<1>6. m = (IF c = "=" THEN n \div 4 ELSE n * 64 + base64_dec(c))
  BY <1>1, <1>3
<1>7. 24 = (IF c = "=" THEN 18 - 2 ELSE 18 + 6)
  BY <1>1
<1>8. c # "=" => base64_dec(c) \in Nat
  BY <1>1
<1>9. DecodeLetter(St(n, 18, o), c) = St(0, 0, o \o Groups(m, 24, 8))
  BY <1>2, <1>4, <1>6, <1>7, <1>8, DecodeStep
<1>10. Decode(Append(t, c)) = St(0, 0, o \o Groups(m, 24, 8))
  BY <1>1, <1>2, <1>9, DecodeAppend
<1>11. Append(t, c) \in Seq(Encoding)
  BY <1>1, <1>2
<1>12. o \o Groups(m, 24, 8) \in Seq(Bytes)
  <2>1. Groups(m, 24, 8) \in Seq(Bytes)
    BY GroupsTyped
  <2> QED BY <1>2, <2>1, ConcatProperties
<1> QED BY <1>3, <1>10, <1>11, <1>12 DEF DecodesTo, c

\* ... and padding
LEMMA PaddingDecoded ==
  ASSUME NEW t, NEW n, NEW o, DecodesTo(t, n, 12, o)
  PROVE  DecodesTo(Append(t, "="), n \div 4, 10, o)
<1>2. t \in Seq(Encoding) /\ n \in Nat /\ o \in Seq(Bytes) /\ Decode(t) = St(n, 12, o)
  BY DEF DecodesTo
<1>3. PICK m \in Nat : m = n \div 4
  BY <1>2
<1>4. 10 % 8 # 0
  OBVIOUS
<1>5. PICK c : c = "="
  OBVIOUS
<1>6. m = (IF c = "=" THEN n \div 4 ELSE n * 64 + base64_dec(c))
  BY <1>5, <1>3
<1>7. 10 = (IF c = "=" THEN 12 - 2 ELSE 12 + 6)
  BY <1>5
<1>8. c # "=" => base64_dec(c) \in Nat
  BY <1>5
<1>9. DecodeLetter(St(n, 12, o), c) = St(m, 10, o)
  BY <1>2, <1>4, <1>6, <1>7, <1>8, DecodeStep
<1>1. c \in Encoding
  BY <1>5 DEF Encoding
<1>10. Decode(Append(t, c)) = St(m, 10, o)
  BY <1>1, <1>2, <1>9, DecodeAppend
<1>11. Append(t, c) \in Seq(Encoding)
  BY <1>1, <1>2
<1> QED BY <1>2, <1>3, <1>5, <1>10, <1>11 DEF DecodesTo

LEMMA LastPaddingDecoded ==
  ASSUME NEW t, NEW n, NEW o, NEW bits \in {10, 18}, DecodesTo(t, n, bits, o)
  PROVE  DecodesTo(Append(t, "="), 0, 0, o \o Groups(n \div 4, bits - 2, 8))
<1>2. t \in Seq(Encoding) /\ n \in Nat /\ o \in Seq(Bytes) /\ Decode(t) = St(n, bits, o)
  BY DEF DecodesTo
<1>3. PICK m \in Nat : m = n \div 4
  BY <1>2
<1>4. PICK k \in {8, 16} : k = bits - 2
  OBVIOUS
<1>14. k % 8 = 0
  BY <1>4
<1>5. PICK c : c = "="
  OBVIOUS
<1>6. m = (IF c = "=" THEN n \div 4 ELSE n * 64 + base64_dec(c))
  BY <1>5, <1>3
<1>7. k = (IF c = "=" THEN bits - 2 ELSE bits + 6)
  BY <1>4, <1>5
<1>8. c # "=" => base64_dec(c) \in Nat
  BY <1>5
<1>9. DecodeLetter(St(n, bits, o), c) = St(0, 0, o \o Groups(m, k, 8))
  BY <1>2, <1>14, <1>6, <1>7, <1>8, DecodeStep
<1>1. c \in Encoding
  BY <1>5 DEF Encoding
<1>10. Decode(Append(t, c)) = St(0, 0, o \o Groups(m, k, 8))
  BY <1>1, <1>2, <1>9, DecodeAppend
<1>11. Append(t, c) \in Seq(Encoding)
  BY <1>1, <1>2
<1>12. o \o Groups(m, k, 8) \in Seq(Bytes)
  <2>1. Groups(m, k, 8) \in Seq(Bytes)
    BY <1>4, GroupsTyped
  <2> QED BY <1>2, <2>1, ConcatProperties
<1> QED BY <1>3, <1>4, <1>5, <1>10, <1>11, <1>12 DEF DecodesTo

\* Three bytes are four letters, and the reverse.
Narrow(n) == n \in Nat /\ n < 16777216

LEMMA ThreeBytes ==
  ASSUME NEW b1 \in Bytes, NEW b2 \in Bytes, NEW b3 \in Bytes, NEW n, n = (b1 * 256 + b2) * 256 + b3
  PROVE  Narrow(n) /\ n \in Nat /\ Octet2(n) = b1 /\ Octet1(n) = b2 /\ Octet0(n) = b3
<1>1. b1 \in Nat /\ b2 \in Nat /\ b3 \in Nat /\ b1 < 256 /\ b2 < 256 /\ b3 < 256
  BY SMT DEF Bytes
<1>2. n \in Nat /\ n < 16777216 /\ Octet2(n) = b1 /\ Octet1(n) = b2 /\ Octet0(n) = b3
  BY SMT, <1>1, Eights
<1> QED BY SMT, <1>2 DEF Narrow

LEMMA FourLetters ==
  ASSUME NEW n, Narrow(n)
  PROVE  n = ((Sextet3(n) * 64 + Sextet2(n)) * 64 + Sextet1(n)) * 64 + Sextet0(n)
BY SMT, Sixes DEF Narrow

LEMMA FourDecoded ==
  ASSUME NEW t, NEW o, DecodesTo(t, 0, 0, o), NEW b1 \in Bytes, NEW b2 \in Bytes, NEW b3 \in Bytes
  PROVE  DecodesTo(t \o Encoded((b1 * 256 + b2) * 256 + b3, 24), 0, 0, o \o <<b1, b2, b3>>)
<1>1. PICK n : n = (b1 * 256 + b2) * 256 + b3
  OBVIOUS
<1>2. Narrow(n) /\ n \in Nat /\ Octet2(n) = b1 /\ Octet1(n) = b2 /\ Octet0(n) = b3
  BY <1>1, ThreeBytes
<1>3. PICK v3 \in 0..63, v2 \in 0..63, v1 \in 0..63, v0 \in 0..63 :
        v3 = Sextet3(n) /\ v2 = Sextet2(n) /\ v1 = Sextet1(n) /\ v0 = Sextet0(n)
  BY <1>2, Parts
<1>4. n = ((v3 * 64 + v2) * 64 + v1) * 64 + v0
  BY <1>2, <1>3, FourLetters
<1>5. Encoded(n, 24) = <<base64_enc(v3), base64_enc(v2), base64_enc(v1), base64_enc(v0)>>
  BY <1>2, <1>3, EncodedIs
<1>6. Groups(n, 24, 8) = <<b1, b2, b3>>
  BY <1>2, GroupsAre
<1> DEFINE t1 == Append(t, base64_enc(v3))
           t2 == Append(t1, base64_enc(v2))
           t3 == Append(t2, base64_enc(v1))
           t4 == Append(t3, base64_enc(v0))
<1>7. t \o Encoded(n, 24) = t4
  <2>1. t \in Seq(Encoding)
    BY DEF DecodesTo
  <2>2. PICK a \in Encoding, b \in Encoding, c \in Encoding, d \in Encoding :
          a = base64_enc(v3) /\ b = base64_enc(v2) /\ c = base64_enc(v1) /\ d = base64_enc(v0)
    BY LetterValues DEF Encoding
  <2>3. t \o <<a, b, c, d>> = Append(Append(Append(Append(t, a), b), c), d)
    BY <2>1, Joined
  <2> QED BY <1>5, <2>2, <2>3
<1>8. DecodesTo(t1, v3, 6, o)
  <2>1. DecodesTo(t1, 0 * 64 + v3, 0 + 6, o)
    BY LetterDecoded
  <2>2. 0 * 64 + v3 = v3 /\ 0 + 6 = 6
    OBVIOUS
  <2> QED BY <2>1, <2>2
<1>9. DecodesTo(t2, v3 * 64 + v2, 12, o)
  <2> HIDE DEF t1
  <2>1. DecodesTo(t2, v3 * 64 + v2, 6 + 6, o)
    BY <1>8, LetterDecoded
  <2> QED BY <2>1
<1>10. DecodesTo(t3, (v3 * 64 + v2) * 64 + v1, 18, o)
  <2> HIDE DEF t2
  <2>1. DecodesTo(t3, (v3 * 64 + v2) * 64 + v1, 12 + 6, o)
    BY <1>9, LetterDecoded
  <2> QED BY <2>1
<1>11. DecodesTo(t4, 0, 0, o \o Groups(n, 24, 8))
  <2> HIDE DEF t3
  <2>1. DecodesTo(t4, 0, 0, o \o Groups(((v3 * 64 + v2) * 64 + v1) * 64 + v0, 24, 8))
    BY <1>10, LastDecoded
  <2> QED BY <1>4, <2>1
<1> QED BY <1>1, <1>6, <1>7, <1>11

\* One byte is two letters and two signs, two bytes are three letters and one.
LEMMA TwoLetters ==
  ASSUME NEW n \in Nat, n < 4096
  PROVE  n = Sextet1(n) * 64 + Sextet0(n)
<1>1. (n \div 64) % 64 = n \div 64
  BY SMT
<1>2. n = (n \div 64) * 64 + (n % 64)
  BY SMT
<1> QED BY SMT, <1>1, <1>2 DEF Sextet0, Sextet1

LEMMA ThreeLetters ==
  ASSUME NEW n \in Nat, n < 262144
  PROVE  n = (Sextet2(n) * 64 + Sextet1(n)) * 64 + Sextet0(n)
<1>1. PICK a \in Nat : a = n \div 64
  BY SMT
<1>2. n = a * 64 + (n % 64) /\ n % 64 \in 0..63
  BY SMT, <1>1
<1>3. PICK b \in Nat : b = a \div 64
  BY SMT
<1>4. a = b * 64 + (a % 64) /\ a % 64 \in 0..63
  BY SMT, <1>3
<1>5. b = n \div 4096
  BY SMT, <1>1, <1>3
<1>6. b % 64 = b
  <2>1. b < 64
    BY SMT, <1>5
  <2> QED BY SMT, <2>1
<1>7. Sextet2(n) = b /\ Sextet1(n) = a % 64 /\ Sextet0(n) = n % 64
  BY SMT, <1>1, <1>5, <1>6 DEF Sextet2, Sextet1, Sextet0
<1> QED BY SMT, <1>2, <1>4, <1>7

LEMMA OneByteLeft ==
  ASSUME NEW b \in Bytes, NEW n, n = b * 16
  PROVE  /\ n \in Nat /\ n = Sextet1(n) * 64 + Sextet0(n)
         /\ n \div 4 \in Nat /\ (n \div 4) \div 4 \in Nat /\ Octet0((n \div 4) \div 4) = b
<1>1. b \in Nat /\ b < 256
  BY SMT DEF Bytes
<1>2. n \in Nat /\ n < 4096
  BY SMT, <1>1
<1>3. n = Sextet1(n) * 64 + Sextet0(n)
  BY SMT, <1>2, TwoLetters
<1>4. n \div 4 = b * 4 /\ (b * 4) \div 4 = b /\ b % 256 = b
  BY SMT, <1>1
<1>5. n \div 4 \in Nat /\ (n \div 4) \div 4 = b
  BY SMT, <1>1, <1>4
<1>6. Octet0((n \div 4) \div 4) = b
  BY SMT, <1>4, <1>5 DEF Octet0
<1> QED BY SMT, <1>1, <1>2, <1>3, <1>5, <1>6

LEMMA TwoBytesLeft ==
  ASSUME NEW b1 \in Bytes, NEW b2 \in Bytes, NEW n, n = (b1 * 256 + b2) * 4
  PROVE  /\ n \in Nat /\ n = (Sextet2(n) * 64 + Sextet1(n)) * 64 + Sextet0(n)
         /\ n \div 4 \in Nat /\ Octet1(n \div 4) = b1 /\ Octet0(n \div 4) = b2
<1>1. b1 \in Nat /\ b1 < 256 /\ b2 \in Nat /\ b2 < 256
  BY SMT DEF Bytes
<1>2. n \in Nat /\ n < 262144
  BY SMT, <1>1
<1>3. n = (Sextet2(n) * 64 + Sextet1(n)) * 64 + Sextet0(n)
  BY SMT, <1>2, ThreeLetters
<1>4. n \div 4 = b1 * 256 + b2
  BY SMT, <1>1
<1>5. (b1 * 256 + b2) % 256 = b2
  BY SMT, <1>1
<1>6. (b1 * 256 + b2) \div 256 = b1
  BY SMT, <1>1
<1>7. b1 % 256 = b1
  BY SMT, <1>1
<1>8. Octet1(n \div 4) = b1 /\ Octet0(n \div 4) = b2 /\ n \div 4 \in Nat
  BY SMT, <1>1, <1>4, <1>5, <1>6, <1>7 DEF Octet1, Octet0
<1> QED BY SMT, <1>2, <1>3, <1>8

Padding(k) == [i \in 1..k |-> "="]

LEMMA PaddingIs == Padding(0) = <<>> /\ Padding(1) = <<"=">> /\ Padding(2) = <<"=", "=">>
BY DEF Padding

LEMMA OneDecoded ==
  ASSUME NEW t, NEW o, DecodesTo(t, 0, 0, o), NEW b \in Bytes
  PROVE  DecodesTo((t \o Encoded(b * 16, 12)) \o Padding(2), 0, 0, o \o <<b>>)
<1>1. PICK n : n = b * 16
  OBVIOUS
<1>2. n \in Nat /\ n = Sextet1(n) * 64 + Sextet0(n) /\ Octet0((n \div 4) \div 4) = b
      /\ n \div 4 \in Nat /\ (n \div 4) \div 4 \in Nat
  BY <1>1, OneByteLeft
<1>3. PICK v1 \in 0..63, v0 \in 0..63 : v1 = Sextet1(n) /\ v0 = Sextet0(n)
  BY <1>2, Parts
<1>4. n = v1 * 64 + v0
  BY <1>2, <1>3
<1>5. Encoded(n, 12) = <<base64_enc(v1), base64_enc(v0)>>
  BY <1>2, <1>3, EncodedIs
<1>6. Groups((n \div 4) \div 4, 8, 8) = <<b>>
  BY <1>2, GroupsAre
<1> DEFINE t1 == Append(t, base64_enc(v1))
           t2 == Append(t1, base64_enc(v0))
           t3 == Append(t2, "=")
           t4 == Append(t3, "=")
<1>7. (t \o Encoded(n, 12)) \o Padding(2) = t4
  <2>1. t \in Seq(Encoding)
    BY DEF DecodesTo
  <2>2. PICK x \in Encoding, y \in Encoding, z \in Encoding : x = base64_enc(v1) /\ y = base64_enc(v0) /\ z = "="
    BY LetterValues DEF Encoding
  <2>3. t \o <<x, y>> = Append(Append(t, x), y)
    BY <2>1, Joined
  <2>4. PICK u \in Seq(Encoding) : u = Append(Append(t, x), y)
    BY <2>1, Appended
  <2>5. u \o <<z, z>> = Append(Append(u, z), z)
    BY Joined
  <2>9. Encoded(n, 12) = <<x, y>>
    BY <1>5, <2>2
  <2>6. t \o Encoded(n, 12) = u
    BY <2>3, <2>4, <2>9
  <2>7. Padding(2) = <<z, z>>
    BY <2>2, PaddingIs
  <2>8. u = t2
    BY <2>2, <2>4
  <2> HIDE DEF t2
  <2> QED BY <2>2, <2>5, <2>6, <2>7, <2>8
<1>8. DecodesTo(t1, v1, 6, o)
  <2>1. DecodesTo(t1, 0 * 64 + v1, 0 + 6, o)
    BY LetterDecoded
  <2>2. 0 * 64 + v1 = v1 /\ 0 + 6 = 6
    OBVIOUS
  <2> QED BY <2>1, <2>2
<1>9. DecodesTo(t2, n, 12, o)
  <2> HIDE DEF t1
  <2>1. DecodesTo(t2, v1 * 64 + v0, 6 + 6, o)
    BY <1>8, LetterDecoded
  <2> QED BY <1>4, <2>1
<1>10. DecodesTo(t3, n \div 4, 10, o)
  <2> HIDE DEF t2
  <2> QED BY <1>9, PaddingDecoded
<1>11. DecodesTo(t4, 0, 0, o \o Groups((n \div 4) \div 4, 8, 8))
  <2> HIDE DEF t3
  <2>1. DecodesTo(t4, 0, 0, o \o Groups((n \div 4) \div 4, 10 - 2, 8))
    BY <1>10, LastPaddingDecoded
  <2> QED BY <2>1
<1> QED BY <1>1, <1>6, <1>7, <1>11

LEMMA TwoDecoded ==
  ASSUME NEW t, NEW o, DecodesTo(t, 0, 0, o), NEW b1 \in Bytes, NEW b2 \in Bytes
  PROVE  DecodesTo((t \o Encoded((b1 * 256 + b2) * 4, 18)) \o Padding(1), 0, 0, o \o <<b1, b2>>)
<1>1. PICK n : n = (b1 * 256 + b2) * 4
  OBVIOUS
<1>2. n \in Nat /\ n = (Sextet2(n) * 64 + Sextet1(n)) * 64 + Sextet0(n)
      /\ n \div 4 \in Nat /\ Octet1(n \div 4) = b1 /\ Octet0(n \div 4) = b2
  BY <1>1, TwoBytesLeft
<1>3. PICK v2 \in 0..63, v1 \in 0..63, v0 \in 0..63 : v2 = Sextet2(n) /\ v1 = Sextet1(n) /\ v0 = Sextet0(n)
  BY <1>2, Parts
<1>4. n = (v2 * 64 + v1) * 64 + v0
  BY <1>2, <1>3
<1>5. Encoded(n, 18) = <<base64_enc(v2), base64_enc(v1), base64_enc(v0)>>
  BY <1>2, <1>3, EncodedIs
<1>6. Groups(n \div 4, 16, 8) = <<b1, b2>>
  BY <1>2, GroupsAre
<1> DEFINE t1 == Append(t, base64_enc(v2))
           t2 == Append(t1, base64_enc(v1))
           t3 == Append(t2, base64_enc(v0))
           t4 == Append(t3, "=")
<1>7. (t \o Encoded(n, 18)) \o Padding(1) = t4
  <2>1. t \in Seq(Encoding)
    BY DEF DecodesTo
  <2>2. PICK x \in Encoding, y \in Encoding, z \in Encoding, e \in Encoding :
          x = base64_enc(v2) /\ y = base64_enc(v1) /\ z = base64_enc(v0) /\ e = "="
    BY LetterValues DEF Encoding
  <2>3. t \o <<x, y, z>> = Append(Append(Append(t, x), y), z)
    BY <2>1, Joined
  <2>4. PICK u \in Seq(Encoding) : u = Append(Append(Append(t, x), y), z)
    BY <2>1, Appended
  <2>5. u \o <<e>> = Append(u, e)
    BY Joined
  <2>9. Encoded(n, 18) = <<x, y, z>>
    BY <1>5, <2>2
  <2>6. t \o Encoded(n, 18) = u
    BY <2>3, <2>4, <2>9
  <2>7. Padding(1) = <<e>>
    BY <2>2, PaddingIs
  <2>8. u = t3
    BY <2>2, <2>4
  <2> HIDE DEF t3
  <2> QED BY <2>2, <2>5, <2>6, <2>7, <2>8
<1>8. DecodesTo(t1, v2, 6, o)
  <2>1. DecodesTo(t1, 0 * 64 + v2, 0 + 6, o)
    BY LetterDecoded
  <2>2. 0 * 64 + v2 = v2 /\ 0 + 6 = 6
    OBVIOUS
  <2> QED BY <2>1, <2>2
<1>9. DecodesTo(t2, v2 * 64 + v1, 12, o)
  <2> HIDE DEF t1
  <2>1. DecodesTo(t2, v2 * 64 + v1, 6 + 6, o)
    BY <1>8, LetterDecoded
  <2> QED BY <2>1
<1>10. DecodesTo(t3, n, 18, o)
  <2> HIDE DEF t2
  <2>1. DecodesTo(t3, (v2 * 64 + v1) * 64 + v0, 12 + 6, o)
    BY <1>9, LetterDecoded
  <2> QED BY <1>4, <2>1
<1>11. DecodesTo(t4, 0, 0, o \o Groups(n \div 4, 16, 8))
  <2> HIDE DEF t3
  <2>1. DecodesTo(t4, 0, 0, o \o Groups(n \div 4, 18 - 2, 8))
    BY <1>10, LastPaddingDecoded
  <2> QED BY <2>1
<1> QED BY <1>1, <1>6, <1>7, <1>11

\* What is encoded so far is decoded, up to the bytes that are not a group yet.
Left1(bytes, f, b) == f \in Seq(Bytes) /\ b \in Bytes /\ bytes = Append(f, b)
Left2(bytes, f, b1, b2) == f \in Seq(Bytes) /\ b1 \in Bytes /\ b2 \in Bytes /\ bytes = Append(Append(f, b1), b2)

Codes(bytes) ==
  \E o \in Seq(Lettered) :
    \/ Encode(bytes) = St(0, 0, o) /\ DecodesTo(o, 0, 0, bytes)
    \/ \E f, b : Left1(bytes, f, b) /\ Encode(bytes) = St(b, 8, o) /\ DecodesTo(o, 0, 0, f)
    \/ \E f, b1, b2 : Left2(bytes, f, b1, b2) /\ Encode(bytes) = St(b1 * 256 + b2, 16, o) /\ DecodesTo(o, 0, 0, f)

LEMMA CodesNone ==
  ASSUME NEW s, s = <<>>
  PROVE  Codes(s)
<1>1. <<>> \in Seq(Lettered) /\ <<>> \in Seq(Encoding) /\ <<>> \in Seq(Bytes)
  BY EmptySeq
<1>2. Encode(<<>>) = St(0, 0, <<>>) /\ Decode(<<>>) = St(0, 0, <<>>)
  BY EncodeNone, DecodeNone, NothingIs
<1>3. DecodesTo(<<>>, 0, 0, <<>>)
  BY <1>1, <1>2 DEF DecodesTo
<1> QED BY <1>1, <1>2, <1>3 DEF Codes

LEMMA CodesAppend ==
  ASSUME NEW s \in Seq(Bytes), Codes(s), NEW c \in Bytes, NEW t, t = Append(s, c)
  PROVE  Codes(t)
<1>1. PICK o \in Seq(Lettered) :
        \/ Encode(s) = St(0, 0, o) /\ DecodesTo(o, 0, 0, s)
        \/ \E f, b : Left1(s, f, b) /\ Encode(s) = St(b, 8, o) /\ DecodesTo(o, 0, 0, f)
        \/ \E f, b1, b2 : Left2(s, f, b1, b2) /\ Encode(s) = St(b1 * 256 + b2, 16, o) /\ DecodesTo(o, 0, 0, f)
  BY DEF Codes
<1>2. t = Append(s, c)
  OBVIOUS
<1>3. Encode(t) = EncodeByte(Encode(s), c)
  BY <1>2, EncodeAppend
<1>4. c \in 0..255 /\ c \in Nat
  BY DEF Bytes
<1>5. CASE Encode(s) = St(0, 0, o) /\ DecodesTo(o, 0, 0, s)
  <2>1. Encodes(0, 0, o, c)
    BY <1>4, EncodeStep
  <2>2. EncodeByte(St(0, 0, o), c) = St(0 * 256 + c, 0 + 8, o)
    BY <2>1, SMT DEF Encodes
  <2>3. 0 * 256 + c = c /\ 0 + 8 = 8
    BY <1>4
  <2>4. Encode(t) = St(c, 8, o)
    BY <1>3, <1>5, <2>2, <2>3
  <2>5. Left1(t, s, c)
    BY <1>2 DEF Left1
  <2> QED BY <1>2, <1>5, <2>4, <2>5 DEF Codes
<1>6. CASE \E f, b : Left1(s, f, b) /\ Encode(s) = St(b, 8, o) /\ DecodesTo(o, 0, 0, f)
  <2>1. PICK f, b : Left1(s, f, b) /\ Encode(s) = St(b, 8, o) /\ DecodesTo(o, 0, 0, f)
    BY <1>6
  <2>2. b \in Nat /\ Left2(t, f, b, c)
    BY <1>2, <2>1 DEF Left1, Left2, Bytes
  <2>3. Encodes(b, 8, o, c)
    BY <1>4, <2>2, EncodeStep
  <2>4. EncodeByte(St(b, 8, o), c) = St(b * 256 + c, 8 + 8, o)
    BY <2>3, SMT DEF Encodes
  <2>5. Encode(t) = St(b * 256 + c, 16, o)
    BY <1>3, <2>1, <2>4
  <2> QED BY <1>2, <2>1, <2>2, <2>5 DEF Codes
<1>7. CASE \E f, b1, b2 : Left2(s, f, b1, b2) /\ Encode(s) = St(b1 * 256 + b2, 16, o) /\ DecodesTo(o, 0, 0, f)
  <2>1. PICK f, b1, b2 : Left2(s, f, b1, b2) /\ Encode(s) = St(b1 * 256 + b2, 16, o) /\ DecodesTo(o, 0, 0, f)
    BY <1>7
  <2>2. f \in Seq(Bytes) /\ b1 \in Bytes /\ b2 \in Bytes /\ s = Append(Append(f, b1), b2)
    BY <2>1 DEF Left2
  <2>3. PICK n \in Nat : n = b1 * 256 + b2
    BY <2>2 DEF Bytes
  <2>4. Encodes(n, 16, o, c)
    BY <1>4, <2>3, EncodeStep
  <2>5. EncodeByte(St(n, 16, o), c) = St(0, 0, o \o Encoded(n * 256 + c, 24))
    BY <2>4 DEF Encodes
  <2>6. PICK p : p = o \o Encoded((b1 * 256 + b2) * 256 + c, 24)
    OBVIOUS
  <2>7. Encode(t) = St(0, 0, p)
    BY <1>3, <2>1, <2>3, <2>5, <2>6
  <2>8. Encode(t) \in EncodeStates
    <3>1. t \in Seq(Bytes)
      BY <1>2, AppendProperties
    <3> QED BY <3>1, EncodeFollows
  <2>9. p \in Seq(Lettered)
    BY <2>7, <2>8 DEF EncodeStates, States, St
  <2>10. DecodesTo(p, 0, 0, f \o <<b1, b2, c>>)
    BY <2>1, <2>2, <2>6, FourDecoded
  <2>11. f \o <<b1, b2, c>> = t
    <3>1. f \o <<b1, b2, c>> = Append(Append(Append(f, b1), b2), c)
      BY <2>2
    <3> QED BY <1>2, <2>2, <3>1
  <2> QED BY <1>2, <2>7, <2>9, <2>10, <2>11 DEF Codes
<1> QED BY <1>1, <1>5, <1>6, <1>7

LEMMA CodesAll ==
  ASSUME NEW s \in Seq(Bytes)
  PROVE  Codes(s)
<1> DEFINE n == Len(s)
           Pre(k) == SubSeq(s, 1, k)
           Good == {k \in 0..n : Codes(Pre(k))}
<1>0. n \in Nat
  OBVIOUS
<1>1. 0 \in Good
  <2>1. Pre(0) = <<>>
    BY FrontEnds
  <2> HIDE DEF Pre
  <2>2. Codes(Pre(0))
    BY <2>1, CodesNone
  <2> QED BY <1>0, <2>2
<1>2. ASSUME NEW k \in 0..(n - 1), k \in Good PROVE k + 1 \in Good
  <2>1. Pre(k) \in Seq(Bytes) /\ s[k + 1] \in Bytes /\ Pre(k + 1) = Append(Pre(k), s[k + 1])
    BY FrontGrows
  <2> HIDE DEF Pre
  <2>2. Codes(Pre(k + 1))
    BY <1>2, <2>1, CodesAppend
  <2> QED BY <1>0, <2>1, <2>2
<1> HIDE DEF Good
<1>3. n \in Good
  BY <1>0, <1>1, <1>2, UpTo
<1>4. Pre(n) = s
  BY FrontEnds
<1> QED BY <1>3, <1>4 DEF Good

\* What the server encodes is what the client decodes.
LEMMA RoundTrip ==
  ASSUME NEW s \in Seq(Bytes)
  PROVE  base64_decode(base64_encode(s)) = s
<1> DEFINE Pads(e) == CASE e.num_bits = 8 -> 2 [] e.num_bits = 16 -> 1 [] OTHER -> 0
           Closed(e, p) == (e.out \o Encoded(e.num * 2^(2 * p), e.num_bits + 2 * p)) \o Padding(p)
<1>1. base64_encode(s) = Closed(Encode(s), Pads(Encode(s)))
  <2>1. 2 * 8 = 16
    OBVIOUS
  <2> QED BY <2>1, Zenon DEF base64_encode, Encode, OCTET, Padding
<1>2. base64_decode(base64_encode(s)) = Decode(base64_encode(s)).out
  BY Zenon DEF base64_decode, Decode
<1>3. PICK o \in Seq(Lettered) :
        \/ Encode(s) = St(0, 0, o) /\ DecodesTo(o, 0, 0, s)
        \/ \E f, b : Left1(s, f, b) /\ Encode(s) = St(b, 8, o) /\ DecodesTo(o, 0, 0, f)
        \/ \E f, b1, b2 : Left2(s, f, b1, b2) /\ Encode(s) = St(b1 * 256 + b2, 16, o) /\ DecodesTo(o, 0, 0, f)
  BY CodesAll DEF Codes
<1>4. \A n, k : St(n, k, o).num = n /\ St(n, k, o).num_bits = k /\ St(n, k, o).out = o
  BY DEF St
<1>5. \A t : DecodesTo(t, 0, 0, s) => Decode(t).out = s
  BY DEF DecodesTo, St
<1>6. CASE Encode(s) = St(0, 0, o) /\ DecodesTo(o, 0, 0, s)
  <2>1. Pads(St(0, 0, o)) = 0
    BY <1>4
  <2>2. 0 * 2^(2 * 0) = 0 /\ 0 + 2 * 0 = 0
    BY Powers
  <2>3. Closed(St(0, 0, o), 0) = (o \o Encoded(0, 0)) \o Padding(0)
    BY <1>4, <2>2
  <2>4. (o \o Encoded(0, 0)) \o Padding(0) = o
    BY PaddingIs, EncodedIs
  <2> QED BY <1>1, <1>2, <1>5, <1>6, <2>1, <2>3, <2>4
<1>7. CASE \E f, b : Left1(s, f, b) /\ Encode(s) = St(b, 8, o) /\ DecodesTo(o, 0, 0, f)
  <2>1. PICK f, b : Left1(s, f, b) /\ Encode(s) = St(b, 8, o) /\ DecodesTo(o, 0, 0, f)
    BY <1>7
  <2>2. f \in Seq(Bytes) /\ b \in Bytes /\ s = Append(f, b)
    BY <2>1 DEF Left1
  <2>3. Pads(St(b, 8, o)) = 2
    BY <1>4
  <2>4. 2^(2 * 2) = 16 /\ 8 + 2 * 2 = 12
    BY Powers
  <2>5. Closed(St(b, 8, o), 2) = (o \o Encoded(b * 16, 12)) \o Padding(2)
    BY <1>4, <2>4
  <2>6. DecodesTo((o \o Encoded(b * 16, 12)) \o Padding(2), 0, 0, f \o <<b>>)
    BY <2>1, <2>2, OneDecoded
  <2>7. f \o <<b>> = s
    BY <2>2
  <2> QED BY <1>1, <1>2, <1>5, <2>1, <2>3, <2>5, <2>6, <2>7
<1>8. CASE \E f, b1, b2 : Left2(s, f, b1, b2) /\ Encode(s) = St(b1 * 256 + b2, 16, o) /\ DecodesTo(o, 0, 0, f)
  <2>1. PICK f, b1, b2 : Left2(s, f, b1, b2) /\ Encode(s) = St(b1 * 256 + b2, 16, o) /\ DecodesTo(o, 0, 0, f)
    BY <1>8
  <2>2. f \in Seq(Bytes) /\ b1 \in Bytes /\ b2 \in Bytes /\ s = Append(Append(f, b1), b2)
    BY <2>1 DEF Left2
  <2>3. PICK n \in Nat : n = b1 * 256 + b2
    BY <2>2 DEF Bytes
  <2>4. 2^(2 * 1) = 4 /\ 16 + 2 * 1 = 18
    BY Powers
  <2>5. Closed(St(n, 16, o), Pads(St(n, 16, o))) = (o \o Encoded(n * 4, 18)) \o Padding(1)
    <3>1. Pads(St(n, 16, o)) = 1
      BY <1>4
    <3>2. Closed(St(n, 16, o), 1) = (o \o Encoded(n * 4, 18)) \o Padding(1)
      BY <1>4, <2>4
    <3> HIDE DEF Closed, Pads
    <3> QED BY <3>1, <3>2
  <2>6. DecodesTo((o \o Encoded(n * 4, 18)) \o Padding(1), 0, 0, f \o <<b1, b2>>)
    BY <2>1, <2>2, <2>3, TwoDecoded
  <2>7. f \o <<b1, b2>> = s
    BY <2>2
  <2>8. base64_encode(s) = (o \o Encoded(n * 4, 18)) \o Padding(1)
    <3>1. Encode(s) = St(n, 16, o)
      BY <2>1, <2>3
    <3> HIDE DEF Closed, Pads
    <3> QED BY <1>1, <2>5, <3>1
  <2>9. DecodesTo(base64_encode(s), 0, 0, s)
    BY <2>6, <2>7, <2>8
  <2> QED BY <1>2, <1>5, <2>9
<1> QED BY <1>3, <1>6, <1>7, <1>8

-----------------------------------------------------------------------------
(* The login. *)

Fields == {"client_nonce", "client_first", "server_first", "server_nonce", "salt", "iterations", "password"}

\* The caller has the right password, and the server asks in a way that
\* handle_auth can carry out.
Entitled == scr.password = Password /\ server.method \in {"trust", "password", "scram"}

\* A client c has begun SCRAM.
Offered(c) == c.client_nonce = <<"client">> /\ c.client_first = <<"user", <<"client">>>>

\* Client and server have what both compute from.
Agreed(c, s) == Salted(c) = Salted(s) /\ AuthMessage(c) = AuthMessage(s) /\ c.server_nonce = s.server_nonce

\* What the server keeps of its first message, from which the client gets it
Challenged(msg, c, s) ==
  /\ s.salt \in Salts /\ s.iterations \in Iterations /\ s.password = Password
  /\ s.client_first = c.client_first /\ s.server_nonce = <<"client">> \o <<"server">>
  /\ s.server_first = msg
  /\ msg = <<s.server_nonce, base64_encode(s.salt), ToChars[s.iterations]>>

\* What the client sends is right, and so is what it is told.
Sent(m, c, s) ==
  /\ m.type = "password"   => m.body = Password
  /\ m.type = "sasl_first" => Offered(c) /\ m.body = c.client_first
  /\ m.type = "sasl_final" => Agreed(c, s) /\ m.body = generate_client_final_msg(c)

Told(m, c, s) ==
  /\ m.type \notin {"ERROR_RESPONSE", "NEGOTIATE_PROTOCOL_VERSION"}
  /\ m.type = "AUTHENTICATION" =>
       \/ m.body.kind \in {"OK", "CLEAR_TEXT_PASSWORD"}
       \/ m.body.kind = "SASL" /\ Found(m.body.msg)
       \/ m.body.kind = "SASL_CONTINUE" /\ Offered(c) /\ Challenged(m.body.msg, c, s)
       \/ m.body.kind = "SASL_FINAL" /\ m.body.msg = ServerSignature(Salted(c), AuthMessage(c))

Honest(u, w, c, s) == (\A k \in DOMAIN u : Sent(u[k], c, s)) /\ (\A k \in DOMAIN w : Told(w[k], c, s))

LoginInv ==
  /\ Fields \subseteq DOMAIN scr /\ {"scram", "gone"} \subseteq DOMAIN server
  /\ LoggedIn
  /\ pc = "init" /\ Entitled => Honest(up, wire, scr, server.scram)

\* Nobody else is refused.
LEMMA NotEntitled ==
  ASSUME PgInv, ~Entitled
  PROVE  scr.password # Password \/ server.method \in {"plus", "oauth", "md5", "newer"}
<1>1. server.method \in {"trust", "password", "scram", "plus", "oauth", "md5", "newer"}
  BY PgAssumption DEF PgInv
<1> QED BY <1>1 DEF Entitled

\* A login is over, or goes on.
LEMMA LoginEnds ==
  ASSUME LoginInv, pc' # "init", Fields \subseteq DOMAIN scr', {"scram", "gone"} \subseteq DOMAIN server',
         pc' = "failed" => LoggedIn'
  PROVE  LoginInv'
BY DEF LoginInv, LoggedIn

LEMMA LoginGoes ==
  ASSUME LoginInv, pc = "init", pc' = "init", Fields \subseteq DOMAIN scr', {"scram", "gone"} \subseteq DOMAIN server',
         scr'.password = scr.password, server'.method = server.method,
         Entitled => Honest(up', wire', scr', server'.scram)
  PROVE  LoginInv'
BY DEF LoginInv, LoggedIn, Entitled

\* The session goes on after its login.
LEMMA LoginOver ==
  ASSUME LoginInv, pc # "init", pc' # "init", Fields \subseteq DOMAIN scr', {"scram", "gone"} \subseteq DOMAIN server',
         pc' = "failed" => server'.gone \/ (pc = "failed" /\ scr' = scr /\ server'.method = server.method
                                            /\ (server.gone => server'.gone))
  PROVE  LoginInv'
BY DEF LoginInv, LoggedIn

LEMMA ToldStays ==
  ASSUME NEW m, NEW c, NEW s, NEW r, Told(m, c, s), ~Demand(m)
  PROVE  Told(m, c, r)
BY DEF Told, Demand

LEMMA AsideTold ==
  ASSUME NEW m, NEW c, NEW s, m.type \in Aside \/ m.type \in {"READY_FOR_QUERY", "BACKEND_KEY_DATA"}
  PROVE  Told(m, c, s)
BY DEF Told, Aside

LEMMA LoginInvInit == PgInit => LoginInv
<1> SUFFICES ASSUME PgInit PROVE LoginInv
  OBVIOUS
<1>1. Fields \subseteq DOMAIN scr /\ {"scram", "gone"} \subseteq DOMAIN server /\ LoggedIn
  BY DEF PgInit, NoScram, Fields, LoggedIn
<1>2. DOMAIN wire = {} /\ up = <<With("startup", "user")>>
  BY DEF PgInit
<1>3. PICK m : m = With("startup", "user")
  OBVIOUS
<1>4. DOMAIN up = {1} /\ up[1] = m /\ m.type = "startup"
  BY <1>2, <1>3, OneSays DEF With
<1>5. Honest(up, wire, scr, server.scram)
  BY <1>2, <1>4 DEF Honest, Sent
<1> QED BY <1>1, <1>5 DEF LoginInv

\* The server answers what a client in its login has sent.
LEMMA LoginAnswered ==
  ASSUME PgInv, LoginInv, up # <<>>, up[1].type \in Logins, pc = "init",
         NEW ms, IsSeq(ms), Answer(ms),
         {"scram", "gone"} \subseteq DOMAIN server', server'.method = server.method,
         Entitled => \A k \in DOMAIN ms : Told(ms[k], scr, server'.scram)
  PROVE  LoginInv'
<1>1. Len(up) = 1 /\ IsSeq(up) /\ IsSeq(wire) /\ Live
  BY Turns DEF Live, Closing, PgInv
<1>2. up' = Tail(up) /\ wire' = wire \o ms /\ pc' = pc /\ scr' = scr
  BY DEF Answer, sessionVars
<1>3. DOMAIN up' = {}
  <2>1. IsSeq(up') /\ Len(up') = 0
    BY <1>1, <1>2, Tails
  <2> QED BY <2>1, Sizes
<1>4. \A k \in DOMAIN wire : ~Demand(wire[k])
  BY <1>1 DEF PgInv, Paced, Final
<1>5. ASSUME Entitled, NEW k \in DOMAIN wire' PROVE Told(wire'[k], scr, server'.scram)
  <2>1. \/ k \in DOMAIN wire /\ wire'[k] = wire[k]
        \/ k - Len(wire) \in DOMAIN ms /\ wire'[k] = ms[k - Len(wire)]
    BY <1>1, <1>2, Joins
  <2>2. ASSUME NEW i \in DOMAIN wire PROVE Told(wire[i], scr, server'.scram)
    <3>1. Told(wire[i], scr, server.scram)
      BY <1>5 DEF LoginInv, Honest
    <3> QED BY <1>4, <3>1, ToldStays
  <2> QED BY <1>5, <2>1, <2>2
<1>6. Entitled => Honest(up', wire', scr', server'.scram)
  BY <1>2, <1>3, <1>5 DEF Honest
<1> QED BY <1>2, <1>6, LoginGoes DEF LoginInv

LEMMA OneTold ==
  ASSUME NEW m, NEW c, NEW s
  PROVE  IsSeq(<<m>>) /\ (Told(m, c, s) => \A k \in DOMAIN <<m>> : Told(<<m>>[k], c, s))
BY OneSays

LEMMA GreetingTold ==
  ASSUME NEW m, NEW ms \in Greets(m), NEW c, NEW s
  PROVE  IsSeq(ms) /\ (Told(m, c, s) => \A k \in DOMAIN ms : Told(ms[k], c, s))
<1> DEFINE x == Msg("PARAMETER_STATUS")
           y == Msg("BACKEND_KEY_DATA")
           z == Msg("READY_FOR_QUERY")
           ok == Auth("OK", <<>>)
<1>1. Told(x, c, s) /\ Told(y, c, s) /\ Told(z, c, s)
  BY AsideTold DEF Msg, Aside
<1>2. Told(ok, c, s)
  BY DEF Told, Auth, With
<1>3. ms = <<m>> \o <<x, y, z>> \/ ms = <<m, ok>> \o <<x, y, z>>
  BY DEF Greets, Greeting
<1> HIDE DEF x, y, z, ok
<1>4. CASE ms = <<m, x, y, z>>
  <2>1. ms \in Seq({m, x, y, z}) /\ DOMAIN ms = 1..4
    BY <1>4
  <2>2. Told(m, c, s) => \A k \in DOMAIN ms : Told(ms[k], c, s)
    BY <1>1, <1>4, <2>1
  <2> QED BY <2>1, <2>2, SeqIs
<1>5. CASE ms = <<m, ok, x, y, z>>
  <2>1. ms \in Seq({m, ok, x, y, z}) /\ DOMAIN ms = 1..5
    BY <1>5
  <2>2. Told(m, c, s) => \A k \in DOMAIN ms : Told(ms[k], c, s)
    BY <1>1, <1>2, <1>5, <2>1
  <2> QED BY <2>1, <2>2, SeqIs
<1>6. ms = <<m, x, y, z>> \/ ms = <<m, ok, x, y, z>>
  BY <1>3
<1> QED BY <1>4, <1>5, <1>6

LEMMA LoginAuthenticates ==
  ASSUME PgInv, LoginInv, Authenticate
  PROVE  LoginInv'
<1> DEFINE ok == Auth("OK", <<>>)
<1>1. /\ up # <<>> /\ up[1].type = "startup" /\ up[1].type \in Logins /\ pc' = pc /\ scr' = scr
      /\ server' = [server EXCEPT !.pc = "auth"]
  BY DEF Authenticate, Asked, Logins, Answer, sessionVars
<1>2. /\ {"scram", "gone"} \subseteq DOMAIN server' /\ server'.method = server.method
      /\ server'.gone = server.gone
  BY <1>1 DEF LoginInv, PgInv
<1>3. CASE pc # "init"
  BY <1>1, <1>2, <1>3, LoginOver DEF LoginInv
<1>4. CASE pc = "init"
  <2>1. server.method \in {"trust", "password", "scram", "plus", "oauth", "md5", "newer"}
    BY PgAssumption DEF PgInv
  <2>2. \/ Answer(<<ok>> \o Greeting)
        \/ \E m : Answer(<<m>>) /\ (Entitled => Told(m, scr, server'.scram))
    <3>1. Told(Auth("CLEAR_TEXT_PASSWORD", <<>>), scr, server'.scram)
      BY DEF Told, Auth, With
    <3>2. Told(Auth("SASL", {"SCRAM-SHA-256", "SCRAM-SHA-256-PLUS"}), scr, server'.scram)
      BY DEF Told, Auth, With, Found
    <3> QED BY <2>1, <3>1, <3>2 DEF Authenticate, Entitled
  <2>3. ASSUME Answer(<<ok>> \o Greeting) PROVE LoginInv'
    <3>1. <<ok>> \o Greeting \in Greets(ok)
      BY DEF Greets
    <3>2. Told(ok, scr, server'.scram)
      BY DEF Told, Auth, With
    <3> HIDE DEF ok
    <3>3. PICK ms : ms = <<ok>> \o Greeting
      OBVIOUS
    <3>4. IsSeq(ms) /\ Answer(ms) /\ \A k \in DOMAIN ms : Told(ms[k], scr, server'.scram)
      BY <2>3, <3>1, <3>2, <3>3, GreetingTold
    <3> QED BY <1>1, <1>2, <1>4, <3>4, LoginAnswered
  <2>4. ASSUME NEW m, Answer(<<m>>), Entitled => Told(m, scr, server'.scram) PROVE LoginInv'
    <3>1. PICK ms : ms = <<m>>
      OBVIOUS
    <3>2. IsSeq(ms) /\ Answer(ms) /\ (Entitled => \A k \in DOMAIN ms : Told(ms[k], scr, server'.scram))
      BY <2>4, <3>1, OneTold
    <3> QED BY <1>1, <1>2, <1>4, <3>2, LoginAnswered
  <2> HIDE DEF ok
  <2> QED BY <2>2, <2>3, <2>4
<1> QED BY <1>3, <1>4

LEMMA LoginChecks ==
  ASSUME PgInv, LoginInv, CheckPassword
  PROVE  LoginInv'
<1> DEFINE ok == Auth("OK", <<>>)
<1>1. /\ up # <<>> /\ up[1].type = "password" /\ up[1].type \in Logins /\ pc' = pc /\ scr' = scr
      /\ server' = server
  BY DEF CheckPassword, Asked, Logins, Answer, sessionVars
<1>2. {"scram", "gone"} \subseteq DOMAIN server'
  BY <1>1 DEF LoginInv
<1>3. CASE pc # "init"
  BY <1>1, <1>2, <1>3, LoginOver DEF LoginInv
<1>4. CASE pc = "init"
  <2>1. Entitled => up[1].body = Password
    <3>1. 1 \in DOMAIN up
      BY <1>1, Facts
    <3> QED BY <1>1, <1>4, <3>1 DEF LoginInv, Honest, Sent
  <2>2. CASE Answer(<<ok>> \o Greeting)
    <3>1. <<ok>> \o Greeting \in Greets(ok)
      BY DEF Greets
    <3>2. Told(ok, scr, server'.scram)
      BY DEF Told, Auth, With
    <3> HIDE DEF ok
    <3>3. PICK ms : ms = <<ok>> \o Greeting
      OBVIOUS
    <3>4. IsSeq(ms) /\ Answer(ms) /\ \A k \in DOMAIN ms : Told(ms[k], scr, server'.scram)
      BY <2>2, <3>1, <3>2, <3>3, GreetingTold
    <3> QED BY <1>1, <1>2, <1>4, <3>4, LoginAnswered
  <2>3. CASE Answer(<<Error>>) /\ ~Entitled
    <3>1. PICK ms : ms = <<Error>>
      OBVIOUS
    <3>2. IsSeq(ms) /\ Answer(ms)
      BY <2>3, <3>1, OneTold
    <3> QED BY <1>1, <1>2, <1>4, <2>3, <3>2, LoginAnswered
  <2> QED BY <2>1, <2>2, <2>3 DEF CheckPassword
<1> QED BY <1>3, <1>4

LEMMA LoginChallenges ==
  ASSUME PgInv, LoginInv, SaslContinue
  PROVE  LoginInv'
<1>1. /\ up # <<>> /\ up[1].type = "sasl_first" /\ up[1].type \in Logins /\ pc' = pc /\ scr' = scr
  BY DEF SaslContinue, Asked, Logins, Answer, sessionVars
<1>2. PICK salt, iterations, nonce, msg :
        /\ salt \in Salts /\ iterations \in Iterations
        /\ nonce = up[1].body[2] \o <<"server">> /\ msg = <<nonce, base64_encode(salt), ToChars[iterations]>>
        /\ Answer(<<Auth("SASL_CONTINUE", msg)>>)
        /\ server' = [server EXCEPT !.scram =
             [NoScram EXCEPT !.client_first = up[1].body, !.server_nonce = nonce,
                !.salt = salt, !.iterations = iterations, !.password = Password,
                !.server_first = msg]]
  BY Zenon DEF SaslContinue
<1>3. PICK s : s = [NoScram EXCEPT !.client_first = up[1].body, !.server_nonce = nonce,
                !.salt = salt, !.iterations = iterations, !.password = Password,
                !.server_first = msg]
  OBVIOUS
<1>4. /\ s.client_first = up[1].body /\ s.server_nonce = nonce /\ s.salt = salt
      /\ s.iterations = iterations /\ s.password = Password /\ s.server_first = msg
  BY <1>3 DEF NoScram
<1>5. server' = [server EXCEPT !.scram = s]
  BY <1>2, <1>3, Zenon
<1>6. /\ {"scram", "gone"} \subseteq DOMAIN server' /\ server'.method = server.method
      /\ server'.gone = server.gone /\ server'.scram = s
  BY <1>5 DEF LoginInv, PgInv
<1>7. CASE pc # "init"
  BY <1>1, <1>6, <1>7, LoginOver DEF LoginInv
<1>8. CASE pc = "init"
  <2>1. PICK m : m = Auth("SASL_CONTINUE", msg)
    OBVIOUS
  <2>2. m.type = "AUTHENTICATION" /\ m.body.kind = "SASL_CONTINUE" /\ m.body.msg = msg
    BY <2>1 DEF Auth, With
  <2>3. ASSUME Entitled PROVE Told(m, scr, s)
    <3>1. 1 \in DOMAIN up
      BY <1>1, Facts
    <3>2. Offered(scr) /\ up[1].body = scr.client_first
      BY <1>1, <1>8, <2>3, <3>1 DEF LoginInv, Honest, Sent
    <3>3. up[1].body[2] = <<"client">>
      BY <3>2 DEF Offered
    <3>4. nonce = <<"client">> \o <<"server">>
      BY <1>2, <3>3
    <3>5. Challenged(msg, scr, s)
      BY <1>2, <1>4, <3>2, <3>4 DEF Challenged
    <3> QED BY <2>2, <3>2, <3>5 DEF Told
  <2>4. PICK ms : ms = <<m>>
    OBVIOUS
  <2>5. IsSeq(ms) /\ Answer(ms) /\ (Entitled => \A k \in DOMAIN ms : Told(ms[k], scr, server'.scram))
    BY <1>2, <1>6, <2>1, <2>3, <2>4, OneTold
  <2> QED BY <1>1, <1>6, <1>8, <2>5, LoginAnswered
<1> QED BY <1>7, <1>8

\* The server refuses a mechanism that it has not offered.
LEMMA LoginRefuses ==
  ASSUME PgInv, LoginInv, SaslRefuse
  PROVE  LoginInv'
<1>1. /\ up # <<>> /\ up[1].type = "sasl_first" /\ up[1].type \in Logins /\ pc' = pc /\ scr' = scr
      /\ server' = server /\ server.method = "plus" /\ Answer(<<Error>>)
  BY DEF SaslRefuse, Asked, Logins, Answer, sessionVars
<1>2. {"scram", "gone"} \subseteq DOMAIN server' /\ ~Entitled
  BY <1>1 DEF LoginInv, Entitled
<1>3. CASE pc # "init"
  BY <1>1, <1>2, <1>3, LoginOver DEF LoginInv
<1>4. CASE pc = "init"
  <2>1. PICK ms : ms = <<Error>>
    OBVIOUS
  <2>2. IsSeq(ms) /\ Answer(ms)
    BY <1>1, <2>1, OneTold
  <2> QED BY <1>1, <1>2, <1>4, <2>2, LoginAnswered
<1> QED BY <1>3, <1>4

LEMMA LoginVerifies ==
  ASSUME PgInv, LoginInv, SaslFinal
  PROVE  LoginInv'
<1> DEFINE ok == Auth("OK", <<>>)
<1>1. /\ up # <<>> /\ up[1].type = "sasl_final" /\ up[1].type \in Logins /\ pc' = pc /\ scr' = scr
      /\ server' = [server EXCEPT !.scram = NoScram]
  BY DEF SaslFinal, Asked, Logins, Answer, sessionVars
<1>2. /\ {"scram", "gone"} \subseteq DOMAIN server' /\ server'.method = server.method
      /\ server'.gone = server.gone
  BY <1>1 DEF LoginInv, PgInv
<1>3. CASE pc # "init"
  BY <1>1, <1>2, <1>3, LoginOver DEF LoginInv
<1>4. CASE pc = "init"
  <2>1. PICK s, b : s = server.scram /\ b = ServerSignature(Salted(s), AuthMessage(s))
    OBVIOUS
  <2>2. PICK m : m = Auth("SASL_FINAL", b)
    OBVIOUS
  <2>3. Answer(IF up[1].body.nonce = s.server_nonce /\ up[1].body.proof = Proof(Salted(s), AuthMessage(s))
               THEN <<m, ok>> \o Greeting ELSE <<Error>>)
    BY <2>1, <2>2, Zenon DEF SaslFinal
  <2>4. ASSUME Entitled
        PROVE  /\ up[1].body.nonce = s.server_nonce /\ up[1].body.proof = Proof(Salted(s), AuthMessage(s))
               /\ b = ServerSignature(Salted(scr), AuthMessage(scr))
    <3>1. 1 \in DOMAIN up
      BY <1>1, Facts
    <3>2. Agreed(scr, s) /\ up[1].body = generate_client_final_msg(scr)
      BY <1>1, <1>4, <2>1, <2>4, <3>1 DEF LoginInv, Honest, Sent
    <3>3. up[1].body.nonce = scr.server_nonce /\ up[1].body.proof = Proof(Salted(scr), AuthMessage(scr))
      BY <3>2 DEF generate_client_final_msg
    <3>4. Salted(scr) = Salted(s) /\ AuthMessage(scr) = AuthMessage(s) /\ scr.server_nonce = s.server_nonce
      BY <3>2 DEF Agreed
    <3> QED BY <2>1, <3>3, <3>4
  <2>5. m.type = "AUTHENTICATION" /\ m.body.kind = "SASL_FINAL" /\ m.body.msg = b
    BY <2>2 DEF Auth, With
  <2>6. CASE Answer(<<m, ok>> \o Greeting)
    <3>1. <<m, ok>> \o Greeting \in Greets(m)
      BY DEF Greets
    <3>2. Entitled => Told(m, scr, server'.scram)
      BY <2>4, <2>5 DEF Told
    <3> HIDE DEF ok
    <3>3. PICK ms : ms = <<m, ok>> \o Greeting
      OBVIOUS
    <3>4. IsSeq(ms) /\ Answer(ms) /\ (Entitled => \A k \in DOMAIN ms : Told(ms[k], scr, server'.scram))
      BY <2>6, <3>1, <3>2, <3>3, GreetingTold
    <3> QED BY <1>1, <1>2, <1>4, <3>4, LoginAnswered
  <2>7. CASE Answer(<<Error>>) /\ ~Entitled
    <3>1. PICK ms : ms = <<Error>>
      OBVIOUS
    <3>2. IsSeq(ms) /\ Answer(ms)
      BY <2>7, <3>1, OneTold
    <3> QED BY <1>1, <1>2, <1>4, <2>7, <3>2, LoginAnswered
  <2> HIDE DEF ok
  <2> QED BY <2>3, <2>4, <2>6, <2>7
<1> QED BY <1>3, <1>4

\* The client reads a message and says nothing.
LEMMA LoginReads ==
  ASSUME PgInv, LoginInv, wire # <<>>, wire' = Tail(wire), UNCHANGED <<server, up, scr, pc>>
  PROVE  LoginInv'
<1>1. \A k \in DOMAIN wire' : k + 1 \in DOMAIN wire /\ wire'[k] = wire[k + 1]
  BY WireRead
<1>2. pc = "init" /\ Entitled => Honest(up', wire', scr', server'.scram)
  BY <1>1 DEF LoginInv, Honest
<1>3. Fields \subseteq DOMAIN scr' /\ {"scram", "gone"} \subseteq DOMAIN server'
  BY DEF LoginInv
<1>4. CASE pc = "init"
  BY <1>2, <1>3, <1>4, LoginGoes
<1>5. CASE pc # "init"
  BY <1>3, <1>5, LoginOver
<1> QED BY <1>4, <1>5

\* ... or goes on with its login.
LEMMA LoginSpeaks ==
  ASSUME PgInv, LoginInv, pc = "init", wire # <<>>, wire' = Tail(wire), Demand(wire[1]),
         UNCHANGED <<server, pc>>, NEW m, Send(<<m>>),
         Fields \subseteq DOMAIN scr', scr'.password = scr.password,
         Entitled => Sent(m, scr', server.scram)
  PROVE  LoginInv'
<1>1. up = <<>> /\ unsent = <<>> /\ Quiet(wire, 1)
  <2>1. Live /\ pc # "portal" /\ 1 \in DOMAIN wire
    BY Facts DEF Live
  <2>2. unsent = <<>>
    BY <2>1, Facts
  <2> QED BY <2>1, <2>2 DEF PgInv, Paced, Final
<1>2. \A k \in DOMAIN wire' : wire'[k].type \in Aside
  <2>1. /\ IsSeq(wire') /\ DOMAIN wire' \subseteq Nat /\ Quiet(wire, 0 + 1) => Quiet(wire', 0)
    BY WireRead
  <2>2. \A k \in DOMAIN wire' : k > 0
    BY <2>1, Sizes
  <2> QED BY <1>1, <2>1, <2>2 DEF Quiet
<1>3. up' = <<m>>
  BY <1>1 DEF Send
<1>4. Entitled => Honest(up', wire', scr', server'.scram)
  BY <1>2, <1>3, OneSays, AsideTold DEF Honest
<1> QED BY <1>4, LoginGoes DEF LoginInv

\* A write or flush throws: the server is gone.
LEMMA LoginLost ==
  ASSUME LoginInv, server.gone, server' = server, pc' = "failed", Fields \subseteq DOMAIN scr'
  PROVE  LoginInv'
BY LoginEnds DEF LoginInv, LoggedIn

LEMMA LoginHandles ==
  ASSUME PgInv, LoginInv, HandleAuth
  PROVE  LoginInv'
<1> DEFINE auth == wire[1].body
<1>1. /\ pc = "init" /\ wire # <<>> /\ wire[1].type = "AUTHENTICATION" /\ wire' = Tail(wire)
      /\ UNCHANGED server
  BY DEF HandleAuth, Takes
<1>2. Entitled => Told(wire[1], scr, server.scram)
  <2>1. 1 \in DOMAIN wire
    BY <1>1, Facts
  <2> QED BY <1>1, <2>1 DEF LoginInv, Honest
<1>3. CASE UNCHANGED <<up, unsent, sessionVars>>
  BY <1>1, <1>3, LoginReads DEF sessionVars
<1>4. CASE /\ auth.kind = "CLEAR_TEXT_PASSWORD" /\ UNCHANGED scr /\ UNCHANGED pc
           /\ Send(<<With("password", scr.password)>>)
  <2>1. Demand(wire[1])
    BY <1>1, <1>4 DEF Demand
  <2>2. PICK m : m = With("password", scr.password)
    OBVIOUS
  <2>3. Entitled => Sent(m, scr', server.scram)
    BY <2>2 DEF Sent, With, Entitled
  <2>4. Send(<<m>>)
    BY <1>4, <2>2
  <2>5. Fields \subseteq DOMAIN scr' /\ scr'.password = scr.password
    BY <1>4 DEF LoginInv
  <2> QED BY <1>1, <1>4, <2>1, <2>3, <2>4, <2>5, LoginSpeaks
<1>5. CASE /\ auth.kind = "SASL" /\ UNCHANGED pc
           /\ scr' = generate_client_first_msg(scr, "user", <<"client">>)
           /\ Send(<<With("sasl_first", scr'.client_first)>>)
  <2>1. Demand(wire[1])
    BY <1>1, <1>5 DEF Demand
  <2>2. PICK m : m = With("sasl_first", scr'.client_first)
    OBVIOUS
  <2>3. /\ Fields \subseteq DOMAIN scr' /\ scr'.password = scr.password
        /\ scr'.client_nonce = <<"client">> /\ scr'.client_first = <<"user", <<"client">>>>
    <3>1. scr' = [scr EXCEPT !.client_nonce = <<"client">>, !.client_first = <<"user", <<"client">>>>]
      BY <1>5 DEF generate_client_first_msg
    <3> QED BY <3>1 DEF LoginInv, Fields
  <2>4. Sent(m, scr', server.scram)
    BY <2>2, <2>3 DEF Sent, With, Offered
  <2>5. Send(<<m>>)
    BY <1>5, <2>2
  <2> QED BY <1>1, <1>5, <2>1, <2>3, <2>4, <2>5, LoginSpeaks
<1>6. CASE /\ auth.kind = "SASL_CONTINUE" /\ UNCHANGED pc
           /\ scr' = resolve_server_first_msg(scr, auth.msg)
           /\ Send(<<With("sasl_final", generate_client_final_msg(scr'))>>)
  <2>1. Demand(wire[1])
    BY <1>1, <1>6 DEF Demand
  <2>2. PICK m : m = With("sasl_final", generate_client_final_msg(scr'))
    OBVIOUS
  <2>3. /\ Fields \subseteq DOMAIN scr' /\ scr'.password = scr.password
        /\ scr'.server_first = auth.msg /\ scr'.server_nonce = auth.msg[1]
        /\ scr'.salt = base64_decode(auth.msg[2]) /\ scr'.iterations = convert_to_num(auth.msg[3])
        /\ scr'.client_first = scr.client_first
    <3>1. PICK a, b : a = base64_decode(auth.msg[2]) /\ b = convert_to_num(auth.msg[3])
      OBVIOUS
    <3>2. scr' = [scr EXCEPT !.server_first = auth.msg, !.server_nonce = auth.msg[1],
                             !.salt = a, !.iterations = b]
      BY <1>6, <3>1, Zenon DEF resolve_server_first_msg
    <3> HIDE DEF auth
    <3> QED BY <3>1, <3>2 DEF LoginInv, Fields
  <2>4. ASSUME Entitled PROVE Sent(m, scr', server.scram)
    <3>1. PICK s : s = server.scram
      OBVIOUS
    <3>2. Challenged(auth.msg, scr, s)
      BY <1>1, <1>2, <1>6, <2>4, <3>1 DEF Told
    <3> HIDE DEF auth
    <3>3. /\ s.salt \in Seq(Bytes) /\ s.iterations \in Nat /\ s.password = Password
          /\ s.client_first = scr.client_first /\ s.server_first = auth.msg
          /\ auth.msg[1] = s.server_nonce /\ auth.msg[2] = base64_encode(s.salt)
          /\ auth.msg[3] = ToChars[s.iterations]
      <4>1. /\ s.salt \in Salts /\ s.iterations \in Iterations /\ s.password = Password
            /\ s.client_first = scr.client_first /\ s.server_first = auth.msg
            /\ auth.msg = <<s.server_nonce, base64_encode(s.salt), ToChars[s.iterations]>>
        BY <3>2 DEF Challenged
      <4>2. s.salt \in Seq(Bytes) /\ s.iterations \in Nat
        BY <4>1, PgAssumption DEF Bytes
      <4>3. /\ auth.msg[1] = s.server_nonce /\ auth.msg[2] = base64_encode(s.salt)
            /\ auth.msg[3] = ToChars[s.iterations]
        BY <4>1
      <4> QED BY <4>1, <4>2, <4>3
    <3>4. scr'.salt = s.salt
      BY <2>3, <3>3, RoundTrip
    <3>5. scr'.iterations = s.iterations
      BY <2>3, <3>3, NaturalsKept DEF Reads10
    <3>6. scr'.password = Password
      BY <2>3, <2>4 DEF Entitled
    <3>7. Agreed(scr', s)
      BY <2>3, <3>3, <3>4, <3>5, <3>6 DEF Agreed, Salted, generate_salted_password, AuthMessage
    <3> QED BY <2>2, <3>1, <3>7 DEF Sent, With
  <2>5. Send(<<m>>)
    BY <1>6, <2>2
  <2> QED BY <1>1, <1>6, <2>1, <2>3, <2>4, <2>5, LoginSpeaks
<1>7. CASE /\ \E m : SendFails(<<m>>)
           /\ \/ UNCHANGED scr
              \/ scr' = generate_client_first_msg(scr, "user", <<"client">>)
              \/ scr' = resolve_server_first_msg(scr, auth.msg)
  <2>1. server.gone /\ pc' = "failed"
    BY <1>7 DEF SendFails
  <2>2. DOMAIN scr' = DOMAIN scr
    BY <1>7 DEF generate_client_first_msg, resolve_server_first_msg
  <2> QED BY <1>1, <2>1, <2>2, LoginLost DEF LoginInv
<1>8. CASE /\ Throw
           /\ auth.kind \notin {"OK", "CLEAR_TEXT_PASSWORD"}
           /\ ~(auth.kind = "SASL" /\ Found(auth.msg))
           /\ ~(auth.kind = "SASL_CONTINUE" /\ Resolvable(scr, auth.msg))
           /\ ~(auth.kind = "SASL_FINAL" /\ verify_server_final_msg(scr, auth.msg))
  <2>1. pc' = "failed" /\ scr' = scr
    BY <1>8 DEF Throw
  <2>2. ~Entitled
    <3>1. SUFFICES ASSUME Entitled PROVE FALSE
      OBVIOUS
    <3>2. \/ auth.kind = "SASL_CONTINUE" /\ Offered(scr) /\ Challenged(auth.msg, scr, server.scram)
          \/ auth.kind = "SASL_FINAL" /\ auth.msg = ServerSignature(Salted(scr), AuthMessage(scr))
      BY <1>1, <1>2, <1>8, <3>1 DEF Told
    <3>3. ASSUME Offered(scr), Challenged(auth.msg, scr, server.scram) PROVE Resolvable(scr, auth.msg)
      <4> HIDE DEF auth
      <4>1. /\ Len(auth.msg) = 3 /\ auth.msg[1] = <<"client">> \o <<"server">>
            /\ scr.client_nonce = <<"client">>
        BY <3>3 DEF Offered, Challenged
      <4>2. IsPrefix(<<"client">>, <<"client">> \o <<"server">>)
        BY DEF IsPrefix
      <4> QED BY <4>1, <4>2 DEF Resolvable
    <3> QED BY <1>8, <3>2, <3>3 DEF verify_server_final_msg
  <2>3. LoggedIn'
    BY <1>1, <2>1, <2>2, NotEntitled DEF LoggedIn
  <2> QED BY <1>1, <2>1, <2>3, LoginEnds DEF LoginInv
<1>9. \/ UNCHANGED <<up, unsent, sessionVars>>
      \/ /\ auth.kind = "CLEAR_TEXT_PASSWORD" /\ UNCHANGED scr
         /\ \/ Send(<<With("password", scr.password)>>) /\ UNCHANGED pc
            \/ SendFails(<<With("password", scr.password)>>)
      \/ /\ auth.kind = "SASL" /\ scr' = generate_client_first_msg(scr, "user", <<"client">>)
         /\ \/ Send(<<With("sasl_first", scr'.client_first)>>) /\ UNCHANGED pc
            \/ SendFails(<<With("sasl_first", scr'.client_first)>>)
      \/ /\ auth.kind = "SASL_CONTINUE" /\ scr' = resolve_server_first_msg(scr, auth.msg)
         /\ \/ Send(<<With("sasl_final", generate_client_final_msg(scr'))>>) /\ UNCHANGED pc
            \/ SendFails(<<With("sasl_final", generate_client_final_msg(scr'))>>)
      \/ /\ Throw
         /\ auth.kind \notin {"OK", "CLEAR_TEXT_PASSWORD"}
         /\ ~(auth.kind = "SASL" /\ Found(auth.msg))
         /\ ~(auth.kind = "SASL_CONTINUE" /\ Resolvable(scr, auth.msg))
         /\ ~(auth.kind = "SASL_FINAL" /\ verify_server_final_msg(scr, auth.msg))
  BY DEF HandleAuth
<1> HIDE DEF auth
<1> QED BY <1>3, <1>4, <1>5, <1>6, <1>7, <1>8, <1>9

LEMMA LoginInvStep == PgInv /\ LoginInv /\ [PgNext]_pgVars => LoginInv'
<1> SUFFICES ASSUME PgInv, LoginInv, [PgNext]_pgVars PROVE LoginInv'
  OBVIOUS
<1>0. Fields \subseteq DOMAIN scr /\ {"scram", "gone"} \subseteq DOMAIN server
  BY DEF LoginInv
<1>1. CASE Server
  <2>1. ASSUME AnswerQuery \/ AnswerExtended PROVE LoginInv'
    <3>1. /\ up # <<>> /\ up[1].type \in {"Q", "P", "B", "E", "C", "S"} /\ UNCHANGED <<pc, scr>>
      BY <2>1 DEF AnswerQuery, AnswerExtended, Asked, Answer, sessionVars
    <3>2. pc # "init"
      BY <3>1, Turns DEF Live
    <3>3. DOMAIN server' = DOMAIN server /\ server'.method = server.method /\ server'.gone = server.gone
      <4>1. CASE AnswerQuery
        BY <1>0, <4>1 DEF AnswerQuery, PgInv
      <4>2. CASE AnswerExtended
        <5>1. PICK p, v : server' = [server EXCEPT !.pc = p, !.values = v]
          BY <4>2 DEF AnswerExtended
        <5> QED BY <1>0, <5>1 DEF PgInv
      <4> QED BY <2>1, <4>1, <4>2
    <3> QED BY <1>0, <3>1, <3>2, <3>3, LoginOver
  <2> QED BY <1>1, <2>1, LoginAuthenticates, LoginChecks, LoginChallenges,
               LoginRefuses, LoginVerifies DEF Server
<1>2. CASE React
  <2>1. ASSUME SkipNotice \/ InitSkips PROVE LoginInv'
    <3>1. wire # <<>> /\ wire' = Tail(wire) /\ UNCHANGED <<server, up, scr, pc>>
      BY <2>1 DEF SkipNotice, InitSkips, Takes, sessionVars
    <3> QED BY <3>1, LoginReads
  <2>2. ASSUME InitReady PROVE LoginInv'
    <3>1. pc' = "idle" /\ scr' = NoScram /\ server' = server
      BY <2>2 DEF InitReady, Takes
    <3>2. Fields \subseteq DOMAIN scr'
      BY <3>1 DEF NoScram, Fields
    <3> QED BY <1>0, <3>1, <3>2, LoginEnds
  <2>3. ASSUME ReadFails PROVE LoginInv'
    <3>1. pc' = "failed" /\ scr' = scr /\ server' = server /\ server.gone
      BY <2>3 DEF ReadFails, Throw
    <3> QED BY <1>0, <3>1, LoginEnds DEF LoggedIn
  <2>4. ASSUME InitThrows PROVE LoginInv'
    <3>1. /\ pc = "init" /\ pc' = "failed" /\ scr' = scr /\ server' = server
          /\ wire # <<>> /\ wire[1].type \in {"ERROR_RESPONSE", "NEGOTIATE_PROTOCOL_VERSION"}
      BY <2>4 DEF InitThrows, Takes, Throw
    <3>2. ~Entitled
      <4>1. 1 \in DOMAIN wire
        BY <3>1, Facts
      <4> QED BY <3>1, <4>1 DEF LoginInv, Honest, Told
    <3>3. LoggedIn'
      BY <3>1, <3>2, NotEntitled DEF LoggedIn
    <3> QED BY <1>0, <3>1, <3>3, LoginEnds
  <2>5. ASSUME \/ Populate \/ Misread \/ QueryStatement \/ QueryReady \/ ExecuteSkips
               \/ ExecuteSuspended \/ ExecuteDone \/ CloseSkips \/ CloseReady
        PROVE  LoginInv'
    <3>1. /\ pc # "init" /\ pc # "failed" /\ scr' = scr /\ server' = server
          /\ pc' # "init" /\ (pc' = "failed" => server.gone)
      BY <2>5 DEF Populate, Misread, QueryStatement, QueryReady, ExecuteSkips, ExecuteSuspended,
                  ExecuteDone, ClosesPortal, SendFails, CloseSkips, CloseReady,
                  Takes, Completed, sessionVars
    <3> QED BY <1>0, <3>1, LoginOver
  <2> QED BY <1>2, <2>1, <2>2, <2>3, <2>4, <2>5, LoginHandles DEF React
<1>3. CASE Caller
  <2>1. /\ pc # "init" /\ pc' # "init" /\ scr' = scr /\ server' = server
        /\ pc' = "failed" => server.gone
    BY <1>3 DEF Caller, Query, PrepareQuery, Execute, CloseSync, MayQuery, ClosesPortal, SendFails
  <2> QED BY <1>0, <2>1, LoginOver
<1>4. CASE Asynchronous \/ Crash
  <2>1. /\ UNCHANGED <<up, scr, pc>> /\ DOMAIN server' = DOMAIN server
        /\ server' = server \/ server' = [server EXCEPT !.gone = TRUE]
    BY <1>4 DEF Asynchronous, Crash, sessionVars
  <2>2. /\ server'.scram = server.scram /\ server'.method = server.method
        /\ server.gone => server'.gone
    BY <1>0, <2>1 DEF PgInv
  <2>3. CASE pc = "init"
    <3>1. ASSUME Entitled, NEW k \in DOMAIN wire' PROVE Told(wire'[k], scr, server.scram)
      BY <1>4, <2>3, <3>1, WireMixes, AsideTold DEF LoginInv, Honest
    <3>2. Entitled => Honest(up', wire', scr', server'.scram)
      BY <2>1, <2>2, <2>3, <3>1 DEF LoginInv, Honest
    <3> QED BY <1>0, <2>1, <2>2, <2>3, <3>2, LoginGoes
  <2>4. CASE pc # "init"
    BY <1>0, <2>1, <2>2, <2>4, LoginOver
  <2> QED BY <2>3, <2>4
<1>5. CASE UNCHANGED pgVars
  BY <1>5 DEF pgVars, sessionVars, LoginInv, LoggedIn, Entitled
<1> QED BY <1>1, <1>2, <1>3, <1>4, <1>5 DEF PgNext

\* With the right password, and a method that handle_auth can carry out, a
\* connection that is not lost is never refused, for any salts and counts of
\* iterations: what the client computes is what the server expects, and the
\* reverse.
THEOREM LogsIn == PgSpec => []LoggedIn
<1>1. (PgInv /\ LoginInv) \/ Lost => LoggedIn
  BY DEF LoginInv, Lost, LoggedIn
<1>2. PgInit => (PgInv /\ LoginInv) \/ Lost
  BY PgInvInit, LoginInvInit
<1>3. ((PgInv /\ LoginInv) \/ Lost) /\ [PgNext]_pgVars => ((PgInv /\ LoginInv) \/ Lost)'
  BY PgInvStep, LoginInvStep, LostStays
<1> QED BY <1>1, <1>2, <1>3, PTL DEF PgSpec

-----------------------------------------------------------------------------
(* The pool. *)

CallerPcs == {"away", "connecting", "init", "using", "waiting", "undefined"}

PoolTypeOK ==
  /\ m_conn_count \in Int /\ m_idle \in Nat
  /\ m_waiting \in Seq(Callers) /\ events \in Seq(Callers)
  /\ caller \in [Callers -> CallerPcs]
  /\ overtaken \in BOOLEAN /\ overwritten \in Nat

\* A caller is queued once, and only while it waits.
Queued ==
  /\ \A i \in 1..Len(events) : caller[events[i]] = "waiting"
  /\ \A i \in 1..Len(m_waiting) : caller[m_waiting[i]] = "waiting"
  /\ \A i, j \in 1..Len(events) : i # j => events[i] # events[j]
  /\ \A i, j \in 1..Len(m_waiting) : i # j => m_waiting[i] # m_waiting[j]
  /\ \A i \in 1..Len(events), j \in 1..Len(m_waiting) : events[i] # m_waiting[j]

PoolInv == PoolTypeOK /\ Queued /\ CountExact

-----------------------------------------------------------------------------
\* A caller that takes hold of a connection is one more.
LEMMA OneMoreHolds ==
  ASSUME PoolTypeOK, NEW k \in Callers, k \notin Holding,
         NEW next \in {"init", "using"}, caller' = [caller EXCEPT ![k] = next]
  PROVE  /\ Cardinality(Holding) \in Nat
         /\ Cardinality(Holding') = Cardinality(Holding) + 1
<1>1. Holding' = Holding \union {k}
  BY DEF Holding, PoolTypeOK
<1>2. IsFiniteSet(Holding)
  BY FS_Subset, PoolAssumption DEF Holding
<1>. QED  BY <1>1, <1>2, FS_AddElement, FS_CardinalityType

\* A caller that lets go of its connection is one less.
LEMMA OneLessHolds ==
  ASSUME PoolTypeOK, NEW k \in Callers, k \in Holding,
         NEW next \in CallerPcs \ {"init", "using"}, caller' = [caller EXCEPT ![k] = next]
  PROVE  /\ Cardinality(Holding) \in Nat
         /\ Cardinality(Holding') = Cardinality(Holding) - 1
<1>1. Holding' = Holding \ {k}
  BY DEF Holding, PoolTypeOK
<1>2. IsFiniteSet(Holding)
  BY FS_Subset, PoolAssumption DEF Holding
<1>. QED  BY <1>1, <1>2, FS_RemoveElement, FS_CardinalityType

\* Steps of a caller that holds a connection before and after, or neither.
LEMMA AsManyHold ==
  ASSUME PoolTypeOK, NEW k \in Callers, NEW next \in CallerPcs,
         caller' = [caller EXCEPT ![k] = next],
         k \in Holding <=> next \in {"init", "using"}
  PROVE  Holding' = Holding
BY DEF Holding, PoolTypeOK

-----------------------------------------------------------------------------
\* A step of one caller keeps the type of caller.
LEMMA BecomesTyped ==
  ASSUME PoolTypeOK, NEW k \in Callers, NEW next \in CallerPcs, Becomes(k, next)
  PROVE  caller' \in [Callers -> CallerPcs]
BY DEF Becomes, PoolTypeOK

\* Every step keeps the types.
LEMMA PoolTypes ==
  ASSUME PoolTypeOK, [PoolNext]_poolVars
  PROVE  PoolTypeOK'
<1>1. CASE UNCHANGED poolVars
  BY <1>1 DEF PoolTypeOK, poolVars
<1>2. CASE Woken
  <2>1. events # <<>> /\ Head(events) \in Callers /\ Tail(events) \in Seq(Callers)
    BY <1>2 DEF Woken, PoolTypeOK
  <2>. QED  BY <1>2, <2>1 DEF Woken, PoolTypeOK, Becomes, CallerPcs
<1>3. ASSUME NEW k \in Callers, Release(k)
      PROVE  PoolTypeOK'
  <2>1. m_waiting # <<>> => /\ Head(m_waiting) \in Callers /\ Tail(m_waiting) \in Seq(Callers)
                            /\ Append(events, Head(m_waiting)) \in Seq(Callers)
    BY DEF PoolTypeOK
  <2>2. m_waiting' \in Seq(Callers) /\ events' \in Seq(Callers)
    BY <1>3, <2>1 DEF Release, PoolTypeOK
  <2>3. caller' \in [Callers -> CallerPcs]
    BY <1>3, BecomesTyped DEF Release, CallerPcs
  <2>4. /\ m_conn_count' \in Int /\ m_idle' \in Nat /\ overtaken' \in BOOLEAN
        /\ overwritten' \in Nat
    BY <1>3 DEF Release, PoolTypeOK
  <2>. QED  BY <2>2, <2>3, <2>4 DEF PoolTypeOK
<1>4. ASSUME NEW k \in Callers,
             Open(k) \/ Wait(k) \/ TakeIdle(k) \/ Connected(k) \/ Ready(k) \/ Drop(k)
      PROVE  PoolTypeOK'
  <2>5. overwritten' \in Nat
    BY <1>4 DEF Open, Wait, TakeIdle, Connected, Ready, Drop, PoolTypeOK
  <2>1. caller' \in [Callers -> CallerPcs]
    BY <1>4, BecomesTyped DEF Open, Wait, TakeIdle, Connected, Ready, Drop, CallerPcs
  <2>2. m_conn_count' \in Int /\ m_idle' \in Nat
    BY <1>4 DEF Open, Wait, TakeIdle, Connected, Ready, Drop, PoolTypeOK
  <2>3. m_waiting' \in Seq(Callers) /\ events' \in Seq(Callers)
    BY <1>4 DEF Open, Wait, TakeIdle, Connected, Ready, Drop, PoolTypeOK
  <2>4. overtaken' \in BOOLEAN
    BY <1>4, Zenon DEF Open, Wait, TakeIdle, Connected, Ready, Drop, PoolTypeOK
  <2>. QED  BY <2>1, <2>2, <2>3, <2>4, <2>5 DEF PoolTypeOK
<1>5. ASSUME NEW k \in Callers, NEW j \in Callers, Overwrite(k, j)
      PROVE  PoolTypeOK'
  <2>1. caller' \in [Callers -> CallerPcs]
    BY <1>5, BecomesTyped DEF Overwrite, CallerPcs
  <2>2. overwritten' \in Nat /\ UNCHANGED <<m_conn_count, m_idle, m_waiting, events, overtaken>>
    BY <1>5 DEF Overwrite, PoolTypeOK
  <2>. QED  BY <2>1, <2>2 DEF PoolTypeOK
<1>. QED  BY <1>1, <1>2, <1>3, <1>4, <1>5 DEF PoolNext, Proceed

\* Every step keeps the queues and their callers together.
LEMMA PoolQueued ==
  ASSUME PoolTypeOK, Queued, [PoolNext]_poolVars
  PROVE  Queued'
<1>1. CASE UNCHANGED poolVars
  BY <1>1 DEF Queued, poolVars
<1>2. CASE Woken
  <2>1. /\ events # <<>> /\ events' = Tail(events) /\ UNCHANGED m_waiting
        /\ Head(events) = events[1]
        /\ Len(events') = Len(events) - 1
        /\ \A i \in 1..Len(events') : events'[i] = events[i + 1]
    BY <1>2 DEF Woken, PoolTypeOK
  <2>2. \A k \in Callers : k # events[1] => caller'[k] = caller[k]
    BY <1>2, <2>1 DEF Woken, Becomes, PoolTypeOK
  <2>3. \A i \in 1..Len(events) : events[i] \in Callers
    BY DEF PoolTypeOK
  <2>4. \A i \in 1..Len(m_waiting) : m_waiting[i] \in Callers
    BY DEF PoolTypeOK
  <2>. QED  BY <2>1, <2>2, <2>3, <2>4 DEF Queued, PoolTypeOK
<1>3. ASSUME NEW k \in Callers, Release(k)
      PROVE  Queued'
  <2>1. \A c \in Callers : caller[c] = "waiting" => caller'[c] = "waiting"
    BY <1>3 DEF Release, Becomes, PoolTypeOK
  <2>2. /\ \A i \in 1..Len(events) : events[i] \in Callers
        /\ \A i \in 1..Len(m_waiting) : m_waiting[i] \in Callers
    BY DEF PoolTypeOK
  <2>3. CASE m_waiting = <<>>
    BY <1>3, <2>1, <2>2, <2>3 DEF Release, Queued
  <2>5. events \in Seq(Callers) /\ m_waiting \in Seq(Callers)
    BY DEF PoolTypeOK
  <2>4. CASE m_waiting # <<>>
    <3>3. m_waiting' = Tail(m_waiting) /\ events' = Append(events, Head(m_waiting))
      BY <1>3, <2>4 DEF Release
    <3>1. /\ Len(m_waiting') = Len(m_waiting) - 1
          /\ \A i \in 1..Len(m_waiting') : m_waiting'[i] = m_waiting[i + 1]
      BY <2>4, <2>5, <3>3
    <3>2. /\ Len(events') = Len(events) + 1
          /\ \A i \in 1..Len(events) : events'[i] = events[i]
          /\ events'[Len(events) + 1] = m_waiting[1]
      BY <2>4, <2>5, <3>3
    <3>4. Len(events) \in Nat /\ Len(m_waiting) \in Nat /\ Len(m_waiting) >= 1
      BY <2>4, <2>5
    <3>5. \A i \in 1..Len(events') : caller'[events'[i]] = "waiting"
      BY <2>1, <2>2, <3>2, <3>4 DEF Queued
    <3>6. \A i \in 1..Len(m_waiting') : caller'[m_waiting'[i]] = "waiting"
      BY <2>1, <2>2, <3>1, <3>4 DEF Queued
    <3>7. \A i, j \in 1..Len(events') : i # j => events'[i] # events'[j]
      BY <3>2, <3>4 DEF Queued
    <3>8. \A i, j \in 1..Len(m_waiting') : i # j => m_waiting'[i] # m_waiting'[j]
      <4>. SUFFICES ASSUME NEW i \in 1..Len(m_waiting'), NEW j \in 1..Len(m_waiting'), i # j
                    PROVE  m_waiting'[i] # m_waiting'[j]
        OBVIOUS
      <4>1. i + 1 \in 1..Len(m_waiting) /\ j + 1 \in 1..Len(m_waiting) /\ i + 1 # j + 1
        BY <3>1, <3>4
      <4>2. m_waiting[i + 1] # m_waiting[j + 1]
        BY <4>1 DEF Queued
      <4>. QED  BY <3>1, <4>2
    <3>9. \A i \in 1..Len(events'), j \in 1..Len(m_waiting') : events'[i] # m_waiting'[j]
      BY <3>1, <3>2, <3>4 DEF Queued
    <3>. QED  BY <3>5, <3>6, <3>7, <3>8, <3>9 DEF Queued
  <2>. QED  BY <2>3, <2>4
<1>4. ASSUME NEW k \in Callers, Wait(k)
      PROVE  Queued'
  <2>1. /\ Len(m_waiting') = Len(m_waiting) + 1
        /\ \A i \in 1..Len(m_waiting) : m_waiting'[i] = m_waiting[i]
        /\ m_waiting'[Len(m_waiting) + 1] = k
        /\ UNCHANGED events
    BY <1>4 DEF Wait, PoolTypeOK
  <2>2. /\ \A c \in Callers : caller[c] = "waiting" => caller'[c] = "waiting" /\ c # k
        /\ caller'[k] = "waiting"
    BY <1>4 DEF Wait, Becomes, PoolTypeOK
  <2>3. /\ \A i \in 1..Len(events) : events[i] \in Callers
        /\ \A i \in 1..Len(m_waiting) : m_waiting[i] \in Callers
    BY DEF PoolTypeOK
  <2>4. Len(events) \in Nat /\ Len(m_waiting) \in Nat
    BY DEF PoolTypeOK
  <2>5. \A i \in 1..Len(m_waiting') : /\ caller'[m_waiting'[i]] = "waiting"
                                      /\ i \in 1..Len(m_waiting) \/ m_waiting'[i] = k
    BY <2>1, <2>2, <2>3, <2>4 DEF Queued
  <2>6. \A i, j \in 1..Len(m_waiting') : i # j => m_waiting'[i] # m_waiting'[j]
    BY <2>1, <2>2, <2>3, <2>4 DEF Queued
  <2>7. \A i \in 1..Len(events'), j \in 1..Len(m_waiting') : events'[i] # m_waiting'[j]
    BY <2>1, <2>2, <2>3, <2>4 DEF Queued
  <2>. QED  BY <2>1, <2>2, <2>3, <2>5, <2>6, <2>7 DEF Queued
<1>5. ASSUME NEW k \in Callers,
             Open(k) \/ TakeIdle(k) \/ Connected(k) \/ Ready(k) \/ Drop(k)
      PROVE  Queued'
  <2>1. UNCHANGED <<m_waiting, events>>
    BY <1>5 DEF Open, TakeIdle, Connected, Ready, Drop
  <2>2. \A c \in Callers : caller[c] = "waiting" => caller'[c] = "waiting"
    BY <1>5 DEF Open, TakeIdle, Connected, Ready, Drop, Becomes, PoolTypeOK
  <2>3. /\ \A i \in 1..Len(events) : events[i] \in Callers
        /\ \A i \in 1..Len(m_waiting) : m_waiting[i] \in Callers
    BY DEF PoolTypeOK
  <2>. QED  BY <2>1, <2>2, <2>3 DEF Queued
<1>6. ASSUME NEW k \in Callers, NEW j \in Callers, Overwrite(k, j)
      PROVE  Queued'
  <2>1. UNCHANGED <<m_waiting, events>>
    BY <1>6 DEF Overwrite
  <2>2. \A c \in Callers : caller[c] = "waiting" => caller'[c] = "waiting"
    BY <1>6 DEF Overwrite, Becomes, PoolTypeOK
  <2>3. /\ \A i \in 1..Len(events) : events[i] \in Callers
        /\ \A i \in 1..Len(m_waiting) : m_waiting[i] \in Callers
    BY DEF PoolTypeOK
  <2>. QED  BY <2>1, <2>2, <2>3 DEF Queued
<1>. QED  BY <1>1, <1>2, <1>3, <1>4, <1>5, <1>6 DEF PoolNext, Proceed

-----------------------------------------------------------------------------
\* Every step keeps the count of connections.
LEMMA PoolCounts ==
  ASSUME PoolTypeOK, Queued, CountExact, [PoolNext]_poolVars
  PROVE  CountExact'
<1>1. CASE UNCHANGED poolVars
  BY <1>1 DEF CountExact, Holding, poolVars
<1>2. CASE Woken
  <2>. DEFINE k == Head(events)
  <2>1. k \in Callers /\ caller[k] = "waiting" /\ k \notin Holding
    BY <1>2 DEF Woken, Queued, PoolTypeOK, Holding
  <2>2. UNCHANGED <<m_conn_count, overwritten>>
    BY <1>2 DEF Woken
  <2>3. CASE m_idle > 0
    <3>1. m_idle' = m_idle - 1 /\ caller' = [caller EXCEPT ![k] = "using"]
      BY <1>2, <2>3 DEF Woken, Becomes
    <3>. HIDE DEF k
    <3>2. /\ Cardinality(Holding) \in Nat
          /\ Cardinality(Holding') = Cardinality(Holding) + 1
      BY <2>1, <3>1, OneMoreHolds
    <3>. QED  BY <2>2, <3>1, <3>2 DEF CountExact, PoolTypeOK
  <2>4. CASE ~(m_idle > 0)
    <3>1. UNCHANGED m_idle /\ caller' = [caller EXCEPT ![k] = "undefined"]
      BY <1>2, <2>4 DEF Woken, Becomes
    <3>. HIDE DEF k
    <3>2. Holding' = Holding
      BY <2>1, <3>1, AsManyHold DEF CallerPcs
    <3>. QED  BY <2>2, <3>1, <3>2 DEF CountExact
  <2>. QED  BY <2>3, <2>4
<1>3. ASSUME NEW k \in Callers, TakeIdle(k) \/ (Connected(k) /\ m_conn_count' = m_conn_count + 1)
      PROVE  CountExact'
  <2>1. PICK next \in {"init", "using"} : caller' = [caller EXCEPT ![k] = next]
    BY <1>3 DEF TakeIdle, Connected, Becomes, PoolTypeOK
  <2>2. k \notin Holding
    BY <1>3 DEF TakeIdle, Connected, Holding
  <2>3. /\ Cardinality(Holding) \in Nat
        /\ Cardinality(Holding') = Cardinality(Holding) + 1
    BY <2>1, <2>2, OneMoreHolds
  <2>4. \/ m_idle' = m_idle - 1 /\ UNCHANGED m_conn_count
        \/ UNCHANGED m_idle /\ m_conn_count' = m_conn_count + 1
    BY <1>3 DEF TakeIdle, Connected
  <2>5. m_idle \in Nat /\ m_conn_count \in Int /\ overwritten \in Nat /\ UNCHANGED overwritten
    BY <1>3 DEF TakeIdle, Connected, PoolTypeOK
  <2>. QED  BY <2>3, <2>4, <2>5 DEF CountExact
<1>4. ASSUME NEW k \in Callers, Release(k) \/ Drop(k)
      PROVE  CountExact'
  <2>1. caller' = [caller EXCEPT ![k] = "away"] /\ k \in Holding
    BY <1>4 DEF Release, Drop, Becomes, Holding
  <2>2. /\ Cardinality(Holding) \in Nat
        /\ Cardinality(Holding') = Cardinality(Holding) - 1
    BY <2>1, OneLessHolds DEF CallerPcs
  <2>3. \/ m_idle' = m_idle + 1 /\ UNCHANGED m_conn_count
        \/ UNCHANGED m_idle /\ m_conn_count' = m_conn_count - 1
    BY <1>4 DEF Release, Drop
  <2>4. m_idle \in Nat /\ m_conn_count \in Int /\ overwritten \in Nat /\ UNCHANGED overwritten
    BY <1>4 DEF Release, Drop, PoolTypeOK
  <2>. QED  BY <2>2, <2>3, <2>4 DEF CountExact
<1>5. ASSUME NEW k \in Callers,
             Open(k) \/ Wait(k) \/ Ready(k) \/ (Connected(k) /\ UNCHANGED m_conn_count)
      PROVE  CountExact'
  <2>1. UNCHANGED <<m_conn_count, m_idle, overwritten>>
    BY <1>5 DEF Open, Wait, Ready, Connected
  <2>2. PICK next \in CallerPcs : /\ caller' = [caller EXCEPT ![k] = next]
                                  /\ k \in Holding <=> next \in {"init", "using"}
    BY <1>5 DEF Open, Wait, Ready, Connected, Becomes, Holding, CallerPcs, PoolTypeOK
  <2>3. Holding' = Holding
    BY <2>2, AsManyHold
  <2>. QED  BY <2>1, <2>3 DEF CountExact
<1>6. ASSUME NEW k \in Callers, Connected(k)
      PROVE  m_conn_count' = m_conn_count + 1 \/ UNCHANGED m_conn_count
  BY <1>6 DEF Connected
<1>7. ASSUME NEW k \in Callers, NEW j \in Callers, Overwrite(k, j)
      PROVE  CountExact'
  <2>1. caller' = [caller EXCEPT ![j] = "away"] /\ j \in Holding
    BY <1>7 DEF Overwrite, Becomes, Holding
  <2>2. /\ Cardinality(Holding) \in Nat
        /\ Cardinality(Holding') = Cardinality(Holding) - 1
    BY <2>1, OneLessHolds DEF CallerPcs
  <2>3. /\ m_idle \in Nat /\ m_conn_count \in Int /\ overwritten \in Nat
        /\ overwritten' = overwritten + 1 /\ UNCHANGED <<m_idle, m_conn_count>>
    BY <1>7 DEF Overwrite, PoolTypeOK
  <2>. QED  BY <2>2, <2>3 DEF CountExact
<1>. QED  BY <1>1, <1>2, <1>3, <1>4, <1>5, <1>6, <1>7 DEF PoolNext, Proceed

-----------------------------------------------------------------------------
\* Every step leaves idle connections for exactly the callers that have been
\* woken, unless one was overtaken.
LEMMA PoolIdle ==
  ASSUME PoolTypeOK, IdleForWoken, [PoolNext]_poolVars
  PROVE  IdleForWoken'
<1>1. CASE UNCHANGED poolVars
  BY <1>1 DEF IdleForWoken, Defined, poolVars
<1>. SUFFICES ASSUME PoolNext
              PROVE  IdleForWoken'
  BY <1>1
<1>2. Defined /\ Len(events) \in Nat
  BY DEF PoolNext, PoolTypeOK
<1>3. CASE Woken
  <2>1. events # <<>> /\ Len(events') = Len(events) - 1 /\ UNCHANGED <<m_waiting, overtaken>>
    BY <1>3 DEF Woken, PoolTypeOK
  <2>2. Len(events) > 0
    BY <1>2, <2>1 DEF PoolTypeOK
  <2>3. CASE m_idle > 0
    <3>1. m_idle' = m_idle - 1 /\ Defined'
      BY <1>2, <1>3, <2>3 DEF Woken, Becomes, Defined, PoolTypeOK
    <3>. QED  BY <1>2, <2>1, <3>1 DEF IdleForWoken, PoolTypeOK
  <2>4. CASE ~(m_idle > 0)
    <3>1. UNCHANGED m_idle /\ overtaken
      BY <1>2, <1>3, <2>2, <2>4 DEF Woken, IdleForWoken, PoolTypeOK
    <3>. QED  BY <1>2, <2>1, <2>2, <2>4, <3>1 DEF IdleForWoken, PoolTypeOK
  <2>. QED  BY <2>3, <2>4
<1>4. ASSUME NEW k \in Callers, NEW next \in CallerPcs \ {"undefined"}, Becomes(k, next)
      PROVE  Defined'
  BY <1>2, <1>4 DEF Becomes, Defined, PoolTypeOK
<1>5. ASSUME NEW k \in Callers, Release(k)
      PROVE  IdleForWoken'
  <2>1. Defined'
    BY <1>4, <1>5 DEF Release, CallerPcs
  <2>2. CASE m_waiting = <<>>
    BY <1>2, <1>5, <2>1, <2>2 DEF Release, IdleForWoken, PoolTypeOK
  <2>3. CASE m_waiting # <<>>
    <3>1. Len(events') = Len(events) + 1 /\ m_idle' = m_idle + 1 /\ UNCHANGED overtaken
      BY <1>5, <2>3 DEF Release, PoolTypeOK
    <3>. QED  BY <1>2, <2>1, <2>3, <3>1 DEF IdleForWoken, PoolTypeOK
  <2>. QED  BY <2>2, <2>3
<1>6. ASSUME NEW k \in Callers, TakeIdle(k)
      PROVE  IdleForWoken'
  <2>1. Defined'
    BY <1>4, <1>6 DEF TakeIdle, CallerPcs
  <2>2. events = <<>> => Len(events) = 0
    OBVIOUS
  <2>3. ~overtaken' => ~overtaken /\ events = <<>>
    BY <1>6, Zenon DEF TakeIdle
  <2>4. /\ m_idle > 0 /\ m_idle' = m_idle - 1 /\ m_idle \in Nat
        /\ UNCHANGED <<m_waiting, events>>
    BY <1>6 DEF TakeIdle, PoolTypeOK
  <2>. QED  BY <1>2, <2>1, <2>2, <2>3, <2>4 DEF IdleForWoken
<1>7. ASSUME NEW k \in Callers, Wait(k)
      PROVE  IdleForWoken'
  <2>1. Defined'
    BY <1>4, <1>7 DEF Wait, CallerPcs
  <2>. QED  BY <1>2, <1>7, <2>1 DEF Wait, IdleForWoken, PoolTypeOK
<1>8. ASSUME NEW k \in Callers, Open(k) \/ Connected(k) \/ Ready(k) \/ Drop(k)
      PROVE  IdleForWoken'
  <2>1. Defined'
    BY <1>4, <1>8 DEF Open, Connected, Ready, Drop, CallerPcs
  <2>2. UNCHANGED <<m_idle, m_waiting, events, overtaken>>
    BY <1>8 DEF Open, Connected, Ready, Drop
  <2>. QED  BY <2>1, <2>2 DEF IdleForWoken
<1>9. ASSUME NEW k \in Callers, NEW j \in Callers, Overwrite(k, j)
      PROVE  IdleForWoken'
  <2>1. Defined'
    BY <1>4, <1>9 DEF Overwrite, CallerPcs
  <2>2. UNCHANGED <<m_idle, m_waiting, events, overtaken>>
    BY <1>9 DEF Overwrite
  <2>. QED  BY <2>1, <2>2 DEF IdleForWoken
<1>. QED  BY <1>3, <1>5, <1>6, <1>7, <1>8, <1>9 DEF PoolNext, Proceed

-----------------------------------------------------------------------------
\* The pool begins well typed.
LEMMA PoolInitTyped == PoolInit => PoolTypeOK
<1>. SUFFICES ASSUME PoolInit PROVE PoolTypeOK
  OBVIOUS
<1>1. /\ m_conn_count \in Int /\ m_idle \in Nat /\ overwritten \in Nat
      /\ caller \in [Callers -> CallerPcs]
  BY DEF PoolInit, CallerPcs
<1>2. m_waiting \in Seq(Callers) /\ events \in Seq(Callers)
  BY DEF PoolInit
<1>3. overtaken \in BOOLEAN
  BY Zenon DEF PoolInit
<1>. QED  BY <1>1, <1>2, <1>3 DEF PoolTypeOK

\* In every reachable state the count is that of the connections that exist and
\* of those that a move assignment has lost: constructor, moves into empty
\* variables, release and destructor of pg_connection agree, and only an
\* assignment over a live connection leaves the count too high, by one each.
THEOREM CountKept == PoolSpec => []CountExact
<1>1. PoolInit => PoolInv
  <2>. SUFFICES ASSUME PoolInit PROVE PoolInv
    OBVIOUS
  <2>1. PoolTypeOK
    BY PoolInitTyped
  <2>3. Queued
    BY DEF PoolInit, Queued
  <2>2. Holding = {}
    BY DEF PoolInit, Holding
  <2>. QED  BY <2>1, <2>2, <2>3, FS_EmptySet DEF PoolInit, PoolInv, CountExact
<1>2. PoolInv /\ [PoolNext]_poolVars => PoolInv'
  BY PoolTypes, PoolQueued, PoolCounts DEF PoolInv
<1>3. PoolInv => CountExact
  BY DEF PoolInv
<1>. QED  BY <1>1, <1>2, <1>3, PTL DEF PoolSpec

\* A woken caller finds a connection unless it was overtaken, and nobody waits
\* beside a connection that lies idle for no one (get_connection, release).
THEOREM IdleKept == PoolSpec => []IdleForWoken
<1>. DEFINE Inv == PoolTypeOK /\ IdleForWoken
<1>1. PoolInit => Inv
  <2>. SUFFICES ASSUME PoolInit PROVE Inv
    OBVIOUS
  <2>1. PoolTypeOK
    BY PoolInitTyped
  <2>2. m_waiting = <<>> /\ m_idle = 0 /\ Len(events) = 0 /\ Defined
    BY DEF PoolInit, Defined
  <2>. QED  BY <2>1, <2>2 DEF IdleForWoken
<1>2. Inv /\ [PoolNext]_poolVars => Inv'
  BY PoolTypes, PoolIdle
<1>. QED  BY <1>1, <1>2, PTL DEF PoolSpec
=============================================================================
