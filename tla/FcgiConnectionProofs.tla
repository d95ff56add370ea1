------------------------- MODULE FcgiConnectionProofs -------------------------
(***************************************************************************)
(* Theorems about FcgiConnection: its types, that one coroutine at a time  *)
(* reads the socket and finds there what it expects, that every stored     *)
(* handle belongs to a coroutine that waits for it, that a request is      *)
(* answered in order, and that the route tree finds what the list of       *)
(* routes says.                                                            *)
(*                                                                         *)
(* The invariant has six parts besides the types.  Nested says which       *)
(* coroutines are in the nest of resume calls, and what those below the    *)
(* running one are doing; Shared who may read the socket, and whose the    *)
(* handles of a stream are; Parsed that what is left on the wire goes on   *)
(* from where the reader is, unit for unit; Queued that the output queue   *)
(* is the requests that wait for a write; Fresh that an id that begins     *)
(* anew has nothing under way; Answering how far each answer has come.     *)
(***************************************************************************)
EXTENDS FcgiConnection, FoldProofs, SequenceTheorems

-----------------------------------------------------------------------------
(* The nest of resume calls. *)

ReaderAwake == reader.pc \notin {"blocked", "ended"} /\ reader.io # "recv"
WriterAwake == writer \in {"running", "sent"}

\* A coroutine runs once; the reader and the writer are in the nest exactly
\* while they are awake, and below its top only where they resume others; a
\* request resumes nobody.
Nested ==
  /\ \A j, k \in DOMAIN stack : stack[j] = stack[k] => j = k
  /\ ReaderAwake <=> \E k \in DOMAIN stack : stack[k] = "reader"
  /\ WriterAwake <=> \E k \in DOMAIN stack : stack[k] = "writer"
  /\ \A k \in DOMAIN stack : k > 1 =>
       \/ stack[k] = "reader" /\ reader.pc = "updating"
       \/ stack[k] = "writer" /\ writer = "running"

-----------------------------------------------------------------------------
(* The socket. *)

\* The content of a record is with its request while read_req stands by; only
\* then can a request be in a receive; and the handles of a stream are of a
\* request that waits to read it and of the reader that waits for that.
Shared ==
  /\ \A i \in Ids, t \in Types :
       /\ stream[i][t].m_remaining > 0 =>
            /\ reader.pc \in {"updating", "blocked"} /\ reader.io = "none"
            /\ reader.id = i /\ reader.type = t
       /\ stream[i][t].m_consumer =>
            /\ request[i].pc \in ReadingPcs /\ StreamOf(request[i].pc) = t
            /\ request[i].io = "none" /\ ~Running(i)
       /\ stream[i][t].m_producer =>
            reader.pc = "blocked" /\ reader.id = i /\ reader.type = t
  /\ \A i \in Ids : request[i].io # "none" => request[i].pc \in ReadingPcs /\ InLoop(i)
  /\ reader.io # "none" => reader.pc \in {"header", "begin", "padding"}

-----------------------------------------------------------------------------
(* The wire. *)

\* Content and padding that come after a header.  A begin's body stands for
\* eight bytes.
ContentOf(h) == IF h.type = "begin" THEN 1 ELSE h.len
PaddingOf(h) == IF h.type = "begin" THEN 0 ELSE h.len % 2

\* After the first at units of w come so many units of content and padding,
\* and then a header; and they have come already unless the rest is cut off.
Continues(w, at, content, padding, type, id, cut) ==
  /\ \A k \in DOMAIN w :
       /\ k > at /\ k <= at + content => w[k] = Unit("content", type, id, 0)
       /\ k > at + content /\ k <= at + content + padding => w[k].kind = "padding"
       /\ k = at + content + padding + 1 => w[k].kind = "header"
  /\ ~cut => at + content + padding <= Len(w)

\* Every header is followed by its record.
Records(w, cut) ==
  \A k \in DOMAIN w : w[k].kind = "header" =>
    Continues(w, k, ContentOf(w[k]), PaddingOf(w[k]), w[k].type, w[k].id, cut)

\* What is left of the record that the reader, or a request, is in.
DueContent == IF reader.pc = "begin" THEN 1
              ELSE IF reader.pc \in {"updating", "blocked"}
                   THEN stream[reader.id][reader.type].m_remaining
              ELSE 0
DuePadding == IF reader.pc = "header" THEN 0 ELSE reader.len % 2

Parsed ==
  reader.pc # "ended" =>
    /\ Records(wire, closed)
    /\ Continues(wire, 0, DueContent, DuePadding, reader.type, reader.id, closed)
    /\ reader.pc \in {"updating", "blocked"} => reader.type \in Types
    /\ reader.pc = "begin" => reader.type = "begin"

-----------------------------------------------------------------------------
(* The output. *)

\* What a request writes where, and what it does next.
Written == {<<"stdout", "end">>, <<"stdout", "subscribe">>, <<"stdout", "await">>,
            <<"end", "endreq">>, <<"endreq", "skip">>}

\* The queue holds the requests that wait for a write, each once.
Queued ==
  /\ \A k \in DOMAIN m_out_records :
       /\ request[m_out_records[k].id].pc = "writing"
       /\ <<m_out_records[k].type, request[m_out_records[k].id].next>> \in Written
  /\ \A j, k \in DOMAIN m_out_records : m_out_records[j].id = m_out_records[k].id => j = k
  /\ \A i \in Ids : request[i].pc = "writing" =>
       \E k \in DOMAIN m_out_records : m_out_records[k].id = i
  /\ writer = "idle" => m_out_records = <<>>
  /\ writer \in {"sending", "sent"} => m_out_records # <<>>
  /\ writer = "sending" => ~m_error

\* A begin of this id is under way to the reader, at place k or read already.
BeginAt(k, i) == wire[k].kind = "header" /\ wire[k].type = "begin" /\ wire[k].id = i
Begun(i)      == reader.pc = "begin" /\ reader.id = i
Begins(i)     == Begun(i) \/ \E k \in DOMAIN wire : BeginAt(k, i)

\* One begin of an id at a time is under way, and meets a request that has
\* written its last record, or none.
Fresh ==
  \A i \in Ids :
    /\ Begins(i) => /\ request[i].pc \in {"none", "skip", "done", "failed"}
                    /\ replies[i] = <<>> /\ phase[i] # "free"
    /\ \A j, k \in DOMAIN wire : BeginAt(j, i) /\ BeginAt(k, i) => j = k
    /\ Begun(i) => \A k \in DOMAIN wire : ~BeginAt(k, i)
    /\ phase[i] = "free" => request[i].pc = "none"

Outs(r)  == \A k \in DOMAIN r : r[k] = "stdout"
EndOf(r) == IF r = <<>> THEN "none" ELSE r[Len(r)]

\* The record of this request that the writer has just sent is not popped yet.
JustSent(i) == writer = "sent" /\ ~m_error /\ Head(m_out_records).id = i

\* How far an answer has come when its request is at pc, or will be.
Reached(r, pc) ==
  CASE pc = "endreq" -> EndOf(r) = "end"
    [] pc = "end" -> Outs(r) /\ r # <<>>
    [] pc \in {"none", "skip", "done", "failed"} -> TRUE
    [] OTHER -> Outs(r)

Answering ==
  /\ RepliesInOrder
  /\ \A i \in Ids : request[i].pc # "writing" => Reached(replies[i], request[i].pc)
  /\ \A k \in DOMAIN m_out_records :
       LET o == m_out_records[k]
           r == replies[o.id]
       IN  IF JustSent(o.id) THEN Reached(r, request[o.id].next)
           ELSE CASE o.type = "stdout" -> Outs(r)
                  [] o.type = "end"    -> Outs(r) /\ r # <<>>
                  [] o.type = "endreq" -> EndOf(r) = "end"

FcgiInv == TypeOK /\ Nested /\ Shared /\ Parsed /\ Queued /\ Fresh /\ Answering

-----------------------------------------------------------------------------
(* Types. *)

UnitTypes == [kind : {"header", "content", "padding"}, len : 0..MaxContent + 1,
              type : Types \union {"begin", "other"}, id : Ids]
ReaderTypes == [pc : {"header", "begin", "updating", "blocked", "padding", "ended"},
                id : Ids, type : Types \union {"begin"},
                len : 0..MaxContent + 1, io : {"none", "recv", "ready"}]
RequestTypes == [pc : RequestPcs, want : Nat, io : {"none", "recv", "ready"},
                 next : RequestPcs, headers : BOOLEAN, close_conn : BOOLEAN]
StreamTypes == [m_remaining : 0..MaxContent + 1, m_ended : BOOLEAN,
                m_producer : BOOLEAN, m_consumer : BOOLEAN]
OutTypes == [id : Ids, type : {"stdout", "end", "endreq"}]

\* The type invariant, a part for each of the groups that actions change.
WireOK ==
  /\ wire \in Seq(UnitTypes)
  /\ closed \in BOOLEAN /\ keep_conn \in BOOLEAN
  /\ phase \in [Ids -> {"free", "params", "stdin", "over"}]
  /\ budget \in [records : 0..MaxRecords, items : 0..MaxItems]
ReaderOK  == reader \in ReaderTypes
RequestOK == request \in [Ids -> RequestTypes]
StreamOK  == stream \in [Ids -> [Types -> StreamTypes]]
StackOK   == stack \in Seq(Ids \union {"reader", "writer"})
OutOK ==
  /\ m_out_records \in Seq(OutTypes)
  /\ writer \in {"idle", "running", "sending", "sent"}
  /\ replies \in [Ids -> Seq({"stdout", "end", "endreq"})]
  /\ m_error \in BOOLEAN /\ signalled \in BOOLEAN /\ gone \in BOOLEAN

LEMMA TypeSplit ==
  TypeOK <=> WireOK /\ ReaderOK /\ RequestOK /\ StreamOK /\ StackOK /\ OutOK
BY DEF TypeOK, WireOK, ReaderOK, RequestOK, StreamOK, StackOK, OutOK,
       UnitTypes, ReaderTypes, RequestTypes, StreamTypes, OutTypes

LEMMA RecordType ==
  ASSUME NEW type \in Types, NEW id \in Ids, NEW len \in 0..MaxContent
  PROVE  /\ Record(type, id, len) \in Seq(UnitTypes)
         /\ Len(Record(type, id, len)) = 1 + len + (len % 2)
         /\ Record(type, id, len)[1] = Unit("header", type, id, len)
         /\ \A k \in 2..(1 + len) :
              Record(type, id, len)[k] = Unit("content", type, id, 0)
         /\ \A k \in (2 + len)..(1 + len + (len % 2)) :
              Record(type, id, len)[k] = Unit("padding", type, id, 0)
<1> DEFINE h == <<Unit("header", type, id, len)>>
           c == [k \in 1..len |-> Unit("content", type, id, 0)]
           p == [k \in 1..(len % 2) |-> Unit("padding", type, id, 0)]
<1>1. len \in Nat /\ len % 2 \in 0..1 /\ 0 \in 0..MaxContent + 1 /\ len \in 0..MaxContent + 1
  BY FcgiAssumption
<1>2. /\ Unit("header", type, id, len) \in UnitTypes
      /\ Unit("content", type, id, 0) \in UnitTypes
      /\ Unit("padding", type, id, 0) \in UnitTypes
  BY <1>1 DEF Unit, UnitTypes
<1>3. /\ h \in Seq(UnitTypes) /\ Len(h) = 1 /\ h[1] = Unit("header", type, id, len)
      /\ c \in Seq(UnitTypes) /\ Len(c) = len /\ \A k \in 1..len : c[k] = Unit("content", type, id, 0)
      /\ p \in Seq(UnitTypes) /\ Len(p) = len % 2
      /\ \A k \in 1..(len % 2) : p[k] = Unit("padding", type, id, 0)
  BY <1>1, <1>2
<1>4. Record(type, id, len) = (h \o c) \o p
  BY DEF Record
<1> HIDE DEF h, c, p
<1>5. /\ h \o c \in Seq(UnitTypes) /\ Len(h \o c) = 1 + len
      /\ \A k \in 1..(1 + len) : (h \o c)[k] = IF k <= 1 THEN h[k] ELSE c[k - 1]
  <2>1. /\ h \o c \in Seq(UnitTypes) /\ Len(h \o c) = Len(h) + Len(c)
        /\ \A k \in 1..(Len(h) + Len(c)) :
             (h \o c)[k] = IF k <= Len(h) THEN h[k] ELSE c[k - Len(h)]
    BY <1>3, ConcatProperties
  <2> QED BY <1>3, <2>1
<1> DEFINE hc == h \o c
<1>6. /\ hc[1] = Unit("header", type, id, len)
      /\ \A k \in 2..(1 + len) : hc[k] = Unit("content", type, id, 0)
  BY <1>1, <1>3, <1>5
<1>7. hc \in Seq(UnitTypes) /\ Len(hc) = 1 + len
  BY <1>5
<1> HIDE DEF hc
<1>8. /\ hc \o p \in Seq(UnitTypes) /\ Len(hc \o p) = (1 + len) + (len % 2)
      /\ \A k \in 1..((1 + len) + (len % 2)) :
           (hc \o p)[k] = IF k <= 1 + len THEN hc[k] ELSE p[k - (1 + len)]
  BY <1>1, <1>3, <1>7, ConcatProperties
<1>9. Record(type, id, len) = hc \o p
  BY <1>4 DEF hc
<1>10. \A k \in (2 + len)..(1 + len + (len % 2)) : (hc \o p)[k] = Unit("padding", type, id, 0)
  BY <1>1, <1>3, <1>8
<1> QED BY <1>1, <1>6, <1>8, <1>9, <1>10

-----------------------------------------------------------------------------
(* The stack. *)

Callable == Ids \union {"reader", "writer"}

LEMMA Returns ==
  ASSUME StackOK, stack # <<>>, Return
  PROVE  /\ StackOK'
         /\ Len(stack) \in Nat /\ Len(stack) > 0 /\ Len(stack') = Len(stack) - 1
         /\ DOMAIN stack = 1..Len(stack) /\ DOMAIN stack' = 1..(Len(stack) - 1)
         /\ \A k \in 1..(Len(stack) - 1) : stack'[k] = stack[k + 1]
<1>1. stack \in Seq(Callable)
  BY DEF StackOK, Callable
<1>2. /\ Tail(stack) \in Seq(Callable) /\ Len(Tail(stack)) = Len(stack) - 1
      /\ \A k \in 1..Len(Tail(stack)) : Tail(stack)[k] = stack[k + 1]
      /\ Len(stack) \in Nat /\ Len(stack) # 0
  BY <1>1, HeadTailProperties, EmptySeq, LenProperties
<1> QED BY <1>1, <1>2, LenProperties DEF Return, StackOK, Callable

LEMMA Calls ==
  ASSUME StackOK, NEW c \in Callable, Call(c)
  PROVE  /\ StackOK'
         /\ Len(stack) \in Nat /\ Len(stack') = Len(stack) + 1
         /\ DOMAIN stack = 1..Len(stack) /\ DOMAIN stack' = 1..(Len(stack) + 1)
         /\ stack'[1] = c /\ \A k \in 1..Len(stack) : stack'[k + 1] = stack[k]
<1>1. stack \in Seq(Callable) /\ <<c>> \in Seq(Callable) /\ Len(<<c>>) = 1 /\ <<c>>[1] = c
  BY DEF StackOK, Callable
<1>2. stack' = <<c>> \o stack
  BY DEF Call
<1>3. /\ stack' \in Seq(Callable) /\ Len(stack') = 1 + Len(stack)
      /\ \A k \in 1..(1 + Len(stack)) : stack'[k] = IF k <= 1 THEN <<c>>[k] ELSE stack[k - 1]
  BY <1>1, <1>2, ConcatProperties
<1>4. Len(stack) \in Nat /\ DOMAIN stack = 1..Len(stack) /\ DOMAIN stack' = 1..Len(stack')
  BY <1>1, <1>3, LenProperties
<1>5. stack'[1] = c
  BY <1>1, <1>3, <1>4
<1>6. \A k \in 1..Len(stack) : stack'[k + 1] = stack[k]
  BY <1>3, <1>4
<1> QED BY <1>3, <1>4, <1>5, <1>6 DEF StackOK, Callable

LEMMA Transfers ==
  ASSUME StackOK, stack # <<>>, NEW c \in Callable, Transfer(c)
  PROVE  /\ StackOK'
         /\ Len(stack) \in Nat /\ Len(stack) > 0 /\ Len(stack') = Len(stack)
         /\ DOMAIN stack = 1..Len(stack) /\ DOMAIN stack' = 1..Len(stack)
         /\ stack'[1] = c /\ \A k \in 2..Len(stack) : stack'[k] = stack[k]
<1>1. stack \in Seq(Callable) /\ <<c>> \in Seq(Callable) /\ Len(<<c>>) = 1 /\ <<c>>[1] = c
  BY DEF StackOK, Callable
<1>2. /\ Tail(stack) \in Seq(Callable) /\ Len(Tail(stack)) = Len(stack) - 1
      /\ \A k \in 1..Len(Tail(stack)) : Tail(stack)[k] = stack[k + 1]
      /\ Len(stack) \in Nat /\ Len(stack) # 0
  BY <1>1, HeadTailProperties, EmptySeq, LenProperties
<1> DEFINE t == Tail(stack)
<1>3. stack' = <<c>> \o t
  BY DEF Transfer
<1>4. t \in Seq(Callable) /\ Len(t) = Len(stack) - 1
  BY <1>2
<1>5. \A k \in 1..Len(t) : t[k] = stack[k + 1]
  BY <1>2
<1> HIDE DEF t
<1>6. /\ stack' \in Seq(Callable) /\ Len(stack') = 1 + Len(t)
      /\ \A k \in 1..(1 + Len(t)) : stack'[k] = IF k <= 1 THEN <<c>>[k] ELSE t[k - 1]
  BY <1>1, <1>3, <1>4, ConcatProperties
<1>7. DOMAIN stack = 1..Len(stack) /\ DOMAIN stack' = 1..Len(stack') /\ Len(stack') = Len(stack)
  BY <1>1, <1>2, <1>4, <1>6, LenProperties
<1>8. stack'[1] = c
  BY <1>1, <1>2, <1>4, <1>6
<1>9. \A k \in 2..Len(stack) : stack'[k] = stack[k]
  BY <1>2, <1>4, <1>5, <1>6
<1>10. StackOK'
  BY <1>6 DEF StackOK, Callable
<1>11. Len(stack) \in Nat /\ Len(stack) > 0
  BY <1>2
<1> QED BY <1>7, <1>8, <1>9, <1>10, <1>11

\* The coroutine that runs is the first of the stack.
LEMMA RunsFirst ==
  ASSUME StackOK, NEW c, Running(c)
  PROVE  /\ stack # <<>> /\ Len(stack) \in Nat /\ Len(stack) > 0
         /\ DOMAIN stack = 1..Len(stack) /\ 1 \in DOMAIN stack /\ stack[1] = c
<1>1. stack \in Seq(Callable) /\ stack # <<>> /\ Head(stack) = c
  BY DEF StackOK, Callable, Running
<1>2. Len(stack) \in Nat /\ Len(stack) # 0 /\ DOMAIN stack = 1..Len(stack)
  BY <1>1, EmptySeq, LenProperties
<1> QED BY <1>1, <1>2

-----------------------------------------------------------------------------
(* The wire. *)

LEMMA WireIs ==
  ASSUME WireOK
  PROVE  /\ Len(wire) \in Nat /\ DOMAIN wire = 1..Len(wire)
         /\ \A k \in DOMAIN wire : wire[k] \in UnitTypes
BY LenProperties, ElementOfSeq DEF WireOK

LEMMA Takes ==
  ASSUME WireOK, NEW n \in Nat, n <= Len(wire), Take(n)
  PROVE  /\ wire' \in Seq(UnitTypes)
         /\ Len(wire) \in Nat /\ Len(wire') = Len(wire) - n
         /\ DOMAIN wire = 1..Len(wire) /\ DOMAIN wire' = 1..(Len(wire) - n)
         /\ \A k \in 1..(Len(wire) - n) : wire'[k] = wire[k + n]
<1>1. Len(wire) \in Nat /\ DOMAIN wire = 1..Len(wire) /\ \A k \in DOMAIN wire : wire[k] \in UnitTypes
  BY WireIs
<1> DEFINE m == n + 1
           l == Len(wire)
<1>2. m \in Int /\ l \in Int /\ \A k \in m..l : wire[k] \in UnitTypes
  BY <1>1
<1>3. wire' = SubSeq(wire, m, l) /\ m = n + 1 /\ l = Len(wire)
  BY DEF Take
<1> HIDE DEF m, l
<1>4. /\ wire' \in Seq(UnitTypes) /\ Len(wire') = IF m <= l THEN l - m + 1 ELSE 0
      /\ \A k \in 1..(l - m + 1) : wire'[k] = wire[m + k - 1]
  BY <1>2, <1>3, SubSeqProperties
<1>5. Len(wire') = Len(wire) - n
  <2>1. CASE m <= l
    BY <1>1, <1>3, <1>4, <2>1
  <2>2. CASE ~(m <= l)
    <3>1. Len(wire') = 0
      BY <1>4, <2>2
    <3>2. n = Len(wire)
      <4>1. ~(n + 1 <= Len(wire))
        BY <1>3, <2>2
      <4>2. Len(wire) \in Nat
        BY <1>1
      <4> QED BY <4>1, <4>2
    <3> QED BY <1>1, <3>1, <3>2
  <2> QED BY <2>1, <2>2
<1>6. \A k \in 1..(Len(wire) - n) : wire'[k] = wire[k + n]
  <2> SUFFICES ASSUME NEW k \in 1..(Len(wire) - n) PROVE wire'[k] = wire[k + n]
    OBVIOUS
  <2>1. k \in 1..(l - m + 1) /\ m + k - 1 = k + n
    BY <1>1, <1>3
  <2> QED BY <1>4, <2>1
<1> QED BY <1>1, <1>4, <1>5, <1>6, LenProperties

LEMMA Cuts ==
  ASSUME WireOK, NEW n \in 0..Len(wire), wire' = SubSeq(wire, 1, n)
  PROVE  /\ wire' \in Seq(UnitTypes)
         /\ Len(wire) \in Nat /\ Len(wire') = n
         /\ DOMAIN wire = 1..Len(wire) /\ DOMAIN wire' = 1..n
         /\ \A k \in 1..n : wire'[k] = wire[k]
<1>1. Len(wire) \in Nat /\ DOMAIN wire = 1..Len(wire) /\ \A k \in DOMAIN wire : wire[k] \in UnitTypes
  BY WireIs
<1>2. n \in Int /\ 1 \in Int /\ \A k \in 1..n : wire[k] \in UnitTypes
  BY <1>1
<1>3. /\ wire' \in Seq(UnitTypes) /\ Len(wire') = IF 1 <= n THEN n - 1 + 1 ELSE 0
      /\ \A k \in 1..(n - 1 + 1) : wire'[k] = wire[1 + k - 1]
  BY <1>2, SubSeqProperties
<1>4. Len(wire') = n /\ \A k \in 1..n : wire'[k] = wire[k]
  BY <1>1, <1>3
<1> QED BY <1>1, <1>3, <1>4, LenProperties

LEMMA Joins ==
  ASSUME WireOK, NEW r \in Seq(UnitTypes), wire' = wire \o r
  PROVE  /\ wire' \in Seq(UnitTypes)
         /\ Len(wire) \in Nat /\ Len(r) \in Nat /\ Len(wire') = Len(wire) + Len(r)
         /\ DOMAIN wire = 1..Len(wire) /\ DOMAIN wire' = 1..(Len(wire) + Len(r))
         /\ \A k \in 1..Len(wire) : wire'[k] = wire[k]
         /\ \A k \in 1..Len(r) : wire'[k + Len(wire)] = r[k]
<1>1. wire \in Seq(UnitTypes)
  BY DEF WireOK
<1>2. Len(wire) \in Nat /\ DOMAIN wire = 1..Len(wire) /\ Len(r) \in Nat
  BY <1>1, LenProperties
<1>3. /\ wire' \in Seq(UnitTypes) /\ Len(wire') = Len(wire) + Len(r)
      /\ \A k \in 1..(Len(wire) + Len(r)) :
           wire'[k] = IF k <= Len(wire) THEN wire[k] ELSE r[k - Len(wire)]
  BY <1>1, ConcatProperties
<1>4. /\ \A k \in 1..Len(wire) : wire'[k] = wire[k]
      /\ \A k \in 1..Len(r) : wire'[k + Len(wire)] = r[k]
  BY <1>2, <1>3
<1> QED BY <1>2, <1>3, <1>4, LenProperties

\* A begin record.
BeginRecord(i) == <<Unit("header", "begin", i, 1), Unit("content", "begin", i, 0)>>

LEMMA BeginRecordType ==
  ASSUME NEW i \in Ids
  PROVE  /\ BeginRecord(i) \in Seq(UnitTypes) /\ Len(BeginRecord(i)) = 2
         /\ BeginRecord(i)[1] = Unit("header", "begin", i, 1)
         /\ BeginRecord(i)[2] = Unit("content", "begin", i, 0)
<1>1. Unit("header", "begin", i, 1) \in UnitTypes /\ Unit("content", "begin", i, 0) \in UnitTypes
  BY FcgiAssumption DEF Unit, UnitTypes
<1> QED BY <1>1 DEF BeginRecord

\* A record of a type that read_req does not know.
SomeId         == CHOOSE i \in Ids : TRUE
OtherRecord(i) == Record("other", i, 0)

LEMMA OtherRecordType ==
  ASSUME NEW i \in Ids
  PROVE  /\ OtherRecord(i) \in Seq(UnitTypes) /\ Len(OtherRecord(i)) = 1
         /\ OtherRecord(i)[1] = Unit("header", "other", i, 0)
<1>1. Unit("header", "other", i, 0) \in UnitTypes
  BY FcgiAssumption DEF Unit, UnitTypes
<1> DEFINE h == <<Unit("header", "other", i, 0)>>
           e == [k \in 1..0 |-> Unit("content", "other", i, 0)]
           p == [k \in 1..(0 % 2) |-> Unit("padding", "other", i, 0)]
<1>2. e \in Seq(UnitTypes) /\ Len(e) = 0 /\ p \in Seq(UnitTypes) /\ Len(p) = 0
  OBVIOUS
<1>3. h \in Seq(UnitTypes) /\ Len(h) = 1 /\ h[1] = Unit("header", "other", i, 0)
  BY <1>1
<1>4. OtherRecord(i) = (h \o e) \o p
  BY DEF OtherRecord, Record
<1> HIDE DEF h, e, p
<1>5. e = <<>> /\ p = <<>>
  BY <1>2, EmptySeq
<1>6. OtherRecord(i) = h
  BY <1>3, <1>4, <1>5, ConcatEmptySeq
<1> QED BY <1>3, <1>6

LEMMA SomeIdIs == SomeId \in Ids
BY FcgiAssumption DEF SomeId

-----------------------------------------------------------------------------
(* Types, step by step. *)

LEMMA TypeInit == Init => TypeOK
<1> SUFFICES ASSUME Init PROVE TypeOK
  OBVIOUS
<1>1. WireOK
  <2>1. wire \in Seq(UnitTypes)
    BY DEF Init
  <2>2. budget \in [records : 0..MaxRecords, items : 0..MaxItems]
    BY FcgiAssumption DEF Init
  <2>3. phase \in [Ids -> {"free", "params", "stdin", "over"}]
    BY DEF Init
  <2> QED BY <2>1, <2>2, <2>3 DEF Init, WireOK
<1>2. ReaderOK
  <2>1. reader = [pc |-> "header", id |-> SomeId, type |-> "begin", len |-> 0, io |-> "recv"]
    BY DEF Init, NewReader, SomeId
  <2> QED BY <2>1, SomeIdIs, FcgiAssumption DEF ReaderOK, ReaderTypes
<1>3. RequestOK
  BY DEF Init, RequestOK, RequestTypes, NewRequest, RequestPcs
<1>4. StreamOK
  BY FcgiAssumption DEF Init, StreamOK, StreamTypes, NewStream
<1>5. StackOK /\ OutOK
  <2>1. stack \in Seq(Callable) /\ m_out_records \in Seq(OutTypes)
    BY DEF Init
  <2>2. replies \in [Ids -> Seq({"stdout", "end", "endreq"})]
    BY DEF Init
  <2> QED BY <2>1, <2>2 DEF Init, StackOK, OutOK, Callable
<1> QED BY <1>1, <1>2, <1>3, <1>4, <1>5, TypeSplit

\* What the web server does leaves the rest alone.
ServerFrame == UNCHANGED <<stack, reader, request, stream, m_out_records, writer, m_error, endVars>>

\* What a send does to the wire.
LEMMA Sends ==
  ASSUME WireOK, NEW r \in Seq(UnitTypes), Send(r)
  PROVE  /\ wire' \in Seq(UnitTypes) /\ wire' = wire \o r /\ stack = <<>> /\ ~closed
         /\ Len(wire) \in Nat /\ Len(r) \in Nat /\ Len(wire') = Len(wire) + Len(r)
         /\ DOMAIN wire = 1..Len(wire) /\ DOMAIN wire' = 1..(Len(wire) + Len(r))
         /\ \A k \in 1..Len(wire) : wire'[k] = wire[k]
         /\ \A k \in 1..Len(r) : wire'[k + Len(wire)] = r[k]
         /\ budget' \in [records : 0..MaxRecords, items : 0..MaxItems]
         /\ UNCHANGED <<closed, keep_conn>> /\ ServerFrame
<1>1. budget' \in [records : 0..MaxRecords, items : 0..MaxItems]
  BY FcgiAssumption DEF Send, WireOK
<1>2. wire' = wire \o r
  BY DEF Send
<1> QED BY <1>1, <1>2, Joins DEF Send, ServerFrame

LEMMA WebServerType == TypeOK /\ WebServer => WireOK' /\ OutOK' /\ UNCHANGED <<reader, request, stream, stack>>
<1> SUFFICES ASSUME TypeOK, WebServer
             PROVE  WireOK' /\ OutOK' /\ UNCHANGED <<reader, request, stream, stack>>
  OBVIOUS
<1>1. WireOK /\ OutOK
  BY TypeSplit
<1>2. ASSUME NEW i \in Ids, SendBegin(i)
      PROVE  WireOK' /\ OutOK' /\ UNCHANGED <<reader, request, stream, stack>>
  <2>1. Send(BeginRecord(i))
    BY <1>2 DEF SendBegin, BeginRecord
  <2>2. /\ wire' \in Seq(UnitTypes) /\ ServerFrame /\ UNCHANGED <<closed, keep_conn>>
        /\ budget' \in [records : 0..MaxRecords, items : 0..MaxItems]
    BY <1>1, <2>1, BeginRecordType, Sends
  <2>3. WireOK'
    BY <1>1, <1>2, <2>2 DEF WireOK, SendBegin
  <2>4. OutOK'
    BY <1>1, <1>2, <2>2 DEF OutOK, SendBegin, ServerFrame, endVars
  <2> QED BY <2>2, <2>3, <2>4 DEF ServerFrame
<1>3. ASSUME NEW i \in Ids, NEW type \in Types, NEW len \in 0..MaxContent, SendContent(i, type, len)
      PROVE  WireOK' /\ OutOK' /\ UNCHANGED <<reader, request, stream, stack>>
  <2>1. Send(Record(type, i, len))
    BY <1>3 DEF SendContent
  <2>2. /\ wire' \in Seq(UnitTypes) /\ ServerFrame /\ UNCHANGED <<closed, keep_conn>>
        /\ budget' \in [records : 0..MaxRecords, items : 0..MaxItems]
    BY <1>1, <2>1, RecordType, Sends
  <2>3. WireOK'
    BY <1>1, <1>3, <2>2 DEF WireOK, SendContent
  <2>4. OutOK'
    BY <1>1, <1>3, <2>2 DEF OutOK, SendContent, ServerFrame, endVars
  <2> QED BY <2>2, <2>3, <2>4 DEF ServerFrame
<1>4. ASSUME SendOther
      PROVE  WireOK' /\ OutOK' /\ UNCHANGED <<reader, request, stream, stack>>
  <2>1. Send(OtherRecord(SomeId))
    BY <1>4 DEF SendOther, OtherRecord, SomeId
  <2>2. OtherRecord(SomeId) \in Seq(UnitTypes)
    BY SomeIdIs, OtherRecordType
  <2>3. /\ wire' \in Seq(UnitTypes) /\ ServerFrame /\ UNCHANGED <<closed, keep_conn>>
        /\ budget' \in [records : 0..MaxRecords, items : 0..MaxItems]
    BY <1>1, <2>1, <2>2, Sends
  <2> QED BY <1>1, <1>4, <2>3 DEF WireOK, OutOK, SendOther, ServerFrame, endVars
<1>5. ASSUME Close
      PROVE  WireOK' /\ OutOK' /\ UNCHANGED <<reader, request, stream, stack>>
  <2>1. PICK n \in 0..Len(wire) : wire' = SubSeq(wire, 1, n)
    BY <1>5 DEF Close
  <2>2. wire' \in Seq(UnitTypes)
    BY <1>1, <2>1, Cuts
  <2> QED BY <1>1, <1>5, <2>2 DEF WireOK, OutOK, Close, outVars, endVars
<1> QED BY <1>2, <1>3, <1>4, <1>5 DEF WebServer

\* Parts of the wire that read_req and requests never change.
LEMMA WireStays ==
  ASSUME WireOK, wire' \in Seq(UnitTypes), UNCHANGED <<closed, phase, budget, keep_conn>>
  PROVE  WireOK'
BY DEF WireOK

LEMMA SameWire == WireOK /\ UNCHANGED connVars => WireOK'
BY DEF WireOK, connVars

LEMMA SameOut == OutOK /\ UNCHANGED <<outVars, endVars>> => OutOK'
BY DEF OutOK, outVars, endVars

\* The first unit of the wire.
LEMMA FirstUnit ==
  ASSUME WireOK, Len(wire) >= 1
  PROVE  /\ 1 \in DOMAIN wire /\ 1 <= Len(wire) /\ wire[1] \in UnitTypes /\ wire[1].id \in Ids
         /\ wire[1].len \in 0..MaxContent + 1 /\ wire[1].type \in Types \union {"begin", "other"}
<1>1. Len(wire) \in Nat /\ DOMAIN wire = 1..Len(wire) /\ \A k \in DOMAIN wire : wire[k] \in UnitTypes
  BY WireIs
<1>2. 1 \in DOMAIN wire
  BY <1>1
<1> QED BY <1>1, <1>2 DEF UnitTypes

LEMMA ReaderNeedsIs == ReaderOK => ReaderNeeds \in 0..1
<1> SUFFICES ASSUME ReaderOK PROVE ReaderNeeds \in 0..1
  OBVIOUS
<1>1. reader.len \in Nat
  BY FcgiAssumption DEF ReaderOK, ReaderTypes
<1> QED BY <1>1 DEF ReaderNeeds

LEMMA EndReadingType ==
  ASSUME ReaderOK, StackOK, OutOK, Running("reader"), EndReading
  PROVE  ReaderOK' /\ StackOK' /\ OutOK' /\ UNCHANGED <<request, stream>>
<1>1. ReaderOK'
  BY DEF EndReading, ReaderOK, ReaderTypes
<1>2. StackOK'
  BY RunsFirst, Returns DEF EndReading
<1>3. OutOK'
  BY DEF EndReading, OutOK, outVars
<1> QED BY <1>1, <1>2, <1>3 DEF EndReading

\* The parts together, and those that a step leaves alone.
LEMMA TypeJoin ==
  ASSUME WireOK', ReaderOK', RequestOK', StreamOK', StackOK', OutOK'
  PROVE  TypeOK'
BY DEF TypeOK, WireOK, ReaderOK, RequestOK, StreamOK, StackOK, OutOK,
       UnitTypes, ReaderTypes, RequestTypes, StreamTypes, OutTypes

LEMMA SameParts ==
  /\ RequestOK /\ UNCHANGED request => RequestOK'
  /\ StreamOK /\ UNCHANGED stream => StreamOK'
  /\ StackOK /\ UNCHANGED stack => StackOK'
  /\ ReaderOK /\ UNCHANGED reader => ReaderOK'
BY DEF RequestOK, StreamOK, StackOK, ReaderOK

\* A change of one stream, and of one request.
LEMMA StreamType ==
  ASSUME StreamOK, NEW i \in Ids, NEW t \in Types, NEW s \in StreamTypes,
         stream' = [stream EXCEPT ![i][t] = s]
  PROVE  StreamOK'
BY DEF StreamOK

LEMMA StreamRecord ==
  ASSUME NEW n \in 0..MaxContent + 1, NEW e \in BOOLEAN, NEW p \in BOOLEAN, NEW c \in BOOLEAN
  PROVE  [m_remaining |-> n, m_ended |-> e, m_producer |-> p, m_consumer |-> c] \in StreamTypes
BY DEF StreamTypes

LEMMA StreamIs ==
  ASSUME StreamOK, NEW i \in Ids, NEW t \in Types
  PROVE  /\ stream[i][t] \in StreamTypes
         /\ stream[i][t].m_remaining \in 0..MaxContent + 1 /\ stream[i][t].m_ended \in BOOLEAN
         /\ stream[i][t].m_producer \in BOOLEAN /\ stream[i][t].m_consumer \in BOOLEAN
BY DEF StreamOK, StreamTypes

LEMMA RequestIs ==
  ASSUME RequestOK, NEW i \in Ids
  PROVE  /\ request[i] \in RequestTypes
         /\ request[i].pc \in RequestPcs /\ request[i].want \in Nat
         /\ request[i].io \in {"none", "recv", "ready"} /\ request[i].next \in RequestPcs
BY DEF RequestOK, RequestTypes

LEMMA SomeLengths == 0 \in 0..MaxContent + 1 /\ 1 \in 0..MaxContent + 1
BY FcgiAssumption

LEMMA SuspendType ==
  ASSUME TypeOK, ReaderSuspend \/ ReaderRecv \/ ReaderCut
  PROVE  TypeOK'
<1>0. WireOK /\ ReaderOK /\ RequestOK /\ StreamOK /\ StackOK /\ OutOK
  BY TypeSplit
<1>1. RequestOK' /\ StreamOK'
  BY <1>0, SameParts DEF ReaderSuspend, ReaderRecv, ReaderCut, EndReading
<1>2. WireOK'
  BY <1>0, SameWire DEF ReaderSuspend, ReaderRecv, ReaderCut
<1>3. CASE ReaderSuspend
  <2>1. ReaderOK'
    BY <1>0, <1>3 DEF ReaderSuspend, ReaderOK, ReaderTypes
  <2>2. StackOK'
    BY <1>0, <1>3, RunsFirst, Returns DEF ReaderSuspend
  <2>3. OutOK'
    BY <1>0, <1>3, SameOut DEF ReaderSuspend
  <2> QED BY <1>1, <1>2, <2>1, <2>2, <2>3, TypeJoin
<1>4. CASE ReaderRecv
  <2>1. ReaderOK'
    BY <1>0, <1>4 DEF ReaderRecv, ReaderOK, ReaderTypes
  <2>2. StackOK'
    BY <1>0, <1>4, Calls DEF ReaderRecv, Callable
  <2>3. OutOK'
    BY <1>0, <1>4, SameOut DEF ReaderRecv
  <2> QED BY <1>1, <1>2, <2>1, <2>2, <2>3, TypeJoin
<1>5. CASE ReaderCut
  <2>1. ReaderOK' /\ StackOK' /\ OutOK'
    BY <1>0, <1>5, EndReadingType DEF ReaderCut
  <2> QED BY <1>1, <1>2, <2>1, TypeJoin
<1> QED BY <1>3, <1>4, <1>5

LEMMA HeaderType ==
  ASSUME TypeOK, ReadBegin \/ ReadUnknown \/ BeginRequest \/ Update
  PROVE  TypeOK'
<1>0. WireOK /\ ReaderOK /\ RequestOK /\ StreamOK /\ StackOK /\ OutOK
  BY TypeSplit
<1>1. Len(wire) >= 1 /\ Take(1) /\ UNCHANGED <<closed, phase, budget, keep_conn>>
  BY DEF ReadBegin, ReadUnknown, BeginRequest, Update, ReaderHas
<1>2. WireOK'
  BY <1>0, <1>1, FirstUnit, Takes, WireStays
<1>3. /\ wire[1].id \in Ids /\ wire[1].len \in 0..MaxContent + 1
      /\ wire[1].type \in Types \union {"begin", "other"}
  BY <1>0, <1>1, FirstUnit
<1>4. CASE ReadBegin
  <2>1. ReaderOK'
    <3>1. reader' = [pc |-> "begin", id |-> wire[1].id, type |-> "begin", len |-> 0, io |-> "none"]
      BY <1>0, <1>4 DEF ReadBegin, ReaderOK, ReaderTypes
    <3> QED BY <1>3, <3>1, SomeLengths DEF ReaderOK, ReaderTypes
  <2>2. OutOK'
    BY <1>0, <1>4, SameOut DEF ReadBegin
  <2>3. RequestOK' /\ StreamOK' /\ StackOK'
    BY <1>0, <1>4, SameParts DEF ReadBegin
  <2> QED BY <1>2, <2>1, <2>2, <2>3, TypeJoin
<1>5. CASE ReadUnknown
  <2>1. ReaderOK' /\ StackOK' /\ OutOK' /\ UNCHANGED <<request, stream>>
    BY <1>0, <1>5, EndReadingType DEF ReadUnknown, ReaderAt
  <2>2. RequestOK' /\ StreamOK'
    BY <1>0, <2>1, SameParts
  <2> QED BY <1>2, <2>1, <2>2, TypeJoin
<1>6. CASE BeginRequest
  <2>1. ReaderOK'
    BY <1>0, <1>6 DEF BeginRequest, ReaderOK, ReaderTypes
  <2>2. OutOK' /\ StackOK'
    BY <1>0, <1>6, SameOut, SameParts DEF BeginRequest
  <2>3. RequestOK'
    <3>1. [NewRequest EXCEPT !.pc = "params", !.close_conn = ~keep_conn] \in RequestTypes
      BY <1>0 DEF NewRequest, RequestTypes, RequestPcs, WireOK
    <3> QED BY <1>0, <1>6, <3>1 DEF BeginRequest, RequestOK
  <2>4. StreamOK'
    <3>1. \A t \in Types : [NewStream EXCEPT !.m_consumer = (t = "params")] \in StreamTypes
      BY SomeLengths DEF NewStream, StreamTypes
    <3>2. [t \in Types |-> [NewStream EXCEPT !.m_consumer = (t = "params")]] \in [Types -> StreamTypes]
      BY <3>1
    <3> QED BY <1>0, <1>6, <3>2 DEF BeginRequest, StreamOK
  <2> QED BY <1>2, <2>1, <2>2, <2>3, <2>4, TypeJoin
<1>7. CASE Update
  <2>1. wire[1].type \in Types
    BY <1>7 DEF Update
  <2>2. ReaderOK'
    <3>1. reader' = [pc |-> "updating", id |-> wire[1].id, type |-> wire[1].type,
                     len |-> wire[1].len, io |-> "none"]
      BY <1>0, <1>7 DEF Update, ReaderOK, ReaderTypes
    <3> QED BY <1>3, <2>1, <3>1 DEF ReaderOK, ReaderTypes
  <2>3. OutOK' /\ RequestOK'
    BY <1>0, <1>7, SameOut, SameParts DEF Update
  <2>4. StackOK'
    <3>1. CASE Call(wire[1].id)
      BY <1>0, <1>3, <3>1, Calls DEF Callable
    <3>2. CASE UNCHANGED stack
      BY <1>0, <3>2, SameParts
    <3> QED BY <1>7, <3>1, <3>2 DEF Update
  <2>5. StreamOK'
    <3> DEFINE s == stream[wire[1].id][wire[1].type]
               u == [s EXCEPT !.m_ended = (wire[1].len = 0), !.m_remaining = wire[1].len,
                              !.m_consumer = FALSE]
    <3>1. s \in StreamTypes
      BY <1>0, <1>3, <2>1, StreamIs
    <3>2. stream' = [stream EXCEPT ![wire[1].id][wire[1].type] = u]
      BY <1>7 DEF Update
    <3> HIDE DEF s
    <3>3. u \in StreamTypes
      BY <1>3, <3>1 DEF StreamTypes
    <3> HIDE DEF u
    <3> QED BY <1>0, <1>3, <2>1, <3>2, <3>3, StreamType
  <2> QED BY <1>2, <2>2, <2>3, <2>4, <2>5, TypeJoin
<1> QED BY <1>4, <1>5, <1>6, <1>7

LEMMA UpdatedType ==
  ASSUME TypeOK, Updated, reader.type \in Types
  PROVE  TypeOK'
<1>0. WireOK /\ ReaderOK /\ RequestOK /\ StreamOK /\ StackOK /\ OutOK
  BY TypeSplit
<1>1. ReaderOK'
  BY <1>0 DEF Updated, ReaderOK, ReaderTypes
<1>2. WireOK' /\ OutOK' /\ RequestOK'
  BY <1>0, SameWire, SameOut, SameParts DEF Updated
<1>3. CASE UNCHANGED <<stack, stream>>
  BY <1>0, <1>1, <1>2, <1>3, SameParts, TypeJoin
<1>4. CASE /\ stream' = [stream EXCEPT ![reader.id][reader.type].m_producer = TRUE]
           /\ Return
  <2> DEFINE s == stream[reader.id][reader.type]
             u == [s EXCEPT !.m_producer = TRUE]
  <2>1. StackOK'
    BY <1>0, <1>4, RunsFirst, Returns DEF Updated, ReaderAt
  <2>2. reader.id \in Ids
    BY <1>0 DEF ReaderOK, ReaderTypes
  <2>3. s \in StreamTypes
    BY <1>0, <2>2, StreamIs
  <2>4. stream' = [stream EXCEPT ![reader.id][reader.type] = u]
    BY <1>4
  <2> HIDE DEF s
  <2>5. u \in StreamTypes
    BY <2>3 DEF StreamTypes
  <2> HIDE DEF u
  <2>6. StreamOK'
    BY <1>0, <2>2, <2>4, <2>5, StreamType
  <2> QED BY <1>1, <1>2, <2>1, <2>6, TypeJoin
<1> QED BY <1>3, <1>4 DEF Updated

LEMMA PaddingType ==
  ASSUME TypeOK, ReadPadding
  PROVE  TypeOK'
<1>0. WireOK /\ ReaderOK /\ RequestOK /\ StreamOK /\ StackOK /\ OutOK
  BY TypeSplit
<1>1. ReaderNeeds \in Nat /\ Len(wire) >= ReaderNeeds /\ Take(ReaderNeeds)
  BY <1>0, ReaderNeedsIs DEF ReadPadding, ReaderHas
<1>2. ReaderNeeds <= Len(wire)
  BY <1>0, <1>1, WireIs
<1>3. wire' \in Seq(UnitTypes)
  BY <1>0, <1>1, <1>2, Takes
<1>4. WireOK'
  BY <1>0, <1>3, WireStays DEF ReadPadding
<1>5. ReaderOK'
  BY <1>0 DEF ReadPadding, ReaderOK, ReaderTypes
<1>6. OutOK' /\ RequestOK' /\ StreamOK' /\ StackOK'
  BY <1>0, SameOut, SameParts DEF ReadPadding
<1> QED BY <1>4, <1>5, <1>6, TypeJoin

-----------------------------------------------------------------------------
(* What a request's step does to it. *)

\* Request i is r now, and the others are as they were.
LEMMA OneRequest ==
  ASSUME RequestOK, NEW i \in Ids, NEW r \in RequestTypes, request' = [request EXCEPT ![i] = r]
  PROVE  RequestOK' /\ request'[i] = r /\ \A j \in Ids : j # i => request'[j] = request[j]
BY DEF RequestOK

\* Fields of request i; the others, and other requests, stay.
Changed(i, pc, want, io, next) ==
  /\ RequestOK'
  /\ request'[i].pc = pc /\ request'[i].want = want
  /\ request'[i].io = io /\ request'[i].next = next
  /\ \A j \in Ids : j # i => request'[j] = request[j]

LEMMA GoIs ==
  ASSUME RequestOK, NEW i \in Ids, NEW pc \in RequestPcs, Go(i, pc)
  PROVE  Changed(i, pc, request[i].want, request[i].io, request[i].next)
<1> DEFINE r == [request[i] EXCEPT !.pc = pc]
<1>1. request[i] \in RequestTypes
  BY DEF RequestOK
<1>2. /\ r \in RequestTypes /\ r.pc = pc /\ r.want = request[i].want
      /\ r.io = request[i].io /\ r.next = request[i].next
  BY <1>1 DEF RequestTypes
<1>3. request' = [request EXCEPT ![i] = r]
  BY DEF Go
<1> HIDE DEF r
<1> QED BY <1>2, <1>3, OneRequest DEF Changed

LEMMA GoForIs ==
  ASSUME RequestOK, NEW i \in Ids, NEW pc \in RequestPcs, NEW n \in Nat, GoFor(i, pc, n)
  PROVE  Changed(i, pc, n, request[i].io, request[i].next)
<1> DEFINE r == [request[i] EXCEPT !.pc = pc, !.want = n]
<1>1. request[i] \in RequestTypes
  BY DEF RequestOK
<1>2. /\ r \in RequestTypes /\ r.pc = pc /\ r.want = n
      /\ r.io = request[i].io /\ r.next = request[i].next
  BY <1>1 DEF RequestTypes
<1>3. request' = [request EXCEPT ![i] = r]
  BY <1>1 DEF GoFor, RequestOK
<1> HIDE DEF r
<1> QED BY <1>2, <1>3, OneRequest DEF Changed

LEMMA FailIs ==
  ASSUME RequestOK, NEW i \in Ids, Fail(i)
  PROVE  Changed(i, "failed", request[i].want, "none", request[i].next)
<1> DEFINE r == [request[i] EXCEPT !.pc = "failed", !.io = "none"]
<1>1. request[i] \in RequestTypes
  BY DEF RequestOK
<1>2. /\ r \in RequestTypes /\ r.pc = "failed" /\ r.want = request[i].want
      /\ r.io = "none" /\ r.next = request[i].next
  BY <1>1 DEF RequestTypes, RequestPcs
<1>3. request' = [request EXCEPT ![i] = r]
  BY <1>1 DEF Fail, RequestOK
<1> HIDE DEF r
<1> QED BY <1>2, <1>3, OneRequest DEF Changed

LEMMA IoIs ==
  ASSUME RequestOK, NEW i \in Ids, NEW io \in {"none", "recv", "ready"},
         request' = [request EXCEPT ![i].io = io]
  PROVE  Changed(i, request[i].pc, request[i].want, io, request[i].next)
<1> DEFINE r == [request[i] EXCEPT !.io = io]
<1>1. request[i] \in RequestTypes
  BY DEF RequestOK
<1>2. /\ r \in RequestTypes /\ r.pc = request[i].pc /\ r.want = request[i].want
      /\ r.io = io /\ r.next = request[i].next
  BY <1>1 DEF RequestTypes
<1>3. request' = [request EXCEPT ![i] = r]
  OBVIOUS
<1> HIDE DEF r
<1> QED BY <1>2, <1>3, OneRequest DEF Changed

\* After a header has been read there are headers.
LEMMA ValueIs ==
  ASSUME RequestOK, NEW i \in Ids,
         request' = [request EXCEPT ![i].pc = "params", ![i].headers = TRUE]
  PROVE  Changed(i, "params", request[i].want, request[i].io, request[i].next)
<1> DEFINE r == [request[i] EXCEPT !.pc = "params", !.headers = TRUE]
<1>1. request[i] \in RequestTypes
  BY DEF RequestOK
<1>2. /\ r \in RequestTypes /\ r.pc = "params" /\ r.want = request[i].want
      /\ r.io = request[i].io /\ r.next = request[i].next
  BY <1>1 DEF RequestTypes, RequestPcs
<1>3. request' = [request EXCEPT ![i] = r]
  BY <1>1 DEF RequestOK
<1> HIDE DEF r
<1> QED BY <1>2, <1>3, OneRequest DEF Changed

\* What read and skip take at once.
LEMMA ShareIs ==
  ASSUME RequestOK, StreamOK, NEW i \in Ids
  PROVE  /\ StreamOf(request[i].pc) \in Types /\ Source(i).m_remaining \in 0..MaxContent + 1
         /\ Share(i) \in Nat /\ Share(i) <= request[i].want /\ Share(i) <= Source(i).m_remaining
         /\ request[i].want - Share(i) \in Nat
         /\ Source(i).m_remaining - Share(i) \in 0..MaxContent + 1
         /\ InLoop(i) => Share(i) > 0
         /\ Share(i) = request[i].want \/ Share(i) = Source(i).m_remaining
<1>1. request[i].want \in Nat
  BY RequestIs
<1>2. StreamOf(request[i].pc) \in Types
  BY DEF StreamOf, Types
<1>3. Source(i).m_remaining \in 0..MaxContent + 1
  BY <1>2, StreamIs DEF Source
<1>4. Source(i).m_remaining \in Nat
  BY <1>3, FcgiAssumption
<1> QED BY <1>1, <1>2, <1>3, <1>4, FcgiAssumption DEF Share, InLoop

LEMMA ContentIs ==
  ASSUME RequestOK, StreamOK, WireOK, NEW i \in Ids, ReadContent(i)
  PROVE  /\ Changed(i, request[i].pc, request[i].want - Share(i), "none", request[i].next)
         /\ WireOK' /\ StreamOK' /\ Share(i) \in Nat /\ Share(i) <= Len(wire) /\ Take(Share(i))
         /\ stream' = [stream EXCEPT ![i][StreamOf(request[i].pc)] =
                         [Source(i) EXCEPT !.m_remaining = Source(i).m_remaining - Share(i)]]
<1>1. /\ StreamOf(request[i].pc) \in Types /\ request[i].want - Share(i) \in Nat
      /\ Share(i) \in Nat /\ Source(i).m_remaining - Share(i) \in 0..MaxContent + 1
  BY ShareIs
<1>2. Changed(i, request[i].pc, request[i].want - Share(i), "none", request[i].next)
  <2> DEFINE n == request[i].want - Share(i)
             r == [request[i] EXCEPT !.want = n, !.io = "none"]
  <2>1. request[i] \in RequestTypes /\ n \in Nat
    BY <1>1 DEF RequestOK
  <2>2. request' = [request EXCEPT ![i] = r]
    BY <2>1 DEF ReadContent, RequestOK
  <2> HIDE DEF n
  <2>3. /\ r \in RequestTypes /\ r.pc = request[i].pc /\ r.want = n
        /\ r.io = "none" /\ r.next = request[i].next
    BY <2>1 DEF RequestTypes
  <2> HIDE DEF r
  <2>4. Changed(i, request[i].pc, n, "none", request[i].next)
    BY <2>2, <2>3, OneRequest DEF Changed
  <2> QED BY <2>4 DEF n
<1>3. Share(i) <= Len(wire) /\ Take(Share(i))
  BY <1>1, WireIs DEF ReadContent
<1>4. WireOK'
  BY <1>1, <1>3, Takes, WireStays DEF ReadContent
<1> DEFINE n == Source(i).m_remaining - Share(i)
           s == [Source(i) EXCEPT !.m_remaining = n]
<1>5. stream' = [stream EXCEPT ![i][StreamOf(request[i].pc)] = s]
  BY DEF ReadContent, Source
<1>6. Source(i) \in StreamTypes /\ n \in 0..MaxContent + 1
  BY <1>1, StreamIs DEF Source
<1> HIDE DEF n
<1>7. s \in StreamTypes
  BY <1>6 DEF StreamTypes
<1> HIDE DEF s
<1>8. StreamOK'
  BY <1>1, <1>5, <1>7, StreamType
<1> QED BY <1>1, <1>2, <1>3, <1>4, <1>5, <1>8 DEF s, n

LEMMA AwaitIs ==
  ASSUME StreamOK, ReaderOK, StackOK, NEW i \in Ids, AwaitReadable(i)
  PROVE  /\ StreamOK' /\ ReaderOK' /\ StackOK' /\ StreamOf(request[i].pc) \in Types
         /\ stream' = [stream EXCEPT ![i][StreamOf(request[i].pc)] =
                         [Source(i) EXCEPT !.m_consumer = TRUE, !.m_producer = FALSE]]
<1> DEFINE t == StreamOf(request[i].pc)
           s == [Source(i) EXCEPT !.m_consumer = TRUE, !.m_producer = FALSE]
<1>1. t \in Types
  BY DEF StreamOf, Types
<1>2. Source(i) = stream[i][t] /\ Source(i) \in StreamTypes
  BY <1>1, StreamIs DEF Source
<1>3. stream' = [stream EXCEPT ![i][t] = s]
  BY <1>2 DEF AwaitReadable
<1>4. s \in StreamTypes
  BY <1>2 DEF StreamTypes
<1>5. StackOK'
  <2>1. Running(i) /\ (Transfer("reader") \/ Return)
    BY DEF AwaitReadable, Reading, ReadingPcs
  <2> QED BY <2>1, RunsFirst, Transfers, Returns DEF Callable
<1>6. ReaderOK'
  BY DEF AwaitReadable, ReaderOK, ReaderTypes
<1>7. StreamOK'
  <2> HIDE DEF s, t
  <2> QED BY <1>1, <1>3, <1>4, StreamType
<1> QED BY <1>1, <1>3, <1>5, <1>6, <1>7

LEMMA ReturnsCases ==
  ASSUME NEW i \in Ids, ReadReturns(i)
  PROVE  \/ Fail(i) /\ request[i].want > 0
         \/ /\ UNCHANGED stack /\ ~(request[i].want > 0)
            /\ \/ request[i].pc = "lens" /\ GoFor(i, "value", 1)
               \/ /\ request[i].pc = "value"
                  /\ request' = [request EXCEPT ![i].pc = "params", ![i].headers = TRUE]
               \/ request[i].pc = "body" /\ Go(i, "reply")
<1>1. request[i].pc \in {"lens", "value", "body"}
  BY DEF ReadReturns, Reading, ReadingPcs
<1> QED BY <1>1 DEF ReadReturns

LEMMA DispatchCases ==
  ASSUME NEW i \in Ids, Dispatch(i)
  PROVE  \/ Fail(i)
         \/ /\ UNCHANGED stack
            /\ \E pc \in {"body", "head", "reply"}, n \in Nat : GoFor(i, pc, n)
<1> DEFINE To(form) == Process(Tree, form.method, form.path).endpoint
           Body(form) == \/ To(form) \in {"join", "order", "cancel"}
                         \/ To(form) = "create" /\ ~form.long
<1>1. PICK form \in Forms :
        IF ~request[i].headers \/ form.method \notin Methods THEN Fail(i)
        ELSE /\ GoFor(i, IF Body(form) THEN "body" ELSE IF To(form) = "stream" THEN "head" ELSE "reply",
                         IF Body(form) THEN form.length ELSE 0)
             /\ UNCHANGED stack
  BY DEF Dispatch
<1>2. form.length \in Nat
  BY FcgiAssumption
<1> HIDE DEF Body, To
<1> DEFINE pc == IF Body(form) THEN "body" ELSE IF To(form) = "stream" THEN "head" ELSE "reply"
           n  == IF Body(form) THEN form.length ELSE 0
<1>3. pc \in {"body", "head", "reply"} /\ n \in Nat
  BY <1>2
<1>4. Fail(i) \/ (GoFor(i, pc, n) /\ UNCHANGED stack)
  BY <1>1
<1> HIDE DEF pc, n
<1> QED BY <1>3, <1>4

\* What a request writes: it fails, or waits for the writer.
LEMMA WriteCases ==
  ASSUME RequestOK, NEW i \in Ids, Write(i)
  PROVE  \E at \in Written :
           /\ at[1] \in {"stdout", "end", "endreq"} /\ at[2] \in RequestPcs
           /\ at = WriteAt[request[i].pc]
           /\ request[i].pc \in {"reply", "head", "message", "end", "endreq"}
           /\ \/ m_error /\ Fail(i) /\ UNCHANGED <<m_out_records, writer>>
              \/ /\ ~m_error /\ m_out_records' = Append(m_out_records, [id |-> i, type |-> at[1]])
                 /\ Changed(i, "writing", request[i].want, request[i].io, at[2])
                 /\ \/ writer = "idle" /\ writer' = "running" /\ Transfer("writer")
                    \/ writer # "idle" /\ Return /\ UNCHANGED writer
<1> DEFINE at == WriteAt[request[i].pc]
<1>1. request[i].pc \in {"reply", "head", "message", "end", "endreq"}
  BY DEF Write, WriteAt
<1>2. at \in Written /\ at[1] \in {"stdout", "end", "endreq"} /\ at[2] \in RequestPcs
  BY <1>1 DEF WriteAt, Written, RequestPcs
<1>3. CASE m_error
  <2>1. Fail(i) /\ UNCHANGED <<m_out_records, writer>>
    BY <1>3 DEF Write
  <2> HIDE DEF at
  <2> QED BY <1>1, <1>2, <1>3, <2>1 DEF at
<1>4. CASE ~m_error
  <2>1. /\ m_out_records' = Append(m_out_records, [id |-> i, type |-> at[1]])
        /\ request' = [request EXCEPT ![i].pc = "writing", ![i].next = at[2]]
        /\ \/ writer = "idle" /\ writer' = "running" /\ Transfer("writer")
           \/ writer # "idle" /\ Return /\ UNCHANGED writer
    BY <1>4 DEF Write
  <2> HIDE DEF at
  <2> DEFINE r == [request[i] EXCEPT !.pc = "writing", !.next = at[2]]
  <2>2. request[i] \in RequestTypes
    BY DEF RequestOK
  <2>3. /\ r \in RequestTypes /\ r.pc = "writing" /\ r.want = request[i].want
        /\ r.io = request[i].io /\ r.next = at[2]
    BY <1>2, <2>2 DEF RequestTypes, RequestPcs
  <2>4. request' = [request EXCEPT ![i] = r]
    BY <2>1, <2>2 DEF RequestOK
  <2> HIDE DEF r
  <2>5. Changed(i, "writing", request[i].want, request[i].io, at[2])
    BY <2>3, <2>4, OneRequest DEF Changed
  <2> QED BY <1>1, <1>2, <1>4, <2>1, <2>5 DEF at
<1> QED BY <1>3, <1>4

LEMMA StackReturns == StackOK /\ stack # <<>> /\ Return => StackOK'
BY Returns

LEMMA RequestReads ==
  ASSUME TypeOK, NEW i \in Ids,
         AwaitReadable(i) \/ RequestSuspend(i) \/ RequestRecv(i) \/ ReadContent(i)
  PROVE  TypeOK'
<1>0. WireOK /\ ReaderOK /\ RequestOK /\ StreamOK /\ StackOK /\ OutOK
  BY TypeSplit
<1>1. OutOK'
  BY <1>0, SameOut DEF AwaitReadable, RequestSuspend, RequestRecv, ReadContent
<1>2. CASE AwaitReadable(i)
  <2>1. StreamOK' /\ ReaderOK' /\ StackOK'
    BY <1>0, <1>2, AwaitIs
  <2>2. WireOK' /\ RequestOK'
    BY <1>0, <1>2, SameWire, SameParts DEF AwaitReadable
  <2> QED BY <1>1, <2>1, <2>2, TypeJoin
<1>3. CASE RequestSuspend(i)
  <2>1. StackOK'
    BY <1>0, <1>3, RunsFirst, StackReturns DEF RequestSuspend, Reading, ReadingPcs
  <2>2. RequestOK'
    BY <1>0, <1>3, IoIs DEF RequestSuspend, Changed
  <2>3. WireOK' /\ ReaderOK' /\ StreamOK'
    BY <1>0, <1>3, SameWire, SameParts DEF RequestSuspend
  <2> QED BY <1>1, <2>1, <2>2, <2>3, TypeJoin
<1>4. CASE RequestRecv(i)
  <2>1. StackOK'
    BY <1>0, <1>4, Calls DEF RequestRecv, Callable
  <2>2. RequestOK'
    BY <1>0, <1>4, IoIs DEF RequestRecv, Changed
  <2>3. WireOK' /\ ReaderOK' /\ StreamOK'
    BY <1>0, <1>4, SameWire, SameParts DEF RequestRecv
  <2> QED BY <1>1, <2>1, <2>2, <2>3, TypeJoin
<1>5. CASE ReadContent(i)
  <2>1. RequestOK' /\ WireOK' /\ StreamOK'
    BY <1>0, <1>5, ContentIs DEF Changed
  <2>2. ReaderOK' /\ StackOK'
    BY <1>0, <1>5, SameParts DEF ReadContent
  <2> QED BY <1>1, <2>1, <2>2, TypeJoin
<1> QED BY <1>2, <1>3, <1>4, <1>5

LEMMA RequestGoes ==
  ASSUME TypeOK, NEW i \in Ids,
         \/ ContentCut(i) \/ ReadReturns(i) \/ NextHeader(i) \/ Dispatch(i)
         \/ Subscribe(i) \/ AwaitItems(i) \/ ItemsCome(i) \/ Finish(i)
  PROVE  TypeOK'
<1>0. WireOK /\ ReaderOK /\ RequestOK /\ StreamOK /\ StackOK /\ OutOK
  BY TypeSplit
<1>1. ReaderOK' /\ StreamOK'
  BY <1>0, SameParts DEF ContentCut, ReadReturns, NextHeader, Dispatch, Subscribe, AwaitItems,
                         ItemsCome, Finish
<1>2. OutOK'
  <2>1. CASE Finish(i)
    <3>1. signalled' \in BOOLEAN
      BY <2>1 DEF Finish
    <3> QED BY <1>0, <2>1, <3>1 DEF Finish, OutOK, outVars
  <2>2. CASE ~Finish(i)
    BY <1>0, <2>2, SameOut DEF ContentCut, ReadReturns, NextHeader, Dispatch, Subscribe,
                               AwaitItems, ItemsCome
  <2> QED BY <2>1, <2>2
<1>3. WireOK'
  <2>1. CASE ItemsCome(i)
    <3>1. budget' \in [records : 0..MaxRecords, items : 0..MaxItems]
      BY <1>0, <2>1, FcgiAssumption DEF ItemsCome, WireOK
    <3> QED BY <1>0, <2>1, <3>1 DEF ItemsCome, WireOK
  <2>2. CASE ~ItemsCome(i)
    BY <1>0, <2>2, SameWire DEF ContentCut, ReadReturns, NextHeader, Dispatch, Subscribe,
                                AwaitItems, Finish
  <2> QED BY <2>1, <2>2
<1>4. RequestOK' /\ StackOK'
  <2>1. CASE Fail(i) /\ stack # <<>>
    <3>1. Return
      BY <2>1 DEF Fail
    <3> QED BY <1>0, <2>1, <3>1, FailIs, StackReturns DEF Changed
  <2>2. CASE ContentCut(i)
    BY <1>0, <2>1, <2>2, RunsFirst DEF ContentCut, Reading, ReadingPcs
  <2>3. CASE ReadReturns(i)
    <3>1. stack # <<>>
      BY <1>0, <2>3, RunsFirst DEF ReadReturns, Reading, ReadingPcs
    <3>2. CASE UNCHANGED stack
      <4>1. "value" \in RequestPcs /\ "reply" \in RequestPcs
        BY DEF RequestPcs
      <4>2. RequestOK' \/ Fail(i)
        BY <1>0, <2>3, <4>1, ReturnsCases, GoIs, GoForIs, ValueIs DEF Changed
      <4> QED BY <1>0, <2>1, <3>1, <3>2, <4>2, SameParts
    <3> QED BY <2>1, <2>3, <3>1, <3>2, ReturnsCases
  <2>4. CASE NextHeader(i)
    <3>1. "lens" \in RequestPcs
      BY DEF RequestPcs
    <3> QED BY <1>0, <2>4, <3>1, GoForIs, SameParts DEF NextHeader, Changed
  <2>5. CASE Dispatch(i)
    <3>1. stack # <<>>
      BY <1>0, <2>5, RunsFirst DEF Dispatch, Reading, ReadingPcs
    <3>2. \A pc \in {"body", "head", "reply"} : pc \in RequestPcs
      BY DEF RequestPcs
    <3>3. CASE UNCHANGED stack /\ \E pc \in {"body", "head", "reply"}, n \in Nat : GoFor(i, pc, n)
      BY <1>0, <3>2, <3>3, GoForIs, SameParts DEF Changed
    <3> QED BY <2>1, <2>5, <3>1, <3>3, DispatchCases
  <2>6. CASE Subscribe(i)
    <3>1. \A pc \in {"reply", "await"} : pc \in RequestPcs
      BY DEF RequestPcs
    <3> QED BY <1>0, <2>6, <3>1, GoIs, SameParts DEF Subscribe, Changed
  <2>7. CASE AwaitItems(i)
    <3>1. "items" \in RequestPcs
      BY DEF RequestPcs
    <3> QED BY <1>0, <2>7, <3>1, GoIs, RunsFirst, StackReturns DEF AwaitItems, Changed
  <2>8. CASE ItemsCome(i)
    <3>1. "message" \in RequestPcs
      BY DEF RequestPcs
    <3> QED BY <1>0, <2>8, <3>1, GoIs, Calls DEF ItemsCome, Changed, Callable
  <2>9. CASE Finish(i)
    <3>1. "done" \in RequestPcs
      BY DEF RequestPcs
    <3> QED BY <1>0, <2>9, <3>1, GoIs, RunsFirst, StackReturns DEF Finish, Reading, ReadingPcs, Changed
  <2> QED BY <2>2, <2>3, <2>4, <2>5, <2>6, <2>7, <2>8, <2>9
<1> QED BY <1>1, <1>2, <1>3, <1>4, TypeJoin

LEMMA WriteType ==
  ASSUME TypeOK, NEW i \in Ids, Write(i)
  PROVE  TypeOK'
<1>0. WireOK /\ ReaderOK /\ RequestOK /\ StreamOK /\ StackOK /\ OutOK
  BY TypeSplit
<1>1. WireOK' /\ ReaderOK' /\ StreamOK'
  BY <1>0, SameWire, SameParts DEF Write
<1>2. stack # <<>>
  BY <1>0, RunsFirst DEF Write
<1>3. PICK at \in Written :
        /\ at[1] \in {"stdout", "end", "endreq"} /\ at[2] \in RequestPcs
        /\ \/ m_error /\ Fail(i) /\ UNCHANGED <<m_out_records, writer>>
           \/ /\ ~m_error /\ m_out_records' = Append(m_out_records, [id |-> i, type |-> at[1]])
              /\ Changed(i, "writing", request[i].want, request[i].io, at[2])
              /\ \/ writer = "idle" /\ writer' = "running" /\ Transfer("writer")
                 \/ writer # "idle" /\ Return /\ UNCHANGED writer
  BY <1>0, WriteCases
<1>4. CASE Fail(i) /\ UNCHANGED <<m_out_records, writer>>
  <2>1. RequestOK' /\ StackOK'
    BY <1>0, <1>2, <1>4, FailIs, StackReturns DEF Changed, Fail
  <2>2. OutOK'
    BY <1>0, <1>4 DEF Write, OutOK, endVars
  <2> QED BY <1>1, <2>1, <2>2, TypeJoin
<1>5. CASE /\ m_out_records' = Append(m_out_records, [id |-> i, type |-> at[1]])
           /\ Changed(i, "writing", request[i].want, request[i].io, at[2])
           /\ \/ writer' = "running" /\ Transfer("writer")
              \/ Return /\ UNCHANGED writer
  <2>1. RequestOK'
    BY <1>5 DEF Changed
  <2>2. StackOK'
    BY <1>0, <1>2, <1>5, StackReturns, Transfers DEF Callable
  <2>3. m_out_records' \in Seq(OutTypes)
    <3>1. [id |-> i, type |-> at[1]] \in OutTypes
      BY <1>3 DEF OutTypes
    <3> QED BY <1>0, <1>5, <3>1, AppendProperties DEF OutOK
  <2>4. OutOK'
    BY <1>0, <1>5, <2>3 DEF Write, OutOK, endVars
  <2> QED BY <1>1, <2>1, <2>2, <2>4, TypeJoin
<1> QED BY <1>3, <1>4, <1>5

\* The queue and the first record of it.
LEMMA QueueIs ==
  ASSUME OutOK
  PROVE  /\ Len(m_out_records) \in Nat /\ DOMAIN m_out_records = 1..Len(m_out_records)
         /\ \A k \in DOMAIN m_out_records : /\ m_out_records[k].id \in Ids
                                            /\ m_out_records[k].type \in {"stdout", "end", "endreq"}
         /\ m_out_records # <<>> => /\ Len(m_out_records) > 0 /\ 1 \in DOMAIN m_out_records
                                    /\ Head(m_out_records) = m_out_records[1]
                                    /\ Head(m_out_records).id \in Ids
                                    /\ Head(m_out_records).type \in {"stdout", "end", "endreq"}
                                    /\ Tail(m_out_records) \in Seq(OutTypes)
                                    /\ Len(Tail(m_out_records)) = Len(m_out_records) - 1
                                    /\ \A k \in 1..(Len(m_out_records) - 1) :
                                         Tail(m_out_records)[k] = m_out_records[k + 1]
<1>1. m_out_records \in Seq(OutTypes)
  BY DEF OutOK
<1>2. /\ Len(m_out_records) \in Nat /\ DOMAIN m_out_records = 1..Len(m_out_records)
      /\ \A k \in DOMAIN m_out_records : m_out_records[k] \in OutTypes
  BY <1>1, LenProperties, ElementOfSeq
<1>3. \A k \in DOMAIN m_out_records : /\ m_out_records[k].id \in Ids
                                      /\ m_out_records[k].type \in {"stdout", "end", "endreq"}
  BY <1>2 DEF OutTypes
<1>4. ASSUME m_out_records # <<>>
      PROVE  /\ Len(m_out_records) > 0 /\ 1 \in DOMAIN m_out_records
             /\ Head(m_out_records) = m_out_records[1]
             /\ Tail(m_out_records) \in Seq(OutTypes)
             /\ Len(Tail(m_out_records)) = Len(m_out_records) - 1
             /\ \A k \in 1..(Len(m_out_records) - 1) :
                  Tail(m_out_records)[k] = m_out_records[k + 1]
  <2>1. /\ Tail(m_out_records) \in Seq(OutTypes)
        /\ Len(Tail(m_out_records)) = Len(m_out_records) - 1
        /\ \A k \in 1..Len(Tail(m_out_records)) : Tail(m_out_records)[k] = m_out_records[k + 1]
        /\ Len(m_out_records) # 0
    BY <1>1, <1>4, HeadTailProperties, EmptySeq
  <2>2. Head(m_out_records) = m_out_records[1]
    BY <1>1, <1>4
  <2> QED BY <1>2, <2>1, <2>2
<1> QED BY <1>2, <1>3, <1>4

\* Where a request goes on when its record has been sent.
LEMMA ResumesCases ==
  ASSUME RequestOK, OutOK, WriterResumes
  PROVE  LET i == Head(m_out_records).id
         IN  /\ i \in Ids
             /\ \/ /\ m_error /\ UNCHANGED stack
                   /\ Changed(i, "failed", request[i].want, request[i].io, request[i].next)
                \/ /\ ~m_error /\ Call(i)
                   /\ \E n \in Nat : /\ request[i].next = "skip" => n = AllSkip
                                     /\ Changed(i, request[i].next, n, request[i].io, request[i].next)
<1> DEFINE i == Head(m_out_records).id
           n == IF request[i].next = "skip" THEN AllSkip ELSE 0
<1>1. i \in Ids
  BY QueueIs DEF WriterResumes
<1>2. n \in Nat /\ (request[i].next = "skip" => n = AllSkip)
  BY FcgiAssumption DEF AllSkip
<1>3. request[i].next \in RequestPcs /\ "failed" \in RequestPcs
  BY <1>1, RequestIs DEF RequestPcs
<1>4. \/ m_error /\ UNCHANGED stack /\ Go(i, "failed")
      \/ ~m_error /\ Call(i) /\ GoFor(i, request[i].next, n)
  BY DEF WriterResumes
<1> HIDE DEF i, n
<1>5. CASE m_error /\ UNCHANGED stack /\ Go(i, "failed")
  <2>1. Changed(i, "failed", request[i].want, request[i].io, request[i].next)
    BY <1>1, <1>3, <1>5, GoIs
  <2> QED BY <1>1, <1>5, <2>1 DEF i
<1>6. CASE ~m_error /\ Call(i) /\ GoFor(i, request[i].next, n)
  <2>1. Changed(i, request[i].next, n, request[i].io, request[i].next)
    BY <1>1, <1>2, <1>3, <1>6, GoForIs
  <2> QED BY <1>1, <1>2, <1>6, <2>1 DEF i
<1> QED BY <1>4, <1>5, <1>6

LEMMA WriterType ==
  ASSUME TypeOK, writer = "sending" => m_out_records # <<>>, WriterNext \/ Sent \/ WriterResumes
  PROVE  TypeOK'
<1>0. WireOK /\ ReaderOK /\ RequestOK /\ StreamOK /\ StackOK /\ OutOK
  BY TypeSplit
<1>1. WireOK' /\ ReaderOK' /\ StreamOK'
  BY <1>0, SameWire, SameParts DEF WriterNext, Sent, SendDone, WriterResumes
<1>2. CASE WriterNext
  <2>1. StackOK'
    BY <1>0, <1>2, RunsFirst, StackReturns DEF WriterNext
  <2>2. OutOK'
    BY <1>0, <1>2 DEF WriterNext, OutOK, endVars
  <2>3. RequestOK'
    BY <1>0, <1>2, SameParts DEF WriterNext
  <2> QED BY <1>1, <2>1, <2>2, <2>3, TypeJoin
<1>3. CASE Sent
  <2>1. PICK ok \in BOOLEAN : SendDone(ok)
    BY <1>3 DEF Sent
  <2>2. RequestOK'
    BY <1>0, <2>1, SameParts DEF SendDone
  <2>3. StackOK'
    BY <1>0, <2>1, Calls DEF SendDone, Callable
  <2> DEFINE o == Head(m_out_records)
  <2>4. o.id \in Ids /\ o.type \in {"stdout", "end", "endreq"}
    BY <1>0, <2>1, QueueIs DEF SendDone
  <2> HIDE DEF o
  <2>5. replies' \in [Ids -> Seq({"stdout", "end", "endreq"})]
    <3>1. replies' = IF ok THEN [replies EXCEPT ![o.id] = Append(@, o.type)] ELSE replies
      BY <2>1 DEF SendDone, o
    <3>2. replies[o.id] \in Seq({"stdout", "end", "endreq"})
      BY <1>0, <2>4 DEF OutOK
    <3>3. Append(replies[o.id], o.type) \in Seq({"stdout", "end", "endreq"})
      BY <2>4, <3>2, AppendProperties
    <3> QED BY <1>0, <3>1, <3>3 DEF OutOK
  <2>6. OutOK'
    BY <1>0, <2>1, <2>5 DEF SendDone, OutOK, endVars
  <2> QED BY <1>1, <2>2, <2>3, <2>6, TypeJoin
<1>4. CASE WriterResumes
  <2> DEFINE i == Head(m_out_records).id
  <2>1. /\ i \in Ids
        /\ UNCHANGED stack \/ Call(i)
        /\ RequestOK'
    BY <1>0, <1>4, ResumesCases DEF Changed
  <2> HIDE DEF i
  <2>2. StackOK'
    BY <1>0, <2>1, Calls, SameParts DEF Callable
  <2>3. m_out_records' \in Seq(OutTypes)
    BY <1>0, <1>4, QueueIs DEF WriterResumes
  <2>4. OutOK'
    BY <1>0, <1>4, <2>3 DEF WriterResumes, OutOK, endVars
  <2> QED BY <1>1, <2>1, <2>2, <2>4, TypeJoin
<1> QED BY <1>2, <1>3, <1>4

LEMMA TeardownIs ==
  ASSUME Teardown
  PROVE  /\ wire' = <<>> /\ closed' /\ stack = <<>> /\ stack' = <<>> /\ m_out_records' = <<>>
         /\ reader' = [pc |-> "ended", id |-> SomeId, type |-> "begin", len |-> 0, io |-> "none"]
         /\ request' = [i \in Ids |-> NewRequest]
         /\ stream' = [i \in Ids |-> [t \in Types |-> NewStream]]
         /\ writer' = "idle" /\ UNCHANGED <<phase, budget, keep_conn, m_error, signalled, replies>>
<1>1. reader' = [NewReader EXCEPT !.pc = "ended"]
  BY DEF Teardown
<1>2. reader' = [pc |-> "ended", id |-> SomeId, type |-> "begin", len |-> 0, io |-> "none"]
  BY <1>1 DEF NewReader, SomeId
<1> QED BY <1>2 DEF Teardown

LEMMA TeardownType ==
  ASSUME TypeOK, Teardown
  PROVE  TypeOK'
<1>0. WireOK /\ ReaderOK /\ RequestOK /\ StreamOK /\ StackOK /\ OutOK
  BY TypeSplit
<1>1. ReaderOK'
  BY TeardownIs, SomeIdIs, SomeLengths DEF ReaderOK, ReaderTypes
<1>2. RequestOK'
  <2>1. NewRequest \in RequestTypes
    BY DEF RequestTypes, NewRequest, RequestPcs
  <2> QED BY <2>1, TeardownIs DEF RequestOK
<1>3. StreamOK'
  <2>1. NewStream \in StreamTypes
    BY SomeLengths DEF StreamTypes, NewStream
  <2> QED BY <2>1, TeardownIs DEF StreamOK
<1>4. WireOK'
  <2>1. wire' \in Seq(UnitTypes)
    BY TeardownIs
  <2> QED BY <1>0, <2>1, TeardownIs DEF WireOK
<1>5. OutOK' /\ StackOK'
  <2>1. m_out_records' \in Seq(OutTypes)
    BY TeardownIs
  <2>2. gone' \in BOOLEAN
    BY DEF Teardown
  <2> QED BY <1>0, <2>1, <2>2, TeardownIs DEF OutOK, StackOK
<1> QED BY <1>1, <1>2, <1>3, <1>4, <1>5, TypeJoin

LEMMA SameTypes == TypeOK /\ UNCHANGED vars => TypeOK'
<1> SUFFICES ASSUME TypeOK, UNCHANGED vars PROVE TypeOK'
  OBVIOUS
<1>1. WireOK' /\ ReaderOK' /\ RequestOK' /\ StreamOK' /\ StackOK' /\ OutOK'
  BY TypeSplit, SameWire, SameOut, SameParts DEF vars
<1> QED BY <1>1, TypeJoin

LEMMA TypeStep ==
  ASSUME TypeOK, Next, writer \in {"sending", "sent"} => m_out_records # <<>>,
         reader.pc \in {"updating", "blocked"} => reader.type \in Types
  PROVE  TypeOK'
<1>1. CASE WebServer
  <2>1. WireOK' /\ OutOK' /\ UNCHANGED <<reader, request, stream, stack>>
    BY <1>1, WebServerType
  <2>2. ReaderOK' /\ RequestOK' /\ StreamOK' /\ StackOK'
    BY <2>1, TypeSplit, SameParts
  <2> QED BY <2>1, <2>2, TypeJoin
<1>2. CASE \E i \in Ids : RunRequest(i) \/ RequestRecv(i) \/ ItemsCome(i)
  BY <1>2, RequestReads, RequestGoes, WriteType DEF RunRequest
<1>3. CASE ReaderSuspend \/ ReaderRecv \/ ReaderCut \/ ReadBegin \/ ReadUnknown \/ BeginRequest
           \/ Update \/ Updated \/ ReadPadding
  BY <1>3, SuspendType, HeaderType, UpdatedType, PaddingType DEF Updated, ReaderAt
<1>4. CASE WriterNext \/ Sent \/ WriterResumes
  BY <1>4, WriterType
<1>5. CASE Teardown \/ Rest
  BY <1>5, TeardownType, SameTypes DEF Rest
<1> QED BY <1>1, <1>2, <1>3, <1>4, <1>5 DEF Next, Run

-----------------------------------------------------------------------------
(* Nested, step by step. *)

\* The nest stays, with what is awake, and below its top what resumes others.
LEMMA NestStays ==
  ASSUME Nested, UNCHANGED stack, ReaderAwake' <=> ReaderAwake, WriterAwake' <=> WriterAwake,
         Running("reader") \/ (reader.pc = "updating" => reader'.pc = "updating"),
         Running("writer") \/ (writer = "running" => writer' = "running"),
         StackOK
  PROVE  Nested'
<1>1. ASSUME NEW c, Running(c), NEW k \in DOMAIN stack, k > 1 PROVE stack[k] # c
  <2>1. 1 \in DOMAIN stack /\ stack[1] = c /\ k # 1
    BY <1>1, RunsFirst
  <2> QED BY <2>1 DEF Nested
<1>3. \A k \in DOMAIN stack : k > 1 =>
        \/ stack[k] = "reader" /\ reader'.pc = "updating"
        \/ stack[k] = "writer" /\ writer' = "running"
  <2> TAKE k \in DOMAIN stack
  <2> HAVE k > 1
  <2>1. CASE stack[k] = "reader" /\ reader.pc = "updating"
    BY <1>1, <2>1
  <2>2. CASE stack[k] = "writer" /\ writer = "running"
    BY <1>1, <2>2
  <2> QED BY <2>1, <2>2 DEF Nested
<1> QED BY <1>3 DEF Nested

\* The running coroutine suspends, and sleeps.
LEMMA NestReturns ==
  ASSUME Nested, StackOK, NEW c, Running(c), Return,
         IF c = "reader" THEN ~ReaderAwake' ELSE UNCHANGED reader,
         IF c = "writer" THEN ~WriterAwake' ELSE UNCHANGED writer
  PROVE  Nested'
<1>1. stack # <<>> /\ stack[1] = c /\ 1 \in DOMAIN stack /\ Len(stack) \in Nat
  BY RunsFirst
<1>2. /\ DOMAIN stack = 1..Len(stack) /\ DOMAIN stack' = 1..(Len(stack) - 1)
      /\ \A k \in 1..(Len(stack) - 1) : stack'[k] = stack[k + 1]
  BY <1>1, Returns
<1>3. \A k \in DOMAIN stack' : k + 1 \in DOMAIN stack /\ k + 1 > 1 /\ stack'[k] = stack[k + 1]
                               /\ stack[k + 1] # c
  <2> TAKE k \in DOMAIN stack'
  <2>1. k + 1 \in DOMAIN stack /\ k + 1 > 1 /\ k + 1 # 1 /\ stack'[k] = stack[k + 1]
    BY <1>1, <1>2
  <2> QED BY <1>1, <2>1 DEF Nested
<1>4. \A k \in DOMAIN stack : k # 1 => k - 1 \in DOMAIN stack' /\ stack'[k - 1] = stack[k]
  <2> TAKE k \in DOMAIN stack
  <2> HAVE k # 1
  <2>1. k - 1 \in 1..(Len(stack) - 1) /\ (k - 1) + 1 = k
    BY <1>1, <1>2
  <2> QED BY <1>2, <2>1
<1>5. \A j, k \in DOMAIN stack' : stack'[j] = stack'[k] => j = k
  <2> TAKE j, k \in DOMAIN stack'
  <2> HAVE stack'[j] = stack'[k]
  <2>1. j + 1 = k + 1
    BY <1>3 DEF Nested
  <2> QED BY <1>1, <1>2, <2>1
<1>6. \A x : x # c => ((\E k \in DOMAIN stack : stack[k] = x) <=> (\E k \in DOMAIN stack' : stack'[k] = x))
  BY <1>1, <1>3, <1>4
<1>7. ReaderAwake' <=> \E k \in DOMAIN stack' : stack'[k] = "reader"
  <2>1. CASE c = "reader"
    BY <1>3, <2>1
  <2>2. CASE c # "reader"
    BY <1>6, <2>2 DEF Nested, ReaderAwake
  <2> QED BY <2>1, <2>2
<1>8. WriterAwake' <=> \E k \in DOMAIN stack' : stack'[k] = "writer"
  <2>1. CASE c = "writer"
    BY <1>3, <2>1
  <2>2. CASE c # "writer"
    BY <1>6, <2>2 DEF Nested, WriterAwake
  <2> QED BY <2>1, <2>2
<1>9. \A k \in DOMAIN stack' : k > 1 =>
        \/ stack'[k] = "reader" /\ reader'.pc = "updating"
        \/ stack'[k] = "writer" /\ writer' = "running"
  <2> TAKE k \in DOMAIN stack'
  <2>1. /\ stack'[k] # c
        /\ \/ stack'[k] = "reader" /\ reader.pc = "updating"
           \/ stack'[k] = "writer" /\ writer = "running"
    BY <1>3 DEF Nested
  <2>2. CASE stack'[k] = "reader"
    BY <2>1, <2>2
  <2>3. CASE stack'[k] = "writer"
    BY <2>1, <2>3
  <2> QED BY <2>1, <2>2, <2>3
<1> QED BY <1>5, <1>7, <1>8, <1>9 DEF Nested

\* A coroutine that sleeps is resumed, by the loop, or by the running one that
\* resumes others.
LEMMA NestCalls ==
  ASSUME Nested, StackOK, NEW c \in Callable, Call(c), \A k \in DOMAIN stack : stack[k] # c,
         IF c = "reader" THEN ReaderAwake' ELSE (ReaderAwake' <=> ReaderAwake),
         IF c = "writer" THEN WriterAwake' ELSE (WriterAwake' <=> WriterAwake),
         reader.pc = "updating" => reader'.pc = "updating",
         writer = "running" => writer' = "running",
         stack = <<>> \/ (Running("reader") /\ reader'.pc = "updating")
                      \/ (Running("writer") /\ writer' = "running")
  PROVE  Nested'
<1>1. /\ Len(stack) \in Nat
      /\ DOMAIN stack = 1..Len(stack) /\ DOMAIN stack' = 1..(Len(stack) + 1)
      /\ stack'[1] = c /\ \A k \in 1..Len(stack) : stack'[k + 1] = stack[k]
  BY Calls
<1>2. \A k \in DOMAIN stack' : k # 1 => k - 1 \in DOMAIN stack /\ stack'[k] = stack[k - 1]
  <2> TAKE k \in DOMAIN stack'
  <2> HAVE k # 1
  <2>1. k - 1 \in 1..Len(stack) /\ (k - 1) + 1 = k
    BY <1>1
  <2> QED BY <1>1, <2>1
<1>3. 1 \in DOMAIN stack'
  BY <1>1
<1>4. \A k \in DOMAIN stack : k + 1 \in DOMAIN stack' /\ stack'[k + 1] = stack[k]
  BY <1>1
<1>5. \A j, k \in DOMAIN stack' : stack'[j] = stack'[k] => j = k
  <2> TAKE j, k \in DOMAIN stack'
  <2> HAVE stack'[j] = stack'[k]
  <2>1. CASE j # 1 /\ k # 1
    <3>1. j - 1 = k - 1
      BY <1>2, <2>1 DEF Nested
    <3> QED BY <1>1, <3>1
  <2>2. CASE j = 1 \/ k = 1
    BY <1>1, <1>2, <2>2
  <2> QED BY <2>1, <2>2
<1>6. \A x : x # c => ((\E k \in DOMAIN stack : stack[k] = x) <=> (\E k \in DOMAIN stack' : stack'[k] = x))
  BY <1>1, <1>2, <1>4
<1>7. ReaderAwake' <=> \E k \in DOMAIN stack' : stack'[k] = "reader"
  <2>1. CASE c = "reader"
    BY <1>1, <1>3, <2>1
  <2>2. CASE c # "reader"
    BY <1>6, <2>2 DEF Nested
  <2> QED BY <2>1, <2>2
<1>8. WriterAwake' <=> \E k \in DOMAIN stack' : stack'[k] = "writer"
  <2>1. CASE c = "writer"
    BY <1>1, <1>3, <2>1
  <2>2. CASE c # "writer"
    BY <1>6, <2>2 DEF Nested
  <2> QED BY <2>1, <2>2
<1>9. \A k \in DOMAIN stack' : k > 1 =>
        \/ stack'[k] = "reader" /\ reader'.pc = "updating"
        \/ stack'[k] = "writer" /\ writer' = "running"
  <2> TAKE k \in DOMAIN stack'
  <2> HAVE k > 1
  <2>1. k # 1 /\ k - 1 \in DOMAIN stack /\ stack'[k] = stack[k - 1]
    BY <1>2
  <2>2. CASE k - 1 = 1
    <3>1. stack # <<>>
      BY <1>1, <2>1
    <3>2. CASE Running("reader") /\ reader'.pc = "updating"
      BY <2>1, <2>2, <3>2, RunsFirst
    <3>3. CASE Running("writer") /\ writer' = "running"
      BY <2>1, <2>2, <3>3, RunsFirst
    <3> QED BY <3>1, <3>2, <3>3
  <2>3. CASE k - 1 > 1
    <3>1. \/ stack[k - 1] = "reader" /\ reader.pc = "updating"
          \/ stack[k - 1] = "writer" /\ writer = "running"
      BY <2>1, <2>3 DEF Nested
    <3> QED BY <2>1, <3>1
  <2> QED BY <1>1, <2>1, <2>2, <2>3
<1> QED BY <1>5, <1>7, <1>8, <1>9 DEF Nested

\* A running request hands over to a coroutine that sleeps.
LEMMA NestTransfers ==
  ASSUME Nested, StackOK, NEW i \in Ids, Running(i), NEW c \in {"reader", "writer"}, Transfer(c),
         IF c = "reader" THEN ~ReaderAwake /\ ReaderAwake' ELSE UNCHANGED reader,
         IF c = "writer" THEN ~WriterAwake /\ WriterAwake' ELSE UNCHANGED writer
  PROVE  Nested'
<1>1. stack # <<>> /\ stack[1] = i /\ 1 \in DOMAIN stack /\ i # "reader" /\ i # "writer"
  BY RunsFirst, FcgiAssumption
<1>2. /\ Len(stack) \in Nat /\ Len(stack) > 0
      /\ DOMAIN stack = 1..Len(stack) /\ DOMAIN stack' = 1..Len(stack)
      /\ stack'[1] = c /\ \A k \in 2..Len(stack) : stack'[k] = stack[k]
  BY <1>1, Transfers DEF Callable
<1>3. \A k \in DOMAIN stack : k # 1 => k > 1 /\ stack'[k] = stack[k]
  BY <1>2
<1>4. \A k \in DOMAIN stack : stack[k] # c
  BY DEF Nested
<1>5. \A j, k \in DOMAIN stack' : stack'[j] = stack'[k] => j = k
  BY <1>2, <1>3, <1>4 DEF Nested
<1>6. \A x : x # c /\ x # i =>
        ((\E k \in DOMAIN stack : stack[k] = x) <=> (\E k \in DOMAIN stack' : stack'[k] = x))
  BY <1>1, <1>2, <1>3
<1>7. ReaderAwake' <=> \E k \in DOMAIN stack' : stack'[k] = "reader"
  <2>1. CASE c = "reader"
    BY <1>1, <1>2, <2>1
  <2>2. CASE c # "reader"
    BY <1>1, <1>6, <2>2 DEF Nested, ReaderAwake
  <2> QED BY <2>1, <2>2
<1>8. WriterAwake' <=> \E k \in DOMAIN stack' : stack'[k] = "writer"
  <2>1. CASE c = "writer"
    BY <1>1, <1>2, <2>1
  <2>2. CASE c # "writer"
    BY <1>1, <1>6, <2>2 DEF Nested, WriterAwake
  <2> QED BY <2>1, <2>2
<1>9. \A k \in DOMAIN stack' : k > 1 =>
        \/ stack'[k] = "reader" /\ reader'.pc = "updating"
        \/ stack'[k] = "writer" /\ writer' = "running"
  <2> TAKE k \in DOMAIN stack'
  <2> HAVE k > 1
  <2>1. stack'[k] = stack[k] /\ stack[k] # c
    BY <1>2, <1>4
  <2>2. \/ stack[k] = "reader" /\ reader.pc = "updating"
        \/ stack[k] = "writer" /\ writer = "running"
    BY <1>2 DEF Nested
  <2>3. CASE c = "reader"
    BY <2>1, <2>2, <2>3
  <2>4. CASE c = "writer"
    BY <2>1, <2>2, <2>4
  <2> QED BY <2>3, <2>4
<1> QED BY <1>5, <1>7, <1>8, <1>9 DEF Nested

LEMMA FcgiParts ==
  FcgiInv => /\ WireOK /\ ReaderOK /\ RequestOK /\ StreamOK /\ StackOK /\ OutOK
             /\ Nested /\ Shared /\ Parsed /\ Queued /\ Fresh /\ Answering
BY TypeSplit DEF FcgiInv

\* Requests have other names than the reader and the writer.
LEMMA IdsApart == \A i \in Ids : i # "reader" /\ i # "writer"
BY FcgiAssumption

LEMMA SleepsAlone ==
  ASSUME Nested, stack = <<>>
  PROVE  ~ReaderAwake /\ ~WriterAwake
<1>1. DOMAIN stack = {}
  OBVIOUS
<1> QED BY <1>1 DEF Nested

\* The actions of read_req.
LEMMA NestedReader ==
  ASSUME FcgiInv, \/ ReaderSuspend \/ ReaderRecv \/ ReaderCut \/ ReadBegin \/ ReadUnknown
                  \/ BeginRequest \/ Update \/ Updated \/ ReadPadding
  PROVE  Nested'
<1>0. ReaderOK /\ StackOK /\ Nested /\ Shared
  BY FcgiParts
<1>1. WriterAwake' <=> WriterAwake
  BY DEF WriterAwake, ReaderSuspend, ReaderRecv, ReaderCut, ReadBegin, ReadUnknown, BeginRequest,
         Update, Updated, ReadPadding, EndReading, outVars
<1>2. UNCHANGED writer
  BY DEF ReaderSuspend, ReaderRecv, ReaderCut, ReadBegin, ReadUnknown, BeginRequest,
         Update, Updated, ReadPadding, EndReading, outVars
<1>3. CASE ReaderSuspend
  <2>1. ~ReaderAwake' /\ Running("reader") /\ Return
    BY <1>0, <1>3 DEF ReaderSuspend, ReaderAwake, ReaderOK, ReaderTypes
  <2> QED BY <1>0, <1>2, <2>1, NestReturns
<1>4. CASE ReaderRecv
  <2>1. stack = <<>> /\ DOMAIN stack = {} /\ Call("reader") /\ "reader" \in Callable
    BY <1>4 DEF ReaderRecv, Callable
  <2>2. reader.pc \in {"header", "begin", "padding"} /\ reader'.pc = reader.pc /\ reader'.io = "ready"
    BY <1>0, <1>4 DEF ReaderRecv, ReaderOK, ReaderTypes, Shared
  <2>3. ReaderAwake' /\ reader.pc # "updating"
    BY <2>2 DEF ReaderAwake
  <2> QED BY <1>0, <1>1, <1>2, <2>1, <2>3, NestCalls
<1>5. CASE ReaderCut \/ ReadUnknown
  <2>1. ~ReaderAwake' /\ Running("reader") /\ Return
    BY <1>0, <1>5 DEF ReaderCut, ReadUnknown, EndReading, ReaderAt, ReaderAwake, ReaderOK, ReaderTypes
  <2> QED BY <1>0, <1>2, <2>1, NestReturns
<1>6. CASE ReadBegin \/ BeginRequest \/ ReadPadding
  <2>1. Running("reader") /\ UNCHANGED stack
    BY <1>6 DEF ReadBegin, BeginRequest, ReadPadding, ReaderAt
  <2>2. ReaderAwake'
    BY <1>0, <1>6 DEF ReadBegin, BeginRequest, ReadPadding, ReaderAwake, ReaderOK, ReaderTypes
  <2>3. ReaderAwake
    BY <1>0, <2>1, RunsFirst DEF Nested
  <2> QED BY <1>0, <1>1, <1>2, <2>1, <2>2, <2>3, NestStays
<1>7. CASE Update
  <2>1. Running("reader") /\ wire[1].id \in Ids
    BY <1>7, FcgiParts, FirstUnit DEF Update, ReaderAt, ReaderHas
  <2>2. ReaderAwake' /\ reader'.pc = "updating"
    BY <1>0, <1>7 DEF Update, ReaderAwake, ReaderOK, ReaderTypes
  <2>3. ReaderAwake
    BY <1>0, <2>1, RunsFirst DEF Nested
  <2>4. CASE UNCHANGED stack
    BY <1>0, <1>1, <1>2, <2>1, <2>2, <2>3, <2>4, NestStays
  <2>5. CASE Call(wire[1].id)
    <3>1. \A k \in DOMAIN stack : stack[k] # wire[1].id
      <4> TAKE k \in DOMAIN stack
      <4>1. stack[1] = "reader" /\ DOMAIN stack = 1..Len(stack) /\ Len(stack) \in Nat
        BY <1>0, <2>1, RunsFirst
      <4>2. k > 1 => stack[k] = "reader" \/ stack[k] = "writer"
        BY <1>0 DEF Nested
      <4>3. stack[k] = "reader" \/ stack[k] = "writer"
        BY <4>1, <4>2
      <4> QED BY <2>1, <4>3, IdsApart
    <3>2. wire[1].id \in Callable /\ wire[1].id # "reader" /\ wire[1].id # "writer"
      BY <2>1, IdsApart DEF Callable
    <3> QED BY <1>0, <1>1, <1>2, <2>1, <2>2, <2>3, <2>5, <3>1, <3>2, NestCalls
  <2> QED BY <1>7, <2>4, <2>5 DEF Update
<1>8. CASE Updated
  <2>1. Running("reader") /\ reader.pc = "updating"
    BY <1>8 DEF Updated, ReaderAt
  <2>2. ReaderAwake
    BY <1>0, <2>1, RunsFirst DEF Nested
  <2>3. CASE reader' = [reader EXCEPT !.pc = "padding"] /\ UNCHANGED stack
    <3>1. ReaderAwake'
      BY <1>0, <2>2, <2>3 DEF ReaderAwake, ReaderOK, ReaderTypes
    <3> QED BY <1>0, <1>1, <1>2, <2>1, <2>2, <2>3, <3>1, NestStays
  <2>4. CASE reader' = [reader EXCEPT !.pc = "blocked"] /\ Return
    <3>1. ~ReaderAwake'
      BY <1>0, <2>4 DEF ReaderAwake, ReaderOK, ReaderTypes
    <3> QED BY <1>0, <1>2, <2>1, <2>4, <3>1, NestReturns
  <2> QED BY <1>8, <2>3, <2>4 DEF Updated
<1> QED BY <1>3, <1>4, <1>5, <1>6, <1>7, <1>8

\* The actions of requests.
LEMMA NestedRequest ==
  ASSUME FcgiInv, NEW i \in Ids, RunRequest(i) \/ RequestRecv(i) \/ ItemsCome(i)
  PROVE  Nested'
<1>0. ReaderOK /\ RequestOK /\ StackOK /\ Nested /\ Shared /\ i # "reader" /\ i # "writer" /\ i \in Callable
  BY FcgiParts, IdsApart DEF Callable
<1>1. CASE UNCHANGED <<stack, reader, writer>>
  BY <1>0, <1>1, NestStays DEF ReaderAwake, WriterAwake
<1>2. CASE Running(i) /\ Return /\ UNCHANGED <<reader, writer>>
  BY <1>0, <1>2, NestReturns
<1>3. CASE stack = <<>> /\ Call(i) /\ UNCHANGED <<reader, writer>>
  <2>1. DOMAIN stack = {}
    BY <1>3
  <2>2. (ReaderAwake' <=> ReaderAwake) /\ (WriterAwake' <=> WriterAwake)
    BY <1>3 DEF ReaderAwake, WriterAwake
  <2> QED BY <1>0, <1>3, <2>1, <2>2, NestCalls
<1>4. CASE AwaitReadable(i)
  <2>1. CASE Source(i).m_producer
    <3>1. StreamOf(request[i].pc) \in Types
      BY DEF StreamOf, Types
    <3>2. reader.pc = "blocked"
      BY <1>0, <2>1, <3>1 DEF Shared, Source
    <3>3. reader.io = "none"
      BY <1>0, <3>2 DEF Shared, ReaderOK, ReaderTypes
    <3>4. Running(i) /\ Transfer("reader") /\ UNCHANGED writer /\ reader' = [reader EXCEPT !.pc = "padding"]
      BY <1>4, <2>1 DEF AwaitReadable, Reading, ReadingPcs, outVars
    <3>5. ~ReaderAwake /\ ReaderAwake'
      BY <1>0, <3>2, <3>3, <3>4 DEF ReaderAwake, ReaderOK, ReaderTypes
    <3> QED BY <1>0, <3>4, <3>5, NestTransfers
  <2>2. CASE ~Source(i).m_producer
    BY <1>2, <1>4, <2>2 DEF AwaitReadable, Reading, ReadingPcs, outVars
  <2> QED BY <2>1, <2>2
<1>5. CASE RequestSuspend(i) \/ ContentCut(i) \/ AwaitItems(i) \/ Finish(i)
  BY <1>2, <1>5 DEF RequestSuspend, ContentCut, AwaitItems, Finish, Reading, ReadingPcs, Fail, outVars
<1>6. CASE RequestRecv(i) \/ ItemsCome(i)
  BY <1>3, <1>6 DEF RequestRecv, ItemsCome, outVars
<1>7. CASE ReadContent(i) \/ NextHeader(i) \/ Subscribe(i)
  BY <1>1, <1>7 DEF ReadContent, NextHeader, Subscribe, outVars
<1>8. CASE ReadReturns(i)
  <2>1. Running(i) /\ UNCHANGED <<reader, writer>>
    BY <1>8 DEF ReadReturns, Reading, ReadingPcs, outVars
  <2>2. Return \/ UNCHANGED stack
    BY <1>8, ReturnsCases DEF Fail
  <2> QED BY <1>1, <1>2, <2>1, <2>2
<1>9. CASE Dispatch(i)
  <2>1. Running(i) /\ UNCHANGED <<reader, writer>>
    BY <1>9 DEF Dispatch, Reading, ReadingPcs, outVars
  <2>2. Return \/ UNCHANGED stack
    BY <1>9, DispatchCases DEF Fail
  <2> QED BY <1>1, <1>2, <2>1, <2>2
<1>10. CASE Write(i)
  <2>1. Running(i) /\ UNCHANGED reader
    BY <1>10 DEF Write
  <2>2. \/ Return /\ UNCHANGED writer
        \/ writer = "idle" /\ writer' = "running" /\ Transfer("writer")
    BY <1>0, <1>10, WriteCases DEF Fail
  <2>3. CASE writer = "idle" /\ writer' = "running" /\ Transfer("writer")
    <3>1. ~WriterAwake /\ WriterAwake'
      BY <2>3 DEF WriterAwake
    <3> QED BY <1>0, <2>1, <2>3, <3>1, NestTransfers
  <2> QED BY <1>2, <2>1, <2>2, <2>3
<1> QED BY <1>4, <1>5, <1>6, <1>7, <1>8, <1>9, <1>10 DEF RunRequest

LEMMA NestedStep == FcgiInv /\ Next => Nested'
<1> SUFFICES ASSUME FcgiInv, Next PROVE Nested'
  OBVIOUS
<1>0. ReaderOK /\ RequestOK /\ StackOK /\ OutOK /\ Nested
  BY FcgiParts
<1>1. CASE UNCHANGED <<stack, reader, writer>>
  BY <1>0, <1>1, NestStays DEF ReaderAwake, WriterAwake
<1>2. CASE WebServer
  BY <1>1, <1>2 DEF WebServer, SendBegin, SendOther, SendContent, Send, Close, outVars
<1>3. CASE WriterNext
  <2>1. Running("writer") /\ Return /\ UNCHANGED reader /\ writer' \in {"idle", "sending"}
    BY <1>3 DEF WriterNext
  <2>2. ~WriterAwake'
    BY <2>1 DEF WriterAwake
  <2> QED BY <1>0, <2>1, <2>2, NestReturns
<1>4. CASE Sent
  <2>1. /\ stack = <<>> /\ DOMAIN stack = {} /\ Call("writer") /\ UNCHANGED reader
        /\ writer = "sending" /\ writer' = "sent" /\ "writer" \in Callable
    BY <1>4 DEF Sent, SendDone, Callable
  <2>2. WriterAwake' /\ (ReaderAwake' <=> ReaderAwake)
    BY <2>1 DEF WriterAwake, ReaderAwake
  <2> QED BY <1>0, <2>1, <2>2, NestCalls
<1>5. CASE WriterResumes
  <2> DEFINE i == Head(m_out_records).id
  <2>1. i \in Ids /\ (UNCHANGED stack \/ Call(i))
    BY <1>0, <1>5, ResumesCases
  <2> HIDE DEF i
  <2>2. Running("writer") /\ writer \in {"running", "sent"} /\ writer' = "running" /\ UNCHANGED reader
    BY <1>5 DEF WriterResumes
  <2>3. WriterAwake' /\ WriterAwake /\ (ReaderAwake' <=> ReaderAwake)
    BY <2>2 DEF WriterAwake, ReaderAwake
  <2>4. CASE UNCHANGED stack
    BY <1>0, <2>2, <2>3, <2>4, NestStays
  <2>5. CASE Call(i)
    <3>1. \A k \in DOMAIN stack : stack[k] # i
      <4> TAKE k \in DOMAIN stack
      <4>1. stack[1] = "writer" /\ DOMAIN stack = 1..Len(stack) /\ Len(stack) \in Nat
        BY <1>0, <2>2, RunsFirst
      <4>2. k > 1 => stack[k] = "reader" \/ stack[k] = "writer"
        BY <1>0 DEF Nested
      <4>3. stack[k] = "reader" \/ stack[k] = "writer"
        BY <4>1, <4>2
      <4> QED BY <2>1, <4>3, IdsApart
    <3>2. i \in Callable /\ i # "reader" /\ i # "writer"
      BY <2>1, IdsApart DEF Callable
    <3> QED BY <1>0, <2>2, <2>3, <2>5, <3>1, <3>2, NestCalls
  <2> QED BY <2>1, <2>4, <2>5
<1>6. CASE Teardown
  <2>1. DOMAIN stack' = {}
    BY <1>6, TeardownIs
  <2>2. ~ReaderAwake' /\ ~WriterAwake'
    BY <1>6, TeardownIs DEF ReaderAwake, WriterAwake
  <2> QED BY <2>1, <2>2 DEF Nested
<1>7. CASE Rest
  BY <1>1, <1>7 DEF Rest, vars, outVars
<1> QED BY <1>2, <1>3, <1>4, <1>5, <1>6, <1>7, NestedReader, NestedRequest DEF Next, Run

-----------------------------------------------------------------------------
(* Shared, step by step. *)

\* Who runs after a step.
LEMMA NoneRuns ==
  ASSUME StackOK, Nested, stack # <<>>, Return
  PROVE  \A i \in Ids : ~Running(i)'
<1> SUFFICES ASSUME NEW i \in Ids, Running(i)' PROVE FALSE
  OBVIOUS
<1>1. /\ StackOK' /\ DOMAIN stack = 1..Len(stack) /\ DOMAIN stack' = 1..(Len(stack) - 1)
      /\ Len(stack) \in Nat /\ \A k \in 1..(Len(stack) - 1) : stack'[k] = stack[k + 1]
  BY Returns
<1>2. stack' # <<>> /\ stack' \in Seq(Callable) /\ Head(stack') = i
  BY <1>1 DEF Running, StackOK, Callable
<1>3. Len(stack') # 0 /\ Len(stack') \in Nat /\ DOMAIN stack' = 1..Len(stack') /\ stack'[1] = i
  BY <1>2, EmptySeq, LenProperties
<1>4. 1 \in DOMAIN stack'
  BY <1>3
<1>5. 2 \in DOMAIN stack /\ stack[2] = i
  BY <1>1, <1>3, <1>4
<1>6. stack[2] = "reader" \/ stack[2] = "writer"
  BY <1>5 DEF Nested
<1> QED BY <1>5, <1>6, IdsApart

LEMMA OneRuns ==
  ASSUME StackOK, NEW c \in Callable, Call(c) \/ (stack # <<>> /\ Transfer(c))
  PROVE  \A x : Running(x)' => x = c
<1>1. StackOK' /\ stack'[1] = c
  BY Calls, Transfers
<1>2. stack' \in Seq(Callable)
  BY <1>1 DEF StackOK, Callable
<1> QED BY <1>1, <1>2 DEF Running

LEMMA SameRuns == UNCHANGED stack => \A x : Running(x)' => Running(x)
BY DEF Running

\* What a stream, and a request, owe to the reader: Shared for one of each.
StreamShared(i, t) ==
  /\ stream[i][t].m_remaining > 0 =>
       /\ reader.pc \in {"updating", "blocked"} /\ reader.io = "none"
       /\ reader.id = i /\ reader.type = t
  /\ stream[i][t].m_consumer =>
       /\ request[i].pc \in ReadingPcs /\ StreamOf(request[i].pc) = t
       /\ request[i].io = "none" /\ ~Running(i)
  /\ stream[i][t].m_producer =>
       reader.pc = "blocked" /\ reader.id = i /\ reader.type = t
RequestShared(i) == request[i].io # "none" => request[i].pc \in ReadingPcs /\ InLoop(i)
ReaderShared     == reader.io # "none" => reader.pc \in {"header", "begin", "padding"}

LEMMA SharedIs ==
  Shared <=> /\ \A i \in Ids, t \in Types : StreamShared(i, t)
             /\ \A i \in Ids : RequestShared(i)
             /\ ReaderShared
BY DEF Shared, StreamShared, RequestShared, ReaderShared

LEMMA SharedNext ==
  ASSUME \A i \in Ids, t \in Types : StreamShared(i, t)',
         \A i \in Ids : RequestShared(i)', ReaderShared'
  PROVE  Shared'
BY DEF Shared, StreamShared, RequestShared, ReaderShared

\* Streams and requests that a step leaves alone.
LEMMA SharedStays ==
  ASSUME Shared, UNCHANGED <<stream, reader, request>>, \A i \in Ids : Running(i)' => Running(i)
  PROVE  Shared'
<1>1. \A i \in Ids, t \in Types : StreamShared(i, t)'
  BY DEF Shared, StreamShared
<1>2. \A i \in Ids : RequestShared(i)'
  BY DEF Shared, RequestShared, InLoop, Source
<1>3. ReaderShared'
  BY DEF Shared, ReaderShared
<1> QED BY <1>1, <1>2, <1>3, SharedNext

\* While the reader is elsewhere no stream has content, or a producer, and no
\* request is in a receive.
LEMMA ReaderElsewhere ==
  ASSUME Shared, StreamOK, RequestOK, reader.pc \notin {"updating", "blocked"}
  PROVE  /\ \A i \in Ids, t \in Types :
              ~(stream[i][t].m_remaining > 0) /\ ~stream[i][t].m_producer
         /\ \A i \in Ids : request[i].io = "none"
<1>1. \A i \in Ids, t \in Types : ~(stream[i][t].m_remaining > 0) /\ ~stream[i][t].m_producer
  BY DEF Shared
<1>2. ASSUME NEW i \in Ids PROVE request[i].io = "none"
  <2>1. StreamOf(request[i].pc) \in Types
    BY DEF StreamOf, Types
  <2>2. ~InLoop(i)
    BY <1>1, <2>1 DEF InLoop, Source
  <2> QED BY <2>2 DEF Shared
<1> QED BY <1>1, <1>2

LEMMA SharedReader ==
  ASSUME Shared, StreamOK, RequestOK, reader.pc \notin {"updating", "blocked"},
         UNCHANGED <<stream, request>>, ReaderShared', \A i \in Ids : Running(i)' => Running(i)
  PROVE  Shared'
<1>1. /\ \A i \in Ids, t \in Types :
           ~(stream[i][t].m_remaining > 0) /\ ~stream[i][t].m_producer
      /\ \A i \in Ids : request[i].io = "none"
  BY ReaderElsewhere
<1>2. \A i \in Ids, t \in Types : StreamShared(i, t)'
  BY <1>1 DEF Shared, StreamShared
<1>3. \A i \in Ids : RequestShared(i)'
  BY <1>1 DEF RequestShared
<1> QED BY <1>2, <1>3, SharedNext

\* One request goes on, which is in no receive and stored in no stream.
LEMMA SharedRequest ==
  ASSUME Shared, StreamOK, RequestOK, NEW i \in Ids, UNCHANGED <<stream, reader>>,
         \A j \in Ids : j # i => request'[j] = request[j],
         request'[i].io = "none",
         Running(i) \/ request[i].pc \notin ReadingPcs,
         \A j \in Ids : j # i => (Running(j)' => Running(j))
  PROVE  Shared'
<1>1. \A t \in Types : ~stream[i][t].m_consumer
  BY DEF Shared
<1>2. \A j \in Ids, t \in Types : StreamShared(j, t)'
  <2> TAKE j \in Ids, t \in Types
  <2>1. StreamShared(j, t)
    BY SharedIs
  <2>2. CASE j = i
    BY <1>1, <2>1, <2>2 DEF StreamShared
  <2>3. CASE j # i
    BY <2>1, <2>3 DEF StreamShared
  <2> QED BY <2>2, <2>3
<1>3. \A j \in Ids : RequestShared(j)'
  <2> TAKE j \in Ids
  <2>1. CASE j = i
    BY <2>1 DEF RequestShared
  <2>2. CASE j # i
    BY <2>2 DEF Shared, RequestShared, InLoop, Source
  <2> QED BY <2>1, <2>2
<1>4. ReaderShared'
  BY DEF Shared, ReaderShared
<1> QED BY <1>2, <1>3, <1>4, SharedNext

\* The actions of read_req.
LEMMA SharedReads ==
  ASSUME FcgiInv, ReaderSuspend \/ ReaderRecv \/ ReaderCut \/ ReadBegin \/ ReadUnknown \/ ReadPadding
  PROVE  Shared'
<1>0. ReaderOK /\ RequestOK /\ StreamOK /\ StackOK /\ Nested /\ Shared
  BY FcgiParts
<1>1. UNCHANGED <<stream, request>>
  BY DEF ReaderSuspend, ReaderRecv, ReaderCut, ReadBegin, ReadUnknown, ReadPadding, EndReading
<1>2. reader.pc \notin {"updating", "blocked"}
  BY <1>0 DEF ReaderSuspend, ReaderRecv, ReaderCut, ReadBegin, ReadUnknown, ReadPadding, ReaderAt,
              Shared
<1>3. ReaderShared'
  BY <1>0 DEF ReaderSuspend, ReaderRecv, ReaderCut, ReadBegin, ReadUnknown, ReadPadding, ReaderAt,
              EndReading, ReaderShared, ReaderOK, ReaderTypes, Shared
<1>4. \A i \in Ids : Running(i)' => Running(i)
  <2>1. CASE ReaderRecv
    <3>1. "reader" \in Callable /\ Call("reader")
      BY <2>1 DEF ReaderRecv, Callable
    <3> QED BY <1>0, <3>1, OneRuns, IdsApart
  <2>2. CASE ReaderSuspend \/ ReaderCut \/ ReadUnknown
    <3>1. stack # <<>> /\ Return
      BY <1>0, <2>2, RunsFirst DEF ReaderSuspend, ReaderCut, ReadUnknown, EndReading, ReaderAt
    <3> QED BY <1>0, <3>1, NoneRuns
  <2>3. CASE ReadBegin \/ ReadPadding
    BY <2>3, SameRuns DEF ReadBegin, ReadPadding
  <2> QED BY <2>1, <2>2, <2>3
<1> QED BY <1>0, <1>1, <1>2, <1>3, <1>4, SharedReader

\* A change of one stream leaves the others as they were.
LEMMA OneStream ==
  ASSUME StreamOK, NEW i \in Ids, NEW t \in Types, NEW s, stream' = [stream EXCEPT ![i][t] = s]
  PROVE  /\ stream'[i][t] = s
         /\ \A j \in Ids, u \in Types : j # i \/ u # t => stream'[j][u] = stream[j][u]
BY DEF StreamOK

LEMMA SharedBegins ==
  ASSUME FcgiInv, BeginRequest
  PROVE  Shared'
<1>0. ReaderOK /\ RequestOK /\ StreamOK /\ StackOK /\ Nested /\ Shared
  BY FcgiParts
<1> DEFINE n == reader.id
<1>1. n \in Ids /\ Running("reader") /\ UNCHANGED stack /\ reader.pc = "begin"
  BY <1>0 DEF ReaderOK, ReaderTypes, BeginRequest, ReaderAt
<1>2. /\ \A i \in Ids, t \in Types :
           ~(stream[i][t].m_remaining > 0) /\ ~stream[i][t].m_producer
      /\ \A i \in Ids : request[i].io = "none"
  BY <1>0, <1>1, ReaderElsewhere
<1>3. /\ request'[n].pc = "params" /\ request'[n].io = "none"
      /\ \A i \in Ids : i # n => request'[i] = request[i]
  BY <1>0, <1>1 DEF BeginRequest, RequestOK, NewRequest
<1>4. /\ \A t \in Types : /\ stream'[n][t].m_remaining = 0 /\ ~stream'[n][t].m_producer
                          /\ stream'[n][t].m_consumer => t = "params"
      /\ \A i \in Ids : i # n => stream'[i] = stream[i]
  BY <1>0, <1>1 DEF BeginRequest, StreamOK, NewStream
<1>5. \A x : Running(x)' <=> Running(x)
  BY <1>1 DEF Running
<1>6. ~Running(n)
  BY <1>1, IdsApart DEF Running
<1>7. \A i \in Ids, t \in Types : StreamShared(i, t)'
  <2> TAKE i \in Ids, t \in Types
  <2>1. CASE i = n
    <3>1. stream'[i][t].m_consumer => t = StreamOf("params") /\ "params" \in ReadingPcs
      BY <1>4, <2>1 DEF StreamOf, ReadingPcs
    <3>2. ~(stream'[i][t].m_remaining > 0) /\ ~stream'[i][t].m_producer
      BY <1>4, <2>1
    <3>3. request'[i].pc = "params" /\ request'[i].io = "none" /\ ~Running(i)'
      BY <1>3, <1>5, <1>6, <2>1
    <3> HIDE DEF n
    <3> QED BY <3>1, <3>2, <3>3 DEF StreamShared, StreamOf
  <2>2. CASE i # n
    <3>1. stream'[i] = stream[i] /\ request'[i] = request[i] /\ (Running(i)' <=> Running(i))
      BY <1>3, <1>4, <1>5, <2>2
    <3> HIDE DEF n
    <3>2. /\ stream[i][t].m_consumer =>
               /\ request[i].pc \in ReadingPcs /\ StreamOf(request[i].pc) = t
               /\ request[i].io = "none" /\ ~Running(i)
          /\ ~(stream[i][t].m_remaining > 0) /\ ~stream[i][t].m_producer
      BY <1>0, <1>2 DEF Shared
    <3> QED BY <3>1, <3>2 DEF StreamShared, StreamOf
  <2> QED BY <2>1, <2>2
<1>8. \A i \in Ids : RequestShared(i)'
  BY <1>2, <1>3 DEF RequestShared
<1>9. ReaderShared'
  BY <1>0 DEF BeginRequest, ReaderShared, ReaderOK, ReaderTypes
<1> QED BY <1>7, <1>8, <1>9, SharedNext

LEMMA SharedUpdates ==
  ASSUME FcgiInv, Update
  PROVE  Shared'
<1>0. ReaderOK /\ RequestOK /\ StreamOK /\ StackOK /\ Nested /\ Shared /\ WireOK
  BY FcgiParts
<1> DEFINE h == wire[1]
           s == stream[h.id][h.type]
           u == [s EXCEPT !.m_ended = (h.len = 0), !.m_remaining = h.len, !.m_consumer = FALSE]
<1>1. h.id \in Ids /\ h.type \in Types /\ Running("reader") /\ reader.pc = "header"
  BY <1>0, FirstUnit DEF Update, ReaderHas, ReaderAt
<1>2. /\ \A i \in Ids, t \in Types :
           ~(stream[i][t].m_remaining > 0) /\ ~stream[i][t].m_producer
      /\ \A i \in Ids : request[i].io = "none"
  BY <1>0, <1>1, ReaderElsewhere
<1>3. /\ stream' = [stream EXCEPT ![h.id][h.type] = u] /\ UNCHANGED request
      /\ IF s.m_consumer THEN Call(h.id) ELSE UNCHANGED stack
      /\ s \in StreamTypes
  BY <1>0, <1>1, StreamIs DEF Update
<1>4. reader'.pc = "updating" /\ reader'.io = "none" /\ reader'.id = h.id /\ reader'.type = h.type
  BY <1>0 DEF Update, ReaderOK, ReaderTypes
<1>5. ~u.m_consumer /\ (u.m_producer <=> s.m_producer)
  BY <1>3 DEF StreamTypes
<1> HIDE DEF s, u, h
<1>6. ~u.m_producer
  BY <1>1, <1>2, <1>5 DEF s
<1>7. /\ stream'[h.id][h.type] = u
      /\ \A j \in Ids, t \in Types : j # h.id \/ t # h.type => stream'[j][t] = stream[j][t]
  BY <1>0, <1>1, <1>3, OneStream
<1>8. \A i \in Ids : Running(i)' => (Running(i) \/ (i = h.id /\ s.m_consumer))
  <2>1. CASE s.m_consumer
    <3>1. h.id \in Callable /\ Call(h.id)
      BY <1>1, <1>3, <2>1 DEF Callable
    <3> QED BY <1>0, <2>1, <3>1, OneRuns
  <2>2. CASE ~s.m_consumer
    BY <1>3, <2>2, SameRuns
  <2> QED BY <2>1, <2>2
<1>9. \A i \in Ids, t \in Types : StreamShared(i, t)'
  <2> TAKE i \in Ids, t \in Types
  <2>1. CASE i = h.id /\ t = h.type
    BY <1>4, <1>5, <1>6, <1>7, <2>1 DEF StreamShared
  <2>2. CASE ~(i = h.id /\ t = h.type)
    <3>1. stream'[i][t] = stream[i][t] /\ request'[i] = request[i]
      BY <1>3, <1>7, <2>2
    <3>2. ~(stream[i][t].m_remaining > 0) /\ ~stream[i][t].m_producer
      BY <1>2
    <3>3. ASSUME stream[i][t].m_consumer
          PROVE  /\ request[i].pc \in ReadingPcs /\ StreamOf(request[i].pc) = t
                 /\ request[i].io = "none" /\ ~Running(i)'
      <4>1. /\ request[i].pc \in ReadingPcs /\ StreamOf(request[i].pc) = t
            /\ request[i].io = "none" /\ ~Running(i)
        BY <1>0, <3>3 DEF Shared
      <4>2. ~(i = h.id /\ s.m_consumer)
        <5> SUFFICES ASSUME i = h.id, s.m_consumer PROVE FALSE
          OBVIOUS
        <5>1. StreamOf(request[i].pc) = h.type
          BY <1>0, <1>1 DEF Shared, s
        <5> QED BY <2>2, <4>1, <5>1
      <4> QED BY <1>8, <4>1, <4>2
    <3> QED BY <3>1, <3>2, <3>3 DEF StreamShared, StreamOf
  <2> QED BY <2>1, <2>2
<1>10. \A i \in Ids : RequestShared(i)'
  BY <1>2, <1>3 DEF RequestShared
<1>11. ReaderShared'
  BY <1>4 DEF ReaderShared
<1> QED BY <1>9, <1>10, <1>11, SharedNext

LEMMA SharedUpdated ==
  ASSUME FcgiInv, Updated
  PROVE  Shared'
<1>0. ReaderOK /\ RequestOK /\ StreamOK /\ StackOK /\ Nested /\ Shared /\ Parsed
  BY FcgiParts
<1>1. reader.pc = "updating" /\ Running("reader") /\ UNCHANGED request /\ stack # <<>>
  BY <1>0, RunsFirst DEF Updated, ReaderAt
<1>2. reader.id \in Ids /\ reader.type \in Types
  BY <1>0, <1>1 DEF ReaderOK, ReaderTypes, Parsed
<1>3. \A i \in Ids, t \in Types : ~stream[i][t].m_producer
  BY <1>0, <1>1 DEF Shared
<1>4. reader.io = "none"
  BY <1>0, <1>1 DEF Shared
<1>5. CASE /\ stream[reader.id][reader.type].m_remaining = 0
           /\ reader' = [reader EXCEPT !.pc = "padding"] /\ UNCHANGED <<stack, stream>>
  <2>1. reader'.io = "none"
    BY <1>0, <1>4, <1>5 DEF ReaderOK, ReaderTypes
  <2>2. \A i \in Ids, t \in Types : ~(stream[i][t].m_remaining > 0)
    <3>1. stream[reader.id][reader.type].m_remaining \in Nat /\ ~(0 > 0)
      BY <1>5
    <3> QED BY <1>0, <1>5, <3>1 DEF Shared
  <2>3. \A x : Running(x)' <=> Running(x)
    BY <1>5 DEF Running
  <2>4. \A i \in Ids, t \in Types : StreamShared(i, t)'
    <3> TAKE i \in Ids, t \in Types
    <3>1. stream[i][t].m_consumer =>
               /\ request[i].pc \in ReadingPcs /\ StreamOf(request[i].pc) = t
               /\ request[i].io = "none" /\ ~Running(i)
      BY <1>0 DEF Shared
    <3>2. ~(stream[i][t].m_remaining > 0) /\ ~stream[i][t].m_producer
      BY <1>3, <2>2
    <3> QED BY <1>1, <1>5, <2>3, <3>1, <3>2 DEF StreamShared, StreamOf
  <2>5. \A i \in Ids : RequestShared(i)'
    BY <1>0, <1>1, <1>5 DEF Shared, RequestShared, InLoop, Source
  <2>6. ReaderShared'
    BY <2>1 DEF ReaderShared
  <2> QED BY <2>4, <2>5, <2>6, SharedNext
<1>6. CASE /\ reader' = [reader EXCEPT !.pc = "blocked"] /\ Return
           /\ stream' = [stream EXCEPT ![reader.id][reader.type].m_producer = TRUE]
  <2> DEFINE s == stream[reader.id][reader.type]
             u == [s EXCEPT !.m_producer = TRUE]
  <2>1. reader'.io = "none" /\ reader'.pc = "blocked" /\ reader'.id = reader.id /\ reader'.type = reader.type
    BY <1>0, <1>4, <1>6 DEF ReaderOK, ReaderTypes
  <2>2. stream' = [stream EXCEPT ![reader.id][reader.type] = u] /\ s \in StreamTypes
    BY <1>0, <1>2, <1>6, StreamIs
  <2>3. u.m_remaining = s.m_remaining /\ (u.m_consumer <=> s.m_consumer)
    BY <2>2 DEF StreamTypes
  <2> HIDE DEF u, s
  <2>4. /\ stream'[reader.id][reader.type] = u
        /\ \A j \in Ids, t \in Types :
             j # reader.id \/ t # reader.type => stream'[j][t] = stream[j][t]
    BY <1>0, <1>2, <2>2, OneStream DEF StreamOK
  <2>5. \A i \in Ids : ~Running(i)'
    BY <1>0, <1>1, <1>6, NoneRuns
  <2>6. \A i \in Ids, t \in Types : /\ stream'[i][t].m_remaining = stream[i][t].m_remaining
                                    /\ stream'[i][t].m_consumer <=> stream[i][t].m_consumer
                                    /\ stream'[i][t].m_producer => i = reader.id /\ t = reader.type
    BY <1>3, <2>3, <2>4 DEF s
  <2>7. \A i \in Ids, t \in Types : StreamShared(i, t)'
    <3> TAKE i \in Ids, t \in Types
    <3>1. /\ stream[i][t].m_consumer =>
               /\ request[i].pc \in ReadingPcs /\ StreamOf(request[i].pc) = t
               /\ request[i].io = "none"
          /\ stream[i][t].m_remaining > 0 => reader.id = i /\ reader.type = t
      BY <1>0 DEF Shared
    <3> QED BY <1>1, <2>1, <2>5, <2>6, <3>1 DEF StreamShared, StreamOf
  <2>8. \A i \in Ids : RequestShared(i)'
    <3> TAKE i \in Ids
    <3>1. StreamOf(request[i].pc) \in Types
      BY DEF StreamOf, Types
    <3>2. InLoop(i)' <=> InLoop(i)
      BY <1>1, <2>6, <3>1 DEF InLoop, Source, StreamOf
    <3> QED BY <1>0, <1>1, <3>2 DEF Shared, RequestShared
  <2>9. ReaderShared'
    BY <2>1 DEF ReaderShared
  <2> QED BY <2>7, <2>8, <2>9, SharedNext
<1> QED BY <1>5, <1>6 DEF Updated

LEMMA SharedAwaits ==
  ASSUME FcgiInv, NEW i \in Ids, AwaitReadable(i)
  PROVE  Shared'
<1>0. ReaderOK /\ RequestOK /\ StreamOK /\ StackOK /\ Nested /\ Shared
  BY FcgiParts
<1> DEFINE t == StreamOf(request[i].pc)
           s == Source(i)
           u == [s EXCEPT !.m_consumer = TRUE, !.m_producer = FALSE]
<1>1. /\ t \in Types /\ stream' = [stream EXCEPT ![i][t] = u] /\ s = stream[i][t] /\ s \in StreamTypes
  BY <1>0, AwaitIs, StreamIs DEF Source
<1>2. /\ Running(i) /\ request[i].pc \in ReadingPcs /\ UNCHANGED request /\ stack # <<>>
      /\ s.m_remaining = 0
  <2>1. ~(s.m_remaining > 0) /\ s.m_remaining \in Nat
    BY <1>1, FcgiAssumption DEF AwaitReadable, Readable, StreamTypes
  <2> QED BY <1>0, <2>1, RunsFirst DEF AwaitReadable, Reading, ReadingPcs
<1>3. u.m_remaining = 0 /\ ~u.m_producer
  BY <1>1, <1>2 DEF StreamTypes
<1>4. request[i].io = "none"
  BY <1>0, <1>2 DEF Shared, InLoop
<1>5. \A j \in Ids : ~Running(j)'
  <2>1. CASE Transfer("reader")
    <3>1. "reader" \in Callable
      BY DEF Callable
    <3> QED BY <1>0, <1>2, <2>1, <3>1, OneRuns, IdsApart
  <2>2. CASE Return
    BY <1>0, <1>2, <2>2, NoneRuns
  <2> QED BY <2>1, <2>2 DEF AwaitReadable
<1> HIDE DEF u, s
<1>6. /\ stream'[i][t] = u
      /\ \A j \in Ids, v \in Types : j # i \/ v # t => stream'[j][v] = stream[j][v]
  BY <1>0, <1>1, OneStream DEF StreamOK
<1>7. /\ s.m_producer => /\ reader.pc = "blocked" /\ reader.id = i /\ reader.type = t
                         /\ reader'.pc = "padding" /\ reader'.io = "none"
      /\ ~s.m_producer => UNCHANGED reader
  <2>1. s.m_producer => reader.pc = "blocked" /\ reader.id = i /\ reader.type = t
    BY <1>0, <1>1 DEF Shared
  <2>2. s.m_producer => reader.io = "none"
    BY <1>0, <2>1 DEF Shared, ReaderOK, ReaderTypes
  <2>3. s.m_producer => reader'.pc = "padding" /\ reader'.io = "none"
    BY <1>0, <2>2 DEF AwaitReadable, ReaderOK, ReaderTypes, s
  <2>4. ~s.m_producer => UNCHANGED reader
    BY DEF AwaitReadable, s
  <2> QED BY <2>1, <2>3, <2>4
<1> HIDE DEF t
<1>8. \A j \in Ids, v \in Types : StreamShared(j, v)'
  <2> TAKE j \in Ids, v \in Types
  <2>1. CASE j = i /\ v = t
    <3>1. ~(0 > 0)
      OBVIOUS
    <3> QED BY <1>2, <1>3, <1>4, <1>5, <1>6, <2>1, <3>1 DEF StreamShared, t, StreamOf
  <2>2. CASE ~(j = i /\ v = t)
    <3>1. stream'[j][v] = stream[j][v]
      BY <1>6, <2>2
    <3>2. /\ stream[j][v].m_remaining > 0 =>
               /\ reader.pc \in {"updating", "blocked"} /\ reader.io = "none"
               /\ reader.id = j /\ reader.type = v
          /\ stream[j][v].m_consumer =>
               /\ request[j].pc \in ReadingPcs /\ StreamOf(request[j].pc) = v
               /\ request[j].io = "none"
          /\ stream[j][v].m_producer =>
               reader.pc = "blocked" /\ reader.id = j /\ reader.type = v
      BY <1>0 DEF Shared
    <3>3. CASE s.m_producer
      <4>1. ~(stream[j][v].m_remaining > 0) /\ ~stream[j][v].m_producer
        BY <1>7, <2>2, <3>2, <3>3
      <4> QED BY <1>2, <1>5, <3>1, <3>2, <4>1 DEF StreamShared, StreamOf
    <3>4. CASE ~s.m_producer
      BY <1>2, <1>5, <1>7, <3>1, <3>2, <3>4 DEF StreamShared, StreamOf
    <3> QED BY <3>3, <3>4
  <2> QED BY <2>1, <2>2
<1>9. \A j \in Ids, v \in Types : stream'[j][v].m_remaining = stream[j][v].m_remaining
  BY <1>1, <1>2, <1>3, <1>6
<1>10. \A j \in Ids : RequestShared(j)'
  <2> TAKE j \in Ids
  <2>1. StreamOf(request[j].pc) \in Types
    BY DEF StreamOf, Types
  <2>2. InLoop(j)' <=> InLoop(j)
    BY <1>2, <1>9, <2>1 DEF InLoop, Source, StreamOf
  <2> QED BY <1>0, <1>2, <2>2 DEF Shared, RequestShared
<1>11. ReaderShared'
  BY <1>0, <1>7 DEF Shared, ReaderShared
<1> QED BY <1>8, <1>10, <1>11, SharedNext

\* A request suspends in a receive, and wakes: in the loop of read or skip.
LEMMA SharedReceives ==
  ASSUME FcgiInv, NEW i \in Ids, RequestSuspend(i) \/ RequestRecv(i)
  PROVE  Shared'
<1>0. ReaderOK /\ RequestOK /\ StreamOK /\ StackOK /\ Nested /\ Shared
  BY FcgiParts
<1>1. UNCHANGED <<reader, stream>>
  BY DEF RequestSuspend, RequestRecv
<1>2. PICK io \in {"recv", "ready"} : Changed(i, request[i].pc, request[i].want, io, request[i].next)
  BY <1>0, IoIs DEF RequestSuspend, RequestRecv
<1>3. request[i].pc \in ReadingPcs /\ InLoop(i)
  <2>1. CASE RequestSuspend(i)
    BY <2>1 DEF RequestSuspend, Reading, ReadingPcs
  <2>2. CASE RequestRecv(i)
    BY <1>0, <2>2 DEF RequestRecv, Shared
  <2> QED BY <2>1, <2>2
<1>4. \A t \in Types : ~stream[i][t].m_consumer
  BY <1>0 DEF RequestSuspend, RequestRecv, Reading, ReadingPcs, Shared
<1>5. \A j \in Ids : j # i => (Running(j)' => Running(j))
  <2>1. CASE RequestSuspend(i)
    <3>1. stack # <<>> /\ Return
      BY <1>0, <2>1, RunsFirst DEF RequestSuspend, Reading, ReadingPcs
    <3> QED BY <1>0, <3>1, NoneRuns
  <2>2. CASE RequestRecv(i)
    <3>1. i \in Callable /\ Call(i)
      BY <2>2 DEF RequestRecv, Callable
    <3> QED BY <1>0, <3>1, OneRuns
  <2> QED BY <2>1, <2>2
<1>6. \A j \in Ids, t \in Types : StreamShared(j, t)'
  <2> TAKE j \in Ids, t \in Types
  <2>1. StreamShared(j, t)
    BY <1>0, SharedIs
  <2>2. CASE j = i
    BY <1>1, <1>4, <2>1, <2>2 DEF StreamShared
  <2>3. CASE j # i
    BY <1>1, <1>2, <1>5, <2>1, <2>3 DEF StreamShared, Changed
  <2> QED BY <2>2, <2>3
<1>7. \A j \in Ids : RequestShared(j)'
  <2> TAKE j \in Ids
  <2>1. request'[j].pc = request[j].pc /\ request'[j].want = request[j].want
    BY <1>2 DEF Changed
  <2>2. InLoop(j)' <=> InLoop(j)
    BY <1>1, <2>1 DEF InLoop, Source
  <2>3. CASE j = i
    BY <1>3, <2>1, <2>2, <2>3 DEF RequestShared
  <2>4. CASE j # i
    BY <1>0, <1>2, <2>2, <2>4 DEF Shared, RequestShared, Changed
  <2> QED BY <2>3, <2>4
<1>8. ReaderShared'
  BY <1>0, <1>1 DEF Shared, ReaderShared
<1> QED BY <1>6, <1>7, <1>8, SharedNext

LEMMA SharedContent ==
  ASSUME FcgiInv, NEW i \in Ids, ReadContent(i)
  PROVE  Shared'
<1>0. WireOK /\ ReaderOK /\ RequestOK /\ StreamOK /\ StackOK /\ Nested /\ Shared
  BY FcgiParts
<1> DEFINE t == StreamOf(request[i].pc)
           n == Source(i).m_remaining - Share(i)
           u == [Source(i) EXCEPT !.m_remaining = n]
<1>1. /\ UNCHANGED <<reader, stack>> /\ Running(i)
      /\ stream' = [stream EXCEPT ![i][t] = u]
      /\ Changed(i, request[i].pc, request[i].want - Share(i), "none", request[i].next)
  BY <1>0, ContentIs DEF ReadContent, Reading, ReadingPcs
<1>2. /\ t \in Types /\ Source(i) = stream[i][t] /\ Source(i) \in StreamTypes
      /\ Source(i).m_remaining \in Nat /\ Share(i) \in Nat /\ Share(i) > 0
      /\ Source(i).m_remaining > 0
  BY <1>0, ShareIs, StreamIs, FcgiAssumption DEF Source, ReadContent, InLoop
<1>3. n \in Int /\ (n > 0 => stream[i][t].m_remaining > 0)
  BY <1>2
<1> HIDE DEF n
<1>4. /\ u.m_remaining = n /\ (u.m_consumer <=> stream[i][t].m_consumer)
      /\ (u.m_producer <=> stream[i][t].m_producer)
  BY <1>2 DEF StreamTypes
<1> HIDE DEF u
<1>5. /\ stream'[i][t] = u
      /\ \A j \in Ids, v \in Types : j # i \/ v # t => stream'[j][v] = stream[j][v]
  BY <1>0, <1>1, <1>2, OneStream DEF StreamOK
<1>6. \A j \in Ids, v \in Types :
        /\ stream'[j][v].m_remaining > 0 => stream[j][v].m_remaining > 0
        /\ stream'[j][v].m_consumer <=> stream[j][v].m_consumer
        /\ stream'[j][v].m_producer <=> stream[j][v].m_producer
  BY <1>3, <1>4, <1>5
<1>7. reader.id = i /\ reader.type = t
  BY <1>0, <1>2 DEF Shared
<1>8. \A j \in Ids : j # i => request[j].io = "none"
  <2> TAKE j \in Ids
  <2> HAVE j # i
  <2>1. StreamOf(request[j].pc) \in Types
    BY DEF StreamOf, Types
  <2>2. ~(stream[j][StreamOf(request[j].pc)].m_remaining > 0)
    BY <1>0, <1>7, <2>1 DEF Shared
  <2> QED BY <1>0, <2>2 DEF Shared, InLoop, Source
<1>9. \A x : Running(x)' <=> Running(x)
  BY <1>1 DEF Running
<1>10. \A j \in Ids, v \in Types : StreamShared(j, v)'
  <2> TAKE j \in Ids, v \in Types
  <2>1. /\ stream[j][v].m_remaining > 0 =>
             /\ reader.pc \in {"updating", "blocked"} /\ reader.io = "none"
             /\ reader.id = j /\ reader.type = v
        /\ stream[j][v].m_consumer =>
             /\ request[j].pc \in ReadingPcs /\ StreamOf(request[j].pc) = v
             /\ request[j].io = "none" /\ ~Running(j)
        /\ stream[j][v].m_producer =>
             reader.pc = "blocked" /\ reader.id = j /\ reader.type = v
    BY <1>0 DEF Shared
  <2>2. request'[j].pc = request[j].pc /\ (request[j].io = "none" => request'[j].io = "none")
    BY <1>1 DEF Changed
  <2> QED BY <1>1, <1>6, <1>9, <2>1, <2>2 DEF StreamShared, StreamOf
<1>11. \A j \in Ids : RequestShared(j)'
  BY <1>1, <1>8 DEF RequestShared, Changed
<1>12. ReaderShared'
  BY <1>0, <1>1 DEF Shared, ReaderShared
<1> QED BY <1>10, <1>11, <1>12, SharedNext

\* The other actions of a request: it is in no receive, before and after.
LEMMA SharedGoes ==
  ASSUME FcgiInv, NEW i \in Ids,
         \/ ContentCut(i) \/ ReadReturns(i) \/ NextHeader(i) \/ Dispatch(i) \/ Subscribe(i)
         \/ AwaitItems(i) \/ ItemsCome(i) \/ Finish(i) \/ Write(i)
  PROVE  Shared'
<1>0. ReaderOK /\ RequestOK /\ StreamOK /\ StackOK /\ Nested /\ Shared /\ OutOK
  BY FcgiParts
<1>1. UNCHANGED <<reader, stream>>
  BY DEF ContentCut, ReadReturns, NextHeader, Dispatch, Subscribe, AwaitItems, ItemsCome, Finish, Write
<1>2. ~ItemsCome(i) => Running(i) /\ stack # <<>>
  BY <1>0, RunsFirst DEF ContentCut, ReadReturns, NextHeader, Dispatch, Subscribe, AwaitItems, Finish,
                         Write, Reading, ReadingPcs
<1>3. request[i].pc \notin ReadingPcs => request[i].io = "none"
  BY <1>0 DEF Shared
<1>4. Running(i) \/ request[i].pc \notin ReadingPcs
  BY <1>2 DEF ItemsCome, ReadingPcs
<1>5. ASSUME Fail(i), ~ItemsCome(i) PROVE Shared'
  <2>1. Changed(i, "failed", request[i].want, "none", request[i].next) /\ Return
    BY <1>0, <1>5, FailIs DEF Fail
  <2> QED BY <1>0, <1>1, <1>2, <1>5, <2>1, NoneRuns, SharedRequest DEF Changed
<1>6. ASSUME NEW pc, NEW n, NEW next, Changed(i, pc, n, request[i].io, next), request[i].io = "none",
             \A j \in Ids : j # i => (Running(j)' => Running(j))
      PROVE  Shared'
  BY <1>0, <1>1, <1>4, <1>6, SharedRequest DEF Changed
<1>7. UNCHANGED stack => \A j \in Ids : j # i => (Running(j)' => Running(j))
  BY SameRuns
<1>8. stack # <<>> /\ Return => \A j \in Ids : j # i => (Running(j)' => Running(j))
  BY <1>0, NoneRuns
<1>9. CASE ContentCut(i)
  BY <1>5, <1>9 DEF ContentCut, ItemsCome, Reading, ReadingPcs, Running
<1>10. CASE ReadReturns(i)
  <2>1. request[i].io = "none" /\ ~ItemsCome(i)
    BY <1>0, <1>10, <1>2 DEF ReadReturns, Shared, ItemsCome, Reading, ReadingPcs
  <2>2. "value" \in RequestPcs /\ "reply" \in RequestPcs
    BY DEF RequestPcs
  <2>3. CASE UNCHANGED stack /\ GoFor(i, "value", 1)
    BY <1>0, <1>6, <1>7, <2>1, <2>2, <2>3, GoForIs
  <2>4. CASE UNCHANGED stack /\ request' = [request EXCEPT ![i].pc = "params", ![i].headers = TRUE]
    BY <1>0, <1>6, <1>7, <2>1, <2>4, ValueIs
  <2>5. CASE UNCHANGED stack /\ Go(i, "reply")
    BY <1>0, <1>6, <1>7, <2>1, <2>2, <2>5, GoIs
  <2> QED BY <1>5, <1>10, <2>1, <2>3, <2>4, <2>5, ReturnsCases
<1>11. CASE NextHeader(i)
  <2>1. request[i].io = "none" /\ "lens" \in RequestPcs /\ GoFor(i, "lens", 1) /\ UNCHANGED stack
    BY <1>0, <1>11 DEF NextHeader, Shared, InLoop, RequestPcs
  <2> QED BY <1>0, <1>6, <1>7, <2>1, GoForIs
<1>12. CASE Dispatch(i)
  <2>1. request[i].io = "none" /\ ~ItemsCome(i)
    BY <1>0, <1>12 DEF Dispatch, Shared, InLoop, ItemsCome, Reading, ReadingPcs
  <2>2. \A pc \in {"body", "head", "reply"} : pc \in RequestPcs
    BY DEF RequestPcs
  <2>3. ASSUME NEW pc \in {"body", "head", "reply"}, NEW n \in Nat, GoFor(i, pc, n), UNCHANGED stack
        PROVE  Shared'
    BY <1>0, <1>6, <1>7, <2>1, <2>2, <2>3, GoForIs
  <2> QED BY <1>5, <1>12, <2>1, <2>3, DispatchCases
<1>13. CASE Subscribe(i)
  <2>1. PICK pc \in {"reply", "await"} : Go(i, pc)
    BY <1>13 DEF Subscribe
  <2>2. pc \in RequestPcs
    BY DEF RequestPcs
  <2>3. request[i].io = "none" /\ UNCHANGED stack
    BY <1>3, <1>13 DEF Subscribe, ReadingPcs
  <2> QED BY <1>0, <1>6, <1>7, <2>1, <2>2, <2>3, GoIs
<1>14. CASE AwaitItems(i)
  <2>1. request[i].io = "none" /\ "items" \in RequestPcs /\ Go(i, "items") /\ Return /\ stack # <<>>
    BY <1>0, <1>3, <1>14, RunsFirst DEF AwaitItems, ReadingPcs, RequestPcs
  <2> QED BY <1>0, <1>6, <1>8, <2>1, GoIs
<1>15. CASE ItemsCome(i)
  <2>1. /\ request[i].io = "none" /\ "message" \in RequestPcs /\ Go(i, "message")
        /\ Call(i) /\ i \in Callable
    BY <1>3, <1>15 DEF ItemsCome, ReadingPcs, RequestPcs, Callable
  <2>2. \A j \in Ids : j # i => (Running(j)' => Running(j))
    BY <1>0, <2>1, OneRuns
  <2> QED BY <1>0, <1>6, <2>1, <2>2, GoIs
<1>16. CASE Finish(i)
  <2>1. ~InLoop(i)
    <3>1. ~(0 > 0)
      OBVIOUS
    <3> QED BY <1>16, <3>1 DEF Finish, InLoop
  <2>2. request[i].io = "none" /\ "done" \in RequestPcs /\ Go(i, "done") /\ Return /\ stack # <<>>
    BY <1>0, <1>16, <2>1, RunsFirst DEF Finish, Shared, RequestPcs, Reading, ReadingPcs
  <2> QED BY <1>0, <1>6, <1>8, <2>2, GoIs
<1>17. CASE Write(i)
  <2>1. request[i].io = "none" /\ Running(i) /\ stack # <<>> /\ "writer" \in Callable
    BY <1>0, <1>3, <1>17, WriteCases, RunsFirst DEF Write, WriteAt, ReadingPcs, Callable
  <2>2. CASE Fail(i)
    <3>1. ~ItemsCome(i)
      BY <2>1 DEF ItemsCome
    <3> QED BY <1>5, <2>2, <3>1
  <2>3. ASSUME NEW next, Changed(i, "writing", request[i].want, request[i].io, next),
               Return \/ Transfer("writer")
        PROVE  Shared'
    <3>1. \A j \in Ids : j # i => (Running(j)' => Running(j))
      BY <1>0, <2>1, <2>3, NoneRuns, OneRuns, IdsApart
    <3> QED BY <1>6, <2>1, <2>3, <3>1
  <2> QED BY <1>0, <1>17, <2>2, <2>3, WriteCases
<1> QED BY <1>9, <1>10, <1>11, <1>12, <1>13, <1>14, <1>15, <1>16, <1>17

LEMMA SharedStep == FcgiInv /\ Next => Shared'
<1> SUFFICES ASSUME FcgiInv, Next PROVE Shared'
  OBVIOUS
<1>0. ReaderOK /\ RequestOK /\ StreamOK /\ StackOK /\ OutOK /\ Nested /\ Shared /\ Queued
  BY FcgiParts
<1>1. CASE WebServer \/ Rest
  <2>1. UNCHANGED <<stack, stream, reader, request>>
    BY <1>1 DEF WebServer, SendBegin, SendOther, SendContent, Send, Close, Rest, vars
  <2> QED BY <1>0, <2>1, SharedStays, SameRuns
<1>2. CASE WriterNext
  <2>1. stack # <<>> /\ Return /\ UNCHANGED <<stream, reader, request>>
    BY <1>0, <1>2, RunsFirst DEF WriterNext
  <2> QED BY <1>0, <2>1, SharedStays, NoneRuns
<1>3. CASE Sent
  <2>1. "writer" \in Callable /\ Call("writer") /\ UNCHANGED <<stream, reader, request>>
    BY <1>3 DEF Sent, SendDone, Callable
  <2> QED BY <1>0, <2>1, SharedStays, OneRuns, IdsApart
<1>4. CASE WriterResumes
  <2> DEFINE i == Head(m_out_records).id
  <2>1. i \in Ids /\ request[i].pc = "writing"
    <3>1. 1 \in DOMAIN m_out_records /\ Head(m_out_records) = m_out_records[1] /\ i \in Ids
      BY <1>0, <1>4, QueueIs DEF WriterResumes
    <3>2. request[m_out_records[1].id].pc = "writing"
      BY <1>0, <3>1 DEF Queued
    <3> QED BY <3>1, <3>2
  <2>2. request[i].io = "none" /\ request[i].pc \notin ReadingPcs
    BY <1>0, <2>1 DEF Shared, ReadingPcs
  <2>3. PICK pc, n : Changed(i, pc, n, request[i].io, request[i].next) /\ (UNCHANGED stack \/ Call(i))
    BY <1>0, <1>4, ResumesCases
  <2> HIDE DEF i
  <2>4. \A j \in Ids : j # i => (Running(j)' => Running(j))
    BY <1>0, <2>1, <2>3, SameRuns, OneRuns DEF Callable
  <2>5. UNCHANGED <<stream, reader>>
    BY <1>4 DEF WriterResumes
  <2> QED BY <1>0, <2>1, <2>2, <2>3, <2>4, <2>5, SharedRequest DEF Changed
<1>5. CASE Teardown
  <2>1. \A i \in Ids, t \in Types : StreamShared(i, t)'
    <3>1. ~(0 > 0)
      OBVIOUS
    <3> QED BY <1>5, <3>1, TeardownIs DEF StreamShared, NewStream
  <2>2. \A i \in Ids : RequestShared(i)'
    BY <1>5, TeardownIs DEF RequestShared, NewRequest
  <2>3. ReaderShared'
    BY <1>5, TeardownIs DEF ReaderShared
  <2> QED BY <2>1, <2>2, <2>3, SharedNext
<1> QED BY <1>1, <1>2, <1>3, <1>4, <1>5, SharedReads, SharedBegins, SharedUpdates, SharedUpdated,
           SharedAwaits, SharedReceives, SharedContent, SharedGoes DEF Next, Run, RunRequest

-----------------------------------------------------------------------------
(* Parsed, step by step. *)

\* v is w without its first n units, or up to its first n, or w and then r.
Suffix(w, v, n) ==
  /\ Len(w) \in Nat /\ n \in Nat /\ n <= Len(w) /\ Len(v) = Len(w) - n
  /\ DOMAIN w = 1..Len(w) /\ DOMAIN v = 1..(Len(w) - n)
  /\ \A k \in 1..(Len(w) - n) : v[k] = w[k + n]
Prefix(w, v, n) ==
  /\ Len(w) \in Nat /\ n \in 0..Len(w)
  /\ DOMAIN w = 1..Len(w) /\ DOMAIN v = 1..n
  /\ \A k \in 1..n : v[k] = w[k]
Joined(w, r, v) ==
  /\ Len(w) \in Nat /\ Len(r) \in Nat /\ Len(v) = Len(w) + Len(r)
  /\ DOMAIN w = 1..Len(w) /\ DOMAIN v = 1..(Len(w) + Len(r))
  /\ \A k \in 1..Len(w) : v[k] = w[k]
  /\ \A k \in 1..Len(r) : v[k + Len(w)] = r[k]

LEMMA FollowsShift ==
  ASSUME NEW w, NEW v, NEW n, Suffix(w, v, n), NEW at \in Nat, n <= at,
         NEW c \in Nat, NEW p \in Nat, NEW type, NEW id, NEW cut, Continues(w, at, c, p, type, id, cut)
  PROVE  Continues(v, at - n, c, p, type, id, cut)
<1>1. /\ Len(w) \in Nat /\ n \in Nat /\ n <= Len(w) /\ Len(v) = Len(w) - n
      /\ DOMAIN w = 1..Len(w) /\ DOMAIN v = 1..(Len(w) - n)
  BY DEF Suffix
<1>2. \A k \in DOMAIN v : k \in Nat /\ k + n \in DOMAIN w /\ v[k] = w[k + n]
  BY DEF Suffix
<1>3. \A k \in DOMAIN v :
        /\ k > at - n /\ k <= (at - n) + c => v[k] = Unit("content", type, id, 0)
        /\ k > (at - n) + c /\ k <= (at - n) + c + p => v[k].kind = "padding"
        /\ k = (at - n) + c + p + 1 => v[k].kind = "header"
  <2> TAKE k \in DOMAIN v
  <2>1. /\ k + n > at /\ k + n <= at + c => w[k + n] = Unit("content", type, id, 0)
        /\ k + n > at + c /\ k + n <= at + c + p => w[k + n].kind = "padding"
        /\ k + n = at + c + p + 1 => w[k + n].kind = "header"
    BY <1>2 DEF Continues
  <2>2. k \in Nat /\ v[k] = w[k + n]
    BY <1>2
  <2>3. /\ k > at - n /\ k <= (at - n) + c => k + n > at /\ k + n <= at + c
        /\ k > (at - n) + c /\ k <= (at - n) + c + p => k + n > at + c /\ k + n <= at + c + p
        /\ k = (at - n) + c + p + 1 => k + n = at + c + p + 1
    BY <1>1, <2>2
  <2> QED BY <2>1, <2>2, <2>3
<1>4. ~cut => (at - n) + c + p <= Len(v)
  BY <1>1 DEF Continues
<1> QED BY <1>3, <1>4 DEF Continues

\* Content of the record is taken, or padding after it.
LEMMA FollowsContent ==
  ASSUME NEW w, NEW v, NEW n, Suffix(w, v, n),
         NEW c \in Nat, n <= c, NEW p \in Nat, NEW type, NEW id, NEW cut, Continues(w, 0, c, p, type, id, cut)
  PROVE  Continues(v, 0, c - n, p, type, id, cut)
<1>1. /\ Len(w) \in Nat /\ n \in Nat /\ n <= Len(w) /\ Len(v) = Len(w) - n
      /\ DOMAIN w = 1..Len(w) /\ DOMAIN v = 1..(Len(w) - n)
  BY DEF Suffix
<1>2. \A k \in DOMAIN v : k \in Nat /\ k > 0 /\ k + n \in DOMAIN w /\ v[k] = w[k + n]
  BY DEF Suffix
<1>3. \A k \in DOMAIN v :
        /\ k > 0 /\ k <= 0 + (c - n) => v[k] = Unit("content", type, id, 0)
        /\ k > 0 + (c - n) /\ k <= 0 + (c - n) + p => v[k].kind = "padding"
        /\ k = 0 + (c - n) + p + 1 => v[k].kind = "header"
  <2> TAKE k \in DOMAIN v
  <2>1. /\ k + n > 0 /\ k + n <= 0 + c => w[k + n] = Unit("content", type, id, 0)
        /\ k + n > 0 + c /\ k + n <= 0 + c + p => w[k + n].kind = "padding"
        /\ k + n = 0 + c + p + 1 => w[k + n].kind = "header"
    BY <1>2 DEF Continues
  <2>2. k \in Nat /\ k > 0 /\ v[k] = w[k + n]
    BY <1>2
  <2>3. /\ k <= 0 + (c - n) => k + n > 0 /\ k + n <= 0 + c
        /\ k > 0 + (c - n) /\ k <= 0 + (c - n) + p => k + n > 0 + c /\ k + n <= 0 + c + p
        /\ k = 0 + (c - n) + p + 1 => k + n = 0 + c + p + 1
    BY <1>1, <2>2
  <2> QED BY <2>1, <2>2, <2>3
<1>4. ~cut => 0 + (c - n) + p <= Len(v)
  BY <1>1 DEF Continues
<1> QED BY <1>3, <1>4 DEF Continues

LEMMA FollowsPadding ==
  ASSUME NEW w, NEW v, NEW p \in Nat, Suffix(w, v, p),
         NEW type, NEW id, NEW cut, Continues(w, 0, 0, p, type, id, cut)
  PROVE  Continues(v, 0, 0, 0, type, id, cut)
<1>1. /\ Len(w) \in Nat /\ p <= Len(w) /\ Len(v) = Len(w) - p
      /\ DOMAIN w = 1..Len(w) /\ DOMAIN v = 1..(Len(w) - p)
  BY DEF Suffix
<1>2. \A k \in DOMAIN v : k \in Nat /\ k > 0 /\ k + p \in DOMAIN w /\ v[k] = w[k + p]
  BY DEF Suffix
<1>3. \A k \in DOMAIN v :
        /\ k > 0 /\ k <= 0 + 0 => v[k] = Unit("content", type, id, 0)
        /\ k > 0 + 0 /\ k <= 0 + 0 + 0 => v[k].kind = "padding"
        /\ k = 0 + 0 + 0 + 1 => v[k].kind = "header"
  <2> TAKE k \in DOMAIN v
  <2>1. k + p = 0 + 0 + p + 1 => w[k + p].kind = "header"
    BY <1>2 DEF Continues
  <2>2. k \in Nat /\ k > 0 /\ v[k] = w[k + p] /\ (k = 1 => k + p = 0 + 0 + p + 1)
    BY <1>2
  <2> QED BY <2>1, <2>2
<1>4. 0 + 0 + 0 <= Len(v)
  BY <1>1
<1> QED BY <1>3, <1>4 DEF Continues

\* After the header at the front has been taken its record follows.
LEMMA FollowsHeader ==
  ASSUME NEW w, NEW v, Suffix(w, v, 1), NEW c \in Nat, NEW p \in Nat, NEW type, NEW id, NEW cut,
         Continues(w, 1, c, p, type, id, cut)
  PROVE  Continues(v, 0, c, p, type, id, cut)
<1>1. Continues(v, 1 - 1, c, p, type, id, cut)
  BY FollowsShift
<1> QED BY <1>1

Lengths(w) == \A k \in DOMAIN w : ContentOf(w[k]) \in Nat /\ PaddingOf(w[k]) \in Nat

LEMMA LengthsAre ==
  ASSUME NEW w \in Seq(UnitTypes)
  PROVE  Lengths(w)
<1> SUFFICES ASSUME NEW k \in DOMAIN w PROVE ContentOf(w[k]) \in Nat /\ PaddingOf(w[k]) \in Nat
  BY DEF Lengths
<1>1. w[k] \in UnitTypes
  BY ElementOfSeq, LenProperties
<1>2. w[k].len \in Nat
  BY <1>1, FcgiAssumption DEF UnitTypes
<1> QED BY <1>2 DEF ContentOf, PaddingOf

LEMMA RecordsShift ==
  ASSUME NEW w, NEW v, NEW n, Suffix(w, v, n), Lengths(w), NEW cut, Records(w, cut)
  PROVE  Records(v, cut)
<1> SUFFICES ASSUME NEW k \in DOMAIN v, v[k].kind = "header"
             PROVE  Continues(v, k, ContentOf(v[k]), PaddingOf(v[k]), v[k].type, v[k].id, cut)
  BY DEF Records
<1>1. k \in Nat /\ k + n \in DOMAIN w /\ v[k] = w[k + n] /\ k + n \in Nat /\ n <= k + n
      /\ (k + n) - n = k
  BY DEF Suffix
<1>2. ContentOf(w[k + n]) \in Nat /\ PaddingOf(w[k + n]) \in Nat
  BY <1>1 DEF Lengths
<1>3. Continues(w, k + n, ContentOf(w[k + n]), PaddingOf(w[k + n]), w[k + n].type, w[k + n].id, cut)
  BY <1>1 DEF Records
<1>4. Continues(v, (k + n) - n, ContentOf(w[k + n]), PaddingOf(w[k + n]), w[k + n].type, w[k + n].id, cut)
  BY <1>1, <1>2, <1>3, FollowsShift
<1> QED BY <1>1, <1>4

LEMMA FollowsCut ==
  ASSUME NEW w, NEW v, NEW n, Prefix(w, v, n),
         NEW at, NEW c, NEW p, NEW type, NEW id, NEW cut, Continues(w, at, c, p, type, id, cut)
  PROVE  Continues(v, at, c, p, type, id, TRUE)
<1>1. \A k \in DOMAIN v : k \in DOMAIN w /\ v[k] = w[k]
  BY DEF Prefix
<1> QED BY <1>1 DEF Continues

LEMMA RecordsCut ==
  ASSUME NEW w, NEW v, NEW n, Prefix(w, v, n), NEW cut, Records(w, cut)
  PROVE  Records(v, TRUE)
<1> SUFFICES ASSUME NEW k \in DOMAIN v, v[k].kind = "header"
             PROVE  Continues(v, k, ContentOf(v[k]), PaddingOf(v[k]), v[k].type, v[k].id, TRUE)
  BY DEF Records
<1>1. k \in DOMAIN w /\ v[k] = w[k]
  BY DEF Prefix
<1>2. Continues(w, k, ContentOf(w[k]), PaddingOf(w[k]), w[k].type, w[k].id, cut)
  BY <1>1 DEF Records
<1> QED BY <1>1, <1>2, FollowsCut

\* One whole record.
Whole(r) ==
  LET h == r[1]
  IN  /\ Len(r) \in Nat /\ Len(r) = 1 + ContentOf(h) + PaddingOf(h)
      /\ h.kind = "header" /\ ContentOf(h) \in Nat /\ PaddingOf(h) \in Nat
      /\ \A k \in 2..(1 + ContentOf(h)) : r[k] = Unit("content", h.type, h.id, 0)
      /\ \A k \in (2 + ContentOf(h))..(1 + ContentOf(h) + PaddingOf(h)) : r[k].kind = "padding"

LEMMA FollowsJoin ==
  ASSUME NEW w, NEW r, NEW v, Joined(w, r, v), Whole(r),
         NEW at \in Nat, NEW c \in Nat, NEW p \in Nat, NEW type, NEW id,
         Continues(w, at, c, p, type, id, FALSE)
  PROVE  Continues(v, at, c, p, type, id, FALSE)
<1>1. /\ Len(w) \in Nat /\ Len(r) \in Nat /\ Len(v) = Len(w) + Len(r)
      /\ DOMAIN w = 1..Len(w) /\ DOMAIN v = 1..(Len(w) + Len(r))
      /\ at + c + p <= Len(w)
  BY DEF Joined, Continues
<1>2. \A k \in DOMAIN v : k <= Len(w) => k \in DOMAIN w /\ v[k] = w[k]
  BY <1>1 DEF Joined
<1>3. v[1 + Len(w)] = r[1] /\ r[1].kind = "header"
  <2>1. 1 \in 1..Len(r)
    BY DEF Whole
  <2> QED BY <2>1 DEF Whole, Joined
<1>4. \A k \in DOMAIN v :
        /\ k > at /\ k <= at + c => v[k] = Unit("content", type, id, 0)
        /\ k > at + c /\ k <= at + c + p => v[k].kind = "padding"
        /\ k = at + c + p + 1 => v[k].kind = "header"
  <2> TAKE k \in DOMAIN v
  <2>1. CASE k <= Len(w)
    BY <1>2, <2>1 DEF Continues
  <2>2. CASE ~(k <= Len(w))
    <3>1. k \in Nat /\ ~(k <= at + c) /\ ~(k <= at + c + p) /\ (k = at + c + p + 1 => k = 1 + Len(w))
      BY <1>1, <2>2
    <3> QED BY <1>3, <3>1
  <2> QED BY <2>1, <2>2
<1>5. at + c + p <= Len(v)
  BY <1>1
<1> QED BY <1>4, <1>5 DEF Continues

LEMMA RecordsJoin ==
  ASSUME NEW w, NEW r, NEW v, Joined(w, r, v), Whole(r), Lengths(w), Records(w, FALSE)
  PROVE  Records(v, FALSE)
<1> SUFFICES ASSUME NEW k \in DOMAIN v, v[k].kind = "header"
             PROVE  Continues(v, k, ContentOf(v[k]), PaddingOf(v[k]), v[k].type, v[k].id, FALSE)
  BY DEF Records
<1>1. /\ Len(w) \in Nat /\ Len(r) \in Nat /\ Len(v) = Len(w) + Len(r)
      /\ DOMAIN w = 1..Len(w) /\ DOMAIN v = 1..(Len(w) + Len(r)) /\ k \in Nat
  BY DEF Joined
<1>2. CASE k <= Len(w)
  <2>1. k \in DOMAIN w /\ v[k] = w[k]
    BY <1>1, <1>2 DEF Joined
  <2>2. Continues(w, k, ContentOf(w[k]), PaddingOf(w[k]), w[k].type, w[k].id, FALSE)
    BY <2>1 DEF Records
  <2>3. ContentOf(w[k]) \in Nat /\ PaddingOf(w[k]) \in Nat
    BY <2>1 DEF Lengths
  <2> QED BY <1>1, <2>1, <2>2, <2>3, FollowsJoin
<1>3. CASE ~(k <= Len(w))
  <2> DEFINE c == ContentOf(r[1])
             p == PaddingOf(r[1])
             n == Len(w)
  <2>1. c \in Nat /\ p \in Nat /\ n \in Nat /\ Len(r) = 1 + c + p
    BY <1>1 DEF Whole
  <2>2. \A j \in DOMAIN v : j > n => j - n \in 1..(1 + c + p) /\ v[j] = r[j - n]
    <3> TAKE j \in DOMAIN v
    <3> HAVE j > n
    <3>1. j - n \in 1..Len(r) /\ (j - n) + n = j
      BY <1>1
    <3> QED BY <2>1, <3>1 DEF Joined
  <2>3. /\ \A j \in 2..(1 + c) : r[j] = Unit("content", r[1].type, r[1].id, 0)
        /\ \A j \in (2 + c)..(1 + c + p) : r[j].kind = "padding"
    BY DEF Whole
  <2> HIDE DEF c, p, n
  <2>4. k - n = 1
    <3>1. k > n
      BY <1>1, <1>3 DEF n
    <3>2. k - n \in 1..(1 + c + p) /\ r[k - n].kind = "header"
      BY <2>2, <3>1
    <3>3. k - n \notin 2..(1 + c)
      <4>1. \A j \in 2..(1 + c) : r[j].kind = "content"
        BY <2>3 DEF Unit
      <4> QED BY <3>2, <4>1
    <3>4. k - n \notin (2 + c)..(1 + c + p)
      BY <2>3, <3>2
    <3> QED BY <2>1, <3>2, <3>3, <3>4
  <2>5. k = n + 1 /\ v[k] = r[1]
    <3>1. k = n + 1
      BY <1>1, <2>1, <2>4
    <3> QED BY <2>1, <2>2, <2>4, <3>1
  <2>6. \A j \in DOMAIN v :
          /\ j > n + 1 /\ j <= n + 1 + c => v[j] = Unit("content", r[1].type, r[1].id, 0)
          /\ j > n + 1 + c /\ j <= n + 1 + c + p => v[j].kind = "padding"
          /\ j # n + 1 + c + p + 1
    <3> TAKE j \in DOMAIN v
    <3>1. j \in Nat
      BY <1>1
    <3>2. CASE j > n
      <4>1. j - n \in 1..(1 + c + p) /\ v[j] = r[j - n]
        BY <2>2, <3>2
      <4>2. /\ j > n + 1 /\ j <= n + 1 + c => j - n \in 2..(1 + c)
            /\ j > n + 1 + c /\ j <= n + 1 + c + p => j - n \in (2 + c)..(1 + c + p)
            /\ j # n + 1 + c + p + 1
        BY <2>1, <3>1, <4>1
      <4> QED BY <2>3, <4>1, <4>2
    <3>3. CASE ~(j > n)
      BY <2>1, <3>1, <3>3
    <3> QED BY <3>2, <3>3
  <2>7. n + 1 + c + p <= Len(v)
    BY <1>1, <2>1 DEF n
  <2>8. Continues(v, n + 1, c, p, r[1].type, r[1].id, FALSE)
    BY <2>6, <2>7 DEF Continues
  <2> QED BY <2>5, <2>8 DEF c, p
<1> QED BY <1>2, <1>3

\* The records that the web server sends are whole.
LEMMA WholeRecord ==
  ASSUME NEW type \in Types, NEW id \in Ids, NEW len \in 0..MaxContent
  PROVE  Whole(Record(type, id, len))
<1> DEFINE r == Record(type, id, len)
<1>1. /\ Len(r) = 1 + len + (len % 2) /\ r[1] = Unit("header", type, id, len)
      /\ \A k \in 2..(1 + len) : r[k] = Unit("content", type, id, 0)
      /\ \A k \in (2 + len)..(1 + len + (len % 2)) : r[k] = Unit("padding", type, id, 0)
  BY RecordType
<1>2. len \in Nat /\ len % 2 \in Nat /\ type # "begin"
  BY FcgiAssumption DEF Types
<1> HIDE DEF r
<1>3. ContentOf(r[1]) = len /\ PaddingOf(r[1]) = len % 2
  BY <1>1, <1>2 DEF Unit, ContentOf, PaddingOf
<1>4. r[1].kind = "header" /\ r[1].type = type /\ r[1].id = id
  BY <1>1 DEF Unit
<1>5. \A k \in (2 + len)..(1 + len + (len % 2)) : r[k].kind = "padding"
  BY <1>1 DEF Unit
<1>6. Whole(r)
  BY <1>1, <1>2, <1>3, <1>4, <1>5 DEF Whole
<1> QED BY <1>6 DEF r

LEMMA WholeBegin ==
  ASSUME NEW i \in Ids
  PROVE  Whole(BeginRecord(i))
<1> DEFINE r == BeginRecord(i)
<1>1. Len(r) = 2 /\ r[1] = Unit("header", "begin", i, 1) /\ r[2] = Unit("content", "begin", i, 0)
  BY BeginRecordType
<1> HIDE DEF r
<1>2. /\ ContentOf(r[1]) = 1 /\ PaddingOf(r[1]) = 0
      /\ r[1].kind = "header" /\ r[1].type = "begin" /\ r[1].id = i
  BY <1>1 DEF Unit, ContentOf, PaddingOf
<1>3. Whole(r)
  BY <1>1, <1>2 DEF Whole
<1> QED BY <1>3 DEF r

LEMMA WholeOther ==
  ASSUME NEW i \in Ids
  PROVE  Whole(OtherRecord(i))
<1> DEFINE r == OtherRecord(i)
<1>1. Len(r) = 1 /\ r[1] = Unit("header", "other", i, 0)
  BY OtherRecordType
<1> HIDE DEF r
<1>2. r[1].kind = "header" /\ ContentOf(r[1]) = 0 /\ PaddingOf(r[1]) = 0
  BY <1>1 DEF Unit, ContentOf, PaddingOf
<1>3. Whole(r)
  BY <1>1, <1>2 DEF Whole
<1> QED BY <1>3 DEF r

\* What is due after the step is at the front of the wire after the step.
LEMMA ParsedNext ==
  ASSUME reader'.pc # "ended" =>
           /\ Records(wire', closed')
           /\ \E c, p : /\ DueContent' = c /\ DuePadding' = p
                        /\ Continues(wire', 0, c, p, reader'.type, reader'.id, closed')
           /\ reader'.pc \in {"updating", "blocked"} => reader'.type \in Types
           /\ reader'.pc = "begin" => reader'.type = "begin"
  PROVE  Parsed'
BY DEF Parsed

LEMMA DueIs ==
  ASSUME FcgiInv, reader.pc # "ended"
  PROVE  /\ DueContent \in Nat /\ DuePadding \in Nat /\ Records(wire, closed) /\ Lengths(wire)
         /\ Continues(wire, 0, DueContent, DuePadding, reader.type, reader.id, closed)
         /\ reader.pc \in {"updating", "blocked"} => reader.type \in Types
         /\ reader.pc = "begin" => reader.type = "begin"
         /\ wire \in Seq(UnitTypes)
<1>0. WireOK /\ ReaderOK /\ StreamOK /\ Parsed
  BY FcgiParts
<1>1. reader.len \in Nat /\ reader.id \in Ids
  BY <1>0, FcgiAssumption DEF ReaderOK, ReaderTypes
<1>2. DuePadding \in Nat
  BY <1>1 DEF DuePadding
<1>3. DueContent \in Nat
  <2>1. CASE reader.pc \in {"updating", "blocked"}
    <3>1. stream[reader.id][reader.type].m_remaining \in 0..MaxContent + 1
      BY <1>0, <1>1, <2>1, StreamIs DEF Parsed
    <3>2. stream[reader.id][reader.type].m_remaining \in Nat
      BY <3>1, FcgiAssumption
    <3> QED BY <2>1, <3>2 DEF DueContent
  <2>2. CASE reader.pc \notin {"updating", "blocked"}
    BY <2>2 DEF DueContent
  <2> QED BY <2>1, <2>2
<1>4. wire \in Seq(UnitTypes)
  BY <1>0 DEF WireOK
<1>5. Lengths(wire)
  BY <1>4, LengthsAre
<1> QED BY <1>0, <1>2, <1>3, <1>4, <1>5 DEF Parsed

\* Steps that leave the wire alone, and what is due of it.
LEMMA ParsedStays ==
  ASSUME FcgiInv, UNCHANGED <<wire, closed>>, reader.pc # "ended",
         DueContent' = DueContent, DuePadding' = DuePadding,
         reader'.type = reader.type, reader'.id = reader.id,
         reader'.pc \in {"updating", "blocked"} => reader.pc \in {"updating", "blocked"},
         reader'.pc = "begin" => reader.pc = "begin"
  PROVE  Parsed'
<1>1. Records(wire', closed')
  BY DueIs
<1>2. Continues(wire', 0, DueContent, DuePadding, reader'.type, reader'.id, closed')
  BY DueIs
<1> QED BY <1>1, <1>2, DueIs, ParsedNext

LEMMA ParsedEnded == reader'.pc = "ended" => Parsed'
BY DEF Parsed

\* Steps of others than the reader.
LEMMA ParsedOther ==
  ASSUME FcgiInv, UNCHANGED <<wire, closed, reader>>,
         \A i \in Ids, t \in Types : stream'[i][t].m_remaining = stream[i][t].m_remaining
  PROVE  Parsed'
<1>1. CASE reader.pc = "ended"
  BY <1>1, ParsedEnded
<1>2. CASE reader.pc # "ended"
  <2>1. DuePadding' = DuePadding
    BY DEF DuePadding
  <2>2. DueContent' = DueContent
    <3>1. reader.pc \in {"updating", "blocked"} => reader.type \in Types /\ reader.id \in Ids
      BY <1>2, DueIs, FcgiParts DEF ReaderOK, ReaderTypes
    <3> QED BY <3>1 DEF DueContent
  <2> QED BY <1>2, <2>1, <2>2, ParsedStays
<1> QED BY <1>1, <1>2

LEMMA ParsedSends ==
  ASSUME FcgiInv, NEW r \in Seq(UnitTypes), Whole(r), Send(r)
  PROVE  Parsed'
<1>0. WireOK
  BY FcgiParts
<1>1. /\ Joined(wire, r, wire') /\ closed = FALSE /\ closed' = FALSE
      /\ UNCHANGED <<reader, stream>>
  BY <1>0, Sends DEF Joined, ServerFrame, WireOK
<1>2. CASE reader.pc # "ended"
  <2>1. Records(wire', FALSE)
    BY <1>1, <1>2, DueIs, RecordsJoin
  <2>2. Continues(wire', 0, DueContent, DuePadding, reader.type, reader.id, FALSE)
    BY <1>1, <1>2, DueIs, FollowsJoin
  <2>3. DueContent' = DueContent /\ DuePadding' = DuePadding
    BY <1>1 DEF DueContent, DuePadding
  <2> QED BY <1>1, <1>2, <2>1, <2>2, <2>3, DueIs, ParsedNext
<1>3. CASE reader.pc = "ended"
  BY <1>1, <1>3, ParsedEnded
<1> QED BY <1>2, <1>3

LEMMA ParsedServer ==
  ASSUME FcgiInv, WebServer
  PROVE  Parsed'
<1>0. WireOK
  BY FcgiParts
<1>1. ASSUME NEW i \in Ids, SendBegin(i) PROVE Parsed'
  <2>1. Send(BeginRecord(i))
    BY <1>1 DEF SendBegin, BeginRecord
  <2> QED BY <2>1, BeginRecordType, WholeBegin, ParsedSends
<1>2. ASSUME NEW i \in Ids, NEW type \in Types, NEW len \in 0..MaxContent, SendContent(i, type, len)
      PROVE Parsed'
  <2>1. Send(Record(type, i, len))
    BY <1>2 DEF SendContent
  <2> QED BY <2>1, RecordType, WholeRecord, ParsedSends
<1>3. ASSUME SendOther PROVE Parsed'
  <2>1. Send(OtherRecord(SomeId))
    BY <1>3 DEF SendOther, OtherRecord, SomeId
  <2> QED BY <2>1, SomeIdIs, OtherRecordType, WholeOther, ParsedSends
<1>4. ASSUME Close PROVE Parsed'
  <2>1. PICK n \in 0..Len(wire) : wire' = SubSeq(wire, 1, n)
    BY <1>4 DEF Close
  <2>2. Prefix(wire, wire', n) /\ closed' = TRUE /\ UNCHANGED <<reader, stream>>
    BY <1>0, <1>4, <2>1, Cuts DEF Prefix, Close
  <2>3. CASE reader.pc # "ended"
    <3>1. Records(wire', TRUE)
      BY <2>2, <2>3, DueIs, RecordsCut
    <3>2. Continues(wire', 0, DueContent, DuePadding, reader.type, reader.id, TRUE)
      BY <2>2, <2>3, DueIs, FollowsCut
    <3>3. DueContent' = DueContent /\ DuePadding' = DuePadding
      BY <2>2 DEF DueContent, DuePadding
    <3> QED BY <2>2, <2>3, <3>1, <3>2, <3>3, DueIs, ParsedNext
  <2>4. CASE reader.pc = "ended"
    BY <2>2, <2>4, ParsedEnded
  <2> QED BY <2>3, <2>4
<1> QED BY <1>1, <1>2, <1>3, <1>4 DEF WebServer

LEMMA SuffixTakes ==
  ASSUME WireOK, NEW n \in Nat, n <= Len(wire), Take(n)
  PROVE  Suffix(wire, wire', n)
BY Takes DEF Suffix

LEMMA ParsedHeader ==
  ASSUME FcgiInv, ReadBegin \/ Update
  PROVE  Parsed'
<1>0. WireOK /\ ReaderOK /\ StreamOK
  BY FcgiParts
<1>1. /\ reader.pc = "header" /\ 1 <= Len(wire) /\ Take(1) /\ closed' = closed
      /\ 1 \in DOMAIN wire /\ wire[1].id \in Ids
  BY <1>0, FirstUnit DEF ReadBegin, Update, ReaderAt, ReaderHas
<1>2. Suffix(wire, wire', 1)
  BY <1>0, <1>1, SuffixTakes
<1> DEFINE h == wire[1]
<1>3. Records(wire', closed')
  BY <1>1, <1>2, DueIs, RecordsShift
<1>4. h.kind = "header"
  <2>1. Continues(wire, 0, 0, 0, reader.type, reader.id, closed)
    BY <1>1, DueIs DEF DueContent, DuePadding
  <2> QED BY <1>1, <2>1 DEF Continues
<1>5. ContentOf(h) \in Nat /\ PaddingOf(h) \in Nat
  BY <1>1, DueIs DEF Lengths
<1>6. Continues(wire, 1, ContentOf(h), PaddingOf(h), h.type, h.id, closed)
  BY <1>1, <1>4, DueIs DEF Records
<1>7. Continues(wire', 0, ContentOf(h), PaddingOf(h), h.type, h.id, closed')
  BY <1>1, <1>2, <1>5, <1>6, FollowsHeader
<1>8. CASE ReadBegin
  <2>1. /\ h.type = "begin" /\ reader'.pc = "begin" /\ reader'.id = h.id
        /\ reader'.type = "begin" /\ reader'.len = 0
    BY <1>0, <1>8 DEF ReadBegin, ReaderOK, ReaderTypes
  <2>2. DueContent' = ContentOf(h) /\ DuePadding' = PaddingOf(h)
    BY <2>1 DEF DueContent, DuePadding, ContentOf, PaddingOf
  <2> HIDE DEF h
  <2> QED BY <1>3, <1>7, <2>1, <2>2, ParsedNext
<1>9. CASE Update
  <2>1. /\ h.type \in Types /\ h.type # "begin" /\ reader'.pc = "updating" /\ reader'.id = h.id
        /\ reader'.type = h.type /\ reader'.len = h.len
    BY <1>0, <1>9 DEF Update, ReaderOK, ReaderTypes, Types
  <2>2. stream'[h.id][h.type].m_remaining = h.len
    <3> DEFINE s == stream[h.id][h.type]
               u == [s EXCEPT !.m_ended = (h.len = 0), !.m_remaining = h.len, !.m_consumer = FALSE]
    <3>1. stream' = [stream EXCEPT ![h.id][h.type] = u] /\ s \in StreamTypes
      BY <1>0, <1>1, <1>9, <2>1, StreamIs DEF Update
    <3>2. u.m_remaining = h.len
      BY <3>1 DEF StreamTypes
    <3> HIDE DEF u, s, h
    <3>3. stream'[h.id][h.type] = u
      BY <1>0, <1>1, <2>1, <3>1, OneStream DEF StreamOK, h
    <3> QED BY <3>2, <3>3
  <2>3. DueContent' = ContentOf(h) /\ DuePadding' = PaddingOf(h)
    BY <2>1, <2>2 DEF DueContent, DuePadding, ContentOf, PaddingOf
  <2> HIDE DEF h
  <2> QED BY <1>3, <1>7, <2>1, <2>3, ParsedNext
<1> QED BY <1>8, <1>9

LEMMA ParsedBody ==
  ASSUME FcgiInv, BeginRequest \/ ReadPadding
  PROVE  Parsed'
<1>0. WireOK /\ ReaderOK /\ StreamOK
  BY FcgiParts
<1>1. CASE BeginRequest
  <2>1. /\ reader.pc = "begin" /\ 1 <= Len(wire) /\ Take(1) /\ closed' = closed
        /\ reader'.pc = "padding" /\ reader'.id = reader.id /\ reader'.type = reader.type
        /\ reader'.len = reader.len
    BY <1>0, <1>1, FirstUnit DEF BeginRequest, ReaderAt, ReaderHas, ReaderOK, ReaderTypes
  <2>2. Suffix(wire, wire', 1)
    BY <1>0, <2>1, SuffixTakes
  <2>3. Records(wire', closed')
    BY <2>1, <2>2, DueIs, RecordsShift
  <2>4. DueContent = 1 /\ DueContent' = 0 /\ DuePadding' = DuePadding
    BY <2>1 DEF DueContent, DuePadding
  <2>5. Continues(wire', 0, 1 - 1, DuePadding, reader.type, reader.id, closed')
    BY <2>1, <2>2, <2>4, DueIs, FollowsContent
  <2> QED BY <2>1, <2>3, <2>4, <2>5, ParsedNext
<1>2. CASE ReadPadding
  <2>1. /\ reader.pc = "padding" /\ closed' = closed
        /\ reader'.pc = "header" /\ reader'.id = reader.id /\ reader'.type = reader.type
    BY <1>0, <1>2 DEF ReadPadding, ReaderAt, ReaderOK, ReaderTypes
  <2>2. ReaderNeeds \in Nat /\ ReaderNeeds <= Len(wire) /\ Take(ReaderNeeds)
    <3>1. ReaderNeeds \in Nat /\ Len(wire) \in Nat
      BY <1>0, ReaderNeedsIs, WireIs
    <3> QED BY <1>2, <3>1 DEF ReadPadding, ReaderHas
  <2>3. Suffix(wire, wire', ReaderNeeds)
    BY <1>0, <2>2, SuffixTakes
  <2>4. Records(wire', closed')
    BY <2>1, <2>3, DueIs, RecordsShift
  <2>5. DueContent = 0 /\ DuePadding = ReaderNeeds /\ DueContent' = 0 /\ DuePadding' = 0
    BY <2>1 DEF DueContent, DuePadding, ReaderNeeds
  <2>6. Continues(wire, 0, 0, ReaderNeeds, reader.type, reader.id, closed)
    BY <2>1, <2>5, DueIs
  <2>7. Continues(wire', 0, 0, 0, reader.type, reader.id, closed')
    BY <2>1, <2>2, <2>3, <2>6, FollowsPadding
  <2> QED BY <2>1, <2>4, <2>5, <2>7, ParsedNext
<1> QED BY <1>1, <1>2

LEMMA ParsedUpdated ==
  ASSUME FcgiInv, Updated
  PROVE  Parsed'
<1>0. ReaderOK /\ StreamOK
  BY FcgiParts
<1>1. /\ reader.pc = "updating" /\ UNCHANGED <<wire, closed>> /\ reader'.pc \in {"padding", "blocked"}
      /\ reader'.id = reader.id /\ reader'.type = reader.type /\ reader'.len = reader.len
  BY <1>0 DEF Updated, ReaderAt, connVars, ReaderOK, ReaderTypes
<1>2. reader.id \in Ids /\ reader.type \in Types
  BY <1>0, <1>1, DueIs DEF ReaderOK, ReaderTypes
<1>3. DuePadding' = DuePadding
  BY <1>1 DEF DuePadding
<1>4. DueContent' = DueContent
  <2>1. CASE stream[reader.id][reader.type].m_remaining = 0
    <3>1. reader'.pc = "padding"
      BY <1>0, <2>1 DEF Updated, ReaderOK, ReaderTypes
    <3> QED BY <1>1, <2>1, <3>1 DEF DueContent
  <2>2. CASE stream[reader.id][reader.type].m_remaining # 0
    <3> DEFINE s == stream[reader.id][reader.type]
               u == [s EXCEPT !.m_producer = TRUE]
    <3>1. stream' = [stream EXCEPT ![reader.id][reader.type] = u] /\ s \in StreamTypes
      BY <1>0, <1>2, <2>2, StreamIs DEF Updated
    <3>2. u.m_remaining = s.m_remaining
      BY <3>1 DEF StreamTypes
    <3>3. reader'.pc = "blocked"
      BY <1>0, <2>2 DEF Updated, ReaderOK, ReaderTypes
    <3> HIDE DEF u, s
    <3>4. stream'[reader.id][reader.type] = u
      BY <1>0, <1>2, <3>1, OneStream DEF StreamOK
    <3> QED BY <1>1, <3>2, <3>3, <3>4 DEF DueContent, s
  <2> QED BY <2>1, <2>2
<1> QED BY <1>1, <1>3, <1>4, ParsedStays

LEMMA ParsedAwaits ==
  ASSUME FcgiInv, NEW i \in Ids, AwaitReadable(i)
  PROVE  Parsed'
<1>0. ReaderOK /\ StreamOK /\ StackOK /\ Shared
  BY FcgiParts
<1> DEFINE t == StreamOf(request[i].pc)
           s == Source(i)
           u == [s EXCEPT !.m_consumer = TRUE, !.m_producer = FALSE]
<1>1. /\ t \in Types /\ stream' = [stream EXCEPT ![i][t] = u] /\ s = stream[i][t] /\ s \in StreamTypes
      /\ UNCHANGED <<wire, closed>>
  BY <1>0, AwaitIs, StreamIs DEF Source, AwaitReadable, connVars
<1>2. u.m_remaining = s.m_remaining
  BY <1>1 DEF StreamTypes
<1>3. s.m_remaining = 0
  BY <1>1, FcgiAssumption DEF AwaitReadable, Readable, StreamTypes
<1> HIDE DEF u, s, t
<1>4. \A j \in Ids, v \in Types : stream'[j][v].m_remaining = stream[j][v].m_remaining
  BY <1>0, <1>1, <1>2, OneStream DEF StreamOK
<1>5. CASE s.m_producer
  <2>1. reader.pc = "blocked" /\ reader.id = i /\ reader.type = t
    BY <1>0, <1>1, <1>5 DEF Shared
  <2>2. /\ reader'.pc = "padding" /\ reader'.id = reader.id /\ reader'.type = reader.type
        /\ reader'.len = reader.len
    BY <1>0, <1>5 DEF AwaitReadable, ReaderOK, ReaderTypes, s
  <2>3. DueContent' = DueContent /\ DuePadding' = DuePadding
    BY <1>1, <1>3, <2>1, <2>2 DEF DueContent, DuePadding
  <2> QED BY <1>1, <2>1, <2>2, <2>3, ParsedStays
<1>6. CASE ~s.m_producer
  <2>1. UNCHANGED reader
    BY <1>6 DEF AwaitReadable, s
  <2> QED BY <1>1, <1>4, <2>1, ParsedOther
<1> QED BY <1>5, <1>6

LEMMA ParsedContent ==
  ASSUME FcgiInv, NEW i \in Ids, ReadContent(i)
  PROVE  Parsed'
<1>0. WireOK /\ ReaderOK /\ RequestOK /\ StreamOK /\ Shared
  BY FcgiParts
<1> DEFINE t == StreamOf(request[i].pc)
           m == Source(i).m_remaining
           n == Share(i)
           l == m - n
           u == [Source(i) EXCEPT !.m_remaining = l]
<1>1. /\ n \in Nat /\ n <= Len(wire) /\ Take(n) /\ closed' = closed /\ UNCHANGED reader
      /\ stream' = [stream EXCEPT ![i][t] = u]
  BY <1>0, ContentIs DEF ReadContent
<1>2. /\ t \in Types /\ Source(i) = stream[i][t] /\ Source(i) \in StreamTypes
      /\ m \in Nat /\ n <= m /\ m > 0
  BY <1>0, ShareIs, StreamIs, FcgiAssumption DEF Source, ReadContent, InLoop
<1>3. u.m_remaining = l
  <2> HIDE DEF l
  <2> QED BY <1>2 DEF StreamTypes
<1>4. reader.pc \in {"updating", "blocked"} /\ reader.id = i /\ reader.type = t
  BY <1>0, <1>2 DEF Shared
<1> HIDE DEF u
<1>5. stream'[i][t] = u
  BY <1>0, <1>1, <1>2, OneStream DEF StreamOK
<1>6. DueContent = m /\ DueContent' = l /\ DuePadding' = DuePadding
  <2>1. DueContent = m
    BY <1>2, <1>4 DEF DueContent
  <2>2. DueContent' = l
    <3>1. DueContent' = stream'[i][t].m_remaining
      BY <1>1, <1>4 DEF DueContent
    <3> QED BY <1>3, <1>5, <3>1
  <2>3. DuePadding' = DuePadding
    BY <1>1 DEF DuePadding
  <2> QED BY <2>1, <2>2, <2>3
<1> HIDE DEF m, n, t
<1>7. Suffix(wire, wire', n)
  BY <1>0, <1>1, SuffixTakes
<1>8. reader.pc # "ended"
  BY <1>4
<1>9. Records(wire', closed')
  BY <1>1, <1>7, <1>8, DueIs, RecordsShift
<1>10. Continues(wire', 0, m - n, DuePadding, reader.type, reader.id, closed')
  BY <1>1, <1>2, <1>6, <1>7, <1>8, DueIs, FollowsContent
<1> QED BY <1>1, <1>2, <1>4, <1>6, <1>9, <1>10, ParsedNext

LEMMA ParsedStep == FcgiInv /\ Next => Parsed'
<1> SUFFICES ASSUME FcgiInv, Next PROVE Parsed'
  OBVIOUS
<1>0. ReaderOK /\ Shared
  BY FcgiParts
<1>1. CASE ReaderCut \/ ReadUnknown \/ Teardown
  <2>1. reader'.pc = "ended"
    <3>1. CASE ReaderCut \/ ReadUnknown
      <4>1. reader' = [reader EXCEPT !.pc = "ended", !.io = "none"]
        BY <3>1 DEF ReaderCut, ReadUnknown, EndReading
      <4> QED BY <1>0, <4>1 DEF ReaderOK, ReaderTypes
    <3>2. CASE Teardown
      BY <3>2, TeardownIs
    <3> QED BY <1>1, <3>1, <3>2
  <2> QED BY <2>1, ParsedEnded
<1>2. CASE ReaderSuspend \/ ReaderRecv
  <2>1. /\ reader'.pc = reader.pc /\ reader'.id = reader.id /\ reader'.type = reader.type
        /\ reader'.len = reader.len /\ UNCHANGED <<wire, closed, stream>>
    BY <1>0, <1>2 DEF ReaderSuspend, ReaderRecv, ReaderOK, ReaderTypes, connVars
  <2>2. DueContent' = DueContent /\ DuePadding' = DuePadding
    BY <2>1 DEF DueContent, DuePadding
  <2>3. reader.pc # "ended"
    BY <1>0, <1>2 DEF ReaderSuspend, ReaderRecv, Shared
  <2> QED BY <2>1, <2>2, <2>3, ParsedStays
<1>3. CASE WriterNext \/ WriterResumes \/ Sent \/ Rest
  <2>1. UNCHANGED <<wire, closed, reader, stream>>
    BY <1>3 DEF WriterNext, WriterResumes, Sent, SendDone, Rest, vars, connVars
  <2> QED BY <2>1, ParsedOther
<1>4. ASSUME NEW i \in Ids,
             \/ RequestSuspend(i) \/ RequestRecv(i) \/ ContentCut(i) \/ ReadReturns(i) \/ NextHeader(i)
             \/ Dispatch(i) \/ Subscribe(i) \/ AwaitItems(i) \/ ItemsCome(i) \/ Finish(i) \/ Write(i)
      PROVE  Parsed'
  <2>1. UNCHANGED <<wire, closed, reader, stream>>
    BY <1>4 DEF RequestSuspend, RequestRecv, ContentCut, ReadReturns, NextHeader, Dispatch, Subscribe,
                AwaitItems, ItemsCome, Finish, Write, connVars
  <2> QED BY <2>1, ParsedOther
<1> QED BY <1>1, <1>2, <1>3, <1>4, ParsedServer, ParsedHeader, ParsedBody, ParsedUpdated,
           ParsedAwaits, ParsedContent DEF Next, Run, RunRequest

-----------------------------------------------------------------------------
(* Queued, step by step. *)

\* Where a request may be with nothing but output behind it, and more to come.
OutsPcs == {"params", "lens", "value", "body", "reply", "head", "subscribe",
            "await", "items", "message"}
OverPcs == {"skip", "done", "failed"}

\* A request moves on without a write: before its reply is complete, or after.
Moved(i) ==
  /\ request[i].pc \in OutsPcs \union {"skip"}
  /\ request'[i].pc \in OutsPcs \union OverPcs
  /\ request[i].pc = "skip" => request'[i].pc \in OverPcs
  /\ \A j \in Ids : j # i => request'[j] = request[j]
  /\ UNCHANGED <<m_out_records, writer, m_error, replies, phase>>

LEMMA Moves ==
  ASSUME FcgiInv, NEW i \in Ids,
         \/ AwaitReadable(i) \/ RequestSuspend(i) \/ RequestRecv(i) \/ ReadContent(i) \/ ContentCut(i)
         \/ ReadReturns(i) \/ NextHeader(i) \/ Dispatch(i) \/ Subscribe(i) \/ AwaitItems(i)
         \/ ItemsCome(i) \/ Finish(i)
  PROVE  Moved(i)
<1>0. WireOK /\ RequestOK /\ StreamOK /\ Shared
  BY FcgiParts
<1>1. UNCHANGED <<m_out_records, writer, m_error, replies, phase>>
  BY DEF AwaitReadable, RequestSuspend, RequestRecv, ReadContent, ContentCut, ReadReturns, NextHeader,
         Dispatch, Subscribe, AwaitItems, ItemsCome, Finish, outVars, connVars
<1>2. /\ ReadingPcs \subseteq OutsPcs \union {"skip"} /\ ReadingPcs \subseteq RequestPcs
      /\ OutsPcs \subseteq RequestPcs
      /\ "done" \in RequestPcs /\ "failed" \in OverPcs /\ "done" \in OverPcs /\ "skip" \in OverPcs
      /\ "skip" \notin OutsPcs
  BY DEF ReadingPcs, OutsPcs, OverPcs, RequestPcs
<1>3. Reading(i) => request[i].pc \in ReadingPcs
  BY DEF Reading, ReadingPcs
<1>4. ASSUME NEW pc, NEW n, NEW io, NEW next, Changed(i, pc, n, io, next),
             request[i].pc \in OutsPcs, pc \in OutsPcs
      PROVE  Moved(i)
  BY <1>1, <1>2, <1>4 DEF Moved, Changed
<1>5. ASSUME NEW n, NEW io, NEW next, Changed(i, request[i].pc, n, io, next), request[i].pc \in ReadingPcs
      PROVE  Moved(i)
  BY <1>1, <1>2, <1>5 DEF Moved, Changed
<1>6. ASSUME Fail(i), request[i].pc \in ReadingPcs PROVE Moved(i)
  <2>1. Changed(i, "failed", request[i].want, "none", request[i].next)
    BY <1>0, <1>6, FailIs
  <2> QED BY <1>1, <1>2, <1>6, <2>1 DEF Moved, Changed
<1>7. CASE AwaitReadable(i)
  <2>1. UNCHANGED request /\ request[i].pc \in ReadingPcs
    BY <1>3, <1>7 DEF AwaitReadable
  <2> QED BY <1>1, <1>2, <2>1 DEF Moved
<1>8. CASE RequestSuspend(i)
  BY <1>0, <1>3, <1>5, <1>8, IoIs DEF RequestSuspend
<1>9. CASE RequestRecv(i)
  <2>1. request[i].pc \in ReadingPcs
    BY <1>0, <1>9 DEF RequestRecv, Shared
  <2> QED BY <1>0, <1>5, <1>9, <2>1, IoIs DEF RequestRecv
<1>10. CASE ReadContent(i)
  <2>1. request[i].pc \in ReadingPcs
    BY <1>3, <1>10 DEF ReadContent
  <2> QED BY <1>0, <1>5, <1>10, <2>1, ContentIs
<1>11. CASE ContentCut(i)
  BY <1>3, <1>6, <1>11 DEF ContentCut
<1>12. CASE ReadReturns(i)
  <2>1. request[i].pc \in ReadingPcs /\ request[i].pc \in OutsPcs
    BY <1>12 DEF ReadReturns, Reading, ReadingPcs, OutsPcs
  <2>2. "value" \in OutsPcs /\ "reply" \in OutsPcs /\ "params" \in OutsPcs
    BY DEF OutsPcs
  <2>3. CASE GoFor(i, "value", 1)
    BY <1>0, <1>2, <1>4, <2>1, <2>2, <2>3, GoForIs
  <2>4. CASE request' = [request EXCEPT ![i].pc = "params", ![i].headers = TRUE]
    BY <1>0, <1>4, <2>1, <2>2, <2>4, ValueIs
  <2>5. CASE Go(i, "reply")
    BY <1>0, <1>2, <1>4, <2>1, <2>2, <2>5, GoIs
  <2> QED BY <1>6, <1>12, <2>1, <2>3, <2>4, <2>5, ReturnsCases
<1>13. CASE NextHeader(i)
  <2>1. GoFor(i, "lens", 1) /\ request[i].pc \in OutsPcs /\ "lens" \in OutsPcs
    BY <1>13 DEF NextHeader, OutsPcs
  <2> QED BY <1>0, <1>2, <1>4, <2>1, GoForIs
<1>14. CASE Dispatch(i)
  <2>1. request[i].pc \in ReadingPcs /\ request[i].pc \in OutsPcs
    BY <1>14 DEF Dispatch, ReadingPcs, OutsPcs
  <2>2. \A pc \in {"body", "head", "reply"} : pc \in OutsPcs
    BY DEF OutsPcs
  <2>3. ASSUME NEW pc \in {"body", "head", "reply"}, NEW n \in Nat, GoFor(i, pc, n) PROVE Moved(i)
    BY <1>0, <1>2, <1>4, <2>1, <2>2, <2>3, GoForIs
  <2> QED BY <1>6, <1>14, <2>1, <2>3, DispatchCases
<1>15. CASE Subscribe(i)
  <2>1. PICK pc \in {"reply", "await"} : Go(i, pc)
    BY <1>15 DEF Subscribe
  <2>2. request[i].pc \in OutsPcs /\ pc \in OutsPcs
    BY <1>15 DEF Subscribe, OutsPcs
  <2> QED BY <1>0, <1>2, <1>4, <2>1, <2>2, GoIs
<1>16. CASE AwaitItems(i)
  <2>1. Go(i, "items") /\ request[i].pc \in OutsPcs /\ "items" \in OutsPcs
    BY <1>16 DEF AwaitItems, OutsPcs
  <2> QED BY <1>0, <1>2, <1>4, <2>1, GoIs
<1>17. CASE ItemsCome(i)
  <2>1. Go(i, "message") /\ request[i].pc \in OutsPcs /\ "message" \in OutsPcs
    BY <1>17 DEF ItemsCome, OutsPcs
  <2> QED BY <1>0, <1>2, <1>4, <2>1, GoIs
<1>18. CASE Finish(i)
  <2>1. Go(i, "done") /\ request[i].pc = "skip"
    BY <1>18 DEF Finish
  <2>2. Changed(i, "done", request[i].want, request[i].io, request[i].next)
    BY <1>0, <1>2, <2>1, GoIs
  <2> QED BY <1>1, <1>2, <2>1, <2>2 DEF Moved, Changed
<1> QED BY <1>7, <1>8, <1>9, <1>10, <1>11, <1>12, <1>13, <1>14, <1>15, <1>16, <1>17, <1>18

\* The queue stays, with the requests that wait for it.
LEMMA QueuedStays ==
  ASSUME Queued, OutOK, UNCHANGED <<m_out_records, writer, m_error>>,
         \A i \in Ids : /\ request[i].pc = "writing" =>
                             request'[i].pc = "writing" /\ request'[i].next = request[i].next
                        /\ request'[i].pc = "writing" => request[i].pc = "writing"
  PROVE  Queued'
<1>1. \A k \in DOMAIN m_out_records :
        /\ request'[m_out_records[k].id].pc = "writing"
        /\ <<m_out_records[k].type, request'[m_out_records[k].id].next>> \in Written
  BY QueueIs DEF Queued
<1> QED BY <1>1 DEF Queued

LEMMA QueuedMoves ==
  ASSUME FcgiInv, NEW i \in Ids, Moved(i)
  PROVE  Queued'
<1>1. request[i].pc # "writing" /\ request'[i].pc # "writing"
  BY DEF Moved, OutsPcs, OverPcs
<1> QED BY <1>1, FcgiParts, QueuedStays DEF Moved

LEMMA QueuedBegins ==
  ASSUME FcgiInv, BeginRequest
  PROVE  Queued'
<1>0. ReaderOK /\ RequestOK /\ OutOK /\ Queued /\ Fresh
  BY FcgiParts
<1>1. reader.id \in Ids /\ reader.pc = "begin" /\ UNCHANGED <<m_out_records, writer, m_error>>
  BY <1>0 DEF BeginRequest, ReaderAt, ReaderOK, ReaderTypes, outVars
<1>2. request[reader.id].pc \in {"none", "skip", "done", "failed"}
  BY <1>0, <1>1 DEF Fresh, Begins, Begun
<1>3. /\ request'[reader.id].pc = "params"
      /\ \A i \in Ids : i # reader.id => request'[i] = request[i]
  BY <1>0, <1>1 DEF BeginRequest, RequestOK, NewRequest
<1> QED BY <1>0, <1>1, <1>2, <1>3, QueuedStays

LEMMA QueuedWrites ==
  ASSUME FcgiInv, NEW i \in Ids, Write(i)
  PROVE  Queued'
<1>0. RequestOK /\ OutOK /\ Queued
  BY FcgiParts
<1>1. m_error' = m_error /\ request[i].pc # "writing"
  BY DEF Write, WriteAt
<1>2. CASE Fail(i) /\ UNCHANGED <<m_out_records, writer>>
  <2>1. Changed(i, "failed", request[i].want, "none", request[i].next)
    BY <1>0, <1>2, FailIs
  <2> QED BY <1>0, <1>1, <1>2, <2>1, QueuedStays DEF Changed
<1>3. ASSUME NEW at \in Written, ~m_error, writer' # "idle",
             m_out_records' = Append(m_out_records, [id |-> i, type |-> at[1]]),
             Changed(i, "writing", request[i].want, request[i].io, at[2]),
             writer' = writer \/ writer' = "running"
      PROVE  Queued'
  <2> DEFINE o == [id |-> i, type |-> at[1]]
             n == Len(m_out_records)
  <2>1. /\ n \in Nat /\ DOMAIN m_out_records = 1..n
        /\ \A k \in DOMAIN m_out_records : m_out_records[k].id \in Ids
    BY <1>0, QueueIs
  <2>2. /\ DOMAIN m_out_records' = 1..(n + 1)
        /\ m_out_records'[n + 1] = o /\ \A k \in 1..n : m_out_records'[k] = m_out_records[k]
    <3>1. m_out_records \in Seq(OutTypes)
      BY <1>0 DEF OutOK
    <3> HIDE DEF o
    <3>2. m_out_records' = Append(m_out_records, o)
      BY <1>3 DEF o
    <3> QED BY <3>1, <3>2
  <2>3. o.id = i /\ o.type = at[1] /\ <<at[1], at[2]>> \in Written
    BY DEF Written
  <2> HIDE DEF o, n
  <2>4. \A k \in 1..n : m_out_records'[k].id # i
    <3> TAKE k \in 1..n
    <3>1. request[m_out_records[k].id].pc = "writing"
      BY <1>0, <2>1 DEF Queued
    <3> QED BY <1>1, <2>2, <3>1
  <2>5. \A k \in DOMAIN m_out_records' : k \in 1..n \/ k = n + 1
    BY <2>1, <2>2
  <2>6. \A k \in DOMAIN m_out_records' :
          /\ request'[m_out_records'[k].id].pc = "writing"
          /\ <<m_out_records'[k].type, request'[m_out_records'[k].id].next>> \in Written
    <3> TAKE k \in DOMAIN m_out_records'
    <3>1. CASE k \in 1..n
      <4>1. /\ request[m_out_records[k].id].pc = "writing" /\ m_out_records[k].id \in Ids
            /\ <<m_out_records[k].type, request[m_out_records[k].id].next>> \in Written
        BY <1>0, <2>1, <3>1 DEF Queued
      <4>2. m_out_records'[k] = m_out_records[k] /\ m_out_records[k].id # i
        BY <2>2, <2>4, <3>1
      <4>3. request'[m_out_records[k].id] = request[m_out_records[k].id]
        BY <1>3, <4>1, <4>2 DEF Changed
      <4> QED BY <4>1, <4>2, <4>3
    <3>2. CASE k = n + 1
      BY <1>3, <2>2, <2>3, <3>2 DEF Changed
    <3> QED BY <2>5, <3>1, <3>2
  <2>7. \A j, k \in DOMAIN m_out_records' : m_out_records'[j].id = m_out_records'[k].id => j = k
    <3> TAKE j, k \in DOMAIN m_out_records'
    <3>1. CASE j \in 1..n /\ k \in 1..n
      BY <1>0, <2>1, <2>2, <3>1 DEF Queued
    <3>2. CASE j = n + 1 \/ k = n + 1
      BY <2>2, <2>3, <2>4, <2>5, <3>2
    <3> QED BY <2>5, <3>1, <3>2
  <2>8. \A j \in Ids : request'[j].pc = "writing" =>
          \E k \in DOMAIN m_out_records' : m_out_records'[k].id = j
    <3> TAKE j \in Ids
    <3> HAVE request'[j].pc = "writing"
    <3>1. CASE j = i
      <4>1. n + 1 \in DOMAIN m_out_records'
        BY <2>1, <2>2
      <4> QED BY <2>2, <2>3, <3>1, <4>1
    <3>2. CASE j # i
      <4>1. request[j].pc = "writing"
        BY <1>3, <3>2 DEF Changed
      <4>2. PICK k \in 1..n : m_out_records[k].id = j
        BY <1>0, <2>1, <4>1 DEF Queued
      <4>3. k \in DOMAIN m_out_records'
        BY <2>1, <2>2
      <4> QED BY <2>2, <4>2, <4>3
    <3> QED BY <3>1, <3>2
  <2>9. m_out_records' # <<>>
    <3>1. n + 1 \in DOMAIN m_out_records'
      BY <2>1, <2>2
    <3> QED BY <3>1
  <2> QED BY <1>1, <1>3, <2>6, <2>7, <2>8, <2>9 DEF Queued
<1>4. PICK at \in Written :
        \/ Fail(i) /\ UNCHANGED <<m_out_records, writer>>
        \/ /\ ~m_error /\ m_out_records' = Append(m_out_records, [id |-> i, type |-> at[1]])
           /\ Changed(i, "writing", request[i].want, request[i].io, at[2])
           /\ \/ writer = "idle" /\ writer' = "running"
              \/ writer # "idle" /\ UNCHANGED writer
  BY <1>0, WriteCases
<1> QED BY <1>2, <1>3, <1>4

LEMMA QueuedResumes ==
  ASSUME FcgiInv, WriterResumes
  PROVE  Queued'
<1>0. RequestOK /\ OutOK /\ Queued
  BY FcgiParts
<1> DEFINE i == Head(m_out_records).id
           n == Len(m_out_records) - 1
<1>1. /\ n \in Nat /\ DOMAIN m_out_records = 1..(n + 1) /\ DOMAIN m_out_records' = 1..n
      /\ \A k \in DOMAIN m_out_records : m_out_records[k].id \in Ids
      /\ i = m_out_records[1].id /\ i \in Ids /\ 1 \in DOMAIN m_out_records
      /\ \A k \in 1..n : m_out_records'[k] = m_out_records[k + 1]
  <2>1. /\ Len(m_out_records) \in Nat /\ Len(m_out_records) > 0
        /\ DOMAIN m_out_records = 1..Len(m_out_records) /\ 1 \in DOMAIN m_out_records
        /\ \A k \in DOMAIN m_out_records : m_out_records[k].id \in Ids
        /\ Head(m_out_records) = m_out_records[1]
        /\ m_out_records' \in Seq(OutTypes) /\ Len(m_out_records') = Len(m_out_records) - 1
        /\ \A k \in 1..(Len(m_out_records) - 1) : m_out_records'[k] = m_out_records[k + 1]
    BY <1>0, QueueIs DEF WriterResumes
  <2>2. DOMAIN m_out_records' = 1..Len(m_out_records')
    BY <2>1, LenProperties
  <2> QED BY <2>1, <2>2
<1>2. /\ request[i].pc = "writing" /\ <<m_out_records[1].type, request[i].next>> \in Written
  BY <1>0, <1>1 DEF Queued
<1>3. request[i].next # "writing"
  BY <1>2 DEF Written
<1>4. PICK pc, m : Changed(i, pc, m, request[i].io, request[i].next) /\ pc # "writing"
  <2>1. \/ Changed(i, "failed", request[i].want, request[i].io, request[i].next)
        \/ \E m : Changed(i, request[i].next, m, request[i].io, request[i].next)
    BY <1>0, ResumesCases
  <2> HIDE DEF i
  <2> QED BY <1>3, <2>1
<1> HIDE DEF i, n
<1>5. \A k \in DOMAIN m_out_records' :
        /\ k + 1 \in DOMAIN m_out_records /\ m_out_records'[k] = m_out_records[k + 1]
        /\ m_out_records[k + 1].id # i /\ m_out_records[k + 1].id \in Ids
  <2> TAKE k \in DOMAIN m_out_records'
  <2>1. k + 1 \in DOMAIN m_out_records /\ m_out_records'[k] = m_out_records[k + 1] /\ k + 1 # 1
    BY <1>1
  <2> QED BY <1>0, <1>1, <2>1 DEF Queued
<1>6. \A k \in DOMAIN m_out_records' :
        /\ request'[m_out_records'[k].id].pc = "writing"
        /\ <<m_out_records'[k].type, request'[m_out_records'[k].id].next>> \in Written
  <2> TAKE k \in DOMAIN m_out_records'
  <2>1. request'[m_out_records[k + 1].id] = request[m_out_records[k + 1].id]
    BY <1>4, <1>5 DEF Changed
  <2>2. /\ request[m_out_records[k + 1].id].pc = "writing"
        /\ <<m_out_records[k + 1].type, request[m_out_records[k + 1].id].next>> \in Written
    BY <1>0, <1>5 DEF Queued
  <2> QED BY <1>5, <2>1, <2>2
<1>7. \A j, k \in DOMAIN m_out_records' : m_out_records'[j].id = m_out_records'[k].id => j = k
  <2> TAKE j, k \in DOMAIN m_out_records'
  <2> HAVE m_out_records'[j].id = m_out_records'[k].id
  <2>1. j + 1 = k + 1
    BY <1>0, <1>5 DEF Queued
  <2> QED BY <1>1, <2>1
<1>8. \A j \in Ids : request'[j].pc = "writing" =>
        \E k \in DOMAIN m_out_records' : m_out_records'[k].id = j
  <2> TAKE j \in Ids
  <2> HAVE request'[j].pc = "writing"
  <2>1. j # i /\ request[j].pc = "writing"
    BY <1>1, <1>4 DEF Changed
  <2>2. PICK k \in DOMAIN m_out_records : m_out_records[k].id = j
    BY <1>0, <2>1 DEF Queued
  <2>3. k # 1
    BY <1>1, <2>1, <2>2
  <2>4. k - 1 \in 1..n /\ (k - 1) + 1 = k
    BY <1>1, <2>3
  <2> QED BY <1>1, <2>2, <2>4
<1>9. writer' = "running"
  BY DEF WriterResumes
<1> QED BY <1>6, <1>7, <1>8, <1>9 DEF Queued

LEMMA QueuedStep == FcgiInv /\ Next => Queued'
<1> SUFFICES ASSUME FcgiInv, Next PROVE Queued'
  OBVIOUS
<1>0. OutOK /\ Queued
  BY FcgiParts
<1>1. CASE UNCHANGED <<m_out_records, writer, m_error, request>>
  BY <1>0, <1>1, QueuedStays
<1>2. CASE WebServer \/ Rest
  BY <1>1, <1>2 DEF WebServer, SendBegin, SendOther, SendContent, Send, Close, Rest, vars, outVars
<1>3. CASE ReaderSuspend \/ ReaderRecv \/ ReaderCut \/ ReadBegin \/ ReadUnknown \/ Update \/ Updated
           \/ ReadPadding
  BY <1>1, <1>3 DEF ReaderSuspend, ReaderRecv, ReaderCut, ReadBegin, ReadUnknown, Update, Updated,
                    ReadPadding, EndReading, outVars
<1>4. CASE WriterNext
  <2>1. /\ UNCHANGED <<m_out_records, m_error, request>>
        /\ m_out_records = <<>> \/ ~m_error
        /\ writer' = IF m_out_records = <<>> THEN "idle" ELSE "sending"
    BY <1>4 DEF WriterNext
  <2>2. /\ writer' = "idle" => m_out_records = <<>>
        /\ writer' \in {"sending", "sent"} => m_out_records # <<>>
        /\ writer' = "sending" => ~m_error
    BY <2>1
  <2> QED BY <1>0, <2>1, <2>2 DEF Queued
<1>5. CASE Sent
  <2>1. /\ UNCHANGED <<m_out_records, request>> /\ writer = "sending" /\ writer' = "sent"
    BY <1>5 DEF Sent, SendDone
  <2> QED BY <1>0, <2>1 DEF Queued
<1>6. CASE Teardown
  <2>1. DOMAIN m_out_records' = {}
    BY <1>6, TeardownIs
  <2>2. \A i \in Ids : request'[i].pc # "writing"
    BY <1>6, TeardownIs DEF NewRequest
  <2> QED BY <1>6, <2>1, <2>2, TeardownIs DEF Queued
<1> QED BY <1>2, <1>3, <1>4, <1>5, <1>6, QueuedBegins, QueuedWrites, QueuedResumes, Moves, QueuedMoves
        DEF Next, Run, RunRequest

-----------------------------------------------------------------------------
(* Fresh, step by step. *)

\* Where a request may be that a begin of its id meets.
MeetsPcs == {"none", "skip", "done", "failed"}

FreshOne(i) ==
  /\ Begins(i) => request[i].pc \in MeetsPcs /\ replies[i] = <<>> /\ phase[i] # "free"
  /\ \A j, k \in DOMAIN wire : BeginAt(j, i) /\ BeginAt(k, i) => j = k
  /\ Begun(i) => \A k \in DOMAIN wire : ~BeginAt(k, i)
  /\ phase[i] = "free" => request[i].pc = "none"

LEMMA FreshIs == Fresh <=> \A i \in Ids : FreshOne(i)
BY DEF Fresh, FreshOne, MeetsPcs

LEMMA FreshNext ==
  ASSUME \A i \in Ids : FreshOne(i)'
  PROVE  Fresh'
BY DEF Fresh, FreshOne, MeetsPcs

\* A begin of this id that is on the wire after the step was on it before, at
\* another place.
Stems(i, n) == \A k \in DOMAIN wire' : BeginAt(k, i)' => /\ k \in Int /\ k + n \in DOMAIN wire
                                                          /\ BeginAt(k + n, i)

LEMMA SamePlace ==
  ASSUME NEW j \in Int, NEW k \in Int, NEW n \in Int, j + n = k + n
  PROVE  j = k
OBVIOUS

LEMMA FreshStays ==
  ASSUME NEW i \in Ids, FreshOne(i), NEW n \in Int, Stems(i, n), Begun(i)' => Begun(i),
         Begins(i) => request'[i].pc \in MeetsPcs /\ replies'[i] = replies[i],
         phase'[i] = "free" <=> phase[i] = "free",
         phase[i] = "free" => request'[i].pc = request[i].pc
  PROVE  FreshOne(i)'
<1>1. Begins(i)' => Begins(i)
  BY DEF Stems, Begins
<1>2. Begins(i)' => request'[i].pc \in MeetsPcs /\ replies'[i] = <<>> /\ phase'[i] # "free"
  BY <1>1 DEF FreshOne
<1>3. \A j, k \in DOMAIN wire' : BeginAt(j, i)' /\ BeginAt(k, i)' => j = k
  <2> SUFFICES ASSUME NEW j \in DOMAIN wire', NEW k \in DOMAIN wire', BeginAt(j, i)', BeginAt(k, i)'
               PROVE  j = k
    OBVIOUS
  <2>1. j \in Int /\ k \in Int /\ j + n = k + n
    BY DEF Stems, FreshOne
  <2> QED BY <2>1, SamePlace
<1>4. Begun(i)' => \A k \in DOMAIN wire' : ~BeginAt(k, i)'
  BY DEF Stems, FreshOne
<1>5. phase'[i] = "free" => request'[i].pc = "none"
  BY DEF FreshOne
<1> QED BY <1>2, <1>3, <1>4, <1>5 DEF FreshOne

LEMMA StemsSuffix ==
  ASSUME NEW n, Suffix(wire, wire', n)
  PROVE  n \in Int /\ \A i : Stems(i, n)
<1>1. n \in Int /\ \A k \in DOMAIN wire' : k \in Int /\ k + n \in DOMAIN wire /\ wire'[k] = wire[k + n]
  BY DEF Suffix
<1> QED BY <1>1 DEF Stems, BeginAt

LEMMA StemsPrefix ==
  ASSUME NEW n, Prefix(wire, wire', n)
  PROVE  \A i : Stems(i, 0)
<1>1. \A k \in DOMAIN wire' : k \in Int /\ k + 0 \in DOMAIN wire /\ wire'[k] = wire[k + 0]
  BY DEF Prefix
<1> QED BY <1>1 DEF Stems, BeginAt

LEMMA StemsSame ==
  ASSUME WireOK, UNCHANGED wire
  PROVE  \A i : Stems(i, 0)
<1>1. \A k \in DOMAIN wire' : k \in Int /\ k + 0 \in DOMAIN wire /\ wire'[k] = wire[k + 0]
  BY WireIs
<1> QED BY <1>1 DEF Stems, BeginAt

\* A record that begins no request of this id joins.
LEMMA StemsJoin ==
  ASSUME NEW i, NEW r, Joined(wire, r, wire'),
         \A k \in 1..Len(r) : r[k].kind = "header" => ~(r[k].type = "begin" /\ r[k].id = i)
  PROVE  Stems(i, 0)
<1> SUFFICES ASSUME NEW k \in DOMAIN wire', BeginAt(k, i)'
             PROVE  k \in Int /\ k + 0 \in DOMAIN wire /\ BeginAt(k + 0, i)
  BY DEF Stems
<1>1. /\ Len(wire) \in Nat /\ Len(r) \in Nat /\ DOMAIN wire = 1..Len(wire)
      /\ k \in 1..(Len(wire) + Len(r))
  BY DEF Joined
<1>2. CASE k <= Len(wire)
  <2>1. k \in 1..Len(wire) /\ k + 0 = k
    BY <1>1, <1>2
  <2>2. wire'[k] = wire[k]
    BY <2>1 DEF Joined
  <2> QED BY <1>1, <2>1, <2>2 DEF BeginAt
<1>3. CASE ~(k <= Len(wire))
  <2> DEFINE j == k - Len(wire)
  <2>1. j \in 1..Len(r) /\ j + Len(wire) = k
    BY <1>1, <1>3
  <2> HIDE DEF j
  <2>2. wire'[k] = r[j]
    BY <2>1 DEF Joined
  <2> QED BY <2>1, <2>2 DEF BeginAt
<1> QED BY <1>2, <1>3

\* Steps of requests and of the writer, and of the reader elsewhere.
LEMMA FreshMoves ==
  ASSUME FcgiInv, NEW i \in Ids, Moved(i), NEW n \in Int, \A j \in Ids : Stems(j, n),
         \A j \in Ids : Begun(j)' => Begun(j)
  PROVE  Fresh'
<1>0. Fresh
  BY FcgiParts
<1> SUFFICES ASSUME NEW j \in Ids PROVE FreshOne(j)'
  BY FreshNext
<1>1. FreshOne(j) /\ UNCHANGED <<replies, phase>>
  BY <1>0, FreshIs DEF Moved
<1>2. CASE j = i
  <2>1. Begins(i) => request[i].pc = "skip"
    BY <1>1, <1>2 DEF Moved, FreshOne, OutsPcs, MeetsPcs
  <2>2. Begins(i) => request'[i].pc \in MeetsPcs
    BY <2>1 DEF Moved, OverPcs, MeetsPcs
  <2>3. phase[i] # "free"
    BY <1>1, <1>2 DEF Moved, FreshOne, OutsPcs
  <2> QED BY <1>1, <1>2, <2>2, <2>3, FreshStays
<1>3. CASE j # i
  <2>1. request'[j] = request[j]
    BY <1>3 DEF Moved
  <2>2. Begins(j) => request'[j].pc \in MeetsPcs
    BY <1>1, <2>1 DEF FreshOne
  <2> QED BY <1>1, <2>1, <2>2, FreshStays
<1> QED BY <1>2, <1>3

LEMMA FreshSame ==
  ASSUME FcgiInv, UNCHANGED <<request, replies, phase>>, NEW n \in Int, \A j \in Ids : Stems(j, n),
         \A j \in Ids : Begun(j)' => Begun(j)
  PROVE  Fresh'
<1>0. Fresh
  BY FcgiParts
<1> SUFFICES ASSUME NEW j \in Ids PROVE FreshOne(j)'
  BY FreshNext
<1>1. FreshOne(j)
  BY <1>0, FreshIs
<1>2. Begins(j) => request'[j].pc \in MeetsPcs
  BY <1>1 DEF FreshOne
<1> QED BY <1>1, <1>2, FreshStays

\* A request that is in the queue goes on, or its answer grows.
LEMMA FreshQueued ==
  ASSUME FcgiInv, UNCHANGED <<wire, reader, phase>>, NEW i \in Ids, request[i].pc \notin MeetsPcs,
         \A j \in Ids : j # i => request'[j] = request[j] /\ replies'[j] = replies[j]
  PROVE  Fresh'
<1>0. Fresh /\ WireOK
  BY FcgiParts
<1> SUFFICES ASSUME NEW j \in Ids PROVE FreshOne(j)'
  BY FreshNext
<1>1. FreshOne(j) /\ Stems(j, 0) /\ 0 \in Int /\ (Begun(j)' => Begun(j))
  BY <1>0, FreshIs, StemsSame DEF Begun
<1>2. j = i => ~Begins(j) /\ phase[j] # "free"
  BY <1>1 DEF FreshOne, MeetsPcs
<1>3. Begins(j) => request'[j].pc \in MeetsPcs /\ replies'[j] = replies[j]
  BY <1>1, <1>2 DEF FreshOne
<1>4. phase[j] = "free" => request'[j].pc = request[j].pc
  BY <1>2
<1> QED BY <1>1, <1>3, <1>4, FreshStays

LEMMA RepliesAre ==
  ASSUME OutOK, NEW i \in Ids
  PROVE  /\ replies[i] \in Seq({"stdout", "end", "endreq"}) /\ Len(replies[i]) \in Nat
         /\ DOMAIN replies[i] = 1..Len(replies[i])
         /\ replies[i] # <<>> => Len(replies[i]) > 0 /\ Len(replies[i]) \in DOMAIN replies[i]
<1>1. replies[i] \in Seq({"stdout", "end", "endreq"})
  BY DEF OutOK
<1>2. /\ Len(replies[i]) \in Nat /\ DOMAIN replies[i] = 1..Len(replies[i])
      /\ replies[i] # <<>> => Len(replies[i]) # 0
  BY <1>1, LenProperties, EmptySeq
<1> QED BY <1>1, <1>2

\* How far an answer has come decides Reached, place by place.
LEMMA ReachedIs ==
  ASSUME NEW r
  PROVE  /\ Reached(r, "endreq") <=> EndOf(r) = "end"
         /\ Reached(r, "end") <=> Outs(r) /\ r # <<>>
         /\ \A pc \in MeetsPcs : Reached(r, pc) <=> TRUE
         /\ \A pc \in OutsPcs : Reached(r, pc) <=> Outs(r)
<1>1. ASSUME NEW pc \in MeetsPcs PROVE Reached(r, pc) <=> TRUE
  BY DEF Reached, MeetsPcs
<1>2. ASSUME NEW pc \in OutsPcs PROVE Reached(r, pc) <=> Outs(r)
  <2>1. /\ pc # "endreq" /\ pc # "end" /\ pc \notin {"none", "skip", "done", "failed"}
    BY DEF OutsPcs
  <2> QED BY <2>1 DEF Reached
<1>3. Reached(r, "endreq") <=> EndOf(r) = "end"
  BY DEF Reached
<1>4. Reached(r, "end") <=> Outs(r) /\ r # <<>>
  BY DEF Reached
<1> QED BY <1>1, <1>2, <1>3, <1>4

LEMMA PcsAre ==
  RequestPcs = OutsPcs \union MeetsPcs \union {"end", "endreq", "writing"}
BY DEF RequestPcs, OutsPcs, MeetsPcs

\* Once the loop runs, a request whose end has been sent is over.
LEMMA EndedIsOver ==
  ASSUME FcgiInv, stack = <<>>, NEW i \in Ids, Ended(i)
  PROVE  request[i].pc \in MeetsPcs
<1>0. RequestOK /\ OutOK /\ Nested /\ Queued /\ Answering
  BY FcgiParts
<1> DEFINE r == replies[i]
<1>1. EndOf(r) = "endreq" /\ r # <<>> /\ ~Outs(r)
  <2>1. r # <<>> /\ r[Len(r)] = "endreq" /\ Len(r) \in DOMAIN r
    BY <1>0, RepliesAre DEF Ended
  <2> QED BY <2>1 DEF EndOf, Outs
<1> HIDE DEF r
<1>2. request[i].pc # "writing"
  <2> SUFFICES ASSUME request[i].pc = "writing" PROVE FALSE
    OBVIOUS
  <2>1. PICK k \in DOMAIN m_out_records : m_out_records[k].id = i
    BY <1>0 DEF Queued
  <2>2. ~JustSent(m_out_records[k].id)
    BY <1>0, SleepsAlone DEF JustSent, WriterAwake
  <2> DEFINE o == m_out_records[k]
  <2>3. (CASE o.type = "stdout" -> Outs(r)
           [] o.type = "end"    -> Outs(r) /\ r # <<>>
           [] o.type = "endreq" -> EndOf(r) = "end")
    BY <1>0, <2>1, <2>2 DEF Answering, r
  <2>4. o.type \in {"stdout", "end", "endreq"}
    BY <1>0, QueueIs
  <2> HIDE DEF o
  <2> QED BY <1>1, <2>3, <2>4
<1>3. Reached(r, request[i].pc)
  BY <1>0, <1>2 DEF Answering, r
<1>4. request[i].pc \in RequestPcs
  BY <1>0, RequestIs
<1>5. request[i].pc \notin OutsPcs
  BY <1>1, <1>3, ReachedIs
<1>6. request[i].pc # "end" /\ request[i].pc # "endreq"
  BY <1>1, <1>3, ReachedIs
<1> QED BY <1>2, <1>4, <1>5, <1>6, PcsAre

LEMMA FreshServer ==
  ASSUME FcgiInv, WebServer
  PROVE  Fresh'
<1>0. WireOK /\ RequestOK /\ Fresh
  BY FcgiParts
<1>1. UNCHANGED <<reader, request>>
  BY DEF WebServer, SendBegin, SendOther, SendContent, Send, Close
<1>2. \A j : Begun(j)' <=> Begun(j)
  BY <1>1 DEF Begun
<1>3. ASSUME NEW i \in Ids, SendBegin(i) PROVE Fresh'
  <2> DEFINE r == BeginRecord(i)
  <2>1. r \in Seq(UnitTypes) /\ Send(r) /\ Len(r) = 2 /\ r[1] = Unit("header", "begin", i, 1)
        /\ r[2] = Unit("content", "begin", i, 0)
    BY <1>3, BeginRecordType DEF SendBegin, BeginRecord
  <2> HIDE DEF r
  <2>2. Joined(wire, r, wire') /\ stack = <<>>
    BY <1>0, <2>1, Sends DEF Joined
  <2>3. /\ phase' = [phase EXCEPT ![i] = "params"] /\ replies' = [replies EXCEPT ![i] = <<>>]
        /\ phase[i] = "free" \/ Ended(i)
    BY <1>3 DEF SendBegin
  <2>4. FreshOne(i) /\ OutOK
    BY <1>0, FreshIs, FcgiParts
  <2>5. request[i].pc \in MeetsPcs
    BY <2>2, <2>3, <2>4, EndedIsOver DEF FreshOne, MeetsPcs
  <2>6. ~Begins(i)
    BY <2>3, <2>4 DEF FreshOne, Ended
  <2>7. phase'[i] = "params" /\ replies'[i] = <<>>
    BY <1>0, <2>3, <2>4 DEF WireOK, OutOK
  <2>8. \A k \in DOMAIN wire' : BeginAt(k, i)' => k = Len(wire) + 1
    <3> SUFFICES ASSUME NEW k \in DOMAIN wire', BeginAt(k, i)' PROVE k = Len(wire) + 1
      OBVIOUS
    <3>1. Len(wire) \in Nat /\ DOMAIN wire = 1..Len(wire) /\ k \in 1..(Len(wire) + 2)
      BY <2>1, <2>2 DEF Joined
    <3>2. ~(k <= Len(wire))
      <4> SUFFICES ASSUME k <= Len(wire) PROVE FALSE
        OBVIOUS
      <4>1. k \in 1..Len(wire) /\ k \in DOMAIN wire
        BY <3>1
      <4>2. wire'[k] = wire[k]
        BY <2>2, <4>1 DEF Joined
      <4> QED BY <2>6, <4>1, <4>2 DEF Begins, BeginAt
    <3>3. k # Len(wire) + 2
      <4> SUFFICES ASSUME k = Len(wire) + 2 PROVE FALSE
        OBVIOUS
      <4>1. 2 \in 1..Len(r) /\ 2 + Len(wire) = k
        BY <2>1, <3>1
      <4>2. wire'[k] = r[2]
        BY <2>2, <4>1 DEF Joined
      <4> QED BY <2>1, <4>2 DEF BeginAt, Unit
    <3> QED BY <3>1, <3>2, <3>3
  <2>9. FreshOne(i)'
    <3>1. ~Begun(i)'
      BY <1>2, <2>6 DEF Begins
    <3>2. request'[i].pc \in MeetsPcs
      BY <1>1, <2>5
    <3>3. \A j, k \in DOMAIN wire' : BeginAt(j, i)' /\ BeginAt(k, i)' => j = k
      BY <2>8
    <3>4. phase'[i] # "free"
      BY <2>7
    <3> QED BY <2>7, <3>1, <3>2, <3>3, <3>4 DEF FreshOne
  <2>10. ASSUME NEW j \in Ids, j # i PROVE FreshOne(j)'
    <3>1. FreshOne(j)
      BY <1>0, FreshIs
    <3>2. phase'[j] = phase[j] /\ replies'[j] = replies[j]
      BY <1>0, <2>3, <2>4, <2>10 DEF WireOK, OutOK
    <3>3. Stems(j, 0)
      <4>1. \A k \in 1..Len(r) : r[k].kind = "header" => ~(r[k].type = "begin" /\ r[k].id = j)
        <5>1. \A k \in 1..Len(r) : k = 1 \/ k = 2
          BY <2>1
        <5>2. r[1].id = i /\ r[2].id = i
          BY <2>1 DEF Unit
        <5> QED BY <2>10, <5>1, <5>2
      <4> QED BY <2>2, <4>1, StemsJoin
    <3>4. Begins(j) => request'[j].pc \in MeetsPcs
      BY <1>1, <3>1 DEF FreshOne
    <3>5. 0 \in Int
      OBVIOUS
    <3> QED BY <1>1, <1>2, <3>1, <3>2, <3>3, <3>4, <3>5, FreshStays
  <2> QED BY <2>9, <2>10, FreshNext
<1>4. ASSUME NEW r, Joined(wire, r, wire'), UNCHANGED replies,
             \A k \in 1..Len(r) : r[k].kind = "header" => r[k].type # "begin",
             \A j \in Ids : phase'[j] = "free" <=> phase[j] = "free"
      PROVE  Fresh'
  <2> SUFFICES ASSUME NEW j \in Ids PROVE FreshOne(j)'
    BY FreshNext
  <2>1. FreshOne(j) /\ 0 \in Int
    BY <1>0, FreshIs
  <2>2. Stems(j, 0)
    BY <1>4, StemsJoin
  <2>3. Begins(j) => request'[j].pc \in MeetsPcs /\ replies'[j] = replies[j]
    BY <1>1, <1>4, <2>1 DEF FreshOne
  <2> QED BY <1>1, <1>2, <1>4, <2>1, <2>2, <2>3, FreshStays
<1>5. ASSUME NEW i \in Ids, NEW type \in Types, NEW len \in 0..MaxContent, SendContent(i, type, len)
      PROVE  Fresh'
  <2> DEFINE r == Record(type, i, len)
  <2>1. /\ r \in Seq(UnitTypes) /\ Send(r) /\ Whole(r) /\ r[1] = Unit("header", type, i, len)
        /\ UNCHANGED replies
    BY <1>5, RecordType, WholeRecord DEF SendContent
  <2> HIDE DEF r
  <2>2. Joined(wire, r, wire')
    BY <1>0, <2>1, Sends DEF Joined
  <2>3. \A k \in 1..Len(r) : r[k].kind = "header" => r[k].type # "begin"
    <3> TAKE k \in 1..Len(r)
    <3>1. type # "begin" /\ r[1].type = type
      BY <2>1 DEF Types, Unit
    <3>2. CASE k = 1
      BY <3>1, <3>2
    <3>3. CASE k # 1
      <4>1. k \in 2..(1 + ContentOf(r[1])) \/ k \in (2 + ContentOf(r[1]))..(1 + ContentOf(r[1]) + PaddingOf(r[1]))
        BY <2>1, <3>3 DEF Whole
      <4>2. r[k].kind # "header"
        BY <2>1, <4>1 DEF Whole, Unit
      <4> QED BY <4>2
    <3> QED BY <3>2, <3>3
  <2>4. \A j \in Ids : phase'[j] = "free" <=> phase[j] = "free"
    <3>1. phase[i] = type /\ type # "free"
      BY <1>5 DEF SendContent, Types
    <3>2. phase' = [phase EXCEPT ![i] = IF len > 0 THEN phase[i]
                                        ELSE IF type = "params" THEN "stdin" ELSE "over"]
      BY <1>5 DEF SendContent
    <3> QED BY <1>0, <3>1, <3>2 DEF WireOK
  <2> QED BY <1>4, <2>1, <2>2, <2>3, <2>4
<1>6. ASSUME SendOther PROVE Fresh'
  <2> DEFINE r == OtherRecord(SomeId)
  <2>1. /\ r \in Seq(UnitTypes) /\ Send(r) /\ Len(r) = 1 /\ r[1] = Unit("header", "other", SomeId, 0)
        /\ UNCHANGED <<phase, replies>>
    BY <1>6, SomeIdIs, OtherRecordType DEF SendOther, OtherRecord, SomeId
  <2> HIDE DEF r
  <2>2. Joined(wire, r, wire')
    BY <1>0, <2>1, Sends DEF Joined
  <2>3. \A k \in 1..Len(r) : r[k].kind = "header" => r[k].type # "begin"
    <3>1. \A k \in 1..Len(r) : k = 1
      BY <2>1
    <3>2. r[1].type = "other"
      BY <2>1 DEF Unit
    <3> QED BY <3>1, <3>2
  <2> QED BY <1>4, <2>1, <2>2, <2>3
<1>7. ASSUME Close PROVE Fresh'
  <2>1. PICK n \in 0..Len(wire) : wire' = SubSeq(wire, 1, n)
    BY <1>7 DEF Close
  <2>2. Prefix(wire, wire', n) /\ UNCHANGED <<replies, phase>>
    BY <1>0, <1>7, <2>1, Cuts DEF Prefix, Close, outVars
  <2>3. 0 \in Int /\ \A j \in Ids : Stems(j, 0)
    BY <2>2, StemsPrefix
  <2> QED BY <1>1, <1>2, <2>2, <2>3, FreshSame
<1> QED BY <1>3, <1>5, <1>6, <1>7 DEF WebServer

LEMMA FreshReader ==
  ASSUME FcgiInv, \/ ReaderSuspend \/ ReaderRecv \/ ReaderCut \/ ReadBegin \/ ReadUnknown
                  \/ BeginRequest \/ Update \/ Updated \/ ReadPadding
  PROVE  Fresh'
<1>0. WireOK /\ ReaderOK /\ RequestOK /\ Fresh
  BY FcgiParts
<1>1. UNCHANGED <<phase, replies>>
  BY DEF ReaderSuspend, ReaderRecv, ReaderCut, ReadBegin, ReadUnknown, BeginRequest, Update, Updated,
         ReadPadding, EndReading, outVars, connVars
<1>2. ASSUME ReaderSuspend \/ ReaderRecv \/ ReaderCut \/ Updated PROVE Fresh'
  <2>1. UNCHANGED <<wire, request>>
    BY <1>2 DEF ReaderSuspend, ReaderRecv, ReaderCut, Updated, EndReading, connVars
  <2>2. 0 \in Int /\ \A j \in Ids : Stems(j, 0)
    BY <1>0, <2>1, StemsSame
  <2>3. \A j \in Ids : Begun(j)' => Begun(j)
    BY <1>0, <1>2 DEF Begun, ReaderSuspend, ReaderRecv, ReaderCut, Updated, EndReading, ReaderOK,
                      ReaderTypes
  <2> QED BY <1>1, <2>1, <2>2, <2>3, FreshSame
<1>3. ASSUME ReadUnknown \/ Update \/ ReadPadding PROVE Fresh'
  <2>1. ReaderNeeds \in Nat /\ Len(wire) \in Nat
    BY <1>0, ReaderNeedsIs, WireIs
  <2>2. PICK n \in Nat : Take(n) /\ n <= Len(wire)
    BY <1>3, <2>1 DEF ReadUnknown, Update, ReadPadding, ReaderHas
  <2>3. n \in Int /\ \A j \in Ids : Stems(j, n)
    BY <1>0, <2>2, SuffixTakes, StemsSuffix
  <2>4. \A j \in Ids : ~Begun(j)'
    BY <1>0, <1>3 DEF Begun, ReadUnknown, Update, ReadPadding, EndReading, ReaderOK, ReaderTypes
  <2>5. UNCHANGED request
    BY <1>3 DEF ReadUnknown, Update, ReadPadding, EndReading
  <2> QED BY <1>1, <2>3, <2>4, <2>5, FreshSame
<1>4. ASSUME ReadBegin PROVE Fresh'
  <2>1. /\ reader.pc = "header" /\ 1 <= Len(wire) /\ Take(1) /\ wire[1].type = "begin"
        /\ 1 \in DOMAIN wire /\ wire[1].id \in Ids /\ UNCHANGED request
    BY <1>0, <1>4, FirstUnit DEF ReadBegin, ReaderAt, ReaderHas
  <2>2. Suffix(wire, wire', 1)
    BY <1>0, <2>1, SuffixTakes
  <2>3. wire[1].kind = "header"
    <3>1. Continues(wire, 0, 0, 0, reader.type, reader.id, closed)
      BY <2>1, DueIs DEF DueContent, DuePadding
    <3> QED BY <2>1, <3>1 DEF Continues
  <2>4. BeginAt(1, wire[1].id)
    BY <2>1, <2>3 DEF BeginAt
  <2>5. \A j : Begun(j)' <=> j = wire[1].id
    BY <1>0, <1>4 DEF Begun, ReadBegin, ReaderOK, ReaderTypes
  <2> SUFFICES ASSUME NEW j \in Ids PROVE FreshOne(j)'
    BY FreshNext
  <2>6. FreshOne(j) /\ Stems(j, 1) /\ 1 \in Int
    BY <1>0, <2>2, FreshIs, StemsSuffix
  <2>7. CASE j = wire[1].id
    <3>1. Begins(j)
      BY <2>1, <2>4, <2>7 DEF Begins
    <3>2. \A k \in DOMAIN wire' : ~BeginAt(k, j)'
      <4> SUFFICES ASSUME NEW k \in DOMAIN wire', BeginAt(k, j)' PROVE FALSE
        OBVIOUS
      <4>1. k \in 1..(Len(wire) - 1) /\ Len(wire) \in Nat
        BY <2>2 DEF Suffix
      <4>2. k + 1 = 1
        BY <2>1, <2>4, <2>6, <2>7 DEF FreshOne, Stems
      <4> QED BY <4>1, <4>2
    <3>3. request'[j].pc \in MeetsPcs /\ replies'[j] = <<>> /\ phase'[j] # "free"
      BY <1>1, <2>1, <2>6, <3>1 DEF FreshOne
    <3> QED BY <3>2, <3>3 DEF FreshOne
  <2>8. CASE j # wire[1].id
    <3>1. Begins(j) => request'[j].pc \in MeetsPcs
      BY <2>1, <2>6 DEF FreshOne
    <3> QED BY <1>1, <2>1, <2>5, <2>6, <2>8, <3>1, FreshStays
  <2> QED BY <2>7, <2>8
<1>5. ASSUME BeginRequest PROVE Fresh'
  <2> DEFINE n == reader.id
  <2>1. /\ reader.pc = "begin" /\ 1 <= Len(wire) /\ Take(1) /\ n \in Ids /\ reader'.pc = "padding"
    BY <1>0, <1>5, FirstUnit DEF BeginRequest, ReaderAt, ReaderHas, ReaderOK, ReaderTypes
  <2>2. /\ request'[n].pc = "params" /\ \A i \in Ids : i # n => request'[i] = request[i]
    BY <1>0, <1>5, <2>1 DEF BeginRequest, RequestOK, NewRequest
  <2>3. \A j \in Ids : Stems(j, 1)
    BY <1>0, <2>1, SuffixTakes, StemsSuffix
  <2>4. \A j : ~Begun(j)'
    BY <2>1 DEF Begun
  <2>5. Begun(n)
    BY <2>1 DEF Begun
  <2> HIDE DEF n
  <2> SUFFICES ASSUME NEW j \in Ids PROVE FreshOne(j)'
    BY FreshNext
  <2>6. FreshOne(j) /\ Stems(j, 1) /\ 1 \in Int
    BY <1>0, <2>3, FreshIs
  <2>7. CASE j = n
    <3>1. \A k \in DOMAIN wire' : ~BeginAt(k, j)'
      BY <2>5, <2>6, <2>7 DEF FreshOne, Stems
    <3>2. ~Begins(j)'
      BY <2>4, <3>1 DEF Begins
    <3>3. phase'[j] # "free"
      BY <1>1, <2>5, <2>6, <2>7 DEF FreshOne, Begins
    <3> QED BY <2>4, <3>1, <3>2, <3>3 DEF FreshOne
  <2>8. CASE j # n
    <3>1. request'[j] = request[j]
      BY <2>2, <2>8
    <3>2. Begins(j) => request'[j].pc \in MeetsPcs
      BY <2>6, <3>1 DEF FreshOne
    <3> QED BY <1>1, <2>4, <2>6, <3>1, <3>2, FreshStays
  <2> QED BY <2>7, <2>8
<1> QED BY <1>2, <1>3, <1>4, <1>5

LEMMA FreshStep == FcgiInv /\ Next => Fresh'
<1> SUFFICES ASSUME FcgiInv, Next PROVE Fresh'
  OBVIOUS
<1>0. WireOK /\ ReaderOK /\ RequestOK /\ StreamOK /\ StackOK /\ OutOK /\ Fresh /\ Queued
  BY FcgiParts
<1>1. ASSUME NEW i \in Ids, ReadContent(i) PROVE Fresh'
  <2>1. Moved(i)
    BY <1>1, Moves
  <2>2. Share(i) \in Nat /\ Share(i) <= Len(wire) /\ Take(Share(i)) /\ UNCHANGED reader
    BY <1>0, <1>1, ContentIs DEF ReadContent
  <2>3. Share(i) \in Int /\ \A j \in Ids : Stems(j, Share(i))
    BY <1>0, <2>2, SuffixTakes, StemsSuffix
  <2>4. \A j \in Ids : Begun(j)' => Begun(j)
    BY <2>2 DEF Begun
  <2> QED BY <2>1, <2>3, <2>4, FreshMoves
<1>2. ASSUME NEW i \in Ids,
             \/ AwaitReadable(i) \/ RequestSuspend(i) \/ RequestRecv(i) \/ ContentCut(i)
             \/ ReadReturns(i) \/ NextHeader(i) \/ Dispatch(i) \/ Subscribe(i) \/ AwaitItems(i)
             \/ ItemsCome(i) \/ Finish(i)
      PROVE  Fresh'
  <2>1. Moved(i)
    BY <1>2, Moves
  <2>2. UNCHANGED wire
    BY <1>2 DEF AwaitReadable, RequestSuspend, RequestRecv, ContentCut, ReadReturns, NextHeader,
                Dispatch, Subscribe, AwaitItems, ItemsCome, Finish, connVars
  <2>3. 0 \in Int /\ \A j \in Ids : Stems(j, 0)
    BY <1>0, <2>2, StemsSame
  <2>4. \A j \in Ids : Begun(j)' => Begun(j)
    <3>1. CASE AwaitReadable(i)
      <4>1. reader' = reader \/ reader'.pc = "padding"
        BY <1>0, <3>1 DEF AwaitReadable, ReaderOK, ReaderTypes
      <4> QED BY <4>1 DEF Begun
    <3>2. CASE ~AwaitReadable(i)
      <4>1. UNCHANGED reader
        BY <1>2, <3>2 DEF RequestSuspend, RequestRecv, ContentCut, ReadReturns, NextHeader,
                          Dispatch, Subscribe, AwaitItems, ItemsCome, Finish
      <4> QED BY <4>1 DEF Begun
    <3> QED BY <3>1, <3>2
  <2> QED BY <2>1, <2>3, <2>4, FreshMoves
<1>3. ASSUME NEW i \in Ids, Write(i) PROVE Fresh'
  <2>1. UNCHANGED <<wire, reader, phase, replies>>
    BY <1>3 DEF Write, connVars
  <2>2. request[i].pc \notin MeetsPcs
    BY <1>0, <1>3, WriteCases DEF MeetsPcs
  <2>3. \A j \in Ids : j # i => request'[j] = request[j]
    BY <1>0, <1>3, WriteCases, FailIs DEF Changed
  <2> QED BY <2>1, <2>2, <2>3, FreshQueued
<1>4. ASSUME NEW i \in Ids, m_out_records # <<>>, i = Head(m_out_records).id
      PROVE  request[i].pc = "writing" /\ request[i].pc \notin MeetsPcs
  <2>1. 1 \in DOMAIN m_out_records /\ Head(m_out_records) = m_out_records[1]
    BY <1>0, <1>4, QueueIs
  <2>2. request[m_out_records[1].id].pc = "writing"
    BY <1>0, <2>1 DEF Queued
  <2>3. request[i].pc = "writing"
    BY <1>4, <2>1, <2>2
  <2> QED BY <2>3 DEF MeetsPcs
<1>5. ASSUME Sent PROVE Fresh'
  <2> DEFINE i == Head(m_out_records).id
  <2>1. m_out_records # <<>>
    BY <1>0, <1>5 DEF Sent, SendDone, Queued
  <2>2. i \in Ids /\ request[i].pc \notin MeetsPcs
    BY <1>0, <1>4, <2>1, QueueIs
  <2>3. /\ UNCHANGED <<wire, reader, phase, request>>
        /\ \A j \in Ids : j # i => replies'[j] = replies[j]
    BY <1>0, <1>5, <2>2 DEF Sent, SendDone, connVars, OutOK
  <2> HIDE DEF i
  <2> QED BY <2>2, <2>3, FreshQueued
<1>6. ASSUME WriterResumes PROVE Fresh'
  <2> DEFINE i == Head(m_out_records).id
  <2>1. i \in Ids /\ request[i].pc \notin MeetsPcs
    BY <1>0, <1>4, <1>6, QueueIs DEF WriterResumes
  <2>2. \A j \in Ids : j # i => request'[j] = request[j]
    BY <1>0, <1>6, ResumesCases DEF Changed
  <2>3. UNCHANGED <<wire, reader, phase, replies>>
    BY <1>6 DEF WriterResumes, connVars
  <2> HIDE DEF i
  <2> QED BY <2>1, <2>2, <2>3, FreshQueued
<1>7. ASSUME Teardown PROVE Fresh'
  <2> SUFFICES ASSUME NEW j \in Ids PROVE FreshOne(j)'
    BY FreshNext
  <2>1. DOMAIN wire' = {} /\ ~Begun(j)' /\ request'[j].pc = "none"
    BY <1>7, TeardownIs DEF Begun, NewRequest
  <2>2. ~Begins(j)'
    BY <2>1 DEF Begins
  <2> QED BY <2>1, <2>2 DEF FreshOne
<1>8. ASSUME WriterNext \/ Rest PROVE Fresh'
  <2>1. UNCHANGED <<wire, reader, phase, replies, request>>
    BY <1>8 DEF WriterNext, Rest, vars, connVars, outVars
  <2>2. 0 \in Int /\ \A j \in Ids : Stems(j, 0)
    BY <1>0, <2>1, StemsSame
  <2>3. \A j \in Ids : Begun(j)' => Begun(j)
    BY <2>1 DEF Begun
  <2> QED BY <2>1, <2>2, <2>3, FreshSame
<1> QED BY <1>1, <1>2, <1>3, <1>5, <1>6, <1>7, <1>8, FreshServer, FreshReader
        DEF Next, Run, RunRequest

-----------------------------------------------------------------------------
(* Answering, step by step. *)

\* RepliesInOrder of one answer.
InOrder(r) ==
  \A k \in DOMAIN r :
    /\ r[k] = "end" => k > 1 /\ r[k - 1] = "stdout"
    /\ r[k] = "endreq" => k > 1 /\ r[k - 1] = "end" /\ k = Len(r)
    /\ r[k] = "stdout" => k = 1 \/ r[k - 1] = "stdout"

LEMMA InOrderIs == RepliesInOrder <=> \A i \in Ids : InOrder(replies[i])
BY DEF RepliesInOrder, InOrder

LEMMA InOrderNext ==
  ASSUME \A i \in Ids : InOrder(replies'[i])
  PROVE  RepliesInOrder'
BY DEF RepliesInOrder, InOrder

\* A record of a type may be the next of an answer that has come so far.
Ready(r, type) ==
  CASE type = "stdout" -> Outs(r)
    [] type = "end"    -> Outs(r) /\ r # <<>>
    [] type = "endreq" -> EndOf(r) = "end"

ReadyAt(k) ==
  LET o == m_out_records[k]
  IN  IF JustSent(o.id) THEN Reached(replies[o.id], request[o.id].next)
      ELSE Ready(replies[o.id], o.type)

LEMMA AnsweringIs ==
  Answering <=> /\ RepliesInOrder
                /\ \A i \in Ids : request[i].pc # "writing" => Reached(replies[i], request[i].pc)
                /\ \A k \in DOMAIN m_out_records : ReadyAt(k)
BY DEF Answering, ReadyAt, Ready

LEMMA AnsweringNext ==
  ASSUME RepliesInOrder',
         \A i \in Ids : request'[i].pc # "writing" => Reached(replies'[i], request'[i].pc),
         \A k \in DOMAIN m_out_records' : ReadyAt(k)'
  PROVE  Answering'
BY DEF Answering, ReadyAt, Ready

\* ReadyAt for a record of the next queue whose id and type are known.
LEMMA ReadyAtNext ==
  ASSUME NEW k, NEW x, NEW type, m_out_records'[k].id = x, m_out_records'[k].type = type,
         JustSent(x)' => Reached(replies'[x], request'[x].next),
         ~JustSent(x)' => Ready(replies'[x], type)
  PROVE  ReadyAt(k)'
BY DEF ReadyAt, JustSent

\* The type that a request writes is what its answer is ready for.
LEMMA ReadyWrites ==
  ASSUME NEW r, NEW pc \in {"reply", "head", "message", "end", "endreq"}, Reached(r, pc)
  PROVE  Ready(r, WriteAt[pc][1])
<1>1. CASE pc \in {"reply", "head", "message"}
  <2>1. pc \in OutsPcs /\ WriteAt[pc][1] = "stdout"
    BY <1>1 DEF OutsPcs, WriteAt
  <2> QED BY <2>1, ReachedIs DEF Ready
<1>2. CASE pc = "end"
  <2>1. WriteAt[pc][1] = "end"
    BY <1>2 DEF WriteAt
  <2>2. Outs(r) /\ r # <<>>
    BY <1>2, ReachedIs
  <2> QED BY <2>1, <2>2 DEF Ready
<1>3. CASE pc = "endreq"
  <2>1. WriteAt[pc][1] = "endreq"
    BY <1>3 DEF WriteAt
  <2>2. EndOf(r) = "end"
    BY <1>3, ReachedIs
  <2> QED BY <2>1, <2>2 DEF Ready
<1> QED BY <1>1, <1>2, <1>3

\* A record that joins an answer that is ready for it keeps the order, and
\* brings the answer where its request goes on.
LEMMA ReadyJoins ==
  ASSUME NEW r \in Seq({"stdout", "end", "endreq"}), NEW type \in {"stdout", "end", "endreq"},
         InOrder(r), Ready(r, type), NEW next, <<type, next>> \in Written
  PROVE  InOrder(Append(r, type)) /\ Reached(Append(r, type), next)
<1> DEFINE s == Append(r, type)
           n == Len(r)
<1>1. n \in Nat /\ DOMAIN r = 1..n /\ (r # <<>> => n > 0)
  <2>1. n \in Nat /\ DOMAIN r = 1..n /\ (r # <<>> => n # 0)
    BY LenProperties, EmptySeq
  <2> QED BY <2>1
<1>2. Len(s) = n + 1 /\ DOMAIN s = 1..(n + 1) /\ s[n + 1] = type /\ \A k \in 1..n : s[k] = r[k]
  OBVIOUS
<1> HIDE DEF s, n
<1>3. s # <<>> /\ EndOf(s) = type
  <2>1. n + 1 \in DOMAIN s
    BY <1>1, <1>2
  <2>2. s # <<>>
    BY <2>1
  <2> QED BY <1>2, <2>2 DEF EndOf
<1>4. /\ type = "stdout" => Outs(r)
      /\ type = "end" => Outs(r) /\ n > 0 /\ r[n] = "stdout"
      /\ type = "endreq" => n > 0 /\ r[n] = "end"
  <2>1. type = "stdout" => Outs(r)
    BY DEF Ready
  <2>2. type = "end" => Outs(r) /\ n > 0 /\ r[n] = "stdout"
    <3> HAVE type = "end"
    <3>1. Outs(r) /\ r # <<>>
      BY DEF Ready
    <3>2. n > 0 /\ n \in DOMAIN r
      BY <1>1, <3>1
    <3> QED BY <3>1, <3>2 DEF Outs
  <2>3. type = "endreq" => n > 0 /\ r[n] = "end"
    <3> HAVE type = "endreq"
    <3>1. EndOf(r) = "end"
      BY DEF Ready
    <3>2. r # <<>>
      BY <3>1 DEF EndOf
    <3> QED BY <1>1, <3>1, <3>2 DEF EndOf, n
  <2> QED BY <2>1, <2>2, <2>3
<1>5. InOrder(s)
  <2> SUFFICES ASSUME NEW k \in DOMAIN s
               PROVE  /\ s[k] = "end" => k > 1 /\ s[k - 1] = "stdout"
                      /\ s[k] = "endreq" => k > 1 /\ s[k - 1] = "end" /\ k = Len(s)
                      /\ s[k] = "stdout" => k = 1 \/ s[k - 1] = "stdout"
    BY DEF InOrder
  <2>1. k \in 1..n \/ k = n + 1
    BY <1>1, <1>2
  <2>2. CASE k \in 1..n
    <3>1. k \in DOMAIN r /\ s[k] = r[k]
      BY <1>1, <1>2, <2>2
    <3>2. k > 1 => s[k - 1] = r[k - 1]
      <4> HAVE k > 1
      <4>1. k - 1 \in 1..n
        BY <1>1, <2>2
      <4> QED BY <1>2, <4>1
    <3>3. /\ r[k] = "end" => k > 1 /\ r[k - 1] = "stdout"
          /\ r[k] = "endreq" => k > 1 /\ r[k - 1] = "end" /\ k = n
          /\ r[k] = "stdout" => k = 1 \/ r[k - 1] = "stdout"
      BY <3>1 DEF InOrder, n
    <3>4. r[k] # "endreq"
      <4> SUFFICES ASSUME r[k] = "endreq" PROVE FALSE
        OBVIOUS
      <4>1. k = n
        BY <3>3
      <4>2. ~Outs(r)
        BY <3>1 DEF Outs
      <4> QED BY <1>4, <4>1, <4>2
    <3>5. k # 1 => k > 1
      BY <1>1, <2>2
    <3> QED BY <3>1, <3>2, <3>3, <3>4, <3>5
  <2>3. CASE k = n + 1
    <3>1. s[k] = type /\ k = Len(s)
      BY <1>2, <2>3
    <3>2. n > 0 => k > 1 /\ s[k - 1] = r[n]
      <4> HAVE n > 0
      <4>1. k > 1 /\ k - 1 = n /\ n \in 1..n
        BY <1>1, <2>3
      <4> QED BY <1>2, <4>1
    <3>3. type = "stdout" => k = 1 \/ s[k - 1] = "stdout"
      <4> HAVE type = "stdout"
      <4>1. CASE n > 0
        <5>1. n \in DOMAIN r
          BY <1>1, <4>1
        <5> QED BY <1>4, <3>2, <4>1, <5>1 DEF Outs
      <4>2. CASE ~(n > 0)
        BY <1>1, <2>3, <4>2
      <4> QED BY <4>1, <4>2
    <3> QED BY <1>4, <3>1, <3>2, <3>3
  <2> QED BY <2>1, <2>2, <2>3
<1>6. type = "stdout" => Outs(s)
  <2> HAVE type = "stdout"
  <2>1. \A k \in DOMAIN s : k \in 1..n \/ k = n + 1
    BY <1>1, <1>2
  <2>2. \A k \in 1..n : s[k] = "stdout"
    BY <1>1, <1>2, <1>4 DEF Outs
  <2> QED BY <1>2, <2>1, <2>2 DEF Outs
<1>7. Reached(s, next)
  <2>1. CASE type = "stdout"
    <3>1. next \in {"end", "subscribe", "await"}
      BY <2>1 DEF Written
    <3>2. next = "end" \/ next \in OutsPcs
      BY <3>1 DEF OutsPcs
    <3> QED BY <1>3, <1>6, <2>1, <3>2, ReachedIs
  <2>2. CASE type = "end"
    <3>1. next = "endreq"
      BY <2>2 DEF Written
    <3> QED BY <1>3, <2>2, <3>1, ReachedIs
  <2>3. CASE type = "endreq"
    <3>1. next = "skip" /\ "skip" \in MeetsPcs
      BY <2>3 DEF Written, MeetsPcs
    <3> QED BY <3>1, ReachedIs
  <2> QED BY <2>1, <2>2, <2>3
<1> QED BY <1>5, <1>7 DEF s

\* Steps that leave the queue and the answers alone.
LEMMA AnsweringStays ==
  ASSUME FcgiInv, UNCHANGED <<m_out_records, writer, m_error, replies>>,
         \A i \in Ids : /\ request[i].pc = "writing" => request'[i] = request[i]
                        /\ request'[i].pc # "writing" /\ Reached(replies[i], request[i].pc) =>
                             Reached(replies[i], request'[i].pc)
                        /\ request'[i].pc # "writing" => request[i].pc # "writing"
  PROVE  Answering'
<1>0. OutOK /\ Queued /\ Answering
  BY FcgiParts
<1>1. \A i \in Ids : request'[i].pc # "writing" => Reached(replies'[i], request'[i].pc)
  BY <1>0, AnsweringIs
<1>2. \A k \in DOMAIN m_out_records' : ReadyAt(k)'
  <2> SUFFICES ASSUME NEW k \in DOMAIN m_out_records PROVE ReadyAt(k)'
    OBVIOUS
  <2>1. ReadyAt(k)
    BY <1>0, AnsweringIs
  <2>2. m_out_records[k].id \in Ids /\ request[m_out_records[k].id].pc = "writing"
    BY <1>0, QueueIs DEF Queued
  <2>3. request'[m_out_records[k].id] = request[m_out_records[k].id]
    BY <2>2
  <2>4. JustSent(m_out_records[k].id)' <=> JustSent(m_out_records[k].id)
    BY DEF JustSent
  <2> QED BY <2>1, <2>3, <2>4 DEF ReadyAt
<1>3. RepliesInOrder'
  BY <1>0, AnsweringIs, InOrderIs, InOrderNext
<1> QED BY <1>1, <1>2, <1>3, AnsweringNext

LEMMA AnsweringMoves ==
  ASSUME FcgiInv, NEW i \in Ids, Moved(i)
  PROVE  Answering'
<1>1. /\ request[i].pc # "writing" /\ request'[i].pc # "writing"
      /\ Reached(replies[i], request[i].pc) => Reached(replies[i], request'[i].pc)
  <2>1. request[i].pc # "writing" /\ request'[i].pc # "writing"
    BY DEF Moved, OutsPcs, OverPcs
  <2>2. CASE request'[i].pc \in OverPcs
    <3>1. request'[i].pc \in MeetsPcs
      BY <2>2 DEF OverPcs, MeetsPcs
    <3> QED BY <2>1, <3>1, ReachedIs
  <2>3. CASE request'[i].pc \notin OverPcs
    <3>1. request'[i].pc \in OutsPcs /\ request[i].pc \in OutsPcs
      BY <2>3 DEF Moved
    <3> QED BY <2>1, <3>1, ReachedIs
  <2> QED BY <2>2, <2>3
<1> QED BY <1>1, AnsweringStays DEF Moved

LEMMA AnsweringBegins ==
  ASSUME FcgiInv
  PROVE  /\ BeginRequest => Answering'
         /\ \A i \in Ids : SendBegin(i) => Answering'
<1>0. ReaderOK /\ RequestOK /\ OutOK /\ StackOK /\ WireOK /\ Nested /\ Queued /\ Fresh /\ Answering
  BY FcgiParts
<1>1. ASSUME BeginRequest PROVE Answering'
  <2> DEFINE n == reader.id
  <2>1. n \in Ids /\ Begun(n) /\ UNCHANGED <<m_out_records, writer, m_error, replies>>
    BY <1>0, <1>1 DEF BeginRequest, ReaderAt, ReaderOK, ReaderTypes, outVars, Begun
  <2>2. request'[n].pc = "params" /\ \A i \in Ids : i # n => request'[i] = request[i]
    BY <1>0, <1>1, <2>1 DEF BeginRequest, RequestOK, NewRequest
  <2> HIDE DEF n
  <2>3. request[n].pc \in MeetsPcs /\ replies[n] = <<>>
    BY <1>0, <2>1, FreshIs DEF FreshOne, Begins
  <2>4. Reached(replies[n], "params")
    <3>1. "params" \in OutsPcs /\ Outs(<<>>)
      BY DEF OutsPcs, Outs
    <3> QED BY <2>3, <3>1, ReachedIs
  <2>5. request[n].pc # "writing"
    BY <2>3 DEF MeetsPcs
  <2> QED BY <2>1, <2>2, <2>4, <2>5, AnsweringStays
<1>2. ASSUME NEW i \in Ids, SendBegin(i) PROVE Answering'
  <2>1. /\ UNCHANGED <<m_out_records, writer, m_error, request>> /\ stack = <<>>
        /\ replies' = [replies EXCEPT ![i] = <<>>]
        /\ phase[i] = "free" \/ Ended(i)
    BY <1>2 DEF SendBegin, Send
  <2>2. request[i].pc \in MeetsPcs
    BY <1>0, <2>1, EndedIsOver, FreshIs DEF FreshOne, MeetsPcs
  <2>3. request[i].pc # "writing"
    BY <2>2 DEF MeetsPcs
  <2>4. replies'[i] = <<>> /\ \A j \in Ids : j # i => replies'[j] = replies[j]
    BY <1>0, <2>1 DEF OutOK
  <2>5. \A j \in Ids : request'[j].pc # "writing" => Reached(replies'[j], request'[j].pc)
    <3> TAKE j \in Ids
    <3> HAVE request'[j].pc # "writing"
    <3>1. CASE j = i
      BY <2>1, <2>2, <3>1, ReachedIs
    <3>2. CASE j # i
      BY <1>0, <2>1, <2>4, <3>2, AnsweringIs
    <3> QED BY <3>1, <3>2
  <2>6. \A k \in DOMAIN m_out_records' : ReadyAt(k)'
    <3> SUFFICES ASSUME NEW k \in DOMAIN m_out_records PROVE ReadyAt(k)'
      BY <2>1
    <3>1. ReadyAt(k)
      BY <1>0, AnsweringIs
    <3>2. m_out_records[k].id \in Ids /\ request[m_out_records[k].id].pc = "writing"
      BY <1>0, QueueIs DEF Queued
    <3>3. replies'[m_out_records[k].id] = replies[m_out_records[k].id]
      BY <2>3, <2>4, <3>2
    <3>4. JustSent(m_out_records[k].id)' <=> JustSent(m_out_records[k].id)
      BY <2>1 DEF JustSent
    <3> QED BY <2>1, <3>1, <3>3, <3>4 DEF ReadyAt
  <2>7. RepliesInOrder'
    <3>1. InOrder(<<>>)
      BY DEF InOrder
    <3>2. \A j \in Ids : InOrder(replies'[j])
      BY <1>0, <2>4, <3>1, AnsweringIs, InOrderIs
    <3> QED BY <3>2, InOrderNext
  <2> QED BY <2>5, <2>6, <2>7, AnsweringNext
<1> QED BY <1>1, <1>2

LEMMA AnsweringWrites ==
  ASSUME FcgiInv, NEW i \in Ids, Write(i)
  PROVE  Answering'
<1>0. RequestOK /\ OutOK /\ Queued /\ Answering
  BY FcgiParts
<1>1. m_error' = m_error /\ UNCHANGED replies
  BY DEF Write
<1>2. PICK at \in Written :
        /\ at[1] \in {"stdout", "end", "endreq"}
        /\ at = WriteAt[request[i].pc]
        /\ request[i].pc \in {"reply", "head", "message", "end", "endreq"}
        /\ \/ Fail(i) /\ UNCHANGED <<m_out_records, writer>>
           \/ /\ m_out_records' = Append(m_out_records, [id |-> i, type |-> at[1]])
              /\ Changed(i, "writing", request[i].want, request[i].io, at[2])
              /\ \/ writer = "idle" /\ writer' = "running"
                 \/ writer # "idle" /\ UNCHANGED writer
  BY <1>0, WriteCases
<1>3. request[i].pc # "writing"
  BY <1>2
<1>4. CASE Fail(i) /\ UNCHANGED <<m_out_records, writer>>
  <2>1. Changed(i, "failed", request[i].want, "none", request[i].next)
    BY <1>0, <1>4, FailIs
  <2>2. Reached(replies[i], "failed")
    BY ReachedIs DEF MeetsPcs
  <2> QED BY <1>1, <1>3, <1>4, <2>1, <2>2, AnsweringStays DEF Changed
<1>5. CASE /\ m_out_records' = Append(m_out_records, [id |-> i, type |-> at[1]])
           /\ Changed(i, "writing", request[i].want, request[i].io, at[2])
           /\ \/ writer = "idle" /\ writer' = "running"
              \/ writer # "idle" /\ UNCHANGED writer
  <2> DEFINE o == [id |-> i, type |-> at[1]]
             n == Len(m_out_records)
  <2>1. /\ n \in Nat /\ DOMAIN m_out_records = 1..n
        /\ \A k \in DOMAIN m_out_records : m_out_records[k].id \in Ids
    BY <1>0, QueueIs
  <2>2. /\ DOMAIN m_out_records' = 1..(n + 1) /\ m_out_records' # <<>>
        /\ m_out_records'[n + 1] = o /\ \A k \in 1..n : m_out_records'[k] = m_out_records[k]
        /\ Head(m_out_records') = m_out_records'[1]
    <3>1. m_out_records \in Seq(OutTypes)
      BY <1>0 DEF OutOK
    <3> HIDE DEF o
    <3>2. m_out_records' = Append(m_out_records, o)
      BY <1>5 DEF o
    <3> QED BY <3>1, <3>2
  <2>3. o.id = i /\ o.type = at[1]
    OBVIOUS
  <2> HIDE DEF o, n
  <2>4. \A k \in 1..n : m_out_records[k].id # i /\ m_out_records[k].id \in Ids
    <3> TAKE k \in 1..n
    <3>1. request[m_out_records[k].id].pc = "writing"
      BY <1>0, <2>1 DEF Queued
    <3> QED BY <1>3, <2>1, <3>1
  <2>5. \A j \in Ids : JustSent(j)' <=> JustSent(j)
    <3>1. CASE writer = "sent"
      <4>1. writer' = "sent" /\ 1 \in DOMAIN m_out_records /\ Head(m_out_records) = m_out_records[1]
        BY <1>0, <1>5, <3>1, QueueIs DEF Queued
      <4>2. Head(m_out_records') = Head(m_out_records)
        BY <2>1, <2>2, <4>1
      <4> QED BY <1>1, <3>1, <4>1, <4>2 DEF JustSent
    <3>2. CASE writer # "sent"
      BY <1>5, <3>2 DEF JustSent
    <3> QED BY <3>1, <3>2
  <2>6. ~JustSent(i)
    <3> SUFFICES ASSUME JustSent(i) PROVE FALSE
      OBVIOUS
    <3>1. 1 \in DOMAIN m_out_records /\ Head(m_out_records) = m_out_records[1]
      BY <1>0, QueueIs DEF Queued, JustSent
    <3> QED BY <2>1, <2>4, <3>1 DEF JustSent
  <2>7. \A j \in Ids : request'[j].pc # "writing" => Reached(replies'[j], request'[j].pc)
    <3> TAKE j \in Ids
    <3> HAVE request'[j].pc # "writing"
    <3>1. j # i /\ request'[j] = request[j]
      BY <1>5 DEF Changed
    <3> QED BY <1>0, <1>1, <3>1, AnsweringIs
  <2>8. \A k \in DOMAIN m_out_records' : ReadyAt(k)'
    <3> SUFFICES ASSUME NEW k \in DOMAIN m_out_records' PROVE ReadyAt(k)'
      OBVIOUS
    <3>1. CASE k \in 1..n
      <4>1. ReadyAt(k)
        BY <1>0, <2>1, <3>1, AnsweringIs
      <4>2. m_out_records'[k] = m_out_records[k]
        BY <2>2, <3>1
      <4>3. request'[m_out_records[k].id] = request[m_out_records[k].id]
        BY <1>5, <2>4, <3>1 DEF Changed
      <4>4. PICK x \in Ids : x = m_out_records[k].id
        BY <2>4, <3>1
      <4>5. JustSent(x)' <=> JustSent(x)
        BY <2>5
      <4>6. /\ JustSent(x) => Reached(replies[x], request[x].next)
            /\ ~JustSent(x) => Ready(replies[x], m_out_records[k].type)
        BY <4>1, <4>4 DEF ReadyAt
      <4>7. /\ JustSent(x)' => Reached(replies'[x], request'[x].next)
            /\ ~JustSent(x)' => Ready(replies'[x], m_out_records'[k].type)
        BY <1>1, <4>2, <4>3, <4>4, <4>5, <4>6
      <4>8. m_out_records'[k].id = x
        BY <4>2, <4>4
      <4> QED BY <4>7, <4>8, ReadyAtNext
    <3>2. CASE k = n + 1
      <4>1. m_out_records'[k].id = i /\ m_out_records'[k].type = at[1]
        BY <2>2, <2>3, <3>2
      <4>2. Reached(replies[i], request[i].pc)
        BY <1>0, <1>3, AnsweringIs
      <4>3. Ready(replies[i], at[1])
        BY <1>2, <4>2, ReadyWrites
      <4>4. ~JustSent(i)'
        BY <2>5, <2>6
      <4> QED BY <1>1, <4>1, <4>3, <4>4 DEF ReadyAt
    <3>3. k \in 1..n \/ k = n + 1
      BY <2>1, <2>2
    <3> QED BY <3>1, <3>2, <3>3
  <2>9. RepliesInOrder'
    BY <1>0, <1>1, AnsweringIs, InOrderIs, InOrderNext
  <2> QED BY <2>7, <2>8, <2>9, AnsweringNext
<1> QED BY <1>2, <1>4, <1>5

LEMMA AnsweringSends ==
  ASSUME FcgiInv, NEW ok \in BOOLEAN, SendDone(ok)
  PROVE  Answering'
<1>0. RequestOK /\ OutOK /\ Queued /\ Answering
  BY FcgiParts
<1> DEFINE o == Head(m_out_records)
           i == o.id
<1>1. /\ writer = "sending" /\ writer' = "sent" /\ m_error' = ~ok /\ UNCHANGED <<m_out_records, request>>
      /\ replies' = IF ok THEN [replies EXCEPT ![i] = Append(replies[i], o.type)] ELSE replies
  BY DEF SendDone
<1>2. /\ m_out_records # <<>> /\ 1 \in DOMAIN m_out_records /\ o = m_out_records[1]
      /\ i \in Ids /\ o.type \in {"stdout", "end", "endreq"}
  BY <1>0, <1>1, QueueIs DEF Queued
<1>3. request[i].pc = "writing" /\ <<o.type, request[i].next>> \in Written
  <2>1. /\ request[m_out_records[1].id].pc = "writing"
        /\ <<m_out_records[1].type, request[m_out_records[1].id].next>> \in Written
    BY <1>0, <1>2 DEF Queued
  <2> QED BY <1>2, <2>1
<1>4. \A j : ~JustSent(j)
  BY <1>1 DEF JustSent
<1>5. \A j : JustSent(j)' <=> ok /\ j = i
  BY <1>1 DEF JustSent
<1>6. \A k \in DOMAIN m_out_records : k # 1 => m_out_records[k].id # i /\ m_out_records[k].id \in Ids
  BY <1>0, <1>2, QueueIs DEF Queued
<1> HIDE DEF o, i
<1>7. replies[i] \in Seq({"stdout", "end", "endreq"}) /\ InOrder(replies[i])
  BY <1>0, <1>2, RepliesAre, AnsweringIs, InOrderIs
<1>8. Ready(replies[i], o.type)
  <2>1. ReadyAt(1)
    BY <1>0, <1>2, AnsweringIs
  <2> QED BY <1>2, <1>4, <2>1 DEF ReadyAt, i
<1>9. /\ \A j \in Ids : j # i => replies'[j] = replies[j]
      /\ ok => replies'[i] = Append(replies[i], o.type)
      /\ ~ok => UNCHANGED replies
  BY <1>0, <1>1, <1>2 DEF OutOK
<1>10. ok => InOrder(replies'[i]) /\ Reached(replies'[i], request[i].next)
  BY <1>2, <1>3, <1>7, <1>8, <1>9, ReadyJoins
<1>11. RepliesInOrder'
  <2>1. \A j \in Ids : InOrder(replies[j])
    BY <1>0, AnsweringIs, InOrderIs
  <2>2. \A j \in Ids : InOrder(replies'[j])
    BY <1>9, <1>10, <2>1
  <2> QED BY <2>2, InOrderNext
<1>12. \A j \in Ids : request'[j].pc # "writing" => Reached(replies'[j], request'[j].pc)
  BY <1>0, <1>1, <1>3, <1>9, AnsweringIs
<1>13. \A k \in DOMAIN m_out_records' : ReadyAt(k)'
  <2> SUFFICES ASSUME NEW k \in DOMAIN m_out_records PROVE ReadyAt(k)'
    BY <1>1
  <2>1. ReadyAt(k)
    BY <1>0, AnsweringIs
  <2>2. CASE k # 1
    <3>1. PICK x \in Ids : x = m_out_records[k].id /\ x # i
      BY <1>6, <2>2
    <3>2. ~JustSent(x)' /\ ~JustSent(x)
      BY <1>4, <1>5, <3>1
    <3>3. Ready(replies[x], m_out_records[k].type)
      BY <2>1, <3>1, <3>2 DEF ReadyAt
    <3>4. replies'[x] = replies[x] /\ m_out_records'[k] = m_out_records[k]
      BY <1>1, <1>9, <3>1
    <3>5. ~JustSent(x)' => Ready(replies'[x], m_out_records'[k].type)
      BY <3>3, <3>4
    <3>6. m_out_records'[k].id = x
      BY <3>1, <3>4
    <3> QED BY <3>2, <3>5, <3>6, ReadyAtNext
  <2>3. CASE k = 1
    <3>1. m_out_records[k] = o /\ o.id = i
      BY <1>2, <2>3 DEF i
    <3>2. CASE ok
      BY <1>1, <1>5, <1>10, <3>1, <3>2 DEF ReadyAt
    <3>3. CASE ~ok
      BY <1>1, <1>5, <1>8, <1>9, <3>1, <3>3 DEF ReadyAt
    <3> QED BY <3>2, <3>3
  <2> QED BY <2>2, <2>3
<1> QED BY <1>11, <1>12, <1>13, AnsweringNext

LEMMA AnsweringResumes ==
  ASSUME FcgiInv, WriterResumes
  PROVE  Answering'
<1>0. RequestOK /\ OutOK /\ Queued /\ Answering
  BY FcgiParts
<1> DEFINE i == Head(m_out_records).id
           n == Len(m_out_records) - 1
<1>1. /\ n \in Nat /\ DOMAIN m_out_records = 1..(n + 1) /\ DOMAIN m_out_records' = 1..n
      /\ \A k \in DOMAIN m_out_records : m_out_records[k].id \in Ids
      /\ i = m_out_records[1].id /\ i \in Ids /\ 1 \in DOMAIN m_out_records
      /\ \A k \in 1..n : m_out_records'[k] = m_out_records[k + 1]
  <2>1. /\ Len(m_out_records) \in Nat /\ Len(m_out_records) > 0
        /\ DOMAIN m_out_records = 1..Len(m_out_records) /\ 1 \in DOMAIN m_out_records
        /\ \A k \in DOMAIN m_out_records : m_out_records[k].id \in Ids
        /\ Head(m_out_records) = m_out_records[1]
        /\ m_out_records' \in Seq(OutTypes) /\ Len(m_out_records') = Len(m_out_records) - 1
        /\ \A k \in 1..(Len(m_out_records) - 1) : m_out_records'[k] = m_out_records[k + 1]
    BY <1>0, QueueIs DEF WriterResumes
  <2>2. DOMAIN m_out_records' = 1..Len(m_out_records')
    BY <2>1, LenProperties
  <2> QED BY <2>1, <2>2
<1>2. /\ writer' = "running" /\ UNCHANGED <<m_error, replies>>
      /\ writer = "sent" \/ m_error
  BY DEF WriterResumes
<1>3. PICK pc, m : /\ Changed(i, pc, m, request[i].io, request[i].next)
                   /\ \/ m_error /\ pc = "failed"
                      \/ ~m_error /\ pc = request[i].next
  BY <1>0, ResumesCases
<1>4. Reached(replies[i], pc)
  <2>1. CASE m_error /\ pc = "failed"
    <3>1. "failed" \in MeetsPcs
      BY DEF MeetsPcs
    <3> QED BY <2>1, <3>1, ReachedIs
  <2>2. CASE ~m_error /\ pc = request[i].next
    <3>1. JustSent(i)
      BY <1>2, <2>2 DEF JustSent
    <3>2. ReadyAt(1)
      BY <1>0, <1>1, AnsweringIs
    <3>3. Reached(replies[m_out_records[1].id], request[m_out_records[1].id].next)
      BY <1>1, <3>1, <3>2 DEF ReadyAt
    <3> QED BY <1>1, <2>2, <3>3
  <2> QED BY <1>3, <2>1, <2>2
<1>5. \A j : JustSent(j) => j = i
  BY DEF JustSent
<1>6. \A j : ~JustSent(j)'
  BY <1>2 DEF JustSent
<1> HIDE DEF i, n
<1>7. \A j \in Ids : request'[j].pc # "writing" => Reached(replies'[j], request'[j].pc)
  <2> TAKE j \in Ids
  <2> HAVE request'[j].pc # "writing"
  <2>1. CASE j = i
    BY <1>2, <1>3, <1>4, <2>1 DEF Changed
  <2>2. CASE j # i
    BY <1>0, <1>2, <1>3, <2>2, AnsweringIs DEF Changed
  <2> QED BY <2>1, <2>2
<1>8. \A k \in DOMAIN m_out_records' : ReadyAt(k)'
  <2> SUFFICES ASSUME NEW k \in DOMAIN m_out_records' PROVE ReadyAt(k)'
    OBVIOUS
  <2>1. k + 1 \in DOMAIN m_out_records /\ m_out_records'[k] = m_out_records[k + 1] /\ k + 1 # 1
    BY <1>1
  <2>2. m_out_records[k + 1].id # i /\ m_out_records[k + 1].id \in Ids
    BY <1>0, <1>1, <2>1 DEF Queued
  <2>3. ReadyAt(k + 1)
    BY <1>0, <2>1, AnsweringIs
  <2>4. ~JustSent(m_out_records[k + 1].id) /\ ~JustSent(m_out_records[k + 1].id)'
    BY <1>5, <1>6, <2>2
  <2>5. PICK x \in Ids : x = m_out_records[k + 1].id
    BY <2>2
  <2>6. Ready(replies[x], m_out_records[k + 1].type)
    BY <2>3, <2>4, <2>5 DEF ReadyAt
  <2>7. ~JustSent(x)'
    BY <1>6
  <2>8. m_out_records'[k].id = x /\ Ready(replies'[x], m_out_records'[k].type)
    BY <1>2, <2>1, <2>5, <2>6
  <2> QED BY <2>7, <2>8, ReadyAtNext
<1>9. RepliesInOrder'
  BY <1>0, <1>2, AnsweringIs, InOrderIs, InOrderNext
<1> QED BY <1>7, <1>8, <1>9, AnsweringNext

LEMMA AnsweringStep == FcgiInv /\ Next => Answering'
<1> SUFFICES ASSUME FcgiInv, Next PROVE Answering'
  OBVIOUS
<1>0. OutOK /\ Queued /\ Answering
  BY FcgiParts
<1>1. CASE UNCHANGED <<m_out_records, writer, m_error, replies, request>>
  BY <1>1, AnsweringStays
<1>2. ASSUME SendOther \/ Close \/ Rest
             \/ \E i \in Ids, type \in Types, len \in 0..MaxContent : SendContent(i, type, len)
      PROVE  Answering'
  BY <1>1, <1>2 DEF SendOther, Close, Rest, SendContent, Send, vars, outVars
<1>3. CASE ReaderSuspend \/ ReaderRecv \/ ReaderCut \/ ReadBegin \/ ReadUnknown \/ Update \/ Updated
           \/ ReadPadding
  BY <1>1, <1>3 DEF ReaderSuspend, ReaderRecv, ReaderCut, ReadBegin, ReadUnknown, Update, Updated,
                    ReadPadding, EndReading, outVars
<1>4. CASE WriterNext
  <2>1. /\ UNCHANGED <<m_out_records, m_error, replies, request>>
        /\ writer = "running" /\ writer' \in {"idle", "sending"}
    BY <1>4 DEF WriterNext
  <2>2. \A j : ~JustSent(j) /\ ~JustSent(j)'
    BY <2>1 DEF JustSent
  <2>3. \A k \in DOMAIN m_out_records' : ReadyAt(k)'
    <3> SUFFICES ASSUME NEW k \in DOMAIN m_out_records PROVE ReadyAt(k)'
      BY <2>1
    <3>1. ReadyAt(k)
      BY <1>0, AnsweringIs
    <3>2. ~JustSent(m_out_records[k].id) /\ ~JustSent(m_out_records[k].id)'
      BY <2>2
    <3> QED BY <2>1, <3>1, <3>2 DEF ReadyAt
  <2>4. RepliesInOrder'
    BY <1>0, <2>1, AnsweringIs, InOrderIs, InOrderNext
  <2> QED BY <1>0, <2>1, <2>3, <2>4, AnsweringIs, AnsweringNext
<1>5. CASE Teardown
  <2>1. DOMAIN m_out_records' = {} /\ UNCHANGED replies
    BY <1>5, TeardownIs
  <2>2. \A i \in Ids : request'[i].pc = "none"
    BY <1>5, TeardownIs DEF NewRequest
  <2>3. \A i \in Ids : Reached(replies'[i], request'[i].pc)
    <3>1. "none" \in MeetsPcs
      BY DEF MeetsPcs
    <3> QED BY <2>2, <3>1, ReachedIs
  <2>4. RepliesInOrder'
    BY <1>0, <2>1, AnsweringIs, InOrderIs, InOrderNext
  <2> QED BY <2>1, <2>3, <2>4, AnsweringNext
<1> QED BY <1>2, <1>3, <1>4, <1>5, AnsweringBegins, AnsweringWrites, AnsweringSends, AnsweringResumes,
           Moves, AnsweringMoves DEF Next, Run, RunRequest, WebServer, Sent

-----------------------------------------------------------------------------
(* The invariant, and what it gives. *)

LEMMA FcgiInit == Init => FcgiInv
<1> SUFFICES ASSUME Init PROVE FcgiInv
  OBVIOUS
<1>1. TypeOK
  BY TypeInit
<1>2. DOMAIN stack = {} /\ DOMAIN wire = {} /\ DOMAIN m_out_records = {}
      /\ stack = <<>> /\ wire = <<>> /\ m_out_records = <<>> /\ writer = "idle" /\ ~m_error
  BY DEF Init
<1>3. reader = [pc |-> "header", id |-> SomeId, type |-> "begin", len |-> 0, io |-> "recv"]
  BY DEF Init, NewReader, SomeId
<1>4. \A i \in Ids : request[i].pc = "none" /\ request[i].io = "none" /\ replies[i] = <<>>
  BY DEF Init, NewRequest
<1>5. \A i \in Ids, t \in Types :
        stream[i][t].m_remaining = 0 /\ ~stream[i][t].m_producer /\ ~stream[i][t].m_consumer
  BY DEF Init, NewStream
<1>6. Nested
  BY <1>2, <1>3 DEF Nested, ReaderAwake, WriterAwake
<1>7. Shared
  <2>1. ~(0 > 0)
    OBVIOUS
  <2> QED BY <1>3, <1>4, <1>5, <2>1 DEF Shared
<1>8. Parsed
  <2>1. DueContent = 0 /\ DuePadding = 0
    BY <1>3 DEF DueContent, DuePadding
  <2>2. Len(wire) = 0 /\ 0 + 0 + 0 <= 0
    BY <1>2
  <2>3. Records(wire, closed)
    BY <1>2 DEF Records
  <2>4. Continues(wire, 0, 0, 0, reader.type, reader.id, closed)
    BY <1>2, <2>2 DEF Continues
  <2> QED BY <1>3, <2>1, <2>3, <2>4 DEF Parsed
<1>9. Queued
  BY <1>2, <1>4 DEF Queued
<1>10. Fresh
  <2>1. \A i \in Ids : ~Begun(i) /\ ~Begins(i)
    BY <1>2, <1>3 DEF Begun, Begins
  <2> QED BY <1>2, <1>4, <2>1 DEF Fresh
<1>11. Answering
  <2>1. \A i \in Ids : Reached(replies[i], request[i].pc)
    <3>1. "none" \in MeetsPcs
      BY DEF MeetsPcs
    <3> QED BY <1>4, <3>1, ReachedIs
  <2>2. \A i \in Ids : InOrder(replies[i])
    <3>1. InOrder(<<>>)
      BY DEF InOrder
    <3> QED BY <1>4, <3>1
  <2> QED BY <1>2, <2>1, <2>2, AnsweringIs, InOrderIs
<1> QED BY <1>1, <1>6, <1>7, <1>8, <1>9, <1>10, <1>11 DEF FcgiInv

LEMMA FcgiStep == FcgiInv /\ [Next]_vars => FcgiInv'
<1> SUFFICES ASSUME FcgiInv, [Next]_vars PROVE FcgiInv'
  OBVIOUS
<1>1. CASE Next
  <2>1. TypeOK'
    <3>1. TypeOK /\ Queued /\ Parsed
      BY DEF FcgiInv
    <3>2. writer \in {"sending", "sent"} => m_out_records # <<>>
      BY <3>1 DEF Queued
    <3>3. reader.pc \in {"updating", "blocked"} => reader.type \in Types
      BY <3>1 DEF Parsed
    <3> QED BY <1>1, <3>1, <3>2, <3>3, TypeStep
  <2>2. Nested' /\ Shared' /\ Parsed' /\ Queued' /\ Fresh' /\ Answering'
    BY <1>1, NestedStep, SharedStep, ParsedStep, QueuedStep, FreshStep, AnsweringStep
  <2> QED BY <2>1, <2>2 DEF FcgiInv
<1>2. CASE UNCHANGED vars
  <2>0. /\ TypeOK /\ WireOK /\ StackOK /\ OutOK
        /\ Nested /\ Shared /\ Queued
    BY FcgiParts DEF FcgiInv
  <2>1. /\ UNCHANGED <<wire, closed, phase, stack, reader, request, stream>>
        /\ UNCHANGED <<m_out_records, writer, m_error, replies>>
    BY <1>2 DEF vars, connVars, outVars
  <2>2. TypeOK'
    BY <1>2, <2>0, SameTypes
  <2>3. Nested'
    BY <2>0, <2>1, NestStays DEF ReaderAwake, WriterAwake
  <2>4. Shared'
    BY <2>0, <2>1, SameRuns, SharedStays
  <2>5. Parsed'
    BY <2>1, ParsedOther
  <2>6. Queued'
    BY <2>0, <2>1, QueuedStays
  <2>7. Fresh'
    <3>1. \A j \in Ids : Stems(j, 0)
      BY <2>0, <2>1, StemsSame
    <3>2. \A j \in Ids : Begun(j)' => Begun(j)
      BY <2>1 DEF Begun
    <3> QED BY <2>1, <3>1, <3>2, FreshSame
  <2>8. Answering'
    BY <2>1, AnsweringStays
  <2> QED BY <2>2, <2>3, <2>4, <2>5, <2>6, <2>7, <2>8 DEF FcgiInv
<1> QED BY <1>1, <1>2

LEMMA FcgiAlways == Spec => []FcgiInv
<1> QED BY FcgiInit, FcgiStep, PTL DEF Spec
-----------------------------------------------------------------------------
(* What the invariant gives. *)

LEMMA OneReaderHolds == FcgiInv => OneReader
<1> SUFFICES ASSUME FcgiInv PROVE OneReader
  OBVIOUS
<1>0. ReaderOK /\ RequestOK /\ StreamOK /\ Shared
  BY FcgiParts
<1>1. \A i \in Ids : request[i].io # "none" => i = reader.id /\ reader.io = "none"
  <2> TAKE i \in Ids
  <2> HAVE request[i].io # "none"
  <2>1. Source(i).m_remaining > 0
    BY <1>0 DEF Shared, InLoop
  <2>2. PICK t \in Types : stream[i][t].m_remaining > 0
    BY <2>1 DEF Source, StreamOf, Types
  <2> QED BY <1>0, <2>2 DEF Shared
<1>2. PICK c : Receivers \subseteq {c}
  <2>1. CASE reader.io # "none"
    <3>1. Receivers \subseteq {"reader"}
      BY <1>1, <2>1 DEF Receivers
    <3> QED BY <3>1
  <2>2. CASE reader.io = "none"
    <3>1. Receivers \subseteq {reader.id}
      BY <1>1, <2>2 DEF Receivers
    <3> QED BY <3>1
  <2> QED BY <2>1, <2>2
<1>3. Cardinality(Receivers) <= 1
  <2>1. IsFiniteSet({c}) /\ Cardinality({c}) = 1
    BY FS_Singleton
  <2>2. IsFiniteSet(Receivers) /\ Cardinality(Receivers) <= Cardinality({c})
    BY <1>2, <2>1, FS_Subset
  <2> QED BY <2>1, <2>2
<1>4. \A i \in Ids, t \in Types :
        stream[i][t].m_remaining > 0 =>
          /\ reader.pc \in {"updating", "blocked"} /\ reader.io = "none"
          /\ reader.id = i /\ reader.type = t
  BY <1>0 DEF Shared
<1> QED BY <1>3, <1>4 DEF OneReader

LEMMA AlignedHolds == FcgiInv => Aligned
<1> SUFFICES ASSUME FcgiInv PROVE Aligned
  OBVIOUS
<1>0. WireOK /\ ReaderOK /\ StreamOK /\ Shared
  BY FcgiParts
<1>1. reader.pc = "header" /\ wire # <<>> => wire[1].kind = "header"
  <2> HAVE reader.pc = "header" /\ wire # <<>>
  <2>1. 1 \in DOMAIN wire
    <3>1. wire \in Seq(UnitTypes)
      BY <1>0 DEF WireOK
    <3> QED BY <3>1, EmptySeq, LenProperties
  <2>2. DueContent = 0 /\ DuePadding = 0
    BY DEF DueContent, DuePadding
  <2>3. Continues(wire, 0, 0, 0, reader.type, reader.id, closed)
    BY <2>2, DueIs
  <2>4. 1 = 0 + 0 + 0 + 1
    OBVIOUS
  <2> QED BY <2>1, <2>3, <2>4 DEF Continues
<1>2. reader.pc = "padding" =>
        \A k \in 1..ReaderNeeds : k \in DOMAIN wire => wire[k].kind = "padding"
  <2> SUFFICES ASSUME reader.pc = "padding", NEW k \in 1..ReaderNeeds, k \in DOMAIN wire
               PROVE  wire[k].kind = "padding"
    OBVIOUS
  <2>1. DueContent = 0 /\ DuePadding = ReaderNeeds /\ DuePadding \in Nat
    BY DueIs DEF DueContent, DuePadding, ReaderNeeds
  <2>2. Continues(wire, 0, 0, ReaderNeeds, reader.type, reader.id, closed)
    BY <2>1, DueIs
  <2>3. k > 0 + 0 /\ k <= 0 + 0 + ReaderNeeds
    BY <2>1
  <2> QED BY <2>2, <2>3 DEF Continues
<1>3. ASSUME NEW i \in Ids, NEW t \in Types, NEW k \in 1..stream[i][t].m_remaining, k \in DOMAIN wire
      PROVE  wire[k] = Unit("content", t, i, 0)
  <2>0. stream[i][t].m_remaining \in Nat
    BY <1>0, FcgiAssumption DEF StreamOK, StreamTypes
  <2>1. /\ reader.pc \in {"updating", "blocked"}
        /\ reader.id = i /\ reader.type = t
    BY <1>0, <1>3, <2>0 DEF Shared
  <2>2. DueContent = stream[i][t].m_remaining
    BY <2>1 DEF DueContent
  <2>3. Continues(wire, 0, stream[i][t].m_remaining, DuePadding, t, i, closed)
    BY <2>1, <2>2, DueIs
  <2>4. k > 0 /\ k <= 0 + stream[i][t].m_remaining
    BY <1>3, <2>0
  <2> QED BY <1>3, <2>3, <2>4 DEF Continues
<1> QED BY <1>1, <1>2, <1>3 DEF Aligned

LEMMA HandlesHold == FcgiInv => HandlesLive
<1> SUFFICES ASSUME FcgiInv PROVE HandlesLive
  OBVIOUS
<1>0. Shared /\ Queued
  BY FcgiParts
<1>1. IsInjective([k \in DOMAIN m_out_records |-> m_out_records[k].id])
  BY <1>0 DEF Queued, IsInjective
<1> QED BY <1>0, <1>1 DEF HandlesLive, Shared, Queued

\* Type correctness of a connection: what read_req, the requests and the
\* writer leave in each other's state stays what the others expect, however
\* many ids, records and market messages there are.
THEOREM TypeCorrect == Spec => []TypeOK
<1>1. FcgiInv => TypeOK
  BY DEF FcgiInv
<1> QED BY <1>1, FcgiAlways, PTL

\* At most one coroutine of a connection waits in socket::read, so that its
\* one read listener never throws "handle already set": read_req reads the
\* socket only while no stream of any request has content left.
THEOREM OneReads == Spec => []OneReader
BY OneReaderHolds, FcgiAlways, PTL

\* The requests and read_req keep the socket in step: read_req parses a
\* header only where the web server put one, and stream::read hands a request
\* only content of its own stream, also when the request takes it in parts,
\* or its id begins anew.
THEOREM ReadsAligned == Spec => []Aligned
BY AlignedHolds, FcgiAlways, PTL

\* Handles that streams and the output queue hold are of coroutines that wait
\* for them: nobody resumes a request that was destroyed, or resumes it twice.
THEOREM HandlesAlwaysLive == Spec => []HandlesLive
BY HandlesHold, FcgiAlways, PTL

\* output_control sends each request's output, then the end of its output,
\* then the end of the request, each once, however the writes of the requests
\* of a connection come in between.
THEOREM AnswersInOrder == Spec => []RepliesInOrder
<1>1. FcgiInv => RepliesInOrder
  BY DEF FcgiInv, Answering
<1> QED BY <1>1, FcgiAlways, PTL

-----------------------------------------------------------------------------
(* The route tree.  A map is a function on some of a set. *)

Maps(D, S) == UNION {[E -> S] : E \in SUBSET D}

Names == STRING \union {"", "nowhere"}
Edges == [var : BOOLEAN, name : Names]
Nodes == Seq(Edges)
RouteSet == [method : Methods, endpoint : STRING, pattern : Nodes]

Trees == [nodes : SUBSET Nodes, variable : Maps(Nodes, Names),
          endpoints : Maps(Nodes \X Methods, STRING)]

LEMMA MapIs ==
  ASSUME NEW D, NEW S, NEW f
  PROVE  f \in Maps(D, S) <=> DOMAIN f \subseteq D /\ f \in [DOMAIN f -> S]
BY DEF Maps

LEMMA MapIn ==
  ASSUME NEW D, NEW S, NEW E \in SUBSET D, NEW f \in [E -> S]
  PROVE  f \in Maps(D, S)
BY DEF Maps

LEMMA NoMap ==
  ASSUME NEW D, NEW S
  PROVE  <<>> \in Maps(D, S) /\ DOMAIN <<>> = {}
<1>1. <<>> \in Seq(S) /\ Len(<<>>) = 0
  OBVIOUS
<1>2. <<>> \in [1..0 -> S]
  BY <1>1
<1>3. <<>> \in [{} -> S]
  BY <1>2
<1> QED BY <1>3, MapIn

LEMMA MapPut ==
  ASSUME NEW D, NEW S, NEW f \in Maps(D, S), NEW x \in D, NEW v \in S
  PROVE  /\ Put(f, x, v) \in Maps(D, S) /\ DOMAIN Put(f, x, v) = DOMAIN f \union {x}
         /\ Put(f, x, v)[x] = v
         /\ \A y \in DOMAIN f : y # x => Put(f, x, v)[y] = f[y]
<1>1. DOMAIN f \subseteq D /\ f \in [DOMAIN f -> S]
  BY MapIs
<1>2. PICK E : E = DOMAIN f \union {x}
  OBVIOUS
<1>3. Put(f, x, v) = [y \in E |-> IF y = x THEN v ELSE f[y]]
  BY <1>2 DEF Put
<1>4. Put(f, x, v) \in [E -> S]
  BY <1>1, <1>2, <1>3
<1>5. E \in SUBSET D
  BY <1>1, <1>2
<1> QED BY <1>2, <1>3, <1>4, <1>5, MapIn

-----------------------------------------------------------------------------
(* Nodes *)

LEMMA SegmentIn ==
  ASSUME NEW s \in Names
  PROVE  Variable(s) \in Edges /\ Literal(s) \in Edges
<1>1. PICK b : b = TRUE
  OBVIOUS
<1>2. PICK c : c = FALSE
  OBVIOUS
<1>3. b \in BOOLEAN /\ c \in BOOLEAN
  BY <1>1, <1>2
<1>4. [var |-> b, name |-> s] \in Edges /\ [var |-> c, name |-> s] \in Edges
  BY <1>3 DEF Edges
<1> QED BY <1>1, <1>2, <1>4, Zenon DEF Variable, Literal

LEMMA EdgeIs ==
  ASSUME NEW x \in Edges
  PROVE  /\ Edge(x) \in Edges
         /\ x.var => Edge(x) = Variable("")
         /\ ~x.var => Edge(x) = x /\ x = Literal(x.name) /\ Edge(x) # Variable("")
         /\ Edge(x) # Variable("nowhere")
<1>1. x = [var |-> x.var, name |-> x.name] /\ x.var \in BOOLEAN /\ x.name \in Names
  BY DEF Edges
<1>2. Variable("") \in Edges /\ Variable("").var /\ Variable("").name = ""
  <2>1. "" \in Names
    BY DEF Names
  <2> QED BY <2>1, SegmentIn DEF Variable
<1>3. Variable("nowhere").var /\ Variable("nowhere").name = "nowhere"
  BY DEF Variable
<1>4. CASE x.var
  <2>1. Edge(x) = Variable("")
    BY <1>4 DEF Edge
  <2> QED BY <1>2, <1>3, <1>4, <2>1
<1>5. CASE ~x.var
  <2>1. Edge(x) = x
    BY <1>5 DEF Edge
  <2>2. x = Literal(x.name)
    BY <1>1, <1>5 DEF Literal
  <2> QED BY <1>2, <1>3, <1>5, <2>1, <2>2
<1> QED BY <1>1, <1>4, <1>5

LEMMA NodeIs ==
  ASSUME NEW p \in Nodes, NEW n \in 0..Len(p)
  PROVE  /\ NodeOf(p, n) \in Nodes /\ Len(NodeOf(p, n)) = n
         /\ DOMAIN NodeOf(p, n) = 1..n /\ \A k \in 1..n : NodeOf(p, n)[k] = Edge(p[k])
<1>1. \A k \in 1..n : p[k] \in Edges
  BY DEF Nodes
<1>2. \A k \in 1..n : Edge(p[k]) \in Edges
  BY <1>1, EdgeIs
<1>3. n \in Nat /\ NodeOf(p, n) = [k \in 1..n |-> Edge(p[k])]
  BY DEF NodeOf, Nodes
<1>4. NodeOf(p, n) \in [1..n -> Edges]
  BY <1>2, <1>3
<1> QED BY <1>3, <1>4 DEF Nodes

\* A node is a node of its parent.
LEMMA NodeAppend ==
  ASSUME NEW p \in Nodes, NEW m \in Nat, m + 1 <= Len(p), NEW x \in Nodes, NEW e \in Edges
  PROVE  Append(x, e) = NodeOf(p, m + 1) <=> x = NodeOf(p, m) /\ e = Edge(p[m + 1])
<1>1. Len(p) \in Nat /\ m \in 0..Len(p) /\ m + 1 \in 0..Len(p)
  BY DEF Nodes
<1>2. PICK a : a = NodeOf(p, m)
  OBVIOUS
<1>3. PICK b : b = NodeOf(p, m + 1)
  OBVIOUS
<1>4. a \in Nodes /\ Len(a) = m /\ \A k \in 1..m : a[k] = Edge(p[k])
  BY <1>1, <1>2, NodeIs
<1>5. b \in Nodes /\ Len(b) = m + 1 /\ \A k \in 1..(m + 1) : b[k] = Edge(p[k])
  BY <1>1, <1>3, NodeIs
<1>6. PICK y : y = Append(x, e)
  OBVIOUS
<1>7. y \in Nodes /\ Len(y) = Len(x) + 1 /\ Len(x) \in Nat /\ y[Len(x) + 1] = e
      /\ \A k \in 1..Len(x) : y[k] = x[k]
  BY <1>6 DEF Nodes
<1>8. ASSUME y = b PROVE x = a /\ e = Edge(p[m + 1])
  <2>1. Len(x) = m
    BY <1>5, <1>7, <1>8
  <2>2. \A k \in 1..m : x[k] = a[k]
    BY <1>4, <1>5, <1>7, <1>8, <2>1
  <2>3. x = a
    BY <1>4, <2>1, <2>2, SeqEqual DEF Nodes
  <2> QED BY <1>1, <1>5, <1>7, <1>8, <2>1, <2>3
<1>9. ASSUME x = a, e = Edge(p[m + 1]) PROVE y = b
  <2>1. \A k \in 1..(m + 1) : y[k] = b[k]
    BY <1>4, <1>5, <1>7, <1>9
  <2> QED BY <1>4, <1>5, <1>7, <1>9, <2>1, SeqEqual DEF Nodes
<1> QED BY <1>2, <1>3, <1>6, <1>8, <1>9

LEMMA NowhereIs ==
  ASSUME NEW p \in Nodes, NEW n \in 0..Len(p)
  PROVE  /\ Nowhere \in Nodes /\ NodeOf(p, n) # Nowhere
         /\ \A e : NodeOf(p, n) # Append(Nowhere, e)
<1>1. Nowhere \in Nodes /\ Len(Nowhere) = 1 /\ Nowhere[1] = Variable("nowhere")
  <2>1. Variable("nowhere") \in Edges
    <3>1. "nowhere" \in Names
      BY DEF Names
    <3> QED BY <3>1, SegmentIn
  <2> QED BY <2>1 DEF Nowhere, Nodes
<1>2. \A e : Append(Nowhere, e)[1] = Variable("nowhere") /\ Len(Append(Nowhere, e)) = 2
  BY DEF Nowhere
<1>3. ASSUME n >= 1 PROVE NodeOf(p, n)[1] # Variable("nowhere")
  <2>1. p[1] \in Edges /\ NodeOf(p, n)[1] = Edge(p[1])
    BY <1>3, NodeIs DEF Nodes
  <2> QED BY <2>1, EdgeIs
<1>4. Len(NodeOf(p, n)) = n /\ n \in Nat
  BY NodeIs DEF Nodes
<1> QED BY <1>1, <1>2, <1>3, <1>4

-----------------------------------------------------------------------------
(* The tree of the routes. *)

Parents(p) == {k \in DOMAIN p : p[k].var}
Named(p)   == {NodeOf(p, k - 1) : k \in Parents(p)}
Leaf(r)    == NodeOf(r.pattern, Len(r.pattern))

LEMMA NamedIs ==
  ASSUME NEW p \in Nodes, NEW x \in Named(p)
  PROVE  /\ x \in Nodes /\ Len(x) + 1 \in 1..Len(p) /\ p[Len(x) + 1].var
         /\ x = NodeOf(p, Len(x)) /\ p[Len(x) + 1].name \in Names
<1>1. PICK k \in DOMAIN p : p[k].var /\ x = NodeOf(p, k - 1)
  BY DEF Named, Parents
<1>2. k \in 1..Len(p) /\ k - 1 \in 0..Len(p) /\ p[k] \in Edges
  BY DEF Nodes
<1>3. x \in Nodes /\ Len(x) = k - 1
  BY <1>1, <1>2, NodeIs
<1> QED BY <1>1, <1>2, <1>3 DEF Edges

\* The map of variables with those of a pattern
Naming(t, p) ==
  [n \in Named(p) \union DOMAIN t.variable |->
     IF n \in Named(p) THEN p[Len(n) + 1].name ELSE t.variable[n]]

LEMMA NamingTyped ==
  ASSUME NEW t \in Trees, NEW p \in Nodes
  PROVE  Naming(t, p) \in Maps(Nodes, Names)
<1>1. t.variable \in Maps(Nodes, Names)
  BY DEF Trees
<1>2. DOMAIN t.variable \subseteq Nodes /\ t.variable \in [DOMAIN t.variable -> Names]
  BY <1>1, MapIs
<1>3. \A n \in Named(p) : n \in Nodes /\ p[Len(n) + 1].name \in Names
  BY NamedIs
<1>4. PICK E : E = Named(p) \union DOMAIN t.variable
  OBVIOUS
<1>5. E \in SUBSET Nodes
  BY <1>2, <1>3, <1>4
<1>6. Naming(t, p) \in [E -> Names]
  BY <1>2, <1>3, <1>4 DEF Naming
<1> QED BY <1>5, <1>6, MapIn

LEMMA InsertIs ==
  ASSUME NEW t \in Trees, NEW r \in RouteSet
  PROVE  /\ Insert(t, r) \in Trees
         /\ Insert(t, r).nodes = t.nodes \union {NodeOf(r.pattern, n) : n \in 0..Len(r.pattern)}
         /\ Insert(t, r).variable = Naming(t, r.pattern)
         /\ Insert(t, r).endpoints = Put(t.endpoints, <<Leaf(r), r.method>>, r.endpoint)
<1>0. PICK p : p = r.pattern
  OBVIOUS
<1>1. p \in Nodes /\ r.method \in Methods /\ r.endpoint \in STRING /\ Len(p) \in 0..Len(p)
  BY <1>0 DEF RouteSet, Nodes
<1>2. Insert(t, r) = [nodes     |-> t.nodes \union {NodeOf(p, n) : n \in 0..Len(p)},
                      variable  |-> Naming(t, p),
                      endpoints |-> Put(t.endpoints, <<Leaf(r), r.method>>, r.endpoint)]
  BY <1>0 DEF Insert, Naming, Named, Parents, Leaf
<1>3. t.nodes \union {NodeOf(p, n) : n \in 0..Len(p)} \in SUBSET Nodes
  <2>1. t.nodes \in SUBSET Nodes
    BY DEF Trees
  <2>2. \A n \in 0..Len(p) : NodeOf(p, n) \in Nodes
    BY <1>1, NodeIs
  <2> QED BY <2>1, <2>2
<1>4. Naming(t, p) \in Maps(Nodes, Names)
  BY <1>1, NamingTyped
<1>5. Put(t.endpoints, <<Leaf(r), r.method>>, r.endpoint) \in Maps(Nodes \X Methods, STRING)
  <2>1. t.endpoints \in Maps(Nodes \X Methods, STRING)
    BY DEF Trees
  <2>2. Leaf(r) \in Nodes
    BY <1>0, <1>1, NodeIs DEF Leaf
  <2>3. <<Leaf(r), r.method>> \in Nodes \X Methods
    BY <1>1, <2>2
  <2> QED BY <1>1, <2>1, <2>3, MapPut
<1> HIDE DEF Leaf
<1>6. Insert(t, r) \in Trees
  BY <1>2, <1>3, <1>4, <1>5 DEF Trees
<1> QED BY <1>0, <1>2, <1>6

LEMMA EmptyTreeIs ==
  /\ EmptyTree \in Trees /\ EmptyTree.nodes = {<<>>}
  /\ DOMAIN EmptyTree.variable = {} /\ DOMAIN EmptyTree.endpoints = {}
<1>1. <<>> \in Nodes
  BY EmptySeq DEF Nodes
<1>2. <<>> \in Maps(Nodes, Names) /\ <<>> \in Maps(Nodes \X Methods, STRING) /\ DOMAIN <<>> = {}
  BY NoMap
<1> QED BY <1>1, <1>2 DEF EmptyTree, Trees

\* What the tree knows of the first n routes: its nodes are theirs, the
\* variables have the names that they give, and an endpoint is at a leaf of one
\* that is registered with it, whichever came last.
Grown(t, routes, n) ==
  /\ \A x : x \in t.nodes =>
       x = <<>> \/ \E k \in 1..n : \E m \in 0..Len(routes[k].pattern) : x = NodeOf(routes[k].pattern, m)
  /\ \A k \in 1..n : \A m \in 0..Len(routes[k].pattern) : NodeOf(routes[k].pattern, m) \in t.nodes
  /\ \A k \in 1..n : \A x \in Named(routes[k].pattern) :
       x \in DOMAIN t.variable /\ t.variable[x] = routes[k].pattern[Len(x) + 1].name
  /\ \A x \in DOMAIN t.endpoints : \E k \in 1..n :
       x = <<Leaf(routes[k]), routes[k].method>> /\ t.endpoints[x] = routes[k].endpoint
  /\ \A k \in 1..n : <<Leaf(routes[k]), routes[k].method>> \in DOMAIN t.endpoints

LEMMA GrownNone ==
  ASSUME NEW routes
  PROVE  Grown(EmptyTree, routes, 0)
BY EmptyTreeIs DEF Grown

LEMMA GrownMore ==
  ASSUME NEW routes \in Seq(RouteSet), NEW n \in 0..(Len(routes) - 1), NEW t \in Trees,
         Grown(t, routes, n), Insertable(t, routes[n + 1].pattern)
  PROVE  Grown(Insert(t, routes[n + 1]), routes, n + 1)
<1>0. PICK r : r = routes[n + 1]
  OBVIOUS
<1>1. PICK p : p = r.pattern
  OBVIOUS
<1>2. /\ n \in Nat /\ n + 1 \in 1..Len(routes) /\ r \in RouteSet /\ p \in Nodes
      /\ r.method \in Methods /\ \A k \in 1..n : routes[k] \in RouteSet
  <2>1. Len(routes) \in Nat /\ \A k \in 1..Len(routes) : routes[k] \in RouteSet
    OBVIOUS
  <2>2. n \in Nat /\ n + 1 \in 1..Len(routes) /\ \A k \in 1..n : k \in 1..Len(routes)
    BY <2>1
  <2>3. r \in RouteSet
    BY <1>0, <2>1, <2>2
  <2>4. p \in Nodes /\ r.method \in Methods
    BY <1>1, <2>3 DEF RouteSet
  <2> QED BY <2>1, <2>2, <2>3, <2>4
<1>3. PICK u : u = Insert(t, r)
  OBVIOUS
<1>4. /\ u.nodes = t.nodes \union {NodeOf(p, m) : m \in 0..Len(p)}
      /\ u.variable = Naming(t, p)
      /\ u.endpoints = Put(t.endpoints, <<Leaf(r), r.method>>, r.endpoint)
  BY <1>1, <1>2, <1>3, InsertIs
<1>5. \A k \in 1..(n + 1) : k \in 1..n \/ k = n + 1
  BY <1>2
<1>6. 1..n \subseteq 1..(n + 1) /\ n + 1 \in 1..(n + 1)
  BY <1>2
<1>7. \A x : x \in u.nodes =>
        x = <<>> \/ \E k \in 1..(n + 1) : \E m \in 0..Len(routes[k].pattern) : x = NodeOf(routes[k].pattern, m)
  BY <1>0, <1>1, <1>4, <1>6 DEF Grown
<1>8. \A k \in 1..(n + 1) : \A m \in 0..Len(routes[k].pattern) : NodeOf(routes[k].pattern, m) \in u.nodes
  BY <1>0, <1>1, <1>4, <1>5 DEF Grown
<1>9. ASSUME NEW k \in 1..(n + 1), NEW x \in Named(routes[k].pattern)
      PROVE  x \in DOMAIN u.variable /\ u.variable[x] = routes[k].pattern[Len(x) + 1].name
  <2>1. DOMAIN u.variable = Named(p) \union DOMAIN t.variable
    BY <1>4 DEF Naming
  <2>2. CASE x \in Named(p)
    <3>1. u.variable[x] = p[Len(x) + 1].name
      BY <1>4, <2>2 DEF Naming
    <3>2. CASE k = n + 1
      BY <1>0, <1>1, <2>1, <2>2, <3>1, <3>2
    <3>3. CASE k \in 1..n
      <4>1. x \in DOMAIN t.variable /\ t.variable[x] = routes[k].pattern[Len(x) + 1].name
        BY <3>3 DEF Grown
      <4>2. /\ Len(x) + 1 \in DOMAIN p /\ p[Len(x) + 1].var
            /\ x = NodeOf(p, (Len(x) + 1) - 1)
        <5>1. Len(x) + 1 \in 1..Len(p) /\ p[Len(x) + 1].var /\ x = NodeOf(p, Len(x)) /\ x \in Nodes
          BY <1>2, <2>2, NamedIs
        <5>2. Len(x) \in Nat /\ DOMAIN p = 1..Len(p)
          BY <1>2, <5>1 DEF Nodes
        <5>3. (Len(x) + 1) - 1 = Len(x)
          BY <5>2
        <5> QED BY <5>1, <5>2, <5>3
      <4>3. Insertable(t, p)
        BY <1>0, <1>1
      <4>4. t.variable[x] = p[Len(x) + 1].name
        BY <4>1, <4>2, <4>3 DEF Insertable
      <4> QED BY <2>1, <2>2, <3>1, <4>1, <4>4
    <3> QED BY <1>5, <3>2, <3>3
  <2>3. CASE x \notin Named(p)
    <3>1. k \in 1..n
      BY <1>0, <1>1, <1>5, <2>3
    <3>2. x \in DOMAIN t.variable /\ t.variable[x] = routes[k].pattern[Len(x) + 1].name
      BY <3>1 DEF Grown
    <3>3. u.variable[x] = t.variable[x]
      BY <1>4, <2>3, <3>2 DEF Naming
    <3> QED BY <2>1, <3>2, <3>3
  <2> QED BY <2>2, <2>3
<1>10. PICK y : y = <<Leaf(r), r.method>>
  OBVIOUS
<1>11. /\ DOMAIN u.endpoints = DOMAIN t.endpoints \union {y} /\ u.endpoints[y] = r.endpoint
       /\ \A x \in DOMAIN t.endpoints : x # y => u.endpoints[x] = t.endpoints[x]
  BY <1>4, <1>10 DEF Put
<1>12. \A x \in DOMAIN u.endpoints : \E k \in 1..(n + 1) :
         x = <<Leaf(routes[k]), routes[k].method>> /\ u.endpoints[x] = routes[k].endpoint
  <2> SUFFICES ASSUME NEW x \in DOMAIN u.endpoints
               PROVE  \E k \in 1..(n + 1) : x = <<Leaf(routes[k]), routes[k].method>>
                                            /\ u.endpoints[x] = routes[k].endpoint
    OBVIOUS
  <2>1. CASE x = y
    BY <1>0, <1>6, <1>10, <1>11, <2>1
  <2>2. CASE x # y
    <3>1. x \in DOMAIN t.endpoints /\ u.endpoints[x] = t.endpoints[x]
      BY <1>11, <2>2
    <3>2. PICK k \in 1..n : x = <<Leaf(routes[k]), routes[k].method>>
                            /\ t.endpoints[x] = routes[k].endpoint
      BY <3>1 DEF Grown
    <3> QED BY <1>6, <3>1, <3>2
  <2> QED BY <2>1, <2>2
<1>13. \A k \in 1..(n + 1) : <<Leaf(routes[k]), routes[k].method>> \in DOMAIN u.endpoints
  BY <1>0, <1>5, <1>10, <1>11 DEF Grown
<1>14. Grown(u, routes, n + 1)
  BY <1>7, <1>8, <1>9, <1>12, <1>13 DEF Grown
<1> QED BY <1>0, <1>3, <1>14

-----------------------------------------------------------------------------
(* The three folds: the tree of a list, the segments of a path, and the walk *)
(* down the tree.                                                            *)

IsTree(s, g) ==
  g = [T \in SUBSET (DOMAIN s) |->
         IF T = {} THEN EmptyTree ELSE Insert(g[T \ {Max(T)}], s[Max(T)])]

TreeTable == [x \in Trees \X RouteSet |-> Insert(x[1], x[2])]

LEMMA TreeFollows ==
  ASSUME NEW s \in Seq(RouteSet)
  PROVE  /\ TreeTable \in [Trees \X RouteSet -> Trees]
         /\ \E g : Follows(Trees, TreeTable, EmptyTree, s, g) /\ RouteTree(s) = g[1..Len(s)]
         /\ RouteTree(s) \in Trees
<1> DEFINE n == Len(s)
           h == CHOOSE g : IsTree(s, g)
<1>1. TreeTable \in [Trees \X RouteSet -> Trees]
  <2>1. \A v \in Trees, c \in RouteSet : Insert(v, c) \in Trees
    BY InsertIs
  <2> HIDE DEF Trees, RouteSet
  <2> QED BY <2>1 DEF TreeTable
<1>2. /\ n \in Nat /\ DOMAIN s = 1..n
      /\ \A T \in SUBSET (1..n) : T # {} => s[Max(T)] \in RouteSet /\ T \ {Max(T)} \in SUBSET (1..n)
  BY Positions
<1>3. \A v \in Trees, c \in RouteSet : TreeTable[<<v, c>>] = Insert(v, c)
  BY DEF TreeTable
<1> HIDE DEF n
<1>4. PICK g \in [SUBSET (1..n) -> Trees] : Table(TreeTable, EmptyTree, s, g)
  BY <1>1, EmptyTreeIs, TableSolved DEF n
<1>5. IsTree(s, g)
  <2>1. ASSUME NEW T \in SUBSET (1..n), T # {}
        PROVE  TreeTable[<<g[T \ {Max(T)}], s[Max(T)]>>] = Insert(g[T \ {Max(T)}], s[Max(T)])
    BY <1>2, <1>3, <2>1
  <2>2. g = [T \in SUBSET (1..n) |-> IF T = {} THEN EmptyTree
                ELSE TreeTable[<<g[T \ {Max(T)}], s[Max(T)]>>]]
    BY <1>4 DEF Table, n
  <2>3. g = [T \in SUBSET (1..n) |-> IF T = {} THEN EmptyTree
                ELSE Insert(g[T \ {Max(T)}], s[Max(T)])]
    BY <2>1, <2>2
  <2> QED BY <1>2, <2>3 DEF IsTree
<1>6. IsTree(s, h)
  BY <1>5
<1>7. RouteTree(s) = h[1..n]
  BY <1>2 DEF RouteTree, IsTree, FoldLeft, MapThenFoldSet
<1> HIDE DEF h
<1>8. Follows(Trees, TreeTable, EmptyTree, s, h)
  <2>1. ASSUME NEW T \in SUBSET (1..n), T # {}, h[T \ {Max(T)}] \in Trees
        PROVE  h[T] = TreeTable[<<h[T \ {Max(T)}], s[Max(T)]>>]
    <3>1. h[T] = Insert(h[T \ {Max(T)}], s[Max(T)])
      BY <1>2, <1>6, <2>1 DEF IsTree
    <3> QED BY <1>2, <1>3, <2>1, <3>1
  <2>2. h[{}] = EmptyTree
    BY <1>6 DEF IsTree
  <2> QED BY <2>1, <2>2 DEF Follows, n
<1>9. h[1..n] \in Trees
  BY <1>1, <1>8, EmptyTreeIs, FollowsIn DEF n
<1> QED BY <1>1, <1>7, <1>8, <1>9 DEF n

LEMMA TreeNone == RouteTree(<<>>) = EmptyTree
<1>1. PICK s \in Seq(RouteSet) : s = <<>>
  BY EmptySeq
<1>2. PICK g : Follows(Trees, TreeTable, EmptyTree, s, g) /\ RouteTree(s) = g[1..Len(s)]
  BY TreeFollows
<1>3. g[1..Len(<<>>)] = EmptyTree
  BY <1>1, <1>2, FollowsNone
<1> QED BY <1>1, <1>2, <1>3

LEMMA TreeAppend ==
  ASSUME NEW s \in Seq(RouteSet), NEW c \in RouteSet
  PROVE  RouteTree(Append(s, c)) = Insert(RouteTree(s), c)
<1>1. PICK g : Follows(Trees, TreeTable, EmptyTree, s, g) /\ RouteTree(s) = g[1..Len(s)]
  BY TreeFollows
<1>2. PICK t : t = Append(s, c)
  OBVIOUS
<1>3. t \in Seq(RouteSet) /\ Len(t) = Len(s) + 1
  BY <1>2, AppendProperties
<1>4. PICK h : Follows(Trees, TreeTable, EmptyTree, t, h) /\ RouteTree(t) = h[1..Len(t)]
  BY <1>3, TreeFollows
<1>5. StepsOnce(Trees, TreeTable, g, Len(s), h, c)
  <2>1. TreeTable \in [Trees \X RouteSet -> Trees]
    BY TreeFollows
  <2>2. Follows(Trees, TreeTable, EmptyTree, Append(s, c), h)
    BY <1>2, <1>4
  <2>3. Follows(Trees, TreeTable, EmptyTree, s, g)
    BY <1>1
  <2>4. EmptyTree \in Trees
    BY EmptyTreeIs
  <2> QED BY <2>1, <2>2, <2>3, <2>4, TableAppends
<1>6. \A v \in Trees : TreeTable[<<v, c>>] = Insert(v, c)
  BY DEF TreeTable
<1> QED BY <1>1, <1>2, <1>3, <1>4, <1>5, <1>6 DEF StepsOnce

\* Routes that can all be inserted make a tree that knows all of them.
LEMMA TreeGrown ==
  ASSUME NEW routes \in Seq(RouteSet),
         \A n \in DOMAIN routes : Insertable(RouteTree(SubSeq(routes, 1, n - 1)), routes[n].pattern)
  PROVE  RouteTree(routes) \in Trees /\ Grown(RouteTree(routes), routes, Len(routes))
<1> DEFINE Upto(n) == RouteTree(SubSeq(routes, 1, n))
           Good == {n \in 0..Len(routes) : Upto(n) \in Trees /\ Grown(Upto(n), routes, n)}
<1>1. Len(routes) \in Nat /\ DOMAIN routes = 1..Len(routes) /\ SubSeq(routes, 1, 0) = <<>>
      /\ SubSeq(routes, 1, Len(routes)) = routes
  BY FrontEnds
<1>2. 0 \in Good
  <2>1. PICK t : t = Upto(0)
    OBVIOUS
  <2>2. t = EmptyTree
    BY <1>1, <2>1, TreeNone
  <2>3. t \in Trees /\ Grown(t, routes, 0)
    BY <2>2, EmptyTreeIs, GrownNone
  <2> QED BY <1>1, <2>1, <2>3
<1>3. ASSUME NEW n \in 0..(Len(routes) - 1), n \in Good PROVE n + 1 \in Good
  <2>1. PICK t : t = Upto(n)
    OBVIOUS
  <2>2. t \in Trees /\ Grown(t, routes, n)
    BY <1>3, <2>1
  <2>3. /\ SubSeq(routes, 1, n) \in Seq(RouteSet) /\ routes[n + 1] \in RouteSet
        /\ SubSeq(routes, 1, n + 1) = Append(SubSeq(routes, 1, n), routes[n + 1])
    BY FrontGrows
  <2>4. Upto(n + 1) = Insert(t, routes[n + 1])
    BY <2>1, <2>3, TreeAppend
  <2>5. n + 1 \in DOMAIN routes /\ (n + 1) - 1 = n /\ n + 1 \in 0..Len(routes)
    BY <1>1
  <2>6. Insertable(t, routes[n + 1].pattern)
    BY <2>1, <2>5
  <2>7. Grown(Insert(t, routes[n + 1]), routes, n + 1)
    BY <2>2, <2>6, GrownMore
  <2>8. Insert(t, routes[n + 1]) \in Trees
    BY <2>2, <2>3, InsertIs
  <2> HIDE DEF Upto
  <2> QED BY <2>4, <2>5, <2>7, <2>8
<1> HIDE DEF Good
<1>4. Len(routes) \in Good
  BY <1>1, <1>2, <1>3, UpTo
<1> QED BY <1>1, <1>4 DEF Good

Paths == Seq(STRING)

LEMMA PushTyped ==
  <<>> \in Paths /\ \A v \in Paths, c \in STRING : Push(v, c) \in Paths
<1>1. <<>> \in Paths
  BY EmptySeq DEF Paths
<1>2. \A v \in Paths, c \in STRING : Append(v, c) \in Paths
  BY AppendProperties DEF Paths
<1> QED BY <1>1, <1>2 DEF Push

IsPush(s, g) ==
  g = [T \in SUBSET (DOMAIN s) |->
         IF T = {} THEN <<>> ELSE Push(g[T \ {Max(T)}], s[Max(T)])]

PushTable == [x \in Paths \X STRING |-> Push(x[1], x[2])]

LEMMA SplitTyped ==
  ASSUME NEW s \in Paths
  PROVE  SplitPath(s) \in Paths
<1> DEFINE n == Len(s)
           h == CHOOSE g : IsPush(s, g)
<1>1. PushTable \in [Paths \X STRING -> Paths]
  <2>1. \A v \in Paths, c \in STRING : Push(v, c) \in Paths
    BY PushTyped
  <2> HIDE DEF Paths
  <2> QED BY <2>1 DEF PushTable
<1>2. /\ n \in Nat /\ DOMAIN s = 1..n
      /\ \A T \in SUBSET (1..n) : T # {} => s[Max(T)] \in STRING /\ T \ {Max(T)} \in SUBSET (1..n)
  BY Positions DEF Paths
<1>3. \A v \in Paths, c \in STRING : PushTable[<<v, c>>] = Push(v, c)
  BY DEF PushTable
<1> HIDE DEF n
<1>a. s \in Seq(STRING)
  BY DEF Paths
<1>4. PICK g \in [SUBSET (1..n) -> Paths] : Table(PushTable, <<>>, s, g)
  BY <1>1, <1>a, PushTyped, TableSolved DEF n
<1>5. IsPush(s, g)
  <2>1. ASSUME NEW T \in SUBSET (1..n), T # {}
        PROVE  PushTable[<<g[T \ {Max(T)}], s[Max(T)]>>] = Push(g[T \ {Max(T)}], s[Max(T)])
    BY <1>2, <1>3, <2>1
  <2>2. g = [T \in SUBSET (1..n) |-> IF T = {} THEN <<>>
                ELSE PushTable[<<g[T \ {Max(T)}], s[Max(T)]>>]]
    BY <1>4 DEF Table, n
  <2>3. g = [T \in SUBSET (1..n) |-> IF T = {} THEN <<>>
                ELSE Push(g[T \ {Max(T)}], s[Max(T)])]
    BY <2>1, <2>2
  <2> QED BY <1>2, <2>3 DEF IsPush
<1>6. IsPush(s, h)
  BY <1>5
<1>7. SplitPath(s) = h[1..n]
  BY <1>2 DEF SplitPath, IsPush, FoldLeft, MapThenFoldSet
<1> HIDE DEF h
<1>8. Follows(Paths, PushTable, <<>>, s, h)
  <2>1. ASSUME NEW T \in SUBSET (1..n), T # {}, h[T \ {Max(T)}] \in Paths
        PROVE  h[T] = PushTable[<<h[T \ {Max(T)}], s[Max(T)]>>]
    <3>1. h[T] = Push(h[T \ {Max(T)}], s[Max(T)])
      BY <1>2, <1>6, <2>1 DEF IsPush
    <3> QED BY <1>2, <1>3, <2>1, <3>1
  <2>2. h[{}] = <<>>
    BY <1>6 DEF IsPush
  <2> QED BY <2>1, <2>2 DEF Follows, n
<1>9. h[1..n] \in Paths
  BY <1>1, <1>8, <1>a, PushTyped, FollowsIn DEF n
<1> QED BY <1>7, <1>9

\* What the names in the context are taken from
Keys(tree)   == {tree.variable[n] : n \in Nodes}
Places(tree) == [node : Nodes, bound : Maps(Keys(tree), STRING)]

LEMMA DescendTyped ==
  ASSUME NEW tree
  PROVE  /\ Root \in Places(tree)
         /\ \A at \in Places(tree), s \in STRING : Descend(tree, at, s) \in Places(tree)
<1>1. <<>> \in Nodes /\ <<>> \in Maps(Keys(tree), STRING)
  BY EmptySeq, NoMap DEF Nodes
<1>2. Root \in Places(tree)
  BY <1>1 DEF Root, Places
<1>3. ASSUME NEW at \in Places(tree), NEW s \in STRING
      PROVE  Descend(tree, at, s) \in Places(tree)
  <2>1. at.node \in Nodes /\ at.bound \in Maps(Keys(tree), STRING)
    BY DEF Places
  <2>2. Literal(s) \in Edges /\ Variable("") \in Edges /\ Variable("nowhere") \in Edges
    <3>1. s \in Names /\ "" \in Names /\ "nowhere" \in Names
      BY DEF Names
    <3> QED BY <3>1, SegmentIn
  <2>3. /\ Append(at.node, Literal(s)) \in Nodes /\ Append(at.node, Variable("")) \in Nodes
        /\ Nowhere \in Nodes
    <3>1. \A e \in Edges : Append(at.node, e) \in Nodes /\ <<e>> \in Nodes
      BY <2>1, AppendProperties DEF Nodes
    <3> QED BY <2>2, <3>1 DEF Nowhere
  <2>4. \A x \in Nodes : [at EXCEPT !.node = x] \in Places(tree)
    BY DEF Places
  <2>5. Put(at.bound, tree.variable[at.node], s) \in Maps(Keys(tree), STRING)
    <3>1. tree.variable[at.node] \in Keys(tree)
      BY <2>1 DEF Keys
    <3> QED BY <2>1, <3>1, MapPut
  <2>6. [node |-> Append(at.node, Variable("")),
         bound |-> Put(at.bound, tree.variable[at.node], s)] \in Places(tree)
    BY <2>3, <2>5 DEF Places
  <2> QED BY <2>3, <2>4, <2>6 DEF Descend
<1> QED BY <1>2, <1>3

IsWalk(tree, s, g) ==
  g = [T \in SUBSET (DOMAIN s) |->
         IF T = {} THEN Root ELSE Descend(tree, g[T \ {Max(T)}], s[Max(T)])]

WalkTable(tree) == [x \in Places(tree) \X STRING |-> Descend(tree, x[1], x[2])]

LEMMA WalkFollows ==
  ASSUME NEW tree, NEW s \in Seq(STRING)
  PROVE  /\ WalkTable(tree) \in [Places(tree) \X STRING -> Places(tree)]
         /\ \E g : Follows(Places(tree), WalkTable(tree), Root, s, g) /\ Walk(tree, s) = g[1..Len(s)]
         /\ Walk(tree, s) \in Places(tree)
<1> DEFINE n == Len(s)
           h == CHOOSE g : IsWalk(tree, s, g)
<1>1. WalkTable(tree) \in [Places(tree) \X STRING -> Places(tree)]
  <2>1. \A v \in Places(tree), c \in STRING : Descend(tree, v, c) \in Places(tree)
    BY DescendTyped
  <2> HIDE DEF Places
  <2> QED BY <2>1 DEF WalkTable
<1>2. /\ n \in Nat /\ DOMAIN s = 1..n
      /\ \A T \in SUBSET (1..n) : T # {} => s[Max(T)] \in STRING /\ T \ {Max(T)} \in SUBSET (1..n)
  BY Positions
<1>3. \A v \in Places(tree), c \in STRING : WalkTable(tree)[<<v, c>>] = Descend(tree, v, c)
  BY DEF WalkTable
<1> HIDE DEF n
<1>4. PICK g \in [SUBSET (1..n) -> Places(tree)] : Table(WalkTable(tree), Root, s, g)
  BY <1>1, DescendTyped, TableSolved DEF n
<1>5. IsWalk(tree, s, g)
  <2>1. ASSUME NEW T \in SUBSET (1..n), T # {}
        PROVE  WalkTable(tree)[<<g[T \ {Max(T)}], s[Max(T)]>>] = Descend(tree, g[T \ {Max(T)}], s[Max(T)])
    BY <1>2, <1>3, <2>1
  <2>2. g = [T \in SUBSET (1..n) |-> IF T = {} THEN Root
                ELSE WalkTable(tree)[<<g[T \ {Max(T)}], s[Max(T)]>>]]
    BY <1>4 DEF Table, n
  <2>3. g = [T \in SUBSET (1..n) |-> IF T = {} THEN Root
                ELSE Descend(tree, g[T \ {Max(T)}], s[Max(T)])]
    BY <2>1, <2>2
  <2> QED BY <1>2, <2>3 DEF IsWalk
<1>6. IsWalk(tree, s, h)
  BY <1>5
<1>7. Walk(tree, s) = h[1..n]
  BY <1>2 DEF Walk, IsWalk, FoldLeft, MapThenFoldSet
<1> HIDE DEF h
<1>8. Follows(Places(tree), WalkTable(tree), Root, s, h)
  <2>1. ASSUME NEW T \in SUBSET (1..n), T # {}, h[T \ {Max(T)}] \in Places(tree)
        PROVE  h[T] = WalkTable(tree)[<<h[T \ {Max(T)}], s[Max(T)]>>]
    <3>1. h[T] = Descend(tree, h[T \ {Max(T)}], s[Max(T)])
      BY <1>2, <1>6, <2>1 DEF IsWalk
    <3> QED BY <1>2, <1>3, <2>1, <3>1
  <2>2. h[{}] = Root
    BY <1>6 DEF IsWalk
  <2> QED BY <2>1, <2>2 DEF Follows, n
<1>9. h[1..n] \in Places(tree)
  BY <1>1, <1>8, DescendTyped, FollowsIn DEF n
<1> QED BY <1>1, <1>7, <1>8, <1>9 DEF n

LEMMA WalkNone ==
  ASSUME NEW tree
  PROVE  Walk(tree, <<>>) = Root
<1>1. PICK s \in Seq(STRING) : s = <<>>
  BY EmptySeq
<1>2. PICK g : Follows(Places(tree), WalkTable(tree), Root, s, g) /\ Walk(tree, s) = g[1..Len(s)]
  BY WalkFollows
<1>3. g[1..Len(<<>>)] = Root
  BY <1>1, <1>2, FollowsNone
<1> QED BY <1>1, <1>2, <1>3

LEMMA WalkAppend ==
  ASSUME NEW tree, NEW s \in Seq(STRING), NEW c \in STRING
  PROVE  Walk(tree, Append(s, c)) = Descend(tree, Walk(tree, s), c)
<1>1. PICK g : Follows(Places(tree), WalkTable(tree), Root, s, g) /\ Walk(tree, s) = g[1..Len(s)]
  BY WalkFollows
<1>2. PICK t : t = Append(s, c)
  OBVIOUS
<1>3. t \in Seq(STRING) /\ Len(t) = Len(s) + 1
  BY <1>2, AppendProperties
<1>4. PICK h : Follows(Places(tree), WalkTable(tree), Root, t, h) /\ Walk(tree, t) = h[1..Len(t)]
  BY <1>3, WalkFollows
<1>5. StepsOnce(Places(tree), WalkTable(tree), g, Len(s), h, c)
  <2>1. WalkTable(tree) \in [Places(tree) \X STRING -> Places(tree)]
    BY WalkFollows
  <2>2. Follows(Places(tree), WalkTable(tree), Root, Append(s, c), h)
    BY <1>2, <1>4
  <2>3. Follows(Places(tree), WalkTable(tree), Root, s, g)
    BY <1>1
  <2>4. Root \in Places(tree)
    BY DescendTyped
  <2> QED BY <2>1, <2>2, <2>3, <2>4, TableAppends
<1>6. \A v \in Places(tree) : WalkTable(tree)[<<v, c>>] = Descend(tree, v, c)
  BY DEF WalkTable
<1> QED BY <1>1, <1>2, <1>3, <1>4, <1>5, <1>6 DEF StepsOnce

-----------------------------------------------------------------------------
(* A walk down the tree ends where the list of routes leads. *)

LEMMA RouteIs ==
  ASSUME NEW routes \in Seq(RouteSet), NEW k \in DOMAIN routes
  PROVE  /\ k \in 1..Len(routes) /\ Len(routes) \in Nat
         /\ routes[k].pattern \in Nodes /\ routes[k].method \in Methods
         /\ Len(routes[k].pattern) \in Nat /\ DOMAIN routes[k].pattern = 1..Len(routes[k].pattern)
         /\ \A j \in 1..Len(routes[k].pattern) : routes[k].pattern[j] \in Edges
<1>1. k \in 1..Len(routes) /\ Len(routes) \in Nat /\ routes[k] \in RouteSet
  OBVIOUS
<1>2. routes[k].pattern \in Nodes /\ routes[k].method \in Methods
  BY <1>1 DEF RouteSet
<1>3. \A p \in Nodes : Len(p) \in Nat /\ DOMAIN p = 1..Len(p) /\ \A j \in 1..Len(p) : p[j] \in Edges
  BY DEF Nodes
<1> QED BY <1>1, <1>2, <1>3

\* An edge of the tree is an edge of a route that leads there.
LEMMA ChildIs ==
  ASSUME NEW routes \in Seq(RouteSet), NEW t \in Trees, Grown(t, routes, Len(routes)),
         NEW x \in Nodes, NEW e \in Edges, Append(x, e) \in t.nodes
  PROVE  /\ x # Nowhere
         /\ \E k \in DOMAIN routes : /\ Len(x) + 1 <= Len(routes[k].pattern)
                                     /\ x = NodeOf(routes[k].pattern, Len(x))
                                     /\ e = Edge(routes[k].pattern[Len(x) + 1])
<1>1. PICK y : y = Append(x, e)
  OBVIOUS
<1>2. y \in t.nodes /\ Len(y) = Len(x) + 1 /\ Len(x) \in Nat /\ y # <<>>
  BY <1>1 DEF Nodes
<1>a. PICK k \in 1..Len(routes) : \E m \in 0..Len(routes[k].pattern) : y = NodeOf(routes[k].pattern, m)
  BY <1>2 DEF Grown
<1>3. PICK m \in 0..Len(routes[k].pattern) : y = NodeOf(routes[k].pattern, m)
  BY <1>a
<1>4. k \in DOMAIN routes
  OBVIOUS
<1>5. PICK p : p = routes[k].pattern
  OBVIOUS
<1>6. p \in Nodes /\ Len(p) \in Nat
  BY <1>4, <1>5, RouteIs
<1>7. m = Len(x) + 1 /\ Len(x) + 1 <= Len(p)
  BY <1>2, <1>3, <1>5, <1>6, NodeIs
<1>8. x = NodeOf(p, Len(x)) /\ e = Edge(p[Len(x) + 1])
  <2>1. PICK n \in Nat : n = Len(x)
    BY <1>2
  <2>2. Append(x, e) = NodeOf(p, n + 1)
    BY <1>1, <1>3, <1>5, <1>7, <2>1
  <2>3. n + 1 <= Len(p)
    BY <1>7, <2>1
  <2>4. x = NodeOf(p, n) /\ e = Edge(p[n + 1])
    BY <1>6, <2>2, <2>3, NodeAppend
  <2> QED BY <2>1, <2>4
<1>9. x # Nowhere
  BY <1>1, <1>3, <1>5, <1>6, NowhereIs
<1> QED BY <1>4, <1>5, <1>7, <1>8, <1>9

LEMMA ChildIn ==
  ASSUME NEW routes \in Seq(RouteSet), NEW t \in Trees, Grown(t, routes, Len(routes)),
         NEW k \in DOMAIN routes, NEW m \in Nat, m + 1 <= Len(routes[k].pattern)
  PROVE  Append(NodeOf(routes[k].pattern, m), Edge(routes[k].pattern[m + 1])) \in t.nodes
<1>1. PICK p : p = routes[k].pattern
  OBVIOUS
<1>2. p \in Nodes /\ Len(p) \in Nat /\ k \in 1..Len(routes) /\ p[m + 1] \in Edges
  BY <1>1, RouteIs
<1>3. m \in 0..Len(p) /\ m + 1 \in 0..Len(p)
  BY <1>1, <1>2
<1>4. NodeOf(p, m + 1) \in t.nodes
  BY <1>1, <1>2, <1>3 DEF Grown
<1>5. NodeOf(p, m) \in Nodes /\ Edge(p[m + 1]) \in Edges
  BY <1>2, <1>3, NodeIs, EdgeIs
<1>6. Append(NodeOf(p, m), Edge(p[m + 1])) = NodeOf(p, m + 1)
  BY <1>1, <1>2, <1>5, NodeAppend
<1> QED BY <1>1, <1>4, <1>6

\* The first m segments of a path fit a pattern, and what its variables stand for
Fits(p, path, m) == \A j \in 1..m : p[j].var \/ p[j].name = path[j]

Bound(b, p, path, m) ==
  /\ \A x : x \in DOMAIN b <=> \E j \in 1..m : p[j].var /\ x = p[j].name
  /\ \A j \in 1..m : p[j].var => b[p[j].name] = path[j]

\* After m segments the walk is at the node of every route that they fit, or of
\* none, and knows its variables.
Walked(at, routes, path, m) ==
  /\ at.node = Nowhere \/ Len(at.node) = m
  /\ \A k \in DOMAIN routes : m <= Len(routes[k].pattern) =>
       /\ at.node = NodeOf(routes[k].pattern, m) <=> Fits(routes[k].pattern, path, m)
       /\ at.node = NodeOf(routes[k].pattern, m) => Bound(at.bound, routes[k].pattern, path, m)

LEMMA WalkedNone ==
  ASSUME NEW routes \in Seq(RouteSet), NEW path
  PROVE  Walked(Root, routes, path, 0)
<1>1. Root.node = <<>> /\ Len(Root.node) = 0 /\ DOMAIN Root.bound = {}
  BY NoMap DEF Root
<1>2. ASSUME NEW k \in DOMAIN routes PROVE NodeOf(routes[k].pattern, 0) = <<>>
  <2>1. routes[k].pattern \in Nodes /\ 0 \in 0..Len(routes[k].pattern)
    BY RouteIs
  <2>2. NodeOf(routes[k].pattern, 0) \in Nodes /\ Len(NodeOf(routes[k].pattern, 0)) = 0
    BY <2>1, NodeIs
  <2> QED BY <2>2, EmptySeq DEF Nodes
<1>3. \A p : Fits(p, path, 0) /\ Bound(Root.bound, p, path, 0)
  BY <1>1 DEF Fits, Bound
<1> QED BY <1>1, <1>2, <1>3 DEF Walked

LEMMA FitsMore ==
  ASSUME NEW p, NEW path, NEW m \in Nat
  PROVE  Fits(p, path, m + 1) <=> Fits(p, path, m) /\ (p[m + 1].var \/ p[m + 1].name = path[m + 1])
<1>1. 1..m \subseteq 1..(m + 1) /\ m + 1 \in 1..(m + 1) /\ \A j \in 1..(m + 1) : j \in 1..m \/ j = m + 1
  OBVIOUS
<1> QED BY <1>1 DEF Fits

\* A walk that leaves the tree: no route fits.
LEMMA WalkLeaves ==
  ASSUME NEW routes \in Seq(RouteSet), NEW path, NEW m \in Nat,
         \A k \in DOMAIN routes : m <= Len(routes[k].pattern) => ~Fits(routes[k].pattern, path, m),
         NEW at, at.node = Nowhere
  PROVE  Walked(at, routes, path, m)
<1>1. ASSUME NEW k \in DOMAIN routes, m <= Len(routes[k].pattern)
      PROVE  NodeOf(routes[k].pattern, m) # Nowhere
  <2>1. routes[k].pattern \in Nodes /\ m \in 0..Len(routes[k].pattern)
    BY <1>1, RouteIs
  <2> QED BY <2>1, NowhereIs
<1> QED BY <1>1 DEF Walked

\* A child of the node that the walk has come to is at the node of the routes
\* that lead there by the same edge.
Leads(at, e, p, path, m) ==
  Append(at.node, e) = NodeOf(p, m + 1) <=> Fits(p, path, m) /\ e = Edge(p[m + 1])

LEMMA NextNode ==
  ASSUME NEW routes \in Seq(RouteSet), NEW path, NEW m \in Nat,
         NEW at, at.node \in Nodes, Walked(at, routes, path, m),
         NEW e \in Edges, NEW k \in DOMAIN routes, m + 1 <= Len(routes[k].pattern)
  PROVE  Leads(at, e, routes[k].pattern, path, m)
<1>1. routes[k].pattern \in Nodes /\ m <= Len(routes[k].pattern)
  BY RouteIs
<1>2. Append(at.node, e) = NodeOf(routes[k].pattern, m + 1)
        <=> at.node = NodeOf(routes[k].pattern, m) /\ e = Edge(routes[k].pattern[m + 1])
  BY <1>1, NodeAppend
<1> QED BY <1>1, <1>2 DEF Walked, Leads

\* Routes that share a beginning go on in one way.
LEMMA OneKind ==
  ASSUME NEW routes \in Seq(RouteSet), Unambiguous(routes), NEW j \in DOMAIN routes,
         NEW k \in DOMAIN routes, NEW m \in Nat,
         m + 1 <= Len(routes[j].pattern), m + 1 <= Len(routes[k].pattern),
         NodeOf(routes[j].pattern, m) = NodeOf(routes[k].pattern, m)
  PROVE  routes[j].pattern[m + 1].var <=> routes[k].pattern[m + 1].var
<1>1. /\ m + 1 \in DOMAIN routes[j].pattern \intersect DOMAIN routes[k].pattern
      /\ (m + 1) - 1 = m
  BY RouteIs
<1> QED BY <1>1 DEF Unambiguous

\* A walk along the edge e, which is the one that every route has which fits
\* as far, goes on to the routes that fit one segment more.
LEMMA WalkGoes ==
  ASSUME NEW routes \in Seq(RouteSet), NEW path, NEW m \in Nat,
         NEW at, at.node \in Nodes, Len(at.node) = m, Walked(at, routes, path, m),
         NEW e \in Edges, NEW b,
         \A k \in DOMAIN routes :
           LET p == routes[k].pattern
           IN  m + 1 <= Len(p) /\ at.node = NodeOf(p, m) =>
                 /\ e = Edge(p[m + 1]) <=> p[m + 1].var \/ p[m + 1].name = path[m + 1]
                 /\ e = Edge(p[m + 1]) /\ Bound(at.bound, p, path, m) => Bound(b, p, path, m + 1),
         NEW to, to.node = Append(at.node, e), to.bound = b
  PROVE  Walked(to, routes, path, m + 1)
<1>1. Len(to.node) = m + 1
  BY DEF Nodes
<1>2. ASSUME NEW k \in DOMAIN routes, m + 1 <= Len(routes[k].pattern)
      PROVE  /\ to.node = NodeOf(routes[k].pattern, m + 1) <=> Fits(routes[k].pattern, path, m + 1)
             /\ to.node = NodeOf(routes[k].pattern, m + 1) => Bound(to.bound, routes[k].pattern, path, m + 1)
  <2>0. PICK p : p = routes[k].pattern
    OBVIOUS
  <2>1. to.node = NodeOf(p, m + 1) <=> Fits(p, path, m) /\ e = Edge(p[m + 1])
    <3>1. m + 1 <= Len(routes[k].pattern)
      BY <1>2
    <3>2. Leads(at, e, routes[k].pattern, path, m)
      BY <3>1, NextNode
    <3> QED BY <2>0, <3>2 DEF Leads
  <2>2. m <= Len(p)
    BY <1>2, <2>0, RouteIs
  <2>3. /\ at.node = NodeOf(p, m) <=> Fits(p, path, m)
        /\ at.node = NodeOf(p, m) => Bound(at.bound, p, path, m)
    BY <2>0, <2>2 DEF Walked
  <2>4. at.node = NodeOf(p, m) =>
          /\ e = Edge(p[m + 1]) <=> p[m + 1].var \/ p[m + 1].name = path[m + 1]
          /\ e = Edge(p[m + 1]) /\ Bound(at.bound, p, path, m) => Bound(b, p, path, m + 1)
    BY <1>2, <2>0
  <2>5. Fits(p, path, m + 1) <=> Fits(p, path, m) /\ (p[m + 1].var \/ p[m + 1].name = path[m + 1])
    BY FitsMore
  <2> QED BY <2>0, <2>1, <2>3, <2>4, <2>5
<1> QED BY <1>1, <1>2 DEF Walked

\* What the walk knows of the variables, one segment later
LEMMA BoundMore ==
  ASSUME NEW routes \in Seq(RouteSet), Unambiguous(routes), NEW k \in DOMAIN routes,
         NEW path, NEW m \in Nat, m + 1 <= Len(routes[k].pattern),
         NEW b, Bound(b, routes[k].pattern, path, m)
  PROVE  /\ ~routes[k].pattern[m + 1].var => Bound(b, routes[k].pattern, path, m + 1)
         /\ routes[k].pattern[m + 1].var =>
              Bound(Put(b, routes[k].pattern[m + 1].name, path[m + 1]), routes[k].pattern, path, m + 1)
<1>0. PICK p : p = routes[k].pattern
  OBVIOUS
<1>1. /\ 1..m \subseteq 1..(m + 1) /\ m + 1 \in 1..(m + 1)
      /\ \A j \in 1..(m + 1) : j \in 1..m \/ j = m + 1
  OBVIOUS
<1>2. \A i, j \in 1..(m + 1) : p[i].var /\ p[j].var /\ p[i].name = p[j].name => i = j
  <2>1. \A j \in 1..(m + 1) : j \in DOMAIN p
    BY <1>0, RouteIs
  <2> QED BY <1>0, <2>1 DEF Unambiguous
<1>3. Bound(b, p, path, m)
  BY <1>0
<1>4. ASSUME ~p[m + 1].var PROVE Bound(b, p, path, m + 1)
  BY <1>1, <1>3, <1>4 DEF Bound
<1>5. ASSUME p[m + 1].var PROVE Bound(Put(b, p[m + 1].name, path[m + 1]), p, path, m + 1)
  <2>1. PICK f : f = Put(b, p[m + 1].name, path[m + 1])
    OBVIOUS
  <2>2. /\ DOMAIN f = DOMAIN b \union {p[m + 1].name} /\ f[p[m + 1].name] = path[m + 1]
        /\ \A x \in DOMAIN b : x # p[m + 1].name => f[x] = b[x]
    BY <2>1 DEF Put
  <2>3. ASSUME NEW x PROVE x \in DOMAIN f <=> \E j \in 1..(m + 1) : p[j].var /\ x = p[j].name
    <3>1. x \in DOMAIN b <=> \E j \in 1..m : p[j].var /\ x = p[j].name
      BY <1>3 DEF Bound
    <3> QED BY <1>1, <1>5, <2>2, <3>1
  <2>4. ASSUME NEW j \in 1..(m + 1), p[j].var PROVE f[p[j].name] = path[j]
    <3>1. CASE j = m + 1
      BY <2>2, <3>1
    <3>2. CASE j # m + 1
      <4>1. j \in 1..m
        BY <1>1, <3>2
      <4>2. p[j].name \in DOMAIN b /\ b[p[j].name] = path[j]
        BY <1>3, <2>4, <4>1 DEF Bound
      <4>3. p[j].name # p[m + 1].name
        BY <1>1, <1>2, <1>5, <2>4, <3>2
      <4> QED BY <2>2, <4>2, <4>3
    <3> QED BY <3>1, <3>2
  <2>5. Bound(f, p, path, m + 1)
    BY <2>3, <2>4 DEF Bound
  <2> QED BY <2>1, <2>5
<1> QED BY <1>0, <1>4, <1>5

LEMMA WalkedMore ==
  ASSUME NEW routes \in Seq(RouteSet), Unambiguous(routes), NEW t \in Trees,
         Grown(t, routes, Len(routes)), NEW path, NEW m \in Nat, path[m + 1] \in STRING,
         NEW at \in Places(t), Walked(at, routes, path, m)
  PROVE  Walked(Descend(t, at, path[m + 1]), routes, path, m + 1)
<1>0. PICK s \in STRING : s = path[m + 1]
  OBVIOUS
<1>1. PICK e : e = Literal(s)
  OBVIOUS
<1>2. PICK v : v = Variable("")
  OBVIOUS
<1>3. e \in Edges /\ v \in Edges /\ at.node \in Nodes
  <2>1. s \in Names /\ "" \in Names
    BY DEF Names
  <2> QED BY <1>1, <1>2, <2>1, SegmentIn DEF Places
<1>4. PICK to : to = Descend(t, at, s)
  OBVIOUS
<1>5. to = IF Append(at.node, e) \in t.nodes THEN [at EXCEPT !.node = Append(at.node, e)]
           ELSE IF Append(at.node, v) \in t.nodes
                THEN [node |-> Append(at.node, v), bound |-> Put(at.bound, t.variable[at.node], s)]
                ELSE [at EXCEPT !.node = Nowhere]
  BY <1>1, <1>2, <1>4 DEF Descend
<1>6. \A x : [at EXCEPT !.node = x].node = x /\ [at EXCEPT !.node = x].bound = at.bound
  BY DEF Places
<1>7. ASSUME NEW k \in DOMAIN routes, m + 1 <= Len(routes[k].pattern)
      PROVE  LET c == routes[k].pattern[m + 1] IN
             /\ c.var => Edge(c) = v
             /\ ~c.var => Edge(c) = c /\ Edge(c) # v /\ (Edge(c) = e <=> c.name = s)
             /\ e # v
  <2>1. PICK c \in Edges : c = routes[k].pattern[m + 1]
    BY <1>7, RouteIs
  <2>2. c.var => Edge(c) = v
    BY <1>2, EdgeIs
  <2>3. ~c.var => Edge(c) = c /\ Edge(c) # v /\ c = Literal(c.name)
    BY <1>2, EdgeIs
  <2>4. e.name = s /\ ~e.var
    BY <1>1 DEF Literal
  <2>5. v.var
    BY <1>2 DEF Variable
  <2>6. e # v
    BY <2>4, <2>5
  <2>7. ~c.var => (Edge(c) = e <=> c.name = s)
    BY <1>1, <2>3, <2>4
  <2> QED BY <2>1, <2>2, <2>3, <2>6, <2>7
<1>8. CASE Append(at.node, e) \in t.nodes
  <2>1. at.node # Nowhere /\ \E k \in DOMAIN routes :
          /\ Len(at.node) + 1 <= Len(routes[k].pattern)
          /\ at.node = NodeOf(routes[k].pattern, Len(at.node))
          /\ e = Edge(routes[k].pattern[Len(at.node) + 1])
    BY <1>3, <1>8, ChildIs
  <2>2. Len(at.node) = m
    BY <2>1 DEF Walked
  <2>3. PICK j \in DOMAIN routes :
          /\ m + 1 <= Len(routes[j].pattern) /\ at.node = NodeOf(routes[j].pattern, m)
          /\ e = Edge(routes[j].pattern[m + 1])
    BY <2>1, <2>2
  <2>4. ~routes[j].pattern[m + 1].var
    BY <1>7, <2>3
  <2>5. ASSUME NEW k \in DOMAIN routes, m + 1 <= Len(routes[k].pattern),
               at.node = NodeOf(routes[k].pattern, m)
        PROVE  ~routes[k].pattern[m + 1].var
    BY <2>3, <2>4, <2>5, OneKind
  <2>6. \A k \in DOMAIN routes :
          LET p == routes[k].pattern
          IN  m + 1 <= Len(p) /\ at.node = NodeOf(p, m) =>
                /\ e = Edge(p[m + 1]) <=> p[m + 1].var \/ p[m + 1].name = path[m + 1]
                /\ e = Edge(p[m + 1]) /\ Bound(at.bound, p, path, m) => Bound(at.bound, p, path, m + 1)
    BY <1>0, <1>7, <2>5, BoundMore
  <2>7. to.node = Append(at.node, e) /\ to.bound = at.bound
    BY <1>5, <1>6, <1>8
  <2>8. Walked(to, routes, path, m + 1)
    BY <1>3, <2>2, <2>6, <2>7, WalkGoes
  <2> QED BY <1>0, <1>4, <2>8
<1>9. CASE Append(at.node, e) \notin t.nodes /\ Append(at.node, v) \in t.nodes
  <2>1. at.node # Nowhere /\ \E k \in DOMAIN routes :
          /\ Len(at.node) + 1 <= Len(routes[k].pattern)
          /\ at.node = NodeOf(routes[k].pattern, Len(at.node))
          /\ v = Edge(routes[k].pattern[Len(at.node) + 1])
    BY <1>3, <1>9, ChildIs
  <2>2. Len(at.node) = m
    BY <2>1 DEF Walked
  <2>3. PICK j \in DOMAIN routes :
          /\ m + 1 <= Len(routes[j].pattern) /\ at.node = NodeOf(routes[j].pattern, m)
          /\ v = Edge(routes[j].pattern[m + 1])
    BY <2>1, <2>2
  <2>4. routes[j].pattern[m + 1].var
    BY <1>7, <2>3
  <2>5. ASSUME NEW k \in DOMAIN routes, m + 1 <= Len(routes[k].pattern),
               at.node = NodeOf(routes[k].pattern, m)
        PROVE  /\ routes[k].pattern[m + 1].var
               /\ t.variable[at.node] = routes[k].pattern[m + 1].name
    <3>1. routes[k].pattern[m + 1].var
      BY <2>3, <2>4, <2>5, OneKind
    <3>2. /\ m + 1 \in DOMAIN routes[k].pattern /\ (m + 1) - 1 = m
          /\ k \in 1..Len(routes)
      BY <2>5, RouteIs
    <3>3. at.node \in Named(routes[k].pattern)
      BY <2>5, <3>1, <3>2 DEF Named, Parents
    <3>4. t.variable[at.node] = routes[k].pattern[Len(at.node) + 1].name
      BY <3>2, <3>3 DEF Grown
    <3> QED BY <2>2, <3>1, <3>4
  <2>6. PICK b : b = Put(at.bound, t.variable[at.node], s)
    OBVIOUS
  <2>7. \A k \in DOMAIN routes :
          LET p == routes[k].pattern
          IN  m + 1 <= Len(p) /\ at.node = NodeOf(p, m) =>
                /\ v = Edge(p[m + 1]) <=> p[m + 1].var \/ p[m + 1].name = path[m + 1]
                /\ v = Edge(p[m + 1]) /\ Bound(at.bound, p, path, m) => Bound(b, p, path, m + 1)
    BY <1>0, <1>7, <2>5, <2>6, BoundMore
  <2>8. to.node = Append(at.node, v) /\ to.bound = b
    BY <1>5, <1>9, <2>6
  <2>9. Walked(to, routes, path, m + 1)
    BY <1>3, <2>2, <2>7, <2>8, WalkGoes
  <2> QED BY <1>0, <1>4, <2>9
<1>10. CASE Append(at.node, e) \notin t.nodes /\ Append(at.node, v) \notin t.nodes
  <2>1. to.node = Nowhere
    BY <1>5, <1>6, <1>10
  <2>2. ASSUME NEW k \in DOMAIN routes, m + 1 <= Len(routes[k].pattern),
               Fits(routes[k].pattern, path, m + 1)
        PROVE  FALSE
    <3>0. PICK p : p = routes[k].pattern
      OBVIOUS
    <3>1. Fits(p, path, m) /\ (p[m + 1].var \/ p[m + 1].name = s)
      BY <1>0, <2>2, <3>0, FitsMore
    <3>2. m <= Len(p)
      BY <2>2, <3>0, RouteIs
    <3>3. at.node = NodeOf(p, m)
      BY <3>0, <3>1, <3>2 DEF Walked
    <3>4. Append(at.node, Edge(p[m + 1])) \in t.nodes
      BY <2>2, <3>0, <3>3, ChildIn
    <3>5. Edge(p[m + 1]) = v \/ Edge(p[m + 1]) = e
      BY <1>7, <2>2, <3>0, <3>1
    <3> QED BY <1>10, <3>4, <3>5
  <2>3. Walked(to, routes, path, m + 1)
    BY <2>1, <2>2, WalkLeaves
  <2> QED BY <1>0, <1>4, <2>3
<1> QED BY <1>8, <1>9, <1>10

LEMMA WalkedAll ==
  ASSUME NEW routes \in Seq(RouteSet), Unambiguous(routes), NEW t \in Trees,
         Grown(t, routes, Len(routes)), NEW path \in Seq(STRING)
  PROVE  Walk(t, path) \in Places(t) /\ Walked(Walk(t, path), routes, path, Len(path))
<1> DEFINE Upto(n) == Walk(t, SubSeq(path, 1, n))
           Good == {n \in 0..Len(path) : Upto(n) \in Places(t) /\ Walked(Upto(n), routes, path, n)}
<1>1. Len(path) \in Nat /\ SubSeq(path, 1, 0) = <<>> /\ SubSeq(path, 1, Len(path)) = path
  BY FrontEnds
<1>2. 0 \in Good
  <2>1. PICK at : at = Upto(0)
    OBVIOUS
  <2>2. at = Root
    BY <1>1, <2>1, WalkNone
  <2>3. at \in Places(t) /\ Walked(at, routes, path, 0)
    BY <2>2, DescendTyped, WalkedNone
  <2> QED BY <1>1, <2>1, <2>3
<1>3. ASSUME NEW n \in 0..(Len(path) - 1), n \in Good PROVE n + 1 \in Good
  <2>1. PICK at : at = Upto(n)
    OBVIOUS
  <2>2. at \in Places(t) /\ Walked(at, routes, path, n)
    BY <1>3, <2>1
  <2>3. /\ SubSeq(path, 1, n) \in Seq(STRING) /\ path[n + 1] \in STRING
        /\ SubSeq(path, 1, n + 1) = Append(SubSeq(path, 1, n), path[n + 1])
    BY FrontGrows
  <2>4. Upto(n + 1) = Descend(t, at, path[n + 1])
    BY <2>1, <2>3, WalkAppend
  <2>5. n \in Nat /\ n + 1 \in 0..Len(path)
    BY <1>1
  <2>6. Walked(Descend(t, at, path[n + 1]), routes, path, n + 1)
    BY <2>2, <2>3, <2>5, WalkedMore
  <2>7. Descend(t, at, path[n + 1]) \in Places(t)
    BY <2>2, <2>3, DescendTyped
  <2> HIDE DEF Upto
  <2> QED BY <2>4, <2>5, <2>6, <2>7
<1> HIDE DEF Good
<1>4. Len(path) \in Good
  BY <1>1, <1>2, <1>3, UpTo
<1> QED BY <1>1, <1>4 DEF Good

LEMMA BindingIs ==
  ASSUME NEW D, NEW S, NEW b \in Maps(D, S), NEW p \in Nodes, NEW path \in Seq(STRING),
         Len(p) = Len(path), Bound(b, p, path, Len(path)),
         \A m, n \in DOMAIN p : p[m].var /\ p[n].var /\ p[m].name = p[n].name => m = n
  PROVE  b = Binding(p, path)
<1> DEFINE variables == {k \in DOMAIN p : p[k].var}
           named     == {p[k].name : k \in variables}
           K(x)      == CHOOSE k \in variables : p[k].name = x
<1>1. DOMAIN p = 1..Len(path)
  BY DEF Nodes
<1>2. Binding(p, path) = [x \in named |-> path[K(x)]]
  BY DEF Binding
<1>3. DOMAIN b = named
  <2>1. \A x : x \in DOMAIN b <=> \E j \in 1..Len(path) : p[j].var /\ x = p[j].name
    BY DEF Bound
  <2>2. \A x : x \in named <=> \E j \in 1..Len(path) : p[j].var /\ x = p[j].name
    BY <1>1
  <2> HIDE DEF named
  <2> QED BY <2>1, <2>2
<1>4. b \in [DOMAIN b -> S]
  BY MapIs
<1>5. ASSUME NEW x \in named PROVE b[x] = path[K(x)]
  <2>1. \E k \in variables : p[k].name = x
    OBVIOUS
  <2>2. PICK k : k = K(x)
    OBVIOUS
  <2>3. k \in variables /\ p[k].name = x
    BY <2>1, <2>2
  <2>4. k \in 1..Len(path) /\ p[k].var
    BY <1>1, <2>3
  <2> QED BY <2>2, <2>3, <2>4 DEF Bound
<1> HIDE DEF K, named
<1>6. b = [x \in named |-> path[K(x)]]
  BY <1>3, <1>4, <1>5
<1> QED BY <1>2, <1>6

\* What the tree finds for a method and the segments of a path
Found(routes, method, path, to) ==
  LET registered == Expected(routes, method, path)
  IN  IF registered = {} THEN to.endpoint = "none" ELSE to \in registered

LEMMA FindsRoute ==
  ASSUME NEW routes \in Seq(RouteSet), Unambiguous(routes),
         \A n \in DOMAIN routes : Insertable(RouteTree(SubSeq(routes, 1, n - 1)), routes[n].pattern),
         NEW method, NEW path \in Seq(STRING)
  PROVE  Found(routes, method, path, Process(RouteTree(routes), method, path))
<1>1. PICK t : t = RouteTree(routes)
  OBVIOUS
<1>2. t \in Trees /\ Grown(t, routes, Len(routes))
  BY <1>1, TreeGrown
<1>3. PICK d \in Seq(STRING) : d = SplitPath(path)
  BY SplitTyped DEF Paths
<1>4. PICK at : at = Walk(t, d)
  OBVIOUS
<1>5. at \in Places(t) /\ Walked(at, routes, d, Len(d))
  BY <1>2, <1>4, WalkedAll
<1>6. PICK leaf : leaf = <<at.node, method>>
  OBVIOUS
<1>7. PICK to : to = Process(t, method, path)
  OBVIOUS
<1>8. to = IF leaf \in DOMAIN t.endpoints
           THEN [endpoint |-> t.endpoints[leaf], bound |-> at.bound]
           ELSE [endpoint |-> "none", bound |-> <<>>]
  BY <1>3, <1>4, <1>6, <1>7 DEF Process
<1>9. PICK fitting : fitting = {k \in DOMAIN routes : routes[k].method = method /\ Matches(routes[k].pattern, d)}
  OBVIOUS
<1>10. Expected(routes, method, path) =
         {[endpoint |-> routes[k].endpoint, bound |-> Binding(routes[k].pattern, d)] : k \in fitting}
  BY <1>3, <1>9 DEF Expected
<1>11. ASSUME NEW k \in DOMAIN routes
       PROVE  /\ Matches(routes[k].pattern, d) <=> at.node = Leaf(routes[k])
              /\ Matches(routes[k].pattern, d) => at.bound = Binding(routes[k].pattern, d)
  <2>1. PICK p : p = routes[k].pattern
    OBVIOUS
  <2>2. p \in Nodes /\ Len(p) \in Nat /\ Len(p) \in 0..Len(p) /\ Len(d) \in Nat /\ DOMAIN d = 1..Len(d)
    BY <2>1, RouteIs
  <2>3. Matches(p, d) <=> Len(p) = Len(d) /\ Fits(p, d, Len(d))
    BY <2>2 DEF Matches, Fits
  <2>4. Len(p) = Len(d) => /\ at.node = NodeOf(p, Len(p)) <=> Fits(p, d, Len(d))
                           /\ at.node = NodeOf(p, Len(p)) => Bound(at.bound, p, d, Len(d))
    BY <1>5, <2>1, <2>2 DEF Walked
  <2>5. at.node = NodeOf(p, Len(p)) => Len(p) = Len(d)
    <3>1. NodeOf(p, Len(p)) # Nowhere
      BY <2>2, NowhereIs
    <3>2. Len(NodeOf(p, Len(p))) = Len(p)
      BY <2>2, NodeIs
    <3>3. at.node = Nowhere \/ Len(at.node) = Len(d)
      BY <1>5 DEF Walked
    <3> QED BY <3>1, <3>2, <3>3
  <2>6. Matches(p, d) => at.bound = Binding(p, d)
    <3>1. ASSUME Len(p) = Len(d), Bound(at.bound, p, d, Len(d)) PROVE at.bound = Binding(p, d)
      <4>1. at.bound \in Maps(Keys(t), STRING)
        BY <1>5 DEF Places
      <4>2. \A m, n \in DOMAIN p : p[m].var /\ p[n].var /\ p[m].name = p[n].name => m = n
        BY <2>1 DEF Unambiguous
      <4> QED BY <2>2, <3>1, <4>1, <4>2, BindingIs
    <3> QED BY <2>3, <2>4, <3>1
  <2> QED BY <2>1, <2>3, <2>4, <2>5, <2>6 DEF Leaf
<1>12. Len(routes) \in Nat /\ DOMAIN routes = 1..Len(routes)
  OBVIOUS
<1>13. CASE fitting = {}
  <2>1. leaf \notin DOMAIN t.endpoints
    <3>1. SUFFICES ASSUME leaf \in DOMAIN t.endpoints PROVE FALSE
      OBVIOUS
    <3>2. PICK k \in 1..Len(routes) : leaf = <<Leaf(routes[k]), routes[k].method>>
      BY <1>2, <3>1 DEF Grown
    <3>3. at.node = Leaf(routes[k]) /\ routes[k].method = method
      BY <1>6, <3>2
    <3> QED BY <1>9, <1>11, <1>12, <1>13, <3>3
  <2>2. to.endpoint = "none"
    BY <1>8, <2>1
  <2>3. Expected(routes, method, path) = {}
    BY <1>10, <1>13
  <2> QED BY <1>1, <1>7, <2>2, <2>3 DEF Found
<1>14. CASE fitting # {}
  <2>1. PICK j \in DOMAIN routes : routes[j].method = method /\ Matches(routes[j].pattern, d)
    BY <1>9, <1>14
  <2>2. at.node = Leaf(routes[j])
    BY <1>11, <2>1
  <2>3. leaf \in DOMAIN t.endpoints
    BY <1>2, <1>6, <1>12, <2>1, <2>2 DEF Grown
  <2>4. PICK k \in 1..Len(routes) : leaf = <<Leaf(routes[k]), routes[k].method>>
                                   /\ t.endpoints[leaf] = routes[k].endpoint
    BY <1>2, <2>3 DEF Grown
  <2>5. at.node = Leaf(routes[k]) /\ routes[k].method = method
    BY <1>6, <2>4
  <2>6. k \in fitting /\ at.bound = Binding(routes[k].pattern, d)
    BY <1>9, <1>11, <1>12, <2>5
  <2>7. to = [endpoint |-> routes[k].endpoint, bound |-> Binding(routes[k].pattern, d)]
    BY <1>8, <2>3, <2>4, <2>6
  <2>8. to \in Expected(routes, method, path)
    BY <1>10, <2>6, <2>7
  <2> QED BY <1>1, <1>7, <2>8 DEF Found
<1> QED BY <1>13, <1>14

LEMMA RoutesTyped == Routes \in Seq(RouteSet)
<1>1. Segment \subseteq Edges
  BY DEF Segment, Edges, Names
<1>2. Seq(Segment) \subseteq Nodes
  BY <1>1 DEF Nodes
<1>3. \A r \in [method : Methods, endpoint : STRING, pattern : Seq(Segment)] : r \in RouteSet
  BY <1>2 DEF RouteSet
<1>4. PICK R : R = [method : Methods, endpoint : STRING, pattern : Seq(Segment)]
  OBVIOUS
<1>5. Routes \in Seq(R)
  BY <1>4, RoutesAssumption
<1>6. R \subseteq RouteSet
  BY <1>3, <1>4
<1> QED BY <1>5, <1>6

\* In every state, whatever a request asks for is found in the tree as in the
\* list of routes (route_node::insert, route_node::process).
THEOREM FindsItsRoute == Spec => []Routed
<1>1. Routed
  <2>1. \A form \in Forms : Found(Routes, form.method, form.path, Process(Tree, form.method, form.path))
    BY RoutesTyped, RoutesAssumption, FindsRoute DEF Tree
  <2> QED BY <2>1 DEF Routed, Found
<1> QED BY <1>1, PTL
=============================================================================
