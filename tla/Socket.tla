------------------------------- MODULE Socket -------------------------------
(***************************************************************************)
(* Two sockets of socket.cpp and one direction between them: the writer's  *)
(* coroutine fills m_out_buffer and sends from it, the kernel carries a    *)
(* bounded number of bytes, and the reader's coroutine receives into       *)
(* m_in_buffer and reads from it.                                          *)
(***************************************************************************)
EXTENDS ByteBuffer

CONSTANTS Payloads,   \* what is written: sequences of bytes
          Requests,   \* what is read: a size, and read_fully
          LinkSize    \* bytes that the kernel holds

ASSUME SocketAssumption ==
  /\ Payloads \subseteq Seq(Nat) /\ Garbage \in Nat
  /\ Requests \subseteq [size : Nat, read_fully : BOOLEAN]
  /\ LinkSize \in Nat \ {0}

VARIABLES m_out_buffer,
          writer,       \* socket::write or flush: what src still holds
          link,         \* bytes that the kernel holds
          shut,         \* the writer's socket was shut down
          broken,       \* the connection was reset
          m_in_buffer,
          reader,       \* socket::read, read_c or skip
          sent, got     \* what entered m_out_buffer, and left m_in_buffer

outVars    == <<m_out_buffer, writer, sent>>
inVars     == <<m_in_buffer, reader, got>>
socketVars == <<outVars, link, shut, broken, inVars>>

SocketInit ==
  /\ m_out_buffer = EmptyBuffer /\ m_in_buffer = EmptyBuffer
  /\ writer = [pc |-> "idle", src |-> <<>>]
  /\ reader = [pc |-> "idle", size |-> 0, total |-> 0, read_fully |-> FALSE]
  /\ link = <<>> /\ shut = FALSE /\ broken = FALSE
  /\ sent = <<>> /\ got = <<>>

-----------------------------------------------------------------------------
(* Writing *)

\* The loop of socket::write with out for the buffer: what does not fit waits
\* for a send.
Filling(out, src) ==
  LET n == Fits(out, Len(src))
  IN  /\ m_out_buffer' = Fill(out, SubSeq(src, 1, n))
      /\ sent' = sent \o SubSeq(src, 1, n)
      /\ writer' = [pc  |-> IF n = Len(src) THEN "idle" ELSE "writing",
                    src |-> SubSeq(src, n + 1, Len(src))]

Write(src) ==
  /\ writer.pc = "idle"
  /\ Filling(m_out_buffer, src)
  /\ UNCHANGED <<link, shut, broken, inVars>>

Flush ==
  /\ writer.pc = "idle" /\ Available(m_out_buffer) > 0
  /\ writer' = [writer EXCEPT !.pc = "flushing"]
  /\ UNCHANGED <<m_out_buffer, sent, link, shut, broken, inVars>>

Sent_Fault(n) ==
  /\ writer.pc \in {"writing", "flushing"} /\ ~shut /\ ~broken
  /\ n \in 1..Smaller(ReadChunk(m_out_buffer), LinkSize - Len(link))
  /\ link' = link \o Peek(m_out_buffer, n)
  /\ LET out == IncrementRead(m_out_buffer, n)
     IN  \/ writer.pc = "writing" /\ Filling(out, writer.src)
         \/ /\ writer.pc = "flushing"
            /\ m_out_buffer' = out
            /\ writer' = [writer EXCEPT !.pc = "idle"]
            /\ UNCHANGED sent
  /\ UNCHANGED <<shut, broken, inVars>>

\* send_outgoing completes with n bytes, as many as the kernel had room for.
Sent(n) ==
  /\ writer.pc \in {"writing", "flushing"} /\ ~shut /\ ~broken
  /\ n \in 1..Smaller(ReadChunk(m_out_buffer), LinkSize - Len(link))
  /\ link' = link \o Peek(m_out_buffer, n)
  /\ LET out == IncrementRead(m_out_buffer, n)
     IN  \/ writer.pc = "writing" /\ Filling(out, writer.src)
         \/ /\ writer.pc = "flushing"
            /\ m_out_buffer' = out
            /\ writer' = IF Available(out) > 0 THEN writer ELSE [writer EXCEPT !.pc = "idle"]
            /\ UNCHANGED sent
  /\ UNCHANGED <<shut, broken, inVars>>

\* "socket write failed", "socket flush failed"
SendFails ==
  /\ writer.pc \in {"writing", "flushing"}
  /\ shut \/ broken
  /\ writer' = [writer EXCEPT !.pc = "failed"]
  /\ UNCHANGED <<m_out_buffer, sent, link, shut, broken, inVars>>

Shutdown ==
  /\ ~shut
  /\ shut' = TRUE
  /\ UNCHANGED <<outVars, link, broken, inVars>>

\* The connection is reset; what the kernel holds is lost.
Break ==
  /\ ~broken
  /\ broken' = TRUE
  /\ link' = <<>>
  /\ UNCHANGED <<outVars, shut, inVars>>

-----------------------------------------------------------------------------
(* Reading *)

Taking_Fault(in, r) ==
  LET n == Smaller(Available(in), r.size)
  IN  /\ m_in_buffer' = IncrementRead(in, n)
      /\ got' = got \o Peek(in, n)
      /\ reader' = [r EXCEPT !.size = @ - n, !.total = @ + n, !.pc = "receiving"]

\* The loop of socket::read with in for the buffer: what is missing waits for
\* a receive.
Taking(in, r) ==
  LET n == Smaller(Available(in), r.size)
  IN  /\ m_in_buffer' = IncrementRead(in, n)
      /\ got' = got \o Peek(in, n)
      /\ reader' = [r EXCEPT !.size = @ - n, !.total = @ + n,
                             !.pc = IF n = r.size THEN "idle" ELSE "receiving"]

Read(request) ==
  /\ reader.pc = "idle"
  /\ Taking(m_in_buffer, [pc |-> "idle", size |-> request.size, total |-> 0,
                          read_fully |-> request.read_fully])
  /\ UNCHANGED <<outVars, link, shut, broken>>

\* recv_incoming completes with n bytes.
Received(n) ==
  /\ reader.pc = "receiving"
  /\ n \in 1..Smaller(WriteChunk(m_in_buffer), Len(link))
  /\ Taking(Fill(m_in_buffer, SubSeq(link, 1, n)), reader)
  /\ link' = SubSeq(link, n + 1, Len(link))
  /\ UNCHANGED <<outVars, shut, broken>>

\* A receive returns 0 at the end of the stream: the read returns what it has,
\* or throws "socket closed".
EndOfStream ==
  /\ reader.pc = "receiving" /\ shut /\ link = <<>>
  /\ reader' = [reader EXCEPT !.pc = IF reader.read_fully THEN "failed" ELSE "idle"]
  /\ UNCHANGED <<outVars, link, shut, broken, m_in_buffer, got>>

ReceiveFails ==
  /\ reader.pc = "receiving" /\ broken
  /\ reader' = [reader EXCEPT !.pc = "failed"]
  /\ UNCHANGED <<outVars, link, shut, broken, m_in_buffer, got>>

Kernel == \/ \E n \in 1..LinkSize : Sent(n) \/ Received(n)
          \/ SendFails \/ EndOfStream \/ ReceiveFails

Reads == \E request \in Requests : Read(request)

SocketNext == \/ \E src \in Payloads : Write(src)
              \/ Flush \/ Reads \/ Kernel \/ Shutdown \/ Break

\* What the kernel and the reader's coroutine do in the end
SocketFairness ==
  /\ \A n \in 1..LinkSize : WF_socketVars(Sent(n)) /\ WF_socketVars(Received(n))
  /\ WF_socketVars(\E request \in Requests : request.size > 0 /\ Read(request))

SocketSpec == SocketInit /\ [][SocketNext]_socketVars

-----------------------------------------------------------------------------
(* Properties *)

\* Both rings stay within their bounds: no more unread bytes than the ring has
\* places, and positions for which get_ptr and the chunks are right.
BuffersOK == InRange(m_out_buffer) /\ InRange(m_in_buffer)

\* A send or a receive is never asked for with an empty chunk.  The kernel
\* answers 0 to those: a receive would take it for the end of the stream, and
\* a write would end with the rest of its bytes dropped.
NeverEmptyCall ==
  /\ writer.pc \in {"writing", "flushing"} => ReadChunk(m_out_buffer) > 0
  /\ reader.pc = "receiving" => WriteChunk(m_in_buffer) > 0

\* Every byte goes through once, in order and unchanged, wherever the rings go
\* round and however the kernel cuts the transfers: what was written is what
\* was read and what is under way, or what was lost with the connection.
InOrder ==
  LET under_way == Contents(m_in_buffer) \o link \o Contents(m_out_buffer)
  IN  IF broken THEN got \o Contents(m_in_buffer) = SubSeq(sent, 1, Len(got) + Available(m_in_buffer))
      ELSE sent = got \o under_way
=============================================================================
