----------------------------- MODULE ByteBuffer -----------------------------
(***************************************************************************)
(* The ring of byte_buffer.hpp.  m_start and m_end count on past the end   *)
(* of m_buffer; both are set back by BUFFER_SIZE when m_start has passed   *)
(* it.  A chunk is a place in m_buffer and a size.                         *)
(***************************************************************************)
EXTENDS Integers, Sequences

CONSTANTS BUFFER_SIZE, Garbage     \* what an unwritten place holds

ASSUME BufferSize == BUFFER_SIZE \in Nat \ {0}

Smaller(a, b) == IF a <= b THEN a ELSE b

EmptyBuffer == [m_buffer |-> [p \in 0..BUFFER_SIZE - 1 |-> Garbage], m_start |-> 0, m_end |-> 0]

Available(b) == b.m_end - b.m_start
Place(n)     == n % BUFFER_SIZE
Boundary(n)  == (n \div BUFFER_SIZE + 1) * BUFFER_SIZE

IncrementRead_Fault(b, size) == [b EXCEPT !.m_start = @ + size]

IncrementRead(b, size) ==
  LET start == b.m_start + size
      back  == IF start > BUFFER_SIZE /\ b.m_end > BUFFER_SIZE THEN BUFFER_SIZE ELSE 0
  IN  [m_buffer |-> b.m_buffer, m_start |-> start - back, m_end |-> b.m_end - back]

IncrementWrite(b, size) == [b EXCEPT !.m_end = @ + size]

\* The first of the two chunks of [from, to), where the ring goes round; the
\* second, if any, begins at the place 0.
FirstSize(from, to) == Smaller(Boundary(from), to) - from

\* The place of the k-th byte from the position "from"
PlaceOf(from, to, k) ==
  IF k <= FirstSize(from, to) THEN Place(from) + k - 1 ELSE k - FirstSize(from, to) - 1

\* get_read_chunk, get_write_chunk: what one system call fills or empties
ReadChunk(b)  == FirstSize(b.m_start, b.m_end)
WriteChunk(b) == FirstSize(b.m_end, b.m_start + BUFFER_SIZE)

\* The first n bytes of get_read_chunks
Peek(b, n) == [k \in 1..n |-> b.m_buffer[PlaceOf(b.m_start, b.m_end, k)]]

WriteEnd_Fault(b) == b.m_end + BUFFER_SIZE
WriteEnd(b) == b.m_start + BUFFER_SIZE

\* Bytes copied to the places of get_write_chunks
Fill(b, bytes) ==
  LET place(k) == PlaceOf(b.m_end, WriteEnd(b), k)
      filled   == {place(k) : k \in DOMAIN bytes}
      buffer   == [p \in 0..BUFFER_SIZE - 1 |->
                     IF p \in filled THEN bytes[CHOOSE k \in DOMAIN bytes : place(k) = p]
                     ELSE b.m_buffer[p]]
  IN  IncrementWrite([m_buffer |-> buffer, m_start |-> b.m_start, m_end |-> b.m_end],
                     Len(bytes))

\* byte_buffer::write takes what fits.
Fits(b, size) == Smaller(WriteEnd(b) - b.m_end, size)

-----------------------------------------------------------------------------
(* What the ring stands for *)

Contents(b) == [k \in 1..Available(b) |-> b.m_buffer[Place(b.m_start + k - 1)]]

InRange(b) == /\ b.m_start \in 0..BUFFER_SIZE
              /\ b.m_end \in b.m_start..b.m_start + BUFFER_SIZE
=============================================================================
