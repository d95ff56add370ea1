-------------------------- MODULE RecordLinkProofs --------------------------
(***************************************************************************)
(* Theorems about the bytes of a connection, in four parts.                *)
(*                                                                         *)
(*   The ring of ByteBuffer is a bounded sequence of bytes: what its       *)
(*   reads, writes and increments do to the sequence that it stands for,   *)
(*   for any size of the ring.                                             *)
(*                                                                         *)
(*   The stream between two sockets is exact for any size of the rings,    *)
(*   any room in the kernel and any writes and reads: the rings stay in    *)
(*   their bounds, no call is made with an empty chunk, and every byte     *)
(*   arrives once and in order.                                            *)
(*                                                                         *)
(*   output_control.cpp only writes sequences of bytes, so that the same   *)
(*   holds for the records that go over the sockets.                       *)
(*                                                                         *)
(*   A peer that takes the bytes apart finds the outputs: the writer's     *)
(*   bytes are followed through the fold of the peer, record by record.    *)
(***************************************************************************)
EXTENDS RecordLink, FoldProofs, SequenceTheorems

-----------------------------------------------------------------------------
(* The ring. *)

Ring == [m_buffer : [0..BUFFER_SIZE - 1 -> Nat], m_start : Nat, m_end : Nat]

IsRing(b) == b \in Ring /\ InRange(b)

-----------------------------------------------------------------------------
\* Positions below twice the size lie in the ring once round at most.
LEMMA PlaceCases ==
  ASSUME NEW n \in 0..2 * BUFFER_SIZE - 1
  PROVE  /\ Place(n) = (IF n < BUFFER_SIZE THEN n ELSE n - BUFFER_SIZE)
         /\ Place(n) \in 0..BUFFER_SIZE - 1
<1>1. CASE n < BUFFER_SIZE
  <2>1. n \in 0..BUFFER_SIZE - 1
    BY <1>1, BufferSize
  <2>2. n % BUFFER_SIZE = n
    BY <2>1, BufferSize
  <2>. QED  BY <1>1, <2>1, <2>2 DEF Place
<1>2. CASE ~(n < BUFFER_SIZE)
  <2>1. n \in BUFFER_SIZE..2 * BUFFER_SIZE - 1
    BY <1>2, BufferSize
  <2>2. n % BUFFER_SIZE = n - BUFFER_SIZE
    BY <2>1, BufferSize
  <2>. QED  BY <1>2, <2>1, <2>2, BufferSize DEF Place
<1>. QED  BY <1>1, <1>2

\* The boundary is the next multiple of the size.
LEMMA BoundaryCases ==
  ASSUME NEW n \in 0..2 * BUFFER_SIZE
  PROVE  /\ n < BUFFER_SIZE => Boundary(n) = BUFFER_SIZE
         /\ n >= BUFFER_SIZE /\ n < 2 * BUFFER_SIZE => Boundary(n) = 2 * BUFFER_SIZE
         /\ Boundary(n) > n /\ Boundary(n) \in Nat
<1>1. CASE n < BUFFER_SIZE
  <2>1. n \in 0..BUFFER_SIZE - 1
    BY <1>1, BufferSize
  <2>2. n \div BUFFER_SIZE = 0
    BY <2>1, BufferSize
  <2>. QED  BY <1>1, <2>2, BufferSize DEF Boundary
<1>2. CASE n >= BUFFER_SIZE /\ n < 2 * BUFFER_SIZE
  <2>1. n \in BUFFER_SIZE..2 * BUFFER_SIZE - 1
    BY <1>2, BufferSize
  <2>2. n \div BUFFER_SIZE = 1
    BY <2>1, BufferSize
  <2>. QED  BY <1>2, <2>2, BufferSize DEF Boundary
<1>3. CASE n = 2 * BUFFER_SIZE
  <2>1. (2 * BUFFER_SIZE) \div BUFFER_SIZE = 2
    BY BufferSize
  <2>. QED  BY <1>3, <2>1, BufferSize DEF Boundary
<1>. QED  BY <1>1, <1>2, <1>3, BufferSize

\* Positions less than one round apart have different places.
LEMMA PlaceInjective ==
  ASSUME NEW m \in 0..2 * BUFFER_SIZE - 1, NEW n \in 0..2 * BUFFER_SIZE - 1,
         m < n, n < m + BUFFER_SIZE
  PROVE  Place(m) # Place(n)
<1>1. /\ Place(m) = (IF m < BUFFER_SIZE THEN m ELSE m - BUFFER_SIZE)
      /\ Place(n) = (IF n < BUFFER_SIZE THEN n ELSE n - BUFFER_SIZE)
  BY PlaceCases
<1>. QED  BY <1>1, BufferSize

\* The chunks follow the ring: the k-th byte from a position is at its place.
LEMMA PlaceOfIs ==
  ASSUME NEW from \in 0..2 * BUFFER_SIZE, NEW to \in from..2 * BUFFER_SIZE,
         NEW k \in 1..to - from
  PROVE  PlaceOf(from, to, k) = Place(from + k - 1)
<1>. DEFINE x == from + k - 1
<1>1. x \in 0..2 * BUFFER_SIZE - 1 /\ from \in 0..2 * BUFFER_SIZE - 1 /\ x = from + k - 1
  BY BufferSize
<1>. HIDE DEF x
<1>2. /\ Place(from) = (IF from < BUFFER_SIZE THEN from ELSE from - BUFFER_SIZE)
      /\ Place(x) = (IF x < BUFFER_SIZE THEN x ELSE x - BUFFER_SIZE)
  BY <1>1, PlaceCases
<1>3. Boundary(from) = (IF from < BUFFER_SIZE THEN BUFFER_SIZE ELSE 2 * BUFFER_SIZE)
  BY <1>1, BoundaryCases, BufferSize
<1>4. PlaceOf(from, to, k) = Place(x)
  BY <1>1, <1>2, <1>3, BufferSize DEF PlaceOf, FirstSize, Smaller
<1>. QED  BY <1>4 DEF x

\* The first chunk is a part of what is there, and empty only if that is.
LEMMA FirstSizeBounds ==
  ASSUME NEW from \in 0..2 * BUFFER_SIZE, NEW to \in from..2 * BUFFER_SIZE
  PROVE  /\ FirstSize(from, to) \in 0..to - from
         /\ to > from => FirstSize(from, to) > 0
<1>1. Boundary(from) > from /\ Boundary(from) \in Nat
  BY BoundaryCases
<1>. QED  BY <1>1, BufferSize DEF FirstSize, Smaller

-----------------------------------------------------------------------------
(* The unread bytes are at the positions from s up to e. *)

\* Setting both positions back changes no place.
LEMMA ReadPlaces ==
  ASSUME NEW s \in 0..BUFFER_SIZE, NEW e \in s..s + BUFFER_SIZE, NEW n \in 0..e - s,
         NEW s2, NEW e2,
         IF s + n > BUFFER_SIZE /\ e > BUFFER_SIZE
           THEN s2 = s + n - BUFFER_SIZE /\ e2 = e - BUFFER_SIZE
           ELSE s2 = s + n /\ e2 = e
  PROVE  /\ s2 \in 0..BUFFER_SIZE /\ e2 \in s2..s2 + BUFFER_SIZE /\ e2 - s2 = (e - s) - n
         /\ \A k \in 1..(e - s) - n : Place(s2 + k - 1) = Place(s + (n + k) - 1)
<1>1. s2 \in 0..BUFFER_SIZE /\ e2 \in s2..s2 + BUFFER_SIZE /\ e2 - s2 = (e - s) - n
  BY BufferSize
<1>2. ASSUME NEW k \in 1..(e - s) - n
      PROVE  Place(s2 + k - 1) = Place(s + (n + k) - 1)
  <2>. DEFINE x == s2 + k - 1
              y == s + (n + k) - 1
  <2>1. /\ x \in 0..2 * BUFFER_SIZE - 1 /\ y \in 0..2 * BUFFER_SIZE - 1
        /\ x = y \/ (y >= BUFFER_SIZE /\ x = y - BUFFER_SIZE)
    BY <1>1, BufferSize
  <2>. HIDE DEF x, y
  <2>2. /\ Place(x) = (IF x < BUFFER_SIZE THEN x ELSE x - BUFFER_SIZE)
        /\ Place(y) = (IF y < BUFFER_SIZE THEN y ELSE y - BUFFER_SIZE)
    BY <2>1, PlaceCases
  <2>3. Place(x) = Place(y)
    BY <2>1, <2>2, BufferSize
  <2>. QED  BY <2>3 DEF x, y
<1>. QED  BY <1>1, <1>2

\* The places that are free, and how the chunks number them.
LEMMA FreePlaces ==
  ASSUME NEW s \in 0..BUFFER_SIZE, NEW e \in s..s + BUFFER_SIZE,
         NEW k \in 1..(s + BUFFER_SIZE) - e
  PROVE  /\ e + k - 1 \in 0..2 * BUFFER_SIZE - 1
         /\ PlaceOf(e, s + BUFFER_SIZE, k) = Place(e + k - 1)
<1>1. e + k - 1 \in 0..2 * BUFFER_SIZE - 1
  BY BufferSize
<1>2. e \in 0..2 * BUFFER_SIZE /\ s + BUFFER_SIZE \in e..2 * BUFFER_SIZE
  BY BufferSize
<1>. QED  BY <1>1, <1>2, PlaceOfIs

\* No two of them are the same ...
LEMMA FreeDistinct ==
  ASSUME NEW s \in 0..BUFFER_SIZE, NEW e \in s..s + BUFFER_SIZE,
         NEW j \in 1..(s + BUFFER_SIZE) - e, NEW k \in 1..(s + BUFFER_SIZE) - e, j < k
  PROVE  Place(e + j - 1) # Place(e + k - 1)
<1>. DEFINE x == e + j - 1
            y == e + k - 1
<1>1. /\ x \in 0..2 * BUFFER_SIZE - 1 /\ y \in 0..2 * BUFFER_SIZE - 1
      /\ x < y /\ y < x + BUFFER_SIZE
  BY BufferSize
<1>. HIDE DEF x, y
<1>2. Place(x) # Place(y)
  BY <1>1, PlaceInjective
<1>. QED  BY <1>2 DEF x, y

\* ... and none holds an unread byte.
LEMMA FreeUnread ==
  ASSUME NEW s \in 0..BUFFER_SIZE, NEW e \in s..s + BUFFER_SIZE,
         NEW i \in 1..e - s, NEW k \in 1..(s + BUFFER_SIZE) - e
  PROVE  Place(s + i - 1) # Place(e + k - 1)
<1>. DEFINE x == s + i - 1
            y == e + k - 1
<1>1. /\ x \in 0..2 * BUFFER_SIZE - 1 /\ y \in 0..2 * BUFFER_SIZE - 1
      /\ x < y /\ y < x + BUFFER_SIZE
  BY BufferSize
<1>. HIDE DEF x, y
<1>2. Place(x) # Place(y)
  BY <1>1, PlaceInjective
<1>. QED  BY <1>2 DEF x, y

\* A part of a sequence, element by element.
LEMMA Remainder ==
  ASSUME NEW s \in Seq(Nat), NEW n \in 0..Len(s)
  PROVE  /\ SubSeq(s, n + 1, Len(s)) \in Seq(Nat)
         /\ Len(SubSeq(s, n + 1, Len(s))) = Len(s) - n
         /\ \A k \in 1..Len(s) - n : SubSeq(s, n + 1, Len(s))[k] = s[n + k]
<1>1. Len(s) \in Nat /\ \A i \in n + 1..Len(s) : s[i] \in Nat
  BY LenProperties
<1>2. n + 1 \in Int /\ Len(s) \in Int
  BY <1>1
<1>3. /\ SubSeq(s, n + 1, Len(s)) \in Seq(Nat)
      /\ Len(SubSeq(s, n + 1, Len(s))) = IF n + 1 <= Len(s) THEN Len(s) - (n + 1) + 1 ELSE 0
      /\ \A i \in 1..Len(s) - (n + 1) + 1 :
           SubSeq(s, n + 1, Len(s))[i] = s[(n + 1) + i - 1]
  BY <1>1, <1>2, SubSeqProperties
<1>4. ASSUME NEW k \in 1..Len(s) - n
      PROVE  SubSeq(s, n + 1, Len(s))[k] = s[n + k]
  <2>1. k \in 1..Len(s) - (n + 1) + 1 /\ (n + 1) + k - 1 = n + k
    BY <1>1
  <2>. QED  BY <1>3, <2>1
<1>. QED  BY <1>1, <1>3, <1>4

-----------------------------------------------------------------------------
\* What a ring contains.
LEMMA ContentsAre ==
  ASSUME NEW b, IsRing(b)
  PROVE  /\ Available(b) \in 0..BUFFER_SIZE
         /\ Contents(b) \in Seq(Nat)
         /\ Len(Contents(b)) = Available(b)
         /\ \A k \in 1..Available(b) : /\ b.m_start + k - 1 \in 0..2 * BUFFER_SIZE - 1
                                       /\ Contents(b)[k] = b.m_buffer[Place(b.m_start + k - 1)]
<1>1. Available(b) \in 0..BUFFER_SIZE
  BY BufferSize DEF IsRing, InRange, Ring, Available
<1>2. \A k \in 1..Available(b) : b.m_start + k - 1 \in 0..2 * BUFFER_SIZE - 1
  BY BufferSize DEF IsRing, InRange, Ring, Available
<1>3. \A k \in 1..Available(b) : b.m_buffer[Place(b.m_start + k - 1)] \in Nat
  <2>1. \A k \in 1..Available(b) : Place(b.m_start + k - 1) \in 0..BUFFER_SIZE - 1
    BY <1>2, PlaceCases
  <2>2. \A p \in 0..BUFFER_SIZE - 1 : b.m_buffer[p] \in Nat
    BY DEF IsRing, Ring
  <2>. QED  BY <2>1, <2>2
<1>4. Contents(b) \in [1..Available(b) -> Nat]
  BY <1>3 DEF Contents
<1>5. Contents(b) \in Seq(Nat) /\ Len(Contents(b)) = Available(b)
  BY <1>1, <1>4
<1>. QED  BY <1>1, <1>2, <1>5 DEF Contents

\* A new buffer is a ring that holds nothing.
LEMMA EmptyIsRing ==
  ASSUME Garbage \in Nat
  PROVE  IsRing(EmptyBuffer) /\ Available(EmptyBuffer) = 0 /\ Contents(EmptyBuffer) = <<>>
<1>1. IsRing(EmptyBuffer)
  BY BufferSize DEF IsRing, Ring, InRange, EmptyBuffer
<1>2. Available(EmptyBuffer) = 0
  BY DEF Available, EmptyBuffer
<1>. QED  BY <1>1, <1>2, ContentsAre, EmptySeq

\* read copies the first bytes.
LEMMA PeekIs ==
  ASSUME NEW b, IsRing(b), NEW n \in 0..Available(b)
  PROVE  Peek(b, n) = SubSeq(Contents(b), 1, n)
<1>1. /\ b.m_start \in 0..2 * BUFFER_SIZE /\ b.m_end \in b.m_start..2 * BUFFER_SIZE
      /\ Available(b) = b.m_end - b.m_start /\ Available(b) \in 0..BUFFER_SIZE
  BY BufferSize DEF IsRing, InRange, Ring, Available
<1>2. \A k \in 1..n : PlaceOf(b.m_start, b.m_end, k) = Place(b.m_start + k - 1)
  <2>. SUFFICES ASSUME NEW k \in 1..n
                PROVE  PlaceOf(b.m_start, b.m_end, k) = Place(b.m_start + k - 1)
    OBVIOUS
  <2>1. k \in 1..b.m_end - b.m_start
    BY <1>1
  <2>. QED  BY <1>1, <2>1, PlaceOfIs
<1>3. Peek(b, n) = [k \in 1..n |-> Contents(b)[k]]
  <2>1. \A k \in 1..n : k \in 1..Available(b)
    BY <1>1
  <2>. QED  BY <1>2, <2>1, ContentsAre DEF Peek
<1>4. Contents(b) \in Seq(Nat) /\ Len(Contents(b)) = Available(b)
  BY ContentsAre
<1>5. \A k \in 1..n : Contents(b)[k] \in Nat
  BY <1>1, <1>4
<1>6. Peek(b, n) \in Seq(Nat) /\ Len(Peek(b, n)) = n
  <2>1. Peek(b, n) \in [1..n -> Nat]
    BY <1>3, <1>5
  <2>. QED  BY <1>1, <2>1
<1>7. /\ SubSeq(Contents(b), 1, n) \in Seq(Nat) /\ Len(SubSeq(Contents(b), 1, n)) = n
      /\ \A k \in 1..n : SubSeq(Contents(b), 1, n)[k] = Contents(b)[k]
  BY <1>1, <1>4
<1>8. \A k \in 1..Len(Peek(b, n)) : Peek(b, n)[k] = SubSeq(Contents(b), 1, n)[k]
  BY <1>3, <1>6, <1>7
<1>. QED  BY <1>6, <1>7, <1>8, SeqEqual

\* increment_read_p takes them off, wherever it sets the positions back.
LEMMA IncrementReadIs ==
  ASSUME NEW b, IsRing(b), NEW n \in 0..Available(b)
  PROVE  /\ IsRing(IncrementRead(b, n))
         /\ Available(IncrementRead(b, n)) = Available(b) - n
         /\ Contents(IncrementRead(b, n)) = SubSeq(Contents(b), n + 1, Available(b))
<1>. DEFINE c == IncrementRead(b, n)
            back == IF b.m_start + n > BUFFER_SIZE /\ b.m_end > BUFFER_SIZE
                    THEN BUFFER_SIZE ELSE 0
<1>1. /\ b.m_start \in 0..BUFFER_SIZE /\ b.m_end \in b.m_start..b.m_start + BUFFER_SIZE
      /\ b.m_buffer \in [0..BUFFER_SIZE - 1 -> Nat]
      /\ Available(b) = b.m_end - b.m_start
      /\ b = [m_buffer |-> b.m_buffer, m_start |-> b.m_start, m_end |-> b.m_end]
  BY BufferSize DEF IsRing, InRange, Ring, Available
<1>2. /\ c.m_buffer = b.m_buffer
      /\ c = [m_buffer |-> c.m_buffer, m_start |-> c.m_start, m_end |-> c.m_end]
      /\ IF b.m_start + n > BUFFER_SIZE /\ b.m_end > BUFFER_SIZE
          THEN c.m_start = b.m_start + n - BUFFER_SIZE /\ c.m_end = b.m_end - BUFFER_SIZE
          ELSE c.m_start = b.m_start + n /\ c.m_end = b.m_end
  <2>1. c = [m_buffer |-> b.m_buffer, m_start |-> (b.m_start + n) - back,
             m_end |-> b.m_end - back]
    BY Zenon DEF IncrementRead
  <2>. HIDE DEF c, back
  <2>2. c.m_buffer = b.m_buffer /\ c.m_start = (b.m_start + n) - back /\ c.m_end = b.m_end - back
    BY <2>1
  <2>3. c = [m_buffer |-> c.m_buffer, m_start |-> c.m_start, m_end |-> c.m_end]
    BY <2>1, <2>2, Zenon
  <2>4. IF b.m_start + n > BUFFER_SIZE /\ b.m_end > BUFFER_SIZE
          THEN c.m_start = b.m_start + n - BUFFER_SIZE /\ c.m_end = b.m_end - BUFFER_SIZE
          ELSE c.m_start = b.m_start + n /\ c.m_end = b.m_end
    BY <1>1, <2>2, BufferSize DEF back
  <2>. QED  BY <2>2, <2>3, <2>4
<1>. HIDE DEF c, back
<1>3. /\ c.m_start \in 0..BUFFER_SIZE /\ c.m_end \in c.m_start..c.m_start + BUFFER_SIZE
      /\ c.m_end - c.m_start = (b.m_end - b.m_start) - n
      /\ \A k \in 1..(b.m_end - b.m_start) - n :
           Place(c.m_start + k - 1) = Place(b.m_start + (n + k) - 1)
  BY <1>1, <1>2, ReadPlaces
<1>4. IsRing(c) /\ Available(c) = Available(b) - n
  BY <1>1, <1>2, <1>3, BufferSize DEF IsRing, InRange, Ring, Available
<1>5. /\ Contents(b) \in Seq(Nat) /\ Len(Contents(b)) = Available(b)
      /\ Contents(c) \in Seq(Nat) /\ Len(Contents(c)) = Available(b) - n
      /\ Available(b) \in Nat
  BY <1>4, ContentsAre
<1>6. /\ SubSeq(Contents(b), n + 1, Available(b)) \in Seq(Nat)
      /\ Len(SubSeq(Contents(b), n + 1, Available(b))) = Available(b) - n
      /\ \A k \in 1..Available(b) - n :
           SubSeq(Contents(b), n + 1, Available(b))[k] = Contents(b)[n + k]
  BY <1>5, Remainder
<1>7. ASSUME NEW k \in 1..Available(b) - n
      PROVE  Contents(c)[k] = Contents(b)[n + k]
  <2>1. n + k \in 1..Available(b) /\ k \in 1..Available(c)
    BY <1>4, <1>5
  <2>2. Contents(c)[k] = b.m_buffer[Place(c.m_start + k - 1)]
    BY <1>2, <1>4, <2>1, ContentsAre
  <2>3. Contents(b)[n + k] = b.m_buffer[Place(b.m_start + (n + k) - 1)]
    BY <2>1, ContentsAre
  <2>. QED  BY <1>1, <1>3, <2>2, <2>3
<1>8. Contents(c) = SubSeq(Contents(b), n + 1, Available(b))
  <2>1. \A k \in 1..Len(Contents(c)) :
          Contents(c)[k] = SubSeq(Contents(b), n + 1, Available(b))[k]
    BY <1>5, <1>6, <1>7
  <2>. QED  BY <1>5, <1>6, <2>1, SeqEqual
<1>. QED  BY <1>4, <1>8 DEF c

\* Bytes that fit are put behind those that are there, and disturb none.
LEMMA FillIs ==
  ASSUME NEW b, IsRing(b), NEW bytes \in Seq(Nat), Len(bytes) <= BUFFER_SIZE - Available(b)
  PROVE  /\ IsRing(Fill(b, bytes))
         /\ Available(Fill(b, bytes)) = Available(b) + Len(bytes)
         /\ Contents(Fill(b, bytes)) = Contents(b) \o bytes
<1>. DEFINE c == Fill(b, bytes)
            at(k) == PlaceOf(b.m_end, b.m_start + BUFFER_SIZE, k)
            n == Len(bytes)
<1>1. /\ b.m_start \in 0..BUFFER_SIZE /\ b.m_end \in b.m_start..b.m_start + BUFFER_SIZE
      /\ b.m_buffer \in [0..BUFFER_SIZE - 1 -> Nat]
      /\ Available(b) = b.m_end - b.m_start
      /\ b = [m_buffer |-> b.m_buffer, m_start |-> b.m_start, m_end |-> b.m_end]
  BY BufferSize DEF IsRing, InRange, Ring, Available
<1>0. n \in Nat /\ n <= (b.m_start + BUFFER_SIZE) - b.m_end /\ DOMAIN bytes = 1..n
  BY <1>1, BufferSize
<1>2. ASSUME NEW k \in 1..n
      PROVE  at(k) = Place(b.m_end + k - 1)
  <2>1. k \in 1..(b.m_start + BUFFER_SIZE) - b.m_end
    BY <1>0, <1>1, BufferSize
  <2>. QED  BY <1>1, <2>1, FreePlaces
<1>. HIDE DEF at
<1>3. ASSUME NEW j \in 1..n, NEW k \in 1..n, j < k
      PROVE  at(j) # at(k)
  <2>1. /\ j \in 1..(b.m_start + BUFFER_SIZE) - b.m_end
        /\ k \in 1..(b.m_start + BUFFER_SIZE) - b.m_end
    BY <1>0, <1>1, BufferSize
  <2>2. Place(b.m_end + j - 1) # Place(b.m_end + k - 1)
    BY <1>1, <1>3, <2>1, FreeDistinct
  <2>. QED  BY <1>2, <2>2
<1>12. \A j, k \in 1..n : at(j) = at(k) => j = k
  BY <1>0, <1>3
<1>. DEFINE filled == {at(k) : k \in DOMAIN bytes}
            new(p) == IF p \in filled THEN bytes[CHOOSE k \in DOMAIN bytes : at(k) = p]
                                      ELSE b.m_buffer[p]
<1>4. c = [m_buffer |-> [p \in 0..BUFFER_SIZE - 1 |-> new(p)],
           m_start |-> b.m_start, m_end |-> b.m_end + n]
  <2>2. c = IncrementWrite([m_buffer |-> [p \in 0..BUFFER_SIZE - 1 |-> new(p)],
                            m_start |-> b.m_start, m_end |-> b.m_end], n)
    BY Zenon DEF Fill, WriteEnd, at
  <2>. HIDE DEF c, new, filled, n
  <2>. QED  BY <2>2 DEF IncrementWrite
<1>5. \A k \in 1..n : new(at(k)) = bytes[k]
  BY <1>0, <1>12
<1>6. \A p \in 0..BUFFER_SIZE - 1 : new(p) \in Nat
  <2>1. \A p \in filled : \E k \in 1..n : p = at(k)
    BY <1>0
  <2>2. \A p \in filled : new(p) \in Nat
    BY <1>5, <2>1, ElementOfSeq
  <2>3. \A p \in 0..BUFFER_SIZE - 1 : b.m_buffer[p] \in Nat
    BY <1>1
  <2>. QED  BY <2>2, <2>3
<1>. HIDE DEF new, filled
<1>7. /\ IsRing(c) /\ Available(c) = Available(b) + n
      /\ c.m_start = b.m_start
      /\ \A p \in 0..BUFFER_SIZE - 1 : c.m_buffer[p] = new(p)
  <2>1. c \in Ring
    BY <1>0, <1>1, <1>4, <1>6 DEF Ring
  <2>2. c.m_start = b.m_start /\ c.m_end = b.m_end + n
    BY <1>4
  <2>3. \A p \in 0..BUFFER_SIZE - 1 : c.m_buffer[p] = new(p)
    BY <1>4
  <2>4. c.m_start \in 0..BUFFER_SIZE /\ c.m_end \in c.m_start..c.m_start + BUFFER_SIZE
    BY <1>0, <1>1, <2>2, BufferSize
  <2>5. c.m_end - c.m_start = (b.m_end - b.m_start) + n
    BY <1>0, <1>1, <2>2
  <2>. QED  BY <1>1, <2>1, <2>2, <2>3, <2>4, <2>5 DEF IsRing, InRange, Available
<1>. HIDE DEF c
<1>8. /\ Contents(b) \in Seq(Nat) /\ Len(Contents(b)) = Available(b)
      /\ Contents(c) \in Seq(Nat) /\ Len(Contents(c)) = Available(b) + n
      /\ \A k \in 1..Available(b) + n :
           /\ b.m_start + k - 1 \in 0..2 * BUFFER_SIZE - 1
           /\ Contents(c)[k] = new(Place(b.m_start + k - 1))
  <2>1. /\ Contents(b) \in Seq(Nat) /\ Len(Contents(b)) = Available(b)
        /\ Contents(c) \in Seq(Nat) /\ Len(Contents(c)) = Available(c)
    BY <1>7, ContentsAre
  <2>2. \A k \in 1..Available(c) :
           /\ b.m_start + k - 1 \in 0..2 * BUFFER_SIZE - 1
           /\ Contents(c)[k] = c.m_buffer[Place(b.m_start + k - 1)]
    BY <1>7, ContentsAre
  <2>3. \A k \in 1..Available(c) : Place(b.m_start + k - 1) \in 0..BUFFER_SIZE - 1
    BY <2>2, PlaceCases
  <2>. QED  BY <1>7, <2>1, <2>2, <2>3
<1>9. ASSUME NEW k \in 1..Available(b)
      PROVE  Contents(c)[k] = Contents(b)[k]
  <2>1. k \in 1..Available(b) + n /\ k \in 1..b.m_end - b.m_start
    BY <1>0, <1>1, <1>8
  <2>2. Place(b.m_start + k - 1) \notin filled
    <3>. SUFFICES ASSUME NEW j \in 1..n
                  PROVE  Place(b.m_start + k - 1) # at(j)
      BY <1>0 DEF filled
    <3>1. j \in 1..(b.m_start + BUFFER_SIZE) - b.m_end
      BY <1>0, <1>1, BufferSize
    <3>2. Place(b.m_start + k - 1) # Place(b.m_end + j - 1)
      BY <1>1, <2>1, <3>1, FreeUnread
    <3>. QED  BY <1>2, <3>2
  <2>3. Contents(b)[k] = b.m_buffer[Place(b.m_start + k - 1)]
    BY ContentsAre
  <2>. QED  BY <1>8, <2>1, <2>2, <2>3 DEF new
<1>10. ASSUME NEW k \in 1..n
       PROVE  Contents(c)[Available(b) + k] = bytes[k]
  <2>1. Available(b) + k \in 1..Available(b) + n
    BY <1>0, <1>8
  <2>2. b.m_start + (Available(b) + k) - 1 = b.m_end + k - 1
    BY <1>0, <1>1
  <2>3. Contents(c)[Available(b) + k] = new(at(k))
    BY <1>2, <1>8, <2>1, <2>2
  <2>. QED  BY <1>5, <2>3
<1>11. Contents(c) = Contents(b) \o bytes
  <2>1. /\ Contents(b) \o bytes \in Seq(Nat)
        /\ Len(Contents(b) \o bytes) = Available(b) + n
        /\ \A k \in 1..Available(b) + n : (Contents(b) \o bytes)[k] =
             IF k <= Available(b) THEN Contents(b)[k] ELSE bytes[k - Available(b)]
    BY <1>0, <1>8, ConcatProperties, SMTT(40)
  <2>2. \A k \in 1..Available(b) + n : Contents(c)[k] = (Contents(b) \o bytes)[k]
    <3>. SUFFICES ASSUME NEW k \in 1..Available(b) + n
                  PROVE  Contents(c)[k] = (Contents(b) \o bytes)[k]
      OBVIOUS
    <3>1. CASE k <= Available(b)
      BY <1>0, <1>8, <1>9, <2>1, <3>1
    <3>2. CASE ~(k <= Available(b))
      <4>1. k - Available(b) \in 1..n /\ k = Available(b) + (k - Available(b))
        BY <1>0, <1>8, <3>2
      <4>. QED  BY <1>10, <2>1, <3>2, <4>1
    <3>. QED  BY <3>1, <3>2
  <2>. QED  BY <1>8, <2>1, <2>2, SeqEqual
<1>. QED  BY <1>7, <1>11 DEF c

-----------------------------------------------------------------------------
(* The two sockets. *)

TypeInv ==
  /\ writer \in [pc : {"idle", "writing", "flushing", "failed"}, src : Seq(Nat)]
  /\ reader \in [pc : {"idle", "receiving", "failed"}, size : Nat, total : Nat,
                 read_fully : BOOLEAN]
  /\ link \in Seq(Nat) /\ sent \in Seq(Nat) /\ got \in Seq(Nat)
  /\ shut \in BOOLEAN /\ broken \in BOOLEAN

Rings == IsRing(m_out_buffer) /\ IsRing(m_in_buffer)

\* A coroutine sleeps only over a ring that gives its call something to do.
Waits ==
  /\ writer.pc = "writing" => Available(m_out_buffer) = BUFFER_SIZE
  /\ writer.pc = "flushing" => Available(m_out_buffer) > 0
  /\ reader.pc = "receiving" => Available(m_in_buffer) = 0

\* Where the bytes are, in their order; a reset loses all behind m_in_buffer.
Order ==
  /\ ~broken => sent = ((got \o Contents(m_in_buffer)) \o link) \o Contents(m_out_buffer)
  /\ broken => /\ link = <<>>
               /\ \E lost \in Seq(Nat) : sent = (got \o Contents(m_in_buffer)) \o lost

Inv == TypeInv /\ Rings /\ Waits /\ Order

-----------------------------------------------------------------------------
\* A sequence is its first n elements and the rest.
LEMMA CutAt ==
  ASSUME NEW s \in Seq(Nat), NEW n \in 0..Len(s)
  PROVE  /\ SubSeq(s, 1, n) \in Seq(Nat) /\ SubSeq(s, n + 1, Len(s)) \in Seq(Nat)
         /\ Len(SubSeq(s, 1, n)) = n
         /\ s = SubSeq(s, 1, n) \o SubSeq(s, n + 1, Len(s))
<1>1. Len(s) \in Nat /\ n \in Nat
  OBVIOUS
<1>2. 1 \in 1..Len(s) + 1 /\ n \in 1 - 1..Len(s) /\ Len(s) \in n..Len(s)
  BY <1>1
<1>3. SubSeq(s, 1, n) \o SubSeq(s, n + 1, Len(s)) = SubSeq(s, 1, Len(s))
  BY <1>2, ConcatAdjacentSubSeq
<1>4. SubSeq(s, 1, n) \in Seq(Nat) /\ Len(SubSeq(s, 1, n)) = n
  BY <1>1
<1>. QED  BY <1>3, <1>4, Remainder, SubSeqFull

\* Bytes may change hands: only their order counts.
LEMMA Joined ==
  \A x, y, z \in Seq(Nat) : (x \o y) \o z = x \o (y \o z)
OBVIOUS

\* What the loop of a write does, with its first bytes p that fit.
LEMMA FillingStep ==
  ASSUME NEW out, IsRing(out), NEW src \in Seq(Nat), sent \in Seq(Nat), Filling(out, src)
  PROVE  /\ IsRing(m_out_buffer')
         /\ writer' \in [pc : {"idle", "writing"}, src : Seq(Nat)]
         /\ writer'.pc = "writing" => Available(m_out_buffer') = BUFFER_SIZE
         /\ \E p \in Seq(Nat) : /\ sent' = sent \o p
                                /\ Contents(m_out_buffer') = Contents(out) \o p
<1>. DEFINE n == Fits(out, Len(src))
            p == SubSeq(src, 1, n)
<1>1. /\ m_out_buffer' = Fill(out, p) /\ sent' = sent \o p
      /\ writer' = [pc  |-> IF n = Len(src) THEN "idle" ELSE "writing",
                    src |-> SubSeq(src, n + 1, Len(src))]
  BY DEF Filling
<1>2. Available(out) \in 0..BUFFER_SIZE /\ Len(src) \in Nat
  BY ContentsAre
<1>3. /\ n \in 0..Len(src) /\ n <= BUFFER_SIZE - Available(out)
      /\ n # Len(src) => n = BUFFER_SIZE - Available(out)
  BY <1>2, BufferSize DEF IsRing, InRange, Ring, Available, Fits, WriteEnd, Smaller
<1>. HIDE DEF n
<1>4. p \in Seq(Nat) /\ Len(p) = n /\ SubSeq(src, n + 1, Len(src)) \in Seq(Nat)
  BY <1>3, CutAt
<1>. HIDE DEF p
<1>5. /\ IsRing(Fill(out, p)) /\ Available(Fill(out, p)) = Available(out) + Len(p)
      /\ Contents(Fill(out, p)) = Contents(out) \o p
  BY <1>3, <1>4, FillIs
<1>6. writer' \in [pc : {"idle", "writing"}, src : Seq(Nat)]
  BY <1>1, <1>4
<1>7. writer'.pc = "writing" => n # Len(src)
  BY <1>1
<1>8. writer'.pc = "writing" => Available(m_out_buffer') = BUFFER_SIZE
  BY <1>1, <1>2, <1>3, <1>4, <1>5, <1>7, BufferSize
<1>. QED  BY <1>1, <1>4, <1>5, <1>6, <1>8

\* What the loop of a read does, with the bytes p that it takes.
LEMMA TakingStep ==
  ASSUME NEW in, IsRing(in), got \in Seq(Nat),
         NEW r \in [pc : {"idle", "receiving"}, size : Nat, total : Nat, read_fully : BOOLEAN],
         Taking(in, r)
  PROVE  /\ IsRing(m_in_buffer')
         /\ reader' \in [pc : {"idle", "receiving"}, size : Nat, total : Nat,
                         read_fully : BOOLEAN]
         /\ reader'.pc = "receiving" => Available(m_in_buffer') = 0
         /\ got' \in Seq(Nat)
         /\ got' \o Contents(m_in_buffer') = got \o Contents(in)
<1>. DEFINE n == Smaller(Available(in), r.size)
            c == Contents(in)
<1>1. /\ m_in_buffer' = IncrementRead(in, n) /\ got' = got \o Peek(in, n)
      /\ reader' = [r EXCEPT !.size = @ - n, !.total = @ + n,
                             !.pc = IF n = r.size THEN "idle" ELSE "receiving"]
  BY DEF Taking
<1>2. /\ Available(in) \in 0..BUFFER_SIZE /\ c \in Seq(Nat) /\ Len(c) = Available(in)
  BY ContentsAre
<1>3. /\ n \in Nat /\ n \in 0..Available(in) /\ n <= r.size
      /\ n # r.size => n = Available(in)
  BY <1>2, BufferSize DEF Smaller
<1>. HIDE DEF n
<1>4. /\ IsRing(IncrementRead(in, n)) /\ Available(IncrementRead(in, n)) = Available(in) - n
      /\ Contents(IncrementRead(in, n)) = SubSeq(c, n + 1, Available(in))
  BY <1>3, IncrementReadIs
<1>5. Peek(in, n) = SubSeq(c, 1, n)
  BY <1>3, PeekIs
<1>. HIDE DEF c
<1>6. /\ SubSeq(c, 1, n) \in Seq(Nat) /\ SubSeq(c, n + 1, Len(c)) \in Seq(Nat)
      /\ c = SubSeq(c, 1, n) \o SubSeq(c, n + 1, Len(c))
  BY <1>2, <1>3, CutAt
<1>. DEFINE p == SubSeq(c, 1, n)
            q == SubSeq(c, n + 1, Len(c))
<1>7. p \in Seq(Nat) /\ q \in Seq(Nat) /\ c = p \o q
  BY <1>6
<1>8. got' = got \o p /\ Contents(m_in_buffer') = q
  BY <1>1, <1>2, <1>4, <1>5
<1>. HIDE DEF p, q
<1>11. (got \o p) \o q = got \o (p \o q)
  BY <1>7, Joined, Zenon
<1>13. got \o p \in Seq(Nat)
  BY <1>7, ConcatProperties
<1>12. got' \in Seq(Nat) /\ got' \o Contents(m_in_buffer') = got \o c
  BY <1>7, <1>8, <1>11, <1>13, Zenon
<1>9. reader' \in [pc : {"idle", "receiving"}, size : Nat, total : Nat, read_fully : BOOLEAN]
  <2>1. r.size - n \in Nat /\ r.total + n \in Nat
    BY <1>3
  <2>. QED  BY <1>1, <2>1
<1>10. reader'.pc = "receiving" => Available(m_in_buffer') = 0
  <2>1. reader'.pc = IF n = r.size THEN "idle" ELSE "receiving"
    BY <1>1
  <2>. QED  BY <1>1, <1>2, <1>3, <1>4, <2>1
<1>. QED  BY <1>1, <1>4, <1>9, <1>10, <1>12 DEF c

-----------------------------------------------------------------------------
(* The invariant *)

LEMMA InvInit ==
  SocketInit => Inv
<1>. SUFFICES ASSUME SocketInit PROVE Inv
  OBVIOUS
<1>1. /\ IsRing(m_out_buffer) /\ IsRing(m_in_buffer)
      /\ Contents(m_out_buffer) = <<>> /\ Contents(m_in_buffer) = <<>>
      /\ Available(m_out_buffer) = 0 /\ Available(m_in_buffer) = 0
  BY EmptyIsRing, SocketAssumption DEF SocketInit
<1>2. TypeInv
  <2>1. <<>> \in Seq(Nat) /\ 0 \in Nat
    BY EmptySeq
  <2>2. writer \in [pc : {"idle", "writing", "flushing", "failed"}, src : Seq(Nat)]
    BY <2>1 DEF SocketInit
  <2>3. reader \in [pc : {"idle", "receiving", "failed"}, size : Nat, total : Nat,
                    read_fully : BOOLEAN]
    BY <2>1 DEF SocketInit
  <2>. QED  BY <2>1, <2>2, <2>3 DEF TypeInv, SocketInit
<1>3. Rings /\ Waits
  BY <1>1 DEF Rings, Waits, SocketInit
<1>4. Order
  BY <1>1 DEF Order, SocketInit
<1>. QED  BY <1>2, <1>3, <1>4 DEF Inv

\* What every step starts from.
LEMMA Facts ==
  ASSUME Inv
  PROVE  /\ Contents(m_out_buffer) \in Seq(Nat) /\ Contents(m_in_buffer) \in Seq(Nat)
         /\ Len(Contents(m_out_buffer)) = Available(m_out_buffer)
         /\ Available(m_out_buffer) \in 0..BUFFER_SIZE
         /\ Available(m_in_buffer) \in 0..BUFFER_SIZE
         /\ got \o Contents(m_in_buffer) \in Seq(Nat)
         /\ (got \o Contents(m_in_buffer)) \o link \in Seq(Nat)
<1>1. /\ Contents(m_out_buffer) \in Seq(Nat) /\ Contents(m_in_buffer) \in Seq(Nat)
      /\ Len(Contents(m_out_buffer)) = Available(m_out_buffer)
      /\ Available(m_out_buffer) \in 0..BUFFER_SIZE
      /\ Available(m_in_buffer) \in 0..BUFFER_SIZE
  BY ContentsAre DEF Inv, Rings
<1>2. got \in Seq(Nat) /\ link \in Seq(Nat)
  BY DEF Inv, TypeInv
<1>. QED  BY <1>1, <1>2, ConcatProperties

\* The order after bytes entered the first ring, of which "out" is the state
\* before.
LEMMA OrderFilled ==
  ASSUME Inv, broken' = broken, link' = link, m_in_buffer' = m_in_buffer, got' = got,
         NEW p \in Seq(Nat), sent' = sent \o p,
         Contents(m_out_buffer') = Contents(m_out_buffer) \o p
  PROVE  Order' /\ sent' \in Seq(Nat)
<1>. DEFINE a == got \o Contents(m_in_buffer)
            o == Contents(m_out_buffer)
<1>1. a \in Seq(Nat) /\ a \o link \in Seq(Nat) /\ o \in Seq(Nat) /\ sent \in Seq(Nat)
  BY Facts DEF Inv, TypeInv
<1>2. a' = a
  OBVIOUS
<1>3. ~broken => sent' = (a \o link) \o (o \o p)
  <2>1. ~broken => sent = (a \o link) \o o
    BY DEF Inv, Order
  <2>. HIDE DEF a, o
  <2>2. ((a \o link) \o o) \o p = (a \o link) \o (o \o p)
    BY <1>1, Joined, ZenonT(60)
  <2>. QED  BY <2>1, <2>2, Zenon
<1>4. broken => link = <<>> /\ \E lost \in Seq(Nat) : sent' = a \o lost
  <2>. SUFFICES ASSUME broken PROVE link = <<>> /\ \E lost \in Seq(Nat) : sent' = a \o lost
    OBVIOUS
  <2>1. link = <<>> /\ \E lost \in Seq(Nat) : sent = a \o lost
    BY DEF Inv, Order
  <2>2. PICK lost \in Seq(Nat) : sent = a \o lost
    BY <2>1
  <2>. HIDE DEF a, o
  <2>3. lost \o p \in Seq(Nat)
    BY ConcatProperties
  <2>4. (a \o lost) \o p = a \o (lost \o p)
    BY <1>1, Joined, ZenonT(60)
  <2>5. sent' = a \o (lost \o p)
    BY <2>2, <2>4, Zenon
  <2>. QED  BY <2>1, <2>3, <2>5, Zenon
<1>5. sent' \in Seq(Nat)
  BY <1>1
<1>6. Order'
  BY <1>2, <1>3, <1>4 DEF Order
<1>. QED  BY <1>5, <1>6

-----------------------------------------------------------------------------
(* One lemma for each action *)

\* socket::write up to its first wait
LEMMA WriteInv ==
  ASSUME Inv, NEW src \in Seq(Nat), Write(src)
  PROVE  Inv'
<1>1. IsRing(m_out_buffer) /\ sent \in Seq(Nat)
  BY DEF Inv, Rings, TypeInv
<1>2. Filling(m_out_buffer, src) /\ UNCHANGED <<link, shut, broken, m_in_buffer, reader, got>>
  BY DEF Write, inVars
<1>3. /\ IsRing(m_out_buffer')
      /\ writer' \in [pc : {"idle", "writing"}, src : Seq(Nat)]
      /\ writer'.pc = "writing" => Available(m_out_buffer') = BUFFER_SIZE
      /\ \E p \in Seq(Nat) : /\ sent' = sent \o p
                             /\ Contents(m_out_buffer') = Contents(m_out_buffer) \o p
  BY <1>1, <1>2, FillingStep
<1>4. Order' /\ sent' \in Seq(Nat)
  BY <1>2, <1>3, OrderFilled
<1>5. TypeInv'
  <2>1. writer' \in [pc : {"idle", "writing", "flushing", "failed"}, src : Seq(Nat)]
    BY <1>3
  <2>. QED  BY <1>2, <1>4, <2>1 DEF Inv, TypeInv
<1>6. Rings' /\ Waits'
  <2>1. writer'.pc # "flushing"
    BY <1>3
  <2>. QED  BY <1>2, <1>3, <2>1 DEF Inv, Rings, Waits
<1>. QED  BY <1>4, <1>5, <1>6 DEF Inv

\* flush_out starts a send, if there is anything to send.
LEMMA FlushInv ==
  ASSUME Inv, Flush
  PROVE  Inv'
<1>1. /\ writer' = [writer EXCEPT !.pc = "flushing"] /\ Available(m_out_buffer) > 0
      /\ UNCHANGED <<m_out_buffer, sent, link, shut, broken, m_in_buffer, reader, got>>
  BY DEF Flush, inVars
<1>2. TypeInv'
  BY <1>1 DEF Inv, TypeInv
<1>3. Rings' /\ Order'
  BY <1>1 DEF Inv, Rings, Order
<1>4. Waits'
  <2>1. writer'.pc = "flushing"
    BY <1>1 DEF Inv, TypeInv
  <2>. QED  BY <1>1, <2>1 DEF Inv, Waits
<1>. QED  BY <1>2, <1>3, <1>4 DEF Inv

\* A send moves the first n bytes of the ring to the kernel.
LEMMA SentMoves ==
  ASSUME Inv, ~broken, NEW n \in 0..Available(m_out_buffer),
         link' = link \o Peek(m_out_buffer, n)
  PROVE  /\ IsRing(IncrementRead(m_out_buffer, n))
         /\ Available(IncrementRead(m_out_buffer, n)) = Available(m_out_buffer) - n
         /\ link' \in Seq(Nat)
         /\ sent = ((got \o Contents(m_in_buffer)) \o link')
                      \o Contents(IncrementRead(m_out_buffer, n))
<1>. DEFINE a == got \o Contents(m_in_buffer)
            o == Contents(m_out_buffer)
            p == SubSeq(o, 1, n)
            q == SubSeq(o, n + 1, Len(o))
<1>1. IsRing(m_out_buffer)
  BY DEF Inv, Rings
<1>2. /\ a \in Seq(Nat) /\ link \in Seq(Nat) /\ o \in Seq(Nat) /\ sent = (a \o link) \o o
      /\ Len(o) = Available(m_out_buffer)
  BY Facts DEF Inv, TypeInv, Order
<1>3. /\ IsRing(IncrementRead(m_out_buffer, n))
      /\ Available(IncrementRead(m_out_buffer, n)) = Available(m_out_buffer) - n
      /\ Contents(IncrementRead(m_out_buffer, n)) = q
  BY <1>1, <1>2, IncrementReadIs
<1>4. link' = link \o p
  BY <1>1, PeekIs
<1>. HIDE DEF o
<1>5. p \in Seq(Nat) /\ q \in Seq(Nat) /\ o = p \o q
  BY <1>2, CutAt
<1>. HIDE DEF a, p, q
<1>6. (a \o link) \o (p \o q) = (a \o (link \o p)) \o q
  <2>1. a \in Seq(Nat) /\ link \in Seq(Nat) /\ p \in Seq(Nat) /\ q \in Seq(Nat)
    BY <1>2, <1>5
  <2>4. a \o link \in Seq(Nat)
    BY <2>1, ConcatProperties
  <2>2. (a \o link) \o (p \o q) = ((a \o link) \o p) \o q
    BY <2>1, <2>4, Joined, Zenon
  <2>3. (a \o link) \o p = a \o (link \o p)
    BY <2>1, Joined, Zenon
  <2>. QED  BY <2>2, <2>3, Zenon
<1>7. link \o p \in Seq(Nat)
  BY <1>2, <1>5, ConcatProperties
<1>8. sent = (a \o link') \o Contents(IncrementRead(m_out_buffer, n))
  BY <1>2, <1>3, <1>4, <1>5, <1>6, Zenon
<1>. QED  BY <1>3, <1>4, <1>7, <1>8 DEF a

\* The kernel takes no more than the ring holds.
LEMMA SentFew ==
  ASSUME Inv, NEW n \in 1..LinkSize, Sent(n)
  PROVE  n \in 0..Available(m_out_buffer)
<1>0. n \in 1..Smaller(ReadChunk(m_out_buffer), LinkSize - Len(link))
  BY DEF Sent
<1>1. /\ m_out_buffer.m_start \in 0..2 * BUFFER_SIZE
      /\ m_out_buffer.m_end \in m_out_buffer.m_start..2 * BUFFER_SIZE
      /\ Available(m_out_buffer) = m_out_buffer.m_end - m_out_buffer.m_start
  BY BufferSize DEF Inv, Rings, IsRing, InRange, Ring, Available
<1>2. ReadChunk(m_out_buffer) \in 0..Available(m_out_buffer)
  BY <1>1, FirstSizeBounds DEF ReadChunk
<1>3. Len(link) \in Nat /\ LinkSize \in Nat
  BY SocketAssumption DEF Inv, TypeInv
<1>4. n <= ReadChunk(m_out_buffer)
  BY <1>0, <1>2, <1>3 DEF Smaller
<1>5. Available(m_out_buffer) \in Nat
  BY Facts
<1>. QED  BY <1>2, <1>4, <1>5

\* send_outgoing completed: a write fills the ring again, a flush goes on until
\* the ring is empty.
LEMMA SentInv ==
  ASSUME Inv, NEW n \in 1..LinkSize, Sent(n)
  PROVE  Inv'
<1>. DEFINE out == IncrementRead(m_out_buffer, n)
<1>1. /\ writer.pc \in {"writing", "flushing"} /\ ~broken
      /\ n \in 1..Smaller(ReadChunk(m_out_buffer), LinkSize - Len(link))
      /\ link' = link \o Peek(m_out_buffer, n)
      /\ UNCHANGED <<shut, broken, m_in_buffer, reader, got>>
  BY DEF Sent, inVars
<1>2. \/ writer.pc = "writing" /\ Filling(out, writer.src)
      \/ /\ writer.pc = "flushing" /\ m_out_buffer' = out /\ sent' = sent
         /\ writer' = IF Available(out) > 0 THEN writer ELSE [writer EXCEPT !.pc = "idle"]
  BY DEF Sent
<1>3. n \in 0..Available(m_out_buffer)
  BY SentFew
<1>4. /\ IsRing(out) /\ Available(out) = Available(m_out_buffer) - n
      /\ link' \in Seq(Nat)
      /\ sent = ((got \o Contents(m_in_buffer)) \o link') \o Contents(out)
  BY <1>1, <1>3, SentMoves
<1>5. /\ writer \in [pc : {"idle", "writing", "flushing", "failed"}, src : Seq(Nat)]
      /\ sent \in Seq(Nat) /\ got \o Contents(m_in_buffer) \in Seq(Nat)
      /\ Available(m_out_buffer) \in Nat
  BY Facts DEF Inv, TypeInv
<1>6. IsRing(m_in_buffer) /\ (reader.pc = "receiving" => Available(m_in_buffer) = 0)
  BY DEF Inv, Rings, Waits
<1>. HIDE DEF out
<1>7. CASE writer.pc = "writing" /\ Filling(out, writer.src)
  <2>1. writer.src \in Seq(Nat)
    BY <1>5
  <2>2. /\ IsRing(m_out_buffer')
        /\ writer' \in [pc : {"idle", "writing"}, src : Seq(Nat)]
        /\ writer'.pc = "writing" => Available(m_out_buffer') = BUFFER_SIZE
        /\ \E p \in Seq(Nat) : sent' = sent \o p /\ Contents(m_out_buffer') = Contents(out) \o p
    BY <1>4, <1>5, <1>7, <2>1, FillingStep
  <2>3. PICK p \in Seq(Nat) : sent' = sent \o p /\ Contents(m_out_buffer') = Contents(out) \o p
    BY <2>2
  <2>4. /\ sent' \in Seq(Nat)
        /\ sent' = ((got \o Contents(m_in_buffer)) \o link') \o Contents(m_out_buffer')
    <3>. DEFINE b == (got \o Contents(m_in_buffer)) \o link'
                o == Contents(out)
    <3>1. b \in Seq(Nat) /\ o \in Seq(Nat)
      BY <1>4, <1>5, ContentsAre, ConcatProperties
    <3>2. sent = b \o o
      BY <1>4
    <3>. HIDE DEF b, o
    <3>3. (b \o o) \o p = b \o (o \o p)
      BY <3>1
    <3>4. sent' \in Seq(Nat)
      BY <1>5, <2>3, ConcatProperties
    <3>5. sent' = b \o Contents(m_out_buffer')
      BY <2>3, <3>2, <3>3, Zenon DEF o
    <3>. QED  BY <3>4, <3>5 DEF b
  <2>5. TypeInv'
    <3>1. writer' \in [pc : {"idle", "writing", "flushing", "failed"}, src : Seq(Nat)]
      BY <2>2
    <3>. QED  BY <1>1, <1>4, <2>4, <3>1 DEF Inv, TypeInv
  <2>6. Rings' /\ Waits'
    <3>1. writer'.pc # "flushing"
      BY <2>2
    <3>. QED  BY <1>1, <1>6, <2>2, <3>1 DEF Rings, Waits
  <2>7. Order'
    BY <1>1, <2>4 DEF Order
  <2>. QED  BY <2>5, <2>6, <2>7 DEF Inv
<1>8. CASE /\ writer.pc = "flushing" /\ m_out_buffer' = out /\ sent' = sent
           /\ writer' = IF Available(out) > 0 THEN writer ELSE [writer EXCEPT !.pc = "idle"]
  <2>1. /\ writer' \in [pc : {"idle", "writing", "flushing", "failed"}, src : Seq(Nat)]
        /\ writer'.pc = "flushing" => Available(out) > 0
        /\ writer'.pc # "writing"
    BY <1>5, <1>8
  <2>2. TypeInv'
    BY <1>1, <1>4, <1>8, <2>1 DEF Inv, TypeInv
  <2>3. Rings' /\ Waits'
    BY <1>1, <1>4, <1>6, <1>8, <2>1 DEF Rings, Waits
  <2>4. Order'
    BY <1>1, <1>4, <1>8 DEF Order
  <2>. QED  BY <2>2, <2>3, <2>4 DEF Inv
<1>. QED  BY <1>2, <1>7, <1>8

\* A send that failed, the end of a stream and an error of a receive end the
\* coroutine; a shutdown stops later sends.
LEMMA EndsInv ==
  ASSUME Inv, SendFails \/ Shutdown \/ EndOfStream \/ ReceiveFails
  PROVE  Inv'
<1>1. CASE SendFails
  <2>1. /\ writer' = [writer EXCEPT !.pc = "failed"]
        /\ UNCHANGED <<m_out_buffer, sent, link, shut, broken, m_in_buffer, reader, got>>
    BY <1>1 DEF SendFails, inVars
  <2>2. TypeInv' /\ writer'.pc = "failed"
    BY <2>1 DEF Inv, TypeInv
  <2>3. Rings' /\ Order'
    BY <2>1 DEF Inv, Rings, Order
  <2>4. Waits'
    BY <2>1, <2>2 DEF Inv, Waits
  <2>. QED  BY <2>2, <2>3, <2>4 DEF Inv
<1>2. CASE Shutdown
  <2>1. /\ shut' = TRUE
        /\ UNCHANGED <<m_out_buffer, writer, sent, link, broken, m_in_buffer, reader, got>>
    BY <1>2 DEF Shutdown, inVars, outVars
  <2>. QED  BY <2>1 DEF Inv, TypeInv, Rings, Waits, Order
<1>3. CASE EndOfStream \/ ReceiveFails
  <2>1. /\ \E pc \in {"failed", "idle"} : reader' = [reader EXCEPT !.pc = pc]
        /\ UNCHANGED <<m_out_buffer, writer, sent, link, shut, broken, m_in_buffer, got>>
    BY <1>3 DEF EndOfStream, ReceiveFails, outVars
  <2>2. TypeInv' /\ reader'.pc # "receiving"
    BY <2>1 DEF Inv, TypeInv
  <2>3. Rings' /\ Order'
    BY <2>1 DEF Inv, Rings, Order
  <2>4. Waits'
    BY <2>1, <2>2 DEF Inv, Waits
  <2>. QED  BY <2>2, <2>3, <2>4 DEF Inv
<1>. QED  BY <1>1, <1>2, <1>3

\* A reset loses what the kernel and the first ring hold.
LEMMA BreakInv ==
  ASSUME Inv, Break
  PROVE  Inv'
<1>. DEFINE a == got \o Contents(m_in_buffer)
            o == Contents(m_out_buffer)
<1>1. /\ ~broken /\ broken' = TRUE /\ link' = <<>>
      /\ UNCHANGED <<m_out_buffer, writer, sent, shut, m_in_buffer, reader, got>>
  BY DEF Break, inVars, outVars
<1>2. /\ a \in Seq(Nat) /\ link \in Seq(Nat) /\ o \in Seq(Nat) /\ sent = (a \o link) \o o
  BY <1>1, Facts DEF Inv, TypeInv, Order
<1>3. a' = a
  BY <1>1
<1>. HIDE DEF a, o
<1>4. link \o o \in Seq(Nat)
  BY <1>2, ConcatProperties
<1>9. (a \o link) \o o = a \o (link \o o)
  BY <1>2, Joined, Zenon
<1>5. \E lost \in Seq(Nat) : sent' = a' \o lost
  BY <1>1, <1>2, <1>3, <1>4, <1>9, Zenon
<1>6. Order'
  BY <1>1, <1>5 DEF Order, a
<1>7. TypeInv'
  <2>1. <<>> \in Seq(Nat)
    BY EmptySeq
  <2>. QED  BY <1>1, <2>1 DEF Inv, TypeInv
<1>8. Rings' /\ Waits'
  BY <1>1 DEF Inv, Rings, Waits
<1>. QED  BY <1>6, <1>7, <1>8 DEF Inv

\* read, read_c and skip up to their first wait: the bytes change hands only.
LEMMA ReadInv ==
  ASSUME Inv, NEW request \in Requests, Read(request)
  PROVE  Inv'
<1>. DEFINE r == [pc |-> "idle", size |-> request.size, total |-> 0,
                  read_fully |-> request.read_fully]
<1>1. /\ Taking(m_in_buffer, r)
      /\ UNCHANGED <<m_out_buffer, writer, sent, link, shut, broken>>
  BY DEF Read, outVars
<1>2. r \in [pc : {"idle", "receiving"}, size : Nat, total : Nat, read_fully : BOOLEAN]
  BY SocketAssumption
<1>3. IsRing(m_in_buffer) /\ got \in Seq(Nat)
  BY DEF Inv, Rings, TypeInv
<1>. HIDE DEF r
<1>4. /\ IsRing(m_in_buffer')
      /\ reader' \in [pc : {"idle", "receiving"}, size : Nat, total : Nat, read_fully : BOOLEAN]
      /\ reader'.pc = "receiving" => Available(m_in_buffer') = 0
      /\ got' \in Seq(Nat)
      /\ got' \o Contents(m_in_buffer') = got \o Contents(m_in_buffer)
  BY <1>1, <1>2, <1>3, TakingStep
<1>5. TypeInv'
  <2>1. reader' \in [pc : {"idle", "receiving", "failed"}, size : Nat, total : Nat,
                     read_fully : BOOLEAN]
    BY <1>4
  <2>. QED  BY <1>1, <1>4, <2>1 DEF Inv, TypeInv
<1>6. Rings' /\ Waits'
  BY <1>1, <1>4 DEF Inv, Rings, Waits
<1>7. Order'
  BY <1>1, <1>4 DEF Inv, Order
<1>. QED  BY <1>5, <1>6, <1>7 DEF Inv

\* recv_incoming completed: its bytes leave the kernel for the ring, and the
\* read goes on.
LEMMA ReceivedInv ==
  ASSUME Inv, NEW n \in 1..LinkSize, Received(n)
  PROVE  Inv'
<1>. DEFINE p == SubSeq(link, 1, n)
            q == SubSeq(link, n + 1, Len(link))
            i == Contents(m_in_buffer)
            o == Contents(m_out_buffer)
            in == Fill(m_in_buffer, p)
<1>1. /\ reader.pc = "receiving"
      /\ n \in 1..Smaller(WriteChunk(m_in_buffer), Len(link))
      /\ Taking(in, reader) /\ link' = q
      /\ UNCHANGED <<m_out_buffer, writer, sent, shut, broken>>
  BY DEF Received, outVars
<1>2. /\ IsRing(m_in_buffer) /\ got \in Seq(Nat) /\ link \in Seq(Nat) /\ Len(link) \in Nat
      /\ i \in Seq(Nat) /\ o \in Seq(Nat)
  BY Facts DEF Inv, Rings, TypeInv
<1>3. n \in 0..Len(link) /\ n > 0 /\ n <= BUFFER_SIZE - Available(m_in_buffer)
  <2>1. /\ m_in_buffer.m_end \in 0..2 * BUFFER_SIZE
        /\ m_in_buffer.m_start + BUFFER_SIZE \in m_in_buffer.m_end..2 * BUFFER_SIZE
        /\ (m_in_buffer.m_start + BUFFER_SIZE) - m_in_buffer.m_end
             = BUFFER_SIZE - Available(m_in_buffer)
    BY <1>2, BufferSize DEF IsRing, InRange, Ring, Available
  <2>2. WriteChunk(m_in_buffer) \in 0..BUFFER_SIZE - Available(m_in_buffer)
    BY <2>1, FirstSizeBounds DEF WriteChunk
  <2>3. Available(m_in_buffer) \in Nat /\ BUFFER_SIZE \in Nat
    BY Facts, BufferSize
  <2>4. n <= WriteChunk(m_in_buffer) /\ n <= Len(link)
    BY <1>1, <1>2, <2>2, <2>3 DEF Smaller
  <2>. QED  BY <1>2, <2>2, <2>3, <2>4
<1>4. p \in Seq(Nat) /\ q \in Seq(Nat) /\ Len(p) = n /\ link = p \o q
  BY <1>2, <1>3, CutAt
<1>. HIDE DEF p, q
<1>5. IsRing(in) /\ Contents(in) = i \o p
  BY <1>2, <1>3, <1>4, FillIs
<1>6. reader \in [pc : {"idle", "receiving"}, size : Nat, total : Nat, read_fully : BOOLEAN]
  BY <1>1 DEF Inv, TypeInv
<1>. HIDE DEF in
<1>7. /\ IsRing(m_in_buffer')
      /\ reader' \in [pc : {"idle", "receiving"}, size : Nat, total : Nat, read_fully : BOOLEAN]
      /\ reader'.pc = "receiving" => Available(m_in_buffer') = 0
      /\ got' \in Seq(Nat)
      /\ got' \o Contents(m_in_buffer') = got \o Contents(in)
  BY <1>1, <1>2, <1>5, <1>6, TakingStep
<1>8. TypeInv'
  <2>1. reader' \in [pc : {"idle", "receiving", "failed"}, size : Nat, total : Nat,
                     read_fully : BOOLEAN]
    BY <1>7
  <2>. QED  BY <1>1, <1>4, <1>7, <2>1 DEF Inv, TypeInv
<1>9. Rings' /\ Waits'
  BY <1>1, <1>7 DEF Inv, Rings, Waits
\* After a reset the kernel has nothing to give.
<1>10. ~broken /\ sent = ((got \o i) \o link) \o o
  <2>1. link # <<>>
    BY <1>2, <1>3, EmptySeq
  <2>. QED  BY <2>1 DEF Inv, Order
<1>11. Order'
  <2>. DEFINE g == got' \o Contents(m_in_buffer')
              a == got \o i
  <2>. HIDE DEF i, o
  <2>1. a \in Seq(Nat)
    BY <1>2, ConcatProperties
  <2>2. g = a \o p
    <3>0. got \in Seq(Nat) /\ i \in Seq(Nat) /\ p \in Seq(Nat)
      BY <1>2, <1>4
    <3>1. (got \o i) \o p = got \o (i \o p)
      BY <3>0, Joined, Zenon
    <3>. QED  BY <1>5, <1>7, <3>1, Zenon
  <2>3. sent = (a \o (p \o q)) \o o
    BY <1>4, <1>10, Zenon
  <2>. HIDE DEF g, a
  <2>4. (a \o p) \o q = a \o (p \o q)
    BY <1>4, <2>1
  <2>5. sent = (g \o q) \o o
    BY <2>2, <2>3, <2>4, Zenon
  <2>6. o' = o
    BY <1>1 DEF o
  <2>7. sent' = (g \o link') \o Contents(m_out_buffer')
    BY <1>1, <2>5, <2>6, Zenon DEF o
  <2>. QED  BY <1>1, <1>10, <2>7 DEF Order, g
<1>. QED  BY <1>8, <1>9, <1>11 DEF Inv

-----------------------------------------------------------------------------
(* The theorems *)

\* Every step of the two sockets keeps the invariant.
LEMMA InvNext ==
  ASSUME Inv, [SocketNext]_socketVars
  PROVE  Inv'
<1>1. CASE UNCHANGED socketVars
  BY <1>1 DEF Inv, TypeInv, Rings, Waits, Order, socketVars, outVars, inVars
<1>2. CASE \E src \in Payloads : Write(src)
  <2>1. Payloads \subseteq Seq(Nat)
    BY SocketAssumption
  <2>. QED  BY <1>2, <2>1, WriteInv
<1>3. CASE Flush
  BY <1>3, FlushInv
<1>4. CASE Reads
  BY <1>4, ReadInv DEF Reads
<1>5. CASE Kernel
  <2>1. CASE \E n \in 1..LinkSize : Sent(n)
    BY <2>1, SentInv
  <2>2. CASE \E n \in 1..LinkSize : Received(n)
    BY <2>2, ReceivedInv
  <2>3. CASE SendFails \/ EndOfStream \/ ReceiveFails
    BY <2>3, EndsInv
  <2>. QED  BY <1>5, <2>1, <2>2, <2>3 DEF Kernel
<1>6. CASE Shutdown
  BY <1>6, EndsInv
<1>7. CASE Break
  BY <1>7, BreakInv
<1>. QED  BY <1>1, <1>2, <1>3, <1>4, <1>5, <1>6, <1>7 DEF SocketNext

LEMMA InvAlways == SocketSpec => []Inv
BY InvInit, InvNext, PTL DEF SocketSpec

\* The rings never hold more than they have places, and their positions never
\* leave the range for which the chunks of byte_buffer.hpp are right.
THEOREM RingsKept == SocketSpec => []BuffersOK
<1>1. Inv => BuffersOK
  BY DEF Inv, Rings, IsRing, BuffersOK
<1>. QED  BY <1>1, InvAlways, PTL

\* A coroutine that waits for the kernel has given it a chunk with room.
LEMMA InvHasRoom ==
  ASSUME Inv
  PROVE  NeverEmptyCall
<1>1. /\ IsRing(m_out_buffer) /\ IsRing(m_in_buffer) /\ BUFFER_SIZE \in Nat \ {0}
  BY BufferSize DEF Inv, Rings
<1>2. ASSUME writer.pc \in {"writing", "flushing"} PROVE ReadChunk(m_out_buffer) > 0
  <2>1. Available(m_out_buffer) > 0
    BY <1>1, <1>2 DEF Inv, Waits
  <2>2. /\ m_out_buffer.m_start \in 0..2 * BUFFER_SIZE
        /\ m_out_buffer.m_end \in m_out_buffer.m_start..2 * BUFFER_SIZE
        /\ m_out_buffer.m_end > m_out_buffer.m_start
    BY <1>1, <2>1 DEF IsRing, InRange, Ring, Available
  <2>. QED  BY <2>2, FirstSizeBounds DEF ReadChunk
<1>3. ASSUME reader.pc = "receiving" PROVE WriteChunk(m_in_buffer) > 0
  <2>1. Available(m_in_buffer) = 0
    BY <1>1, <1>3 DEF Inv, Waits
  <2>2. /\ m_in_buffer.m_end \in 0..2 * BUFFER_SIZE
        /\ m_in_buffer.m_start + BUFFER_SIZE \in m_in_buffer.m_end..2 * BUFFER_SIZE
        /\ m_in_buffer.m_start + BUFFER_SIZE > m_in_buffer.m_end
    BY <1>1, <2>1 DEF IsRing, InRange, Ring, Available
  <2>. QED  BY <2>2, FirstSizeBounds DEF WriteChunk
<1>. QED  BY <1>2, <1>3 DEF NeverEmptyCall

\* socket.cpp never sends from an empty chunk nor receives into one, so an
\* answer of 0 is always the end of the stream.
THEOREM CallsHaveRoom == SocketSpec => []NeverEmptyCall
<1>1. Inv => NeverEmptyCall
  BY InvHasRoom
<1>. QED  BY <1>1, InvAlways, PTL

\* The places of the bytes say that they are in order.
LEMMA InvInOrder ==
  ASSUME Inv
  PROVE  InOrder
<1>. DEFINE g == got
            i == Contents(m_in_buffer)
            o == Contents(m_out_buffer)
<1>1. /\ g \in Seq(Nat) /\ i \in Seq(Nat) /\ o \in Seq(Nat) /\ link \in Seq(Nat)
      /\ Len(i) = Available(m_in_buffer) /\ Len(g) \in Nat /\ Len(i) \in Nat
  BY ContentsAre, Facts DEF Inv, TypeInv, Rings
<1>2. CASE ~broken
  <2>1. sent = ((g \o i) \o link) \o o
    BY <1>1, <1>2 DEF Inv, Order
  <2>. HIDE DEF i, o, g
  <2>3. (g \o i) \o link = g \o (i \o link)
    BY <1>1, Joined, Zenon
  <2>. DEFINE m == i \o link
  <2>2. m \in Seq(Nat)
    BY <1>1, ConcatProperties
  <2>. HIDE DEF m
  <2>4. (g \o m) \o o = g \o (m \o o)
    BY <1>1, <2>2, SMTT(40)
  <2>5. sent = g \o (m \o o)
    BY <2>1, <2>3, <2>4, Zenon DEF m
  <2>. QED  BY <1>2, <2>5 DEF InOrder, g, i, o, m
<1>3. CASE broken
  <2>1. PICK lost \in Seq(Nat) : sent = (g \o i) \o lost
    BY <1>1, <1>3 DEF Inv, Order
  <2>. DEFINE a == g \o i
  <2>. HIDE DEF i, o, g
  <2>2. a \in Seq(Nat) /\ Len(a) = Len(g) + Len(i) /\ Len(a) \in Nat
    BY <1>1
  <2>. HIDE DEF a
  <2>3. SubSeq(a \o lost, 1, Len(a)) = a
    BY <2>2
  <2>4. a = SubSeq(sent, 1, Len(g) + Available(m_in_buffer))
    BY <1>1, <2>1, <2>2, <2>3 DEF a
  <2>. QED  BY <1>3, <2>4 DEF InOrder, g, i, a
<1>. QED  BY <1>2, <1>3

\* What was written is what was read and what is under way, or, after a reset,
\* begins with what was read.
THEOREM BytesInOrder == SocketSpec => []InOrder
<1>1. Inv => InOrder
  BY InvInOrder
<1>. QED  BY <1>1, InvAlways, PTL

-----------------------------------------------------------------------------
(* The records. *)

LinkInv == Inv /\ todo \in Seq(Seq(Nat))

\* The bytes of a number are numbers.
LEMMA NumbersAreBytes ==
  ASSUME NEW val \in Nat
  PROVE  write_u16_be(val) \in Seq(Nat) /\ val % U16 \in Nat
<1>1. Base \in Nat \ {0}
  BY LinkAssumption
<1>2. val \div Base \in Nat /\ val % Base \in Nat
  BY <1>1
<1>. DEFINE d == val \div Base
            u == Base * Base
<1>. HIDE DEF d
<1>3. d % Base \in Nat
  BY <1>1, <1>2 DEF d
<1>4. u \in Nat \ {0}
  BY <1>1
<1>. HIDE DEF u
<1>5. val % u \in Nat
  BY <1>4
<1>. QED  BY <1>2, <1>3, <1>5 DEF write_u16_be, U16, d, u

\* The three parts of a record are sequences of bytes.
LEMMA PartsAreBytes ==
  ASSUME NEW o \in Outputs, NEW reserved \in Nat
  PROVE  <<Serialize(RecordOf(o), reserved), o.src,
           [k \in 1..RecordOf(o).padding_len |-> 0]>> \in Seq(Seq(Nat))
<1>. DEFINE r == RecordOf(o)
<1>1. o.type \in Nat /\ o.id \in Nat /\ o.src \in Seq(Nat) /\ Len(o.src) \in Nat
  BY LinkAssumption
<1>2. r.type \in Nat /\ r.id \in Nat /\ r.content_len \in Nat /\ r.padding_len \in Nat
  <2>1. o.id % U16 \in Nat /\ Len(o.src) % U16 \in Nat
    BY <1>1, NumbersAreBytes
  <2>2. \A m \in Nat : m % 8 \in Nat
    OBVIOUS
  <2>3. Len(o.src) % 8 \in Nat
    BY <1>1, <2>2, Zenon
  <2>. QED  BY <1>1, <2>1, <2>3 DEF RecordOf, HeaderLen
<1>. HIDE DEF r
<1>3. Serialize(r, reserved) \in Seq(Nat)
  <2>1. write_u16_be(r.id) \in Seq(Nat) /\ write_u16_be(r.content_len) \in Seq(Nat)
    BY <1>2, NumbersAreBytes
  <2>2. <<Version, r.type>> \in Seq(Nat) /\ <<r.padding_len, reserved>> \in Seq(Nat)
    BY <1>2 DEF Version
  <2>. QED  BY <2>1, <2>2, ConcatProperties DEF Serialize
<1>4. [k \in 1..r.padding_len |-> 0] \in Seq(Nat)
  <2>1. [k \in 1..r.padding_len |-> 0] \in [1..r.padding_len -> Nat]
    OBVIOUS
  <2>. QED  BY <1>2, <2>1
<1>. QED  BY <1>1, <1>3, <1>4 DEF r

LEMMA LinkInvNext ==
  ASSUME LinkInv, [LinkNext]_linkVars
  PROVE  LinkInv'
<1>1. CASE UNCHANGED linkVars \/ Rest
  <2>1. UNCHANGED socketVars /\ todo' = todo
    BY <1>1 DEF linkVars, Rest
  <2>. QED  BY <2>1, InvNext DEF LinkInv
<1>2. ASSUME NEW o \in Outputs, Output(o) PROVE LinkInv'
  <2>1. UNCHANGED socketVars
    BY <1>2 DEF Output
  <2>2. PICK reserved \in {0, Base - 1} :
          todo' = <<Serialize(RecordOf(o), reserved), o.src,
                    [k \in 1..RecordOf(o).padding_len |-> 0]>>
    BY <1>2 DEF Output
  <2>3. reserved \in Nat
    BY LinkAssumption
  <2>4. todo' \in Seq(Seq(Nat))
    BY <2>2, <2>3, PartsAreBytes
  <2>. QED  BY <2>1, <2>4, InvNext DEF LinkInv
<1>3. CASE WritePart
  <2>1. todo # <<>> /\ Write(Head(todo)) /\ todo' = Tail(todo)
    BY <1>3 DEF WritePart
  <2>2. Head(todo) \in Seq(Nat) /\ Tail(todo) \in Seq(Seq(Nat))
    BY <2>1 DEF LinkInv
  <2>. QED  BY <2>1, <2>2, WriteInv DEF LinkInv
<1>4. CASE FlushAll
  BY <1>4, FlushInv DEF FlushAll, LinkInv
<1>5. CASE (Reads \/ Kernel \/ Shutdown \/ Break) /\ UNCHANGED <<outputs, todo>>
  <2>1. [SocketNext]_socketVars
    BY <1>5 DEF SocketNext
  <2>. QED  BY <1>5, <2>1, InvNext DEF LinkInv
<1>. QED  BY <1>1, <1>2, <1>3, <1>4, <1>5 DEF LinkNext

LEMMA LinkInvAlways == LinkSpec => []LinkInv
<1>1. LinkInit => LinkInv
  BY InvInit, EmptySeq DEF LinkInit, LinkInv
<1>. QED  BY <1>1, LinkInvNext, PTL DEF LinkSpec

-----------------------------------------------------------------------------
\* While records are written and read, the rings stay within their bounds.
THEOREM RecordRingsKept == LinkSpec => []BuffersOK
<1>1. LinkInv => BuffersOK
  BY DEF LinkInv, Inv, Rings, IsRing, BuffersOK
<1>. QED  BY <1>1, LinkInvAlways, PTL

\* No send and no receive of a record is made with an empty chunk.
THEOREM RecordCallsHaveRoom == LinkSpec => []NeverEmptyCall
<1>1. LinkInv => NeverEmptyCall
  BY InvHasRoom DEF LinkInv
<1>. QED  BY <1>1, LinkInvAlways, PTL

\* The bytes of the records arrive once and in their order.
THEOREM RecordBytesInOrder == LinkSpec => []InOrder
<1>1. LinkInv => InOrder
  BY InvInOrder DEF LinkInv
<1>. QED  BY <1>1, LinkInvAlways, PTL

-----------------------------------------------------------------------------
(* What the peer makes of the bytes: a fold of Eat over them. *)

Rec   == [type : Nat, id : Nat, src : Seq(Nat)]
Peer  == [at : [header : Seq(Nat), src : Seq(Nat), padding : Nat], taken : Seq(Rec)]
Start == [at |-> NoRecord, taken |-> <<>>]

\* A number of 16 bits in a header
LEMMA NumberRead ==
  ASSUME NEW x \in Seq(Nat), NEW k \in 1..(Len(x) - 1)
  PROVE  read_u16_be(x, k) \in Nat
<1>1. x[k] \in Nat /\ x[k + 1] \in Nat
  OBVIOUS
<1>2. PICK i \in Nat, j \in Nat : i = x[k] /\ j = x[k + 1]
  BY <1>1
<1>3. i * Base \in Nat
  BY LinkAssumption
<1>4. i * Base + j \in Nat
  BY <1>3
<1> QED BY <1>2, <1>4 DEF read_u16_be

LEMMA EatTyped ==
  ASSUME NEW p \in Peer, NEW byte \in Nat
  PROVE  Eat(p, byte) \in Peer
<1> DEFINE A == [header : Seq(Nat), src : Seq(Nat), padding : Nat]
<1>1. PICK at \in A : at = p.at
  BY DEF Peer
<1>0. p.taken \in Seq(Rec)
  BY DEF Peer
<1> DEFINE a == [at EXCEPT !.header = Append(@, byte)]
           b == [at EXCEPT !.src = Append(@, byte)]
           c == [at EXCEPT !.padding = @ + 1]
<1>2. a \in A /\ b \in A /\ c \in A
  <2>1. at.header \in Seq(Nat) /\ at.src \in Seq(Nat) /\ at.padding \in Nat
    OBVIOUS
  <2>2. Append(at.header, byte) \in Seq(Nat) /\ Append(at.src, byte) \in Seq(Nat) /\ at.padding + 1 \in Nat
    BY <2>1
  <2> QED BY <2>1, <2>2
<1>3. PICK q \in A :
        q = IF Len(at.header) < HeaderLen THEN a
            ELSE IF Len(at.src) < ParseHeader(at.header).content_len THEN b ELSE c
  BY <1>2
<1>4. ASSUME Len(q.header) = HeaderLen
      PROVE  [type |-> ParseHeader(q.header).type, id |-> ParseHeader(q.header).id, src |-> q.src] \in Rec
  <2>1. PICK x \in Seq(Nat) : x = q.header
    OBVIOUS
  <2>2. Len(x) = 8
    BY <1>4, <2>1 DEF HeaderLen
  <2>3. \A k \in 1..8 : x[k] \in Nat
    BY <2>1, <2>2
  <2>4. x[2] \in Nat
    BY <2>3
  <2>5. x \in Seq(Nat) /\ 3 \in 1..(Len(x) - 1)
    BY <2>1, <2>2
  <2>6. read_u16_be(x, 3) \in Nat
    BY <2>5, NumberRead
  <2>7. ParseHeader(x).type = x[2] /\ ParseHeader(x).id = read_u16_be(x, 3)
    BY DEF ParseHeader
  <2> QED BY <2>1, <2>4, <2>6, <2>7 DEF Rec
<1>5. NoRecord \in A
  BY DEF NoRecord
<1> DEFINE h == ParseHeader(q.header)
           e == [type |-> h.type, id |-> h.id, src |-> q.src]
           done == Len(q.header) = HeaderLen /\ Len(q.src) = h.content_len /\ q.padding = h.padding_len
<1>6. Eat(p, byte) = IF done THEN [at |-> NoRecord, taken |-> Append(p.taken, e)]
                     ELSE [p EXCEPT !.at = q]
  BY <1>1, <1>3 DEF Eat
<1>7. done => e \in Rec
  BY <1>4
<1> HIDE DEF e, h, done, A
<1>8. done => Append(p.taken, e) \in Seq(Rec)
  BY <1>0, <1>7
<1>9. Peer = [at : A, taken : Seq(Rec)]
  BY DEF Peer, A
<1>10. done => [at |-> NoRecord, taken |-> Append(p.taken, e)] \in Peer
  BY <1>5, <1>8, <1>9
<1>11. [p EXCEPT !.at = q] \in Peer
  BY <1>9
<1> QED BY <1>6, <1>10, <1>11

\* The peer after the bytes s
Eaten(v, s) == FoldLeft(Eat, v, s)

IsEaten(v, s, g) ==
  g = [T \in SUBSET (DOMAIN s) |-> IF T = {} THEN v ELSE Eat(g[T \ {Max(T)}], s[Max(T)])]

EatStep == [x \in Peer \X Nat |-> Eat(x[1], x[2])]

LEMMA EatenFollows ==
  ASSUME NEW v \in Peer, NEW s \in Seq(Nat)
  PROVE  /\ EatStep \in [Peer \X Nat -> Peer]
         /\ \E g : Follows(Peer, EatStep, v, s, g) /\ Eaten(v, s) = g[1..Len(s)]
         /\ Eaten(v, s) \in Peer
<1> DEFINE n == Len(s)
           h == CHOOSE g : IsEaten(v, s, g)
<1>1. EatStep \in [Peer \X Nat -> Peer]
  <2>1. \A x \in Peer, m \in Nat : Eat(x, m) \in Peer
    BY EatTyped
  <2> QED BY <2>1 DEF EatStep
<1>2. /\ n \in Nat /\ DOMAIN s = 1..n
      /\ \A T \in SUBSET (1..n) : T # {} => s[Max(T)] \in Nat /\ T \ {Max(T)} \in SUBSET (1..n)
  BY Positions
<1>3. \A x \in Peer, m \in Nat : EatStep[<<x, m>>] = Eat(x, m)
  BY DEF EatStep
<1> HIDE DEF n
<1>4. PICK g \in [SUBSET (1..n) -> Peer] : Table(EatStep, v, s, g)
  BY <1>1, TableSolved DEF n
<1>5. IsEaten(v, s, g)
  <2>1. ASSUME NEW T \in SUBSET (1..n), T # {}
        PROVE  EatStep[<<g[T \ {Max(T)}], s[Max(T)]>>] = Eat(g[T \ {Max(T)}], s[Max(T)])
    BY <1>2, <1>3, <2>1
  <2>2. g = [T \in SUBSET (1..n) |-> IF T = {} THEN v
                ELSE EatStep[<<g[T \ {Max(T)}], s[Max(T)]>>]]
    BY <1>4 DEF Table, n
  <2>3. g = [T \in SUBSET (1..n) |-> IF T = {} THEN v ELSE Eat(g[T \ {Max(T)}], s[Max(T)])]
    BY <2>1, <2>2
  <2> QED BY <1>2, <2>3 DEF IsEaten
<1>6. IsEaten(v, s, h)
  BY <1>5
<1>7. Eaten(v, s) = h[1..n]
  BY <1>2 DEF Eaten, IsEaten, FoldLeft, MapThenFoldSet
<1> HIDE DEF h
<1>8. Follows(Peer, EatStep, v, s, h)
  <2>1. ASSUME NEW T \in SUBSET (1..n), T # {}, h[T \ {Max(T)}] \in Peer
        PROVE  h[T] = EatStep[<<h[T \ {Max(T)}], s[Max(T)]>>]
    <3>1. h[T] = Eat(h[T \ {Max(T)}], s[Max(T)])
      BY <1>2, <1>6, <2>1 DEF IsEaten
    <3> QED BY <1>2, <1>3, <2>1, <3>1
  <2>2. h[{}] = v
    BY <1>6 DEF IsEaten
  <2> QED BY <2>1, <2>2 DEF Follows, n
<1>9. h[1..n] \in Peer
  BY <1>1, <1>8, FollowsIn DEF n
<1> QED BY <1>1, <1>7, <1>8, <1>9 DEF n

LEMMA EatenAppend ==
  ASSUME NEW v \in Peer, NEW s \in Seq(Nat), NEW m \in Nat
  PROVE  Eaten(v, Append(s, m)) = Eat(Eaten(v, s), m)
<1>1. PICK g : Follows(Peer, EatStep, v, s, g) /\ Eaten(v, s) = g[1..Len(s)]
  BY EatenFollows
<1>2. PICK t : t = Append(s, m)
  OBVIOUS
<1>3. t \in Seq(Nat) /\ Len(t) = Len(s) + 1
  BY <1>2
<1>4. PICK h : Follows(Peer, EatStep, v, t, h) /\ Eaten(v, t) = h[1..Len(t)]
  BY <1>3, EatenFollows
<1>5. StepsOnce(Peer, EatStep, g, Len(s), h, m)
  <2>1. Follows(Peer, EatStep, v, Append(s, m), h)
    BY <1>2, <1>4
  <2>2. Follows(Peer, EatStep, v, s, g)
    BY <1>1
  <2>3. EatStep \in [Peer \X Nat -> Peer]
    BY EatenFollows
  <2> QED BY <2>1, <2>2, <2>3, TableAppends
<1>6. \A x \in Peer : EatStep[<<x, m>>] = Eat(x, m)
  BY DEF EatStep
<1> QED BY <1>1, <1>2, <1>3, <1>4, <1>5, <1>6 DEF StepsOnce

LEMMA EatenEmpty ==
  ASSUME NEW v \in Peer
  PROVE  Eaten(v, <<>>) = v
<1>1. <<>> \in Seq(Nat)
  OBVIOUS
<1>2. PICK g : Follows(Peer, EatStep, v, <<>>, g) /\ Eaten(v, <<>>) = g[1..Len(<<>>)]
  BY <1>1, EatenFollows
<1> QED BY <1>2, FollowsNone

\* What the peer has taken apart only grows.
LEMMA StartIsPeer == Start \in Peer
<1>1. <<>> \in Seq(Nat) /\ <<>> \in Seq(Rec)
  OBVIOUS
<1> QED BY <1>1 DEF Start, Peer, NoRecord

LEMMA EatGrows ==
  ASSUME NEW p \in Peer, NEW byte \in Nat
  PROVE  Longer(p.taken, Eat(p, byte).taken)
<1>1. PICK t \in Seq(Rec) : t = p.taken
  BY DEF Peer
<1>2. Eat(p, byte).taken = t \/ \E e : Eat(p, byte).taken = Append(t, e)
  <2>1. \E q, e : \/ Eat(p, byte) = [at |-> NoRecord, taken |-> Append(p.taken, e)]
                  \/ Eat(p, byte) = [p EXCEPT !.at = q]
    BY DEF Eat
  <2>2. \A q : [p EXCEPT !.at = q].taken = p.taken
    BY DEF Peer
  <2>3. \A a, u : [at |-> a, taken |-> u].taken = u
    OBVIOUS
  <2>4. PICK q, e : \/ Eat(p, byte) = [at |-> NoRecord, taken |-> Append(p.taken, e)]
                   \/ Eat(p, byte) = [p EXCEPT !.at = q]
    BY <2>1
  <2>5. Eat(p, byte).taken = Append(t, e) \/ Eat(p, byte).taken = t
    <3>1. CASE Eat(p, byte) = [at |-> NoRecord, taken |-> Append(p.taken, e)]
      <4>1. Eat(p, byte).taken = Append(p.taken, e)
        BY <3>1, <2>3, Zenon
      <4> QED BY <1>1, <4>1, Zenon
    <3>2. CASE Eat(p, byte) = [p EXCEPT !.at = q]
      BY <1>1, <2>2, <3>2, Zenon
    <3> QED BY <2>4, <3>1, <3>2
  <2> QED BY <2>5
<1>3. Len(t) \in Nat
  BY <1>1
<1>4. Eat(p, byte) \in Peer
  BY EatTyped
<1>5. PICK u \in Seq(Rec) : u = Eat(p, byte).taken
  BY <1>4 DEF Peer
<1>6. ASSUME NEW e, u = Append(t, e) PROVE Len(t) <= Len(u) /\ \A k \in 1..Len(t) : t[k] = u[k]
  BY <1>1, <1>6
<1>7. Len(t) <= Len(u) /\ \A k \in 1..Len(t) : t[k] = u[k]
  BY <1>2, <1>3, <1>5, <1>6
<1> QED BY <1>1, <1>5, <1>7 DEF Longer

\* One byte after another
LEMMA NextByte ==
  ASSUME NEW b \in Seq(Nat), NEW c \in Seq(Nat), NEW k \in 0..(Len(c) - 1)
  PROVE  /\ b \o SubSeq(c, 1, k) \in Seq(Nat) /\ c[k + 1] \in Nat
         /\ Eaten(Start, b \o SubSeq(c, 1, k)) \in Peer
         /\ Eaten(Start, b \o SubSeq(c, 1, k + 1)) = Eat(Eaten(Start, b \o SubSeq(c, 1, k)), c[k + 1])
<1>1. PICK x : x = SubSeq(c, 1, k)
  OBVIOUS
<1>2. PICK e : e = c[k + 1]
  OBVIOUS
<1>3. x \in Seq(Nat) /\ e \in Nat /\ SubSeq(c, 1, k + 1) = Append(x, e)
  BY <1>1, <1>2, FrontGrows
<1>4. PICK y : y = b \o x
  OBVIOUS
<1>5. y \in Seq(Nat) /\ b \o Append(x, e) = Append(y, e)
  <2>1. PICK z : z = <<e>>
    OBVIOUS
  <2>2. z \in Seq(Nat)
    BY <1>3, <2>1
  <2>3. Append(x, e) = x \o z /\ Append(y, e) = y \o z /\ y \in Seq(Nat)
    BY <1>3, <1>4, <2>1, AppendIsConcat, ConcatProperties
  <2>4. (b \o x) \o z = b \o (x \o z)
    BY <1>3, <2>2, Joined
  <2> QED BY <1>4, <2>3, <2>4
<1>6. Eaten(Start, y) \in Peer
  BY <1>5, StartIsPeer, EatenFollows
<1>7. Eaten(Start, Append(y, e)) = Eat(Eaten(Start, y), e)
  BY <1>3, <1>5, StartIsPeer, EatenAppend
<1> QED BY <1>1, <1>2, <1>3, <1>4, <1>5, <1>6, <1>7

LEMMA EatenGrows ==
  ASSUME NEW b \in Seq(Nat), NEW c \in Seq(Nat)
  PROVE  Longer(Eaten(Start, b).taken, Eaten(Start, b \o c).taken)
<1> DEFINE P(k) == Eaten(Start, b \o SubSeq(c, 1, k))
           Good == {k \in 0..Len(c) : Longer(Eaten(Start, b).taken, P(k).taken)}
<1>1. PICK n \in Nat : n = Len(c)
  OBVIOUS
<1>2. SubSeq(c, 1, 0) = <<>> /\ SubSeq(c, 1, n) = c /\ b \o <<>> = b
  BY <1>1
<1>3. 0 \in Good
  <2>1. P(0) = Eaten(Start, b)
    BY <1>2
  <2>2. Len(Eaten(Start, b).taken) \in Nat
    <3>1. Eaten(Start, b) \in Peer
      BY StartIsPeer, EatenFollows
    <3> QED BY <3>1 DEF Peer
  <2> HIDE DEF P
  <2> QED BY <1>1, <2>1, <2>2 DEF Longer
<1>4. ASSUME NEW k \in 0..(n - 1), k \in Good PROVE k + 1 \in Good
  <2>1. PICK byte : byte = c[k + 1]
    OBVIOUS
  <2>2. k \in 0..(Len(c) - 1)
    BY <1>1
  <2>3. P(k) \in Peer /\ byte \in Nat /\ P(k + 1) = Eat(P(k), byte)
    BY <2>1, <2>2, NextByte
  <2>4. Longer(Eaten(Start, b).taken, P(k).taken)
    BY <1>4
  <2> HIDE DEF P
  <2>5. Longer(P(k).taken, P(k + 1).taken)
    BY <2>3, EatGrows
  <2>6. Len(Eaten(Start, b).taken) \in Nat /\ Len(P(k).taken) \in Nat /\ Len(P(k + 1).taken) \in Nat
    <3>1. P(k + 1) \in Peer
      BY <2>3, EatTyped
    <3>2. Eaten(Start, b) \in Peer
      BY StartIsPeer, EatenFollows
    <3> QED BY <2>3, <3>1, <3>2 DEF Peer
  <2>7. Longer(Eaten(Start, b).taken, P(k + 1).taken)
    BY <2>4, <2>5, <2>6 DEF Longer
  <2> QED BY <1>1, <2>7
<1> HIDE DEF Good
<1>5. n \in Good
  BY <1>3, <1>4, UpTo
<1> QED BY <1>1, <1>2, <1>5 DEF Good

-----------------------------------------------------------------------------
(* The bytes of one record. *)

\* Both bytes of a number of 16 bits
LEMMA NumberKept ==
  ASSUME NEW val \in 0..(Base * Base - 1)
  PROVE  \E i, j \in Nat : write_u16_be(val) = <<i, j>> /\ i * Base + j = val
<1>1. Base \in Nat \ {0} /\ val \in Nat /\ val < Base * Base
  BY LinkAssumption
<1>2. PICK q \in Nat, r \in 0..(Base - 1) : q = val \div Base /\ r = val % Base /\ val = Base * q + r
  BY <1>1
<1>3. q < Base
  <2>1. ASSUME q >= Base PROVE FALSE
    <3>1. Base * q >= Base * Base
      BY <1>1, <1>2, <2>1
    <3> QED BY <1>1, <1>2, <3>1
  <2> QED BY <1>1, <1>2, <2>1
<1>4. q % Base = q
  BY <1>1, <1>2, <1>3
<1>5. write_u16_be(val) = <<q, r>>
  <2>1. (val \div Base) % Base = q
    BY <1>2, <1>4
  <2> QED BY <1>2, <2>1, Zenon DEF write_u16_be
<1>6. q * Base + r = val
  BY <1>1, <1>2
<1>7. q \in Nat /\ r \in Nat
  BY <1>1, <1>2
<1> QED BY <1>5, <1>6, <1>7

EndsWith(x, a, p, q) ==
  /\ x \in Seq(Nat) /\ Len(x) = Len(a) + 2
  /\ x[Len(a) + 1] = p /\ x[Len(a) + 2] = q
  /\ \A k \in 1..Len(a) : x[k] = a[k]

LEMMA PairJoined ==
  ASSUME NEW a \in Seq(Nat), NEW p \in Nat, NEW q \in Nat
  PROVE  EndsWith(a \o <<p, q>>, a, p, q)
<1>9. PICK x : x = a \o <<p, q>>
  OBVIOUS
<1>0. <<p, q>> \in Seq(Nat)
  OBVIOUS
<1>1. PICK b \in Seq(Nat) : b = <<p, q>>
  BY <1>0
<1>2. Len(b) = 2 /\ b[1] = p /\ b[2] = q
  BY <1>1
<1>3. x = a \o b
  BY <1>1, <1>9
<1>4. PICK n \in Nat : n = Len(a)
  OBVIOUS
<1>5. x \in Seq(Nat) /\ Len(x) = n + 2 /\ \A k \in 1..(n + 2) : x[k] = IF k <= n THEN a[k] ELSE b[k - n]
  BY <1>1, <1>2, <1>3, <1>4, ConcatProperties
<1>6. n + 1 \in 1..(n + 2) /\ n + 2 \in 1..(n + 2) /\ (n + 1) - n = 1 /\ (n + 2) - n = 2
      /\ ~(n + 1 <= n) /\ ~(n + 2 <= n)
  BY <1>4
<1>7. x[n + 1] = b[1] /\ x[n + 2] = b[2]
  BY <1>5, <1>6
<1>8. \A k \in 1..n : x[k] = a[k]
  BY <1>4, <1>5
<1> QED BY <1>2, <1>4, <1>5, <1>7, <1>8, <1>9 DEF EndsWith

HoldsBytes(w, a2, b1, b2, c1, c2, d1) ==
  /\ w \in Seq(Nat) /\ Len(w) = 8
  /\ w[2] = a2 /\ w[3] = b1 /\ w[4] = b2 /\ w[5] = c1 /\ w[6] = c2 /\ w[7] = d1

LEMMA PairsJoined ==
  ASSUME NEW a1 \in Nat, NEW a2 \in Nat, NEW b1 \in Nat, NEW b2 \in Nat,
         NEW c1 \in Nat, NEW c2 \in Nat, NEW d1 \in Nat, NEW d2 \in Nat
  PROVE  HoldsBytes(<<a1, a2>> \o <<b1, b2>> \o <<c1, c2>> \o <<d1, d2>>, a2, b1, b2, c1, c2, d1)
<1>11. PICK w : w = <<a1, a2>> \o <<b1, b2>> \o <<c1, c2>> \o <<d1, d2>>
  OBVIOUS
<1>0. <<a1, a2>> \in Seq(Nat)
  OBVIOUS
<1>1. PICK a \in Seq(Nat) : a = <<a1, a2>>
  BY <1>0
<1>2. Len(a) = 2 /\ a[2] = a2
  BY <1>1
<1>3. PICK x : x = a \o <<b1, b2>>
  OBVIOUS
<1>4. x \in Seq(Nat) /\ Len(x) = 2 + 2 /\ x[2 + 1] = b1 /\ x[2 + 2] = b2 /\ \A k \in 1..2 : x[k] = a[k]
  <2>1. EndsWith(x, a, b1, b2)
    BY <1>1, <1>3, PairJoined
  <2> QED BY <1>2, <2>1 DEF EndsWith
<1>5. Len(x) = 4 /\ x[2] = a2 /\ x[3] = b1 /\ x[4] = b2
  BY <1>2, <1>4
<1>6. PICK y : y = x \o <<c1, c2>>
  OBVIOUS
<1>7. y \in Seq(Nat) /\ Len(y) = 4 + 2 /\ y[4 + 1] = c1 /\ y[4 + 2] = c2 /\ \A k \in 1..4 : y[k] = x[k]
  <2>1. x \in Seq(Nat)
    BY <1>4
  <2>2. EndsWith(y, x, c1, c2)
    BY <1>6, <2>1, PairJoined
  <2> QED BY <1>5, <2>2 DEF EndsWith
<1>8. Len(y) = 6 /\ y[2] = a2 /\ y[3] = b1 /\ y[4] = b2 /\ y[5] = c1 /\ y[6] = c2
  BY <1>5, <1>7
<1>9. w = y \o <<d1, d2>>
  BY <1>1, <1>3, <1>6, <1>11
<1>10. w \in Seq(Nat) /\ Len(w) = 6 + 2 /\ w[6 + 1] = d1 /\ w[6 + 2] = d2 /\ \A k \in 1..6 : w[k] = y[k]
  <2>1. y \in Seq(Nat)
    BY <1>7
  <2>2. EndsWith(w, y, d1, d2)
    BY <1>9, <2>1, PairJoined
  <2> QED BY <1>8, <2>2 DEF EndsWith
<1> QED BY <1>8, <1>10, <1>11 DEF HoldsBytes

\* A peer that has the header knows what was announced.
LEMMA HeaderRead ==
  ASSUME NEW o \in Outputs, NEW reserved \in Nat, Len(o.src) < U16, NEW w,
         w = Serialize(RecordOf(o), reserved)
  PROVE  /\ w \in Seq(Nat) /\ Len(w) = 8
         /\ ParseHeader(w) = [type |-> o.type, id |-> o.id, content_len |-> Len(o.src),
                              padding_len |-> Len(o.src) % 8]
<1>1. o.type \in Nat /\ o.id \in 0..(Base * Base - 1) /\ o.src \in Seq(Nat) /\ Len(o.src) \in Nat
  BY LinkAssumption
<1>2. PICK u \in Nat \ {0} : u = Base * Base
  <2>1. Base * Base \in Nat \ {0}
    BY LinkAssumption
  <2> QED BY <2>1
<1>3. PICK n \in Nat, p \in Nat : n = Len(o.src) /\ p = n % 8
  <2>1. \A m \in Nat : m % 8 \in Nat
    OBVIOUS
  <2> QED BY <1>1, <2>1
<1>4. n \in 0..(Base * Base - 1) /\ n % u = n /\ o.id % u = o.id
  <2>1. n < u /\ o.id \in 0..(u - 1)
    BY <1>1, <1>2, <1>3 DEF U16
  <2> QED BY <1>2, <2>1
<1>5. RecordOf(o) = [type |-> o.type, id |-> o.id, content_len |-> n, padding_len |-> p]
  BY <1>2, <1>3, <1>4 DEF RecordOf, U16, HeaderLen
<1>6. PICK b1 \in Nat, b2 \in Nat : write_u16_be(o.id) = <<b1, b2>> /\ b1 * Base + b2 = o.id
  <2>1. o.id \in 0..(Base * Base - 1)
    BY <1>1
  <2> QED BY <2>1, NumberKept
<1>7. PICK c1 \in Nat, c2 \in Nat : write_u16_be(n) = <<c1, c2>> /\ c1 * Base + c2 = n
  <2>1. n \in 0..(Base * Base - 1)
    BY <1>4
  <2> QED BY <2>1, NumberKept
<1>8. /\ write_u16_be(o.id) = <<b1, b2>> /\ b1 * Base + b2 = o.id
      /\ write_u16_be(n) = <<c1, c2>> /\ c1 * Base + c2 = n
  BY <1>6, <1>7
<1>9. w = <<1, o.type>> \o <<b1, b2>> \o <<c1, c2>> \o <<p, reserved>>
  <2>1. PICK r : r = RecordOf(o)
    OBVIOUS
  <2>2. r.type = o.type /\ r.id = o.id /\ r.content_len = n /\ r.padding_len = p
    BY <1>5, <2>1
  <2>3. w = <<1, r.type>> \o write_u16_be(r.id) \o write_u16_be(r.content_len) \o <<r.padding_len, reserved>>
    BY <2>1, Zenon DEF Serialize, Version
  <2> QED BY <1>8, <2>2, <2>3, Zenon
<1>10. /\ w \in Seq(Nat) /\ Len(w) = 8
       /\ w[2] = o.type /\ w[3] = b1 /\ w[4] = b2 /\ w[5] = c1 /\ w[6] = c2 /\ w[7] = p
  <2>1. 1 \in Nat /\ o.type \in Nat
    BY <1>1
  <2>2. b1 \in Nat /\ b2 \in Nat /\ c1 \in Nat /\ c2 \in Nat /\ p \in Nat
    BY <1>3, <1>6, <1>7
  <2>3. HoldsBytes(w, o.type, b1, b2, c1, c2, p)
    <3>1. \A a1, a2, x1, x2, y1, y2, d1, d2 \in Nat :
            HoldsBytes(<<a1, a2>> \o <<x1, x2>> \o <<y1, y2>> \o <<d1, d2>>, a2, x1, x2, y1, y2, d1)
      BY PairsJoined
    <3>2. HoldsBytes(<<1, o.type>> \o <<b1, b2>> \o <<c1, c2>> \o <<p, reserved>>, o.type, b1, b2, c1, c2, p)
      BY <2>1, <2>2, <3>1
    <3> QED BY <1>9, <3>2, Zenon
  <2> QED BY <2>3 DEF HoldsBytes
<1>11. read_u16_be(w, 3) = o.id /\ read_u16_be(w, 5) = n
  BY <1>8, <1>10 DEF read_u16_be
<1> QED BY <1>3, <1>10, <1>11 DEF ParseHeader

\* The peer with this much of a record, after the outputs t
At(h, s, n, t) == [at |-> [header |-> h, src |-> s, padding |-> n], taken |-> t]

Announces(w, o) ==
  /\ w \in Seq(Nat) /\ Len(w) = 8
  /\ ParseHeader(w) = [type |-> o.type, id |-> o.id, content_len |-> Len(o.src),
                       padding_len |-> Len(o.src) % 8]

Complete(g, r, m) ==
  Len(g) = 8 /\ Len(r) = ParseHeader(g).content_len /\ m = ParseHeader(g).padding_len

Parsed(g, r) == [type |-> ParseHeader(g).type, id |-> ParseHeader(g).id, src |-> r]

\* What it has with one byte more, and what it makes of that
Holds(h, s, n, byte, g, r, m) ==
  \/ Len(h) < 8 /\ g = Append(h, byte) /\ r = s /\ m = n
  \/ ~(Len(h) < 8) /\ Len(s) < ParseHeader(h).content_len
       /\ g = h /\ r = Append(s, byte) /\ m = n
  \/ ~(Len(h) < 8) /\ ~(Len(s) < ParseHeader(h).content_len)
       /\ g = h /\ r = s /\ m = n + 1

Goes(h, s, n, t, byte, g, r, m) ==
  Eat(At(h, s, n, t), byte) =
    IF Complete(g, r, m) THEN At(<<>>, <<>>, 0, Append(t, Parsed(g, r))) ELSE At(g, r, m, t)

LEMMA EatAt ==
  ASSUME NEW h, NEW s, NEW n, NEW t, NEW byte, NEW g, NEW r, NEW m,
         Holds(h, s, n, byte, g, r, m)
  PROVE  Goes(h, s, n, t, byte, g, r, m)
<1>1. PICK p : p = At(h, s, n, t)
  OBVIOUS
<1>2. PICK at : at = [header |-> h, src |-> s, padding |-> n]
  OBVIOUS
<1>3. p.at = at /\ p.taken = t /\ at.header = h /\ at.src = s /\ at.padding = n
  BY <1>1, <1>2 DEF At
<1>4. PICK q : q = IF Len(h) < 8 THEN [at EXCEPT !.header = Append(@, byte)]
                   ELSE IF Len(s) < ParseHeader(h).content_len THEN [at EXCEPT !.src = Append(@, byte)]
                   ELSE [at EXCEPT !.padding = @ + 1]
  OBVIOUS
<1>5. q = [header |-> g, src |-> r, padding |-> m]
  <2>1. [at EXCEPT !.header = Append(@, byte)] = [header |-> Append(h, byte), src |-> s, padding |-> n]
    BY <1>2
  <2>2. [at EXCEPT !.src = Append(@, byte)] = [header |-> h, src |-> Append(s, byte), padding |-> n]
    BY <1>2
  <2>3. [at EXCEPT !.padding = @ + 1] = [header |-> h, src |-> s, padding |-> n + 1]
    <3>1. PICK e : e = n + 1
      OBVIOUS
    <3>2. [at EXCEPT !.padding = e] = [header |-> h, src |-> s, padding |-> e]
      BY <1>2
    <3> QED BY <1>3, <3>1, <3>2, Zenon
  <2> QED BY <1>4, <2>1, <2>2, <2>3, Zenon DEF Holds
<1>6. q.header = g /\ q.src = r /\ q.padding = m
  BY <1>5
<1>7. Eat(p, byte) =
        IF Len(q.header) = 8 /\ Len(q.src) = ParseHeader(q.header).content_len
             /\ q.padding = ParseHeader(q.header).padding_len
        THEN [at |-> NoRecord,
              taken |-> Append(p.taken, [type |-> ParseHeader(q.header).type,
                                         id |-> ParseHeader(q.header).id, src |-> q.src])]
        ELSE [p EXCEPT !.at = q]
  BY <1>3, <1>4, Zenon DEF Eat, HeaderLen
<1>8. [p EXCEPT !.at = q] = At(g, r, m, t)
  BY <1>1, <1>5 DEF At
<1>9. \A u : [at |-> NoRecord, taken |-> u] = At(<<>>, <<>>, 0, u)
  BY DEF NoRecord, At
<1>10. Eat(p, byte) = IF Complete(g, r, m) THEN [at |-> NoRecord, taken |-> Append(t, Parsed(g, r))]
                      ELSE At(g, r, m, t)
  BY <1>3, <1>6, <1>7, <1>8, Zenon DEF Complete, Parsed
<1> QED BY <1>1, <1>9, <1>10, Zenon DEF Goes

\* Another byte of the header, of the content, of the padding
LEMMA EatHeader ==
  ASSUME NEW o \in Outputs, NEW w, Announces(w, o), NEW t, NEW k \in 0..7
  PROVE  Eat(At(SubSeq(w, 1, k), <<>>, 0, t), w[k + 1]) =
           IF k = 7 /\ Len(o.src) = 0 THEN At(<<>>, <<>>, 0, Append(t, o))
           ELSE At(SubSeq(w, 1, k + 1), <<>>, 0, t)
<1>1. PICK h, g, byte : h = SubSeq(w, 1, k) /\ g = SubSeq(w, 1, k + 1) /\ byte = w[k + 1]
  OBVIOUS
<1>2. w \in Seq(Nat) /\ Len(w) = 8
  BY DEF Announces
<1>3. h \in Seq(Nat) /\ Len(h) = k /\ g = Append(h, byte) /\ Len(g) = k + 1
  <2>1. k \in 0..(Len(w) - 1)
    BY <1>2
  <2>2. h \in Seq(Nat) /\ byte \in Nat /\ Len(h) = k /\ g = Append(h, byte)
    BY <1>1, <1>2, <2>1, FrontGrows
  <2> QED BY <2>2
<1>4. Eat(At(h, <<>>, 0, t), byte) =
        IF Complete(g, <<>>, 0) THEN At(<<>>, <<>>, 0, Append(t, Parsed(g, <<>>))) ELSE At(g, <<>>, 0, t)
  <2>1. Len(h) < 8 /\ g = Append(h, byte)
    BY <1>3
  <2>2. Holds(h, <<>>, 0, byte, g, <<>>, 0)
    BY <2>1 DEF Holds
  <2> QED BY <2>2, EatAt DEF Goes
<1>5. o.type \in Nat /\ o.src \in Seq(Nat) /\ Len(o.src) \in Nat /\ o = [type |-> o.type, id |-> o.id, src |-> o.src]
  BY LinkAssumption
<1>6. CASE k # 7
  <2>1. Len(g) # 8
    BY <1>3, <1>6
  <2> QED BY <1>1, <1>4, <1>6, <2>1, Zenon DEF Complete
<1>7. CASE k = 7
  <2>1. g = w
    BY <1>1, <1>2, <1>7, FrontEnds
  <2>2. /\ ParseHeader(g).type = o.type /\ ParseHeader(g).id = o.id
        /\ ParseHeader(g).content_len = Len(o.src) /\ ParseHeader(g).padding_len = Len(o.src) % 8
    <3>1. /\ ParseHeader(w).type = o.type /\ ParseHeader(w).id = o.id
          /\ ParseHeader(w).content_len = Len(o.src) /\ ParseHeader(w).padding_len = Len(o.src) % 8
      BY DEF Announces
    <3> QED BY <2>1, <3>1, Zenon
  <2>3. Complete(g, <<>>, 0) <=> Len(o.src) = 0
    BY <1>2, <1>5, <2>1, <2>2 DEF Complete
  <2>4. Len(o.src) = 0 => o.src = <<>>
    BY <1>5
  <2>5. Len(o.src) = 0 => Parsed(g, <<>>) = o
    BY <1>5, <2>2, <2>4 DEF Parsed
  <2> QED BY <1>1, <1>4, <1>7, <2>3, <2>5, Zenon
<1> QED BY <1>6, <1>7

\* Its content and how much it is padded
Sized(o, s, d) == s = o.src /\ d = Len(s) % 8

LEMMA EatContent ==
  ASSUME NEW o \in Outputs, NEW w, Announces(w, o), NEW s \in Seq(Nat), NEW d \in Nat, Sized(o, s, d),
         NEW t, NEW k \in 0..(Len(s) - 1)
  PROVE  Eat(At(w, SubSeq(s, 1, k), 0, t), s[k + 1]) =
           IF k + 1 = Len(s) /\ d = 0 THEN At(<<>>, <<>>, 0, Append(t, o))
           ELSE At(w, SubSeq(s, 1, k + 1), 0, t)
<1>1. PICK q, r, byte : q = SubSeq(s, 1, k) /\ r = SubSeq(s, 1, k + 1) /\ byte = s[k + 1]
  OBVIOUS
<1>2. w \in Seq(Nat) /\ Len(w) = 8
  BY DEF Announces
<1>3. o.type \in Nat /\ o = [type |-> o.type, id |-> o.id, src |-> s] /\ Len(s) \in Nat
  BY LinkAssumption DEF Sized
<1>4. q \in Seq(Nat) /\ Len(q) = k /\ r = Append(q, byte) /\ Len(r) = k + 1
  <2>1. q \in Seq(Nat) /\ byte \in Nat /\ Len(q) = k /\ r = Append(q, byte)
    BY <1>1, <1>3, FrontGrows
  <2>2. k \in Nat
    BY <1>3
  <2> QED BY <2>1, <2>2, AppendProperties
<1>5. /\ ParseHeader(w).type = o.type /\ ParseHeader(w).id = o.id
      /\ ParseHeader(w).content_len = Len(s) /\ ParseHeader(w).padding_len = d
  BY DEF Announces, Sized
<1>6. Eat(At(w, q, 0, t), byte) =
        IF Complete(w, r, 0) THEN At(<<>>, <<>>, 0, Append(t, Parsed(w, r))) ELSE At(w, r, 0, t)
  <2>1. ~(Len(w) < 8) /\ Len(q) < ParseHeader(w).content_len /\ r = Append(q, byte)
    BY <1>2, <1>3, <1>4, <1>5
  <2>2. Holds(w, q, 0, byte, w, r, 0)
    BY <2>1 DEF Holds
  <2> QED BY <2>2, EatAt DEF Goes
<1>7. Complete(w, r, 0) <=> k + 1 = Len(s) /\ d = 0
  BY <1>2, <1>3, <1>4, <1>5 DEF Complete
<1>8. k + 1 = Len(s) => Parsed(w, r) = o
  <2>1. k + 1 = Len(s) => r = s
    BY <1>1, <1>3, FrontEnds
  <2> QED BY <1>3, <1>5, <2>1 DEF Parsed
<1> QED BY <1>1, <1>6, <1>7, <1>8, Zenon

LEMMA EatPadding ==
  ASSUME NEW o \in Outputs, NEW w, Announces(w, o), NEW s \in Seq(Nat), NEW d \in Nat, Sized(o, s, d),
         NEW t, NEW k \in Nat, NEW byte
  PROVE  Eat(At(w, s, k, t), byte) =
           IF k + 1 = d THEN At(<<>>, <<>>, 0, Append(t, o))
           ELSE At(w, s, k + 1, t)
<1>1. w \in Seq(Nat) /\ Len(w) = 8
  BY DEF Announces
<1>2. o.type \in Nat /\ o = [type |-> o.type, id |-> o.id, src |-> s] /\ Len(s) \in Nat
  BY LinkAssumption DEF Sized
<1>3. /\ ParseHeader(w).type = o.type /\ ParseHeader(w).id = o.id
      /\ ParseHeader(w).content_len = Len(s) /\ ParseHeader(w).padding_len = d
  BY DEF Announces, Sized
<1>4. PICK m : m = k + 1
  OBVIOUS
<1>5. Eat(At(w, s, k, t), byte) =
        IF Complete(w, s, m) THEN At(<<>>, <<>>, 0, Append(t, Parsed(w, s))) ELSE At(w, s, m, t)
  <2>1. ~(Len(w) < 8) /\ ~(Len(s) < ParseHeader(w).content_len) /\ m = k + 1
    BY <1>1, <1>2, <1>3, <1>4
  <2>2. Holds(w, s, k, byte, w, s, m)
    BY <2>1 DEF Holds
  <2> QED BY <2>2, EatAt DEF Goes
<1>6. Complete(w, s, m) <=> m = d
  BY <1>1, <1>2, <1>3 DEF Complete
<1>7. Parsed(w, s) = o
  BY <1>2, <1>3, Zenon DEF Parsed
<1> QED BY <1>4, <1>5, <1>6, <1>7, Zenon

\* The peer goes through the states of M, one with each byte.
Through(M, c) == \A k \in 0..(Len(c) - 1) : Eat(M[k], c[k + 1]) = M[k + 1]

LEMMA EatenThrough ==
  ASSUME NEW b \in Seq(Nat), NEW c \in Seq(Nat), NEW M, Eaten(Start, b) = M[0], Through(M, c)
  PROVE  Eaten(Start, b \o c) = M[Len(c)]
<1> DEFINE P(k) == Eaten(Start, b \o SubSeq(c, 1, k))
           Good == {k \in 0..Len(c) : P(k) = M[k]}
<1>1. PICK n \in Nat : n = Len(c)
  OBVIOUS
<1>2. P(0) = Eaten(Start, b) /\ P(n) = Eaten(Start, b \o c)
  <2>1. SubSeq(c, 1, 0) = <<>> /\ SubSeq(c, 1, n) = c /\ b \o <<>> = b
    BY <1>1
  <2> QED BY <2>1, Zenon
<1> HIDE DEF P
<1>3. 0 \in Good
  BY <1>1, <1>2
<1>4. ASSUME NEW k \in 0..(n - 1), k \in Good PROVE k + 1 \in Good
  <2>1. k \in 0..(Len(c) - 1)
    BY <1>1
  <2>2. P(k + 1) = Eat(P(k), c[k + 1])
    BY <2>1, NextByte DEF P
  <2>3. P(k) = M[k]
    BY <1>4
  <2>4. Eat(M[k], c[k + 1]) = M[k + 1]
    BY <2>1 DEF Through
  <2>5. P(k + 1) = M[k + 1]
    BY <2>2, <2>3, <2>4, Zenon
  <2> QED BY <1>1, <2>5
<1> HIDE DEF Good
<1>5. n \in Good
  BY <1>3, <1>4, UpTo
<1> QED BY <1>1, <1>2, <1>5 DEF Good

Reaches(b, p) == Eaten(Start, b) = p

\* The whole header, the whole content, the whole padding
LEMMA HeaderEaten ==
  ASSUME NEW o \in Outputs, NEW w, Announces(w, o), NEW t, NEW b \in Seq(Nat),
         Eaten(Start, b) = At(<<>>, <<>>, 0, t)
  PROVE  Eaten(Start, b \o w) = IF Len(o.src) = 0 THEN At(<<>>, <<>>, 0, Append(t, o)) ELSE At(w, <<>>, 0, t)
<1>1. w \in Seq(Nat) /\ Len(w) = 8
  BY DEF Announces
<1>2. PICK done : done = At(<<>>, <<>>, 0, Append(t, o))
  OBVIOUS
<1>3. PICK none \in BOOLEAN : none <=> Len(o.src) = 0
  OBVIOUS
<1> DEFINE S(k) == At(SubSeq(w, 1, k), <<>>, 0, t)
<1>4. S(0) = Eaten(Start, b) /\ S(8) = At(w, <<>>, 0, t)
  <2>1. SubSeq(w, 1, 0) = <<>> /\ SubSeq(w, 1, 8) = w
    BY <1>1
  <2> QED BY <2>1, Zenon
<1>5. \A k \in 0..7 : Eat(S(k), w[k + 1]) = IF k = 7 /\ none THEN done ELSE S(k + 1)
  <2> SUFFICES ASSUME NEW k \in 0..7
               PROVE  Eat(S(k), w[k + 1]) = IF k = 7 /\ none THEN done ELSE S(k + 1)
    OBVIOUS
  <2>1. Eat(S(k), w[k + 1]) = IF k = 7 /\ Len(o.src) = 0 THEN At(<<>>, <<>>, 0, Append(t, o)) ELSE S(k + 1)
    BY EatHeader
  <2> HIDE DEF S
  <2> QED BY <1>2, <1>3, <2>1
<1> HIDE DEF S
<1>6. PICK M : M = [k \in 0..8 |-> IF k = 8 /\ none THEN done ELSE S(k)]
  OBVIOUS
<1>7. M[0] = Eaten(Start, b)
  BY <1>4, <1>6
<1>8. Through(M, w)
  <2> SUFFICES ASSUME NEW k \in 0..7 PROVE Eat(M[k], w[k + 1]) = M[k + 1]
    BY <1>1 DEF Through
  <2>1. M[k] = S(k)
    BY <1>6
  <2>2. M[k + 1] = IF k = 7 /\ none THEN done ELSE S(k + 1)
    BY <1>6
  <2> QED BY <1>5, <2>1, <2>2
<1>9. Eaten(Start, b \o w) = M[8]
  BY <1>1, <1>7, <1>8, EatenThrough
<1>10. M[8] = IF none THEN done ELSE At(w, <<>>, 0, t)
  BY <1>4, <1>6
<1> QED BY <1>2, <1>3, <1>9, <1>10, Zenon

LEMMA ContentEaten ==
  ASSUME NEW o \in Outputs, NEW w, Announces(w, o), NEW s \in Seq(Nat), NEW d \in Nat, Sized(o, s, d),
         NEW t, NEW b \in Seq(Nat), Reaches(b, At(w, <<>>, 0, t)), Len(s) > 0
  PROVE  Reaches(b \o s, IF d = 0 THEN At(<<>>, <<>>, 0, Append(t, o)) ELSE At(w, s, 0, t))
<1>1. PICK n \in Nat : n = Len(s) /\ n > 0
  OBVIOUS
<1>2. PICK done : done = At(<<>>, <<>>, 0, Append(t, o))
  OBVIOUS
<1>3. PICK none \in BOOLEAN : none <=> d = 0
  OBVIOUS
<1> DEFINE S(k) == At(w, SubSeq(s, 1, k), 0, t)
<1>4. S(0) = Eaten(Start, b) /\ S(n) = At(w, s, 0, t)
  <2>1. SubSeq(s, 1, 0) = <<>> /\ SubSeq(s, 1, n) = s
    BY <1>1
  <2> QED BY <2>1, Zenon DEF Reaches
<1>5. \A k \in 0..(n - 1) : Eat(S(k), s[k + 1]) = IF k + 1 = n /\ none THEN done ELSE S(k + 1)
  <2> SUFFICES ASSUME NEW k \in 0..(n - 1)
               PROVE  Eat(S(k), s[k + 1]) = IF k + 1 = n /\ none THEN done ELSE S(k + 1)
    OBVIOUS
  <2>1. k \in 0..(Len(s) - 1)
    BY <1>1
  <2>2. Eat(S(k), s[k + 1]) = IF k + 1 = Len(s) /\ d = 0 THEN At(<<>>, <<>>, 0, Append(t, o)) ELSE S(k + 1)
    BY <2>1, EatContent
  <2> HIDE DEF S
  <2> QED BY <1>1, <1>2, <1>3, <2>2
<1> HIDE DEF S
<1>6. PICK M : M = [k \in 0..n |-> IF k = n /\ none THEN done ELSE S(k)]
  OBVIOUS
<1>7. M[0] = Eaten(Start, b)
  BY <1>1, <1>4, <1>6
<1>8. Through(M, s)
  <2> SUFFICES ASSUME NEW k \in 0..(n - 1) PROVE Eat(M[k], s[k + 1]) = M[k + 1]
    BY <1>1 DEF Through
  <2>1. M[k] = S(k)
    BY <1>1, <1>6
  <2>2. M[k + 1] = IF k + 1 = n /\ none THEN done ELSE S(k + 1)
    BY <1>1, <1>6
  <2> QED BY <1>5, <2>1, <2>2
<1>9. Eaten(Start, b \o s) = M[n]
  BY <1>1, <1>7, <1>8, EatenThrough
<1>10. M[n] = IF none THEN done ELSE At(w, s, 0, t)
  BY <1>1, <1>4, <1>6
<1> QED BY <1>2, <1>3, <1>9, <1>10, Zenon DEF Reaches

LEMMA PaddingEaten ==
  ASSUME NEW o \in Outputs, NEW w, Announces(w, o), NEW s \in Seq(Nat), NEW d \in Nat, Sized(o, s, d),
         NEW t, NEW b \in Seq(Nat), Reaches(b, At(w, s, 0, t)), NEW z \in Seq(Nat), Len(z) = d, d > 0
  PROVE  Reaches(b \o z, At(<<>>, <<>>, 0, Append(t, o)))
<1>1. PICK n \in Nat : n = d /\ n > 0 /\ n = Len(z)
  OBVIOUS
<1>2. PICK done : done = At(<<>>, <<>>, 0, Append(t, o))
  OBVIOUS
<1> DEFINE S(k) == At(w, s, k, t)
<1>4. S(0) = Eaten(Start, b)
  BY Zenon DEF Reaches
<1>5. \A k \in Nat : \A byte : Eat(S(k), byte) = IF k + 1 = n THEN done ELSE S(k + 1)
  <2> SUFFICES ASSUME NEW k \in Nat, NEW byte
               PROVE  Eat(S(k), byte) = IF k + 1 = n THEN done ELSE S(k + 1)
    OBVIOUS
  <2>1. Eat(S(k), byte) = IF k + 1 = d THEN At(<<>>, <<>>, 0, Append(t, o)) ELSE S(k + 1)
    BY EatPadding
  <2> HIDE DEF S
  <2> QED BY <1>1, <1>2, <2>1
<1> HIDE DEF S
<1>6. PICK M : M = [k \in 0..n |-> IF k = n THEN done ELSE S(k)]
  OBVIOUS
<1>7. M[0] = Eaten(Start, b)
  BY <1>1, <1>4, <1>6
<1>8. Through(M, z)
  <2> SUFFICES ASSUME NEW k \in 0..(n - 1) PROVE Eat(M[k], z[k + 1]) = M[k + 1]
    BY <1>1 DEF Through
  <2>1. k \in Nat /\ M[k] = S(k)
    BY <1>1, <1>6
  <2>2. M[k + 1] = IF k + 1 = n THEN done ELSE S(k + 1)
    BY <1>1, <1>6
  <2> QED BY <1>5, <2>1, <2>2
<1>9. Eaten(Start, b \o z) = M[n]
  BY <1>1, <1>7, <1>8, EatenThrough
<1>10. M[n] = done
  BY <1>1, <1>6
<1> QED BY <1>2, <1>9, <1>10, Zenon DEF Reaches

SameBytes(b, w, s, z) == b \o (w \o (s \o z)) = ((b \o w) \o s) \o z

LEMMA FourJoined ==
  \A b, w, s, z \in Seq(Nat) : SameBytes(b, w, s, z)
<1> TAKE b, w, s, z \in Seq(Nat)
<1>1. PICK x : x = s \o z
  OBVIOUS
<1>2. PICK y : y = b \o w
  OBVIOUS
<1>3. x \in Seq(Nat) /\ y \in Seq(Nat)
  BY <1>1, <1>2, ConcatProperties
<1>4. (b \o w) \o x = b \o (w \o x)
  BY <1>3, Joined
<1>5. (y \o s) \o z = y \o (s \o z)
  <2>1. \A p \in Seq(Nat) : (p \o s) \o z = p \o (s \o z)
    BY Joined, Zenon
  <2> QED BY <1>3, <2>1, Zenon
<1> QED BY <1>1, <1>2, <1>4, <1>5, Zenon DEF SameBytes

LEMMA PartsEaten ==
  ASSUME NEW o \in Outputs, NEW w \in Seq(Nat), Announces(w, o),
         NEW s \in Seq(Nat), NEW d \in Nat, Sized(o, s, d), NEW z \in Seq(Nat), Len(z) = d,
         NEW t, NEW b \in Seq(Nat), Reaches(b, At(<<>>, <<>>, 0, t))
  PROVE  Reaches(((b \o w) \o s) \o z, At(<<>>, <<>>, 0, Append(t, o)))
<1>1. PICK b1 \in Seq(Nat) : b1 = b \o w
  <2>1. b \o w \in Seq(Nat)
    BY ConcatProperties
  <2> QED BY <2>1
<1>2. PICK b2 \in Seq(Nat) : b2 = b1 \o s
  <2>1. b1 \o s \in Seq(Nat)
    BY <1>1, ConcatProperties
  <2> QED BY <2>1
<1>3. PICK done : done = At(<<>>, <<>>, 0, Append(t, o))
  OBVIOUS
<1>4. Eaten(Start, b1) = IF Len(s) = 0 THEN done ELSE At(w, <<>>, 0, t)
  <2>1. Eaten(Start, b \o w) = IF Len(o.src) = 0 THEN At(<<>>, <<>>, 0, Append(t, o)) ELSE At(w, <<>>, 0, t)
    BY HeaderEaten DEF Reaches
  <2>2. o.src = s
    BY DEF Sized
  <2> QED BY <1>1, <1>3, <2>1, <2>2, Zenon
<1>5. CASE Len(s) = 0
  <2>1. d = 0
    BY <1>5 DEF Sized
  <2>2. s = <<>> /\ z = <<>>
    BY <1>5, <2>1, EmptySeq
  <2>3. b1 \o <<>> = b1
    BY <1>1, ConcatEmptySeq
  <2>4. (b1 \o s) \o z = b1
    BY <2>2, <2>3, Zenon
  <2> QED BY <1>1, <1>3, <1>4, <1>5, <2>4, Zenon DEF Reaches
<1>6. CASE Len(s) > 0
  <2>1. Len(s) # 0
    BY <1>6
  <2>2. Reaches(b1, At(w, <<>>, 0, t))
    BY <1>4, <2>1, Zenon DEF Reaches
  <2>3. Reaches(b1 \o s, IF d = 0 THEN At(<<>>, <<>>, 0, Append(t, o)) ELSE At(w, s, 0, t))
    BY <1>1, <1>6, <2>2, ContentEaten
  <2>4. CASE d = 0
    <3>1. z = <<>>
      BY <2>4, EmptySeq
    <3>2. b2 \o <<>> = b2
      BY <1>2, ConcatEmptySeq
    <3> QED BY <1>1, <1>2, <2>3, <2>4, <3>1, <3>2, Zenon DEF Reaches
  <2>5. CASE d # 0
    <3>1. Reaches(b2, At(w, s, 0, t))
      BY <1>2, <2>3, <2>5, Zenon DEF Reaches
    <3>2. d > 0
      BY <2>5
    <3>3. Reaches(b2 \o z, At(<<>>, <<>>, 0, Append(t, o)))
      BY <1>2, <3>1, <3>2, PaddingEaten
    <3> QED BY <1>1, <1>2, <3>3, Zenon
  <2> QED BY <2>4, <2>5
<1>7. Len(s) = 0 \/ Len(s) > 0
  OBVIOUS
<1> QED BY <1>5, <1>6, <1>7

\* A number of zeros has that length.
LEMMA ZerosLong ==
  ASSUME NEW d \in Nat, NEW z \in Seq(Nat), DOMAIN z = 1..d
  PROVE  Len(z) = d
<1>1. PICK n \in Nat : n = Len(z) /\ DOMAIN z = 1..n
  BY LenProperties
<1>2. n > d => n \in 1..n /\ n \notin 1..d
  BY <1>1
<1>3. n < d => d \in 1..d /\ d \notin 1..n
  BY <1>1
<1>4. 1..n = 1..d
  BY <1>1
<1>5. ~(n > d) /\ ~(n < d)
  BY <1>2, <1>3, <1>4, Zenon
<1> QED BY <1>1, <1>5

\* The bytes that output_control writes for an output are one record of it.
FrameOf(o, reserved, w, z) ==
  /\ w = Serialize(RecordOf(o), reserved)
  /\ z = [k \in 1..RecordOf(o).padding_len |-> 0]

LEMMA FrameEaten ==
  ASSUME NEW o \in Outputs, NEW reserved \in Nat, Len(o.src) < U16,
         NEW t, NEW b \in Seq(Nat), Reaches(b, At(<<>>, <<>>, 0, t)),
         NEW w \in Seq(Nat), NEW z \in Seq(Nat), FrameOf(o, reserved, w, z)
  PROVE  Reaches(b \o (w \o (o.src \o z)), At(<<>>, <<>>, 0, Append(t, o)))
<1>1. Announces(w, o)
  BY HeaderRead DEF Announces, FrameOf
<1>2. PICK s \in Seq(Nat) : s = o.src
  BY LinkAssumption
<1>3. PICK d \in Nat : d = Len(s) % 8
  <2>1. \A m \in Nat : m % 8 \in Nat
    OBVIOUS
  <2>2. Len(s) \in Nat
    BY <1>2
  <2> QED BY <2>1, <2>2
<1>4. Sized(o, s, d)
  BY <1>2, <1>3 DEF Sized
<1>5. Len(z) = d
  <2>1. RecordOf(o).padding_len = d
    BY <1>2, <1>3 DEF RecordOf, HeaderLen
  <2>2. z = [k \in 1..d |-> 0]
    BY <2>1 DEF FrameOf
  <2>3. DOMAIN z = 1..d
    BY <2>2
  <2> QED BY <1>3, <2>3, ZerosLong
<1>6. Reaches(((b \o w) \o s) \o z, At(<<>>, <<>>, 0, Append(t, o)))
  BY <1>1, <1>2, <1>3, <1>4, <1>5, PartsEaten
<1>7. SameBytes(b, w, s, z)
  BY <1>2, FourJoined
<1>8. b \o (w \o (s \o z)) = ((b \o w) \o s) \o z
  BY <1>7 DEF SameBytes
<1> QED BY <1>2, <1>6, <1>8, Zenon

-----------------------------------------------------------------------------
(* What has been given to the writer's socket, and is still to be. *)

Flat(t) ==
  IF Len(t) = 0 THEN <<>>
  ELSE IF Len(t) = 1 THEN t[1]
  ELSE IF Len(t) = 2 THEN t[1] \o t[2]
  ELSE t[1] \o (t[2] \o t[3])

Given == sent \o (writer.src \o Flat(todo))

\* The peer finds every output up to the first that is too long, and stands
\* between two records if none is.
FitUpTo(outs, n) == \A j \in 1..n : Len(outs[j].src) < U16

Finds(p, outs, n) ==
  /\ n <= Len(p.taken)
  /\ \A j \in 1..n : p.taken[j] = outs[j]
  /\ n = Len(outs) => p = At(<<>>, <<>>, 0, outs)

Parses(p, outs) == \A n \in 0..Len(outs) : FitUpTo(outs, n) => Finds(p, outs, n)

FrameInv ==
  /\ LinkInv
  /\ outputs \in Seq(Outputs)
  /\ Len(todo) <= 3
  /\ writer.pc \in {"idle", "flushing"} => writer.src = <<>>
  /\ Parses(Eaten(Start, Given), outputs)

LEMMA HeadIsFirst ==
  ASSUME NEW S, NEW t \in Seq(S), t # <<>>
  PROVE  Head(t) = t[1]
OBVIOUS

LEMMA FlatIs ==
  ASSUME NEW t \in Seq(Seq(Nat)), Len(t) <= 3
  PROVE  /\ Flat(t) \in Seq(Nat)
         /\ t # <<>> => Flat(t) = Head(t) \o Flat(Tail(t))
<1>1. Len(t) \in Nat /\ \A k \in 1..Len(t) : t[k] \in Seq(Nat)
  BY LenProperties, ElementOfSeq
<1>2. PICK n \in 0..3 : n = Len(t)
  <2>1. \A k \in Nat : k <= 3 => k \in 0..3
    OBVIOUS
  <2>2. Len(t) \in 0..3
    BY <1>1, <2>1, Zenon
  <2> QED BY <2>2
<1>3. \A k \in 1..n : t[k] \in Seq(Nat)
  BY <1>1, <1>2
<1>4. n > 0 => t # <<>>
  BY <1>2
<1>5. PICK u : u = Tail(t)
  OBVIOUS
<1>6. n > 0 => Head(t) = t[1] /\ Len(u) = n - 1 /\ \A k \in 1..(n - 1) : u[k] = t[k + 1]
  <2> SUFFICES ASSUME n > 0
               PROVE  Head(t) = t[1] /\ Len(u) = n - 1 /\ \A k \in 1..(n - 1) : u[k] = t[k + 1]
    OBVIOUS
  <2>1. t # <<>>
    BY <1>4
  <2>2. Len(u) = Len(t) - 1 /\ \A k \in 1..Len(u) : u[k] = t[k + 1]
    BY <1>5, <2>1, HeadTailProperties
  <2>3. Head(t) = t[1]
    BY <2>1, HeadIsFirst
  <2> QED BY <1>2, <2>2, <2>3
<1>7. CASE n = 0
  <2>1. t = <<>>
    BY <1>2, <1>7, EmptySeq
  <2>2. Flat(t) = <<>>
    BY <1>2, <1>7 DEF Flat
  <2>3. <<>> \in Seq(Nat)
    OBVIOUS
  <2> QED BY <2>1, <2>2, <2>3, Zenon
<1>8. CASE n = 1
  <2>1. t[1] \in Seq(Nat) /\ Flat(t) = t[1]
    BY <1>2, <1>3, <1>8 DEF Flat
  <2>2. Head(t) = t[1] /\ Len(u) = 0
    BY <1>6, <1>8
  <2>3. Flat(u) = <<>>
    BY <2>2 DEF Flat
  <2>4. t[1] \o <<>> = t[1]
    BY <2>1, ConcatEmptySeq
  <2> QED BY <1>5, <2>1, <2>2, <2>3, <2>4, Zenon
<1>9. CASE n = 2
  <2>1. t[1] \in Seq(Nat) /\ t[2] \in Seq(Nat)
    BY <1>3, <1>9
  <2>2. Flat(t) = t[1] \o t[2]
    BY <1>2, <1>9 DEF Flat
  <2>3. Head(t) = t[1] /\ Len(u) = 1 /\ u[1] = t[2]
    BY <1>6, <1>9
  <2>4. Flat(u) = t[2]
    BY <2>3 DEF Flat
  <2>5. t[1] \o t[2] \in Seq(Nat)
    BY <2>1, ConcatProperties
  <2> QED BY <1>5, <2>2, <2>3, <2>4, <2>5, Zenon
<1>10. CASE n = 3
  <2>1. t[1] \in Seq(Nat) /\ t[2] \in Seq(Nat) /\ t[3] \in Seq(Nat)
    BY <1>3, <1>10
  <2>2. Flat(t) = t[1] \o (t[2] \o t[3])
    BY <1>2, <1>10 DEF Flat
  <2>3. Head(t) = t[1] /\ Len(u) = 2 /\ u[1] = t[2] /\ u[2] = t[3]
    BY <1>6, <1>10
  <2>4. Flat(u) = t[2] \o t[3]
    <3>1. Flat(u) = u[1] \o u[2]
      BY <2>3 DEF Flat
    <3> QED BY <2>3, <3>1, Zenon
  <2>5. t[2] \o t[3] \in Seq(Nat)
    BY <2>1, ConcatProperties
  <2>6. t[1] \o (t[2] \o t[3]) \in Seq(Nat)
    BY <2>1, <2>5, ConcatProperties
  <2> QED BY <1>5, <2>2, <2>3, <2>4, <2>6, Zenon
<1> QED BY <1>2, <1>7, <1>8, <1>9, <1>10

\* A write moves bytes from what it holds to the ring.
LEMMA FillingGives ==
  ASSUME NEW out, IsRing(out), NEW src \in Seq(Nat), sent \in Seq(Nat), Filling(out, src)
  PROVE  /\ sent' \in Seq(Nat) /\ writer'.src \in Seq(Nat)
         /\ sent' \o writer'.src = sent \o src
         /\ writer'.pc = "idle" => writer'.src = <<>>
         /\ writer'.pc # "flushing"
<1>1. PICK n : n = Fits(out, Len(src))
  OBVIOUS
<1>2. PICK p, q : p = SubSeq(src, 1, n) /\ q = SubSeq(src, n + 1, Len(src))
  OBVIOUS
<1>3. /\ sent' = sent \o p
      /\ writer' = [pc |-> IF n = Len(src) THEN "idle" ELSE "writing", src |-> q]
  BY <1>1, <1>2, Zenon DEF Filling
<1>4. n \in 0..Len(src)
  <2>1. Available(out) \in 0..BUFFER_SIZE /\ Len(src) \in Nat
    BY ContentsAre
  <2> QED BY <1>1, <2>1, BufferSize DEF IsRing, InRange, Ring, Available, Fits, WriteEnd, Smaller
<1>5. p \in Seq(Nat) /\ q \in Seq(Nat) /\ src = p \o q
  BY <1>2, <1>4, CutAt
<1>6. n = Len(src) => q = <<>>
  BY <1>2
<1>7. (sent \o p) \o q = sent \o (p \o q)
  BY <1>5, Joined
<1>8. sent \o p \in Seq(Nat)
  BY <1>5, ConcatProperties
<1>9. writer'.src = q /\ writer'.pc = IF n = Len(src) THEN "idle" ELSE "writing"
  BY <1>3
<1>10. sent' \o writer'.src = sent \o src
  BY <1>3, <1>5, <1>7, <1>9, Zenon
<1> QED BY <1>3, <1>5, <1>6, <1>8, <1>9, <1>10

LEMMA GivenIs ==
  ASSUME FrameInv
  PROVE  /\ sent \in Seq(Nat) /\ writer.src \in Seq(Nat) /\ Flat(todo) \in Seq(Nat)
         /\ todo \in Seq(Seq(Nat)) /\ Given \in Seq(Nat)
         /\ Given = (sent \o writer.src) \o Flat(todo)
<1>1. sent \in Seq(Nat) /\ writer.src \in Seq(Nat) /\ todo \in Seq(Seq(Nat))
  BY DEF FrameInv, LinkInv, Inv, TypeInv
<1>2. Flat(todo) \in Seq(Nat)
  BY <1>1, FlatIs DEF FrameInv
<1>3. PICK s, w, f : s = sent /\ w = writer.src /\ f = Flat(todo)
  OBVIOUS
<1>4. s \in Seq(Nat) /\ w \in Seq(Nat) /\ f \in Seq(Nat)
  BY <1>1, <1>2, <1>3
<1>5. (s \o w) \o f = s \o (w \o f)
  BY <1>4, Joined
<1>6. w \o f \in Seq(Nat)
  BY <1>4, ConcatProperties
<1>7. s \o (w \o f) \in Seq(Nat)
  BY <1>4, <1>6, ConcatProperties
<1>8. Given = s \o (w \o f)
  BY <1>3, Zenon DEF Given
<1> QED BY <1>1, <1>2, <1>3, <1>5, <1>7, <1>8, Zenon

-----------------------------------------------------------------------------
(* The steps of the writer: what was given changes with an output only. *)

LEMMA FrameKept ==
  ASSUME FrameInv, LinkInv', outputs' = outputs, Len(todo') <= 3,
         writer'.pc \in {"idle", "flushing"} => writer'.src = <<>>,
         sent' \o (writer'.src \o Flat(todo')) = Given
  PROVE  FrameInv'
<1>1. Given' = Given
  BY DEF Given
<1>2. Eaten(Start, Given)' = Eaten(Start, Given)
  BY <1>1
<1>3. Parses(Eaten(Start, Given), outputs)'
  BY <1>2 DEF FrameInv
<1> QED BY <1>3 DEF FrameInv

\* Steps that neither write nor fill the ring
LEMMA FrameWaits ==
  ASSUME FrameInv, LinkInv', UNCHANGED <<sent, todo, outputs>>, writer'.src = writer.src,
         writer'.pc \in {"idle", "flushing"} => writer.pc \in {"idle", "flushing"}
  PROVE  FrameInv'
<1>1. sent' \o (writer'.src \o Flat(todo')) = Given
  BY DEF Given
<1>2. writer'.pc \in {"idle", "flushing"} => writer'.src = <<>>
  BY DEF FrameInv
<1>3. Len(todo') <= 3
  BY DEF FrameInv
<1> QED BY <1>1, <1>2, <1>3, FrameKept

LEMMA FrameWritePart ==
  ASSUME FrameInv, LinkInv', WritePart
  PROVE  FrameInv'
<1>1. todo # <<>> /\ Write(Head(todo)) /\ todo' = Tail(todo) /\ outputs' = outputs
  BY DEF WritePart
<1>2. /\ sent \in Seq(Nat) /\ writer.src = <<>> /\ todo \in Seq(Seq(Nat)) /\ Len(todo) <= 3
      /\ IsRing(m_out_buffer)
  BY <1>1 DEF FrameInv, LinkInv, Inv, TypeInv, Rings, Write
<1>3. PICK h, u : h = Head(todo) /\ u = Tail(todo)
  OBVIOUS
<1>4. h \in Seq(Nat) /\ u \in Seq(Seq(Nat)) /\ Len(u) = Len(todo) - 1
  BY <1>1, <1>2, <1>3, HeadTailProperties
<1>5. Len(todo) \in Nat
  BY <1>2, LenProperties
<1>6. Len(u) <= 3
  BY <1>2, <1>4, <1>5
<1>7. Filling(m_out_buffer, h)
  BY <1>1, <1>3 DEF Write
<1>8. /\ sent' \in Seq(Nat) /\ writer'.src \in Seq(Nat) /\ sent' \o writer'.src = sent \o h
      /\ writer'.pc = "idle" => writer'.src = <<>>
      /\ writer'.pc # "flushing"
  BY <1>2, <1>4, <1>7, FillingGives
<1>9. PICK f : f = Flat(u)
  OBVIOUS
<1>10. f \in Seq(Nat) /\ Flat(todo) = h \o f
  <2>1. f \in Seq(Nat)
    BY <1>4, <1>6, <1>9, FlatIs
  <2>2. Flat(todo) = Head(todo) \o Flat(Tail(todo))
    BY <1>1, <1>2, FlatIs
  <2> QED BY <1>3, <1>9, <2>1, <2>2
<1>11. Given = (sent \o h) \o f
  <2>1. Given = (sent \o writer.src) \o Flat(todo)
    BY GivenIs
  <2>2. sent \o <<>> = sent
    BY <1>2, ConcatEmptySeq
  <2>3. Given = sent \o (h \o f)
    BY <1>2, <1>10, <2>1, <2>2, Zenon
  <2>4. (sent \o h) \o f = sent \o (h \o f)
    BY <1>2, <1>4, <1>10, Joined
  <2> QED BY <2>3, <2>4, Zenon
<1>12. sent' \o (writer'.src \o f) = (sent' \o writer'.src) \o f
  BY <1>8, <1>10, Joined
<1>13. sent' \o (writer'.src \o Flat(todo')) = Given
  BY <1>1, <1>3, <1>8, <1>9, <1>11, <1>12, Zenon
<1>14. Len(todo') <= 3
  BY <1>1, <1>3, <1>6
<1>15. writer'.pc \in {"idle", "flushing"} => writer'.src = <<>>
  BY <1>8
<1> QED BY <1>1, <1>13, <1>14, <1>15, FrameKept

LEMMA FrameSent ==
  ASSUME FrameInv, LinkInv', NEW n \in 1..LinkSize, Sent(n), UNCHANGED <<outputs, todo>>
  PROVE  FrameInv'
<1>1. PICK out : out = IncrementRead(m_out_buffer, n)
  OBVIOUS
<1>2. \/ writer.pc = "writing" /\ Filling(out, writer.src)
      \/ /\ writer.pc = "flushing" /\ sent' = sent
         /\ writer' = IF Available(out) > 0 THEN writer ELSE [writer EXCEPT !.pc = "idle"]
  BY <1>1 DEF Sent
<1>3. Inv
  BY DEF FrameInv, LinkInv
<1>4. IsRing(out)
  <2>1. n \in 0..Available(m_out_buffer) /\ ~broken /\ link' = link \o Peek(m_out_buffer, n)
    BY <1>3, SentFew DEF Sent
  <2> QED BY <1>1, <1>3, <2>1, SentMoves
<1>5. CASE writer.pc = "writing" /\ Filling(out, writer.src)
  <2>1. sent \in Seq(Nat) /\ writer.src \in Seq(Nat) /\ Flat(todo) \in Seq(Nat)
    BY GivenIs
  <2>2. /\ sent' \in Seq(Nat) /\ writer'.src \in Seq(Nat)
        /\ sent' \o writer'.src = sent \o writer.src
        /\ writer'.pc = "idle" => writer'.src = <<>>
        /\ writer'.pc # "flushing"
    BY <1>4, <1>5, <2>1, FillingGives
  <2>3. PICK f : f = Flat(todo)
    OBVIOUS
  <2>4. (sent' \o writer'.src) \o f = sent' \o (writer'.src \o f)
    BY <2>1, <2>2, <2>3, Joined
  <2>5. Given = (sent \o writer.src) \o f
    BY <2>3, GivenIs
  <2>6. sent' \o (writer'.src \o Flat(todo')) = Given
    <3>1. Flat(todo') = f
      BY <2>3
    <3> QED BY <2>2, <2>4, <2>5, <3>1, Zenon
  <2>7. Len(todo') <= 3
    BY DEF FrameInv
  <2>8. writer'.pc \in {"idle", "flushing"} => writer'.src = <<>>
    BY <2>2
  <2> QED BY <2>6, <2>7, <2>8, FrameKept
<1>6. CASE /\ writer.pc = "flushing" /\ sent' = sent
           /\ writer' = IF Available(out) > 0 THEN writer ELSE [writer EXCEPT !.pc = "idle"]
  <2>1. writer'.src = writer.src
    BY <1>3, <1>6 DEF Inv, TypeInv
  <2> QED BY <1>6, <2>1, FrameWaits
<1> QED BY <1>2, <1>5, <1>6

\* The peer's bytes are a record of the output after those of the others.
LEMMA FrameGrown ==
  ASSUME NEW b \in Seq(Nat), NEW c \in Seq(Nat), NEW outs \in Seq(Outputs), NEW o \in Outputs,
         Parses(Eaten(Start, b), outs),
         Len(o.src) < U16 /\ Reaches(b, At(<<>>, <<>>, 0, outs))
           => Reaches(b \o c, At(<<>>, <<>>, 0, Append(outs, o)))
  PROVE  Parses(Eaten(Start, b \o c), Append(outs, o))
<1>1. PICK p \in Peer : p = Eaten(Start, b)
  BY StartIsPeer, EatenFollows
<1>2. PICK q \in Peer : q = Eaten(Start, b \o c)
  <2>1. b \o c \in Seq(Nat)
    BY ConcatProperties
  <2> QED BY <2>1, StartIsPeer, EatenFollows
<1>3. Longer(p.taken, q.taken)
  BY <1>1, <1>2, EatenGrows
<1>4. Len(p.taken) \in Nat /\ Len(q.taken) \in Nat
  BY DEF Peer
<1>5. PICK new : new = Append(outs, o)
  OBVIOUS
<1>6. PICK m \in Nat : m = Len(outs)
  OBVIOUS
<1>7. Len(new) = m + 1 /\ new[m + 1] = o /\ \A j \in 1..m : new[j] = outs[j]
  BY <1>5, <1>6
<1>8. Len(At(<<>>, <<>>, 0, new).taken) = m + 1 /\ At(<<>>, <<>>, 0, new).taken = new
  BY <1>7 DEF At
<1>9. ASSUME NEW n \in 0..(m + 1), FitUpTo(new, n) PROVE Finds(q, new, n)
  <2>1. CASE n <= m
    <3>1. n \in 0..Len(outs)
      BY <1>6, <2>1
    <3>2. FitUpTo(outs, n)
      BY <1>7, <1>9, <2>1 DEF FitUpTo
    <3>3. Finds(p, outs, n)
      BY <1>1, <3>1, <3>2 DEF Parses
    <3>4. n <= Len(p.taken) /\ \A j \in 1..n : p.taken[j] = outs[j]
      BY <3>3 DEF Finds
    <3>5. Len(p.taken) <= Len(q.taken) /\ \A j \in 1..Len(p.taken) : p.taken[j] = q.taken[j]
      BY <1>3 DEF Longer
    <3>6. ASSUME NEW j \in 1..n PROVE q.taken[j] = new[j]
      <4>1. j \in 1..Len(p.taken) /\ j \in 1..m
        BY <1>4, <2>1, <3>4
      <4>2. q.taken[j] = p.taken[j] /\ p.taken[j] = outs[j] /\ new[j] = outs[j]
        BY <1>7, <3>4, <3>5, <4>1
      <4> QED BY <4>2
    <3>7. n <= Len(q.taken)
      BY <1>4, <3>4, <3>5
    <3>8. n # Len(new)
      BY <1>7, <2>1
    <3> QED BY <3>6, <3>7, <3>8 DEF Finds
  <2>2. CASE n = m + 1
    <3>1. Len(o.src) < U16
      BY <1>7, <1>9, <2>2 DEF FitUpTo
    <3>2. FitUpTo(outs, m)
      BY <1>7, <1>9, <2>2 DEF FitUpTo
    <3>3. Finds(p, outs, Len(outs))
      BY <1>1, <1>6, <3>2 DEF Parses
    <3>4. p = At(<<>>, <<>>, 0, outs)
      BY <3>3 DEF Finds
    <3>5. Reaches(b, At(<<>>, <<>>, 0, outs))
      BY <1>1, <3>4, Zenon DEF Reaches
    <3>6. Reaches(b \o c, At(<<>>, <<>>, 0, new))
      BY <1>5, <3>1, <3>5, Zenon
    <3>7. q = At(<<>>, <<>>, 0, new)
      BY <1>2, <3>6, Zenon DEF Reaches
    <3>8. q.taken = new
      BY <1>8, <3>7, Zenon
    <3>9. n <= Len(q.taken) /\ \A j \in 1..n : q.taken[j] = new[j]
      BY <1>7, <2>2, <3>8
    <3> QED BY <3>7, <3>9 DEF Finds
  <2> QED BY <2>1, <2>2
<1>10. Parses(q, new)
  BY <1>7, <1>9 DEF Parses
<1> QED BY <1>2, <1>5, <1>10, Zenon

LEMMA FrameOutput ==
  ASSUME FrameInv, LinkInv', NEW o \in Outputs, Output(o)
  PROVE  FrameInv'
<1>1. todo = <<>> /\ writer.pc = "idle" /\ outputs' = Append(outputs, o) /\ UNCHANGED socketVars
  BY DEF Output
<1>2. PICK reserved \in {0, Base - 1} :
        todo' = <<Serialize(RecordOf(o), reserved), o.src,
                  [k \in 1..RecordOf(o).padding_len |-> 0]>>
  BY DEF Output
<1>3. reserved \in Nat
  BY LinkAssumption
<1>4. PICK w, z : w = Serialize(RecordOf(o), reserved) /\ z = [k \in 1..RecordOf(o).padding_len |-> 0]
  OBVIOUS
<1>5. PICK s \in Seq(Nat) : s = o.src
  BY LinkAssumption
<1>6. todo' = <<w, s, z>>
  BY <1>2, <1>4, <1>5
<1>7. w \in Seq(Nat) /\ z \in Seq(Nat)
  <2>1. <<w, s, z>> \in Seq(Seq(Nat))
    BY <1>3, <1>4, <1>5, PartsAreBytes
  <2> QED BY <2>1
<1>8. FrameOf(o, reserved, w, z)
  BY <1>4 DEF FrameOf
<1>9. sent \in Seq(Nat) /\ writer.src = <<>> /\ outputs \in Seq(Outputs)
  BY <1>1, GivenIs DEF FrameInv
<1>10. Given = sent
  <2>1. Flat(todo) = <<>>
    BY <1>1 DEF Flat
  <2>2. <<>> \o <<>> = <<>> /\ sent \o <<>> = sent
    BY <1>9
  <2> QED BY <1>9, <2>1, <2>2, Zenon DEF Given
<1>11. w \o (s \o z) \in Seq(Nat)
  BY <1>5, <1>7, ConcatProperties
<1>12. Given' = sent \o (w \o (s \o z))
  <2>1. Flat(todo') = w \o (s \o z)
    BY <1>6 DEF Flat
  <2>2. PICK x \in Seq(Nat) : x = w \o (s \o z)
    BY <1>11
  <2>3. <<>> \o x = x
    BY <2>2, ConcatEmptySeq
  <2>4. sent' = sent /\ writer'.src = <<>>
    BY <1>1, <1>9 DEF socketVars, outVars
  <2>5. Given' = sent \o (<<>> \o (w \o (s \o z)))
    BY <2>1, <2>4, Zenon DEF Given
  <2> QED BY <2>2, <2>3, <2>5, Zenon
<1>13. ASSUME Len(o.src) < U16 /\ Reaches(sent, At(<<>>, <<>>, 0, outputs))
       PROVE  Reaches(sent \o (w \o (s \o z)), At(<<>>, <<>>, 0, Append(outputs, o)))
  <2>1. Len(o.src) < U16
    BY <1>13
  <2>2. Reaches(sent, At(<<>>, <<>>, 0, outputs))
    BY <1>13
  <2>3. Reaches(sent \o (w \o (o.src \o z)), At(<<>>, <<>>, 0, Append(outputs, o)))
    BY <1>3, <1>7, <1>8, <1>9, <2>1, <2>2, FrameEaten
  <2> QED BY <1>5, <2>3, Zenon
<1>14. Parses(Eaten(Start, sent), outputs)
  BY <1>10 DEF FrameInv
<1>15. Parses(Eaten(Start, sent \o (w \o (s \o z))), Append(outputs, o))
  BY <1>9, <1>11, <1>13, <1>14, FrameGrown
<1>16. Parses(Eaten(Start, Given), outputs)'
  BY <1>1, <1>12, <1>15
<1>17. outputs' \in Seq(Outputs)
  BY <1>1, <1>9
<1>18. Len(todo') <= 3
  BY <1>6
<1>19. writer'.pc \in {"idle", "flushing"} => writer'.src = <<>>
  BY <1>1, <1>9 DEF socketVars, outVars
<1> QED BY <1>16, <1>17, <1>18, <1>19 DEF FrameInv

LEMMA FrameStart ==
  ASSUME LinkInit
  PROVE  FrameInv
<1>1. LinkInv
  BY InvInit, EmptySeq DEF LinkInit, LinkInv
<1>2. outputs = <<>> /\ todo = <<>> /\ sent = <<>> /\ writer = [pc |-> "idle", src |-> <<>>]
  BY DEF LinkInit, SocketInit
<1>3. Given = <<>>
  <2>1. Flat(todo) = <<>>
    BY <1>2 DEF Flat
  <2>2. <<>> \o (<<>> \o <<>>) = <<>>
    OBVIOUS
  <2>3. writer.src = <<>>
    BY <1>2
  <2> QED BY <1>2, <2>1, <2>2, <2>3, Zenon DEF Given
<1>4. Eaten(Start, Given) = At(<<>>, <<>>, 0, <<>>)
  BY <1>3, StartIsPeer, EatenEmpty DEF Start, At, NoRecord
<1>5. Finds(At(<<>>, <<>>, 0, <<>>), <<>>, 0)
  BY DEF Finds, At
<1>6. Parses(At(<<>>, <<>>, 0, <<>>), <<>>)
  BY <1>5 DEF Parses
<1>7. Parses(Eaten(Start, Given), outputs)
  BY <1>2, <1>4, <1>6
<1>8. writer.src = <<>> /\ Len(todo) <= 3 /\ outputs \in Seq(Outputs)
  BY <1>2
<1> QED BY <1>1, <1>7, <1>8 DEF FrameInv

LEMMA FrameNext ==
  ASSUME FrameInv, [LinkNext]_linkVars
  PROVE  FrameInv'
<1>0. LinkInv'
  BY LinkInvNext DEF FrameInv
<1>1. CASE UNCHANGED linkVars \/ Rest
  <2>1. UNCHANGED <<sent, todo, outputs, writer>>
    BY <1>1 DEF linkVars, Rest, socketVars, outVars
  <2> QED BY <1>0, <2>1, FrameWaits
<1>2. ASSUME NEW o \in Outputs, Output(o) PROVE FrameInv'
  BY <1>0, <1>2, FrameOutput
<1>3. CASE WritePart
  BY <1>0, <1>3, FrameWritePart
<1>4. CASE FlushAll
  <2>1. /\ writer.pc = "idle" /\ writer' = [writer EXCEPT !.pc = "flushing"]
        /\ UNCHANGED <<sent, todo, outputs>>
    BY <1>4 DEF FlushAll, Flush
  <2>2. writer'.src = writer.src
    BY <2>1 DEF FrameInv, LinkInv, Inv, TypeInv
  <2> QED BY <1>0, <2>1, <2>2, FrameWaits
<1>5. CASE (Reads \/ Shutdown \/ Break) /\ UNCHANGED <<outputs, todo>>
  <2>1. UNCHANGED <<sent, todo, outputs, writer>>
    BY <1>5 DEF Reads, Read, Shutdown, Break, outVars
  <2> QED BY <1>0, <2>1, FrameWaits
<1>6. CASE Kernel /\ UNCHANGED <<outputs, todo>>
  <2>1. ASSUME NEW n \in 1..LinkSize, Sent(n) PROVE FrameInv'
    BY <1>0, <1>6, <2>1, FrameSent
  <2>2. ASSUME NEW n \in 1..LinkSize, Received(n) PROVE FrameInv'
    <3>1. UNCHANGED <<sent, todo, outputs, writer>>
      BY <1>6, <2>2 DEF Received, outVars
    <3> QED BY <1>0, <3>1, FrameWaits
  <2>3. CASE EndOfStream \/ ReceiveFails
    <3>1. UNCHANGED <<sent, todo, outputs, writer>>
      BY <1>6, <2>3 DEF EndOfStream, ReceiveFails, outVars
    <3> QED BY <1>0, <3>1, FrameWaits
  <2>4. CASE SendFails
    <3>1. writer' = [writer EXCEPT !.pc = "failed"] /\ UNCHANGED <<sent, todo, outputs>>
      BY <1>6, <2>4 DEF SendFails
    <3>2. writer'.src = writer.src /\ writer'.pc = "failed"
      BY <3>1 DEF FrameInv, LinkInv, Inv, TypeInv
    <3> QED BY <1>0, <3>1, <3>2, FrameWaits
  <2> QED BY <1>6, <2>1, <2>2, <2>3, <2>4 DEF Kernel
<1> QED BY <1>1, <1>2, <1>3, <1>4, <1>5, <1>6 DEF LinkNext

LEMMA FrameAlways == LinkSpec => []FrameInv
BY FrameStart, FrameNext, PTL DEF LinkSpec

\* What was read is the beginning of what was given.
LEMMA GotBegins ==
  ASSUME FrameInv
  PROVE  got \in Seq(Nat) /\ \E x \in Seq(Nat) : Given = got \o x
<1>1. Inv
  BY DEF FrameInv, LinkInv
<1>2. PICK g, i, k, o : g = got /\ i = Contents(m_in_buffer) /\ k = link /\ o = Contents(m_out_buffer)
  OBVIOUS
<1>3. g \in Seq(Nat) /\ i \in Seq(Nat) /\ k \in Seq(Nat) /\ o \in Seq(Nat)
  BY <1>1, <1>2, Facts DEF Inv, TypeInv
<1>4. g \o i \in Seq(Nat) /\ (g \o i) \o k \in Seq(Nat) /\ i \o k \in Seq(Nat)
  BY <1>3, ConcatProperties
<1>5. PICK y \in Seq(Nat) : sent = (g \o i) \o y
  <2>1. CASE ~broken
    <3>1. sent = ((g \o i) \o k) \o o
      BY <1>1, <1>2, <2>1 DEF Inv, Order
    <3>2. k \o o \in Seq(Nat)
      BY <1>3, ConcatProperties
    <3>3. ((g \o i) \o k) \o o = (g \o i) \o (k \o o)
      <4>1. PICK h \in Seq(Nat) : h = g \o i
        BY <1>4
      <4>2. (h \o k) \o o = h \o (k \o o)
        BY <1>3, Joined
      <4> QED BY <4>1, <4>2, Zenon
    <3> QED BY <3>1, <3>2, <3>3, Zenon
  <2>2. CASE broken
    BY <1>1, <1>2, <2>2 DEF Inv, Order
  <2> QED BY <2>1, <2>2
<1>6. sent = g \o (i \o y) /\ i \o y \in Seq(Nat)
  <2>1. (g \o i) \o y = g \o (i \o y)
    BY <1>3, Joined, Zenon
  <2>2. i \o y \in Seq(Nat)
    BY <1>3, ConcatProperties
  <2> QED BY <1>5, <2>1, <2>2, Zenon
<1>7. PICK r : r = writer.src \o Flat(todo)
  OBVIOUS
<1>8. r \in Seq(Nat) /\ Given = sent \o r
  <2>1. writer.src \in Seq(Nat) /\ Flat(todo) \in Seq(Nat)
    BY GivenIs
  <2>2. r \in Seq(Nat)
    BY <1>7, <2>1, ConcatProperties
  <2> QED BY <1>7, <2>2, Zenon DEF Given
<1>9. Given = g \o ((i \o y) \o r) /\ (i \o y) \o r \in Seq(Nat)
  <2>1. (g \o (i \o y)) \o r = g \o ((i \o y) \o r)
    <3>1. PICK h \in Seq(Nat) : h = i \o y
      BY <1>6
    <3>2. r \in Seq(Nat) /\ g \in Seq(Nat)
      BY <1>3, <1>8
    <3>3. (g \o h) \o r = g \o (h \o r)
      BY <3>1, <3>2, Joined, Zenon
    <3> QED BY <3>1, <3>3, Zenon
  <2>2. (i \o y) \o r \in Seq(Nat)
    BY <1>6, <1>8, ConcatProperties
  <2> QED BY <1>6, <1>8, <2>1, <2>2, Zenon
<1> QED BY <1>2, <1>3, <1>9, Zenon

LEMMA FrameShows ==
  ASSUME FrameInv
  PROVE  Framed
<1>1. got \in Seq(Nat) /\ \E x \in Seq(Nat) : Given = got \o x
  BY GotBegins
<1>2. PICK x \in Seq(Nat) : Given = got \o x
  BY <1>1
<1>3. PICK t : t = Eaten(Start, got).taken
  OBVIOUS
<1>4. PICK p \in Peer : p = Eaten(Start, Given)
  BY GivenIs, StartIsPeer, EatenFollows
<1>5. Longer(t, p.taken)
  BY <1>1, <1>2, <1>3, <1>4, EatenGrows
<1>6. t \in Seq(Rec)
  <2>1. Eaten(Start, got) \in Peer
    BY <1>1, StartIsPeer, EatenFollows
  <2> QED BY <1>3, <2>1 DEF Peer
<1>7. Taken = t
  BY <1>3 DEF Taken, Eaten, Start
<1>8. PICK m \in Nat : m = Len(outputs) /\ DOMAIN outputs = 1..m
  BY LenProperties DEF FrameInv
<1>9. \A n \in 0..m : FitUpTo(outputs, n) => Finds(p, outputs, n)
  BY <1>4, <1>8 DEF FrameInv, Parses
<1>10. PICK l \in Nat : l = Len(t) /\ DOMAIN t = 1..l
  BY <1>6, LenProperties
<1>11. Len(p.taken) \in Nat
  BY DEF Peer
<1>12. l <= Len(p.taken) /\ \A k \in 1..l : t[k] = p.taken[k]
  BY <1>5, <1>10 DEF Longer
<1>13. ASSUME NEW k \in 1..l,
              \A j \in 1..m : j <= k => Len(outputs[j].src) < U16
       PROVE  k \in 1..m /\ t[k] = outputs[k]
  <2>1. CASE k <= m
    <3>1. FitUpTo(outputs, k)
      BY <1>13, <2>1 DEF FitUpTo
    <3>2. Finds(p, outputs, k)
      BY <1>9, <2>1, <3>1
    <3>3. p.taken[k] = outputs[k]
      BY <3>2 DEF Finds
    <3> QED BY <1>12, <2>1, <3>3
  <2>2. CASE k > m
    <3>1. FitUpTo(outputs, m)
      BY <1>13, <2>2 DEF FitUpTo
    <3>2. Finds(p, outputs, m)
      BY <1>9, <3>1
    <3>3. p = At(<<>>, <<>>, 0, outputs)
      BY <1>8, <3>2 DEF Finds
    <3>4. p.taken = outputs
      BY <3>3 DEF At
    <3>5. l <= m
      BY <1>8, <1>12, <3>4
    <3> QED BY <2>2, <3>5
  <2> QED BY <2>1, <2>2
<1> QED BY <1>7, <1>8, <1>10, <1>13 DEF Framed

\* A peer that follows FastCGI finds the outputs in the bytes that it has read,
\* as they were given to output_control::write and in their order, up to the
\* first whose size the 16 bits of a header cannot hold: for any base, outputs,
\* rings and transfers of the kernel, and for any value of the byte that
\* record.cpp does not set.
THEOREM OutputsFramed == LinkSpec => []Framed
<1>1. FrameInv => Framed
  BY FrameShows
<1>. QED  BY <1>1, FrameAlways, PTL
=============================================================================
