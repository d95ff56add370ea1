----------------------------- MODULE FoldProofs -----------------------------
(***************************************************************************)
(* Folds over sequences, for proofs.  The FoldLeft of the community modules*)
(* is a recursion over sets of positions that takes the largest one off.   *)
(* An operator cannot be passed to a lemma here, so a fold is described by *)
(* the table of its operator on a set that it does not leave.  From this   *)
(* module a proof about a fold takes that the recursion has a solution     *)
(* (TableSolved), and what it is on a sequence with one element more       *)
(* (TableAppends).                                                         *)
(***************************************************************************)
EXTENDS Integers, Sequences, SequencesExt, FiniteSetTheorems, TLAPS

-----------------------------------------------------------------------------
(* Induction on finite sets. *)

\* Every subset of a finite set is in Good if Good is closed upwards.
LEMMA SubsetInduction ==
  ASSUME NEW S, IsFiniteSet(S), NEW Good,
         \A T \in SUBSET S : (\A U \in SUBSET T : U # T => U \in Good) => T \in Good
  PROVE  \A T \in SUBSET S : T \in Good
<1> DEFINE Bad == {T \in SUBSET S : T \notin Good}
<1> SUFFICES ASSUME Bad # {} PROVE FALSE
  OBVIOUS
<1> DEFINE R == StrictSubsetOrdering(S)
<1>1. IsWellFoundedOn(R, FiniteSubsetsOf(S))
  BY FS_StrictSubsetOrderingWellFounded
<1>2. Bad \subseteq FiniteSubsetsOf(S)
  BY FS_FiniteSubsetsOfFinite
<1>3. PICK T \in Bad : \A U \in Bad : ~ (<<U, T>> \in R)
  <2> HIDE DEF R, Bad
  <2> QED BY <1>1, <1>2, WFMin
<1>4. \A U \in Bad : ~(U \subseteq T /\ U # T)
  BY <1>3 DEF StrictSubsetOrdering
<1> QED BY <1>4

\* A finite set of integers has a largest element.
LEMMA Largest ==
  ASSUME NEW S \in SUBSET Int, IsFiniteSet(S), S # {}
  PROVE  Max(S) \in S /\ \A y \in S : y <= Max(S)
<1> DEFINE Good == {T \in SUBSET S : T # {} => \E x \in T : \A y \in T : x >= y}
<1>1. ASSUME NEW T \in SUBSET S, \A U \in SUBSET T : U # T => U \in Good
      PROVE  T \in Good
  <2> SUFFICES ASSUME NEW a \in T PROVE \E x \in T : \A y \in T : x >= y
    OBVIOUS
  <2>1. CASE T = {a}
    BY <2>1
  <2>2. CASE T # {a}
    <3>1. T \ {a} \in Good /\ T \ {a} # {}
      BY <1>1, <2>2
    <3>2. PICK x \in T \ {a} : \A y \in T \ {a} : x >= y
      BY <3>1
    <3>3. CASE x >= a
      BY <3>2, <3>3
    <3>4. CASE ~(x >= a)
      BY <3>2, <3>4
    <3> QED BY <3>3, <3>4
  <2> QED BY <2>1, <2>2
<1> HIDE DEF Good
<1>2. S \in Good
  BY <1>1, SubsetInduction
<1>3. \E x \in S : \A y \in S : x >= y
  BY <1>2 DEF Good
<1>4. Max(S) \in S /\ \A y \in S : Max(S) >= y
  BY <1>3 DEF Max
<1> QED BY <1>4

\* Induction on the numbers up to n, as sets of them
LEMMA UpTo ==
  ASSUME NEW n \in Nat, NEW Good, 0 \in Good,
         \A k \in 0..(n - 1) : k \in Good => k + 1 \in Good
  PROVE  n \in Good
<1> DEFINE All == {T \in SUBSET (1..n) : \A k \in 0..n : T = 1..k => k \in Good}
<1>1. ASSUME NEW T \in SUBSET (1..n), \A U \in SUBSET T : U # T => U \in All
      PROVE  T \in All
  <2> SUFFICES ASSUME NEW k \in 0..n, T = 1..k PROVE k \in Good
    OBVIOUS
  <2>1. CASE k = 0
    BY <2>1
  <2>2. CASE k # 0
    <3>1. k - 1 \in 0..n /\ k - 1 \in 0..(n - 1) /\ (k - 1) + 1 = k
      BY <2>2
    <3>2. 1..(k - 1) \in SUBSET T /\ 1..(k - 1) # T
      BY <2>2
    <3>3. k - 1 \in Good
      BY <1>1, <3>1, <3>2
    <3> QED BY <3>1, <3>3
  <2> QED BY <2>1, <2>2
<1>2. IsFiniteSet(1..n)
  BY FS_Interval
<1> HIDE DEF All
<1>3. \A T \in SUBSET (1..n) : T \in All
  BY <1>1, <1>2, SubsetInduction
<1>4. 1..n \in All /\ n \in 0..n
  BY <1>3
<1> QED BY <1>4 DEF All

-----------------------------------------------------------------------------
(* The recursion of a fold of op over the sequence s, from v on. *)

Table(op, v, s, g) ==
  g = [T \in SUBSET (1..Len(s)) |->
         IF T = {} THEN v ELSE op[<<g[T \ {Max(T)}], s[Max(T)]>>]]

\* The same, as far as it stays in V
Follows(V, op, v, s, g) ==
  /\ \A T \in SUBSET (1..Len(s)) :
       T # {} /\ g[T \ {Max(T)}] \in V => g[T] = op[<<g[T \ {Max(T)}], s[Max(T)]>>]
  /\ g[{}] = v

Extends(h, n, g, V) == \A T \in SUBSET (1..n) : g[T] \in V /\ g[T] = h[T]

Longer(s, t) == Len(s) <= Len(t) /\ \A k \in 1..Len(s) : s[k] = t[k]

LEMMA Positions ==
  ASSUME NEW C, NEW s \in Seq(C)
  PROVE  /\ Len(s) \in Nat /\ DOMAIN s = 1..Len(s) /\ IsFiniteSet(1..Len(s))
         /\ \A k \in 1..Len(s) : s[k] \in C
         /\ \A T \in SUBSET (1..Len(s)) :
              T # {} => Max(T) \in 1..Len(s) /\ T \ {Max(T)} \in SUBSET T /\ T \ {Max(T)} # T
<1>1. Len(s) \in Nat /\ DOMAIN s = 1..Len(s) /\ \A k \in 1..Len(s) : s[k] \in C
  OBVIOUS
<1>2. PICK n \in Nat : n = Len(s)
  BY <1>1
<1>3. IsFiniteSet(1..n) /\ 1..n \in SUBSET Int
  BY FS_Interval
<1>4. ASSUME NEW T \in SUBSET (1..n), T # {} PROVE Max(T) \in T
  BY <1>3, <1>4, FS_Subset, Largest
<1> QED BY <1>1, <1>2, <1>3, <1>4

\* What follows the recursion stays in V, and is determined by it: it does not
\* depend on the elements that a longer sequence has.
LEMMA FollowsAgree ==
  ASSUME NEW V, NEW C, NEW op \in [V \X C -> V], NEW v \in V,
         NEW s \in Seq(C), NEW t \in Seq(C), Longer(s, t),
         NEW g, Follows(V, op, v, s, g), NEW h, Follows(V, op, v, t, h)
  PROVE  Extends(h, Len(s), g, V)
<1> DEFINE n == Len(s)
           Good == {T \in SUBSET (1..n) : g[T] \in V /\ g[T] = h[T]}
<1>1. /\ n \in Nat /\ IsFiniteSet(1..n) /\ \A k \in 1..n : s[k] \in C
      /\ \A T \in SUBSET (1..n) :
           T # {} => Max(T) \in 1..n /\ T \ {Max(T)} \in SUBSET T /\ T \ {Max(T)} # T
  BY Positions
<1>2. /\ \A T \in SUBSET (1..n) : T \in SUBSET (1..Len(t))
      /\ \A k \in 1..n : s[k] = t[k]
  BY Positions DEF Longer
<1>3. ASSUME NEW T \in SUBSET (1..n), \A U \in SUBSET T : U # T => U \in Good
      PROVE  T \in Good
  <2>1. CASE T = {}
    BY <2>1 DEF Follows
  <2>2. CASE T # {}
    <3>1. PICK k \in 1..n : k = Max(T)
      BY <1>1, <2>2
    <3>2. T \ {k} \in Good
      BY <1>1, <1>3, <2>2, <3>1
    <3>3. g[T \ {k}] \in V /\ g[T \ {k}] = h[T \ {k}]
      BY <3>2
    <3>4. g[T] = op[<<g[T \ {k}], s[k]>>]
      BY <2>2, <3>1, <3>3 DEF Follows
    <3>5. h[T] = op[<<h[T \ {k}], t[k]>>]
      BY <1>2, <2>2, <3>1, <3>3 DEF Follows
    <3>6. s[k] \in C /\ s[k] = t[k]
      BY <1>1, <1>2
    <3>7. g[T] \in V
      BY <3>3, <3>4, <3>6
    <3> QED BY <3>3, <3>4, <3>5, <3>6, <3>7
  <2> QED BY <2>1, <2>2
<1> HIDE DEF Good
<1>4. \A T \in SUBSET (1..n) : T \in Good
  BY <1>1, <1>3, SubsetInduction, ZenonT(60)
<1> QED BY <1>4 DEF Good, Extends

\* The recursion on the subsets of T
Solves(V, op, v, s, T, g) ==
  /\ g \in [SUBSET T -> V]
  /\ \A U \in SUBSET T : g[U] = IF U = {} THEN v ELSE op[<<g[U \ {Max(U)}], s[Max(U)]>>]

AgreeOn(g, h, U) == g[U] = h[U]

LEMMA SolvesAgree ==
  ASSUME NEW V, NEW op, NEW v, NEW s, NEW T, IsFiniteSet(T), T \subseteq Int,
         NEW U \in SUBSET T, NEW g, NEW h, Solves(V, op, v, s, T, g), Solves(V, op, v, s, U, h)
  PROVE  AgreeOn(g, h, U)
<1> DEFINE Same == {W \in SUBSET U : g[W] = h[W]}
<1>1. ASSUME NEW W \in SUBSET U, \A X \in SUBSET W : X # W => X \in Same
      PROVE  W \in Same
  <2>1. W \in SUBSET T
    OBVIOUS
  <2>2. W # {} => Max(W) \in W
    BY FS_Subset, Largest
  <2>3. W # {} => W \ {Max(W)} \in Same
    BY <1>1, <2>2
  <2>4. /\ g[W] = IF W = {} THEN v ELSE op[<<g[W \ {Max(W)}], s[Max(W)]>>]
        /\ h[W] = IF W = {} THEN v ELSE op[<<h[W \ {Max(W)}], s[Max(W)]>>]
    BY <2>1 DEF Solves
  <2> QED BY <2>3, <2>4
<1>2. IsFiniteSet(U)
  BY FS_Subset
<1> HIDE DEF Same
<1>3. \A W \in SUBSET U : W \in Same
  BY <1>1, <1>2, SubsetInduction
<1> QED BY <1>3 DEF Same, AgreeOn

\* The recursion has a solution.
LEMMA TableSolved ==
  ASSUME NEW V, NEW C, NEW op \in [V \X C -> V], NEW v \in V, NEW s \in Seq(C)
  PROVE  \E g \in [SUBSET (1..Len(s)) -> V] : Table(op, v, s, g)
<1> DEFINE n == Len(s)
           Good == {T \in SUBSET (1..n) : \E g : Solves(V, op, v, s, T, g)}
           H(T) == CHOOSE g : Solves(V, op, v, s, T, g)
<1>1. /\ n \in Nat /\ IsFiniteSet(1..n) /\ \A k \in 1..n : s[k] \in C
      /\ \A T \in SUBSET (1..n) :
           T # {} => Max(T) \in 1..n /\ T \ {Max(T)} \in SUBSET T /\ T \ {Max(T)} # T
  BY Positions
<1> HIDE DEF n
<1>2. ASSUME NEW T \in SUBSET (1..n), \A U \in SUBSET T : U # T => U \in Good
      PROVE  T \in Good
  <2>1. \A U \in SUBSET T : U # T => Solves(V, op, v, s, U, H(U))
    BY <1>2
  <2> HIDE DEF H, Good
  <2> DEFINE B(U) == H(U \ {Max(U)})[U \ {Max(U)}]
             h == [U \in SUBSET T |-> IF U = {} THEN v ELSE op[<<B(U), s[Max(U)]>>]]
  <2>2. ASSUME NEW U \in SUBSET T, U # {}
        PROVE  /\ B(U) \in V /\ s[Max(U)] \in C
               /\ U \ {Max(U)} \in SUBSET T /\ U \ {Max(U)} # T
               /\ U \ {Max(U)} \in SUBSET U
    <3>1. PICK m : m = Max(U)
      OBVIOUS
    <3>2. PICK W : W = U \ {m}
      OBVIOUS
    <3>3. U \in SUBSET (1..n)
      OBVIOUS
    <3>4. m \in 1..n /\ W \in SUBSET U /\ W # U
      BY <1>1, <2>2, <3>1, <3>2, <3>3
    <3>5. W \in SUBSET T /\ W # T
      BY <3>2, <3>4
    <3>6. H(W) \in [SUBSET W -> V]
      BY <2>1, <3>5 DEF Solves
    <3>7. H(W)[W] \in V
      BY <3>6
    <3>8. s[m] \in C
      BY <1>1, <3>4
    <3> QED BY <3>1, <3>2, <3>4, <3>5, <3>7, <3>8
  <2>3. h \in [SUBSET T -> V]
    <3>1. \A U \in SUBSET T : (IF U = {} THEN v ELSE op[<<B(U), s[Max(U)]>>]) \in V
      BY <2>2
    <3> HIDE DEF B
    <3> QED BY <3>1
  <2>4. ASSUME NEW U \in SUBSET T, U # T PROVE h[U] = H(U)[U]
    <3>1. Solves(V, op, v, s, U, H(U))
      BY <2>1, <2>4
    <3>2. CASE U = {}
      BY <3>1, <3>2 DEF Solves
    <3>3. CASE U # {}
      <4>1. PICK W : W = U \ {Max(U)}
        OBVIOUS
      <4>2. W \in SUBSET T /\ W # T /\ W \in SUBSET U
        BY <2>2, <3>3, <4>1
      <4>3. Solves(V, op, v, s, W, H(W))
        BY <2>1, <4>2
      <4>4. IsFiniteSet(U) /\ U \subseteq Int
        <5>1. U \in SUBSET (1..n)
          OBVIOUS
        <5>2. IsFiniteSet(1..n) /\ 1..n \subseteq Int
          BY <1>1
        <5> QED BY <5>1, <5>2, FS_Subset
      <4>5. H(U)[W] = H(W)[W]
        <5>1. PICK f : f = H(U)
          OBVIOUS
        <5>2. PICK k : k = H(W)
          OBVIOUS
        <5>3. Solves(V, op, v, s, U, f) /\ Solves(V, op, v, s, W, k)
          BY <3>1, <4>3, <5>1, <5>2
        <5>4. IsFiniteSet(U)
          BY <4>4
        <5>5. U \subseteq Int
          BY <4>4
        <5>6. W \in SUBSET U
          BY <4>2
        <5>7. Solves(V, op, v, s, U, f)
          BY <5>3
        <5>8. Solves(V, op, v, s, W, k)
          BY <5>3
        <5>9. AgreeOn(f, k, W)
          BY <5>4, <5>5, <5>6, <5>7, <5>8, SolvesAgree
        <5> QED BY <5>1, <5>2, <5>9 DEF AgreeOn
      <4>6. H(U)[U] = op[<<H(U)[W], s[Max(U)]>>]
        BY <3>1, <3>3, <4>1 DEF Solves
      <4> QED BY <3>3, <4>1, <4>5, <4>6
    <3> QED BY <3>2, <3>3
  <2>5. ASSUME NEW U \in SUBSET T, U # {} PROVE h[U] = op[<<h[U \ {Max(U)}], s[Max(U)]>>]
    <3>1. PICK W : W = U \ {Max(U)}
      OBVIOUS
    <3>2. W \in SUBSET T /\ W # T
      BY <2>2, <2>5, <3>1
    <3>3. h[W] = H(W)[W]
      BY <2>4, <3>2
    <3> QED BY <2>5, <3>1, <3>3
  <2>6. h[{}] = v
    OBVIOUS
  <2> HIDE DEF h
  <2>7. Solves(V, op, v, s, T, h)
    BY <2>3, <2>5, <2>6 DEF Solves
  <2> QED BY <2>7 DEF Good
<1> HIDE DEF Good
<1>3. \A T \in SUBSET (1..n) : T \in Good
  <2>1. IsFiniteSet(1..n)
    BY <1>1
  <2> QED BY <1>2, <2>1, SubsetInduction, ZenonT(60)
<1>4. 1..n \in Good
  BY <1>3
<1>5. PICK g : Solves(V, op, v, s, 1..n, g)
  BY <1>4 DEF Good
<1>6. g \in [SUBSET (1..n) -> V] /\ Table(op, v, s, g)
  BY <1>5 DEF Table, Solves, n
<1> QED BY <1>6 DEF n

\* A fold stays in V.
LEMMA FollowsIn ==
  ASSUME NEW V, NEW C, NEW op \in [V \X C -> V], NEW v \in V, NEW s \in Seq(C),
         NEW g, Follows(V, op, v, s, g)
  PROVE  g[1..Len(s)] \in V
<1>1. Longer(s, s)
  BY DEF Longer
<1>2. Extends(g, Len(s), g, V)
  BY <1>1, FollowsAgree
<1> QED BY <1>2 DEF Extends

\* On no element it takes no step.
LEMMA FollowsNone ==
  ASSUME NEW V, NEW op, NEW v, NEW g, Follows(V, op, v, <<>>, g)
  PROVE  g[1..Len(<<>>)] = v
<1>1. 1..Len(<<>>) = {}
  OBVIOUS
<1> QED BY <1>1 DEF Follows

\* On one element more a fold takes one step more.
StepsOnce(V, op, g, n, h, c) ==
  /\ g[1..n] \in V
  /\ h[1..(n + 1)] = op[<<g[1..n], c>>]

LEMMA TableAppends ==
  ASSUME NEW V, NEW C, NEW op \in [V \X C -> V], NEW v \in V, NEW s \in Seq(C), NEW c \in C,
         NEW g, Follows(V, op, v, s, g), NEW h, Follows(V, op, v, Append(s, c), h)
  PROVE  StepsOnce(V, op, g, Len(s), h, c)
<1>0. PICK t : t = Append(s, c)
  OBVIOUS
<1>1. PICK n \in Nat : n = Len(s)
  OBVIOUS
<1>2. t \in Seq(C) /\ Len(t) = n + 1 /\ t[n + 1] = c /\ \A k \in 1..n : s[k] = t[k]
  BY <1>0, <1>1
<1>3. Follows(V, op, v, t, h)
  BY <1>0
<1>4. g[1..n] \in V /\ g[1..n] = h[1..n]
  <2>1. Longer(s, t)
    BY <1>1, <1>2 DEF Longer
  <2>2. t \in Seq(C)
    BY <1>2
  <2>3. Extends(h, Len(s), g, V)
    BY <1>3, <2>1, <2>2, FollowsAgree
  <2> QED BY <1>1, <2>3 DEF Extends
<1>5. /\ 1..(n + 1) \in SUBSET (1..Len(t)) /\ 1..(n + 1) # {}
      /\ Max(1..(n + 1)) = n + 1 /\ (1..(n + 1)) \ {n + 1} = 1..n
  <2>1. IsFiniteSet(1..(n + 1)) /\ 1..(n + 1) \in SUBSET Int /\ n + 1 \in 1..(n + 1)
    BY FS_Interval
  <2>2. Max(1..(n + 1)) \in 1..(n + 1) /\ \A y \in 1..(n + 1) : y <= Max(1..(n + 1))
    BY <2>1, Largest
  <2>3. Max(1..(n + 1)) = n + 1
    BY <2>1, <2>2
  <2>4. (1..(n + 1)) \ {n + 1} = 1..n
    OBVIOUS
  <2>5. 1..Len(t) = 1..(n + 1)
    BY <1>2
  <2> QED BY <2>1, <2>3, <2>4, <2>5
<1>6. h[1..(n + 1)] = op[<<h[1..n], t[n + 1]>>]
  BY <1>3, <1>4, <1>5 DEF Follows
<1> QED BY <1>1, <1>2, <1>4, <1>6 DEF StepsOnce

\* A fold is proved about one element after the other: on a sequence up to
\* its position k + 1 it is one step after what it is up to k.
LEMMA FrontGrows ==
  ASSUME NEW C, NEW s \in Seq(C), NEW k \in 0..(Len(s) - 1)
  PROVE  /\ SubSeq(s, 1, k) \in Seq(C) /\ s[k + 1] \in C /\ Len(SubSeq(s, 1, k)) = k
         /\ SubSeq(s, 1, k + 1) = Append(SubSeq(s, 1, k), s[k + 1])
<1>1. Len(s) \in Nat /\ \A i \in 1..Len(s) : s[i] \in C
  OBVIOUS
<1>2. k + 1 \in 1..Len(s)
  BY <1>1
<1> QED BY <1>1, <1>2

LEMMA FrontEnds ==
  ASSUME NEW C, NEW s \in Seq(C)
  PROVE  SubSeq(s, 1, 0) = <<>> /\ SubSeq(s, 1, Len(s)) = s
OBVIOUS
=============================================================================
