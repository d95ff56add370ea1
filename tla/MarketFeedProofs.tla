-------------------------- MODULE MarketFeedProofs --------------------------
(***************************************************************************)
(* What a page shows is the market (FreshPageExact, RejoinedPageCovers),   *)
(* proved from FeedInv.  In order: the binary search keeps a ladder        *)
(* sorted; what each message makes of a view; the folds that replay a      *)
(* stream and append to it, so that a page with the messages of a handler  *)
(* still ahead of it comes to show what they make of what it shows; what   *)
(* each handler of the market, and the snapshot, makes of such a page.     *)
(***************************************************************************)
EXTENDS MarketFeed, MarketProofs

-----------------------------------------------------------------------------
(* The search. *)

\* The bisection, as the equation that its table solves
Bisects(arr, elem, of, find) ==
  find = [range \in (0..Len(arr)) \X (0..Len(arr)) |->
            IF range[1] >= range[2] THEN range[1]
            ELSE IF CompareFn(of, elem, arr[(range[1] + range[2]) \div 2 + 1]) <= 0
                   THEN find[<<range[1], (range[1] + range[2]) \div 2>>]
                   ELSE find[<<(range[1] + range[2]) \div 2 + 1, range[2]>>]]

LEMMA FindIndexDef ==
  ASSUME NEW arr, NEW elem, NEW of
  PROVE  FindIndex(arr, elem, of)
           = (CHOOSE find : Bisects(arr, elem, of, find))[<<0, Len(arr)>>]
BY DEF FindIndex, Bisects

\* Before says which members of a strictly sorted array come before elem.
Sorted(arr, of) ==
  \A i, j \in DOMAIN arr : i < j => CompareFn(of, arr[i], arr[j]) < 0

Precede(arr, elem, of, n) ==
  /\ n \in 0..Len(arr)
  /\ \A k \in 1..Len(arr) : k <= n <=> CompareFn(of, elem, arr[k]) > 0

LEMMA SomePrecede ==
  ASSUME NEW arr \in Seq(Int), NEW of, Sorted(arr, of), NEW elem \in Int
  PROVE  \E n : Precede(arr, elem, of, n)
<1> DEFINE D == {k \in 1..Len(arr) : CompareFn(of, elem, arr[k]) > 0}
<1>0. Len(arr) \in Nat /\ DOMAIN arr = 1..Len(arr)
  OBVIOUS
<1>1. IsFiniteSet(D)
  <2>1. IsFiniteSet(1..Len(arr))
    BY <1>0, FS_Interval
  <2> QED BY <2>1, FS_Subset
<1>2. ASSUME NEW i \in 1..Len(arr), NEW j \in 1..Len(arr), i < j, j \in D PROVE i \in D
  <2>1. arr[i] \in Int /\ arr[j] \in Int /\ CompareFn(of, arr[i], arr[j]) < 0
    BY <1>0, <1>2 DEF Sorted
  <2> QED BY <1>2, <2>1 DEF CompareFn
<1> DEFINE Good == {T \in SUBSET D : T # {} => \E m \in T : \A k \in T : k <= m}
<1>3. ASSUME NEW T \in SUBSET D, \A U \in SUBSET T : U # T => U \in Good
      PROVE  T \in Good
  <2> SUFFICES ASSUME NEW a \in T PROVE \E m \in T : \A k \in T : k <= m
    OBVIOUS
  <2>1. CASE T = {a}
    BY <2>1, <1>0
  <2>2. CASE T # {a}
    <3>1. T \ {a} \in Good /\ T \ {a} # {}
      BY <1>3, <2>2
    <3>2. PICK m \in T \ {a} : \A k \in T \ {a} : k <= m
      BY <3>1
    <3>3. m \in Int /\ a \in Int /\ \A k \in T : k \in Int
      BY <1>0
    <3>4. CASE a <= m
      BY <3>2, <3>3, <3>4
    <3>5. CASE ~(a <= m)
      BY <3>2, <3>3, <3>5
    <3> QED BY <3>4, <3>5
  <2> QED BY <2>1, <2>2
<1> HIDE DEF Good
<1>4. \A T \in SUBSET D : T \in Good
  BY <1>1, <1>3, SubsetInduction
<1>5. CASE D = {}
  <2>1. Precede(arr, elem, of, 0)
    BY <1>0, <1>5 DEF Precede
  <2> QED BY <2>1
<1>6. CASE D # {}
  <2>1. PICK m \in D : \A k \in D : k <= m
    BY <1>4, <1>6 DEF Good
  <2>2. Precede(arr, elem, of, m)
    BY <1>0, <1>2, <2>1 DEF Precede
  <2> QED BY <2>2
<1> QED BY <1>5, <1>6

\* What the search of a part of the array finds.
Found(n, start, end) ==
  IF start >= end THEN start ELSE IF n < start THEN start ELSE IF n > end THEN end ELSE n

LEMMA FoundHalves ==
  ASSUME NEW arr \in Seq(Int), NEW of, NEW elem \in Int, NEW n, Precede(arr, elem, of, n),
         NEW start \in 0..Len(arr), NEW end \in 0..Len(arr), start < end,
         NEW mid, mid = (start + end) \div 2
  PROVE  /\ mid \in start..(end - 1)
         /\ CompareFn(of, elem, arr[mid + 1]) <= 0 => Found(n, start, end) = Found(n, start, mid)
         /\ ~(CompareFn(of, elem, arr[mid + 1]) <= 0) => Found(n, start, end) = Found(n, mid + 1, end)
<1>0. Len(arr) \in Nat /\ n \in Int
  BY DEF Precede
<1>1. mid \in start..(end - 1)
  BY <1>0
<1>2. mid + 1 \in 1..Len(arr) /\ arr[mid + 1] \in Int
  BY <1>0, <1>1
<1>3. CompareFn(of, elem, arr[mid + 1]) \in Int
  BY <1>2 DEF CompareFn
<1>4. mid + 1 <= n <=> ~(CompareFn(of, elem, arr[mid + 1]) <= 0)
  BY <1>2, <1>3 DEF Precede
<1> HIDE DEF CompareFn
<1> QED BY <1>0, <1>1, <1>4 DEF Found

LEMMA BisectsExists ==
  ASSUME NEW arr \in Seq(Int), NEW of, NEW elem \in Int, NEW n, Precede(arr, elem, of, n)
  PROVE  \E find : Bisects(arr, elem, of, find)
<1> DEFINE R == (0..Len(arr)) \X (0..Len(arr))
           f == [range \in R |-> Found(n, range[1], range[2])]
<1>1. ASSUME NEW range \in R, ~(range[1] >= range[2]), NEW mid,
             mid = (range[1] + range[2]) \div 2
      PROVE  f[range] = IF CompareFn(of, elem, arr[mid + 1]) <= 0
                          THEN f[<<range[1], mid>>] ELSE f[<<mid + 1, range[2]>>]
  <2>1. range[1] \in 0..Len(arr) /\ range[2] \in 0..Len(arr) /\ range[1] < range[2]
    BY <1>1
  <2>2. /\ mid \in range[1]..(range[2] - 1)
        /\ CompareFn(of, elem, arr[mid + 1]) <= 0
             => Found(n, range[1], range[2]) = Found(n, range[1], mid)
        /\ ~(CompareFn(of, elem, arr[mid + 1]) <= 0)
             => Found(n, range[1], range[2]) = Found(n, mid + 1, range[2])
    BY <1>1, <2>1, FoundHalves
  <2>3. <<range[1], mid>> \in R /\ <<mid + 1, range[2]>> \in R
    BY <2>1, <2>2
  <2>4. /\ f[<<range[1], mid>>] = Found(n, range[1], mid)
        /\ f[<<mid + 1, range[2]>>] = Found(n, mid + 1, range[2])
        /\ f[range] = Found(n, range[1], range[2])
    BY <2>3
  <2> QED BY <2>2, <2>4
<1>2. \A range \in R : range[1] >= range[2] => f[range] = range[1]
  BY DEF Found
<1>3. \A range \in R : f[range] =
            IF range[1] >= range[2] THEN range[1]
            ELSE IF CompareFn(of, elem, arr[(range[1] + range[2]) \div 2 + 1]) <= 0
                   THEN f[<<range[1], (range[1] + range[2]) \div 2>>]
                   ELSE f[<<(range[1] + range[2]) \div 2 + 1, range[2]>>]
  <2> HIDE DEF f
  <2> QED BY <1>1, <1>2
<1>4. \E g : g = f /\ DOMAIN f = R /\ f = [x \in R |-> f[x]]
  OBVIOUS
<1> HIDE DEF f
<1>5. Bisects(arr, elem, of, f)
  BY <1>3, <1>4 DEF Bisects
<1> QED BY <1>5

LEMMA BisectsFinds ==
  ASSUME NEW arr \in Seq(Int), NEW of, NEW elem \in Int, NEW n, Precede(arr, elem, of, n),
         NEW find, Bisects(arr, elem, of, find)
  PROVE  find[<<0, Len(arr)>>] = n
<1> DEFINE L == Len(arr)
           Splits(T) == \A start, end \in 0..L :
                          T = {k \in 0..L : start <= k /\ k < end}
                            => find[<<start, end>>] = Found(n, start, end)
           Good == {T \in SUBSET (0..L) : Splits(T)}
<1>0. L \in Nat
  OBVIOUS
<1>1. ASSUME NEW T \in SUBSET (0..L), \A U \in SUBSET T : U # T => U \in Good
      PROVE  T \in Good
  <2> SUFFICES ASSUME NEW start \in 0..L, NEW end \in 0..L,
                      T = {k \in 0..L : start <= k /\ k < end}
               PROVE  find[<<start, end>>] = Found(n, start, end)
    OBVIOUS
  <2> DEFINE mid == (start + end) \div 2
             r == <<start, end>>
  <2>1. r \in (0..L) \X (0..L) /\ r[1] = start /\ r[2] = end
    OBVIOUS
  <2>2. find[r] = IF start >= end THEN start
                  ELSE IF CompareFn(of, elem, arr[mid + 1]) <= 0
                         THEN find[<<start, mid>>] ELSE find[<<mid + 1, end>>]
    <3> HIDE DEF r
    <3> QED BY <2>1 DEF Bisects
  <2>3. CASE start >= end
    BY <2>2, <2>3 DEF Found
  <2>4. CASE ~(start >= end)
    <3>1. start < end
      BY <2>4
    <3> DEFINE Lower == {k \in 0..L : start <= k /\ k < mid}
               Upper == {k \in 0..L : mid + 1 <= k /\ k < end}
    <3>2. /\ mid \in start..(end - 1)
          /\ CompareFn(of, elem, arr[mid + 1]) <= 0 => Found(n, start, end) = Found(n, start, mid)
          /\ ~(CompareFn(of, elem, arr[mid + 1]) <= 0) => Found(n, start, end) = Found(n, mid + 1, end)
      BY <3>1, FoundHalves
    <3>3. mid \in 0..L /\ mid + 1 \in 0..L
      BY <3>2, <1>0
    <3> HIDE DEF mid
    <3>4. Lower \in SUBSET T /\ Lower # T /\ Upper \in SUBSET T /\ Upper # T
      <4>1. mid \in T /\ mid \notin Lower /\ mid \notin Upper
        BY <3>2, <3>3
      <4>2. Lower \subseteq T /\ Upper \subseteq T
        BY <3>2, <3>3
      <4> QED BY <4>1, <4>2
    <3>5. Lower \in Good /\ Upper \in Good
      BY <1>1, <3>4
    <3>6. find[<<start, mid>>] = Found(n, start, mid)
      BY <3>3, <3>5
    <3>7. find[<<mid + 1, end>>] = Found(n, mid + 1, end)
      BY <3>3, <3>5
    <3> QED BY <2>2, <2>4, <3>2, <3>6, <3>7
  <2> QED BY <2>3, <2>4
<1>2. IsFiniteSet(0..L)
  BY <1>0, FS_Interval
<1> DEFINE All == {k \in 0..L : 0 <= k /\ k < L}
<1>3. All \in SUBSET (0..L)
  OBVIOUS
<1> HIDE DEF Good
<1>4. \A T \in SUBSET (0..L) : T \in Good
  BY <1>1, <1>2, SubsetInduction
<1>5. find[<<0, L>>] = Found(n, 0, L)
  <2>1. All \in Good
    BY <1>3, <1>4
  <2>2. \A start, end \in 0..L : All = {k \in 0..L : start <= k /\ k < end}
                                  => find[<<start, end>>] = Found(n, start, end)
    BY <2>1 DEF Good
  <2>3. 0 \in 0..L /\ L \in 0..L
    BY <1>0
  <2> HIDE DEF L
  <2> QED BY <2>2, <2>3
<1>6. n \in 0..L
  BY DEF Precede
<1> QED BY <1>0, <1>5, <1>6 DEF Found

\* findIndex finds how many members of a sorted array come before elem.
LEMMA FindsIndex ==
  ASSUME NEW arr \in Seq(Int), NEW of, Sorted(arr, of), NEW elem \in Int
  PROVE  Precede(arr, elem, of, FindIndex(arr, elem, of))
<1>1. PICK n : Precede(arr, elem, of, n)
  BY SomePrecede
<1>2. \E find : Bisects(arr, elem, of, find)
  BY <1>1, BisectsExists
<1> DEFINE find == CHOOSE f : Bisects(arr, elem, of, f)
<1>3. Bisects(arr, elem, of, find)
  BY <1>2
<1>4. FindIndex(arr, elem, of) = find[<<0, Len(arr)>>]
  BY FindIndexDef
<1> HIDE DEF find
<1>5. find[<<0, Len(arr)>>] = n
  BY <1>1, <1>3, BisectsFinds
<1> QED BY <1>1, <1>4, <1>5

\* The two arrays that an insertion and a removal leave.
With(arr, elem, n) ==
  [k \in 1..(Len(arr) + 1) |-> IF k <= n THEN arr[k] ELSE IF k = n + 1 THEN elem ELSE arr[k - 1]]

Without(arr, n) ==
  [k \in 1..(Len(arr) - 1) |-> IF k <= n THEN arr[k] ELSE arr[k + 1]]

LEMMA InsertsAt ==
  ASSUME NEW P, NEW arr \in Seq(P), NEW elem \in P, NEW n \in 0..Len(arr)
  PROVE  InsertAt(arr, n + 1, elem) = With(arr, elem, n)
<1> DEFINE L == Len(arr)
           head == SubSeq(arr, 1, n)
           tail == SubSeq(arr, n + 1, L)
           all  == head \o <<elem>> \o tail
<1>0. L \in Nat /\ n \in Nat /\ n <= L /\ arr = [k \in 1..L |-> arr[k]]
  OBVIOUS
<1>1. head \in Seq(P) /\ Len(head) = n /\ \A k \in 1..n : head[k] = arr[k]
  BY <1>0
<1>2. tail \in Seq(P) /\ Len(tail) = L - n /\ \A k \in 1..(L - n) : tail[k] = arr[n + k]
  BY <1>0
<1>3. InsertAt(arr, n + 1, elem) = all
  <2>1. (n + 1) - 1 = n
    BY <1>0
  <2> QED BY <2>1 DEF InsertAt
<1> HIDE DEF L, head, tail
<1>4. all \in Seq(P) /\ Len(all) = L + 1
  BY <1>0, <1>1, <1>2
<1>5. \A k \in 1..(L + 1) :
        all[k] = IF k <= n THEN arr[k] ELSE IF k = n + 1 THEN elem ELSE arr[k - 1]
  <2>1. \A k \in 1..n : all[k] = head[k]
    BY <1>0, <1>1, <1>2
  <2>2. all[n + 1] = elem
    BY <1>0, <1>1, <1>2
  <2>3. \A k \in (n + 2)..(L + 1) : all[k] = tail[k - n - 1]
    BY <1>0, <1>1, <1>2
  <2>4. \A k \in (n + 2)..(L + 1) : tail[k - n - 1] = arr[k - 1]
    <3>1. \A k \in (n + 2)..(L + 1) : k - n - 1 \in 1..(L - n) /\ n + (k - n - 1) = k - 1
      BY <1>0
    <3> QED BY <1>2, <3>1
  <2> HIDE DEF all
  <2> SUFFICES ASSUME NEW k \in 1..(L + 1)
               PROVE  all[k] = IF k <= n THEN arr[k] ELSE IF k = n + 1 THEN elem ELSE arr[k - 1]
    OBVIOUS
  <2>5. CASE k <= n
    <3>1. k \in 1..n
      BY <1>0, <2>5
    <3>2. head[k] = arr[k]
      BY <1>1, <3>1
    <3> QED BY <2>1, <3>1, <3>2, <2>5
  <2>6. CASE k = n + 1
    BY <1>0, <2>2, <2>6
  <2>7. CASE k > n + 1
    <3>1. k \in (n + 2)..(L + 1) /\ ~(k <= n) /\ k # n + 1
      BY <1>0, <2>7
    <3> QED BY <2>3, <2>4, <3>1
  <2> QED BY <1>0, <2>5, <2>6, <2>7
<1> HIDE DEF all
<1>6. all = [k \in 1..(L + 1) |-> all[k]]
  BY <1>0, <1>4
<1> QED BY <1>3, <1>5, <1>6 DEF With, L

LEMMA RemovesAt ==
  ASSUME NEW P, NEW arr \in Seq(P), NEW n \in Nat, n < Len(arr)
  PROVE  RemoveAt(arr, n + 1) = Without(arr, n)
<1> DEFINE L == Len(arr)
           head == SubSeq(arr, 1, n)
           tail == SubSeq(arr, n + 2, L)
           all  == head \o tail
<1>0. L \in Nat /\ n \in Nat /\ n < L /\ arr = [k \in 1..L |-> arr[k]]
  OBVIOUS
<1>1. head \in Seq(P) /\ Len(head) = n /\ \A k \in 1..n : head[k] = arr[k]
  BY <1>0
<1>2. tail \in Seq(P) /\ Len(tail) = L - n - 1 /\ \A k \in 1..(L - n - 1) : tail[k] = arr[n + 1 + k]
  BY <1>0
<1>3. RemoveAt(arr, n + 1) = all
  <2>1. (n + 1) - 1 = n /\ (n + 1) + 1 = n + 2
    BY <1>0
  <2> QED BY <2>1 DEF RemoveAt
<1> HIDE DEF L, head, tail
<1>4. all \in Seq(P) /\ Len(all) = L - 1
  <2>1. all \in Seq(P) /\ Len(all) = n + (L - n - 1)
    BY <1>0, <1>1, <1>2
  <2> QED BY <1>0, <2>1
<1>5. \A k \in 1..(L - 1) : all[k] = IF k <= n THEN arr[k] ELSE arr[k + 1]
  <2>1. \A k \in 1..n : all[k] = head[k]
    BY <1>0, <1>1, <1>2
  <2>2. \A k \in (n + 1)..(L - 1) : all[k] = tail[k - n]
    BY <1>0, <1>1, <1>2
  <2>3. \A k \in (n + 1)..(L - 1) : tail[k - n] = arr[k + 1]
    <3>1. ASSUME NEW k \in (n + 1)..(L - 1)
          PROVE  k - n \in 1..(L - n - 1) /\ n + 1 + (k - n) = k + 1
      <4>1. n \in Int /\ L \in Int /\ k \in Int /\ n + 1 <= k /\ k <= L - 1
        BY <1>0
      <4> QED BY <4>1
    <3> QED BY <1>2, <3>1
  <2> HIDE DEF all
  <2> SUFFICES ASSUME NEW k \in 1..(L - 1)
               PROVE  all[k] = IF k <= n THEN arr[k] ELSE arr[k + 1]
    OBVIOUS
  <2>4. CASE k <= n
    <3>1. k \in 1..n
      BY <1>0, <2>4
    <3>2. head[k] = arr[k]
      BY <1>1, <3>1
    <3> QED BY <2>1, <3>1, <3>2, <2>4
  <2>5. CASE k > n
    <3>1. k \in (n + 1)..(L - 1) /\ ~(k <= n)
      BY <1>0, <2>5
    <3> QED BY <2>2, <2>3, <3>1
  <2> QED BY <1>0, <2>4, <2>5
<1> HIDE DEF all
<1>6. all = [k \in 1..(L - 1) |-> all[k]]
  BY <1>0, <1>4
<1> QED BY <1>3, <1>5, <1>6 DEF Without, L

LEMMA NumberSeq ==
  ASSUME NEW P \in SUBSET Int, NEW arr \in Seq(P)
  PROVE  /\ Len(arr) \in Nat /\ DOMAIN arr = 1..Len(arr) /\ arr \in Seq(Int)
         /\ \A k \in 1..Len(arr) : arr[k] \in P /\ arr[k] \in Int
<1>1. Len(arr) \in Nat /\ DOMAIN arr = 1..Len(arr) /\ arr = [k \in 1..Len(arr) |-> arr[k]]
  OBVIOUS
<1>2. \A k \in 1..Len(arr) : arr[k] \in P
  OBVIOUS
<1>3. \A k \in 1..Len(arr) : arr[k] \in Int
  BY <1>2
<1>4. arr \in Seq(Int)
  BY <1>1, <1>3
<1> QED BY <1>1, <1>2, <1>3, <1>4

\* insertElem keeps an array sorted and adds elem to what it holds.
LEMMA InsertSorted ==
  ASSUME NEW P \in SUBSET Int, NEW arr \in Seq(P), NEW of, Sorted(arr, of), NEW elem \in P
  PROVE  /\ InsertElem(arr, elem, of) \in Seq(P)
         /\ Sorted(InsertElem(arr, elem, of), of)
         /\ Range(InsertElem(arr, elem, of)) = Range(arr) \cup {elem}
<1> DEFINE n == FindIndex(arr, elem, of)
<1>0. /\ Len(arr) \in Nat /\ DOMAIN arr = 1..Len(arr)
      /\ elem \in Int /\ arr \in Seq(Int) /\ \A k \in 1..Len(arr) : arr[k] \in P /\ arr[k] \in Int
  BY NumberSeq
<1>1. /\ n \in 0..Len(arr)
      /\ \A k \in 1..Len(arr) : k <= n <=> CompareFn(of, elem, arr[k]) > 0
  BY <1>0, FindsIndex DEF Precede
<1>2. InsertElem(arr, elem, of) = IF Holds(arr, n, elem) THEN arr ELSE InsertAt(arr, n + 1, elem)
  BY DEF InsertElem
<1> HIDE DEF n
<1>3. CASE Holds(arr, n, elem)
  <2>1. elem \in Range(arr)
    BY <1>0, <1>1, <1>3 DEF Holds, Range
  <2> QED BY <1>2, <1>3, <2>1
<1>4. CASE ~Holds(arr, n, elem)
  <2> DEFINE new == With(arr, elem, n)
  <2>1. InsertElem(arr, elem, of) = new
    BY <1>1, <1>2, <1>4, InsertsAt
  <2>2. /\ DOMAIN new = 1..(Len(arr) + 1)
        /\ \A k \in 1..(Len(arr) + 1) : new[k] = IF k <= n THEN arr[k]
                                                 ELSE IF k = n + 1 THEN elem ELSE arr[k - 1]
        /\ new = [k \in 1..(Len(arr) + 1) |-> new[k]]
    BY DEF With
  <2> HIDE DEF new
  <2>3. \A k \in 1..(Len(arr) + 1) : new[k] \in P
    BY <1>0, <1>1, <2>2
  <2>4. new \in Seq(P)
    BY <1>0, <2>2, <2>3
  <2>5. \A k \in 1..Len(arr) : k > n => CompareFn(of, elem, arr[k]) < 0
    <3>1. ASSUME n < Len(arr) PROVE CompareFn(of, elem, arr[n + 1]) < 0
      <4>1. n + 1 \in 1..Len(arr)
        BY <1>0, <1>1, <3>1
      <4>2. arr[n + 1] # elem /\ ~(CompareFn(of, elem, arr[n + 1]) > 0)
        BY <1>1, <1>4, <3>1, <4>1 DEF Holds
      <4> QED BY <1>0, <4>1, <4>2 DEF CompareFn
    <3>2. ASSUME NEW k \in 1..Len(arr), k > n + 1 PROVE CompareFn(of, elem, arr[k]) < 0
      <4>1. n + 1 \in 1..Len(arr) /\ n < Len(arr)
        BY <1>0, <1>1, <3>2
      <4>2. CompareFn(of, arr[n + 1], arr[k]) < 0
        BY <1>0, <3>2, <4>1 DEF Sorted
      <4>3. arr[n + 1] \in Int /\ arr[k] \in Int
        BY <1>0, <3>2, <4>1
      <4> QED BY <1>0, <3>1, <4>1, <4>2, <4>3 DEF CompareFn
    <3> QED BY <1>0, <1>1, <3>1, <3>2
  <2>6. \A k \in 1..Len(arr) : k <= n => CompareFn(of, arr[k], elem) < 0
    BY <1>0, <1>1 DEF CompareFn
  <2>7. ASSUME NEW i \in DOMAIN new, NEW j \in DOMAIN new, i < j
        PROVE  CompareFn(of, new[i], new[j]) < 0
    <3>1. \A k, l \in 1..Len(arr) : k < l => CompareFn(of, arr[k], arr[l]) < 0
      BY <1>0 DEF Sorted
    <3>2. CASE j <= n
      BY <1>0, <1>1, <2>2, <2>7, <3>1, <3>2
    <3>3. CASE j = n + 1
      BY <1>0, <1>1, <2>2, <2>6, <2>7, <3>3
    <3>4. CASE j > n + 1 /\ i = n + 1
      BY <1>0, <1>1, <2>2, <2>5, <2>7, <3>4
    <3>5. CASE j > n + 1 /\ i < n + 1
      <4>1. /\ new[i] = arr[i] /\ new[j] = arr[j - 1] 
            /\ i \in 1..Len(arr) /\ j - 1 \in 1..Len(arr) /\ i < j - 1
        BY <1>0, <1>1, <2>2, <2>7, <3>5
      <4> QED BY <3>1, <4>1
    <3>6. CASE j > n + 1 /\ i > n + 1
      <4>1. /\ new[i] = arr[i - 1] /\ new[j] = arr[j - 1] 
            /\ i - 1 \in 1..Len(arr) /\ j - 1 \in 1..Len(arr) /\ i - 1 < j - 1
        BY <1>0, <1>1, <2>2, <2>7, <3>6
      <4> QED BY <3>1, <4>1
    <3> QED BY <1>0, <1>1, <2>2, <3>2, <3>3, <3>4, <3>5, <3>6
  <2>8. Range(new) = Range(arr) \cup {elem}
    <3>1. ASSUME NEW k \in 1..(Len(arr) + 1) PROVE new[k] \in Range(arr) \cup {elem}
      BY <1>0, <1>1, <2>2 DEF Range
    <3>2. new[n + 1] = elem /\ n + 1 \in DOMAIN new
      BY <1>0, <1>1, <2>2
    <3>3. ASSUME NEW k \in 1..Len(arr) PROVE \E l \in DOMAIN new : new[l] = arr[k]
      <4>1. CASE k <= n
        BY <1>0, <1>1, <2>2, <4>1
      <4>2. CASE k > n
        <5>1. k + 1 \in DOMAIN new /\ ~(k + 1 <= n) /\ k + 1 # n + 1 /\ (k + 1) - 1 = k
          BY <1>0, <1>1, <2>2, <4>2
        <5>2. new[k + 1] = arr[k]
          BY <2>2, <5>1
        <5> QED BY <5>1, <5>2
      <4> QED BY <1>0, <1>1, <4>1, <4>2
    <3> QED BY <1>0, <2>2, <3>1, <3>2, <3>3 DEF Range
  <2> QED BY <2>1, <2>4, <2>7, <2>8 DEF Sorted
<1> QED BY <1>3, <1>4

\* removeElem keeps an array sorted and takes elem out of it.
LEMMA RemoveSorted ==
  ASSUME NEW P \in SUBSET Int, NEW arr \in Seq(P), NEW of, Sorted(arr, of), NEW elem \in P
  PROVE  /\ RemoveElem(arr, elem, of) \in Seq(P)
         /\ Sorted(RemoveElem(arr, elem, of), of)
         /\ Range(RemoveElem(arr, elem, of)) = Range(arr) \ {elem}
<1> DEFINE n == FindIndex(arr, elem, of)
<1>0. /\ Len(arr) \in Nat /\ DOMAIN arr = 1..Len(arr)
      /\ elem \in Int /\ arr \in Seq(Int) /\ \A k \in 1..Len(arr) : arr[k] \in P /\ arr[k] \in Int
  BY NumberSeq
<1>1. /\ n \in 0..Len(arr)
      /\ \A k \in 1..Len(arr) : k <= n <=> CompareFn(of, elem, arr[k]) > 0
  BY <1>0, FindsIndex DEF Precede
<1>2. RemoveElem(arr, elem, of) = IF Holds(arr, n, elem) THEN RemoveAt(arr, n + 1) ELSE arr
  BY DEF RemoveElem
<1> HIDE DEF n
<1>3. \A k, l \in 1..Len(arr) : k < l => CompareFn(of, arr[k], arr[l]) < 0
  BY <1>0 DEF Sorted
<1>4. CASE ~Holds(arr, n, elem)
  <2>1. ASSUME NEW k \in 1..Len(arr), arr[k] = elem PROVE FALSE
    <3>1. k > n
      BY <1>0, <1>1, <2>1 DEF CompareFn
    <3>2. n + 1 \in 1..Len(arr) /\ n < Len(arr)
      BY <1>0, <1>1, <3>1
    <3>3. arr[n + 1] # elem /\ ~(CompareFn(of, elem, arr[n + 1]) > 0) /\ arr[n + 1] \in Int
      BY <1>0, <1>1, <1>4, <3>2 DEF Holds
    <3>4. k = n + 1 \/ CompareFn(of, arr[n + 1], arr[k]) < 0
      BY <1>0, <1>1, <1>3, <3>1, <3>2
    <3> QED BY <1>0, <2>1, <3>3, <3>4 DEF CompareFn
  <2>2. elem \notin Range(arr)
    BY <1>0, <2>1 DEF Range
  <2> QED BY <1>2, <1>4, <2>2
<1>5. CASE Holds(arr, n, elem)
  <2> DEFINE new == Without(arr, n)
  <2>0. n + 1 \in 1..Len(arr) /\ n < Len(arr) /\ arr[n + 1] = elem /\ n \in Nat
    BY <1>0, <1>1, <1>5 DEF Holds
  <2>1. RemoveElem(arr, elem, of) = new
    BY <1>2, <1>5, <2>0, RemovesAt
  <2>2. /\ DOMAIN new = 1..(Len(arr) - 1)
        /\ \A k \in 1..(Len(arr) - 1) : new[k] = IF k <= n THEN arr[k] ELSE arr[k + 1]
        /\ new = [k \in 1..(Len(arr) - 1) |-> new[k]]
    BY DEF Without
  <2> HIDE DEF new
  <2>3. \A k \in 1..(Len(arr) - 1) : new[k] \in P
    BY <1>0, <1>1, <2>2
  <2>4. new \in Seq(P)
    BY <1>0, <2>0, <2>2, <2>3
  <2>5. ASSUME NEW i \in DOMAIN new, NEW j \in DOMAIN new, i < j
        PROVE  CompareFn(of, new[i], new[j]) < 0
    <3> DEFINE At(k) == IF k <= n THEN k ELSE k + 1
    <3>1. /\ At(i) \in 1..Len(arr) /\ At(j) \in 1..Len(arr) /\ At(i) < At(j)
          /\ new[i] = arr[At(i)] /\ new[j] = arr[At(j)]
      <4>1. i \in 1..(Len(arr) - 1) /\ j \in 1..(Len(arr) - 1)
        BY <2>2
      <4>2. new[i] = arr[At(i)] /\ new[j] = arr[At(j)]
        BY <2>2, <4>1
      <4>3. At(i) \in 1..Len(arr) /\ At(j) \in 1..Len(arr) /\ At(i) < At(j)
        <5>1. /\ i \in Int /\ j \in Int /\ n \in Int /\ Len(arr) \in Int /\ i < j
              /\ 1 <= i /\ j <= Len(arr) - 1
          BY <1>0, <2>0, <2>5, <4>1
        <5> QED BY <5>1
      <4> QED BY <4>2, <4>3
    <3> HIDE DEF At
    <3> QED BY <1>3, <3>1
  <2>6. \A k \in 1..Len(arr) : k # n + 1 => arr[k] # elem
    <3> SUFFICES ASSUME NEW k \in 1..Len(arr), k # n + 1, arr[k] = elem PROVE FALSE
      OBVIOUS
    <3>1. CompareFn(of, arr[k], arr[n + 1]) < 0 \/ CompareFn(of, arr[n + 1], arr[k]) < 0
      BY <1>0, <1>3, <2>0
    <3> QED BY <1>0, <2>0, <3>1 DEF CompareFn
  <2>7. Range(new) = Range(arr) \ {elem}
    <3>1. ASSUME NEW k \in 1..(Len(arr) - 1) PROVE new[k] \in Range(arr) \ {elem}
      <4>1. CASE k <= n
        BY <1>0, <2>0, <2>2, <2>6, <4>1 DEF Range
      <4>2. CASE k > n
        <5>1. k + 1 \in 1..Len(arr) /\ k + 1 # n + 1 /\ new[k] = arr[k + 1]
          BY <1>0, <2>0, <2>2, <4>2
        <5> QED BY <1>0, <2>6, <5>1 DEF Range
      <4> QED BY <1>0, <2>0, <4>1, <4>2
    <3>2. ASSUME NEW k \in 1..Len(arr), arr[k] # elem PROVE \E l \in DOMAIN new : new[l] = arr[k]
      <4>1. CASE k <= n
        <5>1. k \in DOMAIN new /\ new[k] = arr[k]
          BY <1>0, <2>0, <2>2, <4>1
        <5> QED BY <5>1
      <4>2. CASE k > n
        <5>1. k - 1 \in DOMAIN new /\ new[k - 1] = arr[k]
          BY <1>0, <2>0, <2>2, <3>2, <4>2
        <5> QED BY <5>1
      <4> QED BY <1>0, <2>0, <4>1, <4>2
    <3>3. Range(new) \subseteq Range(arr) \ {elem}
      BY <2>2, <3>1 DEF Range
    <3>4. Range(arr) \ {elem} \subseteq Range(new)
      BY <1>0, <3>2 DEF Range
    <3> QED BY <3>3, <3>4
  <2> QED BY <2>1, <2>4, <2>5, <2>7 DEF Sorted
<1> QED BY <1>4, <1>5

-----------------------------------------------------------------------------
(* What a page can show, and what can be sent to it. *)

Maps(K, V) == UNION {[D -> V] : D \in SUBSET K}

Ladders(of) ==
  {side \in [sizes : Maps(Prices, Int \ {0}), ordered : Seq(Prices),
             rows : Seq([price : Prices, size : Int])] : IsLadder(side, of)}

\* What a pill can show
Pills == [type : OrderTypes, price : Prices, remaining : Nat \ {0}]

Views == [bids : Ladders("bids"), asks : Ladders("asks"), price : {0} \cup Prices,
          account : [count : Int, pnl : Int], pills : Maps(Nat \ {0}, Pills)]

OrderEvents == {"orderSubmitted", "orderExecuted", "orderCancelled"}

PricePoints == [to : {Everybody}, event : {"pricePoint"}, price : Prices, depth : Depth]
LastTrades  == [to : {Everybody}, event : {"trade"}, price : {0} \cup Prices]
Accounts    == [to : Traders, event : {"account"}, position : Position]
OrderEnds   == {m \in [to : Traders, event : OrderEvents, id : Nat \ {0},
                        type : OrderTypes, price : Prices, remaining : 0..LongMax] :
                  m.event = "orderSubmitted" => m.remaining # 0}

Messages == PricePoints \cup LastTrades \cup Accounts \cup OrderEnds

LEMMA PricesInt == Prices \in SUBSET Int /\ 0 \notin Prices /\ \A p \in Prices : p \in Nat \ {0}
BY MarketAssumption

LEMMA LongZeroIn == 0 \in LongRange /\ LongRange \subseteq Int
BY MarketAssumption DEF LongRange

\* Zero, signs, the order of longs and prices survive JSON.parse.
LEMMA DoubleIs ==
  /\ Double(0) = 0 /\ LongMax \in Nat
  /\ \A x \in LongRange : Double(x) \in Int /\ (Double(x) = 0 <=> x = 0)
  /\ \A x \in 0..LongMax : x \in LongRange /\ Double(x) \in Nat
  /\ \A x, y \in 0..LongMax : x <= y => Double(x) <= Double(y)
  /\ \A p \in Prices \cup {0} : Double(p) = p
<1>1. LongMax \in Nat /\ 0 \in LongRange /\ \A x \in 0..LongMax : x \in LongRange /\ 0 <= x
  BY MarketAssumption DEF LongRange
<1>2. /\ \A x \in LongRange : Double(x) \in Int /\ (Double(x) = 0 <=> x = 0)
      /\ \A x, y \in LongRange : x <= y => Double(x) <= Double(y)
      /\ \A p \in Prices : Double(p) = p
  BY DoubleAssumption
<1>3. Double(0) = 0
  BY <1>1, <1>2
<1>4. ASSUME NEW x \in 0..LongMax PROVE Double(x) \in Nat
  <2>1. Double(0) <= Double(x) /\ Double(x) \in Int
    BY <1>1, <1>2
  <2> QED BY <1>3, <2>1
<1> QED BY <1>1, <1>2, <1>3, <1>4

LEMMA InMaps ==
  ASSUME NEW K, NEW V, NEW f
  PROVE  f \in Maps(K, V) <=> /\ f = [k \in DOMAIN f |-> f[k]]
                              /\ DOMAIN f \subseteq K
                              /\ \A k \in DOMAIN f : f[k] \in V
BY DEF Maps

LEMMA RowsOfLadder ==
  ASSUME NEW sizes \in Maps(Prices, Int \ {0}), NEW arr \in Seq(Prices),
         Range(arr) = DOMAIN sizes
  PROVE  UpdateRows(sizes, arr) \in Seq([price : Prices, size : Int])
<1> DEFINE n == IF Rows < Len(arr) THEN Rows ELSE Len(arr)
<1>1. n \in Nat /\ 1..n \subseteq 1..Len(arr) /\ Len(arr) \in Nat /\ DOMAIN arr = 1..Len(arr)
  BY RowsAssumption
<1>2. \A i \in 1..n : arr[i] \in Prices /\ sizes[arr[i]] \in Int
  BY <1>1, InMaps DEF Range
<1>3. UpdateRows(sizes, arr) = [i \in 1..n |-> [price |-> arr[i], size |-> sizes[arr[i]]]]
  BY DEF UpdateRows
<1> HIDE DEF n
<1> QED BY <1>1, <1>2, <1>3

\* The size of a level, and none where there is no level.
SizeAt(side, p) == IF p \in DOMAIN side.sizes THEN side.sizes[p] ELSE 0

\* update changes the one level, and leaves a ladder.
LEMMA UpdateLadder ==
  ASSUME NEW of, NEW side \in Ladders(of), NEW price \in Prices, NEW size \in Int
  PROVE  /\ Update(side, price, size, of) \in Ladders(of)
         /\ \A p : SizeAt(Update(side, price, size, of), p)
                     = IF p = price THEN size ELSE SizeAt(side, p)
<1> DEFINE sizes == IF size = 0
                      THEN [p \in DOMAIN side.sizes \ {price} |-> side.sizes[p]]
                      ELSE [p \in DOMAIN side.sizes \cup {price} |->
                              IF p = price THEN size ELSE side.sizes[p]]
           arr == IF size = 0 THEN RemoveElem(side.ordered, price, of)
                              ELSE InsertElem(side.ordered, price, of)
           new == [sizes |-> sizes, ordered |-> arr, rows |-> UpdateRows(sizes, arr)]
<1>1. Update(side, price, size, of) = new
  BY DEF Update
<1>2. /\ side.sizes \in Maps(Prices, Int \ {0}) /\ side.ordered \in Seq(Prices)
      /\ Sorted(side.ordered, of) /\ Range(side.ordered) = DOMAIN side.sizes
  BY DEF Ladders, IsLadder, Sorted
<1>3. sizes \in Maps(Prices, Int \ {0})
  BY <1>2, InMaps
<1>4. arr \in Seq(Prices) /\ Sorted(arr, of) /\ Range(arr) = DOMAIN sizes
  <2>1. CASE size = 0
    <3>1. /\ RemoveElem(side.ordered, price, of) \in Seq(Prices)
          /\ Sorted(RemoveElem(side.ordered, price, of), of)
          /\ Range(RemoveElem(side.ordered, price, of)) = Range(side.ordered) \ {price}
      BY <1>2, PricesInt, RemoveSorted
    <3> QED BY <1>2, <2>1, <3>1
  <2>2. CASE size # 0
    <3>1. /\ InsertElem(side.ordered, price, of) \in Seq(Prices)
          /\ Sorted(InsertElem(side.ordered, price, of), of)
          /\ Range(InsertElem(side.ordered, price, of)) = Range(side.ordered) \cup {price}
      BY <1>2, PricesInt, InsertSorted
    <3> QED BY <1>2, <2>2, <3>1
  <2> QED BY <2>1, <2>2
<1>5. \A p : SizeAt(new, p) = IF p = price THEN size ELSE SizeAt(side, p)
  BY DEF SizeAt
<1> HIDE DEF sizes, arr
<1>6. UpdateRows(sizes, arr) \in Seq([price : Prices, size : Int])
  BY <1>3, <1>4, RowsOfLadder
<1>7. IsLadder(new, of)
  BY <1>4 DEF IsLadder, Sorted
<1>8. new \in Ladders(of)
  BY <1>3, <1>4, <1>6, <1>7 DEF Ladders
<1> QED BY <1>1, <1>5, <1>8

\* The quantity that an order's pill shows, and none where it has no pill.
PillAt(u, id) == IF id \in DOMAIN u.pills THEN u.pills[id].remaining ELSE 0

LEMMA PillsIn ==
  ASSUME NEW u \in Views
  PROVE  /\ \A id : PillAt(u, id) \in Nat
         /\ \A id : id \in DOMAIN u.pills <=> PillAt(u, id) # 0
         /\ DOMAIN u.pills \subseteq Nat \ {0}
<1>1. u.pills \in Maps(Nat \ {0}, Pills)
  BY DEF Views
<1>2. DOMAIN u.pills \subseteq Nat \ {0} /\ \A id \in DOMAIN u.pills : u.pills[id] \in Pills
  BY <1>1, InMaps
<1>3. \A id \in DOMAIN u.pills : u.pills[id].remaining \in Nat \ {0}
  BY <1>2 DEF Pills
<1> QED BY <1>2, <1>3 DEF PillAt

\* The fields that a message leaves as they are
SameBut(u, new, field) ==
  /\ field # "sides"   => new.bids = u.bids /\ new.asks = u.asks
  /\ field # "price"   => new.price = u.price
  /\ field # "account" => new.account = u.account
  /\ field # "pills"   => new.pills = u.pills

LEMMA ShowPoint ==
  ASSUME NEW u \in Views, NEW m \in PricePoints
  PROVE  /\ Show(u, m) \in Views /\ SameBut(u, Show(u, m), "sides")
         /\ \A p : /\ SizeAt(Show(u, m).bids, p) = IF p = m.price THEN Double(m.depth.bids) ELSE SizeAt(u.bids, p)
                   /\ SizeAt(Show(u, m).asks, p) = IF p = m.price THEN Double(m.depth.asks) ELSE SizeAt(u.asks, p)
<1> DEFINE nb == Double(m.depth.bids)
           na == Double(m.depth.asks)
<1>0. /\ m.event = "pricePoint" /\ m.price \in Prices
      /\ m.depth.bids \in LongRange /\ m.depth.asks \in LongRange
  BY DEF PricePoints, Depth
<1>1. /\ m.event = "pricePoint" /\ m.price \in Prices /\ Double(m.price) = m.price
      /\ nb \in Int /\ na \in Int
  BY <1>0, DoubleIs
<1>2. u.bids \in Ladders("bids") /\ u.asks \in Ladders("asks")
  BY DEF Views
<1> DEFINE b == Update(u.bids, m.price, nb, "bids")
           a == Update(u.asks, m.price, na, "asks")
<1>3. Show(u, m) = [u EXCEPT !.bids = b, !.asks = a]
  BY <1>1 DEF Show
<1> HIDE DEF nb, na
<1>4. /\ b \in Ladders("bids")
      /\ \A p : SizeAt(b, p) = IF p = m.price THEN nb ELSE SizeAt(u.bids, p)
  BY <1>1, <1>2, UpdateLadder
<1>5. /\ a \in Ladders("asks")
      /\ \A p : SizeAt(a, p) = IF p = m.price THEN na ELSE SizeAt(u.asks, p)
  BY <1>1, <1>2, UpdateLadder
<1> HIDE DEF a, b
<1>6. [u EXCEPT !.bids = b, !.asks = a] \in Views
  BY <1>4, <1>5 DEF Views
<1>7. /\ [u EXCEPT !.bids = b, !.asks = a].bids = b /\ [u EXCEPT !.bids = b, !.asks = a].asks = a
      /\ SameBut(u, [u EXCEPT !.bids = b, !.asks = a], "sides")
  BY DEF Views, SameBut
<1> QED BY <1>3, <1>4, <1>5, <1>6, <1>7 DEF nb, na

LEMMA ShowTrade ==
  ASSUME NEW u \in Views, NEW m \in LastTrades
  PROVE  Show(u, m) \in Views /\ SameBut(u, Show(u, m), "price") /\ Show(u, m).price = m.price
<1>1. m.event = "trade" /\ m.price \in {0} \cup Prices
  BY DEF LastTrades
<1>2. Show(u, m) = [u EXCEPT !.price = m.price]
  BY <1>1, DoubleIs DEF Show
<1> QED BY <1>1, <1>2 DEF Views, SameBut

LEMMA ShowAccount ==
  ASSUME NEW u \in Views, NEW m \in Accounts
  PROVE  Show(u, m) \in Views /\ SameBut(u, Show(u, m), "account") /\ Show(u, m).account = Rounded(m.position)
<1>1. m.event = "account" /\ m.position \in Position
  BY DEF Accounts
<1>2. Show(u, m) = [u EXCEPT !.account = Rounded(m.position)]
  BY <1>1 DEF Show
<1>3. m.position.count \in LongRange /\ m.position.pnl \in LongRange
  BY <1>1 DEF Position
<1>4. Rounded(m.position) \in [count : Int, pnl : Int]
  BY <1>3, DoubleIs DEF Rounded
<1> QED BY <1>2, <1>4 DEF Views, SameBut

\* What a message about an order makes of a pill.
Pilled(old, m) ==
  IF m.event = "orderSubmitted" THEN IF old = 0 THEN Double(m.remaining) ELSE old
  ELSE IF m.event = "orderExecuted" THEN IF old = 0 THEN 0 ELSE Double(m.remaining)
  ELSE 0

LEMMA WithPills ==
  ASSUME NEW u \in Views, NEW pills \in Maps(Nat \ {0}, Pills)
  PROVE  /\ [u EXCEPT !.pills = pills] \in Views
         /\ SameBut(u, [u EXCEPT !.pills = pills], "pills")
         /\ [u EXCEPT !.pills = pills].pills = pills
BY DEF Views, SameBut

\* A pill is an old one, or the one of an order that was sent.
PillsFrom(u, new, m) ==
  \A id \in DOMAIN new.pills :
    \/ id \in DOMAIN u.pills /\ new.pills[id] = u.pills[id]
    \/ id = m.id /\ new.pills[id] = Pill(m) /\ m.event # "orderCancelled"

LEMMA PillIs ==
  ASSUME NEW m \in OrderEnds
  PROVE  /\ Pill(m).type = m.type /\ Pill(m).price = m.price
         /\ Pill(m).remaining = Double(m.remaining) /\ Double(m.remaining) \in Nat
         /\ Double(m.remaining) = 0 <=> m.remaining = 0
         /\ m.remaining # 0 => Pill(m) \in Pills
<1>1. m.type \in OrderTypes /\ m.price \in Prices /\ m.remaining \in 0..LongMax
  BY DEF OrderEnds
<1>2. /\ Double(m.price) = m.price /\ Double(m.remaining) \in Nat
      /\ Double(m.remaining) = 0 <=> m.remaining = 0
  BY <1>1, DoubleIs
<1> QED BY <1>1, <1>2 DEF Pill, Pills

LEMMA ShowOrder ==
  ASSUME NEW u \in Views, NEW m \in OrderEnds
  PROVE  /\ Show(u, m) \in Views /\ SameBut(u, Show(u, m), "pills")
         /\ PillsFrom(u, Show(u, m), m)
         /\ \A id : PillAt(Show(u, m), id) = IF id = m.id THEN Pilled(PillAt(u, id), m) ELSE PillAt(u, id)
<1>1. /\ m.event \in OrderEvents /\ m.id \in Nat \ {0}
      /\ m.event = "orderSubmitted" => m.remaining # 0
  BY DEF OrderEnds
<1> DEFINE pill == Pill(m)
<1>0. /\ pill.remaining = Double(m.remaining) /\ pill.remaining \in Nat
      /\ pill.remaining = 0 <=> m.remaining = 0
      /\ m.remaining # 0 => pill \in Pills
  BY PillIs
<1>2. u.pills \in Maps(Nat \ {0}, Pills)
  BY DEF Views
<1>3. /\ DOMAIN u.pills \subseteq Nat \ {0} /\ \A id \in DOMAIN u.pills : u.pills[id] \in Pills
      /\ u.pills = [id \in DOMAIN u.pills |-> u.pills[id]]
      /\ \A id \in DOMAIN u.pills : u.pills[id].remaining # 0
  <2>1. /\ DOMAIN u.pills \subseteq Nat \ {0} /\ \A id \in DOMAIN u.pills : u.pills[id] \in Pills
        /\ u.pills = [id \in DOMAIN u.pills |-> u.pills[id]]
    BY <1>2, InMaps
  <2> QED BY <2>1 DEF Pills
<1> DEFINE put  == Put(u.pills, m.id, pill)
           drop == Drop(u.pills, m.id)
<1>4. /\ DOMAIN put = DOMAIN u.pills \cup {m.id} /\ put = [id \in DOMAIN put |-> put[id]]
      /\ \A id \in DOMAIN put : put[id] = IF id = m.id THEN pill ELSE u.pills[id]
  BY DEF Put
<1>5. /\ DOMAIN drop = DOMAIN u.pills \ {m.id} /\ drop = [id \in DOMAIN drop |-> drop[id]]
      /\ \A id \in DOMAIN drop : drop[id] = u.pills[id]
  BY DEF Drop, Restrict
<1> HIDE DEF put, drop
<1>6. m.remaining # 0 => put \in Maps(Nat \ {0}, Pills)
  BY <1>0, <1>1, <1>3, <1>4, InMaps
<1>7. drop \in Maps(Nat \ {0}, Pills)
  BY <1>3, <1>5, InMaps
<1> DEFINE Result(pills) ==
             /\ pills \in Maps(Nat \ {0}, Pills)
             /\ Show(u, m) = [u EXCEPT !.pills = pills]
             /\ \A id \in DOMAIN pills :
                  \/ id \in DOMAIN u.pills /\ pills[id] = u.pills[id]
                  \/ id = m.id /\ pills[id] = pill /\ m.event # "orderCancelled"
             /\ \A id : (IF id \in DOMAIN pills THEN pills[id].remaining ELSE 0)
                          = IF id = m.id THEN Pilled(PillAt(u, id), m) ELSE PillAt(u, id)
<1>8. \E pills : Result(pills)
  <2>0. u = [u EXCEPT !.pills = u.pills]
    BY DEF Views
  <2> HIDE DEF pill
  <2>1. CASE m.event = "orderSubmitted"
    <3>1. Show(u, m) = IF m.id \in DOMAIN u.pills THEN u ELSE [u EXCEPT !.pills = put]
      BY <2>1 DEF Show, ShowSubmitted, put, pill
    <3>2. CASE m.id \in DOMAIN u.pills
      <4>1. Result(u.pills)
        BY <1>2, <1>3, <2>0, <2>1, <3>1, <3>2 DEF PillAt, Pilled
      <4> QED BY <4>1
    <3>3. CASE m.id \notin DOMAIN u.pills
      <4>1. Result(put)
        BY <1>0, <1>1, <1>3, <1>4, <1>6, <2>1, <3>1, <3>3 DEF PillAt, Pilled
      <4> QED BY <4>1
    <3> QED BY <3>2, <3>3
  <2>2. CASE m.event = "orderExecuted"
    <3>1. Show(u, m) = IF m.id \in DOMAIN u.pills
                         THEN [u EXCEPT !.pills = IF pill.remaining = 0 THEN drop ELSE put] ELSE u
      BY <2>2 DEF Show, ShowExecuted, put, drop, pill
    <3>2. CASE m.id \notin DOMAIN u.pills
      <4>1. Result(u.pills)
        BY <1>2, <1>3, <2>0, <2>2, <3>1, <3>2 DEF PillAt, Pilled
      <4> QED BY <4>1
    <3>3. CASE m.id \in DOMAIN u.pills /\ m.remaining = 0
      <4>1. Result(drop)
        BY <1>0, <1>1, <1>3, <1>5, <1>7, <2>2, <3>1, <3>3 DEF PillAt, Pilled
      <4> QED BY <4>1
    <3>4. CASE m.id \in DOMAIN u.pills /\ m.remaining # 0
      <4>1. Result(put)
        BY <1>0, <1>1, <1>3, <1>4, <1>6, <2>2, <3>1, <3>4 DEF PillAt, Pilled
      <4> QED BY <4>1
    <3> QED BY <3>2, <3>3, <3>4
  <2>3. CASE m.event = "orderCancelled"
    <3>1. Show(u, m) = [u EXCEPT !.pills = drop]
      BY <2>3 DEF Show, drop
    <3>2. Result(drop)
      BY <1>0, <1>1, <1>3, <1>5, <1>7, <2>3, <3>1 DEF PillAt, Pilled
    <3> QED BY <3>2
  <2> QED BY <1>1, <2>1, <2>2, <2>3 DEF OrderEvents
<1>9. PICK pills : Result(pills)
  BY <1>8
<1>10. /\ Show(u, m) \in Views /\ SameBut(u, Show(u, m), "pills") /\ Show(u, m).pills = pills
  BY <1>9, WithPills
<1>11. PillsFrom(u, Show(u, m), m)
  BY <1>9, <1>10 DEF PillsFrom
<1> QED BY <1>9, <1>10, <1>11 DEF PillAt

LEMMA ShowView ==
  ASSUME NEW u \in Views, NEW m \in Messages
  PROVE  Show(u, m) \in Views
BY ShowPoint, ShowTrade, ShowAccount, ShowOrder DEF Messages

LEMMA EmptyIn ==
  ASSUME NEW K, NEW V
  PROVE  [k \in {} |-> k] \in Maps(K, V) /\ [k \in {} |-> 0] \in Maps(K, V)
<1>1. [k \in {} |-> k] \in [{} -> V] /\ [k \in {} |-> 0] \in [{} -> V]
  OBVIOUS
<1>2. [{} -> V] \in {[D -> V] : D \in SUBSET K}
  OBVIOUS
<1> QED BY <1>1, <1>2 DEF Maps

LEMMA BlankViewIs ==
  /\ BlankView \in Views
  /\ \A id : PillAt(BlankView, id) = 0
  /\ \A p : SizeAt(BlankView.bids, p) = 0 /\ SizeAt(BlankView.asks, p) = 0
<1>1. BlankSide \in Ladders("bids") /\ BlankSide \in Ladders("asks")
  <2>1. BlankSide.sizes \in Maps(Prices, Int \ {0}) /\ DOMAIN BlankSide.sizes = {}
    BY EmptyIn DEF BlankSide
  <2>2. UpdateRows(BlankSide.sizes, <<>>) = <<>>
    BY RowsAssumption DEF UpdateRows
  <2>3. BlankSide.ordered = <<>> /\ BlankSide.rows = <<>> /\ Range(<<>>) = {}
    BY DEF BlankSide, Range
  <2>4. IsLadder(BlankSide, "bids") /\ IsLadder(BlankSide, "asks")
    BY <2>1, <2>2, <2>3 DEF IsLadder
  <2> QED BY <2>1, <2>3, <2>4 DEF Ladders, BlankSide
<1>2. [count |-> 0, pnl |-> 0] \in [count : Int, pnl : Int]
  OBVIOUS
<1>3. EmptyMap \in Maps(Nat \ {0}, Pills)
  BY EmptyIn DEF EmptyMap
<1>4. BlankView \in Views
  BY <1>1, <1>2, <1>3 DEF BlankView, Views
<1> QED BY <1>4 DEF BlankView, PillAt, SizeAt, BlankSide, EmptyMap

-----------------------------------------------------------------------------
(* The two folds of the model: a page that replays messages, and a stream  *)
(* to which the messages of a handler are sent one by one.                 *)

\* What a view becomes when it replays messages
Replay(v, s) == FoldLeft(Show, v, s)

IsReplay(v, s, g) ==
  g = [T \in SUBSET (DOMAIN s) |-> IF T = {} THEN v ELSE Show(g[T \ {Max(T)}], s[Max(T)])]

ShowStep == [x \in Views \X Messages |-> Show(x[1], x[2])]

LEMMA ReplayFollows ==
  ASSUME NEW v \in Views, NEW s \in Seq(Messages)
  PROVE  /\ ShowStep \in [Views \X Messages -> Views]
         /\ \E g : Follows(Views, ShowStep, v, s, g) /\ Replay(v, s) = g[1..Len(s)]
         /\ Replay(v, s) \in Views
<1> DEFINE n == Len(s)
           h == CHOOSE g : IsReplay(v, s, g)
<1>1. ShowStep \in [Views \X Messages -> Views]
  <2>1. \A x \in Views, m \in Messages : Show(x, m) \in Views
    BY ShowView
  <2> QED BY <2>1 DEF ShowStep
<1>2. /\ n \in Nat /\ DOMAIN s = 1..n
      /\ \A T \in SUBSET (1..n) : T # {} => s[Max(T)] \in Messages /\ T \ {Max(T)} \in SUBSET (1..n)
  BY Positions
<1>3. \A x \in Views, m \in Messages : ShowStep[<<x, m>>] = Show(x, m)
  BY DEF ShowStep
<1> HIDE DEF n
<1>4. PICK g \in [SUBSET (1..n) -> Views] : Table(ShowStep, v, s, g)
  BY <1>1, TableSolved DEF n
<1>5. IsReplay(v, s, g)
  <2>1. ASSUME NEW T \in SUBSET (1..n), T # {}
        PROVE  ShowStep[<<g[T \ {Max(T)}], s[Max(T)]>>] = Show(g[T \ {Max(T)}], s[Max(T)])
    BY <1>2, <1>3, <2>1
  <2>2. g = [T \in SUBSET (1..n) |-> IF T = {} THEN v
                ELSE ShowStep[<<g[T \ {Max(T)}], s[Max(T)]>>]]
    BY <1>4 DEF Table, n
  <2>3. g = [T \in SUBSET (1..n) |-> IF T = {} THEN v ELSE Show(g[T \ {Max(T)}], s[Max(T)])]
    BY <2>1, <2>2
  <2> QED BY <1>2, <2>3 DEF IsReplay
<1>6. IsReplay(v, s, h)
  BY <1>5
<1>7. Replay(v, s) = h[1..n]
  BY <1>2 DEF Replay, IsReplay, FoldLeft, MapThenFoldSet
<1> HIDE DEF h
<1>8. Follows(Views, ShowStep, v, s, h)
  <2>1. ASSUME NEW T \in SUBSET (1..n), T # {}, h[T \ {Max(T)}] \in Views
        PROVE  h[T] = ShowStep[<<h[T \ {Max(T)}], s[Max(T)]>>]
    <3>1. h[T] = Show(h[T \ {Max(T)}], s[Max(T)])
      BY <1>2, <1>6, <2>1 DEF IsReplay
    <3> QED BY <1>2, <1>3, <2>1, <3>1
  <2>2. h[{}] = v
    BY <1>6 DEF IsReplay
  <2> QED BY <2>1, <2>2 DEF Follows, n
<1>9. h[1..n] \in Views
  BY <1>1, <1>8, FollowsIn DEF n
<1> QED BY <1>1, <1>7, <1>8, <1>9 DEF n

LEMMA ReplayAppend ==
  ASSUME NEW v \in Views, NEW s \in Seq(Messages), NEW m \in Messages
  PROVE  Replay(v, Append(s, m)) = Show(Replay(v, s), m)
<1>1. PICK g : Follows(Views, ShowStep, v, s, g) /\ Replay(v, s) = g[1..Len(s)]
  BY ReplayFollows
<1>2. PICK t : t = Append(s, m)
  OBVIOUS
<1>3. t \in Seq(Messages) /\ Len(t) = Len(s) + 1
  BY <1>2
<1>4. PICK h : Follows(Views, ShowStep, v, t, h) /\ Replay(v, t) = h[1..Len(t)]
  BY <1>3, ReplayFollows
<1>5. StepsOnce(Views, ShowStep, g, Len(s), h, m)
  <2>1. Follows(Views, ShowStep, v, Append(s, m), h)
    BY <1>2, <1>4
  <2>2. Follows(Views, ShowStep, v, s, g)
    BY <1>1
  <2>3. ShowStep \in [Views \X Messages -> Views]
    BY ReplayFollows
  <2> QED BY <2>1, <2>2, <2>3, TableAppends
<1>6. \A x \in Views : ShowStep[<<x, m>>] = Show(x, m)
  BY DEF ShowStep
<1> QED BY <1>1, <1>2, <1>3, <1>4, <1>5, <1>6 DEF StepsOnce

LEMMA ReplayEmpty ==
  ASSUME NEW v \in Views
  PROVE  Replay(v, <<>>) = v
<1>1. <<>> \in Seq(Messages)
  OBVIOUS
<1>2. PICK g : Follows(Views, ShowStep, v, <<>>, g) /\ Replay(v, <<>>) = g[1..Len(<<>>)]
  BY <1>1, ReplayFollows
<1> QED BY <1>2, FollowsNone

LEMMA ReplayView ==
  ASSUME NEW v \in Views, NEW s \in Seq(Messages)
  PROVE  Replay(v, s) \in Views
BY ReplayFollows

Streams == Seq(Messages)

\* A stream to which messages are sent
Sent(w, q, s) == FoldLeft(LAMBDA sent, m : Push(w, sent, m), q, s)

IsSent(w, q, s, g) ==
  g = [T \in SUBSET (DOMAIN s) |-> IF T = {} THEN q ELSE Push(w, g[T \ {Max(T)}], s[Max(T)])]

PushStep(w) == [x \in Streams \X Messages |-> Push(w, x[1], x[2])]

LEMMA SentFollows ==
  ASSUME NEW w, NEW q \in Streams, NEW s \in Seq(Messages)
  PROVE  /\ PushStep(w) \in [Streams \X Messages -> Streams]
         /\ \E g : Follows(Streams, PushStep(w), q, s, g) /\ Sent(w, q, s) = g[1..Len(s)]
         /\ Sent(w, q, s) \in Streams
<1> DEFINE n == Len(s)
           h == CHOOSE g : IsSent(w, q, s, g)
<1>1. PushStep(w) \in [Streams \X Messages -> Streams]
  <2>1. \A x \in Streams, m \in Messages : Push(w, x, m) \in Streams
    BY DEF Push, Streams
  <2> QED BY <2>1 DEF PushStep
<1>2. /\ n \in Nat /\ DOMAIN s = 1..n
      /\ \A T \in SUBSET (1..n) : T # {} => s[Max(T)] \in Messages /\ T \ {Max(T)} \in SUBSET (1..n)
  BY Positions
<1>3. \A x \in Streams, m \in Messages : PushStep(w)[<<x, m>>] = Push(w, x, m)
  BY DEF PushStep
<1> HIDE DEF n
<1>4. PICK g \in [SUBSET (1..n) -> Streams] : Table(PushStep(w), q, s, g)
  BY <1>1, TableSolved DEF n
<1>5. IsSent(w, q, s, g)
  <2>1. ASSUME NEW T \in SUBSET (1..n), T # {}
        PROVE  PushStep(w)[<<g[T \ {Max(T)}], s[Max(T)]>>] = Push(w, g[T \ {Max(T)}], s[Max(T)])
    BY <1>2, <1>3, <2>1
  <2>2. g = [T \in SUBSET (1..n) |-> IF T = {} THEN q
                ELSE PushStep(w)[<<g[T \ {Max(T)}], s[Max(T)]>>]]
    BY <1>4 DEF Table, n
  <2>3. g = [T \in SUBSET (1..n) |-> IF T = {} THEN q ELSE Push(w, g[T \ {Max(T)}], s[Max(T)])]
    BY <2>1, <2>2
  <2> QED BY <1>2, <2>3 DEF IsSent
<1>6. IsSent(w, q, s, h)
  BY <1>5
<1>7. Sent(w, q, s) = h[1..n]
  BY <1>2 DEF Sent, IsSent, FoldLeft, MapThenFoldSet
<1> HIDE DEF h
<1>8. Follows(Streams, PushStep(w), q, s, h)
  <2>1. ASSUME NEW T \in SUBSET (1..n), T # {}, h[T \ {Max(T)}] \in Streams
        PROVE  h[T] = PushStep(w)[<<h[T \ {Max(T)}], s[Max(T)]>>]
    <3>1. h[T] = Push(w, h[T \ {Max(T)}], s[Max(T)])
      BY <1>2, <1>6, <2>1 DEF IsSent
    <3> QED BY <1>2, <1>3, <2>1, <3>1
  <2>2. h[{}] = q
    BY <1>6 DEF IsSent
  <2> QED BY <2>1, <2>2 DEF Follows, n
<1>9. h[1..n] \in Streams
  BY <1>1, <1>8, FollowsIn DEF n
<1> QED BY <1>1, <1>7, <1>8, <1>9 DEF n

LEMMA SentAppend ==
  ASSUME NEW w, NEW q \in Streams, NEW s \in Seq(Messages), NEW m \in Messages
  PROVE  Sent(w, q, Append(s, m)) = Push(w, Sent(w, q, s), m)
<1>1. PICK g : Follows(Streams, PushStep(w), q, s, g) /\ Sent(w, q, s) = g[1..Len(s)]
  BY SentFollows
<1>2. PICK t : t = Append(s, m)
  OBVIOUS
<1>3. t \in Seq(Messages) /\ Len(t) = Len(s) + 1
  BY <1>2
<1>4. PICK h : Follows(Streams, PushStep(w), q, t, h) /\ Sent(w, q, t) = h[1..Len(t)]
  BY <1>3, SentFollows
<1>5. StepsOnce(Streams, PushStep(w), g, Len(s), h, m)
  <2>1. Follows(Streams, PushStep(w), q, Append(s, m), h)
    BY <1>2, <1>4
  <2>2. Follows(Streams, PushStep(w), q, s, g)
    BY <1>1
  <2>3. PushStep(w) \in [Streams \X Messages -> Streams]
    BY SentFollows
  <2> QED BY <2>1, <2>2, <2>3, TableAppends
<1>6. \A x \in Streams : PushStep(w)[<<x, m>>] = Push(w, x, m)
  BY DEF PushStep
<1> QED BY <1>1, <1>2, <1>3, <1>4, <1>5, <1>6 DEF StepsOnce

LEMMA SentEmpty ==
  ASSUME NEW w, NEW q \in Streams
  PROVE  Sent(w, q, <<>>) = q
<1>1. <<>> \in Seq(Messages)
  OBVIOUS
<1>2. PICK g : Follows(Streams, PushStep(w), q, <<>>, g) /\ Sent(w, q, <<>>) = g[1..Len(<<>>)]
  BY <1>1, SentFollows
<1> QED BY <1>2, FollowsNone

LEMMA SentStream ==
  ASSUME NEW w, NEW q \in Streams, NEW s \in Seq(Messages)
  PROVE  Sent(w, q, s) \in Streams
BY SentFollows

\* What a message that is sent does to the page that it reaches.
Hear(w, u, m) == IF m.to \in {w, Everybody} THEN Show(u, m) ELSE u

LEMMA HearSent ==
  ASSUME NEW w, NEW v \in Views, NEW q \in Streams, NEW s \in Seq(Messages), NEW m \in Messages
  PROVE  Replay(v, Sent(w, q, Append(s, m))) = Hear(w, Replay(v, Sent(w, q, s)), m)
<1>1. Sent(w, q, Append(s, m)) = Push(w, Sent(w, q, s), m)
  BY SentAppend
<1>2. Sent(w, q, s) \in Seq(Messages)
  BY SentStream DEF Streams
<1>3. Replay(v, Append(Sent(w, q, s), m)) = Show(Replay(v, Sent(w, q, s)), m)
  BY <1>2, ReplayAppend
<1> QED BY <1>1, <1>3 DEF Push, Hear

\* A replay passes through G[0], G[1], ... if each message leads from one to
\* the next.
LEMMA ReplayThrough ==
  ASSUME NEW v \in Views, NEW q \in Seq(Messages), NEW s \in Seq(Messages), NEW G,
         \A k \in 0..Len(s) : G[k] \subseteq Views,
         Replay(v, q) \in G[0],
         \A k \in 1..Len(s) : \A u \in G[k - 1] : Show(u, s[k]) \in G[k]
  PROVE  Replay(v, q \o s) \in G[Len(s)]
<1> DEFINE n == Len(s)
           Pre(k) == q \o SubSeq(s, 1, k)
           Good == {T \in SUBSET (1..n) : \A k \in 0..n : T = 1..k => Replay(v, Pre(k)) \in G[k]}
<1>0. n \in Nat /\ DOMAIN s = 1..n
  OBVIOUS
<1>1. Pre(0) = q
  OBVIOUS
<1>2. ASSUME NEW k \in 1..n PROVE Pre(k) = Append(Pre(k - 1), s[k]) /\ Pre(k - 1) \in Seq(Messages)
  <2>1. SubSeq(s, 1, k) = Append(SubSeq(s, 1, k - 1), s[k])
    BY <1>0
  <2>2. SubSeq(s, 1, k - 1) \in Seq(Messages) /\ s[k] \in Messages
    BY <1>0
  <2>3. q \o Append(SubSeq(s, 1, k - 1), s[k]) = Append(q \o SubSeq(s, 1, k - 1), s[k])
    BY <2>2
  <2> QED BY <2>1, <2>2, <2>3
<1>3. Pre(n) = q \o s
  BY <1>0
<1> HIDE DEF Pre
<1>4. ASSUME NEW T \in SUBSET (1..n), \A U \in SUBSET T : U # T => U \in Good
      PROVE  T \in Good
  <2> SUFFICES ASSUME NEW k \in 0..n, T = 1..k PROVE Replay(v, Pre(k)) \in G[k]
    OBVIOUS
  <2>1. CASE k = 0
    BY <1>1, <2>1
  <2>2. CASE k # 0
    <3>1. k \in 1..n /\ k - 1 \in 0..n
      BY <1>0, <2>2
    <3>2. 1..(k - 1) \in SUBSET T /\ 1..(k - 1) # T
      BY <1>0, <3>1
    <3>3. Replay(v, Pre(k - 1)) \in G[k - 1]
      BY <1>4, <3>1, <3>2
    <3>4. s[k] \in Messages
      BY <1>0, <3>1
    <3>5. Replay(v, Pre(k)) = Show(Replay(v, Pre(k - 1)), s[k])
      BY <1>2, <3>1, <3>4, ReplayAppend
    <3> QED BY <3>1, <3>3, <3>5
  <2> QED BY <2>1, <2>2
<1> HIDE DEF Good
<1>5. IsFiniteSet(1..n)
  <2>1. n \in Int
    BY <1>0
  <2> HIDE DEF n
  <2> QED BY <2>1, FS_Interval
<1>6. \A T \in SUBSET (1..n) : T \in Good
  BY <1>4, <1>5, SubsetInduction
<1>7. 1..n \in Good /\ n \in 0..n
  BY <1>0, <1>6
<1>8. Replay(v, Pre(n)) \in G[n]
  BY <1>7 DEF Good
<1> QED BY <1>3, <1>8

\* A replay of harmless messages stays in a set of views.
LEMMA ReplayIn ==
  ASSUME NEW G \in SUBSET Views, NEW M \in SUBSET Messages, NEW v \in G, NEW s \in Seq(M),
         \A u \in G, m \in M : Show(u, m) \in G
  PROVE  Replay(v, s) \in G
<1> DEFINE H == [k \in 0..Len(s) |-> G]
<1>1. s \in Seq(Messages) /\ Len(s) \in Nat /\ \A k \in 1..Len(s) : s[k] \in M
  OBVIOUS
<1>2. <<>> \in Seq(Messages) /\ <<>> \o s = s
  OBVIOUS
<1>3. \A k \in 0..Len(s) : H[k] = G
  OBVIOUS
<1>4. \A k \in 1..Len(s) : H[k - 1] = G
  BY <1>1
<1>5. Replay(v, <<>>) = v
  BY ReplayEmpty
<1>6. H[0] = G /\ H[Len(s)] = G
  BY <1>1, <1>3
<1> HIDE DEF H
<1>7. \A k \in 0..Len(s) : H[k] \subseteq Views
  BY <1>3
<1>8. Replay(v, <<>>) \in H[0]
  BY <1>5, <1>6
<1>9. \A k \in 1..Len(s) : \A u \in H[k - 1] : Show(u, s[k]) \in H[k]
  BY <1>1, <1>3, <1>4
<1>10. Replay(v, <<>> \o s) \in H[Len(s)]
  BY <1>1, <1>2, <1>7, <1>8, <1>9, ReplayThrough
<1> QED BY <1>2, <1>6, <1>10

-----------------------------------------------------------------------------
(* The invariant of the feed, in terms of what a view shows and of what    *)
(* the market holds: a trader's own orders (own), all orders (os), how     *)
(* many were placed (count), the price points and the last trade.          *)

\* What is left of an order of the trader, and nothing of any other.
Owed(own, os, id) == IF id \in own THEN Double(os[id].quantity) ELSE 0

\* A pill shows no less than is left of its order, and if the order is open
\* its side and a price within its limit.
Honest(pill, own, os, id) ==
  /\ pill.remaining >= Owed(own, os, id)
  /\ id \in own => Suits(pill, os[id])

\* All pills are honest, and none is of an order to come.  So a page that lost
\* its connection may go on where it stopped.
Patient(own, os, count) ==
  {u \in Views : \A id \in DOMAIN u.pills : id <= count /\ Honest(u.pills[id], own, os, id)}

\* Nor is a message under way that makes another pill.
Fit(own, os, count) ==
  {m \in Messages : m \in OrderEnds =>
     /\ m.id <= count
     /\ m.event # "orderCancelled" => Honest(Pill(m), own, os, m.id)}

\* A view misses nothing of the market.
Covers(u, points, last, position, own, os) ==
  /\ u.price = last.price /\ u.account = Rounded(position)
  /\ \A p \in DOMAIN points : /\ SizeAt(u.bids, p) = Double(points[p].bids)
                              /\ SizeAt(u.asks, p) = Double(points[p].asks)
  /\ \A id \in own : PillAt(u, id) >= Double(os[id].quantity)

\* A view shows no more than the market either.
Mirrors(u, points, own, os) ==
  /\ \A p \in Prices : /\ SizeAt(u.bids, p) = Double(DepthAt(points, p).bids)
                       /\ SizeAt(u.asks, p) = Double(DepthAt(points, p).asks)
  /\ \A id \in Nat : PillAt(u, id) = Owed(own, os, id)

PageInv(w) ==
  /\ view[w] \in Patient(traderOrders[w], orders, orderCount)
  /\ stream[w] \in Seq(Fit(traderOrders[w], orders, orderCount))
  /\ page[w] \in {"connected", "retrying"} => w \in DOMAIN accounts
  /\ page[w] = "connected" =>
       /\ Covers(Replayed(w), pricePoints, lastTrade, accounts[w], traderOrders[w], orders)
       /\ ~rejoined[w] => Mirrors(Replayed(w), pricePoints, traderOrders[w], orders)

FeedInv == FeedTypeOK /\ BookIntegrity /\ \A w \in Watchers : PageInv(w)

-----------------------------------------------------------------------------
(* Patience is kept. *)

LEMMA PatientShow ==
  ASSUME NEW own, NEW os, NEW count \in Nat,
         NEW u \in Patient(own, os, count), NEW m \in Fit(own, os, count)
  PROVE  Show(u, m) \in Patient(own, os, count)
<1>1. u \in Views /\ m \in Messages
  BY DEF Patient, Fit
<1>2. /\ \A id \in DOMAIN u.pills : id <= count /\ Honest(u.pills[id], own, os, id)
      /\ m \in OrderEnds => /\ m.id <= count
                            /\ m.event # "orderCancelled" => Honest(Pill(m), own, os, m.id)
  BY DEF Patient, Fit
<1>3. CASE m \in OrderEnds
  <2>1. Show(u, m) \in Views /\ PillsFrom(u, Show(u, m), m)
    BY <1>1, <1>3, ShowOrder
  <2>2. \A id \in DOMAIN Show(u, m).pills : id <= count /\ Honest(Show(u, m).pills[id], own, os, id)
    BY <1>2, <1>3, <2>1 DEF PillsFrom
  <2> QED BY <2>1, <2>2 DEF Patient
<1>4. CASE m \notin OrderEnds
  <2>1. Show(u, m) \in Views /\ Show(u, m).pills = u.pills
    BY <1>1, <1>4, ShowPoint, ShowTrade, ShowAccount DEF Messages, SameBut
  <2> QED BY <1>2, <2>1 DEF Patient
<1> QED BY <1>3, <1>4

LEMMA PatientReplay ==
  ASSUME NEW own, NEW os, NEW count \in Nat,
         NEW u \in Patient(own, os, count), NEW s \in Seq(Fit(own, os, count))
  PROVE  Replay(u, s) \in Patient(own, os, count)
<1>1. Patient(own, os, count) \in SUBSET Views /\ Fit(own, os, count) \in SUBSET Messages
  BY DEF Patient, Fit
<1>2. \A x \in Patient(own, os, count), m \in Fit(own, os, count) : Show(x, m) \in Patient(own, os, count)
  BY PatientShow
<1> QED BY <1>1, <1>2, ReplayIn

\* What is left of an order never grows, and orders to come are new.
Eases(own, os, count, own2, os2, count2) ==
  /\ count \in Nat /\ count2 \in Nat /\ count <= count2
  /\ \A id \in Nat : id <= count =>
       /\ Owed(own, os, id) \in Nat /\ Owed(own2, os2, id) \in Nat
       /\ Owed(own2, os2, id) <= Owed(own, os, id)
       /\ id \in own2 => id \in own /\ os2[id].type = os[id].type /\ os2[id].price = os[id].price

LEMMA EasesHonest ==
  ASSUME NEW own, NEW os, NEW count, NEW own2, NEW os2, NEW count2,
         Eases(own, os, count, own2, os2, count2), NEW id \in Nat, id <= count,
         NEW pill, pill.remaining \in Nat, Honest(pill, own, os, id)
  PROVE  id <= count2 /\ Honest(pill, own2, os2, id)
<1>1. /\ id <= count2 /\ Owed(own, os, id) \in Nat /\ Owed(own2, os2, id) \in Nat
      /\ Owed(own2, os2, id) <= Owed(own, os, id)
      /\ id \in own2 => id \in own /\ os2[id].type = os[id].type /\ os2[id].price = os[id].price
  BY DEF Eases
<1>2. pill.remaining >= Owed(own2, os2, id)
  BY <1>1 DEF Honest
<1>3. id \in own2 => Suits(pill, os2[id])
  BY <1>1 DEF Honest, Suits
<1> QED BY <1>1, <1>2, <1>3 DEF Honest

LEMMA EasesKeeps ==
  ASSUME NEW own, NEW os, NEW count, NEW own2, NEW os2, NEW count2,
         Eases(own, os, count, own2, os2, count2)
  PROVE  /\ Patient(own, os, count) \subseteq Patient(own2, os2, count2)
         /\ Fit(own, os, count) \subseteq Fit(own2, os2, count2)
<1>1. ASSUME NEW u \in Patient(own, os, count) PROVE u \in Patient(own2, os2, count2)
  <2>1. u \in Views /\ DOMAIN u.pills \subseteq Nat /\ \A id \in DOMAIN u.pills : u.pills[id].remaining \in Nat
    BY PillsIn DEF Patient, PillAt
  <2>2. ASSUME NEW id \in DOMAIN u.pills PROVE id <= count2 /\ Honest(u.pills[id], own2, os2, id)
    <3>1. id \in Nat /\ u.pills[id].remaining \in Nat
      BY <2>1
    <3>2. id <= count /\ Honest(u.pills[id], own, os, id)
      BY DEF Patient
    <3> QED BY <3>1, <3>2, EasesHonest
  <2> QED BY <2>1, <2>2 DEF Patient
<1>2. ASSUME NEW m \in Fit(own, os, count) PROVE m \in Fit(own2, os2, count2)
  <2>1. m \in Messages
    BY DEF Fit
  <2>2. ASSUME m \in OrderEnds
        PROVE  m.id <= count2 /\ (m.event # "orderCancelled" => Honest(Pill(m), own2, os2, m.id))
    <3>1. m.id \in Nat /\ Pill(m).remaining \in Nat
      BY <2>2, PillIs DEF OrderEnds
    <3>2. m.id <= count /\ (m.event # "orderCancelled" => Honest(Pill(m), own, os, m.id))
      BY <2>2 DEF Fit
    <3>3. m.id <= count2
      BY <3>1, <3>2 DEF Eases
    <3> QED BY <3>1, <3>2, <3>3, EasesHonest
  <2> QED BY <2>1, <2>2 DEF Fit
<1> QED BY <1>1, <1>2

-----------------------------------------------------------------------------
(* What the messages of a handler make of a page. *)

LEMMA WatcherIs ==
  ASSUME NEW w \in Watchers
  PROVE  w \in Traders /\ w # Everybody
BY FeedAssumption

\* Both sides follow a price point, and nothing else does.
PointShown(u, new, m) ==
  /\ SameBut(u, new, "sides")
  /\ \A p : /\ SizeAt(new.bids, p) = IF p = m.price THEN Double(m.depth.bids) ELSE SizeAt(u.bids, p)
            /\ SizeAt(new.asks, p) = IF p = m.price THEN Double(m.depth.asks) ELSE SizeAt(u.asks, p)

LEMMA HearPoint ==
  ASSUME NEW w, NEW u \in Views, NEW m \in PricePoints
  PROVE  Hear(w, u, m) \in Views /\ PointShown(u, Hear(w, u, m), m)
<1>1. m.to = Everybody
  BY DEF PricePoints
<1>2. Hear(w, u, m) = Show(u, m)
  BY <1>1 DEF Hear
<1>3. /\ Show(u, m) \in Views /\ SameBut(u, Show(u, m), "sides")
      /\ \A p : /\ SizeAt(Show(u, m).bids, p) = IF p = m.price THEN Double(m.depth.bids) ELSE SizeAt(u.bids, p)
                /\ SizeAt(Show(u, m).asks, p) = IF p = m.price THEN Double(m.depth.asks) ELSE SizeAt(u.asks, p)
  BY ShowPoint
<1>4. PointShown(u, Show(u, m), m)
  BY <1>3 DEF PointShown
<1> QED BY <1>2, <1>3, <1>4

LEMMA HearTrade ==
  ASSUME NEW w, NEW u \in Views, NEW m \in LastTrades
  PROVE  /\ Hear(w, u, m) \in Views /\ SameBut(u, Hear(w, u, m), "price")
         /\ Hear(w, u, m).price = m.price
<1>1. m.to = Everybody
  BY DEF LastTrades
<1>2. Hear(w, u, m) = Show(u, m)
  BY <1>1 DEF Hear
<1> QED BY <1>2, ShowTrade

LEMMA HearAccount ==
  ASSUME NEW w \in Watchers, NEW u \in Views, NEW m \in Accounts
  PROVE  /\ Hear(w, u, m) \in Views /\ SameBut(u, Hear(w, u, m), "account")
         /\ Hear(w, u, m).account = IF m.to = w THEN Rounded(m.position) ELSE u.account
<1>1. m.to \in Traders /\ m.to # Everybody
  BY FeedAssumption DEF Accounts
<1>2. Hear(w, u, m) = IF m.to = w THEN Show(u, m) ELSE u
  BY <1>1 DEF Hear
<1> QED BY <1>2, ShowAccount DEF SameBut

LEMMA HearOrder ==
  ASSUME NEW w \in Watchers, NEW u \in Views, NEW m \in OrderEnds
  PROVE  /\ Hear(w, u, m) \in Views /\ SameBut(u, Hear(w, u, m), "pills")
         /\ \A id : PillAt(Hear(w, u, m), id)
                      = IF id = m.id /\ m.to = w THEN Pilled(PillAt(u, id), m) ELSE PillAt(u, id)
<1>1. m.to \in Traders /\ m.to # Everybody
  BY FeedAssumption DEF OrderEnds
<1>2. Hear(w, u, m) = IF m.to = w THEN Show(u, m) ELSE u
  BY <1>1 DEF Hear
<1> QED BY <1>2, ShowOrder DEF SameBut

LEMMA PointIn ==
  ASSUME NEW points, points \in [DOMAIN points -> Depth], NEW p \in Prices
  PROVE  /\ DepthAt(points, p) \in Depth
         /\ PricePointMsg(p, DepthAt(points, p)) \in PricePoints
         /\ PricePointMsg(p, DepthAt(points, p)).price = p
         /\ PricePointMsg(p, DepthAt(points, p)).depth = DepthAt(points, p)
<1>1. NoDepth \in Depth
  BY LongZeroIn DEF NoDepth, Depth
<1>2. DepthAt(points, p) \in Depth
  BY <1>1 DEF DepthAt
<1> QED BY <1>2 DEF PricePointMsg, PricePoints

LEMMA OrderIn ==
  ASSUME NEW event \in OrderEvents, NEW t \in Traders, NEW id \in Nat \ {0},
         NEW type \in OrderTypes, NEW p \in Prices, NEW q \in 0..LongMax,
         event = "orderSubmitted" => q # 0
  PROVE  LET m == OrderMsg(event, t, id, type, p, q) IN
         /\ m \in OrderEnds /\ m.event = event /\ m.to = t /\ m.id = id /\ m.remaining = q
         /\ Pill(m).type = type /\ Pill(m).price = p /\ Pill(m).remaining = Double(q)
<1> DEFINE m == OrderMsg(event, t, id, type, p, q)
<1>1. /\ m \in OrderEnds /\ m.event = event /\ m.to = t /\ m.id = id /\ m.remaining = q
      /\ m.type = type /\ m.price = p
  BY DEF OrderMsg, OrderEnds
<1> HIDE DEF m
<1>2. Pill(m).type = type /\ Pill(m).price = p /\ Pill(m).remaining = Double(q)
  BY <1>1, PillIs
<1> QED BY <1>1, <1>2 DEF m

\* An order as it is sent when it is open
LEMMA OpenOrderIn ==
  ASSUME NEW event \in OrderEvents, NEW id \in Nat \ {0}, NEW o \in Order
  PROVE  LET m == OpenOrderMsg(event, id, o) IN
         /\ m \in OrderEnds /\ m.event = event /\ m.to = o.trader /\ m.id = id
         /\ m.remaining = o.quantity /\ Pill(m).remaining = Double(o.quantity)
         /\ Suits(Pill(m), o)
<1>1. /\ o.trader \in Traders /\ o.type \in OrderTypes /\ o.price \in Prices
      /\ o.quantity \in 0..LongMax /\ o.quantity # 0
  BY DoubleIs DEF Order
<1>2. LET m == OpenOrderMsg(event, id, o) IN
      /\ m \in OrderEnds /\ m.event = event /\ m.to = o.trader /\ m.id = id /\ m.remaining = o.quantity
      /\ Pill(m).type = o.type /\ Pill(m).price = o.price /\ Pill(m).remaining = Double(o.quantity)
  BY <1>1, OrderIn DEF OpenOrderMsg
<1>3. o.price \in Int
  BY <1>1, PricesInt
<1> QED BY <1>2, <1>3 DEF Suits

LEMMA FitIs ==
  ASSUME NEW own, NEW os, NEW count
  PROVE  /\ \A m \in PricePoints \cup LastTrades \cup Accounts : m \in Fit(own, os, count)
         /\ \A m \in OrderEnds :
              m.id <= count /\ (m.event # "orderCancelled" => Honest(Pill(m), own, os, m.id))
                => m \in Fit(own, os, count)
         /\ Fit(own, os, count) \subseteq Messages
<1>1. ASSUME NEW m \in PricePoints \cup LastTrades \cup Accounts PROVE m \notin OrderEnds
  BY DEF PricePoints, LastTrades, Accounts, OrderEnds, OrderEvents
<1> QED BY <1>1 DEF Fit, Messages

\* A stream of messages of F to which s was sent, and the view u that it leaves
Leaves(w, F, q, v, s, u) ==
  /\ F \subseteq Messages /\ q \in Seq(F) /\ s \in Seq(F) /\ v \in Views
  /\ Sent(w, q, s) \in Seq(F)
  /\ Replay(v, Sent(w, q, s)) = u

LEMMA LeavesNone ==
  ASSUME NEW w, NEW F \in SUBSET Messages, NEW q \in Seq(F), NEW v \in Views
  PROVE  Leaves(w, F, q, v, <<>>, Replay(v, q))
<1>1. Sent(w, q, <<>>) = q
  BY SentEmpty DEF Streams
<1>2. <<>> \in Seq(F)
  OBVIOUS
<1> QED BY <1>1, <1>2 DEF Leaves

LEMMA LeavesOne ==
  ASSUME NEW w, NEW F, NEW q, NEW v, NEW s, NEW u, Leaves(w, F, q, v, s, u), NEW m \in F
  PROVE  Leaves(w, F, q, v, Append(s, m), Hear(w, u, m))
<1>1. /\ F \subseteq Messages /\ q \in Seq(F) /\ s \in Seq(F) /\ v \in Views
      /\ Sent(w, q, s) \in Seq(F)
      /\ Replay(v, Sent(w, q, s)) = u
  BY DEF Leaves
<1>2. q \in Streams /\ q \in Seq(Messages) /\ s \in Seq(Messages) /\ m \in Messages
  BY <1>1 DEF Streams
<1>3. Sent(w, q, Append(s, m)) = Push(w, Sent(w, q, s), m)
  BY <1>2, SentAppend
<1>4. Push(w, Sent(w, q, s), m) \in Seq(F)
  BY <1>1 DEF Push
<1>5. Append(s, m) \in Seq(F)
  BY <1>1
<1>6. Replay(v, Sent(w, q, Append(s, m))) = Hear(w, Replay(v, Sent(w, q, s)), m)
  BY <1>1, <1>2, HearSent
<1> QED BY <1>1, <1>3, <1>4, <1>5, <1>6 DEF Leaves

LEMMA LeavesTwo ==
  ASSUME NEW w, NEW F \in SUBSET Messages, NEW q \in Seq(F), NEW v \in Views,
         NEW a \in F, NEW b \in F
  PROVE  Leaves(w, F, q, v, <<a, b>>, Hear(w, Hear(w, Replay(v, q), a), b))
<1>1. <<a, b>> = Append(Append(<<>>, a), b)
  OBVIOUS
<1>2. Leaves(w, F, q, v, <<>>, Replay(v, q))
  BY LeavesNone
<1>3. Leaves(w, F, q, v, Append(<<>>, a), Hear(w, Replay(v, q), a))
  BY <1>2, LeavesOne
<1>4. Leaves(w, F, q, v, Append(Append(<<>>, a), b), Hear(w, Hear(w, Replay(v, q), a), b))
  BY <1>3, LeavesOne
<1> QED BY <1>1, <1>4

LEMMA SevenAppended ==
  ASSUME NEW F, NEW a \in F, NEW b \in F, NEW c \in F, NEW d \in F, NEW e \in F, NEW f \in F, NEW g \in F
  PROVE  Append(Append(Append(Append(Append(<<a, b>>, c), d), e), f), g) = <<a, b, c, d, e, f, g>>
<1>3. <<a, b, c>> = Append(<<a, b>>, c)
  OBVIOUS
<1>4. <<a, b, c, d>> = Append(<<a, b, c>>, d)
  OBVIOUS
<1>5. <<a, b, c, d, e>> = Append(<<a, b, c, d>>, e)
  OBVIOUS
<1>6. <<a, b, c, d, e, f>> = Append(<<a, b, c, d, e>>, f)
  OBVIOUS
<1>7. <<a, b, c, d, e, f, g>> = Append(<<a, b, c, d, e, f>>, g)
  OBVIOUS
<1> QED BY <1>3, <1>4, <1>5, <1>6, <1>7

LEMMA LeavesSeven ==
  ASSUME NEW w, NEW F \in SUBSET Messages, NEW q \in Seq(F), NEW v \in Views,
         NEW a \in F, NEW b \in F, NEW c \in F, NEW d \in F, NEW e \in F, NEW f \in F, NEW g \in F,
         NEW u1, u1 = Hear(w, Replay(v, q), a), NEW u2, u2 = Hear(w, u1, b),
         NEW u3, u3 = Hear(w, u2, c), NEW u4, u4 = Hear(w, u3, d), NEW u5, u5 = Hear(w, u4, e),
         NEW u6, u6 = Hear(w, u5, f), NEW u7, u7 = Hear(w, u6, g)
  PROVE  Leaves(w, F, q, v, <<a, b, c, d, e, f, g>>, u7)
<1> DEFINE t2 == <<a, b>>
           t3 == Append(t2, c)
           t4 == Append(t3, d)
           t5 == Append(t4, e)
           t6 == Append(t5, f)
           t7 == Append(t6, g)
<1>0. t7 = <<a, b, c, d, e, f, g>>
  BY SevenAppended
<1>1. t2 = <<a, b>>
  OBVIOUS
<1> HIDE DEF t2
<1>2. Leaves(w, F, q, v, t2, u2)
  BY <1>1, LeavesTwo
<1>3. Leaves(w, F, q, v, t3, u3)
  <2> HIDE DEF t2
  <2>1. Leaves(w, F, q, v, Append(t2, c), Hear(w, u2, c))
    BY <1>2, LeavesOne
  <2> QED BY <2>1
<1>4. Leaves(w, F, q, v, t4, u4)
  <2> HIDE DEF t3
  <2>1. Leaves(w, F, q, v, Append(t3, d), Hear(w, u3, d))
    BY <1>3, LeavesOne
  <2> QED BY <2>1
<1>5. Leaves(w, F, q, v, t5, u5)
  <2> HIDE DEF t4
  <2>1. Leaves(w, F, q, v, Append(t4, e), Hear(w, u4, e))
    BY <1>4, LeavesOne
  <2> QED BY <2>1
<1>6. Leaves(w, F, q, v, t6, u6)
  <2> HIDE DEF t5
  <2>1. Leaves(w, F, q, v, Append(t5, f), Hear(w, u5, f))
    BY <1>5, LeavesOne
  <2> QED BY <2>1
<1>7. Leaves(w, F, q, v, t7, u7)
  <2> HIDE DEF t6
  <2>1. Leaves(w, F, q, v, Append(t6, g), Hear(w, u6, g))
    BY <1>6, LeavesOne
  <2> QED BY <2>1
<1> HIDE DEF t7
<1> QED BY <1>0, <1>7

\* A total changes at one price only.
LEMMA AddDepthElsewhere ==
  ASSUME NEW points, NEW price, NEW bidDiff, NEW askDiff, NEW after,
         after = AddDepth(points, price, bidDiff, askDiff)
  PROVE  \A p : p # price => /\ p \in DOMAIN after <=> p \in DOMAIN points
                             /\ DepthAt(after, p) = DepthAt(points, p)
<1> DEFINE old == IF price \in DOMAIN points THEN points[price] ELSE NoDepth
           new == [bids |-> Long(old.bids + bidDiff),
                   asks |-> Long(old.asks + askDiff)]
<1>1. AddDepth(points, price, bidDiff, askDiff)
        = IF new = NoDepth THEN Drop(points, price) ELSE Put(points, price, new)
  BY DEF AddDepth
<1> HIDE DEF new
<1> QED BY <1>1 DEF Drop, Put, Restrict, DepthAt

\* What a page shows has followed the market: wherever one of them changed,
\* the page shows exactly what the market holds.
Tracks(u, u2, points, points2, own, os, own2, os2) ==
  /\ \A p \in Prices :
       \/ /\ SizeAt(u2.bids, p) = Double(DepthAt(points2, p).bids)
          /\ SizeAt(u2.asks, p) = Double(DepthAt(points2, p).asks)
       \/ /\ SizeAt(u2.bids, p) = SizeAt(u.bids, p) /\ SizeAt(u2.asks, p) = SizeAt(u.asks, p)
          /\ DepthAt(points2, p) = DepthAt(points, p)
          /\ p \in DOMAIN points2 => p \in DOMAIN points
  /\ \A id \in Nat :
       \/ PillAt(u2, id) = Owed(own2, os2, id)
       \/ /\ PillAt(u2, id) = PillAt(u, id) /\ Owed(own2, os2, id) = Owed(own, os, id)
          /\ id \in own2 => id \in own

LEMMA TracksKeeps ==
  ASSUME NEW u \in Views, NEW u2 \in Views, NEW points, NEW points2, DOMAIN points2 \subseteq Prices,
         NEW own, NEW own2, own2 \subseteq Nat, NEW os, NEW os2,
         NEW last, NEW last2, NEW position, NEW position2,
         Covers(u, points, last, position, own, os),
         u2.price = last2.price, u2.account = Rounded(position2),
         Tracks(u, u2, points, points2, own, os, own2, os2)
  PROVE  /\ Covers(u2, points2, last2, position2, own2, os2)
         /\ Mirrors(u, points, own, os) => Mirrors(u2, points2, own2, os2)
<1>1. ASSUME NEW p \in DOMAIN points2
      PROVE  SizeAt(u2.bids, p) = Double(points2[p].bids) /\ SizeAt(u2.asks, p) = Double(points2[p].asks)
  <2>1. DepthAt(points2, p) = points2[p]
    BY DEF DepthAt
  <2>2. p \in DOMAIN points => /\ DepthAt(points, p) = points[p]
                               /\ SizeAt(u.bids, p) = Double(points[p].bids)
                               /\ SizeAt(u.asks, p) = Double(points[p].asks)
    BY DEF DepthAt, Covers
  <2> QED BY <2>1, <2>2 DEF Tracks
<1>2. ASSUME NEW id \in own2 PROVE PillAt(u2, id) >= Double(os2[id].quantity)
  <2>1. Owed(own2, os2, id) = Double(os2[id].quantity) /\ PillAt(u2, id) \in Nat
    BY PillsIn DEF Owed
  <2>2. id \in own => Owed(own, os, id) = Double(os[id].quantity) /\ PillAt(u, id) >= Double(os[id].quantity)
    BY DEF Owed, Covers
  <2>3. \/ PillAt(u2, id) = Owed(own2, os2, id)
        \/ /\ PillAt(u2, id) = PillAt(u, id) /\ Owed(own2, os2, id) = Owed(own, os, id)
           /\ id \in own
    BY DEF Tracks
  <2>4. CASE PillAt(u2, id) = Owed(own2, os2, id)
    <3>1. Double(os2[id].quantity) = PillAt(u2, id)
      BY <2>1, <2>4
    <3>2. PillAt(u2, id) >= PillAt(u2, id)
      BY <2>1
    <3> QED BY <3>1, <3>2
  <2>5. CASE /\ PillAt(u2, id) = PillAt(u, id) /\ Owed(own2, os2, id) = Owed(own, os, id)
             /\ id \in own
    BY <2>1, <2>2, <2>5
  <2> QED BY <2>3, <2>4, <2>5
<1>3. Covers(u2, points2, last2, position2, own2, os2)
  BY <1>1, <1>2 DEF Covers
<1>4. Mirrors(u, points, own, os) => Mirrors(u2, points2, own2, os2)
  BY DEF Mirrors, Tracks
<1> QED BY <1>3, <1>4

\* What the invariant of the feed says of one trader's orders.
LEMMA OwnOrders ==
  ASSUME FeedTypeOK, BookIntegrity, NEW w \in Traders
  PROVE  /\ orderCount \in Nat /\ traderOrders[w] \subseteq (Nat \ {0})
         /\ \A id \in traderOrders[w] : /\ id \in DOMAIN orders /\ id <= orderCount
                                        /\ orders[id].trader = w
                                        /\ orders[id] \in Order
                                        /\ orders[id].quantity \in 1..LongMax
                                        /\ Double(orders[id].quantity) \in Nat \ {0}
         /\ \A id : Owed(traderOrders[w], orders, id) \in Nat
<1>1. /\ orderCount \in Nat /\ traderOrders[w] \subseteq 1..orderCount
      /\ orders \in [DOMAIN orders -> Order]
  BY MarketAssumption DEF FeedTypeOK, TypeOK
<1>2. \A id \in traderOrders[w] : id \in DOMAIN orders /\ orders[id].trader = w
  BY DEF BookIntegrity, ListsHoldOrders
<1>3. \A id \in DOMAIN orders : /\ orders[id] \in Order /\ orders[id].quantity \in 1..LongMax
                                 /\ Double(orders[id].quantity) \in Nat \ {0}
  <2>1. \A id \in DOMAIN orders : orders[id] \in Order /\ orders[id].quantity \in 1..LongMax
    BY <1>1 DEF Order
  <2>2. \A x \in 1..LongMax : Double(x) \in Nat \ {0}
    BY DoubleIs
  <2> QED BY <2>1, <2>2
<1>4. \A id \in traderOrders[w] : id \in Nat \ {0} /\ id <= orderCount
  BY <1>1
<1>5. \A id : Owed(traderOrders[w], orders, id) \in Nat
  BY <1>2, <1>3 DEF Owed
<1> QED BY <1>1, <1>2, <1>3, <1>4, <1>5

\* What is left of an order grows in no step of the market.
LEMMA StepEases ==
  ASSUME FeedTypeOK, BookIntegrity, FeedTypeOK', BookIntegrity', NEW w \in Traders,
         orderCount <= orderCount',
         \A id \in traderOrders'[w] : id <= orderCount =>
           /\ id \in traderOrders[w] /\ orders'[id].quantity <= orders[id].quantity
           /\ orders'[id].type = orders[id].type /\ orders'[id].price = orders[id].price
  PROVE  Eases(traderOrders[w], orders, orderCount, traderOrders'[w], orders', orderCount')
<1>1. /\ orderCount \in Nat
      /\ \A id \in traderOrders[w] : orders[id].quantity \in 1..LongMax
      /\ \A id : Owed(traderOrders[w], orders, id) \in Nat
  BY OwnOrders
<1>2. /\ orderCount' \in Nat
      /\ \A id \in traderOrders'[w] : orders'[id].quantity \in 1..LongMax
      /\ \A id : Owed(traderOrders'[w], orders', id) \in Nat
  <2>1. orderCount' \in Nat /\ orders' \in [DOMAIN orders' -> Order]
    BY MarketAssumption DEF FeedTypeOK, TypeOK
  <2>2. \A id \in traderOrders'[w] : id \in DOMAIN orders'
    BY DEF BookIntegrity, ListsHoldOrders
  <2>3. \A id \in DOMAIN orders' : orders'[id].quantity \in 1..LongMax
    BY <2>1 DEF Order
  <2>4. \A x \in 1..LongMax : Double(x) \in Nat
    BY DoubleIs
  <2> QED BY <2>1, <2>2, <2>3, <2>4 DEF Owed
<1>3. ASSUME NEW id \in Nat, id <= orderCount
      PROVE  Owed(traderOrders'[w], orders', id) <= Owed(traderOrders[w], orders, id)
  <2>1. CASE id \in traderOrders'[w]
    <3>1. /\ id \in traderOrders[w] /\ orders'[id].quantity <= orders[id].quantity
          /\ orders'[id].quantity \in 1..LongMax /\ orders[id].quantity \in 1..LongMax
      BY <1>1, <1>2, <1>3, <2>1
    <3>2. Double(orders'[id].quantity) <= Double(orders[id].quantity)
      BY <3>1, DoubleIs
    <3> QED BY <2>1, <3>1, <3>2 DEF Owed
  <2>2. CASE id \notin traderOrders'[w]
    <3>1. Owed(traderOrders'[w], orders', id) = 0 /\ Owed(traderOrders[w], orders, id) \in Nat
      BY <1>1, <2>2 DEF Owed
    <3> QED BY <3>1
  <2> QED BY <2>1, <2>2
<1> QED BY <1>1, <1>2, <1>3 DEF Eases

-----------------------------------------------------------------------------
(* The handlers of the market keep the invariant of a page. *)

LEMMA HandlerKeeps ==
  ASSUME FeedInv, FeedTypeOK', BookIntegrity', NEW w \in Watchers, NEW msgs, Send(msgs),
         w \in DOMAIN accounts => w \in DOMAIN accounts',
         Eases(traderOrders[w], orders, orderCount, traderOrders'[w], orders', orderCount'),
         NEW u2,
         page[w] = "connected" =>
           /\ Leaves(w, Fit(traderOrders'[w], orders', orderCount'), stream[w], view[w], msgs, u2)
           /\ u2.price = lastTrade'.price /\ u2.account = Rounded(accounts'[w])
           /\ Tracks(Replayed(w), u2, pricePoints, pricePoints',
                     traderOrders[w], orders, traderOrders'[w], orders')
  PROVE  PageInv(w)'
<1>1. /\ Patient(traderOrders[w], orders, orderCount) \subseteq Patient(traderOrders'[w], orders', orderCount')
      /\ Fit(traderOrders[w], orders, orderCount) \subseteq Fit(traderOrders'[w], orders', orderCount')
  BY EasesKeeps
<1>2. /\ view[w] \in Patient(traderOrders[w], orders, orderCount)
      /\ stream[w] \in Seq(Fit(traderOrders[w], orders, orderCount))
      /\ page[w] \in {"connected", "retrying"} => w \in DOMAIN accounts
      /\ page[w] = "connected" =>
           /\ Covers(Replayed(w), pricePoints, lastTrade, accounts[w], traderOrders[w], orders)
           /\ ~rejoined[w] => Mirrors(Replayed(w), pricePoints, traderOrders[w], orders)
  BY DEF FeedInv, PageInv
<1>3. /\ link' = link /\ page' = page /\ rejoined' = rejoined /\ view' = view
      /\ stream'[w] = IF link[w] = "open" THEN Sent(w, stream[w], msgs) ELSE stream[w]
  BY Zenon DEF Send, Sent
<1>4. page[w] = "connected" <=> link[w] = "open"
  BY DEF FeedInv, FeedTypeOK
<1>5. view'[w] \in Patient(traderOrders'[w], orders', orderCount')
  BY <1>1, <1>2, <1>3
<1>6. page'[w] \in {"connected", "retrying"} => w \in DOMAIN accounts'
  BY <1>2, <1>3
<1>7. CASE page[w] # "connected"
  <2>1. stream'[w] = stream[w]
    BY <1>3, <1>4, <1>7
  <2>2. stream'[w] \in Seq(Fit(traderOrders'[w], orders', orderCount'))
    BY <1>1, <1>2, <2>1
  <2> QED BY <1>3, <1>5, <1>6, <1>7, <2>2 DEF PageInv
<1>8. CASE page[w] = "connected"
  <2>1. /\ stream'[w] = Sent(w, stream[w], msgs)
        /\ stream'[w] \in Seq(Fit(traderOrders'[w], orders', orderCount'))
        /\ Replay(view[w], Sent(w, stream[w], msgs)) = u2
        /\ Fit(traderOrders'[w], orders', orderCount') \subseteq Messages
    BY <1>3, <1>4, <1>8 DEF Leaves
  <2>2. view'[w] = view[w]
    BY <1>3
  <2>3. Replayed(w)' = u2
    BY <2>1, <2>2 DEF Replayed, Replay
  <2>4. view[w] \in Views /\ stream[w] \in Seq(Messages) /\ stream'[w] \in Seq(Messages)
    BY <1>2, <2>1 DEF Patient, Fit
  <2>5. Replayed(w) \in Views /\ u2 \in Views
    BY <2>1, <2>4, ReplayView DEF Replayed, Replay
  <2>6. DOMAIN pricePoints' \subseteq Prices /\ traderOrders'[w] \subseteq Nat
    BY WatcherIs DEF FeedTypeOK, TypeOK
  <2>7. /\ Covers(u2, pricePoints', lastTrade', accounts'[w], traderOrders'[w], orders')
        /\ Mirrors(Replayed(w), pricePoints, traderOrders[w], orders)
             => Mirrors(u2, pricePoints', traderOrders'[w], orders')
    <3>1. Covers(Replayed(w), pricePoints, lastTrade, accounts[w], traderOrders[w], orders)
      BY <1>2, <1>8
    <3>2. Tracks(Replayed(w), u2, pricePoints, pricePoints',
                 traderOrders[w], orders, traderOrders'[w], orders')
      BY <1>8
    <3>3. u2.price = lastTrade'.price /\ u2.account = Rounded(accounts'[w])
      BY <1>8
    <3> QED BY <2>5, <2>6, <3>1, <3>2, <3>3, TracksKeeps
  <2> QED BY <1>2, <1>3, <1>5, <1>6, <1>8, <2>1, <2>3, <2>7 DEF PageInv
<1> QED BY <1>7, <1>8

\* A price point and an order: what a new order and a cancellation send.
ChangeShown(w, u, new, a, b) ==
  /\ new \in Views /\ new.price = u.price /\ new.account = u.account
  /\ \A p : /\ SizeAt(new.bids, p) = IF p = a.price THEN Double(a.depth.bids) ELSE SizeAt(u.bids, p)
            /\ SizeAt(new.asks, p) = IF p = a.price THEN Double(a.depth.asks) ELSE SizeAt(u.asks, p)
  /\ \A id : PillAt(new, id)
               = IF id = b.id /\ b.to = w THEN Pilled(PillAt(u, id), b) ELSE PillAt(u, id)

LEMMA HearChange ==
  ASSUME NEW w \in Watchers, NEW u \in Views, NEW a \in PricePoints, NEW b \in OrderEnds,
         NEW u2, u2 = Hear(w, Hear(w, u, a), b)
  PROVE  ChangeShown(w, u, u2, a, b)
<1> DEFINE u1 == Hear(w, u, a)
<1>0. u1 = Hear(w, u, a)
  OBVIOUS
<1>2. u2 = Hear(w, u1, b)
  OBVIOUS
<1> HIDE DEF u1
<1>1. /\ u1 \in Views /\ SameBut(u, u1, "sides")
      /\ \A p : /\ SizeAt(u1.bids, p) = IF p = a.price THEN Double(a.depth.bids) ELSE SizeAt(u.bids, p)
                /\ SizeAt(u1.asks, p) = IF p = a.price THEN Double(a.depth.asks) ELSE SizeAt(u.asks, p)
  <2>1. u1 \in Views /\ PointShown(u, u1, a)
    BY <1>0, HearPoint
  <2> QED BY <2>1 DEF PointShown
<1>3. /\ Hear(w, u1, b) \in Views /\ SameBut(u1, Hear(w, u1, b), "pills")
      /\ \A id : PillAt(Hear(w, u1, b), id)
                   = IF id = b.id /\ b.to = w THEN Pilled(PillAt(u1, id), b) ELSE PillAt(u1, id)
  BY <1>1, HearOrder
<1>4. /\ u2 \in Views /\ SameBut(u1, u2, "pills")
      /\ \A id : PillAt(u2, id)
                   = IF id = b.id /\ b.to = w THEN Pilled(PillAt(u1, id), b) ELSE PillAt(u1, id)
  BY <1>2, <1>3
<1>5. /\ u1.price = u.price /\ u1.account = u.account /\ u1.pills = u.pills
      /\ u2.price = u1.price /\ u2.account = u1.account /\ u2.bids = u1.bids /\ u2.asks = u1.asks
  BY <1>1, <1>4 DEF SameBut
<1>6. \A id : PillAt(u1, id) = PillAt(u, id)
  BY <1>5 DEF PillAt
<1> QED BY <1>1, <1>4, <1>5, <1>6 DEF ChangeShown

\* What a page is at, once it has handled what was sent to it.
LEMMA ReplayedIs ==
  ASSUME FeedInv, NEW w \in Watchers
  PROVE  /\ Replayed(w) = Replay(view[w], stream[w])
         /\ view[w] \in Views /\ stream[w] \in Seq(Fit(traderOrders[w], orders, orderCount))
         /\ Replayed(w) \in Patient(traderOrders[w], orders, orderCount)
         /\ Replayed(w) \in Views
         /\ \A id \in Nat : id > orderCount => PillAt(Replayed(w), id) = 0
<1>1. /\ view[w] \in Patient(traderOrders[w], orders, orderCount)
      /\ stream[w] \in Seq(Fit(traderOrders[w], orders, orderCount))
  BY DEF FeedInv, PageInv
<1>2. orderCount \in Nat
  BY DEF FeedInv, FeedTypeOK, TypeOK
<1>3. Replayed(w) = Replay(view[w], stream[w])
  BY DEF Replayed, Replay
<1>4. Replay(view[w], stream[w]) \in Patient(traderOrders[w], orders, orderCount)
  BY <1>1, <1>2, PatientReplay
<1>5. Replayed(w) \in Patient(traderOrders[w], orders, orderCount)
  BY <1>3, <1>4
<1>6. Replayed(w) \in Views /\ \A id \in DOMAIN Replayed(w).pills : id <= orderCount
  BY <1>5 DEF Patient
<1>7. ASSUME NEW id \in Nat, id > orderCount PROVE PillAt(Replayed(w), id) = 0
  <2>1. ~(id <= orderCount)
    BY <1>2, <1>7
  <2> QED BY <1>6, <2>1 DEF PillAt
<1>8. view[w] \in Views
  BY <1>1 DEF Patient
<1> QED BY <1>1, <1>3, <1>5, <1>6, <1>7, <1>8

LEMMA PlaceKeeps ==
  ASSUME FeedInv, FeedTypeOK', BookIntegrity',
         NEW type \in OrderTypes, NEW t \in Traders, NEW p \in Prices, NEW q \in Quantities,
         Place(type, t, p, q), NEW w \in Watchers
  PROVE  PageInv(w)'
<1> DEFINE n == orderCount + 1
           a == PricePointMsg(p, DepthAt(pricePoints', p))
           b == OpenOrderMsg("orderSubmitted", orderCount', orders'[orderCount'])
           o == [trader |-> t, type |-> type, price |-> p, quantity |-> q]
           u == Replayed(w)
           u2 == Hear(w, Hear(w, u, a), b)
           own == traderOrders[w]
           own2 == traderOrders'[w]
<1>1. /\ orderCount' = n
      /\ orders' = Put(orders, n, o)
      /\ traderOrders' = [traderOrders EXCEPT ![t] = @ \cup {n}]
      /\ accounts' = accounts /\ lastTrade' = lastTrade
      /\ \E x, y : pricePoints' = AddDepth(pricePoints, p, x, y)
  <2>1. CASE type = "bid"
    <3>1. PlaceBid(t, p, q)
      BY <2>1 DEF Place
    <3>2. pricePoints' = AddDepth(pricePoints, p, q, 0)
      BY <3>1 DEF PlaceBid, AddBidDepth
    <3> QED BY <2>1, <3>1, <3>2 DEF PlaceBid, NewOrder
  <2>2. CASE type = "ask"
    <3>1. PlaceAsk(t, p, q)
      BY <2>2 DEF Place
    <3>2. pricePoints' = AddDepth(pricePoints, p, 0, q)
      BY <3>1 DEF PlaceAsk, AddAskDepth
    <3> QED BY <2>2, <3>1, <3>2 DEF PlaceAsk, NewOrder
  <2> QED BY <2>1, <2>2 DEF OrderTypes
<1>2. Send(<<a, b>>)
  BY Zenon DEF Place
<1>3. FeedTypeOK /\ BookIntegrity
  BY DEF FeedInv
<1>4. w \in Traders
  BY WatcherIs
<1>5. /\ orderCount \in Nat /\ n \in Nat \ {0} /\ n > orderCount /\ orderCount <= n
      /\ \A id \in Nat : id <= n => id <= orderCount \/ id = n
      /\ q \in 1..LongMax /\ o \in Order
  BY <1>3, MarketAssumption DEF FeedTypeOK, TypeOK, Order
<1>6. /\ own2 = IF w = t THEN own \cup {n} ELSE own
      /\ n \notin own /\ n \notin DOMAIN orders
      /\ orders'[n] = o
      /\ \A id \in DOMAIN orders : orders'[id] = orders[id]
  <2>1. traderOrders \in [Traders -> SUBSET (1..orderCount)] /\ DOMAIN orders \subseteq 1..orderCount
    BY <1>3 DEF FeedTypeOK, TypeOK
  <2>2. n \notin 1..orderCount
    BY <1>5
  <2>3. own \subseteq 1..orderCount
    BY <1>4, <2>1
  <2> QED BY <1>1, <1>4, <2>1, <2>2, <2>3 DEF Put
<1>7. \A id \in own : id \in DOMAIN orders /\ orders[id].quantity \in 1..LongMax
  BY <1>3, <1>4, OwnOrders
<1>8. /\ \A id : id # n => Owed(own2, orders', id) = Owed(own, orders, id)
      /\ Owed(own2, orders', n) = IF w = t THEN Double(q) ELSE 0
  BY <1>6, <1>7 DEF Owed
<1> HIDE DEF n
<1>9. Eases(own, orders, orderCount, own2, orders', orderCount')
  <2>1. orderCount <= orderCount'
    BY <1>1, <1>5
  <2>2. ASSUME NEW id \in own2, id <= orderCount
        PROVE  /\ id \in own /\ orders'[id].quantity <= orders[id].quantity
               /\ orders'[id].type = orders[id].type /\ orders'[id].price = orders[id].price
    <3>1. id # n
      BY <1>5, <2>2
    <3>2. id \in own
      BY <1>6, <3>1
    <3> QED BY <1>6, <1>7, <3>2
  <2> QED BY <1>3, <1>4, <2>1, <2>2, StepEases
<1>10. /\ a \in PricePoints /\ a.price = p /\ a.depth = DepthAt(pricePoints', p)
  <2>1. pricePoints' \in [DOMAIN pricePoints' -> Depth]
    BY DEF FeedTypeOK, TypeOK
  <2> QED BY <2>1, PointIn
<1>11. /\ b \in OrderEnds /\ b.event = "orderSubmitted" /\ b.to = t /\ b.id = n
       /\ b.remaining = q /\ Pill(b).remaining = Double(q) /\ Double(q) \in Nat
       /\ Suits(Pill(b), o)
  <2>1. "orderSubmitted" \in OrderEvents /\ b = OpenOrderMsg("orderSubmitted", n, o)
    BY <1>1, <1>6 DEF OrderEvents
  <2>2. o.trader = t /\ o.quantity = q /\ o \in Order /\ n \in Nat \ {0}
    BY <1>5
  <2>3. Double(q) \in Nat
    BY <1>5, DoubleIs
  <2> HIDE DEF o, b
  <2>4. /\ b \in OrderEnds /\ b.event = "orderSubmitted" /\ b.to = o.trader /\ b.id = n
        /\ b.remaining = o.quantity /\ Pill(b).remaining = Double(o.quantity)
        /\ Suits(Pill(b), o)
    BY <2>1, <2>2, OpenOrderIn
  <2> QED BY <2>2, <2>3, <2>4
<1>12. a \in Fit(own2, orders', orderCount')
  BY <1>10, FitIs
<1>13. b \in Fit(own2, orders', orderCount')
  <2>1. b.id <= orderCount'
    BY <1>1, <1>5, <1>11
  <2>2. Honest(Pill(b), own2, orders', b.id)
    BY <1>6, <1>8, <1>11 DEF Honest
  <2> QED BY <1>11, <2>1, <2>2, FitIs
<1>14. /\ u = Replay(view[w], stream[w]) /\ u \in Views /\ view[w] \in Views
       /\ stream[w] \in Seq(Fit(own, orders, orderCount))
       /\ PillAt(u, n) = 0
  BY <1>5, ReplayedIs
<1> HIDE DEF a, b, u, o
<1>15. /\ u2 \in Views /\ u2.price = u.price /\ u2.account = u.account
       /\ \A x : /\ SizeAt(u2.bids, x) = IF x = a.price THEN Double(a.depth.bids) ELSE SizeAt(u.bids, x)
                 /\ SizeAt(u2.asks, x) = IF x = a.price THEN Double(a.depth.asks) ELSE SizeAt(u.asks, x)
       /\ \A id : PillAt(u2, id)
                    = IF id = b.id /\ b.to = w THEN Pilled(PillAt(u, id), b) ELSE PillAt(u, id)
  <2>1. u2 = Hear(w, Hear(w, u, a), b)
    OBVIOUS
  <2>2. a \in PricePoints
    BY <1>10
  <2>3. b \in OrderEnds
    BY <1>11
  <2>4. u \in Views
    BY <1>14
  <2> HIDE DEF u2
  <2>5. ChangeShown(w, u, u2, a, b)
    BY <2>1, <2>2, <2>3, <2>4, HearChange
  <2> QED BY <2>5 DEF ChangeShown
<1>16. Leaves(w, Fit(own2, orders', orderCount'), stream[w], view[w], <<a, b>>, u2)
  <2>1. Fit(own2, orders', orderCount') \in SUBSET Messages
    BY FitIs
  <2>2. stream[w] \in Seq(Fit(own2, orders', orderCount'))
    BY <1>9, <1>14, EasesKeeps
  <2>3. view[w] \in Views
    BY <1>14
  <2>4. Leaves(w, Fit(own2, orders', orderCount'), stream[w], view[w], <<a, b>>,
               Hear(w, Hear(w, Replay(view[w], stream[w]), a), b))
    BY <1>12, <1>13, <2>1, <2>2, <2>3, LeavesTwo
  <2> QED BY <1>14, <2>4
<1> HIDE DEF u2
<1>17. Tracks(u, u2, pricePoints, pricePoints', own, orders, own2, orders')
  <2>1. \A x : x # p => /\ x \in DOMAIN pricePoints' <=> x \in DOMAIN pricePoints
                        /\ DepthAt(pricePoints', x) = DepthAt(pricePoints, x)
    BY <1>1, AddDepthElsewhere
  <2>2. PillAt(u2, n) = Owed(own2, orders', n)
    BY <1>8, <1>11, <1>14, <1>15 DEF Pilled
  <2>3. \A id : id # n => PillAt(u2, id) = PillAt(u, id)
    BY <1>11, <1>15
  <2>4. \A id : id # n => (id \in own2 => id \in own)
    BY <1>6
  <2> QED BY <1>8, <1>10, <1>15, <2>1, <2>2, <2>3, <2>4 DEF Tracks
<1>18. page[w] = "connected" => u2.price = lastTrade'.price /\ u2.account = Rounded(accounts'[w])
  <2>1. page[w] = "connected" => u.price = lastTrade.price /\ u.account = Rounded(accounts[w])
    BY DEF FeedInv, PageInv, Covers, u
  <2> QED BY <1>1, <1>15, <2>1
<1>19. w \in DOMAIN accounts => w \in DOMAIN accounts'
  BY <1>1
<1> QED BY <1>2, <1>9, <1>16, <1>17, <1>18, <1>19, HandlerKeeps DEF u

LEMMA CancelKeeps ==
  ASSUME FeedInv, FeedTypeOK', BookIntegrity',
         NEW t \in Traders, NEW id \in DOMAIN orders, Cancel(t, id), NEW w \in Watchers
  PROVE  PageInv(w)'
<1> DEFINE p == orders[id].price
           q == orders[id].quantity
           a == PricePointMsg(p, DepthAt(pricePoints', p))
           b == OpenOrderMsg("orderCancelled", id, orders[id])
           u == Replayed(w)
           u2 == Hear(w, Hear(w, u, a), b)
           own == traderOrders[w]
           own2 == traderOrders'[w]
<1>1. /\ orderCount' = orderCount /\ orders[id].trader = t
      /\ orders' = Drop(orders, id)
      /\ traderOrders' = [traderOrders EXCEPT ![t] = @ \ {id}]
      /\ accounts' = accounts /\ lastTrade' = lastTrade
      /\ \E x, y : pricePoints' = AddDepth(pricePoints, p, x, y)
  <2>1. CancelOrder(t, id)
    BY DEF Cancel
  <2>2. \/ pricePoints' = AddBidDepth(pricePoints, p, -q)
        \/ pricePoints' = AddAskDepth(pricePoints, p, -q)
    BY <2>1 DEF CancelOrder
  <2>3. \E x, y : pricePoints' = AddDepth(pricePoints, p, x, y)
    BY <2>2 DEF AddBidDepth, AddAskDepth
  <2> HIDE DEF p, q
  <2> QED BY <2>1, <2>3 DEF CancelOrder
<1>2. Send(<<a, b>>)
  BY Zenon DEF Cancel
<1>3. FeedTypeOK /\ BookIntegrity
  BY DEF FeedInv
<1>4. w \in Traders
  BY WatcherIs
<1>5. /\ orderCount \in Nat /\ id \in Nat \ {0} /\ id <= orderCount
      /\ p \in Prices /\ orders[id] \in Order
  <2>1. /\ orders \in [DOMAIN orders -> Order] /\ DOMAIN orders \subseteq 1..orderCount
        /\ orderCount \in Nat
    BY <1>3 DEF FeedTypeOK, TypeOK
  <2>2. orders[id] \in Order
    BY <2>1
  <2>3. p \in Prices
    BY <2>2 DEF Order
  <2> QED BY <2>1, <2>2, <2>3
<1>6. /\ own2 = IF w = t THEN own \ {id} ELSE own
      /\ \A x \in DOMAIN orders : x # id => orders'[x] = orders[x]
  <2>1. traderOrders \in [Traders -> SUBSET (1..orderCount)]
    BY <1>3 DEF FeedTypeOK, TypeOK
  <2>2. own2 = IF w = t THEN own \ {id} ELSE own
    BY <1>1, <1>4, <2>1
  <2>3. \A x \in DOMAIN orders : x # id => orders'[x] = orders[x]
    BY <1>1 DEF Drop, Restrict
  <2> QED BY <2>2, <2>3
<1>7. \A x \in own : x \in DOMAIN orders /\ orders[x].quantity \in 1..LongMax /\ orders[x].trader = w
  BY <1>3, <1>4, OwnOrders
<1>8. id \notin own2
  BY <1>1, <1>6, <1>7
<1>9. /\ \A x : x # id => Owed(own2, orders', x) = Owed(own, orders, x)
      /\ Owed(own2, orders', id) = 0
      /\ w # t => Owed(own, orders, id) = 0
  <2>1. \A x : x # id => (x \in own2 <=> x \in own)
    BY <1>6
  <2>2. w # t => id \notin own
    BY <1>6, <1>8
  <2> QED BY <1>6, <1>7, <1>8, <2>1, <2>2 DEF Owed
<1>10. Eases(own, orders, orderCount, own2, orders', orderCount')
  <2>1. orderCount <= orderCount'
    BY <1>1, <1>5
  <2>2. ASSUME NEW x \in own2, x <= orderCount
        PROVE  /\ x \in own /\ orders'[x].quantity <= orders[x].quantity
               /\ orders'[x].type = orders[x].type /\ orders'[x].price = orders[x].price
    <3>1. x # id
      BY <1>8
    <3>2. x \in own
      BY <1>6
    <3>3. orders'[x] = orders[x] /\ orders[x].quantity \in 1..LongMax
      BY <1>6, <1>7, <3>1, <3>2
    <3> QED BY <3>2, <3>3
  <2> QED BY <1>3, <1>4, <2>1, <2>2, StepEases
<1> HIDE DEF p, q
<1>11. /\ a \in PricePoints /\ a.price = p /\ a.depth = DepthAt(pricePoints', p)
  <2>1. pricePoints' \in [DOMAIN pricePoints' -> Depth]
    BY DEF FeedTypeOK, TypeOK
  <2> QED BY <1>5, <2>1, PointIn
<1>12. b \in OrderEnds /\ b.event = "orderCancelled" /\ b.to = t /\ b.id = id
  <2>1. "orderCancelled" \in OrderEvents
    BY DEF OrderEvents
  <2> QED BY <1>1, <1>5, <2>1, OpenOrderIn
<1>13. a \in Fit(own2, orders', orderCount')
  BY <1>11, FitIs
<1>14. b \in Fit(own2, orders', orderCount')
  <2>1. b.id <= orderCount'
    BY <1>1, <1>5, <1>12
  <2> QED BY <1>12, <2>1, FitIs
<1>15. /\ u = Replay(view[w], stream[w]) /\ u \in Views /\ view[w] \in Views
       /\ stream[w] \in Seq(Fit(own, orders, orderCount))
  BY ReplayedIs
<1> HIDE DEF a, b, u
<1>16. /\ u2 \in Views /\ u2.price = u.price /\ u2.account = u.account
       /\ \A x : /\ SizeAt(u2.bids, x) = IF x = a.price THEN Double(a.depth.bids) ELSE SizeAt(u.bids, x)
                 /\ SizeAt(u2.asks, x) = IF x = a.price THEN Double(a.depth.asks) ELSE SizeAt(u.asks, x)
       /\ \A x : PillAt(u2, x)
                   = IF x = b.id /\ b.to = w THEN Pilled(PillAt(u, x), b) ELSE PillAt(u, x)
  <2>1. u2 = Hear(w, Hear(w, u, a), b)
    OBVIOUS
  <2>2. a \in PricePoints /\ b \in OrderEnds /\ u \in Views
    BY <1>11, <1>12, <1>15
  <2> HIDE DEF u2
  <2>3. ChangeShown(w, u, u2, a, b)
    BY <2>1, <2>2, HearChange
  <2> QED BY <2>3 DEF ChangeShown
<1>17. Leaves(w, Fit(own2, orders', orderCount'), stream[w], view[w], <<a, b>>, u2)
  <2>1. Fit(own2, orders', orderCount') \in SUBSET Messages
    BY FitIs
  <2>2. stream[w] \in Seq(Fit(own2, orders', orderCount'))
    BY <1>10, <1>15, EasesKeeps
  <2>3. view[w] \in Views
    BY <1>15
  <2>4. Leaves(w, Fit(own2, orders', orderCount'), stream[w], view[w], <<a, b>>,
               Hear(w, Hear(w, Replay(view[w], stream[w]), a), b))
    BY <1>13, <1>14, <2>1, <2>2, <2>3, LeavesTwo
  <2> QED BY <1>15, <2>4
<1> HIDE DEF u2
<1>18. Tracks(u, u2, pricePoints, pricePoints', own, orders, own2, orders')
  <2>1. \A x : x # p => /\ x \in DOMAIN pricePoints' <=> x \in DOMAIN pricePoints
                        /\ DepthAt(pricePoints', x) = DepthAt(pricePoints, x)
    BY <1>1, AddDepthElsewhere
  <2>2. CASE w = t
    <3>1. PillAt(u2, id) = Owed(own2, orders', id)
      BY <1>9, <1>12, <1>16, <2>2 DEF Pilled
    <3>2. \A x : x # id => PillAt(u2, x) = PillAt(u, x)
      BY <1>12, <1>16
    <3>3. \A x : x \in own2 => x \in own
      BY <1>6
    <3> QED BY <1>9, <1>11, <1>16, <2>1, <3>1, <3>2, <3>3 DEF Tracks
  <2>3. CASE w # t
    <3>1. \A x : PillAt(u2, x) = PillAt(u, x)
      BY <1>12, <1>16, <2>3
    <3>2. \A x : Owed(own2, orders', x) = Owed(own, orders, x)
      BY <1>9, <2>3
    <3>3. \A x : x \in own2 => x \in own
      BY <1>6
    <3> QED BY <1>11, <1>16, <2>1, <3>1, <3>2, <3>3 DEF Tracks
  <2> QED BY <2>2, <2>3
<1>19. page[w] = "connected" => u2.price = lastTrade'.price /\ u2.account = Rounded(accounts'[w])
  <2>1. page[w] = "connected" => u.price = lastTrade.price /\ u.account = Rounded(accounts[w])
    BY DEF FeedInv, PageInv, Covers, u
  <2> QED BY <1>1, <1>16, <2>1
<1>20. w \in DOMAIN accounts => w \in DOMAIN accounts'
  BY <1>1
<1> QED BY <1>2, <1>10, <1>17, <1>18, <1>19, <1>20, HandlerKeeps DEF u

\* What a page shows after the seven messages of a trade
TradeShown(w, u, new, a, b, c, d, e, f, g) ==
  /\ new.price = a.price
  /\ new.account = IF c.to = w THEN Rounded(c.position) ELSE IF b.to = w THEN Rounded(b.position) ELSE u.account
  /\ \A p : SizeAt(new.bids, p) = IF p = e.price THEN Double(e.depth.bids)
                                  ELSE IF p = d.price THEN Double(d.depth.bids) ELSE SizeAt(u.bids, p)
  /\ \A p : SizeAt(new.asks, p) = IF p = e.price THEN Double(e.depth.asks)
                                  ELSE IF p = d.price THEN Double(d.depth.asks) ELSE SizeAt(u.asks, p)
  /\ \A id : PillAt(new, id) = IF id = g.id /\ g.to = w THEN Pilled(PillAt(u, id), g)
                               ELSE IF id = f.id /\ f.to = w THEN Pilled(PillAt(u, id), f)
                               ELSE PillAt(u, id)

LEMMA HearTrading ==
  ASSUME NEW w \in Watchers, NEW u \in Views, NEW a \in LastTrades, NEW b \in Accounts,
         NEW c \in Accounts, NEW d \in PricePoints, NEW e \in PricePoints,
         NEW f \in OrderEnds, NEW g \in OrderEnds, f.id # g.id,
         NEW u1, u1 = Hear(w, u, a), NEW u2, u2 = Hear(w, u1, b), NEW u3, u3 = Hear(w, u2, c),
         NEW u4, u4 = Hear(w, u3, d), NEW u5, u5 = Hear(w, u4, e), NEW u6, u6 = Hear(w, u5, f),
         NEW u7, u7 = Hear(w, u6, g)
  PROVE  TradeShown(w, u, u7, a, b, c, d, e, f, g)
<1>1. u1 \in Views /\ SameBut(u, u1, "price") /\ u1.price = a.price
  BY HearTrade
<1>2. /\ u2 \in Views /\ SameBut(u1, u2, "account")
      /\ u2.account = IF b.to = w THEN Rounded(b.position) ELSE u1.account
  BY <1>1, HearAccount
<1>3. /\ u3 \in Views /\ SameBut(u2, u3, "account")
      /\ u3.account = IF c.to = w THEN Rounded(c.position) ELSE u2.account
  BY <1>2, HearAccount
<1>4. u4 \in Views /\ PointShown(u3, u4, d)
  BY <1>3, HearPoint
<1>5. u5 \in Views /\ PointShown(u4, u5, e)
  BY <1>4, HearPoint
<1>6. /\ u6 \in Views /\ SameBut(u5, u6, "pills")
      /\ \A id : PillAt(u6, id) = IF id = f.id /\ f.to = w THEN Pilled(PillAt(u5, id), f) ELSE PillAt(u5, id)
  BY <1>5, HearOrder
<1>7. /\ u7 \in Views /\ SameBut(u6, u7, "pills")
      /\ \A id : PillAt(u7, id) = IF id = g.id /\ g.to = w THEN Pilled(PillAt(u6, id), g) ELSE PillAt(u6, id)
  BY <1>6, HearOrder
<1>8. /\ u7.price = a.price
      /\ u7.account = IF c.to = w THEN Rounded(c.position) ELSE IF b.to = w THEN Rounded(b.position) ELSE u.account
  BY <1>1, <1>2, <1>3, <1>4, <1>5, <1>6, <1>7 DEF SameBut, PointShown
<1>9. u3.bids = u.bids /\ u3.asks = u.asks /\ u7.bids = u5.bids /\ u7.asks = u5.asks
  BY <1>1, <1>2, <1>3, <1>6, <1>7 DEF SameBut
<1>10. \A p : /\ SizeAt(u7.bids, p) = IF p = e.price THEN Double(e.depth.bids)
                                      ELSE IF p = d.price THEN Double(d.depth.bids) ELSE SizeAt(u.bids, p)
              /\ SizeAt(u7.asks, p) = IF p = e.price THEN Double(e.depth.asks)
                                      ELSE IF p = d.price THEN Double(d.depth.asks) ELSE SizeAt(u.asks, p)
  BY <1>4, <1>5, <1>9 DEF PointShown
<1>11. u5.pills = u.pills
  BY <1>1, <1>2, <1>3, <1>4, <1>5 DEF SameBut, PointShown
<1>12. \A id : PillAt(u5, id) = PillAt(u, id)
  BY <1>11 DEF PillAt
<1>13. \A id : PillAt(u7, id) = IF id = g.id /\ g.to = w THEN Pilled(PillAt(u, id), g)
                                ELSE IF id = f.id /\ f.to = w THEN Pilled(PillAt(u, id), f)
                                ELSE PillAt(u, id)
  BY <1>6, <1>7, <1>12
<1> QED BY <1>8, <1>10, <1>13 DEF TradeShown

\* There is one best bid and one best ask.
LEMMA FrontUnique ==
  ASSUME TypeOK, NEW i, NEW j, NEW k, NEW l, BookFront(i, j), BookFront(k, l)
  PROVE  i = k /\ j = l
<1>1. PICK b \in DOMAIN bids, a \in DOMAIN asks :
        /\ \A p \in DOMAIN bids : p <= b
        /\ \A p \in DOMAIN asks : a <= p
        /\ i \in bids[b] /\ \A x \in bids[b] : i <= x
        /\ j \in asks[a] /\ \A x \in asks[a] : j <= x
  BY DEF BookFront
<1>2. PICK c \in DOMAIN bids, d \in DOMAIN asks :
        /\ \A p \in DOMAIN bids : p <= c
        /\ \A p \in DOMAIN asks : d <= p
        /\ k \in bids[c] /\ \A x \in bids[c] : k <= x
        /\ l \in asks[d] /\ \A x \in asks[d] : l <= x
  BY DEF BookFront
<1>3. /\ DOMAIN bids \subseteq Nat /\ DOMAIN asks \subseteq Nat
      /\ \A p \in DOMAIN bids : bids[p] \subseteq Nat
      /\ \A p \in DOMAIN asks : asks[p] \subseteq Nat
  BY MarketAssumption DEF TypeOK
<1>4. b = c /\ a = d
  <2>1. b <= c /\ c <= b /\ a <= d /\ d <= a /\ b \in Nat /\ c \in Nat /\ a \in Nat /\ d \in Nat
    BY <1>1, <1>2, <1>3
  <2> QED BY <2>1
<1>5. i <= k /\ k <= i /\ j <= l /\ l <= j /\ i \in Nat /\ k \in Nat /\ j \in Nat /\ l \in Nat
  BY <1>1, <1>2, <1>3, <1>4
<1> QED BY <1>5

\* One iteration of the loop with its messages, its two orders named.
Executes(i, j) ==
  LET t    == Match(i, j)
      q    == t.quantity
      once == AddDepth(pricePoints, orders[i].price, -q, 0)
      done == Filled(i, j, q)
  IN
  /\ BookFront(i, j) /\ lastTrade' = t
  /\ accounts' = Confirm(Confirm(accounts, orders[i].trader, "bid", t), orders[j].trader, "ask", t)
  /\ pricePoints' = AddDepth(once, orders[j].price, 0, -q)
  /\ orders' = [k \in DOMAIN orders \ done |->
                  IF k \in {i, j} THEN [orders[k] EXCEPT !.quantity = @ - q] ELSE orders[k]]
  /\ traderOrders' = [traderOrders EXCEPT ![orders[i].trader] = @ \ (done \cap {i}),
                                          ![orders[j].trader] = @ \ (done \cap {j})]
  /\ orderCount' = orderCount
  /\ Send(<<TradeMsg(t),
            AccountMsg(orders[i].trader, accounts'[orders[i].trader]),
            AccountMsg(orders[j].trader, accounts'[orders[j].trader]),
            PricePointMsg(orders[i].price, DepthAt(once, orders[i].price)),
            PricePointMsg(orders[j].price, DepthAt(pricePoints', orders[j].price)),
            OrderMsg("orderExecuted", orders[i].trader, i, orders[i].type, t.price,
                     orders[i].quantity - q),
            OrderMsg("orderExecuted", orders[j].trader, j, orders[j].type, t.price,
                     orders[j].quantity - q)>>)

LEMMA ExecuteExecutes ==
  ASSUME TypeOK, Execute
  PROVE  \E i \in DOMAIN orders, j \in DOMAIN orders : Executes(i, j)
<1>1. PICK i \in DOMAIN orders, j \in DOMAIN orders :
        LET bid  == orders[i]
            ask  == orders[j]
            t    == Match(i, j)
            done == Filled(i, j, t.quantity)
        IN
        /\ BookFront(i, j)
        /\ lastTrade' = t
        /\ accounts' = Confirm(Confirm(accounts, bid.trader, "bid", t), ask.trader, "ask", t)
        /\ pricePoints' = AddAskDepth(AddBidDepth(pricePoints, bid.price, -t.quantity),
                                      ask.price, -t.quantity)
        /\ orders' = [k \in DOMAIN orders \ done |->
                        IF k \in {i, j}
                          THEN [orders[k] EXCEPT !.quantity = @ - t.quantity]
                          ELSE orders[k]]
        /\ traderOrders' = [traderOrders EXCEPT ![bid.trader] = @ \ (done \cap {i}),
                                                ![ask.trader] = @ \ (done \cap {j})]
  <2>1. ExecuteTrade
    BY DEF Execute
  <2> QED BY <2>1 DEF ExecuteTrade
<1>2. orderCount' = orderCount
  BY DEF Execute, ExecuteTrade
<1>3. PICK k \in DOMAIN orders, l \in DOMAIN orders :
        LET bid  == orders[k]
            ask  == orders[l]
            t    == Match(k, l)
            once == AddBidDepth(pricePoints, bid.price, -t.quantity)
        IN
        /\ BookFront(k, l)
        /\ Send(<<TradeMsg(t),
                  AccountMsg(bid.trader, accounts'[bid.trader]),
                  AccountMsg(ask.trader, accounts'[ask.trader]),
                  PricePointMsg(bid.price, DepthAt(once, bid.price)),
                  PricePointMsg(ask.price, DepthAt(pricePoints', ask.price)),
                  OrderMsg("orderExecuted", bid.trader, k, bid.type, t.price,
                           bid.quantity - t.quantity),
                  OrderMsg("orderExecuted", ask.trader, l, ask.type, t.price,
                           ask.quantity - t.quantity)>>)
  BY Zenon DEF Execute
<1>4. k = i /\ l = j
  <2>1. BookFront(i, j) /\ BookFront(k, l)
    BY Zenon, <1>1, <1>3
  <2> QED BY <2>1, FrontUnique
<1>5. Executes(i, j)
  BY <1>1, <1>2, <1>3, <1>4 DEF Executes, AddBidDepth, AddAskDepth
<1> QED BY <1>5

\* What is left of an order after the trade
Rest(i, j, id) == orders[id].quantity - Match(i, j).quantity

\* What the trade leaves of a trader's orders.
LEMMA ExecuteOwed ==
  ASSUME FeedTypeOK, BookIntegrity, NEW i \in DOMAIN orders, NEW j \in DOMAIN orders, Executes(i, j),
         NEW w \in Traders
  PROVE  /\ i # j /\ i \in Nat \ {0} /\ j \in Nat \ {0} /\ i <= orderCount /\ j <= orderCount
         /\ Rest(i, j, i) \in 0..LongMax /\ Rest(i, j, j) \in 0..LongMax
         /\ traderOrders'[w] \subseteq traderOrders[w]
         /\ \A id \in traderOrders'[w] :
              /\ orders'[id].type = orders[id].type /\ orders'[id].price = orders[id].price
              /\ orders'[id].quantity
                   = IF id \in {i, j} THEN Rest(i, j, id) ELSE orders[id].quantity
         /\ \A id : id \notin {i, j} =>
              Owed(traderOrders'[w], orders', id) = Owed(traderOrders[w], orders, id)
         /\ \A id \in {i, j} :
              /\ id \in traderOrders[w] <=> orders[id].trader = w
              /\ Owed(traderOrders'[w], orders', id) = IF orders[id].trader = w THEN Double(Rest(i, j, id)) ELSE 0
<1> DEFINE q == Match(i, j).quantity
           done == Filled(i, j, q)
           own == traderOrders[w]
           own2 == traderOrders'[w]
<1>0. TypeOK
  BY DEF FeedTypeOK
<1>1. /\ BookFront(i, j)
      /\ orders' = [k \in DOMAIN orders \ done |->
                      IF k \in {i, j} THEN [orders[k] EXCEPT !.quantity = @ - q] ELSE orders[k]]
      /\ traderOrders' = [traderOrders EXCEPT ![orders[i].trader] = @ \ (done \cap {i}),
                                              ![orders[j].trader] = @ \ (done \cap {j})]
  BY DEF Executes
<1>2. i # j
  BY <1>0, <1>1, FrontOrders
<1>3. /\ q <= orders[i].quantity /\ q <= orders[j].quantity /\ q \in Nat
      /\ orders[i].quantity \in 1..LongMax /\ orders[j].quantity \in 1..LongMax
  <2>1. /\ Match(i, j) \in [price : Prices, quantity : 1..LongMax]
        /\ q <= orders[i].quantity /\ q <= orders[j].quantity
    BY <1>0, MatchType
  <2>2. orders[i] \in Order /\ orders[j] \in Order
    BY <1>0 DEF TypeOK
  <2> HIDE DEF q
  <2>3. orders[i].quantity \in 1..LongMax /\ orders[j].quantity \in 1..LongMax
    BY <2>2 DEF Order
  <2>4. q \in Nat
    BY <2>1, MarketAssumption DEF q
  <2> QED BY <2>1, <2>3, <2>4
<1>4. Rest(i, j, i) \in 0..LongMax /\ Rest(i, j, j) \in 0..LongMax
  BY <1>3, DoubleIs DEF Rest
<1>5. /\ i \in 1..orderCount /\ j \in 1..orderCount /\ orderCount \in Nat
      /\ traderOrders \in [Traders -> SUBSET (1..orderCount)]
      /\ orders[i].trader \in Traders /\ orders[j].trader \in Traders
      /\ \A k \in DOMAIN orders : DOMAIN orders[k] = {"trader", "type", "price", "quantity"}
  <2>1. orders \in [DOMAIN orders -> Order] /\ orderCount \in Nat /\ DOMAIN orders \subseteq 1..orderCount
        /\ traderOrders \in [Traders -> SUBSET (1..orderCount)]
    BY <1>0, MarketAssumption DEF TypeOK
  <2>2. orders[i].trader \in Traders /\ orders[j].trader \in Traders
    BY <2>1 DEF Order
  <2>3. \A k \in DOMAIN orders : DOMAIN orders[k] = {"trader", "type", "price", "quantity"}
    BY <2>1 DEF Order
  <2> QED BY <2>1, <2>2, <2>3
<1>6. \A id : id \in done <=> id \in {i, j} /\ orders[id].quantity = q
  BY DEF Filled
<1>7. \A id \in {i, j} : id \in own <=> orders[id].trader = w
  BY DEF BookIntegrity, OrdersFiled, ListsHoldOrders
<1> HIDE DEF done
<1>8. own2 = own \ ((IF orders[i].trader = w THEN done \cap {i} ELSE {})
                      \cup (IF orders[j].trader = w THEN done \cap {j} ELSE {}))
  BY <1>1, <1>5
<1>9. \A id : id \in own2 <=> id \in own /\ id \notin done
  BY <1>6, <1>7, <1>8
<1>10. \A id \in own : id \in DOMAIN orders
  BY DEF BookIntegrity, ListsHoldOrders
<1>13. ASSUME NEW id \in own2
       PROVE  /\ orders'[id].type = orders[id].type /\ orders'[id].price = orders[id].price
              /\ orders'[id].quantity
                   = IF id \in {i, j} THEN Rest(i, j, id) ELSE orders[id].quantity
  <2>1. id \in DOMAIN orders /\ id \notin done
    BY <1>9, <1>10
  <2>2. orders'[id] = IF id \in {i, j} THEN [orders[id] EXCEPT !.quantity = @ - q] ELSE orders[id]
    BY <1>1, <2>1
  <2> QED BY <1>5, <2>1, <2>2 DEF Rest
<1>11. ASSUME NEW id, id \notin {i, j} PROVE Owed(own2, orders', id) = Owed(own, orders, id)
  <2>1. id \in own2 <=> id \in own
    BY <1>6, <1>9, <1>11
  <2>2. id \in own => orders'[id] = orders[id]
    BY <1>1, <1>6, <1>10, <1>11
  <2> QED BY <2>1, <2>2 DEF Owed
<1>12. ASSUME NEW id \in {i, j}
       PROVE  Owed(own2, orders', id) = IF orders[id].trader = w THEN Double(Rest(i, j, id)) ELSE 0
  <2>1. CASE orders[id].trader # w
    BY <1>7, <1>9, <2>1 DEF Owed
  <2>2. CASE orders[id].trader = w /\ id \in done
    <3>1. orders[id].quantity = q /\ id \notin own2
      BY <1>6, <1>9, <2>2
    <3>2. Double(Rest(i, j, id)) = 0
      BY <1>3, <3>1, DoubleIs DEF Rest
    <3> QED BY <2>2, <3>1, <3>2 DEF Owed
  <2>3. CASE orders[id].trader = w /\ id \notin done
    <3>1. id \in own2 /\ id \in DOMAIN orders
      BY <1>7, <1>9, <1>10, <2>3
    <3>2. orders'[id] = [orders[id] EXCEPT !.quantity = @ - q]
      BY <1>1, <2>3, <3>1
    <3>3. orders'[id].quantity = orders[id].quantity - q
      BY <1>5, <3>1, <3>2
    <3> QED BY <2>3, <3>1, <3>3 DEF Owed, Rest
  <2> QED BY <2>1, <2>2, <2>3
<1> QED BY <1>2, <1>4, <1>5, <1>7, <1>9, <1>11, <1>12, <1>13

LEMMA ExecuteAccounts ==
  ASSUME NEW i, NEW j, Executes(i, j), NEW w \in DOMAIN accounts,
         orders[i].trader # w, orders[j].trader # w
  PROVE  accounts'[w] = accounts[w]
<1>1. accounts' = Confirm(Confirm(accounts, orders[i].trader, "bid", Match(i, j)),
                          orders[j].trader, "ask", Match(i, j))
  BY DEF Executes
<1>2. ASSUME NEW book, w \in DOMAIN book, NEW trader, trader # w, NEW type, NEW t
      PROVE  w \in DOMAIN Confirm(book, trader, type, t) /\ Confirm(book, trader, type, t)[w] = book[w]
  BY <1>2 DEF Confirm
<1> DEFINE once == Confirm(accounts, orders[i].trader, "bid", Match(i, j))
<1>3. w \in DOMAIN once /\ once[w] = accounts[w]
  BY <1>2
<1> HIDE DEF once
<1>4. Confirm(once, orders[j].trader, "ask", Match(i, j))[w] = once[w]
  BY <1>2, <1>3
<1> QED BY <1>1, <1>3, <1>4 DEF once

\* The messages of a trade say what its types allow.
LEMMA ExecuteMessages ==
  ASSUME FeedTypeOK, BookIntegrity, FeedTypeOK', NEW i \in DOMAIN orders, NEW j \in DOMAIN orders,
         Executes(i, j), NEW once, once = AddDepth(pricePoints, orders[i].price, -Match(i, j).quantity, 0)
  PROVE  /\ TradeMsg(Match(i, j)) \in LastTrades /\ TradeMsg(Match(i, j)).price = lastTrade'.price
         /\ \A k \in {i, j} :
              /\ orders[k].trader \in Traders /\ orders[k].price \in Prices
              /\ AccountMsg(orders[k].trader, accounts'[orders[k].trader]) \in Accounts
              /\ AccountMsg(orders[k].trader, accounts'[orders[k].trader]).to = orders[k].trader
              /\ AccountMsg(orders[k].trader, accounts'[orders[k].trader]).position
                   = accounts'[orders[k].trader]
         /\ once \in [DOMAIN once -> Depth] /\ pricePoints' \in [DOMAIN pricePoints' -> Depth]
         /\ pricePoints' = AddDepth(once, orders[j].price, 0, -Match(i, j).quantity)
<1>1. TypeOK /\ TypeOK'
  BY DEF FeedTypeOK
<1>2. Match(i, j) \in [price : Prices, quantity : 1..LongMax]
  BY <1>1, MatchType
<1>3. TradeMsg(Match(i, j)) \in LastTrades /\ TradeMsg(Match(i, j)).price = lastTrade'.price
  <2>1. lastTrade' = Match(i, j)
    BY DEF Executes
  <2>2. Match(i, j).price \in Prices
    BY <1>2
  <2> QED BY <2>1, <2>2 DEF TradeMsg, LastTrades
<1>4. DOMAIN accounts' = DOMAIN accounts /\ accounts' \in [DOMAIN accounts' -> Position]
  <2>1. accounts' = Confirm(Confirm(accounts, orders[i].trader, "bid", Match(i, j)),
                            orders[j].trader, "ask", Match(i, j))
    BY DEF Executes
  <2>2. accounts' \in [DOMAIN accounts' -> Position]
    BY <1>1 DEF TypeOK
  <2> QED BY <2>1, <2>2 DEF Confirm
<1>5. ASSUME NEW k \in {i, j}
      PROVE  /\ orders[k].trader \in Traders /\ orders[k].price \in Prices
             /\ AccountMsg(orders[k].trader, accounts'[orders[k].trader]) \in Accounts
             /\ AccountMsg(orders[k].trader, accounts'[orders[k].trader]).to = orders[k].trader
             /\ AccountMsg(orders[k].trader, accounts'[orders[k].trader]).position
                  = accounts'[orders[k].trader]
  <2>1. orders[k] \in Order
    BY <1>1 DEF TypeOK
  <2>2. orders[k].trader \in Traders /\ orders[k].price \in Prices
    BY <2>1 DEF Order
  <2>3. orders[k].trader \in DOMAIN accounts
    BY DEF BookIntegrity, OrdersFiled
  <2>4. accounts'[orders[k].trader] \in Position
    BY <1>4, <2>3
  <2> QED BY <2>2, <2>4 DEF AccountMsg, Accounts
<1>6. once \in [DOMAIN once -> Depth]
  <2>1. -Match(i, j).quantity \in Int
    BY <1>2, MarketAssumption
  <2>2. pricePoints \in [DOMAIN pricePoints -> Depth] /\ DOMAIN pricePoints \subseteq Prices
    BY <1>1 DEF TypeOK
  <2>3. orders[i].price \in Prices /\ 0 \in Int
    BY <1>5
  <2>4. AddDepth(pricePoints, orders[i].price, -Match(i, j).quantity, 0)
          \in [DOMAIN AddDepth(pricePoints, orders[i].price, -Match(i, j).quantity, 0) -> Depth]
    BY <2>1, <2>2, <2>3, AddDepthType
  <2> QED BY <2>4
<1>7. pricePoints' \in [DOMAIN pricePoints' -> Depth]
  BY <1>1 DEF TypeOK
<1>8. pricePoints' = AddDepth(once, orders[j].price, 0, -Match(i, j).quantity)
  BY DEF Executes
<1> QED BY <1>3, <1>5, <1>6, <1>7, <1>8

LEMMA ExecuteKeeps ==
  ASSUME FeedInv, FeedTypeOK', BookIntegrity', Execute, NEW w \in Watchers
  PROVE  PageInv(w)'
<1>1. FeedTypeOK /\ BookIntegrity /\ TypeOK
  BY DEF FeedInv, FeedTypeOK
<1>2. w \in Traders
  BY WatcherIs
<1>3. PICK i \in DOMAIN orders, j \in DOMAIN orders : Executes(i, j)
  BY <1>1, ExecuteExecutes
<1> DEFINE once == AddDepth(pricePoints, orders[i].price, -Match(i, j).quantity, 0)
           bt == orders[i].trader
           at == orders[j].trader
           bp == orders[i].price
           ap == orders[j].price
           a == TradeMsg(Match(i, j))
           b == AccountMsg(bt, accounts'[bt])
           c == AccountMsg(at, accounts'[at])
           d == PricePointMsg(bp, DepthAt(once, bp))
           e == PricePointMsg(ap, DepthAt(pricePoints', ap))
           tp == Match(i, j).price
           f == OrderMsg("orderExecuted", bt, i, orders[i].type, tp, Rest(i, j, i))
           g == OrderMsg("orderExecuted", at, j, orders[j].type, tp, Rest(i, j, j))
           u == Replayed(w)
           u1 == Hear(w, u, a)
           u2 == Hear(w, u1, b)
           u3 == Hear(w, u2, c)
           u4 == Hear(w, u3, d)
           u5 == Hear(w, u4, e)
           u6 == Hear(w, u5, f)
           u7 == Hear(w, u6, g)
           own == traderOrders[w]
           own2 == traderOrders'[w]
           F2 == Fit(own2, orders', orderCount')
<1>4. Send(<<a, b, c, d, e, f, g>>)
  BY <1>3, Zenon DEF Executes, Rest
<1>5. orderCount' = orderCount /\ orderCount \in Nat
  BY <1>1, <1>3 DEF Executes, TypeOK
<1>6. /\ i # j /\ i \in Nat \ {0} /\ j \in Nat \ {0} /\ i <= orderCount /\ j <= orderCount
      /\ Rest(i, j, i) \in 0..LongMax /\ Rest(i, j, j) \in 0..LongMax
      /\ own2 \subseteq own
      /\ \A id \in own2 :
           /\ orders'[id].type = orders[id].type /\ orders'[id].price = orders[id].price
           /\ orders'[id].quantity
                = IF id \in {i, j} THEN Rest(i, j, id) ELSE orders[id].quantity
      /\ \A id : id \notin {i, j} => Owed(own2, orders', id) = Owed(own, orders, id)
      /\ \A id \in {i, j} :
           /\ id \in own <=> orders[id].trader = w
           /\ Owed(own2, orders', id) = IF orders[id].trader = w THEN Double(Rest(i, j, id)) ELSE 0
  BY <1>1, <1>2, <1>3, ExecuteOwed
<1>7. /\ a \in LastTrades /\ a.price = lastTrade'.price
      /\ bt \in Traders /\ bp \in Prices /\ at \in Traders /\ ap \in Prices
      /\ b \in Accounts /\ b.to = bt /\ b.position = accounts'[bt]
      /\ c \in Accounts /\ c.to = at /\ c.position = accounts'[at]
      /\ once \in [DOMAIN once -> Depth] /\ pricePoints' \in [DOMAIN pricePoints' -> Depth]
      /\ pricePoints' = AddDepth(once, ap, 0, -Match(i, j).quantity)
  <2>1. once = AddDepth(pricePoints, orders[i].price, -Match(i, j).quantity, 0)
    OBVIOUS
  <2> HIDE DEF once
  <2> QED BY <1>1, <1>3, <2>1, ExecuteMessages
<1>8. \A x : x # bp => /\ x \in DOMAIN once <=> x \in DOMAIN pricePoints
                       /\ DepthAt(once, x) = DepthAt(pricePoints, x)
  BY AddDepthElsewhere
<1> HIDE DEF once
<1>9. \A x : x # ap => /\ x \in DOMAIN pricePoints' <=> x \in DOMAIN once
                       /\ DepthAt(pricePoints', x) = DepthAt(once, x)
  BY <1>7, AddDepthElsewhere
<1>10. d \in PricePoints /\ d.price = bp /\ d.depth = DepthAt(once, bp)
  <2>1. once \in [DOMAIN once -> Depth] /\ bp \in Prices
    BY <1>7
  <2> HIDE DEF bp
  <2> QED BY <2>1, PointIn
<1>11. e \in PricePoints /\ e.price = ap /\ e.depth = DepthAt(pricePoints', ap)
  <2>1. pricePoints' \in [DOMAIN pricePoints' -> Depth] /\ ap \in Prices
    BY <1>7
  <2> HIDE DEF ap
  <2> QED BY <2>1, PointIn
<1>24. /\ tp \in Prices /\ orders[i].type = "bid" /\ orders[j].type = "ask"
       /\ orders[i].type \in OrderTypes /\ orders[j].type \in OrderTypes
       /\ tp <= orders[i].price /\ tp >= orders[j].price
  <2>1. BookFront(i, j)
    BY <1>3 DEF Executes
  <2>2. /\ orders[i].type = "bid" /\ orders[j].type = "ask"
        /\ orders[j].price <= orders[i].price
    BY <1>1, <2>1, FrontOrders
  <2>3. bp \in Int /\ ap \in Int /\ tp \in {bp, ap}
    BY <1>7, PricesInt DEF Match
  <2> QED BY <1>7, <2>2, <2>3 DEF OrderTypes
<1>12. /\ f \in OrderEnds /\ f.event = "orderExecuted" /\ f.to = bt /\ f.id = i
       /\ f.remaining = Rest(i, j, i) /\ Pill(f).remaining = Double(Rest(i, j, i))
       /\ Suits(Pill(f), orders[i])
  <2>1. "orderExecuted" \in OrderEvents /\ "orderExecuted" # "orderSubmitted"
    BY DEF OrderEvents
  <2>2. /\ bt \in Traders /\ Rest(i, j, i) \in 0..LongMax /\ i \in Nat \ {0}
        /\ orders[i].type \in OrderTypes /\ tp \in Prices
    BY <1>6, <1>7, <1>24
  <2> HIDE DEF bt, tp
  <2>3. /\ f \in OrderEnds /\ f.event = "orderExecuted" /\ f.to = bt /\ f.id = i
        /\ f.remaining = Rest(i, j, i)
        /\ Pill(f).type = orders[i].type /\ Pill(f).price = tp
        /\ Pill(f).remaining = Double(Rest(i, j, i))
    BY <2>1, <2>2, OrderIn
  <2> QED BY <1>24, <2>3 DEF Suits
<1>13. /\ g \in OrderEnds /\ g.event = "orderExecuted" /\ g.to = at /\ g.id = j
       /\ g.remaining = Rest(i, j, j) /\ Pill(g).remaining = Double(Rest(i, j, j))
       /\ Suits(Pill(g), orders[j])
  <2>1. "orderExecuted" \in OrderEvents /\ "orderExecuted" # "orderSubmitted"
    BY DEF OrderEvents
  <2>2. /\ at \in Traders /\ Rest(i, j, j) \in 0..LongMax /\ j \in Nat \ {0}
        /\ orders[j].type \in OrderTypes /\ tp \in Prices
    BY <1>6, <1>7, <1>24
  <2> HIDE DEF at, tp
  <2>3. /\ g \in OrderEnds /\ g.event = "orderExecuted" /\ g.to = at /\ g.id = j
        /\ g.remaining = Rest(i, j, j)
        /\ Pill(g).type = orders[j].type /\ Pill(g).price = tp
        /\ Pill(g).remaining = Double(Rest(i, j, j))
    BY <2>1, <2>2, OrderIn
  <2> QED BY <1>24, <2>3 DEF Suits
<1> HIDE DEF a, b, c, d, e, f, g, bt, at, bp, ap
<1>14. /\ a \in F2 /\ b \in F2 /\ c \in F2 /\ d \in F2 /\ e \in F2
  BY <1>7, <1>10, <1>11, FitIs
<1>15. f \in F2
  <2>1. f.id <= orderCount' /\ Honest(Pill(f), own2, orders', f.id)
    <3>1. Double(Rest(i, j, i)) \in Nat
      BY <1>6, DoubleIs
    <3>2. Pill(f).remaining >= Owed(own2, orders', f.id)
      BY <1>6, <1>12, <3>1
    <3>3. i \in own2 => Suits(Pill(f), orders'[i])
      BY <1>6, <1>12 DEF Suits
    <3> QED BY <1>5, <1>6, <1>12, <3>2, <3>3 DEF Honest
  <2> QED BY <1>12, <2>1, FitIs
<1>16. g \in F2
  <2>1. g.id <= orderCount' /\ Honest(Pill(g), own2, orders', g.id)
    <3>1. Double(Rest(i, j, j)) \in Nat
      BY <1>6, DoubleIs
    <3>2. Pill(g).remaining >= Owed(own2, orders', g.id)
      BY <1>6, <1>13, <3>1
    <3>3. j \in own2 => Suits(Pill(g), orders'[j])
      BY <1>6, <1>13 DEF Suits
    <3> QED BY <1>5, <1>6, <1>13, <3>2, <3>3 DEF Honest
  <2> QED BY <1>13, <2>1, FitIs
<1>17. /\ u = Replay(view[w], stream[w]) /\ u \in Views /\ view[w] \in Views
       /\ stream[w] \in Seq(Fit(own, orders, orderCount))
  BY ReplayedIs
<1>18. Eases(own, orders, orderCount, own2, orders', orderCount')
  <2>1. orderCount <= orderCount'
    BY <1>5
  <2>2. ASSUME NEW x \in own2, x <= orderCount
        PROVE  /\ x \in own /\ orders'[x].quantity <= orders[x].quantity
               /\ orders'[x].type = orders[x].type /\ orders'[x].price = orders[x].price
    <3>1. /\ x \in own
          /\ orders'[x].type = orders[x].type /\ orders'[x].price = orders[x].price
          /\ orders'[x].quantity = IF x \in {i, j} THEN Rest(i, j, x) ELSE orders[x].quantity
      BY <1>6
    <3>2. orders[x].quantity \in 1..LongMax
      BY <1>1, <1>2, <3>1, OwnOrders
    <3>3. Match(i, j).quantity \in 1..LongMax
      BY <1>1, MatchType
    <3>4. orders'[x].quantity <= orders[x].quantity
      BY <3>1, <3>2, <3>3, DoubleIs DEF Rest
    <3> QED BY <3>1, <3>4
  <2> QED BY <1>1, <1>2, <2>1, <2>2, StepEases
<1> HIDE DEF u, own, own2
<1>19. Leaves(w, F2, stream[w], view[w], <<a, b, c, d, e, f, g>>, u7)
  <2>1. F2 \in SUBSET Messages
    BY FitIs
  <2>2. stream[w] \in Seq(F2)
    BY <1>17, <1>18, EasesKeeps
  <2>3. view[w] \in Views
    BY <1>17
  <2>4. u1 = Hear(w, Replay(view[w], stream[w]), a)
    BY <1>17
  <2>5. u2 = Hear(w, u1, b) /\ u3 = Hear(w, u2, c) /\ u4 = Hear(w, u3, d) /\ u5 = Hear(w, u4, e)
        /\ u6 = Hear(w, u5, f) /\ u7 = Hear(w, u6, g)
    OBVIOUS
  <2> HIDE DEF u1, u2, u3, u4, u5, u6, u7, F2
  <2> QED BY <1>14, <1>15, <1>16, <2>1, <2>2, <2>3, <2>4, <2>5, LeavesSeven
<1>20. /\ u7.price = a.price
       /\ u7.account = IF c.to = w THEN Rounded(c.position)
                        ELSE IF b.to = w THEN Rounded(b.position) ELSE u.account
       /\ \A p : SizeAt(u7.bids, p) = IF p = e.price THEN Double(e.depth.bids)
                                      ELSE IF p = d.price THEN Double(d.depth.bids) ELSE SizeAt(u.bids, p)
       /\ \A p : SizeAt(u7.asks, p) = IF p = e.price THEN Double(e.depth.asks)
                                      ELSE IF p = d.price THEN Double(d.depth.asks) ELSE SizeAt(u.asks, p)
       /\ \A id : PillAt(u7, id) = IF id = g.id /\ g.to = w THEN Pilled(PillAt(u, id), g)
                                   ELSE IF id = f.id /\ f.to = w THEN Pilled(PillAt(u, id), f)
                                   ELSE PillAt(u, id)
  <2>1. u1 = Hear(w, u, a) /\ u2 = Hear(w, u1, b) /\ u3 = Hear(w, u2, c) /\ u4 = Hear(w, u3, d)
        /\ u5 = Hear(w, u4, e) /\ u6 = Hear(w, u5, f) /\ u7 = Hear(w, u6, g)
    OBVIOUS
  <2>2. f.id # g.id
    BY <1>6, <1>12, <1>13
  <2>3. a \in LastTrades
    BY <1>7
  <2>4. b \in Accounts
    BY <1>7
  <2>5. c \in Accounts
    BY <1>7
  <2>6. d \in PricePoints
    BY <1>10
  <2>7. e \in PricePoints
    BY <1>11
  <2>8. f \in OrderEnds
    BY <1>12
  <2>9. g \in OrderEnds
    BY <1>13
  <2>10. u \in Views
    BY <1>17
  <2> HIDE DEF u1, u2, u3, u4, u5, u6, u7
  <2>11. TradeShown(w, u, u7, a, b, c, d, e, f, g)
    BY <2>1, <2>2, <2>3, <2>4, <2>5, <2>6, <2>7, <2>8, <2>9, <2>10, HearTrading
  <2> QED BY <2>11 DEF TradeShown
<1> HIDE DEF u7, F2
<1>21. ASSUME page[w] = "connected" PROVE u7.price = lastTrade'.price /\ u7.account = Rounded(accounts'[w])
  <2>1. u.account = Rounded(accounts[w]) /\ w \in DOMAIN accounts
    BY <1>21 DEF FeedInv, PageInv, Covers, u
  <2>2. bt # w /\ at # w => accounts'[w] = accounts[w]
    BY <1>3, <2>1, ExecuteAccounts DEF bt, at
  <2> QED BY <1>7, <1>20, <2>1, <2>2
<1>22. ASSUME page[w] = "connected"
       PROVE  Tracks(u, u7, pricePoints, pricePoints', own, orders, own2, orders')
  <2>1. ASSUME NEW p \in Prices
        PROVE  \/ /\ SizeAt(u7.bids, p) = Double(DepthAt(pricePoints', p).bids)
                  /\ SizeAt(u7.asks, p) = Double(DepthAt(pricePoints', p).asks)
               \/ /\ SizeAt(u7.bids, p) = SizeAt(u.bids, p) /\ SizeAt(u7.asks, p) = SizeAt(u.asks, p)
                  /\ DepthAt(pricePoints', p) = DepthAt(pricePoints, p)
                  /\ p \in DOMAIN pricePoints' => p \in DOMAIN pricePoints
    <3>1. CASE p = ap
      BY <1>11, <1>20, <3>1
    <3>2. CASE p # ap /\ p = bp
      BY <1>9, <1>10, <1>11, <1>20, <3>2
    <3>3. CASE p # ap /\ p # bp
      BY <1>8, <1>9, <1>10, <1>11, <1>20, <3>3
    <3> QED BY <3>1, <3>2, <3>3
  <2>2. ASSUME NEW id \in {i, j}, orders[id].trader = w PROVE PillAt(u, id) # 0
    <3>1. id \in own /\ PillAt(u, id) >= Double(orders[id].quantity)
      BY <1>6, <1>22, <2>2 DEF FeedInv, PageInv, Covers, u, own
    <3>2. Double(orders[id].quantity) \in Nat \ {0}
      BY <1>1, <1>2, <3>1, OwnOrders DEF own
    <3>3. PillAt(u, id) \in Nat
      BY <1>17, PillsIn
    <3> QED BY <3>1, <3>2, <3>3
  <2>3. ASSUME NEW id \in Nat
        PROVE  \/ PillAt(u7, id) = Owed(own2, orders', id)
               \/ /\ PillAt(u7, id) = PillAt(u, id) /\ Owed(own2, orders', id) = Owed(own, orders, id)
                  /\ id \in own2 => id \in own
    <3>1. CASE id \notin {i, j}
      BY <1>6, <1>12, <1>13, <1>20, <3>1
    <3>2. CASE id \in {i, j} /\ orders[id].trader # w
      <4>1. PillAt(u7, id) = PillAt(u, id)
        BY <1>6, <1>12, <1>13, <1>20, <3>2 DEF at, bt
      <4>2. Owed(own, orders, id) = 0 /\ Owed(own2, orders', id) = 0
        BY <1>6, <3>2 DEF Owed
      <4> QED BY <1>6, <4>1, <4>2
    <3>3. CASE id = i /\ orders[id].trader = w
      BY <1>6, <1>12, <1>13, <1>20, <2>2, <3>3 DEF Pilled, bt
    <3>4. CASE id = j /\ orders[id].trader = w
      BY <1>6, <1>12, <1>13, <1>20, <2>2, <3>4 DEF Pilled, at
    <3> QED BY <3>1, <3>2, <3>3, <3>4
  <2> QED BY <2>1, <2>3 DEF Tracks
<1>23. w \in DOMAIN accounts => w \in DOMAIN accounts'
  <2>1. accounts' = Confirm(Confirm(accounts, orders[i].trader, "bid", Match(i, j)),
                            orders[j].trader, "ask", Match(i, j))
    BY <1>3 DEF Executes
  <2> QED BY <2>1 DEF Confirm
<1> QED BY <1>4, <1>18, <1>19, <1>21, <1>22, <1>23, HandlerKeeps DEF u, own, own2, F2

-----------------------------------------------------------------------------
(* Types and the market under every step of the feed. *)

LEMMA FeedMarketStep == [FeedNext]_fvars => [Next]_vars
<1> SUFFICES ASSUME [FeedNext]_fvars PROVE [Next]_vars
  OBVIOUS
<1>1. CASE \E t \in Traders : Register(t)
  BY <1>1 DEF Register, Next
<1>2. ASSUME NEW type \in OrderTypes, NEW t \in Traders, NEW p \in Prices, NEW q \in Quantities,
             Place(type, t, p, q)
      PROVE  Next
  <2>1. PlaceBid(t, p, q) \/ PlaceAsk(t, p, q)
    BY <1>2, Zenon DEF Place
  <2> QED BY <2>1 DEF Next
<1>3. CASE Execute
  BY <1>3, Zenon DEF Execute, Next
<1>4. CASE Settle
  BY <1>4 DEF Settle, Next
<1>5. ASSUME NEW t \in Traders, NEW id \in DOMAIN orders, Cancel(t, id) PROVE Next
  <2>1. CancelOrder(t, id)
    BY <1>5, Zenon DEF Cancel
  <2> QED BY <2>1 DEF Next
<1>6. ASSUME NEW w \in Watchers,
             \/ OpenPage(w) \/ Rejoin(w) \/ LoseConnection(w) \/ ClosePage(w)
             \/ Unsubscribe(w) \/ Deliver(w)
      PROVE  UNCHANGED vars
  BY <1>6, Zenon DEF OpenPage, Rejoin, LoseConnection, ClosePage, Unsubscribe, Deliver
<1>7. CASE UNCHANGED fvars
  BY <1>7 DEF fvars
<1> QED BY <1>1, <1>2, <1>3, <1>4, <1>5, <1>6, <1>7, Zenon DEF FeedNext

\* A page's own step leaves the other pages alone.
LinkTypes(l, s, p, r) ==
  /\ l \in [Watchers -> {"closed", "open", "lost"}]
  /\ p \in [Watchers -> {"none", "connected", "retrying", "refused"}]
  /\ r \in [Watchers -> BOOLEAN]
  /\ DOMAIN s = Watchers
  /\ \A w \in Watchers : l[w] # "open" => s[w] = <<>>
  /\ \A w \in Watchers : p[w] = "connected" <=> l[w] = "open"

LEMMA FeedTypeIs ==
  /\ FeedTypeOK <=> TypeOK /\ LinkTypes(link, stream, page, rejoined) /\ DOMAIN view = Watchers
  /\ FeedTypeOK' <=> TypeOK' /\ LinkTypes(link', stream', page', rejoined') /\ DOMAIN view' = Watchers
BY DEF FeedTypeOK, LinkTypes

LEMMA SendTypes ==
  ASSUME LinkTypes(link, stream, page, rejoined), DOMAIN view = Watchers, NEW msgs, Send(msgs)
  PROVE  LinkTypes(link', stream', page', rejoined') /\ DOMAIN view' = Watchers
<1>1. /\ stream' = [w \in Watchers |->
                      IF link[w] = "open" THEN Sent(w, stream[w], msgs) ELSE stream[w]]
      /\ link' = link /\ page' = page /\ rejoined' = rejoined /\ view' = view
  BY Zenon DEF Send, Sent
<1> QED BY <1>1 DEF LinkTypes

LEMMA SubscribeTypes ==
  ASSUME LinkTypes(link, stream, page, rejoined), NEW w \in Watchers,
         IF link[w] = "closed" THEN Subscribe(w) ELSE Refuse(w), page[w] # "connected",
         rejoined' \in [Watchers -> BOOLEAN]
  PROVE  LinkTypes(link', stream', page', rejoined')
<1>1. CASE link[w] = "closed"
  <2>1. /\ link' = [link EXCEPT ![w] = "open"]
        /\ stream' = [stream EXCEPT ![w] = Snapshot(w)]
        /\ page' = [page EXCEPT ![w] = "connected"]
    BY <1>1 DEF Subscribe
  <2> QED BY <2>1 DEF LinkTypes
<1>2. CASE link[w] # "closed"
  <2>1. page' = [page EXCEPT ![w] = "refused"] /\ UNCHANGED <<link, stream>>
    BY <1>2 DEF Refuse
  <2> QED BY <2>1 DEF LinkTypes
<1> QED BY <1>1, <1>2

LEMMA PageTypes ==
  ASSUME LinkTypes(link, stream, page, rejoined), DOMAIN view = Watchers, NEW w \in Watchers,
         \/ OpenPage(w) \/ Rejoin(w) \/ LoseConnection(w) \/ ClosePage(w)
         \/ Unsubscribe(w) \/ Deliver(w)
  PROVE  LinkTypes(link', stream', page', rejoined') /\ DOMAIN view' = Watchers
<1>1. CASE OpenPage(w)
  <2>1. /\ page[w] \in {"none", "refused"}
        /\ IF link[w] = "closed" THEN Subscribe(w) ELSE Refuse(w)
        /\ view' = [view EXCEPT ![w] = BlankView]
        /\ rejoined' = [rejoined EXCEPT ![w] = FALSE]
    BY <1>1 DEF OpenPage
  <2>2. rejoined' \in [Watchers -> BOOLEAN] /\ page[w] # "connected"
    BY <2>1 DEF LinkTypes
  <2>3. LinkTypes(link', stream', page', rejoined')
    BY <2>1, <2>2, SubscribeTypes
  <2> QED BY <2>1, <2>3
<1>2. CASE Rejoin(w)
  <2>1. /\ page[w] = "retrying" /\ view' = view
        /\ IF link[w] = "closed" THEN Subscribe(w) ELSE Refuse(w)
        /\ rejoined' = [rejoined EXCEPT ![w] = TRUE]
    BY <1>2 DEF Rejoin
  <2>2. rejoined' \in [Watchers -> BOOLEAN] /\ page[w] # "connected"
    BY <2>1 DEF LinkTypes
  <2>3. LinkTypes(link', stream', page', rejoined')
    BY <2>1, <2>2, SubscribeTypes
  <2> QED BY <2>1, <2>3
<1>3. CASE LoseConnection(w)
  <2>1. /\ page' = [page EXCEPT ![w] = "retrying"] /\ link' = [link EXCEPT ![w] = "lost"]
        /\ stream' = [stream EXCEPT ![w] = <<>>] /\ rejoined' = rejoined
        /\ \E x : view' = [view EXCEPT ![w] = x]
    BY <1>3 DEF LoseConnection
  <2>2. DOMAIN view' = Watchers
    BY <2>1
  <2> QED BY <2>1, <2>2 DEF LinkTypes
<1>4. CASE ClosePage(w)
  <2>1. /\ page' = [page EXCEPT ![w] = "none"] /\ link' = [link EXCEPT ![w] = "lost"]
        /\ stream' = [stream EXCEPT ![w] = <<>>] /\ rejoined' = rejoined
        /\ DOMAIN view' = Watchers
    BY <1>4 DEF ClosePage
  <2> QED BY <2>1 DEF LinkTypes
<1>5. CASE Unsubscribe(w)
  <2>1. /\ link[w] = "lost" /\ link' = [link EXCEPT ![w] = "closed"]
        /\ UNCHANGED <<stream, page, rejoined, view>>
    BY <1>5 DEF Unsubscribe
  <2> QED BY <2>1 DEF LinkTypes
<1>6. CASE Deliver(w)
  <2>1. /\ stream' = [stream EXCEPT ![w] = <<>>] /\ DOMAIN view' = Watchers
        /\ link' = link /\ page' = page /\ rejoined' = rejoined
    BY <1>6 DEF Deliver
  <2> QED BY <2>1 DEF LinkTypes
<1> QED BY <1>1, <1>2, <1>3, <1>4, <1>5, <1>6

LEMMA FeedTypeStep ==
  FeedTypeOK /\ BookIntegrity /\ [FeedNext]_fvars => FeedTypeOK' /\ BookIntegrity'
<1> SUFFICES ASSUME FeedTypeOK, BookIntegrity, [FeedNext]_fvars PROVE FeedTypeOK' /\ BookIntegrity'
  OBVIOUS
<1>1. TypeOK /\ LinkTypes(link, stream, page, rejoined) /\ DOMAIN view = Watchers
  BY FeedTypeIs
<1>2. TypeOK' /\ BookIntegrity'
  BY <1>1, FeedMarketStep, TypeStep, IntegrityStep
<1> DEFINE Goal == LinkTypes(link', stream', page', rejoined') /\ DOMAIN view' = Watchers
<1>3. (\E msgs : Send(msgs)) => Goal
  BY <1>1, SendTypes
<1>4. UNCHANGED feed => Goal
  BY <1>1 DEF feed
<1> HIDE DEF Goal
<1>5. (\E t \in Traders : Register(t)) => Goal
  BY <1>4 DEF Register
<1>6. ASSUME NEW type \in OrderTypes, NEW t \in Traders, NEW p \in Prices, NEW q \in Quantities,
             Place(type, t, p, q)
      PROVE  Goal
  BY <1>3, <1>6, Zenon DEF Place
<1>7. Execute => Goal
  BY <1>3, Zenon DEF Execute
<1>8. Settle => Goal
  BY <1>4 DEF Settle
<1>9. ASSUME NEW t \in Traders, NEW id \in DOMAIN orders, Cancel(t, id) PROVE Goal
  BY <1>3, <1>9, Zenon DEF Cancel
<1>10. ASSUME NEW w \in Watchers,
              \/ OpenPage(w) \/ Rejoin(w) \/ LoseConnection(w) \/ ClosePage(w)
              \/ Unsubscribe(w) \/ Deliver(w)
       PROVE  Goal
  BY <1>1, <1>10, PageTypes DEF Goal
<1>11. UNCHANGED fvars => Goal
  BY <1>4 DEF fvars
<1>12. Goal
  BY <1>5, <1>6, <1>7, <1>8, <1>9, <1>10, <1>11, Zenon DEF FeedNext
<1> QED BY <1>2, <1>12, FeedTypeIs DEF Goal

-----------------------------------------------------------------------------
(* The snapshot. *)

LEMMA SetToSeqIs ==
  ASSUME NEW S, IsFiniteSet(S), NEW s, s = SetToSeq(S)
  PROVE  s \in Seq(S) /\ \A x \in S : \E k \in 1..Len(s) : s[k] = x
<1> DEFINE n == Cardinality(S)
<1>1. n \in Nat /\ ExistsBijection(1..n, S)
  BY FS_CardinalityType
<1>2. IsFiniteSet(1..n) /\ Cardinality(1..n) = n
  BY <1>1, FS_Interval
<1>3. \E f \in [1..n -> S] : IsInjective(f)
  BY <1>1 DEF ExistsBijection, Bijection, Injection
<1>4. s = CHOOSE f \in [1..n -> S] : IsInjective(f)
  BY DEF SetToSeq
<1> HIDE DEF n
<1>5. s \in [1..n -> S] /\ IsInjective(s)
  BY <1>3, <1>4
<1>6. s \in Injection(1..n, S)
  BY <1>5 DEF Injection
<1>7. s \in Surjection(1..n, S)
  BY <1>2, <1>6, FS_Injection DEF n
<1>8. s \in Seq(S) /\ Len(s) = n
  BY <1>1, <1>5
<1> QED BY <1>7, <1>8 DEF Surjection

LEMMA FunSeq ==
  ASSUME NEW F, NEW n \in Nat, NEW s \in [1..n -> F]
  PROVE  s \in Seq(F) /\ Len(s) = n
OBVIOUS

\* A page that was told some of the price points
PointsShown(u, x, points, done) ==
  /\ SameBut(u, x, "sides")
  /\ \A p : /\ SizeAt(x.bids, p) = IF p \in done THEN Double(points[p].bids) ELSE SizeAt(u.bids, p)
            /\ SizeAt(x.asks, p) = IF p \in done THEN Double(points[p].asks) ELSE SizeAt(u.asks, p)

LEMMA PointsStep ==
  ASSUME NEW u, NEW x \in Views, NEW points, NEW done, PointsShown(u, x, points, done),
         NEW m \in PricePoints, m.depth = points[m.price], NEW more, more = done \cup {m.price}
  PROVE  Show(x, m) \in Views /\ PointsShown(u, Show(x, m), points, more)
<1>1. /\ Show(x, m) \in Views /\ SameBut(x, Show(x, m), "sides")
      /\ \A p : /\ SizeAt(Show(x, m).bids, p) = IF p = m.price THEN Double(m.depth.bids) ELSE SizeAt(x.bids, p)
                /\ SizeAt(Show(x, m).asks, p) = IF p = m.price THEN Double(m.depth.asks) ELSE SizeAt(x.asks, p)
  BY ShowPoint
<1> DEFINE y == Show(x, m)
<1> HIDE DEF y
<1>2. /\ SameBut(x, y, "sides")
      /\ \A p : /\ SizeAt(y.bids, p) = IF p = m.price THEN Double(m.depth.bids) ELSE SizeAt(x.bids, p)
                /\ SizeAt(y.asks, p) = IF p = m.price THEN Double(m.depth.asks) ELSE SizeAt(x.asks, p)
  BY <1>1 DEF y
<1>3. SameBut(u, y, "sides")
  BY <1>2 DEF SameBut, PointsShown
<1>4. ASSUME NEW p
      PROVE  /\ SizeAt(y.bids, p) = IF p \in more THEN Double(points[p].bids) ELSE SizeAt(u.bids, p)
             /\ SizeAt(y.asks, p) = IF p \in more THEN Double(points[p].asks) ELSE SizeAt(u.asks, p)
  <2>1. CASE p = m.price
    BY <1>2, <2>1
  <2>2. CASE p # m.price
    <3>1. p \in more <=> p \in done
      BY <2>2
    <3> QED BY <1>2, <2>2, <3>1 DEF PointsShown
  <2> QED BY <2>1, <2>2
<1> QED BY <1>1, <1>3, <1>4 DEF PointsShown, y

LEMMA PointsReplayed ==
  ASSUME NEW v \in Views, NEW q \in Seq(Messages), NEW points, points \in [DOMAIN points -> Depth],
         DOMAIN points \subseteq Prices,
         NEW prices \in Seq(DOMAIN points),
         \A p \in DOMAIN points : \E k \in 1..Len(prices) : prices[k] = p,
         NEW s, s = [k \in DOMAIN prices |-> PricePointMsg(prices[k], points[prices[k]])]
  PROVE  /\ s \in Seq(PricePoints) /\ Replay(v, q \o s) \in Views
         /\ PointsShown(Replay(v, q), Replay(v, q \o s), points, DOMAIN points)
<1> DEFINE n == Len(prices)
           u == Replay(v, q)
           done(k) == {prices[i] : i \in 1..k}
           G == [k \in 0..n |-> {x \in Views : PointsShown(u, x, points, done(k))}]
<1>1. n \in Nat /\ DOMAIN prices = 1..n /\ \A k \in 1..n : prices[k] \in DOMAIN points
  OBVIOUS
<1>2. ASSUME NEW k \in 1..n
      PROVE  s[k] \in PricePoints /\ s[k].price = prices[k] /\ s[k].depth = points[prices[k]]
  <2>1. prices[k] \in Prices /\ points[prices[k]] \in Depth
    BY <1>1
  <2>2. s[k] = PricePointMsg(prices[k], points[prices[k]])
    BY <1>1
  <2> QED BY <2>1, <2>2 DEF PricePointMsg, PricePoints
<1>3. s \in Seq(PricePoints) /\ Len(s) = n
  <2>1. s = [k \in 1..n |-> s[k]]
    BY <1>1
  <2>2. \A k \in 1..n : s[k] \in PricePoints
    BY <1>2
  <2>3. n \in Nat
    BY <1>1
  <2> HIDE DEF n
  <2>4. s \in [1..n -> PricePoints]
    BY <2>1, <2>2
  <2> QED BY <2>3, <2>4, FunSeq
<1>4. PricePoints \subseteq Messages /\ s \in Seq(Messages)
  BY <1>3 DEF Messages
<1>5. u \in Views
  BY ReplayView
<1> HIDE DEF n, u
<1>6. done(0) = {} /\ done(n) = DOMAIN points
  <2>1. \A k \in 1..n : prices[k] \in DOMAIN points
    BY <1>1
  <2>2. \A p \in DOMAIN points : \E k \in 1..n : prices[k] = p
    BY DEF n
  <2>3. 1..0 = {}
    OBVIOUS
  <2> QED BY <2>1, <2>2, <2>3
<1>7. ASSUME NEW k \in 1..n PROVE k - 1 \in 0..n /\ k \in 0..n /\ done(k) = done(k - 1) \cup {prices[k]}
  BY <1>1
<1>8. 0 \in 0..n /\ n \in 0..n
  BY <1>1
<1> HIDE DEF done
<1>9. u \in G[0]
  <2>1. PointsShown(u, u, points, {})
    BY DEF PointsShown, SameBut
  <2> QED BY <1>5, <1>6, <1>8, <2>1
<1>10. ASSUME NEW k \in 1..n, NEW x \in G[k - 1] PROVE Show(x, s[k]) \in G[k]
  <2>1. x \in Views /\ PointsShown(u, x, points, done(k - 1))
    BY <1>7
  <2>2. s[k] \in PricePoints /\ s[k].depth = points[s[k].price]
    BY <1>2
  <2>3. done(k) = done(k - 1) \cup {s[k].price}
    BY <1>2, <1>7
  <2>4. Show(x, s[k]) \in Views /\ PointsShown(u, Show(x, s[k]), points, done(k))
    BY <2>1, <2>2, <2>3, PointsStep
  <2> QED BY <1>7, <2>4
<1>11. \A k \in 0..n : G[k] \subseteq Views
  OBVIOUS
<1>12. G[n] = {x \in Views : PointsShown(u, x, points, DOMAIN points)}
  BY <1>6, <1>8
<1> HIDE DEF G
<1>13. Replay(v, q \o s) \in G[Len(s)]
  <2>1. Replay(v, q) \in G[0]
    BY <1>9 DEF u
  <2>2. \A k \in 0..Len(s) : G[k] \subseteq Views
    BY <1>3, <1>11
  <2>3. \A k \in 1..Len(s) : \A x \in G[k - 1] : Show(x, s[k]) \in G[k]
    BY <1>3, <1>10
  <2> QED BY <1>4, <2>1, <2>2, <2>3, ReplayThrough
<1> QED BY <1>3, <1>12, <1>13 DEF u

\* A page that was told some of its trader's orders
OrdersShown(u, x, os, done) ==
  /\ SameBut(u, x, "pills")
  /\ \A id : PillAt(x, id) = IF id \in done /\ PillAt(u, id) = 0 THEN Double(os[id].quantity) ELSE PillAt(u, id)

LEMMA OrdersStep ==
  ASSUME NEW u, NEW x \in Views, NEW os, NEW done, OrdersShown(u, x, os, done),
         NEW m \in OrderEnds, m.event = "orderSubmitted", m.remaining = os[m.id].quantity,
         NEW more, more = done \cup {m.id}
  PROVE  Show(x, m) \in Views /\ OrdersShown(u, Show(x, m), os, more)
<1>1. /\ Show(x, m) \in Views /\ SameBut(x, Show(x, m), "pills")
      /\ \A id : PillAt(Show(x, m), id) = IF id = m.id THEN Pilled(PillAt(x, id), m) ELSE PillAt(x, id)
  BY ShowOrder
<1> DEFINE y == Show(x, m)
<1> HIDE DEF y
<1>2. /\ SameBut(x, y, "pills")
      /\ \A id : PillAt(y, id) = IF id = m.id THEN Pilled(PillAt(x, id), m) ELSE PillAt(x, id)
  BY <1>1 DEF y
<1>3. SameBut(u, y, "pills")
  BY <1>2 DEF SameBut, OrdersShown
<1>4. Double(m.remaining) # 0
  BY PillIs DEF OrderEnds
<1>5. ASSUME NEW id
      PROVE  PillAt(y, id) = IF id \in more /\ PillAt(u, id) = 0 THEN Double(os[id].quantity) ELSE PillAt(u, id)
  <2>1. PillAt(x, id) = IF id \in done /\ PillAt(u, id) = 0 THEN Double(os[id].quantity) ELSE PillAt(u, id)
    BY DEF OrdersShown
  <2>2. CASE id = m.id
    <3>1. PillAt(y, id) = IF PillAt(x, id) = 0 THEN Double(os[id].quantity) ELSE PillAt(x, id)
      BY <1>2, <2>2 DEF Pilled
    <3> QED BY <1>4, <2>1, <2>2, <3>1
  <2>3. CASE id # m.id
    <3>1. id \in more <=> id \in done
      BY <2>3
    <3> QED BY <1>2, <2>1, <2>3, <3>1
  <2> QED BY <2>2, <2>3
<1> QED BY <1>1, <1>3, <1>5 DEF OrdersShown, y

OwnEnds(os, own) ==
  {m \in OrderEnds : /\ m.id \in own /\ Pill(m).remaining = Double(os[m.id].quantity)
                     /\ Suits(Pill(m), os[m.id])}

\* A message for each own order, and what they make of a page
OrdersTold(v, q, s, os, own) ==
  /\ s \in Seq(OwnEnds(os, own))
  /\ Replay(v, q \o s) \in Views
  /\ OrdersShown(Replay(v, q), Replay(v, q \o s), os, own)

LEMMA OrdersReplayed ==
  ASSUME NEW v \in Views, NEW q \in Seq(Messages), NEW own \in SUBSET (Nat \ {0}),
         NEW os, \A id \in own : os[id] \in Order /\ os[id].quantity # 0,
         NEW ids \in Seq(own), \A id \in own : \E k \in 1..Len(ids) : ids[k] = id,
         NEW s, s = [k \in DOMAIN ids |-> OpenOrderMsg("orderSubmitted", ids[k], os[ids[k]])]
  PROVE  OrdersTold(v, q, s, os, own)
<1> DEFINE n == Len(ids)
           u == Replay(v, q)
           M == OwnEnds(os, own)
           done(k) == {ids[i] : i \in 1..k}
           G == [k \in 0..n |-> {x \in Views : OrdersShown(u, x, os, done(k))}]
<1>1. n \in Nat /\ DOMAIN ids = 1..n /\ \A k \in 1..n : ids[k] \in own
  OBVIOUS
<1>2. ASSUME NEW k \in 1..n
      PROVE  /\ s[k] \in M /\ s[k] \in OrderEnds /\ s[k].event = "orderSubmitted" /\ s[k].id = ids[k]
             /\ s[k].remaining = os[ids[k]].quantity
  <2> DEFINE id == ids[k]
  <2>1. id \in own /\ id \in Nat \ {0} /\ os[id] \in Order /\ "orderSubmitted" \in OrderEvents
    BY <1>1 DEF OrderEvents
  <2>2. s[k] = OpenOrderMsg("orderSubmitted", id, os[id])
    BY <1>1
  <2> HIDE DEF id
  <2>3. s[k] \in OrderEnds /\ s[k].event = "orderSubmitted" /\ s[k].id = id
        /\ s[k].remaining = os[id].quantity /\ Pill(s[k]).remaining = Double(os[id].quantity)
        /\ Suits(Pill(s[k]), os[id])
    BY <2>1, <2>2, OpenOrderIn
  <2> QED BY <2>1, <2>3 DEF id, OwnEnds
<1>3. s \in Seq(M) /\ Len(s) = n
  <2>1. s = [k \in 1..n |-> s[k]]
    BY <1>1
  <2>2. \A k \in 1..n : s[k] \in M
    BY <1>2
  <2>3. n \in Nat
    BY <1>1
  <2> HIDE DEF n, M
  <2>4. s \in [1..n -> M]
    BY <2>1, <2>2
  <2> QED BY <2>3, <2>4
<1>4. M \subseteq Messages
  BY DEF Messages, OwnEnds
<1>5. s \in Seq(Messages)
  <2> HIDE DEF M
  <2> QED BY <1>3, <1>4
<1>6. u \in Views
  BY ReplayView
<1>7. done(0) = {} /\ done(n) = own
  <2>1. \A k \in 1..n : ids[k] \in own
    BY <1>1
  <2>2. \A id \in own : \E k \in 1..n : ids[k] = id
    OBVIOUS
  <2>3. 1..0 = {}
    OBVIOUS
  <2> HIDE DEF n
  <2> QED BY <2>1, <2>2, <2>3
<1> HIDE DEF n, u, M
<1>8. ASSUME NEW k \in 1..n PROVE k - 1 \in 0..n /\ k \in 0..n /\ done(k) = done(k - 1) \cup {ids[k]}
  BY <1>1
<1>9. 0 \in 0..n /\ n \in 0..n
  BY <1>1
<1> HIDE DEF done
<1>10. u \in G[0]
  <2>1. OrdersShown(u, u, os, {})
    BY DEF OrdersShown, SameBut
  <2> QED BY <1>6, <1>7, <1>9, <2>1
<1>11. ASSUME NEW k \in 1..n, NEW x \in G[k - 1] PROVE Show(x, s[k]) \in G[k]
  <2>1. x \in Views /\ OrdersShown(u, x, os, done(k - 1))
    BY <1>8
  <2>2. s[k] \in OrderEnds /\ s[k].event = "orderSubmitted" /\ s[k].remaining = os[s[k].id].quantity
    BY <1>2
  <2>3. done(k) = done(k - 1) \cup {s[k].id}
    BY <1>2, <1>8
  <2>4. Show(x, s[k]) \in Views /\ OrdersShown(u, Show(x, s[k]), os, done(k))
    BY <2>1, <2>2, <2>3, OrdersStep
  <2> QED BY <1>8, <2>4
<1>12. \A k \in 0..n : G[k] \subseteq Views
  OBVIOUS
<1>13. G[n] = {x \in Views : OrdersShown(u, x, os, own)}
  BY <1>7, <1>9
<1> HIDE DEF G
<1>14. Replay(v, q \o s) \in G[Len(s)]
  <2>1. Replay(v, q) \in G[0]
    BY <1>10 DEF u
  <2>2. \A k \in 0..Len(s) : G[k] \subseteq Views
    BY <1>3, <1>12
  <2>3. \A k \in 1..Len(s) : \A x \in G[k - 1] : Show(x, s[k]) \in G[k]
    BY <1>3, <1>11
  <2> QED BY <1>5, <2>1, <2>2, <2>3, ReplayThrough
<1> QED BY <1>3, <1>13, <1>14 DEF u, M, OrdersTold

\* The snapshot tells a page all that the market holds.
LEMMA SnapshotReplayed ==
  ASSUME FeedTypeOK, BookIntegrity, NEW w \in Watchers, w \in DOMAIN accounts,
         NEW v \in Patient(traderOrders[w], orders, orderCount)
  PROVE  /\ Snapshot(w) \in Seq(Fit(traderOrders[w], orders, orderCount))
         /\ Covers(Replay(v, Snapshot(w)), pricePoints, lastTrade, accounts[w], traderOrders[w], orders)
         /\ v = BlankView => Mirrors(Replay(v, Snapshot(w)), pricePoints, traderOrders[w], orders)
<1> DEFINE own == traderOrders[w]
           F == Fit(own, orders, orderCount)
           a == TradeMsg(lastTrade)
           b == AccountMsg(w, accounts[w])
           prices == SetToSeq(DOMAIN pricePoints)
           ids == SetToSeq(own)
           s1 == [k \in DOMAIN prices |-> PricePointMsg(prices[k], pricePoints[prices[k]])]
           s2 == [k \in DOMAIN ids |-> OpenOrderMsg("orderSubmitted", ids[k], orders[ids[k]])]
           q0 == <<a, b>>
           q1 == q0 \o s1
           q2 == q1 \o s2
           u0 == Replay(v, q0)
           u1 == Replay(v, q1)
           u2 == Replay(v, q2)
<1>1. Snapshot(w) = q2
  BY DEF Snapshot
<1>2. w \in Traders
  BY WatcherIs
<1>3. /\ orderCount \in Nat /\ own \in SUBSET (Nat \ {0})
      /\ \A id \in own : /\ id \in DOMAIN orders /\ id <= orderCount
                         /\ orders[id] \in Order /\ orders[id].quantity # 0
                         /\ Double(orders[id].quantity) \in Nat \ {0}
      /\ \A id : Owed(own, orders, id) \in Nat
  BY <1>2, OwnOrders
<1>4. /\ pricePoints \in [DOMAIN pricePoints -> Depth] /\ DOMAIN pricePoints \subseteq Prices
      /\ lastTrade \in Trade /\ accounts[w] \in Position
      /\ own \subseteq 1..orderCount
  BY <1>2 DEF FeedTypeOK, TypeOK
<1>5. a \in LastTrades /\ a.price = lastTrade.price
  BY <1>4 DEF TradeMsg, LastTrades, Trade
<1>6. b \in Accounts /\ b.position = accounts[w]
  BY <1>2, <1>4 DEF AccountMsg, Accounts
<1>7. IsFiniteSet(DOMAIN pricePoints)
  <2>1. IsFiniteSet(1..LongMax)
    BY FS_Interval, MarketAssumption
  <2>2. DOMAIN pricePoints \in SUBSET (1..LongMax)
    BY <1>4, MarketAssumption
  <2> QED BY <2>1, <2>2, FS_Subset
<1>8. IsFiniteSet(own)
  <2>1. IsFiniteSet(1..orderCount)
    BY <1>3, FS_Interval
  <2> QED BY <1>4, <2>1, FS_Subset
<1>9. prices \in Seq(DOMAIN pricePoints) /\ \A p \in DOMAIN pricePoints : \E k \in 1..Len(prices) : prices[k] = p
  BY <1>7, SetToSeqIs
<1>10. ids \in Seq(own) /\ \A id \in own : \E k \in 1..Len(ids) : ids[k] = id
  BY <1>8, SetToSeqIs
<1>11. s1 = [k \in DOMAIN prices |-> PricePointMsg(prices[k], pricePoints[prices[k]])]
  OBVIOUS
<1>12. s2 = [k \in DOMAIN ids |-> OpenOrderMsg("orderSubmitted", ids[k], orders[ids[k]])]
  OBVIOUS
<1>13. v \in Views /\ F \subseteq Messages
  BY FitIs DEF Patient
<1>14. a \in F /\ b \in F /\ PricePoints \subseteq F
  BY <1>5, <1>6, FitIs
<1>15. q0 \in Seq(F)
  BY <1>14
<1>16. \A T : T \subseteq F => Seq(T) \subseteq Seq(F)
  OBVIOUS
<1> HIDE DEF F, prices, ids, s1, s2
<1>17. q0 \in Seq(Messages)
  <2> HIDE DEF q0
  <2> QED BY <1>13, <1>15
<1>18. u0 = Show(Show(v, a), b)
  <2> DEFINE t0 == <<>>
             t1 == <<a>>
  <2>1. t0 \in Seq(Messages) /\ a \in Messages /\ b \in Messages
    BY <1>13, <1>14
  <2>2. t1 = Append(t0, a)
    OBVIOUS
  <2>3. q0 = Append(t1, b)
    OBVIOUS
  <2>4. Replay(v, t0) = v
    BY <1>13, ReplayEmpty
  <2>5. t1 \in Seq(Messages)
    BY <2>1
  <2> HIDE DEF t0, t1, q0, a, b
  <2>6. Replay(v, Append(t0, a)) = Show(Replay(v, t0), a)
    BY <1>13, <2>1, ReplayAppend
  <2>7. Replay(v, Append(t1, b)) = Show(Replay(v, t1), b)
    BY <1>13, <2>1, <2>5, ReplayAppend
  <2> QED BY <2>2, <2>3, <2>4, <2>6, <2>7
<1> HIDE DEF a, b, q0
<1>19. u0 \in Views /\ SameBut(Show(v, a), u0, "account") /\ u0.account = Rounded(accounts[w])
       /\ Show(v, a) \in Views /\ SameBut(v, Show(v, a), "price") /\ Show(v, a).price = lastTrade.price
  <2>1. Show(v, a) \in Views /\ SameBut(v, Show(v, a), "price") /\ Show(v, a).price = a.price
    BY <1>5, <1>13, ShowTrade
  <2>2. /\ Show(Show(v, a), b) \in Views /\ SameBut(Show(v, a), Show(Show(v, a), b), "account")
        /\ Show(Show(v, a), b).account = Rounded(b.position)
    BY <1>6, <2>1, ShowAccount
  <2> QED BY <1>5, <1>6, <1>18, <2>1, <2>2
<1> HIDE DEF u0
<1>20. u0.price = lastTrade.price /\ u0.bids = v.bids /\ u0.asks = v.asks /\ u0.pills = v.pills
  BY <1>19 DEF SameBut
<1>21. s1 \in Seq(PricePoints) /\ u1 \in Views /\ PointsShown(u0, u1, pricePoints, DOMAIN pricePoints)
  <2>1. s1 \in Seq(PricePoints) /\ Replay(v, q0 \o s1) \in Views
        /\ PointsShown(Replay(v, q0), Replay(v, q0 \o s1), pricePoints, DOMAIN pricePoints)
    BY <1>4, <1>9, <1>11, <1>13, <1>17, PointsReplayed
  <2> QED BY <2>1 DEF u0
<1>22. q1 \in Seq(F)
  BY <1>14, <1>15, <1>16, <1>21
<1>23. q1 \in Seq(Messages)
  <2> HIDE DEF q1
  <2> QED BY <1>13, <1>22
<1> HIDE DEF q1
<1>24. /\ s2 \in Seq(OwnEnds(orders, own))
       /\ u2 \in Views /\ OrdersShown(u1, u2, orders, own)
  <2>1. own \in SUBSET (Nat \ {0}) /\ \A id \in own : orders[id] \in Order /\ orders[id].quantity # 0
    BY <1>3
  <2>2. v \in Views
    BY <1>13
  <2>3. q2 = q1 \o s2
    OBVIOUS
  <2> HIDE DEF q2, own
  <2>4. OrdersTold(v, q1, s2, orders, own)
    BY <1>10, <1>12, <1>23, <2>1, <2>2, OrdersReplayed
  <2> QED BY <2>3, <2>4 DEF OrdersTold
<1>25. OwnEnds(orders, own) \subseteq F
  <2> SUFFICES ASSUME NEW m \in OrderEnds, m.id \in own, Suits(Pill(m), orders[m.id]),
                      Pill(m).remaining = Double(orders[m.id].quantity)
               PROVE  m \in F
    BY DEF OwnEnds
  <2>1. m.id <= orderCount /\ Honest(Pill(m), own, orders, m.id)
    BY <1>3 DEF Honest, Owed
  <2> QED BY <2>1, FitIs DEF F
<1>26. q2 \in Seq(F)
  <2>1. s2 \in Seq(F)
    BY <1>16, <1>24, <1>25
  <2> QED BY <1>22, <2>1
<1> HIDE DEF u1, u2, own
<1>27. /\ u2.price = lastTrade.price /\ u2.account = Rounded(accounts[w])
       /\ u2.bids = u1.bids /\ u2.asks = u1.asks /\ u1.pills = v.pills
       /\ \A p : /\ SizeAt(u1.bids, p) = IF p \in DOMAIN pricePoints THEN Double(pricePoints[p].bids) ELSE SizeAt(v.bids, p)
                 /\ SizeAt(u1.asks, p) = IF p \in DOMAIN pricePoints THEN Double(pricePoints[p].asks) ELSE SizeAt(v.asks, p)
  BY <1>19, <1>20, <1>21, <1>24 DEF PointsShown, OrdersShown, SameBut
<1>28. \A id : PillAt(u2, id) = IF id \in own /\ PillAt(v, id) = 0 THEN Double(orders[id].quantity) ELSE PillAt(v, id)
  <2>1. \A id : PillAt(u1, id) = PillAt(v, id)
    BY <1>27 DEF PillAt
  <2> QED BY <1>24, <2>1 DEF OrdersShown
<1>29. ASSUME NEW id \in own PROVE PillAt(u2, id) >= Double(orders[id].quantity)
  <2>1. CASE PillAt(v, id) = 0
    BY <1>3, <1>28, <2>1
  <2>2. CASE PillAt(v, id) # 0
    <3>1. id \in DOMAIN v.pills /\ PillAt(v, id) = v.pills[id].remaining
      BY <2>2 DEF PillAt
    <3>2. v.pills[id].remaining >= Owed(own, orders, id)
          /\ Owed(own, orders, id) = Double(orders[id].quantity)
      BY <3>1 DEF Patient, Honest, Owed, own
    <3> QED BY <1>28, <2>2, <3>1, <3>2
  <2> QED BY <2>1, <2>2
<1>30. Covers(u2, pricePoints, lastTrade, accounts[w], own, orders)
  BY <1>27, <1>29 DEF Covers
<1>31. ASSUME v = BlankView PROVE Mirrors(u2, pricePoints, own, orders)
  <2>1. /\ \A p : SizeAt(v.bids, p) = 0 /\ SizeAt(v.asks, p) = 0
        /\ \A id : PillAt(v, id) = 0
    BY <1>31 DEF BlankView, BlankSide, SizeAt, PillAt, EmptyMap
  <2>2. \A p : SizeAt(u2.bids, p) = Double(DepthAt(pricePoints, p).bids)
               /\ SizeAt(u2.asks, p) = Double(DepthAt(pricePoints, p).asks)
    BY <1>27, <2>1, DoubleIs DEF DepthAt, NoDepth
  <2>3. \A id : PillAt(u2, id) = Owed(own, orders, id)
    BY <1>28, <2>1 DEF Owed
  <2> QED BY <2>2, <2>3 DEF Mirrors
<1> QED BY <1>1, <1>26, <1>30, <1>31 DEF own, F, u2

-----------------------------------------------------------------------------
(* The steps of the pages keep the invariant. *)

LEMMA QuietKeeps ==
  ASSUME NEW w \in Watchers, PageInv(w),
         view'[w] = view[w], stream'[w] = stream[w], page'[w] = page[w], rejoined'[w] = rejoined[w],
         UNCHANGED <<pricePoints, lastTrade, traderOrders, orders, orderCount>>,
         w \in DOMAIN accounts => w \in DOMAIN accounts' /\ accounts'[w] = accounts[w]
  PROVE  PageInv(w)'
<1>1. /\ view[w] \in Patient(traderOrders[w], orders, orderCount)
      /\ stream[w] \in Seq(Fit(traderOrders[w], orders, orderCount))
      /\ page[w] \in {"connected", "retrying"} => w \in DOMAIN accounts
      /\ page[w] = "connected" =>
           /\ Covers(Replayed(w), pricePoints, lastTrade, accounts[w], traderOrders[w], orders)
           /\ ~rejoined[w] => Mirrors(Replayed(w), pricePoints, traderOrders[w], orders)
  BY DEF PageInv
<1>2. Replayed(w)' = Replayed(w)
  BY DEF Replayed
<1>3. page[w] = "connected" => accounts'[w] = accounts[w]
  BY <1>1
<1> QED BY <1>1, <1>2, <1>3 DEF PageInv

\* A page that handles some of what was sent to it stays patient.
LEMMA PrefixPatient ==
  ASSUME NEW own, NEW os, NEW count \in Nat, NEW v \in Patient(own, os, count),
         NEW s \in Seq(Fit(own, os, count)), NEW handled \in Prefixes(s)
  PROVE  Replay(v, handled) \in Patient(own, os, count)
<1> DEFINE F == Fit(own, os, count)
<1>1. PICK l \in 0..Len(s) : handled = SubSeq(s, 1, l)
  BY DEF Prefixes
<1> HIDE DEF F
<1>2. s \in Seq(F)
  BY DEF F
<1>3. handled \in Seq(F)
  BY <1>1, <1>2
<1> QED BY <1>3, PatientReplay DEF F

\* A page that subscribes, blank or with what it showed before.
LEMMA SubscribeKeeps ==
  ASSUME FeedInv, NEW w \in Watchers, w \in DOMAIN accounts, UNCHANGED vars,
         IF link[w] = "closed" THEN Subscribe(w) ELSE Refuse(w), page[w] # "connected",
         view'[w] \in Patient(traderOrders[w], orders, orderCount),
         rejoined'[w] \/ view'[w] = BlankView
  PROVE  PageInv(w)'
<1>0. /\ FeedTypeOK /\ BookIntegrity
      /\ stream[w] \in Seq(Fit(traderOrders[w], orders, orderCount))
  BY DEF FeedInv, PageInv
<1>1. LinkTypes(link, stream, page, rejoined) /\ DOMAIN view = Watchers
  BY <1>0, FeedTypeIs
<1>2. /\ pricePoints' = pricePoints /\ lastTrade' = lastTrade /\ traderOrders' = traderOrders
      /\ orders' = orders /\ orderCount' = orderCount /\ accounts' = accounts
  BY DEF vars
<1>3. CASE link[w] = "closed"
  <2>1. stream'[w] = Snapshot(w) /\ page'[w] = "connected"
    <3>1. stream' = [stream EXCEPT ![w] = Snapshot(w)] /\ page' = [page EXCEPT ![w] = "connected"]
      BY <1>3 DEF Subscribe
    <3> QED BY <1>1, <3>1 DEF LinkTypes
  <2>2. /\ Snapshot(w) \in Seq(Fit(traderOrders[w], orders, orderCount))
        /\ Covers(Replay(view'[w], Snapshot(w)), pricePoints, lastTrade, accounts[w], traderOrders[w], orders)
        /\ view'[w] = BlankView
             => Mirrors(Replay(view'[w], Snapshot(w)), pricePoints, traderOrders[w], orders)
    BY <1>0, SnapshotReplayed
  <2>3. Replayed(w)' = Replay(view'[w], Snapshot(w))
    BY <2>1 DEF Replayed, Replay
  <2> QED BY <1>2, <2>1, <2>2, <2>3 DEF PageInv
<1>4. CASE link[w] # "closed"
  <2>1. stream' = stream /\ page'[w] = "refused"
    <3>1. page' = [page EXCEPT ![w] = "refused"] /\ stream' = stream
      BY <1>4 DEF Refuse
    <3> QED BY <1>1, <3>1 DEF LinkTypes
  <2> QED BY <1>0, <1>2, <2>1 DEF PageInv
<1> QED BY <1>3, <1>4

LEMMA PageKeeps ==
  ASSUME FeedInv, NEW w \in Watchers,
         \/ OpenPage(w) \/ Rejoin(w) \/ LoseConnection(w) \/ ClosePage(w)
         \/ Unsubscribe(w) \/ Deliver(w)
  PROVE  PageInv(w)'
<1> DEFINE own == traderOrders[w]
<1>1. /\ FeedTypeOK /\ BookIntegrity /\ PageInv(w)
      /\ LinkTypes(link, stream, page, rejoined) /\ DOMAIN view = Watchers
      /\ orderCount \in Nat
  BY FeedTypeIs DEF FeedInv, TypeOK
<1>2. /\ view[w] \in Patient(own, orders, orderCount)
      /\ stream[w] \in Seq(Fit(own, orders, orderCount))
      /\ page[w] \in {"connected", "retrying"} => w \in DOMAIN accounts
      /\ page[w] = "connected" =>
           /\ Covers(Replayed(w), pricePoints, lastTrade, accounts[w], own, orders)
           /\ ~rejoined[w] => Mirrors(Replayed(w), pricePoints, own, orders)
  BY <1>1 DEF PageInv
<1>3. UNCHANGED vars
  BY Zenon DEF OpenPage, Rejoin, LoseConnection, ClosePage, Unsubscribe, Deliver
<1>4. /\ pricePoints' = pricePoints /\ lastTrade' = lastTrade /\ traderOrders' = traderOrders
      /\ orders' = orders /\ orderCount' = orderCount /\ accounts' = accounts
  BY <1>3 DEF vars
<1>5. BlankView \in Patient(own, orders, orderCount)
  <2>1. DOMAIN BlankView.pills = {}
    BY DEF BlankView, EmptyMap
  <2>2. BlankView \in Views
    BY BlankViewIs
  <2> QED BY <2>1, <2>2 DEF Patient
<1>6. \A F : <<>> \in Seq(F)
  OBVIOUS
<1>7. CASE OpenPage(w)
  <2>1. /\ w \in DOMAIN accounts /\ page[w] \in {"none", "refused"}
        /\ IF link[w] = "closed" THEN Subscribe(w) ELSE Refuse(w)
        /\ view' = [view EXCEPT ![w] = BlankView]
    BY <1>7 DEF OpenPage
  <2>2. view'[w] = BlankView /\ page[w] # "connected"
    BY <1>1, <2>1
  <2> QED BY <1>3, <1>5, <2>1, <2>2, SubscribeKeeps
<1>8. CASE Rejoin(w)
  <2>1. /\ page[w] = "retrying" /\ view' = view /\ rejoined' = [rejoined EXCEPT ![w] = TRUE]
        /\ IF link[w] = "closed" THEN Subscribe(w) ELSE Refuse(w)
    BY <1>8 DEF Rejoin
  <2>2. view'[w] = view[w] /\ rejoined'[w] /\ page[w] # "connected" /\ w \in DOMAIN accounts
    BY <1>1, <1>2, <2>1 DEF LinkTypes
  <2> QED BY <1>2, <1>3, <2>1, <2>2, SubscribeKeeps
<1>9. CASE LoseConnection(w)
  <2>1. /\ page[w] = "connected" /\ page' = [page EXCEPT ![w] = "retrying"]
        /\ stream' = [stream EXCEPT ![w] = <<>>]
    BY <1>9 DEF LoseConnection
  <2>2. PICK handled \in Prefixes(stream[w]) : view' = [view EXCEPT ![w] = Replay(view[w], handled)]
    BY <1>9, Zenon DEF LoseConnection, Replay
  <2>3. view'[w] = Replay(view[w], handled)
    BY <1>1, <2>2
  <2>4. view'[w] \in Patient(own, orders, orderCount)
    BY <1>1, <1>2, <2>3, PrefixPatient
  <2>5. stream'[w] = <<>> /\ page'[w] = "retrying"
    BY <1>1, <2>1 DEF LinkTypes
  <2> QED BY <1>2, <1>4, <1>6, <2>1, <2>4, <2>5 DEF PageInv
<1>10. CASE ClosePage(w)
  <2>1. /\ page' = [page EXCEPT ![w] = "none"] /\ stream' = [stream EXCEPT ![w] = <<>>]
        /\ view' = [view EXCEPT ![w] = BlankView]
    BY <1>10 DEF ClosePage
  <2>2. stream'[w] = <<>> /\ page'[w] = "none" /\ view'[w] = BlankView
    BY <1>1, <2>1 DEF LinkTypes
  <2> QED BY <1>4, <1>5, <1>6, <2>2 DEF PageInv
<1>11. CASE Unsubscribe(w)
  <2>1. UNCHANGED <<stream, page, rejoined, view>>
    BY <1>11 DEF Unsubscribe
  <2> QED BY <1>1, <1>4, <2>1, QuietKeeps
<1>12. CASE Deliver(w)
  <2>1. /\ page' = page /\ rejoined' = rejoined /\ stream' = [stream EXCEPT ![w] = <<>>]
    BY <1>12 DEF Deliver
  <2>2. view' = [view EXCEPT ![w] = Replay(view[w], stream[w])]
    BY <1>12, Zenon DEF Deliver, Replay
  <2>3. stream'[w] = <<>> /\ view'[w] = Replay(view[w], stream[w])
    BY <1>1, <2>1, <2>2 DEF LinkTypes
  <2>4. /\ Replayed(w) = Replay(view[w], stream[w]) /\ Replayed(w) \in Views
        /\ Replayed(w) \in Patient(own, orders, orderCount)
    BY ReplayedIs
  <2>5. Replayed(w)' = Replay(view'[w], stream'[w])
    BY DEF Replayed, Replay
  <2>6. Replayed(w)' = Replayed(w)
    BY <2>3, <2>4, <2>5, ReplayEmpty
  <2>7. view'[w] \in Patient(own, orders, orderCount)
    BY <2>3, <2>4
  <2> QED BY <1>2, <1>4, <1>6, <2>1, <2>3, <2>6, <2>7 DEF PageInv
<1> QED BY <1>7, <1>8, <1>9, <1>10, <1>11, <1>12

\* A page's own step leaves the other pages alone.
LEMMA OtherPages ==
  ASSUME FeedTypeOK, NEW w \in Watchers, NEW x \in Watchers, x # w,
         \/ OpenPage(w) \/ Rejoin(w) \/ LoseConnection(w) \/ ClosePage(w)
         \/ Unsubscribe(w) \/ Deliver(w)
  PROVE  /\ view'[x] = view[x] /\ stream'[x] = stream[x] /\ page'[x] = page[x]
         /\ rejoined'[x] = rejoined[x]
<1> DEFINE Same(f, g) == \E y : g = [f EXCEPT ![w] = y]
<1>1. /\ DOMAIN view = Watchers /\ DOMAIN stream = Watchers /\ DOMAIN page = Watchers
      /\ DOMAIN rejoined = Watchers
  BY DEF FeedTypeOK
<1>2. \A f, g : DOMAIN f = Watchers /\ (g = f \/ Same(f, g)) => g[x] = f[x]
  OBVIOUS
<1>3. /\ page' = page \/ Same(page, page')
      /\ rejoined' = rejoined \/ Same(rejoined, rejoined')
      /\ stream' = stream \/ Same(stream, stream')
  BY DEF OpenPage, Rejoin, LoseConnection, ClosePage, Unsubscribe, Deliver, Subscribe, Refuse
<1>4. view' = view \/ Same(view, view')
  <2>1. CASE LoseConnection(w)
    <3>1. PICK handled : view' = [view EXCEPT ![w] = FoldLeft(Show, view[w], handled)]
      BY <2>1, Zenon DEF LoseConnection
    <3> QED BY <3>1, Zenon
  <2>2. CASE Deliver(w)
    <3>1. view' = [view EXCEPT ![w] = FoldLeft(Show, view[w], stream[w])]
      BY <2>2, Zenon DEF Deliver
    <3> QED BY <3>1, Zenon
  <2>3. CASE OpenPage(w) \/ Rejoin(w) \/ ClosePage(w) \/ Unsubscribe(w)
    BY <2>3 DEF OpenPage, Rejoin, ClosePage, Unsubscribe
  <2> QED BY <2>1, <2>2, <2>3
<1> HIDE DEF Same
<1> QED BY <1>1, <1>2, <1>3, <1>4

-----------------------------------------------------------------------------
(* The theorems. *)

LEMMA FeedInvInit == FeedInit => FeedInv
<1> SUFFICES ASSUME FeedInit PROVE FeedInv
  OBVIOUS
<1>1. Init
  BY DEF FeedInit
<1>2. TypeOK /\ BookIntegrity
  BY <1>1, TypeInit, IntegrityInit
<1>3. /\ link = [w \in Watchers |-> "closed"] /\ stream = [w \in Watchers |-> <<>>]
      /\ page = [w \in Watchers |-> "none"] /\ rejoined = [w \in Watchers |-> FALSE]
      /\ view = [w \in Watchers |-> BlankView]
  BY DEF FeedInit
<1>4. FeedTypeOK
  BY <1>2, <1>3 DEF FeedTypeOK
<1>5. ASSUME NEW w \in Watchers PROVE PageInv(w)
  <2>1. \A F : <<>> \in Seq(F)
    OBVIOUS
  <2>2. view[w] = BlankView /\ stream[w] = <<>> /\ page[w] = "none"
    BY <1>3
  <2>3. BlankView \in Patient(traderOrders[w], orders, orderCount)
    <3>1. DOMAIN BlankView.pills = {}
      BY DEF BlankView, EmptyMap
    <3>2. BlankView \in Views
      BY BlankViewIs
    <3> QED BY <3>1, <3>2 DEF Patient
  <2> QED BY <2>1, <2>2, <2>3 DEF PageInv
<1> QED BY <1>2, <1>4, <1>5 DEF FeedInv

LEMMA FeedInvStep == FeedInv /\ [FeedNext]_fvars => FeedInv'
<1> SUFFICES ASSUME FeedInv, [FeedNext]_fvars PROVE FeedInv'
  OBVIOUS
<1>1. FeedTypeOK /\ BookIntegrity /\ \A w \in Watchers : PageInv(w)
  BY DEF FeedInv
<1>2. FeedTypeOK' /\ BookIntegrity'
  BY <1>1, FeedTypeStep
<1> DEFINE Goal == \A w \in Watchers : PageInv(w)'
<1>3. ASSUME NEW t \in Traders, Register(t) PROVE Goal
  <2> SUFFICES ASSUME NEW w \in Watchers PROVE PageInv(w)'
    OBVIOUS
  <2>1. /\ UNCHANGED feed
        /\ accounts' = IF t \in DOMAIN accounts THEN accounts
                         ELSE Put(accounts, t, [count |-> 0, pnl |-> 0])
        /\ UNCHANGED <<pricePoints, lastTrade, traderOrders, orders, orderCount>>
    BY <1>3 DEF Register, RegisterAccount
  <2>2. w \in DOMAIN accounts => w \in DOMAIN accounts' /\ accounts'[w] = accounts[w]
    BY <2>1 DEF Put
  <2>3. view'[w] = view[w] /\ stream'[w] = stream[w] /\ page'[w] = page[w] /\ rejoined'[w] = rejoined[w]
    BY <2>1 DEF feed
  <2> QED BY <1>1, <2>1, <2>2, <2>3, QuietKeeps
<1>4. ASSUME NEW type \in OrderTypes, NEW t \in Traders, NEW p \in Prices, NEW q \in Quantities,
             Place(type, t, p, q)
      PROVE  Goal
  BY <1>2, <1>4, PlaceKeeps
<1>5. ASSUME Execute PROVE Goal
  BY <1>2, <1>5, ExecuteKeeps
<1>6. ASSUME Settle \/ UNCHANGED fvars PROVE Goal
  <2> SUFFICES ASSUME NEW w \in Watchers PROVE PageInv(w)'
    OBVIOUS
  <2>1. /\ UNCHANGED feed /\ accounts' = accounts
        /\ UNCHANGED <<pricePoints, lastTrade, traderOrders, orders, orderCount>>
    BY <1>6 DEF Settle, EndMatching, fvars, vars
  <2>2. view'[w] = view[w] /\ stream'[w] = stream[w] /\ page'[w] = page[w] /\ rejoined'[w] = rejoined[w]
    BY <2>1 DEF feed
  <2> QED BY <1>1, <2>1, <2>2, QuietKeeps
<1>7. ASSUME NEW t \in Traders, NEW id \in DOMAIN orders, Cancel(t, id) PROVE Goal
  BY <1>2, <1>7, CancelKeeps
<1>8. ASSUME NEW w \in Watchers,
             \/ OpenPage(w) \/ Rejoin(w) \/ LoseConnection(w) \/ ClosePage(w)
             \/ Unsubscribe(w) \/ Deliver(w)
      PROVE  Goal
  <2> SUFFICES ASSUME NEW x \in Watchers PROVE PageInv(x)'
    OBVIOUS
  <2>1. CASE x = w
    BY <1>8, <2>1, PageKeeps
  <2>2. CASE x # w
    <3>1. /\ view'[x] = view[x] /\ stream'[x] = stream[x] /\ page'[x] = page[x]
          /\ rejoined'[x] = rejoined[x]
      BY <1>1, <1>8, <2>2, OtherPages
    <3>2. UNCHANGED vars
      BY <1>8, Zenon DEF OpenPage, Rejoin, LoseConnection, ClosePage, Unsubscribe, Deliver
    <3>3. UNCHANGED <<pricePoints, lastTrade, traderOrders, orders, orderCount>> /\ accounts' = accounts
      BY <3>2 DEF vars
    <3> QED BY <1>1, <3>1, <3>3, QuietKeeps
  <2> QED BY <2>1, <2>2
<1> HIDE DEF Goal
<1>9. Goal
  BY <1>3, <1>4, <1>5, <1>6, <1>7, <1>8, Zenon DEF FeedNext
<1> QED BY <1>2, <1>9 DEF FeedInv, Goal

LEMMA FeedInvariant == FeedSpec => []FeedInv
BY FeedInvInit, FeedInvStep, PTL DEF FeedSpec

\* Every link, stream and page has its type, and a page is connected exactly
\* while the server holds its subscription open (broadcast.cpp, market.js).
THEOREM FeedTypeCorrect == FeedSpec => []FeedTypeOK
<1>1. FeedInv => FeedTypeOK
  BY DEF FeedInv
<1> QED BY <1>1, FeedInvariant, PTL

\* The levels of one side that are not empty
Level(points, side) == {p \in DOMAIN points : (IF side = "bids" THEN points[p].bids ELSE points[p].asks) # 0}

LEMMA ShownIs ==
  ASSUME NEW w
  PROVE  /\ DOMAIN Shown(w) = {"bids", "asks", "price", "account", "pills"}
         /\ Shown(w) = [bids    |-> [p \in Level(pricePoints, "bids") |-> Double(pricePoints[p].bids)],
                        asks    |-> [p \in Level(pricePoints, "asks") |-> Double(pricePoints[p].asks)],
                        price   |-> lastTrade.price,
                        account |-> Rounded(accounts[w]),
                        pills   |-> [id \in traderOrders[w] |-> Double(orders[id].quantity)]]
BY DEF Shown, Level

LEMMA ViewIs ==
  ASSUME NEW u \in Views
  PROVE  /\ u.bids.sizes \in Maps(Prices, Int \ {0}) /\ IsLadder(u.bids, "bids")
         /\ u.asks.sizes \in Maps(Prices, Int \ {0}) /\ IsLadder(u.asks, "asks")
         /\ [u EXCEPT !.bids = @.sizes, !.asks = @.sizes, !.pills = Remaining(@)]
              = [bids |-> u.bids.sizes, asks |-> u.asks.sizes, price |-> u.price,
                 account |-> u.account, pills |-> Remaining(u.pills)]
<1>1. u.bids \in Ladders("bids") /\ u.asks \in Ladders("asks")
  BY DEF Views
<1>2. /\ u.bids.sizes \in Maps(Prices, Int \ {0}) /\ IsLadder(u.bids, "bids")
      /\ u.asks.sizes \in Maps(Prices, Int \ {0}) /\ IsLadder(u.asks, "asks")
  BY <1>1 DEF Ladders
<1> DEFINE b == u.bids.sizes
           a == u.asks.sizes
           r == Remaining(u.pills)
<1>3. u = [bids |-> u.bids, asks |-> u.asks, price |-> u.price,
           account |-> u.account, pills |-> u.pills]
  BY DEF Views
<1>4. [u EXCEPT !.bids = @.sizes, !.asks = @.sizes, !.pills = Remaining(@)]
        = [u EXCEPT !.bids = b, !.asks = a, !.pills = r]
  BY <1>3
<1> HIDE DEF b, a, r
<1> DEFINE once  == [u EXCEPT !.bids = b]
           twice == [once EXCEPT !.asks = a]
<1>5. once = [bids |-> b, asks |-> u.asks, price |-> u.price,
              account |-> u.account, pills |-> u.pills]
  BY <1>3
<1>6. twice = [bids |-> b, asks |-> a, price |-> u.price,
               account |-> u.account, pills |-> u.pills]
  <2> HIDE DEF once
  <2> QED BY <1>5
<1>7. [twice EXCEPT !.pills = r]
        = [bids |-> b, asks |-> a, price |-> u.price, account |-> u.account, pills |-> r]
  <2> HIDE DEF once, twice
  <2> QED BY <1>6
<1>8. [u EXCEPT !.bids = b, !.asks = a, !.pills = r]
        = [bids |-> b, asks |-> a, price |-> u.price, account |-> u.account, pills |-> r]
  BY <1>7
<1> QED BY <1>2, <1>4, <1>8 DEF b, a, r

\* A map of sizes is known from the size at each price.
LEMMA SizesAre ==
  ASSUME NEW f \in Maps(Prices, Int \ {0}), NEW D \in SUBSET Prices, NEW g, DOMAIN g = D,
         g = [p \in D |-> g[p]],
         \A p \in D : g[p] # 0,
         \A p \in Prices : (IF p \in DOMAIN f THEN f[p] ELSE 0) = IF p \in D THEN g[p] ELSE 0
  PROVE  f = g
<1>1. f = [p \in DOMAIN f |-> f[p]] /\ DOMAIN f \subseteq Prices /\ \A p \in DOMAIN f : f[p] # 0
  BY InMaps
<1>2. \A p \in Prices : p \in DOMAIN f <=> p \in D
  BY <1>1
<1>3. DOMAIN f = D
  BY <1>1, <1>2
<1>4. \A p \in D : f[p] = g[p]
  BY <1>3
<1> QED BY <1>1, <1>3, <1>4

LEMMA FreshExact == FeedInv => FreshPageExact
<1> SUFFICES ASSUME FeedInv, NEW w \in Watchers, page[w] = "connected", ~rejoined[w]
             PROVE  LET after == Replayed(w) IN
                    /\ [after EXCEPT !.bids = @.sizes, !.asks = @.sizes, !.pills = Remaining(@)]
                         = Shown(w)
                    /\ IsLadder(after.bids, "bids") /\ IsLadder(after.asks, "asks")
                    /\ \A id \in traderOrders[w] : Suits(after.pills[id], orders[id])
  BY DEF FreshPageExact
<1> DEFINE u == Replayed(w)
           own == traderOrders[w]
           b == [p \in Level(pricePoints, "bids") |-> Double(pricePoints[p].bids)]
           a == [p \in Level(pricePoints, "asks") |-> Double(pricePoints[p].asks)]
           o == [id \in own |-> Double(orders[id].quantity)]
<1>1. /\ FeedTypeOK /\ BookIntegrity
      /\ Covers(u, pricePoints, lastTrade, accounts[w], own, orders)
      /\ Mirrors(u, pricePoints, own, orders)
  BY DEF FeedInv, PageInv
<1>2. u \in Views /\ u \in Patient(own, orders, orderCount)
  BY ReplayedIs
<1>3. /\ DOMAIN pricePoints \subseteq Prices
      /\ \A p \in DOMAIN pricePoints :
           /\ pricePoints[p].bids # 0 => Double(pricePoints[p].bids) # 0
           /\ pricePoints[p].asks # 0 => Double(pricePoints[p].asks) # 0
           /\ pricePoints[p].bids = 0 => Double(pricePoints[p].bids) = 0
           /\ pricePoints[p].asks = 0 => Double(pricePoints[p].asks) = 0
  <2>1. pricePoints \in [DOMAIN pricePoints -> Depth] /\ DOMAIN pricePoints \subseteq Prices
    BY <1>1 DEF FeedTypeOK, TypeOK
  <2>2. \A p \in DOMAIN pricePoints : pricePoints[p].bids \in LongRange /\ pricePoints[p].asks \in LongRange
    BY <2>1 DEF Depth
  <2> QED BY <2>1, <2>2, DoubleIs
<1>4. /\ own \subseteq Nat /\ \A id \in own : Double(orders[id].quantity) # 0
  BY <1>1, WatcherIs, OwnOrders
<1> HIDE DEF u
<1>5. u.bids.sizes = b
  <2>1. u.bids.sizes \in Maps(Prices, Int \ {0})
    BY <1>2, ViewIs
  <2>2. Level(pricePoints, "bids") \in SUBSET Prices
    BY <1>3 DEF Level
  <2>3. \A p \in Level(pricePoints, "bids") : b[p] # 0
    BY <1>3 DEF Level
  <2>4. \A p \in Prices : (IF p \in DOMAIN u.bids.sizes THEN u.bids.sizes[p] ELSE 0)
                            = IF p \in Level(pricePoints, "bids") THEN b[p] ELSE 0
    <3>1. \A p \in Prices : SizeAt(u.bids, p) = Double(DepthAt(pricePoints, p).bids)
      BY <1>1 DEF Mirrors
    <3>2. \A p : Double(DepthAt(pricePoints, p).bids) = IF p \in Level(pricePoints, "bids") THEN b[p] ELSE 0
      BY <1>3, DoubleIs DEF DepthAt, NoDepth, Level
    <3> QED BY <3>1, <3>2 DEF SizeAt
  <2>5. DOMAIN b = Level(pricePoints, "bids") /\ b = [p \in Level(pricePoints, "bids") |-> b[p]]
    OBVIOUS
  <2> HIDE DEF b
  <2> QED BY <2>1, <2>2, <2>3, <2>4, <2>5, SizesAre
<1>6. u.asks.sizes = a
  <2>1. u.asks.sizes \in Maps(Prices, Int \ {0})
    BY <1>2, ViewIs
  <2>2. Level(pricePoints, "asks") \in SUBSET Prices
    BY <1>3 DEF Level
  <2>3. \A p \in Level(pricePoints, "asks") : a[p] # 0
    BY <1>3 DEF Level
  <2>4. \A p \in Prices : (IF p \in DOMAIN u.asks.sizes THEN u.asks.sizes[p] ELSE 0)
                            = IF p \in Level(pricePoints, "asks") THEN a[p] ELSE 0
    <3>1. \A p \in Prices : SizeAt(u.asks, p) = Double(DepthAt(pricePoints, p).asks)
      BY <1>1 DEF Mirrors
    <3>2. \A p : Double(DepthAt(pricePoints, p).asks) = IF p \in Level(pricePoints, "asks") THEN a[p] ELSE 0
      BY <1>3, DoubleIs DEF DepthAt, NoDepth, Level
    <3> QED BY <3>1, <3>2 DEF SizeAt
  <2>5. DOMAIN a = Level(pricePoints, "asks") /\ a = [p \in Level(pricePoints, "asks") |-> a[p]]
    OBVIOUS
  <2> HIDE DEF a
  <2> QED BY <2>1, <2>2, <2>3, <2>4, <2>5, SizesAre
<1>7. Remaining(u.pills) = o /\ DOMAIN u.pills = own
  <2>1. /\ \A id : id \in DOMAIN u.pills <=> PillAt(u, id) # 0
        /\ DOMAIN u.pills \subseteq Nat
    BY <1>2, PillsIn
  <2>2. \A id \in Nat : PillAt(u, id) = IF id \in own THEN Double(orders[id].quantity) ELSE 0
    BY <1>1 DEF Mirrors, Owed
  <2>3. DOMAIN u.pills = own
    BY <1>4, <2>1, <2>2
  <2>4. \A id \in own : u.pills[id].remaining = Double(orders[id].quantity)
    BY <1>4, <2>2, <2>3 DEF PillAt
  <2> QED BY <2>3, <2>4 DEF Remaining
<1>12. \A id \in own : Suits(u.pills[id], orders[id])
  BY <1>2, <1>7 DEF Patient, Honest
<1>8. u.price = lastTrade.price /\ u.account = Rounded(accounts[w])
  BY <1>1 DEF Covers
<1> HIDE DEF a, b, o
<1>9. [u EXCEPT !.bids = @.sizes, !.asks = @.sizes, !.pills = Remaining(@)]
        = [bids |-> b, asks |-> a, price |-> lastTrade.price, account |-> Rounded(accounts[w]), pills |-> o]
  BY <1>2, <1>5, <1>6, <1>7, <1>8, ViewIs
<1>10. Shown(w)
         = [bids |-> b, asks |-> a, price |-> lastTrade.price, account |-> Rounded(accounts[w]), pills |-> o]
  BY ShownIs DEF a, b, o
<1>11. IsLadder(u.bids, "bids") /\ IsLadder(u.asks, "asks")
  BY <1>2, ViewIs
<1> QED BY <1>9, <1>10, <1>11, <1>12 DEF u

\* A page that kept its connection since it was loaded will show the book, in
\* sorted rows, the last trade, its account and what is left of its orders as
\* the market has them, to the precision of a double, and on each pill a price
\* within the order's limit (market.cpp:103-126, market.js), for any number of
\* traders, watchers, prices, orders and rows.
THEOREM PageExact == FeedSpec => []FreshPageExact
BY FreshExact, FeedInvariant, PTL

LEMMA RejoinedCovers == FeedInv => RejoinedPageCovers
<1> SUFFICES ASSUME FeedInv, NEW w \in Watchers, page[w] = "connected", rejoined[w]
             PROVE  LET after == Replayed(w)
                        truth == Shown(w)
                    IN
                    /\ after.price = truth.price /\ after.account = truth.account
                    /\ Within(truth.bids, after.bids.sizes)
                    /\ Within(truth.asks, after.asks.sizes)
                    /\ IsLadder(after.bids, "bids") /\ IsLadder(after.asks, "asks")
                    /\ \A id \in DOMAIN truth.pills :
                         /\ id \in DOMAIN after.pills
                         /\ after.pills[id].remaining >= truth.pills[id]
                         /\ Suits(after.pills[id], orders[id])
  BY DEF RejoinedPageCovers
<1> DEFINE u == Replayed(w)
           own == traderOrders[w]
<1>1. /\ FeedTypeOK /\ BookIntegrity
      /\ Covers(u, pricePoints, lastTrade, accounts[w], own, orders)
  BY DEF FeedInv, PageInv
<1>2. u \in Views /\ u \in Patient(own, orders, orderCount)
  BY ReplayedIs
<1>3. \A id \in own : Double(orders[id].quantity) \in Nat \ {0}
  BY <1>1, WatcherIs, OwnOrders
<1> HIDE DEF u
<1>4. /\ Shown(w).price = lastTrade.price /\ Shown(w).account = Rounded(accounts[w])
      /\ Shown(w).bids = [p \in Level(pricePoints, "bids") |-> Double(pricePoints[p].bids)]
      /\ Shown(w).asks = [p \in Level(pricePoints, "asks") |-> Double(pricePoints[p].asks)]
      /\ Shown(w).pills = [id \in own |-> Double(orders[id].quantity)]
  BY ShownIs
<1>10. \A p \in DOMAIN pricePoints :
         /\ pricePoints[p].bids # 0 => Double(pricePoints[p].bids) # 0
         /\ pricePoints[p].asks # 0 => Double(pricePoints[p].asks) # 0
  <2>1. pricePoints \in [DOMAIN pricePoints -> Depth]
    BY <1>1 DEF FeedTypeOK, TypeOK
  <2>2. \A p \in DOMAIN pricePoints : pricePoints[p].bids \in LongRange /\ pricePoints[p].asks \in LongRange
    BY <2>1 DEF Depth
  <2> QED BY <2>2, DoubleIs
<1>5. Within(Shown(w).bids, u.bids.sizes)
  <2>1. \A p \in Level(pricePoints, "bids") : p \in DOMAIN u.bids.sizes /\ u.bids.sizes[p] = Double(pricePoints[p].bids)
    BY <1>1, <1>10 DEF Covers, SizeAt, Level
  <2> QED BY <1>4, <2>1 DEF Within
<1>6. Within(Shown(w).asks, u.asks.sizes)
  <2>1. \A p \in Level(pricePoints, "asks") : p \in DOMAIN u.asks.sizes /\ u.asks.sizes[p] = Double(pricePoints[p].asks)
    BY <1>1, <1>10 DEF Covers, SizeAt, Level
  <2> QED BY <1>4, <2>1 DEF Within
<1>7. ASSUME NEW id \in own
      PROVE  /\ id \in DOMAIN u.pills /\ u.pills[id].remaining >= Double(orders[id].quantity)
             /\ Suits(u.pills[id], orders[id])
  <2>1. PillAt(u, id) >= Double(orders[id].quantity) /\ PillAt(u, id) \in Nat
    BY <1>1, <1>2, PillsIn DEF Covers
  <2>2. PillAt(u, id) # 0
    BY <1>3, <2>1
  <2>3. id \in DOMAIN u.pills /\ PillAt(u, id) = u.pills[id].remaining
    BY <2>2 DEF PillAt
  <2> QED BY <1>2, <2>1, <2>3 DEF Patient, Honest
<1>8. IsLadder(u.bids, "bids") /\ IsLadder(u.asks, "asks")
  BY <1>2, ViewIs
<1>9. u.price = lastTrade.price /\ u.account = Rounded(accounts[w])
  BY <1>1 DEF Covers
<1> QED BY <1>4, <1>5, <1>6, <1>7, <1>8, <1>9 DEF u

\* A page that reconnected misses nothing of the market, whatever it kept from
\* before (market.js:41-42, 171-176).
THEOREM PageCovers == FeedSpec => []RejoinedPageCovers
BY RejoinedCovers, FeedInvariant, PTL
=============================================================================
