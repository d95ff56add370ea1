------------------------------- MODULE Ladder -------------------------------
(***************************************************************************)
(* One side of the page's table of prices (srv/www/js/market.js): a map    *)
(* from price to size, the prices in an array that is kept sorted by       *)
(* binary search, and the rows of the table, which show the first of them. *)
(***************************************************************************)
EXTENDS Integers, SequencesExt

CONSTANT Rows      \* rows of the table; 13 in the code

ASSUME RowsAssumption == Rows \in Nat \ {0}

\* compareFn: (a, b) => b - a for the bids, the highest price first, and
\* (a, b) => a - b for the asks
CompareFn(of, a, b) == IF of = "bids" THEN b - a ELSE a - b

\* The number of elements that come before elem, by bisection
FindIndex(arr, elem, of) ==
  LET find[range \in (0..Len(arr)) \X (0..Len(arr))] ==
        LET start == range[1]
            end   == range[2]
            mid   == (start + end) \div 2
        IN  IF start >= end THEN start
            ELSE IF CompareFn(of, elem, arr[mid + 1]) <= 0 THEN find[<<start, mid>>]
            ELSE find[<<mid + 1, end>>]
  IN  find[<<0, Len(arr)>>]

Holds_Fault(arr, index, elem) == index < Len(arr)

Holds(arr, index, elem) == index < Len(arr) /\ arr[index + 1] = elem

RemoveElem(arr, elem, of) ==
  LET index == FindIndex(arr, elem, of)
  IN  IF Holds(arr, index, elem) THEN RemoveAt(arr, index + 1) ELSE arr

InsertElem(arr, elem, of) ==
  LET index == FindIndex(arr, elem, of)
  IN  IF Holds(arr, index, elem) THEN arr ELSE InsertAt(arr, index + 1, elem)

\* The visible rows
UpdateRows(sizes, arr) ==
  [i \in 1..(IF Rows < Len(arr) THEN Rows ELSE Len(arr)) |->
     [price |-> arr[i], size |-> sizes[arr[i]]]]

BlankSide == [sizes |-> [p \in {} |-> 0], ordered |-> <<>>, rows |-> <<>>]

\* update, and the rows after it; a size of zero removes the level.
Update(side, price, size, of) ==
  LET sizes   == IF size = 0
                   THEN [p \in DOMAIN side.sizes \ {price} |-> side.sizes[p]]
                   ELSE [p \in DOMAIN side.sizes \union {price} |->
                           IF p = price THEN size ELSE side.sizes[p]]
      ordered == IF size = 0 THEN RemoveElem(side.ordered, price, of)
                             ELSE InsertElem(side.ordered, price, of)
  IN  [sizes |-> sizes, ordered |-> ordered, rows |-> UpdateRows(sizes, ordered)]

\* What a side should be: every level once, best price first, and as many of
\* them as there are rows.
IsLadder(side, of) ==
  LET arr == side.ordered IN
  /\ \A i, j \in DOMAIN arr : i < j => CompareFn(of, arr[i], arr[j]) < 0
  /\ Range(arr) = DOMAIN side.sizes
  /\ side.rows = UpdateRows(side.sizes, arr)
=============================================================================
