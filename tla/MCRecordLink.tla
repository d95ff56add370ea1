----------------------------- MODULE MCRecordLink -----------------------------
(***************************************************************************)
(* Rings of three places, fewer than a header has bytes, so that every     *)
(* output goes round them; numbers of 16 bits below 9, so that an output   *)
(* of 10 bytes is too long for the length of its record.                   *)
(***************************************************************************)
EXTENDS RecordLink

MCOutputs ==
  {[type |-> 6, id |-> 1, src |-> <<>>],
   [type |-> 6, id |-> 5, src |-> <<1, 0>>],
   [type |-> 3, id |-> 1, src |-> <<0, 1, 2, 3, 4, 5, 6, 7, 0, 1>>]}

MCRequests == {[size |-> 1, read_fully |-> FALSE], [size |-> 4, read_fully |-> TRUE]}
MCPayloads == {}
=============================================================================
