------------------------------- MODULE Decimal -------------------------------
(***************************************************************************)
(* Numbers as text, for parameters and columns (pg_conv.hpp) and for the   *)
(* count of iterations of SCRAM (scram.cpp).  A text is the sequence of    *)
(* its characters.                                                         *)
(***************************************************************************)
EXTENDS Integers, Sequences, SequencesExt

Numerals == <<"0", "1", "2", "3", "4", "5", "6", "7", "8", "9">>

\* c - '0'
Numeral(c) == (CHOOSE k \in DOMAIN Numerals : Numerals[k] = c) - 1

\* std::to_chars
ToChars[n \in Int] ==
  IF n < 0 THEN <<"-">> \o ToChars[-n]
  ELSE IF n < 10 THEN <<Numerals[n + 1]>>
  ELSE Append(ToChars[n \div 10], Numerals[(n % 10) + 1])

convert_to_num(text) == FoldLeft(LAMBDA n, c : n * 10 + Numeral(c), 0, text)

\* std::from_chars of all digits
FromChars(text) ==
  IF text[1] = "-" THEN -convert_to_num(Tail(text)) ELSE convert_to_num(text)
=============================================================================
