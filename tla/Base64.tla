------------------------------- MODULE Base64 -------------------------------
(***************************************************************************)
(* base64_encode and base64_decode of encoding.cpp.  num holds the bits    *)
(* that have come and not gone out, the last num_bits of the variable in   *)
(* the code, which never looks at the others.                              *)
(***************************************************************************)
EXTENDS Integers, Sequences, SequencesExt

OCTET       == 8
BASE64_BITS == 6

Letters ==
  <<"A", "B", "C", "D", "E", "F", "G", "H", "I", "J", "K", "L", "M", "N", "O", "P", "Q",
    "R", "S", "T", "U", "V", "W", "X", "Y", "Z", "a", "b", "c", "d", "e", "f", "g", "h",
    "i", "j", "k", "l", "m", "n", "o", "p", "q", "r", "s", "t", "u", "v", "w", "x", "y",
    "z", "0", "1", "2", "3", "4", "5", "6", "7", "8", "9", "+", "/">>

base64_enc(b) == Letters[b + 1]
base64_dec(c) == (CHOOSE k \in DOMAIN Letters : Letters[k] = c) - 1

\* The loop over get_msb: all of num_bits in groups of so many, from the top
Groups(num, num_bits, bits) ==
  [k \in 1..num_bits \div bits |-> (num \div 2^(num_bits - k * bits)) % 2^bits]

Encoded(num, num_bits) ==
  [k \in 1..num_bits \div BASE64_BITS |-> base64_enc(Groups(num, num_bits, BASE64_BITS)[k])]

Nothing == [num |-> 0, num_bits |-> 0, out |-> <<>>]

EncodeByte(s, b) ==
  LET num      == s.num * 2^OCTET + b
      num_bits == s.num_bits + OCTET
  IN  IF num_bits % BASE64_BITS # 0 THEN [s EXCEPT !.num = num, !.num_bits = num_bits]
      ELSE [Nothing EXCEPT !.out = s.out \o Encoded(num, num_bits)]

base64_encode(bytes) ==
  LET s       == FoldLeft(EncodeByte, Nothing, bytes)
      padding == CASE s.num_bits = OCTET     -> 2
                   [] s.num_bits = 2 * OCTET -> 1
                   [] OTHER                  -> 0
  IN  s.out \o Encoded(s.num * 2^(2 * padding), s.num_bits + 2 * padding)
        \o [k \in 1..padding |-> "="]

DecodeLetter_Fault(s, c) ==
  LET num      == IF c = "=" THEN s.num ELSE s.num * 2^BASE64_BITS + base64_dec(c)
      num_bits == IF c = "=" THEN s.num_bits - 2 ELSE s.num_bits + BASE64_BITS
  IN  IF num_bits % OCTET # 0 THEN [s EXCEPT !.num = num, !.num_bits = num_bits]
      ELSE [Nothing EXCEPT !.out = s.out \o Groups(num, num_bits, OCTET)]

DecodeLetter(s, c) ==
  LET num      == IF c = "=" THEN s.num \div 4 ELSE s.num * 2^BASE64_BITS + base64_dec(c)
      num_bits == IF c = "=" THEN s.num_bits - 2 ELSE s.num_bits + BASE64_BITS
  IN  IF num_bits % OCTET # 0 THEN [s EXCEPT !.num = num, !.num_bits = num_bits]
      ELSE [Nothing EXCEPT !.out = s.out \o Groups(num, num_bits, OCTET)]

base64_decode(text) == FoldLeft(DecodeLetter, Nothing, text).out
=============================================================================
