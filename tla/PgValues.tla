------------------------------ MODULE PgValues ------------------------------
(***************************************************************************)
(* Parameters and columns of PostgreSQL as text: pg_conv.hpp, pg_params.hpp*)
(* and get_row of pg_result.hpp.  A value is a number, a Boolean, a string *)
(* (a sequence of characters), or an optional without one.                 *)
(***************************************************************************)
EXTENDS Decimal

Null(type)     == [type |-> type, null |-> TRUE, v |-> <<>>]
Value(type, v) == [type |-> type, null |-> FALSE, v |-> v]

\* What a program passes: an optional may have no value.
Values ==
  [type : {"number"}, null : {FALSE}, v : Int] \union
  [type : {"bool"}, null : {FALSE}, v : BOOLEAN] \union
  [type : {"string"}, null : {FALSE}, v : Seq(STRING)] \union
  {Null(type) : type \in {"number", "bool", "string"}}

\* pg_serializer of each type
Text(value) ==
  CASE value.type = "number" -> ToChars[value.v]
    [] value.type = "bool"   -> IF value.v THEN <<"t">> ELSE <<"f">>
    [] value.type = "string" -> value.v

\* pg_params::store; the size -1 says that there is no value.
Store(value) ==
  IF value.null THEN [size |-> -1, text |-> <<>>]
  ELSE [size |-> Len(Text(value)), text |-> Text(value)]

\* pg_params: the count of values, and the values
Params(values) == [count |-> Len(values), values |-> [k \in DOMAIN values |-> Store(values[k])]]

\* pg_parser of each type
Parse(type, text) ==
  CASE type = "number" -> FromChars(text)
    [] type = "bool"   -> text = <<"t">>
    [] type = "string" -> text

\* A variable that has not been read into
Fresh(values) == [k \in DOMAIN values |-> Null(values[k].type)]

TypesOf(values) == [k \in DOMAIN values |-> values[k].type]

GetRow_Fault(row, vars) ==
  [k \in DOMAIN row |->
     IF row[k].size <= 0 THEN vars[k]
     ELSE Value(vars[k].type, Parse(vars[k].type, SubSeq(row[k].text, 1, row[k].size)))]

\* get_row into optional variables: for a column without a value it returns
\* and leaves the variable as it was.  (Into one that is not optional it throws.)
GetRow(row, vars) ==
  [k \in DOMAIN row |->
     IF row[k].size < 0 THEN vars[k]
     ELSE Value(vars[k].type, Parse(vars[k].type, SubSeq(row[k].text, 1, row[k].size)))]
=============================================================================
