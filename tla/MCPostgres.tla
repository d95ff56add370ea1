----------------------------- MODULE MCPostgres -----------------------------
(***************************************************************************)
(* Either one connection with its server, message by message, or the pool  *)
(* with its callers: mode says which, so that the two are checked in one   *)
(* run and their states are not multiplied.                                *)
(***************************************************************************)
EXTENDS PgConnection, PgDatabase

VARIABLE mode

vars == <<pgVars, poolVars, mode>>

\* Salts of one, two and three bytes have different padding.
MCSalts == {<<255>>, <<4, 0>>, <<1, 128, 63>>}

MCScripts ==
  {<<"rows">>, <<"command", "rows">>, <<"rows", "error">>, <<"empty">>, <<"command", "command">>}

MCParamLists ==
  {<<Value("number", -305), Null("number")>>, <<Null("number"), Value("number", 60)>>,
   <<Value("string", <<>>), Value("bool", TRUE), Value("string", <<"a", "0">>)>>}

Finished ==
  IF mode = "pool" THEN ~Defined \/ \A k \in Callers : caller[k] = "waiting"
  ELSE pc \in {"failed", "misread", "idle", "portal"}

Init ==
  /\ PgInit /\ PoolInit
  /\ mode \in {"connection", "pool"}
  /\ mode = "pool" => server.method = "trust" /\ scr.password = Password

Rest == Finished /\ UNCHANGED vars

Connection == mode = "connection" /\ PgNext /\ UNCHANGED <<poolVars, mode>>
Pool       == mode = "pool" /\ PoolNext /\ UNCHANGED <<pgVars, mode>>

Next == Connection \/ Pool \/ Rest

Spec == Init /\ [][Next]_vars /\ PoolFairness
=============================================================================
