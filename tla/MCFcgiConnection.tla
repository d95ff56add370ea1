-------------------------- MODULE MCFcgiConnection --------------------------
(***************************************************************************)
(* The routes of main.cpp, and two requests at a time on one connection.   *)
(***************************************************************************)
EXTENDS FcgiConnection

Api(rest) == <<Literal("api"), Literal("tradesim")>> \o rest

MCRoutes ==
  <<[method |-> "GET",  endpoint |-> "welcome", pattern |-> Api(<<>>)],
    [method |-> "POST", endpoint |-> "create",  pattern |-> Api(<<Literal("create")>>)],
    [method |-> "POST", endpoint |-> "join",    pattern |-> Api(<<Literal("join")>>)],
    [method |-> "GET",  endpoint |-> "stream",
     pattern |-> Api(<<Literal("stream"), Variable("marketId"), Variable("traderId")>>)],
    [method |-> "POST", endpoint |-> "order",   pattern |-> Api(<<Literal("order")>>)],
    [method |-> "POST", endpoint |-> "cancel",  pattern |-> Api(<<Literal("cancel")>>)]>>

Path(rest) == <<"", "api", "tradesim">> \o rest

Form(method, path, length, long) ==
  [method |-> method, path |-> path, length |-> length, long |-> long]

MCForms ==
  {Form("GET", Path(<<"">>), 0, FALSE), Form("POST", Path(<<"create">>), 1, TRUE),
   Form("POST", Path(<<"order">>), 1, FALSE), Form("POST", Path(<<"cancel">>), 2, FALSE),
   Form("GET", Path(<<"stream", "m">>), 0, FALSE), Form("PUT", Path(<<"order">>), 0, FALSE),
   Form("GET", Path(<<"stream", "m", "", "create">>), 0, FALSE)}
=============================================================================
