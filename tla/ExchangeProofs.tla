---------------------------- MODULE ExchangeProofs ----------------------------
(***************************************************************************)
(* Theorems about Exchange: its types, that a tab keeps the account it has *)
(* joined with until the server restarts, and that a cancellation closes   *)
(* the order whose pill was clicked.                                       *)
(*                                                                         *)
(* The invariant says where a tab can be while a request or an answer of   *)
(* it is under way, and that an account of the present server belongs to   *)
(* a tab that is joining that market, with the answer on its way, or has   *)
(* joined it since the restart.  Hence an order number that a tab          *)
(* remembers from before a restart meets no account of that tab now.       *)
(***************************************************************************)
EXTENDS Exchange, TLAPS

HasAccount(t, m) == m \in DOMAIN markets /\ t \in markets[m].accounts

\* A tab has one request or one answer under way, and it is on the page
\* that sends such requests.
CallFits(t) ==
  call[t] # None =>
    /\ answer[t] = None
    /\ call[t].op = "create" => tab[t].at = "index"
    /\ call[t].op = "join" => tab[t].at = "joining"
    /\ call[t].op \in {"order", "cancel"} => tab[t].at = "market"
    /\ call[t].op = "cancel" => /\ call[t].market = tab[t].market
                                /\ call[t].order \in shown[t]

\* An answer is from this server or an earlier one, and one of this server
\* that says "joined" is true.
AnswerFits(t) ==
  answer[t] # None =>
    /\ answer[t].epoch <= epoch
    /\ answer[t].reply = "created" => tab[t].at = "index"
    /\ answer[t].reply = "joined" =>
         /\ tab[t].at = "joining"
         /\ answer[t].epoch = epoch => HasAccount(t, answer[t].market)

\* An account belongs to a tab that will open, or has opened, its market; and
\* a tab that has opened a market of this server has its account.
AccountFits(t) ==
  /\ \A m \in Markets : HasAccount(t, m) =>
       \/ /\ tab[t].at = "joining"
          /\ answer[t] # None
          /\ answer[t].reply = "joined"
          /\ answer[t].market = m
          /\ answer[t].epoch = epoch
       \/ tab[t].at = "market" /\ tab[t].market = m /\ tab[t].epoch = epoch
  /\ tab[t].at = "market" /\ tab[t].epoch = epoch => HasAccount(t, tab[t].market)

\* A page is of a market, shows orders of the server that it has joined, and
\* its stream is open only at a market that exists.
PageFits(t) ==
  /\ tab[t].epoch <= epoch
  /\ tab[t].at = "market" => tab[t].market \in Markets
  /\ \A order \in shown[t] : tab[t].at = "market" /\ order.epoch = tab[t].epoch
  /\ source[t] \in {"connecting", "open"} => tab[t].at = "market"
  /\ source[t] = "open" => tab[t].market \in DOMAIN markets

Fits(t) == CallFits(t) /\ AnswerFits(t) /\ AccountFits(t) /\ PageFits(t)

\* The types of the markets, and those of the tabs.
MarketsOK ==
  /\ DOMAIN markets \subseteq Markets
  /\ \A m \in DOMAIN markets :
       /\ markets[m] \in Market
       /\ markets[m].streams \subseteq markets[m].accounts
       /\ \A id \in DOMAIN markets[m].orders : markets[m].orders[id] \in markets[m].accounts

TabTypes == [at : {"index", "joining", "market"},
             market : Markets \cup {None}, epoch : 0..MaxRestarts]

CallTypes == {None} \cup [op : {"create", "join", "order", "cancel"}, market : Markets,
                          order : {None} \cup ShownOrder]

TabsOK ==
  /\ epoch \in 0..MaxRestarts
  /\ tab \in [Traders -> TabTypes]
  /\ shown \in [Traders -> SUBSET ShownOrder]
  /\ call \in [Traders -> CallTypes]
  /\ answer \in [Traders -> {None} \cup Answers]
  /\ source \in [Traders -> {"none", "connecting", "open", "refused"}]

ExchangeInv == MarketsOK /\ TabsOK /\ \A t \in Traders : Fits(t)

LEMMA TypesSplit == TypeOK <=> MarketsOK /\ TabsOK
BY DEF TypeOK, MarketsOK, TabsOK, TabTypes, CallTypes

LEMMA InvImplies == ExchangeInv => TypeOK /\ AccountKept
BY TypesSplit DEF ExchangeInv, AccountKept, Fits, AccountFits, HasAccount

\* At first there is nothing.
LEMMA ExchangeInit == Init => ExchangeInv
<1> SUFFICES ASSUME Init PROVE ExchangeInv
  OBVIOUS
<1>1. DOMAIN markets = {}
  BY DEF Init, NoMarket
<1>2. MarketsOK
  BY <1>1 DEF MarketsOK
<1>3. TabsOK
  BY ExchangeAssumption DEF Init, TabsOK, TabTypes, CallTypes
<1>4. ASSUME NEW t \in Traders PROVE Fits(t)
  BY <1>1 DEF Init, Fits, CallFits, AnswerFits, AccountFits, PageFits, HasAccount
<1> QED BY <1>2, <1>3, <1>4 DEF ExchangeInv

-----------------------------------------------------------------------------
(* Frames. *)

\* A tab that does nothing still fits when the accounts of it stay.
LEMMA TabFrame ==
  ASSUME NEW t \in Traders, TabsOK, MarketsOK, MarketsOK', Fits(t), epoch' = epoch,
         tab'[t] = tab[t], shown'[t] = shown[t], call'[t] = call[t],
         answer'[t] = answer[t], source'[t] = source[t],
         DOMAIN markets \subseteq DOMAIN markets',
         \A m \in Markets : HasAccount(t, m)' <=> HasAccount(t, m)
  PROVE  Fits(t)'
<1>1. CallFits(t)'
  BY DEF Fits, CallFits
<1>2. tab[t] \in TabTypes /\ answer[t] \in {None} \cup Answers
  BY DEF TabsOK
<1>3. AnswerFits(t)'
  BY <1>2 DEF Fits, AnswerFits, Answers
<1>4. AccountFits(t)'
  <2>1. HasAccount(t, tab[t].market) => HasAccount(t, tab[t].market)'
    BY DEF HasAccount, MarketsOK
  <2> QED BY <1>2, <2>1 DEF Fits, AccountFits
<1>5. PageFits(t)'
  BY DEF Fits, PageFits
<1> QED BY <1>1, <1>3, <1>4, <1>5 DEF Fits

\* The markets, as far as the tabs look at them, stay.
SameAccounts ==
  /\ DOMAIN markets' = DOMAIN markets
  /\ \A m \in DOMAIN markets : markets'[m].accounts = markets[m].accounts

LEMMA SameHas == ASSUME SameAccounts PROVE \A t, m : HasAccount(t, m)' <=> HasAccount(t, m)
BY DEF SameAccounts, HasAccount

\* A step of one tab keeps the invariant if that tab still fits and no other
\* tab loses or gains an account.
LEMMA OneTab ==
  ASSUME ExchangeInv, NEW t \in Traders, MarketsOK', TabsOK', Fits(t)',
         epoch' = epoch, DOMAIN markets \subseteq DOMAIN markets',
         \A u \in Traders \ {t} :
           /\ tab'[u] = tab[u] /\ shown'[u] = shown[u] /\ call'[u] = call[u]
           /\ answer'[u] = answer[u] /\ source'[u] = source[u]
           /\ \A m \in Markets : HasAccount(u, m)' <=> HasAccount(u, m)
  PROVE  ExchangeInv'
<1>1. ASSUME NEW u \in Traders PROVE Fits(u)'
  <2>1. CASE u = t
    BY <2>1
  <2>2. CASE u # t
    BY <2>2, TabFrame DEF ExchangeInv
  <2> QED BY <2>1, <2>2
<1> QED BY <1>1 DEF ExchangeInv

-----------------------------------------------------------------------------
(* The tabs. *)

\* What a request that is sent leaves alone.
LEMMA SendFrame ==
  ASSUME TabsOK, NEW t \in Traders, NEW request \in CallTypes, Send(t, request)
  PROVE  /\ call[t] = None /\ answer[t] = None /\ call'[t] = request
         /\ \A u \in Traders \ {t} : call'[u] = call[u]
         /\ call' \in [Traders -> CallTypes]
         /\ UNCHANGED <<markets, epoch, shown, answer, source>>
BY DEF Send, TabsOK

LEMMA MarketsFrame ==
  ASSUME MarketsOK, UNCHANGED markets
  PROVE  MarketsOK' /\ \A u, m : HasAccount(u, m)' <=> HasAccount(u, m)
BY DEF MarketsOK, HasAccount

LEMMA CreateClicked ==
  ASSUME ExchangeInv, NEW t \in Traders, NEW m \in Markets, ClickCreate(t, m)
  PROVE  ExchangeInv'
<1> DEFINE request == Request("create", m, None)
<1>1. /\ request \in CallTypes /\ request.op = "create"
      /\ Send(t, request) /\ tab[t].at = "index" /\ tab' = tab
  BY DEF ClickCreate, Request, CallTypes
<1> HIDE DEF request
<1>2. /\ call[t] = None /\ answer[t] = None /\ call'[t] = request
      /\ \A u \in Traders \ {t} : call'[u] = call[u]
      /\ call' \in [Traders -> CallTypes]
      /\ UNCHANGED <<markets, epoch, shown, answer, source>>
  BY <1>1, SendFrame DEF ExchangeInv
<1>3. TabsOK' /\ MarketsOK' /\ \A u, k : HasAccount(u, k)' <=> HasAccount(u, k)
  BY <1>1, <1>2, MarketsFrame DEF ExchangeInv, TabsOK
<1>4. Fits(t)'
  BY <1>1, <1>2, <1>3 DEF ExchangeInv, Fits, CallFits, AnswerFits, AccountFits, PageFits
<1> QED BY <1>1, <1>2, <1>3, <1>4, OneTab

LEMMA JoinClicked ==
  ASSUME ExchangeInv, NEW t \in Traders, NEW m \in Markets, ClickJoin(t, m)
  PROVE  ExchangeInv'
<1> DEFINE request == Request("join", m, None)
<1>1. /\ request \in CallTypes /\ request.op = "join"
      /\ Send(t, request) /\ tab[t].at = "index"
      /\ tab' = [tab EXCEPT ![t].at = "joining"]
  BY DEF ClickJoin, Request, CallTypes
<1> HIDE DEF request
<1>2. /\ call[t] = None /\ answer[t] = None /\ call'[t] = request
      /\ \A u \in Traders \ {t} : call'[u] = call[u]
      /\ call' \in [Traders -> CallTypes]
      /\ UNCHANGED <<markets, epoch, shown, answer, source>>
  BY <1>1, SendFrame DEF ExchangeInv
<1>3. /\ tab'[t].at = "joining" /\ tab'[t].epoch = tab[t].epoch
      /\ \A u \in Traders \ {t} : tab'[u] = tab[u]
      /\ tab' \in [Traders -> TabTypes]
  BY <1>1 DEF ExchangeInv, TabsOK, TabTypes
<1>4. TabsOK' /\ MarketsOK' /\ \A u, k : HasAccount(u, k)' <=> HasAccount(u, k)
  BY <1>2, <1>3, MarketsFrame DEF ExchangeInv, TabsOK
<1>5. Fits(t)'
  BY <1>1, <1>2, <1>3, <1>4 DEF ExchangeInv, Fits, CallFits, AnswerFits, AccountFits, PageFits
<1> QED BY <1>2, <1>3, <1>4, <1>5, OneTab

LEMMA SubmitClicked ==
  ASSUME ExchangeInv, NEW t \in Traders, ClickSubmit(t)
  PROVE  ExchangeInv'
<1> DEFINE request == Request("order", tab[t].market, None)
<1>1. request.op = "order" /\ Send(t, request) /\ tab[t].at = "market" /\ tab' = tab
  BY DEF ClickSubmit, Request
<1>2. request \in CallTypes
  BY <1>1 DEF ExchangeInv, TabsOK, TabTypes, Request, CallTypes, Fits, PageFits
<1> HIDE DEF request
<1>3. /\ call[t] = None /\ answer[t] = None /\ call'[t] = request
      /\ \A u \in Traders \ {t} : call'[u] = call[u]
      /\ call' \in [Traders -> CallTypes]
      /\ UNCHANGED <<markets, epoch, shown, answer, source>>
  BY <1>1, <1>2, SendFrame DEF ExchangeInv
<1>4. TabsOK' /\ MarketsOK' /\ \A u, k : HasAccount(u, k)' <=> HasAccount(u, k)
  BY <1>1, <1>3, MarketsFrame DEF ExchangeInv, TabsOK
<1>5. Fits(t)'
  BY <1>1, <1>3, <1>4 DEF ExchangeInv, Fits, CallFits, AnswerFits, AccountFits, PageFits
<1> QED BY <1>1, <1>3, <1>4, <1>5, OneTab

LEMMA CancelClicked ==
  ASSUME ExchangeInv, NEW t \in Traders, ClickCancel(t)
  PROVE  ExchangeInv'
<1>1. PICK order \in shown[t] : Send(t, Request("cancel", tab[t].market, order))
  BY DEF ClickCancel
<1> DEFINE request == Request("cancel", tab[t].market, order)
<1>2. /\ request.op = "cancel" /\ request.market = tab[t].market /\ request.order = order
      /\ Send(t, request) /\ tab[t].at = "market" /\ tab' = tab
  BY <1>1 DEF ClickCancel, Request
<1>3. request \in CallTypes
  BY <1>2 DEF ExchangeInv, TabsOK, TabTypes, Request, CallTypes, Fits, PageFits
<1> HIDE DEF request
<1>4. /\ call[t] = None /\ answer[t] = None /\ call'[t] = request
      /\ \A u \in Traders \ {t} : call'[u] = call[u]
      /\ call' \in [Traders -> CallTypes]
      /\ UNCHANGED <<markets, epoch, shown, answer, source>>
  BY <1>2, <1>3, SendFrame DEF ExchangeInv
<1>5. TabsOK' /\ MarketsOK' /\ \A u, k : HasAccount(u, k)' <=> HasAccount(u, k)
  BY <1>2, <1>4, MarketsFrame DEF ExchangeInv, TabsOK
<1>6. Fits(t)'
  BY <1>2, <1>4, <1>5 DEF ExchangeInv, Fits, CallFits, AnswerFits, AccountFits, PageFits
<1> QED BY <1>2, <1>4, <1>5, <1>6, OneTab

LEMMA AnswerRead ==
  ASSUME ExchangeInv, NEW t \in Traders, ReadAnswer(t)
  PROVE  ExchangeInv'
<1> DEFINE a == answer[t]
<1>1. /\ a # None /\ a \in Answers /\ call[t] = None
      /\ answer'[t] = None /\ answer' \in [Traders -> {None} \cup Answers]
      /\ \A u \in Traders \ {t} : answer'[u] = answer[u]
      /\ UNCHANGED <<markets, epoch, shown>>
  BY DEF ReadAnswer, ExchangeInv, TabsOK, Fits, CallFits
<1>2. MarketsOK' /\ \A u, k : HasAccount(u, k)' <=> HasAccount(u, k)
  BY <1>1, MarketsFrame DEF ExchangeInv
<1>3. a.market \in Markets /\ a.epoch \in 0..MaxRestarts
  BY <1>1 DEF Answers
<1>4. Fits(t) /\ TabsOK
  BY DEF ExchangeInv
<1>5. CASE a.reply = "created"
  <2> DEFINE request == Request("join", a.market, None)
  <2>1. /\ call' = [call EXCEPT ![t] = request]
        /\ tab' = [tab EXCEPT ![t].at = "joining"] /\ source' = source
    BY <1>5 DEF ReadAnswer
  <2>2. request \in CallTypes /\ request.op = "join"
    BY <1>3 DEF Request, CallTypes
  <2> HIDE DEF request
  <2>3. /\ tab'[t].at = "joining" /\ tab'[t].epoch = tab[t].epoch
        /\ \A u \in Traders \ {t} : tab'[u] = tab[u]
        /\ tab' \in [Traders -> TabTypes]
        /\ call'[t] = request
        /\ \A u \in Traders \ {t} : call'[u] = call[u]
        /\ call' \in [Traders -> CallTypes]
    BY <1>4, <2>1, <2>2 DEF TabsOK, TabTypes
  <2>4. TabsOK'
    BY <1>1, <1>4, <2>1, <2>3 DEF TabsOK
  <2>5. tab[t].at = "index"
    BY <1>1, <1>4, <1>5 DEF Fits, AnswerFits
  <2>6. Fits(t)'
    BY <1>1, <1>2, <1>4, <2>1, <2>2, <2>3, <2>5 DEF Fits, CallFits, AnswerFits, AccountFits, PageFits
  <2> QED BY <1>1, <1>2, <2>1, <2>3, <2>4, <2>6, OneTab
<1>6. CASE a.reply = "joined"
  <2>1. /\ tab' = [tab EXCEPT ![t] = [at |-> "market", market |-> a.market, epoch |-> a.epoch]]
        /\ source' = [source EXCEPT ![t] = "connecting"]
        /\ call' = call
    BY <1>6 DEF ReadAnswer
  <2>2. /\ tab'[t].at = "market" /\ tab'[t].market = a.market /\ tab'[t].epoch = a.epoch
        /\ \A u \in Traders \ {t} : tab'[u] = tab[u]
        /\ tab' \in [Traders -> TabTypes]
        /\ source'[t] = "connecting"
        /\ \A u \in Traders \ {t} : source'[u] = source[u]
        /\ source' \in [Traders -> {"none", "connecting", "open", "refused"}]
    BY <1>3, <1>4, <2>1 DEF TabsOK, TabTypes
  <2>3. TabsOK'
    BY <1>1, <1>4, <2>1, <2>2 DEF TabsOK
  <2>4. /\ tab[t].at = "joining" /\ a.epoch <= epoch
        /\ a.epoch = epoch => HasAccount(t, a.market)
    BY <1>1, <1>4, <1>6 DEF Fits, AnswerFits
  <2>5. Fits(t)'
    <3>1. CallFits(t)' /\ AnswerFits(t)'
      BY <1>1, <2>1 DEF CallFits, AnswerFits
    <3>2. AccountFits(t)'
      BY <1>1, <1>2, <1>4, <2>2, <2>4 DEF Fits, AccountFits
    <3>3. PageFits(t)'
      BY <1>1, <1>3, <1>4, <2>2, <2>4 DEF Fits, PageFits
    <3> QED BY <3>1, <3>2, <3>3 DEF Fits
  <2> QED BY <1>1, <1>2, <2>1, <2>2, <2>3, <2>5, OneTab
<1>7. CASE a.reply \notin {"created", "joined"}
  <2>1. UNCHANGED <<call, tab, source>>
    BY <1>7 DEF ReadAnswer
  <2>2. TabsOK'
    BY <1>1, <1>4, <2>1 DEF TabsOK
  <2>3. Fits(t)'
    BY <1>1, <1>2, <1>4, <1>7, <2>1 DEF Fits, CallFits, AnswerFits, AccountFits, PageFits
  <2> QED BY <1>1, <1>2, <2>1, <2>2, <2>3, OneTab
<1> QED BY <1>5, <1>6, <1>7

-----------------------------------------------------------------------------
(* The endpoints. *)

\* What an answer does.
LEMMA AnswerFrame ==
  ASSUME ExchangeInv, NEW t \in Traders, call[t] # None, NEW reply \in Replies, Answer(t, reply)
  PROVE  /\ call[t] \in CallTypes /\ call[t].market \in Markets
         /\ call'[t] = None /\ answer'[t] # None
         /\ answer'[t].reply = reply
         /\ answer'[t].market = call[t].market /\ answer'[t].epoch = epoch
         /\ \A u \in Traders \ {t} : call'[u] = call[u] /\ answer'[u] = answer[u]
         /\ UNCHANGED <<epoch, tab, shown, source>>
         /\ TabsOK'
<1> DEFINE a == [reply |-> reply, market |-> call[t].market, epoch |-> epoch]
<1>1. call[t] \in CallTypes /\ call[t].market \in Markets
  BY DEF ExchangeInv, TabsOK, CallTypes
<1>2. a \in Answers
  BY <1>1 DEF ExchangeInv, TabsOK, Answers
<1>3. a # None
  BY <1>2, ExchangeAssumption
<1>4. /\ call' = [call EXCEPT ![t] = None] /\ answer' = [answer EXCEPT ![t] = a]
      /\ UNCHANGED <<epoch, tab, shown, source>>
  BY DEF Answer
<1>5. a.reply = reply /\ a.market = call[t].market /\ a.epoch = epoch
  OBVIOUS
<1>6. None \in CallTypes
  BY DEF CallTypes
<1> HIDE DEF a
<1> QED BY <1>1, <1>2, <1>3, <1>4, <1>5, <1>6 DEF ExchangeInv, TabsOK

\* A tab that gets an answer, and no account with it, fits.
LEMMA Answered ==
  ASSUME ExchangeInv, NEW t \in Traders, call[t] # None, NEW reply \in Replies \ {"joined"},
         Answer(t, reply), reply = "created" => call[t].op = "create",
         MarketsOK', DOMAIN markets \subseteq DOMAIN markets',
         \A u \in Traders : \A m \in Markets : HasAccount(u, m)' <=> HasAccount(u, m)
  PROVE  ExchangeInv'
<1>1. /\ call'[t] = None /\ answer'[t] # None
      /\ answer'[t].reply = reply
      /\ answer'[t].market = call[t].market /\ answer'[t].epoch = epoch
      /\ \A u \in Traders \ {t} : call'[u] = call[u] /\ answer'[u] = answer[u]
      /\ UNCHANGED <<epoch, tab, shown, source>>
      /\ TabsOK'
  BY AnswerFrame
<1>2. Fits(t) /\ TabsOK /\ answer[t] = None
  BY DEF ExchangeInv, Fits, CallFits
<1>3. CallFits(t)'
  BY <1>1 DEF CallFits
<1>4. AnswerFits(t)'
  <2>1. reply = "created" => tab[t].at = "index"
    BY <1>2 DEF Fits, CallFits
  <2>2. epoch \in Nat
    BY <1>2 DEF TabsOK
  <2> QED BY <1>1, <2>1, <2>2 DEF AnswerFits
<1>5. AccountFits(t)'
  <2>1. HasAccount(t, tab[t].market) => tab[t].market \in Markets
    BY DEF HasAccount, ExchangeInv, MarketsOK
  <2> QED BY <1>1, <1>2, <2>1 DEF Fits, AccountFits
<1>6. PageFits(t)'
  BY <1>1, <1>2 DEF Fits, PageFits
<1> QED BY <1>1, <1>3, <1>4, <1>5, <1>6, OneTab DEF Fits

LEMMA CreateHandled ==
  ASSUME ExchangeInv, NEW t \in Traders, HandleCreate(t)
  PROVE  ExchangeInv'
<1> DEFINE m == call[t].market
<1>1. call[t] # None /\ call[t].op = "create" /\ m \in Markets
  BY DEF HandleCreate, Asks, ExchangeInv, TabsOK, CallTypes
<1>2. CASE ~Known(m)
  <2>1. Answer(t, "created") /\ markets' = Put(markets, m, NewMarket)
    BY <1>2 DEF HandleCreate
  <2>2. NewMarket \in Market /\ NewMarket.accounts = {} /\ NewMarket.streams = {}
        /\ DOMAIN NewMarket.orders = {}
    <3> DEFINE none == [id \in {} |-> None]
    <3>1. none \in [{} -> Traders] /\ {} \in SUBSET (1..MaxOrders) /\ DOMAIN none = {}
      OBVIOUS
    <3>2. NewMarket = [accounts |-> {}, count |-> 0, orders |-> none, streams |-> {}]
      BY DEF NewMarket
    <3> HIDE DEF none
    <3>3. none \in UNION {[S -> Traders] : S \in SUBSET (1..MaxOrders)}
      BY <3>1
    <3>4. 0 \in 0..MaxOrders
      BY ExchangeAssumption
    <3> QED BY <3>1, <3>2, <3>3, <3>4 DEF Market
  <2> HIDE DEF m
  <2>3. /\ DOMAIN markets' = DOMAIN markets \cup {m}
        /\ markets'[m] = NewMarket
        /\ \A k \in DOMAIN markets : markets'[k] = markets[k]
    BY <1>2, <2>1 DEF Put, Known
  <2>4. MarketsOK'
    BY <1>1, <2>2, <2>3 DEF ExchangeInv, MarketsOK
  <2>5. \A u, k : HasAccount(u, k)' <=> HasAccount(u, k)
    BY <1>2, <2>2, <2>3 DEF HasAccount, Known
  <2> QED BY <1>1, <2>1, <2>3, <2>4, <2>5, Answered DEF Replies
<1>3. CASE Known(m)
  <2>1. Answer(t, "Market ID already exists") /\ UNCHANGED markets
    BY <1>3 DEF HandleCreate
  <2>2. MarketsOK' /\ \A u, k : HasAccount(u, k)' <=> HasAccount(u, k)
    BY <2>1, MarketsFrame DEF ExchangeInv
  <2> QED BY <1>1, <2>1, <2>2, Answered DEF Replies
<1> QED BY <1>2, <1>3

LEMMA JoinHandled ==
  ASSUME ExchangeInv, NEW t \in Traders, HandleJoin(t)
  PROVE  ExchangeInv'
<1> DEFINE m == call[t].market
<1>1. call[t] # None /\ call[t].op = "join" /\ m \in Markets
  BY DEF HandleJoin, Asks, ExchangeInv, TabsOK, CallTypes
<1>2. CASE Known(m)
  <2>1. Answer(t, "joined") /\ markets' = [markets EXCEPT ![m].accounts = @ \cup {t}]
    BY <1>2 DEF HandleJoin
  <2>2. /\ call'[t] = None /\ answer'[t] # None
        /\ answer'[t].reply = "joined" /\ answer'[t].market = m /\ answer'[t].epoch = epoch
        /\ \A u \in Traders \ {t} : call'[u] = call[u] /\ answer'[u] = answer[u]
        /\ UNCHANGED <<epoch, tab, shown, source>>
        /\ TabsOK'
    BY <1>1, <2>1, AnswerFrame DEF Replies
  <2>3. Fits(t) /\ TabsOK /\ MarketsOK /\ markets[m] \in Market /\ m \in DOMAIN markets
    BY <1>2 DEF ExchangeInv, MarketsOK, Known
  <2> HIDE DEF m
  <2>4. /\ DOMAIN markets' = DOMAIN markets
        /\ markets'[m] = [markets[m] EXCEPT !.accounts = @ \cup {t}]
        /\ \A k \in DOMAIN markets \ {m} : markets'[k] = markets[k]
    BY <2>1, <2>3
  <2>5. /\ markets'[m] \in Market
        /\ markets'[m].accounts = markets[m].accounts \cup {t}
        /\ markets'[m].streams = markets[m].streams
        /\ markets'[m].orders = markets[m].orders
    BY <2>3, <2>4 DEF Market
  <2>6. MarketsOK'
    BY <2>3, <2>4, <2>5 DEF MarketsOK
  <2>7. \A u \in Traders \ {t} : \A k : HasAccount(u, k)' <=> HasAccount(u, k)
    BY <2>4, <2>5 DEF HasAccount
  <2>8. \A k : HasAccount(t, k)' <=> HasAccount(t, k) \/ k = m
    BY <2>3, <2>4, <2>5 DEF HasAccount
  <2>9. tab[t].at = "joining" /\ answer[t] = None
    BY <1>1, <2>3 DEF Fits, CallFits
  <2>10. Fits(t)'
    <3>1. CallFits(t)'
      BY <2>2 DEF CallFits
    <3>2. AnswerFits(t)'
      <4>1. epoch \in Nat
        BY <2>3 DEF TabsOK
      <4> QED BY <2>2, <2>8, <2>9, <4>1 DEF AnswerFits
    <3>3. AccountFits(t)'
      BY <2>2, <2>3, <2>8, <2>9 DEF Fits, AccountFits
    <3>4. PageFits(t)'
      BY <2>2, <2>3, <2>4 DEF Fits, PageFits
    <3> QED BY <3>1, <3>2, <3>3, <3>4 DEF Fits
  <2> QED BY <2>2, <2>4, <2>6, <2>7, <2>10, OneTab
<1>3. CASE ~Known(m)
  <2>1. Answer(t, "Market ID does not exist") /\ UNCHANGED markets
    BY <1>3 DEF HandleJoin
  <2>2. MarketsOK' /\ \A u, k : HasAccount(u, k)' <=> HasAccount(u, k)
    BY <2>1, MarketsFrame DEF ExchangeInv
  <2> QED BY <1>1, <2>1, <2>2, Answered DEF Replies
<1> QED BY <1>2, <1>3

\* The orders of one market change, and stay orders of its accounts.
LEMMA OrdersChange ==
  ASSUME MarketsOK, NEW m \in DOMAIN markets, NEW count \in 0..MaxOrders, NEW orders,
         DOMAIN orders \subseteq 1..MaxOrders, orders = [k \in DOMAIN orders |-> orders[k]],
         \A id \in DOMAIN orders : orders[id] \in markets[m].accounts,
         markets' = [markets EXCEPT ![m].count = count, ![m].orders = orders]
  PROVE  MarketsOK' /\ SameAccounts
<1>1. markets[m] \in Market /\ m \in Markets
  BY DEF MarketsOK
<1>2. /\ DOMAIN markets' = DOMAIN markets
      /\ markets'[m] = [markets[m] EXCEPT !.count = count, !.orders = orders]
      /\ \A k \in DOMAIN markets \ {m} : markets'[k] = markets[k]
  OBVIOUS
<1>3. /\ markets'[m].accounts = markets[m].accounts
      /\ markets'[m].streams = markets[m].streams
      /\ markets'[m].orders = orders
  BY <1>1, <1>2 DEF Market
<1>4. markets'[m] \in Market
  <2>1. orders \in [DOMAIN orders -> Traders]
    BY <1>1 DEF Market
  <2>2. orders \in UNION {[S -> Traders] : S \in SUBSET (1..MaxOrders)}
    BY <2>1
  <2> QED BY <1>1, <1>2, <2>2 DEF Market
<1>5. MarketsOK'
  BY <1>2, <1>3, <1>4 DEF MarketsOK
<1> QED BY <1>2, <1>3, <1>5 DEF SameAccounts

LEMMA OrderHandled ==
  ASSUME ExchangeInv, NEW t \in Traders, HandleOrder(t)
  PROVE  ExchangeInv'
<1> DEFINE m == call[t].market
<1>1. call[t] # None /\ call[t].op = "order" /\ m \in Markets
  BY DEF HandleOrder, Asks, ExchangeInv, TabsOK, CallTypes
<1>2. CASE Known(m)
  <2>1. Answer(t, "Order Placed") /\ PlaceOrder(m, t)
    BY <1>2 DEF HandleOrder
  <2> HIDE DEF m
  <2>2. MarketsOK /\ m \in DOMAIN markets /\ markets[m] \in Market
    BY <1>2 DEF ExchangeInv, MarketsOK, Known
  <2>3. MarketsOK' /\ SameAccounts
    <3>1. CASE t \in markets[m].accounts
      <4> DEFINE id == markets[m].count + 1
                 open == Put(markets[m].orders, id, t)
      <4>1. PICK closed \in SUBSET DOMAIN open :
              markets' = [markets EXCEPT ![m].count = id,
                            ![m].orders = [k \in DOMAIN open \ closed |-> open[k]]]
        BY <2>1, <3>1 DEF PlaceOrder
      <4> DEFINE left == [k \in DOMAIN open \ closed |-> open[k]]
      <4>2. id \in 0..MaxOrders /\ id \in 1..MaxOrders
        <5>1. id <= MaxOrders
          BY <2>1, <3>1 DEF PlaceOrder
        <5>2. markets[m].count \in Nat
          BY <2>2 DEF Market
        <5> QED BY <5>1, <5>2, ExchangeAssumption
      <4>3. DOMAIN markets[m].orders \subseteq 1..MaxOrders
        BY <2>2 DEF Market
      <4> HIDE DEF id
      <4>4. DOMAIN open = DOMAIN markets[m].orders \cup {id}
        BY DEF Put
      <4>5. \A k \in DOMAIN open : open[k] \in markets[m].accounts
        BY <2>2, <3>1 DEF Put, MarketsOK
      <4> HIDE DEF open
      <4>6. /\ DOMAIN left \subseteq 1..MaxOrders /\ left = [k \in DOMAIN left |-> left[k]]
            /\ \A k \in DOMAIN left : left[k] \in markets[m].accounts
        BY <4>2, <4>3, <4>4, <4>5
      <4>7. markets' = [markets EXCEPT ![m].count = id, ![m].orders = left]
        BY <4>1
      <4> HIDE DEF left
      <4> QED BY <2>2, <4>2, <4>6, <4>7, OrdersChange
    <3>2. CASE t \notin markets[m].accounts
      BY <2>1, <2>2, <3>2 DEF PlaceOrder, MarketsOK, SameAccounts
    <3> QED BY <3>1, <3>2
  <2>4. DOMAIN markets \subseteq DOMAIN markets' /\ \A u, k : HasAccount(u, k)' <=> HasAccount(u, k)
    BY <2>3, SameHas DEF SameAccounts
  <2> QED BY <1>1, <2>1, <2>3, <2>4, Answered DEF Replies
<1>3. CASE ~Known(m)
  <2>1. Answer(t, "Market ID not found") /\ UNCHANGED markets
    BY <1>3 DEF HandleOrder
  <2>2. MarketsOK' /\ \A u, k : HasAccount(u, k)' <=> HasAccount(u, k)
    BY <2>1, MarketsFrame DEF ExchangeInv
  <2> QED BY <1>1, <2>1, <2>2, Answered DEF Replies
<1> QED BY <1>2, <1>3

LEMMA CancelHandled ==
  ASSUME ExchangeInv, NEW t \in Traders, HandleCancel(t)
  PROVE  ExchangeInv'
<1> DEFINE m == call[t].market
           id == call[t].order.id
<1>1. call[t] # None /\ call[t].op = "cancel" /\ m \in Markets
  BY DEF HandleCancel, Asks, ExchangeInv, TabsOK, CallTypes
<1>2. CASE Cancellable(m, t, id)
  <2> DEFINE left == [k \in DOMAIN markets[m].orders \ {id} |-> markets[m].orders[k]]
  <2>1. Answer(t, "Order cancelled") /\ markets' = [markets EXCEPT ![m].orders = left]
    BY <1>2 DEF HandleCancel
  <2> HIDE DEF m, id
  <2>2. MarketsOK /\ m \in DOMAIN markets /\ markets[m] \in Market
    BY <1>2 DEF ExchangeInv, MarketsOK, Cancellable, Known
  <2>3. /\ DOMAIN left \subseteq 1..MaxOrders /\ left = [k \in DOMAIN left |-> left[k]]
        /\ \A k \in DOMAIN left : left[k] \in markets[m].accounts
    <3>1. DOMAIN markets[m].orders \subseteq 1..MaxOrders
      BY <2>2 DEF Market
    <3> QED BY <2>2, <3>1 DEF MarketsOK
  <2> HIDE DEF left
  <2>4. markets' = [markets EXCEPT ![m].count = markets[m].count, ![m].orders = left]
    BY <2>1, <2>2 DEF Market
  <2>5. markets[m].count \in 0..MaxOrders
    BY <2>2 DEF Market
  <2>6. MarketsOK' /\ SameAccounts
    BY <2>2, <2>3, <2>4, <2>5, OrdersChange
  <2>7. DOMAIN markets \subseteq DOMAIN markets' /\ \A u, k : HasAccount(u, k)' <=> HasAccount(u, k)
    BY <2>6, SameHas DEF SameAccounts
  <2> QED BY <1>1, <2>1, <2>6, <2>7, Answered DEF Replies
<1>3. CASE ~Cancellable(m, t, id)
  <2>1. Answer(t, "Order not found") /\ UNCHANGED markets
    BY <1>3 DEF HandleCancel
  <2>2. MarketsOK' /\ \A u, k : HasAccount(u, k)' <=> HasAccount(u, k)
    BY <2>1, MarketsFrame DEF ExchangeInv
  <2> QED BY <1>1, <2>1, <2>2, Answered DEF Replies
<1> QED BY <1>2, <1>3

-----------------------------------------------------------------------------
(* Streams. *)

\* The streams of one market change, and stay streams of its accounts.
LEMMA StreamsChange ==
  ASSUME MarketsOK, NEW m \in DOMAIN markets, NEW streams \in SUBSET markets[m].accounts,
         markets' = [markets EXCEPT ![m].streams = streams]
  PROVE  MarketsOK' /\ SameAccounts
<1>1. markets[m] \in Market /\ m \in Markets
  BY DEF MarketsOK
<1>2. /\ DOMAIN markets' = DOMAIN markets
      /\ markets'[m] = [markets[m] EXCEPT !.streams = streams]
      /\ \A k \in DOMAIN markets \ {m} : markets'[k] = markets[k]
  OBVIOUS
<1>3. /\ markets'[m].accounts = markets[m].accounts
      /\ markets'[m].streams = streams
      /\ markets'[m].orders = markets[m].orders
      /\ markets'[m] \in Market
  BY <1>1, <1>2 DEF Market
<1>4. MarketsOK'
  BY <1>2, <1>3 DEF MarketsOK
<1> QED BY <1>2, <1>3, <1>4 DEF SameAccounts

\* A tab's stream changes, or what its page shows, and no account does.
LEMMA PageChanges ==
  ASSUME ExchangeInv, NEW t \in Traders, MarketsOK', SameAccounts,
         UNCHANGED <<epoch, tab, call, answer>>,
         shown' \in [Traders -> SUBSET ShownOrder], shown[t] \subseteq shown'[t],
         source' \in [Traders -> {"none", "connecting", "open", "refused"}],
         \A u \in Traders \ {t} : shown'[u] = shown[u] /\ source'[u] = source[u],
         PageFits(t)'
  PROVE  ExchangeInv'
<1>1. \A u, k : HasAccount(u, k)' <=> HasAccount(u, k)
  BY SameHas
<1>2. TabsOK'
  BY DEF ExchangeInv, TabsOK
<1>3. Fits(t)'
  BY <1>1 DEF ExchangeInv, Fits, CallFits, AnswerFits, AccountFits
<1> QED BY <1>1, <1>2, <1>3, OneTab DEF SameAccounts

LEMMA StreamHandled ==
  ASSUME ExchangeInv, NEW t \in Traders, HandleStream(t)
  PROVE  ExchangeInv'
<1> DEFINE m == tab[t].market
<1>1. /\ source[t] = "connecting" /\ Fits(t) /\ TabsOK /\ MarketsOK
      /\ UNCHANGED <<epoch, tab, shown, call, answer>>
  BY DEF HandleStream, ExchangeInv
<1>2. tab[t].at = "market"
  BY <1>1 DEF Fits, PageFits
<1>3. CASE Subscribable(m, t)
  <2>1. /\ markets' = [markets EXCEPT ![m].streams = markets[m].streams \cup {t}]
        /\ source' = [source EXCEPT ![t] = "open"]
        /\ m \in DOMAIN markets
        /\ markets[m].streams \cup {t} \in SUBSET markets[m].accounts
    BY <1>1, <1>3 DEF HandleStream, Subscribable, Known, MarketsOK
  <2>2. MarketsOK' /\ SameAccounts
    BY <1>1, <2>1, StreamsChange
  <2>3. /\ source' \in [Traders -> {"none", "connecting", "open", "refused"}]
        /\ source'[t] = "open" /\ \A u \in Traders \ {t} : source'[u] = source[u]
    BY <1>1, <2>1 DEF TabsOK
  <2>4. PageFits(t)'
    BY <1>1, <1>2, <2>1, <2>2, <2>3 DEF Fits, PageFits, SameAccounts
  <2> QED BY <1>1, <2>2, <2>3, <2>4, PageChanges DEF TabsOK
<1>4. CASE ~Subscribable(m, t)
  <2>1. UNCHANGED markets /\ source' = [source EXCEPT ![t] = "refused"]
    BY <1>4 DEF HandleStream
  <2>2. MarketsOK' /\ SameAccounts
    BY <1>1, <2>1 DEF MarketsOK, SameAccounts
  <2>3. /\ source' \in [Traders -> {"none", "connecting", "open", "refused"}]
        /\ source'[t] = "refused" /\ \A u \in Traders \ {t} : source'[u] = source[u]
    BY <1>1, <2>1 DEF TabsOK
  <2>4. PageFits(t)'
    BY <1>1, <2>3 DEF Fits, PageFits
  <2> QED BY <1>1, <2>2, <2>3, <2>4, PageChanges DEF TabsOK
<1> QED BY <1>3, <1>4

\* A pill is of an order of the tab's account, and so of this server.
LEMMA OrderShown ==
  ASSUME ExchangeInv, NEW t \in Traders, ShowOrder(t)
  PROVE  ExchangeInv'
<1> DEFINE m == tab[t].market
<1>1. PICK id \in DOMAIN markets[m].orders :
        /\ markets[m].orders[id] = t
        /\ shown' = [shown EXCEPT ![t] = @ \cup {[id |-> id, epoch |-> epoch]}]
  BY DEF ShowOrder
<1>2. /\ source[t] = "open" /\ Fits(t) /\ TabsOK /\ MarketsOK
      /\ UNCHANGED <<markets, epoch, tab, call, answer, source>>
  BY DEF ShowOrder, ExchangeInv
<1>3. tab[t].at = "market" /\ m \in DOMAIN markets /\ m \in Markets
  BY <1>2 DEF Fits, PageFits
<1>4. markets[m] \in Market /\ HasAccount(t, m)
  BY <1>1, <1>2, <1>3 DEF MarketsOK, HasAccount
<1>5. tab[t].epoch = epoch
  BY <1>2, <1>3, <1>4 DEF Fits, AccountFits
<1> DEFINE order == [id |-> id, epoch |-> epoch]
<1>6. order \in ShownOrder /\ order.epoch = epoch
  <2>1. id \in 1..MaxOrders
    BY <1>1, <1>4 DEF Market
  <2> QED BY <1>2, <2>1 DEF ShownOrder, TabsOK
<1> HIDE DEF order
<1>7. /\ shown' \in [Traders -> SUBSET ShownOrder]
      /\ shown'[t] = shown[t] \cup {order} /\ \A u \in Traders \ {t} : shown'[u] = shown[u]
  BY <1>1, <1>2, <1>6 DEF TabsOK, order
<1>8. MarketsOK' /\ SameAccounts
  BY <1>2 DEF MarketsOK, SameAccounts
<1>9. PageFits(t)'
  BY <1>2, <1>3, <1>5, <1>6, <1>7 DEF Fits, PageFits
<1> QED BY <1>2, <1>7, <1>8, <1>9, PageChanges DEF TabsOK

LEMMA StreamLost ==
  ASSUME ExchangeInv, NEW t \in Traders, LoseStream(t)
  PROVE  ExchangeInv'
<1>1. /\ source[t] = "open" /\ source' = [source EXCEPT ![t] = "connecting"]
      /\ Fits(t) /\ TabsOK /\ MarketsOK
      /\ UNCHANGED <<markets, epoch, tab, shown, call, answer>>
  BY DEF LoseStream, ExchangeInv
<1>2. MarketsOK' /\ SameAccounts
  BY <1>1 DEF MarketsOK, SameAccounts
<1>3. /\ source' \in [Traders -> {"none", "connecting", "open", "refused"}]
      /\ source'[t] = "connecting" /\ \A u \in Traders \ {t} : source'[u] = source[u]
  BY <1>1 DEF TabsOK
<1>4. PageFits(t)'
  BY <1>1, <1>3 DEF Fits, PageFits
<1> QED BY <1>1, <1>2, <1>3, <1>4, PageChanges DEF TabsOK

LEMMA Unsubscribed ==
  ASSUME ExchangeInv, NEW t \in Traders, Unsubscribe(t)
  PROVE  ExchangeInv'
<1>1. PICK m \in DOMAIN markets :
        markets' = [markets EXCEPT ![m].streams = markets[m].streams \ {t}]
  BY DEF Unsubscribe
<1>2. /\ Fits(t) /\ TabsOK /\ MarketsOK
      /\ UNCHANGED <<epoch, tab, shown, call, answer, source>>
  BY DEF Unsubscribe, ExchangeInv
<1>3. markets[m].streams \ {t} \in SUBSET markets[m].accounts
  BY <1>2 DEF MarketsOK
<1>4. MarketsOK' /\ SameAccounts
  BY <1>1, <1>2, <1>3, StreamsChange
<1>5. PageFits(t)'
  BY <1>2, <1>4 DEF Fits, PageFits, SameAccounts
<1> QED BY <1>2, <1>4, <1>5, PageChanges DEF TabsOK

\* After a restart nobody has an account, and no answer is of this server.
LEMMA Restarted ==
  ASSUME ExchangeInv, Restart
  PROVE  ExchangeInv'
<1>1. PICK failed \in SUBSET Traders :
        /\ call' = [t \in Traders |-> IF t \in failed THEN None ELSE call[t]]
        /\ answer' = [t \in Traders |-> IF t \in failed THEN None ELSE answer[t]]
        /\ source' = [t \in Traders |->
                        IF source[t] \notin {"open", "connecting"} THEN source[t]
                        ELSE IF t \in failed THEN "none" ELSE "connecting"]
  BY DEF Restart
<1>2. /\ epoch < MaxRestarts /\ epoch' = epoch + 1 /\ DOMAIN markets' = {}
      /\ UNCHANGED <<tab, shown>> /\ TabsOK
  BY DEF Restart, NoMarket, ExchangeInv
<1>3. epoch' \in 0..MaxRestarts
  BY <1>2, ExchangeAssumption DEF TabsOK
<1>4. MarketsOK'
  BY <1>2 DEF MarketsOK
<1>5. TabsOK'
  <2>1. call' \in [Traders -> CallTypes] /\ answer' \in [Traders -> {None} \cup Answers]
    BY <1>1, <1>2 DEF TabsOK, CallTypes
  <2>2. source' \in [Traders -> {"none", "connecting", "open", "refused"}]
    BY <1>1, <1>2 DEF TabsOK
  <2> QED BY <1>2, <1>3, <2>1, <2>2 DEF TabsOK
<1>6. ASSUME NEW t \in Traders PROVE Fits(t)'
  <2>1. Fits(t) /\ tab[t] \in TabTypes /\ epoch \in 0..MaxRestarts
        /\ answer[t] \in {None} \cup Answers
    BY <1>2 DEF ExchangeInv, TabsOK
  <2>2. /\ call'[t] \in {None, call[t]} /\ answer'[t] \in {None, answer[t]}
        /\ answer'[t] # None => answer'[t] = answer[t]
        /\ source'[t] \in {"open", "connecting"} =>
             source'[t] = "connecting" /\ source[t] \in {"open", "connecting"}
    BY <1>1
  <2>3. \A k : ~HasAccount(t, k)'
    BY <1>2 DEF HasAccount
  <2>4. CallFits(t)'
    BY <1>2, <2>1, <2>2 DEF Fits, CallFits
  <2>5. AnswerFits(t)'
    <3>1. answer[t] # None => answer[t].epoch \in Nat /\ answer[t].epoch < epoch'
      BY <1>2, <2>1 DEF Fits, AnswerFits, Answers
    <3> QED BY <1>2, <2>1, <2>2, <3>1 DEF Fits, AnswerFits
  <2>6. AccountFits(t)' /\ PageFits(t)'
    <3>1. tab[t].epoch < epoch'
      BY <1>2, <2>1 DEF Fits, PageFits, TabTypes
    <3>2. tab[t].epoch \in Nat /\ epoch' \in Nat
      BY <1>3, <2>1 DEF TabTypes
    <3> QED BY <1>2, <2>1, <2>2, <2>3, <3>1, <3>2 DEF Fits, AccountFits, PageFits
  <2> QED BY <2>4, <2>5, <2>6 DEF Fits
<1> QED BY <1>4, <1>5, <1>6 DEF ExchangeInv

LEMMA ExchangeStep == ExchangeInv /\ [Next]_vars => ExchangeInv'
<1> SUFFICES ASSUME ExchangeInv, [Next]_vars PROVE ExchangeInv'
  OBVIOUS
<1>1. ASSUME UNCHANGED vars PROVE ExchangeInv'
  <2>1. MarketsOK' /\ TabsOK' /\ \A u, k : HasAccount(u, k)' <=> HasAccount(u, k)
    BY <1>1, MarketsFrame DEF ExchangeInv, TabsOK, vars
  <2>2. ASSUME NEW t \in Traders PROVE Fits(t)'
    BY <1>1, <2>1, TabFrame DEF ExchangeInv, vars
  <2> QED BY <2>1, <2>2 DEF ExchangeInv
<1>2. ASSUME NEW t \in Traders, NEW m \in Markets, ClickCreate(t, m) \/ ClickJoin(t, m)
      PROVE  ExchangeInv'
  BY <1>2, CreateClicked, JoinClicked
<1>3. ASSUME NEW t \in Traders, ClickSubmit(t) \/ ClickCancel(t) \/ ReadAnswer(t)
      PROVE  ExchangeInv'
  BY <1>3, SubmitClicked, CancelClicked, AnswerRead
<1>4. ASSUME NEW t \in Traders,
             HandleCreate(t) \/ HandleJoin(t) \/ HandleOrder(t) \/ HandleCancel(t)
      PROVE  ExchangeInv'
  BY <1>4, CreateHandled, JoinHandled, OrderHandled, CancelHandled
<1>5. ASSUME NEW t \in Traders,
             HandleStream(t) \/ ShowOrder(t) \/ LoseStream(t) \/ Unsubscribe(t)
      PROVE  ExchangeInv'
  BY <1>5, StreamHandled, OrderShown, StreamLost, Unsubscribed
<1> QED BY <1>1, <1>2, <1>3, <1>4, <1>5, Restarted DEF Next

-----------------------------------------------------------------------------
\* The requests of the tabs and the answers of the endpoints always have the
\* parts that their readers take out of them, and a market's streams and open
\* orders belong to its accounts (exchange.cpp:3-53, the endpoints).
THEOREM TypeCorrect == Spec => []TypeOK
<1>1. ExchangeInv => TypeOK
  BY InvImplies
<1> QED BY <1>1, ExchangeInit, ExchangeStep, PTL DEF Spec

\* Whatever the other tabs create and join, and however often the server
\* restarts, a tab that has joined a market of the present server has its
\* account there (exchange.cpp:3-5, join_market's try_emplace).
THEOREM AccountAlwaysKept == Spec => []AccountKept
<1>1. ExchangeInv => AccountKept
  BY InvImplies
<1> QED BY <1>1, ExchangeInit, ExchangeStep, PTL DEF Spec

\* A step that answers "Order cancelled" handles a cancellation that names an
\* order of the market's present open orders, and that order is the tab's own.
LEMMA OnlyCancelSaysCancelled ==
  ASSUME ExchangeInv, Next, NEW t \in Traders, call[t] # None,
         answer'[t] # answer[t], answer'[t] # None, answer'[t].reply = "Order cancelled"
  PROVE  /\ call[t].op = "cancel"
         /\ Cancellable(call[t].market, t, call[t].order.id)
<1>1. answer \in [Traders -> {None} \cup Answers]
  BY DEF ExchangeInv, TabsOK
<1>2. ASSUME NEW u \in Traders, NEW reply, Answer(u, reply)
      PROVE  u = t /\ answer'[t].reply = reply
  BY <1>1, <1>2 DEF Answer
<1>3. ASSUME NEW u \in Traders, NEW m \in Markets, ClickCreate(u, m) \/ ClickJoin(u, m)
      PROVE  FALSE
  BY <1>3 DEF ClickCreate, ClickJoin, Send
<1>4. ASSUME NEW u \in Traders, ClickSubmit(u) \/ ClickCancel(u) PROVE FALSE
  BY <1>4 DEF ClickSubmit, ClickCancel, Send
<1>5. ASSUME NEW u \in Traders, ReadAnswer(u) PROVE FALSE
  BY <1>1, <1>5 DEF ReadAnswer
<1>6. ASSUME NEW u \in Traders, HandleCreate(u) \/ HandleJoin(u) \/ HandleOrder(u) PROVE FALSE
  <2>1. \E reply \in Replies \ {"Order cancelled"} : Answer(u, reply)
    BY <1>6 DEF HandleCreate, HandleJoin, HandleOrder, Replies
  <2> QED BY <1>2, <2>1
<1>7. ASSUME NEW u \in Traders,
             HandleStream(u) \/ ShowOrder(u) \/ LoseStream(u) \/ Unsubscribe(u)
      PROVE  FALSE
  BY <1>7 DEF HandleStream, ShowOrder, LoseStream, Unsubscribe
<1>8. ASSUME Restart PROVE FALSE
  BY <1>8 DEF Restart
<1>9. ASSUME NEW u \in Traders, HandleCancel(u)
      PROVE  call[t].op = "cancel" /\ Cancellable(call[t].market, t, call[t].order.id)
  <2>1. Answer(u, "Order cancelled") \/ Answer(u, "Order not found")
    BY <1>9 DEF HandleCancel
  <2>2. Answer(u, "Order not found") => answer'[t].reply = "Order not found"
    BY <1>2
  <2>3. Answer(u, "Order cancelled") => u = t
    BY <1>2
  <2>4. "Order not found" # "Order cancelled"
    OBVIOUS
  <2>5. ~Answer(u, "Order not found")
    BY <2>2, <2>4
  <2>6. u = t /\ ~Answer(u, "Order not found")
    BY <2>1, <2>3, <2>5
  <2> QED BY <1>9, <2>6 DEF HandleCancel, Asks
<1> QED BY <1>3, <1>4, <1>5, <1>6, <1>7, <1>8, <1>9 DEF Next

\* A cancellation closes the very order whose pill was clicked: a pill that
\* outlived a restart never meets a new order of the same number
\* (market::cancel_order, market.cpp:166-175; index.js:38).
THEOREM CancelsWhatWasShown == Spec => CancelsShownOrder
<1>1. ASSUME ExchangeInv, [Next]_vars
      PROVE  [\A t \in Traders :
                call[t] # None /\ answer'[t] # answer[t] /\ answer'[t] # None =>
                  (answer'[t].reply = "Order cancelled" => call[t].order.epoch = epoch)]_vars
  <2> SUFFICES ASSUME Next, NEW t \in Traders, call[t] # None,
                      answer'[t] # answer[t], answer'[t] # None,
                      answer'[t].reply = "Order cancelled"
               PROVE  call[t].order.epoch = epoch
    BY <1>1
  <2> DEFINE m == call[t].market
  <2>1. /\ call[t].op = "cancel" /\ m \in DOMAIN markets
        /\ call[t].order.id \in DOMAIN markets[m].orders
        /\ markets[m].orders[call[t].order.id] = t
    BY <1>1, OnlyCancelSaysCancelled DEF Cancellable, Known
  <2>2. MarketsOK /\ Fits(t)
    BY <1>1 DEF ExchangeInv
  <2>3. HasAccount(t, m) /\ m \in Markets
    BY <2>1, <2>2 DEF HasAccount, MarketsOK
  <2>4. tab[t].at = "market" /\ call[t].order \in shown[t]
    BY <2>1, <2>2 DEF Fits, CallFits
  <2>5. tab[t].epoch = epoch
    BY <2>2, <2>3, <2>4 DEF Fits, AccountFits
  <2> QED BY <2>2, <2>4, <2>5 DEF Fits, PageFits
<1> QED BY <1>1, ExchangeInit, ExchangeStep, PTL DEF Spec, CancelsShownOrder
=============================================================================
