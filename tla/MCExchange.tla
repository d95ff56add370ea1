----------------------------- MODULE MCExchange -----------------------------
(***************************************************************************)
(* Two traders and one restart; one market id that both may use.           *)
(*   MCExchange.cfg         what must hold;                                *)
(*   MCExchangePlaced.cfg   what the answer "Order Placed" says;           *)
(*   MCExchangeRefused.cfg  what the event "duplicate" says.               *)
(***************************************************************************)
EXTENDS Exchange
=============================================================================
