---------------------------- MODULE MCEventQueue ----------------------------
(***************************************************************************)
(* Two queues of up to two items: several events for one queue and events  *)
(* for both wait together, and a queue goes while its events are under way.*)
(***************************************************************************)
EXTENDS EventQueue
=============================================================================
