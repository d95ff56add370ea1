----------------------------- MODULE EventQueue -----------------------------
(***************************************************************************)
(* How a market's message wakes the coroutine that sends it to a trader:   *)
(* async_queue.hpp over event_callback.cpp, event_bus.cpp and the internal *)
(* loop of event_loop.cpp, with the read of the event descriptor that      *)
(* io_uring performs for it.                                               *)
(*                                                                         *)
(* One consumer per queue runs the loop of stream_endpoint.cpp:53-61: wait *)
(* for items, take all of them, write them out, wait for the write.  The   *)
(* connection's end is an event too (async_signal.cpp), and destroys the   *)
(* queue and its consumer when it is notified.  Handlers run when the loop *)
(* polls, never inside notify_events.                                      *)
(*                                                                         *)
(* Not modelled: stop() and add_op(), which the server never calls, and    *)
(* the contents of the items, which std::queue keeps in order.             *)
(*                                                                         *)
(* A definition whose name ends in _Fault is a plausible bug of the one    *)
(* that follows it; the model never uses it.                               *)
(***************************************************************************)
EXTENDS Naturals, Sequences

CONSTANTS Queues,      \* one per subscription; an id is never used again
          MaxItems,    \* bound of the model: items in a queue
          MaxEvents    \* bound of the model: events added between two turns

ASSUME QueueAssumption == MaxItems \in Nat /\ MaxEvents \in Nat

VARIABLES consumer,    \* "unborn", "waiting", "writing" or "gone"
          items,       \* m_items, as a number of items
          status,      \* m_status_opt of the queue's callback has a value
          hungUp,      \* the connection's end has been signalled
          events,      \* m_events of the loop
          batch,       \* the queue that notify_events has moved out
          triggered,   \* m_event_fd_triggered
          counter,     \* the kernel's counter of the event descriptor
          loop         \* read of the descriptor "armed" or "completed", or
                       \* the internal loop "notifying"

vars == <<consumer, items, status, hungUp, events, batch, triggered, counter, loop>>

\* The two callbacks that a subscription registers with the event bus.
ItemsEvent(q)  == <<"items", q>>
SignalEvent(q) == <<"signal", q>>

Event == {"items", "signal"} \X Queues

Members(s) == {s[k] : k \in DOMAIN s}

Init ==
  /\ consumer = [q \in Queues |-> "unborn"]
  /\ items = [q \in Queues |-> 0]
  /\ status = [q \in Queues |-> FALSE]
  /\ hungUp = [q \in Queues |-> FALSE]
  /\ events = <<>>
  /\ batch = <<>>
  /\ triggered = FALSE
  /\ counter = 0
  /\ loop = "armed"

-----------------------------------------------------------------------------
(* event_loop *)

AddEvent_Fault(e) ==
  /\ Len(events) < MaxEvents
  /\ events' = Append(events, e)
  /\ counter' = IF triggered THEN counter ELSE counter + 1
  /\ UNCHANGED triggered

\* add_event and trigger_event_fd
AddEvent(e) ==
  /\ Len(events) < MaxEvents
  /\ events' = Append(events, e)
  /\ counter' = IF triggered THEN counter ELSE counter + 1
  /\ triggered' = TRUE

\* The kernel completes the read, which takes the whole count.
CompleteRead ==
  /\ loop = "armed"
  /\ counter > 0
  /\ counter' = 0
  /\ loop' = "completed"
  /\ UNCHANGED <<consumer, items, status, hungUp, events, batch, triggered>>

WakeLoop_Fault ==
  /\ loop = "completed"
  /\ triggered' = triggered
  /\ batch' = events
  /\ events' = <<>>
  /\ loop' = "notifying"
  /\ UNCHANGED <<consumer, items, status, hungUp, counter>>

\* run_internal_loop resumes: the flag first, then the events move out.
WakeLoop ==
  /\ loop = "completed"
  /\ triggered' = FALSE
  /\ batch' = events
  /\ events' = <<>>
  /\ loop' = "notifying"
  /\ UNCHANGED <<consumer, items, status, hungUp, counter>>

\* All notified: the internal loop reads the descriptor again.
RearmRead ==
  /\ loop = "notifying"
  /\ batch = <<>>
  /\ loop' = "armed"
  /\ UNCHANGED <<consumer, items, status, hungUp, events, batch, triggered, counter>>

-----------------------------------------------------------------------------
(* async_queue and its consumer *)

AwaitItems_Fault(q, stored) ==
  IF items[q] > 0
    THEN /\ consumer' = [consumer EXCEPT ![q] = "writing"]
         /\ items' = [items EXCEPT ![q] = 0]
         /\ status' = [status EXCEPT ![q] = stored]
    ELSE /\ consumer' = [consumer EXCEPT ![q] = "waiting"]
         /\ UNCHANGED <<items, status>>

\* The consumer of q calls await_items with a stored status or without one.
\* With items it takes them all and starts to write; without, it consumes
\* the status, if any, looks again, and suspends.
AwaitItems(q, stored) ==
  IF items[q] > 0
    THEN /\ consumer' = [consumer EXCEPT ![q] = "writing"]
         /\ items' = [items EXCEPT ![q] = 0]
         /\ status' = [status EXCEPT ![q] = stored]
    ELSE /\ consumer' = [consumer EXCEPT ![q] = "waiting"]
         /\ status' = [status EXCEPT ![q] = FALSE]
         /\ UNCHANGED items

\* subscribe pushes the snapshot; the consumer takes it without waiting, and
\* leaves behind the event of the first push.
Open(q) ==
  /\ loop # "notifying"
  /\ consumer[q] = "unborn"
  /\ consumer' = [consumer EXCEPT ![q] = "writing"]
  /\ AddEvent(ItemsEvent(q))
  /\ UNCHANGED <<items, status, hungUp, batch, loop>>

PushOne_Fault(q) ==
  /\ items' = [items EXCEPT ![q] = @ + 1]
  /\ IF items[q] = 1 THEN AddEvent(ItemsEvent(q))
                     ELSE UNCHANGED <<events, triggered, counter>>

\* push: only an empty queue adds an event.
PushOne(q) ==
  /\ items' = [items EXCEPT ![q] = @ + 1]
  /\ IF items[q] = 0 THEN AddEvent(ItemsEvent(q))
                     ELSE UNCHANGED <<events, triggered, counter>>

\* A handler of the market pushes a message.
Push(q) ==
  /\ loop # "notifying"
  /\ consumer[q] \in {"waiting", "writing"}
  /\ items[q] < MaxItems
  /\ PushOne(q)
  /\ UNCHANGED <<consumer, status, hungUp, batch, loop>>

\* The consumer's write completes, and it asks for more.
WriteDone(q) ==
  /\ loop # "notifying"
  /\ consumer[q] = "writing"
  /\ AwaitItems(q, status[q])
  /\ UNCHANGED <<hungUp, events, batch, triggered, counter, loop>>

\* read_req ends and triggers the connection's signal.
HangUp(q) ==
  /\ loop # "notifying"
  /\ consumer[q] \in {"waiting", "writing"}
  /\ ~hungUp[q]
  /\ hungUp' = [hungUp EXCEPT ![q] = TRUE]
  /\ AddEvent(SignalEvent(q))
  /\ UNCHANGED <<consumer, items, status, batch, loop>>

-----------------------------------------------------------------------------
(* event_bus::notify, for the next event of the batch. *)

\* A suspended consumer resumes, a busy one finds the status later, and the
\* id of a destroyed queue is not registered any more.
NotifyItems(q) ==
  /\ CASE consumer[q] = "waiting" -> AwaitItems(q, FALSE)
       [] consumer[q] = "writing" -> /\ status' = [status EXCEPT ![q] = TRUE]
                                     /\ UNCHANGED <<consumer, items>>
       [] OTHER                   -> UNCHANGED <<consumer, items, status>>
  /\ UNCHANGED hungUp

\* on_connection resumes and destroys the request, its coroutine, and the
\* subscription and queue in it.
NotifySignal(q) ==
  /\ consumer' = [consumer EXCEPT ![q] = "gone"]
  /\ items' = [items EXCEPT ![q] = 0]
  /\ status' = [status EXCEPT ![q] = FALSE]
  /\ UNCHANGED hungUp

Notify ==
  /\ loop = "notifying"
  /\ batch # <<>>
  /\ batch' = Tail(batch)
  /\ \E q \in Queues :
       \/ Head(batch) = ItemsEvent(q) /\ NotifyItems(q)
       \/ Head(batch) = SignalEvent(q) /\ NotifySignal(q)
  /\ UNCHANGED <<events, triggered, counter, loop>>

-----------------------------------------------------------------------------
\* Every id of the model is used up and the loop waits for ever.
Idle ==
  /\ \A q \in Queues : consumer[q] = "gone"
  /\ loop = "armed" /\ counter = 0
  /\ UNCHANGED vars

Next ==
  \/ \E q \in Queues : Open(q) \/ Push(q) \/ WriteDone(q) \/ HangUp(q)
  \/ CompleteRead \/ WakeLoop \/ Notify \/ RearmRead
  \/ Idle

\* The kernel completes a read it can complete, and the loop goes on polling
\* and notifying.  Nothing is assumed of traders, handlers or writes.
Fairness == WF_vars(CompleteRead) /\ WF_vars(WakeLoop) /\ WF_vars(Notify) /\ WF_vars(RearmRead)

Spec == Init /\ [][Next]_vars /\ Fairness

-----------------------------------------------------------------------------
(* Properties. *)

\* Types; the flag keeps the descriptor's counter from passing one.
TypeOK ==
  /\ consumer \in [Queues -> {"unborn", "waiting", "writing", "gone"}]
  /\ items \in [Queues -> 0..MaxItems]
  /\ status \in [Queues -> BOOLEAN]
  /\ hungUp \in [Queues -> BOOLEAN]
  /\ events \in Seq(Event)
  /\ batch \in Seq(Event)
  /\ triggered \in BOOLEAN
  /\ counter \in 0..1
  /\ loop \in {"armed", "completed", "notifying"}

Pending(e) == e \in Members(events) \cup Members(batch)

\* The loop will take a turn: it is in one, or its read is complete, or the
\* read that is armed will complete.
Turning == loop # "armed" \/ counter > 0

\* No wakeup is lost: a consumer that sleeps beside items has an event under
\* way, and so has a connection that has ended; where events wait, the loop
\* will take a turn (async_queue.hpp:22-43, event_loop.cpp:33-44, 69-82).
NoLostWakeup ==
  /\ \A q \in Queues :
       /\ consumer[q] = "waiting" /\ items[q] > 0 => Pending(ItemsEvent(q))
       /\ hungUp[q] /\ consumer[q] # "gone" => Pending(SignalEvent(q))
  /\ events # <<>> => Turning

\* A consumer goes to sleep only after it has consumed the status of every
\* notification it had slept through; otherwise its next wait would return
\* at once for an event of the past (event_callback.cpp:26-29).
SleepsWithoutStatus ==
  \A q \in Queues : consumer[q] = "waiting" => ~status[q]

\* A sleeping consumer takes the items pushed to it, or its connection ends.
ItemsTaken ==
  \A q \in Queues :
    (consumer[q] = "waiting" /\ items[q] > 0) ~> (items[q] = 0)

\* A connection that has ended is torn down, so that the trader can
\* subscribe again.
TornDown == \A q \in Queues : hungUp[q] ~> consumer[q] = "gone"
=============================================================================
