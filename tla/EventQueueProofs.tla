-------------------------- MODULE EventQueueProofs --------------------------
(***************************************************************************)
(* No wakeup is lost, for any number of queues and any bounds.             *)
(***************************************************************************)
EXTENDS EventQueue, TLAPS

-----------------------------------------------------------------------------
(* The members of a queue of events. *)

\* add_event puts one event behind those that are there.
LEMMA AppendMembers ==
  ASSUME NEW s \in Seq(Event), NEW e \in Event
  PROVE  /\ Append(s, e) \in Seq(Event) /\ Append(s, e) # <<>>
         /\ Members(Append(s, e)) = Members(s) \cup {e}
<1>1. Append(s, e) \in Seq(Event) /\ Append(s, e) # <<>>
  OBVIOUS
<1>2. /\ DOMAIN s = 1..Len(s) /\ Len(s) \in Nat
      /\ DOMAIN Append(s, e) = 1..(Len(s) + 1)
      /\ \A k \in 1..Len(s) : Append(s, e)[k] = s[k]
      /\ Append(s, e)[Len(s) + 1] = e
  OBVIOUS
<1>3. Members(Append(s, e)) = Members(s) \cup {e}
  <2>1. 1..(Len(s) + 1) = 1..Len(s) \cup {Len(s) + 1}
    BY <1>2
  <2> QED BY <1>2, <2>1 DEF Members
<1> QED BY <1>1, <1>3

\* notify_events takes one event off, and keeps the others.
LEMMA TailMembers ==
  ASSUME NEW s \in Seq(Event), s # <<>>
  PROVE  /\ Head(s) \in Event /\ Tail(s) \in Seq(Event)
         /\ Members(s) \subseteq Members(Tail(s)) \cup {Head(s)}
<1>1. Head(s) \in Event /\ Tail(s) \in Seq(Event) /\ Len(s) \in Nat /\ Len(s) > 0
  OBVIOUS
<1>2. ASSUME NEW k \in DOMAIN s, k # 1
      PROVE  s[k] \in Members(Tail(s))
  <2>1. k - 1 \in DOMAIN Tail(s) /\ Tail(s)[k - 1] = s[k]
    BY <1>2
  <2> QED BY <2>1 DEF Members
<1> QED BY <1>1, <1>2 DEF Members

\* The queue that WakeLoop leaves behind holds nothing.
LEMMA EmptyMembers == <<>> \in Seq(Event) /\ Members(<<>>) = {}
BY DEF Members

-----------------------------------------------------------------------------
(* The inductive invariant: what the flag says of the descriptor and of the *)
(* loop, and the pending events of every queue.                             *)

FlagInv ==
  /\ batch # <<>> => loop = "notifying"
  /\ events # <<>> => triggered
  /\ triggered => counter = 1 \/ loop = "completed"
  /\ ~triggered => counter = 0 /\ loop # "completed"
  /\ loop = "completed" => counter = 0

PendingInv ==
  \A q \in Queues :
    /\ consumer[q] = "waiting" /\ items[q] > 0 => Pending(ItemsEvent(q))
    /\ hungUp[q] /\ consumer[q] # "gone" => Pending(SignalEvent(q))

Inv == TypeOK /\ FlagInv /\ PendingInv /\ SleepsWithoutStatus

\* Before the first subscription nothing is pending and nobody sleeps.
LEMMA InvInit == Init => Inv
<1> SUFFICES ASSUME Init PROVE Inv
  OBVIOUS
<1>1. TypeOK
  <2>1. 0 \in 0..MaxItems /\ 0 \in 0..1 /\ <<>> \in Seq(Event)
    BY QueueAssumption
  <2> QED BY <2>1 DEF Init, TypeOK
<1>2. FlagInv /\ PendingInv /\ SleepsWithoutStatus
  BY DEF Init, FlagInv, PendingInv, SleepsWithoutStatus
<1> QED BY <1>1, <1>2 DEF Inv

\* An added event is pending, nothing pending is lost, and the flag is set.
LEMMA AddEventStep ==
  ASSUME TypeOK, FlagInv, NEW e \in Event, AddEvent(e), loop' = loop, batch' = batch
  PROVE  /\ events' \in Seq(Event) /\ triggered' \in BOOLEAN /\ counter' \in 0..1
         /\ FlagInv'
         /\ \A f : Pending(f) => Pending(f)'
         /\ Pending(e)'
<1>1. /\ events' \in Seq(Event) /\ events' # <<>>
      /\ Members(events)' = Members(events) \cup {e}
  BY AppendMembers DEF TypeOK, AddEvent
<1>2. Members(batch)' = Members(batch)
  BY DEF Members
<1>3. triggered' = TRUE /\ counter' \in 0..1 /\ FlagInv'
  BY DEF TypeOK, AddEvent, FlagInv
<1> QED BY <1>1, <1>2, <1>3 DEF Pending

\* Steps that leave both queues of events alone leave the pending ones alone.
LEMMA PendingUnchanged ==
  ASSUME UNCHANGED <<events, batch>>
  PROVE  \A f : Pending(f)' <=> Pending(f)
BY DEF Pending, Members

\* The two callbacks are events, and no two of them are the same.
LEMMA EventNames ==
  ASSUME NEW q \in Queues, NEW r \in Queues
  PROVE  /\ ItemsEvent(q) \in Event /\ SignalEvent(q) \in Event
         /\ ItemsEvent(q) # SignalEvent(r)
         /\ ItemsEvent(q) = ItemsEvent(r) => q = r
         /\ SignalEvent(q) = SignalEvent(r) => q = r
BY DEF ItemsEvent, SignalEvent, Event

\* Where a consumer looks for items it takes them, or there are none.
LEMMA AwaitItemsStep ==
  ASSUME TypeOK, NEW q \in Queues, NEW stored \in BOOLEAN, AwaitItems(q, stored)
  PROVE  /\ consumer' \in [Queues -> {"unborn", "waiting", "writing", "gone"}]
         /\ items' \in [Queues -> 0..MaxItems]
         /\ status' \in [Queues -> BOOLEAN]
         /\ \A r \in Queues : r # q => /\ consumer'[r] = consumer[r]
                                       /\ items'[r] = items[r]
                                       /\ status'[r] = status[r]
         /\ items'[q] = 0
         /\ consumer'[q] \in {"waiting", "writing"}
         /\ consumer'[q] = "waiting" => ~status'[q]
<1>1. MaxItems \in Nat
  BY QueueAssumption
<1>2. items[q] \in Nat /\ 0 \in 0..MaxItems
  BY <1>1 DEF TypeOK
<1>3. CASE items[q] > 0
  <2>1. /\ consumer' = [consumer EXCEPT ![q] = "writing"]
        /\ items' = [items EXCEPT ![q] = 0]
        /\ status' = [status EXCEPT ![q] = stored]
    BY <1>3 DEF AwaitItems
  <2> QED BY <1>2, <2>1 DEF TypeOK
<1>4. CASE items[q] = 0
  <2>1. /\ consumer' = [consumer EXCEPT ![q] = "waiting"]
        /\ items' = items
        /\ status' = [status EXCEPT ![q] = FALSE]
    BY <1>4 DEF AwaitItems
  <2> QED BY <1>2, <1>4, <2>1 DEF TypeOK
<1> QED BY <1>2, <1>3, <1>4

-----------------------------------------------------------------------------
(* The actions of the handlers, which run while the loop polls. *)

\* A new consumer is writing the snapshot, and its first event is pending.
LEMMA OpenStep ==
  ASSUME Inv, NEW q \in Queues, Open(q)
  PROVE  Inv'
<1>1. /\ TypeOK /\ FlagInv /\ PendingInv /\ SleepsWithoutStatus
      /\ consumer' = [consumer EXCEPT ![q] = "writing"]
      /\ AddEvent(ItemsEvent(q))
      /\ UNCHANGED <<items, status, hungUp, batch, loop>>
      /\ consumer[q] = "unborn"
  BY DEF Inv, Open
<1>2. /\ events' \in Seq(Event) /\ triggered' \in BOOLEAN /\ counter' \in 0..1
      /\ FlagInv'
      /\ \A f : Pending(f) => Pending(f)'
  BY <1>1, AddEventStep, EventNames
<1>3. TypeOK'
  BY <1>1, <1>2 DEF TypeOK
<1>4. \A r \in Queues : consumer'[r] = IF r = q THEN "writing" ELSE consumer[r]
  BY <1>1 DEF TypeOK
<1>5. PendingInv'
  <2> SUFFICES ASSUME NEW r \in Queues
               PROVE  /\ consumer'[r] = "waiting" /\ items'[r] > 0 => Pending(ItemsEvent(r))'
                      /\ hungUp'[r] /\ consumer'[r] # "gone" => Pending(SignalEvent(r))'
    BY DEF PendingInv, ItemsEvent, SignalEvent
  <2>1. /\ consumer'[r] = "waiting" => consumer[r] = "waiting"
        /\ consumer'[r] # "gone" => consumer[r] # "gone"
        /\ items'[r] = items[r] /\ hungUp'[r] = hungUp[r]
    BY <1>1, <1>4
  <2> QED BY <1>1, <1>2, <2>1 DEF PendingInv
<1>6. SleepsWithoutStatus'
  BY <1>1, <1>4 DEF SleepsWithoutStatus
<1> QED BY <1>2, <1>3, <1>5, <1>6 DEF Inv

\* A push to an empty queue adds the event; where there are items already,
\* the event of the push that made the queue non-empty is still pending.
LEMMA PushStep ==
  ASSUME Inv, NEW q \in Queues, Push(q)
  PROVE  Inv'
<1>1. /\ TypeOK /\ FlagInv /\ PendingInv /\ SleepsWithoutStatus
      /\ items[q] < MaxItems
      /\ items' = [items EXCEPT ![q] = @ + 1]
      /\ UNCHANGED <<consumer, status, hungUp, batch, loop>>
  BY DEF Inv, Push, PushOne
<1>2. items' \in [Queues -> 0..MaxItems]
      /\ \A r \in Queues : r # q => items'[r] = items[r]
  BY <1>1, QueueAssumption DEF TypeOK
<1>3. /\ events' \in Seq(Event) /\ triggered' \in BOOLEAN /\ counter' \in 0..1
      /\ FlagInv'
      /\ \A f : Pending(f) => Pending(f)'
      /\ items[q] = 0 => Pending(ItemsEvent(q))'
  <2>1. CASE items[q] = 0
    <3>1. AddEvent(ItemsEvent(q))
      BY <2>1 DEF Push, PushOne
    <3> QED BY <1>1, <3>1, AddEventStep, EventNames
  <2>2. CASE items[q] # 0
    <3>1. UNCHANGED <<events, triggered, counter>>
      BY <2>2 DEF Push, PushOne
    <3> QED BY <1>1, <2>2, <3>1, PendingUnchanged DEF TypeOK, FlagInv
  <2> QED BY <2>1, <2>2
<1>4. TypeOK'
  BY <1>1, <1>2, <1>3 DEF TypeOK
<1>5. PendingInv'
  <2> SUFFICES ASSUME NEW r \in Queues
               PROVE  /\ consumer'[r] = "waiting" /\ items'[r] > 0 => Pending(ItemsEvent(r))'
                      /\ hungUp'[r] /\ consumer'[r] # "gone" => Pending(SignalEvent(r))'
    BY DEF PendingInv, ItemsEvent, SignalEvent
  <2>1. consumer'[r] = consumer[r] /\ hungUp'[r] = hungUp[r]
    BY <1>1
  <2>2. items[r] \in Nat /\ (items[r] > 0 \/ items[r] = 0)
    BY <1>1, QueueAssumption DEF TypeOK
  <2> QED BY <1>1, <1>2, <1>3, <2>1, <2>2 DEF PendingInv
<1>6. SleepsWithoutStatus'
  BY <1>1 DEF SleepsWithoutStatus
<1> QED BY <1>3, <1>4, <1>5, <1>6 DEF Inv

\* After its write a consumer either has no item left or writes again.
LEMMA WriteDoneStep ==
  ASSUME Inv, NEW q \in Queues, WriteDone(q)
  PROVE  Inv'
<1>1. /\ TypeOK /\ FlagInv /\ PendingInv /\ SleepsWithoutStatus
      /\ consumer[q] = "writing"
      /\ AwaitItems(q, status[q])
      /\ UNCHANGED <<hungUp, events, batch, triggered, counter, loop>>
      /\ status[q] \in BOOLEAN
  BY DEF Inv, WriteDone, TypeOK
<1>2. /\ consumer' \in [Queues -> {"unborn", "waiting", "writing", "gone"}]
      /\ items' \in [Queues -> 0..MaxItems]
      /\ status' \in [Queues -> BOOLEAN]
      /\ \A r \in Queues : r # q => /\ consumer'[r] = consumer[r]
                                    /\ items'[r] = items[r]
                                    /\ status'[r] = status[r]
      /\ items'[q] = 0
      /\ consumer'[q] = "waiting" => ~status'[q]
  BY <1>1, AwaitItemsStep
<1>3. TypeOK' /\ FlagInv'
  BY <1>1, <1>2 DEF TypeOK, FlagInv
<1>4. PendingInv'
  <2> SUFFICES ASSUME NEW r \in Queues
               PROVE  /\ consumer'[r] = "waiting" /\ items'[r] > 0 => Pending(ItemsEvent(r))'
                      /\ hungUp'[r] /\ consumer'[r] # "gone" => Pending(SignalEvent(r))'
    BY DEF PendingInv, ItemsEvent, SignalEvent
  <2>1. \A f : Pending(f)' <=> Pending(f)
    BY <1>1, PendingUnchanged
  <2>2. CASE r = q
    BY <1>1, <1>2, <2>1, <2>2 DEF PendingInv
  <2>3. CASE r # q
    BY <1>1, <1>2, <2>1, <2>3 DEF PendingInv
  <2> QED BY <2>2, <2>3
<1>5. SleepsWithoutStatus'
  BY <1>1, <1>2 DEF SleepsWithoutStatus
<1> QED BY <1>3, <1>4, <1>5 DEF Inv

\* The end of a connection is pending from the step that signals it.
LEMMA HangUpStep ==
  ASSUME Inv, NEW q \in Queues, HangUp(q)
  PROVE  Inv'
<1>1. /\ TypeOK /\ FlagInv /\ PendingInv /\ SleepsWithoutStatus
      /\ hungUp' = [hungUp EXCEPT ![q] = TRUE]
      /\ AddEvent(SignalEvent(q))
      /\ UNCHANGED <<consumer, items, status, batch, loop>>
  BY DEF Inv, HangUp
<1>2. /\ events' \in Seq(Event) /\ triggered' \in BOOLEAN /\ counter' \in 0..1
      /\ FlagInv'
      /\ \A f : Pending(f) => Pending(f)'
      /\ Pending(SignalEvent(q))'
  BY <1>1, AddEventStep, EventNames
<1>3. TypeOK'
  BY <1>1, <1>2 DEF TypeOK
<1>4. PendingInv'
  <2> SUFFICES ASSUME NEW r \in Queues
               PROVE  /\ consumer'[r] = "waiting" /\ items'[r] > 0 => Pending(ItemsEvent(r))'
                      /\ hungUp'[r] /\ consumer'[r] # "gone" => Pending(SignalEvent(r))'
    BY DEF PendingInv, ItemsEvent, SignalEvent
  <2>1. r # q => hungUp'[r] = hungUp[r]
    BY <1>1 DEF TypeOK
  <2> QED BY <1>1, <1>2, <2>1 DEF PendingInv
<1>5. SleepsWithoutStatus'
  BY <1>1 DEF SleepsWithoutStatus
<1> QED BY <1>2, <1>3, <1>4, <1>5 DEF Inv

-----------------------------------------------------------------------------
(* The actions of the loop and of the kernel. *)

\* The events move out whole, so all of them stay pending.
LEMMA WakeLoopStep ==
  ASSUME Inv, WakeLoop
  PROVE  Inv'
<1>1. /\ TypeOK /\ FlagInv /\ PendingInv /\ SleepsWithoutStatus
      /\ loop = "completed" /\ loop' = "notifying" /\ triggered' = FALSE
      /\ batch' = events /\ events' = <<>>
      /\ UNCHANGED <<consumer, items, status, hungUp, counter>>
  BY DEF Inv, WakeLoop
<1>2. batch = <<>> /\ counter = 0
  BY <1>1 DEF FlagInv
<1>3. TypeOK'
  BY <1>1, EmptyMembers DEF TypeOK
<1>4. FlagInv'
  BY <1>1, <1>2 DEF FlagInv
<1>5. \A f : Pending(f) => Pending(f)'
  BY <1>1, <1>2, EmptyMembers DEF Pending, Members
<1>6. PendingInv'
  BY <1>1, <1>5 DEF PendingInv, ItemsEvent, SignalEvent
<1>7. SleepsWithoutStatus'
  BY <1>1 DEF SleepsWithoutStatus
<1> QED BY <1>3, <1>4, <1>6, <1>7 DEF Inv

\* Notifying takes one event off the batch, and the callback it names leaves
\* its consumer without need of that event.
LEMMA NotifyStep ==
  ASSUME Inv, Notify
  PROVE  Inv'
<1>1. /\ TypeOK /\ FlagInv /\ PendingInv /\ SleepsWithoutStatus
      /\ loop = "notifying" /\ batch # <<>> /\ batch' = Tail(batch)
      /\ UNCHANGED <<events, triggered, counter, loop>>
  BY DEF Inv, Notify
<1>2. PICK q \in Queues : \/ Head(batch) = ItemsEvent(q) /\ NotifyItems(q)
                          \/ Head(batch) = SignalEvent(q) /\ NotifySignal(q)
  BY DEF Notify
<1>3. /\ batch' \in Seq(Event)
      /\ Members(batch) \subseteq Members(batch)' \cup {Head(batch)}
  BY <1>1, TailMembers DEF TypeOK, Members
<1>4. \A f : Pending(f) /\ f # Head(batch) => Pending(f)'
  BY <1>1, <1>3 DEF Pending, Members
<1>5. FlagInv'
  BY <1>1 DEF FlagInv
<1>6. hungUp' = hungUp
  BY <1>2 DEF NotifyItems, NotifySignal
<1>7. /\ consumer' \in [Queues -> {"unborn", "waiting", "writing", "gone"}]
      /\ items' \in [Queues -> 0..MaxItems]
      /\ status' \in [Queues -> BOOLEAN]
      /\ \A r \in Queues : r # q => /\ consumer'[r] = consumer[r]
                                    /\ items'[r] = items[r]
                                    /\ status'[r] = status[r]
      /\ consumer'[q] = "waiting" => ~status'[q] /\ items'[q] = 0
      /\ Head(batch) = SignalEvent(q) => consumer'[q] = "gone"
      /\ consumer[q] = "gone" => consumer'[q] = "gone"
  <2>1. CASE Head(batch) = SignalEvent(q) /\ NotifySignal(q)
    BY <1>1, <2>1, QueueAssumption DEF NotifySignal, TypeOK
  <2>2. CASE Head(batch) = ItemsEvent(q) /\ NotifyItems(q)
    <3>1. Head(batch) # SignalEvent(q)
      BY <2>2, EventNames
    <3>2. CASE consumer[q] = "waiting"
      <4>1. AwaitItems(q, FALSE)
        BY <2>2, <3>2 DEF NotifyItems
      <4>2. /\ consumer' \in [Queues -> {"unborn", "waiting", "writing", "gone"}]
            /\ items' \in [Queues -> 0..MaxItems]
            /\ status' \in [Queues -> BOOLEAN]
            /\ \A r \in Queues : r # q => /\ consumer'[r] = consumer[r]
                                          /\ items'[r] = items[r]
                                          /\ status'[r] = status[r]
            /\ items'[q] = 0
            /\ consumer'[q] = "waiting" => ~status'[q]
        BY <1>1, <4>1, AwaitItemsStep
      <4> QED BY <3>1, <3>2, <4>2
    <3>3. CASE consumer[q] = "writing"
      <4>1. status' = [status EXCEPT ![q] = TRUE] /\ UNCHANGED <<consumer, items>>
        BY <2>2, <3>3 DEF NotifyItems
      <4> QED BY <1>1, <3>1, <3>3, <4>1 DEF TypeOK
    <3>4. CASE consumer[q] \notin {"waiting", "writing"}
      <4>1. UNCHANGED <<consumer, items, status>>
        BY <2>2, <3>4 DEF NotifyItems
      <4> QED BY <1>1, <3>1, <3>4, <4>1 DEF TypeOK
    <3> QED BY <3>2, <3>3, <3>4
  <2> QED BY <1>2, <2>1, <2>2
<1>8. TypeOK'
  BY <1>1, <1>3, <1>6, <1>7 DEF TypeOK
<1>9. PendingInv'
  <2> SUFFICES ASSUME NEW r \in Queues
               PROVE  /\ consumer'[r] = "waiting" /\ items'[r] > 0 => Pending(ItemsEvent(r))'
                      /\ hungUp'[r] /\ consumer'[r] # "gone" => Pending(SignalEvent(r))'
    BY DEF PendingInv, ItemsEvent, SignalEvent
  <2>1. CASE r = q
    <3>1. ~(consumer'[r] = "waiting" /\ items'[r] > 0)
      BY <1>7, <2>1
    <3>2. ASSUME hungUp'[r], consumer'[r] # "gone"
          PROVE  Pending(SignalEvent(r))'
      <4>1. Pending(SignalEvent(r)) /\ SignalEvent(r) # Head(batch)
        BY <1>1, <1>6, <1>7, <2>1, <3>2 DEF PendingInv
      <4>2. \A f : Pending(f) /\ f # Head(batch) => Pending(f)'
        BY <1>4
      <4> QED BY <4>1, <4>2 DEF SignalEvent
    <3> QED BY <3>1, <3>2
  <2>2. CASE r # q
    <3>1. ItemsEvent(r) # Head(batch) /\ SignalEvent(r) # Head(batch)
      BY <1>2, <2>2, EventNames
    <3>2. consumer'[r] = consumer[r] /\ items'[r] = items[r] /\ hungUp'[r] = hungUp[r]
      BY <1>6, <1>7, <2>2
    <3> QED BY <1>1, <1>4, <3>1, <3>2 DEF PendingInv
  <2> QED BY <2>1, <2>2
<1>10. SleepsWithoutStatus'
  BY <1>1, <1>7 DEF SleepsWithoutStatus
<1> QED BY <1>5, <1>8, <1>9, <1>10 DEF Inv

\* Every step of the system keeps the invariant.
LEMMA InvStep == Inv /\ [Next]_vars => Inv'
<1> SUFFICES ASSUME Inv, [Next]_vars PROVE Inv'
  OBVIOUS
<1>1. ASSUME NEW q \in Queues, Open(q) \/ Push(q) \/ WriteDone(q) \/ HangUp(q)
      PROVE  Inv'
  BY <1>1, OpenStep, PushStep, WriteDoneStep, HangUpStep
<1>2. CASE CompleteRead
  <2>1. /\ TypeOK /\ FlagInv /\ PendingInv /\ SleepsWithoutStatus
        /\ loop = "armed" /\ counter > 0 /\ counter' = 0 /\ loop' = "completed"
        /\ UNCHANGED <<consumer, items, status, hungUp, events, batch, triggered>>
    BY <1>2 DEF Inv, CompleteRead
  <2>2. TypeOK' /\ FlagInv' /\ SleepsWithoutStatus'
    BY <2>1 DEF TypeOK, FlagInv, SleepsWithoutStatus
  <2>3. PendingInv'
    BY <2>1 DEF PendingInv, Pending, Members, ItemsEvent, SignalEvent
  <2> QED BY <2>2, <2>3 DEF Inv
<1>3. CASE WakeLoop
  BY <1>3, WakeLoopStep
<1>4. CASE Notify
  BY <1>4, NotifyStep
<1>5. CASE RearmRead
  <2>1. /\ TypeOK /\ FlagInv /\ PendingInv /\ SleepsWithoutStatus
        /\ loop = "notifying" /\ batch = <<>> /\ loop' = "armed"
        /\ UNCHANGED <<consumer, items, status, hungUp, events, batch, triggered, counter>>
    BY <1>5 DEF Inv, RearmRead
  <2>2. TypeOK' /\ FlagInv' /\ SleepsWithoutStatus'
    BY <2>1 DEF TypeOK, FlagInv, SleepsWithoutStatus
  <2>3. PendingInv'
    BY <2>1 DEF PendingInv, Pending, Members, ItemsEvent, SignalEvent
  <2> QED BY <2>2, <2>3 DEF Inv
<1>6. CASE Idle \/ UNCHANGED vars
  <2>1. /\ TypeOK /\ FlagInv /\ PendingInv /\ SleepsWithoutStatus
        /\ UNCHANGED <<consumer, items, status, hungUp, events, batch,
                      triggered, counter, loop>>
    BY <1>6 DEF Inv, Idle, vars
  <2>2. TypeOK' /\ FlagInv' /\ SleepsWithoutStatus'
    BY <2>1 DEF TypeOK, FlagInv, SleepsWithoutStatus
  <2>3. PendingInv'
    BY <2>1 DEF PendingInv, Pending, Members, ItemsEvent, SignalEvent
  <2> QED BY <2>2, <2>3 DEF Inv
<1> QED BY <1>1, <1>2, <1>3, <1>4, <1>5, <1>6 DEF Next

-----------------------------------------------------------------------------
(* Theorems of the specification. *)

\* The inductive invariant holds in every reachable state of the loop and of
\* its queues.
THEOREM QueueInvariant == Spec => []Inv
<1> QED BY InvInit, InvStep, PTL DEF Spec

\* Every variable keeps its type; in particular the flag of the loop keeps
\* the counter of the event descriptor at one (event_loop.cpp:33-39).
THEOREM QueueTypeCorrect == Spec => []TypeOK
<1>1. Inv => TypeOK
  BY DEF Inv
<1> QED BY <1>1, QueueInvariant, PTL

\* No wakeup is lost, for any number of subscriptions and any number of
\* items and events (async_queue.hpp:22-43, event_loop.cpp:33-44, 69-82).
THEOREM WakeupKept == Spec => []NoLostWakeup
<1>1. Inv => NoLostWakeup
  <2> SUFFICES ASSUME Inv PROVE NoLostWakeup
    OBVIOUS
  <2>1. PendingInv /\ FlagInv
    BY DEF Inv
  <2>2. events # <<>> => Turning
    <3>1. triggered \in BOOLEAN
      BY DEF Inv, TypeOK
    <3> QED BY <2>1, <3>1 DEF FlagInv, Turning
  <2> QED BY <2>1, <2>2 DEF PendingInv, NoLostWakeup
<1> QED BY <1>1, QueueInvariant, PTL

\* No consumer sleeps with a stored status (event_callback.cpp:26-29).
THEOREM StatusConsumed == Spec => []SleepsWithoutStatus
<1>1. Inv => SleepsWithoutStatus
  BY DEF Inv
<1> QED BY <1>1, QueueInvariant, PTL
=============================================================================
