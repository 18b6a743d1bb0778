------------------------- MODULE TenantOutboxProofs -------------------------
(***************************************************************************)
(* Machine-checked proofs about TenantOutbox, for any sets of events,      *)
(* messages and concurrent calls, any endpoints, and with or without       *)
(* faults.                                                                 *)
(***************************************************************************)
EXTENDS TenantOutbox, TLAPS

(* A row that is inserted or attempted keeps the loop's order well typed.  *)
LEMMA ToBackType ==
  ASSUME TypeOK, NEW k \in Events
  PROVE  /\ ToBack(k) \subseteq Events \X Events
         /\ Without(k) \subseteq Events \X Events
BY DEF TypeOK, ToBack, Without

(* Marking a row, whatever came of the attempt, keeps the types.           *)
LEMMA MarkType ==
  ASSUME TypeOK, NEW k \in Events, NEW delivered \in BOOLEAN,
         Mark(k, delivered)
  PROVE  /\ row' \in [Events -> {"absent", "raw", "queued", "done"}]
         /\ tried' \in [Events -> BOOLEAN]
         /\ older' \subseteq Events \X Events
<1>1. ToBack(k) \subseteq Events \X Events
  BY ToBackType
<1>2. QED
  BY <1>1 DEF Mark, TypeOK

(* A call that is not idle has a key and a header of the right kind, and    *)
(* moving it on keeps both.                                                *)
LEMMA GotoType ==
  ASSUME TypeOK, NEW s \in Senders, call[s] # Idle,
         NEW pc \in {"reserve", "store", "release", "queue", "post", "confirm",
                     "fail"},
         Goto(s, pc)
  PROVE  call' \in [Senders -> {Idle} \cup Call]
BY DEF TypeOK, Goto, Call

(* A call whose pc is not "idle" is a proper call.                         *)
LEMMA BusyCall ==
  ASSUME TypeOK, NEW s \in Senders, call[s].pc # "idle"
  PROVE  /\ call[s] # Idle
         /\ call[s] \in Call
         /\ call[s].key \in Events
         /\ call[s].header \in Headers
BY DEF TypeOK, Idle, Call

(* An event the tenant takes is entered under its header.                  *)
LEMMA TakeType ==
  ASSUME TypeOK, NEW k \in Events, NEW h \in Headers, Take(k, h)
  PROVE  /\ received' \subseteq Events
         /\ ledger' \in [Headers -> Events \cup {Nothing}]
BY DEF TypeOK, Take

(* Every variable keeps its type.                                          *)
THEOREM OutboxTypeCorrect == Spec => []TypeOK
<1>1. Init => TypeOK
  BY DEF Init, TypeOK, Idle
<1>2. TypeOK /\ [Next]_vars => TypeOK'
  <2> SUFFICES ASSUME TypeOK, [Next]_vars
               PROVE  TypeOK'
    OBVIOUS
  <2>1. ASSUME NEW u \in Updates, Publish(u)
        PROVE  TypeOK'
    <3>1. u \in Events /\ u \in Headers /\ u \in Senders
      BY DEF Events, Headers, Senders
    <3>2. ToBack(u) \subseteq Events \X Events
      BY <3>1, ToBackType
    <3>3. QED
      BY <2>1, <3>1, <3>2 DEF Publish, TypeOK, Call
  <2>2. ASSUME NEW p \in Posters, ItemStep(p)
        PROVE  TypeOK'
    <3>0. p \in Senders
      BY DEF Senders
    <3>1. ASSUME NEW i \in Items, ItemArrives(p, i)
          PROVE  TypeOK'
      <4>1. i \in Events /\ MessageOf[i] \in Headers
        BY DEF Events, Headers, Messages
      <4>2. QED
        BY <3>0, <3>1, <4>1 DEF ItemArrives, TypeOK, Call
    <3>2. ASSUME ItemReserve(p)
          PROVE  TypeOK'
      <4>1. call[p].key \in Events /\ call[p] # Idle
        BY <3>0, <3>2, BusyCall DEF ItemReserve
      <4>2. ToBack(call[p].key) \subseteq Events \X Events
        BY <4>1, ToBackType
      <4>3. /\ row' \in [Events -> {"absent", "raw", "queued", "done"}]
            /\ tried' \in [Events -> BOOLEAN]
            /\ older' \subseteq Events \X Events
        BY <3>2, <4>1, <4>2 DEF ItemReserve, TypeOK
      <4>4. Goto(p, "store") \/ Goto(p, "queue") \/ Return(p)
        BY <3>2 DEF ItemReserve
      <4>5. call' \in [Senders -> {Idle} \cup Call]
        BY <3>0, <4>1, <4>4, GotoType DEF Return, TypeOK
      <4>6. QED
        BY <3>2, <4>3, <4>5 DEF ItemReserve, TypeOK
    <3>3. ASSUME ItemStore(p)
          PROVE  TypeOK'
      <4>1. call[p] # Idle
        BY <3>3 DEF ItemStore, Idle
      <4>2. call' \in [Senders -> {Idle} \cup Call]
        BY <3>0, <3>3, <4>1, GotoType DEF ItemStore
      <4>3. QED
        BY <3>3, <4>2 DEF ItemStore, TypeOK
    <3>4. ASSUME ItemRelease(p)
          PROVE  TypeOK'
      <4>1. call[p].key \in Events
        BY <3>0, <3>4, BusyCall DEF ItemRelease
      <4>2. Without(call[p].key) \subseteq Events \X Events
        BY <4>1, ToBackType
      <4>3. QED
        BY <3>0, <3>4, <4>1, <4>2 DEF ItemRelease, Return, TypeOK
    <3>5. ASSUME ItemQueue(p)
          PROVE  TypeOK'
      <4>1. call[p].key \in Events /\ call[p] # Idle
        BY <3>0, <3>5, BusyCall DEF ItemQueue
      <4>2. Goto(p, "confirm") \/ Goto(p, "post")
        BY <3>5 DEF ItemQueue
      <4>3. call' \in [Senders -> {Idle} \cup Call]
        BY <3>0, <4>1, <4>2, GotoType
      <4>4. row' \in [Events -> {"absent", "raw", "queued", "done"}]
        BY <3>5, <4>1 DEF ItemQueue, TypeOK
      <4>5. QED
        BY <3>5, <4>3, <4>4 DEF ItemQueue, TypeOK
    <3>6. QED
      BY <2>2, <3>1, <3>2, <3>3, <3>4, <3>5 DEF ItemStep
  <2>3. ASSUME LoopStep
        PROVE  TypeOK'
    <3>1. ASSUME LoopSelect
          PROVE  TypeOK'
      BY <3>1 DEF LoopSelect, Due, TypeOK
    <3>2. ASSUME NEW k \in Events, LoopTake(k)
          PROVE  TypeOK'
      <4>1. k \in Headers /\ Loop \in Senders
        BY DEF Headers, Senders
      <4>2. QED
        BY <3>2, <4>1 DEF LoopTake, TypeOK, Call
    <3>3. QED
      BY <2>3, <3>1, <3>2 DEF LoopStep
  <2>4. ASSUME NEW s \in Senders, PostStep(s)
        PROVE  TypeOK'
    <3>1. ASSUME DeliverSucceeds(s) \/ AnswerLost(s)
          PROVE  TypeOK'
      <4>1. /\ call[s] # Idle
            /\ call[s].key \in Events
            /\ call[s].header \in Headers
        BY <3>1, BusyCall DEF DeliverSucceeds, AnswerLost
      <4>2. Take(call[s].key, call[s].header) \/ UNCHANGED <<ledger, received>>
        BY <3>1 DEF DeliverSucceeds, AnswerLost
      <4>3. call' \in [Senders -> {Idle} \cup Call]
        BY <3>1, <4>1, GotoType DEF DeliverSucceeds, AnswerLost
      <4>4. /\ received' \subseteq Events
            /\ ledger' \in [Headers -> Events \cup {Nothing}]
        BY <4>1, <4>2, TakeType DEF TypeOK
      <4>5. QED
        BY <3>1, <4>3, <4>4 DEF DeliverSucceeds, AnswerLost, TypeOK
    <3>2. ASSUME TenantRefuses(s)
          PROVE  TypeOK'
      <4>1. call[s] # Idle
        BY <3>2 DEF TenantRefuses, Idle
      <4>2. call' \in [Senders -> {Idle} \cup Call]
        BY <3>2, <4>1, GotoType DEF TenantRefuses
      <4>3. QED
        BY <3>2, <4>2 DEF TenantRefuses, TypeOK
    <3>3. ASSUME MarkDelivered(s) \/ MarkFailure(s)
          PROVE  TypeOK'
      <4>1. call[s].key \in Events
        BY <3>3, BusyCall DEF MarkDelivered, MarkFailure
      <4>2. Mark(call[s].key, TRUE) \/ Mark(call[s].key, FALSE)
        BY <3>3 DEF MarkDelivered, MarkFailure
      <4>3. /\ row' \in [Events -> {"absent", "raw", "queued", "done"}]
            /\ tried' \in [Events -> BOOLEAN]
            /\ older' \subseteq Events \X Events
        BY <4>1, <4>2, MarkType
      <4>4. QED
        BY <3>3, <4>3 DEF MarkDelivered, MarkFailure, Return, TypeOK
    <3>4. ASSUME Crash(s)
          PROVE  TypeOK'
      BY <3>4 DEF Crash, Return, TypeOK
    <3>5. QED
      BY <2>4, <3>1, <3>2, <3>3, <3>4 DEF PostStep
  <2>5. CASE UNCHANGED vars
    BY <2>5 DEF vars, TypeOK
  <2>6. QED
    BY <2>1, <2>2, <2>3, <2>4, <2>5 DEF Next
<1>3. QED
  BY <1>1, <1>2, PTL DEF Spec

-----------------------------------------------------------------------------
(* The invariant behind DeliveredWasReceived: a call that is about to set   *)
(* delivered_at has had its event taken, or there was no one to take it.    *)
Answered(k) == k \in received \/ Endpoint[k] = "unset"

ConfirmsAreAnswered ==
    \A s \in Senders : call[s].pc = "confirm" => Answered(call[s].key)

DeliveryInv == TypeOK /\ DeliveredWasReceived /\ ConfirmsAreAnswered

(* What the tenant has taken stays taken, so an answer is never undone.     *)
LEMMA ReceivedGrows ==
  ASSUME [Next]_vars
  PROVE  received \subseteq received'
BY DEF Next, Publish, ItemStep, ItemArrives, ItemReserve, ItemStore,
   ItemRelease, ItemQueue, LoopStep, LoopSelect, LoopTake, PostStep,
   DeliverSucceeds, AnswerLost, TenantRefuses, MarkDelivered,
   MarkFailure, Crash, Take, vars

(* A row becomes done only by the mark of a call that had its answer.      *)
LEMMA DoneByMark ==
  ASSUME TypeOK, [Next]_vars, NEW k \in Events,
         row'[k] = "done", row[k] # "done"
  PROVE  \E s \in Senders : call[s].pc = "confirm" /\ call[s].key = k
<1>1. ~ \E u \in Updates : Publish(u)
  <2> SUFFICES ASSUME NEW u \in Updates, Publish(u)
               PROVE  FALSE
    OBVIOUS
  <2>1. QED
    BY DEF Publish, TypeOK, Events
<1>2. ~ \E p \in Posters : ItemStep(p)
  <2> SUFFICES ASSUME NEW p \in Posters, ItemStep(p)
               PROVE  FALSE
    OBVIOUS
  <2>1. row'[k] = row[k] \/ row'[k] \in {"raw", "absent", "queued"}
    BY DEF ItemStep, ItemArrives, ItemReserve, ItemStore, ItemRelease,
       ItemQueue, TypeOK
  <2>2. QED
    BY <2>1
<1>3. ~ LoopStep
  BY DEF LoopStep, LoopSelect, LoopTake
<1>4. ~ UNCHANGED vars
  BY DEF vars
<1>5. PICK s \in Senders : PostStep(s)
  BY <1>1, <1>2, <1>3, <1>4 DEF Next
<1>6. MarkDelivered(s) \/ MarkFailure(s)
  BY <1>5 DEF PostStep, DeliverSucceeds, AnswerLost, TenantRefuses, Crash
<1>7. ~ MarkFailure(s)
  BY DEF MarkFailure, Mark, TypeOK
<1>8. MarkDelivered(s) /\ call[s].key = k
  BY <1>6, <1>7 DEF MarkDelivered, Mark, TypeOK
<1>9. QED
  BY <1>8 DEF MarkDelivered

(* A call comes to confirm only by a step that answered for its event.     *)
LEMMA ConfirmByAnswer ==
  ASSUME TypeOK, [Next]_vars, NEW s \in Senders, call'[s].pc = "confirm"
  PROVE  \/ call[s].pc = "confirm" /\ call'[s].key = call[s].key
         \/ Answered(call[s].key)'
<1>0. \A pc \in STRING, t \in Senders : Goto(t, pc) =>
          \/ call'[s] = call[s]
          \/ s = t /\ call'[s] = [call[s] EXCEPT !.pc = pc]
  BY DEF Goto, TypeOK
<1>1. ASSUME NEW u \in Updates, Publish(u)
      PROVE  call[s].pc = "confirm" /\ call'[s].key = call[s].key
  <2>1. call'[s] = call[s] \/ call'[s].pc = "post"
    BY <1>1 DEF Publish, TypeOK
  <2>2. QED
    BY <2>1
<1>2. ASSUME NEW p \in Posters, ItemStep(p)
      PROVE  \/ call[s].pc = "confirm" /\ call'[s].key = call[s].key
             \/ Answered(call[s].key)'
  <2>1. CASE ItemQueue(p)
    <3>1. CASE Endpoint[call[p].key] = "unset" /\ Goto(p, "confirm") /\ s = p
      <4>1. call'[s].key = call[s].key
        BY <3>1, <2>1, BusyCall DEF Goto, TypeOK, Call, ItemQueue, Senders
      <4>2. QED
        BY <3>1, <4>1 DEF Answered
    <3>2. CASE call'[s] = call[s]
      BY <3>2
    <3>3. CASE Goto(p, "post") /\ s = p
      <4>1. call'[s].pc = "post"
        BY <3>3, <2>1, BusyCall DEF Goto, TypeOK, Call, ItemQueue, Senders
      <4>2. QED
        BY <4>1
    <3>4. QED
      BY <2>1, <3>1, <3>2, <3>3 DEF ItemQueue, Goto, TypeOK
  <2>2. CASE ~ ItemQueue(p)
    <3>1. call'[s] = call[s]
          \/ call'[s].pc \in {"reserve", "store", "release", "queue", "idle"}
      BY <1>2, <2>2, BusyCall DEF ItemStep, ItemArrives, ItemReserve,
         ItemStore, ItemRelease, Goto, Return, Idle, TypeOK, Call, Senders
    <3>2. QED
      BY <3>1
  <2>3. QED
    BY <2>1, <2>2
<1>3. ASSUME LoopStep
      PROVE  call[s].pc = "confirm" /\ call'[s].key = call[s].key
  <2>1. call'[s] = call[s] \/ call'[s].pc = "post"
    BY <1>3 DEF LoopStep, LoopSelect, LoopTake, TypeOK
  <2>2. QED
    BY <2>1
<1>4. ASSUME NEW t \in Senders, PostStep(t)
      PROVE  \/ call[s].pc = "confirm" /\ call'[s].key = call[s].key
             \/ Answered(call[s].key)'
  <2>1. CASE DeliverSucceeds(t)
    <3>1. CASE s = t
      <4>1. call'[s].key = call[s].key
        BY <3>1, <2>1, BusyCall
           DEF Goto, TypeOK, Call, DeliverSucceeds
      <4>2. call[s].key \in received' \/ Endpoint[call[s].key] = "unset"
        BY <3>1, <2>1 DEF DeliverSucceeds, Take
      <4>3. QED
        BY <4>1, <4>2 DEF Answered
    <3>2. CASE s # t
      BY <3>2, <2>1 DEF Goto, TypeOK, DeliverSucceeds
    <3>3. QED
      BY <3>1, <3>2
  <2>2. CASE AnswerLost(t) \/ TenantRefuses(t)
    <3>1. call'[s] = call[s] \/ call'[s].pc = "fail"
      BY <2>2, BusyCall DEF AnswerLost, TenantRefuses, Goto, TypeOK, Call
    <3>2. QED
      BY <3>1
  <2>3. CASE MarkDelivered(t) \/ MarkFailure(t) \/ Crash(t)
    <3>1. call'[s] = call[s] \/ call'[s] = Idle
      BY <2>3 DEF MarkDelivered, MarkFailure, Crash, Return, TypeOK
    <3>2. QED
      BY <3>1 DEF Idle
  <2>4. QED
    BY <1>4, <2>1, <2>2, <2>3 DEF PostStep
<1>5. CASE UNCHANGED vars
  BY <1>5 DEF vars
<1>6. QED
  BY <1>1, <1>2, <1>3, <1>4, <1>5 DEF Next

(* The two conjuncts are inductive together: a mark is the only step that   *)
(* makes a row done, and an answer the only one that brings a call to it.  *)
LEMMA DeliveryInvHolds == Spec => []DeliveryInv
<1>1. Init => DeliveryInv
  <2> SUFFICES ASSUME Init
               PROVE  DeliveryInv
    OBVIOUS
  <2>1. TypeOK
    BY DEF Init, TypeOK, Idle
  <2>2. DeliveredWasReceived /\ ConfirmsAreAnswered
    BY DEF Init, Idle, DeliveredWasReceived, ConfirmsAreAnswered
  <2>3. QED
    BY <2>1, <2>2 DEF DeliveryInv
<1>2. DeliveryInv /\ TypeOK' /\ [Next]_vars => DeliveryInv'
  <2> SUFFICES ASSUME DeliveryInv, TypeOK', [Next]_vars
               PROVE  DeliveryInv'
    OBVIOUS
  <2> USE DEF DeliveryInv
  <2>1. received \subseteq received'
    BY ReceivedGrows
  <2>2. DeliveredWasReceived'
    <3> SUFFICES ASSUME NEW k \in Events, row'[k] = "done"
                 PROVE  k \in received' \/ Endpoint[k] = "unset"
      BY DEF DeliveredWasReceived
    <3>1. CASE row[k] = "done"
      BY <3>1, <2>1 DEF DeliveredWasReceived
    <3>2. CASE row[k] # "done"
      <4>1. PICK s \in Senders : call[s].pc = "confirm" /\ call[s].key = k
        BY <3>2, DoneByMark
      <4>2. QED
        BY <4>1, <2>1 DEF ConfirmsAreAnswered, Answered
    <3>3. QED
      BY <3>1, <3>2
  <2>3. ConfirmsAreAnswered'
    <3> SUFFICES ASSUME NEW s \in Senders, call'[s].pc = "confirm"
                 PROVE  Answered(call[s].key)'
      BY DEF ConfirmsAreAnswered, Answered
    <3>1. QED
      BY <2>1, ConfirmByAnswer DEF ConfirmsAreAnswered, Answered
  <2>4. QED
    BY <2>2, <2>3
<1>3. QED
  BY <1>1, <1>2, OutboxTypeCorrect, PTL DEF Spec

(* delivered_at is only ever set for an event the tenant has taken, or that *)
(* had no endpoint: however the calls and the loop race to post one event   *)
(* and wherever they die (markDelivered is only reached from a 2xx or from  *)
(* an unset webhook_url).                                                   *)
THEOREM DeliveriesAreReceived == Spec => []DeliveredWasReceived
<1>1. DeliveryInv => DeliveredWasReceived
  BY DEF DeliveryInv
<1>2. QED
  BY <1>1, DeliveryInvHolds, PTL

-----------------------------------------------------------------------------
(* The invariant behind DeliveredIsFinal: an attempt has been counted on    *)
(* every delivered row, and that is what the release asks about.            *)
DeliveredWasTried == \A k \in Events : row[k] = "done" => tried[k]

(* No step takes a counted attempt back from a row that stays, nor takes a  *)
(* row with one off the table.                                             *)
LEMMA TriedRowsStay ==
  ASSUME TypeOK, [Next]_vars, NEW k \in Events, row[k] # "absent", tried[k]
  PROVE  /\ tried'[k]
         /\ row[k] = "done" => row'[k] = "done"
<1>1. ASSUME NEW u \in Updates, Publish(u)
      PROVE  tried'[k] = tried[k] /\ row'[k] = row[k]
  <2>1. u \in Events /\ row[u] = "absent"
    BY <1>1 DEF Publish, Events
  <2>2. QED
    BY <1>1, <2>1 DEF Publish, TypeOK
<1>2. ASSUME NEW p \in Posters, ItemStep(p)
      PROVE  /\ tried'[k]
             /\ row[k] = "done" => row'[k] = "done"
  <2>1. CASE ItemReserve(p)
    BY <2>1 DEF ItemReserve, TypeOK
  <2>2. CASE ItemRelease(p)
    BY <2>2 DEF ItemRelease, TypeOK
  <2>3. CASE ItemQueue(p)
    BY <2>3 DEF ItemQueue, TypeOK
  <2>4. CASE ItemStore(p) \/ \E i \in Items : ItemArrives(p, i)
    BY <2>4 DEF ItemStore, ItemArrives
  <2>5. QED
    BY <1>2, <2>1, <2>2, <2>3, <2>4 DEF ItemStep
<1>3. ASSUME LoopStep
      PROVE  tried'[k] = tried[k] /\ row'[k] = row[k]
  BY <1>3 DEF LoopStep, LoopSelect, LoopTake
<1>4. ASSUME NEW s \in Senders, PostStep(s)
      PROVE  /\ tried'[k]
             /\ row[k] = "done" => row'[k] = "done"
  <2>1. CASE MarkDelivered(s) \/ MarkFailure(s)
    BY <2>1 DEF MarkDelivered, MarkFailure, Mark, TypeOK
  <2>2. CASE ~ (MarkDelivered(s) \/ MarkFailure(s))
    BY <1>4, <2>2 DEF PostStep, DeliverSucceeds, AnswerLost, TenantRefuses, Crash
  <2>3. QED
    BY <2>1, <2>2
<1>5. CASE UNCHANGED vars
  BY <1>5 DEF vars
<1>6. QED
  BY <1>1, <1>2, <1>3, <1>4, <1>5 DEF Next

(* A row is delivered by a mark, which counts its attempt.                  *)
LEMMA DoneIsCounted ==
  ASSUME TypeOK, DeliveredWasTried, [Next]_vars
  PROVE  DeliveredWasTried'
<1> SUFFICES ASSUME NEW k \in Events, row'[k] = "done"
             PROVE  tried'[k]
  BY DEF DeliveredWasTried
<1>1. CASE row[k] = "done"
  <2>1. row[k] # "absent" /\ tried[k]
    BY <1>1 DEF DeliveredWasTried
  <2>2. QED
    BY <2>1, TriedRowsStay
<1>2. CASE row[k] # "done"
  <2>1. ASSUME NEW u \in Updates, Publish(u) PROVE FALSE
    BY <1>2, <2>1 DEF Publish, TypeOK
  <2>2. ASSUME NEW p \in Posters, ItemStep(p) PROVE FALSE
    <3>1. row'[k] = row[k] \/ row'[k] \in {"raw", "absent", "queued"}
      BY <2>2 DEF ItemStep, ItemArrives, ItemReserve, ItemStore, ItemRelease,
         ItemQueue, TypeOK
    <3>2. QED
      BY <1>2, <3>1
  <2>3. ~ LoopStep /\ ~ UNCHANGED vars
    BY <1>2 DEF LoopStep, LoopSelect, LoopTake, vars
  <2>4. PICK s \in Senders : PostStep(s)
    BY <2>1, <2>2, <2>3 DEF Next
  <2>5. MarkDelivered(s) \/ MarkFailure(s)
    BY <1>2, <2>4 DEF PostStep, DeliverSucceeds, AnswerLost, TenantRefuses, Crash
  <2>6. QED
    BY <1>2, <2>5 DEF MarkDelivered, MarkFailure, Mark, TypeOK
<1>3. QED
  BY <1>1, <1>2

(* A delivered event is never taken off its record: of any calls with one  *)
(* item, the one that fails to store the boleto releases the row only while *)
(* no attempt is counted on it, and a failed attempt reopens nothing.       *)
THEOREM DeliveriesAreFinal == Spec => DeliveredIsFinal
<1>1. Init => DeliveredWasTried
  BY DEF Init, DeliveredWasTried
<1>2. TypeOK /\ DeliveredWasTried /\ [Next]_vars => DeliveredWasTried'
  BY DoneIsCounted
<1>3. TypeOK /\ DeliveredWasTried /\ [Next]_vars
         => [\A k \in Events : row[k] = "done" => row'[k] = "done"]_vars
  <2> SUFFICES ASSUME TypeOK, DeliveredWasTried, [Next]_vars,
                      NEW k \in Events, row[k] = "done"
               PROVE  row'[k] = "done"
    OBVIOUS
  <2>1. row[k] # "absent" /\ tried[k]
    BY DEF DeliveredWasTried
  <2>2. QED
    BY <2>1, TriedRowsStay
<1>4. QED
  BY <1>1, <1>2, <1>3, OutboxTypeCorrect, PTL DEF Spec, DeliveredIsFinal

-----------------------------------------------------------------------------
(* The invariant behind UpdatesProcessedOnce.  A post carries the event's   *)
(* own row id, or the bank's id of the message an item came in; so the     *)
(* tenant's record under a row id is that row's event, only items are ever *)
(* recorded under a message's id, and what it took of an update it recorded *)
(* under the update's id.                                                   *)
KeptHeader(c) == c.header = c.key \/ (c.key \in Items /\ c.header \in Messages)

HeadersAreKept == \A s \in Senders : call[s] # Idle => KeptHeader(call[s])

LedgerIsFaithful ==
    \A h \in Headers :
        ledger[h] # Nothing =>
            ledger[h] = h \/ (ledger[h] \in Items /\ h \in Messages)

UpdatesAreEntered == \A u \in Updates : u \in received => ledger[u] = u

LedgerInv == TypeOK /\ HeadersAreKept /\ LedgerIsFaithful /\ UpdatesAreEntered

(* A step moves a call on with its header, ends it, or begins one whose     *)
(* header is the event's own id or the id of the item's message.           *)
LEMMA HeadersStayKept ==
  ASSUME TypeOK, HeadersAreKept, [Next]_vars
  PROVE  HeadersAreKept'
<1> SUFFICES ASSUME NEW s \in Senders, call'[s] # Idle
             PROVE  KeptHeader(call[s])'
  BY DEF HeadersAreKept
<1>1. ASSUME NEW t \in Senders,
             NEW pc \in {"reserve", "store", "release", "queue", "post",
                         "confirm", "fail"},
             call[t] # Idle, Goto(t, pc)
      PROVE  KeptHeader(call[s])'
  <2>1. CASE s = t
    <3>1. call'[s].key = call[s].key /\ call'[s].header = call[s].header
      BY <1>1, <2>1 DEF Goto, TypeOK, Call
    <3>2. QED
      BY <1>1, <2>1, <3>1 DEF HeadersAreKept, KeptHeader
  <2>2. CASE s # t
    BY <1>1, <2>2 DEF Goto, TypeOK, HeadersAreKept, KeptHeader
  <2>3. QED
    BY <2>1, <2>2
<1>2. ASSUME NEW t \in Senders, Return(t)
      PROVE  KeptHeader(call[s])'
  BY <1>2 DEF Return, TypeOK, HeadersAreKept, KeptHeader
<1>3. ASSUME UNCHANGED call
      PROVE  KeptHeader(call[s])'
  BY <1>3 DEF HeadersAreKept, KeptHeader
<1>4. ASSUME NEW u \in Updates, Publish(u)
      PROVE  KeptHeader(call[s])'
  BY <1>4 DEF Publish, TypeOK, HeadersAreKept, KeptHeader, Senders
<1>5. ASSUME NEW p \in Posters, ItemStep(p)
      PROVE  KeptHeader(call[s])'
  <2>1. ASSUME NEW i \in Items, ItemArrives(p, i)
        PROVE  KeptHeader(call[s])'
    BY <2>1 DEF ItemArrives, TypeOK, HeadersAreKept, KeptHeader, Messages
  <2>2. CASE ItemReserve(p) \/ ItemStore(p) \/ ItemRelease(p) \/ ItemQueue(p)
    <3>1. p \in Senders /\ call[p] # Idle
      BY <2>2 DEF ItemReserve, ItemStore, ItemRelease, ItemQueue, Idle, Senders
    <3>2. \/ Return(p)
          \/ \E pc \in {"store", "release", "queue", "post", "confirm"} :
                Goto(p, pc)
      BY <2>2 DEF ItemReserve, ItemStore, ItemRelease, ItemQueue
    <3>3. QED
      BY <1>1, <1>2, <3>1, <3>2
  <2>3. QED
    BY <1>5, <2>1, <2>2 DEF ItemStep
<1>6. ASSUME LoopStep
      PROVE  KeptHeader(call[s])'
  BY <1>6 DEF LoopStep, LoopSelect, LoopTake, TypeOK, HeadersAreKept,
     KeptHeader
<1>7. ASSUME NEW t \in Senders, PostStep(t)
      PROVE  KeptHeader(call[s])'
  <2>1. CASE MarkDelivered(t) \/ MarkFailure(t) \/ Crash(t)
    BY <1>2, <2>1 DEF MarkDelivered, MarkFailure, Crash
  <2>2. CASE DeliverSucceeds(t) \/ AnswerLost(t) \/ TenantRefuses(t)
    <3>1. call[t].pc = "post" /\ (Goto(t, "confirm") \/ Goto(t, "fail"))
      BY <2>2 DEF DeliverSucceeds, AnswerLost, TenantRefuses
    <3>2. call[t] # Idle
      BY <3>1 DEF Idle
    <3>3. QED
      BY <1>1, <3>1, <3>2
  <2>3. QED
    BY <1>7, <2>1, <2>2 DEF PostStep
<1>8. QED
  BY <1>3, <1>4, <1>5, <1>6, <1>7 DEF Next, vars

(* The tenant's books change only when it takes the event of a call, under *)
(* the header that call carries.                                           *)
LEMMA LedgerByTake ==
  ASSUME TypeOK, [Next]_vars
  PROVE  \/ UNCHANGED <<ledger, received>>
         \/ \E s \in Senders : /\ call[s] # Idle
                               /\ call[s].key \in Events
                               /\ call[s].header \in Headers
                               /\ Take(call[s].key, call[s].header)
<1>1. \/ UNCHANGED <<ledger, received>>
      \/ \E s \in Senders : PostStep(s)
  BY DEF Next, Publish, ItemStep, ItemArrives, ItemReserve, ItemStore,
     ItemRelease, ItemQueue, LoopStep, LoopSelect, LoopTake, vars
<1>2. ASSUME NEW s \in Senders, PostStep(s)
      PROVE  \/ UNCHANGED <<ledger, received>>
             \/ call[s].pc = "post" /\ Take(call[s].key, call[s].header)
  BY <1>2 DEF PostStep, DeliverSucceeds, AnswerLost, TenantRefuses,
     MarkDelivered, MarkFailure, Crash
<1>3. QED
  BY <1>1, <1>2, BusyCall

(* A tenant that discards the headers it has seen processes each update it *)
(* was posted, and once: the notifying call and the loop post it under the *)
(* same X-Giga-Event-ID, the row's id, and nothing else is ever posted     *)
(* under that id.                                                          *)
THEOREM UpdatesAreProcessedOnce == Spec => []UpdatesProcessedOnce
<1>1. Init => LedgerInv
  <2> SUFFICES ASSUME Init
               PROVE  LedgerInv
    OBVIOUS
  <2>1. TypeOK
    BY DEF Init, TypeOK, Idle
  <2>2. HeadersAreKept /\ LedgerIsFaithful /\ UpdatesAreEntered
    BY DEF Init, HeadersAreKept, LedgerIsFaithful, UpdatesAreEntered
  <2>3. QED
    BY <2>1, <2>2 DEF LedgerInv
<1>2. LedgerInv /\ TypeOK' /\ [Next]_vars => LedgerInv'
  <2> SUFFICES ASSUME LedgerInv, TypeOK', [Next]_vars
               PROVE  LedgerInv'
    OBVIOUS
  <2> USE DEF LedgerInv
  <2>1. HeadersAreKept'
    BY HeadersStayKept
  <2>2. LedgerIsFaithful' /\ UpdatesAreEntered'
    <3>1. CASE UNCHANGED <<ledger, received>>
      BY <3>1 DEF LedgerIsFaithful, UpdatesAreEntered
    <3>2. ASSUME NEW s \in Senders, call[s] # Idle,
                 call[s].key \in Events, call[s].header \in Headers,
                 Take(call[s].key, call[s].header)
          PROVE  LedgerIsFaithful' /\ UpdatesAreEntered'
      <4> DEFINE k == call[s].key
                 h == call[s].header
      <4>1. h = k \/ (k \in Items /\ h \in Messages)
        BY <3>2 DEF HeadersAreKept, KeptHeader
      <4>2. \A g \in Headers : ledger'[g] = IF g = h /\ ledger[g] = Nothing
                                            THEN k ELSE ledger[g]
        BY <3>2 DEF Take, TypeOK
      <4>3. received' = received \cup {k}
        BY <3>2 DEF Take
      <4>4. k \in Events /\ h \in Headers
        BY <3>2
      <4> HIDE DEF k, h
      <4>5. LedgerIsFaithful'
        BY <4>1, <4>2 DEF LedgerIsFaithful
      <4>6. ASSUME NEW u \in Updates, u \in received'
            PROVE  ledger'[u] = u
        <5>1. /\ u \in Headers /\ u \in Events /\ u \notin Items
              /\ u # Nothing /\ u \notin Messages
          BY EventAssumption, MessageAssumption DEF Headers, Events
        <5>2. CASE u \in received
          BY <5>1, <5>2, <4>2 DEF UpdatesAreEntered
        <5>3. CASE u \notin received
          <6>1. u = k /\ h = u
            BY <4>1, <4>3, <4>6, <5>1, <5>3
          <6>2. ledger[u] = Nothing \/ ledger[u] = u
            BY <5>1 DEF LedgerIsFaithful
          <6>3. QED
            BY <4>2, <5>1, <6>1, <6>2
        <5>4. QED
          BY <5>2, <5>3
      <4>7. QED
        BY <4>5, <4>6 DEF UpdatesAreEntered
    <3>3. QED
      BY <3>1, <3>2, LedgerByTake
  <2>3. QED
    BY <2>1, <2>2
<1>3. LedgerInv => UpdatesProcessedOnce
  <2> SUFFICES ASSUME LedgerInv, NEW u \in Updates, u \in received
               PROVE  ProcessedUnder(u) = {u}
    BY DEF UpdatesProcessedOnce
  <2>1. u \in Headers /\ u \notin Items /\ u # Nothing
    BY EventAssumption DEF Headers, Events
  <2>2. ledger[u] = u
    BY DEF LedgerInv, UpdatesAreEntered
  <2>3. \A h \in Headers : ledger[h] = u => h = u
    BY <2>1 DEF LedgerInv, LedgerIsFaithful
  <2>4. QED
    BY <2>1, <2>2, <2>3 DEF ProcessedUnder
<1>4. QED
  BY <1>1, <1>2, <1>3, OutboxTypeCorrect, PTL DEF Spec

-----------------------------------------------------------------------------
(* The queue implements AtLeastOnce, as far as safety goes.  A poster works *)
(* on items only, so that no reservation or release touches an update's row. *)
PostersKeepItems ==
    \A p \in Posters : call[p] # Idle => call[p].key \in Items

LEMMA PostersStayOnItems ==
  ASSUME TypeOK, PostersKeepItems, [Next]_vars
  PROVE  PostersKeepItems'
<1> SUFFICES ASSUME NEW p \in Posters, call'[p] # Idle
             PROVE  call'[p].key \in Items
  BY DEF PostersKeepItems
<1>1. p \in Senders /\ p \notin Updates /\ p # Loop
  BY SenderAssumption DEF Senders
<1>2. ASSUME NEW t \in Senders,
             NEW pc \in {"reserve", "store", "release", "queue", "post",
                         "confirm", "fail"},
             call[t] # Idle, Goto(t, pc)
      PROVE  call'[p].key \in Items
  <2>1. CASE p = t
    <3>1. call'[p].key = call[p].key
      BY <1>1, <1>2, <2>1 DEF Goto, TypeOK, Call
    <3>2. QED
      BY <1>2, <2>1, <3>1 DEF PostersKeepItems
  <2>2. CASE p # t
    BY <1>1, <1>2, <2>2 DEF Goto, TypeOK, PostersKeepItems
  <2>3. QED
    BY <2>1, <2>2
<1>3. ASSUME NEW t \in Senders, Return(t)
      PROVE  call'[p].key \in Items
  BY <1>1, <1>3 DEF Return, TypeOK, PostersKeepItems
<1>4. ASSUME UNCHANGED call
      PROVE  call'[p].key \in Items
  BY <1>4 DEF PostersKeepItems
<1>5. ASSUME NEW u \in Updates, Publish(u)
      PROVE  call'[p].key \in Items
  BY <1>1, <1>5 DEF Publish, TypeOK, PostersKeepItems
<1>6. ASSUME NEW q \in Posters, ItemStep(q)
      PROVE  call'[p].key \in Items
  <2>1. ASSUME NEW i \in Items, ItemArrives(q, i)
        PROVE  call'[p].key \in Items
    BY <1>1, <2>1 DEF ItemArrives, TypeOK, PostersKeepItems
  <2>2. CASE ItemReserve(q) \/ ItemStore(q) \/ ItemRelease(q) \/ ItemQueue(q)
    <3>1. q \in Senders /\ call[q] # Idle
      BY <2>2 DEF ItemReserve, ItemStore, ItemRelease, ItemQueue, Idle, Senders
    <3>2. \/ Return(q)
          \/ \E pc \in {"store", "release", "queue", "post", "confirm"} :
                Goto(q, pc)
      BY <2>2 DEF ItemReserve, ItemStore, ItemRelease, ItemQueue
    <3>3. QED
      BY <1>2, <1>3, <3>1, <3>2
  <2>3. QED
    BY <1>6, <2>1, <2>2 DEF ItemStep
<1>7. ASSUME LoopStep
      PROVE  call'[p].key \in Items
  BY <1>1, <1>7 DEF LoopStep, LoopSelect, LoopTake, TypeOK, PostersKeepItems
<1>8. ASSUME NEW t \in Senders, PostStep(t)
      PROVE  call'[p].key \in Items
  <2>1. CASE MarkDelivered(t) \/ MarkFailure(t) \/ Crash(t)
    BY <1>3, <2>1 DEF MarkDelivered, MarkFailure, Crash
  <2>2. CASE DeliverSucceeds(t) \/ AnswerLost(t) \/ TenantRefuses(t)
    <3>1. call[t].pc = "post" /\ (Goto(t, "confirm") \/ Goto(t, "fail"))
      BY <2>2 DEF DeliverSucceeds, AnswerLost, TenantRefuses
    <3>2. call[t] # Idle
      BY <3>1 DEF Idle
    <3>3. QED
      BY <1>2, <3>1, <3>2
  <2>3. QED
    BY <1>8, <2>1, <2>2 DEF PostStep
<1>9. QED
  BY <1>4, <1>5, <1>6, <1>7, <1>8 DEF Next, vars

(* A step that leaves the updates' rows and what the tenant took alone is a *)
(* stutter of AtLeastOnce.                                                  *)
LEMMA PromiseStutters ==
  ASSUME UNCHANGED received, \A u \in Updates : row'[u] = row[u]
  PROVE  UNCHANGED Promise!vars
BY DEF Promise!vars

(* A reservation, release or queueing works on the row of an item.         *)
LEMMA ItemStepsLeaveUpdates ==
  ASSUME TypeOK, PostersKeepItems, NEW p \in Posters, ItemStep(p)
  PROVE  UNCHANGED received /\ \A u \in Updates : row'[u] = row[u]
<1>1. UNCHANGED received
  BY DEF ItemStep, ItemArrives, ItemReserve, ItemStore, ItemRelease, ItemQueue
<1>2. ASSUME NEW u \in Updates
      PROVE  row'[u] = row[u]
  <2>1. u \in Events /\ u \notin Items
    BY EventAssumption DEF Events
  <2>2. CASE ItemReserve(p) \/ ItemRelease(p) \/ ItemQueue(p)
    <3>1. call[p] # Idle
      BY <2>2 DEF ItemReserve, ItemRelease, ItemQueue, Idle
    <3>2. call[p].key # u
      BY <2>1, <3>1 DEF PostersKeepItems
    <3>3. QED
      BY <2>1, <2>2, <3>2 DEF ItemReserve, ItemRelease, ItemQueue, TypeOK
  <2>3. CASE (\E i \in Items : ItemArrives(p, i)) \/ ItemStore(p)
    BY <2>3 DEF ItemArrives, ItemStore
  <2>4. QED
    BY <2>2, <2>3 DEF ItemStep
<1>3. QED
  BY <1>1, <1>2

(* Every run of the outbox is, in the rows and receipts of its updates, a  *)
(* run of AtLeastOnce without its liveness: an event is put on the queue   *)
(* once, is settled only when the tenant has answered for it or has no     *)
(* endpoint, and is never pending again (RetryPendingDeliveries, and       *)
(* NotifyBoletoUpdated beside it).                                         *)
THEOREM OutboxKeepsPromise == Spec => Promise!Init /\ [][Promise!Next]_(Promise!vars)
<1>1. Init => DeliveryInv /\ PostersKeepItems /\ Promise!Init
  <2> SUFFICES ASSUME Init
               PROVE  DeliveryInv /\ PostersKeepItems /\ Promise!Init
    OBVIOUS
  <2>1. DeliveryInv
    BY DEF Init, TypeOK, Idle, DeliveryInv, DeliveredWasReceived,
       ConfirmsAreAnswered
  <2>2. PostersKeepItems
    BY DEF Init, PostersKeepItems, Senders
  <2>3. Promise!Init
    BY DEF Init, Promise!Init, Events
  <2>4. QED
    BY <2>1, <2>2, <2>3
<1>2. ASSUME DeliveryInv, PostersKeepItems, [Next]_vars
      PROVE  [Promise!Next]_(Promise!vars)
  <2> USE <1>2 DEF DeliveryInv
  <2>1. ASSUME NEW u \in Updates, Publish(u)
        PROVE  Promise!Next
    <3>1. Promise!Enqueue(u)
      BY <2>1 DEF Publish, TypeOK, Events, Promise!Enqueue
    <3>2. QED
      BY <3>1 DEF Promise!Next
  <2>2. ASSUME NEW p \in Posters, ItemStep(p)
        PROVE  UNCHANGED Promise!vars
    BY <2>2, ItemStepsLeaveUpdates, PromiseStutters
  <2>3. CASE LoopStep \/ UNCHANGED vars
    BY <2>3, PromiseStutters DEF LoopStep, LoopSelect, LoopTake, vars
  <2>4. ASSUME NEW s \in Senders, PostStep(s)
        PROVE  [Promise!Next]_(Promise!vars)
    <3> DEFINE k == call[s].key
    <3>1. CASE (DeliverSucceeds(s) \/ AnswerLost(s)) /\ Take(k, call[s].header)
      <4>1. received' = received \cup {k} /\ row' = row
        BY <3>1 DEF DeliverSucceeds, AnswerLost, Take
      <4> HIDE DEF k
      <4>2. CASE k \in Updates
        <5>1. Promise!Hear(k)
          BY <4>1, <4>2 DEF Promise!Hear
        <5>2. QED
          BY <4>2, <5>1 DEF Promise!Next
      <4>3. CASE k \notin Updates
        BY <4>1, <4>3 DEF Promise!vars
      <4>4. QED
        BY <4>2, <4>3
    <3>2. CASE \/ TenantRefuses(s) \/ Crash(s)
               \/ DeliverSucceeds(s) /\ UNCHANGED <<ledger, received>>
      BY <3>2, PromiseStutters DEF DeliverSucceeds, TenantRefuses, Crash
    <3>3. CASE MarkFailure(s)
      <4>1. \A u \in Updates : row'[u] = row[u]
        BY <3>3 DEF MarkFailure, Mark, TypeOK, Events
      <4>2. QED
        BY <3>3, <4>1, PromiseStutters DEF MarkFailure
    <3>4. CASE MarkDelivered(s)
      <4>1. /\ k \in Events
            /\ Answered(k)
        BY <3>4, BusyCall DEF MarkDelivered, ConfirmsAreAnswered
      <4>2. /\ UNCHANGED received
            /\ \A u \in Updates :
                  row'[u] = IF u = k /\ row[u] # "absent" THEN "done"
                                                          ELSE row[u]
        BY <3>4, <4>1 DEF MarkDelivered, Mark, TypeOK, Events
      <4> HIDE DEF k
      <4>3. CASE k \in Updates /\ row[k] # "absent"
        <5>1. Promise!Settle(k)
          BY <4>1, <4>2, <4>3 DEF Promise!Settle, Answered
        <5>2. Promise!Next
          BY <4>3, <5>1 DEF Promise!Next, Promise!Settle
        <5>3. QED
          BY <5>2
      <4>4. CASE ~ (k \in Updates /\ row[k] # "absent")
        BY <4>2, <4>4, PromiseStutters
      <4>5. QED
        BY <4>3, <4>4
    <3>5. /\ AnswerLost(s) => Take(k, call[s].header)
          /\ DeliverSucceeds(s) => \/ Take(k, call[s].header)
                                   \/ UNCHANGED <<ledger, received>>
      BY DEF DeliverSucceeds, AnswerLost
    <3>6. QED
      BY <2>4, <3>1, <3>2, <3>3, <3>4, <3>5 DEF PostStep
  <2>5. QED
    BY <2>1, <2>2, <2>3, <2>4 DEF Next
<1>3. DeliveryInv /\ PostersKeepItems /\ [Next]_vars => PostersKeepItems'
  BY PostersStayOnItems DEF DeliveryInv
<1>4. Spec => []DeliveryInv
  BY DeliveryInvHolds
<1>5. QED
  BY <1>1, <1>2, <1>3, <1>4, PTL DEF Spec

=============================================================================
