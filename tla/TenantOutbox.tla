---------------------------- MODULE TenantOutbox ----------------------------
(***************************************************************************)
(* webhook_events as the queue of notifications for one tenant's endpoint:  *)
(*                                                                         *)
(*   NotifyBoletoUpdated     a BOLETO_UPDATED event: insert, post, mark;    *)
(*   processItem             a REGISTRO item of the bank: reserve, store    *)
(*                           the boleto, queue, post, mark;                *)
(*   RetryPendingDeliveries  the periodic loop posts what is still pending. *)
(*                                                                         *)
(* All three post outside any lock and mark the row afterwards, so one      *)
(* event may be posted by several of them at once.  What the boletos table  *)
(* holds is BoletoLifecycle's subject: here storing an item works or fails.  *)
(***************************************************************************)
EXTENDS FiniteSets, Naturals

CONSTANTS
    Updates,        \* BOLETO_UPDATED events, each with its own call
    Items,          \* items of REGISTRO messages
    Posters,        \* concurrent calls of processItem
    Loop,           \* the one holder of SyncPending's advisory lock
    MessageOf,      \* the REGISTRO message (its eventId) an item came in
    Endpoint,       \* the tenant's webhook_url: unset, answering or dead
    Limit,          \* rows one turn of the loop takes
    Nothing,        \* no event
    Faults          \* may a call die between two statements?

Events == Updates \cup Items

Messages == {MessageOf[i] : i \in Items}

\* Values of X-Giga-Event-ID: an event's own row id, or the bank's eventId.
Headers == Events \cup Messages

ASSUME EventAssumption == Updates \cap Items = {} /\ Nothing \notin Events
ASSUME MessageAssumption == DOMAIN MessageOf = Items /\ Messages \cap Events = {}
ASSUME EndpointAssumption == Endpoint \in [Events -> {"unset", "up", "dead"}]
ASSUME LimitAssumption == Limit \in Nat \ {0} /\ Faults \in BOOLEAN
ASSUME SenderAssumption == Posters \cap Updates = {}
                           /\ Loop \notin Posters \cup Updates

Senders == Updates \cup Posters \cup {Loop}

VARIABLES
    row,        \* webhook_events: absent, raw (type REGISTRO), queued, done
    tried,      \* delivery_attempts > 0
    older,      \* <<j, k>>: row j comes before row k in the loop's ORDER BY,
                \* COALESCE(last_delivery_attempt_at, created_at)
    call,       \* the calls in progress
    batch,      \* rows the loop's turn selected and has not posted yet
    ledger,     \* the event the tenant processed under each header
    received    \* events the tenant has been posted and has taken

vars == <<row, tried, older, call, batch, ledger, received>>

-----------------------------------------------------------------------------
Idle == [pc |-> "idle"]

Call == [pc: {"reserve", "store", "release", "queue", "post", "confirm",
              "fail"},
         key: Events, header: Headers]

TypeOK ==
    /\ row \in [Events -> {"absent", "raw", "queued", "done"}]
    /\ tried \in [Events -> BOOLEAN]
    /\ older \subseteq Events \X Events
    /\ call \in [Senders -> {Idle} \cup Call]
    /\ batch \subseteq Events
    /\ ledger \in [Headers -> Events \cup {Nothing}]
    /\ received \subseteq Events

Init ==
    /\ row = [k \in Events |-> "absent"]
    /\ tried = [k \in Events |-> FALSE]
    /\ older = {}
    /\ call = [s \in Senders |-> Idle]
    /\ batch = {}
    /\ ledger = [h \in Headers |-> Nothing]
    /\ received = {}

Without(k) == {p \in older : k \notin {p[1], p[2]}}

\* A row is inserted, or attempted, now: every other row is older.
ToBack(k) ==
    Without(k) \cup {<<j, k>> : j \in {x \in Events \ {k} : row[x] # "absent"}}

Goto(s, pc) == call' = [call EXCEPT ![s].pc = pc]

Return(s) == call' = [call EXCEPT ![s] = Idle]

-----------------------------------------------------------------------------
(* NotifyBoletoUpdated                                                     *)

Publish(u) ==
    /\ row[u] = "absent"
    /\ row' = [row EXCEPT ![u] = "queued"]
    /\ older' = ToBack(u)
    /\ call' = [call EXCEPT ![u] =
                  [pc |-> "post", key |-> u, header |-> u]]
    /\ UNCHANGED <<tried, batch, ledger, received>>

-----------------------------------------------------------------------------
(* processItem                                                             *)

\* The bank sends an item any number of times: it repeats on anything but a
\* 2xx and answers get lost.
ItemArrives(p, i) ==
    /\ call[p] = Idle
    /\ call' = [call EXCEPT ![p] =
                  [pc |-> "reserve", key |-> i, header |-> MessageOf[i]]]
    /\ UNCHANGED <<row, tried, older, batch, ledger, received>>

ItemReserve(p) ==
    LET i == call[p].key IN
    /\ call[p].pc = "reserve"
    /\ \/ /\ row[i] = "absent"
          /\ row' = [row EXCEPT ![i] = "raw"]
          /\ tried' = [tried EXCEPT ![i] = FALSE]
          /\ older' = ToBack(i)
          /\ Goto(p, "store")
       \/ /\ row[i] \in {"raw", "queued"}
          /\ Goto(p, "queue")
          /\ UNCHANGED <<row, tried, older>>
       \/ /\ row[i] = "done"
          /\ Return(p)
          /\ UNCHANGED <<row, tried, older>>
    /\ UNCHANGED <<batch, ledger, received>>

\* The boleto's Update succeeds, or fails and the reservation is released.
ItemStore(p) ==
    /\ call[p].pc = "store"
    /\ Goto(p, "queue") \/ Goto(p, "release")
    /\ UNCHANGED <<row, tried, older, batch, ledger, received>>

\* Mutant: the release takes the row off whatever became of it.
ItemReleaseAny(p) ==
    LET i == call[p].key IN
    /\ call[p].pc = "release"
    /\ row' = [row EXCEPT ![i] = "absent"]
    /\ older' = Without(i)
    /\ Return(p)
    /\ UNCHANGED <<tried, batch, ledger, received>>

\* releaseEvent deletes the row unless an attempt has been counted on it.
ItemRelease(p) ==
    LET i == call[p].key IN
    /\ call[p].pc = "release"
    /\ \/ /\ row[i] # "absent" /\ ~tried[i]
          /\ row' = [row EXCEPT ![i] = "absent"]
          /\ older' = Without(i)
       \/ /\ row[i] = "absent" \/ tried[i]
          /\ UNCHANGED <<row, older>>
    /\ Return(p)
    /\ UNCHANGED <<tried, batch, ledger, received>>

\* Without an endpoint the event is marked at once; with one it becomes a
\* BOLETO_TENANT_WEBHOOK, which the loop may retry from now on.
ItemQueue(p) ==
    LET i == call[p].key IN
    /\ call[p].pc = "queue"
    /\ \/ /\ Endpoint[i] = "unset"
          /\ Goto(p, "confirm")
          /\ UNCHANGED row
       \/ /\ Endpoint[i] # "unset"
          /\ Goto(p, "post")
          /\ row' = [row EXCEPT ![i] = IF @ = "raw" THEN "queued" ELSE @]
    /\ UNCHANGED <<tried, older, batch, ledger, received>>

-----------------------------------------------------------------------------
(* The POST and the answer it gets.                                        *)

\* The tenant processes a header once, as docs/api.md:790 tells it to.
Take(k, h) ==
    /\ received' = received \cup {k}
    /\ ledger' = [ledger EXCEPT ![h] = IF @ = Nothing THEN k ELSE @]

\* A 2xx, or errTenantWebhookNotConfigured: either way markDelivered is next.
DeliverSucceeds(s) ==
    /\ call[s].pc = "post"
    /\ \/ /\ Endpoint[call[s].key] = "up"
          /\ Take(call[s].key, call[s].header)
       \/ /\ Endpoint[call[s].key] = "unset"
          /\ UNCHANGED <<ledger, received>>
    /\ Goto(s, "confirm")
    /\ UNCHANGED <<row, tried, older, batch>>

\* The tenant takes the event, and the 2xx does not come back in time.
AnswerLost(s) ==
    /\ call[s].pc = "post"
    /\ Endpoint[call[s].key] = "up"
    /\ Take(call[s].key, call[s].header)
    /\ Goto(s, "fail")
    /\ UNCHANGED <<row, tried, older, batch>>

\* Mutant: any answer counts as a delivery, whatever its HTTP status.
RefusalConfirms(s) ==
    /\ call[s].pc = "post"
    /\ Endpoint[call[s].key] # "unset"
    /\ Goto(s, "confirm")
    /\ UNCHANGED <<row, tried, older, batch, ledger, received>>

TenantRefuses(s) ==
    /\ call[s].pc = "post"
    /\ Endpoint[call[s].key] # "unset"
    /\ Goto(s, "fail")
    /\ UNCHANGED <<row, tried, older, batch, ledger, received>>

\* Mutant: last_delivery_attempt_at is not updated.
MarkInPlace(k, delivered) ==
    \/ /\ row[k] = "absent"
       /\ UNCHANGED <<row, tried, older>>
    \/ /\ row[k] # "absent"
       /\ row' = [row EXCEPT ![k] = IF delivered THEN "done" ELSE @]
       /\ tried' = [tried EXCEPT ![k] = TRUE]
       /\ UNCHANGED older

\* markDelivered and markFailure: both count the attempt and send the row to
\* the back of the loop's order; neither does anything to a released row.
Mark(k, delivered) ==
    \/ /\ row[k] = "absent"
       /\ UNCHANGED <<row, tried, older>>
    \/ /\ row[k] # "absent"
       /\ row' = [row EXCEPT ![k] = IF delivered THEN "done" ELSE @]
       /\ tried' = [tried EXCEPT ![k] = TRUE]
       /\ older' = ToBack(k)

MarkDelivered(s) ==
    /\ call[s].pc = "confirm"
    /\ Mark(call[s].key, TRUE)
    /\ Return(s)
    /\ UNCHANGED <<batch, ledger, received>>

MarkFailure(s) ==
    /\ call[s].pc = "fail"
    /\ Mark(call[s].key, FALSE)
    /\ Return(s)
    /\ UNCHANGED <<batch, ledger, received>>

-----------------------------------------------------------------------------
(* RetryPendingDeliveries                                                  *)

Due == {k \in Events : row[k] = "queued"}

\* One SELECT ... ORDER BY ... LIMIT.
LoopSelect ==
    /\ call[Loop] = Idle
    /\ batch = {}
    /\ batch' = {k \in Due : Cardinality({j \in Due : <<j, k>> \in older}) < Limit}
    /\ batch' # {}
    /\ UNCHANGED <<row, tried, older, call, ledger, received>>

\* Mutant: every row of a turn is posted under the id of the oldest row.
LoopTakeOldestHeader(k) ==
    /\ call[Loop] = Idle
    /\ k \in batch
    /\ batch' = batch \ {k}
    /\ \E h \in Events :
          /\ row[h] # "absent" /\ \A j \in Events : <<j, h>> \notin older
          /\ call' = [call EXCEPT ![Loop] =
                        [pc |-> "post", key |-> k, header |-> h]]
    /\ UNCHANGED <<row, tried, older, ledger, received>>

\* The selected rows are posted one by one under their row ids, though the
\* call that queued one may have delivered it meanwhile.
LoopTake(k) ==
    /\ call[Loop] = Idle
    /\ k \in batch
    /\ batch' = batch \ {k}
    /\ call' = [call EXCEPT ![Loop] =
                  [pc |-> "post", key |-> k, header |-> k]]
    /\ UNCHANGED <<row, tried, older, ledger, received>>

-----------------------------------------------------------------------------
\* The process dies (or its context is cancelled) inside a call.
Crash(s) ==
    /\ Faults
    /\ call[s] # Idle
    /\ Return(s)
    /\ batch' = IF s = Loop THEN {} ELSE batch
    /\ UNCHANGED <<row, tried, older, ledger, received>>

PostStep(s) ==
    \/ DeliverSucceeds(s)
    \/ AnswerLost(s)
    \/ TenantRefuses(s)
    \/ MarkDelivered(s)
    \/ MarkFailure(s)
    \/ Crash(s)

ItemStep(p) ==
    \/ \E i \in Items : ItemArrives(p, i)
    \/ ItemReserve(p)
    \/ ItemStore(p)
    \/ ItemRelease(p)
    \/ ItemQueue(p)

LoopStep == LoopSelect \/ \E k \in Events : LoopTake(k)

Next ==
    \/ \E u \in Updates : Publish(u)
    \/ \E p \in Posters : ItemStep(p)
    \/ LoopStep
    \/ \E s \in Senders : PostStep(s)

Spec == Init /\ [][Next]_vars

-----------------------------------------------------------------------------
(* Safety.                                                                 *)

\* delivered_at is only ever set for an event the tenant has taken, unless it
\* has no endpoint to take it (docs/api.md:786).
DeliveredWasReceived ==
    \A k \in Events :
        row[k] = "done" => k \in received \/ Endpoint[k] = "unset"

\* An event that was delivered is on record for good: of two calls with the same
\* item, the one whose Update of the boleto failed does not take the row off
\* once the other has delivered it, nor does a later failure reopen it, and so
\* the bank's next repetition is answered without posting it again.
DeliveredIsFinal ==
    [][\A k \in Events : row[k] = "done" => row'[k] = "done"]_vars

ProcessedUnder(k) == {h \in Headers : ledger[h] = k}

\* A tenant that discards a header it has seen processes every BOLETO_UPDATED
\* event it was posted, and processes it once, though the call that created it
\* and the loop may both have posted it and either may have died since.
UpdatesProcessedOnce ==
    \A u \in Updates : u \in received => ProcessedUnder(u) = {u}

\* The same promise for REGISTRO items (docs/api.md:790 "O header
\* X-Giga-Event-ID identifica o evento"): the run says how the code breaks it.
ItemsProcessedOnce ==
    \A i \in Items : i \in received => Cardinality(ProcessedUnder(i)) = 1

-----------------------------------------------------------------------------
(* Liveness.  The loop's turns come back for as long as some process is up,  *)
(* its HTTP client gives up after ten seconds, and a process that may die in *)
(* a turn does not die at the same point of every turn; a tenant that is up *)
(* answers some of the posts in time.  Nothing is assumed of the calls that *)
(* create the events, nor of the bank.                                      *)

LoopPosting(k) == call[Loop].pc = "post" /\ call[Loop].key = k

PostEnds == DeliverSucceeds(Loop) \/ AnswerLost(Loop) \/ TenantRefuses(Loop)

LoopFairness ==
    /\ WF_vars(LoopSelect)
    /\ \A k \in Events :
          /\ SF_vars(LoopTake(k))
          /\ SF_vars(LoopPosting(k) /\ PostEnds)
          /\ SF_vars(LoopPosting(k) /\ DeliverSucceeds(Loop))
          /\ SF_vars(MarkDelivered(Loop) /\ call[Loop].key = k)
          /\ SF_vars(MarkFailure(Loop) /\ call[Loop].key = k)

FairSpec == Spec /\ LoopFairness

\* The queue keeps the promise of AtLeastOnce for BOLETO_UPDATED events, for
\* the tenants whose endpoint is up or unset even when others' are dead, and
\* REGISTRO items queue with them, and fill the loop's turns.  It is not kept
\* for the items themselves: a release may take a queued one off the queue.
Promise == INSTANCE AtLeastOnce WITH
    Messages <- Updates,
    Waived <- {u \in Updates : Endpoint[u] = "unset"},
    Owed <- {u \in Updates : Endpoint[u] # "dead"},
    queued <- {u \in Updates : row[u] # "absent"},
    heard <- received \cap Updates,
    settled <- {u \in Updates : row[u] = "done"}

KeepsPromise == Promise!Spec
=============================================================================
