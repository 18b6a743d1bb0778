-------------------------- MODULE CampaignIssuance --------------------------
(***************************************************************************)
(* One campaign, from the confirmation of its CSV imports to its end:      *)
(*                                                                         *)
(*   Confirm          CampaignService.Confirm: a request reads the campaign *)
(*                    and later inserts the boletos of an import;          *)
(*   Start            CampaignService.Start: READY becomes PROCESSING;      *)
(*   ProcessPending   CampaignIssuer, which main.go runs once when the      *)
(*                    process starts: claim a batch, call Emit for each of  *)
(*                    it, mark the failures, close the campaign if done.    *)
(*                                                                         *)
(* The calls of Emit, the bank and its webhooks are BoletoLifecycle's: this *)
(* module composes with it and adds the two statements of CampaignRepo that *)
(* write boletos.status themselves, ClaimPendingBoletoIDs and               *)
(* MarkBoletoTerminal.                                                     *)
(***************************************************************************)
EXTENDS FiniteSets, Naturals

CONSTANTS
    Boletos, Emitters, Receivers, Syncers, Numbers, NoNumber, ProviderOf,
    CreatedAs, Faults, UnlistedTexts,       \* as in BoletoLifecycle
    Workers,        \* processes of the API; the other Emitters are requests
    Requests,       \* concurrent calls of the confirm route
    Imports,        \* previewed CSV files of the campaign
    NoImport,       \* no import
    RowsOf,         \* valid rows of each import
    Limit,          \* boletos one run of the issuer claims
    Stops           \* may a process be told to stop (a deployment)?

\* BoletoLifecycle's own assumptions, and the status of ConfirmImport's INSERT.
ASSUME LifecycleAssumption ==
    /\ NoNumber \notin Numbers
    /\ ProviderOf \in [Boletos -> {"moncalieri", "mock"}]
    /\ CreatedAs = [b \in Boletos |-> "CREATED"]
    /\ Faults \in BOOLEAN /\ UnlistedTexts \in BOOLEAN
ASSUME WorkerAssumption == Workers \subseteq Emitters
ASSUME ImportAssumption ==
    NoImport \notin Imports /\ RowsOf \in [Imports -> Nat \ {0}]
ASSUME IssuerAssumption == Limit \in Nat \ {0} /\ Stops \in BOOLEAN

VARIABLES
    row, paidAt, event, title, emit, recv, sync, applied,
    campaign,       \* campaigns.status
    confirmed,      \* imports whose status is CONFIRMED
    confirming,     \* the import each request in progress is confirming
    origin,         \* the import a boleto was inserted from
    claim,          \* campaign_claimed_at: NULL, or set, and how long ago
    worker,         \* where each process is in ProcessPending
    stopping,       \* processes whose syncContext is cancelled
    overrun         \* history: boletos a process has held for five minutes

campaignVars == <<campaign, confirmed, confirming, origin>>
issuerVars == <<claim, worker, stopping, overrun>>
boletoVars == <<row, paidAt, event, title, emit, recv, sync, applied>>
vars == <<boletoVars, campaignVars, issuerVars>>

Lifecycle == INSTANCE BoletoLifecycle

-----------------------------------------------------------------------------
Down == [pc |-> "down", todo |-> {}]

Members == {b \in Boletos : origin[b] # NoImport}

\* Between boletos, in Emit for one, or about to store the loop's verdict on one.
Resting == [pc: {"down", "claim", "next", "serving"}, todo: SUBSET Boletos]
Emitting == [pc: {"emit"}, todo: SUBSET Boletos, boleto: Boletos]
Judging == [pc: {"terminal"}, todo: SUBSET Boletos, boleto: Boletos,
            verdict: {"FAILED", "BLOCKED"}]

TypeOK ==
    /\ Lifecycle!TypeOK
    /\ campaign \in {"DRAFT", "READY", "PROCESSING", "COMPLETED", "PARTIAL"}
    /\ confirmed \subseteq Imports
    /\ confirming \in [Requests -> Imports \cup {NoImport}]
    /\ origin \in [Boletos -> Imports \cup {NoImport}]
    /\ claim \in [Boletos -> {"null", "fresh", "old"}]
    /\ worker \in [Workers -> Resting \cup Emitting \cup Judging]
    /\ \A w \in Workers : worker[w].todo \subseteq Members
    /\ stopping \subseteq Workers
    /\ overrun \in [Workers -> SUBSET Boletos]

Init ==
    /\ Lifecycle!Init
    /\ campaign = "DRAFT"
    /\ confirmed = {}
    /\ confirming = [q \in Requests |-> NoImport]
    /\ origin = [b \in Boletos |-> NoImport]
    /\ claim = [b \in Boletos |-> "null"]
    /\ worker = [w \in Workers |-> Down]
    /\ stopping = {}
    /\ overrun = [w \in Workers |-> {}]

-----------------------------------------------------------------------------
(* CampaignService.Confirm and Start.                                      *)

\* The handler loads the campaign, and Confirm checks what was loaded.
ConfirmRead(q, i) ==
    /\ confirming[q] = NoImport
    /\ campaign = "DRAFT"
    /\ confirming' = [confirming EXCEPT ![q] = i]
    /\ UNCHANGED <<boletoVars, campaign, confirmed, origin, issuerVars>>

\* Mutant: the campaign is given the import's new status.
InsertConfirmed(i, fresh) ==
    /\ i \notin confirmed
    /\ Cardinality(fresh) = RowsOf[i]
    /\ origin' = [b \in Boletos |-> IF b \in fresh THEN i ELSE origin[b]]
    /\ confirmed' = confirmed \cup {i}
    /\ campaign' = IF campaign = "DRAFT" THEN "CONFIRMED" ELSE campaign

\* ConfirmImport's transaction: one boleto per valid row of a PREVIEWED import.
Insert(i, fresh) ==
    /\ i \notin confirmed
    /\ Cardinality(fresh) = RowsOf[i]
    /\ origin' = [b \in Boletos |-> IF b \in fresh THEN i ELSE origin[b]]
    /\ confirmed' = confirmed \cup {i}
    /\ campaign' = IF campaign = "DRAFT" THEN "READY" ELSE campaign

ConfirmImport(q) ==
    /\ confirming[q] # NoImport
    /\ \E fresh \in SUBSET (Boletos \ Members) : Insert(confirming[q], fresh)
    /\ confirming' = [confirming EXCEPT ![q] = NoImport]
    /\ UNCHANGED <<boletoVars, issuerVars>>

\* The import is confirmed already, has expired, or the INSERT fails.
ConfirmRejected(q) ==
    /\ confirming[q] # NoImport
    /\ confirming' = [confirming EXCEPT ![q] = NoImport]
    /\ UNCHANGED <<boletoVars, campaign, confirmed, origin, issuerVars>>

Start ==
    /\ campaign = "READY"
    /\ campaign' = "PROCESSING"
    /\ UNCHANGED <<boletoVars, confirmed, confirming, origin, issuerVars>>

-----------------------------------------------------------------------------
(* CampaignIssuer.ProcessPending                                           *)

Goto(w, pc) == worker' = [worker EXCEPT ![w].pc = pc]

\* The process starts; ProcessingCampaigns lists the campaign or not.
Boot(w) ==
    /\ worker[w].pc = "down"
    /\ Goto(w, IF campaign = "PROCESSING" THEN "claim" ELSE "serving")
    /\ UNCHANGED <<boletoVars, campaignVars, claim, stopping, overrun>>

\* Mutant: a claim whose process died is never taken over.
ClaimableCreated == {b \in Members : row[b].status = "CREATED"}

\* Mutant: a claim is taken over at any age.
ClaimableAtAnyAge ==
    {b \in Members : row[b].status \in {"CREATED", "PROCESSING"}}

Claimable ==
    {b \in Members : \/ row[b].status = "CREATED"
                     \/ row[b].status = "PROCESSING" /\ claim[b] = "old"}

\* One UPDATE ... FROM (SELECT ... FOR UPDATE SKIP LOCKED LIMIT): the rows of
\* an import share their created_at, so the order says nothing.
ClaimPending(w) ==
    /\ worker[w].pc = "claim"
    /\ \E batch \in SUBSET Claimable :
          /\ Cardinality(batch) <= Limit
          /\ Cardinality(batch) = Limit \/ batch = Claimable
          /\ row' = [b \in Boletos |->
                       IF b \in batch
                       THEN Lifecycle!WithStatus(row[b], "PROCESSING")
                       ELSE row[b]]
          /\ claim' = [b \in Boletos |-> IF b \in batch THEN "fresh"
                                         ELSE claim[b]]
          /\ worker' = [worker EXCEPT ![w] = [pc |-> "next", todo |-> batch]]
          /\ overrun' = [overrun EXCEPT ![w] = {}]
    /\ UNCHANGED <<paidAt, event, title, emit, recv, sync, applied,
                   campaignVars, stopping>>

\* now() - interval '5 minutes' passes the time of a claim.
FiveMinutes(b) ==
    /\ claim[b] = "fresh"
    /\ claim' = [claim EXCEPT ![b] = "old"]
    /\ overrun' = [w \in Workers |-> IF b \in worker[w].todo
                                     THEN overrun[w] \cup {b} ELSE overrun[w]]
    /\ UNCHANGED <<boletoVars, campaignVars, worker, stopping>>

\* Emit is called for the next boleto of the batch, and starts, ...
EmitNext(w, b) ==
    /\ worker[w].pc = "next"
    /\ b \in worker[w].todo
    /\ Lifecycle!EmitRead(w, b)
    /\ worker' = [worker EXCEPT ![w] = [pc |-> "emit", todo |-> @.todo,
                                        boleto |-> b]]
    /\ UNCHANGED <<campaignVars, claim, stopping, overrun>>

\* ... returns the boleto, already issued, ...
EmitAlreadyIssued(w, b) ==
    /\ worker[w].pc = "next"
    /\ b \in worker[w].todo
    /\ Lifecycle!AlreadyIssued(row[b])
    /\ worker' = [worker EXCEPT ![w].todo = @ \ {b}]
    /\ UNCHANGED <<boletoVars, campaignVars, claim, stopping, overrun>>

Failed(w, b, verdict) ==
    worker' = [worker EXCEPT ![w] = [pc |-> "terminal", todo |-> @.todo,
                                     boleto |-> b, verdict |-> verdict]]

\* ... or returns an error before it has done anything.
EmitRejected(w, b) ==
    /\ worker[w].pc = "next"
    /\ b \in worker[w].todo
    /\ ~Lifecycle!AlreadyIssued(row[b])
    /\ ~Lifecycle!MayEmit(row[b]) \/ Faults
    /\ Failed(w, b, "FAILED")
    /\ UNCHANGED <<boletoVars, campaignVars, claim, stopping, overrun>>

Done(w) == [pc |-> "next", todo |-> worker[w].todo \ {worker[w].boleto}]

\* Emit's steps inside the loop.
InLoop(step) == step /\ UNCHANGED <<campaignVars, issuerVars>>

EmitMark(w) == InLoop(Lifecycle!EmitMark(w))

\* Once syncContext is cancelled the HTTP client sends nothing more to the
\* bank; the mock without a delay does not look at it.
IssueAccepted(w) ==
    /\ InLoop(Lifecycle!IssueAccepted(w))
    /\ w \in stopping => ProviderOf[worker[w].boleto] = "mock"

IssueRefused(w) == InLoop(Lifecycle!IssueRefused(w))

AnswerLost(w) == InLoop(Lifecycle!AnswerLost(w))

EmitSucceeds(w) ==
    /\ Lifecycle!EmitStore(w)
    /\ worker' = [worker EXCEPT ![w] = Done(w)]
    /\ UNCHANGED <<campaignVars, claim, stopping, overrun>>

\* A blocked payer is the one error that is not a failure.
EmitErrs(w) ==
    /\ \/ Lifecycle!EmitFail(w) /\ Failed(w, worker[w].boleto, "FAILED")
       \/ /\ Lifecycle!EmitAbandon(w)
          /\ \E verdict \in {"FAILED", "BLOCKED"} :
                /\ verdict = "BLOCKED" => emit[w].pc = "mark"
                /\ Failed(w, worker[w].boleto, verdict)
    /\ UNCHANGED <<campaignVars, claim, stopping, overrun>>

\* Mutant: the verdict is written whatever the row says by now.
MarkUnguarded(b, verdict) ==
    /\ row' = [row EXCEPT ![b].status = verdict]
    /\ claim' = [claim EXCEPT ![b] = "null"]

Mark(b, verdict) ==
    \/ /\ row[b].status \in {"CREATED", "PROCESSING"}
       /\ row' = [row EXCEPT ![b].status = verdict]
       /\ claim' = [claim EXCEPT ![b] = "null"]
    \/ /\ row[b].status \notin {"CREATED", "PROCESSING"}
       /\ UNCHANGED <<row, claim>>

MarkBoletoTerminal(w) ==
    /\ worker[w].pc = "terminal"
    /\ Mark(worker[w].boleto, worker[w].verdict)
    /\ worker' = [worker EXCEPT ![w] = Done(w)]
    /\ UNCHANGED <<paidAt, event, title, emit, recv, sync, applied,
                   campaignVars, stopping, overrun>>

\* The UPDATE fails, and the loop ignores its error.
MarkLost(w) ==
    /\ Faults
    /\ worker[w].pc = "terminal"
    /\ worker' = [worker EXCEPT ![w] = Done(w)]
    /\ UNCHANGED <<boletoVars, campaignVars, claim, stopping, overrun>>

\* Mutant: BLOCKED counts as an outcome like any other.
OutcomeIgnoringBlocked ==
    IF \E b \in Members : row[b].status = "FAILED" THEN "PARTIAL"
                                                   ELSE "COMPLETED"

FinalStatus ==
    IF \E b \in Members : row[b].status \in {"FAILED", "BLOCKED"}
    THEN "PARTIAL" ELSE "COMPLETED"

\* Mutant: a boleto waiting for the bank's answer does not keep it open.
NoneCreated == \A b \in Members : row[b].status # "CREATED"

AllDone == \A b \in Members : row[b].status \notin {"CREATED", "PROCESSING"}

\* After the batch.
FinishIfDone(w) ==
    /\ worker[w].pc = "next"
    /\ worker[w].todo = {}
    /\ campaign' = IF campaign = "PROCESSING" /\ AllDone
                   THEN FinalStatus ELSE campaign
    /\ Goto(w, "serving")
    /\ UNCHANGED <<boletoVars, confirmed, confirming, origin, claim, stopping,
                   overrun>>

\* An error of one of its own statements ends ProcessPending for good.
IssuerGivesUp(w) ==
    /\ Faults
    /\ \/ worker[w].pc = "claim"
       \/ worker[w].pc = "next" /\ worker[w].todo = {}
    /\ Goto(w, "serving")
    /\ UNCHANGED <<boletoVars, campaignVars, claim, stopping, overrun>>

-----------------------------------------------------------------------------
(* The process's end.                                                      *)

\* SIGTERM: stopSync cancels the context of the issuer's calls.
Stop(w) ==
    /\ Stops
    /\ worker[w].pc # "down"
    /\ w \notin stopping
    /\ stopping' = stopping \cup {w}
    /\ UNCHANGED <<boletoVars, campaignVars, claim, worker, overrun>>

\* main returns, or the process is killed, wherever the loop is.
Exit(w) ==
    /\ worker[w].pc # "down"
    /\ w \in stopping \/ Faults
    /\ worker' = [worker EXCEPT ![w] = Down]
    /\ emit' = [emit EXCEPT ![w] = Lifecycle!Idle]
    /\ stopping' = stopping \ {w}
    /\ overrun' = [overrun EXCEPT ![w] = {}]
    /\ UNCHANGED <<row, paidAt, event, title, recv, sync, applied,
                   campaignVars, claim>>

-----------------------------------------------------------------------------
\* The bank, its webhooks, polls, and the emission route for single boletos.
Elsewhere ==
    /\ \/ \E b \in Boletos, n \in Numbers : Lifecycle!BankMoves(b, n)
       \/ \E r \in Receivers : Lifecycle!RecvStep(r)
       \/ \E s \in Syncers : Lifecycle!SyncStep(s)
       \/ \E e \in Emitters \ Workers :
             /\ Lifecycle!EmitStep(e)
             /\ emit'[e] # Lifecycle!Idle => emit'[e].boleto \in Members
    /\ UNCHANGED <<campaignVars, issuerVars>>

WorkerStep(w) ==
    \/ Boot(w)
    \/ ClaimPending(w)
    \/ \E b \in Boletos :
          EmitNext(w, b) \/ EmitAlreadyIssued(w, b) \/ EmitRejected(w, b)
    \/ EmitMark(w)
    \/ IssueAccepted(w)
    \/ IssueRefused(w)
    \/ AnswerLost(w)
    \/ EmitSucceeds(w)
    \/ EmitErrs(w)
    \/ MarkBoletoTerminal(w)
    \/ MarkLost(w)
    \/ FinishIfDone(w)
    \/ IssuerGivesUp(w)
    \/ Stop(w)
    \/ Exit(w)

Next ==
    \/ \E q \in Requests, i \in Imports : ConfirmRead(q, i)
    \/ \E q \in Requests : ConfirmImport(q) \/ ConfirmRejected(q)
    \/ Start
    \/ \E b \in Boletos : FiveMinutes(b)
    \/ \E w \in Workers : WorkerStep(w)
    \/ Elsewhere

Spec == Init /\ [][Next]_vars

-----------------------------------------------------------------------------
(* Safety.                                                                 *)

\* A campaign shown as COMPLETED is one whose every boleto the bank has
\* registered: it takes FinishIfDone's two conditions, MarkBoletoTerminal's
\* verdicts and the lifecycle together, and survives crashes, takeovers of
\* claims and every stale write after the end.
CompletedIsRegistered ==
    campaign = "COMPLETED" =>
        \A b \in Members : \E n \in Numbers :
            title[b][n] \in Lifecycle!Registered

\* A finished campaign has nothing left to issue or to wait for.  It takes one
\* process at a time and one import: see the runs.
FinishedIsDone ==
    campaign \in {"COMPLETED", "PARTIAL"} =>
        \A b \in Members : row[b].status \notin {"CREATED", "PROCESSING"}

\* Two processes hold the same boleto only if one of them has held it for five
\* minutes (ClaimPendingBoletoIDs).
ClaimsAreExclusive ==
    \A w, v \in Workers :
        w # v => worker[w].todo \cap worker[v].todo
                     \subseteq overrun[w] \cup overrun[v]

\* docs/campaigns.md:37, the batches keep "idempotencia" and abandoned claims
\* may be taken over: one title for each boleto.
OneTitleEach == Lifecycle!SingleTitle

-----------------------------------------------------------------------------
(* Action properties.                                                      *)

\* What turns a settled row into a failure: Emit's own stale write (EmitFail),
\* or the bank's refusal of another title than the one the row carries.
StaleFailure(b) ==
    \E e \in Emitters : /\ emit[e] # Lifecycle!Idle
                        /\ emit[e].pc = "failing"
                        /\ emit[e].boleto = b

RefusedItem(b) ==
    \E r \in Receivers : /\ recv[r] # Lifecycle!Idle
                         /\ recv[r].boleto = b
                         /\ recv[r].failed
                         /\ recv[r].num # row[b].our

RefusedPoll(b) ==
    \E s \in Syncers : /\ sync[s] # Lifecycle!Idle
                       /\ sync[s].boleto = b
                       /\ sync[s].copy.our # row[b].our

\* A verdict of the issuer never replaces what the bank has said meanwhile,
\* however long ago the loop reached it and whoever claimed the boleto since.
VerdictYieldsToBank ==
    [][\A b \in Boletos :
          /\ row[b].status \in Lifecycle!Settled
          /\ row'[b].status \in {"FAILED", "BLOCKED"}
          => StaleFailure(b) \/ RefusedItem(b) \/ RefusedPoll(b)]_vars

-----------------------------------------------------------------------------
(* Liveness.  A process that starts runs its issuer; a claim's age passes;  *)
(* a call of the provider ends; and a process that may die in a run does    *)
(* not die at the same point of every run.                                 *)

ProviderAnswers(w) == IssueAccepted(w) \/ IssueRefused(w)

\* No statement fails for ever either.  Nothing is assumed of the tenant.
Fairness ==
    /\ \A b \in Boletos : WF_vars(FiveMinutes(b))
    /\ \A w \in Workers :
          /\ WF_vars(Boot(w))
          /\ SF_vars(ClaimPending(w))
          /\ SF_vars(\E b \in Boletos :
                        EmitNext(w, b) \/ EmitAlreadyIssued(w, b))
          /\ SF_vars(EmitMark(w))
          /\ SF_vars(ProviderAnswers(w))
          /\ SF_vars(EmitSucceeds(w))
          /\ SF_vars(EmitErrs(w))
          /\ SF_vars(MarkBoletoTerminal(w))
          /\ SF_vars(FinishIfDone(w))

FairSpec == Spec /\ Fairness

Finished == campaign \in {"COMPLETED", "PARTIAL"}

\* docs/campaigns.md:37 "O loop periodico da aplicacao reivindica lotes": a
\* campaign that was started finishes by itself.
StartedFinishes == (campaign = "PROCESSING") ~> Finished

\* What the code gives instead: it finishes if some process starts again and
\* again, whatever kills each of them, and the batches add up.
FinishesIfRestarted ==
    (\E w \in Workers : []<>(worker[w].pc = "down")) => StartedFinishes
=============================================================================
