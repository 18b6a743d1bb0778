----------------------- MODULE CampaignIssuanceProofs -----------------------
(***************************************************************************)
(* Machine-checked proofs about CampaignIssuance, for any sets of boletos, *)
(* processes, requests, imports and numbers.  What BoletoLifecycleProofs    *)
(* shows of every step of the handlers is used for the steps they take     *)
(* here; what is new are the three steps that write the boletos otherwise. *)
(***************************************************************************)
EXTENDS CampaignIssuance, TLAPS

Proved == INSTANCE BoletoLifecycleProofs

-----------------------------------------------------------------------------
(* The invariants.                                                         *)

\* A process has a call of Emit in progress exactly while its loop waits for
\* it, and works on a boleto of its batch.
LoopRunsEmit ==
    \A w \in Workers :
        /\ worker[w].pc = "emit" =>
              emit[w] # Lifecycle!Idle /\ emit[w].boleto = worker[w].boleto
        /\ worker[w].pc # "emit" => emit[w] = Lifecycle!Idle
        /\ worker[w].pc \in {"emit", "terminal"} =>
              worker[w].boleto \in worker[w].todo

\* What BoletoLifecycleProofs shows of the handlers alone.
LifecycleInv ==
    /\ Proved!TypeOK
    /\ Proved!BackedInv
    /\ Proved!ReissueInv
    /\ Proved!ReservationInv
    /\ Proved!PaymentDateIsReal
    /\ Proved!RefusalsAreReal

-----------------------------------------------------------------------------
(* The two instances of BoletoLifecycle, the one the model is composed with  *)
(* and the one its proofs are about, are the same specification.           *)
LEMMA SameTypes ==
  /\ Lifecycle!TypeOK <=> Proved!TypeOK
  /\ Lifecycle!TypeOK' <=> Proved!TypeOK'
  /\ Lifecycle!Init <=> Proved!Init
<1>1. Lifecycle!TypeOK <=> Proved!TypeOK
  BY DEF Lifecycle!TypeOK, Proved!TypeOK, Lifecycle!Copy, Proved!Copy,
     Lifecycle!MaybeNumber, Proved!MaybeNumber, Lifecycle!StoredStatuses,
     Proved!StoredStatuses, Lifecycle!KnownStatuses, Proved!KnownStatuses,
     Lifecycle!TitleState, Proved!TitleState, Lifecycle!TitleTexts,
     Proved!TitleTexts, Lifecycle!EventState, Proved!EventState,
     Lifecycle!Idle, Proved!Idle, Lifecycle!EmitCall, Proved!EmitCall,
     Lifecycle!AnsweredCall, Proved!AnsweredCall, Lifecycle!RecvCall,
     Proved!RecvCall, Lifecycle!SyncCall, Proved!SyncCall
<1>2. Lifecycle!TypeOK' <=> Proved!TypeOK'
  BY DEF Lifecycle!TypeOK, Proved!TypeOK, Lifecycle!Copy, Proved!Copy,
     Lifecycle!MaybeNumber, Proved!MaybeNumber, Lifecycle!StoredStatuses,
     Proved!StoredStatuses, Lifecycle!KnownStatuses, Proved!KnownStatuses,
     Lifecycle!TitleState, Proved!TitleState, Lifecycle!TitleTexts,
     Proved!TitleTexts, Lifecycle!EventState, Proved!EventState,
     Lifecycle!Idle, Proved!Idle, Lifecycle!EmitCall, Proved!EmitCall,
     Lifecycle!AnsweredCall, Proved!AnsweredCall, Lifecycle!RecvCall,
     Proved!RecvCall, Lifecycle!SyncCall, Proved!SyncCall
<1>3. Lifecycle!Init <=> Proved!Init
  BY DEF Lifecycle!Init, Proved!Init, Lifecycle!Idle, Proved!Idle
<1>4. QED
  BY <1>1, <1>2, <1>3

LEMMA SameWords ==
  /\ Lifecycle!Idle = Proved!Idle
  /\ Lifecycle!Settled = Proved!Settled
  /\ Lifecycle!Registered = Proved!Registered
  BY DEF Lifecycle!Idle, Proved!Idle, Lifecycle!Settled, Proved!Settled,
     Lifecycle!Registered, Proved!Registered

LEMMA SameBank ==
  ASSUME NEW b, NEW n
  PROVE  Lifecycle!BankMoves(b, n) <=> Proved!BankMoves(b, n)
  BY DEF Lifecycle!BankMoves, Proved!BankMoves, Lifecycle!TitleTexts,
     Proved!TitleTexts, Lifecycle!TitleSteps, Proved!TitleSteps

LEMMA SameEmission ==
  ASSUME NEW e
  PROVE  /\ \A b : Lifecycle!EmitRead(e, b) <=> Proved!EmitRead(e, b)
         /\ Lifecycle!EmitMark(e) <=> Proved!EmitMark(e)
         /\ Lifecycle!IssueAccepted(e) <=> Proved!IssueAccepted(e)
         /\ Lifecycle!IssueRefused(e) <=> Proved!IssueRefused(e)
         /\ Lifecycle!AnswerLost(e) <=> Proved!AnswerLost(e)
         /\ Lifecycle!EmitStore(e) <=> Proved!EmitStore(e)
         /\ Lifecycle!EmitFail(e) <=> Proved!EmitFail(e)
         /\ Lifecycle!EmitAbandon(e) <=> Proved!EmitAbandon(e)
         /\ Lifecycle!EmitStep(e) <=> Proved!EmitStep(e)
  BY DEF Lifecycle!EmitRead, Proved!EmitRead, Lifecycle!EmitMark,
     Proved!EmitMark, Lifecycle!IssueAccepted, Proved!IssueAccepted,
     Lifecycle!IssueRefused, Proved!IssueRefused, Lifecycle!AnswerLost,
     Proved!AnswerLost, Lifecycle!EmitStore, Proved!EmitStore,
     Lifecycle!EmitFail, Proved!EmitFail, Lifecycle!EmitAbandon,
     Proved!EmitAbandon, Lifecycle!EmitStep, Proved!EmitStep,
     Lifecycle!MayEmit, Proved!MayEmit, Lifecycle!AlreadyIssued,
     Proved!AlreadyIssued, Lifecycle!CanTransition, Proved!CanTransition,
     Lifecycle!Transitions, Proved!Transitions, Lifecycle!WithStatus,
     Proved!WithStatus, Lifecycle!Update, Proved!Update, Lifecycle!IssueStatus,
     Proved!IssueStatus, Lifecycle!Idle, Proved!Idle

LEMMA SameWebhook ==
  ASSUME NEW r
  PROVE  Lifecycle!RecvStep(r) <=> Proved!RecvStep(r)
  BY DEF Lifecycle!RecvFind, Proved!RecvFind, Lifecycle!Reserve,
     Proved!Reserve, Lifecycle!RecvStore, Proved!RecvStore,
     Lifecycle!RecvStoreFails, Proved!RecvStoreFails, Lifecycle!Release,
     Proved!Release, Lifecycle!Deliver, Proved!Deliver, Lifecycle!RecvAbandon,
     Proved!RecvAbandon, Lifecycle!RecvStep, Proved!RecvStep,
     Lifecycle!Decided, Proved!Decided, Lifecycle!Registered,
     Proved!Registered, Lifecycle!Outcome, Proved!Outcome,
     Lifecycle!WithStatus, Proved!WithStatus, Lifecycle!Update, Proved!Update,
     Lifecycle!Idle, Proved!Idle

LEMMA SamePoll ==
  ASSUME NEW s
  PROVE  Lifecycle!SyncStep(s) <=> Proved!SyncStep(s)
  BY DEF Lifecycle!SyncRead, Proved!SyncRead, Lifecycle!SyncConsult,
     Proved!SyncConsult, Lifecycle!SyncStore, Proved!SyncStore,
     Lifecycle!SyncAbandon, Proved!SyncAbandon, Lifecycle!SyncStep,
     Proved!SyncStep, Lifecycle!Answers, Proved!Answers, Lifecycle!MapStatus,
     Proved!MapStatus, Lifecycle!Wording, Proved!Wording, Lifecycle!Unlisted,
     Proved!Unlisted, Lifecycle!ApplySummary, Proved!ApplySummary,
     Lifecycle!Update, Proved!Update, Lifecycle!Idle, Proved!Idle

-----------------------------------------------------------------------------
(* A step is one of BoletoLifecycle's, or the claim of a batch, the store of *)
(* a verdict or the end of a process, the three that are not.              *)
LEMMA StepIsKnown ==
  ASSUME [Next]_vars
  PROVE  \/ [Proved!Next]_(Proved!vars)
         \/ \E w \in Workers :
               ClaimPending(w) \/ MarkBoletoTerminal(w) \/ Exit(w)
<1>1. CASE UNCHANGED boletoVars
  BY <1>1 DEF boletoVars, Proved!vars
<1>2. CASE Elsewhere
  <2>1. ASSUME NEW b \in Boletos, NEW n \in Numbers, Lifecycle!BankMoves(b, n)
        PROVE  Proved!Next
    BY <2>1, SameBank DEF Proved!Next
  <2>2. ASSUME NEW r \in Receivers, Lifecycle!RecvStep(r)
        PROVE  Proved!Next
    BY <2>2, SameWebhook DEF Proved!Next
  <2>3. ASSUME NEW s \in Syncers, Lifecycle!SyncStep(s)
        PROVE  Proved!Next
    BY <2>3, SamePoll DEF Proved!Next
  <2>4. ASSUME NEW e \in Emitters, Lifecycle!EmitStep(e)
        PROVE  Proved!Next
    BY <2>4, SameEmission DEF Proved!Next
  <2>5. QED
    BY <1>2, <2>1, <2>2, <2>3, <2>4 DEF Elsewhere
<1>3. ASSUME NEW w \in Workers, WorkerStep(w)
      PROVE  \/ Proved!Next
             \/ UNCHANGED boletoVars
             \/ ClaimPending(w) \/ MarkBoletoTerminal(w) \/ Exit(w)
  <2>1. Proved!EmitStep(w) => Proved!Next
    BY WorkerAssumption DEF Proved!Next
  <2>2. ASSUME NEW b \in Boletos, EmitNext(w, b)
        PROVE  Proved!EmitStep(w)
    BY <2>2, SameEmission DEF EmitNext, Proved!EmitStep
  <2>3. EmitMark(w) => Proved!EmitStep(w)
    BY SameEmission DEF EmitMark, InLoop, Proved!EmitStep
  <2>4. IssueAccepted(w) => Proved!EmitStep(w)
    BY SameEmission DEF IssueAccepted, InLoop, Proved!EmitStep
  <2>5. IssueRefused(w) => Proved!EmitStep(w)
    BY SameEmission DEF IssueRefused, InLoop, Proved!EmitStep
  <2>6. AnswerLost(w) => Proved!EmitStep(w)
    BY SameEmission DEF AnswerLost, InLoop, Proved!EmitStep
  <2>7. EmitSucceeds(w) => Proved!EmitStep(w)
    BY SameEmission DEF EmitSucceeds, Proved!EmitStep
  <2>8. EmitErrs(w) => Proved!EmitStep(w)
    BY SameEmission DEF EmitErrs, Proved!EmitStep
  <2>9. \/ Boot(w) \/ MarkLost(w) \/ FinishIfDone(w) \/ IssuerGivesUp(w)
        \/ Stop(w)
        \/ \E b \in Boletos : EmitAlreadyIssued(w, b) \/ EmitRejected(w, b)
        => UNCHANGED boletoVars
    BY DEF Boot, MarkLost, FinishIfDone, IssuerGivesUp, Stop,
       EmitAlreadyIssued, EmitRejected
  <2>10. QED
    BY <1>3, <2>1, <2>2, <2>3, <2>4, <2>5, <2>6, <2>7, <2>8, <2>9
       DEF WorkerStep
<1>4. \/ \E q \in Requests, i \in Imports : ConfirmRead(q, i)
      \/ \E q \in Requests : ConfirmImport(q) \/ ConfirmRejected(q)
      \/ Start
      \/ \E b \in Boletos : FiveMinutes(b)
      \/ UNCHANGED vars
      => UNCHANGED boletoVars
  BY DEF ConfirmRead, ConfirmImport, ConfirmRejected, Start, FiveMinutes, vars
<1>5. QED
  BY <1>1, <1>2, <1>3, <1>4 DEF Next

(* A statement that only gives boletos a status the bank has no part in     *)
(* leaves all of it standing.                                              *)
LEMMA RelabelKeepsLifecycle ==
  ASSUME LifecycleInv, row' \in [Boletos -> Proved!Copy],
         UNCHANGED <<paidAt, event, title, emit, recv, sync, applied>>,
         \A b \in Boletos :
            \/ row'[b] = row[b]
            \/ /\ row'[b].our = row[b].our
               /\ row'[b].status \in {"PROCESSING", "FAILED", "BLOCKED"}
  PROVE  LifecycleInv'
<1>1. Proved!TypeOK'
  BY DEF LifecycleInv, Proved!TypeOK
<1>2. Proved!BackedInv'
  <2>1. Proved!SettledIsBacked'
    <3> SUFFICES ASSUME NEW b \in Boletos, CreatedAs[b] \notin Proved!Settled
                 PROVE  Proved!Backed(b, row[b])'
      BY DEF Proved!SettledIsBacked
    <3>1. Proved!Backed(b, row[b])
      BY DEF LifecycleInv, Proved!BackedInv, Proved!SettledIsBacked
    <3>2. CASE row'[b] = row[b]
      BY <3>1, <3>2 DEF Proved!Backed, Proved!Justified
    <3>3. CASE row'[b].status \in {"PROCESSING", "FAILED", "BLOCKED"}
      BY <3>3 DEF Proved!Backed, Proved!Settled
    <3>4. QED
      BY <3>2, <3>3
  <2>2. \A b \in Boletos : Proved!NumberIsKnown(b, row[b])'
    BY DEF LifecycleInv, Proved!BackedInv, Proved!MemoryIsBacked,
       Proved!NumberIsKnown
  <2>3. /\ \A e \in Emitters : Proved!EmitBacked(e)'
        /\ \A r \in Receivers : Proved!RecvBacked(r)'
        /\ \A s \in Syncers : Proved!SyncBacked(s)'
        /\ Proved!MockIsInstant'
    BY DEF LifecycleInv, Proved!BackedInv, Proved!MemoryIsBacked,
       Proved!EmitBacked, Proved!RecvBacked, Proved!SyncBacked,
       Proved!MockIsInstant, Proved!NumberIsKnown, Proved!Backed
  <2>4. QED
    BY <2>1, <2>2, <2>3 DEF Proved!BackedInv, Proved!MemoryIsBacked
<1>3. Proved!ReissueInv'
  BY DEF LifecycleInv, Proved!ReissueInv, Proved!EmissionsReadNoNumber,
     Proved!CreatedHasNoNumber, Proved!PollsAreAnswers
<1>4. Proved!ReservationInv'
  BY DEF LifecycleInv, Proved!ReservationInv, Proved!AppliedOnce,
     Proved!AppliedIsReserved, Proved!Applying
<1>5. Proved!PaymentDateIsReal' /\ Proved!RefusalsAreReal'
  BY DEF LifecycleInv, Proved!PaymentDateIsReal, Proved!RefusalsAreReal
<1>6. QED
  BY <1>1, <1>2, <1>3, <1>4, <1>5 DEF LifecycleInv

(* So does the end of a process, which takes its call of Emit with it.      *)
LEMMA DeathKeepsLifecycle ==
  ASSUME LifecycleInv, NEW w \in Emitters,
         emit' = [emit EXCEPT ![w] = Lifecycle!Idle],
         UNCHANGED <<row, paidAt, event, title, recv, sync, applied>>
  PROVE  LifecycleInv'
<1>1. Proved!TypeOK'
  BY SameWords DEF LifecycleInv, Proved!TypeOK
<1>2. \A e \in Emitters : emit'[e] = emit[e] \/ emit'[e] = Proved!Idle
  BY SameWords DEF LifecycleInv, Proved!TypeOK
<1>3. Proved!BackedInv'
  <2>1. Proved!SettledIsBacked' /\ Proved!MockIsInstant'
    BY DEF LifecycleInv, Proved!BackedInv, Proved!MemoryIsBacked,
       Proved!SettledIsBacked, Proved!MockIsInstant, Proved!Backed
  <2>2. \A e \in Emitters : Proved!EmitBacked(e)'
    BY <1>2 DEF LifecycleInv, Proved!BackedInv, Proved!MemoryIsBacked,
       Proved!EmitBacked, Proved!NumberIsKnown
  <2>3. /\ \A b \in Boletos : Proved!NumberIsKnown(b, row[b])'
        /\ \A r \in Receivers : Proved!RecvBacked(r)'
        /\ \A s \in Syncers : Proved!SyncBacked(s)'
    BY DEF LifecycleInv, Proved!BackedInv, Proved!MemoryIsBacked,
       Proved!RecvBacked, Proved!SyncBacked, Proved!NumberIsKnown,
       Proved!Backed
  <2>4. QED
    BY <2>1, <2>2, <2>3 DEF Proved!BackedInv, Proved!MemoryIsBacked
<1>4. Proved!ReissueInv'
  BY <1>2 DEF LifecycleInv, Proved!ReissueInv, Proved!EmissionsReadNoNumber,
     Proved!CreatedHasNoNumber, Proved!PollsAreAnswers
<1>5. Proved!ReservationInv'
  BY DEF LifecycleInv, Proved!ReservationInv, Proved!AppliedOnce,
     Proved!AppliedIsReserved, Proved!Applying
<1>6. Proved!PaymentDateIsReal' /\ Proved!RefusalsAreReal'
  BY DEF LifecycleInv, Proved!PaymentDateIsReal, Proved!RefusalsAreReal
<1>7. QED
  BY <1>1, <1>3, <1>4, <1>5, <1>6 DEF LifecycleInv

(* What a claim and a verdict write is of that kind.                       *)
LEMMA ClaimRelabels ==
  ASSUME LifecycleInv, NEW w \in Workers, ClaimPending(w)
  PROVE  /\ row' \in [Boletos -> Proved!Copy]
         /\ \A b \in Boletos : \/ row'[b] = row[b]
                               \/ /\ row'[b].our = row[b].our
                                  /\ row'[b].status = "PROCESSING"
<1>1. PICK batch \in SUBSET Claimable :
         row' = [b \in Boletos |->
                   IF b \in batch
                   THEN Lifecycle!WithStatus(row[b], "PROCESSING")
                   ELSE row[b]]
  BY DEF ClaimPending
<1>2. \A b \in Boletos : row[b] \in Proved!Copy
  BY DEF LifecycleInv, Proved!TypeOK
<1>3. \A b \in Boletos :
         Lifecycle!WithStatus(row[b], "PROCESSING") \in Proved!Copy
  BY <1>2 DEF Lifecycle!WithStatus, Proved!Copy, Proved!StoredStatuses,
     Proved!KnownStatuses
<1>4. QED
  BY <1>1, <1>2, <1>3 DEF Lifecycle!WithStatus

LEMMA MarkRelabels ==
  ASSUME LifecycleInv, NEW b \in Boletos, NEW verdict \in {"FAILED", "BLOCKED"},
         Mark(b, verdict)
  PROVE  /\ row' \in [Boletos -> Proved!Copy]
         /\ \A c \in Boletos : \/ row'[c] = row[c]
                               \/ /\ c = b
                                  /\ row'[c].our = row[c].our
                                  /\ row'[c].status = verdict
                                  /\ row[c].status \in {"CREATED", "PROCESSING"}
<1>1. row \in [Boletos -> Proved!Copy]
  BY DEF LifecycleInv, Proved!TypeOK
<1>2. CASE UNCHANGED row
  BY <1>1, <1>2
<1>3. CASE /\ row[b].status \in {"CREATED", "PROCESSING"}
           /\ row' = [row EXCEPT ![b].status = verdict]
  BY <1>1, <1>3 DEF Proved!Copy, Proved!StoredStatuses, Proved!KnownStatuses
<1>4. QED
  BY <1>2, <1>3 DEF Mark

(* The verdicts of the loop, and the boletos they are about.               *)
LEMMA VerdictIsTyped ==
  ASSUME TypeOK, NEW w \in Workers, worker[w].pc = "terminal"
  PROVE  /\ worker[w] \in Judging
         /\ worker[w].boleto \in Boletos
         /\ worker[w].verdict \in {"FAILED", "BLOCKED"}
<1>1. worker[w] \in Resting \cup Emitting \cup Judging
  BY DEF TypeOK
<1>2. worker[w] \notin Resting /\ worker[w] \notin Emitting
  BY DEF Resting, Emitting
<1>3. QED
  BY <1>1, <1>2 DEF Judging

(* What BoletoLifecycle assumes of its constants, this module assumes too.  *)
LEMMA LifecycleIsAssumed ==
  /\ NoNumber \notin Numbers
  /\ ProviderOf \in [Boletos -> {"moncalieri", "mock"}]
  /\ CreatedAs \in [Boletos -> Proved!KnownStatuses]
  /\ Faults \in BOOLEAN /\ UnlistedTexts \in BOOLEAN
  BY LifecycleAssumption DEF Proved!KnownStatuses

(* Every property of the handlers that BoletoLifecycleProofs shows survives  *)
(* the claims, the verdicts and the crashes of the campaign's own loop.     *)
LEMMA LifecycleIsKept ==
  ASSUME TypeOK, LifecycleInv, [Next]_vars
  PROVE  LifecycleInv'
<1>1. CASE [Proved!Next]_(Proved!vars)
  BY <1>1, Proved!TypeIsKept, Proved!BackedIsKept, Proved!ReissueIsKept,
     Proved!ReservationIsKept, Proved!PaymentDateIsKept,
     Proved!RefusalsAreKept, LifecycleIsAssumed DEF LifecycleInv
<1>2. ASSUME NEW w \in Workers, ClaimPending(w)
      PROVE  LifecycleInv'
  BY <1>2, ClaimRelabels, RelabelKeepsLifecycle DEF ClaimPending
<1>3. ASSUME NEW w \in Workers, MarkBoletoTerminal(w)
      PROVE  LifecycleInv'
  <2>1. /\ worker[w].boleto \in Boletos
        /\ worker[w].verdict \in {"FAILED", "BLOCKED"}
        /\ Mark(worker[w].boleto, worker[w].verdict)
    BY <1>3, VerdictIsTyped DEF MarkBoletoTerminal
  <2>2. UNCHANGED <<paidAt, event, title, emit, recv, sync, applied>>
    BY <1>3 DEF MarkBoletoTerminal
  <2>3. QED
    BY <2>1, <2>2, MarkRelabels, RelabelKeepsLifecycle
<1>4. ASSUME NEW w \in Workers, Exit(w)
      PROVE  LifecycleInv'
  BY <1>4, WorkerAssumption, DeathKeepsLifecycle DEF Exit
<1>5. QED
  BY <1>1, <1>2, <1>3, <1>4, StepIsKnown

-----------------------------------------------------------------------------
(* What the steps of a call of Emit do to its memory, and to no other's.    *)
LEMMA CallsAreSeparate ==
  ASSUME Lifecycle!TypeOK, NEW e \in Emitters, Lifecycle!EmitStep(e),
         NEW x \in Emitters, x # e
  PROVE  emit'[x] = emit[x]
  BY DEF Lifecycle!TypeOK, Lifecycle!EmitStep, Lifecycle!EmitRead,
     Lifecycle!EmitMark, Lifecycle!IssueAccepted, Lifecycle!IssueRefused,
     Lifecycle!AnswerLost, Lifecycle!EmitStore, Lifecycle!EmitFail,
     Lifecycle!EmitAbandon

LEMMA CallBegins ==
  ASSUME Lifecycle!TypeOK, NEW e \in Emitters, NEW b \in Boletos,
         Lifecycle!EmitRead(e, b)
  PROVE  emit'[e] # Lifecycle!Idle /\ emit'[e].boleto = b
<1>1. emit'[e] = [pc |-> "mark", boleto |-> b, copy |-> row[b]]
  BY DEF Lifecycle!TypeOK, Lifecycle!EmitRead
<1>2. emit'[e].pc = "mark" /\ emit'[e].boleto = b
  BY <1>1
<1>3. QED
  BY <1>2 DEF Lifecycle!Idle

LEMMA CallGoesOn ==
  ASSUME Lifecycle!TypeOK, NEW e \in Emitters,
         \/ Lifecycle!EmitMark(e) \/ Lifecycle!IssueAccepted(e)
         \/ Lifecycle!IssueRefused(e) \/ Lifecycle!AnswerLost(e)
  PROVE  /\ emit[e] # Lifecycle!Idle
         /\ emit'[e] # Lifecycle!Idle
         /\ emit'[e].boleto = emit[e].boleto
<1>1. emit[e] # Lifecycle!Idle
  BY DEF Lifecycle!EmitMark, Lifecycle!IssueAccepted, Lifecycle!IssueRefused,
     Lifecycle!AnswerLost, Lifecycle!Idle
<1>2. emit[e] \in Lifecycle!EmitCall \cup Lifecycle!AnsweredCall
  BY <1>1 DEF Lifecycle!TypeOK
<1>3. emit \in [Emitters -> {Lifecycle!Idle} \cup Lifecycle!EmitCall
                              \cup Lifecycle!AnsweredCall]
  BY DEF Lifecycle!TypeOK
<1>4. CASE Lifecycle!EmitMark(e)
  <2>1. emit[e] \in Lifecycle!EmitCall
    BY <1>2, <1>4 DEF Lifecycle!EmitMark, Lifecycle!AnsweredCall
  <2>2. PICK copy : emit' = [emit EXCEPT ![e].pc = "issue", ![e].copy = copy]
    BY <1>4 DEF Lifecycle!EmitMark
  <2>3. emit'[e].pc = "issue" /\ emit'[e].boleto = emit[e].boleto
    BY <1>3, <2>1, <2>2 DEF Lifecycle!EmitCall
  <2>4. QED
    BY <1>1, <2>3 DEF Lifecycle!Idle
<1>5. CASE Lifecycle!IssueAccepted(e)
  <2>1. PICK n \in Numbers :
           emit' = [emit EXCEPT ![e] =
                      [pc |-> "answered", boleto |-> emit[e].boleto,
                       copy |-> emit[e].copy, num |-> n]]
    BY <1>5 DEF Lifecycle!IssueAccepted
  <2>2. emit'[e].pc = "answered" /\ emit'[e].boleto = emit[e].boleto
    BY <1>3, <2>1
  <2>3. QED
    BY <1>1, <2>2 DEF Lifecycle!Idle
<1>6. CASE Lifecycle!IssueRefused(e)
  <2>1. emit[e] \in Lifecycle!EmitCall
    BY <1>2, <1>6 DEF Lifecycle!IssueRefused, Lifecycle!AnsweredCall
  <2>2. emit'[e].pc = "failing" /\ emit'[e].boleto = emit[e].boleto
    BY <1>3, <1>6, <2>1 DEF Lifecycle!IssueRefused, Lifecycle!EmitCall
  <2>3. QED
    BY <1>1, <2>2 DEF Lifecycle!Idle
<1>7. CASE Lifecycle!AnswerLost(e)
  <2>1. emit' = [emit EXCEPT ![e] =
                   [pc |-> "failing", boleto |-> emit[e].boleto,
                    copy |-> emit[e].copy]]
    BY <1>7 DEF Lifecycle!AnswerLost
  <2>2. emit'[e].pc = "failing" /\ emit'[e].boleto = emit[e].boleto
    BY <1>3, <2>1
  <2>3. QED
    BY <1>1, <2>2 DEF Lifecycle!Idle
<1>8. QED
  BY <1>4, <1>5, <1>6, <1>7

LEMMA CallEnds ==
  ASSUME Lifecycle!TypeOK, NEW e \in Emitters,
         \/ Lifecycle!EmitStore(e) \/ Lifecycle!EmitFail(e)
         \/ Lifecycle!EmitAbandon(e)
  PROVE  emit[e] # Lifecycle!Idle /\ emit'[e] = Lifecycle!Idle
  BY DEF Lifecycle!TypeOK, Lifecycle!EmitStore, Lifecycle!EmitFail,
     Lifecycle!EmitAbandon, Lifecycle!Idle

-----------------------------------------------------------------------------
(* A loop that is not in Emit and has no verdict to store carries neither.  *)
LEMMA LoopIsTyped ==
  ASSUME TypeOK, NEW w \in Workers
  PROVE  /\ worker[w].pc \in {"down", "claim", "next", "serving"}
               => worker[w] \in Resting
         /\ worker[w].pc = "emit" => worker[w] \in Emitting
         /\ worker[w].pc = "terminal" => worker[w] \in Judging
         /\ worker[w].todo \subseteq Boletos
<1>1. worker[w] \in Resting \cup Emitting \cup Judging
  BY DEF TypeOK
<1>2. QED
  BY <1>1 DEF Resting, Emitting, Judging

(* One loop moves: what has to be shown of where it moves to.              *)
LEMMA LoopMoves ==
  ASSUME TypeOK, LoopRunsEmit, NEW w \in Workers,
         NEW new \in Resting \cup Emitting \cup Judging,
         worker' = [worker EXCEPT ![w] = new],
         UNCHANGED origin, new.todo \subseteq Members,
         \A x \in Workers : x # w => emit'[x] = emit[x],
         new.pc = "emit" =>
            emit'[w] # Lifecycle!Idle /\ emit'[w].boleto = new.boleto,
         new.pc # "emit" => emit'[w] = Lifecycle!Idle,
         new.pc \in {"emit", "terminal"} => new.boleto \in new.todo
  PROVE  /\ worker' \in [Workers -> Resting \cup Emitting \cup Judging]
         /\ \A x \in Workers : worker'[x].todo \subseteq Members'
         /\ LoopRunsEmit'
<1>1. worker \in [Workers -> Resting \cup Emitting \cup Judging]
  BY DEF TypeOK
<1>2. worker'[w] = new /\ \A x \in Workers : x # w => worker'[x] = worker[x]
  BY <1>1
<1>3. worker' \in [Workers -> Resting \cup Emitting \cup Judging]
  BY <1>1
<1>4. Members' = Members /\ \A x \in Workers : worker[x].todo \subseteq Members
  BY DEF Members, TypeOK
<1>5. \A x \in Workers : worker'[x].todo \subseteq Members'
  BY <1>2, <1>4
<1>6. LoopRunsEmit'
  BY <1>2 DEF LoopRunsEmit, Lifecycle!Idle
<1>7. QED
  BY <1>3, <1>5, <1>6

(* No loop moves.                                                          *)
LEMMA LoopsRest ==
  ASSUME TypeOK, LoopRunsEmit, UNCHANGED worker, Members \subseteq Members',
         \A x \in Workers : emit'[x] = emit[x]
  PROVE  /\ worker' \in [Workers -> Resting \cup Emitting \cup Judging]
         /\ \A x \in Workers : worker'[x].todo \subseteq Members'
         /\ LoopRunsEmit'
  BY DEF TypeOK, LoopRunsEmit

(* What another actor's step leaves to the loops.                          *)
LEMMA ElsewhereSparesLoops ==
  ASSUME Lifecycle!TypeOK, Elsewhere, NEW w \in Workers
  PROVE  emit'[w] = emit[w]
<1>1. ASSUME NEW e \in Emitters \ Workers, Lifecycle!EmitStep(e)
      PROVE  emit'[w] = emit[w]
  BY <1>1, WorkerAssumption, CallsAreSeparate
<1>2. ASSUME NEW b \in Boletos, NEW n \in Numbers, Lifecycle!BankMoves(b, n)
      PROVE  emit'[w] = emit[w]
  BY <1>2 DEF Lifecycle!BankMoves
<1>3. ASSUME NEW r \in Receivers, Lifecycle!RecvStep(r)
      PROVE  emit'[w] = emit[w]
  BY <1>3 DEF Lifecycle!RecvStep, Lifecycle!RecvFind, Lifecycle!Reserve,
     Lifecycle!RecvStore, Lifecycle!RecvStoreFails, Lifecycle!Release,
     Lifecycle!Deliver, Lifecycle!RecvAbandon
<1>4. ASSUME NEW s \in Syncers, Lifecycle!SyncStep(s)
      PROVE  emit'[w] = emit[w]
  BY <1>4 DEF Lifecycle!SyncStep, Lifecycle!SyncRead, Lifecycle!SyncConsult,
     Lifecycle!SyncStore, Lifecycle!SyncAbandon
<1>5. QED
  BY <1>1, <1>2, <1>3, <1>4 DEF Elsewhere

\* The part of TypeOK and LoopRunsEmit that is about the loops.
LoopsTyped ==
    /\ worker \in [Workers -> Resting \cup Emitting \cup Judging]
    /\ \A x \in Workers : worker[x].todo \subseteq Members
    /\ LoopRunsEmit

(* Every step of a loop leads from a typed place to a typed place.          *)
LEMMA LoopsAreKept ==
  ASSUME TypeOK, LoopRunsEmit, NEW w \in Workers, WorkerStep(w)
  PROVE  LoopsTyped'
<1> USE DEF LoopsTyped
<1>a. w \in Emitters /\ Lifecycle!TypeOK
  BY WorkerAssumption DEF TypeOK
<1>b. worker[w].todo \subseteq Members
  BY DEF TypeOK
<1>c. Members \subseteq Boletos
  BY DEF Members
<1>d. worker[w].pc # "emit" => emit[w] = Lifecycle!Idle
  BY DEF LoopRunsEmit
<1>e. emit[w] # Lifecycle!Idle =>
         /\ worker[w].pc = "emit" /\ worker[w] \in Emitting
         /\ emit[w].boleto = worker[w].boleto
         /\ worker[w].boleto \in worker[w].todo
         /\ worker[w].boleto \in Boletos
  BY LoopIsTyped DEF LoopRunsEmit, Emitting
<1>1. CASE Boot(w) \/ FinishIfDone(w) \/ IssuerGivesUp(w)
  <2>1. worker[w] \in Resting /\ worker[w].pc # "emit"
    BY <1>1, LoopIsTyped DEF Boot, FinishIfDone, IssuerGivesUp
  <2>2. PICK pc \in {"claim", "serving"} :
           worker' = [worker EXCEPT ![w] = [worker[w] EXCEPT !.pc = pc]]
    BY <1>1 DEF Boot, FinishIfDone, IssuerGivesUp, Goto
  <2> DEFINE new == [worker[w] EXCEPT !.pc = pc]
  <2>3. new \in Resting /\ new.pc = pc /\ new.todo = worker[w].todo
    BY <2>1 DEF Resting
  <2>4. UNCHANGED <<emit, origin>>
    BY <1>1 DEF Boot, FinishIfDone, IssuerGivesUp, boletoVars, campaignVars
  <2> HIDE DEF new
  <2>5. worker' = [worker EXCEPT ![w] = new]
    BY <2>2 DEF new
  <2>6. QED
    BY <1>b, <1>d, <2>1, <2>3, <2>4, <2>5, LoopMoves
<1>2. CASE ClaimPending(w)
  <2>1. PICK batch \in SUBSET Claimable :
           worker' = [worker EXCEPT ![w] = [pc |-> "next", todo |-> batch]]
    BY <1>2 DEF ClaimPending
  <2>2. batch \subseteq Members
    BY DEF Claimable
  <2> DEFINE new == [pc |-> "next", todo |-> batch]
  <2>3. new \in Resting /\ new.pc = "next" /\ new.todo = batch
    BY <1>c, <2>2 DEF Resting
  <2>4. emit[w] = Lifecycle!Idle /\ UNCHANGED <<emit, origin>>
    BY <1>2, <1>d DEF ClaimPending, campaignVars
  <2> HIDE DEF new
  <2>5. worker' = [worker EXCEPT ![w] = new]
    BY <2>1 DEF new
  <2>6. QED
    BY <2>2, <2>3, <2>4, <2>5, LoopMoves
<1>3. ASSUME NEW b \in Boletos, EmitNext(w, b)
      PROVE  LoopsTyped'
  <2> DEFINE new == [pc |-> "emit", todo |-> worker[w].todo, boleto |-> b]
  <2>1. new \in Emitting /\ new.todo \subseteq Members /\ b \in new.todo
    BY <1>3, <1>b, <1>c DEF EmitNext, Emitting
  <2>2. Lifecycle!EmitRead(w, b)
    BY <1>3 DEF EmitNext
  <2>3. emit'[w] # Lifecycle!Idle /\ emit'[w].boleto = b
    BY <1>a, <2>2, CallBegins
  <2>4. \A x \in Workers : x # w => emit'[x] = emit[x]
    BY <1>a, <2>2, WorkerAssumption, CallsAreSeparate DEF Lifecycle!EmitStep
  <2>5. worker' = [worker EXCEPT ![w] = new] /\ UNCHANGED origin
    BY <1>3 DEF EmitNext, campaignVars
  <2>6. new.pc = "emit" /\ new.boleto = b
    OBVIOUS
  <2> HIDE DEF new
  <2>7. QED
    BY <2>1, <2>3, <2>4, <2>5, <2>6, LoopMoves
<1>4. ASSUME NEW b \in Boletos, EmitAlreadyIssued(w, b)
      PROVE  LoopsTyped'
  <2>1. worker[w] \in Resting /\ worker[w].pc = "next"
    BY <1>4, LoopIsTyped DEF EmitAlreadyIssued
  <2> DEFINE new == [worker[w] EXCEPT !.todo = worker[w].todo \ {b}]
  <2>2. new \in Resting /\ new.pc = "next" /\ new.todo \subseteq Members
    BY <1>b, <2>1 DEF Resting
  <2>3. UNCHANGED <<emit, origin>>
    BY <1>4 DEF EmitAlreadyIssued, boletoVars, campaignVars
  <2>4. worker' = [worker EXCEPT ![w] = new]
    BY <1>4 DEF EmitAlreadyIssued
  <2> HIDE DEF new
  <2>5. QED
    BY <1>d, <2>1, <2>2, <2>3, <2>4, LoopMoves
<1>5. ASSUME NEW b \in Boletos, b \in worker[w].todo,
             NEW verdict \in {"FAILED", "BLOCKED"}, Failed(w, b, verdict),
             emit'[w] = Lifecycle!Idle, UNCHANGED origin,
             \A x \in Workers : x # w => emit'[x] = emit[x]
      PROVE  LoopsTyped'
  <2> DEFINE new == [pc |-> "terminal", todo |-> worker[w].todo,
                     boleto |-> b, verdict |-> verdict]
  <2>1. new \in Judging
    BY <1>b, <1>c DEF Judging
  <2>2. new.pc = "terminal" /\ new.todo = worker[w].todo /\ new.boleto = b
    OBVIOUS
  <2>3. worker' = [worker EXCEPT ![w] = new]
    BY <1>5 DEF Failed
  <2> HIDE DEF new
  <2>4. QED
    BY <1>5, <1>b, <2>1, <2>2, <2>3, LoopMoves
<1>6. ASSUME NEW b \in Boletos, EmitRejected(w, b)
      PROVE  LoopsTyped'
  BY <1>5, <1>6, <1>d DEF EmitRejected, boletoVars, campaignVars
<1>7. CASE EmitMark(w) \/ IssueAccepted(w) \/ IssueRefused(w) \/ AnswerLost(w)
  <2>1. \/ Lifecycle!EmitMark(w) \/ Lifecycle!IssueAccepted(w)
        \/ Lifecycle!IssueRefused(w) \/ Lifecycle!AnswerLost(w)
    BY <1>7 DEF EmitMark, IssueAccepted, IssueRefused, AnswerLost, InLoop
  <2>2. UNCHANGED <<worker, origin>>
    BY <1>7 DEF EmitMark, IssueAccepted, IssueRefused, AnswerLost, InLoop,
       campaignVars, issuerVars
  <2>3. /\ emit[w] # Lifecycle!Idle /\ emit'[w] # Lifecycle!Idle
        /\ emit'[w].boleto = emit[w].boleto
    BY <1>a, <2>1, CallGoesOn
  <2>4. \A x \in Workers : x # w => emit'[x] = emit[x]
    BY <1>a, <2>1, WorkerAssumption, CallsAreSeparate DEF Lifecycle!EmitStep
  <2>5. worker' = [worker EXCEPT ![w] = worker[w]]
    BY <2>2 DEF TypeOK
  <2>6. QED
    BY <1>b, <1>e, <2>2, <2>3, <2>4, <2>5, LoopMoves
<1>8. ASSUME worker' = [worker EXCEPT ![w] = Done(w)], UNCHANGED origin,
             emit'[w] = Lifecycle!Idle,
             \A x \in Workers : x # w => emit'[x] = emit[x]
      PROVE  LoopsTyped'
  <2>1. Done(w) \in Resting /\ Done(w).pc = "next" /\ Done(w).todo \subseteq Members
    BY <1>b, <1>c DEF Done, Resting
  <2> HIDE DEF Done
  <2>2. QED
    BY <1>8, <2>1, LoopMoves
<1>9. CASE EmitSucceeds(w)
  <2>1. Lifecycle!EmitStore(w)
    BY <1>9 DEF EmitSucceeds
  <2>2. emit'[w] = Lifecycle!Idle
    BY <1>a, <2>1, CallEnds
  <2>3. \A x \in Workers : x # w => emit'[x] = emit[x]
    BY <1>a, <2>1, WorkerAssumption, CallsAreSeparate DEF Lifecycle!EmitStep
  <2>4. QED
    BY <1>8, <1>9, <2>2, <2>3 DEF EmitSucceeds, campaignVars
<1>10. CASE EmitErrs(w)
  <2>1. Lifecycle!EmitFail(w) \/ Lifecycle!EmitAbandon(w)
    BY <1>10 DEF EmitErrs
  <2>2. emit[w] # Lifecycle!Idle /\ emit'[w] = Lifecycle!Idle
    BY <1>a, <2>1, CallEnds
  <2>3. \A x \in Workers : x # w => emit'[x] = emit[x]
    BY <1>a, <2>1, WorkerAssumption, CallsAreSeparate DEF Lifecycle!EmitStep
  <2>4. PICK verdict \in {"FAILED", "BLOCKED"} :
           Failed(w, worker[w].boleto, verdict)
    BY <1>10 DEF EmitErrs
  <2>5. QED
    BY <1>5, <1>10, <1>e, <2>2, <2>3, <2>4 DEF EmitErrs, campaignVars
<1>11. CASE MarkBoletoTerminal(w) \/ MarkLost(w)
  BY <1>8, <1>11, <1>d
     DEF MarkBoletoTerminal, MarkLost, boletoVars, campaignVars
<1>12. CASE Stop(w)
  BY <1>12, LoopsRest DEF Stop, boletoVars, campaignVars, Members
<1>13. CASE Exit(w)
  <2>1. Down \in Resting /\ Down.pc = "down" /\ Down.todo = {}
    BY DEF Down, Resting
  <2>2. emit'[w] = Lifecycle!Idle /\ \A x \in Workers : x # w => emit'[x] = emit[x]
    BY <1>13, <1>a, WorkerAssumption DEF Exit, Lifecycle!TypeOK
  <2> HIDE DEF Down
  <2>3. QED
    BY <1>13, <2>1, <2>2, LoopMoves DEF Exit, campaignVars
<1>14. QED
  BY <1>1, <1>2, <1>3, <1>4, <1>6, <1>7, <1>9, <1>10, <1>11, <1>12, <1>13
     DEF WorkerStep

\* The rest of TypeOK.
CampaignTyped ==
    /\ campaign \in {"DRAFT", "READY", "PROCESSING", "COMPLETED", "PARTIAL"}
    /\ confirmed \subseteq Imports
    /\ confirming \in [Requests -> Imports \cup {NoImport}]
    /\ origin \in [Boletos -> Imports \cup {NoImport}]
    /\ claim \in [Boletos -> {"null", "fresh", "old"}]
    /\ stopping \subseteq Workers
    /\ overrun \in [Workers -> SUBSET Boletos]

(* An import's boletos are new to the campaign: none ever leaves it.        *)
LEMMA InsertKeepsMembers ==
  ASSUME TypeOK, NEW i \in Imports, NEW fresh \in SUBSET (Boletos \ Members),
         Insert(i, fresh)
  PROVE  /\ origin' \in [Boletos -> Imports \cup {NoImport}]
         /\ Members' = Members \cup fresh
<1>1. origin' = [b \in Boletos |-> IF b \in fresh THEN i ELSE origin[b]]
  BY DEF Insert
<1>2. i # NoImport
  BY ImportAssumption
<1>3. QED
  BY <1>1, <1>2 DEF TypeOK, Members

LEMMA CampaignIsTyped ==
  ASSUME TypeOK, [Next]_vars
  PROVE  CampaignTyped' /\ Members \subseteq Members'
<1> USE DEF CampaignTyped
<1>1. ASSUME NEW q \in Requests, NEW i \in Imports, ConfirmRead(q, i)
      PROVE  CampaignTyped' /\ Members \subseteq Members'
  BY <1>1 DEF ConfirmRead, TypeOK, issuerVars, Members
<1>2. ASSUME NEW q \in Requests, ConfirmImport(q)
      PROVE  CampaignTyped' /\ Members \subseteq Members'
  <2>1. confirming[q] \in Imports
    BY <1>2 DEF ConfirmImport, TypeOK
  <2>2. PICK fresh \in SUBSET (Boletos \ Members) : Insert(confirming[q], fresh)
    BY <1>2 DEF ConfirmImport
  <2>3. /\ origin' \in [Boletos -> Imports \cup {NoImport}]
        /\ Members \subseteq Members'
    BY <2>1, <2>2, InsertKeepsMembers
  <2>4. campaign' \in {"READY", campaign}
    BY <2>2 DEF Insert
  <2>5. confirmed' \subseteq Imports
    BY <2>1, <2>2 DEF Insert, TypeOK
  <2>6. QED
    BY <1>2, <2>3, <2>4, <2>5 DEF ConfirmImport, TypeOK, issuerVars
<1>3. ASSUME NEW q \in Requests, ConfirmRejected(q)
      PROVE  CampaignTyped' /\ Members \subseteq Members'
  BY <1>3 DEF ConfirmRejected, TypeOK, issuerVars, Members
<1>4. CASE Start
  BY <1>4 DEF Start, TypeOK, issuerVars, Members
<1>5. ASSUME NEW b \in Boletos, FiveMinutes(b)
      PROVE  CampaignTyped' /\ Members \subseteq Members'
  BY <1>5 DEF FiveMinutes, TypeOK, campaignVars, Members
<1>6. CASE Elsewhere \/ UNCHANGED vars
  BY <1>6 DEF Elsewhere, vars, TypeOK, campaignVars, issuerVars, Members
<1>7. ASSUME NEW w \in Workers, WorkerStep(w)
      PROVE  CampaignTyped' /\ Members \subseteq Members'
  <2>1. UNCHANGED <<confirmed, confirming, origin>>
    BY <1>7 DEF WorkerStep, Boot, ClaimPending, EmitNext, EmitAlreadyIssued,
       EmitRejected, EmitMark, IssueAccepted, IssueRefused, AnswerLost, InLoop,
       EmitSucceeds, EmitErrs, MarkBoletoTerminal, MarkLost, FinishIfDone,
       IssuerGivesUp, Stop, Exit, campaignVars
  <2>2. campaign' \in {campaign, "COMPLETED", "PARTIAL"}
    BY <1>7 DEF WorkerStep, Boot, ClaimPending, EmitNext, EmitAlreadyIssued,
       EmitRejected, EmitMark, IssueAccepted, IssueRefused, AnswerLost, InLoop,
       EmitSucceeds, EmitErrs, MarkBoletoTerminal, MarkLost, FinishIfDone,
       FinalStatus, IssuerGivesUp, Stop, Exit, campaignVars
  <2>3. claim' \in [Boletos -> {"null", "fresh", "old"}]
    <3>1. CASE ClaimPending(w)
      BY <3>1 DEF ClaimPending, TypeOK
    <3>2. CASE MarkBoletoTerminal(w)
      BY <3>2 DEF MarkBoletoTerminal, Mark, TypeOK
    <3>3. CASE UNCHANGED claim
      BY <3>3 DEF TypeOK
    <3>4. QED
      BY <1>7, <3>1, <3>2, <3>3 DEF WorkerStep, Boot, EmitNext,
         EmitAlreadyIssued, EmitRejected, EmitMark, IssueAccepted,
         IssueRefused, AnswerLost, InLoop, EmitSucceeds, EmitErrs, MarkLost,
         FinishIfDone, IssuerGivesUp, Stop, Exit, campaignVars, issuerVars
  <2>4. stopping' \subseteq Workers
    BY <1>7 DEF TypeOK, WorkerStep, Boot, ClaimPending, EmitNext,
       EmitAlreadyIssued, EmitRejected, EmitMark, IssueAccepted, IssueRefused,
       AnswerLost, InLoop, EmitSucceeds, EmitErrs, MarkBoletoTerminal,
       MarkLost, FinishIfDone, IssuerGivesUp, Stop, Exit, issuerVars
  <2>5. overrun' \in [Workers -> SUBSET Boletos]
    BY <1>7 DEF TypeOK, WorkerStep, Boot, ClaimPending, EmitNext,
       EmitAlreadyIssued, EmitRejected, EmitMark, IssueAccepted, IssueRefused,
       AnswerLost, InLoop, EmitSucceeds, EmitErrs, MarkBoletoTerminal,
       MarkLost, FinishIfDone, IssuerGivesUp, Stop, Exit, issuerVars
  <2>6. QED
    BY <2>1, <2>2, <2>3, <2>4, <2>5 DEF TypeOK, Members
<1>8. QED
  BY <1>1, <1>2, <1>3, <1>4, <1>5, <1>6, <1>7 DEF Next

\* TypeOK is inductive together with what ties the loops to their calls.
TypeInv == TypeOK /\ LoopRunsEmit /\ LifecycleInv

LEMMA TypeInvHolds == Spec => []TypeInv
<1>1. Init => TypeInv
  <2> SUFFICES ASSUME Init PROVE TypeInv
    OBVIOUS
  <2>1. LifecycleInv
    <3>1. Proved!Init
      BY SameTypes DEF Init
    <3>2. QED
      BY <3>1, Proved!LifecycleStarts, LifecycleIsAssumed DEF LifecycleInv
  <2>2. Lifecycle!TypeOK
    BY <2>1, SameTypes DEF LifecycleInv
  <2>3. Down \in Resting /\ Down.pc = "down" /\ Down.todo = {}
    BY DEF Down, Resting
  <2>4. worker = [w \in Workers |-> Down] /\ emit = [e \in Emitters |-> Lifecycle!Idle]
    BY DEF Init, Lifecycle!Init
  <2> HIDE DEF Down
  <2>5. LoopRunsEmit
    BY <2>3, <2>4, WorkerAssumption DEF LoopRunsEmit
  <2>6. TypeOK
    BY <2>2, <2>3, <2>4 DEF Init, TypeOK
  <2>7. QED
    BY <2>1, <2>5, <2>6 DEF TypeInv
<1>2. TypeInv /\ [Next]_vars => TypeInv'
  <2> SUFFICES ASSUME TypeInv, [Next]_vars PROVE TypeInv'
    OBVIOUS
  <2> USE DEF TypeInv
  <2>1. LifecycleInv' /\ Lifecycle!TypeOK'
    BY LifecycleIsKept, SameTypes DEF LifecycleInv
  <2>2. CampaignTyped' /\ Members \subseteq Members'
    BY CampaignIsTyped
  <2>3. LoopsTyped'
    <3>1. ASSUME NEW w \in Workers, WorkerStep(w)
          PROVE  LoopsTyped'
      BY <3>1, LoopsAreKept
    <3>2. CASE \/ \E q \in Requests, i \in Imports : ConfirmRead(q, i)
               \/ \E q \in Requests : ConfirmImport(q) \/ ConfirmRejected(q)
               \/ Start
               \/ \E b \in Boletos : FiveMinutes(b)
               \/ UNCHANGED vars
      <4>1. UNCHANGED <<worker, emit>>
        BY <3>2 DEF ConfirmRead, ConfirmImport, ConfirmRejected, Start,
           FiveMinutes, vars, boletoVars, issuerVars
      <4>2. QED
        BY <2>2, <4>1, LoopsRest DEF LoopsTyped
    <3>3. CASE Elsewhere
      <4>1. UNCHANGED worker
        BY <3>3 DEF Elsewhere, issuerVars
      <4>2. \A w \in Workers : emit'[w] = emit[w]
        BY <3>3, ElsewhereSparesLoops DEF TypeOK
      <4>3. QED
        BY <2>2, <4>1, <4>2, LoopsRest DEF LoopsTyped
    <3>4. QED
      BY <3>1, <3>2, <3>3 DEF Next
  <2>4. QED
    BY <2>1, <2>2, <2>3 DEF TypeOK, CampaignTyped, LoopsTyped
<1>3. QED
  BY <1>1, <1>2, PTL DEF Spec

(* Every variable keeps its type: what the loop is about to store is one of *)
(* its two verdicts, on a boleto of the campaign.                          *)
THEOREM IssuanceTypeCorrect == Spec => []TypeOK
<1>1. TypeInv => TypeOK
  BY DEF TypeInv
<1>2. QED
  BY <1>1, TypeInvHolds, PTL

(* What BoletoLifecycleProofs shows of the handlers alone holds of them in  *)
(* the composition: a row shows no outcome the bank did not reach for its    *)
(* number, no memory of a call is ahead of the bank, an item is applied      *)
(* once and a payment date is real, with the campaign's loop writing        *)
(* statuses and its process dying between.                                  *)
THEOREM LifecycleSurvives ==
  Spec => [](/\ Proved!SettledIsBacked /\ Proved!MemoryIsBacked
             /\ Proved!AppliedOnce /\ Proved!PaymentDateIsReal)
<1>1. TypeInv => /\ Proved!SettledIsBacked /\ Proved!MemoryIsBacked
                 /\ Proved!AppliedOnce /\ Proved!PaymentDateIsReal
  BY DEF TypeInv, LifecycleInv, Proved!BackedInv, Proved!ReservationInv
<1>2. QED
  BY <1>1, TypeInvHolds, PTL

-----------------------------------------------------------------------------
(* ClaimPendingBoletoIDs: exclusive claims.                                *)

\* A boleto in a batch is not up for a first claim, and if its claim is old
\* then its holder has had it for five minutes.
HeldIsClaimed ==
    \A w \in Workers : \A b \in worker[w].todo :
        /\ row[b].status # "CREATED"
        /\ claim[b] = "old" => b \in overrun[w]

ClaimInv == ClaimsAreExclusive /\ HeldIsClaimed

(* No statement makes a boleto CREATED.                                    *)
LEMMA NothingIsCreated ==
  ASSUME TypeInv, [Next]_vars, NEW b \in Boletos, row[b].status # "CREATED"
  PROVE  row'[b].status # "CREATED"
<1>1. CASE [Proved!Next]_(Proved!vars)
  <2>1. row'[b] # row[b] => row'[b].status # "CREATED"
    BY <1>1, Proved!StoresAreNotCreated, LifecycleIsAssumed
       DEF TypeInv, LifecycleInv, Proved!ReissueInv
  <2>2. QED
    BY <2>1
<1>2. ASSUME NEW w \in Workers, ClaimPending(w)
      PROVE  row'[b].status # "CREATED"
  BY <1>2, ClaimRelabels DEF TypeInv
<1>3. ASSUME NEW w \in Workers, MarkBoletoTerminal(w)
      PROVE  row'[b].status # "CREATED"
  <2>1. /\ worker[w].boleto \in Boletos
        /\ worker[w].verdict \in {"FAILED", "BLOCKED"}
        /\ Mark(worker[w].boleto, worker[w].verdict)
    BY <1>3, VerdictIsTyped DEF MarkBoletoTerminal, TypeInv
  <2>2. QED
    BY <2>1, MarkRelabels DEF TypeInv
<1>4. ASSUME NEW w \in Workers, Exit(w)
      PROVE  row'[b].status # "CREATED"
  BY <1>4 DEF Exit
<1>5. QED
  BY <1>1, <1>2, <1>3, <1>4, StepIsKnown

(* Only a claim gives a loop boletos, only time makes a claim old, and what *)
(* a process has overrun is forgotten only with its batch.                 *)
LEMMA HoldsOnlyShrink ==
  ASSUME TypeInv, [Next]_vars,
         ~ \E w \in Workers : ClaimPending(w),
         ~ \E b \in Boletos : FiveMinutes(b)
  PROVE  /\ \A w \in Workers : worker'[w].todo \subseteq worker[w].todo
         /\ \A b \in Boletos : claim'[b] = "old" => claim[b] = "old"
         /\ \A w \in Workers :
               overrun'[w] = overrun[w] \/ worker'[w].todo = {}
<1>1. CASE UNCHANGED <<worker, claim, overrun>>
  BY <1>1
<1>2. ASSUME NEW w \in Workers, WorkerStep(w)
      PROVE  /\ \A x \in Workers : worker'[x].todo \subseteq worker[x].todo
             /\ \A b \in Boletos : claim'[b] = "old" => claim[b] = "old"
             /\ \A x \in Workers :
                   overrun'[x] = overrun[x] \/ worker'[x].todo = {}
  <2>1. worker \in [Workers -> Resting \cup Emitting \cup Judging]
    BY DEF TypeInv, TypeOK
  <2>2. ASSUME NEW new, worker' = [worker EXCEPT ![w] = new],
               new.todo \subseteq worker[w].todo
        PROVE  \A x \in Workers : worker'[x].todo \subseteq worker[x].todo
    BY <2>1, <2>2
  <2>3. CASE Boot(w) \/ FinishIfDone(w) \/ IssuerGivesUp(w)
    <3>1. worker[w] \in Resting
      BY <2>3, LoopIsTyped DEF Boot, FinishIfDone, IssuerGivesUp, TypeInv
    <3>2. PICK pc : worker' = [worker EXCEPT ![w] = [worker[w] EXCEPT !.pc = pc]]
      BY <2>3 DEF Boot, FinishIfDone, IssuerGivesUp, Goto
    <3>3. [worker[w] EXCEPT !.pc = pc].todo = worker[w].todo
      BY <3>1 DEF Resting
    <3>4. UNCHANGED <<claim, overrun>>
      BY <2>3 DEF Boot, FinishIfDone, IssuerGivesUp
    <3>5. QED
      BY <2>2, <3>2, <3>3, <3>4
  <2>4. ASSUME NEW b \in Boletos, EmitNext(w, b)
        PROVE  UNCHANGED <<claim, overrun>>
               /\ \A x \in Workers : worker'[x].todo \subseteq worker[x].todo
    <3> DEFINE new == [pc |-> "emit", todo |-> worker[w].todo, boleto |-> b]
    <3>1. worker' = [worker EXCEPT ![w] = new] /\ new.todo = worker[w].todo
      BY <2>4 DEF EmitNext
    <3> HIDE DEF new
    <3>2. QED
      BY <2>2, <2>4, <3>1 DEF EmitNext
  <2>5. ASSUME NEW b, NEW verdict, Failed(w, b, verdict)
        PROVE  \A x \in Workers : worker'[x].todo \subseteq worker[x].todo
    <3> DEFINE new == [pc |-> "terminal", todo |-> worker[w].todo,
                       boleto |-> b, verdict |-> verdict]
    <3>1. worker' = [worker EXCEPT ![w] = new] /\ new.todo = worker[w].todo
      BY <2>5 DEF Failed
    <3> HIDE DEF new
    <3>2. QED
      BY <2>2, <3>1
  <2>6. ASSUME NEW b \in Boletos, EmitAlreadyIssued(w, b)
        PROVE  UNCHANGED <<claim, overrun>>
               /\ \A x \in Workers : worker'[x].todo \subseteq worker[x].todo
    <3>1. worker[w] \in Resting
      BY <2>6, LoopIsTyped DEF EmitAlreadyIssued, TypeInv
    <3> DEFINE new == [worker[w] EXCEPT !.todo = worker[w].todo \ {b}]
    <3>2. worker' = [worker EXCEPT ![w] = new]
      BY <2>6 DEF EmitAlreadyIssued
    <3>3. new.todo \subseteq worker[w].todo
      BY <3>1 DEF Resting
    <3> HIDE DEF new
    <3>4. QED
      BY <2>2, <2>6, <3>2, <3>3 DEF EmitAlreadyIssued
  <2>7. ASSUME worker' = [worker EXCEPT ![w] = Done(w)]
        PROVE  \A x \in Workers : worker'[x].todo \subseteq worker[x].todo
    <3>1. Done(w).todo \subseteq worker[w].todo
      BY DEF Done
    <3>2. QED
      BY <2>2, <2>7, <3>1
  <2>8. ASSUME NEW b \in Boletos, EmitRejected(w, b)
        PROVE  UNCHANGED <<claim, overrun>>
               /\ \A x \in Workers : worker'[x].todo \subseteq worker[x].todo
    BY <2>5, <2>8 DEF EmitRejected
  <2>9. CASE EmitErrs(w)
    BY <2>5, <2>9 DEF EmitErrs
  <2>10. CASE EmitSucceeds(w) \/ MarkLost(w)
    BY <2>7, <2>10 DEF EmitSucceeds, MarkLost
  <2>11. CASE MarkBoletoTerminal(w)
    <3>1. \A b \in Boletos : claim'[b] = "old" => claim[b] = "old"
      BY <2>11 DEF MarkBoletoTerminal, Mark, TypeInv, TypeOK
    <3>2. QED
      BY <2>7, <2>11, <3>1 DEF MarkBoletoTerminal
  <2>12. CASE Exit(w)
    <3>1. Down.todo = {}
      BY DEF Down
    <3>2. /\ worker'[w] = Down
          /\ \A x \in Workers : x # w => overrun'[x] = overrun[x]
      BY <2>1, <2>12 DEF Exit, TypeInv, TypeOK
    <3> HIDE DEF Down
    <3>3. QED
      BY <2>2, <2>12, <3>1, <3>2 DEF Exit
  <2>13. CASE Stop(w) \/ EmitMark(w) \/ IssueAccepted(w) \/ IssueRefused(w)
              \/ AnswerLost(w)
    BY <2>13 DEF Stop, EmitMark, IssueAccepted, IssueRefused, AnswerLost,
       InLoop, issuerVars
  <2>14. QED
    BY <1>2, <2>3, <2>4, <2>6, <2>8, <2>9, <2>10, <2>11, <2>12, <2>13
       DEF WorkerStep
<1>3. \/ \E q \in Requests, i \in Imports : ConfirmRead(q, i)
      \/ \E q \in Requests : ConfirmImport(q) \/ ConfirmRejected(q)
      \/ Start
      \/ Elsewhere
      \/ UNCHANGED vars
      => UNCHANGED <<worker, claim, overrun>>
  BY DEF ConfirmRead, ConfirmImport, ConfirmRejected, Start, Elsewhere, vars,
     issuerVars
<1>4. QED
  BY <1>1, <1>2, <1>3 DEF Next

LEMMA ClaimInvHolds == Spec => []ClaimInv
<1>1. Init => ClaimInv
  BY DEF Init, Down, ClaimInv, ClaimsAreExclusive, HeldIsClaimed
<1>2. TypeInv /\ ClaimInv /\ [Next]_vars => ClaimInv'
  <2> SUFFICES ASSUME TypeInv, ClaimInv, [Next]_vars PROVE ClaimInv'
    OBVIOUS
  <2>1. \A w \in Workers : worker[w].todo \subseteq Boletos
    BY LoopIsTyped DEF TypeInv
  <2>2. ASSUME NEW w \in Workers, ClaimPending(w)
        PROVE  ClaimInv'
    <3>1. PICK batch \in SUBSET Claimable :
             /\ row' = [b \in Boletos |->
                          IF b \in batch
                          THEN Lifecycle!WithStatus(row[b], "PROCESSING")
                          ELSE row[b]]
             /\ claim' = [b \in Boletos |-> IF b \in batch THEN "fresh"
                                            ELSE claim[b]]
             /\ worker' = [worker EXCEPT ![w] = [pc |-> "next", todo |-> batch]]
             /\ overrun' = [overrun EXCEPT ![w] = {}]
      BY <2>2 DEF ClaimPending
    <3>2. batch \subseteq Boletos
      BY DEF Claimable, Members
    <3>3. \A b \in batch : row'[b].status # "CREATED" /\ claim'[b] = "fresh"
      BY <3>1, <3>2 DEF Lifecycle!WithStatus
    <3>4. \A b \in Boletos \ batch : row'[b] = row[b] /\ claim'[b] = claim[b]
      BY <3>1
    <3>5. worker'[w].todo = batch
      BY <3>1 DEF TypeInv, TypeOK
    <3>6. \A v \in Workers : v # w => worker'[v] = worker[v]
      BY <3>1 DEF TypeInv, TypeOK
    <3>7. \A v \in Workers : v # w => overrun'[v] = overrun[v]
      BY <3>1 DEF TypeInv, TypeOK
    <3>8. HeldIsClaimed'
      BY <2>1, <3>3, <3>4, <3>5, <3>6, <3>7 DEF HeldIsClaimed, ClaimInv
    <3>9. \A v \in Workers, b \in batch :
             b \in worker[v].todo => b \in overrun[v]
      BY DEF HeldIsClaimed, ClaimInv, Claimable
    <3>10. ClaimsAreExclusive'
      BY <3>5, <3>6, <3>7, <3>9 DEF ClaimsAreExclusive, ClaimInv
    <3>11. QED
      BY <3>8, <3>10 DEF ClaimInv
  <2>3. ASSUME NEW b \in Boletos, FiveMinutes(b)
        PROVE  ClaimInv'
    <3>1. /\ UNCHANGED <<row, worker>>
          /\ claim' = [claim EXCEPT ![b] = "old"]
          /\ \A w \in Workers :
                overrun'[w] = IF b \in worker[w].todo
                              THEN overrun[w] \cup {b} ELSE overrun[w]
      BY <2>3 DEF FiveMinutes, boletoVars
    <3>2. HeldIsClaimed'
      BY <2>1, <3>1 DEF HeldIsClaimed, ClaimInv, TypeInv, TypeOK
    <3>3. ClaimsAreExclusive'
      BY <3>1 DEF ClaimsAreExclusive, ClaimInv
    <3>4. QED
      BY <3>2, <3>3 DEF ClaimInv
  <2>4. CASE /\ ~ \E w \in Workers : ClaimPending(w)
             /\ ~ \E b \in Boletos : FiveMinutes(b)
    <3>1. \A b \in Boletos : row[b].status # "CREATED" => row'[b].status # "CREATED"
      BY NothingIsCreated
    <3>2. /\ \A w \in Workers : worker'[w].todo \subseteq worker[w].todo
          /\ \A b \in Boletos : claim'[b] = "old" => claim[b] = "old"
          /\ \A w \in Workers :
                overrun'[w] = overrun[w] \/ worker'[w].todo = {}
      BY <2>4, HoldsOnlyShrink
    <3>3. HeldIsClaimed'
      BY <2>1, <3>1, <3>2 DEF HeldIsClaimed, ClaimInv
    <3>4. ClaimsAreExclusive'
      BY <3>2 DEF ClaimsAreExclusive, ClaimInv
    <3>5. QED
      BY <3>3, <3>4 DEF ClaimInv
  <2>5. QED
    BY <2>2, <2>3, <2>4
<1>3. QED
  BY <1>1, <1>2, TypeInvHolds, PTL DEF Spec

(* Two processes hold the same boleto only if one of them has held it for   *)
(* five minutes, for any number of processes, batches and restarts: nothing *)
(* makes a claimed boleto CREATED again under its holder's feet, and a       *)
(* claim becomes old only in the hands of those who still hold it.          *)
THEOREM ClaimsStayExclusive == Spec => []ClaimsAreExclusive
<1>1. ClaimInv => ClaimsAreExclusive
  BY DEF ClaimInv
<1>2. QED
  BY <1>1, ClaimInvHolds, PTL

-----------------------------------------------------------------------------
(* MarkBoletoTerminal: the verdicts of the loop.                            *)

(* The bank has registered the title a settled boleto carries.              *)
LEMMA SettledIsRegistered ==
  ASSUME TypeInv, NEW b \in Boletos, row[b].status \in Lifecycle!Settled
  PROVE  /\ row[b].our \in Numbers
         /\ title[b][row[b].our] \in Lifecycle!Registered
<1>1. CreatedAs[b] \notin Proved!Settled
  BY LifecycleAssumption DEF Proved!Settled
<1>2. Proved!Backed(b, row[b])
  BY <1>1 DEF TypeInv, LifecycleInv, Proved!BackedInv, Proved!SettledIsBacked
<1>3. row[b] \in Proved!Copy
  BY DEF TypeInv, LifecycleInv, Proved!TypeOK
<1>4. /\ row[b].our \in Numbers
      /\ <<row[b].status, title[b][row[b].our]>> \in Proved!Justified
  BY <1>2, <1>3, SameWords DEF Proved!Backed, Proved!Copy, Proved!MaybeNumber
<1>5. \A s, t : <<s, t>> \in Proved!Justified => t \in Proved!Registered
  BY DEF Proved!Justified, Proved!Registered
<1>6. QED
  BY <1>4, <1>5, SameWords

(* A step turns a settled boleto into a failure in one of three ways only.  *)
LEMMA FailuresAreExplained ==
  ASSUME TypeInv, [Next]_vars, NEW b \in Boletos,
         row[b].status \in Lifecycle!Settled,
         row'[b].status \in {"FAILED", "BLOCKED"}
  PROVE  StaleFailure(b) \/ RefusedItem(b) \/ RefusedPoll(b)
<1>a. row[b].status \notin {"CREATED", "PROCESSING", "FAILED", "BLOCKED"}
  BY DEF Lifecycle!Settled
<1>b. /\ row[b].our \in Numbers
      /\ title[b][row[b].our] # "erro"
  BY SettledIsRegistered DEF Lifecycle!Registered
<1>1. CASE [Proved!Next]_(Proved!vars)
  <2>1. \/ \E e \in Emitters :
              /\ emit[e] # Proved!Idle /\ emit[e].boleto = b
              /\ \/ row'[b].status \in {"PROCESSING", "ISSUED"}
                 \/ emit[e].pc = "failing" /\ row'[b].status = "FAILED"
        \/ \E r \in Receivers :
              /\ recv[r] # Proved!Idle /\ recv[r].boleto = b
              /\ row'[b] = Proved!Outcome(recv[r])
        \/ \E s \in Syncers :
              /\ sync[s].pc = "write" /\ sync[s].boleto = b
              /\ row'[b] = sync[s].copy
    <3>1. row'[b] # row[b]
      BY <1>a
    <3>2. QED
      BY <1>1, <3>1, Proved!WhoStores, LifecycleIsAssumed
         DEF TypeInv, LifecycleInv
  <2>2. ASSUME NEW e \in Emitters, emit[e] # Proved!Idle, emit[e].boleto = b,
               \/ row'[b].status \in {"PROCESSING", "ISSUED"}
               \/ emit[e].pc = "failing" /\ row'[b].status = "FAILED"
        PROVE  StaleFailure(b)
    BY <2>2, SameWords DEF StaleFailure
  <2>3. ASSUME NEW r \in Receivers, recv[r] # Proved!Idle, recv[r].boleto = b,
               row'[b] = Proved!Outcome(recv[r])
        PROVE  RefusedItem(b)
    <3>1. recv[r].failed
      BY <2>3 DEF Proved!Outcome
    <3>2. title[b][recv[r].num] = "erro"
      BY <2>3, <3>1 DEF TypeInv, LifecycleInv, Proved!RefusalsAreReal
    <3>3. QED
      BY <1>b, <2>3, <3>1, <3>2, SameWords DEF RefusedItem
  <2>4. ASSUME NEW s \in Syncers, sync[s].pc = "write", sync[s].boleto = b,
               row'[b] = sync[s].copy
        PROVE  RefusedPoll(b)
    <3>1. sync[s].copy.status = "FAILED"
      BY <2>4 DEF TypeInv, LifecycleInv, Proved!ReissueInv,
         Proved!PollsAreAnswers, Proved!Answered
    <3>2. title[b][sync[s].copy.our] = "erro"
      BY <2>4, <3>1 DEF TypeInv, LifecycleInv, Proved!RefusalsAreReal
    <3>3. sync[s] # Lifecycle!Idle
      BY <2>4 DEF Lifecycle!Idle
    <3>4. QED
      BY <1>b, <2>4, <3>2, <3>3 DEF RefusedPoll
  <2>5. QED
    BY <2>1, <2>2, <2>3, <2>4
<1>2. ASSUME NEW w \in Workers, ClaimPending(w)
      PROVE  FALSE
  BY <1>2, <1>a, ClaimRelabels DEF TypeInv
<1>3. ASSUME NEW w \in Workers, MarkBoletoTerminal(w)
      PROVE  FALSE
  <2>1. /\ worker[w].boleto \in Boletos
        /\ worker[w].verdict \in {"FAILED", "BLOCKED"}
        /\ Mark(worker[w].boleto, worker[w].verdict)
    BY <1>3, VerdictIsTyped DEF MarkBoletoTerminal, TypeInv
  <2>2. QED
    BY <1>a, <2>1, MarkRelabels DEF TypeInv
<1>4. ASSUME NEW w \in Workers, Exit(w)
      PROVE  FALSE
  BY <1>4, <1>a DEF Exit
<1>5. QED
  BY <1>1, <1>2, <1>3, <1>4, StepIsKnown

(* The loop's verdict never replaces what the bank has said, however late   *)
(* it is stored: a settled row turns into a failure only by the stale write *)
(* of a call of Emit, or because the bank refused another title of the      *)
(* boleto than the one the row carries.                                    *)
THEOREM VerdictsYield == Spec => VerdictYieldsToBank
<1>1. TypeInv /\ [Next]_vars =>
         [\A b \in Boletos :
             /\ row[b].status \in Lifecycle!Settled
             /\ row'[b].status \in {"FAILED", "BLOCKED"}
             => StaleFailure(b) \/ RefusedItem(b) \/ RefusedPoll(b)]_vars
  BY FailuresAreExplained
<1>2. QED
  BY <1>1, TypeInvHolds, PTL DEF Spec, VerdictYieldsToBank

-----------------------------------------------------------------------------
(* FinishIfDone: what the end of a campaign means.                         *)

(* The campaign only moves forward, and each of its moves has one maker.    *)
LEMMA WhoMovesCampaign ==
  ASSUME [Next]_vars, campaign' # campaign
  PROVE  \/ /\ campaign = "DRAFT" /\ campaign' = "READY"
            /\ \E q \in Requests : ConfirmImport(q)
         \/ campaign = "READY" /\ campaign' = "PROCESSING" /\ Start
         \/ /\ campaign = "PROCESSING" /\ campaign' = FinalStatus /\ AllDone
            /\ \E w \in Workers : FinishIfDone(w)
<1>1. ASSUME NEW w \in Workers, WorkerStep(w)
      PROVE  /\ campaign = "PROCESSING" /\ campaign' = FinalStatus /\ AllDone
             /\ FinishIfDone(w)
  BY <1>1 DEF WorkerStep, Boot, ClaimPending, EmitNext, EmitAlreadyIssued,
     EmitRejected, EmitMark, IssueAccepted, IssueRefused, AnswerLost, InLoop,
     EmitSucceeds, EmitErrs, MarkBoletoTerminal, MarkLost, FinishIfDone,
     IssuerGivesUp, Stop, Exit, campaignVars
<1>2. ASSUME NEW q \in Requests, ConfirmImport(q)
      PROVE  campaign = "DRAFT" /\ campaign' = "READY"
  BY <1>2 DEF ConfirmImport, Insert
<1>3. QED
  BY <1>1, <1>2 DEF Next, ConfirmRead, ConfirmRejected, Start, FiveMinutes,
     Elsewhere, vars, campaignVars

(* What FinishIfDone finds when it closes a campaign as COMPLETED.          *)
LEMMA DoneIsRegistered ==
  ASSUME TypeInv, AllDone, FinalStatus = "COMPLETED", NEW b \in Members
  PROVE  \E n \in Numbers : title[b][n] \in Lifecycle!Registered
<1>1. b \in Boletos
  BY DEF Members
<1>2. row[b].status \notin {"CREATED", "PROCESSING", "FAILED", "BLOCKED"}
  BY DEF AllDone, FinalStatus
<1>3. row[b].status \in Lifecycle!Settled
  BY <1>1, <1>2 DEF TypeInv, LifecycleInv, Proved!TypeOK, Proved!Copy,
     Proved!StoredStatuses, Proved!KnownStatuses, Lifecycle!Settled
<1>4. QED
  BY <1>1, <1>3, SettledIsRegistered

(* No title stops being registered.                                        *)
LEMMA RegisteredForGood ==
  ASSUME TypeInv, [Next]_vars, NEW b \in Boletos, NEW n \in Numbers,
         title[b][n] \in Lifecycle!Registered
  PROVE  title'[b][n] \in Lifecycle!Registered
<1>1. CASE [Proved!Next]_(Proved!vars)
  BY <1>1, Proved!TitlesOnlyAdvance, LifecycleIsAssumed, SameWords
     DEF TypeInv, LifecycleInv
<1>2. CASE \E w \in Workers :
              ClaimPending(w) \/ MarkBoletoTerminal(w) \/ Exit(w)
  BY <1>2 DEF ClaimPending, MarkBoletoTerminal, Exit
<1>3. QED
  BY <1>1, <1>2, StepIsKnown

\* A campaign only becomes COMPLETED with every boleto registered at the bank.
CompletionIsEarned ==
    [][campaign # "COMPLETED" /\ campaign' = "COMPLETED" =>
          \A b \in Members' : \E n \in Numbers :
              title'[b][n] \in Lifecycle!Registered]_vars

LEMMA CompletingIsEarned ==
  ASSUME TypeInv, [Next]_vars,
         campaign # "COMPLETED", campaign' = "COMPLETED"
  PROVE  \A b \in Members' : \E n \in Numbers :
             title'[b][n] \in Lifecycle!Registered
<1>1. PICK w \in Workers : FinishIfDone(w)
  BY WhoMovesCampaign
<1>2. AllDone /\ FinalStatus = "COMPLETED"
  BY WhoMovesCampaign
<1>3. UNCHANGED <<title, origin>>
  BY <1>1 DEF FinishIfDone, boletoVars
<1>4. QED
  BY <1>2, <1>3, DoneIsRegistered DEF Members

(* For any number of imports, processes, crashes and takeovers, a campaign  *)
(* is marked COMPLETED only when the bank has registered all its boletos.   *)
THEOREM CompletionsAreEarned == Spec => CompletionIsEarned
<1>1. TypeInv /\ [Next]_vars =>
         [campaign # "COMPLETED" /\ campaign' = "COMPLETED" =>
             \A b \in Members' : \E n \in Numbers :
                 title'[b][n] \in Lifecycle!Registered]_vars
  BY CompletingIsEarned
<1>2. QED
  BY <1>1, TypeInvHolds, PTL DEF Spec, CompletionIsEarned

\* A campaign has a single CSV file.  With two, a confirmation that was under
\* way when the first one ended adds boletos to a campaign at any later time.
OneImport == \A i, j \in Imports : i = j

\* A campaign leaves DRAFT only by a confirmed import.
ConfirmedFirst == campaign # "DRAFT" => confirmed # {}

LEMMA ConfirmedFirstHolds == Spec => [](TypeInv /\ ConfirmedFirst)
<1>1. Init => ConfirmedFirst
  BY DEF Init, ConfirmedFirst
<1>2. TypeInv /\ ConfirmedFirst /\ [Next]_vars => ConfirmedFirst'
  <2> SUFFICES ASSUME TypeInv, ConfirmedFirst, [Next]_vars
               PROVE  ConfirmedFirst'
    OBVIOUS
  <2>1. ASSUME NEW q \in Requests, ConfirmImport(q)
        PROVE  confirmed' # {}
    BY <2>1 DEF ConfirmImport, Insert
  <2>2. CASE ~ \E q \in Requests : ConfirmImport(q)
    <3>1. UNCHANGED confirmed
      BY <2>2 DEF Next, ConfirmRead, ConfirmRejected, Start, FiveMinutes,
         Elsewhere, vars, campaignVars, WorkerStep, Boot, ClaimPending,
         EmitNext, EmitAlreadyIssued, EmitRejected, EmitMark, IssueAccepted,
         IssueRefused, AnswerLost, InLoop, EmitSucceeds, EmitErrs,
         MarkBoletoTerminal, MarkLost, FinishIfDone, IssuerGivesUp, Stop, Exit
    <3>2. QED
      BY <2>2, <3>1, WhoMovesCampaign DEF ConfirmedFirst
  <2>3. QED
    BY <2>1, <2>2 DEF ConfirmedFirst
<1>3. QED
  BY <1>1, <1>2, TypeInvHolds, PTL DEF Spec

(* With one import a campaign past DRAFT has all the boletos it will have.  *)
LEMMA MembersAreFrozen ==
  ASSUME TypeInv, ConfirmedFirst, OneImport, [Next]_vars, campaign # "DRAFT"
  PROVE  Members' = Members
<1>1. ASSUME NEW q \in Requests, ConfirmImport(q)
      PROVE  FALSE
  <2>1. confirming[q] \in Imports /\ confirming[q] \notin confirmed
    BY <1>1 DEF ConfirmImport, Insert, TypeInv, TypeOK
  <2>2. PICK i \in Imports : i \in confirmed
    BY DEF ConfirmedFirst, TypeInv, TypeOK
  <2>3. QED
    BY <2>1, <2>2 DEF OneImport
<1>2. UNCHANGED origin
  BY <1>1 DEF Next, ConfirmRead, ConfirmRejected, Start, FiveMinutes,
     Elsewhere, vars, campaignVars, WorkerStep, Boot, ClaimPending, EmitNext,
     EmitAlreadyIssued, EmitRejected, EmitMark, IssueAccepted, IssueRefused,
     AnswerLost, InLoop, EmitSucceeds, EmitErrs, MarkBoletoTerminal, MarkLost,
     FinishIfDone, IssuerGivesUp, Stop, Exit
<1>3. QED
  BY <1>2 DEF Members

(* A campaign of one import that is shown as COMPLETED is one whose every   *)
(* boleto the bank has registered, and stays so: crashes, takeovers of       *)
(* claims and every stale write after its end change rows, never that.      *)
THEOREM CompletedStaysRegistered ==
  ASSUME OneImport
  PROVE  Spec => []CompletedIsRegistered
<1>1. Init => CompletedIsRegistered
  BY DEF Init, CompletedIsRegistered
<1>2. /\ TypeInv /\ ConfirmedFirst /\ CompletedIsRegistered /\ [Next]_vars
      => CompletedIsRegistered'
  <2> SUFFICES ASSUME TypeInv, ConfirmedFirst, CompletedIsRegistered,
                      [Next]_vars, campaign' = "COMPLETED",
                      NEW b \in Members'
               PROVE  \E n \in Numbers : title'[b][n] \in Lifecycle!Registered
    BY DEF CompletedIsRegistered
  <2>1. CASE campaign # "COMPLETED"
    BY <2>1, CompletingIsEarned
  <2>2. CASE campaign = "COMPLETED"
    <3>1. b \in Members /\ b \in Boletos
      BY <2>2, OneImport, MembersAreFrozen DEF Members
    <3>2. PICK n \in Numbers : title[b][n] \in Lifecycle!Registered
      BY <2>2, <3>1 DEF CompletedIsRegistered
    <3>3. QED
      BY <3>1, <3>2, RegisteredForGood
  <2>3. QED
    BY <2>1, <2>2
<1>3. QED
  BY <1>1, <1>2, ConfirmedFirstHolds, PTL DEF Spec

-----------------------------------------------------------------------------
(* FinishIfDone again: a finished campaign has nothing left to do, as long  *)
(* as one process at a time works on it and no poll brings a status back.   *)

\* One process, and nobody calls the emission route beside it.
OneProcess == Workers = Emitters /\ \A w, v \in Workers : w = v

\* The provider registers at once: no poll reads PROCESSING.
NoPollGoesBack == Syncers = {} \/ \A b \in Boletos : ProviderOf[b] = "mock"

Finishing == OneImport /\ OneProcess /\ NoPollGoesBack

Over == \A w \in Workers : worker[w].pc \in {"down", "serving"}

FinishInv ==
    /\ campaign \in {"COMPLETED", "PARTIAL"} => AllDone /\ Over
    /\ \A s \in Syncers :
          sync[s].pc = "write" => sync[s].copy.status = "ISSUED"

(* What the mock answers a poll.                                           *)
LEMMA MockSaysIssued ==
  ASSUME TypeInv, FinishInv, NoPollGoesBack, [Next]_vars, NEW s \in Syncers,
         sync'[s].pc = "write"
  PROVE  sync'[s].copy.status = "ISSUED"
<1>1. CASE sync'[s] = sync[s]
  BY <1>1 DEF FinishInv
<1>2. ASSUME NEW t \in Syncers, Lifecycle!SyncStep(t), sync'[s] # sync[s]
      PROVE  sync'[s].copy.status = "ISSUED"
  <2>1. sync \in [Syncers -> {Lifecycle!Idle} \cup Lifecycle!SyncCall]
    BY DEF TypeInv, TypeOK, Lifecycle!TypeOK
  <2>2. Lifecycle!SyncConsult(t) /\ t = s
    BY <1>2, <2>1 DEF Lifecycle!SyncStep, Lifecycle!SyncRead,
       Lifecycle!SyncConsult, Lifecycle!SyncStore, Lifecycle!SyncAbandon,
       Lifecycle!Idle
  <2>3. sync[s] \in Lifecycle!SyncCall
    BY <2>1, <2>2 DEF Lifecycle!SyncConsult, Lifecycle!Idle
  <2>4. Lifecycle!Answers(sync[s].boleto, sync[s].copy.our) = {"ISSUED"}
    BY <2>3 DEF NoPollGoesBack, Lifecycle!Answers, Lifecycle!SyncCall
  <2> DEFINE summary == Lifecycle!ApplySummary(sync[s].copy, "ISSUED")
  <2>5. \/ sync' = [sync EXCEPT ![s].pc = "write", ![s].copy = summary]
        \/ sync' = [sync EXCEPT ![s] = Lifecycle!Idle]
    BY <2>2, <2>4 DEF Lifecycle!SyncConsult
  <2>6. summary.status = "ISSUED"
    BY DEF Lifecycle!ApplySummary
  <2>7. sync'[s] = Lifecycle!Idle \/ sync'[s].copy = summary
    <3> HIDE DEF summary
    <3>1. QED
      BY <2>1, <2>3, <2>5 DEF Lifecycle!SyncCall
  <2> HIDE DEF summary
  <2>8. QED
    BY <2>6, <2>7 DEF Lifecycle!Idle
<1>3. UNCHANGED sync \/ \E t \in Syncers : Lifecycle!SyncStep(t)
  <2>1. ASSUME NEW w \in Workers, WorkerStep(w)
        PROVE  UNCHANGED sync
    BY <2>1 DEF WorkerStep, Boot, ClaimPending, EmitNext, EmitAlreadyIssued,
       EmitRejected, EmitMark, IssueAccepted, IssueRefused, AnswerLost, InLoop,
       EmitSucceeds, EmitErrs, MarkBoletoTerminal, MarkLost, FinishIfDone,
       IssuerGivesUp, Stop, Exit, boletoVars, Lifecycle!EmitRead,
       Lifecycle!EmitMark, Lifecycle!IssueAccepted, Lifecycle!IssueRefused,
       Lifecycle!AnswerLost, Lifecycle!EmitStore, Lifecycle!EmitFail,
       Lifecycle!EmitAbandon
  <2>2. CASE Elsewhere
    BY <2>2 DEF Elsewhere, Lifecycle!BankMoves, Lifecycle!RecvStep,
       Lifecycle!RecvFind, Lifecycle!Reserve, Lifecycle!RecvStore,
       Lifecycle!RecvStoreFails, Lifecycle!Release, Lifecycle!Deliver,
       Lifecycle!RecvAbandon, Lifecycle!EmitStep, Lifecycle!EmitRead,
       Lifecycle!EmitMark, Lifecycle!IssueAccepted, Lifecycle!IssueRefused,
       Lifecycle!AnswerLost, Lifecycle!EmitStore, Lifecycle!EmitFail,
       Lifecycle!EmitAbandon
  <2>3. QED
    BY <2>1, <2>2 DEF Next, ConfirmRead, ConfirmImport, ConfirmRejected, Start,
       FiveMinutes, vars, boletoVars
<1>4. QED
  BY <1>1, <1>2, <1>3

(* Once all loops have ended with the campaign, none begins another batch. *)
LEMMA OverStaysOver ==
  ASSUME TypeInv, OneProcess, [Next]_vars,
         campaign \in {"COMPLETED", "PARTIAL"}, Over
  PROVE  /\ Over'
         /\ \A e \in Emitters : emit[e] = Lifecycle!Idle
         /\ ~ \E w \in Workers : ClaimPending(w) \/ MarkBoletoTerminal(w)
<1>1. \A w \in Workers : worker[w].pc \in {"down", "serving"}
  BY DEF Over
<1>2. \A e \in Emitters : emit[e] = Lifecycle!Idle
  BY <1>1 DEF OneProcess, TypeInv, LoopRunsEmit
<1>3. ~ \E w \in Workers : ClaimPending(w) \/ MarkBoletoTerminal(w)
  BY <1>1 DEF ClaimPending, MarkBoletoTerminal
<1>4. Over'
  <2>1. ASSUME NEW w \in Workers, WorkerStep(w)
        PROVE  Over'
    <3>1. Boot(w) \/ Stop(w) \/ Exit(w)
      BY <1>1, <1>2, <2>1, WorkerAssumption DEF WorkerStep, ClaimPending,
         EmitNext, EmitAlreadyIssued, EmitRejected, EmitMark, IssueAccepted,
         IssueRefused, AnswerLost, InLoop, EmitSucceeds, EmitErrs,
         MarkBoletoTerminal, MarkLost, FinishIfDone, IssuerGivesUp,
         Lifecycle!EmitMark, Lifecycle!IssueAccepted, Lifecycle!IssueRefused,
         Lifecycle!AnswerLost, Lifecycle!EmitStore, Lifecycle!EmitFail,
         Lifecycle!EmitAbandon, Lifecycle!Idle
    <3>2. CASE Boot(w)
      <4>1. worker[w] \in Resting
        BY <3>2, LoopIsTyped DEF Boot, TypeInv
      <4>2. worker' = [worker EXCEPT ![w] = [worker[w] EXCEPT !.pc = "serving"]]
        BY <3>2 DEF Boot, Goto
      <4>3. [worker[w] EXCEPT !.pc = "serving"].pc = "serving"
        BY <4>1 DEF Resting
      <4>4. QED
        BY <1>1, <4>2, <4>3 DEF Over, TypeInv, TypeOK
    <3>3. CASE Stop(w)
      BY <1>1, <3>3 DEF Stop, Over
    <3>4. CASE Exit(w)
      <4>1. Down.pc = "down"
        BY DEF Down
      <4>2. worker' = [worker EXCEPT ![w] = Down]
        BY <3>4 DEF Exit
      <4> HIDE DEF Down
      <4>3. QED
        BY <1>1, <4>1, <4>2 DEF Over, TypeInv, TypeOK
    <3>5. QED
      BY <3>1, <3>2, <3>3, <3>4
  <2>2. ~ (\E w \in Workers : WorkerStep(w)) => UNCHANGED worker
    BY DEF Next, ConfirmRead, ConfirmImport, ConfirmRejected, Start,
       FiveMinutes, Elsewhere, vars, issuerVars
  <2>3. QED
    BY <1>1, <2>1, <2>2 DEF Over
<1>5. QED
  BY <1>2, <1>3, <1>4

(* What is still stored after the end is an outcome.                       *)
LEMMA LateStoresAreOutcomes ==
  ASSUME TypeInv, FinishInv, OneProcess, [Next]_vars,
         campaign \in {"COMPLETED", "PARTIAL"}, NEW b \in Boletos,
         row[b].status \notin {"CREATED", "PROCESSING"}
  PROVE  row'[b].status \notin {"CREATED", "PROCESSING"}
<1>1. /\ \A e \in Emitters : emit[e] = Lifecycle!Idle
      /\ ~ \E w \in Workers : ClaimPending(w) \/ MarkBoletoTerminal(w)
  BY OverStaysOver DEF FinishInv
<1>2. CASE [Proved!Next]_(Proved!vars)
  <2> SUFFICES ASSUME row'[b] # row[b]
               PROVE  row'[b].status \notin {"CREATED", "PROCESSING"}
    OBVIOUS
  <2>1. \/ \E r \in Receivers : row'[b] = Proved!Outcome(recv[r])
        \/ \E s \in Syncers : sync[s].pc = "write" /\ row'[b] = sync[s].copy
    <3>1. \A e \in Emitters : emit[e] = Proved!Idle
      BY <1>1, SameWords
    <3>2. QED
      BY <1>2, <3>1, Proved!WhoStores, LifecycleIsAssumed
         DEF TypeInv, LifecycleInv
  <2>2. \A r \in Receivers : Proved!Outcome(recv[r]).status \in {"FAILED", "ISSUED"}
    BY DEF Proved!Outcome, Proved!WithStatus
  <2>3. QED
    BY <2>1, <2>2 DEF FinishInv
<1>3. CASE \E w \in Workers : Exit(w)
  BY <1>3 DEF Exit
<1>4. QED
  BY <1>1, <1>2, <1>3, StepIsKnown

LEMMA FinishIsKept ==
  ASSUME TypeInv, ConfirmedFirst, FinishInv, Finishing, [Next]_vars
  PROVE  FinishInv'
<1>1. \A s \in Syncers : sync'[s].pc = "write" => sync'[s].copy.status = "ISSUED"
  BY MockSaysIssued DEF Finishing
<1>2. CASE campaign \in {"COMPLETED", "PARTIAL"}
  <2>1. AllDone /\ Over /\ campaign # "DRAFT"
    BY <1>2 DEF FinishInv
  <2>2. Members' = Members
    BY <2>1, MembersAreFrozen DEF Finishing
  <2>3. AllDone'
    BY <1>2, <2>1, <2>2, LateStoresAreOutcomes DEF AllDone, Members, Finishing
  <2>4. Over'
    BY <1>2, <2>1, OverStaysOver DEF Finishing
  <2>5. QED
    BY <1>1, <2>3, <2>4 DEF FinishInv
<1>3. CASE campaign \notin {"COMPLETED", "PARTIAL"}
  <2> SUFFICES ASSUME campaign' \in {"COMPLETED", "PARTIAL"}
               PROVE  AllDone' /\ Over'
    BY <1>1 DEF FinishInv
  <2>1. PICK w \in Workers : FinishIfDone(w) /\ AllDone
    BY <1>3, WhoMovesCampaign
  <2>2. AllDone'
    BY <2>1 DEF FinishIfDone, AllDone, Members, boletoVars
  <2>3. worker[w] \in Resting
    BY <2>1, LoopIsTyped DEF FinishIfDone, TypeInv
  <2>4. worker' = [worker EXCEPT ![w] = [worker[w] EXCEPT !.pc = "serving"]]
    BY <2>1 DEF FinishIfDone, Goto
  <2>5. [worker[w] EXCEPT !.pc = "serving"].pc = "serving"
    BY <2>3 DEF Resting
  <2>6. worker'[w].pc = "serving"
    BY <2>4, <2>5 DEF TypeInv, TypeOK
  <2>7. QED
    BY <2>2, <2>6 DEF Over, Finishing, OneProcess
<1>4. QED
  BY <1>2, <1>3

(* With one process at a time, one import and a provider that registers at  *)
(* once, or nobody polling, a campaign that ends has nothing left to issue   *)
(* or to wait for, and nothing comes back: FinishIfDone looks at every       *)
(* boleto, not at its batch, and no late webhook or poll reopens one.       *)
THEOREM FinishedCampaignsAreDone ==
  ASSUME Finishing
  PROVE  Spec => []FinishedIsDone
<1>1. Init => FinishInv
  BY DEF Init, FinishInv, Lifecycle!Init, Lifecycle!Idle
<1>2. TypeInv /\ ConfirmedFirst /\ FinishInv /\ [Next]_vars => FinishInv'
  BY FinishIsKept
<1>3. FinishInv => FinishedIsDone
  BY DEF FinishInv, FinishedIsDone, AllDone
<1>4. QED
  BY <1>1, <1>2, <1>3, ConfirmedFirstHolds, PTL DEF Spec
=============================================================================
