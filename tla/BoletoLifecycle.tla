--------------------------- MODULE BoletoLifecycle ---------------------------
(***************************************************************************)
(* The boletos table and the three handlers that write it, each cut at     *)
(* every call that leaves the process:                                     *)
(*                                                                         *)
(*   Emit         BoletoService.Emit: read, mark PROCESSING, ask the bank, *)
(*                store the answer;                                        *)
(*   processItem  one item of a REGISTRO webhook: find the boleto, reserve *)
(*                the event, store the outcome, tell the tenant;           *)
(*   Sync         ProviderSyncService.Sync: read, consult the bank, store. *)
(*                                                                         *)
(* All three keep the row they read in memory and later write ALL of it    *)
(* back (BoletoRepo.Update has no version or status guard), so what a      *)
(* handler stores may be older than what another one stored meanwhile.     *)
(*                                                                         *)
(* NotifyBoletoUpdated and the tenant's endpoint are the TenantOutbox      *)
(* module's subject: here the delivery of a REGISTRO event is one step,    *)
(* because only its mark on the event row feeds back into this table.      *)
(***************************************************************************)
EXTENDS BoletoStatus

CONSTANTS
    Boletos,        \* the rows of the boletos table
    Emitters,       \* concurrent calls of BoletoService.Emit
    Receivers,      \* concurrent calls of processItem
    Syncers,        \* concurrent calls of ProviderSyncService.Sync
    Numbers,        \* our_numbers the bank may hand out (bounds the titles)
    NoNumber,       \* our_number IS NULL
    ProviderOf,     \* the adapter behind each boleto's provider_id
    CreatedAs,      \* the status each boleto was created with
    Faults,         \* may a call die, or one of its SQL statements fail?
    UnlistedTexts   \* may the bank answer with a wording MapStatus lacks?

Settled == {"ISSUED", "PAID", "CANCELLED", "EXPIRED", "PARTIAL"}

ASSUME NumberAssumption == NoNumber \notin Numbers
ASSUME ProviderAssumption == ProviderOf \in [Boletos -> {"moncalieri", "mock"}]
ASSUME CreatedAssumption == CreatedAs \in [Boletos -> KnownStatuses]
ASSUME SwitchAssumption == Faults \in BOOLEAN /\ UnlistedTexts \in BOOLEAN

VARIABLES
    row,        \* boletos: status, our_number, "issued_at is set"
    paidAt,     \* boletos.paid_at is set (a trigger writes it, never Update)
    event,      \* webhook_events rows of the REGISTRO items
    title,      \* the bank's record of every number it accepted
    emit, recv, sync,   \* the calls in progress and what each holds in memory
    applied     \* history: numbers whose REGISTRO item reached the table

vars == <<row, paidAt, event, title, emit, recv, sync, applied>>

-----------------------------------------------------------------------------
(* Types.                                                                  *)

MaybeNumber == Numbers \cup {NoNumber}

\* The column also holds what the campaign issuer's own statement writes; no
\* handler here does, but each may read it and carry it in memory.
StoredStatuses == KnownStatuses \cup {"BLOCKED"}

Copy == [status: StoredStatuses, our: MaybeNumber, issued: BOOLEAN]

TitleState == TitleTexts \cup {"none"}

\* A webhook_events row: delivery_attempts = 0, > 0, or delivered_at set.
EventState == {"absent", "reserved", "attempted", "delivered"}

Idle == [pc |-> "idle"]

EmitCall == [pc: {"mark", "issue", "failing"}, boleto: Boletos, copy: Copy]
AnsweredCall == [pc: {"answered"}, boleto: Boletos, copy: Copy, num: Numbers]
RecvCall == [pc: {"reserve", "update", "release", "deliver"},
             boleto: Boletos, num: Numbers, failed: BOOLEAN, copy: Copy]
SyncCall == [pc: {"consult", "write"}, boleto: Boletos, copy: Copy]

TypeOK ==
    /\ row \in [Boletos -> Copy]
    /\ paidAt \in [Boletos -> BOOLEAN]
    /\ event \in [Boletos -> [Numbers -> EventState]]
    /\ title \in [Boletos -> [Numbers -> TitleState]]
    /\ emit \in [Emitters -> {Idle} \cup EmitCall \cup AnsweredCall]
    /\ recv \in [Receivers -> {Idle} \cup RecvCall]
    /\ sync \in [Syncers -> {Idle} \cup SyncCall]
    /\ applied \in [Boletos -> SUBSET Numbers]

Init ==
    /\ row = [b \in Boletos |->
                [status |-> CreatedAs[b], our |-> NoNumber, issued |-> FALSE]]
    /\ paidAt = [b \in Boletos |-> CreatedAs[b] = "PAID"]
    /\ event = [b \in Boletos |-> [n \in Numbers |-> "absent"]]
    /\ title = [b \in Boletos |-> [n \in Numbers |-> "none"]]
    /\ emit = [e \in Emitters |-> Idle]
    /\ recv = [w \in Receivers |-> Idle]
    /\ sync = [s \in Syncers |-> Idle]
    /\ applied = [b \in Boletos |-> {}]

WithStatus(r, status) == [status |-> status, our |-> r.our, issued |-> r.issued]

\* BoletoRepo.Update: the whole struct replaces the row; the trigger of
\* migration 028 dates the first transition into PAID and nothing else.
Update(b, r) ==
    /\ row' = [row EXCEPT ![b] = r]
    /\ paidAt' = [paidAt EXCEPT ![b] =
                    @ \/ (r.status = "PAID" /\ row[b].status # "PAID")]

-----------------------------------------------------------------------------
(* The bank (external).                                                    *)

Registered == {"registrado", "pago", "baixado", "vencido"}
Decided == Registered \cup {"erro"}

TitleSteps == {<<"recebido", "registrado">>, <<"recebido", "erro">>}
              \cup {<<"registrado", t>> : t \in {"pago", "baixado", "vencido"}}

\* The bank decides on an accepted title, or the title is paid, written off
\* or expires.  The mock adapter keeps no titles of its own.
BankMoves(b, n) ==
    /\ ProviderOf[b] = "moncalieri"
    /\ \E t \in TitleTexts :
          /\ <<title[b][n], t>> \in TitleSteps
          /\ title' = [title EXCEPT ![b][n] = t]
    /\ UNCHANGED <<row, paidAt, event, emit, recv, sync, applied>>

-----------------------------------------------------------------------------
(* BoletoService.Emit                                                      *)

AlreadyIssued(r) == r.status \in {"ISSUED", "PROCESSING"} /\ r.our # NoNumber

\* Mutant: no idempotent return.
MayEmitAgain(r) == r.status = "PROCESSING" \/ CanTransition(r.status, "PROCESSING")

MayEmit(r) ==
    /\ ~AlreadyIssued(r)
    /\ r.status = "PROCESSING" \/ CanTransition(r.status, "PROCESSING")

\* FindByID, the idempotent return and the state guard.
EmitRead(e, b) ==
    /\ emit[e] = Idle
    /\ MayEmit(row[b])
    /\ emit' = [emit EXCEPT ![e] =
                  [pc |-> "mark", boleto |-> b, copy |-> row[b]]]
    /\ UNCHANGED <<row, paidAt, event, title, recv, sync, applied>>

\* The compliance and provider checks passed: PROCESSING goes to the table.
EmitMark(e) ==
    LET c == emit[e]
        marked == WithStatus(c.copy, "PROCESSING")
    IN /\ c.pc = "mark"
       /\ Update(c.boleto, marked)
       /\ emit' = [emit EXCEPT ![e].pc = "issue", ![e].copy = marked]
       /\ UNCHANGED <<event, title, recv, sync, applied>>

\* adapter.IssueBoleto reaches the provider, which accepts the request.  The
\* mock registers at once; the bank registers later and says so by webhook.
IssueAccepted(e) ==
    LET c == emit[e] IN
    /\ c.pc = "issue"
    /\ \E n \in Numbers :
          /\ title[c.boleto][n] = "none"
          /\ title' = [title EXCEPT ![c.boleto][n] =
                         IF ProviderOf[c.boleto] = "mock"
                         THEN "registrado" ELSE "recebido"]
          /\ emit' = [emit EXCEPT ![e] =
                        [pc |-> "answered", boleto |-> c.boleto,
                         copy |-> c.copy, num |-> n]]
    /\ UNCHANGED <<row, paidAt, event, recv, sync, applied>>

\* The provider refuses, or the request never reaches it.
IssueRefused(e) ==
    /\ emit[e].pc = "issue"
    /\ emit' = [emit EXCEPT ![e].pc = "failing"]
    /\ UNCHANGED <<row, paidAt, event, title, recv, sync, applied>>

\* The title exists but the client saw a timeout, a broken body or a 5xx.
AnswerLost(e) ==
    LET c == emit[e] IN
    /\ c.pc = "answered"
    /\ ProviderOf[c.boleto] = "moncalieri"
    /\ emit' = [emit EXCEPT ![e] =
                  [pc |-> "failing", boleto |-> c.boleto, copy |-> c.copy]]
    /\ UNCHANGED <<row, paidAt, event, title, recv, sync, applied>>

IssueStatus(b) == IF ProviderOf[b] = "mock" THEN "ISSUED" ELSE "PROCESSING"

\* The answer is written over the row Emit read at its start.
EmitStore(e) ==
    LET c == emit[e] IN
    /\ c.pc = "answered"
    /\ CanTransition("PROCESSING", IssueStatus(c.boleto))
    /\ Update(c.boleto, [status |-> IssueStatus(c.boleto), our |-> c.num,
                         issued |-> c.copy.issued
                                    \/ ProviderOf[c.boleto] = "mock"])
    /\ emit' = [emit EXCEPT ![e] = Idle]
    /\ UNCHANGED <<event, title, recv, sync, applied>>

EmitFail(e) ==
    LET c == emit[e] IN
    /\ c.pc = "failing"
    /\ Update(c.boleto, WithStatus(c.copy, "FAILED"))
    /\ emit' = [emit EXCEPT ![e] = Idle]
    /\ UNCHANGED <<event, title, recv, sync, applied>>

\* An early return before the mark (blacklist hit, provider not allowed, bad
\* configuration), or, under Faults, a crash or a failed Update anywhere.
EmitAbandon(e) ==
    /\ emit[e] # Idle
    /\ emit[e].pc = "mark" \/ Faults
    /\ emit' = [emit EXCEPT ![e] = Idle]
    /\ UNCHANGED <<row, paidAt, event, title, recv, sync, applied>>

-----------------------------------------------------------------------------
(* MoncalieriWebhookService.processItem.  The bank sends the REGISTRO item *)
(* of a decided title any number of times, at any later time: it repeats   *)
(* until it gets a 2xx, and answers get lost.                              *)

\* Mutant: the items of "erros" processed like those of "integrados".
RecvFindNoErrors(w, b, n) ==
    /\ recv[w] = Idle
    /\ ProviderOf[b] = "moncalieri"
    /\ title[b][n] \in Decided
    /\ recv' = [recv EXCEPT ![w] =
                  [pc |-> "reserve", boleto |-> b, num |-> n,
                   failed |-> FALSE, copy |-> row[b]]]
    /\ UNCHANGED <<row, paidAt, event, title, emit, sync, applied>>

RecvFind(w, b, n) ==
    /\ recv[w] = Idle
    /\ ProviderOf[b] = "moncalieri"
    /\ title[b][n] \in Decided
    /\ recv' = [recv EXCEPT ![w] =
                  [pc |-> "reserve", boleto |-> b, num |-> n,
                   failed |-> title[b][n] = "erro", copy |-> row[b]]]
    /\ UNCHANGED <<row, paidAt, event, title, emit, sync, applied>>

\* Mutant: any event not yet delivered is applied, reserved here or not.
ReserveUndelivered(w) ==
    LET c == recv[w]
        known == event[c.boleto][c.num]
    IN /\ c.pc = "reserve"
       /\ event' = [event EXCEPT ![c.boleto][c.num] =
                      IF known = "absent" THEN "reserved" ELSE known]
       /\ recv' = [recv EXCEPT ![w].pc =
                     IF known = "delivered" THEN "deliver" ELSE "update"]
       /\ UNCHANGED <<row, paidAt, title, emit, sync, applied>>

\* reserveEvent: INSERT ... ON CONFLICT DO NOTHING, then read delivered_at.
Reserve(w) ==
    LET c == recv[w]
        known == event[c.boleto][c.num]
    IN /\ c.pc = "reserve"
       /\ event' = [event EXCEPT ![c.boleto][c.num] =
                      IF known = "absent" THEN "reserved" ELSE known]
       /\ \/ /\ known = "delivered"
             /\ recv' = [recv EXCEPT ![w] = Idle]
          \/ /\ known # "delivered"
             /\ recv' = [recv EXCEPT ![w].pc =
                           IF known = "absent" THEN "update" ELSE "deliver"]
       /\ UNCHANGED <<row, paidAt, title, emit, sync, applied>>

\* Mutant: every item is stored as a registration.
OutcomeRegistered(c) == [status |-> "ISSUED", our |-> c.num, issued |-> TRUE]

Outcome(c) ==
    IF c.failed THEN WithStatus(c.copy, "FAILED")
                ELSE [status |-> "ISSUED", our |-> c.num, issued |-> TRUE]

RecvStore(w) ==
    LET c == recv[w] IN
    /\ c.pc = "update"
    /\ Update(c.boleto, Outcome(c))
    /\ applied' = [applied EXCEPT ![c.boleto] = @ \cup {c.num}]
    /\ recv' = [recv EXCEPT ![w].pc = "deliver"]
    /\ UNCHANGED <<event, title, emit, sync>>

\* Update returned an error: the reservation is about to be undone.
RecvStoreFails(w) ==
    /\ Faults
    /\ recv[w].pc = "update"
    /\ recv' = [recv EXCEPT ![w].pc = "release"]
    /\ UNCHANGED <<row, paidAt, event, title, emit, sync, applied>>

\* releaseEvent deletes the row only while delivery_attempts = 0.
Release(w) ==
    LET c == recv[w] IN
    /\ c.pc = "release"
    /\ event' = [event EXCEPT ![c.boleto][c.num] =
                   IF @ = "reserved" THEN "absent" ELSE @]
    /\ recv' = [recv EXCEPT ![w] = Idle]
    /\ UNCHANGED <<row, paidAt, title, emit, sync, applied>>

\* The POST to the tenant and its mark on the event row: markDelivered (also
\* when the tenant has no URL) or markDeliveryFailure.
Deliver(w) ==
    LET c == recv[w] IN
    /\ c.pc = "deliver"
    /\ \E result \in {"attempted", "delivered"} :
          event' = [event EXCEPT ![c.boleto][c.num] =
                      IF @ \in {"absent", "delivered"} THEN @ ELSE result]
    /\ recv' = [recv EXCEPT ![w] = Idle]
    /\ UNCHANGED <<row, paidAt, title, emit, sync, applied>>

RecvAbandon(w) ==
    /\ Faults
    /\ recv[w] # Idle
    /\ recv' = [recv EXCEPT ![w] = Idle]
    /\ UNCHANGED <<row, paidAt, event, title, emit, sync, applied>>

-----------------------------------------------------------------------------
(* ProviderSyncService.Sync                                                *)

\* Mutant: the loop polls only what the bank has not registered yet.
PollableUnregistered == {"PROCESSING"}

\* The statuses ListForProviderSync polls.
Pollable == {"PROCESSING", "ISSUED", "PARTIAL"}

\* The manual endpoint may name any boleto that has a number.
SyncRead(s, b) ==
    /\ sync[s] = Idle
    /\ row[b].our # NoNumber
    /\ sync' = [sync EXCEPT ![s] =
                  [pc |-> "consult", boleto |-> b, copy |-> row[b]]]
    /\ UNCHANGED <<row, paidAt, event, title, emit, recv, applied>>

\* The statuses GetBoleto may answer for a title.
Answers(b, n) ==
    IF ProviderOf[b] = "mock" THEN {"ISSUED"}
    ELSE {MapStatus(title[b][n])}
         \cup (IF UnlistedTexts THEN {MapStatus(Unlisted)} ELSE {})

\* applyProviderSummary: the status the bank says replaces the one read.
ApplySummary(r, status) ==
    [status |-> status, our |-> r.our,
     issued |-> r.issued \/ status = "ISSUED"]

\* The summary may also fill barcode, digitable line or PDF, so an unchanged
\* status and date do not mean that the row is not written.
SyncConsult(s) ==
    LET c == sync[s] IN
    /\ c.pc = "consult"
    /\ \E status \in Answers(c.boleto, c.copy.our) :
         LET summary == ApplySummary(c.copy, status) IN
         \/ sync' = [sync EXCEPT ![s].pc = "write", ![s].copy = summary]
         \/ /\ summary = c.copy
            /\ sync' = [sync EXCEPT ![s] = Idle]
    /\ UNCHANGED <<row, paidAt, event, title, emit, recv, applied>>

SyncStore(s) ==
    LET c == sync[s] IN
    /\ c.pc = "write"
    /\ Update(c.boleto, c.copy)
    /\ sync' = [sync EXCEPT ![s] = Idle]
    /\ UNCHANGED <<event, title, emit, recv, applied>>

\* GetBoleto may always fail; a crash or a failed Update takes Faults.
SyncAbandon(s) ==
    /\ sync[s] # Idle
    /\ sync[s].pc = "consult" \/ Faults
    /\ sync' = [sync EXCEPT ![s] = Idle]
    /\ UNCHANGED <<row, paidAt, event, title, emit, recv, applied>>

-----------------------------------------------------------------------------
EmitStep(e) ==
    \/ \E b \in Boletos : EmitRead(e, b)
    \/ EmitMark(e)
    \/ IssueAccepted(e)
    \/ IssueRefused(e)
    \/ AnswerLost(e)
    \/ EmitStore(e)
    \/ EmitFail(e)
    \/ EmitAbandon(e)

RecvStep(w) ==
    \/ \E b \in Boletos, n \in Numbers : RecvFind(w, b, n)
    \/ Reserve(w)
    \/ RecvStore(w)
    \/ RecvStoreFails(w)
    \/ Release(w)
    \/ Deliver(w)
    \/ RecvAbandon(w)

SyncStep(s) ==
    \/ \E b \in Boletos : SyncRead(s, b)
    \/ SyncConsult(s)
    \/ SyncStore(s)
    \/ SyncAbandon(s)

Next ==
    \/ \E b \in Boletos, n \in Numbers : BankMoves(b, n)
    \/ \E e \in Emitters : EmitStep(e)
    \/ \E w \in Receivers : RecvStep(w)
    \/ \E s \in Syncers : SyncStep(s)

Spec == Init /\ [][Next]_vars
-----------------------------------------------------------------------------
(* Safety.                                                                 *)

\* What the bank must have said of a title for a row to show a status.
Justified == {<<"ISSUED", t>> : t \in Registered}
             \cup {<<"PAID", "pago">>, <<"CANCELLED", "baixado">>,
                   <<"EXPIRED", "vencido">>}

Backed(b, r) ==
    r.status \in Settled =>
        /\ r.our # NoNumber
        /\ <<r.status, title[b][r.our]>> \in Justified
        /\ r.status = "ISSUED" => r.issued

\* A boleto that was not created as settled never shows a bank outcome the
\* bank did not reach for the very number the row carries, however the three
\* handlers' stale whole-row writes interleave and wherever they die.
SettledIsBacked ==
    \A b \in Boletos : CreatedAs[b] \notin Settled => Backed(b, row[b])

\* What every call holds in memory was true of the bank when it was read and
\* still is: a number the bank gave out, a registration it confirmed, a summary
\* it stands by.  This is why a stale whole-row write can lose news but never
\* invent any; with SettledIsBacked it is inductive.
NumberIsKnown(b, r) == r.our # NoNumber => title[b][r.our] # "none"

EmitBacked(e) == emit[e] # Idle =>
    /\ NumberIsKnown(emit[e].boleto, emit[e].copy)
    /\ emit[e].pc = "answered" =>
          title[emit[e].boleto][emit[e].num] # "none"

RecvBacked(w) == recv[w] # Idle =>
    /\ NumberIsKnown(recv[w].boleto, recv[w].copy)
    /\ title[recv[w].boleto][recv[w].num] # "none"
    /\ ~recv[w].failed => title[recv[w].boleto][recv[w].num] \in Registered

SyncBacked(s) == sync[s] # Idle =>
    /\ sync[s].copy.our # NoNumber
    /\ NumberIsKnown(sync[s].boleto, sync[s].copy)
    /\ sync[s].pc = "write" => Backed(sync[s].boleto, sync[s].copy)

MockIsInstant == \A b \in Boletos, n \in Numbers :
    ProviderOf[b] = "mock" => title[b][n] \in {"none", "registrado"}

MemoryIsBacked ==
    /\ \A b \in Boletos : NumberIsKnown(b, row[b])
    /\ \A e \in Emitters : EmitBacked(e)
    /\ \A w \in Receivers : RecvBacked(w)
    /\ \A s \in Syncers : SyncBacked(s)
    /\ MockIsInstant

\* paid_at is only ever dated for a boleto whose money the bank holds, even
\* after a late write took the row's status away from PAID.
PaymentDateIsReal ==
    \A b \in Boletos : CreatedAs[b] \notin Settled =>
        (paidAt[b] => \E n \in Numbers : title[b][n] = "pago")

Applying(w, b, n) ==
    /\ recv[w].pc \in {"update", "release"}
    /\ recv[w].boleto = b
    /\ recv[w].num = n

\* Redelivered and concurrent REGISTRO items: whoever is about to store an
\* item's outcome holds its only reservation, and no earlier delivery already
\* stored it (reserveEvent, releaseEvent).
AppliedOnce ==
    \A w \in Receivers, b \in Boletos, n \in Numbers :
        Applying(w, b, n) =>
            /\ n \notin applied[b]
            /\ event[b][n] # "absent"
            /\ \A v \in Receivers \ {w} : ~Applying(v, b, n)

\* docs/architecture.md:40 "verifica idempotencia": one title for each boleto.
\* Two calls at once, or a call after one that died before it stored the
\* number, open a second one.
SingleTitle ==
    \A b \in Boletos, n, m \in Numbers :
        title[b][n] # "none" /\ title[b][m] # "none" => n = m

-----------------------------------------------------------------------------
(* Action properties.                                                      *)

\* With no emission in flight a row leaves PAID only because the bank's
\* REGISTRO item is stored for the first time after the payment was polled: a
\* redelivery never undoes a payment (one Sync at a time, wordings listed).
PaymentUndoneOnlyByRegistration ==
    [][\A b \in Boletos :
          /\ row[b].status = "PAID" /\ row'[b].status # "PAID"
          /\ \A e \in Emitters : emit[e] = Idle
          => applied'[b] # applied[b]]_vars

\* docs/architecture.md:66 "Transicoes invalidas sao bloqueadas pela maquina
\* de estados em providers/base": no write of boletos.status leaves the table.
TransitionsAreValidated ==
    [][\A b \in Boletos : CanTransition(row[b].status, row'[b].status)]_vars

-----------------------------------------------------------------------------
(* Liveness.  The periodic loop lists every pollable boleto with a number  *)
(* again and again (SyncPending), and a consultation that fails is tried   *)
(* again on the next turn: strong fairness for starting one, for the bank  *)
(* answering and for the Update going through.  Nothing is assumed of Emit *)
(* or of the webhooks, which may die at any point and not be repeated.     *)

Poll(s, b) == row[b].status \in Pollable /\ SyncRead(s, b)

SyncFairness ==
    \A s \in Syncers :
        /\ \A b \in Boletos : SF_vars(Poll(s, b))
        /\ SF_vars(SyncConsult(s))
        /\ SF_vars(SyncStore(s))

FairSpec == Spec /\ SyncFairness

\* Once the bank has closed a title, a row that still carries its number is
\* brought to the matching status: no interleaving leaves it PROCESSING or
\* ISSUED for good, because both stay in the list the loop polls.  FAILED is
\* the exception: a late error item of another title of the same boleto takes
\* the row out of that list.
ClosedTitleIsCaughtUp ==
    \A b \in Boletos, n \in Numbers :
        (title[b][n] \in {"pago", "baixado", "vencido"} /\ row[b].our = n)
            ~> \/ row[b].status = MapStatus(title[b][n])
               \/ row[b].status = "FAILED"
               \/ row[b].our # n
=============================================================================
