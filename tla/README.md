# Verification of middleware-boletos

TLA+ modules, TLC configurations and machine-checked proofs for the Go backend
of middleware-boletos: the service that issues boletos (bank payment slips) for
its tenants at a provider, follows what the bank says of them and notifies the
tenants. All paths below are relative to `src/`, Go files to `src/backend/`.

## 1. The system

| Component | State | Operations | Interacts with |
|---|---|---|---|
| Boleto emission (`internal/service/boleto_service.go`, `internal/repository/boleto_repo.go`) | `boletos` rows: status, our_number, external_id, issued_at, paid_at (by a trigger, migration 028) | Create, Emit, Delete, queries | compliance checks, provider adapter (HTTP), tenant notification |
| Transition table and status mapping (`internal/providers/base/state_machine.go`, `internal/providers/moncalieri/mapper.go`) | none | CanTransition, MapStatus | every writer of `boletos.status` |
| Provider adapters (`internal/providers/{moncalieri,mock,factory}`) | the titles, kept by the bank | IssueBoleto, GetBoleto, CancelBoleto | HTTP with timeouts |
| Bank webhook (`internal/service/moncalieri_webhook_service.go`) | `webhook_events` rows of type REGISTRO | Receive / processItem, reserveEvent, releaseEvent | boletos, the tenant's endpoint |
| Provider polling (`internal/service/provider_sync_service.go`) | `last_provider_sync_at` | Sync, SyncPending (one process at a time, advisory lock) | boletos, adapter |
| Tenant notifications (same file) | `webhook_events` as an outbox | NotifyBoletoUpdated, RetryPendingDeliveries | the tenant's endpoint, which deduplicates by `X-Giga-Event-ID` |
| Campaigns (`internal/service/campaign_service.go`, `internal/repository/campaign_repo.go`) | `campaigns`, `campaign_imports`, staged rows, `campaign_claimed_at` | Create, Update, PreviewCSV, Confirm, Start; CampaignIssuer.ProcessPending | boletos, Emit, `cmd/api/main.go` (start and stop of the process) |
| Compliance blacklist (`internal/service/blacklist_service.go`) | `blacklist` entries | Create, Update, Delete, Block, Unblock, IsBlocked* | Emit |
| Providers and assignments (`internal/service/provider_service.go`, `cmd/api/handlers.go`) | `providers`, `tenant_providers` | CreateCatalog, UpdateCatalog, Activate, Deactivate; replacement of a tenant's providers | Emit, onboarding |
| Onboarding (`internal/repository/onboarding_repo.go`) | `tenants`, `users`, `tenant_providers` | one transaction | providers, API tokens |
| API tokens (`internal/service/tenant_api_token_service.go`, `cmd/api/auth.go`) | `tenant_api_tokens` | Issue (rotation), Reveal, Authenticate | every API request |
| Dashboards and lists (`internal/repository/boleto_repo.go`, `cmd/api/handlers.go`) | none; `paid_at` by a trigger | AdminDashboard, the tenants' fallback, ListTransactions | every writer of `boletos`, the frontend's pager |
| Migrations (`internal/storage/migrations.go`) | `schema_migrations` | migrate | deployment |
| Customers, users, HTTP routing, JWT; frontend, portal, infra | - | CRUD, no interaction | not modelled |

What is hard here. Three handlers (Emit, webhook, polling) read a boleto, go out
over HTTP for up to ten seconds or more, and then write **all** of the row back:
`BoletoRepo.Update` has no version or status guard, so a handler may store
something older than what another one stored meanwhile. The bank registers a
title asynchronously and repeats its webhook until it gets a 2xx. Tenants are
notified outside any transaction, with a retry loop besides the first attempt.
Campaigns are issued by whichever process starts, with claims that expire. Any
process may be stopped or killed between two statements. `PROJECT.json` lists
the hazards at their lines and the properties that guard them.

## 2. The modules

| Module | Models | Files |
|---|---|---|
| `BoletoStatus` | the known statuses, the transition table, MapStatus over classes of wordings | pure definitions |
| `BoletoLifecycle` | the `boletos` table under Emit, processItem and Sync, and the bank | `MCBoletoLifecycle`, `lifecycle_*.cfg` |
| `BoletoLifecycleProofs` | theorems about `BoletoLifecycle` | TLAPS |
| `EmissionHistory` | `BoletoLifecycle` with the history of overlapping and dead emissions | `MCEmissionHistory`, `lifecycle_titles.cfg` |
| `EmissionHistoryProofs` | theorem about `EmissionHistory` | TLAPS |
| `AtLeastOnce` | abstract promise of the tenant queue | property of `outbox_promise` |
| `TenantOutbox` | `webhook_events` as an outbox: notification, processItem's delivery, retry loop, tenant | `MCTenantOutbox`, `outbox_*.cfg` |
| `TenantOutboxProofs` | theorems about `TenantOutbox` and its refinement of `AtLeastOnce` | TLAPS |
| `CampaignIssuance` | a campaign from its imports to its end; composes with `BoletoLifecycle` by INSTANCE | `MCCampaignIssuance`, `campaign_*.cfg` |
| `CampaignIssuanceProofs` | theorems about `CampaignIssuance`, on those about `BoletoLifecycle` | TLAPS |
| `CampaignImport` | preview and confirmation of a campaign's CSV files | `MCServices`, `services.cfg` |
| `MoneyText` | parseMoneyCents, with the width of its integers | same |
| `Compliance` | the blacklist and Emit's checks against it | same |
| `ApiTokens` | rotation, revelation and use of API tokens | same |
| `ProviderCatalog` | providers, their assignment, onboarding, Emit's look-up | same |
| `References` | external ids and the bank's references | same, and `MCReferences`, `references_tenants.cfg` |
| `PollingOrder` | which boletos a turn of the polling loop takes | same |
| `Migrations` | the command migrate | same |
| `Dashboard` | the dashboards' queries and the loop behind them | same |
| `Pages` | the paged list of transactions | same |
| `TenantsProofs` | theorems about `ApiTokens`, `ProviderCatalog`, `Compliance` and `References` | TLAPS |
| `CampaignImportProofs` | theorems about `CampaignImport` and `MoneyText` | TLAPS |
| `OperationsProofs` | theorems about `Migrations`, `PollingOrder`, `Dashboard` and `Pages` | TLAPS |
| `Arithmetic` | lemmas about sums over sets, decimal numbers, quotients and remainders | TLAPS |

### BoletoLifecycle

One action per stretch of code between two calls that leave the process. A call
in progress is a record holding the copy of the row it read (`emit`, `recv`,
`sync`), exactly as the Go code holds a `*domain.Boleto`; `Update` replaces the
whole row.

* Emit: `EmitRead` (FindByID, idempotent return, state guard), `EmitMark`
  (PROCESSING is written), `IssueAccepted` / `IssueRefused` / `AnswerLost` (the
  adapter), `EmitStore`, `EmitFail`; `EmitAbandon` is any early return before the
  mark (compliance, configuration), and with `Faults` a crash or a failed update.
* Webhook: `RecvFind`, `Reserve` (INSERT ... ON CONFLICT, then delivered_at),
  `RecvStore` / `RecvStoreFails` + `Release`, `Deliver`. The bank may send the
  item of a decided title at any time, any number of times, to any receiver.
* Polling: `SyncRead`, `SyncConsult`, `SyncStore`. The manual endpoint may call
  Sync on any boleto with a number; the loop calls it on `Pollable` rows.
* The bank (external): `title[b][n]` is what it knows of number `n`.

Abstractions: a row is its status, number and "issued_at is set"; the barcode,
digitable line and PDF are data no property tells apart, but a poll may rewrite
the row because of them. A title belongs to one boleto (FindByProviderReference
looks the boleto up by its own id first). Boletos imported through the admin
route with a number of their own, and Delete, are not modelled.

### EmissionHistory

A variable that only watches: `doubted` has the boletos on which two calls of Emit
worked at the same time, and those whose emission died, or could not store its
result, between its mark and its last write. After either the table does not say
whether the bank was asked: the row is PROCESSING without a number, or it is what
the other call read. `HistorySpec` takes the steps of `BoletoLifecycle` and no
others.

### TenantOutbox

The same handlers seen from `webhook_events`: a row is absent, `raw` (type
REGISTRO), `queued` (a type the retry loop selects) or `done` (delivered_at).
`older` is the loop's ORDER BY: an attempt sends a row to the back (`ToBack`).
The tenant is one that follows docs/api.md:790 and processes a header once
(`ledger`). Endpoints do not change during a behaviour.

`Promise` maps the rows and receipts of the BOLETO_UPDATED events to
`AtLeastOnce`. The REGISTRO items are not part of it, though they share the table
and the loop's turns: while one delivery holds an item's reservation a second one
may queue and post it, and the first one's release then takes the row off the
queue again (the bank, answered with an error, sends the item once more).

### CampaignIssuance

The campaign's status, imports and claims, with Emit's actions taken from
`BoletoLifecycle` and interleaved with the issuer's loop. `ClaimPending` and
`MarkBoletoTerminal` are the two statements of CampaignRepo that write
boletos.status without BoletoRepo.Update. `Boot` is `main.go:157`: ProcessPending
runs once per process. `Stop` is the cancelled context of a graceful shutdown;
`Exit` the end of the process, wherever the loop is. `FiveMinutes` ages a claim.
Rows that another statement has locked for a moment (SKIP LOCKED) are not
modelled: a claim takes as many rows as the limit allows.

### The tables around the boletos

These ten modules share no variable with each other nor with the ones above; each
keeps of the boletos only what its own properties need, and names the module
that has the rest.

* `CampaignImport`. `UploadParse`, `UploadLookup` and `SavePreview` are the three
  stretches of PreviewCSV between its statements; `ConfirmLock` and
  `ConfirmCommit` are the transaction of ConfirmImport cut where another request
  can see it, at its row lock. Sums wrap at `Wraps`, the 2^63 of the code. The
  lines of a file are judged at its first upload only.
* `MoneyText`. A text is its parts between dots, a part a sign and digits; the
  run checks it against a definition that reads the digits in one piece, for
  every text of the instance, with 1023 as the largest integer.
* `Compliance`. `EditRead`/`EditWrite` are Block and Unblock, which write back
  what they read. `kept` is what an answered block keeps in force and `barred`
  what a call of Emit must respect: what was kept when it began and has been
  since. Normalisations are constants that are idempotent.
* `ApiTokens`. RotateSecure under READ COMMITTED: the UPDATE finds rows in its
  snapshot (`RevokeSelects`), waits for their locks and looks again
  (`RevokeUpdates`), the unique index makes the INSERT wait (`RotateInserts`),
  COMMIT publishes both.
* `ProviderCatalog`. A replacement is `SwapLists`, then a `SwapDrops` or
  `SwapAdds` per row, then `SwapEnds`; `off` and `settled` are histories of what
  the answered requests promise.
* `References`. Rows have a tenant, an external_id and a number; `Clashes` are the
  two unique indexes of migration 009. Any writer holds an old copy of a row.
  A boleto has an adapter, and `AnsweredKey` is what its answer leaves in the
  external_id (boleto_service.go:403): Moncalieri's gives back the identifier it
  was sent, the mock's coins "mock-" and a uuid (mock.go:48), which replaces what
  the tenant sent. The mock sends no REGISTRO items.
  `FindByProviderReference` may return any row that matches, as LIMIT 1 without
  an ORDER BY may.
* `PollingOrder`. `before` is the order of the query, as a relation: a consulted
  or rewritten boleto goes behind all others (`ToEnd`). A turn takes the first
  `BatchLimit` pollable boletos (`ListForProviderSync`), under a lock that may be
  lost with its connection while the turn goes on.
* `Migrations`. A file is sent in one message without parameters and commits as
  a whole; checking, executing and recording are three statements. Executing it
  again is not a no-op: a file makes what it `Creates` exist (its statements say
  IF NOT EXISTS) and removes what it `Drops`, so that one that is executed behind
  a later one may bring back what that one dropped. `late` keeps which files
  were.
* `Dashboard`. Instants are half days, so that a midnight in UTC and the day in
  São Paulo (three hours behind, no summer time since 2019) are told apart. A
  request may create a boleto with any known status (`Requested`), PAID among them,
  which the trigger dates at the INSERT.
  AdminDashboard's statements are one step: nobody writes between them here.
* `Pages`. The count and the page are two steps; the buttons are the frontend's.
  Boletos have an instant and share it with others: an import inserts all of its
  own in one transaction with one now(). The query sorts by the instant alone
  (boleto_repo.go:316), so a page may be cut out of any order that respects it,
  another one for each statement (`Heads`, `Page`).

## 3. The runs

| Run | Instance | Shows |
|---|---|---|
| `lifecycle_titles` | 1 boleto, 1 emission, 1 receiver, 1 poll, 2 numbers, faults | `SettledIsBacked`, `MemoryIsBacked`, `UndoubtedHasOneTitle`, `PaymentUndoneOnlyByRegistration` |
| `lifecycle_redelivery` | 1 boleto, 2 emissions, 2 receivers, 1 poll, 1 number, faults, unlisted wordings | `TypeOK`, `PaymentDateIsReal`, `AppliedOnce` |
| `lifecycle_catchup` | 1 of each, faults, fair | `ClosedTitleIsCaughtUp` |
| `lifecycle_transitions` | 1 of each | **violated**: `TransitionsAreValidated` (docs/architecture.md:66) |
| `outbox_promise` | 1 update of a tenant that answers, 1 item of a dead one, redelivered by the bank, turns of one row, faults, fair | `KeepsPromise`: refinement of `AtLeastOnce`, its liveness included |
| `outbox_header` | 2 items of one message, 1 receiver | **violated**: `ItemsProcessedOnce` (docs/api.md:790) |
| `campaign_overlap` | 1 boleto, 2 processes, 1 manual emission, 1 receiver of webhooks | `TypeOK`, `CompletedIsRegistered`, `ClaimsAreExclusive`, `VerdictYieldsToBank` |
| `campaign_restarted` | 2 boletos, batches of 1, 1 process, 1 poll, mock provider, faults, stops, fair | `FinishedIsDone`, `FinishesIfRestarted` |
| `campaign_started` | 1 boleto, 1 process, fair | **violated**: `StartedFinishes` (docs/campaigns.md:37) |
| `campaign_takeover` | 1 boleto, 1 process, 2 numbers, stops | **violated**: `OneTitleEach` (docs/campaigns.md:37) |
| `services` | one scene per module, see below | `DeliveredWasReceived`, `DeliveredIsFinal`, `BlockHolds`, `KeptIsRefused`, `PreviewAddsUp`, `ConfirmedOnce`, `ReadyHasBoletos`, `ExactlyOneActive`, `ServedInEnvironment`, `OffIsInactive`, `LeftOutIsNotCalled`, `ReplacementIsExact`, `OrderedOnce`, `ItemReachesItsBoleto`, `NobodyIsPassedOver`, `SchemaIsPrefix`, `DashboardAddsUp`, `FallbackAgrees`, `OnlyRacersHideBoletos`, `MoneyIsExact`, `UpdatesProcessedOnce` and four type invariants |
| `references_tenants` | 2 boletos of 2 tenants with one external_id, 2 writers | **violated**: `ItemReachesItsBoleto` (docs/api.md:641) |

`services` holds eleven instances in one run (`MCServices`). The modules share no
variable and no action of one reads a variable of another, so every reachable
state of their product is, module by module, a reachable state of each one, and
an invariant of one module says the same of it alone as in the product. The
constant `scene` of a behaviour is the module that moves; the others stay at
their initial states. The scenes:

| Scene | Instance |
|---|---|
| outbox | 2 updates, one of a tenant without endpoint, 1 item of such a tenant, 2 deliveries at a time, the loop with turns of 2, faults |
| compliance | 2 entries of one tenant, 2 concurrent Block/Unblock, 1 call of Emit, a document that is shown as another value than the one it blocks, an e-mail, a text that is no e-mail |
| import | 2 files of 4 and 3 lines with every kind of error, 1 upload and 2 confirmations at a time, external ids taken by other routes, 2 days, sums that wrap at 8 |
| tokens | 2 environments, 3 rotations, 1 request |
| catalog | 2 providers, 1 tenant, 1 edit, 2 replacements, 1 emission |
| references | 2 rows, 2 tenants that share no external_id, orders of both adapters with one external_id, 2 titles, 1 request of up to 2 orders, 2 writers |
| polling | 3 boletos, 2 processes, turns of 1 |
| migrations | 3 files, the third of which drops what the first creates, 2 runs |
| dashboard | 2 boletos, one paid before the trigger existed, 2 days and the midnight after them, every window, statuses with and without a counter |
| pages | 4 boletos, 3 instants, imports of any number of them, pages of 2, 1 viewer |
| money | whole parts around the largest amount, fractions of up to 2 digits around its cents and at the ends |

`CHECK_DEADLOCK FALSE` there: amounts are read once, boletos and tokens run out.
What the scene of the outbox checks is proved for any size (section 5).

Why the bounds are enough. Boletos do not share rows, titles or events, so one
boleto with several calls on it has every race between handlers; two boletos are
used where a batch matters. Two numbers let a second emission open a second
title while the first is still alive. Two receivers are two concurrent
deliveries of one item. An emission, poll or delivery that has ended may start
again, so "one" is one at a time, not one in all: the numbers bound the
emissions. Deadlock is not checked: the instances stop when the numbers are used
up and nothing is left to poll.

Each property of a passing run has a mutant of the code in `PROJECT.json` that
breaks it; the mutated forms stand in the modules, marked `Mutant`.

What holds only under conditions, and why:

* `PaymentUndoneOnlyByRegistration` takes one poll at a time and no emission in
  flight, and wordings MapStatus lists: with two polls the older answer may be
  stored last, and an unlisted wording maps to PROCESSING.
* `SingleTitle` is not an invariant: two emissions at once, or one after a crash,
  open two titles (`campaign_takeover` shows it by the campaign's own takeover of
  claims). Emit decides on what it read: a number that a webhook stores after
  that is written over by the mark, and another title asked for. What does hold
  is `UndoubtedHasOneTitle`: without such an overlap and without a death past the
  mark, no other handler's stale write, late registration, lost answer or
  refusal makes Emit ask twice. `lifecycle_titles` has one emission at a time, so
  that it meets deaths and successive emissions; the overlaps are in the proof,
  which is of any number of them.
* `FinishedIsDone` takes one process at a time, one import and polls that never
  say PROCESSING (the mock provider's): a stale write of a second process, a late
  insert or an old answer of the bank reopens a campaign that is finished.
  `CompletedIsRegistered` speaks of the bank's titles instead and survives all of
  them but the second import.
* `UpdatesProcessedOnce` holds for BOLETO_UPDATED events, whose header is the
  row's id everywhere. It fails for REGISTRO items (`outbox_header`): the items
  of one message share the bank's eventId, and the retry loop uses the row's id.
* `ItemReachesItsBoleto` takes tenants that do not use one another's external ids
  (`references_tenants` shows what happens otherwise), and an external_id that
  is no boleto's id.
* `OrderedOnce` exempts a boleto whose external_id the mock's answer has replaced
  (`KeyReplaced`): the index no longer sees what was ordered, and the order
  repeated makes a second boleto. docs/api.md:639, which promises
  idempotency by tenant and external_id, does not say so.
* `SchemaIsPrefix` is the schema of a prefix of the files but for `Undone`, what
  a file executed behind a later one has brought back. With two runs at once,
  one may check 012_create_blacklist.sql before the other records it and execute
  it after 016_evolve_blacklist_support_email.sql: the unique index that 016
  dropped is back for good. internal/storage/migrations/README.md:49 says that an applied
  file is not executed again; that takes one run at a time, which nothing ensures
  and the last conjunct states.
* `BlockHolds` promises nothing of requests that overlap on one entry, and
  `ReplacementIsExact` nothing of replacements that overlap on one tenant: each
  of them writes what it read, or row by row.
* `OffIsInactive` exempts a provider that an edit had read before it was
  deactivated: the edit writes the old status back.
* `NobodyIsPassedOver` counts turns in which fewer consultations fail than a turn
  takes (`Tolerated`): failing ones keep their place, and a whole turn of them
  hides all others for as long as they fail. It bounds the wait by `MaxWait`
  turns, which the instance reaches.
* `DashboardAddsUp` holds of statements nobody writes between. BLOCKED, which only
  the issuer of campaigns stores, and PARTIAL, which only a request may name for
  the boleto it creates, have no counter (`Uncounted`): the counters of a tenant
  that has such boletos add up to less than its total.
* `FallbackAgrees` exempts a boleto created at the very midnight that ends the
  window (`After` in the loop, `<` in the query), and is about requests without
  filters: the loop ignores those by provider, status and document.
* `OnlyRacersHideBoletos` is about the list without a status filter. With one, a
  boleto that leaves the filter pulls the rest up and a page skips a row. It
  exempts (`cut`) what an edge of a page parted from other boletos of its instant:
  the next statement may order those otherwise, and one of them is then shown
  twice and another never, though nobody creates any. An import of more rows
  than a page holds is such an instant.
* `MoneyIsExact`: of the texts with a minus sign, "-0.50" is read as 50 cents and
  "1.-0" as 100; "1.-5" is refused because the bound of the check wraps.

## 4. Fairness

* `lifecycle_catchup`: strong fairness of starting a poll of a pollable row, of
  the consultation and of the update. The loop of `main.go` comes back for ever,
  and a consultation that fails is tried again on the next turn. It is an
  assumption that a consultation does not fail for ever, and that the loop comes
  to each boleto: `PollingOrder` shows when it does.
  Nothing is assumed of Emit, of the webhooks or of the bank.
* `outbox_promise`: the loop's steps, strongly, because a process that may die
  does not die at the same point of every turn; a tenant that is up answers some
  of the posts in time. Nothing of the calls that create events.
* `campaign_restarted`, `campaign_started`: a process that is down starts, its
  issuer's steps happen (strongly, as above), a claim gets old. That processes
  keep going down is a hypothesis of `FinishesIfRestarted`, not an assumption.

## 5. The proofs

`BoletoLifecycleProofs`, for any sets of boletos, calls and numbers, any mix of
providers, with faults and unlisted wordings allowed. The assumptions are the
module's named ASSUMEs on its constants.

* `TypeCorrect`: `Spec => []TypeOK`. TypeOK is inductive; the work is that every
  status a handler stores is a known one, which for polls is `MapStatusKnown`.
* `OutcomesAreBacked`: `Spec => []SettledIsBacked`, and `MemoryStaysBacked`.
  SettledIsBacked is not inductive: a call may be about to store a copy it read
  long ago. The invariant is `BackedInv`, TypeOK with SettledIsBacked and
  `MemoryIsBacked`: what a call holds in memory is still backed by the bank. It is preserved because
  titles only advance (`TitlesOnlyAdvance`): a registered title never becomes
  unregistered and a closed one is final, so an old copy may be out of date but
  is never refuted (`BackedStays`). TLC checks both conjuncts in
  `lifecycle_titles`.

* `PaymentDatesAreReal`: `Spec => []PaymentDateIsReal`. By `StoredPaymentIsReal`
  only SyncStore may date a payment, and by `BackedInv` what it stores is backed
  by a paid title; titles only advance.
* `ItemsAreAppliedOnce`: `Spec => []AppliedOnce`, with `AppliedIsReserved` (an
  item that reached the table left its row in `webhook_events`): without it a
  second reservation of an item already stored could not be excluded.
* `PaymentsAreUndoneByRegistration`: with `OnePoll` and `~UnlistedTexts`, `Spec =>
  PaymentUndoneOnlyByRegistration`. By `PaidInv` the poll in progress on a boleto
  whose row is PAID carries a number whose title is paid, so what it stores is
  PAID again; a row that was created settled never gets a title. What is left
  are the emissions, which the property exempts, and RecvStore, which extends
  `applied`. With two polls the older answer may be stored last, and an unlisted
  wording maps to PROCESSING: both hypotheses are needed.

`EmissionHistoryProofs`, on the lemmas of `BoletoLifecycleProofs`:
`UndoubtedEmissionsAreSingle`, `HistorySpec => []UndoubtedHasOneTitle`, for any number
of emissions at a time. The invariant `HistoryInv` says of every boleto out of
`doubted` that at most one emission is on it, that it has at most one title, and
that once it has one the emission has its answer or, if none is under way, the
row is one Emit does not take up (`AskedAndClosed`). `ReportsCloseRows` is the case
of the webhooks and polls: what they write over such a row is an outcome, or the
summary of a title whose number the copy carries, and `ReissueInv` of the base
(no write makes a boleto with a number CREATED again) says that Emit's guard
takes up neither.

`CampaignIssuanceProofs`, for any boletos, processes, requests, imports and
limits, with and without faults and stops. `Proved == INSTANCE
BoletoLifecycleProofs` takes the lemmas over step by step (`StepIsKnown`): a step
is one of the handlers' own or one of the three that write rows or calls
otherwise, ClaimPending, MarkBoletoTerminal and the death of a process. For this
`BoletoLifecycle` lets its column hold BLOCKED (`StoredStatuses`), which only
MarkBoletoTerminal stores, and the lemmas about it are of every row that column
can hold. `LifecycleAssumption` repeats BoletoLifecycle's assumptions, which an
INSTANCE would else leave to be shown, with CREATED as the status of every
boleto before its INSERT.

* `IssuanceTypeCorrect`: `Spec => []TypeOK`, with `LoopRunsEmit` (a process has a
  call of Emit in progress exactly while its loop waits for it, on a boleto of
  its batch) and `LifecycleInv` in the inductive invariant `TypeInv`.
* `LifecycleSurvives`: SettledIsBacked, MemoryIsBacked, AppliedOnce and
  PaymentDateIsReal hold in the composition.
* `ClaimsStayExclusive`: `Spec => []ClaimsAreExclusive`. The strengthening
  `HeldIsClaimed` says that no boleto of a batch is CREATED, so that only an old
  claim can be taken over, and that an old claim on it is in its holder's
  `overrun`.
* `VerdictsYield`: `Spec => VerdictYieldsToBank`. A verdict is stored only over
  CREATED or PROCESSING; the other writers of a failure over a settled row are
  EmitFail and, by `RefusalsAreReal` (what a call holds as refused is a title the
  bank refused, which stays so), those that carry the refusal of another title.
* `CompletionsAreEarned`: whatever the imports, the step to COMPLETED is taken
  with every boleto registered. `CompletedStaysRegistered`: `[]CompletedIsRegistered`
  under `OneImport`; with two, one that was confirming when the campaign ended
  adds boletos to it.
* `FinishedCampaignsAreDone`: `[]FinishedIsDone` under `Finishing`: one import, one
  process with no emission beside it, and no poll that reads PROCESSING (section
  3 says what each one leaves out). `FinishInv` adds that the process of a
  campaign that ended is between runs, and that a poll about to store holds
  ISSUED.

`TenantOutboxProofs`, for any sets of events, messages and calls, any endpoints
and any limit of the loop's turns, with and without faults:

* `OutboxTypeCorrect`: `Spec => []TypeOK`, which the others rest on.
* `DeliveriesAreReceived`: `Spec => []DeliveredWasReceived`. The strengthening is
  `ConfirmsAreAnswered`: a call about to set delivered_at has had its answer.
  `DoneByMark` and `ConfirmByAnswer` say which steps lead to either.
* `DeliveriesAreFinal`: `Spec => DeliveredIsFinal`. Only the release of a reservation
  takes rows away, and it spares those with an attempt counted (`TriedRowsStay`);
  `DoneIsCounted` says that an attempt is counted on every delivered row, which
  is what the release asks about.
* `UpdatesAreProcessedOnce`: `Spec => []UpdatesProcessedOnce`, from `LedgerInv`:
  every post of an update carries the row's id (`HeadersAreKept`), so under a row
  id the tenant's record is that row's event, and only items are ever recorded
  under a message's id. The same argument fails for items, whose first post
  carries the message's id and whose retries carry the row's.
* `OutboxKeepsPromise`: `Spec` implies AtLeastOnce's initial condition and next-state
  relation under `Promise`. A step of a poster is a stutter because it works on
  items only (`PostersKeepItems`); a mark is a `Settle` because of `DeliveryInv`.

The modules of the `services` run, each for any values of its constants that
satisfy its named ASSUMEs:

* `OperationsProofs`, migrations: `MigrationsTypeCorrect`, and `SchemaStaysPrefix`, `Spec =>
  []SchemaIsPrefix`, for any files. The strengthening says of a run at file v
  that every file before v is recorded, and v executed if it is about to be
  recorded (`RunsKnow`); of the tables, that every file before an executed one is
  recorded (`Tables`). So a file that is executed is the next one or one that is
  executed already: the first extends the prefix, the second changes objects that
  later files left as they were, or that are in `Undone`.
* `TenantsProofs`, tokens: `TokensTypeCorrect`, `OneTokenStaysActive`,
  `RequestsStayInEnvironment`. ExactlyOneActive is not inductive: the invariant
  also says that a row held by a transaction is active and of its scope, that no
  two transactions hold one row or have inserted in one scope, and that what an
  inserter holds are all the active rows of its scope, so that its commit
  replaces exactly them.
* `TenantsProofs`, references: `ReferencesTypeCorrect`, and `OrdersStaySingle`. The
  invariant is that a row with an ordered external_id keeps it in the table and
  in every copy a call holds, or, if the mock issued it, has an id the mock
  coined; and that no two rows of a tenant have the same external_id.
  `ItemsReachTheirBoletos`: `[]ItemReachesItsBoleto` under `KeysApart` (no two
  tenants send one external_id), which the code does not ensure:
  `references_tenants` is the run without it. By `ItemInv` the external_id of a
  row and of every copy is the one its order was sent with, or none or the row's
  own id, and every title carries what its boleto was called then; so the
  look-up by reference matches the boleto the title was issued for and no other
  (`ReferenceLeadsBack`), and the one by number is never needed.
* `TenantsProofs`, blacklist: `ComplianceTypeCorrect`, `BlocksHold`, `KeptIsAlwaysRefused`.
  For the first, a copy read by an edit that is alone on its entry is still the
  entry; for the second, what a call has looked up and found free is not kept
  by any entry it must respect, since the entry would have been active.
* `CampaignImportProofs`: `ImportsAreConfirmedOnce`, `ReadyCampaignsHaveBoletos`. A
  request past its lock is the only one on its file, and the file is still
  PREVIEWED with valid lines.
  `PreviewsAddUp`: `[]PreviewAddsUp`, for any files, days and width of the sums. It
  is not inductive: `AddsUpInv` says the same of an upload that has parsed its file
  and of one that has looked up its ids. The first loop sums the lines it parsed;
  the second subtracts those whose id is taken; `CentsOfTheRest` says that what
  is left is the amount of the rest, by `WrappedDifference` although both sums
  may have wrapped. That no two valid lines share an id is
  decided while parsing (`ParsedAreDistinct`) and survives, since the look-up only
  takes lines away.
* `CampaignImportProofs`, amounts: `MoneyExact`, `MoneySpec => []MoneyIsExact`, for texts
  of any length and any largest integer. `Decimal` gives what a number of digits
  is worth with one more digit behind it, so the parts parseMoneyCents reads one by
  one are worth what the digits say in one piece; the bound of its overflow check
  is exact by the division lemmas.
* `TenantsProofs`, providers: `OffStaysInactive`, `LeftOutStaysUncalled`,
  `ReplacementsAreExact`. `SwapInv` says what a replacement that is alone on its
  tenant has still to write: what is enabled and not chosen is still to be
  dropped, what is chosen and not enabled is still to be added, and what is to
  be dropped is not chosen. `SettledInv` ties `settled` to tenants nobody is at
  work on.

* `OperationsProofs`, polling: `NobodyStaysPassedOver`, `PollingSpec =>
  []NobodyIsPassedOver`, for any finite table (`PollingTable`), batch and tolerated
  failures. The invariant is a potential: the turns that counted against a
  boleto, each worth the `Gain` of `BatchLimit - Tolerated` boletos it moved
  behind it, and the boletos still before it are together at most the others in
  the table (`WaitInv`); a turn under way that will count has a whole batch of
  them in hand (`TurnInv`), and two that count are never under way at once.
* `OperationsProofs`, dashboards: `DashboardsAddUp`, `[]DashboardAddsUp`. The groups of
  a grouping partition the set that is grouped, so their counts add up to its
  cardinality (`GroupsCountAll`) and their amounts to its amount
  (`GroupsAddUpAll`), whatever the key: status, day or amount. A payment is in the
  timeline of confirmations or undated, never both. `FallbackAlwaysAgrees`: the loop counts the boletos
  the queries count: the two sets that are summed are equal but for one born at
  the midnight that ends the window, so that nothing is said of the sums.
* `OperationsProofs`, lists: `OnlyRacersHide`, for any boletos, imports and instants.
  By `PagerInv` a boleto that was there, was not shown and was not parted from its
  instant by an edge has at least as many boletos newer than itself as the place
  the reader has read up to; creations only add to them. When the last page has
  been read, the rows up to its end and the missing boletos are disjoint parts of
  a list as long as his count and the creations since, so that no more are
  missing than were created since.

`Arithmetic` holds what these proofs need of sums and numbers, about the
community modules' own definitions (`SumFunctionOnSet` is a fold over a set in an
order CHOOSE picks). The library's induction theorems take an operator as a
parameter, which the provers cannot instantiate. Each induction is therefore
made over the smallest counterexample: the set of arguments for which the claim
fails is a subset of a well-founded relation's domain, and if it is not empty it
has a minimal element (`WFMin`), which is then shown not to be one. So it is
proved that a sum does not depend on the order of its terms, that adding an
element to a set adds its term, that the terms of zero do not count, and that
groups add up to the whole (`SumOfGroups`).

Every invariant and every safety property of the passing runs is stated by a
theorem. Model-checked only: liveness, which is `ClosedTitleIsCaughtUp`,
`FinishesIfRestarted` and the liveness of the promise in `KeepsPromise` (liveness
under fairness is outside what the prover does); and, by their nature, the
properties that the runs refute.

## 6. Not modelled

* Sessions, users, customers and the fields of tenants: single statements without
  interaction; a JWT is checked against nothing that changes.
* Delete of a boleto, and boletos that a route creates with a status or a number
  of their own (`handleTenantBoletos`, imports of the platform).
* Of the dashboards: the groupings by tenant and by provider (LIMIT 10), the rates
  (floating point), the campaign analytics, and filters other than the dates.
* The digits of a CPF or CNPJ and the syntax of e-mail addresses: constants.
* Encryption and hashing of tokens and the configuration of providers: data.
* PDF building, mail, logging, audit, metrics, the portal and the infrastructure:
  pure I/O and presentation.

What would come next: the composition of `CampaignImport` with `CampaignIssuance`
(it refines `Insert`), the dashboards under writers between their statements,
and a proof that the wait of `NobodyIsPassedOver` is reached, not only bounded.
