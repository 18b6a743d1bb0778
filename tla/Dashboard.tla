----------------------------- MODULE Dashboard -----------------------------
(***************************************************************************)
(* The dashboards over the boletos.  AdminDashboard asks the database for   *)
(* the totals, for four groupings and for the payments; when it fails, the  *)
(* tenants' handler goes over all the boletos itself.  The handlers of      *)
(* BoletoLifecycle write the statuses meanwhile, and a trigger keeps the    *)
(* first confirmation of a payment.                                         *)
(*                                                                         *)
(* Instants are half days: an even one is a midnight (UTC) to the           *)
(* microsecond, the odd one after it any other time of that day.            *)
(***************************************************************************)
EXTENDS Integers, FiniteSetsExt, BoletoStatus

CONSTANTS
    Drawn,          \* the boletos of a tenant
    Historical,     \* those paid before the trigger existed
    Price,          \* amount_cents of each
    LastInstant,
    Statuses,       \* statuses the requests, handlers and campaigns' issuer store
    Unknown         \* paid_at or a filter that is not set

ASSUME DashboardInstants == LastInstant \in Nat /\ Unknown \notin Int
ASSUME DashboardBoletos ==
    IsFiniteSet(Drawn) /\ Historical \subseteq Drawn /\ Price \in [Drawn -> Nat]
ASSUME DashboardStatuses == Statuses \subseteq KnownStatuses \cup {"BLOCKED"}

VARIABLES
    book,           \* boletos: status, created_at and paid_at
    now,
    answer          \* the dashboard of a request, until it is sent

dashboardVars == <<book, now, answer>>

-----------------------------------------------------------------------------
Undrawn == [status |-> "none"]

Instants == 0 .. LastInstant

Day(instant) == instant \div 2

\* The day in São Paulo: there it is still the day before at midnight UTC.
LocalDay(instant) == (instant - 1) \div 2

NoAnswer == [by |-> "nobody"]

DashboardInit ==
    /\ now = 0
    /\ answer = NoAnswer
    /\ book = [b \in Drawn |->
                 IF b \notin Historical THEN Undrawn
                 ELSE [status |-> "PAID", born |-> 0, paid |-> Unknown]]

\* A request may name any known status for its boleto.
Requested == {"CREATED"} \cup (Statuses \cap KnownStatuses)

\* The trigger boleto_payment_confirmation, before an INSERT ...
Drawing(b, status) ==
    /\ answer = NoAnswer
    /\ book[b] = Undrawn
    /\ book' = [book EXCEPT ![b] =
                  [status |-> status, born |-> now,
                   paid |-> IF status = "PAID" THEN now ELSE Unknown]]
    /\ UNCHANGED <<now, answer>>

\* ... and before an UPDATE.
Confirmed(old, status) ==
    IF status = "PAID" /\ old.status # "PAID" /\ old.paid = Unknown
    THEN now ELSE old.paid

\* Which statuses follow which is BoletoLifecycle's subject.
StatusWritten(b, status) ==
    /\ answer = NoAnswer
    /\ book[b] # Undrawn
    /\ book' = [book EXCEPT ![b].status = status,
                            ![b].paid = Confirmed(book[b], status)]
    /\ UNCHANGED <<now, answer>>

HalfDayPasses ==
    /\ answer = NoAnswer
    /\ now < LastInstant
    /\ now' = now + 1
    /\ UNCHANGED <<book, answer>>

-----------------------------------------------------------------------------
(* The queries.                                                            *)

\* parseBoletoFilters: the days `from` and `to`, each one optional.
Windows == [from : (0 .. Day(LastInstant)) \cup {Unknown},
            to : (0 .. Day(LastInstant)) \cup {Unknown}]

\* validateBoletoFilters
ValidWindow(w) == Unknown \notin {w.from, w.to} => w.from <= w.to

\* Mutant: a day that ends when it begins.
CohortToMidnight(w) ==
    {b \in Drawn : /\ book[b] # Undrawn
                   /\ w.from # Unknown => book[b].born >= 2 * w.from
                   /\ w.to # Unknown => book[b].born < 2 * w.to}

\* adminBoletoWhere
Cohort(w) ==
    {b \in Drawn : /\ book[b] # Undrawn
                   /\ w.from # Unknown => book[b].born >= 2 * w.from
                   /\ w.to # Unknown => book[b].born < 2 * w.to + 2}

WithStatusIn(boletos, statuses) == {b \in boletos : book[b].status \in statuses}

CentsOf(boletos) == SumFunctionOnSet(Price, boletos)

\* Statuses whose amount counts as emitted.
EmittedStatuses == {"ISSUED", "PAID", "EXPIRED", "CANCELLED"}

\* The statuses the totals have a counter for.
Counters == EmittedStatuses \cup {"FAILED", "CREATED", "PROCESSING"}

SummaryOf(boletos) ==
    [boletos |-> Cardinality(boletos),
     cents |-> CentsOf(WithStatusIn(boletos, EmittedStatuses)),
     counter |-> [s \in Counters |-> Cardinality(WithStatusIn(boletos, {s}))]]

DashboardTotals(w) == SummaryOf(Cohort(w))

\* GROUP BY key[b]: the count of each group and the amount of what `counts` in it.
Grouped(boletos, key, counts) ==
    [k \in {key[b] : b \in boletos} |->
        LET group == {b \in boletos : key[b] = k}
        IN  [count |-> Cardinality(group), cents |-> CentsOf(group \cap counts)]]

GroupedByStatus(boletos) ==
    Grouped(boletos, [b \in boletos |-> book[b].status],
            WithStatusIn(boletos, EmittedStatuses))

GroupedByDay(boletos) ==
    Grouped(boletos, [b \in boletos |-> Day(book[b].born)],
            WithStatusIn(boletos, EmittedStatuses))

\* Mutant: a payment counts in the timeline of the day its boleto was created.
SettlementByCreation(w) ==
    LET paid == WithStatusIn(Cohort(w), {"PAID"})
    IN  [cents |-> CentsOf(paid),
         unknown |-> Cardinality({b \in paid : book[b].paid = Unknown}),
         byDay |-> Grouped(paid, [b \in paid |-> LocalDay(book[b].born)], paid),
         byAmount |-> Grouped(paid, Price, paid)]

Settlement(w) ==
    LET paid  == WithStatusIn(Cohort(w), {"PAID"})
        dated == {b \in paid : book[b].paid # Unknown}
    IN  [cents |-> CentsOf(paid),
         unknown |-> Cardinality(paid \ dated),
         byDay |-> Grouped(dated, [b \in dated |-> LocalDay(book[b].paid)], paid),
         byAmount |-> Grouped(paid, Price, paid)]

\* handleTenantDashboard without AdminDashboard: a boleto created before `from`
\* or after the end of `to` is passed over.
TenantSummary(w) ==
    SummaryOf({b \in Drawn :
        /\ book[b] # Undrawn
        /\ w.from # Unknown => ~(book[b].born < 2 * w.from)
        /\ w.to # Unknown => ~(book[b].born > 2 * w.to + 2)})

-----------------------------------------------------------------------------
\* AdminDashboard: nobody writes between its statements here.
Queried(w) ==
    [by |-> "queries", window |-> w, totals |-> DashboardTotals(w),
     byStatus |-> GroupedByStatus(Cohort(w)), byDay |-> GroupedByDay(Cohort(w)),
     settlement |-> Settlement(w)]

QueriesAnswer(w) ==
    /\ answer = NoAnswer
    /\ ValidWindow(w)
    /\ answer' = Queried(w)
    /\ UNCHANGED <<book, now>>

\* handleTenantDashboard: whatever AdminDashboard's error was, also that of a
\* window it does not accept.
LoopAnswers(w) ==
    /\ answer = NoAnswer
    /\ answer' = [by |-> "loop", window |-> w, totals |-> TenantSummary(w)]
    /\ UNCHANGED <<book, now>>

AnswerSent ==
    /\ answer # NoAnswer
    /\ answer' = NoAnswer
    /\ UNCHANGED <<book, now>>

DashboardNext ==
    \/ \E b \in Drawn, status \in Requested : Drawing(b, status)
    \/ \E b \in Drawn, status \in Statuses : StatusWritten(b, status)
    \/ HalfDayPasses
    \/ \E w \in Windows : QueriesAnswer(w) \/ LoopAnswers(w)
    \/ AnswerSent

DashboardSpec == DashboardInit /\ [][DashboardNext]_dashboardVars

-----------------------------------------------------------------------------
Counted(groups) == SumFunction([k \in DOMAIN groups |-> groups[k].count])

Amount(groups) == SumFunction([k \in DOMAIN groups |-> groups[k].cents])

\* Statuses without a counter: a campaign's BLOCKED, and PARTIAL, which only a
\* request stores.
Uncounted == {"BLOCKED", "PARTIAL"}

\* The statements of a dashboard that nobody writes during agree: each boleto is
\* in the counter of its status, but for the two statuses that have none; every
\* grouping adds up to the totals; and every payment of the counter is in the
\* timeline of confirmations or counted as undated, wherever midnight falls and
\* whatever the payments' history.
DashboardAddsUp ==
    answer.by = "queries" =>
        LET totals == answer.totals
            settled == answer.settlement
        IN  /\ \A s \in DOMAIN answer.byStatus \ Uncounted :
                  s \in Counters /\ answer.byStatus[s].count = totals.counter[s]
            /\ {Counted(answer.byStatus), Counted(answer.byDay)} = {totals.boletos}
            /\ {Amount(answer.byStatus), Amount(answer.byDay)} = {totals.cents}
            /\ totals.counter["PAID"] = Counted(settled.byDay) + settled.unknown
            /\ totals.counter["PAID"] = Counted(settled.byAmount)
            /\ settled.cents = Amount(settled.byAmount)

\* The loop a tenant falls back to says what the queries would have said, but
\* for a boleto created at the very midnight that ends `to`, which it counts.
FallbackAgrees ==
    answer.by = "loop" /\ ValidWindow(answer.window) =>
        \/ answer.totals = DashboardTotals(answer.window)
        \/ \E b \in Drawn : /\ book[b] # Undrawn
                            /\ answer.window.to # Unknown
                            /\ book[b].born = 2 * answer.window.to + 2
=============================================================================
