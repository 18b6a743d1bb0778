------------------------------- MODULE Pages -------------------------------
(***************************************************************************)
(* The list of transactions, a page at a time.  ListTransactions counts the *)
(* boletos in one statement and reads LIMIT rows from OFFSET on, the newest *)
(* first, in another; the frontend goes to the next page while               *)
(* offset + limit is below the total it was told.  Boletos are created      *)
(* meanwhile, those of an import all at one instant, and nothing orders the *)
(* boletos of one instant: two pages may be cut out of two orders.          *)
(***************************************************************************)
EXTENDS FiniteSets, Integers

CONSTANTS
    Billed,         \* the boletos
    Viewers,        \* open lists
    PageLimit,
    LastMoment      \* bound: the instants are 1 .. LastMoment

ASSUME PagesBounds ==
    /\ PageLimit \in Nat \ {0}
    /\ LastMoment \in Nat
    /\ IsFiniteSet(Billed)

VARIABLES
    born,           \* created_at of every boleto, NotYet while there is none
    pager           \* what each viewer asked for and was shown

pagesVars == <<born, pager>>

NotYet == 0

InList == {b \in Billed : born[b] # NotYet}

-----------------------------------------------------------------------------
Closed == [pc |-> "closed"]

PagesInit ==
    /\ born = [b \in Billed |-> NotYet]
    /\ pager = [v \in Viewers |-> Closed]

Counting(v) == pager[v].pc = "page"

\* BoletoRepo.Create, of one boleto, and the INSERT of ConfirmImport, of all
\* of them at the instant its transaction began, which others may have passed
\* by the time it commits.  `late` is how many came between a count and its page.
BoletosArrive(new, at) ==
    /\ new \cap InList = {}
    /\ born' = [b \in Billed |-> IF b \in new THEN at ELSE born[b]]
    /\ pager' = [v \in Viewers |->
                   IF Counting(v) THEN [pager[v] EXCEPT !.late = @ + Cardinality(new)]
                   ELSE pager[v]]

\* A list opens or is reloaded: its first page.
OpensList(v) ==
    /\ pager[v].pc \in {"closed", "shown"}
    /\ pager' = [pager EXCEPT ![v] =
                   [pc |-> "count", offset |-> 0, total |-> 0, late |-> 0,
                    seen |-> {}, cut |-> {}, owed |-> InList]]
    /\ UNCHANGED born

CountsBoletos(v) ==
    /\ pager[v].pc = "count"
    /\ pager' = [pager EXCEPT ![v].pc = "page",
                              ![v].total = Cardinality(InList), ![v].late = 0]
    /\ UNCHANGED born

\* What the first k rows may be, ORDER BY b.created_at DESC: no boleto left out
\* is newer than one of them.
Heads(k) ==
    {S \in SUBSET InList :
        /\ Cardinality(S) = IF k < Cardinality(InList) THEN k ELSE Cardinality(InList)
        /\ \A m \in S, n \in InList \ S : born[m] >= born[n]}

\* Mutant: OFFSET is the first row, counted from one.
PageSkippingOne(offset) ==
    {page \in SUBSET InList :
        \E before \in Heads(offset + 1) :
            /\ before \cap page = {}
            /\ before \cup page \in Heads(offset + 1 + PageLimit)}

\* LIMIT OFFSET: the rows that follow the first `offset`, in any order the
\* statement may have.
Page(offset) ==
    {page \in SUBSET InList :
        \E before \in Heads(offset) :
            /\ before \cap page = {}
            /\ before \cup page \in Heads(offset + PageLimit)}

\* The boletos a page leaves out though it shows one of their instant.
Divided(page) == {b \in InList \ page : \E m \in page : born[m] = born[b]}

ReadsPage(v) ==
    /\ pager[v].pc = "page"
    /\ \E page \in Page(pager[v].offset) :
          pager' = [pager EXCEPT ![v].pc = "shown", ![v].seen = @ \cup page,
                                 ![v].cut = @ \cup Divided(page)]
    /\ UNCHANGED born

\* The button Próxima is on.
MorePages(v) == pager[v].offset + PageLimit < pager[v].total

NextPage(v) ==
    /\ pager[v].pc = "shown"
    /\ MorePages(v)
    /\ pager' = [pager EXCEPT ![v].pc = "count", ![v].offset = @ + PageLimit]
    /\ UNCHANGED born

\* Anterior
PreviousPage(v) ==
    /\ pager[v].pc = "shown"
    /\ pager[v].offset > 0
    /\ pager' = [pager EXCEPT ![v].pc = "count",
                              ![v].offset = IF @ > PageLimit THEN @ - PageLimit ELSE 0]
    /\ UNCHANGED born

PagerStep(v) ==
    \/ OpensList(v)
    \/ CountsBoletos(v)
    \/ ReadsPage(v)
    \/ NextPage(v)
    \/ PreviousPage(v)

PagesNext ==
    \/ \E new \in SUBSET Billed \ {{}}, at \in 1 .. LastMoment : BoletosArrive(new, at)
    \/ \E v \in Viewers : PagerStep(v)

PagesSpec == PagesInit /\ [][PagesNext]_pagesVars

-----------------------------------------------------------------------------
\* Whoever pages through the whole list has been shown every boleto that was
\* there when it was opened, though creations shift the pages under the reader
\* all the time, but for those an edge of a page parted from others of their
\* instant, whose order the next statement may change; of the rest, a boleto is
\* hidden only for one created between the count and the rows of the last page.
OnlyRacersHideBoletos ==
    \A v \in Viewers :
        pager[v].pc = "shown" /\ ~MorePages(v) =>
            Cardinality((pager[v].owed \ pager[v].seen) \ pager[v].cut) <= pager[v].late
=============================================================================
