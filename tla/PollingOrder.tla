---------------------------- MODULE PollingOrder ----------------------------
(***************************************************************************)
(* Which boletos a turn of the polling loop consults.  SyncPending takes    *)
(* the first boletos in the order of                                        *)
(*                                                                         *)
(*     COALESCE(last_provider_sync_at, updated_at)                          *)
(*                                                                         *)
(* under an advisory lock that lives as long as its connection, and only a  *)
(* consultation that succeeds moves a boleto to the end of that order.      *)
(* What a consultation finds is BoletoLifecycle's subject.                  *)
(***************************************************************************)
EXTENDS FiniteSets, Integers, SequencesExt

CONSTANTS
    Queued,         \* the boletos
    Pollers,        \* the processes that run the loop
    NoPoller,
    BatchLimit,     \* boletos of a turn
    Tolerated       \* consultations that fail in the turns that count

ASSUME PollingTable == IsFiniteSet(Queued)
ASSUME PollingBounds == BatchLimit \in Nat /\ Tolerated \in 0 .. BatchLimit - 1
ASSUME PollingNobody == NoPoller \notin Pollers

VARIABLES
    before,         \* pairs of boletos in the order of the query
    synced,         \* boletos whose last_provider_sync_at is set
    pollable,       \* boletos with a number and a status that is polled
    turn,           \* the turn of each process
    lock,           \* the process whose connection holds the advisory lock
    waited          \* history: turns that count and went by without a boleto

pollingVars == <<before, synced, pollable, turn, lock, waited>>

-----------------------------------------------------------------------------
NoTurn == [todo |-> <<>>, on |-> FALSE]

PollingInit ==
    /\ before = {}
    /\ synced = {}
    /\ pollable = {}
    /\ turn = [p \in Pollers |-> NoTurn]
    /\ lock = NoPoller
    /\ waited = [b \in Queued |-> 0]

\* b comes after every other boleto; those not issued yet are given their own
\* places as soon as they are.
ToEnd(b) == {p \in before : b \notin {p[1], p[2]}} \cup ((Queued \ {b}) \X {b})

\* A boleto is given a new place, or is consulted: its wait begins anew.
Renewed(turns, b) ==
    [p \in Pollers |-> IF turns[p] = NoTurn THEN NoTurn
                       ELSE [turns[p] EXCEPT !.missed = @ \ {b}]]

\* Update sets updated_at, and whatever it writes decides if the boleto is
\* polled from now on.
RowUpdated(b, polled) ==
    /\ before' = IF b \in synced THEN before ELSE ToEnd(b)
    /\ pollable' = IF polled THEN pollable \cup {b} ELSE pollable \ {b}
    /\ turn' = IF b \in synced /\ polled THEN turn ELSE Renewed(turn, b)
    /\ waited' = IF b \in synced /\ polled THEN waited
                 ELSE [waited EXCEPT ![b] = 0]
    /\ UNCHANGED <<synced, lock>>

-----------------------------------------------------------------------------
Fewer(m, n) == IF m < n THEN m ELSE n

\* Rows of the query: the first LIMIT of the boletos that are polled, in order.
ListForProviderSync ==
    {list \in [1 .. Fewer(BatchLimit, Cardinality(pollable)) -> pollable] :
        /\ \A i, j \in DOMAIN list : i < j => <<list[i], list[j]>> \in before
        /\ \A i \in DOMAIN list, b \in pollable \ ToSet(list) :
              <<list[i], b>> \in before}

Running == {p \in Pollers : turn[p] # NoTurn}

TurnBegins(p) ==
    /\ turn[p] = NoTurn
    /\ lock = NoPoller
    /\ lock' = p
    /\ \E list \in ListForProviderSync :
          turn' = [turn EXCEPT ![p] =
                     [todo |-> list, on |-> TRUE, failed |-> 0,
                      missed |-> pollable \ ToSet(list), alone |-> Running = {}]]
    /\ UNCHANGED <<before, synced, pollable, waited>>

\* Mutant: only a consultation that changes the boleto is marked.
MarkChanged(b) ==
    /\ UNCHANGED <<before, synced>>

\* MarkProviderSynced
MarkProviderSynced(b) ==
    /\ before' = ToEnd(b)
    /\ synced' = synced \cup {b}

\* Sync of the next boleto of a turn; a change it stores comes after the mark
\* and moves nothing.
TurnConsults(p) ==
    LET b == Head(turn[p].todo) IN
    /\ turn[p].todo # <<>>
    /\ MarkProviderSynced(b)
    /\ turn' = [Renewed(turn, b) EXCEPT ![p].todo = Tail(@)]
    /\ waited' = [waited EXCEPT ![b] = 0]
    /\ UNCHANGED <<pollable, lock>>

ConsultationFails(p) ==
    /\ turn[p].todo # <<>>
    /\ turn' = [turn EXCEPT ![p].todo = Tail(@), ![p].failed = @ + 1]
    /\ UNCHANGED <<before, synced, pollable, lock, waited>>

\* The turn counts for the boletos it left out if it was alone and few enough of
\* its consultations failed.
TurnEnds(p) ==
    LET counts == turn[p].alone /\ turn[p].failed <= Tolerated IN
    /\ turn[p] # NoTurn
    /\ turn[p].todo = <<>>
    /\ waited' = [b \in Queued |->
                    IF counts /\ b \in turn[p].missed THEN waited[b] + 1
                    ELSE waited[b]]
    /\ turn' = [turn EXCEPT ![p] = NoTurn]
    /\ lock' = IF lock = p THEN NoPoller ELSE lock
    /\ UNCHANGED <<before, synced, pollable>>

\* The process dies.
TurnDies(p) ==
    /\ turn[p] # NoTurn
    /\ turn' = [turn EXCEPT ![p] = NoTurn]
    /\ lock' = IF lock = p THEN NoPoller ELSE lock
    /\ UNCHANGED <<before, synced, pollable, waited>>

\* The connection that holds the lock is idle for the whole turn.  If it is
\* lost the turn goes on and another process may begin one.
LockIsLost(p) ==
    /\ lock = p
    /\ lock' = NoPoller
    /\ UNCHANGED <<before, synced, pollable, turn, waited>>

-----------------------------------------------------------------------------
PollerStep(p) ==
    \/ TurnBegins(p)
    \/ TurnConsults(p)
    \/ ConsultationFails(p)
    \/ TurnEnds(p)
    \/ TurnDies(p)
    \/ LockIsLost(p)

PollingNext ==
    \/ \E p \in Pollers : PollerStep(p)
    \/ \E b \in Queued, polled \in BOOLEAN : RowUpdated(b, polled)

PollingSpec == PollingInit /\ [][PollingNext]_pollingVars

-----------------------------------------------------------------------------
\* Turns that may go by without a boleto: each one takes BatchLimit boletos from
\* before it and moves all but the tolerated ones behind it.
MaxWait == IF Cardinality(Queued) <= BatchLimit THEN 0
           ELSE 1 + (Cardinality(Queued) - 1 - BatchLimit)
                      \div (BatchLimit - Tolerated)

\* No boleto is passed over for ever: of the turns that end, in which fewer
\* consultations fail than a turn has and that overlap with no older one, only
\* MaxWait go by without it, whichever boletos come, go and are written
\* meanwhile and whichever turns die.
NobodyIsPassedOver == \A b \in Queued : waited[b] <= MaxWait
=============================================================================
