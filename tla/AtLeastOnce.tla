----------------------------- MODULE AtLeastOnce -----------------------------
(***************************************************************************)
(* What docs/api.md promises a tenant of the webhook queue: an event put on *)
(* it stays pending until the tenant's endpoint has answered it with a 2xx, *)
(* however often it has to be sent, and is then never pending again.        *)
(***************************************************************************)
CONSTANTS
    Messages,   \* the events
    Waived,     \* those of a tenant that has configured no webhook_url
    Owed        \* those whose tenant does answer 2xx now and then

VARIABLES
    queued,     \* put on the queue
    heard,      \* answered by the tenant with a 2xx, or so it meant to
    settled     \* no longer pending

vars == <<queued, heard, settled>>

Init == queued = {} /\ heard = {} /\ settled = {}

Enqueue(m) ==
    /\ m \notin queued
    /\ queued' = queued \cup {m}
    /\ UNCHANGED <<heard, settled>>

\* Before it was put on the queue, too: the first attempt is immediate.
Hear(m) ==
    /\ heard' = heard \cup {m}
    /\ UNCHANGED <<queued, settled>>

Settle(m) ==
    /\ m \in heard \cup Waived
    /\ settled' = settled \cup {m}
    /\ UNCHANGED <<queued, heard>>

Next == \E m \in Messages : Enqueue(m) \/ Hear(m) \/ Settle(m)

\* The tenant never has to ask: a queued event gets through by itself.
Spec == /\ Init
        /\ [][Next]_vars
        /\ \A m \in Owed : (m \in queued) ~> (m \in settled)
=============================================================================
