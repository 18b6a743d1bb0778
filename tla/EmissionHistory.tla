--------------------------- MODULE EmissionHistory ---------------------------
(***************************************************************************)
(* BoletoLifecycle with the history of its emissions.  Two calls of        *)
(* BoletoService.Emit that work on one boleto at the same time, and a call *)
(* that dies between its mark and its last write, leave a boleto of which  *)
(* the table does not say whether the bank was asked: those are `doubted'. *)
(* The history only watches: it never enables or forbids a step.           *)
(***************************************************************************)
EXTENDS BoletoLifecycle

VARIABLE doubted    \* history: boletos with overlapping or dead emissions

historyVars == <<vars, doubted>>

HistoryInit == Init /\ doubted = {}

EmissionOf(e, b) == emit[e] # Idle /\ emit[e].boleto = b

Overlapping ==
    {b \in Boletos : \E e, f \in Emitters :
        e # f /\ EmissionOf(e, b) /\ EmissionOf(f, b)}

\* The boletos whose emission this step ends after the mark (PROCESSING is in
\* the table) and before the answer or the refusal is.
LeftUnstored ==
    {emit[e].boleto : e \in {x \in Emitters :
                               emit[x].pc # "mark" /\ EmitAbandon(x)}}

HistoryNext ==
    /\ Next
    /\ doubted' = doubted \cup Overlapping' \cup LeftUnstored

HistorySpec == HistoryInit /\ [][HistoryNext]_historyVars
-----------------------------------------------------------------------------
\* docs/architecture.md:40 "verifica idempotencia".  Only an emission that
\* overlapped another or died past its mark can give a boleto two titles: the
\* stale whole-row writes of the webhooks and of the polls, late registrations,
\* lost answers and refusals never bring a boleto that was asked of the bank
\* back to a row Emit takes up.
UndoubtedHasOneTitle ==
    \A b \in Boletos \ doubted, n, m \in Numbers :
        title[b][n] # "none" /\ title[b][m] # "none" => n = m
=============================================================================
