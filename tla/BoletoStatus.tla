---------------------------- MODULE BoletoStatus ----------------------------
(***************************************************************************)
(* The status vocabulary of a boleto and the two pure functions every      *)
(* writer of boletos.status is meant to agree on: the transition table of  *)
(* providers/base and the translation of the bank's wording into a status. *)
(***************************************************************************)

KnownStatuses == {"CREATED", "PROCESSING", "ISSUED", "FAILED",
                  "CANCELLED", "PARTIAL", "PAID", "EXPIRED"}

Transitions ==
    {<<"CREATED", "PROCESSING">>, <<"CREATED", "CANCELLED">>}
    \cup {<<"PROCESSING", s>> : s \in {"ISSUED", "FAILED", "CANCELLED"}}
    \cup {<<"ISSUED", s>> : s \in {"PAID", "PARTIAL", "EXPIRED", "CANCELLED"}}
    \cup {<<"PARTIAL", "PAID">>}

CanTransition(from, to) == from = to \/ <<from, to>> \in Transitions

(***************************************************************************)
(* The bank's own wording for a title.  "recebido" stands for a title the  *)
(* bank has accepted but not registered, "outro" for any wording the       *)
(* mapper does not list; both fall through to its default branch.          *)
(***************************************************************************)
TitleTexts == {"recebido", "registrado", "pago", "baixado", "vencido", "erro"}

Unlisted == "outro"

\* Mutant: a write-off ("baixa") taken for a payment.
BaixaIsPaid == [pago |-> "PAID", registrado |-> "ISSUED", baixado |-> "PAID",
                vencido |-> "EXPIRED", erro |-> "FAILED"]

Wording == [pago |-> "PAID", registrado |-> "ISSUED", baixado |-> "CANCELLED",
            vencido |-> "EXPIRED", erro |-> "FAILED"]

\* Mutant: the default branch hands the bank's wording on.
RawMapStatus(text) == IF text \in DOMAIN Wording THEN Wording[text] ELSE text

MapStatus(text) ==
    IF text \in DOMAIN Wording THEN Wording[text] ELSE "PROCESSING"
=============================================================================
