--------------------------- MODULE MCTenantOutbox ---------------------------
(***************************************************************************)
(* Instances of TenantOutbox for TLC.                                      *)
(***************************************************************************)
EXTENDS TenantOutbox, TLC

CONSTANTS u1, u2, u3, i1, i2, message, Dead, Unset

\* Every item came in the same REGISTRO message.
OneMessage == [i \in Items |-> message]

Endpoints == [k \in Events |-> IF k \in Dead THEN "dead"
                               ELSE IF k \in Unset THEN "unset" ELSE "up"]
=============================================================================
