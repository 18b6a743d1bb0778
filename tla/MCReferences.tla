---------------------------- MODULE MCReferences ----------------------------
(***************************************************************************)
(* An instance of References for TLC: two tenants use the same external id, *)
(* each for a boleto of its own.                                            *)
(***************************************************************************)
EXTENDS References, TLC

CONSTANTS x1, alpha, beta

SameKey == {<<[tenant |-> alpha, key |-> x1, provider |-> "moncalieri"]>>,
            <<[tenant |-> beta, key |-> x1, provider |-> "moncalieri"]>>}
=============================================================================
