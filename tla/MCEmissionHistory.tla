-------------------------- MODULE MCEmissionHistory --------------------------
(***************************************************************************)
(* Instances of EmissionHistory for TLC.                                   *)
(***************************************************************************)
EXTENDS EmissionHistory, MCBoletoLifecycle
=============================================================================
