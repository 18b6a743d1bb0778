-------------------------- MODULE MCBoletoLifecycle --------------------------
(***************************************************************************)
(* Instances of BoletoLifecycle for TLC.  Boletos do not share rows, titles *)
(* or events, so one boleto with several calls on it shows every race.     *)
(***************************************************************************)
EXTENDS BoletoLifecycle, TLC

Symmetry == Permutations(Emitters) \cup Permutations(Receivers)
            \cup Permutations(Syncers) \cup Permutations(Numbers)

AllMoncalieri == [b \in Boletos |-> "moncalieri"]
AllMock == [b \in Boletos |-> "mock"]
AllCreated == [b \in Boletos |-> "CREATED"]
=============================================================================
