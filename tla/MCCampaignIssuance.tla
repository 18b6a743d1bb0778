------------------------- MODULE MCCampaignIssuance -------------------------
(***************************************************************************)
(* Instances of CampaignIssuance for TLC.                                  *)
(***************************************************************************)
EXTENDS CampaignIssuance, TLC

CONSTANTS RowsEach

AllMoncalieri == [b \in Boletos |-> "moncalieri"]
AllMock == [b \in Boletos |-> "mock"]
AllCreated == [b \in Boletos |-> "CREATED"]
SameRows == [i \in Imports |-> RowsEach]

Symmetry == Permutations(Boletos) \cup Permutations(Numbers)
            \cup Permutations(Requests)

WorkerSymmetry == Symmetry \cup Permutations(Workers)
=============================================================================
