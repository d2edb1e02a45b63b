------------------------------ MODULE MCLpRuns ------------------------------
(* Small instances of LpRuns for TLC. *)
EXTENDS LpRuns

MCTwoBins == {0, 2}
MCLegRents == {3}
=============================================================================
