------------------------------ MODULE MCKeeper ------------------------------
(* Small instances of Keeper for TLC. *)
EXTENDS Keeper

MCTwoBins == {0, 1}
=============================================================================
