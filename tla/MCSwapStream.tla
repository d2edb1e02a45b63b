---------------------------- MODULE MCSwapStream ----------------------------
(* A pool of three swaps over the bins 0 to 2, up, down and up again, and    *)
(* two ladders around it, for TLC.                                           *)
EXTENDS StreamAudit, TLC

MCMoves == <<<<0, 2>>, <<2, 0>>, <<0, 1>>>>
MCLadders == {(0 :> "ask" @@ 1 :> "ask"), (0 :> "bid" @@ 1 :> "ask")}
=============================================================================
