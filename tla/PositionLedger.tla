--------------------------- MODULE PositionLedger ---------------------------
(***************************************************************************)
(* What the keeper promises about the positions of its wallet, whatever it *)
(* decides, fails at or crashes in: a position is accounted for BEFORE it  *)
(* can exist on chain, and stops being accounted for only AFTER it is      *)
(* gone.  At every moment, then, the accounts find all of the liquidity.   *)
(***************************************************************************)
EXTENDS FiniteSets

CONSTANT Id

VARIABLES
    chain,      \* positions that exist
    accounted   \* positions the durable records lead to

vars == <<chain, accounted>>

Init == accounted \subseteq Id /\ chain = accounted

\* A call is written down with the positions it may open.
Announce ==
    /\ \E ids \in SUBSET Id : accounted' = accounted \cup ids
    /\ UNCHANGED chain

\* The chain opens announced positions and closes any.
Change ==
    /\ chain' \in SUBSET (chain \cup accounted)
    /\ UNCHANGED accounted

\* Only what is not on chain is forgotten.
Forget ==
    /\ accounted' \in SUBSET accounted
    /\ chain \subseteq accounted'
    /\ UNCHANGED chain

Next == Announce \/ Change \/ Forget

Spec == Init /\ [][Next]_vars
=============================================================================
