---------------------------- MODULE MCPlanCycle ----------------------------
(* Small values for PlanCycle: bars of two ticks, a pool that is drained in  *)
(* steps of less than the limit, and six lots of inventory.                  *)
EXTENDS PlanCycle

Pair(o, h, t, s, l) ==
    [oracle |-> o, hedged |-> h, tvl |-> t, oneSided |-> s, ladders |-> l]

\* One thing at a time is varied, and the pool's value with the inventory.
MCPairs == {Pair("live", FALSE, FALSE, FALSE, FALSE),
            Pair("loaded", FALSE, FALSE, FALSE, FALSE),
            Pair("none", TRUE, FALSE, FALSE, FALSE),
            Pair("none", FALSE, TRUE, TRUE, FALSE),
            Pair("none", FALSE, FALSE, FALSE, TRUE)}
MCHedged == {Pair("none", TRUE, FALSE, FALSE, FALSE)}

\* The bounds of a small and of a large inventory.
MCBounds == {[band |-> 1, cap |-> 3], [band |-> 2, cap |-> 4]}

MCTilts == {-3, -1, 0, 2}
MCBins == -8 .. 8
MCPrice == [b \in MCBins |-> IF b < 0 THEN 1 ELSE 1 + b \div 2]
=============================================================================
