-------------------------- MODULE HedgeController --------------------------
(***************************************************************************)
(* The hedge controller (src/src/dlmm_bot/hedge.py): it follows a moving   *)
(* average of the base inventory with a perp short, inside a band, and     *)
(* closes the residual at once beyond a cap.  Band and cap are shares of   *)
(* what the inventory is worth in base, computed anew by each evaluation.  *)
(*                                                                         *)
(* Amounts are lots.  The average takes any value on the way from the old  *)
(* one to the inventory: its weight is in [0, 1] whatever the window, the  *)
(* volatility and the interval.                                            *)
(***************************************************************************)
EXTENDS Integers

CONSTANTS
    Lots,   \* the amounts of base and short
    Bounds  \* the bands and caps an evaluation may come to, in lots

\* delta_cap_bps: "keep above the cube-root band"
ASSUME HedgeAssumption ==
    /\ Lots \subseteq Int /\ 0 \in Lots
    /\ Bounds \subseteq [band : Nat, cap : Nat]
    /\ \A b \in Bounds : b.band < b.cap

VARIABLES
    maTarget,    \* HedgeState.ma_target
    seeded,      \* HedgeState.last_action is not "init"
    bounds,      \* HedgeState.deadband and hard_cap
    hedgeShort,  \* Keeper._hedge_short
    unwound      \* no evaluation since the keeper unwound the hedge

hedgeVars == <<maTarget, seeded, bounds, hedgeShort, unwound>>

Between(a, x, b) == (a <= x /\ x <= b) \/ (b <= x /\ x <= a)
Apart(a, b) == IF a <= b THEN b - a ELSE a - b

HedgeInit ==
    /\ maTarget = 0 /\ seeded = FALSE /\ bounds = [band |-> 0, cap |-> 0]
    /\ hedgeShort = 0 /\ unwound = FALSE

\* update_ema(): the first evaluation takes the inventory for the average.
Averages(base) ==
    IF seeded THEN {m \in Lots : Between(maTarget, m, base)} ELSE {base}

\* a mutant of HedgeTo: the residual is closed to the average
HedgeToAverage(m, base, b) ==
    /\ maTarget' = m
    /\ hedgeShort' = IF \/ Apart(base, hedgeShort) > b.cap
                        \/ Apart(m, hedgeShort) > b.band
                     THEN m ELSE hedgeShort

\* force_hedge, rehedge, no_trade; the keeper takes the target for the short.
HedgeTo(m, base, b) ==
    IF Apart(base, hedgeShort) > b.cap
    THEN maTarget' = base /\ hedgeShort' = base
    ELSE /\ maTarget' = m
         /\ hedgeShort' = IF Apart(m, hedgeShort) > b.band THEN m ELSE hedgeShort

\* evaluate(), in a cycle that quotes: the inventory's worth in base, and so
\* the bounds, go with the price.
Evaluate(base) ==
    /\ bounds' \in Bounds
    /\ \E m \in Averages(base) : HedgeTo(m, base, bounds')
    /\ seeded' = TRUE /\ unwound' = FALSE

\* evaluate() with an input that is not finite, such as the regime's
\* volatility: no trade, and the controller remembers nothing of it.
EvaluateNothing == UNCHANGED hedgeVars

\* Keeper._unwind_hedge(): the controller is not told.
UnwindHedge ==
    /\ hedgeShort' = 0
    /\ unwound' = (unwound \/ hedgeShort # 0)
    /\ UNCHANGED <<maTarget, seeded, bounds>>
=============================================================================
