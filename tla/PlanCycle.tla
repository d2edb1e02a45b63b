----------------------------- MODULE PlanCycle -----------------------------
(***************************************************************************)
(* What one cycle of the keeper decides (plan_cycle in src/src/dlmm_bot/   *)
(* keeper.py), from the rug monitor and the inventory cap of risk_dlmm.py, *)
(* the oracle bars, the ladder and the hedge controller, over cycles in    *)
(* which the pool, the price feed and the inventory move.                  *)
(*                                                                         *)
(* The regime gate and the shared risk policy (mm_core) are a free choice  *)
(* of decision; so is whether the calls that follow succeed, are refused,  *)
(* halt the keeper or raise.  Keeper has these calls one by one.           *)
(***************************************************************************)
EXTENDS Oracle, Ladder, HedgeController

CONSTANTS
    Pairs,      \* the configurations a run may have
    Tvls,       \* the values of the pool in dollars
    Unknown,    \* no reading, or one that is not finite
    MinTvl,     \* DLMMRiskConfig.min_tvl_usd
    DropPct,    \* tvl_drop_pct
    TvlWindow,  \* tvl_window_s, in ticks
    Holdings,   \* the lots of base the wallet and the pool may hold
    Total,      \* the lots base and quote are worth together
    MaxPct,     \* max_inventory_pct
    Tilts,      \* the shifts, offsets and notionals ladders are built from
    Offsets,
    Notionals

\* oracle: none, fetched live, or loaded as a whole as the backtester does.
ASSUME PairAssumption ==
    Pairs \subseteq [oracle : {"none", "live", "loaded"}, hedged : BOOLEAN,
                     tvl : BOOLEAN, oneSided : BOOLEAN, ladders : BOOLEAN]
ASSUME RiskAssumption ==
    /\ Tvls \subseteq Nat /\ Unknown \notin Tvls
    /\ {MinTvl, DropPct, TvlWindow, Total, MaxPct} \subseteq Nat
    /\ Holdings \subseteq Lots \cap 0 .. Total /\ 0 \in Holdings
    /\ Tilts \subseteq Int /\ Offsets \subseteq Nat /\ Notionals \subseteq Nat
\* A price is known for every bin a ladder may reach.
ASSUME GridAssumption ==
    \A shift \in Tilts, offset \in Offsets :
        Asks(0, shift, offset) \subseteq GridBins

VARIABLES
    pair,      \* how this run is configured
    cycled,    \* there was a cycle at this tick
    base,      \* the base the pool state reports
    window,    \* DLMMRiskState.tvl_window, which is in order of time
    readings,  \* every reading there was, with its time and if it tripped
    decision,  \* CyclePlan.decision, and why in reason
    reason,
    ladder,    \* CyclePlan.ladder
    halted,    \* Keeper._halted
    raised     \* a call of this cycle raised, which ended the cycle

feedVars == <<traded, bars, nextRefresh>>
vars == <<now, feedVars, hedgeVars, pair, cycled, base, window, readings,
          decision, reason, ladder, halted, raised>>

NoLadder == [active |-> 0, bids |-> {}, asks |-> {}]
Plan(d, r) == decision' = d /\ reason' = r
NoQuote == ladder' = NoLadder

\* The plan of a cycle is not kept.
NoPlan == Plan("HOLD", "none") /\ NoQuote

Init ==
    /\ pair \in Pairs
    /\ now = 0 /\ cycled = FALSE /\ halted = FALSE /\ raised = FALSE
    /\ IF pair.oracle = "loaded"
       THEN /\ traded \in [Legs -> SUBSET BarOpens]
            /\ bars = Download(0, MaxTime)
       ELSE traded = [l \in Legs |-> {}] /\ bars = <<>>
    /\ nextRefresh = 0
    /\ HedgeInit
    /\ base \in Holdings
    /\ window = {} /\ readings = {}
    /\ decision = "HOLD" /\ reason = "none" /\ ladder = NoLadder

-----------------------------------------------------------------------------
(* The world. *)

\* A trade falls in the bar that is open.
Trade(l) ==
    /\ pair.oracle = "live" /\ now < MaxTime /\ ~halted
    /\ traded' = [traded EXCEPT ![l] = @ \cup {now - (now % Bar)}]
    /\ traded' # traded
    /\ UNCHANGED <<now, bars, nextRefresh, hedgeVars, pair, cycled, base,
                   window, readings, decision, reason, ladder, halted, raised>>

\* Time passes; the pool fills our orders, or we are refilled.  A halted
\* keeper does nothing any more, so the world is not followed beyond it.
Tick ==
    /\ now < MaxTime /\ ~halted
    /\ now' = now + 1 /\ cycled' = FALSE /\ raised' = FALSE
    /\ base' \in Holdings
    /\ NoPlan
    /\ UNCHANGED <<feedVars, hedgeVars, pair, window, readings, halted>>

-----------------------------------------------------------------------------
(* The checks of plan_cycle, in its order. *)

\* The window without what is too old.
Recent(ts) == {r \in window : ts - r.ts <= TvlWindow}

Dropped(peak, tvl) == (peak - tvl) * 100 > DropPct * peak

\* a mutant of Drained: the last reading is compared, not the peak
DrainedSinceLast(ts, tvl) ==
    \/ tvl < MinTvl
    \/ \E r \in window : /\ \A p \in window : p.ts <= r.ts
                        /\ Dropped(r.tvl, tvl)

\* evaluate_tvl() trips: below the minimum, or far below a recent reading.
Drained(ts, tvl) ==
    \/ tvl < MinTvl
    \/ \E r \in Recent(ts) : r.ts < ts /\ Dropped(r.tvl, tvl)

Read(tvl, trips) ==
    readings' = IF tvl = Unknown THEN readings
                ELSE readings \cup {[ts |-> now, tvl |-> tvl, tripped |-> trips]}

\* evaluate_tvl(), of a reading that trips or does not: only the latter joins
\* the window.
TvlKills(tvl) ==
    /\ tvl # Unknown /\ Drained(now, tvl)
    /\ window' = IF tvl < MinTvl THEN window ELSE Recent(now)
    /\ Read(tvl, TRUE)
TvlPasses(tvl) ==
    /\ IF tvl = Unknown THEN UNCHANGED window
       ELSE /\ ~Drained(now, tvl)
            /\ window' = Recent(now) \cup {[ts |-> now, tvl |-> tvl]}
    /\ Read(tvl, FALSE)

\* check_inventory_cap()
CapBreached ==
    IF pair.oneSided THEN base > 0 /\ Total - base > 0
                     ELSE base * 100 > Total * MaxPct

OracleStale ==
    pair.oracle # "none" /\ RegimeHistory(bars', now) = <<>>

-----------------------------------------------------------------------------
(* A cycle: the state is polled, the oracle refreshed, the plan made and   *)
(* carried out.                                                            *)

Tvl == IF pair.tvl THEN Tvls \cup {Unknown} ELSE {Unknown}

Poll ==
    /\ ~halted /\ ~cycled /\ cycled' = TRUE
    /\ \/ pair.oracle = "live" /\ Refresh
       \/ UNCHANGED <<bars, nextRefresh>>  \* no source, or the fetch raised
    /\ UNCHANGED <<now, traded, pair>>

\* A call raises: nothing that comes after it in the cycle is done.
Raises == raised' = TRUE /\ UNCHANGED <<base, hedgeVars, halted>>

\* The calls of a cycle that neither buys nor sells: a failure may halt it.
Quietly == raised' = FALSE /\ halted' \in BOOLEAN /\ UNCHANGED base

\* The exit sells the base and unwinds the hedge, whether or not the calls of
\* the one or the other are refused.
EmergencyExit ==
    \/ halted' = TRUE /\ UnwindHedge /\ base' \in {0, base} /\ raised' = FALSE
    \/ Raises

\* The hedge is unwound only when the base is known to be sold; an unknown
\* outcome halts, and what comes after a refusal is as if a call raised.
DeRisk ==
    \/ /\ base > 0 /\ base' = 0 /\ UnwindHedge
       /\ raised' = FALSE /\ halted' \in BOOLEAN
    \/ /\ base' \in {0, base} /\ UNCHANGED hedgeVars
       /\ raised' = FALSE /\ halted' = TRUE
    \/ Raises

RugKill ==
    \E tvl \in Tvl :
        /\ Poll
        /\ TvlKills(tvl)
        /\ Plan("EMERGENCY_EXIT", "rug_kill_switch") /\ NoQuote
        /\ EmergencyExit

InventoryCap ==
    \E tvl \in Tvl :
        /\ Poll
        /\ TvlPasses(tvl) /\ CapBreached
        /\ Plan("DE_RISK", "inventory_cap") /\ NoQuote
        /\ DeRisk

OracleGate ==
    \E tvl \in Tvl :
        /\ Poll
        /\ TvlPasses(tvl) /\ ~CapBreached /\ OracleStale
        /\ Plan("STOP_QUOTING", "oracle_stale") /\ NoQuote
        /\ Quietly /\ UNCHANGED hedgeVars

\* The checks are passed, and the shared policy decides.  (The first of them,
\* invalid_mid, never fails here: the cycle has validated the reading.)
Policy(d) ==
    \E tvl \in Tvl :
        /\ Poll
        /\ TvlPasses(tvl) /\ ~CapBreached /\ ~OracleStale
        /\ Plan(d, "policy")

PolicyExits == Policy("EMERGENCY_EXIT") /\ NoQuote /\ EmergencyExit

PolicyDeRisks == Policy("DE_RISK") /\ NoQuote /\ DeRisk

PolicyWaits ==
    /\ Policy("HOLD") \/ Policy("STOP_QUOTING")
    /\ NoQuote /\ Quietly /\ UNCHANGED hedgeVars

\* WIDEN differs by a half spread of twice the size, one of the offsets.
PolicyQuotes ==
    /\ Policy("QUOTE") \/ Policy("WIDEN")
    /\ IF pair.ladders
       THEN \E shift \in Tilts, offset \in Offsets, b, a \in Notionals :
              ladder' = BuildLadder(0, shift, offset, b, a)
       ELSE NoQuote
    /\ \/ /\ IF pair.hedged THEN Evaluate(base) \/ EvaluateNothing
                           ELSE UNCHANGED hedgeVars
          /\ Quietly
       \/ Raises

Cycle == \/ RugKill \/ InventoryCap \/ OracleGate
         \/ PolicyExits \/ PolicyDeRisks \/ PolicyWaits \/ PolicyQuotes

Next == Tick \/ (\E l \in Legs : Trade(l)) \/ Cycle

Spec == Init /\ [][Next]_vars

-----------------------------------------------------------------------------
(* Properties. *)

Quoting == decision \in {"QUOTE", "WIDEN"}

\* Types: the window holds readings there were, and the bars are in order,
\* none of them kept twice.
TypeOK ==
    /\ decision \in {"EMERGENCY_EXIT", "DE_RISK", "STOP_QUOTING", "HOLD",
                     "QUOTE", "WIDEN"}
    /\ window \subseteq {[ts |-> r.ts, tvl |-> r.tvl] : r \in readings}
    /\ \A j, k \in 1 .. Len(bars) : j < k => bars[j].open < bars[k].open
    /\ maTarget \in Lots /\ hedgeShort \in Lots /\ base \in Holdings

\* A reading is a rug if it is below the minimum or below what any reading of
\* the last tvl_window_s leaves standing, in however many steps the pool was
\* drained, and exactly then the cycle is an exit, whatever else it sees
\* ("a drain spread over several polls must still trip it").  A reading that
\* tripped is no peak: the pool is measured by what it was before.
DrainIsSeen ==
    cycled =>
        LET rugs == {r \in readings :
                /\ r.ts = now
                /\ \/ r.tvl < MinTvl
                   \/ \E p \in readings :
                        /\ ~p.tripped /\ p.ts < now /\ now - p.ts <= TvlWindow
                        /\ Dropped(p.tvl, r.tvl)}
        IN reason = "rug_kill_switch" <=> rugs # {}

\* A pair with an oracle quotes only on prices it could know: the bars the
\* gate was given are closed, in order, each has the price of the last trade
\* before its close in both legs, and live the newest is not old, whatever
\* the feed, the market and the clock did between two fetches.
QuotesOnTruePrices ==
    cycled /\ Quoting /\ pair.oracle # "none" =>
        LET h == RegimeHistory(bars, now)
        IN /\ h # <<>>
           /\ \A k \in 1 .. Len(h) :
                /\ h[k].open + Bar <= now
                /\ k > 1 => h[k - 1].open < h[k].open
                /\ \A l \in Legs :
                     /\ h[k].price[l] \in traded[l]
                     /\ h[k].price[l] <= h[k].open
                     /\ \A t \in traded[l] :
                          ~(h[k].price[l] < t /\ t <= h[k].open)
           /\ pair.oracle = "live" =>
                now - (bars[Len(bars)].open + Bar) <= MaxAge

\* Every ladder the plan proposes is one the executor accepts, after the
\* levels below a raw unit are dropped.
LadderStraddles == Straddles(ladder)

\* While the hedge is not unwound, an evaluation leaves a residual of at most
\* its cap and the band of the evaluation before; and if the band has not
\* shrunk since, the trade goes towards the inventory and not past it, and
\* leaves the residual within the cap: then the lagging average cannot make it
\* worse.
HedgeInBounds ==
    [][pair.hedged /\ Evaluate(base) /\ ~unwound
         => /\ Apart(base, hedgeShort') <= bounds'.cap + bounds.band
            /\ bounds.band <= bounds'.band
                 => /\ Between(hedgeShort, hedgeShort', base)
                    /\ Apart(base, hedgeShort') <= bounds'.cap]_vars

=============================================================================
