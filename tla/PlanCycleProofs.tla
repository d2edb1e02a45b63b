-------------------------- MODULE PlanCycleProofs --------------------------
(***************************************************************************)
(* Theorems about PlanCycle: the ladders it proposes, the trades of its    *)
(* hedge, the drains its monitor sees and the prices its oracle hands to   *)
(* the gate, for every grid, threshold and window.                         *)
(***************************************************************************)
EXTENDS PlanCycle, OrderedProofs

-----------------------------------------------------------------------------
(* Ladders. *)

\* The bids of a ladder are below the active bin and without a gap.
LEMMA BidSide ==
    ASSUME NEW active \in Int, NEW shift \in Int, NEW offset \in Nat,
           NEW notional \in Nat
    PROVE  LET S == FundedBids(Bids(active, shift, offset), notional)
           IN Contiguous(S) /\ \A b \in S : b < active
<1> DEFINE S == FundedBids(Bids(active, shift, offset), notional)
           top == TopBid(active, shift, offset)
<1>1. top \in Int /\ top < active
  BY LadderAssumption DEF TopBid, Inner, Smaller, Larger
<1>2. \A b \in S : b \in Int /\ b <= top /\ b > top - Levels
  BY <1>1, LadderAssumption DEF FundedBids, Bids
<1>3. ASSUME NEW a \in S, NEW c \in S, NEW x \in a .. c
      PROVE  x \in S
  <2>1. x = top - (top - x) /\ top - x \in 0 .. Levels - 1
    BY <1>1, <1>2, <1>3, LadderAssumption
  <2> QED BY <2>1 DEF FundedBids, Bids
<1> QED BY <1>1, <1>2, <1>3 DEF Contiguous

\* The asks are at the active bin or above, and stay without a gap when the
\* levels below a raw unit are dropped: those are the dearest, the last ones.
LEMMA AskSide ==
    ASSUME NEW active \in Int, NEW shift \in Int, NEW offset \in Nat,
           NEW notional \in Nat, Asks(active, shift, offset) \subseteq GridBins
    PROVE  LET S == FundedAsks(Asks(active, shift, offset), notional)
           IN Contiguous(S) /\ \A a \in S : a >= active
<1> DEFINE S == FundedAsks(Asks(active, shift, offset), notional)
           low == LowAsk(active, shift, offset)
<1>1. low \in Int /\ low >= active
  BY LadderAssumption DEF LowAsk, Inner, Larger
<1>2. \A a \in S : a \in Int /\ a >= low /\ a < low + Levels
  BY <1>1, LadderAssumption DEF FundedAsks, Asks
<1>3. ASSUME NEW a \in S, NEW c \in S, NEW x \in a .. c
      PROVE  x \in S
  <2>1. x = low + (x - low) /\ x - low \in 0 .. Levels - 1
    BY <1>1, <1>2, <1>3, LadderAssumption
  <2>2. x \in Asks(active, shift, offset)
    BY <2>1 DEF Asks
  <2>3. c \in GridBins /\ x \in GridBins /\ x <= c
    BY <2>2, <1>2, <1>3 DEF FundedAsks
  <2>4. Price[x] <= Price[c] /\ Price[c] <= notional
    BY <2>3, <1>3, LadderAssumption DEF FundedAsks
  <2> QED BY <2>2, <2>3, <2>4, LadderAssumption DEF FundedAsks
<1> QED BY <1>1, <1>2, <1>3 DEF Contiguous

\* Every ladder a plan proposes straddles the active bin, whatever the tilt,
\* the half spread and the notionals: the executor does not refuse it.
THEOREM LaddersStraddle == Spec => []LadderStraddles
<1>1. Straddles(NoLadder)
  BY DEF Straddles, NoLadder, Contiguous
<1>2. Init => LadderStraddles
  BY <1>1 DEF Init, LadderStraddles
<1>3. LadderStraddles /\ [Next]_vars => LadderStraddles'
  <2> SUFFICES ASSUME LadderStraddles, [Next]_vars
               PROVE  LadderStraddles'
    OBVIOUS
  <2>1. CASE ladder' = ladder
    BY <2>1 DEF LadderStraddles
  <2>2. CASE NoQuote
    BY <2>2, <1>1 DEF NoQuote, LadderStraddles
  <2>3. CASE PolicyQuotes
    <3>1. CASE NoQuote
      BY <3>1, <2>2
    <3>2. CASE \E shift \in Tilts, offset \in Offsets, b, a \in Notionals :
                 ladder' = BuildLadder(0, shift, offset, b, a)
      <4>1. PICK shift \in Tilts, offset \in Offsets,
                 b \in Notionals, a \in Notionals :
                 ladder' = BuildLadder(0, shift, offset, b, a)
        BY <3>2
      <4>2. /\ shift \in Int /\ offset \in Nat /\ b \in Nat /\ a \in Nat
            /\ Asks(0, shift, offset) \subseteq GridBins
        BY RiskAssumption, GridAssumption
      <4>3. /\ Contiguous(ladder'.bids) /\ \A x \in ladder'.bids : x < 0
            /\ Contiguous(ladder'.asks) /\ \A x \in ladder'.asks : x >= 0
            /\ ladder'.active = 0
        BY <4>1, <4>2, BidSide, AskSide DEF BuildLadder
      <4> QED BY <4>3 DEF LadderStraddles, Straddles
    <3> QED BY <2>3, <3>1, <3>2 DEF PolicyQuotes
  <2>4. CASE Tick \/ (\E l \in Legs : Trade(l)) \/ UNCHANGED vars
    BY <2>4, <2>1, <2>2 DEF Tick, NoPlan, Trade, vars
  <2> QED BY <2>2, <2>3, <2>4
          DEF Next, Cycle, RugKill, InventoryCap, OracleGate, PolicyExits,
              PolicyDeRisks, PolicyWaits
<1> QED BY <1>2, <1>3, PTL DEF Spec

-----------------------------------------------------------------------------
(* The hedge. *)

\* The short is within the last band of the average, until it is unwound.
HedgeInv ==
    /\ bounds.band \in Nat /\ bounds.cap \in Nat
    /\ maTarget \in Int /\ hedgeShort \in Int /\ base \in Int
    /\ ~seeded => hedgeShort = 0
    /\ seeded /\ ~unwound => Apart(maTarget, hedgeShort) <= bounds.band

\* What lies between two amounts within a limit of each other is within it.
LEMMA NearerStaysWithin ==
    ASSUME NEW a \in Int, NEW x \in Int, NEW b \in Int, NEW limit \in Nat,
           Between(a, x, b), ~(Apart(b, a) > limit)
    PROVE  Apart(b, x) <= limit
<1>1. CASE a <= x /\ x <= b
  BY <1>1 DEF Apart
<1>2. CASE b <= x /\ x <= a
  BY <1>2 DEF Apart
<1> QED BY <1>1, <1>2 DEF Between

\* What one evaluation leaves of the residual.
Bounded ==
    Apart(base, hedgeShort') <= bounds'.cap + bounds.band
Nearing ==
    /\ Between(hedgeShort, hedgeShort', base)
    /\ Apart(base, hedgeShort') <= bounds'.cap

\* An average that is near the short, and the short within the cap of the
\* inventory: then the next average is within the cap and the band of it.
LEMMA AverageStaysNear ==
    ASSUME NEW ma \in Int, NEW m \in Int, NEW b \in Int, NEW short \in Int,
           NEW near \in Nat, NEW limit \in Nat,
           Between(ma, m, b), Apart(ma, short) <= near, Apart(b, short) <= limit
    PROVE  Apart(b, m) <= limit + near
<1>1. CASE ma <= b
  BY <1>1 DEF Between, Apart
<1>2. CASE b <= ma
  BY <1>2 DEF Between, Apart
<1> QED BY <1>1, <1>2

\* An average that left the band it was in did so towards the inventory.
LEMMA LeavesTowards ==
    ASSUME NEW ma \in Int, NEW m \in Int, NEW b \in Int, NEW short \in Int,
           NEW near \in Nat, NEW far \in Nat, near <= far,
           Between(ma, m, b), Apart(ma, short) <= near, Apart(m, short) > far
    PROVE  Between(short, m, b)
<1>1. CASE ma <= b
  BY <1>1 DEF Between, Apart
<1>2. CASE b <= ma
  BY <1>2 DEF Between, Apart
<1> QED BY <1>1, <1>2

\* One evaluation leaves the short within the new band of the average, and
\* within the cap and the last band of the inventory.  A band that has not
\* shrunk makes it trade towards the inventory only.
LEMMA Evaluated ==
    ASSUME HedgeInv, Evaluate(base)
    PROVE  /\ bounds'.band \in Nat /\ bounds'.cap \in Nat
           /\ maTarget' \in Int /\ hedgeShort' \in Int
           /\ Apart(maTarget', hedgeShort') <= bounds'.band
           /\ unwound \/ Bounded
           /\ unwound \/ ~(bounds.band <= bounds'.band) \/ Nearing
<1> DEFINE cap == bounds'.cap
           band == bounds'.band
           old == bounds.band
<1>0. /\ cap \in Nat /\ band \in Nat /\ old \in Nat
      /\ maTarget \in Int /\ hedgeShort \in Int /\ base \in Int
  BY HedgeAssumption DEF Evaluate, HedgeInv
<1>1. PICK m \in Averages(base) : HedgeTo(m, base, bounds')
  BY DEF Evaluate
<1>2. m \in Int
  BY <1>0, HedgeAssumption DEF Averages
<1>3. CASE Apart(base, hedgeShort) > cap
  <2>1. maTarget' = base /\ hedgeShort' = base
    BY <1>1, <1>3 DEF HedgeTo
  <2> HIDE DEF cap, band, old
  <2>2. Apart(base, base) = 0 /\ Between(hedgeShort, base, base)
    BY <1>0 DEF Apart, Between
  <2>3. 0 <= cap + old /\ 0 <= cap /\ 0 <= band
    BY <1>0
  <2> QED BY <1>0, <2>1, <2>2, <2>3 DEF Bounded, Nearing, cap, band, old
<1>4. CASE ~(Apart(base, hedgeShort) > cap)
  <2>1. /\ maTarget' = m
        /\ hedgeShort' = IF Apart(m, hedgeShort) > band THEN m ELSE hedgeShort
    BY <1>1, <1>4 DEF HedgeTo
  <2> HIDE DEF cap, band, old
  <2>2. Apart(base, hedgeShort) <= cap
    BY <1>0, <1>4 DEF Apart
  <2>3. CASE ~(Apart(m, hedgeShort) > band)
    <3>1. hedgeShort' = hedgeShort /\ Apart(m, hedgeShort) <= band
      BY <1>0, <1>2, <2>1, <2>3 DEF Apart
    <3>2. Between(hedgeShort, hedgeShort, base)
      BY <1>0 DEF Between
    <3>3. Apart(base, hedgeShort) <= cap + old
      BY <1>0, <2>2 DEF Apart
    <3> QED BY <1>0, <1>2, <2>1, <2>2, <3>1, <3>2, <3>3
            DEF Bounded, Nearing, cap, band, old
  <2>4. CASE Apart(m, hedgeShort) > band
    <3>1. hedgeShort' = m /\ maTarget' = m
      BY <2>1, <2>4
    <3>2. Apart(m, m) <= band
      BY <1>0, <1>2 DEF Apart
    <3>3. CASE unwound
      BY <1>0, <1>2, <3>1, <3>2, <3>3 DEF cap, band, old
    <3>4. CASE ~seeded
      <4>1. m = base
        BY <3>4 DEF Averages
      <4>2. Apart(base, base) = 0 /\ Between(hedgeShort, base, base)
        BY <1>0 DEF Apart, Between
      <4>3. 0 <= cap + old /\ 0 <= cap
        BY <1>0
      <4> QED BY <1>0, <1>2, <3>1, <3>2, <4>1, <4>2, <4>3
              DEF Bounded, Nearing, cap, band, old
    <3>5. CASE seeded /\ ~unwound
      <4>1. Between(maTarget, m, base) /\ Apart(maTarget, hedgeShort) <= old
        BY <3>5 DEF Averages, HedgeInv, old
      <4>2. Apart(base, m) <= cap + old
        BY <1>0, <1>2, <2>2, <4>1, AverageStaysNear
      <4>3. ASSUME old <= band
            PROVE  Between(hedgeShort, m, base) /\ Apart(base, m) <= cap
        <5>1. Between(hedgeShort, m, base)
          BY <1>0, <1>2, <2>4, <4>1, <4>3, LeavesTowards
        <5> QED BY <1>0, <1>2, <1>4, <5>1, NearerStaysWithin
      <4> QED BY <1>0, <1>2, <3>1, <3>2, <4>2, <4>3
              DEF Bounded, Nearing, cap, band, old
    <3> QED BY <3>3, <3>4, <3>5
  <2> QED BY <2>3, <2>4
<1> QED BY <1>3, <1>4

LEMMA Unwinds ==
    ASSUME HedgeInv, UnwindHedge
    PROVE  /\ bounds'.band \in Nat /\ bounds'.cap \in Nat
           /\ maTarget' \in Int /\ hedgeShort' \in Int
           /\ ~seeded' => hedgeShort' = 0
           /\ seeded' /\ ~unwound' => Apart(maTarget', hedgeShort') <= bounds'.band
<1>1. ~unwound' => ~unwound /\ hedgeShort = 0
  BY Zenon DEF UnwindHedge
<1>2. /\ hedgeShort' = 0 /\ maTarget' = maTarget /\ seeded' = seeded
      /\ bounds' = bounds
  BY DEF UnwindHedge
<1> QED BY <1>1, <1>2 DEF HedgeInv

LEMMA HedgeStep == HedgeInv /\ [Next]_vars => HedgeInv'
<1> SUFFICES ASSUME HedgeInv, [Next]_vars PROVE HedgeInv'
  OBVIOUS
<1>0. Holdings \subseteq Int
  BY RiskAssumption, HedgeAssumption
<1>1. ASSUME base' \in Int, UNCHANGED hedgeVars
      PROVE  HedgeInv'
  BY <1>1 DEF HedgeInv, hedgeVars, Apart
<1>2. CASE EmergencyExit
  BY <1>2, <1>1, Unwinds DEF EmergencyExit, Raises, HedgeInv
<1>3. CASE DeRisk
  BY <1>3, <1>1, Unwinds DEF DeRisk, Raises, HedgeInv
<1>4. CASE PolicyQuotes
  <2>1. base' = base
    BY <1>4 DEF PolicyQuotes, Quietly, Raises
  <2>2. CASE Evaluate(base)
    BY <2>1, <2>2, Evaluated DEF HedgeInv, Evaluate
  <2> QED BY <1>4, <1>1, <2>1, <2>2
          DEF PolicyQuotes, Raises, EvaluateNothing, HedgeInv
<1>5. CASE Tick \/ OracleGate \/ PolicyWaits \/ (\E l \in Legs : Trade(l))
  BY <1>5, <1>0, <1>1
  DEF Tick, OracleGate, PolicyWaits, Quietly, Trade, HedgeInv
<1>6. CASE UNCHANGED vars
  BY <1>6, <1>1 DEF vars, HedgeInv
<1> QED BY <1>2, <1>3, <1>4, <1>5, <1>6
        DEF Next, Cycle, RugKill, InventoryCap, PolicyExits, PolicyDeRisks

\* Whatever bands and caps the evaluations come to and however the inventory
\* and the average move, an evaluation leaves a residual within its cap and
\* the last band; and it trades towards the inventory, to within its cap, when
\* the band has not shrunk.
THEOREM HedgeStaysInBounds == Spec => HedgeInBounds
<1>1. Init => HedgeInv
  BY RiskAssumption, HedgeAssumption DEF Init, HedgeInit, HedgeInv
<1>2. ASSUME HedgeInv, pair.hedged, Evaluate(base), ~unwound
      PROVE  /\ Apart(base, hedgeShort') <= bounds'.cap + bounds.band
             /\ bounds.band <= bounds'.band
                  => /\ Between(hedgeShort, hedgeShort', base)
                     /\ Apart(base, hedgeShort') <= bounds'.cap
  BY <1>2, Evaluated DEF Bounded, Nearing
<1> QED BY <1>1, <1>2, HedgeStep, PTL DEF Spec, HedgeInBounds

-----------------------------------------------------------------------------
(* The drain monitor. *)

\* The window has every recent reading that did not trip, and no reading is
\* from a tick that had no cycle.
WindowInv ==
    /\ now \in Nat
    /\ \A r \in readings : r.ts \in Nat /\ r.ts <= now
    /\ ~cycled => \A r \in readings : r.ts < now
    /\ \A w \in window : \E r \in readings :
         ~r.tripped /\ w.ts = r.ts /\ w.tvl = r.tvl
    /\ \A r \in readings :
         ~r.tripped /\ now - r.ts <= TvlWindow
            => [ts |-> r.ts, tvl |-> r.tvl] \in window

DrainInv == WindowInv /\ DrainIsSeen

\* The value of a reading made now is far below one of the readings before it.
Rug(tvl) ==
    \/ tvl < MinTvl
    \/ \E p \in readings : /\ ~p.tripped /\ p.ts < now /\ now - p.ts <= TvlWindow
                          /\ Dropped(p.tvl, tvl)

\* The window knows the readings a new one is to be compared with.
LEMMA DrainedMeansRug ==
    ASSUME WindowInv, NEW tvl
    PROVE  Drained(now, tvl) <=> Rug(tvl)
<1>1. ASSUME NEW w \in Recent(now), w.ts < now, Dropped(w.tvl, tvl)
      PROVE  Rug(tvl)
  <2>1. PICK r \in readings : ~r.tripped /\ w.ts = r.ts /\ w.tvl = r.tvl
    BY <1>1 DEF WindowInv, Recent
  <2> QED BY <1>1, <2>1 DEF Rug, Recent
<1>2. ASSUME NEW p \in readings, ~p.tripped, p.ts < now,
             now - p.ts <= TvlWindow, Dropped(p.tvl, tvl)
      PROVE  Drained(now, tvl)
  <2> DEFINE w == [ts |-> p.ts, tvl |-> p.tvl]
  <2>1. w \in Recent(now) /\ w.ts < now /\ Dropped(w.tvl, tvl)
    BY <1>2 DEF WindowInv, Recent
  <2> QED BY <2>1 DEF Drained
<1> QED BY <1>1, <1>2 DEF Rug, Drained

\* A cycle with a reading leaves the window as its invariant says.
LEMMA WindowStep ==
    ASSUME WindowInv, Poll, NEW tvl, TvlKills(tvl) \/ TvlPasses(tvl)
    PROVE  WindowInv'
<1>1. ~cycled /\ cycled' /\ now' = now
  BY DEF Poll
<1>2. CASE tvl = Unknown
  BY <1>1, <1>2 DEF WindowInv, TvlKills, TvlPasses, Read
<1>3. CASE TvlKills(tvl)
  <2> DEFINE new == [ts |-> now, tvl |-> tvl, tripped |-> TRUE]
  <2>1. readings' = readings \cup {new}
    BY <1>3 DEF TvlKills, Read
  <2>2. window' = window \/ window' = Recent(now)
    BY <1>3 DEF TvlKills
  <2>3. \A r \in readings : r.ts \in Nat /\ r.ts < now
    BY <1>1 DEF WindowInv
  <2> QED BY <1>1, <2>1, <2>2, <2>3 DEF WindowInv, Recent
<1>4. CASE TvlPasses(tvl) /\ tvl # Unknown
  <2> DEFINE new == [ts |-> now, tvl |-> tvl, tripped |-> FALSE]
             row == [ts |-> now, tvl |-> tvl]
  <2>1. readings' = readings \cup {new}
    BY <1>4 DEF TvlPasses, Read
  <2>2. window' = Recent(now) \cup {row}
    BY <1>4 DEF TvlPasses
  <2>3. \A r \in readings : r.ts \in Nat /\ r.ts < now
    BY <1>1 DEF WindowInv
  <2>4. \A w \in window' : \E r \in readings' :
          ~r.tripped /\ w.ts = r.ts /\ w.tvl = r.tvl
    <3> SUFFICES ASSUME NEW w \in window'
                 PROVE  \E r \in readings' :
                          ~r.tripped /\ w.ts = r.ts /\ w.tvl = r.tvl
      OBVIOUS
    <3>1. CASE w \in window
      BY <2>1, <3>1 DEF WindowInv
    <3>2. CASE w = row
      <4>1. new \in readings' /\ ~new.tripped /\ w.ts = new.ts
              /\ w.tvl = new.tvl
        BY <2>1, <3>2
      <4> QED BY <4>1
    <3> QED BY <2>2, <3>1, <3>2 DEF Recent
  <2>5. ASSUME NEW r \in readings', ~r.tripped, now - r.ts <= TvlWindow
        PROVE  [ts |-> r.ts, tvl |-> r.tvl] \in window'
    BY <2>1, <2>2, <2>5 DEF WindowInv, Recent
  <2> QED BY <1>1, <2>1, <2>3, <2>4, <2>5 DEF WindowInv
<1> QED BY <1>2, <1>3, <1>4

\* What a cycle makes of a reading.
LEMMA CycleSees ==
    ASSUME DrainInv, NEW tvl, Poll,
           \/ TvlKills(tvl) /\ reason' = "rug_kill_switch"
           \/ TvlPasses(tvl) /\ reason' # "rug_kill_switch"
    PROVE  DrainInv'
<1>1. ~cycled /\ cycled' /\ now' = now
  BY DEF Poll
<1>2. WindowInv'
  BY WindowStep DEF DrainInv
<1>3. \A r \in readings : r.ts \in Nat /\ r.ts < now
  BY <1>1 DEF DrainInv, WindowInv
<1>4. CASE tvl = Unknown
  <2>1. readings' = readings /\ reason' # "rug_kill_switch"
    BY <1>4 DEF TvlKills, TvlPasses, Read
  <2>2. DrainIsSeen'
    BY <2>1, <1>1, <1>3 DEF DrainIsSeen
  <2> QED BY <1>2, <2>2 DEF DrainInv
<1>5. CASE tvl # Unknown
  <2>1. PICK trips \in BOOLEAN :
          readings' = readings \cup {[ts |-> now, tvl |-> tvl, tripped |-> trips]}
    BY <1>5 DEF TvlKills, TvlPasses, Read
  <2> DEFINE new == [ts |-> now, tvl |-> tvl, tripped |-> trips]
  <2>2. reason' = "rug_kill_switch" <=> Rug(tvl)
    BY <1>5, DrainedMeansRug DEF TvlKills, TvlPasses, DrainInv
  <2>3. Rug(tvl) <=>
          \/ tvl < MinTvl
          \/ \E p \in readings' :
               /\ ~p.tripped /\ p.ts < now /\ now - p.ts <= TvlWindow
               /\ Dropped(p.tvl, tvl)
    BY <1>1, <1>3, <2>1 DEF Rug, DrainInv, WindowInv
  <2> DEFINE IsRug(r) ==
        \/ r.tvl < MinTvl
        \/ \E p \in readings' :
             /\ ~p.tripped /\ p.ts < now /\ now - p.ts <= TvlWindow
             /\ Dropped(p.tvl, r.tvl)
  <2>4. reason' = "rug_kill_switch" <=> IsRug(new)
    BY <2>2, <2>3
  <2>5. {r \in readings' : r.ts = now} = {new}
    BY <2>1, <1>3
  <2>6. {r \in readings' : r.ts = now /\ IsRug(r)} # {} <=> IsRug(new)
    BY <2>5
  <2>7. DrainIsSeen' <=>
          (reason' = "rug_kill_switch"
             <=> {r \in readings' : r.ts = now /\ IsRug(r)} # {})
    BY <1>1 DEF DrainIsSeen, Dropped
  <2> QED BY <1>2, <2>4, <2>6, <2>7 DEF DrainInv
<1> QED BY <1>4, <1>5

\* The monitor sees every drain, in however many steps it comes, and nothing
\* else makes it exit, for any readings, thresholds and window.
THEOREM DrainsAreSeen == Spec => []DrainIsSeen
<1>1. Init => DrainInv
  BY DEF Init, DrainInv, WindowInv, DrainIsSeen
<1>2. DrainInv /\ [Next]_vars => DrainInv'
  <2> SUFFICES ASSUME DrainInv, [Next]_vars PROVE DrainInv'
    OBVIOUS
  <2>1. CASE RugKill
    BY <2>1, CycleSees DEF RugKill, Plan
  <2>2. CASE InventoryCap
    BY <2>2, CycleSees DEF InventoryCap, Plan
  <2>3. CASE OracleGate
    BY <2>3, CycleSees DEF OracleGate, Plan
  <2>4. CASE PolicyExits \/ PolicyDeRisks \/ PolicyWaits \/ PolicyQuotes
    <3>1. PICK d : Policy(d)
      BY <2>4 DEF PolicyExits, PolicyDeRisks, PolicyWaits, PolicyQuotes
    <3> QED BY <3>1, CycleSees DEF Policy, Plan
  <2>5. CASE Tick
    BY <2>5, RiskAssumption DEF Tick, DrainInv, WindowInv, DrainIsSeen
  <2>6. CASE (\E l \in Legs : Trade(l)) \/ UNCHANGED vars
    BY <2>6 DEF Trade, vars, DrainInv, WindowInv, DrainIsSeen
  <2> QED BY <2>1, <2>2, <2>3, <2>4, <2>5, <2>6 DEF Next, Cycle
<1>3. DrainInv => DrainIsSeen
  BY DEF DrainInv
<1> QED BY <1>1, <1>2, <1>3, PTL DEF Spec

-----------------------------------------------------------------------------
(* Types. *)

\* A reading that joins the window is one of the readings.
WindowHasReadings ==
    window \subseteq {[ts |-> r.ts, tvl |-> r.tvl] : r \in readings}

LEMMA WindowReadings ==
  ASSUME WindowHasReadings, NEW tvl, TvlKills(tvl) \/ TvlPasses(tvl)
  PROVE  WindowHasReadings'
<1>1. readings \subseteq readings'
  BY DEF TvlKills, TvlPasses, Read
<1>2. CASE window' \subseteq window
  BY <1>1, <1>2 DEF WindowHasReadings
<1>3. CASE tvl # Unknown /\ TvlPasses(tvl)
  <2> DEFINE new == [ts |-> now, tvl |-> tvl, tripped |-> FALSE]
  <2>1. new \in readings'
    BY <1>3 DEF TvlPasses, Read
  <2>2. window' \subseteq window \cup {[ts |-> new.ts, tvl |-> new.tvl]}
    BY <1>3 DEF TvlPasses, Recent
  <2> HIDE DEF new
  <2> QED BY <1>1, <2>1, <2>2 DEF WindowHasReadings
<1> QED BY <1>2, <1>3 DEF TvlKills, TvlPasses, Recent

\* What the wallet, the average and the short may be.
AmountsOK == maTarget \in Lots /\ hedgeShort \in Lots /\ base \in Holdings

Decisions ==
    {"EMERGENCY_EXIT", "DE_RISK", "STOP_QUOTING", "HOLD", "QUOTE", "WIDEN"}

LEMMA EvaluateAmounts ==
  ASSUME AmountsOK, Evaluate(base)
  PROVE  maTarget' \in Lots /\ hedgeShort' \in Lots
<1>1. PICK m \in Averages(base) : HedgeTo(m, base, bounds')
  BY DEF Evaluate
<1>2. m \in Lots /\ base \in Lots
  BY RiskAssumption DEF AmountsOK, Averages
<1> QED BY <1>1, <1>2 DEF HedgeTo, AmountsOK

LEMMA AmountsStep ==
  ASSUME AmountsOK, [Next]_vars
  PROVE  AmountsOK'
<1>0. 0 \in Lots /\ 0 \in Holdings
  BY HedgeAssumption, RiskAssumption
<1>1. ASSUME UNCHANGED hedgeVars, base' \in Holdings
      PROVE  AmountsOK'
  BY <1>1 DEF AmountsOK, hedgeVars
<1>2. ASSUME UnwindHedge, base' \in {0, base}
      PROVE  AmountsOK'
  BY <1>0, <1>2 DEF AmountsOK, UnwindHedge
<1>3. ASSUME Raises \/ (Quietly /\ UNCHANGED hedgeVars)
      PROVE  AmountsOK'
  BY <1>1, <1>3 DEF AmountsOK, Raises, Quietly
<1>4. CASE EmergencyExit
  BY <1>2, <1>3, <1>4 DEF EmergencyExit
<1>5. CASE DeRisk
  <2>1. CASE UNCHANGED hedgeVars /\ base' \in {0, base}
    BY <1>0, <1>1, <2>1 DEF AmountsOK
  <2> QED BY <1>2, <1>3, <1>5, <2>1 DEF DeRisk
<1>6. CASE PolicyQuotes
  <2>1. CASE Evaluate(base) /\ base' = base
    BY <2>1, EvaluateAmounts DEF AmountsOK
  <2> QED BY <1>3, <1>6, <2>1 DEF PolicyQuotes, Quietly, EvaluateNothing
<1>7. CASE Tick
  BY <1>1, <1>7 DEF Tick
<1>8. CASE (\E l \in Legs : Trade(l)) \/ UNCHANGED vars
  BY <1>1, <1>8 DEF Trade, vars, AmountsOK
<1>9. CASE OracleGate \/ PolicyWaits
  BY <1>3, <1>9 DEF OracleGate, PolicyWaits
<1> QED BY <1>4, <1>5, <1>6, <1>7, <1>8, <1>9
        DEF Next, Cycle, RugKill, InventoryCap, PolicyExits, PolicyDeRisks

-----------------------------------------------------------------------------
(* The bars. *)

BarSet == [open : Int, price : [Legs -> Int]]

\* A bar has the price of the last trade that was made before its close.
TruePrice(bar) ==
    \A l \in Legs :
        /\ bar.price[l] \in traded[l]
        /\ bar.price[l] <= bar.open
        /\ \A t \in traded[l] : ~(bar.price[l] < t /\ t <= bar.open)

\* A sequence of bars whose opens ascend.
Ascends(bs) == \A j, k \in 1 .. Len(bs) : j < k => bs[j].open < bs[k].open

\* The bars are true and in order; those fetched live were closed.
BarsInv ==
    /\ now \in Int
    /\ traded \in [Legs -> SUBSET Int]
    /\ bars \in Seq(BarSet)
    /\ Ascends(bars)
    /\ \A k \in 1 .. Len(bars) : TruePrice(bars[k])
    /\ pair.oracle = "live" => \A k \in 1 .. Len(bars) : bars[k].open + Bar <= now

\* A plan that quotes passed the gate, on the bars it still has.
GateInv ==
    cycled /\ Quoting /\ pair.oracle # "none" => RegimeHistory(bars, now) # <<>>

\* A set of numbers below a limit has a last one.
LEMMA LatestMember ==
  ASSUME NEW T, T \subseteq Int, T # {}, NEW n \in Int, \A x \in T : x <= n
  PROVE  Latest(T) \in T /\ \A y \in T : y <= Latest(T)
<1> DEFINE gaps == {n - x : x \in T}
<1>0. \A x \in T : n - x \in Nat
  OBVIOUS
<1>1. gaps \subseteq Nat /\ gaps # {}
  BY <1>0
<1>2. PICK g \in gaps : \A h \in gaps : g <= h
  BY <1>1, LeastMember
<1>3. PICK x \in T : g = n - x
  BY <1>2
<1>4. ASSUME NEW y \in T PROVE y <= x
  <2>1. n - y \in gaps
    OBVIOUS
  <2>2. g <= n - y
    BY <1>2, <2>1
  <2> QED BY <1>3, <2>2
<1> QED BY <1>3, <1>4 DEF Latest

\* fill_gaps() gives a closed bar the price of the last trade there was.
LEMMA FilledPrice ==
  ASSUME traded \in [Legs -> SUBSET Int], NEW l \in Legs,
         NEW start \in Int, NEW end \in Int,
         NEW t \in DOMAIN FillGaps(Fetched(l, start, end), end)
  PROVE  LET p == FillGaps(Fetched(l, start, end), end)[t]
         IN /\ t \in Int /\ t + Bar <= end /\ start <= t
            /\ p \in traded[l] /\ p \in Int /\ p <= t
            /\ \A u \in traded[l] : ~(p < u /\ u <= t)
<1> DEFINE ts == Fetched(l, start, end)
<1> DEFINE before == {u \in ts : u <= t}
<1>1. Bar \in Nat \ {0} /\ MaxTime \in Nat
  BY OracleAssumption
<1>2. traded[l] \subseteq Int
  OBVIOUS
<1>3. ts \subseteq traded[l] /\ \A u \in ts : start <= u /\ u + Bar <= end
  BY DEF Fetched
<1>4. /\ t \in BarOpens /\ t + Bar <= end /\ before # {}
      /\ FillGaps(ts, end)[t] = Latest(before)
  BY DEF FillGaps
<1>5. t \in Int
  BY <1>1, <1>4 DEF BarOpens
<1>6. before \subseteq Int /\ \A u \in before : u <= t
  BY <1>2, <1>3
<1>7. Latest(before) \in before /\ \A u \in before : u <= Latest(before)
  BY <1>4, <1>5, <1>6, LatestMember
<1>8. ASSUME NEW u \in traded[l], Latest(before) < u, u <= t PROVE FALSE
  <2>1. u \in Int /\ Latest(before) \in Int /\ start <= Latest(before)
    BY <1>2, <1>3, <1>7
  <2>2. start <= u /\ u + Bar <= end
    BY <1>1, <1>4, <1>5, <1>8, <2>1
  <2>3. u \in before
    BY <1>8, <2>2 DEF Fetched
  <2> QED BY <1>7, <1>8, <2>1, <2>3
<1>9. start <= t
  <2>1. Latest(before) \in Int /\ start <= Latest(before) /\ Latest(before) <= t
    BY <1>2, <1>3, <1>7
  <2> QED BY <1>5, <2>1
<1>10. Latest(before) \in traded[l] /\ Latest(before) \in Int /\ Latest(before) <= t
  BY <1>2, <1>3, <1>7
<1> QED BY <1>4, <1>5, <1>8, <1>9, <1>10

\* A fetch gives closed bars in order, each with the price it had.
LEMMA DownloadIsTrue ==
  ASSUME traded \in [Legs -> SUBSET Int], NEW start \in Int, NEW end \in Int
  PROVE  /\ Download(start, end) \in Seq(BarSet)
         /\ Ascends(Download(start, end))
         /\ \A k \in 1 .. Len(Download(start, end)) :
                LET bar == Download(start, end)[k]
                IN /\ TruePrice(bar)
                   /\ bar.open + Bar <= end /\ start <= bar.open
<1> DEFINE leg == [l \in Legs |-> FillGaps(Fetched(l, start, end), end)]
<1> DEFINE common == {t \in BarOpens : \A l \in Legs : t \in DOMAIN leg[l]}
<1> DEFINE opens == InOrder(common)
<1> DEFINE Row(t) == [open |-> t, price |-> [l \in Legs |-> leg[l][t]]]
<1> DEFINE cross == [k \in 1 .. Len(opens) |-> Row(opens[k])]
<1>1. Download(start, end) = cross
  BY DEF Download, SyntheticCross
<1>2. common \subseteq Int /\ IsFiniteSet(common)
  <2>1. MaxTime \in Nat
    BY OracleAssumption
  <2>2. common \subseteq 0 .. MaxTime
    BY DEF BarOpens
  <2>3. IsFiniteSet(0 .. MaxTime)
    BY <2>1, FS_Interval
  <2>4. IsFiniteSet(common)
    BY <2>2, <2>3, FS_Subset
  <2> QED BY <2>2, <2>4
<1>3. Len(opens) \in Nat /\ \A k \in 1 .. Len(opens) : opens[k] \in common
  BY <1>2, InOrderType
<1>4. \A j, k \in 1 .. Len(opens) : opens[j] < opens[k] <=> j < k
  BY <1>2, InOrderAscends
<1>5. ASSUME NEW t \in common, NEW l \in Legs
      PROVE  /\ t \in Int /\ t + Bar <= end /\ start <= t
             /\ leg[l][t] \in traded[l] /\ leg[l][t] \in Int /\ leg[l][t] <= t
             /\ \A u \in traded[l] : ~(leg[l][t] < u /\ u <= t)
  <2>1. t \in DOMAIN FillGaps(Fetched(l, start, end), end)
    OBVIOUS
  <2> QED BY <2>1, FilledPrice
<1>6. ASSUME NEW t \in common
      PROVE  /\ Row(t) \in BarSet /\ TruePrice(Row(t)) /\ Row(t).open = t
             /\ t + Bar <= end /\ start <= t
  <2>1. PICK one \in Legs : TRUE
    BY OracleAssumption
  <2>2. t \in Int /\ t + Bar <= end /\ start <= t
    BY <1>5, <2>1
  <2> HIDE DEF leg, common
  <2>3. [l \in Legs |-> leg[l][t]] \in [Legs -> Int]
    BY <1>5
  <2>4. Row(t) \in BarSet
    BY <2>2, <2>3 DEF BarSet
  <2>5. TruePrice(Row(t))
    BY <1>5 DEF TruePrice
  <2> QED BY <2>2, <2>4, <2>5
<1> HIDE DEF leg, common, opens, Row
<1>7. cross \in [1 .. Len(opens) -> BarSet]
  BY <1>3, <1>6
<1>8. \A k \in 1 .. Len(opens) : cross[k] = Row(opens[k])
  OBVIOUS
<1> HIDE DEF cross
<1>9. cross \in Seq(BarSet) /\ Len(cross) = Len(opens)
  BY <1>3, <1>7, SequenceOfLength
<1>10. Ascends(cross)
  BY <1>3, <1>4, <1>6, <1>8, <1>9 DEF Ascends
<1>11. \A k \in 1 .. Len(cross) :
        TruePrice(cross[k]) /\ cross[k].open + Bar <= end /\ start <= cross[k].open
  BY <1>3, <1>6, <1>8, <1>9
<1> QED BY <1>1, <1>9, <1>10, <1>11

\* The end of a sequence of bars is such a sequence, with some of its bars.
LEMMA LastBars ==
  ASSUME NEW bs \in Seq(BarSet), Ascends(bs), NEW n \in Nat
  PROVE  /\ LastOf(bs, n) \in Seq(BarSet) /\ Ascends(LastOf(bs, n))
         /\ \A k \in 1 .. Len(LastOf(bs, n)) :
                \E m \in 1 .. Len(bs) : LastOf(bs, n)[k] = bs[m]
<1>1. Len(bs) \in Nat
  BY LenProperties
<1>2. CASE Len(bs) <= n
  BY <1>2 DEF LastOf
<1>3. CASE ~ (Len(bs) <= n)
  <2> DEFINE d == Len(bs) - n
  <2>1. d \in 0 .. Len(bs)
    BY <1>1, <1>3
  <2>2. LastOf(bs, n) = SubSeq(bs, d + 1, Len(bs))
    BY <1>3 DEF LastOf
  <2> HIDE DEF d
  <2>3. /\ SubSeq(bs, d + 1, Len(bs)) \in Seq(BarSet)
        /\ Len(SubSeq(bs, d + 1, Len(bs))) = Len(bs) - d
        /\ \A a \in 1 .. Len(bs) - d :
             SubSeq(bs, d + 1, Len(bs))[a] = bs[d + a]
    BY <2>1, SuffixProperties
  <2>4. \A a \in 1 .. Len(bs) - d : d + a \in 1 .. Len(bs)
    BY <1>1, <2>1
  <2>5. \A a, b \in 1 .. Len(bs) - d : a < b => d + a < d + b
    BY <1>1, <2>1
  <2>6. Ascends(SubSeq(bs, d + 1, Len(bs)))
    BY <2>3, <2>4, <2>5 DEF Ascends
  <2> QED BY <2>2, <2>3, <2>4, <2>6
<1> QED BY <1>2, <1>3

LEMMA BarOpensAt ==
  ASSUME NEW bs \in Seq(BarSet), NEW k \in 1 .. Len(bs)
  PROVE  bs[k] \in BarSet /\ bs[k].open \in Int
<1>1. bs[k] \in BarSet
  BY ElementOfSeq
<1> QED BY <1>1 DEF BarSet

LEMMA LastBar ==
  ASSUME NEW bs \in Seq(BarSet), bs # <<>>
  PROVE  /\ Len(bs) \in 1 .. Len(bs) /\ Last(bs) = bs[Len(bs)]
         /\ Last(bs) \in BarSet /\ Last(bs).open \in Int
<1>1. Len(bs) \in Nat /\ Len(bs) # 0
  BY LenProperties, EmptySeq
<1>2. Len(bs) \in 1 .. Len(bs)
  BY <1>1
<1>3. bs[Len(bs)] \in BarSet
  BY <1>2, ElementOfSeq
<1> QED BY <1>2, <1>3 DEF Last, BarSet

\* A refresh goes on behind the bars it has.
LEMMA RefreshStep ==
  ASSUME BarsInv, Refresh, UNCHANGED <<now, traded, pair>>
  PROVE  BarsInv'
<1>1. CASE UNCHANGED bars
  BY <1>1 DEF BarsInv, Ascends, TruePrice
<1>2. CASE ~ UNCHANGED bars
  <2> DEFINE start == StartAfter(bars)
  <2> DEFINE new == Download(start, now)
  <2> DEFINE all == bars \o new
  <2>1. bars' = LastOf(all, 4 * Window)
    BY <1>2 DEF Refresh
  <2>2. Bar \in Nat \ {0} /\ Window \in Nat \ {0} /\ 4 * Window \in Nat
    BY OracleAssumption
  <2>3. /\ now \in Int /\ bars \in Seq(BarSet) /\ Ascends(bars)
        /\ traded \in [Legs -> SUBSET Int]
        /\ \A k \in 1 .. Len(bars) : TruePrice(bars[k])
        /\ \A k \in 1 .. Len(bars) : bars[k].open \in Int
    BY BarOpensAt DEF BarsInv
  <2>4. start \in Int
    <3>1. CASE bars = <<>>
      BY <2>2, <2>3, <3>1 DEF StartAfter
    <3>2. CASE bars # <<>>
      BY <2>2, <2>3, <3>2, LastBar DEF StartAfter
    <3> QED BY <3>1, <3>2
  <2>5. \A k \in 1 .. Len(bars) : bars[k].open < start
    <3>1. CASE bars = <<>>
      <4>1. Len(bars) = 0
        BY <3>1
      <4> QED BY <4>1
    <3>2. CASE bars # <<>>
      <4>1. /\ start = bars[Len(bars)].open + Bar /\ Len(bars) \in 1 .. Len(bars)
            /\ bars[Len(bars)].open \in Int
        BY <2>3, <3>2, LastBar DEF StartAfter
      <4>2. \A k \in 1 .. Len(bars) : bars[k].open <= bars[Len(bars)].open
        BY <2>3, <4>1 DEF Ascends
      <4> QED BY <2>2, <2>3, <4>1, <4>2
    <3> QED BY <3>1, <3>2
  <2> HIDE DEF start
  <2>6. /\ new \in Seq(BarSet) /\ Ascends(new)
        /\ \A k \in 1 .. Len(new) :
            /\ TruePrice(new[k]) /\ new[k].open + Bar <= now
            /\ start <= new[k].open
    BY <2>3, <2>4, DownloadIsTrue
  <2> HIDE DEF new
  <2>7. /\ all \in Seq(BarSet) /\ Len(all) = Len(bars) + Len(new)
        /\ Len(bars) \in Nat /\ Len(new) \in Nat
    BY <2>3, <2>6, JoinProperties
  <2>8. ASSUME NEW k \in 1 .. Len(bars) PROVE all[k] = bars[k]
    BY <2>3, <2>6, JoinFirst
  <2>9. ASSUME NEW k \in 1 .. Len(new) PROVE all[Len(bars) + k] = new[k]
    BY <2>3, <2>6, JoinSecond
  <2>10. ASSUME NEW k \in 1 .. Len(all)
         PROVE  \/ k \in 1 .. Len(bars) /\ all[k] = bars[k]
                \/ \E m \in 1 .. Len(new) : k = Len(bars) + m /\ all[k] = new[m]
    <3>1. CASE k <= Len(bars)
      BY <2>7, <2>8, <3>1
    <3>2. CASE k > Len(bars)
      <4>1. k - Len(bars) \in 1 .. Len(new) /\ k = Len(bars) + (k - Len(bars))
        BY <2>7, <3>2
      <4> QED BY <2>9, <4>1
    <3> QED BY <2>7, <3>1, <3>2
  <2> HIDE DEF all
  <2>11. Ascends(all)
    <3> SUFFICES ASSUME NEW j \in 1 .. Len(all), NEW k \in 1 .. Len(all), j < k
                 PROVE  all[j].open < all[k].open
      BY DEF Ascends
    <3>1. CASE k \in 1 .. Len(bars) /\ all[k] = bars[k]
      <4>1. j \in 1 .. Len(bars)
        BY <2>7, <3>1
      <4>2. all[j] = bars[j]
        BY <2>8, <4>1
      <4> QED BY <2>3, <3>1, <4>1, <4>2 DEF Ascends
    <3>2. ASSUME NEW m \in 1 .. Len(new), k = Len(bars) + m, all[k] = new[m]
          PROVE  all[j].open < all[k].open
      <4>1. start <= new[m].open /\ new[m].open \in Int
        BY <2>6, BarOpensAt
      <4>2. CASE j \in 1 .. Len(bars) /\ all[j] = bars[j]
        BY <2>3, <2>4, <2>5, <3>2, <4>1, <4>2
      <4>3. ASSUME NEW n \in 1 .. Len(new), j = Len(bars) + n, all[j] = new[n]
            PROVE  all[j].open < all[k].open
        <5>1. n < m
          BY <2>7, <3>2, <4>3
        <5> QED BY <2>6, <3>2, <4>3, <5>1 DEF Ascends
      <4> QED BY <2>10, <4>2, <4>3
    <3> QED BY <2>10, <3>1, <3>2
  <2>12. ASSUME NEW k \in 1 .. Len(all)
         PROVE  TruePrice(all[k])
                /\ (pair.oracle = "live" => all[k].open + Bar <= now)
    BY <2>3, <2>6, <2>10 DEF BarsInv
  <2>13. /\ bars' \in Seq(BarSet) /\ Ascends(bars')
         /\ \A k \in 1 .. Len(bars') : \E m \in 1 .. Len(all) : bars'[k] = all[m]
    BY <2>1, <2>2, <2>7, <2>11, LastBars
  <2>14. \A k \in 1 .. Len(bars') :
            TruePrice(bars'[k])
            /\ (pair.oracle = "live" => bars'[k].open + Bar <= now)
    BY <2>12, <2>13
  <2> QED BY <2>3, <2>13, <2>14 DEF BarsInv, Ascends, TruePrice
<1> QED BY <1>1, <1>2

\* A trade falls in a bar that is not closed: it makes no bar untrue.
LEMMA TradeStep ==
  ASSUME BarsInv, NEW l \in Legs, Trade(l)
  PROVE  BarsInv'
<1> DEFINE t == now - (now % Bar)
<1>1. /\ UNCHANGED <<now, bars, pair>> /\ pair.oracle = "live"
      /\ traded' = [traded EXCEPT ![l] = @ \cup {t}]
  BY DEF Trade
<1>2. /\ now \in Int /\ traded \in [Legs -> SUBSET Int] /\ bars \in Seq(BarSet)
      /\ \A k \in 1 .. Len(bars) : bars[k].open + Bar <= now
  BY <1>1 DEF BarsInv
<1>3. Bar \in Int /\ Bar > 0
  BY OracleAssumption
<1>4. now % Bar \in Int /\ now % Bar < Bar
  BY <1>2, <1>3
<1>5. t \in Int /\ t + Bar > now
  BY <1>2, <1>3, <1>4
<1> HIDE DEF t
<1>6. traded' \in [Legs -> SUBSET Int]
  BY <1>1, <1>2, <1>5
<1>7. \A m \in Legs : traded[m] \subseteq traded'[m] /\ traded'[m] \subseteq traded[m] \cup {t}
  BY <1>1, <1>2
<1>8. ASSUME NEW k \in 1 .. Len(bars) PROVE TruePrice(bars[k])'
  <2>1. TruePrice(bars[k]) /\ bars[k].open \in Int /\ bars[k].open + Bar <= now
    BY <1>2, BarOpensAt DEF BarsInv
  <2>2. ~ (t <= bars[k].open)
    BY <1>2, <1>3, <1>5, <2>1
  <2> QED BY <1>1, <1>7, <2>1, <2>2 DEF TruePrice
<1>9. Len(bars') = Len(bars) /\ Ascends(bars)'
  BY <1>1 DEF BarsInv, Ascends
<1> QED BY <1>1, <1>2, <1>6, <1>8, <1>9 DEF BarsInv

LEMMA BarsStep ==
  ASSUME BarsInv, [Next]_vars
  PROVE  BarsInv'
<1>1. CASE UNCHANGED <<now, traded, bars, pair>>
  BY <1>1 DEF BarsInv, Ascends, TruePrice
<1>2. CASE Tick
  <2>1. now' = now + 1 /\ UNCHANGED <<traded, bars, pair>>
    BY <1>2 DEF Tick, feedVars
  <2>2. now \in Int /\ Bar \in Int
    BY OracleAssumption DEF BarsInv
  <2>3. \A k \in 1 .. Len(bars) : bars[k].open \in Int
    BY BarOpensAt DEF BarsInv
  <2> QED BY <2>1, <2>2, <2>3 DEF BarsInv, Ascends, TruePrice
<1>3. CASE \E l \in Legs : Trade(l)
  BY <1>3, TradeStep
<1>4. CASE Cycle
  <2>1. Poll
    BY <1>4 DEF Cycle, RugKill, InventoryCap, OracleGate, PolicyExits,
                PolicyDeRisks, PolicyWaits, PolicyQuotes, Policy
  <2> QED BY <1>1, <2>1, RefreshStep DEF Poll
<1> QED BY <1>1, <1>2, <1>3, <1>4 DEF Next, vars, feedVars

LEMMA GateStep ==
  ASSUME GateInv, [Next]_vars
  PROVE  GateInv'
<1>1. CASE UNCHANGED <<now, cycled, decision, bars, pair>>
  BY <1>1 DEF GateInv, Quoting
<1>2. CASE Tick
  BY <1>2 DEF Tick, GateInv
<1>3. CASE \E l \in Legs : Trade(l)
  BY <1>1, <1>3 DEF Trade
<1>4. CASE RugKill \/ InventoryCap \/ OracleGate
  <2>1. decision' \in {"EMERGENCY_EXIT", "DE_RISK", "STOP_QUOTING"}
    BY <1>4 DEF RugKill, InventoryCap, OracleGate, Plan
  <2> QED BY <2>1 DEF GateInv, Quoting
<1>5. CASE PolicyExits \/ PolicyDeRisks \/ PolicyWaits \/ PolicyQuotes
  <2>1. ~OracleStale /\ UNCHANGED <<now, pair>>
    BY <1>5 DEF PolicyExits, PolicyDeRisks, PolicyWaits, PolicyQuotes, Policy, Poll
  <2> QED BY <2>1 DEF OracleStale, GateInv
<1> QED BY <1>1, <1>2, <1>3, <1>4, <1>5 DEF Next, Cycle, vars, feedVars

LEMMA BarsStart ==
  ASSUME Init
  PROVE  BarsInv /\ GateInv
<1>1. now = 0 /\ ~cycled
  BY DEF Init
<1>2. CASE pair.oracle = "loaded"
  <2>1. traded \in [Legs -> SUBSET BarOpens] /\ bars = Download(0, MaxTime)
    BY <1>2 DEF Init
  <2>2. MaxTime \in Int /\ BarOpens \subseteq Int /\ 0 \in Int
    BY OracleAssumption DEF BarOpens
  <2>3. traded \in [Legs -> SUBSET Int]
    BY <2>1, <2>2
  <2>4. /\ Download(0, MaxTime) \in Seq(BarSet) /\ Ascends(Download(0, MaxTime))
        /\ \A k \in 1 .. Len(Download(0, MaxTime)) :
            TruePrice(Download(0, MaxTime)[k])
    BY <2>2, <2>3, DownloadIsTrue
  <2>5. pair.oracle # "live" /\ now \in Int
    BY <1>1, <1>2
  <2> QED BY <1>1, <2>1, <2>3, <2>4, <2>5 DEF BarsInv, GateInv
<1>3. CASE pair.oracle # "loaded"
  <2>1. traded = [l \in Legs |-> {}] /\ bars = <<>>
    BY <1>3 DEF Init
  <2>2. Len(bars) = 0 /\ bars \in Seq(BarSet)
    BY <2>1
  <2>3. \A k \in 1 .. Len(bars) : FALSE
    BY <2>2
  <2> QED BY <1>1, <2>1, <2>2, <2>3 DEF BarsInv, GateInv, Ascends
<1> QED BY <1>2, <1>3

\* Types: the window holds readings there were, the bars are in order, none
\* of them kept twice, and no step makes an amount that cannot be held.
THEOREM TypesHold == Spec => []TypeOK
<1> DEFINE Inv == /\ decision \in Decisions /\ WindowHasReadings
                  /\ AmountsOK /\ BarsInv
<1>1. Init => Inv
  <2> SUFFICES ASSUME Init PROVE Inv
    OBVIOUS
  <2>1. AmountsOK
    BY HedgeAssumption DEF Init, HedgeInit, AmountsOK
  <2> QED BY <2>1, BarsStart DEF Init, Decisions, WindowHasReadings
<1>2. Inv /\ [Next]_vars => Inv'
  <2> SUFFICES ASSUME Inv, [Next]_vars PROVE Inv'
    OBVIOUS
  <2>1. AmountsOK' /\ BarsInv'
    BY AmountsStep, BarsStep
  <2>2. CASE Cycle
    <3>1. \E tvl : TvlKills(tvl) \/ TvlPasses(tvl)
      BY <2>2 DEF Cycle, RugKill, InventoryCap, OracleGate, PolicyExits,
                  PolicyDeRisks, PolicyWaits, PolicyQuotes, Policy
    <3>2. WindowHasReadings'
      BY <3>1, WindowReadings
    <3>3. decision' \in Decisions
      BY <2>2 DEF Cycle, RugKill, InventoryCap, OracleGate, PolicyExits,
                  PolicyDeRisks, PolicyWaits, PolicyQuotes, Policy, Plan, Decisions
    <3> QED BY <2>1, <3>2, <3>3
  <2>3. CASE Tick
    BY <2>1, <2>3 DEF Tick, NoPlan, Plan, Decisions, WindowHasReadings
  <2>4. CASE (\E l \in Legs : Trade(l)) \/ UNCHANGED vars
    BY <2>1, <2>4 DEF Trade, vars, WindowHasReadings
  <2> QED BY <2>2, <2>3, <2>4 DEF Next
<1>3. Inv => TypeOK
  BY DEF TypeOK, Decisions, WindowHasReadings, AmountsOK, BarsInv, Ascends
<1> QED BY <1>1, <1>2, <1>3, PTL DEF Spec

\* What the gate gives the plan, if it gives it anything.
LEMMA GateIsTrue ==
  ASSUME BarsInv, GateInv
  PROVE  QuotesOnTruePrices
<1> SUFFICES ASSUME cycled, Quoting, pair.oracle # "none"
             PROVE  LET h == RegimeHistory(bars, now)
                    IN /\ h # <<>>
                       /\ \A k \in 1 .. Len(h) :
                            /\ h[k].open + Bar <= now
                            /\ k > 1 => h[k - 1].open < h[k].open
                            /\ TruePrice(h[k])
                       /\ pair.oracle = "live" =>
                            now - (bars[Len(bars)].open + Bar) <= MaxAge
  BY DEF QuotesOnTruePrices, TruePrice
<1> DEFINE K == {k \in DOMAIN bars : bars[k].open + Bar <= now}
<1> DEFINE p == Picked(bars, K)
<1> DEFINE h == LastOf(p, Window)
<1>1. RegimeHistory(bars, now) # <<>>
  BY DEF GateInv
<1>2. ~Stale(bars, now) /\ RegimeHistory(bars, now) = h
  BY <1>1 DEF RegimeHistory, History
<1>3. /\ bars \in Seq(BarSet) /\ Ascends(bars) /\ now \in Int
      /\ DOMAIN bars = 1 .. Len(bars) /\ Len(bars) \in Nat
      /\ \A k \in 1 .. Len(bars) : TruePrice(bars[k])
  BY LenProperties DEF BarsInv
<1>4. K \subseteq 1 .. Len(bars) /\ \A k \in K : bars[k].open + Bar <= now
  BY <1>3
<1> HIDE DEF K
<1>5. p \in Seq(BarSet) /\ Len(p) = Len(InOrder(K)) /\ K \subseteq Int /\ IsFiniteSet(K)
  BY <1>3, <1>4, PickedType, PlacesFinite
<1>6. \A k \in 1 .. Len(p) : InOrder(K)[k] \in K /\ p[k] = bars[InOrder(K)[k]]
  BY <1>5, PickedAt
<1>7. \A j, k \in 1 .. Len(p) : j < k => InOrder(K)[j] < InOrder(K)[k]
  BY <1>5, InOrderAscends
<1> HIDE DEF p
<1>8. Ascends(p)
  BY <1>3, <1>4, <1>6, <1>7 DEF Ascends
<1>9. Window \in Nat /\ MaxAge \in Int /\ Bar \in Int
  BY OracleAssumption
<1>10. /\ h \in Seq(BarSet) /\ Ascends(h)
       /\ \A k \in 1 .. Len(h) : \E m \in 1 .. Len(p) : h[k] = p[m]
  BY <1>5, <1>8, <1>9, LastBars
<1> HIDE DEF h
<1>11. ASSUME NEW k \in 1 .. Len(h)
       PROVE  /\ h[k].open + Bar <= now /\ TruePrice(h[k])
              /\ k > 1 => h[k - 1].open < h[k].open
  <2>1. h[k].open + Bar <= now /\ TruePrice(h[k])
    BY <1>3, <1>4, <1>6, <1>10
  <2>2. ASSUME k > 1 PROVE h[k - 1].open < h[k].open
    <3>1. k - 1 \in 1 .. Len(h) /\ k - 1 < k
      BY <1>10, <2>2, LenProperties
    <3> QED BY <1>10, <3>1 DEF Ascends
  <2> QED BY <2>1, <2>2
<1>12. now - (bars[Len(bars)].open + Bar) <= MaxAge
  <2>1. bars # <<>> /\ ~(now - (Last(bars).open + Bar) > MaxAge)
    BY <1>2 DEF Stale
  <2>2. Last(bars) = bars[Len(bars)] /\ Last(bars).open \in Int
    BY <1>3, <2>1, LastBar
  <2> QED BY <1>3, <1>9, <2>1, <2>2
<1> QED BY <1>1, <1>2, <1>11, <1>12

\* A pair with an oracle quotes only on prices it could know: bars that are
\* closed, in order and fresh, each with the price of the last trade before
\* its close, however the market, the fetches and the clock interleave.
THEOREM QuotesKnowPrices == Spec => []QuotesOnTruePrices
<1>1. Init => BarsInv /\ GateInv
  BY BarsStart
<1>2. BarsInv /\ GateInv /\ [Next]_vars => (BarsInv /\ GateInv)'
  BY BarsStep, GateStep
<1>3. BarsInv /\ GateInv => QuotesOnTruePrices
  BY GateIsTrue
<1> QED BY <1>1, <1>2, <1>3, PTL DEF Spec
=============================================================================
