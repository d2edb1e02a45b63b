------------------------------- MODULE Oracle -------------------------------
(***************************************************************************)
(* The oracle bars of the regime gate (src/src/dlmm_bot/oracle.py): minute *)
(* bars of one or two legs, fetched as they close, filled where a minute   *)
(* had no trade, joined into a cross, and shown to plan_cycle only when    *)
(* they are closed and fresh.                                              *)
(*                                                                         *)
(* Time is in ticks, a bar lasts Bar of them and is known by its open      *)
(* time.  A price is the open time of the bar of the trade that made it.   *)
(***************************************************************************)
EXTENDS Integers, Sequences, FiniteSets, SequencesExt, Ordered

CONSTANTS
    Legs,     \* the pools of the source: one, or the two of a cross
    Bar,      \* BAR_SECONDS
    Window,   \* OracleBars.window, in bars
    MaxAge,   \* the max_age of stale(), in ticks
    MaxTime   \* bound: the length of a run, in ticks

ASSUME OracleAssumption ==
    /\ Legs # {} /\ IsFiniteSet(Legs)
    /\ {Bar, Window, MaxAge} \subseteq Nat \ {0} /\ MaxTime \in Nat

VARIABLES
    now,         \* the clock
    traded,      \* per leg, the bars in which it traded
    bars,        \* OracleBars.bars
    nextRefresh  \* OracleBars._next_refresh

BarOpens == {t \in 0 .. MaxTime : t % Bar = 0}

Least(S) == CHOOSE x \in S : \A y \in S : x <= y
Latest(S) == CHOOSE x \in S : \A y \in S : y <= x

\* fetch_pool_bars(): the bars with a trade that open at start or later and
\* are closed at end.  The feed serves every one of them, whole, as soon as it
\* is closed, and prices are positive: a bar that it served late would be
\* filled flat and stay so.
Fetched(leg, start, end) ==
    {t \in traded[leg] : start <= t /\ t + Bar <= end}

\* fill_gaps(): a price for every bar from the first one fetched to the last
\* one closed, the price of the bar before where nothing was traded.  Quiet
\* bars before the first one fetched stay a hole in what is stored.
FillGaps(ts, end) ==
    LET filled == {t \in BarOpens : t + Bar <= end /\ \E u \in ts : u <= t}
    IN [t \in filled |-> Latest({u \in ts : u <= t})]

\* synthetic_cross(): the bars all legs have, in order.
SyntheticCross(leg) ==
    LET common == {t \in BarOpens : \A l \in Legs : t \in DOMAIN leg[l]}
        opens == InOrder(common)
    IN [k \in 1 .. Len(opens) |->
          [open |-> opens[k], price |-> [l \in Legs |-> leg[l][opens[k]]]]]

Download(start, end) ==
    SyntheticCross([l \in Legs |-> FillGaps(Fetched(l, start, end), end)])

\* The end of a sequence, at most n long.
LastOf(s, n) == IF Len(s) <= n THEN s ELSE SubSeq(s, Len(s) - n + 1, Len(s))

\* a mutant of StartAfter: the last bar is fetched again
StartAt(bs) == IF bs = <<>> THEN now - (Window + 1) * Bar ELSE Last(bs).open

StartAfter(bs) == IF bs = <<>> THEN now - (Window + 1) * Bar
                  ELSE Last(bs).open + Bar

\* refresh(): at most once a bar; a fetch that raises changes nothing.
Refresh ==
    IF now < nextRefresh THEN UNCHANGED <<bars, nextRefresh>>
    ELSE /\ bars' = LastOf(bars \o Download(StartAfter(bars), now), 4 * Window)
         /\ nextRefresh' = now + Bar

\* a mutant of History: a bar is shown while it is open
HistoryOpen(bs, ts) ==
    LastOf(Picked(bs, {k \in DOMAIN bs : bs[k].open <= ts}), Window)

\* history(): the last bars closed by ts.
History(bs, ts) ==
    LastOf(Picked(bs, {k \in DOMAIN bs : bs[k].open + Bar <= ts}), Window)

\* stale()
Stale(bs, ts) == bs = <<>> \/ ts - (Last(bs).open + Bar) > MaxAge

RegimeHistory(bs, ts) == IF Stale(bs, ts) THEN <<>> ELSE History(bs, ts)
=============================================================================
