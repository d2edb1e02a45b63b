------------------------------- MODULE Ladder -------------------------------
(***************************************************************************)
(* Where a ladder is placed (src/src/dlmm_bot/ladder.py) and what is left  *)
(* of it in whole raw units (Keeper._quantized_side).                      *)
(*                                                                         *)
(* The tilt and the half spread come here as the whole numbers of bins     *)
(* they are rounded to.  A side has one notional for all its levels; a bid *)
(* deposits it, an ask what it buys at the price of its bin.  Price[b] is  *)
(* the notional of one raw unit of the base in bin b.                      *)
(***************************************************************************)
EXTENDS Integers

CONSTANTS
    Levels,       \* LadderConfig.levels
    InnerOffset,  \* LadderConfig.inner_offset
    GridBins,     \* the bins a price is given for
    Price         \* VenueGrid.price_from_bin()

\* The grid is geometric with a step above one: prices rise with the bin.
ASSUME LadderAssumption ==
    /\ Levels \in Nat /\ InnerOffset \in Nat
    /\ GridBins \subseteq Int
    /\ Price \in [GridBins -> Nat \ {0}]
    /\ \A b, c \in GridBins : b <= c => Price[b] <= Price[c]

Smaller(a, b) == IF a <= b THEN a ELSE b
Larger(a, b) == IF a <= b THEN b ELSE a

Inner(offset) == Larger(InnerOffset, offset)

\* a mutant of TopBid: the block is not slid back to the edge
TopBidAnywhere(active, shift, offset) == active + shift - Inner(offset)

\* The innermost bin of each side, slid back to the active bin where the tilt
\* would carry it across.
TopBid(active, shift, offset) ==
    Smaller(active + shift - Inner(offset), active - 1)
LowAsk(active, shift, offset) ==
    Larger(active + shift + Inner(offset), active)

Bids(active, shift, offset) ==
    {TopBid(active, shift, offset) - i : i \in 0 .. Levels - 1}
Asks(active, shift, offset) ==
    {LowAsk(active, shift, offset) + i : i \in 0 .. Levels - 1}

\* The levels that are a raw unit or more: a bid's notional is in quote units,
\* an ask's buys its base at the price of the bin.
FundedBids(bids, notional) == IF notional >= 1 THEN bids ELSE {}
FundedAsks(asks, notional) == {b \in asks : notional >= Price[b]}

\* What the executor accepts of a side: one range of bins without a gap.
Contiguous(S) == \A a, c \in S : a .. c \subseteq S

BuildLadder(active, shift, offset, bidNotional, askNotional) ==
    [active |-> active,
     bids |-> FundedBids(Bids(active, shift, offset), bidNotional),
     asks |-> FundedAsks(Asks(active, shift, offset), askNotional)]

\* No side reaches across the active bin, the sides do not meet, and each is
\* a range the executor accepts ("bin_ids must be contiguous").
Straddles(l) ==
    /\ \A b \in l.bids : b < l.active
    /\ \A a \in l.asks : a >= l.active
    /\ Contiguous(l.bids) /\ Contiguous(l.asks)
=============================================================================
