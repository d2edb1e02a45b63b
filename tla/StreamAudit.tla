---------------------------- MODULE StreamAudit ----------------------------
(***************************************************************************)
(* What verify_log.py says of the trades and fills of a log (its checks 2  *)
(* and 4, src/tools/verify_log.py), of the log a SwapStream writes.  The   *)
(* block time of swap i is i.                                              *)
(***************************************************************************)
EXTENDS SwapStream

TradeEvents == Events("observed_trade")
TradeSwaps == {log[k].swap : k \in TradeEvents}
FillSwaps == {log[k].swap : k \in Events("bin_fill")}

FillMissingParent == FillSwaps \ TradeSwaps

CrossedOursWithoutFill ==
    {log[k].swap : k \in {j \in TradeEvents : log[j].ours}} \ FillSwaps

DuplicateTrades ==
    {log[k].swap : k \in {j \in TradeEvents :
        \E l \in TradeEvents : l < j /\ log[l].swap = log[j].swap}}

\* The window the chain is asked for: from the first to the last trade of the
\* log by block time, or the time of the run if it has none.
ChainSwaps ==
    IF TradeSwaps = {} THEN 1 .. landed
    ELSE {i \in 1 .. landed : \E f, l \in TradeSwaps : f <= i /\ i <= l}

MissingSwaps == ChainSwaps \ TradeSwaps
ExtraSwaps == TradeSwaps \ ChainSwaps

StreamOk ==
    {} = FillMissingParent \cup CrossedOursWithoutFill \cup DuplicateTrades
           \cup MissingSwaps \cup ExtraSwaps

\* The verifier raises no false alarm: a stream that has read every line and
\* met no failed emit passes, whatever the executor repeated and however the
\* ladder moved while swaps were on their way.
CleanStreamVerifies ==
    LoopFree /\ task = "tail" /\ faults = 0 /\ got = 1 .. landed => StreamOk
=============================================================================
