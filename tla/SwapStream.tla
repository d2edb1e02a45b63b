---------------------------- MODULE SwapStream ----------------------------
(***************************************************************************)
(* The swap stream of a live run (src/src/dlmm_bot/swap_observer.py): the  *)
(* executor appends decoded swaps to a file, a task of the bot tails it,   *)
(* and SwapObserver turns each swap into one observed_trade and into the   *)
(* bin_fill events of the ladder the keeper has registered.  Keeper and    *)
(* task share one event loop: a batch of rows is consumed without an       *)
(* await, so the keeper moves its ladder only between batches.             *)
(*                                                                         *)
(* A line of the file is two chunks, <<i, 1>> and <<i, 2>>, so that a read *)
(* can fall between them; an offset counts chunks.  Swap i moves the       *)
(* active bin from Moves[i][1] to Moves[i][2].  Every row has a signature, *)
(* as the executor promises (tests/test_executor_swap_stream.py).          *)
(***************************************************************************)
EXTENDS Integers, Sequences, FiniteSets, SequencesExt, Ordered

CONSTANTS
    Moves,         \* the swaps of the pool, in the order of the chain
    Ladders,       \* what a ladder may be: [bins -> {"none", "bid", "ask"}]
    WholeWrites,   \* the executor's append of a line is never seen half done
    Refusals,      \* the executor may refuse a leg of a deposit
    MaxLadders,    \* bound: ladders registered
    MaxCopies,     \* bound: lines that repeat an earlier swap
    MaxRotations,  \* bound: times the file is truncated or rotated
    MaxFaults      \* bound: calls of EventLog.emit and reads that raise

Swaps == 1 .. Len(Moves)
Bins == UNION {DOMAIN l : l \in Ladders}

ASSUME SwapAssumption ==
    /\ Moves \in Seq(Nat \X Nat)
    /\ \A l \in Ladders : l \in [Bins -> {"none", "bid", "ask"}]
    /\ WholeWrites \in BOOLEAN /\ Refusals \in BOOLEAN
    /\ {MaxLadders, MaxCopies, MaxRotations, MaxFaults} \subseteq Nat

VARIABLES
    landed,    \* the number of swaps on the chain
    file,      \* the chunks of the executor's file
    present,   \* it exists
    batch,     \* the rows of a read not yet consumed
    offset,    \* JsonlSwapEventSource._offset
    task,      \* where SwapStreamRunner.run() is
    seen,      \* SwapObserver._seen
    last,      \* SwapStreamRunner._last_signature, 0 for None
    resting,   \* SwapObserver._resting
    ladder,    \* the ladder it belongs to, 0 after clear()
    placed,    \* the legs of that ladder that are in the pool
    log,       \* the events this stream writes to the event log
    registered, repeated, rotations, faults,
    got,       \* the swaps parsed in some read
    done,      \* the swaps on_swap() returned a number for
    lostAt,    \* for a swap dropped unobserved, the length of the log then
    at         \* the ladder and the legs in the pool when a swap landed

reader == <<batch, offset, task, seen, last, log, faults, got, done, lostAt>>
world == <<landed, file, present, repeated, rotations, at>>
book == <<resting, ladder, placed, registered>>
vars == <<reader, world, book>>

NoLiquidity == [b \in Bins |-> "none"]

Init ==
    /\ landed = 0 /\ file = <<>> /\ present = FALSE /\ offset = 0 /\ batch = <<>> /\ task = "started"
    /\ seen = {} /\ last = 0 /\ log = <<>> /\ got = {} /\ done = {}
    /\ lostAt = [i \in Swaps |-> 0]
    /\ resting = NoLiquidity /\ ladder = 0 /\ registered = 0
    /\ repeated = {} /\ rotations = 0 /\ faults = 0
    /\ placed = {}
    /\ at = [i \in Swaps |-> [ladder |-> 0, placed |-> {}]]

-----------------------------------------------------------------------------
(* The chain, the executor that writes the file, and the keeper. *)

MidLine == file # <<>> /\ Last(file)[2] = 1

\* The executor puts a line in the file, in one write or in two.
WriteLine(i) ==
    /\ present' = TRUE
    /\ \/ file' = file \o <<<<i, 1>>, <<i, 2>>>>
       \/ ~WholeWrites /\ file' = file \o <<<<i, 1>>>>

Swap ==
    /\ landed < Len(Moves) /\ ~MidLine
    /\ landed' = landed + 1
    /\ at' = [at EXCEPT ![landed + 1] =
                  [ladder |-> ladder, placed |-> placed]]
    /\ WriteLine(landed + 1)
    /\ UNCHANGED <<reader, book, repeated, rotations>>

EndLine ==
    /\ MidLine
    /\ file' = file \o <<<<Last(file)[1], 2>>>>
    /\ UNCHANGED <<reader, book, landed, present, repeated, rotations, at>>

\* A swap the executor hears of twice is a line of the file twice.
Copy(i) ==
    /\ i <= landed /\ Cardinality(repeated) < MaxCopies /\ ~MidLine
    /\ repeated' = repeated \cup {i}
    /\ WriteLine(i)
    /\ UNCHANGED <<reader, book, landed, rotations, at>>

\* The file is truncated, or moved away until the next line is written.
Rotate ==
    /\ rotations < MaxRotations /\ file # <<>> /\ ~MidLine
    /\ rotations' = rotations + 1
    /\ file' = <<>> /\ present' \in BOOLEAN
    /\ UNCHANGED <<reader, book, landed, repeated, at>>

\* A batch and the handlers of an error do not give up the event loop.
LoopFree == batch = <<>> /\ task \in {"started", "tail", "pause", "ended"}

\* The end of _deposit_ladder: the rows of the new ladder replace the old
\* ones, those of a leg that was refused too.
Register(l) ==
    /\ LoopFree /\ registered < MaxLadders
    /\ registered' = registered + 1
    /\ ladder' = registered + 1
    /\ resting' = l
    /\ IF Refusals THEN placed' \in SUBSET {"bid", "ask"}
                   ELSE placed' = {"bid", "ask"}
    /\ UNCHANGED <<reader, world>>

Clear ==
    /\ LoopFree /\ ladder # 0
    /\ resting' = NoLiquidity /\ ladder' = 0 /\ placed' = {}
    /\ UNCHANGED <<reader, world, registered>>

-----------------------------------------------------------------------------
(* The file, read from an offset: JsonlSwapEventSource. *)

\* A file shorter than the offset is taken for a new one.
StartAt == IF Len(file) < offset THEN 0 ELSE offset

\* Where a whole line begins beyond a place in the file: a line that lies
\* there only in part is no JSON and is skipped.
WholeFrom(n) == {k \in n + 1 .. Len(file) - 1 : file[k][2] = 1}

\* The swaps of those lines, in order.
RowsFrom(n) == Picked([k \in 1 .. Len(file) |-> file[k][1]], WholeFrom(n))

\* The swaps a read finds.
Ahead == {file[k][1] : k \in WholeFrom(StartAt)}

\* backfill(): the rows after the last signature, if that is among them.
After(rows, sig) ==
    IF Contains(rows, sig)
    THEN LET found == InOrder({n \in DOMAIN rows : rows[n] = sig})
         IN SubSeq(rows, found[1] + 1, Len(rows))
    ELSE rows

-----------------------------------------------------------------------------
(* One swap, observed: SwapObserver.on_swap(). *)

Goes(i) == IF Moves[i][2] > Moves[i][1] THEN "up" ELSE "down"

\* The bins a swap passes, in the order they are visited.
Crossed(i) ==
    LET from == Moves[i][1]
        to == Moves[i][2]
    IN IF Goes(i) = "up" THEN [k \in 1 .. to - from |-> from + k - 1]
                         ELSE [k \in 1 .. from - to |-> to + k]

Side(i) == IF Goes(i) = "up" THEN "ask" ELSE "bid"

\* a mutant of CrossedOurs: liquidity of either side
CrossedAny(i) == \E b \in ToSet(Crossed(i)) \cap Bins : resting[b] # "none"

\* has_resting_liquidity(), for any bin passed: what crossed_ours says.
CrossedOurs(i) ==
    \E b \in ToSet(Crossed(i)) \cap Bins : resting[b] = Side(i)

\* The bins of ours it fills: those that hold the token the taker takes.
Fills(i) ==
    LET bins == Crossed(i)
        Ours(b) == b \in Bins /\ resting[b] = Side(i)
    IN Picked(bins, {k \in DOMAIN bins : Ours(bins[k])})

Event(type, i) ==
    [type |-> type, swap |-> i, ours |-> FALSE, bin |-> 0, ladder |-> 0]
Trade(i) == [Event("observed_trade", i) EXCEPT !.ours = CrossedOurs(i)]
Fill(i, b) == [Event("bin_fill", i) EXCEPT !.bin = b, !.ladder = ladder]
Gap == Event("swap_stream_gap", last)

\* a mutant of Observe: a bin that was filled still rests
ObserveUnsold(i, bins) ==
    /\ seen' = seen \cup {i}
    /\ log' = log \o <<Trade(i)>>
                  \o [k \in 1 .. Len(bins) |-> Fill(i, bins[k])]
    /\ UNCHANGED resting

\* on_swap() with its trade and the fills of some bins logged: a bin is empty
\* once its fill is.
Observe(i, bins) ==
    /\ seen' = seen \cup {i}
    /\ log' = log \o <<Trade(i)>>
                  \o [k \in 1 .. Len(bins) |-> Fill(i, bins[k])]
    /\ resting' = [b \in Bins |->
                     IF b \in ToSet(bins) THEN "none" ELSE resting[b]]

\* The fills logged when the emit of the next one raises.
SomeFills(i) ==
    {SubSeq(Fills(i), 1, n) : n \in {0} \cup 0 .. Len(Fills(i)) - 1}

-----------------------------------------------------------------------------
(* The task: SwapStreamRunner.run(). *)

Fault == faults < MaxFaults /\ faults' = faults + 1

\* _read_new(): the rows beyond the offset, and the offset to the end; of a
\* file that is not there none, and the offset stays.
ReadNew(rows) ==
    /\ task # "tail" \/ offset # Len(file)
    /\ offset' = IF present THEN Len(file) ELSE offset
    /\ UNCHANGED <<world, book, seen, last, log, faults, done>>
    /\ got' = got \cup Ahead
    /\ batch' = rows
    /\ lostAt' = [i \in Swaps |->
                    IF i \in Ahead \ ToSet(rows) THEN Len(log) ELSE lostAt[i]]

\* The read raises; it may have gone back to the start of a shorter file.
ReadFails ==
    /\ batch = <<>> /\ task \in {"started", "tail", "refill"} /\ Fault
    /\ offset' \in {offset, StartAt}
    /\ task' = CASE task = "started" -> "ended"  \* the first is in no try
                 [] task = "tail" -> "error"
                 [] task = "refill" -> "refill error"
    /\ UNCHANGED <<world, book, seen, last, log, got, done, batch, lostAt>>

\* The backfill before the loop, and the one after an error.
Backfill ==
    /\ task \in {"started", "refill"}
    /\ task' = IF task = "started" THEN "filling" ELSE "refilling"
    /\ ReadNew(After(RowsFrom(StartAt), last))

\* One read of subscribe().
Poll ==
    /\ task = "tail" /\ batch = <<>>
    /\ ReadNew(RowsFrom(StartAt)) /\ UNCHANGED task

\* a mutant of Consume: a signature seen before is not dropped
ConsumeAgain ==
    /\ batch # <<>>
    /\ LET i == Head(batch)
       IN Observe(i, Fills(i)) /\ last' = i /\ done' = done \cup {i}
    /\ batch' = Tail(batch)
    /\ UNCHANGED <<world, offset, task, faults, got, lostAt, ladder, placed,
                   registered>>

\* The next row of the batch, observed: a swap seen before is dropped.
Consume ==
    /\ batch # <<>> /\ batch' = Tail(batch)
    /\ LET i == Head(batch)
       IN IF i \in seen THEN UNCHANGED <<seen, log, resting, last, done>>
          ELSE /\ \E bins \in {Fills(i)} : Observe(i, bins)
               /\ last' = i /\ done' = done \cup {i}
    /\ UNCHANGED <<world, offset, task, faults, got, lostAt, ladder, placed,
                   registered>>

\* The rows of the batch are lost.
Dropped == [i \in Swaps |-> IF i \in ToSet(batch) THEN Len(log') ELSE lostAt[i]]

\* a mutant of Fail: the runner notes the signature before the call
FailNoted ==
    /\ batch # <<>> /\ Head(batch) \notin seen /\ Fault
    /\ LET i == Head(batch)
       IN seen' = seen \cup {i} /\ last' = i /\ UNCHANGED <<log, resting>>
    /\ batch' = <<>> /\ lostAt' = Dropped
    /\ task' = IF task = "tail" THEN "error" ELSE "refill error"
    /\ UNCHANGED <<world, offset, got, done, ladder,
                   placed, registered>>

\* An emit of the row raises: its signature is in the set already, and the
\* rest of the batch is behind the offset.
Fail ==
    /\ batch # <<>> /\ Head(batch) \notin seen /\ Fault
    /\ LET i == Head(batch)
       IN \/ /\ seen' = seen \cup {i} /\ UNCHANGED <<log, resting>>
          \/ \E bins \in SomeFills(i) : Observe(i, bins)
    /\ batch' = <<>> /\ lostAt' = Dropped
    /\ task' = CASE task = "filling" -> "ended"  \* the first is in no try
                 [] task = "tail" -> "error"
                 [] task = "refilling" -> "refill error"
    /\ UNCHANGED <<world, offset, last, got, done, ladder,
                   placed, registered>>

Filled ==
    /\ task \in {"filling", "refilling"} /\ batch = <<>>
    /\ task' = IF task = "filling" THEN "tail" ELSE "pause"
    /\ UNCHANGED <<world, book, offset, seen, last, log, faults, got, done,
                   batch, lostAt>>

\* The handlers log the gap, unless that fails too and ends the task.
LogGap ==
    /\ task \in {"error", "refill error"}
    /\ \/ /\ log' = Append(log, Gap)
          /\ task' = IF task = "error" THEN "refill" ELSE "pause"
          /\ UNCHANGED faults
       \/ Fault /\ task' = "ended" /\ UNCHANGED log
    /\ UNCHANGED <<world, book, offset, seen, last, got, done, batch, lostAt>>

\* asyncio.sleep(retry_delay)
Retry ==
    /\ task = "pause" /\ task' = "tail"
    /\ UNCHANGED <<world, book, offset, seen, last, log, faults, got, done,
                   batch, lostAt>>

Runner == Backfill \/ Poll \/ ReadFails \/ Consume \/ Fail \/ Filled \/ LogGap \/ Retry

Next ==
    \/ Swap \/ EndLine \/ Rotate \/ Clear
    \/ \E i \in Swaps : Copy(i)
    \/ \E l \in Ladders : Register(l)
    \/ Runner

Spec == Init /\ [][Next]_vars
-----------------------------------------------------------------------------
(* Properties. *)

Events(type) == {k \in 1 .. Len(log) : log[k].type = type}

\* No swap is logged twice, however often the executor writes it, the file is
\* rotated or the stream fails and is filled again (on_swap(), dedupe).
LoggedOnce ==
    \A j, k \in Events("observed_trade") : log[j].swap = log[k].swap => j = k

\* Liquidity is sold once: between two registrations no bin fills twice,
\* a swap that is observed again or a fill that raised half way included.
FilledOnce ==
    \A j, k \in Events("bin_fill") :
        log[j].ladder = log[k].ladder /\ log[j].bin = log[k].bin => j = k

\* A swap that was read and is not wholly recorded is one the log can tell
\* of: once the error is handled there is a gap event, no older than the last
\* thing that was logged before the swap was dropped, whose after_signature it
\* came after.  A backfill from the chain starts there.  Of a swap that is in
\* the file twice, and once a gap event could not be written either (which
\* ends the task), nothing is said.
GapCoversLoss ==
    \A i \in got \ (done \cup repeated \cup ToSet(batch)) :
        \/ task = "ended"
        \/ task \in {"error", "refill error"} /\ last < i
        \/ \E k \in Events("swap_stream_gap") :
               k >= lostAt[i] /\ log[k].swap < i

\* The source "survives truncation/rotation": a row that lies in the file was
\* read, or the next read finds it.
RotationLosesNothing ==
    \A k \in WholeFrom(0) : file[k][1] \in got \cup Ahead

\* The observer "tracks our resting per-bin liquidity (registered by the keeper
\* on deploy)": a fill of the ladder that was registered when its swap came is
\* of a leg that was in the pool.
FillsWereDeployed ==
    \A k \in Events("bin_fill") :
        LET i == log[k].swap
        IN log[k].ladder = at[i].ladder => Side(i) \in at[i].placed
=============================================================================
