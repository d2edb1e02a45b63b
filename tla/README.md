# A TLA+ model of dlmm-bot

This directory holds a specification of `dlmm-bot`, a market maker that quotes on a
Solana DLMM pool: what its parts do, which states they can get into together, which
properties survive failures, and which sentences of its comments do not hold. TLC checks
small instances; TLAPS proves the core for every value of the constants.

## 1. The system

| part | state it keeps | operations | talks to |
|---|---|---|---|
| Keeper (`src/dlmm_bot/keeper.py`) | tracked position ids (one primary, extras), drift anchor, WIDEN flag, polled balances, assumed hedge short, `_halted`, failure counter | a cycle: sentinel check, poll, plan, then quote / widen / stop / de-risk / emergency / nothing, then hedge | executor bridge (calls), event log, sentinel file, swap observer, hedging service (publishes intents) |
| Decisions (`plan_cycle` in `keeper.py`, `risk_dlmm.py`, `oracle.py`, `ladder.py`, `hedge.py`) | TVL window; closed bars and the time of the next fetch; moving average of the inventory | kill-switch, inventory cap, oracle gate, ladder, hedge trade | called by the keeper once a cycle; price feed over HTTP |
| Executor bridge (`exec_bridge.py`) | subprocess, request counter, one timer thread per call, one thread per process that drains stderr | `start`, `_send` (all verbs), `stop` | a TypeScript process over pipes, which signs and submits transactions |
| Event log (`event_log.py`) | a file of hash-chained, numbered lines; the next number and the last line in memory | `emit`, open, resume, `close`, `ReplayLog` | keeper, stream and tools write; replay and verification read |
| Swap observer and stream (`swap_observer.py`) | resting liquidity per bin, set of signatures, byte offset, last signature | tail, backfill, `on_swap`, register, clear | a file the executor writes, keeper, event log |
| Write soak (`tools/live_keeper_write_soak.py`) | none beyond the keeper | drives `_cycle` until a deadline, also when halted; clean-stop withdrawal; exit code | keeper |
| Live LP experiment, recovery (`tools/live_lp_experiment.py`, `recover_live_lp.py`) | opened ids, outcome flags, spending; remaining ids | open two positions, hold, shift, close; close named positions | executor bridge, event log on disk |
| Replay, verification (`tools/replay.py`, `verify_log.py`, `ReplayExecBridge`) | cursors in a finished log; a second keeper | drive a keeper from a log and compare; check a log for consistency | event log |
| Backtest, PnL, calibration, screening | none while the bot runs | compute reports from finished or downloaded data | files, network |

What makes it hard is that every signed call leaves the process: it may be refused, done,
done in part, done although the reply was lost, or done later, and the process, its
executor or its host may die in between. The keeper's memory, its event log and the chain
are three records of the same positions, and the log is what an operator, a replay and a
verification later believe. What makes each part correct:

* **keeper** – no live position is ever lost track of; no ladder is deployed on top of one
  that may be there; a halt, a sentinel and repeated refusals stop it; the ladder follows
  the price without churning; a dry run touches nothing;
* **decisions** – a drained pool is left however slowly it is drained; a pair with an
  oracle quotes only on prices that were there; a ladder is one the executor accepts; a
  hedge trades towards the inventory it hedges and not past it, as long as its band does
  not shrink;
* **bridge** – what it tells the caller is true of the chain, whatever timers, kills, late
  replies and stray lines come in between; one process signs at a time; every call returns;
* **event log** – a run that met no error reads back; a log that reads back has everything
  that was acknowledged;
* **stream** – a swap is logged once, liquidity is sold once, a swap that is lost can be
  told from the log;
* **experiment and recovery** – exit code 0 means that nothing is left; a report names what
  is left; no write follows a doubtful one; the money for the closes is never spent; a run
  comes to an end; a killed one can be recovered from its log;
* **replay and verification** – a replay of a run agrees with it, and where it cannot, for
  a known reason; an alarm of the verifier has a cause and each cause its alarm.

`PROJECT.json` lists the components with their status, and under `hazards` the places where
each can go wrong, with the properties that watch them.

## 2. The modules

| module | models | role |
|---|---|---|
| `Keeper` | `keeper.py` from `__init__` to `_emergency_exit`, with `Keeper.run` or `run_soak` driving it, restarts, the executor's answers and the chain | the core |
| `PositionLedger` | what a program promises about its positions | abstract specification, implemented by `Keeper` and by `LpRuns` |
| `KeeperProofs` | | theorems about `Keeper`: log and ledger, then memory, ladders and dry runs |
| `Oracle`, `Ladder`, `HedgeController` | `oracle.py`, `ladder.py` with `_quantized_side`, `hedge.py` with `_unwind_hedge` | components |
| `PlanCycle` | `plan_cycle` and `risk_dlmm.py` over many cycles | composes the three |
| `PlanCycleProofs` | | theorems about `PlanCycle` |
| `ExecBridge` | `class ExecBridge`, its threads, its subprocess and its pipes | component |
| `SignedCall` | what a caller may rely on | abstract specification, implemented by `ExecBridge` |
| `ExecBridgeProofs` | | theorems about `ExecBridge` |
| `EventLog` | `EventLog` and `ReplayLog`, a disk that fills up, crashes, damage | component |
| `EventLogProofs` | | theorems about `EventLog` |
| `SwapStream` | `swap_observer.py`, the file the executor writes, the keeper's registrations | component |
| `StreamAudit` | the checks of `verify_log.py` on trades and fills | extends `SwapStream` |
| `SwapStreamProofs` | | theorems about both |
| `Ordered` | the part of a sequence that a comprehension keeps, and a set that was sorted | used by `SwapStream`, `EventLog`, `Oracle`, `Rerun` |
| `OrderedProofs` | | what the two return, and lemmas on sequences the proofs share |
| `LpChain` | the wallet's positions, late landings, lagging reads, the executor's answers | world of the two tools |
| `LpExperiment`, `RecoverLp` | `live_lp_experiment.py`, `recover_live_lp.py` | components |
| `LpRuns` | an experiment, then recoveries from its log | composes the two |
| `LpRunsProofs` | | theorems about `LpRuns` |
| `KeeperProgram` | one cycle of a keeper as a program of its inputs, with every event it logs | used twice by `Rerun` |
| `Rerun` | a run and its log; `replay.py` and `ReplayExecBridge` driving a second keeper from it | composition |
| `ActionAudit` | the checks of `verify_log.py` on requests, results and positions | extends `Rerun` |
| `RerunProofs` | | theorems about `Rerun` and `ActionAudit` |
| `MC...` | | instances for TLC |

`Ordered` says by counting what `SelectSeq` and `SetToSortSeq` say with an operator as
argument: the prover cannot speak of those two, and TLC computes the same.

Operators whose comment says "a mutant" are plausible bugs; `PROJECT.json` says which
definition each would replace and which property then fails.

### Keeper

State maps one to one to attributes: `primary` is `_current_position_id`, `extras`
`_extra_position_ids`, `activeBin`, `centerBin`, `deployedWidened`, `inventoryBase`,
`hedgeShort`, `halted`, `failures` the attributes of those names. `pc` and `routine` say
which handler runs and how far it is, `plan` is the ladder of the cycle, `todo`/`kept` the
locals of `_withdraw_extra_positions`. The world is `live` (positions on chain), `pending`
(calls that may still land), `perp` (the short the hedging service holds) and `sentinel`.
What an operator reads in the event log is `opened` (positions that `position_*` events
leave open), `named` (ids that the `action_result` of a success names and that no position
event has followed up yet) and `suspect` (positions of requests without a definite result).

One signed call is `Send` (the `action_request` event and the bridge call), an answer of
the world (`ExecutorAnswers`, `ExecutorGivesUp`, `ReplyLost`, or `Raise` when the pipe is
broken), `EmitResult` (`_emit_result`: the outcome is counted, may halt the keeper, and is
logged as `action_result` with its `cash_flow`), and then the return action of the handler
(`BidReturns`, `AskReturns`, `BundleReturns`, `WithdrawReturns`, `ExtraReturns`,
`SwapReturns`), which updates memory and logs the first `position_*` event. A refresh logs
one event for each new position, with an `AnnounceNext` for each. Between an assignment and
the event next to it no other actor comes in and a crash takes the memory away, so the two
are one step; the order of the events, and what a crash between them leaves on disk, is
kept. `Crash` strikes between any two steps, so also after a result is logged and before
its position is; `Restart` is the operator who waits until nothing is in flight, looks up
what the log leads to (`opened`, `named` and `suspect`) and starts the keeper with those
ids, as `_emit_result` asks ("stop and let an operator reconcile").

With `SequentialLegs` a refresh may land in part, at once (`LandsInPart`, answered as a
failure) or late, after its reply was lost. Two promises of the executor, which is not in
this repository, are used: a deposit or refresh that succeeds names the positions it opened
(`tests/test_executor_fixtures.py:41-43`), so the fallbacks for a success without ids
(`keeper.py:803-804`, `986-988`) are not reached; and `build_ladder` gives its two sides
shares of the capital that add up to one, so at most one of them is empty after quantizing.

Abstracted: what `plan_cycle` decides is any decision with any non-empty ladder; a ladder is
the set of its sides and its width; a position is the account address that the side, the
active bin and the width determine (so the same ladder placed twice is the same account);
amounts are three classes of base balance, by the two thresholds they are compared with;
reads that fail only skip a cycle, and are left out; `emit` does not raise here (`EventLog`
is about that). Hedge intents are published in dry runs as well (lines 747-776), which the
model follows.

### ExecBridge

`pc` walks through `_send`; `timers` holds the state of each call's timer thread, which
fires in three steps (wait over, event set, process killed) that interleave with the
caller's. A killed executor runs on for a moment (`"dying"`): `poll()` may still find it
alive, and a leg it submitted may land after it is dead. The executor itself, which is not
in this repository, takes a request, logs to stderr (and blocks when that pipe is full),
signs leg by leg, answers in any way it likes, prints stray lines or dies.

`SignedCall` is the assumption the keeper model makes about its calls: *ok* means all legs
landed, *refused* that no more will, *raised* that none did, *unknown* that anything may
still happen. The one thing `Keeper` adds is an executor that answers "refused" while a
transaction of its own is still in flight (`pending_signature`), which the constant
`PendingErrors` switches.

### EventLog

`file` is what is on disk, line by line, with flags for a line that does not parse and one
without its newline; `w` is what the writer remembers; `buffer` is what a failed flush left
behind and the next flush writes. An emit is one step because it holds the lock. The hash
of a line is a token that no other line has.

### SwapStream and StreamAudit

`file` is a sequence of chunks, two for a line, so that a read can fall into a line;
`offset` is `_offset`, `seen`, `last` and `resting` are `_seen`, `_last_signature` and
`_resting`, `task` is the place in `SwapStreamRunner.run`. A read (`Backfill`, `Poll`) takes
all rows at once and moves the offset; `Consume` and `Fail` take them one by one. Task and
keeper share one event loop, and the code has no `await` inside a batch or an error
handler, so `Register` and `Clear` come only where the loop is free. `present` says whether
the file is there: `Rotate` truncates it, or moves it away until the next line is written,
and a read of a file that is away returns nothing and keeps the offset. What can fail is a
read (`ReadFails`, before or after it went back to the start of a shorter file) and an
`emit` of `on_swap`, at the trade or at any of its fills (`Fail`); a failure in the first
backfill, which is in no `try`, or of the gap event ends the task. History variables
remember what was read (`got`), what was recorded (`done`), how long the log was when a
swap was dropped unobserved (`lostAt`), which lines the executor repeated (`repeated`), and
the ladder that was in force when a swap landed (`at`). A line of which a read saw only
half is never read, and is not in `got`; the hazard list has it. Left out: amounts and
fees of a fill, rows of other pools, rows without a signature, which the executor does not
write (`tests/test_executor_swap_stream.py:66`) and the observer would not dedupe, and the
`on_fill` callback, which is `markout.on_fill` and is taken not to raise.

### LpChain, LpExperiment, RecoverLp, LpRuns

An answer is a record of the fields the tools look at; `Fates` says which of them bind the
chain: a success of the right address has happened, a rejection without evidence and a
transaction whose receipts all say "failed" have not, and everything else may have happened,
may still happen or never will. `stale` holds the positions whose opening or closing a read
may not show yet (with `ReadsLag`), and `Views` what an account read may give: each read is
served by a node that lags on its own, so a read may be older than the one before it.
`missed` remembers what was read as absent and was there; the answer to a withdrawal and the
read that follows it are independent. `Send` is `action()` up to the executor with its
fsync, `DepositAnswered` and `WithdrawAnswered` are the rest of it with its caller;
`routine` tells opening, shift and cleanup apart; `Report` is the last look. Losses and most
balance checks are free choices of an exit, so the money is followed only where it decides:
`outlay` against `MAX_SOL_PER_RUN`, and the last balance check. A deposit books what a fresh
inspection says its rent is (`LegRents`; line 394), while the cap check reserves half of
what the first inspection said of the two (`DepositCharge`; 530-531).

`Reconciles` is that last check. The native balance comes from the read that shows the
accounts; the fee of an opening is in `fees` from the moment it is confirmed. So a lagging
read that does not show a position does not show its cost either, and the balance does not
add up to what was charged. A read that wrongly settles a doubt in `CloseFailed` is allowed,
and so is what follows from it: the properties name it (`missed`).

The tool for recoveries has no balance check; `late` and `missed` are the two ways in which
a position can be there although it reports success. `LpRuns` lets an operator recover from
any addresses of the log once the experiment is over or dead, and lets that tool be killed
too. The preflight check compares rent and fee budget with the cap, which is less than opening and closing cost; the model
has that formula, and the property is about the hold, where the code reckons in full.

### Oracle, Ladder, HedgeController, PlanCycle

Time is in ticks. A price is the name of the minute its last trade fell in, so that "true"
can be said of it; `FillGaps`, `SyntheticCross` and `Refresh` build `bars` as the code does,
with the throttle and with fetches that fail. Tilt and half spread come to `Ladder` as the
whole bins they are rounded to, and the price of a bin is any non-decreasing function.
The average of the hedge is any value between the old one and the inventory, which covers
every window, volatility and interval. Band and cap (`bounds`) are chosen anew by every
evaluation from `Bounds`, for both are shares of what the inventory is worth in base at
that moment (`hedge.py:131-132`); `EvaluateNothing` is the early return on inputs that are
not finite (119-124). `PlanCycle` has the checks in the order of `plan_cycle`; the shared
risk policy and the regime gate, which are in another package, are a free choice of
decision, and so is what becomes of the calls (`Keeper` has those). The `invalid_mid`
branch of `plan_cycle` (`keeper.py:259-260`) is not there: the reading is validated
before (586), so it is not reached.

Of the feed it is assumed that it serves every closed bar as soon as it is closed, with a
positive price; a bar served later would have been filled flat by then. Bars are filled
between fetched ones only, so quiet minutes between the end of the store and the first bar
of a fetch stay a hole, and the property does not deny it: it speaks of the bars there are.

### KeeperProgram, Rerun, ActionAudit

`KeeperProgram` has no variables: it maps a keeper (a record) and an input to the next
keeper, and says what is written to the log on the way. In `Rerun` one such keeper runs,
with refusals, failed and malformed reads, calls that raise, a sentinel, a crash and the
clean stop of the soak; then `Begin`, `Drive` and `Reply` are `replay_session`, its driver
and `ReplayExecBridge`, which feed a second keeper from the log. Left out of this pair are
WIDEN, dry runs, amounts, prices and trades; the plan of a cycle is a function of the state
that was read, as the tapes that a replay has make it.

## 3. What TLC checks

| run | instance | shows |
|---|---|---|
| `soak` | `run_soak`, fair, refreshes that land in part, failures that land later, crashes between the events of a call | `LogCoversChain` and `MemoryCoversChain`: log and memory account for every live position; `LedgerSpec`: refinement of `PositionLedger`; `SentinelHalts`, `CycleEnds`, `RefusalsHalt`: liveness |
| `quote` | `Keeper.run`, hedge on, three modes, both widths, definite failures, lost replies | `TypeOK`; `NoBlindRedeploy`: liquidity is never added while an earlier call may land, nor by a halted keeper; `LadderFollowsPrice`, `NoChurn`, `ShadowSubmitsNothing` |
| `bridge` | two calls of up to two legs, two processes, one fault | `ContractSpec`: refinement of `SignedCall`; `OneSigner`; `CallsReturn`; `NoPipeDeadlock` |
| `log` | four emits, three opens, two faults | `CleanRunsLoad`, `LoadedLogsAreComplete`, `DamageShows` |
| `lp` | two bins, one shift, three attempts, one recovery, lagging reads | `SuccessLeavesNothing`, `RemainingIsNamed`, `NothingSentInDoubt`, `ClosesFitRunCap`, `RecoveredMeansGone`, `LedgerSpec`; `EveryStepLeadsOn`: no loop of the experiment goes on for ever |
| `swaps` | three swaps over three bins, one repeated line, one rotation, two failed reads or emits | `LoggedOnce`, `FilledOnce`, `GapCoversLoss`, `CleanStreamVerifies` |
| `cycle` | two legs, bars of two ticks, a pool drained in steps below the limit, six lots | `DrainIsSeen`, `QuotesOnTruePrices`, `LadderStraddles`, `HedgeInBounds` |
| `replay` | three cycles, two things that go wrong, three ways to start | `ReplayAgrees`, `ReplayKnowsPositions`, `AuditExact` |

Four runs refute a sentence of the repository, each with a short counterexample:

| run | sentence | what happens |
|---|---|---|
| `phantom` | "tracks our resting per-bin liquidity (registered by the keeper on deploy)" | a deposit leg is refused, `_register_ladder` registers both legs all the same, and the next swap through them is logged as a fill |
| `naked` | "an open perp short would now be a naked short" | a de-risk sells the base and unwinds the hedge; the controller's moving average stays, and the next cycle that quotes opens the short again |
| `strand` | "track it so no ask-side liquidity is ever left unclosed" (`keeper.py:1020-1021`) | the bid leg is refused or empty, the ask leg succeeds and joins the extras; an emergency exit looks at the extras only if there is a primary, and halts with the ask position open |
| `rotate` | "survives truncation/rotation" (`swap_observer.py:233-234`) | the new file has grown past the old offset before the next read, which goes on from there: the rows before it are never read, and no gap event says so |

What `ReplayAgrees` excludes is as telling as what it shows. A replay need not agree when

* an outcome was unknown: `action_result` has no `unknown_outcome`, so the replaying keeper
  does not halt (`exec_bridge.py:522`);
* a call raised: its request has no result, which the replay refuses; or, if it was a read,
  the cycle left no decision and its observations stay on the tapes;
* the state was malformed: it comes back as a failed read, with another action in the record;
* a call was cut by a crash;
* the soak withdrew when it stopped: that comes after the last decision, and the driver
  drives decisions only. This is the normal end of a soak, so the normal log of a soak that
  held a position does not replay.

`ReplayKnowsPositions` needs none of these exceptions. `AuditExact` names the false alarm
the verifier does have: extra positions a keeper was configured with.

Further divergences from comments came up in the model of the keeper and the log and are
written down here without a run of their own: a failure that carries `pending_signature` is
not taken for an unknown outcome (the constant `PendingErrors`; `NoBlindRedeploy` fails with
it); an extra without a primary, after a refused bid leg, is joined by another ask leg in
the next cycle that quotes; an emergency exit forgets the id of a refused
withdrawal, and the soak then exits 0; a restarted keeper does not know the short it left;
an emit that raises leaves a gap in the numbers, after which the log does not read back;
"hard cap on residual delta" (`hedge.py:40`) is tested before the trade only (131-141), so
with a short of 100, an average of 110.86 and an inventory of 80 whose worth in base falls
from 200 to 180, the band shrinks from 11.7 to 10.5, the hedge follows its average away from
the inventory, and the residual is 30.86 with a cap of 21.6 (`HedgeInBounds` says how far
beyond the cap it can be).

### Bounds, and why they are enough

* `MaxFaults = 1` in the keeper runs: one raising call, lost reply or pending error in the
  life of a process, any number over a behaviour with restarts. Crashes, refusals, partial
  refreshes and late landings are not bounded. Each property is about what one doubtful call
  does to the calls after it, and doubt halts the keeper.
* `MaxFailures = 2` stands for `MAX_ACTION_FAILURES`: the counter's reset, its increment and
  its limit are all reached.
* Two bins let the price move by the threshold of 1, and back. Bin 0 is there because the
  code reads anchor 0 as "none".
* `MaxLive = 2` caps positions by the wallet's funds: a primary and an extra.
* `soak` has no base to swap, so the exits end there without their last call, which moves no
  position and raises and fails as the withdrawals before it do; `quote` has that call. In
  `quote` the hedging steps are taken, with a target of 0 (`MaxShort = 0`), for no property
  of that run reads the short; the theorems hold for any `MaxShort`.
* `ExecBridge`: two calls are one abandoned call and its successor, the pair every property
  is about; two processes are one per call. `MaxFaults` bounds unprovoked deaths and stray
  lines; timeouts and kills are not bounded.
* `EventLog`: three opens are a run, its resume and the resume of that; two faults let a
  second failure meet what the first one left in the buffer.
* `LpRuns`: two bins two apart make a shift possible in both directions and a redeposit at
  an address that was used before; a fresh inspection finds more rent than the first; the
  run cap lets the first shift pass and stops a later one. Nothing that goes wrong is
  bounded: every answer may be any answer.
* `SwapStream`: the three swaps go up, down and up again over the same bins, so that both
  sides fill and a filled bin is passed again. Two failed reads or emits are a failure and
  one in its handler or in the backfill after it. A line is written in two pieces.
* `PlanCycle`: 100, 75 and 60 are each less than 30% below the one before, and 60 is more
  below 100; a window of 3 ticks in a run of 6 lets readings age out. Bars of two ticks and
  a window of two bars leave quiet minutes, partial fetches and stale ends. Two pairs of
  band and cap, of a small and of a large inventory, let both grow and shrink. The
  configurations vary one thing at a time, because the parts share only the order of checks.
* `Rerun`: three cycles are a deposit, a refresh or an exit, and what comes of it; two
  things may go wrong in one run. Refusals are not bounded.

`CHECK_DEADLOCK FALSE` appears where a system really comes to rest (a closed bridge, a
finished tool, a log at its bounds). The keeper never rests: someone may always restart it.

### Fairness

`Keeper`: weak fairness of the process as a whole (the loop sleeps and wakes) and of every
call being answered or given up, which `bridge` shows (`CallsReturn`). Nothing is assumed of
crashes, restarts, polls or the price. `SentinelHalts` asks that calls stop raising at some
point: a keeper whose every call raises does retry for ever. `ExecBridge`: weak fairness of
the caller's thread, the draining thread and the death of a killed process. Timers are fair
only in the antecedent of `CallsReturn`; executor and chain only in that of
`NoPipeDeadlock`, so each shows what it alone is good for. No other run assumes fairness: that
an experiment ends is stated by its steps (`EveryStepLeadsOn`).

## 4. What is proved

Everything in this section holds for all values of the constants that satisfy the named
assumptions of the modules: any bins, bounds, switches, charges, numbers of calls and
executors. The bounds the runs need are in the guards, so a theorem covers each of them.

| theorem | statement |
|---|---|
| `KeeperProofs!Types` | `Spec => []TypeOK` |
| `KeeperProofs!LogAccountsForChain` | `Spec => []LogCoversChain` |
| `KeeperProofs!ImplementsLedger` | `Spec => LedgerSpec` |
| `KeeperProofs!NeverRedeploysBlindly` | `Spec => [](~PendingErrors => NoBlindRedeploy)` |
| `KeeperProofs!MemoryAccountsForChain` | `Spec => []MemoryCoversChain` |
| `KeeperProofs!LaddersFollowPrice` | `Spec => []LadderFollowsPrice` |
| `KeeperProofs!RefreshesMove` | `Spec => []NoChurn` |
| `KeeperProofs!ShadowsSubmitNothing` | `Spec => []ShadowSubmitsNothing` |
| `ExecBridgeProofs!BridgeTyped` | `Spec => []TypeOK` |
| `ExecBridgeProofs!OneExecutorSigns` | `Spec => []OneSigner` |
| `ExecBridgeProofs!BridgeKeepsContract` | `Spec => ContractSpec` |
| `EventLogProofs!CleanRunsReadBack` | `Spec => []CleanRunsLoad` |
| `EventLogProofs!DamageIsSeen` | `Spec => []DamageShows` |
| `EventLogProofs!LoadedLogsHoldAll` | `Spec => []LoadedLogsAreComplete` |
| `SwapStreamProofs!LogsEachSwapOnce` | `Spec => []LoggedOnce` |
| `SwapStreamProofs!FillsEachBinOnce` | `Spec => []FilledOnce` |
| `SwapStreamProofs!LossIsCovered` | `Spec => []GapCoversLoss` |
| `SwapStreamProofs!CleanLogVerifies` | `Spec => []CleanStreamVerifies` |
| `LpRunsProofs!RunsTyped` | `RunsSpec => []TypeOK` |
| `LpRunsProofs!NothingIsSentInDoubt` | `RunsSpec => NothingSentInDoubt` |
| `LpRunsProofs!SuccessIsClean` | `RunsSpec => []SuccessLeavesNothing` |
| `LpRunsProofs!ReportNamesRemaining` | `RunsSpec => []RemainingIsNamed` |
| `LpRunsProofs!RecoveriesAreTrue` | `RunsSpec => []RecoveredMeansGone` |
| `LpRunsProofs!ToolsImplementLedger` | `RunsSpec => LedgerSpec` |
| `LpRunsProofs!ClosesAlwaysFit` | `OpeningFits => (RunsSpec => []ClosesFitRunCap)` |
| `LpRunsProofs!ExperimentLeadsOn` | `RunsSpec => EveryStepLeadsOn` |
| `PlanCycleProofs!LaddersStraddle` | `Spec => []LadderStraddles` |
| `PlanCycleProofs!HedgeStaysInBounds` | `Spec => HedgeInBounds` |
| `PlanCycleProofs!DrainsAreSeen` | `Spec => []DrainIsSeen` |
| `PlanCycleProofs!TypesHold` | `Spec => []TypeOK` |
| `PlanCycleProofs!QuotesKnowPrices` | `Spec => []QuotesOnTruePrices` |
| `RerunProofs!AlarmsAreExact` | `Spec => []AuditExact` |
| `RerunProofs!ReplaysAgree` | `Spec => []ReplayAgrees` |
| `RerunProofs!ReplaysKnowPositions` | `Spec => []ReplayKnowsPositions` |

### Keeper: log and ledger (`KeeperProofs`)

* `TypeInv` is `TypeOK` with the shape of a call (a request is there exactly while a reply
  is awaited, and only at a calling step) and that the steps which use the primary have one.
  Without the last, the request of a withdrawal would not be well typed.
* `LogInv` strengthens `LogCoversChain` by: what a pending call may open is in doubt in the
  log; a call that has not been carried out has opened nothing the log does not lead to;
  what a successful call closed is gone; what a success opened is named until its position
  events are there (`OpenedIsNamed`). The first keeps late landings inside the log, the
  second lets a refusal drop the request, the third lets a handler log a closure, and the
  last carries the positions from `action_result` to `position_*`. There is one lemma for
  each event of a call: `LogInvEmit`, `LogInvReturn` (for all six handlers, which touch
  these variables only through `EndCall`, `LogOpened` and `LogClosed`; `ReturnEnds`,
  `ReturnLogs`) and `LogInvAnnounce`; `LocalKeepsLedger` serves the steps that make no call.
* `ImplementsLedger` maps `chain` to `live` and `accounted` to
  `opened \cup named \cup suspect \cup InFlight`, and uses `LogInv`: `Send` announces, an
  answer or a late landing changes the chain, a result or a closing event forgets what is
  gone, and a position event moves an id from `named` to `opened`, which is a stutter.
* `DeployInv`: while failures are definite, a pending call means a halted keeper, and a
  halted keeper stands at no deploying step. The delicate step is `ExtraReturns`, which may
  halt in the middle of a refresh; it goes on to the bundle only if nothing failed.

### Keeper: memory, ladders, dry runs (`KeeperProofs`)

* `ShapeInv` adds to `TypeInv` that a call under way is the one its step makes (`Asked`),
  that a deposit starts without a primary and a bundle without extras (`Alone`), that an
  emergency exit that makes calls is on record (`BailsOut`), and that a failure whose result
  was logged was counted (`Counted`).
* `MemoryInv` is `MemoryCoversChain` with `LoopCovers` (in the middle of a loop over the
  extras, an id taken off the list is gone, kept or in doubt) and `QuietCovers` (a call not
  yet answered, or refused, has opened nothing that memory lacks). It uses `LogInv` for what
  a successful call closed and for calls that land late.
* `LadderInv` follows the anchors through the handlers: the primary is at the anchor unless
  an action failed, and while an ask leg is deployed after its bid leg, or the positions of
  a refresh are announced, it is at the polled bin (`AskFollows`).
* `ChurnInv`: the reason to refresh (the bin moved by the threshold, or the ladder turns
  wide) stands from the decision to the bundle, since nothing between them polls. It needs
  that the threshold is at least one bin.
* `ShadowInv`: a keeper that is not live is at no calling step, nothing of it is pending and
  the chain is what it tracks; a restart that makes it so waited until nothing was in flight.

### ExecBridge (`ExecBridgeProofs`)

* `TypeInv` adds that the lists of calls and executors are as long as there are calls and
  executors, and that a call whose request was written has an executor.
* `SignerInv`: the only executor that runs and is not being killed is the one in use, for a
  new one is started only when `poll()` says that the last one is dead.
* `BridgeInv` carries the refinement. A request is in one place of the executor it was
  written to (`PlaceInv`); a leg is asked for, then signed, then lands (`LegsInv`); a line that
  answers a call was true when it was written and stays so, since a call that is answered or
  abandoned is quiet (`TruthInv`); so what callers were told stays true (`ToldInv`).
* The mapping: `SignedCall` sees the calls made, the legs landed and what was returned;
  timers, kills, pipes and stray lines are stutters.

### EventLog (`EventLogProofs`)

* `OrderInv`: numbers go up in the file and in the buffer, and every buffered line comes
  after those a flush will leave, through every way a write stops short, is repeated by the
  next flush or is glued to a cut line (lemmas `WrittenOrder`, `StopsShort`).
* `DamageIsSeen` follows: an altered line does not bear the hash the next one links to; a
  line lost before the last, or two that changed places, would need a number that is not
  between its neighbours'.
* `CleanInv`: while no emit has failed, the file loads, ends with a newline, nothing is in
  the buffer, and the writer goes on with the number and the hash the file ends with.
* `CompleteInv` gives `LoadedLogsHoldAll`. Tokens go up with the numbers (`Dated`), also
  between the file and the buffer, and the lines that have settled hold all that `emit()`
  returned for, unless the file can never be read back (`Covers`). The line that a later
  flush may still complete does not count, nor does the buffer: an acknowledged event that
  lay only there would be lost by a crash. The order of the events comes last: the file is
  in the order of its numbers, so the acknowledged tokens are picked in their own.

### SwapStream, StreamAudit (`SwapStreamProofs`)

`StreamInv` is one invariant, because its parts need each other:

* `TaskInv` says where the task may stand with rows in hand, and that a refill follows a gap
  event; `KnownInv` that what was consumed was read and what was read has landed.
* `OrderInv` is what makes a lost swap tellable: a swap whose line was written once comes
  after all that was read before it and after all lines before its own, in the file and in
  the batch, through rotations and torn writes. Without it `GapCoversLoss` is not
  inductive: the gap event names the last signature, and a lost swap must come after that.
* `LostInv` dates the losses, no later than the log is long. The gap event that a handler
  logs next is therefore no older than the loss; and what a refill drops was lost after the
  gap event it follows, which is the last of the log (`TaskInv`, `LossNoted`, `LossStep`).
  A read that fails loses nothing: the offset stays, or goes back to the start of a file
  all of whose rows are new (`ReadFailsStep`).
* `TradeInv` (a logged swap is in `seen`) gives `LoggedOnce`. `FillInv` gives `FilledOnce`:
  a bin that filled under this ladder is empty, later ladders have later numbers, and the
  fills of one swap are of distinct bins (`CrossedOnce`), whichever of them were logged when
  an emit raised.
* `AuditInv` carries the verifier: a fill has its trade always; while no emit has failed, a
  trade that crossed the ladder has a fill, and everything read is logged or in the batch.
* The operators that read the file are dealt with first: the rows of a read are the whole
  lines beyond the offset in their order (`RowsFromFile`, `PolledRows`), and a backfill is
  an end of them (`AfterCuts`, `BackfillRows`).

### LpRuns (`LpRunsProofs`)

* `TypeInv` adds that a list of positions to close is there only inside a loop, and that
  something was sent only while a call is under way.
* `DoubtInv`: nothing that was sent may still land, unless the experiment knows of the
  doubt, and then it only reports; the one exception is a withdrawal whose position a
  lagging read showed as absent (`Settled`), which is on chain then and charged for in
  `fees`. So a last look that reconciles, with no doubt, stays true: `SuccessLeavesNothing`.
  `NothingSentInDoubt` says the same of each request: it is about the experiment, not about
  a recovery, which an operator starts although something may still land, and it excepts
  the withdrawals that were settled.
* `OpenedInv`: what is on chain is among the opened ids, or a lagging read has hidden it; of
  the leg that is being opened nothing is there, and while the bids are deposited no other
  position is known. It gives `RemainingIsNamed`.
* `RecoveredInv` says the same of what a recovery has still to close. `RecoveredMeansGone`
  excepts what came on chain after the recovery had started (`late`) and what one of its own
  reads did not show (`missed`); a recovery has no way to exclude either.
* `LoggedInv` is the refinement: every position on chain or still to come is on disk.
* `CapInv`: while the legs are opened, the outlay is at most what those in place can have
  cost; during a shift the closes, the new deposit at the charge that the check takes for
  it, and the close of that are kept free. In the hold the closes fit but for what one
  fresh rent is beyond half of the first one (`HoldFits`), however many shifts there were:
  the check before the next shift counts what was really spent.
* `ExperimentLeadsOn` is the termination argument. A step goes on to a later phase, starts
  the next attempt, sends the request of its list's next position or shortens the list
  (`ListInv`: what is being withdrawn is on it), or spends. Only the first deposit and the
  deposit that ends a shift go back in the order of phases or start the attempts anew, and
  both spend, from an outlay that `CapInv` bounds by the cap; it needs no hypothesis on the
  cap. So nothing goes round for ever, if each call is answered and each read returns. That
  the hold ends is its deadline's doing, and a recovery's list only gets shorter.

`ClosesAlwaysFit` has a hypothesis, `OpeningFits`: two deposits and two closes are within
the cap. The preflight check, "run cap cannot fund both opening and closing"
(`tools/live_lp_experiment.py:443-444`), compares only rent and fee budget with
`MAX_SOL_PER_RUN`. By the charges of lines 40-45 the four calls count as the rent of two
positions and 12,255,680 lamports, while the fee budget is at most 10,000,000. Unless the
rent that the executor reports has token accounts in it already, a cap between the two
passes preflight, and the closes then do not fit.

### PlanCycle (`PlanCycleProofs`)

* `LaddersStraddle` rests on two lemmas, one a side: the innermost bin is on its side of the
  active bin whatever the tilt, the block below or above it has no gap, and dropping what is
  below a raw unit leaves a prefix of the asks, because prices rise with the bin. Prices are
  assumed non-decreasing.
* `HedgeStaysInBounds` needs `HedgeInv`: unless the hedge was unwound, the short is within
  the band of the last evaluation of the average. If the band has not shrunk since, a new
  average further than the band from the short lies beyond it, on the side of the inventory,
  so a trade to it goes the right way, and stops short of the inventory because the average
  does (`LeavesTowards`); the residual is then within the cap. If it has shrunk, the average
  may be left on the far side, and the residual is within the cap and the old band together,
  which the example in section 3 comes close to. The band is below the cap, as `hedge.py`
  asks.
* `DrainsAreSeen` needs `WindowInv`: the window holds only readings that did not trip, and
  all of those that are not older than `tvl_window_s`. So every peak a later reading must
  be measured by is still there, and a forgotten one no longer counts.
* `QuotesKnowPrices` needs `BarsInv`: every bar of the store has the price of the last trade
  before its close in both legs, and opens ascend, through fetches that fill gaps, cross two
  legs, fail or come in part. A trade that falls in a minute already closed cannot
  happen, so a bar that was true stays true. `GateInv` remembers that a plan which quotes
  passed the gate on the bars it still has. `TypesHold` rests on the same facts; it also
  needs that an empty inventory is a holding (`RiskAssumption`), for the hedge starts there.
  That no minute is missing between two bars is not claimed.

### Rerun and ActionAudit (`RerunProofs`)

The exactness of the alarms needs to know what a log may look like at any moment of a run:
`AuditInv`, which has four parts.

* `Shape`: what a keeper is at each of its calls. A bid or ask leg is of a deposit and has a
  bin to go to, a bundle and a withdrawal have a primary, a loop over the extras has one to
  withdraw. Without it the events a call leads to would have no ids to name. Every routine
  keeps it (`Goes`, one lemma for each of them), and makes one call with the next number or
  none.
* `Numbered`: the requests of the log bear the numbers 1 to `k.reqs`, each once; a result is
  of a request, of the same verb, and the only one; the requests without a result are
  those whose call raised or was cut (`lost`) and the one that is under way (`Awaited`).
  A request that was lost is never answered later, because the next one has a new number.
* `Originates`: what an event observes, withdraws or closes is, at that place of the log,
  configured or opened. It needs that whatever the keeper holds, on its lists and in the
  middle of its loops, is so (`Held`).
* The places of the two anchors.

`ReadyQuiet`, `NumberedRequest` and `NumberedResult` say what is kept when the log grows; a
step of the run is one or two of them and `ComesInv`. The extra positions a keeper was
configured with are the one alarm without a cause in the log, and the theorem says that
there is no other.

`ReplaysAgree` compares two runs of one program, and the second begins when the first is
over. What the first leaves for it is a `Trail`: while no cause of a divergence has occurred,
there is a set of marks, each a keeper the run has been and how many events of each type
the log had then.

* The first mark is the keeper as configured, the last is now, and from every other a `Step`
  leads on: a cycle or an answered call, with its inputs at their places in the log
  (`CycleStep`, `AnswerStep`) and the request or decision it came to (`Asks`). The log only
  grows, so a step that was in it stays in it (`StepStays`); a step of the run adds one mark
  (`CyclesAgree`, `ReturnAgrees`) or none (`StopAgrees`, `CrashAgrees`, and `CleanStopAgrees`
  when there is nothing to withdraw). A cause, once it has occurred, ends the claim.
* The replay is always at a mark (`Reached`): its keeper is the mark's, it has taken as many
  inputs as the log had there, and what it has logged is what the log had. `DriveSteps` and
  `ReplySteps` show that it goes where the trail goes; the second needs `Numbered`, by which
  the recorded answer to a request is the one the call got (`AnswerIs`).
* A replay with as many cycles as the log has decisions is at the last mark (`AtLast`): any
  other has a cycle after it, or a call that is still to be answered, and then a decision
  is still to come. At the last mark, all requests and decisions have been made again.

The first part needs lemmas on the events of one type in a log: what an event adds to them,
what leaves them alone (`OnlyOne`, `OnlyWithout`, `Adds`).

`ReplaysKnowPositions` speaks of runs with causes too, in which the replay may leave the
trail and come back to it. Neither keeper can then be said to be the other's past; what
they have in common is weaker, and so is what the run leaves for the replay.

* A `Path` keeps the marks and drops the inputs: from every mark but the last a `Walk` leads
  on, which is the beginning of some cycle by a keeper that holds the same, or any answer to
  the call. What a call raised, a read that failed and a reply in doubt do to the keeper
  between two marks stays off it. Of its marks it also says that the act of a call is that of
  the decision it leads to (`Decides`), that no second leg is asked for by a new cycle
  (`NoAskNext`), and that only a soak that stops makes a call in no cycle (`Accounted`). A
  run no call of which was lost is at the end of its path (`Current`), or has left it by the
  first withdrawal of its stop (`Over`); `Begin` refuses every other run.
* Two keepers are `Alike` if they hold the same and are at the same call of the same loop, or
  both have nothing left but a swap: whether there is base to swap is read in a cycle, and
  the replay may have another reading. A cycle begun with the same act, from the same
  positions, leads to keepers alike (`BegunAlike`), and so does the same answer to the same
  call (`AnsweredAlike`), but for a bid leg: an outcome in doubt halts the run there, and the
  replay, which is not told of the doubt, goes on to the ask leg.
* So a replay is `Kept`, at the same call as a mark or between two cycles as a mark is, with
  nothing but swaps between their requests (`Gap`), or it is `Doomed`: it has decided what
  the log has not, is in a call of such a cycle, asks for what the log does not have next, or
  has left out an ask leg that is next. What is doomed stays so (`DriveDoomed`,
  `ReplyDoomed`): an ask leg is asked for only after its bid leg, in no new cycle. What is
  kept stays kept or is doomed (`DriveKept`, `ReplyCall`, `ReplySwap`).
* With all decisions and requests equal, a replay is not doomed, and is between two cycles
  where the path ends (`EndsAlike`). If the run had left its path by a withdrawal, that
  would be a request between the two which is no swap.

### Only model-checked

Liveness: `SentinelHalts`, `CycleEnds`, `RefusalsHalt`, `CallsReturn`, `NoPipeDeadlock` (the
prover has no `ENABLED`). Every invariant and every action property of the passing runs is
proved.

## 5. Not modelled, and why

The status of every part is in `PROJECT.json`. Backtesting, PnL attribution, calibration and
pool screening are floating-point reports over finished data: they hold no state that
interleaves with anything. The read-only and ping-pong soaks drive what is modelled already
in a smaller mode, or swap fixed amounts in a loop. Configuration and clock are constants.
`FakeExecBridge` is a test double.

Inside the modelled parts, these are left out: token amounts in the wallet (so the emergency
swap of a balance polled before the withdrawal stays a hazard without a property); sizes
within a side of a ladder and the arithmetic of the grid; receipts and fees, in the keeper's
events and in the verifier's checks of them; decoded transactions that `verify_log.py` can
compare with; the oracle's bars and the position reads in a replay; a resumed keeper log,
whose request numbers would start again (no tool resumes one). `Rerun` merges the emits of
one step, so a crash falls between steps and not between two events of one.

## 6. Checking it

    tlc -workers 2 -config MCKeeper_quote.cfg MCKeeper     # and the other .cfg files
    tlapm KeeperProofs.tla        # ExecBridgeProofs, EventLogProofs, LpRunsProofs,
                                  # PlanCycleProofs, SwapStreamProofs, RerunProofs,
                                  # OrderedProofs

The largest runs (`quote` with fifteen million states, `swaps` with five) and those with
liveness or a refinement (`soak`, `lp`) take one to three minutes; the eight proof modules
together take about fifteen.

## 7. Order of the plan

1. `Keeper`, `PositionLedger`, `KeeperProofs` – done.
2. `ExecBridge` against `SignedCall`, `EventLog`, and their proofs – done.
3. `LpChain`, `LpExperiment`, `RecoverLp`, `LpRuns`, `LpRunsProofs` – done.
4. `SwapStream`, `StreamAudit`, `SwapStreamProofs` – done.
5. `Oracle`, `Ladder`, `HedgeController`, `PlanCycle`, `PlanCycleProofs` – done.
6. `KeeperProgram`, `Rerun`, `ActionAudit`, `RerunProofs` – done.
7. A wallet with amounts for the emergency swap – open.
