------------------------------- MODULE LpRuns -------------------------------
(***************************************************************************)
(* An experiment, and the recoveries an operator runs after it with        *)
(* addresses from its durable log.  The two tools share the wallet.        *)
(***************************************************************************)
EXTENDS LpExperiment

CONSTANT MaxRecoveries      \* bound: recoveries after an experiment

ASSUME MaxRecoveriesAssumption == MaxRecoveries \in Nat

VARIABLES rphase, candidates, remaining, doubtful, rerror, rcall,
    named,      \* the addresses the operator names
    late,       \* history: positions opened late, since a recovery started
    recoveries

R == INSTANCE RecoverLp

recovery == <<rphase, candidates, remaining, doubtful, rerror, rcall>>
history == <<named, late, recoveries>>
allVars == <<vars, recovery, history>>

RunsInit ==
    /\ Init
    /\ R!RInit
    /\ named = {} /\ late = {} /\ recoveries = 0

RunExperiment == Program /\ UNCHANGED <<recovery, history>>

Environment == (Crash \/ TimeUp) /\ UNCHANGED <<recovery, history>>

Landing ==
    /\ Chain
    /\ late' = IF rphase = "idle" THEN late ELSE late \cup (chain' \ chain)
    /\ UNCHANGED <<recovery, named, recoveries>>

\* The tools are never run at the same time.
StartRecovery ==
    /\ phase \in {"done", "dead"} /\ rphase \in {"idle", "done"}
    /\ recoveries < MaxRecoveries
    /\ recoveries' = recoveries + 1
    /\ \E ids \in SUBSET logged \ {{}} : named' = ids /\ R!Start(ids)
    /\ Gone
    /\ late' = {}

Recover ==
    /\ R!Recovery
    /\ UNCHANGED <<run, logged, stop, history>>

\* The recovery tool is killed.
RecoveryCrash ==
    /\ rphase \in {"verify", "withdraw"}
    /\ IF rcall # NoCall
       THEN \E fate \in {"lands", "later", "nothing"} : Meets(rcall, fate)
       ELSE UNCHANGED <<chain, pending, stale>>
    /\ R!Dead
    /\ UNCHANGED <<missed, run,
                   logged, stop, history>>

RunsNext ==
    \/ RunExperiment \/ Environment \/ Landing
    \/ StartRecovery \/ Recover \/ RecoveryCrash

RunsSpec == RunsInit /\ [][RunsNext]_allVars

-----------------------------------------------------------------------------
(* Properties.                                                             *)

\* Every variable keeps to its range.
TypeOK ==
    /\ WorldTypeOK
    /\ phase \in {"preflight", "open", "sent", "hold", "closing", "redeposit",
                  "cleanup", "done", "dead"}
    /\ routine \in {"open", "shift", "cleanup"}
    /\ call \in Call \cup {NoCall} /\ rcall \in Call \cup {NoCall}
    /\ side \in Sides /\ attempt \in 1 .. Attempts /\ leg \subseteq Pid
    /\ ranges \subseteq Proposed /\ todo \subseteq opened /\ opened \subseteq Proposed
    /\ planned \subseteq Pid /\ logged \subseteq Pid
    /\ {live, passed, unknown, complete, failed, stop} \subseteq BOOLEAN
    /\ {doubtful, rerror} \subseteq BOOLEAN
    /\ outlay \in Nat /\ fees \subseteq Pid
    /\ rphase \in {"idle", "verify", "withdraw", "done"}
    /\ candidates \subseteq remaining /\ remaining \subseteq named
    /\ named \subseteq logged

\* A live experiment that exits 0 leaves no position, and nothing of it will
\* appear later, whatever was refused, timed out or was read too early: where
\* a lagging read made it forget a position, the balance does not add up.
SuccessLeavesNothing ==
    phase = "done" /\ live /\ Succeeded => chain = {} /\ pending = {}

\* The experiment sends no write while an earlier one of it may still land: what
\* an answer leaves open stops all writes (live_lp_experiment.py, the module's
\* text).  The one exception is a withdrawal whose position a lagging read
\* showed as absent, by which the cleanup takes it for settled.
NothingSentInDoubt ==
    [][call' # call /\ call' # NoCall =>
         \A c \in pending : c.verb = "withdraw" /\ c.pid \in missed]_allVars

\* What the report of a finished run does not name as remaining is not there,
\* but for a position that a lagging read hid from the cleanup.
RemainingIsNamed ==
    phase = "done" /\ passed => chain \subseteq opened \cup missed

\* In the hold, what was opened can still be withdrawn under the executor's cap,
\* however many shifts and failed closes there were, but for what one deposit
\* costs beyond the half of the first inspection it is taken to cost.
ClosesFitRunCap ==
    phase = "hold" =>
        \E rent \in LegRents \cup {Rent \div 2} :
            outlay + Cardinality(opened) * WithdrawCharge
                <= RunCap + (rent - (Rent \div 2))

\* A recovery that reports a complete cleanup left none of the positions it was
\* given, but for those that came after it had started or that one of its own
\* reads did not show.
RecoveredMeansGone ==
    rphase = "done" /\ R!CleanupComplete => chain \cap named \subseteq late \cup missed

\* Whatever dies when, the durable log leads to every position: the tools keep
\* the promise of PositionLedger.
Ledger == INSTANCE PositionLedger WITH
    Id <- Pid, accounted <- IF logged = {} THEN chain ELSE logged
LedgerSpec == Ledger!Spec

\* The order of the phases, by which a run that spends nothing goes on.
Calling(who, verb) == phase = "sent" /\ routine = who /\ call.verb = verb
Stage ==
    CASE phase = "preflight" -> 6
      [] phase = "open" \/ Calling("open", "deposit") -> 5
      [] phase = "hold" -> 4
      [] phase = "closing" \/ Calling("shift", "withdraw") -> 3
      [] phase = "redeposit" \/ Calling("shift", "deposit") -> 2
      [] phase = "cleanup" \/ Calling("cleanup", "withdraw") -> 1
      [] OTHER -> 0

\* Less is left to do for a loop over ps: a request of it is sent, or a position
\* is done with.
Shorter(ps, sent) ==
    \/ ps' = ps /\ sent' /\ ~sent
    \/ ps' \subseteq ps /\ ps' # ps

\* The run goes on to a later phase, starts the next of a bounded number of
\* attempts, gets on with its list, or spends lamports, which it stops doing
\* once they are more than the cap and the charge of a deposit.
LeadsOn ==
    \/ Stage' < Stage
    \/ Stage' = Stage /\ attempt' > attempt
    \/ Stage' = Stage /\ attempt' = attempt /\ Shorter(todo, phase = "sent")
    \/ Stage > 1 /\ Stage' > 1 /\ outlay' > outlay
         /\ outlay <= RunCap + DepositCharge

\* Each step of an experiment that is not killed brings it nearer to its end,
\* through drifts, retries, shifts and cleanups (the loops of run_experiment).
EveryStepLeadsOn == [][run' # run /\ phase' # "dead" => LeadsOn]_allVars
=============================================================================
