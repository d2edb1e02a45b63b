------------------------------- MODULE Keeper -------------------------------
(***************************************************************************)
(* The DLMM keeper (src/src/dlmm_bot/keeper.py): one process that polls    *)
(* the pool, decides, and quotes by opening and closing liquidity          *)
(* positions through the executor bridge.                                  *)
(*                                                                         *)
(* Every signed call takes several keeper steps, with the executor between *)
(* them: the request is logged and sent; its result is counted and logged  *)
(* (_emit_result); then the branch on result.ok updates what the keeper    *)
(* remembers and logs a position event, a refresh one for each position.   *)
(* The process may crash between any two of them, the reply may be lost    *)
(* while the transaction still lands, and the call itself may raise.       *)
(*                                                                         *)
(* What the keeper decides (risk policy, regime gate, ladder sizes, hedge  *)
(* target) is a free choice here; what it then DOES is the code.           *)
(***************************************************************************)
EXTENDS Integers, FiniteSets

CONSTANTS
    Bins,            \* active bins the pool may be polled at
    DriftThreshold,  \* KeeperConfig.drift_threshold_bins
    MaxFailures,     \* MAX_ACTION_FAILURES
    MaxShort,        \* largest hedge target, in lots
    Modes,           \* of "live", "dry" (dry_run), "observe" (observation_only)
    Soak,            \* TRUE: driven by run_soak; FALSE: by Keeper.run
    Hedged,          \* cfg.hedge_config enabled and pair_type EXOTIC
    SentinelPath,    \* cfg.sentinel_path is set
    PendingErrors,   \* the executor may answer ok = false, signature pending
    SequentialLegs,  \* a refresh confirms leg by leg (JITO_ENABLED=false)
    Widths,          \* FALSE: ladders of QUOTE; TRUE: of WIDEN
    Balances,        \* base balances polled, by the thresholds compared with:
                     \* "large" is above 0.01 (de-risk), "small" above 0.001
                     \* (emergency only), "dust" below both
    MaxFaults,       \* bound: raising calls, lost replies and pending errors
                     \* in the life of a process
    MaxLive,         \* bound: the wallet funds at most this many positions
    NoPos            \* None

\* Bin ids are integers and 0 is one of them, the value _active_bin starts with.
ASSUME BinsAssumption == Bins \subseteq Int /\ 0 \in Bins
ASSUME DriftAssumption == DriftThreshold \in Nat \ {0}
ASSUME FailuresAssumption == MaxFailures \in Nat \ {0}
ASSUME ShortAssumption == MaxShort \in Nat
ASSUME ModeAssumption == Modes \subseteq {"live", "dry", "observe"}
ASSUME FlagAssumption ==
    /\ Soak \in BOOLEAN /\ Hedged \in BOOLEAN
    /\ SentinelPath \in BOOLEAN /\ PendingErrors \in BOOLEAN
    /\ SequentialLegs \in BOOLEAN
ASSUME WidthsAssumption == Widths \subseteq BOOLEAN /\ FALSE \in Widths
ASSUME BalancesAssumption ==
    Balances \subseteq {"dust", "small", "large"} /\ "dust" \in Balances
ASSUME MaxLiveAssumption == MaxLive \in Nat
ASSUME MaxFaultsAssumption == MaxFaults \in Nat

\* A position account: its address is derived from the side and the range,
\* and the range follows from the active bin and the width of the ladder.
Pid == [side : {"bid", "ask"}, bin : Bins, wide : Widths]
Position(s, b, w) == [side |-> s, bin |-> b, wide |-> w]

ASSUME NoPosAssumption == NoPos \notin Pid

\* What a signed call does on chain if it lands.
Request == [closes : SUBSET Pid, opens : SUBSET Pid]
NoReq == [closes |-> {}, opens |-> {}]
Plan == [sides : SUBSET {"bid", "ask"}, wide : Widths]
NoPlan == [sides |-> {}, wide |-> FALSE]

VARIABLES
    (***********************************************************************)
    (* The keeper process                                                  *)
    (***********************************************************************)
    pc,              \* the step the process is at
    routine,         \* why it is there: which handler is running
    req, reply,      \* the signed call being made and what came back
    plan,            \* the ladder of this cycle (CyclePlan.ladder, decision)
    todo, kept,      \* locals of _withdraw_extra_positions
    primary,         \* _current_position_id
    extras,          \* _extra_position_ids (its order plays no role)
    activeBin,       \* _active_bin
    centerBin,       \* _center_bin
    deployedWidened, \* _deployed_widened
    inventoryBase,   \* _inventory_base
    hedgeShort,      \* _hedge_short
    halted,          \* _halted
    failures,        \* _action_failures, saturating at MaxFailures
    mode,            \* how the process is configured to act
    (***********************************************************************)
    (* The world                                                           *)
    (***********************************************************************)
    live,            \* positions open on chain
    pending,         \* calls whose outcome was lost and that may still land
    sentinel,        \* the file tvl_monitor writes
    perp,            \* the short the hedging service was last told to hold
    (***********************************************************************)
    (* What the event log says, and history                                *)
    (***********************************************************************)
    opened,          \* positions the log's position_* events leave open
    named,           \* positions that ok results in the log name and that no
                     \* position event has followed up yet
    suspect,         \* positions of logged requests with no definite result
    bailed,          \* an emergency exit started in this process
    faults           \* how many of those this process has met

calls == <<req, reply>>
loop == <<todo, kept>>
positions == <<primary, extras>>
anchors == <<centerBin, deployedWidened>>
polled == <<activeBin, inventoryBase>>
hedge == <<hedgeShort, perp>>
health == <<halted, failures>>
log == <<opened, named, suspect>>
vars == <<pc, routine, calls, plan, loop, positions, anchors, polled, hedge,
          health, live, pending, sentinel, log, mode, bailed, faults>>

\* What a call comes back with: done; not done; done in part; ok = false
\* although the transaction may still land; unknown_outcome from the bridge.
Failures == {"refused", "partial", "pending", "unknown"}
Answers == Failures \cup {"ok"}
\* What is left of an answer once its result is logged: result.ok.
Results == {"done", "failed"}

DeployPcs == {"bid", "ask", "bundle"}
CallPcs == DeployPcs \cup {"withdraw", "extras", "swap"}
DownPcs == {"exited", "crashed"}
Pcs == CallPcs \cup DownPcs
         \cup {"rest", "polled", "announce", "hedge", "close"}
EmergencyRoutines == {"emergency", "sentinel"}
StopRoutines == {"stop", "cleanstop"}
Routines == EmergencyRoutines \cup StopRoutines
              \cup {"none", "quote", "derisk"}

\* What the call under way may open, until its result is in the log.
InFlight == IF reply \in Results THEN {} ELSE req.opens
\* What it may open, until its handler has dealt with the result.
Unadopted == IF reply = "failed" THEN {} ELSE req.opens

Tracked == extras \cup (IF primary = NoPos THEN {} ELSE {primary})

TypeOK ==
    /\ pc \in Pcs
    /\ routine \in Routines
    /\ req \in Request
    /\ reply \in {"idle", "wait"} \cup Answers \cup Results
    /\ plan \in Plan
    /\ todo \subseteq Pid /\ kept \subseteq Pid
    /\ primary \in Pid \cup {NoPos}
    /\ extras \subseteq Pid
    /\ activeBin \in Bins /\ centerBin \in Bins
    /\ deployedWidened \in Widths
    /\ inventoryBase \in Balances
    /\ hedgeShort \in 0 .. MaxShort /\ perp \in 0 .. MaxShort
    /\ halted \in BOOLEAN
    /\ failures \in 0 .. MaxFailures
    /\ mode \in Modes
    /\ live \subseteq Pid
    /\ pending \subseteq Request
    /\ sentinel \in BOOLEAN
    /\ opened \subseteq Pid /\ named \subseteq Pid /\ suspect \subseteq Pid
    /\ bailed \in BOOLEAN
    /\ faults \in 0 .. MaxFaults

-----------------------------------------------------------------------------
(* Starting up                                                             *)

\* Keeper.__init__ with a fresh wallet, or resuming one position given by
\* cfg.position_id.
Init ==
    /\ pc = "rest" /\ routine = "none"
    /\ req = NoReq /\ reply = "idle"
    /\ plan = NoPlan /\ todo = {} /\ kept = {}
    /\ primary \in Pid \cup {NoPos} /\ extras = {}
    /\ activeBin = 0 /\ centerBin = 0 /\ deployedWidened = FALSE
    /\ inventoryBase = "dust"
    /\ hedgeShort = 0 /\ perp = 0
    /\ halted = FALSE /\ failures = 0 /\ mode \in Modes
    /\ live = Tracked
    /\ pending = {} /\ sentinel = FALSE
    /\ opened = live /\ named = {} /\ suspect = {}
    /\ bailed = FALSE /\ faults = 0

-----------------------------------------------------------------------------
(* The end of a cycle and of its routines                                  *)

\* Keeper.run leaves its loop once halted; run_soak goes on cycling, and
\* ends after its clean-stop withdrawal.
EndPc(h) ==
    IF routine = "cleanstop" \/ (h /\ ~Soak) THEN "exited" ELSE "rest"

Finish(h) == pc' = EndPc(h) /\ routine' = "none" /\ plan' = NoPlan

\* Go on with the same routine.
Proceed(p) == pc' = p /\ UNCHANGED <<routine, plan>>

\* _unwind_hedge: only a short this process remembers is closed.
UnwindHedge ==
    /\ hedgeShort' = 0
    /\ perp' = IF hedgeShort = 0 THEN perp ELSE 0

\* What follows the withdrawals of _stop_quoting, _de_risk, _emergency_exit.
AfterWithdrawals(h) ==
    \/ /\ routine \in StopRoutines
       /\ Finish(h)
    \/ /\ routine = "derisk"
       /\ IF inventoryBase = "large" THEN Proceed("swap") ELSE Finish(h)
    \/ /\ routine \in EmergencyRoutines
       /\ Proceed(IF inventoryBase = "dust" THEN "close" ELSE "swap")

-----------------------------------------------------------------------------
(* Polling and deciding                                                    *)

\* A good get_state: the state is stored and every tracked position read.
\* (A failed or malformed one records STOP_QUOTING and changes nothing.)
Poll ==
    /\ pc = "rest" /\ ~halted /\ ~sentinel
    /\ \E b \in Bins, q \in Balances : activeBin' = b /\ inventoryBase' = q
    /\ pc' = IF mode = "observe" THEN "rest" ELSE "polled"
    /\ kept' = {}
    /\ UNCHANGED <<routine, calls, plan, todo, positions, anchors, hedge,
                   health, live, pending, sentinel, log, mode, bailed, faults>>

\* Where _emergency_exit starts in live mode: the primary, then the base.
ExitPc == IF primary # NoPos THEN "withdraw"
          ELSE IF inventoryBase = "dust" THEN "close" ELSE "swap"
ExitAnyway == ExitPc                         \* a mutant
ShadowExit == "close"

\* Entry of _emergency_exit, for routine r.  A dry run only halts.
StartEmergency(r) ==
    /\ routine' = r
    /\ pc' = IF mode = "live" THEN ExitPc ELSE ShadowExit
    /\ bailed' = (bailed \/ mode = "live")
    /\ UNCHANGED <<calls, plan, loop, positions, anchors, polled, hedge,
                   health, mode, live, pending, sentinel, log, faults>>

\* The sentinel file is checked before anything else, unless halted.
SentinelKillWithPosition ==                  \* a mutant
    /\ pc = "rest" /\ ~halted /\ sentinel /\ primary # NoPos
    /\ StartEmergency("sentinel")
SentinelKill == pc = "rest" /\ ~halted /\ sentinel /\ StartEmergency("sentinel")

\* rug_kill_switch, or Decision.EMERGENCY_EXIT.
DecideEmergency == pc = "polled" /\ StartEmergency("emergency")

\* _stop_quoting does nothing unless there is a primary position.
DecideStop ==
    /\ pc = "polled"
    /\ IF mode = "live" /\ primary # NoPos
       THEN pc' = "withdraw" /\ routine' = "stop" /\ UNCHANGED plan
       ELSE Finish(halted)
    /\ UNCHANGED <<calls, loop, positions, anchors, polled, hedge, health,
                   live, pending, sentinel, log, mode, bailed, faults>>

\* inventory_cap, or Decision.DE_RISK.
DecideDeRisk ==
    /\ pc = "polled"
    /\ IF mode = "live" /\ (primary # NoPos \/ inventoryBase = "large")
       THEN /\ pc' = IF primary # NoPos THEN "withdraw" ELSE "swap"
            /\ routine' = "derisk" /\ UNCHANGED plan
       ELSE Finish(halted)
    /\ UNCHANGED <<calls, loop, positions, anchors, polled, hedge, health,
                   live, pending, sentinel, log, mode, bailed, faults>>

DecideHold ==
    /\ pc = "polled"
    /\ Finish(halted)
    /\ UNCHANGED <<calls, loop, positions, anchors, polled, hedge, health,
                   live, pending, sentinel, log, mode, bailed, faults>>

Distance(a, b) == IF a < b THEN b - a ELSE a - b
Drift == IF centerBin = 0 THEN 0 ELSE Distance(activeBin, centerBin)

DriftedStrictly == Drift > DriftThreshold    \* a mutant
Drifted == Drift >= DriftThreshold

WidenAgain(p) == p.wide                      \* a mutant
NewlyWidened(p) == p.wide /\ ~deployedWidened

\* QUOTE and WIDEN: p.wide says which.  No position: deposit; drifted, or
\* newly widened: refresh, extras first; otherwise keep the ladder.  A side may
\* be empty after quantizing; not both, as the shares of the capital that
\* build_ladder gives them add up to one.
DecideQuote ==
    /\ pc = "polled"
    /\ routine' = "quote"
    /\ \E p \in Plan :
        /\ p.sides # {}
        /\ plan' = p
        /\ \/ /\ mode = "live" /\ primary = NoPos
              /\ pc' = IF "bid" \in p.sides THEN "bid" ELSE "ask"
              /\ UNCHANGED loop
           \/ /\ mode = "live" /\ primary # NoPos
              /\ Drifted \/ NewlyWidened(p)
              /\ pc' = IF extras = {} THEN "bundle" ELSE "extras"
              /\ todo' = extras /\ kept' = {}
           \/ /\ \/ mode # "live"
                 \/ primary # NoPos /\ ~Drifted /\ ~NewlyWidened(p)
              /\ pc' = "hedge"
              /\ UNCHANGED loop
    /\ UNCHANGED <<calls, positions, anchors, polled, hedge, health, live,
                   pending, sentinel, log, mode, bailed, faults>>

\* Hedge evaluation closes every QUOTE/WIDEN cycle, also a dry run's.
HedgeStep ==
    /\ pc = "hedge"
    /\ \/ UNCHANGED hedge
       \/ /\ Hedged
          /\ \E target \in 0 .. MaxShort :
                hedgeShort' = target /\ perp' = target
    /\ Finish(halted)
    /\ UNCHANGED <<calls, loop, positions, anchors, polled, health, live,
                   pending, sentinel, log, mode, bailed, faults>>

-----------------------------------------------------------------------------
(* Signed calls                                                            *)

\* The positions the current ladder occupies, by side.
Opens(sides) == {Position(s, activeBin, plan.wide) : s \in sides}

\* The call made at the current step: deposit_single_sided, refresh_bundle,
\* withdraw, or swap, which moves no position.
NextRequests ==
    CASE pc \in {"bid", "ask"} -> {[closes |-> {}, opens |-> Opens({pc})]}
      [] pc = "bundle" -> {[closes |-> {primary}, opens |-> Opens(plan.sides)]}
      [] pc = "withdraw" -> {[closes |-> {primary}, opens |-> {}]}
      [] pc = "extras" -> {[closes |-> {p}, opens |-> {}] : p \in todo}
      [] OTHER -> {NoReq}

\* _emit_action, then the bridge is called.
Send ==
    /\ pc \in CallPcs /\ reply = "idle"
    /\ req' \in NextRequests
    /\ reply' = "wait"
    /\ UNCHANGED <<pc, routine, plan, loop, positions, anchors, polled, hedge,
                   health, live, pending, sentinel, log, mode, bailed, faults>>

Succeeded == reply = "ok"
Failed == reply \in Failures
DecayedFailures ==                                            \* a mutant
    IF Succeeded THEN failures - 1
    ELSE IF failures < MaxFailures THEN failures + 1 ELSE failures
NextFailures ==
    IF Succeeded THEN 0
    ELSE IF failures < MaxFailures THEN failures + 1 ELSE failures
HaltedOnUnknown == halted \/ reply = "unknown"                \* a mutant
HaltedOnRefusals == halted \/ (Failed /\ NextFailures = MaxFailures) \* a mutant
\* Only unknown_outcome halts at once; any other failure is counted.
NextHalted ==
    halted \/ reply = "unknown" \/ (Failed /\ NextFailures = MaxFailures)

NoDoubt == suspect                                            \* a mutant
NextSuspect ==
    suspect \cup IF reply \in {"partial", "pending", "unknown"} THEN req.opens ELSE {}

\* _emit_result: the outcome is counted, then action_result is logged with the
\* ids the executor names (a successful deposit or refresh names what it
\* opened), then a cash_flow.  What the handler does with it comes after.
EmitResult ==
    /\ Succeeded \/ Failed
    /\ failures' = NextFailures
    /\ halted' = NextHalted
    /\ named' = named \cup (IF Succeeded THEN req.opens ELSE {})
    /\ suspect' = NextSuspect
    /\ reply' = IF Succeeded THEN "done" ELSE "failed"
    /\ UNCHANGED <<pc, routine, req, plan, loop, positions, anchors, polled,
                   hedge, live, pending, sentinel, opened, mode, bailed, faults>>

Done == reply = "done"
Ended == reply \in Results

\* The call is over: what is left of it is what its handler wrote down.
EndCall ==
    /\ Ended
    /\ reply' = "idle" /\ req' = NoReq
    /\ UNCHANGED <<polled, health, live, pending, sentinel, suspect, mode,
                   bailed, faults>>

\* position_created, position_liquidity_added: the log leads to ids.
LogOpened(ids) == opened' = opened \cup ids /\ named' = named \ ids

ClosedAnyway == req.closes                                    \* a mutant
ClosedNow == IF Done THEN req.closes ELSE {}
\* position_withdrawn, position_closed: after a success only.
LogClosed == opened' = opened \ ClosedNow /\ UNCHANGED named

\* _deposit_ladder, bid leg: anchors are set here; the ask leg follows
\* unless the keeper has just halted.
BidReturns ==
    /\ pc = "bid"
    /\ EndCall
    /\ IF Done
       THEN /\ primary' = Position("bid", activeBin, plan.wide)
            /\ centerBin' = activeBin /\ deployedWidened' = plan.wide
            /\ LogOpened(req.opens)
       ELSE UNCHANGED <<primary, anchors, opened, named>>
    /\ Proceed(IF "ask" \in plan.sides /\ ~halted THEN "ask" ELSE "hedge")
    /\ UNCHANGED <<loop, extras, hedge>>

\* Ask leg: the new position joins the extras.
AskReturns ==
    /\ pc = "ask"
    /\ EndCall
    /\ IF Done
       THEN extras' = extras \cup (req.opens \ {primary}) /\ LogOpened(req.opens)
       ELSE UNCHANGED <<extras, opened, named>>
    /\ Proceed("hedge")
    /\ UNCHANGED <<loop, primary, anchors, hedge>>

PrimaryChoices == req.opens

\* _refresh_ladder after its bundle: _adopt_opened_positions takes one of the
\* opened positions as primary and the others as extras, and the old primary
\* is logged as withdrawn.
BundleReturns ==
    /\ pc = "bundle"
    /\ EndCall
    /\ LogClosed
    /\ IF Done
       THEN /\ primary' \in PrimaryChoices
            /\ extras' = req.opens \ {primary'}
            /\ centerBin' = activeBin /\ deployedWidened' = plan.wide
            /\ todo' = req.opens
            /\ Proceed("announce")
       ELSE /\ Proceed("hedge")
            /\ UNCHANGED <<positions, anchors, todo>>
    /\ UNCHANGED <<kept, hedge>>

\* The rest of _refresh_ladder: one event for each new position, the primary's
\* first.
AnnounceNext ==
    /\ pc = "announce"
    /\ \E p \in IF primary \in todo THEN {primary} ELSE todo :
        LogOpened({p}) /\ todo' = todo \ {p}
    /\ Proceed(IF todo' = {} THEN "hedge" ELSE "announce")
    /\ UNCHANGED <<calls, kept, positions, anchors, polled, hedge, health, live,
                   pending, sentinel, suspect, mode, bailed, faults>>

\* Withdrawal of the primary.  An emergency forgets it whatever the reply;
\* the others keep it, and give up, when the withdrawal failed.
WithdrawReturns ==
    /\ pc = "withdraw"
    /\ EndCall
    /\ LogClosed
    /\ \/ /\ Done \/ routine \in EmergencyRoutines
          /\ primary' = NoPos
          /\ todo' = extras /\ kept' = {}
          /\ IF extras = {} THEN AfterWithdrawals(halted)
             ELSE Proceed("extras")
       \/ /\ ~Done /\ routine \notin EmergencyRoutines
          /\ Finish(halted)
          /\ UNCHANGED <<loop, primary>>
    /\ UNCHANGED <<extras, anchors, hedge>>

HandledIfClosed == IF Done THEN req.closes ELSE {}       \* a mutant
Handled == req.closes
ForgetFailed == kept                                          \* a mutant
NextKept == IF Done THEN kept ELSE kept \cup req.closes

\* One turn of _withdraw_extra_positions.  The list is replaced by what could
\* not be withdrawn only after the last turn.
ExtraReturns ==
    /\ pc = "extras"
    /\ EndCall
    /\ LogClosed
    /\ todo' = todo \ Handled
    /\ kept' = NextKept
    /\ \/ /\ todo' # {}
          /\ Proceed("extras")
          /\ UNCHANGED extras
       \/ /\ todo' = {}
          /\ extras' = kept'
          /\ \/ /\ routine = "quote"
                /\ Proceed(IF kept' = {} THEN "bundle" ELSE "hedge")
             \/ AfterWithdrawals(halted)
    /\ UNCHANGED <<primary, anchors, hedge>>

\* The swap of the base remainder; de-risk closes the hedge if it went well.
SwapReturns ==
    /\ pc = "swap"
    /\ EndCall
    /\ \/ /\ routine = "derisk"
          /\ IF Done THEN UnwindHedge ELSE UNCHANGED hedge
          /\ Finish(halted)
       \/ /\ routine \in EmergencyRoutines
          /\ UNCHANGED hedge
          /\ Proceed("close")
    /\ UNCHANGED <<loop, positions, anchors, opened, named>>

\* The end of _emergency_exit: unwind, halt, and clear the sentinel if it
\* was the cause.  A dry run only halts.
CloseEmergency ==
    /\ pc = "close"
    /\ IF mode = "live" THEN UnwindHedge ELSE UNCHANGED hedge
    /\ halted' = TRUE
    /\ sentinel' = (sentinel /\ routine # "sentinel")
    /\ Finish(TRUE)
    /\ UNCHANGED <<calls, loop, positions, anchors, polled, failures, live,
                   pending, log, mode, bailed, faults>>

\* The call raises (the executor's pipe is broken) before the executor has
\* the request: the cycle ends, nothing is counted, the log keeps a request
\* without a result.
Raise ==
    /\ reply = "wait"
    /\ faults < MaxFaults /\ faults' = faults + 1
    /\ suspect' = suspect \cup req.opens
    /\ req' = NoReq /\ reply' = "idle"
    /\ Finish(halted)
    /\ todo' = {}
    /\ UNCHANGED <<kept, positions, anchors, polled, hedge, health, live, pending,
                   sentinel, opened, named, mode, bailed>>

-----------------------------------------------------------------------------
(* Stopping, crashing, restarting                                          *)

\* Keeper.stop, or the end of run_soak, which first withdraws if it tracks
\* any position.
Stop ==
    /\ pc = "rest"
    /\ IF Soak /\ mode = "live" /\ primary # NoPos
       THEN pc' = "withdraw" /\ routine' = "cleanstop"
       ELSE pc' = "exited" /\ UNCHANGED routine
    /\ UNCHANGED <<calls, plan, loop, positions, anchors, polled, hedge, health,
                   live, pending, sentinel, log, mode, bailed, faults>>

\* The process dies at any step.  The log is all it leaves, and a call that was
\* sent goes on.
Crash ==
    /\ pc \notin DownPcs
    /\ pc' = "crashed" /\ routine' = "none" /\ plan' = NoPlan
    /\ req' = NoReq /\ reply' = "idle" /\ todo' = {}
    /\ suspect' = suspect \cup InFlight
    /\ pending' = pending \cup (IF reply = "wait" THEN {req} ELSE {})
    /\ UNCHANGED <<kept, positions, anchors, polled, hedge, health, live,
                   sentinel, opened, named, mode, bailed, faults>>

\* The operator reconciles first: once nothing is in flight, what the log
\* leaves open or in doubt is looked up on chain and given to the new process.
Restart ==
    /\ pc \in DownPcs /\ pending = {}
    /\ LET found == live \cap (opened \cup named \cup suspect) IN
        /\ primary' \in (IF found = {} THEN {NoPos} ELSE found)
        /\ extras' = found \ {primary'}
        /\ opened' = found
    /\ pc' = "rest"
    /\ kept' = {} /\ named' = {} /\ suspect' = {}
    /\ activeBin' = 0 /\ centerBin' = 0 /\ deployedWidened' = FALSE
    /\ inventoryBase' = "dust" /\ hedgeShort' = 0
    /\ halted' = FALSE /\ failures' = 0 /\ bailed' = FALSE /\ faults' = 0
    /\ UNCHANGED <<routine, calls, plan, todo, perp, mode, live, pending, sentinel>>

-----------------------------------------------------------------------------
(* The executor and the world                                              *)

\* Only a position that is open can be closed, and funds are limited.
Lands(r) ==
    /\ r.closes \subseteq live
    /\ live' = (live \ r.closes) \cup r.opens
    /\ Cardinality(live') <= MaxLive

\* The first legs of a sequential refresh: the withdrawal, and not all of the
\* deposits.
LandsInPart(r) ==
    /\ SequentialLegs
    /\ r.closes # {} /\ r.closes \subseteq live
    /\ \E legs \in SUBSET r.opens :
        legs # r.opens /\ live' = (live \ r.closes) \cup legs
    /\ Cardinality(live') <= MaxLive

\* The executor carries the call out, refuses it with no effect, or fails at
\* one leg of it, the earlier ones done.
ExecutorAnswers ==
    /\ reply = "wait"
    /\ \/ Lands(req) /\ reply' = "ok"
       \/ reply' = "refused" /\ UNCHANGED live
       \/ LandsInPart(req) /\ reply' = "partial"
    /\ UNCHANGED <<pc, routine, req, plan, loop, positions, anchors, polled,
                   hedge, health, pending, sentinel, log, mode, bailed, faults>>

\* The executor gives up waiting for the confirmation: ok = false, and a
\* signature in data.pending_signature (live_lp_experiment.py reads it; the
\* bridge sets unknown_outcome only for its own transport failures).
ExecutorGivesUp ==
    /\ PendingErrors /\ reply = "wait"
    /\ faults < MaxFaults /\ faults' = faults + 1
    /\ reply' = "pending"
    /\ pending' = pending \cup {req}
    /\ UNCHANGED <<pc, routine, req, plan, loop, positions, anchors, polled,
                   hedge, health, live, sentinel, log, mode, bailed>>

\* Timeout, end of stream or a malformed answer: the bridge reports an unknown
\* outcome.  A call not carried out yet may still be, later, or some legs of it.
ReplyLost ==
    /\ reply \in {"wait", "ok", "refused", "partial"}
    /\ faults < MaxFaults /\ faults' = faults + 1
    /\ reply' = "unknown"
    /\ pending' = pending \cup (IF reply = "wait" THEN {req} ELSE {})
    /\ UNCHANGED <<pc, routine, req, plan, loop, positions, anchors, polled,
                   hedge, health, live, sentinel, log, mode, bailed>>

\* A call of unknown outcome lands late, as a whole or in part, or expires.
LateOutcome ==
    /\ \E r \in pending :
        /\ pending' = pending \ {r}
        /\ Lands(r) \/ LandsInPart(r) \/ UNCHANGED live
    /\ UNCHANGED <<pc, routine, calls, plan, loop, positions, anchors, polled,
                   hedge, health, sentinel, log, mode, bailed, faults>>

\* tvl_monitor writes the sentinel file.
SentinelRaised ==
    /\ SentinelPath /\ ~sentinel
    /\ sentinel' = TRUE
    /\ UNCHANGED <<pc, routine, calls, plan, loop, positions, anchors, polled,
                   hedge, health, live, pending, log, mode, bailed, faults>>

-----------------------------------------------------------------------------
Decide == \/ DecideEmergency \/ DecideStop \/ DecideDeRisk
          \/ DecideHold \/ DecideQuote
Return == \/ BidReturns \/ AskReturns \/ BundleReturns
          \/ WithdrawReturns \/ ExtraReturns \/ SwapReturns
Process == \/ Poll \/ SentinelKill \/ Decide \/ HedgeStep \/ Send
           \/ EmitResult \/ Return \/ AnnounceNext \/ CloseEmergency
Faults == Raise \/ Crash \/ ReplyLost \/ ExecutorGivesUp
World == ExecutorAnswers \/ LateOutcome \/ SentinelRaised

Next == Process \/ Stop \/ Restart \/ Faults \/ World

Spec == Init /\ [][Next]_vars

\* The loop keeps cycling (asyncio.sleep returns), and every call is answered:
\* the bridge's timer kills an executor that does not answer.
Fairness == WF_vars(Process) /\ WF_vars(ExecutorAnswers \/ ReplyLost)
FairSpec == Spec /\ Fairness

-----------------------------------------------------------------------------
(* Safety                                                                  *)

\* Every position that is live on chain can be found from the event log alone:
\* a position event leaves it open, or an ok result names it, or a logged
\* request that may have opened it has no definite result.  It holds across
\* crashes in the middle of a call and between the events it leaves, lost
\* replies and late landings, and whatever an emergency forgot (the order
\* action_request, action_result, position_* of keeper.py).
LogCoversChain == live \subseteq opened \cup named \cup suspect \cup InFlight

\* Until an emergency exit gives up on a withdrawal, the ids in memory cover
\* the chain too, apart from calls in doubt and ids that the result just logged
\* names: no failed or interrupted loop over the extras, and no adoption of
\* refreshed ids, drops a live position
\* ("Keeps any id that failed to withdraw so it is never silently dropped").
MemoryCoversChain ==
    ~bailed /\ pc \notin DownPcs
        => live \subseteq Tracked \cup suspect \cup Unadopted

\* Liquidity is never added while the outcome of an earlier call is open, nor
\* once halted ("Retrying blindly could double-deploy capital").  It holds as long
\* as every failure the executor reports is definite.
NoBlindRedeploy ==
    pc \in DeployPcs /\ reply \in {"idle", "wait"} => pending = {} /\ ~halted

\* After a quoting cycle without a failed action, the deployed ladder is
\* within the drift threshold of the polled price, and the anchors name the
\* ladder that is really deployed.  Anchor 0 stands for "none known".
LadderFollowsPrice ==
    pc = "hedge" /\ mode = "live" /\ primary # NoPos /\ centerBin # 0
        /\ failures = 0 /\ kept = {}
    => /\ Distance(activeBin, primary.bin) < DriftThreshold
       /\ primary.bin = centerBin /\ primary.wide = deployedWidened

\* A refresh never replaces a ladder by the same one: it moves the anchor, or
\* it is the transition to WIDEN ("not every 5 s while it persists").
NoChurn ==
    pc = "bundle" /\ reply = "idle"
        => <<activeBin, plan.wide>> # <<centerBin, deployedWidened>>

\* "shadow mode: log decisions, don't submit tx": whatever is decided, a dry run
\* or an observer makes no signed call, and its positions stay as they were.
ShadowSubmitsNothing ==
    mode # "live" => pc \notin CallPcs /\ live = Tracked

\* The keeper implements PositionLedger: what its log leads to is announced
\* before it exists and forgotten after it is gone, step by step.
Ledger == INSTANCE PositionLedger
    WITH Id <- Pid, chain <- live,
         accounted <- opened \cup named \cup suspect \cup InFlight
LedgerSpec == Ledger!Spec

\* "track it so no ask-side liquidity is ever left unclosed" (_deposit_ladder):
\* an emergency exit of a live keeper that met no failure leaves no position
\* that the keeper knows of.
ExitsCloseAll ==
    pc = "close" /\ mode = "live" /\ failures = 0 => Tracked = {}

-----------------------------------------------------------------------------
(* Liveness                                                                *)

\* If calls stop raising, a raised sentinel halts the keeper or finds it down.
SentinelHalts ==
    <>[][~Raise]_vars => (sentinel ~> halted \/ pc \in DownPcs)

\* A cycle ends: no handler waits for ever for the executor or loops over the
\* extras without end.
CycleEnds == (pc # "rest") ~> (pc \in DownPcs \cup {"rest"})

\* Refusals are not retried without bound: a keeper whose signed calls are
\* refused again and again halts, unless one succeeds or it stops.
RefusalsHalt ==
    ([]<>(reply = "refused")) => []<>(reply = "ok" \/ halted \/ pc \in DownPcs)
=============================================================================
