---------------------------- MODULE KeeperProofs ----------------------------
(***************************************************************************)
(* Proofs about Keeper, for any bins, thresholds and bounds.  First what   *)
(* is on record: the types, that the event log accounts for everything on  *)
(* chain (LogCoversChain), that the keeper implements PositionLedger, and  *)
(* that it never adds liquidity blindly.  Then what it deploys and         *)
(* remembers: a dry run touches nothing, a refresh moves the ladder, a     *)
(* cycle that went well leaves the ladder at the price, and the ids in     *)
(* memory cover the chain until an emergency gives up on one.              *)
(***************************************************************************)
EXTENDS Keeper, TLAPS

\* Between calls there is no request, and only at a call step is there one.
CallShape ==
    /\ reply = "idle" => req = NoReq
    /\ reply # "idle" => pc \in CallPcs

\* The steps that name the primary position have one.
HasPrimary ==
    /\ pc \in {"bundle", "withdraw"} => primary # NoPos
    /\ pc = "extras" /\ routine = "quote" => primary # NoPos
    /\ pc = "withdraw" => routine # "quote"

TypeInv == TypeOK /\ CallShape /\ HasPrimary

\* What may still land late is already in doubt, or is the call just lost.
PendingInDoubt ==
    \A r \in pending :
        r.opens \subseteq suspect \/ (reply \in {"pending", "unknown"} /\ r = req)

\* A call that has not been answered, or was refused, has opened nothing that
\* the log does not lead to already.
NothingOpenedYet ==
    reply \in {"wait", "refused"} => live \subseteq opened \cup named \cup suspect

\* What a successful call closed is gone, unless it is in doubt or reopened.
ClosedIsGone ==
    reply \in {"ok", "done"} => live \cap req.closes \subseteq req.opens \cup suspect

\* An ok result that was logged names what the call opened, until the position
\* events do.
OpenedIsNamed == reply = "done" => req.opens \subseteq named

LogInv ==
    /\ LogCoversChain /\ PendingInDoubt /\ NothingOpenedYet /\ ClosedIsGone
    /\ OpenedIsNamed

\* A call that may still land later has halted the keeper, or is about to.
PendingHalts ==
    pending # {} => halted \/ pc \in DownPcs \/ reply = "unknown"
\* A halted keeper is not deploying: at most it learns of its last call.
HaltedDeploysNothing ==
    pc \in DeployPcs \cup {"polled"} /\ reply \notin {"unknown", "failed"} => ~halted

\* The extras of a refresh are withdrawn by a keeper that is not halted, until
\* one of the withdrawals fails.
RefreshNotHalted ==
    pc = "extras" /\ routine = "quote" /\ kept = {}
        /\ reply \notin {"unknown", "failed"} => ~halted
ExtraNamed == pc = "extras" /\ reply # "idle" => req.closes # {}

DeployInv ==
    PendingHalts /\ HaltedDeploysNothing /\ RefreshNotHalted /\ ExtraNamed

-----------------------------------------------------------------------------
(* Types                                                                   *)

\* The ladder of a cycle occupies positions of the right kind.
LEMMA OpensType ==
    ASSUME TypeOK, NEW sides \in SUBSET {"bid", "ask"}
    PROVE  Opens(sides) \subseteq Pid
BY DEF TypeOK, Opens, Position, Pid, Plan

\* Every call the keeper makes is a well-formed request.
LEMMA RequestType ==
    ASSUME TypeInv, pc \in CallPcs, NEW r \in NextRequests
    PROVE  r \in Request
<1> USE DEF TypeInv, Request
<1>1. CASE pc \in {"bid", "ask"}
  <2>1. Opens({pc}) \subseteq Pid
    BY <1>1, OpensType
  <2> QED
    BY <1>1, <2>1 DEF NextRequests
<1>2. CASE pc = "bundle"
  <2>1. Opens(plan.sides) \subseteq Pid
    BY OpensType DEF TypeOK, Plan
  <2>2. primary \in Pid
    BY <1>2 DEF TypeOK, HasPrimary
  <2> QED
    BY <1>2, <2>1, <2>2 DEF NextRequests
<1>3. CASE pc = "withdraw"
  <2>1. primary \in Pid
    BY <1>3 DEF TypeOK, HasPrimary
  <2> QED
    BY <1>3, <2>1 DEF NextRequests
<1>4. CASE pc = "extras"
  BY <1>4 DEF NextRequests, TypeOK
<1>5. CASE pc = "swap"
  BY <1>5 DEF NextRequests, NoReq
<1> QED
  BY <1>1, <1>2, <1>3, <1>4, <1>5 DEF CallPcs, DeployPcs

\* Every routine that ends leaves the process at rest or gone, with no plan.
LEMMA FinishType ==
    ASSUME NEW h, Finish(h)
    PROVE  pc' \in {"rest", "exited"} /\ routine' = "none" /\ plan' \in Plan
BY WidthsAssumption DEF Finish, EndPc, Plan, NoPlan

LEMMA TypeInvInit == Init => TypeInv
<1> SUFFICES ASSUME Init PROVE TypeInv
  OBVIOUS
<1>1. req \in Request /\ plan \in Plan
  BY WidthsAssumption DEF Init, Request, NoReq, Plan, NoPlan
<1>2. live \subseteq Pid /\ opened \subseteq Pid /\ named \subseteq Pid
  BY DEF Init, Tracked
<1>3. /\ activeBin \in Bins /\ centerBin \in Bins
      /\ deployedWidened \in Widths /\ inventoryBase \in Balances
  BY BinsAssumption, WidthsAssumption, BalancesAssumption DEF Init
<1>4. /\ hedgeShort \in 0 .. MaxShort /\ perp \in 0 .. MaxShort
      /\ failures \in 0 .. MaxFailures /\ faults \in 0 .. MaxFaults
  BY FailuresAssumption, ShortAssumption, MaxFaultsAssumption DEF Init
<1>5. pc \in Pcs /\ routine \in Routines
  BY DEF Init, Pcs, Routines
<1>6. TypeOK
  BY <1>1, <1>2, <1>3, <1>4, <1>5 DEF TypeOK, Init
<1>7. CallShape /\ HasPrimary
  BY DEF Init, CallShape, HasPrimary
<1> QED
  BY <1>6, <1>7 DEF TypeInv

\* Polling, deciding and the steps between calls.
LEMMA TypeInvLocal ==
    ASSUME TypeInv,
           \/ Poll \/ SentinelKill \/ Decide \/ HedgeStep \/ CloseEmergency
           \/ Stop \/ SentinelRaised
    PROVE  TypeInv'
<1> USE BinsAssumption, ShortAssumption
    DEF TypeInv, TypeOK, CallShape, HasPrimary, Pcs, CallPcs, DeployPcs,
        DownPcs, Routines, EmergencyRoutines, StopRoutines, calls, loop,
        positions, anchors, polled, hedge, health, log
<1>1. CASE Poll
  BY <1>1 DEF Poll
<1>2. CASE SentinelKill
  BY <1>2 DEF SentinelKill, StartEmergency, ExitPc, ShadowExit
<1>3. CASE DecideEmergency
  BY <1>3 DEF DecideEmergency, StartEmergency, ExitPc, ShadowExit
<1>4. CASE DecideStop
  <2>1. CASE Finish(halted)
    BY <1>4, <2>1, FinishType DEF DecideStop
  <2>2. CASE ~Finish(halted)
    BY <1>4, <2>2 DEF DecideStop
  <2> QED
    BY <2>1, <2>2
<1>5. CASE DecideDeRisk
  <2>1. CASE Finish(halted)
    BY <1>5, <2>1, FinishType DEF DecideDeRisk
  <2>2. CASE ~Finish(halted)
    BY <1>5, <2>2 DEF DecideDeRisk
  <2> QED
    BY <2>1, <2>2
<1>6. CASE DecideHold
  BY <1>6, FinishType DEF DecideHold
<1>7. CASE DecideQuote
  BY <1>7 DEF DecideQuote
<1>8. CASE HedgeStep
  BY <1>8, FinishType DEF HedgeStep
<1>9. CASE CloseEmergency
  <2>1. hedgeShort' \in 0 .. MaxShort /\ perp' \in 0 .. MaxShort
    BY <1>9 DEF CloseEmergency, UnwindHedge
  <2>2. halted' \in BOOLEAN /\ sentinel' \in BOOLEAN
    BY <1>9 DEF CloseEmergency
  <2>3. reply = "idle" /\ UNCHANGED <<req, reply>>
    BY <1>9 DEF CloseEmergency
  <2> QED
    BY <1>9, <2>1, <2>2, <2>3, FinishType DEF CloseEmergency
<1>10. CASE Stop
  BY <1>10 DEF Stop
<1>11. CASE SentinelRaised
  BY <1>11 DEF SentinelRaised
<1> HIDE DEF TypeInv
<1> QED
  BY <1>1, <1>2, <1>3, <1>4, <1>5, <1>6, <1>7, <1>8, <1>9, <1>10, <1>11 DEF Decide

\* Counting and logging a result keeps the counters and the log well-typed.
LEMMA TypeInvEmit == ASSUME TypeInv, EmitResult PROVE TypeInv'
<1> USE DEF TypeInv, TypeOK, EmitResult
<1>1. req.opens \subseteq Pid
  BY DEF Request
<1>2. failures' \in 0 .. MaxFailures
  BY FailuresAssumption DEF NextFailures
<1>3. halted' \in BOOLEAN
  BY DEF NextHalted
<1>4. named' \subseteq Pid /\ suspect' \subseteq Pid
  BY <1>1 DEF NextSuspect
<1>5. reply # "idle" /\ reply' \in Results /\ reply' # "idle"
  BY DEF Succeeded, Failed, Failures, Results
<1>6. UNCHANGED <<pc, routine, primary, req>>
  BY DEF positions
<1>7. CallShape' /\ HasPrimary'
  BY <1>5, <1>6 DEF CallShape, HasPrimary
<1> QED
  BY <1>2, <1>3, <1>4, <1>5, <1>7 DEF loop, positions, anchors, polled, hedge

\* The end of a call leaves everything but what its handler decides.
LEMMA EndCallType ==
    ASSUME TypeInv, EndCall
    PROVE  /\ req' = NoReq /\ req' \in Request /\ reply' = "idle"
           /\ halted' \in BOOLEAN /\ failures' \in 0 .. MaxFailures
           /\ suspect' \subseteq Pid
           /\ req.opens \subseteq Pid /\ req.closes \subseteq Pid
           /\ activeBin' \in Bins /\ inventoryBase' \in Balances
           /\ live' \subseteq Pid /\ pending' \subseteq Request
           /\ sentinel' \in BOOLEAN /\ bailed' \in BOOLEAN /\ mode' \in Modes
           /\ faults' \in 0 .. MaxFaults
BY DEF TypeInv, TypeOK, EndCall, Request, NoReq, polled, health

\* Position events concern positions.
LEMMA LogOpenedType ==
    ASSUME TypeInv, NEW ids \in SUBSET Pid, LogOpened(ids)
    PROVE  opened' \subseteq Pid /\ named' \subseteq Pid
BY DEF TypeInv, TypeOK, LogOpened

LEMMA LogClosedType ==
    ASSUME TypeInv, LogClosed
    PROVE  opened' \subseteq Pid /\ named' \subseteq Pid
BY DEF TypeInv, TypeOK, LogClosed

\* What follows a withdrawal: the routine ends, or swaps, or closes.
LEMMA AfterWithdrawalsType ==
    ASSUME TypeInv, NEW h, AfterWithdrawals(h)
    PROVE  /\ pc' \in {"rest", "exited", "swap", "close"}
           /\ routine' \in Routines /\ plan' \in Plan
<1>1. CASE Finish(h)
  BY <1>1, FinishType DEF Routines
<1>2. CASE ~Finish(h)
  BY <1>2 DEF AfterWithdrawals, Proceed, TypeInv, TypeOK
<1> QED
  BY <1>1, <1>2

\* A position of the current ladder is a position.
LEMMA PositionType ==
    ASSUME TypeInv, NEW s \in {"bid", "ask"}
    PROVE  Position(s, activeBin, plan.wide) \in Pid
BY DEF TypeInv, TypeOK, Plan, Pid, Position

\* Processing the result of a call.
LEMMA TypeInvReturn == ASSUME TypeInv, Return PROVE TypeInv'
<1> USE DEF TypeInv, TypeOK, CallShape, HasPrimary, Pcs, CallPcs, DeployPcs,
        DownPcs, EmergencyRoutines, StopRoutines, loop, positions, anchors, hedge
<1>1. CASE BidReturns
  <2>1. primary' \in Pid \cup {NoPos} /\ centerBin' \in Bins /\ deployedWidened' \in Widths
    BY <1>1, PositionType DEF BidReturns, Plan
  <2>2. pc' \in {"ask", "hedge"} /\ UNCHANGED <<routine, plan>>
    BY <1>1 DEF BidReturns, Proceed
  <2>3. opened' \subseteq Pid /\ named' \subseteq Pid
    BY <1>1, EndCallType, LogOpenedType DEF BidReturns
  <2> QED
    BY <1>1, <2>1, <2>2, <2>3, EndCallType DEF BidReturns
<1>2. CASE AskReturns
  <2>1. opened' \subseteq Pid /\ named' \subseteq Pid
    BY <1>2, EndCallType, LogOpenedType DEF AskReturns
  <2>2. extras' \subseteq Pid
    BY <1>2, EndCallType DEF AskReturns
  <2> QED
    BY <1>2, <2>1, <2>2, EndCallType DEF AskReturns, Proceed
<1>3. CASE BundleReturns
  <2>1. /\ primary' \in Pid \cup {NoPos} /\ extras' \subseteq Pid
        /\ centerBin' \in Bins /\ deployedWidened' \in Widths
        /\ todo' \subseteq Pid
    BY <1>3, EndCallType DEF BundleReturns, Plan, PrimaryChoices
  <2>2. pc' \in {"announce", "hedge"} /\ UNCHANGED <<routine, plan, kept, hedge>>
    BY <1>3 DEF BundleReturns, Proceed
  <2>3. opened' \subseteq Pid /\ named' \subseteq Pid
    BY <1>3, LogClosedType DEF BundleReturns
  <2> QED
    BY <1>3, <2>1, <2>2, <2>3, EndCallType DEF BundleReturns
<1>4. CASE WithdrawReturns
  <2>0. routine # "quote"
    BY <1>4 DEF WithdrawReturns
  <2>1. /\ pc' \in {"rest", "exited", "swap", "close", "extras"}
        /\ routine' \in Routines /\ plan' \in Plan
        /\ pc' = "extras" => routine' # "quote"
    <3>1. CASE Finish(halted)
      BY <3>1, FinishType DEF Routines
    <3>2. CASE AfterWithdrawals(halted)
      BY <3>2, AfterWithdrawalsType
    <3>3. CASE Proceed("extras")
      BY <2>0, <3>3 DEF Proceed
    <3> QED
      BY <1>4, <3>1, <3>2, <3>3 DEF WithdrawReturns
  <2>2. todo' \subseteq Pid /\ kept' \subseteq Pid /\ primary' \in Pid \cup {NoPos}
    BY <1>4 DEF WithdrawReturns
  <2>3. opened' \subseteq Pid /\ named' \subseteq Pid
    BY <1>4, LogClosedType DEF WithdrawReturns
  <2> QED
    BY <1>4, <2>1, <2>2, <2>3, EndCallType DEF WithdrawReturns
<1>5. CASE ExtraReturns
  <2>1. /\ pc' \in {"rest", "exited", "swap", "close", "extras", "bundle", "hedge"}
        /\ routine' \in Routines /\ plan' \in Plan
        /\ pc' = "bundle" => routine = "quote"
        /\ pc' = "extras" => routine' = routine
    <3>1. CASE AfterWithdrawals(halted)
      BY <3>1, AfterWithdrawalsType
    <3>2. CASE ~AfterWithdrawals(halted)
      BY <1>5, <3>2 DEF ExtraReturns, Proceed
    <3> QED
      BY <3>1, <3>2
  <2>2. todo' \subseteq Pid /\ kept' \subseteq Pid /\ extras' \subseteq Pid
    BY <1>5, EndCallType DEF ExtraReturns, NextKept
  <2>3. pc = "extras" /\ UNCHANGED <<primary, anchors, hedge>> /\ EndCall
    BY <1>5 DEF ExtraReturns
  <2>4. opened' \subseteq Pid /\ named' \subseteq Pid
    BY <1>5, LogClosedType DEF ExtraReturns
  <2> QED
    BY <2>1, <2>2, <2>3, <2>4, EndCallType
<1>6. CASE SwapReturns
  <2>1. /\ pc' \in {"rest", "exited", "close"}
        /\ routine' \in Routines /\ plan' \in Plan
    <3>1. CASE Finish(halted)
      BY <3>1, FinishType DEF Routines
    <3>2. CASE ~Finish(halted)
      BY <1>6, <3>2 DEF SwapReturns, Proceed
    <3> QED
      BY <3>1, <3>2
  <2>2. hedgeShort' \in 0 .. MaxShort /\ perp' \in 0 .. MaxShort
    BY <1>6, ShortAssumption DEF SwapReturns, UnwindHedge
  <2>3. UNCHANGED <<loop, positions, anchors, opened, named>> /\ EndCall
    BY <1>6 DEF SwapReturns
  <2> QED
    BY <2>1, <2>2, <2>3, EndCallType
<1> HIDE DEF TypeInv
<1> QED
  BY <1>1, <1>2, <1>3, <1>4, <1>5, <1>6 DEF Return

\* The events of a refresh, one for each position.
LEMMA TypeInvAnnounce == ASSUME TypeInv, AnnounceNext PROVE TypeInv'
<1>1. PICK p \in (IF primary \in todo THEN {primary} ELSE todo) :
         LogOpened({p}) /\ todo' = todo \ {p}
  BY DEF AnnounceNext
<1>2. p \in Pid
  BY <1>1 DEF TypeInv, TypeOK
<1>3. opened' \subseteq Pid /\ named' \subseteq Pid
  BY <1>1, <1>2, LogOpenedType
<1>4. todo' \subseteq Pid
  BY <1>1 DEF TypeInv, TypeOK
<1>5. pc' \in {"hedge", "announce"} /\ UNCHANGED <<routine, plan, calls>>
  BY DEF AnnounceNext, Proceed
<1>6. pc = "announce" /\ reply = "idle"
  BY DEF AnnounceNext, TypeInv, CallShape, CallPcs, DeployPcs
<1>7. CallShape' /\ HasPrimary'
  BY <1>5, <1>6 DEF TypeInv, CallShape, HasPrimary, calls
<1>8. pc' \in Pcs
  BY <1>5 DEF Pcs
<1> QED
  BY <1>3, <1>4, <1>5, <1>7, <1>8
     DEF AnnounceNext, TypeInv, TypeOK, calls, positions, anchors, polled, hedge, health

\* Calls, crashes, restarts and the executor.
LEMMA TypeInvCall ==
    ASSUME TypeInv, Send \/ Restart \/ Faults \/ ExecutorAnswers \/ LateOutcome
    PROVE  TypeInv'
<1> USE DEF TypeInv, TypeOK, CallShape, HasPrimary, Pcs, CallPcs, DeployPcs,
        DownPcs, EmergencyRoutines, StopRoutines, calls, loop, positions,
        anchors, polled, hedge, health, log, Answers, Failures, Results
<1>1. CASE Send
  BY <1>1, RequestType DEF Send
<1>2. CASE Restart
  <2>1. /\ primary' \in Pid \cup {NoPos} /\ extras' \subseteq Pid
        /\ opened' \subseteq Pid /\ named' = {}
    BY <1>2 DEF Restart
  <2>2. /\ activeBin' \in Bins /\ centerBin' \in Bins
        /\ deployedWidened' \in Widths /\ inventoryBase' \in Balances
        /\ hedgeShort' \in 0 .. MaxShort /\ failures' \in 0 .. MaxFailures
        /\ faults' \in 0 .. MaxFaults
    <3>1. /\ activeBin' = 0 /\ centerBin' = 0 /\ deployedWidened' = FALSE
          /\ inventoryBase' = "dust" /\ hedgeShort' = 0 /\ failures' = 0 /\ faults' = 0
      BY <1>2 DEF Restart
    <3>2. 0 \in 0 .. MaxShort /\ 0 \in 0 .. MaxFailures /\ 0 \in 0 .. MaxFaults
      BY ShortAssumption, FailuresAssumption, MaxFaultsAssumption
    <3>3. 0 \in Bins /\ FALSE \in Widths /\ "dust" \in Balances
      BY BinsAssumption, WidthsAssumption, BalancesAssumption
    <3> QED
      BY <3>1, <3>2, <3>3, Zenon
  <2>3. reply = "idle"
    BY <1>2 DEF Restart
  <2> QED
    BY <1>2, <2>1, <2>2, <2>3 DEF Restart
<1>3. NoReq \in Request /\ req.opens \subseteq Pid
  BY DEF Request, NoReq
<1>4. CASE Raise
  <2>1. faults' \in 0 .. MaxFaults
    BY <1>4, MaxFaultsAssumption DEF Raise
  <2> QED
    BY <1>3, <1>4, <2>1, FinishType DEF Raise, Routines
<1>5. CASE Crash
  <2>1. InFlight \subseteq Pid
    BY <1>3 DEF InFlight
  <2> QED
    BY <1>3, <1>5, <2>1, WidthsAssumption DEF Crash, Plan, NoPlan, Routines
<1>6. CASE ReplyLost
  <2>1. faults' \in 0 .. MaxFaults
    BY <1>6, MaxFaultsAssumption DEF ReplyLost
  <2> QED
    BY <1>6, <2>1 DEF ReplyLost
<1>7. CASE ExecutorGivesUp
  <2>1. faults' \in 0 .. MaxFaults
    BY <1>7, MaxFaultsAssumption DEF ExecutorGivesUp
  <2> QED
    BY <1>7, <2>1 DEF ExecutorGivesUp
<1>8. CASE ExecutorAnswers
  BY <1>3, <1>8 DEF ExecutorAnswers, Lands, LandsInPart
<1>9. CASE LateOutcome
  BY <1>9 DEF LateOutcome, Lands, LandsInPart, Request
<1> HIDE DEF TypeInv
<1> QED
  BY <1>1, <1>2, <1>4, <1>5, <1>6, <1>7, <1>8, <1>9 DEF Faults

\* The types, and the shape of calls, hold throughout.
THEOREM TypeCorrect == Spec => []TypeInv
<1>1. TypeInv /\ [Next]_vars => TypeInv'
  <2> SUFFICES ASSUME TypeInv, [Next]_vars PROVE TypeInv'
    OBVIOUS
  <2>1. CASE UNCHANGED vars
    BY <2>1 DEF TypeInv, TypeOK, CallShape, HasPrimary, vars, calls, loop,
       positions, anchors, polled, hedge, health, log
  <2> QED
    BY <2>1, TypeInvLocal, TypeInvEmit, TypeInvReturn, TypeInvAnnounce, TypeInvCall
       DEF Next, Process, World
<1> QED
  BY <1>1, TypeInvInit, PTL DEF Spec

\* The run's type invariant, for every value of the constants.
THEOREM Types == Spec => []TypeOK
BY TypeCorrect, PTL DEF TypeInv

-----------------------------------------------------------------------------
(* The event log accounts for the chain                                    *)

ledger == <<live, pending, req, reply, opened, named, suspect>>

\* Polling, deciding and the steps between calls leave the ledger alone.
LEMMA LocalKeepsLedger ==
    ASSUME \/ Poll \/ SentinelKill \/ Decide \/ HedgeStep \/ CloseEmergency
           \/ Stop \/ SentinelRaised
    PROVE  UNCHANGED ledger
<1> USE DEF ledger, calls, log, StartEmergency
<1>1. CASE Poll \/ SentinelKill \/ HedgeStep \/ CloseEmergency \/ Stop \/ SentinelRaised
  BY <1>1 DEF Poll, SentinelKill, HedgeStep, CloseEmergency, Stop, SentinelRaised
<1>2. CASE Decide
  BY <1>2 DEF Decide, DecideEmergency, DecideStop, DecideDeRisk, DecideHold, DecideQuote
<1> QED
  BY <1>1, <1>2

\* Every handler of a result ends the call.
LEMMA ReturnEnds == ASSUME Return PROVE EndCall
BY DEF Return, BidReturns, AskReturns, BundleReturns, WithdrawReturns,
       ExtraReturns, SwapReturns

\* What it logs are positions the call opened, or the ones it closed.
LEMMA ReturnLogs ==
    ASSUME Return
    PROVE  LogOpened(req.opens) \/ LogClosed \/ UNCHANGED <<opened, named>>
BY DEF Return, BidReturns, AskReturns, BundleReturns, WithdrawReturns,
       ExtraReturns, SwapReturns

\* Logging a result: what it may have opened is named or in doubt.
LEMMA LogInvEmit == ASSUME LogInv, EmitResult PROVE LogInv'
<1> USE DEF LogInv, EmitResult, Failed, Succeeded, Failures
<1>1. /\ live' = live /\ pending' = pending /\ req' = req /\ opened' = opened
      /\ reply' \in Results /\ suspect \subseteq suspect' /\ named \subseteq named'
  BY DEF NextSuspect, Results
<1>2. live \subseteq opened \cup named' \cup suspect'
  <2>1. InFlight = req.opens
    BY DEF InFlight, Results
  <2>2. CASE Succeeded
    BY <2>1, <2>2, <1>1 DEF LogCoversChain
  <2>3. CASE reply = "refused"
    BY <2>3, <1>1 DEF NothingOpenedYet
  <2>4. CASE reply \in {"partial", "pending", "unknown"}
    BY <2>1, <2>4, <1>1 DEF NextSuspect, LogCoversChain
  <2> QED
    BY <2>2, <2>3, <2>4
<1>3. \A r \in pending : r.opens \subseteq suspect'
  BY DEF PendingInDoubt, NextSuspect
<1>4. ClosedIsGone' /\ OpenedIsNamed'
  BY <1>1 DEF ClosedIsGone, OpenedIsNamed
<1> QED
  BY <1>1, <1>2, <1>3, <1>4
     DEF LogCoversChain, InFlight, PendingInDoubt, NothingOpenedYet, Results

\* Handling it: an event names what a result did, and what a withdrawal closed
\* is gone.
LEMMA LogInvReturn == ASSUME LogInv, Return PROVE LogInv'
<1> USE DEF LogInv
<1>1. /\ live' = live /\ pending' = pending /\ req'.opens = {} /\ reply' = "idle"
      /\ suspect' = suspect /\ reply \in Results
  BY ReturnEnds DEF EndCall, Ended, NoReq
<1>2. live \subseteq opened \cup named \cup suspect
  BY <1>1 DEF LogCoversChain, InFlight
<1>3. live \subseteq opened' \cup named' \cup suspect
  <2>1. CASE LogOpened(req.opens) \/ UNCHANGED <<opened, named>>
    BY <1>2, <2>1 DEF LogOpened
  <2>2. CASE LogClosed
    <3>1. live \cap ClosedNow \subseteq named \cup suspect
      BY DEF ClosedNow, Done, ClosedIsGone, OpenedIsNamed
    <3> QED
      BY <1>2, <2>2, <3>1 DEF LogClosed
  <2> QED
    BY <2>1, <2>2, ReturnLogs
<1>4. \A r \in pending : r.opens \subseteq suspect
  BY <1>1 DEF PendingInDoubt, Results
<1> QED
  BY <1>1, <1>3, <1>4 DEF LogCoversChain, InFlight, PendingInDoubt, NothingOpenedYet,
     ClosedIsGone, OpenedIsNamed, Results

\* The events of a refresh add to what the log leads to.
LEMMA LogInvAnnounce == ASSUME TypeInv, LogInv, AnnounceNext PROVE LogInv'
<1> USE DEF LogInv
<1>1. /\ UNCHANGED <<live, pending, req, reply, suspect>>
      /\ reply = "idle"
  BY DEF AnnounceNext, calls, TypeInv, CallShape, CallPcs, DeployPcs
<1>2. opened \cup named \subseteq opened' \cup named'
  BY DEF AnnounceNext, LogOpened
<1> QED
  BY <1>1, <1>2 DEF LogCoversChain, InFlight, PendingInDoubt, NothingOpenedYet,
     ClosedIsGone, OpenedIsNamed

LEMMA LogInvStep == ASSUME TypeInv, LogInv, [Next]_vars PROVE LogInv'
<1> USE DEF LogInv, LogCoversChain, InFlight, Results, PendingInDoubt,
            NothingOpenedYet, ClosedIsGone, OpenedIsNamed
<1>1. CASE UNCHANGED ledger
  BY <1>1 DEF ledger
<1>2. CASE Return
  BY <1>2, LogInvReturn
<1>13. CASE EmitResult
  BY <1>13, LogInvEmit
<1>14. CASE AnnounceNext
  BY <1>14, LogInvAnnounce
<1>3. reply = "idle" => req.opens = {} /\ req.closes = {}
  BY DEF TypeInv, CallShape, NoReq
<1>4. CASE Send
  BY <1>3, <1>4 DEF Send, log
<1>5. CASE Restart
  <2>1. reply = "idle"
    BY <1>5 DEF Restart, TypeInv, CallShape, DownPcs, CallPcs, DeployPcs
  <2>2. live \subseteq opened \cup named \cup suspect
    BY <1>3, <2>1
  <2>3. opened' = live \cap (opened \cup named \cup suspect)
    BY <1>5 DEF Restart
  <2> QED
    BY <1>5, <2>1, <2>2, <2>3 DEF Restart, calls
<1>6. CASE Raise
  BY <1>6 DEF Raise, NoReq
<1>7. CASE Crash
  BY <1>7 DEF Crash, NoReq
<1>8. CASE ReplyLost
  BY <1>8 DEF ReplyLost, log
<1>9. CASE ExecutorGivesUp
  BY <1>9 DEF ExecutorGivesUp, log
<1>10. CASE ExecutorAnswers
  BY <1>10 DEF ExecutorAnswers, Lands, LandsInPart, log
<1>11. CASE LateOutcome
  <2>1. PICK r \in pending :
           /\ pending' = pending \ {r}
           /\ live' \subseteq live \cup r.opens
    BY <1>11 DEF LateOutcome, Lands, LandsInPart
  <2>2. UNCHANGED <<req, reply, opened, named, suspect>>
    BY <1>11 DEF LateOutcome, calls, log
  <2> QED
    BY <2>1, <2>2
<1>12. CASE UNCHANGED vars
  BY <1>1, <1>12 DEF vars, ledger, calls, log
<1> HIDE DEF LogInv
<1> QED
  BY <1>1, <1>2, <1>4, <1>5, <1>6, <1>7, <1>8, <1>9, <1>10, <1>11, <1>12,
     <1>13, <1>14, LocalKeepsLedger
     DEF Next, Process, Faults, World

LEMMA LogInvInit == Init => LogInv
BY DEF Init, LogInv, LogCoversChain, InFlight, PendingInDoubt, NothingOpenedYet,
       ClosedIsGone, OpenedIsNamed, NoReq

LEMMA LogInvariant == Spec => []LogInv
<1>1. TypeInv /\ LogInv /\ [Next]_vars => LogInv'
  BY LogInvStep
<1> QED
  BY <1>1, LogInvInit, TypeCorrect, PTL DEF Spec

\* Whatever fails, is lost or crashes in the middle of a call, the log of the
\* requests and results finds every position that is live on chain.
THEOREM LogAccountsForChain == Spec => []LogCoversChain
BY LogInvariant, PTL DEF LogInv

-----------------------------------------------------------------------------
(* The keeper implements PositionLedger                                    *)

LEMMA LedgerInit == Init => Ledger!Init
BY DEF Init, Ledger!Init, NoReq, InFlight, Results, Tracked

LEMMA LedgerStep ==
    ASSUME TypeInv, LogInv, LogInv', [Next]_vars
    PROVE  [Ledger!Next]_(Ledger!vars)
<1> DEFINE A == opened \cup named \cup suspect \cup InFlight
<1> SUFFICES \/ live' = live /\ A' = A
             \/ live' = live /\ \E ids \in SUBSET Pid : A' = A \cup ids
             \/ A' = A /\ live' \subseteq live \cup A
             \/ live' = live /\ A' \subseteq A
  <2>1. live' \subseteq A'
    BY DEF LogInv, LogCoversChain
  <2> QED
    BY <2>1 DEF Ledger!Next, Ledger!vars, Ledger!Announce, Ledger!Change, Ledger!Forget
<1> USE DEF InFlight, Results
<1>1. CASE UNCHANGED ledger
  BY <1>1 DEF ledger
<1>2. CASE Return
  <2>1. EndCall
    BY <1>2, ReturnEnds
  <2>2. req.opens \subseteq Pid
    BY DEF TypeInv, TypeOK, Request
  <2>3. live' = live /\ A = opened \cup named \cup suspect
        /\ A' = opened' \cup named' \cup suspect
    BY <2>1 DEF EndCall, Ended, NoReq
  <2> QED
    BY <1>2, <2>2, <2>3, ReturnLogs DEF LogOpened, LogClosed
<1>11. CASE EmitResult
  <2>1. live' = live /\ A = opened \cup named \cup suspect \cup req.opens
        /\ A' = opened \cup named' \cup suspect'
    BY <1>11 DEF EmitResult, Succeeded, Failed, Failures
  <2> QED
    BY <1>11, <2>1 DEF EmitResult, NextSuspect
<1>12. CASE AnnounceNext
  <2>1. PICK p \in (IF primary \in todo THEN {primary} ELSE todo) : LogOpened({p})
    BY <1>12 DEF AnnounceNext
  <2>2. {p} \in SUBSET Pid
    BY <2>1 DEF TypeInv, TypeOK
  <2>3. A' = A \cup {p} /\ live' = live
    BY <1>12, <2>1 DEF AnnounceNext, LogOpened, calls
  <2> QED
    BY <2>2, <2>3
<1>3. reply = "idle" => req.opens = {}
  BY DEF TypeInv, CallShape, NoReq
<1>4. CASE Send
  <2>1. req' \in Request
    BY <1>4, RequestType DEF Send
  <2>2. req'.opens \subseteq Pid
    BY <2>1 DEF Request
  <2>3. A' = A \cup req'.opens
    BY <1>3, <1>4 DEF Send, log
  <2> QED
    BY <1>4, <2>2, <2>3 DEF Send
<1>5. CASE Restart
  BY <1>5 DEF Restart, calls
<1>6. CASE Raise \/ Crash
  BY <1>6 DEF Raise, Crash, NoReq
<1>7. CASE ReplyLost \/ ExecutorGivesUp
  BY <1>7 DEF ReplyLost, ExecutorGivesUp, log
<1>8. CASE ExecutorAnswers
  BY <1>8 DEF ExecutorAnswers, Lands, LandsInPart, log
<1>9. CASE LateOutcome
  <2>1. PICK r \in pending : live' \subseteq live \cup r.opens
    BY <1>9 DEF LateOutcome, Lands, LandsInPart
  <2>2. r.opens \subseteq A
    BY DEF LogInv, PendingInDoubt
  <2>3. A' = A
    BY <1>9 DEF LateOutcome, calls, log
  <2> QED
    BY <2>1, <2>2, <2>3
<1>10. CASE UNCHANGED vars
  BY <1>1, <1>10 DEF vars, ledger, calls, log
<1> QED
  BY <1>1, <1>2, <1>4, <1>5, <1>6, <1>7, <1>8, <1>9, <1>10, <1>11, <1>12,
     LocalKeepsLedger
     DEF Next, Process, Faults, World

\* The keeper, whatever it decides and however it fails, keeps the promise of
\* PositionLedger: positions are announced before they can exist and forgotten
\* only once they are gone.
THEOREM ImplementsLedger == Spec => LedgerSpec
<1>1. TypeInv /\ LogInv /\ LogInv' /\ [Next]_vars => [Ledger!Next]_(Ledger!vars)
  BY LedgerStep
<1> QED
  BY <1>1, LedgerInit, TypeCorrect, LogInvariant, PTL DEF Spec, LedgerSpec, Ledger!Spec

-----------------------------------------------------------------------------
(* No blind redeploy                                                       *)

LEMMA DeployInvInit == Init => DeployInv
BY DEF Init, DeployInv, PendingHalts, HaltedDeploysNothing, RefreshNotHalted,
       ExtraNamed, DeployPcs

\* Processing a result: an unknown outcome halts, so the ladder stops there.
LEMMA DeployInvReturn == ASSUME TypeInv, DeployInv, Return PROVE DeployInv'
<1> USE DEF DeployInv, PendingHalts, HaltedDeploysNothing, RefreshNotHalted,
            ExtraNamed, DeployPcs, Results, Done
<1>1. /\ halted' = halted /\ reply' = "idle" /\ pending' = pending
      /\ reply \in Results
  BY ReturnEnds DEF EndCall, Ended, health
<1>2. PendingHalts'
  <2>1. pc \notin DownPcs
    BY DEF DownPcs, Return, BidReturns, AskReturns, BundleReturns, WithdrawReturns,
           ExtraReturns, SwapReturns
  <2> QED
    BY <1>1, <2>1
<1>3. ASSUME NEW h, Finish(h) \/ AfterWithdrawals(h)
      PROVE  pc' \notin DeployPcs \cup {"polled", "extras"}
  BY <1>3 DEF Finish, EndPc, AfterWithdrawals, Proceed
<1>4. CASE BidReturns
  BY <1>1, <1>2, <1>4 DEF BidReturns, Proceed
<1>5. CASE AskReturns \/ BundleReturns
  BY <1>1, <1>2, <1>5 DEF AskReturns, BundleReturns, Proceed
<1>6. CASE WithdrawReturns
  <2>1. routine # "quote"
    BY <1>6 DEF WithdrawReturns, TypeInv, HasPrimary
  <2> QED
    BY <1>1, <1>2, <1>3, <1>6, <2>1 DEF WithdrawReturns, Proceed
<1>7. CASE ExtraReturns
  <2>1. req.closes # {}
    BY <1>7, <1>1 DEF ExtraReturns
  <2>2. kept' = {} => kept = {} /\ Done
    BY <1>7, <2>1 DEF ExtraReturns, NextKept
  <2>3. kept' = {} /\ routine = "quote" => ~halted
    BY <1>7, <2>2 DEF ExtraReturns
  <2>4. CASE AfterWithdrawals(halted)
    BY <1>1, <1>2, <1>3, <2>4
  <2>5. CASE ~AfterWithdrawals(halted)
    BY <1>1, <1>2, <1>7, <2>3, <2>5 DEF ExtraReturns, Proceed
  <2> QED
    BY <2>4, <2>5
<1>8. CASE SwapReturns
  BY <1>1, <1>2, <1>3, <1>8 DEF SwapReturns, Proceed
<1> QED
  BY <1>4, <1>5, <1>6, <1>7, <1>8 DEF Return

LEMMA DeployInvStep ==
    ASSUME ~PendingErrors, TypeInv, DeployInv, [Next]_vars
    PROVE  DeployInv'
<1> USE DEF DeployInv, PendingHalts, HaltedDeploysNothing, RefreshNotHalted,
            ExtraNamed, DeployPcs, DownPcs, calls, loop, health, log
<1>1. pc \notin CallPcs => reply = "idle"
  BY DEF TypeInv, CallShape, TypeOK
<1>0. reply # "idle" => pc \notin DownPcs
  BY DEF TypeInv, CallShape, CallPcs
<1>2. CASE Poll
  BY <1>2 DEF Poll
<1>3. CASE SentinelKill \/ DecideEmergency
  BY <1>3 DEF SentinelKill, DecideEmergency, StartEmergency, ExitPc, ShadowExit
<1>4. CASE DecideStop \/ DecideDeRisk \/ DecideHold
  BY <1>4 DEF DecideStop, DecideDeRisk, DecideHold, Finish, EndPc
<1>5. CASE DecideQuote
  <2>1. ~halted /\ reply = "idle"
    BY <1>1, <1>5 DEF DecideQuote, CallPcs
  <2> QED
    BY <1>5, <2>1 DEF DecideQuote
<1>6. CASE HedgeStep
  BY <1>6 DEF HedgeStep, Finish, EndPc
<1>7. CASE Send
  BY <1>7 DEF Send, NextRequests
<1>8. CASE CloseEmergency
  BY <1>8 DEF CloseEmergency, Finish, EndPc
<1>9. CASE Stop
  BY <1>9 DEF Stop
<1>10. CASE Restart
  BY <1>10 DEF Restart
<1>11. CASE Raise
  <2>1. pc' \in {"rest", "exited"} /\ reply = "wait" /\ reply' = "idle"
    BY <1>11, FinishType DEF Raise
  <2>2. UNCHANGED <<pending, halted>>
    BY <1>11 DEF Raise
  <2> QED
    BY <2>1, <2>2, <1>0
<1>12. CASE Crash
  BY <1>12 DEF Crash
<1>13. CASE ReplyLost
  BY <1>13 DEF ReplyLost
<1>14. CASE ExecutorGivesUp
  BY <1>14 DEF ExecutorGivesUp
<1>15. CASE ExecutorAnswers
  BY <1>15 DEF ExecutorAnswers
<1>16. CASE LateOutcome
  BY <1>16 DEF LateOutcome
<1>17. CASE SentinelRaised
  BY <1>17 DEF SentinelRaised
<1>18. CASE UNCHANGED vars
  BY <1>18 DEF vars
<1>19. CASE EmitResult
  BY <1>0, <1>19 DEF EmitResult, Succeeded, Failed, Failures, NextHalted
<1>20. CASE AnnounceNext
  BY <1>20 DEF AnnounceNext, Proceed
<1> HIDE DEF DeployInv
<1> QED
  BY <1>2, <1>3, <1>4, <1>5, <1>6, <1>7, <1>8, <1>9, <1>10, <1>11, <1>12, <1>13,
     <1>14, <1>15, <1>16, <1>17, <1>18, <1>19, <1>20, DeployInvReturn
     DEF Next, Process, Decide, Faults, World

\* If the executor's failures are definite, no liquidity is added while an
\* earlier call may still land, nor by a halted keeper.
THEOREM NeverRedeploysBlindly == Spec => [](~PendingErrors => NoBlindRedeploy)
<1> DEFINE Inv == ~PendingErrors => DeployInv
<1>1. Init => Inv
  BY DeployInvInit
<1>2. TypeInv /\ Inv /\ [Next]_vars => Inv'
  BY DeployInvStep
<1>3. Inv => (~PendingErrors => NoBlindRedeploy)
  BY DEF DeployInv, PendingHalts, HaltedDeploysNothing, NoBlindRedeploy, DeployPcs, DownPcs
<1> HIDE DEF Inv
<1> QED
  BY <1>1, <1>2, <1>3, TypeCorrect, PTL DEF Spec

-----------------------------------------------------------------------------
(* What is deployed and what is remembered.                                *)

\* A call that is under way is the one its step makes: what it is made of does
\* not change before the reply is processed.
Asked == reply # "idle" => req \in NextRequests

\* A deposit starts without a primary, a refresh bundle without extras.
Alone ==
    /\ pc = "bid" => primary = NoPos
    /\ pc = "bundle" => extras = {} /\ routine = "quote"

\* Only an emergency exit of a live keeper makes calls, and it is on record.
BailsOut == pc \in CallPcs /\ routine \in EmergencyRoutines => bailed

\* A failed call has been counted, until its handler has ended.
Counted == reply = "failed" => failures # 0

ShapeInv == TypeInv /\ Asked /\ Alone /\ BailsOut /\ Counted

-----------------------------------------------------------------------------
(* The shape of handlers and calls                                         *)

LEMMA ShapeInit == Init => Asked /\ Alone /\ BailsOut /\ Counted
BY DEF Init, Asked, Alone, BailsOut, Counted, CallPcs, DeployPcs, EmergencyRoutines

\* Where a routine may be once its withdrawals are done.
LEMMA AfterWithdrawalsShape ==
    ASSUME NEW h, Finish(h) \/ AfterWithdrawals(h)
    PROVE  /\ pc' \notin {"polled", "bid", "ask", "bundle", "withdraw", "extras",
                       "announce", "hedge", "crashed"}
           /\ pc' \in CallPcs => routine' = routine
           /\ AfterWithdrawals(h) => routine # "quote"
BY DEF Finish, EndPc, AfterWithdrawals, Proceed, StopRoutines,
       EmergencyRoutines, CallPcs, DeployPcs

\* Only a step that starts or ends a call may change what it is made of.
LEMMA AskedStep == ASSUME TypeInv, Asked, [Next]_vars PROVE Asked'
<1>1. ASSUME UNCHANGED <<req, pc, plan, primary, activeBin, todo>>,
             reply' # "idle" => reply # "idle"
      PROVE  Asked'
  BY <1>1 DEF Asked, NextRequests, Opens
<1>2. ASSUME reply' = "idle" PROVE Asked'
  BY <1>2 DEF Asked
<1>3. CASE Return
  BY <1>2, <1>3, ReturnEnds DEF EndCall
<1>10. CASE EmitResult
  BY <1>1, <1>10 DEF EmitResult, Succeeded, Failed, Failures, loop, positions, polled
<1>11. CASE AnnounceNext
  <2>1. reply = "idle"
    BY <1>11 DEF AnnounceNext, TypeInv, CallShape, CallPcs, DeployPcs
  <2> QED
    BY <1>2, <1>11, <2>1 DEF AnnounceNext, calls
<1>4. pc \notin CallPcs => reply = "idle"
  BY DEF TypeInv, CallShape
<1>5. CASE Send
  BY <1>5 DEF Send, Asked, NextRequests, Opens, loop, positions, polled
<1>6. CASE \/ Poll \/ SentinelKill \/ Decide \/ HedgeStep \/ CloseEmergency \/ Stop
  <2>1. reply = "idle" /\ reply' = reply
    <3>1. pc \notin CallPcs
      BY <1>6 DEF Poll, SentinelKill, Decide, DecideEmergency, DecideStop,
         DecideDeRisk, DecideHold, DecideQuote, HedgeStep, CloseEmergency, Stop,
         CallPcs, DeployPcs
    <3> QED
      BY <1>4, <1>6, <3>1, LocalKeepsLedger DEF ledger
  <2> QED
    BY <1>2, <2>1
<1>7. CASE Raise \/ Crash
  BY <1>2, <1>7 DEF Raise, Crash
<1>8. CASE Restart
  <2>1. reply' = "idle"
    BY <1>4, <1>8 DEF Restart, calls, DownPcs, CallPcs, DeployPcs
  <2> QED
    BY <1>2, <2>1
<1>9. CASE \/ ReplyLost \/ ExecutorGivesUp \/ World \/ UNCHANGED vars
  BY <1>1, <1>9 DEF ReplyLost, ExecutorGivesUp, World, ExecutorAnswers,
     LateOutcome, SentinelRaised, vars, calls, loop, positions, polled
<1> QED
  BY <1>3, <1>5, <1>6, <1>7, <1>8, <1>9, <1>10, <1>11 DEF Next, Process, Faults

\* Only EmitResult ends in a failure, and it counts it.
LEMMA CountedStep == ASSUME TypeInv, Counted, [Next]_vars PROVE Counted'
<1> USE DEF Counted
<1>1. CASE EmitResult
  <2>1. reply' = "failed" => failures' = NextFailures /\ ~Succeeded
    BY <1>1 DEF EmitResult
  <2>2. ~Succeeded => NextFailures # 0
    BY FailuresAssumption DEF NextFailures, TypeInv, TypeOK
  <2> QED
    BY <2>1, <2>2
<1>2. CASE Return \/ Send \/ Raise \/ Crash \/ ExecutorAnswers
  BY <1>2, ReturnEnds DEF EndCall, Send, Raise, Crash, ExecutorAnswers
<1>3. CASE ReplyLost \/ ExecutorGivesUp
  BY <1>3 DEF ReplyLost, ExecutorGivesUp
<1>4. CASE \/ Poll \/ SentinelKill \/ Decide \/ HedgeStep \/ CloseEmergency \/ Stop
           \/ AnnounceNext \/ LateOutcome \/ SentinelRaised \/ UNCHANGED vars
  BY <1>4 DEF Poll, SentinelKill, Decide, DecideEmergency, StartEmergency, DecideStop,
     DecideDeRisk, DecideHold, DecideQuote, HedgeStep, CloseEmergency, Stop,
     AnnounceNext, LateOutcome, SentinelRaised, vars, calls, health
<1>5. CASE Restart
  BY <1>5 DEF Restart, calls, TypeInv, CallShape, DownPcs, CallPcs, DeployPcs
<1> QED
  BY <1>1, <1>2, <1>3, <1>4, <1>5 DEF Next, Process, Faults, World

LEMMA AloneStep ==
    ASSUME TypeInv, Alone, BailsOut, [Next]_vars
    PROVE  Alone' /\ BailsOut'
<1> USE DEF Alone, BailsOut
<1> DEFINE shape == <<pc, routine, primary, extras, bailed>>
<1>1. CASE UNCHANGED shape
  BY <1>1
<1>2. CASE Poll \/ Crash \/ Restart \/ Stop
  BY <1>2, WidthsAssumption
     DEF Poll, Crash, Restart, Stop, CallPcs, DeployPcs, EmergencyRoutines
<1>3. CASE SentinelKill \/ DecideEmergency
  BY <1>3, ModeAssumption
     DEF SentinelKill, DecideEmergency, StartEmergency, ExitPc, ShadowExit,
         CallPcs, DeployPcs
<1>4. ASSUME NEW h, Finish(h) PROVE Alone' /\ BailsOut'
  BY <1>4 DEF Finish, EndPc, CallPcs, DeployPcs
<1>5. CASE DecideStop \/ DecideDeRisk \/ DecideHold \/ HedgeStep \/ CloseEmergency \/ Raise
  BY <1>4, <1>5 DEF DecideStop, DecideDeRisk, DecideHold, HedgeStep,
     CloseEmergency, Raise, EmergencyRoutines
<1>6. CASE DecideQuote
  BY <1>6 DEF DecideQuote, EmergencyRoutines, positions
<1>7. CASE BidReturns \/ AskReturns \/ BundleReturns
  BY <1>7 DEF BidReturns, AskReturns, BundleReturns, Proceed, EndCall,
     CallPcs, DeployPcs, EmergencyRoutines
<1>8. CASE WithdrawReturns \/ ExtraReturns \/ SwapReturns
  <2>1. bailed' = bailed /\ pc \in CallPcs
    BY <1>8 DEF WithdrawReturns, ExtraReturns, SwapReturns, EndCall, CallPcs
  <2>2. CASE Finish(halted)
    BY <1>4, <2>2
  <2>3. CASE AfterWithdrawals(halted)
    BY <2>1, <2>3, AfterWithdrawalsShape
  <2>4. CASE ~Finish(halted) /\ ~AfterWithdrawals(halted)
    BY <1>8, <2>1, <2>4 DEF WithdrawReturns, ExtraReturns, SwapReturns, Proceed
  <2> QED
    BY <2>2, <2>3, <2>4
<1>9. CASE Send \/ ReplyLost \/ ExecutorGivesUp \/ World \/ UNCHANGED vars
  BY <1>1, <1>9 DEF Send, ReplyLost, ExecutorGivesUp, World, ExecutorAnswers,
     LateOutcome, SentinelRaised, vars, positions
<1>10. CASE EmitResult
  BY <1>1, <1>10 DEF EmitResult, positions
<1>11. CASE AnnounceNext
  BY <1>11 DEF AnnounceNext, Proceed, CallPcs, DeployPcs
<1> QED
  BY <1>2, <1>3, <1>5, <1>6, <1>7, <1>8, <1>9, <1>10, <1>11
     DEF Next, Process, Decide, Return, Faults

LEMMA ShapeInvariant == Spec => []ShapeInv
<1> DEFINE Shape == Asked /\ Alone /\ BailsOut /\ Counted
<1>1. TypeInv /\ Shape /\ [Next]_vars => Shape'
  BY AskedStep, AloneStep, CountedStep
<1>2. Init => Shape
  BY ShapeInit
<1>3. TypeInv /\ Shape => ShapeInv
  BY DEF ShapeInv
<1> HIDE DEF Shape
<1> QED
  BY <1>1, <1>2, <1>3, TypeCorrect, PTL DEF Spec
-----------------------------------------------------------------------------
(* A dry run touches nothing                                               *)

\* A keeper that is not live never comes to a call, so nothing is in flight.
ShadowInv == mode # "live" => pc \notin CallPcs /\ live = Tracked /\ pending = {}

LEMMA ShadowStep ==
    ASSUME TypeInv, LogInv, ShadowInv, [Next]_vars
    PROVE  ShadowInv'
<1> SUFFICES ASSUME mode' # "live"
             PROVE  pc' \notin CallPcs /\ live' = Tracked' /\ pending' = {}
  BY DEF ShadowInv
<1>1. mode' = mode
  BY DEF Next, Process, Poll, SentinelKill, Decide, DecideEmergency, StartEmergency,
     DecideStop, DecideDeRisk, DecideHold, DecideQuote, HedgeStep, Send, Return,
     BidReturns, AskReturns, BundleReturns, WithdrawReturns, ExtraReturns,
     SwapReturns, EndCall, EmitResult, AnnounceNext, CloseEmergency, Stop, Restart,
     Faults, Raise, Crash,
     ReplyLost, ExecutorGivesUp, World, ExecutorAnswers, LateOutcome,
     SentinelRaised, vars
<1>2. pc \notin CallPcs /\ live = Tracked /\ pending = {} /\ reply = "idle"
  BY <1>1 DEF ShadowInv, TypeInv, CallShape
<1>3. ASSUME NEW h, Finish(h) PROVE pc' \notin CallPcs
  BY <1>3 DEF Finish, EndPc, CallPcs, DeployPcs
<1>4. CASE \/ Poll \/ SentinelKill \/ Decide \/ HedgeStep \/ CloseEmergency
           \/ Stop \/ SentinelRaised
  <2>1. live' = live /\ pending' = pending
    BY <1>4, LocalKeepsLedger DEF ledger
  <2>2. Tracked' = Tracked
    BY <1>4 DEF Poll, SentinelKill, Decide, DecideEmergency, StartEmergency,
       DecideStop, DecideDeRisk, DecideHold, DecideQuote, HedgeStep,
       CloseEmergency, Stop, SentinelRaised, positions, Tracked
  <2>3. pc' \notin CallPcs
    BY <1>1, <1>2, <1>3, <1>4 DEF Poll, SentinelKill, Decide, DecideEmergency,
       StartEmergency, ShadowExit, DecideStop, DecideDeRisk, DecideHold,
       DecideQuote, HedgeStep, CloseEmergency, Stop, SentinelRaised,
       CallPcs, DeployPcs
  <2> QED
    BY <1>2, <2>1, <2>2, <2>3
<1>5. CASE Restart
  <2>1. live \subseteq opened \cup named \cup suspect /\ live \subseteq Pid
    BY <1>2 DEF LogInv, LogCoversChain, InFlight, TypeInv, CallShape, NoReq, TypeOK
  <2>2. live \cap (opened \cup named \cup suspect) = live
    BY <2>1
  <2>3. /\ primary' \in (IF live = {} THEN {NoPos} ELSE live)
        /\ extras' = live \ {primary'}
        /\ live' = live /\ pending' = pending /\ pc' = "rest"
    BY <1>5, <2>2 DEF Restart
  <2>4. Tracked' = live
    BY <2>1, <2>3, NoPosAssumption DEF Tracked
  <2> QED
    BY <1>2, <2>3, <2>4 DEF CallPcs, DeployPcs
<1>6. CASE Crash
  BY <1>2, <1>6 DEF Crash, positions, Tracked, CallPcs, DeployPcs
<1>7. CASE UNCHANGED vars
  BY <1>2, <1>7 DEF vars, positions, Tracked
<1>9. CASE AnnounceNext
  <2>1. UNCHANGED <<live, pending, primary, extras>> /\ pc' \notin CallPcs
    BY <1>9 DEF AnnounceNext, Proceed, positions, CallPcs, DeployPcs
  <2> QED
    BY <1>2, <2>1 DEF Tracked
<1>8. CASE Send \/ EmitResult \/ Return \/ LateOutcome \/ Raise \/ ReplyLost \/ ExecutorGivesUp \/ ExecutorAnswers
  <2>1. Send \/ Return => pc \in CallPcs
    BY DEF Send, Return, BidReturns, AskReturns, BundleReturns, WithdrawReturns,
       ExtraReturns, SwapReturns, CallPcs, DeployPcs
  <2>2. ~LateOutcome
    BY <1>2 DEF LateOutcome
  <2> QED
    BY <1>2, <1>8, <2>1, <2>2 DEF EmitResult, Succeeded, Failed, Failures, Raise,
       ReplyLost, ExecutorGivesUp, ExecutorAnswers
<1> QED
  BY <1>4, <1>5, <1>6, <1>7, <1>8, <1>9 DEF Next, Process, Faults, World

\* Whatever is decided, polled or restarted, a keeper in shadow mode makes no
\* signed call, and its positions are what the log last left it.
THEOREM ShadowsSubmitNothing == Spec => []ShadowSubmitsNothing
<1>1. Init => ShadowInv
  BY DEF Init, ShadowInv, CallPcs, DeployPcs
<1>2. TypeInv /\ LogInv /\ ShadowInv /\ [Next]_vars => ShadowInv'
  BY ShadowStep
<1>3. ShadowInv => ShadowSubmitsNothing
  BY DEF ShadowInv, ShadowSubmitsNothing
<1> QED
  BY <1>1, <1>2, <1>3, TypeCorrect, LogInvariant, PTL DEF Spec

-----------------------------------------------------------------------------
(* A refresh moves the ladder                                              *)

\* From the decision to the bundle, through the withdrawals of the extras,
\* the reason to refresh stands.
ChurnInv ==
    routine = "quote" /\ pc \in {"bundle", "extras"} => Drifted \/ NewlyWidened(plan)

LEMMA ChurnStep ==
    ASSUME ShapeInv, ChurnInv, [Next]_vars
    PROVE  ChurnInv'
<1> SUFFICES ASSUME routine' = "quote", pc' \in {"bundle", "extras"}
             PROVE  (Drifted \/ NewlyWidened(plan))'
  BY DEF ChurnInv
<1>1. ASSUME UNCHANGED <<activeBin, centerBin, deployedWidened, plan>>,
             Drifted \/ NewlyWidened(plan)
      PROVE  (Drifted \/ NewlyWidened(plan))'
  BY <1>1 DEF Drifted, Drift, NewlyWidened
<1>2. ASSUME UNCHANGED <<pc, routine, activeBin, centerBin, deployedWidened, plan>>
      PROVE  (Drifted \/ NewlyWidened(plan))'
  BY <1>1, <1>2 DEF ChurnInv
<1>3. CASE DecideQuote
  BY <1>3 DEF DecideQuote, Drifted, Drift, NewlyWidened, anchors, polled
<1>4. CASE ExtraReturns
  <2>1. ~AfterWithdrawals(halted)
    BY AfterWithdrawalsShape
  <2>2. pc = "extras" /\ UNCHANGED <<routine, plan, anchors, polled>>
    BY <1>4, <2>1 DEF ExtraReturns, EndCall, Proceed
  <2> QED
    BY <1>1, <2>2 DEF ChurnInv, anchors, polled
<1>5. ~WithdrawReturns
  BY AfterWithdrawalsShape
     DEF WithdrawReturns, Proceed, ShapeInv, TypeInv, HasPrimary
<1>6. /\ ~Poll /\ ~SentinelKill /\ ~DecideEmergency /\ ~DecideStop
      /\ ~DecideDeRisk /\ ~DecideHold /\ ~HedgeStep /\ ~CloseEmergency
      /\ ~BidReturns /\ ~AskReturns /\ ~BundleReturns /\ ~SwapReturns
      /\ ~AnnounceNext /\ ~Stop /\ ~Restart /\ ~Raise /\ ~Crash
  BY DEF Poll, SentinelKill, DecideEmergency, StartEmergency, DecideStop,
     DecideDeRisk, DecideHold, HedgeStep, CloseEmergency, BidReturns, AskReturns,
     BundleReturns, SwapReturns, AnnounceNext, Stop, Restart, Raise, Crash, Finish,
     EndPc, Proceed, ExitPc, ShadowExit
<1>7. CASE Send \/ EmitResult \/ ReplyLost \/ ExecutorGivesUp \/ World \/ UNCHANGED vars
  BY <1>2, <1>7 DEF Send, EmitResult, ReplyLost, ExecutorGivesUp, World, ExecutorAnswers,
     LateOutcome, SentinelRaised, vars, anchors, polled
<1> QED
  BY <1>3, <1>4, <1>5, <1>6, <1>7 DEF Next, Process, Decide, Return, Faults

\* No refresh replaces a ladder by the same one, for any threshold: by the
\* time of its bundle it still moves the anchor or turns the ladder wide.
THEOREM RefreshesMove == Spec => []NoChurn
<1>1. Init => ChurnInv
  BY DEF Init, ChurnInv
<1>2. ShapeInv /\ ChurnInv /\ [Next]_vars => ChurnInv'
  BY ChurnStep
<1>3. ShapeInv /\ ChurnInv => NoChurn
  <2> SUFFICES ASSUME ShapeInv, ChurnInv, pc = "bundle"
               PROVE  <<activeBin, plan.wide>> # <<centerBin, deployedWidened>>
    BY DEF NoChurn
  <2>1. CASE Drifted
    <3>1. activeBin \in Int /\ centerBin \in Int
      BY BinsAssumption DEF ShapeInv, TypeInv, TypeOK
    <3>2. Distance(activeBin, centerBin) >= 1
      BY <2>1, <3>1, DriftAssumption DEF Drifted, Drift, Distance
    <3> QED
      BY <3>1, <3>2 DEF Distance
  <2>2. CASE NewlyWidened(plan)
    BY <2>2 DEF NewlyWidened
  <2> QED
    BY <2>1, <2>2 DEF ShapeInv, Alone, ChurnInv
<1> QED
  BY <1>1, <1>2, <1>3, ShapeInvariant, PTL DEF Spec
-----------------------------------------------------------------------------
(* The ladder follows the price                                            *)

\* The anchors name the ladder that is deployed, unless none is known.
Anchored ==
    primary # NoPos /\ centerBin # 0
        => primary.bin = centerBin /\ primary.wide = deployedWidened

\* An ask leg follows a bid leg of the same cycle, or a refused one, and the
\* events of a refresh follow its bundle.
AskFollows == pc \in {"ask", "announce"} /\ primary # NoPos => centerBin = activeBin

LadderInv == Anchored /\ AskFollows /\ LadderFollowsPrice

LEMMA LadderInvReturn ==
    ASSUME ShapeInv, LadderInv, Return
    PROVE  LadderInv'
<1> USE DEF LadderInv, Anchored, AskFollows, LadderFollowsPrice
<1>1. UNCHANGED <<polled, health>> /\ reply \in Results
  BY ReturnEnds DEF EndCall, Ended
<1>2. ~Done => failures' # 0
  BY <1>1 DEF ShapeInv, Counted, Done, Results, health
<1>4. Distance(activeBin, activeBin) < DriftThreshold
  BY BinsAssumption, DriftAssumption DEF Distance, ShapeInv, TypeInv, TypeOK
<1>5. req \in NextRequests
  BY <1>1 DEF ShapeInv, Asked, Results
<1>6. activeBin' = activeBin
  BY <1>1 DEF polled
<1>7. CASE BidReturns
  <2>1. CASE Done
    <3>1. /\ primary' = Position("bid", activeBin, plan.wide)
          /\ centerBin' = activeBin /\ deployedWidened' = plan.wide
      BY <1>7, <2>1 DEF BidReturns
    <3>2. primary'.bin = activeBin /\ primary'.wide = plan.wide
      BY <3>1 DEF Position
    <3> QED
      BY <1>4, <1>6, <3>1, <3>2
  <2>2. CASE ~Done
    <3>1. UNCHANGED <<primary, anchors>> /\ primary = NoPos
      BY <1>7, <2>2 DEF BidReturns, ShapeInv, Alone
    <3> QED
      BY <3>1
  <2> QED
    BY <2>1, <2>2
<1>8. CASE AskReturns
  <2>1. UNCHANGED <<primary, anchors>> /\ pc = "ask" /\ pc' = "hedge"
    BY <1>8 DEF AskReturns, Proceed
  <2>2. primary # NoPos /\ centerBin # 0 => primary.bin = activeBin
    BY <2>1
  <2> QED
    BY <1>4, <1>6, <2>1, <2>2 DEF anchors
<1>9. CASE BundleReturns
  <2>1. CASE Done
    <3>1. /\ primary' \in Opens(plan.sides)
          /\ centerBin' = activeBin /\ deployedWidened' = plan.wide
          /\ pc' = "announce"
      BY <1>5, <1>9, <2>1 DEF BundleReturns, PrimaryChoices, NextRequests, Proceed
    <3>2. primary'.bin = activeBin /\ primary'.wide = plan.wide
      BY <3>1 DEF Opens, Position
    <3> QED
      BY <1>4, <1>6, <3>1, <3>2
  <2>2. CASE ~Done
    <3>1. UNCHANGED <<primary, anchors>> /\ pc' = "hedge" /\ failures' # 0
      BY <1>2, <1>9, <2>2 DEF BundleReturns, Proceed, positions
    <3> QED
      BY <3>1 DEF anchors
  <2> QED
    BY <2>1, <2>2
<1>10. CASE WithdrawReturns
  <2>1. (primary' = NoPos \/ primary' = primary) /\ UNCHANGED anchors
    BY <1>10 DEF WithdrawReturns
  <2>2. pc' \notin {"ask", "announce", "hedge"}
    BY <1>10, AfterWithdrawalsShape DEF WithdrawReturns, Proceed
  <2> QED
    BY <2>1, <2>2 DEF anchors
<1>11. CASE ExtraReturns
  <2>1. UNCHANGED <<primary, anchors>>
    BY <1>11 DEF ExtraReturns
  <2>2. pc' \notin {"ask", "announce"} /\ (pc' = "hedge" => kept' # {})
    BY <1>11, AfterWithdrawalsShape DEF ExtraReturns, Proceed
  <2> QED
    BY <2>1, <2>2 DEF anchors
<1>12. CASE SwapReturns
  <2>1. UNCHANGED <<primary, anchors>> /\ pc' \notin {"ask", "announce", "hedge"}
    BY <1>12 DEF SwapReturns, Finish, EndPc, Proceed, positions
  <2> QED
    BY <2>1 DEF anchors
<1> QED
  BY <1>7, <1>8, <1>9, <1>10, <1>11, <1>12 DEF Return

LEMMA LadderInvStep ==
    ASSUME ShapeInv, LadderInv, [Next]_vars
    PROVE  LadderInv'
<1> USE DEF LadderInv, Anchored, AskFollows, LadderFollowsPrice
<1>1. ASSUME UNCHANGED <<primary, centerBin, deployedWidened>>,
             pc' \notin {"ask", "announce", "hedge"}
      PROVE  LadderInv'
  BY <1>1
<1>2. ASSUME UNCHANGED <<primary, centerBin, deployedWidened, pc, activeBin,
                         mode, failures, kept>>
      PROVE  LadderInv'
  BY <1>2
<1>3. ASSUME NEW h, Finish(h) PROVE pc' \notin {"ask", "announce", "hedge"}
  BY <1>3 DEF Finish, EndPc
<1>4. CASE DecideQuote
  <2>1. UNCHANGED <<primary, centerBin, deployedWidened, activeBin, mode>>
    BY <1>4 DEF DecideQuote, positions, anchors, polled
  <2>2. (pc' = "ask" => primary = NoPos) /\ pc' # "announce"
    BY <1>4 DEF DecideQuote
  <2>3. pc' = "hedge" /\ mode = "live" => ~Drifted
    BY <1>4 DEF DecideQuote
  <2>4. ~Drifted /\ centerBin # 0 => Distance(activeBin, centerBin) < DriftThreshold
    BY BinsAssumption, DriftAssumption
       DEF Drifted, Drift, Distance, ShapeInv, TypeInv, TypeOK
  <2> QED
    BY <2>1, <2>2, <2>3, <2>4
<1>5. CASE Poll \/ SentinelKill \/ DecideEmergency \/ Crash \/ Stop
  BY <1>1, <1>5 DEF Poll, SentinelKill, DecideEmergency, StartEmergency, ExitPc,
     ShadowExit, Crash, Stop, positions, anchors
<1>6. CASE \/ DecideStop \/ DecideDeRisk \/ DecideHold \/ HedgeStep
           \/ CloseEmergency \/ Raise
  BY <1>1, <1>3, <1>6 DEF DecideStop, DecideDeRisk, DecideHold, HedgeStep,
     CloseEmergency, Raise, positions, anchors
<1>7. CASE Restart
  BY <1>7 DEF Restart
<1>8. CASE Send \/ ReplyLost \/ ExecutorGivesUp \/ World \/ UNCHANGED vars
  BY <1>2, <1>8 DEF Send, ReplyLost, ExecutorGivesUp, World, ExecutorAnswers,
     LateOutcome, SentinelRaised, vars, positions, anchors, polled, health, loop
<1>9. CASE EmitResult
  <2>1. UNCHANGED <<primary, centerBin, deployedWidened, pc, activeBin>>
    BY <1>9 DEF EmitResult, positions, anchors, polled
  <2>2. pc \in CallPcs
    BY <1>9 DEF EmitResult, Succeeded, Failed, Failures, ShapeInv, TypeInv, CallShape
  <2> QED
    BY <2>1, <2>2 DEF CallPcs, DeployPcs
<1>10. CASE AnnounceNext
  <2>1. UNCHANGED <<primary, centerBin, deployedWidened, activeBin, kept, mode>>
    BY <1>10 DEF AnnounceNext, positions, anchors, polled
  <2>2. pc = "announce" /\ pc' \in {"hedge", "announce"}
    BY <1>10 DEF AnnounceNext, Proceed
  <2>3. Distance(activeBin, activeBin) < DriftThreshold
    BY BinsAssumption, DriftAssumption DEF Distance, ShapeInv, TypeInv, TypeOK
  <2> QED
    BY <2>1, <2>2, <2>3
<1> HIDE DEF LadderInv
<1> QED
  BY <1>4, <1>5, <1>6, <1>7, <1>8, <1>9, <1>10, LadderInvReturn
     DEF Next, Process, Decide, Faults

\* For any threshold: a live cycle that quoted without a failure leaves a ladder
\* within the threshold of the price it polled, and anchors that name it.
THEOREM LaddersFollowPrice == Spec => []LadderFollowsPrice
<1>1. Init => LadderInv
  BY DEF Init, LadderInv, Anchored, AskFollows, LadderFollowsPrice
<1>2. ShapeInv /\ LadderInv /\ [Next]_vars => LadderInv'
  BY LadderInvStep
<1>3. LadderInv => LadderFollowsPrice
  BY DEF LadderInv
<1> QED
  BY <1>1, <1>2, <1>3, ShapeInvariant, PTL DEF Spec
-----------------------------------------------------------------------------
(* Memory covers the chain                                                 *)

\* While the extras are withdrawn one by one, those already taken off the list
\* are gone, kept for the next time, or in doubt.
LoopCovers == pc = "extras" => live \cap extras \subseteq todo \cup kept \cup suspect

\* A call that has not been answered, or was refused, has opened nothing.
QuietCovers ==
    reply \in {"wait", "refused"} => live \subseteq Tracked \cup suspect

MemoryInv ==
    ~bailed /\ pc \notin DownPcs
        => /\ live \subseteq Tracked \cup suspect \cup Unadopted
           /\ LoopCovers /\ QuietCovers

\* Between calls the keeper neither finds nor forgets a position.
LEMMA LocalKeepsMemory ==
    ASSUME \/ Poll \/ SentinelKill \/ Decide \/ HedgeStep \/ CloseEmergency
           \/ Stop \/ SentinelRaised
    PROVE  \/ UNCHANGED <<primary, extras>> /\ (bailed => bailed') /\ pc \notin DownPcs
           \/ UNCHANGED <<primary, extras, bailed, pc, todo, kept>>
<1> USE DEF positions, loop, StartEmergency, DownPcs
<1>1. CASE Poll \/ SentinelKill \/ HedgeStep \/ CloseEmergency \/ Stop \/ SentinelRaised
  BY <1>1 DEF Poll, SentinelKill, HedgeStep, CloseEmergency, Stop, SentinelRaised
<1>2. CASE Decide
  BY <1>2 DEF Decide, DecideEmergency, DecideStop, DecideDeRisk, DecideHold, DecideQuote
<1> QED
  BY <1>1, <1>2

\* A loop over the extras starts with all of them.
LEMMA LocalStartsLoop ==
    ASSUME \/ Poll \/ SentinelKill \/ Decide \/ HedgeStep \/ CloseEmergency
           \/ Stop \/ SentinelRaised,
           pc' = "extras"
    PROVE  todo' = extras \/ UNCHANGED <<pc, todo, kept>>
<1> USE DEF loop, StartEmergency, ExitPc, ShadowExit, Finish, EndPc
<1>1. CASE Poll \/ SentinelKill \/ HedgeStep \/ CloseEmergency \/ Stop \/ SentinelRaised
  BY <1>1 DEF Poll, SentinelKill, HedgeStep, CloseEmergency, Stop, SentinelRaised
<1>2. CASE Decide
  BY <1>2 DEF Decide, DecideEmergency, DecideStop, DecideDeRisk, DecideHold, DecideQuote
<1> QED
  BY <1>1, <1>2

LEMMA MemoryInvLocal ==
    ASSUME ShapeInv, MemoryInv,
           \/ Poll \/ SentinelKill \/ Decide \/ HedgeStep \/ CloseEmergency
           \/ Stop \/ SentinelRaised
    PROVE  MemoryInv'
<1>1. UNCHANGED ledger
  BY LocalKeepsLedger
<1>2. CASE UNCHANGED <<primary, extras, bailed, pc, todo, kept>>
  BY <1>1, <1>2 DEF MemoryInv, LoopCovers, QuietCovers, Tracked, Unadopted, ledger
<1>3. CASE UNCHANGED <<primary, extras>> /\ (bailed => bailed') /\ pc \notin DownPcs
  <2>1. SUFFICES ASSUME ~bailed', pc' \notin DownPcs
                 PROVE  /\ live' \subseteq Tracked' \cup suspect' \cup Unadopted'
                        /\ LoopCovers' /\ QuietCovers'
    BY DEF MemoryInv
  <2>2. Tracked' = Tracked
    BY <1>3 DEF Tracked
  <2>3. live \subseteq Tracked \cup suspect \cup Unadopted /\ LoopCovers /\ QuietCovers
    BY <1>3, <2>1 DEF MemoryInv
  <2>4. LoopCovers'
    BY <1>1, <1>3, <2>3, LocalStartsLoop DEF LoopCovers, ledger
  <2>5. QuietCovers'
    BY <1>1, <2>2, <2>3 DEF QuietCovers, ledger
  <2> QED
    BY <1>1, <2>2, <2>3, <2>4, <2>5 DEF ledger, Unadopted
<1> QED
  BY <1>2, <1>3, LocalKeepsMemory

\* What a handler does with the ids: it may forget only what a successful call
\* closed, or extras it handled, and remembers whatever one opened.
LEMMA MemoryInvReturn ==
    ASSUME ShapeInv, LogInv, MemoryInv, Return
    PROVE  MemoryInv'
<1> SUFFICES ASSUME ~bailed', pc' \notin DownPcs
             PROVE  live' \subseteq Tracked' \cup suspect' /\ LoopCovers' /\ QuietCovers'
  BY DEF MemoryInv
<1>1. /\ live' = live /\ bailed' = bailed /\ reply' = "idle"
      /\ suspect' = suspect /\ reply \in Results
  BY ReturnEnds DEF EndCall, Ended
<1>2. QuietCovers'
  BY <1>1 DEF QuietCovers
<1>3. pc \notin DownPcs /\ req \in NextRequests
  BY <1>1 DEF ShapeInv, Asked, Results, DownPcs, Return,
     BidReturns, AskReturns, BundleReturns, WithdrawReturns, ExtraReturns, SwapReturns
<1>4. live \subseteq Tracked \cup suspect \cup req.opens /\ LoopCovers
  BY <1>1, <1>3 DEF MemoryInv, Unadopted
<1>5. ~Done => live \subseteq Tracked \cup suspect'
  BY <1>1, <1>3 DEF MemoryInv, Unadopted, Done, Results
<1>6. Done => live \cap req.closes \subseteq req.opens \cup suspect
  BY DEF LogInv, ClosedIsGone, Done
<1>7. CASE BidReturns
  <2>1. pc' # "extras" /\ extras' = extras /\ pc = "bid" /\ primary = NoPos
    BY <1>7 DEF BidReturns, Proceed, ShapeInv, Alone
  <2>2. CASE Done
    <3>1. primary' = Position("bid", activeBin, plan.wide)
      BY <1>7, <2>2 DEF BidReturns
    <3>2. req.opens = {primary'}
      BY <1>3, <2>1, <3>1 DEF NextRequests, Opens
    <3>3. primary' # NoPos
      BY <3>1, PositionType, NoPosAssumption DEF ShapeInv
    <3>4. Tracked' = extras \cup req.opens /\ Tracked = extras
      BY <2>1, <3>2, <3>3 DEF Tracked
    <3> QED
      BY <1>1, <1>2, <1>4, <2>1, <3>4 DEF LoopCovers
  <2>3. CASE ~Done
    <3>1. Tracked' = Tracked
      BY <1>7, <2>1, <2>3 DEF BidReturns, Tracked
    <3> QED
      BY <1>1, <1>2, <1>5, <2>1, <2>3, <3>1 DEF LoopCovers
  <2> QED
    BY <2>2, <2>3
<1>8. CASE AskReturns
  <2>1. /\ pc' # "extras" /\ primary' = primary
        /\ extras' = extras \cup IF Done THEN req.opens \ {primary} ELSE {}
    BY <1>8 DEF AskReturns, Proceed
  <2>2. Done => Tracked \cup req.opens \subseteq Tracked'
    <3>1. req.opens \subseteq Pid
      BY DEF ShapeInv, TypeInv, TypeOK, Request
    <3> QED
      BY <2>1, <3>1, NoPosAssumption DEF Tracked
  <2>3. Tracked \subseteq Tracked'
    BY <2>1 DEF Tracked
  <2> QED
    BY <1>1, <1>2, <1>4, <1>5, <2>1, <2>2, <2>3 DEF LoopCovers
<1>9. CASE BundleReturns
  <2>1. pc' # "extras" /\ pc = "bundle" /\ extras = {}
    BY <1>9 DEF BundleReturns, Proceed, ShapeInv, Alone
  <2>2. CASE Done
    <3>1. primary' \in req.opens /\ extras' = req.opens \ {primary'}
      BY <1>9, <2>2 DEF BundleReturns, PrimaryChoices
    <3>2. primary' # NoPos
      BY <3>1, NoPosAssumption DEF ShapeInv, TypeInv, TypeOK, Request
    <3>3. Tracked' = req.opens
      BY <3>1, <3>2 DEF Tracked
    <3>4. req.closes = {primary}
      BY <1>3, <2>1 DEF NextRequests
    <3>5. Tracked \subseteq req.closes
      BY <2>1, <3>4 DEF Tracked
    <3> QED
      BY <1>1, <1>2, <1>4, <1>6, <2>1, <2>2, <3>3, <3>5 DEF LoopCovers
  <2>3. CASE ~Done
    <3>1. Tracked' = Tracked
      BY <1>9, <2>3 DEF BundleReturns, Tracked, positions
    <3> QED
      BY <1>1, <1>2, <1>5, <2>1, <2>3, <3>1 DEF LoopCovers
  <2> QED
    BY <2>2, <2>3
<1>10. CASE WithdrawReturns
  <2>1. pc = "withdraw" /\ extras' = extras
    BY <1>10 DEF WithdrawReturns
  <2>2. req.closes = {primary} /\ req.opens = {}
    BY <1>3, <2>1 DEF NextRequests
  <2>3. routine \notin EmergencyRoutines
    BY <1>1, <2>1 DEF ShapeInv, BailsOut, CallPcs
  <2>4. CASE Done
    <3>1. primary' = NoPos /\ todo' = extras
      BY <1>10, <2>3, <2>4 DEF WithdrawReturns
    <3>2. Tracked \subseteq Tracked' \cup req.closes
      BY <2>1, <2>2, <3>1 DEF Tracked
    <3> QED
      BY <1>1, <1>2, <1>4, <1>6, <2>1, <2>2, <2>4, <3>1, <3>2 DEF LoopCovers
  <2>5. CASE ~Done
    <3>1. primary' = primary /\ Finish(halted)
      BY <1>10, <2>3, <2>5 DEF WithdrawReturns
    <3>2. Tracked' = Tracked /\ pc' # "extras"
      BY <2>1, <3>1 DEF Tracked, Finish, EndPc
    <3> QED
      BY <1>1, <1>2, <1>5, <2>5, <3>2 DEF LoopCovers
  <2> QED
    BY <2>4, <2>5
<1>11. CASE ExtraReturns
  <2>1. pc = "extras" /\ primary' = primary /\ todo' = todo \ req.closes /\ kept' = NextKept
    BY <1>11 DEF ExtraReturns, Handled
  <2>2. req.opens = {}
    BY <1>3, <2>1 DEF NextRequests
  <2>3. live \cap extras \subseteq todo' \cup kept' \cup suspect'
    <3>1. live \cap extras \subseteq todo \cup kept \cup suspect
      BY <1>4, <2>1 DEF LoopCovers
    <3> QED
      BY <1>1, <1>6, <2>1, <2>2, <3>1 DEF NextKept
  <2>4. CASE todo' # {}
    <3>1. extras' = extras
      BY <1>11, <2>4 DEF ExtraReturns
    <3> QED
      BY <1>1, <1>2, <1>4, <2>1, <2>2, <2>3, <3>1 DEF LoopCovers, Tracked
  <2>5. CASE todo' = {}
    <3>1. extras' = kept' /\ pc' # "extras"
      BY <1>11, <2>5, AfterWithdrawalsShape DEF ExtraReturns, Proceed
    <3>2. live \cap extras \subseteq extras' \cup suspect'
      BY <2>3, <2>5, <3>1
    <3> QED
      BY <1>1, <1>2, <1>4, <2>1, <2>2, <3>1, <3>2 DEF LoopCovers, Tracked
  <2> QED
    BY <2>4, <2>5
<1>12. CASE SwapReturns
  <2>1. pc = "swap" /\ UNCHANGED <<primary, extras>> /\ pc' # "extras"
    BY <1>12 DEF SwapReturns, Finish, EndPc, Proceed, positions
  <2>2. req.opens = {}
    BY <1>3, <2>1 DEF NextRequests, NoReq
  <2>3. Tracked' = Tracked
    BY <2>1 DEF Tracked
  <2> QED
    BY <1>1, <1>2, <1>4, <2>1, <2>2, <2>3 DEF LoopCovers
<1> QED
  BY <1>7, <1>8, <1>9, <1>10, <1>11, <1>12 DEF Return

LEMMA MemoryInvStep ==
    ASSUME ShapeInv, LogInv, MemoryInv, [Next]_vars
    PROVE  MemoryInv'
<1>1. CASE Return
  BY <1>1, MemoryInvReturn
<1>2. CASE \/ Poll \/ SentinelKill \/ Decide \/ HedgeStep \/ CloseEmergency
           \/ Stop \/ SentinelRaised
  BY <1>2, MemoryInvLocal
<1>3. reply = "idle" => req.opens = {}
  BY DEF ShapeInv, TypeInv, CallShape, NoReq
<1>4. reply # "idle" => pc \notin DownPcs /\ (pc = "extras" => req.opens = {})
  BY DEF ShapeInv, TypeInv, CallShape, CallPcs, DeployPcs, DownPcs, Asked, NextRequests
<1>5. CASE Send
  BY <1>3, <1>5 DEF Send, MemoryInv, LoopCovers, QuietCovers, Tracked, Unadopted,
     loop, positions, log
<1>6. CASE Raise
  <2>1. pc' # "extras" /\ reply' = "idle"
    BY <1>6 DEF Raise, Finish, EndPc
  <2>2. pc \notin DownPcs /\ suspect' = suspect \cup req.opens
    BY <1>4, <1>6 DEF Raise
  <2> QED
    BY <1>6, <2>1, <2>2 DEF Raise, MemoryInv, LoopCovers, QuietCovers, Tracked,
       Unadopted, positions
<1>7. CASE Crash
  BY <1>7 DEF Crash, MemoryInv, DownPcs
<1>8. CASE Restart
  <2>1. reply = "idle"
    BY <1>4, <1>8 DEF Restart
  <2>2. live \subseteq opened \cup named \cup suspect /\ live \subseteq Pid
    BY <1>3, <2>1 DEF LogInv, LogCoversChain, InFlight, ShapeInv, TypeInv, TypeOK
  <2>3. live \cap (opened \cup named \cup suspect) = live
    BY <2>2
  <2>4. /\ primary' \in (IF live = {} THEN {NoPos} ELSE live)
        /\ extras' = live \ {primary'}
        /\ live' = live /\ pc' = "rest" /\ reply' = reply
    BY <1>8, <2>3 DEF Restart, calls
  <2>5. live' \subseteq Tracked'
    BY <2>2, <2>4, NoPosAssumption DEF Tracked
  <2> QED
    BY <2>4, <2>5 DEF MemoryInv, LoopCovers, QuietCovers
<1>9. CASE ReplyLost \/ ExecutorGivesUp
  BY <1>9 DEF ReplyLost, ExecutorGivesUp, MemoryInv, LoopCovers, QuietCovers,
     Tracked, Unadopted, loop, positions, log
<1>10. CASE ExecutorAnswers
  <2>1. /\ UNCHANGED <<pc, bailed, suspect, req, todo, kept, primary, extras>>
        /\ reply = "wait" /\ live' \subseteq live \cup req.opens
        /\ reply' \in {"ok", "refused", "partial"}
        /\ reply' = "refused" => live' = live
    BY <1>10 DEF ExecutorAnswers, Lands, LandsInPart, loop, positions, log
  <2> QED
    BY <1>4, <2>1 DEF MemoryInv, LoopCovers, QuietCovers, Tracked, Unadopted
<1>11. CASE LateOutcome
  <2>1. PICK r \in pending :
           live' \subseteq live \cup r.opens
    BY <1>11 DEF LateOutcome, Lands, LandsInPart
  <2>2. r.opens \subseteq suspect \/ (reply \in {"pending", "unknown"} /\ r = req)
    BY DEF LogInv, PendingInDoubt
  <2>3. UNCHANGED <<pc, bailed, suspect, req, reply, todo, kept, primary, extras>>
    BY <1>11 DEF LateOutcome, calls, loop, positions, log
  <2> QED
    BY <1>4, <2>1, <2>2, <2>3 DEF MemoryInv, LoopCovers, QuietCovers, Tracked, Unadopted
<1>12. CASE UNCHANGED vars
  BY <1>12 DEF vars, calls, loop, positions, log, MemoryInv, LoopCovers,
     QuietCovers, Tracked, Unadopted
<1>13. CASE EmitResult
  <2>1. /\ UNCHANGED <<pc, bailed, live, req, todo, kept, primary, extras>>
        /\ suspect' = NextSuspect /\ suspect \subseteq suspect'
        /\ reply' = IF Succeeded THEN "done" ELSE "failed"
        /\ Succeeded \/ Failed
    BY <1>13 DEF EmitResult, NextSuspect, loop, positions
  <2>2. SUFFICES ASSUME ~bailed, pc \notin DownPcs
                 PROVE  live' \subseteq Tracked' \cup suspect' \cup Unadopted'
    BY <2>1 DEF MemoryInv, LoopCovers, QuietCovers
  <2>3. Tracked' = Tracked /\ live' = live
    BY <2>1 DEF Tracked
  <2>4. live \subseteq Tracked \cup suspect \cup req.opens /\ QuietCovers
    BY <2>1, <2>2 DEF MemoryInv, Unadopted
  <2>5. CASE Succeeded
    BY <2>1, <2>3, <2>4, <2>5 DEF Unadopted
  <2>6. CASE reply = "refused"
    BY <2>1, <2>3, <2>4, <2>6 DEF QuietCovers
  <2>7. CASE reply \in {"partial", "pending", "unknown"}
    BY <2>1, <2>3, <2>4, <2>7 DEF NextSuspect
  <2> QED
    BY <2>1, <2>5, <2>6, <2>7 DEF Failed, Failures
<1>14. CASE AnnounceNext
  <2>1. /\ UNCHANGED <<bailed, live, req, reply, suspect, primary, extras>>
        /\ pc' \in {"hedge", "announce"} /\ pc \notin DownPcs
    BY <1>14 DEF AnnounceNext, Proceed, calls, positions, DownPcs
  <2> QED
    BY <2>1 DEF MemoryInv, LoopCovers, QuietCovers, Tracked, Unadopted
<1> QED
  BY <1>1, <1>2, <1>5, <1>6, <1>7, <1>8, <1>9, <1>10, <1>11, <1>12, <1>13, <1>14
     DEF Next, Process, Faults, World

\* Until an emergency exit gives up on a withdrawal, every position on chain is
\* one the keeper knows, or one of a call in doubt: no loop over the extras,
\* refresh, crash or late landing drops one.
THEOREM MemoryAccountsForChain == Spec => []MemoryCoversChain
<1>1. Init => MemoryInv
  BY DEF Init, MemoryInv, LoopCovers, QuietCovers, Tracked
<1>2. ShapeInv /\ LogInv /\ MemoryInv /\ [Next]_vars => MemoryInv'
  BY MemoryInvStep
<1>3. MemoryInv => MemoryCoversChain
  BY DEF MemoryInv, MemoryCoversChain
<1> QED
  BY <1>1, <1>2, <1>3, ShapeInvariant, LogInvariant, PTL DEF Spec
=============================================================================
