---------------------------- MODULE LpRunsProofs ----------------------------
(***************************************************************************)
(* Theorems about LpRuns: what the one-shot experiment sends, leaves and   *)
(* reports, and what a recovery reports, for every pool, width, budget and *)
(* number of attempts and of recoveries.                                   *)
(***************************************************************************)
EXTENDS LpRuns, FiniteSetTheorems, TLAPS

-----------------------------------------------------------------------------
(* What an answer means. *)

\* The fields of an answer the proofs look at.
LEMMA AnswerFields ==
    ASSUME NEW a \in Answer
    PROVE  /\ a.ok \in BOOLEAN /\ a.right \in BOOLEAN /\ a.closed \in BOOLEAN
           /\ a.transport \in BOOLEAN /\ a.evidence \in BOOLEAN
           /\ a.proven \in BOOLEAN /\ a.signed \in BOOLEAN
           /\ a.ok => a.error = "none"
BY DEF Answer, Success, Failure

\* An answer that leaves nothing open settles the call: a failure changed
\* nothing, and whatever it changed is on chain already.
LEMMA SettledFate ==
    ASSUME NEW a \in Answer, NEW c \in Call, NEW fate \in Fates(c, a),
           ~Unresolved(a), a.ok => a.right
    PROVE  /\ fate # "later"
           /\ ~a.ok => fate = "nothing"
<1>1. CASE a.ok
  BY <1>1, AnswerFields DEF Fates
<1>2. CASE ~a.ok
  <2>1. Definite(a)
    BY <1>2, AnswerFields DEF Definite, Unresolved, Unsubmitted
  <2> QED BY <1>2, <2>1 DEF Fates
<1> QED BY <1>1, <1>2, AnswerFields

\* A success in full closes what it withdraws.
LEMMA ClosedFate ==
    ASSUME NEW a \in Answer, NEW c \in Call, NEW fate \in Fates(c, a),
           a.ok, a.right, a.closed
    PROVE  fate = "lands"
BY DEF Fates

-----------------------------------------------------------------------------
(* Types. *)

\* TypeOK is not inductive: a loop must have nothing left when its list is
\* replaced, and what is awaited in "sent" is a call.
TypeInv ==
    /\ TypeOK
    /\ opened \subseteq logged /\ ranges \subseteq logged
    /\ phase = "sent" => call \in Call /\ call.pid \in logged
    /\ phase \in {"preflight", "open", "hold", "redeposit"} => todo = {}
    /\ phase = "sent" /\ call.verb = "deposit" => todo = {}

LEMMA PositionType ==
    ASSUME NEW s \in Sides, NEW b \in Bins
    PROVE  Position(s, b) \in Pid
BY DEF Position, Pid

LEMMA ChargeTypes ==
    /\ WithdrawCharge \in Nat /\ DepositCharge \in Nat
    /\ Rent \div 2 \in Nat
    /\ \A rent \in LegRents \cup {Rent \div 2} : rent \in Nat /\ Charge(rent) \in Nat
BY LamportAssumption DEF WithdrawCharge, DepositCharge, Charge

\* What happens to a call keeps the world in its ranges.
LEMMA MeetsType ==
    ASSUME WorldTypeOK, NEW c \in Call, NEW fate, Meets(c, fate), missed' \subseteq missed
    PROVE  WorldTypeOK'
BY DEF WorldTypeOK, Meets, MayLag, AfterCall, Call

\* So does a read.
LEMMA LookedType ==
    ASSUME WorldTypeOK, NEW ps \in SUBSET Pid, NEW v, Looked(ps, v),
           UNCHANGED <<chain, pending>>
    PROVE  WorldTypeOK'
BY DEF WorldTypeOK, Looked

\* One attempt at a deposit, on behalf of either loop.
LEMMA DepositType ==
    ASSUME TypeInv, phase \in {"open", "redeposit"},
           NEW p \in Pid, NEW who \in {"open", "shift"}, Deposit(p, who),
           UNCHANGED <<live, planned, ranges, passed, unknown, complete, outlay,
                       fees, chain, pending, stop, recovery, history>>
    PROVE  TypeInv'
<1>1. PICK view \in (IF p \in leg THEN {{}} ELSE Views({p})) :
        /\ IF p \in leg THEN UNCHANGED <<stale, missed>> ELSE Looked({p}, view)
        /\ \/ /\ Send("deposit", p, who)
              /\ leg' = {p}
              /\ opened' = opened \cup {p}
              /\ UNCHANGED <<side, attempt, failed, todo>>
           \/ /\ Fail
              /\ UNCHANGED <<routine, call, opened, logged>>
  BY DEF Deposit
<1>2. WorldTypeOK'
  BY <1>1, LookedType DEF TypeInv, TypeOK, WorldTypeOK
<1>3. CASE Send("deposit", p, who) /\ leg' = {p} /\ opened' = opened \cup {p}
           /\ UNCHANGED <<side, attempt, failed, todo>>
  <2>1. call' \in Call /\ call'.pid \in logged' /\ call'.pid = p
    BY <1>3 DEF Send, Call
  <2> QED BY <1>2, <1>3, <2>1 DEF TypeInv, TypeOK, Send, Proposed, recovery, history
<1>4. CASE Fail /\ UNCHANGED <<routine, call, opened, logged>>
  BY <1>2, <1>4, AttemptsAssumption
     DEF TypeInv, TypeOK, Fail, CleanUp, NoLeg, Sides, Proposed, recovery, history
<1> QED BY <1>1, <1>3, <1>4

LEMMA TypeInit == RunsInit => TypeInv
<1> SUFFICES ASSUME RunsInit PROVE TypeInv
  OBVIOUS
<1>1. WorldTypeOK
  BY DEF RunsInit, Init, WorldInit, WorldTypeOK
<1>2. attempt \in 1 .. Attempts /\ outlay \in Nat
  BY AttemptsAssumption DEF RunsInit, Init
<1>3. {live, passed, unknown, complete, failed, stop, doubtful, rerror} \subseteq BOOLEAN
  BY DEF RunsInit, Init, R!RInit
<1> QED BY <1>1, <1>2, <1>3
           DEF RunsInit, Init, R!RInit, TypeInv, TypeOK, Sides, Proposed

\* The experiment keeps TypeInv: first what it sends, then what it is told.
LEMMA TypeWrites ==
    ASSUME TypeInv, UNCHANGED <<recovery, history>>,
           OpenLeg \/ Redeposit \/ Withdraw
    PROVE  TypeInv'
<1>1. CASE OpenLeg
  <2>1. CASE \E b \in Bins : Deposit(Position(side, b), "open")
    BY <1>1, <2>1, PositionType, DepositType DEF OpenLeg, TypeInv, TypeOK
  <2>2. CASE NotDeposited
    BY <1>1, <2>2, AttemptsAssumption
       DEF OpenLeg, NotDeposited, TypeInv, TypeOK, WorldTypeOK, Fail, CleanUp, NoLeg,
           Sides, Proposed, recovery, history
  <2> QED BY <1>1, <2>1, <2>2 DEF OpenLeg
<1>2. CASE Redeposit
  <2>1. CASE \E b \in Bins : Deposit(Position(side, b), "shift")
    BY <1>2, <2>1, PositionType, DepositType DEF Redeposit, TypeInv, TypeOK
  <2>2. CASE NotDeposited
    BY <1>2, <2>2, AttemptsAssumption
       DEF Redeposit, NotDeposited, TypeInv, TypeOK, WorldTypeOK, Fail, CleanUp, NoLeg,
           Sides, Proposed, recovery, history
  <2> QED BY <1>2, <2>1, <2>2 DEF Redeposit
<1>3. CASE Withdraw
  <2>1. PICK p \in todo :
          /\ Looked({p}, {p})
          /\ Send("withdraw", p, IF phase = "closing" THEN "shift" ELSE "cleanup")
    BY <1>3 DEF Withdraw
  <2>2. p \in Pid /\ p \in logged
    BY DEF TypeInv, TypeOK
  <2>3. WorldTypeOK'
    BY <1>3, <2>1, <2>2, LookedType DEF TypeInv, TypeOK, Withdraw
  <2>4. call' \in Call /\ call'.pid = p /\ call'.verb = "withdraw"
    BY <2>1, <2>2 DEF Send, Call
  <2> QED
    BY <1>3, <2>1, <2>2, <2>3, <2>4
       DEF Withdraw, Send, TypeInv, TypeOK, Proposed, recovery, history
<1> QED BY <1>1, <1>2, <1>3

LEMMA TypeDepositAnswered ==
    ASSUME TypeInv, UNCHANGED <<recovery, history>>,
           NEW a \in Answer, DepositAnswered(a)
    PROVE  TypeInv'
<1>1. WorldTypeOK'
  BY MeetsType DEF DepositAnswered, TypeInv, TypeOK
<1>2. unknown' \in BOOLEAN
  BY AnswerFields DEF DepositAnswered, TypeInv, TypeOK, Unresolved
<1>3. phase = "sent" /\ call \in Call /\ call.pid \in logged /\ todo = {}
  BY DEF DepositAnswered, TypeInv
<1>4. CASE NextLeg /\ ranges' = ranges \cup {call.pid}
           /\ fees' = fees \cup {call.pid} /\ UNCHANGED <<opened, failed, todo>>
           /\ \E rent \in LegRents \cup {Rent \div 2} : outlay' = outlay + Charge(rent)
  <2>0. outlay' \in Nat /\ fees' \subseteq Pid
    BY <1>3, <1>4, ChargeTypes DEF TypeInv, TypeOK, Call
  <2>1. phase' \in {"open", "hold"} /\ side' \in Sides /\ attempt' \in 1 .. Attempts
        /\ leg' \subseteq Pid
    BY <1>4, AttemptsAssumption DEF NextLeg, NoLeg, TypeInv, TypeOK, Sides
  <2> QED BY <1>1, <1>2, <1>3, <1>4, <2>0, <2>1
             DEF DepositAnswered, TypeInv, TypeOK, Proposed, recovery, history
<1>5. CASE opened' = opened \ {call.pid} /\ UNCHANGED <<ranges, outlay, fees>>
           /\ IF Drifted(a) /\ attempt < Attempts THEN Again
              ELSE failed' = TRUE /\ CleanUp(opened', FALSE)
  <2>1. CASE Again /\ attempt < Attempts
    BY <1>1, <1>2, <1>3, <1>5, <2>1, AttemptsAssumption
       DEF DepositAnswered, Again, TypeInv, TypeOK, Proposed, recovery, history
  <2>2. CASE failed' = TRUE /\ CleanUp(opened', FALSE)
    BY <1>1, <1>2, <1>3, <1>5, <2>2, AttemptsAssumption
       DEF DepositAnswered, CleanUp, NoLeg, Sides, TypeInv, TypeOK, Proposed,
           recovery, history
  <2> QED BY <1>5, <2>1, <2>2
<1>6. CASE failed' = TRUE /\ CleanUp(opened, unknown')
           /\ UNCHANGED <<opened, ranges, outlay, fees>>
  BY <1>1, <1>2, <1>3, <1>6, AttemptsAssumption
     DEF DepositAnswered, CleanUp, NoLeg, Sides, TypeInv, TypeOK, Proposed,
         recovery, history
<1> QED BY <1>4, <1>5, <1>6 DEF DepositAnswered

LEMMA TypeWithdrawAnswered ==
    ASSUME TypeInv, UNCHANGED <<recovery, history>>,
           NEW a \in Answer, WithdrawAnswered(a)
    PROVE  TypeInv'
<1>1. phase = "sent" /\ call \in Call /\ call.pid \in logged /\ call.pid \in Pid
  BY DEF WithdrawAnswered, TypeInv, Call
<1>2. WorldTypeOK'
  <2>1. PICK fate \in Fates(call, a) : Meets(call, fate)
    BY DEF WithdrawAnswered
  <2>2. missed' \subseteq missed \cup {call.pid}
    BY DEF WithdrawAnswered, CloseFailed
  <2>3. chain' \subseteq Pid /\ pending' \subseteq Call /\ stale' \subseteq Pid
    BY <1>1, <2>1 DEF Meets, MayLag, AfterCall, TypeInv, TypeOK, WorldTypeOK
  <2> QED BY <1>1, <2>2, <2>3 DEF TypeInv, TypeOK, WorldTypeOK
<1>3. outlay' \in Nat
  BY ChargeTypes DEF WithdrawAnswered, TypeInv, TypeOK
<1>4. CASE Closed(a)
  BY <1>2, <1>3, <1>4
     DEF WithdrawAnswered, Forget, TypeInv, TypeOK, Proposed, recovery, history
<1>5. CASE ~Closed(a)
  <2>0. PICK view : CloseFailed(a, view)
    BY <1>5 DEF WithdrawAnswered
  <2>1. unknown' \in BOOLEAN /\ failed' \in BOOLEAN
    BY <2>0, AnswerFields DEF CloseFailed, Unresolved, Settles, TypeInv, TypeOK
  <2>2. phase' = "cleanup" /\ opened' \subseteq opened /\ ranges' = ranges
        /\ todo' \subseteq opened'
    BY <2>0 DEF CloseFailed, CleanUp, TypeInv, TypeOK
  <2>3. side' \in Sides /\ attempt' \in 1 .. Attempts /\ leg' \subseteq Pid
    BY <2>0, AttemptsAssumption DEF CloseFailed, CleanUp, NoLeg, TypeInv, TypeOK, Sides
  <2> QED BY <1>2, <1>3, <2>1, <2>2, <2>3
             DEF WithdrawAnswered, TypeInv, TypeOK, Proposed, recovery, history
<1> QED BY <1>4, <1>5

LEMMA TypeProgram ==
    ASSUME TypeInv, RunExperiment
    PROVE  TypeInv'
<1>1. CASE Preflight
  <2>1. planned' \subseteq Pid /\ leg' \subseteq Pid
    BY <1>1, PositionType DEF Preflight, Sides
  <2>2. WorldTypeOK' /\ phase' \in {"open", "done"} /\ (phase' = "open" => todo' = {})
    BY <1>1 DEF Preflight, TypeInv, TypeOK, WorldTypeOK, world
  <2>3. {live', passed', unknown', complete', failed', stop'} \subseteq BOOLEAN
    BY <1>1 DEF Preflight, TypeInv, TypeOK
  <2> QED BY <1>1, <2>1, <2>2, <2>3
             DEF RunExperiment, Preflight, TypeInv, TypeOK, Proposed, recovery, history
<1>2. CASE EndHold
  <2>1. WorldTypeOK'
    BY <1>2, LookedType DEF EndHold, TypeInv, TypeOK
  <2>2. failed' \in BOOLEAN
    BY <1>2 DEF EndHold, SnapshotFails, TypeInv, TypeOK
  <2> QED BY <1>2, <2>1, <2>2, AttemptsAssumption
             DEF RunExperiment, EndHold, CleanUp, NoLeg, Sides, TypeInv, TypeOK,
                 Proposed, recovery, history
<1>3. CASE StartShift
  <2>1. WorldTypeOK'
    BY <1>3, LookedType DEF StartShift, TypeInv, TypeOK
  <2> QED BY <1>3, <2>1 DEF RunExperiment, StartShift, Sides, TypeInv, TypeOK,
              Proposed, recovery, history
<1>4. CASE FoundAbsent
  <2>1. PICK p \in todo : Looked({p}, {}) /\ Forget(p)
    BY <1>4 DEF FoundAbsent
  <2>2. WorldTypeOK'
    BY <1>4, <2>1, LookedType DEF FoundAbsent, TypeInv, TypeOK
  <2> QED BY <1>4, <2>1, <2>2 DEF RunExperiment, FoundAbsent, Forget, TypeInv,
              TypeOK, Closing, Proposed, recovery, history
<1>5. CASE CannotVerify
  BY <1>5, AttemptsAssumption
     DEF RunExperiment, CannotVerify, Closing, CleanUp, NoLeg, Sides, TypeInv, TypeOK,
         WorldTypeOK, Proposed, world, recovery, history
<1>6. CASE ShiftClosed
  BY <1>6 DEF RunExperiment, ShiftClosed, TypeInv, TypeOK, WorldTypeOK, Proposed,
              world, recovery, history
<1>7. CASE Report
  <2>1. WorldTypeOK'
    <3>1. Proposed \subseteq Pid
      BY DEF TypeInv, TypeOK, Proposed
    <3> QED BY <1>7, <3>1, LookedType DEF Report, TypeInv, TypeOK, WorldTypeOK
  <2>2. complete' \in BOOLEAN /\ failed' \in BOOLEAN
    BY <1>7 DEF Report, Reconciles, TypeInv, TypeOK
  <2> QED BY <1>7, <2>1, <2>2 DEF RunExperiment, Report, TypeInv, TypeOK, Proposed,
              recovery, history
<1>8. CASE OpenLeg \/ Redeposit \/ Withdraw
  BY <1>8, TypeWrites DEF RunExperiment
<1>9. CASE Answered
  BY <1>9, TypeDepositAnswered, TypeWithdrawAnswered DEF RunExperiment, Answered
<1> QED BY <1>1, <1>2, <1>3, <1>4, <1>5, <1>6, <1>7, <1>8, <1>9
           DEF RunExperiment, Program

\* A dead process has forgotten everything but its log.
LEMMA GoneType ==
    ASSUME TypeInv, Gone, WorldTypeOK',
           {doubtful', rerror'} \subseteq BOOLEAN, rcall' \in Call \cup {NoCall},
           rphase' \in {"idle", "verify", "withdraw", "done"},
           candidates' \subseteq remaining', remaining' \subseteq named',
           named' \subseteq logged'
    PROVE  TypeInv'
<1>1. {live', passed', unknown', complete', failed', stop'} \subseteq BOOLEAN
  BY DEF Gone, TypeInv, TypeOK
<1>2. side' \in Sides /\ attempt' \in 1 .. Attempts /\ leg' \subseteq Pid
  BY AttemptsAssumption DEF Gone, NoLeg, Sides
<1>3. /\ phase' = "dead" /\ routine' = "open" /\ call' = NoCall /\ outlay' = 0
      /\ planned' = {} /\ opened' = {} /\ ranges' = {} /\ todo' = {} /\ fees' = {}
      /\ logged' \subseteq Pid
  BY DEF Gone, TypeInv, TypeOK
<1> QED BY <1>1, <1>2, <1>3 DEF TypeInv, TypeOK, Proposed

LEMMA TypeAround ==
    ASSUME TypeInv, Environment \/ Landing \/ StartRecovery
    PROVE  TypeInv'
<1>1. CASE Crash /\ UNCHANGED <<recovery, history>>
  <2>1. WorldTypeOK'
    BY <1>1, MeetsType DEF Crash, Gone, TypeInv, TypeOK, WorldTypeOK
  <2> QED BY <1>1, <2>1, GoneType
             DEF Crash, Gone, TypeInv, TypeOK, recovery, history
<1>2. CASE TimeUp /\ UNCHANGED <<recovery, history>>
  BY <1>2 DEF TimeUp, TypeInv, TypeOK, WorldTypeOK, Proposed, run, world, recovery,
              history
<1>3. CASE Landing
  <2>1. WorldTypeOK'
    BY <1>3 DEF Landing, Chain, LateOutcome, ReadsCatchUp, MayLag, AfterCall, Call,
                TypeInv, TypeOK, WorldTypeOK
  <2> QED BY <1>3, <2>1 DEF Landing, Chain, TypeInv, TypeOK, Proposed, run, recovery
<1>4. CASE StartRecovery
  <2>1. WorldTypeOK'
    BY <1>4 DEF StartRecovery, R!Start, TypeInv, TypeOK, WorldTypeOK
  <2> QED BY <1>4, <2>1, GoneType DEF StartRecovery, R!Start, Gone
<1> QED BY <1>1, <1>2, <1>3, <1>4 DEF Environment

LEMMA TypeRecovery ==
    ASSUME TypeInv, Recover \/ RecoveryCrash
    PROVE  TypeInv'
<1>1. CASE R!Verify /\ UNCHANGED <<run, logged, stop, history>>
  <2>1. WorldTypeOK'
    BY <1>1 DEF R!Verify, R!Looked, TypeInv, TypeOK, WorldTypeOK
  <2>2. candidates' \subseteq remaining' /\ remaining' \subseteq remaining
    BY <1>1 DEF R!Verify, R!Views, R!ViewsOf
  <2>3. {doubtful', rerror'} \subseteq BOOLEAN /\ rphase' \in {"withdraw", "done"}
    BY <1>1 DEF R!Verify, R!Ends, TypeInv, TypeOK
  <2> QED BY <1>1, <2>1, <2>2, <2>3
             DEF R!Verify, TypeInv, TypeOK, Proposed, run, history
<1>2. CASE R!WithdrawOne /\ UNCHANGED <<run, logged, stop, history>>
  <2>1. rcall' \in Call
    BY <1>2 DEF R!WithdrawOne, TypeInv, TypeOK, Call
  <2> QED BY <1>2, <2>1 DEF R!WithdrawOne, TypeInv, TypeOK, WorldTypeOK, Proposed,
              R!world, run, history
<1>3. CASE R!RecoveryReport /\ UNCHANGED <<run, logged, stop, history>>
  BY <1>3 DEF R!RecoveryReport, TypeInv, TypeOK, WorldTypeOK, Proposed, R!world, run,
              history
<1>4. CASE /\ \E a \in R!Answer : R!WithdrawOneAnswered(a)
           /\ UNCHANGED <<run, logged, stop, history>>
  <2>1. PICK a \in R!Answer : R!WithdrawOneAnswered(a)
    BY <1>4
  <2>2. rcall \in Call
    BY <2>1 DEF R!WithdrawOneAnswered, TypeInv, TypeOK
  <2>3. WorldTypeOK'
    BY <2>1, <2>2 DEF R!WithdrawOneAnswered, R!Meets, R!MayLag, R!AfterCall, TypeInv,
                      TypeOK, WorldTypeOK, Call
  <2>4. a.ok \in BOOLEAN /\ R!InDoubt(a) \in BOOLEAN
    BY DEF R!Answer, R!Success, R!Failure, R!InDoubt
  <2>5. /\ {doubtful', rerror'} \subseteq BOOLEAN /\ rphase' \in {"withdraw", "done"}
        /\ candidates' \subseteq remaining' /\ remaining' \subseteq remaining
    BY <2>1, <2>4 DEF R!WithdrawOneAnswered, R!Ends, TypeInv, TypeOK
  <2> QED BY <1>4, <2>1, <2>3, <2>5
             DEF R!WithdrawOneAnswered, TypeInv, TypeOK, Proposed, run, history
<1>5. CASE RecoveryCrash
  <2>1. WorldTypeOK'
    BY <1>5, MeetsType DEF RecoveryCrash, TypeInv, TypeOK, WorldTypeOK
  <2> QED BY <1>5, <2>1 DEF RecoveryCrash, R!Dead, TypeInv, TypeOK, Proposed, run,
              history
<1> QED BY <1>1, <1>2, <1>3, <1>4, <1>5 DEF Recover, R!Recovery

LEMMA TypeInvariant == RunsSpec => []TypeInv
<1>1. ASSUME TypeInv, UNCHANGED allVars
      PROVE  TypeInv'
  BY <1>1 DEF allVars, vars, run, world, recovery, history, TypeInv, TypeOK,
              WorldTypeOK, Proposed
<1>2. TypeInv /\ [RunsNext]_allVars => TypeInv'
  BY <1>1, TypeProgram, TypeAround, TypeRecovery DEF RunsNext
<1> QED BY <1>2, TypeInit, PTL DEF RunsSpec

\* Every variable of the two tools and of their world keeps to its range: a
\* position of a record is always one the tools could have planned, and what
\* a loop has left is something it opened.
THEOREM RunsTyped == RunsSpec => []TypeOK
<1>1. TypeInv => TypeOK
  BY DEF TypeInv
<1> QED BY <1>1, TypeInvariant, PTL

-----------------------------------------------------------------------------
(* Doubt. *)

\* What may still land is a withdrawal the cleanup took for settled, because a
\* lagging read hid the position; it has forgotten that position.
Settled ==
    \A c \in pending : /\ c.verb = "withdraw" /\ c.pid \notin opened
                       /\ c.pid \in missed /\ c.pid \in chain

\* Nothing else that was sent may still land while the experiment goes on,
\* unless it knows of the doubt; then it has failed, and only reports.  As long
\* as it has not, every opening is charged for in fees.  A recovery has the
\* wallet to itself.
DoubtInv ==
    /\ phase \in {"preflight", "open", "hold", "closing", "redeposit"} =>
            ~unknown /\ pending = {}
    /\ phase = "sent" => ~unknown /\ call.pid \in opened /\ Settled
    /\ phase = "sent" /\ call.verb = "deposit" => routine # "cleanup"
    /\ phase = "sent" /\ routine # "cleanup" => pending = {}
    /\ phase \in {"cleanup", "done"} /\ ~unknown => Settled
    /\ phase = "cleanup" /\ unknown => todo = {}
    /\ unknown => failed
    /\ rphase # "idle" => phase = "dead"
    /\ phase # "done" => (passed <=> phase \notin {"preflight", "dead"})
    /\ passed /\ ~failed => chain \subseteq fees
    /\ complete /\ live => phase = "done" /\ (~failed => chain = {} /\ pending = {})

LEMMA DoubtInit == RunsInit => DoubtInv
BY DEF RunsInit, Init, WorldInit, R!RInit, DoubtInv

\* Only a withdrawal of what is there may land later.
LEMMA LaterFate ==
    ASSUME NEW a \in Answer, NEW c \in Call, c.verb = "withdraw",
           "later" \in Fates(c, a)
    PROVE  c.pid \in chain
BY DEF Fates

\* What the executor answers to either write leaves DoubtInv: an answer that
\* leaves nothing open leaves nothing pending.
LEMMA DoubtDeposited ==
    ASSUME TypeInv, DoubtInv, UNCHANGED <<recovery, history>>,
           NEW a \in Answer, DepositAnswered(a)
    PROVE  DoubtInv'
<1> DEFINE inDoubt == Unresolved(a) \/ (a.ok /\ ~a.right)
<1>1. /\ phase = "sent" /\ call \in Call /\ ~unknown /\ pending = {}
      /\ ~(complete /\ live) /\ UNCHANGED <<complete, live, passed, rphase>>
      /\ passed /\ ~failed => chain \subseteq fees
      /\ rphase = "idle"
  BY DEF DepositAnswered, TypeInv, DoubtInv, recovery
<1>2. inDoubt \in BOOLEAN /\ a.ok \in BOOLEAN /\ a.right \in BOOLEAN
  BY AnswerFields DEF Unresolved
<1>3. PICK fate \in Fates(call, a) : Meets(call, fate)
  BY DEF DepositAnswered
<1>4. unknown' <=> inDoubt
  BY <1>1, <1>2 DEF DepositAnswered
<1>5. ~inDoubt => pending' = {}
  BY <1>1, <1>2, <1>3, SettledFate DEF Meets
<1>6. chain' \subseteq chain \cup {call.pid}
  BY <1>1, <1>3 DEF Meets, AfterCall, DepositAnswered
<1>7. ~unknown' => Settled'
  BY <1>4, <1>5 DEF Settled
<1>8. CASE a.ok /\ a.right /\ fees' = fees \cup {call.pid} /\ NextLeg /\ failed' = failed
  <2>1. ~unknown' /\ pending' = {}
    BY <1>2, <1>4, <1>5, <1>8 DEF Unresolved
  <2>2. phase' \in {"open", "hold"}
    BY <1>8 DEF NextLeg
  <2>3. passed' /\ ~failed' => chain' \subseteq fees'
    BY <1>1, <1>6, <1>8
  <2> QED BY <1>1, <2>1, <2>2, <2>3 DEF DoubtInv
<1>9. CASE ~a.ok /\ ~unknown' /\ fees' = fees
           /\ ((Again /\ failed' = failed) \/ (failed' = TRUE /\ CleanUp(opened', FALSE)))
  <2>1. pending' = {} /\ chain' = chain
    BY <1>1, <1>2, <1>3, <1>4, <1>5, <1>9, SettledFate DEF Meets
  <2>2. phase' \in {"open", "redeposit", "cleanup"}
    BY <1>9 DEF Again, CleanUp
  <2>3. passed' /\ ~failed' => chain' \subseteq fees'
    <3>1. passed' = passed /\ (failed' = failed \/ failed' = TRUE) /\ fees' = fees
      BY <1>1, <1>9
    <3> QED BY <1>1, <2>1, <3>1
  <2> QED BY <1>1, <1>7, <1>9, <2>1, <2>2, <2>3 DEF DoubtInv
<1>10. CASE failed' = TRUE /\ CleanUp(opened, unknown')
  <2>1. phase' = "cleanup" /\ (unknown' => todo' = {})
    BY <1>10 DEF CleanUp
  <2> QED BY <1>1, <1>7, <1>10, <2>1 DEF DoubtInv
<1> QED BY <1>8, <1>9, <1>10 DEF DepositAnswered, Again

LEMMA DoubtWithdrawn ==
    ASSUME TypeInv, DoubtInv, UNCHANGED <<recovery, history>>,
           NEW a \in Answer, WithdrawAnswered(a)
    PROVE  DoubtInv'
<1> DEFINE inDoubt == Unresolved(a) \/ (a.ok /\ ~a.right)
<1>1. /\ phase = "sent" /\ call \in Call /\ call.verb = "withdraw" /\ ~unknown
      /\ call.pid \in opened /\ Settled
      /\ routine # "cleanup" => pending = {}
      /\ ~(complete /\ live) /\ UNCHANGED <<complete, live, passed, rphase, fees>>
      /\ passed /\ ~failed => chain \subseteq fees
      /\ rphase = "idle" /\ routine \in {"open", "shift", "cleanup"}
  BY DEF WithdrawAnswered, TypeInv, TypeOK, DoubtInv, recovery
<1>2. inDoubt \in BOOLEAN /\ a.ok \in BOOLEAN /\ a.right \in BOOLEAN
  BY AnswerFields DEF Unresolved
<1>3. PICK fate \in Fates(call, a) : Meets(call, fate)
  BY DEF WithdrawAnswered
<1>4. /\ chain' \subseteq chain /\ chain \ {call.pid} \subseteq chain'
      /\ pending' \subseteq pending \cup {call}
      /\ ~inDoubt => pending' = pending
      /\ call \in pending' /\ call \notin pending => chain' = chain /\ call.pid \in chain
  <2>1. ~inDoubt => fate # "later"
    BY <1>1, <1>2, <1>3, SettledFate
  <2>2. CASE fate = "lands"
    BY <1>1, <1>3, <2>2 DEF Meets, AfterCall
  <2>3. CASE fate = "later"
    BY <1>1, <1>3, <2>1, <2>3, LaterFate DEF Meets
  <2>4. CASE fate # "lands" /\ fate # "later"
    BY <1>3, <2>4 DEF Meets
  <2> QED BY <2>2, <2>3, <2>4
<1>5. passed' /\ ~failed' => failed \/ chain' \subseteq fees'
  BY <1>1, <1>4
<1>6. CASE Closed(a)
  <2>1. ~inDoubt
    BY <1>6, AnswerFields DEF Closed, Unresolved
  <2>2. /\ opened' \subseteq opened /\ missed' = missed /\ pending' = pending
        /\ unknown' = unknown /\ failed' = failed
        /\ phase' = IF routine = "shift" THEN "closing" ELSE "cleanup"
    BY <1>4, <1>6, <2>1 DEF WithdrawAnswered, Forget
  <2>3. Settled'
    BY <1>1, <1>4, <2>2 DEF Settled
  <2>4. routine = "shift" => pending' = {}
    BY <1>1, <2>2
  <2> QED BY <1>1, <1>5, <2>2, <2>3, <2>4 DEF DoubtInv
<1>7. CASE ~Closed(a)
  <2>1. PICK view : CloseFailed(a, view)
    BY <1>7 DEF WithdrawAnswered
  <2>2. CASE routine = "shift"
    <3>1. /\ (unknown' <=> inDoubt) /\ phase' = "cleanup" /\ (unknown' => todo' = {})
          /\ failed' = TRUE
      BY <1>1, <1>2, <2>1, <2>2 DEF CloseFailed, CleanUp
    <3>2. ~unknown' => Settled'
      BY <1>1, <1>4, <2>2, <3>1 DEF Settled
    <3> QED BY <1>1, <3>1, <3>2 DEF DoubtInv
  <2>3. CASE routine # "shift"
    <3> DEFINE gone == Settles(a) /\ inDoubt /\ view = {}
    <3>1. /\ phase' = "cleanup"
          /\ unknown' = (inDoubt /\ ~gone)
          /\ opened' = IF gone THEN opened \ {call.pid} ELSE opened
          /\ failed' = (failed \/ ~gone)
          /\ todo' = IF inDoubt /\ ~gone THEN {} ELSE todo \ {call.pid}
          /\ missed' = IF gone /\ call.pid \in chain' THEN missed \cup {call.pid} ELSE missed
      BY <1>1, <1>2, <2>1, <2>3 DEF CloseFailed
    <3>2. ~unknown' => ~inDoubt \/ gone
      BY <1>2, <3>1
    <3>3. missed \subseteq missed' /\ opened' \subseteq opened
      BY <3>1
    <3>4. \A c \in pending : c.pid \in chain' /\ c.verb = "withdraw" /\ c.pid \notin opened'
                             /\ c.pid \in missed'
      BY <1>1, <1>4, <3>3 DEF Settled
    <3>5. ASSUME ~inDoubt PROVE Settled'
      BY <1>4, <3>4, <3>5 DEF Settled
    <3>6. ASSUME gone PROVE Settled'
      <4>1. /\ call.pid \notin opened'
            /\ call.pid \in chain' => call.pid \in missed'
        BY <3>1, <3>6
      <4>2. ASSUME NEW c \in pending'
            PROVE  /\ c.verb = "withdraw" /\ c.pid \notin opened'
                   /\ c.pid \in missed' /\ c.pid \in chain'
        <5>1. CASE c \in pending
          BY <3>4, <5>1
        <5>2. CASE c \notin pending
          <6>1. c = call
            BY <1>4, <5>2
          <6>2. chain' = chain /\ call.pid \in chain
            BY <1>4, <5>2, <6>1
          <6> QED BY <1>1, <4>1, <6>1, <6>2
        <5> QED BY <5>1, <5>2
      <4> QED BY <4>2 DEF Settled
    <3>7. ~unknown' => Settled'
      BY <3>2, <3>5, <3>6
    <3>8. (unknown' => failed') /\ (unknown' => todo' = {}) /\ (~failed' => ~failed)
      BY <3>1
    <3>9. phase' = "cleanup"
      BY <3>1
    <3> HIDE DEF gone
    <3> QED BY <1>1, <1>5, <3>7, <3>8, <3>9 DEF DoubtInv
  <2> QED BY <2>2, <2>3
<1> QED BY <1>6, <1>7

LEMMA DoubtProgram ==
    ASSUME TypeInv, DoubtInv, RunExperiment
    PROVE  DoubtInv'
<1> USE DEF RunExperiment, recovery, world
<1>0. /\ \A p \in todo : p \in opened
      /\ Settled /\ UNCHANGED <<pending, chain>> /\ opened' \subseteq opened
         /\ missed \subseteq missed' => Settled'
  BY DEF TypeInv, TypeOK, Settled
<1>1. CASE Preflight
  BY <1>1 DEF Preflight, DoubtInv, Settled
<1>2. ASSUME phase \in {"open", "redeposit"}, NotDeposited \/
               (\E b \in Bins, who \in {"open", "shift"} : Deposit(Position(side, b), who)),
             UNCHANGED <<live, passed, unknown, complete, fees, chain, pending>>
      PROVE  DoubtInv'
  <2>1. ~unknown /\ pending = {} /\ Settled'
    BY <1>2 DEF DoubtInv, Settled
  <2>2. CASE Fail
    BY <1>2, <2>1, <2>2 DEF Fail, CleanUp, DoubtInv
  <2>3. CASE \E p \in Pid, who \in {"open", "shift"} :
               Send("deposit", p, who) /\ opened' = opened \cup {p} /\ UNCHANGED failed
    <3>1. /\ phase' = "sent" /\ routine' # "cleanup" /\ call'.pid \in opened'
          /\ UNCHANGED failed
      BY <2>3 DEF Send
    <3> QED BY <1>2, <2>1, <3>1 DEF DoubtInv
  <2> QED BY <1>2, <2>2, <2>3, PositionType
          DEF NotDeposited, Deposit, TypeInv, TypeOK
<1>3. CASE OpenLeg \/ Redeposit
  BY <1>2, <1>3 DEF OpenLeg, Redeposit
<1>4. CASE EndHold
  BY <1>4 DEF EndHold, CleanUp, Settled, DoubtInv
<1>5. CASE StartShift
  BY <1>5 DEF StartShift, DoubtInv
<1>6. CASE FoundAbsent
  <2>1. /\ opened' \subseteq opened /\ missed \subseteq missed' /\ phase \in {"closing", "cleanup"}
        /\ todo' \subseteq todo
    BY <1>6 DEF FoundAbsent, Closing, Forget, Looked
  <2> QED BY <1>0, <1>6, <2>1 DEF FoundAbsent, DoubtInv
<1>7. CASE CannotVerify
  BY <1>0, <1>7 DEF CannotVerify, Closing, CleanUp, Settled, DoubtInv
<1>8. CASE Withdraw
  <2>1. PICK p \in todo :
          /\ Looked({p}, {p})
          /\ Send("withdraw", p, IF phase = "closing" THEN "shift" ELSE "cleanup")
    BY <1>8 DEF Withdraw
  <2>2. /\ phase' = "sent" /\ call' = [verb |-> "withdraw", pid |-> p] /\ p \in opened
        /\ routine' = IF phase = "closing" THEN "shift" ELSE "cleanup"
        /\ UNCHANGED <<opened, pending, chain, unknown, failed, passed, complete, live,
                       fees, rphase>>
        /\ missed \subseteq missed' /\ phase \in {"closing", "cleanup"}
    BY <1>0, <1>8, <2>1 DEF Withdraw, Closing, Send, Looked
  <2>3. ~unknown /\ Settled /\ (phase = "closing" => pending = {})
    BY <2>1, <2>2 DEF DoubtInv, Settled
  <2>4. Settled' /\ call'.pid \in opened' /\ call'.verb = "withdraw"
    BY <1>0, <2>2, <2>3
  <2> QED BY <2>2, <2>3, <2>4 DEF DoubtInv
<1>9. CASE ShiftClosed
  BY <1>9 DEF ShiftClosed, DoubtInv
<1>10. CASE Report
  <2>1. /\ phase = "cleanup" /\ phase' = "done" /\ missed \subseteq missed'
        /\ UNCHANGED <<chain, pending, opened, unknown, live, passed, fees, rphase>>
        /\ failed => failed'
    BY <1>10 DEF Report, Looked
  <2>2. ~unknown => Settled'
    BY <1>0, <2>1 DEF DoubtInv
  <2>3. complete' /\ live' /\ ~failed' => chain' = {} /\ pending' = {}
    <3>1. SUFFICES ASSUME complete', live', ~failed' PROVE chain = {} /\ pending = {}
      BY <2>1
    <3>2. ~complete
      BY <2>1, <3>1 DEF DoubtInv
    <3>3. ~unknown /\ fees \cap chain = {}
      BY <1>10, <3>1, <3>2 DEF Report, Reconciles
    <3>4. chain \subseteq fees
      <4>1. passed /\ ~failed
        BY <2>1, <3>1 DEF DoubtInv
      <4> QED BY <4>1 DEF DoubtInv
    <3> QED BY <2>1, <3>3, <3>4 DEF DoubtInv, Settled
  <2> QED BY <2>1, <2>2, <2>3 DEF DoubtInv
<1>11. CASE Answered
  BY <1>11, DoubtDeposited, DoubtWithdrawn DEF Answered
<1> QED BY <1>1, <1>3, <1>4, <1>5, <1>6, <1>7, <1>8, <1>9, <1>10, <1>11 DEF Program

\* What lands late while the experiment is not in doubt closes a position.
LEMMA LateLanding ==
    ASSUME TypeInv, Settled, LateOutcome, UNCHANGED opened
    PROVE  chain' \subseteq chain /\ Settled'
           /\ (pending = {} => pending' = {} /\ chain' = chain)
<1>1. PICK c \in pending : /\ pending' = pending \ {c} /\ UNCHANGED missed
                           /\ chain' = AfterCall(c) \/ chain' = chain
  BY DEF LateOutcome
<1>2. c.verb = "withdraw" /\ \A d \in pending : d \in Call /\ d.verb = "withdraw"
  BY DEF Settled, TypeInv, TypeOK, WorldTypeOK
<1>3. \A d \in pending \ {c} : d.pid # c.pid
  BY <1>2 DEF Call
<1>4. chain' \subseteq chain /\ chain \ {c.pid} \subseteq chain'
  BY <1>1, <1>2 DEF AfterCall
<1>5. \A d \in pending' : d \in pending /\ d.pid # c.pid
  BY <1>1, <1>3
<1>6. UNCHANGED <<opened, missed>>
  BY <1>1
<1> QED BY <1>1, <1>4, <1>5, <1>6 DEF Settled

LEMMA DoubtAround ==
    ASSUME TypeInv, DoubtInv,
           Environment \/ Landing \/ StartRecovery \/ Recover \/ RecoveryCrash
    PROVE  DoubtInv'
<1>1. CASE Environment
  BY <1>1 DEF Environment, Crash, TimeUp, Gone, run, world, recovery, TypeInv, TypeOK,
              DoubtInv, Settled
<1>2. CASE Landing
  <2>1. UNCHANGED <<run, recovery>>
    BY <1>2 DEF Landing, Chain
  <2>2. CASE ReadsCatchUp
    BY <2>1, <2>2 DEF ReadsCatchUp, run, recovery, DoubtInv, Settled
  <2>3. CASE LateOutcome /\ (unknown \/ phase = "dead")
    BY <2>1, <2>3 DEF run, recovery, DoubtInv
  <2>4. CASE LateOutcome /\ ~unknown /\ phase # "dead"
    <3>1. Settled
      BY <2>4 DEF DoubtInv, Settled, TypeInv, TypeOK
    <3>2. chain' \subseteq chain /\ Settled' /\ (pending = {} => pending' = {} /\ chain' = chain)
      BY <2>1, <2>4, <3>1, LateLanding DEF run
    <3> QED BY <2>1, <3>2 DEF run, recovery, DoubtInv
  <2> QED BY <1>2, <2>2, <2>3, <2>4 DEF Landing, Chain
<1>3. CASE StartRecovery
  BY <1>3 DEF StartRecovery, Gone, DoubtInv
<1>4. CASE Recover
  <2>1. rphase # "idle" /\ UNCHANGED run
    BY <1>4 DEF Recover, R!Recovery, R!Verify, R!WithdrawOne, R!RecoveryReport,
                R!WithdrawOneAnswered
  <2> QED BY <2>1 DEF DoubtInv, run
<1>5. CASE RecoveryCrash
  BY <1>5 DEF RecoveryCrash, R!Dead, run, DoubtInv
<1> QED BY <1>1, <1>2, <1>3, <1>4, <1>5

LEMMA DoubtInvariant == RunsSpec => []DoubtInv
<1>1. ASSUME DoubtInv, UNCHANGED allVars
      PROVE  DoubtInv'
  BY <1>1 DEF allVars, vars, run, world, recovery, DoubtInv, Settled
<1>2. TypeInv /\ DoubtInv /\ [RunsNext]_allVars => DoubtInv'
  BY <1>1, DoubtProgram, DoubtAround DEF RunsNext
<1> QED BY <1>2, DoubtInit, TypeInvariant, PTL DEF RunsSpec

\* The experiment sends nothing while an earlier write of it may still land,
\* whatever is answered, dropped or killed: an answer that leaves open what
\* happened is the last thing it does with the executor, unless a read of the
\* position settles it; that read may have lagged.
THEOREM NothingIsSentInDoubt == RunsSpec => NothingSentInDoubt
<1>1. ASSUME TypeInv, DoubtInv, [RunsNext]_allVars, call' # call, call' # NoCall
      PROVE  \A c \in pending : c.verb = "withdraw" /\ c.pid \in missed
  <2>1. CASE RunExperiment
    <3>1. OpenLeg \/ Redeposit \/ Withdraw
      BY <1>1, <2>1 DEF RunExperiment, Program, Preflight, EndHold, StartShift,
         FoundAbsent, CannotVerify, ShiftClosed, Report, Answered, DepositAnswered,
         WithdrawAnswered
    <3>2. \/ phase \in {"open", "closing", "redeposit"}
          \/ phase = "cleanup" /\ todo # {}
      BY <3>1 DEF OpenLeg, Redeposit, Withdraw, Closing
    <3>3. CASE phase \in {"open", "closing", "redeposit"}
      BY <1>1, <3>3 DEF DoubtInv
    <3>4. CASE phase = "cleanup" /\ todo # {}
      <4>1. Settled
        BY <1>1, <3>4, Zenon DEF DoubtInv
      <4> QED BY <4>1 DEF Settled
    <3> QED BY <3>2, <3>3, <3>4
  <2>2. CASE Environment \/ Landing \/ StartRecovery \/ Recover \/ RecoveryCrash
    BY <1>1, <2>2 DEF Environment, Crash, TimeUp, Gone, Landing, Chain, StartRecovery,
       Recover, RecoveryCrash, run
  <2>3. CASE UNCHANGED allVars
    BY <1>1, <2>3 DEF allVars, vars, run
  <2> QED BY <1>1, <2>1, <2>2, <2>3 DEF RunsNext
<1> QED BY <1>1, TypeInvariant, DoubtInvariant, PTL DEF RunsSpec, NothingSentInDoubt

\* A live experiment that exits 0 leaves no position, and nothing that may
\* become one.
THEOREM SuccessIsClean == RunsSpec => []SuccessLeavesNothing
<1>1. DoubtInv => SuccessLeavesNothing
  BY DEF DoubtInv, SuccessLeavesNothing, Succeeded
<1> QED BY <1>1, DoubtInvariant, PTL

-----------------------------------------------------------------------------
(* What is left. *)

\* What is on chain is remembered as opened, or a read has hidden it.  Of the
\* leg being planned nothing is there; while the bids are deposited no other
\* position is known, so the asks planned with them are not there either.
OpenedPart ==
    /\ chain \subseteq opened \cup missed
    /\ \A c \in pending : c.verb = "deposit" => c.pid \in opened \cup missed
    /\ phase \in {"hold", "closing", "redeposit", "cleanup"} => leg = {}
    /\ phase \in {"open", "sent"} => leg \cap chain \subseteq missed
    /\ phase = "open" => routine = "open" /\ (side = "bid" => opened = {})
    /\ phase = "sent" /\ call.verb = "withdraw" => leg = {}
    /\ phase = "sent" /\ call.verb = "deposit" =>
          /\ leg = {call.pid} /\ call.pid \in opened
          /\ routine = "open" /\ side = "bid" =>
                opened = {call.pid} /\ call.pid.side = "bid"

OpenedInv ==
    /\ phase = "preflight" => opened = {} /\ routine = "open"
    /\ passed => OpenedPart

LEMMA OpenedInit == RunsInit => OpenedInv
BY DEF RunsInit, Init, OpenedInv, OpenedPart

\* A deposit is sent for an address that is not there, or that a read has
\* hidden, and is remembered before it is sent.
LEMMA OpenedDeposit ==
    ASSUME TypeInv, DoubtInv, OpenedInv,
           NEW b \in Bins, NEW who \in {"open", "shift"},
           \/ phase = "open" /\ who = "open"
           \/ phase = "redeposit" /\ who = "shift",
           Deposit(Position(side, b), who), UNCHANGED <<passed, chain, pending>>
    PROVE  OpenedInv'
<1> DEFINE p == Position(side, b)
<1>0. phase' # "preflight"
  BY DEF Deposit, Send, Fail, CleanUp
<1>1. SUFFICES ASSUME passed PROVE OpenedPart'
  BY <1>0 DEF OpenedInv
<1>2. missed \subseteq missed' /\ pending = {}
  BY DEF Deposit, Looked, DoubtInv
<1>3. CASE Send("deposit", p, who) /\ leg' = {p} /\ opened' = opened \cup {p}
           /\ side' = side
  <2>1. phase' = "sent" /\ routine' = who /\ call'.pid = p /\ call'.verb = "deposit"
    BY <1>3 DEF Send
  <2>2. p \in chain => p \in missed'
    <3>1. CASE p \in leg
      <4>1. phase = "open"
        BY <1>1, <3>1 DEF OpenedInv, OpenedPart
      <4> QED BY <1>1, <1>2, <3>1, <4>1 DEF OpenedInv, OpenedPart
    <3>2. CASE p \notin leg
      <4>1. PICK view \in Views({p}) : Looked({p}, view) /\ (view = {} \/ Fail)
        BY <3>2 DEF Deposit
      <4>2. view = {}
        BY <2>1, <4>1 DEF Fail, CleanUp
      <4> QED BY <4>1, <4>2 DEF Looked
    <3> QED BY <3>1, <3>2
  <2>3. who = "open" /\ side = "bid" => opened' = {p} /\ p.side = "bid"
    BY <1>1, <1>3 DEF OpenedInv, OpenedPart, Position
  <2> QED BY <1>1, <1>2, <1>3, <2>1, <2>2, <2>3 DEF OpenedInv, OpenedPart
<1>4. CASE Fail /\ opened' = opened
  BY <1>1, <1>2, <1>4 DEF Fail, CleanUp, NoLeg, OpenedInv, OpenedPart
<1> QED BY <1>3, <1>4 DEF Deposit

LEMMA OpenedDepositAnswered ==
    ASSUME TypeInv, DoubtInv, OpenedInv, NEW a \in Answer, DepositAnswered(a)
    PROVE  OpenedInv'
<1>0. phase' # "preflight"
  BY DEF DepositAnswered, NextLeg, Again, CleanUp
<1>1. SUFFICES ASSUME passed PROVE OpenedPart'
  BY <1>0 DEF DepositAnswered, OpenedInv
<1>2. /\ phase = "sent" /\ call \in Call /\ call.verb = "deposit" /\ pending = {}
      /\ ~unknown /\ missed' = missed /\ routine' = routine
  BY DEF DepositAnswered, TypeInv, DoubtInv
<1>3. /\ chain \subseteq opened \cup missed /\ leg = {call.pid} /\ call.pid \in opened
      /\ leg \cap chain \subseteq missed
  BY <1>1, <1>2 DEF OpenedInv, OpenedPart
<1>4. PICK fate \in Fates(call, a) : Meets(call, fate)
  BY DEF DepositAnswered
<1>5. chain' \subseteq chain \cup {call.pid} /\ pending' \subseteq {call}
  BY <1>2, <1>4 DEF Meets, AfterCall
<1>6. CASE NextLeg /\ opened' = opened
  <2>1. CASE routine = "open" /\ side = "bid"
    <3>1. opened = {call.pid} /\ call.pid.side = "bid"
      BY <1>1, <1>2, <2>1 DEF OpenedInv, OpenedPart
    <3>2. /\ phase' = "open" /\ side' = "ask"
          /\ \A q \in leg' : q.side = "ask"
      BY <1>6, <2>1 DEF NextLeg
    <3>3. leg' \cap chain' \subseteq missed
      BY <1>3, <1>5, <3>1, <3>2
    <3> QED BY <1>2, <1>3, <1>5, <1>6, <2>1, <3>2, <3>3 DEF OpenedInv, OpenedPart
  <2>2. CASE ~(routine = "open" /\ side = "bid")
    BY <1>2, <1>3, <1>5, <1>6, <2>2 DEF NextLeg, NoLeg, OpenedInv, OpenedPart
  <2> QED BY <2>1, <2>2
<1>7. CASE ~a.ok /\ ~unknown' /\ opened' = opened \ {call.pid}
           /\ (Again \/ CleanUp(opened', FALSE))
  <2>1. fate = "nothing"
    BY <1>2, <1>4, <1>7, SettledFate DEF DepositAnswered
  <2>2. chain' = chain /\ pending' = {}
    BY <1>2, <1>4, <2>1 DEF Meets
  <2>3. CASE Again
    <3>1. routine = "open" /\ side = "bid" => opened' = {}
      BY <1>1, <1>2, <1>7 DEF OpenedInv, OpenedPart
    <3> QED BY <1>2, <1>3, <1>7, <2>2, <2>3, <3>1 DEF Again, OpenedInv, OpenedPart
  <2>4. CASE CleanUp(opened', FALSE)
    BY <1>2, <1>3, <1>7, <2>2, <2>4 DEF CleanUp, NoLeg, OpenedInv, OpenedPart
  <2> QED BY <1>7, <2>3, <2>4
<1>8. CASE CleanUp(opened, unknown') /\ opened' = opened
  BY <1>2, <1>3, <1>5, <1>8 DEF CleanUp, NoLeg, OpenedInv, OpenedPart
<1> QED BY <1>6, <1>7, <1>8 DEF DepositAnswered

LEMMA OpenedWithdrawAnswered ==
    ASSUME TypeInv, DoubtInv, OpenedInv, NEW a \in Answer, WithdrawAnswered(a)
    PROVE  OpenedInv'
<1>0. phase' # "preflight"
  BY DEF WithdrawAnswered, CloseFailed, CleanUp
<1>1. SUFFICES ASSUME passed PROVE OpenedPart'
  BY <1>0 DEF WithdrawAnswered, OpenedInv
<1>2. /\ phase = "sent" /\ call \in Call /\ call.verb = "withdraw"
      /\ leg = {} /\ chain \subseteq opened \cup missed /\ passed
      /\ \A c \in pending : c.verb = "withdraw"
  BY <1>1 DEF WithdrawAnswered, TypeInv, DoubtInv, Settled, OpenedInv, OpenedPart
<1>3. PICK fate \in Fates(call, a) : Meets(call, fate)
  BY DEF WithdrawAnswered
<1>4. /\ chain' \subseteq chain /\ (fate = "lands" => call.pid \notin chain')
      /\ pending' \subseteq pending \cup {call}
  BY <1>2, <1>3 DEF Meets, AfterCall
<1>5. /\ phase' \in {"closing", "cleanup"} /\ leg' = {} /\ missed \subseteq missed'
      /\ opened \ {call.pid} \subseteq opened'
      /\ call.pid \in opened => call.pid \in opened' \cup missed' \/ call.pid \notin chain'
  <2>1. CASE Closed(a)
    <3>1. fate = "lands"
      BY <1>2, <2>1, ClosedFate DEF Closed
    <3> QED BY <1>2, <1>4, <2>1, <3>1 DEF WithdrawAnswered, Forget
  <2>2. CASE ~Closed(a)
    <3>1. PICK view : CloseFailed(a, view)
      BY <2>2 DEF WithdrawAnswered
    <3> QED BY <1>2, <3>1 DEF CloseFailed, CleanUp, NoLeg
  <2> QED BY <2>1, <2>2
<1>6. chain' \subseteq opened' \cup missed'
  BY <1>2, <1>4, <1>5
<1> QED BY <1>2, <1>4, <1>5, <1>6 DEF OpenedInv, OpenedPart

LEMMA OpenedProgram ==
    ASSUME TypeInv, DoubtInv, OpenedInv, RunExperiment
    PROVE  OpenedInv'
<1>1. CASE Preflight
  BY <1>1 DEF Preflight, world, DoubtInv, OpenedInv, OpenedPart
<1>2. CASE OpenLeg
  <2>1. CASE NotDeposited
    BY <1>2, <2>1 DEF OpenLeg, NotDeposited, Fail, CleanUp, NoLeg, OpenedInv, OpenedPart
  <2>2. CASE \E b \in Bins : Deposit(Position(side, b), "open")
    BY <1>2, <2>2, OpenedDeposit DEF OpenLeg
  <2> QED BY <1>2, <2>1, <2>2 DEF OpenLeg
<1>3. CASE Redeposit
  <2>1. CASE NotDeposited
    BY <1>3, <2>1 DEF Redeposit, NotDeposited, Fail, CleanUp, NoLeg, OpenedInv, OpenedPart
  <2>2. CASE \E b \in Bins : Deposit(Position(side, b), "shift")
    BY <1>3, <2>2, OpenedDeposit DEF Redeposit
  <2> QED BY <1>3, <2>1, <2>2 DEF Redeposit
<1>4. CASE EndHold
  BY <1>4 DEF EndHold, Looked, CleanUp, NoLeg, OpenedInv, OpenedPart
<1>5. CASE StartShift
  BY <1>5 DEF StartShift, Looked, OpenedInv, OpenedPart
<1>6. CASE FoundAbsent
  <2>1. PICK p \in todo : Looked({p}, {}) /\ Forget(p)
    BY <1>6 DEF FoundAbsent
  <2>2. /\ missed' = missed \cup ({p} \cap chain) /\ opened' = opened \ {p}
        /\ UNCHANGED <<chain, pending, phase, leg, passed>>
        /\ phase \in {"closing", "cleanup"}
    BY <1>6, <2>1 DEF FoundAbsent, Closing, Looked, Forget
  <2>3. Settled
    BY <2>1, <2>2 DEF DoubtInv, Settled
  <2>4. \A c \in pending : c.verb = "withdraw"
    BY <2>3 DEF Settled
  <2>5. \A c \in pending : c.verb # "deposit"
    BY <2>4
  <2> QED BY <2>2, <2>5 DEF OpenedInv, OpenedPart
<1>7. CASE CannotVerify
  BY <1>7 DEF CannotVerify, Closing, CleanUp, NoLeg, world, OpenedInv, OpenedPart
<1>8. CASE Withdraw
  <2>1. PICK p \in todo :
          /\ Looked({p}, {p})
          /\ Send("withdraw", p, IF phase = "closing" THEN "shift" ELSE "cleanup")
    BY <1>8 DEF Withdraw
  <2>2. /\ phase' = "sent" /\ call'.verb = "withdraw" /\ phase \in {"closing", "cleanup"}
        /\ missed \subseteq missed' /\ UNCHANGED <<chain, pending, opened, leg, passed>>
    BY <1>8, <2>1 DEF Withdraw, Closing, Send, Looked
  <2> QED BY <2>2 DEF OpenedInv, OpenedPart
<1>9. CASE ShiftClosed
  BY <1>9 DEF ShiftClosed, world, OpenedInv, OpenedPart
<1>10. CASE Report
  BY <1>10 DEF Report, Looked, OpenedInv, OpenedPart
<1>11. CASE Answered
  BY <1>11, OpenedDepositAnswered, OpenedWithdrawAnswered DEF Answered
<1> QED BY <1>1, <1>2, <1>3, <1>4, <1>5, <1>6, <1>7, <1>8, <1>9, <1>10, <1>11
           DEF RunExperiment, Program

LEMMA OpenedAround ==
    ASSUME TypeInv, DoubtInv, OpenedInv,
           Environment \/ Landing \/ StartRecovery \/ Recover \/ RecoveryCrash
    PROVE  OpenedInv'
<1>1. CASE Environment
  <2>1. CASE Crash
    BY <2>1 DEF Crash, Gone, OpenedInv
  <2>2. CASE TimeUp
    BY <2>2 DEF TimeUp, run, world, OpenedInv, OpenedPart
  <2> QED BY <1>1, <2>1, <2>2 DEF Environment
<1>2. CASE Landing
  <2>1. UNCHANGED <<run, missed>>
    BY <1>2 DEF Landing, Chain, LateOutcome, ReadsCatchUp
  <2>2. CASE pending = {}
    BY <1>2, <2>1, <2>2 DEF Landing, Chain, LateOutcome, ReadsCatchUp, run, OpenedInv, OpenedPart
  <2>3. CASE pending # {}
    <3>1. /\ phase # "open"
          /\ phase = "sent" => call.verb = "withdraw"
      <4>1. phase = "sent" => call.verb \in {"deposit", "withdraw"}
        BY DEF TypeInv, Call
      <4>2. phase = "sent" => call.verb # "deposit"
        BY <2>3 DEF DoubtInv
      <4> QED BY <2>3, <4>1, <4>2 DEF DoubtInv
    <3>2. passed => chain' \subseteq opened \cup missed /\ pending' \subseteq pending
      BY <1>2 DEF Landing, Chain, LateOutcome, ReadsCatchUp, AfterCall, TypeInv, TypeOK,
                  WorldTypeOK, Call, OpenedInv, OpenedPart
    <3>3. passed /\ phase = "sent" => leg \cap chain' \subseteq missed
      BY <3>1 DEF OpenedInv, OpenedPart
    <3> QED BY <2>1, <3>1, <3>2, <3>3 DEF run, OpenedInv, OpenedPart
  <2> QED BY <2>2, <2>3
<1>3. CASE StartRecovery
  BY <1>3 DEF StartRecovery, Gone, OpenedInv, OpenedPart
<1>4. CASE Recover \/ RecoveryCrash
  <2>1. rphase # "idle" /\ UNCHANGED run
    BY <1>4 DEF Recover, R!Recovery, R!Verify, R!WithdrawOne, R!RecoveryReport,
                R!WithdrawOneAnswered, RecoveryCrash
  <2> QED BY <2>1 DEF DoubtInv, OpenedInv, OpenedPart, run
<1> QED BY <1>1, <1>2, <1>3, <1>4

\* The report of a finished experiment names whatever it leaves on chain, but
\* for what a lagging read hid from it.
THEOREM ReportNamesRemaining == RunsSpec => []RemainingIsNamed
<1>1. ASSUME OpenedInv, UNCHANGED allVars
      PROVE  OpenedInv'
  BY <1>1 DEF allVars, vars, run, world, OpenedInv, OpenedPart
<1>2. TypeInv /\ DoubtInv /\ OpenedInv /\ [RunsNext]_allVars => OpenedInv'
  BY <1>1, OpenedProgram, OpenedAround DEF RunsNext
<1>3. OpenedInv => RemainingIsNamed
  BY DEF OpenedInv, OpenedPart, RemainingIsNamed
<1> QED BY <1>2, <1>3, OpenedInit, TypeInvariant, DoubtInvariant, PTL DEF RunsSpec

-----------------------------------------------------------------------------
(* Recoveries and the durable log. *)

\* What a recovery was given and does not report as remaining is not there, but
\* for what came later or was hidden; it only withdraws.
RecoveredInv ==
    /\ rphase # "idle" => chain \cap named \subseteq remaining \cup late \cup missed
    /\ rcall # NoCall => rcall.verb = "withdraw" /\ rcall.pid \in logged

\* A position is in the durable log before anything can open it.
LoggedInv ==
    /\ phase \in {"open", "sent", "hold", "closing", "redeposit", "cleanup"} /\ logged = {}
            => chain = {}
    /\ \A c \in pending : c.pid \in logged

LEMMA RecoveryInit == RunsInit => RecoveredInv /\ LoggedInv
BY DEF RunsInit, Init, WorldInit, R!RInit, RecoveredInv, LoggedInv

\* Whatever the experiment does, a recovery is not under way.
LEMMA RecoveredExperiment ==
    ASSUME TypeInv, DoubtInv, RecoveredInv, RunExperiment \/ Environment
    PROVE  RecoveredInv'
<1>1. logged \subseteq logged'
  BY DEF RunExperiment, Program, Preflight, OpenLeg, Redeposit, Deposit, NotDeposited,
         Send, EndHold, StartShift, FoundAbsent, CannotVerify, Withdraw, ShiftClosed,
         Report, Answered, DepositAnswered, WithdrawAnswered, Environment, Crash, TimeUp,
         Gone
<1>2. CASE rphase = "idle"
  BY <1>1, <1>2 DEF RunExperiment, Environment, recovery, RecoveredInv
<1>3. CASE rphase # "idle"
  <2>1. phase = "dead"
    BY <1>3 DEF DoubtInv
  <2>2. ~Program /\ ~Crash
    BY <2>1 DEF Program, Preflight, OpenLeg, Redeposit, EndHold, StartShift, FoundAbsent,
           CannotVerify, Withdraw, ShiftClosed, Report, Answered, DepositAnswered,
           WithdrawAnswered, Closing, Crash
  <2> QED BY <2>2 DEF RunExperiment, Environment, TimeUp, world, recovery, history,
              RecoveredInv
<1> QED BY <1>2, <1>3

LEMMA RecoveredAround ==
    ASSUME TypeInv, RecoveredInv, Landing \/ StartRecovery \/ Recover \/ RecoveryCrash
    PROVE  RecoveredInv'
<1>1. CASE Landing
  <2>1. /\ rphase # "idle" => chain' \subseteq chain \cup late' /\ late \subseteq late'
        /\ UNCHANGED <<missed, logged, named, recovery>>
    BY <1>1 DEF Landing, Chain, LateOutcome, ReadsCatchUp
  <2> QED BY <2>1 DEF RecoveredInv, recovery
<1>2. CASE StartRecovery
  BY <1>2 DEF StartRecovery, R!Start, RecoveredInv
<1>3. CASE R!Verify /\ UNCHANGED <<run, logged, stop, history>>
  <2>1. PICK view \in R!Views(remaining) :
          R!Looked(remaining, view) /\ view \subseteq remaining'
    BY <1>3 DEF R!Verify
  <2>2. /\ missed' = missed \cup ((remaining \cap chain) \ view)
        /\ UNCHANGED <<chain, named, late, rcall, logged>> /\ rphase # "idle"
    BY <1>3, <2>1 DEF R!Verify, R!Looked, history
  <2> QED BY <2>1, <2>2 DEF RecoveredInv
<1>4. CASE R!WithdrawOne /\ UNCHANGED <<run, logged, stop, history>>
  <2>1. rcall'.verb = "withdraw" /\ rcall'.pid \in logged
    BY <1>4 DEF R!WithdrawOne, TypeInv, TypeOK
  <2> QED BY <1>4, <2>1 DEF R!WithdrawOne, R!world, history, RecoveredInv
<1>5. CASE R!RecoveryReport /\ UNCHANGED <<run, logged, stop, history>>
  BY <1>5 DEF R!RecoveryReport, R!world, history, RecoveredInv
<1>6. CASE /\ \E a \in R!Answer : R!WithdrawOneAnswered(a)
           /\ UNCHANGED <<run, logged, stop, history>>
  <2>1. PICK a \in R!Answer : R!WithdrawOneAnswered(a)
    BY <1>6
  <2>2. PICK fate \in R!Fates(rcall, a) : R!Meets(rcall, fate)
    BY <2>1 DEF R!WithdrawOneAnswered
  <2>3. /\ rcall.verb = "withdraw" /\ rcall' = NoCall /\ rphase # "idle"
        /\ UNCHANGED <<missed, named, late>>
    BY <1>6, <2>1 DEF R!WithdrawOneAnswered, RecoveredInv, history
  <2>4. chain' \subseteq chain /\ (fate = "lands" => rcall.pid \notin chain')
    BY <2>2, <2>3 DEF R!Meets, R!AfterCall
  <2>5. remaining' = remaining \/ (remaining' = remaining \ {rcall.pid} /\ fate = "lands")
    <3>1. PICK view :
            IF R!ClosureConfirmed(a, view) THEN remaining' = remaining \ {rcall.pid}
            ELSE remaining' = remaining
      BY <2>1 DEF R!WithdrawOneAnswered
    <3>2. CASE R!ClosureConfirmed(a, view)
      <4>1. fate = "lands"
        BY <2>2, <2>3, <3>2 DEF R!ClosureConfirmed, R!Fates
      <4> QED BY <3>1, <3>2, <4>1
    <3> QED BY <3>1, <3>2
  <2> QED BY <2>3, <2>4, <2>5 DEF RecoveredInv
<1>7. CASE RecoveryCrash
  BY <1>7 DEF RecoveryCrash, R!Dead, RecoveredInv
<1> QED BY <1>1, <1>2, <1>3, <1>4, <1>5, <1>6, <1>7 DEF Recover, R!Recovery

LEMMA RecoveredInvariant == RunsSpec => []RecoveredInv
<1>1. ASSUME RecoveredInv, UNCHANGED allVars
      PROVE  RecoveredInv'
  BY <1>1 DEF allVars, vars, world, recovery, history, RecoveredInv
<1>2. TypeInv /\ DoubtInv /\ RecoveredInv /\ [RunsNext]_allVars => RecoveredInv'
  BY <1>1, RecoveredExperiment, RecoveredAround DEF RunsNext
<1> QED BY <1>2, RecoveryInit, TypeInvariant, DoubtInvariant, PTL DEF RunsSpec

\* A recovery that ends with cleanup_complete left none of the positions it was
\* given, but for those that came later or that a read hid.
THEOREM RecoveriesAreTrue == RunsSpec => []RecoveredMeansGone
<1>1. RecoveredInv => RecoveredMeansGone
  BY DEF RecoveredInv, RecoveredMeansGone, R!CleanupComplete
<1> QED BY <1>1, RecoveredInvariant, PTL

-----------------------------------------------------------------------------
(* The refinement of PositionLedger. *)

\* Positions open from the log, or close; what may land later is in it, too.
Moves ==
    /\ logged' = logged
    /\ chain' \subseteq chain \cup logged
    /\ chain' = chain \/ logged # {}
    /\ \A c \in pending' : c.pid \in logged

\* An address is logged.  If it is the first, nothing is on chain.
Announces(p) ==
    /\ logged' = logged \cup {p}
    /\ logged = {} => chain = {}
    /\ UNCHANGED <<chain, pending>>

LEMMA MeetsMoves ==
    ASSUME LoggedInv, NEW c, c.pid \in logged, NEW fate, Meets(c, fate), logged' = logged
    PROVE  Moves
BY DEF Meets, AfterCall, Moves, LoggedInv

LEMMA DepositAnnounces ==
    ASSUME LoggedInv, phase \in {"open", "redeposit"}, NEW p \in Pid, NEW who,
           Deposit(p, who), UNCHANGED <<chain, pending>>
    PROVE  Moves \/ Announces(p)
BY DEF Deposit, Send, Fail, Moves, Announces, LoggedInv

LEMMA ExperimentMoves ==
    ASSUME TypeInv, LoggedInv, RunExperiment
    PROVE  Moves \/ \E p \in Pid : Announces(p)
<1>1. CASE OpenLeg \/ Redeposit
  <2>1. UNCHANGED <<chain, pending>> /\ phase \in {"open", "redeposit"} /\ side \in Sides
    BY <1>1 DEF OpenLeg, Redeposit, TypeInv, TypeOK
  <2>2. CASE NotDeposited
    BY <2>1, <2>2 DEF NotDeposited, Moves, LoggedInv
  <2>3. CASE \E b \in Bins, who \in {"open", "shift"} : Deposit(Position(side, b), who)
    BY <2>1, <2>3, PositionType, DepositAnnounces
  <2> QED BY <1>1, <2>2, <2>3 DEF OpenLeg, Redeposit
<1>2. CASE Withdraw
  <2>1. PICK p \in todo :
          Send("withdraw", p, IF phase = "closing" THEN "shift" ELSE "cleanup")
    BY <1>2 DEF Withdraw
  <2>2. p \in Pid /\ phase \in {"closing", "cleanup"} /\ UNCHANGED <<chain, pending>>
    BY <1>2 DEF Withdraw, Closing, TypeInv, TypeOK
  <2> QED BY <2>1, <2>2 DEF Send, Announces, LoggedInv
<1>3. CASE \E a \in Answer : DepositAnswered(a)
  <2>1. call.pid \in logged /\ logged' = logged
    BY <1>3 DEF DepositAnswered, TypeInv
  <2> QED BY <1>3, <2>1, MeetsMoves DEF DepositAnswered
<1>4. CASE \E a \in Answer : WithdrawAnswered(a)
  <2>1. call.pid \in logged /\ logged' = logged
    BY <1>4 DEF WithdrawAnswered, TypeInv
  <2> QED BY <1>4, <2>1, MeetsMoves DEF WithdrawAnswered
<1>5. CASE Preflight \/ EndHold \/ StartShift \/ FoundAbsent \/ CannotVerify
           \/ ShiftClosed \/ Report
  <2>1. UNCHANGED <<chain, pending, logged>>
    BY <1>5 DEF Preflight, EndHold, StartShift, FoundAbsent, CannotVerify, ShiftClosed,
                Report, world
  <2> QED BY <2>1 DEF Moves, LoggedInv
<1> QED BY <1>1, <1>2, <1>3, <1>4, <1>5 DEF RunExperiment, Program, Answered

LEMMA AroundMoves ==
    ASSUME TypeInv, RecoveredInv, LoggedInv,
           Environment \/ Landing \/ StartRecovery \/ Recover \/ RecoveryCrash
    PROVE  Moves
<1>1. CASE Environment
  <2>1. CASE Crash /\ phase = "sent"
    <3>1. call.pid \in logged /\ logged' = logged
      BY <2>1 DEF Crash, Gone, TypeInv
    <3> QED BY <2>1, <3>1, MeetsMoves DEF Crash
  <2>2. CASE Crash /\ phase # "sent"
    BY <2>2 DEF Crash, Gone, Moves, LoggedInv
  <2>3. CASE TimeUp
    BY <2>3 DEF TimeUp, world, Moves, LoggedInv
  <2> QED BY <1>1, <2>1, <2>2, <2>3 DEF Environment
<1>2. CASE Landing
  BY <1>2 DEF Landing, Chain, LateOutcome, ReadsCatchUp, AfterCall, Moves, LoggedInv
<1>3. CASE StartRecovery
  BY <1>3 DEF StartRecovery, R!Start, R!world, Gone, Moves, LoggedInv
<1>4. CASE Recover
  <2>1. CASE R!Verify \/ R!WithdrawOne \/ R!RecoveryReport
    <3>1. UNCHANGED <<chain, pending>>
      BY <2>1 DEF R!Verify, R!WithdrawOne, R!RecoveryReport, R!world
    <3> QED BY <1>4, <3>1 DEF Recover, Moves, LoggedInv
  <2>2. CASE \E a \in R!Answer : R!WithdrawOneAnswered(a)
    <3>1. rcall.pid \in logged
      BY <2>2 DEF R!WithdrawOneAnswered, RecoveredInv
    <3> QED BY <1>4, <2>2, <3>1
               DEF Recover, R!WithdrawOneAnswered, R!Meets, R!AfterCall, Moves, LoggedInv
  <2> QED BY <1>4, <2>1, <2>2 DEF Recover, R!Recovery
<1>5. CASE RecoveryCrash
  <2>1. CASE rcall # NoCall
    <3>1. rcall.pid \in logged
      BY <2>1 DEF RecoveredInv
    <3> QED BY <1>5, <2>1, <3>1, MeetsMoves DEF RecoveryCrash
  <2>2. CASE rcall = NoCall
    BY <1>5, <2>2 DEF RecoveryCrash, Moves, LoggedInv
  <2> QED BY <2>1, <2>2
<1> QED BY <1>1, <1>2, <1>3, <1>4, <1>5

LEMMA EveryStepMoves ==
    ASSUME TypeInv, RecoveredInv, LoggedInv, [RunsNext]_allVars
    PROVE  Moves \/ \E p \in Pid : Announces(p)
<1>1. CASE UNCHANGED allVars
  BY <1>1 DEF allVars, vars, world, Moves, LoggedInv
<1> QED BY <1>1, ExperimentMoves, AroundMoves DEF RunsNext

\* Only a preflight that found an empty wallet begins the deposits.
LEMMA LoggedStep ==
    ASSUME TypeInv, RecoveredInv, LoggedInv, [RunsNext]_allVars
    PROVE  LoggedInv'
<1> DEFINE Busy == {"open", "sent", "hold", "closing", "redeposit", "cleanup"}
<1>1. phase' \in Busy => phase \in Busy \/ chain' = {}
  <2>1. CASE Program
    BY <2>1 DEF Program, Preflight, OpenLeg, Redeposit, EndHold, StartShift, FoundAbsent,
       CannotVerify, Withdraw, ShiftClosed, Report, Answered, DepositAnswered,
       WithdrawAnswered, Closing, world
  <2>2. CASE UNCHANGED phase \/ phase' = "dead"
    BY <2>2
  <2> QED BY <2>1, <2>2 DEF RunsNext, RunExperiment, Environment, Crash, TimeUp, Gone,
             Landing, Chain, StartRecovery, Recover, RecoveryCrash, allVars, vars, run
<1>2. CASE Moves
  BY <1>1, <1>2 DEF Moves, LoggedInv
<1>3. CASE \E p \in Pid : Announces(p)
  BY <1>3 DEF Announces, LoggedInv
<1> QED BY <1>2, <1>3, EveryStepMoves

LEMMA LoggedInvariant == RunsSpec => []LoggedInv
<1>1. TypeInv /\ RecoveredInv /\ LoggedInv /\ [RunsNext]_allVars => LoggedInv'
  BY LoggedStep
<1> QED BY <1>1, RecoveryInit, TypeInvariant, RecoveredInvariant, PTL DEF RunsSpec

\* The experiment and its recoveries implement PositionLedger: whichever of
\* them dies, and whatever lands late, every position is in the durable log
\* before it can exist.
THEOREM ToolsImplementLedger == RunsSpec => LedgerSpec
<1>1. RunsInit => Ledger!Init
  <2>1. RunsInit => logged = {}
    BY DEF RunsInit, Init
  <2>2. RunsInit => chain \subseteq Pid
    BY TypeInit DEF TypeInv, TypeOK, WorldTypeOK
  <2> QED BY <2>1, <2>2 DEF Ledger!Init
<1>2. ASSUME TypeInv, RecoveredInv, LoggedInv, [RunsNext]_allVars
      PROVE  [Ledger!Next]_(Ledger!vars)
  <2>1. CASE Moves /\ logged # {}
    BY <2>1 DEF Moves, Ledger!Next, Ledger!Change
  <2>2. CASE Moves /\ logged = {}
    BY <2>2 DEF Moves, Ledger!vars
  <2>3. CASE \E p \in Pid : Announces(p)
    <3>1. PICK p \in Pid : Announces(p)
      BY <2>3
    <3>2. /\ chain' = chain /\ logged' # {}
          /\ logged' = (IF logged = {} THEN chain ELSE logged) \cup {p}
      BY <3>1 DEF Announces
    <3> QED BY <3>2 DEF Ledger!Next, Ledger!Announce
  <2> QED BY <1>2, <2>1, <2>2, <2>3, EveryStepMoves
<1> QED BY <1>1, <1>2, TypeInvariant, RecoveredInvariant, LoggedInvariant, PTL
           DEF RunsSpec, LedgerSpec, Ledger!Spec

-----------------------------------------------------------------------------
(* The run cap. *)

\* What the closes of the positions ps will be charged.
Closes(ps) == Cardinality(ps) * WithdrawCharge

LEMMA Forgotten ==
    ASSUME NEW S, NEW x \in S, IsFiniteSet(S)
    PROVE  /\ IsFiniteSet(S \ {x})
           /\ Cardinality(S) \in Nat \ {0}
           /\ Cardinality(S \ {x}) = Cardinality(S) - 1
           /\ Closes(S \ {x}) + WithdrawCharge = Closes(S)
<1>1. /\ IsFiniteSet(S \ {x}) /\ Cardinality(S \ {x}) = Cardinality(S) - 1
      /\ Cardinality(S) \in Nat /\ Cardinality(S \ {x}) \in Nat
  BY FS_RemoveElement, FS_CardinalityType
<1> DEFINE n == Cardinality(S \ {x})
<1>2. Cardinality(S) = n + 1
  BY <1>1
<1>3. (n + 1) * WithdrawCharge = n * WithdrawCharge + WithdrawCharge
  BY <1>1, ChargeTypes
<1> QED BY <1>1, <1>2, <1>3 DEF Closes

LEMMA Remembered ==
    ASSUME NEW S, NEW x, IsFiniteSet(S)
    PROVE  /\ IsFiniteSet(S \cup {x})
           /\ Cardinality(S) \in Nat
           /\ Cardinality(S \cup {x}) \in {Cardinality(S), Cardinality(S) + 1}
           /\ Closes(S \cup {x}) <= Closes(S) + WithdrawCharge
<1>1. /\ IsFiniteSet(S \cup {x}) /\ Cardinality(S) \in Nat
      /\ Cardinality(S \cup {x}) \in {Cardinality(S), Cardinality(S) + 1}
  BY FS_AddElement, FS_CardinalityType
<1> DEFINE n == Cardinality(S)
<1>2. (n + 1) * WithdrawCharge = n * WithdrawCharge + WithdrawCharge
      /\ n * WithdrawCharge \in Nat
  BY <1>1, ChargeTypes
<1> QED BY <1>1, <1>2, ChargeTypes DEF Closes

\* The opened positions are being closed, for a shift.
MidShift ==
    \/ phase \in {"closing", "redeposit"}
    \/ phase = "sent" /\ routine = "shift" /\ call.verb = "withdraw"

\* The closes of ps fit the cap after spent, but for what the last deposit cost
\* beyond what one is taken to cost.
HoldFits(spent, ps) ==
    \E rent \in LegRents \cup {Rent \div 2} :
        spent + Closes(ps) <= RunCap + (rent - (Rent \div 2))

LEMMA HoldFitsAfter ==
    ASSUME NEW rent \in LegRents \cup {Rent \div 2}, NEW spent \in Int, NEW ps,
           Closes(ps) \in Int, spent + Closes(ps) + DepositCharge <= RunCap
    PROVE  HoldFits(spent + Charge(rent), ps)
<1>1. /\ rent \in Int /\ Rent \div 2 \in Int /\ Allowance \in Int /\ Signature \in Int
      /\ RunCap \in Int
  BY LamportAssumption
<1>2. Charge(rent) = DepositCharge + (rent - (Rent \div 2))
  BY <1>1 DEF Charge, DepositCharge
<1>3. DepositCharge \in Int
  BY <1>1 DEF Charge, DepositCharge
<1>4. (spent + Charge(rent)) + Closes(ps) <= RunCap + (rent - (Rent \div 2))
  <2> DEFINE more == rent - (Rent \div 2)
             cost == DepositCharge
             worth == Closes(ps)
  <2>1. more \in Int /\ cost \in Int /\ worth \in Int
    BY <1>1, <1>3
  <2>2. Charge(rent) = cost + more /\ spent + worth + cost <= RunCap
    BY <1>2
  <2> HIDE DEF more, cost, worth
  <2>3. (spent + (cost + more)) + worth <= RunCap + more
    BY <1>1, <2>1, <2>2
  <2> QED BY <2>2, <2>3 DEF more, worth
<1> QED BY <1>4 DEF HoldFits

\* The cap of two deposits and their closes is what the opening needs; the
\* shifts look after themselves.
OpeningFits == 2 * DepositCharge + 2 * WithdrawCharge <= RunCap

\* During a shift the closes, the new deposit and the close of that are kept
\* free; while the two legs are opened the outlay is that of what is in place.
CapInv ==
    /\ IsFiniteSet(opened)
    /\ phase = "preflight" =>
          opened = {} /\ outlay = 0 /\ side = "bid" /\ routine = "open"
    /\ phase = "open" =>
          /\ routine = "open"
          /\ side = "bid" => opened = {} /\ outlay = 0
          /\ side = "ask" => Cardinality(opened) <= 1 /\ outlay <= DepositCharge
    /\ phase = "sent" => call.pid \in opened
    /\ phase = "sent" /\ call.verb = "deposit" => routine \in {"open", "shift"}
    /\ phase = "sent" /\ call.verb = "withdraw" => routine \in {"shift", "cleanup"}
    /\ phase = "sent" /\ routine = "open" =>
          /\ side = "bid" => opened = {call.pid} /\ outlay = 0
          /\ side = "ask" => Cardinality(opened) <= 2 /\ outlay <= DepositCharge
    /\ phase \in {"closing", "redeposit"} => routine = "shift"
    /\ phase = "hold" /\ OpeningFits => HoldFits(outlay, opened)
    /\ MidShift => outlay + Closes(opened) + WithdrawCharge + DepositCharge <= RunCap
    /\ phase = "sent" /\ routine = "shift" /\ call.verb = "deposit" =>
          outlay + Closes(opened) + DepositCharge <= RunCap

LEMMA CapInit == RunsInit => CapInv
BY FS_EmptySet DEF RunsInit, Init, CapInv, MidShift

LEMMA CapDeposit ==
    ASSUME TypeInv, CapInv, NEW b \in Bins, NEW who \in {"open", "shift"},
           \/ phase = "open" /\ who = "open"
           \/ phase = "redeposit" /\ who = "shift",
           Deposit(Position(side, b), who), UNCHANGED outlay
    PROVE  CapInv'
<1> DEFINE p == Position(side, b)
<1>1. CASE Fail /\ opened' = opened
  BY <1>1 DEF Fail, CleanUp, CapInv, MidShift
<1>2. CASE Send("deposit", p, who) /\ opened' = opened \cup {p} /\ side' = side
  <2>1. phase' = "sent" /\ routine' = who /\ call'.verb = "deposit" /\ call'.pid = p
        /\ p \in opened'
    BY <1>2 DEF Send
  <2>2. /\ IsFiniteSet(opened') /\ Cardinality(opened) \in Nat
        /\ Cardinality(opened') \in {Cardinality(opened), Cardinality(opened) + 1}
        /\ Closes(opened') <= Closes(opened) + WithdrawCharge
    BY <1>2, Remembered DEF CapInv, Closes
  <2>3. CASE phase = "open" /\ who = "open"
    BY <1>2, <2>1, <2>2, <2>3 DEF CapInv, MidShift
  <2>4. CASE phase = "redeposit" /\ who = "shift"
    <3>1. outlay + Closes(opened) + WithdrawCharge + DepositCharge <= RunCap
      BY <2>4 DEF CapInv, MidShift
    <3>2. Closes(opened) \in Int /\ Closes(opened') \in Int /\ outlay \in Nat /\ RunCap \in Nat
      BY <2>2, ChargeTypes, LamportAssumption DEF Closes, TypeInv, TypeOK
    <3>3. Closes(opened') <= Closes(opened) + WithdrawCharge
      BY <2>2
    <3>4. outlay + Closes(opened') + DepositCharge <= RunCap
      BY <3>1, <3>2, <3>3, ChargeTypes
    <3> QED BY <2>1, <2>2, <2>4, <3>4 DEF CapInv, MidShift
  <2> QED BY <2>3, <2>4
<1> QED BY <1>1, <1>2 DEF Deposit

LEMMA CapDepositAnswered ==
    ASSUME TypeInv, CapInv, NEW a \in Answer, DepositAnswered(a)
    PROVE  CapInv'
<1>1. /\ phase = "sent" /\ call.verb = "deposit" /\ call.pid \in opened
      /\ routine \in {"open", "shift"} /\ routine' = routine /\ side \in Sides
      /\ outlay \in Nat /\ RunCap \in Nat
  BY LamportAssumption DEF DepositAnswered, CapInv, TypeInv, TypeOK
<1>2. /\ IsFiniteSet(opened) /\ IsFiniteSet(opened \ {call.pid})
      /\ Cardinality(opened) \in Nat \ {0}
      /\ Cardinality(opened \ {call.pid}) = Cardinality(opened) - 1
      /\ Closes(opened \ {call.pid}) + WithdrawCharge = Closes(opened)
      /\ Cardinality(opened \ {call.pid}) \in Int
  BY <1>1, Forgotten DEF CapInv
<1>3. Closes(opened \ {call.pid}) \in Int /\ Closes(opened) \in Int
  BY <1>2, ChargeTypes DEF Closes
<1>4. ASSUME NextLeg, opened' = opened,
             NEW rent \in IF routine = "open" THEN {Rent \div 2} ELSE LegRents,
             outlay' = outlay + Charge(rent)
      PROVE  CapInv'
  <2> USE <1>4
  <2>0. routine = "open" => outlay' = outlay + DepositCharge
    BY DEF DepositCharge
  <2>1. CASE routine = "open" /\ side = "bid"
    <3>1. Cardinality(opened) = 1 /\ outlay = 0
      BY <1>1, <2>1, FS_Singleton DEF CapInv
    <3>2. phase' = "open" /\ side' = "ask"
      BY <1>4, <2>1 DEF NextLeg
    <3> QED BY <1>1, <1>2, <1>3, <2>0, <2>1, <3>1, <3>2, ChargeTypes DEF CapInv, MidShift
  <2>2. CASE routine = "open" /\ side = "ask"
    <3>1. Cardinality(opened) \in {1, 2} /\ outlay <= DepositCharge
      BY <1>1, <1>2, <1>3, <2>2 DEF CapInv
    <3>2. Closes(opened) <= 2 * WithdrawCharge
      BY <3>1, ChargeTypes DEF Closes
    <3>3. OpeningFits => outlay + Closes(opened) + DepositCharge <= RunCap
      BY <1>1, <1>2, <1>3, <3>1, <3>2, ChargeTypes DEF OpeningFits
    <3>4. OpeningFits => HoldFits(outlay', opened')
      BY <1>1, <1>3, <3>3, HoldFitsAfter, <2>2
    <3>5. phase' = "hold"
      BY <2>2 DEF NextLeg
    <3> QED BY <1>2, <3>4, <3>5 DEF CapInv, MidShift
  <2>3. CASE routine = "shift"
    <3>1. outlay + Closes(opened) + DepositCharge <= RunCap
      BY <1>1, <2>3 DEF CapInv
    <3>2. phase' = "hold"
      BY <2>3 DEF NextLeg
    <3>3. HoldFits(outlay', opened')
      BY <1>1, <1>3, <2>3, <3>1, HoldFitsAfter
    <3> QED BY <1>2, <3>2, <3>3 DEF CapInv, MidShift
  <2> QED BY <1>1, <2>1, <2>2, <2>3 DEF Sides
<1>5. CASE opened' = opened \ {call.pid} /\ outlay' = outlay /\ Again
  <2>1. CASE routine = "open"
    <3>1. phase' = "open" /\ side' = side
      BY <1>5, <2>1 DEF Again
    <3>2. side = "bid" => opened' = {} /\ outlay = 0
      BY <1>1, <1>5, <2>1 DEF CapInv
    <3>3. side = "ask" => Cardinality(opened') <= 1 /\ outlay <= DepositCharge
      BY <1>1, <1>2, <1>3, <1>5, <2>1 DEF CapInv
    <3> QED BY <1>1, <1>2, <1>3, <1>5, <2>1, <3>1, <3>2, <3>3 DEF CapInv, MidShift
  <2>2. CASE routine = "shift"
    <3>1. outlay + Closes(opened) + DepositCharge <= RunCap
      BY <1>1, <2>2 DEF CapInv
    <3>2. Closes(opened') + WithdrawCharge = Closes(opened)
      BY <1>2, <1>3, <1>5 DEF Closes
    <3>3. phase' = "redeposit"
      BY <1>5, <2>2 DEF Again
    <3>4. Closes(opened') \in Int
      BY <1>3, <1>5 DEF Closes
    <3>5. outlay' + Closes(opened') + WithdrawCharge + DepositCharge <= RunCap
      BY <1>1, <1>2, <1>3, <1>5, <3>1, <3>2, <3>4, ChargeTypes
    <3> QED BY <1>1, <1>2, <1>3, <1>5, <2>2, <3>3, <3>5 DEF CapInv, MidShift
  <2> QED BY <1>1, <2>1, <2>2
<1>6. CASE CleanUp(opened', FALSE) /\ opened' = opened \ {call.pid}
  BY <1>2, <1>3, <1>6 DEF CleanUp, CapInv, MidShift
<1>7. CASE CleanUp(opened, unknown') /\ opened' = opened
  BY <1>2, <1>3, <1>7 DEF CleanUp, CapInv, MidShift
<1> QED BY <1>4, <1>5, <1>6, <1>7 DEF DepositAnswered

LEMMA CapWithdrawAnswered ==
    ASSUME TypeInv, CapInv, NEW a \in Answer, WithdrawAnswered(a)
    PROVE  CapInv'
<1>1. /\ phase = "sent" /\ call.verb = "withdraw" /\ call.pid \in opened
      /\ routine \in {"shift", "cleanup"} /\ routine' = routine
      /\ outlay \in Nat /\ RunCap \in Nat
  BY LamportAssumption DEF WithdrawAnswered, CapInv, TypeInv, TypeOK
<1>2. /\ IsFiniteSet(opened) /\ IsFiniteSet(opened \ {call.pid})
      /\ Closes(opened \ {call.pid}) + WithdrawCharge = Closes(opened)
      /\ Closes(opened \ {call.pid}) \in Int /\ Closes(opened) \in Int
  <2>1. /\ IsFiniteSet(opened) /\ IsFiniteSet(opened \ {call.pid})
        /\ Closes(opened \ {call.pid}) + WithdrawCharge = Closes(opened)
        /\ Cardinality(opened \ {call.pid}) \in Int
    BY <1>1, Forgotten DEF CapInv
  <2> QED BY <2>1, ChargeTypes DEF Closes
<1>3. \/ /\ Closed(a) /\ Forget(call.pid)
         /\ phase' = IF routine = "shift" THEN "closing" ELSE "cleanup"
      \/ phase' = "cleanup" /\ opened' \in {opened, opened \ {call.pid}}
  BY DEF WithdrawAnswered, CloseFailed, CleanUp
<1>4. CASE Closed(a) /\ routine = "shift" /\ phase' = "closing"
  <2>1. outlay' = outlay + WithdrawCharge /\ opened' = opened \ {call.pid}
        /\ phase' = "closing"
    BY <1>1, <1>4 DEF WithdrawAnswered, Closed, Forget
  <2>2. outlay + Closes(opened) + WithdrawCharge + DepositCharge <= RunCap
    BY <1>1, <1>4 DEF CapInv, MidShift
  <2>3. Closes(opened') + WithdrawCharge = Closes(opened) /\ Closes(opened') \in Int
    BY <1>2, <2>1 DEF Closes
  <2>4. outlay' + Closes(opened') + WithdrawCharge + DepositCharge <= RunCap
    BY <1>1, <1>2, <2>1, <2>2, <2>3, ChargeTypes
  <2> QED BY <1>1, <1>2, <1>4, <2>1, <2>4 DEF CapInv, MidShift
<1>5. CASE phase' = "cleanup" /\ opened' \in {opened, opened \ {call.pid}}
  BY <1>2, <1>5 DEF CapInv, MidShift
<1> QED BY <1>1, <1>3, <1>4, <1>5 DEF Forget

LEMMA CapProgram ==
    ASSUME TypeInv, CapInv, RunExperiment
    PROVE  CapInv'
<1>1. CASE Preflight
  BY <1>1, FS_EmptySet DEF Preflight, CapInv, MidShift
<1>2. CASE OpenLeg
  <2>1. CASE NotDeposited
    BY <1>2, <2>1 DEF OpenLeg, NotDeposited, Fail, CleanUp, CapInv, MidShift
  <2>2. CASE \E b \in Bins : Deposit(Position(side, b), "open")
    BY <1>2, <2>2, CapDeposit DEF OpenLeg
  <2> QED BY <1>2, <2>1, <2>2 DEF OpenLeg
<1>3. CASE Redeposit
  <2>1. CASE NotDeposited
    BY <1>3, <2>1 DEF Redeposit, NotDeposited, Fail, CleanUp, CapInv, MidShift
  <2>2. CASE \E b \in Bins : Deposit(Position(side, b), "shift")
    BY <1>3, <2>2, CapDeposit DEF Redeposit
  <2> QED BY <1>3, <2>1, <2>2 DEF Redeposit
<1>4. CASE EndHold
  BY <1>4 DEF EndHold, CleanUp, CapInv, MidShift
<1>5. CASE StartShift
  <2>1. Cardinality(opened) \in Nat
    BY FS_CardinalityType DEF CapInv
  <2>2. (Cardinality(opened) + 1) * WithdrawCharge = Closes(opened) + WithdrawCharge
        /\ Closes(opened) \in Int
    BY <2>1, ChargeTypes DEF Closes
  <2>3. outlay + (Closes(opened) + WithdrawCharge) + DepositCharge <= RunCap
    BY <1>5, <2>2 DEF StartShift, FitsRunCap
  <2>4. outlay + Closes(opened) + WithdrawCharge + DepositCharge <= RunCap
    BY <2>2, <2>3, ChargeTypes DEF TypeInv, TypeOK
  <2> QED BY <1>5, <2>4 DEF StartShift, CapInv, MidShift
<1>6. CASE FoundAbsent
  <2>1. PICK p \in todo : Forget(p)
    BY <1>6 DEF FoundAbsent
  <2>2. /\ p \in opened /\ opened' = opened \ {p} /\ phase \in {"closing", "cleanup"}
        /\ UNCHANGED <<phase, routine, outlay>> /\ outlay \in Nat /\ RunCap \in Nat
    BY <1>6, <2>1, LamportAssumption DEF FoundAbsent, Closing, Forget, TypeInv, TypeOK
  <2>3. /\ IsFiniteSet(opened') /\ Closes(opened') + WithdrawCharge = Closes(opened)
        /\ Cardinality(opened') \in Int
    <3>1. /\ IsFiniteSet(opened \ {p}) /\ Cardinality(opened \ {p}) \in Int
          /\ Closes(opened \ {p}) + WithdrawCharge = Closes(opened)
      BY <2>2, Forgotten DEF CapInv
    <3> QED BY <2>2, <3>1
  <2>4. Closes(opened') \in Int /\ Closes(opened) \in Int
    BY <2>3, ChargeTypes DEF Closes
  <2>5. CASE phase = "closing"
    <3>1. outlay + Closes(opened) + WithdrawCharge + DepositCharge <= RunCap
      BY <2>5 DEF CapInv, MidShift
    <3>2. outlay + Closes(opened') + WithdrawCharge + DepositCharge <= RunCap
      BY <2>2, <2>3, <2>4, <3>1, ChargeTypes
    <3> QED BY <2>2, <2>3, <2>5, <3>2 DEF CapInv, MidShift
  <2>6. CASE phase = "cleanup"
    BY <2>2, <2>3, <2>6 DEF CapInv, MidShift
  <2> QED BY <2>2, <2>5, <2>6
<1>7. CASE CannotVerify
  BY <1>7 DEF CannotVerify, Closing, CleanUp, CapInv, MidShift
<1>8. CASE Withdraw
  <2>1. PICK p \in todo :
          Send("withdraw", p, IF phase = "closing" THEN "shift" ELSE "cleanup")
    BY <1>8 DEF Withdraw
  <2>2. /\ phase' = "sent" /\ call'.verb = "withdraw" /\ call'.pid \in opened
        /\ routine' = IF phase = "closing" THEN "shift" ELSE "cleanup"
        /\ UNCHANGED <<opened, outlay, side>>
    BY <1>8, <2>1 DEF Withdraw, Send, TypeInv, TypeOK
  <2> QED BY <2>2 DEF CapInv, MidShift
<1>9. CASE ShiftClosed
  BY <1>9 DEF ShiftClosed, CapInv, MidShift
<1>10. CASE Report
  BY <1>10 DEF Report, CapInv, MidShift
<1>11. CASE Answered
  BY <1>11, CapDepositAnswered, CapWithdrawAnswered DEF Answered
<1> QED BY <1>1, <1>2, <1>3, <1>4, <1>5, <1>6, <1>7, <1>8, <1>9, <1>10, <1>11
           DEF RunExperiment, Program

LEMMA CapAround ==
    ASSUME CapInv,
           Environment \/ Landing \/ StartRecovery \/ Recover \/ RecoveryCrash
    PROVE  CapInv'
<1>1. CASE UNCHANGED <<phase, call, opened, outlay, side, routine>>
  BY <1>1 DEF CapInv, MidShift
<1>2. CASE phase' = "dead" /\ opened' = {}
  BY <1>2, FS_EmptySet DEF CapInv, MidShift
<1> QED BY <1>1, <1>2 DEF Environment, Crash, TimeUp, Gone, Landing, Chain,
           StartRecovery, Recover, RecoveryCrash, run

LEMMA CapInvariant == RunsSpec => []CapInv
<1>1. ASSUME CapInv, UNCHANGED allVars
      PROVE  CapInv'
  BY <1>1 DEF allVars, vars, run, CapInv, MidShift
<1>2. TypeInv /\ CapInv /\ [RunsNext]_allVars => CapInv'
  BY <1>1, CapProgram, CapAround DEF RunsNext
<1> QED BY <1>2, CapInit, TypeInvariant, PTL DEF RunsSpec

\* When the run cap covers the two deposits of the opening and their closes,
\* no number of shifts, refused deposits and failed closes leaves the hold with
\* a position whose close the executor would refuse for the cap, but for what
\* the last deposit cost beyond half of the rent first inspected, whatever rents
\* the later inspections find.
THEOREM ClosesAlwaysFit == OpeningFits => (RunsSpec => []ClosesFitRunCap)
<1> SUFFICES ASSUME OpeningFits PROVE RunsSpec => []ClosesFitRunCap
  OBVIOUS
<1>1. CapInv => ClosesFitRunCap
  BY DEF CapInv, HoldFits, ClosesFitRunCap, Closes
<1> QED BY <1>1, CapInvariant, PTL

-----------------------------------------------------------------------------
(* The experiment ends. *)

\* The position that is being withdrawn is on the list of its loop.
ListInv == phase = "sent" /\ call.verb = "withdraw" => call.pid \in todo

LEMMA ListInvariant == RunsSpec => []ListInv
<1>1. RunsInit => ListInv
  BY DEF RunsInit, Init, ListInv
<1>2. ASSUME [RunsNext]_allVars, ListInv
      PROVE  ListInv'
  <2>1. CASE UNCHANGED <<phase, call, todo>> \/ phase' # "sent"
    BY <1>2, <2>1 DEF ListInv
  <2>2. CASE OpenLeg \/ Redeposit
    <3>1. \/ Fail
          \/ \E p, who : Send("deposit", p, who)
      BY <2>2 DEF OpenLeg, Redeposit, Deposit, NotDeposited
    <3>2. phase' = "cleanup" \/ call'.verb = "deposit"
      BY <3>1 DEF Fail, CleanUp, Send
    <3> QED BY <3>2 DEF ListInv
  <2>3. CASE Withdraw
    BY <2>3 DEF Withdraw, Send, ListInv
  <2>4. CASE Preflight \/ EndHold \/ StartShift \/ FoundAbsent \/ CannotVerify
             \/ ShiftClosed \/ Report \/ Answered
    <3>1. phase' # "sent"
      BY <2>4 DEF Preflight, EndHold, StartShift, FoundAbsent, CannotVerify, Closing,
         ShiftClosed, Report, Answered, DepositAnswered, NextLeg, NoLeg, Again,
         CleanUp, WithdrawAnswered, CloseFailed
    <3> QED BY <2>1, <3>1
  <2>5. CASE Environment \/ Landing \/ StartRecovery \/ Recover \/ RecoveryCrash
    BY <2>1, <2>5 DEF Environment, Crash, TimeUp, Gone, Landing, Chain, StartRecovery,
       Recover, RecoveryCrash, run
  <2>6. CASE UNCHANGED allVars
    BY <2>1, <2>6 DEF allVars, vars, run
  <2> QED BY <1>2, <2>2, <2>3, <2>4, <2>5, <2>6 DEF RunsNext, RunExperiment, Program
<1> QED BY <1>1, <1>2, PTL DEF RunsSpec

\* A deposit is sent, or the leg is given up.
LEMMA DepositLeadsOn ==
    ASSUME TypeInv, CapInv, OpenLeg \/ Redeposit
    PROVE  LeadsOn
<1>1. \/ phase = "open" /\ Stage = 5
      \/ phase = "redeposit" /\ Stage = 2
  BY DEF OpenLeg, Redeposit, Stage, Calling
<1>2. todo = {} /\ phase # "sent"
  BY <1>1 DEF TypeInv
<1>3. CASE Fail
  <2>1. phase' = "cleanup"
    BY <1>3 DEF Fail, CleanUp
  <2>2. Stage' = 1
    BY <2>1 DEF Stage, Calling
  <2> QED BY <1>1, <2>2 DEF LeadsOn
<1>4. CASE phase' = "sent" /\ call'.verb = "deposit" /\ UNCHANGED <<attempt, todo>>
           /\ \/ phase = "open" /\ routine' = "open"
              \/ phase = "redeposit" /\ routine' = "shift"
  <2>1. Stage' = Stage
    BY <1>1, <1>4 DEF Stage, Calling
  <2> QED BY <1>2, <1>4, <2>1 DEF LeadsOn, Shorter
<1>5. \/ Fail
      \/ /\ UNCHANGED <<attempt, todo>>
         /\ \/ phase = "open" /\ \E p : Send("deposit", p, "open")
            \/ phase = "redeposit" /\ \E p : Send("deposit", p, "shift")
  BY DEF OpenLeg, Redeposit, NotDeposited, Deposit
<1> QED BY <1>3, <1>4, <1>5 DEF Send

LEMMA DepositAnswerLeadsOn ==
    ASSUME TypeInv, CapInv, NEW a \in Answer, DepositAnswered(a)
    PROVE  LeadsOn
<1>1. /\ phase = "sent" /\ call.verb = "deposit"
      /\ routine' = routine /\ outlay \in Nat /\ attempt \in Nat
      /\ \/ routine = "open" /\ Stage = 5
         \/ routine = "shift" /\ Stage = 2
  BY AttemptsAssumption DEF DepositAnswered, CapInv, TypeInv, TypeOK, Stage, Calling
<1>2. CASE phase' = "cleanup"
  <2>1. Stage' = 1
    BY <1>2 DEF Stage, Calling
  <2> QED BY <1>1, <2>1 DEF LeadsOn
<1>3. CASE Again
  <2>1. attempt' > attempt
    BY <1>1, <1>3 DEF Again
  <2>2. Stage' = Stage
    BY <1>1, <1>3 DEF Again, Stage, Calling
  <2> QED BY <2>1, <2>2 DEF LeadsOn
<1>4. ASSUME NextLeg, NEW rent \in LegRents \cup {Rent \div 2},
             outlay' = outlay + Charge(rent)
      PROVE  LeadsOn
  <2>1. CASE routine = "open" /\ side # "bid"
    <3>1. Stage' = 4
      BY <1>4, <2>1 DEF NextLeg, Stage, Calling
    <3> QED BY <1>1, <2>1, <3>1 DEF LeadsOn
  <2>2. outlay' > outlay
    <3>1. rent \in Nat /\ Allowance \in Nat /\ Signature \in Nat /\ Signature # 0
      BY LamportAssumption
    <3>2. Charge(rent) \in Nat /\ Charge(rent) # 0
      BY <3>1 DEF Charge
    <3> HIDE DEF Charge
    <3> QED BY <1>1, <1>4, <3>2
  <2>3. CASE routine = "open" /\ side = "bid"
    <3>1. outlay = 0
      BY <1>1, <2>3 DEF CapInv
    <3>2. Stage' = 5
      BY <1>4, <2>3 DEF NextLeg, Stage, Calling
    <3>3. RunCap + DepositCharge \in Nat
      BY ChargeTypes, LamportAssumption
    <3> QED BY <1>1, <2>2, <2>3, <3>1, <3>2, <3>3 DEF LeadsOn
  <2>4. CASE routine = "shift"
    <3>1. outlay + Closes(opened) + DepositCharge <= RunCap
      BY <1>1, <2>4 DEF CapInv
    <3>2. Closes(opened) \in Nat
      BY FS_CardinalityType, ChargeTypes DEF CapInv, Closes
    <3>3. outlay <= RunCap + DepositCharge
      BY <1>1, <3>1, <3>2, ChargeTypes, LamportAssumption
    <3>4. Stage' = 4
      BY <1>4, <2>4 DEF NextLeg, Stage, Calling
    <3> QED BY <1>1, <2>2, <2>4, <3>3, <3>4 DEF LeadsOn
  <2> QED BY <1>1, <2>1, <2>3, <2>4
<1>5. \/ phase' = "cleanup" \/ Again
      \/ \E rent \in LegRents \cup {Rent \div 2} : NextLeg /\ outlay' = outlay + Charge(rent)
  BY DEF DepositAnswered, CleanUp
<1> QED BY <1>2, <1>3, <1>4, <1>5

LEMMA CloseLeadsOn ==
    ASSUME TypeInv, CapInv, ListInv,
           \/ FoundAbsent \/ CannotVerify \/ Withdraw \/ ShiftClosed
           \/ \E a \in Answer : WithdrawAnswered(a)
    PROVE  LeadsOn
<1>1. CASE Stage' < Stage
  BY <1>1 DEF LeadsOn
<1>2. CASE Stage' = Stage /\ attempt' = attempt /\ todo' \subseteq todo /\ todo' # todo
  BY <1>2 DEF LeadsOn, Shorter
<1>3. CASE FoundAbsent
  <2>1. Stage' = Stage /\ attempt' = attempt
    BY <1>3 DEF FoundAbsent, Closing, Stage, Calling
  <2> QED BY <1>2, <1>3, <2>1 DEF FoundAbsent, Forget
<1>4. CASE CannotVerify
  <2>1. CASE phase = "closing"
    <3>1. phase' = "cleanup"
      BY <1>4, <2>1 DEF CannotVerify, CleanUp
    <3>2. Stage' = 1 /\ Stage = 3
      BY <2>1, <3>1 DEF Stage, Calling
    <3> QED BY <1>1, <3>2
  <2>2. CASE phase = "cleanup"
    <3>1. phase' = "cleanup" /\ attempt' = attempt
          /\ \E p \in todo : todo' = todo \ {p}
      BY <1>4, <2>2 DEF CannotVerify
    <3>2. Stage' = 1 /\ Stage = 1
      BY <2>2, <3>1 DEF Stage, Calling
    <3> QED BY <1>2, <3>1, <3>2
  <2> QED BY <1>4, <2>1, <2>2 DEF CannotVerify, Closing
<1>5. CASE Withdraw
  <2>1. /\ phase' = "sent" /\ call'.verb = "withdraw" /\ UNCHANGED <<attempt, todo>>
        /\ \/ phase = "closing" /\ routine' = "shift"
           \/ phase = "cleanup" /\ routine' = "cleanup"
    BY <1>5 DEF Withdraw, Closing, Send
  <2>2. Stage' = Stage
    BY <2>1 DEF Stage, Calling
  <2> QED BY <2>1, <2>2 DEF LeadsOn, Shorter
<1>6. CASE ShiftClosed
  <2>1. Stage = 3 /\ Stage' = 2
    BY <1>6 DEF ShiftClosed, Stage, Calling
  <2> QED BY <1>1, <2>1
<1>7. ASSUME NEW a \in Answer, WithdrawAnswered(a)
      PROVE  LeadsOn
  <2>1. /\ phase = "sent" /\ call.verb = "withdraw" /\ call.pid \in todo
        /\ routine \in {"shift", "cleanup"} /\ routine' = routine
    BY <1>7 DEF WithdrawAnswered, CapInv, ListInv
  <2>2. \/ /\ phase' = IF routine = "shift" THEN "closing" ELSE "cleanup"
           /\ attempt' = attempt /\ todo' \in {{}, todo \ {call.pid}}
        \/ routine = "shift" /\ phase' = "cleanup"
    BY <1>7, <2>1 DEF WithdrawAnswered, Forget, CloseFailed, CleanUp
  <2>3. CASE routine = "shift" /\ phase' = "cleanup"
    <3>1. Stage = 3 /\ Stage' = 1
      BY <2>1, <2>3 DEF Stage, Calling
    <3> QED BY <1>1, <3>1
  <2>4. CASE /\ phase' = IF routine = "shift" THEN "closing" ELSE "cleanup"
             /\ attempt' = attempt /\ todo' \in {{}, todo \ {call.pid}}
    <3>1. Stage' = Stage
      BY <2>1, <2>4 DEF Stage, Calling
    <3> QED BY <1>2, <2>1, <2>4, <3>1
  <2> QED BY <2>2, <2>3, <2>4
<1> QED BY <1>3, <1>4, <1>5, <1>6, <1>7

\* Drifts, retries, shifts and cleanups come to an end: every step of the
\* experiment leads on, whatever is answered, dropped or read too early.
THEOREM ExperimentLeadsOn == RunsSpec => EveryStepLeadsOn
<1>1. ASSUME TypeInv, CapInv, ListInv, [RunsNext]_allVars, run' # run, phase' # "dead"
      PROVE  LeadsOn
  <2>1. CASE OpenLeg \/ Redeposit
    BY <1>1, <2>1, DepositLeadsOn
  <2>2. CASE \E a \in Answer : DepositAnswered(a)
    BY <1>1, <2>2, DepositAnswerLeadsOn
  <2>3. CASE \/ FoundAbsent \/ CannotVerify \/ Withdraw \/ ShiftClosed
             \/ \E a \in Answer : WithdrawAnswered(a)
    BY <1>1, <2>3, CloseLeadsOn
  <2>4. CASE Preflight
    <3>1. phase = "preflight" /\ phase' \in {"open", "done"}
      BY <2>4 DEF Preflight
    <3>2. Stage = 6 /\ Stage' \in {5, 0}
      BY <3>1 DEF Stage, Calling
    <3> QED BY <3>2 DEF LeadsOn
  <2>5. CASE EndHold \/ StartShift
    <3>1. phase = "hold" /\ phase' \in {"cleanup", "closing"}
      BY <2>5 DEF EndHold, StartShift, CleanUp
    <3>2. Stage = 4 /\ Stage' \in {1, 3}
      BY <3>1 DEF Stage, Calling
    <3> QED BY <3>2 DEF LeadsOn
  <2>6. CASE Report
    <3>1. Stage = 1 /\ Stage' = 0
      BY <2>6 DEF Report, Stage, Calling
    <3> QED BY <3>1 DEF LeadsOn
  <2>7. CASE \/ Environment \/ Landing \/ StartRecovery \/ Recover \/ RecoveryCrash
             \/ UNCHANGED allVars
    BY <1>1, <2>7 DEF Environment, Crash, TimeUp, Gone, Landing, Chain, StartRecovery,
       Recover, RecoveryCrash, allVars, vars
  <2> QED BY <1>1, <2>1, <2>2, <2>3, <2>4, <2>5, <2>6, <2>7
             DEF RunsNext, RunExperiment, Program, Answered
<1> QED BY <1>1, TypeInvariant, CapInvariant, ListInvariant, PTL
        DEF RunsSpec, EveryStepLeadsOn
=============================================================================
