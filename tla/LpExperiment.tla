---------------------------- MODULE LpExperiment ----------------------------
(***************************************************************************)
(* The bounded live experiment (src/tools/live_lp_experiment.py):          *)
(* preflight, two one-sided deposits, a hold in which the liquidity may be *)
(* shifted after the price, and a cleanup that withdraws what was opened.  *)
(* Every write is one step to send it, and one to take the answer          *)
(* (action()), so that the process may be killed in between.  What a       *)
(* position is worth, and what is claimed of it, is left out; a loss, a    *)
(* fee budget or a balance that is short is a free choice.                 *)
(***************************************************************************)
EXTENDS LpChain

CONSTANTS
    ShiftGap,    \* args.shift_gap, 0 for fixed ranges
    Rent,        \* rent_lamports of the two positions, as first inspected
    LegRents,    \* rent_lamports of one position, when it is inspected anew
    Allowance,   \* TOKEN_ACCOUNT_LAMPORTS
    Signature,   \* SIGNATURE_LAMPORTS
    Attempts,    \* deposits tried for a leg: range(1, 4)
    FeeBudget,   \* args.fee_budget_sol, in lamports
    RunCap,      \* MAX_SOL_PER_RUN, in lamports
    NoCall

ASSUME ShiftGapAssumption == ShiftGap \in Nat
ASSUME LamportAssumption ==
    /\ Rent \in Nat /\ LegRents \subseteq Nat /\ LegRents # {}
    /\ Allowance \in Nat /\ Signature \in Nat \ {0}
    /\ FeeBudget \in Nat /\ RunCap \in Nat
ASSUME AttemptsAssumption == Attempts \in Nat \ {0}
ASSUME NoCallAssumption == NoCall \notin Call

WithdrawCharge == 2 * Allowance + Signature
Charge(rent) == rent + Allowance + Signature

\* What a deposit is taken to cost: half of the rent first inspected.
DepositCharge == Charge(Rent \div 2)

VARIABLES
    phase,      \* where run_experiment is
    routine,    \* on whose behalf a call is made: "open", "shift", "cleanup"
    live,       \* args.live
    call,       \* the call whose answer is awaited
    side,       \* the leg being opened, or the side a shift moves to
    attempt,    \* attempt, 1 .. Attempts
    planned,    \* the addresses of experiment_plan
    leg,        \* the address of the leg as last planned, if one is opened
    opened, ranges,             \* so named; ranges by its keys
    todo,       \* what a loop over list(opened) has left
    passed, unknown, complete,  \* preflight_pass, unknown, cleanup_complete
    failed,     \* error is not None
    outlay,     \* outlay
    fees,       \* the positions whose opening is charged for in fees
    logged,     \* addresses in the fsynced action_request records
    stop        \* the signal handlers' Event is set, or the deadline has passed

run == <<phase, routine, live, call, side, attempt, planned, leg, opened,
         ranges, todo, passed, unknown, complete, failed, outlay, fees>>
vars == <<run, world, logged, stop>>

Init ==
    /\ WorldInit
    /\ phase = "preflight" /\ routine = "open"
    /\ live \in BOOLEAN
    /\ call = NoCall
    /\ side = "bid" /\ attempt = 1
    /\ planned = {} /\ leg = {}
    /\ opened = {} /\ ranges = {} /\ todo = {}
    /\ passed = FALSE /\ unknown = FALSE /\ complete = FALSE /\ failed = FALSE
    /\ outlay = 0 /\ fees = {}
    /\ logged = {}
    /\ stop = FALSE

\* proposed: what was planned first, and every address a write was sent for.
Proposed == planned \cup logged

\* main: the exit code is 0.
Succeeded == passed /\ complete /\ ~failed

-----------------------------------------------------------------------------
(* Leaving the try block.                                                  *)

\* No leg is being opened.
NoLeg == side' = "bid" /\ attempt' = 1 /\ leg' = {}

\* a mutant: the cleanup goes on whatever is in doubt
CleanUpAnyway(left, inDoubt) ==
    /\ phase' = "cleanup"
    /\ todo' = left
    /\ NoLeg

\* An exception, or a reason to end the hold: what is left to clean up.
CleanUp(left, inDoubt) ==
    /\ phase' = "cleanup"
    /\ todo' = IF inDoubt THEN {} ELSE left
    /\ NoLeg

Fail ==
    /\ failed' = TRUE
    /\ CleanUp(opened, unknown)

\* The plan made from the first state read: the two legs around bin b.
Preflight ==
    /\ phase = "preflight"
    /\ \E b \in Bins, fine \in BOOLEAN :
        /\ planned' = {Position(s, b) : s \in Sides}
        /\ leg' = {Position("bid", b)}
        /\ IF fine /\ chain = {} /\ (live => Rent + FeeBudget <= RunCap)
           THEN /\ passed' = TRUE
                /\ complete' = ~live
                /\ phase' = IF live THEN "open" ELSE "done"
                /\ UNCHANGED failed
           ELSE /\ failed' = TRUE
                /\ phase' = "done"
                /\ UNCHANGED <<passed, complete>>
    /\ UNCHANGED <<routine, live, call, side, attempt, opened, ranges, todo,
                   unknown, outlay, fees, world, logged, stop>>

-----------------------------------------------------------------------------
(* Writes.                                                                 *)

\* a mutant: the request is recorded with its result
SendUnlogged(verb, pid, who) ==
    /\ call' = [verb |-> verb, pid |-> pid]
    /\ UNCHANGED logged
    /\ phase' = "sent"
    /\ routine' = who

\* action(), up to the executor.
Send(verb, pid, who) ==
    /\ call' = [verb |-> verb, pid |-> pid]
    /\ logged' = logged \cup {pid}
    /\ phase' = "sent"
    /\ routine' = who

\* A deposit at p.  Its address is recorded first, and it is not adopted if
\* the account inspection finds it; a leg that has not moved since it was
\* last inspected is not inspected again.
Deposit(p, who) ==
    \E view \in (IF p \in leg THEN {{}} ELSE Views({p})), funded \in BOOLEAN :
        /\ IF p \in leg THEN UNCHANGED <<stale, missed>> ELSE Looked({p}, view)
        /\ IF p \in leg \/ (funded /\ view = {})
           THEN /\ Send("deposit", p, who)
                /\ leg' = {p}
                /\ opened' = opened \cup {p}
                /\ UNCHANGED <<side, attempt, failed, todo>>
           ELSE /\ Fail
                /\ UNCHANGED <<routine, call, opened, logged>>

\* The fee budget, the state, the custody or the funding stops the attempt.
NotDeposited ==
    /\ Fail
    /\ UNCHANGED <<routine, call, opened, logged, stale, missed>>

\* One attempt of the opening loop, from a fresh state.
OpenLeg ==
    /\ phase = "open"
    /\ \/ ~stop /\ \E b \in Bins : Deposit(Position(side, b), "open")
       \/ NotDeposited
    /\ UNCHANGED <<live, planned, ranges, passed, unknown, complete, outlay, fees,
                   chain, pending, stop>>

\* An attempt of the redeposit of a shift, always inspected.
Redeposit ==
    /\ phase = "redeposit"
    /\ \/ \E b \in Bins : Deposit(Position(side, b), "shift")
       \/ NotDeposited
    /\ UNCHANGED <<live, planned, ranges, passed, unknown, complete, outlay, fees,
                   chain, pending, stop>>

Unsubmitted(a) == a.error \in {"drift", "rejected"}

\* a mutant: a rejection is believed, whatever it carries
UnresolvedByCode(a) ==
    ~a.ok /\ (a.transport \/ (~a.proven /\ ~Unsubmitted(a)))

\* action(): does this answer leave open what happened?  A raising bridge
\* is taken like a timeout.
Unresolved(a) ==
    ~a.ok /\ (a.transport \/ (~a.proven /\ (~Unsubmitted(a) \/ a.evidence)))

\* OpeningDrift: the price moved under a deposit that is known to have failed.
Drifted(a) == a.error = "drift" \/ a.drifted

\* A deposit is in place: the other leg is next, or the hold.
NextLeg ==
    IF routine = "open" /\ side = "bid"
    THEN /\ side' = "ask" /\ attempt' = 1 /\ phase' = "open"
         /\ leg' = {p \in planned : p.side = "ask"}
    ELSE phase' = "hold" /\ NoLeg

\* a mutant: attempts are not counted
AgainUncounted ==
    /\ IF routine = "open" THEN phase' = "open" /\ UNCHANGED leg
       ELSE phase' = "redeposit" /\ leg' = {}
    /\ UNCHANGED <<attempt, side, failed, todo>>

\* A refused deposit is tried again only after a drift; what a shift plans is
\* inspected every time.
Again ==
    /\ attempt' = attempt + 1
    /\ IF routine = "open" THEN phase' = "open" /\ UNCHANGED leg
       ELSE phase' = "redeposit" /\ leg' = {}
    /\ UNCHANGED <<side, failed, todo>>

DepositAnswered(a) ==
    /\ phase = "sent" /\ call.verb = "deposit"
    /\ \E fate \in Fates(call, a) : Meets(call, fate)
    /\ unknown' = (unknown \/ Unresolved(a) \/ (a.ok /\ ~a.right))
    /\ call' = NoCall
    /\ \/ /\ a.ok /\ a.right /\ a.evidence
          /\ ranges' = ranges \cup {call.pid}
          /\ fees' = fees \cup {call.pid}
          /\ \E rent \in IF routine = "open" THEN {Rent \div 2} ELSE LegRents :
               outlay' = outlay + Charge(rent)
          /\ NextLeg
          /\ UNCHANGED <<opened, failed, todo>>
       \/ /\ ~a.ok /\ ~unknown'
          /\ opened' = opened \ {call.pid}
          /\ IF Drifted(a) /\ attempt < Attempts THEN Again
             ELSE failed' = TRUE /\ CleanUp(opened', FALSE)
          /\ UNCHANGED <<ranges, outlay, fees>>
       \/ /\ IF a.ok THEN ~(a.right /\ a.evidence) ELSE unknown'
          /\ failed' = TRUE
          /\ CleanUp(opened, unknown')
          /\ UNCHANGED <<opened, ranges, outlay, fees>>
    /\ UNCHANGED <<routine, live, planned, passed, complete, missed, logged, stop>>

-----------------------------------------------------------------------------
(* The hold.                                                               *)

Outermost(b) ==
    LET lows == {p.lo : p \in ranges}
        lo == CHOOSE l \in lows : \A m \in lows : l <= m
        top == CHOOSE l \in lows : \A m \in lows : l >= m
    IN  [gap |-> IF b < lo THEN lo - b
                 ELSE IF b > top + Width - 1 THEN b - (top + Width - 1) ELSE 0,
         above |-> b > top + Width - 1]

\* a mutant: the close of the new position is forgotten
FitsWithoutLastClose ==
    outlay + Cardinality(opened) * WithdrawCharge + DepositCharge <= RunCap

\* The closes now, the new deposit, and its own close.
FitsRunCap ==
    outlay + (Cardinality(opened) + 1) * WithdrawCharge + DepositCharge <= RunCap

\* snapshot() raises: a position is not shown, or the custody is broken.
SnapshotFails(view, broken) == broken \/ opened # view

\* The hold ends: a snapshot that raises, a loss, the fee budget, or time is up.
EndHold ==
    /\ phase = "hold"
    /\ \E view \in Views(opened), broken, over \in BOOLEAN :
        /\ Looked(opened, view)
        /\ SnapshotFails(view, broken) \/ over \/ stop
        /\ failed' = (failed \/ SnapshotFails(view, broken))
        /\ CleanUp(opened, unknown)
    /\ UNCHANGED <<routine, live, call, planned, opened, ranges, passed, unknown,
                   complete, outlay, fees, chain, pending, logged, stop>>

\* The price is far enough outside (and the cooldown, left out, is over).
ShiftAsked(b) == ShiftGap > 0 /\ Outermost(b).gap >= ShiftGap

\* The snapshot's bin b and the run cap allow a shift, and the bin read again,
\* c, still asks for one; it is cancelled otherwise.
StartShift ==
    /\ phase = "hold" /\ ~stop
    /\ opened \in Views(opened) /\ Looked(opened, opened)
    /\ FitsRunCap
    /\ \E b, c \in Bins :
        /\ ShiftAsked(b)
        /\ ShiftAsked(c)
        /\ side' = IF Outermost(c).above THEN "bid" ELSE "ask"
    /\ phase' = "closing"
    /\ routine' = "shift"
    /\ todo' = opened
    /\ UNCHANGED <<live, call, attempt, planned, leg, opened, ranges, passed,
                   unknown, complete, failed, outlay, fees, chain, pending, logged, stop>>

-----------------------------------------------------------------------------
(* close(), for a shift and for the cleanup.                               *)

Closing == phase \in {"closing", "cleanup"}

\* a mutant: an absent position stays on the list
ForgetLate(p) ==
    /\ opened' = opened \ {p}
    /\ ranges' = ranges \ {p}
    /\ UNCHANGED todo

Forget(p) ==
    /\ opened' = opened \ {p}
    /\ ranges' = ranges \ {p}
    /\ todo' = todo \ {p}

\* A position that is read as absent was never opened, or is closed.
FoundAbsent ==
    /\ Closing
    /\ \E p \in todo :
        /\ {} \in Views({p}) /\ Looked({p}, {})
        /\ Forget(p)
    /\ UNCHANGED <<phase, routine, live, call, side, attempt, planned, leg, passed,
                   unknown, complete, failed, outlay, fees, chain, pending, logged, stop>>

\* The read raised, or did not show an owned position of this pool.
CannotVerify ==
    /\ Closing /\ todo # {}
    /\ failed' = TRUE
    /\ IF phase = "closing" THEN CleanUp(opened, unknown)
       ELSE /\ \E p \in todo : todo' = todo \ {p}
            /\ UNCHANGED <<phase, side, attempt, leg>>
    /\ UNCHANGED <<routine, live, call, planned, opened, ranges, passed, unknown,
                   complete, outlay, fees, world, logged, stop>>

Withdraw ==
    /\ Closing
    /\ \E p \in todo :
        /\ {p} \in Views({p}) /\ Looked({p}, {p})
        /\ Send("withdraw", p, IF phase = "closing" THEN "shift" ELSE "cleanup")
    /\ UNCHANGED <<live, side, attempt, planned, leg, opened, ranges, todo, passed,
                   unknown, complete, failed, outlay, fees, chain, pending, stop>>

\* The executor could not confirm: the cleanup then looks for itself.
Settles(a) == ~a.ok /\ a.error = "submission_ambiguous"

\* A withdrawal that did not end in a confirmed closure of this position; the
\* cleanup's second look, if there is one, shows view.
CloseFailed(a, view) ==
    LET inDoubt == unknown \/ Unresolved(a) \/ (a.ok /\ ~a.right)
        gone == Settles(a) /\ inDoubt /\ view = {}
        p == call.pid
    IN  IF routine = "shift"
        THEN /\ unknown' = inDoubt
             /\ failed' = TRUE
             /\ CleanUp(opened, inDoubt)
             /\ UNCHANGED <<opened, ranges, missed>>
        ELSE /\ unknown' = (inDoubt /\ ~gone)
             /\ opened' = IF gone THEN opened \ {p} ELSE opened
             /\ failed' = (failed \/ ~gone)
             /\ todo' = IF inDoubt /\ ~gone THEN {} ELSE todo \ {p}
             /\ missed' = IF gone /\ p \in chain' THEN missed \cup {p} ELSE missed
             /\ phase' = "cleanup"
             /\ UNCHANGED <<ranges, side, attempt, leg>>

\* a mutant: success is taken for closure
Accepted(a) == a.ok /\ a.right /\ a.evidence

Closed(a) == a.ok /\ a.right /\ a.evidence /\ a.closed

WithdrawAnswered(a) ==
    /\ phase = "sent" /\ call.verb = "withdraw"
    /\ \E fate \in Fates(call, a) : Meets(call, fate)
    /\ IF Closed(a)
       THEN /\ Forget(call.pid)
            /\ phase' = IF routine = "shift" THEN "closing" ELSE "cleanup"
            /\ UNCHANGED <<unknown, failed, side, attempt, leg, missed>>
       ELSE \E view \in ViewsOf({call.pid}, chain', stale') : CloseFailed(a, view)
    /\ outlay' = IF a.ok /\ a.right /\ a.evidence THEN outlay + WithdrawCharge
                 ELSE outlay
    /\ call' = NoCall
    /\ UNCHANGED <<routine, live, planned, passed, complete, fees, logged, stop>>

ShiftClosed ==
    /\ phase = "closing" /\ todo = {}
    /\ phase' = "redeposit"
    /\ UNCHANGED <<routine, live, call, side, attempt, planned, leg, opened, ranges,
                   todo, passed, unknown, complete, failed, outlay, fees, world, logged,
                   stop>>

\* The last look, at the accounts and at the native balance in one read.  An
\* opening it does not show is not charged to the balance it shows either, but
\* the fee of it is in fees: then the two do not add up.
Reconciles(view) == view = {} /\ fees \cap chain = {}

Report ==
    /\ phase = "cleanup" /\ todo = {}
    /\ IF opened = {} /\ ~unknown
       THEN \E view \in Views(Proposed), fine \in BOOLEAN :
              /\ Looked(Proposed, view)
              /\ complete' = (fine /\ Reconciles(view))
              /\ failed' = (failed \/ ~complete')
       ELSE UNCHANGED <<complete, failed, stale, missed>>
    /\ phase' = "done"
    /\ UNCHANGED <<routine, live, call, side, attempt, planned, leg, opened, ranges,
                   todo, passed, unknown, outlay, fees, chain, pending, logged, stop>>

-----------------------------------------------------------------------------
(* The process ends, and the world goes on.                                *)

\* The memory of the process is gone; its log stays.  What it missed is no
\* longer of interest.
Gone ==
    /\ phase' = "dead" /\ routine' = "open"
    /\ call' = NoCall /\ NoLeg
    /\ planned' = {} /\ opened' = {} /\ ranges' = {} /\ todo' = {}
    /\ passed' = FALSE /\ unknown' = FALSE /\ complete' = FALSE
    /\ failed' = FALSE /\ outlay' = 0 /\ fees' = {}
    /\ stop' = TRUE
    /\ missed' = {}
    /\ UNCHANGED <<live, logged>>

\* The process is killed, with whatever it had sent on its way.
Crash ==
    /\ phase \notin {"done", "dead"}
    /\ IF phase = "sent"
       THEN \E fate \in {"lands", "later", "nothing"} : Meets(call, fate)
       ELSE UNCHANGED <<chain, pending, stale>>
    /\ Gone

\* A stop signal, or the deadline.
TimeUp ==
    /\ ~stop /\ stop' = TRUE
    /\ UNCHANGED <<run, world, logged>>

Chain == (LateOutcome \/ ReadsCatchUp) /\ UNCHANGED <<run, logged, stop>>

Answered == \E a \in Answer : DepositAnswered(a) \/ WithdrawAnswered(a)

Program ==
    \/ Preflight \/ OpenLeg \/ EndHold \/ StartShift \/ FoundAbsent
    \/ CannotVerify \/ Withdraw \/ ShiftClosed \/ Redeposit \/ Report \/ Answered

=============================================================================
