----------------------------- MODULE RecoverLp ------------------------------
(***************************************************************************)
(* The recovery tool (src/tools/recover_live_lp.py): all the named         *)
(* positions are verified first, then each is withdrawn, and its closure   *)
(* read back; the first thing that is not as expected ends the run.        *)
(***************************************************************************)
EXTENDS LpChain

CONSTANTS NoCall

VARIABLES
    rphase,       \* where recover() is
    candidates,   \* what the loop has left
    remaining,    \* remaining; what is not named in it is closed or absent
    doubtful,     \* unknown
    rerror,       \* error is not None
    rcall         \* the withdrawal whose answer is awaited

rvars == <<rphase, candidates, remaining, doubtful, rerror, rcall>>

RInit ==
    /\ rphase = "idle"
    /\ candidates = {} /\ remaining = {}
    /\ doubtful = FALSE /\ rerror = FALSE
    /\ rcall = NoCall

\* cleanup_complete, which is also the exit code.
CleanupComplete == remaining = {} /\ ~doubtful /\ ~rerror

Start(named) ==
    /\ rphase' = "verify"
    /\ remaining' = named
    /\ candidates' = named
    /\ doubtful' = FALSE /\ rerror' = FALSE
    /\ rcall' = NoCall
    /\ missed' = {}
    /\ UNCHANGED <<chain, pending, stale>>

\* The process is gone, and its memory with it.
Dead ==
    /\ rphase' = "idle"
    /\ candidates' = {} /\ remaining' = {}
    /\ doubtful' = FALSE /\ rerror' = FALSE
    /\ rcall' = NoCall

\* An exception: nothing more is sent, and the report is written.
Ends(inDoubt) ==
    /\ doubtful' = inDoubt
    /\ rerror' = TRUE
    /\ rphase' = "done"

\* Every named position is read before the first is withdrawn.  An absent one
\* is done with; one that is not owned, or not read, ends the run.
Verify ==
    /\ rphase = "verify"
    /\ \E view \in Views(remaining), fine \in BOOLEAN :
        /\ Looked(remaining, view)
        /\ IF fine
           THEN /\ remaining' = view
                /\ candidates' = view
                /\ rphase' = "withdraw"
                /\ UNCHANGED <<doubtful, rerror>>
           ELSE /\ Ends(FALSE)
                /\ remaining' \in {r \in SUBSET remaining : view \subseteq r}
                /\ candidates' = {}
    /\ UNCHANGED <<rcall, chain, pending>>

WithdrawOne ==
    /\ rphase = "withdraw" /\ rcall = NoCall
    /\ \E p \in candidates : rcall' = [verb |-> "withdraw", pid |-> p]
    /\ UNCHANGED <<rphase, candidates, remaining, doubtful, rerror, world>>

\* A refusal is only in doubt if a flag, a signature, a receipt or a fee says so.
InDoubt(a) == a.transport \/ a.signed

\* a mutant: the receipt is enough
Receipt(a, view) == a.ok /\ a.right /\ a.evidence

\* The answer says so in full, and the position is read as absent.
ClosureConfirmed(a, view) ==
    a.ok /\ a.right /\ a.closed /\ a.evidence /\ view = {}

\* The read that follows a complete answer shows view; one that raises is like
\* one that still shows the position.
WithdrawOneAnswered(a) ==
    /\ rphase = "withdraw" /\ rcall # NoCall
    /\ \E fate \in Fates(rcall, a) : Meets(rcall, fate)
    /\ \E view \in ViewsOf({rcall.pid}, chain', stale') :
        IF ClosureConfirmed(a, view)
        THEN /\ remaining' = remaining \ {rcall.pid}
             /\ candidates' = candidates \ {rcall.pid}
             /\ UNCHANGED <<rphase, doubtful, rerror>>
        ELSE /\ Ends(a.ok \/ InDoubt(a))
             /\ UNCHANGED <<remaining, candidates>>
    /\ rcall' = NoCall
    /\ UNCHANGED missed

RecoveryReport ==
    /\ rphase = "withdraw" /\ rcall = NoCall /\ candidates = {}
    /\ rphase' = "done"
    /\ UNCHANGED <<candidates, remaining, doubtful, rerror, rcall, world>>

Recovery ==
    \/ Verify \/ WithdrawOne \/ RecoveryReport
    \/ \E a \in Answer : WithdrawOneAnswered(a)
=============================================================================
