------------------------------ MODULE LpChain -------------------------------
(***************************************************************************)
(* The world the live LP tools (src/tools/live_lp_experiment.py and        *)
(* recover_live_lp.py) act on: the positions of one wallet in one pool,    *)
(* transactions that may still land, reads that may lag, and what an       *)
(* answer of the executor means for the chain.                             *)
(***************************************************************************)
EXTENDS Integers, FiniteSets

CONSTANTS
    Bins,       \* active bins the pool may be read at
    Width,      \* args.width, the bins of a leg
    ReadsLag    \* reads may be served by a node that lags

ASSUME BinsAssumption == Bins \subseteq Int
ASSUME WidthAssumption == Width \in Nat \ {0}
ASSUME LagAssumption == ReadsLag \in BOOLEAN

Sides == {"bid", "ask"}

\* The lowest bin of a leg quoted at active bin b.
Lowest(side, b) == IF side = "bid" THEN b - Width ELSE b + 1

\* The address of a position is derived from its side and its range.
Pid == [side : Sides, lo : {Lowest(s, b) : s \in Sides, b \in Bins}]
Position(side, b) == [side |-> side, lo |-> Lowest(side, b)]

Call == [verb : {"deposit", "withdraw"}, pid : Pid]

VARIABLES
    chain,      \* positions that exist
    pending,    \* calls that may still land
    stale,      \* positions whose opening or closing a read may not show yet
    missed      \* history: positions that a read said were absent

world == <<chain, pending, stale, missed>>

-----------------------------------------------------------------------------
(* What the executor answers, by the fields the tools look at.             *)

\* evidence: for a success, signatures and a fee; for a failure any of
\* signatures, receipts, a fee or data.pending_signature.  signed: the
\* evidence is one of the first three.  proven: every receipt says failed,
\* with its slot and its fee.  drifted: the program's error is Custom 6004.
Success == [ok : {TRUE}, error : {"none"}, transport : {FALSE},
            evidence : BOOLEAN, signed : {TRUE}, proven : {FALSE},
            drifted : {FALSE}, right : BOOLEAN, closed : BOOLEAN]
Failure ==
    {a \in [ok : {FALSE}, transport : BOOLEAN,
            error : {"drift", "rejected", "transaction_failed",
                     "submission_ambiguous", "timeout"},
            evidence : BOOLEAN, signed : BOOLEAN, proven : BOOLEAN,
            drifted : BOOLEAN, right : {FALSE}, closed : {FALSE}] :
        /\ a.transport <=> a.error = "timeout"
        /\ a.transport => ~a.evidence
        /\ a.signed => a.evidence
        /\ a.proven => a.error = "transaction_failed" /\ a.signed
        /\ a.drifted => a.proven}
Answer == Success \cup Failure

\* The contract: a rejection without evidence was not submitted, and a
\* transaction with proven failed receipts is over.  A withdrawal of what is
\* gone fails.
Definite(a) ==
    /\ ~a.ok
    /\ \/ a.error \in {"drift", "rejected"} /\ ~a.evidence
       \/ a.proven

Fates(call, a) ==
    IF a.ok /\ a.right
    THEN {IF call.verb = "withdraw" /\ ~a.closed THEN "nothing" ELSE "lands"}
    ELSE IF Definite(a) \/ (call.verb = "withdraw" /\ call.pid \notin chain)
         THEN {"nothing"}
         ELSE {"lands", "later", "nothing"}

AfterCall(call) ==
    IF call.verb = "deposit" THEN chain \cup {call.pid} ELSE chain \ {call.pid}

\* A read may not show the change of p yet.
MayLag(p) == stale' = IF ReadsLag THEN stale \cup {p} ELSE stale

Meets(call, fate) ==
    /\ IF fate = "lands" THEN chain' = AfterCall(call) /\ MayLag(call.pid)
       ELSE UNCHANGED <<chain, stale>>
    /\ pending' = IF fate = "later" THEN pending \cup {call} ELSE pending

-----------------------------------------------------------------------------
\* What a read of the positions ps may show when those of there exist: all but
\* the lagging ones as they are.  Reads are served by nodes that lag on their
\* own, so a later read may show what is older.
ViewsOf(ps, there, lagging) ==
    {v \in SUBSET ps : \A p \in ps \ lagging : p \in v <=> p \in there}

Views(ps) == ViewsOf(ps, chain, stale)

Looked(ps, v) ==
    /\ missed' = missed \cup ((ps \cap chain) \ v)
    /\ UNCHANGED stale

LateOutcome ==
    \E call \in pending :
        \/ /\ chain' = AfterCall(call)
           /\ MayLag(call.pid)
           /\ pending' = pending \ {call}
           /\ UNCHANGED missed
        \/ /\ pending' = pending \ {call}
           /\ UNCHANGED <<chain, stale, missed>>

ReadsCatchUp ==
    /\ stale # {}
    /\ stale' = {}
    /\ UNCHANGED <<chain, pending, missed>>

WorldInit ==
    /\ \E prior \in {{}} \cup {{p} : p \in Pid} : chain = prior
    /\ pending = {}
    /\ stale = {}
    /\ missed = {}

WorldTypeOK ==
    /\ chain \subseteq Pid
    /\ pending \subseteq Call
    /\ stale \subseteq Pid
    /\ missed \subseteq Pid
=============================================================================
