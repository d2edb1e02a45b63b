----------------------------- MODULE ExecBridge -----------------------------
(***************************************************************************)
(* The bridge between the keeper and its executor                          *)
(* (src/src/dlmm_bot/exec_bridge.py, class ExecBridge): a subprocess       *)
(* that reads requests from its stdin and answers on its stdout, a timer   *)
(* thread per call that kills it, and a thread that drains its stderr.     *)
(*                                                                         *)
(* The caller, the timers and the executor take their steps in any order;  *)
(* a killed executor goes on for a moment, and a leg it has submitted may  *)
(* land after it is gone.                                                  *)
(***************************************************************************)
EXTENDS Naturals, Sequences

CONSTANTS
    Legs,        \* the most transactions of a request (refresh_bundle has 4)
    StderrCap,   \* lines the stderr pipe holds before a write blocks
    MaxCalls,    \* bound: calls made
    MaxProcs,    \* bound: executors started
    MaxFaults    \* bound: executors that die by themselves, and lines on
                 \* stdout that answer nothing, taken together

ASSUME LegsAssumption == Legs \in Nat \ {0}
ASSUME StderrAssumption == StderrCap \in Nat \ {0}
ASSUME BoundsAssumption ==
    MaxCalls \in Nat /\ MaxProcs \in Nat /\ MaxFaults \in Nat

VARIABLES
    (***********************************************************************)
    (* The caller's thread (_send) and the timer threads                   *)
    (***********************************************************************)
    pc,        \* where _send is
    cur,       \* _proc: the executor in use, 0 for None
    line,      \* resp_line
    timers,    \* by call: the state of its timer thread
    timedOut,  \* calls whose timed_out event is set
    servedBy,  \* by call: the executor whose pipe it was written to
    (***********************************************************************)
    (* The executors                                                       *)
    (***********************************************************************)
    procs,     \* by executor: "alive", "dying" (killed) or "dead"
    inbox,     \* by executor: requests in its stdin
    working,   \* by executor: the call it works on, 0 for none
    outbox,    \* by executor: lines in its stdout
    stderr,    \* by executor: lines in its stderr
    (***********************************************************************)
    (* The chain, and what the callers were told                           *)
    (***********************************************************************)
    fates, legs, landed,   \* as in SignedCall
    signed,                \* by call: legs submitted so far
    failed,                \* calls with a leg that failed for good
    faults                 \* how many there were

caller == <<pc, cur, line>>
watch == <<timers, timedOut, servedBy>>
pipes == <<inbox, outbox, stderr>>
chain == <<legs, landed, signed, failed>>
vars == <<caller, watch, procs, working, pipes, fates, chain, faults>>

Calls == DOMAIN fates
seq == Len(fates)                       \* _seq
Procs == DOMAIN procs

\* A line on stdout: the id it echoes and ok.  Id 0 answers no call: a stray
\* line, or the empty line readline() returns at the end of file.
Line == [id : 0 .. MaxCalls, ok : BOOLEAN]
Stray == [id |-> 0, ok |-> TRUE]
Eof == [id |-> 0, ok |-> FALSE]

TypeOK ==
    /\ pc \in {"idle", "poll", "write", "read", "cancel", "judge", "closed"}
    /\ cur \in 0 .. MaxProcs
    /\ line \in Line
    /\ timers \in [Calls -> {"off", "armed", "due", "flagged"}]
    /\ timedOut \subseteq Calls
    /\ servedBy \in [Calls -> 0 .. MaxProcs]
    /\ procs \in [Procs -> {"alive", "dying", "dead"}]
    /\ inbox \in [Procs -> Seq(Calls)] /\ outbox \in [Procs -> Seq(Line)]
    /\ working \in [Procs -> 0 .. MaxCalls]
    /\ stderr \in [Procs -> 0 .. StderrCap]
    /\ fates \in [Calls -> {"open", "ok", "refused", "raised", "unknown"}]
    /\ legs \in [Calls -> 1 .. Legs]
    /\ landed \in [Calls -> 0 .. Legs] /\ signed \in [Calls -> 0 .. Legs]
    /\ failed \subseteq Calls
    /\ faults \in 0 .. MaxFaults

Init ==
    /\ pc = "idle" /\ cur = 0 /\ line = Eof
    /\ timers = <<>> /\ timedOut = {} /\ servedBy = <<>>
    /\ procs = <<>> /\ working = <<>>
    /\ inbox = <<>> /\ outbox = <<>> /\ stderr = <<>>
    /\ fates = <<>> /\ legs = <<>> /\ landed = <<>> /\ signed = <<>>
    /\ failed = {}
    /\ faults = 0

-----------------------------------------------------------------------------
(* The caller: _send, one request at a time                                *)

\* kill() of a process that is gone does nothing, and of one that is not is
\* no more than a signal sent.
Running(p) == procs[p] # "dead"
Killed(state) == IF state = "alive" THEN "dying" ELSE state

Return(outcome) ==
    /\ fates' = [fates EXCEPT ![seq] = outcome]
    /\ pc' = "idle"

\* A verb is called: the next id.
Call ==
    /\ pc = "idle" /\ seq < MaxCalls
    /\ \E n \in 1 .. Legs : legs' = Append(legs, n)
    /\ fates' = Append(fates, "open")
    /\ landed' = Append(landed, 0) /\ signed' = Append(signed, 0)
    /\ timers' = Append(timers, "off") /\ servedBy' = Append(servedBy, 0)
    /\ pc' = "poll"
    /\ UNCHANGED <<cur, line, timedOut, procs, working, pipes, failed, faults>>

\* A value that is not finite, or out of range, never reaches the signer.
RefuseToSend ==
    /\ pc = "poll"
    /\ Return("refused")
    /\ UNCHANGED <<cur, line, watch, procs, working, pipes, chain, faults>>

NoneAlive == cur \notin {p \in Procs : procs[p] = "alive"}     \* a mutant
NeedsStart == cur \notin {p \in Procs : Running(p)}

\* start(): a process that poll() finds gone is replaced by a new one, with
\* new pipes; Popen may fail, and raises out of _send.  A process killed a
\* moment ago may still look alive.
StartFails ==
    /\ pc = "poll" /\ NeedsStart
    /\ Return("raised")
    /\ UNCHANGED <<cur, line, watch, procs, working, pipes, chain, faults>>

PollExecutor ==
    /\ pc = "poll"
    /\ \/ /\ NeedsStart /\ Len(procs) < MaxProcs
          /\ cur' = Len(procs) + 1
          /\ procs' = Append(procs, "alive") /\ working' = Append(working, 0)
          /\ inbox' = Append(inbox, <<>>) /\ outbox' = Append(outbox, <<>>)
          /\ stderr' = Append(stderr, 0)
       \/ /\ ~NeedsStart
          /\ UNCHANGED <<cur, procs, working, pipes>>
    /\ pc' = "write"
    /\ UNCHANGED <<line, watch, fates, chain, faults>>

NotArmed == "off"                                      \* a mutant
Armed == "armed"

\* The line is written and flushed, and the timer started; a broken pipe
\* raises out of _send.
WriteRequest ==
    /\ pc = "write"
    /\ \/ /\ procs[cur] # "dead"
          /\ inbox' = [inbox EXCEPT ![cur] = Append(@, seq)]
          /\ timers' = [timers EXCEPT ![seq] = Armed]
          /\ servedBy' = [servedBy EXCEPT ![seq] = cur]
          /\ pc' = "read"
          /\ UNCHANGED fates
       \/ /\ procs[cur] = "dead"
          /\ Return("raised")
          /\ UNCHANGED <<inbox, timers, servedBy>>
    /\ UNCHANGED <<cur, line, timedOut, procs, working, outbox, stderr, chain,
                   faults>>

\* readline(): blocks until there is a line, or the writing end is closed.
ReadLine ==
    /\ pc = "read"
    /\ \/ /\ outbox[cur] # <<>>
          /\ line' = Head(outbox[cur])
          /\ outbox' = [outbox EXCEPT ![cur] = Tail(@)]
       \/ /\ outbox[cur] = <<>> /\ procs[cur] = "dead"
          /\ line' = Eof /\ UNCHANGED outbox
    /\ pc' = "cancel"
    /\ UNCHANGED <<cur, watch, procs, working, inbox, stderr, fates, chain,
                   faults>>

\* cancel() stops a timer that is still waiting, not one past its wait.
CancelTimer ==
    /\ pc = "cancel"
    /\ timers' = [timers EXCEPT ![seq] = IF @ = "armed" THEN "off" ELSE @]
    /\ pc' = "judge"
    /\ UNCHANGED <<cur, line, timedOut, servedBy, procs, working, pipes, fates,
                   chain, faults>>

AnyLine == line # Eof                                  \* a mutant
Ours == line # Eof /\ line.id = seq

\* Timed out, or no line: unknown.  A line that is not our answer: unknown,
\* and the executor is killed.
JudgeLine ==
    /\ pc = "judge"
    /\ \/ /\ seq \in timedOut \/ line = Eof
          /\ Return("unknown") /\ UNCHANGED procs
       \/ /\ seq \notin timedOut /\ line # Eof /\ ~Ours
          /\ Return("unknown")
          /\ procs' = [procs EXCEPT ![cur] = Killed(@)]
       \/ /\ seq \notin timedOut /\ Ours
          /\ Return(IF line.ok THEN "ok" ELSE "refused")
          /\ UNCHANGED procs
    /\ line' = Eof
    /\ UNCHANGED <<cur, watch, working, pipes, chain, faults>>

\* stop(), once the run is over: no call follows.  The executor is asked to
\* terminate, and killed if it does not in time.
StopBridge ==
    /\ pc = "idle"
    /\ pc' = "closed" /\ cur' = 0
    /\ IF cur = 0 THEN UNCHANGED procs
       ELSE \E state \in {"dead", Killed(procs[cur])} :
                procs' = [procs EXCEPT ![cur] = state]
    /\ UNCHANGED <<line, watch, working, pipes, fates, chain, faults>>

-----------------------------------------------------------------------------
(* The timer thread of call i: the wait is over; the event is set; the     *)
(* process the call was written to is killed                               *)

TimerDue(i) ==
    /\ timers[i] = "armed"
    /\ timers' = [timers EXCEPT ![i] = "due"]
    /\ UNCHANGED <<caller, timedOut, servedBy, procs, working, pipes, fates,
                   chain, faults>>

TimerFlags(i) ==
    /\ timers[i] = "due"
    /\ timers' = [timers EXCEPT ![i] = "flagged"]
    /\ timedOut' = timedOut \cup {i}
    /\ UNCHANGED <<caller, servedBy, procs, working, pipes, fates, chain,
                   faults>>

TimerKills(i) ==
    /\ timers[i] = "flagged"
    /\ timers' = [timers EXCEPT ![i] = "off"]
    /\ procs' = [procs EXCEPT ![servedBy[i]] = Killed(@)]
    /\ UNCHANGED <<caller, timedOut, servedBy, working, pipes, fates, chain,
                   faults>>

\* _drain_stderr
NeverDrains(p) == FALSE                                \* a mutant
DrainsEmpty(p) == stderr[p] >= 0                       \* a mutant
Drains(p) == stderr[p] > 0
DrainStderr(p) ==
    /\ Drains(p)
    /\ stderr' = [stderr EXCEPT ![p] = @ - 1]
    /\ UNCHANGED <<caller, watch, procs, working, inbox, outbox, fates, chain,
                   faults>>

-----------------------------------------------------------------------------
(* The executor, which is not part of src, and the chain                   *)

TakeRequest(p) ==
    /\ Running(p) /\ working[p] = 0 /\ inbox[p] # <<>>
    /\ working' = [working EXCEPT ![p] = Head(inbox[p])]
    /\ inbox' = [inbox EXCEPT ![p] = Tail(@)]
    /\ UNCHANGED <<caller, watch, procs, outbox, stderr, fates, chain, faults>>

\* It logs to stderr, and signs and submits the next leg once the one before
\* is confirmed.
SignLeg(p) ==
    /\ Running(p) /\ working[p] # 0
    /\ stderr[p] < StderrCap
    /\ LET i == working[p] IN
        /\ i \notin failed
        /\ signed[i] = landed[i] /\ signed[i] < legs[i]
        /\ signed' = [signed EXCEPT ![i] = @ + 1]
    /\ stderr' = [stderr EXCEPT ![p] = @ + 1]
    /\ UNCHANGED <<caller, watch, procs, working, inbox, outbox, fates, legs,
                   landed, failed, faults>>

\* It answers ok when all legs are confirmed, and not ok when one failed for
\* good or it will not sign the next; it logs that, too.
Answer(p) ==
    /\ Running(p) /\ working[p] # 0
    /\ stderr[p] < StderrCap
    /\ stderr' = [stderr EXCEPT ![p] = @ + 1]
    /\ LET i == working[p] IN
        /\ signed[i] = landed[i]
        /\ outbox' = [outbox EXCEPT ![p] =
                        Append(@, [id |-> i, ok |-> landed[i] = legs[i]])]
    /\ working' = [working EXCEPT ![p] = 0]
    /\ UNCHANGED <<caller, watch, procs, inbox, fates, chain, faults>>

\* A line that is no answer reaches stdout: a stray print, or the half of an
\* answer.
PrintStray(p) ==
    /\ Running(p) /\ faults < MaxFaults
    /\ faults' = faults + 1
    /\ outbox' = [outbox EXCEPT ![p] = Append(@, Stray)]
    /\ UNCHANGED <<caller, watch, procs, working, inbox, stderr, fates, chain>>

\* A killed executor is gone at last; any executor may die.
Dies(p) ==
    /\ \/ procs[p] = "dying" /\ UNCHANGED faults
       \/ procs[p] = "alive" /\ faults < MaxFaults /\ faults' = faults + 1
    /\ procs' = [procs EXCEPT ![p] = "dead"]
    /\ UNCHANGED <<caller, watch, working, pipes, fates, chain>>

\* A submitted leg lands, or fails for good.
LegLands(i) ==
    /\ landed[i] < signed[i]
    /\ landed' = [landed EXCEPT ![i] = @ + 1]
    /\ UNCHANGED <<caller, watch, procs, working, pipes, fates, legs, signed,
                   failed, faults>>

LegFails(i) ==
    /\ landed[i] < signed[i]
    /\ signed' = [signed EXCEPT ![i] = landed[i]]
    /\ failed' = failed \cup {i}
    /\ UNCHANGED <<caller, watch, procs, working, pipes, fates, legs, landed,
                   faults>>

-----------------------------------------------------------------------------
Send == \/ RefuseToSend \/ StartFails \/ PollExecutor \/ WriteRequest
        \/ ReadLine \/ CancelTimer \/ JudgeLine
Timer == \E i \in Calls : TimerDue(i) \/ TimerFlags(i) \/ TimerKills(i)
Executor == \E p \in Procs : TakeRequest(p) \/ SignLeg(p) \/ Answer(p)
Chain == \E i \in Calls : LegLands(i) \/ LegFails(i)

Next ==
    \/ Call \/ Send \/ StopBridge \/ Timer \/ Executor \/ Chain
    \/ \E p \in Procs : PrintStray(p) \/ DrainStderr(p) \/ Dies(p)

Spec == Init /\ [][Next]_vars

\* The caller and the draining thread run; a killed process dies.
FairSpec ==
    /\ Spec
    /\ WF_vars(Send)
    /\ WF_vars(\E p \in Procs : DrainStderr(p))
    /\ WF_vars(\E p \in Procs : procs[p] = "dying" /\ Dies(p))

-----------------------------------------------------------------------------
(* Properties                                                              *)

\* The bridge implements SignedCall: whatever timer, kill, death, late or
\* stray line comes in between, what a caller is told is true of the chain
\* ("a late reply can never be misread as the answer to the NEXT request").
Contract == INSTANCE SignedCall
ContractSpec == Contract!Spec

\* An executor starts signing only when those before it are gone ("the keeper
\* ... may write again while an abandoned multi-leg refresh_bundle is still
\* signing").
OneSigner == \A p, q \in Procs : Running(p) /\ Running(q) => p = q

\* With timers that fire, no executor can hold a caller for ever.
CallsReturn == WF_vars(Timer) => (pc # "idle" ~> pc \in {"idle", "closed"})

\* Without any timer, an executor and a chain that make progress answer every
\* call: nobody waits on a full pipe ("node blocks on write and the keeper
\* blocks on readline forever").
NoPipeDeadlock ==
    /\ WF_vars(Executor) /\ WF_vars(Chain)
    => (pc # "idle" ~> pc \in {"idle", "closed"})
=============================================================================
