------------------------------- MODULE Rerun -------------------------------
(***************************************************************************)
(* A run that is recorded in the event log, and its replay from the log    *)
(* (src/tools/replay.py, ReplayExecBridge): a second keeper of the same    *)
(* configuration is driven one cycle per decision of the log, is answered  *)
(* from the log, and what it decides and asks for is compared.  Both       *)
(* keepers are the program of KeeperProgram.                               *)
(***************************************************************************)
EXTENDS KeeperProgram, Ordered

CONSTANTS
    Starts,     \* how a keeper may be configured and driven
    MaxCycles,  \* bound: cycles of a run
    MaxOdd      \* bound: what goes wrong in a run

ASSUME RerunAssumption ==
    /\ Starts \subseteq [primary : Ids \cup {NoId}, extras : Seq(Ids),
                         path : BOOLEAN, soak : BOOLEAN]
    /\ MaxCycles \in Nat /\ MaxOdd \in Nat

VARIABLES
    cfg,      \* the positions the keeper was configured with, whether a
              \* sentinel_path was (path), and if run_soak() drives it and not
              \* Keeper.run() (soak)
    phase,    \* "running", "stopping", "stopped", "dead"; then the replay's
    k,        \* the keeper
    log,      \* the events of the run
    cycles, odd,
    lost,     \* history: the requests whose call raised or was cut
    causes,   \* history: what happened that the log does not tell
    rk,       \* the keeper of the replay
    rlog,     \* what it logs, of decisions and requests
    taken     \* what the replay has consumed, and whether it raised

live == <<cfg, k, log, cycles, odd, lost, causes>>
replay == <<rk, rlog, taken>>
vars == <<live, phase, replay>>

NothingTaken == [checks |-> 0, states |-> 0, actions |-> 0, cycles |-> 0,
                 error |-> FALSE]

Init ==
    /\ cfg \in Starts
    /\ phase = "running"
    /\ k = Fresh(cfg.primary, cfg.extras)
    /\ log = <<Event("run_started", "")>>
    /\ cycles = 0 /\ odd = 0 /\ lost = {} /\ causes = {}
    /\ rk = Fresh(NoId, <<>>) /\ rlog = <<>> /\ taken = NothingTaken

-----------------------------------------------------------------------------
(* The run. *)

\* Something goes wrong, by one of the names in causes or by none.
Odd(why) == odd < MaxOdd /\ odd' = odd + 1 /\ causes' = causes \cup why
Even == UNCHANGED <<odd, causes>>

\* The keeper has come to j; events is what led there.
Comes(j, events) == k' = Rested(j) /\ log' = log \o events \o Written(j)

\* run() leaves its loop once the keeper has halted; run_soak() does not.
Begins ==
    /\ phase = "running" /\ k.pc = "idle" /\ cycles < MaxCycles
    /\ k.halted => cfg.soak
    /\ cycles' = cycles + 1
    /\ UNCHANGED <<cfg, phase, replay>>

HaltedCycle ==
    /\ Begins /\ k.halted
    /\ Comes(Ends(k, "halted"), <<>>)
    /\ Even /\ UNCHANGED lost

\* The sentinel is checked, if one is configured.
Checks(there) == IF cfg.path THEN <<Checked(there)>> ELSE <<>>

SentinelCycle ==
    /\ Begins /\ ~k.halted /\ cfg.path
    /\ Comes(Killed(k), Checks(TRUE))
    /\ Even /\ UNCHANGED lost

\* The state is read, all positions are looked at, and the plan is made.
PlannedCycle(r) ==
    /\ Begins /\ ~k.halted
    /\ Comes(Planned(k, r), Checks(FALSE) \o <<Observed(r)>>
                              \o Observations(k, Len(Tracked(k))))
    /\ Even /\ UNCHANGED lost

\* get_state failed, or what it returned is no state.
BlindCycle(kind) ==
    /\ Begins /\ ~k.halted
    /\ Comes(Ends(k, IF kind = "failed" THEN "no_state" ELSE "bad_state"),
             Checks(FALSE) \o <<Observed(NoReading(kind))>>)
    /\ Odd({kind} \ {"failed"}) /\ UNCHANGED lost

\* A read raises, and with it the cycle: get_state, or get_position of the
\* position after the n-th.
RaisingCycle(r) ==
    /\ Begins /\ ~k.halted
    /\ \/ k' = k /\ log' = log \o Checks(FALSE)
       \/ \E n \in 0 .. Len(Tracked(k)) - 1 :
            /\ k' = Seen(k, r)
            /\ log' = log \o Checks(FALSE) \o <<Observed(r)>>
                          \o Observations(k, n)
    /\ Odd({"raised"}) /\ UNCHANGED lost

Underway == phase \in {"running", "stopping"} /\ Calling(k)

\* What the executor answers: a refusal may be one whose outcome is unknown.
Answers ==
    LET ids == CASE k.pc \in {"bid", "ask"} -> Request(k).ids
                 [] k.pc = "bundle" -> Tail(Request(k).ids)
                 [] OTHER -> <<>>
    IN {[ok |-> TRUE, unknown |-> FALSE, ids |-> ids]}
       \cup [ok : {FALSE}, unknown : BOOLEAN, ids : {<<>>}]

CallReturns(a) ==
    /\ Underway
    /\ Comes(Answered(k, a), <<Result(k, a)>> \o Told(k, a))
    /\ IF a.unknown THEN Odd({"unknown"}) ELSE Even
    /\ UNCHANGED <<cfg, phase, cycles, lost, replay>>

\* The call raises; its request stays without a result.
CallRaises ==
    /\ Underway
    /\ k' = Left(k) /\ UNCHANGED log
    /\ lost' = lost \cup {k.reqs}
    /\ Odd({"raised"})
    /\ UNCHANGED <<cfg, phase, cycles, replay>>

\* The process dies, in a call or between two cycles.
Crash ==
    /\ phase \in {"running", "stopping"}
    /\ phase' = "dead"
    /\ lost' = IF Calling(k) THEN lost \cup {k.reqs} ELSE lost
    /\ Odd(IF Calling(k) THEN {"cut"} ELSE {})
    /\ UNCHANGED <<cfg, k, log, cycles, replay>>

\* The soak ends: it withdraws what it holds while the log is open.
CleanStop ==
    /\ phase = "running" /\ cfg.soak /\ k.pc = "idle" /\ Tracked(k) # <<>>
    /\ phase' = "stopping"
    /\ Comes(CleanlyStopped(k), <<>>)
    /\ causes' = IF Calling(k') THEN causes \cup {"withdrawn"} ELSE causes
    /\ UNCHANGED <<cfg, cycles, odd, lost, replay>>

\* _finalize_log()
Stop ==
    /\ k.pc = "idle"
    /\ \/ phase = "running" /\ (cfg.soak => Tracked(k) = <<>>)
       \/ phase = "stopping"
    /\ phase' = "stopped"
    /\ log' = Append(log, Event("run_stopped", ""))
    /\ UNCHANGED <<cfg, k, cycles, odd, lost, causes, replay>>

Run == \/ HaltedCycle \/ SentinelCycle \/ CallRaises \/ Crash \/ CleanStop \/ Stop
       \/ \E r \in Readings : PlannedCycle(r) \/ RaisingCycle(r)
       \/ \E kind \in {"failed", "malformed"} : BlindCycle(kind)
       \/ \E a \in Answers : CallReturns(a)

-----------------------------------------------------------------------------
(* The log, read back. *)

Places(events, type) == {j \in 1 .. Len(events) : events[j].type = type}
Only(events, type) == Picked(events, Places(events, type))
Of(type) == Only(log, type)
Events(type) == {log[j] : j \in Places(log, type)}

\* Requests in order, and the result of each by its number; the code takes the
\* last result of a number, of which there is one (AuditExact).
Requests == Of("action_request")
Answer(req) == CHOOSE e \in Events("action_result") : e.req = req

\* ReplayExecBridge: a request without its result is refused.
Begin ==
    /\ phase \in {"stopped", "dead"}
    /\ rk' = Fresh(cfg.primary, cfg.extras)
    /\ IF \E q \in Events("action_request") :
             \A e \in Events("action_result") : e.req # q.req
       THEN phase' = "replayed" /\ taken' = [taken EXCEPT !.error = TRUE]
       ELSE phase' = "replaying" /\ UNCHANGED taken
    /\ UNCHANGED <<live, rlog>>

\* get_state() of the replay: a state that was not good is a read that failed,
\* and so is one beyond the last.
NextState ==
    LET states == Of("state_observation")
    IN IF taken.states = Len(states) THEN NoReading("failed")
       ELSE LET r == states[taken.states + 1].read
            IN IF r.kind = "read" THEN r ELSE NoReading("failed")

RComes(j) == rk' = Rested(j) /\ rlog' = rlog \o Written(j)

\* The driver starts a cycle for the next decision of the log.
Drive ==
    /\ phase = "replaying" /\ rk.pc = "idle"
    /\ taken.cycles < Len(Of("decision"))
    /\ LET sentinels == Of("sentinel_check")
           there == cfg.path /\ ~rk.halted /\ taken.checks < Len(sentinels)
                      /\ sentinels[taken.checks + 1].ok
           exhausted == cfg.path /\ ~rk.halted /\ taken.checks = Len(sentinels)
           r == NextState
       IN /\ taken' = [taken EXCEPT
               !.cycles = @ + 1,
               !.checks = IF cfg.path /\ ~rk.halted /\ ~exhausted THEN @ + 1 ELSE @,
               !.states = IF rk.halted \/ there \/ exhausted
                             \/ @ = Len(Of("state_observation"))
                          THEN @ ELSE @ + 1,
               !.error = exhausted]
          /\ phase' = IF exhausted THEN "replayed" ELSE phase
          /\ IF exhausted THEN UNCHANGED <<rk, rlog>>
             ELSE IF rk.halted THEN RComes(Ends(rk, "halted"))
             ELSE IF there THEN RComes(Killed(rk))
             ELSE IF r.kind = "read" THEN RComes(Planned(rk, r))
             ELSE RComes(Ends(rk, "no_state"))
    /\ UNCHANGED live

\* a mutant of Recorded: a recorded failure is one in doubt
RecordedInDoubt(e) == [ok |-> e.ok, unknown |-> ~e.ok, ids |-> e.ids]

\* a mutant of Recorded: a result names one position
RecordedFirst(e) ==
    [ok |-> e.ok, unknown |-> FALSE,
     ids |-> IF e.ids = <<>> THEN <<>> ELSE <<Head(e.ids)>>]

\* A recorded result, as the replay gets it: what is not in the log is lost.
Recorded(e) == [ok |-> e.ok, unknown |-> FALSE, ids |-> e.ids]

\* The recorded request is the one that is made, or the replay raises.
Reply ==
    /\ phase = "replaying" /\ Calling(rk)
    /\ LET n == taken.actions + 1
           matches == /\ n <= Len(Requests)
                      /\ Requests[n].what = Request(rk).verb
                      /\ Requests[n].ids = Request(rk).ids
       IN IF matches
          THEN /\ RComes(Answered(rk, Recorded(Answer(Requests[n].req))))
               /\ taken' = [taken EXCEPT !.actions = n]
               /\ UNCHANGED phase
          ELSE /\ taken' = [taken EXCEPT !.error = TRUE]
               /\ phase' = "replayed"
               /\ UNCHANGED <<rk, rlog>>
    /\ UNCHANGED live

Finish ==
    /\ phase = "replaying" /\ rk.pc = "idle"
    /\ taken.cycles = Len(Of("decision"))
    /\ phase' = "replayed"
    /\ UNCHANGED <<live, replay>>

Next == Run \/ Begin \/ Drive \/ Reply \/ Finish

Spec == Init /\ [][Next]_vars

\* ReplayReport.ok
ReplayOk ==
    /\ ~taken.error
    /\ \A type \in {"decision", "action_request"} : Only(rlog, type) = Of(type)

-----------------------------------------------------------------------------
(* Properties. *)

\* The replay contract, "re-derives identical decisions and actuations", holds
\* of every run but those in which an outcome was unknown, a call raised, the
\* state was malformed, a call was cut, or the soak withdrew when it stopped:
\* the log does not tell the replay of these.
ReplayAgrees == phase = "replayed" /\ causes = {} => ReplayOk

\* A replay that finds no difference, whatever happened in the run, has also
\* reconstructed what the keeper held: decisions and requests tell enough.
ReplayKnowsPositions ==
    phase = "replayed" /\ ReplayOk =>
        /\ rk.primary = k.primary /\ rk.extras = k.extras
        /\ rk.center = k.center
=============================================================================
