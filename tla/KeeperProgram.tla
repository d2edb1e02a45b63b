--------------------------- MODULE KeeperProgram ---------------------------
(***************************************************************************)
(* The cycle of a live keeper as a program of its inputs (Keeper._cycle in *)
(* src/src/dlmm_bot/keeper.py): what it asks the executor for, what it     *)
(* makes of the answer, and what it writes to the event log.  A keeper     *)
(* that records a run and one that replays it (Rerun) run this program.    *)
(*                                                                         *)
(* The plan of a cycle is a function of the state that was read; a ladder  *)
(* is one bid and one ask range, named by the bin they were built around.  *)
(* WIDEN, a dry run and amounts are left out; so are prices and trades.    *)
(***************************************************************************)
EXTENDS Naturals, Sequences, SequencesExt

CONSTANTS
    Bins,         \* active bins
    Readings,     \* what get_state may return, with the plan it leads to
    MaxFailures,  \* MAX_ACTION_FAILURES
    NoId

Ids == [side : {"bid", "ask"}, bin : Bins]

Verdicts == {"emergency", "derisk", "stop", "hold", "quote"}
NoReading(kind) == [kind |-> kind, verdict |-> "hold", bin |-> 0, base |-> FALSE]

\* base: there is base worth swapping.
ASSUME ProgramAssumption ==
    /\ Readings \subseteq [kind : {"read"}, verdict : Verdicts, bin : Bins,
                           base : BOOLEAN]
    /\ Bins \subseteq Nat \ {0} /\ MaxFailures \in Nat \ {0} /\ NoId \notin Ids

Leg(side, b) == [side |-> side, bin |-> b]

-----------------------------------------------------------------------------
(* Events: a field an event does not have is zero or empty.                *)

Event(type, what) ==
    [type |-> type, what |-> what, req |-> 0, ids |-> <<>>, bin |-> 0,
     ok |-> TRUE, read |-> NoReading("none")]
Stateful(type, id) == [Event(type, "") EXCEPT !.ids = <<id>>]
Observed(r) == [Event("state_observation", "") EXCEPT !.read = r]
Checked(there) == [Event("sentinel_check", "") EXCEPT !.ok = there]

\* A record names the bin a ladder is built around, or the last one deployed.
Decided(k) ==
    [Event("decision", k.act) EXCEPT
        !.bin = IF k.act \in {"none", "deposit", "refresh"} THEN k.bin
                                                            ELSE k.center]

-----------------------------------------------------------------------------
(* The keeper: pc is the call it waits for, "idle" between two cycles.     *)

Fresh(primary, extras) ==
    [pc |-> "idle", routine |-> "none", act |-> "none",
     primary |-> primary, extras |-> extras, todo |-> <<>>, kept |-> <<>>,
     failures |-> 0, halted |-> FALSE, bin |-> 0, base |-> FALSE,
     center |-> 0, reqs |-> 0]

Tracked(k) == (IF k.primary = NoId THEN <<>> ELSE <<k.primary>>) \o k.extras

\* An exception leaves the routine; what it had changed stays changed.
Left(k) == [k EXCEPT !.pc = "idle", !.routine = "none", !.act = "none",
                     !.todo = <<>>, !.kept = <<>>]

\* A routine is through; an emergency exit halts.
Through(k) ==
    [k EXCEPT !.pc = "end", !.halted = @ \/ k.routine = "emergency"]

\* The next call, with its request number.
At(k, pc) == [k EXCEPT !.pc = pc, !.reqs = @ + 1]

Swap(k) == IF k.base THEN At(k, "swap") ELSE Through(k)

\* The extras are gone, but for those kept.
AfterExtras(k) ==
    CASE k.routine = "refresh" -> IF k.extras = <<>> THEN At(k, "bundle")
                                                     ELSE Through(k)
      [] k.routine = "stop" -> Through(k)
      [] k.routine \in {"derisk", "emergency"} -> Swap(k)

\* _withdraw_extra_positions()
WithdrawExtras(k) ==
    IF k.extras = <<>> THEN AfterExtras(k)
    ELSE At([k EXCEPT !.todo = k.extras, !.kept = <<>>], "extra")

\* The routines, up to their first call.
Start(k, routine) ==
    LET j == [k EXCEPT !.routine = routine]
    IN CASE routine = "deposit" -> At(j, "bid")
         [] routine = "refresh" -> WithdrawExtras(j)
         [] routine = "stop" ->
              IF j.primary = NoId THEN Through(j) ELSE At(j, "withdraw")
         [] routine \in {"derisk", "emergency"} ->
              IF j.primary = NoId THEN Swap(j) ELSE At(j, "withdraw")

\* What a call is sent with.
Request(k) ==
    CASE k.pc = "bid" -> [verb |-> "deposit", ids |-> <<Leg("bid", k.bin)>>]
      [] k.pc = "ask" -> [verb |-> "deposit", ids |-> <<Leg("ask", k.bin)>>]
      [] k.pc = "extra" -> [verb |-> "withdraw", ids |-> <<Head(k.todo)>>]
      [] k.pc = "bundle" ->
           [verb |-> "refresh",
            ids |-> <<k.primary, Leg("bid", k.bin), Leg("ask", k.bin)>>]
      [] k.pc = "withdraw" -> [verb |-> "withdraw", ids |-> <<k.primary>>]
      [] k.pc = "swap" -> [verb |-> "swap", ids |-> <<>>]

Calling(k) == k.pc \notin {"idle", "end"}

\* _emit_result(): failures are counted, and some of them halt.
Counted(k, a) ==
    IF a.ok THEN [k EXCEPT !.failures = 0]
    ELSE [k EXCEPT !.failures = @ + 1,
                   !.halted = @ \/ a.unknown \/ k.failures + 1 >= MaxFailures]

\* The loop over the extras goes on; those that failed are kept.
NextExtra(k, a) ==
    LET kept == IF a.ok THEN k.kept ELSE Append(k.kept, Head(k.todo))
    IN IF Len(k.todo) > 1
       THEN At([k EXCEPT !.todo = Tail(@), !.kept = kept], "extra")
       ELSE AfterExtras([k EXCEPT !.extras = kept, !.todo = <<>>,
                                  !.kept = <<>>])

\* What the keeper is after the answer: of a leg, of an extra, of the bundle,
\* of the primary, of a swap.
Answered(k0, a) ==
    LET k == Counted(k0, a)
    IN CASE k.pc = "bid" ->
              LET j == IF a.ok
                       THEN [k EXCEPT !.primary = a.ids[1], !.center = k.bin]
                       ELSE k
              IN IF j.halted THEN Through(j) ELSE At(j, "ask")
         [] k.pc = "ask" ->
              Through(IF a.ok /\ ~Contains(Tracked(k), a.ids[1])
                      THEN [k EXCEPT !.extras = Append(@, a.ids[1])] ELSE k)
         [] k.pc = "extra" -> NextExtra(k, a)
         [] k.pc = "bundle" ->
              Through(IF a.ok
                      THEN [k EXCEPT !.primary = a.ids[1], !.center = k.bin,
                                     !.extras = Tail(a.ids)]
                      ELSE k)
         [] k.pc = "withdraw" ->
              IF a.ok \/ k.routine = "emergency"
              THEN WithdrawExtras([k EXCEPT !.primary = NoId])
              ELSE Through(k)
         [] k.pc = "swap" -> Through(k)

\* The position_* events an answer leads to.
Told(k, a) ==
    IF ~a.ok THEN <<>>
    ELSE CASE k.pc = "bid" -> <<Stateful("position_created", a.ids[1])>>
           [] k.pc = "ask" ->
                <<Stateful("position_liquidity_added", a.ids[1])>>
           [] k.pc = "extra" -> <<Stateful("position_withdrawn", Head(k.todo))>>
           [] k.pc = "bundle" ->
                <<Stateful("position_withdrawn", k.primary)>>
                \o [j \in 1 .. Len(a.ids) |->
                      Stateful("position_liquidity_added", a.ids[j])]
           [] k.pc = "withdraw" ->
                <<Stateful(IF k.routine = "emergency" THEN "position_closed"
                           ELSE "position_withdrawn", k.primary)>>
           [] k.pc = "swap" -> <<>>

\* What the log gets when the keeper has come to k: a request, or a decision
\* if that was a cycle.
Written(k) ==
    IF Calling(k)
    THEN <<[Event("action_request", Request(k).verb) EXCEPT
              !.req = k.reqs, !.ids = Request(k).ids]>>
    ELSE IF k.pc = "end" /\ k.act # "clean stop" THEN <<Decided(k)>> ELSE <<>>

Rested(k) == IF k.pc = "end" THEN Left(k) ELSE k

Result(k, a) ==
    [Event("action_result", Request(k).verb) EXCEPT
        !.req = k.reqs, !.ids = a.ids, !.ok = a.ok]

-----------------------------------------------------------------------------
(* The beginning of a cycle, up to its first call. *)

Ends(k, act) == Through([k EXCEPT !.act = act, !.routine = "none"])

\* A sentinel was found, or the state could not be read.
Killed(k) == Start([k EXCEPT !.act = "sentinel"], "emergency")

\* The state is read and the plan made.
Seen(k, r) == [k EXCEPT !.bin = r.bin, !.base = r.base]

Planned(k, r) ==
    LET j == Seen(k, r)
    IN CASE r.verdict = "hold" -> Ends(j, "hold")
         [] r.verdict = "quote" ->
              IF j.primary = NoId
              THEN Start([j EXCEPT !.act = "deposit"], "deposit")
              ELSE IF j.center # 0 /\ j.center # j.bin
                   THEN Start([j EXCEPT !.act = "refresh"], "refresh")
                   ELSE Ends(j, "none")
         [] OTHER -> Start([j EXCEPT !.act = r.verdict], r.verdict)

Observations(k, n) ==
    [j \in 1 .. n |-> Stateful("position_observation", Tracked(k)[j])]

\* run_soak() withdraws when its time is up, outside any cycle.
CleanlyStopped(k) == Start([k EXCEPT !.act = "clean stop"], "stop")
=============================================================================
