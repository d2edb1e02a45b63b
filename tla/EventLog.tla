------------------------------ MODULE EventLog ------------------------------
(***************************************************************************)
(* The event log of a run (src/src/dlmm_bot/event_log.py): an append-only  *)
(* file of numbered records, each with the hash of the line before it,     *)
(* written by emit() and read back by ReplayLog; a later process may open  *)
(* the file of a run that was cut short and append to it.                  *)
(*                                                                         *)
(* emit() holds a lock from its first line to its last, so one emit is one *)
(* step.  It may fail half way, and the process may die half way; what is  *)
(* on disk is then a part of what it wrote.  A line is its number, its     *)
(* links and a token that stands for its text (two lines never have the    *)
(* same text: it holds the time), and the hash of a line is its token.     *)
(***************************************************************************)
EXTENDS Naturals, Sequences, SequencesExt, Ordered

CONSTANTS
    Runs, Configs,   \* run ids and config hashes
    NoRun, NoConfig, \* run_id=None and config_hash=""
    PathRun,         \* the run id made from the name of the file
    MaxEmits,        \* bound: emits, failed ones included
    MaxOpens,        \* bound: EventLog objects made
    MaxFaults        \* bound: emits that fail, and lines damaged on disk

ASSUME RunAssumption == NoRun \notin Runs /\ PathRun \notin {NoRun}
ASSUME BoundAssumption ==
    MaxEmits \in Nat /\ MaxOpens \in Nat /\ MaxFaults \in Nat

VARIABLES
    file,     \* the lines on disk
    up,       \* an EventLog is open
    w,        \* its _seq, _prev_line, run_id and config_hash
    buffer,   \* lines written to _fh and not yet to disk
    begun,    \* a part of the first of them is on disk
    emits, opens, faults,
    acked,    \* tokens of the lines emit() returned for, in order
    clean,    \* no emit has failed, and no crash has cut a line
    intact    \* the file before it was damaged, <<>> if it was not

vars == <<file, up, w, buffer, begun, emits, opens, faults, acked, clean,
          intact>>

None == 0

Init ==
    /\ file = <<>> /\ up = FALSE /\ buffer = <<>> /\ begun = FALSE
    /\ w = [seq |-> 0, prev |-> None, run |-> PathRun, config |-> NoConfig]
    /\ emits = 0 /\ opens = 0 /\ faults = 0
    /\ acked = <<>> /\ clean = TRUE /\ intact = <<>>

-----------------------------------------------------------------------------
(* ReplayLog                                                               *)

Unlinked(f, i) == TRUE                                 \* a mutant
Linked(f, i) == f[i].prev = IF i = 1 THEN None ELSE f[i - 1].tok

\* _load raises on none of the lines.
Loads(f) ==
    \A i \in DOMAIN f :
        /\ f[i].whole
        /\ f[i].seq = i
        /\ Linked(f, i)
        /\ f[i].run = f[1].run /\ f[i].config = f[1].config

-----------------------------------------------------------------------------
(* Opening and closing                                                     *)

Completed(f) == Last(f).stop

FromScratch(f) == 0                                    \* a mutant
LastNumber(f) == Last(f).seq

\* An empty file: a new run.
OpenNew(run, config) ==
    /\ ~up /\ opens < MaxOpens /\ intact = <<>>
    /\ file = <<>>
    /\ w' = [seq |-> 0, prev |-> None,
             run |-> IF run = NoRun THEN PathRun ELSE run, config |-> config]
    /\ up' = TRUE /\ opens' = opens + 1
    /\ UNCHANGED <<file, buffer, begun, emits, faults, acked, clean, intact>>

\* resume=True on a file with lines in it.
Resume(run, config) ==
    /\ ~up /\ opens < MaxOpens /\ intact = <<>>
    /\ file # <<>>
    /\ Loads(file) /\ ~Completed(file)
    /\ run \in {NoRun, Last(file).run}
    /\ config \in {NoConfig, Last(file).config}
    /\ w' = [seq |-> LastNumber(file), prev |-> Last(file).tok,
             run |-> Last(file).run, config |-> Last(file).config]
    /\ up' = TRUE /\ opens' = opens + 1
    /\ UNCHANGED <<file, buffer, begun, emits, faults, acked, clean, intact>>

\* The constructor raises: the file has lines and resume is not given, or it
\* does not load, is completed, or is of another run or configuration.
OpenRefused(run, config, resume) ==
    /\ ~up /\ opens < MaxOpens /\ intact = <<>>
    /\ file # <<>>
    /\ \/ ~resume
       \/ ~Loads(file)
       \/ Completed(file)
       \/ run \notin {NoRun, Last(file).run}
       \/ config \notin {NoConfig, Last(file).config}
    /\ opens' = opens + 1
    /\ UNCHANGED <<file, up, w, buffer, begun, emits, faults, acked, clean,
                   intact>>

-----------------------------------------------------------------------------
(* Writing                                                                 *)

\* A line parses when it is whole, and ends with a newline.
NewLine(stop) ==
    [seq |-> w.seq + 1, prev |-> w.prev, tok |-> emits + 1, run |-> w.run,
     config |-> w.config, stop |-> stop, whole |-> TRUE, newline |-> TRUE]

\* A line put after one without a newline makes one line of the two, which
\* does not parse.
Merged(line, next) ==
    [line EXCEPT !.tok = None, !.whole = FALSE, !.newline = next.newline]

\* The file once ls has gone to disk; the first of ls may be there in part.
Written(ls) ==
    IF ls = <<>> THEN file
    ELSE CASE begun /\ Last(file).tok # None -> Front(file) \o ls
           [] (begun /\ Last(file).tok = None)
              \/ (~begun /\ file # <<>> /\ ~Last(file).newline) ->
                 Front(file) \o <<Merged(Last(file), Head(ls))>> \o Tail(ls)
           [] OTHER -> file \o ls

\* The ways a write of ls can stop short: after n lines, with nothing of the
\* next one, some of it, or all but its newline.
Stops(ls) ==
    {[n |-> n, cut |-> cut] : n \in 0 .. Len(ls) - 1,
                              cut \in {"none", "torn", "bare"}}
UpTo(ls, stop) ==
    SubSeq(ls, 1, stop.n) \o
        IF stop.cut = "none" THEN <<>>
        ELSE <<[ls[stop.n + 1] EXCEPT !.whole = stop.cut = "bare",
                                      !.newline = FALSE]>>

KeptBack(ls) == <<>>                                   \* a mutant
Flushed(ls) == ls

\* emit(): numbered, linked, written and flushed, with what an emit that
\* failed has left in the buffer.
Emit(stop) ==
    /\ up /\ emits < MaxEmits
    /\ LET line == NewLine(stop) IN
        /\ file' = Written(Flushed(Append(buffer, line)))
        /\ w' = [w EXCEPT !.seq = line.seq, !.prev = line.tok]
        /\ acked' = Append(acked, line.tok)
    /\ buffer' = <<>> /\ begun' = FALSE
    /\ emits' = emits + 1
    /\ UNCHANGED <<up, opens, faults, clean, intact>>

\* emit() raises in json.dumps: a field is no JSON value.
EmitUnserializable ==
    /\ up /\ emits < MaxEmits /\ faults < MaxFaults
    /\ w' = [w EXCEPT !.seq = @ + 1]
    /\ emits' = emits + 1 /\ faults' = faults + 1 /\ clean' = FALSE
    /\ UNCHANGED <<file, up, buffer, begun, opens, acked, intact>>

\* What is on disk, and what is still in the buffer, when a write of ls stops
\* short at s.
StopsAt(ls, s) ==
    /\ begun /\ s.n = 0 /\ Last(file).whole => s.cut # "torn"
    /\ IF s.n = 0 /\ s.cut = "none"
       THEN UNCHANGED <<file, begun>>
       ELSE file' = Written(UpTo(ls, s)) /\ begun' = (s.cut # "none")
    /\ buffer' = SubSeq(ls, s.n + 1, Len(ls))

\* emit() raises in flush: the disk is full.  What did not fit stays in the
\* buffer, and the next flush tries again.
EmitDiskError(stop) ==
    /\ up /\ emits < MaxEmits /\ faults < MaxFaults
    /\ LET ls == Append(buffer, NewLine(stop)) IN
        \E s \in Stops(ls) : StopsAt(ls, s)
    /\ w' = [w EXCEPT !.seq = @ + 1]
    /\ emits' = emits + 1 /\ faults' = faults + 1 /\ clean' = FALSE
    /\ UNCHANGED <<up, opens, acked, intact>>

\* close() flushes what is left.
Close ==
    /\ up /\ up' = FALSE
    /\ file' = Written(buffer)
    /\ buffer' = <<>> /\ begun' = FALSE
    /\ UNCHANGED <<w, emits, opens, faults, acked, clean, intact>>

-----------------------------------------------------------------------------
(* What happens to the process and to the file                             *)

\* The process dies between two emits, or closes the log on a full disk: the
\* buffer is lost.
Crash ==
    /\ up /\ up' = FALSE
    /\ buffer' = <<>> /\ begun' = FALSE
    /\ UNCHANGED <<file, w, emits, opens, faults, acked, clean, intact>>

\* The machine dies in the middle of an emit: any part of what it wrote is on
\* disk, and its caller never hears of it.
CrashInEmit(stop) ==
    /\ up /\ up' = FALSE /\ emits < MaxEmits
    /\ LET ls == Append(buffer, NewLine(stop)) IN
        \/ file' = Written(ls) /\ UNCHANGED clean
        \/ \E s \in Stops(ls) :
            /\ s.cut # "none"
            /\ file' = Written(UpTo(ls, s)) /\ clean' = FALSE
    /\ buffer' = <<>> /\ begun' = FALSE
    /\ emits' = emits + 1
    /\ UNCHANGED <<w, opens, faults, acked, intact>>

\* A line of a file nobody writes is altered, lost, or changes places with
\* the next.  The file is then read, and never written again.
Damage ==
    /\ ~up /\ intact = <<>> /\ faults < MaxFaults
    /\ \E i \in DOMAIN file :
        \/ file' = [file EXCEPT ![i].tok = MaxEmits + 1]
        \/ file' = RemoveAt(file, i)
        \/ /\ i < Len(file)
           /\ file' = [file EXCEPT ![i] = file[i + 1], ![i + 1] = file[i]]
    /\ intact' = file
    /\ faults' = faults + 1
    /\ UNCHANGED <<up, w, buffer, begun, emits, opens, acked, clean>>

-----------------------------------------------------------------------------
Open ==
    \E run \in Runs \cup {NoRun}, config \in Configs \cup {NoConfig} :
        \/ OpenNew(run, config) \/ Resume(run, config)
        \/ \E resume \in BOOLEAN : OpenRefused(run, config, resume)

Next ==
    \/ Open \/ Close \/ EmitUnserializable \/ Crash \/ Damage
    \/ \E stop \in BOOLEAN :
        Emit(stop) \/ EmitDiskError(stop) \/ CrashInEmit(stop)

Spec == Init /\ [][Next]_vars

-----------------------------------------------------------------------------
(* Properties                                                              *)

\* A run whose emits all returned, whatever crashes and resumes it went
\* through, has a log that reads back: its numbers have no gap and its hashes
\* no break ("seq (monotonic, gap-free)").
CleanRunsLoad == clean /\ intact = <<>> => Loads(file)

\* A log that reads back holds every event emit() returned for, in order,
\* even if other emits failed, or lines were cut by a crash.
LoadedLogsAreComplete ==
    intact = <<>> /\ Loads(file) =>
        acked = Picked([i \in DOMAIN file |-> file[i].tok],
                       {i \in DOMAIN file : file[i].tok \in ToSet(acked)})

\* A damaged log that reads back is the beginning of the log, but for the
\* last line, which no later line vouches for ("tamper-evidence: ... a
\* self-certifying hash chain").
DamageShows ==
    intact # <<>> /\ Loads(file) =>
        \A i \in 1 .. Len(file) - 1 :
            i \in DOMAIN intact /\ file[i] = intact[i]
=============================================================================
