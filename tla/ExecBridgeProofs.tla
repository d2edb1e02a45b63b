-------------------------- MODULE ExecBridgeProofs --------------------------
(***************************************************************************)
(* Theorems about ExecBridge: at most one executor signs, and what a call  *)
(* returns is true of the chain, for any number of legs, calls, executors  *)
(* and faults.                                                             *)
(***************************************************************************)
EXTENDS ExecBridge, SequenceTheorems, TLAPS

-----------------------------------------------------------------------------
(* The invariants. *)

Outcomes == {"open", "ok", "refused", "raised", "unknown"}
States == {"alive", "dying", "dead"}

\* The lists kept by call and by executor are as long as there are calls and
\* executors; a call that is under way is the last, and has an executor once
\* it is written; so has a call with a timer.
TypeInv ==
    /\ TypeOK
    /\ seq \in 0 .. MaxCalls /\ Calls = 1 .. seq
    /\ Len(procs) \in 0 .. MaxProcs /\ Procs = 1 .. Len(procs)
    /\ cur \in 0 .. Len(procs)
    /\ pc \notin {"idle", "closed"} => seq \in Calls
    /\ pc \in {"write", "read", "cancel", "judge"} => cur \in Procs
    /\ \A i \in Calls : servedBy[i] \in 0 .. Len(procs)
    /\ \A i \in Calls : timers[i] # "off" => servedBy[i] \in Procs

\* An executor that still runs is the one in use; after stop() there may be
\* one left, and no other is started.
SignerInv ==
    /\ pc # "closed" => \A p \in Procs : Running(p) => p = cur
    /\ OneSigner

In(x, s) == \E k \in 1 .. Len(s) : s[k] = x
Distinct(s) == \A j, k \in 1 .. Len(s) : s[j] = s[k] => j = k

\* Nothing of call i is on its way: no leg submitted, no executor at work on
\* it, or about to be.
Quiet(i) ==
    /\ signed[i] = landed[i]
    /\ \A p \in Procs : working[p] # i /\ ~In(i, inbox[p])

\* The calls that are open are the one under way.
OpenInv ==
    \A i \in Calls : fates[i] = "open" <=> i = seq /\ pc \notin {"idle", "closed"}

\* A leg is submitted before it lands, and never one that was not asked for;
\* the call under way has not reached an executor before it is written.
LegsInv ==
    /\ \A i \in Calls : landed[i] <= signed[i] /\ signed[i] <= legs[i]
    /\ \A i \in Calls : servedBy[i] = 0 => signed[i] = 0
    /\ pc \in {"poll", "write"} => servedBy[seq] = 0

\* A request is in one place, of the executor it was written to: waiting, in
\* which case nothing of it is signed, or being worked on.
PlaceInv ==
    \A p \in Procs :
        /\ working[p] # 0 => working[p] \in Calls /\ servedBy[working[p]] = p
        /\ Distinct(inbox[p])
        /\ \A i \in Calls :
            In(i, inbox[p]) => servedBy[i] = p /\ signed[i] = 0 /\ working[p] # i

\* A line that answers a call was true when it was written and stays so.
True(l) ==
    l.id # 0 =>
        /\ l.id \in Calls /\ servedBy[l.id] # 0
        /\ l.ok <=> landed[l.id] = legs[l.id]
        /\ Quiet(l.id)

Around(l) == l = line \/ \E p \in Procs : In(l, outbox[p])

TruthInv == \A l \in Line : Around(l) => True(l)

\* So is what the callers were told.
ToldInv ==
    \A i \in Calls :
        /\ fates[i] = "ok" => landed[i] = legs[i]
        /\ fates[i] = "refused" => Quiet(i)
        /\ fates[i] = "raised" => servedBy[i] = 0

BridgeInv == OpenInv /\ LegsInv /\ PlaceInv /\ TruthInv /\ ToldInv

-----------------------------------------------------------------------------
(* Lists by call and by executor, as functions. *)

ListOf(s, n, S) == s \in [1 .. n -> S]
Extended(t, s, n, e) ==
    Len(t) = n + 1 /\ t[n + 1] = e /\ \A i \in 1 .. n : t[i] = s[i]

LEMMA SameBound == ASSUME NEW a \in Nat, NEW b \in Nat, 1 .. a = 1 .. b PROVE a = b
<1>1. CASE a < b
  BY <1>1, b \in 1 .. b
<1>2. CASE b < a
  BY <1>2, a \in 1 .. a
<1> QED BY <1>1, <1>2

LEMMA ListIsSeq ==
    ASSUME NEW S, NEW n \in Nat, NEW s \in [1 .. n -> S]
    PROVE  s \in Seq(S) /\ Len(s) = n
<1>1. s \in Seq(S)
  BY SeqDef
<1>2. DOMAIN s = 1 .. Len(s) /\ Len(s) \in Nat
  BY <1>1, LenProperties
<1>3. DOMAIN s = 1 .. n
  OBVIOUS
<1> QED BY <1>1, <1>2, <1>3, SameBound

LEMMA Grown ==
    ASSUME NEW S, NEW n \in Nat, NEW s, NEW e \in S, ListOf(s, n, S)
    PROVE  ListOf(Append(s, e), n + 1, S) /\ Extended(Append(s, e), s, n, e)
<1> DEFINE t == Append(s, e)
<1>1. s \in Seq(S) /\ Len(s) = n
  BY ListIsSeq DEF ListOf
<1>2. /\ t \in Seq(S) /\ Len(t) = n + 1
      /\ t[n + 1] = e
      /\ \A i \in 1 .. n : t[i] = s[i]
  BY <1>1, AppendProperties
<1> QED BY <1>2, LenProperties DEF ListOf, Extended

\* An assignment to one element changes no length.
LEMMA Updated ==
    ASSUME NEW S, NEW n \in Nat, NEW s \in [1 .. n -> S], NEW i, NEW e \in S
    PROVE  /\ [s EXCEPT ![i] = e] \in [1 .. n -> S]
           /\ Len([s EXCEPT ![i] = e]) = n
<1>1. [s EXCEPT ![i] = e] \in [1 .. n -> S]
  OBVIOUS
<1>2. [s EXCEPT ![i] = e] \in Seq(S)
  BY <1>1, SeqDef
<1> QED BY <1>1, <1>2, LenProperties

-----------------------------------------------------------------------------
(* Types. *)

LEMMA TypeInit == Init => TypeInv /\ SignerInv /\ BridgeInv
<1> SUFFICES ASSUME Init PROVE TypeInv /\ SignerInv /\ BridgeInv
  OBVIOUS
<1>1. Calls = {} /\ Procs = {} /\ seq = 0 /\ Len(procs) = 0
  BY DEF Init, Calls, Procs, seq
<1>2. TypeInv
  BY <1>1, BoundsAssumption DEF Init, TypeInv, TypeOK, Line, Eof
<1>3. SignerInv /\ OpenInv /\ LegsInv /\ PlaceInv /\ ToldInv
  BY <1>1 DEF Init, SignerInv, OneSigner, OpenInv, LegsInv, PlaceInv, ToldInv
<1>4. TruthInv
  BY <1>1 DEF Init, TruthInv, Around, True, Eof
<1> QED BY <1>2, <1>3, <1>4 DEF BridgeInv

\* An outcome is noted for a call; no call is added.
LEMMA SameCalls ==
    ASSUME TypeInv,
           UNCHANGED fates \/ \E i : \E o \in Outcomes : fates' = [fates EXCEPT ![i] = o]
    PROVE  Calls' = Calls /\ seq' = seq /\ fates' \in [Calls -> Outcomes]
<1>1. seq \in Nat /\ Calls = 1 .. seq /\ fates \in [1 .. seq -> Outcomes]
  BY DEF TypeInv, TypeOK, Outcomes
<1>2. CASE UNCHANGED fates
  BY <1>1, <1>2 DEF Calls, seq
<1>3. CASE \E i : \E o \in Outcomes : fates' = [fates EXCEPT ![i] = o]
  <2>1. fates' \in [1 .. seq -> Outcomes] /\ Len(fates') = seq
    BY <1>1, <1>3, Updated
  <2> QED BY <1>1, <2>1 DEF Calls, seq
<1> QED BY <1>2, <1>3

\* An executor changes its state; none is added.
LEMMA SameProcs ==
    ASSUME TypeInv,
           UNCHANGED procs \/ \E p : \E s \in States : procs' = [procs EXCEPT ![p] = s]
    PROVE  Procs' = Procs /\ Len(procs') = Len(procs) /\ procs' \in [Procs -> States]
<1>1. Len(procs) \in Nat /\ Procs = 1 .. Len(procs)
      /\ procs \in [1 .. Len(procs) -> States]
  BY DEF TypeInv, TypeOK, States
<1>2. CASE UNCHANGED procs
  BY <1>1, <1>2 DEF Procs
<1>3. CASE \E p : \E s \in States : procs' = [procs EXCEPT ![p] = s]
  <2> PICK p : \E s \in States : procs' = [procs EXCEPT ![p] = s]
    BY <1>3
  <2> PICK s \in States : procs' = [procs EXCEPT ![p] = s]
    OBVIOUS
  <2>1. procs' \in [1 .. Len(procs) -> States] /\ Len(procs') = Len(procs)
    BY <1>1, Updated
  <2> QED BY <1>1, <2>1 DEF Procs
<1> QED BY <1>2, <1>3

LEMMA KilledState == \A s \in States : Killed(s) \in States /\ (s = "dead" => Killed(s) = s)
BY DEF Killed, States

\* A new call has no timer, no executor and no leg yet.
LEMMA CallLists ==
    ASSUME TypeInv, Call
    PROVE  /\ seq' = seq + 1 /\ Calls' = 1 .. seq + 1 /\ seq' \in 0 .. MaxCalls
           /\ fates' \in [Calls' -> Outcomes] /\ legs' \in [Calls' -> 1 .. Legs]
           /\ landed' \in [Calls' -> 0 .. Legs] /\ signed' \in [Calls' -> 0 .. Legs]
           /\ timers' \in [Calls' -> {"off", "armed", "due", "flagged"}]
           /\ servedBy' \in [Calls' -> 0 .. MaxProcs]
           /\ fates'[seq'] = "open" /\ landed'[seq'] = 0 /\ signed'[seq'] = 0
           /\ timers'[seq'] = "off" /\ servedBy'[seq'] = 0 /\ legs'[seq'] >= 1
           /\ \A i \in Calls :
                /\ fates'[i] = fates[i] /\ legs'[i] = legs[i] /\ landed'[i] = landed[i]
                /\ signed'[i] = signed[i] /\ timers'[i] = timers[i]
                /\ servedBy'[i] = servedBy[i]
<1> DEFINE n == seq
<1>1. n \in Nat /\ Calls = 1 .. n /\ n + 1 \in 0 .. MaxCalls
  BY BoundsAssumption DEF TypeInv, Call
<1>2. /\ ListOf(fates, n, Outcomes) /\ ListOf(legs, n, 1 .. Legs)
      /\ ListOf(landed, n, 0 .. Legs) /\ ListOf(signed, n, 0 .. Legs)
      /\ ListOf(timers, n, {"off", "armed", "due", "flagged"})
      /\ ListOf(servedBy, n, 0 .. MaxProcs)
  BY <1>1 DEF TypeInv, TypeOK, Outcomes, ListOf
<1>3. PICK m \in 1 .. Legs : legs' = Append(legs, m)
  BY DEF Call
<1>4. /\ fates' = Append(fates, "open") /\ landed' = Append(landed, 0)
      /\ signed' = Append(signed, 0) /\ timers' = Append(timers, "off")
      /\ servedBy' = Append(servedBy, 0) /\ seq' = Len(fates') /\ Calls' = DOMAIN fates'
  BY DEF Call, seq, Calls
<1>5. /\ "open" \in Outcomes /\ 0 \in 0 .. Legs /\ 0 \in 0 .. MaxProcs
      /\ "off" \in {"off", "armed", "due", "flagged"}
  BY LegsAssumption, BoundsAssumption DEF Outcomes
<1> HIDE DEF n
<1>6. ListOf(fates', n + 1, Outcomes) /\ Extended(fates', fates, n, "open")
  BY <1>1, <1>2, <1>4, <1>5, Grown
<1>7. ListOf(legs', n + 1, 1 .. Legs) /\ Extended(legs', legs, n, m)
  BY <1>1, <1>2, <1>3, Grown
<1>8. ListOf(landed', n + 1, 0 .. Legs) /\ Extended(landed', landed, n, 0)
  BY <1>1, <1>2, <1>4, <1>5, Grown
<1>9. ListOf(signed', n + 1, 0 .. Legs) /\ Extended(signed', signed, n, 0)
  BY <1>1, <1>2, <1>4, <1>5, Grown
<1>10. /\ ListOf(timers', n + 1, {"off", "armed", "due", "flagged"})
       /\ Extended(timers', timers, n, "off")
  BY <1>1, <1>2, <1>4, <1>5, Grown
<1>11. ListOf(servedBy', n + 1, 0 .. MaxProcs) /\ Extended(servedBy', servedBy, n, 0)
  BY <1>1, <1>2, <1>4, <1>5, Grown
<1>12. seq' = n + 1 /\ Calls' = 1 .. n + 1
  BY <1>4, <1>6 DEF ListOf, Extended
<1>13. m >= 1
  BY <1>3, LegsAssumption
<1>14. n = seq /\ Calls = 1 .. n
  BY <1>1 DEF n
<1> QED
  BY <1>1, <1>6, <1>7, <1>8, <1>9, <1>10, <1>11, <1>12, <1>13, <1>14
  DEF ListOf, Extended

\* A new executor has empty pipes and no work.
Starts ==
    /\ PollExecutor /\ NeedsStart /\ Len(procs) < MaxProcs
    /\ cur' = Len(procs) + 1
    /\ procs' = Append(procs, "alive") /\ working' = Append(working, 0)
    /\ inbox' = Append(inbox, <<>>) /\ outbox' = Append(outbox, <<>>)
    /\ stderr' = Append(stderr, 0)

LEMMA StartLists ==
    ASSUME TypeInv, Starts
    PROVE  /\ Len(procs') = Len(procs) + 1 /\ Procs' = 1 .. Len(procs) + 1
           /\ Len(procs') \in 0 .. MaxProcs
           /\ procs' \in [Procs' -> States] /\ working' \in [Procs' -> 0 .. MaxCalls]
           /\ inbox' \in [Procs' -> Seq(Calls)] /\ outbox' \in [Procs' -> Seq(Line)]
           /\ stderr' \in [Procs' -> 0 .. StderrCap]
           /\ procs'[cur'] = "alive" /\ working'[cur'] = 0 /\ inbox'[cur'] = <<>>
           /\ outbox'[cur'] = <<>>
           /\ \A p \in Procs :
                /\ procs'[p] = procs[p] /\ working'[p] = working[p]
                /\ inbox'[p] = inbox[p] /\ outbox'[p] = outbox[p]
<1> DEFINE n == Len(procs)
<1>1. n \in Nat /\ Procs = 1 .. n /\ n + 1 \in 0 .. MaxProcs /\ cur' = n + 1
  BY BoundsAssumption DEF TypeInv, Starts
<1>2. /\ ListOf(procs, n, States) /\ ListOf(working, n, 0 .. MaxCalls)
      /\ ListOf(inbox, n, Seq(Calls)) /\ ListOf(outbox, n, Seq(Line))
      /\ ListOf(stderr, n, 0 .. StderrCap)
  BY <1>1 DEF TypeInv, TypeOK, States, ListOf
<1>3. /\ procs' = Append(procs, "alive") /\ working' = Append(working, 0)
      /\ inbox' = Append(inbox, <<>>) /\ outbox' = Append(outbox, <<>>)
      /\ stderr' = Append(stderr, 0) /\ Procs' = DOMAIN procs'
  BY DEF Starts, Procs
<1>4. /\ "alive" \in States /\ 0 \in 0 .. MaxCalls /\ <<>> \in Seq(Calls)
      /\ <<>> \in Seq(Line) /\ 0 \in 0 .. StderrCap
  BY BoundsAssumption, StderrAssumption, EmptySeq DEF States
<1> HIDE DEF n
<1>5. ListOf(procs', n + 1, States) /\ Extended(procs', procs, n, "alive")
  BY <1>1, <1>2, <1>3, <1>4, Grown
<1>6. ListOf(working', n + 1, 0 .. MaxCalls) /\ Extended(working', working, n, 0)
  BY <1>1, <1>2, <1>3, <1>4, Grown
<1>7. ListOf(inbox', n + 1, Seq(Calls)) /\ Extended(inbox', inbox, n, <<>>)
  BY <1>1, <1>2, <1>3, <1>4, Grown
<1>8. ListOf(outbox', n + 1, Seq(Line)) /\ Extended(outbox', outbox, n, <<>>)
  BY <1>1, <1>2, <1>3, <1>4, Grown
<1>9. ListOf(stderr', n + 1, 0 .. StderrCap)
  BY <1>1, <1>2, <1>3, <1>4, Grown
<1>10. Procs' = 1 .. n + 1
  BY <1>3, <1>5 DEF ListOf
<1>11. n = Len(procs) /\ Procs = 1 .. n
  BY <1>1 DEF n
<1> QED
  BY <1>1, <1>5, <1>6, <1>7, <1>8, <1>9, <1>10, <1>11 DEF ListOf, Extended

-----------------------------------------------------------------------------
LEMMA OneMore == ASSUME NEW c \in Nat, NEW x \in 0 .. c, x < c PROVE x + 1 \in 0 .. c
OBVIOUS

LEMMA TypeStep == ASSUME TypeInv, [Next]_vars PROVE TypeInv'
<1> DEFINE Moods == {"off", "armed", "due", "flagged"}
<1>0. /\ seq \in 0 .. MaxCalls /\ Calls = 1 .. seq /\ MaxCalls \in Nat /\ MaxProcs \in Nat
      /\ MaxFaults \in Nat /\ Legs \in Nat /\ StderrCap \in Nat
      /\ Len(procs) \in 0 .. MaxProcs /\ Procs = 1 .. Len(procs)
  BY LegsAssumption, StderrAssumption, BoundsAssumption DEF TypeInv
<1>1. CASE Call
  <2>1. UNCHANGED <<cur, line, timedOut, procs, working, inbox, outbox, stderr, failed, faults>>
        /\ Procs' = Procs /\ pc' = "poll"
    BY <1>1 DEF Call, pipes, Procs
  <2>2. Calls \subseteq Calls' /\ seq' \in Calls'
    BY <1>0, <1>1, CallLists
  <2>3. inbox' \in [Procs' -> Seq(Calls')]
    <3>1. Seq(Calls) \subseteq Seq(Calls')
      BY <2>2, SeqMonotonic
    <3>2. inbox \in [Procs -> Seq(Calls)]
      BY DEF TypeInv, TypeOK
    <3> QED BY <2>1, <3>1, <3>2
  <2>4. TypeOK'
    BY <1>0, <1>1, <2>1, <2>2, <2>3, CallLists DEF TypeInv, TypeOK, Outcomes
  <2>5. ASSUME NEW i \in Calls'
        PROVE  servedBy'[i] \in 0 .. Len(procs') /\ (timers'[i] # "off" => servedBy'[i] \in Procs')
    <3>1. CASE i \in Calls
      <4>1. servedBy'[i] = servedBy[i] /\ timers'[i] = timers[i]
        BY <1>1, <3>1, CallLists
      <4> QED BY <2>1, <3>1, <4>1 DEF TypeInv
    <3>2. CASE i = seq'
      <4>1. servedBy'[i] = 0 /\ timers'[i] = "off"
        BY <1>1, <3>2, CallLists
      <4> QED BY <1>0, <2>1, <4>1
    <3>3. Calls' = 1 .. seq + 1 /\ seq' = seq + 1
      BY <1>1, CallLists
    <3> QED BY <1>0, <3>1, <3>2, <3>3
  <2> QED BY <1>0, <1>1, <2>1, <2>2, <2>4, <2>5, CallLists DEF TypeInv
<1>2. CASE PollExecutor
  <2>1. UNCHANGED <<line, timers, timedOut, servedBy, fates, legs, landed, signed, failed, faults>>
        /\ Calls' = Calls /\ seq' = seq /\ pc' = "write" /\ pc = "poll"
    BY <1>2 DEF PollExecutor, watch, chain, Calls, seq
  <2>2. CASE Starts
    <3>0. /\ Len(procs') = Len(procs) + 1 /\ Procs' = 1 .. Len(procs) + 1
          /\ Len(procs') \in 0 .. MaxProcs /\ cur' = Len(procs) + 1
      BY <2>2, StartLists DEF Starts
    <3>1. /\ Procs \subseteq Procs' /\ cur' \in Procs' /\ cur' \in 0 .. MaxProcs
          /\ 0 .. Len(procs) \subseteq 0 .. Len(procs')
      BY <1>0, <3>0
    <3>2. TypeOK'
      BY <1>0, <2>1, <2>2, <3>1, StartLists DEF TypeInv, TypeOK, States
    <3>3. \A i \in Calls' : servedBy'[i] \in 0 .. Len(procs') /\ (timers'[i] # "off" => servedBy'[i] \in Procs')
      BY <2>1, <3>1 DEF TypeInv
    <3>4. seq' \in 0 .. MaxCalls /\ Calls' = 1 .. seq' /\ seq' \in Calls' /\ cur' \in 0 .. Len(procs')
      BY <1>0, <2>1, <3>0 DEF TypeInv
    <3> QED BY <2>1, <3>0, <3>1, <3>2, <3>3, <3>4 DEF TypeInv
  <2>3. CASE ~Starts
    <3>1. ~NeedsStart /\ UNCHANGED <<cur, procs, working, inbox, outbox, stderr>>
      BY <1>2, <2>3 DEF Starts, PollExecutor, pipes
    <3>2. cur \in Procs /\ Procs' = Procs
      BY <3>1 DEF NeedsStart, Procs
    <3> QED BY <1>0, <2>1, <3>1, <3>2 DEF TypeInv, TypeOK
  <2> QED BY <2>2, <2>3
<1> DEFINE Same == /\ Calls' = Calls /\ seq' = seq /\ Procs' = Procs /\ Len(procs') = Len(procs)
<1>3. CASE RefuseToSend
  <2>1. Same
    BY <1>3, SameCalls, SameProcs DEF RefuseToSend, Return, Outcomes
  <2> QED BY <1>0, <1>3, <2>1 DEF TypeInv, TypeOK, RefuseToSend, Return, watch, pipes, chain
<1>4. CASE StartFails
  <2>1. Same
    BY <1>4, SameCalls, SameProcs DEF StartFails, Return, Outcomes
  <2> QED BY <1>0, <1>4, <2>1 DEF TypeInv, TypeOK, StartFails, Return, watch, pipes, chain
<1>5. CASE WriteRequest
  <2>1. Same
    BY <1>5, SameCalls, SameProcs DEF WriteRequest, Return, Outcomes
  <2>2. cur \in Procs /\ seq \in Calls /\ pc = "write"
    BY <1>5 DEF WriteRequest, TypeInv
  <2>3. UNCHANGED <<cur, line, timedOut, procs, working, outbox, stderr, legs, landed, signed, failed, faults>>
    BY <1>5 DEF WriteRequest, chain
  <2>4. CASE /\ inbox' = [inbox EXCEPT ![cur] = Append(@, seq)]
             /\ timers' = [timers EXCEPT ![seq] = Armed]
             /\ servedBy' = [servedBy EXCEPT ![seq] = cur]
             /\ pc' = "read" /\ UNCHANGED fates
    <3>1. Append(inbox[cur], seq) \in Seq(Calls)
      BY <2>2, AppendProperties DEF TypeInv, TypeOK
    <3>2. inbox' \in [Procs -> Seq(Calls)]
      BY <2>4, <3>1 DEF TypeInv, TypeOK
    <3>3. timers' \in [Calls -> Moods] /\ servedBy' \in [Calls -> 0 .. MaxProcs]
      BY <1>0, <2>2, <2>4 DEF TypeInv, TypeOK, Armed
    <3>4. \A i \in Calls : servedBy'[i] \in 0 .. Len(procs) /\ (timers'[i] # "off" => servedBy'[i] \in Procs)
      BY <1>0, <2>2, <2>4 DEF TypeInv, TypeOK
    <3> QED BY <1>0, <2>1, <2>2, <2>3, <2>4, <3>2, <3>3, <3>4 DEF TypeInv, TypeOK
  <2>5. CASE Return("raised") /\ UNCHANGED <<inbox, timers, servedBy>>
    BY <1>0, <2>1, <2>2, <2>3, <2>5 DEF TypeInv, TypeOK, Return
  <2> QED BY <1>5, <2>4, <2>5 DEF WriteRequest
<1>6. CASE ReadLine
  <2>1. Same
    BY <1>6, SameCalls, SameProcs DEF ReadLine
  <2>2. cur \in Procs /\ seq \in Calls
    BY <1>6 DEF ReadLine, TypeInv
  <2>3. outbox' \in [Procs -> Seq(Line)] /\ line' \in Line
    <3>1. CASE outbox[cur] # <<>> /\ line' = Head(outbox[cur]) /\ outbox' = [outbox EXCEPT ![cur] = Tail(@)]
      <4>1. Head(outbox[cur]) \in Line /\ Tail(outbox[cur]) \in Seq(Line)
        BY <2>2, <3>1, HeadTailProperties DEF TypeInv, TypeOK
      <4> QED BY <3>1, <4>1 DEF TypeInv, TypeOK
    <3>2. CASE line' = Eof /\ UNCHANGED outbox
      <4>1. Eof \in Line
        BY <1>0 DEF Line, Eof
      <4> QED BY <3>2, <4>1 DEF TypeInv, TypeOK
    <3> QED BY <1>6, <3>1, <3>2 DEF ReadLine
  <2> QED BY <1>0, <1>6, <2>1, <2>2, <2>3 DEF TypeInv, TypeOK, ReadLine, watch, chain
<1>7. CASE CancelTimer
  <2>1. Same
    BY <1>7, SameCalls, SameProcs DEF CancelTimer
  <2>2. cur \in Procs /\ seq \in Calls
    BY <1>7 DEF CancelTimer, TypeInv
  <2> QED BY <1>0, <1>7, <2>1, <2>2 DEF TypeInv, TypeOK, CancelTimer, pipes, chain
<1>8. CASE JudgeLine
  <2>2. cur \in Procs /\ seq \in Calls
    BY <1>8 DEF JudgeLine, TypeInv
  <2>3. Killed(procs[cur]) \in States
    BY <2>2, KilledState DEF TypeInv, TypeOK, States
  <2>6. Eof \in Line
    BY <1>0 DEF Eof, Line
  <2>4. Same /\ fates' \in [Calls -> Outcomes] /\ procs' \in [Procs -> States]
    BY <1>8, <2>3, SameCalls, SameProcs DEF JudgeLine, Return, Outcomes
  <2>5. pc' = "idle" /\ line' = Eof
        /\ UNCHANGED <<cur, timers, timedOut, servedBy, working, inbox, outbox, stderr, legs, landed, signed, failed, faults>>
    BY <1>8 DEF JudgeLine, Return, watch, pipes, chain
  <2> QED BY <1>0, <2>4, <2>5, <2>6 DEF TypeInv, TypeOK, Outcomes, States
<1>9. CASE StopBridge
  <2>1. pc' = "closed" /\ cur' = 0
        /\ UNCHANGED <<line, timers, timedOut, servedBy, working, inbox, outbox, stderr, fates, legs, landed, signed, failed, faults>>
    BY <1>9 DEF StopBridge, watch, pipes, chain
  <2>2. cur # 0 => cur \in Procs
    BY <1>0 DEF TypeInv
  <2>3. cur # 0 => Killed(procs[cur]) \in States
    BY <2>2, KilledState DEF TypeInv, TypeOK, States
  <2>4. Same /\ procs' \in [Procs -> States]
    BY <1>9, <2>1, <2>3, SameCalls, SameProcs DEF StopBridge, States
  <2>5. cur' \in 0 .. MaxProcs /\ cur' \in 0 .. Len(procs') /\ pc' = "closed"
    BY <1>0, <2>1, <2>4
  <2> QED BY <1>0, <2>1, <2>4, <2>5 DEF TypeInv, TypeOK, States
<1>10. CASE Timer
  <2>1. PICK i \in Calls : TimerDue(i) \/ TimerFlags(i) \/ TimerKills(i)
    BY <1>10 DEF Timer
  <2>2. UNCHANGED <<pc, cur, line, servedBy, working, inbox, outbox, stderr, fates, legs, landed, signed, failed, faults>>
    BY <2>1 DEF TimerDue, TimerFlags, TimerKills, caller, pipes, chain
  <2>3. timers[i] # "off" /\ servedBy[i] \in Procs
    BY <2>1 DEF TimerDue, TimerFlags, TimerKills, TypeInv
  <2>4. Killed(procs[servedBy[i]]) \in States
    BY <2>3, KilledState DEF TypeInv, TypeOK, States
  <2>5. Same /\ procs' \in [Procs -> States]
    BY <2>1, <2>2, <2>4, SameCalls, SameProcs DEF TimerDue, TimerFlags, TimerKills
  <2>6. /\ timers' \in [Calls -> Moods] /\ timedOut' \subseteq Calls
        /\ \A j \in Calls : timers'[j] # "off" => timers[j] # "off"
    BY <2>1, <2>3 DEF TimerDue, TimerFlags, TimerKills, TypeInv, TypeOK
  <2> QED BY <1>0, <2>2, <2>5, <2>6 DEF TypeInv, TypeOK, States
<1>11. CASE \E p \in Procs : TakeRequest(p) \/ SignLeg(p) \/ Answer(p)
                             \/ PrintStray(p) \/ DrainStderr(p) \/ Dies(p)
  <2>1. PICK p \in Procs : \/ TakeRequest(p) \/ SignLeg(p) \/ Answer(p)
                           \/ PrintStray(p) \/ DrainStderr(p) \/ Dies(p)
    BY <1>11
  <2>2. UNCHANGED <<pc, cur, line, timers, timedOut, servedBy, fates, legs, landed, failed>>
    BY <2>1 DEF TakeRequest, SignLeg, Answer, PrintStray, DrainStderr, Dies, caller, watch, chain
  <2>3. Same /\ procs' \in [Procs -> States]
    BY <2>1, <2>2, SameCalls, SameProcs
    DEF TakeRequest, SignLeg, Answer, PrintStray, DrainStderr, Dies, States
  <2>4. /\ inbox' \in [Procs -> Seq(Calls)] /\ working' \in [Procs -> 0 .. MaxCalls]
        /\ outbox' \in [Procs -> Seq(Line)] /\ stderr' \in [Procs -> 0 .. StderrCap]
        /\ signed' \in [Calls -> 0 .. Legs] /\ faults' \in 0 .. MaxFaults
    <3>1. /\ inbox \in [Procs -> Seq(Calls)] /\ working \in [Procs -> 0 .. MaxCalls]
          /\ outbox \in [Procs -> Seq(Line)] /\ stderr \in [Procs -> 0 .. StderrCap]
          /\ signed \in [Calls -> 0 .. Legs] /\ faults \in 0 .. MaxFaults
          /\ landed \in [Calls -> 0 .. Legs] /\ legs \in [Calls -> 1 .. Legs]
      BY DEF TypeInv, TypeOK
    <3>2. CASE TakeRequest(p)
      <4>1. Head(inbox[p]) \in Calls /\ Tail(inbox[p]) \in Seq(Calls)
        BY <3>1, <3>2, HeadTailProperties DEF TakeRequest
      <4>2. Head(inbox[p]) \in 0 .. MaxCalls
        BY <1>0, <4>1
      <4>3. /\ working' = [working EXCEPT ![p] = Head(inbox[p])]
            /\ inbox' = [inbox EXCEPT ![p] = Tail(@)]
            /\ UNCHANGED <<outbox, stderr, signed, faults>>
        BY <3>2 DEF TakeRequest, chain
      <4> QED BY <3>1, <4>1, <4>2, <4>3
    <3>3. CASE SignLeg(p)
      <4>1. signed[working[p]] < legs[working[p]] /\ signed' = [signed EXCEPT ![working[p]] = @ + 1]
            /\ stderr[p] < StderrCap /\ stderr' = [stderr EXCEPT ![p] = @ + 1]
            /\ UNCHANGED <<working, inbox, outbox, faults>>
        BY <3>3 DEF SignLeg
      <4>2. signed' \in [Calls -> 0 .. Legs]
        <5>1. working[p] \in Calls => signed[working[p]] + 1 \in 0 .. Legs
          BY <1>0, <3>1, <4>1
        <5> QED BY <3>1, <4>1, <5>1
      <4>3. stderr' \in [Procs -> 0 .. StderrCap]
        <5>1. stderr[p] \in 0 .. StderrCap /\ stderr[p] < StderrCap
          BY <3>1, <4>1
        <5>2. stderr[p] + 1 \in 0 .. StderrCap
          BY <1>0, <5>1, OneMore
        <5> QED BY <3>1, <4>1, <5>2
      <4> QED BY <3>1, <4>1, <4>2, <4>3
    <3>4. CASE Answer(p)
      <4> DEFINE l == [id |-> working[p], ok |-> landed[working[p]] = legs[working[p]]]
      <4>1. l \in Line
        BY <3>1 DEF Line
      <4>2. outbox' = [outbox EXCEPT ![p] = Append(@, l)] /\ working' = [working EXCEPT ![p] = 0]
            /\ stderr[p] < StderrCap /\ stderr' = [stderr EXCEPT ![p] = @ + 1]
            /\ UNCHANGED <<inbox, signed, faults>>
        BY <3>4 DEF Answer, chain
      <4> HIDE DEF l
      <4>3. Append(outbox[p], l) \in Seq(Line)
        BY <3>1, <4>1, AppendProperties
      <4>4. outbox' \in [Procs -> Seq(Line)]
        BY <3>1, <4>2, <4>3
      <4>5. stderr' \in [Procs -> 0 .. StderrCap]
        <5>1. stderr[p] \in 0 .. StderrCap /\ stderr[p] < StderrCap
          BY <3>1, <4>2
        <5>2. stderr[p] + 1 \in 0 .. StderrCap
          BY <1>0, <5>1, OneMore
        <5> QED BY <3>1, <4>2, <5>2
      <4>6. 0 \in 0 .. MaxCalls
        BY <1>0
      <4>7. working' \in [Procs -> 0 .. MaxCalls]
        BY <3>1, <4>2, <4>6
      <4> QED BY <3>1, <4>2, <4>4, <4>5, <4>7
    <3>5. CASE PrintStray(p)
      <4>0. Stray \in Line
        BY <1>0 DEF Stray, Line
      <4>1. Append(outbox[p], Stray) \in Seq(Line)
        BY <3>1, <4>0, AppendProperties
      <4> QED BY <1>0, <3>1, <3>5, <4>1 DEF PrintStray, chain
    <3>6. CASE DrainStderr(p)
      <4>1. stderr[p] > 0 /\ stderr' = [stderr EXCEPT ![p] = @ - 1]
            /\ UNCHANGED <<working, inbox, outbox, signed, faults>>
        BY <3>6 DEF DrainStderr, Drains, chain
      <4>2. stderr' \in [Procs -> 0 .. StderrCap]
        BY <1>0, <3>1, <4>1
      <4> QED BY <3>1, <4>1, <4>2
    <3>7. CASE Dies(p)
      BY <1>0, <3>1, <3>7 DEF Dies, pipes, chain
    <3> QED BY <2>1, <3>2, <3>3, <3>4, <3>5, <3>6, <3>7
  <2> QED BY <1>0, <2>2, <2>3, <2>4 DEF TypeInv, TypeOK, States
<1>12. CASE Chain
  <2>1. PICK i \in Calls : LegLands(i) \/ LegFails(i)
    BY <1>12 DEF Chain
  <2>2. UNCHANGED <<pc, cur, line, timers, timedOut, servedBy, procs, working, inbox, outbox, stderr, fates, legs, faults>>
    BY <2>1 DEF LegLands, LegFails, caller, watch, pipes
  <2>3. Same
    BY <2>2, SameCalls, SameProcs
  <2>4. landed' \in [Calls -> 0 .. Legs] /\ signed' \in [Calls -> 0 .. Legs] /\ failed' \subseteq Calls
    <3>1. /\ signed \in [Calls -> 0 .. Legs] /\ landed \in [Calls -> 0 .. Legs] /\ failed \subseteq Calls
          /\ landed[i] < signed[i]
      BY <2>1 DEF TypeInv, TypeOK, LegLands, LegFails
    <3>2. CASE LegLands(i)
      BY <1>0, <3>1, <3>2 DEF LegLands
    <3>3. CASE LegFails(i)
      BY <1>0, <3>1, <3>3 DEF LegFails
    <3> QED BY <2>1, <3>2, <3>3
  <2> QED BY <1>0, <2>2, <2>3, <2>4 DEF TypeInv, TypeOK
<1>13. CASE UNCHANGED vars
  <2>1. Same
    BY <1>13, SameCalls, SameProcs DEF vars
  <2> QED BY <1>0, <1>13, <2>1 DEF TypeInv, TypeOK, vars, caller, watch, pipes, chain
<1> QED
  BY <1>1, <1>2, <1>3, <1>4, <1>5, <1>6, <1>7, <1>8, <1>9, <1>10, <1>11, <1>12, <1>13
  DEF Next, Send, Executor

-----------------------------------------------------------------------------
(* One executor runs: a new one is started only when the one in use, and   *)
(* with it every other, is gone.                                           *)

LEMMA SignerKept ==
    ASSUME SignerInv, Procs' = Procs,
           \A p \in Procs : procs'[p] # "dead" => procs[p] # "dead",
           pc' = "closed" \/ (pc # "closed" /\ cur' = cur)
    PROVE  SignerInv'
BY DEF SignerInv, OneSigner, Running

LEMMA SignerStep == ASSUME TypeInv, SignerInv, [Next]_vars PROVE SignerInv'
<1>1. CASE Starts
  <2>1. /\ pc # "closed" /\ cur \notin {p \in Procs : Running(p)}
    BY <1>1 DEF Starts, PollExecutor, NeedsStart
  <2>2. \A p \in Procs : ~Running(p)
    BY <2>1 DEF SignerInv
  <2>3. /\ Procs = 1 .. Len(procs) /\ Procs' = 1 .. Len(procs) + 1
        /\ Len(procs) \in Nat /\ cur' = Len(procs) + 1
        /\ \A p \in Procs : procs'[p] = procs[p]
    BY <1>1, StartLists, BoundsAssumption DEF TypeInv, Starts
  <2>4. \A p \in Procs' : Running(p)' => p = cur'
    BY <2>2, <2>3 DEF Running
  <2> QED BY <2>4 DEF SignerInv, OneSigner
<1> DEFINE Weaker == /\ Procs' = Procs
                     /\ \A p \in Procs : procs'[p] # "dead" => procs[p] # "dead"
<1>2. UNCHANGED procs => Weaker
  BY DEF Procs
<1>3. ASSUME NEW p \in Procs, NEW state \in {"dead", Killed(procs[p])},
             procs' = [procs EXCEPT ![p] = state]
      PROVE  Weaker
  <2>1. procs \in [Procs -> States]
    BY DEF TypeInv, TypeOK, States
  <2>2. state \in States /\ (state # "dead" => procs[p] # "dead")
    BY <2>1, KilledState DEF States
  <2>3. Procs' = Procs
    BY <1>3, <2>2, SameProcs
  <2> QED BY <1>3, <2>1, <2>2, <2>3
<1>4. CASE Call
  BY <1>2, <1>4, SignerKept DEF Call
<1>5. CASE Send /\ ~Starts
  <2>1. pc # "closed" /\ cur' = cur
    BY <1>5 DEF Send, RefuseToSend, StartFails, PollExecutor, Starts, WriteRequest, ReadLine,
       CancelTimer, JudgeLine, pipes
  <2>2. UNCHANGED procs \/ (JudgeLine /\ procs' = [procs EXCEPT ![cur] = Killed(procs[cur])])
    BY <1>5 DEF Send, RefuseToSend, StartFails, PollExecutor, Starts, WriteRequest, ReadLine,
       CancelTimer, JudgeLine, pipes
  <2>3. JudgeLine => cur \in Procs
    BY DEF JudgeLine, TypeInv
  <2>4. Weaker
    BY <1>2, <1>3, <2>2, <2>3
  <2> QED BY <2>1, <2>4, SignerKept
<1>6. CASE StopBridge
  <2>1. cur # 0 => cur \in Procs
    BY BoundsAssumption DEF TypeInv
  <2>2. Weaker
    BY <1>2, <1>3, <1>6, <2>1 DEF StopBridge
  <2> QED BY <1>6, <2>2, SignerKept DEF StopBridge
<1>7. CASE Timer
  <2>1. PICK i \in Calls : TimerDue(i) \/ TimerFlags(i) \/ TimerKills(i)
    BY <1>7 DEF Timer
  <2>2. servedBy[i] \in Procs /\ UNCHANGED <<pc, cur>>
    BY <2>1 DEF TimerDue, TimerFlags, TimerKills, TypeInv, caller
  <2>3. Weaker
    BY <1>2, <1>3, <2>1, <2>2 DEF TimerDue, TimerFlags, TimerKills
  <2> QED BY <2>2, <2>3 DEF SignerInv, OneSigner, Running
<1>8. CASE \/ \E p \in Procs : \/ TakeRequest(p) \/ SignLeg(p) \/ Answer(p)
                               \/ PrintStray(p) \/ DrainStderr(p)
           \/ Chain \/ UNCHANGED vars
  <2>1. UNCHANGED <<procs, pc, cur>>
    BY <1>8 DEF TakeRequest, SignLeg, Answer, PrintStray, DrainStderr, Chain, LegLands,
       LegFails, vars, caller
  <2> QED BY <2>1 DEF SignerInv, OneSigner, Running, Procs
<1>9. CASE \E p \in Procs : Dies(p)
  <2>1. PICK p \in Procs : Dies(p)
    BY <1>9
  <2>2. Weaker /\ UNCHANGED <<pc, cur>>
    BY <1>3, <2>1 DEF Dies, caller
  <2> QED BY <2>2 DEF SignerInv, OneSigner, Running
<1> QED
  BY <1>1, <1>4, <1>5, <1>6, <1>7, <1>8, <1>9 DEF Next, Send, Executor, Starts

\* The type invariant of the bridge, for any bounds.
THEOREM BridgeTyped == Spec => []TypeOK
<1>1. TypeInv /\ [Next]_vars => TypeInv'
  BY TypeStep
<1>2. TypeInv => TypeOK
  BY DEF TypeInv
<1> QED BY TypeInit, <1>1, <1>2, PTL DEF Spec

\* At most one executor can sign, whatever timers, kills and deaths come in
\* between (start() and the kill on a mismatched line).
THEOREM OneExecutorSigns == Spec => []OneSigner
<1>1. TypeInv /\ SignerInv /\ [Next]_vars => (TypeInv /\ SignerInv)'
  BY TypeStep, SignerStep
<1>2. SignerInv => OneSigner
  BY DEF SignerInv
<1> QED BY TypeInit, <1>1, <1>2, PTL DEF Spec

-----------------------------------------------------------------------------
(* What is in a pipe. *)

LEMMA InAppended ==
    ASSUME NEW S, NEW s \in Seq(S), NEW e \in S
    PROVE  /\ \A x : In(x, Append(s, e)) => In(x, s) \/ x = e
           /\ \A x : In(x, s) => In(x, Append(s, e))
           /\ Distinct(s) /\ ~In(e, s) => Distinct(Append(s, e))
<1>1. /\ Len(s) \in Nat /\ Len(Append(s, e)) = Len(s) + 1
      /\ Append(s, e)[Len(s) + 1] = e
      /\ \A i \in 1 .. Len(s) : Append(s, e)[i] = s[i]
  BY AppendProperties, LenProperties
<1> DEFINE t == Append(s, e)
<1> HIDE DEF t
<1>2. /\ Len(s) \in Nat /\ Len(t) = Len(s) + 1 /\ t[Len(s) + 1] = e
      /\ \A i \in 1 .. Len(s) : t[i] = s[i]
  BY <1>1 DEF t
<1>3. \A x : In(x, t) => In(x, s) \/ x = e
  BY <1>2 DEF In
<1>4. \A x : In(x, s) => In(x, t)
  BY <1>2 DEF In
<1>5. ASSUME Distinct(s), ~In(e, s) PROVE Distinct(t)
  BY <1>2, <1>5 DEF In, Distinct
<1> QED BY <1>3, <1>4, <1>5 DEF t

LEMMA InTail ==
    ASSUME NEW S, NEW s \in Seq(S), s # <<>>
    PROVE  /\ In(Head(s), s) /\ Head(s) \in S
           /\ \A x : In(x, Tail(s)) => In(x, s)
           /\ Distinct(s) => ~In(Head(s), Tail(s)) /\ Distinct(Tail(s))
<1> DEFINE t == Tail(s)
<1>1. /\ Len(s) \in Nat /\ Len(s) # 0 /\ Head(s) = s[1] /\ Head(s) \in S
      /\ t \in Seq(S) /\ Len(t) = Len(s) - 1
      /\ \A i \in 1 .. Len(t) : t[i] = s[i + 1]
  BY HeadTailProperties, LenProperties, EmptySeq
<1> HIDE DEF t
<1>2. In(Head(s), s)
  BY <1>1 DEF In
<1>3. \A x : In(x, t) => In(x, s)
  BY <1>1 DEF In
<1>4. ASSUME Distinct(s) PROVE ~In(Head(s), t) /\ Distinct(t)
  BY <1>1, <1>4 DEF In, Distinct
<1> QED BY <1>1, <1>2, <1>3, <1>4 DEF t

LEMMA EmptyHasNone == (\A x : ~In(x, <<>>)) /\ Distinct(<<>>)
BY DEF In, Distinct

\* A call that no executor was given has left no trace.
LEMMA UnsentIsQuiet ==
    ASSUME TypeInv, LegsInv, PlaceInv, NEW i \in Calls, servedBy[i] = 0
    PROVE  Quiet(i) /\ signed[i] = 0 /\ landed[i] = 0
<1>1. signed[i] = 0 /\ landed[i] \in Nat /\ landed[i] <= signed[i]
  BY LegsAssumption DEF LegsInv, TypeInv, TypeOK
<1>2. i # 0 /\ \A p \in Procs : p # 0
  BY BoundsAssumption DEF TypeInv
<1>3. \A p \in Procs : working[p] # i /\ ~In(i, inbox[p])
  BY <1>2 DEF PlaceInv
<1> QED BY <1>1, <1>3 DEF Quiet

\* Nothing undoes what a line says of a call that is quiet.
LEMMA LinesStayTrue ==
    ASSUME TypeInv, TruthInv, Calls \subseteq Calls',
           \A i \in Calls : servedBy[i] # 0 => servedBy'[i] # 0,
           \A i \in Calls : Quiet(i) /\ servedBy[i] # 0 =>
               Quiet(i)' /\ landed'[i] = landed[i] /\ legs'[i] = legs[i],
           \A l \in Line : Around(l)' => Around(l) \/ True(l)'
    PROVE  TruthInv'
<1>1. ASSUME NEW l \in Line, True(l) PROVE True(l)'
  <2>1. CASE l.id = 0
    BY <2>1 DEF True
  <2>2. CASE l.id # 0
    <3>1. l.id \in Calls /\ servedBy[l.id] # 0 /\ Quiet(l.id)
          /\ (l.ok <=> landed[l.id] = legs[l.id])
      BY <1>1, <2>2 DEF True
    <3> QED BY <3>1 DEF True
  <2> QED BY <2>1, <2>2
<1>2. ASSUME NEW l \in Line, Around(l)' PROVE True(l)'
  BY <1>1, <1>2 DEF TruthInv
<1> QED BY <1>2 DEF TruthInv

LEMMA WhatWasToldStaysTrue ==
    ASSUME TypeInv, ToldInv,
           \A i \in Calls' :
               \/ i \in Calls /\ fates'[i] = fates[i]
               \/ fates'[i] \in {"open", "unknown"}
               \/ fates'[i] = "ok" /\ landed'[i] = legs'[i]
               \/ fates'[i] = "refused" /\ Quiet(i)'
               \/ fates'[i] = "raised" /\ servedBy'[i] = 0,
           \A i \in Calls : fates[i] = "raised" => servedBy'[i] = servedBy[i],
           \A i \in Calls : fates[i] = "ok" =>
               landed'[i] = landed[i] /\ legs'[i] = legs[i],
           \A i \in Calls : fates[i] = "refused" /\ Quiet(i) => Quiet(i)'
    PROVE  ToldInv'
<1>1. ASSUME NEW i \in Calls'
      PROVE  /\ fates'[i] = "ok" => landed'[i] = legs'[i]
             /\ fates'[i] = "refused" => Quiet(i)'
             /\ fates'[i] = "raised" => servedBy'[i] = 0
  BY DEF ToldInv
<1> QED BY <1>1 DEF ToldInv

\* Steps that touch neither calls, lines nor requests.
LEMMA BridgeFrame ==
    ASSUME BridgeInv, Procs' = Procs,
           UNCHANGED <<line, servedBy, working, inbox, outbox, fates, legs, landed, signed>>,
           pc \in {"idle", "closed"} <=> pc' \in {"idle", "closed"},
           pc' \in {"poll", "write"} => pc \in {"poll", "write"}
    PROVE  BridgeInv'
<1>1. Calls' = Calls /\ seq' = seq
  BY DEF Calls, seq
<1>2. \A i : Quiet(i)' <=> Quiet(i)
  BY DEF Quiet
<1>3. OpenInv' /\ LegsInv' /\ PlaceInv'
  BY <1>1 DEF BridgeInv, OpenInv, LegsInv, PlaceInv
<1>4. ToldInv'
  BY <1>1, <1>2 DEF BridgeInv, ToldInv
<1>5. \A l : (Around(l)' <=> Around(l)) /\ (True(l)' <=> True(l))
  BY <1>1, <1>2 DEF Around, True
<1>6. TruthInv'
  BY <1>5 DEF BridgeInv, TruthInv
<1> QED BY <1>3, <1>4, <1>6 DEF BridgeInv

LEMMA InIsTyped == ASSUME NEW S, NEW s \in Seq(S), NEW x, In(x, s) PROVE x \in S
<1>1. PICK k \in 1 .. Len(s) : s[k] = x
  BY DEF In
<1>2. s[k] \in S
  BY ElementOfSeq
<1> QED BY <1>1, <1>2

LEMMA CallKeeps == ASSUME TypeInv, BridgeInv, Call PROVE BridgeInv'
<1>1. /\ UNCHANGED <<line, procs, working, inbox, outbox>>
      /\ Procs' = Procs /\ pc = "idle" /\ pc' = "poll"
  BY DEF Call, pipes, Procs
<1>2. /\ seq \in Nat /\ Calls = 1 .. seq /\ seq' = seq + 1 /\ Calls' = 1 .. seq + 1
      /\ fates'[seq'] = "open" /\ landed'[seq'] = 0 /\ signed'[seq'] = 0
      /\ servedBy'[seq'] = 0 /\ legs'[seq'] >= 1
      /\ \A i \in Calls :
            /\ fates'[i] = fates[i] /\ legs'[i] = legs[i] /\ landed'[i] = landed[i]
            /\ signed'[i] = signed[i] /\ servedBy'[i] = servedBy[i]
  BY CallLists, BoundsAssumption DEF TypeInv
<1>3. /\ Calls \subseteq Calls' /\ seq' \notin Calls
      /\ \A i \in Calls' : i \in Calls \/ i = seq'
  BY <1>2
<1>4. legs'[seq'] \in Nat
  BY <1>2, CallLists, LegsAssumption
<1>5. \A i \in Calls : Quiet(i)' <=> Quiet(i)
  BY <1>1, <1>2 DEF Quiet
<1>6. OpenInv'
  BY <1>1, <1>2, <1>3 DEF BridgeInv, OpenInv
<1>7. LegsInv'
  BY <1>1, <1>2, <1>3, <1>4 DEF BridgeInv, LegsInv
<1>8. PlaceInv'
  <2>1. ASSUME NEW p \in Procs
        PROVE  /\ working[p] # 0 => working[p] \in Calls' /\ servedBy'[working[p]] = p
               /\ Distinct(inbox[p])
               /\ \A i \in Calls' : In(i, inbox[p]) =>
                    servedBy'[i] = p /\ signed'[i] = 0 /\ working[p] # i
    <3>1. \A i : In(i, inbox[p]) => i \in Calls
      BY InIsTyped DEF TypeInv, TypeOK
    <3>2. working[p] # 0 => working[p] \in Calls' /\ servedBy'[working[p]] = p
      BY <1>2, <1>3 DEF BridgeInv, PlaceInv
    <3>3. Distinct(inbox[p])
      BY DEF BridgeInv, PlaceInv
    <3>4. \A i \in Calls : In(i, inbox[p]) =>
                servedBy'[i] = p /\ signed'[i] = 0 /\ working[p] # i
      BY <1>2 DEF BridgeInv, PlaceInv
    <3> QED BY <3>1, <3>2, <3>3, <3>4
  <2> QED BY <1>1, <2>1 DEF PlaceInv
<1>9. TruthInv'
  <2>1. \A l : Around(l)' <=> Around(l)
    BY <1>1 DEF Around
  <2> QED BY <1>2, <1>3, <1>5, <2>1, LinesStayTrue DEF BridgeInv
<1>10. ToldInv'
  BY <1>2, <1>3, <1>5, WhatWasToldStaysTrue DEF BridgeInv
<1> QED BY <1>6, <1>7, <1>8, <1>9, <1>10 DEF BridgeInv

LEMMA StartKeeps == ASSUME TypeInv, BridgeInv, Starts PROVE BridgeInv'
<1>1. /\ UNCHANGED <<line, servedBy, fates, legs, landed, signed>>
      /\ Calls' = Calls /\ seq' = seq /\ pc = "poll" /\ pc' = "write"
  BY DEF Starts, PollExecutor, watch, chain, Calls, seq
<1>2. /\ Procs = 1 .. Len(procs) /\ Procs' = 1 .. Len(procs) + 1 /\ Len(procs) \in Nat
      /\ cur' = Len(procs) + 1
      /\ working'[cur'] = 0 /\ inbox'[cur'] = <<>> /\ outbox'[cur'] = <<>>
      /\ \A p \in Procs :
            working'[p] = working[p] /\ inbox'[p] = inbox[p] /\ outbox'[p] = outbox[p]
  BY StartLists, BoundsAssumption DEF TypeInv, Starts
<1>3. Procs \subseteq Procs' /\ \A p \in Procs' : p \in Procs \/ p = cur'
  BY <1>2
<1>4. \A i \in Calls : i # 0
  BY BoundsAssumption DEF TypeInv
<1>5. \A i \in Calls : Quiet(i)' <=> Quiet(i)
  BY <1>1, <1>2, <1>3, <1>4, EmptyHasNone DEF Quiet
<1>6. OpenInv' /\ LegsInv'
  BY <1>1 DEF BridgeInv, OpenInv, LegsInv
<1>7. PlaceInv'
  <2>1. ASSUME NEW p \in Procs'
        PROVE  /\ working'[p] # 0 => working'[p] \in Calls /\ servedBy[working'[p]] = p
               /\ Distinct(inbox'[p])
               /\ \A i \in Calls : In(i, inbox'[p]) =>
                    servedBy[i] = p /\ signed[i] = 0 /\ working'[p] # i
    <3>1. CASE p \in Procs
      BY <1>2, <3>1 DEF BridgeInv, PlaceInv
    <3>2. CASE p = cur'
      BY <1>2, <3>2, EmptyHasNone
    <3> QED BY <1>3, <3>1, <3>2
  <2> QED BY <1>1, <2>1 DEF PlaceInv
<1>8. TruthInv'
  <2>1. \A l : Around(l)' => Around(l)
    BY <1>1, <1>2, <1>3, EmptyHasNone DEF Around
  <2> QED BY <1>1, <1>5, <2>1, LinesStayTrue DEF BridgeInv
<1>9. ToldInv'
  BY <1>1, <1>5, WhatWasToldStaysTrue DEF BridgeInv
<1> QED BY <1>6, <1>7, <1>8, <1>9 DEF BridgeInv

\* A call returns with what is true of it.
LEMMA ReturnKeeps ==
    ASSUME TypeInv, BridgeInv, NEW o \in Outcomes \ {"open"}, Return(o),
           pc \notin {"idle", "closed"}, Procs' = Procs, line' \in {line, Eof},
           UNCHANGED <<servedBy, working, inbox, outbox, legs, landed, signed>>,
           o = "ok" => landed[seq] = legs[seq],
           o = "refused" => Quiet(seq),
           o = "raised" => servedBy[seq] = 0
    PROVE  BridgeInv'
<1>1. Calls' = Calls /\ seq' = seq /\ seq \in Calls /\ pc' = "idle"
  BY SameCalls DEF Return, Outcomes, TypeInv
<1>2. fates'[seq] = o /\ \A i \in Calls : i # seq => fates'[i] = fates[i]
  BY <1>1 DEF Return, TypeInv, TypeOK
<1>3. \A i : Quiet(i)' <=> Quiet(i)
  BY DEF Quiet
<1>4. OpenInv'
  BY <1>1, <1>2 DEF BridgeInv, OpenInv, Outcomes
<1>5. LegsInv' /\ PlaceInv'
  BY <1>1 DEF BridgeInv, LegsInv, PlaceInv
<1>6. TruthInv'
  <2>1. \A l : Around(l)' => Around(l) \/ l = Eof
    BY DEF Around
  <2>2. True(Eof)'
    BY DEF True, Eof
  <2>3. \A l \in Line : Around(l)' => Around(l) \/ True(l)'
    BY <2>1 DEF True, Eof
  <2> QED BY <1>1, <1>3, <2>3, LinesStayTrue DEF BridgeInv
<1>7. ToldInv'
  <2>1. \A i \in Calls' :
            \/ i \in Calls /\ fates'[i] = fates[i]
            \/ fates'[i] \in {"open", "unknown"}
            \/ fates'[i] = "ok" /\ landed'[i] = legs'[i]
            \/ fates'[i] = "refused" /\ Quiet(i)'
            \/ fates'[i] = "raised" /\ servedBy'[i] = 0
    BY <1>1, <1>2, <1>3 DEF Outcomes
  <2> QED BY <1>3, <2>1, WhatWasToldStaysTrue DEF BridgeInv
<1> QED BY <1>4, <1>5, <1>6, <1>7 DEF BridgeInv

\* The request is written to a pipe that it is not in.
LEMMA WriteKeeps ==
    ASSUME TypeInv, BridgeInv, WriteRequest, pc' = "read" PROVE BridgeInv'
<1>1. /\ pc = "write" /\ cur \in Procs /\ seq \in Calls
      /\ inbox' = [inbox EXCEPT ![cur] = Append(@, seq)]
      /\ servedBy' = [servedBy EXCEPT ![seq] = cur]
      /\ UNCHANGED <<line, procs, working, outbox, fates, legs, landed, signed>>
  BY DEF WriteRequest, Return, TypeInv, chain
<1>2. Calls' = Calls /\ seq' = seq /\ Procs' = Procs
  BY <1>1 DEF Calls, seq, Procs
<1>3. /\ \A p \in Procs : p # 0
      /\ seq # 0 /\ cur # 0
      /\ inbox \in [Procs -> Seq(Calls)] /\ servedBy \in [Calls -> 0 .. MaxProcs]
  BY <1>1, BoundsAssumption DEF TypeInv, TypeOK
<1>4. servedBy[seq] = 0 /\ fates[seq] = "open"
  BY <1>1 DEF BridgeInv, LegsInv, OpenInv
<1>5. Quiet(seq) /\ signed[seq] = 0
  BY <1>1, <1>4, UnsentIsQuiet DEF BridgeInv
<1>6. /\ servedBy'[seq] = cur
      /\ \A i \in Calls : i # seq => servedBy'[i] = servedBy[i]
  BY <1>1, <1>3
<1>7. /\ \A p \in Procs : p # cur => inbox'[p] = inbox[p]
      /\ \A x : In(x, inbox'[cur]) => In(x, inbox[cur]) \/ x = seq
      /\ Distinct(inbox'[cur])
  <2>1. inbox'[cur] = Append(inbox[cur], seq) /\ inbox[cur] \in Seq(Calls)
    BY <1>1, <1>3
  <2>2. ~In(seq, inbox[cur]) /\ Distinct(inbox[cur])
    BY <1>1, <1>5 DEF Quiet, BridgeInv, PlaceInv
  <2>3. \A p \in Procs : p # cur => inbox'[p] = inbox[p]
    BY <1>1, <1>3
  <2> QED BY <1>1, <2>1, <2>2, <2>3, InAppended
<1>8. \A p \in Procs, i \in Calls : In(i, inbox'[p]) => In(i, inbox[p]) \/ (i = seq /\ p = cur)
  BY <1>7
<1>9. \A i \in Calls : i # seq /\ Quiet(i) => Quiet(i)'
  BY <1>1, <1>2, <1>8 DEF Quiet
<1>10. OpenInv'
  BY <1>1, <1>2 DEF BridgeInv, OpenInv, WriteRequest
<1>11. LegsInv'
  BY <1>1, <1>2, <1>3, <1>6 DEF BridgeInv, LegsInv
<1>12. PlaceInv'
  <2>1. ASSUME NEW p \in Procs
        PROVE  /\ working[p] # 0 => working[p] \in Calls /\ servedBy'[working[p]] = p
               /\ Distinct(inbox'[p])
               /\ \A i \in Calls : In(i, inbox'[p]) =>
                    servedBy'[i] = p /\ signed[i] = 0 /\ working[p] # i
    <3>1. working[p] # seq
      BY <1>5 DEF Quiet
    <3>2. working[p] # 0 => working[p] \in Calls /\ servedBy'[working[p]] = p
      BY <1>6, <3>1 DEF BridgeInv, PlaceInv
    <3>3. Distinct(inbox'[p])
      BY <1>7 DEF BridgeInv, PlaceInv
    <3>4. ASSUME NEW i \in Calls, In(i, inbox'[p])
          PROVE  servedBy'[i] = p /\ signed[i] = 0 /\ working[p] # i
      <4>1. CASE i = seq /\ p = cur
        BY <1>5, <1>6, <3>1, <4>1
      <4>2. CASE In(i, inbox[p])
        <5>1. i # seq
          BY <1>5, <4>2 DEF Quiet
        <5> QED BY <1>6, <4>2, <5>1 DEF BridgeInv, PlaceInv
      <4> QED BY <1>8, <3>4, <4>1, <4>2
    <3> QED BY <3>2, <3>3, <3>4
  <2> QED BY <1>1, <1>2, <2>1 DEF PlaceInv
<1>13. TruthInv'
  <2>1. \A l : Around(l)' => Around(l)
    BY <1>1, <1>2 DEF Around
  <2>2. \A i \in Calls : servedBy[i] # 0 => servedBy'[i] # 0
    BY <1>3, <1>6
  <2>3. \A i \in Calls : Quiet(i) /\ servedBy[i] # 0 =>
            Quiet(i)' /\ landed'[i] = landed[i] /\ legs'[i] = legs[i]
    BY <1>1, <1>4, <1>9
  <2> QED BY <1>2, <2>1, <2>2, <2>3, LinesStayTrue DEF BridgeInv
<1>14. ToldInv'
  <2>1. \A i \in Calls : fates[i] = "raised" => servedBy'[i] = servedBy[i]
    BY <1>4, <1>6
  <2>2. \A i \in Calls : fates[i] = "refused" /\ Quiet(i) => Quiet(i)'
    BY <1>4, <1>9
  <2> QED BY <1>1, <1>2, <2>1, <2>2, WhatWasToldStaysTrue DEF BridgeInv
<1> QED BY <1>10, <1>11, <1>12, <1>13, <1>14 DEF BridgeInv

LEMMA ReadKeeps == ASSUME TypeInv, BridgeInv, ReadLine PROVE BridgeInv'
<1>1. /\ pc = "read" /\ pc' = "cancel" /\ cur \in Procs
      /\ UNCHANGED <<servedBy, procs, working, inbox, fates, legs, landed, signed>>
  BY DEF ReadLine, TypeInv, watch, chain
<1>2. Calls' = Calls /\ seq' = seq /\ Procs' = Procs
  BY <1>1 DEF Calls, seq, Procs
<1>3. \A i : Quiet(i)' <=> Quiet(i)
  BY <1>1, <1>2 DEF Quiet
<1>4. OpenInv' /\ LegsInv' /\ PlaceInv'
  BY <1>1, <1>2 DEF BridgeInv, OpenInv, LegsInv, PlaceInv
<1>5. ToldInv'
  BY <1>1, <1>2, <1>3 DEF BridgeInv, ToldInv
<1>6. TruthInv'
  <2>1. ASSUME NEW l \in Line, Around(l)' PROVE Around(l) \/ True(l)'
    <3>1. CASE line' = Eof /\ UNCHANGED outbox
      <4>1. l = Eof \/ Around(l)
        BY <1>2, <2>1, <3>1 DEF Around
      <4> QED BY <4>1 DEF True, Eof
    <3>2. CASE outbox[cur] # <<>> /\ line' = Head(outbox[cur])
               /\ outbox' = [outbox EXCEPT ![cur] = Tail(@)]
      <4>1. outbox \in [Procs -> Seq(Line)]
        BY DEF TypeInv, TypeOK
      <4>2. /\ outbox'[cur] = Tail(outbox[cur])
            /\ \A p \in Procs : p # cur => outbox'[p] = outbox[p]
        BY <1>1, <3>2, <4>1
      <4>3. /\ In(Head(outbox[cur]), outbox[cur])
            /\ \A x : In(x, Tail(outbox[cur])) => In(x, outbox[cur])
        BY <1>1, <3>2, <4>1, InTail
      <4> QED BY <1>1, <1>2, <2>1, <3>2, <4>2, <4>3 DEF Around
    <3> QED BY <3>1, <3>2 DEF ReadLine
  <2> QED BY <1>1, <1>2, <1>3, <2>1, LinesStayTrue DEF BridgeInv
<1> QED BY <1>4, <1>5, <1>6 DEF BridgeInv

\* A request moves from the pipe to the executor.
LEMMA TakeKeeps ==
    ASSUME TypeInv, BridgeInv, NEW p \in Procs, TakeRequest(p) PROVE BridgeInv'
<1> DEFINE h == Head(inbox[p])
<1>1. /\ working[p] = 0 /\ inbox[p] # <<>>
      /\ working' = [working EXCEPT ![p] = h]
      /\ inbox' = [inbox EXCEPT ![p] = Tail(@)]
      /\ UNCHANGED <<pc, line, servedBy, procs, outbox, fates, legs, landed, signed>>
  BY DEF TakeRequest, caller, watch, chain
<1> HIDE DEF h
<1>2. Calls' = Calls /\ seq' = seq /\ Procs' = Procs
  BY <1>1 DEF Calls, seq, Procs
<1>3. /\ inbox \in [Procs -> Seq(Calls)] /\ working \in [Procs -> 0 .. MaxCalls]
  BY DEF TypeInv, TypeOK
<1>4. /\ inbox'[p] = Tail(inbox[p]) /\ working'[p] = h
      /\ \A q \in Procs : q # p => inbox'[q] = inbox[q] /\ working'[q] = working[q]
  BY <1>1, <1>3
<1>5. /\ In(h, inbox[p]) /\ h \in Calls /\ ~In(h, inbox'[p]) /\ Distinct(inbox'[p])
      /\ \A x : In(x, inbox'[p]) => In(x, inbox[p])
  <2>1. Distinct(inbox[p]) /\ inbox[p] \in Seq(Calls)
    BY <1>3 DEF BridgeInv, PlaceInv
  <2>2. h = Head(inbox[p])
    BY DEF h
  <2> QED BY <1>1, <1>4, <2>1, <2>2, InTail
<1>6. \A i \in Calls : Quiet(i) => Quiet(i)'
  BY <1>1, <1>2, <1>4, <1>5 DEF Quiet
<1>7. OpenInv' /\ LegsInv'
  BY <1>1, <1>2 DEF BridgeInv, OpenInv, LegsInv
<1>8. PlaceInv'
  <2>1. ASSUME NEW q \in Procs
        PROVE  /\ working'[q] # 0 => working'[q] \in Calls /\ servedBy[working'[q]] = q
               /\ Distinct(inbox'[q])
               /\ \A i \in Calls : In(i, inbox'[q]) =>
                    servedBy[i] = q /\ signed[i] = 0 /\ working'[q] # i
    <3>1. CASE q # p
      BY <1>4, <3>1 DEF BridgeInv, PlaceInv
    <3>2. CASE q = p
      BY <1>4, <1>5, <3>2 DEF BridgeInv, PlaceInv
    <3> QED BY <3>1, <3>2
  <2> QED BY <1>1, <1>2, <2>1 DEF PlaceInv
<1>9. TruthInv'
  <2>1. \A l : Around(l)' => Around(l)
    BY <1>1, <1>2 DEF Around
  <2> QED BY <1>1, <1>2, <1>6, <2>1, LinesStayTrue DEF BridgeInv
<1>10. ToldInv'
  BY <1>1, <1>2, <1>6, WhatWasToldStaysTrue DEF BridgeInv
<1> QED BY <1>7, <1>8, <1>9, <1>10 DEF BridgeInv

\* What an executor works on is not quiet, and in no pipe.
LEMMA WorkedOn ==
    ASSUME TypeInv, BridgeInv, NEW p \in Procs, working[p] # 0
    PROVE  /\ working[p] \in Calls /\ servedBy[working[p]] = p /\ p # 0
           /\ ~Quiet(working[p])
           /\ \A q \in Procs : ~In(working[p], inbox[q])
           /\ \A q \in Procs : q # p => working[q] # working[p]
<1>1. working[p] \in Calls /\ servedBy[working[p]] = p /\ p # 0
  BY BoundsAssumption DEF BridgeInv, PlaceInv, TypeInv
<1>2. \A q \in Procs : q # p => working[q] # working[p]
  BY <1>1 DEF BridgeInv, PlaceInv
<1>3. \A q \in Procs : ~In(working[p], inbox[q])
  BY <1>1 DEF BridgeInv, PlaceInv
<1> QED BY <1>1, <1>2, <1>3 DEF Quiet

LEMMA SignKeeps ==
    ASSUME TypeInv, BridgeInv, NEW p \in Procs, SignLeg(p) PROVE BridgeInv'
<1> DEFINE i == working[p]
<1>1. /\ i # 0 /\ signed[i] = landed[i] /\ signed[i] < legs[i]
      /\ signed' = [signed EXCEPT ![i] = @ + 1]
      /\ UNCHANGED <<pc, line, servedBy, procs, working, inbox, outbox, fates, legs, landed>>
  BY DEF SignLeg, caller, watch
<1>2. Calls' = Calls /\ seq' = seq /\ Procs' = Procs
  BY <1>1 DEF Calls, seq, Procs
<1>3. /\ i \in Calls /\ servedBy[i] = p /\ p # 0 /\ ~Quiet(i)
      /\ \A q \in Procs : ~In(i, inbox[q])
  BY <1>1, WorkedOn
<1> HIDE DEF i
<1>4. /\ signed \in [Calls -> 0 .. Legs] /\ landed \in [Calls -> 0 .. Legs]
      /\ legs \in [Calls -> 1 .. Legs] /\ Legs \in Nat
  BY LegsAssumption DEF TypeInv, TypeOK
<1>5. /\ signed'[i] = signed[i] + 1
      /\ \A j \in Calls : j # i => signed'[j] = signed[j]
  BY <1>1, <1>3, <1>4
<1>6. \A j \in Calls : Quiet(j) => Quiet(j)'
  BY <1>1, <1>2, <1>3, <1>5 DEF Quiet
<1>7. OpenInv'
  BY <1>1, <1>2 DEF BridgeInv, OpenInv
<1>8. LegsInv'
  <2>1. landed[i] <= signed[i] + 1 /\ signed[i] + 1 <= legs[i]
    BY <1>1, <1>3, <1>4
  <2> QED BY <1>1, <1>2, <1>3, <1>5, <2>1 DEF BridgeInv, LegsInv
<1>9. PlaceInv'
  BY <1>1, <1>2, <1>3, <1>5 DEF BridgeInv, PlaceInv
<1>10. TruthInv'
  <2>1. \A l : Around(l)' => Around(l)
    BY <1>1, <1>2 DEF Around
  <2> QED BY <1>1, <1>2, <1>6, <2>1, LinesStayTrue DEF BridgeInv
<1>11. ToldInv'
  BY <1>1, <1>2, <1>6, WhatWasToldStaysTrue DEF BridgeInv
<1> QED BY <1>7, <1>8, <1>9, <1>10, <1>11 DEF BridgeInv

\* With its answer an executor lets go of a call.
LEMMA AnswerKeeps ==
    ASSUME TypeInv, BridgeInv, NEW p \in Procs, Answer(p) PROVE BridgeInv'
<1> PICK i : i = working[p]
  OBVIOUS
<1> PICK a : a = [id |-> i, ok |-> landed[i] = legs[i]]
  OBVIOUS
<1>1. /\ i # 0 /\ signed[i] = landed[i]
      /\ outbox' = [outbox EXCEPT ![p] = Append(@, a)]
      /\ working' = [working EXCEPT ![p] = 0]
      /\ UNCHANGED <<pc, line, servedBy, procs, inbox, fates, legs, landed, signed>>
  BY DEF Answer, caller, watch, chain
<1>2. Calls' = Calls /\ seq' = seq /\ Procs' = Procs
  BY <1>1 DEF Calls, seq, Procs
<1>3. /\ i \in Calls /\ servedBy[i] = p /\ p # 0
      /\ \A q \in Procs : ~In(i, inbox[q])
      /\ \A q \in Procs : q # p => working[q] # i
  BY <1>1, WorkedOn
<1>4. a \in Line /\ a.id = i /\ (a.ok <=> landed[i] = legs[i])
  <2>1. i \in 0 .. MaxCalls
    BY <1>3 DEF TypeInv, TypeOK
  <2> QED BY <2>1 DEF Line
<1>5. /\ outbox \in [Procs -> Seq(Line)] /\ working \in [Procs -> 0 .. MaxCalls]
      /\ \A j \in Calls : j # 0
  <2>1. outbox \in [Procs -> Seq(Line)] /\ working \in [Procs -> 0 .. MaxCalls]
    BY DEF TypeInv, TypeOK
  <2>2. \A j \in Calls : j # 0
    BY BoundsAssumption DEF TypeInv
  <2> QED BY <2>1, <2>2
<1>6. /\ working'[p] = 0 /\ outbox'[p] = Append(outbox[p], a)
      /\ \A q \in Procs : q # p => working'[q] = working[q] /\ outbox'[q] = outbox[q]
  BY <1>1, <1>5
<1>7. \A j \in Calls : Quiet(j) => Quiet(j)'
  BY <1>1, <1>2, <1>5, <1>6 DEF Quiet
<1>8. Quiet(i)'
  BY <1>1, <1>2, <1>3, <1>5, <1>6 DEF Quiet
<1>9. OpenInv' /\ LegsInv'
  BY <1>1, <1>2 DEF BridgeInv, OpenInv, LegsInv
<1>10. PlaceInv'
  <2>1. ASSUME NEW q \in Procs
        PROVE  /\ working'[q] # 0 => working'[q] \in Calls /\ servedBy[working'[q]] = q
               /\ Distinct(inbox[q])
               /\ \A j \in Calls : In(j, inbox[q]) =>
                    servedBy[j] = q /\ signed[j] = 0 /\ working'[q] # j
    <3>1. CASE q # p
      BY <1>6, <3>1 DEF BridgeInv, PlaceInv
    <3>2. CASE q = p
      BY <1>5, <1>6, <3>2 DEF BridgeInv, PlaceInv
    <3> QED BY <3>1, <3>2
  <2> QED BY <1>1, <1>2, <2>1 DEF PlaceInv
<1>11. TruthInv'
  <2>1. \A x : In(x, outbox'[p]) => In(x, outbox[p]) \/ x = a
    BY <1>4, <1>5, <1>6, InAppended
  <2>2. \A l : Around(l)' => Around(l) \/ l = a
    BY <1>1, <1>2, <1>6, <2>1 DEF Around
  <2>3. ASSUME NEW l, l = a PROVE True(l)'
    BY <1>1, <1>2, <1>3, <1>4, <1>8, <2>3 DEF True
  <2> QED BY <1>1, <1>2, <1>7, <2>2, <2>3, LinesStayTrue DEF BridgeInv
<1>12. ToldInv'
  BY <1>1, <1>2, <1>7, WhatWasToldStaysTrue DEF BridgeInv
<1> QED BY <1>9, <1>10, <1>11, <1>12 DEF BridgeInv

\* A stray line answers no call.
LEMMA StrayKeeps ==
    ASSUME TypeInv, BridgeInv, NEW p \in Procs, PrintStray(p) PROVE BridgeInv'
<1>1. /\ outbox' = [outbox EXCEPT ![p] = Append(@, Stray)]
      /\ UNCHANGED <<pc, line, servedBy, procs, working, inbox, fates, legs, landed, signed>>
  BY DEF PrintStray, caller, watch, chain
<1>2. Calls' = Calls /\ seq' = seq /\ Procs' = Procs
  BY <1>1 DEF Calls, seq, Procs
<1>3. \A i : Quiet(i)' <=> Quiet(i)
  BY <1>1, <1>2 DEF Quiet
<1>4. OpenInv' /\ LegsInv' /\ PlaceInv'
  BY <1>1, <1>2 DEF BridgeInv, OpenInv, LegsInv, PlaceInv
<1>5. ToldInv'
  BY <1>1, <1>2, <1>3 DEF BridgeInv, ToldInv
<1>6. TruthInv'
  <2>0. outbox \in [Procs -> Seq(Line)]
    BY DEF TypeInv, TypeOK
  <2>6. 0 \in 0 .. MaxCalls
    BY BoundsAssumption
  <2>1. outbox \in [Procs -> Seq(Line)] /\ Stray \in Line
    BY <2>0, <2>6 DEF Stray, Line
  <2>2. /\ outbox'[p] = Append(outbox[p], Stray)
        /\ \A q \in Procs : q # p => outbox'[q] = outbox[q]
    BY <1>1, <2>1
  <2>3. \A x : In(x, outbox'[p]) => In(x, outbox[p]) \/ x = Stray
    BY <2>1, <2>2, InAppended
  <2>4. \A l : Around(l)' => Around(l) \/ l = Stray
    BY <1>1, <1>2, <2>2, <2>3 DEF Around
  <2>5. \A l : l = Stray => True(l)'
    BY DEF True, Stray
  <2> QED BY <1>1, <1>2, <1>3, <2>4, <2>5, LinesStayTrue DEF BridgeInv
<1> QED BY <1>4, <1>5, <1>6 DEF BridgeInv

\* A leg that lands or fails belongs to a call that is not quiet, and whose
\* caller was told nothing for certain.
LEMMA LegInFlight ==
    ASSUME TypeInv, BridgeInv, NEW i \in Calls, landed[i] < signed[i]
    PROVE  /\ ~Quiet(i) /\ landed[i] < legs[i] /\ signed[i] # 0 /\ servedBy[i] # 0
           /\ fates[i] \in {"open", "unknown"}
<1>1. landed[i] \in Nat /\ signed[i] \in Nat /\ legs[i] \in Nat /\ fates[i] \in Outcomes
  BY LegsAssumption DEF TypeInv, TypeOK, Outcomes
<1>2. signed[i] <= legs[i] /\ (servedBy[i] = 0 => signed[i] = 0)
  BY DEF BridgeInv, LegsInv
<1>3. ~Quiet(i) /\ landed[i] < legs[i] /\ signed[i] # 0 /\ servedBy[i] # 0
  BY <1>1, <1>2 DEF Quiet
<1>4. /\ fates[i] = "ok" => landed[i] = legs[i]
      /\ fates[i] = "refused" => Quiet(i)
      /\ fates[i] = "raised" => servedBy[i] = 0
  BY DEF BridgeInv, ToldInv
<1> QED BY <1>1, <1>3, <1>4 DEF Outcomes

LEMMA LegKeeps ==
    ASSUME TypeInv, BridgeInv, NEW i \in Calls, LegLands(i) \/ LegFails(i)
    PROVE  BridgeInv'
<1>1. /\ landed[i] < signed[i]
      /\ UNCHANGED <<pc, line, servedBy, procs, working, inbox, outbox, fates, legs>>
  BY DEF LegLands, LegFails, caller, watch, pipes
<1>2. Calls' = Calls /\ seq' = seq /\ Procs' = Procs
  BY <1>1 DEF Calls, seq, Procs
<1>3. /\ ~Quiet(i) /\ signed[i] # 0 /\ servedBy[i] # 0 /\ fates[i] \in {"open", "unknown"}
  BY <1>1, LegInFlight
<1>4. /\ signed \in [Calls -> 0 .. Legs] /\ landed \in [Calls -> 0 .. Legs] /\ Legs \in Nat
      /\ legs \in [Calls -> 1 .. Legs]
  BY LegsAssumption DEF TypeInv, TypeOK
<1>5. /\ \A j \in Calls : j # i => signed'[j] = signed[j] /\ landed'[j] = landed[j]
      /\ landed'[i] <= signed'[i] /\ signed'[i] <= signed[i]
  BY <1>1, <1>4 DEF LegLands, LegFails
<1>6. \A j \in Calls : Quiet(j) => Quiet(j)' /\ landed'[j] = landed[j]
  BY <1>1, <1>2, <1>3, <1>5 DEF Quiet
<1>7. OpenInv'
  BY <1>1, <1>2 DEF BridgeInv, OpenInv
<1>8. LegsInv'
  <2>1. signed[i] <= legs[i]
    BY DEF BridgeInv, LegsInv
  <2>2. signed'[i] \in Nat
    BY <1>4 DEF LegLands, LegFails
  <2>3. signed'[i] <= legs[i]
    BY <1>4, <1>5, <2>1, <2>2
  <2> QED BY <1>1, <1>2, <1>3, <1>5, <2>3 DEF BridgeInv, LegsInv
<1>9. PlaceInv'
  <2>1. \A p \in Procs : ~In(i, inbox[p])
    BY <1>3 DEF BridgeInv, PlaceInv
  <2> QED BY <1>1, <1>2, <1>5, <2>1 DEF BridgeInv, PlaceInv
<1>10. TruthInv'
  <2>1. \A l : Around(l)' => Around(l)
    BY <1>1, <1>2 DEF Around
  <2> QED BY <1>1, <1>2, <1>6, <2>1, LinesStayTrue DEF BridgeInv
<1>11. ToldInv'
  <2>1. \A j \in Calls : fates[j] = "ok" => landed'[j] = landed[j]
    BY <1>3, <1>5
  <2> QED BY <1>1, <1>2, <1>6, <2>1, WhatWasToldStaysTrue DEF BridgeInv
<1> QED BY <1>7, <1>8, <1>9, <1>10, <1>11 DEF BridgeInv

\* The three ways _send returns before it reads.
LEMMA EarlyReturnKeeps ==
    ASSUME TypeInv, BridgeInv,
           RefuseToSend \/ StartFails \/ (WriteRequest /\ pc' # "read")
    PROVE  BridgeInv'
<1>1. /\ pc \in {"poll", "write"}
      /\ UNCHANGED <<line, servedBy, procs, working, inbox, outbox, legs, landed, signed>>
  BY DEF RefuseToSend, StartFails, WriteRequest, watch, pipes, chain
<1>2. Procs' = Procs
  BY <1>1 DEF Procs
<1>3. PICK o \in {"refused", "raised"} : Return(o)
  BY DEF RefuseToSend, StartFails, WriteRequest
<1>4. seq \in Calls /\ servedBy[seq] = 0
  BY <1>1 DEF TypeInv, BridgeInv, LegsInv
<1>5. Quiet(seq)
  BY <1>4, UnsentIsQuiet DEF BridgeInv
<1> QED BY <1>1, <1>2, <1>3, <1>4, <1>5, ReturnKeeps DEF Outcomes

\* What JudgeLine returns is what the line said of the call under way.
LEMMA JudgeReturns ==
    ASSUME TypeInv, BridgeInv, JudgeLine
    PROVE  \E o \in {"ok", "refused", "unknown"} :
               /\ Return(o)
               /\ o = "ok" => landed[seq] = legs[seq]
               /\ o = "refused" => Quiet(seq)
<1>1. CASE Return("unknown")
  BY <1>1
<1>2. CASE Ours /\ Return(IF line.ok THEN "ok" ELSE "refused")
  <2>1. line \in Line /\ seq # 0
    BY <1>2, BoundsAssumption DEF JudgeLine, TypeInv, TypeOK
  <2>2. True(line)
    BY <2>1 DEF BridgeInv, TruthInv, Around
  <2>3. (line.ok => landed[seq] = legs[seq]) /\ (~line.ok => Quiet(seq))
    BY <1>2, <2>1, <2>2 DEF True, Ours
  <2>4. CASE line.ok
    BY <1>2, <2>3, <2>4
  <2>5. CASE ~line.ok
    BY <1>2, <2>3, <2>5
  <2> QED BY <2>4, <2>5
<1> QED BY <1>1, <1>2 DEF JudgeLine

LEMMA JudgeKeeps == ASSUME TypeInv, BridgeInv, JudgeLine PROVE BridgeInv'
<1>1. /\ pc = "judge" /\ line' = Eof
      /\ UNCHANGED <<servedBy, working, inbox, outbox, legs, landed, signed>>
  BY DEF JudgeLine, watch, pipes, chain
<1>2. Procs' = Procs
  <2>1. cur \in Procs
    BY DEF JudgeLine, TypeInv
  <2>2. Killed(procs[cur]) \in States
    BY <2>1, KilledState DEF TypeInv, TypeOK, States
  <2> QED BY <2>2, SameProcs DEF JudgeLine
<1>3. PICK o \in {"ok", "refused", "unknown"} :
          /\ Return(o)
          /\ o = "ok" => landed[seq] = legs[seq]
          /\ o = "refused" => Quiet(seq)
  BY JudgeReturns
<1> QED BY <1>1, <1>2, <1>3, ReturnKeeps DEF Outcomes

LEMMA BridgeStep == ASSUME TypeInv, BridgeInv, [Next]_vars PROVE BridgeInv'
<1>1. CASE Call
  BY <1>1, CallKeeps
<1>2. CASE RefuseToSend \/ StartFails \/ WriteRequest
  BY <1>2, EarlyReturnKeeps, WriteKeeps
<1>3. CASE PollExecutor
  <2>1. CASE Starts
    BY <2>1, StartKeeps
  <2>2. CASE ~Starts
    <3>1. /\ pc = "poll" /\ pc' = "write"
          /\ UNCHANGED <<line, servedBy, procs, working, inbox, outbox, fates, legs, landed, signed>>
      BY <1>3, <2>2 DEF Starts, PollExecutor, watch, pipes, chain
    <3> QED BY <3>1, BridgeFrame DEF Procs
  <2> QED BY <2>1, <2>2
<1>4. CASE ReadLine
  BY <1>4, ReadKeeps
<1>5. CASE CancelTimer
  <2>1. /\ pc = "cancel" /\ pc' = "judge"
        /\ UNCHANGED <<line, servedBy, procs, working, inbox, outbox, fates, legs, landed, signed>>
    BY <1>5 DEF CancelTimer, pipes, chain
  <2> QED BY <2>1, BridgeFrame DEF Procs
<1>6. CASE JudgeLine
  BY <1>6, JudgeKeeps
<1>7. CASE StopBridge
  <2>1. /\ pc = "idle" /\ pc' = "closed"
        /\ UNCHANGED <<line, servedBy, working, inbox, outbox, fates, legs, landed, signed>>
    BY <1>7 DEF StopBridge, watch, pipes, chain
  <2>2. Procs' = Procs
    <3>1. cur # 0 => cur \in Procs
      BY BoundsAssumption DEF TypeInv
    <3>2. cur # 0 => {"dead", Killed(procs[cur])} \subseteq States
      BY <3>1, KilledState DEF TypeInv, TypeOK, States
    <3> QED BY <1>7, <3>2, SameProcs DEF StopBridge
  <2> QED BY <2>1, <2>2, BridgeFrame
<1>8. CASE Timer
  <2>1. PICK i \in Calls : TimerDue(i) \/ TimerFlags(i) \/ TimerKills(i)
    BY <1>8 DEF Timer
  <2>2. UNCHANGED <<pc, line, servedBy, working, inbox, outbox, fates, legs, landed, signed>>
    BY <2>1 DEF TimerDue, TimerFlags, TimerKills, caller, pipes, chain
  <2>3. Procs' = Procs
    <3>1. servedBy[i] \in Procs
      BY <2>1 DEF TimerDue, TimerFlags, TimerKills, TypeInv
    <3>2. Killed(procs[servedBy[i]]) \in States
      BY <3>1, KilledState DEF TypeInv, TypeOK, States
    <3> QED BY <2>1, <3>2, SameProcs DEF TimerDue, TimerFlags, TimerKills
  <2> QED BY <2>2, <2>3, BridgeFrame
<1>9. CASE \E p \in Procs : DrainStderr(p) \/ Dies(p)
  <2>1. PICK p \in Procs : DrainStderr(p) \/ Dies(p)
    BY <1>9
  <2>2. UNCHANGED <<pc, line, servedBy, working, inbox, outbox, fates, legs, landed, signed>>
    BY <2>1 DEF DrainStderr, Dies, caller, watch, pipes, chain
  <2>3. Procs' = Procs
    BY <2>1, SameProcs DEF DrainStderr, Dies, States
  <2> QED BY <2>2, <2>3, BridgeFrame
<1>10. CASE Executor
  BY <1>10, TakeKeeps, SignKeeps, AnswerKeeps DEF Executor
<1>11. CASE \E p \in Procs : PrintStray(p)
  BY <1>11, StrayKeeps
<1>12. CASE Chain
  BY <1>12, LegKeeps DEF Chain
<1>13. CASE UNCHANGED vars
  <2>1. UNCHANGED <<pc, line, servedBy, procs, working, inbox, outbox, fates, legs, landed, signed>>
    BY <1>13 DEF vars, caller, watch, pipes, chain
  <2> QED BY <2>1, BridgeFrame DEF Procs
<1> QED
  BY <1>1, <1>2, <1>3, <1>4, <1>5, <1>6, <1>7, <1>8, <1>9, <1>10, <1>11, <1>12, <1>13
  DEF Next, Send

-----------------------------------------------------------------------------
(* The bridge implements SignedCall. *)

LEMMA ContractReturn ==
    ASSUME TypeInv, BridgeInv, NEW o \in Outcomes \ {"open"}, Return(o),
           pc \notin {"idle", "closed"}, UNCHANGED <<legs, landed>>,
           o = "ok" => landed[seq] = legs[seq],
           o = "raised" => landed[seq] = 0
    PROVE  Contract!Next
<1>1. seq \in DOMAIN fates /\ fates[seq] = "open"
  BY DEF TypeInv, BridgeInv, OpenInv, Calls
<1>2. Contract!Return(seq, o)
  BY <1>1 DEF Return, Contract!Return
<1> QED BY <1>1, <1>2 DEF Contract!Next, Contract!Outcomes, Outcomes

LEMMA ContractStep ==
    ASSUME TypeInv, BridgeInv, [Next]_vars PROVE [Contract!Next]_(Contract!vars)
<1>1. CASE Call
  <2>1. \A i \in DOMAIN fates : fates[i] # "open"
    BY <1>1 DEF Call, BridgeInv, OpenInv, Calls
  <2>2. Contract!Call
    BY <1>1, <2>1 DEF Call, Contract!Call
  <2> QED BY <2>2 DEF Contract!Next
<1>2. CASE RefuseToSend \/ StartFails \/ (WriteRequest /\ pc' # "read")
  <2>1. pc \in {"poll", "write"} /\ UNCHANGED <<legs, landed>>
    BY <1>2 DEF RefuseToSend, StartFails, WriteRequest, chain
  <2>2. PICK o \in {"refused", "raised"} : Return(o)
    BY <1>2 DEF RefuseToSend, StartFails, WriteRequest
  <2>3. seq \in Calls /\ servedBy[seq] = 0
    BY <2>1 DEF TypeInv, BridgeInv, LegsInv
  <2>4. landed[seq] = 0
    BY <2>3, UnsentIsQuiet DEF BridgeInv
  <2>5. Contract!Next
    BY <2>1, <2>2, <2>4, ContractReturn DEF Outcomes
  <2> QED BY <2>5
<1>3. CASE JudgeLine
  <2>1. pc = "judge" /\ UNCHANGED <<legs, landed>>
    BY <1>3 DEF JudgeLine, chain
  <2>2. Contract!Next
    BY <1>3, <2>1, JudgeReturns, ContractReturn DEF Outcomes
  <2> QED BY <2>2
<1>4. CASE \E i \in Calls : LegLands(i)
  <2>1. PICK i \in Calls : LegLands(i)
    BY <1>4
  <2>2. Contract!Land(i)
    BY <2>1, LegInFlight DEF LegLands, Contract!Land
  <2> QED BY <2>1, <2>2 DEF Contract!Next, Calls
<1>5. CASE UNCHANGED <<fates, legs, landed>>
  BY <1>5 DEF Contract!vars
<1>6. CASE PollExecutor \/ (WriteRequest /\ pc' = "read") \/ ReadLine \/ CancelTimer
  BY <1>5, <1>6 DEF PollExecutor, WriteRequest, Return, ReadLine, CancelTimer, chain
<1>7. CASE StopBridge \/ Timer \/ UNCHANGED vars
  BY <1>5, <1>7 DEF StopBridge, Timer, TimerDue, TimerFlags, TimerKills, vars, chain
<1>8. CASE \E p \in Procs : \/ TakeRequest(p) \/ SignLeg(p) \/ Answer(p)
                            \/ PrintStray(p) \/ DrainStderr(p) \/ Dies(p)
  BY <1>5, <1>8 DEF TakeRequest, SignLeg, Answer, PrintStray, DrainStderr, Dies, chain
<1>9. CASE \E i \in Calls : LegFails(i)
  BY <1>5, <1>9 DEF LegFails
<1> QED
  BY <1>1, <1>2, <1>3, <1>4, <1>6, <1>7, <1>8, <1>9 DEF Next, Send, Executor, Chain

\* The bridge implements SignedCall: what a caller is told is true of the
\* chain, whatever timers, kills, deaths, late and stray lines come in between
\* ("a late reply can never be misread as the answer to the NEXT request").
THEOREM BridgeKeepsContract == Spec => ContractSpec
<1>1. Init => Contract!Init
  BY DEF Init, Contract!Init
<1>2. TypeInv /\ BridgeInv /\ [Next]_vars => (TypeInv /\ BridgeInv)'
  BY TypeStep, BridgeStep
<1>3. TypeInv /\ BridgeInv /\ [Next]_vars => [Contract!Next]_(Contract!vars)
  BY ContractStep
<1> QED BY TypeInit, <1>1, <1>2, <1>3, PTL DEF Spec, ContractSpec, Contract!Spec
=============================================================================
