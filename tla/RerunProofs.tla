----------------------------- MODULE RerunProofs -----------------------------
(***************************************************************************)
(* Proofs about the log of a run and what is made of it.  For any bins,    *)
(* readings, starts and bounds, every alarm of verify_log.py has its cause *)
(* and each cause its alarm; and a replay agrees with a run of which the   *)
(* log tells all that happened.                                            *)
(***************************************************************************)
EXTENDS ActionAudit, OrderedProofs

-----------------------------------------------------------------------------
(* Keepers and events. *)

CallPcs == {"bid", "ask", "extra", "bundle", "withdraw", "swap"}
Routines == {"none", "deposit", "refresh", "stop", "derisk", "emergency"}
Acts == {"none", "halted", "sentinel", "no_state", "bad_state", "hold",
         "deposit", "refresh", "stop", "derisk", "emergency", "clean stop"}
CycleActs == Acts \ {"clean stop"}
BinNames == Bins \cup {0}

KeeperSet ==
    [pc : CallPcs \cup {"idle", "end"}, routine : Routines, act : Acts,
     primary : Ids \cup {NoId}, extras : Seq(Ids), todo : Seq(Ids),
     kept : Seq(Ids), failures : Nat, halted : BOOLEAN, bin : BinNames,
     base : BOOLEAN, center : BinNames, reqs : Nat]

\* The ids a keeper may name in an event.
Held(u) ==
    {u.primary} \cup ToSet(u.extras) \cup ToSet(u.todo) \cup ToSet(u.kept)

\* A refresh has a primary to replace, and a bin to place the new ladder at.
Body(u) ==
    /\ u \in KeeperSet
    /\ u.routine = "refresh" => u.primary # NoId /\ u.bin # 0

\* What a keeper is at a call.
Fits(u, pc) ==
    /\ pc \in {"bid", "ask"} => u.routine = "deposit" /\ u.bin # 0
    /\ pc = "extra" =>
         u.routine \in {"refresh", "stop", "derisk", "emergency"} /\ u.todo # <<>>
    /\ pc = "bundle" => u.routine = "refresh"
    /\ pc = "withdraw" =>
         u.routine \in {"stop", "derisk", "emergency"} /\ u.primary # NoId
    /\ pc = "swap" => u.routine \in {"derisk", "emergency"}
    /\ pc = "idle" => /\ u.routine = "none" /\ u.act = "none"
                      /\ u.todo = <<>> /\ u.kept = <<>>

Shape(u) == Body(u) /\ Fits(u, u.pc)

\* From n requests on, a keeper has made its next call or is through, in a cycle
\* that does act; it names no id but those of X.
Goes(n, act, v, X) ==
    /\ Shape(v) /\ Held(v) \subseteq X /\ v.act = act
    /\ \/ v.pc = "end" /\ v.reqs = n
       \/ Calling(v) /\ v.reqs = n + 1

LEMMA ThroughGoes ==
  ASSUME NEW u, NEW X, Body(u), Held(u) \subseteq X
  PROVE  Goes(u.reqs, u.act, Through(u), X)
<1>1. Through(u) \in KeeperSet
  BY DEF Through, Body, KeeperSet
<1>2. /\ Through(u).pc = "end" /\ Through(u).routine = u.routine
      /\ Through(u).act = u.act
      /\ Through(u).primary = u.primary /\ Through(u).bin = u.bin
      /\ Through(u).extras = u.extras /\ Through(u).todo = u.todo
      /\ Through(u).kept = u.kept /\ Through(u).reqs = u.reqs
  BY DEF Through, Body, KeeperSet
<1> HIDE DEF Through
<1>3. Shape(Through(u))
  BY <1>1, <1>2 DEF Shape, Body, Fits
<1> QED BY <1>2, <1>3 DEF Goes, Held

LEMMA AtGoes ==
  ASSUME NEW u, NEW X, Body(u), Held(u) \subseteq X,
         NEW pc \in CallPcs, Fits(u, pc)
  PROVE  Goes(u.reqs, u.act, At(u, pc), X)
<1>0. u.reqs \in Nat /\ u.reqs + 1 \in Nat
  BY DEF Body, KeeperSet
<1>1. At(u, pc) \in KeeperSet
  BY <1>0 DEF At, Body, KeeperSet
<1>2. /\ At(u, pc).pc = pc /\ At(u, pc).routine = u.routine
      /\ At(u, pc).act = u.act
      /\ At(u, pc).primary = u.primary /\ At(u, pc).bin = u.bin
      /\ At(u, pc).extras = u.extras /\ At(u, pc).todo = u.todo
      /\ At(u, pc).kept = u.kept /\ At(u, pc).reqs = u.reqs + 1
  BY DEF At, Body, KeeperSet
<1>3. Shape(At(u, pc))
  BY <1>1, <1>2 DEF Shape, Body, Fits
<1>4. Calling(At(u, pc))
  BY <1>2 DEF Calling, CallPcs
<1> QED BY <1>2, <1>3, <1>4 DEF Goes, Held

-----------------------------------------------------------------------------
(* Lists of ids. *)

LEMMA NoMembers == ToSet(<<>>) = {}
BY DEF ToSet

LEMMA MemberAt ==
  ASSUME NEW S, NEW s \in Seq(S), NEW j \in 1 .. Len(s)
  PROVE  s[j] \in ToSet(s) /\ s[j] \in S
<1>1. DOMAIN s = 1 .. Len(s) /\ Len(s) \in Nat
  BY LenProperties
<1> QED BY <1>1, ElementOfSeq DEF ToSet

LEMMA PlaceOf ==
  ASSUME NEW S, NEW s \in Seq(S), NEW x \in ToSet(s)
  PROVE  x \in S /\ \E j \in 1 .. Len(s) : x = s[j]
<1>1. DOMAIN s = 1 .. Len(s)
  BY LenProperties
<1>2. PICK j \in 1 .. Len(s) : x = s[j]
  BY <1>1 DEF ToSet
<1> QED BY <1>2, ElementOfSeq

LEMMA HeadMember ==
  ASSUME NEW S, NEW s \in Seq(S), s # <<>>
  PROVE  /\ Head(s) \in S /\ Head(s) \in ToSet(s)
         /\ Tail(s) \in Seq(S) /\ ToSet(Tail(s)) \subseteq ToSet(s)
         /\ Len(Tail(s)) = Len(s) - 1
<1>1. Len(s) \in Nat /\ Len(s) # 0
  BY LenProperties, EmptySeq
<1>2. Head(s) = s[1] /\ 1 \in 1 .. Len(s)
  BY <1>1, HeadTailProperties
<1>3. /\ Tail(s) \in Seq(S) /\ Len(Tail(s)) = Len(s) - 1
      /\ \A i \in 1 .. Len(Tail(s)) : Tail(s)[i] = s[i + 1]
  BY HeadTailProperties
<1>4. ASSUME NEW x \in ToSet(Tail(s)) PROVE x \in ToSet(s)
  <2>1. PICK j \in 1 .. Len(Tail(s)) : x = Tail(s)[j]
    BY <1>3, PlaceOf
  <2>2. x = s[j + 1] /\ j + 1 \in 1 .. Len(s)
    BY <1>1, <1>3, <2>1
  <2> QED BY <2>2, MemberAt
<1> QED BY <1>2, <1>3, <1>4, MemberAt

LEMMA AppendMembers ==
  ASSUME NEW S, NEW s \in Seq(S), NEW x \in S
  PROVE  Append(s, x) \in Seq(S) /\ ToSet(Append(s, x)) = ToSet(s) \cup {x}
<1> DEFINE t == Append(s, x)
<1>1. /\ t \in Seq(S) /\ Len(t) = Len(s) + 1 /\ Len(s) \in Nat
      /\ \A i \in 1 .. Len(s) : t[i] = s[i]
      /\ t[Len(s) + 1] = x
  BY AppendProperties, LenProperties
<1> HIDE DEF t
<1>2. ASSUME NEW y \in ToSet(t) PROVE y \in ToSet(s) \cup {x}
  <2>1. PICK j \in 1 .. Len(t) : y = t[j]
    BY <1>1, PlaceOf
  <2>2. CASE j = Len(s) + 1
    BY <1>1, <2>1, <2>2
  <2>3. CASE j # Len(s) + 1
    <3>1. j \in 1 .. Len(s) /\ y = s[j]
      BY <1>1, <2>1, <2>3
    <3> QED BY <3>1, MemberAt
  <2> QED BY <2>2, <2>3
<1>3. ASSUME NEW y \in ToSet(s) PROVE y \in ToSet(t)
  <2>1. PICK j \in 1 .. Len(s) : y = s[j]
    BY PlaceOf
  <2>2. j \in 1 .. Len(t) /\ y = t[j]
    BY <1>1, <2>1
  <2> QED BY <1>1, <2>2, MemberAt
<1>4. x \in ToSet(t)
  <2>1. Len(s) + 1 \in 1 .. Len(t)
    BY <1>1
  <2> QED BY <1>1, <2>1, MemberAt
<1>5. ToSet(t) = ToSet(s) \cup {x}
  BY <1>2, <1>3, <1>4
<1> QED BY <1>1, <1>5 DEF t

LEMMA OneMember == ASSUME NEW x PROVE ToSet(<<x>>) = {x}
<1>1. DOMAIN <<x>> = {1} /\ <<x>>[1] = x
  OBVIOUS
<1> QED BY <1>1 DEF ToSet

-----------------------------------------------------------------------------
(* Where the routines of a keeper lead. *)

LEMMA SwapGoes ==
  ASSUME NEW u, NEW X, Body(u), Held(u) \subseteq X,
         u.routine \in {"derisk", "emergency"}
  PROVE  Goes(u.reqs, u.act, Swap(u), X)
<1>1. Goes(u.reqs, u.act, Through(u), X)
  BY ThroughGoes
<1>2. Fits(u, "swap") /\ "swap" \in CallPcs
  BY DEF Fits, CallPcs
<1>3. Goes(u.reqs, u.act, At(u, "swap"), X)
  BY <1>2, AtGoes
<1> QED BY <1>1, <1>3 DEF Swap

Withdrawing == {"refresh", "stop", "derisk", "emergency"}

LEMMA AfterExtrasGoes ==
  ASSUME NEW u, NEW X, Body(u), Held(u) \subseteq X, u.routine \in Withdrawing
  PROVE  Goes(u.reqs, u.act, AfterExtras(u), X)
<1>1. Goes(u.reqs, u.act, Through(u), X)
  BY ThroughGoes
<1>2. u.routine = "refresh" => Goes(u.reqs, u.act, At(u, "bundle"), X)
  <2>1. u.routine = "refresh" => Fits(u, "bundle") /\ "bundle" \in CallPcs
    BY DEF Fits, CallPcs
  <2> QED BY <2>1, AtGoes
<1>3. u.routine \in {"derisk", "emergency"} => Goes(u.reqs, u.act, Swap(u), X)
  BY SwapGoes
<1>4. CASE u.routine = "refresh"
  BY <1>1, <1>2, <1>4 DEF AfterExtras
<1>5. CASE u.routine = "stop"
  BY <1>1, <1>5 DEF AfterExtras
<1>6. CASE u.routine \in {"derisk", "emergency"}
  BY <1>3, <1>6 DEF AfterExtras
<1> QED BY <1>4, <1>5, <1>6 DEF Withdrawing

LEMMA WithdrawExtrasGoes ==
  ASSUME NEW u, NEW X, Body(u), Held(u) \subseteq X, u.routine \in Withdrawing
  PROVE  Goes(u.reqs, u.act, WithdrawExtras(u), X)
<1> DEFINE v == [u EXCEPT !.todo = u.extras, !.kept = <<>>]
<1>0. <<>> \in Seq(Ids) /\ u.extras \in Seq(Ids)
  BY DEF Body, KeeperSet
<1>1. /\ v \in KeeperSet /\ v.todo = u.extras /\ v.kept = <<>>
      /\ v.routine = u.routine /\ v.primary = u.primary /\ v.bin = u.bin
      /\ v.extras = u.extras /\ v.reqs = u.reqs /\ v.act = u.act
  BY <1>0 DEF Body, KeeperSet
<1> HIDE DEF v
<1>2. Body(v) /\ Held(v) \subseteq X
  BY <1>1, NoMembers DEF Body, Held
<1>3. CASE u.extras = <<>>
  BY <1>3, AfterExtrasGoes DEF WithdrawExtras
<1>4. CASE u.extras # <<>>
  <2>1. Fits(v, "extra") /\ "extra" \in CallPcs
    BY <1>1, <1>4 DEF Fits, CallPcs, Withdrawing
  <2>2. Goes(u.reqs, u.act, At(v, "extra"), X)
    BY <1>1, <1>2, <2>1, AtGoes
  <2> QED BY <1>4, <2>2 DEF WithdrawExtras, v
<1> QED BY <1>3, <1>4

LEMMA StartGoes ==
  ASSUME NEW u \in KeeperSet, NEW X, Held(u) \subseteq X,
         NEW r \in Routines \ {"none"},
         r = "deposit" => u.bin # 0,
         r = "refresh" => u.primary # NoId /\ u.bin # 0
  PROVE  Goes(u.reqs, u.act, Start(u, r), X)
<1> DEFINE v == [u EXCEPT !.routine = r]
<1>1. /\ v \in KeeperSet /\ v.routine = r /\ v.primary = u.primary
      /\ v.bin = u.bin /\ v.extras = u.extras /\ v.todo = u.todo
      /\ v.kept = u.kept /\ v.reqs = u.reqs /\ v.act = u.act
  BY DEF KeeperSet
<1> HIDE DEF v
<1>2. Body(v) /\ Held(v) \subseteq X
  BY <1>1 DEF Body, Held
<1>3. CASE r = "deposit"
  <2>1. Fits(v, "bid") /\ "bid" \in CallPcs
    BY <1>1, <1>3 DEF Fits, CallPcs
  <2>2. Goes(u.reqs, u.act, At(v, "bid"), X)
    BY <1>1, <1>2, <2>1, AtGoes
  <2> QED BY <1>3, <2>2 DEF Start, v
<1>4. CASE r = "refresh"
  <2>1. Goes(u.reqs, u.act, WithdrawExtras(v), X)
    BY <1>1, <1>2, <1>4, WithdrawExtrasGoes DEF Withdrawing
  <2> QED BY <1>4, <2>1 DEF Start, v
<1>5. CASE r \in {"stop", "derisk", "emergency"}
  <2>1. Goes(u.reqs, u.act, Through(v), X)
    BY <1>1, <1>2, ThroughGoes
  <2>2. r # "stop" => Goes(u.reqs, u.act, Swap(v), X)
    BY <1>1, <1>2, <1>5, SwapGoes
  <2>3. v.primary # NoId => Goes(u.reqs, u.act, At(v, "withdraw"), X)
    <3>1. v.primary # NoId => Fits(v, "withdraw") /\ "withdraw" \in CallPcs
      BY <1>1, <1>5 DEF Fits, CallPcs
    <3> QED BY <1>1, <1>2, <3>1, AtGoes
  <2>4. CASE r = "stop"
    BY <2>1, <2>3, <2>4 DEF Start, v
  <2>5. CASE r \in {"derisk", "emergency"}
    BY <2>2, <2>3, <2>5 DEF Start, v
  <2> QED BY <1>5, <2>4, <2>5
<1> QED BY <1>3, <1>4, <1>5 DEF Routines

\* What the executor may answer to the call a keeper waits for.
AnswersTo(u) ==
    {a \in [ok : BOOLEAN, unknown : BOOLEAN, ids : Seq(Ids)] :
        /\ a.ok /\ u.pc \in {"bid", "ask"} => a.ids = Request(u).ids
        /\ a.ok /\ u.pc = "bundle" => a.ids = Tail(Request(u).ids)}

LEMMA CountedBody ==
  ASSUME NEW u, Body(u), NEW a, a.ok \in BOOLEAN, a.unknown \in BOOLEAN
  PROVE  /\ Body(Counted(u, a))
         /\ Counted(u, a).pc = u.pc /\ Counted(u, a).routine = u.routine
         /\ Counted(u, a).act = u.act /\ Counted(u, a).primary = u.primary
         /\ Counted(u, a).extras = u.extras /\ Counted(u, a).todo = u.todo
         /\ Counted(u, a).kept = u.kept /\ Counted(u, a).bin = u.bin
         /\ Counted(u, a).base = u.base /\ Counted(u, a).center = u.center
         /\ Counted(u, a).reqs = u.reqs
<1> DEFINE h == u.halted \/ a.unknown \/ u.failures + 1 >= MaxFailures
<1>1. u.failures \in Nat /\ u.failures + 1 \in Nat /\ h \in BOOLEAN
  BY DEF Body, KeeperSet
<1>2. CASE a.ok
  <2>1. Counted(u, a) = [u EXCEPT !.failures = 0]
    BY <1>2 DEF Counted
  <2>2. 0 \in Nat
    OBVIOUS
  <2> QED BY <2>1, <2>2 DEF Body, KeeperSet
<1>3. CASE ~a.ok
  <2>1. Counted(u, a) = [u EXCEPT !.failures = u.failures + 1, !.halted = h]
    BY <1>3 DEF Counted, Body, KeeperSet
  <2> HIDE DEF h
  <2> QED BY <1>1, <2>1 DEF Body, KeeperSet
<1> QED BY <1>2, <1>3

LEMMA NextExtraGoes ==
  ASSUME NEW u, NEW X, Body(u), Held(u) \subseteq X, Fits(u, "extra"),
         NEW a, a.ok \in BOOLEAN
  PROVE  Goes(u.reqs, u.act, NextExtra(u, a), X)
<1> DEFINE kept == IF a.ok THEN u.kept ELSE Append(u.kept, Head(u.todo))
<1>1. /\ u.todo \in Seq(Ids) /\ u.kept \in Seq(Ids) /\ u.todo # <<>>
      /\ u.routine \in Withdrawing
  BY DEF Body, KeeperSet, Fits, Withdrawing
<1>2. /\ Head(u.todo) \in Ids /\ Head(u.todo) \in ToSet(u.todo)
      /\ Tail(u.todo) \in Seq(Ids) /\ ToSet(Tail(u.todo)) \subseteq ToSet(u.todo)
      /\ Len(Tail(u.todo)) = Len(u.todo) - 1
  BY <1>1, HeadMember
<1>3. /\ Append(u.kept, Head(u.todo)) \in Seq(Ids)
      /\ ToSet(Append(u.kept, Head(u.todo))) = ToSet(u.kept) \cup {Head(u.todo)}
  BY <1>1, <1>2, AppendMembers
<1>4. kept \in Seq(Ids) /\ ToSet(kept) \subseteq X
  BY <1>1, <1>2, <1>3 DEF Held
<1> HIDE DEF kept
<1>5. CASE Len(u.todo) > 1
  <2> DEFINE v == [u EXCEPT !.todo = Tail(u.todo), !.kept = kept]
  <2>1. /\ v \in KeeperSet /\ v.todo = Tail(u.todo) /\ v.kept = kept
        /\ v.routine = u.routine /\ v.primary = u.primary /\ v.bin = u.bin
        /\ v.extras = u.extras /\ v.reqs = u.reqs /\ v.act = u.act
    BY <1>2, <1>4 DEF Body, KeeperSet
  <2> HIDE DEF v
  <2>2. Body(v) /\ Held(v) \subseteq X
    BY <1>2, <1>4, <2>1 DEF Body, Held
  <2>3a. Len(<<>>) = 0 /\ Len(u.todo) \in Nat
    BY <1>1, LenProperties
  <2>3. v.todo # <<>>
    BY <1>2, <1>5, <2>1, <2>3a
  <2>4. Fits(v, "extra") /\ "extra" \in CallPcs
    BY <1>1, <2>1, <2>3 DEF Fits, CallPcs, Withdrawing
  <2>5. Goes(u.reqs, u.act, At(v, "extra"), X)
    BY <2>1, <2>2, <2>4, AtGoes
  <2> QED BY <1>5, <2>5 DEF NextExtra, v, kept
<1>6. CASE ~(Len(u.todo) > 1)
  <2> DEFINE v == [u EXCEPT !.extras = kept, !.todo = <<>>, !.kept = <<>>]
  <2>0. <<>> \in Seq(Ids)
    OBVIOUS
  <2>1. /\ v \in KeeperSet /\ v.todo = <<>> /\ v.kept = <<>>
        /\ v.routine = u.routine /\ v.primary = u.primary /\ v.bin = u.bin
        /\ v.extras = kept /\ v.reqs = u.reqs /\ v.act = u.act
    BY <2>0, <1>4 DEF Body, KeeperSet
  <2> HIDE DEF v
  <2>2. Body(v) /\ Held(v) \subseteq X
    BY <1>4, <2>1, NoMembers DEF Body, Held
  <2>3. Goes(u.reqs, u.act, AfterExtras(v), X)
    BY <1>1, <2>1, <2>2, AfterExtrasGoes
  <2> QED BY <1>6, <2>3 DEF NextExtra, v, kept
<1> QED BY <1>5, <1>6

LEMMA LegsAreIds ==
  ASSUME NEW b \in BinNames, b # 0
  PROVE  Leg("bid", b) \in Ids /\ Leg("ask", b) \in Ids
BY DEF BinNames, Leg, Ids

LEMMA TwoMembers ==
  ASSUME NEW x, NEW y
  PROVE  /\ Tail(<<x, y>>) = <<y>> /\ <<x, y>>[1] = x
         /\ ToSet(<<x, y>>) = {x, y}
<1>1. DOMAIN <<x, y>> = {1, 2} /\ <<x, y>>[1] = x /\ <<x, y>>[2] = y
  OBVIOUS
<1>2. Tail(<<x, y>>) = <<y>>
  OBVIOUS
<1> QED BY <1>1, <1>2 DEF ToSet

LEMMA TailOfThree == ASSUME NEW x, NEW y, NEW z PROVE Tail(<<x, y, z>>) = <<y, z>>
OBVIOUS

\* What was opened is the leg, or the two of a bundle.
LEMMA AnswerIds ==
  ASSUME NEW u, Shape(u), NEW a \in AnswersTo(u), a.ok
  PROVE  /\ u.pc = "bid" => a.ids = <<Leg("bid", u.bin)>>
         /\ u.pc = "ask" => a.ids = <<Leg("ask", u.bin)>>
         /\ u.pc = "bundle" => a.ids = <<Leg("bid", u.bin), Leg("ask", u.bin)>>
BY TailOfThree DEF AnswersTo, Request

LEMMA AnsweredBid ==
  ASSUME NEW u, NEW X, Shape(u), Held(u) \subseteq X, u.pc = "bid",
         NEW a \in AnswersTo(u), ToSet(a.ids) \subseteq X
  PROVE  Goes(u.reqs, u.act, Answered(u, a), X)
<1> DEFINE c == Counted(u, a)
<1> DEFINE j == IF a.ok THEN [c EXCEPT !.primary = a.ids[1], !.center = c.bin]
                        ELSE c
<1>1. Body(c) /\ c.pc = "bid" /\ c.routine = "deposit" /\ c.bin = u.bin
      /\ c.bin # 0 /\ c.extras = u.extras /\ c.todo = u.todo /\ c.kept = u.kept
      /\ c.primary = u.primary /\ c.reqs = u.reqs /\ c.act = u.act
  BY CountedBody DEF AnswersTo, Shape, Fits
<1>2. Answered(u, a) = IF j.halted THEN Through(j) ELSE At(j, "ask")
  BY <1>1 DEF Answered
<1> HIDE DEF c
<1>3. c \in KeeperSet /\ c.bin \in BinNames
  BY <1>1 DEF Body, KeeperSet
<1>4. ASSUME a.ok PROVE a.ids[1] \in Ids /\ a.ids[1] \in X
  <2>1. Leg("bid", u.bin) \in Ids /\ a.ids = <<Leg("bid", u.bin)>>
    BY <1>1, <1>3, <1>4, AnswerIds, LegsAreIds
  <2> QED BY <2>1, OneMember
<1>5. /\ j \in KeeperSet /\ j.routine = "deposit" /\ j.bin # 0
      /\ j.extras = u.extras /\ j.todo = u.todo /\ j.kept = u.kept
      /\ j.primary \in X /\ j.reqs = u.reqs /\ j.act = u.act
  <2>1. CASE a.ok
    BY <1>1, <1>3, <1>4, <2>1 DEF KeeperSet
  <2>2. CASE ~a.ok
    BY <1>1, <1>3, <2>2 DEF Held
  <2> QED BY <2>1, <2>2
<1> HIDE DEF j
<1>6. Body(j) /\ Held(j) \subseteq X
  BY <1>5 DEF Body, Held
<1>7. Fits(j, "ask") /\ "ask" \in CallPcs
  BY <1>5 DEF Fits, CallPcs
<1>8. Goes(u.reqs, u.act, Through(j), X) /\ Goes(u.reqs, u.act, At(j, "ask"), X)
  BY <1>5, <1>6, <1>7, ThroughGoes, AtGoes
<1> QED BY <1>2, <1>8

LEMMA AnsweredAsk ==
  ASSUME NEW u, NEW X, Shape(u), Held(u) \subseteq X, u.pc = "ask",
         NEW a \in AnswersTo(u), ToSet(a.ids) \subseteq X
  PROVE  Goes(u.reqs, u.act, Answered(u, a), X)
<1> DEFINE c == Counted(u, a)
<1> DEFINE j == IF a.ok /\ ~Contains(Tracked(c), a.ids[1])
                THEN [c EXCEPT !.extras = Append(c.extras, a.ids[1])] ELSE c
<1>1. Body(c) /\ c.pc = "ask" /\ c.routine = "deposit" /\ c.bin = u.bin
      /\ c.bin # 0 /\ c.extras = u.extras /\ c.todo = u.todo /\ c.kept = u.kept
      /\ c.primary = u.primary /\ c.reqs = u.reqs /\ c.act = u.act
  BY CountedBody DEF AnswersTo, Shape, Fits
<1>2. Answered(u, a) = Through(j)
  BY <1>1 DEF Answered
<1> HIDE DEF c
<1>3. c \in KeeperSet /\ c.bin \in BinNames /\ c.extras \in Seq(Ids)
  BY <1>1 DEF Body, KeeperSet
<1>4. ASSUME a.ok PROVE a.ids[1] \in Ids /\ a.ids[1] \in X
  <2>1. Leg("ask", u.bin) \in Ids /\ a.ids = <<Leg("ask", u.bin)>>
    BY <1>1, <1>3, <1>4, AnswerIds, LegsAreIds
  <2> QED BY <2>1, OneMember
<1>5. Body(j) /\ Held(j) \subseteq X /\ j.reqs = u.reqs /\ j.act = u.act
  <2>1. CASE a.ok /\ ~Contains(Tracked(c), a.ids[1])
    <3> DEFINE more == Append(c.extras, a.ids[1])
    <3>1. more \in Seq(Ids) /\ ToSet(more) = ToSet(u.extras) \cup {a.ids[1]}
      BY <1>1, <1>3, <1>4, <2>1, AppendMembers
    <3> HIDE DEF more
    <3>2. j = [c EXCEPT !.extras = more]
      BY <2>1 DEF more
    <3> HIDE DEF j
    <3>3. /\ j \in KeeperSet /\ j.routine = "deposit" /\ j.extras = more
          /\ j.todo = u.todo /\ j.kept = u.kept /\ j.primary = u.primary
          /\ j.reqs = u.reqs /\ j.act = u.act
      BY <1>1, <1>3, <3>1, <3>2 DEF KeeperSet
    <3> QED BY <1>4, <2>1, <3>1, <3>3 DEF Body, Held
  <2>2. CASE ~(a.ok /\ ~Contains(Tracked(c), a.ids[1]))
    BY <1>1, <2>2 DEF Held
  <2> QED BY <2>1, <2>2
<1> HIDE DEF j
<1> QED BY <1>2, <1>5, ThroughGoes

LEMMA AnsweredBundle ==
  ASSUME NEW u, NEW X, Shape(u), Held(u) \subseteq X, u.pc = "bundle",
         NEW a \in AnswersTo(u), ToSet(a.ids) \subseteq X
  PROVE  Goes(u.reqs, u.act, Answered(u, a), X)
<1> DEFINE c == Counted(u, a)
<1> DEFINE j == IF a.ok
                THEN [c EXCEPT !.primary = a.ids[1], !.center = c.bin,
                               !.extras = Tail(a.ids)]
                ELSE c
<1>1. Body(c) /\ c.pc = "bundle" /\ c.routine = "refresh" /\ c.bin = u.bin
      /\ c.bin # 0 /\ c.extras = u.extras /\ c.todo = u.todo /\ c.kept = u.kept
      /\ c.primary = u.primary /\ c.reqs = u.reqs /\ c.act = u.act
  BY CountedBody DEF AnswersTo, Shape, Fits, Body
<1>2. Answered(u, a) = Through(j)
  BY <1>1 DEF Answered
<1> HIDE DEF c
<1>3. c \in KeeperSet /\ c.bin \in BinNames
  BY <1>1 DEF Body, KeeperSet
<1>4. Body(j) /\ Held(j) \subseteq X /\ j.reqs = u.reqs /\ j.act = u.act
  <2>1. CASE a.ok
    <3> DEFINE bid == Leg("bid", u.bin)
    <3> DEFINE ask == Leg("ask", u.bin)
    <3>1. bid \in Ids /\ ask \in Ids /\ a.ids = <<bid, ask>>
      BY <1>1, <1>3, <2>1, AnswerIds, LegsAreIds
    <3> HIDE DEF bid, ask
    <3>2. a.ids[1] = bid /\ Tail(a.ids) = <<ask>> /\ bid \in X /\ ask \in X
      BY <3>1, TwoMembers
    <3>3. <<ask>> \in Seq(Ids) /\ ToSet(<<ask>>) = {ask} /\ bid # NoId
      BY <3>1, OneMember, ProgramAssumption
    <3>4. j = [c EXCEPT !.primary = bid, !.center = c.bin, !.extras = <<ask>>]
      BY <2>1, <3>2
    <3> HIDE DEF j
    <3>5. /\ j \in KeeperSet /\ j.primary = bid /\ j.extras = <<ask>>
          /\ j.todo = u.todo /\ j.kept = u.kept /\ j.bin = c.bin
          /\ j.reqs = u.reqs /\ j.act = u.act
      BY <1>1, <1>3, <3>1, <3>3, <3>4 DEF KeeperSet
    <3> QED BY <1>1, <3>2, <3>3, <3>5 DEF Body, Held
  <2>2. CASE ~a.ok
    BY <1>1, <2>2 DEF Held
  <2> QED BY <2>1, <2>2
<1> HIDE DEF j
<1> QED BY <1>2, <1>4, ThroughGoes

LEMMA AnsweredWithdraw ==
  ASSUME NEW u, NEW X, Shape(u), Held(u) \subseteq X, u.pc = "withdraw",
         NoId \in X, NEW a \in AnswersTo(u)
  PROVE  Goes(u.reqs, u.act, Answered(u, a), X)
<1> DEFINE c == Counted(u, a)
<1> DEFINE j == [c EXCEPT !.primary = NoId]
<1>1. Body(c) /\ c.pc = "withdraw" /\ c.routine = u.routine
      /\ c.extras = u.extras /\ c.todo = u.todo /\ c.kept = u.kept
      /\ c.primary = u.primary /\ c.reqs = u.reqs /\ c.act = u.act
      /\ u.routine \in {"stop", "derisk", "emergency"}
  BY CountedBody DEF AnswersTo, Shape, Fits
<1>2. Answered(u, a) = IF a.ok \/ c.routine = "emergency"
                       THEN WithdrawExtras(j) ELSE Through(c)
  BY <1>1 DEF Answered
<1> HIDE DEF c
<1>3. /\ j \in KeeperSet /\ j.primary = NoId /\ j.routine = u.routine
      /\ j.extras = u.extras /\ j.todo = u.todo /\ j.kept = u.kept
      /\ j.reqs = u.reqs /\ j.act = u.act
  BY <1>1 DEF Body, KeeperSet
<1> HIDE DEF j
<1>4. Body(j) /\ Held(j) \subseteq X /\ Held(c) \subseteq X
  BY <1>1, <1>3 DEF Body, Held
<1>5. Goes(u.reqs, u.act, WithdrawExtras(j), X)
  BY <1>1, <1>3, <1>4, WithdrawExtrasGoes DEF Withdrawing
<1>6. Goes(u.reqs, u.act, Through(c), X)
  BY <1>1, <1>4, ThroughGoes
<1> QED BY <1>2, <1>5, <1>6

LEMMA AnsweredGoes ==
  ASSUME NEW u, NEW X, Shape(u), Held(u) \subseteq X, Calling(u),
         NoId \in X, NEW a \in AnswersTo(u), ToSet(a.ids) \subseteq X
  PROVE  Goes(u.reqs, u.act, Answered(u, a), X)
<1> DEFINE c == Counted(u, a)
<1>0. a.ok \in BOOLEAN /\ a.unknown \in BOOLEAN
  BY DEF AnswersTo
<1>1. /\ Body(c) /\ Held(c) = Held(u) /\ c.pc = u.pc /\ c.routine = u.routine
      /\ c.todo = u.todo /\ c.reqs = u.reqs /\ c.act = u.act
  BY <1>0, CountedBody DEF Shape, Held
<1> HIDE DEF c
<1>2. CASE u.pc = "extra"
  <2>1. Fits(c, "extra")
    BY <1>1, <1>2 DEF Shape, Fits
  <2>2. Goes(u.reqs, u.act, NextExtra(c, a), X)
    BY <1>0, <1>1, <2>1, NextExtraGoes
  <2> QED BY <1>1, <1>2, <2>2 DEF Answered, c
<1>3. CASE u.pc = "swap"
  <2>1. Goes(u.reqs, u.act, Through(c), X)
    BY <1>1, ThroughGoes
  <2> QED BY <1>1, <1>3, <2>1 DEF Answered, c
<1>4. CASE u.pc \in {"bid", "ask", "bundle", "withdraw"}
  BY <1>4, AnsweredBid, AnsweredAsk, AnsweredBundle, AnsweredWithdraw
<1>5. u.pc \in CallPcs
  BY DEF Calling, Shape, Body, KeeperSet
<1> QED BY <1>2, <1>3, <1>4, <1>5 DEF CallPcs

\* Where a cycle leads from an idle keeper.
LEMMA EndsGoes ==
  ASSUME NEW u, NEW X, Shape(u), Held(u) \subseteq X, NEW act \in Acts
  PROVE  Goes(u.reqs, act, Ends(u, act), X)
<1> DEFINE v == [u EXCEPT !.act = act, !.routine = "none"]
<1>0. "none" \in Routines
  BY DEF Routines
<1>1. /\ v \in KeeperSet /\ v.routine = "none" /\ v.primary = u.primary
      /\ v.extras = u.extras /\ v.todo = u.todo /\ v.kept = u.kept
      /\ v.reqs = u.reqs /\ v.act = act
  BY <1>0 DEF Shape, Body, KeeperSet
<1> HIDE DEF v
<1>2. Body(v) /\ Held(v) \subseteq X
  BY <1>1 DEF Body, Held
<1>3. Ends(u, act) = Through(v)
  BY DEF Ends, v
<1> QED BY <1>1, <1>2, <1>3, ThroughGoes

LEMMA ActedBody ==
  ASSUME NEW u \in KeeperSet, NEW act \in Acts
  PROVE  LET v == [u EXCEPT !.act = act]
         IN /\ v \in KeeperSet /\ v.primary = u.primary /\ v.bin = u.bin
            /\ Held(v) = Held(u) /\ v.reqs = u.reqs /\ v.act = act
BY DEF KeeperSet, Held

LEMMA KilledGoes ==
  ASSUME NEW u, NEW X, Shape(u), Held(u) \subseteq X
  PROVE  Goes(u.reqs, "sentinel", Killed(u), X)
<1> DEFINE v == [u EXCEPT !.act = "sentinel"]
<1>1. u \in KeeperSet /\ "sentinel" \in Acts /\ "emergency" \in Routines \ {"none"}
  BY DEF Shape, Body, Acts, Routines
<1>2. v \in KeeperSet /\ Held(v) \subseteq X /\ v.reqs = u.reqs
      /\ v.act = "sentinel"
  BY <1>1, ActedBody
<1> HIDE DEF v
<1>3. Goes(u.reqs, "sentinel", Start(v, "emergency"), X)
  BY <1>1, <1>2, StartGoes
<1> QED BY <1>3 DEF Killed, v

LEMMA CleanlyStoppedGoes ==
  ASSUME NEW u, NEW X, Shape(u), Held(u) \subseteq X
  PROVE  Goes(u.reqs, "clean stop", CleanlyStopped(u), X)
<1> DEFINE v == [u EXCEPT !.act = "clean stop"]
<1>1. u \in KeeperSet /\ "clean stop" \in Acts /\ "stop" \in Routines \ {"none"}
  BY DEF Shape, Body, Acts, Routines
<1>2. v \in KeeperSet /\ Held(v) \subseteq X /\ v.reqs = u.reqs
      /\ v.act = "clean stop"
  BY <1>1, ActedBody
<1> HIDE DEF v
<1>3. Goes(u.reqs, "clean stop", Start(v, "stop"), X)
  BY <1>1, <1>2, StartGoes
<1> QED BY <1>3 DEF CleanlyStopped, v

LEMMA ReadingType ==
  ASSUME NEW r \in Readings
  PROVE  /\ r.kind = "read" /\ r.verdict \in Verdicts /\ r.bin \in Bins
         /\ r.base \in BOOLEAN
         /\ r.bin \in BinNames /\ r.bin # 0
BY ProgramAssumption DEF BinNames

LEMMA SeenBody ==
  ASSUME NEW u, Shape(u), NEW r \in Readings
  PROVE  /\ Seen(u, r) \in KeeperSet /\ Seen(u, r).primary = u.primary
         /\ Seen(u, r).bin = r.bin /\ Seen(u, r).pc = u.pc
         /\ Seen(u, r).routine = u.routine /\ Seen(u, r).act = u.act
         /\ Seen(u, r).todo = u.todo /\ Seen(u, r).kept = u.kept
         /\ Seen(u, r).extras = u.extras
         /\ Held(Seen(u, r)) = Held(u) /\ Seen(u, r).reqs = u.reqs
         /\ Shape(Seen(u, r))
<1>1. /\ Seen(u, r) \in KeeperSet /\ Seen(u, r).primary = u.primary
      /\ Seen(u, r).bin = r.bin /\ Seen(u, r).pc = u.pc
      /\ Seen(u, r).routine = u.routine /\ Seen(u, r).act = u.act
      /\ Seen(u, r).todo = u.todo /\ Seen(u, r).kept = u.kept
      /\ Seen(u, r).extras = u.extras /\ Seen(u, r).reqs = u.reqs
  BY ReadingType DEF Shape, Body, KeeperSet, Seen
<1> HIDE DEF Seen
<1>2. Held(Seen(u, r)) = Held(u)
  BY <1>1 DEF Held
<1>3. r.bin # 0
  BY ReadingType
<1> QED BY <1>1, <1>2, <1>3 DEF Shape, Body, Fits

LEMMA PlannedGoes ==
  ASSUME NEW u, NEW X, Shape(u), Held(u) \subseteq X, NEW r \in Readings
  PROVE  \E act \in CycleActs : Goes(u.reqs, act, Planned(u, r), X)
<1> DEFINE j == Seen(u, r)
<1>1. /\ j \in KeeperSet /\ Held(j) \subseteq X /\ j.reqs = u.reqs /\ Shape(j)
      /\ j.bin # 0
  BY SeenBody, ReadingType
<1>2. r.verdict \in Verdicts
  BY ReadingType
<1> HIDE DEF j
<1>3. \A act \in Acts : Goes(u.reqs, act, Ends(j, act), X)
  BY <1>1, EndsGoes
<1>4. ASSUME NEW act \in Acts \cap Routines, act # "none",
             act = "refresh" => j.primary # NoId
      PROVE  Goes(u.reqs, act, Start([j EXCEPT !.act = act], act), X)
  <2> DEFINE v == [j EXCEPT !.act = act]
  <2>1. /\ v \in KeeperSet /\ v.primary = j.primary /\ v.bin = j.bin
        /\ Held(v) \subseteq X /\ v.reqs = u.reqs /\ v.act = act
    BY <1>1, ActedBody
  <2> HIDE DEF v
  <2>2. Goes(u.reqs, act, Start(v, act), X)
    BY <1>1, <1>4, <2>1, StartGoes
  <2> QED BY <2>2 DEF v
<1>5. /\ CycleActs \subseteq Acts /\ {"hold", "none"} \subseteq CycleActs
      /\ {"deposit", "refresh", "stop", "derisk", "emergency"}
            \subseteq CycleActs \cap Routines
  BY DEF CycleActs, Acts, Routines
<1>6. CASE r.verdict = "hold"
  BY <1>3, <1>5, <1>6 DEF Planned, j
<1>7. CASE r.verdict = "quote"
  <2>1. CASE j.primary = NoId
    BY <1>4, <1>5, <1>7, <2>1 DEF Planned, j
  <2>2. CASE j.primary # NoId /\ j.center # 0 /\ j.center # j.bin
    BY <1>4, <1>5, <1>7, <2>2 DEF Planned, j
  <2>3. CASE j.primary # NoId /\ ~(j.center # 0 /\ j.center # j.bin)
    BY <1>3, <1>5, <1>7, <2>3 DEF Planned, j
  <2> QED BY <2>1, <2>2, <2>3
<1>8. CASE r.verdict \in {"stop", "derisk", "emergency"}
  <2>1. Planned(u, r) = Start([j EXCEPT !.act = r.verdict], r.verdict)
    BY <1>8 DEF Planned, j
  <2>2. Goes(u.reqs, r.verdict, Start([j EXCEPT !.act = r.verdict], r.verdict), X)
    <3> DEFINE act == r.verdict
    <3>1. act \in Acts \cap Routines /\ act # "none" /\ act # "refresh"
      BY <1>5, <1>8
    <3> HIDE DEF act
    <3>2. Goes(u.reqs, act, Start([j EXCEPT !.act = act], act), X)
      BY <1>4, <3>1
    <3> QED BY <3>2 DEF act
  <2>3. r.verdict \in CycleActs
    BY <1>5, <1>8
  <2> QED BY <2>1, <2>2, <2>3
<1> QED BY <1>2, <1>6, <1>7, <1>8 DEF Verdicts

\* Between two cycles a keeper is at rest.
LEMMA RestedShape ==
  ASSUME NEW n, NEW act, NEW v, NEW X, Goes(n, act, v, X)
  PROVE  /\ Shape(Rested(v)) /\ Held(Rested(v)) \subseteq X
         /\ Rested(v).pc # "end" /\ Rested(v).reqs = v.reqs
         /\ Calling(Rested(v)) <=> Calling(v)
         /\ Calling(v) => Rested(v) = v
<1>1. CASE v.pc = "end"
  <2>1. Rested(v) = Left(v) /\ <<>> \in Seq(Ids) /\ "none" \in Routines \cap Acts
    BY <1>1 DEF Rested, Routines, Acts
  <2>2. v \in KeeperSet /\ Held(v) \subseteq X
    BY DEF Goes, Shape, Body
  <2>3. /\ Left(v) \in KeeperSet /\ Left(v).pc = "idle"
        /\ Left(v).routine = "none" /\ Left(v).act = "none"
        /\ Left(v).todo = <<>> /\ Left(v).kept = <<>>
        /\ Left(v).primary = v.primary /\ Left(v).extras = v.extras
        /\ Left(v).reqs = v.reqs
    BY <2>1, <2>2 DEF KeeperSet, Left
  <2> HIDE DEF Left
  <2>4. Shape(Left(v)) /\ Held(Left(v)) \subseteq X
    BY <2>2, <2>3, NoMembers DEF Shape, Body, Fits, Held
  <2> QED BY <1>1, <2>1, <2>3, <2>4 DEF Calling
<1>2. CASE v.pc # "end"
  BY <1>2 DEF Rested, Goes
<1> QED BY <1>1, <1>2

-----------------------------------------------------------------------------
(* Events and logs. *)

Types == {"run_started", "run_stopped", "action_request", "action_result",
          "decision", "sentinel_check", "state_observation",
          "position_observation", "position_created",
          "position_liquidity_added", "position_withdrawn", "position_closed"}
Verbs == {"deposit", "withdraw", "refresh", "swap"}
Reads == Readings \cup {NoReading("none"), NoReading("failed"), NoReading("malformed")}
EventSet ==
    [type : Types, what : Verbs \cup Acts \cup {""}, req : Nat,
     ids : Seq(Ids \cup {NoId}), bin : BinNames, ok : BOOLEAN,
     read : Reads]

LEMMA EventType ==
  ASSUME NEW type \in Types, NEW what \in Verbs \cup Acts \cup {""}
  PROVE  /\ Event(type, what) \in EventSet
         /\ Event(type, what).type = type /\ Event(type, what).what = what
         /\ Event(type, what).ids = <<>> /\ Event(type, what).req = 0
<1>1. <<>> \in Seq(Ids \cup {NoId})
  BY EmptySeq
<1>1a. 0 \in Nat
  OBVIOUS
<1>2. 0 \in BinNames
  BY DEF BinNames
<1>3. NoReading("none") \in Reads
  BY Zenon DEF Reads
<1> QED BY <1>1, <1>1a, <1>2, <1>3 DEF Event, EventSet

LEMMA StatefulType ==
  ASSUME NEW type \in Types, NEW id \in Ids \cup {NoId}
  PROVE  /\ Stateful(type, id) \in EventSet
         /\ Stateful(type, id).type = type /\ Stateful(type, id).ids = <<id>>
         /\ Stateful(type, id).ids[1] = id
<1> DEFINE e == Event(type, "")
<1>1. e \in EventSet /\ e.type = type
  BY EventType
<1> HIDE DEF e
<1>2. <<id>> \in Seq(Ids \cup {NoId})
  OBVIOUS
<1>3. Stateful(type, id) = [e EXCEPT !.ids = <<id>>]
  BY DEF Stateful, e
<1>4. [e EXCEPT !.ids = <<id>>] \in EventSet
  BY <1>1, <1>2 DEF EventSet
<1>5. [e EXCEPT !.ids = <<id>>].type = type /\ [e EXCEPT !.ids = <<id>>].ids = <<id>>
  BY <1>1 DEF EventSet
<1> QED BY <1>3, <1>4, <1>5

LEMMA ObservedType ==
  ASSUME NEW r \in Reads
  PROVE  /\ Observed(r) \in EventSet /\ Observed(r).type = "state_observation"
         /\ Observed(r).read = r
<1> DEFINE e == Event("state_observation", "")
<1>1. e \in EventSet /\ e.type = "state_observation"
  BY EventType DEF Types
<1> HIDE DEF e
<1>2. Observed(r) = [e EXCEPT !.read = r]
  BY DEF Observed, e
<1>3. [e EXCEPT !.read = r] \in EventSet
  BY <1>1 DEF EventSet
<1>4. [e EXCEPT !.read = r].type = e.type /\ [e EXCEPT !.read = r].read = r
  BY <1>1 DEF EventSet
<1> QED BY <1>1, <1>2, <1>3, <1>4

LEMMA CheckedType ==
  ASSUME NEW there \in BOOLEAN
  PROVE  /\ Checked(there) \in EventSet /\ Checked(there).type = "sentinel_check"
         /\ Checked(there).ok = there
<1> DEFINE e == Event("sentinel_check", "")
<1>1. e \in EventSet /\ e.type = "sentinel_check"
  <2>1. "sentinel_check" \in Types /\ "" \in Verbs \cup Acts \cup {""}
    BY DEF Types
  <2> QED BY <2>1, EventType
<1> HIDE DEF e
<1>2. Checked(there) = [e EXCEPT !.ok = there]
  BY DEF Checked, e
<1>3. [e EXCEPT !.ok = there] \in EventSet
  BY <1>1 DEF EventSet
<1>4. [e EXCEPT !.ok = there].type = e.type /\ [e EXCEPT !.ok = there].ok = there
  BY <1>1 DEF EventSet
<1> QED BY <1>1, <1>2, <1>3, <1>4

LEMMA RequestType ==
  ASSUME NEW u, Shape(u), Calling(u)
  PROVE  /\ Request(u).verb \in Verbs /\ Request(u).ids \in Seq(Ids \cup {NoId})
         /\ Request(u).verb = "deposit" <=> u.pc \in {"bid", "ask"}
<1> DEFINE bid == Leg("bid", u.bin)
<1> DEFINE ask == Leg("ask", u.bin)
<1>1. u.pc \in CallPcs /\ u.bin \in BinNames /\ u.primary \in Ids \cup {NoId}
      /\ u.todo \in Seq(Ids)
  BY DEF Calling, Shape, Body, KeeperSet, CallPcs
<1>2. u.bin # 0 => bid \in Ids \cup {NoId} /\ ask \in Ids \cup {NoId}
  BY <1>1, LegsAreIds
<1> HIDE DEF bid, ask
<1>3. CASE u.pc = "bid"
  <2>1. Request(u) = [verb |-> "deposit", ids |-> <<bid>>]
    BY <1>3 DEF Request, bid
  <2>2. <<bid>> \in Seq(Ids \cup {NoId})
    BY <1>2, <1>3 DEF Shape, Fits
  <2> QED BY <1>3, <2>1, <2>2 DEF Verbs
<1>4. CASE u.pc = "ask"
  <2>1. Request(u) = [verb |-> "deposit", ids |-> <<ask>>]
    BY <1>4 DEF Request, ask
  <2>2. <<ask>> \in Seq(Ids \cup {NoId})
    BY <1>2, <1>4 DEF Shape, Fits
  <2> QED BY <1>4, <2>1, <2>2 DEF Verbs
<1>5. CASE u.pc = "extra"
  <2>1. Request(u) = [verb |-> "withdraw", ids |-> <<Head(u.todo)>>]
    BY <1>5 DEF Request
  <2>2. Head(u.todo) \in Ids
    BY <1>1, <1>5, HeadMember DEF Shape, Fits
  <2>3. <<Head(u.todo)>> \in Seq(Ids \cup {NoId})
    BY <2>2
  <2> QED BY <1>5, <2>1, <2>3 DEF Verbs
<1>6. CASE u.pc = "bundle"
  <2>1. Request(u) = [verb |-> "refresh", ids |-> <<u.primary, bid, ask>>]
    BY <1>6 DEF Request, bid, ask
  <2>2. <<u.primary, bid, ask>> \in Seq(Ids \cup {NoId})
    BY <1>1, <1>2, <1>6 DEF Shape, Fits, Body
  <2> QED BY <1>6, <2>1, <2>2 DEF Verbs
<1>7. CASE u.pc = "withdraw"
  <2>1. Request(u) = [verb |-> "withdraw", ids |-> <<u.primary>>]
    BY <1>7 DEF Request
  <2>2. <<u.primary>> \in Seq(Ids \cup {NoId})
    BY <1>1
  <2> QED BY <1>7, <2>1, <2>2 DEF Verbs
<1>8. CASE u.pc = "swap"
  <2>1. Request(u) = [verb |-> "swap", ids |-> <<>>]
    BY <1>8 DEF Request
  <2>2. <<>> \in Seq(Ids \cup {NoId})
    OBVIOUS
  <2> QED BY <1>8, <2>1, <2>2 DEF Verbs
<1> QED BY <1>1, <1>3, <1>4, <1>5, <1>6, <1>7, <1>8 DEF CallPcs

\* The request of a call, as it is logged.
Logged(u) ==
    [Event("action_request", Request(u).verb) EXCEPT
        !.req = u.reqs, !.ids = Request(u).ids]

LEMMA LoggedType ==
  ASSUME NEW u, Shape(u), Calling(u)
  PROVE  /\ Logged(u) \in EventSet /\ Logged(u).type = "action_request"
         /\ Logged(u).what = Request(u).verb /\ Logged(u).req = u.reqs
         /\ Logged(u).ids = Request(u).ids
         /\ Written(u) = <<Logged(u)>>
<1> DEFINE verb == Request(u).verb
<1> DEFINE ids == Request(u).ids
<1> DEFINE e == Event("action_request", verb)
<1>1. verb \in Verbs /\ ids \in Seq(Ids \cup {NoId})
  BY RequestType
<1>2. u.reqs \in Nat
  BY DEF Shape, Body, KeeperSet
<1> HIDE DEF verb, ids
<1>3. "action_request" \in Types /\ verb \in Verbs \cup Acts \cup {""}
  BY <1>1 DEF Types
<1>4. e \in EventSet /\ e.type = "action_request" /\ e.what = verb
  BY <1>3, EventType
<1> HIDE DEF e
<1>5. Logged(u) = [e EXCEPT !.req = u.reqs, !.ids = ids]
  BY DEF Logged, e, verb, ids
<1>6. [e EXCEPT !.req = u.reqs, !.ids = ids] \in EventSet
  BY <1>1, <1>2, <1>4 DEF EventSet
<1>7. /\ Logged(u).type = e.type /\ Logged(u).what = e.what
      /\ Logged(u).req = u.reqs /\ Logged(u).ids = ids
  BY <1>4, <1>5 DEF EventSet
<1>8. Written(u) = <<Logged(u)>>
  BY DEF Written, Logged
<1> QED BY <1>4, <1>5, <1>6, <1>7, <1>8 DEF verb, ids

LEMMA DecidedType ==
  ASSUME NEW u, Shape(u)
  PROVE  /\ Decided(u) \in EventSet /\ Decided(u).type = "decision"
         /\ Decided(u).what = u.act
<1> DEFINE e == Event("decision", u.act)
<1> DEFINE b == IF u.act \in {"none", "deposit", "refresh"} THEN u.bin ELSE u.center
<1>1. u.act \in Acts /\ b \in BinNames
  BY DEF Shape, Body, KeeperSet
<1> HIDE DEF b
<1>2. "decision" \in Types /\ u.act \in Verbs \cup Acts \cup {""}
  BY <1>1 DEF Types
<1>3. e \in EventSet /\ e.type = "decision" /\ e.what = u.act
  BY <1>2, EventType
<1> HIDE DEF e
<1>4. Decided(u) = [e EXCEPT !.bin = b]
  BY DEF Decided, e, b
<1>5. [e EXCEPT !.bin = b] \in EventSet
  BY <1>1, <1>3 DEF EventSet
<1>6. [e EXCEPT !.bin = b].type = e.type /\ [e EXCEPT !.bin = b].what = e.what
  BY <1>3 DEF EventSet
<1> QED BY <1>3, <1>4, <1>5, <1>6

\* What is written of a keeper that makes no call.
LEMMA WrittenAtRest ==
  ASSUME NEW u, Shape(u), ~Calling(u)
  PROVE  \/ u.pc = "end" /\ u.act # "clean stop" /\ Written(u) = <<Decided(u)>>
         \/ ~(u.pc = "end" /\ u.act # "clean stop") /\ Written(u) = <<>>
BY DEF Written

LEMMA WrittenType ==
  ASSUME NEW u, Shape(u)
  PROVE  /\ Written(u) \in Seq(EventSet)
         /\ ~Calling(u) => \A n \in 1 .. Len(Written(u)) :
                              Written(u)[n].type = "decision"
<1>1. CASE Calling(u)
  <2>1. Written(u) = <<Logged(u)>> /\ Logged(u) \in EventSet
    BY <1>1, LoggedType
  <2>2. <<Logged(u)>> \in Seq(EventSet)
    BY <2>1
  <2> QED BY <1>1, <2>1, <2>2
<1>2. CASE ~Calling(u)
  <2>1. Decided(u) \in EventSet /\ Decided(u).type = "decision"
    BY DecidedType
  <2> DEFINE d == Decided(u)
  <2> HIDE DEF d
  <2>2. /\ <<d>> \in Seq(EventSet) /\ Len(<<d>>) = 1 /\ <<d>>[1].type = "decision"
    BY <2>1 DEF d
  <2>3. CASE Written(u) = <<d>>
    BY <1>2, <2>2, <2>3
  <2>4. CASE Written(u) = <<>>
    <3>1. <<>> \in Seq(EventSet) /\ Len(<<>>) = 0
      BY EmptySeq
    <3> QED BY <1>2, <2>4, <3>1
  <2> QED BY <1>2, <2>3, <2>4, WrittenAtRest DEF d
<1> QED BY <1>1, <1>2

LEMMA ResultType ==
  ASSUME NEW u, Shape(u), Calling(u), NEW a \in AnswersTo(u)
  PROVE  /\ Result(u, a) \in EventSet /\ Result(u, a).type = "action_result"
         /\ Result(u, a).what = Request(u).verb /\ Result(u, a).req = u.reqs
         /\ Result(u, a).ids = a.ids /\ Result(u, a).ok = a.ok
<1> DEFINE verb == Request(u).verb
<1> DEFINE e == Event("action_result", verb)
<1>1. verb \in Verbs
  BY RequestType
<1>2. u.reqs \in Nat
  BY DEF Shape, Body, KeeperSet
<1>2a. a.ok \in BOOLEAN /\ a.ids \in Seq(Ids)
  BY DEF AnswersTo
<1>2b. a.ids \in Seq(Ids \cup {NoId})
  BY <1>2a, SeqMonotonic
<1> HIDE DEF verb
<1>3. "action_result" \in Types /\ verb \in Verbs \cup Acts \cup {""}
  BY <1>1 DEF Types
<1>4. e \in EventSet /\ e.type = "action_result" /\ e.what = verb
  BY <1>3, EventType
<1> HIDE DEF e
<1>5. Result(u, a) = [e EXCEPT !.req = u.reqs, !.ids = a.ids, !.ok = a.ok]
  BY DEF Result, e, verb
<1>6. [e EXCEPT !.req = u.reqs, !.ids = a.ids, !.ok = a.ok] \in EventSet
  BY <1>2, <1>2a, <1>2b, <1>4 DEF EventSet
<1>7. /\ Result(u, a).type = e.type /\ Result(u, a).what = e.what
      /\ Result(u, a).req = u.reqs /\ Result(u, a).ids = a.ids
      /\ Result(u, a).ok = a.ok
  BY <1>4, <1>5 DEF EventSet
<1> QED BY <1>4, <1>5, <1>6, <1>7 DEF verb

-----------------------------------------------------------------------------
(* Requests and results. *)

RequestAt(lg) == Places(lg, "action_request")
ResultAt(lg) == Places(lg, "action_result")

\* The requests of a log are numbered 1 to n, each once; each result is of a
\* request, and the only one; open are the requests without a result.
RequestsNumbered(lg, n) ==
    /\ \A j \in RequestAt(lg) : lg[j].req \in 1 .. n
    /\ \A i, j \in RequestAt(lg) : lg[i].req = lg[j].req => i = j
ResultsOnce(lg) == \A i, j \in ResultAt(lg) : lg[i].req = lg[j].req => i = j
ResultsAsked(lg, open) ==
    \A i \in ResultAt(lg) :
        /\ lg[i].req \notin open
        /\ \E j \in RequestAt(lg) :
              lg[j].req = lg[i].req /\ lg[j].what = lg[i].what
RequestsSettled(lg, open) ==
    \A j \in RequestAt(lg) :
        lg[j].req \in open \/ \E i \in ResultAt(lg) : lg[i].req = lg[j].req
OpenAsked(lg, open) == \A o \in open : \E j \in RequestAt(lg) : lg[j].req = o
DepositsNamed(lg) ==
    \A i \in ResultAt(lg) :
        lg[i].ok /\ lg[i].what = "deposit" => lg[i].ids # <<>>

Numbered(lg, n, open) ==
    /\ RequestsNumbered(lg, n) /\ ResultsOnce(lg) /\ ResultsAsked(lg, open)
    /\ RequestsSettled(lg, open) /\ OpenAsked(lg, open) /\ DepositsNamed(lg)

LEMMA Joined ==
  ASSUME NEW S, NEW lg \in Seq(S), NEW more \in Seq(S)
  PROVE  /\ lg \o more \in Seq(S) /\ Len(lg) \in Nat /\ Len(more) \in Nat
         /\ Len(lg \o more) = Len(lg) + Len(more)
         /\ \A j \in 1 .. Len(lg) : (lg \o more)[j] = lg[j]
         /\ \A n \in 1 .. Len(more) : (lg \o more)[Len(lg) + n] = more[n]
<1>1. Len(lg) \in Nat /\ Len(more) \in Nat
  BY LenProperties
<1>2. lg \o more \in Seq(S) /\ Len(lg \o more) = Len(lg) + Len(more)
  BY JoinProperties
<1>3. ASSUME NEW j \in 1 .. Len(lg) PROVE (lg \o more)[j] = lg[j]
  BY JoinFirst
<1>4. ASSUME NEW n \in 1 .. Len(more)
      PROVE  (lg \o more)[Len(lg) + n] = more[n]
  BY JoinSecond
<1> QED BY <1>1, <1>2, <1>3, <1>4

LEMMA PlacesJoin ==
  ASSUME NEW S, NEW lg \in Seq(S), NEW more \in Seq(S), NEW type
  PROVE  Places(lg \o more, type) =
            Places(lg, type) \cup {Len(lg) + n : n \in Places(more, type)}
<1> DEFINE all == lg \o more
<1>1. /\ Len(lg) \in Nat /\ Len(more) \in Nat
      /\ Len(all) = Len(lg) + Len(more)
      /\ \A j \in 1 .. Len(lg) : all[j] = lg[j]
      /\ \A n \in 1 .. Len(more) : all[Len(lg) + n] = more[n]
  BY Joined
<1> HIDE DEF all
<1>2. ASSUME NEW j \in Places(all, type)
      PROVE  j \in Places(lg, type) \cup {Len(lg) + n : n \in Places(more, type)}
  <2>1. j \in 1 .. Len(all) /\ all[j].type = type
    BY DEF Places
  <2>2. CASE j <= Len(lg)
    <3>1. j \in 1 .. Len(lg) /\ lg[j].type = type
      BY <1>1, <2>1, <2>2
    <3> QED BY <3>1 DEF Places
  <2>3. CASE ~(j <= Len(lg))
    <3> DEFINE n == j - Len(lg)
    <3>1. n \in 1 .. Len(more) /\ j = Len(lg) + n
      BY <1>1, <2>1, <2>3
    <3> HIDE DEF n
    <3>2. more[n].type = type
      BY <1>1, <2>1, <3>1
    <3>3. n \in Places(more, type)
      BY <3>1, <3>2 DEF Places
    <3> QED BY <3>1, <3>3
  <2> QED BY <2>2, <2>3
<1>3. ASSUME NEW j \in Places(lg, type) PROVE j \in Places(all, type)
  <2>1. j \in 1 .. Len(lg) /\ lg[j].type = type
    BY DEF Places
  <2>2. j \in 1 .. Len(all) /\ all[j] = lg[j]
    BY <1>1, <2>1
  <2> QED BY <2>1, <2>2 DEF Places
<1>4. ASSUME NEW n \in Places(more, type) PROVE Len(lg) + n \in Places(all, type)
  <2>1. n \in 1 .. Len(more) /\ more[n].type = type
    BY DEF Places
  <2>2. Len(lg) + n \in 1 .. Len(all) /\ all[Len(lg) + n] = more[n]
    BY <1>1, <2>1
  <2> QED BY <2>1, <2>2 DEF Places
<1>5. Places(all, type) = Places(lg, type) \cup {Len(lg) + n : n \in Places(more, type)}
  BY <1>2, <1>3, <1>4
<1> QED BY <1>5 DEF all

\* Events of other types leave the places of one type.
Without(more, type) == \A n \in 1 .. Len(more) : more[n].type # type

LEMMA PlacesStay ==
  ASSUME NEW S, NEW lg \in Seq(S), NEW more \in Seq(S), NEW type,
         Without(more, type)
  PROVE  /\ Places(lg \o more, type) = Places(lg, type)
         /\ \A j \in Places(lg, type) : (lg \o more)[j] = lg[j]
<1>1. Places(more, type) = {}
  BY DEF Places, Without
<1>2. {Len(lg) + n : n \in Places(more, type)} = {}
  BY <1>1
<1>3. \A j \in 1 .. Len(lg) : (lg \o more)[j] = lg[j]
  BY Joined
<1> QED BY <1>2, <1>3, PlacesJoin DEF Places

LEMMA PlaceStays ==
  ASSUME NEW S, NEW lg \in Seq(S), NEW more \in Seq(S), NEW type,
         NEW j \in Places(lg, type)
  PROVE  (lg \o more)[j] = lg[j]
<1>1. j \in 1 .. Len(lg)
  BY DEF Places
<1> QED BY <1>1, JoinFirst

LEMMA PlacesOfOne ==
  ASSUME NEW S, NEW lg \in Seq(S), NEW e \in S, NEW type, e.type = type
  PROVE  /\ Places(lg \o <<e>>, type) = Places(lg, type) \cup {Len(lg) + 1}
         /\ Len(lg) + 1 \notin Places(lg, type)
         /\ (lg \o <<e>>)[Len(lg) + 1] = e
<1> DEFINE one == <<e>>
<1>1. one \in Seq(S) /\ Len(one) = 1 /\ one[1] = e
  OBVIOUS
<1> HIDE DEF one
<1>2. one \in Seq(S)
  BY <1>1
<1>3. Places(one, type) = {1}
  BY <1>1 DEF Places
<1>4. {Len(lg) + n : n \in Places(one, type)} = {Len(lg) + 1}
  BY <1>3
<1>5. /\ Len(lg) \in Nat
      /\ \A j \in 1 .. Len(lg) : (lg \o one)[j] = lg[j]
  BY <1>2, Joined
<1>6. (lg \o one)[Len(lg) + 1] = e
  <2>1. 1 \in 1 .. Len(one)
    BY <1>1
  <2>2. (lg \o one)[Len(lg) + 1] = one[1]
    BY <1>2, <2>1, JoinSecond
  <2> QED BY <1>1, <2>2
<1>7. Places(lg \o one, type) = Places(lg, type) \cup {Len(lg) + n : n \in Places(one, type)}
  BY <1>2, PlacesJoin
<1>8. Places(lg, type) \subseteq 1 .. Len(lg) /\ Len(lg) + 1 \notin 1 .. Len(lg)
  BY <1>5 DEF Places
<1> QED BY <1>4, <1>5, <1>6, <1>7, <1>8 DEF one

LEMMA NumberedQuiet ==
  ASSUME NEW lg \in Seq(EventSet), NEW more \in Seq(EventSet),
         Without(more, "action_request"), Without(more, "action_result"),
         NEW n, NEW open, Numbered(lg, n, open)
  PROVE  Numbered(lg \o more, n, open)
<1> DEFINE all == lg \o more
<1>1. /\ RequestAt(all) = RequestAt(lg)
      /\ \A j \in RequestAt(lg) : all[j] = lg[j]
  BY PlacesStay DEF RequestAt
<1>2. /\ ResultAt(all) = ResultAt(lg)
      /\ \A j \in ResultAt(lg) : all[j] = lg[j]
  BY PlacesStay DEF ResultAt
<1> HIDE DEF all
<1>3. RequestsNumbered(all, n)
  BY <1>1 DEF Numbered, RequestsNumbered
<1>4. ResultsOnce(all)
  BY <1>2 DEF Numbered, ResultsOnce
<1>5. ResultsAsked(all, open)
  BY <1>1, <1>2 DEF Numbered, ResultsAsked
<1>6. RequestsSettled(all, open)
  BY <1>1, <1>2 DEF Numbered, RequestsSettled
<1>7. OpenAsked(all, open)
  BY <1>1 DEF Numbered, OpenAsked
<1>8. DepositsNamed(all)
  BY <1>2 DEF Numbered, DepositsNamed
<1> QED BY <1>3, <1>4, <1>5, <1>6, <1>7, <1>8 DEF Numbered, all

LEMMA WithoutOne ==
  ASSUME NEW e, NEW type, e.type # type
  PROVE  Without(<<e>>, type)
BY DEF Without

LEMMA NumberedRequest ==
  ASSUME NEW lg \in Seq(EventSet), NEW e \in EventSet, NEW n \in Nat, NEW open,
         e.type = "action_request", e.req = n + 1, Numbered(lg, n, open)
  PROVE  Numbered(lg \o <<e>>, n + 1, open \cup {n + 1})
<1> DEFINE all == lg \o <<e>>
<1> DEFINE m == Len(lg) + 1
<1>1. /\ RequestAt(all) = RequestAt(lg) \cup {m} /\ m \notin RequestAt(lg)
      /\ \A j \in RequestAt(lg) : all[j] = lg[j]
      /\ all[m] = e
  <2> DEFINE type == "action_request"
  <2>1. e.type = type
    OBVIOUS
  <2> HIDE DEF type
  <2>2. /\ Places(all, type) = Places(lg, type) \cup {m} /\ m \notin Places(lg, type)
        /\ all[m] = e
    BY <2>1, PlacesOfOne
  <2>3. <<e>> \in Seq(EventSet)
    OBVIOUS
  <2>4. ASSUME NEW j \in Places(lg, type) PROVE all[j] = lg[j]
    BY <2>3, PlaceStays
  <2> QED BY <2>2, <2>4 DEF RequestAt, type
<1>2. /\ ResultAt(all) = ResultAt(lg)
      /\ \A j \in ResultAt(lg) : all[j] = lg[j]
  <2>1. Without(<<e>>, "action_result") /\ <<e>> \in Seq(EventSet)
    BY WithoutOne
  <2> QED BY <2>1, PlacesStay DEF ResultAt
<1> HIDE DEF all, m
<1>2a. \A j \in RequestAt(lg) : lg[j].req \in 1 .. n
  BY DEF Numbered, RequestsNumbered
<1>3. RequestsNumbered(all, n + 1)
  BY <1>1, <1>2a DEF Numbered, RequestsNumbered
<1>4. ResultsOnce(all)
  BY <1>2 DEF Numbered, ResultsOnce
<1>5. ResultsAsked(all, open \cup {n + 1})
  <2> SUFFICES ASSUME NEW i \in ResultAt(all)
               PROVE  /\ all[i].req \notin open \cup {n + 1}
                      /\ \E j \in RequestAt(all) :
                            all[j].req = all[i].req /\ all[j].what = all[i].what
    BY DEF ResultsAsked
  <2>1. i \in ResultAt(lg) /\ all[i] = lg[i]
    BY <1>2
  <2>2. PICK j \in RequestAt(lg) : lg[j].req = lg[i].req /\ lg[j].what = lg[i].what
    BY <2>1 DEF Numbered, ResultsAsked
  <2>3. lg[i].req \in 1 .. n /\ lg[i].req \notin open
    BY <1>2a, <2>1, <2>2 DEF Numbered, ResultsAsked
  <2> QED BY <1>1, <2>1, <2>2, <2>3
<1>6. RequestsSettled(all, open \cup {n + 1})
  BY <1>1, <1>2 DEF Numbered, RequestsSettled
<1>7. OpenAsked(all, open \cup {n + 1})
  BY <1>1 DEF Numbered, OpenAsked
<1>8. DepositsNamed(all)
  BY <1>2 DEF Numbered, DepositsNamed
<1> QED BY <1>3, <1>4, <1>5, <1>6, <1>7, <1>8 DEF Numbered, all

LEMMA NumberedResult ==
  ASSUME NEW lg \in Seq(EventSet), NEW e \in EventSet, NEW n, NEW open,
         e.type = "action_result", e.req \in open, Numbered(lg, n, open),
         \A j \in RequestAt(lg) : lg[j].req = e.req => lg[j].what = e.what,
         e.ok /\ e.what = "deposit" => e.ids # <<>>
  PROVE  Numbered(lg \o <<e>>, n, open \ {e.req})
<1> DEFINE all == lg \o <<e>>
<1> DEFINE m == Len(lg) + 1
<1>1. /\ ResultAt(all) = ResultAt(lg) \cup {m} /\ m \notin ResultAt(lg)
      /\ \A j \in ResultAt(lg) : all[j] = lg[j]
      /\ all[m] = e
  <2> DEFINE type == "action_result"
  <2>1. e.type = type
    OBVIOUS
  <2> HIDE DEF type
  <2>2. /\ Places(all, type) = Places(lg, type) \cup {m} /\ m \notin Places(lg, type)
        /\ all[m] = e
    BY <2>1, PlacesOfOne
  <2>3. <<e>> \in Seq(EventSet)
    OBVIOUS
  <2>4. ASSUME NEW j \in Places(lg, type) PROVE all[j] = lg[j]
    BY <2>3, PlaceStays
  <2> QED BY <2>2, <2>4 DEF ResultAt, type
<1>2. /\ RequestAt(all) = RequestAt(lg)
      /\ \A j \in RequestAt(lg) : all[j] = lg[j]
  <2>1. Without(<<e>>, "action_request") /\ <<e>> \in Seq(EventSet)
    BY WithoutOne
  <2> QED BY <2>1, PlacesStay DEF RequestAt
<1> HIDE DEF all, m
<1>2a. \A i \in ResultAt(lg) : lg[i].req \notin open
  BY DEF Numbered, ResultsAsked
<1>3. RequestsNumbered(all, n)
  BY <1>2 DEF Numbered, RequestsNumbered
<1>4. ResultsOnce(all)
  BY <1>1, <1>2a DEF Numbered, ResultsOnce
<1>5. ResultsAsked(all, open \ {e.req})
  <2> SUFFICES ASSUME NEW i \in ResultAt(all)
               PROVE  /\ all[i].req \notin open \ {e.req}
                      /\ \E j \in RequestAt(all) :
                            all[j].req = all[i].req /\ all[j].what = all[i].what
    BY DEF ResultsAsked
  <2>1. CASE i \in ResultAt(lg)
    <3>1. all[i] = lg[i] /\ lg[i].req \notin open
      BY <1>1, <1>2a, <2>1
    <3>2. PICK j \in RequestAt(lg) : lg[j].req = lg[i].req /\ lg[j].what = lg[i].what
      BY <2>1 DEF Numbered, ResultsAsked
    <3> QED BY <1>2, <3>1, <3>2
  <2>2. CASE i = m
    <3>1. PICK j \in RequestAt(lg) : lg[j].req = e.req
      BY DEF Numbered, OpenAsked
    <3>2. lg[j].what = e.what
      BY <3>1
    <3> QED BY <1>1, <1>2, <2>2, <3>1, <3>2
  <2> QED BY <1>1, <2>1, <2>2
<1>6. RequestsSettled(all, open \ {e.req})
  BY <1>1, <1>2 DEF Numbered, RequestsSettled
<1>7. OpenAsked(all, open \ {e.req})
  BY <1>2 DEF Numbered, OpenAsked
<1>8. DepositsNamed(all)
  BY <1>1 DEF Numbered, DepositsNamed
<1> QED BY <1>3, <1>4, <1>5, <1>6, <1>7, <1>8 DEF Numbered, all

-----------------------------------------------------------------------------
(* Positions and their origins. *)

Opening == {"position_created", "position_liquidity_added"}
Naming == {"position_observation", "position_withdrawn", "position_closed"}
Anchors == {"run_started", "run_stopped"}

\* The positions known before event j of a log, by configuration c.
Known(c, lg, j) ==
    {x \in Ids \cup {NoId} :
        \/ x = c.primary \/ x \in ToSet(c.extras)
        \/ \E i \in 1 .. j - 1 : lg[i].type \in Opening /\ x \in ToSet(lg[i].ids)}
KnownNow(c, lg) == Known(c, lg, Len(lg) + 1)

Originates(c, lg) ==
    \A j \in 1 .. Len(lg) :
        lg[j].type \in Naming => lg[j].ids[1] \in Known(c, lg, j)

\* The events name known positions.
Names(more, X) ==
    \A n \in 1 .. Len(more) : more[n].type \in Naming => more[n].ids[1] \in X

LEMMA OriginGrows ==
  ASSUME NEW c, NEW lg \in Seq(EventSet), NEW more \in Seq(EventSet),
         Originates(c, lg), Names(more, KnownNow(c, lg))
  PROVE  Originates(c, lg \o more)
<1> DEFINE all == lg \o more
<1>1. /\ Len(lg) \in Nat /\ Len(more) \in Nat
      /\ Len(all) = Len(lg) + Len(more)
      /\ \A j \in 1 .. Len(lg) : all[j] = lg[j]
      /\ \A n \in 1 .. Len(more) : all[Len(lg) + n] = more[n]
  BY Joined
<1> HIDE DEF all
<1>2. ASSUME NEW j \in 1 .. Len(all), all[j].type \in Naming
      PROVE  all[j].ids[1] \in Known(c, all, j)
  <2>1. CASE j <= Len(lg)
    <3>1. j \in 1 .. Len(lg) /\ all[j] = lg[j]
      BY <1>1, <2>1
    <3>2. lg[j].ids[1] \in Known(c, lg, j)
      BY <1>2, <3>1 DEF Originates
    <3>3. \A i \in 1 .. j - 1 : all[i] = lg[i]
      BY <1>1, <3>1
    <3> QED BY <3>1, <3>2, <3>3 DEF Known
  <2>2. CASE ~(j <= Len(lg))
    <3> DEFINE n == j - Len(lg)
    <3>1. n \in 1 .. Len(more) /\ j = Len(lg) + n
      BY <1>1, <2>2
    <3> HIDE DEF n
    <3>2. all[j] = more[n]
      BY <1>1, <3>1
    <3>3. more[n].ids[1] \in Known(c, lg, Len(lg) + 1)
      BY <1>2, <3>1, <3>2 DEF Names, KnownNow
    <3>4. \A i \in 1 .. Len(lg) : i \in 1 .. j - 1 /\ all[i] = lg[i]
      BY <1>1, <3>1
    <3>5. Len(lg) + 1 - 1 = Len(lg)
      BY <1>1
    <3>6. Known(c, lg, Len(lg) + 1) \subseteq Known(c, all, j)
      BY <3>4, <3>5 DEF Known
    <3> QED BY <3>2, <3>3, <3>6
  <2> QED BY <2>1, <2>2
<1> QED BY <1>2 DEF Originates, all

LEMMA KnownGrows ==
  ASSUME NEW c, NEW lg \in Seq(EventSet), NEW more \in Seq(EventSet)
  PROVE  KnownNow(c, lg) \subseteq KnownNow(c, lg \o more)
<1> DEFINE all == lg \o more
<1>1. /\ Len(lg) \in Nat /\ Len(more) \in Nat
      /\ Len(all) = Len(lg) + Len(more)
      /\ \A j \in 1 .. Len(lg) : all[j] = lg[j]
  BY Joined
<1> HIDE DEF all
<1>2. Len(lg) + 1 - 1 = Len(lg) /\ Len(all) + 1 - 1 = Len(all)
  BY <1>1
<1>3. \A i \in 1 .. Len(lg) : i \in 1 .. Len(all) /\ all[i] = lg[i]
  BY <1>1
<1>4. KnownNow(c, lg) \subseteq KnownNow(c, all)
  BY <1>2, <1>3 DEF KnownNow, Known
<1> QED BY <1>4 DEF all

LEMMA OpenedIsKnown ==
  ASSUME NEW c, NEW lg \in Seq(EventSet), NEW more \in Seq(EventSet),
         NEW n \in 1 .. Len(more), more[n].type \in Opening,
         NEW x \in ToSet(more[n].ids), x \in Ids \cup {NoId}
  PROVE  x \in KnownNow(c, lg \o more)
<1> DEFINE all == lg \o more
<1>1. /\ Len(lg) \in Nat /\ Len(more) \in Nat
      /\ Len(all) = Len(lg) + Len(more)
  BY Joined
<1>2. all[Len(lg) + n] = more[n]
  BY JoinSecond
<1> HIDE DEF all
<1>3. Len(lg) + n \in 1 .. Len(all) + 1 - 1
  BY <1>1
<1>4. x \in KnownNow(c, all)
  BY <1>2, <1>3 DEF KnownNow, Known
<1> QED BY <1>4 DEF all

-----------------------------------------------------------------------------
(* The log of a run, and what the verifier makes of it. *)

\* The request that is to be answered.
Awaited == IF Recording /\ Calling(k) THEN {k.reqs} ELSE {}

AuditInv ==
    /\ cfg \in Starts
    /\ log \in Seq(EventSet) /\ Shape(k) /\ k.pc # "end"
    /\ Held(k) \subseteq KnownNow(cfg, log) \cup {NoId}
    /\ lost \subseteq 1 .. k.reqs /\ Awaited \cap lost = {}
    /\ Numbered(log, k.reqs, lost \cup Awaited)
    /\ \A j \in RequestAt(log) :
          log[j].req \in Awaited => log[j].what = Request(k).verb
    /\ Originates(cfg, log)
    /\ Places(log, "run_started") = {1}
    /\ phase \in {"running", "stopping", "dead"} => Places(log, "run_stopped") = {}
    /\ phase = "stopped" =>
          \E n \in 1 .. Len(log) : Places(log, "run_stopped") = {n}

\* A log in which no call is under way.
Ready(lg) ==
    /\ lg \in Seq(EventSet) /\ Numbered(lg, k.reqs, lost) /\ Originates(cfg, lg)
    /\ Places(lg, "run_started") = {1} /\ Places(lg, "run_stopped") = {}

Quiet(more) ==
    \A n \in 1 .. Len(more) :
        more[n].type \notin {"action_request", "action_result",
                             "run_started", "run_stopped"}

LEMMA ReadyQuiet ==
  ASSUME NEW lg, Ready(lg), NEW more \in Seq(EventSet), Quiet(more),
         Names(more, KnownNow(cfg, lg))
  PROVE  Ready(lg \o more)
<1>0. lg \in Seq(EventSet)
  BY DEF Ready
<1>1. /\ Without(more, "action_request") /\ Without(more, "action_result")
      /\ Without(more, "run_started") /\ Without(more, "run_stopped")
  BY DEF Quiet, Without
<1>2. lg \o more \in Seq(EventSet)
  BY <1>0, Joined
<1>3. Numbered(lg \o more, k.reqs, lost)
  BY <1>0, <1>1, NumberedQuiet DEF Ready
<1>4. Originates(cfg, lg \o more)
  BY <1>0, OriginGrows DEF Ready
<1>5. /\ Places(lg \o more, "run_started") = Places(lg, "run_started")
      /\ Places(lg \o more, "run_stopped") = Places(lg, "run_stopped")
  BY <1>0, <1>1, PlacesStay
<1> QED BY <1>2, <1>3, <1>4, <1>5 DEF Ready

\* What the keeper comes to from a log without a call under way.
LEMMA ComesInv ==
  ASSUME cfg \in Starts, k.reqs \in Nat, lost \subseteq 1 .. k.reqs,
         NEW lg, Ready(lg), NEW act, NEW j,
         Goes(k.reqs, act, j, KnownNow(cfg, lg) \cup {NoId}),
         k' = Rested(j), log' = lg \o Written(j), cfg' = cfg, lost' = lost,
         phase' \in {"running", "stopping"}
  PROVE  AuditInv'
<1> DEFINE X == KnownNow(cfg, lg) \cup {NoId}
<1> DEFINE more == Written(j)
<1>1. /\ Shape(k') /\ Held(k') \subseteq X /\ k'.pc # "end" /\ k'.reqs = j.reqs
      /\ Calling(k') <=> Calling(j)
      /\ Calling(j) => k' = j
  BY RestedShape
<1>2. Shape(j) /\ (Calling(j) => j.reqs = k.reqs + 1)
      /\ (~Calling(j) => j.reqs = k.reqs)
  BY DEF Goes, Calling
<1>3. lg \in Seq(EventSet) /\ more \in Seq(EventSet)
  BY <1>2, WrittenType DEF Ready
<1>4. KnownNow(cfg, lg) \subseteq KnownNow(cfg, lg \o more)
  BY <1>3, KnownGrows
<1>5. lg \o more \in Seq(EventSet)
  BY <1>3, Joined
<1>6. CASE ~Calling(j)
  <2>1. \A n \in 1 .. Len(more) : more[n].type = "decision"
    BY <1>2, <1>6, WrittenType
  <2> HIDE DEF more
  <2>2. Quiet(more) /\ Names(more, KnownNow(cfg, lg))
    BY <2>1 DEF Quiet, Names, Naming
  <2>3. Ready(lg \o more)
    BY <1>3, <2>2, ReadyQuiet
  <2>4. Awaited' = {} /\ k'.reqs = k.reqs
    BY <1>1, <1>2, <1>6 DEF Awaited
  <2>5. log' = lg \o more
    BY DEF more
  <2>6. Numbered(log', k'.reqs, lost' \cup Awaited')
    BY <2>3, <2>4, <2>5 DEF Ready
  <2> QED BY <1>1, <1>4, <1>5, <2>3, <2>4, <2>5, <2>6 DEF AuditInv, Ready
<1>7. CASE Calling(j)
  <2> DEFINE e == Logged(j)
  <2>1. /\ e \in EventSet /\ e.type = "action_request"
        /\ e.what = Request(j).verb /\ e.req = k.reqs + 1 /\ more = <<e>>
    BY <1>2, <1>7, LoggedType
  <2> HIDE DEF e, more
  <2>2. Numbered(lg \o <<e>>, k.reqs + 1, lost \cup {k.reqs + 1})
    BY <1>3, <2>1, NumberedRequest DEF Ready
  <2>3. Awaited' = {k.reqs + 1} /\ k'.reqs = k.reqs + 1 /\ k' = j
    BY <1>1, <1>2, <1>7 DEF Awaited, Recording
  <2>4. log' = lg \o more
    BY DEF more
  <2>5. Numbered(log', k'.reqs, lost' \cup Awaited')
    BY <2>1, <2>2, <2>3, <2>4
  <2>6. Len(more) = 1 /\ more[1] = e
    BY <2>1
  <2>7. Names(more, KnownNow(cfg, lg))
    BY <2>1, <2>6 DEF Names, Naming
  <2>8. Originates(cfg, lg \o more)
    BY <1>3, <2>7, OriginGrows DEF Ready
  <2>9. Without(more, "run_started") /\ Without(more, "run_stopped")
    BY <2>1, <2>6 DEF Without
  <2>10. /\ Places(lg \o more, "run_started") = {1}
         /\ Places(lg \o more, "run_stopped") = {}
    BY <1>3, <2>9, PlacesStay DEF Ready
  <2>11. ASSUME NEW i \in RequestAt(log'), log'[i].req = k.reqs + 1
         PROVE  log'[i].what = Request(k').verb
    <3>1. Places(lg \o <<e>>, "action_request") =
              Places(lg, "action_request") \cup {Len(lg) + 1}
          /\ (lg \o <<e>>)[Len(lg) + 1] = e
      <4> DEFINE type == "action_request"
      <4>1. e.type = type
        BY <2>1
      <4> HIDE DEF type
      <4>2. /\ Places(lg \o <<e>>, type) = Places(lg, type) \cup {Len(lg) + 1}
            /\ (lg \o <<e>>)[Len(lg) + 1] = e
        <5>1. e \in EventSet /\ lg \in Seq(EventSet)
          BY <1>3, <2>1
        <5> QED BY <4>1, <5>1, PlacesOfOne
      <4> QED BY <4>2 DEF type
    <3>2. CASE i = Len(lg) + 1
      BY <2>1, <2>3, <2>4, <3>1, <3>2
    <3>3. CASE i \in RequestAt(lg)
      <4>1. lg[i].req \in 1 .. k.reqs
        BY <3>3 DEF Ready, Numbered, RequestsNumbered
      <4>2. log'[i] = lg[i]
        <5> DEFINE type == "action_request"
        <5>1. i \in Places(lg, type)
          BY <3>3 DEF RequestAt
        <5> HIDE DEF type
        <5>2. lg \in Seq(EventSet) /\ more \in Seq(EventSet)
          BY <1>3
        <5>3. (lg \o more)[i] = lg[i]
          BY <5>1, <5>2, PlaceStays
        <5> QED BY <2>4, <5>3
      <4>3. FALSE
        BY <2>11, <4>1, <4>2
      <4> QED BY <4>3
    <3> QED BY <2>1, <2>4, <3>1, <3>2, <3>3 DEF RequestAt
  <2>12. lost' \subseteq 1 .. k'.reqs /\ Awaited' \cap lost' = {}
    BY <2>3
  <2>13. \A i \in RequestAt(log') :
            log'[i].req \in Awaited' => log'[i].what = Request(k').verb
    BY <2>3, <2>11
  <2> QED BY <1>1, <1>4, <1>5, <2>4, <2>5, <2>8, <2>10, <2>12, <2>13
             DEF AuditInv
<1> QED BY <1>6, <1>7

LEMMA GoesMore ==
  ASSUME NEW n, NEW act, NEW v, NEW X, NEW Y, X \subseteq Y,
         Goes(n, act, v, X)
  PROVE  Goes(n, act, v, Y)
BY DEF Goes

LEMMA IdleReady ==
  ASSUME AuditInv, Recording, ~Calling(k)
  PROVE  /\ cfg \in Starts /\ k.reqs \in Nat /\ lost \subseteq 1 .. k.reqs
         /\ log \in Seq(EventSet) /\ Ready(log) /\ Shape(k)
         /\ Held(k) \subseteq KnownNow(cfg, log) \cup {NoId}
<1>1. Awaited = {} /\ lost \cup Awaited = lost
  BY DEF Awaited
<1>2. Numbered(log, k.reqs, lost)
  BY <1>1 DEF AuditInv
<1>3. k.reqs \in Nat
  BY DEF AuditInv, Shape, Body, KeeperSet
<1> QED BY <1>2, <1>3 DEF AuditInv, Ready, Recording

\* A cycle logs what it reads, and goes on to its first call or to its end.
LEMMA CycleInv ==
  ASSUME AuditInv, Recording, ~Calling(k), NEW more \in Seq(EventSet),
         Quiet(more), Names(more, KnownNow(cfg, log)), NEW act, NEW j,
         Goes(k.reqs, act, j, KnownNow(cfg, log) \cup {NoId}),
         k' = Rested(j), log' = log \o more \o Written(j), cfg' = cfg,
         lost' = lost, phase' \in {"running", "stopping"}
  PROVE  AuditInv'
<1> DEFINE lg == log \o more
<1>1. /\ cfg \in Starts /\ k.reqs \in Nat /\ lost \subseteq 1 .. k.reqs
      /\ log \in Seq(EventSet) /\ Ready(log)
  BY IdleReady
<1>2. Ready(lg) /\ KnownNow(cfg, log) \subseteq KnownNow(cfg, lg)
  BY <1>1, ReadyQuiet, KnownGrows
<1> HIDE DEF lg
<1>3. Goes(k.reqs, act, j, KnownNow(cfg, lg) \cup {NoId})
  <2>1. KnownNow(cfg, log) \cup {NoId} \subseteq KnownNow(cfg, lg) \cup {NoId}
    BY <1>2
  <2> QED BY <2>1, GoesMore
<1>4. log' = lg \o Written(j)
  BY DEF lg
<1> QED BY <1>1, <1>2, <1>3, <1>4, ComesInv

\* A cycle that raises logs what it read, and the keeper is idle.
LEMMA RaisedInv ==
  ASSUME AuditInv, Recording, ~Calling(k), NEW more \in Seq(EventSet),
         Quiet(more), Names(more, KnownNow(cfg, log)),
         Shape(k'), Held(k') \subseteq KnownNow(cfg, log) \cup {NoId},
         k'.pc = "idle", k'.reqs = k.reqs,
         log' = log \o more, cfg' = cfg,
         lost' = lost, phase' \in {"running", "stopping"}
  PROVE  AuditInv'
<1>1. /\ cfg \in Starts /\ k.reqs \in Nat /\ lost \subseteq 1 .. k.reqs
      /\ log \in Seq(EventSet) /\ Ready(log)
  BY IdleReady
<1>2. Ready(log \o more) /\ KnownNow(cfg, log) \subseteq KnownNow(cfg, log \o more)
  BY <1>1, ReadyQuiet, KnownGrows
<1>3. Awaited' = {} /\ lost' \cup Awaited' = lost
  BY DEF Awaited, Calling
<1>4. Numbered(log', k'.reqs, lost' \cup Awaited')
  BY <1>2, <1>3 DEF Ready
<1> QED BY <1>1, <1>2, <1>3, <1>4 DEF AuditInv, Ready

LEMMA QuietJoin ==
  ASSUME NEW s \in Seq(EventSet), NEW t \in Seq(EventSet), Quiet(s), Quiet(t)
  PROVE  Quiet(s \o t)
<1> DEFINE all == s \o t
<1>1. /\ Len(s) \in Nat /\ Len(t) \in Nat /\ Len(all) = Len(s) + Len(t)
      /\ \A j \in 1 .. Len(s) : all[j] = s[j]
      /\ \A n \in 1 .. Len(t) : all[Len(s) + n] = t[n]
  BY Joined
<1> HIDE DEF all
<1>2. ASSUME NEW j \in 1 .. Len(all)
      PROVE  (\E i \in 1 .. Len(s) : all[j] = s[i]) \/ (\E n \in 1 .. Len(t) : all[j] = t[n])
  <2>1. CASE j <= Len(s)
    <3>1. j \in 1 .. Len(s)
      BY <1>1, <2>1
    <3> QED BY <1>1, <3>1
  <2>2. CASE ~(j <= Len(s))
    <3>1. j - Len(s) \in 1 .. Len(t) /\ j = Len(s) + (j - Len(s))
      BY <1>1, <2>2
    <3> QED BY <1>1, <3>1
  <2> QED BY <2>1, <2>2
<1>3. Quiet(all)
  BY <1>2 DEF Quiet
<1> QED BY <1>3 DEF all

LEMMA NamesJoin ==
  ASSUME NEW s \in Seq(EventSet), NEW t \in Seq(EventSet), NEW X,
         Names(s, X), Names(t, X)
  PROVE  Names(s \o t, X)
<1> DEFINE all == s \o t
<1>1. /\ Len(s) \in Nat /\ Len(t) \in Nat /\ Len(all) = Len(s) + Len(t)
      /\ \A j \in 1 .. Len(s) : all[j] = s[j]
      /\ \A n \in 1 .. Len(t) : all[Len(s) + n] = t[n]
  BY Joined
<1> HIDE DEF all
<1>2. ASSUME NEW j \in 1 .. Len(all)
      PROVE  (\E i \in 1 .. Len(s) : all[j] = s[i]) \/ (\E n \in 1 .. Len(t) : all[j] = t[n])
  <2>1. CASE j <= Len(s)
    <3>1. j \in 1 .. Len(s)
      BY <1>1, <2>1
    <3> QED BY <1>1, <3>1
  <2>2. CASE ~(j <= Len(s))
    <3>1. j - Len(s) \in 1 .. Len(t) /\ j = Len(s) + (j - Len(s))
      BY <1>1, <2>2
    <3> QED BY <1>1, <3>1
  <2> QED BY <2>1, <2>2
<1>3. Names(all, X)
  BY <1>2 DEF Names
<1> QED BY <1>3 DEF all

\* Events one of which each cycle of a kind begins with.
LEMMA ChecksQuiet ==
  ASSUME NEW there \in BOOLEAN, NEW X
  PROVE  /\ Checks(there) \in Seq(EventSet) /\ Quiet(Checks(there))
         /\ Names(Checks(there), X)
<1> DEFINE e == Checked(there)
<1>1. e \in EventSet /\ e.type = "sentinel_check"
  BY CheckedType
<1> HIDE DEF e
<1>2. <<e>> \in Seq(EventSet) /\ Len(<<e>>) = 1 /\ <<e>>[1] = e
  BY <1>1
<1>3. Quiet(<<e>>) /\ Names(<<e>>, X)
  BY <1>1, <1>2 DEF Quiet, Names, Naming
<1>4. <<>> \in Seq(EventSet) /\ Len(<<>>) = 0
  BY EmptySeq
<1>5. Quiet(<<>>) /\ Names(<<>>, X)
  BY <1>4 DEF Quiet, Names
<1> QED BY <1>2, <1>3, <1>4, <1>5 DEF Checks, e

LEMMA ObservedQuiet ==
  ASSUME NEW r \in Reads, NEW X
  PROVE  /\ <<Observed(r)>> \in Seq(EventSet) /\ Quiet(<<Observed(r)>>)
         /\ Names(<<Observed(r)>>, X)
<1> DEFINE e == Observed(r)
<1>1. e \in EventSet /\ e.type = "state_observation"
  BY ObservedType
<1> HIDE DEF e
<1>2. <<e>> \in Seq(EventSet) /\ Len(<<e>>) = 1 /\ <<e>>[1] = e
  BY <1>1
<1>3. Quiet(<<e>>) /\ Names(<<e>>, X)
  BY <1>1, <1>2 DEF Quiet, Names, Naming
<1> QED BY <1>2, <1>3 DEF e

LEMMA TrackedType ==
  ASSUME NEW u, Shape(u)
  PROVE  /\ Tracked(u) \in Seq(Ids) /\ Len(Tracked(u)) \in Nat
         /\ ToSet(Tracked(u)) \subseteq Held(u) \cap Ids
<1>1. u.primary \in Ids \cup {NoId} /\ u.extras \in Seq(Ids)
  BY DEF Shape, Body, KeeperSet
<1> DEFINE first == IF u.primary = NoId THEN <<>> ELSE <<u.primary>>
<1>2. first \in Seq(Ids) /\ ToSet(first) \subseteq {u.primary}
  <2>1. CASE u.primary = NoId
    <3>1. <<>> \in Seq(Ids)
      BY EmptySeq
    <3> QED BY <2>1, <3>1, NoMembers
  <2>2. CASE u.primary # NoId
    <3>1. <<u.primary>> \in Seq(Ids)
      BY <1>1, <2>2
    <3> QED BY <2>2, <3>1, OneMember
  <2> QED BY <2>1, <2>2
<1> HIDE DEF first
<1>3. Tracked(u) = first \o u.extras
  BY DEF Tracked, first
<1> DEFINE all == first \o u.extras
<1>4. /\ all \in Seq(Ids) /\ Len(first) \in Nat /\ Len(u.extras) \in Nat
      /\ Len(all) = Len(first) + Len(u.extras)
      /\ \A j \in 1 .. Len(first) : all[j] = first[j]
      /\ \A n \in 1 .. Len(u.extras) : all[Len(first) + n] = u.extras[n]
  BY <1>1, <1>2, Joined
<1> HIDE DEF all
<1>5. ASSUME NEW x \in ToSet(all) PROVE x \in Held(u) \cap Ids
  <2>1. x \in Ids /\ \E j \in 1 .. Len(all) : x = all[j]
    BY <1>4, PlaceOf
  <2>2. PICK j \in 1 .. Len(all) : x = all[j]
    BY <2>1
  <2>3. CASE j <= Len(first)
    <3>1. j \in 1 .. Len(first) /\ x = first[j]
      BY <1>4, <2>2, <2>3
    <3>2. x \in ToSet(first)
      BY <1>2, <3>1, MemberAt
    <3> QED BY <1>2, <2>1, <3>2 DEF Held
  <2>4. CASE ~(j <= Len(first))
    <3> DEFINE n == j - Len(first)
    <3>1. n \in 1 .. Len(u.extras) /\ j = Len(first) + n
      BY <1>4, <2>4
    <3> HIDE DEF n
    <3>2. x = u.extras[n]
      BY <1>4, <2>2, <3>1
    <3>3. x \in ToSet(u.extras)
      BY <1>1, <3>1, <3>2, MemberAt
    <3> QED BY <2>1, <3>3 DEF Held
  <2> QED BY <2>3, <2>4
<1>6. Len(all) \in Nat
  BY <1>4
<1> QED BY <1>3, <1>4, <1>5, <1>6 DEF all

\* A keeper looks at the positions it holds.
LEMMA ObservationsQuiet ==
  ASSUME NEW u, Shape(u), NEW n \in 0 .. Len(Tracked(u)), NEW X,
         Held(u) \subseteq X \cup {NoId}
  PROVE  /\ Observations(u, n) \in Seq(EventSet) /\ Quiet(Observations(u, n))
         /\ Names(Observations(u, n), X)
<1>1. /\ Tracked(u) \in Seq(Ids) /\ Len(Tracked(u)) \in Nat
      /\ ToSet(Tracked(u)) \subseteq Held(u) \cap Ids
  BY TrackedType
<1>2. n \in Nat /\ \A j \in 1 .. n : j \in 1 .. Len(Tracked(u))
  BY <1>1
<1> DEFINE o == Observations(u, n)
<1> DEFINE type == "position_observation"
<1>3. type \in Types /\ type \in Naming
      /\ type \notin {"action_request", "action_result", "run_started", "run_stopped"}
  BY DEF Types, Naming
<1> HIDE DEF type
<1>4. ASSUME NEW j \in 1 .. n
      PROVE  /\ o[j] \in EventSet /\ o[j].type = type /\ o[j].ids[1] \in X
  <2>1. o[j] = Stateful(type, Tracked(u)[j])
    BY DEF Observations, type
  <2>2. Tracked(u)[j] \in Ids /\ Tracked(u)[j] \in X
    <3>1. j \in 1 .. Len(Tracked(u))
      BY <1>2
    <3>2. Tracked(u)[j] \in ToSet(Tracked(u))
      BY <1>1, <3>1, MemberAt
    <3> QED BY <1>1, <3>2, ProgramAssumption
  <2>3. Tracked(u)[j] \in Ids \cup {NoId}
    BY <2>2
  <2> QED BY <1>3, <2>1, <2>2, <2>3, StatefulType
<1>5. o = [j \in 1 .. n |-> o[j]]
  BY DEF Observations
<1> HIDE DEF o
<1>6. o \in [1 .. n -> EventSet]
  BY <1>4, <1>5
<1>7. o \in Seq(EventSet) /\ Len(o) = n
  BY <1>2, <1>6, SequenceOfLength
<1>8. Quiet(o) /\ Names(o, X)
  BY <1>3, <1>4, <1>7 DEF Quiet, Names
<1> QED BY <1>7, <1>8 DEF o

-----------------------------------------------------------------------------
(* What a result brings to the log. *)

\* Events that are quiet and name positions of X.
Plain(s, X) == s \in Seq(EventSet) /\ Quiet(s) /\ Names(s, X)

LEMMA PlainJoin ==
  ASSUME NEW s, NEW t, NEW X, Plain(s, X), Plain(t, X)
  PROVE  Plain(s \o t, X)
<1>1. s \in Seq(EventSet) /\ t \in Seq(EventSet)
  BY DEF Plain
<1>2. s \o t \in Seq(EventSet)
  BY <1>1, Joined
<1>3. Quiet(s \o t) /\ Names(s \o t, X)
  BY <1>1, QuietJoin, NamesJoin DEF Plain
<1> QED BY <1>2, <1>3 DEF Plain

LEMMA PlainNothing == ASSUME NEW X PROVE Plain(<<>>, X)
<1>1. <<>> \in Seq(EventSet) /\ Len(<<>>) = 0
  BY EmptySeq
<1> QED BY <1>1 DEF Plain, Quiet, Names

LEMMA PlainStateful ==
  ASSUME NEW type \in Naming \cup Opening, NEW id \in Ids, NEW X,
         type \in Naming => id \in X
  PROVE  /\ Plain(<<Stateful(type, id)>>, X)
         /\ Len(<<Stateful(type, id)>>) = 1
         /\ <<Stateful(type, id)>>[1].type = type
         /\ ToSet(<<Stateful(type, id)>>[1].ids) = {id}
<1> DEFINE e == Stateful(type, id)
<1>1. /\ type \in Types
      /\ type \notin {"action_request", "action_result", "run_started", "run_stopped"}
  BY DEF Types, Naming, Opening
<1>2. id \in Ids \cup {NoId}
  OBVIOUS
<1>3. e \in EventSet /\ e.type = type /\ e.ids = <<id>> /\ e.ids[1] = id
  BY <1>1, <1>2, StatefulType
<1> HIDE DEF e
<1>4. <<e>> \in Seq(EventSet) /\ Len(<<e>>) = 1 /\ <<e>>[1] = e
  BY <1>3
<1>5. Plain(<<e>>, X)
  BY <1>1, <1>3, <1>4 DEF Plain, Quiet, Names
<1> QED BY <1>3, <1>4, <1>5, OneMember DEF e

\* The positions a bundle opened.
LEMMA PlainOpened ==
  ASSUME NEW ids \in Seq(Ids), NEW X
  PROVE  LET o == [j \in 1 .. Len(ids) |->
                      Stateful("position_liquidity_added", ids[j])]
         IN /\ Plain(o, X) /\ Len(o) = Len(ids)
            /\ \A j \in 1 .. Len(ids) :
                  o[j].type \in Opening /\ ids[j] \in ToSet(o[j].ids)
<1> DEFINE type == "position_liquidity_added"
<1> DEFINE o == [j \in 1 .. Len(ids) |-> Stateful(type, ids[j])]
<1>1. Len(ids) \in Nat /\ \A j \in 1 .. Len(ids) : ids[j] \in Ids
  BY LenProperties, ElementOfSeq
<1>2. /\ type \in Types /\ type \notin Naming /\ type \in Opening
      /\ type \notin {"action_request", "action_result", "run_started", "run_stopped"}
  BY DEF Types, Naming, Opening
<1> HIDE DEF type
<1>3. ASSUME NEW j \in 1 .. Len(ids)
      PROVE  o[j] \in EventSet /\ o[j].type = type /\ o[j].ids = <<ids[j]>>
  <2>1. o[j] = Stateful(type, ids[j])
    OBVIOUS
  <2>2. ids[j] \in Ids \cup {NoId}
    BY <1>1
  <2> QED BY <1>2, <2>1, <2>2, StatefulType
<1>4. o = [j \in 1 .. Len(ids) |-> o[j]]
  OBVIOUS
<1> HIDE DEF o
<1>5. o \in [1 .. Len(ids) -> EventSet]
  BY <1>3, <1>4
<1>6. o \in Seq(EventSet) /\ Len(o) = Len(ids)
  BY <1>1, <1>5, SequenceOfLength
<1>7. Plain(o, X)
  BY <1>2, <1>3, <1>6 DEF Plain, Quiet, Names
<1>8. ASSUME NEW j \in 1 .. Len(ids)
      PROVE  o[j].type \in Opening /\ ids[j] \in ToSet(o[j].ids)
  BY <1>2, <1>3, OneMember
<1>9. Plain(o, X) /\ Len(o) = Len(ids)
      /\ \A j \in 1 .. Len(ids) : o[j].type \in Opening /\ ids[j] \in ToSet(o[j].ids)
  BY <1>6, <1>7, <1>8
<1> QED BY <1>9 DEF o, type

\* What is told opens every position the executor returned.
Opens(s, ids) ==
    \A x \in ToSet(ids) :
        \E n \in 1 .. Len(s) : s[n].type \in Opening /\ x \in ToSet(s[n].ids)

LEMMA ToldPlain ==
  ASSUME NEW u, Shape(u), Calling(u), NEW a \in AnswersTo(u), NEW X,
         Held(u) \subseteq X \cup {NoId}
  PROVE  /\ Plain(Told(u, a), X)
         /\ a.ok /\ u.pc \in {"bid", "ask", "bundle"} => Opens(Told(u, a), a.ids)
<1>1. /\ u.pc \in CallPcs /\ u.bin \in BinNames /\ u.primary \in Ids \cup {NoId}
      /\ u.todo \in Seq(Ids)
  BY DEF Calling, Shape, Body, KeeperSet, CallPcs
<1>2. CASE ~a.ok
  BY <1>2, PlainNothing DEF Told
<1>3. CASE a.ok /\ u.pc \in {"bid", "ask"}
  <2> DEFINE side == u.pc
  <2> DEFINE leg == Leg(u.pc, u.bin)
  <2> DEFINE type == IF u.pc = "bid" THEN "position_created"
                     ELSE "position_liquidity_added"
  <2>1. a.ids = <<leg>> /\ leg \in Ids
    BY <1>1, <1>3, AnswerIds, LegsAreIds DEF Shape, Fits
  <2>2. Told(u, a) = <<Stateful(type, a.ids[1])>>
    BY <1>3 DEF Told
  <2>3. type \in Naming \cup Opening /\ type \notin Naming /\ type \in Opening
    BY DEF Naming, Opening
  <2> HIDE DEF leg, type
  <2>4. Told(u, a) = <<Stateful(type, leg)>> /\ ToSet(a.ids) = {leg}
    BY <2>1, <2>2, OneMember
  <2>5. /\ Plain(<<Stateful(type, leg)>>, X) /\ Len(<<Stateful(type, leg)>>) = 1
        /\ <<Stateful(type, leg)>>[1].type = type
        /\ ToSet(<<Stateful(type, leg)>>[1].ids) = {leg}
    BY <2>1, <2>3, PlainStateful
  <2> QED BY <1>3, <2>3, <2>4, <2>5 DEF Opens
<1>4. CASE a.ok /\ u.pc = "extra"
  <2>1. Head(u.todo) \in Ids /\ Head(u.todo) \in ToSet(u.todo)
    BY <1>1, <1>4, HeadMember DEF Shape, Fits
  <2>2. Head(u.todo) \in X
    BY <2>1, ProgramAssumption DEF Held
  <2> DEFINE type == "position_withdrawn"
  <2>3. type \in Naming \cup Opening
    BY DEF Naming
  <2>4. Told(u, a) = <<Stateful(type, Head(u.todo))>>
    BY <1>4 DEF Told
  <2> HIDE DEF type
  <2>5. Plain(<<Stateful(type, Head(u.todo))>>, X)
    BY <2>1, <2>2, <2>3, PlainStateful
  <2> QED BY <1>4, <2>4, <2>5
<1>5. CASE a.ok /\ u.pc = "withdraw"
  <2>1. u.primary \in Ids /\ u.primary \in X
    BY <1>1, <1>5 DEF Shape, Fits, Held
  <2> DEFINE type == IF u.routine = "emergency" THEN "position_closed"
                     ELSE "position_withdrawn"
  <2>2. type \in Naming \cup Opening
    BY DEF Naming
  <2>3. Told(u, a) = <<Stateful(type, u.primary)>>
    BY <1>5 DEF Told
  <2> HIDE DEF type
  <2>4. Plain(<<Stateful(type, u.primary)>>, X)
    BY <2>1, <2>2, PlainStateful
  <2> QED BY <1>5, <2>3, <2>4
<1>6. CASE a.ok /\ u.pc = "bundle"
  <2>1. u.primary \in Ids /\ u.primary \in X
    BY <1>1, <1>6 DEF Shape, Body, Fits, Held
  <2> DEFINE type == "position_withdrawn"
  <2> DEFINE gone == <<Stateful(type, u.primary)>>
  <2> DEFINE o == [j \in 1 .. Len(a.ids) |->
                      Stateful("position_liquidity_added", a.ids[j])]
  <2>2. type \in Naming \cup Opening
    BY DEF Naming
  <2>3. Told(u, a) = gone \o o
    BY <1>6 DEF Told
  <2> HIDE DEF type
  <2>4. Plain(gone, X) /\ Len(gone) = 1
    BY <2>1, <2>2, PlainStateful
  <2>5. a.ids \in Seq(Ids)
    BY DEF AnswersTo
  <2>6. /\ Plain(o, X) /\ Len(o) = Len(a.ids)
        /\ \A j \in 1 .. Len(a.ids) :
              o[j].type \in Opening /\ a.ids[j] \in ToSet(o[j].ids)
    BY <2>5, PlainOpened
  <2> HIDE DEF gone, o
  <2>7. Plain(gone \o o, X)
    BY <2>4, <2>6, PlainJoin
  <2> DEFINE all == gone \o o
  <2>8a. gone \in Seq(EventSet) /\ o \in Seq(EventSet)
    BY <2>4, <2>6 DEF Plain
  <2>8. /\ Len(o) \in Nat /\ Len(all) = 1 + Len(o)
        /\ \A n \in 1 .. Len(o) : all[1 + n] = o[n]
    <3>1. /\ Len(o) \in Nat /\ Len(all) = Len(gone) + Len(o)
          /\ \A n \in 1 .. Len(o) : all[Len(gone) + n] = o[n]
      BY <2>8a, Joined
    <3> HIDE DEF all
    <3> QED BY <2>4, <3>1
  <2> HIDE DEF all
  <2>9. ASSUME NEW x \in ToSet(a.ids)
        PROVE  \E n \in 1 .. Len(all) :
                  all[n].type \in Opening /\ x \in ToSet(all[n].ids)
    <3>1. PICK j \in 1 .. Len(a.ids) : x = a.ids[j]
      BY <2>5, PlaceOf
    <3>2. 1 + j \in 1 .. Len(all) /\ all[1 + j] = o[j]
      BY <2>6, <2>8, <3>1
    <3> QED BY <2>6, <3>1, <3>2
  <2>10. Opens(all, a.ids)
    BY <2>9 DEF Opens
  <2> QED BY <2>3, <2>7, <2>10 DEF all
<1>7. CASE a.ok /\ u.pc = "swap"
  BY <1>7, PlainNothing DEF Told
<1>8. a.ok \in BOOLEAN
  BY DEF AnswersTo
<1> QED BY <1>1, <1>2, <1>3, <1>4, <1>5, <1>6, <1>7, <1>8 DEF CallPcs

\* An answer is one of those a call may get, and names what was opened.
LEMMA AnswersType ==
  ASSUME NEW a \in Answers, Shape(k), Calling(k)
  PROVE  /\ a \in AnswersTo(k)
         /\ a.ids # <<>> => a.ok /\ k.pc \in {"bid", "ask", "bundle"}
<1> DEFINE ids == CASE k.pc \in {"bid", "ask"} -> Request(k).ids
                    [] k.pc = "bundle" -> Tail(Request(k).ids)
                    [] OTHER -> <<>>
<1>1. \/ a = [ok |-> TRUE, unknown |-> FALSE, ids |-> ids]
      \/ a \in [ok : {FALSE}, unknown : BOOLEAN, ids : {<<>>}]
  BY DEF Answers
<1>2. k.bin \in BinNames
  BY DEF Shape, Body, KeeperSet
<1>3. /\ k.pc \in {"bid", "ask"} => ids = Request(k).ids
      /\ k.pc = "bundle" => ids = Tail(Request(k).ids)
      /\ k.pc \notin {"bid", "ask", "bundle"} => ids = <<>>
  OBVIOUS
<1>4. ids \in Seq(Ids)
  <2> DEFINE bid == Leg("bid", k.bin)
  <2> DEFINE ask == Leg("ask", k.bin)
  <2>1. k.bin # 0 => bid \in Ids /\ ask \in Ids
    BY <1>2, LegsAreIds
  <2>2. CASE k.pc = "bid"
    <3>1. ids = <<bid>> /\ bid \in Ids
      BY <2>1, <2>2 DEF Request, Shape, Fits
    <3> HIDE DEF ids, bid
    <3> QED BY <3>1
  <2>3. CASE k.pc = "ask"
    <3>1. ids = <<ask>> /\ ask \in Ids
      BY <2>1, <2>3 DEF Request, Shape, Fits
    <3> HIDE DEF ids, ask
    <3> QED BY <3>1
  <2>4. CASE k.pc = "bundle"
    <3>1. ids = <<bid, ask>> /\ bid \in Ids /\ ask \in Ids
      BY <2>1, <2>4, TailOfThree DEF Request, Shape, Body, Fits
    <3> HIDE DEF ids, bid, ask
    <3> QED BY <3>1
  <2>5. CASE k.pc \notin {"bid", "ask", "bundle"}
    <3>1. ids = <<>>
      BY <1>3, <2>5
    <3> HIDE DEF ids
    <3> QED BY <3>1, EmptySeq
  <2> QED BY <2>2, <2>3, <2>4, <2>5
<1> HIDE DEF ids
<1>5. CASE a = [ok |-> TRUE, unknown |-> FALSE, ids |-> ids]
  BY <1>3, <1>4, <1>5 DEF AnswersTo
<1>6. CASE a \in [ok : {FALSE}, unknown : BOOLEAN, ids : {<<>>}]
  <2>1. <<>> \in Seq(Ids)
    BY EmptySeq
  <2> QED BY <1>6, <2>1 DEF AnswersTo
<1> QED BY <1>1, <1>5, <1>6

-----------------------------------------------------------------------------
(* The steps of a run. *)

\* A cycle, of which what was read is logged, and where it leads.
LEMMA CycleSteps ==
  ASSUME AuditInv, RerunAssumption, Begins, lost' = lost
  PROVE  /\ HaltedCycle => AuditInv'
         /\ SentinelCycle => AuditInv'
         /\ \A r \in Readings : PlannedCycle(r) => AuditInv'
         /\ \A kind \in {"failed", "malformed"} : BlindCycle(kind) => AuditInv'
         /\ \A r \in Readings : RaisingCycle(r) => AuditInv'
<1> DEFINE X == KnownNow(cfg, log) \cup {NoId}
<1>1. /\ Recording /\ ~Calling(k) /\ k.pc = "idle" /\ cfg' = cfg
      /\ phase' \in {"running", "stopping"}
  BY DEF Begins, Recording, Calling
<1>2. log \in Seq(EventSet) /\ Shape(k) /\ Held(k) \subseteq X
  BY <1>1, IdleReady
<1>3. ASSUME NEW act, NEW j, NEW more, Plain(more, KnownNow(cfg, log)),
             Goes(k.reqs, act, j, X), Comes(j, more)
      PROVE  AuditInv'
  <2>1. more \in Seq(EventSet) /\ Quiet(more) /\ Names(more, KnownNow(cfg, log))
    BY <1>3 DEF Plain
  <2>2. k' = Rested(j) /\ log' = log \o more \o Written(j)
    BY <1>3 DEF Comes
  <2> QED BY <1>1, <1>3, <2>1, <2>2, CycleInv
<1>4. ASSUME NEW u, NEW more, Plain(more, KnownNow(cfg, log)), Shape(u),
             Held(u) \subseteq X, u.pc = "idle", u.reqs = k.reqs,
             k' = u, log' = log \o more
      PROVE  AuditInv'
  <2>1. more \in Seq(EventSet) /\ Quiet(more) /\ Names(more, KnownNow(cfg, log))
    BY <1>4 DEF Plain
  <2> QED BY <1>1, <1>4, <2>1, RaisedInv
<1>5. Plain(Checks(FALSE), KnownNow(cfg, log)) /\ Plain(Checks(TRUE), KnownNow(cfg, log))
  BY ChecksQuiet DEF Plain
<1>6. ASSUME NEW r \in Reads PROVE Plain(<<Observed(r)>>, KnownNow(cfg, log))
  BY ObservedQuiet DEF Plain
<1>7. ASSUME NEW n \in 0 .. Len(Tracked(k))
      PROVE  Plain(Observations(k, n), KnownNow(cfg, log))
  BY <1>2, ObservationsQuiet DEF Plain
<1>8. Readings \subseteq Reads
  BY DEF Reads
<1>9. Len(Tracked(k)) \in Nat
  BY <1>2, TrackedType
<1>10. ASSUME HaltedCycle PROVE AuditInv'
  <2>1. Goes(k.reqs, "halted", Ends(k, "halted"), X)
    BY <1>2, EndsGoes DEF Acts
  <2>2. Comes(Ends(k, "halted"), <<>>)
    BY <1>10 DEF HaltedCycle
  <2> QED BY <1>3, <2>1, <2>2, PlainNothing
<1>11. ASSUME SentinelCycle PROVE AuditInv'
  <2>1. Goes(k.reqs, "sentinel", Killed(k), X)
    BY <1>2, KilledGoes
  <2>2. Comes(Killed(k), Checks(TRUE))
    BY <1>11 DEF SentinelCycle
  <2> QED BY <1>3, <1>5, <2>1, <2>2
<1>12. ASSUME NEW r \in Readings, PlannedCycle(r) PROVE AuditInv'
  <2> DEFINE all == Observations(k, Len(Tracked(k)))
  <2>1. PICK act \in CycleActs : Goes(k.reqs, act, Planned(k, r), X)
    BY <1>2, PlannedGoes
  <2>2. Comes(Planned(k, r), Checks(FALSE) \o <<Observed(r)>> \o all)
    BY <1>12 DEF PlannedCycle
  <2>3. Plain(all, KnownNow(cfg, log)) /\ Plain(<<Observed(r)>>, KnownNow(cfg, log))
    <3>1. Len(Tracked(k)) \in 0 .. Len(Tracked(k)) /\ r \in Reads
      BY <1>8, <1>9
    <3> QED BY <1>6, <1>7, <3>1
  <2> HIDE DEF all
  <2>4. Plain(Checks(FALSE) \o <<Observed(r)>>, KnownNow(cfg, log))
    BY <1>5, <2>3, PlainJoin
  <2>5. Plain(Checks(FALSE) \o <<Observed(r)>> \o all, KnownNow(cfg, log))
    BY <2>3, <2>4, PlainJoin
  <2> QED BY <1>3, <2>1, <2>2, <2>5
<1>13. ASSUME NEW kind \in {"failed", "malformed"}, BlindCycle(kind) PROVE AuditInv'
  <2> DEFINE act == IF kind = "failed" THEN "no_state" ELSE "bad_state"
  <2> DEFINE r == NoReading(kind)
  <2>1. act \in Acts /\ r \in Reads
    BY Zenon DEF Acts, Reads
  <2>2. Comes(Ends(k, act), Checks(FALSE) \o <<Observed(r)>>)
    BY <1>13 DEF BlindCycle
  <2> HIDE DEF act, r
  <2>3. Goes(k.reqs, act, Ends(k, act), X)
    BY <1>2, <2>1, EndsGoes
  <2>4. Plain(<<Observed(r)>>, KnownNow(cfg, log))
    BY <1>6, <2>1
  <2>5. Plain(Checks(FALSE) \o <<Observed(r)>>, KnownNow(cfg, log))
    BY <1>5, <2>4, PlainJoin
  <2> QED BY <1>3, <2>2, <2>3, <2>5
<1>14. ASSUME NEW r \in Readings, RaisingCycle(r) PROVE AuditInv'
  <2>1. CASE k' = k /\ log' = log \o Checks(FALSE)
    BY <1>1, <1>2, <1>4, <1>5, <2>1
  <2>2. ASSUME NEW n \in 0 .. Len(Tracked(k)) - 1, k' = Seen(k, r),
               log' = log \o Checks(FALSE) \o <<Observed(r)>> \o Observations(k, n)
        PROVE  AuditInv'
    <3> DEFINE c == Checks(FALSE)
    <3> DEFINE o == <<Observed(r)>>
    <3> DEFINE some == Observations(k, n)
    <3>1. n \in 0 .. Len(Tracked(k))
      BY <1>9
    <3>2. /\ Plain(c, KnownNow(cfg, log)) /\ Plain(o, KnownNow(cfg, log))
          /\ Plain(some, KnownNow(cfg, log))
      BY <1>5, <1>6, <1>7, <1>8, <3>1
    <3>3. log' = log \o c \o o \o some
      BY <2>2
    <3> HIDE DEF c, o, some
    <3>4. Plain(c \o o, KnownNow(cfg, log))
      BY <3>2, PlainJoin
    <3>5. Plain((c \o o) \o some, KnownNow(cfg, log))
      BY <3>2, <3>4, PlainJoin
    <3>6. /\ c \in Seq(EventSet) /\ o \in Seq(EventSet) /\ some \in Seq(EventSet)
          /\ c \o o \in Seq(EventSet)
      BY <3>2, <3>4 DEF Plain
    <3>7. (log \o c) \o o = log \o (c \o o)
      BY <1>2, <3>6, ConcatAssociative
    <3>8. (log \o (c \o o)) \o some = log \o ((c \o o) \o some)
      <4> DEFINE both == c \o o
      <4> DEFINE S == EventSet
      <4>1. log \in Seq(S) /\ both \in Seq(S) /\ some \in Seq(S)
        BY <1>2, <3>6
      <4> HIDE DEF both, S
      <4>2. (log \o both) \o some = log \o (both \o some)
        BY <4>1, ConcatAssociative
      <4> QED BY <4>2 DEF both
    <3>9. log' = log \o ((c \o o) \o some)
      BY <3>3, <3>7, <3>8
    <3>10. /\ Shape(Seen(k, r)) /\ Held(Seen(k, r)) \subseteq X
           /\ Seen(k, r).pc = "idle" /\ Seen(k, r).reqs = k.reqs
      BY <1>1, <1>2, SeenBody
    <3> QED BY <1>4, <2>2, <3>5, <3>9, <3>10
  <2> QED BY <1>14, <2>1, <2>2 DEF RaisingCycle
<1> QED BY <1>10, <1>11, <1>12, <1>13, <1>14

\* A result settles its request, and what is told of it names known positions.
LEMMA AnsweredReady ==
  ASSUME AuditInv, Underway, NEW a \in Answers
  PROVE  LET lg == log \o (<<Result(k, a)>> \o Told(k, a))
         IN /\ Ready(lg)
            /\ Goes(k.reqs, k.act, Answered(k, a), KnownNow(cfg, lg) \cup {NoId})
<1> DEFINE e == Result(k, a)
<1> DEFINE told == Told(k, a)
<1> DEFINE X == KnownNow(cfg, log)
<1>1. /\ Shape(k) /\ Calling(k) /\ Recording /\ log \in Seq(EventSet)
      /\ Held(k) \subseteq X \cup {NoId} /\ k.reqs \in Nat
  BY DEF AuditInv, Underway, Recording, Shape, Body, KeeperSet
<1>2. /\ a \in AnswersTo(k)
      /\ a.ids # <<>> => a.ok /\ k.pc \in {"bid", "ask", "bundle"}
  BY <1>1, AnswersType
<1>3. /\ e \in EventSet /\ e.type = "action_result"
      /\ e.what = Request(k).verb /\ e.req = k.reqs
      /\ e.ids = a.ids /\ e.ok = a.ok
  BY <1>1, <1>2, ResultType
<1>4. /\ Plain(told, X)
      /\ a.ok /\ k.pc \in {"bid", "ask", "bundle"} => Opens(told, a.ids)
  BY <1>1, <1>2, ToldPlain
<1>5. a.ok /\ e.what = "deposit" => e.ids # <<>>
  <2>1. e.what = "deposit" => k.pc \in {"bid", "ask"}
    BY <1>1, <1>3, RequestType
  <2> DEFINE bid == Leg("bid", k.bin)
  <2> DEFINE ask == Leg("ask", k.bin)
  <2>2. a.ok /\ k.pc \in {"bid", "ask"} => a.ids = <<bid>> \/ a.ids = <<ask>>
    BY <1>1, <1>2, AnswerIds
  <2> HIDE DEF bid, ask
  <2>3. <<bid>> # <<>> /\ <<ask>> # <<>>
    OBVIOUS
  <2> QED BY <1>3, <2>1, <2>2, <2>3
<1> HIDE DEF e, told, X
<1> DEFINE first == log \o <<e>>
<1>6. Awaited = {k.reqs} /\ k.reqs \notin lost
  BY <1>1 DEF Awaited, AuditInv
<1>7. Numbered(first, k.reqs, lost)
  <2> DEFINE open == lost \cup {k.reqs}
  <2>1. Numbered(log, k.reqs, open) /\ e.req \in open /\ open \ {e.req} = lost
    BY <1>3, <1>6 DEF AuditInv
  <2>2. \A j \in RequestAt(log) : log[j].req = e.req => log[j].what = e.what
    BY <1>3, <1>6 DEF AuditInv
  <2>3. e.ok /\ e.what = "deposit" => e.ids # <<>>
    BY <1>3, <1>5
  <2> HIDE DEF open
  <2>4. Numbered(log \o <<e>>, k.reqs, open \ {e.req})
    BY <1>1, <1>3, <2>1, <2>2, <2>3, NumberedResult
  <2> QED BY <2>1, <2>4
<1>8. <<e>> \in Seq(EventSet) /\ Len(<<e>>) = 1 /\ <<e>>[1] = e
  BY <1>3
<1>9. /\ Names(<<e>>, X) /\ Without(<<e>>, "run_started")
      /\ Without(<<e>>, "run_stopped")
  BY <1>3, <1>8 DEF Names, Naming, Without
<1>10. /\ first \in Seq(EventSet)
       /\ X \subseteq KnownNow(cfg, first)
  BY <1>1, <1>8, Joined, KnownGrows DEF X
<1>11. Ready(first)
  <2>1. Originates(cfg, first)
    BY <1>1, <1>8, <1>9, OriginGrows DEF AuditInv, X
  <2>2. /\ Places(log, "run_started") = {1} /\ Places(log, "run_stopped") = {}
    BY <1>1 DEF AuditInv, Recording
  <2>3. Places(first, "run_started") = {1} /\ Places(first, "run_stopped") = {}
    <3> DEFINE one == <<e>>
    <3>1. /\ one \in Seq(EventSet) /\ log \in Seq(EventSet)
          /\ Without(one, "run_started") /\ Without(one, "run_stopped")
      BY <1>1, <1>8, <1>9
    <3> HIDE DEF one
    <3>2. /\ Places(log \o one, "run_started") = Places(log, "run_started")
          /\ Places(log \o one, "run_stopped") = Places(log, "run_stopped")
      BY <3>1, PlacesStay
    <3> QED BY <2>2, <3>2 DEF first, one
  <2> QED BY <1>7, <1>10, <2>1, <2>3 DEF Ready
<1>12. told \in Seq(EventSet) /\ Quiet(told) /\ Names(told, X)
  BY <1>4 DEF Plain
<1>13. Names(told, KnownNow(cfg, first))
  BY <1>10, <1>12 DEF Names
<1> HIDE DEF first
<1>14. /\ Ready(first \o told)
       /\ KnownNow(cfg, first) \subseteq KnownNow(cfg, first \o told)
  BY <1>10, <1>11, <1>12, <1>13, ReadyQuiet, KnownGrows
<1> DEFINE Y == KnownNow(cfg, first \o told) \cup {NoId}
<1>15. Held(k) \subseteq Y /\ NoId \in Y
  BY <1>1, <1>10, <1>14
<1>16. ToSet(a.ids) \subseteq Y
  <2> SUFFICES ASSUME NEW x \in ToSet(a.ids) PROVE x \in Y
    OBVIOUS
  <2>1. a.ids # <<>> /\ a.ids \in Seq(Ids)
    BY <1>2, NoMembers DEF AnswersTo
  <2>2. Opens(told, a.ids)
    BY <1>2, <1>4, <2>1
  <2>3. PICK n \in 1 .. Len(told) : told[n].type \in Opening /\ x \in ToSet(told[n].ids)
    BY <2>2 DEF Opens
  <2>4. x \in Ids \cup {NoId}
    BY <2>1, PlaceOf
  <2>5. x \in KnownNow(cfg, first \o told)
    BY <1>10, <1>12, <2>3, <2>4, OpenedIsKnown
  <2> QED BY <2>5
<1> HIDE DEF Y
<1>17. Goes(k.reqs, k.act, Answered(k, a), Y)
  BY <1>1, <1>2, <1>15, <1>16, AnsweredGoes
<1>18. first \o told = log \o (<<e>> \o told)
  BY <1>1, <1>8, <1>12, ConcatAssociative DEF first
<1> QED BY <1>14, <1>17, <1>18 DEF Y, e, told

LEMMA CallReturnsInv ==
  ASSUME AuditInv, NEW a \in Answers, CallReturns(a)
  PROVE  AuditInv'
<1> DEFINE lg == log \o (<<Result(k, a)>> \o Told(k, a))
<1> DEFINE j == Answered(k, a)
<1>1. Underway /\ Comes(j, <<Result(k, a)>> \o Told(k, a))
      /\ cfg' = cfg /\ phase' = phase /\ lost' = lost
  BY DEF CallReturns
<1>2. Ready(lg) /\ Goes(k.reqs, k.act, j, KnownNow(cfg, lg) \cup {NoId})
  BY <1>1, AnsweredReady
<1>3. k' = Rested(j) /\ log' = lg \o Written(j)
  BY <1>1 DEF Comes
<1> HIDE DEF lg, j
<1>4. k.reqs \in Nat /\ cfg \in Starts /\ lost \subseteq 1 .. k.reqs
  BY DEF AuditInv, Shape, Body, KeeperSet
<1>5. phase' \in {"running", "stopping"}
  BY <1>1 DEF Underway
<1> QED BY <1>1, <1>2, <1>3, <1>4, <1>5, ComesInv

\* What left a call, with its exception or for good, has no answer.
LEMMA LeftShape ==
  ASSUME NEW u, Shape(u)
  PROVE  /\ Shape(Left(u)) /\ Held(Left(u)) \subseteq Held(u)
         /\ Left(u).pc = "idle" /\ Left(u).reqs = u.reqs
<1>1. u \in KeeperSet /\ <<>> \in Seq(Ids) /\ "none" \in Routines \cap Acts
  BY DEF Shape, Body, Routines, Acts
<1>2. /\ Left(u) \in KeeperSet /\ Left(u).pc = "idle"
      /\ Left(u).routine = "none" /\ Left(u).act = "none"
      /\ Left(u).todo = <<>> /\ Left(u).kept = <<>>
      /\ Left(u).primary = u.primary /\ Left(u).extras = u.extras
      /\ Left(u).reqs = u.reqs
  BY <1>1 DEF KeeperSet, Left
<1> HIDE DEF Left
<1> QED BY <1>2, NoMembers DEF Shape, Body, Fits, Held

LEMMA CallRaisesInv == ASSUME AuditInv, CallRaises PROVE AuditInv'
<1>1. /\ Recording /\ Calling(k) /\ Shape(k) /\ k.reqs \in Nat
      /\ k' = Left(k) /\ log' = log /\ lost' = lost \cup {k.reqs}
      /\ cfg' = cfg /\ phase' = phase
  BY DEF CallRaises, Underway, AuditInv, Recording, Shape, Body, KeeperSet
<1>2. /\ Shape(k') /\ Held(k') \subseteq Held(k) /\ k'.pc = "idle"
      /\ k'.reqs = k.reqs
  BY <1>1, LeftShape
<1>3. Awaited = {k.reqs} /\ Awaited' = {}
  BY <1>1, <1>2 DEF Awaited, Calling
<1>4. Calling(k) => k.reqs \in 1 .. k.reqs
  <2>1. \E j \in RequestAt(log) : log[j].req = k.reqs
    BY <1>3 DEF AuditInv, Numbered, OpenAsked
  <2> QED BY <2>1 DEF AuditInv, Numbered, RequestsNumbered
<1>5. lost' \cup Awaited' = lost \cup Awaited /\ lost' \subseteq 1 .. k'.reqs
  BY <1>1, <1>2, <1>3, <1>4 DEF AuditInv
<1>6. Numbered(log', k'.reqs, lost' \cup Awaited')
  BY <1>1, <1>2, <1>5 DEF AuditInv
<1> QED BY <1>1, <1>2, <1>3, <1>5, <1>6 DEF AuditInv

LEMMA CrashInv == ASSUME AuditInv, Crash PROVE AuditInv'
<1>1. /\ Recording /\ phase' = "dead" /\ k' = k /\ log' = log /\ cfg' = cfg
      /\ lost' = (IF Calling(k) THEN lost \cup {k.reqs} ELSE lost)
  BY DEF Crash, Recording
<1>2. Awaited' = {} /\ lost' = lost \cup Awaited
  BY <1>1 DEF Awaited, Recording
<1>3. Calling(k) => k.reqs \in 1 .. k.reqs
  <2>1. Calling(k) => \E j \in RequestAt(log) : log[j].req = k.reqs
    BY <1>1 DEF AuditInv, Awaited, Numbered, OpenAsked
  <2> QED BY <2>1 DEF AuditInv, Numbered, RequestsNumbered
<1>4. lost' \subseteq 1 .. k'.reqs
  BY <1>1, <1>3 DEF AuditInv
<1>5. Numbered(log', k'.reqs, lost' \cup Awaited')
  BY <1>1, <1>2 DEF AuditInv
<1> QED BY <1>1, <1>2, <1>4, <1>5 DEF AuditInv, Recording

LEMMA CleanStopInv == ASSUME AuditInv, CleanStop PROVE AuditInv'
<1>1. /\ Recording /\ ~Calling(k) /\ cfg' = cfg /\ lost' = lost
      /\ phase' \in {"running", "stopping"} /\ Comes(CleanlyStopped(k), <<>>)
  BY DEF CleanStop, Recording, Calling
<1>2. Shape(k) /\ Held(k) \subseteq KnownNow(cfg, log) \cup {NoId}
  BY DEF AuditInv
<1>3. Goes(k.reqs, "clean stop", CleanlyStopped(k), KnownNow(cfg, log) \cup {NoId})
  BY <1>2, CleanlyStoppedGoes
<1>4. <<>> \in Seq(EventSet) /\ Quiet(<<>>) /\ Names(<<>>, KnownNow(cfg, log))
  BY PlainNothing DEF Plain
<1>5. /\ k' = Rested(CleanlyStopped(k))
      /\ log' = log \o <<>> \o Written(CleanlyStopped(k))
  BY <1>1 DEF Comes
<1> QED BY <1>1, <1>3, <1>4, <1>5, CycleInv

LEMMA StopInv == ASSUME AuditInv, Stop PROVE AuditInv'
<1> DEFINE e == Event("run_stopped", "")
<1>1. /\ Recording /\ ~Calling(k) /\ phase' = "stopped" /\ k' = k /\ cfg' = cfg
      /\ lost' = lost /\ log' = Append(log, e)
  BY DEF Stop, Recording, Calling
<1>2. e \in EventSet /\ e.type = "run_stopped"
  <2>1. "run_stopped" \in Types /\ "" \in Verbs \cup Acts \cup {""}
    BY DEF Types
  <2> QED BY <2>1, EventType
<1> HIDE DEF e
<1> DEFINE one == <<e>>
<1>3. log \in Seq(EventSet) /\ Ready(log)
  BY <1>1, IdleReady
<1>4. one \in Seq(EventSet) /\ Len(one) = 1 /\ one[1] = e /\ log' = log \o one
  BY <1>1, <1>2, <1>3
<1>5. /\ Without(one, "action_request") /\ Without(one, "action_result")
      /\ Without(one, "run_started") /\ Names(one, KnownNow(cfg, log))
  BY <1>2, <1>4 DEF Without, Names, Naming
<1> HIDE DEF one
<1>6. Awaited' = {} /\ lost' \cup Awaited' = lost
  BY <1>1 DEF Awaited, Recording
<1>7. Numbered(log \o one, k.reqs, lost)
  BY <1>3, <1>4, <1>5, NumberedQuiet DEF Ready
<1>8. Originates(cfg, log \o one) /\ KnownNow(cfg, log) \subseteq KnownNow(cfg, log \o one)
  BY <1>3, <1>4, <1>5, OriginGrows, KnownGrows DEF Ready
<1>9. Places(log \o one, "run_started") = {1}
  BY <1>3, <1>4, <1>5, PlacesStay DEF Ready
<1>10. \E n \in 1 .. Len(log \o one) : Places(log \o one, "run_stopped") = {n}
  <2> DEFINE type == "run_stopped"
  <2> DEFINE all == log \o <<e>>
  <2>1. e.type = type
    BY <1>2
  <2>2. Places(log, type) = {}
    BY <1>3 DEF Ready
  <2> HIDE DEF type
  <2>3. Places(all, type) = Places(log, type) \cup {Len(log) + 1}
    BY <1>2, <1>3, <2>1, PlacesOfOne
  <2>4. Places(all, type) = {Len(log) + 1}
    BY <2>2, <2>3
  <2>5. Len(log) + 1 \in 1 .. Len(all)
    BY <2>4 DEF Places
  <2> QED BY <2>4, <2>5 DEF type, one
<1>11. log \o one \in Seq(EventSet)
  BY <1>3, <1>4, Joined
<1>12. Numbered(log', k'.reqs, lost' \cup Awaited')
  BY <1>1, <1>4, <1>6, <1>7
<1> QED BY <1>1, <1>4, <1>6, <1>8, <1>9, <1>10, <1>11, <1>12 DEF AuditInv

\* The replay reads the log and writes none of it.
LEMMA ReplayInv ==
  ASSUME AuditInv, ~Recording, phase' \in {"replaying", "replayed"},
         UNCHANGED live
  PROVE  AuditInv'
<1>1. /\ cfg' = cfg /\ k' = k /\ log' = log /\ lost' = lost
  BY DEF live
<1>2. Awaited = {} /\ Awaited' = {}
  BY DEF Awaited, Recording
<1>3. lost' \cup Awaited' = lost \cup Awaited
  BY <1>1, <1>2
<1>4. Numbered(log', k'.reqs, lost' \cup Awaited')
  BY <1>1, <1>3 DEF AuditInv
<1> QED BY <1>1, <1>2, <1>4 DEF AuditInv

LEMMA FreshShape ==
  ASSUME NEW c \in Starts
  PROVE  /\ Shape(Fresh(c.primary, c.extras))
         /\ Held(Fresh(c.primary, c.extras)) = {c.primary} \cup ToSet(c.extras)
         /\ Fresh(c.primary, c.extras).pc = "idle"
         /\ Fresh(c.primary, c.extras).reqs = 0
<1> DEFINE u == Fresh(c.primary, c.extras)
<1>0. c.primary \in Ids \cup {NoId} /\ c.extras \in Seq(Ids)
  BY RerunAssumption
<1>1. <<>> \in Seq(Ids) /\ 0 \in BinNames /\ 0 \in Nat
  BY EmptySeq DEF BinNames
<1>2. /\ u \in KeeperSet /\ u.pc = "idle" /\ u.routine = "none"
      /\ u.act = "none" /\ u.todo = <<>> /\ u.kept = <<>> /\ u.reqs = 0
      /\ u.primary = c.primary /\ u.extras = c.extras
  BY <1>0, <1>1 DEF Fresh, KeeperSet, Routines, Acts
<1> HIDE DEF u
<1> QED BY <1>2, NoMembers DEF Shape, Body, Fits, Held, u

LEMMA AuditInit == ASSUME Init PROVE AuditInv
<1> DEFINE e == Event("run_started", "")
<1>1. /\ cfg \in Starts /\ k = Fresh(cfg.primary, cfg.extras) /\ log = <<e>>
      /\ lost = {} /\ phase = "running"
  BY DEF Init
<1>2. e \in EventSet /\ e.type = "run_started"
  <2>1. "run_started" \in Types /\ "" \in Verbs \cup Acts \cup {""}
    BY DEF Types
  <2> QED BY <2>1, EventType
<1> HIDE DEF e
<1>3. log \in Seq(EventSet) /\ Len(log) = 1 /\ log[1] = e
  BY <1>1, <1>2
<1>4. /\ Shape(k) /\ k.pc = "idle" /\ k.reqs = 0
      /\ Held(k) = {cfg.primary} \cup ToSet(cfg.extras)
  BY <1>1, FreshShape
<1>5. {cfg.primary} \cup ToSet(cfg.extras) \subseteq KnownNow(cfg, log)
  <2>1. cfg.primary \in Ids \cup {NoId} /\ cfg.extras \in Seq(Ids)
    BY <1>1, RerunAssumption
  <2>2. \A x \in ToSet(cfg.extras) : x \in Ids
    BY <2>1, PlaceOf
  <2> QED BY <2>1, <2>2 DEF KnownNow, Known
<1>6. /\ RequestAt(log) = {} /\ ResultAt(log) = {}
      /\ Places(log, "run_started") = {1} /\ Places(log, "run_stopped") = {}
  BY <1>2, <1>3 DEF RequestAt, ResultAt, Places
<1>7. Awaited = {} /\ lost \cup Awaited = {}
  BY <1>1, <1>4 DEF Awaited, Calling
<1>8. Numbered(log, k.reqs, lost \cup Awaited)
  BY <1>6, <1>7 DEF Numbered, RequestsNumbered, ResultsOnce, ResultsAsked,
                    RequestsSettled, OpenAsked, DepositsNamed
<1>9. Originates(cfg, log)
  BY <1>2, <1>3 DEF Originates, Naming
<1> QED BY <1>1, <1>3, <1>4, <1>5, <1>6, <1>7, <1>8, <1>9 DEF AuditInv

LEMMA AuditNext == ASSUME AuditInv, [Next]_vars PROVE AuditInv'
<1>1. CASE HaltedCycle
  BY <1>1, RerunAssumption, CycleSteps DEF HaltedCycle
<1>2. CASE SentinelCycle
  BY <1>2, RerunAssumption, CycleSteps DEF SentinelCycle
<1>3. CASE \E r \in Readings : PlannedCycle(r)
  BY <1>3, RerunAssumption, CycleSteps DEF PlannedCycle
<1>4. CASE \E r \in Readings : RaisingCycle(r)
  BY <1>4, RerunAssumption, CycleSteps DEF RaisingCycle
<1>5. CASE \E kind \in {"failed", "malformed"} : BlindCycle(kind)
  BY <1>5, RerunAssumption, CycleSteps DEF BlindCycle
<1>6. CASE \E a \in Answers : CallReturns(a)
  BY <1>6, CallReturnsInv
<1>7. CASE CallRaises
  BY <1>7, CallRaisesInv
<1>8. CASE Crash
  BY <1>8, CrashInv
<1>9. CASE CleanStop
  BY <1>9, CleanStopInv
<1>10. CASE Stop
  BY <1>10, StopInv
<1>11. CASE Begin \/ Drive \/ Reply \/ Finish
  <2>1. ~Recording /\ phase' \in {"replaying", "replayed"} /\ UNCHANGED live
    BY <1>11 DEF Begin, Drive, Reply, Finish, Recording
  <2> QED BY <2>1, ReplayInv
<1>12. CASE UNCHANGED vars
  <2>1. /\ cfg' = cfg /\ k' = k /\ log' = log /\ lost' = lost /\ phase' = phase
    BY <1>12 DEF vars, live
  <2>2. Awaited' = Awaited
    BY <2>1 DEF Awaited, Recording
  <2>3. Numbered(log', k'.reqs, lost' \cup Awaited')
    BY <2>1, <2>2 DEF AuditInv
  <2> QED BY <2>1, <2>2, <2>3 DEF AuditInv
<1> QED BY <1>1, <1>2, <1>3, <1>4, <1>5, <1>6, <1>7, <1>8, <1>9, <1>10, <1>11,
           <1>12 DEF Next, Run

-----------------------------------------------------------------------------
(* The alarms. *)

LEMMA NumberAt ==
  ASSUME NEW type, NEW n
  PROVE  n \in Numbers(type) <=> \E j \in Places(log, type) : log[j].req = n
BY DEF Numbers, Events

LEMMA EventAt ==
  ASSUME NEW type, NEW e \in Events(type)
  PROVE  \E j \in Places(log, type) : e = log[j]
BY DEF Events

\* No two places of a type have a number in common: none is a duplicate.
LEMMA NoDuplicates ==
  ASSUME NEW type,
         \A i, j \in Places(log, type) : log[i].req = log[j].req => i = j
  PROVE  Duplicates(type) = {}
<1> SUFFICES ASSUME NEW l \in Places(log, type), NEW i \in Places(log, type),
                    i < l, log[i].req = log[l].req
             PROVE  FALSE
  BY DEF Duplicates
<1>1. i = l
  OBVIOUS
<1>2. l \in Int
  BY DEF Places
<1> QED BY <1>1, <1>2

LEMMA AuditImpliesExact == ASSUME AuditInv PROVE AuditExact
<1> SUFFICES ASSUME ~Recording
             PROVE  /\ ReqMissingResult = lost
                    /\ StateMissingCreation \subseteq ToSet(cfg.extras)
                    /\ phase = "stopped" => MissingRunAnchors = {}
                    /\ phase = "dead" => MissingRunAnchors = {"run_stopped"}
                    /\ {} = ReqMissingRequest \cup DuplicateReqIds
                              \cup ReqResultMismatch \cup DepositMissingPosition
  BY DEF AuditExact
<1>1. Numbered(log, k.reqs, lost)
  <2>1. lost \cup Awaited = lost
    BY DEF Awaited
  <2> QED BY <2>1 DEF AuditInv
<1>2. ReqMissingResult = lost
  <2>1. ASSUME NEW n \in lost
        PROVE  /\ \E j \in RequestAt(log) : log[j].req = n
               /\ ~ \E i \in ResultAt(log) : log[i].req = n
    BY <1>1 DEF Numbered, OpenAsked, ResultsAsked
  <2>2. ASSUME NEW j \in RequestAt(log),
               ~ \E i \in ResultAt(log) : log[i].req = log[j].req
        PROVE  log[j].req \in lost
    BY <1>1, <2>2 DEF Numbered, RequestsSettled
  <2>3. ASSUME NEW n
        PROVE  n \in ReqMissingResult <=>
                  /\ \E j \in RequestAt(log) : log[j].req = n
                  /\ ~ \E i \in ResultAt(log) : log[i].req = n
    <3>1. n \in Numbers("action_request") <=> \E j \in RequestAt(log) : log[j].req = n
      BY NumberAt DEF RequestAt
    <3>2. n \in Numbers("action_result") <=> \E i \in ResultAt(log) : log[i].req = n
      BY NumberAt DEF ResultAt
    <3>3. n \in ReqMissingResult
             <=> n \in Numbers("action_request") /\ n \notin Numbers("action_result")
      BY DEF ReqMissingResult
    <3> QED BY <3>1, <3>2, <3>3
  <2>4. ASSUME NEW n \in ReqMissingResult PROVE n \in lost
    <3>1. PICK j \in RequestAt(log) : log[j].req = n
      BY <2>3
    <3>2. ~ \E i \in ResultAt(log) : log[i].req = n
      BY <2>3
    <3> QED BY <2>2, <3>1, <3>2
  <2>5. ASSUME NEW n \in lost PROVE n \in ReqMissingResult
    BY <2>1, <2>3
  <2> QED BY <2>4, <2>5
<1>3. ReqMissingRequest = {}
  <2> SUFFICES ASSUME NEW n \in Numbers("action_result")
               PROVE  n \in Numbers("action_request")
    BY DEF ReqMissingRequest
  <2>1. PICK i \in ResultAt(log) : log[i].req = n
    BY NumberAt DEF ResultAt
  <2>2. \E j \in RequestAt(log) : log[j].req = n
    BY <1>1, <2>1 DEF Numbered, ResultsAsked
  <2> QED BY <2>2, NumberAt DEF RequestAt
<1>4. DuplicateReqIds = {}
  <2>1. \A i, j \in Places(log, "action_request") : log[i].req = log[j].req => i = j
    BY <1>1 DEF Numbered, RequestsNumbered, RequestAt
  <2>2. \A i, j \in Places(log, "action_result") : log[i].req = log[j].req => i = j
    BY <1>1 DEF Numbered, ResultsOnce, ResultAt
  <2>3. Duplicates("action_request") = {}
    BY <2>1, NoDuplicates
  <2>4. Duplicates("action_result") = {}
    BY <2>2, NoDuplicates
  <2> QED BY <2>3, <2>4 DEF DuplicateReqIds
<1>5. ReqResultMismatch = {}
  <2> SUFFICES ASSUME NEW r \in Events("action_result"),
                      NEW q \in Events("action_request"), q.req = r.req
               PROVE  q.what = r.what
    BY DEF ReqResultMismatch
  <2>1. PICK i \in ResultAt(log) : r = log[i]
    BY EventAt DEF ResultAt
  <2>2. PICK j \in RequestAt(log) : q = log[j]
    BY EventAt DEF RequestAt
  <2>3. PICK l \in RequestAt(log) : log[l].req = r.req /\ log[l].what = r.what
    BY <1>1, <2>1 DEF Numbered, ResultsAsked
  <2>4. j = l
    BY <1>1, <2>2, <2>3 DEF Numbered, RequestsNumbered
  <2> QED BY <2>2, <2>3, <2>4
<1>6. DepositMissingPosition = {}
  <2> SUFFICES ASSUME NEW r \in Events("action_result"), r.ok, r.what = "deposit"
               PROVE  r.ids # <<>>
    BY DEF DepositMissingPosition
  <2>1. PICK i \in ResultAt(log) : r = log[i]
    BY EventAt DEF ResultAt
  <2> QED BY <1>1, <2>1 DEF Numbered, DepositsNamed
<1>7. StateMissingCreation \subseteq ToSet(cfg.extras)
  <2> SUFFICES ASSUME NEW j \in 1 .. Len(log), log[j].type \in Naming,
                      log[j].ids[1] \notin Created(j)
               PROVE  log[j].ids[1] \in ToSet(cfg.extras)
    BY DEF StateMissingCreation, Naming
  <2> DEFINE x == log[j].ids[1]
  <2>1. x \in Known(cfg, log, j)
    BY DEF AuditInv, Originates
  <2>2. x # cfg.primary
    BY DEF Created
  <2>3. ASSUME NEW i \in 1 .. j - 1, log[i].type \in Opening,
               x \in ToSet(log[i].ids)
        PROVE  FALSE
    BY <2>3 DEF Created, Opening
  <2> QED BY <2>1, <2>2, <2>3 DEF Known
<1>8. ASSUME NEW n PROVE Cardinality({n}) = 1
  BY FS_Singleton
<1>9. Cardinality({}) = 0
  BY FS_EmptySet
<1>10. Cardinality(Places(log, "run_started")) = 1
  BY <1>8 DEF AuditInv
<1>11. phase = "stopped" => Cardinality(Places(log, "run_stopped")) = 1
  BY <1>8 DEF AuditInv
<1>12. phase = "dead" => Cardinality(Places(log, "run_stopped")) = 0
  BY <1>9 DEF AuditInv
<1>13. phase = "stopped" => MissingRunAnchors = {}
  BY <1>10, <1>11 DEF MissingRunAnchors
<1>14. phase = "dead" => MissingRunAnchors = {"run_stopped"}
  BY <1>10, <1>12 DEF MissingRunAnchors
<1> QED BY <1>2, <1>3, <1>4, <1>5, <1>6, <1>7, <1>13, <1>14

\* The alarms of verify_log.py are exact: a request without a result is a call
\* that raised or was cut, a position without an origin is an extra position of
\* the configuration, a run without an end was killed, and there is no other.
THEOREM AlarmsAreExact == Spec => []AuditExact
<1>1. Init => AuditInv
  BY AuditInit
<1>2. AuditInv /\ [Next]_vars => AuditInv'
  BY AuditNext
<1>3. AuditInv => AuditExact
  BY AuditImpliesExact
<1> QED BY <1>1, <1>2, <1>3, PTL DEF Spec

-----------------------------------------------------------------------------
(* The events of one type. *)

LEMMA OnlyType ==
  ASSUME NEW S, NEW lg \in Seq(S), NEW type
  PROVE  /\ Only(lg, type) \in Seq(S) /\ Len(Only(lg, type)) \in Nat
         /\ Places(lg, type) \subseteq 1 .. Len(lg)
<1>1. Places(lg, type) \subseteq 1 .. Len(lg)
  BY DEF Places
<1>2. Only(lg, type) \in Seq(S)
  BY <1>1, PickedType DEF Only
<1> QED BY <1>1, <1>2, LenProperties

\* Each is the event at some place of the log.
LEMMA OnlyAt ==
  ASSUME NEW S, NEW lg \in Seq(S), NEW type, NEW n \in 1 .. Len(Only(lg, type))
  PROVE  \E j \in Places(lg, type) : Only(lg, type)[n] = lg[j]
<1> DEFINE K == Places(lg, type)
<1>1. K \subseteq 1 .. Len(lg) /\ Len(lg) \in Nat
  BY OnlyType, LenProperties
<1>2. Only(lg, type) = Picked(lg, K)
  BY DEF Only
<1> HIDE DEF K
<1>3. K \subseteq Int /\ IsFiniteSet(K)
  BY <1>1, PlacesFinite
<1>4. n \in 1 .. Len(InOrder(K))
  BY <1>1, <1>2, PickedType
<1>5. InOrder(K)[n] \in K /\ Picked(lg, K)[n] = lg[InOrder(K)[n]]
  BY <1>3, <1>4, PickedAt
<1> QED BY <1>2, <1>5 DEF K

\* Events of other types do not count, and one of the type comes last.
LEMMA OnlyWithout ==
  ASSUME NEW S, NEW lg \in Seq(S), NEW more \in Seq(S), NEW type,
         Without(more, type)
  PROVE  Only(lg \o more, type) = Only(lg, type)
<1> DEFINE all == lg \o more
<1> DEFINE K == Places(lg, type)
<1>1. all \in Seq(S)
  BY Joined
<1>2. Places(all, type) = K /\ \A j \in K : all[j] = lg[j]
  BY PlacesStay
<1>3. K \subseteq 1 .. Len(lg) /\ Places(all, type) \subseteq 1 .. Len(all)
  BY DEF Places
<1> HIDE DEF all, K
<1>4. K \subseteq 1 .. Len(all)
  BY <1>2, <1>3
<1>5. Picked(all, K) = Picked(lg, K)
  BY <1>1, <1>2, <1>3, <1>4, PickedSame
<1>6. Only(all, type) = Picked(all, K) /\ Only(lg, type) = Picked(lg, K)
  BY <1>2 DEF Only, K
<1> QED BY <1>5, <1>6 DEF all

LEMMA OnlyOne ==
  ASSUME NEW S, NEW lg \in Seq(S), NEW e \in S, NEW type, e.type = type
  PROVE  Only(lg \o <<e>>, type) = Append(Only(lg, type), e)
<1> DEFINE one == <<e>>
<1> DEFINE all == lg \o one
<1> DEFINE K == Places(lg, type)
<1> DEFINE n == Len(lg) + 1
<1>1. one \in Seq(S)
  OBVIOUS
<1>2. Places(all, type) = K \cup {n} /\ all[n] = e
  BY PlacesOfOne
<1>3. K \subseteq 1 .. Len(lg) /\ Places(all, type) \subseteq 1 .. Len(all)
  BY DEF Places
<1> HIDE DEF one
<1>4. /\ all \in Seq(S) /\ Len(lg) \in Nat
      /\ \A j \in 1 .. Len(lg) : all[j] = lg[j]
  BY <1>1, Joined
<1> HIDE DEF all, K
<1>5. K \subseteq 1 .. Len(all) /\ n \in 1 .. Len(all)
  BY <1>2, <1>3
<1>6. \A j \in K : j < n /\ all[j] = lg[j]
  BY <1>3, <1>4
<1> HIDE DEF n
<1>7. Picked(all, K \cup {n}) = Append(Picked(all, K), all[n])
  BY <1>4, <1>5, <1>6, PickedLater
<1>8. Picked(all, K) = Picked(lg, K)
  BY <1>3, <1>4, <1>5, <1>6, PickedSame
<1>9. Only(all, type) = Picked(all, K \cup {n}) /\ Only(lg, type) = Picked(lg, K)
  BY <1>2 DEF Only, K
<1> QED BY <1>2, <1>7, <1>8, <1>9 DEF all, one

\* What a piece of a log adds to the events of a type, whatever was there.
Adds(more, type, s) ==
    \A lg \in Seq(EventSet) : Only(lg \o more, type) = Only(lg, type) \o s

LEMMA AddsNone ==
  ASSUME NEW more \in Seq(EventSet), NEW type, Without(more, type)
  PROVE  Adds(more, type, <<>>)
<1> SUFFICES ASSUME NEW lg \in Seq(EventSet)
             PROVE  Only(lg \o more, type) = Only(lg, type) \o <<>>
  BY DEF Adds
<1>1. Only(lg \o more, type) = Only(lg, type)
  BY OnlyWithout
<1>2. Only(lg, type) \in Seq(EventSet)
  BY OnlyType
<1> QED BY <1>1, <1>2

LEMMA AddsOne ==
  ASSUME NEW e \in EventSet, NEW type, e.type = type
  PROVE  Adds(<<e>>, type, <<e>>)
<1> SUFFICES ASSUME NEW lg \in Seq(EventSet)
             PROVE  Only(lg \o <<e>>, type) = Only(lg, type) \o <<e>>
  BY DEF Adds
<1>1. Only(lg \o <<e>>, type) = Append(Only(lg, type), e)
  BY OnlyOne
<1>2. Only(lg, type) \in Seq(EventSet)
  BY OnlyType
<1> HIDE DEF EventSet
<1>3. Only(lg, type) \o <<e>> = Append(Only(lg, type), e)
  BY <1>2
<1> QED BY <1>1, <1>3

\* Of two pieces, at most one of which has events of the type.
LEMMA AddsSecond ==
  ASSUME NEW a \in Seq(EventSet), NEW b \in Seq(EventSet), NEW type, NEW s,
         Adds(a, type, <<>>), Adds(b, type, s)
  PROVE  Adds(a \o b, type, s)
<1> SUFFICES ASSUME NEW lg \in Seq(EventSet)
             PROVE  Only(lg \o (a \o b), type) = Only(lg, type) \o s
  BY DEF Adds
<1> DEFINE first == lg \o a
<1>1. first \in Seq(EventSet) /\ first \o b = lg \o (a \o b)
  BY Joined, ConcatAssociative
<1>2. Only(first, type) = Only(lg, type)
  <2>1. Only(lg, type) \in Seq(EventSet)
    BY OnlyType
  <2>2. Only(lg, type) \o <<>> = Only(lg, type)
    BY <2>1
  <2> QED BY <2>2 DEF Adds
<1> HIDE DEF first
<1>3. Only(first \o b, type) = Only(first, type) \o s
  BY <1>1 DEF Adds
<1> QED BY <1>1, <1>2, <1>3

LEMMA AddsFirst ==
  ASSUME NEW a \in Seq(EventSet), NEW b \in Seq(EventSet), NEW type,
         NEW s \in Seq(EventSet), Adds(a, type, s), Adds(b, type, <<>>)
  PROVE  Adds(a \o b, type, s)
<1> SUFFICES ASSUME NEW lg \in Seq(EventSet)
             PROVE  Only(lg \o (a \o b), type) = Only(lg, type) \o s
  BY DEF Adds
<1> DEFINE first == lg \o a
<1>1. first \in Seq(EventSet) /\ first \o b = lg \o (a \o b)
  BY Joined, ConcatAssociative
<1>2. Only(first, type) = Only(lg, type) \o s
  BY DEF Adds
<1> HIDE DEF first
<1>3. Only(first \o b, type) = Only(first, type) \o <<>>
  BY <1>1 DEF Adds
<1>4. Only(first, type) \in Seq(EventSet)
  BY <1>1, OnlyType
<1>5. Only(first, type) \o <<>> = Only(first, type)
  BY <1>4
<1> QED BY <1>1, <1>2, <1>3, <1>5

-----------------------------------------------------------------------------
(* The trail of a run: the keepers it has been, each with how many events   *)
(* of each type the log had then.                                           *)

Replayed == {"sentinel_check", "state_observation", "action_request",
             "action_result", "decision"}
Marks == [k : KeeperSet, n : [Replayed -> Nat]]
Mark(u, lg) == [k |-> u, n |-> [type \in Replayed |-> Len(Only(lg, type))]]

\* From x to y, the log got no event of the type, or it got e.
None(x, y, type) == y.n[type] = x.n[type]
One(lg, x, y, type, e) ==
    /\ y.n[type] = x.n[type] + 1 /\ y.n[type] <= Len(Only(lg, type))
    /\ Only(lg, type)[y.n[type]] = e

\* A keeper came to j: it has sent a request, or a cycle was through.
Asks(lg, x, y, j) ==
    /\ Shape(j) /\ y.k = Rested(j)
    /\ \/ /\ Calling(j) /\ None(x, y, "decision")
          /\ One(lg, x, y, "action_request", Logged(j))
       \/ /\ j.pc = "end" /\ Written(j) = <<Decided(j)>>
          /\ None(x, y, "action_request")
          /\ One(lg, x, y, "decision", Decided(j))

NoInput(x, y) == None(x, y, "sentinel_check") /\ None(x, y, "state_observation")
NoSentinel(c, lg, x, y) ==
    IF c.path THEN One(lg, x, y, "sentinel_check", Checked(FALSE))
              ELSE None(x, y, "sentinel_check")

\* The cycles whose inputs the log has.
HaltedStep(lg, x, y) ==
    /\ x.k.halted /\ NoInput(x, y)
    /\ Asks(lg, x, y, Ends(x.k, "halted"))
SentinelStep(c, lg, x, y) ==
    /\ ~x.k.halted /\ c.path
    /\ One(lg, x, y, "sentinel_check", Checked(TRUE))
    /\ None(x, y, "state_observation")
    /\ Asks(lg, x, y, Killed(x.k))
PlannedStep(c, lg, x, y) ==
    /\ ~x.k.halted /\ NoSentinel(c, lg, x, y)
    /\ \E r \in Readings :
          /\ One(lg, x, y, "state_observation", Observed(r))
          /\ Asks(lg, x, y, Planned(x.k, r))
BlindStep(c, lg, x, y) ==
    /\ ~x.k.halted /\ NoSentinel(c, lg, x, y)
    /\ One(lg, x, y, "state_observation", Observed(NoReading("failed")))
    /\ Asks(lg, x, y, Ends(x.k, "no_state"))

CycleStep(c, lg, x, y) ==
    /\ x.k.pc = "idle" /\ None(x, y, "action_result")
    /\ \/ HaltedStep(lg, x, y) \/ SentinelStep(c, lg, x, y)
       \/ PlannedStep(c, lg, x, y) \/ BlindStep(c, lg, x, y)

\* A call is answered, for certain.
AnswerStep(lg, x, y) ==
    /\ Calling(x.k) /\ NoInput(x, y)
    /\ \E a \in AnswersTo(x.k) :
          /\ ~a.unknown /\ One(lg, x, y, "action_result", Result(x.k, a))
          /\ Asks(lg, x, y, Answered(x.k, a))

Step(c, lg, x, y) == CycleStep(c, lg, x, y) \/ AnswerStep(lg, x, y)

\* What holds at a mark: its events are in the log, and the last request is of
\* the call that is waited for.
Sound(lg, x) ==
    /\ x \in Marks /\ Shape(x.k) /\ x.k.pc # "end"
    /\ \A type \in Replayed : x.n[type] <= Len(Only(lg, type))
    /\ x.n["action_request"] =
          x.n["action_result"] + (IF Calling(x.k) THEN 1 ELSE 0)
    /\ Calling(x.k) =>
          Only(lg, "action_request")[x.n["action_request"]] = Logged(x.k)

\* A trail of a run of c that has come to u and logged lg: it begins with the
\* start of the run, goes on until now, and a cycle that is not under way any
\* more has its decision.
Trail(S, c, lg, u) ==
    /\ lg \in Seq(EventSet) /\ \A x \in S : Sound(lg, x)
    /\ \E x \in S : /\ x.k = Fresh(c.primary, c.extras)
                    /\ \A type \in Replayed : x.n[type] = 0
    /\ Mark(u, lg) \in S
    /\ \A x \in S \ {Mark(u, lg)} : \E y \in S : Step(c, lg, x, y)
    /\ \A x \in S : Calling(x.k) =>
          Calling(u) \/ x.n["decision"] < Len(Only(lg, "decision"))

\* Logs grow.
LongIn(lg, lg2, type) ==
    /\ Len(Only(lg, type)) <= Len(Only(lg2, type))
    /\ \A n \in 1 .. Len(Only(lg, type)) : Only(lg2, type)[n] = Only(lg, type)[n]
Longer(lg, lg2) == \A type \in Replayed : LongIn(lg, lg2, type)

LEMMA MarkType ==
  ASSUME NEW u \in KeeperSet, NEW lg \in Seq(EventSet)
  PROVE  Mark(u, lg) \in Marks
<1>1. \A type \in Replayed : Len(Only(lg, type)) \in Nat
  BY OnlyType
<1> QED BY <1>1 DEF Mark, Marks

LEMMA NoneOf ==
  ASSUME NEW type \in Replayed, NEW lg \in Seq(EventSet), NEW lg2, NEW u, NEW v,
         Only(lg2, type) = Only(lg, type) \o <<>>
  PROVE  /\ None(Mark(u, lg), Mark(v, lg2), type) /\ LongIn(lg, lg2, type)
         /\ Only(lg2, type) = Only(lg, type)
<1>1. Only(lg, type) \in Seq(EventSet) /\ Len(Only(lg, type)) \in Nat
  BY OnlyType
<1>2. Only(lg, type) \o <<>> = Only(lg, type)
  BY <1>1
<1> QED BY <1>1, <1>2 DEF None, Mark, LongIn

LEMMA OneOf ==
  ASSUME NEW type \in Replayed, NEW lg \in Seq(EventSet), NEW lg2, NEW u, NEW v,
         NEW e \in EventSet, Only(lg2, type) = Only(lg, type) \o <<e>>
  PROVE  /\ One(lg2, Mark(u, lg), Mark(v, lg2), type, e) /\ LongIn(lg, lg2, type)
         /\ Len(Only(lg2, type)) = Len(Only(lg, type)) + 1
         /\ Only(lg2, type)[Len(Only(lg2, type))] = e
<1> DEFINE s == Only(lg, type)
<1> DEFINE t == Only(lg2, type)
<1>1. s \in Seq(EventSet) /\ Len(s) \in Nat
  BY OnlyType
<1>2. t = s \o <<e>>
  OBVIOUS
<1>3. Mark(u, lg).n[type] = Len(s) /\ Mark(v, lg2).n[type] = Len(t)
  BY DEF Mark
<1> HIDE DEF s, t, EventSet
<1>4. /\ Len(t) = Len(s) + 1 /\ t[Len(s) + 1] = e
      /\ \A n \in 1 .. Len(s) : t[n] = s[n]
  <2> DEFINE one == <<e>>
  <2>1. one \in Seq(EventSet) /\ Len(one) = 1 /\ one[1] = e
    OBVIOUS
  <2> HIDE DEF one
  <2>2. /\ Len(s \o one) = Len(s) + 1
        /\ \A j \in 1 .. Len(s) : (s \o one)[j] = s[j]
        /\ \A n \in 1 .. Len(one) : (s \o one)[Len(s) + n] = one[n]
    <3>1. one \in Seq(EventSet) /\ s \in Seq(EventSet)
      BY <1>1, <2>1
    <3>2. Len(s \o one) = Len(s) + Len(one)
      BY <3>1, Joined
    <3>3. /\ \A j \in 1 .. Len(s) : (s \o one)[j] = s[j]
          /\ \A n \in 1 .. Len(one) : (s \o one)[Len(s) + n] = one[n]
      BY <3>1, Joined
    <3> QED BY <2>1, <3>2, <3>3
  <2>3. (s \o one)[Len(s) + 1] = e
    <3>1. 1 \in 1 .. Len(one)
      BY <2>1
    <3> QED BY <2>1, <2>2, <3>1
  <2> QED BY <1>2, <2>2, <2>3 DEF one
<1>5. Len(s) <= Len(t) /\ Len(t) <= Len(t) /\ t[Len(t)] = e
  BY <1>1, <1>4
<1>6. LongIn(lg, lg2, type)
  BY <1>4, <1>5 DEF LongIn, s, t
<1>7. One(lg2, Mark(u, lg), Mark(v, lg2), type, e)
  BY <1>3, <1>4, <1>5 DEF One, t
<1> QED BY <1>4, <1>5, <1>6, <1>7 DEF s, t

\* What the log told at a mark it tells for good.
LEMMA OneStays ==
  ASSUME NEW lg \in Seq(EventSet), NEW lg2 \in Seq(EventSet),
         NEW type \in Replayed, LongIn(lg, lg2, type),
         NEW x \in Marks, NEW y, NEW e, One(lg, x, y, type, e)
  PROVE  One(lg2, x, y, type, e)
<1>1. x.n[type] \in Nat
  BY DEF Marks
<1>2. Len(Only(lg, type)) \in Nat /\ Len(Only(lg2, type)) \in Nat
  BY OnlyType
<1>3. /\ y.n[type] = x.n[type] + 1 /\ y.n[type] <= Len(Only(lg, type))
      /\ Only(lg, type)[y.n[type]] = e
  BY DEF One
<1>4. y.n[type] \in 1 .. Len(Only(lg, type))
  BY <1>1, <1>2, <1>3
<1>5. Only(lg2, type)[y.n[type]] = e
  BY <1>3, <1>4 DEF LongIn
<1>6. y.n[type] <= Len(Only(lg2, type))
  BY <1>1, <1>2, <1>3 DEF LongIn
<1> QED BY <1>3, <1>5, <1>6 DEF One

LEMMA StepStays ==
  ASSUME NEW c, NEW lg \in Seq(EventSet), NEW lg2 \in Seq(EventSet),
         Longer(lg, lg2), NEW x \in Marks, NEW y, Step(c, lg, x, y)
  PROVE  Step(c, lg2, x, y)
<1>1. ASSUME NEW type \in Replayed, NEW e, One(lg, x, y, type, e)
      PROVE  One(lg2, x, y, type, e)
  BY <1>1, OneStays DEF Longer
<1>2. /\ "sentinel_check" \in Replayed /\ "state_observation" \in Replayed
      /\ "action_request" \in Replayed /\ "action_result" \in Replayed
      /\ "decision" \in Replayed
  BY DEF Replayed
<1>3. ASSUME NEW j, Asks(lg, x, y, j) PROVE Asks(lg2, x, y, j)
  BY <1>1, <1>2, <1>3 DEF Asks
<1>4. NoSentinel(c, lg, x, y) => NoSentinel(c, lg2, x, y)
  BY <1>1, <1>2 DEF NoSentinel
<1>5. HaltedStep(lg, x, y) => HaltedStep(lg2, x, y)
  BY <1>3 DEF HaltedStep
<1>6. SentinelStep(c, lg, x, y) => SentinelStep(c, lg2, x, y)
  BY <1>1, <1>2, <1>3 DEF SentinelStep
<1>7. PlannedStep(c, lg, x, y) => PlannedStep(c, lg2, x, y)
  BY <1>1, <1>2, <1>3, <1>4 DEF PlannedStep
<1>8. BlindStep(c, lg, x, y) => BlindStep(c, lg2, x, y)
  BY <1>1, <1>2, <1>3, <1>4 DEF BlindStep
<1>9. AnswerStep(lg, x, y) => AnswerStep(lg2, x, y)
  BY <1>1, <1>2, <1>3 DEF AnswerStep
<1> QED BY <1>5, <1>6, <1>7, <1>8, <1>9 DEF Step, CycleStep

LEMMA SoundStays ==
  ASSUME NEW lg \in Seq(EventSet), NEW lg2 \in Seq(EventSet),
         Longer(lg, lg2), NEW x, Sound(lg, x)
  PROVE  Sound(lg2, x)
<1>1. "action_request" \in Replayed /\ "action_result" \in Replayed
  BY DEF Replayed
<1>2. \A type \in Replayed : x.n[type] \in Nat
  BY DEF Sound, Marks
<1>3. \A type \in Replayed :
         Len(Only(lg, type)) \in Nat /\ Len(Only(lg2, type)) \in Nat
  BY OnlyType
<1>4. ASSUME NEW type \in Replayed PROVE x.n[type] <= Len(Only(lg2, type))
  <2>1. x.n[type] <= Len(Only(lg, type))
    BY DEF Sound
  <2>2. Len(Only(lg, type)) <= Len(Only(lg2, type))
    BY DEF Longer, LongIn
  <2> QED BY <1>2, <1>3, <2>1, <2>2
<1>5. ASSUME Calling(x.k)
      PROVE  Only(lg2, "action_request")[x.n["action_request"]] = Logged(x.k)
  <2> DEFINE type == "action_request"
  <2>1. x.n[type] = x.n["action_result"] + 1 /\ x.n[type] <= Len(Only(lg, type))
    BY <1>1, <1>5 DEF Sound
  <2>2. x.n[type] \in 1 .. Len(Only(lg, type))
    BY <1>1, <1>2, <1>3, <2>1
  <2>3. Only(lg, type)[x.n[type]] = Logged(x.k)
    BY <1>5 DEF Sound
  <2> QED BY <1>1, <2>2, <2>3 DEF Longer, LongIn
<1> QED BY <1>4, <1>5 DEF Sound

\* Where a step leads is a mark, with its decision or its request in the log.
LEMMA AsksRested ==
  ASSUME NEW lg, NEW x, NEW y, NEW j, Asks(lg, x, y, j)
  PROVE  /\ Shape(y.k) /\ y.k.pc # "end"
         /\ Calling(y.k) =>
              /\ y.k = j /\ One(lg, x, y, "action_request", Logged(y.k))
         /\ ~Calling(y.k) =>
              /\ None(x, y, "action_request")
              /\ One(lg, x, y, "decision", Decided(j))
<1>1. Shape(j) /\ y.k = Rested(j) /\ j.reqs \in Nat
  BY DEF Asks, Shape, Body, KeeperSet
<1>2. \E n \in Int : Goes(n, j.act, j, Held(j))
  <2>1. CASE Calling(j)
    <3>1. j.reqs - 1 \in Int /\ j.reqs = (j.reqs - 1) + 1
      BY <1>1
    <3> QED BY <1>1, <2>1, <3>1 DEF Goes
  <2>2. CASE j.pc = "end"
    BY <1>1, <2>2 DEF Goes
  <2> QED BY <2>1, <2>2 DEF Asks
<1>3. /\ Shape(Rested(j)) /\ Rested(j).pc # "end"
      /\ Calling(Rested(j)) <=> Calling(j)
      /\ Calling(j) => Rested(j) = j
  BY <1>2, RestedShape
<1>4. ~Calling(j) => j.pc = "end"
  BY DEF Asks
<1>5. j.pc = "end" => ~Calling(j)
  BY DEF Calling
<1> QED BY <1>1, <1>3, <1>4, <1>5 DEF Asks

LEMMA StepSound ==
  ASSUME NEW c, NEW lg \in Seq(EventSet), NEW x, Sound(lg, x), NEW v,
         Step(c, lg, x, Mark(v, lg))
  PROVE  /\ Sound(lg, Mark(v, lg))
         /\ Calling(v) \/ Len(Only(lg, "decision")) = x.n["decision"] + 1
<1> DEFINE y == Mark(v, lg)
<1>1. PICK j : Asks(lg, x, y, j)
  BY DEF Step, CycleStep, HaltedStep, SentinelStep, PlannedStep, BlindStep,
         AnswerStep
<1>2. /\ y.k = v /\ \A type \in Replayed : y.n[type] = Len(Only(lg, type))
  BY DEF Mark
<1>3. /\ "action_request" \in Replayed /\ "action_result" \in Replayed
      /\ "decision" \in Replayed
  BY DEF Replayed
<1>4. \A type \in Replayed : y.n[type] \in Nat
  BY <1>2, OnlyType
<1>5. x.n["action_request"] \in Nat /\ x.n["action_result"] \in Nat
  BY <1>3 DEF Sound, Marks
<1>6. /\ Shape(v) /\ v.pc # "end"
      /\ Calling(v) => One(lg, x, y, "action_request", Logged(v))
      /\ ~Calling(v) => /\ None(x, y, "action_request")
                        /\ One(lg, x, y, "decision", Decided(j))
  BY <1>1, <1>2, AsksRested
<1>7. y \in Marks
  BY <1>6, MarkType DEF Shape, Body
<1>8. y.n["action_result"] = x.n["action_result"] + (IF Calling(x.k) THEN 1 ELSE 0)
  <2>1. CASE CycleStep(c, lg, x, y)
    BY <1>5, <2>1 DEF CycleStep, None, Calling
  <2>2. CASE AnswerStep(lg, x, y)
    BY <1>5, <2>2 DEF AnswerStep, One
  <2> QED BY <2>1, <2>2 DEF Step
<1> HIDE DEF y
<1>9. y.n["action_request"] =
         x.n["action_request"] + (IF Calling(v) THEN 1 ELSE 0)
  BY <1>5, <1>6 DEF None, One
<1>10. x.n["action_request"] =
          x.n["action_result"] + (IF Calling(x.k) THEN 1 ELSE 0)
  BY DEF Sound
<1>11. y.n["action_request"] =
          y.n["action_result"] + (IF Calling(v) THEN 1 ELSE 0)
  <2>1. y.n["action_result"] = x.n["action_request"]
    BY <1>8, <1>10
  <2> QED BY <1>9, <2>1
<1>12. Calling(v) =>
          Only(lg, "action_request")[y.n["action_request"]] = Logged(v)
  BY <1>6 DEF One
<1>13. \A type \in Replayed : y.n[type] <= Len(Only(lg, type))
  BY <1>2, <1>4
<1>14. Calling(v) \/ Len(Only(lg, "decision")) = x.n["decision"] + 1
  BY <1>2, <1>3, <1>6 DEF One
<1> QED BY <1>2, <1>6, <1>7, <1>11, <1>12, <1>13, <1>14 DEF Sound, y

\* A trail goes on with a step.
LEMMA TrailGrows ==
  ASSUME NEW S, NEW c, NEW lg, NEW lg2 \in Seq(EventSet), NEW u, NEW v,
         Trail(S, c, lg, u), Longer(lg, lg2),
         Step(c, lg2, Mark(u, lg), Mark(v, lg2))
  PROVE  Trail(S \cup {Mark(v, lg2)}, c, lg2, v)
<1> DEFINE x == Mark(u, lg)
<1> DEFINE y == Mark(v, lg2)
<1> DEFINE T == S \cup {y}
<1>1. lg \in Seq(EventSet) /\ x \in S /\ Sound(lg, x)
  BY DEF Trail
<1>2. \A z \in S : Sound(lg2, z)
  BY <1>1, SoundStays DEF Trail
<1>3. /\ Sound(lg2, y)
      /\ Calling(v) \/ Len(Only(lg2, "decision")) = x.n["decision"] + 1
  BY <1>1, <1>2, StepSound
<1>4. \A z \in T : Sound(lg2, z)
  BY <1>2, <1>3
<1>5. "decision" \in Replayed
  BY DEF Replayed
<1>6. x.n["decision"] = Len(Only(lg, "decision")) /\ x.k = u /\ y.k = v
  BY <1>5 DEF Mark
<1>7. Step(c, lg2, x, y)
  OBVIOUS
<1> HIDE DEF x, y
<1>8. ASSUME NEW z \in T \ {y} PROVE \E w \in T : Step(c, lg2, z, w)
  <2>1. CASE z = x
    BY <1>7, <2>1
  <2>2. CASE z # x
    <3>1. z \in S /\ z \in Marks
      BY <1>8, <1>2 DEF Sound
    <3>2. PICK w \in S : Step(c, lg, z, w)
      BY <2>2, <3>1 DEF Trail, x
    <3>3. Step(c, lg2, z, w)
      BY <1>1, <3>1, <3>2, StepStays
    <3> QED BY <3>3
  <2> QED BY <2>1, <2>2
<1>9. ASSUME NEW z \in T, Calling(z.k)
      PROVE  Calling(v) \/ z.n["decision"] < Len(Only(lg2, "decision"))
  <2> SUFFICES ASSUME ~Calling(v)
               PROVE  z.n["decision"] < Len(Only(lg2, "decision"))
    OBVIOUS
  <2>1. z \in S
    BY <1>6, <1>9
  <2>2. z.n["decision"] <= Len(Only(lg, "decision"))
    BY <1>5, <2>1 DEF Trail, Sound
  <2>3. z.n["decision"] \in Nat /\ Len(Only(lg, "decision")) \in Nat
    <3>1. z \in Marks
      BY <2>1, <1>2 DEF Sound
    <3> QED BY <1>1, <1>5, <3>1, OnlyType DEF Marks
  <2> QED BY <1>3, <1>6, <2>2, <2>3
<1>10. \E z \in T : /\ z.k = Fresh(c.primary, c.extras)
                    /\ \A type \in Replayed : z.n[type] = 0
  BY DEF Trail
<1>11. y \in T
  OBVIOUS
<1> QED BY <1>4, <1>8, <1>9, <1>10, <1>11 DEF Trail, y

\* Events the replay does not read leave the trail.
LEMMA TrailSame ==
  ASSUME NEW S, NEW c, NEW lg, NEW lg2 \in Seq(EventSet), NEW u,
         Trail(S, c, lg, u),
         \A type \in Replayed : Only(lg2, type) = Only(lg, type)
  PROVE  Trail(S, c, lg2, u)
<1>1. lg \in Seq(EventSet)
  BY DEF Trail
<1>2. Longer(lg, lg2)
  BY <1>1, OnlyType DEF Longer, LongIn
<1>3. Mark(u, lg2) = Mark(u, lg)
  BY DEF Mark
<1>4. \A x \in S : Sound(lg2, x) /\ x \in Marks
  BY <1>1, <1>2, SoundStays DEF Trail, Sound
<1>5. ASSUME NEW x \in S \ {Mark(u, lg2)}
      PROVE  \E y \in S : Step(c, lg2, x, y)
  <2>1. PICK y \in S : Step(c, lg, x, y)
    BY <1>3 DEF Trail
  <2>2. Step(c, lg2, x, y)
    BY <1>1, <1>2, <1>4, <2>1, StepStays
  <2> QED BY <2>2
<1>6. "decision" \in Replayed
  BY DEF Replayed
<1>7. Only(lg2, "decision") = Only(lg, "decision")
  BY <1>6
<1> QED BY <1>3, <1>4, <1>5, <1>7 DEF Trail

-----------------------------------------------------------------------------
(* What the pieces of a log add. *)

Silent(more) == \A type \in Replayed : Adds(more, type, <<>>)

LEMMA NothingSilent == Silent(<<>>)
<1>1. <<>> \in Seq(EventSet) /\ Len(<<>>) = 0
  BY EmptySeq
<1>2. \A type \in Replayed : Without(<<>>, type)
  BY <1>1 DEF Without
<1> QED BY <1>1, <1>2, AddsNone DEF Silent

LEMMA AddsOther ==
  ASSUME NEW e \in EventSet, NEW type, e.type # type
  PROVE  Adds(<<e>>, type, <<>>)
<1>1. <<e>> \in Seq(EventSet) /\ Len(<<e>>) = 1 /\ <<e>>[1] = e
  OBVIOUS
<1>2. Without(<<e>>, type)
  BY <1>1 DEF Without
<1> QED BY <1>1, <1>2, AddsNone

LEMMA StatefulSilent ==
  ASSUME NEW type \in Naming \cup Opening, NEW id \in Ids
  PROVE  Silent(<<Stateful(type, id)>>) /\ <<Stateful(type, id)>> \in Seq(EventSet)
<1> DEFINE e == Stateful(type, id)
<1>1. type \in Types /\ type \notin Replayed
  BY DEF Types, Naming, Opening, Replayed
<1>2. id \in Ids \cup {NoId}
  OBVIOUS
<1>3. e \in EventSet /\ e.type = type
  BY <1>1, <1>2, StatefulType
<1> HIDE DEF e
<1>4. Silent(<<e>>)
  BY <1>1, <1>3, AddsOther DEF Silent
<1>5. <<e>> \in Seq(EventSet)
  BY <1>3
<1> QED BY <1>4, <1>5 DEF e

LEMMA ObservationsSilent ==
  ASSUME NEW u, Shape(u), NEW n \in 0 .. Len(Tracked(u))
  PROVE  Silent(Observations(u, n)) /\ Observations(u, n) \in Seq(EventSet)
<1> DEFINE o == Observations(u, n)
<1>1. o \in Seq(EventSet)
  BY ObservationsQuiet
<1>2. /\ Tracked(u) \in Seq(Ids) /\ Len(Tracked(u)) \in Nat
  BY TrackedType
<1>3. Len(o) = n
  BY <1>1, <1>2, LenProperties DEF Observations
<1> DEFINE t == "position_observation"
<1>4. t \in Types /\ t \notin Replayed
  BY DEF Types, Replayed
<1>5. \A j \in 1 .. n : o[j] = Stateful(t, Tracked(u)[j])
  BY DEF Observations
<1> HIDE DEF t, o
<1>6. ASSUME NEW j \in 1 .. n PROVE o[j].type = t
  <2>1. Tracked(u)[j] \in Ids
    <3>1. j \in 1 .. Len(Tracked(u))
      BY <1>2
    <3> QED BY <1>2, <3>1, ElementOfSeq
  <2>2. Tracked(u)[j] \in Ids \cup {NoId}
    BY <2>1
  <2> QED BY <1>4, <1>5, <2>2, StatefulType
<1>7. \A type \in Replayed : Without(o, type)
  BY <1>3, <1>4, <1>6 DEF Without
<1> QED BY <1>1, <1>7, AddsNone DEF Silent, o

LEMMA SilentJoin ==
  ASSUME NEW a \in Seq(EventSet), NEW b \in Seq(EventSet), Silent(a), Silent(b)
  PROVE  Silent(a \o b)
BY AddsSecond DEF Silent

LEMMA OpenedSilent ==
  ASSUME NEW ids \in Seq(Ids)
  PROVE  LET o == [j \in 1 .. Len(ids) |->
                      Stateful("position_liquidity_added", ids[j])]
         IN o \in Seq(EventSet) /\ Silent(o)
<1> DEFINE t == "position_liquidity_added"
<1> DEFINE o == [j \in 1 .. Len(ids) |-> Stateful(t, ids[j])]
<1>1. o \in Seq(EventSet) /\ Len(o) = Len(ids)
  BY PlainOpened DEF Plain
<1>2. t \in Types /\ t \notin Replayed
  BY DEF Types, Replayed
<1>3. \A j \in 1 .. Len(ids) : o[j] = Stateful(t, ids[j])
  OBVIOUS
<1> HIDE DEF t, o
<1>4. ASSUME NEW j \in 1 .. Len(ids) PROVE o[j].type = t
  <2>1. ids[j] \in Ids
    BY ElementOfSeq
  <2>2. ids[j] \in Ids \cup {NoId}
    BY <2>1
  <2> QED BY <1>2, <1>3, <2>2, StatefulType
<1>5. \A type \in Replayed : Without(o, type)
  BY <1>1, <1>2, <1>4 DEF Without
<1>6. o \in Seq(EventSet) /\ Silent(o)
  BY <1>1, <1>5, AddsNone DEF Silent
<1> QED BY <1>6 DEF o, t

\* The replay reads nothing of what is told of a position.
LEMMA ToldSilent ==
  ASSUME NEW u, Shape(u), Calling(u), NEW a \in AnswersTo(u)
  PROVE  Silent(Told(u, a)) /\ Told(u, a) \in Seq(EventSet)
<1>1. u.pc \in CallPcs /\ u.bin \in BinNames /\ u.primary \in Ids \cup {NoId}
      /\ u.todo \in Seq(Ids)
  BY DEF Calling, Shape, Body, KeeperSet, CallPcs
<1>2. Told(u, a) \in Seq(EventSet)
  BY ToldPlain DEF Plain
<1>3. /\ "position_created" \in Naming \cup Opening
      /\ "position_liquidity_added" \in Naming \cup Opening
      /\ "position_withdrawn" \in Naming \cup Opening
      /\ "position_closed" \in Naming \cup Opening
  BY DEF Naming, Opening
<1>4. CASE ~a.ok
  BY <1>4, NothingSilent DEF Told
<1>5. CASE a.ok /\ u.pc \in {"bid", "ask"}
  <2> DEFINE leg == Leg(u.pc, u.bin)
  <2> DEFINE type == IF u.pc = "bid" THEN "position_created"
                     ELSE "position_liquidity_added"
  <2>1. a.ids = <<leg>> /\ leg \in Ids
    BY <1>1, <1>5, AnswerIds, LegsAreIds DEF Shape, Fits
  <2>2. Told(u, a) = <<Stateful(type, a.ids[1])>>
    BY <1>5 DEF Told
  <2>3. type \in Naming \cup Opening
    BY <1>3
  <2> HIDE DEF leg, type
  <2>4. Told(u, a) = <<Stateful(type, leg)>>
    BY <2>1, <2>2
  <2> QED BY <1>2, <2>1, <2>3, <2>4, StatefulSilent
<1>6. CASE a.ok /\ u.pc = "extra"
  <2>1. Head(u.todo) \in Ids
    BY <1>1, <1>6, HeadMember DEF Shape, Fits
  <2>2. Told(u, a) = <<Stateful("position_withdrawn", Head(u.todo))>>
    BY <1>6 DEF Told
  <2> QED BY <1>2, <1>3, <2>1, <2>2, StatefulSilent
<1>7. CASE a.ok /\ u.pc = "withdraw"
  <2>1. u.primary \in Ids
    BY <1>1, <1>7 DEF Shape, Fits
  <2> DEFINE type == IF u.routine = "emergency" THEN "position_closed"
                     ELSE "position_withdrawn"
  <2>2. Told(u, a) = <<Stateful(type, u.primary)>>
    BY <1>7 DEF Told
  <2>3. type \in Naming \cup Opening
    BY <1>3
  <2> HIDE DEF type
  <2> QED BY <1>2, <2>1, <2>2, <2>3, StatefulSilent
<1>8. CASE a.ok /\ u.pc = "bundle"
  <2>1. u.primary \in Ids
    BY <1>1, <1>8 DEF Shape, Body, Fits
  <2> DEFINE gone == <<Stateful("position_withdrawn", u.primary)>>
  <2> DEFINE o == [j \in 1 .. Len(a.ids) |->
                      Stateful("position_liquidity_added", a.ids[j])]
  <2>2. Told(u, a) = gone \o o
    BY <1>8 DEF Told
  <2>3. Silent(gone) /\ gone \in Seq(EventSet)
    BY <1>3, <2>1, StatefulSilent
  <2>4. a.ids \in Seq(Ids)
    BY DEF AnswersTo
  <2>5. o \in Seq(EventSet) /\ Silent(o)
    BY <2>4, OpenedSilent
  <2> HIDE DEF gone, o
  <2> QED BY <1>2, <2>2, <2>3, <2>5, SilentJoin
<1>9. CASE a.ok /\ u.pc = "swap"
  BY <1>2, <1>9, NothingSilent DEF Told
<1>10. a.ok \in BOOLEAN
  BY DEF AnswersTo
<1> QED BY <1>1, <1>2, <1>4, <1>5, <1>6, <1>7, <1>8, <1>9, <1>10 DEF CallPcs

\* What is read of an event alone.
LEMMA EventAdds ==
  ASSUME NEW e \in EventSet, NEW type, e.type = type
  PROVE  /\ <<e>> \in Seq(EventSet) /\ Adds(<<e>>, type, <<e>>)
         /\ \A other \in Replayed : other # type => Adds(<<e>>, other, <<>>)
BY AddsOne, AddsOther

-----------------------------------------------------------------------------
(* The steps of a run make its trail.                                       *)

Inputs == {"sentinel_check", "state_observation", "action_result"}

\* The inputs of a log are those of more, beyond those that were there.
Carries(lg, more, lg2) ==
    \A type \in Inputs : \A s :
        Adds(more, type, s) => Only(lg2, type) = Only(lg, type) \o s

\* A keeper that comes to j after more has asked for it in the log.
LEMMA ComesAsks ==
  ASSUME NEW lg \in Seq(EventSet), NEW more \in Seq(EventSet),
         Adds(more, "action_request", <<>>), Adds(more, "decision", <<>>),
         NEW n, NEW act \in CycleActs, NEW j, NEW X, Goes(n, act, j, X),
         NEW lg2, lg2 = lg \o more \o Written(j), NEW u
  PROVE  /\ lg2 \in Seq(EventSet)
         /\ Asks(lg2, Mark(u, lg), Mark(Rested(j), lg2), j)
         /\ LongIn(lg, lg2, "action_request") /\ LongIn(lg, lg2, "decision")
         /\ Carries(lg, more, lg2)
<1> DEFINE mid == lg \o more
<1> DEFINE w == Written(j)
<1> DEFINE y == Mark(Rested(j), lg2)
<1>1. mid \in Seq(EventSet)
  BY Joined
<1>2. Shape(j) /\ j.act # "clean stop" /\ (j.pc = "end" \/ Calling(j))
  BY DEF Goes, CycleActs
<1>3. w \in Seq(EventSet)
  BY <1>2, WrittenType
<1>4. /\ "action_request" \in Replayed /\ "decision" \in Replayed
      /\ Inputs \subseteq Replayed /\ "action_request" \notin Inputs
      /\ "decision" \notin Inputs
  BY DEF Replayed, Inputs
<1>5. /\ Only(mid, "action_request") = Only(lg, "action_request") \o <<>>
      /\ Only(mid, "decision") = Only(lg, "decision") \o <<>>
  BY DEF Adds
<1>6. /\ Only(mid, "action_request") = Only(lg, "action_request")
      /\ Only(mid, "decision") = Only(lg, "decision")
  BY <1>4, <1>5, NoneOf
<1>7. lg2 = mid \o w
  OBVIOUS
<1> HIDE DEF w
<1>8. lg2 \in Seq(EventSet)
  BY <1>1, <1>3, <1>7, Joined
<1>9. \A type \in Inputs : \A s :
         Adds(more, type, s) => Only(mid, type) = Only(lg, type) \o s
  BY DEF Adds
<1> HIDE DEF mid
<1>10. \A type, s : Adds(w, type, s) => Only(lg2, type) = Only(mid, type) \o s
  BY <1>1, <1>7 DEF Adds
<1>11. ASSUME NEW type \in Replayed, Adds(w, type, <<>>)
       PROVE  Only(lg2, type) = Only(mid, type)
  BY <1>1, <1>10, <1>11, NoneOf
<1>12. y.k = Rested(j)
  BY DEF Mark
<1>13. CASE Calling(j)
  <2> DEFINE e == Logged(j)
  <2> DEFINE t == "action_request"
  <2>1. e \in EventSet /\ e.type = t /\ w = <<e>>
    BY <1>2, <1>13, LoggedType DEF w
  <2> HIDE DEF e
  <2>2. Adds(w, t, <<e>>) /\ \A other \in Replayed : other # t => Adds(w, other, <<>>)
    BY <2>1, EventAdds
  <2>3. Only(lg2, t) = Only(lg, t) \o <<e>>
    BY <1>6, <1>10, <2>2
  <2>4. One(lg2, Mark(u, lg), y, t, e) /\ LongIn(lg, lg2, t)
    BY <1>4, <2>1, <2>3, OneOf
  <2>5. Only(lg2, "decision") = Only(mid, "decision")
    BY <1>4, <1>11, <2>2
  <2>6. None(Mark(u, lg), y, "decision") /\ LongIn(lg, lg2, "decision")
    BY <1>4, <1>5, <2>5, NoneOf
  <2>7. \A type \in Inputs : Only(lg2, type) = Only(mid, type)
    BY <1>4, <1>11, <2>2
  <2>8. Asks(lg2, Mark(u, lg), y, j)
    BY <1>2, <1>12, <1>13, <2>4, <2>6 DEF Asks, e
  <2> QED BY <1>8, <1>9, <2>4, <2>6, <2>7, <2>8 DEF Carries
<1>14. CASE ~Calling(j)
  <2> DEFINE e == Decided(j)
  <2> DEFINE t == "decision"
  <2>0. j.pc = "end" /\ Written(j) = <<Decided(j)>>
    BY <1>2, <1>14, WrittenAtRest
  <2>1. e \in EventSet /\ e.type = t /\ w = <<e>>
    BY <1>2, <2>0, DecidedType DEF w
  <2> HIDE DEF e
  <2>2. Adds(w, t, <<e>>) /\ \A other \in Replayed : other # t => Adds(w, other, <<>>)
    BY <2>1, EventAdds
  <2>3. Only(lg2, t) = Only(lg, t) \o <<e>>
    BY <1>6, <1>10, <2>2
  <2>4. One(lg2, Mark(u, lg), y, t, e) /\ LongIn(lg, lg2, t)
    BY <1>4, <2>1, <2>3, OneOf
  <2>5. Only(lg2, "action_request") = Only(mid, "action_request")
    BY <1>4, <1>11, <2>2
  <2>6. /\ None(Mark(u, lg), y, "action_request")
        /\ LongIn(lg, lg2, "action_request")
    BY <1>4, <1>5, <2>5, NoneOf
  <2>7. \A type \in Inputs : Only(lg2, type) = Only(mid, type)
    BY <1>4, <1>11, <2>2
  <2>8. Asks(lg2, Mark(u, lg), y, j)
    BY <1>2, <1>12, <2>0, <2>4, <2>6 DEF Asks, e
  <2> QED BY <1>8, <1>9, <2>4, <2>6, <2>7, <2>8 DEF Carries
<1> QED BY <1>13, <1>14

\* A cycle that reads r: what is logged of the sentinel and the state.
Looks(more, r) ==
    /\ more \in Seq(EventSet) /\ Adds(more, "sentinel_check", Checks(FALSE))
    /\ Adds(more, "state_observation", <<Observed(r)>>)
    /\ \A type \in Replayed \ {"sentinel_check", "state_observation"} :
          Adds(more, type, <<>>)

LEMMA ReadLooks ==
  ASSUME NEW r \in Reads
  PROVE  Looks(Checks(FALSE) \o <<Observed(r)>>, r)
<1> DEFINE a == Checks(FALSE)
<1> DEFINE e == Observed(r)
<1> DEFINE b == <<e>>
<1>1. e \in EventSet /\ e.type = "state_observation"
  BY ObservedType
<1>2. "sentinel_check" \in Replayed /\ "state_observation" \in Replayed
  BY DEF Replayed
<1>3. /\ a \in Seq(EventSet) /\ Adds(a, "sentinel_check", a)
      /\ \A type \in Replayed : type # "sentinel_check" => Adds(a, type, <<>>)
  <2> DEFINE f == Checked(FALSE)
  <2>1. f \in EventSet /\ f.type = "sentinel_check"
    BY CheckedType
  <2>2. a = IF cfg.path THEN <<f>> ELSE <<>>
    BY DEF Checks
  <2> HIDE DEF f, a
  <2>3. CASE cfg.path
    BY <2>1, <2>2, <2>3, EventAdds
  <2>4. CASE ~cfg.path
    <3>1. a = <<>> /\ <<>> \in Seq(EventSet)
      BY <2>2, <2>4, EmptySeq
    <3>2. \A type \in Replayed : Adds(<<>>, type, <<>>)
      BY NothingSilent DEF Silent
    <3> QED BY <1>2, <3>1, <3>2
  <2> QED BY <2>3, <2>4
<1> HIDE DEF a, e
<1>4. /\ b \in Seq(EventSet) /\ Adds(b, "state_observation", b)
      /\ \A type \in Replayed : type # "state_observation" => Adds(b, type, <<>>)
  BY <1>1, EventAdds
<1> HIDE DEF b
<1>5. a \o b \in Seq(EventSet)
  BY <1>3, <1>4, Joined
<1>6. Adds(a \o b, "sentinel_check", a)
  <2>1. "sentinel_check" # "state_observation"
    OBVIOUS
  <2>2. Adds(b, "sentinel_check", <<>>)
    BY <1>2, <1>4, <2>1
  <2> QED BY <1>3, <1>4, <2>2, AddsFirst
<1>7. Adds(a \o b, "state_observation", b)
  <2>1. "sentinel_check" # "state_observation"
    OBVIOUS
  <2>2. Adds(a, "state_observation", <<>>)
    BY <1>2, <1>3, <2>1
  <2> QED BY <1>3, <1>4, <2>2, AddsSecond
<1>8. ASSUME NEW type \in Replayed \ {"sentinel_check", "state_observation"}
      PROVE  Adds(a \o b, type, <<>>)
  <2>1. Adds(a, type, <<>>) /\ Adds(b, type, <<>>)
    BY <1>3, <1>4
  <2> QED BY <1>3, <1>4, <2>1, AddsSecond
<1> QED BY <1>5, <1>6, <1>7, <1>8 DEF Looks, a, b, e

LEMMA LooksFirst ==
  ASSUME NEW a, NEW r \in Reads, Looks(a, r), NEW b \in Seq(EventSet), Silent(b)
  PROVE  Looks(a \o b, r)
<1> DEFINE c == Checks(FALSE)
<1> DEFINE o == <<Observed(r)>>
<1>1. "sentinel_check" \in Replayed /\ "state_observation" \in Replayed
  BY DEF Replayed
<1>2. c \in Seq(EventSet) /\ o \in Seq(EventSet) /\ <<>> \in Seq(EventSet)
  BY ChecksQuiet, ObservedQuiet, EmptySeq
<1>3. /\ a \in Seq(EventSet) /\ Adds(a, "sentinel_check", c)
      /\ Adds(a, "state_observation", o)
  BY DEF Looks
<1> HIDE DEF c, o
<1>4. a \o b \in Seq(EventSet)
  BY <1>3, Joined
<1>5. \A type \in Replayed : Adds(b, type, <<>>)
  BY DEF Silent
<1>6. Adds(a \o b, "sentinel_check", c)
  BY <1>1, <1>2, <1>3, <1>5, AddsFirst
<1>7. Adds(a \o b, "state_observation", o)
  BY <1>1, <1>2, <1>3, <1>5, AddsFirst
<1>8. ASSUME NEW type \in Replayed \ {"sentinel_check", "state_observation"}
      PROVE  Adds(a \o b, type, <<>>)
  <2>1. Adds(a, type, <<>>) /\ Adds(b, type, <<>>)
    BY <1>5 DEF Looks
  <2> QED BY <1>3, <2>1, AddsSecond
<1> QED BY <1>4, <1>6, <1>7, <1>8 DEF Looks, c, o

\* An input a cycle or a call had, or had not.
LEMMA InputTold ==
  ASSUME NEW lg \in Seq(EventSet), NEW lg2, NEW more, NEW u, NEW v,
         Carries(lg, more, lg2), NEW type \in Inputs
  PROVE  /\ Adds(more, type, <<>>) =>
               None(Mark(u, lg), Mark(v, lg2), type) /\ LongIn(lg, lg2, type)
         /\ \A e \in EventSet : Adds(more, type, <<e>>) =>
               One(lg2, Mark(u, lg), Mark(v, lg2), type, e) /\ LongIn(lg, lg2, type)
<1>1. type \in Replayed
  BY DEF Inputs, Replayed
<1>2. ASSUME Adds(more, type, <<>>)
      PROVE  None(Mark(u, lg), Mark(v, lg2), type) /\ LongIn(lg, lg2, type)
  <2>1. Only(lg2, type) = Only(lg, type) \o <<>>
    BY <1>2 DEF Carries
  <2> QED BY <1>1, <2>1, NoneOf
<1>3. ASSUME NEW e \in EventSet, Adds(more, type, <<e>>)
      PROVE  /\ One(lg2, Mark(u, lg), Mark(v, lg2), type, e)
             /\ LongIn(lg, lg2, type)
  <2>1. Only(lg2, type) = Only(lg, type) \o <<e>>
    BY <1>3 DEF Carries
  <2> QED BY <1>1, <2>1, OneOf
<1> QED BY <1>2, <1>3

\* The cycles that leave a trail.
TellsCycle(u, more, j) ==
    \/ u.halted /\ j = Ends(u, "halted") /\ Silent(more)
    \/ /\ ~u.halted /\ cfg.path /\ j = Killed(u)
       /\ Adds(more, "sentinel_check", <<Checked(TRUE)>>)
       /\ Adds(more, "state_observation", <<>>)
    \/ ~u.halted /\ \E r \in Readings : Looks(more, r) /\ j = Planned(u, r)
    \/ /\ ~u.halted /\ Looks(more, NoReading("failed"))
       /\ j = Ends(u, "no_state")

LEMMA CycleGrows ==
  ASSUME NEW S, NEW lg, NEW lg2, NEW u, Trail(S, cfg, lg, u), u.pc = "idle",
         NEW more \in Seq(EventSet), Adds(more, "action_request", <<>>),
         Adds(more, "action_result", <<>>), Adds(more, "decision", <<>>),
         NEW n, NEW act \in CycleActs, NEW j, NEW X, Goes(n, act, j, X),
         lg2 = lg \o more \o Written(j), TellsCycle(u, more, j)
  PROVE  \E T : Trail(T, cfg, lg2, Rested(j))
<1> DEFINE v == Rested(j)
<1> DEFINE x == Mark(u, lg)
<1> DEFINE y == Mark(v, lg2)
<1>1. lg \in Seq(EventSet)
  BY DEF Trail
<1>2. /\ lg2 \in Seq(EventSet) /\ Asks(lg2, x, y, j)
      /\ LongIn(lg, lg2, "action_request") /\ LongIn(lg, lg2, "decision")
      /\ Carries(lg, more, lg2)
  BY <1>1, ComesAsks
<1>3. ASSUME NEW type \in Inputs
      PROVE  /\ Adds(more, type, <<>>) => None(x, y, type) /\ LongIn(lg, lg2, type)
             /\ \A e \in EventSet : Adds(more, type, <<e>>) =>
                   One(lg2, x, y, type, e) /\ LongIn(lg, lg2, type)
  BY <1>1, <1>2, <1>3, InputTold
<1>4. x.k = u
  BY DEF Mark
<1>5. /\ "sentinel_check" \in Inputs /\ "state_observation" \in Inputs
      /\ "action_result" \in Inputs
      /\ Replayed = Inputs \cup {"action_request", "decision"}
  BY DEF Inputs, Replayed
<1> HIDE DEF x, y
<1>6. None(x, y, "action_result") /\ LongIn(lg, lg2, "action_result")
  BY <1>3, <1>5
<1>7. ASSUME LongIn(lg, lg2, "sentinel_check"), LongIn(lg, lg2, "state_observation"),
             HaltedStep(lg2, x, y) \/ SentinelStep(cfg, lg2, x, y)
                \/ PlannedStep(cfg, lg2, x, y) \/ BlindStep(cfg, lg2, x, y)
      PROVE  \E T : Trail(T, cfg, lg2, v)
  <2>1. Longer(lg, lg2)
    BY <1>2, <1>6, <1>7 DEF Longer, Replayed
  <2>2. Step(cfg, lg2, x, y)
    BY <1>4, <1>6, <1>7 DEF Step, CycleStep
  <2>3. Trail(S \cup {y}, cfg, lg2, v)
    BY <1>2, <2>1, <2>2, TrailGrows DEF x, y
  <2> QED BY <2>3
<1>8. CASE u.halted /\ j = Ends(u, "halted") /\ Silent(more)
  <2>1. \A type \in Inputs : None(x, y, type) /\ LongIn(lg, lg2, type)
    BY <1>3, <1>5, <1>8 DEF Silent
  <2>2. HaltedStep(lg2, x, y)
    BY <1>2, <1>4, <1>5, <1>8, <2>1 DEF HaltedStep, NoInput
  <2> QED BY <1>5, <1>7, <2>1, <2>2
<1>9. CASE /\ ~u.halted /\ cfg.path /\ j = Killed(u)
           /\ Adds(more, "sentinel_check", <<Checked(TRUE)>>)
           /\ Adds(more, "state_observation", <<>>)
  <2>1. Checked(TRUE) \in EventSet
    BY CheckedType
  <2>2. /\ One(lg2, x, y, "sentinel_check", Checked(TRUE))
        /\ LongIn(lg, lg2, "sentinel_check")
        /\ None(x, y, "state_observation") /\ LongIn(lg, lg2, "state_observation")
    BY <1>3, <1>5, <1>9, <2>1
  <2>3. SentinelStep(cfg, lg2, x, y)
    BY <1>2, <1>4, <1>9, <2>2 DEF SentinelStep
  <2> QED BY <1>7, <2>2, <2>3
<1>10. ASSUME NEW r \in Reads, Looks(more, r)
       PROVE  /\ NoSentinel(cfg, lg2, x, y) /\ LongIn(lg, lg2, "sentinel_check")
              /\ One(lg2, x, y, "state_observation", Observed(r))
              /\ LongIn(lg, lg2, "state_observation")
  <2>1. Checked(FALSE) \in EventSet /\ Observed(r) \in EventSet
    BY CheckedType, ObservedType
  <2>2. /\ One(lg2, x, y, "state_observation", Observed(r))
        /\ LongIn(lg, lg2, "state_observation")
    BY <1>3, <1>5, <1>10, <2>1 DEF Looks
  <2>3. CASE cfg.path
    <3>1. Adds(more, "sentinel_check", <<Checked(FALSE)>>)
      BY <1>10, <2>3 DEF Looks, Checks
    <3>2. /\ One(lg2, x, y, "sentinel_check", Checked(FALSE))
          /\ LongIn(lg, lg2, "sentinel_check")
      BY <1>3, <1>5, <2>1, <3>1
    <3> QED BY <2>2, <2>3, <3>2 DEF NoSentinel
  <2>4. CASE ~cfg.path
    <3>1. Adds(more, "sentinel_check", <<>>)
      BY <1>10, <2>4 DEF Looks, Checks
    <3>2. None(x, y, "sentinel_check") /\ LongIn(lg, lg2, "sentinel_check")
      BY <1>3, <1>5, <3>1
    <3> QED BY <2>2, <2>4, <3>2 DEF NoSentinel
  <2> QED BY <2>3, <2>4
<1>11. Readings \subseteq Reads /\ NoReading("failed") \in Reads
  BY Zenon DEF Reads
<1>12. CASE ~u.halted /\ \E r \in Readings : Looks(more, r) /\ j = Planned(u, r)
  <2>1. PICK r \in Readings : Looks(more, r) /\ j = Planned(u, r)
    BY <1>12
  <2>2. /\ NoSentinel(cfg, lg2, x, y) /\ LongIn(lg, lg2, "sentinel_check")
        /\ One(lg2, x, y, "state_observation", Observed(r))
        /\ LongIn(lg, lg2, "state_observation")
    BY <1>10, <1>11, <2>1
  <2>3. PlannedStep(cfg, lg2, x, y)
    BY <1>2, <1>4, <1>12, <2>1, <2>2 DEF PlannedStep
  <2> QED BY <1>7, <2>2, <2>3
<1>13. CASE /\ ~u.halted /\ Looks(more, NoReading("failed"))
            /\ j = Ends(u, "no_state")
  <2>1. /\ NoSentinel(cfg, lg2, x, y) /\ LongIn(lg, lg2, "sentinel_check")
        /\ One(lg2, x, y, "state_observation", Observed(NoReading("failed")))
        /\ LongIn(lg, lg2, "state_observation")
    BY <1>10, <1>11, <1>13
  <2>2. BlindStep(cfg, lg2, x, y)
    BY <1>2, <1>4, <1>13, <2>1 DEF BlindStep
  <2> QED BY <1>7, <2>1, <2>2
<1> QED BY <1>8, <1>9, <1>12, <1>13 DEF TellsCycle

LEMMA AnswerGrows ==
  ASSUME NEW S, NEW lg, NEW lg2, NEW u, Trail(S, cfg, lg, u), Shape(u),
         Calling(u), NEW a \in AnswersTo(u), ~a.unknown, NEW n,
         NEW act \in CycleActs, NEW X, Goes(n, act, Answered(u, a), X),
         lg2 = lg \o (<<Result(u, a)>> \o Told(u, a)) \o Written(Answered(u, a))
  PROVE  \E T : Trail(T, cfg, lg2, Rested(Answered(u, a)))
<1> DEFINE j == Answered(u, a)
<1> DEFINE v == Rested(j)
<1> DEFINE x == Mark(u, lg)
<1> DEFINE y == Mark(v, lg2)
<1> DEFINE e == Result(u, a)
<1> DEFINE told == Told(u, a)
<1> DEFINE more == <<e>> \o told
<1>1. lg \in Seq(EventSet)
  BY DEF Trail
<1>2. e \in EventSet /\ e.type = "action_result"
  BY ResultType
<1>3. told \in Seq(EventSet) /\ Silent(told)
  BY ToldSilent
<1>4. "action_result" \in Inputs /\ Inputs \subseteq Replayed
      /\ "action_result" \in Replayed
      /\ Replayed = Inputs \cup {"action_request", "decision"}
  BY DEF Inputs, Replayed
<1> HIDE DEF e, told
<1>5. /\ more \in Seq(EventSet) /\ Adds(more, "action_result", <<e>>)
      /\ \A type \in Replayed : type # "action_result" => Adds(more, type, <<>>)
  <2> DEFINE one == <<e>>
  <2>1. /\ one \in Seq(EventSet) /\ Adds(one, "action_result", one)
        /\ \A type \in Replayed : type # "action_result" => Adds(one, type, <<>>)
    BY <1>2, EventAdds
  <2> HIDE DEF one
  <2>2. one \o told \in Seq(EventSet)
    BY <1>3, <2>1, Joined
  <2>3. Adds(one \o told, "action_result", one)
    BY <1>3, <1>4, <2>1, AddsFirst DEF Silent
  <2>4. ASSUME NEW type \in Replayed, type # "action_result"
        PROVE  Adds(one \o told, type, <<>>)
    <3>1. Adds(one, type, <<>>) /\ Adds(told, type, <<>>)
      BY <1>3, <2>1, <2>4 DEF Silent
    <3> QED BY <1>3, <2>1, <3>1, AddsSecond
  <2> QED BY <2>2, <2>3, <2>4 DEF one
<1>6. lg2 = lg \o more \o Written(j)
  BY DEF e, told
<1> HIDE DEF j, more
<1>7. Goes(n, act, j, X)
  BY DEF j
<1>8. Adds(more, "action_request", <<>>) /\ Adds(more, "decision", <<>>)
  BY <1>5 DEF Replayed
<1>9. /\ lg2 \in Seq(EventSet) /\ Asks(lg2, x, y, j)
      /\ LongIn(lg, lg2, "action_request") /\ LongIn(lg, lg2, "decision")
      /\ Carries(lg, more, lg2)
  BY <1>1, <1>5, <1>6, <1>7, <1>8, ComesAsks
<1>10. One(lg2, x, y, "action_result", e) /\ LongIn(lg, lg2, "action_result")
  BY <1>1, <1>2, <1>4, <1>5, <1>9, InputTold
<1>11. ASSUME NEW type \in Inputs, type # "action_result"
       PROVE  None(x, y, type) /\ LongIn(lg, lg2, type)
  <2>1. Adds(more, type, <<>>)
    BY <1>4, <1>5, <1>11
  <2> QED BY <1>1, <1>9, <2>1, InputTold
<1>12. x.k = u
  BY DEF Mark
<1> HIDE DEF x, y
<1>13. Longer(lg, lg2)
  BY <1>4, <1>9, <1>10, <1>11 DEF Longer
<1>14. NoInput(x, y)
  BY <1>11 DEF NoInput, Inputs
<1>15. AnswerStep(lg2, x, y)
  BY <1>9, <1>10, <1>12, <1>14 DEF AnswerStep, j, e
<1>16. Trail(S \cup {y}, cfg, lg2, v)
  BY <1>9, <1>13, <1>15, TrailGrows DEF Step, x, y
<1> QED BY <1>16 DEF j

-----------------------------------------------------------------------------
(* The run, while nothing goes wrong that its log does not tell.            *)

LiveAgrees ==
    causes = {} =>
        /\ lost = {} /\ k.act \in CycleActs
        /\ phase # "running" => k.pc = "idle"
        /\ \E S : Trail(S, cfg, log, k)

LEMMA RestedAct ==
  ASSUME NEW n, NEW act \in CycleActs, NEW v, NEW X, Goes(n, act, v, X)
  PROVE  Rested(v).act \in CycleActs
<1>1. "none" \in CycleActs
  BY DEF CycleActs, Acts
<1>2. v \in KeeperSet /\ v.act \in CycleActs
  BY DEF Goes, Shape, Body
<1>3. Left(v).act = "none"
  BY <1>2 DEF Left, KeeperSet
<1> QED BY <1>1, <1>2, <1>3 DEF Rested

LEMMA CycleAgrees ==
  ASSUME LiveAgrees, Begins, NEW more \in Seq(EventSet),
         Adds(more, "action_request", <<>>), Adds(more, "action_result", <<>>),
         Adds(more, "decision", <<>>), NEW n, NEW act \in CycleActs, NEW j,
         NEW X, Goes(n, act, j, X), TellsCycle(k, more, j), Comes(j, more),
         causes = {}, lost' = lost
  PROVE  LiveAgrees'
<1>1. /\ k.pc = "idle" /\ phase' = "running" /\ cfg' = cfg
      /\ lost' = {} /\ \E S : Trail(S, cfg, log, k)
  BY DEF Begins, LiveAgrees
<1>2. k' = Rested(j) /\ log' = log \o more \o Written(j)
  BY DEF Comes
<1>3. PICK S : Trail(S, cfg, log, k)
  BY <1>1
<1>4. \E T : Trail(T, cfg, log', Rested(j))
  BY <1>1, <1>2, <1>3, CycleGrows
<1>5. Rested(j).act \in CycleActs
  BY RestedAct
<1> QED BY <1>1, <1>2, <1>4, <1>5 DEF LiveAgrees

\* What a cycle logs of no type but those it reads.
LEMMA LooksAdds ==
  ASSUME NEW more, NEW r, Looks(more, r)
  PROVE  /\ more \in Seq(EventSet) /\ Adds(more, "action_request", <<>>)
         /\ Adds(more, "action_result", <<>>) /\ Adds(more, "decision", <<>>)
BY DEF Looks, Replayed

LEMMA CyclesAgree ==
  ASSUME AuditInv, RerunAssumption, LiveAgrees, Begins, lost' = lost
  PROVE  /\ HaltedCycle => LiveAgrees'
         /\ SentinelCycle => LiveAgrees'
         /\ \A r \in Readings : PlannedCycle(r) => LiveAgrees'
         /\ \A kind \in {"failed", "malformed"} : BlindCycle(kind) => LiveAgrees'
         /\ \A r \in Readings : RaisingCycle(r) => LiveAgrees'
<1> DEFINE X == Held(k)
<1>1. Shape(k)
  BY DEF AuditInv
<1>2. /\ "halted" \in CycleActs /\ "sentinel" \in CycleActs
      /\ "no_state" \in CycleActs /\ CycleActs \subseteq Acts
  BY DEF CycleActs, Acts
<1>3. /\ "action_request" \in Replayed /\ "action_result" \in Replayed
      /\ "decision" \in Replayed
  BY DEF Replayed
<1>4. ASSUME HaltedCycle PROVE LiveAgrees'
  <2>1. Goes(k.reqs, "halted", Ends(k, "halted"), X)
    BY <1>1, <1>2, EndsGoes
  <2>2. Comes(Ends(k, "halted"), <<>>) /\ causes' = causes /\ k.halted
    BY <1>4 DEF HaltedCycle, Even
  <2>3. <<>> \in Seq(EventSet) /\ Silent(<<>>)
    BY EmptySeq, NothingSilent
  <2>4. TellsCycle(k, <<>>, Ends(k, "halted"))
    BY <2>2, <2>3 DEF TellsCycle
  <2>5. /\ Adds(<<>>, "action_request", <<>>) /\ Adds(<<>>, "action_result", <<>>)
        /\ Adds(<<>>, "decision", <<>>)
    BY <1>3, <2>3 DEF Silent
  <2>6. CASE causes # {}
    BY <2>2, <2>6 DEF LiveAgrees
  <2>7. CASE causes = {}
    BY <1>2, <2>1, <2>2, <2>3, <2>4, <2>5, <2>7, CycleAgrees
  <2> QED BY <2>6, <2>7
<1>5. ASSUME SentinelCycle PROVE LiveAgrees'
  <2> DEFINE e == Checked(TRUE)
  <2> DEFINE t == "sentinel_check"
  <2>1. Goes(k.reqs, "sentinel", Killed(k), X)
    BY <1>1, KilledGoes
  <2>2. /\ Comes(Killed(k), <<e>>) /\ causes' = causes /\ ~k.halted /\ cfg.path
    BY <1>5 DEF SentinelCycle, Even, Checks
  <2>3. e \in EventSet /\ e.type = t
    BY CheckedType
  <2> HIDE DEF e
  <2>4. /\ <<e>> \in Seq(EventSet) /\ Adds(<<e>>, t, <<e>>)
        /\ \A other \in Replayed : other # t => Adds(<<e>>, other, <<>>)
    BY <2>3, EventAdds
  <2>5. /\ Adds(<<e>>, "action_request", <<>>) /\ Adds(<<e>>, "action_result", <<>>)
        /\ Adds(<<e>>, "decision", <<>>) /\ Adds(<<e>>, "state_observation", <<>>)
    BY <2>4 DEF Replayed
  <2>6. TellsCycle(k, <<e>>, Killed(k))
    BY <2>2, <2>4, <2>5 DEF TellsCycle, e
  <2>7. CASE causes # {}
    BY <2>2, <2>7 DEF LiveAgrees
  <2>8. CASE causes = {}
    BY <1>2, <2>1, <2>2, <2>4, <2>5, <2>6, <2>8, CycleAgrees
  <2> QED BY <2>7, <2>8
<1>6. ASSUME NEW r \in Readings, PlannedCycle(r) PROVE LiveAgrees'
  <2> DEFINE all == Observations(k, Len(Tracked(k)))
  <2> DEFINE first == Checks(FALSE) \o <<Observed(r)>>
  <2> DEFINE more == first \o all
  <2>1. PICK act \in CycleActs : Goes(k.reqs, act, Planned(k, r), X)
    BY <1>1, PlannedGoes
  <2>2. /\ Comes(Planned(k, r), more) /\ causes' = causes /\ ~k.halted
    BY <1>6 DEF PlannedCycle, Even
  <2>3. Len(Tracked(k)) \in 0 .. Len(Tracked(k)) /\ r \in Reads
    BY <1>1, TrackedType DEF Reads
  <2>4. Silent(all) /\ all \in Seq(EventSet)
    BY <1>1, <2>3, ObservationsSilent
  <2>5. Looks(first, r)
    BY <2>3, ReadLooks
  <2> HIDE DEF all, first
  <2>6. Looks(more, r)
    BY <2>3, <2>4, <2>5, LooksFirst
  <2> HIDE DEF more
  <2>7. TellsCycle(k, more, Planned(k, r))
    BY <2>2, <2>6 DEF TellsCycle
  <2>8. CASE causes # {}
    BY <2>2, <2>8 DEF LiveAgrees
  <2>9. CASE causes = {}
    BY <2>1, <2>2, <2>6, <2>7, <2>9, LooksAdds, CycleAgrees
  <2> QED BY <2>8, <2>9
<1>7. ASSUME NEW kind \in {"failed", "malformed"}, BlindCycle(kind)
      PROVE  LiveAgrees'
  <2>1. causes' = causes \cup ({kind} \ {"failed"})
    BY <1>7 DEF BlindCycle, Odd
  <2>2. CASE causes # {} \/ kind = "malformed"
    <3>1. causes' # {}
      BY <2>1, <2>2
    <3> QED BY <3>1 DEF LiveAgrees
  <2>3. CASE causes = {} /\ kind = "failed"
    <3> DEFINE r == NoReading("failed")
    <3> DEFINE more == Checks(FALSE) \o <<Observed(r)>>
    <3> DEFINE j == Ends(k, "no_state")
    <3>1. r \in Reads
      BY Zenon DEF Reads
    <3>2. Comes(j, more) /\ ~k.halted
      BY <1>7, <2>3 DEF BlindCycle
    <3>3. Looks(more, r)
      BY <3>1, ReadLooks
    <3>4. TellsCycle(k, more, j)
      BY <3>2, <3>3 DEF TellsCycle
    <3>5. Goes(k.reqs, "no_state", j, X)
      BY <1>1, <1>2, EndsGoes
    <3> HIDE DEF r, more, j
    <3>6. /\ more \in Seq(EventSet) /\ Adds(more, "action_request", <<>>)
          /\ Adds(more, "action_result", <<>>) /\ Adds(more, "decision", <<>>)
      BY <3>3, LooksAdds
    <3> QED BY <1>2, <2>3, <3>2, <3>4, <3>5, <3>6, CycleAgrees
  <2> QED BY <2>2, <2>3
<1>8. ASSUME NEW r \in Readings, RaisingCycle(r) PROVE LiveAgrees'
  <2>1. causes' = causes \cup {"raised"}
    BY <1>8 DEF RaisingCycle, Odd
  <2>2. causes' # {}
    BY <2>1
  <2> QED BY <2>2 DEF LiveAgrees
<1> QED BY <1>4, <1>5, <1>6, <1>7, <1>8

LEMMA ReturnAgrees ==
  ASSUME AuditInv, LiveAgrees, NEW a \in Answers, CallReturns(a)
  PROVE  LiveAgrees'
<1> DEFINE more == <<Result(k, a)>> \o Told(k, a)
<1> DEFINE j == Answered(k, a)
<1>1. /\ Underway /\ Comes(j, more) /\ cfg' = cfg /\ phase' = phase
      /\ lost' = lost
      /\ IF a.unknown THEN Odd({"unknown"}) ELSE Even
  BY DEF CallReturns
<1>2. Shape(k) /\ Calling(k) /\ a \in AnswersTo(k)
  BY <1>1, AnswersType DEF AuditInv, Underway
<1>3. CASE a.unknown \/ causes # {}
  <2>1. causes' # {}
    BY <1>1, <1>3 DEF Odd, Even
  <2> QED BY <2>1 DEF LiveAgrees
<1>4. CASE ~a.unknown /\ causes = {}
  <2>1. /\ lost' = {} /\ k.act \in CycleActs /\ phase' = "running"
        /\ \E S : Trail(S, cfg, log, k)
    BY <1>1, <1>2, <1>4 DEF LiveAgrees, Calling
  <2>2. PICK S : Trail(S, cfg, log, k)
    BY <2>1
  <2>3. PICK X : Goes(k.reqs, k.act, j, X)
    BY <1>1, AnsweredReady
  <2>4. k' = Rested(j) /\ log' = log \o more \o Written(j)
    BY <1>1 DEF Comes
  <2>5. \E T : Trail(T, cfg, log', Rested(j))
    BY <1>2, <1>4, <2>1, <2>2, <2>3, <2>4, AnswerGrows
  <2>6. Rested(j).act \in CycleActs
    BY <2>1, <2>3, RestedAct
  <2> QED BY <1>1, <2>1, <2>4, <2>5, <2>6 DEF LiveAgrees
<1> QED BY <1>3, <1>4

\* A soak that has no primary to withdraw stops as it is.
LEMMA StopsAsIs ==
  ASSUME Shape(k), k.pc = "idle", CleanStop, ~Calling(k')
  PROVE  k' = k /\ log' = log \o <<>> \o <<>>
<1> DEFINE act == "clean stop"
<1> DEFINE u == [k EXCEPT !.act = act]
<1> DEFINE j == CleanlyStopped(k)
<1>1. k' = Rested(j) /\ log' = log \o <<>> \o Written(j)
  BY DEF CleanStop, Comes
<1>2. Goes(k.reqs, act, j, Held(k))
  BY CleanlyStoppedGoes
<1>3. ~Calling(j)
  BY <1>1, <1>2, RestedShape
<1>4. j.pc = "end" /\ j.act = act /\ Shape(j)
  BY <1>2, <1>3 DEF Goes
<1>5. Written(j) = <<>>
  BY <1>3, <1>4, WrittenAtRest, Zenon
<1>6. j = Start(u, "stop")
  BY DEF CleanlyStopped
<1>7. act \in Acts
  BY DEF Acts
<1> HIDE DEF act, j
<1>8. /\ k \in KeeperSet /\ k.routine = "none" /\ k.act = "none"
      /\ k.todo = <<>> /\ k.kept = <<>>
  BY DEF Shape, Body, Fits
<1>9. u \in KeeperSet
  BY <1>7, <1>8 DEF KeeperSet
<1> DEFINE w == [u EXCEPT !.routine = "stop"]
<1>10. /\ w \in KeeperSet /\ w.routine = "stop" /\ w.pc = k.pc
       /\ w.primary = k.primary /\ w.extras = k.extras
       /\ w.failures = k.failures /\ w.halted = k.halted /\ w.bin = k.bin
       /\ w.base = k.base /\ w.center = k.center /\ w.reqs = k.reqs
  BY <1>7, <1>8, <1>9 DEF KeeperSet, Routines
<1>11. j = IF w.primary = NoId THEN Through(w) ELSE At(w, "withdraw")
  BY <1>6 DEF Start
<1> HIDE DEF u, w
<1>12. At(w, "withdraw").pc = "withdraw"
  BY <1>10 DEF At, KeeperSet
<1>13. j = Through(w)
  BY <1>4, <1>11, <1>12
<1>14. /\ j \in KeeperSet /\ j.primary = k.primary /\ j.extras = k.extras
       /\ j.failures = k.failures /\ j.halted = k.halted /\ j.bin = k.bin
       /\ j.base = k.base /\ j.center = k.center /\ j.reqs = k.reqs
  <2>1. j = [w EXCEPT !.pc = "end", !.halted = w.halted \/ w.routine = "emergency"]
    BY <1>13 DEF Through
  <2>2. w.halted \in BOOLEAN /\ (w.halted \/ w.routine = "emergency") = w.halted
    BY <1>10 DEF KeeperSet
  <2>3. j = [w EXCEPT !.pc = "end", !.halted = w.halted]
    BY <2>1, <2>2
  <2> QED BY <1>4, <1>10, <2>3 DEF Shape, Body, KeeperSet
<1>15. Rested(j) = Left(j)
  BY <1>4 DEF Rested
<1>16. /\ Left(j).pc = "idle" /\ Left(j).routine = "none" /\ Left(j).act = "none"
       /\ Left(j).todo = <<>> /\ Left(j).kept = <<>>
       /\ Left(j).primary = k.primary /\ Left(j).extras = k.extras
       /\ Left(j).failures = k.failures /\ Left(j).halted = k.halted
       /\ Left(j).bin = k.bin /\ Left(j).base = k.base
       /\ Left(j).center = k.center /\ Left(j).reqs = k.reqs
       /\ Left(j) \in KeeperSet
  <2>1. "none" \in Routines \cap Acts /\ <<>> \in Seq(Ids)
    BY EmptySeq DEF Routines, Acts
  <2> QED BY <1>14, <2>1 DEF Left, KeeperSet
<1> DEFINE v == Left(j)
<1> HIDE DEF v
<1>17. v = k
  BY <1>8, <1>16 DEF KeeperSet, v
<1> QED BY <1>1, <1>5, <1>15, <1>17 DEF v

LEMMA CleanStopAgrees ==
  ASSUME AuditInv, LiveAgrees, CleanStop
  PROVE  LiveAgrees'
<1>1. Shape(k) /\ k.pc = "idle" /\ cfg' = cfg /\ lost' = lost
  BY DEF CleanStop, AuditInv
<1>2. CASE Calling(k') \/ causes # {}
  <2>1. causes' # {}
    BY <1>2 DEF CleanStop
  <2> QED BY <2>1 DEF LiveAgrees
<1>3. CASE ~Calling(k') /\ causes = {}
  <2>1. k' = k /\ log' = log \o <<>> \o <<>>
    BY <1>1, <1>3, StopsAsIs
  <2>2. log \in Seq(EventSet)
    BY DEF AuditInv
  <2> HIDE DEF EventSet
  <2>3. log' = log
    BY <2>1, <2>2
  <2> QED BY <1>1, <1>3, <2>1, <2>3 DEF LiveAgrees
<1> QED BY <1>2, <1>3

LEMMA StopAgrees ==
  ASSUME AuditInv, LiveAgrees, Stop
  PROVE  LiveAgrees'
<1> DEFINE e == Event("run_stopped", "")
<1>1. /\ k.pc = "idle" /\ k' = k /\ cfg' = cfg /\ lost' = lost
      /\ causes' = causes /\ log' = Append(log, e)
  BY DEF Stop
<1>2. e \in EventSet /\ e.type = "run_stopped"
  <2>1. "run_stopped" \in Types /\ "" \in Verbs \cup Acts \cup {""}
    BY DEF Types
  <2> QED BY <2>1, EventType
<1> HIDE DEF e
<1>3. log \in Seq(EventSet)
  BY DEF AuditInv
<1>4. <<e>> \in Seq(EventSet) /\ log' = log \o <<e>>
  BY <1>1, <1>2, <1>3
<1>5. log' \in Seq(EventSet)
  BY <1>1, <1>2, <1>3
<1>6. ASSUME NEW type \in Replayed PROVE Only(log', type) = Only(log, type)
  <2>1. e.type # type
    BY <1>2 DEF Replayed
  <2>2. Adds(<<e>>, type, <<>>)
    BY <1>2, <2>1, AddsOther
  <2>3. Only(log', type) = Only(log, type) \o <<>>
    BY <1>3, <1>4, <2>2 DEF Adds
  <2> QED BY <1>3, <2>3, NoneOf
<1>7. CASE causes # {}
  BY <1>1, <1>7 DEF LiveAgrees
<1>8. CASE causes = {}
  <2>1. PICK S : Trail(S, cfg, log, k)
    BY <1>8 DEF LiveAgrees
  <2>2. Trail(S, cfg, log', k)
    BY <1>5, <1>6, <2>1, TrailSame
  <2> QED BY <1>1, <1>8, <2>2 DEF LiveAgrees
<1> QED BY <1>7, <1>8

LEMMA CrashAgrees ==
  ASSUME AuditInv, LiveAgrees, Crash
  PROVE  LiveAgrees'
<1>1. /\ k' = k /\ log' = log /\ cfg' = cfg
      /\ lost' = (IF Calling(k) THEN lost \cup {k.reqs} ELSE lost)
      /\ causes' = causes \cup (IF Calling(k) THEN {"cut"} ELSE {})
  BY DEF Crash, Odd
<1>2. CASE Calling(k) \/ causes # {}
  <2>1. causes' # {}
    BY <1>1, <1>2
  <2> QED BY <2>1 DEF LiveAgrees
<1>3. CASE ~Calling(k) /\ causes = {}
  <2>1. k.pc = "idle"
    BY <1>3 DEF Calling, AuditInv
  <2> QED BY <1>1, <1>3, <2>1 DEF LiveAgrees
<1> QED BY <1>2, <1>3

LEMMA RaisesAgrees == ASSUME CallRaises PROVE LiveAgrees'
<1>1. causes' = causes \cup {"raised"}
  BY DEF CallRaises, Odd
<1>2. causes' # {}
  BY <1>1
<1> QED BY <1>2 DEF LiveAgrees

LEMMA LiveInit == ASSUME Init PROVE LiveAgrees
<1> DEFINE e == Event("run_started", "")
<1>1. /\ cfg \in Starts /\ k = Fresh(cfg.primary, cfg.extras) /\ log = <<e>>
      /\ lost = {} /\ phase = "running"
  BY DEF Init
<1>2. e \in EventSet /\ e.type = "run_started"
  <2>1. "run_started" \in Types /\ "" \in Verbs \cup Acts \cup {""}
    BY DEF Types
  <2> QED BY <2>1, EventType
<1> HIDE DEF e
<1>3. log \in Seq(EventSet) /\ Len(log) = 1 /\ log[1] = e
  BY <1>1, <1>2
<1>4. Shape(k) /\ k.pc = "idle" /\ k.act \in CycleActs
  <2>1. Shape(k) /\ k.pc = "idle"
    BY <1>1, FreshShape
  <2>2. "none" \in CycleActs
    BY DEF CycleActs, Acts
  <2> QED BY <2>1, <2>2 DEF Shape, Fits
<1>5. ASSUME NEW type \in Replayed PROVE Len(Only(log, type)) = 0
  <2>1. Places(log, type) = {}
    BY <1>2, <1>3 DEF Places, Replayed
  <2>2. Only(log, type) = <<>>
    BY <1>3, <2>1, PickedEmpty DEF Only
  <2> QED BY <2>2
<1> DEFINE x == Mark(k, log)
<1>6. x.k = k /\ \A type \in Replayed : x.n[type] = 0
  BY <1>5 DEF Mark
<1>7. x \in Marks
  BY <1>3, <1>4, MarkType DEF Shape, Body
<1>8. "action_request" \in Replayed /\ "action_result" \in Replayed
  BY DEF Replayed
<1>9. ~Calling(k)
  BY <1>4 DEF Calling
<1> HIDE DEF x
<1>10. Sound(log, x)
  BY <1>4, <1>5, <1>6, <1>7, <1>8, <1>9 DEF Sound
<1>11. Trail({x}, cfg, log, k)
  BY <1>1, <1>3, <1>6, <1>9, <1>10 DEF Trail, x
<1> QED BY <1>1, <1>4, <1>11 DEF LiveAgrees

-----------------------------------------------------------------------------
(* The replay follows the trail. *)

\* The replay s of lg has, of the type, what the run had when it was at x.
Retold(s, lg, x, type) ==
    /\ Len(Only(s, type)) = x.n[type]
    /\ \A i \in 1 .. x.n[type] : Only(s, type)[i] = Only(lg, type)[i]

\* A replay has come to x: its keeper is u, it has logged s and taken t.
Reached(x, u, s, t, lg) ==
    /\ u = x.k /\ s \in Seq(EventSet)
    /\ t = [checks |-> x.n["sentinel_check"],
            states |-> x.n["state_observation"],
            actions |-> x.n["action_result"],
            cycles |-> x.n["decision"] + (IF Calling(x.k) THEN 1 ELSE 0),
            error |-> FALSE]
    /\ Retold(s, lg, x, "decision") /\ Retold(s, lg, x, "action_request")

LEMMA RetoldNone ==
  ASSUME NEW s \in Seq(EventSet), NEW lg, NEW w, NEW type \in Replayed,
         NEW x, NEW y, Adds(w, type, <<>>), Retold(s, lg, x, type),
         None(x, y, type)
  PROVE  Retold(s \o w, lg, y, type)
<1>1. Only(s \o w, type) = Only(s, type) \o <<>>
  BY DEF Adds
<1>2. Only(s \o w, type) = Only(s, type)
  BY <1>1, NoneOf
<1> QED BY <1>2 DEF Retold, None

LEMMA RetoldOne ==
  ASSUME NEW s \in Seq(EventSet), NEW lg, NEW w, NEW type \in Replayed,
         NEW x \in Marks, NEW y, NEW e \in EventSet, Adds(w, type, <<e>>),
         Retold(s, lg, x, type), One(lg, x, y, type, e)
  PROVE  Retold(s \o w, lg, y, type)
<1> DEFINE a == Only(s, type)
<1> DEFINE b == Only(s \o w, type)
<1> DEFINE d == Only(lg, type)
<1> DEFINE n == x.n[type]
<1>1. Only(s \o w, type) = Only(s, type) \o <<e>>
  BY DEF Adds
<1>2. /\ LongIn(s, s \o w, type) /\ Len(b) = Len(a) + 1 /\ b[Len(b)] = e
  BY <1>1, OneOf
<1>3. n \in Nat
  BY DEF Marks
<1>4. Len(a) = n /\ \A i \in 1 .. n : a[i] = d[i]
  BY DEF Retold
<1>5. \A i \in 1 .. Len(a) : b[i] = a[i]
  BY <1>2 DEF LongIn
<1>6. y.n[type] = n + 1 /\ d[y.n[type]] = e
  BY DEF One
<1>7. Len(b) = y.n[type] /\ \A i \in 1 .. y.n[type] : b[i] = d[i]
  <2> HIDE DEF a, b, d, n
  <2>1. Len(b) = n + 1
    BY <1>2, <1>4
  <2>2. ASSUME NEW i \in 1 .. n + 1 PROVE b[i] = d[i]
    <3>1. CASE i = n + 1
      BY <1>2, <1>6, <2>1, <3>1
    <3>2. CASE i # n + 1
      <4>1. i \in 1 .. n
        BY <1>3, <3>2
      <4> QED BY <1>4, <1>5, <4>1
    <3> QED BY <3>1, <3>2
  <2> QED BY <1>6, <2>1, <2>2
<1> QED BY <1>7 DEF Retold

\* When it comes to the j the run came to, it logs what the run logged.
LEMMA AsksRetold ==
  ASSUME NEW s \in Seq(EventSet), NEW lg, NEW x \in Marks, NEW y, NEW j,
         Retold(s, lg, x, "decision"), Retold(s, lg, x, "action_request"),
         Asks(lg, x, y, j)
  PROVE  /\ s \o Written(j) \in Seq(EventSet)
         /\ Retold(s \o Written(j), lg, y, "decision")
         /\ Retold(s \o Written(j), lg, y, "action_request")
<1> DEFINE w == Written(j)
<1>1. "action_request" \in Replayed /\ "decision" \in Replayed
      /\ "action_request" # "decision"
  BY DEF Replayed
<1>2. Shape(j)
  BY DEF Asks
<1>3. w \in Seq(EventSet)
  BY <1>2, WrittenType
<1>4. s \o w \in Seq(EventSet)
  BY <1>3, Joined
<1>5. CASE /\ Calling(j) /\ None(x, y, "decision")
           /\ One(lg, x, y, "action_request", Logged(j))
  <2> DEFINE e == Logged(j)
  <2>1. e \in EventSet /\ e.type = "action_request" /\ w = <<e>>
    BY <1>2, <1>5, LoggedType
  <2> HIDE DEF e, w
  <2>2. Adds(w, "action_request", <<e>>) /\ Adds(w, "decision", <<>>)
    BY <1>1, <2>1, EventAdds
  <2>3. One(lg, x, y, "action_request", e)
    BY <1>5 DEF e
  <2> QED BY <1>1, <1>4, <1>5, <2>1, <2>2, <2>3, RetoldNone, RetoldOne DEF w
<1>6. CASE /\ Written(j) = <<Decided(j)>> /\ None(x, y, "action_request")
           /\ One(lg, x, y, "decision", Decided(j))
  <2> DEFINE e == Decided(j)
  <2>1. e \in EventSet /\ e.type = "decision" /\ w = <<e>>
    BY <1>2, <1>6, DecidedType
  <2> HIDE DEF e, w
  <2>2. Adds(w, "decision", <<e>>) /\ Adds(w, "action_request", <<>>)
    BY <1>1, <2>1, EventAdds
  <2>3. One(lg, x, y, "decision", e)
    BY <1>6 DEF e
  <2> QED BY <1>1, <1>4, <1>6, <2>1, <2>2, <2>3, RetoldNone, RetoldOne DEF w
<1> QED BY <1>5, <1>6 DEF Asks

\* How many decisions a step adds.
LEMMA AsksDecides ==
  ASSUME NEW lg, NEW x \in Marks, NEW y, NEW j, Asks(lg, x, y, j)
  PROVE  y.n["decision"] + (IF Calling(y.k) THEN 1 ELSE 0) = x.n["decision"] + 1
<1>1. x.n["decision"] \in Nat
  BY DEF Marks, Replayed
<1>2. Calling(y.k) <=> Calling(j)
  BY AsksRested DEF Asks, Calling, Rested
<1>3. CASE Calling(j)
  <2>1. None(x, y, "decision")
    BY <1>3 DEF Asks, Calling
  <2> QED BY <1>1, <1>2, <1>3, <2>1 DEF None
<1>4. CASE ~Calling(j)
  <2>1. One(lg, x, y, "decision", Decided(j))
    BY <1>4 DEF Asks
  <2> QED BY <1>1, <1>2, <1>4, <2>1 DEF One
<1> QED BY <1>3, <1>4

\* From every mark but the last the trail goes on.
LEMMA TrailOn ==
  ASSUME NEW S, NEW c, NEW lg, NEW u, Trail(S, c, lg, u), NEW x \in S,
         x # Mark(u, lg)
  PROVE  \E y \in S : Step(c, lg, x, y)
BY DEF Trail

\* What a replay has taken when it comes from x to y.
LEMMA CycleReached ==
  ASSUME NEW lg \in Seq(EventSet), NEW x \in Marks, NEW y, NEW j,
         NEW s, NEW t, Reached(x, x.k, s, t, lg), Asks(lg, x, y, j),
         ~Calling(x.k), None(x, y, "action_result")
  PROVE  Reached(y, Rested(j), s \o Written(j),
                 [checks |-> y.n["sentinel_check"],
                  states |-> y.n["state_observation"],
                  actions |-> x.n["action_result"],
                  cycles |-> x.n["decision"] + 1, error |-> FALSE], lg)
<1>1. s \in Seq(EventSet) /\ Retold(s, lg, x, "decision")
      /\ Retold(s, lg, x, "action_request")
  BY DEF Reached
<1>2. /\ s \o Written(j) \in Seq(EventSet)
      /\ Retold(s \o Written(j), lg, y, "decision")
      /\ Retold(s \o Written(j), lg, y, "action_request")
  BY <1>1, AsksRetold
<1>3. y.n["decision"] + (IF Calling(y.k) THEN 1 ELSE 0) = x.n["decision"] + 1
  BY AsksDecides
<1>4. y.k = Rested(j)
  BY DEF Asks
<1>5. y.n["action_result"] = x.n["action_result"]
  BY DEF None
<1> HIDE DEF Calling, Rested, Written
<1> QED BY <1>2, <1>3, <1>4, <1>5 DEF Reached

\* What Drive does, in each of its cases.
LEMMA DriveCases ==
  ASSUME Drive, NEW x \in Marks, rk = x.k, Reached(x, rk, rlog, taken, log)
  PROVE  LET sentinels == Of("sentinel_check")
             states == Of("state_observation")
             c == x.n["sentinel_check"]
             n == x.n["state_observation"]
             Took(checks, reads) ==
                [checks |-> checks, states |-> reads,
                 actions |-> x.n["action_result"],
                 cycles |-> x.n["decision"] + 1, error |-> FALSE]
         IN /\ rk.halted => /\ phase' = phase /\ RComes(Ends(rk, "halted"))
                            /\ taken' = Took(c, n)
            /\ ~rk.halted /\ cfg.path /\ c < Len(sentinels)
                 /\ sentinels[c + 1].ok
               => /\ phase' = phase /\ RComes(Killed(rk))
                  /\ taken' = Took(c + 1, n)
            /\ /\ ~rk.halted /\ n < Len(states)
               /\ cfg.path => c < Len(sentinels) /\ ~sentinels[c + 1].ok
               => /\ phase' = phase
                  /\ taken' = Took(IF cfg.path THEN c + 1 ELSE c, n + 1)
                  /\ LET r == states[n + 1].read
                     IN RComes(IF r.kind = "read" THEN Planned(rk, r)
                                                  ELSE Ends(rk, "no_state"))
<1> DEFINE sentinels == Of("sentinel_check")
<1> DEFINE states == Of("state_observation")
<1> DEFINE c == x.n["sentinel_check"]
<1> DEFINE n == x.n["state_observation"]
<1> DEFINE a == x.n["action_result"]
<1> DEFINE d == x.n["decision"]
<1>1. c \in Nat /\ n \in Nat /\ d \in Nat
  BY DEF Marks, Replayed
<1>2. ~Calling(rk)
  BY DEF Drive, Calling
<1>3. taken = [checks |-> c, states |-> n, actions |-> a, cycles |-> d,
               error |-> FALSE]
  <2>1. d + (IF Calling(x.k) THEN 1 ELSE 0) = d
    BY <1>1, <1>2
  <2> QED BY <2>1, Zenon DEF Reached
<1>4. taken.checks = c /\ taken.states = n
  BY <1>3
<1> DEFINE there == cfg.path /\ ~rk.halted /\ taken.checks < Len(sentinels)
                      /\ sentinels[taken.checks + 1].ok
<1> DEFINE exhausted == cfg.path /\ ~rk.halted /\ taken.checks = Len(sentinels)
<1> DEFINE r == NextState
<1>5. /\ taken' = [taken EXCEPT
               !.cycles = @ + 1,
               !.checks = IF cfg.path /\ ~rk.halted /\ ~exhausted THEN @ + 1 ELSE @,
               !.states = IF rk.halted \/ there \/ exhausted
                             \/ @ = Len(states)
                          THEN @ ELSE @ + 1,
               !.error = exhausted]
      /\ phase' = IF exhausted THEN "replayed" ELSE phase
      /\ IF exhausted THEN UNCHANGED <<rk, rlog>>
         ELSE IF rk.halted THEN RComes(Ends(rk, "halted"))
         ELSE IF there THEN RComes(Killed(rk))
         ELSE IF r.kind = "read" THEN RComes(Planned(rk, r))
         ELSE RComes(Ends(rk, "no_state"))
  BY DEF Drive
<1>6. r = IF taken.states = Len(states) THEN NoReading("failed")
          ELSE IF states[taken.states + 1].read.kind = "read"
               THEN states[taken.states + 1].read ELSE NoReading("failed")
  BY DEF NextState
<1> HIDE DEF sentinels, states, c, n, a, d, r
<1>7. ASSUME ~exhausted
      PROVE  taken' = [checks |-> IF cfg.path /\ ~rk.halted THEN c + 1 ELSE c,
                       states |-> IF rk.halted \/ there \/ n = Len(states)
                                  THEN n ELSE n + 1,
                       actions |-> a, cycles |-> d + 1, error |-> FALSE]
  <2>1. exhausted = FALSE
    BY <1>7
  <2> HIDE DEF there, exhausted
  <2> QED BY <1>3, <1>4, <1>5, <2>1
<1>8. ASSUME rk.halted
      PROVE  /\ phase' = phase /\ RComes(Ends(rk, "halted"))
             /\ taken' = [checks |-> c, states |-> n, actions |-> a,
                          cycles |-> d + 1, error |-> FALSE]
  <2>1. ~exhausted
    BY <1>8
  <2> HIDE DEF exhausted, there
  <2> QED BY <1>5, <1>7, <1>8, <2>1
<1>9. ASSUME ~rk.halted, cfg.path, c < Len(sentinels), sentinels[c + 1].ok
      PROVE  /\ phase' = phase /\ RComes(Killed(rk))
             /\ taken' = [checks |-> c + 1, states |-> n, actions |-> a,
                          cycles |-> d + 1, error |-> FALSE]
  <2>1. there /\ ~exhausted
    BY <1>1, <1>4, <1>9, OnlyType, LenProperties
  <2> HIDE DEF exhausted, there
  <2> QED BY <1>5, <1>7, <1>9, <2>1
<1>10. ASSUME ~rk.halted, n < Len(states),
              cfg.path => c < Len(sentinels) /\ ~sentinels[c + 1].ok
       PROVE  /\ phase' = phase
              /\ taken' = [checks |-> IF cfg.path THEN c + 1 ELSE c,
                           states |-> n + 1, actions |-> a, cycles |-> d + 1,
                           error |-> FALSE]
              /\ LET q == states[n + 1].read
                 IN RComes(IF q.kind = "read" THEN Planned(rk, q)
                                              ELSE Ends(rk, "no_state"))
  <2>1. ~there /\ ~exhausted
    BY <1>1, <1>4, <1>10
  <2>2. n # Len(states)
    BY <1>1, <1>10
  <2> DEFINE q == states[n + 1].read
  <2>3. r = IF q.kind = "read" THEN q ELSE NoReading("failed")
    BY <1>4, <1>6, <2>2
  <2>4. NoReading("failed").kind = "failed"
    BY DEF NoReading
  <2> HIDE DEF exhausted, there, q
  <2>5. CASE q.kind = "read"
    BY <1>5, <1>7, <1>10, <2>1, <2>2, <2>3, <2>5 DEF q
  <2>6. CASE q.kind # "read"
    BY <1>5, <1>7, <1>10, <2>1, <2>2, <2>3, <2>4, <2>6 DEF q
  <2> QED BY <2>5, <2>6
<1> QED BY <1>8, <1>9, <1>10 DEF sentinels, states, c, n, a, d

LEMMA ReadingsRead == \A r \in Readings : r \in Reads /\ r.kind = "read"
BY ReadingType DEF Reads

LEMMA FailedRead ==
  /\ NoReading("failed") \in Reads /\ NoReading("failed").kind = "failed"
<1>1. NoReading("failed") \in Reads
  BY Zenon DEF Reads
<1>2. NoReading("failed").kind = "failed"
  BY DEF NoReading
<1> QED BY <1>1, <1>2

\* What a mark and the next say of the input read between them.
LEMMA NextInput ==
  ASSUME NEW x \in Marks, NEW y, NEW type \in Replayed, NEW e,
         One(log, x, y, type, e)
  PROVE  /\ x.n[type] \in Nat /\ x.n[type] < Len(Of(type))
         /\ Of(type)[x.n[type] + 1] = e /\ y.n[type] = x.n[type] + 1
<1>1. x.n[type] \in Nat
  BY DEF Marks
<1>2. /\ y.n[type] = x.n[type] + 1 /\ y.n[type] <= Len(Of(type))
      /\ Of(type)[y.n[type]] = e
  BY DEF One, Of
<1>3. log \in Seq(EventSet) => Len(Of(type)) \in Nat
  BY OnlyType DEF Of
<1> QED BY <1>1, <1>2, <1>3

LEMMA SentinelRead ==
  ASSUME NEW x \in Marks, NEW y, NoSentinel(cfg, log, x, y)
  PROVE  LET c == x.n["sentinel_check"]
             sentinels == Of("sentinel_check")
         IN /\ cfg.path => c < Len(sentinels) /\ ~sentinels[c + 1].ok
            /\ y.n["sentinel_check"] = IF cfg.path THEN c + 1 ELSE c
<1> DEFINE type == "sentinel_check"
<1>1. type \in Replayed
  BY DEF Replayed
<1>2. CASE cfg.path
  <2> DEFINE e == Checked(FALSE)
  <2>1. One(log, x, y, type, e)
    BY <1>2 DEF NoSentinel
  <2>3. ~e.ok
    BY CheckedType
  <2> HIDE DEF e
  <2>2. /\ x.n[type] < Len(Of(type)) /\ Of(type)[x.n[type] + 1] = e
        /\ y.n[type] = x.n[type] + 1
    BY <1>1, <2>1, NextInput
  <2> QED BY <1>2, <2>2, <2>3
<1>3. CASE ~cfg.path
  BY <1>3 DEF NoSentinel, None
<1> QED BY <1>2, <1>3

\* A cycle of the replay is the cycle of the run.
LEMMA DriveSteps ==
  ASSUME log \in Seq(EventSet), Drive, NEW x \in Marks, rk = x.k,
         Reached(x, rk, rlog, taken, log), NEW y, CycleStep(cfg, log, x, y)
  PROVE  phase' = phase /\ Reached(y, rk', rlog', taken', log)
<1> DEFINE c == x.n["sentinel_check"]
<1> DEFINE n == x.n["state_observation"]
<1> DEFINE Took(checks, reads) ==
              [checks |-> checks, states |-> reads,
               actions |-> x.n["action_result"],
               cycles |-> x.n["decision"] + 1, error |-> FALSE]
<1>1. /\ "sentinel_check" \in Replayed /\ "state_observation" \in Replayed
      /\ c \in Nat /\ n \in Nat
  BY DEF Replayed, Marks
<1>2. ~Calling(x.k) /\ None(x, y, "action_result")
  BY DEF CycleStep, Calling
<1>3. ASSUME NEW j, Asks(log, x, y, j), RComes(j),
             taken' = Took(y.n["sentinel_check"], y.n["state_observation"])
      PROVE  Reached(y, rk', rlog', taken', log)
  <2>1. Reached(y, Rested(j), rlog \o Written(j),
                Took(y.n["sentinel_check"], y.n["state_observation"]), log)
    BY <1>2, <1>3, CycleReached
  <2>2. rk' = Rested(j) /\ rlog' = rlog \o Written(j)
    BY <1>3 DEF RComes
  <2> HIDE DEF Took
  <2> QED BY <1>3, <2>1, <2>2
<1>4. CASE HaltedStep(log, x, y)
  <2>1. /\ x.k.halted /\ Asks(log, x, y, Ends(rk, "halted"))
        /\ y.n["sentinel_check"] = c /\ y.n["state_observation"] = n
    BY <1>4 DEF HaltedStep, NoInput, None
  <2>2. /\ phase' = phase /\ RComes(Ends(rk, "halted")) /\ taken' = Took(c, n)
    BY <2>1, DriveCases
  <2> HIDE DEF Took
  <2>3. taken' = Took(y.n["sentinel_check"], y.n["state_observation"])
    BY <2>1, <2>2
  <2> HIDE DEF c, n
  <2> QED BY <1>3, <2>1, <2>2, <2>3
<1>5. CASE SentinelStep(cfg, log, x, y)
  <2> DEFINE e == Checked(TRUE)
  <2>1. /\ ~rk.halted /\ cfg.path /\ Asks(log, x, y, Killed(rk))
        /\ One(log, x, y, "sentinel_check", e)
        /\ y.n["state_observation"] = n
    BY <1>5 DEF SentinelStep, None
  <2>1a. e.ok
    BY CheckedType
  <2> HIDE DEF e
  <2>2. /\ c < Len(Of("sentinel_check")) /\ y.n["sentinel_check"] = c + 1
        /\ Of("sentinel_check")[c + 1] = e
    BY <1>1, <2>1, NextInput
  <2>3. Of("sentinel_check")[c + 1].ok
    BY <2>1a, <2>2
  <2>4. phase' = phase /\ RComes(Killed(rk)) /\ taken' = Took(c + 1, n)
    BY <2>1, <2>2, <2>3, DriveCases
  <2> HIDE DEF Took
  <2>5. taken' = Took(y.n["sentinel_check"], y.n["state_observation"])
    BY <2>1, <2>2, <2>4
  <2> HIDE DEF c, n
  <2> QED BY <1>3, <2>1, <2>4, <2>5
<1>6. ASSUME ~rk.halted, NoSentinel(cfg, log, x, y), NEW r \in Reads,
             One(log, x, y, "state_observation", Observed(r))
      PROVE  /\ phase' = phase
             /\ RComes(IF r.kind = "read" THEN Planned(rk, r)
                                          ELSE Ends(rk, "no_state"))
             /\ taken' = Took(y.n["sentinel_check"], y.n["state_observation"])
  <2>1. /\ cfg.path => /\ c < Len(Of("sentinel_check"))
                       /\ ~Of("sentinel_check")[c + 1].ok
        /\ y.n["sentinel_check"] = IF cfg.path THEN c + 1 ELSE c
    BY <1>6, SentinelRead
  <2>2. /\ n < Len(Of("state_observation")) /\ y.n["state_observation"] = n + 1
        /\ Of("state_observation")[n + 1] = Observed(r)
    BY <1>1, <1>6, NextInput
  <2>3. Of("state_observation")[n + 1].read = r
    BY <1>6, <2>2, ObservedType
  <2>4. /\ phase' = phase
        /\ taken' = Took(IF cfg.path THEN c + 1 ELSE c, n + 1)
        /\ LET q == Of("state_observation")[n + 1].read
           IN RComes(IF q.kind = "read" THEN Planned(rk, q)
                                        ELSE Ends(rk, "no_state"))
    BY <1>6, <2>1, <2>2, DriveCases
  <2> HIDE DEF Took
  <2>5. taken' = Took(y.n["sentinel_check"], y.n["state_observation"])
    BY <2>1, <2>2, <2>4
  <2>6. RComes(IF r.kind = "read" THEN Planned(rk, r) ELSE Ends(rk, "no_state"))
    BY <2>3, <2>4
  <2> QED BY <2>4, <2>5, <2>6
<1>7. CASE PlannedStep(cfg, log, x, y)
  <2>1. /\ ~rk.halted /\ NoSentinel(cfg, log, x, y)
        /\ \E r \in Readings : /\ One(log, x, y, "state_observation", Observed(r))
                               /\ Asks(log, x, y, Planned(rk, r))
    BY <1>7 DEF PlannedStep
  <2>2. PICK r \in Readings : /\ One(log, x, y, "state_observation", Observed(r))
                              /\ Asks(log, x, y, Planned(rk, r))
    BY <2>1
  <2>3. r \in Reads /\ r.kind = "read"
    BY ReadingsRead
  <2> HIDE DEF Took, c, n
  <2>4. /\ phase' = phase /\ RComes(Planned(rk, r))
        /\ taken' = Took(y.n["sentinel_check"], y.n["state_observation"])
    BY <1>6, <2>1, <2>2, <2>3
  <2> QED BY <1>3, <2>2, <2>4
<1>8. CASE BlindStep(cfg, log, x, y)
  <2> DEFINE r == NoReading("failed")
  <2>1. /\ ~rk.halted /\ NoSentinel(cfg, log, x, y)
        /\ One(log, x, y, "state_observation", Observed(r))
        /\ Asks(log, x, y, Ends(rk, "no_state"))
    BY <1>8 DEF BlindStep
  <2>2. r \in Reads /\ r.kind # "read"
    BY FailedRead
  <2> HIDE DEF Took, c, n, r
  <2>3. /\ phase' = phase /\ RComes(Ends(rk, "no_state"))
        /\ taken' = Took(y.n["sentinel_check"], y.n["state_observation"])
    BY <1>6, <2>1, <2>2
  <2> QED BY <1>3, <2>1, <2>3
<1> QED BY <1>4, <1>5, <1>7, <1>8 DEF CycleStep

\* The recorded answer to a request is the answer the run got, but for a doubt.
LEMMA AnswerSays ==
  ASSUME log \in Seq(EventSet), ResultsOnce(log), NEW u, Shape(u), Calling(u),
         NEW a \in AnswersTo(u), NEW n \in 1 .. Len(Only(log, "action_result")),
         Only(log, "action_result")[n] = Result(u, a)
  PROVE  Recorded(Answer(u.reqs)) = [ok |-> a.ok, unknown |-> FALSE, ids |-> a.ids]
<1> DEFINE e == Result(u, a)
<1> DEFINE type == "action_result"
<1>1. e.req = u.reqs /\ e.ok = a.ok /\ e.ids = a.ids
  BY ResultType
<1> HIDE DEF e
<1>2. PICK j \in Places(log, type) : e = log[j]
  <2>1. n \in 1 .. Len(Only(log, type))
    OBVIOUS
  <2>2. \E j \in Places(log, type) : Only(log, type)[n] = log[j]
    BY <2>1, OnlyAt
  <2> QED BY <2>2 DEF e
<1>3. e \in Events(type)
  BY <1>2 DEF Events
<1>4. ASSUME NEW f \in Events(type), f.req = u.reqs PROVE f = e
  <2>1. PICK i \in Places(log, type) : f = log[i]
    BY EventAt
  <2>2. i = j
    BY <1>1, <1>2, <1>4, <2>1 DEF ResultsOnce, ResultAt
  <2> QED BY <1>2, <2>1, <2>2
<1>5. Answer(u.reqs) = e
  <2>1. /\ Answer(u.reqs) \in Events(type) /\ Answer(u.reqs).req = u.reqs
    BY <1>1, <1>3 DEF Answer
  <2> QED BY <1>4, <2>1
<1>6. Recorded(e) = [ok |-> a.ok, unknown |-> FALSE, ids |-> a.ids]
  BY <1>1 DEF Recorded
<1> QED BY <1>5, <1>6

LEMMA AnswerIs ==
  ASSUME log \in Seq(EventSet), ResultsOnce(log), NEW u, Shape(u), Calling(u),
         NEW a \in AnswersTo(u), ~a.unknown,
         NEW n \in 1 .. Len(Of("action_result")),
         Of("action_result")[n] = Result(u, a)
  PROVE  Recorded(Answer(u.reqs)) = a
<1>1. Recorded(Answer(u.reqs)) = [ok |-> a.ok, unknown |-> FALSE, ids |-> a.ids]
  BY AnswerSays DEF Of
<1>2. a \in [ok : BOOLEAN, unknown : BOOLEAN, ids : Seq(Ids)] /\ a.unknown = FALSE
  BY DEF AnswersTo
<1>3. a = [ok |-> a.ok, unknown |-> FALSE, ids |-> a.ids]
  BY <1>2
<1> QED BY <1>1, <1>3

\* An answer of the replay is the answer of the run.
LEMMA ReplySteps ==
  ASSUME log \in Seq(EventSet), ResultsOnce(log), Reply, NEW x, Sound(log, x),
         rk = x.k, Reached(x, rk, rlog, taken, log), NEW y,
         AnswerStep(log, x, y)
  PROVE  phase' = phase /\ Reached(y, rk', rlog', taken', log)
<1> DEFINE n == x.n["action_request"]
<1> DEFINE m == x.n["action_result"]
<1> DEFINE d == x.n["decision"]
<1>1. /\ x \in Marks /\ Shape(rk) /\ Calling(rk)
      /\ n = m + 1 /\ Of("action_request")[n] = Logged(rk)
      /\ n <= Len(Of("action_request"))
  BY DEF Sound, AnswerStep, Of, Replayed
<1>2. n \in Nat /\ m \in Nat /\ d \in Nat
  BY <1>1 DEF Marks, Replayed
<1>3. PICK a \in AnswersTo(x.k) :
         /\ ~a.unknown /\ One(log, x, y, "action_result", Result(x.k, a))
         /\ Asks(log, x, y, Answered(x.k, a))
  BY DEF AnswerStep
<1> DEFINE j == Answered(rk, a)
<1>4. NoInput(x, y) /\ y.n["action_result"] = m + 1
  BY <1>3 DEF AnswerStep, One
<1>5. /\ taken.actions = m
      /\ taken = [checks |-> x.n["sentinel_check"],
                  states |-> x.n["state_observation"],
                  actions |-> m, cycles |-> d + 1, error |-> FALSE]
  BY <1>1 DEF Reached
<1>6. /\ Requests[n].what = Request(rk).verb /\ Requests[n].ids = Request(rk).ids
      /\ Requests[n].req = rk.reqs /\ n <= Len(Requests)
  BY <1>1, LoggedType DEF Requests
<1>7. Recorded(Answer(Requests[n].req)) = a
  <2> DEFINE e == Result(x.k, a)
  <2>1. One(log, x, y, "action_result", e)
    BY <1>3
  <2> HIDE DEF e
  <2>2. Of("action_result")[m + 1] = e /\ m + 1 <= Len(Of("action_result"))
    BY <2>1 DEF One, Of
  <2>2a. Len(Of("action_result")) \in Nat
    BY OnlyType DEF Of
  <2>3. m + 1 \in 1 .. Len(Of("action_result"))
    BY <1>2, <2>2, <2>2a
  <2>4. Recorded(Answer(rk.reqs)) = a
    BY <1>1, <1>3, <2>2, <2>3, AnswerIs DEF e
  <2> QED BY <1>6, <2>4
<1>8. /\ phase' = phase /\ RComes(j)
      /\ taken' = [taken EXCEPT !.actions = m + 1]
  <2>1. taken.actions + 1 = n
    BY <1>1, <1>5
  <2> HIDE DEF n
  <2>2. /\ phase' = phase /\ RComes(Answered(rk, Recorded(Answer(Requests[n].req))))
        /\ taken' = [taken EXCEPT !.actions = n]
    BY <1>6, <2>1 DEF Reply
  <2> QED BY <1>1, <1>7, <2>2 DEF n
<1>9. Asks(log, x, y, j)
  BY <1>3
<1> HIDE DEF j
<1>10. rk' = Rested(j) /\ rlog' = rlog \o Written(j)
  BY <1>8 DEF RComes
<1>11. y.k = Rested(j)
  BY <1>9 DEF Asks
<1>12. /\ rlog \in Seq(EventSet) /\ Retold(rlog, log, x, "decision")
       /\ Retold(rlog, log, x, "action_request")
  BY DEF Reached
<1>13. /\ rlog' \in Seq(EventSet) /\ Retold(rlog', log, y, "decision")
       /\ Retold(rlog', log, y, "action_request")
  BY <1>1, <1>9, <1>10, <1>12, AsksRetold
<1>14. y.n["decision"] + (IF Calling(y.k) THEN 1 ELSE 0) = d + 1
  BY <1>1, <1>9, AsksDecides
<1>15. taken' = [checks |-> y.n["sentinel_check"],
                 states |-> y.n["state_observation"],
                 actions |-> y.n["action_result"],
                 cycles |-> y.n["decision"] + (IF Calling(y.k) THEN 1 ELSE 0),
                 error |-> FALSE]
  <2>1. /\ y.n["sentinel_check"] = x.n["sentinel_check"]
        /\ y.n["state_observation"] = x.n["state_observation"]
    BY <1>4 DEF NoInput, None
  <2> DEFINE c == x.n["sentinel_check"]
  <2> DEFINE s == x.n["state_observation"]
  <2> DEFINE all == d + 1
  <2> DEFINE next == m + 1
  <2>2. /\ taken' = [taken EXCEPT !.actions = next]
        /\ taken = [checks |-> c, states |-> s, actions |-> m, cycles |-> all,
                    error |-> FALSE]
    BY <1>5, <1>8
  <2> HIDE DEF m, d, c, s, all, next
  <2>3. taken' = [checks |-> c, states |-> s, actions |-> next, cycles |-> all,
                  error |-> FALSE]
    BY <2>2
  <2> HIDE DEF Calling
  <2> QED BY <1>4, <1>14, <2>1, <2>3 DEF c, s, all, next
<1> QED BY <1>8, <1>10, <1>11, <1>13, <1>15 DEF Reached

-----------------------------------------------------------------------------
(* The run and the replay together. *)

Retracing ==
    \E S : Trail(S, cfg, log, k)
             /\ \E x \in S : Reached(x, rk, rlog, taken, log)

ReplayFollows ==
    /\ phase \in {"running", "stopping", "stopped", "dead"} =>
          rlog = <<>> /\ taken = NothingTaken
    /\ phase = "replaying" /\ causes = {} => Retracing

AgreeInv == AuditInv /\ LiveAgrees /\ ReplayFollows /\ ReplayAgrees

\* The run goes on while the replay waits.
LEMMA RunFollows ==
  ASSUME ReplayFollows, Run
  PROVE  /\ phase \in {"running", "stopping"}
         /\ phase' \in {"running", "stopping", "stopped", "dead"}
         /\ ReplayFollows' /\ ReplayAgrees'
<1>1. /\ phase \in {"running", "stopping"}
      /\ phase' \in {"running", "stopping", "stopped", "dead"}
      /\ UNCHANGED replay
  <2>1. CASE HaltedCycle \/ SentinelCycle \/ Stop \/ CleanStop
    BY <2>1 DEF HaltedCycle, SentinelCycle, Begins, Stop, CleanStop
  <2>2. CASE CallRaises \/ Crash
    BY <2>2 DEF CallRaises, Crash, Underway
  <2>3. CASE \E r \in Readings : PlannedCycle(r) \/ RaisingCycle(r)
    BY <2>3 DEF PlannedCycle, RaisingCycle, Begins
  <2>4. CASE \E kind \in {"failed", "malformed"} : BlindCycle(kind)
    BY <2>4 DEF BlindCycle, Begins
  <2>5. CASE \E a \in Answers : CallReturns(a)
    BY <2>5 DEF CallReturns, Underway
  <2> QED BY <2>1, <2>2, <2>3, <2>4, <2>5 DEF Run
<1>2. rlog' = rlog /\ taken' = taken
  BY <1>1 DEF replay
<1> QED BY <1>1, <1>2 DEF ReplayFollows, ReplayAgrees

LEMMA RunAgrees ==
  ASSUME AuditInv, LiveAgrees, Run
  PROVE  LiveAgrees'
<1>1. CASE HaltedCycle
  BY <1>1, RerunAssumption, CyclesAgree DEF HaltedCycle
<1>2. CASE SentinelCycle
  BY <1>2, RerunAssumption, CyclesAgree DEF SentinelCycle
<1>3. CASE \E r \in Readings : PlannedCycle(r)
  BY <1>3, RerunAssumption, CyclesAgree DEF PlannedCycle
<1>4. CASE \E r \in Readings : RaisingCycle(r)
  BY <1>4, RerunAssumption, CyclesAgree DEF RaisingCycle
<1>5. CASE \E kind \in {"failed", "malformed"} : BlindCycle(kind)
  BY <1>5, RerunAssumption, CyclesAgree DEF BlindCycle
<1>6. CASE \E a \in Answers : CallReturns(a)
  BY <1>6, ReturnAgrees
<1>7. CASE CallRaises
  BY <1>7, RaisesAgrees
<1>8. CASE Crash
  BY <1>8, CrashAgrees
<1>9. CASE CleanStop
  BY <1>9, CleanStopAgrees
<1>10. CASE Stop
  BY <1>10, StopAgrees
<1> QED BY <1>1, <1>2, <1>3, <1>4, <1>5, <1>6, <1>7, <1>8, <1>9, <1>10 DEF Run

LEMMA NothingLogged ==
  ASSUME NEW type
  PROVE  Only(<<>>, type) = <<>>
<1>1. <<>> \in Seq(EventSet) /\ Len(<<>>) = 0
  BY EmptySeq
<1>2. Places(<<>>, type) = {}
  BY <1>1 DEF Places
<1> QED BY <1>1, <1>2, PickedEmpty DEF Only

\* A log of a run in which nothing went wrong has a result for each request.
LEMMA BeginFollows ==
  ASSUME AuditInv, LiveAgrees, ReplayFollows, Begin
  PROVE  ReplayFollows' /\ ReplayAgrees'
<1>1. /\ phase \in {"stopped", "dead"} /\ UNCHANGED live
      /\ phase' \in {"replaying", "replayed"}
  BY DEF Begin
<1>2. /\ cfg' = cfg /\ k' = k /\ log' = log /\ causes' = causes
  BY <1>1 DEF live
<1>3. CASE causes # {}
  BY <1>1, <1>2, <1>3 DEF ReplayFollows, ReplayAgrees
<1>4. CASE causes = {}
  <2>1. lost = {} /\ \E S : Trail(S, cfg, log, k)
    BY <1>4 DEF LiveAgrees
  <2>2. Awaited = {}
    BY <1>1 DEF Awaited, Recording
  <2>3. RequestsSettled(log, {})
    <3>1. lost \cup Awaited = {}
      BY <2>1, <2>2
    <3> QED BY <3>1 DEF AuditInv, Numbered
  <2>4. ~ \E q \in Events("action_request") :
            \A e \in Events("action_result") : e.req # q.req
    BY <2>3 DEF RequestsSettled, RequestAt, ResultAt, Events
  <2>5. /\ phase' = "replaying" /\ taken' = taken /\ rlog' = rlog
        /\ rk' = Fresh(cfg.primary, cfg.extras)
    BY <2>4 DEF Begin
  <2>6. rlog' = <<>> /\ taken' = NothingTaken
    BY <1>1, <2>5 DEF ReplayFollows
  <2>7. PICK S : Trail(S, cfg, log, k)
    BY <2>1
  <2>8. PICK x \in S : /\ x.k = Fresh(cfg.primary, cfg.extras)
                       /\ \A type \in Replayed : x.n[type] = 0
    BY <2>7 DEF Trail
  <2>9. x.k.pc = "idle"
    BY <2>8, FreshShape DEF AuditInv
  <2>10. ~Calling(x.k)
    BY <2>9 DEF Calling
  <2>11. /\ x.n["sentinel_check"] = 0 /\ x.n["state_observation"] = 0
         /\ x.n["action_result"] = 0 /\ x.n["decision"] = 0
         /\ x.n["action_request"] = 0
    BY <2>8 DEF Replayed
  <2>12. <<>> \in Seq(EventSet) /\ Len(<<>>) = 0
    BY EmptySeq
  <2>13. /\ Retold(<<>>, log, x, "decision")
         /\ Retold(<<>>, log, x, "action_request")
    BY <2>11, <2>12, NothingLogged DEF Retold
  <2>14. NothingTaken = [checks |-> x.n["sentinel_check"],
            states |-> x.n["state_observation"],
            actions |-> x.n["action_result"],
            cycles |-> x.n["decision"] + (IF Calling(x.k) THEN 1 ELSE 0),
            error |-> FALSE]
    BY <2>10, <2>11 DEF NothingTaken
  <2>15. Reached(x, rk', <<>>, NothingTaken, log)
    BY <2>5, <2>8, <2>12, <2>13, <2>14 DEF Reached
  <2>16. Retracing'
    BY <1>2, <2>6, <2>7, <2>15 DEF Retracing
  <2> QED BY <2>5, <2>16 DEF ReplayFollows, ReplayAgrees
<1> QED BY <1>3, <1>4

\* A replay that is between two cycles has taken as many as it has decided.
LEMMA IdleReached ==
  ASSUME NEW x, Sound(log, x), Reached(x, rk, rlog, taken, log),
         rk.pc = "idle"
  PROVE  /\ rk = x.k /\ ~Calling(x.k) /\ x \in Marks
         /\ taken.cycles = x.n["decision"] /\ x.n["decision"] \in Nat
         /\ ~taken.error
<1>1. rk = x.k /\ x \in Marks /\ ~Calling(x.k)
  BY DEF Reached, Sound, Calling
<1>2. x.n["decision"] \in Nat
  BY <1>1 DEF Marks, Replayed
<1>3. /\ taken.cycles = x.n["decision"] + (IF Calling(x.k) THEN 1 ELSE 0)
      /\ taken.error = FALSE
  BY DEF Reached
<1> QED BY <1>1, <1>2, <1>3

LEMMA DriveFollows ==
  ASSUME AuditInv, LiveAgrees, ReplayFollows, Drive
  PROVE  ReplayFollows' /\ ReplayAgrees'
<1>1. /\ phase = "replaying" /\ UNCHANGED live /\ rk.pc = "idle"
      /\ taken.cycles < Len(Of("decision"))
      /\ phase' \in {"replaying", "replayed"}
  BY DEF Drive
<1>2. /\ cfg' = cfg /\ k' = k /\ log' = log /\ causes' = causes
  BY <1>1 DEF live
<1>3. CASE causes # {}
  BY <1>1, <1>2, <1>3 DEF ReplayFollows, ReplayAgrees
<1>4. CASE causes = {}
  <2>1. PICK S : Trail(S, cfg, log, k)
                   /\ \E x \in S : Reached(x, rk, rlog, taken, log)
    BY <1>1, <1>4 DEF ReplayFollows, Retracing
  <2>2. PICK x \in S : Reached(x, rk, rlog, taken, log)
    BY <2>1
  <2>3. Sound(log, x)
    BY <2>1 DEF Trail
  <2>4. /\ rk = x.k /\ ~Calling(x.k) /\ x \in Marks
        /\ taken.cycles = x.n["decision"] /\ x.n["decision"] \in Nat
    BY <1>1, <2>2, <2>3, IdleReached
  <2>5. x # Mark(k, log)
    <3>1. Mark(k, log).n["decision"] = Len(Of("decision"))
      BY DEF Mark, Of, Replayed
    <3> QED BY <1>1, <2>4, <3>1
  <2>6. PICK y \in S : Step(cfg, log, x, y)
    BY <2>1, <2>5, TrailOn
  <2>7. CycleStep(cfg, log, x, y)
    BY <2>4, <2>6 DEF Step, AnswerStep
  <2>8. phase' = phase /\ Reached(y, rk', rlog', taken', log)
    BY <2>2, <2>4, <2>7, DriveSteps DEF AuditInv
  <2>9. Retracing'
    BY <1>2, <2>1, <2>6, <2>8 DEF Retracing
  <2> QED BY <1>1, <2>8, <2>9 DEF ReplayFollows, ReplayAgrees
<1> QED BY <1>3, <1>4

LEMMA ReplyFollows ==
  ASSUME AuditInv, LiveAgrees, ReplayFollows, Reply
  PROVE  ReplayFollows' /\ ReplayAgrees'
<1>1. /\ phase = "replaying" /\ UNCHANGED live /\ Calling(rk)
      /\ phase' \in {"replaying", "replayed"}
  BY DEF Reply
<1>2. /\ cfg' = cfg /\ k' = k /\ log' = log /\ causes' = causes
  BY <1>1 DEF live
<1>3. CASE causes # {}
  BY <1>1, <1>2, <1>3 DEF ReplayFollows, ReplayAgrees
<1>4. CASE causes = {}
  <2>1. PICK S : Trail(S, cfg, log, k)
                   /\ \E x \in S : Reached(x, rk, rlog, taken, log)
    BY <1>1, <1>4 DEF ReplayFollows, Retracing
  <2>2. PICK x \in S : Reached(x, rk, rlog, taken, log)
    BY <2>1
  <2>3. Sound(log, x) /\ rk = x.k
    BY <2>1, <2>2 DEF Trail, Reached
  <2>4. k.pc = "idle"
    BY <1>1, <1>4 DEF LiveAgrees
  <2>5. x # Mark(k, log)
    <3>1. Mark(k, log).k = k
      BY DEF Mark
    <3> QED BY <1>1, <2>3, <2>4, <3>1 DEF Calling
  <2>6. PICK y \in S : Step(cfg, log, x, y)
    BY <2>1, <2>5, TrailOn
  <2>7. AnswerStep(log, x, y)
    BY <1>1, <2>3, <2>6 DEF Step, CycleStep, Calling
  <2>8. phase' = phase /\ Reached(y, rk', rlog', taken', log)
    BY <2>2, <2>3, <2>7, ReplySteps DEF AuditInv, Numbered
  <2>9. Retracing'
    BY <1>2, <2>1, <2>6, <2>8 DEF Retracing
  <2> QED BY <1>1, <2>8, <2>9 DEF ReplayFollows, ReplayAgrees
<1> QED BY <1>3, <1>4

\* A replay that has all decisions of the log has come to the end of the trail.
LEMMA AtLast ==
  ASSUME NEW S, Trail(S, cfg, log, k), ~Calling(k), NEW x \in S,
         ~Calling(x.k), x.n["decision"] = Len(Of("decision"))
  PROVE  x = Mark(k, log)
<1> SUFFICES ASSUME x # Mark(k, log) PROVE FALSE
  OBVIOUS
<1>1. PICK y \in S : Step(cfg, log, x, y)
  BY TrailOn
<1>2. CycleStep(cfg, log, x, y)
  BY <1>1 DEF Step, AnswerStep
<1>3. PICK j : Asks(log, x, y, j)
  BY <1>2 DEF CycleStep, HaltedStep, SentinelStep, PlannedStep, BlindStep
<1>4. x \in Marks /\ y \in Marks
  BY DEF Trail, Sound
<1>5. x.n["decision"] \in Nat /\ y.n["decision"] \in Nat
  BY <1>4 DEF Marks, Replayed
<1>6. y.n["decision"] + (IF Calling(y.k) THEN 1 ELSE 0) = x.n["decision"] + 1
  BY <1>3, <1>4, AsksDecides
<1>7. y.n["decision"] <= Len(Of("decision"))
  BY DEF Trail, Sound, Of, Replayed
<1>8. Calling(y.k) => y.n["decision"] < Len(Of("decision"))
  BY DEF Trail, Of
<1> HIDE DEF Calling
<1> QED BY <1>5, <1>6, <1>7, <1>8

LEMMA FinishFollows ==
  ASSUME AuditInv, LiveAgrees, ReplayFollows, Finish
  PROVE  ReplayFollows' /\ ReplayAgrees'
<1>1. /\ phase = "replaying" /\ UNCHANGED live /\ UNCHANGED replay
      /\ rk.pc = "idle" /\ taken.cycles = Len(Of("decision"))
      /\ phase' = "replayed"
  BY DEF Finish
<1>2. /\ cfg' = cfg /\ k' = k /\ log' = log /\ causes' = causes
      /\ rlog' = rlog /\ taken' = taken
  BY <1>1 DEF live, replay
<1>3. CASE causes # {}
  BY <1>1, <1>2, <1>3 DEF ReplayFollows, ReplayAgrees
<1>4. CASE causes = {}
  <2>1. PICK S : Trail(S, cfg, log, k)
                   /\ \E x \in S : Reached(x, rk, rlog, taken, log)
    BY <1>1, <1>4 DEF ReplayFollows, Retracing
  <2>2. PICK x \in S : Reached(x, rk, rlog, taken, log)
    BY <2>1
  <2>3. Sound(log, x)
    BY <2>1 DEF Trail
  <2>4. /\ rk = x.k /\ ~Calling(x.k) /\ taken.cycles = x.n["decision"]
        /\ ~taken.error
    BY <1>1, <2>2, <2>3, IdleReached
  <2>5. k.pc = "idle"
    BY <1>1, <1>4 DEF LiveAgrees
  <2>6. ~Calling(k)
    BY <2>5 DEF Calling
  <2>7. x = Mark(k, log)
    BY <1>1, <2>1, <2>4, <2>6, AtLast
  <2>8. ASSUME NEW type \in {"decision", "action_request"}
        PROVE  Only(rlog, type) = Of(type)
    <3> DEFINE a == Only(rlog, type)
    <3> DEFINE b == Of(type)
    <3>1. x.n[type] = Len(b)
      BY <2>7, <2>8 DEF Mark, Of, Replayed
    <3>2. Len(a) = x.n[type] /\ \A i \in 1 .. x.n[type] : a[i] = b[i]
      BY <2>2, <2>8 DEF Reached, Retold, Of
    <3>3. a \in Seq(EventSet) /\ b \in Seq(EventSet)
      BY <2>2, OnlyType DEF Reached, AuditInv, Of
    <3> HIDE DEF a, b, EventSet
    <3>4. a = b
      BY <3>1, <3>2, <3>3, SeqEqual
    <3> QED BY <3>4 DEF a, b
  <2>9. ReplayOk
    BY <2>4, <2>8 DEF ReplayOk
  <2>10. ReplayOk'
    BY <1>2, <2>9 DEF ReplayOk, Of
  <2> QED BY <1>1, <2>10 DEF ReplayFollows, ReplayAgrees
<1> QED BY <1>3, <1>4

LEMMA AgreeInit == ASSUME Init PROVE AgreeInv
<1>1. phase = "running" /\ rlog = <<>> /\ taken = NothingTaken
  BY DEF Init
<1>2. AuditInv /\ LiveAgrees
  BY AuditInit, LiveInit
<1> QED BY <1>1, <1>2 DEF AgreeInv, ReplayFollows, ReplayAgrees

LEMMA AgreeNext == ASSUME AgreeInv, [Next]_vars PROVE AgreeInv'
<1>1. AuditInv /\ LiveAgrees /\ ReplayFollows /\ ReplayAgrees
  BY DEF AgreeInv
<1>2. AuditInv'
  BY <1>1, AuditNext
<1>3. CASE Run
  BY <1>1, <1>2, <1>3, RunAgrees, RunFollows DEF AgreeInv
<1>4. CASE Begin \/ Drive \/ Reply \/ Finish
  <2>1. ReplayFollows' /\ ReplayAgrees'
    BY <1>1, <1>4, BeginFollows, DriveFollows, ReplyFollows, FinishFollows
  <2>2. /\ phase # "running" /\ phase' # "running" /\ UNCHANGED live
    BY <1>4 DEF Begin, Drive, Reply, Finish
  <2>3. LiveAgrees'
    BY <1>1, <2>2 DEF live, LiveAgrees
  <2> QED BY <1>2, <2>1, <2>3 DEF AgreeInv
<1>5. CASE UNCHANGED vars
  <2>1. /\ cfg' = cfg /\ k' = k /\ log' = log /\ lost' = lost
        /\ phase' = phase /\ causes' = causes
        /\ rk' = rk /\ rlog' = rlog /\ taken' = taken
    BY <1>5 DEF vars, live, replay
  <2>2. LiveAgrees'
    BY <1>1, <2>1 DEF LiveAgrees
  <2>3. ReplayFollows'
    BY <1>1, <2>1 DEF ReplayFollows, Retracing
  <2>4. ReplayAgrees'
    BY <1>1, <2>1 DEF ReplayAgrees, ReplayOk, Of
  <2> QED BY <1>2, <2>2, <2>3, <2>4 DEF AgreeInv
<1> QED BY <1>3, <1>4, <1>5 DEF Next

\* The replay contract of replay.py, "re-derives identical decisions and
\* actuations": of a run in which no outcome was unknown, no call raised or was
\* cut, no state was malformed and no soak withdrew when it stopped, the replay
\* raises nothing and makes the decisions and the requests of the log, in order.
THEOREM ReplaysAgree == Spec => []ReplayAgrees
<1>1. Init => AgreeInv
  BY AgreeInit
<1>2. AgreeInv /\ [Next]_vars => AgreeInv'
  BY AgreeNext
<1>3. AgreeInv => ReplayAgrees
  BY DEF AgreeInv
<1> QED BY <1>1, <1>2, <1>3, PTL DEF Spec

-----------------------------------------------------------------------------
(* Two keepers that hold the same. *)

SamePlace(u, v) ==
    u.primary = v.primary /\ u.extras = v.extras /\ u.center = v.center
SameLoop(u, v) == u.routine = v.routine /\ u.todo = v.todo /\ u.kept = v.kept

\* They are at the same call, or one of them may still have to swap.
Alike(u, v) ==
    /\ SamePlace(u, v)
    /\ \/ u.pc = v.pc /\ SameLoop(u, v)
       \/ u.pc \in {"swap", "end"} /\ v.pc \in {"swap", "end"}

\* Where a routine leads, but from its first leg to its second.
Leads(u, v) == v.routine = u.routine /\ v.pc # "ask"

LEMMA AtIs ==
  ASSUME NEW u \in KeeperSet, NEW pc
  PROVE  /\ At(u, pc).pc = pc /\ SamePlace(At(u, pc), u)
         /\ SameLoop(At(u, pc), u)
BY DEF At, KeeperSet, SamePlace, SameLoop

LEMMA ThroughIs ==
  ASSUME NEW u \in KeeperSet
  PROVE  /\ Through(u).pc = "end" /\ SamePlace(Through(u), u)
         /\ SameLoop(Through(u), u)
BY DEF Through, KeeperSet, SamePlace, SameLoop

LEMMA AtAlike ==
  ASSUME NEW u \in KeeperSet, NEW v \in KeeperSet, NEW pc, SamePlace(u, v),
         SameLoop(u, v)
  PROVE  Alike(At(u, pc), At(v, pc)) /\ (pc # "ask" => Leads(u, At(u, pc)))
<1>1. /\ At(u, pc).pc = pc /\ SamePlace(At(u, pc), u) /\ SameLoop(At(u, pc), u)
      /\ At(v, pc).pc = pc /\ SamePlace(At(v, pc), v) /\ SameLoop(At(v, pc), v)
  BY AtIs
<1> HIDE DEF At
<1> QED BY <1>1 DEF Alike, SamePlace, SameLoop, Leads

LEMMA ThroughAlike ==
  ASSUME NEW u \in KeeperSet, NEW v \in KeeperSet, SamePlace(u, v)
  PROVE  Alike(Through(u), Through(v)) /\ Leads(u, Through(u))
<1>1. /\ Through(u).pc = "end" /\ SamePlace(Through(u), u)
      /\ Through(v).pc = "end" /\ SamePlace(Through(v), v)
      /\ SameLoop(Through(u), u)
  BY ThroughIs
<1> HIDE DEF Through
<1> QED BY <1>1 DEF Alike, SamePlace, SameLoop, Leads

LEMMA SwapAlike ==
  ASSUME NEW u \in KeeperSet, NEW v \in KeeperSet, SamePlace(u, v)
  PROVE  Alike(Swap(u), Swap(v)) /\ Leads(u, Swap(u))
<1>1. \A w \in KeeperSet : /\ Swap(w).pc \in {"swap", "end"}
                           /\ SamePlace(Swap(w), w) /\ SameLoop(Swap(w), w)
  BY AtIs, ThroughIs DEF Swap
<1> HIDE DEF Swap
<1> QED BY <1>1 DEF Alike, SamePlace, SameLoop, Leads

LEMMA AfterExtrasAlike ==
  ASSUME NEW u \in KeeperSet, NEW v \in KeeperSet, SamePlace(u, v),
         SameLoop(u, v), u.routine \in Withdrawing
  PROVE  Alike(AfterExtras(u), AfterExtras(v)) /\ Leads(u, AfterExtras(u))
<1>1. v.routine = u.routine /\ v.extras = u.extras
  BY DEF SamePlace, SameLoop
<1>2. /\ Alike(Through(u), Through(v)) /\ Leads(u, Through(u))
      /\ Alike(Swap(u), Swap(v)) /\ Leads(u, Swap(u))
  BY ThroughAlike, SwapAlike
<1>3. Alike(At(u, "bundle"), At(v, "bundle")) /\ Leads(u, At(u, "bundle"))
  BY AtAlike
<1>4. CASE u.routine = "refresh"
  BY <1>1, <1>2, <1>3, <1>4 DEF AfterExtras
<1>5. CASE u.routine = "stop"
  BY <1>1, <1>2, <1>5 DEF AfterExtras
<1>6. CASE u.routine \in {"derisk", "emergency"}
  BY <1>1, <1>2, <1>6 DEF AfterExtras
<1> QED BY <1>4, <1>5, <1>6 DEF Withdrawing

LEMMA WithdrawExtrasAlike ==
  ASSUME NEW u \in KeeperSet, NEW v \in KeeperSet, SamePlace(u, v),
         SameLoop(u, v), u.routine \in Withdrawing
  PROVE  /\ Alike(WithdrawExtras(u), WithdrawExtras(v))
         /\ Leads(u, WithdrawExtras(u))
<1> DEFINE E(w) == [w EXCEPT !.todo = w.extras, !.kept = <<>>]
<1>1. ASSUME NEW w \in KeeperSet
      PROVE  /\ E(w) \in KeeperSet /\ SamePlace(E(w), w)
             /\ E(w).routine = w.routine /\ E(w).todo = w.extras
             /\ E(w).kept = <<>>
  <2>1. <<>> \in Seq(Ids) /\ w.extras \in Seq(Ids)
    BY <1>1, EmptySeq DEF KeeperSet
  <2> QED BY <1>1, <2>1 DEF KeeperSet, SamePlace
<1>2. \A w : WithdrawExtras(w) = IF w.extras = <<>> THEN AfterExtras(w)
                                 ELSE At(E(w), "extra")
  BY DEF WithdrawExtras
<1> HIDE DEF E
<1>3. v.extras = u.extras
  BY DEF SamePlace
<1>4. CASE u.extras = <<>>
  BY <1>2, <1>3, <1>4, AfterExtrasAlike
<1>5. CASE u.extras # <<>>
  <2>1. SamePlace(E(u), E(v)) /\ SameLoop(E(u), E(v))
    BY <1>1 DEF SamePlace, SameLoop
  <2>2. Alike(At(E(u), "extra"), At(E(v), "extra")) /\ Leads(E(u), At(E(u), "extra"))
    BY <1>1, <2>1, AtAlike
  <2> QED BY <1>1, <1>2, <1>3, <1>5, <2>2 DEF Leads
<1> QED BY <1>4, <1>5

LEMMA StartAlike ==
  ASSUME NEW u \in KeeperSet, NEW v \in KeeperSet, SamePlace(u, v),
         u.todo = v.todo, u.kept = v.kept, NEW r \in Routines \ {"none"}
  PROVE  /\ Alike(Start(u, r), Start(v, r))
         /\ Start(u, r).routine = r /\ Start(u, r).pc # "ask"
<1> DEFINE R(w) == [w EXCEPT !.routine = r]
<1>1. \A w \in KeeperSet :
         /\ R(w) \in KeeperSet /\ SamePlace(R(w), w) /\ R(w).routine = r
         /\ R(w).todo = w.todo /\ R(w).kept = w.kept
  BY DEF KeeperSet, SamePlace
<1>2. \A w : Start(w, r) =
         CASE r = "deposit" -> At(R(w), "bid")
           [] r = "refresh" -> WithdrawExtras(R(w))
           [] r = "stop" ->
                IF R(w).primary = NoId THEN Through(R(w)) ELSE At(R(w), "withdraw")
           [] r \in {"derisk", "emergency"} ->
                IF R(w).primary = NoId THEN Swap(R(w)) ELSE At(R(w), "withdraw")
  BY DEF Start
<1> HIDE DEF R
<1>3. /\ SamePlace(R(u), R(v)) /\ SameLoop(R(u), R(v))
      /\ R(u).primary = R(v).primary
  BY <1>1 DEF SamePlace, SameLoop
<1>4. /\ Alike(Through(R(u)), Through(R(v))) /\ Leads(R(u), Through(R(u)))
      /\ Alike(Swap(R(u)), Swap(R(v))) /\ Leads(R(u), Swap(R(u)))
      /\ Alike(At(R(u), "bid"), At(R(v), "bid")) /\ Leads(R(u), At(R(u), "bid"))
      /\ Alike(At(R(u), "withdraw"), At(R(v), "withdraw"))
      /\ Leads(R(u), At(R(u), "withdraw"))
  BY <1>1, <1>3, ThroughAlike, SwapAlike, AtAlike
<1>5. CASE r = "deposit"
  BY <1>1, <1>2, <1>4, <1>5 DEF Leads
<1>6. CASE r = "refresh"
  <2>1. /\ Alike(WithdrawExtras(R(u)), WithdrawExtras(R(v)))
        /\ Leads(R(u), WithdrawExtras(R(u)))
    BY <1>1, <1>3, <1>6, WithdrawExtrasAlike DEF Withdrawing
  <2> QED BY <1>1, <1>2, <1>6, <2>1 DEF Leads
<1>7. CASE r = "stop"
  BY <1>1, <1>2, <1>3, <1>4, <1>7 DEF Leads
<1>8. CASE r \in {"derisk", "emergency"}
  BY <1>1, <1>2, <1>3, <1>4, <1>8 DEF Leads
<1> QED BY <1>5, <1>6, <1>7, <1>8 DEF Routines

LEMMA CountedIs ==
  ASSUME NEW u, Shape(u), NEW a \in AnswersTo(u)
  PROVE  /\ Counted(u, a) \in KeeperSet /\ Counted(u, a).pc = u.pc
         /\ SamePlace(Counted(u, a), u) /\ SameLoop(Counted(u, a), u)
         /\ Counted(u, a).bin = u.bin
<1>1. a.ok \in BOOLEAN /\ a.unknown \in BOOLEAN
  BY DEF AnswersTo
<1> HIDE DEF Counted
<1> QED BY <1>1, CountedBody DEF Shape, Body, SamePlace, SameLoop

LEMMA NextExtraAlike ==
  ASSUME NEW u \in KeeperSet, NEW v \in KeeperSet, SamePlace(u, v),
         SameLoop(u, v), Fits(u, "extra"),
         NEW a, NEW b, a.ok \in BOOLEAN, b.ok = a.ok
  PROVE  Alike(NextExtra(u, a), NextExtra(v, b)) /\ Leads(u, NextExtra(u, a))
<1> DEFINE kept == IF a.ok THEN u.kept ELSE Append(u.kept, Head(u.todo))
<1>1. /\ u.todo \in Seq(Ids) /\ u.kept \in Seq(Ids) /\ u.todo # <<>>
      /\ u.routine \in Withdrawing /\ v.todo = u.todo /\ v.kept = u.kept
      /\ v.routine = u.routine
  BY DEF KeeperSet, Fits, Withdrawing, SameLoop
<1>2. Head(u.todo) \in Ids /\ Tail(u.todo) \in Seq(Ids)
  BY <1>1, HeadMember
<1>3. Append(u.kept, Head(u.todo)) \in Seq(Ids)
  BY <1>1, <1>2, AppendMembers
<1>4. kept \in Seq(Ids)
  BY <1>1, <1>3
<1> DEFINE rest == Tail(u.todo)
<1> DEFINE N(w) == [w EXCEPT !.todo = rest, !.kept = kept]
<1> DEFINE L(w) == [w EXCEPT !.extras = kept, !.todo = <<>>, !.kept = <<>>]
<1>5. /\ NextExtra(u, a) = IF Len(u.todo) > 1 THEN At(N(u), "extra")
                           ELSE AfterExtras(L(u))
      /\ NextExtra(v, b) = IF Len(u.todo) > 1 THEN At(N(v), "extra")
                           ELSE AfterExtras(L(v))
  BY <1>1 DEF NextExtra
<1>6. rest \in Seq(Ids) /\ <<>> \in Seq(Ids)
  BY <1>2, EmptySeq
<1> HIDE DEF kept, rest
<1>7. \A w \in KeeperSet :
         /\ N(w) \in KeeperSet /\ SamePlace(N(w), w) /\ N(w).routine = w.routine
         /\ N(w).todo = rest /\ N(w).kept = kept
  BY <1>4, <1>6 DEF KeeperSet, SamePlace
<1>8. \A w \in KeeperSet :
         /\ L(w) \in KeeperSet /\ L(w).primary = w.primary /\ L(w).extras = kept
         /\ L(w).center = w.center /\ L(w).routine = w.routine
         /\ L(w).todo = <<>> /\ L(w).kept = <<>>
  BY <1>4, <1>6 DEF KeeperSet
<1> HIDE DEF N, L
<1>9. CASE Len(u.todo) > 1
  <2>1. SamePlace(N(u), N(v)) /\ SameLoop(N(u), N(v))
    BY <1>1, <1>7 DEF SamePlace, SameLoop
  <2>2. Alike(At(N(u), "extra"), At(N(v), "extra")) /\ Leads(N(u), At(N(u), "extra"))
    BY <1>7, <2>1, AtAlike
  <2> QED BY <1>5, <1>7, <1>9, <2>2 DEF Leads
<1>10. CASE ~(Len(u.todo) > 1)
  <2>1. SamePlace(L(u), L(v)) /\ SameLoop(L(u), L(v)) /\ L(u).routine \in Withdrawing
    BY <1>1, <1>8 DEF SamePlace, SameLoop
  <2>2. Alike(AfterExtras(L(u)), AfterExtras(L(v))) /\ Leads(L(u), AfterExtras(L(u)))
    BY <1>8, <2>1, AfterExtrasAlike
  <2> QED BY <1>5, <1>8, <1>10, <2>2 DEF Leads
<1> QED BY <1>9, <1>10

\* A swap changes nothing that is held, and is the last call of its cycle.
LEMMA SwapAnswered ==
  ASSUME NEW u, Shape(u), u.pc = "swap", NEW a \in AnswersTo(u)
  PROVE  /\ Answered(u, a).pc = "end" /\ SamePlace(Answered(u, a), u)
         /\ Answered(u, a).routine = u.routine
<1> DEFINE c == Counted(u, a)
<1>1. c \in KeeperSet /\ c.pc = "swap" /\ SamePlace(c, u) /\ SameLoop(c, u)
  BY CountedIs
<1>2. Answered(u, a) = Through(c)
  BY <1>1 DEF Answered
<1> HIDE DEF c
<1>3. /\ Through(c).pc = "end" /\ SamePlace(Through(c), c)
      /\ SameLoop(Through(c), c)
  BY <1>1, ThroughIs
<1> HIDE DEF Through
<1> QED BY <1>1, <1>2, <1>3 DEF SamePlace, SameLoop

SameCall(u, v) == SamePlace(u, v) /\ SameLoop(u, v) /\ u.pc = v.pc

\* Two keepers at the same call, which get the same answer, but that its outcome
\* may be in doubt for one of them.
Paired(u, v, a, b) ==
    /\ Shape(u) /\ Shape(v) /\ SameCall(u, v) /\ Request(u).ids = Request(v).ids
    /\ a \in AnswersTo(u) /\ b \in AnswersTo(v) /\ a.ok = b.ok /\ a.ids = b.ids

\* One of them may halt after its first leg and never ask for the second.
Apart(u, v) ==
    SamePlace(u, v) /\ u.pc \in {"ask", "end"} /\ v.pc \in {"ask", "end"}

LEMMA PairedCounted ==
  ASSUME NEW u, NEW v, NEW a, NEW b, Paired(u, v, a, b)
  PROVE  /\ Counted(u, a) \in KeeperSet /\ Counted(v, b) \in KeeperSet
         /\ SamePlace(Counted(u, a), Counted(v, b))
         /\ SameLoop(Counted(u, a), Counted(v, b))
         /\ SamePlace(Counted(u, a), u) /\ SameLoop(Counted(u, a), u)
         /\ Counted(u, a).pc = u.pc /\ Counted(v, b).pc = u.pc
         /\ Counted(u, a).bin = u.bin /\ Counted(v, b).bin = v.bin
         /\ a.ok \in BOOLEAN
<1>1. /\ Counted(u, a) \in KeeperSet /\ SamePlace(Counted(u, a), u)
      /\ SameLoop(Counted(u, a), u) /\ Counted(u, a).pc = u.pc
      /\ Counted(u, a).bin = u.bin
  BY CountedIs DEF Paired
<1>2. /\ Counted(v, b) \in KeeperSet /\ SamePlace(Counted(v, b), v)
      /\ SameLoop(Counted(v, b), v) /\ Counted(v, b).pc = v.pc
      /\ Counted(v, b).bin = v.bin
  BY CountedIs DEF Paired
<1>3. SamePlace(u, v) /\ SameLoop(u, v) /\ u.pc = v.pc /\ a.ok \in BOOLEAN
  BY DEF Paired, SameCall, AnswersTo
<1> HIDE DEF Counted
<1> QED BY <1>1, <1>2, <1>3 DEF SamePlace, SameLoop

LEMMA BidAlike ==
  ASSUME NEW u, NEW v, NEW a, NEW b, Paired(u, v, a, b), u.pc = "bid"
  PROVE  /\ Answered(u, a).routine = u.routine
         /\ Apart(Answered(u, a), Answered(v, b))
         /\ Answered(u, a).pc = Answered(v, b).pc =>
               Alike(Answered(u, a), Answered(v, b))
<1> DEFINE c == Counted(u, a)
<1> DEFINE d == Counted(v, b)
<1> DEFINE J(w) == IF a.ok THEN [w EXCEPT !.primary = a.ids[1], !.center = w.bin]
                           ELSE w
<1>1. /\ c \in KeeperSet /\ d \in KeeperSet /\ SamePlace(c, d) /\ SameLoop(c, d)
      /\ SameLoop(c, u) /\ c.pc = "bid" /\ d.pc = "bid"
      /\ c.bin = u.bin /\ d.bin = v.bin
  BY PairedCounted
<1>2. u.bin = v.bin
  <2>1. /\ Request(u).ids = <<Leg("bid", u.bin)>>
        /\ Request(v).ids = <<Leg("bid", v.bin)>>
    BY DEF Request, Paired, SameCall
  <2> DEFINE l == Leg("bid", u.bin)
  <2> DEFINE m == Leg("bid", v.bin)
  <2>2. <<l>> = <<m>>
    BY <2>1 DEF Paired
  <2>3. l.bin = u.bin /\ m.bin = v.bin
    BY DEF Leg
  <2> HIDE DEF l, m
  <2>4. l = m
    BY <2>2
  <2> QED BY <2>3, <2>4
<1>3. /\ Answered(u, a) = IF J(c).halted THEN Through(J(c)) ELSE At(J(c), "ask")
      /\ Answered(v, b) = IF J(d).halted THEN Through(J(d)) ELSE At(J(d), "ask")
  BY <1>1 DEF Answered, Paired
<1> HIDE DEF c, d
<1>4. a.ok => a.ids[1] \in Ids
  <2> SUFFICES ASSUME a.ok PROVE a.ids[1] \in Ids
    OBVIOUS
  <2>1. u.bin \in BinNames /\ u.bin # 0 /\ a.ids = <<Leg("bid", u.bin)>>
    BY AnswerIds DEF Paired, Shape, Body, Fits, KeeperSet
  <2> QED BY <2>1, LegsAreIds
<1>5. /\ J(c) \in KeeperSet /\ J(d) \in KeeperSet
      /\ SamePlace(J(c), J(d)) /\ SameLoop(J(c), J(d)) /\ SameLoop(J(c), u)
  <2> DEFINE p == a.ids[1]
  <2> HIDE DEF p
  <2>1. CASE a.ok
    <3> DEFINE K(w) == [w EXCEPT !.primary = p, !.center = w.bin]
    <3>1. J(c) = K(c) /\ J(d) = K(d) /\ p \in Ids
      BY <1>4, <2>1 DEF p
    <3>2. \A w \in KeeperSet :
             /\ K(w) \in KeeperSet /\ K(w).primary = p /\ K(w).center = w.bin
             /\ K(w).extras = w.extras /\ K(w).routine = w.routine
             /\ K(w).todo = w.todo /\ K(w).kept = w.kept
      BY <3>1 DEF KeeperSet
    <3> HIDE DEF K
    <3>3. /\ K(c) \in KeeperSet /\ K(d) \in KeeperSet
          /\ SamePlace(K(c), K(d)) /\ SameLoop(K(c), K(d)) /\ SameLoop(K(c), u)
      BY <1>1, <1>2, <3>2 DEF SamePlace, SameLoop
    <3> HIDE DEF J
    <3> QED BY <3>1, <3>3
  <2>2. CASE ~a.ok
    BY <1>1, <2>2
  <2> QED BY <2>1, <2>2
<1> HIDE DEF J
<1>6. /\ Alike(Through(J(c)), Through(J(d)))
      /\ Alike(At(J(c), "ask"), At(J(d), "ask"))
  BY <1>5, ThroughAlike, AtAlike
<1>7. \A w \in KeeperSet :
         /\ Through(w).pc = "end" /\ SamePlace(Through(w), w) /\ SameLoop(Through(w), w)
         /\ At(w, "ask").pc = "ask" /\ SamePlace(At(w, "ask"), w)
         /\ SameLoop(At(w, "ask"), w)
  BY ThroughIs, AtIs
<1>8. /\ SamePlace(Answered(u, a), J(c)) /\ SameLoop(Answered(u, a), J(c))
      /\ Answered(u, a).pc \in {"ask", "end"}
      /\ SamePlace(Answered(v, b), J(d)) /\ Answered(v, b).pc \in {"ask", "end"}
  BY <1>3, <1>5, <1>7
<1>9. Apart(Answered(u, a), Answered(v, b)) /\ Answered(u, a).routine = u.routine
  BY <1>5, <1>8 DEF Apart, SamePlace, SameLoop
<1>10. Answered(u, a).pc = Answered(v, b).pc => Alike(Answered(u, a), Answered(v, b))
  BY <1>3, <1>5, <1>6, <1>7
<1> QED BY <1>9, <1>10

LEMMA AskAlike ==
  ASSUME NEW u, NEW v, NEW a, NEW b, Paired(u, v, a, b), u.pc = "ask"
  PROVE  Alike(Answered(u, a), Answered(v, b)) /\ Leads(u, Answered(u, a))
<1> DEFINE c == Counted(u, a)
<1> DEFINE d == Counted(v, b)
<1> DEFINE x == a.ids[1]
<1> DEFINE new == a.ok /\ ~Contains(Tracked(c), x)
<1> DEFINE J(w) == IF new THEN [w EXCEPT !.extras = Append(w.extras, x)] ELSE w
<1>1. /\ c \in KeeperSet /\ d \in KeeperSet /\ SamePlace(c, d) /\ SameLoop(c, d)
      /\ SameLoop(c, u) /\ c.pc = "ask" /\ d.pc = "ask"
  BY PairedCounted
<1>2. Tracked(c) = Tracked(d)
  BY <1>1 DEF Tracked, SamePlace
<1>3. Answered(u, a) = Through(J(c)) /\ Answered(v, b) = Through(J(d))
  BY <1>1, <1>2 DEF Answered, Paired
<1>4. a.ok => x \in Ids
  <2> SUFFICES ASSUME a.ok PROVE x \in Ids
    OBVIOUS
  <2>1. u.bin \in BinNames /\ u.bin # 0 /\ a.ids = <<Leg("ask", u.bin)>>
    BY AnswerIds DEF Paired, Shape, Body, Fits, KeeperSet
  <2> QED BY <2>1, LegsAreIds
<1>5. new => x \in Ids
  BY <1>4
<1> HIDE DEF c, d, x, new
<1>6. /\ J(c) \in KeeperSet /\ J(d) \in KeeperSet
      /\ SamePlace(J(c), J(d)) /\ SameLoop(J(c), u)
  <2>1. CASE new
    <3> DEFINE more == Append(c.extras, x)
    <3>1. /\ c.extras \in Seq(Ids) /\ d.extras = c.extras
      BY <1>1 DEF KeeperSet, SamePlace
    <3>2. more \in Seq(Ids)
      BY <1>5, <2>1, <3>1, AppendMembers
    <3>3. J(c) = [c EXCEPT !.extras = more] /\ J(d) = [d EXCEPT !.extras = more]
      BY <2>1, <3>1
    <3> HIDE DEF more, J
    <3> QED BY <1>1, <3>2, <3>3 DEF KeeperSet, SamePlace, SameLoop
  <2>2. CASE ~new
    BY <1>1, <2>2
  <2> QED BY <2>1, <2>2
<1> HIDE DEF J
<1>7. Alike(Through(J(c)), Through(J(d))) /\ Leads(J(c), Through(J(c)))
  BY <1>6, ThroughAlike
<1> QED BY <1>3, <1>6, <1>7 DEF Leads, SameLoop

LEMMA BundleAlike ==
  ASSUME NEW u, NEW v, NEW a, NEW b, Paired(u, v, a, b), u.pc = "bundle"
  PROVE  Alike(Answered(u, a), Answered(v, b)) /\ Leads(u, Answered(u, a))
<1> DEFINE c == Counted(u, a)
<1> DEFINE d == Counted(v, b)
<1> DEFINE x == a.ids[1]
<1> DEFINE rest == Tail(a.ids)
<1> DEFINE J(w) == IF a.ok THEN [w EXCEPT !.primary = x, !.center = w.bin,
                                           !.extras = rest]
                           ELSE w
<1>1. /\ c \in KeeperSet /\ d \in KeeperSet /\ SamePlace(c, d) /\ SameLoop(c, d)
      /\ SameLoop(c, u) /\ c.pc = "bundle" /\ d.pc = "bundle"
      /\ c.bin = u.bin /\ d.bin = v.bin
  BY PairedCounted
<1>2. u.bin = v.bin
  <2> DEFINE l == Leg("bid", u.bin)
  <2> DEFINE m == Leg("bid", v.bin)
  <2>1. /\ Request(u).ids = <<u.primary, l, Leg("ask", u.bin)>>
        /\ Request(v).ids = <<v.primary, m, Leg("ask", v.bin)>>
        /\ Request(u).ids = Request(v).ids
    BY DEF Request, Paired, SameCall
  <2>2. l.bin = u.bin /\ m.bin = v.bin
    BY DEF Leg
  <2> HIDE DEF l, m
  <2>3. l = m
    BY <2>1
  <2> QED BY <2>2, <2>3
<1>3. Answered(u, a) = Through(J(c)) /\ Answered(v, b) = Through(J(d))
  BY <1>1 DEF Answered, Paired
<1>4. a.ok => x \in Ids /\ rest \in Seq(Ids)
  <2> SUFFICES ASSUME a.ok PROVE x \in Ids /\ rest \in Seq(Ids)
    OBVIOUS
  <2> DEFINE bid == Leg("bid", u.bin)
  <2> DEFINE ask == Leg("ask", u.bin)
  <2>1. /\ u.bin \in BinNames /\ u.bin # 0 /\ a.ids = <<bid, ask>>
    BY AnswerIds DEF Paired, Shape, Body, Fits, KeeperSet
  <2>2. bid \in Ids /\ ask \in Ids
    BY <2>1, LegsAreIds
  <2> HIDE DEF bid, ask
  <2> QED BY <2>1, <2>2, TwoMembers
<1> HIDE DEF c, d, x, rest
<1>5. /\ J(c) \in KeeperSet /\ J(d) \in KeeperSet
      /\ SamePlace(J(c), J(d)) /\ SameLoop(J(c), u)
  <2>1. CASE a.ok
    <3> DEFINE K(w) == [w EXCEPT !.primary = x, !.center = w.bin, !.extras = rest]
    <3>1. J(c) = K(c) /\ J(d) = K(d) /\ x \in Ids /\ rest \in Seq(Ids)
      BY <1>4, <2>1
    <3>2. \A w \in KeeperSet :
             /\ K(w) \in KeeperSet /\ K(w).primary = x /\ K(w).center = w.bin
             /\ K(w).extras = rest /\ K(w).routine = w.routine
             /\ K(w).todo = w.todo /\ K(w).kept = w.kept
      BY <3>1 DEF KeeperSet
    <3> HIDE DEF K
    <3>3. /\ K(c) \in KeeperSet /\ K(d) \in KeeperSet
          /\ SamePlace(K(c), K(d)) /\ SameLoop(K(c), u)
      BY <1>1, <1>2, <3>2 DEF SamePlace, SameLoop
    <3> HIDE DEF J
    <3> QED BY <3>1, <3>3
  <2>2. CASE ~a.ok
    BY <1>1, <2>2
  <2> QED BY <2>1, <2>2, <1>1, PairedCounted
<1> HIDE DEF J
<1>6. Alike(Through(J(c)), Through(J(d))) /\ Leads(J(c), Through(J(c)))
  BY <1>5, ThroughAlike
<1> QED BY <1>3, <1>5, <1>6 DEF Leads, SameLoop

LEMMA WithdrawAlike ==
  ASSUME NEW u, NEW v, NEW a, NEW b, Paired(u, v, a, b), u.pc = "withdraw"
  PROVE  Alike(Answered(u, a), Answered(v, b)) /\ Leads(u, Answered(u, a))
<1> DEFINE c == Counted(u, a)
<1> DEFINE d == Counted(v, b)
<1> DEFINE J(w) == [w EXCEPT !.primary = NoId]
<1>1. /\ c \in KeeperSet /\ d \in KeeperSet /\ SamePlace(c, d) /\ SameLoop(c, d)
      /\ SameLoop(c, u) /\ c.pc = "withdraw" /\ d.pc = "withdraw"
  BY PairedCounted
<1>2. d.routine = c.routine /\ c.routine = u.routine /\ u.routine \in Withdrawing
  BY <1>1 DEF SameLoop, Paired, Shape, Fits, Withdrawing
<1>3. /\ Answered(u, a) = IF a.ok \/ c.routine = "emergency"
                          THEN WithdrawExtras(J(c)) ELSE Through(c)
      /\ Answered(v, b) = IF a.ok \/ c.routine = "emergency"
                          THEN WithdrawExtras(J(d)) ELSE Through(d)
  BY <1>1, <1>2 DEF Answered, Paired
<1> HIDE DEF c, d
<1>4. \A w \in KeeperSet :
         /\ J(w) \in KeeperSet /\ J(w).primary = NoId /\ J(w).extras = w.extras
         /\ J(w).center = w.center /\ SameLoop(J(w), w)
  BY DEF KeeperSet, SameLoop
<1> HIDE DEF J
<1>5. SamePlace(J(c), J(d)) /\ SameLoop(J(c), J(d)) /\ J(c).routine = u.routine
  BY <1>1, <1>4 DEF SamePlace, SameLoop
<1>6. /\ Alike(WithdrawExtras(J(c)), WithdrawExtras(J(d)))
      /\ Leads(J(c), WithdrawExtras(J(c)))
  BY <1>1, <1>2, <1>4, <1>5, WithdrawExtrasAlike
<1>7. Alike(Through(c), Through(d)) /\ Leads(c, Through(c))
  BY <1>1, ThroughAlike
<1> QED BY <1>2, <1>3, <1>5, <1>6, <1>7 DEF Leads

\* What an answer does is told by the call, what is held and the answer, but for
\* a halt after the first leg.
LEMMA AnsweredAlike ==
  ASSUME NEW u, NEW v, NEW a, NEW b, Paired(u, v, a, b), Calling(u)
  PROVE  /\ Answered(u, a).routine = u.routine
         /\ \/ Alike(Answered(u, a), Answered(v, b))
            \/ u.pc = "bid" /\ Apart(Answered(u, a), Answered(v, b))
<1>1. u.pc \in CallPcs
  BY DEF Calling, Paired, Shape, Body, KeeperSet
<1>2. CASE u.pc = "bid"
  BY <1>2, BidAlike
<1>3. CASE u.pc = "extra"
  <2>1. /\ Counted(u, a) \in KeeperSet /\ Counted(v, b) \in KeeperSet
        /\ SamePlace(Counted(u, a), Counted(v, b))
        /\ SameLoop(Counted(u, a), Counted(v, b))
        /\ SameLoop(Counted(u, a), u) /\ a.ok \in BOOLEAN
        /\ Counted(u, a).pc = "extra" /\ Counted(v, b).pc = "extra"
    BY <1>3, PairedCounted
  <2>2. Fits(Counted(u, a), "extra")
    BY <1>3, <2>1 DEF Fits, SameLoop, Paired, Shape
  <2>3. /\ Answered(u, a) = NextExtra(Counted(u, a), a)
        /\ Answered(v, b) = NextExtra(Counted(v, b), b)
    BY <2>1 DEF Answered
  <2>4. b.ok = a.ok
    BY DEF Paired
  <2>5. /\ Alike(Answered(u, a), Answered(v, b))
        /\ Leads(Counted(u, a), Answered(u, a))
    BY <2>1, <2>2, <2>3, <2>4, NextExtraAlike
  <2> QED BY <1>3, <2>1, <2>5 DEF Leads, SameLoop
<1>4. CASE u.pc = "swap"
  <2>1. v.pc = "swap" /\ SamePlace(u, v)
    BY <1>4 DEF Paired, SameCall
  <2>2. /\ Answered(u, a).pc = "end" /\ SamePlace(Answered(u, a), u)
        /\ Answered(v, b).pc = "end" /\ SamePlace(Answered(v, b), v)
        /\ Answered(u, a).routine = u.routine
    BY <1>4, <2>1, SwapAnswered DEF Paired
  <2> QED BY <1>4, <2>1, <2>2 DEF Alike, SamePlace
<1>5. CASE u.pc \in {"ask", "bundle", "withdraw"}
  <2>1. Alike(Answered(u, a), Answered(v, b)) /\ Leads(u, Answered(u, a))
    BY <1>5, AskAlike, BundleAlike, WithdrawAlike
  <2> QED BY <2>1 DEF Leads
<1> QED BY <1>1, <1>2, <1>3, <1>4, <1>5 DEF CallPcs

\* The beginning of a cycle.
Begun(u, j) ==
    \/ \E act \in {"halted", "no_state", "bad_state"} : j = Ends(u, act)
    \/ j = Killed(u)
    \/ \E r \in Readings : j = Planned(u, r)

\* It is told by what is held and by what is done.
Quits == {"halted", "no_state", "bad_state", "hold", "none"}
Routine(act) == IF act = "sentinel" THEN "emergency" ELSE act
Launched(v, act) == IF act \in Quits THEN Through(v) ELSE Start(v, Routine(act))
Launches(u, act, j) ==
    /\ act \in CycleActs /\ j.act = act
    /\ \E v \in KeeperSet : /\ SamePlace(v, u) /\ v.todo = <<>> /\ v.kept = <<>>
                            /\ j = Launched(v, act)

LEMMA SeenPlace ==
  ASSUME NEW u, Shape(u), NEW r \in Readings
  PROVE  SamePlace(Seen(u, r), u)
BY ReadingType DEF Shape, Body, KeeperSet, Seen, SamePlace

LEMMA EndsLaunches ==
  ASSUME NEW u, NEW w, Shape(w), SamePlace(w, u), w.todo = <<>>, w.kept = <<>>,
         NEW act \in Quits
  PROVE  Launches(u, act, Ends(w, act))
<1> DEFINE v == [w EXCEPT !.act = act, !.routine = "none"]
<1>1. act \in CycleActs /\ act \in Acts /\ "none" \in Routines
  BY DEF Quits, CycleActs, Acts, Routines
<1>2. Ends(w, act) = Through(v)
  BY DEF Ends
<1>3. /\ v \in KeeperSet /\ SamePlace(v, w) /\ v.todo = <<>> /\ v.kept = <<>>
  BY <1>1 DEF Shape, Body, KeeperSet, SamePlace
<1> HIDE DEF v
<1>4. Goes(w.reqs, act, Ends(w, act), Held(w))
  BY <1>1, EndsGoes
<1>5. Ends(w, act) = Launched(v, act)
  BY <1>2 DEF Launched
<1>6. SamePlace(v, u)
  BY <1>3 DEF SamePlace
<1> QED BY <1>1, <1>3, <1>4, <1>5, <1>6 DEF Launches, Goes

LEMMA StartLaunches ==
  ASSUME NEW u, NEW w, Shape(w), SamePlace(w, u), w.todo = <<>>, w.kept = <<>>,
         NEW act \in CycleActs \ Quits, NEW j,
         j = Start([w EXCEPT !.act = act], Routine(act)),
         NEW n, Goes(n, act, j, Held(w))
  PROVE  Launches(u, act, j)
<1> DEFINE v == [w EXCEPT !.act = act]
<1>1. act \in Acts /\ w \in KeeperSet
  BY DEF CycleActs, Shape, Body
<1>2. v \in KeeperSet /\ SamePlace(v, w) /\ v.todo = <<>> /\ v.kept = <<>>
  BY <1>1 DEF KeeperSet, SamePlace
<1>3. j = Launched(v, act)
  BY DEF Launched
<1> HIDE DEF v
<1>4. SamePlace(v, u) /\ j.act = act
  BY <1>2 DEF SamePlace, Goes
<1> QED BY <1>2, <1>3, <1>4 DEF Launches

LEMMA BegunLaunches ==
  ASSUME NEW u, Shape(u), u.pc = "idle", NEW j, Begun(u, j)
  PROVE  Launches(u, j.act, j) /\ Goes(u.reqs, j.act, j, Held(u))
<1> DEFINE Done(act) == Launches(u, act, j) /\ Goes(u.reqs, act, j, Held(u))
<1> SUFFICES \E act : Done(act)
  BY DEF Launches
<1>1. u.todo = <<>> /\ u.kept = <<>> /\ SamePlace(u, u)
  BY DEF Shape, Fits, SamePlace
<1>2. ASSUME NEW act \in {"halted", "no_state", "bad_state"}, j = Ends(u, act)
      PROVE  Done(act)
  <2>1. act \in Quits /\ act \in Acts
    BY DEF Quits, Acts
  <2> QED BY <1>1, <1>2, <2>1, EndsLaunches, EndsGoes
<1>3. CASE j = Killed(u)
  <2> DEFINE act == "sentinel"
  <2>1. Goes(u.reqs, act, j, Held(u))
    BY <1>3, KilledGoes
  <2>2. act \in CycleActs \ Quits /\ Routine(act) = "emergency"
    BY DEF CycleActs, Acts, Quits, Routine
  <2>3. j = Start([u EXCEPT !.act = act], Routine(act))
    BY <1>3, <2>2 DEF Killed
  <2> HIDE DEF act
  <2>4. Done(act)
    BY <1>1, <2>1, <2>2, <2>3, StartLaunches
  <2> QED BY <2>4
<1>4. ASSUME NEW r \in Readings, j = Planned(u, r) PROVE \E act : Done(act)
  <2> DEFINE w == Seen(u, r)
  <2>1. Shape(w) /\ w.todo = <<>> /\ w.kept = <<>> /\ Held(w) = Held(u)
        /\ w.reqs = u.reqs /\ w.bin # 0
    BY <1>1, SeenBody, ReadingType
  <2>2. SamePlace(w, u) /\ r.verdict \in Verdicts
    BY SeenPlace, ReadingType
  <2> HIDE DEF w
  <2>4. ASSUME NEW b \in Quits, j = Ends(w, b) PROVE Done(b)
    <3>1. b \in Acts
      BY DEF Quits, Acts
    <3>2. Goes(w.reqs, b, Ends(w, b), Held(w))
      BY <2>1, <3>1, EndsGoes
    <3>3. Launches(u, b, Ends(w, b))
      BY <2>1, <2>2, EndsLaunches
    <3> QED BY <2>1, <2>4, <3>2, <3>3
  <2>5. ASSUME NEW b \in {"deposit", "refresh", "stop", "derisk", "emergency"},
               b = "refresh" => w.primary # NoId,
               j = Start([w EXCEPT !.act = b], b)
        PROVE  Done(b)
    <3>1. b \in CycleActs \ Quits /\ Routine(b) = b /\ b \in Routines \ {"none"}
          /\ b \in Acts
      BY DEF CycleActs, Acts, Quits, Routine, Routines
    <3> DEFINE v == [w EXCEPT !.act = b]
    <3>2. /\ v \in KeeperSet /\ v.primary = w.primary /\ v.bin = w.bin
          /\ Held(v) = Held(w) /\ v.reqs = w.reqs /\ v.act = b
      BY <2>1, <3>1, ActedBody DEF Shape, Body
    <3> HIDE DEF v
    <3>3. Goes(u.reqs, b, j, Held(w))
      <4>1. Goes(v.reqs, v.act, Start(v, b), Held(w))
        BY <2>1, <2>5, <3>1, <3>2, StartGoes
      <4> QED BY <2>1, <2>5, <3>2, <4>1 DEF v
    <3>4. j = Start([w EXCEPT !.act = b], Routine(b))
      BY <2>5, <3>1
    <3>5. Launches(u, b, j)
      BY <2>1, <2>2, <3>1, <3>3, <3>4, StartLaunches
    <3> QED BY <2>1, <3>3, <3>5
  <2>6. {"hold", "none"} \subseteq Quits
    BY DEF Quits
  <2>7. CASE r.verdict = "hold"
    BY <1>4, <2>4, <2>6, <2>7 DEF Planned, w
  <2>8. CASE r.verdict = "quote"
    <3>1. CASE w.primary = NoId
      BY <1>4, <2>5, <2>8, <3>1 DEF Planned, w
    <3>2. CASE w.primary # NoId /\ w.center # 0 /\ w.center # w.bin
      BY <1>4, <2>5, <2>8, <3>2 DEF Planned, w
    <3>3. CASE w.primary # NoId /\ ~(w.center # 0 /\ w.center # w.bin)
      BY <1>4, <2>4, <2>6, <2>8, <3>3 DEF Planned, w
    <3> QED BY <3>1, <3>2, <3>3
  <2>9. CASE r.verdict \in {"stop", "derisk", "emergency"}
    <3>1. j = Start([w EXCEPT !.act = r.verdict], r.verdict)
      BY <1>4, <2>9 DEF Planned, w
    <3> HIDE DEF Done
    <3> QED BY <2>5, <2>9, <3>1
  <2> QED BY <2>2, <2>7, <2>8, <2>9 DEF Verdicts
<1> QED BY <1>2, <1>3, <1>4 DEF Begun

LEMMA BegunAlike ==
  ASSUME NEW u, NEW w, Shape(u), Shape(w), u.pc = "idle", w.pc = "idle",
         SamePlace(u, w), NEW i, NEW j, Begun(u, i), Begun(w, j), i.act = j.act
  PROVE  Alike(i, j) /\ i.pc # "ask"
<1> DEFINE act == i.act
<1>1. Launches(u, act, i) /\ Launches(w, act, j)
  BY BegunLaunches
<1> HIDE DEF act
<1>2. PICK v1 \in KeeperSet : /\ SamePlace(v1, u) /\ v1.todo = <<>>
                              /\ v1.kept = <<>> /\ i = Launched(v1, act)
  BY <1>1 DEF Launches
<1>3. PICK v2 \in KeeperSet : /\ SamePlace(v2, w) /\ v2.todo = <<>>
                              /\ v2.kept = <<>> /\ j = Launched(v2, act)
  BY <1>1 DEF Launches
<1>4. SamePlace(v1, v2) /\ v1.todo = v2.todo /\ v1.kept = v2.kept
  BY <1>2, <1>3 DEF SamePlace
<1>5. CASE act \in Quits
  <2>1. i = Through(v1) /\ j = Through(v2) /\ Through(v1).pc = "end"
    BY <1>2, <1>3, <1>5, ThroughIs DEF Launched
  <2> QED BY <1>4, <2>1, ThroughAlike
<1>6. CASE act \notin Quits
  <2>1. Routine(act) \in Routines \ {"none"}
    BY <1>1, <1>6 DEF Launches, CycleActs, Acts, Quits, Routine, Routines
  <2>2. i = Start(v1, Routine(act)) /\ j = Start(v2, Routine(act))
    BY <1>2, <1>3, <1>6 DEF Launched
  <2> QED BY <1>4, <2>1, <2>2, StartAlike
<1> QED BY <1>5, <1>6

\* A soak that withdraws when it stops asks for nothing else.
LEMMA CleanlyStoppedIs ==
  ASSUME NEW u, Shape(u), u.pc = "idle"
  PROVE  CleanlyStopped(u).routine = "stop"
<1> DEFINE v == [u EXCEPT !.act = "clean stop"]
<1>1. u \in KeeperSet /\ "clean stop" \in Acts /\ "stop" \in Routines \ {"none"}
  BY DEF Shape, Body, Acts, Routines
<1>2. v \in KeeperSet
  BY <1>1, ActedBody
<1> HIDE DEF v
<1>3. SamePlace(v, v)
  BY DEF SamePlace
<1>4. Start(v, "stop").routine = "stop"
  BY <1>1, <1>2, <1>3, StartAlike
<1> QED BY <1>4 DEF CleanlyStopped, v

LEMMA StopWithdraws ==
  ASSUME NEW u, Shape(u), Calling(u), u.routine = "stop"
  PROVE  Request(u).verb = "withdraw"
<1>1. u.pc \in CallPcs
  BY DEF Calling, Shape, Body, KeeperSet
<1>2. u.pc \in {"extra", "withdraw"}
  BY <1>1 DEF CallPcs, Shape, Fits
<1> QED BY <1>2 DEF Request

\* What a keeper holds does not change between two cycles.
LEMMA RestedPlace ==
  ASSUME NEW u \in KeeperSet
  PROVE  /\ SamePlace(Rested(u), u)
         /\ u.pc = "end" => Rested(u).pc = "idle"
         /\ u.pc # "end" => Rested(u) = u
BY DEF Rested, Left, KeeperSet, SamePlace

-----------------------------------------------------------------------------
(* What is appended to a log changes nothing of what was there. *)

LEMMA InOrderGrows ==
  ASSUME NEW K, NEW W, K \subseteq W, W \subseteq Int, IsFiniteSet(W),
         \A i \in K, m \in W \ K : i < m
  PROVE  /\ Len(InOrder(K)) <= Len(InOrder(W)) /\ Len(InOrder(K)) \in Nat
         /\ \A j \in 1 .. Len(InOrder(K)) : InOrder(W)[j] = InOrder(K)[j]
<1>1. K \subseteq Int /\ IsFiniteSet(K)
  BY FS_Subset
<1>2. /\ Len(InOrder(K)) = Cardinality(K) /\ Len(InOrder(W)) = Cardinality(W)
      /\ Cardinality(K) <= Cardinality(W)
      /\ Cardinality(K) \in Nat /\ Cardinality(W) \in Nat
  BY <1>1, InOrderType, FS_Subset, FS_CardinalityType
<1>3. ASSUME NEW j \in 1 .. Len(InOrder(K))
      PROVE  InOrder(W)[j] = InOrder(K)[j]
  <2> DEFINE m == InOrder(K)[j]
  <2>1. m \in K /\ Rank(K, m) = j
    BY <1>1, <1>2, <1>3, InOrderType
  <2> HIDE DEF m
  <2>2. {i \in W : i <= m} = {i \in K : i <= m}
    <3>1. ASSUME NEW i \in W, i <= m PROVE i \in K
      <4> SUFFICES ASSUME i \in W \ K PROVE FALSE
        BY <3>1
      <4>1. m < i
        BY <2>1
      <4> QED BY <1>1, <2>1, <3>1, <4>1
    <3> QED BY <3>1
  <2>3. Rank(W, m) = j
    BY <2>1, <2>2 DEF Rank
  <2>4. InOrder(W)[Rank(W, m)] = m
    BY <2>1, InOrderOnto
  <2> QED BY <2>3, <2>4 DEF m
<1> QED BY <1>2, <1>3

LEMMA Appended ==
  ASSUME NEW lg \in Seq(EventSet), NEW more \in Seq(EventSet)
  PROVE  lg \o more \in Seq(EventSet) /\ Longer(lg, lg \o more)
<1> DEFINE all == lg \o more
<1>1. /\ all \in Seq(EventSet) /\ Len(lg) \in Nat
      /\ \A j \in 1 .. Len(lg) : all[j] = lg[j]
  BY Joined
<1>2. ASSUME NEW type PROVE LongIn(lg, all, type)
  <2> DEFINE K == Places(lg, type)
  <2> DEFINE W == Places(all, type)
  <2> DEFINE N == {Len(lg) + n : n \in Places(more, type)}
  <2>1. W = K \cup N
    BY PlacesJoin
  <2>2. \A m \in N : Len(lg) < m
    <3>1. \A n \in Places(more, type) : n \in Int /\ 0 < n
      BY LenProperties DEF Places
    <3> QED BY <1>1, <3>1
  <2>3. K \subseteq 1 .. Len(lg) /\ W \subseteq 1 .. Len(all)
    BY DEF Places
  <2>4. Only(lg, type) = Picked(lg, K) /\ Only(all, type) = Picked(all, W)
    BY DEF Only
  <2> HIDE DEF K, W, N, all
  <2>5. W \subseteq Int /\ IsFiniteSet(W) /\ K \subseteq Int /\ IsFiniteSet(K)
    BY <1>1, <2>3, PlacesFinite, LenProperties
  <2>6. \A i \in K, m \in W \ K : i < m
    <3> SUFFICES ASSUME NEW i \in K, NEW m \in W \ K PROVE i < m
      OBVIOUS
    <3>1. m \in N /\ m \in Int /\ i \in 1 .. Len(lg)
      BY <2>1, <2>3, <2>5
    <3> QED BY <1>1, <2>2, <3>1
  <2>7. /\ Len(InOrder(K)) <= Len(InOrder(W)) /\ Len(InOrder(K)) \in Nat
        /\ Len(InOrder(W)) \in Nat
        /\ \A j \in 1 .. Len(InOrder(K)) : InOrder(W)[j] = InOrder(K)[j]
    BY <2>1, <2>5, <2>6, InOrderGrows, InOrderType
  <2>8. /\ Len(Picked(lg, K)) = Len(InOrder(K))
        /\ Len(Picked(all, W)) = Len(InOrder(W))
    BY <1>1, <2>3, PickedType
  <2>9. ASSUME NEW j \in 1 .. Len(InOrder(K))
        PROVE  Picked(all, W)[j] = Picked(lg, K)[j]
    <3>1. j \in 1 .. Len(InOrder(W))
      BY <2>7
    <3>2. InOrder(K)[j] \in K /\ Picked(lg, K)[j] = lg[InOrder(K)[j]]
      BY <2>5, PickedAt
    <3>3. Picked(all, W)[j] = all[InOrder(W)[j]]
      BY <2>5, <3>1, PickedAt
    <3> QED BY <1>1, <2>3, <2>7, <3>2, <3>3
  <2> QED BY <2>4, <2>7, <2>8, <2>9 DEF LongIn, all
<1> QED BY <1>1, <1>2 DEF Longer, all

-----------------------------------------------------------------------------
(* The path of a run: its keepers at the decisions and the requests of the  *)
(* log, whatever went wrong between them.                                   *)

Compared == {"action_request", "action_result", "decision"}

\* A second leg that is deposited.
AskLeg(q) == q.what = "deposit" /\ \E b \in BinNames : q.ids = <<Leg("ask", b)>>

LEMMA AskLegLogged ==
  ASSUME NEW u, Shape(u), Calling(u), NEW q, q.what = Request(u).verb,
         q.ids = Request(u).ids
  PROVE  AskLeg(q) <=> u.pc = "ask"
<1>1. u.pc \in CallPcs /\ u.bin \in BinNames
  BY DEF Calling, Shape, Body, KeeperSet
<1>2. CASE u.pc = "ask"
  BY <1>1, <1>2 DEF AskLeg, Request
<1>3. CASE u.pc = "bid"
  <2>1. q.ids = <<Leg("bid", u.bin)>>
    BY <1>3 DEF Request
  <2>2. ASSUME NEW b, q.ids = <<Leg("ask", b)>> PROVE FALSE
    <3> DEFINE l == Leg("bid", u.bin)
    <3> DEFINE m == Leg("ask", b)
    <3>1. l.side = "bid" /\ m.side = "ask" /\ <<l>> = <<m>>
      BY <2>1, <2>2 DEF Leg
    <3> HIDE DEF l, m
    <3>2. l = m
      BY <3>1
    <3> QED BY <3>1, <3>2
  <2> QED BY <1>3, <2>2 DEF AskLeg
<1>4. CASE u.pc \in CallPcs \ {"ask", "bid"}
  <2>1. Request(u).verb # "deposit"
    BY <1>4 DEF Request, CallPcs
  <2> QED BY <1>4, <2>1 DEF AskLeg
<1> QED BY <1>1, <1>2, <1>3, <1>4

LEMMA AnsweredAct ==
  ASSUME NEW u, Shape(u), Calling(u), NEW a \in AnswersTo(u)
  PROVE  \E X : Goes(u.reqs, u.act, Answered(u, a), X)
<1> DEFINE X == Held(u) \cup {NoId} \cup ToSet(a.ids)
<1>1. Held(u) \subseteq X /\ NoId \in X /\ ToSet(a.ids) \subseteq X
  OBVIOUS
<1> HIDE DEF X
<1>2. Goes(u.reqs, u.act, Answered(u, a), X)
  BY <1>1, AnsweredGoes
<1> QED BY <1>2

LEMMA BegunType ==
  ASSUME NEW u, Shape(u), u.pc = "idle", NEW j, Begun(u, j)
  PROVE  /\ Goes(u.reqs, j.act, j, Held(u)) /\ j.act \in CycleActs
         /\ j.pc # "ask"
<1>1. SamePlace(u, u)
  BY DEF SamePlace
<1> QED BY <1>1, BegunLaunches, BegunAlike DEF Launches

CycleWalk(lg, x, y) ==
    /\ x.k.pc = "idle" /\ None(x, y, "action_result")
    /\ \E u, j : /\ Shape(u) /\ u.pc = "idle" /\ SamePlace(x.k, u)
                 /\ Begun(u, j) /\ Asks(lg, x, y, j)
AnswerWalk(lg, x, y) ==
    /\ Calling(x.k)
    /\ \E a \in AnswersTo(x.k) :
          /\ One(lg, x, y, "action_result", Result(x.k, a))
          /\ Asks(lg, x, y, Answered(x.k, a))
Walk(lg, x, y) == CycleWalk(lg, x, y) \/ AnswerWalk(lg, x, y)

LEMMA AsksStays ==
  ASSUME NEW lg \in Seq(EventSet), NEW lg2 \in Seq(EventSet),
         Longer(lg, lg2), NEW x \in Marks, NEW y, NEW j, Asks(lg, x, y, j)
  PROVE  Asks(lg2, x, y, j)
<1>1. "action_request" \in Replayed /\ "decision" \in Replayed
  BY DEF Replayed
<1>2. ASSUME NEW type \in Replayed, NEW e, One(lg, x, y, type, e)
      PROVE  One(lg2, x, y, type, e)
  BY <1>2, OneStays DEF Longer
<1> QED BY <1>1, <1>2 DEF Asks

LEMMA WalkStays ==
  ASSUME NEW lg \in Seq(EventSet), NEW lg2 \in Seq(EventSet),
         Longer(lg, lg2), NEW x \in Marks, NEW y, Walk(lg, x, y)
  PROVE  Walk(lg2, x, y)
<1>1. "action_result" \in Replayed
  BY DEF Replayed
<1>2. ASSUME NEW j, Asks(lg, x, y, j) PROVE Asks(lg2, x, y, j)
  BY <1>2, AsksStays
<1>3. CASE CycleWalk(lg, x, y)
  BY <1>2, <1>3 DEF CycleWalk, Walk
<1>4. CASE AnswerWalk(lg, x, y)
  <2>1. PICK a \in AnswersTo(x.k) :
           /\ One(lg, x, y, "action_result", Result(x.k, a))
           /\ Asks(lg, x, y, Answered(x.k, a))
    BY <1>4 DEF AnswerWalk
  <2> DEFINE e == Result(x.k, a)
  <2>2. One(lg, x, y, "action_result", e)
    BY <2>1
  <2> HIDE DEF e
  <2>3. One(lg2, x, y, "action_result", e)
    BY <1>1, <2>2, OneStays DEF Longer
  <2>4. Asks(lg2, x, y, Answered(x.k, a))
    BY <1>2, <2>1
  <2> QED BY <1>4, <2>3, <2>4 DEF AnswerWalk, Walk, e
<1> QED BY <1>3, <1>4 DEF Walk

\* Where it leads, and what the act was.
LEMMA WalkAsks ==
  ASSUME NEW lg, NEW x, Shape(x.k), NEW y, Walk(lg, x, y)
  PROVE  \E j : /\ Asks(lg, x, y, j)
                /\ Calling(x.k) => j.act = x.k.act
                /\ x.k.pc = "idle" => j.pc # "ask"
<1>1. CASE CycleWalk(lg, x, y)
  <2>1. PICK u, j : /\ Shape(u) /\ u.pc = "idle" /\ Begun(u, j)
                    /\ Asks(lg, x, y, j)
    BY <1>1 DEF CycleWalk
  <2>2. j.pc # "ask" /\ ~Calling(x.k)
    BY <1>1, <2>1, BegunType DEF CycleWalk, Calling
  <2> QED BY <2>1, <2>2
<1>2. CASE AnswerWalk(lg, x, y)
  <2>1. PICK a \in AnswersTo(x.k) : Asks(lg, x, y, Answered(x.k, a))
    BY <1>2 DEF AnswerWalk
  <2> DEFINE j == Answered(x.k, a)
  <2>2. j.act = x.k.act
    BY <1>2, AnsweredAct DEF AnswerWalk, Goes
  <2>3. x.k.pc # "idle" /\ Asks(lg, x, y, j)
    BY <1>2, <2>1 DEF AnswerWalk, Calling
  <2> HIDE DEF j
  <2> QED BY <2>2, <2>3
<1> QED BY <1>1, <1>2 DEF Walk

LEMMA WalkSound ==
  ASSUME NEW lg \in Seq(EventSet), NEW x, Sound(lg, x), NEW v,
         Walk(lg, x, Mark(v, lg))
  PROVE  Sound(lg, Mark(v, lg))
<1> DEFINE y == Mark(v, lg)
<1>1. PICK j : Asks(lg, x, y, j)
  BY WalkAsks DEF Sound
<1>2. /\ y.k = v /\ \A type \in Replayed : y.n[type] = Len(Only(lg, type))
  BY DEF Mark
<1>3. "action_request" \in Replayed /\ "action_result" \in Replayed
  BY DEF Replayed
<1>4. \A type \in Replayed : y.n[type] \in Nat
  BY <1>2, OnlyType
<1>5. x.n["action_request"] \in Nat /\ x.n["action_result"] \in Nat
  BY <1>3 DEF Sound, Marks
<1>6. /\ Shape(v) /\ v.pc # "end"
      /\ Calling(v) => One(lg, x, y, "action_request", Logged(v))
      /\ ~Calling(v) => None(x, y, "action_request")
  BY <1>1, <1>2, AsksRested
<1>7. y \in Marks
  BY <1>6, MarkType DEF Shape, Body
<1>8. y.n["action_result"] = x.n["action_result"] + (IF Calling(x.k) THEN 1 ELSE 0)
  <2>1. CASE CycleWalk(lg, x, y)
    BY <1>5, <2>1 DEF CycleWalk, None, Calling
  <2>2. CASE AnswerWalk(lg, x, y)
    BY <1>5, <2>2 DEF AnswerWalk, One
  <2> QED BY <2>1, <2>2 DEF Walk
<1> HIDE DEF y
<1>9. y.n["action_request"] =
         x.n["action_request"] + (IF Calling(v) THEN 1 ELSE 0)
  BY <1>5, <1>6 DEF None, One
<1>10. x.n["action_request"] =
          x.n["action_result"] + (IF Calling(x.k) THEN 1 ELSE 0)
  BY DEF Sound
<1>11. y.n["action_request"] =
          y.n["action_result"] + (IF Calling(v) THEN 1 ELSE 0)
  <2>1. y.n["action_result"] = x.n["action_request"]
    BY <1>8, <1>10
  <2> QED BY <1>9, <2>1
<1>12. Calling(v) =>
          Only(lg, "action_request")[y.n["action_request"]] = Logged(v)
  BY <1>6 DEF One
<1>13. \A type \in Replayed : y.n[type] <= Len(Only(lg, type))
  BY <1>2, <1>4
<1> QED BY <1>2, <1>6, <1>7, <1>11, <1>12, <1>13 DEF Sound, y

\* The act of a call is that of the decision it leads to.
Decides(lg, e, x) ==
    LET d == Only(lg, "decision") IN
    Calling(x.k) =>
        \/ x.n["decision"] < Len(d) /\ d[x.n["decision"] + 1].what = x.k.act
        \/ /\ Calling(e.k) /\ x.n["decision"] = Len(d)
           /\ e.k.act = x.k.act

\* A second leg follows its first.
NoAskNext(lg, x) ==
    LET q == Only(lg, "action_request") IN
    x.k.pc = "idle" /\ x.n["action_request"] < Len(q) =>
        ~AskLeg(q[x.n["action_request"] + 1])

\* Only a soak that stops makes a call in no cycle.
Accounted(S, lg, m) ==
    \/ Only(lg, "action_request")[m].what = "withdraw"
    \/ \E x \in S : Calling(x.k) /\ x.n["action_request"] = m

Starting(S, c) ==
    \E x \in S : /\ x.k = Fresh(c.primary, c.extras)
                 /\ \A type \in Replayed : x.n[type] = 0

\* A path of a run of c, that has come to e.
Path(S, e, c, lg) ==
    /\ lg \in Seq(EventSet) /\ \A x \in S : Sound(lg, x)
    /\ Starting(S, c)
    /\ e \in S /\ \A x \in S \ {e} : \E y \in S : Walk(lg, x, y)
    /\ \A x \in S : Decides(lg, e, x) /\ NoAskNext(lg, x)
    /\ \A m \in 1 .. Len(Only(lg, "action_request")) : Accounted(S, lg, m)

\* The keeper is now what it was at e, or has only read or raised since.
Current(e, u, lg) ==
    /\ \A type \in Compared : e.n[type] = Len(Only(lg, type))
    /\ SamePlace(e.k, u)
    /\ \/ e.k = u
       \/ e.k.pc = "idle" /\ u.pc = "idle"

LEMMA MarkCounts ==
  ASSUME NEW lg \in Seq(EventSet), NEW x, Sound(lg, x), NEW type \in Replayed
  PROVE  /\ x.n[type] \in Nat /\ Len(Only(lg, type)) \in Nat
         /\ x.n[type] <= Len(Only(lg, type))
BY OnlyType DEF Sound, Marks

\* What does not go on with the path leaves it.
LEMMA PathStays ==
  ASSUME NEW S, NEW e, NEW c, NEW lg, Path(S, e, c, lg),
         NEW lg2 \in Seq(EventSet), Longer(lg, lg2),
         Only(lg2, "decision") = Only(lg, "decision"),
         \A m \in 1 .. Len(Only(lg2, "action_request")) :
            m <= Len(Only(lg, "action_request"))
              \/ Only(lg2, "action_request")[m].what = "withdraw"
  PROVE  Path(S, e, c, lg2)
<1> DEFINE q == Only(lg, "action_request")
<1> DEFINE q2 == Only(lg2, "action_request")
<1> DEFINE t == "action_request"
<1>1. lg \in Seq(EventSet) /\ t \in Replayed /\ \A x \in S : Sound(lg, x)
  BY DEF Path, Replayed
<1>2. \A x \in S : Sound(lg2, x) /\ x \in Marks
  BY <1>1, SoundStays DEF Sound
<1>3. \A x \in S \ {e} : \E y \in S : Walk(lg2, x, y)
  <2> SUFFICES ASSUME NEW x \in S \ {e} PROVE \E y \in S : Walk(lg2, x, y)
    OBVIOUS
  <2>1. PICK y \in S : Walk(lg, x, y)
    BY DEF Path
  <2>2. Walk(lg2, x, y)
    BY <1>1, <1>2, <2>1, WalkStays
  <2> QED BY <2>2
<1>4. \A x \in S : Decides(lg2, e, x)
  BY DEF Path, Decides
<1>5. /\ Len(q) \in Nat /\ Len(q2) \in Nat
      /\ \A m \in 1 .. Len(q) : q2[m] = q[m]
      /\ \A m \in 1 .. Len(q2) : m <= Len(q) \/ q2[m].what = "withdraw"
  BY <1>1, OnlyType DEF Longer, LongIn
<1>6. ASSUME NEW x \in S PROVE NoAskNext(lg2, x)
  <2> DEFINE n == x.n[t]
  <2>1. n \in Nat /\ n <= Len(q)
    BY <1>1, MarkCounts
  <2>2. x.k.pc = "idle" /\ n < Len(q) => ~AskLeg(q[n + 1])
    BY DEF Path, NoAskNext
  <2> HIDE DEF q, q2, n
  <2> SUFFICES ASSUME x.k.pc = "idle", n < Len(q2) PROVE ~AskLeg(q2[n + 1])
    BY DEF NoAskNext, n, q2
  <2>3. CASE n < Len(q)
    <3>1. n + 1 \in 1 .. Len(q)
      BY <1>5, <2>1, <2>3
    <3> QED BY <1>5, <2>2, <2>3, <3>1
  <2>4. CASE n = Len(q)
    <3>1. n + 1 \in 1 .. Len(q2) /\ ~(n + 1 <= Len(q))
      BY <1>5, <2>1, <2>4
    <3>2. q2[n + 1].what = "withdraw"
      BY <1>5, <3>1
    <3> QED BY <3>2 DEF AskLeg
  <2> QED BY <1>5, <2>1, <2>3, <2>4
<1>7. ASSUME NEW m \in 1 .. Len(q2) PROVE Accounted(S, lg2, m)
  <2>1. CASE m <= Len(q)
    <3>1. m \in 1 .. Len(q)
      BY <1>5, <2>1
    <3>2. Accounted(S, lg, m)
      BY <3>1 DEF Path
    <3>3. q2[m] = q[m]
      BY <1>5, <3>1
    <3> QED BY <3>2, <3>3 DEF Accounted
  <2>2. CASE ~(m <= Len(q))
    BY <1>5, <2>2 DEF Accounted
  <2> QED BY <2>1, <2>2
<1>8. e \in S /\ Starting(S, c)
  BY DEF Path
<1> QED BY <1>2, <1>3, <1>4, <1>6, <1>7, <1>8 DEF Path

\* It goes on with a walk.
LEMMA PathGrows ==
  ASSUME NEW S, NEW e, NEW c, NEW lg, Path(S, e, c, lg), NEW u,
         Current(e, u, lg), NEW lg2 \in Seq(EventSet), Longer(lg, lg2), NEW v,
         Walk(lg2, e, Mark(v, lg2))
  PROVE  Path(S \cup {Mark(v, lg2)}, Mark(v, lg2), c, lg2)
<1> DEFINE y == Mark(v, lg2)
<1> DEFINE T == S \cup {y}
<1> DEFINE q == Only(lg, "action_request")
<1> DEFINE q2 == Only(lg2, "action_request")
<1> DEFINE d == Only(lg, "decision")
<1> DEFINE d2 == Only(lg2, "decision")
<1> DEFINE t == "action_request"
<1>1. /\ lg \in Seq(EventSet) /\ e \in S /\ \A x \in S : Sound(lg, x)
      /\ t \in Replayed /\ "decision" \in Replayed /\ "action_result" \in Replayed
      /\ t \in Compared /\ "decision" \in Compared /\ "action_result" \in Compared
  BY DEF Path, Replayed, Compared
<1>2. \A x \in S : Sound(lg2, x) /\ x \in Marks
  BY <1>1, SoundStays DEF Sound
<1>3. Sound(lg2, y)
  BY <1>1, <1>2, WalkSound
<1>4. /\ Len(q) \in Nat /\ Len(q2) \in Nat /\ Len(d) \in Nat /\ Len(d2) \in Nat
      /\ \A m \in 1 .. Len(q) : q2[m] = q[m]
      /\ \A m \in 1 .. Len(d) : d2[m] = d[m]
  BY <1>1, OnlyType DEF Longer, LongIn
<1>5. /\ e.n[t] = Len(q) /\ e.n["decision"] = Len(d)
      /\ e.n["action_result"] = Len(Only(lg, "action_result"))
      /\ y.n[t] = Len(q2) /\ y.n["decision"] = Len(d2) /\ y.k = v
  BY <1>1 DEF Current, Mark
<1>6. PICK j : /\ Asks(lg2, e, y, j)
               /\ Calling(e.k) => j.act = e.k.act
               /\ e.k.pc = "idle" => j.pc # "ask"
  BY <1>1, <1>2, WalkAsks DEF Sound
<1>7. \/ /\ Calling(j) /\ y.k = j /\ Len(d2) = Len(d)
         /\ Len(q2) = Len(q) + 1 /\ q2[Len(q) + 1] = Logged(j)
      \/ /\ ~Calling(y.k) /\ Len(q2) = Len(q)
         /\ Len(d2) = Len(d) + 1 /\ d2[Len(d) + 1].what = j.act
  <2>1. CASE Calling(j)
    <3>1. y.k = j
      BY <1>6, <2>1 DEF Asks, Rested, Calling
    <3> QED BY <1>5, <1>6, <2>1, <3>1 DEF Asks, None, One, Calling
  <2>2. CASE ~Calling(j)
    <3>1. ~Calling(y.k)
      <4>1. j \in KeeperSet /\ j.pc = "end" /\ y.k = Rested(j)
        BY <1>6, <2>2 DEF Asks, Shape, Body
      <4> QED BY <4>1, RestedPlace DEF Calling
    <3>2. Shape(j) /\ None(e, y, t) /\ One(lg2, e, y, "decision", Decided(j))
      BY <1>6, <2>2 DEF Asks
    <3>3. Decided(j).what = j.act
      BY <3>2, DecidedType
    <3> QED BY <1>5, <3>1, <3>2, <3>3 DEF None, One
  <2> QED BY <2>1, <2>2
<1>8. Shape(j)
  BY <1>6 DEF Asks
<1>9. Walk(lg2, e, y)
  OBVIOUS
<1> HIDE DEF y, q, q2, d, d2
<1>10. ASSUME NEW x \in T \ {y} PROVE \E z \in T : Walk(lg2, x, z)
  <2>1. CASE x = e
    BY <1>9, <2>1
  <2>2. CASE x # e
    <3>1. x \in S \ {e}
      BY <1>10, <2>2
    <3>2. PICK z \in S : Walk(lg, x, z)
      BY <3>1 DEF Path
    <3>3. Walk(lg2, x, z)
      BY <1>1, <1>2, <3>1, <3>2, WalkStays
    <3> QED BY <3>3
  <2> QED BY <2>1, <2>2
<1>11. ASSUME NEW x \in T PROVE Decides(lg2, y, x)
  <2> DEFINE n == x.n["decision"]
  <2> SUFFICES ASSUME Calling(x.k)
               PROVE  \/ n < Len(d2) /\ d2[n + 1].what = x.k.act
                      \/ Calling(y.k) /\ n = Len(d2) /\ y.k.act = x.k.act
    BY DEF Decides, d2
  <2>1. CASE x = y
    BY <1>5, <2>1
  <2>2. CASE x \in S
    <3>1. \/ n < Len(d) /\ d[n + 1].what = x.k.act
          \/ Calling(e.k) /\ n = Len(d) /\ e.k.act = x.k.act
      BY <2>2 DEF Path, Decides, d
    <3>2. n \in Nat /\ Len(d) <= Len(d2)
      BY <1>1, <1>4, <1>7, <2>2, MarkCounts
    <3> HIDE DEF n
    <3>3. CASE n < Len(d) /\ d[n + 1].what = x.k.act
      <4>1. n + 1 \in 1 .. Len(d) /\ n < Len(d2)
        BY <1>4, <3>2, <3>3
      <4> QED BY <1>4, <3>3, <4>1
    <3>4. CASE Calling(e.k) /\ n = Len(d) /\ e.k.act = x.k.act
      <4>1. j.act = x.k.act
        BY <1>6, <3>4
      <4>2. CASE Calling(j) /\ y.k = j /\ Len(d2) = Len(d)
        BY <3>4, <4>1, <4>2
      <4>3. CASE Len(d2) = Len(d) + 1 /\ d2[Len(d) + 1].what = j.act
        <5>1. n < Len(d2)
          BY <1>4, <3>4, <4>3
        <5> QED BY <3>4, <4>1, <4>3, <5>1
      <4> QED BY <1>7, <4>2, <4>3
    <3> QED BY <3>1, <3>3, <3>4
  <2> QED BY <2>1, <2>2
<1>12. ASSUME NEW x \in T PROVE NoAskNext(lg2, x)
  <2> DEFINE n == x.n[t]
  <2> SUFFICES ASSUME x.k.pc = "idle", n < Len(q2) PROVE ~AskLeg(q2[n + 1])
    BY DEF NoAskNext, q2
  <2>1. x \in S
    BY <1>4, <1>5
  <2>2. n \in Nat /\ n <= Len(q) /\ (n < Len(q) => ~AskLeg(q[n + 1]))
    BY <1>1, <2>1, MarkCounts DEF Path, NoAskNext, q
  <2>3. CASE n < Len(q)
    <3>1. n + 1 \in 1 .. Len(q)
      BY <1>4, <2>2, <2>3
    <3> QED BY <1>4, <2>2, <2>3, <3>1
  <2>4. CASE n = Len(q)
    <3>1. Calling(j) /\ q2[n + 1] = Logged(j)
      BY <1>4, <1>7, <2>4
    <3>2. ~Calling(x.k)
      BY DEF Calling
    <3>3. n = x.n["action_result"] /\ x.n["action_result"] <= e.n["action_result"]
      BY <1>1, <1>5, <2>1, <2>2, <3>2, MarkCounts DEF Sound, Marks
    <3>4. ~Calling(e.k)
      <4> SUFFICES ASSUME Calling(e.k) PROVE FALSE
        OBVIOUS
      <4>1. e.n[t] = e.n["action_result"] + 1 /\ e.n["action_result"] \in Nat
        BY <1>1, MarkCounts DEF Sound
      <4> QED BY <1>4, <1>5, <2>2, <2>4, <3>3, <4>1
    <3>5. e.k.pc = "idle"
      BY <1>1, <3>4 DEF Calling, Sound
    <3>6. j.pc # "ask"
      BY <1>6, <3>5
    <3> QED BY <1>8, <3>1, <3>6, LoggedType, AskLegLogged
  <2> QED BY <2>2, <2>3, <2>4
<1>13. ASSUME NEW m \in 1 .. Len(q2) PROVE Accounted(T, lg2, m)
  <2>1. CASE m <= Len(q)
    <3>1. m \in 1 .. Len(q)
      BY <1>4, <2>1
    <3>2. Accounted(S, lg, m)
      BY <3>1 DEF Path, q
    <3>3. q2[m] = q[m]
      BY <1>4, <3>1
    <3> QED BY <3>2, <3>3 DEF Accounted, q, q2
  <2>2. CASE ~(m <= Len(q))
    <3>1. Calling(j) /\ y.k = j /\ Len(q2) = Len(q) + 1
      BY <1>4, <1>7, <2>2
    <3>2. m = Len(q2)
      BY <1>4, <2>2, <3>1
    <3>3. y \in T /\ Calling(y.k) /\ y.n[t] = m
      BY <1>5, <3>1, <3>2
    <3> QED BY <3>3 DEF Accounted
  <2> QED BY <2>1, <2>2
<1>14. Starting(T, c)
  BY DEF Path, Starting
<1>15. y \in T /\ \A x \in T : Sound(lg2, x)
  BY <1>2, <1>3
<1> HIDE DEF T
<1> QED BY <1>10, <1>11, <1>12, <1>13, <1>14, <1>15 DEF Path, T, y, q2

-----------------------------------------------------------------------------
(* The run makes its path.                                                  *)

\* The path is over: what is asked for since is of a soak that stops.
Over(e, lg) ==
    /\ e.k.pc = "idle" /\ e.n["decision"] = Len(Only(lg, "decision"))
    /\ e.n["action_request"] < Len(Only(lg, "action_request"))
    /\ Only(lg, "action_request")[e.n["action_request"] + 1].what = "withdraw"

Stands(e) ==
    \/ Current(e, k, log) /\ k.act \in CycleActs
    \/ /\ Over(e, log) /\ phase # "running"
       /\ Calling(k) => k.act = "clean stop" /\ k.routine = "stop"

LiveKnows ==
    lost = {} =>
        /\ phase \notin {"running", "stopping"} => k.pc = "idle"
        /\ \E S, e : Path(S, e, cfg, log) /\ Stands(e)

LEMMA MarkCurrent ==
  ASSUME NEW u, NEW lg
  PROVE  Current(Mark(u, lg), u, lg) /\ Mark(u, lg).k = u
<1>1. \A type \in Compared : type \in Replayed
  BY DEF Compared, Replayed
<1> QED BY <1>1 DEF Current, Mark, SamePlace

LEMMA AsksFrom ==
  ASSUME NEW lg, NEW e, NEW x, NEW y, NEW j, Asks(lg, x, y, j),
         \A type \in Compared : e.n[type] = x.n[type]
  PROVE  Asks(lg, e, y, j)
<1>1. e.n["action_request"] = x.n["action_request"] /\ e.n["decision"] = x.n["decision"]
  BY DEF Compared
<1> QED BY <1>1 DEF Asks, None, One

LEMMA AppendedTwice ==
  ASSUME NEW lg \in Seq(EventSet), NEW a \in Seq(EventSet), NEW b \in Seq(EventSet)
  PROVE  lg \o a \o b \in Seq(EventSet) /\ Longer(lg, lg \o a \o b)
<1>1. a \o b \in Seq(EventSet)
  BY Joined
<1>2. lg \o a \o b = lg \o (a \o b)
  <2> HIDE DEF EventSet
  <2> QED BY ConcatAssociative
<1>3. lg \o (a \o b) \in Seq(EventSet) /\ Longer(lg, lg \o (a \o b))
  <2> DEFINE both == a \o b
  <2>1. both \in Seq(EventSet)
    BY <1>1
  <2> HIDE DEF both
  <2>2. lg \o both \in Seq(EventSet) /\ Longer(lg, lg \o both)
    BY <2>1, Appended
  <2> QED BY <2>2 DEF both
<1> QED BY <1>2, <1>3

\* Where the path goes when the keeper comes to j.
LEMMA ComesOn ==
  ASSUME NEW S, NEW e, NEW c, NEW lg, Path(S, e, c, lg), NEW u,
         Current(e, u, lg), NEW more \in Seq(EventSet),
         Adds(more, "action_request", <<>>), Adds(more, "decision", <<>>),
         NEW n, NEW act \in CycleActs, NEW j, NEW X, Goes(n, act, j, X),
         NEW lg2, lg2 = lg \o more \o Written(j)
  PROVE  /\ lg2 \in Seq(EventSet) /\ Longer(lg, lg2)
         /\ Asks(lg2, e, Mark(Rested(j), lg2), j)
         /\ Adds(more, "action_result", <<>>) =>
               None(e, Mark(Rested(j), lg2), "action_result")
         /\ \A f \in EventSet : Adds(more, "action_result", <<f>>) =>
               One(lg2, e, Mark(Rested(j), lg2), "action_result", f)
<1> DEFINE x == Mark(u, lg)
<1> DEFINE y == Mark(Rested(j), lg2)
<1>1. lg \in Seq(EventSet) /\ Shape(j)
  BY DEF Path, Goes
<1>2. lg2 \in Seq(EventSet) /\ Longer(lg, lg2)
  <2>1. Written(j) \in Seq(EventSet)
    BY <1>1, WrittenType
  <2> DEFINE w == Written(j)
  <2> HIDE DEF w
  <2> QED BY <1>1, <2>1, AppendedTwice DEF w
<1>3. Asks(lg2, x, y, j) /\ Carries(lg, more, lg2)
  BY <1>1, ComesAsks
<1>4. \A type \in Compared : e.n[type] = x.n[type]
  BY MarkCurrent DEF Current
<1>5. "action_result" \in Inputs /\ "action_result" \in Compared
  BY DEF Inputs, Compared
<1>6. /\ Adds(more, "action_result", <<>>) => None(x, y, "action_result")
      /\ \A f \in EventSet : Adds(more, "action_result", <<f>>) =>
            One(lg2, x, y, "action_result", f)
  BY <1>1, <1>3, <1>5, InputTold
<1> HIDE DEF x, y
<1>7. Asks(lg2, e, y, j)
  BY <1>3, <1>4, AsksFrom
<1>8. e.n["action_result"] = x.n["action_result"]
  BY <1>4, <1>5
<1> QED BY <1>2, <1>6, <1>7, <1>8 DEF None, One, y

LEMMA CycleKnows ==
  ASSUME AuditInv, LiveKnows, Begins, NEW more \in Seq(EventSet),
         Adds(more, "action_request", <<>>), Adds(more, "action_result", <<>>),
         Adds(more, "decision", <<>>), NEW j, Begun(k, j), Comes(j, more),
         lost' = lost
  PROVE  LiveKnows'
<1>1. CASE lost # {}
  BY <1>1 DEF LiveKnows
<1>2. CASE lost = {}
  <2>1. /\ Shape(k) /\ k.pc = "idle" /\ phase = "running" /\ phase' = "running"
        /\ cfg' = cfg
    BY DEF AuditInv, Begins
  <2>2. PICK S, e : Path(S, e, cfg, log) /\ Current(e, k, log)
    BY <1>2, <2>1 DEF LiveKnows, Stands
  <2>3. e.k.pc = "idle" /\ SamePlace(e.k, k)
    BY <2>1, <2>2 DEF Current
  <2>4. Goes(k.reqs, j.act, j, Held(k)) /\ j.act \in CycleActs
    BY <2>1, BegunType
  <2>5. k' = Rested(j) /\ log' = log \o more \o Written(j)
    BY DEF Comes
  <2> DEFINE y == Mark(Rested(j), log')
  <2>6. /\ log' \in Seq(EventSet) /\ Longer(log, log') /\ Asks(log', e, y, j)
        /\ None(e, y, "action_result")
    BY <2>2, <2>4, <2>5, ComesOn
  <2>7. Walk(log', e, y)
    BY <2>1, <2>3, <2>6 DEF Walk, CycleWalk
  <2>8. Path(S \cup {y}, y, cfg, log')
    BY <2>2, <2>6, <2>7, PathGrows
  <2>9. Current(y, k', log')
    BY <2>5, MarkCurrent
  <2>10. k'.act \in CycleActs
    BY <2>4, <2>5, RestedAct
  <2> HIDE DEF y
  <2> QED BY <2>1, <2>8, <2>9, <2>10 DEF LiveKnows, Stands
<1> QED BY <1>1, <1>2

\* What a log gets beside, and two logs that differ in nothing else.
Aside(more) == more \in Seq(EventSet) /\ \A type \in Compared : Adds(more, type, <<>>)
SameEvents(lg, lg2) == \A type \in Compared : Only(lg2, type) = Only(lg, type)

LEMMA QuietOn ==
  ASSUME NEW S, NEW e, NEW c, NEW lg, Path(S, e, c, lg), NEW more,
         Aside(more), NEW lg2, lg2 = lg \o more
  PROVE  /\ Path(S, e, c, lg2) /\ lg2 \in Seq(EventSet)
         /\ SameEvents(lg, lg2)
<1>1. lg \in Seq(EventSet) /\ more \in Seq(EventSet)
  BY DEF Path, Aside
<1>2. lg2 \in Seq(EventSet) /\ Longer(lg, lg2)
  BY <1>1, Appended
<1>3. ASSUME NEW type \in Compared PROVE Only(lg2, type) = Only(lg, type)
  <2>1. Only(lg2, type) = Only(lg, type) \o <<>> /\ type \in Replayed
    BY <1>1 DEF Adds, Aside, Compared, Replayed
  <2> QED BY <1>1, <2>1, NoneOf
<1>4. /\ Only(lg2, "decision") = Only(lg, "decision")
      /\ Only(lg2, "action_request") = Only(lg, "action_request")
  BY <1>3 DEF Compared
<1>5. \A m \in 1 .. Len(Only(lg2, "action_request")) :
         m <= Len(Only(lg, "action_request"))
           \/ Only(lg2, "action_request")[m].what = "withdraw"
  <2>1. Len(Only(lg, "action_request")) \in Nat
    BY <1>1, OnlyType
  <2> QED BY <1>4, <2>1
<1>6. Path(S, e, c, lg2)
  BY <1>2, <1>4, <1>5, PathStays
<1> QED BY <1>2, <1>3, <1>6 DEF SameEvents

LEMMA CurrentStays ==
  ASSUME NEW e, NEW u, NEW v, NEW lg, NEW lg2, Current(e, u, lg),
         SameEvents(lg, lg2),
         v = u \/ (u.pc = "idle" /\ v.pc = "idle" /\ SamePlace(u, v))
  PROVE  Current(e, v, lg2)
<1>1. \A type \in Compared : e.n[type] = Len(Only(lg2, type))
  BY DEF Current, SameEvents
<1>2. SamePlace(e.k, v)
  BY DEF Current, SamePlace
<1>3. e.k = v \/ (e.k.pc = "idle" /\ v.pc = "idle")
  BY DEF Current
<1> QED BY <1>1, <1>2, <1>3 DEF Current

LEMMA OverStays ==
  ASSUME NEW e, NEW lg, NEW lg2, Over(e, lg),
         SameEvents(lg, lg2)
  PROVE  Over(e, lg2)
<1>1. /\ Only(lg2, "decision") = Only(lg, "decision")
      /\ Only(lg2, "action_request") = Only(lg, "action_request")
  BY DEF Compared, SameEvents
<1> QED BY <1>1 DEF Over

LEMMA ChecksApart ==
  ASSUME NEW there \in BOOLEAN
  PROVE  Aside(Checks(there))
<1> DEFINE f == Checked(there)
<1>1. f \in EventSet /\ f.type = "sentinel_check"
  BY CheckedType
<1>2. Checks(there) = IF cfg.path THEN <<f>> ELSE <<>>
  BY DEF Checks
<1>3. \A type \in Compared : type \in Replayed /\ type # "sentinel_check"
  BY DEF Compared, Replayed
<1> HIDE DEF f
<1>4. CASE cfg.path
  <2>1. /\ <<f>> \in Seq(EventSet)
        /\ \A other \in Replayed : other # "sentinel_check" => Adds(<<f>>, other, <<>>)
    BY <1>1, EventAdds
  <2> QED BY <1>2, <1>3, <1>4, <2>1 DEF Aside
<1>5. CASE ~cfg.path
  <2>1. <<>> \in Seq(EventSet) /\ \A type \in Replayed : Adds(<<>>, type, <<>>)
    BY EmptySeq, NothingSilent DEF Silent
  <2> QED BY <1>2, <1>3, <1>5, <2>1 DEF Aside
<1> QED BY <1>4, <1>5

\* A cycle that raises has asked for nothing, and the keeper holds what it held.
LEMMA RaisingKnows ==
  ASSUME AuditInv, LiveKnows, NEW r \in Readings, RaisingCycle(r)
  PROVE  LiveKnows'
<1>1. /\ Shape(k) /\ k.pc = "idle" /\ phase = "running" /\ phase' = "running"
      /\ cfg' = cfg /\ lost' = lost
  BY DEF AuditInv, RaisingCycle, Begins
<1>2. CASE lost # {}
  BY <1>1, <1>2 DEF LiveKnows
<1>3. CASE lost = {}
  <2>1. PICK S, e : Path(S, e, cfg, log) /\ Current(e, k, log) /\ k.act \in CycleActs
    BY <1>1, <1>3 DEF LiveKnows, Stands
  <2> DEFINE c == Checks(FALSE)
  <2> DEFINE o == <<Observed(r)>>
  <2>2. Aside(c)
    BY ChecksApart
  <2>3. ASSUME k' = k, log' = log \o c PROVE LiveKnows'
    <3>1. Path(S, e, cfg, log') /\ SameEvents(log, log')
      BY <2>1, <2>2, <2>3, QuietOn
    <3>2. Current(e, k', log')
      BY <2>1, <2>3, <3>1, CurrentStays
    <3> QED BY <1>1, <2>1, <2>3, <3>1, <3>2 DEF LiveKnows, Stands
  <2>4. ASSUME NEW n \in 0 .. Len(Tracked(k)) - 1, k' = Seen(k, r),
               log' = log \o c \o o \o Observations(k, n)
        PROVE  LiveKnows'
    <3> DEFINE some == Observations(k, n)
    <3> DEFINE lg1 == log \o c
    <3> DEFINE lg2 == lg1 \o o
    <3>1. Aside(o)
      <4> DEFINE f == Observed(r)
      <4>1. f \in EventSet /\ f.type = "state_observation"
        BY ReadingsRead, ObservedType
      <4> HIDE DEF f
      <4>2. /\ <<f>> \in Seq(EventSet)
            /\ \A other \in Replayed : other # "state_observation"
                                        => Adds(<<f>>, other, <<>>)
        BY <4>1, EventAdds
      <4> QED BY <4>2 DEF Aside, Compared, Replayed, f
    <3>2. Aside(some)
      <4>1. n \in 0 .. Len(Tracked(k))
        BY <1>1, TrackedType
      <4>2. some \in Seq(EventSet) /\ Silent(some)
        BY <1>1, <4>1, ObservationsSilent
      <4> HIDE DEF some
      <4> QED BY <4>2 DEF Aside, Silent, Compared, Replayed
    <3>3. log' = lg2 \o some
      BY <2>4
    <3> HIDE DEF c, o, some
    <3>4. Path(S, e, cfg, lg1) /\ SameEvents(log, lg1)
      BY <2>1, <2>2, QuietOn
    <3> HIDE DEF lg1
    <3>5. Path(S, e, cfg, lg2) /\ SameEvents(lg1, lg2)
      BY <3>1, <3>4, QuietOn
    <3> HIDE DEF lg2
    <3>6. Path(S, e, cfg, log') /\ SameEvents(lg2, log')
      BY <3>2, <3>3, <3>5, QuietOn
    <3>7. SameEvents(log, log')
      BY <3>4, <3>5, <3>6 DEF SameEvents
    <3>8. SamePlace(k, k') /\ k'.pc = "idle" /\ k'.act \in CycleActs
      <4>1. SamePlace(Seen(k, r), k) /\ Shape(Seen(k, r)) /\ Seen(k, r).pc = "idle"
        BY <1>1, SeenPlace, SeenBody
      <4>2. k'.act = "none" /\ "none" \in CycleActs
        BY <2>4, <4>1 DEF Shape, Fits, CycleActs, Acts
      <4> QED BY <2>4, <4>1, <4>2 DEF SamePlace
    <3>9. Current(e, k', log')
      BY <1>1, <2>1, <3>7, <3>8, CurrentStays
    <3> QED BY <1>1, <3>6, <3>8, <3>9 DEF LiveKnows, Stands
  <2> QED BY <2>3, <2>4 DEF RaisingCycle
<1> QED BY <1>2, <1>3

LEMMA CyclesKnow ==
  ASSUME AuditInv, LiveKnows
  PROVE  /\ HaltedCycle => LiveKnows'
         /\ SentinelCycle => LiveKnows'
         /\ \A r \in Readings : PlannedCycle(r) => LiveKnows'
         /\ \A kind \in {"failed", "malformed"} : BlindCycle(kind) => LiveKnows'
<1>1. Shape(k)
  BY DEF AuditInv
<1>2. /\ "action_request" \in Replayed /\ "action_result" \in Replayed
      /\ "decision" \in Replayed
  BY DEF Replayed
<1>3. ASSUME HaltedCycle PROVE LiveKnows'
  <2> DEFINE j == Ends(k, "halted")
  <2>1. Begins /\ lost' = lost /\ Comes(j, <<>>) /\ Begun(k, j)
    BY <1>3 DEF HaltedCycle, Begun
  <2>2. <<>> \in Seq(EventSet) /\ Silent(<<>>)
    BY EmptySeq, NothingSilent
  <2>3. /\ Adds(<<>>, "action_request", <<>>) /\ Adds(<<>>, "action_result", <<>>)
        /\ Adds(<<>>, "decision", <<>>)
    BY <1>2, <2>2 DEF Silent
  <2> HIDE DEF j
  <2> QED BY <2>1, <2>2, <2>3, CycleKnows
<1>4. ASSUME SentinelCycle PROVE LiveKnows'
  <2> DEFINE j == Killed(k)
  <2> DEFINE more == Checks(TRUE)
  <2>1. Begins /\ lost' = lost /\ Comes(j, more) /\ Begun(k, j)
    BY <1>4 DEF SentinelCycle, Begun
  <2>2. Aside(more)
    BY ChecksApart
  <2> HIDE DEF j, more
  <2>3. /\ more \in Seq(EventSet) /\ Adds(more, "action_request", <<>>)
        /\ Adds(more, "action_result", <<>>) /\ Adds(more, "decision", <<>>)
    BY <2>2 DEF Aside, Compared
  <2> QED BY <2>1, <2>3, CycleKnows
<1>5. ASSUME NEW r \in Readings, PlannedCycle(r) PROVE LiveKnows'
  <2> DEFINE all == Observations(k, Len(Tracked(k)))
  <2> DEFINE first == Checks(FALSE) \o <<Observed(r)>>
  <2> DEFINE more == first \o all
  <2> DEFINE j == Planned(k, r)
  <2>1. Begins /\ lost' = lost /\ Comes(j, more) /\ Begun(k, j)
    BY <1>5 DEF PlannedCycle, Begun
  <2>2. Len(Tracked(k)) \in 0 .. Len(Tracked(k)) /\ r \in Reads
    BY <1>1, TrackedType DEF Reads
  <2>3. Silent(all) /\ all \in Seq(EventSet)
    BY <1>1, <2>2, ObservationsSilent
  <2>4. Looks(first, r)
    BY <2>2, ReadLooks
  <2> HIDE DEF all, first, j
  <2>5. Looks(more, r)
    BY <2>2, <2>3, <2>4, LooksFirst
  <2> HIDE DEF more
  <2>6. /\ more \in Seq(EventSet) /\ Adds(more, "action_request", <<>>)
        /\ Adds(more, "action_result", <<>>) /\ Adds(more, "decision", <<>>)
    BY <2>5, LooksAdds
  <2> QED BY <2>1, <2>6, CycleKnows
<1>6. ASSUME NEW kind \in {"failed", "malformed"}, BlindCycle(kind)
      PROVE  LiveKnows'
  <2> DEFINE r == NoReading(kind)
  <2> DEFINE more == Checks(FALSE) \o <<Observed(r)>>
  <2> DEFINE act == IF kind = "failed" THEN "no_state" ELSE "bad_state"
  <2> DEFINE j == Ends(k, act)
  <2>1. r \in Reads
    BY Zenon DEF Reads
  <2>2. Begins /\ lost' = lost /\ Comes(j, more)
    BY <1>6 DEF BlindCycle
  <2>3. Begun(k, j)
    <3>1. act \in {"halted", "no_state", "bad_state"}
      OBVIOUS
    <3> HIDE DEF act
    <3> QED BY <3>1 DEF Begun
  <2>4. Looks(more, r)
    BY <2>1, ReadLooks
  <2> HIDE DEF r, more, j
  <2>5. /\ more \in Seq(EventSet) /\ Adds(more, "action_request", <<>>)
        /\ Adds(more, "action_result", <<>>) /\ Adds(more, "decision", <<>>)
    BY <2>4, LooksAdds
  <2> QED BY <2>2, <2>3, <2>5, CycleKnows
<1> QED BY <1>3, <1>4, <1>5, <1>6

\* What an answer adds to the log.
LEMMA AnswerTells ==
  ASSUME NEW u, Shape(u), Calling(u), NEW a \in AnswersTo(u), NEW more,
         more = <<Result(u, a)>> \o Told(u, a)
  PROVE  /\ more \in Seq(EventSet) /\ Adds(more, "action_request", <<>>)
         /\ Adds(more, "decision", <<>>)
         /\ Adds(more, "action_result", <<Result(u, a)>>)
<1> DEFINE e == Result(u, a)
<1> DEFINE told == Told(u, a)
<1> DEFINE one == <<e>>
<1>1. e \in EventSet /\ e.type = "action_result"
  BY ResultType
<1>2. told \in Seq(EventSet) /\ Silent(told)
  BY ToldSilent
<1> HIDE DEF e, told
<1>3. /\ one \in Seq(EventSet) /\ Adds(one, "action_result", one)
      /\ \A type \in Replayed : type # "action_result" => Adds(one, type, <<>>)
  BY <1>1, EventAdds
<1>4. more = one \o told
  BY DEF e, told
<1> HIDE DEF one
<1>5. more \in Seq(EventSet)
  BY <1>2, <1>3, <1>4, Joined
<1>6. Adds(one \o told, "action_result", one)
  BY <1>2, <1>3, AddsFirst DEF Silent, Replayed
<1>7. Adds(one, "action_request", <<>>) /\ Adds(one, "decision", <<>>)
  BY <1>3 DEF Replayed
<1>8. Adds(told, "action_request", <<>>) /\ Adds(told, "decision", <<>>)
  BY <1>2 DEF Silent, Replayed
<1>9. Adds(one \o told, "action_request", <<>>)
  BY <1>2, <1>3, <1>7, <1>8, AddsSecond
<1>10. Adds(one \o told, "decision", <<>>)
  BY <1>2, <1>3, <1>7, <1>8, AddsSecond
<1> QED BY <1>4, <1>5, <1>6, <1>9, <1>10 DEF one, e

\* What a soak that stops does to the log, and to the path.
StopsWith(j) == j.act = "clean stop" /\ (Calling(j) => j.routine = "stop")

LEMMA StopWrites ==
  ASSUME NEW j, Shape(j), j.pc # "idle", StopsWith(j)
  PROVE  \/ /\ Calling(j) /\ Logged(j).what = "withdraw"
            /\ Written(j) \in Seq(EventSet) /\ Adds(Written(j), "decision", <<>>)
            /\ Adds(Written(j), "action_request", <<Logged(j)>>)
            /\ Logged(j) \in EventSet
         \/ ~Calling(j) /\ Written(j) = <<>>
<1>1. CASE Calling(j)
  <2> DEFINE f == Logged(j)
  <2>1. /\ f \in EventSet /\ f.type = "action_request" /\ Written(j) = <<f>>
        /\ f.what = "withdraw"
    BY <1>1, LoggedType, StopWithdraws DEF StopsWith
  <2> HIDE DEF f
  <2>2. /\ <<f>> \in Seq(EventSet) /\ Adds(<<f>>, "action_request", <<f>>)
        /\ Adds(<<f>>, "decision", <<>>)
    BY <2>1, EventAdds DEF Replayed
  <2> QED BY <1>1, <2>1, <2>2 DEF f
<1>2. CASE ~Calling(j)
  <2>1. j.pc = "end" => Written(j) = <<>>
    BY <1>2, WrittenAtRest, Zenon DEF StopsWith
  <2> QED BY <1>2, <2>1 DEF Calling
<1> QED BY <1>1, <1>2

StopLogged(lg, lg2, j) ==
    LET q == Only(lg, "action_request")
        q2 == Only(lg2, "action_request")
    IN /\ Only(lg2, "decision") = Only(lg, "decision")
       /\ \/ Calling(j) /\ Logged(j).what = "withdraw" /\ q2 = Append(q, Logged(j))
          \/ ~Calling(j) /\ q2 = q

LEMMA StopLeaves ==
  ASSUME NEW S, NEW e, NEW c, NEW lg, Path(S, e, c, lg), NEW more \in Seq(EventSet),
         Adds(more, "action_request", <<>>), Adds(more, "decision", <<>>),
         NEW j, Shape(j), j.pc # "idle", StopsWith(j),
         NEW lg2, lg2 = lg \o more \o Written(j)
  PROVE  Path(S, e, c, lg2) /\ StopLogged(lg, lg2, j)
<1> DEFINE f == Logged(j)
<1> DEFINE w == Written(j)
<1> DEFINE q == Only(lg, "action_request")
<1> DEFINE q2 == Only(lg2, "action_request")
<1> DEFINE lg1 == lg \o more
<1>1. lg \in Seq(EventSet)
  BY DEF Path
<1>2. lg1 \in Seq(EventSet)
  BY <1>1, Joined
<1>3. q \in Seq(EventSet) /\ Only(lg, "decision") \in Seq(EventSet)
  BY <1>1, OnlyType
<1>4. Only(lg1, "action_request") = q /\ Only(lg1, "decision") = Only(lg, "decision")
  <2>1. /\ Only(lg1, "action_request") = q \o <<>>
        /\ Only(lg1, "decision") = Only(lg, "decision") \o <<>>
    BY <1>1 DEF Adds
  <2> HIDE DEF EventSet, q, lg1
  <2> QED BY <1>3, <2>1
<1>5. \/ /\ Calling(j) /\ f.what = "withdraw" /\ f \in EventSet
         /\ w \in Seq(EventSet) /\ Adds(w, "decision", <<>>)
         /\ Adds(w, "action_request", <<f>>)
      \/ ~Calling(j) /\ w = <<>>
  BY StopWrites
<1>6. lg2 = lg1 \o w
  OBVIOUS
<1> HIDE DEF lg1, f, w
<1>7. CASE Calling(j)
  <2>1. /\ f.what = "withdraw" /\ f \in EventSet /\ w \in Seq(EventSet)
        /\ Adds(w, "decision", <<>>) /\ Adds(w, "action_request", <<f>>)
    BY <1>5, <1>7
  <2>2. q2 = q \o <<f>> /\ Only(lg2, "decision") = Only(lg, "decision") \o <<>>
    BY <1>2, <1>4, <1>6, <2>1 DEF Adds
  <2> HIDE DEF EventSet, q, q2
  <2>3. q2 = Append(q, f) /\ Only(lg2, "decision") = Only(lg, "decision")
    BY <1>3, <2>1, <2>2
  <2>4. lg2 \in Seq(EventSet) /\ Longer(lg, lg2)
    <3>1. lg2 = lg \o more \o w
      BY <1>6 DEF lg1
    <3> QED BY <1>1, <2>1, <3>1, AppendedTwice
  <2>5. \A m \in 1 .. Len(q2) : m <= Len(q) \/ q2[m].what = "withdraw"
    BY <1>3, <2>1, <2>3
  <2>6. Path(S, e, c, lg2)
    BY <2>3, <2>4, <2>5, PathStays DEF q, q2
  <2> QED BY <1>7, <2>1, <2>3, <2>6 DEF StopLogged, q, q2, f
<1>8. CASE ~Calling(j)
  <2>1. lg2 = lg1
    <3>1. lg2 = lg1 \o <<>>
      BY <1>5, <1>6, <1>8
    <3> HIDE DEF EventSet
    <3> QED BY <1>2, <3>1
  <2>2. q2 = q /\ Only(lg2, "decision") = Only(lg, "decision")
    BY <1>4, <2>1
  <2>3. lg2 \in Seq(EventSet) /\ Longer(lg, lg2)
    BY <1>1, <2>1, Appended DEF lg1
  <2>4. \A m \in 1 .. Len(q2) : m <= Len(q) \/ q2[m].what = "withdraw"
    BY <1>3, <2>2
  <2>5. Path(S, e, c, lg2)
    BY <2>2, <2>3, <2>4, PathStays
  <2> QED BY <1>8, <2>2, <2>5 DEF StopLogged
<1> QED BY <1>7, <1>8

LEMMA ReturnKnows ==
  ASSUME AuditInv, LiveKnows, NEW a \in Answers, CallReturns(a)
  PROVE  LiveKnows'
<1> DEFINE more == <<Result(k, a)>> \o Told(k, a)
<1> DEFINE j == Answered(k, a)
<1>1. /\ Underway /\ Comes(j, more) /\ cfg' = cfg /\ phase' = phase
      /\ lost' = lost
  BY DEF CallReturns
<1>2. /\ Shape(k) /\ Calling(k) /\ a \in AnswersTo(k)
      /\ phase \in {"running", "stopping"}
  BY <1>1, AnswersType DEF AuditInv, Underway
<1>3. PICK X : Goes(k.reqs, k.act, j, X)
  BY <1>1, AnsweredReady
<1>4. k' = Rested(j) /\ log' = log \o more \o Written(j)
  BY <1>1 DEF Comes
<1>5. /\ more \in Seq(EventSet) /\ Adds(more, "action_request", <<>>)
      /\ Adds(more, "decision", <<>>)
      /\ Adds(more, "action_result", <<Result(k, a)>>)
  BY <1>2, AnswerTells
<1> HIDE DEF more
<1>6. CASE lost # {}
  BY <1>1, <1>6 DEF LiveKnows
<1>7. CASE lost = {}
  <2>1. PICK S, e : Path(S, e, cfg, log) /\ Stands(e)
    BY <1>7 DEF LiveKnows
  <2>2. CASE Current(e, k, log) /\ k.act \in CycleActs
    <3>1. e.k = k
      BY <1>2, <2>2 DEF Current, Calling
    <3> DEFINE y == Mark(Rested(j), log')
    <3> DEFINE f == Result(k, a)
    <3>2. f \in EventSet
      BY <1>2, ResultType
    <3> HIDE DEF f
    <3>3. Adds(more, "action_result", <<f>>)
      BY <1>5 DEF f
    <3>4. /\ log' \in Seq(EventSet) /\ Longer(log, log') /\ Asks(log', e, y, j)
          /\ One(log', e, y, "action_result", f)
      BY <1>3, <1>4, <1>5, <2>1, <2>2, <3>2, <3>3, ComesOn
    <3>5. Walk(log', e, y)
      BY <1>2, <3>1, <3>4 DEF Walk, AnswerWalk, f
    <3>6. Path(S \cup {y}, y, cfg, log')
      BY <2>1, <2>2, <3>4, <3>5, PathGrows
    <3>7. Current(y, k', log')
      BY <1>4, MarkCurrent
    <3>8. k'.act \in CycleActs
      BY <1>3, <1>4, <2>2, RestedAct
    <3> HIDE DEF y
    <3> QED BY <1>1, <1>2, <3>6, <3>7, <3>8 DEF LiveKnows, Stands
  <2>3. CASE /\ Over(e, log) /\ phase # "running"
             /\ k.act = "clean stop" /\ k.routine = "stop"
    <3>1. SamePlace(k, k) /\ SameLoop(k, k)
      BY DEF SamePlace, SameLoop
    <3>2. Paired(k, k, a, a)
      BY <1>2, <3>1 DEF Paired, SameCall
    <3>3. j.routine = "stop"
      BY <1>2, <2>3, <3>2, AnsweredAlike
    <3> HIDE DEF j
    <3>4. Shape(j) /\ j.pc # "idle" /\ StopsWith(j)
      <4>1. Shape(j) /\ j.act = k.act /\ j.pc # "idle"
        BY <1>3 DEF Goes, Calling
      <4>2. StopsWith(j)
        BY <2>3, <3>3, <4>1, Zenon DEF StopsWith
      <4> QED BY <4>1, <4>2
    <3>5. Path(S, e, cfg, log') /\ StopLogged(log, log', j)
      BY <1>4, <1>5, <2>1, <3>4, StopLeaves
    <3>6. Over(e, log')
      <4> DEFINE q == Only(log, "action_request")
      <4> DEFINE q2 == Only(log', "action_request")
      <4> DEFINE n == e.n["action_request"]
      <4>1. n < Len(q) /\ q[n + 1].what = "withdraw" /\ e.k.pc = "idle"
            /\ e.n["decision"] = Len(Only(log', "decision"))
        BY <2>3, <3>5 DEF Over, StopLogged
      <4>2. q \in Seq(EventSet) /\ n \in Nat
        <5>1. "action_request" \in Replayed /\ Sound(log, e)
          BY <2>1 DEF Replayed, Path
        <5> QED BY <5>1, MarkCounts, OnlyType DEF AuditInv
      <4>3. q2 = q \/ \E f : q2 = Append(q, f)
        BY <3>5 DEF StopLogged
      <4> HIDE DEF q, q2, n, EventSet
      <4>4. n < Len(q2) /\ q2[n + 1] = q[n + 1]
        BY <4>1, <4>2, <4>3
      <4> QED BY <4>1, <4>4 DEF Over, n, q2
    <3>7. Calling(k') => k'.act = "clean stop" /\ k'.routine = "stop"
      <4>1. Calling(k') => k' = j
        BY <1>4, <3>4, RestedPlace DEF Shape, Body, Calling
      <4> QED BY <3>3, <3>4, <4>1 DEF StopsWith
    <3> QED BY <1>1, <1>2, <2>3, <3>5, <3>6, <3>7 DEF LiveKnows, Stands
  <2> QED BY <1>2, <2>1, <2>2, <2>3 DEF Stands
<1> QED BY <1>6, <1>7

LEMMA CleanStopKnows ==
  ASSUME AuditInv, LiveKnows, CleanStop
  PROVE  LiveKnows'
<1>1. /\ Shape(k) /\ k.pc = "idle" /\ phase = "running" /\ phase' = "stopping"
      /\ cfg' = cfg /\ lost' = lost
  BY DEF CleanStop, AuditInv
<1>2. CASE lost # {}
  BY <1>1, <1>2 DEF LiveKnows
<1>3. CASE lost = {}
  <2>1. PICK S, e : Path(S, e, cfg, log) /\ Current(e, k, log) /\ k.act \in CycleActs
    BY <1>1, <1>3 DEF LiveKnows, Stands
  <2>2. CASE ~Calling(k')
    <3>1. k' = k /\ log' = log \o <<>> \o <<>>
      BY <1>1, <2>2, StopsAsIs
    <3>2. log \in Seq(EventSet)
      BY DEF AuditInv
    <3> HIDE DEF EventSet
    <3>3. log' = log
      BY <3>1, <3>2
    <3> QED BY <1>1, <2>1, <3>1, <3>3 DEF LiveKnows, Stands
  <2>3. CASE Calling(k')
    <3> DEFINE j == CleanlyStopped(k)
    <3> DEFINE act == "clean stop"
    <3>1. k' = Rested(j) /\ log' = log \o <<>> \o Written(j)
      BY DEF CleanStop, Comes
    <3>2. Goes(k.reqs, act, j, Held(k)) /\ j.routine = "stop"
      BY <1>1, CleanlyStoppedGoes, CleanlyStoppedIs
    <3>3. Calling(j) /\ k' = j
      <4>1. Calling(Rested(j)) <=> Calling(j)
        BY <3>2, RestedShape
      <4>2. Calling(j) => Rested(j) = j
        BY <3>2, RestedShape
      <4> QED BY <2>3, <3>1, <4>1, <4>2
    <3> HIDE DEF j, act
    <3>4. Shape(j) /\ j.pc # "idle" /\ j.act = act
      BY <3>2, <3>3 DEF Goes, Calling
    <3>5. StopsWith(j)
      BY <3>2, <3>4 DEF StopsWith, act
    <3>6. <<>> \in Seq(EventSet) /\ Silent(<<>>)
      BY EmptySeq, NothingSilent
    <3>7. Adds(<<>>, "action_request", <<>>) /\ Adds(<<>>, "decision", <<>>)
      BY <3>6 DEF Silent, Replayed
    <3>8. Path(S, e, cfg, log') /\ StopLogged(log, log', j)
      BY <2>1, <3>1, <3>4, <3>5, <3>6, <3>7, StopLeaves
    <3>9. Over(e, log')
      <4> DEFINE q == Only(log, "action_request")
      <4> DEFINE q2 == Only(log', "action_request")
      <4> DEFINE f == Logged(j)
      <4>1. /\ q2 = Append(q, f) /\ f.what = "withdraw"
            /\ Only(log', "decision") = Only(log, "decision")
        BY <3>3, <3>8 DEF StopLogged
      <4>2. e.n["action_request"] = Len(q) /\ e.n["decision"] = Len(Only(log, "decision"))
        BY <2>1 DEF Current, Compared
      <4>3. e.k.pc = "idle"
        BY <1>1, <2>1 DEF Current
      <4>4. q \in Seq(EventSet)
        BY OnlyType DEF AuditInv
      <4> HIDE DEF q, q2, f, EventSet
      <4>5. Len(q) < Len(q2) /\ q2[Len(q) + 1] = f
        BY <4>1, <4>4
      <4> QED BY <4>1, <4>2, <4>3, <4>5 DEF Over, q2
    <3>10. k'.act = "clean stop" /\ k'.routine = "stop"
      BY <3>2, <3>3, <3>4 DEF act
    <3> QED BY <1>1, <3>8, <3>9, <3>10 DEF LiveKnows, Stands
  <2> QED BY <2>2, <2>3
<1> QED BY <1>2, <1>3

LEMMA StopKnows ==
  ASSUME AuditInv, LiveKnows, Stop
  PROVE  LiveKnows'
<1> DEFINE f == Event("run_stopped", "")
<1> DEFINE more == <<f>>
<1>1. /\ k.pc = "idle" /\ k' = k /\ cfg' = cfg /\ lost' = lost
      /\ phase' = "stopped" /\ log' = Append(log, f)
      /\ phase \in {"running", "stopping"}
  BY DEF Stop
<1>2. f \in EventSet /\ f.type = "run_stopped"
  <2>1. "run_stopped" \in Types /\ "" \in Verbs \cup Acts \cup {""}
    BY DEF Types
  <2> QED BY <2>1, EventType
<1> HIDE DEF f
<1>3. log \in Seq(EventSet)
  BY DEF AuditInv
<1>4. log' = log \o more
  BY <1>1, <1>2, <1>3
<1>5. Aside(more)
  <2>1. /\ <<f>> \in Seq(EventSet)
        /\ \A other \in Replayed : other # "run_stopped" => Adds(<<f>>, other, <<>>)
    BY <1>2, EventAdds
  <2> QED BY <2>1 DEF Aside, Compared, Replayed
<1> HIDE DEF more
<1>6. CASE lost # {}
  BY <1>1, <1>6 DEF LiveKnows
<1>7. CASE lost = {}
  <2>1. PICK S, e : Path(S, e, cfg, log) /\ Stands(e)
    BY <1>1, <1>7 DEF LiveKnows
  <2>2. Path(S, e, cfg, log') /\ SameEvents(log, log')
    BY <1>4, <1>5, <2>1, QuietOn
  <2>3. ASSUME Current(e, k, log), k.act \in CycleActs PROVE LiveKnows'
    <3>1. Current(e, k', log')
      BY <1>1, <2>2, <2>3, CurrentStays
    <3> QED BY <1>1, <2>2, <2>3, <3>1 DEF LiveKnows, Stands
  <2>4. ASSUME Over(e, log) PROVE LiveKnows'
    <3>1. Over(e, log')
      BY <2>2, <2>4, OverStays
    <3>2. ~Calling(k')
      BY <1>1 DEF Calling
    <3> QED BY <1>1, <2>2, <3>1, <3>2 DEF LiveKnows, Stands
  <2> QED BY <2>1, <2>3, <2>4 DEF Stands
<1> QED BY <1>6, <1>7

LEMMA CrashKnows ==
  ASSUME AuditInv, LiveKnows, Crash
  PROVE  LiveKnows'
<1>1. /\ k' = k /\ log' = log /\ cfg' = cfg /\ phase' = "dead"
      /\ lost' = (IF Calling(k) THEN lost \cup {k.reqs} ELSE lost)
      /\ phase \in {"running", "stopping"}
  BY DEF Crash
<1>2. CASE Calling(k)
  <2>1. lost' # {}
    BY <1>1, <1>2
  <2> QED BY <2>1 DEF LiveKnows
<1>3. CASE ~Calling(k)
  <2>1. k.pc = "idle"
    BY <1>3 DEF Calling, AuditInv
  <2>2. lost' = lost
    BY <1>1, <1>3
  <2>3. CASE lost # {}
    BY <2>2, <2>3 DEF LiveKnows
  <2>4. CASE lost = {}
    <3>1. PICK S, e : Path(S, e, cfg, log) /\ Stands(e)
      BY <1>1, <2>4 DEF LiveKnows
    <3>2. Stands(e)'
      BY <1>1, <1>3, <3>1 DEF Stands
    <3> QED BY <1>1, <2>1, <3>1, <3>2 DEF LiveKnows
  <2> QED BY <2>3, <2>4
<1> QED BY <1>2, <1>3

LEMMA RaisesKnows == ASSUME CallRaises PROVE LiveKnows'
<1>1. lost' # {}
  BY DEF CallRaises
<1> QED BY <1>1 DEF LiveKnows

LEMMA RunKnows ==
  ASSUME AuditInv, LiveKnows, Run
  PROVE  LiveKnows'
BY CyclesKnow, RaisingKnows, ReturnKnows, CleanStopKnows, StopKnows, CrashKnows,
   RaisesKnows DEF Run

LEMMA KnowsInit == ASSUME Init PROVE LiveKnows
<1> DEFINE f == Event("run_started", "")
<1>1. /\ cfg \in Starts /\ k = Fresh(cfg.primary, cfg.extras) /\ log = <<f>>
      /\ lost = {} /\ phase = "running"
  BY DEF Init
<1>2. f \in EventSet /\ f.type = "run_started"
  <2>1. "run_started" \in Types /\ "" \in Verbs \cup Acts \cup {""}
    BY DEF Types
  <2> QED BY <2>1, EventType
<1> HIDE DEF f
<1>3. log \in Seq(EventSet) /\ Len(log) = 1 /\ log[1] = f
  BY <1>1, <1>2
<1>4. Shape(k) /\ k.pc = "idle" /\ k.act \in CycleActs
  <2>1. Shape(k) /\ k.pc = "idle"
    BY <1>1, FreshShape
  <2>2. "none" \in CycleActs
    BY DEF CycleActs, Acts
  <2> QED BY <2>1, <2>2 DEF Shape, Fits
<1>5. ASSUME NEW type \in Replayed PROVE Len(Only(log, type)) = 0
  <2>1. Places(log, type) = {}
    BY <1>2, <1>3 DEF Places, Replayed
  <2>2. Only(log, type) = <<>>
    BY <1>3, <2>1, PickedEmpty DEF Only
  <2> QED BY <2>2
<1> DEFINE x == Mark(k, log)
<1>6. x.k = k /\ \A type \in Replayed : x.n[type] = 0
  BY <1>5 DEF Mark
<1>7. x \in Marks
  BY <1>3, <1>4, MarkType DEF Shape, Body
<1>8. "action_request" \in Replayed /\ "action_result" \in Replayed
  BY DEF Replayed
<1>9. ~Calling(k)
  BY <1>4 DEF Calling
<1>10. Current(x, k, log)
  BY MarkCurrent
<1> HIDE DEF x
<1>11. Sound(log, x)
  BY <1>4, <1>5, <1>6, <1>7, <1>8, <1>9 DEF Sound
<1>12. Starting({x}, cfg)
  BY <1>1, <1>6 DEF Starting
<1>13. Decides(log, x, x) /\ NoAskNext(log, x)
  BY <1>5, <1>6, <1>8, <1>9 DEF Decides, NoAskNext
<1>14. \A m \in 1 .. Len(Only(log, "action_request")) : Accounted({x}, log, m)
  BY <1>5, <1>8
<1>15. Path({x}, x, cfg, log)
  BY <1>3, <1>11, <1>12, <1>13, <1>14 DEF Path
<1> QED BY <1>1, <1>4, <1>10, <1>15 DEF LiveKnows, Stands

-----------------------------------------------------------------------------
(* The replay, on the path of the run or at odds with the log.              *)

\* From a to b, or from b to a, the run asked for nothing but swaps.
Gap(lg, a, b) ==
    LET q == Only(lg, "action_request") IN
    \A i \in 1 .. Len(q) :
        (a < i /\ i <= b) \/ (b < i /\ i <= a) => q[i].what = "swap"

LEMMA GapMoves ==
  ASSUME NEW lg \in Seq(EventSet), NEW a \in Nat, NEW b \in Nat, Gap(lg, a, b)
  PROVE  /\ Only(lg, "action_request")[a + 1].what = "swap" => Gap(lg, a + 1, b)
         /\ Only(lg, "action_request")[b + 1].what = "swap" => Gap(lg, a, b + 1)
<1> DEFINE q == Only(lg, "action_request")
<1>1. Len(q) \in Nat
  BY OnlyType
<1>2. \A i \in 1 .. Len(q) :
         (a < i /\ i <= b) \/ (b < i /\ i <= a) => q[i].what = "swap"
  BY DEF Gap
<1> HIDE DEF q
<1>3. ASSUME q[a + 1].what = "swap" PROVE Gap(lg, a + 1, b)
  <2> SUFFICES ASSUME NEW i \in 1 .. Len(q),
                      (a + 1 < i /\ i <= b) \/ (b < i /\ i <= a + 1)
               PROVE  q[i].what = "swap"
    BY DEF Gap, q
  <2>1. CASE i = a + 1
    BY <1>3, <2>1
  <2>2. CASE i # a + 1
    <3>1. (a < i /\ i <= b) \/ (b < i /\ i <= a)
      BY <1>1, <2>2
    <3> QED BY <1>2, <3>1
  <2> QED BY <2>1, <2>2
<1>4. ASSUME q[b + 1].what = "swap" PROVE Gap(lg, a, b + 1)
  <2> SUFFICES ASSUME NEW i \in 1 .. Len(q),
                      (a < i /\ i <= b + 1) \/ (b + 1 < i /\ i <= a)
               PROVE  q[i].what = "swap"
    BY DEF Gap, q
  <2>1. CASE i = b + 1
    BY <1>4, <2>1
  <2>2. CASE i # b + 1
    <3>1. (a < i /\ i <= b) \/ (b < i /\ i <= a)
      BY <1>1, <2>2
    <3> QED BY <1>2, <3>1
  <2> QED BY <2>1, <2>2
<1> QED BY <1>3, <1>4 DEF q

LEMMA NoGap == ASSUME NEW lg, NEW a \in Nat PROVE Gap(lg, a, a)
BY DEF Gap

\* What it means for the counts to come to j.
LEMMA AsksCounts ==
  ASSUME NEW lg, NEW x, NEW y, NEW j, Asks(lg, x, y, j)
  PROVE  /\ Calling(j) =>
               /\ y.k = j /\ y.n["decision"] = x.n["decision"]
               /\ y.n["action_request"] = x.n["action_request"] + 1
               /\ y.n["action_request"] <= Len(Only(lg, "action_request"))
               /\ Only(lg, "action_request")[y.n["action_request"]] = Logged(j)
         /\ ~Calling(j) =>
               /\ j.pc = "end" /\ y.k.pc = "idle" /\ SamePlace(y.k, j)
               /\ y.n["action_request"] = x.n["action_request"]
               /\ y.n["decision"] = x.n["decision"] + 1
               /\ y.n["decision"] <= Len(Only(lg, "decision"))
               /\ Only(lg, "decision")[y.n["decision"]] = Decided(j)
<1>1. CASE Calling(j)
  BY <1>1 DEF Asks, None, One, Rested, Calling
<1>2. CASE ~Calling(j)
  <2>1. j \in KeeperSet /\ j.pc = "end" /\ y.k = Rested(j)
    BY <1>2 DEF Asks, Shape, Body
  <2>2. y.k.pc = "idle" /\ SamePlace(y.k, j)
    BY <2>1, RestedPlace
  <2> QED BY <1>2, <2>1, <2>2 DEF Asks, None, One
<1> QED BY <1>1, <1>2

\* Once nothing is left but a swap, the path comes to the end of the cycle.
LEMMA Settles ==
  ASSUME NEW S, NEW e, NEW c, NEW lg, Path(S, e, c, lg), e.k.pc = "idle",
         NEW x \in S, NEW y \in S, NEW j, Asks(lg, x, y, j), j.pc \in {"swap", "end"}
  PROVE  \E z \in S :
            /\ z.k.pc = "idle" /\ z.n["decision"] = x.n["decision"] + 1
            /\ SamePlace(z.k, j)
            /\ \/ z.n["action_request"] = x.n["action_request"]
               \/ /\ z.n["action_request"] = x.n["action_request"] + 1
                  /\ Only(lg, "action_request")[x.n["action_request"] + 1].what = "swap"
<1>1. CASE j.pc = "end"
  <2>1. ~Calling(j)
    BY <1>1 DEF Calling
  <2> QED BY <2>1, AsksCounts
<1>2. CASE j.pc = "swap"
  <2>1. Calling(j) /\ Shape(j)
    BY <1>2 DEF Calling, Asks
  <2>2. /\ y.k = j /\ y.n["decision"] = x.n["decision"]
        /\ y.n["action_request"] = x.n["action_request"] + 1
        /\ Only(lg, "action_request")[y.n["action_request"]] = Logged(j)
    BY <2>1, AsksCounts
  <2>3. Logged(j).what = "swap"
    <3>1. Request(j).verb = "swap"
      BY <1>2 DEF Request
    <3> QED BY <2>1, <3>1, LoggedType
  <2>4. y # e /\ y.k.pc # "idle"
    BY <1>2, <2>2
  <2>5. PICK z \in S : Walk(lg, y, z)
    BY <2>4 DEF Path
  <2>6. AnswerWalk(lg, y, z)
    BY <2>4, <2>5 DEF Walk, CycleWalk
  <2>7. PICK a \in AnswersTo(j) : Asks(lg, y, z, Answered(j, a))
    BY <2>2, <2>6 DEF AnswerWalk
  <2> DEFINE i == Answered(j, a)
  <2>8. i.pc = "end" /\ SamePlace(i, j)
    BY <1>2, <2>1, SwapAnswered
  <2>9. Asks(lg, y, z, i)
    BY <2>7
  <2> HIDE DEF i
  <2>10. ~Calling(i)
    BY <2>8 DEF Calling
  <2>11. /\ z.k.pc = "idle" /\ SamePlace(z.k, i)
         /\ z.n["action_request"] = y.n["action_request"]
         /\ z.n["decision"] = y.n["decision"] + 1
    BY <2>9, <2>10, AsksCounts
  <2>12. SamePlace(z.k, j)
    BY <2>8, <2>11 DEF SamePlace
  <2> QED BY <2>2, <2>3, <2>11, <2>12
<1> QED BY <1>1, <1>2

\* The next request of the log is the one that is made.
Matches(lg, v, m) ==
    LET q == Only(lg, "action_request") IN
    /\ m + 1 <= Len(q)
    /\ q[m + 1].what = Request(v).verb /\ q[m + 1].ids = Request(v).ids

\* The replay is where the run was; of a swap, it may be ahead or behind.
Kept(S, lg, v, m, d) ==
    IF Calling(v) /\ v.pc # "swap"
    THEN \E x \in S : /\ Calling(x.k) /\ x.n["decision"] + 1 = d
                      /\ x.n["action_request"] = m + 1 /\ SameCall(v, x.k)
    ELSE \E z \in S : /\ z.k.pc = "idle" /\ z.n["decision"] = d
                      /\ SamePlace(v, z.k) /\ Gap(lg, m, z.n["action_request"])

LEMMA VerbOfSwap ==
  ASSUME NEW u, Shape(u), Calling(u)
  PROVE  Request(u).verb = "swap" <=> u.pc = "swap"
<1>1. u.pc \in CallPcs
  BY DEF Calling, Shape, Body, KeeperSet
<1> QED BY <1>1 DEF CallPcs, Request

\* A replay that does as the run did is where the run was, or asks for what the
\* log does not have next.
LEMMA Landing ==
  ASSUME NEW S, NEW e, NEW c, NEW lg, Path(S, e, c, lg), e.k.pc = "idle",
         NEW x \in S, NEW y \in S, NEW i, Asks(lg, x, y, i),
         NEW j, Shape(j), Calling(j) \/ j.pc = "end", Alike(j, i),
         NEW m \in Nat, Gap(lg, m, x.n["action_request"]),
         NEW d, d = x.n["decision"] + 1
  PROVE  \/ Kept(S, lg, Rested(j), m, d)
         \/ Calling(Rested(j)) /\ ~Matches(lg, Rested(j), m)
<1> DEFINE r == x.n["action_request"]
<1> DEFINE q == Only(lg, "action_request")
<1>1. lg \in Seq(EventSet) /\ Sound(lg, x) /\ "action_request" \in Replayed
  BY DEF Path, Replayed
<1>2. r \in Nat /\ Len(q) \in Nat /\ r <= Len(q)
  BY <1>1, MarkCounts
<1>3. /\ SamePlace(Rested(j), j) /\ (j.pc = "end" => Rested(j).pc = "idle")
      /\ (j.pc # "end" => Rested(j) = j)
  BY RestedPlace DEF Shape, Body
<1>4. CASE j.pc \in {"swap", "end"} /\ i.pc \in {"swap", "end"}
  <2>1. PICK z \in S :
            /\ z.k.pc = "idle" /\ z.n["decision"] = d
            /\ SamePlace(z.k, i)
            /\ \/ z.n["action_request"] = r
               \/ z.n["action_request"] = r + 1 /\ q[r + 1].what = "swap"
    BY <1>4, Settles
  <2>2. Gap(lg, m, z.n["action_request"])
    BY <1>1, <1>2, <2>1, GapMoves
  <2>3. SamePlace(Rested(j), z.k)
    BY <1>3, <2>1 DEF Alike, SamePlace
  <2>4. ~(Calling(Rested(j)) /\ Rested(j).pc # "swap")
    BY <1>3, <1>4 DEF Calling
  <2> QED BY <2>1, <2>2, <2>3, <2>4 DEF Kept
<1>5. CASE ~(j.pc \in {"swap", "end"} /\ i.pc \in {"swap", "end"})
  <2>1. i.pc = j.pc /\ SameCall(j, i) /\ j.pc \notin {"swap", "end"}
    BY <1>5 DEF Alike, SameCall
  <2>2. Calling(j) /\ Calling(i) /\ Rested(j) = j
    BY <1>3, <2>1 DEF Calling
  <2>3. /\ y.k = i /\ y.n["decision"] = x.n["decision"]
        /\ y.n["action_request"] = r + 1
        /\ r + 1 <= Len(q) /\ q[r + 1] = Logged(i)
    BY <2>2, AsksCounts
  <2>4. CASE r = m
    BY <2>1, <2>2, <2>3, <2>4 DEF Kept
  <2>5. CASE r < m
    <3>1. r + 1 \in 1 .. Len(q) /\ r < r + 1 /\ r + 1 <= m
      BY <1>2, <2>3, <2>5
    <3>2. q[r + 1].what = "swap"
      BY <3>1 DEF Gap
    <3>3. Shape(i)
      BY DEF Asks
    <3>4. Request(i).verb = "swap"
      BY <2>2, <2>3, <3>2, <3>3, LoggedType
    <3> QED BY <2>1, <2>2, <3>3, <3>4, VerbOfSwap
  <2>6. CASE m < r
    <3>1. m + 1 \in 1 .. Len(q) /\ m < m + 1 /\ m + 1 <= r
      BY <1>2, <2>6
    <3>2. q[m + 1].what = "swap"
      BY <3>1 DEF Gap
    <3>3. Request(j).verb # "swap"
      BY <2>1, <2>2, VerbOfSwap
    <3> QED BY <2>2, <3>2, <3>3 DEF Matches
  <2> QED BY <1>2, <2>4, <2>5, <2>6
<1> QED BY <1>4, <1>5

-----------------------------------------------------------------------------
(* What a replay takes and logs. *)

Notes(s, s2, j) ==
    LET d == Only(s, "decision")
        d2 == Only(s2, "decision")
        q == Only(s, "action_request")
        q2 == Only(s2, "action_request")
    IN /\ \A i \in 1 .. Len(d) : d2[i] = d[i]
       /\ \/ Calling(j) /\ Len(d2) = Len(d) /\ Len(q2) = Len(q) + 1
          \/ /\ ~Calling(j) /\ Len(d2) = Len(d) + 1 /\ Len(q2) = Len(q)
             /\ d2[Len(d) + 1].what = j.act

LEMMA ReplayWrites ==
  ASSUME NEW s \in Seq(EventSet), NEW n, NEW act \in CycleActs, NEW j, NEW X,
         Goes(n, act, j, X), NEW s2, s2 = s \o Written(j)
  PROVE  /\ s2 \in Seq(EventSet) /\ Notes(s, s2, j)
         /\ Shape(Rested(j)) /\ Rested(j).pc # "end" /\ Rested(j).act \in CycleActs
         /\ Calling(Rested(j)) <=> Calling(j)
         /\ Calling(j) => Rested(j) = j
<1> DEFINE none == <<>>
<1> DEFINE x == Mark(j, s)
<1> DEFINE y == Mark(Rested(j), s2)
<1> DEFINE w == Written(j)
<1>1. none \in Seq(EventSet) /\ Silent(none)
  BY EmptySeq, NothingSilent
<1>2. Adds(none, "action_request", <<>>) /\ Adds(none, "decision", <<>>)
  BY <1>1 DEF Silent, Replayed
<1>3. s2 = s \o none \o w
  <2> HIDE DEF EventSet, w
  <2>1. s \o none = s
    OBVIOUS
  <2> QED BY <2>1 DEF w
<1> HIDE DEF none
<1>4. /\ s2 \in Seq(EventSet) /\ Asks(s2, x, y, j) /\ LongIn(s, s2, "decision")
  BY <1>1, <1>2, <1>3, ComesAsks
<1>5. /\ x.n["decision"] = Len(Only(s, "decision"))
      /\ y.n["decision"] = Len(Only(s2, "decision"))
      /\ x.n["action_request"] = Len(Only(s, "action_request"))
      /\ y.n["action_request"] = Len(Only(s2, "action_request"))
  BY DEF Mark, Replayed
<1> HIDE DEF x, y
<1>6. Notes(s, s2, j)
  <2>1. ~Calling(j) => Decided(j).what = j.act
    BY DecidedType DEF Goes
  <2>2. CASE Calling(j)
    <3>1. /\ y.n["decision"] = x.n["decision"]
          /\ y.n["action_request"] = x.n["action_request"] + 1
      BY <1>4, <2>2, AsksCounts
    <3> QED BY <1>4, <1>5, <2>2, <3>1 DEF Notes, LongIn
  <2>3. CASE ~Calling(j)
    BY <1>4, <1>5, <2>1, <2>3, AsksCounts DEF Notes, LongIn
  <2> QED BY <2>2, <2>3
<1>7. Shape(Rested(j)) /\ Rested(j).pc # "end"
  BY RestedShape
<1>8. Calling(Rested(j)) <=> Calling(j)
  BY RestedShape
<1>9. Calling(j) => Rested(j) = j
  BY RestedShape
<1>10. Rested(j).act \in CycleActs
  BY RestedAct
<1> QED BY <1>4, <1>6, <1>7, <1>8, <1>9, <1>10

\* A replay under way: one decision per cycle, one request per call.
TakenSet == [checks : Nat, states : Nat, actions : Nat, cycles : Nat,
             error : BOOLEAN]
Replays(v, s, t) ==
    /\ s \in Seq(EventSet) /\ Shape(v) /\ v.pc # "end" /\ v.act \in CycleActs
    /\ t \in TakenSet
    /\ Len(Only(s, "decision")) + (IF Calling(v) THEN 1 ELSE 0) = t.cycles
    /\ Len(Only(s, "action_request")) = t.actions + (IF Calling(v) THEN 1 ELSE 0)

\* It has decided what the run did not, or will, or asks for what the log does
\* not have next, or has left out the second leg that is next.
Misdecided(lg, s) ==
    \E i \in 1 .. Len(Only(s, "decision")) :
        Only(s, "decision")[i] # Only(lg, "decision")[i]
Misdecides(lg, v, d) == Calling(v) /\ v.act # Only(lg, "decision")[d].what
Misasks(lg, v, m) == Calling(v) /\ ~Matches(lg, v, m)
Misses(lg, v, m) ==
    LET q == Only(lg, "action_request") IN
    ~Calling(v) /\ m < Len(q) /\ AskLeg(q[m + 1])
Doomed(lg, v, s, t) ==
    \/ Misdecided(lg, s) \/ Misdecides(lg, v, t.cycles)
    \/ Misasks(lg, v, t.actions) \/ Misses(lg, v, t.actions)

\* A wrong decision stays, and one that is to come comes.
LEMMA MisdecidedStays ==
  ASSUME NEW lg, NEW s \in Seq(EventSet), NEW s2, NEW j, Notes(s, s2, j),
         Misdecided(lg, s)
  PROVE  Misdecided(lg, s2)
<1> DEFINE d == Only(s, "decision")
<1> DEFINE d2 == Only(s2, "decision")
<1>1. Len(d) \in Nat
  BY OnlyType
<1>2. /\ \A i \in 1 .. Len(d) : d2[i] = d[i]
      /\ Len(d2) = Len(d) \/ Len(d2) = Len(d) + 1
  BY DEF Notes
<1>3. PICK i \in 1 .. Len(d) : d[i] # Only(lg, "decision")[i]
  BY DEF Misdecided
<1> HIDE DEF d, d2
<1>4. i \in 1 .. Len(d2) /\ d2[i] = d[i]
  BY <1>1, <1>2
<1> QED BY <1>3, <1>4 DEF Misdecided, d2

LEMMA MisdecidesComes ==
  ASSUME NEW lg, NEW s \in Seq(EventSet), NEW s2, NEW j, Notes(s, s2, j),
         NEW n, n = Len(Only(s, "decision")) + 1,
         j.act # Only(lg, "decision")[n].what
  PROVE  /\ Calling(j) => Misdecides(lg, j, n)
         /\ ~Calling(j) => Misdecided(lg, s2)
<1> DEFINE d == Only(s, "decision")
<1> DEFINE d2 == Only(s2, "decision")
<1>1. Len(d) \in Nat /\ n = Len(d) + 1
  BY OnlyType
<1>2. ASSUME ~Calling(j) PROVE Misdecided(lg, s2)
  <2>1. Len(d2) = Len(d) + 1 /\ d2[Len(d) + 1].what = j.act
    BY <1>2 DEF Notes
  <2> HIDE DEF d, d2
  <2>2. n \in 1 .. Len(d2) /\ d2[n].what = j.act
    BY <1>1, <2>1
  <2> QED BY <2>2 DEF Misdecided, d2
<1> QED BY <1>2 DEF Misdecides

-----------------------------------------------------------------------------
(* The answers of a replay are answers. *)

LEMMA VerbOfBundle ==
  ASSUME NEW u, Shape(u), Calling(u)
  PROVE  /\ Request(u).verb = "refresh" <=> u.pc = "bundle"
         /\ Request(u).verb = "withdraw" <=> u.pc \in {"extra", "withdraw"}
<1>1. u.pc \in CallPcs
  BY DEF Calling, Shape, Body, KeeperSet
<1> QED BY <1>1 DEF CallPcs, Request

\* What the run was answered, the replay may be.
LEMMA RunAnswers ==
  ASSUME NEW S, NEW e, NEW c, Path(S, e, c, log), e.k.pc = "idle", ResultsOnce(log),
         NEW x \in S, Calling(x.k), NEW v, Shape(v), Calling(v),
         Request(v).verb = Request(x.k).verb, Request(v).ids = Request(x.k).ids,
         NEW r, r = Recorded(Answer(x.k.reqs))
  PROVE  /\ r \in AnswersTo(v)
         /\ \E y \in S, a \in AnswersTo(x.k) :
               Asks(log, x, y, Answered(x.k, a)) /\ r.ok = a.ok /\ r.ids = a.ids
<1>1. /\ log \in Seq(EventSet) /\ Sound(log, x) /\ Shape(x.k)
      /\ "action_result" \in Replayed
  BY DEF Path, Sound, Replayed
<1>2. x # e /\ x.k.pc # "idle"
  BY DEF Calling
<1>3. PICK y \in S : Walk(log, x, y)
  BY <1>2 DEF Path
<1>4. AnswerWalk(log, x, y)
  BY <1>2, <1>3 DEF Walk, CycleWalk
<1>5. PICK a \in AnswersTo(x.k) :
         /\ One(log, x, y, "action_result", Result(x.k, a))
         /\ Asks(log, x, y, Answered(x.k, a))
  BY <1>4 DEF AnswerWalk
<1> DEFINE n == y.n["action_result"]
<1> DEFINE f == Result(x.k, a)
<1>6. Only(log, "action_result")[n] = f /\ n \in 1 .. Len(Only(log, "action_result"))
  <2>1. One(log, x, y, "action_result", f)
    BY <1>5
  <2> HIDE DEF f
  <2>2. x.n["action_result"] \in Nat /\ Len(Only(log, "action_result")) \in Nat
    BY <1>1, MarkCounts
  <2> QED BY <2>1, <2>2 DEF One
<1>7. r = [ok |-> a.ok, unknown |-> FALSE, ids |-> a.ids]
  BY <1>1, <1>6, AnswerSays
<1>8. r.ok = a.ok /\ r.ids = a.ids
  BY <1>7
<1>9. r \in [ok : BOOLEAN, unknown : BOOLEAN, ids : Seq(Ids)]
  BY <1>7 DEF AnswersTo
<1>10. a.ok /\ v.pc \in {"bid", "ask"} => a.ids = Request(v).ids
  <2>1. v.pc \in {"bid", "ask"} <=> x.k.pc \in {"bid", "ask"}
    BY <1>1, RequestType
  <2> QED BY <2>1 DEF AnswersTo
<1>11. a.ok /\ v.pc = "bundle" => a.ids = Tail(Request(v).ids)
  <2>1. v.pc = "bundle" <=> x.k.pc = "bundle"
    BY <1>1, VerbOfBundle
  <2> QED BY <2>1 DEF AnswersTo
<1>12. r \in AnswersTo(v)
  BY <1>8, <1>9, <1>10, <1>11 DEF AnswersTo
<1> QED BY <1>5, <1>8, <1>12

\* A withdrawal or a swap tells nothing but whether it was done.
LEMMA BlindAnswer ==
  ASSUME NEW u, Shape(u), u.pc \in {"extra", "withdraw", "swap"}, NEW a, NEW b,
         a.ok \in BOOLEAN, a.unknown \in BOOLEAN, b.ok = a.ok, b.unknown = a.unknown
  PROVE  Answered(u, a) = Answered(u, b)
<1> DEFINE v == Counted(u, a)
<1>1. v = Counted(u, b)
  BY DEF Counted
<1>2. v.pc = u.pc
  BY CountedBody DEF Shape
<1> HIDE DEF v
<1>3. NextExtra(v, a) = NextExtra(v, b)
  BY DEF NextExtra
<1>4. CASE u.pc = "extra"
  <2>1. Answered(u, a) = NextExtra(v, a)
    BY <1>2, <1>4 DEF Answered, v
  <2>2. Answered(u, b) = NextExtra(v, b)
    BY <1>1, <1>2, <1>4 DEF Answered
  <2> QED BY <1>3, <2>1, <2>2
<1>5. CASE u.pc = "withdraw"
  <2> DEFINE A(ok) == IF ok \/ v.routine = "emergency"
                      THEN WithdrawExtras([v EXCEPT !.primary = NoId])
                      ELSE Through(v)
  <2>1. Answered(u, a) = A(a.ok)
    BY <1>2, <1>5 DEF Answered, v
  <2>2. Answered(u, b) = A(b.ok)
    BY <1>1, <1>2, <1>5 DEF Answered
  <2> HIDE DEF A
  <2> QED BY <2>1, <2>2
<1>6. CASE u.pc = "swap"
  <2>1. Answered(u, a) = Through(v)
    BY <1>2, <1>6 DEF Answered, v
  <2>2. Answered(u, b) = Through(v)
    BY <1>1, <1>2, <1>6 DEF Answered
  <2> QED BY <2>1, <2>2
<1> QED BY <1>4, <1>5, <1>6

LEMMA ReplyAnswers ==
  ASSUME NEW S, NEW e, NEW c, Path(S, e, c, log), e.k.pc = "idle", ResultsOnce(log),
         RequestsSettled(log, {}), NEW v, Shape(v), Calling(v), NEW m \in Nat,
         Matches(log, v, m), NEW r,
         r = Recorded(Answer(Only(log, "action_request")[m + 1].req))
  PROVE  \E b \in AnswersTo(v) : Answered(v, r) = Answered(v, b)
<1> DEFINE q == Only(log, "action_request")
<1>1. /\ log \in Seq(EventSet) /\ m + 1 \in 1 .. Len(q)
      /\ q[m + 1].what = Request(v).verb /\ q[m + 1].ids = Request(v).ids
  <2>1. log \in Seq(EventSet)
    BY DEF Path
  <2>2. Len(q) \in Nat
    BY <2>1, OnlyType
  <2> QED BY <2>1, <2>2 DEF Matches
<1>2. v.pc \in CallPcs
  BY DEF Calling, Shape, Body, KeeperSet
<1>3. CASE v.pc \in {"extra", "withdraw", "swap"}
  <2>1. PICK j \in Places(log, "action_request") : q[m + 1] = log[j]
    BY <1>1, OnlyAt
  <2>2. PICK i \in Places(log, "action_result") : log[i].req = q[m + 1].req
    BY <2>1 DEF RequestsSettled, RequestAt, ResultAt
  <2> DEFINE f == Answer(q[m + 1].req)
  <2>3. f \in Events("action_result")
    BY <2>2 DEF Answer, Events
  <2>4. f \in EventSet
    BY <1>1, <2>3, EventAt DEF Places
  <2>5. f.ok \in BOOLEAN
    BY <2>4 DEF EventSet
  <2> DEFINE b == [ok |-> f.ok, unknown |-> FALSE, ids |-> <<>>]
  <2>6. r.ok = f.ok /\ r.unknown = FALSE
    BY DEF Recorded
  <2>7. <<>> \in Seq(Ids)
    BY EmptySeq
  <2> HIDE DEF f
  <2>8. b \in AnswersTo(v)
    BY <1>3, <2>5, <2>7 DEF AnswersTo
  <2>9. b.ok = r.ok /\ b.unknown = r.unknown /\ r.ok \in BOOLEAN /\ r.unknown \in BOOLEAN
    BY <2>5, <2>6
  <2> HIDE DEF b
  <2>10. Answered(v, r) = Answered(v, b)
    BY <1>3, <2>9, BlindAnswer
  <2> QED BY <2>8, <2>10
<1>4. CASE v.pc \in {"bid", "ask", "bundle"}
  <2>1. q[m + 1].what # "withdraw"
    BY <1>1, <1>4, VerbOfBundle
  <2>2. PICK x \in S : Calling(x.k) /\ x.n["action_request"] = m + 1
    BY <1>1, <2>1 DEF Path, Accounted
  <2>3. Sound(log, x) /\ Shape(x.k)
    BY DEF Path, Sound
  <2>4. q[m + 1] = Logged(x.k)
    BY <2>2, <2>3 DEF Sound
  <2>5. /\ q[m + 1].what = Request(x.k).verb /\ q[m + 1].ids = Request(x.k).ids
        /\ q[m + 1].req = x.k.reqs
    BY <2>2, <2>3, <2>4, LoggedType
  <2>6. r = Recorded(Answer(x.k.reqs))
    BY <2>5
  <2>7. r \in AnswersTo(v)
    BY <1>1, <2>2, <2>5, <2>6, RunAnswers
  <2> QED BY <2>7
<1> QED BY <1>2, <1>3, <1>4 DEF CallPcs

-----------------------------------------------------------------------------
(* The steps of a replay, on the path or off it. *)

\* A replay at one with the path S, or at odds with the log for good.
Holds(S, lg, v, s, t) ==
    Replays(v, s, t) /\ (Doomed(lg, v, s, t) \/ Kept(S, lg, v, t.actions, t.cycles))

\* It takes one decision, and comes to j.
Drives(v, s, t, j, s2, t2) ==
    /\ v.pc = "idle" /\ Begun(v, j) /\ s2 = s \o Written(j) /\ t2 \in TakenSet
    /\ t2.cycles = t.cycles + 1 /\ t2.actions = t.actions

LEMMA DriveReplays ==
  ASSUME NEW v, NEW s, NEW t, Replays(v, s, t), NEW j, NEW s2, NEW t2,
         Drives(v, s, t, j, s2, t2)
  PROVE  /\ Replays(Rested(j), s2, t2) /\ Notes(s, s2, j)
         /\ Shape(j) /\ j.pc # "ask" /\ (Calling(j) \/ j.pc = "end")
         /\ Calling(Rested(j)) <=> Calling(j)
         /\ Calling(j) => Rested(j) = j
         /\ t2.cycles = Len(Only(s, "decision")) + 1
<1>1. /\ s \in Seq(EventSet) /\ Shape(v) /\ ~Calling(v) /\ Begun(v, j)
      /\ v.pc = "idle" /\ s2 = s \o Written(j)
  BY DEF Replays, Drives, Calling
<1>2. Goes(v.reqs, j.act, j, Held(v)) /\ j.act \in CycleActs /\ j.pc # "ask"
  BY <1>1, BegunType
<1>3. /\ s2 \in Seq(EventSet) /\ Notes(s, s2, j)
      /\ Shape(Rested(j)) /\ Rested(j).pc # "end" /\ Rested(j).act \in CycleActs
      /\ Calling(Rested(j)) <=> Calling(j)
      /\ Calling(j) => Rested(j) = j
  BY <1>1, <1>2, ReplayWrites
<1>4. Shape(j) /\ (Calling(j) \/ j.pc = "end")
  BY <1>2 DEF Goes
<1>5. /\ Len(Only(s, "decision")) = t.cycles
      /\ Len(Only(s, "action_request")) = t.actions
      /\ t \in TakenSet /\ t2 \in TakenSet
      /\ t2.cycles = t.cycles + 1 /\ t2.actions = t.actions
  <2>1. Len(Only(s, "decision")) \in Nat /\ Len(Only(s, "action_request")) \in Nat
    BY <1>1, OnlyType
  <2>2. (IF Calling(v) THEN 1 ELSE 0) = 0
    BY <1>1
  <2>3. t \in TakenSet /\ t.cycles \in Nat /\ t.actions \in Nat
    BY DEF Replays, TakenSet
  <2> HIDE DEF Calling
  <2> QED BY <2>1, <2>2, <2>3 DEF Replays, Drives
<1>6. t.cycles \in Nat /\ t.actions \in Nat
  BY <1>5 DEF TakenSet
<1>7. /\ Len(Only(s2, "decision")) + (IF Calling(j) THEN 1 ELSE 0) = t2.cycles
      /\ Len(Only(s2, "action_request")) = t2.actions + (IF Calling(j) THEN 1 ELSE 0)
  <2>1. CASE Calling(j)
    BY <1>3, <1>5, <1>6, <2>1 DEF Notes
  <2>2. CASE ~Calling(j)
    BY <1>3, <1>5, <1>6, <2>2 DEF Notes
  <2> QED BY <2>1, <2>2
<1>8. Replays(Rested(j), s2, t2)
  BY <1>3, <1>5, <1>7 DEF Replays
<1> QED BY <1>2, <1>3, <1>4, <1>5, <1>8

\* What is at odds stays so: a second leg is not asked for in a new cycle.
LEMMA DriveDoomed ==
  ASSUME NEW lg, NEW v, NEW s, NEW t, Replays(v, s, t), Doomed(lg, v, s, t),
         NEW j, NEW s2, NEW t2, Drives(v, s, t, j, s2, t2)
  PROVE  Doomed(lg, Rested(j), s2, t2)
<1>1. /\ Replays(Rested(j), s2, t2) /\ Notes(s, s2, j)
      /\ Shape(j) /\ j.pc # "ask"
      /\ Calling(Rested(j)) <=> Calling(j)
      /\ Calling(j) => Rested(j) = j
  BY DriveReplays
<1>2. s \in Seq(EventSet) /\ ~Calling(v) /\ t2.actions = t.actions
  BY DEF Replays, Drives, Calling
<1>3. Misdecided(lg, s) \/ Misses(lg, v, t.actions)
  BY <1>2 DEF Doomed, Misdecides, Misasks
<1>4. CASE Misdecided(lg, s)
  BY <1>1, <1>2, <1>4, MisdecidedStays DEF Doomed
<1>5. CASE Misses(lg, v, t.actions) /\ ~Calling(j)
  BY <1>1, <1>2, <1>5 DEF Doomed, Misses
<1>6. CASE Misses(lg, v, t.actions) /\ Calling(j)
  <2> DEFINE q == Only(lg, "action_request")[t.actions + 1]
  <2>1. ASSUME Matches(lg, j, t.actions) PROVE FALSE
    <3>1. q.what = Request(j).verb /\ q.ids = Request(j).ids /\ AskLeg(q)
      BY <1>6, <2>1 DEF Matches, Misses
    <3> QED BY <1>1, <1>6, <3>1, AskLegLogged
  <2> QED BY <1>1, <1>2, <1>6, <2>1 DEF Doomed, Misasks
<1> QED BY <1>3, <1>4, <1>5, <1>6

LEMMA DriveKept ==
  ASSUME NEW S, NEW e, NEW c, NEW lg, Path(S, e, c, lg), e.k.pc = "idle",
         e.n["decision"] = Len(Only(lg, "decision")),
         NEW v, NEW s, NEW t, Replays(v, s, t), t.cycles < Len(Only(lg, "decision")),
         Kept(S, lg, v, t.actions, t.cycles),
         NEW j, NEW s2, NEW t2, Drives(v, s, t, j, s2, t2)
  PROVE  Doomed(lg, Rested(j), s2, t2) \/ Kept(S, lg, Rested(j), t2.actions, t2.cycles)
<1> DEFINE d == Only(lg, "decision")
<1>1. /\ Replays(Rested(j), s2, t2) /\ Notes(s, s2, j)
      /\ Shape(j) /\ (Calling(j) \/ j.pc = "end")
      /\ Calling(Rested(j)) <=> Calling(j)
      /\ Calling(j) => Rested(j) = j
      /\ t2.cycles = Len(Only(s, "decision")) + 1
  BY DriveReplays
<1>2. /\ s \in Seq(EventSet) /\ Shape(v) /\ v.pc = "idle" /\ Begun(v, j)
      /\ t2.cycles = t.cycles + 1 /\ t2.actions = t.actions
  BY DEF Replays, Drives
<1>3. t.cycles \in Nat /\ t.actions \in Nat
  BY DEF Replays, TakenSet
<1>4. PICK z \in S : /\ z.k.pc = "idle" /\ z.n["decision"] = t.cycles
                     /\ SamePlace(v, z.k)
                     /\ Gap(lg, t.actions, z.n["action_request"])
  BY <1>2 DEF Kept, Calling
<1>5. z # e
  BY <1>4
<1>6. PICK y \in S : Walk(lg, z, y)
  BY <1>5 DEF Path
<1>7. CycleWalk(lg, z, y)
  BY <1>4, <1>6 DEF Walk, AnswerWalk, Calling
<1>8. PICK u, i : /\ Shape(u) /\ u.pc = "idle" /\ SamePlace(z.k, u)
                  /\ Begun(u, i) /\ Asks(lg, z, y, i)
  BY <1>7 DEF CycleWalk
<1>9. d[t.cycles + 1].what = i.act
  <2>1. CASE Calling(i)
    <3>1. y.k = i /\ y.n["decision"] = z.n["decision"]
      BY <1>8, <2>1, AsksCounts
    <3>2. Decides(lg, e, y) /\ ~Calling(e.k)
      BY DEF Path, Calling
    <3> QED BY <1>4, <2>1, <3>1, <3>2 DEF Decides
  <2>2. CASE ~Calling(i)
    <3>1. y.n["decision"] = z.n["decision"] + 1 /\ d[y.n["decision"]] = Decided(i)
      BY <1>8, <2>2, AsksCounts
    <3>2. Decided(i).what = i.act
      BY <1>8, DecidedType DEF Asks
    <3> QED BY <1>4, <3>1, <3>2
  <2> QED BY <2>1, <2>2
<1>10. CASE j.act # i.act
  <2>1. j.act # d[t2.cycles].what
    BY <1>2, <1>9, <1>10
  <2>2. /\ Calling(j) => Misdecides(lg, j, t2.cycles)
        /\ ~Calling(j) => Misdecided(lg, s2)
    BY <1>1, <1>2, <2>1, MisdecidesComes
  <2> QED BY <1>1, <2>2 DEF Doomed
<1>11. CASE j.act = i.act
  <2>1. SamePlace(v, u)
    BY <1>4, <1>8 DEF SamePlace
  <2>2. Alike(j, i)
    BY <1>2, <1>8, <1>11, <2>1, BegunAlike
  <2>3. \/ Kept(S, lg, Rested(j), t.actions, t2.cycles)
        \/ Calling(Rested(j)) /\ ~Matches(lg, Rested(j), t.actions)
    BY <1>1, <1>2, <1>3, <1>4, <1>8, <2>2, Landing
  <2> QED BY <1>2, <2>3 DEF Doomed, Misasks
<1> QED BY <1>10, <1>11

LEMMA DriveHolds ==
  ASSUME NEW S, NEW e, NEW c, NEW lg, Path(S, e, c, lg), e.k.pc = "idle",
         e.n["decision"] = Len(Only(lg, "decision")),
         NEW v, NEW s, NEW t, Holds(S, lg, v, s, t),
         t.cycles < Len(Only(lg, "decision")),
         NEW j, NEW s2, NEW t2, Drives(v, s, t, j, s2, t2)
  PROVE  Holds(S, lg, Rested(j), s2, t2)
<1>1. Replays(Rested(j), s2, t2)
  BY DriveReplays DEF Holds
<1>2. Doomed(lg, v, s, t) =>
         Doomed(lg, Rested(j), s2, t2)
  BY DriveDoomed DEF Holds
<1>3. Kept(S, lg, v, t.actions, t.cycles) =>
         Doomed(lg, Rested(j), s2, t2) \/ Kept(S, lg, Rested(j), t2.actions, t2.cycles)
  BY DriveKept DEF Holds
<1> QED BY <1>1, <1>2, <1>3 DEF Holds

\* It is answered from the log, and comes to j.
Replies(v, s, t, j, s2, t2) ==
    /\ Calling(v) /\ Matches(log, v, t.actions)
    /\ j = Answered(v, Recorded(Answer(Only(log, "action_request")[t.actions + 1].req)))
    /\ s2 = s \o Written(j) /\ t2 \in TakenSet
    /\ t2.cycles = t.cycles /\ t2.actions = t.actions + 1

LEMMA ReplyReplays ==
  ASSUME NEW S, NEW e, NEW c, Path(S, e, c, log), e.k.pc = "idle", ResultsOnce(log),
         RequestsSettled(log, {}), NEW v, NEW s, NEW t, Replays(v, s, t),
         NEW j, NEW s2, NEW t2, Replies(v, s, t, j, s2, t2)
  PROVE  /\ Replays(Rested(j), s2, t2) /\ Notes(s, s2, j)
         /\ Shape(j) /\ (Calling(j) \/ j.pc = "end") /\ j.act = v.act
         /\ Calling(Rested(j)) <=> Calling(j)
         /\ Calling(j) => Rested(j) = j
         /\ t.cycles = Len(Only(s, "decision")) + 1
         /\ \E b \in AnswersTo(v) : j = Answered(v, b)
<1> DEFINE r == Recorded(Answer(Only(log, "action_request")[t.actions + 1].req))
<1>1. /\ s \in Seq(EventSet) /\ Shape(v) /\ Calling(v) /\ v.act \in CycleActs
      /\ Matches(log, v, t.actions) /\ j = Answered(v, r) /\ s2 = s \o Written(j)
      /\ t \in TakenSet /\ t2 \in TakenSet
      /\ t2.cycles = t.cycles /\ t2.actions = t.actions + 1
  BY DEF Replays, Replies
<1>2. t.cycles \in Nat /\ t.actions \in Nat
  BY <1>1 DEF TakenSet
<1>3. \E b \in AnswersTo(v) : Answered(v, r) = Answered(v, b)
  BY <1>1, <1>2, ReplyAnswers
<1> HIDE DEF r
<1>4. PICK b \in AnswersTo(v) : j = Answered(v, b)
  BY <1>1, <1>3
<1>5. PICK X : Goes(v.reqs, v.act, j, X)
  BY <1>1, <1>4, AnsweredAct
<1>6. /\ s2 \in Seq(EventSet) /\ Notes(s, s2, j)
      /\ Shape(Rested(j)) /\ Rested(j).pc # "end" /\ Rested(j).act \in CycleActs
      /\ Calling(Rested(j)) <=> Calling(j)
      /\ Calling(j) => Rested(j) = j
  BY <1>1, <1>5, ReplayWrites
<1>7. Shape(j) /\ (Calling(j) \/ j.pc = "end") /\ j.act = v.act
  BY <1>5 DEF Goes
<1>8. /\ Len(Only(s, "decision")) + 1 = t.cycles
      /\ Len(Only(s, "action_request")) = t.actions + 1
  <2>1. (IF Calling(v) THEN 1 ELSE 0) = 1
    BY <1>1
  <2> HIDE DEF Calling
  <2> QED BY <1>2, <2>1 DEF Replays
<1>9. /\ Len(Only(s, "decision")) \in Nat /\ Len(Only(s, "action_request")) \in Nat
  BY <1>1, OnlyType
<1>10. /\ Len(Only(s2, "decision")) + (IF Calling(j) THEN 1 ELSE 0) = t2.cycles
       /\ Len(Only(s2, "action_request")) = t2.actions + (IF Calling(j) THEN 1 ELSE 0)
  <2>1. CASE Calling(j)
    BY <1>1, <1>2, <1>6, <1>8, <1>9, <2>1 DEF Notes
  <2>2. CASE ~Calling(j)
    BY <1>1, <1>2, <1>6, <1>8, <1>9, <2>2 DEF Notes
  <2> QED BY <2>1, <2>2
<1>11. Replays(Rested(j), s2, t2)
  BY <1>1, <1>6, <1>10 DEF Replays
<1> QED BY <1>4, <1>6, <1>7, <1>8, <1>11

LEMMA ReplyDoomed ==
  ASSUME NEW S, NEW e, NEW c, Path(S, e, c, log), e.k.pc = "idle", ResultsOnce(log),
         RequestsSettled(log, {}), NEW v, NEW s, NEW t, Replays(v, s, t),
         Doomed(log, v, s, t), NEW j, NEW s2, NEW t2, Replies(v, s, t, j, s2, t2)
  PROVE  Doomed(log, Rested(j), s2, t2)
<1>1. /\ Notes(s, s2, j) /\ j.act = v.act
      /\ Calling(Rested(j)) <=> Calling(j)
      /\ Calling(j) => Rested(j) = j
      /\ t.cycles = Len(Only(s, "decision")) + 1
  BY ReplyReplays
<1>2. /\ s \in Seq(EventSet) /\ Calling(v) /\ Matches(log, v, t.actions)
      /\ t2.cycles = t.cycles
  BY DEF Replays, Replies
<1>3. Misdecided(log, s) \/ Misdecides(log, v, t.cycles)
  BY <1>2 DEF Doomed, Misasks, Misses
<1>4. CASE Misdecided(log, s)
  BY <1>1, <1>2, <1>4, MisdecidedStays DEF Doomed
<1>5. CASE Misdecides(log, v, t.cycles)
  <2>1. j.act # Only(log, "decision")[t.cycles].what
    BY <1>1, <1>5 DEF Misdecides
  <2>2. /\ Calling(j) => Misdecides(log, j, t.cycles)
        /\ ~Calling(j) => Misdecided(log, s2)
    BY <1>1, <1>2, <2>1, MisdecidesComes
  <2> QED BY <1>1, <1>2, <2>2 DEF Doomed
<1> QED BY <1>3, <1>4, <1>5

\* A swap that both or only the replay has asked for.
LEMMA ReplySwap ==
  ASSUME NEW S, NEW v, Shape(v), v.pc = "swap", Calling(v), NEW b \in AnswersTo(v),
         NEW j, j = Answered(v, b), NEW m \in Nat, NEW d, Matches(log, v, m),
         log \in Seq(EventSet), \A z \in S : Sound(log, z), Kept(S, log, v, m, d)
  PROVE  Kept(S, log, Rested(j), m + 1, d)
<1>1. PICK z \in S : /\ z.k.pc = "idle" /\ z.n["decision"] = d
                     /\ SamePlace(v, z.k)
                     /\ Gap(log, m, z.n["action_request"])
  BY DEF Kept
<1>2. j.pc = "end" /\ SamePlace(j, v) /\ Shape(j)
  <2>1. j.pc = "end" /\ SamePlace(j, v)
    BY SwapAnswered
  <2>2. Shape(j)
    BY AnsweredAct DEF Goes
  <2> QED BY <2>1, <2>2
<1>3. Rested(j).pc = "idle" /\ SamePlace(Rested(j), j)
  BY <1>2, RestedPlace DEF Shape, Body
<1>4. Only(log, "action_request")[m + 1].what = "swap"
  BY VerbOfSwap DEF Matches
<1>5. z.n["action_request"] \in Nat
  <2>1. "action_request" \in Replayed /\ Sound(log, z)
    BY DEF Replayed
  <2> QED BY <2>1, MarkCounts
<1>6. Gap(log, m + 1, z.n["action_request"])
  BY <1>1, <1>4, <1>5, GapMoves
<1>7. SamePlace(Rested(j), z.k)
  BY <1>1, <1>2, <1>3 DEF SamePlace
<1> QED BY <1>1, <1>3, <1>6, <1>7 DEF Kept, Calling

\* The two are answered the same; one may halt before its second leg.
LEMMA ReplyCall ==
  ASSUME NEW S, NEW e, NEW c, Path(S, e, c, log), e.k.pc = "idle", ResultsOnce(log),
         RequestsSettled(log, {}), NEW v, NEW s, NEW t, Replays(v, s, t),
         v.pc # "swap", Kept(S, log, v, t.actions, t.cycles),
         NEW j, NEW s2, NEW t2, Replies(v, s, t, j, s2, t2)
  PROVE  Doomed(log, Rested(j), s2, t2) \/ Kept(S, log, Rested(j), t2.actions, t2.cycles)
<1> DEFINE q == Only(log, "action_request")
<1> DEFINE m == t.actions
<1>1. /\ Notes(s, s2, j) /\ Shape(j) /\ (Calling(j) \/ j.pc = "end")
      /\ Calling(Rested(j)) <=> Calling(j)
      /\ Calling(j) => Rested(j) = j
  BY ReplyReplays
<1>2. /\ Shape(v) /\ Calling(v) /\ Matches(log, v, m)
      /\ j = Answered(v, Recorded(Answer(q[m + 1].req)))
      /\ t2.cycles = t.cycles /\ t2.actions = m + 1
      /\ m \in Nat /\ t2.actions \in Nat
  BY DEF Replays, Replies, TakenSet
<1>3. PICK x \in S : /\ Calling(x.k) /\ x.n["decision"] + 1 = t.cycles
                     /\ x.n["action_request"] = m + 1 /\ SameCall(v, x.k)
  BY <1>2 DEF Kept
<1>4. Sound(log, x) /\ Shape(x.k)
  BY DEF Path, Sound
<1>5. q[m + 1] = Logged(x.k)
  BY <1>3, <1>4 DEF Sound
<1>6. /\ q[m + 1].what = Request(x.k).verb /\ q[m + 1].ids = Request(x.k).ids
      /\ q[m + 1].req = x.k.reqs
  BY <1>3, <1>4, <1>5, LoggedType
<1>7. Request(v).verb = Request(x.k).verb /\ Request(v).ids = Request(x.k).ids
  BY <1>2, <1>6 DEF Matches
<1> DEFINE r == Recorded(Answer(x.k.reqs))
<1>8. j = Answered(v, r)
  BY <1>2, <1>6
<1>9. /\ r \in AnswersTo(v)
      /\ \E y \in S, a \in AnswersTo(x.k) :
            Asks(log, x, y, Answered(x.k, a)) /\ r.ok = a.ok /\ r.ids = a.ids
  BY <1>2, <1>3, <1>7, RunAnswers
<1> HIDE DEF r
<1>10. PICK y \in S, a \in AnswersTo(x.k) :
          Asks(log, x, y, Answered(x.k, a)) /\ r.ok = a.ok /\ r.ids = a.ids
  BY <1>9
<1>11. Paired(v, x.k, r, a)
  BY <1>2, <1>3, <1>4, <1>7, <1>9, <1>10 DEF Paired
<1> DEFINE i == Answered(x.k, a)
<1>12. \/ Alike(j, i)
       \/ v.pc = "bid" /\ Apart(j, i) /\ (j.pc = i.pc => Alike(j, i))
  <2> DEFINE w == Answered(v, r)
  <2>1. \/ Alike(w, i)
        \/ v.pc = "bid" /\ Apart(w, i)
    BY <1>2, <1>11, AnsweredAlike
  <2> HIDE DEF i
  <2>3. \/ Alike(j, i)
        \/ v.pc = "bid" /\ Apart(j, i)
    BY <1>8, <2>1
  <2> USE DEF i
  <2>2. v.pc = "bid" /\ j.pc = i.pc => Alike(j, i)
    BY <1>8, <1>11, BidAlike
  <2> HIDE DEF i
  <2> QED BY <2>2, <2>3
<1>13. Asks(log, x, y, i)
  BY <1>10
<1> HIDE DEF i, m
<1>14. CASE Alike(j, i)
  <2>1. Gap(log, m + 1, x.n["action_request"])
    BY <1>2, <1>3, NoGap
  <2>2. \/ Kept(S, log, Rested(j), m + 1, t.cycles)
        \/ Calling(Rested(j)) /\ ~Matches(log, Rested(j), m + 1)
    BY <1>1, <1>2, <1>3, <1>13, <1>14, <2>1, Landing
  <2> QED BY <1>2, <2>2 DEF Doomed, Misasks
<1>15. CASE j.pc = "end" /\ i.pc = "ask"
  <2>1. Calling(i) /\ ~Calling(j) /\ Shape(i)
    BY <1>13, <1>15 DEF Calling, Asks
  <2>2. /\ y.n["action_request"] = x.n["action_request"] + 1
        /\ y.n["action_request"] <= Len(q)
        /\ q[y.n["action_request"]] = Logged(i)
    BY <1>13, <2>1, AsksCounts
  <2>3. q[m + 1 + 1].what = Request(i).verb /\ q[m + 1 + 1].ids = Request(i).ids
    BY <1>3, <2>1, <2>2, LoggedType
  <2>4. AskLeg(q[m + 1 + 1])
    BY <1>15, <2>1, <2>3, AskLegLogged
  <2>5. m + 1 < Len(q)
    <3>1. log \in Seq(EventSet)
      BY DEF Path
    <3>2. Len(q) \in Nat
      BY <3>1, OnlyType
    <3> QED BY <1>2, <1>3, <2>2, <3>2
  <2> QED BY <1>1, <1>2, <2>1, <2>4, <2>5 DEF Doomed, Misses
<1>16. CASE j.pc = "ask" /\ i.pc = "end"
  <2>1. ~Calling(i) /\ Calling(j)
    BY <1>16 DEF Calling
  <2>2. y.k.pc = "idle" /\ y.n["action_request"] = x.n["action_request"]
    BY <1>13, <2>1, AsksCounts
  <2>3. NoAskNext(log, y)
    BY DEF Path
  <2>4. m + 1 < Len(q) => ~AskLeg(q[m + 1 + 1])
    BY <1>3, <2>2, <2>3 DEF NoAskNext
  <2>5. ASSUME Matches(log, j, m + 1) PROVE FALSE
    <3>1. /\ q[m + 1 + 1].what = Request(j).verb
          /\ q[m + 1 + 1].ids = Request(j).ids
          /\ m + 1 + 1 <= Len(q)
      BY <2>5 DEF Matches
    <3>2. AskLeg(q[m + 1 + 1])
      BY <1>1, <1>16, <2>1, <3>1, AskLegLogged
    <3>3. log \in Seq(EventSet)
      BY DEF Path
    <3>4. Len(q) \in Nat
      BY <3>3, OnlyType
    <3> QED BY <1>2, <2>4, <3>1, <3>2, <3>4
  <2> QED BY <1>1, <1>2, <2>1, <2>5 DEF Doomed, Misasks
<1> QED BY <1>12, <1>14, <1>15, <1>16 DEF Apart

LEMMA ReplyHolds ==
  ASSUME NEW S, NEW e, NEW c, Path(S, e, c, log), e.k.pc = "idle", ResultsOnce(log),
         RequestsSettled(log, {}), NEW v, NEW s, NEW t, Holds(S, log, v, s, t),
         NEW j, NEW s2, NEW t2, Replies(v, s, t, j, s2, t2)
  PROVE  Holds(S, log, Rested(j), s2, t2)
<1>1. Replays(v, s, t) /\ Shape(v) /\ Calling(v) /\ Matches(log, v, t.actions)
  BY DEF Holds, Replays, Replies
<1>2. /\ Replays(Rested(j), s2, t2)
      /\ \E b \in AnswersTo(v) : j = Answered(v, b)
  BY <1>1, ReplyReplays
<1>3. Doomed(log, v, s, t) => Doomed(log, Rested(j), s2, t2)
  BY <1>1, ReplyDoomed
<1>4. Kept(S, log, v, t.actions, t.cycles) /\ v.pc # "swap" =>
         Doomed(log, Rested(j), s2, t2) \/ Kept(S, log, Rested(j), t2.actions, t2.cycles)
  BY <1>1, ReplyCall
<1>5. ASSUME Kept(S, log, v, t.actions, t.cycles), v.pc = "swap"
      PROVE  Kept(S, log, Rested(j), t2.actions, t2.cycles)
  <2>1. log \in Seq(EventSet) /\ \A z \in S : Sound(log, z)
    BY DEF Path
  <2>2. /\ t.actions \in Nat
        /\ t2.cycles = t.cycles /\ t2.actions = t.actions + 1
    BY <1>1 DEF Replies, Replays, TakenSet
  <2> QED BY <1>1, <1>2, <1>5, <2>1, <2>2, ReplySwap
<1> QED BY <1>2, <1>3, <1>4, <1>5 DEF Holds

\* A replay begins where the run did.
LEMMA StartHolds ==
  ASSUME NEW S, NEW e, NEW c \in Starts, NEW lg, Path(S, e, c, lg)
  PROVE  Holds(S, lg, Fresh(c.primary, c.extras), <<>>, NothingTaken)
<1> DEFINE v == Fresh(c.primary, c.extras)
<1> DEFINE t == NothingTaken
<1>1. Shape(v) /\ v.pc = "idle"
  BY FreshShape
<1>2. v.act \in CycleActs
  <2>1. "none" \in CycleActs
    BY DEF CycleActs, Acts
  <2> QED BY <1>1, <2>1 DEF Shape, Fits
<1>3. PICK x \in S : x.k = v /\ \A type \in Replayed : x.n[type] = 0
  BY DEF Path, Starting
<1>4. x.n["decision"] = 0 /\ x.n["action_request"] = 0
  BY <1>3 DEF Replayed
<1>5. t \in TakenSet /\ t.cycles = 0 /\ t.actions = 0
  <2>1. 0 \in Nat /\ FALSE \in BOOLEAN
    OBVIOUS
  <2> QED BY <2>1 DEF NothingTaken, TakenSet
<1>6. <<>> \in Seq(EventSet) /\ Len(<<>>) = 0
  BY EmptySeq
<1>7. /\ Len(Only(<<>>, "decision")) = 0 /\ Len(Only(<<>>, "action_request")) = 0
  BY <1>6, NothingLogged
<1> HIDE DEF v, t
<1>8. ~Calling(v)
  BY <1>1 DEF Calling
<1>9. Replays(v, <<>>, t)
  BY <1>1, <1>2, <1>5, <1>6, <1>7, <1>8 DEF Replays
<1>10. Gap(lg, t.actions, x.n["action_request"])
  <2>1. 0 \in Nat
    OBVIOUS
  <2> QED BY <1>4, <1>5, <2>1, NoGap
<1>11. SamePlace(v, x.k)
  BY <1>3 DEF SamePlace
<1>12. Kept(S, lg, v, t.actions, t.cycles)
  BY <1>1, <1>3, <1>4, <1>5, <1>8, <1>10, <1>11 DEF Kept
<1> QED BY <1>9, <1>12 DEF Holds, v, t

\* A replay that has agreed to the end is where the run ended, but for swaps.
LEMMA EndsAlike ==
  ASSUME NEW S, NEW e, NEW c, NEW lg, Path(S, e, c, lg), e.k.pc = "idle",
         e.n["decision"] = Len(Only(lg, "decision")),
         NEW v, NEW s, NEW t, Holds(S, lg, v, s, t), v.pc = "idle",
         t.cycles = Len(Only(lg, "decision")),
         Only(s, "decision") = Only(lg, "decision"),
         Only(s, "action_request") = Only(lg, "action_request")
  PROVE  /\ SamePlace(v, e.k)
         /\ Gap(lg, Len(Only(lg, "action_request")), e.n["action_request"])
<1> DEFINE m == Len(Only(lg, "action_request"))
<1> DEFINE d == Len(Only(lg, "decision"))
<1>1. ~Calling(v) /\ ~Calling(e.k)
  BY DEF Calling
<1>2. m \in Nat /\ d \in Nat
  <2>1. lg \in Seq(EventSet)
    BY DEF Path
  <2> QED BY <2>1, OnlyType
<1>3. t.actions = m
  <2>1. t.actions \in Nat
    BY DEF Holds, Replays, TakenSet
  <2>2. (IF Calling(v) THEN 1 ELSE 0) = 0
    BY <1>1
  <2>3. m = t.actions + (IF Calling(v) THEN 1 ELSE 0)
    BY DEF Holds, Replays
  <2> HIDE DEF Calling
  <2> QED BY <2>1, <2>2, <2>3
<1>4. ~Doomed(lg, v, s, t)
  <2>1. ~Misdecided(lg, s)
    BY DEF Misdecided
  <2>2. ~Misses(lg, v, t.actions)
    BY <1>2, <1>3 DEF Misses
  <2> QED BY <1>1, <2>1, <2>2 DEF Doomed, Misdecides, Misasks
<1>5. PICK z \in S : /\ z.k.pc = "idle" /\ z.n["decision"] = d
                     /\ SamePlace(v, z.k) /\ Gap(lg, m, z.n["action_request"])
  BY <1>1, <1>3, <1>4 DEF Holds, Kept
<1>6. ASSUME z # e PROVE FALSE
  <2>1. PICK y \in S : Walk(lg, z, y)
    BY <1>6 DEF Path
  <2>2. Shape(z.k)
    BY DEF Path, Sound
  <2>3. PICK j : Asks(lg, z, y, j)
    BY <2>1, <2>2, WalkAsks
  <2>4. CASE Calling(j)
    <3>1. y.k = j /\ y.n["decision"] = d
      BY <1>5, <2>3, <2>4, AsksCounts
    <3>2. Decides(lg, e, y)
      BY DEF Path
    <3> QED BY <1>1, <1>2, <2>4, <3>1, <3>2 DEF Decides
  <2>5. CASE ~Calling(j)
    <3>1. y.n["decision"] = d + 1 /\ y.n["decision"] <= d
      BY <1>5, <2>3, <2>5, AsksCounts
    <3> QED BY <1>2, <3>1
  <2> QED BY <2>4, <2>5
<1> QED BY <1>5, <1>6

-----------------------------------------------------------------------------
(* The specification. *)

ReplayKnows ==
    phase = "replaying" =>
        /\ lost = {} /\ taken.states <= Len(Of("state_observation"))
        /\ \E S, e : /\ Path(S, e, cfg, log) /\ Stands(e)
                     /\ Holds(S, log, rk, rlog, taken)

KnowsInv == AgreeInv /\ LiveKnows /\ ReplayKnows /\ ReplayKnowsPositions

\* Where the path of a run that is over has come to.
LEMMA StandsAt ==
  ASSUME NEW e, Stands(e), k.pc = "idle"
  PROVE  e.k.pc = "idle" /\ e.n["decision"] = Len(Only(log, "decision"))
<1>1. "decision" \in Compared
  BY DEF Compared
<1> QED BY <1>1 DEF Stands, Current, Over

LEMMA StandsOn ==
  ASSUME NEW e, Stands(e), k' = k, log' = log, phase' # "running"
  PROVE  Stands(e)'
BY DEF Stands

LEMMA BeginKnows ==
  ASSUME AuditInv, LiveKnows, ReplayFollows, Begin
  PROVE  ReplayKnows' /\ ReplayKnowsPositions'
<1>1. /\ phase \in {"stopped", "dead"} /\ UNCHANGED live
      /\ phase' \in {"replaying", "replayed"}
  BY DEF Begin
<1>2. cfg' = cfg /\ k' = k /\ log' = log /\ lost' = lost
  BY <1>1 DEF live
<1>3. CASE phase' = "replayed"
  <2>1. taken' = [taken EXCEPT !.error = TRUE] /\ taken = NothingTaken
    BY <1>1, <1>3 DEF Begin, ReplayFollows
  <2>2. taken'.error
    BY <2>1 DEF NothingTaken
  <2> QED BY <1>3, <2>2 DEF ReplayKnows, ReplayKnowsPositions, ReplayOk
<1>4. CASE phase' = "replaying"
  <2>1. /\ ~ \E q \in Events("action_request") :
               \A e \in Events("action_result") : e.req # q.req
        /\ rlog' = <<>> /\ taken' = NothingTaken
        /\ rk' = Fresh(cfg.primary, cfg.extras)
    BY <1>1, <1>4 DEF Begin, ReplayFollows
  <2>2. lost = {}
    <3> SUFFICES ASSUME NEW o \in lost PROVE FALSE
      OBVIOUS
    <3>1. PICK j \in RequestAt(log) : log[j].req = o
      BY DEF AuditInv, Numbered, OpenAsked
    <3>2. PICK i \in ResultAt(log) : log[i].req = o
      BY <2>1, <3>1 DEF RequestAt, ResultAt, Events
    <3> QED BY <3>2 DEF AuditInv, Numbered, ResultsAsked
  <2>3. PICK S, e : Path(S, e, cfg, log) /\ Stands(e)
    BY <2>2 DEF LiveKnows
  <2>4. cfg \in Starts
    BY DEF AuditInv
  <2>5. Holds(S, log, rk', rlog', taken')
    BY <2>1, <2>3, <2>4, StartHolds
  <2>6. Stands(e)'
    BY <1>2, <1>4, <2>3, StandsOn
  <2>7. taken'.states <= Len(Only(log, "state_observation"))
    <3>1. taken'.states = 0
      BY <2>1 DEF NothingTaken
    <3>2. Len(Only(log, "state_observation")) \in Nat
      BY OnlyType DEF AuditInv
    <3> QED BY <3>1, <3>2
  <2>8. ReplayKnows'
    BY <1>2, <2>2, <2>3, <2>5, <2>6, <2>7 DEF ReplayKnows, Of
  <2> QED BY <1>4, <2>8 DEF ReplayKnowsPositions
<1> QED BY <1>1, <1>3, <1>4

\* What a step of the replay may take for granted.
ReplayAt(S, e) ==
    /\ Path(S, e, cfg, log) /\ Stands(e) /\ Holds(S, log, rk, rlog, taken)
    /\ e.k.pc = "idle" /\ e.n["decision"] = Len(Only(log, "decision"))
    /\ ResultsOnce(log) /\ RequestsSettled(log, {}) /\ lost = {}
    /\ taken.states <= Len(Of("state_observation"))

LEMMA ReplayStands ==
  ASSUME AuditInv, LiveKnows, ReplayKnows, phase = "replaying"
  PROVE  \E S, e : ReplayAt(S, e)
<1>1. /\ lost = {} /\ k.pc = "idle"
      /\ taken.states <= Len(Of("state_observation"))
  BY DEF ReplayKnows, LiveKnows
<1>2. PICK S, e : /\ Path(S, e, cfg, log) /\ Stands(e)
                  /\ Holds(S, log, rk, rlog, taken)
  BY DEF ReplayKnows
<1>3. e.k.pc = "idle" /\ e.n["decision"] = Len(Only(log, "decision"))
  BY <1>1, <1>2, StandsAt
<1>4. ResultsOnce(log) /\ RequestsSettled(log, {})
  <2>1. Awaited = {}
    BY DEF Awaited, Recording
  <2>2. lost \cup Awaited = {}
    BY <1>1, <2>1
  <2> QED BY <2>2 DEF AuditInv, Numbered
<1> QED BY <1>1, <1>2, <1>3, <1>4 DEF ReplayAt

\* A read that the log has was a reading.
LEMMA NextStateType ==
  ASSUME log \in Seq(EventSet), taken \in TakenSet,
         taken.states <= Len(Of("state_observation")), NextState.kind = "read"
  PROVE  NextState \in Readings
<1> DEFINE states == Of("state_observation")
<1> DEFINE n == taken.states
<1>1. states \in Seq(EventSet) /\ Len(states) \in Nat /\ n \in Nat
  BY OnlyType DEF Of, TakenSet
<1>2. ASSUME NEW kind \in {"none", "failed", "malformed"}
      PROVE  NoReading(kind).kind # "read"
  BY <1>2 DEF NoReading
<1>3. n # Len(states)
  BY <1>2 DEF NextState
<1>4. states[n + 1].read \in Reads
  <2>1. n + 1 \in 1 .. Len(states)
    BY <1>1, <1>3
  <2> HIDE DEF states, n
  <2>2. states[n + 1] \in EventSet
    <3> HIDE DEF EventSet
    <3> QED BY <1>1, <2>1
  <2> QED BY <2>2 DEF EventSet
<1>5. NextState = states[n + 1].read
  BY <1>2, <1>3 DEF NextState
<1> HIDE DEF states, n
<1>6. NextState \in Reads
  BY <1>4, <1>5
<1>7. ASSUME NextState \notin Readings PROVE FALSE
  <2>1. PICK kind \in {"none", "failed", "malformed"} : NextState = NoReading(kind)
    BY <1>6, <1>7 DEF Reads
  <2> QED BY <1>2, <2>1
<1> QED BY <1>7

LEMMA DriveTakes ==
  ASSUME log \in Seq(EventSet), taken \in TakenSet,
         taken.states <= Len(Of("state_observation")), Drive
  PROVE  \/ phase' = "replayed" /\ taken'.error
         \/ /\ phase' = "replaying" /\ taken' \in TakenSet
            /\ taken'.cycles = taken.cycles + 1 /\ taken'.actions = taken.actions
            /\ taken'.states <= Len(Of("state_observation"))
            /\ \E j : Begun(rk, j) /\ RComes(j)
<1> DEFINE n == Len(Of("state_observation"))
<1> DEFINE sentinels == Of("sentinel_check")
<1> DEFINE there == cfg.path /\ ~rk.halted /\ taken.checks < Len(sentinels)
                      /\ sentinels[taken.checks + 1].ok
<1> DEFINE exhausted == cfg.path /\ ~rk.halted /\ taken.checks = Len(sentinels)
<1> DEFINE checks == IF cfg.path /\ ~rk.halted /\ ~exhausted
                     THEN taken.checks + 1 ELSE taken.checks
<1> DEFINE states == IF rk.halted \/ there \/ exhausted \/ taken.states = n
                     THEN taken.states ELSE taken.states + 1
<1> DEFINE r == NextState
<1>1. /\ taken' = [taken EXCEPT !.cycles = taken.cycles + 1, !.checks = checks,
                                !.states = states, !.error = exhausted]
      /\ phase = "replaying" /\ phase' = IF exhausted THEN "replayed" ELSE phase
      /\ IF exhausted THEN UNCHANGED <<rk, rlog>>
         ELSE IF rk.halted THEN RComes(Ends(rk, "halted"))
         ELSE IF there THEN RComes(Killed(rk))
         ELSE IF r.kind = "read" THEN RComes(Planned(rk, r))
         ELSE RComes(Ends(rk, "no_state"))
  BY DEF Drive
<1>2. /\ taken.cycles \in Nat /\ taken.checks \in Nat /\ taken.states \in Nat
      /\ taken.actions \in Nat
  BY DEF TakenSet
<1>3. n \in Nat
  BY OnlyType DEF Of
<1>4. r.kind = "read" => r \in Readings
  BY NextStateType
<1>5. checks \in Nat
  BY <1>2
<1>6. states \in Nat /\ states <= n
  BY <1>2, <1>3
<1> HIDE DEF checks, states, sentinels, n, r
<1>7. /\ taken'.cycles = taken.cycles + 1 /\ taken'.checks = checks
      /\ taken'.states = states /\ taken'.actions = taken.actions
      /\ taken'.error = exhausted
  <2> HIDE DEF exhausted
  <2> QED BY <1>1 DEF TakenSet
<1>8. CASE exhausted
  BY <1>1, <1>7, <1>8
<1>9. CASE ~exhausted
  <2>1. taken' \in TakenSet
    <3>1. taken.cycles + 1 \in Nat
      BY <1>2
    <3>2. exhausted \in BOOLEAN
      OBVIOUS
    <3> HIDE DEF exhausted
    <3> QED BY <1>1, <1>5, <1>6, <3>1, <3>2 DEF TakenSet
  <2>2. \E j : Begun(rk, j) /\ RComes(j)
    <3> HIDE DEF exhausted, there
    <3> QED BY <1>1, <1>4, <1>9 DEF Begun
  <2>3. phase' = "replaying"
    BY <1>1, <1>9
  <2> QED BY <1>6, <1>7, <2>1, <2>2, <2>3 DEF n
<1> QED BY <1>8, <1>9

LEMMA DriveKnows ==
  ASSUME AuditInv, LiveKnows, ReplayKnows, Drive
  PROVE  ReplayKnows' /\ ReplayKnowsPositions'
<1>1. /\ phase = "replaying" /\ UNCHANGED live /\ rk.pc = "idle"
      /\ taken.cycles < Len(Only(log, "decision"))
  BY DEF Drive, Of
<1>2. cfg' = cfg /\ k' = k /\ log' = log /\ lost' = lost
  BY <1>1 DEF live
<1>3. PICK S, e : ReplayAt(S, e)
  BY <1>1, ReplayStands
<1>4. log \in Seq(EventSet) /\ taken \in TakenSet
  BY <1>3 DEF AuditInv, ReplayAt, Holds, Replays
<1>5. \/ phase' = "replayed" /\ taken'.error
      \/ /\ phase' = "replaying" /\ taken' \in TakenSet
         /\ taken'.cycles = taken.cycles + 1 /\ taken'.actions = taken.actions
         /\ taken'.states <= Len(Of("state_observation"))
         /\ \E j : Begun(rk, j) /\ RComes(j)
  BY <1>3, <1>4, DriveTakes DEF ReplayAt
<1>6. CASE phase' = "replayed" /\ taken'.error
  BY <1>6 DEF ReplayKnows, ReplayKnowsPositions, ReplayOk
<1>7. CASE phase' = "replaying"
  <2>1. PICK j : Begun(rk, j) /\ RComes(j)
    BY <1>5, <1>7
  <2>2. rk' = Rested(j) /\ Drives(rk, rlog, taken, j, rlog', taken')
    BY <1>1, <1>5, <1>7, <2>1 DEF Drives, RComes
  <2>3. Holds(S, log, Rested(j), rlog', taken')
    BY <1>1, <1>3, <2>2, DriveHolds DEF ReplayAt
  <2>4. Stands(e)'
    BY <1>2, <1>3, <1>7, StandsOn DEF ReplayAt
  <2>5. taken'.states <= Len(Only(log, "state_observation"))
    BY <1>5, <1>7 DEF Of
  <2>6. ReplayKnows'
    BY <1>2, <1>3, <2>2, <2>3, <2>4, <2>5 DEF ReplayKnows, ReplayAt, Of
  <2> QED BY <1>7, <2>6 DEF ReplayKnowsPositions
<1> QED BY <1>5, <1>6, <1>7

LEMMA ReplyKnows ==
  ASSUME AuditInv, LiveKnows, ReplayKnows, Reply
  PROVE  ReplayKnows' /\ ReplayKnowsPositions'
<1>1. /\ phase = "replaying" /\ UNCHANGED live /\ Calling(rk)
  BY DEF Reply
<1>2. cfg' = cfg /\ k' = k /\ log' = log /\ lost' = lost
  BY <1>1 DEF live
<1>3. PICK S, e : ReplayAt(S, e)
  BY <1>1, ReplayStands
<1>4. taken \in TakenSet
  BY <1>3 DEF ReplayAt, Holds, Replays
<1>5. CASE ~Matches(log, rk, taken.actions)
  <2>1. phase' = "replayed" /\ taken' = [taken EXCEPT !.error = TRUE]
    BY <1>5 DEF Reply, Matches, Requests, Of
  <2>2. taken'.error
    BY <1>4, <2>1 DEF TakenSet
  <2> QED BY <2>1, <2>2 DEF ReplayKnows, ReplayKnowsPositions, ReplayOk
<1>6. CASE Matches(log, rk, taken.actions)
  <2> DEFINE j == Answered(rk, Recorded(Answer(
                     Only(log, "action_request")[taken.actions + 1].req)))
  <2>1. /\ phase' = phase /\ RComes(j)
        /\ taken' = [taken EXCEPT !.actions = taken.actions + 1]
    BY <1>6 DEF Reply, Matches, Requests, Of
  <2>2. /\ taken' \in TakenSet /\ taken'.cycles = taken.cycles
        /\ taken'.actions = taken.actions + 1 /\ taken'.states = taken.states
    <3>1. taken.actions + 1 \in Nat
      BY <1>4 DEF TakenSet
    <3> QED BY <1>4, <2>1, <3>1 DEF TakenSet
  <2>3. rk' = Rested(j) /\ Replies(rk, rlog, taken, j, rlog', taken')
    BY <1>1, <1>6, <2>1, <2>2 DEF Replies, RComes
  <2> HIDE DEF j
  <2>4. Holds(S, log, Rested(j), rlog', taken')
    BY <1>3, <2>3, ReplyHolds DEF ReplayAt
  <2>5. Stands(e)'
    BY <1>1, <1>2, <1>3, <2>1, StandsOn DEF ReplayAt
  <2>6. ReplayKnows'
    BY <1>2, <1>3, <2>2, <2>3, <2>4, <2>5 DEF ReplayKnows, ReplayAt, Of
  <2> QED BY <1>1, <2>1, <2>6 DEF ReplayKnowsPositions
<1> QED BY <1>5, <1>6

\* A run that withdrew when it stopped has a request that no decision led to.
LEMMA EndsHere ==
  ASSUME NEW S, NEW e, ReplayAt(S, e), k.pc = "idle", rk.pc = "idle",
         taken.cycles = Len(Of("decision")), ReplayOk
  PROVE  SamePlace(rk, k)
<1> DEFINE q == Only(log, "action_request")
<1> DEFINE n == e.n["action_request"]
<1>1. /\ Only(rlog, "decision") = Only(log, "decision")
      /\ Only(rlog, "action_request") = q
  BY DEF ReplayOk, Of
<1>2. SamePlace(rk, e.k) /\ Gap(log, Len(q), n)
  BY <1>1, EndsAlike DEF ReplayAt, Of
<1>3. Current(e, k, log) \/ Over(e, log)
  BY DEF ReplayAt, Stands
<1>4. CASE Current(e, k, log)
  BY <1>2, <1>4 DEF Current, SamePlace
<1>5. CASE Over(e, log)
  <2>1. n < Len(q) /\ q[n + 1].what = "withdraw"
    BY <1>5 DEF Over
  <2>2. n \in Nat /\ Len(q) \in Nat
    <3>1. log \in Seq(EventSet) /\ Sound(log, e) /\ "action_request" \in Replayed
      BY DEF ReplayAt, Path, Replayed
    <3> QED BY <3>1, MarkCounts
  <2>3. n + 1 \in 1 .. Len(q) /\ n < n + 1 /\ n + 1 <= Len(q)
    BY <2>1, <2>2
  <2>4. q[n + 1].what = "swap"
    BY <1>2, <2>3 DEF Gap
  <2> QED BY <2>1, <2>4
<1> QED BY <1>3, <1>4, <1>5

LEMMA FinishKnows ==
  ASSUME AuditInv, LiveKnows, ReplayKnows, Finish
  PROVE  ReplayKnows' /\ ReplayKnowsPositions'
<1>1. /\ phase = "replaying" /\ UNCHANGED live /\ UNCHANGED replay
      /\ rk.pc = "idle" /\ taken.cycles = Len(Of("decision"))
      /\ phase' = "replayed"
  BY DEF Finish
<1>2. k' = k /\ log' = log /\ rk' = rk /\ rlog' = rlog /\ taken' = taken
  BY <1>1 DEF live, replay
<1>3. PICK S, e : ReplayAt(S, e)
  BY <1>1, ReplayStands
<1>4. k.pc = "idle"
  BY <1>1, <1>3 DEF LiveKnows, ReplayAt
<1>5. ReplayOk => SamePlace(rk, k)
  BY <1>1, <1>3, <1>4, EndsHere
<1>6. ReplayOk' => ReplayOk
  BY <1>2 DEF ReplayOk, Of
<1> QED BY <1>1, <1>2, <1>5, <1>6 DEF ReplayKnows, ReplayKnowsPositions, SamePlace

LEMMA KnowsNext == ASSUME KnowsInv, [Next]_vars PROVE KnowsInv'
<1>1. /\ AgreeInv /\ AuditInv /\ LiveKnows /\ ReplayFollows
      /\ ReplayKnows /\ ReplayKnowsPositions
  BY DEF KnowsInv, AgreeInv
<1>2. AgreeInv'
  BY <1>1, AgreeNext
<1>3. CASE Run
  <2>1. LiveKnows'
    BY <1>1, <1>3, RunKnows
  <2>2. phase' \in {"running", "stopping", "stopped", "dead"}
    BY <1>1, <1>3, RunFollows
  <2> QED BY <1>2, <2>1, <2>2 DEF KnowsInv, ReplayKnows, ReplayKnowsPositions
<1>4. CASE Begin \/ Drive \/ Reply \/ Finish
  <2>1. ReplayKnows' /\ ReplayKnowsPositions'
    BY <1>1, <1>4, BeginKnows, DriveKnows, ReplyKnows, FinishKnows
  <2>2. /\ phase \notin {"running", "stopping"}
        /\ phase' \notin {"running", "stopping"} /\ UNCHANGED live
    BY <1>4 DEF Begin, Drive, Reply, Finish
  <2>3. cfg' = cfg /\ k' = k /\ log' = log /\ lost' = lost
    BY <2>2 DEF live
  <2>4. LiveKnows'
    <3> SUFFICES ASSUME lost = {}
                 PROVE  k.pc = "idle" /\ (\E S, e : Path(S, e, cfg, log) /\ Stands(e))'
      BY <2>3 DEF LiveKnows
    <3>1. k.pc = "idle"
      BY <1>1, <2>2 DEF LiveKnows
    <3>2. PICK S, e : Path(S, e, cfg, log) /\ Stands(e)
      BY <1>1 DEF LiveKnows
    <3>3. Stands(e)'
      BY <2>2, <2>3, <3>2, StandsOn
    <3> QED BY <2>3, <3>1, <3>2, <3>3
  <2> QED BY <1>2, <2>1, <2>4 DEF KnowsInv
<1>5. CASE UNCHANGED vars
  <2>1. /\ cfg' = cfg /\ k' = k /\ log' = log /\ lost' = lost /\ phase' = phase
        /\ rk' = rk /\ rlog' = rlog /\ taken' = taken
    BY <1>5 DEF vars, live, replay
  <2>2. LiveKnows'
    BY <1>1, <2>1 DEF LiveKnows, Stands
  <2>3. ReplayKnows'
    BY <1>1, <2>1 DEF ReplayKnows, Stands, Of
  <2>4. ReplayKnowsPositions'
    BY <1>1, <2>1 DEF ReplayKnowsPositions, ReplayOk, Of
  <2> QED BY <1>2, <2>2, <2>3, <2>4 DEF KnowsInv
<1> QED BY <1>3, <1>4, <1>5 DEF Next

\* A replay (replay.py) that raises nothing and makes the decisions and the
\* requests of the log, whatever happened in the run, ends with the positions the
\* keeper of the run ended with, at the bin of the same center.
THEOREM ReplaysKnowPositions == Spec => []ReplayKnowsPositions
<1>1. Init => KnowsInv
  <2>1. ASSUME Init PROVE KnowsInv
    <3>1. phase = "running" /\ AgreeInv /\ LiveKnows
      BY <2>1, AgreeInit, KnowsInit DEF Init
    <3> QED BY <3>1 DEF KnowsInv, ReplayKnows, ReplayKnowsPositions
  <2> QED BY <2>1
<1>2. KnowsInv /\ [Next]_vars => KnowsInv'
  BY KnowsNext
<1>3. KnowsInv => ReplayKnowsPositions
  BY DEF KnowsInv
<1> QED BY <1>1, <1>2, <1>3, PTL DEF Spec
=============================================================================
