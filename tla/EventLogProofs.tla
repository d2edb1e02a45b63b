---------------------------- MODULE EventLogProofs ----------------------------
(***************************************************************************)
(* Proofs about EventLog, for any number of runs, opens, emits and faults: *)
(* a run whose emits all returned reads back, a damaged log that reads     *)
(* back is the beginning of the one that was written, and a log that reads *)
(* back holds every event that was acknowledged.                           *)
(*                                                                         *)
(* The numbers, links and hashes of a line are followed through every way  *)
(* a write can stop short.                                                 *)
(***************************************************************************)
EXTENDS EventLog, OrderedProofs

RunIds == Runs \cup {NoRun, PathRun}
ConfigHashes == Configs \cup {NoConfig}
Line == [seq : Nat, prev : 0 .. MaxEmits, tok : 0 .. MaxEmits, run : RunIds,
         config : ConfigHashes, stop : BOOLEAN, whole : BOOLEAN, newline : BOOLEAN]
Writer == [seq : Nat, prev : 0 .. MaxEmits, run : RunIds, config : ConfigHashes]

\* Only an open log has anything in its buffer, and only a buffered line is on
\* disk in part; a damaged file is not opened again.
TypeInv ==
    /\ emits \in 0 .. MaxEmits /\ w \in Writer /\ buffer \in Seq(Line)
    /\ begun \in BOOLEAN /\ up \in BOOLEAN
    /\ intact = <<>> => file \in Seq(Line)
    /\ begun => file # <<>> /\ buffer # <<>>
    /\ ~up => buffer = <<>> /\ ~begun
    /\ intact # <<>> => ~up

-----------------------------------------------------------------------------
(* What a write makes of the file                                          *)

\* The last line on disk is a part of the first one in the buffer, and not
\* glued to a line before it.
Partial == begun /\ Last(file).tok # None

\* The lines that the next write leaves as they are, but for a newline.
Settled == IF Partial THEN Front(file) ELSE file

\* Front and Last put together again.
LEMMA FrontLast ==
    ASSUME NEW S, NEW s \in Seq(S), s # <<>>
    PROVE  /\ Front(s) \in Seq(S) /\ Len(Front(s)) = Len(s) - 1
           /\ Last(s) \in S /\ Len(s) \in DOMAIN s /\ Len(s) >= 1
           /\ \A i \in DOMAIN Front(s) : Front(s)[i] = s[i] /\ i \in DOMAIN s
<1>1. Len(s) >= 1 /\ Len(s) \in Nat /\ DOMAIN s = 1 .. Len(s)
  BY EmptySeq
<1>2. Last(s) \in S /\ Len(s) \in DOMAIN s
  BY <1>1, ElementOfSeq DEF Last
<1>3. /\ Front(s) \in Seq(S) /\ Len(Front(s)) = Len(s) - 1
      /\ \A i \in 1 .. Len(s) - 1 : Front(s)[i] = s[i]
  BY <1>1, SubSeqProperties DEF Front
<1> QED
  BY <1>1, <1>2, <1>3

LEMMA SettledType ==
    ASSUME file \in Seq(Line), begun => file # <<>>
    PROVE  Settled \in Seq(Line)
BY FrontLast DEF Settled, Partial

\* A sequence, one element and a sequence, put together.
LEMMA Joined ==
    ASSUME NEW S, NEW f \in Seq(S), NEW m \in S, NEW t \in Seq(S)
    PROVE  /\ f \o <<m>> \o t \in Seq(S)
           /\ Len(f \o <<m>> \o t) = Len(f) + 1 + Len(t)
           /\ \A i \in 1 .. Len(f) : (f \o <<m>> \o t)[i] = f[i]
           /\ (f \o <<m>> \o t)[Len(f) + 1] = m
           /\ \A k \in 1 .. Len(t) : (f \o <<m>> \o t)[Len(f) + 1 + k] = t[k]
OBVIOUS

\* Two lines made one: garbage that keeps its number.
LEMMA MergedType ==
    ASSUME NEW a \in Line, NEW b \in Line
    PROVE  /\ Merged(a, b) \in Line
           /\ Merged(a, b).seq = a.seq /\ Merged(a, b).tok = None
           /\ ~Merged(a, b).whole
<1>1. [a EXCEPT !.tok = 0] \in Line /\ [a EXCEPT !.tok = 0].seq = a.seq
      /\ [a EXCEPT !.tok = 0].tok = 0
  BY BoundAssumption DEF Line
<1>2. ASSUME NEW c \in Line
      PROVE  /\ [c EXCEPT !.whole = FALSE] \in Line
             /\ [c EXCEPT !.whole = FALSE].seq = c.seq
             /\ [c EXCEPT !.whole = FALSE].tok = c.tok
             /\ ~[c EXCEPT !.whole = FALSE].whole
  BY DEF Line
<1>3. ASSUME NEW c \in Line
      PROVE  /\ [c EXCEPT !.newline = b.newline] \in Line
             /\ [c EXCEPT !.newline = b.newline].seq = c.seq
             /\ [c EXCEPT !.newline = b.newline].tok = c.tok
             /\ [c EXCEPT !.newline = b.newline].whole = c.whole
  <2>1. b.newline \in BOOLEAN
    BY DEF Line
  <2> QED
    BY <2>1 DEF Line
<1>4. Merged(a, b) =
        [[[a EXCEPT !.tok = 0] EXCEPT !.whole = FALSE] EXCEPT !.newline = b.newline]
  BY DEF Merged, None
<1> DEFINE c == [a EXCEPT !.tok = 0]
           d == [c EXCEPT !.whole = FALSE]
<1>5. c \in Line /\ c.seq = a.seq /\ c.tok = 0
  BY <1>1
<1> HIDE DEF c
<1>6. d \in Line /\ d.seq = a.seq /\ d.tok = 0 /\ ~d.whole
  BY <1>2, <1>5
<1> HIDE DEF d
<1>7. /\ [d EXCEPT !.newline = b.newline] \in Line
      /\ [d EXCEPT !.newline = b.newline].seq = a.seq
      /\ [d EXCEPT !.newline = b.newline].tok = 0
      /\ ~[d EXCEPT !.newline = b.newline].whole
  BY <1>3, <1>6
<1> QED
  BY <1>4, <1>7 DEF c, d, None

\* A write puts its lines behind the settled ones, or the first of them is lost
\* in the line before it.
LEMMA WrittenShape ==
    ASSUME file \in Seq(Line), begun => file # <<>>,
           NEW ls \in Seq(Line), ls # <<>>
    PROVE  \/ Written(ls) = Settled \o ls
           \/ /\ Settled = file /\ file # <<>>
              /\ Written(ls) = Front(file) \o <<Merged(Last(file), Head(ls))>> \o Tail(ls)
BY DEF Written, Settled, Partial

\* With nothing to write, nothing is written.
LEMMA NothingWritten == Written(<<>>) = file
BY DEF Written

\* What is known of a write that merges no two lines, line by line.
LEMMA WrittenMerged ==
    ASSUME file \in Seq(Line), file # <<>>, NEW ls \in Seq(Line), ls # <<>>,
           Written(ls) = Front(file) \o <<Merged(Last(file), Head(ls))>> \o Tail(ls)
    PROVE  /\ Written(ls) \in Seq(Line)
           /\ Len(Written(ls)) = Len(file) + Len(ls) - 1
           /\ \A i \in 1 .. Len(file) - 1 : Written(ls)[i] = file[i]
           /\ Written(ls)[Len(file)].seq = file[Len(file)].seq
           /\ Written(ls)[Len(file)].tok = None
           /\ ~Written(ls)[Len(file)].whole
           /\ \A k \in 2 .. Len(ls) : Written(ls)[Len(file) + k - 1] = ls[k]
<1>1. /\ Front(file) \in Seq(Line) /\ Len(Front(file)) = Len(file) - 1
      /\ Len(file) \in Nat /\ Len(file) >= 1
      /\ \A i \in 1 .. Len(file) - 1 : Front(file)[i] = file[i]
  <2>1. DOMAIN Front(file) = 1 .. Len(file) - 1
    BY FrontLast, LenProperties
  <2> QED
    BY FrontLast, LenProperties, <2>1
<1>2. /\ Merged(Last(file), Head(ls)) \in Line
      /\ Merged(Last(file), Head(ls)).seq = file[Len(file)].seq
      /\ Merged(Last(file), Head(ls)).tok = None
      /\ ~Merged(Last(file), Head(ls)).whole
  BY FrontLast, MergedType, HeadTailProperties DEF Last
<1>3. /\ Tail(ls) \in Seq(Line) /\ Len(Tail(ls)) = Len(ls) - 1 /\ Len(ls) \in Nat
      /\ Len(ls) >= 1 /\ \A k \in 1 .. Len(ls) - 1 : Tail(ls)[k] = ls[k + 1]
  BY HeadTailProperties, LenProperties, EmptySeq
<1>4. ASSUME NEW F \in Seq(Line), NEW m \in Line, NEW T \in Seq(Line),
             Len(F) = Len(file) - 1, Len(T) = Len(ls) - 1,
             \A i \in 1 .. Len(file) - 1 : F[i] = file[i],
             \A k \in 1 .. Len(ls) - 1 : T[k] = ls[k + 1],
             Written(ls) = F \o <<m>> \o T
      PROVE  /\ Written(ls) \in Seq(Line)
             /\ Len(Written(ls)) = Len(file) + Len(ls) - 1
             /\ \A i \in 1 .. Len(file) - 1 : Written(ls)[i] = file[i]
             /\ Written(ls)[Len(file)] = m
             /\ \A k \in 2 .. Len(ls) : Written(ls)[Len(file) + k - 1] = ls[k]
  <2>1. /\ Written(ls) \in Seq(Line)
        /\ Len(Written(ls)) = Len(F) + 1 + Len(T)
        /\ \A i \in 1 .. Len(F) : Written(ls)[i] = F[i]
        /\ Written(ls)[Len(F) + 1] = m
        /\ \A k \in 1 .. Len(T) : Written(ls)[Len(F) + 1 + k] = T[k]
    <3>1. /\ F \o <<m>> \o T \in Seq(Line)
          /\ Len(F \o <<m>> \o T) = Len(F) + 1 + Len(T)
          /\ \A i \in 1 .. Len(F) : (F \o <<m>> \o T)[i] = F[i]
          /\ (F \o <<m>> \o T)[Len(F) + 1] = m
          /\ \A k \in 1 .. Len(T) : (F \o <<m>> \o T)[Len(F) + 1 + k] = T[k]
      BY Joined
    <3>2. Written(ls) = F \o <<m>> \o T
      BY <1>4
    <3> QED
      BY <3>1, <3>2, Zenon
  <2>2. Len(F) + 1 = Len(file)
    BY <1>1, <1>4
  <2>3. ASSUME NEW k \in 2 .. Len(ls) PROVE Written(ls)[Len(file) + k - 1] = ls[k]
    <3>1. k - 1 \in 1 .. Len(T) /\ Len(F) + 1 + (k - 1) = Len(file) + k - 1
          /\ (k - 1) + 1 = k
      BY <1>1, <1>3, <1>4
    <3>2. Written(ls)[Len(F) + 1 + (k - 1)] = ls[(k - 1) + 1]
      BY <1>4, <2>1, <3>1
    <3> QED
      BY <3>1, <3>2
  <2> QED
    BY <1>1, <1>3, <1>4, <2>1, <2>2, <2>3
<1> QED
  BY <1>1, <1>2, <1>3, <1>4
-----------------------------------------------------------------------------
(* The order of the numbers                                                *)

\* The numbers of a list of lines go up, and start at 1 or later.
Growing(s) ==
    /\ \A i \in DOMAIN s : s[i].seq >= 1
    /\ \A i, j \in DOMAIN s : i < j => s[i].seq < s[j].seq
Below(s, t) == \A i \in DOMAIN s, j \in DOMAIN t : s[i].seq < t[j].seq
UpToNumber(s, n) == \A i \in DOMAIN s : s[i].seq <= n

\* Each line in the range has the number of a line of s, or of one of the
\* first n of t.
From(r, last, s, t, n) ==
    \A i \in 1 .. last : \/ \E j \in DOMAIN s : r[i].seq = s[j].seq
                         \/ \E k \in 1 .. n : r[i].seq = t[k].seq

LEMMA LineSeq == ASSUME NEW s \in Seq(Line), NEW i \in DOMAIN s PROVE s[i].seq \in Nat
<1>1. s[i] \in Line
  BY LenProperties, ElementOfSeq
<1> QED
  BY <1>1 DEF Line

LEMMA ConcatGrowing ==
    ASSUME NEW s \in Seq(Line), NEW t \in Seq(Line), t # <<>>,
           Growing(s), Growing(t), Below(s, t)
    PROVE  /\ s \o t \in Seq(Line) /\ Len(s \o t) = Len(s) + Len(t)
           /\ Growing(s \o t)
           /\ From(s \o t, Len(s) + Len(t) - 1, s, t, Len(t) - 1)
           /\ (s \o t)[Len(s) + Len(t)] = t[Len(t)]
<1> DEFINE r == s \o t
<1>1. /\ r \in Seq(Line) /\ Len(r) = Len(s) + Len(t)
      /\ \A i \in 1 .. Len(s) + Len(t) : r[i] = IF i <= Len(s) THEN s[i] ELSE t[i - Len(s)]
      /\ Len(s) \in Nat /\ Len(t) \in Nat /\ Len(t) >= 1
  BY ConcatProperties, LenProperties, EmptySeq
<1> HIDE DEF r
<1>2. DOMAIN r = 1 .. Len(s) + Len(t) /\ DOMAIN s = 1 .. Len(s) /\ DOMAIN t = 1 .. Len(t)
  BY <1>1, LenProperties
<1>3. ASSUME NEW i \in DOMAIN r
      PROVE  \/ i \in DOMAIN s /\ i <= Len(s) /\ r[i] = s[i]
             \/ i - Len(s) \in DOMAIN t /\ i > Len(s) /\ r[i] = t[i - Len(s)]
  BY <1>1, <1>2, <1>3
<1>4. ASSUME NEW i \in DOMAIN r, NEW j \in DOMAIN r, i < j
      PROVE  r[i].seq < r[j].seq
  <2>1. CASE i \in DOMAIN s /\ i <= Len(s) /\ r[i] = s[i]
    BY <1>2, <1>3, <1>4, <2>1 DEF Growing, Below
  <2>2. CASE i - Len(s) \in DOMAIN t /\ i > Len(s) /\ r[i] = t[i - Len(s)]
    <3>1. j - Len(s) \in DOMAIN t /\ r[j] = t[j - Len(s)] /\ i - Len(s) < j - Len(s)
      BY <1>1, <1>2, <1>3, <1>4, <2>2
    <3> QED
      BY <2>2, <3>1 DEF Growing
  <2> QED
    BY <1>3, <2>1, <2>2
<1>5. \A i \in DOMAIN r : r[i].seq >= 1
  BY <1>3 DEF Growing
<1>6. ASSUME NEW i \in 1 .. Len(s) + Len(t) - 1
      PROVE  \/ \E j \in DOMAIN s : r[i].seq = s[j].seq
             \/ \E k \in 1 .. Len(t) - 1 : r[i].seq = t[k].seq
  <2>1. i \in DOMAIN r
    BY <1>1, <1>2
  <2>2. CASE i \in DOMAIN s /\ i <= Len(s) /\ r[i] = s[i]
    BY <2>2
  <2>3. CASE i - Len(s) \in DOMAIN t /\ i > Len(s) /\ r[i] = t[i - Len(s)]
    <3>1. i - Len(s) \in 1 .. Len(t) - 1
      BY <1>1, <1>2, <2>3
    <3> QED
      BY <2>3, <3>1
  <2> QED
    BY <1>3, <2>1, <2>2, <2>3
<1>7. r[Len(s) + Len(t)] = t[Len(t)]
  BY <1>1
<1> QED
  BY <1>1, <1>4, <1>5, <1>6, <1>7 DEF r, Growing, From

\* The same where the first line of t is lost in the last one of s.
LEMMA MergeGrowing ==
    ASSUME NEW s \in Seq(Line), s # <<>>, NEW t \in Seq(Line), t # <<>>,
           Growing(s), Growing(t), Below(s, t),
           NEW r \in Seq(Line), Len(r) = Len(s) + Len(t) - 1,
           \A i \in 1 .. Len(s) - 1 : r[i] = s[i],
           r[Len(s)].seq = s[Len(s)].seq, r[Len(s)].tok = None,
           \A k \in 2 .. Len(t) : r[Len(s) + k - 1] = t[k]
    PROVE  /\ Growing(r)
           /\ From(r, Len(r) - 1, s, t, Len(t) - 1)
           /\ \/ r[Len(r)] = t[Len(t)]
              \/ /\ Len(t) = 1 /\ r[Len(r)].tok = None
                 /\ r[Len(r)].seq = s[Len(s)].seq
<1>1. /\ Len(s) \in Nat /\ Len(s) >= 1 /\ Len(t) \in Nat /\ Len(t) >= 1
      /\ DOMAIN s = 1 .. Len(s) /\ DOMAIN t = 1 .. Len(t)
      /\ DOMAIN r = 1 .. Len(s) + Len(t) - 1
  BY LenProperties, EmptySeq
<1>2. ASSUME NEW i \in DOMAIN r
      PROVE  \/ i \in DOMAIN s /\ i <= Len(s) /\ r[i].seq = s[i].seq
             \/ /\ i - Len(s) + 1 \in DOMAIN t /\ i > Len(s)
                /\ r[i] = t[i - Len(s) + 1]
  <2>1. CASE i <= Len(s)
    <3>1. i = Len(s) \/ i \in 1 .. Len(s) - 1
      BY <1>1, <2>1
    <3>2. i \in DOMAIN s
      BY <1>1, <2>1
    <3> QED
      BY <2>1, <3>1, <3>2
  <2>2. CASE i > Len(s)
    <3>1. i - Len(s) + 1 \in 2 .. Len(t) /\ Len(s) + (i - Len(s) + 1) - 1 = i
      BY <1>1, <2>2
    <3> QED
      BY <1>1, <2>2, <3>1
  <2> QED
    BY <1>1, <2>1, <2>2
<1>3. ASSUME NEW i \in DOMAIN r, NEW j \in DOMAIN r, i < j
      PROVE  r[i].seq < r[j].seq
  <2>1. CASE i \in DOMAIN s /\ i <= Len(s) /\ r[i].seq = s[i].seq
    BY <1>1, <1>2, <1>3, <2>1 DEF Growing, Below
  <2>2. CASE i - Len(s) + 1 \in DOMAIN t /\ i > Len(s) /\ r[i] = t[i - Len(s) + 1]
    <3>1. /\ j - Len(s) + 1 \in DOMAIN t /\ r[j] = t[j - Len(s) + 1]
          /\ i - Len(s) + 1 < j - Len(s) + 1
      BY <1>1, <1>2, <1>3, <2>2
    <3> QED
      BY <2>2, <3>1 DEF Growing
  <2> QED
    BY <1>2, <2>1, <2>2
<1>4. \A i \in DOMAIN r : r[i].seq >= 1
  BY <1>2 DEF Growing
<1>5. ASSUME NEW i \in 1 .. Len(r) - 1
      PROVE  \/ \E j \in DOMAIN s : r[i].seq = s[j].seq
             \/ \E k \in 1 .. Len(t) - 1 : r[i].seq = t[k].seq
  <2>1. i \in DOMAIN r
    BY <1>1
  <2>2. CASE i \in DOMAIN s /\ i <= Len(s) /\ r[i].seq = s[i].seq
    BY <2>2
  <2>3. CASE i - Len(s) + 1 \in DOMAIN t /\ i > Len(s) /\ r[i] = t[i - Len(s) + 1]
    <3>1. i - Len(s) + 1 \in 1 .. Len(t) - 1
      BY <1>1, <2>3
    <3> QED
      BY <2>3, <3>1
  <2> QED
    BY <1>2, <2>1, <2>2, <2>3
<1>6. \/ r[Len(r)] = t[Len(t)]
      \/ /\ Len(t) = 1 /\ r[Len(r)].tok = None
         /\ r[Len(r)].seq = s[Len(s)].seq
  <2>1. CASE Len(t) = 1
    BY <1>1, <2>1
  <2>2. CASE Len(t) # 1
    <3>1. Len(t) \in 2 .. Len(t)
      BY <1>1, <2>2
    <3> QED
      BY <3>1
  <2> QED
    BY <2>1, <2>2
<1> QED
  BY <1>3, <1>4, <1>5, <1>6 DEF Growing, From
\* The settled lines are lines of the file.
LEMMA SettledOrder ==
    ASSUME file \in Seq(Line), begun => file # <<>>, Growing(file)
    PROVE  /\ Settled \in Seq(Line) /\ Growing(Settled)
           /\ \A i \in DOMAIN Settled : i \in DOMAIN file /\ Settled[i] = file[i]
<1>1. CASE Partial
  <2>1. Settled = Front(file) /\ file # <<>>
    BY <1>1 DEF Settled, Partial
  <2>2. \A i \in DOMAIN Settled : i \in DOMAIN file /\ Settled[i] = file[i]
    BY <2>1, FrontLast
  <2> QED
    BY <2>2, SettledType DEF Growing
<1>2. CASE ~Partial
  BY <1>2, SettledType DEF Settled
<1> QED
  BY <1>1, <1>2

\* A write keeps the numbers going up, and ends with the last line it was given
\* or with the garbage its only line was lost in.
LEMMA WrittenOrder ==
    ASSUME file \in Seq(Line), begun => file # <<>>, Growing(file),
           NEW ls \in Seq(Line), ls # <<>>, Growing(ls), Below(Settled, ls),
           NEW r, r = Written(ls)
    PROVE  /\ r \in Seq(Line) /\ Len(r) >= 1 /\ Growing(r)
           /\ From(r, Len(r) - 1, Settled, ls, Len(ls) - 1)
           /\ \/ r[Len(r)] = ls[Len(ls)]
              \/ /\ Len(ls) = 1 /\ r[Len(r)].tok = None
                 /\ \E j \in DOMAIN Settled : r[Len(r)].seq = Settled[j].seq
<1>1. Settled \in Seq(Line) /\ Growing(Settled)
  BY SettledOrder
<1>2. Len(ls) \in Nat /\ Len(ls) >= 1
  BY EmptySeq
<1>3. CASE r = Settled \o ls
  <2>1. /\ r \in Seq(Line) /\ Len(r) = Len(Settled) + Len(ls) /\ Growing(r)
        /\ From(r, Len(Settled) + Len(ls) - 1, Settled, ls, Len(ls) - 1)
        /\ r[Len(Settled) + Len(ls)] = ls[Len(ls)]
    BY <1>1, <1>3, ConcatGrowing
  <2>2. Len(r) >= 1
    BY <1>1, <1>2, <2>1, LenProperties
  <2> QED
    BY <2>1, <2>2
<1>4. CASE /\ Settled = file /\ file # <<>>
           /\ r = Front(file) \o <<Merged(Last(file), Head(ls))>> \o Tail(ls)
  <2>1. /\ r \in Seq(Line) /\ Len(r) = Len(file) + Len(ls) - 1
        /\ \A i \in 1 .. Len(file) - 1 : r[i] = file[i]
        /\ r[Len(file)].seq = file[Len(file)].seq
        /\ r[Len(file)].tok = None
        /\ \A k \in 2 .. Len(ls) : r[Len(file) + k - 1] = ls[k]
    <3>1. /\ file # <<>>
          /\ Written(ls) = Front(file) \o <<Merged(Last(file), Head(ls))>> \o Tail(ls)
      BY <1>4
    <3>2. /\ Written(ls) \in Seq(Line)
          /\ Len(Written(ls)) = Len(file) + Len(ls) - 1
          /\ \A i \in 1 .. Len(file) - 1 : Written(ls)[i] = file[i]
          /\ Written(ls)[Len(file)].seq = file[Len(file)].seq
          /\ Written(ls)[Len(file)].tok = None
          /\ \A k \in 2 .. Len(ls) : Written(ls)[Len(file) + k - 1] = ls[k]
      BY <3>1, WrittenMerged, Zenon
    <3> QED
      BY <3>2, Zenon
  <2>2. Len(file) \in DOMAIN file /\ Len(file) >= 1 /\ Len(file) \in Nat
    BY <1>4, FrontLast, LenProperties
  <2>3. /\ Growing(r) /\ From(r, Len(r) - 1, file, ls, Len(ls) - 1)
        /\ \/ r[Len(r)] = ls[Len(ls)]
           \/ /\ Len(ls) = 1 /\ r[Len(r)].tok = None
              /\ r[Len(r)].seq = file[Len(file)].seq
    <3>1. Below(file, ls)
      BY <1>4
    <3> QED
      BY <1>4, <2>1, <3>1, MergeGrowing
  <2>4. Len(r) >= 1
    BY <1>2, <2>1, <2>2
  <2> QED
    BY <1>4, <2>1, <2>2, <2>3, <2>4
<1> QED
  BY <1>3, <1>4, WrittenShape

\* No number on disk is larger than the largest that was there or was written.
LEMMA WrittenBound ==
    ASSUME file \in Seq(Line), begun => file # <<>>, Growing(file),
           NEW ls \in Seq(Line), ls # <<>>, Growing(ls), Below(Settled, ls),
           NEW n, UpToNumber(file, n), UpToNumber(ls, n)
    PROVE  UpToNumber(Written(ls), n)
<1> DEFINE r == Written(ls)
<1>1. /\ r \in Seq(Line) /\ Len(r) >= 1
      /\ From(r, Len(r) - 1, Settled, ls, Len(ls) - 1)
      /\ \/ r[Len(r)] = ls[Len(ls)]
         \/ \E j \in DOMAIN Settled : r[Len(r)].seq = Settled[j].seq
  BY WrittenOrder
<1> HIDE DEF r
<1>2. \A j \in DOMAIN Settled : Settled[j].seq <= n
  BY SettledOrder DEF UpToNumber
<1>3. DOMAIN r = 1 .. Len(r) /\ Len(r) \in Nat
      /\ DOMAIN ls = 1 .. Len(ls) /\ Len(ls) \in Nat /\ Len(ls) >= 1
  BY <1>1, LenProperties, EmptySeq
<1>4. \A k \in 1 .. Len(ls) : ls[k].seq <= n
  BY <1>3 DEF UpToNumber
<1>5. ASSUME NEW i \in DOMAIN r PROVE r[i].seq <= n
  <2>1. CASE i = Len(r)
    BY <1>1, <1>2, <1>3, <1>4, <2>1
  <2>2. CASE i \in 1 .. Len(r) - 1
    <3>1. \/ \E j \in DOMAIN Settled : r[i].seq = Settled[j].seq
          \/ \E k \in 1 .. Len(ls) - 1 : r[i].seq = ls[k].seq
      BY <1>1, <2>2 DEF From
    <3>2. \A k \in 1 .. Len(ls) - 1 : k \in 1 .. Len(ls)
      BY <1>3
    <3> QED
      BY <1>2, <1>4, <3>1, <3>2
  <2> QED
    BY <1>3, <2>1, <2>2
<1> QED
  BY <1>5 DEF r, UpToNumber
\* What is on disk of a write that stops short at s: the first lines, and of
\* the next one nothing, or a part that keeps its number and token.
LEMMA UpToShape ==
    ASSUME NEW ls \in Seq(Line), NEW s \in Stops(ls)
    PROVE  /\ s.n \in 0 .. Len(ls) - 1 /\ s.n + 1 \in DOMAIN ls
           /\ UpTo(ls, s) \in Seq(Line)
           /\ s.cut = "none" => Len(UpTo(ls, s)) = s.n
           /\ s.cut # "none" => Len(UpTo(ls, s)) = s.n + 1
           /\ \A i \in 1 .. Len(UpTo(ls, s)) :
                 /\ i \in DOMAIN ls
                 /\ UpTo(ls, s)[i].seq = ls[i].seq
                 /\ UpTo(ls, s)[i].tok = ls[i].tok
<1>1. /\ s.n \in 0 .. Len(ls) - 1 /\ s.cut \in {"none", "torn", "bare"}
      /\ Len(ls) \in Nat /\ DOMAIN ls = 1 .. Len(ls)
  BY LenProperties DEF Stops
<1>2. s.n \in Nat /\ s.n + 1 \in 1 .. Len(ls)
  BY <1>1
<1> DEFINE head == SubSeq(ls, 1, s.n)
           part == [ls[s.n + 1] EXCEPT !.whole = s.cut = "bare", !.newline = FALSE]
<1>3. /\ head \in Seq(Line) /\ Len(head) = s.n
      /\ \A i \in 1 .. s.n : head[i] = ls[i]
  <2>1. \A i \in 1 .. s.n : ls[i] \in Line
    BY <1>1, <1>2, ElementOfSeq
  <2>2. s.n - 1 + 1 = s.n /\ \A i \in 1 .. s.n : 1 + i - 1 = i
    BY <1>2
  <2> QED
    BY <1>2, <2>1, <2>2, SubSeqProperties
<1>4. part \in Line /\ part.seq = ls[s.n + 1].seq /\ part.tok = ls[s.n + 1].tok
  <2>1. ls[s.n + 1] \in Line
    BY <1>2, ElementOfSeq
  <2>2. ASSUME NEW a \in Line, NEW b \in BOOLEAN
        PROVE  /\ [a EXCEPT !.whole = b] \in Line
               /\ [a EXCEPT !.whole = b].seq = a.seq
               /\ [a EXCEPT !.whole = b].tok = a.tok
    BY <2>2 DEF Line
  <2>3. ASSUME NEW a \in Line
        PROVE  /\ [a EXCEPT !.newline = FALSE] \in Line
               /\ [a EXCEPT !.newline = FALSE].seq = a.seq
               /\ [a EXCEPT !.newline = FALSE].tok = a.tok
    BY <2>3 DEF Line
  <2>4. (s.cut = "bare") \in BOOLEAN
    OBVIOUS
  <2> DEFINE c == [ls[s.n + 1] EXCEPT !.whole = s.cut = "bare"]
  <2>5. c \in Line /\ c.seq = ls[s.n + 1].seq /\ c.tok = ls[s.n + 1].tok
    BY <2>1, <2>2, <2>4
  <2>6. part = [c EXCEPT !.newline = FALSE]
    OBVIOUS
  <2> HIDE DEF c, part
  <2> QED
    BY <2>3, <2>5, <2>6
<1> HIDE DEF head, part
<1>5. CASE s.cut = "none"
  <2>1. UpTo(ls, s) = head \o <<>>
    BY <1>5 DEF UpTo, head
  <2>2. UpTo(ls, s) = head
    BY <1>3, <2>1, ConcatEmptySeq
  <2> QED
    BY <1>1, <1>2, <1>3, <1>5, <2>2
<1>6. CASE s.cut # "none"
  <2>1. UpTo(ls, s) = head \o <<part>>
    BY <1>6 DEF UpTo, head, part
  <2>2. /\ head \o <<part>> \in Seq(Line) /\ Len(head \o <<part>>) = s.n + 1
        /\ \A i \in 1 .. s.n + 1 :
              (head \o <<part>>)[i] = IF i <= s.n THEN ls[i] ELSE part
    BY <1>2, <1>3, <1>4
  <2> QED
    BY <1>1, <1>2, <1>4, <1>6, <2>1, <2>2
<1> QED
  BY <1>5, <1>6

\* What is left of a list of lines goes up, and lies above what came before it.
LEMMA RestGrowing ==
    ASSUME NEW ls \in Seq(Line), Growing(ls), NEW n \in 0 .. Len(ls) - 1,
           NEW rest, rest = SubSeq(ls, n + 1, Len(ls))
    PROVE  /\ rest \in Seq(Line) /\ rest # <<>> /\ Growing(rest)
           /\ 1 \in DOMAIN rest /\ rest[1] = ls[n + 1] /\ Head(rest) = ls[n + 1]
           /\ \A k \in DOMAIN rest : n + k \in DOMAIN ls /\ rest[k] = ls[n + k]
<1>1. Len(ls) \in Nat /\ DOMAIN ls = 1 .. Len(ls)
  BY LenProperties
<1>2. /\ rest \in Seq(Line) /\ Len(rest) = Len(ls) - n
      /\ \A k \in 1 .. Len(ls) - n : rest[k] = ls[n + k]
  <2>1. \A i \in n + 1 .. Len(ls) : ls[i] \in Line
    BY <1>1, ElementOfSeq
  <2>2. /\ n + 1 \in Int /\ n + 1 <= Len(ls) /\ Len(ls) - (n + 1) + 1 = Len(ls) - n
        /\ \A k \in 1 .. Len(ls) - n : (n + 1) + k - 1 = n + k
    BY <1>1
  <2> QED
    BY <1>1, <2>1, <2>2, SubSeqProperties
<1>3. DOMAIN rest = 1 .. Len(ls) - n /\ 1 \in DOMAIN rest
  BY <1>1, <1>2, LenProperties
<1>4. \A k \in DOMAIN rest : n + k \in DOMAIN ls /\ rest[k] = ls[n + k]
  BY <1>1, <1>2, <1>3
<1>5. rest # <<>>
  <2>1. Len(ls) - n >= 1 /\ Len(ls) - n \in Int
    BY <1>1
  <2>2. ASSUME NEW m \in Int, m >= 1 PROVE m # 0
    BY <2>2
  <2>3. Len(rest) # 0
    BY <1>2, <2>1, <2>2, Zenon
  <2> QED
    BY <2>3, EmptySeq, Zenon
<1>6. Head(rest) = rest[1]
  OBVIOUS
<1>7. ASSUME NEW i \in DOMAIN rest, NEW j \in DOMAIN rest, i < j
      PROVE  rest[i].seq < rest[j].seq
  <2>1. n + i < n + j
    BY <1>3, <1>7
  <2> QED
    BY <1>4, <2>1 DEF Growing
<1> QED
  BY <1>2, <1>3, <1>4, <1>5, <1>6, <1>7 DEF Growing
\* The numbers of the file and of the buffer go up, and every line of the
\* buffer comes after the lines that a flush will leave.
OrderInv ==
    intact = <<>> =>
        /\ Growing(file) /\ Growing(buffer) /\ Below(Settled, buffer)
        /\ Partial => Last(file).seq = Head(buffer).seq
        /\ \A i \in DOMAIN buffer : buffer[i].tok # None
        /\ up => UpToNumber(file, w.seq) /\ UpToNumber(buffer, w.seq)

\* A write that stops short leaves both in order: what is lost of the buffer
\* is on disk, and what is on disk in part stays first in the buffer.
LEMMA StopsShort ==
    ASSUME file \in Seq(Line), begun \in BOOLEAN, begun => file # <<>>,
           Growing(file), NEW ls \in Seq(Line), ls # <<>>, Growing(ls),
           Below(Settled, ls), \A i \in DOMAIN ls : ls[i].tok # None,
           Partial => Last(file).seq = Head(ls).seq,
           NEW s \in Stops(ls), StopsAt(ls, s)
    PROVE  /\ file' \in Seq(Line) /\ begun' \in BOOLEAN /\ buffer' \in Seq(Line)
           /\ buffer' # <<>> /\ (begun' => file' # <<>>)
           /\ Growing(file') /\ Growing(buffer') /\ Below(Settled', buffer')
           /\ Partial' => Last(file').seq = Head(buffer').seq
           /\ \A i \in DOMAIN buffer' : buffer'[i].tok # None
           /\ \A n : UpToNumber(file, n) /\ UpToNumber(ls, n)
                        => UpToNumber(file', n) /\ UpToNumber(buffer', n)
<1>1. /\ s.n \in 0 .. Len(ls) - 1 /\ s.n + 1 \in DOMAIN ls
      /\ Len(ls) \in Nat /\ DOMAIN ls = 1 .. Len(ls)
  BY UpToShape, LenProperties
<1>2. buffer' = SubSeq(ls, s.n + 1, Len(ls))
  BY DEF StopsAt
<1>3. /\ buffer' \in Seq(Line) /\ buffer' # <<>> /\ Growing(buffer')
      /\ 1 \in DOMAIN buffer' /\ Head(buffer') = ls[s.n + 1]
      /\ \A k \in DOMAIN buffer' : s.n + k \in DOMAIN ls /\ buffer'[k] = ls[s.n + k]
  <2> DEFINE m == s.n
  <2> DEFINE rest == buffer'
  <2>1. m \in 0 .. Len(ls) - 1 /\ rest = SubSeq(ls, m + 1, Len(ls))
    BY <1>1, <1>2
  <2> HIDE DEF m, rest, Line
  <2>2. /\ rest \in Seq(Line) /\ rest # <<>> /\ Growing(rest)
        /\ 1 \in DOMAIN rest /\ Head(rest) = ls[m + 1]
        /\ \A k \in DOMAIN rest : m + k \in DOMAIN ls /\ rest[k] = ls[m + k]
    BY <2>1, RestGrowing
  <2> QED BY <2>2 DEF m, rest
<1>4. /\ \A i \in DOMAIN buffer' : buffer'[i].tok # None
      /\ \A n : UpToNumber(ls, n) => UpToNumber(buffer', n)
  BY <1>3 DEF UpToNumber
<1>5. CASE s.n = 0 /\ s.cut = "none"
  <2>1. file' = file /\ begun' = begun /\ buffer' = ls
    <3>1. buffer' = ls
      BY <1>2, <1>5, SubSeqFull
    <3> QED
      BY <1>5, <3>1 DEF StopsAt
  <2>2. Settled' = Settled /\ Partial' = Partial
    BY <2>1 DEF Settled, Partial
  <2> QED
    BY <1>3, <1>4, <2>1, <2>2
<1>6. CASE ~(s.n = 0 /\ s.cut = "none")
  <2> DEFINE us == UpTo(ls, s)
  <2>1. /\ us \in Seq(Line) /\ Len(us) \in {s.n, s.n + 1}
        /\ s.cut = "none" => Len(us) = s.n
        /\ s.cut # "none" => Len(us) = s.n + 1
        /\ \A i \in 1 .. Len(us) :
              i \in DOMAIN ls /\ us[i].seq = ls[i].seq /\ us[i].tok = ls[i].tok
    BY UpToShape
  <2>2. file' = Written(us) /\ begun' = (s.cut # "none")
    BY <1>6 DEF StopsAt
  <2> HIDE DEF us
  <2>3. DOMAIN us = 1 .. Len(us) /\ Len(us) \in Nat /\ Len(us) >= 1
    BY <1>1, <1>6, <2>1, LenProperties
  <2>4. us # <<>> /\ Growing(us) /\ Below(Settled, us)
    <3>1. us # <<>>
      <4>1. Len(us) # 0 /\ Len(<<>>) = 0
        BY <2>3
      <4> QED
        BY <4>1
    <3> QED
      BY <2>1, <2>3, <3>1 DEF Growing, Below
  <2>5. /\ file' \in Seq(Line) /\ Len(file') >= 1 /\ Growing(file')
        /\ From(file', Len(file') - 1, Settled, us, Len(us) - 1)
        /\ \/ file'[Len(file')] = us[Len(us)]
           \/ /\ Len(us) = 1 /\ file'[Len(file')].tok = None
              /\ \E j \in DOMAIN Settled : file'[Len(file')].seq = Settled[j].seq
    BY <2>1, <2>2, <2>4, WrittenOrder
  <2>6. \A n : UpToNumber(file, n) /\ UpToNumber(ls, n) => UpToNumber(file', n)
    <3>1. ASSUME NEW n, UpToNumber(ls, n) PROVE UpToNumber(us, n)
      BY <2>1, <2>3, <3>1 DEF UpToNumber
    <3> QED
      BY <2>1, <2>2, <2>4, <3>1, WrittenBound
  <2>7. DOMAIN file' = 1 .. Len(file') /\ Len(file') \in Nat /\ file' # <<>>
    <3>1. Len(file') # 0 /\ Len(<<>>) = 0
      BY <2>5
    <3> QED
      BY <2>5, <3>1, LenProperties
  \* What comes from the settled lines or the first n given is below the rest.
  <2>8. ASSUME NEW x, \/ \E j \in DOMAIN Settled : x = Settled[j].seq
                      \/ \E k \in 1 .. s.n : x = ls[k].seq,
               NEW k \in DOMAIN buffer'
        PROVE  x < buffer'[k].seq
    <3>1. buffer'[k] = ls[s.n + k] /\ s.n + k \in DOMAIN ls /\ k \in Nat /\ k >= 1
      BY <1>3, LenProperties
    <3>2. CASE \E j \in DOMAIN Settled : x = Settled[j].seq
      BY <3>1, <3>2 DEF Below
    <3>3. CASE \E j \in 1 .. s.n : x = ls[j].seq
      <4>1. PICK j \in 1 .. s.n : x = ls[j].seq
        BY <3>3
      <4>2. j \in DOMAIN ls /\ j < s.n + k
        BY <1>1, <3>1
      <4> QED
        BY <3>1, <4>1, <4>2 DEF Growing
    <3> QED
      BY <2>8, <3>2, <3>3
  \* All lines on disk but the last come from there.
  <2>9. ASSUME NEW i \in 1 .. Len(file') - 1
        PROVE  \/ \E j \in DOMAIN Settled : file'[i].seq = Settled[j].seq
               \/ \E k \in 1 .. s.n : file'[i].seq = ls[k].seq
    <3>1. CASE \E k \in 1 .. Len(us) - 1 : file'[i].seq = us[k].seq
      <4>1. PICK k \in 1 .. Len(us) - 1 : file'[i].seq = us[k].seq
        BY <3>1
      <4>2. k \in 1 .. Len(us) /\ k \in 1 .. s.n
        BY <1>1, <2>1, <2>3
      <4> QED
        BY <2>1, <4>1, <4>2
    <3> QED
      BY <2>5, <3>1 DEF From
  <2>10. Below(Settled', buffer') /\ (Partial' => Last(file').seq = Head(buffer').seq)
    <3>1. CASE Partial'
      <4>1. begun' /\ Last(file').tok # None /\ Settled' = Front(file')
        BY <3>1 DEF Partial, Settled
      <4>2. Len(us) = s.n + 1 /\ file'[Len(file')] = us[Len(us)]
        BY <2>1, <2>2, <2>5, <4>1 DEF Last
      <4>3. Last(file').seq = Head(buffer').seq
        BY <1>1, <1>3, <2>1, <4>2 DEF Last
      <4>4. ASSUME NEW i \in DOMAIN Settled', NEW k \in DOMAIN buffer'
            PROVE  Settled'[i].seq < buffer'[k].seq
        <5>1. /\ DOMAIN Front(file') = 1 .. Len(file') - 1
              /\ Front(file')[i] = file'[i] /\ i \in 1 .. Len(file') - 1
          <6>1. /\ Front(file') \in Seq(Line) /\ Len(Front(file')) = Len(file') - 1
                /\ \A j \in DOMAIN Front(file') : Front(file')[j] = file'[j]
            BY <2>5, <2>7, FrontLast
          <6>2. DOMAIN Front(file') = 1 .. Len(file') - 1
            BY <6>1, LenProperties
          <6> QED
            BY <4>1, <6>1, <6>2
        <5>2. \/ \E j \in DOMAIN Settled : file'[i].seq = Settled[j].seq
              \/ \E j \in 1 .. s.n : file'[i].seq = ls[j].seq
          BY <2>9, <5>1
        <5>3. file'[i].seq < buffer'[k].seq
          BY <2>8, <5>2
        <5> QED
          BY <4>1, <5>1, <5>3
      <4> QED
        BY <4>3, <4>4 DEF Below
    <3>2. CASE ~Partial'
      <4>1. Settled' = file'
        BY <3>2 DEF Settled
      <4>2. \/ \E j \in DOMAIN Settled : file'[Len(file')].seq = Settled[j].seq
            \/ \E k \in 1 .. s.n : file'[Len(file')].seq = ls[k].seq
        <5>1. CASE file'[Len(file')] = us[Len(us)]
          <6>1. file'[Len(file')].tok # None
            BY <2>1, <2>3, <5>1
          <6>2. Len(us) = s.n
            BY <2>1, <2>2, <3>2, <6>1 DEF Partial, Last
          <6>3. Len(us) \in 1 .. s.n /\ file'[Len(file')].seq = ls[Len(us)].seq
            BY <2>1, <2>3, <5>1, <6>2
          <6> QED
            BY <6>3
        <5> QED
          BY <2>5, <5>1
      <4>3. ASSUME NEW i \in DOMAIN file', NEW k \in DOMAIN buffer'
            PROVE  file'[i].seq < buffer'[k].seq
        <5>1. i = Len(file') \/ i \in 1 .. Len(file') - 1
          BY <2>7
        <5>2. \/ \E j \in DOMAIN Settled : file'[i].seq = Settled[j].seq
              \/ \E j \in 1 .. s.n : file'[i].seq = ls[j].seq
          BY <2>9, <4>2, <5>1
        <5> QED
          BY <2>8, <5>2
      <4> QED
        BY <3>2, <4>1, <4>3 DEF Below
    <3> QED
      BY <3>1, <3>2
  <2> QED
    BY <1>3, <1>4, <2>2, <2>5, <2>6, <2>7, <2>10
<1> QED
  BY <1>5, <1>6
\* The line that an emit makes.
LEMMA NewLineShape ==
    ASSUME TypeInv, emits < MaxEmits, NEW stop \in BOOLEAN
    PROVE  /\ NewLine(stop) \in Line
           /\ NewLine(stop).seq = w.seq + 1 /\ NewLine(stop).tok = emits + 1
           /\ NewLine(stop).prev = w.prev /\ NewLine(stop).run = w.run
           /\ NewLine(stop).config = w.config
           /\ NewLine(stop).whole /\ NewLine(stop).newline
           /\ emits + 1 \in 0 .. MaxEmits /\ emits + 1 # None /\ w.seq \in Nat
<1>1. emits + 1 \in 0 .. MaxEmits /\ emits + 1 # 0
  BY BoundAssumption DEF TypeInv
<1>2. /\ w.seq \in Nat /\ w.prev \in 0 .. MaxEmits /\ w.run \in RunIds
      /\ w.config \in ConfigHashes
  BY DEF TypeInv, Writer
<1> QED
  BY <1>1, <1>2 DEF NewLine, Line, None

\* What an emit sets out to write is in order, behind what is settled.
LEMMA QueueOrder ==
    ASSUME TypeInv, OrderInv, up, emits < MaxEmits, NEW stop \in BOOLEAN,
           NEW ls, ls = Append(buffer, NewLine(stop))
    PROVE  /\ intact = <<>> /\ file \in Seq(Line) /\ Growing(file)
           /\ ls \in Seq(Line) /\ ls # <<>> /\ Growing(ls) /\ Below(Settled, ls)
           /\ \A i \in DOMAIN ls : ls[i].tok # None
           /\ Partial => Last(file).seq = Head(ls).seq
           /\ UpToNumber(file, w.seq + 1) /\ UpToNumber(ls, w.seq + 1)
           /\ w.seq + 1 \in Nat
<1>1. intact = <<>> /\ file \in Seq(Line) /\ buffer \in Seq(Line)
  BY DEF TypeInv
<1>2. /\ Growing(file) /\ Growing(buffer) /\ Below(Settled, buffer)
      /\ Partial => Last(file).seq = Head(buffer).seq
      /\ \A i \in DOMAIN buffer : buffer[i].tok # None
      /\ UpToNumber(file, w.seq) /\ UpToNumber(buffer, w.seq)
  BY <1>1 DEF OrderInv
<1>3. PICK x \in Line : x = NewLine(stop)
  BY NewLineShape
<1>4. x.seq = w.seq + 1 /\ x.tok # None /\ w.seq \in Nat
  BY <1>3, NewLineShape
<1>5. ls = Append(buffer, x)
  BY <1>3
<1>6. /\ ls \in Seq(Line) /\ Len(ls) = Len(buffer) + 1 /\ Len(buffer) \in Nat
      /\ ls[Len(buffer) + 1] = x
      /\ \A i \in 1 .. Len(buffer) : ls[i] = buffer[i]
  BY <1>1, <1>5
<1>7. DOMAIN ls = 1 .. Len(buffer) + 1 /\ DOMAIN buffer = 1 .. Len(buffer)
  BY <1>1, <1>6, LenProperties
<1>8. ASSUME NEW i \in DOMAIN ls
      PROVE  \/ i = Len(buffer) + 1 /\ ls[i] = x
             \/ i \in DOMAIN buffer /\ ls[i] = buffer[i]
  BY <1>6, <1>7
<1>9. /\ \A i \in DOMAIN file : file[i].seq \in Nat /\ file[i].seq <= w.seq
      /\ \A i \in DOMAIN buffer : buffer[i].seq \in Nat /\ buffer[i].seq <= w.seq
  BY <1>1, <1>2, LineSeq DEF UpToNumber
<1>10. Growing(ls)
  <2>1. ASSUME NEW i \in DOMAIN ls, NEW j \in DOMAIN ls, i < j
        PROVE  ls[i].seq < ls[j].seq
    <3>1. i \in DOMAIN buffer /\ ls[i] = buffer[i]
      BY <1>6, <1>7, <1>8, <2>1
    <3>2. CASE j = Len(buffer) + 1 /\ ls[j] = x
      BY <1>4, <1>9, <3>1, <3>2
    <3>3. CASE j \in DOMAIN buffer /\ ls[j] = buffer[j]
      BY <1>2, <2>1, <3>1, <3>3 DEF Growing
    <3> QED
      BY <1>8, <3>2, <3>3
  <2>2. \A i \in DOMAIN ls : ls[i].seq >= 1
    BY <1>2, <1>4, <1>8 DEF Growing
  <2> QED
    BY <2>1, <2>2 DEF Growing
<1>11. Below(Settled, ls)
  <2>1. ASSUME NEW i \in DOMAIN Settled, NEW j \in DOMAIN ls
        PROVE  Settled[i].seq < ls[j].seq
    <3>1. Settled[i].seq \in Nat /\ Settled[i].seq <= w.seq
      BY <1>1, <1>2, <1>9, SettledOrder DEF TypeInv
    <3>2. CASE j = Len(buffer) + 1 /\ ls[j] = x
      BY <1>4, <3>1, <3>2
    <3>3. CASE j \in DOMAIN buffer /\ ls[j] = buffer[j]
      BY <1>2, <3>3 DEF Below
    <3> QED
      BY <1>8, <3>2, <3>3
  <2> QED
    BY <2>1 DEF Below
<1>12. \A i \in DOMAIN ls : ls[i].tok # None
  BY <1>2, <1>4, <1>8
<1>13. Partial => Last(file).seq = Head(ls).seq
  <2> SUFFICES ASSUME Partial PROVE Last(file).seq = Head(ls).seq
    OBVIOUS
  <2>1. buffer # <<>>
    BY DEF TypeInv, Partial
  <2>2. 1 \in 1 .. Len(buffer)
    BY <1>1, <2>1, <1>6, EmptySeq
  <2>3. Head(buffer) = buffer[1] /\ Head(ls) = ls[1]
    OBVIOUS
  <2> QED
    BY <1>2, <1>6, <2>2, <2>3
<1>14. UpToNumber(file, w.seq + 1) /\ UpToNumber(ls, w.seq + 1)
  BY <1>4, <1>8, <1>9 DEF UpToNumber
<1>15. ls # <<>>
  BY <1>5
<1> QED
  BY <1>1, <1>2, <1>4, <1>6, <1>10, <1>11, <1>12, <1>13, <1>14, <1>15
\* Nothing is in order.
LEMMA EmptyOrder ==
    /\ <<>> \in Seq(Line) /\ Growing(<<>>) /\ \A n : UpToNumber(<<>>, n)
    /\ \A s : Below(s, <<>>)
    /\ \A i \in DOMAIN <<>> : <<>>[i].tok # None
<1>1. DOMAIN <<>> = {}
  OBVIOUS
<1> QED
  BY <1>1 DEF Growing, UpToNumber, Below

\* With an empty buffer, it is the file alone that counts.
LEMMA QuietOrder ==
    ASSUME Growing(file'), buffer' = <<>>, begun' = FALSE,
           up' => UpToNumber(file', w'.seq)
    PROVE  OrderInv'
BY EmptyOrder DEF OrderInv, Partial

LEMMA OrderInit == Init => TypeInv /\ OrderInv
<1> SUFFICES ASSUME Init PROVE TypeInv /\ OrderInv
  OBVIOUS
<1>1. w \in Writer /\ emits \in 0 .. MaxEmits
  BY BoundAssumption DEF Init, Writer, RunIds, ConfigHashes, None
<1> QED
  BY <1>1, EmptyOrder DEF Init, TypeInv, OrderInv, Partial

\* Opening a log goes on with the number of its last line.
LEMMA OrderOpen == ASSUME TypeInv, OrderInv, Open PROVE TypeInv' /\ OrderInv'
<1>1. PICK run \in Runs \cup {NoRun}, config \in Configs \cup {NoConfig} :
           \/ OpenNew(run, config) \/ Resume(run, config)
           \/ \E resume \in BOOLEAN : OpenRefused(run, config, resume)
  BY DEF Open
<1>2. CASE OpenNew(run, config)
  <2>1. w' \in Writer /\ w'.seq = 0
    BY <1>2, BoundAssumption DEF OpenNew, Writer, RunIds, ConfigHashes, None
  <2>2. /\ UNCHANGED <<file, buffer, begun, emits, intact>> /\ file = <<>> /\ up' = TRUE
        /\ intact = <<>> /\ ~up
    BY <1>2 DEF OpenNew
  <2>3. TypeInv'
    BY <2>1, <2>2 DEF TypeInv
  <2>4. OrderInv'
    <3>1. file' = <<>> /\ buffer' = <<>> /\ begun' = FALSE
      BY <2>2 DEF TypeInv
    <3> QED
      BY <3>1, EmptyOrder, QuietOrder
  <2> QED
    BY <2>3, <2>4
<1>3. CASE Resume(run, config)
  <2>1. /\ UNCHANGED <<file, buffer, begun, emits, intact>> /\ file # <<>> /\ up' = TRUE
        /\ intact = <<>> /\ ~up
        /\ w' = [seq |-> Last(file).seq, prev |-> Last(file).tok,
                 run |-> Last(file).run, config |-> Last(file).config]
    BY <1>3 DEF Resume, LastNumber
  <2>2. file \in Seq(Line) /\ Growing(file)
    BY <2>1 DEF TypeInv, OrderInv
  <2>3. Last(file) \in Line /\ Len(file) \in DOMAIN file /\ DOMAIN file = 1 .. Len(file)
    BY <2>1, <2>2, FrontLast, LenProperties
  <2>4. w' \in Writer
    BY <2>1, <2>3 DEF Writer, Line
  <2>5. TypeInv'
    BY <2>1, <2>4 DEF TypeInv
  <2>6. UpToNumber(file, Last(file).seq)
    <3> SUFFICES ASSUME NEW i \in DOMAIN file PROVE file[i].seq <= file[Len(file)].seq
      BY DEF UpToNumber, Last
    <3>1. file[i].seq \in Nat /\ file[Len(file)].seq \in Nat
      BY <2>2, <2>3, LineSeq
    <3>2. i = Len(file) \/ i < Len(file)
      BY <2>3
    <3> QED
      BY <2>2, <2>3, <3>1, <3>2 DEF Growing
  <2>7. OrderInv'
    <3>1. file' = file /\ buffer' = <<>> /\ begun' = FALSE /\ w'.seq = Last(file).seq
      BY <2>1 DEF TypeInv
    <3> QED
      BY <2>2, <2>6, <3>1, QuietOrder
  <2> QED
    BY <2>5, <2>7
<1>4. CASE \E resume \in BOOLEAN : OpenRefused(run, config, resume)
  <2>1. UNCHANGED <<file, up, w, buffer, begun, emits, intact>>
    BY <1>4 DEF OpenRefused
  <2> QED
    BY <2>1 DEF TypeInv, OrderInv, Settled, Partial
<1> QED
  BY <1>1, <1>2, <1>3, <1>4

\* Writing, whether it fails, stops short or is cut by a crash.
LEMMA OrderEmit ==
    ASSUME TypeInv, OrderInv, NEW stop \in BOOLEAN,
           Emit(stop) \/ EmitDiskError(stop) \/ CrashInEmit(stop)
    PROVE  TypeInv' /\ OrderInv'
<1> DEFINE ls == Append(buffer, NewLine(stop))
<1>1. up /\ emits < MaxEmits
  BY DEF Emit, EmitDiskError, CrashInEmit
<1>2. /\ intact = <<>> /\ file \in Seq(Line) /\ Growing(file)
      /\ ls \in Seq(Line) /\ ls # <<>> /\ Growing(ls) /\ Below(Settled, ls)
      /\ \A i \in DOMAIN ls : ls[i].tok # None
      /\ Partial => Last(file).seq = Head(ls).seq
      /\ UpToNumber(file, w.seq + 1) /\ UpToNumber(ls, w.seq + 1)
      /\ w.seq + 1 \in Nat
  BY <1>1, QueueOrder
<1>3. /\ emits' = emits + 1 /\ emits' \in 0 .. MaxEmits /\ intact' = intact
      /\ NewLine(stop).seq = w.seq + 1 /\ NewLine(stop).tok \in 0 .. MaxEmits
  <2>1. emits' = emits + 1 /\ intact' = intact
    BY DEF Emit, EmitDiskError, CrashInEmit
  <2> QED
    BY <1>1, <2>1, NewLineShape
<1>4. begun \in BOOLEAN /\ (begun => file # <<>>)
  BY DEF TypeInv
<1>5. w \in Writer
  BY DEF TypeInv
<1> HIDE DEF ls
\* A write that does not fail, wholly on disk.
<1>6. ASSUME file' = Written(ls), buffer' = <<>>, begun' = FALSE,
             up' \in BOOLEAN, w' \in Writer, up' => w'.seq = w.seq + 1
      PROVE  TypeInv' /\ OrderInv'
  <2>1. file' \in Seq(Line) /\ Growing(file')
    BY <1>2, <1>4, <1>6, WrittenOrder
  <2>2. UpToNumber(file', w.seq + 1)
    BY <1>2, <1>4, <1>6, WrittenBound
  <2>3. TypeInv'
    BY <1>2, <1>3, <1>6, <2>1, EmptyOrder DEF TypeInv
  <2>4. OrderInv'
    BY <1>6, <2>1, <2>2, QuietOrder
  <2> QED
    BY <2>3, <2>4
<1>7. CASE Emit(stop)
  <2>1. /\ file' = Written(ls) /\ buffer' = <<>> /\ begun' = FALSE /\ up' = up
        /\ w' = [w EXCEPT !.seq = NewLine(stop).seq, !.prev = NewLine(stop).tok]
    BY <1>7 DEF Emit, Flushed, ls
  <2>2. w' \in Writer /\ w'.seq = w.seq + 1
    BY <1>2, <1>3, <1>5, <2>1 DEF Writer
  <2> QED
    BY <1>1, <1>6, <2>1, <2>2
<1>8. CASE EmitDiskError(stop)
  <2>1. PICK s \in Stops(ls) : StopsAt(ls, s)
    BY <1>8 DEF EmitDiskError, ls
  <2>2. up' = up /\ w' = [w EXCEPT !.seq = @ + 1]
    BY <1>8 DEF EmitDiskError
  <2>3. w' \in Writer /\ w'.seq = w.seq + 1
    BY <1>2, <1>5, <2>2 DEF Writer
  <2>4. /\ file' \in Seq(Line) /\ begun' \in BOOLEAN /\ buffer' \in Seq(Line)
        /\ buffer' # <<>> /\ (begun' => file' # <<>>)
        /\ Growing(file') /\ Growing(buffer') /\ Below(Settled', buffer')
        /\ Partial' => Last(file').seq = Head(buffer').seq
        /\ \A i \in DOMAIN buffer' : buffer'[i].tok # None
        /\ UpToNumber(file', w.seq + 1) /\ UpToNumber(buffer', w.seq + 1)
    BY <1>2, <1>4, <2>1, StopsShort
  <2>5. TypeInv'
    BY <1>1, <1>2, <1>3, <2>2, <2>3, <2>4 DEF TypeInv
  <2>6. OrderInv'
    BY <2>3, <2>4 DEF OrderInv
  <2> QED
    BY <2>5, <2>6
<1>9. CASE CrashInEmit(stop)
  <2>1. up' = FALSE /\ buffer' = <<>> /\ begun' = FALSE /\ w' = w
    BY <1>9 DEF CrashInEmit
  <2>2. CASE file' = Written(ls)
    BY <1>5, <1>6, <2>1, <2>2
  <2>3. CASE \E s \in Stops(ls) : s.cut # "none" /\ file' = Written(UpTo(ls, s))
    <3>1. PICK s \in Stops(ls) : s.cut # "none" /\ file' = Written(UpTo(ls, s))
      BY <2>3
    <3> DEFINE us == UpTo(ls, s)
    <3>2. /\ us \in Seq(Line) /\ Len(us) = s.n + 1 /\ s.n \in 0 .. Len(ls) - 1
          /\ \A i \in 1 .. Len(us) : i \in DOMAIN ls /\ us[i].seq = ls[i].seq
      BY <3>1, <1>2, UpToShape
    <3> HIDE DEF us
    <3>3. us # <<>> /\ DOMAIN us = 1 .. Len(us)
      <4>1. Len(us) # 0 /\ Len(<<>>) = 0
        BY <1>2, <3>2, LenProperties
      <4> QED
        BY <3>2, <4>1, LenProperties
    <3>4. Growing(us) /\ Below(Settled, us)
      BY <1>2, <3>2, <3>3 DEF Growing, Below
    <3>5. file' \in Seq(Line) /\ Growing(file')
      BY <1>2, <1>4, <3>1, <3>2, <3>3, <3>4, WrittenOrder DEF us
    <3>6. TypeInv'
      BY <1>2, <1>3, <1>5, <2>1, <3>5, EmptyOrder DEF TypeInv
    <3>7. OrderInv'
      BY <2>1, <3>5, QuietOrder
    <3> QED
      BY <3>6, <3>7
  <2> QED
    BY <1>9, <2>2, <2>3 DEF CrashInEmit, ls
<1> QED
  BY <1>7, <1>8, <1>9

LEMMA OrderStep == ASSUME TypeInv, OrderInv, [Next]_vars PROVE TypeInv' /\ OrderInv'
<1>1. CASE Open
  BY <1>1, OrderOpen
<1>2. CASE \E stop \in BOOLEAN : Emit(stop) \/ EmitDiskError(stop) \/ CrashInEmit(stop)
  BY <1>2, OrderEmit
<1>3. CASE EmitUnserializable
  <2>1. /\ UNCHANGED <<file, up, buffer, begun, intact>> /\ up
        /\ w' = [w EXCEPT !.seq = @ + 1] /\ emits' = emits + 1 /\ emits < MaxEmits
    BY <1>3 DEF EmitUnserializable
  <2>2. w \in Writer /\ w.seq \in Nat
    BY DEF TypeInv, Writer
  <2>3. w' \in Writer /\ w'.seq = w.seq + 1
    BY <2>1, <2>2 DEF Writer
  <2>4. emits' \in 0 .. MaxEmits
    BY <2>1, BoundAssumption DEF TypeInv
  <2>5. TypeInv'
    BY <2>1, <2>3, <2>4 DEF TypeInv
  <2>6. intact = <<>> /\ file \in Seq(Line) /\ buffer \in Seq(Line)
    BY <2>1 DEF TypeInv
  <2>7. UpToNumber(file, w.seq + 1) /\ UpToNumber(buffer, w.seq + 1)
    BY <2>1, <2>2, <2>6, LineSeq DEF OrderInv, UpToNumber
  <2> QED
    BY <2>1, <2>3, <2>5, <2>6, <2>7 DEF OrderInv, Settled, Partial
<1>4. CASE Close
  <2>1. /\ up /\ up' = FALSE /\ file' = Written(buffer) /\ buffer' = <<>>
        /\ begun' = FALSE /\ UNCHANGED <<w, emits, intact>>
    BY <1>4 DEF Close
  <2>2. /\ intact = <<>> /\ file \in Seq(Line) /\ buffer \in Seq(Line)
        /\ (begun => file # <<>>)
        /\ Growing(file) /\ Growing(buffer) /\ Below(Settled, buffer)
    BY <2>1 DEF TypeInv, OrderInv
  <2>3. file' \in Seq(Line) /\ Growing(file')
    <3>1. CASE buffer = <<>>
      BY <2>1, <2>2, <3>1, NothingWritten
    <3>2. CASE buffer # <<>>
      BY <2>1, <2>2, <3>2, WrittenOrder
    <3> QED
      BY <3>1, <3>2
  <2>4. TypeInv'
    BY <2>1, <2>2, <2>3, EmptyOrder DEF TypeInv
  <2> QED
    BY <2>1, <2>3, <2>4, QuietOrder
<1>5. CASE Crash
  <2>1. /\ up /\ up' = FALSE /\ buffer' = <<>> /\ begun' = FALSE
        /\ UNCHANGED <<file, w, emits, intact>>
    BY <1>5 DEF Crash
  <2>2. Growing(file)
    BY <2>1 DEF TypeInv, OrderInv
  <2>3. TypeInv'
    BY <2>1, EmptyOrder DEF TypeInv
  <2> QED
    BY <2>1, <2>2, <2>3, QuietOrder
<1>6. CASE Damage
  <2>1. ~up /\ intact' = file /\ UNCHANGED <<up, w, buffer, begun, emits>>
    BY <1>6 DEF Damage
  <2>2. file # <<>>
    BY <1>6 DEF Damage
  <2> QED
    BY <2>1, <2>2 DEF TypeInv, OrderInv
<1>7. CASE UNCHANGED vars
  BY <1>7 DEF vars, TypeInv, OrderInv, Settled, Partial
<1> QED
  BY <1>1, <1>2, <1>3, <1>4, <1>5, <1>6, <1>7 DEF Next

-----------------------------------------------------------------------------
(* Clean runs                                                              *)

\* The writer goes on where the file ends.
GoesOn ==
    /\ w.seq = Len(file)
    /\ file = <<>> => w.prev = None
    /\ file # <<>> => /\ w.prev = Last(file).tok
                      /\ w.run = file[1].run /\ w.config = file[1].config

\* As long as no emit has failed, every line on disk is whole and nothing is
\* left in the buffer.
CleanInv ==
    clean /\ intact = <<>> =>
        /\ Loads(file) /\ \A i \in DOMAIN file : file[i].newline
        /\ buffer = <<>> /\ ~begun
        /\ up => GoesOn

\* A log that loads still loads with a line that goes on from its last.
LEMMA LoadsAppend ==
    ASSUME NEW f \in Seq(Line), Loads(f), NEW x \in Line, x.whole, x.seq = Len(f) + 1,
           f = <<>> => x.prev = None,
           f # <<>> => x.prev = Last(f).tok /\ x.run = f[1].run /\ x.config = f[1].config
    PROVE  Loads(Append(f, x))
<1>1. /\ Append(f, x) \in Seq(Line) /\ Len(Append(f, x)) = Len(f) + 1 /\ Len(f) \in Nat
      /\ Append(f, x)[Len(f) + 1] = x
      /\ \A i \in 1 .. Len(f) : Append(f, x)[i] = f[i]
  OBVIOUS
<1>2. DOMAIN f = 1 .. Len(f) /\ DOMAIN Append(f, x) = 1 .. Len(f) + 1
  BY <1>1, LenProperties
<1> DEFINE g == Append(f, x)
<1>3. f # <<>> => Len(f) >= 1 /\ g[1] = f[1] /\ Last(f) = g[Len(f)]
  BY <1>1, EmptySeq DEF Last
<1>4. f = <<>> => Len(f) = 0
  BY LenProperties
<1> HIDE DEF g
<1>5. ASSUME NEW i \in 1 .. Len(f)
      PROVE  /\ g[i].whole /\ g[i].seq = i /\ Linked(g, i)
             /\ g[i].run = g[1].run /\ g[i].config = g[1].config
  <2>1. g[i] = f[i] /\ i \in DOMAIN f /\ f # <<>> /\ i \in Nat
    BY <1>1, <1>2, <1>4 DEF g
  <2>2. i # 1 => g[i - 1] = f[i - 1]
    BY <1>1 DEF g
  <2> QED
    BY <1>3, <2>1, <2>2 DEF Loads, Linked
<1>6. LET i == Len(f) + 1 IN
      /\ g[i].whole /\ g[i].seq = i /\ Linked(g, i)
      /\ g[i].run = g[1].run /\ g[i].config = g[1].config
  <2>1. g[Len(f) + 1] = x
    BY <1>1 DEF g
  <2>2. Linked(g, Len(f) + 1)
    BY <1>1, <1>3, <1>4, <2>1 DEF Linked
  <2>3. x.run = g[1].run /\ x.config = g[1].config
    BY <1>3, <1>4, <2>1
  <2> QED
    BY <2>1, <2>2, <2>3
<1> QED
  BY <1>1, <1>2, <1>5, <1>6 DEF Loads, g

\* An emit of a clean run puts its line behind the others.
LEMMA CleanWrite ==
    ASSUME TypeInv, CleanInv, clean, up, emits < MaxEmits, NEW stop \in BOOLEAN,
           NEW r, r = Written(Append(buffer, NewLine(stop)))
    PROVE  /\ r \in Seq(Line) /\ Loads(r) /\ \A i \in DOMAIN r : r[i].newline
           /\ r # <<>> /\ Len(r) = w.seq + 1 /\ Last(r).tok = emits + 1
           /\ r[1].run = w.run /\ r[1].config = w.config
<1>1. intact = <<>> /\ file \in Seq(Line)
  BY DEF TypeInv
<1>2. /\ Loads(file) /\ \A i \in DOMAIN file : file[i].newline
      /\ buffer = <<>> /\ ~begun /\ GoesOn
  BY <1>1 DEF CleanInv
<1>3. PICK x \in Line : x = NewLine(stop)
  BY NewLineShape
<1>4. /\ x.seq = w.seq + 1 /\ x.tok = emits + 1 /\ x.prev = w.prev /\ x.run = w.run
      /\ x.config = w.config /\ x.whole /\ x.newline
  BY <1>3, NewLineShape
<1>5. r = Append(file, x)
  <2>1. Append(buffer, x) = <<x>> /\ <<x>> # <<>>
    BY <1>2
  <2>2. file # <<>> => Last(file).newline
    BY <1>1, <1>2, FrontLast DEF Last
  <2>3. Written(<<x>>) = file \o <<x>>
    BY <1>2, <2>1, <2>2 DEF Written
  <2> QED
    BY <1>1, <1>3, <2>1, <2>3
<1>6. Loads(Append(file, x))
  BY <1>1, <1>2, <1>4, LoadsAppend DEF GoesOn
<1>7. /\ Append(file, x) \in Seq(Line) /\ Len(Append(file, x)) = Len(file) + 1
      /\ Len(file) \in Nat /\ Append(file, x)[Len(file) + 1] = x
      /\ \A i \in 1 .. Len(file) : Append(file, x)[i] = file[i]
  BY <1>1
<1>8. DOMAIN file = 1 .. Len(file) /\ DOMAIN Append(file, x) = 1 .. Len(file) + 1
  BY <1>1, <1>7, LenProperties
<1>9. \A i \in DOMAIN Append(file, x) : Append(file, x)[i].newline
  BY <1>2, <1>4, <1>7, <1>8
<1>10. file = <<>> \/ Len(file) >= 1
  BY <1>1, EmptySeq
<1>11. Append(file, x)[1].run = w.run /\ Append(file, x)[1].config = w.config
  <2>1. CASE file = <<>>
    BY <1>4, <1>7, <2>1
  <2>2. CASE file # <<>>
    BY <1>2, <1>7, <1>10, <2>2 DEF GoesOn
  <2> QED
    BY <2>1, <2>2
<1>12. Last(Append(file, x)) = x
  BY <1>7 DEF Last
<1> QED
  <2>1. Append(file, x) # <<>> /\ Len(Append(file, x)) = w.seq + 1
    <3>1. Len(Append(file, x)) = w.seq + 1 /\ Len(Append(file, x)) >= 1
      BY <1>2, <1>7 DEF GoesOn
    <3>2. Len(<<>>) = 0
      OBVIOUS
    <3> QED
      BY <3>1, <3>2
  <2>2. /\ r \in Seq(Line) /\ Loads(r) /\ \A i \in DOMAIN r : r[i].newline
        /\ r[1].run = w.run /\ r[1].config = w.config
    BY <1>5, <1>6, <1>7, <1>9, <1>11, Zenon
  <2>3. Last(r).tok = emits + 1
    BY <1>4, <1>5, <1>12, Zenon
  <2> QED
    BY <1>5, <2>1, <2>2, <2>3, Zenon

LEMMA CleanInit == Init => CleanInv
BY DEF Init, CleanInv, Loads

\* What a run leaves when it stops, or when the next one has not yet begun.
LEMMA CleanQuiet ==
    ASSUME clean' => clean, intact' = <<>> => intact = <<>>, CleanInv,
           UNCHANGED file, buffer' = <<>>, begun' = FALSE, ~up'
    PROVE  CleanInv'
BY DEF CleanInv, Loads, Linked

LEMMA CleanStep == ASSUME TypeInv, CleanInv, [Next]_vars PROVE CleanInv'
<1>1. CASE Open
  <2>1. PICK run \in Runs \cup {NoRun}, config \in Configs \cup {NoConfig} :
             \/ OpenNew(run, config) \/ Resume(run, config)
             \/ \E resume \in BOOLEAN : OpenRefused(run, config, resume)
    BY <1>1 DEF Open
  <2>2. CASE OpenNew(run, config)
    <3>1. /\ UNCHANGED <<file, buffer, begun, clean, intact>> /\ file = <<>>
          /\ w'.seq = 0 /\ w'.prev = None /\ Len(<<>>) = 0
      BY <2>2 DEF OpenNew
    <3> QED
      BY <3>1 DEF CleanInv, GoesOn, Loads, Linked
  <2>3. CASE Resume(run, config)
    <3>1. /\ UNCHANGED <<file, buffer, begun, clean, intact>> /\ file # <<>> /\ Loads(file)
          /\ intact = <<>>
          /\ w'.seq = Last(file).seq /\ w'.prev = Last(file).tok
          /\ w'.run = Last(file).run /\ w'.config = Last(file).config
      BY <2>3 DEF Resume, LastNumber
    <3>2. Len(file) \in DOMAIN file
      BY <3>1, FrontLast DEF TypeInv
    <3>3. GoesOn'
      BY <3>1, <3>2 DEF GoesOn, Loads, Last
    <3>4. Loads(file)' /\ (file' = file)
      BY <3>1 DEF Loads, Linked
    <3> QED
      BY <3>1, <3>3, <3>4 DEF CleanInv
  <2>4. CASE \E resume \in BOOLEAN : OpenRefused(run, config, resume)
    <3>1. UNCHANGED <<file, up, w, buffer, begun, clean, intact>>
      BY <2>4 DEF OpenRefused
    <3> QED
      BY <3>1 DEF CleanInv, GoesOn, Loads, Linked
  <2> QED
    BY <2>1, <2>2, <2>3, <2>4
<1>2. ASSUME NEW stop \in BOOLEAN, Emit(stop) PROVE CleanInv'
  <2>1. /\ up /\ emits < MaxEmits /\ UNCHANGED <<clean, intact, up>>
        /\ file' = Written(Append(buffer, NewLine(stop)))
        /\ w' = [w EXCEPT !.seq = NewLine(stop).seq, !.prev = NewLine(stop).tok]
        /\ buffer' = <<>> /\ begun' = FALSE
    BY <1>2 DEF Emit, Flushed
  <2> SUFFICES ASSUME clean PROVE CleanInv'
    BY <2>1 DEF CleanInv
  <2>2. /\ Loads(file)' /\ \A i \in DOMAIN file' : file'[i].newline
        /\ file' # <<>> /\ Len(file') = w.seq + 1 /\ Last(file').tok = emits + 1
        /\ file'[1].run = w.run /\ file'[1].config = w.config
    <3>1. PICK r : r = file'
      OBVIOUS
    <3>2. /\ Loads(r) /\ \A i \in DOMAIN r : r[i].newline
          /\ r # <<>> /\ Len(r) = w.seq + 1 /\ Last(r).tok = emits + 1
          /\ r[1].run = w.run /\ r[1].config = w.config
      BY <1>2, <2>1, <3>1, CleanWrite
    <3> QED
      BY <3>1, <3>2 DEF Loads, Linked
  <2>3. /\ w'.seq = w.seq + 1 /\ w'.prev = emits + 1
        /\ w'.run = w.run /\ w'.config = w.config
    <3>1. w \in Writer
      BY DEF TypeInv
    <3>2. NewLine(stop).seq = w.seq + 1 /\ NewLine(stop).tok = emits + 1
      BY <2>1, NewLineShape
    <3> QED
      BY <2>1, <3>1, <3>2 DEF Writer
  <2> QED
    BY <2>1, <2>2, <2>3 DEF CleanInv, GoesOn
<1>3. ASSUME NEW stop \in BOOLEAN, EmitDiskError(stop) PROVE CleanInv'
  BY <1>3 DEF EmitDiskError, CleanInv
<1>4. ASSUME NEW stop \in BOOLEAN, CrashInEmit(stop) PROVE CleanInv'
  <2>1. /\ up /\ ~up' /\ emits < MaxEmits /\ UNCHANGED intact
        /\ buffer' = <<>> /\ begun' = FALSE
        /\ \/ file' = Written(Append(buffer, NewLine(stop))) /\ UNCHANGED clean
           \/ clean' = FALSE
    BY <1>4 DEF CrashInEmit
  <2> SUFFICES ASSUME clean, file' = Written(Append(buffer, NewLine(stop)))
               PROVE  CleanInv'
    BY <2>1 DEF CleanInv
  <2>2. Loads(file)' /\ \A i \in DOMAIN file' : file'[i].newline
    <3>1. PICK r : r = file'
      OBVIOUS
    <3>2. Loads(r) /\ \A i \in DOMAIN r : r[i].newline
      BY <1>4, <2>1, <3>1, CleanWrite
    <3> QED
      BY <3>1, <3>2 DEF Loads, Linked
  <2> QED
    BY <2>1, <2>2 DEF CleanInv
<1>5. CASE EmitUnserializable
  BY <1>5 DEF EmitUnserializable, CleanInv
<1>6. CASE Close
  <2>1. /\ file' = Written(buffer) /\ buffer' = <<>> /\ begun' = FALSE /\ up' = FALSE
        /\ UNCHANGED <<clean, intact>>
    BY <1>6 DEF Close
  <2>2. clean /\ intact = <<>> => file' = file
    BY <2>1, NothingWritten DEF CleanInv
  <2> QED
    BY <2>1, <2>2 DEF CleanInv, Loads, Linked
<1>7. CASE Crash
  BY <1>7, CleanQuiet DEF Crash
<1>8. CASE Damage
  <2>1. intact' = file /\ file # <<>>
    BY <1>8 DEF Damage
  <2> QED
    BY <2>1 DEF CleanInv
<1>9. CASE UNCHANGED vars
  BY <1>9 DEF vars, CleanInv, GoesOn, Loads, Linked
<1> QED
  BY <1>1, <1>2, <1>3, <1>4, <1>5, <1>6, <1>7, <1>8, <1>9 DEF Next

-----------------------------------------------------------------------------
(* Damaged logs                                                            *)

\* A line that was altered does not bear what the next one links to.
LEMMA AlteredShows ==
    ASSUME NEW f \in Seq(Line), NEW k \in DOMAIN f, NEW g, Loads(g),
           DOMAIN g = DOMAIN f, Len(g) = Len(f), g[k].tok = MaxEmits + 1,
           \A j \in DOMAIN f : j # k => g[j] = f[j], NEW i \in 1 .. Len(g) - 1
    PROVE  i \in DOMAIN f /\ g[i] = f[i]
<1>1. DOMAIN f = 1 .. Len(f) /\ Len(f) \in Nat /\ DOMAIN g = 1 .. Len(f)
  BY LenProperties
<1>3. i \in DOMAIN f /\ i + 1 \in DOMAIN g /\ i + 1 # 1 /\ (i + 1) - 1 = i
  BY <1>1
<1>4. i # k
  <2> SUFFICES ASSUME i = k PROVE FALSE
    OBVIOUS
  <2>1. f[k] \in Line /\ f[k + 1] \in Line /\ k + 1 \in DOMAIN f /\ k \in Nat
    BY <1>1, <1>3, ElementOfSeq
  <2>2. g[k].tok = MaxEmits + 1
    OBVIOUS
  <2>3. g[k + 1] = f[k + 1]
    BY <1>1, <2>1
  <2>4. g[k + 1].prev = g[k].tok
    <3>1. Linked(g, i + 1)
      BY <1>3 DEF Loads
    <3>2. g[i + 1].prev = g[i].tok
      BY <1>3, <3>1 DEF Linked
    <3> QED
      BY <3>2, Zenon
  <2>5. f[k + 1].prev \in 0 .. MaxEmits
    BY <2>1 DEF Line
  <2> QED
    BY <2>2, <2>3, <2>4, <2>5, BoundAssumption
<1> QED
  BY <1>1, <1>3, <1>4

\* Two logs put together, line by line.
LEMMA ConcatLines ==
    ASSUME NEW a \in Seq(Line), NEW b \in Seq(Line)
    PROVE  /\ a \o b \in Seq(Line) /\ Len(a \o b) = Len(a) + Len(b)
           /\ \A j \in 1 .. Len(a) : (a \o b)[j] = a[j]
           /\ \A j \in 1 .. Len(b) : (a \o b)[Len(a) + j] = b[j]
BY ConcatProperties

\* The line behind the one that is lost has the wrong number.
LEMMA LostShows ==
    ASSUME NEW f \in Seq(Line), Growing(f), NEW k \in DOMAIN f, NEW g,
           g = RemoveAt(f, k), Loads(g), NEW i \in 1 .. Len(g) - 1
    PROVE  i \in DOMAIN f /\ g[i] = f[i]
<1>1. DOMAIN f = 1 .. Len(f) /\ Len(f) \in Nat /\ k \in 1 .. Len(f)
  BY LenProperties
<1>2. /\ SubSeq(f, 1, k - 1) \in Seq(Line) /\ Len(SubSeq(f, 1, k - 1)) = k - 1
      /\ \A j \in 1 .. k - 1 : SubSeq(f, 1, k - 1)[j] = f[j]
  BY <1>1, SubSeqProperties
<1>3. /\ SubSeq(f, k + 1, Len(f)) \in Seq(Line)
      /\ Len(SubSeq(f, k + 1, Len(f))) = Len(f) - k
      /\ \A j \in 1 .. Len(f) - k : SubSeq(f, k + 1, Len(f))[j] = f[k + j]
  BY <1>1, SubSeqProperties
<1>4. g = SubSeq(f, 1, k - 1) \o SubSeq(f, k + 1, Len(f))
  BY DEF RemoveAt
<1>5. /\ g \in Seq(Line) /\ Len(g) = Len(f) - 1
      /\ \A j \in 1 .. k - 1 : g[j] = f[j]
      /\ \A j \in 1 .. Len(f) - k : g[(k - 1) + j] = f[k + j]
  <2> DEFINE a == SubSeq(f, 1, k - 1)
             b == SubSeq(f, k + 1, Len(f))
  <2>1. a \in Seq(Line) /\ b \in Seq(Line) /\ Len(a) = k - 1 /\ Len(b) = Len(f) - k
    BY <1>2, <1>3
  <2>2. /\ \A j \in 1 .. k - 1 : a[j] = f[j]
        /\ \A j \in 1 .. Len(f) - k : b[j] = f[k + j]
    BY <1>2, <1>3
  <2>3. g = a \o b
    BY <1>4
  <2> HIDE DEF a, b
  <2>4. /\ g \in Seq(Line) /\ Len(g) = Len(a) + Len(b)
        /\ \A j \in 1 .. Len(a) : g[j] = a[j]
        /\ \A j \in 1 .. Len(b) : g[Len(a) + j] = b[j]
    <3>1. /\ a \o b \in Seq(Line) /\ Len(a \o b) = Len(a) + Len(b)
          /\ \A j \in 1 .. Len(a) : (a \o b)[j] = a[j]
          /\ \A j \in 1 .. Len(b) : (a \o b)[Len(a) + j] = b[j]
      BY <2>1, ConcatLines
    <3> QED
      BY <2>3, <3>1, Zenon
  <2>5. Len(g) = Len(f) - 1
    BY <1>1, <2>1, <2>4
  <2>6. \A j \in 1 .. k - 1 : g[j] = f[j]
    BY <2>1, <2>2, <2>4
  <2>7. \A j \in 1 .. Len(f) - k : g[(k - 1) + j] = f[k + j]
    BY <2>1, <2>2, <2>4
  <2> QED
    BY <2>4, <2>5, <2>6, <2>7
<1>6. i \in 1 .. Len(f) /\ DOMAIN g = 1 .. Len(f) - 1
  BY <1>1, <1>5, LenProperties
<1>7. i < k
  <2> SUFFICES ASSUME k <= i PROVE FALSE
    BY <1>1, <1>6
  <2>1. k \in DOMAIN g /\ k + 1 \in DOMAIN f
    BY <1>1, <1>5, <1>6
  <2>2. g[k] = f[k + 1]
    BY <1>1, <1>5, <2>1, <1>6
  <2>3. g[k].seq = k
    BY <2>1 DEF Loads
  <2>4. f[k].seq < k
    <3>1. k < k + 1
      BY <1>1
    <3> QED
      BY <2>1, <2>2, <2>3, <3>1 DEF Growing
  <2>5. k > 1 => f[k - 1].seq = k - 1 /\ k - 1 \in DOMAIN f
    <3> SUFFICES ASSUME k > 1 PROVE f[k - 1].seq = k - 1 /\ k - 1 \in DOMAIN f
      OBVIOUS
    <3>1. k - 1 \in 1 .. k - 1 /\ k - 1 \in DOMAIN g /\ k - 1 \in DOMAIN f
      BY <1>1, <1>5, <1>6, <2>1
    <3> QED
      BY <1>5, <3>1 DEF Loads
  <2>6. f[k].seq \in Nat /\ f[k].seq >= 1
    BY LineSeq DEF Growing
  <2>7. k > 1 => f[k].seq > k - 1
    <3> SUFFICES ASSUME k > 1 PROVE f[k].seq > k - 1
      OBVIOUS
    <3>1. k - 1 \in DOMAIN f /\ k - 1 < k
      BY <1>1, <2>5
    <3>2. f[k - 1].seq < f[k].seq
      BY <3>1 DEF Growing
    <3> QED
      BY <2>5, <3>2, <1>1, <2>6
  <2> QED
    BY <1>1, <2>4, <2>6, <2>7
<1> QED
  BY <1>1, <1>5, <1>6, <1>7

\* Two lines that changed places have each other's number.
LEMMA SwappedShows ==
    ASSUME NEW f \in Seq(Line), Growing(f), NEW k \in DOMAIN f, k < Len(f)
    PROVE  ~Loads([f EXCEPT ![k] = f[k + 1], ![k + 1] = f[k]])
<1> DEFINE g == [f EXCEPT ![k] = f[k + 1], ![k + 1] = f[k]]
<1>1. DOMAIN f = 1 .. Len(f) /\ Len(f) \in Nat
  BY LenProperties
<1>2. k + 1 \in DOMAIN f /\ k < k + 1 /\ k \in Nat
  BY <1>1
<1>3. DOMAIN g = DOMAIN f /\ g[k] = f[k + 1] /\ g[k + 1] = f[k]
  BY <1>1, <1>2
<1>4. f[k].seq < f[k + 1].seq /\ f[k].seq \in Nat /\ f[k + 1].seq \in Nat
  BY <1>2, LineSeq DEF Growing
<1> HIDE DEF g
<1>5. Loads(g) => g[k].seq = k /\ g[k + 1].seq = k + 1
  BY <1>2, <1>3 DEF Loads
<1> QED
  BY <1>2, <1>3, <1>4, <1>5 DEF g

LEMMA DamageStep ==
    ASSUME TypeInv, OrderInv, DamageShows, [Next]_vars
    PROVE  DamageShows'
<1>1. CASE Damage
  <2>1. /\ intact' = file /\ file \in Seq(Line) /\ Growing(file)
        /\ \E k \in DOMAIN file :
            \/ file' = [file EXCEPT ![k].tok = MaxEmits + 1]
            \/ file' = RemoveAt(file, k)
            \/ k < Len(file) /\ file' = [file EXCEPT ![k] = file[k + 1], ![k + 1] = file[k]]
    BY <1>1 DEF Damage, TypeInv, OrderInv
  <2>2. PICK g : g = file'
    OBVIOUS
  <2>3. ASSUME Loads(g), NEW i \in 1 .. Len(g) - 1
        PROVE  i \in DOMAIN file /\ g[i] = file[i]
    <3>1. PICK k \in DOMAIN file :
            \/ g = [file EXCEPT ![k].tok = MaxEmits + 1]
            \/ g = RemoveAt(file, k)
            \/ k < Len(file) /\ g = [file EXCEPT ![k] = file[k + 1], ![k + 1] = file[k]]
      BY <2>1, <2>2
    <3>2. CASE g = [file EXCEPT ![k].tok = MaxEmits + 1]
      <4>1. file[k] \in Line /\ DOMAIN file = 1 .. Len(file) /\ Len(file) \in Nat
        BY <2>1, LenProperties, ElementOfSeq
      <4>2. g = [j \in 1 .. Len(file) |->
                  IF j = k THEN [file[k] EXCEPT !.tok = MaxEmits + 1] ELSE file[j]]
        BY <3>2, <4>1
      <4>3. /\ DOMAIN g = DOMAIN file /\ Len(g) = Len(file) /\ g[k].tok = MaxEmits + 1
            /\ \A j \in DOMAIN file : j # k => g[j] = file[j]
        BY <4>1, <4>2 DEF Line
      <4> QED
        BY <2>1, <2>3, <4>3, AlteredShows
    <3>3. CASE g = RemoveAt(file, k)
      BY <2>1, <2>3, <3>3, LostShows
    <3>4. CASE k < Len(file) /\ g = [file EXCEPT ![k] = file[k + 1], ![k + 1] = file[k]]
      BY <2>1, <2>3, <3>4, SwappedShows
    <3> QED
      BY <3>1, <3>2, <3>3, <3>4
  <2>4. Loads(file') => Loads(g)
    BY <2>2
  <2> QED
    BY <2>1, <2>2, <2>3, <2>4 DEF DamageShows, Loads, Linked
<1>2. CASE UNCHANGED <<file, intact>>
  BY <1>2 DEF DamageShows, Loads, Linked
<1>3. CASE ~Damage /\ ~UNCHANGED <<file, intact>>
  <2>1. intact = <<>> /\ intact' = intact
    BY <1>3 DEF TypeInv, Next, Open, OpenNew, Resume, OpenRefused, Close,
      EmitUnserializable, Crash, Emit, EmitDiskError, CrashInEmit, vars
  <2> QED
    BY <2>1 DEF DamageShows
<1> QED
  BY <1>1, <1>2, <1>3

-----------------------------------------------------------------------------
(* Complete logs                                                           *)

\* A file with a line that does not parse is never read back.
Broken(f) == \E i \in DOMAIN f : ~f[i].whole

\* The tokens, which number the emits, go up with the numbers of the lines.
Dated(lines, n) ==
    /\ \A x \in lines : x.tok <= n
    /\ \A x, y \in lines :
          x.tok # None /\ y.tok # None /\ x.seq < y.seq => x.tok < y.tok

\* Each of the lines is garbage, or bears the number and token of a source.
Stem(lines, sources) ==
    \A y \in lines : \/ y.tok = None
                     \/ \E x \in sources : x.seq = y.seq /\ x.tok = y.tok

\* The file f has the lines whose tokens are in a, or is not read back.
Covers(f, a) ==
    Broken(f) \/ \A i \in DOMAIN a : \E x \in ToSet(f) : x.tok = a[i]

AckedInv ==
    /\ acked \in Seq(Int) /\ Ascending(acked)
    /\ \A i \in DOMAIN acked : acked[i] \in 1 .. emits

\* What has settled holds all that emit() returned for, or will never be read
\* back.  The line that the next write puts right is not part of it: once it
\* is whole, nothing acknowledged may have been lost in the meantime.
CompleteInv ==
    /\ AckedInv
    /\ intact = <<>> => /\ Dated(ToSet(file) \cup ToSet(buffer), emits)
                        /\ Covers(Settled, acked)

LEMMA Member == ASSUME NEW s, NEW i \in DOMAIN s PROVE s[i] \in ToSet(s)
BY DEF ToSet

LEMMA MemberAt == ASSUME NEW s, NEW x \in ToSet(s) PROVE \E i \in DOMAIN s : x = s[i]
BY DEF ToSet

LEMMA LinesOf == ASSUME NEW s \in Seq(Line) PROVE ToSet(s) \subseteq Line
<1>1. \A i \in DOMAIN s : s[i] \in Line
  BY LenProperties, ElementOfSeq
<1> QED
  BY <1>1 DEF ToSet

\* Lines that stem from dated ones are dated.
LEMMA DatedStem ==
    ASSUME NEW sources \in SUBSET Line, NEW lines \in SUBSET Line, NEW n \in Nat,
           Dated(sources, n), Stem(lines, sources)
    PROVE  Dated(lines, n)
<1>1. ASSUME NEW y \in lines PROVE y.tok <= n
  <2>1. CASE y.tok = None
    BY <2>1 DEF None
  <2>2. CASE \E x \in sources : x.seq = y.seq /\ x.tok = y.tok
    BY <2>2 DEF Dated
  <2> QED
    BY <2>1, <2>2 DEF Stem
<1>2. ASSUME NEW y \in lines, NEW z \in lines, y.tok # None, z.tok # None,
             y.seq < z.seq
      PROVE  y.tok < z.tok
  <2>1. PICK a \in sources : a.seq = y.seq /\ a.tok = y.tok
    BY <1>2 DEF Stem
  <2>2. PICK b \in sources : b.seq = z.seq /\ b.tok = z.tok
    BY <1>2 DEF Stem
  <2> QED
    BY <1>2, <2>1, <2>2 DEF Dated
<1> QED
  BY <1>1, <1>2 DEF Dated

\* A later emit does not undo it.
LEMMA DatedLater ==
    ASSUME NEW lines \in SUBSET Line, NEW n \in Nat, Dated(lines, n)
    PROVE  Dated(lines, n + 1)
<1>1. ASSUME NEW x \in lines PROVE x.tok <= n + 1
  <2>1. x.tok <= n /\ x.tok \in Nat
    BY BoundAssumption DEF Dated, Line
  <2> QED
    BY <2>1
<1> QED
  BY <1>1 DEF Dated

\* What has all the lines of a covering file covers as much.
LEMMA CoversMore ==
    ASSUME NEW f, NEW g, NEW a, Covers(f, a),
           Broken(g) \/ ToSet(f) \subseteq ToSet(g)
    PROVE  Covers(g, a)
<1>1. CASE Broken(f) /\ ToSet(f) \subseteq ToSet(g)
  <2>1. PICK i \in DOMAIN f : ~f[i].whole
    BY <1>1 DEF Broken
  <2>2. f[i] \in ToSet(g)
    BY <1>1, Member
  <2>3. \E j \in DOMAIN g : f[i] = g[j]
    BY <2>2, MemberAt
  <2> QED
    BY <2>1, <2>3 DEF Covers, Broken
<1> QED
  BY <1>1 DEF Covers

\* What has settled is on disk.
LEMMA SettledOnDisk ==
    ASSUME file \in Seq(Line), begun => file # <<>>, Growing(file)
    PROVE  ToSet(Settled) \subseteq ToSet(file)
<1>1. \A i \in DOMAIN Settled : i \in DOMAIN file /\ Settled[i] = file[i]
  BY SettledOrder
<1> QED
  BY <1>1 DEF ToSet

\* Each line of a write is one of the lines it was made of, or garbage.
LEMMA WrittenStem ==
    ASSUME file \in Seq(Line), begun => file # <<>>, Growing(file),
           NEW ls \in Seq(Line), ls # <<>>, NEW r, r = Written(ls)
    PROVE  r \in Seq(Line) /\ Stem(ToSet(r), ToSet(file) \cup ToSet(ls))
<1> DEFINE sources == ToSet(file) \cup ToSet(ls)
<1>1. /\ Len(ls) \in Nat /\ Len(ls) >= 1 /\ DOMAIN ls = 1 .. Len(ls)
      /\ Len(file) \in Nat /\ DOMAIN file = 1 .. Len(file)
  BY LenProperties, EmptySeq
<1>2. /\ \A i \in DOMAIN file : file[i] \in sources
      /\ \A k \in DOMAIN ls : ls[k] \in sources
  BY DEF ToSet
<1> HIDE DEF sources
<1>3. ASSUME r \in Seq(Line),
             \A i \in DOMAIN r : r[i].tok = None \/ r[i] \in sources
      PROVE  r \in Seq(Line) /\ Stem(ToSet(r), sources)
  BY <1>3 DEF Stem, ToSet
<1>4. CASE r = Settled \o ls
  <2>1. /\ Settled \in Seq(Line)
        /\ \A i \in DOMAIN Settled : i \in DOMAIN file /\ Settled[i] = file[i]
    BY SettledOrder
  <2>2. /\ r \in Seq(Line) /\ Len(r) = Len(Settled) + Len(ls)
        /\ \A j \in 1 .. Len(Settled) : r[j] = Settled[j]
        /\ \A j \in 1 .. Len(ls) : r[Len(Settled) + j] = ls[j]
    BY <1>4, <2>1, ConcatLines
  <2>3. /\ DOMAIN r = 1 .. Len(r) /\ Len(Settled) \in Nat
        /\ DOMAIN Settled = 1 .. Len(Settled)
    BY <2>1, <2>2, LenProperties
  <2>4. ASSUME NEW i \in DOMAIN r PROVE r[i] \in sources
    <3>1. CASE i \in 1 .. Len(Settled)
      BY <1>2, <2>1, <2>2, <2>3, <3>1
    <3>2. CASE i - Len(Settled) \in 1 .. Len(ls)
      <4>1. Len(Settled) + (i - Len(Settled)) = i
        BY <2>2, <2>3
      <4> QED
        BY <1>1, <1>2, <2>2, <3>2, <4>1
    <3> QED
      BY <1>1, <2>2, <2>3, <3>1, <3>2
  <2> QED
    BY <1>3, <2>2, <2>4 DEF sources
<1>5. CASE /\ Settled = file /\ file # <<>>
           /\ r = Front(file) \o <<Merged(Last(file), Head(ls))>> \o Tail(ls)
  <2>1. /\ Written(ls) \in Seq(Line)
        /\ Len(Written(ls)) = Len(file) + Len(ls) - 1
        /\ \A i \in 1 .. Len(file) - 1 : Written(ls)[i] = file[i]
        /\ Written(ls)[Len(file)].tok = None
        /\ \A k \in 2 .. Len(ls) : Written(ls)[Len(file) + k - 1] = ls[k]
    <3>1. /\ file # <<>>
          /\ Written(ls) = Front(file) \o <<Merged(Last(file), Head(ls))>> \o Tail(ls)
      BY <1>5
    <3> QED
      BY <3>1, WrittenMerged
  <2>2. /\ r \in Seq(Line) /\ Len(r) = Len(file) + Len(ls) - 1
        /\ \A i \in 1 .. Len(file) - 1 : r[i] = file[i]
        /\ r[Len(file)].tok = None
        /\ \A k \in 2 .. Len(ls) : r[Len(file) + k - 1] = ls[k]
    BY <2>1, Zenon
  <2>3. DOMAIN r = 1 .. Len(r)
    BY <2>2, LenProperties
  <2>4. ASSUME NEW i \in DOMAIN r PROVE r[i].tok = None \/ r[i] \in sources
    <3>1. CASE i \in 1 .. Len(file) - 1
      <4>1. i \in DOMAIN file
        BY <1>1, <3>1
      <4>2. r[i] = file[i]
        BY <2>2, <3>1
      <4> QED
        BY <1>2, <4>1, <4>2
    <3>2. CASE i = Len(file)
      BY <2>2, <3>2
    <3>3. CASE i - Len(file) + 1 \in 2 .. Len(ls)
      <4>1. Len(file) + (i - Len(file) + 1) - 1 = i
        BY <1>1, <2>2, <2>3
      <4>2. r[i] = ls[i - Len(file) + 1]
        BY <2>2, <3>3, <4>1
      <4> QED
        BY <1>1, <1>2, <3>3, <4>2
    <3> QED
      BY <1>1, <2>2, <2>3, <3>1, <3>2, <3>3
  <2> QED
    BY <1>3, <2>2, <2>4 DEF sources
<1> QED
  BY <1>4, <1>5, WrittenShape DEF sources

\* A write loses no line, or leaves one that does not parse; so does what
\* remains settled when its last line is there in part.
LEMMA WrittenKeeps ==
    ASSUME file \in Seq(Line), begun => file # <<>>, Growing(file),
           NEW ls \in Seq(Line), ls # <<>>, NEW r, r = Written(ls)
    PROVE  /\ Broken(r) \/ ToSet(Settled) \cup ToSet(ls) \subseteq ToSet(r)
           /\ Last(r).tok # None =>
                 Broken(Front(r)) \/ ToSet(Settled) \subseteq ToSet(Front(r))
<1>1. /\ Len(ls) \in Nat /\ Len(ls) >= 1 /\ DOMAIN ls = 1 .. Len(ls)
      /\ Len(file) \in Nat /\ DOMAIN file = 1 .. Len(file)
  BY LenProperties, EmptySeq
<1>2. ASSUME r \in Seq(Line), Len(r) >= 1
      PROVE  /\ DOMAIN r = 1 .. Len(r) /\ DOMAIN Front(r) = 1 .. Len(r) - 1
             /\ Len(r) \in Nat
             /\ \A i \in 1 .. Len(r) - 1 : Front(r)[i] = r[i]
  <2>1. r # <<>>
    <3>1. Len(<<>>) = 0 /\ Len(r) # 0
      BY <1>2, LenProperties
    <3> QED
      BY <3>1
  <2>2. DOMAIN Front(r) = 1 .. Len(r) - 1
    BY <1>2, <2>1, FrontLast, LenProperties
  <2>3. \A i \in DOMAIN Front(r) : Front(r)[i] = r[i]
    BY <1>2, <2>1, FrontLast
  <2> QED
    BY <1>2, <2>2, <2>3, LenProperties
<1>3. CASE r = Settled \o ls
  <2>1. Settled \in Seq(Line)
    BY SettledOrder
  <2>2. /\ r \in Seq(Line) /\ Len(r) = Len(Settled) + Len(ls)
        /\ \A j \in 1 .. Len(Settled) : r[j] = Settled[j]
        /\ \A j \in 1 .. Len(ls) : r[Len(Settled) + j] = ls[j]
    BY <1>3, <2>1, ConcatLines
  <2>3. Len(Settled) \in Nat /\ DOMAIN Settled = 1 .. Len(Settled) /\ Len(r) >= 1
    BY <1>1, <2>1, <2>2, LenProperties
  <2>4. /\ DOMAIN r = 1 .. Len(r) /\ DOMAIN Front(r) = 1 .. Len(r) - 1
        /\ \A i \in 1 .. Len(r) - 1 : Front(r)[i] = r[i]
    BY <1>2, <2>2, <2>3
  <2>5. ASSUME NEW x \in ToSet(Settled) PROVE x \in ToSet(r) /\ x \in ToSet(Front(r))
    <3>1. PICK i \in DOMAIN Settled : x = Settled[i]
      BY MemberAt
    <3>2. i \in DOMAIN r /\ i \in 1 .. Len(r) - 1 /\ i \in DOMAIN Front(r) /\ x = r[i]
      BY <1>1, <2>2, <2>3, <2>4, <3>1
    <3>3. x = Front(r)[i]
      BY <2>4, <3>2
    <3> QED
      BY <3>2, <3>3, Member
  <2>6. ASSUME NEW x \in ToSet(ls) PROVE x \in ToSet(r)
    <3>1. PICK k \in DOMAIN ls : x = ls[k]
      BY MemberAt
    <3>2. Len(Settled) + k \in DOMAIN r /\ r[Len(Settled) + k] = x
      BY <1>1, <2>2, <2>3, <2>4, <3>1
    <3> QED
      BY <3>2, Member
  <2> QED
    BY <2>5, <2>6
<1>4. CASE /\ Settled = file /\ file # <<>>
           /\ r = Front(file) \o <<Merged(Last(file), Head(ls))>> \o Tail(ls)
  <2>1. /\ Written(ls) \in Seq(Line)
        /\ Len(Written(ls)) = Len(file) + Len(ls) - 1
        /\ Written(ls)[Len(file)].tok = None /\ ~Written(ls)[Len(file)].whole
    <3>1. /\ file # <<>>
          /\ Written(ls) = Front(file) \o <<Merged(Last(file), Head(ls))>> \o Tail(ls)
      BY <1>4
    <3> QED
      BY <3>1, WrittenMerged
  <2>2. /\ r \in Seq(Line) /\ Len(r) = Len(file) + Len(ls) - 1
        /\ r[Len(file)].tok = None /\ ~r[Len(file)].whole
    BY <2>1, Zenon
  <2>3. Len(file) >= 1 /\ Len(r) >= 1
    BY <1>1, <1>4, <2>2, EmptySeq
  <2>4. /\ DOMAIN r = 1 .. Len(r) /\ DOMAIN Front(r) = 1 .. Len(r) - 1
        /\ \A i \in 1 .. Len(r) - 1 : Front(r)[i] = r[i]
    BY <1>2, <2>2, <2>3
  <2>5. Broken(r)
    BY <1>1, <2>2, <2>3, <2>4 DEF Broken
  <2>6. ASSUME Last(r).tok # None PROVE Broken(Front(r))
    <3>1. Len(r) # Len(file)
      BY <2>2, <2>6 DEF Last
    <3>2. Len(file) \in 1 .. Len(r) - 1
      BY <1>1, <2>2, <2>3, <3>1
    <3> QED
      BY <2>2, <2>4, <3>2 DEF Broken
  <2> QED
    BY <2>5, <2>6
<1> QED
  BY <1>3, <1>4, WrittenShape

\* A new line comes after all others in number and in token.
LEMMA DatedWith ==
    ASSUME NEW lines \in SUBSET Line, NEW n \in Nat, Dated(lines, n),
           NEW x \in Line, x.tok = n + 1, \A y \in lines : y.seq < x.seq
    PROVE  Dated(lines \cup {x}, n + 1)
<1>1. \A y \in lines : y.tok <= n /\ y.tok \in Nat /\ y.seq \in Nat /\ y.seq < x.seq
  BY BoundAssumption DEF Dated, Line
<1>2. x.seq \in Nat
  BY DEF Line
<1>3. ASSUME NEW y \in lines \cup {x} PROVE y.tok <= n + 1
  BY <1>1
<1>4. ASSUME NEW y \in lines \cup {x}, NEW z \in lines \cup {x},
             y.tok # None, z.tok # None, y.seq < z.seq
      PROVE  y.tok < z.tok
  <2>1. CASE z = x
    <3>1. y \in lines
      BY <1>2, <1>4, <2>1
    <3> QED
      BY <1>1, <2>1, <3>1
  <2>2. CASE z \in lines
    <3>1. y \in lines
      BY <1>1, <1>2, <1>4, <2>2
    <3> QED
      BY <1>4, <2>2, <3>1 DEF Dated
  <2> QED
    BY <2>1, <2>2
<1> QED
  BY <1>3, <1>4 DEF Dated

\* What an emit sets out to write is dated, and holds the new token.
LEMMA QueueDated ==
    ASSUME TypeInv, OrderInv, CompleteInv, up, emits < MaxEmits,
           NEW stop \in BOOLEAN, NEW ls, ls = Append(buffer, NewLine(stop))
    PROVE  /\ Dated(ToSet(file) \cup ToSet(ls), emits + 1)
           /\ \E x \in ToSet(ls) : x.tok = emits + 1
<1>1. intact = <<>> /\ file \in Seq(Line) /\ buffer \in Seq(Line) /\ emits \in Nat
  BY DEF TypeInv
<1>2. PICK x \in Line : x = NewLine(stop)
  BY NewLineShape
<1>3. x.seq = w.seq + 1 /\ x.tok = emits + 1 /\ w.seq \in Nat
  BY <1>2, NewLineShape
<1>4. UpToNumber(file, w.seq) /\ UpToNumber(buffer, w.seq)
  BY <1>1 DEF OrderInv
<1> DEFINE lines == ToSet(file) \cup ToSet(buffer)
<1>5. lines \in SUBSET Line
  BY <1>1, LinesOf
<1>6. Dated(lines, emits)
  BY <1>1 DEF CompleteInv
<1>7. ASSUME NEW y \in lines PROVE y.seq < x.seq
  <2>1. y.seq <= w.seq
    BY <1>4, MemberAt DEF UpToNumber
  <2>2. y.seq \in Nat
    BY <1>5 DEF Line
  <2> HIDE DEF lines
  <2> QED
    BY <1>3, <2>1, <2>2
<1> HIDE DEF lines
<1>8. Dated(lines \cup {x}, emits + 1)
  BY <1>1, <1>3, <1>5, <1>6, <1>7, DatedWith
<1>9. /\ ls \in Seq(Line) /\ DOMAIN ls = 1 .. Len(buffer) + 1 /\ Len(buffer) \in Nat
      /\ DOMAIN buffer = 1 .. Len(buffer) /\ ls[Len(buffer) + 1] = x
      /\ \A i \in 1 .. Len(buffer) : ls[i] = buffer[i]
  <2>1. ls = Append(buffer, x)
    BY <1>2
  <2>2. /\ ls \in Seq(Line) /\ Len(ls) = Len(buffer) + 1 /\ Len(buffer) \in Nat
        /\ ls[Len(buffer) + 1] = x
        /\ \A i \in 1 .. Len(buffer) : ls[i] = buffer[i]
    BY <1>1, <2>1
  <2> QED
    BY <1>1, <2>2, LenProperties
<1>10. x \in ToSet(ls)
  <2>1. Len(buffer) + 1 \in DOMAIN ls
    BY <1>9
  <2> QED
    BY <1>9, <2>1, Member
<1>11. ASSUME NEW y \in ToSet(ls) PROVE y \in ToSet(buffer) \cup {x}
  <2>1. PICK i \in DOMAIN ls : y = ls[i]
    BY MemberAt
  <2>2. CASE i \in DOMAIN buffer
    <3>1. y = buffer[i]
      BY <1>9, <2>1, <2>2
    <3> QED
      BY <2>2, <3>1, Member
  <2>3. CASE i = Len(buffer) + 1
    BY <1>9, <2>1, <2>3
  <2> QED
    BY <1>9, <2>2, <2>3
<1>12. ToSet(file) \cup ToSet(ls) \subseteq lines \cup {x}
  BY <1>11 DEF lines
<1> QED
  BY <1>3, <1>8, <1>10, <1>12 DEF Dated

\* The lines of a write that stops short are those it set out with, or a part.
LEMMA UpToStem ==
    ASSUME NEW ls \in Seq(Line), NEW s \in Stops(ls)
    PROVE  /\ Stem(ToSet(UpTo(ls, s)), ToSet(ls))
           /\ s.cut # "none" \/ s.n # 0 => UpTo(ls, s) # <<>>
<1> DEFINE us == UpTo(ls, s)
<1>1. /\ us \in Seq(Line) /\ s.n \in 0 .. Len(ls) - 1
      /\ s.cut = "none" => Len(us) = s.n
      /\ s.cut # "none" => Len(us) = s.n + 1
      /\ \A i \in 1 .. Len(us) :
            i \in DOMAIN ls /\ us[i].seq = ls[i].seq /\ us[i].tok = ls[i].tok
  BY UpToShape
<1> HIDE DEF us
<1>2. DOMAIN us = 1 .. Len(us) /\ Len(us) \in Nat
  BY <1>1, LenProperties
<1>3. ASSUME NEW y \in ToSet(us) PROVE \E x \in ToSet(ls) : x.seq = y.seq /\ x.tok = y.tok
  <2>1. PICK i \in DOMAIN us : y = us[i]
    BY MemberAt
  <2>2. i \in DOMAIN ls /\ ls[i].seq = y.seq /\ ls[i].tok = y.tok
    BY <1>1, <1>2, <2>1
  <2> QED
    BY <2>2, Member
<1>4. ASSUME s.cut # "none" \/ s.n # 0 PROVE us # <<>>
  <2>1. Len(us) # 0 /\ Len(<<>>) = 0
    <3>1. s.n \in Nat
      BY LenProperties, <1>1
    <3> QED
      BY <1>1, <1>4, <3>1
  <2> QED
    BY <2>1
<1> QED
  BY <1>3, <1>4 DEF us, Stem

\* A write that stops short keeps the lines dated, and loses nothing that had
\* settled.
LEMMA StopsComplete ==
    ASSUME file \in Seq(Line), begun \in BOOLEAN, begun => file # <<>>,
           Growing(file), NEW ls \in Seq(Line), ls # <<>>,
           NEW n \in Nat, Dated(ToSet(file) \cup ToSet(ls), n),
           NEW a, Covers(Settled, a), NEW s \in Stops(ls), StopsAt(ls, s)
    PROVE  /\ Dated(ToSet(file') \cup ToSet(buffer'), n)
           /\ Covers(Settled', a)
<1>1. s.n \in 0 .. Len(ls) - 1 /\ Len(ls) \in Nat /\ DOMAIN ls = 1 .. Len(ls)
  BY UpToShape, LenProperties
<1>2. buffer' = SubSeq(ls, s.n + 1, Len(ls))
  BY DEF StopsAt
<1>3. CASE s.n = 0 /\ s.cut = "none"
  <2>1. file' = file /\ begun' = begun /\ buffer' = ls
    <3>1. buffer' = ls
      BY <1>2, <1>3, SubSeqFull
    <3> QED
      BY <1>3, <3>1 DEF StopsAt
  <2>2. Settled' = Settled
    BY <2>1 DEF Settled, Partial
  <2> QED
    BY <2>1, <2>2
<1>4. CASE ~(s.n = 0 /\ s.cut = "none")
  <2> DEFINE us == UpTo(ls, s)
             sources == ToSet(file) \cup ToSet(ls)
  <2>1. us \in Seq(Line) /\ us # <<>> /\ Stem(ToSet(us), ToSet(ls))
    BY <1>4, UpToShape, UpToStem
  <2>2. file' = Written(us) /\ begun' = (s.cut # "none")
    BY <1>4 DEF StopsAt
  <2> HIDE DEF us
  <2>3. PICK r : r = Written(us)
    OBVIOUS
  <2>4. r \in Seq(Line) /\ Stem(ToSet(r), ToSet(file) \cup ToSet(us))
    BY <2>1, <2>3, WrittenStem
  <2>5. /\ Broken(r) \/ ToSet(Settled) \cup ToSet(us) \subseteq ToSet(r)
        /\ Last(r).tok # None =>
              Broken(Front(r)) \/ ToSet(Settled) \subseteq ToSet(Front(r))
    BY <2>1, <2>3, WrittenKeeps
  <2>6. Dated(ToSet(file') \cup ToSet(buffer'), n)
    <3>1. PICK q : q = SubSeq(ls, s.n + 1, Len(ls))
      OBVIOUS
    <3>2. /\ q \in Seq(Line) /\ DOMAIN q = 1 .. Len(ls) - s.n
          /\ \A k \in 1 .. Len(ls) - s.n : q[k] = ls[s.n + k]
      <4>1. s.n \in 0 .. Len(ls)
        BY <1>1
      <4>2. /\ SubSeq(ls, s.n + 1, Len(ls)) \in Seq(Line)
            /\ Len(SubSeq(ls, s.n + 1, Len(ls))) = Len(ls) - s.n
            /\ \A k \in 1 .. Len(ls) - s.n : SubSeq(ls, s.n + 1, Len(ls))[k] = ls[s.n + k]
        BY <4>1, SuffixProperties
      <4> QED
        BY <3>1, <4>2, LenProperties
    <3>3. ASSUME NEW y \in ToSet(q) PROVE y \in ToSet(ls)
      <4>1. PICK k \in DOMAIN q : y = q[k]
        BY MemberAt
      <4>2. s.n + k \in DOMAIN ls /\ y = ls[s.n + k]
        BY <1>1, <3>2, <4>1
      <4> QED
        BY <4>2, Member
    <3>4. Stem(ToSet(r) \cup ToSet(q), sources)
      <4>1. ASSUME NEW y \in ToSet(r), y.tok # None
            PROVE  \E x \in sources : x.seq = y.seq /\ x.tok = y.tok
        <5>1. PICK z \in ToSet(file) \cup ToSet(us) : z.seq = y.seq /\ z.tok = y.tok
          BY <2>4, <4>1 DEF Stem
        <5>2. CASE z \in ToSet(us)
          <6>1. \E x \in ToSet(ls) : x.seq = z.seq /\ x.tok = z.tok
            BY <2>1, <4>1, <5>1, <5>2 DEF Stem
          <6> QED
            BY <5>1, <6>1
        <5> QED
          BY <5>1, <5>2
      <4>2. ASSUME NEW y \in ToSet(q) PROVE y \in sources
        BY <3>3
      <4> HIDE DEF sources
      <4> QED
        BY <4>1, <4>2 DEF Stem
    <3>5. ToSet(r) \cup ToSet(q) \in SUBSET Line /\ sources \in SUBSET Line
      BY <2>4, <3>2, LinesOf
    <3>6. Dated(ToSet(r) \cup ToSet(q), n)
      BY <3>4, <3>5, DatedStem
    <3>7. file' = r /\ buffer' = q
      BY <1>2, <2>2, <2>3, <3>1
    <3> QED
      BY <3>6, <3>7
  <2>7. Covers(Settled', a)
    <3>1. PICK t : t = Settled'
      OBVIOUS
    <3>2. t = IF Partial' THEN Front(r) ELSE r
      BY <2>2, <2>3, <3>1 DEF Settled
    <3>3. Partial' => Last(r).tok # None
      BY <2>2, <2>3 DEF Partial
    <3>4. Broken(t) \/ ToSet(Settled) \subseteq ToSet(t)
      BY <2>5, <3>2, <3>3
    <3>5. Covers(t, a)
      BY <3>4, CoversMore
    <3> QED
      BY <3>1, <3>5
  <2> QED
    BY <2>6, <2>7
<1> QED
  BY <1>3, <1>4

\* So does one that does not stop short.
LEMMA WholeWrite ==
    ASSUME file \in Seq(Line), begun => file # <<>>, Growing(file),
           NEW ls \in Seq(Line), ls # <<>>,
           NEW n \in Nat, Dated(ToSet(file) \cup ToSet(ls), n),
           NEW a, Covers(Settled, a), NEW r, r = Written(ls)
    PROVE  /\ Dated(ToSet(r), n) /\ Covers(r, a)
           /\ Broken(r) \/ ToSet(ls) \subseteq ToSet(r)
<1>1. r \in Seq(Line) /\ Stem(ToSet(r), ToSet(file) \cup ToSet(ls))
  BY WrittenStem
<1>2. Broken(r) \/ ToSet(Settled) \cup ToSet(ls) \subseteq ToSet(r)
  BY WrittenKeeps
<1>3. ToSet(r) \in SUBSET Line /\ ToSet(file) \cup ToSet(ls) \in SUBSET Line
  BY <1>1, LinesOf
<1>4. Dated(ToSet(r), n)
  BY <1>1, <1>3, DatedStem
<1>5. Covers(r, a)
  <2>1. Broken(r) \/ ToSet(Settled) \subseteq ToSet(r)
    BY <1>2
  <2> QED
    BY <2>1, CoversMore
<1> QED
  BY <1>2, <1>4, <1>5

\* One more token, above all others.
LEMMA AckedAppend ==
    ASSUME NEW a \in Seq(Int), Ascending(a), NEW n \in Nat,
           \A i \in DOMAIN a : a[i] \in 1 .. n, NEW b, b = Append(a, n + 1)
    PROVE  /\ b \in Seq(Int) /\ Ascending(b) /\ \A i \in DOMAIN b : b[i] \in 1 .. n + 1
<1>1. /\ b \in Seq(Int) /\ Len(b) = Len(a) + 1 /\ Len(a) \in Nat
      /\ b[Len(a) + 1] = n + 1 /\ \A i \in 1 .. Len(a) : b[i] = a[i]
  OBVIOUS
<1>2. DOMAIN a = 1 .. Len(a) /\ DOMAIN b = 1 .. Len(a) + 1
  BY <1>1, LenProperties
<1>3. ASSUME NEW i \in DOMAIN b
      PROVE  \/ i = Len(a) + 1 /\ b[i] = n + 1
             \/ i \in DOMAIN a /\ i < Len(a) + 1 /\ b[i] = a[i]
  BY <1>1, <1>2
<1>4. ASSUME NEW i \in DOMAIN b PROVE b[i] \in 1 .. n + 1
  BY <1>3
<1>5. ASSUME NEW i \in DOMAIN b, NEW j \in DOMAIN b, i < j PROVE b[i] < b[j]
  <2>1. i \in DOMAIN a /\ b[i] = a[i] /\ a[i] \in 1 .. n
    BY <1>1, <1>2, <1>3, <1>5
  <2>2. CASE j = Len(a) + 1 /\ b[j] = n + 1
    BY <2>1, <2>2
  <2>3. CASE j \in DOMAIN a /\ b[j] = a[j]
    BY <1>5, <2>1, <2>3 DEF Ascending
  <2> QED
    BY <1>3, <2>2, <2>3
<1> QED
  BY <1>1, <1>4, <1>5 DEF Ascending

\* What covers the tokens so far and has the next one covers them all.
LEMMA CoversNext ==
    ASSUME NEW a \in Seq(Int), NEW n, NEW b, b = Append(a, n), NEW f, Covers(f, a),
           Broken(f) \/ \E x \in ToSet(f) : x.tok = n, n \in Int
    PROVE  Covers(f, b)
<1> SUFFICES ASSUME ~Broken(f), NEW i \in DOMAIN b PROVE \E x \in ToSet(f) : x.tok = b[i]
  BY DEF Covers
<1>1. /\ \A j \in DOMAIN a : \E x \in ToSet(f) : x.tok = a[j]
      /\ \E x \in ToSet(f) : x.tok = n
  BY DEF Covers
<1>2. /\ Len(b) = Len(a) + 1 /\ Len(a) \in Nat /\ b[Len(a) + 1] = n
      /\ \A j \in 1 .. Len(a) : b[j] = a[j]
      /\ DOMAIN a = 1 .. Len(a) /\ DOMAIN b = 1 .. Len(a) + 1
  BY AppendProperties, LenProperties
<1>3. CASE i = Len(a) + 1
  BY <1>1, <1>2, <1>3
<1>4. CASE i \in 1 .. Len(a)
  <2>1. b[i] = a[i] /\ i \in DOMAIN a
    BY <1>2, <1>4
  <2> QED
    BY <1>1, <2>1
<1> QED
  BY <1>2, <1>3, <1>4

\* With an empty buffer, it is the file alone that counts.
LEMMA CompleteQuiet ==
    ASSUME AckedInv', buffer' = <<>>, begun' = FALSE,
           intact' = <<>> => Dated(ToSet(file'), emits') /\ Covers(file', acked')
    PROVE  CompleteInv'
<1>1. ToSet(<<>>) = {}
  BY DEF ToSet
<1>2. Settled' = file'
  BY DEF Settled, Partial
<1> QED
  BY <1>1, <1>2 DEF CompleteInv

LEMMA CompleteInit == Init => CompleteInv
<1> SUFFICES ASSUME Init PROVE CompleteInv
  OBVIOUS
<1>1. ToSet(<<>>) = {} /\ DOMAIN <<>> = {}
  BY DEF ToSet
<1>2. file = <<>> /\ buffer = <<>> /\ begun = FALSE /\ acked = <<>>
  BY DEF Init
<1>3. Settled = <<>>
  BY <1>2 DEF Settled, Partial
<1>4. AckedInv
  BY <1>1, <1>2 DEF AckedInv, Ascending
<1>5. Dated(ToSet(file) \cup ToSet(buffer), emits) /\ Covers(Settled, acked)
  BY <1>1, <1>2, <1>3 DEF Dated, Covers
<1> QED
  BY <1>4, <1>5 DEF CompleteInv

\* Writing, whether it fails, stops short or is cut by a crash.
LEMMA CompleteEmit ==
    ASSUME TypeInv, OrderInv, CompleteInv, NEW stop \in BOOLEAN,
           Emit(stop) \/ EmitDiskError(stop) \/ CrashInEmit(stop)
    PROVE  CompleteInv'
<1>1. up /\ emits < MaxEmits /\ emits' = emits + 1 /\ intact' = intact
  BY DEF Emit, EmitDiskError, CrashInEmit
<1>2. PICK ls : ls = Append(buffer, NewLine(stop))
  OBVIOUS
<1>3. /\ intact = <<>> /\ file \in Seq(Line) /\ Growing(file)
      /\ ls \in Seq(Line) /\ ls # <<>>
  BY <1>1, <1>2, QueueOrder
<1>4. /\ Dated(ToSet(file) \cup ToSet(ls), emits + 1)
      /\ \E x \in ToSet(ls) : x.tok = emits + 1
  BY <1>1, <1>2, QueueDated
<1>5. begun \in BOOLEAN /\ (begun => file # <<>>) /\ emits \in Nat /\ emits + 1 \in Nat
  BY DEF TypeInv
<1>6. Covers(Settled, acked) /\ AckedInv
  BY <1>3 DEF CompleteInv
<1>7. acked' = acked => AckedInv'
  BY <1>1, <1>5, <1>6 DEF AckedInv
\* What is left of a write the machine did not survive, or that succeeded.
<1>8. ASSUME NEW us \in Seq(Line), us # <<>>, Stem(ToSet(us), ToSet(ls)),
             NEW r, r = Written(us)
      PROVE  /\ Dated(ToSet(r), emits + 1) /\ Covers(r, acked)
             /\ Broken(r) \/ ToSet(us) \subseteq ToSet(r)
  <2>1. Stem(ToSet(file) \cup ToSet(us), ToSet(file) \cup ToSet(ls))
    BY <1>8 DEF Stem
  <2>2. /\ ToSet(file) \cup ToSet(us) \in SUBSET Line
        /\ ToSet(file) \cup ToSet(ls) \in SUBSET Line
    BY <1>3, <1>8, LinesOf
  <2>3. Dated(ToSet(file) \cup ToSet(us), emits + 1)
    BY <1>4, <1>5, <2>1, <2>2, DatedStem
  <2> QED
    BY <1>3, <1>5, <1>6, <1>8, <2>3, WholeWrite
<1>9. Stem(ToSet(ls), ToSet(ls))
  BY DEF Stem
<1>10. CASE Emit(stop)
  <2>1. /\ file' = Written(ls) /\ buffer' = <<>> /\ begun' = FALSE
        /\ acked' = Append(acked, NewLine(stop).tok)
    BY <1>2, <1>10 DEF Emit, Flushed
  <2>2. acked' = Append(acked, emits + 1)
    BY <1>1, <2>1, NewLineShape
  <2>3. PICK r : r = Written(ls)
    OBVIOUS
  <2>4. /\ Dated(ToSet(r), emits + 1) /\ Covers(r, acked)
        /\ Broken(r) \/ ToSet(ls) \subseteq ToSet(r)
    BY <1>3, <1>8, <1>9, <2>3
  <2>5. PICK b : b = Append(acked, emits + 1)
    OBVIOUS
  <2>6. b \in Seq(Int) /\ Ascending(b) /\ \A i \in DOMAIN b : b[i] \in 1 .. emits + 1
    BY <1>5, <1>6, <2>5, AckedAppend DEF AckedInv
  <2>7. Covers(r, b)
    <3>1. Broken(r) \/ \E x \in ToSet(r) : x.tok = emits + 1
      BY <1>4, <2>4
    <3>2. acked \in Seq(Int) /\ emits + 1 \in Int
      BY <1>5, <1>6 DEF AckedInv
    <3> QED
      BY <2>4, <2>5, <3>1, <3>2, CoversNext
  <2>8. AckedInv'
    BY <1>1, <2>2, <2>5, <2>6 DEF AckedInv, Ascending
  <2>9. Dated(ToSet(file'), emits') /\ Covers(file', acked')
    BY <1>1, <2>1, <2>2, <2>3, <2>4, <2>5, <2>7
  <2> QED
    BY <2>1, <2>8, <2>9, CompleteQuiet
<1>11. CASE EmitDiskError(stop)
  <2>1. PICK s \in Stops(ls) : StopsAt(ls, s)
    BY <1>2, <1>11 DEF EmitDiskError
  <2>2. acked' = acked
    BY <1>11 DEF EmitDiskError
  <2>3. /\ Dated(ToSet(file') \cup ToSet(buffer'), emits + 1)
        /\ Covers(Settled', acked)
    BY <1>3, <1>4, <1>5, <1>6, <2>1, StopsComplete
  <2> QED
    BY <1>1, <1>7, <2>2, <2>3 DEF CompleteInv
<1>12. CASE CrashInEmit(stop)
  <2>1. buffer' = <<>> /\ begun' = FALSE /\ acked' = acked
    BY <1>12 DEF CrashInEmit
  <2>2. \E us \in Seq(Line) : /\ us # <<>> /\ Stem(ToSet(us), ToSet(ls))
                              /\ file' = Written(us)
    <3>1. CASE file' = Written(ls)
      BY <1>3, <1>9, <3>1
    <3>2. CASE \E s \in Stops(ls) : s.cut # "none" /\ file' = Written(UpTo(ls, s))
      <4>1. PICK s \in Stops(ls) : s.cut # "none" /\ file' = Written(UpTo(ls, s))
        BY <3>2
      <4>2. /\ UpTo(ls, s) \in Seq(Line) /\ UpTo(ls, s) # <<>>
            /\ Stem(ToSet(UpTo(ls, s)), ToSet(ls))
        BY <1>3, <4>1, UpToShape, UpToStem
      <4> QED
        BY <4>1, <4>2
    <3> QED
      BY <1>2, <1>12, <3>1, <3>2 DEF CrashInEmit
  <2>3. PICK us \in Seq(Line) : /\ us # <<>> /\ Stem(ToSet(us), ToSet(ls))
                                /\ file' = Written(us)
    BY <2>2
  <2>4. PICK r : r = Written(us)
    OBVIOUS
  <2>5. Dated(ToSet(r), emits + 1) /\ Covers(r, acked)
    BY <1>8, <2>3, <2>4
  <2>6. Dated(ToSet(file'), emits') /\ Covers(file', acked')
    BY <1>1, <2>1, <2>3, <2>4, <2>5
  <2> QED
    BY <1>7, <2>1, <2>6, CompleteQuiet
<1> QED
  BY <1>10, <1>11, <1>12

LEMMA CompleteStep ==
    ASSUME TypeInv, OrderInv, CompleteInv, [Next]_vars
    PROVE  CompleteInv'
<1>1. CASE Open
  <2>1. UNCHANGED <<file, buffer, begun, emits, acked, intact>>
    BY <1>1 DEF Open, OpenNew, Resume, OpenRefused
  <2> QED
    BY <2>1 DEF CompleteInv, AckedInv, Settled, Partial
<1>2. CASE \E stop \in BOOLEAN : Emit(stop) \/ EmitDiskError(stop) \/ CrashInEmit(stop)
  BY <1>2, CompleteEmit
<1>3. CASE EmitUnserializable
  <2>1. UNCHANGED <<file, buffer, begun, acked, intact>> /\ emits' = emits + 1 /\ up
    BY <1>3 DEF EmitUnserializable
  <2>2. /\ emits \in Nat /\ intact = <<>>
        /\ ToSet(file) \cup ToSet(buffer) \in SUBSET Line
    BY <2>1, LinesOf DEF TypeInv
  <2>3. Dated(ToSet(file) \cup ToSet(buffer), emits + 1)
    BY <2>2, DatedLater DEF CompleteInv
  <2>4. AckedInv'
    BY <2>1, <2>2 DEF CompleteInv, AckedInv
  <2> QED
    BY <2>1, <2>2, <2>3, <2>4 DEF CompleteInv, Settled, Partial
<1>4. ASSUME buffer' = <<>>, begun' = FALSE, UNCHANGED <<emits, acked, intact>>, up,
             file' = file \/ (buffer # <<>> /\ file' = Written(buffer))
      PROVE  CompleteInv'
  <2>1. /\ intact = <<>> /\ file \in Seq(Line) /\ buffer \in Seq(Line)
        /\ begun => file # <<>>
    BY <1>4 DEF TypeInv
  <2>2. Growing(file) /\ emits \in Nat
    BY <2>1 DEF OrderInv, TypeInv
  <2>3. /\ Dated(ToSet(file) \cup ToSet(buffer), emits)
        /\ Covers(Settled, acked) /\ AckedInv
    BY <2>1 DEF CompleteInv
  <2>4. PICK r : r = file'
    OBVIOUS
  <2>5. Dated(ToSet(r), emits) /\ Covers(r, acked)
    <3>1. CASE r = file
      <4>1. ToSet(Settled) \subseteq ToSet(file)
        BY <2>1, <2>2, SettledOnDisk
      <4>2. Covers(file, acked)
        BY <2>3, <4>1, CoversMore
      <4> QED
        BY <2>3, <3>1, <4>2 DEF Dated
    <3>2. CASE buffer # <<>> /\ r = Written(buffer)
      BY <2>1, <2>2, <2>3, <3>2, WholeWrite
    <3> QED
      BY <1>4, <2>4, <3>1, <3>2
  <2>6. AckedInv'
    BY <1>4, <2>3 DEF AckedInv
  <2>7. Dated(ToSet(file'), emits') /\ Covers(file', acked')
    BY <1>4, <2>4, <2>5
  <2> QED
    BY <1>4, <2>6, <2>7, CompleteQuiet
<1>5. CASE Close
  <2>1. /\ up /\ file' = Written(buffer) /\ buffer' = <<>> /\ begun' = FALSE
        /\ UNCHANGED <<emits, acked, intact>>
    BY <1>5 DEF Close
  <2>2. buffer = <<>> => file' = file
    BY <2>1, NothingWritten
  <2> QED
    BY <1>4, <2>1, <2>2
<1>6. CASE Crash
  BY <1>4, <1>6 DEF Crash
<1>7. CASE Damage
  <2>1. intact' = file /\ UNCHANGED <<acked, emits>> /\ file # <<>>
    BY <1>7 DEF Damage
  <2> QED
    BY <2>1 DEF CompleteInv, AckedInv
<1>8. CASE UNCHANGED vars
  BY <1>8 DEF vars, CompleteInv, AckedInv, Settled, Partial
<1> QED
  BY <1>1, <1>2, <1>3, <1>5, <1>6, <1>7, <1>8 DEF Next

\* A file that is read back has no broken line, so its settled lines hold all
\* that was acknowledged: two ascending lists with the same members.
LEMMA CompleteNow ==
    ASSUME TypeInv, OrderInv, CompleteInv
    PROVE  LoadedLogsAreComplete
<1> SUFFICES ASSUME intact = <<>>, Loads(file)
             PROVE  acked = Picked([i \in DOMAIN file |-> file[i].tok],
                                   {i \in DOMAIN file : file[i].tok \in ToSet(acked)})
  BY DEF LoadedLogsAreComplete
<1> DEFINE toks == [i \in DOMAIN file |-> file[i].tok]
           K == {i \in DOMAIN file : file[i].tok \in ToSet(acked)}
<1>1. /\ file \in Seq(Line) /\ (begun => file # <<>>)
      /\ DOMAIN file = 1 .. Len(file) /\ Len(file) \in Nat
  BY LenProperties DEF TypeInv
<1>2. Growing(file) /\ Dated(ToSet(file), emits)
  BY DEF OrderInv, CompleteInv, Dated
<1>3. ToSet(Settled) \subseteq ToSet(file)
  BY <1>1, <1>2, SettledOnDisk DEF TypeInv
<1>4. ~Broken(file)
  BY DEF Loads, Broken
<1>5. \A i \in DOMAIN acked : \E x \in ToSet(file) : x.tok = acked[i]
  <2>1. Covers(Settled, acked)
    BY DEF CompleteInv
  <2>2. Covers(file, acked)
    BY <1>3, <2>1, CoversMore
  <2> QED
    BY <1>4, <2>2 DEF Covers
<1>6. AckedInv
  BY DEF CompleteInv
<1>7. toks \in Seq(Int) /\ Len(toks) = Len(file) /\ \A i \in DOMAIN file : toks[i] = file[i].tok
  <2>1. \A i \in DOMAIN file : file[i].tok \in Int
    <3> SUFFICES ASSUME NEW i \in DOMAIN file PROVE file[i].tok \in Int
      OBVIOUS
    <3>1. file[i] \in ToSet(file) /\ ToSet(file) \subseteq Line
      BY <1>1, Member, LinesOf
    <3>2. file[i] \in Line
      BY <3>1
    <3> QED
      BY <3>2, BoundAssumption DEF Line
  <2>2. toks \in [1 .. Len(file) -> Int]
    BY <1>1, <2>1
  <2>3. toks \in Seq(Int) /\ Len(toks) = Len(file)
    <3> HIDE DEF toks
    <3> QED
      BY <1>1, <2>2, SequenceOfLength
  <2> QED
    BY <2>3
<1>8. K \subseteq 1 .. Len(toks)
  BY <1>1, <1>7
<1>9. ASSUME NEW k \in K PROVE k \in DOMAIN file /\ toks[k] # None /\ file[k] \in ToSet(file)
  <2>1. PICK i \in DOMAIN acked : file[k].tok = acked[i]
    BY MemberAt
  <2>2. acked[i] \in 1 .. emits
    BY <1>6 DEF AckedInv
  <2>3. acked[i] # 0
    BY <2>2
  <2> QED
    BY <1>7, <2>1, <2>3, Member DEF None
<1> HIDE DEF toks, K
<1>10. AscendingAt(toks, K)
  <2> SUFFICES ASSUME NEW k \in K, NEW m \in K, k < m PROVE toks[k] < toks[m]
    BY DEF AscendingAt
  <2>1. /\ k \in DOMAIN file /\ m \in DOMAIN file
        /\ file[k] \in ToSet(file) /\ file[m] \in ToSet(file)
        /\ toks[k] # None /\ toks[m] # None
    BY <1>9
  <2>2. file[k].seq < file[m].seq
    BY <1>2, <2>1 DEF Growing
  <2> QED
    BY <1>2, <1>7, <2>1, <2>2 DEF Dated
<1>11. SameMembers(acked, toks, K)
  <2>1. ASSUME NEW i \in DOMAIN acked PROVE \E k \in K : acked[i] = toks[k]
    <3>1. PICK x \in ToSet(file) : x.tok = acked[i]
      BY <1>5
    <3>2. PICK k \in DOMAIN file : x = file[k]
      BY MemberAt
    <3>3. acked[i] \in ToSet(acked)
      BY Member
    <3>4. k \in K
      BY <3>1, <3>2, <3>3 DEF K
    <3> QED
      BY <1>7, <3>1, <3>2, <3>4
  <2>2. ASSUME NEW k \in K PROVE \E i \in DOMAIN acked : toks[k] = acked[i]
    <3>1. k \in DOMAIN file /\ file[k].tok \in ToSet(acked)
      BY DEF K
    <3>2. \E i \in DOMAIN acked : file[k].tok = acked[i]
      BY <3>1, MemberAt
    <3> QED
      BY <1>7, <3>1, <3>2
  <2> QED
    BY <2>1, <2>2 DEF SameMembers
<1>12. acked = Picked(toks, K)
  BY <1>6, <1>7, <1>8, <1>10, <1>11, PickedAscending DEF AckedInv
<1> QED
  BY <1>12 DEF toks, K

-----------------------------------------------------------------------------
(* Theorems                                                                *)

LEMMA LogSafety ==
    Spec => [](TypeInv /\ OrderInv /\ CleanInv /\ CompleteInv /\ DamageShows)
<1>1. Init => TypeInv /\ OrderInv /\ CleanInv /\ CompleteInv /\ DamageShows
  BY OrderInit, CleanInit, CompleteInit DEF Init, DamageShows
<1>2. TypeInv /\ OrderInv /\ CleanInv /\ CompleteInv /\ DamageShows /\ [Next]_vars
        => (TypeInv /\ OrderInv /\ CleanInv /\ CompleteInv /\ DamageShows)'
  BY OrderStep, CleanStep, CompleteStep, DamageStep
<1> QED
  BY <1>1, <1>2, PTL DEF Spec

\* A run whose emits all returned has a log that reads back, whatever crashes
\* and resumes it went through, for any number of them.
THEOREM CleanRunsReadBack == Spec => []CleanRunsLoad
<1>1. CleanInv => CleanRunsLoad
  BY DEF CleanInv, CleanRunsLoad
<1> QED
  BY <1>1, LogSafety, PTL

\* A log that reads back holds every event emit() returned for, in the order
\* it returned, whatever failed emits left in the buffer and crashes on disk.
THEOREM LoadedLogsHoldAll == Spec => []LoadedLogsAreComplete
<1>1. TypeInv /\ OrderInv /\ CompleteInv => LoadedLogsAreComplete
  BY CompleteNow
<1> QED
  BY <1>1, LogSafety, PTL

\* However a log came to be as it is, torn lines and failed emits included: if
\* it still reads back when a line was altered, lost or moved, it is the
\* beginning of what was written, but for its last line.
THEOREM DamageIsSeen == Spec => []DamageShows
BY LogSafety, PTL
=============================================================================
