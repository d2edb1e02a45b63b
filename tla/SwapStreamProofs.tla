-------------------------- MODULE SwapStreamProofs --------------------------
(***************************************************************************)
(* Proofs that the swap stream logs no swap and sells no bin twice, that a *)
(* gap in the log covers every swap it lost, and that verify_log.py raises *)
(* no false alarm about the log of a stream that met no error: for every   *)
(* pool, any ladders and any number of copies, rotations, failed reads and *)
(* failed emits.                                                           *)
(***************************************************************************)
EXTENDS StreamAudit, OrderedProofs

EventSet ==
    [type : {"observed_trade", "bin_fill", "swap_stream_gap"},
     swap : Nat, ours : BOOLEAN, bin : Nat, ladder : Nat]

\* A half of a line.
Chunks == Swaps \X {1, 2}

\* A file that is not there holds nothing.
FileInv == present \in BOOLEAN /\ (~present => file = <<>>)

TypeInv ==
    /\ landed \in 0 .. Len(Moves)
    /\ file \in Seq(Chunks)
    /\ batch \in Seq(Swaps)
    /\ offset \in Nat
    /\ task \in {"started", "filling", "tail", "error", "refill", "refilling",
                 "refill error", "pause", "ended"}
    /\ seen \subseteq Swaps /\ done \subseteq Swaps /\ repeated \subseteq Swaps
    /\ got \subseteq 1 .. landed
    /\ last \in Swaps \cup {0}
    /\ resting \in [Bins -> {"none", "bid", "ask"}]
    /\ ladder \in Nat /\ registered \in Nat
    /\ faults \in Nat
    /\ log \in Seq(EventSet)
    /\ FileInv
    /\ lostAt \in [Swaps -> Nat]

\* Where the task is bounds what it holds.
TaskInv ==
    /\ batch # <<>> => task \in {"filling", "refilling", "tail"}
    /\ task = "started" => last = 0
    /\ task = "refill" =>
        Len(log) \in Events("swap_stream_gap") /\ log[Len(log)].swap = last

\* A loss lies no further on than the log reaches.
LostInv == \A i \in Swaps : lostAt[i] <= Len(log)

\* What was consumed was read, and what was read or lies in the file landed.
KnownInv ==
    /\ done \subseteq seen /\ seen \subseteq got
    /\ last \in got \cup {0}
    /\ \A n \in 1 .. Len(batch) : batch[n] \in got
    /\ \A k \in 1 .. Len(file) : file[k][1] \in 1 .. landed

\* A swap the executor wrote once comes after all that was read before it, and
\* after every line before its own.
OrderInv ==
    /\ \A k \in StartAt + 1 .. Len(file) :
        file[k][2] = 1 /\ file[k][1] \notin repeated =>
            /\ \A i \in got : i < file[k][1]
            /\ \A m \in 1 .. k - 1 : file[m][2] = 1 => file[m][1] < file[k][1]
    /\ \A n \in 1 .. Len(batch) :
        batch[n] \notin repeated =>
            /\ last < batch[n] /\ batch[n] \notin seen
            /\ \A m \in 1 .. n - 1 : batch[m] < batch[n]

\* A swap in the log is one that was seen.
TradeInv ==
    /\ \A k \in Events("observed_trade") : log[k].swap \in seen
    /\ LoggedOnce

\* A bin that filled under this ladder is empty, and one without a ladder too.
FillInv ==
    /\ ladder <= registered
    /\ ladder = 0 => resting = NoLiquidity
    /\ \A k \in Events("bin_fill") :
        /\ log[k].ladder \in 1 .. registered
        /\ log[k].bin \in Bins
        /\ log[k].ladder = ladder => resting[log[k].bin] = "none"
    /\ FilledOnce

\* A fill has its trade in the log.  While no emit has failed, a trade that
\* crossed the ladder has its fill, and what was read and is not in the batch
\* was logged.
AuditInv ==
    /\ FillSwaps \subseteq TradeSwaps
    /\ faults = 0 =>
        /\ CrossedOursWithoutFill = {}
        /\ task \in {"started", "filling", "tail"}
        /\ done = seen /\ TradeSwaps = done
        /\ got = done \cup ToSet(batch)

StreamInv ==
    TypeInv /\ TaskInv /\ KnownInv /\ OrderInv /\ TradeInv /\ FillInv
    /\ LostInv /\ GapCoversLoss /\ AuditInv

-----------------------------------------------------------------------------
(* The operators of the stream. *)

LEMMA SwapsAreNumbers ==
    /\ Len(Moves) \in Nat
    /\ Swaps \subseteq Nat \ {0}
    /\ \A i \in Swaps : Moves[i] \in Nat \X Nat
<1>1. Moves \in Seq(Nat \X Nat)
  BY SwapAssumption
<1>2. Len(Moves) \in Nat /\ Swaps = 1 .. Len(Moves)
  BY <1>1, LenProperties DEF Swaps
<1>3. \A i \in Swaps : Moves[i] \in Nat \X Nat
  BY <1>1, <1>2, ElementOfSeq
<1>4. Swaps \subseteq Nat \ {0}
  BY <1>2
<1> QED BY <1>2, <1>3, <1>4

\* The rows of a read are the swaps of the whole lines it finds, in the order
\* of the lines.
LEMMA RowsFromFile ==
  ASSUME file \in Seq(Chunks), NEW n \in Nat
  PROVE  /\ RowsFrom(n) \in Seq(Swaps)
         /\ \A k \in WholeFrom(n) :
                \E a \in 1 .. Len(RowsFrom(n)) : RowsFrom(n)[a] = file[k][1]
         /\ \A a, b \in 1 .. Len(RowsFrom(n)) :
                \E k \in WholeFrom(n), m \in WholeFrom(n) :
                    /\ RowsFrom(n)[a] = file[k][1]
                    /\ RowsFrom(n)[b] = file[m][1]
                    /\ k < m <=> a < b
<1> DEFINE s == [k \in 1 .. Len(file) |-> file[k][1]]
<1> DEFINE K == WholeFrom(n)
<1>1. Len(file) \in Nat /\ \A k \in 1 .. Len(file) : file[k] \in Chunks
  BY LenProperties, ElementOfSeq
<1>2. s \in [1 .. Len(file) -> Swaps]
  BY <1>1 DEF Chunks
<1>3. s \in Seq(Swaps) /\ Len(s) = Len(file)
  <2> HIDE DEF s
  <2> QED BY <1>1, <1>2, SequenceOfLength
<1>4. K \subseteq 1 .. Len(s)
  BY <1>1, <1>3 DEF WholeFrom
<1>5. \A k \in K : s[k] = file[k][1]
  BY <1>3, <1>4
<1>6. RowsFrom(n) = Picked(s, K)
  BY DEF RowsFrom
<1> HIDE DEF s, K
<1>7. Picked(s, K) \in Seq(Swaps)
  BY <1>3, <1>4, PickedType
<1>8. \A k \in K : \E a \in 1 .. Len(Picked(s, K)) : Picked(s, K)[a] = s[k]
  BY <1>3, <1>4, PickedOnto
<1>9. ASSUME NEW a \in 1 .. Len(Picked(s, K)), NEW b \in 1 .. Len(Picked(s, K))
      PROVE  \E k \in K, m \in K :
                /\ Picked(s, K)[a] = s[k] /\ Picked(s, K)[b] = s[m]
                /\ k < m <=> a < b
  <2>1. /\ Len(Picked(s, K)) = Len(InOrder(K))
        /\ K \subseteq Int /\ IsFiniteSet(K)
    BY <1>1, <1>3, <1>4, PickedType, PlacesFinite
  <2>2. a \in 1 .. Len(InOrder(K)) /\ b \in 1 .. Len(InOrder(K))
    BY <2>1
  <2>3. /\ InOrder(K)[a] \in K /\ Picked(s, K)[a] = s[InOrder(K)[a]]
        /\ InOrder(K)[b] \in K /\ Picked(s, K)[b] = s[InOrder(K)[b]]
    BY <2>1, <2>2, PickedAt
  <2>4. InOrder(K)[a] < InOrder(K)[b] <=> a < b
    BY <2>1, <2>2, InOrderAscends
  <2> QED BY <2>3, <2>4
<1>10. \A k \in K :
         \E a \in 1 .. Len(Picked(s, K)) : Picked(s, K)[a] = file[k][1]
  BY <1>5, <1>8
<1>11. \A a, b \in 1 .. Len(Picked(s, K)) :
        \E k \in K, m \in K :
            /\ Picked(s, K)[a] = file[k][1] /\ Picked(s, K)[b] = file[m][1]
            /\ k < m <=> a < b
  BY <1>5, <1>9
<1> QED BY <1>6, <1>7, <1>10, <1>11 DEF K

\* backfill() cuts nothing, or all up to a row of the signature it was given.
LEMMA AfterCuts ==
  ASSUME NEW rows \in Seq(Swaps), NEW sig \in Nat
  PROVE  \E n \in 0 .. Len(rows) :
            /\ After(rows, sig) \in Seq(Swaps)
            /\ Len(After(rows, sig)) = Len(rows) - n
            /\ \A a \in 1 .. Len(rows) - n : After(rows, sig)[a] = rows[n + a]
            /\ n = 0 \/ rows[n] = sig
<1> DEFINE places == {n \in DOMAIN rows : rows[n] = sig}
<1>1. Len(rows) \in Nat /\ DOMAIN rows = 1 .. Len(rows)
  BY LenProperties
<1>2. CASE ~ Contains(rows, sig)
  <2>1. After(rows, sig) = rows
    BY <1>2 DEF After
  <2>2. 0 \in 0 .. Len(rows) /\ Len(rows) = Len(rows) - 0
    BY <1>1
  <2>3. \A a \in 1 .. Len(rows) - 0 : After(rows, sig)[a] = rows[0 + a]
    BY <1>1, <2>1
  <2> QED BY <2>1, <2>2, <2>3
<1>3. CASE Contains(rows, sig)
  <2> DEFINE n == InOrder(places)[1]
  <2>1. places # {} /\ places \subseteq 1 .. Len(rows)
    BY <1>1, <1>3 DEF Contains
  <2>2. After(rows, sig) = SubSeq(rows, n + 1, Len(rows))
    BY <1>3 DEF After
  <2>3. places \subseteq Int /\ IsFiniteSet(places)
    BY <1>1, <2>1, PlacesFinite
  <2>4. n \in places
    <3>1. PICK k \in places : TRUE
      BY <2>1
    <3> HIDE DEF places
    <3>2. Rank(places, k) \in 1 .. Len(InOrder(places)) /\ Len(InOrder(places)) \in Nat
      BY <2>3, InOrderOnto, InOrderType
    <3>3. 1 \in 1 .. Len(InOrder(places))
      BY <3>2
    <3> QED BY <2>3, <3>3, InOrderAscends
  <2>5. n \in 1 .. Len(rows) /\ rows[n] = sig
    BY <1>1, <2>4
  <2> HIDE DEF n
  <2>6. /\ SubSeq(rows, n + 1, Len(rows)) \in Seq(Swaps)
        /\ Len(SubSeq(rows, n + 1, Len(rows))) = Len(rows) - n
        /\ \A a \in 1 .. Len(rows) - n :
             SubSeq(rows, n + 1, Len(rows))[a] = rows[n + a]
    BY <2>5, SuffixProperties
  <2>7. n \in 0 .. Len(rows)
    BY <1>1, <2>5
  <2> QED BY <2>2, <2>5, <2>6, <2>7
<1> QED BY <1>2, <1>3

\* The bins a swap passes are numbers, each passed once.
LEMMA CrossedOnce ==
  ASSUME NEW i \in Swaps
  PROVE  /\ Crossed(i) \in Seq(Nat)
         /\ DOMAIN Crossed(i) = 1 .. Len(Crossed(i))
         /\ \A a, b \in DOMAIN Crossed(i) :
                Crossed(i)[a] = Crossed(i)[b] => a = b
<1>1. Moves[i][1] \in Nat /\ Moves[i][2] \in Nat
  BY SwapsAreNumbers
<1>2. PICK from \in Nat, to \in Nat : from = Moves[i][1] /\ to = Moves[i][2]
  BY <1>1
<1>3. CASE to > from
  <2> DEFINE s == [k \in 1 .. to - from |-> from + k - 1]
  <2>1. Crossed(i) = s
    BY <1>2, <1>3 DEF Crossed, Goes
  <2>2. s \in [1 .. to - from -> Nat] /\ to - from \in Nat
    BY <1>3
  <2>3. \A a, b \in DOMAIN s : s[a] = s[b] => a = b
    OBVIOUS
  <2> HIDE DEF s
  <2>4. s \in Seq(Nat) /\ Len(s) = to - from /\ DOMAIN s = 1 .. to - from
    BY <2>2, SequenceOfLength
  <2> QED BY <2>1, <2>3, <2>4
<1>4. CASE ~ (to > from)
  <2> DEFINE s == [k \in 1 .. from - to |-> to + k]
  <2>1. Goes(i) = "down" /\ "down" # "up"
    BY <1>2, <1>4 DEF Goes
  <2>2. Crossed(i) = s
    BY <1>2, <2>1 DEF Crossed
  <2>3. s \in [1 .. from - to -> Nat] /\ from - to \in Nat
    BY <1>4
  <2>4. \A a, b \in DOMAIN s : s[a] = s[b] => a = b
    OBVIOUS
  <2> HIDE DEF s
  <2>5. s \in Seq(Nat) /\ Len(s) = from - to /\ DOMAIN s = 1 .. from - to
    BY <2>3, SequenceOfLength
  <2> QED BY <2>2, <2>4, <2>5
<1> QED BY <1>3, <1>4

\* Bins of the ladder that still rest, each once.
Rest(bins) ==
    /\ bins \in Seq(Nat)
    /\ \A a \in 1 .. Len(bins) :
        bins[a] \in Bins /\ resting[bins[a]] # "none"
    /\ \A a, b \in 1 .. Len(bins) : bins[a] = bins[b] => a = b

\* A swap fills bins that rest, each once, and one at least if it crosses the
\* ladder.
LEMMA FillsRest ==
  ASSUME NEW i \in Swaps
  PROVE  Rest(Fills(i)) /\ (CrossedOurs(i) => Len(Fills(i)) >= 1)
<1> DEFINE s == Crossed(i)
<1> DEFINE K == {k \in DOMAIN s : s[k] \in Bins /\ resting[s[k]] = Side(i)}
<1> DEFINE p == Picked(s, K)
<1>1. Fills(i) = p
  BY DEF Fills
<1>2. /\ s \in Seq(Nat) /\ DOMAIN s = 1 .. Len(s)
      /\ \A a, b \in DOMAIN s : s[a] = s[b] => a = b
  BY CrossedOnce
<1>3. \A k \in K : s[k] \in Bins /\ resting[s[k]] = Side(i)
  OBVIOUS
<1>4. Side(i) # "none"
  BY DEF Side
<1>5. CrossedOurs(i) => K # {}
  <2>1. HAVE CrossedOurs(i)
  <2>2. PICK b \in ToSet(Crossed(i)) \cap Bins : resting[b] = Side(i)
    BY <2>1 DEF CrossedOurs
  <2>3. PICK k \in DOMAIN s : s[k] = b
    BY <2>2 DEF ToSet
  <2> QED BY <2>2, <2>3
<1>6. K \subseteq 1 .. Len(s)
  BY <1>2
<1> HIDE DEF s, K, p
<1>7. p \in Seq(Nat) /\ Len(p) \in Nat /\ Len(p) = Len(InOrder(K))
  BY <1>2, <1>6, PickedType, LenProperties DEF p
<1>8. K \subseteq Int /\ IsFiniteSet(K)
  BY <1>2, <1>6, LenProperties, PlacesFinite
<1>9. \A a \in 1 .. Len(p) : InOrder(K)[a] \in K /\ p[a] = s[InOrder(K)[a]]
  BY <1>7, <1>8, PickedAt DEF p
<1>10. \A a \in 1 .. Len(p) : p[a] \in Bins /\ resting[p[a]] # "none"
  BY <1>3, <1>4, <1>9
<1>11. ASSUME NEW a \in 1 .. Len(p), NEW b \in 1 .. Len(p), p[a] = p[b]
       PROVE  a = b
  <2>0. /\ InOrder(K)[a] \in DOMAIN s /\ p[a] = s[InOrder(K)[a]]
        /\ InOrder(K)[b] \in DOMAIN s /\ p[b] = s[InOrder(K)[b]]
    BY <1>2, <1>6, <1>9
  <2>1. InOrder(K)[a] = InOrder(K)[b]
    BY <1>2, <1>11, <2>0
  <2>2. a \in 1 .. Len(InOrder(K)) /\ b \in 1 .. Len(InOrder(K))
    BY <1>7
  <2> QED BY <1>8, <2>1, <2>2, InOrderAscends
<1>12. ASSUME CrossedOurs(i) PROVE Len(p) >= 1
  <2>1. PICK k \in K : TRUE
    BY <1>5, <1>12
  <2>2. Rank(K, k) \in 1 .. Len(p)
    BY <1>7, <1>8, InOrderOnto
  <2> QED BY <1>7, <2>2
<1> QED BY <1>1, <1>7, <1>10, <1>11, <1>12 DEF Rest

\* So do those of its fills that were logged before an emit raised.
LEMMA SomeFillsRest ==
  ASSUME NEW i \in Swaps, NEW bins \in SomeFills(i)
  PROVE  Rest(bins)
<1> DEFINE all == Fills(i)
<1>1. Rest(all)
  BY FillsRest
<1>2. PICK n \in {0} \cup 0 .. Len(all) - 1 : bins = SubSeq(all, 1, n)
  BY DEF SomeFills
<1> HIDE DEF all
<1>3. all \in Seq(Nat) /\ Len(all) \in Nat
  BY <1>1, LenProperties DEF Rest
<1>4. n \in Nat /\ n <= Len(all) /\ \A a \in 1 .. n : a \in 1 .. Len(all)
  BY <1>3
<1>5. /\ bins \in Seq(Nat) /\ Len(bins) = n
      /\ \A a \in 1 .. n : bins[a] = all[a]
  BY <1>2, <1>3, <1>4, PrefixProperties
<1> QED BY <1>1, <1>4, <1>5 DEF Rest

\* What on_swap() logs of a swap.
Recorded(i, bins) ==
    log \o <<Trade(i)>> \o [k \in 1 .. Len(bins) |-> Fill(i, bins[k])]

LEMMA EventFields ==
  ASSUME ladder \in Nat, NEW i \in Swaps, NEW b \in Nat
  PROVE  /\ Trade(i) \in EventSet /\ Fill(i, b) \in EventSet
         /\ Trade(i).type = "observed_trade" /\ Trade(i).swap = i
         /\ Trade(i).ours <=> CrossedOurs(i)
         /\ Fill(i, b).type = "bin_fill" /\ Fill(i, b).swap = i
         /\ Fill(i, b).bin = b /\ Fill(i, b).ladder = ladder
<1>1. i \in Nat /\ 0 \in Nat
  BY SwapsAreNumbers
<1>2. CrossedOurs(i) \in BOOLEAN
  BY DEF CrossedOurs
<1> DEFINE c == CrossedOurs(i)
<1>3. Trade(i) = [type |-> "observed_trade", swap |-> i,
                  ours |-> c, bin |-> 0, ladder |-> 0]
  <2>1. Trade(i) = [Event("observed_trade", i) EXCEPT !.ours = c]
    BY DEF Trade
  <2> HIDE DEF c
  <2> QED BY <2>1 DEF Event
<1>3a. Fill(i, b) = [type |-> "bin_fill", swap |-> i, ours |-> FALSE,
                     bin |-> b, ladder |-> ladder]
  <2> DEFINE no == FALSE
  <2> DEFINE e == [type |-> "bin_fill", swap |-> i, ours |-> no,
                   bin |-> 0, ladder |-> 0]
  <2> DEFINE f == [e EXCEPT !.bin = b]
  <2>1. Fill(i, b) = [f EXCEPT !.ladder = ladder]
    BY DEF Fill, Event
  <2> HIDE DEF no
  <2>2. f = [type |-> "bin_fill", swap |-> i, ours |-> no,
             bin |-> b, ladder |-> 0]
    OBVIOUS
  <2> HIDE DEF f
  <2>3. Fill(i, b) = [type |-> "bin_fill", swap |-> i, ours |-> no,
                      bin |-> b, ladder |-> ladder]
    BY <2>1, <2>2
  <2> QED BY <2>3 DEF no
<1>4. Trade(i) \in EventSet
  BY <1>1, <1>2, <1>3 DEF EventSet
<1>5. Fill(i, b) \in EventSet
  BY <1>1, <1>3a DEF EventSet
<1>6. Trade(i).ours <=> CrossedOurs(i)
  BY <1>3
<1>7. /\ Trade(i).type = "observed_trade" /\ Trade(i).swap = i
      /\ Fill(i, b).type = "bin_fill" /\ Fill(i, b).swap = i
      /\ Fill(i, b).bin = b /\ Fill(i, b).ladder = ladder
  BY <1>3, <1>3a
<1> QED BY <1>4, <1>5, <1>6, <1>7

LEMMA GapIsEvent ==
  ASSUME last \in Swaps \cup {0}
  PROVE  /\ Gap \in EventSet
         /\ Gap.type = "swap_stream_gap" /\ Gap.swap = last
<1>1. last \in Nat /\ 0 \in Nat
  BY SwapsAreNumbers
<1>2. Gap = [type |-> "swap_stream_gap", swap |-> last, ours |-> FALSE,
             bin |-> 0, ladder |-> 0]
  BY DEF Gap, Event
<1> QED BY <1>1, <1>2 DEF EventSet

\* The log keeps its events; the trade and the fills come after them.
LEMMA RecordedLog ==
  ASSUME log \in Seq(EventSet), ladder \in Nat, NEW i \in Swaps,
         NEW bins \in Seq(Nat)
  PROVE  /\ Recorded(i, bins) \in Seq(EventSet)
         /\ Len(log) \in Nat /\ Len(bins) \in Nat
         /\ Len(Recorded(i, bins)) = Len(log) + 1 + Len(bins)
         /\ \A k \in 1 .. Len(log) : Recorded(i, bins)[k] = log[k]
         /\ Recorded(i, bins)[Len(log) + 1] = Trade(i)
         /\ \A a \in 1 .. Len(bins) :
                Recorded(i, bins)[Len(log) + 1 + a] = Fill(i, bins[a])
<1> DEFINE front == Append(log, Trade(i))
<1> DEFINE fills == [k \in 1 .. Len(bins) |-> Fill(i, bins[k])]
<1>1. Len(bins) \in Nat /\ \A a \in 1 .. Len(bins) : bins[a] \in Nat
  BY LenProperties, ElementOfSeq
<1>2. Len(log) \in Nat
  BY LenProperties
<1>3. Trade(i) \in EventSet /\ \A a \in 1 .. Len(bins) : Fill(i, bins[a]) \in EventSet
  <2>1. 0 \in Nat
    OBVIOUS
  <2> QED BY <1>1, <2>1, EventFields
<1>4. fills \in [1 .. Len(bins) -> EventSet]
  BY <1>3
<1>5. \A a \in 1 .. Len(bins) : fills[a] = Fill(i, bins[a])
  OBVIOUS
<1>6. Recorded(i, bins) = front \o fills
  <2>1. log \o <<Trade(i)>> = front
    BY <1>3, AppendIsConcat
  <2> QED BY <2>1 DEF Recorded
<1>7. /\ front \in Seq(EventSet) /\ Len(front) = Len(log) + 1
      /\ front[Len(log) + 1] = Trade(i)
      /\ \A k \in 1 .. Len(log) : front[k] = log[k]
  BY <1>3, AppendProperties
<1> HIDE DEF front, fills
<1>8. fills \in Seq(EventSet) /\ Len(fills) = Len(bins)
  BY <1>1, <1>4, SequenceOfLength
<1>9. /\ front \o fills \in Seq(EventSet)
      /\ Len(front \o fills) = Len(log) + 1 + Len(bins)
      /\ \A k \in 1 .. Len(log) + 1 : (front \o fills)[k] = front[k]
      /\ \A a \in 1 .. Len(bins) : (front \o fills)[Len(log) + 1 + a] = fills[a]
  <2>1. /\ front \o fills \in Seq(EventSet)
        /\ Len(front \o fills) = Len(front) + Len(fills)
    BY <1>7, <1>8, JoinProperties
  <2>2. ASSUME NEW k \in 1 .. Len(front) PROVE (front \o fills)[k] = front[k]
    BY <1>7, <1>8, JoinFirst
  <2>3. ASSUME NEW a \in 1 .. Len(fills)
        PROVE  (front \o fills)[Len(front) + a] = fills[a]
    BY <1>7, <1>8, JoinSecond
  <2> QED BY <1>7, <1>8, <2>1, <2>2, <2>3
<1>10. \A k \in 1 .. Len(log) : (front \o fills)[k] = log[k]
  BY <1>2, <1>7, <1>9
<1>11. (front \o fills)[Len(log) + 1] = Trade(i)
  BY <1>2, <1>7, <1>9
<1> QED BY <1>1, <1>2, <1>5, <1>6, <1>9, <1>10, <1>11

-----------------------------------------------------------------------------
(* A read of the file. *)

LEMMA StartIsNumber ==
  ASSUME TypeInv
  PROVE  StartAt \in Nat /\ Len(file) \in Nat
         /\ WholeFrom(StartAt) \subseteq 1 .. Len(file)
<1>1. Len(file) \in Nat /\ offset \in Nat
  BY LenProperties DEF TypeInv
<1>2. StartAt \in Nat
  BY <1>1 DEF StartAt
<1> QED BY <1>1, <1>2 DEF WholeFrom

\* Rows of a read: a swap the executor wrote once is new among them and comes
\* after the last one consumed and after the rows before it.
Fresh(rows) ==
    /\ rows \in Seq(Swaps)
    /\ \A n \in 1 .. Len(rows) : rows[n] \in Ahead
    /\ \A n \in 1 .. Len(rows) :
        rows[n] \notin repeated =>
            /\ last < rows[n] /\ rows[n] \notin seen
            /\ \A m \in 1 .. n - 1 : rows[m] < rows[n]

\* What a read finds in the file is of the chain.
LEMMA AheadLanded ==
  ASSUME TypeInv, KnownInv
  PROVE  Ahead \subseteq 1 .. landed
BY StartIsNumber DEF Ahead, KnownInv

\* subscribe() reads all there is.
LEMMA PolledRows ==
  ASSUME TypeInv, KnownInv, OrderInv
  PROVE  Fresh(RowsFrom(StartAt)) /\ Ahead \subseteq ToSet(RowsFrom(StartAt))
<1> DEFINE rows == RowsFrom(StartAt)
<1> DEFINE K == WholeFrom(StartAt)
<1>1. file \in Seq(Chunks) /\ StartAt \in Nat
  BY StartIsNumber DEF TypeInv
<1>2. rows \in Seq(Swaps)
  BY <1>1, RowsFromFile
<1>3. \A k \in K : \E a \in 1 .. Len(rows) : rows[a] = file[k][1]
  BY <1>1, RowsFromFile
<1>4. \A a, b \in 1 .. Len(rows) : \E k \in K, m \in K :
        rows[a] = file[k][1] /\ rows[b] = file[m][1] /\ (k < m <=> a < b)
  BY <1>1, RowsFromFile
<1>5. Len(rows) \in Nat /\ DOMAIN rows = 1 .. Len(rows)
  BY <1>2, LenProperties
<1>6. \A k \in K : k \in 1 .. Len(file) /\ file[k][2] = 1
  BY StartIsNumber DEF WholeFrom
<1>7. \A k \in K : file[k][1] \notin repeated =>
        /\ \A i \in got : i < file[k][1]
        /\ \A m \in 1 .. k - 1 : file[m][2] = 1 => file[m][1] < file[k][1]
  BY <1>6, StartIsNumber DEF OrderInv, WholeFrom
<1>8. Ahead = {file[k][1] : k \in K}
  BY DEF Ahead
<1> HIDE DEF rows, K
<1>9. \A n \in 1 .. Len(rows) : rows[n] \in Ahead
  BY <1>4, <1>8
<1>10. Ahead \subseteq ToSet(rows)
  BY <1>3, <1>5, <1>8 DEF ToSet
<1>11. ASSUME NEW n \in 1 .. Len(rows), rows[n] \notin repeated
       PROVE  /\ last < rows[n] /\ rows[n] \notin seen
              /\ \A m \in 1 .. n - 1 : rows[m] < rows[n]
  <2>1. rows[n] \in Swaps /\ rows[n] \in Nat \ {0}
    BY <1>2, ElementOfSeq, SwapsAreNumbers
  <2>2. \A i \in got : i < rows[n]
    BY <1>4, <1>7, <1>11
  <2>3. last < rows[n] /\ rows[n] \notin seen
    BY <2>1, <2>2 DEF KnownInv
  <2>4. ASSUME NEW m \in 1 .. n - 1 PROVE rows[m] < rows[n]
    <3>1. m \in 1 .. Len(rows) /\ m < n
      BY <1>5
    <3>2. PICK k \in K, l \in K :
            rows[m] = file[k][1] /\ rows[n] = file[l][1] /\ (k < l <=> m < n)
      BY <1>4, <3>1
    <3>3. k \in 1 .. l - 1 /\ file[k][2] = 1
      BY <1>6, <3>1, <3>2
    <3> QED BY <1>7, <1>11, <3>2, <3>3
  <2> QED BY <2>3, <2>4
<1> QED BY <1>2, <1>9, <1>10, <1>11 DEF Fresh, rows

\* A backfill cuts only rows that come after the last swap consumed, which
\* there is then.
LEMMA BackfillRows ==
  ASSUME TypeInv, KnownInv, OrderInv
  PROVE  /\ Fresh(After(RowsFrom(StartAt), last))
         /\ \A i \in Ahead :
                \/ i \in ToSet(After(RowsFrom(StartAt), last))
                \/ last # 0 /\ (i \in repeated \/ last < i)
<1> DEFINE rows == RowsFrom(StartAt)
<1> DEFINE left == After(rows, last)
<1>1. Fresh(rows) /\ Ahead \subseteq ToSet(rows)
  BY PolledRows
<1>2. rows \in Seq(Swaps) /\ last \in Nat
  <2>1. last \in Swaps \cup {0}
    BY DEF TypeInv
  <2>2. last \in Nat
    BY <2>1, SwapsAreNumbers
  <2> QED BY <1>1, <2>2 DEF Fresh
<1>3. Len(rows) \in Nat /\ DOMAIN rows = 1 .. Len(rows)
      /\ \A n \in 1 .. Len(rows) : rows[n] \in Swaps /\ rows[n] \in Nat \ {0}
  BY <1>2, LenProperties, ElementOfSeq, SwapsAreNumbers
<1> HIDE DEF rows
<1>4. PICK n \in 0 .. Len(rows) :
        /\ left \in Seq(Swaps)
        /\ Len(left) = Len(rows) - n
        /\ \A a \in 1 .. Len(rows) - n : left[a] = rows[n + a]
        /\ n = 0 \/ rows[n] = last
  BY <1>2, AfterCuts
<1> HIDE DEF left
<1>5. DOMAIN left = 1 .. Len(rows) - n
  BY <1>4, LenProperties
<1>6. \A a \in 1 .. Len(left) : left[a] = rows[n + a] /\ n + a \in 1 .. Len(rows)
  BY <1>3, <1>4
<1>7. ASSUME NEW a \in 1 .. Len(left), left[a] \notin repeated
      PROVE  /\ last < left[a] /\ left[a] \notin seen
             /\ \A b \in 1 .. a - 1 : left[b] < left[a]
  <2>1. left[a] = rows[n + a] /\ n + a \in 1 .. Len(rows)
    BY <1>6
  <2>2. /\ last < rows[n + a] /\ rows[n + a] \notin seen
        /\ \A m \in 1 .. n + a - 1 : rows[m] < rows[n + a]
    BY <1>1, <1>7, <2>1 DEF Fresh
  <2>3. ASSUME NEW b \in 1 .. a - 1 PROVE left[b] < left[a]
    <3>1. b \in 1 .. Len(left) /\ n + b \in 1 .. n + a - 1
      BY <1>3, <1>4
    <3> QED BY <1>6, <2>1, <2>2, <3>1
  <2> QED BY <2>1, <2>2, <2>3
<1>8. \A a \in 1 .. Len(left) : left[a] \in Ahead
  BY <1>1, <1>6 DEF Fresh
<1>9. Fresh(left)
  BY <1>4, <1>7, <1>8 DEF Fresh
<1>10. ASSUME NEW i \in Ahead, i \notin ToSet(left)
       PROVE  last # 0 /\ (i \in repeated \/ last < i)
  <2>1. PICK m \in 1 .. Len(rows) : rows[m] = i
    BY <1>1, <1>3 DEF ToSet
  <2>2. m <= n
    <3>1. SUFFICES ASSUME ~ (m <= n) PROVE FALSE
      OBVIOUS
    <3>2. m - n \in 1 .. Len(rows) - n /\ n + (m - n) = m
      BY <1>3, <3>1
    <3>3. left[m - n] = i
      BY <1>4, <2>1, <3>2
    <3> QED BY <1>5, <1>10, <3>2, <3>3 DEF ToSet
  <2>3. n # 0 /\ n \in 1 .. Len(rows)
    BY <1>3, <2>2
  <2>4. last # 0
    BY <1>3, <1>4, <2>3
  <2>5. i \in repeated \/ last < i
    BY <1>1, <2>1 DEF Fresh
  <2> QED BY <2>4, <2>5
<1> QED BY <1>9, <1>10 DEF left, rows

-----------------------------------------------------------------------------
(* The executor writes the file. *)

\* The file keeps its chunks, and gets those of a line of swap i.
FileGrows(i) ==
    /\ file' \in Seq(Chunks)
    /\ Len(file') \in Nat /\ Len(file) < Len(file')
    /\ \A k \in 1 .. Len(file) : file'[k] = file[k]
    /\ \A k \in Len(file) + 1 .. Len(file') :
        file'[k][1] = i /\ (file'[k][2] = 1 => k = Len(file) + 1)

LEMMA LineIsWritten ==
  ASSUME file \in Seq(Chunks), NEW i \in Swaps, WriteLine(i)
  PROVE  FileGrows(i)
<1> DEFINE one == <<<<i, 1>>>>
<1> DEFINE two == <<<<i, 1>>, <<i, 2>>>>
<1>1. /\ one \in Seq(Chunks) /\ Len(one) = 1 /\ one[1] = <<i, 1>>
      /\ two \in Seq(Chunks) /\ Len(two) = 2
      /\ two[1] = <<i, 1>> /\ two[2] = <<i, 2>>
  <2>1. <<i, 1>> \in Chunks /\ <<i, 2>> \in Chunks
    BY DEF Chunks
  <2> QED BY <2>1
<1>2. Len(file) \in Nat
  BY LenProperties
<1>3. file' = file \o two \/ file' = file \o one
  BY DEF WriteLine
<1> HIDE DEF one, two
<1>4. CASE file' = file \o one
  <2>1. /\ file \o one \in Seq(Chunks)
        /\ Len(file \o one) = Len(file) + Len(one)
    BY <1>1, JoinProperties
  <2>1a. ASSUME NEW k \in 1 .. Len(file) PROVE (file \o one)[k] = file[k]
    BY <1>1, JoinFirst
  <2>1b. ASSUME NEW k \in 1 .. Len(one) PROVE (file \o one)[Len(file) + k] = one[k]
    <3>1. one \in Seq(Chunks)
      BY <1>1
    <3> QED BY <3>1, JoinSecond
  <2>2. /\ file' \in Seq(Chunks) /\ Len(file') = Len(file) + 1
        /\ \A k \in 1 .. Len(file) : file'[k] = file[k]
        /\ file'[Len(file) + 1] = <<i, 1>>
    BY <1>1, <1>4, <2>1, <2>1a, <2>1b
  <2>3. \A k \in Len(file) + 1 .. Len(file') : k = Len(file) + 1
    BY <1>2, <2>2
  <2> QED BY <1>2, <2>2, <2>3 DEF FileGrows
<1>5. CASE file' = file \o two
  <2>1. /\ file \o two \in Seq(Chunks)
        /\ Len(file \o two) = Len(file) + Len(two)
    BY <1>1, JoinProperties
  <2>1a. ASSUME NEW k \in 1 .. Len(file) PROVE (file \o two)[k] = file[k]
    BY <1>1, JoinFirst
  <2>1b. ASSUME NEW k \in 1 .. Len(two) PROVE (file \o two)[Len(file) + k] = two[k]
    BY <1>1, JoinSecond
  <2>2. /\ file' \in Seq(Chunks) /\ Len(file') = Len(file) + 2
        /\ \A k \in 1 .. Len(file) : file'[k] = file[k]
        /\ file'[Len(file) + 1] = <<i, 1>>
        /\ file'[Len(file) + 2] = <<i, 2>>
    BY <1>1, <1>5, <2>1, <2>1a, <2>1b
  <2>3. \A k \in Len(file) + 1 .. Len(file') : k = Len(file) + 1 \/ k = Len(file) + 2
    BY <1>2, <2>2
  <2>4. \A k \in Len(file) + 1 .. Len(file') :
            file'[k][1] = i /\ (file'[k][2] = 1 => k = Len(file) + 1)
    BY <2>2, <2>3
  <2> QED BY <1>2, <2>2, <2>4 DEF FileGrows
<1> QED BY <1>3, <1>4, <1>5

LEMMA LineIsEnded ==
  ASSUME file \in Seq(Chunks), EndLine
  PROVE  \E i \in Swaps : /\ FileGrows(i) /\ file'[Len(file) + 1][2] = 2
                          /\ \E k \in 1 .. Len(file) : file[k][1] = i
<1> DEFINE i == Last(file)[1]
<1> DEFINE end == <<<<i, 2>>>>
<1>1. Len(file) \in Nat /\ file # <<>> /\ file' = file \o end
  BY LenProperties DEF EndLine, MidLine
<1>2. Len(file) \in 1 .. Len(file) /\ file[Len(file)] \in Chunks
  <2>1. Len(file) # 0
    BY <1>1, EmptySeq
  <2> QED BY <1>1, <2>1, ElementOfSeq
<1>3. i \in Swaps /\ i = file[Len(file)][1]
  BY <1>2 DEF Last, Chunks
<1>4. end \in Seq(Chunks) /\ Len(end) = 1 /\ end[1] = <<i, 2>>
  <2>1. <<i, 2>> \in Chunks
    BY <1>3 DEF Chunks
  <2> QED BY <2>1
<1> HIDE DEF i, end
<1>5. /\ file \o end \in Seq(Chunks)
      /\ Len(file \o end) = Len(file) + Len(end)
  BY <1>4, JoinProperties
<1>5a. ASSUME NEW k \in 1 .. Len(file) PROVE (file \o end)[k] = file[k]
  BY <1>4, JoinFirst
<1>5b. (file \o end)[Len(file) + 1] = end[1]
  <2>1. 1 \in 1 .. Len(end) /\ end \in Seq(Chunks)
    BY <1>4
  <2>2. file \in Seq(Chunks)
    OBVIOUS
  <2> HIDE DEF Chunks
  <2> QED BY <2>1, <2>2, JoinSecond
<1>6. /\ file' \in Seq(Chunks) /\ Len(file') = Len(file) + 1
      /\ \A k \in 1 .. Len(file) : file'[k] = file[k]
      /\ file'[Len(file) + 1] = <<i, 2>>
  BY <1>1, <1>4, <1>5, <1>5a, <1>5b
<1>7. \A k \in Len(file) + 1 .. Len(file') : k = Len(file) + 1
  BY <1>1, <1>6
<1>8. FileGrows(i)
  BY <1>1, <1>6, <1>7 DEF FileGrows
<1> QED BY <1>2, <1>3, <1>6, <1>8

\* What lies beyond a place lies beyond an earlier one.
LEMMA Beyond ==
  ASSUME NEW s \in Nat, NEW u \in Nat, s <= u, NEW n \in Nat, NEW k \in u + 1 .. n
  PROVE  k \in 1 .. n /\ k \in s + 1 .. n
OBVIOUS

LEMMA NothingBeyond ==
  ASSUME NEW s \in Nat, NEW n \in Nat, s >= n
  PROVE  \A k \in s + 1 .. n : FALSE
OBVIOUS

\* The order of the lines is kept when one is added: of a swap that is newer
\* than all there are, of one that is repeated, or the end of one.
LEMMA OrderGrows ==
  ASSUME TypeInv, KnownInv, OrderInv, NEW i \in Swaps, FileGrows(i),
         UNCHANGED <<offset, got, batch, last, seen>>,
         repeated \subseteq repeated',
         \/ i > landed
         \/ i \in repeated'
         \/ file'[Len(file) + 1][2] = 2
  PROVE  OrderInv'
<1>1. /\ Len(file) \in Nat /\ Len(file') \in Nat /\ Len(file) < Len(file')
      /\ offset \in Nat /\ landed \in Nat
  <2>1. Len(file) \in Nat /\ offset \in Nat
    BY LenProperties DEF TypeInv
  <2>2. landed \in 0 .. Len(Moves) /\ Len(Moves) \in Nat
    BY SwapsAreNumbers DEF TypeInv
  <2>3. Len(file') \in Nat /\ Len(file) < Len(file')
    BY DEF FileGrows
  <2> QED BY <2>1, <2>2, <2>3
<1>2. StartAt' >= StartAt /\ StartAt \in Nat /\ StartAt' \in Nat
  BY <1>1 DEF StartAt
<1>3. \A k \in 1 .. Len(file) : file'[k] = file[k]
  BY DEF FileGrows
<1>4. \A k \in Len(file) + 1 .. Len(file') :
        file'[k][1] = i /\ (file'[k][2] = 1 => k = Len(file) + 1)
  BY DEF FileGrows
<1>5. ASSUME NEW k \in StartAt' + 1 .. Len(file'),
             file'[k][2] = 1, file'[k][1] \notin repeated'
      PROVE  /\ \A g \in got : g < file'[k][1]
             /\ \A m \in 1 .. k - 1 : file'[m][2] = 1 => file'[m][1] < file'[k][1]
  <2>1. k \in 1 .. Len(file') /\ k \in StartAt + 1 .. Len(file')
    <3>1. PICK s \in Nat, u \in Nat, n \in Nat :
            s = StartAt /\ u = StartAt' /\ n = Len(file') /\ s <= u
      BY <1>1, <1>2
    <3>2. k \in u + 1 .. n
      BY <1>5, <3>1
    <3>3. k \in 1 .. n /\ k \in s + 1 .. n
      BY <3>1, <3>2, Beyond
    <3> QED BY <3>1, <3>3
  <2>2. CASE k <= Len(file)
    <3>1. file'[k] = file[k] /\ k \in StartAt + 1 .. Len(file)
      BY <1>1, <1>3, <2>1, <2>2
    <3>2. ASSUME NEW m \in 1 .. k - 1 PROVE file'[m] = file[m]
      BY <1>1, <1>3, <2>1, <2>2
    <3>3. file[k][2] = 1 /\ file[k][1] \notin repeated
      BY <1>5, <3>1
    <3>4. /\ \A g \in got : g < file[k][1]
          /\ \A m \in 1 .. k - 1 : file[m][2] = 1 => file[m][1] < file[k][1]
      BY <3>1, <3>3 DEF OrderInv
    <3> QED BY <3>1, <3>2, <3>4
  <2>3. CASE k > Len(file)
    <3>1. k = Len(file) + 1 /\ file'[k][1] = i
      BY <1>1, <1>4, <1>5, <2>1, <2>3
    <3>2. i > landed
      BY <1>5, <3>1
    <3>3. i \in Nat /\ \A g \in got : g \in 1 .. landed
      BY SwapsAreNumbers DEF TypeInv
    <3>4. \A m \in 1 .. k - 1 : file'[m] = file[m] /\ file[m][1] \in 1 .. landed
      BY <1>1, <1>3, <3>1 DEF KnownInv
    <3> QED BY <1>1, <3>1, <3>2, <3>3, <3>4
  <2> QED BY <1>1, <2>1, <2>2, <2>3
<1>6. \A n \in 1 .. Len(batch') :
        batch'[n] \notin repeated' =>
            /\ last' < batch'[n] /\ batch'[n] \notin seen'
            /\ \A m \in 1 .. n - 1 : batch'[m] < batch'[n]
  BY DEF OrderInv
<1> QED BY <1>5, <1>6 DEF OrderInv

-----------------------------------------------------------------------------
(* The steps of the task. *)

LEMMA BatchHead ==
  ASSUME TypeInv, batch # <<>>
  PROVE  /\ Len(batch) \in Nat /\ 1 \in 1 .. Len(batch)
         /\ Head(batch) = batch[1] /\ Head(batch) \in Swaps
         /\ Tail(batch) \in Seq(Swaps) /\ Len(Tail(batch)) = Len(batch) - 1
         /\ \A n \in 1 .. Len(Tail(batch)) :
                Tail(batch)[n] = batch[n + 1] /\ n + 1 \in 1 .. Len(batch)
<1>1. batch \in Seq(Swaps) /\ Len(batch) \in Nat
  BY LenProperties DEF TypeInv
<1>2. Len(batch) # 0
  BY <1>1, EmptySeq
<1>3. 1 \in 1 .. Len(batch)
  BY <1>1, <1>2
<1>4. /\ Head(batch) \in Swaps /\ Head(batch) = batch[1]
      /\ Tail(batch) \in Seq(Swaps) /\ Len(Tail(batch)) = Len(batch) - 1
  BY <1>1, HeadTailProperties
<1>5. ASSUME NEW n \in 1 .. Len(Tail(batch))
      PROVE  Tail(batch)[n] = batch[n + 1] /\ n + 1 \in 1 .. Len(batch)
  <2>1. n \in 1 .. Len(Tail(batch)) /\ n + 1 \in 1 .. Len(batch)
    BY <1>1, <1>4
  <2>2. Tail(batch)[n] = batch[n + 1]
    BY <1>1, <2>1, HeadTailProperties
  <2> QED BY <2>1, <2>2
<1> QED BY <1>1, <1>3, <1>4, <1>5

\* A read goes on with rows that are fresh, and only a backfill after an error
\* skips any: some that come after the last swap consumed.
LEMMA ReadStep ==
  ASSUME TypeInv, TaskInv, KnownInv, OrderInv, Backfill \/ Poll
  PROVE  /\ batch = <<>> /\ Fresh(batch')
         /\ offset' = Len(file) \/ (offset' = offset /\ file = <<>>)
         /\ got' = got \cup Ahead
         /\ \A i \in Ahead :
                \/ i \in ToSet(batch')
                \/ /\ task = "refill" /\ task' = "refilling"
                   /\ i \in repeated \/ last < i
         /\ lostAt' = [i \in Swaps |-> IF i \in Ahead \ ToSet(batch')
                                       THEN Len(log) ELSE lostAt[i]]
         /\ \/ task = "started" /\ task' = "filling"
            \/ task = "tail" /\ task' = "tail"
            \/ task = "refill" /\ task' = "refilling"
         /\ UNCHANGED <<world, book, seen, last, log, faults, done>>
<1>1. CASE Poll
  <2>1. ReadNew(RowsFrom(StartAt)) /\ task = "tail" /\ batch = <<>> /\ task' = task
    BY <1>1 DEF Poll
  <2>2. Fresh(RowsFrom(StartAt)) /\ Ahead \subseteq ToSet(RowsFrom(StartAt))
    BY PolledRows
  <2> QED BY <2>1, <2>2 DEF ReadNew, TypeInv, FileInv
<1>2. CASE Backfill
  <2>1. /\ ReadNew(After(RowsFrom(StartAt), last))
        /\ \/ task = "started" /\ task' = "filling"
           \/ task = "refill" /\ task' = "refilling"
    BY <1>2 DEF Backfill
  <2>2. batch = <<>>
    BY <2>1 DEF TaskInv
  <2>3. batch' = After(RowsFrom(StartAt), last)
    BY <2>1 DEF ReadNew
  <2>4. /\ Fresh(After(RowsFrom(StartAt), last))
        /\ \A i \in Ahead :
            \/ i \in ToSet(After(RowsFrom(StartAt), last))
            \/ last # 0 /\ (i \in repeated \/ last < i)
    BY BackfillRows
  <2>5. task = "started" => last = 0
    BY DEF TaskInv
  <2>6. /\ Fresh(batch')
        /\ \A i \in Ahead : \/ i \in ToSet(batch')
                            \/ last # 0 /\ (i \in repeated \/ last < i)
    BY <2>3, <2>4, Zenon
  <2>7. /\ offset' = Len(file) \/ (offset' = offset /\ file = <<>>)
        /\ got' = got \cup Ahead
        /\ lostAt' = [i \in Swaps |-> IF i \in Ahead \ ToSet(batch')
                                      THEN Len(log) ELSE lostAt[i]]
        /\ UNCHANGED <<world, book, seen, last, log, faults, done>>
    BY <2>1 DEF ReadNew, TypeInv, FileInv
  <2>8. \A i \in Ahead : \/ i \in ToSet(batch')
                         \/ /\ task = "refill" /\ task' = "refilling"
                            /\ i \in repeated \/ last < i
    BY <2>1, <2>5, <2>6
  <2> QED BY <2>1, <2>2, <2>6, <2>7, <2>8
<1> QED BY <1>1, <1>2

\* A swap that is observed is the head of the batch; it is new, and its fills
\* are of bins that rest.
Observes(i, bins) ==
    /\ batch # <<>> /\ i = batch[1] /\ i \in Swaps /\ i \notin seen
    /\ Rest(bins)
    /\ seen' = seen \cup {i}
    /\ log' = Recorded(i, bins)
    /\ resting' = [b \in Bins |->
                     IF b \in ToSet(bins) THEN "none" ELSE resting[b]]

\* Drops the head of the batch: it was seen, or it is observed now.
LEMMA ConsumeStep ==
  ASSUME TypeInv, Consume
  PROVE  /\ batch # <<>> /\ batch' = Tail(batch)
         /\ UNCHANGED <<world, offset, task, faults, got, lostAt, ladder, placed,
                        registered>>
         /\ \/ /\ Head(batch) \in seen
               /\ UNCHANGED <<seen, log, resting, last, done>>
            \/ /\ Observes(Head(batch), Fills(Head(batch)))
               /\ last' = Head(batch) /\ done' = done \cup {Head(batch)}
<1>1. batch # <<>>
  BY DEF Consume
<1>2. Head(batch) \in Swaps /\ Head(batch) = batch[1]
  BY <1>1, BatchHead
<1>3. Rest(Fills(Head(batch)))
  BY <1>2, FillsRest
<1>4. \/ /\ Head(batch) \in seen
         /\ UNCHANGED <<seen, log, resting, last, done>>
      \/ /\ Head(batch) \notin seen /\ Observe(Head(batch), Fills(Head(batch)))
         /\ last' = Head(batch) /\ done' = done \cup {Head(batch)}
  BY DEF Consume
<1>5. Observe(Head(batch), Fills(Head(batch))) /\ Head(batch) \notin seen =>
        Observes(Head(batch), Fills(Head(batch)))
  BY <1>1, <1>2, <1>3 DEF Observe, Observes, Recorded
<1>6. /\ batch' = Tail(batch)
      /\ UNCHANGED <<world, offset, task, faults, got, lostAt, ladder, placed,
                     registered>>
  BY DEF Consume
<1> QED BY <1>1, <1>4, <1>5, <1>6

\* Drops the batch; its head was new and is noted, observed in part or not.
LEMMA FailStep ==
  ASSUME TypeInv, TaskInv, Fail
  PROVE  /\ batch # <<>> /\ batch' = <<>> /\ Head(batch) \in Swaps
         /\ Head(batch) \notin seen
         /\ faults' = faults + 1 /\ seen' = seen \cup {Head(batch)}
         /\ \/ task = "filling" /\ task' = "ended"
            \/ task = "tail" /\ task' = "error"
            \/ task = "refilling" /\ task' = "refill error"
         /\ UNCHANGED <<world, offset, last, got, done, ladder, placed,
                        registered>>
         /\ lostAt' = Dropped
         /\ \/ UNCHANGED <<log, resting>>
            \/ \E bins \in SomeFills(Head(batch)) : Observes(Head(batch), bins)
<1>1. /\ batch # <<>> /\ Head(batch) \notin seen /\ batch' = <<>>
      /\ faults' = faults + 1 /\ lostAt' = Dropped
      /\ UNCHANGED <<world, offset, last, got, done, ladder, placed, registered>>
  BY DEF Fail, Fault
<1>2. Head(batch) \in Swaps /\ Head(batch) = batch[1]
  BY <1>1, BatchHead
<1>3. task \in {"filling", "refilling", "tail"}
  BY <1>1 DEF TaskInv
<1>4. \/ task = "filling" /\ task' = "ended"
      \/ task = "tail" /\ task' = "error"
      \/ task = "refilling" /\ task' = "refill error"
  BY <1>3 DEF Fail
<1>5. \/ seen' = seen \cup {Head(batch)} /\ UNCHANGED <<log, resting>>
      \/ \E bins \in SomeFills(Head(batch)) : Observe(Head(batch), bins)
  BY DEF Fail
<1>6. ASSUME NEW bins \in SomeFills(Head(batch)), Observe(Head(batch), bins)
      PROVE  Observes(Head(batch), bins) /\ seen' = seen \cup {Head(batch)}
  <2>1. Rest(bins)
    BY <1>2, SomeFillsRest
  <2> QED BY <1>1, <1>2, <1>6, <2>1 DEF Observe, Observes, Recorded
<1> QED BY <1>1, <1>2, <1>4, <1>5, <1>6

-----------------------------------------------------------------------------
(* The inductive step. *)

\* A read that raises moves the offset to the place it started from, if at all.
LEMMA ReadFailsStep ==
  ASSUME TypeInv, TaskInv, ReadFails
  PROVE  /\ batch = <<>> /\ faults' = faults + 1
         /\ offset' \in Nat /\ StartAt' = StartAt
         /\ task \in {"started", "tail", "refill"}
         /\ task' \in {"ended", "error", "refill error"}
         /\ UNCHANGED <<world, book, seen, last, log, got, done, batch, lostAt>>
<1>1. /\ batch = <<>> /\ faults' = faults + 1 /\ task \in {"started", "tail", "refill"}
      /\ UNCHANGED <<world, book, seen, last, log, got, done, batch, lostAt>>
      /\ offset' \in {offset, StartAt}
  BY DEF ReadFails, Fault
<1>2. task' \in {"ended", "error", "refill error"}
  BY <1>1 DEF ReadFails
<1>3. StartAt \in Nat /\ Len(file) \in Nat /\ offset \in Nat
  BY StartIsNumber DEF TypeInv
<1>4. offset' \in Nat /\ Len(file') = Len(file)
  BY <1>1, <1>3 DEF world
<1>5. StartAt' = StartAt
  BY <1>1, <1>3, <1>4 DEF StartAt
<1> QED BY <1>1, <1>2, <1>4, <1>5

\* What the actions of the world leave alone, and what they do.
LEMMA WorldStep ==
  ASSUME TypeInv, KnownInv, Swap \/ EndLine \/ Rotate \/ (\E i \in Swaps : Copy(i))
  PROVE  /\ UNCHANGED <<reader, book>>
         /\ FileInv'
         /\ repeated \subseteq repeated' /\ repeated' \subseteq Swaps
         /\ landed' \in {landed, landed + 1} /\ landed' <= Len(Moves)
         /\ \/ file' = <<>>
            \/ \E i \in Swaps :
                /\ FileGrows(i)
                /\ \/ i > landed
                   \/ i \in repeated'
                   \/ file'[Len(file) + 1][2] = 2
                /\ i <= landed'
<1>1. /\ landed \in Nat /\ landed <= Len(Moves) /\ Len(Moves) \in Nat
      /\ Swaps = 1 .. Len(Moves) /\ file \in Seq(Chunks)
      /\ repeated \subseteq Swaps
  <2>1. /\ landed \in 0 .. Len(Moves) /\ file \in Seq(Chunks)
        /\ repeated \subseteq Swaps
    BY DEF TypeInv
  <2>2. Len(Moves) \in Nat /\ Swaps = 1 .. Len(Moves)
    BY SwapsAreNumbers DEF Swaps
  <2> QED BY <2>1, <2>2
<1>2. CASE Swap
  <2>1. /\ landed' = landed + 1 /\ landed + 1 \in Swaps
        /\ UNCHANGED <<reader, book, repeated, rotations>>
        /\ WriteLine(landed + 1)
    BY <1>1, <1>2 DEF Swap
  <2>2. FileGrows(landed + 1)
    BY <1>1, <2>1, LineIsWritten
  <2>3. FileInv'
    BY <2>1 DEF WriteLine, FileInv
  <2> QED BY <1>1, <2>1, <2>2, <2>3
<1>3. CASE EndLine
  <2>1. UNCHANGED <<reader, book, landed, repeated, rotations, at>>
    BY <1>3 DEF EndLine
  <2>2. PICK i \in Swaps : /\ FileGrows(i) /\ file'[Len(file) + 1][2] = 2
                           /\ \E k \in 1 .. Len(file) : file[k][1] = i
    BY <1>1, <1>3, LineIsEnded
  <2>3. i <= landed
    BY <1>1, <2>2 DEF KnownInv
  <2>4. FileInv'
    BY <1>3 DEF EndLine, MidLine, TypeInv, FileInv
  <2> QED BY <1>1, <2>1, <2>2, <2>3, <2>4
<1>4. CASE Rotate
  BY <1>1, <1>4 DEF Rotate, FileInv
<1>5. CASE \E i \in Swaps : Copy(i)
  <2>1. PICK i \in Swaps : Copy(i)
    BY <1>5
  <2>2. /\ i <= landed /\ repeated' = repeated \cup {i} /\ WriteLine(i)
        /\ UNCHANGED <<reader, book, landed, rotations, at>>
    BY <2>1 DEF Copy
  <2>3. FileGrows(i)
    BY <1>1, <2>2, LineIsWritten
  <2>4. FileInv'
    BY <2>2 DEF WriteLine, FileInv
  <2> QED BY <1>1, <2>2, <2>3, <2>4
<1> QED BY <1>2, <1>3, <1>4, <1>5

LEMMA ObservesType ==
  ASSUME TypeInv, NEW i, NEW bins, Observes(i, bins)
  PROVE  log' \in Seq(EventSet) /\ resting' \in [Bins -> {"none", "bid", "ask"}]
<1>1. /\ log \in Seq(EventSet) /\ ladder \in Nat
      /\ i \in Swaps /\ bins \in Seq(Nat) /\ log' = Recorded(i, bins)
  BY DEF TypeInv, Observes, Rest
<1>2. log' \in Seq(EventSet)
  BY <1>1, RecordedLog
<1>3. resting' \in [Bins -> {"none", "bid", "ask"}]
  BY DEF TypeInv, Observes
<1> QED BY <1>2, <1>3

LEMMA TypeStep ==
  ASSUME TypeInv, TaskInv, KnownInv, OrderInv, [Next]_vars
  PROVE  TypeInv'
<1>1. CASE Swap \/ EndLine \/ Rotate \/ (\E i \in Swaps : Copy(i))
  <2>1. /\ UNCHANGED <<reader, book>>
        /\ FileInv' /\ repeated' \subseteq Swaps
        /\ landed' \in {landed, landed + 1} /\ landed' <= Len(Moves)
    BY <1>1, WorldStep
  <2>2. file' \in Seq(Chunks)
    <3>1. file' = <<>> \/ \E i \in Swaps : FileGrows(i)
      BY <1>1, WorldStep
    <3>2. CASE file' = <<>>
      BY <3>2
    <3>3. CASE \E i \in Swaps : FileGrows(i)
      BY <3>3 DEF FileGrows
    <3> QED BY <3>1, <3>2, <3>3
  <2>3. landed \in 0 .. Len(Moves) /\ got \subseteq 1 .. landed
    BY DEF TypeInv
  <2>4. landed' \in 0 .. Len(Moves) /\ got \subseteq 1 .. landed'
    BY <2>1, <2>3, SwapsAreNumbers
  <2> QED BY <2>1, <2>2, <2>4 DEF TypeInv, reader, book
<1>2. CASE Clear
  <2>1. NoLiquidity \in [Bins -> {"none", "bid", "ask"}]
    BY DEF NoLiquidity
  <2> QED BY <1>2, <2>1 DEF Clear, TypeInv, FileInv, reader, world
<1>3. CASE \E l \in Ladders : Register(l)
  <2>1. PICK l \in Ladders : Register(l)
    BY <1>3
  <2>2. l \in [Bins -> {"none", "bid", "ask"}]
    BY SwapAssumption
  <2>3. ladder' \in Nat /\ registered' \in Nat
    <3>1. registered \in Nat
      BY DEF TypeInv
    <3> QED BY <2>1, <3>1 DEF Register
  <2> QED BY <2>1, <2>2, <2>3 DEF Register, TypeInv, FileInv, reader, world
<1>4. CASE Backfill \/ Poll
  <2>1. /\ Fresh(batch') /\ offset' \in {Len(file), offset}
        /\ got' = got \cup Ahead
        /\ task' \in {"filling", "tail", "refilling"}
        /\ UNCHANGED <<world, book, seen, last, log, faults, done>>
    BY <1>4, ReadStep
  <2>2. batch' \in Seq(Swaps) /\ offset' \in Nat
    BY <2>1, StartIsNumber DEF Fresh, TypeInv
  <2>3. got' \subseteq 1 .. landed
    BY <2>1, AheadLanded DEF TypeInv
  <2>4. lostAt' \in [Swaps -> Nat]
    <3>1. Len(log) \in Nat /\ lostAt \in [Swaps -> Nat]
      BY LenProperties DEF TypeInv
    <3>2. lostAt' = [i \in Swaps |-> IF i \in Ahead \ ToSet(batch')
                                      THEN Len(log) ELSE lostAt[i]]
      BY <1>4, ReadStep
    <3> QED BY <3>1, <3>2
  <2> QED BY <2>1, <2>2, <2>3, <2>4 DEF TypeInv, FileInv, world, book
<1>5. CASE Consume
  <2>1. /\ batch # <<>> /\ batch' = Tail(batch)
        /\ UNCHANGED <<world, offset, task, faults, got, lostAt, ladder, placed,
                       registered>>
    BY <1>5, ConsumeStep
  <2>2. Tail(batch) \in Seq(Swaps) /\ Head(batch) \in Swaps
    BY <2>1, BatchHead
  <2>3. CASE UNCHANGED <<seen, log, resting, last, done>>
    BY <2>1, <2>2, <2>3 DEF TypeInv, FileInv, world
  <2>4. CASE /\ Observes(Head(batch), Fills(Head(batch)))
             /\ last' = Head(batch) /\ done' = done \cup {Head(batch)}
    <3>1. log' \in Seq(EventSet) /\ resting' \in [Bins -> {"none", "bid", "ask"}]
      BY <2>4, ObservesType
    <3>2. seen' \subseteq Swaps /\ done' \subseteq Swaps /\ last' \in Swaps \cup {0}
      BY <2>2, <2>4 DEF Observes, TypeInv
    <3> QED BY <2>1, <2>2, <3>1, <3>2 DEF TypeInv, FileInv, world
  <2> QED BY <1>5, <2>3, <2>4, ConsumeStep
<1>6. CASE Fail
  <2>1. /\ batch' = <<>> /\ Head(batch) \in Swaps
        /\ faults' = faults + 1 /\ seen' = seen \cup {Head(batch)}
        /\ task' \in {"ended", "error", "refill error"}
        /\ UNCHANGED <<world, offset, last, got, done, ladder, placed,
                       registered>>
    BY <1>6, FailStep
  <2>2. log' \in Seq(EventSet) /\ resting' \in [Bins -> {"none", "bid", "ask"}]
    <3>1. CASE UNCHANGED <<log, resting>>
      BY <3>1 DEF TypeInv
    <3>2. CASE \E bins \in SomeFills(Head(batch)) : Observes(Head(batch), bins)
      BY <3>2, ObservesType
    <3> QED BY <1>6, <3>1, <3>2, FailStep
  <2>3. batch' \in Seq(Swaps)
    <3>1. batch' = <<>>
      BY <2>1
    <3> QED BY <3>1
  <2>4. faults' \in Nat
    <3>1. faults' = faults + 1 /\ faults \in Nat
      BY <2>1 DEF TypeInv
    <3> QED BY <3>1
  <2>5. seen' \subseteq Swaps
    BY <2>1 DEF TypeInv
  <2>6. lostAt' \in [Swaps -> Nat]
    <3>1. log' \in Seq(EventSet)
      BY <2>2
    <3>2. Len(log') \in Nat /\ lostAt \in [Swaps -> Nat]
      BY <3>1, LenProperties DEF TypeInv
    <3> QED BY <1>6, <3>2, FailStep DEF Dropped
  <2> QED BY <2>1, <2>2, <2>3, <2>4, <2>5, <2>6 DEF TypeInv, FileInv, world
<1>7. CASE Filled
  BY <1>7 DEF Filled, TypeInv, FileInv, world, book
<1>8. CASE LogGap
  <2>1. log' \in Seq(EventSet)
    <3>1. CASE log' = Append(log, Gap)
      <4>1. log \in Seq(EventSet) /\ ladder \in Nat /\ last \in Swaps \cup {0}
        BY DEF TypeInv
      <4>2. Gap \in EventSet
        BY <4>1, GapIsEvent
      <4> QED BY <3>1, <4>1, <4>2, AppendProperties
    <3>2. CASE UNCHANGED log
      BY <3>2 DEF TypeInv
    <3> QED BY <1>8, <3>1, <3>2 DEF LogGap
  <2>2. task' \in {"refill", "pause", "ended"}
    BY <1>8 DEF LogGap
  <2>3. faults' = faults \/ faults' = faults + 1
    BY <1>8 DEF LogGap, Fault
  <2>4. faults' \in Nat
    <3>1. faults \in Nat
      BY DEF TypeInv
    <3> QED BY <2>3, <3>1
  <2> QED BY <1>8, <2>1, <2>2, <2>4 DEF LogGap, TypeInv, FileInv, world, book
<1>9. CASE Retry
  BY <1>9 DEF Retry, TypeInv, FileInv, world, book
<1>10. CASE UNCHANGED vars
  BY <1>10 DEF TypeInv, FileInv, vars, reader, world, book
<1>11. CASE ReadFails
  <2>1. /\ faults' = faults + 1 /\ offset' \in Nat
        /\ task' \in {"ended", "error", "refill error"}
        /\ UNCHANGED <<world, book, seen, last, log, got, done, batch, lostAt>>
    BY <1>11, ReadFailsStep
  <2>2. faults' \in Nat
    <3>1. faults \in Nat
      BY DEF TypeInv
    <3>2. faults' = faults + 1
      BY <2>1
    <3> QED BY <3>1, <3>2
  <2> QED BY <2>1, <2>2 DEF TypeInv, FileInv, world, book
<1> QED BY <1>1, <1>2, <1>3, <1>4, <1>5, <1>6, <1>7, <1>8, <1>9, <1>10, <1>11
        DEF Next, Runner

\* The lines of the file stay in order while neither file nor offset moves.
LEMMA LinesStay ==
  ASSUME OrderInv, UNCHANGED <<file, offset, got, repeated>>
  PROVE  \A k \in StartAt' + 1 .. Len(file') :
            file'[k][2] = 1 /\ file'[k][1] \notin repeated' =>
                /\ \A i \in got' : i < file'[k][1]
                /\ \A m \in 1 .. k - 1 :
                    file'[m][2] = 1 => file'[m][1] < file'[k][1]
<1>1. StartAt' = StartAt
  BY DEF StartAt
<1> QED BY <1>1 DEF OrderInv

LEMMA NoRowsInOrder ==
  ASSUME TypeInv, OrderInv, batch' = <<>>, UNCHANGED <<file, offset, got, repeated>>
  PROVE  OrderInv'
<1>1. Len(batch') = 0
  BY EmptySeq
<1>2. \A n \in 1 .. Len(batch') : FALSE
  BY <1>1
<1> QED BY <1>2, LinesStay DEF OrderInv

LEMMA OrderStep ==
  ASSUME TypeInv, TaskInv, KnownInv, OrderInv, [Next]_vars
  PROVE  OrderInv'
<1>1. CASE Swap \/ EndLine \/ Rotate \/ (\E i \in Swaps : Copy(i))
  <2>1. /\ UNCHANGED <<offset, got, batch, last, seen>>
        /\ repeated \subseteq repeated'
    BY <1>1, WorldStep DEF reader
  <2>2. CASE file' = <<>>
    <3>1. StartAt' \in Nat /\ Len(file') = 0
      <4>1. offset' \in Nat
        BY <2>1 DEF TypeInv
      <4> QED BY <2>2, <4>1 DEF StartAt
    <3>2. \A k \in StartAt' + 1 .. Len(file') : FALSE
      <4>1. PICK s \in Nat : s = StartAt'
        BY <3>1
      <4>2. \A k \in s + 1 .. 0 : FALSE
        OBVIOUS
      <4> QED BY <3>1, <4>1, <4>2
    <3> QED BY <2>1, <3>2 DEF OrderInv
  <2>3. CASE \E i \in Swaps :
                /\ FileGrows(i)
                /\ \/ i > landed
                   \/ i \in repeated'
                   \/ file'[Len(file) + 1][2] = 2
    BY <2>1, <2>3, OrderGrows
  <2> QED BY <1>1, <2>2, <2>3, WorldStep
<1>2. CASE Clear \/ (\E l \in Ladders : Register(l)) \/ Filled \/ LogGap \/ Retry
          \/ UNCHANGED vars
  <2>1. UNCHANGED <<file, offset, got, repeated, batch, last, seen>>
    BY <1>2 DEF Clear, Register, Filled, LogGap, Retry, vars, reader, world, book
  <2> QED BY <2>1, LinesStay DEF OrderInv
<1>3. CASE Backfill \/ Poll
  <2>1. /\ Fresh(batch')
        /\ offset' = Len(file) \/ (offset' = offset /\ file = <<>>)
        /\ UNCHANGED <<file, repeated, last, seen>>
    BY <1>3, ReadStep DEF world
  <2>2. StartAt' >= Len(file') /\ Len(file') \in Nat /\ StartAt' \in Nat
    <3>1. Len(file') = Len(file) /\ Len(file) \in Nat /\ offset \in Nat
      BY <2>1, StartIsNumber DEF TypeInv
    <3>2. offset' = Len(file) \/ (offset' = offset /\ Len(file) = 0)
      BY <2>1
    <3> QED BY <3>1, <3>2 DEF StartAt
  <2>3. \A k \in StartAt' + 1 .. Len(file') : FALSE
    BY <2>2, NothingBeyond
  <2> QED BY <2>1, <2>3 DEF OrderInv, Fresh
<1>4. CASE Consume
  <2>1. /\ batch # <<>> /\ batch' = Tail(batch)
        /\ UNCHANGED <<file, offset, got, repeated>>
    BY <1>4, ConsumeStep DEF world
  <2>2. /\ 1 \in 1 .. Len(batch) /\ Head(batch) = batch[1]
        /\ \A n \in 1 .. Len(batch') :
            batch'[n] = batch[n + 1] /\ n + 1 \in 1 .. Len(batch)
    BY <2>1, BatchHead
  <2>3. /\ last' = last \/ last' = batch[1]
        /\ seen' = seen \/ seen' = seen \cup {batch[1]}
    BY <1>4, <2>2, ConsumeStep DEF Observes
  <2>4. ASSUME NEW n \in 1 .. Len(batch'), batch'[n] \notin repeated'
        PROVE  /\ last' < batch'[n] /\ batch'[n] \notin seen'
               /\ \A m \in 1 .. n - 1 : batch'[m] < batch'[n]
    <3>1. batch'[n] = batch[n + 1] /\ n + 1 \in 1 .. Len(batch)
      BY <2>2
    <3>2. /\ last < batch[n + 1] /\ batch[n + 1] \notin seen
          /\ \A m \in 1 .. n + 1 - 1 : batch[m] < batch[n + 1]
      BY <2>1, <2>4, <3>1 DEF OrderInv
    <3>3. batch[1] < batch[n + 1]
      BY <3>1, <3>2
    <3>4. batch[1] \in Nat /\ batch[n + 1] \in Nat
      BY <2>2, <3>1, ElementOfSeq, SwapsAreNumbers DEF TypeInv
    <3>5. last' < batch'[n] /\ batch'[n] \notin seen'
      BY <2>3, <3>1, <3>2, <3>3, <3>4
    <3>6. ASSUME NEW m \in 1 .. n - 1 PROVE batch'[m] < batch'[n]
      <4>1. m + 1 \in 1 .. n + 1 - 1 /\ m \in 1 .. Len(batch')
        BY <2>1, BatchHead
      <4> QED BY <2>2, <3>1, <3>2, <4>1
    <3> QED BY <3>5, <3>6
  <2> QED BY <2>1, <2>4, LinesStay DEF OrderInv
<1>5. CASE Fail
  <2>1. batch' = <<>> /\ UNCHANGED <<file, offset, got, repeated>>
    BY <1>5, FailStep DEF world
  <2> QED BY <2>1, NoRowsInOrder
<1>6. CASE ReadFails
  <2>1. /\ StartAt' = StartAt
        /\ UNCHANGED <<file, got, repeated, batch, last, seen>>
    BY <1>6, ReadFailsStep DEF world
  <2> QED BY <2>1 DEF OrderInv
<1> QED BY <1>1, <1>2, <1>3, <1>4, <1>5, <1>6 DEF Next, Runner

LEMMA TaskStep ==
  ASSUME TypeInv, TaskInv, KnownInv, OrderInv, [Next]_vars
  PROVE  TaskInv'
<1>1. CASE \/ Swap \/ EndLine \/ Rotate \/ (\E i \in Swaps : Copy(i))
           \/ Clear \/ (\E l \in Ladders : Register(l)) \/ UNCHANGED vars
  <2>1. UNCHANGED <<batch, task, last, log>>
    BY <1>1, WorldStep DEF Clear, Register, vars, reader
  <2> QED BY <2>1 DEF TaskInv, Events
<1>2. CASE Backfill \/ Poll
  <2>1. task' \in {"filling", "tail", "refilling"}
    BY <1>2, ReadStep
  <2> QED BY <2>1 DEF TaskInv
<1>3. CASE Consume
  <2>1. batch # <<>> /\ UNCHANGED task
    BY <1>3, ConsumeStep
  <2> QED BY <2>1 DEF TaskInv
<1>4. CASE Fail
  <2>1. batch' = <<>> /\ task' \in {"ended", "error", "refill error"}
    BY <1>4, FailStep
  <2> QED BY <2>1 DEF TaskInv
<1>5. CASE Filled \/ Retry
  <2>1. UNCHANGED batch /\ batch = <<>> /\ task' \in {"tail", "pause"}
    BY <1>5 DEF Filled, Retry, TaskInv
  <2> QED BY <2>1 DEF TaskInv
<1>6. CASE LogGap
  <2>1. batch' = <<>> /\ task' \in {"refill", "pause", "ended"} /\ last' = last
    BY <1>6 DEF LogGap, TaskInv
  <2>2. ASSUME task' = "refill"
        PROVE  /\ Len(log') \in Events("swap_stream_gap")'
               /\ log'[Len(log')].swap = last'
    <3>1. log' = Append(log, Gap)
      BY <1>6, <2>2 DEF LogGap
    <3>2. log \in Seq(EventSet) /\ last \in Swaps \cup {0}
      BY DEF TypeInv
    <3>3. /\ Gap \in EventSet
          /\ Gap.type = "swap_stream_gap" /\ Gap.swap = last
      BY <3>2, GapIsEvent
    <3>4. /\ Len(log') = Len(log) + 1 /\ log'[Len(log) + 1] = Gap
          /\ Len(log) \in Nat
      BY <3>1, <3>2, <3>3, AppendProperties, LenProperties
    <3>5. Len(log) + 1 \in Events("swap_stream_gap")'
      BY <3>3, <3>4 DEF Events
    <3> QED BY <2>1, <3>3, <3>4, <3>5
  <2> QED BY <2>1, <2>2 DEF TaskInv
<1>7. CASE ReadFails
  <2>1. /\ batch' = <<>> /\ task' \in {"ended", "error", "refill error"}
    BY <1>7, ReadFailsStep
  <2> QED BY <2>1 DEF TaskInv
<1> QED BY <1>1, <1>2, <1>3, <1>4, <1>5, <1>6, <1>7 DEF Next, Runner

LEMMA KnownStep ==
  ASSUME TypeInv, TaskInv, KnownInv, OrderInv, [Next]_vars
  PROVE  KnownInv'
<1>1. CASE Swap \/ EndLine \/ Rotate \/ (\E i \in Swaps : Copy(i))
  <2>1. /\ UNCHANGED <<done, seen, got, last, batch>>
        /\ landed' \in {landed, landed + 1}
    BY <1>1, WorldStep DEF reader
  <2>2. \A k \in 1 .. Len(file') : file'[k][1] \in 1 .. landed'
    <3>0. landed \in Nat /\ landed' \in Nat /\ landed <= landed'
      <4>1. landed \in 0 .. Len(Moves)
        BY DEF TypeInv
      <4>2. landed \in Nat
        BY <4>1, SwapsAreNumbers
      <4> QED BY <2>1, <4>2
    <3>1. CASE file' = <<>>
      <4>1. Len(file') = 0
        BY <3>1
      <4> QED BY <4>1
    <3>2. CASE \E i \in Swaps : FileGrows(i) /\ i <= landed'
      <4>1. PICK i \in Swaps : FileGrows(i) /\ i <= landed'
        BY <3>2
      <4>2. i \in 1 .. landed'
        BY <3>0, <4>1, SwapsAreNumbers
      <4> TAKE k \in 1 .. Len(file')
      <4>3. CASE k <= Len(file)
        <5>1. Len(file) \in Nat
          BY StartIsNumber
        <5>2. k \in 1 .. Len(file)
          BY <4>3, <5>1
        <5>3. file'[k] = file[k] /\ file[k][1] \in 1 .. landed
          BY <4>1, <5>2 DEF FileGrows, KnownInv
        <5> QED BY <3>0, <5>3
      <4>4. CASE ~ (k <= Len(file))
        <5>1. Len(file) \in Nat /\ Len(file') \in Nat
          BY <4>1, StartIsNumber DEF FileGrows
        <5>2. k \in Len(file) + 1 .. Len(file')
          BY <4>4, <5>1
        <5>3. file'[k][1] = i
          BY <4>1, <5>2 DEF FileGrows
        <5> QED BY <4>2, <5>3
      <4> QED BY <4>3, <4>4
    <3> QED BY <1>1, <3>1, <3>2, WorldStep
  <2> QED BY <2>1, <2>2 DEF KnownInv
<1>2. CASE Clear \/ (\E l \in Ladders : Register(l)) \/ Filled \/ LogGap \/ Retry
          \/ UNCHANGED vars
  <2>1. UNCHANGED <<done, seen, got, last, batch, file, landed>>
    BY <1>2 DEF Clear, Register, Filled, LogGap, Retry, vars, reader, world, book
  <2> QED BY <2>1 DEF KnownInv
<1>3. CASE Backfill \/ Poll
  <2>1. /\ Fresh(batch') /\ got' = got \cup Ahead
        /\ UNCHANGED <<done, seen, last, file, landed>>
    BY <1>3, ReadStep DEF world
  <2> QED BY <2>1 DEF KnownInv, Fresh
<1>4. CASE Consume
  <2>1. /\ batch # <<>> /\ batch' = Tail(batch)
        /\ UNCHANGED <<file, landed, got>>
    BY <1>4, ConsumeStep DEF world
  <2>2. /\ 1 \in 1 .. Len(batch) /\ Head(batch) = batch[1]
        /\ \A n \in 1 .. Len(batch') :
            batch'[n] = batch[n + 1] /\ n + 1 \in 1 .. Len(batch)
    BY <2>1, BatchHead
  <2>3. batch[1] \in got
    BY <2>2 DEF KnownInv
  <2>4. \/ UNCHANGED <<seen, last, done>>
        \/ /\ seen' = seen \cup {batch[1]} /\ last' = batch[1]
           /\ done' = done \cup {batch[1]}
    BY <1>4, <2>2, ConsumeStep DEF Observes
  <2> QED BY <2>1, <2>2, <2>3, <2>4 DEF KnownInv
<1>5. CASE Fail
  <2>1. /\ batch # <<>> /\ batch' = <<>> /\ seen' = seen \cup {Head(batch)}
        /\ UNCHANGED <<file, landed, got, done, last>>
    BY <1>5, FailStep DEF world
  <2>2. 1 \in 1 .. Len(batch) /\ Head(batch) = batch[1]
    BY <2>1, BatchHead
  <2>3. \A n \in 1 .. Len(batch') : FALSE
    <3>1. Len(batch') = 0
      BY <2>1
    <3> QED BY <3>1
  <2> QED BY <2>1, <2>2, <2>3 DEF KnownInv
<1>6. CASE ReadFails
  <2>1. UNCHANGED <<done, seen, got, last, batch, file, landed>>
    BY <1>6, ReadFailsStep DEF world
  <2> QED BY <2>1 DEF KnownInv
<1> QED BY <1>1, <1>2, <1>3, <1>4, <1>5, <1>6 DEF Next, Runner

-----------------------------------------------------------------------------
(* The log. *)

\* What was logged by Observes: what a new event is.
LEMMA ObservesEvents ==
  ASSUME TypeInv, NEW i, NEW bins, Observes(i, bins)
  PROVE  /\ Len(log) \in Nat /\ Len(log') = Len(log) + 1 + Len(bins)
         /\ Len(bins) \in Nat
         /\ \A k \in 1 .. Len(log) : log'[k] = log[k]
         /\ log'[Len(log) + 1] = Trade(i)
         /\ \A a \in 1 .. Len(bins) :
                log'[Len(log) + 1 + a] = Fill(i, bins[a])
         /\ \A k \in 1 .. Len(log') :
                \/ k \in 1 .. Len(log)
                \/ k = Len(log) + 1
                \/ \E a \in 1 .. Len(bins) : k = Len(log) + 1 + a
<1>1. /\ log \in Seq(EventSet) /\ ladder \in Nat
      /\ i \in Swaps /\ bins \in Seq(Nat) /\ log' = Recorded(i, bins)
  BY DEF TypeInv, Observes, Rest
<1>2. /\ Len(log) \in Nat /\ Len(bins) \in Nat
      /\ Len(log') = Len(log) + 1 + Len(bins)
      /\ log'[Len(log) + 1] = Trade(i)
  BY <1>1, RecordedLog
<1>3. ASSUME NEW k \in 1 .. Len(log) PROVE log'[k] = log[k]
  BY <1>1, RecordedLog
<1>4. ASSUME NEW a \in 1 .. Len(bins)
      PROVE  log'[Len(log) + 1 + a] = Fill(i, bins[a])
  BY <1>1, RecordedLog
<1>5. ASSUME NEW k \in 1 .. Len(log')
      PROVE  \/ k \in 1 .. Len(log)
             \/ k = Len(log) + 1
             \/ \E a \in 1 .. Len(bins) : k = Len(log) + 1 + a
  <2>1. CASE k > Len(log) + 1
    <3>1. k - (Len(log) + 1) \in 1 .. Len(bins)
          /\ k = Len(log) + 1 + (k - (Len(log) + 1))
      BY <1>2, <2>1
    <3> QED BY <3>1
  <2> QED BY <1>2, <2>1
<1> QED BY <1>2, <1>3, <1>4, <1>5

\* Which trades and fills are in the log after it.
LEMMA ObservesTrades ==
  ASSUME TypeInv, NEW i, NEW bins, Observes(i, bins)
  PROVE  /\ \A k \in Events("observed_trade")' :
                \/ /\ k \in Events("observed_trade") /\ log'[k] = log[k]
                \/ /\ k = Len(log) + 1 /\ log'[k].swap = i
                   /\ log'[k].ours <=> CrossedOurs(i)
         /\ \A k \in Events("observed_trade") :
                k \in Events("observed_trade")' /\ log'[k] = log[k]
         /\ Len(log) + 1 \in Events("observed_trade")'
         /\ log'[Len(log) + 1].swap = i
<1>1. i \in Swaps /\ ladder \in Nat /\ bins \in Seq(Nat)
  BY DEF Observes, Rest, TypeInv
<1>2. /\ Trade(i).type = "observed_trade" /\ Trade(i).swap = i
      /\ Trade(i).ours <=> CrossedOurs(i)
  <2>1. 0 \in Nat
    OBVIOUS
  <2> QED BY <1>1, <2>1, EventFields
<1>3. \A a \in 1 .. Len(bins) : Fill(i, bins[a]).type = "bin_fill"
  BY <1>1, ElementOfSeq, EventFields
<1>4. /\ Len(log) \in Nat /\ Len(log') = Len(log) + 1 + Len(bins)
      /\ Len(bins) \in Nat
      /\ \A k \in 1 .. Len(log) : log'[k] = log[k]
      /\ log'[Len(log) + 1] = Trade(i)
      /\ \A a \in 1 .. Len(bins) : log'[Len(log) + 1 + a] = Fill(i, bins[a])
      /\ \A k \in 1 .. Len(log') :
            \/ k \in 1 .. Len(log)
            \/ k = Len(log) + 1
            \/ \E a \in 1 .. Len(bins) : k = Len(log) + 1 + a
  BY ObservesEvents
<1>5. Len(log) + 1 \in 1 .. Len(log') /\ 1 .. Len(log) \subseteq 1 .. Len(log')
  BY <1>4
<1>6. ASSUME NEW k \in Events("observed_trade")'
      PROVE  \/ k \in Events("observed_trade") /\ log'[k] = log[k]
             \/ k = Len(log) + 1
  <2>1. k \in 1 .. Len(log') /\ log'[k].type = "observed_trade"
    BY DEF Events
  <2> QED BY <1>3, <1>4, <2>1 DEF Events
<1>7. \A k \in Events("observed_trade") :
        k \in Events("observed_trade")' /\ log'[k] = log[k]
  BY <1>4, <1>5 DEF Events
<1>8. Len(log) + 1 \in Events("observed_trade")'
  BY <1>2, <1>4, <1>5 DEF Events
<1> QED BY <1>2, <1>4, <1>6, <1>7, <1>8

LEMMA ObservesFills ==
  ASSUME TypeInv, NEW i, NEW bins, Observes(i, bins)
  PROVE  /\ \A k \in Events("bin_fill")' :
                \/ k \in Events("bin_fill") /\ log'[k] = log[k]
                \/ \E a \in 1 .. Len(bins) :
                    /\ k = Len(log) + 1 + a /\ log'[k].swap = i
                    /\ log'[k].bin = bins[a] /\ log'[k].ladder = ladder
         /\ \A k \in Events("bin_fill") :
                k \in Events("bin_fill")' /\ log'[k] = log[k]
         /\ \A a \in 1 .. Len(bins) :
                /\ Len(log) + 1 + a \in Events("bin_fill")'
                /\ log'[Len(log) + 1 + a].swap = i
<1>1. i \in Swaps /\ ladder \in Nat /\ bins \in Seq(Nat)
  BY DEF Observes, Rest, TypeInv
<1>2. Trade(i).type = "observed_trade"
  <2>1. 0 \in Nat
    OBVIOUS
  <2> QED BY <1>1, <2>1, EventFields
<1>3. \A a \in 1 .. Len(bins) :
        /\ Fill(i, bins[a]).type = "bin_fill" /\ Fill(i, bins[a]).swap = i
        /\ Fill(i, bins[a]).bin = bins[a] /\ Fill(i, bins[a]).ladder = ladder
  BY <1>1, ElementOfSeq, EventFields
<1>4. /\ Len(log) \in Nat /\ Len(log') = Len(log) + 1 + Len(bins)
      /\ Len(bins) \in Nat
      /\ \A k \in 1 .. Len(log) : log'[k] = log[k]
      /\ log'[Len(log) + 1] = Trade(i)
      /\ \A a \in 1 .. Len(bins) : log'[Len(log) + 1 + a] = Fill(i, bins[a])
      /\ \A k \in 1 .. Len(log') :
            \/ k \in 1 .. Len(log)
            \/ k = Len(log) + 1
            \/ \E a \in 1 .. Len(bins) : k = Len(log) + 1 + a
  BY ObservesEvents
<1>5. /\ 1 .. Len(log) \subseteq 1 .. Len(log')
      /\ \A a \in 1 .. Len(bins) : Len(log) + 1 + a \in 1 .. Len(log')
  BY <1>4
<1>6. ASSUME NEW k \in Events("bin_fill")'
      PROVE  \/ k \in Events("bin_fill") /\ log'[k] = log[k]
             \/ \E a \in 1 .. Len(bins) :
                    /\ k = Len(log) + 1 + a /\ log'[k].swap = i
                    /\ log'[k].bin = bins[a] /\ log'[k].ladder = ladder
  <2>1. k \in 1 .. Len(log') /\ log'[k].type = "bin_fill"
    BY DEF Events
  <2>2. CASE k \in 1 .. Len(log)
    BY <1>4, <2>1, <2>2 DEF Events
  <2>3. CASE k = Len(log) + 1
    BY <1>2, <1>4, <2>1, <2>3
  <2>4. CASE \E a \in 1 .. Len(bins) : k = Len(log) + 1 + a
    BY <1>3, <1>4, <2>4
  <2> QED BY <1>4, <2>1, <2>2, <2>3, <2>4
<1>7. \A k \in Events("bin_fill") :
        k \in Events("bin_fill")' /\ log'[k] = log[k]
  BY <1>4, <1>5 DEF Events
<1>8. \A a \in 1 .. Len(bins) :
        /\ Len(log) + 1 + a \in Events("bin_fill")'
        /\ log'[Len(log) + 1 + a].swap = i
  BY <1>3, <1>4, <1>5 DEF Events
<1> QED BY <1>6, <1>7, <1>8

\* The handlers add a gap, which is no trade and no fill.
LEMMA GapEvents ==
  ASSUME TypeInv, LogGap
  PROVE  /\ \A k \in 1 .. Len(log) : k \in 1 .. Len(log') /\ log'[k] = log[k]
         /\ Events("observed_trade")' = Events("observed_trade")
         /\ Events("bin_fill")' = Events("bin_fill")
<1>1. log \in Seq(EventSet) /\ last \in Swaps \cup {0} /\ Len(log) \in Nat
  BY LenProperties DEF TypeInv
<1>2. CASE UNCHANGED log
  BY <1>2 DEF Events
<1>3. CASE log' = Append(log, Gap)
  <2>1. Gap \in EventSet /\ Gap.type = "swap_stream_gap"
    BY <1>1, GapIsEvent
  <2>2. /\ Len(log') = Len(log) + 1 /\ log'[Len(log) + 1] = Gap
        /\ \A k \in 1 .. Len(log) : log'[k] = log[k]
    BY <1>1, <1>3, <2>1, AppendProperties
  <2>3. 1 .. Len(log') = (1 .. Len(log)) \cup {Len(log) + 1}
    BY <1>1, <2>2
  <2> QED BY <2>1, <2>2, <2>3 DEF Events
<1> QED BY <1>2, <1>3 DEF LogGap

\* A step observes a swap, or the trades and fills of the log stay what they
\* are.
LEMMA LogStep ==
  ASSUME TypeInv, TaskInv, KnownInv, OrderInv, [Next]_vars
  PROVE  \/ /\ Events("observed_trade")' = Events("observed_trade")
            /\ Events("bin_fill")' = Events("bin_fill")
            /\ \A k \in 1 .. Len(log) : k \in 1 .. Len(log') /\ log'[k] = log[k]
            /\ seen \subseteq seen'
         \/ /\ Consume \/ Fail
            /\ UNCHANGED <<ladder, registered>>
            /\ \E bins \in {Fills(Head(batch))} \cup SomeFills(Head(batch)) :
                   Observes(Head(batch), bins)
<1>1. CASE UNCHANGED <<log, seen>>
  BY <1>1 DEF Events
<1>2. CASE LogGap
  <2>1. UNCHANGED seen
    BY <1>2 DEF LogGap
  <2> QED BY <1>2, <2>1, GapEvents
<1>3. CASE Swap \/ EndLine \/ Rotate \/ (\E i \in Swaps : Copy(i))
  <2>1. UNCHANGED <<log, seen>>
    BY <1>3, WorldStep DEF reader
  <2> QED BY <1>1, <2>1
<1>4. CASE Clear \/ (\E l \in Ladders : Register(l)) \/ Filled \/ Retry
          \/ UNCHANGED vars
  <2>1. UNCHANGED <<log, seen>>
    BY <1>4 DEF Clear, Register, Filled, Retry, vars, reader
  <2> QED BY <1>1, <2>1
<1>5. CASE Backfill \/ Poll
  <2>1. UNCHANGED <<log, seen>>
    BY <1>5, ReadStep
  <2> QED BY <1>1, <2>1
<1>6. CASE Consume
  BY <1>1, <1>6, ConsumeStep
<1>7. CASE Fail
  <2>1. /\ seen' = seen \cup {Head(batch)} /\ UNCHANGED <<ladder, registered>>
        /\ \/ UNCHANGED <<log, resting>>
           \/ \E bins \in SomeFills(Head(batch)) : Observes(Head(batch), bins)
    BY <1>7, FailStep
  <2>2. CASE UNCHANGED log
    BY <2>1, <2>2 DEF Events
  <2> QED BY <1>7, <2>1, <2>2
<1>8. CASE ReadFails
  <2>1. UNCHANGED <<log, seen>>
    BY <1>8, ReadFailsStep
  <2> QED BY <1>1, <2>1
<1> QED BY <1>2, <1>3, <1>4, <1>5, <1>6, <1>7, <1>8 DEF Next, Runner

LEMMA TradeStep ==
  ASSUME TypeInv, TaskInv, KnownInv, OrderInv, TradeInv, [Next]_vars
  PROVE  TradeInv'
<1>0. \A k \in Events("observed_trade") : k \in 1 .. Len(log)
  BY DEF Events
<1>1. CASE /\ Events("observed_trade")' = Events("observed_trade")
           /\ \A k \in 1 .. Len(log) : log'[k] = log[k]
           /\ seen \subseteq seen'
  BY <1>0, <1>1 DEF TradeInv, LoggedOnce
<1>2. CASE \E bins \in {Fills(Head(batch))} \cup SomeFills(Head(batch)) :
              Observes(Head(batch), bins)
  <2> DEFINE i == Head(batch)
  <2>1. PICK bins \in {Fills(i)} \cup SomeFills(i) : Observes(i, bins)
    BY <1>2
  <2>2. i \notin seen /\ seen' = seen \cup {i}
    BY <2>1 DEF Observes
  <2>3. /\ \A k \in Events("observed_trade")' :
              \/ k \in Events("observed_trade") /\ log'[k] = log[k]
              \/ k = Len(log) + 1 /\ log'[k].swap = i
    BY <2>1, ObservesTrades
  <2> HIDE DEF i
  <2>4. \A k \in Events("observed_trade")' : log'[k].swap \in seen'
    BY <2>2, <2>3 DEF TradeInv
  <2>5. \A j, k \in Events("observed_trade")' :
            log'[j].swap = log'[k].swap => j = k
    BY <2>2, <2>3 DEF TradeInv, LoggedOnce
  <2> QED BY <2>4, <2>5 DEF TradeInv, LoggedOnce
<1> QED BY <1>1, <1>2, LogStep

\* A bin that fills was resting: under this ladder it had not filled before,
\* and it is empty now.
LEMMA SoldOnce ==
  ASSUME TypeInv, FillInv, NEW i, NEW bins, Observes(i, bins),
         UNCHANGED <<ladder, registered>>
  PROVE  FillInv'
<1>1. /\ bins \in Seq(Nat)
      /\ \A a \in 1 .. Len(bins) : bins[a] \in Bins /\ resting[bins[a]] # "none"
      /\ \A a, b \in 1 .. Len(bins) : bins[a] = bins[b] => a = b
      /\ resting' = [b \in Bins |->
                       IF b \in ToSet(bins) THEN "none" ELSE resting[b]]
  BY DEF Observes, Rest
<1>2. \A a \in 1 .. Len(bins) : bins[a] \in ToSet(bins)
  BY <1>1, LenProperties DEF ToSet
<1>3. \A b \in Bins : resting'[b] = "none" \/ resting'[b] = resting[b]
  BY <1>1
<1>4. \A a \in 1 .. Len(bins) : resting'[bins[a]] = "none"
  BY <1>1, <1>2
<1>5. ladder \in Nat /\ registered \in Nat
  BY DEF TypeInv
<1>6. ladder = 0 => resting' = NoLiquidity
  <2>1. HAVE ladder = 0
  <2>2. resting = [b \in Bins |-> "none"]
    BY <2>1 DEF FillInv, NoLiquidity
  <2>3. \A b \in Bins : resting'[b] = "none"
    BY <1>3, <2>2
  <2>4. resting' = [b \in Bins |-> "none"]
    BY <1>1, <2>3
  <2> QED BY <2>4 DEF NoLiquidity
<1>7. ASSUME NEW a \in 1 .. Len(bins) PROVE ladder \in 1 .. registered
  <2>1. ladder # 0
    BY <1>1 DEF FillInv, NoLiquidity
  <2> QED BY <1>5, <2>1 DEF FillInv
<1>8. \A k \in Events("bin_fill")' :
        \/ k \in Events("bin_fill") /\ log'[k] = log[k]
        \/ \E a \in 1 .. Len(bins) :
            /\ k = Len(log) + 1 + a
            /\ log'[k].bin = bins[a] /\ log'[k].ladder = ladder
  BY ObservesFills
<1>9. ASSUME NEW k \in Events("bin_fill")'
      PROVE  /\ log'[k].ladder \in 1 .. registered
             /\ log'[k].bin \in Bins
             /\ log'[k].ladder = ladder => resting'[log'[k].bin] = "none"
  <2>1. CASE k \in Events("bin_fill") /\ log'[k] = log[k]
    BY <1>3, <2>1 DEF FillInv
  <2>2. CASE \E a \in 1 .. Len(bins) :
                log'[k].bin = bins[a] /\ log'[k].ladder = ladder
    BY <1>1, <1>4, <1>7, <2>2
  <2> QED BY <1>8, <2>1, <2>2
<1>10. ASSUME NEW j \in Events("bin_fill")', NEW k \in Events("bin_fill")',
              log'[j].ladder = log'[k].ladder, log'[j].bin = log'[k].bin
       PROVE  j = k
  <2>1. CASE /\ j \in Events("bin_fill") /\ log'[j] = log[j]
             /\ k \in Events("bin_fill") /\ log'[k] = log[k]
    BY <1>10, <2>1 DEF FillInv, FilledOnce
  <2>2. CASE /\ j \in Events("bin_fill") /\ log'[j] = log[j]
             /\ \E a \in 1 .. Len(bins) :
                    log'[k].bin = bins[a] /\ log'[k].ladder = ladder
    BY <1>1, <1>10, <2>2 DEF FillInv
  <2>3. CASE /\ k \in Events("bin_fill") /\ log'[k] = log[k]
             /\ \E a \in 1 .. Len(bins) :
                    log'[j].bin = bins[a] /\ log'[j].ladder = ladder
    BY <1>1, <1>10, <2>3 DEF FillInv
  <2>4. CASE /\ \E a \in 1 .. Len(bins) :
                    k = Len(log) + 1 + a /\ log'[k].bin = bins[a]
             /\ \E a \in 1 .. Len(bins) :
                    j = Len(log) + 1 + a /\ log'[j].bin = bins[a]
    BY <1>1, <1>10, <2>4
  <2> QED BY <1>8, <2>1, <2>2, <2>3, <2>4
<1>11. FilledOnce'
  BY <1>10 DEF FilledOnce
<1> QED BY <1>6, <1>9, <1>11 DEF FillInv

LEMMA FillStep ==
  ASSUME TypeInv, TaskInv, KnownInv, OrderInv, FillInv, [Next]_vars
  PROVE  FillInv'
<1>0. \A k \in Events("bin_fill") : k \in 1 .. Len(log)
  BY DEF Events
<1>1. CASE \E bins \in {Fills(Head(batch))} \cup SomeFills(Head(batch)) :
              Observes(Head(batch), bins) /\ UNCHANGED <<ladder, registered>>
  BY <1>1, SoldOnce
<1>2. ASSUME Events("bin_fill")' = Events("bin_fill"),
             \A k \in 1 .. Len(log) : log'[k] = log[k]
      PROVE  FillInv'
  <2>1. FilledOnce'
    BY <1>0, <1>2 DEF FillInv, FilledOnce
  <2>2. CASE UNCHANGED <<ladder, registered, resting>>
    BY <1>0, <1>2, <2>1, <2>2 DEF FillInv, NoLiquidity
  <2>3. CASE Clear
    <3>1. ladder' = 0 /\ resting' = NoLiquidity /\ registered' = registered
      BY <2>3 DEF Clear
    <3>2. registered \in Nat
      BY DEF TypeInv
    <3>3. \A k \in Events("bin_fill")' :
            log'[k].ladder \in 1 .. registered /\ log'[k].bin \in Bins
            /\ log'[k].ladder # 0
      BY <1>0, <1>2, <3>2 DEF FillInv
    <3> QED BY <2>1, <3>1, <3>2, <3>3 DEF FillInv, NoLiquidity
  <2>4. CASE \E l \in Ladders : Register(l)
    <3>1. ladder' = registered + 1 /\ registered' = registered + 1
      BY <2>4 DEF Register
    <3>2. registered \in Nat
      BY DEF TypeInv
    <3>3. \A k \in Events("bin_fill")' :
            log'[k].ladder \in 1 .. registered /\ log'[k].bin \in Bins
      BY <1>0, <1>2 DEF FillInv
    <3>4. \A k \in Events("bin_fill")' :
            log'[k].ladder \in 1 .. registered + 1
            /\ log'[k].ladder # registered + 1
      BY <3>2, <3>3
    <3>5. ladder' # 0 /\ ladder' <= registered'
      BY <3>1, <3>2
    <3> QED BY <2>1, <3>1, <3>3, <3>4, <3>5 DEF FillInv
  <2>5. CASE Swap \/ EndLine \/ Rotate \/ (\E i \in Swaps : Copy(i))
    <3>1. UNCHANGED <<ladder, registered, resting>>
      BY <2>5, WorldStep DEF book
    <3> QED BY <2>2, <3>1
  <2>6. CASE Backfill \/ Poll
    <3>1. UNCHANGED <<ladder, registered, resting>>
      BY <2>6, ReadStep DEF book
    <3> QED BY <2>2, <3>1
  <2>7. CASE Consume
    <3>1. CASE UNCHANGED resting
      BY <2>2, <2>7, <3>1, ConsumeStep
    <3>2. CASE Observes(Head(batch), Fills(Head(batch)))
      BY <2>7, <3>2, ConsumeStep, SoldOnce
    <3> QED BY <2>7, <3>1, <3>2, ConsumeStep
  <2>8. CASE Fail
    <3>1. CASE UNCHANGED resting
      BY <2>2, <2>8, <3>1, FailStep
    <3>2. CASE \E bins \in SomeFills(Head(batch)) : Observes(Head(batch), bins)
      BY <2>8, <3>2, FailStep, SoldOnce
    <3> QED BY <2>8, <3>1, <3>2, FailStep
  <2>9. CASE Filled \/ LogGap \/ Retry \/ UNCHANGED vars
    <3>1. UNCHANGED <<ladder, registered, resting>>
      BY <2>9 DEF Filled, LogGap, Retry, vars, book
    <3> QED BY <2>2, <3>1
  <2>10. CASE ReadFails
    <3>1. UNCHANGED <<ladder, registered, resting>>
      BY <2>10, ReadFailsStep DEF book
    <3> QED BY <2>2, <3>1
  <2> QED BY <2>3, <2>4, <2>5, <2>6, <2>7, <2>8, <2>9, <2>10 DEF Next, Runner
<1> QED BY <1>1, <1>2, LogStep

-----------------------------------------------------------------------------
(* What was lost. *)

\* No step takes a gap out of the log.
LEMMA GapsStay ==
  ASSUME TypeInv, TaskInv, KnownInv, OrderInv, [Next]_vars
  PROVE  \A k \in Events("swap_stream_gap") :
            k \in Events("swap_stream_gap")' /\ log'[k] = log[k]
<1>1. ASSUME \A k \in 1 .. Len(log) : k \in 1 .. Len(log') /\ log'[k] = log[k]
      PROVE  \A k \in Events("swap_stream_gap") :
                k \in Events("swap_stream_gap")' /\ log'[k] = log[k]
  BY <1>1 DEF Events
<1>2. ASSUME NEW bins, Observes(Head(batch), bins)
      PROVE  \A k \in 1 .. Len(log) : k \in 1 .. Len(log') /\ log'[k] = log[k]
  <2>1. /\ Len(log) \in Nat /\ Len(log') = Len(log) + 1 + Len(bins)
        /\ Len(bins) \in Nat
        /\ \A k \in 1 .. Len(log) : log'[k] = log[k]
    BY <1>2, ObservesEvents
  <2> QED BY <2>1
<1> QED BY <1>1, <1>2, LogStep

\* A swap of the batch that the executor wrote once comes after the last one.
LEMMA BatchIsNew ==
  ASSUME TypeInv, OrderInv, NEW i \in ToSet(batch), i \notin repeated
  PROVE  last < i /\ i \notin seen
<1>1. DOMAIN batch = 1 .. Len(batch)
  BY LenProperties DEF TypeInv
<1>2. PICK n \in 1 .. Len(batch) : batch[n] = i
  BY <1>1 DEF ToSet
<1> QED BY <1>2 DEF OrderInv

\* A member of the batch is its head or stays in it.
LEMMA HeadOrTail ==
  ASSUME TypeInv, batch # <<>>
  PROVE  ToSet(batch) = {Head(batch)} \cup ToSet(Tail(batch))
<1>1. /\ Len(batch) \in Nat /\ 1 \in 1 .. Len(batch)
      /\ Head(batch) = batch[1]
      /\ Tail(batch) \in Seq(Swaps) /\ Len(Tail(batch)) = Len(batch) - 1
      /\ \A n \in 1 .. Len(Tail(batch)) :
             Tail(batch)[n] = batch[n + 1] /\ n + 1 \in 1 .. Len(batch)
  BY BatchHead
<1>2. /\ DOMAIN batch = 1 .. Len(batch)
      /\ DOMAIN Tail(batch) = 1 .. Len(Tail(batch))
  BY <1>1, LenProperties DEF TypeInv
<1>3. ASSUME NEW i \in ToSet(batch) PROVE i = Head(batch) \/ i \in ToSet(Tail(batch))
  <2>1. PICK n \in 1 .. Len(batch) : batch[n] = i
    BY <1>2 DEF ToSet
  <2>2. CASE n # 1
    <3>1. n - 1 \in 1 .. Len(Tail(batch)) /\ n - 1 + 1 = n
      BY <1>1, <2>2
    <3> QED BY <1>1, <1>2, <2>1, <3>1 DEF ToSet
  <2> QED BY <1>1, <2>1, <2>2
<1>4. ToSet(Tail(batch)) \subseteq ToSet(batch)
  BY <1>1, <1>2 DEF ToSet
<1>5. Head(batch) \in ToSet(batch)
  BY <1>1, <1>2 DEF ToSet
<1> QED BY <1>3, <1>4, <1>5

LEMMA NoMembers == ToSet(<<>>) = {}
BY DEF ToSet

\* The log never gets shorter.
LEMMA LogGrows ==
  ASSUME TypeInv, TaskInv, KnownInv, OrderInv, [Next]_vars
  PROVE  Len(log) \in Nat /\ Len(log') \in Nat /\ Len(log) <= Len(log')
<1>1. Len(log) \in Nat
  BY LenProperties DEF TypeInv
<1>2. log' \in Seq(EventSet)
  BY TypeStep DEF TypeInv
<1>3. Len(log') \in Nat
  BY <1>2, LenProperties
<1>4. ASSUME \A k \in 1 .. Len(log) : k \in 1 .. Len(log') /\ log'[k] = log[k]
      PROVE  Len(log) <= Len(log')
  <2>1. CASE Len(log) = 0
    BY <1>3, <2>1
  <2>2. CASE Len(log) # 0
    <3>1. Len(log) \in 1 .. Len(log)
      BY <1>1, <2>2
    <3>2. Len(log) \in 1 .. Len(log')
      BY <1>4, <3>1
    <3> QED BY <1>1, <1>3, <3>2
  <2> QED BY <2>1, <2>2
<1>5. ASSUME NEW bins, Observes(Head(batch), bins)
      PROVE  Len(log) <= Len(log')
  <2>1. Len(log') = Len(log) + 1 + Len(bins) /\ Len(bins) \in Nat
    BY <1>5, ObservesEvents
  <2> QED BY <1>1, <2>1
<1>6. Len(log) <= Len(log')
  BY <1>4, <1>5, LogStep
<1> QED BY <1>1, <1>3, <1>6

\* A step notes a loss at the end of the log, if at all.
LEMMA LossNoted ==
  ASSUME TypeInv, TaskInv, KnownInv, OrderInv, [Next]_vars, NEW i \in Swaps
  PROVE  lostAt'[i] \in {lostAt[i], Len(log), Len(log')}
<1>1. CASE UNCHANGED lostAt
  BY <1>1
<1>2. CASE Swap \/ EndLine \/ Rotate \/ (\E j \in Swaps : Copy(j))
  <2>1. UNCHANGED lostAt
    BY <1>2, WorldStep DEF reader
  <2> QED BY <1>1, <2>1
<1>3. CASE Clear \/ (\E l \in Ladders : Register(l)) \/ Filled \/ LogGap \/ Retry
          \/ UNCHANGED vars
  <2>1. UNCHANGED lostAt
    BY <1>3 DEF Clear, Register, Filled, LogGap, Retry, vars, reader
  <2> QED BY <1>1, <2>1
<1>4. CASE Backfill \/ Poll
  <2>1. lostAt' = [j \in Swaps |-> IF j \in Ahead \ ToSet(batch')
                                    THEN Len(log) ELSE lostAt[j]]
    BY <1>4, ReadStep
  <2> QED BY <2>1
<1>5. CASE Consume \/ ReadFails
  <2>1. UNCHANGED lostAt
    BY <1>5, ConsumeStep, ReadFailsStep
  <2> QED BY <1>1, <2>1
<1>6. CASE Fail
  <2>1. lostAt' = Dropped
    BY <1>6, FailStep
  <2> QED BY <2>1 DEF Dropped
<1> QED BY <1>2, <1>3, <1>4, <1>5, <1>6 DEF Next, Runner

LEMMA LostStep ==
  ASSUME TypeInv, TaskInv, KnownInv, OrderInv, LostInv, [Next]_vars
  PROVE  LostInv'
<1>1. SUFFICES ASSUME NEW i \in Swaps PROVE lostAt'[i] <= Len(log')
  BY DEF LostInv
<1>2. Len(log) \in Nat /\ Len(log') \in Nat /\ Len(log) <= Len(log')
  BY LogGrows
<1>3. lostAt[i] \in Nat /\ lostAt[i] <= Len(log)
  BY DEF TypeInv, LostInv
<1>4. lostAt'[i] \in {lostAt[i], Len(log), Len(log')}
  BY LossNoted
<1> QED BY <1>2, <1>3, <1>4

LEMMA GotSwaps ==
  ASSUME TypeInv
  PROVE  got \subseteq Swaps
<1>1. landed \in 0 .. Len(Moves) /\ got \subseteq 1 .. landed
  BY DEF TypeInv
<1>2. Len(Moves) \in Nat
  BY SwapsAreNumbers
<1> QED BY <1>1, <1>2 DEF Swaps

\* The log tells of a swap that is neither recorded nor in the batch.
Told(i) ==
    \E k \in Events("swap_stream_gap") : k >= lostAt[i] /\ log[k].swap < i

\* What was told of stays told of.
LEMMA ToldStays ==
  ASSUME TypeInv, TaskInv, KnownInv, OrderInv, [Next]_vars,
         NEW i, Told(i), lostAt'[i] = lostAt[i]
  PROVE  Told(i)'
<1>1. PICK k \in Events("swap_stream_gap") : k >= lostAt[i] /\ log[k].swap < i
  BY DEF Told
<1>2. k \in Events("swap_stream_gap")' /\ log'[k] = log[k]
  BY GapsStay
<1> QED BY <1>1, <1>2 DEF Told

LEMMA LossStep ==
  ASSUME TypeInv, TaskInv, KnownInv, OrderInv, LostInv, GapCoversLoss, [Next]_vars
  PROVE  GapCoversLoss'
<1>0. \A i \in got \ (done \cup repeated \cup ToSet(batch)) :
        task = "ended" \/ (task \in {"error", "refill error"} /\ last < i) \/ Told(i)
  BY DEF GapCoversLoss, Told
<1>1. SUFFICES
        ASSUME NEW i \in got' \ (done' \cup repeated' \cup ToSet(batch'))
        PROVE  \/ task' = "ended"
               \/ task' \in {"error", "refill error"} /\ last' < i
               \/ Told(i)'
  BY DEF GapCoversLoss, Told
<1>2. ASSUME UNCHANGED <<got, done, batch, last, lostAt>>,
             repeated \subseteq repeated',
             task' = task \/ task \notin {"ended", "error", "refill error"}
      PROVE  task' = "ended" \/ (task' \in {"error", "refill error"} /\ last' < i)
             \/ Told(i)'
  <2>1. i \in got \ (done \cup repeated \cup ToSet(batch))
    BY <1>1, <1>2
  <2>2. CASE Told(i)
    BY <1>2, <2>2, ToldStays
  <2> QED BY <1>0, <1>2, <2>1, <2>2
<1>3. CASE Swap \/ EndLine \/ Rotate \/ (\E j \in Swaps : Copy(j))
  BY <1>2, <1>3, WorldStep DEF reader
<1>4. CASE Clear \/ (\E l \in Ladders : Register(l)) \/ UNCHANGED vars
  <2>1. UNCHANGED <<got, done, batch, last, lostAt, repeated, task>>
    BY <1>4 DEF Clear, Register, vars, reader, world
  <2> QED BY <1>2, <2>1
<1>5. CASE Filled \/ Retry
  <2>1. UNCHANGED <<got, done, batch, last, lostAt, repeated>>
        /\ task \notin {"ended", "error", "refill error"}
    BY <1>5 DEF Filled, Retry, world
  <2> QED BY <1>2, <2>1
<1>6. CASE ReadFails
  <2>1. /\ UNCHANGED <<got, done, batch, last, lostAt, repeated>>
        /\ task \notin {"ended", "error", "refill error"}
    BY <1>6, ReadFailsStep DEF world
  <2> QED BY <1>2, <2>1
<1>7. CASE LogGap
  <2>1. UNCHANGED <<got, done, batch, last, lostAt, repeated>>
    BY <1>7 DEF LogGap, world
  <2>2. i \in got \ (done \cup repeated \cup ToSet(batch))
    BY <1>1, <2>1
  <2>3. CASE task' = "ended"
    BY <2>3
  <2>4. CASE log' = Append(log, Gap) /\ task \in {"error", "refill error"}
    <3>1. CASE Told(i)
      BY <2>1, <3>1, ToldStays
    <3>2. CASE ~Told(i)
      <4>1. last < i
        BY <1>0, <2>2, <2>4, <3>2
      <4>2. log \in Seq(EventSet) /\ last \in Swaps \cup {0}
        BY DEF TypeInv
      <4>3. Gap \in EventSet /\ Gap.type = "swap_stream_gap" /\ Gap.swap = last
        BY <4>2, GapIsEvent
      <4>4. /\ Len(log') = Len(log) + 1 /\ log'[Len(log) + 1] = Gap
            /\ Len(log) \in Nat
        <5> DEFINE e == Gap
        <5>1. e \in EventSet /\ log' = Append(log, e)
          BY <2>4, <4>3
        <5> HIDE DEF e, EventSet
        <5>2. Len(log) \in Nat /\ Len(log') = Len(log) + 1
          BY <4>2, <5>1, AppendProperties, LenProperties
        <5>3. log'[Len(log) + 1] = e
          BY <4>2, <5>1, AppendProperties
        <5> QED BY <5>2, <5>3 DEF e
      <4>5. Len(log) + 1 \in Events("swap_stream_gap")'
        BY <4>3, <4>4 DEF Events
      <4>6. i \in Swaps
        BY <2>2, GotSwaps
      <4>7. Len(log) + 1 >= lostAt'[i]
        <5>1. lostAt[i] \in Nat /\ lostAt[i] <= Len(log)
          BY <4>6 DEF TypeInv, LostInv
        <5> QED BY <2>1, <4>4, <5>1
      <4>8. log'[Len(log) + 1].swap < i
        BY <4>1, <4>3, <4>4
      <4> QED BY <4>5, <4>7, <4>8 DEF Told
    <3> QED BY <3>1, <3>2
  <2> QED BY <1>7, <2>3, <2>4 DEF LogGap
<1>8. CASE Backfill \/ Poll
  <2>1. /\ batch = <<>> /\ got' = got \cup Ahead
        /\ task \notin {"ended", "error", "refill error"}
        /\ UNCHANGED <<done, repeated, log>>
    BY <1>8, ReadStep DEF world
  <2>2. /\ i \in Ahead => i \in ToSet(batch') \/ (task = "refill" /\ (i \in repeated \/ last < i))
        /\ lostAt' = [j \in Swaps |-> IF j \in Ahead \ ToSet(batch')
                                       THEN Len(log) ELSE lostAt[j]]
    BY <1>8, ReadStep
  <2>3. i \in Swaps
    <3>1. got' \subseteq 1 .. landed'
      BY TypeStep DEF TypeInv
    <3>2. landed' \in 0 .. Len(Moves) /\ Len(Moves) \in Nat
      BY TypeStep, SwapsAreNumbers DEF TypeInv
    <3> QED BY <1>1, <3>1, <3>2 DEF Swaps
  <2>4. CASE i \in Ahead
    <3>1. task = "refill" /\ last < i /\ lostAt'[i] = Len(log)
      BY <1>1, <2>1, <2>2, <2>3, <2>4
    <3>2. Len(log) \in Events("swap_stream_gap") /\ log[Len(log)].swap = last
      BY <3>1 DEF TaskInv
    <3>3. Len(log) \in Events("swap_stream_gap")' /\ log'[Len(log)] = log[Len(log)]
      BY <3>2, GapsStay
    <3>4. Len(log) >= Len(log)
      BY LogGrows
    <3>5. Len(log) >= lostAt'[i] /\ log'[Len(log)].swap < i
      BY <3>1, <3>2, <3>3, <3>4
    <3> QED BY <3>3, <3>5 DEF Told
  <2>5. CASE i \notin Ahead
    <3>1. ToSet(batch) = {}
      BY <2>1, NoMembers
    <3>2. i \in got \ (done \cup repeated \cup ToSet(batch))
      BY <1>1, <2>1, <2>5, <3>1
    <3>3. Told(i) /\ lostAt'[i] = lostAt[i]
      BY <1>0, <2>1, <2>2, <2>3, <2>5, <3>2
    <3> QED BY <3>3, ToldStays
  <2> QED BY <2>4, <2>5
<1>9. CASE Consume
  <2>1. /\ batch # <<>> /\ batch' = Tail(batch)
        /\ UNCHANGED <<got, repeated, task, lostAt>>
        /\ \/ Head(batch) \in seen /\ UNCHANGED done
           \/ done' = done \cup {Head(batch)}
    BY <1>9, ConsumeStep DEF world
  <2>2. task \notin {"ended", "error", "refill error"}
    BY <2>1 DEF TaskInv
  <2>3. ToSet(batch) = {Head(batch)} \cup ToSet(batch')
    BY <2>1, HeadOrTail
  <2>4. i \in got /\ i \notin done /\ i \notin repeated
    BY <1>1, <2>1
  <2>5. i \notin ToSet(batch)
    <3>1. SUFFICES ASSUME i \in ToSet(batch) PROVE FALSE
      OBVIOUS
    <3>2. i \notin seen
      BY <2>4, <3>1, BatchIsNew
    <3> QED BY <1>1, <2>1, <2>3, <3>1, <3>2
  <2>6. Told(i)
    BY <1>0, <2>2, <2>4, <2>5
  <2> QED BY <2>1, <2>6, ToldStays
<1>10. CASE Fail
  <2>1. /\ batch # <<>> /\ batch' = <<>> /\ UNCHANGED <<got, repeated, done, last>>
        /\ task' \in {"ended", "error", "refill error"}
        /\ task \notin {"ended", "error", "refill error"}
        /\ lostAt' = Dropped
    BY <1>10, FailStep DEF world
  <2>2. i \in got /\ i \notin done /\ i \notin repeated
    BY <1>1, <2>1
  <2>3. CASE i \in ToSet(batch)
    <3>1. last < i
      BY <2>2, <2>3, BatchIsNew
    <3> QED BY <2>1, <3>1
  <2>4. CASE i \notin ToSet(batch)
    <3>1. i \in Swaps
      BY <2>2, GotSwaps
    <3>2. Told(i) /\ lostAt'[i] = lostAt[i]
      BY <1>0, <2>1, <2>2, <2>4, <3>1 DEF Dropped
    <3> QED BY <3>2, ToldStays
  <2> QED BY <2>3, <2>4
<1> QED BY <1>3, <1>4, <1>5, <1>6, <1>7, <1>8, <1>9, <1>10 DEF Next, Runner

-----------------------------------------------------------------------------
(* What verify_log.py makes of the log. *)

\* Its sets come from the trades and the fills.
LEMMA SameAudit ==
  ASSUME Events("observed_trade")' = Events("observed_trade"),
         Events("bin_fill")' = Events("bin_fill"),
         \A k \in 1 .. Len(log) : log'[k] = log[k]
  PROVE  /\ TradeSwaps' = TradeSwaps /\ FillSwaps' = FillSwaps
         /\ CrossedOursWithoutFill' = CrossedOursWithoutFill
<1>1. /\ \A k \in Events("observed_trade") : log'[k] = log[k]
      /\ \A k \in Events("bin_fill") : log'[k] = log[k]
  BY DEF Events
<1>2. TradeEvents' = TradeEvents
  BY DEF TradeEvents
<1>3. \A k \in TradeEvents : log'[k] = log[k]
  BY <1>1 DEF TradeEvents
<1>4. TradeSwaps' = TradeSwaps
  BY <1>2, <1>3 DEF TradeSwaps
<1>5. FillSwaps' = FillSwaps
  BY <1>1 DEF FillSwaps
<1>6. {log'[k].swap : k \in {j \in TradeEvents : log'[j].ours}}
        = {log[k].swap : k \in {j \in TradeEvents : log[j].ours}}
  <2>1. {j \in TradeEvents : log'[j].ours} = {j \in TradeEvents : log[j].ours}
    BY <1>3
  <2> QED BY <1>3, <2>1
<1> QED BY <1>2, <1>4, <1>5, <1>6 DEF CrossedOursWithoutFill

\* A swap that is observed is a trade, and those it fills have one.
LEMMA ObservesAudit ==
  ASSUME TypeInv, NEW i, NEW bins, Observes(i, bins)
  PROVE  /\ TradeSwaps' = TradeSwaps \cup {i}
         /\ FillSwaps \subseteq FillSwaps' /\ FillSwaps' \subseteq FillSwaps \cup {i}
         /\ (CrossedOurs(i) => Len(bins) >= 1) =>
                CrossedOursWithoutFill' \subseteq CrossedOursWithoutFill
<1>1. /\ \A k \in Events("observed_trade")' :
            \/ /\ k \in Events("observed_trade") /\ log'[k] = log[k]
            \/ /\ k = Len(log) + 1 /\ log'[k].swap = i
               /\ log'[k].ours <=> CrossedOurs(i)
      /\ \A k \in Events("observed_trade") :
            k \in Events("observed_trade")' /\ log'[k] = log[k]
      /\ Len(log) + 1 \in Events("observed_trade")'
      /\ log'[Len(log) + 1].swap = i
  BY ObservesTrades
<1>2. /\ \A k \in Events("bin_fill")' :
            \/ k \in Events("bin_fill") /\ log'[k] = log[k]
            \/ log'[k].swap = i
      /\ \A k \in Events("bin_fill") :
            k \in Events("bin_fill")' /\ log'[k] = log[k]
      /\ \A a \in 1 .. Len(bins) :
            /\ Len(log) + 1 + a \in Events("bin_fill")'
            /\ log'[Len(log) + 1 + a].swap = i
  BY ObservesFills
<1>3. TradeSwaps' = TradeSwaps \cup {i}
  BY <1>1 DEF TradeSwaps, TradeEvents
<1>4. FillSwaps \subseteq FillSwaps' /\ FillSwaps' \subseteq FillSwaps \cup {i}
  BY <1>2 DEF FillSwaps
<1>5. ASSUME CrossedOurs(i) => Len(bins) >= 1,
             NEW s \in CrossedOursWithoutFill'
      PROVE  s \in CrossedOursWithoutFill
  <2>1. PICK k \in Events("observed_trade")' : log'[k].ours /\ log'[k].swap = s
    BY <1>5 DEF CrossedOursWithoutFill, TradeEvents
  <2>2. s \notin FillSwaps'
    BY <1>5 DEF CrossedOursWithoutFill
  <2>3. CASE k \in Events("observed_trade") /\ log'[k] = log[k]
    <3>1. log[k].ours /\ log[k].swap = s /\ s \notin FillSwaps
      BY <1>4, <2>1, <2>2, <2>3
    <3> QED BY <2>3, <3>1 DEF CrossedOursWithoutFill, TradeEvents
  <2>4. CASE log'[k].swap = i /\ (log'[k].ours <=> CrossedOurs(i))
    <3>1. Len(bins) >= 1 /\ Len(bins) \in Nat
      BY <1>5, <2>1, <2>4, ObservesEvents
    <3>2. 1 \in 1 .. Len(bins)
      BY <3>1
    <3>3. i \in FillSwaps'
      BY <1>2, <3>2 DEF FillSwaps
    <3> QED BY <2>1, <2>2, <2>4, <3>3
  <2> QED BY <1>1, <2>1, <2>3, <2>4
<1> QED BY <1>3, <1>4, <1>5

LEMMA ParentStep ==
  ASSUME TypeInv, TaskInv, KnownInv, OrderInv, AuditInv, [Next]_vars
  PROVE  (FillSwaps \subseteq TradeSwaps)'
<1>1. FillSwaps \subseteq TradeSwaps
  BY DEF AuditInv
<1>2. CASE /\ TradeSwaps' = TradeSwaps /\ FillSwaps' = FillSwaps
  BY <1>1, <1>2
<1>3. CASE \E bins \in {Fills(Head(batch))} \cup SomeFills(Head(batch)) :
              Observes(Head(batch), bins)
  BY <1>1, <1>3, ObservesAudit
<1> QED BY <1>2, <1>3, LogStep, SameAudit

LEMMA AuditStep ==
  ASSUME TypeInv, TaskInv, KnownInv, OrderInv, AuditInv, [Next]_vars
  PROVE  AuditInv'
<1>0. (FillSwaps \subseteq TradeSwaps)' /\ faults \in Nat
  BY ParentStep DEF TypeInv
<1>1. ASSUME UNCHANGED <<log, done, seen, got, batch, faults>>,
             \/ UNCHANGED task
             \/ task' = "tail" /\ task = "filling"
      PROVE  AuditInv'
  <2>1. /\ Events("observed_trade")' = Events("observed_trade")
        /\ Events("bin_fill")' = Events("bin_fill")
        /\ \A k \in 1 .. Len(log) : log'[k] = log[k]
    BY <1>1 DEF Events
  <2>2. /\ TradeSwaps' = TradeSwaps /\ FillSwaps' = FillSwaps
        /\ CrossedOursWithoutFill' = CrossedOursWithoutFill
    BY <2>1, SameAudit
  <2> QED BY <1>0, <1>1, <2>2 DEF AuditInv
<1>2. ASSUME ~ (faults' = 0) PROVE AuditInv'
  BY <1>0, <1>2 DEF AuditInv
<1>3. ASSUME faults' = faults, task \notin {"started", "filling", "tail"}
      PROVE  AuditInv'
  BY <1>0, <1>3 DEF AuditInv
<1>4. CASE Swap \/ EndLine \/ Rotate \/ (\E i \in Swaps : Copy(i))
  BY <1>1, <1>4, WorldStep DEF reader
<1>5. CASE Clear \/ (\E l \in Ladders : Register(l)) \/ UNCHANGED vars
  <2>1. UNCHANGED reader
    BY <1>5 DEF Clear, Register, vars
  <2> QED BY <1>1, <2>1 DEF reader
<1>6. CASE Filled
  <2>1. UNCHANGED <<log, done, seen, got, batch, faults>>
        /\ ((task = "filling" /\ task' = "tail") \/ task = "refilling")
    BY <1>6 DEF Filled
  <2> QED BY <1>1, <1>3, <2>1
<1>7. CASE Retry
  <2>1. faults' = faults /\ task = "pause"
    BY <1>7 DEF Retry
  <2> QED BY <1>3, <2>1
<1>8. CASE LogGap
  <2>1. task \in {"error", "refill error"}
        /\ (faults' = faults \/ faults' = faults + 1)
    BY <1>8 DEF LogGap, Fault
  <2>2. faults' = faults + 1 => ~ (faults' = 0)
    BY <1>0
  <2> QED BY <1>2, <1>3, <2>1, <2>2
<1>9. CASE Fail
  <2>1. faults' = faults + 1
    BY <1>9, FailStep
  <2>2. ~ (faults' = 0)
    BY <1>0, <2>1
  <2> QED BY <1>2, <2>2
<1>10. CASE Backfill \/ Poll
  <2>1. /\ batch = <<>> /\ Fresh(batch') /\ got' = got \cup Ahead
        /\ UNCHANGED <<seen, done, log, faults>>
        /\ \A i \in Ahead : i \in ToSet(batch') \/ task = "refill"
        /\ task' \in {"filling", "tail"} \/ task = "refill"
    BY <1>10, ReadStep DEF world
  <2>2. CASE task = "refill"
    BY <1>3, <2>1, <2>2
  <2>3. CASE task # "refill"
    <3>1. ToSet(batch) = {}
      BY <2>1, NoMembers
    <3>2. ToSet(batch') = Ahead
      <4>1. DOMAIN batch' = 1 .. Len(batch')
        BY <2>1, LenProperties DEF Fresh
      <4>2. ToSet(batch') \subseteq Ahead
        BY <2>1, <4>1 DEF Fresh, ToSet
      <4> QED BY <2>1, <2>3, <4>2
    <3>3. /\ Events("observed_trade")' = Events("observed_trade")
          /\ Events("bin_fill")' = Events("bin_fill")
          /\ \A k \in 1 .. Len(log) : log'[k] = log[k]
      BY <2>1 DEF Events
    <3>4. /\ TradeSwaps' = TradeSwaps
          /\ CrossedOursWithoutFill' = CrossedOursWithoutFill
      BY <3>3, SameAudit
    <3> QED BY <1>0, <2>1, <2>3, <3>1, <3>2, <3>4 DEF AuditInv
  <2> QED BY <2>2, <2>3
<1>11. CASE Consume
  <2> DEFINE i == Head(batch)
  <2>1. /\ batch # <<>> /\ batch' = Tail(batch) /\ UNCHANGED <<got, faults, task>>
        /\ \/ i \in seen /\ UNCHANGED <<seen, log, done>>
           \/ Observes(i, Fills(i)) /\ done' = done \cup {i}
    BY <1>11, ConsumeStep
  <2>2. ToSet(batch) = {i} \cup ToSet(batch')
    BY <2>1, HeadOrTail
  <2>3. i \in Swaps
    BY <2>1, BatchHead
  <2> HIDE DEF i
  <2>4. CASE i \in seen /\ UNCHANGED <<seen, log, done>>
    <3>1. /\ Events("observed_trade")' = Events("observed_trade")
          /\ Events("bin_fill")' = Events("bin_fill")
          /\ \A k \in 1 .. Len(log) : log'[k] = log[k]
      BY <2>4 DEF Events
    <3>2. /\ TradeSwaps' = TradeSwaps
          /\ CrossedOursWithoutFill' = CrossedOursWithoutFill
      BY <3>1, SameAudit
    <3> QED BY <1>0, <2>1, <2>2, <2>4, <3>2 DEF AuditInv
  <2>5. CASE Observes(i, Fills(i)) /\ done' = done \cup {i}
    <3>1. CrossedOurs(i) => Len(Fills(i)) >= 1
      BY <2>3, FillsRest
    <3>2. /\ TradeSwaps' = TradeSwaps \cup {i}
          /\ CrossedOursWithoutFill' \subseteq CrossedOursWithoutFill
      BY <2>5, <3>1, ObservesAudit
    <3>3. seen' = seen \cup {i}
      BY <2>5 DEF Observes
    <3> QED BY <1>0, <2>1, <2>2, <2>5, <3>2, <3>3 DEF AuditInv
  <2> QED BY <2>1, <2>4, <2>5
<1>12. CASE ReadFails
  <2>1. faults' = faults + 1
    BY <1>12, ReadFailsStep
  <2>2. ~ (faults' = 0)
    BY <1>0, <2>1
  <2> QED BY <1>2, <2>2
<1> QED BY <1>4, <1>5, <1>6, <1>7, <1>8, <1>9, <1>10, <1>11, <1>12
        DEF Next, Runner

-----------------------------------------------------------------------------
(* The stream. *)

LEMMA StreamStarts ==
  ASSUME Init
  PROVE  StreamInv
<1>1. /\ landed = 0 /\ file = <<>> /\ offset = 0 /\ batch = <<>> /\ task = "started"
      /\ seen = {} /\ last = 0 /\ log = <<>> /\ got = {} /\ done = {}
      /\ resting = NoLiquidity /\ ladder = 0 /\ registered = 0
      /\ repeated = {} /\ faults = 0 /\ present = FALSE
      /\ lostAt = [i \in Swaps |-> 0]
  BY DEF Init
<1>2. Len(log) = 0 /\ Len(file) = 0 /\ Len(batch) = 0
  BY <1>1
<1>3. (\A k \in 1 .. Len(log) : FALSE) /\ (\A k \in 1 .. Len(batch) : FALSE)
      /\ (\A k \in 1 .. Len(file) : FALSE)
  BY <1>2
<1>4. \A type : Events(type) = {}
  BY <1>3 DEF Events
<1>5. TypeInv
  <2>1. NoLiquidity \in [Bins -> {"none", "bid", "ask"}]
    BY DEF NoLiquidity
  <2>2. 0 \in 0 .. Len(Moves)
    BY SwapsAreNumbers
  <2>3. log \in Seq(EventSet) /\ file \in Seq(Chunks) /\ batch \in Seq(Swaps)
    BY <1>1
  <2>4. lostAt \in [Swaps -> Nat]
    BY <1>1
  <2>5. FileInv
    BY <1>1 DEF FileInv
  <2> QED BY <1>1, <2>1, <2>2, <2>3, <2>4, <2>5 DEF TypeInv
<1>6. TaskInv
  BY <1>1 DEF TaskInv
<1>7. KnownInv
  BY <1>1, <1>3 DEF KnownInv
<1>8. OrderInv
  <2>1. StartAt = 0
    BY <1>1, <1>2 DEF StartAt
  <2>2. \A k \in StartAt + 1 .. Len(file) : FALSE
    BY <1>2, <2>1
  <2> QED BY <1>3, <2>2 DEF OrderInv
<1>9. TradeInv /\ FillInv
  BY <1>1, <1>4 DEF TradeInv, FillInv, LoggedOnce, FilledOnce
<1>10. LostInv /\ GapCoversLoss
  BY <1>1, <1>2 DEF LostInv, GapCoversLoss
<1>11. AuditInv
  <2>1. TradeSwaps = {} /\ FillSwaps = {} /\ CrossedOursWithoutFill = {}
    BY <1>4 DEF TradeSwaps, FillSwaps, CrossedOursWithoutFill, TradeEvents
  <2>2. ToSet(batch) = {}
    BY <1>1, NoMembers
  <2> QED BY <1>1, <2>1, <2>2 DEF AuditInv
<1> QED BY <1>5, <1>6, <1>7, <1>8, <1>9, <1>10, <1>11 DEF StreamInv

\* Whatever the executor writes, the file does and the keeper registers, and
\* wherever an emit or a read fails, a read finds a swap that was written once in front
\* of what was consumed, and the log agrees with what the observer knows.
THEOREM StreamInvariant == Spec => []StreamInv
<1>1. Init => StreamInv
  BY StreamStarts
<1>2. StreamInv /\ [Next]_vars => StreamInv'
  BY TypeStep, TaskStep, KnownStep, OrderStep, TradeStep, FillStep, LostStep,
     LossStep, AuditStep DEF StreamInv
<1> QED BY <1>1, <1>2, PTL DEF Spec

\* SwapObserver.on_swap() logs no swap twice, however often the executor writes
\* it, the file is rotated or the stream fails and is filled again.
THEOREM LogsEachSwapOnce == Spec => []LoggedOnce
<1>1. StreamInv => LoggedOnce
  BY DEF StreamInv, TradeInv
<1> QED BY <1>1, StreamInvariant, PTL

\* Between two registrations of a ladder no bin of it fills twice: not when a
\* swap is observed again, and not when an emit raised between its fills.
THEOREM FillsEachBinOnce == Spec => []FilledOnce
<1>1. StreamInv => FilledOnce
  BY DEF StreamInv, FillInv
<1> QED BY <1>1, StreamInvariant, PTL

\* A swap that was read, that the executor wrote once and that a failed emit
\* dropped comes after the signature that a gap event names which is no older
\* than the loss, or that run() is about to log.  Nothing is said once the task
\* has ended.
THEOREM LossIsCovered == Spec => []GapCoversLoss
<1>1. StreamInv => GapCoversLoss
  BY DEF StreamInv
<1> QED BY <1>1, StreamInvariant, PTL

\* verify_log.py finds every swap of the chain in the log, and nothing else.
LEMMA CleanLog ==
  ASSUME StreamInv, LoopFree, faults = 0, got = 1 .. landed
  PROVE  StreamOk
<1>1. batch = <<>> /\ ToSet(batch) = {}
  BY NoMembers DEF LoopFree
<1>2. /\ FillSwaps \subseteq TradeSwaps /\ CrossedOursWithoutFill = {}
      /\ TradeSwaps = 1 .. landed
  BY <1>1 DEF StreamInv, AuditInv
<1>3. DuplicateTrades = {}
  <2>1. SUFFICES ASSUME NEW j \in TradeEvents, NEW l \in TradeEvents,
                        l < j, log[l].swap = log[j].swap
                 PROVE  FALSE
    BY DEF DuplicateTrades
  <2>2. j = l
    BY <2>1 DEF StreamInv, TradeInv, LoggedOnce, TradeEvents
  <2>3. j \in Nat
    BY <2>1 DEF TradeEvents, Events
  <2> QED BY <2>1, <2>2, <2>3
<1>4. ChainSwaps = 1 .. landed
  <2>1. CASE TradeSwaps = {}
    BY <2>1 DEF ChainSwaps
  <2>2. CASE TradeSwaps # {}
    <3>1. ChainSwaps = {i \in 1 .. landed : \E f, l \in 1 .. landed : f <= i /\ i <= l}
      BY <1>2, <2>2 DEF ChainSwaps
    <3>2. \A i \in 1 .. landed : i <= i
      OBVIOUS
    <3> QED BY <3>1, <3>2
  <2> QED BY <2>1, <2>2
<1>5. MissingSwaps = {} /\ ExtraSwaps = {} /\ FillMissingParent = {}
  BY <1>2, <1>4 DEF MissingSwaps, ExtraSwaps, FillMissingParent
<1> QED BY <1>2, <1>3, <1>5 DEF StreamOk

\* verify_log.py raises no false alarm: it passes the log of a stream that has
\* read every line and met no failed emit, whatever was written twice, rotated
\* away after it was read, or crossed by a ladder on the move.
THEOREM CleanLogVerifies == Spec => []CleanStreamVerifies
<1>1. StreamInv => CleanStreamVerifies
  BY CleanLog DEF CleanStreamVerifies
<1> QED BY <1>1, StreamInvariant, PTL
=============================================================================
