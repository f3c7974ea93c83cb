------------------------ MODULE ProducerReports_proofs ------------------------
(***************************************************************************)
(* What Producer promises about the order of the records and about what    *)
(* their Submit, Flush and Close report, proved for the same parameters as *)
(* in Producer_proofs.                                                     *)
(*                                                                         *)
(* The steps of the system are first sorted by what they do to the records *)
(* (StepKinds): one record enters the batcher, one barrier is sent, the    *)
(* consumer or the session does its work, or the records stay where they   *)
(* are but for a buffer that becomes the batch to send.  The invariants    *)
(* are then proved kind by kind:                                           *)
(*   FlowInv      the records pass through in the order they entered,      *)
(*   MetaOK       no record is apart from its result channel,              *)
(*   OutcomesOK   exactly the records on their way are unresolved,         *)
(*   BarrierInv   what a Flush covers, and what its barrier will report,   *)
(*   CloseOK      what is over when Close returns,                         *)
(*   AddingOK     and which records are not in the batcher yet,            *)
(*   EndsOK       nothing ends but by Close, a context or a failed batch,  *)
(*   MatchesOK    batches continue each other in their predicted positions,*)
(*   AlikeOK      with MatchSeqNum every batch has its condition,          *)
(*   RepeatsOK    which lets no repetition of an applied batch pass,       *)
(*   AppliedOK    and then the stream ends where the applied ones end.     *)
(***************************************************************************)
EXTENDS Producer_proofs

(* In the order a, r comes before s; all of S before all of T; a sequence  *)
(* keeps the order; nothing occurs twice.                                  *)
Before(a, r, s) == \E k, m \in DOMAIN a : k < m /\ a[k] = r /\ a[m] = s
Older(a, S, T) == \A r \in S, s \in T : Before(a, r, s)
InOrder(a, seq) == \A i, j \in DOMAIN seq : i < j => Before(a, seq[i], seq[j])
Once(a) == \A k, m \in DOMAIN a : a[k] = a[m] => k = m

(* The records of an output, of the channel, and of the rest of a batcher. *)
Carried(o) == IF IsBarrier(o) THEN {} ELSE RecordsOf(o.records)
Channel(ch) == UNION {Carried(ch[i]) : i \in DOMAIN ch}
InBatcher(b) == RecordsOf(b.out.records) \cup RecordsOf(b.buffer)

(* The records the consumer has submitted, and those it has received and   *)
(* still knows.                                                            *)
TicketRecords(i) == RecordsOf(tickets[i].batch.records)
Submitted == UNION {TicketRecords(i) : i \in DOMAIN tickets}
Received == Submitted \cup RecordsOf(consumer.batch.records)

(* The records pass through out and the channel to the consumer in the     *)
(* order a in which they entered; R are those the consumer has received.   *)
LineOK(b, a, R) ==
    /\ InBatcher(b) \cup Channel(b.ch) \cup R \subseteq RecordsOf(a)
    /\ InOrder(a, b.buffer) /\ InOrder(a, b.out.records)
    /\ \A i \in DOMAIN b.ch : ~ IsBarrier(b.ch[i]) => InOrder(a, b.ch[i].records)
    /\ Older(a, RecordsOf(b.out.records), RecordsOf(b.buffer))
    /\ Older(a, Channel(b.ch), InBatcher(b))
    /\ \A i, j \in DOMAIN b.ch : i < j => Older(a, Carried(b.ch[i]), Carried(b.ch[j]))
    /\ Older(a, R, Channel(b.ch) \cup InBatcher(b))

(* What a step of the batcher does with the records: nothing; the buffer   *)
(* becomes the batch to send; r enters the buffer.                         *)
SameLine(b, c) ==
    /\ c.buffer = b.buffer /\ c.meta = b.meta /\ c.out = b.out /\ c.ch = b.ch
    /\ c.next = b.next
FlushLine(b, c) ==
    /\ b.out = NoBatch /\ b.buffer # <<>>
    /\ c.out = [records |-> b.buffer, meta |-> b.meta, match |-> b.next]
    /\ c.buffer = <<>> /\ c.meta = <<>> /\ c.ch = b.ch /\ c.next = b.next

-----------------------------------------------------------------------------
(* Facts about orders.                                                     *)

(* An element more at the end keeps the order and comes after all others.  *)
LEMMA BeforeAppend ==
    ASSUME NEW a \in Seq(Records), NEW r \in Records
    PROVE  /\ \A x, y : Before(a, x, y) => Before(Append(a, r), x, y)
           /\ \A x \in RecordsOf(a) : Before(Append(a, r), x, r)
<1> DEFINE b == Append(a, r)
<1>1. /\ DOMAIN a \subseteq DOMAIN b /\ \A k \in DOMAIN a : b[k] = a[k] /\ k < Len(a) + 1
      /\ Len(a) + 1 \in DOMAIN b /\ b[Len(a) + 1] = r
    OBVIOUS
<1> HIDE DEF b
<1>2. \A x, y : Before(a, x, y) => Before(b, x, y)
    BY <1>1 DEF Before
<1>3. ASSUME NEW x \in RecordsOf(a) PROVE Before(b, x, r)
    <2>1. PICK k \in DOMAIN a : a[k] = x
        BY DEF RecordsOf
    <2>2. k < Len(a) + 1 /\ k \in DOMAIN b /\ b[k] = x
        BY <1>1, <2>1
    <2> QED BY <1>1, <2>2 DEF Before
<1> QED BY <1>2, <1>3 DEF b

(* Order lifts to sets and sequences.                                      *)
LEMMA OlderMore ==
    ASSUME NEW a \in Seq(Records), NEW r \in Records
    PROVE  /\ \A S, T : Older(a, S, T) => Older(Append(a, r), S, T)
           /\ \A s : InOrder(a, s) => InOrder(Append(a, r), s)
           /\ \A S : S \subseteq RecordsOf(a) => Older(Append(a, r), S, {r})
<1>1. \A S, T : Older(a, S, T) => Older(Append(a, r), S, T)
    BY BeforeAppend DEF Older
<1>2. \A s : InOrder(a, s) => InOrder(Append(a, r), s)
    BY BeforeAppend DEF InOrder
<1>3. \A S : S \subseteq RecordsOf(a) => Older(Append(a, r), S, {r})
    BY BeforeAppend DEF Older
<1> QED BY <1>1, <1>2, <1>3

(* Older goes down to smaller sets, and a union comes after, or before,    *)
(* what both of its parts do.                                              *)
LEMMA OlderSets ==
    ASSUME NEW a
    PROVE  /\ \A S, T, U, V : Older(a, S, T) /\ U \subseteq S /\ V \subseteq T => Older(a, U, V)
           /\ \A S, T, U : Older(a, S \cup T, U) <=> Older(a, S, U) /\ Older(a, T, U)
           /\ \A S, T, U : Older(a, U, S \cup T) <=> Older(a, U, S) /\ Older(a, U, T)
           /\ \A S : Older(a, {}, S) /\ Older(a, S, {})
BY Zenon DEF Older

(* What is older is not the same.                                          *)
LEMMA OlderApart ==
    ASSUME NEW a \in Seq(Records), Once(a), NEW S, NEW T, Older(a, S, T)
    PROVE  S \cap T = {}
<1> SUFFICES ASSUME NEW r, r \in S, r \in T PROVE FALSE
    OBVIOUS
<1>1. PICK k, m \in DOMAIN a : k < m /\ a[k] = r /\ a[m] = r
    BY DEF Older, Before
<1>2. k \in Nat /\ m \in Nat
    OBVIOUS
<1> QED BY <1>1, <1>2 DEF Once

(* The records of sequences. *)
LEMMA RecordsOfSeq ==
    /\ RecordsOf(<<>>) = {}
    /\ \A s \in Seq(Records) : RecordsOf(s) \in SUBSET Records
    /\ \A s \in Seq(Records) : s # <<>> => RecordsOf(s) # {}
    /\ \A s \in Seq(Records), r \in Records : RecordsOf(Append(s, r)) = RecordsOf(s) \cup {r}
    /\ \A s, t \in Seq(Records) : RecordsOf(s \o t) = RecordsOf(s) \cup RecordsOf(t)
<1>1. RecordsOf(<<>>) = {}
    BY DEF RecordsOf
<1>2. \A s \in Seq(Records) : RecordsOf(s) \in SUBSET Records
    BY DEF RecordsOf
<1>3. ASSUME NEW s \in Seq(Records), s # <<>> PROVE RecordsOf(s) # {}
    <2>1. 1 \in DOMAIN s
        BY <1>3
    <2> QED BY <2>1 DEF RecordsOf
<1>4. ASSUME NEW s \in Seq(Records), NEW r \in Records
      PROVE  RecordsOf(Append(s, r)) = RecordsOf(s) \cup {r}
    <2> DEFINE t == Append(s, r)
    <2>1. /\ \A k \in DOMAIN t : (k \in DOMAIN s /\ t[k] = s[k]) \/ t[k] = r
          /\ \A k \in DOMAIN s : k \in DOMAIN t /\ t[k] = s[k]
          /\ Len(s) + 1 \in DOMAIN t /\ t[Len(s) + 1] = r
        OBVIOUS
    <2> HIDE DEF t
    <2> QED BY <2>1 DEF RecordsOf, t
<1>5. ASSUME NEW s \in Seq(Records), NEW t \in Seq(Records)
      PROVE  RecordsOf(s \o t) = RecordsOf(s) \cup RecordsOf(t)
    <2> DEFINE u == s \o t
    <2>1. /\ \A k \in DOMAIN u : \/ k \in DOMAIN s /\ u[k] = s[k]
                                 \/ k - Len(s) \in DOMAIN t /\ u[k] = t[k - Len(s)]
          /\ \A k \in DOMAIN s : k \in DOMAIN u /\ u[k] = s[k]
          /\ \A k \in DOMAIN t : Len(s) + k \in DOMAIN u /\ u[Len(s) + k] = t[k]
        OBVIOUS
    <2> HIDE DEF u
    <2>2. ASSUME NEW x \in RecordsOf(u) PROVE x \in RecordsOf(s) \cup RecordsOf(t)
        <3>1. PICK k \in DOMAIN u : u[k] = x
            BY DEF RecordsOf
        <3> QED BY <2>1, <3>1 DEF RecordsOf
    <2>3. ASSUME NEW x \in RecordsOf(s) \cup RecordsOf(t) PROVE x \in RecordsOf(u)
        <3>1. \/ \E k \in DOMAIN s : s[k] = x
              \/ \E k \in DOMAIN t : t[k] = x
            BY DEF RecordsOf
        <3> QED BY <2>1, <3>1 DEF RecordsOf
    <2> QED BY <2>2, <2>3 DEF u
<1> QED BY <1>1, <1>2, <1>3, <1>4, <1>5

(* The records of the channel when an output enters or leaves. *)
LEMMA ChannelSteps ==
    ASSUME NEW ch \in Seq(Outputs)
    PROVE  /\ \A o \in Outputs : Channel(Append(ch, o)) = Channel(ch) \cup Carried(o)
           /\ ch # <<>> => Channel(ch) = Carried(Head(ch)) \cup Channel(Tail(ch))
<1>1. ASSUME NEW o \in Outputs PROVE Channel(Append(ch, o)) = Channel(ch) \cup Carried(o)
    <2> DEFINE t == Append(ch, o)
    <2>1. /\ \A k \in DOMAIN t : (k \in DOMAIN ch /\ t[k] = ch[k]) \/ t[k] = o
          /\ \A k \in DOMAIN ch : k \in DOMAIN t /\ t[k] = ch[k]
          /\ Len(ch) + 1 \in DOMAIN t /\ t[Len(ch) + 1] = o
        OBVIOUS
    <2> HIDE DEF t
    <2>2. ASSUME NEW x \in Channel(t) PROVE x \in Channel(ch) \cup Carried(o)
        BY <2>1, <2>2 DEF Channel
    <2>3. ASSUME NEW x \in Channel(ch) \cup Carried(o) PROVE x \in Channel(t)
        BY <2>1, <2>3 DEF Channel
    <2> QED BY <2>2, <2>3 DEF t
<1>2. ASSUME ch # <<>> PROVE Channel(ch) = Carried(Head(ch)) \cup Channel(Tail(ch))
    <2> DEFINE t == Tail(ch)
    <2>1. /\ 1 \in DOMAIN ch /\ Head(ch) = ch[1]
          /\ \A k \in DOMAIN ch : k = 1 \/ (k - 1 \in DOMAIN t /\ ch[k] = t[k - 1])
          /\ \A k \in DOMAIN t : k + 1 \in DOMAIN ch /\ t[k] = ch[k + 1]
        BY <1>2
    <2> HIDE DEF t
    <2>2. ASSUME NEW x \in Channel(ch) PROVE x \in Carried(Head(ch)) \cup Channel(t)
        <3>1. PICK k \in DOMAIN ch : x \in Carried(ch[k])
            BY DEF Channel
        <3> QED BY <2>1, <3>1 DEF Channel
    <2>3. ASSUME NEW x \in Carried(Head(ch)) \cup Channel(t) PROVE x \in Channel(ch)
        <3>1. \/ x \in Carried(ch[1])
              \/ \E k \in DOMAIN t : x \in Carried(ch[k + 1])
            BY <2>1, <2>3 DEF Channel
        <3> QED BY <2>1, <3>1 DEF Channel
    <2> QED BY <2>2, <2>3 DEF t
<1> QED BY <1>1, <1>2

-----------------------------------------------------------------------------
(* The records on their way through the batcher.                           *)

(* The parts of a batcher whose place is told apart here. *)
LEMMA LineTypes ==
    ASSUME NEW b \in BatcherType
    PROVE  /\ b.buffer \in Seq(Records) /\ b.meta \in Seq(Metas) /\ b.out \in Batch
           /\ b.out.records \in Seq(Records) /\ b.ch \in Seq(Outputs)
           /\ b.next \in Nat \cup {NoMatch}
           /\ NoBatch.records = <<>> /\ NoBatch.meta = <<>> /\ NoBatch.match = NoMatch
BY DEF BatcherType, Batch, NoBatch

(* The line of the records depends on nothing but their places. *)
LEMMA LineSame ==
    ASSUME NEW b, NEW c, SameLine(b, c), NEW a, NEW R, LineOK(b, a, R)
    PROVE  LineOK(c, a, R)
BY Zenon DEF LineOK, SameLine, InBatcher

(* The consumer forgets some records. *)
LEMMA LineForgets ==
    ASSUME NEW b, NEW a, NEW R, NEW S, S \subseteq R, LineOK(b, a, R)
    PROVE  LineOK(b, a, S)
<1>1. Older(a, S, Channel(b.ch) \cup InBatcher(b))
    BY OlderSets DEF LineOK
<1> QED BY <1>1 DEF LineOK

(* The buffer becomes the batch to send. *)
LEMMA LineFlushes ==
    ASSUME NEW b, NEW c, FlushLine(b, c), NEW a, NEW R, LineOK(b, a, R)
    PROVE  LineOK(c, a, R) /\ InBatcher(c) = InBatcher(b)
<1>1. /\ RecordsOf(c.buffer) = {} /\ RecordsOf(b.out.records) = {}
      /\ c.out.records = b.buffer /\ c.ch = b.ch
    BY RecordsOfSeq DEF FlushLine, NoBatch
<1>2. InBatcher(c) = InBatcher(b)
    BY <1>1 DEF InBatcher
<1>3. InOrder(a, c.buffer)
    BY DEF InOrder, FlushLine
<1>4. Older(a, RecordsOf(c.out.records), RecordsOf(c.buffer))
    BY <1>1, OlderSets
<1> QED BY <1>1, <1>2, <1>3, <1>4 DEF LineOK

(* A new record enters the buffer. *)
LEMMA LineBuffers ==
    ASSUME NEW b \in BatcherType, NEW r \in Records, NEW a \in Seq(Records), NEW R,
           LineOK(b, a, R)
    PROVE  /\ LineOK(Buffered(b, r), Append(a, r), R)
           /\ InBatcher(Buffered(b, r)) = InBatcher(b) \cup {r}
<1> DEFINE c == Buffered(b, r)
           d == Append(a, r)
<1>1. c.buffer = Append(b.buffer, r) /\ c.out = b.out /\ c.ch = b.ch
    BY BufferedFields
<1> HIDE DEF c
<1>2. /\ RecordsOf(c.buffer) = RecordsOf(b.buffer) \cup {r}
      /\ RecordsOf(d) = RecordsOf(a) \cup {r}
    BY <1>1, LineTypes, RecordsOfSeq
<1>3. InBatcher(c) = InBatcher(b) \cup {r}
    BY <1>1, <1>2 DEF InBatcher
<1>4. /\ \A S, T : Older(a, S, T) => Older(d, S, T)
      /\ \A s : InOrder(a, s) => InOrder(d, s)
      /\ \A S : S \subseteq RecordsOf(a) => Older(d, S, {r})
    BY OlderMore
<1> HIDE DEF d
<1>5. InOrder(d, c.buffer)
    <2> SUFFICES ASSUME NEW i \in DOMAIN c.buffer, NEW j \in DOMAIN c.buffer, i < j
                 PROVE  Before(d, c.buffer[i], c.buffer[j])
        BY DEF InOrder
    <2>1. b.buffer \in Seq(Records)
        BY LineTypes
    <2>2. /\ i \in DOMAIN b.buffer /\ c.buffer[i] = b.buffer[i]
          /\ \/ j \in DOMAIN b.buffer /\ c.buffer[j] = b.buffer[j]
             \/ c.buffer[j] = r
        BY <1>1, <2>1
    <2>3. CASE j \in DOMAIN b.buffer /\ c.buffer[j] = b.buffer[j]
        <3>1. InOrder(d, b.buffer)
            BY <1>4 DEF LineOK
        <3> QED BY <2>2, <2>3, <3>1 DEF InOrder
    <2>4. CASE c.buffer[j] = r
        <3>1. RecordsOf(b.buffer) \subseteq RecordsOf(a) /\ b.buffer[i] \in RecordsOf(b.buffer)
            BY <2>2 DEF LineOK, InBatcher, RecordsOf
        <3>2. Older(d, RecordsOf(b.buffer), {r})
            BY <1>4, <3>1
        <3> QED BY <2>2, <2>4, <3>1, <3>2 DEF Older
    <2> QED BY <2>2, <2>3, <2>4
<1>6. /\ Older(d, RecordsOf(c.out.records), RecordsOf(c.buffer))
      /\ Older(d, Channel(c.ch), InBatcher(c))
      /\ Older(d, R, Channel(c.ch) \cup InBatcher(c))
    <2>1. /\ RecordsOf(b.out.records) \subseteq RecordsOf(a) /\ Channel(b.ch) \subseteq RecordsOf(a)
          /\ R \subseteq RecordsOf(a)
        BY DEF LineOK, InBatcher
    <2>2. /\ Older(d, RecordsOf(b.out.records), RecordsOf(b.buffer) \cup {r})
          /\ Older(d, Channel(b.ch), InBatcher(b) \cup {r})
          /\ Older(d, R, (Channel(b.ch) \cup InBatcher(b)) \cup {r})
        <3>1. /\ InBatcher(b) \subseteq RecordsOf(a)
              /\ Channel(b.ch) \cup InBatcher(b) \subseteq RecordsOf(a)
              /\ Older(a, RecordsOf(b.out.records), RecordsOf(b.buffer))
              /\ Older(a, Channel(b.ch), InBatcher(b))
              /\ Older(a, R, Channel(b.ch) \cup InBatcher(b))
            BY DEF LineOK
        <3>2. /\ Older(d, RecordsOf(b.out.records), RecordsOf(b.buffer))
              /\ Older(d, Channel(b.ch), InBatcher(b))
              /\ Older(d, R, Channel(b.ch) \cup InBatcher(b))
              /\ Older(d, RecordsOf(b.out.records), {r}) /\ Older(d, Channel(b.ch), {r})
              /\ Older(d, R, {r})
            BY <1>4, <2>1, <3>1
        <3> QED BY <3>2, OlderSets
    <2>3. (Channel(b.ch) \cup InBatcher(b)) \cup {r} = Channel(b.ch) \cup (InBatcher(b) \cup {r})
        OBVIOUS
    <2>4. /\ Older(d, RecordsOf(c.out.records), RecordsOf(c.buffer))
          /\ Older(d, Channel(c.ch), InBatcher(c))
        BY <1>1, <1>2, <1>3, <2>2
    <2>5. Older(d, R, Channel(c.ch) \cup InBatcher(c))
        BY <1>1, <1>3, <2>2, <2>3
    <2> QED BY <2>4, <2>5
<1> QED
    <2>1. InBatcher(c) \cup Channel(c.ch) \cup R \subseteq RecordsOf(d)
        BY <1>1, <1>2, <1>3 DEF LineOK
    <2>2. /\ InOrder(d, c.out.records)
          /\ \A i \in DOMAIN c.ch : ~ IsBarrier(c.ch[i]) => InOrder(d, c.ch[i].records)
          /\ \A i, j \in DOMAIN c.ch : i < j => Older(d, Carried(c.ch[i]), Carried(c.ch[j]))
        BY <1>1, <1>4 DEF LineOK
    <2>3. LineOK(c, d, R)
        BY <1>5, <1>6, <2>1, <2>2 DEF LineOK
    <2> QED BY <1>3, <2>3 DEF c, d

(* The batch is sent: it is the last of the channel. *)
LEMMA LineSends ==
    ASSUME NEW b \in BatcherType, NEW c, NEW a, NEW R, LineOK(b, a, R),
           c.ch = Append(b.ch, b.out), c.out = NoBatch, c.buffer = b.buffer
    PROVE  /\ LineOK(c, a, R)
           /\ Channel(c.ch) = Channel(b.ch) \cup RecordsOf(b.out.records)
           /\ InBatcher(c) = RecordsOf(b.buffer)
<1> DEFINE O == RecordsOf(b.out.records)
           B == RecordsOf(b.buffer)
           C == Channel(b.ch)
<1>1. b.out \in Outputs /\ ~ IsBarrier(b.out) /\ b.ch \in Seq(Outputs)
    BY LineTypes, BatchShape DEF Outputs
<1>2. Carried(b.out) = O /\ Channel(c.ch) = C \cup O
    BY <1>1, ChannelSteps DEF Carried
<1>3. InBatcher(c) = B /\ InBatcher(b) = O \cup B /\ RecordsOf(c.out.records) = {}
    BY RecordsOfSeq DEF InBatcher, NoBatch
<1>4. /\ Older(a, C, O) /\ Older(a, C, B) /\ Older(a, O, B)
      /\ Older(a, R, C) /\ Older(a, R, O) /\ Older(a, R, B)
    BY <1>3, OlderSets DEF LineOK
<1>5. /\ \A i \in DOMAIN c.ch : \/ i \in DOMAIN b.ch /\ c.ch[i] = b.ch[i]
                                \/ i = Len(b.ch) + 1 /\ c.ch[i] = b.out
      /\ \A i \in DOMAIN c.ch, j \in DOMAIN c.ch : i < j => i \in DOMAIN b.ch /\ c.ch[i] = b.ch[i]
    BY <1>1
<1>6. \A i \in DOMAIN c.ch : ~ IsBarrier(c.ch[i]) => InOrder(a, c.ch[i].records)
    BY <1>5 DEF LineOK
<1>7. ASSUME NEW i \in DOMAIN c.ch, NEW j \in DOMAIN c.ch, i < j
      PROVE  Older(a, Carried(c.ch[i]), Carried(c.ch[j]))
    <2>1. i \in DOMAIN b.ch /\ c.ch[i] = b.ch[i]
        BY <1>5, <1>7
    <2>2. CASE j \in DOMAIN b.ch /\ c.ch[j] = b.ch[j]
        BY <1>7, <2>1, <2>2 DEF LineOK
    <2>3. CASE c.ch[j] = b.out
        <3>1. Carried(b.ch[i]) \subseteq C
            BY <2>1 DEF Channel
        <3>2. Older(a, Carried(b.ch[i]), O)
            BY <1>4, <3>1, OlderSets
        <3> QED BY <1>2, <2>1, <2>3, <3>2
    <2> QED BY <1>5, <2>2, <2>3
<1>8. /\ Older(a, C \cup O, B) /\ Older(a, R, (C \cup O) \cup B)
      /\ Older(a, RecordsOf(c.out.records), RecordsOf(c.buffer))
    BY <1>3, <1>4, OlderSets
<1>9. InOrder(a, c.buffer) /\ InOrder(a, c.out.records)
    BY DEF LineOK, InOrder, NoBatch
<1>10. InBatcher(c) \cup Channel(c.ch) \cup R \subseteq RecordsOf(a)
    BY <1>2, <1>3 DEF LineOK
<1>11. Older(a, Channel(c.ch), InBatcher(c)) /\ Older(a, R, Channel(c.ch) \cup InBatcher(c))
    BY <1>2, <1>3, <1>8
<1>12. LineOK(c, a, R)
    BY <1>6, <1>7, <1>8, <1>9, <1>10, <1>11 DEF LineOK
<1> QED BY <1>2, <1>3, <1>12

(* The batch is dropped. *)
LEMMA LineDrops ==
    ASSUME NEW b, NEW c, NEW a, NEW R, LineOK(b, a, R),
           c.ch = b.ch, c.out = NoBatch, c.buffer = b.buffer
    PROVE  LineOK(c, a, R) /\ InBatcher(c) = RecordsOf(b.buffer)
<1>1. RecordsOf(c.out.records) = {} /\ InBatcher(c) = RecordsOf(b.buffer)
    BY RecordsOfSeq DEF InBatcher, NoBatch
<1>2. InBatcher(c) \subseteq InBatcher(b)
    BY <1>1 DEF InBatcher
<1>3. /\ Older(a, Channel(c.ch), InBatcher(c))
      /\ Older(a, R, Channel(c.ch) \cup InBatcher(c))
      /\ Older(a, RecordsOf(c.out.records), RecordsOf(c.buffer))
    <2>1. Channel(c.ch) \cup InBatcher(c) \subseteq Channel(b.ch) \cup InBatcher(b)
        BY <1>2
    <2> QED BY <1>1, <1>2, <2>1, OlderSets DEF LineOK
<1>4. InOrder(a, c.buffer) /\ InOrder(a, c.out.records)
    BY DEF LineOK, InOrder, NoBatch
<1> QED BY <1>1, <1>2, <1>3, <1>4 DEF LineOK

(* The consumer takes the first output of the channel. *)
LEMMA LineReceives ==
    ASSUME NEW b \in BatcherType, NEW c, NEW a, NEW R, LineOK(b, a, R), b.ch # <<>>,
           c.ch = Tail(b.ch), c.out = b.out, c.buffer = b.buffer
    PROVE  /\ LineOK(c, a, R \cup Carried(Head(b.ch)))
           /\ InBatcher(c) = InBatcher(b)
           /\ Channel(b.ch) = Carried(Head(b.ch)) \cup Channel(c.ch)
           /\ Older(a, Carried(Head(b.ch)), Channel(c.ch) \cup InBatcher(c))
           /\ Older(a, R, Carried(Head(b.ch)))
           /\ ~ IsBarrier(Head(b.ch)) => InOrder(a, Head(b.ch).records)
<1> DEFINE H == Carried(Head(b.ch))
<1>1. b.ch \in Seq(Outputs)
    BY LineTypes
<1>2. /\ Channel(b.ch) = H \cup Channel(c.ch) /\ InBatcher(c) = InBatcher(b)
    BY <1>1, ChannelSteps DEF InBatcher
<1>3. /\ 1 \in DOMAIN b.ch /\ Head(b.ch) = b.ch[1]
      /\ \A i \in DOMAIN c.ch : i + 1 \in DOMAIN b.ch /\ c.ch[i] = b.ch[i + 1] /\ 1 < i + 1
    BY <1>1
<1>4. Older(a, H, Channel(c.ch))
    <2> SUFFICES ASSUME NEW r \in H, NEW s \in Channel(c.ch) PROVE Before(a, r, s)
        BY DEF Older
    <2>1. PICK i \in DOMAIN c.ch : s \in Carried(c.ch[i])
        BY DEF Channel
    <2>2. Older(a, H, Carried(c.ch[i]))
        BY <1>3 DEF LineOK
    <2> QED BY <2>1, <2>2 DEF Older
<1>5. /\ Older(a, H, InBatcher(c)) /\ Older(a, Channel(c.ch), InBatcher(c))
      /\ Older(a, R, H) /\ Older(a, R, Channel(c.ch)) /\ Older(a, R, InBatcher(c))
    BY <1>2, OlderSets DEF LineOK
<1>6. /\ Older(a, H, Channel(c.ch) \cup InBatcher(c))
      /\ Older(a, R \cup H, Channel(c.ch) \cup InBatcher(c))
    BY <1>4, <1>5, OlderSets
<1>7. /\ \A i \in DOMAIN c.ch : ~ IsBarrier(c.ch[i]) => InOrder(a, c.ch[i].records)
      /\ ~ IsBarrier(Head(b.ch)) => InOrder(a, Head(b.ch).records)
    BY <1>3 DEF LineOK
<1>8. ASSUME NEW i \in DOMAIN c.ch, NEW j \in DOMAIN c.ch, i < j
      PROVE  Older(a, Carried(c.ch[i]), Carried(c.ch[j]))
    <2>1. i + 1 < j + 1
        BY <1>1, <1>8
    <2> QED BY <1>3, <2>1 DEF LineOK
<1>9. InBatcher(c) \cup Channel(c.ch) \cup (R \cup H) \subseteq RecordsOf(a)
    BY <1>2 DEF LineOK
<1>10. LineOK(c, a, R \cup H)
    BY <1>5, <1>6, <1>7, <1>8, <1>9 DEF LineOK
<1> QED BY <1>2, <1>5, <1>6, <1>7, <1>10

-----------------------------------------------------------------------------
(* What the operations of the batcher do to that line and to its flags.    *)

(* The records stay or begin to be sent; nothing fails, what ended does    *)
(* not begin again, and the context ends only when it is cancelled or the  *)
(* channel is closed.                                                      *)
Moved(b, c) ==
    /\ SameLine(b, c) \/ FlushLine(b, c)
    /\ c.closeErr = b.closeErr /\ (c.failed => b.failed)
    /\ b.ctx => c.ctx
    /\ c.ctx => b.ctx \/ c.chClosed \/ "batcherCancelled" \in setup.may
    /\ b.closed => c.closed
    /\ b.chClosed => c.chClosed

(* Two such steps are one, if the second moves no record. *)
LEMMA MovedOn ==
    ASSUME NEW b, NEW c, NEW d, Moved(b, c), Moved(c, d), SameLine(c, d)
    PROVE  Moved(b, d)
BY DEF Moved, SameLine, FlushLine

(* mu, the timer and the flags of the last flush are no part of it. *)
LEMMA SameMoves ==
    ASSUME NEW b \in BatcherType
    PROVE  /\ \A op, who : SameLine(b, Lock(b, op, who)) /\ Moved(b, Lock(b, op, who))
           /\ SameLine(b, Unlock(b)) /\ Moved(b, Unlock(b))
           /\ SameLine(b, Lingering(b)) /\ Moved(b, Lingering(b))
           /\ SameLine(b, b) /\ Moved(b, b)
BY DEF BatcherType, SameLine, Moved, Lock, Unlock, Lingering

(* Neither are the sets of timers. *)
LEMMA StopTimerMoves ==
    ASSUME NEW b \in BatcherType, NEW c \in StopTimer(b)
    PROVE  /\ DOMAIN c = DOMAIN b
           /\ SameLine(b, c) /\ Moved(b, c) /\ c.mu = b.mu
           /\ c.ctx = b.ctx /\ c.closed = b.closed /\ c.chClosed = b.chClosed
BY DEF BatcherType, SameLine, Moved, StopTimer

(* flushLocked up to its select. *)
LEMMA FlushBegunMoves ==
    ASSUME NEW b \in BatcherType, ~ Sending(b), NEW c \in FlushBegun(b)
    PROVE  /\ Moved(b, c) /\ c.mu = b.mu /\ ~ c.failed
           /\ b.buffer = <<>> => SameLine(b, c)
           /\ b.buffer # <<>> => FlushLine(b, c)
<1>1. CASE b.buffer = <<>>
    <2>1. c = [b EXCEPT !.failed = FALSE]
        BY <1>1 DEF FlushBegun
    <2> QED BY <1>1, <2>1 DEF BatcherType, Moved, SameLine
<1>2. CASE b.buffer # <<>>
    <2>1. PICK t \in StopTimer(b) :
              c = [t EXCEPT !.out = [records |-> b.buffer, meta |-> b.meta, match |-> b.next],
                            !.buffer = <<>>, !.meta = <<>>, !.failed = FALSE]
        BY <1>2 DEF FlushBegun
    <2>2. /\ DOMAIN t = DOMAIN b
          /\ SameLine(b, t) /\ Moved(b, t) /\ t.mu = b.mu
        BY StopTimerMoves
    <2> DEFINE o == [records |-> b.buffer, meta |-> b.meta, match |-> b.next]
    <2> HIDE DEF o
    <2>3. /\ c.out = o /\ c.buffer = <<>> /\ c.meta = <<>> /\ ~ c.failed
          /\ c.ch = t.ch /\ c.next = t.next /\ c.closeErr = t.closeErr
          /\ c.ctx = t.ctx /\ c.closed = t.closed /\ c.chClosed = t.chClosed /\ c.mu = t.mu
        BY <2>1, <2>2 DEF BatcherType, o
    <2>4. FlushLine(b, c)
        BY <1>2, <2>2, <2>3 DEF FlushLine, SameLine, Sending, o
    <2> QED BY <1>2, <2>2, <2>3, <2>4 DEF Moved
<1> QED BY <1>1, <1>2

(* A record enters the buffer, which may begin to be sent. *)
LEMMA AddedMoves ==
    ASSUME NEW b, BatcherOK(b), ~ Sending(b), NEW r \in Records, NEW d \in Added(b, r)
    PROVE  /\ Moved(Buffered(b, r), d) /\ Moved(Buffered(b, r), Unlock(d))
           /\ d.mu = [op |-> "added", who |-> r]
<1> DEFINE c == Buffered(b, r)
<1>1. b \in BatcherType /\ c \in BatcherType /\ ~ Sending(c) /\ c.buffer # <<>>
    BY BufferedFields DEF BatcherOK, Sending
<1>2. d \in {Lock(e, "added", r) : e \in FlushBegun(c)} \/ d = Lock(Lingering(c), "added", r)
    BY DEF Added
<1> HIDE DEF c
<1>3. ASSUME NEW e \in BatcherType, Moved(c, e), d = Lock(e, "added", r)
      PROVE  /\ Moved(c, d) /\ Moved(c, Unlock(d))
             /\ d.mu = [op |-> "added", who |-> r]
    <2>1. [op |-> "added", who |-> r] \in Holders
        BY HolderNames
    <2>2. d \in BatcherType /\ d.mu = [op |-> "added", who |-> r]
        BY <1>3, <2>1, LockFields
    <2>3. SameLine(e, d) /\ Moved(e, d)
        BY <1>3, SameMoves
    <2>4. Moved(c, d)
        BY <1>3, <2>3, MovedOn
    <2>5. SameLine(d, Unlock(d)) /\ Moved(d, Unlock(d))
        BY <2>2, SameMoves
    <2> QED BY <2>2, <2>4, <2>5, MovedOn
<1>4. \A e \in FlushBegun(c) : e \in BatcherType /\ Moved(c, e)
    BY <1>1, FlushBegunFields, FlushBegunMoves
<1>5. Lingering(c) \in BatcherType /\ Moved(c, Lingering(c))
    BY <1>1, LingeringFields, SameMoves
<1> QED BY <1>2, <1>3, <1>4, <1>5 DEF c

(* A timer fires. *)
LEMMA TimerFiredMoves ==
    ASSUME NEW b, BatcherOK(b), b.mu = Free, NEW seq, NEW d \in TimerFired(b, seq)
    PROVE  Moved(b, d)
<1>1. b \in BatcherType /\ ~ Sending(b)
    BY DEF BatcherOK, LockOK
<1> DEFINE c == [b EXCEPT !.scheduled = @ \ {seq}]
           t == [c EXCEPT !.timer = FALSE]
<1>2. /\ c \in BatcherType /\ SameLine(b, c) /\ Moved(b, c)
      /\ t \in BatcherType /\ SameLine(b, t) /\ Moved(b, t) /\ ~ Sending(t)
    BY <1>1 DEF BatcherType, SameLine, Moved, Sending
<1>3. d \in {c, t} \/ d \in {Lock(e, "timer", "nobody") : e \in FlushBegun(t)}
    BY DEF TimerFired
<1> HIDE DEF c, t
<1>4. ASSUME NEW e \in FlushBegun(t), d = Lock(e, "timer", "nobody") PROVE Moved(b, d)
    <2>1. e \in BatcherType /\ Moved(t, e)
        BY <1>2, FlushBegunFields, FlushBegunMoves
    <2>2. SameLine(e, d) /\ Moved(e, d)
        BY <1>4, <2>1, SameMoves
    <2>3. Moved(t, d)
        BY <2>1, <2>2, MovedOn
    <2> QED BY <1>2, <2>3 DEF Moved, SameLine, FlushLine
<1> QED BY <1>2, <1>3, <1>4

(* close begins. *)
LEMMA ClosingMoves ==
    ASSUME NEW b, BatcherOK(b), b.mu = Free, NEW w \in Closers, NEW d \in Closing(b, w)
    PROVE  Moved(b, d) /\ Moved(b, Unlock(d))
<1>1. b \in BatcherType /\ ~ Sending(b)
    BY DEF BatcherOK, LockOK
<1> DEFINE c == [b EXCEPT !.closed = TRUE]
<1>2. c \in BatcherType /\ SameLine(b, c) /\ Moved(b, c) /\ ~ Sending(c)
    BY <1>1 DEF BatcherType, SameLine, Moved, Sending
<1>3. PICK e \in FlushBegun(c) : d = Lock(e, "close", w)
    BY DEF Closing
<1> HIDE DEF c
<1>4. e \in BatcherType /\ Moved(c, e)
    BY <1>2, FlushBegunFields, FlushBegunMoves
<1>5. d \in BatcherType /\ SameLine(e, d) /\ Moved(e, d)
    BY <1>3, <1>4, SameMoves, LockFields, HolderNames
<1>6. SameLine(d, Unlock(d)) /\ Moved(d, Unlock(d))
    BY <1>5, SameMoves
<1>7. Moved(c, d) /\ Moved(c, Unlock(d))
    BY <1>4, <1>5, <1>6, MovedOn
<1> QED BY <1>2, <1>7 DEF Moved, SameLine, FlushLine

-----------------------------------------------------------------------------
(* The steps that leave the records, the consumer and the barriers alone.  *)

(* Each record enters once: it has entered when its Submit or Add returns, *)
(* and not before a flush it has to wait for.                              *)
AddedOK ==
    /\ Once(added)
    /\ \A r \in Records : r \in RecordsOf(added) => pc[r] \in {"adding", "accepted"}
    /\ \A r \in Records : pc[r] = "accepted" => r \in RecordsOf(added)
    /\ batcher.mu.op = "add" => batcher.mu.who \notin RecordsOf(added)
    /\ batcher.mu.op = "added" => batcher.mu.who \in RecordsOf(added)

(* A terminal error stays, closing too, and appendErr is left alone. *)
Kept(p, q) ==
    /\ q.appendErr = p.appendErr
    /\ p.closing => q.closing
    /\ p.terminalErr # NoErr => q.terminalErr # NoErr

(* Nothing happens to the records that entered but that they move on to be *)
(* sent.                                                                   *)
Quiet ==
    /\ UNCHANGED <<added, outcome, workVars, sessionVars>>
    /\ Moved(batcher, batcher')
    /\ Kept(producer, producer')

(* The Flush calls are left alone.                                         *)
OffBarrier ==
    /\ UNCHANGED flushVars
    /\ batcher'.mu.op \in {"barrier", "barrierSend"} => batcher'.mu = batcher.mu

(* The caller of Close does not move.                                      *)
SameClose == closer'["producer"] = closer["producer"]

(* What goes on beside the calls of Flush and Close.                       *)
Background == Quiet /\ OffBarrier /\ SameClose /\ AddedOK'

(* The operations on the producer that keep both errors. *)
LEMMA KeptBy ==
    ASSUME NEW p \in ProducerType
    PROVE  /\ Kept(p, p)
           /\ \A err \in Errs : Kept(p, CancelSubmit(p, err)) /\ Kept(p, RecordTerminalError(p, err))
           /\ Kept(p, CancelCtx(p))
           /\ \A S : Kept(p, ReleasePermits(p, S))
           /\ Kept(p, Checked(p)) /\ Kept(p, MapSubmitError(p))
<1>0. ErrContext \in Errs /\ ErrSessionClosed \in Errs /\ NoErr \notin Errs
    BY DEF Errs, ErrContext, ErrSessionClosed, ErrAppend, NoErr
<1>1. ASSUME NEW q \in ProducerType, NEW err
      PROVE  /\ CancelSubmit(q, err).appendErr = q.appendErr
             /\ CancelSubmit(q, err).terminalErr = q.terminalErr
             /\ CancelSubmit(q, err).closing = q.closing
    BY DEF ProducerType, CancelSubmit
<1>2. ASSUME NEW q \in ProducerType
      PROVE  /\ CancelCtx(q).appendErr = q.appendErr
             /\ CancelCtx(q).terminalErr = q.terminalErr
             /\ CancelCtx(q).closing = q.closing
    <2>1. CancelSubmit(q, ErrContext) \in ProducerType
        BY <1>0, CancelSubmitKeeps DEF SamePermits
    <2> DEFINE c == CancelSubmit(q, ErrContext)
    <2> HIDE DEF c
    <2>2. /\ [c EXCEPT !.ctx = TRUE].appendErr = c.appendErr
          /\ [c EXCEPT !.ctx = TRUE].terminalErr = c.terminalErr
          /\ [c EXCEPT !.ctx = TRUE].closing = c.closing
        BY <2>1 DEF ProducerType, c
    <2> QED BY <1>0, <1>1, <2>2 DEF CancelCtx, c
<1>3. ASSUME NEW q \in ProducerType, NEW err \in Errs PROVE Kept(q, RecordTerminalError(q, err))
    <2>1. CASE q.terminalErr # NoErr
        BY <2>1 DEF RecordTerminalError, Kept
    <2>2. CASE q.terminalErr = NoErr
        <3> DEFINE c == CancelSubmit(q, err)
                   d == [c EXCEPT !.terminalErr = err, !.closing = TRUE, !.pool = ClosedPool(@)]
        <3>1. c \in ProducerType /\ c.appendErr = q.appendErr
            BY <1>1, CancelSubmitKeeps DEF SamePermits
        <3>2. RecordTerminalError(q, err) = CancelCtx(d)
            BY <2>2 DEF RecordTerminalError
        <3> HIDE DEF c
        <3>3. d \in ProducerType /\ d.appendErr = c.appendErr /\ d.closing
            BY <3>1, ClosedPoolFields DEF ProducerType
        <3> HIDE DEF d
        <3> QED BY <1>2, <2>2, <3>1, <3>2, <3>3 DEF Kept
    <2> QED BY <2>1, <2>2
<1>4. ASSUME NEW S PROVE Kept(p, ReleasePermits(p, S))
    BY DEF ProducerType, ReleasePermits, Kept
<1>5. Kept(p, p)
    BY DEF Kept
<1>6. Kept(p, Checked(p))
    BY <1>0, <1>3, <1>5 DEF Checked
<1>7. Kept(p, MapSubmitError(p))
    <2>1. p.submitCause \in Errs \cup {NoErr}
        BY DEF ProducerType
    <2> QED BY <2>1, <1>3, <1>5 DEF MapSubmitError
<1>8. Kept(p, CancelCtx(p)) /\ \A err \in Errs : Kept(p, CancelSubmit(p, err))
    BY <1>1, <1>2 DEF Kept
<1> QED BY <1>3, <1>4, <1>5, <1>6, <1>7, <1>8

(* One after the other, too. *)
LEMMA KeptOn ==
    ASSUME NEW p, NEW q, NEW s, Kept(p, q), Kept(q, s)
    PROVE  Kept(p, s)
BY DEF Kept

(* The goroutine of recordTerminalError is another caller of close. *)
LEMMA BecomesQuietly ==
    ASSUME NEW p, NEW closers \in [Closers -> CloserStates], Becomes(p, closers)
    PROVE  /\ producer' = p
           /\ closer'["producer"] = closers["producer"]
BY DEF Becomes, Closers

(* A record that has not entered moves on, without returning from its Add. *)
LEMMA AddedStays ==
    ASSUME AddedOK, UNCHANGED added,
           \A r \in Records : \/ pc'[r] = pc[r]
                              \/ pc[r] \notin {"adding", "accepted"} /\ pc'[r] # "accepted",
           \/ batcher'.mu.op \notin {"add", "added"}
           \/ batcher'.mu = batcher.mu
           \/ batcher'.mu.op = "add" /\ batcher'.mu.who \in Records
                                     /\ pc[batcher'.mu.who] \notin {"adding", "accepted"}
    PROVE  AddedOK'
<1>1. RecordsOf(added') = RecordsOf(added) /\ Once(added')
    BY DEF AddedOK
<1>2. /\ \A r \in Records : r \in RecordsOf(added) => pc'[r] \in {"adding", "accepted"}
      /\ \A r \in Records : pc'[r] = "accepted" => r \in RecordsOf(added)
    BY DEF AddedOK
<1>3. /\ batcher'.mu.op = "add" => batcher'.mu.who \notin RecordsOf(added)
      /\ batcher'.mu.op = "added" => batcher'.mu.who \in RecordsOf(added)
    BY DEF AddedOK
<1> QED BY <1>1, <1>2, <1>3 DEF AddedOK

(* Where a record may be, in the terms of that lemma. *)
LEMMA PcMoves ==
    ASSUME TypeOK, NEW r \in Records, NEW v, v # "accepted",
           pc[r] \notin {"adding", "accepted"}, pc' = [pc EXCEPT ![r] = v]
    PROVE  \A s \in Records : \/ pc'[s] = pc[s]
                              \/ pc[s] \notin {"adding", "accepted"} /\ pc'[s] # "accepted"
<1>1. pc \in [Records -> {"idle", "entered", "backpressure", "waiting", "reserved",
                          "ready", "adding", "accepted", "refused"}]
    BY DEF TypeOK
<1> QED BY <1>1

(* What is left to show of most steps. *)
LEMMA BackgroundStep ==
    ASSUME AddedOK, UNCHANGED <<added, outcome, workVars, flushVars, sessionVars>>,
           Moved(batcher, batcher'), Kept(producer, producer'), SameClose,
           \/ batcher'.mu = batcher.mu
           \/ batcher'.mu.op \in {"free", "backpressure", "timer", "flush", "close"},
           \A r \in Records : \/ pc'[r] = pc[r]
                              \/ pc[r] \notin {"adding", "accepted"} /\ pc'[r] # "accepted"
    PROVE  Background
<1>1. AddedOK'
    <2>1. batcher'.mu.op \notin {"add", "added"} \/ batcher'.mu = batcher.mu
        OBVIOUS
    <2> QED BY <2>1, AddedStays
<1>2. Quiet
    BY DEF Quiet
<1>3. OffBarrier
    BY DEF OffBarrier
<1> QED BY <1>1, <1>2, <1>3 DEF Background

(* A record is refused or moves on. *)
LEMMA RefuseQuietly ==
    ASSUME ProducerInv, AddedOK, UNCHANGED <<outcome, workVars, flushVars, sessionVars>>,
           NEW r \in Records, pc[r] \notin {"adding", "accepted"},
           NEW p, Kept(producer, p), Refuse(r, p),
           Moved(batcher, batcher'),
           batcher'.mu = batcher.mu \/ batcher'.mu = Free
    PROVE  Background
<1>1. producer' = p /\ SameClose
    BY InvFacts, BecomesQuietly DEF Refuse, SameClose
<1>2. \A s \in Records : \/ pc'[s] = pc[s]
                         \/ pc[s] \notin {"adding", "accepted"} /\ pc'[s] # "accepted"
    BY InvFacts, PcMoves DEF Refuse
<1>3. batcher'.mu = batcher.mu \/ batcher'.mu.op \in {"free", "backpressure", "timer", "flush", "close"}
    BY HolderNames
<1> QED BY <1>1, <1>2, <1>3, BackgroundStep DEF Refuse

(* A Submit moves on without its record: nothing else happens.             *)
LEMMA MoveQuietly ==
    ASSUME ProducerInv, AddedOK,
           UNCHANGED <<added, outcome, workVars, flushVars, closer, sessionVars>>,
           NEW r \in Records, pc[r] \notin {"adding", "accepted"},
           NEW v, v # "accepted", pc' = [pc EXCEPT ![r] = v],
           Kept(producer, producer'), Moved(batcher, batcher'),
           batcher'.mu = batcher.mu \/ batcher'.mu.op \in {"free", "backpressure"}
    PROVE  Background
<1>1. \A s \in Records : \/ pc'[s] = pc[s]
                         \/ pc[s] \notin {"adding", "accepted"} /\ pc'[s] # "accepted"
    BY InvFacts, PcMoves
<1> QED BY <1>1, BackgroundStep DEF SameClose

(* The batcher is left alone. *)
LEMMA BatcherStill ==
    ASSUME ProducerInv, UNCHANGED batcher
    PROVE  Moved(batcher, batcher') /\ batcher'.mu = batcher.mu
BY InvFacts, SameMoves

(* Submit, until the record is added. *)
LEMMA SubmitQuietly ==
    ASSUME ProducerInv, AddedOK, NEW r \in Records,
           \/ Submit(r) \/ TryReserve(r) \/ Reserve(r) \/ Recheck(r)
    PROVE  Background
<1>1. /\ pc[r] \notin {"adding", "accepted"} /\ UNCHANGED batcher
      /\ UNCHANGED <<outcome, workVars, flushVars, sessionVars>>
    BY DEF Submit, TryReserve, Reserve, Recheck
<1>2. producer \in ProducerType /\ Moved(batcher, batcher') /\ batcher'.mu = batcher.mu
    BY <1>1, InvFacts, BatcherStill
<1>3. ASSUME NEW p \in {Checked(producer), MapSubmitError(producer),
                        Checked(ReleasePermits(producer, {r}))}, Refuse(r, p)
      PROVE  Background
    <2>1. Kept(producer, p)
        <3>1. producer.pool.bytes = BytesOf(producer.permits)
            BY InvFacts
        <3>2. ReleasePermits(producer, {r}) \in ProducerType
            BY <1>2, <3>1, ReleasePermitsKeeps
        <3> QED BY <1>2, <1>3, <3>2, KeptBy, KeptOn
    <2> QED BY <1>1, <1>2, <1>3, <2>1, RefuseQuietly
<1>4. ASSUME NEW v \in {"entered", "backpressure", "ready"}, pc' = [pc EXCEPT ![r] = v],
             UNCHANGED <<added, producer, closer>>
      PROVE  Background
    <2>1. Kept(producer, producer')
        BY <1>2, <1>4, KeptBy
    <2> QED BY <1>1, <1>2, <1>4, <2>1, MoveQuietly
<1>5. ASSUME TakePermit(r) PROVE Background
    <2>1. Kept(producer, producer')
        BY <1>2, <1>5 DEF TakePermit, ProducerType, Kept
    <2> QED BY <1>1, <1>2, <1>5, <2>1, MoveQuietly DEF TakePermit
<1>6. \/ Refuse(r, Checked(producer)) \/ Refuse(r, MapSubmitError(producer))
      \/ Refuse(r, Checked(ReleasePermits(producer, {r})))
      \/ TakePermit(r)
      \/ \E v \in {"entered", "backpressure", "ready"} :
            pc' = [pc EXCEPT ![r] = v] /\ UNCHANGED <<added, producer, closer>>
    BY DEF Submit, TryReserve, Reserve, Recheck
<1> QED BY <1>3, <1>4, <1>5, <1>6

(* flushForBackpressure *)
LEMMA BackpressureQuietly ==
    ASSUME ProducerInv, AddedOK, NEW r \in Records,
           BackpressureLocks(r) \/ BackpressureUnlocks(r)
    PROVE  Background
<1>1. /\ producer \in ProducerType /\ BatcherOK(batcher) /\ batcher \in BatcherType /\ HolderOK
      /\ TypeOK
    BY InvFacts DEF BatcherOK
<1>2. UNCHANGED <<outcome, workVars, flushVars, sessionVars>>
    BY DEF BackpressureLocks, BackpressureUnlocks
<1>3. pc[r] \notin {"adding", "accepted"}
    <2>1. ASSUME BackpressureUnlocks(r) PROVE pc[r] = "backpressure"
        <3>1. batcher.mu.op = "backpressure" /\ batcher.mu.who = r
            BY <2>1 DEF BackpressureUnlocks
        <3> QED BY <1>1, <3>1 DEF HolderOK
    <2> QED BY <2>1 DEF BackpressureLocks
<1>4. ASSUME Refuse(r, MapSubmitError(producer)),
             UNCHANGED batcher \/ batcher' = Unlock(batcher)
      PROVE  Background
    <2>1. Moved(batcher, batcher') /\ (batcher'.mu = batcher.mu \/ batcher'.mu = Free)
        BY <1>1, <1>4, SameMoves, UnlockFields
    <2> QED BY <1>1, <1>2, <1>3, <1>4, <2>1, KeptBy, RefuseQuietly
<1>5. ASSUME NEW v \in {"waiting", "backpressure"}, pc' = [pc EXCEPT ![r] = v],
             UNCHANGED <<added, producer, closer>>, Moved(batcher, batcher'),
             batcher'.mu.op \in {"free", "backpressure"}
      PROVE  Background
    BY <1>1, <1>2, <1>3, <1>5, KeptBy, MoveQuietly
<1>6. CASE BackpressureLocks(r)
    <2>1. CASE batcher.closed
        BY <1>4, <1>6, <2>1 DEF BackpressureLocks
    <2>2. CASE ~ batcher.closed
        <3>1. PICK b \in FlushBegun(batcher) :
                  /\ batcher' = IF Sending(b) THEN Lock(b, "backpressure", r) ELSE b
                  /\ pc' = [pc EXCEPT ![r] = IF Sending(b) THEN @ ELSE "waiting"]
            BY <1>6, <2>2 DEF BackpressureLocks
        <3>2. UNCHANGED <<added, producer, closer>> /\ pc[r] = "backpressure"
              /\ batcher.mu = Free
            BY <1>6, <2>2 DEF BackpressureLocks
        <3>3. ~ Sending(batcher)
            BY <1>1, <3>2 DEF BatcherOK, LockOK
        <3>4. b \in BatcherType /\ Moved(batcher, b) /\ b.mu = Free
            BY <1>1, <3>2, <3>3, FlushBegunFields, FlushBegunMoves
        <3>5. r \in Watched
            BY <3>2, InvFacts DEF WatchedOK
        <3>6. CASE Sending(b)
            <4>1. Moved(b, batcher') /\ SameLine(b, batcher') /\ batcher'.mu.op = "backpressure"
                <5>1. batcher' = Lock(b, "backpressure", r)
                    BY <3>1, <3>6
                <5>2. [op |-> "backpressure", who |-> r] \in Holders
                    BY <3>5, HolderNames
                <5>3. batcher'.mu.op = "backpressure"
                    BY <3>4, <5>1, <5>2, LockFields
                <5> QED BY <3>4, <5>1, <5>3, SameMoves
            <4>2. Moved(batcher, batcher')
                BY <3>4, <4>1, MovedOn
            <4>3. pc' = [pc EXCEPT ![r] = "backpressure"]
                BY <3>1, <3>2, <3>6
            <4> QED BY <1>5, <3>2, <4>1, <4>2, <4>3
        <3>7. CASE ~ Sending(b)
            <4>1. /\ batcher' = b /\ pc' = [pc EXCEPT ![r] = "waiting"]
                  /\ batcher'.mu.op = "free"
                BY <3>1, <3>4, <3>7, HolderNames
            <4> QED BY <1>5, <3>2, <3>4, <4>1
        <3> QED BY <3>6, <3>7
    <2> QED BY <2>1, <2>2
<1>7. CASE BackpressureUnlocks(r)
    <2>1. batcher' = Unlock(batcher)
        BY <1>7 DEF BackpressureUnlocks
    <2>2. Moved(batcher, batcher') /\ batcher'.mu.op = "free"
        BY <1>1, <2>1, SameMoves, UnlockFields, HolderNames
    <2>3. \/ Refuse(r, MapSubmitError(producer))
          \/ pc' = [pc EXCEPT ![r] = "waiting"] /\ UNCHANGED <<added, producer, closer>>
        BY <1>7 DEF BackpressureUnlocks
    <2> QED BY <1>4, <1>5, <2>1, <2>2, <2>3
<1> QED BY <1>6, <1>7

(* A record enters the batcher. *)
Entering(r) ==
    /\ r \in Records \ RecordsOf(added) /\ added' = Append(added, r)
    /\ UNCHANGED <<producer, outcome, workVars, sessionVars>>
    /\ ~ Sending(batcher) /\ Moved(Buffered(batcher, r), batcher')
    /\ ~ batcher.closed /\ batcher'.mu.op \in {"free", "added"}
    /\ UNCHANGED flushVars /\ SameClose /\ AddedOK'

(* A new element leaves every element of a sequence its only place.        *)
LEMMA OnceMore ==
    ASSUME NEW a \in Seq(Records), Once(a), NEW r \in Records \ RecordsOf(a)
    PROVE  Once(Append(a, r))
<1> DEFINE b == Append(a, r)
<1>1. \A k \in DOMAIN b : \/ k \in DOMAIN a /\ b[k] = a[k] /\ b[k] # r
                          \/ k = Len(a) + 1 /\ b[k] = r
    BY DEF RecordsOf
<1> HIDE DEF b
<1>2. Once(b)
    BY <1>1 DEF Once
<1> QED BY <1>2 DEF b

(* The last part of addWithPermit, taken by a record that has not entered  *)
(* yet.                                                                    *)
LEMMA EntersLine ==
    ASSUME ProducerInv, AddedOK,
           UNCHANGED <<producer, outcome, workVars, flushVars, closer, sessionVars>>,
           NEW r \in Records, Enters(r), r \notin RecordsOf(added), pc[r] # "accepted",
           ~ Sending(batcher), ~ batcher.closed
    PROVE  Entering(r)
<1>1. BatcherOK(batcher) /\ added \in Seq(Records)
    BY InvFacts DEF TypeOK
<1>2. PICK b \in Added(batcher, r) :
          /\ batcher' = IF Sending(b) THEN b ELSE Unlock(b)
          /\ pc' = [pc EXCEPT ![r] = IF Sending(b) THEN "adding" ELSE "accepted"]
    BY DEF Enters
<1>3. /\ Moved(Buffered(batcher, r), b) /\ Moved(Buffered(batcher, r), Unlock(b))
      /\ b.mu = [op |-> "added", who |-> r] /\ b \in BatcherType
    BY <1>1, AddedMoves, AddedKeeps DEF BatcherOK
<1>4. b.mu.op = "added" /\ b.mu.who = r
    BY <1>3
<1>5. /\ Moved(Buffered(batcher, r), batcher')
      /\ batcher'.mu = Free \/ (batcher'.mu.op = "added" /\ batcher'.mu.who = r)
    BY <1>2, <1>3, <1>4, UnlockFields
<1>6. added' = Append(added, r) /\ RecordsOf(added') = RecordsOf(added) \cup {r} /\ Once(added')
    BY <1>1, RecordsOfSeq, OnceMore DEF Enters, AddedOK
<1>7. AddedOK'
    <2>1. /\ pc'[r] \in {"adding", "accepted"}
          /\ \A s \in Records : s # r => pc'[s] = pc[s]
        BY <1>2, InvFacts DEF TypeOK
    <2>2. /\ \A s \in Records : s \in RecordsOf(added') => pc'[s] \in {"adding", "accepted"}
          /\ \A s \in Records : pc'[s] = "accepted" => s \in RecordsOf(added')
        BY <1>6, <2>1 DEF AddedOK
    <2>3. /\ batcher'.mu.op # "add"
          /\ batcher'.mu.op = "added" => batcher'.mu.who \in RecordsOf(added')
        BY <1>5, <1>6, HolderNames
    <2> QED BY <1>6, <2>2, <2>3 DEF AddedOK
<1>8. batcher'.mu.op \in {"free", "added"} /\ SameClose
    BY <1>5, HolderNames DEF SameClose
<1> QED BY <1>5, <1>6, <1>7, <1>8 DEF Entering

(* addWithPermit *)
LEMMA AddQuietly ==
    ASSUME ProducerInv, AddedOK, NEW r \in Records, Add(r)
    PROVE  Background \/ Entering(r)
<1>1. /\ producer \in ProducerType /\ BatcherOK(batcher) /\ batcher \in BatcherType
      /\ producer.pool.bytes = BytesOf(producer.permits)
    BY InvFacts DEF BatcherOK
<1>2. /\ batcher.mu = Free /\ ~ Sending(batcher)
      /\ pc[r] \notin {"adding", "accepted"}
      /\ UNCHANGED <<outcome, workVars, flushVars, sessionVars>>
    BY <1>1 DEF Add, BatcherOK, LockOK
<1>3. r \notin RecordsOf(added)
    BY <1>2 DEF AddedOK
<1>4. CASE batcher.closed
    <2>1. Refuse(r, ReleasePermits(producer, {r})) /\ UNCHANGED batcher
        BY <1>4 DEF Add
    <2>2. Moved(batcher, batcher') /\ batcher'.mu = batcher.mu
        BY <2>1, BatcherStill
    <2>3. Kept(producer, ReleasePermits(producer, {r}))
        BY <1>1, KeptBy
    <2> QED BY <1>2, <2>1, <2>2, <2>3, RefuseQuietly
<1>5. CASE ~ batcher.closed /\ ~ Overflows(batcher, r)
    <2>1. Enters(r) /\ UNCHANGED <<producer, closer>>
        BY <1>5 DEF Add
    <2> QED BY <1>2, <1>3, <1>5, <2>1, EntersLine
<1>6. CASE ~ batcher.closed /\ Overflows(batcher, r)
    <2>1. /\ batcher' \in {Lock(b, "add", r) : b \in FlushBegun(batcher)}
          /\ pc' = [pc EXCEPT ![r] = "adding"] /\ UNCHANGED <<added, producer, closer>>
        BY <1>6 DEF Add
    <2>2. PICK b \in FlushBegun(batcher) : batcher' = Lock(b, "add", r)
        BY <2>1
    <2>3. b \in BatcherType /\ Moved(batcher, b)
        BY <1>1, <1>2, FlushBegunFields, FlushBegunMoves
    <2>4. Moved(b, batcher') /\ SameLine(b, batcher')
        BY <2>2, <2>3, SameMoves
    <2>5. Moved(batcher, batcher')
        BY <2>3, <2>4, MovedOn
    <2>6. [op |-> "add", who |-> r] \in Holders
        BY HolderNames
    <2>7. batcher'.mu.op = "add" /\ batcher'.mu.who = r
        BY <2>2, <2>3, <2>6, LockFields
    <2>8. \A s \in Records : \/ pc'[s] = pc[s]
                             \/ pc[s] \notin {"adding", "accepted"} /\ pc'[s] # "accepted"
        BY <1>2, <2>1, InvFacts, PcMoves
    <2>9. AddedOK'
        BY <1>2, <2>1, <2>7, <2>8, AddedStays
    <2>10. Kept(producer, producer')
        BY <1>1, <2>1, KeptBy
    <2>11. Quiet /\ OffBarrier /\ SameClose
        BY <1>2, <2>1, <2>5, <2>7, <2>10 DEF Quiet, OffBarrier, SameClose
    <2> QED BY <2>9, <2>11 DEF Background
<1> QED BY <1>4, <1>5, <1>6

(* The record enters after the flush it had to wait for (addWithPermit).   *)
LEMMA AddAfterFlushEnters ==
    ASSUME ProducerInv, AddedOK, NEW r \in Records, AddAfterFlush(r)
    PROVE  Entering(r)
<1>1. /\ batcher.mu = [op |-> "add", who |-> r] /\ ~ Sending(batcher) /\ Enters(r)
      /\ UNCHANGED <<producer, outcome, workVars, flushVars, closer, sessionVars>>
    BY DEF AddAfterFlush
<1>2. batcher.mu.op = "add" /\ batcher.mu.who = r
    BY <1>1
<1>3. pc[r] = "adding" /\ r \notin RecordsOf(added)
    BY <1>2, InvFacts DEF AddedOK, HolderOK
<1>4. ~ batcher.closed
    BY <1>2, InvFacts, HolderNames DEF BatcherOK, ClosedOK
<1> QED BY <1>1, <1>3, <1>4, EntersLine

(* A call of Add returns: its record has entered before.                   *)
LEMMA AddReturnsQuietly ==
    ASSUME ProducerInv, AddedOK, NEW r \in Records, AddReturns(r)
    PROVE  Background
<1>1. /\ batcher.mu = [op |-> "added", who |-> r] /\ batcher' = Unlock(batcher)
      /\ pc' = [pc EXCEPT ![r] = "accepted"]
      /\ UNCHANGED <<added, producer, outcome, workVars, flushVars, closer, sessionVars>>
    BY DEF AddReturns
<1>2. batcher.mu.op = "added" /\ batcher.mu.who = r
    BY <1>1
<1>3. r \in RecordsOf(added)
    BY <1>2 DEF AddedOK
<1>4. Moved(batcher, batcher') /\ batcher'.mu.op = "free"
    BY <1>1, InvFacts, SameMoves, UnlockFields, HolderNames
<1>5. AddedOK'
    <2>1. pc'[r] = "accepted" /\ \A s \in Records : s # r => pc'[s] = pc[s]
        BY <1>1, InvFacts DEF TypeOK
    <2>2. /\ \A s \in Records : s \in RecordsOf(added') => pc'[s] \in {"adding", "accepted"}
          /\ \A s \in Records : pc'[s] = "accepted" => s \in RecordsOf(added')
        BY <1>1, <1>3, <2>1 DEF AddedOK
    <2> QED BY <1>1, <1>4, <2>2 DEF AddedOK
<1>6. Kept(producer, producer')
    BY <1>1, InvFacts, KeptBy
<1> QED BY <1>1, <1>4, <1>5, <1>6 DEF Background, Quiet, OffBarrier, SameClose

(* The timer, Batcher.Flush and the contexts. *)
LEMMA TimerQuietly ==
    ASSUME ProducerInv, AddedOK, NEW seq, FlushFromTimer(seq)
    PROVE  Background
<1>1. /\ batcher.mu = Free /\ batcher' \in TimerFired(batcher, seq)
      /\ UNCHANGED <<added, pc, producer, outcome, workVars, flushVars, closer, sessionVars>>
    BY DEF FlushFromTimer, submitVars
<1>2. producer \in ProducerType /\ BatcherOK(batcher)
    BY InvFacts
<1>3. Moved(batcher, batcher')
    BY <1>1, <1>2, TimerFiredMoves
<1>4. batcher'.mu.op \in {"free", "timer"}
    BY <1>1, <1>2, TimerFiredKeeps, HolderNames
<1> QED BY <1>1, <1>2, <1>3, <1>4, KeptBy, BackgroundStep DEF SameClose

(* Batcher.Flush only makes the buffer the batch to send.                  *)
LEMMA BatcherFlushQuietly ==
    ASSUME ProducerInv, AddedOK, BatcherFlush
    PROVE  Background
<1>1. /\ batcher.mu = Free
      /\ UNCHANGED <<added, pc, producer, outcome, workVars, flushVars, closer, sessionVars>>
    BY DEF BatcherFlush, submitVars
<1>2. PICK b \in FlushBegun(batcher) : batcher' = Lock(b, "flush", "nobody")
    BY DEF BatcherFlush
<1>3. producer \in ProducerType /\ batcher \in BatcherType /\ ~ Sending(batcher)
    BY <1>1, InvFacts DEF BatcherOK, LockOK
<1>4. b \in BatcherType /\ Moved(batcher, b)
    BY <1>3, FlushBegunFields, FlushBegunMoves
<1>5. Moved(b, batcher') /\ SameLine(b, batcher')
    BY <1>2, <1>4, SameMoves
<1>6. Moved(batcher, batcher')
    BY <1>4, <1>5, MovedOn
<1>7. [op |-> "flush", who |-> "nobody"] \in Holders
    BY HolderNames
<1>8. batcher'.mu.op = "flush"
    BY <1>2, <1>4, <1>7, LockFields
<1> QED BY <1>1, <1>3, <1>6, <1>8, KeptBy, BackgroundStep DEF SameClose

(* The end of a context, its callbacks, and the begin of Batcher.Close     *)
(* move no record.                                                         *)
LEMMA CancelsQuietly ==
    ASSUME ProducerInv, AddedOK,
           CancelBatcher \/ CancelProducer \/ BatcherCancelled \/ ProducerCancelled \/ CloseBatcher
    PROVE  Background
<1>1. producer \in ProducerType /\ batcher \in BatcherType
      /\ closer \in [Closers -> CloserStates]
    BY InvFacts
<1>2. UNCHANGED <<added, pc, outcome, workVars, flushVars, sessionVars>>
    BY DEF CancelBatcher, CancelProducer, BatcherCancelled, ProducerCancelled, CloseBatcher,
           submitVars
<1>3. Moved(batcher, batcher') /\ batcher'.mu = batcher.mu
    <2>1. CASE UNCHANGED batcher
        BY <2>1, BatcherStill
    <2>2. CASE batcher' = [batcher EXCEPT !.ctx = TRUE] /\ "batcherCancelled" \in setup.may
        BY <1>1, <2>2 DEF BatcherType, Moved, SameLine
    <2> QED BY <2>1, <2>2
            DEF CancelBatcher, CancelProducer, BatcherCancelled, ProducerCancelled, CloseBatcher
<1>4. ErrContext \in Errs /\ ErrSessionClosed \in Errs
    BY DEF Errs
<1>5. CASE CancelBatcher \/ CancelProducer \/ CloseBatcher
    <2>1. SameClose
        BY <1>1, <1>5 DEF CancelBatcher, CancelProducer, CloseBatcher, SameClose, Closers
    <2>2. Kept(producer, producer')
        BY <1>1, <1>5, KeptBy DEF CancelBatcher, CancelProducer, CloseBatcher
    <2> QED BY <1>2, <1>3, <2>1, <2>2, BackgroundStep
<1>6. CASE BatcherCancelled
    <2> DEFINE cause == ShutdownCause(batcher)
               p == CancelSubmit(producer, cause)
               q == IF cause = ErrSessionClosed THEN p ELSE RecordTerminalError(p, cause)
    <2>1. cause \in Errs
        BY <1>1, <1>4 DEF ShutdownCause, BatcherType
    <2>2. Becomes(q, closer)
        BY <1>6 DEF BatcherCancelled
    <2>3. p \in ProducerType /\ Kept(producer, p)
        BY <1>1, <2>1, CancelSubmitKeeps, KeptBy DEF SamePermits
    <2> HIDE DEF p, cause
    <2>4. Kept(producer, q)
        BY <2>1, <2>3, KeptBy, KeptOn
    <2> HIDE DEF q
    <2>5. producer' = q /\ SameClose
        BY <1>1, <2>2, BecomesQuietly DEF SameClose
    <2> QED BY <1>2, <1>3, <2>4, <2>5, BackgroundStep
<1>7. CASE ProducerCancelled
    <2> DEFINE q == IF producer.closing THEN producer ELSE RecordTerminalError(producer, ErrContext)
    <2>1. Becomes(q, closer)
        BY <1>7 DEF ProducerCancelled
    <2>2. Kept(producer, q)
        BY <1>1, <1>4, KeptBy
    <2> HIDE DEF q
    <2>3. producer' = q /\ SameClose
        BY <1>1, <2>1, BecomesQuietly DEF SameClose
    <2> QED BY <1>2, <1>3, <2>2, <2>3, BackgroundStep
<1> QED BY <1>5, <1>6, <1>7

(* The steps of close and Close, which also move its caller. *)
CloseActions ==
    \/ Close \/ CloseReturns
    \/ \E w \in Closers : CloseStep(w)

(* The same, with the caller of Close perhaps moving.                      *)
Calm == Quiet /\ OffBarrier /\ AddedOK'

(* A step that leaves the records and the Flush calls alone.               *)
LEMMA CalmStep ==
    ASSUME AddedOK, UNCHANGED <<added, pc, outcome, workVars, flushVars, sessionVars>>,
           Moved(batcher, batcher'), Kept(producer, producer'),
           \/ batcher'.mu = batcher.mu
           \/ batcher'.mu.op \in {"free", "close"}
    PROVE  Calm
<1>1. AddedOK'
    <2>1. batcher'.mu.op \notin {"add", "added"} \/ batcher'.mu = batcher.mu
        OBVIOUS
    <2> QED BY <2>1, AddedStays
<1> QED BY <1>1 DEF Calm, Quiet, OffBarrier

(* Producer.Close records the error of Batcher.close as the terminal       *)
(* error.                                                                  *)
LEMMA AfterCloseKept ==
    ASSUME ProducerInv, NEW w
    PROVE  LET p == AfterClose(w, producer, batcher.closeErr)
           IN  /\ Kept(producer, p)
               /\ w = "producer" /\ batcher.closeErr # NoErr => p.terminalErr # NoErr
<1>1. /\ producer \in ProducerType /\ batcher.closeErr \in Errs \cup {NoErr} /\ NoErr \notin Errs
    BY InvFacts DEF BatcherType, Errs, NoErr, ErrSessionClosed, ErrContext, ErrAppend
<1> QED BY <1>1, KeptBy, RecordTerminalErrorKeeps DEF AfterClose

(* The steps of close move no record but from the buffer to the batch to   *)
(* send.                                                                   *)
LEMMA CloseQuietly ==
    ASSUME ProducerInv, AddedOK, CloseActions
    PROVE  Calm
<1>1. producer \in ProducerType /\ batcher \in BatcherType /\ BatcherOK(batcher)
      /\ closer \in [Closers -> CloserStates] /\ ErrContext \in Errs /\ ErrSessionClosed \in Errs
    BY InvFacts DEF Errs
<1>2. UNCHANGED <<added, pc, outcome, workVars, flushVars, sessionVars>>
    BY DEF CloseActions, Close, CloseReturns, CloseStep, CloseLocks, CloseUnlocks, CloseSeals,
           submitVars
<1>3. CASE Close
    <2>1. Moved(batcher, batcher') /\ batcher'.mu = batcher.mu
        BY <1>3, BatcherStill DEF Close
    <2> DEFINE p == [producer EXCEPT !.closing = TRUE, !.pool = ClosedPool(@)]
    <2>2. p \in ProducerType /\ Kept(producer, p)
        BY <1>1, ClosedPoolFields DEF ProducerType, Kept
    <2>3. producer' = CancelSubmit(p, ErrSessionClosed)
        BY <1>3 DEF Close
    <2> HIDE DEF p
    <2>4. Kept(producer, producer')
        BY <1>1, <2>2, <2>3, KeptBy, KeptOn
    <2> QED BY <1>2, <2>1, <2>4, CalmStep
<1>4. CASE CloseReturns
    <2>1. Moved(batcher, batcher') /\ batcher'.mu = batcher.mu
        BY <1>4, BatcherStill DEF CloseReturns
    <2> DEFINE p == IF producer.ctx THEN RecordTerminalError(producer, ErrContext) ELSE producer
    <2>2. p \in ProducerType /\ Kept(producer, p)
        BY <1>1, KeptBy, RecordTerminalErrorKeeps DEF SamePermits
    <2>3. producer' = CancelCtx(p)
        BY <1>4 DEF CloseReturns, Becomes
    <2> HIDE DEF p
    <2>4. Kept(producer, producer')
        BY <2>2, <2>3, KeptBy, KeptOn
    <2> QED BY <1>2, <2>1, <2>4, CalmStep
<1>5. ASSUME NEW w \in Closers, CloseLocks(w) PROVE Calm
    <2>1. batcher.mu = Free
        BY <1>5 DEF CloseLocks
    <2>2. CASE batcher.closed
        <3>1. UNCHANGED batcher /\ producer' = AfterClose(w, producer, batcher.closeErr)
            BY <1>5, <2>2 DEF CloseLocks, Becomes
        <3>2. Moved(batcher, batcher') /\ batcher'.mu = batcher.mu /\ Kept(producer, producer')
            BY <3>1, BatcherStill, AfterCloseKept
        <3> QED BY <1>2, <3>2, CalmStep
    <2>3. CASE ~ batcher.closed
        <3>1. PICK b \in Closing(batcher, w) : batcher' = IF Sending(b) THEN b ELSE Unlock(b)
            BY <1>5, <2>3 DEF CloseLocks
        <3>2. UNCHANGED producer
            BY <1>5, <2>3 DEF CloseLocks
        <3>3. /\ Moved(batcher, b) /\ Moved(batcher, Unlock(b))
              /\ b \in BatcherType /\ b.mu = [op |-> "close", who |-> w]
            BY <1>1, <2>1, <2>3, ClosingMoves, FlushUnderClose DEF BatcherOK
        <3>4. b.mu.op = "close" /\ Unlock(b).mu.op = "free"
            BY <3>3, UnlockFields, HolderNames
        <3>5. Moved(batcher, batcher') /\ batcher'.mu.op \in {"free", "close"}
            BY <3>1, <3>3, <3>4
        <3>6. Kept(producer, producer')
            BY <1>1, <3>2, KeptBy
        <3> QED BY <1>2, <3>5, <3>6, CalmStep
    <2> QED BY <2>2, <2>3
<1>6. ASSUME NEW w \in Closers, CloseUnlocks(w) PROVE Calm
    <2>1. batcher' = Unlock(batcher) /\ UNCHANGED producer
        BY <1>6 DEF CloseUnlocks
    <2>2. Moved(batcher, batcher') /\ batcher'.mu.op = "free" /\ Kept(producer, producer')
        BY <1>1, <2>1, SameMoves, UnlockFields, HolderNames, KeptBy
    <2> QED BY <1>2, <2>2, CalmStep
<1>7. ASSUME NEW w \in Closers, CloseSeals(w) PROVE Calm
    <2>1. /\ batcher' = [batcher EXCEPT !.ctx = TRUE, !.chClosed = TRUE]
          /\ producer' = AfterClose(w, producer, batcher.closeErr)
        BY <1>7 DEF CloseSeals, Becomes
    <2>2. Moved(batcher, batcher') /\ batcher'.mu = batcher.mu
        BY <1>1, <2>1 DEF BatcherType, Moved, SameLine
    <2> QED BY <1>2, <2>1, <2>2, AfterCloseKept, CalmStep
<1> QED BY <1>3, <1>4, <1>5, <1>6, <1>7 DEF CloseActions, CloseStep

(* The steps of Flush. *)
FlushAction(f) == Flush(f) \/ FlushStep(f) \/ FlushAbandoned(f)

(* The barrier is sent: it is the last of the channel. *)
BarrierSent(f) ==
    /\ BarrierSends(f) /\ ~ Sending(batcher) /\ ~ batcher.chClosed
    /\ batcher'.ch = Append(batcher.ch, [barrier |-> f])
    /\ batcher'.buffer = batcher.buffer /\ batcher'.meta = batcher.meta
    /\ batcher'.out = batcher.out /\ batcher'.next = batcher.next
    /\ batcher'.closeErr = batcher.closeErr /\ batcher'.ctx = batcher.ctx
    /\ batcher'.closed = batcher.closed /\ batcher'.chClosed = batcher.chClosed
    /\ batcher'.failed = batcher.failed /\ batcher'.mu = Free
    /\ ordered' = [ordered EXCEPT ![f] = "nil"]
    /\ UNCHANGED <<producer, added, outcome, workVars, sessionVars, call, barrier, covered>>
    /\ SameClose /\ AddedOK'

(* After the flush of flushBarrier no record is moved.                     *)
LEMMA AfterBarrierFlushQuietly ==
    ASSUME ProducerInv, NEW f \in Flushes, AfterBarrierFlush(f)
    PROVE  /\ Moved(batcher, batcher') /\ Kept(producer, producer') /\ SameClose
           /\ batcher'.mu.op \in {"free", "barrierSend"}
<1>1. producer \in ProducerType /\ batcher \in BatcherType
      /\ closer \in [Closers -> CloserStates] /\ ErrContext \in Errs
    BY InvFacts DEF Errs
<1>2. CASE BarrierFails(f)
    <2>1. Becomes(RecordTerminalError(producer, ErrContext), closer) /\ batcher' = Unlock(batcher)
        BY <1>2 DEF BarrierFails
    <2>2. producer' = RecordTerminalError(producer, ErrContext) /\ SameClose
        BY <1>1, <2>1, BecomesQuietly DEF SameClose
    <2> QED BY <1>1, <2>1, <2>2, KeptBy, SameMoves, UnlockFields, HolderNames
<1>3. CASE batcher' = Lock(batcher, "barrierSend", f) /\ UNCHANGED <<producer, closer>>
    <2>1. [op |-> "barrierSend", who |-> f] \in Holders
        BY HolderNames
    <2>2. batcher'.mu.op = "barrierSend"
        BY <1>1, <1>3, <2>1, LockFields
    <2> QED BY <1>1, <1>3, <2>2, KeptBy, SameMoves DEF SameClose
<1> QED BY <1>2, <1>3 DEF AfterBarrierFlush

(* A step of Flush moves no record, or sends its barrier.                  *)
LEMMA FlushQuietly ==
    ASSUME ProducerInv, AddedOK, NEW f \in Flushes, FlushAction(f)
    PROVE  \/ Quiet /\ SameClose /\ AddedOK'
           \/ BarrierSent(f)
<1>1. /\ producer \in ProducerType /\ batcher \in BatcherType /\ BatcherOK(batcher)
      /\ closer \in [Closers -> CloserStates] /\ ErrContext \in Errs
    BY InvFacts DEF Errs
<1>2. UNCHANGED <<added, pc, outcome, workVars, sessionVars>>
    BY DEF FlushAction, Flush, FlushStep, BarrierLocks, BarrierFlushed, BarrierSends, FlushReturns,
           FlushAbandoned, submitVars
<1>3. ASSUME batcher'.mu = batcher.mu \/ batcher'.mu.op \in {"free", "barrier", "barrierSend"}
      PROVE  AddedOK'
    BY <1>2, <1>3, AddedStays
<1>4. ASSUME Moved(batcher, batcher'), Kept(producer, producer'), SameClose,
             batcher'.mu = batcher.mu \/ batcher'.mu.op \in {"free", "barrier", "barrierSend"}
      PROVE  Quiet /\ SameClose /\ AddedOK'
    BY <1>2, <1>3, <1>4 DEF Quiet
<1>5. CASE Flush(f)
    <2>1. Moved(batcher, batcher') /\ batcher'.mu = batcher.mu
        BY <1>5, BatcherStill DEF Flush
    <2>2. UNCHANGED <<producer, closer>> \/ Becomes(Checked(producer), closer)
        BY <1>5 DEF Flush
    <2>3. Kept(producer, producer') /\ SameClose
        <3>1. CASE UNCHANGED <<producer, closer>>
            BY <1>1, <3>1, KeptBy DEF SameClose
        <3>2. CASE Becomes(Checked(producer), closer)
            BY <1>1, <3>2, KeptBy, BecomesQuietly DEF SameClose
        <3> QED BY <2>2, <3>1, <3>2
    <2> QED BY <1>4, <2>1, <2>3
<1>6. CASE FlushReturns(f) \/ FlushAbandoned(f)
    <2>1. UNCHANGED <<batcher, producer, closer>>
        BY <1>6 DEF FlushReturns, FlushAbandoned
    <2>2. Moved(batcher, batcher') /\ batcher'.mu = batcher.mu
        BY <2>1, BatcherStill
    <2> QED BY <1>1, <1>4, <2>1, <2>2, KeptBy DEF SameClose
<1>7. CASE BarrierLocks(f)
    <2>1. batcher.mu = Free /\ ~ Sending(batcher)
        BY <1>1, <1>7 DEF BarrierLocks, BatcherOK, LockOK
    <2>2. CASE UNCHANGED <<batcher, producer, closer>>
        <3>1. Moved(batcher, batcher') /\ batcher'.mu = batcher.mu
            BY <2>2, BatcherStill
        <3> QED BY <1>1, <1>4, <2>2, <3>1, KeptBy DEF SameClose
    <2>3. ASSUME NEW b \in FlushBegun(batcher), batcher' = Lock(b, "barrier", f),
                 UNCHANGED <<producer, closer>>
          PROVE  Quiet /\ SameClose /\ AddedOK'
        <3>1. b \in BatcherType /\ Moved(batcher, b)
            BY <1>1, <2>1, FlushBegunFields, FlushBegunMoves
        <3>2. Moved(b, batcher') /\ SameLine(b, batcher')
            BY <2>3, <3>1, SameMoves
        <3>3. Moved(batcher, batcher')
            BY <3>1, <3>2, MovedOn
        <3>4. [op |-> "barrier", who |-> f] \in Holders
            BY HolderNames
        <3>5. batcher'.mu.op = "barrier"
            BY <2>3, <3>1, <3>4, LockFields
        <3> QED BY <1>1, <1>4, <2>3, <3>3, <3>5, KeptBy DEF SameClose
    <2>4. CASE AfterBarrierFlush(f)
        BY <1>4, <2>4, AfterBarrierFlushQuietly
    <2> QED BY <1>7, <2>2, <2>3, <2>4 DEF BarrierLocks
<1>8. CASE BarrierFlushed(f)
    BY <1>4, <1>8, AfterBarrierFlushQuietly DEF BarrierFlushed
<1>9. CASE BarrierSends(f)
    <2>1. CASE BarrierFails(f)
        <3>1. Becomes(RecordTerminalError(producer, ErrContext), closer) /\ batcher' = Unlock(batcher)
            BY <2>1 DEF BarrierFails
        <3>2. producer' = RecordTerminalError(producer, ErrContext) /\ SameClose
            BY <1>1, <3>1, BecomesQuietly DEF SameClose
        <3>3. Moved(batcher, batcher') /\ batcher'.mu.op = "free" /\ Kept(producer, producer')
            BY <1>1, <3>1, <3>2, KeptBy, SameMoves, UnlockFields, HolderNames
        <3> QED BY <1>4, <3>2, <3>3
    <2>2. CASE /\ batcher' = [Unlock(batcher) EXCEPT !.ch = Append(@, [barrier |-> f])]
               /\ ordered' = [ordered EXCEPT ![f] = "nil"]
               /\ UNCHANGED <<producer, closer>>
        <3>0. batcher.mu.op = "barrierSend"
            BY <1>9 DEF BarrierSends
        <3>1. ~ Sending(batcher) /\ ~ batcher.chClosed
            BY <1>1, <3>0, HolderNames DEF BatcherOK, LockOK, ClosedOK
        <3> DEFINE u == Unlock(batcher)
        <3>2. /\ u \in BatcherType /\ u.mu = Free
              /\ SameLine(batcher, u) /\ u.closeErr = batcher.closeErr /\ u.ctx = batcher.ctx
              /\ u.closed = batcher.closed /\ u.chClosed = batcher.chClosed
              /\ u.failed = batcher.failed
            BY <1>1, UnlockFields, SameMoves DEF Moved, Unlock, BatcherType
        <3>3. batcher' = [u EXCEPT !.ch = Append(@, [barrier |-> f])]
            BY <2>2
        <3> HIDE DEF u
        <3>4. /\ batcher'.ch = Append(batcher.ch, [barrier |-> f])
              /\ batcher'.buffer = batcher.buffer /\ batcher'.meta = batcher.meta
              /\ batcher'.out = batcher.out /\ batcher'.next = batcher.next
              /\ batcher'.closeErr = batcher.closeErr /\ batcher'.ctx = batcher.ctx
              /\ batcher'.closed = batcher.closed /\ batcher'.chClosed = batcher.chClosed
              /\ batcher'.failed = batcher.failed /\ batcher'.mu = Free
            BY <3>2, <3>3 DEF BatcherType, SameLine
        <3>5. AddedOK'
            BY <1>3, <3>4, HolderNames
        <3>6. /\ UNCHANGED <<producer, added, outcome, workVars, sessionVars, call, barrier, covered>>
              /\ SameClose
            BY <1>2, <1>9, <2>2 DEF BarrierSends, SameClose
        <3> QED BY <1>9, <2>2, <3>1, <3>4, <3>5, <3>6 DEF BarrierSent
    <2> QED BY <1>9, <2>1, <2>2 DEF BarrierSends
<1> QED BY <1>5, <1>6, <1>7, <1>8, <1>9 DEF FlushAction, FlushStep

(* The steps of the session. *)
SessionMoves ==
    SessionStep \/ SessionFails \/ \E i \in DOMAIN tickets : SessionRepeats(i)

(* They change nothing of the producer. *)
LEMMA SessionFrame == SessionMoves => SessionUnchanged
BY DEF SessionMoves, SessionStep, SessionAnswers, SessionAppends, SessionAcks, SessionFails,
       SessionRepeats

(* The steps of the sender of a batch, the consumer, the waiters and the   *)
(* session.                                                                *)
WorkStep ==
    \/ SendBatch \/ DropBatch \/ ConsumerStep
    \/ \E i \in DOMAIN tickets : AwaitAck(i)
    \/ SessionMoves

(* The select of flushLocked. *)
LEMMA SelectFields ==
    ASSUME NEW b \in BatcherType, NEW c \in {Sent(b), Dropped(b)}
    PROVE  /\ c.out = NoBatch /\ c.buffer = b.buffer /\ c.meta = b.meta
           /\ c.ctx = b.ctx /\ c.closed = b.closed /\ c.chClosed = b.chClosed
           /\ c.mu = Free \/ c.mu = b.mu
           /\ c.mu = Flushed(b).mu
           /\ c = Sent(b) => /\ c.ch = Append(b.ch, b.out) /\ c.closeErr = b.closeErr
                             /\ c.failed = b.failed
                             /\ c.next = IF b.next = NoMatch THEN NoMatch
                                         ELSE b.next + Len(b.out.records)
           /\ c = Dropped(b) => c.ch = b.ch /\ c.next = b.next /\ c.closeErr # NoErr
<1> DEFINE u == Flushed(b)
<1>1. /\ u \in BatcherType /\ SameLine(b, u) /\ u.closeErr = b.closeErr
      /\ u.ctx = b.ctx /\ u.closed = b.closed /\ u.chClosed = b.chClosed
      /\ u.mu = Free \/ u.mu = b.mu
      /\ u.mu = Flushed(b).mu /\ u.failed = b.failed
    <2>1. \/ u = b
          \/ u = Unlock(b) /\ u \in BatcherType /\ SameLine(b, u) /\ Moved(b, u) /\ u.mu = Free
        BY UnlockFields, SameMoves DEF Flushed
    <2>2. u.failed = b.failed
        BY <2>1 DEF Unlock, BatcherType
    <2> QED BY <2>1, <2>2, UnlockFields, SameMoves DEF Flushed, Moved
<1>2. /\ Sent(b) = [u EXCEPT !.ch = Append(@, b.out), !.out = NoBatch,
                             !.next = IF @ = NoMatch THEN @ ELSE @ + Len(b.out.records)]
      /\ Dropped(b) = [u EXCEPT !.out = NoBatch, !.failed = TRUE,
                                !.closeErr = IF @ = NoErr THEN ErrContext ELSE @]
    BY DEF Sent, Dropped
<1>3. ErrContext # NoErr
    BY DEF ErrContext, NoErr
<1> HIDE DEF u
<1>4. CASE c = Sent(b)
    <2>1. /\ c.ch = Append(u.ch, b.out) /\ c.out = NoBatch
          /\ c.next = IF u.next = NoMatch THEN u.next ELSE u.next + Len(b.out.records)
          /\ c.buffer = u.buffer /\ c.meta = u.meta /\ c.closeErr = u.closeErr
          /\ c.ctx = u.ctx /\ c.closed = u.closed /\ c.chClosed = u.chClosed /\ c.mu = u.mu
          /\ c.failed = u.failed
        BY <1>1, <1>2, <1>4 DEF BatcherType
    <2>2. c = Dropped(b) => c.ch = b.ch /\ c.next = b.next /\ c.closeErr # NoErr
        BY <1>1, <1>2, <1>3 DEF BatcherType, SameLine
    <2> QED BY <1>1, <2>1, <2>2 DEF SameLine
<1>5. CASE c = Dropped(b)
    <2>1. /\ c.ch = u.ch /\ c.out = NoBatch /\ c.next = u.next /\ c.closeErr # NoErr
          /\ c.buffer = u.buffer /\ c.meta = u.meta
          /\ c.ctx = u.ctx /\ c.closed = u.closed /\ c.chClosed = u.chClosed /\ c.mu = u.mu
        BY <1>1, <1>2, <1>3, <1>5 DEF BatcherType
    <2>2. CASE c = Sent(b)
        BY <1>4, <2>2
    <2> QED BY <1>1, <2>1, <2>2 DEF SameLine
<1> QED BY <1>4, <1>5

(* An output is taken from the channel. *)
LEMMA TakenFields ==
    ASSUME NEW b \in BatcherType, NEW c, c = [b EXCEPT !.ch = Tail(@)]
    PROVE  /\ c.ch = Tail(b.ch)
           /\ c.out = b.out /\ c.buffer = b.buffer /\ c.meta = b.meta /\ c.next = b.next
           /\ c.ctx = b.ctx /\ c.closed = b.closed /\ c.chClosed = b.chClosed
           /\ c.mu = b.mu /\ c.closeErr = b.closeErr
BY DEF BatcherType

(* Those steps leave the records that entered, the caller of Close and the *)
(* flags of the batcher alone.                                             *)
LEMMA WorkFields ==
    ASSUME ProducerInv, AddedOK, WorkStep
    PROVE  /\ AddedOK' /\ UNCHANGED <<added, pc, call, ordered, covered>> /\ SameClose
           /\ batcher'.mu = Free \/ batcher'.mu = batcher.mu
           /\ batcher'.ctx = batcher.ctx /\ batcher'.closed = batcher.closed
           /\ batcher'.chClosed = batcher.chClosed
           /\ producer.terminalErr # NoErr => producer'.terminalErr # NoErr
           /\ producer.appendErr # NoErr => producer'.appendErr # NoErr
<1>1. /\ producer \in ProducerType /\ batcher \in BatcherType
      /\ closer \in [Closers -> CloserStates] /\ ErrContext \in Errs /\ ErrAppend \in Errs
    BY InvFacts DEF Errs
<1>2. UNCHANGED <<added, pc, call, ordered, covered>>
    BY SessionFrame DEF WorkStep, SendBatch, DropBatch, ConsumerStep, Receive, AwaitSubmission,
                        FailBatch,
           ReachBarrier, ConsumerDrains, AwaitAck, SessionUnchanged, submitVars, flushVars
<1>3. /\ batcher'.mu = Free \/ batcher'.mu = batcher.mu
      /\ batcher'.ctx = batcher.ctx /\ batcher'.closed = batcher.closed
      /\ batcher'.chClosed = batcher.chClosed
    <2>1. \/ UNCHANGED batcher
          \/ batcher' \in {Sent(batcher), Dropped(batcher)}
          \/ batcher' = [batcher EXCEPT !.ch = Tail(@)]
        BY SessionFrame DEF WorkStep, SendBatch, DropBatch, ConsumerStep, Receive,
                            AwaitSubmission, FailBatch,
               ReachBarrier, ConsumerDrains, AwaitAck, SessionUnchanged
    <2>2. CASE batcher' \in {Sent(batcher), Dropped(batcher)}
        BY <1>1, <2>2, SelectFields
    <2>3. CASE batcher' = [batcher EXCEPT !.ch = Tail(@)]
        BY <1>1, <2>3, TakenFields
    <2> QED BY <2>1, <2>2, <2>3
<1>4. AddedOK'
    <2>1. batcher'.mu.op \notin {"add", "added"} \/ batcher'.mu = batcher.mu
        BY <1>3, HolderNames
    <2> QED BY <1>2, <2>1, AddedStays
<1> DEFINE Fails(err, meta) ==
               LET p == RecordTerminalError(producer, err)
               IN  Becomes(DispatchedError(p, meta, p.terminalErr), closer)
           Told == \/ UNCHANGED <<producer, closer>>
                   \/ (\E S : producer' = ReleasePermits(producer, S)) /\ UNCHANGED closer
                   \/ /\ \E meta, err : /\ err # NoErr
                                        /\ producer' = DispatchedError(producer, meta, err)
                      /\ UNCHANGED closer
                   \/ \E err \in Errs : Becomes(RecordTerminalError(producer, err), closer)
                   \/ \E err \in Errs : \E meta : Fails(err, meta)
<1>5. Told
    <2>1. CASE SendBatch \/ ConsumerDrains \/ ReachBarrier \/ SessionMoves
        BY <2>1, SessionFrame DEF SendBatch, ConsumerDrains, ReachBarrier, SessionUnchanged
    <2>2. CASE DropBatch
        BY <2>2 DEF DropBatch
    <2>3. CASE FailBatch
        <3>1. producer.terminalErr # NoErr
            BY <2>3, InvSession DEF ConsumerOK, FailBatch
        <3>2. producer' = DispatchedError(producer, consumer.batch.meta, producer.terminalErr)
              /\ UNCHANGED closer
            BY <2>3 DEF FailBatch
        <3> QED BY <3>1, <3>2
    <2>4. CASE Receive
        <3>1. \/ UNCHANGED <<producer, closer>>
              \/ /\ producer.terminalErr # NoErr
                 /\ producer' = DispatchedError(producer, Head(batcher.ch).meta, producer.terminalErr)
                 /\ UNCHANGED closer
              \/ Becomes(RecordTerminalError(producer, ErrAppend), closer)
            BY <2>4 DEF Receive
        <3> QED BY <1>1, <3>1
    <2>5. CASE AwaitSubmission
        BY <1>1, <2>5 DEF AwaitSubmission
    <2>6. ASSUME NEW i \in DOMAIN tickets, AwaitAck(i) PROVE Told
        <3>1. \/ producer' = ReleasePermits(producer, MetaRecords(tickets[i].batch.meta)) /\ UNCHANGED closer
              \/ Fails(ErrAppend, tickets[i].batch.meta)
              \/ Fails(ErrContext, tickets[i].batch.meta)
            BY <2>6 DEF AwaitAck
        <3> QED BY <1>1, <3>1
    <2> QED BY <2>1, <2>2, <2>3, <2>4, <2>5, <2>6 DEF WorkStep, ConsumerStep
<1>6. ASSUME NEW p \in ProducerType, NEW meta, NEW err
      PROVE  /\ DispatchedError(p, meta, err).appendErr = IF p.appendErr = NoErr THEN err ELSE p.appendErr
             /\ DispatchedError(p, meta, err).terminalErr = p.terminalErr
    BY <1>6 DEF DispatchedError, ReleasePermits, ProducerType
<1> DEFINE Stay == /\ SameClose
                   /\ producer.terminalErr # NoErr => producer'.terminalErr # NoErr
                   /\ producer.appendErr # NoErr => producer'.appendErr # NoErr
<1>7. Stay
    <2>1. CASE UNCHANGED <<producer, closer>>
        BY <2>1 DEF SameClose
    <2>2. ASSUME NEW S, producer' = ReleasePermits(producer, S), UNCHANGED closer PROVE Stay
        BY <1>1, <2>2, KeptBy DEF SameClose, Kept
    <2>3. ASSUME NEW meta, NEW err, err # NoErr, producer' = DispatchedError(producer, meta, err),
                 UNCHANGED closer
          PROVE  Stay
        BY <1>1, <1>6, <2>3 DEF SameClose
    <2>4. ASSUME NEW err \in Errs, Becomes(RecordTerminalError(producer, err), closer) PROVE Stay
        <3>1. producer' = RecordTerminalError(producer, err) /\ SameClose
            BY <1>1, <2>4, BecomesQuietly DEF SameClose
        <3> QED BY <1>1, <3>1, KeptBy DEF Kept
    <2>5. ASSUME NEW err \in Errs, NEW meta, Fails(err, meta) PROVE Stay
        <3> DEFINE p == RecordTerminalError(producer, err)
        <3>1. p \in ProducerType /\ Kept(producer, p) /\ p.terminalErr \in Errs
            BY <1>1, KeptBy, RecordTerminalErrorKeeps DEF SamePermits
        <3>2. Becomes(DispatchedError(p, meta, p.terminalErr), closer)
            BY <2>5
        <3> HIDE DEF p
        <3>3. producer' = DispatchedError(p, meta, p.terminalErr) /\ SameClose
            BY <1>1, <3>2, BecomesQuietly DEF SameClose
        <3>4. NoErr \notin Errs
            BY DEF Errs, NoErr, ErrSessionClosed, ErrContext, ErrAppend
        <3> QED BY <1>6, <3>1, <3>3, <3>4 DEF Kept
    <2> QED BY <1>5, <2>1, <2>2, <2>3, <2>4, <2>5
<1> QED BY <1>2, <1>3, <1>4, <1>7

(* Every step is of one of these kinds. *)
StepKind ==
    \/ Background
    \/ CloseActions /\ Calm
    \/ \E r \in Records : Entering(r)
    \/ \E f \in Flushes : FlushAction(f) /\ Quiet /\ SameClose /\ AddedOK'
    \/ \E f \in Flushes : BarrierSent(f)
    \/ WorkStep

(* So it is: every step of the system is of one of these kinds.            *)
LEMMA StepKinds ==
    ASSUME ProducerInv, AddedOK, [Next]_<<vars, setup>>
    PROVE  StepKind
<1>1. ASSUME NEW r \in Records, Submit(r) \/ SubmitStep(r) \/ (r \notin Watched /\ Add(r))
      PROVE  StepKind
    <2>1. Background \/ Entering(r)
        BY <1>1, SubmitQuietly, BackpressureQuietly, AddQuietly, AddAfterFlushEnters,
           AddReturnsQuietly DEF SubmitStep
    <2> QED BY <2>1, Zenon DEF StepKind
<1>2. ASSUME NEW seq \in batcher.scheduled, FlushFromTimer(seq) PROVE StepKind
    BY <1>2, TimerQuietly, Zenon DEF StepKind
<1>3. ASSUME NEW f \in Flushes, Flush(f) \/ FlushStep(f) \/ FlushAbandoned(f) PROVE StepKind
    <2>1. FlushAction(f)
        BY <1>3 DEF FlushAction
    <2> QED BY <2>1, FlushQuietly, Zenon DEF StepKind
<1>4. CASE UNCHANGED <<vars, setup>>
    <2>1. /\ UNCHANGED <<added, pc, outcome, workVars, flushVars, sessionVars>>
          /\ UNCHANGED <<batcher, producer, closer>>
        BY <1>4 DEF vars, submitVars
    <2>2. /\ Moved(batcher, batcher') /\ batcher'.mu = batcher.mu
          /\ Kept(producer, producer')
        BY <2>1, BatcherStill, InvFacts, KeptBy
    <2>3. Background
        BY <2>1, <2>2, BackgroundStep DEF SameClose
    <2> QED BY <2>3 DEF StepKind
<1>5. CASE BatcherFlush \/ CancelBatcher \/ CancelProducer \/ BatcherCancelled
           \/ ProducerCancelled \/ CloseBatcher
    BY <1>5, BatcherFlushQuietly, CancelsQuietly, Zenon DEF StepKind
<1>6. CASE Close \/ CloseReturns \/ (\E w \in Closers : CloseStep(w))
    <2>1. CloseActions
        BY <1>6 DEF CloseActions
    <2> QED BY <2>1, CloseQuietly, Zenon DEF StepKind
<1>7. CASE WorkStep
    BY <1>7, Zenon DEF StepKind
<1>8. CASE Step
    BY <1>1, <1>2, <1>3, <1>5, <1>6, <1>7, <1>8, Zenon DEF Step, WorkStep, SessionMoves
<1> QED BY <1>4, <1>8 DEF Next

-----------------------------------------------------------------------------
(* The order of the stream.                                                *)

(* A batch has its answer before the next one is submitted, unless the     *)
(* producer has ended; tickets are open as long as the session is.         *)
TurnsOK ==
    /\ \A i \in DOMAIN tickets :
          /\ tickets[i].is = "submitted" =>
                i = Len(tickets) /\ (consumer.at = "submitted" \/ producer.terminalErr # NoErr)
          /\ tickets[i].is \in {"ticket", "appended"} => sessionOpen
          /\ tickets[i].is \in {"rejected", "failed"} => ~ sessionOpen
    /\ consumer.at = "submitted" => consumer.batch = tickets[Len(tickets)].batch

(* Tickets are in order; as long as nothing is in the stream twice, so is  *)
(* the stream, and what is not applied yet comes after it.                 *)
StreamOK ==
    /\ \A i \in DOMAIN tickets : InOrder(added, tickets[i].batch.records)
    /\ \A i, j \in DOMAIN tickets : i < j => Older(added, TicketRecords(i), TicketRecords(j))
    /\ \A i \in ackWaiters : Older(added, TicketRecords(i), RecordsOf(consumer.batch.records))
    /\ RecordsOf(log) \subseteq Submitted
    /\ NoneTwice => InOrder(added, log)
    /\ NoneTwice =>
          \A i \in DOMAIN tickets :
              tickets[i].is \in {"submitted", "ticket"} /\ sessionOpen =>
                  Older(added, RecordsOf(log), TicketRecords(i))

FlowInv == AddedOK /\ LineOK(batcher, added, Received) /\ TurnsOK /\ StreamOK

(* The consumer and the session do nothing. *)
LEMMA StreamStays ==
    ASSUME UNCHANGED <<added, workVars, sessionVars>>, TurnsOK, StreamOK,
           producer.terminalErr # NoErr => producer'.terminalErr # NoErr
    PROVE  TurnsOK' /\ StreamOK' /\ Received' = Received
<1>1. /\ UNCHANGED <<added, consumer, ackWaiters, tickets, log, sessionOpen>>
    BY DEF workVars, sessionVars
<1>2. TurnsOK'
    BY <1>1 DEF TurnsOK
<1>3. StreamOK' /\ Received' = Received
    BY <1>1 DEF StreamOK, NoneTwice, Received, Submitted, TicketRecords
<1> QED BY <1>2, <1>3

(* A record enters the batcher. *)
LEMMA FlowEnters ==
    ASSUME ProducerInv, FlowInv, NEW r \in Records, Entering(r)
    PROVE  FlowInv'
<1>1. /\ added \in Seq(Records) /\ batcher \in BatcherType
    BY InvFacts DEF TypeOK
<1>2. /\ added' = Append(added, r) /\ UNCHANGED <<producer, workVars, sessionVars>> /\ AddedOK'
      /\ Moved(Buffered(batcher, r), batcher')
    BY DEF Entering
<1>3. UNCHANGED <<consumer, ackWaiters, tickets, log, sessionOpen>>
    BY <1>2 DEF workVars, sessionVars
<1>4. /\ \A S, T : Older(added, S, T) => Older(added', S, T)
      /\ \A s : InOrder(added, s) => InOrder(added', s)
    BY <1>1, <1>2, OlderMore
<1>5. Received' = Received
    BY <1>3 DEF Received, Submitted, TicketRecords
<1>6. TurnsOK'
    BY <1>2, <1>3 DEF TurnsOK, FlowInv
<1>7. StreamOK'
    BY <1>3, <1>4 DEF StreamOK, NoneTwice, FlowInv, Submitted, TicketRecords
<1>8. LineOK(Buffered(batcher, r), added', Received)
    BY <1>1, <1>2, LineBuffers DEF FlowInv
<1>9. LineOK(batcher', added', Received)
    BY <1>2, <1>8, LineSame, LineFlushes DEF Moved
<1> QED BY <1>2, <1>5, <1>6, <1>7, <1>9 DEF FlowInv

(* The records only move towards being sent. *)
LEMMA FlowQuiet ==
    ASSUME FlowInv, Quiet, AddedOK'
    PROVE  FlowInv'
<1>1. /\ UNCHANGED <<added, workVars, sessionVars>> /\ Moved(batcher, batcher')
      /\ producer.terminalErr # NoErr => producer'.terminalErr # NoErr
    BY DEF Quiet, Kept
<1>2. TurnsOK' /\ StreamOK' /\ Received' = Received
    BY <1>1, StreamStays DEF FlowInv
<1>3. LineOK(batcher', added, Received)
    BY <1>1, LineSame, LineFlushes DEF Moved, FlowInv
<1> QED BY <1>1, <1>2, <1>3 DEF FlowInv

(* A barrier carries no records. *)
LEMMA LineBarrier ==
    ASSUME NEW b \in BatcherType, NEW c, NEW a, NEW R, LineOK(b, a, R), NEW f \in Flushes,
           c.ch = Append(b.ch, [barrier |-> f]), c.out = b.out, c.buffer = b.buffer
    PROVE  LineOK(c, a, R) /\ Channel(c.ch) = Channel(b.ch) /\ InBatcher(c) = InBatcher(b)
<1> DEFINE o == [barrier |-> f]
<1>1. b.ch \in Seq(Outputs) /\ o \in Outputs /\ IsBarrier(o)
    BY LineTypes, BatchShape
<1> HIDE DEF o
<1>2. c.ch = Append(b.ch, o)
    BY DEF o
<1>3. Carried(o) = {}
    BY <1>1 DEF Carried
<1>4. Channel(c.ch) = Channel(b.ch) /\ InBatcher(c) = InBatcher(b)
    <2>1. Channel(c.ch) = Channel(b.ch) \cup Carried(o)
        BY <1>1, <1>2, ChannelSteps
    <2>2. InBatcher(c) = InBatcher(b)
        BY DEF InBatcher
    <2> QED BY <1>3, <2>1, <2>2
<1>5. \A i \in DOMAIN c.ch : \/ i \in DOMAIN b.ch /\ c.ch[i] = b.ch[i]
                             \/ i = Len(b.ch) + 1 /\ c.ch[i] = o
    BY <1>1, <1>2
<1>6. \A i \in DOMAIN c.ch : ~ IsBarrier(c.ch[i]) => InOrder(a, c.ch[i].records)
    BY <1>1, <1>5 DEF LineOK
<1>7. \A i, j \in DOMAIN c.ch : i < j => Older(a, Carried(c.ch[i]), Carried(c.ch[j]))
    <2> SUFFICES ASSUME NEW i \in DOMAIN c.ch, NEW j \in DOMAIN c.ch, i < j
                 PROVE  Older(a, Carried(c.ch[i]), Carried(c.ch[j]))
        OBVIOUS
    <2>1. CASE c.ch[i] = o \/ c.ch[j] = o
        <3>1. Carried(c.ch[i]) = {} \/ Carried(c.ch[j]) = {}
            BY <1>3, <2>1
        <3> QED BY <3>1, Zenon DEF Older
    <2>2. CASE c.ch[i] # o /\ c.ch[j] # o
        BY <1>5, <2>2 DEF LineOK
    <2> QED BY <2>1, <2>2
<1> QED BY <1>4, <1>6, <1>7 DEF LineOK

(* A barrier in the channel does not disturb the order of the records.     *)
LEMMA FlowBarrier ==
    ASSUME ProducerInv, FlowInv, NEW f \in Flushes, BarrierSent(f)
    PROVE  FlowInv'
<1>1. /\ UNCHANGED <<added, workVars, sessionVars, producer>> /\ AddedOK'
      /\ batcher'.ch = Append(batcher.ch, [barrier |-> f])
      /\ batcher'.out = batcher.out /\ batcher'.buffer = batcher.buffer
    BY DEF BarrierSent
<1>2. TurnsOK' /\ StreamOK' /\ Received' = Received
    BY <1>1, StreamStays DEF FlowInv
<1>3. LineOK(batcher', added, Received)
    BY <1>1, InvFacts, LineBarrier DEF FlowInv
<1> QED BY <1>1, <1>2, <1>3 DEF FlowInv

(* The batch is sent or dropped. *)
LEMMA FlowSelect ==
    ASSUME ProducerInv, FlowInv, SendBatch \/ DropBatch, AddedOK',
           producer.terminalErr # NoErr => producer'.terminalErr # NoErr
    PROVE  FlowInv'
<1>1. /\ UNCHANGED <<added, workVars, sessionVars>>
      /\ batcher \in BatcherType
      /\ batcher' = Sent(batcher) \/ batcher' = Dropped(batcher)
    BY InvFacts DEF SendBatch, DropBatch, submitVars
<1>2. TurnsOK' /\ StreamOK' /\ Received' = Received
    BY <1>1, StreamStays DEF FlowInv
<1>3. LineOK(batcher, added, Received)
    BY DEF FlowInv
<1>4. CASE batcher' = Sent(batcher)
    <2>1. /\ batcher'.ch = Append(batcher.ch, batcher.out)
          /\ batcher'.out = NoBatch /\ batcher'.buffer = batcher.buffer
        BY <1>1, <1>4, SelectFields
    <2>2. LineOK(batcher', added, Received)
        BY <1>1, <1>3, <2>1, LineSends
    <2> QED BY <1>1, <1>2, <2>2 DEF FlowInv
<1>5. CASE batcher' = Dropped(batcher)
    <2>1. /\ batcher'.ch = batcher.ch
          /\ batcher'.out = NoBatch /\ batcher'.buffer = batcher.buffer
        BY <1>1, <1>5, SelectFields
    <2>2. LineOK(batcher', added, Received)
        BY <1>3, <2>1, LineDrops
    <2> QED BY <1>1, <1>2, <2>2 DEF FlowInv
<1> QED BY <1>1, <1>4, <1>5

(* What the consumer leaves alone when it does not receive a batch.        *)
LEMMA FlowConsumer ==
    ASSUME FlowInv, AddedOK', UNCHANGED <<batcher, added, sessionVars>>, TurnsOK',
           consumer'.batch \in {NoBatch, consumer.batch},
           ackWaiters' \subseteq ackWaiters \/ consumer'.batch = NoBatch
    PROVE  FlowInv'
<1>1. UNCHANGED <<batcher, added, tickets, log, sessionOpen>>
    BY DEF sessionVars
<1>2. Submitted' = Submitted /\ \A i : TicketRecords(i)' = TicketRecords(i)
    BY <1>1 DEF Submitted, TicketRecords
<1>3. RecordsOf(NoBatch.records) = {}
    BY RecordsOfSeq DEF NoBatch
<1>4. Received' \subseteq Received
    BY <1>2, <1>3 DEF Received
<1>5. LineOK(batcher', added', Received')
    BY <1>1, <1>4, LineForgets DEF FlowInv
<1>6. \A i \in ackWaiters' : Older(added, TicketRecords(i), RecordsOf(consumer'.batch.records))
    <2>1. CASE consumer'.batch = NoBatch
        BY <1>3, <2>1, OlderSets
    <2>2. CASE ackWaiters' \subseteq ackWaiters /\ consumer'.batch = consumer.batch
        BY <2>2 DEF FlowInv, StreamOK
    <2> QED BY <2>1, <2>2
<1>7. StreamOK'
    BY <1>1, <1>2, <1>6 DEF FlowInv, StreamOK, NoneTwice, TicketRecords
<1> QED BY <1>5, <1>7 DEF FlowInv

(* Steps of the consumer and of the waiters that take no batch.            *)
LEMMA FlowIdles ==
    ASSUME ProducerInv, FlowInv, AddedOK', UNCHANGED added,
           producer.terminalErr # NoErr => producer'.terminalErr # NoErr,
           \/ FailBatch \/ ReachBarrier \/ ConsumerDrains
           \/ \E i \in DOMAIN tickets : AwaitAck(i)
    PROVE  FlowInv'
<1>1. /\ UNCHANGED batcher /\ UNCHANGED sessionVars
      /\ UNCHANGED <<tickets, log, sessionOpen>>
    BY DEF FailBatch, ReachBarrier, ConsumerDrains, AwaitAck, sessionVars
<1>2. ASSUME UNCHANGED consumer \/ (consumer.at # "submitted" /\ consumer'.at # "submitted")
      PROVE TurnsOK'
    BY <1>1, <1>2 DEF TurnsOK, FlowInv
<1>3. CASE \E i \in DOMAIN tickets : AwaitAck(i)
    <2>1. UNCHANGED consumer /\ ackWaiters' \subseteq ackWaiters
        BY <1>3 DEF AwaitAck
    <2> QED BY <1>1, <1>2, <2>1, FlowConsumer
<1>4. CASE FailBatch \/ ReachBarrier \/ ConsumerDrains
    <2>1. /\ consumer.at # "submitted" /\ consumer'.at # "submitted"
          /\ consumer'.batch = NoBatch
        BY <1>4 DEF FailBatch, ReachBarrier, ConsumerDrains, Receiving, ReceiveAt
    <2> QED BY <1>1, <1>2, <2>1, FlowConsumer
<1> QED BY <1>3, <1>4

(* waitForBatchSubmission *)
LEMMA FlowAwaits ==
    ASSUME ProducerInv, FlowInv, AddedOK', UNCHANGED added, AwaitSubmission,
           producer.terminalErr # NoErr => producer'.terminalErr # NoErr
    PROVE  FlowInv'
<1>1. /\ UNCHANGED batcher /\ UNCHANGED sessionVars
      /\ UNCHANGED <<tickets, log, sessionOpen>> /\ consumer.at = "submitted"
    BY DEF AwaitSubmission, sessionVars
<1>2. WorkTypes /\ producer \in ProducerType
    BY InvSession, InvFacts
<1>3. /\ consumer'.at # "submitted"
      /\ \/ consumer'.batch = NoBatch
         \/ UNCHANGED ackWaiters /\ consumer'.batch = consumer.batch
      /\ tickets[Len(tickets)].is # "submitted" \/ producer'.terminalErr # NoErr
    <2>1. CASE tickets[Len(tickets)].is \in {"ticket", "appended", "acked", "failed"}
        <3>1. Receiving
            BY <2>1 DEF AwaitSubmission
        <3> QED BY <2>1, <3>1 DEF Receiving, ReceiveAt
    <2>2. CASE tickets[Len(tickets)].is \notin {"ticket", "appended", "acked", "failed"}
        <3>1. consumer' = [consumer EXCEPT !.at = "failing"] /\ UNCHANGED ackWaiters
            BY <2>2 DEF AwaitSubmission
        <3>2. consumer'.at = "failing" /\ consumer'.batch = consumer.batch
            BY <1>2, <3>1 DEF WorkTypes
        <3>3. tickets[Len(tickets)].is = "submitted" =>
                  Becomes(RecordTerminalError(producer, ErrContext), closer)
            BY <2>2 DEF AwaitSubmission
        <3>4. ErrContext \in Errs /\ NoErr \notin Errs
            BY DEF Errs, ErrContext, NoErr, ErrSessionClosed, ErrAppend
        <3>5. tickets[Len(tickets)].is = "submitted" => producer'.terminalErr # NoErr
            BY <1>2, <3>3, <3>4, RecordTerminalErrorKeeps DEF Becomes
        <3> QED BY <3>1, <3>2, <3>5
    <2> QED BY <2>1, <2>2
<1>4. TurnsOK'
    BY <1>1, <1>3 DEF TurnsOK, FlowInv
<1> QED BY <1>1, <1>3, <1>4, FlowConsumer

(* The consumer receives. *)
LEMMA FlowReceives ==
    ASSUME ProducerInv, FlowInv, AddedOK', UNCHANGED added, Receive,
           producer.terminalErr # NoErr => producer'.terminalErr # NoErr
    PROVE  FlowInv'
<1> DEFINE o == Head(batcher.ch)
           H == Carried(o)
<1>1. /\ batcher \in BatcherType /\ WorkTypes /\ SessionTypes
      /\ consumer.at = "receive" /\ batcher.ch # <<>> /\ UNCHANGED ackWaiters
      /\ batcher' = [batcher EXCEPT !.ch = Tail(@)]
    BY InvFacts, InvSession DEF Receive
<1>2. /\ batcher'.ch = Tail(batcher.ch) /\ batcher'.out = batcher.out
      /\ batcher'.buffer = batcher.buffer
    BY <1>1, TakenFields
<1>3. LineOK(batcher, added, Received)
    BY DEF FlowInv
<1>4. /\ LineOK(batcher', added, Received \cup H) /\ Older(added, Received, H)
      /\ ~ IsBarrier(o) => InOrder(added, o.records)
    BY <1>1, <1>2, <1>3, LineReceives
<1>5. ~ IsBarrier(o) => H = RecordsOf(o.records)
    BY DEF Carried
<1>6. RecordsOf(NoBatch.records) = {}
    BY RecordsOfSeq DEF NoBatch
<1> HIDE DEF H
<1>7. CASE UNCHANGED sessionVars
    <2>1. UNCHANGED <<tickets, log, sessionOpen>>
        BY <1>7 DEF sessionVars
    <2>2. Submitted' = Submitted /\ \A i : TicketRecords(i)' = TicketRecords(i)
        BY <2>1 DEF Submitted, TicketRecords
    <2>3. /\ consumer'.at # "submitted"
          /\ \/ consumer'.batch = NoBatch
             \/ consumer' = consumer
             \/ consumer'.batch = o /\ ~ IsBarrier(o)
        <3>1. CASE IsBarrier(o)
            BY <3>1 DEF Receive, ReceiveAt
        <3>2. CASE ~ IsBarrier(o) /\ producer.terminalErr # NoErr
            BY <1>1, <3>2 DEF Receive
        <3>3. CASE ~ IsBarrier(o) /\ producer.terminalErr = NoErr /\ ~ sessionOpen
            BY <3>3 DEF Receive, ReceiveAt
        <3>4. CASE ~ IsBarrier(o) /\ producer.terminalErr = NoErr /\ sessionOpen
            <4>1. tickets' = Append(tickets, [batch |-> o, start |-> 0, is |-> "submitted"])
                BY <3>4 DEF Receive
            <4>2. FALSE
                BY <1>1, <2>1, <4>1 DEF SessionTypes
            <4> QED BY <4>2
        <3> QED BY <3>1, <3>2, <3>3, <3>4
    <2>4. Received' \subseteq Received \cup H
        BY <1>5, <1>6, <2>2, <2>3 DEF Received
    <2>5. LineOK(batcher', added', Received')
        BY <1>4, <2>4, LineForgets
    <2>6. TurnsOK'
        BY <1>1, <2>1, <2>3 DEF TurnsOK, FlowInv
    <2>7. \A i \in ackWaiters' : Older(added, TicketRecords(i), RecordsOf(consumer'.batch.records))
        <3>1. CASE consumer'.batch = NoBatch
            BY <1>6, <3>1, OlderSets
        <3>2. CASE consumer' = consumer
            BY <1>1, <3>2 DEF FlowInv, StreamOK
        <3>3. CASE consumer'.batch = o /\ ~ IsBarrier(o)
            <4> SUFFICES ASSUME NEW i \in ackWaiters
                         PROVE  Older(added, TicketRecords(i), RecordsOf(consumer'.batch.records))
                BY <1>1
            <4>1. TicketRecords(i) \subseteq Received
                BY <1>1 DEF WorkTypes, Received, Submitted
            <4>2. Older(added, TicketRecords(i), H)
                BY <1>4, <4>1, OlderSets
            <4> QED BY <1>5, <3>3, <4>2
        <3> QED BY <2>3, <3>1, <3>2, <3>3
    <2>8. StreamOK'
        BY <2>1, <2>2, <2>7 DEF FlowInv, StreamOK, NoneTwice, TicketRecords
    <2> QED BY <2>5, <2>6, <2>8 DEF FlowInv
<1>8. CASE ~ UNCHANGED sessionVars
    <2> DEFINE t == [batch |-> o, start |-> 0, is |-> "submitted"]
    <2>1. /\ ~ IsBarrier(o) /\ producer.terminalErr = NoErr /\ sessionOpen
          /\ tickets' = Append(tickets, t) /\ ReceiveAt("submitted", o, "nobody")
          /\ UNCHANGED <<log, sessionOpen>>
        BY <1>8 DEF Receive
    <2>2. t.batch = o /\ t.is = "submitted"
        OBVIOUS
    <2> HIDE DEF t
    <2>0. PICK n \in Nat : n = Len(tickets)
        BY <1>1 DEF SessionTypes
    <2>3. /\ DOMAIN tickets' = 1 .. n + 1 /\ Len(tickets') = n + 1
          /\ DOMAIN tickets = 1 .. n
          /\ \A i \in DOMAIN tickets : tickets'[i] = tickets[i]
          /\ tickets'[n + 1].batch = o /\ tickets'[n + 1].is = "submitted"
        BY <1>1, <2>0, <2>1, <2>2 DEF SessionTypes
    <2>4. consumer'.at = "submitted" /\ consumer'.batch = o
        BY <2>1 DEF ReceiveAt
    <2>5. /\ \A i \in DOMAIN tickets : TicketRecords(i)' = TicketRecords(i)
          /\ TicketRecords(n + 1)' = H
        BY <1>5, <2>1, <2>3 DEF TicketRecords
    <2>6. Submitted' \subseteq Submitted \cup H /\ Submitted \subseteq Submitted'
        <3>1. ASSUME NEW x \in Submitted' PROVE x \in Submitted \cup H
            <4>1. PICK i \in DOMAIN tickets' : x \in TicketRecords(i)'
                BY DEF Submitted
            <4>2. i \in DOMAIN tickets \/ i = n + 1
                BY <2>3
            <4> QED BY <2>5, <4>1, <4>2 DEF Submitted
        <3>2. ASSUME NEW x \in Submitted PROVE x \in Submitted'
            <4>1. PICK i \in DOMAIN tickets : x \in TicketRecords(i)
                BY DEF Submitted
            <4>2. i \in DOMAIN tickets' /\ x \in TicketRecords(i)'
                BY <2>3, <2>5, <4>1
            <4> QED BY <4>2 DEF Submitted
        <3> QED BY <3>1, <3>2
    <2>7. Received' \subseteq Received \cup H
        BY <1>5, <2>1, <2>4, <2>6 DEF Received
    <2>8. LineOK(batcher', added', Received')
        BY <1>4, <2>7, LineForgets
    <2>9. TurnsOK'
        <3>1. \A i \in DOMAIN tickets : tickets[i].is # "submitted"
            BY <1>1, <2>1 DEF FlowInv, TurnsOK
        <3>2. \A i \in DOMAIN tickets' :
                  \/ i \in DOMAIN tickets /\ tickets'[i] = tickets[i]
                  \/ i = n + 1 /\ tickets'[i].is = "submitted"
            BY <2>3
        <3>3. \A i \in DOMAIN tickets' :
                  /\ tickets'[i].is = "submitted" =>
                        i = Len(tickets') /\ (consumer'.at = "submitted" \/ producer'.terminalErr # NoErr)
                  /\ tickets'[i].is \in {"ticket", "appended"} => sessionOpen'
                  /\ tickets'[i].is \in {"rejected", "failed"} => ~ sessionOpen'
            BY <2>1, <2>3, <2>4, <3>1, <3>2 DEF FlowInv, TurnsOK
        <3> QED BY <2>3, <2>4, <3>3 DEF TurnsOK
    <2>10. /\ \A i \in DOMAIN tickets : TicketRecords(i) \subseteq Received
           /\ RecordsOf(log) \subseteq Received
        BY DEF Received, Submitted, FlowInv, StreamOK
    <2>11. /\ \A i \in DOMAIN tickets : Older(added, TicketRecords(i), H)
           /\ Older(added, RecordsOf(log), H)
        BY <1>4, <2>10, OlderSets
    <2>12. \A i \in DOMAIN tickets' : InOrder(added, tickets'[i].batch.records)
        <3>1. \A i \in DOMAIN tickets' : i \in DOMAIN tickets \/ i = n + 1
            BY <2>3
        <3> QED BY <1>4, <2>1, <2>3, <3>1 DEF FlowInv, StreamOK
    <2>13. ASSUME NEW i \in DOMAIN tickets', NEW j \in DOMAIN tickets', i < j
           PROVE  Older(added, TicketRecords(i)', TicketRecords(j)')
        <3>1. i \in DOMAIN tickets /\ (j \in DOMAIN tickets \/ j = n + 1)
            BY <2>3, <2>13
        <3>2. CASE j \in DOMAIN tickets
            BY <2>5, <2>13, <3>1, <3>2 DEF FlowInv, StreamOK
        <3>3. CASE j = n + 1
            BY <2>5, <2>11, <3>1, <3>3
        <3> QED BY <3>1, <3>2, <3>3
    <2>14. \A i \in ackWaiters' : Older(added, TicketRecords(i)', RecordsOf(consumer'.batch.records))
        BY <1>1, <1>5, <2>1, <2>4, <2>5, <2>11 DEF WorkTypes
    <2>15. NoneTwice =>
               \A i \in DOMAIN tickets' :
                   tickets'[i].is \in {"submitted", "ticket"} /\ sessionOpen' =>
                       Older(added, RecordsOf(log'), TicketRecords(i)')
        <3> SUFFICES ASSUME NoneTwice, NEW i \in DOMAIN tickets',
                            tickets'[i].is \in {"submitted", "ticket"}
                     PROVE  Older(added, RecordsOf(log), TicketRecords(i)')
            BY <2>1
        <3>1. CASE i \in DOMAIN tickets
            BY <2>1, <2>3, <2>5, <3>1 DEF FlowInv, StreamOK
        <3>2. CASE i = n + 1
            BY <2>5, <2>11, <3>2
        <3> QED BY <2>3, <3>1, <3>2
    <2>16. /\ NoneTwice => InOrder(added, log')
           /\ RecordsOf(log') \subseteq Submitted'
        BY <2>1, <2>6 DEF FlowInv, StreamOK
    <2>17. NoneTwice' <=> NoneTwice
        BY <2>1 DEF NoneTwice
    <2>18. StreamOK'
        BY <2>12, <2>13, <2>14, <2>15, <2>16, <2>17 DEF StreamOK
    <2> QED BY <2>8, <2>9, <2>18 DEF FlowInv
<1> QED BY <1>7, <1>8

(* Appending to an ordered stream what comes after it. *)
LEMMA OrderAppends ==
    ASSUME NEW a, NEW l \in Seq(Records), NEW s \in Seq(Records),
           InOrder(a, l), InOrder(a, s), Older(a, RecordsOf(l), RecordsOf(s))
    PROVE  InOrder(a, l \o s)
<1> DEFINE u == l \o s
<1>1. /\ \A k \in DOMAIN u : \/ k \in DOMAIN l /\ u[k] = l[k]
                             \/ k - Len(l) \in DOMAIN s /\ u[k] = s[k - Len(l)] /\ k > Len(l)
      /\ \A k \in DOMAIN l : k <= Len(l)
      /\ DOMAIN u \subseteq Int
    OBVIOUS
<1> HIDE DEF u
<1>2. ASSUME NEW i \in DOMAIN u, NEW j \in DOMAIN u, i < j PROVE Before(a, u[i], u[j])
    <2>1. CASE i \in DOMAIN l /\ u[i] = l[i] /\ j \in DOMAIN l /\ u[j] = l[j]
        BY <1>2, <2>1 DEF InOrder
    <2>2. CASE /\ i \in DOMAIN l /\ u[i] = l[i]
               /\ j - Len(l) \in DOMAIN s /\ u[j] = s[j - Len(l)]
        <3>1. u[i] \in RecordsOf(l) /\ u[j] \in RecordsOf(s)
            BY <2>2 DEF RecordsOf
        <3> QED BY <3>1 DEF Older
    <2>3. CASE /\ i - Len(l) \in DOMAIN s /\ u[i] = s[i - Len(l)]
               /\ j - Len(l) \in DOMAIN s /\ u[j] = s[j - Len(l)]
        <3>1. i - Len(l) < j - Len(l)
            BY <1>1, <1>2
        <3> QED BY <2>3, <3>1 DEF InOrder
    <2> QED BY <1>1, <1>2, <2>1, <2>2, <2>3
<1>3. InOrder(a, u)
    BY <1>2 DEF InOrder
<1> QED BY <1>3 DEF u

(* The session changes nothing but the state of the tickets. *)
LEMMA FlowSession ==
    ASSUME ProducerInv, FlowInv, AddedOK', SessionUnchanged, UNCHANGED added,
           DOMAIN tickets' = DOMAIN tickets, Len(tickets') = Len(tickets),
           \A i \in DOMAIN tickets : tickets'[i].batch = tickets[i].batch,
           \A i \in DOMAIN tickets : tickets'[i].is = "submitted" => tickets[i].is = "submitted",
           \A i \in DOMAIN tickets : tickets'[i].is \in {"ticket", "appended"} => sessionOpen',
           \A i \in DOMAIN tickets : tickets'[i].is \in {"rejected", "failed"} => ~ sessionOpen',
           NoneTwice' => InOrder(added, log'), RecordsOf(log') \subseteq Submitted,
           NoneTwice' /\ sessionOpen' => \A i \in DOMAIN tickets :
               tickets'[i].is \in {"submitted", "ticket"} =>
                   Older(added, RecordsOf(log'), TicketRecords(i))
    PROVE  FlowInv'
<1>1. /\ UNCHANGED <<batcher, producer, workVars>> /\ UNCHANGED <<consumer, ackWaiters>>
    BY DEF SessionUnchanged, workVars
<1>2. \A i \in DOMAIN tickets : TicketRecords(i)' = TicketRecords(i)
    BY DEF TicketRecords
<1>3. Submitted' = Submitted /\ Received' = Received
    <2>1. Submitted' = Submitted
        BY <1>2 DEF Submitted
    <2> QED BY <1>1, <2>1 DEF Received
<1>4. LineOK(batcher', added', Received')
    BY <1>1, <1>3 DEF FlowInv
<1>5. TurnsOK'
    <2>1. \A i \in DOMAIN tickets' :
              tickets'[i].is = "submitted" =>
                  i = Len(tickets') /\ (consumer'.at = "submitted" \/ producer'.terminalErr # NoErr)
        BY <1>1 DEF FlowInv, TurnsOK
    <2>2. consumer'.at = "submitted" => consumer'.batch = tickets'[Len(tickets')].batch
        <3>1. consumer.at = "submitted" => Len(tickets) \in DOMAIN tickets
            BY InvSession DEF ConsumerOK, SessionTypes
        <3> QED BY <1>1, <3>1 DEF FlowInv, TurnsOK
    <2> QED BY <2>1, <2>2 DEF TurnsOK
<1>6. StreamOK'
    <2>1. \A i \in DOMAIN tickets' : InOrder(added', tickets'[i].batch.records)
        BY DEF FlowInv, StreamOK
    <2>2. \A i, j \in DOMAIN tickets' : i < j => Older(added', TicketRecords(i)', TicketRecords(j)')
        BY <1>2 DEF FlowInv, StreamOK
    <2>3. \A i \in ackWaiters' :
              Older(added', TicketRecords(i)', RecordsOf(consumer'.batch.records))
        BY <1>1, <1>2, InvSession DEF FlowInv, StreamOK, WorkTypes
    <2> QED BY <1>2, <1>3, <2>1, <2>2, <2>3 DEF StreamOK
<1> QED BY <1>4, <1>5, <1>6 DEF FlowInv

(* The oldest batch that is not applied is appended. *)
LEMMA OldestAppends ==
    ASSUME ProducerInv, FlowInv, NoneTwice, NEW i \in DOMAIN tickets, sessionOpen,
           tickets[i].is = "ticket", \A j \in 1 .. i - 1 : tickets[j].is # "ticket",
           log' = log \o tickets[i].batch.records
    PROVE  /\ InOrder(added, log') /\ RecordsOf(log') \subseteq Submitted
           /\ \A j \in DOMAIN tickets :
                 j # i /\ tickets[j].is \in {"submitted", "ticket"} =>
                     Older(added, RecordsOf(log'), TicketRecords(j))
<1>1. /\ SessionTypes /\ DOMAIN tickets = 1 .. Len(tickets) /\ i \in Nat /\ Len(tickets) \in Nat
      /\ log \in Seq(Records)
    BY InvSession DEF SessionTypes
<1>2. tickets[i].batch.records \in Seq(Records)
    <2>1. tickets[i] \in Ticket
        BY <1>1 DEF SessionTypes
    <2> QED BY <2>1 DEF Ticket, Batch
<1>3. RecordsOf(log') = RecordsOf(log) \cup TicketRecords(i)
    BY <1>1, <1>2, RecordsOfSeq DEF TicketRecords
<1>4. InOrder(added, log) /\ InOrder(added, tickets[i].batch.records)
      /\ Older(added, RecordsOf(log), TicketRecords(i)) /\ RecordsOf(log) \subseteq Submitted
    BY DEF FlowInv, StreamOK
<1>5. InOrder(added, log')
    BY <1>1, <1>2, <1>4, OrderAppends DEF TicketRecords
<1>6. RecordsOf(log') \subseteq Submitted
    BY <1>3, <1>4 DEF Submitted
<1>7. ASSUME NEW j \in DOMAIN tickets, j # i, tickets[j].is \in {"submitted", "ticket"}
      PROVE  Older(added, RecordsOf(log'), TicketRecords(j))
    <2>1. i < j
        <3>1. tickets[j].is = "submitted" => j = Len(tickets)
            BY DEF FlowInv, TurnsOK
        <3>2. j \in Nat /\ i <= Len(tickets) /\ 1 <= j
            BY <1>1
        <3>3. tickets[j].is = "ticket" => ~ (j \in 1 .. i - 1)
            OBVIOUS
        <3> QED BY <1>1, <1>7, <3>1, <3>2, <3>3
    <2>2. Older(added, TicketRecords(i), TicketRecords(j)) /\ Older(added, RecordsOf(log), TicketRecords(j))
        BY <1>7, <2>1 DEF FlowInv, StreamOK
    <2> QED BY <1>3, <2>2, OlderSets
<1> QED BY <1>5, <1>6, <1>7

(* One ticket is replaced. *)
LEMMA TicketReplaced ==
    ASSUME tickets \in Seq(Ticket), NEW i \in DOMAIN tickets, NEW t,
           tickets' = [tickets EXCEPT ![i] = t]
    PROVE  /\ DOMAIN tickets' = DOMAIN tickets /\ Len(tickets') = Len(tickets)
           /\ tickets'[i] = t
           /\ \A j \in DOMAIN tickets : j # i => tickets'[j] = tickets[j]
OBVIOUS

(* A batch is appended again: then it is in the stream twice, or the       *)
(* stream did not change.                                                  *)
LEMMA RepeatsAreSeen ==
    ASSUME ProducerInv, NEW i \in DOMAIN tickets, SessionRepeats(i)
    PROVE  /\ RecordsOf(log') = RecordsOf(log) \cup TicketRecords(i)
           /\ NoneTwice' => UNCHANGED log
<1> DEFINE s == tickets[i].batch.records
<1>1. /\ log \in Seq(Records) /\ tickets[i] \in Ticket
    BY InvSession DEF SessionTypes
<1>2. s \in Seq(Records)
    BY <1>1 DEF Ticket, Batch
<1>3. log' = log \o s /\ (NoneTwice => RecordsOf(s) \subseteq RecordsOf(log))
    BY DEF SessionRepeats, Appends
<1> HIDE DEF s
<1>4. RecordsOf(log') = RecordsOf(log) \cup RecordsOf(s)
    BY <1>1, <1>2, <1>3, RecordsOfSeq
<1>5. CASE s = <<>>
    <2>1. log' = log
        BY <1>1, <1>3, <1>5
    <2> QED BY <1>4, <2>1 DEF s, TicketRecords
<1>6. CASE s # <<>>
    <2>1. /\ Len(s) >= 1 /\ 1 \in DOMAIN s /\ s[1] \in RecordsOf(s)
          /\ Len(log) \in Nat /\ Len(log') = Len(log) + Len(s) /\ Len(log) + 1 \in DOMAIN log'
          /\ log'[Len(log) + 1] = s[1]
          /\ \A k \in DOMAIN log : k \in DOMAIN log' /\ log'[k] = log[k] /\ k <= Len(log)
        <3>1. Len(s) \in Nat /\ Len(s) # 0 /\ DOMAIN s = 1 .. Len(s)
            BY <1>2, <1>6
        <3>2. 1 \in DOMAIN s /\ s[1] \in RecordsOf(s)
            BY <3>1 DEF RecordsOf
        <3> QED BY <1>1, <1>2, <1>3, <3>1, <3>2
    <2>2. ASSUME NoneTwice' PROVE FALSE
        <3>1. NoneTwice
            BY <1>1, <2>1, <2>2 DEF NoneTwice
        <3>2. PICK k \in DOMAIN log : log[k] = s[1]
            BY <1>3, <2>1, <3>1 DEF RecordsOf
        <3>3. k \in DOMAIN log' /\ log'[k] = log'[Len(log) + 1] /\ k # Len(log) + 1
            BY <1>1, <2>1, <3>2
        <3> QED BY <2>1, <2>2, <3>3 DEF NoneTwice
    <2> QED BY <1>4, <2>2 DEF s, TicketRecords
<1> QED BY <1>5, <1>6

(* The steps of the session. *)
LEMMA FlowSessionSteps ==
    ASSUME ProducerInv, FlowInv, AddedOK', UNCHANGED added, SessionMoves
    PROVE  FlowInv'
<1>1. /\ SessionTypes /\ tickets \in Seq(Ticket) /\ log \in Seq(Records)
    BY InvSession DEF SessionTypes
<1>2. SessionUnchanged /\ \A i \in DOMAIN tickets : tickets[i] \in Ticket
    <2>1. SessionUnchanged
        BY SessionFrame
    <2>2. \A i \in DOMAIN tickets : tickets[i] \in Ticket
        BY <1>1
    <2> QED BY <2>1, <2>2
<1>3. /\ RecordsOf(log) \subseteq Submitted
      /\ NoneTwice => InOrder(added, log)
      /\ NoneTwice /\ sessionOpen => \A j \in DOMAIN tickets :
            tickets[j].is \in {"submitted", "ticket"} =>
                Older(added, RecordsOf(log), TicketRecords(j))
      /\ \A j \in DOMAIN tickets : /\ tickets[j].is \in {"ticket", "appended"} => sessionOpen
                                   /\ tickets[j].is \in {"rejected", "failed"} => ~ sessionOpen
    BY DEF FlowInv, StreamOK, TurnsOK
<1>4. ASSUME NEW i \in DOMAIN tickets, NEW t, tickets' = [tickets EXCEPT ![i] = t],
             t.batch = tickets[i].batch
      PROVE  /\ DOMAIN tickets' = DOMAIN tickets /\ Len(tickets') = Len(tickets)
             /\ \A j \in DOMAIN tickets : tickets'[j].batch = tickets[j].batch
             /\ tickets'[i].is = t.is
             /\ \A j \in DOMAIN tickets : j # i => tickets'[j].is = tickets[j].is
    BY <1>1, <1>4, TicketReplaced
<1>5. ASSUME NEW i \in DOMAIN tickets, SessionAnswers(i) PROVE FlowInv'
    <2> DEFINE s == IF sessionOpen THEN "ticket" ELSE "rejected"
               t == [tickets[i] EXCEPT !.is = s]
    <2>1. /\ tickets[i].is = "submitted" /\ UNCHANGED <<log, sessionOpen>>
          /\ tickets' = [tickets EXCEPT ![i] = t]
        BY <1>5 DEF SessionAnswers
    <2>2. t.batch = tickets[i].batch /\ t.is = s
        BY <1>2 DEF Ticket
    <2> HIDE DEF t
    <2>3. \A j \in DOMAIN tickets :
              /\ tickets'[j].is = "submitted" => tickets[j].is = "submitted"
              /\ tickets'[j].is \in {"ticket", "appended"} => sessionOpen'
              /\ tickets'[j].is \in {"rejected", "failed"} => ~ sessionOpen'
              /\ tickets'[j].is \in {"submitted", "ticket"} => tickets[j].is \in {"submitted", "ticket"}
        BY <1>3, <1>4, <2>1, <2>2
    <2>4. NoneTwice' <=> NoneTwice
        BY <2>1 DEF NoneTwice
    <2>5. NoneTwice' /\ sessionOpen' => \A j \in DOMAIN tickets :
              tickets'[j].is \in {"submitted", "ticket"} =>
                  Older(added, RecordsOf(log'), TicketRecords(j))
        BY <1>3, <2>1, <2>3, <2>4
    <2> QED BY <1>2, <1>3, <1>4, <2>1, <2>2, <2>3, <2>4, <2>5, FlowSession
<1>6. ASSUME NEW i \in DOMAIN tickets, SessionAppends(i) PROVE FlowInv'
    <2> DEFINE t == [tickets[i] EXCEPT !.is = "appended", !.start = Len(log)]
    <2>1. /\ tickets[i].is = "ticket" /\ \A j \in 1 .. i - 1 : tickets[j].is # "ticket"
          /\ log' = log \o tickets[i].batch.records /\ UNCHANGED sessionOpen
          /\ tickets' = [tickets EXCEPT ![i] = t]
        BY <1>6 DEF SessionAppends, Appends
    <2>2. t.batch = tickets[i].batch /\ t.is = "appended"
        BY <1>2 DEF Ticket
    <2> HIDE DEF t
    <2>3. sessionOpen
        BY <1>3, <2>1
    <2>4. /\ tickets[i].batch.records \in Seq(Records)
          /\ RecordsOf(log') = RecordsOf(log) \cup TicketRecords(i)
        <3>1. tickets[i].batch.records \in Seq(Records)
            BY <1>2 DEF Ticket, Batch
        <3> QED BY <1>1, <2>1, <3>1, RecordsOfSeq DEF TicketRecords
    <2>5. RecordsOf(log') \subseteq Submitted
        BY <1>3, <2>4 DEF Submitted
    <2>6. NoneTwice' => NoneTwice
        <3>1. \A k \in DOMAIN log : k \in DOMAIN log' /\ log'[k] = log[k]
            BY <1>1, <2>1, <2>4
        <3> QED BY <3>1 DEF NoneTwice
    <2>7. NoneTwice' =>
              /\ InOrder(added, log')
              /\ \A j \in DOMAIN tickets :
                    j # i /\ tickets[j].is \in {"submitted", "ticket"} =>
                        Older(added, RecordsOf(log'), TicketRecords(j))
        BY <2>1, <2>3, <2>6, OldestAppends
    <2>8. \A j \in DOMAIN tickets :
              /\ tickets'[j].is = "submitted" => tickets[j].is = "submitted"
              /\ tickets'[j].is \in {"ticket", "appended"} => sessionOpen'
              /\ tickets'[j].is \in {"rejected", "failed"} => ~ sessionOpen'
              /\ tickets'[j].is \in {"submitted", "ticket"} =>
                    j # i /\ tickets[j].is \in {"submitted", "ticket"}
        BY <1>3, <1>4, <2>1, <2>2, <2>3
    <2>9. NoneTwice' /\ sessionOpen' => \A j \in DOMAIN tickets :
              tickets'[j].is \in {"submitted", "ticket"} =>
                  Older(added, RecordsOf(log'), TicketRecords(j))
        BY <2>7, <2>8
    <2> QED BY <1>2, <1>4, <2>1, <2>2, <2>5, <2>7, <2>8, <2>9, FlowSession
<1>7. ASSUME NEW i \in DOMAIN tickets, SessionAcks(i) PROVE FlowInv'
    <2>1. PICK start \in 0 .. Len(log) :
              tickets' = [tickets EXCEPT ![i].is = "acked", ![i].start = start]
        BY <1>7 DEF SessionAcks
    <2> DEFINE t == [tickets[i] EXCEPT !.is = "acked", !.start = start]
    <2>2. /\ tickets' = [tickets EXCEPT ![i] = t] /\ UNCHANGED <<log, sessionOpen>>
        BY <1>7, <2>1 DEF SessionAcks
    <2>3. t.batch = tickets[i].batch /\ t.is = "acked"
        BY <1>2 DEF Ticket
    <2> HIDE DEF t
    <2>4. \A j \in DOMAIN tickets :
              /\ tickets'[j].is = "submitted" => tickets[j].is = "submitted"
              /\ tickets'[j].is \in {"ticket", "appended"} => sessionOpen'
              /\ tickets'[j].is \in {"rejected", "failed"} => ~ sessionOpen'
              /\ tickets'[j].is \in {"submitted", "ticket"} => tickets[j].is \in {"submitted", "ticket"}
        BY <1>3, <1>4, <2>2, <2>3
    <2>5. NoneTwice' <=> NoneTwice
        BY <2>2 DEF NoneTwice
    <2>6. NoneTwice' /\ sessionOpen' => \A j \in DOMAIN tickets :
              tickets'[j].is \in {"submitted", "ticket"} =>
                  Older(added, RecordsOf(log'), TicketRecords(j))
        BY <1>3, <2>2, <2>4, <2>5
    <2> QED BY <1>2, <1>3, <1>4, <2>2, <2>3, <2>4, <2>5, <2>6, FlowSession
<1>8. CASE SessionFails
    <2>1. /\ sessionOpen /\ sessionOpen' = FALSE /\ UNCHANGED log
          /\ tickets' = [i \in DOMAIN tickets |->
                            IF Open(i) THEN [tickets[i] EXCEPT !.is = "failed"] ELSE tickets[i]]
        BY <1>8 DEF SessionFails
    <2>2. /\ DOMAIN tickets' = DOMAIN tickets /\ Len(tickets') = Len(tickets)
          /\ \A j \in DOMAIN tickets : /\ tickets'[j].batch = tickets[j].batch
                                       /\ tickets'[j].is = IF Open(j) THEN "failed"
                                                           ELSE tickets[j].is
        BY <1>1, <2>1 DEF Ticket
    <2>3. NoneTwice' <=> NoneTwice
        BY <2>1 DEF NoneTwice
    <2>4. \A j \in DOMAIN tickets :
              /\ tickets'[j].is = "submitted" => tickets[j].is = "submitted"
              /\ tickets'[j].is \notin {"ticket", "appended"}
        BY <2>2 DEF Open
    <2> QED BY <1>2, <1>3, <2>1, <2>2, <2>3, <2>4, FlowSession
<1>9. ASSUME NEW i \in DOMAIN tickets, SessionRepeats(i) PROVE FlowInv'
    <2>1. /\ RecordsOf(log') = RecordsOf(log) \cup TicketRecords(i)
          /\ NoneTwice' => UNCHANGED log
        BY <1>9, RepeatsAreSeen
    <2>2. UNCHANGED <<tickets, sessionOpen>>
        BY <1>9 DEF SessionRepeats
    <2>3. RecordsOf(log') \subseteq Submitted
        BY <1>3, <2>1 DEF Submitted
    <2>4. NoneTwice' => NoneTwice /\ UNCHANGED log
        BY <2>1 DEF NoneTwice
    <2>5. /\ NoneTwice' => InOrder(added, log')
          /\ NoneTwice' /\ sessionOpen' => \A j \in DOMAIN tickets :
                tickets'[j].is \in {"submitted", "ticket"} =>
                    Older(added, RecordsOf(log'), TicketRecords(j))
        BY <1>3, <2>2, <2>4
    <2> QED BY <1>2, <1>3, <2>2, <2>3, <2>5, FlowSession
<1> QED BY <1>5, <1>6, <1>7, <1>8, <1>9 DEF SessionMoves, SessionStep

(* None of them changes a batch, and no ticket is closed twice. *)
LEMMA SessionKeepsBatches ==
    ASSUME SessionTypes, SessionMoves
    PROVE  /\ DOMAIN tickets' = DOMAIN tickets /\ Len(tickets') = Len(tickets)
           /\ \A i \in DOMAIN tickets : tickets'[i].batch = tickets[i].batch
<1>1. tickets \in Seq(Ticket) /\ \A i \in DOMAIN tickets : tickets[i] \in Ticket
    BY DEF SessionTypes
<1>2. ASSUME NEW i \in DOMAIN tickets, NEW t, tickets' = [tickets EXCEPT ![i] = t],
             t.batch = tickets[i].batch
      PROVE  /\ DOMAIN tickets' = DOMAIN tickets /\ Len(tickets') = Len(tickets)
             /\ \A j \in DOMAIN tickets : tickets'[j].batch = tickets[j].batch
    BY <1>1, <1>2, TicketReplaced
<1>3. ASSUME NEW i \in DOMAIN tickets, SessionAnswers(i)
      PROVE  /\ DOMAIN tickets' = DOMAIN tickets /\ Len(tickets') = Len(tickets)
             /\ \A j \in DOMAIN tickets : tickets'[j].batch = tickets[j].batch
    <2> DEFINE s == IF sessionOpen THEN "ticket" ELSE "rejected"
               t == [tickets[i] EXCEPT !.is = s]
    <2>1. tickets' = [tickets EXCEPT ![i] = t]
        BY <1>3 DEF SessionAnswers
    <2>2. t.batch = tickets[i].batch
        BY <1>1 DEF Ticket
    <2> QED BY <1>2, <2>1, <2>2
<1>4. ASSUME NEW i \in DOMAIN tickets, SessionAppends(i) \/ SessionAcks(i)
      PROVE  /\ DOMAIN tickets' = DOMAIN tickets /\ Len(tickets') = Len(tickets)
             /\ \A j \in DOMAIN tickets : tickets'[j].batch = tickets[j].batch
    <2>1. PICK is, start : tickets' = [tickets EXCEPT ![i].is = is, ![i].start = start]
        BY <1>4 DEF SessionAppends, SessionAcks
    <2> DEFINE t == [tickets[i] EXCEPT !.is = is, !.start = start]
    <2>2. tickets' = [tickets EXCEPT ![i] = t]
        BY <2>1
    <2>3. t.batch = tickets[i].batch
        BY <1>1 DEF Ticket
    <2> QED BY <1>2, <2>2, <2>3
<1>5. CASE SessionFails
    <2>1. tickets' = [i \in DOMAIN tickets |->
                         IF Open(i) THEN [tickets[i] EXCEPT !.is = "failed"] ELSE tickets[i]]
        BY <1>5 DEF SessionFails
    <2> QED BY <1>1, <2>1 DEF Ticket
<1>6. ASSUME NEW i \in DOMAIN tickets, SessionRepeats(i) PROVE UNCHANGED tickets
    BY <1>6 DEF SessionRepeats
<1> QED BY <1>3, <1>4, <1>5, <1>6 DEF SessionMoves, SessionStep

(* At the start nothing has entered. *)
LEMMA FlowInit ==
    ASSUME Init
    PROVE  FlowInv
<1>1. /\ added = <<>> /\ tickets = <<>> /\ log = <<>> /\ ackWaiters = {}
      /\ consumer = [at |-> "receive", batch |-> NoBatch, who |-> "nobody"]
      /\ batcher = NewBatcher /\ pc = [r \in Records |-> "idle"]
    BY DEF Init
<1>2. /\ DOMAIN added = {} /\ DOMAIN tickets = {} /\ DOMAIN log = {} /\ RecordsOf(added) = {}
      /\ RecordsOf(log) = {} /\ consumer.at = "receive" /\ RecordsOf(consumer.batch.records) = {}
    BY <1>1, RecordsOfSeq DEF NoBatch
<1>3. /\ batcher.buffer = <<>> /\ batcher.out.records = <<>> /\ batcher.ch = <<>>
      /\ batcher.mu = Free
    BY <1>1 DEF NewBatcher, NoBatch
<1>4. InBatcher(batcher) = {} /\ Channel(batcher.ch) = {} /\ Received = {}
    BY <1>2, <1>3, RecordsOfSeq DEF InBatcher, Channel, Received, Submitted
<1>5. AddedOK
    BY <1>1, <1>2, <1>3, HolderNames DEF AddedOK, Once
<1>6. LineOK(batcher, added, Received)
    <2>1. /\ \A S : Older(added, {}, S)
          /\ \A S : Older(added, S, {})
        BY OlderSets
    <2>2. InOrder(added, batcher.buffer) /\ InOrder(added, batcher.out.records)
        BY <1>3 DEF InOrder
    <2>3. RecordsOf(batcher.buffer) = {} /\ DOMAIN batcher.ch = {}
        BY <1>3, RecordsOfSeq
    <2>4. /\ Older(added, RecordsOf(batcher.out.records), RecordsOf(batcher.buffer))
          /\ Older(added, Channel(batcher.ch), InBatcher(batcher))
          /\ Older(added, Received, Channel(batcher.ch) \cup InBatcher(batcher))
        BY <1>4, <2>1, <2>3
    <2>5. InBatcher(batcher) \cup Channel(batcher.ch) \cup Received \subseteq RecordsOf(added)
        BY <1>4
    <2> QED BY <2>2, <2>3, <2>4, <2>5 DEF LineOK
<1>7. TurnsOK
    BY <1>2 DEF TurnsOK
<1>8. StreamOK
    BY <1>1, <1>2 DEF StreamOK, InOrder
<1> QED BY <1>5, <1>6, <1>7, <1>8 DEF FlowInv

(* Every step keeps the order. *)
LEMMA FlowKeeps ==
    ASSUME ProducerInv, FlowInv, [Next]_<<vars, setup>>
    PROVE  FlowInv'
<1>1. AddedOK
    BY DEF FlowInv
<1>2. StepKind
    BY <1>1, StepKinds
<1>3. ASSUME Quiet, AddedOK' PROVE FlowInv'
    BY <1>3, FlowQuiet
<1>4. ASSUME NEW r \in Records, Entering(r) PROVE FlowInv'
    BY <1>4, FlowEnters
<1>5. ASSUME NEW f \in Flushes, BarrierSent(f) PROVE FlowInv'
    BY <1>5, FlowBarrier
<1>6. CASE WorkStep
    <2>1. /\ AddedOK' /\ UNCHANGED added
          /\ producer.terminalErr # NoErr => producer'.terminalErr # NoErr
        BY <1>1, <1>6, WorkFields
    <2>2. CASE SendBatch \/ DropBatch
        BY <2>1, <2>2, FlowSelect
    <2>3. CASE \/ FailBatch \/ ReachBarrier \/ ConsumerDrains
               \/ \E i \in DOMAIN tickets : AwaitAck(i)
        BY <2>1, <2>3, FlowIdles
    <2>4. CASE AwaitSubmission
        BY <2>1, <2>4, FlowAwaits
    <2>5. CASE Receive
        BY <2>1, <2>5, FlowReceives
    <2>6. CASE SessionMoves
        BY <2>1, <2>6, FlowSessionSteps
    <2> QED BY <1>6, <2>2, <2>3, <2>4, <2>5, <2>6, Zenon DEF WorkStep, ConsumerStep
<1> QED BY <1>2, <1>3, <1>4, <1>5, <1>6 DEF StepKind, Background, Calm

(* The records keep their order on the whole way. *)
THEOREM OrderInvariant == Spec => [](ProducerInv /\ FlowInv)
<1>1. Init => ProducerInv /\ FlowInv
    BY InitKeeps, FlowInit
<1>2. ProducerInv /\ FlowInv /\ [Next]_<<vars, setup>> => (ProducerInv /\ FlowInv)'
    BY StepKeeps, StutterKeeps, FlowKeeps DEF Next
<1> QED BY <1>1, <1>2, PTL DEF Spec

-----------------------------------------------------------------------------
(* What becomes of the records.                                            *)

(* The meta of a batch names exactly its records with a result channel.    *)
FullMeta(records, meta) == MetaRecords(meta) = RecordsOf(records) \cap Watched
FullBatch(o) == FullMeta(o.records, o.meta) /\ o.records # <<>>

BatcherFull(b) ==
    /\ FullMeta(b.buffer, b.meta)
    /\ b.out = NoBatch \/ FullBatch(b.out)
    /\ \A i \in DOMAIN b.ch : ~ IsBarrier(b.ch[i]) => FullBatch(b.ch[i])

(* No batch is empty, and the consumer holds one only while it deals with  *)
(* it.                                                                     *)
MetaOK ==
    /\ BatcherFull(batcher)
    /\ \A i \in DOMAIN tickets : FullBatch(tickets[i].batch)
    /\ IF consumer.at \in {"submitted", "failing"} THEN FullBatch(consumer.batch)
       ELSE consumer.batch = NoBatch

(* A record enters the buffer together with its recordMeta, if it has a    *)
(* result channel.                                                         *)
LEMMA MetaGrows ==
    ASSUME NEW b \in BatcherType, NEW r \in Records, BatcherFull(b)
    PROVE  BatcherFull(Buffered(b, r))
<1> DEFINE c == Buffered(b, r)
           m == [record |-> r, index |-> Len(b.buffer)]
<1>1. /\ c.buffer = Append(b.buffer, r) /\ c.out = b.out /\ c.ch = b.ch
      /\ c.meta = IF r \in Watched THEN Append(b.meta, m) ELSE b.meta
    BY BufferedFields
<1>2. m.record = r
    OBVIOUS
<1> HIDE DEF c, m
<1>3. RecordsOf(c.buffer) = RecordsOf(b.buffer) \cup {r}
    BY <1>1, LineTypes, RecordsOfSeq
<1>4. r \in Watched => MetaRecords(c.meta) = MetaRecords(b.meta) \cup {r}
    <2> SUFFICES ASSUME r \in Watched PROVE MetaRecords(c.meta) = MetaRecords(b.meta) \cup {r}
        OBVIOUS
    <2>1. b.meta \in Seq(Metas)
        BY LineTypes
    <2>2. c.meta = Append(b.meta, m)
        BY <1>1
    <2>3. /\ \A k \in DOMAIN c.meta : (k \in DOMAIN b.meta /\ c.meta[k] = b.meta[k]) \/ c.meta[k] = m
          /\ \A k \in DOMAIN b.meta : k \in DOMAIN c.meta /\ c.meta[k] = b.meta[k]
          /\ Len(b.meta) + 1 \in DOMAIN c.meta /\ c.meta[Len(b.meta) + 1] = m
        BY <2>1, <2>2
    <2>4. ASSUME NEW x \in MetaRecords(c.meta) PROVE x \in MetaRecords(b.meta) \cup {r}
        BY <1>2, <2>3, <2>4 DEF MetaRecords
    <2>5. ASSUME NEW x \in MetaRecords(b.meta) \cup {r} PROVE x \in MetaRecords(c.meta)
        BY <1>2, <2>3, <2>5 DEF MetaRecords
    <2> QED BY <2>4, <2>5
<1>5. FullMeta(c.buffer, c.meta)
    BY <1>1, <1>3, <1>4 DEF BatcherFull, FullMeta
<1>6. BatcherFull(c)
    BY <1>1, <1>5 DEF BatcherFull
<1> QED BY <1>6 DEF c

(* The buffer becomes the batch to send with its meta.                     *)
LEMMA MetaMoves ==
    ASSUME NEW b, NEW c, SameLine(b, c) \/ FlushLine(b, c), BatcherFull(b)
    PROVE  BatcherFull(c)
<1>1. MetaRecords(<<>>) = {} /\ RecordsOf(<<>>) = {}
    BY RecordsOfSeq DEF MetaRecords
<1>2. CASE SameLine(b, c)
    BY <1>2 DEF SameLine, BatcherFull
<1>3. CASE FlushLine(b, c)
    <2>1. c.out.records = b.buffer /\ c.out.meta = b.meta /\ c.buffer = <<>> /\ c.meta = <<>>
          /\ c.ch = b.ch /\ b.buffer # <<>>
        BY <1>3 DEF FlushLine
    <2> QED BY <1>1, <2>1 DEF BatcherFull, FullBatch, FullMeta
<1> QED BY <1>2, <1>3

(* The batches of a channel with one more, or one less. *)
LEMMA ChannelFull ==
    ASSUME NEW ch \in Seq(Outputs), \A i \in DOMAIN ch : ~ IsBarrier(ch[i]) => FullBatch(ch[i])
    PROVE  /\ \A o \in Outputs : IsBarrier(o) \/ FullBatch(o) =>
                  \A i \in DOMAIN Append(ch, o) :
                      ~ IsBarrier(Append(ch, o)[i]) => FullBatch(Append(ch, o)[i])
           /\ ch # <<>> =>
                 /\ ~ IsBarrier(Head(ch)) => FullBatch(Head(ch))
                 /\ \A i \in DOMAIN Tail(ch) : ~ IsBarrier(Tail(ch)[i]) => FullBatch(Tail(ch)[i])
<1>1. ASSUME NEW o \in Outputs, IsBarrier(o) \/ FullBatch(o),
             NEW i \in DOMAIN Append(ch, o), ~ IsBarrier(Append(ch, o)[i])
      PROVE  FullBatch(Append(ch, o)[i])
    <2>1. (i \in DOMAIN ch /\ Append(ch, o)[i] = ch[i]) \/ Append(ch, o)[i] = o
        OBVIOUS
    <2> QED BY <1>1, <2>1
<1>2. ASSUME ch # <<>>
      PROVE  /\ ~ IsBarrier(Head(ch)) => FullBatch(Head(ch))
             /\ \A i \in DOMAIN Tail(ch) : ~ IsBarrier(Tail(ch)[i]) => FullBatch(Tail(ch)[i])
    <2>1. /\ 1 \in DOMAIN ch /\ Head(ch) = ch[1]
          /\ \A i \in DOMAIN Tail(ch) : i + 1 \in DOMAIN ch /\ Tail(ch)[i] = ch[i + 1]
        BY <1>2
    <2> QED BY <2>1
<1> QED BY <1>1, <1>2

(* Every step keeps the batches full. *)
LEMMA MetaWork ==
    ASSUME ProducerInv, FlowInv, MetaOK, WorkStep
    PROVE  MetaOK'
<1>1. /\ batcher \in BatcherType /\ WorkTypes /\ SessionTypes
      /\ batcher.ch \in Seq(Outputs) /\ batcher.out \in Outputs
    BY InvFacts, InvSession, LineTypes DEF Outputs
<1>2. BatcherFull(batcher)
    BY DEF MetaOK
<1>3. CASE SendBatch \/ DropBatch
    <2>1. batcher' \in {Sent(batcher), Dropped(batcher)} /\ UNCHANGED <<workVars, sessionVars>>
          /\ batcher.out # NoBatch
        BY <1>3 DEF SendBatch, DropBatch, Sending
    <2>2. /\ batcher'.out = NoBatch /\ batcher'.buffer = batcher.buffer
          /\ batcher'.meta = batcher.meta
          /\ batcher'.ch = Append(batcher.ch, batcher.out) \/ batcher'.ch = batcher.ch
        BY <1>1, <2>1, SelectFields
    <2>3. \A i \in DOMAIN batcher'.ch : ~ IsBarrier(batcher'.ch[i]) => FullBatch(batcher'.ch[i])
        BY <1>1, <1>2, <2>1, <2>2, ChannelFull DEF BatcherFull
    <2>4. BatcherFull(batcher')
        BY <1>2, <2>2, <2>3 DEF BatcherFull
    <2> QED BY <2>1, <2>4 DEF MetaOK, workVars, sessionVars
<1>4. CASE Receive
    <2> DEFINE o == Head(batcher.ch)
    <2>1. /\ batcher.ch # <<>> /\ consumer.at = "receive"
          /\ batcher' = [batcher EXCEPT !.ch = Tail(@)]
        BY <1>4 DEF Receive
    <2>2. /\ batcher'.ch = Tail(batcher.ch) /\ batcher'.out = batcher.out
          /\ batcher'.buffer = batcher.buffer /\ batcher'.meta = batcher.meta
        BY <1>1, <2>1, TakenFields
    <2>3. /\ \A i \in DOMAIN batcher'.ch : ~ IsBarrier(batcher'.ch[i]) => FullBatch(batcher'.ch[i])
          /\ ~ IsBarrier(o) => FullBatch(o)
        BY <1>1, <1>2, <2>1, <2>2, ChannelFull DEF BatcherFull
    <2>4. BatcherFull(batcher')
        BY <1>2, <2>2, <2>3 DEF BatcherFull
    <2>5. /\ IF consumer'.at \in {"submitted", "failing"} THEN FullBatch(consumer'.batch)
             ELSE consumer'.batch = NoBatch
          /\ \A i \in DOMAIN tickets' : FullBatch(tickets'[i].batch)
        <3>1. CASE IsBarrier(o)
            BY <1>4, <3>1 DEF Receive, ReceiveAt, MetaOK, sessionVars
        <3>2. CASE ~ IsBarrier(o) /\ producer.terminalErr # NoErr
            BY <1>4, <2>1, <3>2 DEF Receive, MetaOK, sessionVars
        <3>3. CASE ~ IsBarrier(o) /\ producer.terminalErr = NoErr /\ ~ sessionOpen
            BY <1>4, <2>3, <3>3 DEF Receive, ReceiveAt, MetaOK, sessionVars
        <3>4. CASE ~ IsBarrier(o) /\ producer.terminalErr = NoErr /\ sessionOpen
            <4> DEFINE t == [batch |-> o, start |-> 0, is |-> "submitted"]
            <4>1. tickets' = Append(tickets, t) /\ ReceiveAt("submitted", o, "nobody")
                BY <1>4, <3>4 DEF Receive
            <4>2. t.batch = o
                OBVIOUS
            <4> HIDE DEF t
            <4>3. \A i \in DOMAIN tickets' : (i \in DOMAIN tickets /\ tickets'[i] = tickets[i])
                                             \/ tickets'[i] = t
                BY <1>1, <4>1 DEF SessionTypes
            <4> QED BY <2>3, <3>4, <4>1, <4>2, <4>3 DEF ReceiveAt, MetaOK
        <3> QED BY <3>1, <3>2, <3>3, <3>4
    <2> QED BY <2>4, <2>5 DEF MetaOK
<1>5. CASE \/ AwaitSubmission \/ FailBatch \/ ReachBarrier \/ ConsumerDrains
           \/ \E i \in DOMAIN tickets : AwaitAck(i)
    <2>1. UNCHANGED batcher /\ UNCHANGED tickets
        BY <1>5 DEF AwaitSubmission, FailBatch, ReachBarrier, ConsumerDrains, AwaitAck, sessionVars
    <2>2. \/ UNCHANGED consumer
          \/ consumer'.at \notin {"submitted", "failing"} /\ consumer'.batch = NoBatch
          \/ consumer.at = "submitted" /\ consumer' = [consumer EXCEPT !.at = "failing"]
        <3>1. CASE AwaitSubmission
            <4>1. Receiving \/ (consumer.at = "submitted" /\ consumer' = [consumer EXCEPT !.at = "failing"])
                BY <3>1 DEF AwaitSubmission
            <4> QED BY <4>1 DEF Receiving, ReceiveAt
        <3>2. CASE \E i \in DOMAIN tickets : AwaitAck(i)
            BY <3>2 DEF AwaitAck
        <3>3. CASE FailBatch \/ ReachBarrier \/ ConsumerDrains
            BY <3>3 DEF FailBatch, ReachBarrier, ConsumerDrains, Receiving, ReceiveAt
        <3> QED BY <1>5, <3>1, <3>2, <3>3
    <2>3. CASE consumer.at = "submitted" /\ consumer' = [consumer EXCEPT !.at = "failing"]
        <3>1. consumer'.at = "failing" /\ consumer'.batch = consumer.batch
            BY <1>1, <2>3 DEF WorkTypes
        <3> QED BY <2>1, <2>3, <3>1 DEF MetaOK
    <2> QED BY <2>1, <2>2, <2>3 DEF MetaOK
<1>6. CASE SessionMoves
    <2>1. UNCHANGED <<batcher, consumer>>
        BY <1>6, SessionFrame DEF SessionUnchanged, workVars
    <2>2. DOMAIN tickets' = DOMAIN tickets
          /\ \A i \in DOMAIN tickets : tickets'[i].batch = tickets[i].batch
        BY <1>1, <1>6, SessionKeepsBatches
    <2> QED BY <2>1, <2>2 DEF MetaOK
<1> QED BY <1>3, <1>4, <1>5, <1>6 DEF WorkStep, ConsumerStep

(* Every step keeps records and their meta together.                       *)
LEMMA MetaKeeps ==
    ASSUME ProducerInv, FlowInv, MetaOK, [Next]_<<vars, setup>>
    PROVE  MetaOK'
<1>1. StepKind
    BY StepKinds DEF FlowInv
<1>2. ASSUME UNCHANGED <<workVars, sessionVars>>, BatcherFull(batcher') PROVE MetaOK'
    BY <1>2 DEF MetaOK, workVars, sessionVars
<1>3. ASSUME Quiet PROVE MetaOK'
    <2>1. BatcherFull(batcher')
        BY <1>3, MetaMoves DEF Quiet, Moved, MetaOK
    <2> QED BY <1>2, <1>3, <2>1 DEF Quiet
<1>4. ASSUME NEW r \in Records, Entering(r) PROVE MetaOK'
    <2>1. BatcherFull(Buffered(batcher, r))
        BY InvFacts, MetaGrows DEF MetaOK
    <2>2. BatcherFull(batcher')
        BY <1>4, <2>1, MetaMoves DEF Entering, Moved
    <2> QED BY <1>2, <1>4, <2>2 DEF Entering
<1>5. ASSUME NEW f \in Flushes, BarrierSent(f) PROVE MetaOK'
    <2> DEFINE o == [barrier |-> f]
    <2>1. batcher.ch \in Seq(Outputs) /\ o \in Outputs /\ IsBarrier(o)
        BY InvFacts, LineTypes, BatchShape
    <2>2. /\ batcher'.ch = Append(batcher.ch, o) /\ batcher'.buffer = batcher.buffer
          /\ batcher'.meta = batcher.meta /\ batcher'.out = batcher.out
          /\ UNCHANGED <<workVars, sessionVars>>
        BY <1>5 DEF BarrierSent
    <2> HIDE DEF o
    <2>3. \A i \in DOMAIN batcher'.ch : ~ IsBarrier(batcher'.ch[i]) => FullBatch(batcher'.ch[i])
        BY <2>1, <2>2, ChannelFull DEF BatcherFull, MetaOK
    <2>4. BatcherFull(batcher')
        BY <2>2, <2>3 DEF BatcherFull, MetaOK
    <2> QED BY <1>2, <2>2, <2>4
<1> QED BY <1>1, <1>3, <1>4, <1>5, MetaWork DEF StepKind, Background, Calm

(* The records that wait for their outcome: in the batcher, in the         *)
(* channel, with the consumer, or with a waiter.                           *)
WithConsumer == RecordsOf(consumer.batch.records) \cup UNION {TicketRecords(i) : i \in ackWaiters}
Pending == InBatcher(batcher) \cup Channel(batcher.ch) \cup WithConsumer

(* A batch fails when the producer has, or when the batcher's context has  *)
(* ended: both are remembered.                                             *)
FailureKnown ==
    \/ producer.terminalErr # NoErr /\ producer.appendErr # NoErr
    \/ batcher.ctx /\ batcher.closeErr # NoErr

(* Exactly the records that wait are unresolved. *)
OutcomesOK ==
    /\ \A r \in RecordsOf(added) \cap Watched : outcome[r] = Unresolved <=> r \in Pending
    /\ \A r \in Records : outcome[r] # Unresolved => r \in RecordsOf(added)
    /\ \A r \in Records : outcome[r].is = "failed" => FailureKnown

(* Nothing is resolved. *)
LEMMA OutcomesStay ==
    ASSUME OutcomesOK, UNCHANGED <<added, outcome>>, Pending' = Pending,
           FailureKnown => FailureKnown'
    PROVE  OutcomesOK'
BY DEF OutcomesOK

(* A batch S is resolved, which was waiting and waits no more. *)
LEMMA OutcomesResolve ==
    ASSUME ProducerInv, OutcomesOK, UNCHANGED added,
           NEW records, NEW meta, FullMeta(records, meta),
           NEW results, outcome' = Resolved(meta, results),
           \A k \in DOMAIN meta : results[k] \in Outcomes /\ results[k] # Unresolved,
           RecordsOf(records) \subseteq Pending, Pending \subseteq RecordsOf(added),
           Pending' \subseteq Pending, Pending \subseteq Pending' \cup RecordsOf(records),
           RecordsOf(records) \cap Pending' = {},
           FailureKnown => FailureKnown',
           FailureKnown' \/ \A k \in DOMAIN meta : results[k].is # "failed"
    PROVE  OutcomesOK'
<1>1. /\ outcome \in [Records -> Outcomes] /\ outcome' \in [Records -> Outcomes]
      /\ \A r \in Records :
            /\ outcome'[r] = Unresolved <=> outcome[r] = Unresolved /\ r \notin MetaRecords(meta)
            /\ \/ outcome'[r] = outcome[r]
               \/ \E k \in DOMAIN meta : meta[k].record = r /\ outcome'[r] = results[k]
    BY InvSession, ResolvedFields
<1>2. MetaRecords(meta) = RecordsOf(records) \cap Watched
    BY DEF FullMeta
<1>3. RecordsOf(added) \subseteq Records
    BY InvFacts, RecordsOfSeq DEF TypeOK
<1>4. ASSUME NEW r \in RecordsOf(added) \cap Watched
      PROVE  outcome'[r] = Unresolved <=> r \in Pending'
    <2>1. r \in Records /\ (outcome[r] = Unresolved <=> r \in Pending)
        BY <1>3 DEF OutcomesOK
    <2> QED BY <1>1, <1>2, <2>1
<1>5. ASSUME NEW r \in Records, outcome'[r] # Unresolved PROVE r \in RecordsOf(added)
    BY <1>1, <1>2, <1>5 DEF OutcomesOK
<1>6. ASSUME NEW r \in Records, outcome'[r].is = "failed" PROVE FailureKnown'
    BY <1>1, <1>6 DEF OutcomesOK
<1> QED BY <1>4, <1>5, <1>6 DEF OutcomesOK

(* A known failure stays known. *)
LEMMA FailureStays ==
    ASSUME ProducerInv, FlowInv, StepKind, FailureKnown
    PROVE  FailureKnown'
<1>1. CASE WorkStep
    <2>1. /\ batcher'.ctx = batcher.ctx
          /\ producer.terminalErr # NoErr => producer'.terminalErr # NoErr
          /\ producer.appendErr # NoErr => producer'.appendErr # NoErr
        BY <1>1, WorkFields DEF FlowInv
    <2>2. batcher.closeErr # NoErr => batcher'.closeErr # NoErr
        <3>1. \/ UNCHANGED batcher
              \/ batcher' \in {Sent(batcher), Dropped(batcher)}
              \/ batcher' = [batcher EXCEPT !.ch = Tail(@)]
            BY <1>1, SessionFrame DEF WorkStep, SendBatch, DropBatch, ConsumerStep, Receive,
                                      AwaitSubmission,
                   FailBatch, ReachBarrier, ConsumerDrains, AwaitAck, SessionUnchanged
        <3> QED BY <3>1, InvFacts, SelectFields, TakenFields
    <2> QED BY <2>1, <2>2 DEF FailureKnown
<1>2. CASE Quiet
    BY <1>2 DEF Quiet, Moved, Kept, FailureKnown
<1>3. ASSUME NEW f \in Flushes, BarrierSent(f) PROVE FailureKnown'
    BY <1>3 DEF BarrierSent, FailureKnown
<1>4. ASSUME NEW r \in Records, Entering(r) PROVE FailureKnown'
    <2>1. Buffered(batcher, r).ctx = batcher.ctx /\ Buffered(batcher, r).closeErr = batcher.closeErr
        BY InvFacts DEF Buffered, BatcherType
    <2> QED BY <1>4, <2>1 DEF Entering, Moved, FailureKnown
<1> QED BY <1>1, <1>2, <1>3, <1>4 DEF StepKind, Background, Calm

(* The records of different places are different.                          *)
LEMMA PlacesApart ==
    ASSUME ProducerInv, FlowInv
    PROVE  /\ WithConsumer \subseteq Received /\ Pending \subseteq RecordsOf(added)
           /\ Received \cap (Channel(batcher.ch) \cup InBatcher(batcher)) = {}
           /\ Channel(batcher.ch) \cap InBatcher(batcher) = {}
           /\ RecordsOf(batcher.out.records) \cap RecordsOf(batcher.buffer) = {}
           /\ \A i, j \in DOMAIN tickets : i # j => TicketRecords(i) \cap TicketRecords(j) = {}
           /\ \A i \in ackWaiters : TicketRecords(i) \cap RecordsOf(consumer.batch.records) = {}
<1>1. added \in Seq(Records) /\ Once(added) /\ LineOK(batcher, added, Received)
    BY InvFacts DEF TypeOK, FlowInv, AddedOK
<1>2. WithConsumer \subseteq Received
    BY InvSession DEF WithConsumer, Received, Submitted, WorkTypes
<1>3. Pending \subseteq RecordsOf(added)
    BY <1>1, <1>2 DEF Pending, LineOK
<1>4. /\ Received \cap (Channel(batcher.ch) \cup InBatcher(batcher)) = {}
      /\ Channel(batcher.ch) \cap InBatcher(batcher) = {}
      /\ RecordsOf(batcher.out.records) \cap RecordsOf(batcher.buffer) = {}
    BY <1>1, OlderApart DEF LineOK
<1>5. ASSUME NEW i \in DOMAIN tickets, NEW j \in DOMAIN tickets, i # j
      PROVE  TicketRecords(i) \cap TicketRecords(j) = {}
    <2>1. i < j \/ j < i
        BY <1>5, InvSession DEF SessionTypes
    <2>2. Older(added, TicketRecords(i), TicketRecords(j)) \/ Older(added, TicketRecords(j), TicketRecords(i))
        BY <2>1 DEF FlowInv, StreamOK
    <2> QED BY <1>1, <2>2, OlderApart
<1>6. \A i \in ackWaiters : TicketRecords(i) \cap RecordsOf(consumer.batch.records) = {}
    BY <1>1, OlderApart DEF FlowInv, StreamOK
<1> QED BY <1>2, <1>3, <1>4, <1>5, <1>6

(* Neither the consumer nor its waiters change what they hold. *)
LEMMA WithConsumerStays ==
    ASSUME UNCHANGED workVars, \A i \in ackWaiters : tickets'[i].batch = tickets[i].batch
    PROVE  WithConsumer' = WithConsumer
BY DEF WithConsumer, workVars, TicketRecords

(* The steps that resolve nothing, but for those of WorkStep. *)
LEMMA OutcomesQuiet ==
    ASSUME ProducerInv, FlowInv, OutcomesOK, StepKind,
           Quiet \/ \E f \in Flushes : BarrierSent(f)
    PROVE  OutcomesOK'
<1>1. FailureKnown => FailureKnown'
    BY FailureStays
<1>2. LineOK(batcher, added, Received)
    BY DEF FlowInv
<1>3. CASE Quiet
    <2>1. UNCHANGED <<added, outcome, workVars, tickets>> /\ Moved(batcher, batcher')
        BY <1>3 DEF Quiet, sessionVars
    <2>2. WithConsumer' = WithConsumer
        BY <2>1, WithConsumerStays
    <2>3. InBatcher(batcher') = InBatcher(batcher) /\ Channel(batcher'.ch) = Channel(batcher.ch)
        <3>1. CASE SameLine(batcher, batcher')
            BY <3>1 DEF SameLine, InBatcher
        <3>2. CASE FlushLine(batcher, batcher')
            BY <1>2, <3>2, LineFlushes DEF FlushLine
        <3> QED BY <2>1, <3>1, <3>2 DEF Moved
    <2>4. Pending' = Pending
        BY <2>2, <2>3 DEF Pending, InBatcher
    <2> QED BY <1>1, <2>1, <2>4, OutcomesStay
<1>4. ASSUME NEW f \in Flushes, BarrierSent(f) PROVE OutcomesOK'
    <2>1. /\ UNCHANGED <<added, outcome, workVars, tickets>>
          /\ batcher'.ch = Append(batcher.ch, [barrier |-> f])
          /\ batcher'.out = batcher.out /\ batcher'.buffer = batcher.buffer
        BY <1>4 DEF BarrierSent, sessionVars
    <2>2. WithConsumer' = WithConsumer
        BY <2>1, WithConsumerStays
    <2>3. InBatcher(batcher') = InBatcher(batcher) /\ Channel(batcher'.ch) = Channel(batcher.ch)
        BY <1>2, <2>1, InvFacts, LineBarrier
    <2>4. Pending' = Pending
        BY <2>2, <2>3 DEF Pending, InBatcher
    <2> QED BY <1>1, <2>1, <2>4, OutcomesStay
<1> QED BY <1>3, <1>4

(* A record that enters the batcher waits for its outcome. *)
LEMMA OutcomesEnter ==
    ASSUME ProducerInv, FlowInv, OutcomesOK, StepKind, NEW r \in Records, Entering(r)
    PROVE  OutcomesOK'
<1>1. FailureKnown => FailureKnown'
    BY FailureStays
<1>2. /\ r \notin RecordsOf(added) /\ added' = Append(added, r)
      /\ UNCHANGED <<outcome, workVars, tickets>> /\ Moved(Buffered(batcher, r), batcher')
    BY DEF Entering, sessionVars
<1>3. added \in Seq(Records) /\ batcher \in BatcherType /\ LineOK(batcher, added, Received)
    BY InvFacts DEF TypeOK, FlowInv
<1>4. WithConsumer' = WithConsumer
    BY <1>2, WithConsumerStays
<1> DEFINE c == Buffered(batcher, r)
<1>5. /\ LineOK(c, added', Received) /\ InBatcher(c) = InBatcher(batcher) \cup {r}
      /\ c.ch = batcher.ch
    BY <1>2, <1>3, LineBuffers, BufferedFields
<1> HIDE DEF c
<1>6. InBatcher(batcher') = InBatcher(c) /\ batcher'.ch = c.ch
    <2>1. SameLine(c, batcher') \/ FlushLine(c, batcher')
        BY <1>2 DEF Moved, c
    <2>2. CASE SameLine(c, batcher')
        BY <2>2 DEF SameLine, InBatcher
    <2>3. CASE FlushLine(c, batcher')
        BY <1>5, <2>3, LineFlushes DEF FlushLine
    <2> QED BY <2>1, <2>2, <2>3
<1>7. Pending' = Pending \cup {r}
    <2>1. InBatcher(batcher)' = InBatcher(batcher) \cup {r}
        BY <1>5, <1>6 DEF InBatcher
    <2>2. Channel(batcher.ch)' = Channel(batcher.ch)
        BY <1>5, <1>6
    <2> QED BY <1>4, <2>1, <2>2 DEF Pending
<1>8. RecordsOf(added') = RecordsOf(added) \cup {r} /\ outcome[r] = Unresolved
    BY <1>2, <1>3, RecordsOfSeq DEF OutcomesOK
<1> QED BY <1>1, <1>2, <1>7, <1>8 DEF OutcomesOK

(* The select of flushLocked. *)
LEMMA OutcomesSelect ==
    ASSUME ProducerInv, FlowInv, MetaOK, OutcomesOK, StepKind, SendBatch \/ DropBatch
    PROVE  OutcomesOK'
<1>1. FailureKnown => FailureKnown'
    BY FailureStays
<1>2. /\ batcher \in BatcherType /\ LineOK(batcher, added, Received) /\ Sending(batcher)
      /\ UNCHANGED <<added, workVars, tickets>>
    BY InvFacts DEF FlowInv, SendBatch, DropBatch, submitVars, sessionVars
<1>3. WithConsumer' = WithConsumer
    BY <1>2, WithConsumerStays
<1>4. CASE SendBatch
    <2>1. /\ batcher'.ch = Append(batcher.ch, batcher.out)
          /\ batcher'.out = NoBatch /\ batcher'.buffer = batcher.buffer /\ UNCHANGED outcome
        BY <1>2, <1>4, SelectFields DEF SendBatch
    <2>2. /\ Channel(batcher'.ch) = Channel(batcher.ch) \cup RecordsOf(batcher.out.records)
          /\ InBatcher(batcher') = RecordsOf(batcher.buffer)
        BY <1>2, <2>1, LineSends
    <2>3. InBatcher(batcher)' = RecordsOf(batcher.buffer)
          /\ Channel(batcher.ch)' = Channel(batcher.ch) \cup RecordsOf(batcher.out.records)
        BY <2>2 DEF InBatcher
    <2>4. Pending' = Pending
        BY <1>3, <2>3 DEF Pending, InBatcher
    <2> QED BY <1>1, <1>2, <2>1, <2>4, OutcomesStay
<1>5. CASE DropBatch
    <2> DEFINE o == batcher.out
               results == AllFailed(o.meta, ErrContext)
    <2>1. /\ batcher'.ch = batcher.ch /\ batcher'.ctx = batcher.ctx /\ batcher'.closeErr # NoErr
          /\ batcher'.out = NoBatch /\ batcher'.buffer = batcher.buffer
          /\ batcher.ctx /\ outcome' = Resolved(o.meta, results)
        BY <1>2, <1>5, SelectFields DEF DropBatch
    <2>2. InBatcher(batcher') = RecordsOf(batcher.buffer) /\ Channel(batcher.ch)' = Channel(batcher.ch)
        BY <1>2, <2>1, LineDrops
    <2>3. InBatcher(batcher)' = RecordsOf(batcher.buffer)
        BY <2>2 DEF InBatcher
    <2>4. Pending' = RecordsOf(batcher.buffer) \cup Channel(batcher.ch) \cup WithConsumer
        BY <1>3, <2>2, <2>3 DEF Pending
    <2>5. Pending = Pending' \cup RecordsOf(o.records)
        BY <2>4 DEF Pending, InBatcher
    <2>6. RecordsOf(o.records) \cap Pending' = {} /\ Pending \subseteq RecordsOf(added)
        BY <2>4, PlacesApart DEF InBatcher
    <2>7. FullMeta(o.records, o.meta)
        BY <1>2 DEF MetaOK, BatcherFull, FullBatch, Sending
    <2>8. \A k \in DOMAIN o.meta : results[k] \in Outcomes /\ results[k] # Unresolved
        BY OutcomeShapes DEF AllFailed, Errs
    <2>9. FailureKnown'
        BY <2>1 DEF FailureKnown
    <2> HIDE DEF results
    <2> QED BY <1>2, <2>1, <2>5, <2>6, <2>7, <2>8, <2>9, OutcomesResolve
<1> QED BY <1>4, <1>5

(* The consumer receives. *)
LEMMA OutcomesReceive ==
    ASSUME ProducerInv, FlowInv, MetaOK, OutcomesOK, StepKind, Receive
    PROVE  OutcomesOK'
<1> DEFINE o == Head(batcher.ch)
           H == Carried(o)
<1>1. FailureKnown => FailureKnown'
    BY FailureStays
<1>2. /\ batcher \in BatcherType /\ LineOK(batcher, added, Received) /\ WorkTypes /\ SessionTypes
      /\ UNCHANGED <<added, ackWaiters>> /\ batcher.ch # <<>> /\ consumer.at = "receive"
      /\ batcher' = [batcher EXCEPT !.ch = Tail(@)]
    BY InvFacts, InvSession DEF FlowInv, Receive, submitVars
<1>3. /\ batcher'.ch = Tail(batcher.ch) /\ batcher'.out = batcher.out
      /\ batcher'.buffer = batcher.buffer /\ batcher'.closeErr = batcher.closeErr
      /\ batcher'.ctx = batcher.ctx
    BY <1>2, TakenFields
<1>4. /\ InBatcher(batcher') = InBatcher(batcher)
      /\ Channel(batcher.ch) = H \cup Channel(batcher'.ch)
      /\ Older(added, H, Channel(batcher'.ch) \cup InBatcher(batcher'))
      /\ Older(added, Received, H)
    BY <1>2, <1>3, LineReceives
<1>5. InBatcher(batcher)' = InBatcher(batcher)
    BY <1>4 DEF InBatcher
<1>6. /\ consumer.batch = NoBatch /\ RecordsOf(NoBatch.records) = {}
      /\ ~ IsBarrier(o) => H = RecordsOf(o.records)
      /\ IsBarrier(o) => H = {}
    BY <1>2, RecordsOfSeq DEF MetaOK, NoBatch, Carried
<1>7. ASSUME \A i \in ackWaiters : tickets'[i].batch = tickets[i].batch, UNCHANGED outcome,
             RecordsOf(consumer'.batch.records) = H
      PROVE  OutcomesOK'
    <2>1. \A i \in ackWaiters : TicketRecords(i)' = TicketRecords(i)
        BY <1>7 DEF TicketRecords
    <2>2. WithConsumer' = WithConsumer \cup H
        BY <1>2, <1>6, <1>7, <2>1 DEF WithConsumer
    <2>3. Pending' = Pending
        BY <1>4, <1>5, <2>2 DEF Pending
    <2> QED BY <1>1, <1>2, <1>7, <2>3, OutcomesStay
<1>8. CASE IsBarrier(o)
    <2>1. UNCHANGED <<outcome, sessionVars>> /\ consumer'.batch = NoBatch
        BY <1>8 DEF Receive, ReceiveAt
    <2> QED BY <1>6, <1>7, <1>8, <2>1 DEF sessionVars
<1>9. CASE ~ IsBarrier(o) /\ producer.terminalErr # NoErr
    <2> DEFINE results == AllFailed(o.meta, producer.terminalErr)
    <2>1. /\ outcome' = Resolved(o.meta, results) /\ UNCHANGED <<consumer, ackWaiters, sessionVars>>
          /\ producer' = DispatchedError(producer, o.meta, producer.terminalErr)
        BY <1>2, <1>9 DEF Receive
    <2>2. WithConsumer' = WithConsumer
        BY <2>1, WithConsumerStays DEF workVars, sessionVars
    <2>3. Pending = Pending' \cup RecordsOf(o.records)
        BY <1>4, <1>5, <1>6, <1>9, <2>2 DEF Pending
    <2>4. RecordsOf(o.records) \cap Pending' = {}
        <3>1. added \in Seq(Records) /\ Once(added)
            BY InvFacts DEF TypeOK, FlowInv, AddedOK
        <3>2. H \cap (Channel(batcher'.ch) \cup InBatcher(batcher')) = {} /\ Received \cap H = {}
            BY <1>4, <3>1, OlderApart
        <3>3. WithConsumer \subseteq Received
            BY PlacesApart
        <3> QED BY <1>4, <1>5, <1>6, <1>9, <2>2, <3>2, <3>3 DEF Pending
    <2>5. FullMeta(o.records, o.meta)
        <3>1. batcher.ch \in Seq(Outputs)
            BY <1>2, LineTypes
        <3> QED BY <1>2, <1>9, <3>1, ChannelFull DEF MetaOK, BatcherFull, FullBatch
    <2>6. producer \in ProducerType /\ producer.terminalErr \in Errs /\ NoErr \notin Errs
        BY <1>9, InvFacts DEF ProducerType, Errs, NoErr, ErrSessionClosed, ErrContext, ErrAppend
    <2>7. \A k \in DOMAIN o.meta : results[k] \in Outcomes /\ results[k] # Unresolved
        BY <2>6, OutcomeShapes DEF AllFailed
    <2>8. FailureKnown'
        BY <1>9, <2>1, <2>6 DEF FailureKnown, DispatchedError, ReleasePermits, ProducerType
    <2>9. Pending \subseteq RecordsOf(added)
        BY PlacesApart
    <2> HIDE DEF results, o
    <2> QED BY <1>2, <2>1, <2>3, <2>4, <2>5, <2>7, <2>8, <2>9, OutcomesResolve
<1>10. CASE ~ IsBarrier(o) /\ producer.terminalErr = NoErr /\ ~ sessionOpen
    <2>1. UNCHANGED <<outcome, sessionVars>> /\ consumer'.batch = o
        BY <1>10 DEF Receive, ReceiveAt
    <2> QED BY <1>6, <1>7, <1>10, <2>1 DEF sessionVars
<1>11. CASE ~ IsBarrier(o) /\ producer.terminalErr = NoErr /\ sessionOpen
    <2> DEFINE t == [batch |-> o, start |-> 0, is |-> "submitted"]
    <2>0. UNCHANGED outcome /\ ReceiveAt("submitted", o, "nobody") /\ tickets' = Append(tickets, t)
        BY <1>11 DEF Receive
    <2> HIDE DEF t
    <2>1. UNCHANGED outcome /\ consumer'.batch = o /\ tickets' = Append(tickets, t)
        BY <2>0 DEF ReceiveAt
    <2>2. \A i \in DOMAIN tickets : tickets'[i] = tickets[i]
        BY <1>2, <2>1 DEF SessionTypes
    <2> QED BY <1>2, <1>6, <1>7, <1>11, <2>1, <2>2 DEF WorkTypes
<1> QED BY <1>8, <1>9, <1>10, <1>11

(* The consumer goes on without a new output. *)
LEMMA OutcomesConsumer ==
    ASSUME ProducerInv, FlowInv, MetaOK, OutcomesOK, StepKind,
           AwaitSubmission \/ FailBatch \/ ReachBarrier \/ ConsumerDrains
    PROVE  OutcomesOK'
<1>1. FailureKnown => FailureKnown'
    BY FailureStays
<1>2. WorkTypes /\ SessionTypes /\ UNCHANGED <<added, batcher, tickets>>
    BY InvSession DEF AwaitSubmission, FailBatch, ReachBarrier, ConsumerDrains, submitVars, sessionVars
<1>3. \A i : TicketRecords(i)' = TicketRecords(i)
    BY <1>2 DEF TicketRecords
<1>4. RecordsOf(NoBatch.records) = {}
    BY RecordsOfSeq DEF NoBatch
<1>5. ASSUME UNCHANGED outcome, WithConsumer' = WithConsumer PROVE OutcomesOK'
    <2>1. Pending' = Pending
        BY <1>2, <1>5 DEF Pending, InBatcher
    <2> QED BY <1>1, <1>2, <1>5, <2>1, OutcomesStay
<1>6. CASE AwaitSubmission
    <2> DEFINE last == Len(tickets)
    <2>1. /\ consumer.at = "submitted" /\ UNCHANGED outcome
          /\ \/ ackWaiters' = ackWaiters \cup {last} /\ Receiving
             \/ UNCHANGED ackWaiters /\ consumer' = [consumer EXCEPT !.at = "failing"]
        BY <1>6 DEF AwaitSubmission
    <2>2. consumer.batch = tickets[last].batch
        BY <2>1 DEF FlowInv, TurnsOK
    <2>3. CASE ackWaiters' = ackWaiters \cup {last} /\ Receiving
        <3>1. RecordsOf(consumer'.batch.records) = {}
            BY <1>4, <2>3 DEF Receiving, ReceiveAt
        <3>2. TicketRecords(last) = RecordsOf(consumer.batch.records)
            BY <2>2 DEF TicketRecords
        <3> HIDE DEF last
        <3>3. WithConsumer' = WithConsumer
            BY <1>3, <2>3, <3>1, <3>2 DEF WithConsumer
        <3> QED BY <1>5, <2>1, <3>3
    <2>4. CASE UNCHANGED ackWaiters /\ consumer' = [consumer EXCEPT !.at = "failing"]
        <3>1. consumer'.batch = consumer.batch
            BY <1>2, <2>4 DEF WorkTypes
        <3>2. WithConsumer' = WithConsumer
            BY <1>3, <2>4, <3>1 DEF WithConsumer
        <3> QED BY <1>5, <2>1, <3>2
    <2> QED BY <2>1, <2>3, <2>4
<1>7. CASE ReachBarrier \/ ConsumerDrains
    <2>1. /\ consumer.batch = NoBatch /\ consumer'.batch = NoBatch
          /\ UNCHANGED <<outcome, ackWaiters>>
        BY <1>7 DEF ReachBarrier, ConsumerDrains, Receiving, ReceiveAt, MetaOK
    <2>2. WithConsumer' = WithConsumer
        BY <1>3, <2>1 DEF WithConsumer
    <2> QED BY <1>5, <2>1, <2>2
<1>8. CASE FailBatch
    <2> DEFINE o == consumer.batch
               results == AllFailed(o.meta, producer.terminalErr)
    <2>1. /\ outcome' = Resolved(o.meta, results) /\ ackWaiters = {} /\ UNCHANGED ackWaiters
          /\ producer' = DispatchedError(producer, o.meta, producer.terminalErr)
          /\ consumer.at = "failing" /\ consumer'.batch = NoBatch
        BY <1>8 DEF FailBatch, Receiving, ReceiveAt
    <2>2. WithConsumer = RecordsOf(o.records) /\ WithConsumer' = {}
        BY <1>4, <2>1 DEF WithConsumer
    <2>3. Pending = Pending' \cup RecordsOf(o.records) /\ RecordsOf(o.records) \cap Pending' = {}
          /\ Pending \subseteq RecordsOf(added)
        BY <1>2, <2>2, PlacesApart DEF Pending, InBatcher
    <2>4. FullMeta(o.records, o.meta)
        BY <2>1 DEF MetaOK, FullBatch
    <2>5. producer \in ProducerType /\ producer.terminalErr \in Errs /\ NoErr \notin Errs
        BY <2>1, InvFacts, InvSession DEF ConsumerOK, ProducerType, Errs, NoErr, ErrSessionClosed,
                                          ErrContext, ErrAppend
    <2>6. \A k \in DOMAIN o.meta : results[k] \in Outcomes /\ results[k] # Unresolved
        BY <2>5, OutcomeShapes DEF AllFailed
    <2>7. FailureKnown'
        BY <2>1, <2>5 DEF FailureKnown, DispatchedError, ReleasePermits, ProducerType
    <2> HIDE DEF results, o
    <2> QED BY <1>2, <2>1, <2>3, <2>4, <2>6, <2>7, OutcomesResolve
<1> QED BY <1>6, <1>7, <1>8

(* A waiter finishes. *)
LEMMA OutcomesAck ==
    ASSUME ProducerInv, FlowInv, MetaOK, OutcomesOK, StepKind,
           NEW i \in DOMAIN tickets, AwaitAck(i)
    PROVE  OutcomesOK'
<1> DEFINE o == tickets[i].batch
<1>1. FailureKnown => FailureKnown'
    BY FailureStays
<1>2. /\ SessionTypes /\ WorkTypes /\ UNCHANGED <<added, batcher, tickets, consumer>>
      /\ i \in ackWaiters /\ ackWaiters' = ackWaiters \ {i}
    BY InvSession DEF AwaitAck, submitVars, sessionVars
<1>3. TicketRecords(i) = RecordsOf(o.records) /\ \A j : TicketRecords(j)' = TicketRecords(j)
    BY <1>2 DEF TicketRecords
<1>4. WithConsumer = WithConsumer' \cup TicketRecords(i)
    BY <1>2, <1>3 DEF WithConsumer
<1>5. TicketRecords(i) \cap WithConsumer' = {}
    <2>1. TicketRecords(i) \cap RecordsOf(consumer.batch.records) = {}
        BY <1>2, PlacesApart
    <2>2. \A j \in ackWaiters \ {i} : TicketRecords(i) \cap TicketRecords(j) = {}
        BY <1>2, PlacesApart DEF WorkTypes
    <2> QED BY <1>2, <1>3, <2>1, <2>2 DEF WithConsumer
<1>6. Pending = Pending' \cup TicketRecords(i) /\ TicketRecords(i) \cap Pending' = {}
      /\ Pending \subseteq RecordsOf(added)
    <2>1. TicketRecords(i) \cap (Channel(batcher.ch) \cup InBatcher(batcher)) = {}
        BY <1>4, PlacesApart
    <2>2. Pending' = InBatcher(batcher) \cup Channel(batcher.ch) \cup WithConsumer'
        BY <1>2 DEF Pending, InBatcher
    <2> QED BY <1>4, <1>5, <2>1, <2>2, PlacesApart DEF Pending
<1>7. FullMeta(o.records, o.meta)
    BY DEF MetaOK, FullBatch
<1>8. ASSUME NEW results, outcome' = Resolved(o.meta, results),
             \A k \in DOMAIN o.meta : results[k] \in Outcomes /\ results[k] # Unresolved,
             FailureKnown' \/ \A k \in DOMAIN o.meta : results[k].is # "failed"
      PROVE  OutcomesOK'
    BY <1>1, <1>2, <1>3, <1>6, <1>7, <1>8, OutcomesResolve
<1>9. CASE tickets[i].is = "acked"
    <2> DEFINE results == [k \in DOMAIN o.meta |-> IndexedAck(tickets[i], o.meta[k])]
    <2>1. outcome' = Resolved(o.meta, results)
        BY <1>9 DEF AwaitAck
    <2>2. \A k \in DOMAIN o.meta : results[k] = Acked(tickets[i].start + o.meta[k].index)
        BY DEF IndexedAck
    <2>3. \A k \in DOMAIN o.meta : tickets[i].start + o.meta[k].index \in Nat
        <3>1. tickets[i] \in Ticket
            BY <1>2 DEF SessionTypes
        <3>2. tickets[i].start \in Nat /\ o.meta \in Seq(Metas)
            BY <3>1 DEF Ticket, Batch
        <3>3. \A k \in DOMAIN o.meta : o.meta[k] \in Metas
            BY <3>2
        <3>4. \A k \in DOMAIN o.meta : o.meta[k].index \in Nat
            BY <3>3 DEF Metas
        <3> HIDE DEF o
        <3> QED BY <3>2, <3>4
    <2>4. \A k \in DOMAIN o.meta :
              results[k] \in Outcomes /\ results[k] # Unresolved /\ results[k].is # "failed"
        BY <2>2, <2>3, OutcomeShapes
    <2> HIDE DEF results
    <2> QED BY <1>8, <2>1, <2>4
<1>10. CASE tickets[i].is # "acked"
    <2>1. PICK err \in Errs :
              LET p == RecordTerminalError(producer, err)
              IN  /\ Becomes(DispatchedError(p, o.meta, p.terminalErr), closer)
                  /\ outcome' = Resolved(o.meta, AllFailed(o.meta, p.terminalErr))
        BY <1>10 DEF AwaitAck, Errs
    <2> DEFINE p == RecordTerminalError(producer, err)
               results == AllFailed(o.meta, p.terminalErr)
    <2>2. /\ producer' = DispatchedError(p, o.meta, p.terminalErr)
          /\ outcome' = Resolved(o.meta, results)
        BY <2>1 DEF Becomes
    <2>3. p \in ProducerType /\ p.terminalErr \in Errs /\ NoErr \notin Errs
        BY InvFacts, RecordTerminalErrorKeeps DEF SamePermits, Errs, NoErr, ErrSessionClosed,
                                                  ErrContext, ErrAppend
    <2>4. \A k \in DOMAIN o.meta : results[k] \in Outcomes /\ results[k] # Unresolved
        BY <2>3, OutcomeShapes DEF AllFailed
    <2> HIDE DEF p, results
    <2>5. FailureKnown'
        BY <2>2, <2>3 DEF FailureKnown, DispatchedError, ReleasePermits, ProducerType
    <2> QED BY <1>8, <2>2, <2>4, <2>5
<1> QED BY <1>9, <1>10

(* Every step keeps the account of the outcomes. *)
LEMMA OutcomesKeeps ==
    ASSUME ProducerInv, FlowInv, MetaOK, OutcomesOK, [Next]_<<vars, setup>>
    PROVE  OutcomesOK'
<1>1. StepKind
    BY StepKinds DEF FlowInv
<1>2. CASE Quiet \/ \E f \in Flushes : BarrierSent(f)
    BY <1>1, <1>2, OutcomesQuiet
<1>3. ASSUME NEW r \in Records, Entering(r) PROVE OutcomesOK'
    BY <1>1, <1>3, OutcomesEnter
<1>4. CASE SendBatch \/ DropBatch
    BY <1>1, <1>4, OutcomesSelect
<1>5. CASE Receive
    BY <1>1, <1>5, OutcomesReceive
<1>6. CASE AwaitSubmission \/ FailBatch \/ ReachBarrier \/ ConsumerDrains
    BY <1>1, <1>6, OutcomesConsumer
<1>7. ASSUME NEW i \in DOMAIN tickets, AwaitAck(i) PROVE OutcomesOK'
    BY <1>1, <1>7, OutcomesAck
<1>8. CASE SessionMoves
    <2>1. UNCHANGED <<added, outcome, batcher>> /\ UNCHANGED workVars
        BY <1>8, SessionFrame DEF SessionUnchanged, submitVars
    <2>2. \A i \in ackWaiters : tickets'[i].batch = tickets[i].batch
        BY <1>8, InvSession, SessionKeepsBatches DEF WorkTypes
    <2>3. WithConsumer' = WithConsumer
        BY <2>1, <2>2, WithConsumerStays
    <2>4. Pending' = Pending
        BY <2>1, <2>3 DEF Pending, InBatcher
    <2> QED BY <1>1, <2>1, <2>4, FailureStays, OutcomesStay
<1> QED BY <1>1, <1>2, <1>3, <1>4, <1>5, <1>6, <1>7, <1>8, Zenon
        DEF StepKind, WorkStep, ConsumerStep, Background, Calm

(* At the start no record waits and none is resolved. *)
LEMMA ToldInit ==
    ASSUME Init
    PROVE  MetaOK /\ OutcomesOK
<1>1. /\ added = <<>> /\ tickets = <<>> /\ ackWaiters = {}
      /\ consumer = [at |-> "receive", batch |-> NoBatch, who |-> "nobody"]
      /\ batcher = NewBatcher /\ outcome = [r \in Records |-> Unresolved]
    BY DEF Init
<1>2. /\ batcher.buffer = <<>> /\ batcher.meta = <<>> /\ batcher.out = NoBatch /\ batcher.ch = <<>>
      /\ consumer.at = "receive" /\ consumer.batch = NoBatch /\ DOMAIN tickets = {}
      /\ RecordsOf(<<>>) = {} /\ MetaRecords(<<>>) = {}
    BY <1>1, RecordsOfSeq DEF NewBatcher, MetaRecords
<1>3. MetaOK
    BY <1>2 DEF MetaOK, BatcherFull, FullMeta
<1>4. OutcomesOK
    BY <1>1, <1>2 DEF OutcomesOK, Unresolved
<1> QED BY <1>3, <1>4

-----------------------------------------------------------------------------
(* The barriers of Flush.                                                  *)

(* Where the barrier of f is, once its goroutine holds mu. *)
AtLock(f) == batcher.mu.op \in {"barrier", "barrierSend"} /\ batcher.mu.who = f
BarrierAt(i, f) == i \in DOMAIN batcher.ch /\ IsBarrier(batcher.ch[i]) /\ batcher.ch[i].barrier = f
InLine(f) == \E i \in DOMAIN batcher.ch : BarrierAt(i, f)
AtConsumer(f) == consumer.at = "barrier" /\ consumer.who = f

(* What a Flush does before it is ordered, while it is, and afterwards. *)
Others(f) ==
    \A g \in Flushes \ {f} :
        call'[g] = call[g] /\ ordered'[g] = ordered[g] /\ covered'[g] = covered[g]

Begins(f) ==
    /\ call[f] = "idle" /\ call'[f] \in {"closed", "draining", "waiting"}
    /\ ordered'[f] \in {ordered[f], "pending"} /\ covered'[f] \subseteq RecordsOf(added)
    /\ batcher'.mu = batcher.mu /\ SameLine(batcher, batcher')

Locking(f) ==
    /\ \/ ordered[f] = "pending" /\ covered'[f] = covered[f] \cup RecordsOf(added)
       \/ AtLock(f) /\ covered'[f] = covered[f]
    /\ call'[f] = call[f] /\ ordered'[f] # "nil"
    /\ \/ batcher'.mu.op \notin {"barrier", "barrierSend"}
       \/ /\ batcher'.mu.who = f /\ ordered'[f] = "locked"
          /\ batcher'.buffer = <<>> \/ (AtLock(f) /\ batcher'.buffer = batcher.buffer)
          /\ batcher'.mu.op = "barrierSend" => ~ batcher.ctx

Returning(f) ==
    /\ call[f] # "idle" /\ call'[f] # "idle" /\ UNCHANGED <<ordered, covered>>
    /\ call'[f] = "ok" => ordered[f] = "nil" /\ barrier[f] = NoErr
    /\ call'[f] = "failed" => ordered[f] = "nil" /\ barrier[f] \notin {NoErr, "none"}
    /\ batcher'.mu = batcher.mu /\ SameLine(batcher, batcher')

(* flushBarrier, after its flush. *)
LEMMA AfterBarrierFlushFields ==
    ASSUME ProducerInv, NEW f \in Flushes, AfterBarrierFlush(f)
    PROVE  /\ ordered' = [ordered EXCEPT ![f] = "terminal"] \/ ordered' = [ordered EXCEPT ![f] = "locked"]
           /\ batcher'.buffer = batcher.buffer
           /\ \/ batcher'.mu.op \notin {"barrier", "barrierSend"}
              \/ /\ batcher'.mu.who = f /\ ordered' = [ordered EXCEPT ![f] = "locked"]
                 /\ ~ batcher.ctx
<1>1. CASE BarrierFails(f)
    BY <1>1, InvFacts, UnlockFields, HolderNames DEF BarrierFails
<1>2. CASE /\ batcher' = Lock(batcher, "barrierSend", f) /\ ~ batcher.ctx
           /\ ordered' = [ordered EXCEPT ![f] = "locked"]
    <2>1. [op |-> "barrierSend", who |-> f] \in Holders
        BY HolderNames
    <2> QED BY <1>2, <2>1, InvFacts, LockFields
<1> QED BY <1>1, <1>2 DEF AfterBarrierFlush

(* The steps of Flush in these terms. *)
LEMMA FlushFields ==
    ASSUME ProducerInv, AddedOK, NEW f \in Flushes, FlushAction(f), Quiet
    PROVE  Others(f) /\ UNCHANGED barrier /\ (Begins(f) \/ Locking(f) \/ Returning(f))
<1>1. batcher \in BatcherType /\ FlushTypes /\ BatcherOK(batcher)
    BY InvFacts
<1>2. SameLine(batcher, batcher)
    BY <1>1, SameMoves
<1>3. UNCHANGED added
    BY DEF Quiet
<1>4. CASE Flush(f)
    <2>1. /\ call[f] = "idle" /\ UNCHANGED <<batcher, barrier>>
          /\ covered' = [covered EXCEPT ![f] = {r \in Records : pc[r] = "accepted"}]
          /\ \E v \in {"closed", "draining", "waiting"} : call' = [call EXCEPT ![f] = v]
          /\ UNCHANGED ordered \/ ordered' = [ordered EXCEPT ![f] = "pending"]
        BY <1>4 DEF Flush
    <2>2. {r \in Records : pc[r] = "accepted"} \subseteq RecordsOf(added)
        BY DEF AddedOK
    <2>3. Others(f) /\ call'[f] \in {"closed", "draining", "waiting"}
          /\ ordered'[f] \in {ordered[f], "pending"} /\ covered'[f] = {r \in Records : pc[r] = "accepted"}
        BY <1>1, <2>1 DEF FlushTypes, Others
    <2> QED BY <1>2, <2>1, <2>2, <2>3 DEF Begins
<1>5. CASE FlushReturns(f) \/ FlushAbandoned(f)
    <2>1. UNCHANGED <<batcher, ordered, covered, barrier>>
        BY <1>5 DEF FlushReturns, FlushAbandoned
    <2>2. \E v : /\ call' = [call EXCEPT ![f] = v] /\ v # "idle"
                 /\ v = "ok" => ordered[f] = "nil" /\ barrier[f] = NoErr
                 /\ v = "failed" => ordered[f] = "nil" /\ barrier[f] \notin {NoErr, "none"}
        <3>1. CASE FlushAbandoned(f)
            <4>1. call' = [call EXCEPT ![f] = "abandoned"]
                BY <3>1 DEF FlushAbandoned
            <4> WITNESS "abandoned"
            <4> QED BY <4>1
        <3> DEFINE v == IF barrier[f] = NoErr THEN "ok" ELSE "failed"
        <3>2. CASE ordered[f] = "nil" /\ barrier[f] # "none" /\ call' = [call EXCEPT ![f] = v]
            <4>1. v \in {"ok", "failed"} /\ (v = "ok" <=> barrier[f] = NoErr)
                OBVIOUS
            <4> HIDE DEF v
            <4> QED BY <3>2, <4>1
        <3>3. ASSUME NEW w \in {"closed", "terminal"}, call' = [call EXCEPT ![f] = w]
              PROVE  \E x : /\ call' = [call EXCEPT ![f] = x] /\ x # "idle"
                            /\ x = "ok" => ordered[f] = "nil" /\ barrier[f] = NoErr
                            /\ x = "failed" => ordered[f] = "nil" /\ barrier[f] \notin {NoErr, "none"}
            <4> WITNESS w
            <4> QED BY <3>3
        <3> QED BY <1>5, <3>1, <3>2, <3>3 DEF FlushReturns
    <2>3. call[f] # "idle"
        BY <1>5 DEF FlushReturns, FlushAbandoned
    <2>4. Others(f) /\ Returning(f)
        BY <1>1, <1>2, <2>1, <2>2, <2>3 DEF FlushTypes, Others, Returning
    <2> QED BY <2>1, <2>4
<1>6. ASSUME NEW v, ordered' = [ordered EXCEPT ![f] = v], UNCHANGED call,
             UNCHANGED covered \/ covered' = [covered EXCEPT ![f] = @ \cup RecordsOf(added)]
      PROVE  Others(f) /\ ordered'[f] = v /\ call'[f] = call[f]
    BY <1>1, <1>6 DEF FlushTypes, Others
<1>7. CASE BarrierLocks(f)
    <2>1. /\ ordered[f] = "pending" /\ batcher.mu = Free /\ UNCHANGED <<call, barrier>>
          /\ covered' = [covered EXCEPT ![f] = @ \cup RecordsOf(added)]
        BY <1>7 DEF BarrierLocks
    <2>2. covered'[f] = covered[f] \cup RecordsOf(added)
        BY <1>1, <2>1 DEF FlushTypes
    <2>3. CASE ordered' = [ordered EXCEPT ![f] = "closed"] /\ UNCHANGED batcher
        BY <1>6, <2>1, <2>2, <2>3, HolderNames DEF Locking
    <2>4. ASSUME NEW b \in FlushBegun(batcher), batcher' = Lock(b, "barrier", f),
                 ordered' = [ordered EXCEPT ![f] = "locked"]
          PROVE  Others(f) /\ Locking(f)
        <3>1. ~ Sending(batcher)
            BY <1>1, <2>1 DEF BatcherOK, LockOK
        <3>2. b \in BatcherType /\ b.buffer = <<>> /\ [op |-> "barrier", who |-> f] \in Holders
            BY <1>1, <3>1, FlushBegunFields, HolderNames
        <3>3. batcher'.mu.op = "barrier" /\ batcher'.mu.who = f /\ batcher'.buffer = <<>>
            BY <2>4, <3>2, LockFields
        <3> QED BY <1>6, <2>1, <2>2, <2>4, <3>3 DEF Locking
    <2>5. CASE batcher.buffer = <<>> /\ AfterBarrierFlush(f)
        <3>1. Others(f) /\ call'[f] = call[f] /\ ordered'[f] # "nil"
            BY <1>6, <2>1, <2>5, AfterBarrierFlushFields
        <3>2. ordered' = [ordered EXCEPT ![f] = "locked"] => ordered'[f] = "locked"
            BY <1>1 DEF FlushTypes
        <3> QED BY <2>1, <2>2, <2>5, <3>1, <3>2, AfterBarrierFlushFields DEF Locking
    <2>6. \/ ordered' = [ordered EXCEPT ![f] = "closed"] /\ UNCHANGED batcher
          \/ /\ batcher' \in {Lock(b, "barrier", f) : b \in FlushBegun(batcher)}
             /\ ordered' = [ordered EXCEPT ![f] = "locked"]
          \/ batcher.buffer = <<>> /\ AfterBarrierFlush(f)
        BY <1>7 DEF BarrierLocks
    <2> QED BY <2>1, <2>3, <2>4, <2>5, <2>6
<1>8. CASE BarrierFlushed(f)
    <2>1. /\ batcher.mu = [op |-> "barrier", who |-> f] /\ UNCHANGED <<call, barrier, covered>>
          /\ AfterBarrierFlush(f)
        BY <1>8 DEF BarrierFlushed
    <2>2. AtLock(f)
        BY <2>1 DEF AtLock
    <2>3. Others(f) /\ call'[f] = call[f] /\ ordered'[f] # "nil"
        BY <1>6, <2>1, AfterBarrierFlushFields
    <2>4. ordered' = [ordered EXCEPT ![f] = "locked"] => ordered'[f] = "locked"
        BY <1>1 DEF FlushTypes
    <2> QED BY <2>1, <2>2, <2>3, <2>4, AfterBarrierFlushFields DEF Locking
<1>9. CASE BarrierSends(f)
    <2>1. /\ batcher.mu = [op |-> "barrierSend", who |-> f] /\ UNCHANGED <<call, barrier, covered>>
        BY <1>9 DEF BarrierSends
    <2>2. AtLock(f)
        BY <2>1 DEF AtLock
    <2>3. CASE BarrierFails(f)
        <3>1. ordered' = [ordered EXCEPT ![f] = "terminal"] /\ batcher' = Unlock(batcher)
            BY <2>3 DEF BarrierFails
        <3>2. batcher'.mu.op \notin {"barrier", "barrierSend"}
            BY <1>1, <3>1, UnlockFields, HolderNames
        <3> QED BY <1>6, <2>1, <2>2, <3>1, <3>2 DEF Locking
    <2>4. CASE batcher' = [Unlock(batcher) EXCEPT !.ch = Append(@, [barrier |-> f])]
        <3>1. Unlock(batcher) \in BatcherType /\ Unlock(batcher).ch = batcher.ch
            BY <1>1, UnlockFields
        <3>2. batcher'.ch = Append(batcher.ch, [barrier |-> f]) /\ batcher.ch \in Seq(Outputs)
            BY <1>1, <2>4, <3>1, LineTypes DEF BatcherType
        <3>3. batcher'.ch = batcher.ch
            BY DEF Quiet, Moved, SameLine, FlushLine
        <3>4. Len(batcher'.ch) = Len(batcher.ch) + 1
            BY <3>2, BatchShape
        <3>5. Len(batcher.ch) \in Nat
            BY <3>2
        <3> QED BY <3>3, <3>4, <3>5
    <2> QED BY <1>9, <2>3, <2>4 DEF BarrierSends
<1> QED BY <1>4, <1>5, <1>7, <1>8, <1>9 DEF FlushAction, FlushStep

(* A barrier is on its way only after it was ordered, and a Flush is       *)
(* ordered once.                                                           *)
PhasesOK ==
    \A f \in Flushes :
        /\ call[f] = "idle" => ordered[f] = "none"
        /\ AtLock(f) => ordered[f] = "locked"
        /\ InLine(f) \/ AtConsumer(f) => ordered[f] = "nil"
        /\ barrier[f] # "none" \/ call[f] \in {"ok", "failed"} => ordered[f] = "nil"

(* A barrier leaves the channel for the consumer, which reports it. *)
LEMMA WorkBarriers ==
    ASSUME ProducerInv, WorkStep, NEW f \in Flushes
    PROVE  /\ InLine(f)' => InLine(f)
           /\ AtConsumer(f)' => \/ AtConsumer(f) /\ UNCHANGED consumer
                                \/ /\ Receive /\ IsBarrier(Head(batcher.ch))
                                   /\ BarrierAt(1, f)
           /\ barrier'[f] = barrier[f] \/ (ReachBarrier /\ AtConsumer(f) /\ barrier'[f] = producer.appendErr)
<1>1. /\ batcher \in BatcherType /\ batcher.ch \in Seq(Outputs) /\ batcher.out \in Batch
      /\ FlushTypes /\ WorkTypes
    BY InvFacts, InvSession, LineTypes
<1>2. CASE SendBatch \/ DropBatch
    <2>1. /\ batcher'.ch = Append(batcher.ch, batcher.out) \/ batcher'.ch = batcher.ch
          /\ UNCHANGED <<consumer, barrier>>
        BY <1>1, <1>2, SelectFields DEF SendBatch, DropBatch, workVars, flushVars
    <2>2. ~ IsBarrier(batcher.out) /\ batcher.out \in Outputs
        BY <1>1, BatchShape DEF Outputs
    <2>3. \A i \in DOMAIN batcher'.ch : \/ i \in DOMAIN batcher.ch /\ batcher'.ch[i] = batcher.ch[i]
                                        \/ batcher'.ch[i] = batcher.out
        BY <1>1, <2>1, <2>2
    <2> QED BY <2>1, <2>2, <2>3 DEF InLine, BarrierAt, AtConsumer
<1>3. CASE Receive
    <2> DEFINE o == Head(batcher.ch)
    <2>1. /\ batcher'.ch = Tail(batcher.ch) /\ batcher.ch # <<>> /\ UNCHANGED barrier
          /\ consumer.at = "receive"
        BY <1>1, <1>3, TakenFields DEF Receive, flushVars
    <2>2. /\ \A i \in DOMAIN batcher'.ch :
                 i + 1 \in DOMAIN batcher.ch /\ batcher'.ch[i] = batcher.ch[i + 1]
          /\ 1 \in DOMAIN batcher.ch /\ o = batcher.ch[1]
        BY <1>1, <2>1
    <2>3. InLine(f)' => InLine(f)
        BY <2>2 DEF InLine, BarrierAt
    <2>4. AtConsumer(f)' => IsBarrier(o) /\ o.barrier = f
        <3>1. CASE IsBarrier(o)
            BY <1>3, <3>1 DEF Receive, ReceiveAt, AtConsumer
        <3>2. CASE ~ IsBarrier(o)
            <4>1. consumer' = consumer \/ ReceiveAt("failing", o, "nobody") \/ ReceiveAt("submitted", o, "nobody")
                BY <1>3, <3>2 DEF Receive
            <4> QED BY <2>1, <4>1 DEF ReceiveAt, AtConsumer
        <3> QED BY <3>1, <3>2
    <2> QED BY <1>3, <2>1, <2>2, <2>3, <2>4 DEF BarrierAt
<1>4. CASE AwaitSubmission \/ FailBatch \/ ReachBarrier \/ ConsumerDrains
    <2>1. UNCHANGED batcher /\ consumer'.at # "barrier"
        <3>1. CASE AwaitSubmission
            <4>1. Receiving \/ consumer' = [consumer EXCEPT !.at = "failing"]
                BY <3>1 DEF AwaitSubmission
            <4> QED BY <1>1, <3>1, <4>1 DEF AwaitSubmission, Receiving, ReceiveAt, WorkTypes
        <3>2. CASE FailBatch \/ ReachBarrier \/ ConsumerDrains
            BY <3>2 DEF FailBatch, ReachBarrier, ConsumerDrains, Receiving, ReceiveAt
        <3> QED BY <1>4, <3>1, <3>2
    <2>2. CASE ~ ReachBarrier
        BY <1>4, <2>1, <2>2 DEF AwaitSubmission, FailBatch, ConsumerDrains, flushVars, InLine,
                                BarrierAt, AtConsumer
    <2>3. CASE ReachBarrier
        <3>1. consumer.at = "barrier" /\ barrier' = [barrier EXCEPT ![consumer.who] = producer.appendErr]
            BY <2>3 DEF ReachBarrier
        <3>2. barrier'[f] = barrier[f] \/ (consumer.who = f /\ barrier'[f] = producer.appendErr)
            BY <1>1, <3>1 DEF FlushTypes
        <3> QED BY <2>1, <2>3, <3>1, <3>2 DEF InLine, BarrierAt, AtConsumer
    <2> QED BY <2>2, <2>3
<1>5. CASE SessionMoves \/ \E i \in DOMAIN tickets : AwaitAck(i)
    <2>1. UNCHANGED <<batcher, consumer, barrier>>
        BY <1>5, SessionFrame DEF SessionUnchanged,
                    AwaitAck, workVars, flushVars
    <2> QED BY <2>1 DEF InLine, BarrierAt, AtConsumer
<1> QED BY <1>2, <1>3, <1>4, <1>5 DEF WorkStep, ConsumerStep

(* The barrier of f is the one that is sent. *)
LEMMA SentBarriers ==
    ASSUME ProducerInv, NEW f \in Flushes, BarrierSent(f)
    PROVE  /\ AtLock(f) /\ \A g \in Flushes : ~ AtLock(g)'
           /\ batcher.ch \in Seq(Outputs) /\ [barrier |-> f] \in Outputs
           /\ \A g \in Flushes : \A i : BarrierAt(i, g)' => BarrierAt(i, g) \/ (g = f /\ i = Len(batcher.ch) + 1)
           /\ \A g \in Flushes : AtConsumer(g)' <=> AtConsumer(g)
<1> DEFINE o == [barrier |-> f]
<1>1. /\ batcher.ch \in Seq(Outputs) /\ o \in Outputs /\ o.barrier = f /\ IsBarrier(o)
    BY InvFacts, LineTypes, BatchShape
<1>2. /\ batcher.mu = [op |-> "barrierSend", who |-> f] /\ batcher'.mu = Free
      /\ batcher'.ch = Append(batcher.ch, o) /\ UNCHANGED workVars
    BY DEF BarrierSent, BarrierSends
<1> HIDE DEF o
<1>3. AtLock(f) /\ \A g \in Flushes : ~ AtLock(g)'
    BY <1>2, HolderNames DEF AtLock
<1>4. \A i \in DOMAIN batcher'.ch : \/ i \in DOMAIN batcher.ch /\ batcher'.ch[i] = batcher.ch[i]
                                    \/ i = Len(batcher.ch) + 1 /\ batcher'.ch[i] = o
    BY <1>1, <1>2
<1>5. \A g \in Flushes : \A i : BarrierAt(i, g)' => BarrierAt(i, g) \/ (g = f /\ i = Len(batcher.ch) + 1)
    BY <1>1, <1>4 DEF BarrierAt
<1>6. \A g \in Flushes : AtConsumer(g)' <=> AtConsumer(g)
    BY <1>2 DEF AtConsumer, workVars
<1> QED BY <1>1, <1>3, <1>5, <1>6 DEF o

(* The steps that leave the channel alone leave the barriers in it alone. *)
LEMMA StillBarriers ==
    ASSUME ProducerInv, Quiet \/ \E r \in Records : Entering(r)
    PROVE  /\ batcher'.ch = batcher.ch /\ UNCHANGED consumer
           /\ \A g \in Flushes : \A i : BarrierAt(i, g)' <=> BarrierAt(i, g)
           /\ \A g \in Flushes : /\ InLine(g)' <=> InLine(g)
                                 /\ AtConsumer(g)' <=> AtConsumer(g)
<1>1. batcher'.ch = batcher.ch
    <2>1. CASE Quiet
        BY <2>1 DEF Quiet, Moved, SameLine, FlushLine
    <2>2. ASSUME NEW r \in Records, Entering(r) PROVE batcher'.ch = batcher.ch
        <3>1. Buffered(batcher, r).ch = batcher.ch
            BY InvFacts, BufferedFields
        <3> QED BY <2>2, <3>1 DEF Entering, Moved, SameLine, FlushLine
    <2> QED BY <2>1, <2>2
<1>2. UNCHANGED consumer
    BY DEF Quiet, Entering, workVars
<1> QED BY <1>1, <1>2 DEF BarrierAt, InLine, AtConsumer

(* mu passes to no other barrier. *)
LEMMA OffBarrierLocks ==
    ASSUME OffBarrier, NEW f \in Flushes, AtLock(f)'
    PROVE  AtLock(f) /\ batcher'.mu = batcher.mu
BY DEF OffBarrier, AtLock

(* No barrier comes nearer to its report.                                  *)
LEMMA PhasesStay ==
    ASSUME PhasesOK, UNCHANGED <<call, ordered, barrier>>,
           \A f \in Flushes : /\ AtLock(f)' => AtLock(f)
                              /\ InLine(f)' \/ AtConsumer(f)' => InLine(f) \/ AtConsumer(f)
    PROVE  PhasesOK'
BY DEF PhasesOK

(* Every step keeps the phases. *)
LEMMA PhasesKeeps ==
    ASSUME ProducerInv, AddedOK, PhasesOK, StepKind
    PROVE  PhasesOK'
<1>1. CASE Quiet /\ OffBarrier
    <2>1. \A f \in Flushes : /\ AtLock(f)' => AtLock(f)
                             /\ InLine(f)' \/ AtConsumer(f)' => InLine(f) \/ AtConsumer(f)
        BY <1>1, StillBarriers, OffBarrierLocks
    <2> QED BY <1>1, <2>1, PhasesStay DEF OffBarrier, flushVars
<1>2. ASSUME NEW r \in Records, Entering(r) PROVE PhasesOK'
    <2>1. \A f \in Flushes : ~ AtLock(f)'
        BY <1>2 DEF Entering, AtLock
    <2>2. \A f \in Flushes : InLine(f)' \/ AtConsumer(f)' => InLine(f) \/ AtConsumer(f)
        BY <1>2, StillBarriers
    <2> QED BY <1>2, <2>1, <2>2, PhasesStay DEF Entering, flushVars
<1>3. ASSUME NEW f \in Flushes, FlushAction(f), Quiet PROVE PhasesOK'
    <2>1. Others(f) /\ UNCHANGED barrier /\ (Begins(f) \/ Locking(f) \/ Returning(f))
        BY <1>3, FlushFields
    <2>2. \A g \in Flushes : (InLine(g)' <=> InLine(g)) /\ (AtConsumer(g)' <=> AtConsumer(g))
        BY <1>3, StillBarriers
    <2>3. \A g \in Flushes \ {f} : AtLock(g)' => AtLock(g)
        BY <2>1 DEF Begins, Locking, Returning, AtLock
    <2>4. ASSUME NEW g \in Flushes \ {f}
          PROVE  /\ call'[g] = "idle" => ordered'[g] = "none"
                 /\ AtLock(g)' => ordered'[g] = "locked"
                 /\ InLine(g)' \/ AtConsumer(g)' => ordered'[g] = "nil"
                 /\ barrier'[g] # "none" \/ call'[g] \in {"ok", "failed"} => ordered'[g] = "nil"
        BY <2>1, <2>2, <2>3 DEF PhasesOK, Others
    <2>5. /\ call'[f] = "idle" => ordered'[f] = "none"
          /\ AtLock(f)' => ordered'[f] = "locked"
          /\ InLine(f)' \/ AtConsumer(f)' => ordered'[f] = "nil"
          /\ barrier'[f] # "none" \/ call'[f] \in {"ok", "failed"} => ordered'[f] = "nil"
        <3>1. CASE Begins(f)
            BY <2>1, <2>2, <3>1 DEF PhasesOK, Begins, AtLock
        <3>2. CASE Locking(f)
            BY <2>1, <2>2, <3>2 DEF PhasesOK, Locking, AtLock
        <3>3. CASE Returning(f)
            BY <2>1, <2>2, <3>3 DEF PhasesOK, Returning, AtLock
        <3> QED BY <2>1, <3>1, <3>2, <3>3
    <2> QED BY <2>4, <2>5 DEF PhasesOK
<1>4. ASSUME NEW f \in Flushes, BarrierSent(f) PROVE PhasesOK'
    <2>1. /\ AtLock(f) /\ \A g \in Flushes : ~ AtLock(g)'
          /\ \A g \in Flushes : InLine(g)' => InLine(g) \/ g = f
          /\ \A g \in Flushes : AtConsumer(g)' <=> AtConsumer(g)
        BY <1>4, SentBarriers DEF InLine, BarrierAt
    <2>2. /\ UNCHANGED <<call, barrier>> /\ ordered' = [ordered EXCEPT ![f] = "nil"]
          /\ ordered \in [Flushes -> {"none", "pending", "locked", "nil", "closed", "terminal"}]
        BY <1>4, InvFacts DEF BarrierSent, FlushTypes
    <2> QED BY <2>1, <2>2 DEF PhasesOK
<1>5. CASE WorkStep
    <2>1. /\ UNCHANGED <<call, ordered>> /\ (batcher'.mu = Free \/ batcher'.mu = batcher.mu)
        BY <1>5, WorkFields
    <2>2. \A f \in Flushes : AtLock(f)' => AtLock(f)
        BY <2>1, HolderNames DEF AtLock
    <2>3. ASSUME NEW f \in Flushes
          PROVE  /\ InLine(f)' \/ AtConsumer(f)' => InLine(f) \/ AtConsumer(f)
                 /\ barrier'[f] # barrier[f] => AtConsumer(f)
        <3>1. /\ InLine(f)' => InLine(f)
              /\ AtConsumer(f)' => AtConsumer(f) \/ BarrierAt(1, f)
              /\ barrier'[f] = barrier[f] \/ AtConsumer(f)
            BY <1>5, WorkBarriers
        <3> QED BY <3>1 DEF InLine, BarrierAt
    <2> QED BY <2>1, <2>2, <2>3 DEF PhasesOK
<1> QED BY <1>1, <1>2, <1>3, <1>4, <1>5 DEF StepKind, Background, Calm

(* A barrier in the channel, or with the consumer, cuts the records in two: *)
(* those its Flush covers are before it.                                    *)
CutAt(i, S) ==
    /\ \A j \in DOMAIN batcher.ch : /\ j < i => Carried(batcher.ch[j]) \subseteq S
                                    /\ j > i => Carried(batcher.ch[j]) \cap S = {}
    /\ InBatcher(batcher) \cap S = {} /\ Received \subseteq S
CutHere(S) == Received \subseteq S /\ (Channel(batcher.ch) \cup InBatcher(batcher)) \cap S = {}

(* While the barrier is ordered, its Flush covers everything.              *)
CutsOK ==
    /\ \A f \in Flushes : covered[f] \subseteq RecordsOf(added)
    /\ \A f \in Flushes : AtLock(f) => RecordsOf(added) \subseteq covered[f] /\ batcher.buffer = <<>>
    /\ \A f \in Flushes : \A i : BarrierAt(i, f) => CutAt(i, covered[f])
    /\ \A f \in Flushes : AtConsumer(f) => CutHere(covered[f])

(* No record moves from one side to the other. *)
LEMMA CutsStay ==
    ASSUME ProducerInv, FlowInv, CutsOK, Quiet,
           \A f \in Flushes :
               /\ covered'[f] \subseteq RecordsOf(added)
               /\ AtLock(f)' => RecordsOf(added) \subseteq covered'[f] /\ batcher'.buffer = <<>>
               /\ InLine(f) \/ AtConsumer(f) => covered'[f] = covered[f]
    PROVE  CutsOK'
<1>1. UNCHANGED <<added, consumer, tickets>> /\ Moved(batcher, batcher')
    BY DEF Quiet, workVars, sessionVars
<1>2. Received' = Received
    BY <1>1 DEF Received, Submitted, TicketRecords
<1>3. InBatcher(batcher') = InBatcher(batcher) /\ batcher'.ch = batcher.ch
    <2>1. CASE SameLine(batcher, batcher')
        BY <2>1 DEF SameLine, InBatcher
    <2>2. CASE FlushLine(batcher, batcher')
        <3>1. LineOK(batcher, added, Received)
            BY DEF FlowInv
        <3> QED BY <2>2, <3>1, LineFlushes DEF FlushLine
    <2> QED BY <1>1, <2>1, <2>2 DEF Moved
<1>4. InBatcher(batcher)' = InBatcher(batcher)
    BY <1>3 DEF InBatcher
<1>7. ASSUME NEW f \in Flushes, NEW i, BarrierAt(i, f)' PROVE CutAt(i, covered[f])'
    <2>1. BarrierAt(i, f) /\ InLine(f)
        BY <1>7, StillBarriers DEF InLine, BarrierAt
    <2>2. CutAt(i, covered[f]) /\ covered'[f] = covered[f]
        BY <2>1 DEF CutsOK
    <2> QED BY <1>2, <1>3, <1>4, <2>2 DEF CutAt
<1>8. ASSUME NEW f \in Flushes, AtConsumer(f)' PROVE CutHere(covered[f])'
    <2>1. AtConsumer(f)
        BY <1>8, StillBarriers
    <2>2. CutHere(covered[f]) /\ covered'[f] = covered[f]
        BY <2>1 DEF CutsOK
    <2> QED BY <1>2, <1>3, <1>4, <2>2 DEF CutHere
<1>9. \A f \in Flushes : /\ covered'[f] \subseteq RecordsOf(added')
                         /\ AtLock(f)' => RecordsOf(added') \subseteq covered'[f] /\ batcher'.buffer = <<>>
    BY <1>1
<1> QED BY <1>7, <1>8, <1>9 DEF CutsOK

(* The steps of Flush before its barrier is sent, and the background. *)
LEMMA CutsQuiet ==
    ASSUME ProducerInv, FlowInv, PhasesOK, CutsOK, Quiet,
           OffBarrier \/ \E f \in Flushes : FlushAction(f)
    PROVE  CutsOK'
<1>1. batcher'.buffer = batcher.buffer \/ batcher'.buffer = <<>>
    BY DEF Quiet, Moved, SameLine, FlushLine
<1>2. CASE OffBarrier
    <2>1. \A f \in Flushes :
               /\ covered'[f] = covered[f]
               /\ AtLock(f)' => RecordsOf(added) \subseteq covered'[f] /\ batcher'.buffer = <<>>
        BY <1>1, <1>2, OffBarrierLocks DEF CutsOK, OffBarrier, flushVars
    <2> QED BY <2>1, CutsStay DEF CutsOK
<1>3. ASSUME NEW f \in Flushes, FlushAction(f) PROVE CutsOK'
    <2>1. Others(f) /\ (Begins(f) \/ Locking(f) \/ Returning(f))
        BY <1>3, FlushFields DEF FlowInv
    <2>2. ASSUME NEW g \in Flushes \ {f}
          PROVE  /\ covered'[g] = covered[g]
                 /\ AtLock(g)' => RecordsOf(added) \subseteq covered'[g] /\ batcher'.buffer = <<>>
        <3>1. covered'[g] = covered[g]
            BY <2>1 DEF Others
        <3>2. AtLock(g)' => AtLock(g) /\ batcher'.buffer = batcher.buffer
            BY <2>1 DEF Begins, Locking, Returning, AtLock, SameLine
        <3> QED BY <3>1, <3>2 DEF CutsOK
    <2>3. /\ covered'[f] \subseteq RecordsOf(added)
          /\ AtLock(f)' => RecordsOf(added) \subseteq covered'[f] /\ batcher'.buffer = <<>>
          /\ InLine(f) \/ AtConsumer(f) => covered'[f] = covered[f]
        <3>1. CASE Begins(f)
            BY <3>1 DEF Begins, PhasesOK, AtLock
        <3>2. CASE Locking(f)
            <4>1. AtLock(f)' => batcher'.buffer = <<>>
                BY <3>2 DEF Locking, AtLock, CutsOK
            <4>2. /\ covered'[f] \subseteq RecordsOf(added)
                  /\ RecordsOf(added) \subseteq covered'[f]
                BY <3>2 DEF Locking, CutsOK
            <4>3. ~ InLine(f) /\ ~ AtConsumer(f)
                BY <3>2 DEF Locking, PhasesOK
            <4> QED BY <4>1, <4>2, <4>3
        <3>3. CASE Returning(f)
            BY <3>3 DEF Returning, CutsOK, AtLock, SameLine
        <3> QED BY <2>1, <3>1, <3>2, <3>3
    <2>4. \A g \in Flushes :
               /\ covered'[g] \subseteq RecordsOf(added)
               /\ AtLock(g)' => RecordsOf(added) \subseteq covered'[g] /\ batcher'.buffer = <<>>
               /\ InLine(g) \/ AtConsumer(g) => covered'[g] = covered[g]
        BY <2>2, <2>3 DEF CutsOK
    <2> QED BY <2>4, CutsStay
<1> QED BY <1>2, <1>3

(* A record that enters is covered by none that has a barrier. *)
LEMMA CutsEnter ==
    ASSUME ProducerInv, FlowInv, CutsOK, NEW r \in Records, Entering(r)
    PROVE  CutsOK'
<1>1. /\ r \notin RecordsOf(added) /\ added' = Append(added, r) /\ UNCHANGED covered
      /\ UNCHANGED <<consumer, tickets>> /\ Moved(Buffered(batcher, r), batcher')
    BY DEF Entering, workVars, sessionVars, flushVars
<1>2. added \in Seq(Records) /\ batcher \in BatcherType /\ LineOK(batcher, added, Received)
    BY InvFacts DEF TypeOK, FlowInv
<1>3. RecordsOf(added') = RecordsOf(added) \cup {r}
    BY <1>1, <1>2, RecordsOfSeq
<1>4. Received' = Received
    BY <1>1 DEF Received, Submitted, TicketRecords
<1> DEFINE c == Buffered(batcher, r)
<1>5. LineOK(c, added', Received) /\ InBatcher(c) = InBatcher(batcher) \cup {r}
    BY <1>1, <1>2, LineBuffers
<1> HIDE DEF c
<1>6. InBatcher(batcher') = InBatcher(c)
    <2>1. SameLine(c, batcher') \/ FlushLine(c, batcher')
        BY <1>1 DEF Moved, c
    <2>2. CASE SameLine(c, batcher')
        BY <2>2 DEF SameLine, InBatcher
    <2>3. CASE FlushLine(c, batcher')
        BY <1>5, <2>3, LineFlushes DEF FlushLine
    <2> QED BY <2>1, <2>2, <2>3
<1>7. InBatcher(batcher)' = InBatcher(batcher) \cup {r} /\ batcher'.ch = batcher.ch
    BY <1>5, <1>6, StillBarriers DEF InBatcher
<1>8. ASSUME NEW f \in Flushes, NEW i, BarrierAt(i, f)' PROVE CutAt(i, covered[f])'
    <2>1. BarrierAt(i, f) /\ r \notin covered[f]
        BY <1>1, <1>8, StillBarriers DEF CutsOK
    <2>2. CutAt(i, covered[f])
        BY <2>1 DEF CutsOK
    <2> QED BY <1>1, <1>4, <1>7, <2>1, <2>2 DEF CutAt
<1>9. ASSUME NEW f \in Flushes, AtConsumer(f)' PROVE CutHere(covered[f])'
    <2>1. AtConsumer(f) /\ r \notin covered[f]
        BY <1>1, <1>9, StillBarriers DEF CutsOK
    <2>2. CutHere(covered[f])
        BY <2>1 DEF CutsOK
    <2> QED BY <1>1, <1>4, <1>7, <2>1, <2>2 DEF CutHere
<1>10. \A f \in Flushes : ~ AtLock(f)'
    BY DEF Entering, AtLock
<1>11. \A f \in Flushes : covered'[f] \subseteq RecordsOf(added')
    BY <1>1, <1>3 DEF CutsOK
<1> QED BY <1>8, <1>9, <1>10, <1>11 DEF CutsOK

(* The barrier is sent, with every record that entered before it. *)
LEMMA CutsSent ==
    ASSUME ProducerInv, FlowInv, CutsOK, NEW f \in Flushes, BarrierSent(f)
    PROVE  CutsOK'
<1>1. /\ UNCHANGED <<added, consumer, tickets, covered>> /\ ~ Sending(batcher)
      /\ batcher'.ch = Append(batcher.ch, [barrier |-> f])
      /\ batcher'.out = batcher.out /\ batcher'.buffer = batcher.buffer
    BY DEF BarrierSent, workVars, sessionVars
<1>2. /\ AtLock(f) /\ \A g \in Flushes : ~ AtLock(g)'
      /\ batcher.ch \in Seq(Outputs) /\ [barrier |-> f] \in Outputs
      /\ \A g \in Flushes : \A i : BarrierAt(i, g)' => BarrierAt(i, g) \/ (g = f /\ i = Len(batcher.ch) + 1)
      /\ \A g \in Flushes : AtConsumer(g)' <=> AtConsumer(g)
    BY SentBarriers
<1>3. Received' = Received
    BY <1>1 DEF Received, Submitted, TicketRecords
<1>4. Carried([barrier |-> f]) = {}
    BY BatchShape DEF Carried
<1>5. /\ \A j \in DOMAIN batcher'.ch : \/ j \in DOMAIN batcher.ch /\ batcher'.ch[j] = batcher.ch[j]
                                       \/ j = Len(batcher.ch) + 1 /\ Carried(batcher'.ch[j]) = {}
      /\ Len(batcher.ch) \in Nat /\ DOMAIN batcher.ch = 1 .. Len(batcher.ch)
    BY <1>1, <1>2, <1>4
<1>6. LineOK(batcher, added, Received)
    BY DEF FlowInv
<1>7. /\ InBatcher(batcher)' = InBatcher(batcher) /\ Channel(batcher.ch)' = Channel(batcher.ch)
      /\ InBatcher(batcher) = {}
    <2>1. batcher.out = NoBatch /\ batcher.buffer = <<>>
        BY <1>1, <1>2 DEF CutsOK, Sending
    <2>2. InBatcher(batcher) = {} /\ InBatcher(batcher)' = InBatcher(batcher)
        BY <1>1, <2>1, RecordsOfSeq DEF InBatcher, NoBatch
    <2>3. Channel(batcher.ch)' = Channel(batcher.ch)
        BY <1>1, <1>6, InvFacts, LineBarrier
    <2> QED BY <2>2, <2>3
<1>8. ASSUME NEW g \in Flushes, NEW i, BarrierAt(i, g)' PROVE CutAt(i, covered[g])'
    <2>1. CASE BarrierAt(i, g)
        <3>1. CutAt(i, covered[g])
            BY <2>1 DEF CutsOK
        <3>2. i \in DOMAIN batcher.ch
            BY <2>1 DEF BarrierAt
        <3>3. /\ \A j \in DOMAIN batcher'.ch :
                    /\ j < i => Carried(batcher'.ch[j]) \subseteq covered[g]
                    /\ j > i => Carried(batcher'.ch[j]) \cap covered[g] = {}
            BY <1>5, <3>1, <3>2 DEF CutAt
        <3>4. InBatcher(batcher)' \cap covered[g] = {} /\ Received' \subseteq covered[g]
            BY <1>3, <1>7, <3>1 DEF CutAt
        <3> QED BY <1>1, <3>3, <3>4 DEF CutAt
    <2>2. CASE g = f /\ i = Len(batcher.ch) + 1
        <3>1. RecordsOf(added) \subseteq covered[f]
            BY <1>2 DEF CutsOK
        <3>2. Received \subseteq covered[f] /\ \A j \in DOMAIN batcher.ch : Carried(batcher.ch[j]) \subseteq covered[f]
            BY <1>6, <3>1 DEF LineOK, Channel
        <3> QED BY <1>1, <1>3, <1>5, <1>7, <2>2, <3>2 DEF CutAt
    <2> QED BY <1>2, <1>8, <2>1, <2>2
<1>9. ASSUME NEW g \in Flushes, AtConsumer(g)' PROVE CutHere(covered[g])'
    BY <1>1, <1>2, <1>3, <1>7, <1>9 DEF CutsOK, CutHere
<1>10. \A g \in Flushes : covered'[g] \subseteq RecordsOf(added')
    BY <1>1 DEF CutsOK
<1> QED BY <1>2, <1>8, <1>9, <1>10 DEF CutsOK

(* The consumer knows no other records than those it receives. *)
LEMMA ReceivedMoves ==
    ASSUME ProducerInv, WorkStep
    PROVE  \/ Receive /\ Received' \subseteq Received \cup Carried(Head(batcher.ch))
           \/ Received' \subseteq Received
<1>1. SessionTypes /\ WorkTypes
    BY InvSession
<1>2. RecordsOf(NoBatch.records) = {}
    BY RecordsOfSeq DEF NoBatch
<1>3. ASSUME DOMAIN tickets' = DOMAIN tickets,
             \A i \in DOMAIN tickets : tickets'[i].batch = tickets[i].batch
      PROVE  Submitted' = Submitted
    BY <1>3 DEF Submitted, TicketRecords
<1>4. CASE SessionMoves
    <2>1. Submitted' = Submitted
        BY <1>1, <1>3, <1>4, SessionKeepsBatches
    <2>2. UNCHANGED consumer
        BY <1>4, SessionFrame DEF SessionUnchanged, workVars
    <2> QED BY <2>1, <2>2 DEF Received
<1>5. CASE \/ SendBatch \/ DropBatch \/ AwaitSubmission \/ FailBatch \/ ReachBarrier
           \/ ConsumerDrains \/ \E i \in DOMAIN tickets : AwaitAck(i)
    <2>1. UNCHANGED tickets
        BY <1>5 DEF SendBatch, DropBatch, AwaitSubmission, FailBatch, ReachBarrier, ConsumerDrains,
                    AwaitAck, sessionVars
    <2>2. consumer'.batch \in {NoBatch, consumer.batch}
        <3>1. CASE AwaitSubmission
            <4>1. Receiving \/ consumer' = [consumer EXCEPT !.at = "failing"]
                BY <3>1 DEF AwaitSubmission
            <4> QED BY <1>1, <4>1 DEF Receiving, ReceiveAt, WorkTypes
        <3>2. CASE FailBatch \/ ReachBarrier \/ ConsumerDrains
            BY <3>2 DEF FailBatch, ReachBarrier, ConsumerDrains, Receiving, ReceiveAt
        <3>3. CASE SendBatch \/ DropBatch \/ \E i \in DOMAIN tickets : AwaitAck(i)
            <4>1. UNCHANGED consumer
                BY <3>3 DEF SendBatch, DropBatch, AwaitAck, workVars
            <4> QED BY <4>1
        <3> QED BY <1>5, <3>1, <3>2, <3>3
    <2>3. Submitted' = Submitted
        BY <1>3, <2>1
    <2> QED BY <1>2, <2>2, <2>3 DEF Received
<1>6. CASE Receive
    <2> DEFINE o == Head(batcher.ch)
               t == [batch |-> o, start |-> 0, is |-> "submitted"]
    <2>1. \/ UNCHANGED sessionVars /\ (UNCHANGED consumer \/ ReceiveAt("barrier", NoBatch, o.barrier))
          \/ UNCHANGED sessionVars /\ ~ IsBarrier(o) /\ ReceiveAt("failing", o, "nobody")
          \/ ~ IsBarrier(o) /\ ReceiveAt("submitted", o, "nobody") /\ tickets' = Append(tickets, t)
        BY <1>6 DEF Receive
    <2>2. CASE UNCHANGED sessionVars /\ (UNCHANGED consumer \/ ReceiveAt("barrier", NoBatch, o.barrier))
        <3>1. Submitted' = Submitted
            BY <1>3, <2>2 DEF sessionVars
        <3>2. consumer'.batch \in {NoBatch, consumer.batch}
            BY <2>2 DEF ReceiveAt
        <3> QED BY <1>2, <3>1, <3>2 DEF Received
    <2>3. CASE UNCHANGED sessionVars /\ ~ IsBarrier(o) /\ ReceiveAt("failing", o, "nobody")
        <3>1. Submitted' = Submitted /\ Carried(o) = RecordsOf(o.records)
            BY <1>3, <2>3 DEF sessionVars, Carried
        <3>2. consumer'.batch = o
            BY <2>3 DEF ReceiveAt
        <3> QED BY <1>6, <3>1, <3>2 DEF Received
    <2>4. CASE ~ IsBarrier(o) /\ ReceiveAt("submitted", o, "nobody") /\ tickets' = Append(tickets, t)
        <3>1. consumer'.batch = o /\ Carried(o) = RecordsOf(o.records) /\ t.batch = o
            BY <2>4 DEF ReceiveAt, Carried
        <3> HIDE DEF t
        <3>2. \A i \in DOMAIN tickets' : \/ i \in DOMAIN tickets /\ tickets'[i] = tickets[i]
                                         \/ tickets'[i] = t
            BY <1>1, <2>4 DEF SessionTypes
        <3>3. \A i \in DOMAIN tickets' : TicketRecords(i)' \subseteq Submitted \cup Carried(o)
            BY <3>1, <3>2 DEF Submitted, TicketRecords
        <3>4. Submitted' \subseteq Submitted \cup Carried(o)
            BY <3>3 DEF Submitted
        <3> QED BY <1>6, <3>1, <3>4 DEF Received
    <2> QED BY <2>1, <2>2, <2>3, <2>4
<1> QED BY <1>4, <1>5, <1>6 DEF WorkStep, ConsumerStep

(* The batches move on, and a barrier is received after those before it. *)
LEMMA CutsWork ==
    ASSUME ProducerInv, FlowInv, CutsOK, WorkStep
    PROVE  CutsOK'
<1>1. /\ UNCHANGED <<added, covered>> /\ (batcher'.mu = Free \/ batcher'.mu = batcher.mu)
      /\ batcher \in BatcherType /\ batcher.ch \in Seq(Outputs) /\ LineOK(batcher, added, Received)
    BY WorkFields, InvFacts, LineTypes DEF FlowInv
<1>2. \A f \in Flushes : AtLock(f)' => AtLock(f)
    BY <1>1, HolderNames DEF AtLock
<1>3. batcher'.buffer = batcher.buffer
    <2>1. \/ UNCHANGED batcher
          \/ batcher' \in {Sent(batcher), Dropped(batcher)}
          \/ batcher' = [batcher EXCEPT !.ch = Tail(@)]
        BY SessionFrame DEF WorkStep, SendBatch, DropBatch, ConsumerStep, Receive, AwaitSubmission,
               FailBatch, ReachBarrier, ConsumerDrains, AwaitAck, SessionUnchanged
    <2> QED BY <1>1, <2>1, SelectFields, TakenFields
<1>4. /\ \A f \in Flushes : covered'[f] \subseteq RecordsOf(added')
      /\ \A f \in Flushes : AtLock(f)' => RecordsOf(added') \subseteq covered'[f] /\ batcher'.buffer = <<>>
    BY <1>1, <1>2, <1>3 DEF CutsOK
<1>5. ASSUME \A f \in Flushes : \A i : BarrierAt(i, f)' => CutAt(i, covered[f])',
             \A f \in Flushes : AtConsumer(f)' => CutHere(covered[f])'
      PROVE  CutsOK'
    BY <1>4, <1>5 DEF CutsOK
<1>6. CASE SendBatch \/ DropBatch
    <2> DEFINE O == RecordsOf(batcher.out.records)
    <2>1. /\ batcher'.out = NoBatch /\ UNCHANGED consumer
          /\ \/ batcher'.ch = Append(batcher.ch, batcher.out)
             \/ batcher'.ch = batcher.ch
        BY <1>1, <1>6, SelectFields DEF SendBatch, DropBatch, workVars
    <2>2. Received' \subseteq Received
        BY <1>6, ReceivedMoves DEF SendBatch, DropBatch, Receive, workVars, Received, Submitted,
                                   TicketRecords, sessionVars
    <2>3. /\ Channel(batcher.ch)' \subseteq Channel(batcher.ch) \cup O
          /\ InBatcher(batcher)' \subseteq InBatcher(batcher) /\ O \subseteq InBatcher(batcher)
        <3>1. InBatcher(batcher)' \subseteq InBatcher(batcher) /\ O \subseteq InBatcher(batcher)
            BY <1>3, <2>1, RecordsOfSeq DEF InBatcher, NoBatch
        <3>2. CASE batcher'.ch = Append(batcher.ch, batcher.out)
            <4>1. Channel(batcher'.ch) = Channel(batcher.ch) \cup O
                BY <1>1, <1>3, <2>1, <3>2, LineSends
            <4> QED BY <3>1, <4>1
        <3> QED BY <2>1, <3>1, <3>2
    <2>4. /\ batcher.out \in Outputs /\ ~ IsBarrier(batcher.out) /\ Carried(batcher.out) = O
        BY <1>1, BatchShape DEF Outputs, Carried, BatcherType
    <2>5. \A j \in DOMAIN batcher'.ch : \/ j \in DOMAIN batcher.ch /\ batcher'.ch[j] = batcher.ch[j]
                                        \/ j = Len(batcher.ch) + 1 /\ batcher'.ch[j] = batcher.out
        BY <1>1, <2>1, <2>4
    <2>6. Len(batcher.ch) \in Nat /\ DOMAIN batcher.ch = 1 .. Len(batcher.ch)
        BY <1>1
    <2> HIDE DEF O
    <2>7. ASSUME NEW f \in Flushes, NEW i, BarrierAt(i, f)' PROVE CutAt(i, covered[f])'
        <3>1. BarrierAt(i, f)
            BY <2>4, <2>5, <2>7 DEF BarrierAt
        <3>2. CutAt(i, covered[f]) /\ i \in DOMAIN batcher.ch
            BY <3>1 DEF CutsOK, BarrierAt
        <3>3. \A j \in DOMAIN batcher'.ch :
                  /\ j < i => Carried(batcher'.ch[j]) \subseteq covered[f]
                  /\ j > i => Carried(batcher'.ch[j]) \cap covered[f] = {}
            BY <2>3, <2>4, <2>5, <2>6, <3>2 DEF CutAt
        <3>4. InBatcher(batcher)' \cap covered[f] = {} /\ Received' \subseteq covered[f]
            BY <2>2, <2>3, <3>2 DEF CutAt
        <3> QED BY <1>1, <3>3, <3>4 DEF CutAt
    <2>8. ASSUME NEW f \in Flushes, AtConsumer(f)' PROVE CutHere(covered[f])'
        <3>1. CutHere(covered[f])
            BY <2>1, <2>8 DEF AtConsumer, CutsOK
        <3>2. (Channel(batcher.ch)' \cup InBatcher(batcher)') \cap covered[f] = {}
            BY <2>3, <3>1 DEF CutHere
        <3> QED BY <1>1, <2>2, <3>1, <3>2 DEF CutHere
    <2> QED BY <1>5, <2>7, <2>8
<1>7. CASE Receive
    <2> DEFINE H == Carried(Head(batcher.ch))
    <2>1. batcher'.ch = Tail(batcher.ch) /\ batcher.ch # <<>> /\ batcher'.out = batcher.out
          /\ consumer.at = "receive"
        BY <1>1, <1>7, TakenFields DEF Receive
    <2>2. /\ \A j \in DOMAIN batcher'.ch : /\ j \in Nat /\ j + 1 \in DOMAIN batcher.ch
                                           /\ batcher'.ch[j] = batcher.ch[j + 1] /\ 1 < j + 1
          /\ 1 \in DOMAIN batcher.ch /\ H = Carried(batcher.ch[1])
        BY <1>1, <2>1
    <2>3. InBatcher(batcher)' = InBatcher(batcher)
        BY <1>3, <2>1 DEF InBatcher
    <2>4. Received' \subseteq Received \cup H
        BY ReceivedMoves
    <2> HIDE DEF H
    <2>5. ASSUME NEW f \in Flushes, NEW i, BarrierAt(i, f)' PROVE CutAt(i, covered[f])'
        <3>1. i \in Nat /\ i \in DOMAIN batcher'.ch /\ BarrierAt(i + 1, f) /\ 1 < i + 1
            BY <2>2, <2>5 DEF BarrierAt
        <3>2. CutAt(i + 1, covered[f])
            BY <3>1 DEF CutsOK
        <3>3. \A j \in DOMAIN batcher'.ch :
                  /\ j < i => Carried(batcher'.ch[j]) \subseteq covered[f]
                  /\ j > i => Carried(batcher'.ch[j]) \cap covered[f] = {}
            <4> SUFFICES ASSUME NEW j \in DOMAIN batcher'.ch
                         PROVE  /\ j < i => Carried(batcher'.ch[j]) \subseteq covered[f]
                                /\ j > i => Carried(batcher'.ch[j]) \cap covered[f] = {}
                OBVIOUS
            <4>1. j \in Nat /\ (j < i => j + 1 < i + 1) /\ (j > i => j + 1 > i + 1)
                BY <2>2, <3>1
            <4> QED BY <2>2, <3>2, <4>1 DEF CutAt
        <3>4. H \subseteq covered[f] /\ Received \subseteq covered[f] /\ InBatcher(batcher) \cap covered[f] = {}
            BY <2>2, <3>1, <3>2 DEF CutAt
        <3> QED BY <1>1, <2>3, <2>4, <3>3, <3>4 DEF CutAt
    <2>6. ASSUME NEW f \in Flushes, AtConsumer(f)' PROVE CutHere(covered[f])'
        <3>1. IsBarrier(Head(batcher.ch)) /\ BarrierAt(1, f)
            BY <2>1, <2>6, WorkBarriers DEF AtConsumer
        <3>2. CutAt(1, covered[f]) /\ H = {}
            BY <3>1 DEF CutsOK, H, Carried
        <3>3. Received' \subseteq covered[f] /\ InBatcher(batcher)' \cap covered[f] = {}
            BY <2>3, <2>4, <3>2 DEF CutAt
        <3>4. \A j \in DOMAIN batcher'.ch : Carried(batcher'.ch[j]) \cap covered[f] = {}
            BY <2>2, <3>2 DEF CutAt
        <3>5. Channel(batcher.ch)' \cap covered[f] = {}
            BY <3>4 DEF Channel
        <3> QED BY <1>1, <3>3, <3>5 DEF CutHere
    <2> QED BY <1>5, <2>5, <2>6
<1>8. CASE ~ (SendBatch \/ DropBatch \/ Receive)
    <2>1. UNCHANGED batcher
        BY <1>8, SessionFrame DEF WorkStep, ConsumerStep, AwaitSubmission, FailBatch,
                                  ReachBarrier, ConsumerDrains,
                    AwaitAck, SessionUnchanged
    <2>2. Received' \subseteq Received
        BY <1>8, ReceivedMoves
    <2>3. InBatcher(batcher)' = InBatcher(batcher) /\ Channel(batcher.ch)' = Channel(batcher.ch)
        BY <2>1 DEF InBatcher
    <2>4. ASSUME NEW f \in Flushes, NEW i, BarrierAt(i, f)' PROVE CutAt(i, covered[f])'
        <3>1. CutAt(i, covered[f])
            BY <2>1, <2>4 DEF BarrierAt, CutsOK
        <3> QED BY <1>1, <2>1, <2>2, <2>3, <3>1 DEF CutAt
    <2>5. ASSUME NEW f \in Flushes, AtConsumer(f)' PROVE CutHere(covered[f])'
        <3>1. AtConsumer(f)
            BY <1>8, <2>5, WorkBarriers
        <3>2. CutHere(covered[f])
            BY <3>1 DEF CutsOK
        <3> QED BY <1>1, <2>2, <2>3, <3>2 DEF CutHere
    <2> QED BY <1>5, <2>4, <2>5
<1> QED BY <1>6, <1>7, <1>8

(* Every step keeps the cuts. *)
LEMMA CutsKeeps ==
    ASSUME ProducerInv, FlowInv, PhasesOK, CutsOK, StepKind
    PROVE  CutsOK'
<1>1. CASE Quiet /\ (OffBarrier \/ \E f \in Flushes : FlushAction(f))
    BY <1>1, CutsQuiet
<1>2. ASSUME NEW r \in Records, Entering(r) PROVE CutsOK'
    BY <1>2, CutsEnter
<1>3. ASSUME NEW f \in Flushes, BarrierSent(f) PROVE CutsOK'
    BY <1>3, CutsSent
<1> QED BY <1>1, <1>2, <1>3, CutsWork DEF StepKind, Background, Calm

-----------------------------------------------------------------------------
(* What the barriers report.                                               *)

(* A record that failed, or whose failure nobody is told. *)
Bad(r) == r \notin Watched \/ outcome[r].is = "failed"

(* A batch that waits fails: its records are told. *)
LEMMA BatchFails ==
    ASSUME ProducerInv, FlowInv, OutcomesOK, NEW o, FullBatch(o), o.records \in Seq(Records),
           NEW err \in Errs, outcome' = Resolved(o.meta, AllFailed(o.meta, err)),
           RecordsOf(o.records) \subseteq Pending
    PROVE  \E r \in RecordsOf(o.records) : Bad(r)'
<1> DEFINE results == AllFailed(o.meta, err)
<1>1. \A k \in DOMAIN o.meta : results[k] = Failed(err) /\ results[k] \in Outcomes /\ results[k] # Unresolved
    BY OutcomeShapes DEF AllFailed
<1>2. outcome \in [Records -> Outcomes] /\ outcome' = Resolved(o.meta, results)
    BY InvSession
<1> HIDE DEF results
<1>3. \A r \in Records :
          /\ outcome'[r] = Unresolved <=> outcome[r] = Unresolved /\ r \notin MetaRecords(o.meta)
          /\ \/ outcome'[r] = outcome[r]
             \/ \E k \in DOMAIN o.meta : o.meta[k].record = r /\ outcome'[r] = results[k]
    BY <1>1, <1>2, ResolvedFields
<1>4. PICK r \in RecordsOf(o.records) : r \in Records
    BY RecordsOfSeq DEF FullBatch
<1>5. ASSUME r \in Watched PROVE outcome'[r].is = "failed"
    <2>1. r \in MetaRecords(o.meta) /\ r \in Pending /\ Pending \subseteq RecordsOf(added)
        BY <1>4, <1>5, PlacesApart DEF FullBatch, FullMeta
    <2>2. outcome[r] = Unresolved
        BY <1>5, <2>1 DEF OutcomesOK
    <2>3. outcome'[r] = Failed(err)
        BY <1>1, <1>3, <1>4, <2>1, <2>2
    <2> QED BY <2>3, OutcomeShapes
<1> QED BY <1>4, <1>5 DEF Bad

(* dispatchBatchError notes the first error and keeps it. *)
LEMMA DispatchedNotes ==
    ASSUME NEW p \in ProducerType, NEW meta, NEW err \in Errs
    PROVE  DispatchedError(p, meta, err).appendErr # NoErr
<1>1. NoErr \notin Errs
    BY DEF Errs, NoErr, ErrSessionClosed, ErrContext, ErrAppend
<1> QED BY <1>1 DEF DispatchedError, ReleasePermits, ProducerType

(* A record fails with its batch before it is sent, or appendErr tells.    *)
LEMMA FailureSteps ==
    ASSUME ProducerInv, FlowInv, MetaOK, OutcomesOK, WorkStep
    PROVE  \/ /\ producer'.appendErr = producer.appendErr
              /\ \A r \in Records :
                    outcome'[r].is = "failed" =>
                        \/ outcome[r].is = "failed"
                        \/ DropBatch /\ r \in RecordsOf(batcher.out.records)
           \/ /\ producer'.appendErr # NoErr
              /\ \/ Receive /\ UNCHANGED consumer /\ \E r \in Carried(Head(batcher.ch)) : Bad(r)'
                 \/ UNCHANGED batcher /\ \E r \in Received : Bad(r)'
<1>1. /\ producer \in ProducerType /\ closer \in [Closers -> CloserStates] /\ SessionTypes
      /\ WorkTypes /\ outcome \in [Records -> Outcomes] /\ batcher \in BatcherType
      /\ ErrContext \in Errs /\ ErrAppend \in Errs
    BY InvFacts, InvSession DEF Errs
<1>2. ASSUME UNCHANGED outcome,
             \/ UNCHANGED producer
             \/ \E err \in Errs : Becomes(RecordTerminalError(producer, err), closer)
      PROVE  /\ producer'.appendErr = producer.appendErr
             /\ \A r \in Records : outcome'[r].is = "failed" => outcome[r].is = "failed"
    BY <1>1, <1>2, KeptBy DEF Becomes, Kept
<1>3. CASE \/ SendBatch \/ AwaitSubmission \/ ReachBarrier \/ ConsumerDrains
           \/ SessionMoves
    <2>1. /\ UNCHANGED outcome
          /\ \/ UNCHANGED producer
             \/ \E err \in Errs : Becomes(RecordTerminalError(producer, err), closer)
        <3>1. CASE AwaitSubmission
            BY <1>1, <3>1 DEF AwaitSubmission
        <3>2. CASE SendBatch \/ ReachBarrier \/ ConsumerDrains \/ SessionMoves
            BY <3>2, SessionFrame DEF SendBatch, ReachBarrier, ConsumerDrains, SessionUnchanged
        <3> QED BY <1>3, <3>1, <3>2
    <2> QED BY <1>2, <2>1
<1>4. CASE DropBatch
    <2> DEFINE o == batcher.out
               results == AllFailed(o.meta, ErrContext)
    <2>1. /\ producer' = ReleasePermits(producer, MetaRecords(o.meta))
          /\ outcome' = Resolved(o.meta, results) /\ Sending(batcher)
        BY <1>4 DEF DropBatch
    <2>2. producer'.appendErr = producer.appendErr
        BY <1>1, <2>1, KeptBy DEF Kept
    <2>3. MetaRecords(o.meta) \subseteq RecordsOf(o.records)
        BY <2>1 DEF MetaOK, BatcherFull, FullBatch, FullMeta, Sending
    <2>4. \A k \in DOMAIN o.meta : results[k] \in Outcomes /\ results[k] # Unresolved
        BY <1>1, OutcomeShapes DEF AllFailed
    <2> HIDE DEF results
    <2>5. \A r \in Records : \/ outcome'[r] = outcome[r]
                             \/ \E k \in DOMAIN o.meta : o.meta[k].record = r
        BY <1>1, <2>1, <2>4, ResolvedFields
    <2>6. \A r \in Records : outcome'[r] = outcome[r] \/ r \in RecordsOf(o.records)
        BY <2>3, <2>5 DEF MetaRecords
    <2> QED BY <1>4, <2>2, <2>6
<1>5. CASE Receive
    <2> DEFINE o == Head(batcher.ch)
    <2>1. CASE ~ IsBarrier(o) /\ producer.terminalErr # NoErr
        <3>1. /\ producer' = DispatchedError(producer, o.meta, producer.terminalErr)
              /\ outcome' = Resolved(o.meta, AllFailed(o.meta, producer.terminalErr))
              /\ UNCHANGED consumer /\ batcher.ch # <<>>
            BY <1>5, <2>1 DEF Receive
        <3>2. producer.terminalErr \in Errs
            BY <1>1, <2>1 DEF ProducerType
        <3>3. batcher.ch \in Seq(Outputs) /\ o \in Outputs
            BY <1>1, <3>1, LineTypes
        <3>4. FullBatch(o)
            BY <2>1, <3>1, <3>3, ChannelFull DEF MetaOK, BatcherFull
        <3>5. o.records \in Seq(Records)
            BY <2>1, <3>3, BatchShape DEF Outputs, IsBarrier, Batch
        <3>6. Carried(o) = RecordsOf(o.records) /\ Carried(o) \subseteq Pending
            BY <2>1, <3>1, <3>3, ChannelSteps DEF Carried, Pending
        <3>7. \E r \in RecordsOf(o.records) : Bad(r)'
            BY <3>1, <3>2, <3>4, <3>5, <3>6, BatchFails
        <3> QED BY <1>1, <1>5, <3>1, <3>2, <3>6, <3>7, DispatchedNotes
    <2>2. CASE IsBarrier(o) \/ producer.terminalErr = NoErr
        <3>1. /\ UNCHANGED outcome
              /\ \/ UNCHANGED producer
                 \/ \E err \in Errs : Becomes(RecordTerminalError(producer, err), closer)
            BY <1>1, <1>5, <2>2 DEF Receive
        <3> QED BY <1>2, <3>1
    <2> QED BY <2>1, <2>2
<1>6. CASE FailBatch
    <2> DEFINE o == consumer.batch
    <2>1. /\ producer' = DispatchedError(producer, o.meta, producer.terminalErr)
          /\ outcome' = Resolved(o.meta, AllFailed(o.meta, producer.terminalErr))
          /\ UNCHANGED batcher /\ consumer.at = "failing"
        BY <1>6 DEF FailBatch
    <2>2. producer.terminalErr \in Errs
        BY <1>1, <2>1, InvSession DEF ProducerType, ConsumerOK
    <2>3. FullBatch(o) /\ o.records \in Seq(Records) /\ RecordsOf(o.records) \subseteq Pending
        BY <1>1, <2>1 DEF MetaOK, WorkTypes, Batch, Pending, WithConsumer
    <2>4. \E r \in RecordsOf(o.records) : Bad(r)'
        BY <2>1, <2>2, <2>3, BatchFails
    <2> QED BY <1>1, <2>1, <2>2, <2>4, DispatchedNotes DEF Received
<1>7. ASSUME NEW i \in DOMAIN tickets, AwaitAck(i)
      PROVE  \/ /\ producer'.appendErr = producer.appendErr
                /\ \A r \in Records : outcome'[r].is = "failed" => outcome[r].is = "failed"
             \/ producer'.appendErr # NoErr /\ UNCHANGED batcher /\ \E r \in Received : Bad(r)'
    <2> DEFINE o == tickets[i].batch
    <2>1. tickets[i] \in Ticket /\ i \in ackWaiters /\ UNCHANGED batcher
        BY <1>1, <1>7 DEF SessionTypes, AwaitAck
    <2>2. o.records \in Seq(Records) /\ o.meta \in Seq(Metas) /\ tickets[i].start \in Nat
        BY <2>1 DEF Ticket, Batch
    <2>3. /\ FullBatch(o) /\ RecordsOf(o.records) \subseteq Pending
          /\ RecordsOf(o.records) \subseteq Received
        BY <2>1 DEF MetaOK, Pending, WithConsumer, TicketRecords, Received, Submitted
    <2>4. CASE tickets[i].is = "acked"
        <3> DEFINE results == [k \in DOMAIN o.meta |-> IndexedAck(tickets[i], o.meta[k])]
        <3>1. /\ producer' = ReleasePermits(producer, MetaRecords(o.meta))
              /\ outcome' = Resolved(o.meta, results)
            BY <1>7, <2>4 DEF AwaitAck
        <3>2. producer'.appendErr = producer.appendErr
            BY <1>1, <3>1, KeptBy DEF Kept
        <3>3. \A k \in DOMAIN o.meta : o.meta[k] \in Metas
            BY <2>2
        <3>4. \A k \in DOMAIN o.meta : tickets[i].start + o.meta[k].index \in Nat
            BY <2>2, <3>3 DEF Metas
        <3>5. \A k \in DOMAIN o.meta :
                  results[k] \in Outcomes /\ results[k] # Unresolved /\ results[k].is # "failed"
            BY <3>4, OutcomeShapes DEF IndexedAck
        <3> HIDE DEF results
        <3>6. \A r \in Records : \/ outcome'[r] = outcome[r]
                                 \/ \E k \in DOMAIN o.meta : o.meta[k].record = r /\ outcome'[r] = results[k]
            BY <1>1, <3>1, <3>5, ResolvedFields
        <3> QED BY <3>2, <3>5, <3>6
    <2>5. CASE tickets[i].is # "acked"
        <3>1. PICK err \in Errs :
                  LET p == RecordTerminalError(producer, err)
                  IN  /\ Becomes(DispatchedError(p, o.meta, p.terminalErr), closer)
                      /\ outcome' = Resolved(o.meta, AllFailed(o.meta, p.terminalErr))
            BY <1>7, <2>5 DEF AwaitAck, Errs
        <3> DEFINE p == RecordTerminalError(producer, err)
        <3>2. /\ producer' = DispatchedError(p, o.meta, p.terminalErr)
              /\ outcome' = Resolved(o.meta, AllFailed(o.meta, p.terminalErr))
            BY <3>1 DEF Becomes
        <3>3. p \in ProducerType /\ p.terminalErr \in Errs
            BY <1>1, RecordTerminalErrorKeeps DEF SamePermits
        <3> HIDE DEF p
        <3>4. producer'.appendErr # NoErr
            BY <3>2, <3>3, DispatchedNotes
        <3>5. \E r \in RecordsOf(o.records) : Bad(r)'
            BY <2>2, <2>3, <3>2, <3>3, BatchFails
        <3> QED BY <2>1, <2>3, <3>4, <3>5
    <2> QED BY <2>4, <2>5
<1> QED BY <1>3, <1>4, <1>5, <1>6, <1>7, Zenon DEF WorkStep, ConsumerStep

AllAcked(S) == \A r \in S \cap Watched : outcome[r].is = "acked"
SomeBad(S) == \E r \in S : Bad(r)

(* What a Flush will report: a record it covers and that failed has been   *)
(* noted in appendErr once its barrier is sent; appendErr is due to a      *)
(* record that every barrier still to be reported covers; and what was     *)
(* reported is so.                                                         *)
Ahead(f) == AtLock(f) \/ InLine(f) \/ AtConsumer(f)
Past(f) ==
    \/ batcher.mu.op = "barrierSend" /\ batcher.mu.who = f
    \/ InLine(f) \/ AtConsumer(f)
ErrorsOK ==
    /\ \A f \in Flushes : Past(f) =>
          \A r \in covered[f] \cap Watched : outcome[r].is = "failed" => producer.appendErr # NoErr
    /\ producer.appendErr # NoErr =>
          \E r \in RecordsOf(added) : Bad(r) /\ \A f \in Flushes : Ahead(f) => r \in covered[f]
    /\ \A f \in Flushes :
          /\ barrier[f] = NoErr \/ call[f] = "ok" => AllAcked(covered[f])
          /\ barrier[f] \notin {NoErr, "none"} \/ call[f] = "failed" => SomeBad(covered[f])

(* recordMeta.resolve: an outcome is final. *)
LEMMA OutcomesFinal ==
    ASSUME ProducerInv, StepKind
    PROVE  \A r \in Records : outcome[r] # Unresolved => outcome'[r] = outcome[r]
<1>1. CASE UNCHANGED outcome
    BY <1>1
<1>2. ASSUME NEW meta, NEW results, outcome' = Resolved(meta, results)
      PROVE  \A r \in Records : outcome[r] # Unresolved => outcome'[r] = outcome[r]
    BY <1>2 DEF Resolved
<1>3. CASE WorkStep
    <2>1. UNCHANGED outcome \/ \E meta, results : outcome' = Resolved(meta, results)
        <3>1. CASE DropBatch
            BY <3>1 DEF DropBatch
        <3>2. CASE Receive
            BY <3>2 DEF Receive
        <3>3. CASE FailBatch
            BY <3>3 DEF FailBatch
        <3>4. CASE \E i \in DOMAIN tickets : AwaitAck(i)
            BY <3>4 DEF AwaitAck
        <3>5. CASE \/ SendBatch \/ AwaitSubmission \/ ReachBarrier \/ ConsumerDrains
                   \/ SessionMoves
            BY <3>5, SessionFrame DEF SendBatch, AwaitSubmission, ReachBarrier, ConsumerDrains,
                                      SessionUnchanged
        <3> QED BY <1>3, <3>1, <3>2, <3>3, <3>4, <3>5 DEF WorkStep, ConsumerStep
    <2> QED BY <1>1, <1>2, <2>1
<1> QED BY <1>1, <1>3 DEF StepKind, Background, Calm, Quiet, Entering, BarrierSent

(* So are a failure and an acknowledgement. *)
LEMMA ReportsStay ==
    ASSUME ProducerInv, StepKind, NEW S, S \subseteq Records
    PROVE  /\ AllAcked(S) => \A r \in S \cap Watched : outcome'[r].is = "acked"
           /\ \A r \in S : Bad(r) => Bad(r)'
<1>1. \A r \in Records : outcome[r] # Unresolved => outcome'[r] = outcome[r]
    BY OutcomesFinal
<1> QED BY <1>1 DEF AllAcked, Bad, Unresolved

(* Once its barrier is sent, a Flush covers what it covers. *)
LEMMA CoveredFinal ==
    ASSUME ProducerInv, AddedOK, PhasesOK, StepKind, NEW f \in Flushes, ordered[f] = "nil"
    PROVE  covered'[f] = covered[f]
<1>1. ASSUME NEW g \in Flushes, FlushAction(g), Quiet PROVE covered'[f] = covered[f]
    <2>1. Others(g) /\ (Begins(g) \/ Locking(g) \/ Returning(g))
        BY <1>1, FlushFields
    <2>2. CASE g = f
        BY <2>1, <2>2 DEF PhasesOK, Begins, Locking, Returning
    <2> QED BY <2>1, <2>2 DEF Others
<1>2. CASE WorkStep
    BY <1>2, WorkFields
<1> QED BY <1>1, <1>2 DEF StepKind, Background, Calm, OffBarrier, Entering, BarrierSent, flushVars

(* Where a barrier comes from. *)
LEMMA BarriersMove ==
    ASSUME ProducerInv, AddedOK, PhasesOK, StepKind, NEW f \in Flushes, InLine(f)' \/ AtConsumer(f)'
    PROVE  /\ \/ InLine(f) \/ AtConsumer(f)
              \/ batcher.mu.op = "barrierSend" /\ batcher.mu.who = f
           /\ covered'[f] = covered[f]
<1>1. CASE InLine(f) \/ AtConsumer(f)
    <2>1. ordered[f] = "nil"
        BY <1>1 DEF PhasesOK
    <2> QED BY <1>1, <2>1, CoveredFinal
<1>2. CASE Quiet \/ \E r \in Records : Entering(r)
    BY <1>1, <1>2, StillBarriers
<1>3. ASSUME NEW g \in Flushes, BarrierSent(g)
      PROVE  /\ \/ InLine(f) \/ AtConsumer(f)
                \/ batcher.mu.op = "barrierSend" /\ batcher.mu.who = f
             /\ covered'[f] = covered[f]
    <2>1. (InLine(f) \/ AtConsumer(f)) \/ f = g
        BY <1>3, SentBarriers DEF InLine, BarrierAt
    <2>2. /\ batcher.mu = [op |-> "barrierSend", who |-> g] /\ UNCHANGED covered
        BY <1>3 DEF BarrierSent, BarrierSends
    <2> QED BY <2>1, <2>2
<1>4. CASE WorkStep
    <2>1. InLine(f) \/ AtConsumer(f)
        BY <1>4, WorkBarriers DEF InLine, BarrierAt
    <2> QED BY <1>1, <2>1
<1> QED BY <1>2, <1>3, <1>4 DEF StepKind, Background, Calm

(* A barrier that is sent knows of the failures before it: flushBarrier    *)
(* does not send it once the context of the batcher has ended, and batches *)
(* dropped later come after it.                                            *)
LEMMA PastKeeps ==
    ASSUME ProducerInv, FlowInv, MetaOK, OutcomesOK, PhasesOK, CutsOK, ErrorsOK, StepKind,
           NEW f \in Flushes, Past(f)'
    PROVE  \A r \in covered'[f] \cap Watched : outcome'[r].is = "failed" => producer'.appendErr # NoErr
<1>0. AddedOK /\ Watched \subseteq Records
    BY BatcherAssumption DEF FlowInv
<1>1. ASSUME Past(f), covered'[f] = covered[f], UNCHANGED outcome,
             producer'.appendErr = producer.appendErr
      PROVE  \A r \in covered'[f] \cap Watched :
                 outcome'[r].is = "failed" => producer'.appendErr # NoErr
    BY <1>1 DEF ErrorsOK
<1>2. CASE Quiet /\ OffBarrier
    <2>1. Past(f)
        BY <1>2, StillBarriers DEF OffBarrier, Past
    <2> QED BY <1>1, <1>2, <2>1 DEF Quiet, OffBarrier, flushVars, Kept
<1>3. ASSUME NEW g \in Flushes, FlushAction(g), Quiet
      PROVE  \A r \in covered'[f] \cap Watched :
                 outcome'[r].is = "failed" => producer'.appendErr # NoErr
    <2>1. Others(g) /\ (Begins(g) \/ Locking(g) \/ Returning(g))
        BY <1>0, <1>3, FlushFields
    <2>2. UNCHANGED outcome /\ producer'.appendErr = producer.appendErr
        BY <1>3 DEF Quiet, Kept
    <2>3. CASE InLine(f)' \/ AtConsumer(f)'
        <3>1. InLine(f) \/ AtConsumer(f)
            BY <1>3, <2>3, StillBarriers
        <3>2. covered'[f] = covered[f]
            BY <1>0, <2>3, BarriersMove
        <3> QED BY <1>1, <2>2, <3>1, <3>2 DEF Past
    <2>4. CASE batcher'.mu.op = "barrierSend" /\ batcher'.mu.who = f
        <3>1. CASE g = f /\ Locking(f)
            <4>1. ~ batcher.ctx
                BY <2>4, <3>1 DEF Locking
            <4>2. \A r \in Records : outcome[r].is = "failed" => producer.appendErr # NoErr
                BY <4>1 DEF OutcomesOK, FailureKnown
            <4> QED BY <1>0, <2>2, <4>2
        <3>2. CASE g # f \/ ~ Locking(f)
            <4>1. batcher'.mu = batcher.mu
                BY <2>1, <2>4, <3>2 DEF Begins, Locking, Returning
            <4>2. Past(f) /\ AtLock(f)
                BY <2>4, <4>1 DEF Past, AtLock
            <4>3. covered'[f] = covered[f]
                BY <2>1, <3>2, <4>2 DEF Others, Begins, Returning, PhasesOK
            <4> QED BY <1>1, <2>2, <4>2, <4>3
        <3> QED BY <3>1, <3>2
    <2> QED BY <2>3, <2>4 DEF Past
<1>4. ASSUME NEW r \in Records, Entering(r)
      PROVE  \A s \in covered'[f] \cap Watched :
                 outcome'[s].is = "failed" => producer'.appendErr # NoErr
    <2>1. InLine(f) \/ AtConsumer(f)
        BY <1>4, StillBarriers DEF Entering, Past
    <2> QED BY <1>1, <1>4, <2>1 DEF Entering, flushVars, Past
<1>5. ASSUME NEW g \in Flushes, BarrierSent(g)
      PROVE  \A r \in covered'[f] \cap Watched :
                 outcome'[r].is = "failed" => producer'.appendErr # NoErr
    <2>1. batcher'.mu.op # "barrierSend"
        BY <1>5, HolderNames DEF BarrierSent
    <2>2. Past(f)
        BY <1>0, <2>1, BarriersMove DEF Past
    <2> QED BY <1>1, <1>5, <2>2 DEF BarrierSent
<1>6. CASE WorkStep
    <2>1. covered'[f] = covered[f] /\ (batcher'.mu = Free \/ batcher'.mu = batcher.mu)
        BY <1>0, <1>6, WorkFields
    <2>2. Past(f)
        BY <1>0, <2>1, BarriersMove, HolderNames DEF Past
    <2>3. CASE producer'.appendErr # NoErr
        BY <2>3
    <2>4. CASE /\ producer'.appendErr = producer.appendErr
               /\ \A r \in Records :
                    outcome'[r].is = "failed" =>
                        \/ outcome[r].is = "failed"
                        \/ DropBatch /\ r \in RecordsOf(batcher.out.records)
        <3>1. ASSUME NEW r \in covered[f], DropBatch, r \in RecordsOf(batcher.out.records)
              PROVE  FALSE
            <4>1. r \in InBatcher(batcher) /\ Sending(batcher)
                BY <3>1 DEF InBatcher, DropBatch
            <4>2. batcher.mu.op # "barrierSend"
                BY <4>1, InvFacts DEF BatcherOK, LockOK
            <4>3. InBatcher(batcher) \cap covered[f] = {}
                BY <2>2, <4>2 DEF Past, InLine, CutsOK, CutAt, CutHere
            <4> QED BY <3>1, <4>1, <4>3
        <3> QED BY <1>0, <2>1, <2>2, <2>4, <3>1 DEF ErrorsOK
    <2> QED BY <1>6, <2>3, <2>4, FailureSteps
<1> QED BY <1>2, <1>3, <1>4, <1>5, <1>6 DEF StepKind, Background, Calm

(* appendErr is never made up: the first error is that of a batch before   *)
(* every barrier that is still to be reported.                             *)
LEMMA NotedKeeps ==
    ASSUME ProducerInv, FlowInv, MetaOK, OutcomesOK, PhasesOK, CutsOK, ErrorsOK, StepKind,
           CutsOK', producer'.appendErr # NoErr
    PROVE  \E r \in RecordsOf(added') : Bad(r)' /\ \A f \in Flushes : Ahead(f)' => r \in covered'[f]
<1>0. /\ AddedOK /\ LineOK(batcher, added, Received) /\ added \in Seq(Records)
      /\ RecordsOf(added) \subseteq Records
    BY InvFacts, RecordsOfSeq DEF FlowInv, TypeOK
<1>1. RecordsOf(added) \subseteq RecordsOf(added')
    <2>1. ASSUME NEW r \in Records, Entering(r) PROVE RecordsOf(added) \subseteq RecordsOf(added')
        BY <1>0, <2>1, RecordsOfSeq DEF Entering
    <2>2. CASE WorkStep
        BY <1>0, <2>2, WorkFields
    <2> QED BY <2>1, <2>2 DEF StepKind, Background, Calm, Quiet, BarrierSent
<1>2. ASSUME NEW r \in RecordsOf(added), Bad(r)',
             \A f \in Flushes : InLine(f)' \/ AtConsumer(f)' => r \in covered'[f]
      PROVE  \E x \in RecordsOf(added') : Bad(x)' /\ \A f \in Flushes : Ahead(f)' => x \in covered'[f]
    <2>1. r \in RecordsOf(added')
        BY <1>1
    <2>2. \A f \in Flushes : AtLock(f)' => r \in covered'[f]
        BY <2>1 DEF CutsOK
    <2>3. \A f \in Flushes : Ahead(f)' => r \in covered'[f]
        BY <1>2, <2>2 DEF Ahead
    <2> QED BY <1>2, <2>1, <2>3
<1>3. CASE producer.appendErr # NoErr
    <2>1. PICK r \in RecordsOf(added) : Bad(r) /\ \A f \in Flushes : Ahead(f) => r \in covered[f]
        BY <1>3 DEF ErrorsOK
    <2>2. Bad(r)'
        BY <1>0, <2>1, ReportsStay
    <2>3. ASSUME NEW f \in Flushes, InLine(f)' \/ AtConsumer(f)' PROVE r \in covered'[f]
        BY <1>0, <2>1, <2>3, BarriersMove DEF Ahead, AtLock
    <2> QED BY <1>2, <2>2, <2>3
<1>4. CASE producer.appendErr = NoErr
    <2>1. WorkStep
        BY <1>4 DEF StepKind, Background, Calm, Quiet, Kept, Entering, BarrierSent
    <2>2. Channel(batcher.ch) \cup Received \subseteq RecordsOf(added)
        BY <1>0 DEF LineOK
    <2>3. CASE UNCHANGED batcher /\ \E r \in Received : Bad(r)'
        <3>1. PICK r \in Received : Bad(r)'
            BY <2>3
        <3>2. ASSUME NEW f \in Flushes, InLine(f)' \/ AtConsumer(f)' PROVE r \in covered'[f]
            <4>1. InLine(f) \/ AtConsumer(f)
                BY <2>1, <3>2, WorkBarriers DEF InLine, BarrierAt
            <4>2. Received \subseteq covered[f]
                BY <4>1 DEF InLine, CutsOK, CutAt, CutHere
            <4>3. covered'[f] = covered[f]
                BY <1>0, <3>2, BarriersMove
            <4> QED BY <4>2, <4>3
        <3> QED BY <1>2, <2>2, <3>1, <3>2
    <2>4. CASE Receive /\ UNCHANGED consumer /\ \E r \in Carried(Head(batcher.ch)) : Bad(r)'
        <3> DEFINE H == Carried(Head(batcher.ch))
        <3>1. PICK r \in H : Bad(r)'
            BY <2>4
        <3>2. batcher.ch \in Seq(Outputs) /\ batcher.ch # <<>> /\ consumer.at = "receive"
            BY <2>4, InvFacts, LineTypes DEF Receive
        <3>3. /\ 1 \in DOMAIN batcher.ch /\ Head(batcher.ch) = batcher.ch[1]
              /\ ~ IsBarrier(batcher.ch[1])
              /\ \A i \in DOMAIN batcher.ch : i = 1 \/ 1 < i
            <4>1. 1 \in DOMAIN batcher.ch /\ Head(batcher.ch) = batcher.ch[1]
                BY <3>2
            <4>2. \A i \in DOMAIN batcher.ch : i = 1 \/ 1 < i
                BY <3>2
            <4>3. ~ IsBarrier(batcher.ch[1])
                BY <3>1, <4>1 DEF Carried
            <4> QED BY <4>1, <4>2, <4>3
        <3>4. H \subseteq RecordsOf(added)
            BY <2>2, <3>3 DEF Channel
        <3>5. ASSUME NEW f \in Flushes, InLine(f)' \/ AtConsumer(f)' PROVE r \in covered'[f]
            <4>1. InLine(f)
                BY <2>1, <2>4, <3>2, <3>5, WorkBarriers DEF AtConsumer
            <4>2. PICK i \in DOMAIN batcher.ch : BarrierAt(i, f)
                BY <4>1 DEF InLine
            <4>3. 1 < i /\ CutAt(i, covered[f])
                BY <3>3, <4>2 DEF BarrierAt, CutsOK
            <4>4. H \subseteq covered[f]
                BY <3>3, <4>3 DEF CutAt
            <4>5. covered'[f] = covered[f]
                BY <1>0, <3>5, BarriersMove
            <4> QED BY <4>4, <4>5
        <3> HIDE DEF H
        <3> QED BY <1>2, <3>1, <3>4, <3>5
    <2> QED BY <1>4, <2>1, <2>3, <2>4, FailureSteps
<1> QED BY <1>3, <1>4

(* What is reported is so, and stays so. *)
LEMMA ReportsKeep ==
    ASSUME ProducerInv, FlowInv, MetaOK, OutcomesOK, PhasesOK, CutsOK, ErrorsOK, StepKind,
           NEW f \in Flushes
    PROVE  /\ barrier'[f] = NoErr \/ call'[f] = "ok" => AllAcked(covered[f])'
           /\ barrier'[f] \notin {NoErr, "none"} \/ call'[f] = "failed" => SomeBad(covered[f])'
<1>0. /\ AddedOK /\ covered[f] \subseteq Records /\ NoErr # "none"
    BY InvFacts DEF FlowInv, FlushTypes, NoErr
<1>1. ASSUME covered'[f] = covered[f], AllAcked(covered[f]) PROVE AllAcked(covered[f])'
    BY <1>0, <1>1, ReportsStay DEF AllAcked
<1>2. ASSUME covered'[f] = covered[f], SomeBad(covered[f]) PROVE SomeBad(covered[f])'
    <2>1. PICK r \in covered[f] : Bad(r)
        BY <1>2 DEF SomeBad
    <2>2. Bad(r)'
        BY <1>0, <2>1, ReportsStay
    <2> QED BY <1>2, <2>2 DEF SomeBad
<1>3. ASSUME call'[f] = "ok" PROVE AllAcked(covered[f])'
    <2>1. CASE call[f] = "ok"
        <3>1. covered'[f] = covered[f]
            BY <1>0, <2>1, CoveredFinal DEF PhasesOK
        <3> QED BY <1>1, <2>1, <3>1 DEF ErrorsOK
    <2>2. CASE call[f] # "ok"
        <3>1. PICK g \in Flushes : FlushAction(g) /\ Quiet
            BY <1>0, <1>3, <2>2, WorkFields DEF StepKind, Background, Calm, OffBarrier, Entering,
                                                BarrierSent, flushVars
        <3>2. g = f /\ Returning(f)
            BY <1>0, <1>3, <2>2, <3>1, FlushFields DEF Others, Begins, Locking
        <3> QED BY <1>1, <1>3, <3>2 DEF Returning, ErrorsOK
    <2> QED BY <2>1, <2>2
<1>4. ASSUME call'[f] = "failed" PROVE SomeBad(covered[f])'
    <2>1. CASE call[f] = "failed"
        <3>1. covered'[f] = covered[f]
            BY <1>0, <2>1, CoveredFinal DEF PhasesOK
        <3> QED BY <1>2, <2>1, <3>1 DEF ErrorsOK
    <2>2. CASE call[f] # "failed"
        <3>1. PICK g \in Flushes : FlushAction(g) /\ Quiet
            BY <1>0, <1>4, <2>2, WorkFields DEF StepKind, Background, Calm, OffBarrier, Entering,
                                                BarrierSent, flushVars
        <3>2. g = f /\ Returning(f)
            BY <1>0, <1>4, <2>2, <3>1, FlushFields DEF Others, Begins, Locking
        <3> QED BY <1>2, <1>4, <3>2 DEF Returning, ErrorsOK
    <2> QED BY <2>1, <2>2
<1>5. barrier'[f] = barrier[f] \/ (ReachBarrier /\ AtConsumer(f) /\ barrier'[f] = producer.appendErr)
    <2>1. ASSUME NEW g \in Flushes, FlushAction(g), Quiet PROVE UNCHANGED barrier
        BY <1>0, <2>1, FlushFields
    <2> QED BY <2>1, WorkBarriers DEF StepKind, Background, Calm, OffBarrier, Entering,
                                       BarrierSent, flushVars
<1>6. CASE barrier'[f] = barrier[f]
    <2>1. barrier[f] # "none" => covered'[f] = covered[f]
        BY <1>0, CoveredFinal DEF PhasesOK
    <2> QED BY <1>0, <1>1, <1>2, <1>3, <1>4, <1>6, <2>1 DEF ErrorsOK
<1>7. CASE ReachBarrier /\ AtConsumer(f) /\ barrier'[f] = producer.appendErr
    <2>1. /\ covered'[f] = covered[f] /\ CutHere(covered[f])
          /\ Past(f) /\ Ahead(f) /\ ackWaiters = {} /\ consumer.batch = NoBatch
        <3>1. covered'[f] = covered[f]
            BY <1>0, <1>7, CoveredFinal DEF PhasesOK
        <3> QED BY <1>7, <3>1 DEF CutsOK, Past, Ahead, ReachBarrier, MetaOK
    <2>2. ASSUME producer.appendErr = NoErr PROVE AllAcked(covered[f])
        <3> SUFFICES ASSUME NEW r \in covered[f] \cap Watched PROVE outcome[r].is = "acked"
            BY DEF AllAcked
        <3>1. WithConsumer = {}
            BY <2>1, RecordsOfSeq DEF WithConsumer, NoBatch
        <3>2. r \notin Pending
            BY <2>1, <3>1 DEF Pending, CutHere
        <3>3. r \in RecordsOf(added)
            BY DEF CutsOK
        <3>4. outcome[r] # Unresolved /\ outcome[r].is # "failed"
            BY <2>1, <2>2, <3>2, <3>3 DEF OutcomesOK, ErrorsOK
        <3>5. outcome[r] \in Outcomes
            BY <1>0, InvSession
        <3>6. \A e \in Errs : Failed(e).is = "failed"
            BY OutcomeShapes
        <3> QED BY <3>4, <3>5, <3>6 DEF Outcomes
    <2>3. ASSUME producer.appendErr # NoErr PROVE SomeBad(covered[f])
        BY <2>1, <2>3 DEF ErrorsOK, SomeBad
    <2> QED BY <1>1, <1>2, <1>3, <1>4, <1>7, <2>1, <2>2, <2>3
<1> QED BY <1>5, <1>6, <1>7

(* What holds of the barriers. *)
BarrierInv == PhasesOK /\ CutsOK /\ ErrorsOK

(* Every step keeps the account of the barriers.                           *)
LEMMA BarriersKeep ==
    ASSUME ProducerInv, FlowInv, MetaOK, OutcomesOK, BarrierInv, [Next]_<<vars, setup>>
    PROVE  BarrierInv'
<1>1. AddedOK /\ PhasesOK /\ CutsOK /\ ErrorsOK
    BY DEF FlowInv, BarrierInv
<1>2. StepKind
    BY <1>1, StepKinds
<1>3. PhasesOK' /\ CutsOK'
    BY <1>1, <1>2, PhasesKeeps, CutsKeeps
<1>4. /\ \A f \in Flushes : Past(f)' =>
             \A r \in covered'[f] \cap Watched : outcome'[r].is = "failed" => producer'.appendErr # NoErr
      /\ producer'.appendErr # NoErr =>
             \E r \in RecordsOf(added') : Bad(r)' /\ \A f \in Flushes : Ahead(f)' => r \in covered'[f]
    BY <1>1, <1>2, <1>3, PastKeeps, NotedKeeps
<1>5. \A f \in Flushes :
          /\ barrier'[f] = NoErr \/ call'[f] = "ok" => AllAcked(covered[f])'
          /\ barrier'[f] \notin {NoErr, "none"} \/ call'[f] = "failed" => SomeBad(covered[f])'
    BY <1>1, <1>2, ReportsKeep
<1>6. ErrorsOK'
    BY <1>4, <1>5 DEF ErrorsOK
<1> QED BY <1>3, <1>6 DEF BarrierInv

-----------------------------------------------------------------------------
(* What Close reports.                                                     *)

(* A closed batcher sends nothing more. *)
LEMMA ClosedStays ==
    ASSUME ProducerInv, AddedOK, StepKind, batcher.closed, ~ Sending(batcher)
    PROVE  batcher'.closed /\ ~ Sending(batcher') /\ batcher'.closeErr = batcher.closeErr
<1>1. batcher \in BatcherType /\ batcher.buffer = <<>>
    BY InvFacts DEF BatcherOK, ClosedOK
<1>2. CASE Quiet
    BY <1>1, <1>2 DEF Quiet, Moved, SameLine, FlushLine, Sending
<1>3. ASSUME NEW f \in Flushes, BarrierSent(f)
      PROVE  batcher'.closed /\ ~ Sending(batcher') /\ batcher'.closeErr = batcher.closeErr
    BY <1>3 DEF BarrierSent, Sending
<1>4. CASE WorkStep
    <2>1. UNCHANGED batcher \/ batcher' = [batcher EXCEPT !.ch = Tail(@)]
        BY <1>4, SessionFrame DEF WorkStep, SendBatch, DropBatch, ConsumerStep, Receive, AwaitSubmission,
                    FailBatch, ReachBarrier, ConsumerDrains, AwaitAck, SessionUnchanged
    <2> QED BY <1>1, <2>1, TakenFields DEF Sending
<1> QED BY <1>2, <1>3, <1>4 DEF StepKind, Background, Calm, Entering

(* The steps of close, as far as the caller of Close is concerned. *)
LEMMA CloseMoves ==
    ASSUME ProducerInv, CloseActions
    PROVE  \/ closer'["producer"] \notin {"returned", "ok", "failed"}
           \/ closer'["producer"] = closer["producer"]
           \/ /\ closer'["producer"] = "returned" /\ batcher.closed /\ ~ Sending(batcher)
              /\ batcher.closeErr # NoErr => producer'.terminalErr # NoErr
           \/ CloseReturns
<1>1. closer \in [Closers -> CloserStates] /\ "producer" \in Closers
    BY InvFacts DEF Closers
<1>2. CASE Close
    BY <1>1, <1>2 DEF Close
<1>3. ASSUME NEW w \in Closers, NEW v \in CloserStates, NEW p,
             Becomes(p, [closer EXCEPT ![w] = v])
      PROVE  /\ producer' = p
             /\ closer'["producer"] = IF w = "producer" THEN v ELSE closer["producer"]
    <2> DEFINE c == [closer EXCEPT ![w] = v]
    <2>1. c \in [Closers -> CloserStates] /\ c["producer"] = IF w = "producer" THEN v ELSE closer["producer"]
        BY <1>1
    <2> HIDE DEF c
    <2>2. Becomes(p, c)
        BY <1>3 DEF c
    <2> QED BY <2>1, <2>2, BecomesQuietly
<1>4. \A v : v \in {"returned", "sealing", "flushing"} => v \in CloserStates
    BY DEF CloserStates
<1>5. ASSUME NEW w \in Closers, Becomes(AfterClose(w, producer, batcher.closeErr), [closer EXCEPT ![w] = "returned"]),
             w = "producer" => batcher.closed /\ ~ Sending(batcher)
      PROVE  \/ closer'["producer"] = closer["producer"]
             \/ /\ closer'["producer"] = "returned" /\ batcher.closed /\ ~ Sending(batcher)
                /\ batcher.closeErr # NoErr => producer'.terminalErr # NoErr
    <2>1. /\ producer' = AfterClose(w, producer, batcher.closeErr)
          /\ closer'["producer"] = IF w = "producer" THEN "returned" ELSE closer["producer"]
        BY <1>3, <1>4, <1>5
    <2> QED BY <1>5, <2>1, AfterCloseKept
<1>6. ASSUME NEW w \in Closers, CloseLocks(w)
      PROVE  \/ closer'["producer"] \notin {"returned", "ok", "failed"}
             \/ closer'["producer"] = closer["producer"]
             \/ /\ closer'["producer"] = "returned" /\ batcher.closed /\ ~ Sending(batcher)
                /\ batcher.closeErr # NoErr => producer'.terminalErr # NoErr
    <2>1. CASE batcher.closed
        <3>1. ~ Sending(batcher)
            BY <1>6, InvFacts DEF CloseLocks, BatcherOK, LockOK
        <3>2. Becomes(AfterClose(w, producer, batcher.closeErr), [closer EXCEPT ![w] = "returned"])
            BY <1>6, <2>1 DEF CloseLocks
        <3> QED BY <1>5, <2>1, <3>1, <3>2
    <2>2. CASE ~ batcher.closed
        <3>1. PICK v \in {"flushing", "sealing"} : closer' = [closer EXCEPT ![w] = v]
            BY <1>6, <2>2 DEF CloseLocks
        <3> QED BY <1>1, <3>1
    <2> QED BY <2>1, <2>2
<1>7. ASSUME NEW w \in Closers, CloseUnlocks(w)
      PROVE  \/ closer'["producer"] \notin {"returned", "ok", "failed"}
             \/ closer'["producer"] = closer["producer"]
    BY <1>1, <1>7 DEF CloseUnlocks
<1>8. ASSUME NEW w \in Closers, CloseSeals(w)
      PROVE  \/ closer'["producer"] = closer["producer"]
             \/ /\ closer'["producer"] = "returned" /\ batcher.closed /\ ~ Sending(batcher)
                /\ batcher.closeErr # NoErr => producer'.terminalErr # NoErr
    <2>1. batcher.closed /\ ~ Sending(batcher)
        BY <1>8, InvFacts DEF CloseSeals, SealingOK, BatcherOK, LockOK
    <2>2. Becomes(AfterClose(w, producer, batcher.closeErr), [closer EXCEPT ![w] = "returned"])
        BY <1>8 DEF CloseSeals
    <2> QED BY <1>5, <2>1, <2>2
<1> QED BY <1>2, <1>6, <1>7, <1>8 DEF CloseActions, CloseStep

(* When Close has returned, the batcher is closed and its error is known;  *)
(* the consumer has ended with the channel and every waiter; and if Close  *)
(* returned nil, nothing failed.                                           *)
CloseOK ==
    /\ consumer.at = "done" => batcher.chClosed /\ batcher.ch = <<>> /\ ackWaiters = {}
    /\ closer["producer"] \in {"returned", "ok", "failed"} =>
          /\ batcher.closed /\ ~ Sending(batcher)
          /\ batcher.closeErr # NoErr => producer.terminalErr # NoErr
    /\ closer["producer"] \in {"ok", "failed"} => consumer.at = "done"
    /\ closer["producer"] = "ok" => \A r \in Records : outcome[r].is # "failed"

(* The end of the consumer is final. *)
LEMMA DoneKeeps ==
    ASSUME ProducerInv, AddedOK, StepKind, CloseOK
    PROVE  /\ consumer'.at = "done" => batcher'.chClosed /\ batcher'.ch = <<>> /\ ackWaiters' = {}
           /\ consumer.at = "done" => consumer'.at = "done"
           /\ consumer.at = "done" /\ ~ Sending(batcher) => UNCHANGED outcome
<1>1. /\ batcher \in BatcherType /\ batcher.ch \in Seq(Outputs) /\ WorkTypes
      /\ batcher.chClosed => ~ Sending(batcher)
    BY InvFacts, InvSession, LineTypes DEF BatcherOK, ClosedOK, LockOK
<1>2. CASE Quiet \/ \E r \in Records : Entering(r)
    <2>1. batcher'.ch = batcher.ch /\ UNCHANGED <<consumer, ackWaiters, outcome>>
        BY <1>2, StillBarriers DEF Quiet, Entering, workVars
    <2>2. batcher.chClosed => batcher'.chClosed
        <3>1. ASSUME NEW r \in Records, Entering(r) PROVE batcher.chClosed => batcher'.chClosed
            <4>1. Buffered(batcher, r).chClosed = batcher.chClosed
                BY <1>1 DEF Buffered, BatcherType
            <4> QED BY <3>1, <4>1 DEF Entering, Moved
        <3> QED BY <1>2, <3>1 DEF Quiet, Moved
    <2> QED BY <2>1, <2>2 DEF CloseOK
<1>3. ASSUME NEW f \in Flushes, BarrierSent(f)
      PROVE  ~ batcher.chClosed /\ UNCHANGED <<consumer, ackWaiters, outcome>>
    BY <1>3 DEF BarrierSent, workVars
<1>4. CASE WorkStep
    <2>1. batcher'.chClosed = batcher.chClosed
        BY <1>4, WorkFields
    <2>2. CASE SendBatch \/ DropBatch
        <3>1. ~ batcher.chClosed /\ Sending(batcher) /\ UNCHANGED consumer
            BY <1>1, <2>2 DEF SendBatch, DropBatch, workVars
        <3> QED BY <3>1 DEF CloseOK
    <2>3. CASE Receive \/ AwaitSubmission \/ FailBatch \/ ReachBarrier
        <3>1. consumer.at # "done" /\ consumer'.at # "done"
            <4>1. CASE Receive
                <5>1. consumer.at = "receive" /\ \/ UNCHANGED consumer
                                                 \/ \E at \in {"barrier", "failing", "submitted"} :
                                                       \E batch, who : ReceiveAt(at, batch, who)
                    BY <4>1 DEF Receive
                <5> QED BY <5>1 DEF ReceiveAt
            <4>2. CASE AwaitSubmission
                <5>1. consumer.at = "submitted" /\ (Receiving \/ consumer' = [consumer EXCEPT !.at = "failing"])
                    BY <4>2 DEF AwaitSubmission
                <5> QED BY <1>1, <5>1 DEF Receiving, ReceiveAt, WorkTypes
            <4>3. CASE FailBatch \/ ReachBarrier
                BY <4>3 DEF FailBatch, ReachBarrier, Receiving, ReceiveAt
            <4> QED BY <2>3, <4>1, <4>2, <4>3
        <3> QED BY <3>1
    <2>4. CASE ConsumerDrains
        <3>1. /\ batcher.ch = <<>> /\ batcher.chClosed /\ ackWaiters = {}
              /\ UNCHANGED <<batcher, ackWaiters, outcome>> /\ consumer'.at = "done"
            BY <2>4 DEF ConsumerDrains, ReceiveAt
        <3> QED BY <3>1
    <2>5. ASSUME NEW i \in DOMAIN tickets, AwaitAck(i)
          PROVE  consumer.at # "done" /\ UNCHANGED consumer
        BY <2>5 DEF AwaitAck, CloseOK
    <2>6. CASE SessionMoves
        <3>1. UNCHANGED <<batcher, consumer, ackWaiters, outcome>>
            BY <2>6, SessionFrame DEF SessionUnchanged, workVars
        <3> QED BY <3>1 DEF CloseOK
    <2> QED BY <1>4, <2>2, <2>3, <2>4, <2>5, <2>6 DEF WorkStep, ConsumerStep
<1> QED BY <1>2, <1>3, <1>4 DEF StepKind, Background, Calm, CloseOK

(* A terminal error is final. *)
LEMMA TerminalStays ==
    ASSUME ProducerInv, AddedOK, StepKind, producer.terminalErr # NoErr
    PROVE  producer'.terminalErr # NoErr
BY WorkFields DEF StepKind, Background, Calm, Quiet, Kept, Entering, BarrierSent

(* Every step keeps what Close reports. *)
LEMMA CloseKeepsOK ==
    ASSUME ProducerInv, AddedOK, OutcomesOK, StepKind, CloseOK
    PROVE  CloseOK'
<1>1. /\ consumer'.at = "done" => batcher'.chClosed /\ batcher'.ch = <<>> /\ ackWaiters' = {}
      /\ consumer.at = "done" => consumer'.at = "done"
      /\ consumer.at = "done" /\ ~ Sending(batcher) => UNCHANGED outcome
    BY DoneKeeps
<1>2. ASSUME batcher.closed, ~ Sending(batcher),
             batcher.closeErr # NoErr => producer'.terminalErr # NoErr
      PROVE  /\ batcher'.closed /\ ~ Sending(batcher')
             /\ batcher'.closeErr # NoErr => producer'.terminalErr # NoErr
    BY <1>2, ClosedStays
<1>3. CASE closer'["producer"] = closer["producer"]
    <2>1. closer["producer"] \in {"returned", "ok", "failed"} =>
              /\ batcher'.closed /\ ~ Sending(batcher')
              /\ batcher'.closeErr # NoErr => producer'.terminalErr # NoErr
        BY <1>2, TerminalStays DEF CloseOK
    <2>2. closer["producer"] \in {"ok", "failed"} => consumer'.at = "done" /\ UNCHANGED outcome
        BY <1>1 DEF CloseOK
    <2> QED BY <1>1, <1>3, <2>1, <2>2 DEF CloseOK, Sending
<1>4. CASE CloseReturns
    <2>1. /\ closer["producer"] = "returned" /\ consumer.at = "done"
          /\ LET p == IF producer.ctx THEN RecordTerminalError(producer, ErrContext) ELSE producer
             IN  Becomes(CancelCtx(p), [closer EXCEPT !["producer"] =
                                           IF p.terminalErr = NoErr THEN "ok" ELSE "failed"])
        BY <1>4 DEF CloseReturns
    <2>2. /\ batcher.closed /\ ~ Sending(batcher) /\ UNCHANGED outcome
          /\ batcher.closeErr # NoErr => producer.terminalErr # NoErr
        BY <1>1, <2>1 DEF CloseOK
    <2>3. /\ batcher'.closed /\ ~ Sending(batcher') /\ consumer'.at = "done"
          /\ batcher'.closeErr # NoErr => producer'.terminalErr # NoErr
        BY <1>1, <1>2, <2>1, <2>2, TerminalStays
    <2> DEFINE p == IF producer.ctx THEN RecordTerminalError(producer, ErrContext) ELSE producer
               v == IF p.terminalErr = NoErr THEN "ok" ELSE "failed"
               c == [closer EXCEPT !["producer"] = v]
    <2>4. /\ closer \in [Closers -> CloserStates] /\ "producer" \in Closers /\ v \in CloserStates
          /\ producer \in ProducerType /\ ErrContext \in Errs /\ NoErr \notin Errs
        BY InvFacts DEF Closers, CloserStates, Errs, NoErr, ErrSessionClosed, ErrContext, ErrAppend
    <2>5. p.terminalErr = NoErr => producer.terminalErr = NoErr
        BY <2>4, RecordTerminalErrorKeeps
    <2>6. (v = "ok" <=> p.terminalErr = NoErr) /\ v \in {"ok", "failed"}
        OBVIOUS
    <2>7. Becomes(CancelCtx(p), c)
        BY <2>1
    <2> HIDE DEF p, v
    <2>8. c \in [Closers -> CloserStates] /\ c["producer"] = v
        BY <2>4
    <2> HIDE DEF c
    <2>9. closer'["producer"] = v
        BY <2>7, <2>8, BecomesQuietly
    <2>10. v = "ok" => \A r \in Records : outcome[r].is # "failed"
        BY <2>2, <2>5, <2>6 DEF OutcomesOK, FailureKnown
    <2> QED BY <1>1, <2>2, <2>3, <2>6, <2>9, <2>10 DEF CloseOK, Sending
<1>5. CASE \/ closer'["producer"] \notin {"returned", "ok", "failed"}
           \/ /\ closer'["producer"] = "returned" /\ batcher.closed /\ ~ Sending(batcher)
              /\ batcher.closeErr # NoErr => producer'.terminalErr # NoErr
    BY <1>1, <1>2, <1>5 DEF CloseOK, Sending
<1> QED BY <1>3, <1>4, <1>5, CloseMoves, WorkFields DEF StepKind, Background, SameClose,
                                                        Entering, BarrierSent

-----------------------------------------------------------------------------
(* What is held, and why Close reports an error.                           *)

(* A record being added has entered, or its Add holds mu until a flush is  *)
(* over.                                                                   *)
AddingOK ==
    \A r \in Records : pc[r] = "adding" =>
        r \in RecordsOf(added) \/ (batcher.mu.op = "add" /\ batcher.mu.who = r)

(* Records come to that point, and Add comes to hold mu and gives it up, in*)
(* this way only.                                                          *)
LEMMA AddingStays ==
    ASSUME AddingOK, RecordsOf(added) \subseteq RecordsOf(added'),
           batcher.mu.op = "add" => batcher'.mu = batcher.mu \/ batcher.mu.who \in RecordsOf(added'),
           \A r \in Records : pc'[r] = "adding" =>
               \/ pc[r] = "adding" \/ r \in RecordsOf(added')
               \/ batcher'.mu.op = "add" /\ batcher'.mu.who = r
    PROVE  AddingOK'
<1> SUFFICES ASSUME NEW r \in Records, pc'[r] = "adding"
             PROVE  r \in RecordsOf(added') \/ (batcher'.mu.op = "add" /\ batcher'.mu.who = r)
    BY DEF AddingOK
<1>1. pc[r] = "adding" => r \in RecordsOf(added) \/ (batcher.mu.op = "add" /\ batcher.mu.who = r)
    BY DEF AddingOK
<1> QED BY <1>1

(* A record moves on without being added. *)
LEMMA NotAdding ==
    ASSUME ProducerInv, NEW r \in Records, NEW v, v # "adding", pc' = [pc EXCEPT ![r] = v]
    PROVE  \A s \in Records : pc'[s] = "adding" => pc[s] = "adding"
<1>1. pc \in [Records -> {"idle", "entered", "backpressure", "waiting", "reserved",
                          "ready", "adding", "accepted", "refused"}]
    BY InvFacts DEF TypeOK
<1> QED BY <1>1

(* Submit, up to and without the addition of the record. *)
LEMMA AddingSubmit ==
    ASSUME ProducerInv, AddingOK, NEW r \in Records,
           \/ Submit(r) \/ TryReserve(r) \/ Reserve(r) \/ Recheck(r)
           \/ BackpressureLocks(r) \/ BackpressureUnlocks(r)
    PROVE  AddingOK'
<1>1. UNCHANGED added
    BY DEF Submit, TryReserve, Reserve, Recheck, BackpressureLocks, BackpressureUnlocks, Refuse,
           TakePermit
<1>2. UNCHANGED batcher \/ batcher.mu.op # "add"
    BY HolderNames DEF Submit, TryReserve, Reserve, Recheck, BackpressureLocks, BackpressureUnlocks
<1>3. \E v \in {"refused", "entered", "reserved", "backpressure", "waiting", "ready"} :
          pc' = [pc EXCEPT ![r] = v]
    <2>1. CASE BackpressureLocks(r)
        <3>1. pc[r] = "backpressure"
            BY <2>1 DEF BackpressureLocks
        <3> QED BY <2>1, <3>1 DEF BackpressureLocks, Refuse
    <2>2. CASE ~ BackpressureLocks(r)
        BY <2>2 DEF Submit, TryReserve, Reserve, Recheck, BackpressureUnlocks, Refuse, TakePermit
    <2> QED BY <2>1, <2>2
<1>4. \A s \in Records : pc'[s] = "adding" => pc[s] = "adding"
    BY <1>3, NotAdding
<1> QED BY <1>1, <1>2, <1>4, AddingStays

(* The addition of the record. *)
LEMMA AddingAdds ==
    ASSUME ProducerInv, AddingOK, NEW r \in Records, Add(r) \/ AddAfterFlush(r) \/ AddReturns(r)
    PROVE  AddingOK'
<1>1. /\ batcher \in BatcherType /\ BatcherOK(batcher) /\ added \in Seq(Records)
      /\ pc \in [Records -> {"idle", "entered", "backpressure", "waiting", "reserved",
                             "ready", "adding", "accepted", "refused"}]
    BY InvFacts DEF TypeOK
<1>2. ASSUME Enters(r), batcher.mu.op = "add" => batcher.mu.who = r PROVE AddingOK'
    <2>1. RecordsOf(added') = RecordsOf(added) \cup {r}
        BY <1>1, <1>2, RecordsOfSeq DEF Enters
    <2>2. \A s \in Records : s # r => pc'[s] = pc[s]
        BY <1>1, <1>2 DEF Enters
    <2> QED BY <1>2, <2>1, <2>2, AddingStays
<1>3. CASE AddAfterFlush(r)
    <2>1. batcher.mu.who = r /\ Enters(r)
        BY <1>3 DEF AddAfterFlush
    <2> QED BY <1>2, <2>1
<1>4. CASE AddReturns(r)
    <2>1. batcher.mu.op # "add" /\ UNCHANGED added /\ pc' = [pc EXCEPT ![r] = "accepted"]
        BY <1>4 DEF AddReturns
    <2> QED BY <2>1, NotAdding, AddingStays
<1>5. CASE Add(r)
    <2>1. batcher.mu.op # "add" /\ ~ Sending(batcher)
        BY <1>1, <1>5, HolderNames DEF Add, BatcherOK, LockOK
    <2>2. CASE Enters(r)
        BY <1>2, <2>1, <2>2
    <2>3. ASSUME NEW p, Refuse(r, p) PROVE AddingOK'
        <3>1. UNCHANGED added /\ pc' = [pc EXCEPT ![r] = "refused"]
            BY <2>3 DEF Refuse
        <3> QED BY <2>1, <3>1, NotAdding, AddingStays
    <2>4. ASSUME NEW b \in FlushBegun(batcher), batcher' = Lock(b, "add", r),
                 pc' = [pc EXCEPT ![r] = "adding"], UNCHANGED added
          PROVE  AddingOK'
        <3>1. b \in BatcherType /\ [op |-> "add", who |-> r] \in Holders
            BY <1>1, <2>1, <2>4, FlushBegunFields, HolderNames
        <3>2. batcher'.mu = [op |-> "add", who |-> r]
            BY <2>4, <3>1, LockFields
        <3>3. batcher'.mu.op = "add" /\ batcher'.mu.who = r
            BY <3>2
        <3>4. \A s \in Records : s # r => pc'[s] = pc[s]
            BY <1>1, <2>4
        <3> QED BY <2>1, <2>4, <3>3, <3>4, AddingStays
    <2> QED BY <1>5, <2>2, <2>3, <2>4 DEF Add
<1> QED BY <1>3, <1>4, <1>5

(* Every step keeps it. *)
LEMMA AddingKeeps ==
    ASSUME ProducerInv, AddedOK, AddingOK, [Next]_<<vars, setup>>
    PROVE  AddingOK'
<1>1. batcher \in BatcherType
    BY InvFacts
<1>2. ASSUME UNCHANGED <<pc, added>>, batcher'.mu = batcher.mu \/ batcher.mu.op # "add"
      PROVE  AddingOK'
    BY <1>2, AddingStays
<1>3. ASSUME NEW r \in Records, Submit(r) \/ SubmitStep(r) \/ (r \notin Watched /\ Add(r))
      PROVE  AddingOK'
    BY <1>3, AddingSubmit, AddingAdds DEF SubmitStep
<1>4. CASE SendBatch \/ DropBatch
    <2>1. Sent(batcher).mu = Flushed(batcher).mu /\ Dropped(batcher).mu = Flushed(batcher).mu
        BY <1>1, SelectFields
    <2>2. batcher.mu.op = "add" => Flushed(batcher).mu = batcher.mu
        BY DEF Flushed
    <2> QED BY <1>2, <1>4, <2>1, <2>2 DEF SendBatch, DropBatch, submitVars
<1>5. CASE \/ (\E seq \in batcher.scheduled : FlushFromTimer(seq)) \/ BatcherFlush
           \/ \E f \in Flushes : BarrierLocks(f) \/ BarrierFlushed(f) \/ BarrierSends(f)
           \/ \E w \in Closers : CloseLocks(w) \/ CloseUnlocks(w)
    <2>1. UNCHANGED <<pc, added>>
        BY <1>5 DEF FlushFromTimer, BatcherFlush, BarrierLocks, BarrierFlushed, BarrierSends,
                    CloseLocks, CloseUnlocks, submitVars
    <2>2. \/ batcher.mu = Free
          \/ \E f : batcher.mu = [op |-> "barrier", who |-> f]
          \/ \E f : batcher.mu = [op |-> "barrierSend", who |-> f]
          \/ \E w : batcher.mu = [op |-> "close", who |-> w]
        BY <1>5 DEF FlushFromTimer, BatcherFlush, BarrierLocks, BarrierFlushed, BarrierSends,
                    CloseLocks, CloseUnlocks
    <2>3. \A x : /\ [op |-> "barrier", who |-> x].op = "barrier"
                 /\ [op |-> "barrierSend", who |-> x].op = "barrierSend"
                 /\ [op |-> "close", who |-> x].op = "close"
        OBVIOUS
    <2>4. batcher.mu.op \in {"free", "barrier", "barrierSend", "close"}
        <3>1. CASE batcher.mu = Free
            BY <3>1, HolderNames
        <3>2. CASE \E x : batcher.mu = [op |-> "barrier", who |-> x]
            BY <2>3, <3>2
        <3>3. CASE \E x : batcher.mu = [op |-> "barrierSend", who |-> x]
            BY <2>3, <3>3
        <3>4. CASE \E x : batcher.mu = [op |-> "close", who |-> x]
            BY <2>3, <3>4
        <3> QED BY <2>2, <3>1, <3>2, <3>3, <3>4
    <2> QED BY <1>2, <2>1, <2>4
<1>6. CASE CancelBatcher \/ Receive \/ \E w \in Closers : CloseSeals(w)
    <2>1. UNCHANGED <<pc, added>>
        BY <1>6 DEF CancelBatcher, Receive, CloseSeals, submitVars
    <2>2. batcher'.mu = batcher.mu
        BY <1>1, <1>6 DEF CancelBatcher, Receive, CloseSeals, BatcherType
    <2> QED BY <1>2, <2>1, <2>2
<1>7. CASE \/ \E f \in Flushes : Flush(f) \/ FlushReturns(f) \/ FlushAbandoned(f)
           \/ Close \/ CloseReturns \/ CloseBatcher
           \/ AwaitSubmission \/ FailBatch \/ ReachBarrier \/ ConsumerDrains
           \/ \E i \in DOMAIN tickets : AwaitAck(i)
           \/ CancelProducer \/ BatcherCancelled \/ ProducerCancelled
           \/ SessionMoves \/ UNCHANGED <<vars, setup>>
    <2>1. UNCHANGED <<pc, added, batcher>>
        BY <1>7, SessionFrame DEF Flush, FlushReturns, FlushAbandoned, Close, CloseReturns,
                CloseBatcher, AwaitSubmission, FailBatch, ReachBarrier, ConsumerDrains, AwaitAck,
                CancelProducer, BatcherCancelled, ProducerCancelled, SessionUnchanged, submitVars, vars
    <2> QED BY <1>2, <2>1
<1>8. CASE Step
    BY <1>3, <1>4, <1>5, <1>6, <1>7, <1>8, Zenon
       DEF Step, FlushStep, CloseStep, ConsumerStep, SessionMoves
<1> QED BY <1>7, <1>8 DEF Next

(* The contexts of the application do not end. *)
Uncancelled == setup.may \cap {"batcherCancelled", "producerCancelled"} = {}

(* A batch failed, or is about to. *)
Troubled == consumer.at = "failing" \/ producer.appendErr # NoErr

(* Nothing has ended but by Close. *)
BatcherSound ==
    (batcher.ctx => batcher.chClosed) /\ ~ batcher.failed /\ batcher.closeErr = NoErr
ProducerSound ==
    /\ producer.terminalErr = NoErr
    /\ producer.ctx => closer["producer"] = "ok"
    /\ closer["producer"] # "idle" => producer.closing
    /\ producer.submitCause \in {NoErr, ErrSessionClosed} \/ producer.closing
    /\ closer["producer"] # "failed"

(* As long as the contexts go on, an error comes from a batch. *)
EndsOK == Uncancelled /\ ~ Troubled => BatcherSound /\ ProducerSound

(* A batch that failed is not forgotten. *)
LEMMA TroubleStays ==
    ASSUME ProducerInv, AddedOK, StepKind, Troubled
    PROVE  Troubled'
<1>1. CASE Quiet \/ (\E r \in Records : Entering(r)) \/ (\E f \in Flushes : BarrierSent(f))
    <2>1. UNCHANGED consumer /\ producer'.appendErr = producer.appendErr
        BY <1>1 DEF Quiet, Kept, Entering, BarrierSent, workVars
    <2> QED BY <2>1 DEF Troubled
<1>2. CASE WorkStep
    <2>1. CASE producer.appendErr # NoErr
        BY <1>2, <2>1, WorkFields DEF Troubled
    <2>2. CASE consumer.at = "failing"
        <3>1. CASE FailBatch
            <4>1. producer \in ProducerType /\ producer.terminalErr \in Errs
                BY <2>2, InvFacts, InvSession DEF ConsumerOK, ProducerType
            <4> QED BY <3>1, <4>1, DispatchedNotes DEF FailBatch, Troubled
        <3>2. CASE ~ FailBatch
            <4>1. UNCHANGED consumer
                BY <1>2, <2>2, <3>2, SessionFrame
                   DEF WorkStep, ConsumerStep, SendBatch, DropBatch, Receive, AwaitSubmission,
                       ReachBarrier, ConsumerDrains, AwaitAck, SessionUnchanged, workVars
            <4> QED BY <2>2, <4>1 DEF Troubled
        <3> QED BY <3>1, <3>2
    <2> QED BY <2>1, <2>2 DEF Troubled
<1> QED BY <1>1, <1>2 DEF StepKind, Background, Calm

(* The batcher of a sound producer stays sound. *)
LEMMA BatcherStaysSound ==
    ASSUME ProducerInv, AddedOK, StepKind, Uncancelled, BatcherSound
    PROVE  BatcherSound'
<1>1. /\ batcher \in BatcherType
      /\ batcher.ctx => ~ Sending(batcher)
    BY InvFacts DEF BatcherSound, BatcherOK, ClosedOK, LockOK
<1>2. CASE Quiet
    BY <1>2 DEF Quiet, Moved, Uncancelled, BatcherSound
<1>3. ASSUME NEW r \in Records, Entering(r) PROVE BatcherSound'
    <2> DEFINE b == Buffered(batcher, r)
    <2>1. /\ b.ctx = batcher.ctx /\ b.chClosed = batcher.chClosed
          /\ b.failed = batcher.failed /\ b.closeErr = batcher.closeErr
        BY <1>1 DEF Buffered, BatcherType
    <2>2. Moved(b, batcher')
        BY <1>3 DEF Entering
    <2> HIDE DEF b
    <2> QED BY <2>1, <2>2 DEF Moved, Uncancelled, BatcherSound
<1>4. ASSUME NEW f \in Flushes, BarrierSent(f) PROVE BatcherSound'
    BY <1>4 DEF BarrierSent, BatcherSound
<1>5. CASE WorkStep
    <2>1. \/ UNCHANGED batcher
          \/ batcher' = Sent(batcher)
          \/ batcher' = [batcher EXCEPT !.ch = Tail(@)]
        BY <1>1, <1>5, SessionFrame
           DEF WorkStep, SendBatch, DropBatch, ConsumerStep, Receive, AwaitSubmission, FailBatch,
               ReachBarrier, ConsumerDrains, AwaitAck, SessionUnchanged
    <2>2. CASE UNCHANGED batcher
        BY <2>2 DEF BatcherSound
    <2>3. CASE batcher' = Sent(batcher)
        BY <1>1, <2>3, SelectFields DEF BatcherSound
    <2>4. CASE batcher' = [batcher EXCEPT !.ch = Tail(@)]
        BY <1>1, <2>4 DEF BatcherSound, BatcherType
    <2> QED BY <2>1, <2>2, <2>3, <2>4
<1> QED BY <1>2, <1>3, <1>4, <1>5 DEF StepKind, Background, Calm

(* The fields that tell whether the producer has ended. *)
SameEnds(p, q) ==
    /\ q.terminalErr = p.terminalErr /\ q.ctx = p.ctx
    /\ q.closing = p.closing /\ q.submitCause = p.submitCause

(* No operation records an error while the producer is sound.              *)
LEMMA NothingRecorded ==
    ASSUME ProducerInv, BatcherSound, ProducerSound
    PROVE  /\ NotAccepting => producer.closing
           /\ MapSubmitError(producer) = producer
           /\ \A S : /\ ReleasePermits(producer, S).terminalErr = NoErr
                     /\ SameEnds(producer, ReleasePermits(producer, S))
           /\ \A w : AfterClose(w, producer, batcher.closeErr) = producer
           /\ ShutdownCause(batcher) = ErrSessionClosed
<1>1. producer \in ProducerType /\ BatcherOK(batcher)
    BY InvFacts
<1>2. NotAccepting => producer.closing
    BY DEF NotAccepting, ProducerSound
<1>3. MapSubmitError(producer) = producer
    BY DEF MapSubmitError, ProducerSound
<1>4. \A S : /\ ReleasePermits(producer, S).terminalErr = NoErr
             /\ SameEnds(producer, ReleasePermits(producer, S))
    BY <1>1 DEF ReleasePermits, SameEnds, ProducerType, ProducerSound
<1>5. \A w : AfterClose(w, producer, batcher.closeErr) = producer
    BY DEF AfterClose, BatcherSound
<1>6. ShutdownCause(batcher) = ErrSessionClosed
    <2>1. batcher.ctx => batcher.closed
        BY <1>1 DEF BatcherSound, BatcherOK, ClosedOK
    <2> QED BY <2>1 DEF ShutdownCause, BatcherSound
<1> QED BY <1>2, <1>3, <1>4, <1>5, <1>6

(* The goroutine that closes the batcher is not started then.              *)
LEMMA BecomesSound ==
    ASSUME ProducerSound, NEW p, NEW closers, p.terminalErr = NoErr, Becomes(p, closers)
    PROVE  producer' = p /\ closer' = closers
BY DEF Becomes, ProducerSound

(* Whatever happens to the producer, it ends in none of these steps.       *)
ProducerStill == SameEnds(producer, producer') /\ UNCHANGED closer

(* Submit. *)
LEMMA SubmitStill ==
    ASSUME ProducerInv, BatcherSound, ProducerSound, NEW r \in Records,
           Submit(r) \/ SubmitStep(r) \/ Add(r)
    PROVE  ProducerStill
<1>1. producer \in ProducerType
    BY InvFacts
<1>2. ASSUME NEW p, p.terminalErr = NoErr, SameEnds(producer, p), Refuse(r, p)
      PROVE  ProducerStill
    BY <1>2, BecomesSound DEF Refuse, ProducerStill
<1>3. SameEnds(producer, producer) /\ producer.terminalErr = NoErr
    BY DEF SameEnds, ProducerSound
<1>4. ASSUME Refuse(r, producer) \/ \E S : Refuse(r, ReleasePermits(producer, S))
      PROVE  ProducerStill
    BY <1>2, <1>3, <1>4, NothingRecorded
<1>5. ASSUME TakePermit(r) PROVE ProducerStill
    BY <1>1, <1>5 DEF TakePermit, ProducerStill, SameEnds, ProducerType
<1>6. ASSUME UNCHANGED <<producer, closer>> PROVE ProducerStill
    BY <1>3, <1>6 DEF ProducerStill
<1>7. CASE Submit(r)
    <2>1. NotAccepting => Checked(producer) = producer
        BY NothingRecorded DEF Checked
    <2> QED BY <1>4, <1>6, <1>7, <2>1 DEF Submit
<1>8. CASE TryReserve(r) \/ Reserve(r) \/ BackpressureLocks(r) \/ BackpressureUnlocks(r)
    <2>1. MapSubmitError(producer) = producer
        BY NothingRecorded
    <2> QED BY <1>4, <1>5, <1>6, <1>8, <2>1
            DEF TryReserve, Reserve, BackpressureLocks, BackpressureUnlocks
<1>9. CASE Recheck(r)
    <2> DEFINE p == ReleasePermits(producer, {r})
    <2>1. SameEnds(producer, p)
        BY NothingRecorded
    <2>2. NotAccepting => Checked(p) = p
        BY <2>1, NothingRecorded DEF Checked, SameEnds
    <2> QED BY <1>4, <1>6, <1>9, <2>2 DEF Recheck
<1>10. CASE Add(r)
    BY <1>4, <1>6, <1>10 DEF Add
<1>11. CASE AddAfterFlush(r) \/ AddReturns(r)
    BY <1>6, <1>11 DEF AddAfterFlush, AddReturns
<1> QED BY <1>7, <1>8, <1>9, <1>10, <1>11 DEF SubmitStep

(* Flush. *)
LEMMA FlushStill ==
    ASSUME ProducerInv, BatcherSound, ProducerSound, NEW f \in Flushes, FlushAction(f)
    PROVE  ProducerStill
<1>1. BatcherOK(batcher) /\ SameEnds(producer, producer) /\ producer.terminalErr = NoErr
    BY InvFacts DEF SameEnds, ProducerSound
<1>2. ASSUME UNCHANGED <<producer, closer>> PROVE ProducerStill
    BY <1>1, <1>2 DEF ProducerStill
<1>3. CASE Flush(f)
    <2>1. NotAccepting => Checked(producer) = producer
        BY NothingRecorded DEF Checked
    <2>2. UNCHANGED <<producer, closer>> \/ Becomes(producer, closer)
        BY <1>3, <2>1 DEF Flush
    <2> QED BY <1>1, <1>2, <2>2, BecomesSound
<1>4. batcher.mu # Free \/ ~ batcher.closed => ~ batcher.ctx /\ ~ batcher.failed
    BY <1>1 DEF BatcherSound, BatcherOK, ClosedOK
<1>5. CASE BarrierLocks(f)
    <2>1. ~ batcher.closed /\ AfterBarrierFlush(f) => UNCHANGED <<producer, closer>>
        BY <1>4 DEF AfterBarrierFlush
    <2> QED BY <1>2, <1>5, <2>1 DEF BarrierLocks
<1>6. CASE BarrierFlushed(f) \/ BarrierSends(f)
    <2>1. batcher.mu # Free
        BY <1>6, HolderNames DEF BarrierFlushed, BarrierSends
    <2> QED BY <1>2, <1>4, <1>6, <2>1 DEF BarrierFlushed, BarrierSends, AfterBarrierFlush
<1>7. CASE FlushReturns(f) \/ FlushAbandoned(f)
    BY <1>2, <1>7 DEF FlushReturns, FlushAbandoned
<1> QED BY <1>3, <1>5, <1>6, <1>7 DEF FlushAction, FlushStep

(* The consumer and the waiters, unless a batch fails. *)
LEMMA WorkStill ==
    ASSUME ProducerInv, BatcherSound, ProducerSound, ~ Troubled, ~ Troubled', WorkStep
    PROVE  ProducerStill
<1>1. /\ producer \in ProducerType /\ producer.terminalErr = NoErr
      /\ closer \in [Closers -> CloserStates] /\ WorkTypes
      /\ ErrContext \in Errs /\ ErrAppend \in Errs
    BY InvFacts, InvSession DEF Errs, ProducerSound
<1>2. ASSUME UNCHANGED closer, UNCHANGED producer \/ \E S : producer' = ReleasePermits(producer, S)
      PROVE  ProducerStill
    BY <1>2, NothingRecorded DEF ProducerStill, SameEnds
<1>3. CASE SendBatch \/ ReachBarrier \/ ConsumerDrains \/ SessionMoves
    BY <1>2, <1>3, SessionFrame DEF SendBatch, ReachBarrier, ConsumerDrains, SessionUnchanged
<1>4. CASE DropBatch
    BY <1>2, <1>4 DEF DropBatch
<1>5. CASE Receive
    <2>1. consumer'.at # "failing"
        BY DEF Troubled
    <2>2. UNCHANGED <<producer, closer>>
        BY <1>1, <1>5, <2>1 DEF Receive, ReceiveAt
    <2> QED BY <1>2, <2>2
<1>6. CASE AwaitSubmission
    <2>1. consumer' = [consumer EXCEPT !.at = "failing"] => consumer'.at = "failing"
        BY <1>1 DEF WorkTypes
    <2>2. UNCHANGED <<producer, closer>>
        BY <1>6, <2>1 DEF AwaitSubmission, Troubled
    <2> QED BY <1>2, <2>2
<1>7. ~ FailBatch
    BY DEF FailBatch, Troubled
<1>8. ASSUME NEW i \in DOMAIN tickets, AwaitAck(i) PROVE ProducerStill
    <2> DEFINE meta == tickets[i].batch.meta
    <2>1. ASSUME NEW err \in Errs
          PROVE  LET p == RecordTerminalError(producer, err)
                 IN  DispatchedError(p, meta, p.terminalErr).appendErr # NoErr
        BY <1>1, <2>1, RecordTerminalErrorKeeps, DispatchedNotes DEF SamePermits
    <2>2. ASSUME NEW err \in Errs,
                 LET p == RecordTerminalError(producer, err)
                 IN  Becomes(DispatchedError(p, meta, p.terminalErr), closer)
          PROVE  FALSE
        BY <2>1, <2>2 DEF Becomes, Troubled
    <2>3. producer' = ReleasePermits(producer, MetaRecords(meta)) /\ UNCHANGED closer
        BY <1>1, <1>8, <2>2 DEF AwaitAck
    <2> QED BY <1>2, <2>3
<1> QED BY <1>3, <1>4, <1>5, <1>6, <1>7, <1>8 DEF WorkStep, ConsumerStep

(* The contexts and a user who closes the batcher. *)
LEMMA ContextsStill ==
    ASSUME ProducerInv, BatcherSound, ProducerSound, Uncancelled,
           CancelBatcher \/ CancelProducer \/ BatcherCancelled \/ ProducerCancelled \/ CloseBatcher
    PROVE  ProducerSound'
<1>1. /\ producer \in ProducerType /\ producer.terminalErr = NoErr
      /\ closer \in [Closers -> CloserStates]
    BY InvFacts DEF ProducerSound
<1>2. ~ CancelBatcher /\ ~ CancelProducer
    BY DEF CancelBatcher, CancelProducer, Uncancelled
<1>3. CASE BatcherCancelled
    <2> DEFINE p == CancelSubmit(producer, ErrSessionClosed)
    <2>1. Becomes(p, closer)
        BY <1>3, NothingRecorded DEF BatcherCancelled
    <2>2. /\ p.terminalErr = NoErr /\ p.ctx = producer.ctx /\ p.closing = producer.closing
          /\ p.submitCause \in {producer.submitCause, ErrSessionClosed}
        BY <1>1 DEF CancelSubmit, ProducerType
    <2> HIDE DEF p
    <2>3. producer' = p /\ closer' = closer
        BY <2>1, <2>2, BecomesSound
    <2> QED BY <2>2, <2>3 DEF ProducerSound
<1>4. CASE ProducerCancelled
    <2>1. producer.closing
        BY <1>4 DEF ProducerCancelled, ProducerSound
    <2>2. producer' = producer /\ closer' = closer
        BY <1>1, <1>4, <2>1, BecomesSound DEF ProducerCancelled
    <2> QED BY <2>2 DEF ProducerSound
<1>5. CASE CloseBatcher
    BY <1>1, <1>5 DEF CloseBatcher, ProducerSound, Closers
<1> QED BY <1>2, <1>3, <1>4, <1>5

(* Close ends the producer, and is told of no error. *)
LEMMA CloseStaysSound ==
    ASSUME ProducerInv, BatcherSound, ProducerSound, CloseActions
    PROVE  ProducerSound'
<1>1. /\ producer \in ProducerType /\ producer.terminalErr = NoErr
      /\ closer \in [Closers -> CloserStates] /\ "producer" \in Closers
    BY InvFacts DEF ProducerSound, Closers
<1>2. CASE Close
    <2> DEFINE p == [producer EXCEPT !.closing = TRUE, !.pool = ClosedPool(@)]
    <2>1. /\ p \in ProducerType /\ p.closing /\ p.terminalErr = NoErr /\ p.ctx = producer.ctx
        BY <1>1, ClosedPoolFields DEF ProducerType
    <2>2. producer' = CancelSubmit(p, ErrSessionClosed) /\ closer' = [closer EXCEPT !["producer"] = "called"]
        BY <1>2 DEF Close
    <2> HIDE DEF p
    <2>3. producer'.closing /\ producer'.terminalErr = NoErr /\ producer'.ctx = producer.ctx
        BY <2>1, <2>2 DEF CancelSubmit, ProducerType
    <2>4. closer'["producer"] = "called" /\ closer["producer"] = "idle"
        BY <1>1, <1>2, <2>2 DEF Close
    <2> QED BY <2>3, <2>4 DEF ProducerSound
<1>3. CASE CloseReturns
    <2>1. closer["producer"] = "returned"
        BY <1>3 DEF CloseReturns
    <2>2. ~ producer.ctx /\ producer.closing
        BY <2>1 DEF ProducerSound
    <2> DEFINE c == [closer EXCEPT !["producer"] = "ok"]
    <2>3. Becomes(CancelCtx(producer), c)
        BY <1>1, <1>3, <2>2 DEF CloseReturns
    <2>4. CancelSubmit(producer, ErrContext) \in ProducerType
          /\ CancelSubmit(producer, ErrContext).closing
          /\ CancelSubmit(producer, ErrContext).terminalErr = NoErr
        BY <1>1, <2>2, CancelSubmitKeeps DEF SamePermits, CancelSubmit, ProducerType, Errs
    <2>5. CancelCtx(producer).closing /\ CancelCtx(producer).terminalErr = NoErr
        BY <2>4 DEF CancelCtx, ProducerType
    <2>6. c["producer"] = "ok"
        BY <1>1
    <2> HIDE DEF c
    <2>7. producer' = CancelCtx(producer) /\ closer' = c
        BY <2>3, <2>5, BecomesSound
    <2> QED BY <2>5, <2>6, <2>7 DEF ProducerSound
<1>4. ASSUME NEW w \in Closers, CloseStep(w) PROVE ProducerSound'
    <2>1. closer[w] \in {"called", "flushing", "sealing"}
        BY <1>4 DEF CloseStep, CloseLocks, CloseUnlocks, CloseSeals
    <2>2. \E v \in {"returned", "flushing", "sealing"} :
              closer' = [closer EXCEPT ![w] = v] /\ producer' = producer
        <3>1. AfterClose(w, producer, batcher.closeErr) = producer
            BY NothingRecorded
        <3>2. ASSUME Becomes(producer, [closer EXCEPT ![w] = "returned"])
              PROVE  closer' = [closer EXCEPT ![w] = "returned"] /\ producer' = producer
            BY <1>1, <3>2, BecomesSound
        <3> QED BY <1>4, <3>1, <3>2 DEF CloseStep, CloseLocks, CloseUnlocks, CloseSeals
    <2>3. \/ closer'["producer"] = closer["producer"]
          \/ closer["producer"] \in {"called", "flushing", "sealing"}
             /\ closer'["producer"] \in {"returned", "flushing", "sealing"}
        BY <1>1, <2>1, <2>2
    <2> QED BY <2>2, <2>3 DEF ProducerSound
<1> QED BY <1>2, <1>3, <1>4 DEF CloseActions

(* Every step keeps it. *)
LEMMA EndsKeep ==
    ASSUME ProducerInv, AddedOK, EndsOK, [Next]_<<vars, setup>>
    PROVE  EndsOK'
<1> SUFFICES ASSUME Uncancelled', ~ Troubled'
             PROVE  BatcherSound' /\ ProducerSound'
    BY DEF EndsOK
<1>1. StepKind
    BY StepKinds
<1>2. Uncancelled /\ ~ Troubled
    BY <1>1, TroubleStays DEF Uncancelled, Next
<1>3. BatcherSound /\ ProducerSound
    BY <1>2 DEF EndsOK
<1>4. BatcherSound'
    BY <1>1, <1>2, <1>3, BatcherStaysSound
<1> SUFFICES ProducerSound'
    BY <1>4
<1>5. ASSUME ProducerStill PROVE ProducerSound'
    BY <1>3, <1>5 DEF ProducerStill, SameEnds, ProducerSound
<1>6. ASSUME UNCHANGED <<producer, closer>> PROVE ProducerSound'
    BY <1>3, <1>6 DEF ProducerSound
<1>7. ASSUME NEW r \in Records, Submit(r) \/ SubmitStep(r) \/ (r \notin Watched /\ Add(r))
      PROVE  ProducerSound'
    BY <1>3, <1>5, <1>7, SubmitStill
<1>8. ASSUME NEW f \in Flushes, Flush(f) \/ FlushStep(f) \/ FlushAbandoned(f)
      PROVE  ProducerSound'
    BY <1>3, <1>5, <1>8, FlushStill DEF FlushAction
<1>9. CASE BatcherFlush \/ (\E seq \in batcher.scheduled : FlushFromTimer(seq)) \/ UNCHANGED <<vars, setup>>
    BY <1>6, <1>9 DEF BatcherFlush, FlushFromTimer, vars
<1>10. CASE CancelBatcher \/ CancelProducer \/ BatcherCancelled \/ ProducerCancelled \/ CloseBatcher
    BY <1>2, <1>3, <1>10, ContextsStill
<1>11. CASE Close \/ CloseReturns \/ \E w \in Closers : CloseStep(w)
    BY <1>3, <1>11, CloseStaysSound DEF CloseActions
<1>12. CASE WorkStep
    BY <1>2, <1>3, <1>5, <1>12, WorkStill
<1>13. CASE Step
    BY <1>7, <1>8, <1>9, <1>10, <1>11, <1>12, <1>13, Zenon DEF Step, WorkStep, SessionMoves
<1> QED BY <1>9, <1>13 DEF Next

(* At the start no Flush and no Close has begun. *)
LEMMA ReportsInit ==
    ASSUME Init
    PROVE  BarrierInv /\ CloseOK /\ AddingOK /\ EndsOK
<1>1. /\ added = <<>> /\ batcher.mu = Free /\ batcher.ch = <<>> /\ batcher.buffer = <<>>
      /\ consumer.at = "receive" /\ producer.appendErr = NoErr
      /\ \A f \in Flushes : call[f] = "idle" /\ ordered[f] = "none" /\ barrier[f] = "none"
                            /\ covered[f] = {}
      /\ closer["producer"] = "idle"
    <2>1. /\ added = <<>> /\ consumer.at = "receive" /\ producer.appendErr = NoErr
          /\ batcher = NewBatcher /\ closer = [w \in Closers |-> "idle"]
          /\ call = [f \in Flushes |-> "idle"] /\ ordered = [f \in Flushes |-> "none"]
          /\ barrier = [f \in Flushes |-> "none"] /\ covered = [f \in Flushes |-> {}]
        BY DEF Init
    <2>2. batcher.mu = Free /\ batcher.ch = <<>> /\ batcher.buffer = <<>>
        BY <2>1 DEF NewBatcher
    <2>3. closer["producer"] = "idle"
        BY <2>1 DEF Closers
    <2> QED BY <2>1, <2>2, <2>3
<1>2. DOMAIN batcher.ch = {}
    BY <1>1
<1>3. \A f \in Flushes : ~ AtLock(f) /\ ~ InLine(f) /\ ~ AtConsumer(f) /\ \A i : ~ BarrierAt(i, f)
    BY <1>1, <1>2 DEF AtLock, InLine, BarrierAt, AtConsumer, Free
<1>4. PhasesOK
    BY <1>1, <1>3 DEF PhasesOK
<1>5. CutsOK
    BY <1>1, <1>3 DEF CutsOK
<1>6. ErrorsOK
    <2>1. \A f \in Flushes : ~ Past(f)
        BY <1>1, <1>3 DEF Past, Free
    <2>2. "none" # NoErr
        BY DEF NoErr
    <2> QED BY <1>1, <2>1, <2>2 DEF ErrorsOK
<1>7. CloseOK
    BY <1>1 DEF CloseOK
<1>8. AddingOK
    BY DEF Init, AddingOK
<1>9. EndsOK
    <2>1. BatcherSound
        BY DEF Init, NewBatcher, BatcherSound
    <2>2. ProducerSound
        BY <1>1 DEF Init, ProducerSound
    <2> QED BY <2>1, <2>2 DEF EndsOK
<1> QED BY <1>4, <1>5, <1>6, <1>7, <1>8, <1>9 DEF BarrierInv

(* What is told of the records, of the barriers and by Close. *)
ReportInv == MetaOK /\ OutcomesOK /\ BarrierInv /\ CloseOK /\ AddingOK /\ EndsOK

(* Every report is true of what became of the records. *)
THEOREM ReportInvariant == Spec => [](ProducerInv /\ FlowInv /\ ReportInv)
<1>1. Init => ProducerInv /\ FlowInv /\ ReportInv
    BY InitKeeps, FlowInit, ToldInit, ReportsInit DEF ReportInv
<1>2. ASSUME ProducerInv, FlowInv, ReportInv, [Next]_<<vars, setup>>
      PROVE  (ProducerInv /\ FlowInv /\ ReportInv)'
    <2>1. ProducerInv' /\ FlowInv'
        BY <1>2, StepKeeps, StutterKeeps, FlowKeeps DEF Next
    <2>2. MetaOK' /\ OutcomesOK' /\ BarrierInv'
        BY <1>2, MetaKeeps, OutcomesKeeps, BarriersKeep DEF ReportInv
    <2>3. CloseOK' /\ AddingOK' /\ EndsOK'
        BY <1>2, StepKinds, CloseKeepsOK, AddingKeeps, EndsKeep DEF ReportInv, FlowInv
    <2> QED BY <2>1, <2>2, <2>3 DEF ReportInv
<1> QED BY <1>1, <1>2, PTL DEF Spec

(* A Flush that returns nil covers records that are all acknowledged:      *)
(* those accepted before it was called and those ordered before its        *)
(* barrier (flushBarrier, processBarrier).                                 *)
THEOREM FlushDurable == Spec => []FlushIsDurable
<1>1. ReportInv => FlushIsDurable
    BY DEF ReportInv, BarrierInv, ErrorsOK, AllAcked, FlushIsDurable
<1> QED BY <1>1, ReportInvariant, PTL

(* A barrier reports an error only if a record it covers failed.  When     *)
(* Close has returned every accepted record is resolved, acknowledged if   *)
(* Close returned nil, and capacity is held by calls of Submit that have   *)
(* not added their record; and Close returns an error only if a context    *)
(* may have ended or a record was not acknowledged (Flush, Close,          *)
(* recordTerminalError, releaseProducerPermits).                           *)
THEOREM ReportsHonest == Spec => []ReportsAreHonest
<1>1. ASSUME ReportInv
      PROVE  BarrierErrorIsReal
    BY <1>1, Zenon DEF ReportInv, BarrierInv, ErrorsOK, SomeBad, Bad, BarrierErrorIsReal
<1>2. ASSUME ProducerInv, FlowInv, ReportInv, closer["producer"] \in {"ok", "failed"}
      PROVE  /\ Pending = {} /\ batcher.mu.op # "add" /\ consumer.at = "done"
             /\ \A r \in Records \cap RecordsOf(added) : r \in Watched => outcome[r] # Unresolved
    <2>1. /\ batcher.ch = <<>> /\ ackWaiters = {} /\ batcher.chClosed /\ consumer.at = "done"
          /\ batcher.out = NoBatch
        BY <1>2 DEF ReportInv, CloseOK, Sending
    <2>2. batcher.buffer = <<>> /\ consumer.batch = NoBatch /\ batcher.mu = Free
        BY <1>2, <2>1, InvFacts DEF ReportInv, MetaOK, BatcherOK, ClosedOK
    <2>3. Pending = {}
        BY <2>1, <2>2, RecordsOfSeq DEF Pending, WithConsumer, InBatcher, Channel, NoBatch
    <2> QED BY <1>2, <2>1, <2>2, <2>3, HolderNames DEF ReportInv, OutcomesOK
<1>3. ASSUME ProducerInv, FlowInv, ReportInv, closer["producer"] \in {"ok", "failed"}, NEW r \in Watched
      PROVE  /\ pc[r] = "accepted" => outcome[r].is # "none"
             /\ closer["producer"] = "ok" => outcome[r].is # "failed"
             /\ r \in producer.permits => pc[r] \in {"reserved", "ready"}
    <2>1. r \in Records
        BY BatcherAssumption
    <2>2. closer["producer"] = "ok" => outcome[r].is # "failed"
        BY <1>3, <2>1 DEF ReportInv, CloseOK
    <2>3. r \in RecordsOf(added) => outcome[r] # Unresolved
        BY <1>2, <1>3, <2>1
    <2>4. ASSUME pc[r] = "accepted" PROVE outcome[r].is # "none"
        <3>1. outcome[r] # Unresolved
            BY <1>3, <2>1, <2>3, <2>4 DEF FlowInv, AddedOK
        <3>2. outcome[r] \in Outcomes
            BY <1>3, <2>1, InvSession
        <3>3. \A e \in Errs : Failed(e).is = "failed"
            BY OutcomeShapes
        <3> QED BY <3>1, <3>2, <3>3 DEF Outcomes
    <2>5. ASSUME r \in producer.permits PROVE pc[r] \in {"reserved", "ready"}
        <3>1. pc[r] \in {"reserved", "ready", "adding", "accepted"} /\ outcome[r] = Unresolved
            BY <1>3, <2>5, InvFacts DEF Held
        <3>2. pc[r] \in {"adding", "accepted"} => r \in RecordsOf(added)
            BY <1>2, <1>3, <2>1 DEF ReportInv, AddingOK, FlowInv, AddedOK
        <3> QED BY <2>3, <3>1, <3>2
    <2> QED BY <2>2, <2>4, <2>5
<1>4. ASSUME ProducerInv, FlowInv, ReportInv, closer["producer"] = "failed", Uncancelled
      PROVE  \E r \in RecordsOf(added) : Bad(r)
    <2>1. Troubled
        BY <1>4 DEF ReportInv, EndsOK, ProducerSound
    <2>2. producer.appendErr # NoErr
        BY <1>2, <1>4, <2>1 DEF Troubled
    <2> QED BY <1>4, <2>2 DEF ReportInv, BarrierInv, ErrorsOK
<1>5. ASSUME ProducerInv, FlowInv, ReportInv
      PROVE  CloseIsHonest
    <2>1. producer.permits \subseteq Watched
        BY <1>5, InvFacts
    <2> QED BY <1>3, <1>4, <1>5, <2>1 DEF CloseIsHonest, Uncancelled, Bad
<1>6. ProducerInv /\ FlowInv /\ ReportInv => ReportsAreHonest
    BY <1>1, <1>5 DEF ReportsAreHonest
<1> QED BY <1>6, ReportInvariant, PTL

-----------------------------------------------------------------------------
(* The positions the batcher predicts.                                     *)

(* nextMatchSeqNum after n records more, and after an output. *)
Plus(m, n) == IF m = NoMatch THEN NoMatch ELSE m + n
PastOutput(m, o) == IF IsBarrier(o) THEN m ELSE Plus(m, Len(o.records))

Positions == Nat \cup {NoMatch}

(* Each batch of the channel continues where the one before it ends: from  *)
(* is the position of the first one, to the one after the last.            *)
Chain(ch, from, to) ==
    \E at \in [0 .. Len(ch) -> Positions] :
        /\ at[0] = from /\ at[Len(ch)] = to
        /\ \A i \in DOMAIN ch :
              /\ ~ IsBarrier(ch[i]) => ch[i].match = at[i - 1]
              /\ at[i] = PastOutput(at[i - 1], ch[i])

(* The position after the first n batches given to the session. *)
Position(n) ==
    IF n = 0 THEN setup.matchSeqNum
    ELSE Plus(tickets[n].batch.match, Len(tickets[n].batch.records))

(* The batches continue each other from the first ticket to the batch that *)
(* is being sent, unless the producer has failed and skips some of them.   *)
MatchesOK ==
    /\ Sending(batcher) => batcher.out.match = batcher.next
    /\ \A i \in DOMAIN tickets : tickets[i].batch.match = Position(i - 1)
    /\ \E from \in Positions :
          /\ Chain(batcher.ch, from, batcher.next)
          /\ producer.terminalErr = NoErr => from = Position(Len(tickets))

(* All batches have a condition, or none has.                              *)
Conditional == setup.matchSeqNum # NoMatch
AlikeOK == \A i \in DOMAIN tickets : tickets[i].batch.match # NoMatch <=> Conditional

(* The condition of a batch that was applied no longer holds, so that      *)
(* nothing is in the stream twice.                                         *)
RepeatsOK ==
    Conditional =>
        /\ NoneTwice
        /\ \A i \in DOMAIN tickets :
              TicketRecords(i) \cap RecordsOf(log) # {} => tickets[i].batch.match < Len(log)

(* As long as the session works, the tickets that were applied are the     *)
(* oldest ones, and the stream ends where the last of them ends.           *)
Applied(i) == tickets[i].is \in {"appended", "acked"}
AppliedOK ==
    sessionOpen /\ Conditional =>
        \E n \in 0 .. Len(tickets) :
            /\ Position(n) \in {NoMatch, Len(log)}
            /\ \A i \in DOMAIN tickets : Applied(i) <=> i <= n

(* What an output adds is a position. *)
LEMMA PositionTypes ==
    ASSUME NEW m \in Positions
    PROVE  /\ \A n \in Nat : Plus(m, n) \in Positions
           /\ \A o \in Outputs : PastOutput(m, o) \in Positions
<1>1. \A n \in Nat : Plus(m, n) \in Positions
    BY DEF Plus, Positions
<1>2. ASSUME NEW o \in Outputs PROVE PastOutput(m, o) \in Positions
    <2>1. ~ IsBarrier(o) => Len(o.records) \in Nat
        BY BatchShape DEF Batch
    <2> QED BY <1>1, <2>1 DEF PastOutput
<1> QED BY <1>1, <1>2

(* An output more at the end of the channel, and one less at its head. *)
LEMMA ChainSteps ==
    ASSUME NEW ch \in Seq(Outputs), NEW from \in Positions, NEW to \in Positions,
           Chain(ch, from, to)
    PROVE  /\ \A o \in Outputs :
                 (~ IsBarrier(o) => o.match = to) => Chain(Append(ch, o), from, PastOutput(to, o))
           /\ ch # <<>> =>
                 /\ Chain(Tail(ch), PastOutput(from, Head(ch)), to)
                 /\ ~ IsBarrier(Head(ch)) => Head(ch).match = from
<1>1. PICK at \in [0 .. Len(ch) -> Positions] :
          /\ at[0] = from /\ at[Len(ch)] = to
          /\ \A i \in DOMAIN ch :
                /\ ~ IsBarrier(ch[i]) => ch[i].match = at[i - 1]
                /\ at[i] = PastOutput(at[i - 1], ch[i])
    BY DEF Chain
<1>2. PICK n \in Nat : n = Len(ch) /\ DOMAIN ch = 1 .. n
    OBVIOUS
<1>3. ASSUME NEW o \in Outputs, ~ IsBarrier(o) => o.match = to
      PROVE  Chain(Append(ch, o), from, PastOutput(to, o))
    <2> DEFINE t == Append(ch, o)
               a == [i \in 0 .. n + 1 |-> IF i <= n THEN at[i] ELSE PastOutput(to, o)]
    <2>1. /\ Len(t) = n + 1 /\ DOMAIN t = 1 .. n + 1 /\ t[n + 1] = o
          /\ \A i \in 1 .. n : t[i] = ch[i]
        BY <1>2
    <2>2. a \in [0 .. n + 1 -> Positions]
        BY <1>1, <1>2, PositionTypes
    <2>3. a[0] = from /\ a[n + 1] = PastOutput(to, o) /\ \A i \in 0 .. n : a[i] = at[i]
        BY <1>1, <1>2
    <2> HIDE DEF t, a
    <2>4. ASSUME NEW i \in DOMAIN t
          PROVE  /\ ~ IsBarrier(t[i]) => t[i].match = a[i - 1]
                 /\ a[i] = PastOutput(a[i - 1], t[i])
        <3>1. CASE i \in 1 .. n
            <4>1. i - 1 \in 0 .. n /\ i \in 0 .. n /\ i \in DOMAIN ch
                BY <1>2, <3>1
            <4> QED BY <1>1, <2>1, <2>3, <3>1, <4>1
        <3>2. CASE i = n + 1
            <4>1. i - 1 = n /\ a[n] = to
                BY <1>1, <1>2, <2>3, <3>2
            <4> QED BY <1>3, <2>1, <2>3, <3>2, <4>1
        <3> QED BY <1>2, <2>1, <3>1, <3>2
    <2>5. Chain(t, from, PastOutput(to, o))
        BY <2>1, <2>2, <2>3, <2>4 DEF Chain
    <2> QED BY <2>5 DEF t
<1>4. ASSUME ch # <<>>
      PROVE  /\ Chain(Tail(ch), PastOutput(from, Head(ch)), to)
             /\ ~ IsBarrier(Head(ch)) => Head(ch).match = from
    <2> DEFINE t == Tail(ch)
               a == [i \in 0 .. n - 1 |-> at[i + 1]]
    <2>1. /\ n >= 1 /\ Len(t) = n - 1 /\ DOMAIN t = 1 .. n - 1 /\ Head(ch) = ch[1]
          /\ \A i \in 1 .. n - 1 : t[i] = ch[i + 1]
        BY <1>2, <1>4
    <2>2. a \in [0 .. n - 1 -> Positions]
        BY <1>1, <1>2, <2>1
    <2>3. a[0] = at[1] /\ a[n - 1] = at[n] /\ \A i \in 0 .. n - 1 : a[i] = at[i + 1]
        BY <1>2, <2>1
    <2>4. /\ at[1] = PastOutput(from, Head(ch))
          /\ ~ IsBarrier(Head(ch)) => Head(ch).match = from
        BY <1>1, <1>2, <2>1
    <2> HIDE DEF t, a
    <2>5. ASSUME NEW i \in DOMAIN t
          PROVE  /\ ~ IsBarrier(t[i]) => t[i].match = a[i - 1]
                 /\ a[i] = PastOutput(a[i - 1], t[i])
        <3>1. i - 1 \in 0 .. n - 1 /\ i \in 0 .. n - 1 /\ i + 1 \in DOMAIN ch /\ (i + 1) - 1 = i
              /\ (i - 1) + 1 = i /\ i \in 1 .. n - 1
            BY <1>2, <2>1
        <3>2. a[i] = at[i + 1] /\ a[i - 1] = at[i] /\ t[i] = ch[i + 1]
            BY <2>1, <2>3, <3>1
        <3> QED BY <1>1, <3>1, <3>2
    <2>6. Chain(t, PastOutput(from, Head(ch)), to)
        <3>1. a[0] = PastOutput(from, Head(ch)) /\ a[n - 1] = to
            BY <1>1, <1>2, <2>3, <2>4
        <3> QED BY <2>1, <2>2, <2>5, <3>1 DEF Chain
    <2> QED BY <2>4, <2>6 DEF t
<1> QED BY <1>3, <1>4

(* The channel and the tickets are left alone. *)
LEMMA MatchesStay ==
    ASSUME MatchesOK, UNCHANGED <<setup, tickets>>,
           batcher'.ch = batcher.ch, batcher'.next = batcher.next,
           Sending(batcher') => batcher'.out.match = batcher'.next,
           producer.terminalErr # NoErr => producer'.terminalErr # NoErr
    PROVE  MatchesOK'
<1>1. \A n : Position(n)' = Position(n)
    BY DEF Position
<1> QED BY <1>1 DEF MatchesOK

(* The batches of the tickets stay, and with them the positions. *)
LEMMA PositionsStay ==
    ASSUME UNCHANGED setup, SessionTypes, Len(tickets') >= Len(tickets),
           \A i \in DOMAIN tickets : tickets'[i].batch = tickets[i].batch
    PROVE  \A n \in 0 .. Len(tickets) : Position(n)' = Position(n)
<1>1. \A n \in 0 .. Len(tickets) : n = 0 \/ n \in DOMAIN tickets
    BY DEF SessionTypes
<1> QED BY <1>1 DEF Position

(* The select of flushLocked: the batch is at the position after all       *)
(* others, and a batch that is dropped leaves none.                        *)
LEMMA MatchesSelect ==
    ASSUME ProducerInv, MatchesOK, UNCHANGED setup, SendBatch \/ DropBatch
    PROVE  MatchesOK'
<1>1. batcher \in BatcherType /\ producer \in ProducerType /\ UNCHANGED tickets
    BY InvFacts DEF SendBatch, DropBatch, sessionVars
<1>2. producer'.terminalErr = producer.terminalErr
    BY <1>1 DEF SendBatch, DropBatch, ReleasePermits, ProducerType
<1>3. CASE DropBatch
    <2>1. batcher'.ch = batcher.ch /\ batcher'.next = batcher.next /\ ~ Sending(batcher')
        BY <1>1, <1>3, SelectFields DEF DropBatch, Sending
    <2> QED BY <1>1, <1>2, <2>1, MatchesStay
<1>4. CASE SendBatch
    <2> DEFINE o == batcher.out
    <2>1. /\ batcher'.ch = Append(batcher.ch, o) /\ ~ Sending(batcher')
          /\ batcher'.next = IF batcher.next = NoMatch THEN NoMatch
                             ELSE batcher.next + Len(o.records)
          /\ o.match = batcher.next
        BY <1>1, <1>4, SelectFields DEF SendBatch, Sending, MatchesOK
    <2>2. o \in Outputs /\ ~ IsBarrier(o) /\ batcher.ch \in Seq(Outputs) /\ batcher.next \in Positions
        BY <1>1, LineTypes, BatchShape DEF Outputs, Positions
    <2>3. batcher'.next = PastOutput(batcher.next, o)
        BY <2>1, <2>2 DEF PastOutput, Plus
    <2>4. PICK from \in Positions :
              /\ Chain(batcher.ch, from, batcher.next)
              /\ producer.terminalErr = NoErr => from = Position(Len(tickets))
        BY DEF MatchesOK
    <2>5. Chain(batcher'.ch, from, batcher'.next)
        BY <2>1, <2>2, <2>3, <2>4, ChainSteps
    <2>6. \A n : Position(n)' = Position(n)
        BY <1>1 DEF Position
    <2> QED BY <1>1, <1>2, <2>1, <2>4, <2>5, <2>6 DEF MatchesOK
<1> QED BY <1>3, <1>4

(* A barrier takes no position. *)
LEMMA MatchesBarrier ==
    ASSUME ProducerInv, MatchesOK, UNCHANGED setup, NEW f \in Flushes, BarrierSent(f)
    PROVE  MatchesOK'
<1> DEFINE o == [barrier |-> f]
<1>1. /\ batcher \in BatcherType /\ UNCHANGED <<tickets, producer>> /\ ~ Sending(batcher)
      /\ batcher'.ch = Append(batcher.ch, o) /\ batcher'.out = batcher.out
      /\ batcher'.next = batcher.next
    BY InvFacts DEF BarrierSent, sessionVars
<1>2. o \in Outputs /\ IsBarrier(o) /\ batcher.ch \in Seq(Outputs) /\ batcher.next \in Positions
    BY <1>1, LineTypes, BatchShape DEF Positions
<1> HIDE DEF o
<1>3. PICK from \in Positions :
          /\ Chain(batcher.ch, from, batcher.next)
          /\ producer.terminalErr = NoErr => from = Position(Len(tickets))
    BY DEF MatchesOK
<1>4. Chain(batcher'.ch, from, batcher'.next)
    BY <1>1, <1>2, <1>3, ChainSteps DEF PastOutput
<1>5. \A n : Position(n)' = Position(n)
    BY <1>1 DEF Position
<1>6. ~ Sending(batcher')
    BY <1>1 DEF Sending
<1> QED BY <1>1, <1>3, <1>4, <1>5, <1>6 DEF MatchesOK

(* The consumer takes the oldest output: a batch it submits is at the      *)
(* position after all tickets.                                             *)
LEMMA MatchesReceive ==
    ASSUME ProducerInv, MatchesOK, UNCHANGED setup, Receive,
           producer.terminalErr # NoErr => producer'.terminalErr # NoErr
    PROVE  MatchesOK'
<1> DEFINE o == Head(batcher.ch)
<1>1. /\ batcher \in BatcherType /\ SessionTypes /\ batcher.ch # <<>>
      /\ batcher' = [batcher EXCEPT !.ch = Tail(@)]
    BY InvFacts, InvSession DEF Receive
<1>2. /\ batcher'.ch = Tail(batcher.ch) /\ batcher'.out = batcher.out
      /\ batcher'.next = batcher.next
    BY <1>1, TakenFields
<1>3. batcher.ch \in Seq(Outputs) /\ o \in Outputs /\ batcher.next \in Positions
    BY <1>1, LineTypes DEF Positions
<1>4. PICK from \in Positions :
          /\ Chain(batcher.ch, from, batcher.next)
          /\ producer.terminalErr = NoErr => from = Position(Len(tickets))
    BY DEF MatchesOK
<1>5. /\ Chain(batcher'.ch, PastOutput(from, o), batcher'.next)
      /\ ~ IsBarrier(o) => o.match = from
      /\ PastOutput(from, o) \in Positions
    BY <1>1, <1>2, <1>3, <1>4, ChainSteps, PositionTypes
<1>6. Sending(batcher') => batcher'.out.match = batcher'.next
    BY <1>2 DEF MatchesOK, Sending
<1>7. CASE UNCHANGED tickets /\ (producer'.terminalErr = NoErr => IsBarrier(o))
    <2>1. \A n : Position(n)' = Position(n)
        BY <1>7 DEF Position
    <2>2. producer'.terminalErr = NoErr => PastOutput(from, o) = Position(Len(tickets))'
        BY <1>4, <1>7, <2>1 DEF PastOutput
    <2> QED BY <1>5, <1>6, <1>7, <2>1, <2>2 DEF MatchesOK
<1>8. CASE /\ ~ IsBarrier(o) /\ producer.terminalErr = NoErr
           /\ tickets' = Append(tickets, [batch |-> o, start |-> 0, is |-> "submitted"])
    <2>0. PICK n \in Nat : n = Len(tickets)
        BY <1>1 DEF SessionTypes
    <2> DEFINE t == [batch |-> o, start |-> 0, is |-> "submitted"]
    <2>1. t.batch = o
        OBVIOUS
    <2> HIDE DEF t
    <2>2. tickets' = Append(tickets, t)
        BY <1>8 DEF t
    <2>3. /\ DOMAIN tickets = 1 .. n /\ DOMAIN tickets' = 1 .. n + 1 /\ Len(tickets') = n + 1
          /\ \A i \in DOMAIN tickets : tickets'[i] = tickets[i]
          /\ tickets'[n + 1] = t
        BY <1>1, <2>0, <2>2 DEF SessionTypes
    <2>4. \A i \in 0 .. n : Position(i)' = Position(i)
        BY <1>1, <2>0, <2>3, PositionsStay
    <2>5. o.match = Position(n)
        BY <1>4, <1>5, <1>8, <2>0
    <2>6. Position(n + 1)' = PastOutput(from, o)
        BY <1>5, <1>8, <2>1, <2>3 DEF Position, PastOutput
    <2>7. \A i \in DOMAIN tickets' : tickets'[i].batch.match = Position(i - 1)'
        <3>1. ASSUME NEW i \in 1 .. n PROVE tickets'[i].batch.match = Position(i - 1)'
            <4>1. i - 1 \in 0 .. n /\ i \in DOMAIN tickets
                BY <2>3
            <4> QED BY <2>3, <2>4, <4>1 DEF MatchesOK
        <3>2. tickets'[n + 1].batch.match = Position((n + 1) - 1)'
            <4>1. (n + 1) - 1 = n /\ n \in 0 .. n
                OBVIOUS
            <4> QED BY <2>1, <2>3, <2>4, <2>5, <4>1
        <3> QED BY <2>3, <3>1, <3>2
    <2> QED BY <1>5, <1>6, <2>3, <2>6, <2>7 DEF MatchesOK
<1>9. CASE IsBarrier(o)
    <2>1. UNCHANGED tickets
        BY <1>9 DEF Receive, sessionVars
    <2> QED BY <1>7, <1>9, <2>1
<1>10. CASE ~ IsBarrier(o) /\ producer.terminalErr # NoErr
    <2>1. UNCHANGED tickets /\ producer'.terminalErr # NoErr
        BY <1>10 DEF Receive, sessionVars
    <2> QED BY <1>7, <2>1
<1>11. CASE ~ IsBarrier(o) /\ producer.terminalErr = NoErr /\ ~ sessionOpen
    <2>1. UNCHANGED tickets /\ producer' = RecordTerminalError(producer, ErrAppend)
        BY <1>11 DEF Receive, sessionVars, Becomes
    <2>2. producer'.terminalErr # NoErr
        BY <1>11, <2>1, InvFacts, RecordTerminalErrorKeeps
           DEF Errs, NoErr, ErrSessionClosed, ErrContext, ErrAppend
    <2> QED BY <1>7, <2>1, <2>2
<1>12. CASE ~ IsBarrier(o) /\ producer.terminalErr = NoErr /\ sessionOpen
    <2>1. tickets' = Append(tickets, [batch |-> o, start |-> 0, is |-> "submitted"])
        BY <1>12 DEF Receive
    <2> QED BY <1>8, <1>12, <2>1
<1> QED BY <1>9, <1>10, <1>11, <1>12

(* Every step keeps the predicted positions in line. *)
LEMMA MatchesKeep ==
    ASSUME ProducerInv, AddedOK, MatchesOK, [Next]_<<vars, setup>>
    PROVE  MatchesOK'
<1>1. StepKind /\ UNCHANGED setup
    BY StepKinds DEF Next
<1>2. batcher \in BatcherType
    BY InvFacts
<1>3. ASSUME UNCHANGED tickets, NEW b, b.ch = batcher.ch, b.next = batcher.next,
             b.out = batcher.out, Moved(b, batcher'),
             producer.terminalErr # NoErr => producer'.terminalErr # NoErr
      PROVE  MatchesOK'
    <2>1. batcher'.ch = batcher.ch /\ batcher'.next = batcher.next
        BY <1>3 DEF Moved, SameLine, FlushLine
    <2>2. Sending(batcher') => batcher'.out.match = batcher'.next
        <3>1. CASE batcher'.out = batcher.out
            BY <2>1, <3>1 DEF Sending, MatchesOK
        <3>2. CASE batcher'.out = [records |-> b.buffer, meta |-> b.meta, match |-> b.next]
            BY <1>3, <2>1, <3>2
        <3> QED BY <1>3, <3>1, <3>2 DEF Moved, SameLine, FlushLine
    <2> QED BY <1>1, <1>3, <2>1, <2>2, MatchesStay
<1>4. CASE Quiet
    BY <1>3, <1>4 DEF Quiet, Kept, sessionVars
<1>5. ASSUME NEW r \in Records, Entering(r) PROVE MatchesOK'
    <2> DEFINE b == Buffered(batcher, r)
    <2>1. b.ch = batcher.ch /\ b.next = batcher.next /\ b.out = batcher.out
        BY <1>2 DEF Buffered, BatcherType
    <2>2. UNCHANGED tickets /\ UNCHANGED producer /\ Moved(b, batcher')
        BY <1>5 DEF Entering, sessionVars
    <2> HIDE DEF b
    <2> QED BY <1>3, <2>1, <2>2
<1>6. ASSUME NEW f \in Flushes, BarrierSent(f) PROVE MatchesOK'
    BY <1>1, <1>6, MatchesBarrier
<1>7. CASE WorkStep
    <2>1. producer.terminalErr # NoErr => producer'.terminalErr # NoErr
        BY <1>7, WorkFields
    <2>2. CASE SendBatch \/ DropBatch
        BY <1>1, <2>2, MatchesSelect
    <2>3. CASE Receive
        BY <1>1, <2>1, <2>3, MatchesReceive
    <2>4. CASE \/ AwaitSubmission \/ FailBatch \/ ReachBarrier \/ ConsumerDrains
               \/ \E i \in DOMAIN tickets : AwaitAck(i)
        <3>1. UNCHANGED <<batcher, tickets>>
            BY <2>4 DEF AwaitSubmission, FailBatch, ReachBarrier, ConsumerDrains, AwaitAck, sessionVars
        <3> QED BY <1>1, <2>1, <3>1, MatchesStay DEF MatchesOK
    <2>5. CASE SessionMoves
        <3>1. UNCHANGED <<batcher, producer>>
            BY <2>5, SessionFrame DEF SessionUnchanged
        <3>2. /\ SessionTypes /\ DOMAIN tickets' = DOMAIN tickets /\ Len(tickets') = Len(tickets)
              /\ \A i \in DOMAIN tickets : tickets'[i].batch = tickets[i].batch
            BY <2>5, InvSession, SessionKeepsBatches
        <3>3. PICK n \in Nat : n = Len(tickets) /\ DOMAIN tickets = 1 .. n
            <4>1. tickets \in Seq(Ticket)
                BY <3>2 DEF SessionTypes
            <4> QED BY <4>1
        <3>4. \A i \in 0 .. n : Position(i)' = Position(i)
            BY <1>1, <3>2, <3>3, PositionsStay
        <3>5. ASSUME NEW i \in DOMAIN tickets' PROVE tickets'[i].batch.match = Position(i - 1)'
            <4>1. i \in DOMAIN tickets /\ i - 1 \in 0 .. n
                BY <3>2, <3>3
            <4> QED BY <3>2, <3>4, <4>1 DEF MatchesOK
        <3>6. Position(Len(tickets))' = Position(Len(tickets))
            <4>1. n \in 0 .. n
                OBVIOUS
            <4> QED BY <3>2, <3>3, <3>4, <4>1
        <3> QED BY <3>1, <3>5, <3>6 DEF MatchesOK
    <2> QED BY <1>7, <2>2, <2>3, <2>4, <2>5, Zenon DEF WorkStep, ConsumerStep
<1> QED BY <1>1, <1>4, <1>5, <1>6, <1>7 DEF StepKind, Background, Calm

(* Which steps concern the session. *)
LEMMA SessionSteps ==
    ASSUME ProducerInv, AddedOK, [Next]_<<vars, setup>>
    PROVE  UNCHANGED setup /\ (UNCHANGED sessionVars \/ Receive \/ SessionMoves)
<1>1. StepKind /\ UNCHANGED setup
    BY StepKinds DEF Next
<1>2. CASE Quiet
    BY <1>1, <1>2 DEF Quiet
<1>3. CASE (\E r \in Records : Entering(r)) \/ (\E f \in Flushes : BarrierSent(f))
    BY <1>1, <1>3 DEF Entering, BarrierSent
<1>4. CASE WorkStep
    <2>1. CASE \/ SendBatch \/ DropBatch \/ AwaitSubmission \/ FailBatch \/ ReachBarrier
               \/ ConsumerDrains \/ \E i \in DOMAIN tickets : AwaitAck(i)
        BY <1>1, <2>1 DEF SendBatch, DropBatch, AwaitSubmission, FailBatch, ReachBarrier,
                          ConsumerDrains, AwaitAck
    <2> QED BY <1>1, <1>4, <2>1, Zenon DEF WorkStep, ConsumerStep
<1> QED BY <1>1, <1>2, <1>3, <1>4 DEF StepKind, Background, Calm

(* The consumer submits a batch more, or leaves the session alone. *)
LEMMA BatchSubmitted ==
    ASSUME ProducerInv, Receive
    PROVE  \/ UNCHANGED sessionVars
           \/ /\ UNCHANGED <<log, sessionOpen>> /\ sessionOpen
              /\ Len(tickets') = Len(tickets) + 1 /\ DOMAIN tickets' = 1 .. Len(tickets) + 1
              /\ \A i \in DOMAIN tickets : tickets'[i] = tickets[i]
              /\ tickets'[Len(tickets) + 1].is = "submitted"
<1> DEFINE t == [batch |-> Head(batcher.ch), start |-> 0, is |-> "submitted"]
<1>1. t.is = "submitted"
    OBVIOUS
<1>2. \/ UNCHANGED sessionVars
      \/ tickets' = Append(tickets, t) /\ UNCHANGED <<log, sessionOpen>> /\ sessionOpen
    BY DEF Receive
<1> HIDE DEF t
<1>3. tickets \in Seq(Ticket)
    BY InvSession DEF SessionTypes
<1> QED BY <1>1, <1>2, <1>3

(* Every step keeps the batches alike: a new one continues the last one.   *)
LEMMA AlikeKeeps ==
    ASSUME ProducerInv, AddedOK, AlikeOK, MatchesOK', [Next]_<<vars, setup>>
    PROVE  AlikeOK'
<1>1. UNCHANGED setup /\ (UNCHANGED sessionVars \/ Receive \/ SessionMoves)
    BY SessionSteps
<1>2. SessionTypes /\ tickets \in Seq(Ticket)
    BY InvSession DEF SessionTypes
<1>3. Conditional' = Conditional
    BY <1>1 DEF Conditional
<1>4. CASE UNCHANGED sessionVars
    BY <1>3, <1>4 DEF AlikeOK, sessionVars
<1>5. CASE SessionMoves
    BY <1>2, <1>3, <1>5, SessionKeepsBatches DEF AlikeOK
<1>6. CASE Receive /\ ~ UNCHANGED sessionVars
    <2>1. PICK l \in Nat : l = Len(tickets) /\ DOMAIN tickets = 1 .. l
        BY <1>2
    <2>2. /\ Len(tickets') = l + 1 /\ DOMAIN tickets' = 1 .. l + 1
          /\ \A i \in DOMAIN tickets : tickets'[i] = tickets[i]
        BY <1>6, <2>1, BatchSubmitted
    <2>3. tickets'[l + 1].batch.match # NoMatch <=> Conditional
        <3>1. tickets'[l + 1].batch.match = Position(l)'
            <4>1. l + 1 \in DOMAIN tickets' /\ (l + 1) - 1 = l
                BY <2>2
            <4> QED BY <4>1 DEF MatchesOK
        <3>2. CASE l = 0
            BY <1>1, <3>1, <3>2 DEF Position, Conditional
        <3>3. CASE l # 0
            <4>1. l \in DOMAIN tickets
                BY <2>1, <3>3
            <4>2. tickets[l] \in Ticket
                BY <1>2, <4>1
            <4>3. tickets[l].batch.match \in Positions /\ Len(tickets[l].batch.records) \in Nat
                BY <4>2 DEF Ticket, Batch, Positions
            <4>4. tickets'[l + 1].batch.match
                      = Plus(tickets[l].batch.match, Len(tickets[l].batch.records))
                BY <2>2, <3>1, <3>3, <4>1 DEF Position
            <4>5. NoMatch \notin Nat
                BY BatcherAssumption
            <4> QED BY <4>1, <4>3, <4>4, <4>5 DEF Plus, Positions, AlikeOK
        <3> QED BY <3>2, <3>3
    <2>4. ASSUME NEW i \in DOMAIN tickets' PROVE tickets'[i].batch.match # NoMatch <=> Conditional
        <3>1. i \in DOMAIN tickets \/ i = l + 1
            BY <2>1, <2>2
        <3> QED BY <2>2, <2>3, <3>1 DEF AlikeOK
    <2> QED BY <1>3, <2>4 DEF AlikeOK
<1> QED BY <1>1, <1>4, <1>5, <1>6

(* A batch whose condition holds was not applied before: the session       *)
(* repeats nothing that has a condition.                                   *)
LEMMA NoRepeat ==
    ASSUME ProducerInv, AlikeOK, RepeatsOK, Conditional,
           NEW i \in DOMAIN tickets, SessionRepeats(i)
    PROVE  UNCHANGED sessionVars
<1> DEFINE s == tickets[i].batch.records
<1>1. log \in Seq(Records) /\ tickets[i] \in Ticket
    BY InvSession DEF SessionTypes
<1>2. s \in Seq(Records) /\ Len(log) \in Nat
    BY <1>1 DEF Ticket, Batch
<1>3. /\ UNCHANGED <<tickets, sessionOpen>> /\ log' = log \o s
      /\ tickets[i].batch.match \in {NoMatch, Len(log)}
      /\ NoneTwice => RecordsOf(s) \subseteq RecordsOf(log)
    BY DEF SessionRepeats, Appends, Matches
<1>4. TicketRecords(i) \cap RecordsOf(log) = {}
    BY <1>2, <1>3 DEF AlikeOK, RepeatsOK
<1>5. RecordsOf(s) = {}
    BY <1>3, <1>4 DEF RepeatsOK, TicketRecords
<1> HIDE DEF s
<1>6. s = <<>>
    <2>1. DOMAIN s = {}
        BY <1>5 DEF RecordsOf
    <2>2. DOMAIN s = 1 .. Len(s) /\ Len(s) \in Nat
        BY <1>2
    <2>3. Len(s) = 0
        BY <2>1, <2>2
    <2> QED BY <1>2, <2>3
<1>7. log' = log
    BY <1>1, <1>3, <1>6
<1> QED BY <1>3, <1>7 DEF sessionVars

(* The oldest batch is applied: it was not in the stream yet, and no other *)
(* batch has its records.                                                  *)
LEMMA RepeatsAppend ==
    ASSUME ProducerInv, FlowInv, AlikeOK, RepeatsOK, Conditional, UNCHANGED setup,
           NEW i \in DOMAIN tickets, SessionAppends(i)
    PROVE  RepeatsOK'
<1> DEFINE s == tickets[i].batch.records
<1>1. /\ log \in Seq(Records) /\ tickets \in Seq(Ticket) /\ SessionTypes
      /\ tickets[i] \in Ticket
    BY InvSession DEF SessionTypes
<1>2. s \in Seq(Records) /\ Len(log) \in Nat
    BY <1>1 DEF Ticket, Batch
<1>3. /\ tickets[i].is = "ticket" /\ \A j \in 1 .. i - 1 : tickets[j].is # "ticket"
      /\ log' = log \o s /\ tickets[i].batch.match = Len(log)
    BY DEF SessionAppends, Appends, Matches, AlikeOK
<1>4. sessionOpen
    BY <1>3 DEF FlowInv, TurnsOK
<1>5. InOrder(added, log') /\ Once(added)
    BY <1>3, <1>4, OldestAppends DEF RepeatsOK, FlowInv, AddedOK
<1>6. added \in Seq(Records)
    BY InvFacts DEF TypeOK
<1>7. NoneTwice'
    <2>1. log' \in Seq(Records) /\ DOMAIN log' \subseteq Int
        BY <1>1, <1>2, <1>3
    <2>2. ASSUME NEW k \in DOMAIN log', NEW m \in DOMAIN log', k < m PROVE log'[k] # log'[m]
        <3>1. PICK x \in DOMAIN added, y \in DOMAIN added :
                  x < y /\ added[x] = log'[k] /\ added[y] = log'[m]
            BY <1>5, <2>2 DEF InOrder, Before
        <3>2. x # y
            BY <1>6, <3>1
        <3> QED BY <1>5, <3>1, <3>2 DEF Once
    <2>3. ASSUME NEW k \in DOMAIN log', NEW m \in DOMAIN log', log'[k] = log'[m] PROVE k = m
        <3>1. k < m \/ m < k \/ k = m
            BY <2>1
        <3> QED BY <2>2, <2>3, <3>1
    <2> QED BY <2>3 DEF NoneTwice
<1>8. /\ DOMAIN tickets' = DOMAIN tickets
      /\ \A j \in DOMAIN tickets : tickets'[j].batch = tickets[j].batch
    <2>1. SessionMoves
        BY DEF SessionMoves, SessionStep
    <2> QED BY <1>1, <2>1, SessionKeepsBatches
<1>9. RecordsOf(log') = RecordsOf(log) \cup TicketRecords(i) /\ Len(log') = Len(log) + Len(s)
    BY <1>1, <1>2, <1>3, RecordsOfSeq DEF TicketRecords
<1>10. ASSUME NEW j \in DOMAIN tickets, TicketRecords(j) \cap RecordsOf(log') # {}
       PROVE  tickets[j].batch.match < Len(log')
    <2>1. CASE TicketRecords(j) \cap RecordsOf(log) # {}
        <3>1. tickets[j].batch.match < Len(log) /\ tickets[j] \in Ticket
            BY <1>1, <2>1 DEF RepeatsOK
        <3>2. tickets[j].batch.match \in Nat
            <4>1. tickets[j].batch.match \in Nat \cup {NoMatch}
                BY <3>1 DEF Ticket, Batch
            <4> QED BY <4>1 DEF AlikeOK
        <3>3. Len(s) \in Nat
            BY <1>2
        <3> QED BY <1>2, <1>9, <3>1, <3>2, <3>3
    <2>2. CASE TicketRecords(j) \cap TicketRecords(i) # {}
        <3>1. j = i
            <4>1. j < i => TicketRecords(j) \cap TicketRecords(i) = {}
                BY <1>5, <1>6, OlderApart DEF FlowInv, StreamOK
            <4>2. i < j => TicketRecords(i) \cap TicketRecords(j) = {}
                BY <1>5, <1>6, OlderApart DEF FlowInv, StreamOK
            <4>3. i \in Int /\ j \in Int
                BY <1>1
            <4> QED BY <2>2, <4>1, <4>2, <4>3
        <3>2. Len(s) \in Nat /\ Len(s) # 0
            <4>1. RecordsOf(s) # {}
                BY <2>2 DEF TicketRecords
            <4>2. DOMAIN s # {} /\ DOMAIN s = 1 .. Len(s)
                BY <1>2, <4>1 DEF RecordsOf
            <4> QED BY <1>2, <4>2
        <3> QED BY <1>2, <1>3, <1>9, <3>1, <3>2
    <2> QED BY <1>9, <1>10, <2>1, <2>2
<1>11. \A j \in DOMAIN tickets' :
           TicketRecords(j)' \cap RecordsOf(log') # {} => tickets'[j].batch.match < Len(log')
    BY <1>8, <1>10 DEF TicketRecords
<1> QED BY <1>7, <1>11 DEF RepeatsOK

(* Every step keeps what was applied from being applied again. *)
LEMMA RepeatsKeep ==
    ASSUME ProducerInv, FlowInv, FlowInv', AlikeOK, RepeatsOK, [Next]_<<vars, setup>>
    PROVE  RepeatsOK'
<1> SUFFICES ASSUME Conditional
             PROVE  RepeatsOK'
    BY SessionSteps DEF RepeatsOK, Conditional, FlowInv
<1>1. UNCHANGED setup /\ (UNCHANGED sessionVars \/ Receive \/ SessionMoves)
    BY SessionSteps DEF FlowInv
<1>2. SessionTypes /\ tickets \in Seq(Ticket)
    BY InvSession DEF SessionTypes
<1>3. ASSUME UNCHANGED log, DOMAIN tickets' = DOMAIN tickets,
             \A j \in DOMAIN tickets : tickets'[j].batch = tickets[j].batch
      PROVE  RepeatsOK'
    BY <1>3 DEF RepeatsOK, NoneTwice, TicketRecords
<1>4. CASE UNCHANGED sessionVars
    BY <1>3, <1>4 DEF sessionVars
<1>5. CASE SessionMoves
    <2>1. /\ DOMAIN tickets' = DOMAIN tickets
          /\ \A j \in DOMAIN tickets : tickets'[j].batch = tickets[j].batch
        BY <1>2, <1>5, SessionKeepsBatches
    <2>2. ASSUME NEW i \in DOMAIN tickets, SessionAppends(i) PROVE RepeatsOK'
        BY <1>1, <2>2, RepeatsAppend
    <2>3. ASSUME NEW i \in DOMAIN tickets, SessionRepeats(i) PROVE RepeatsOK'
        BY <1>4, <2>3, NoRepeat
    <2>4. CASE SessionFails \/ \E i \in DOMAIN tickets : SessionAnswers(i) \/ SessionAcks(i)
        BY <1>3, <2>1, <2>4 DEF SessionFails, SessionAnswers, SessionAcks
    <2> QED BY <1>5, <2>2, <2>3, <2>4 DEF SessionMoves, SessionStep
<1>6. CASE Receive /\ ~ UNCHANGED sessionVars
    <2>1. PICK l \in Nat : l = Len(tickets) /\ DOMAIN tickets = 1 .. l
        BY <1>2
    <2>2. /\ UNCHANGED <<log, sessionOpen>> /\ sessionOpen /\ DOMAIN tickets' = 1 .. l + 1
          /\ \A i \in DOMAIN tickets : tickets'[i] = tickets[i]
          /\ tickets'[l + 1].is = "submitted"
        BY <1>6, <2>1, BatchSubmitted
    <2>3. NoneTwice'
        BY <2>2 DEF RepeatsOK, NoneTwice
    <2>4. TicketRecords(l + 1)' \cap RecordsOf(log') = {}
        <3>1. l + 1 \in DOMAIN tickets' /\ sessionOpen'
            BY <2>2
        <3>2. Older(added', RecordsOf(log'), TicketRecords(l + 1)')
            BY <2>2, <2>3, <3>1 DEF FlowInv, StreamOK
        <3>3. Once(added') /\ added' \in Seq(Records)
            BY <1>6, InvFacts DEF FlowInv, AddedOK, TypeOK, Receive, submitVars
        <3> QED BY <3>2, <3>3, OlderApart
    <2>5. ASSUME NEW j \in DOMAIN tickets', TicketRecords(j)' \cap RecordsOf(log') # {}
          PROVE  tickets'[j].batch.match < Len(log')
        <3>1. j \in DOMAIN tickets
            BY <2>1, <2>2, <2>4, <2>5
        <3> QED BY <2>2, <2>5, <3>1 DEF RepeatsOK, TicketRecords
    <2> QED BY <2>3, <2>5 DEF RepeatsOK
<1> QED BY <1>1, <1>4, <1>5, <1>6

(* The session does nothing. *)
LEMMA AppliedStays ==
    ASSUME AppliedOK, UNCHANGED <<setup, sessionVars>>
    PROVE  AppliedOK'
<1>1. UNCHANGED <<tickets, log, sessionOpen>> /\ Conditional' = Conditional
    BY DEF sessionVars, Conditional
<1>2. \A n : Position(n)' = Position(n) /\ Applied(n)' = Applied(n)
    BY <1>1 DEF Position, Applied
<1> QED BY <1>1, <1>2 DEF AppliedOK

(* A batch more is submitted. *)
LEMMA AppliedReceive ==
    ASSUME ProducerInv, AppliedOK, UNCHANGED setup, Receive
    PROVE  AppliedOK'
<1>1. CASE UNCHANGED sessionVars
    BY <1>1, AppliedStays
<1>2. CASE ~ UNCHANGED sessionVars
    <2> SUFFICES ASSUME Conditional
                 PROVE  \E n \in 0 .. Len(tickets') :
                            /\ Position(n)' \in {NoMatch, Len(log')}
                            /\ \A i \in DOMAIN tickets' : Applied(i)' <=> i <= n
        BY DEF AppliedOK, Conditional
    <2>1. PICK l \in Nat : l = Len(tickets) /\ DOMAIN tickets = 1 .. l
        BY InvSession DEF SessionTypes
    <2>2. /\ UNCHANGED <<log, sessionOpen>> /\ sessionOpen
          /\ DOMAIN tickets' = 1 .. l + 1 /\ Len(tickets') = l + 1
          /\ \A i \in DOMAIN tickets : tickets'[i] = tickets[i]
          /\ tickets'[l + 1].is = "submitted"
        BY <1>2, <2>1, BatchSubmitted
    <2>3. PICK n \in 0 .. l :
              /\ Position(n) \in {NoMatch, Len(log)}
              /\ \A i \in DOMAIN tickets : Applied(i) <=> i <= n
        BY <2>1, <2>2 DEF AppliedOK
    <2>4. Position(n)' = Position(n)
        BY <2>1, <2>2, <2>3, InvSession, PositionsStay
    <2>5. ASSUME NEW i \in DOMAIN tickets' PROVE Applied(i)' <=> i <= n
        <3>1. CASE i \in DOMAIN tickets
            BY <2>2, <2>3, <3>1 DEF Applied
        <3>2. CASE i = l + 1
            BY <2>2, <2>3, <3>2 DEF Applied
        <3> QED BY <2>1, <2>2, <3>1, <3>2
    <2>6. n \in 0 .. Len(tickets')
        BY <2>2, <2>3
    <2>7. Position(n)' \in {NoMatch, Len(log')}
        BY <2>2, <2>3, <2>4
    <2> QED BY <2>5, <2>6, <2>7
<1> QED BY <1>1, <1>2

(* The session applies the oldest ticket that it has not applied: the one  *)
(* after those it has.                                                     *)
LEMMA OldestIsNext ==
    ASSUME ProducerInv, FlowInv, NEW i \in DOMAIN tickets, tickets[i].is = "ticket",
           \A j \in 1 .. i - 1 : tickets[j].is # "ticket",
           NEW n \in 0 .. Len(tickets),
           \A j \in DOMAIN tickets : Applied(j) <=> j <= n
    PROVE  i = n + 1 /\ sessionOpen
<1>1. SessionTypes /\ TurnsOK
    BY InvSession DEF FlowInv
<1>2. PICK l \in Nat : l = Len(tickets) /\ DOMAIN tickets = 1 .. l
    BY <1>1 DEF SessionTypes
<1>3. sessionOpen
    BY <1>1 DEF TurnsOK
<1>4. i \in 1 .. l /\ n \in 0 .. l /\ ~ (i <= n)
    BY <1>2 DEF Applied
<1>5. ASSUME n + 1 < i PROVE FALSE
    <2>1. n + 1 \in DOMAIN tickets /\ n + 1 \in 1 .. i - 1 /\ n + 1 # l
        BY <1>2, <1>4, <1>5
    <2>2. tickets[n + 1] \in Ticket
        BY <1>1, <2>1 DEF SessionTypes
    <2>3. tickets[n + 1].is \notin {"appended", "acked", "ticket"}
        BY <1>4, <2>1 DEF Applied
    <2>4. tickets[n + 1].is \in {"submitted", "rejected", "failed"}
        BY <2>2, <2>3 DEF Ticket
    <2> QED BY <1>1, <1>2, <1>3, <2>1, <2>4 DEF TurnsOK
<1> QED BY <1>3, <1>4, <1>5

(* A ticket changes, but not from or to being applied. *)
LEMMA AppliedAnswers ==
    ASSUME ProducerInv, AppliedOK, UNCHANGED <<setup, log, sessionOpen>>,
           Len(tickets') = Len(tickets), DOMAIN tickets' = DOMAIN tickets,
           \A j \in DOMAIN tickets : tickets'[j].batch = tickets[j].batch,
           \A j \in DOMAIN tickets : Applied(j)' <=> Applied(j)
    PROVE  AppliedOK'
<1> SUFFICES ASSUME sessionOpen, Conditional
             PROVE  \E n \in 0 .. Len(tickets') :
                        /\ Position(n)' \in {NoMatch, Len(log')}
                        /\ \A j \in DOMAIN tickets' : Applied(j)' <=> j <= n
    BY DEF AppliedOK, Conditional
<1>1. PICK n \in 0 .. Len(tickets) :
          /\ Position(n) \in {NoMatch, Len(log)}
          /\ \A j \in DOMAIN tickets : Applied(j) <=> j <= n
    BY DEF AppliedOK
<1>2. Position(n)' = Position(n)
    <2>1. SessionTypes /\ Len(tickets) \in Nat
        BY InvSession DEF SessionTypes
    <2> QED BY <2>1, PositionsStay
<1> QED BY <1>1, <1>2

(* The steps of the session. *)
LEMMA AppliedSession ==
    ASSUME ProducerInv, FlowInv, AlikeOK, RepeatsOK, AppliedOK, UNCHANGED setup, SessionMoves
    PROVE  AppliedOK'
<1>1. SessionTypes /\ tickets \in Seq(Ticket) /\ log \in Seq(Records)
    BY InvSession DEF SessionTypes
<1>2. PICK l \in Nat : l = Len(tickets) /\ DOMAIN tickets = 1 .. l
    BY <1>1
<1>3. /\ Len(tickets') = Len(tickets) /\ DOMAIN tickets' = DOMAIN tickets
      /\ \A j \in DOMAIN tickets : tickets'[j].batch = tickets[j].batch
    BY <1>1, SessionKeepsBatches
<1>4. \A n \in 0 .. l : Position(n)' = Position(n)
    BY <1>1, <1>2, <1>3, PositionsStay
<1>5. Conditional' = Conditional
    BY DEF Conditional
<1>6. CASE SessionFails
    BY <1>6 DEF SessionFails, AppliedOK
<1>7. ASSUME NEW i \in DOMAIN tickets, SessionAnswers(i) PROVE AppliedOK'
    <2> DEFINE s == IF sessionOpen THEN "ticket" ELSE "rejected"
               t == [tickets[i] EXCEPT !.is = s]
    <2>1. /\ UNCHANGED <<log, sessionOpen>> /\ tickets[i].is = "submitted"
          /\ tickets' = [tickets EXCEPT ![i] = t]
        BY <1>7 DEF SessionAnswers
    <2>2. t.is = s /\ s \notin {"appended", "acked"}
        <3>1. tickets[i] \in Ticket
            BY <1>1
        <3> QED BY <3>1 DEF Ticket
    <2> HIDE DEF t, s
    <2>3. tickets'[i] = t /\ \A j \in DOMAIN tickets : j # i => tickets'[j] = tickets[j]
        BY <1>1, <2>1, TicketReplaced
    <2>4. \A j \in DOMAIN tickets : Applied(j)' <=> Applied(j)
        BY <2>1, <2>2, <2>3 DEF Applied
    <2> QED BY <1>3, <2>1, <2>4, AppliedAnswers
<1>8. ASSUME NEW i \in DOMAIN tickets, SessionAcks(i), Conditional PROVE AppliedOK'
    <2>1. PICK start \in 0 .. Len(log) :
              /\ NoneTwice => tickets[i].is = "appended"
              /\ tickets' = [tickets EXCEPT ![i].is = "acked", ![i].start = start]
        BY <1>8 DEF SessionAcks
    <2> DEFINE t == [tickets[i] EXCEPT !.is = "acked", !.start = start]
    <2>2. /\ UNCHANGED <<log, sessionOpen>> /\ tickets[i].is = "appended"
          /\ tickets' = [tickets EXCEPT ![i] = t]
        BY <1>8, <2>1 DEF SessionAcks, RepeatsOK
    <2>3. t.is = "acked"
        <3>1. tickets[i] \in Ticket
            BY <1>1
        <3> QED BY <3>1 DEF Ticket
    <2> HIDE DEF t
    <2>4. tickets'[i] = t /\ \A j \in DOMAIN tickets : j # i => tickets'[j] = tickets[j]
        BY <1>1, <2>2, TicketReplaced
    <2>5. \A j \in DOMAIN tickets : Applied(j)' <=> Applied(j)
        BY <2>2, <2>3, <2>4 DEF Applied
    <2> QED BY <1>3, <2>2, <2>5, AppliedAnswers
<1>9. ASSUME NEW i \in DOMAIN tickets, SessionAppends(i), Conditional
      PROVE  \E n \in 0 .. Len(tickets') :
                 /\ Position(n)' \in {NoMatch, Len(log')}
                 /\ \A j \in DOMAIN tickets' : Applied(j)' <=> j <= n
    <2> DEFINE o == tickets[i].batch
               t == [tickets[i] EXCEPT !.is = "appended", !.start = Len(log)]
    <2>1. /\ tickets[i].is = "ticket" /\ \A j \in 1 .. i - 1 : tickets[j].is # "ticket"
          /\ o.match \in {NoMatch, Len(log)} /\ log' = log \o o.records
          /\ tickets' = [tickets EXCEPT ![i] = t]
        BY <1>9 DEF SessionAppends, Appends, Matches
    <2>2. tickets[i] \in Ticket
        BY <1>1
    <2>3. t.is = "appended"
        BY <2>2 DEF Ticket
    <2> HIDE DEF t
    <2>4. tickets'[i] = t /\ \A j \in DOMAIN tickets : j # i => tickets'[j] = tickets[j]
        BY <1>1, <2>1, TicketReplaced
    <2>5. sessionOpen
        BY <2>1 DEF FlowInv, TurnsOK
    <2>6. PICK n \in 0 .. l :
              /\ Position(n) \in {NoMatch, Len(log)}
              /\ \A j \in DOMAIN tickets : Applied(j) <=> j <= n
        BY <1>2, <1>9, <2>5 DEF AppliedOK
    <2>7. i = n + 1
        BY <1>2, <2>1, <2>6, OldestIsNext
    <2>8. \A j \in DOMAIN tickets' : Applied(j)' <=> j <= n + 1
        <3>1. ASSUME NEW j \in DOMAIN tickets, j # i PROVE Applied(j)' <=> j <= n + 1
            <4>1. Applied(j)' <=> Applied(j)
                BY <2>4, <3>1 DEF Applied
            <4> QED BY <1>2, <2>6, <2>7, <3>1, <4>1
        <3>2. Applied(i)' /\ i <= n + 1
            BY <1>2, <2>3, <2>4, <2>7 DEF Applied
        <3> QED BY <1>3, <3>1, <3>2
    <2>9. o.records \in Seq(Records) /\ o.match \in Positions
        BY <2>2 DEF Ticket, Batch, Positions
    <2>10. Len(log') = Len(log) + Len(o.records) /\ Len(log) \in Nat
        BY <1>1, <2>1, <2>9
    <2>11. Position(i) = Plus(o.match, Len(o.records))
        BY <1>2 DEF Position
    <2>12. Position(i)' \in {NoMatch, Len(log')}
        <3>1. i \in 0 .. l
            BY <1>2
        <3> QED BY <1>4, <2>1, <2>10, <2>11, <3>1 DEF Plus
    <2> QED BY <1>2, <1>3, <2>7, <2>8, <2>12
<1>10. ASSUME NEW i \in DOMAIN tickets, SessionRepeats(i), Conditional PROVE AppliedOK'
    BY <1>10, NoRepeat, AppliedStays
<1>11. CASE ~ Conditional
    BY <1>5, <1>11 DEF AppliedOK
<1>12. ASSUME NEW i \in DOMAIN tickets, SessionAppends(i), Conditional PROVE AppliedOK'
    BY <1>9, <1>12 DEF AppliedOK
<1> QED BY <1>6, <1>7, <1>8, <1>10, <1>11, <1>12 DEF SessionMoves, SessionStep

(* Every step keeps the stream where the tickets say. *)
LEMMA AppliedKeeps ==
    ASSUME ProducerInv, FlowInv, AlikeOK, RepeatsOK, AppliedOK, [Next]_<<vars, setup>>
    PROVE  AppliedOK'
BY SessionSteps, AppliedStays, AppliedReceive, AppliedSession DEF FlowInv

(* The producer predicts nothing, or the stream begins at the position     *)
(* that the producer was given: the stream of the model begins empty.      *)
StartsAtTail == setup.matchSeqNum \in {NoMatch, 0}

(* At the start the next batch is the first one. *)
LEMMA MatchesInit ==
    ASSUME Init
    PROVE  MatchesOK /\ AlikeOK /\ RepeatsOK /\ (StartsAtTail => AppliedOK)
<1>1. /\ tickets = <<>> /\ log = <<>> /\ batcher = NewBatcher /\ setup \in Setups
    BY DEF Init
<1>2. /\ batcher.ch = <<>> /\ batcher.out = NoBatch /\ batcher.next = setup.matchSeqNum
    BY <1>1 DEF NewBatcher
<1>3. setup.matchSeqNum \in Positions /\ Position(0) = setup.matchSeqNum
    BY <1>1, BatcherAssumption DEF Positions, Position
<1>4. Len(tickets) = 0 /\ DOMAIN tickets = {} /\ Len(log) = 0 /\ Len(batcher.ch) = 0
      /\ DOMAIN batcher.ch = {} /\ DOMAIN log = {}
    BY <1>1, <1>2
<1>5. Chain(batcher.ch, setup.matchSeqNum, batcher.next)
    <2> DEFINE at == [i \in 0 .. 0 |-> setup.matchSeqNum]
    <2>1. at \in [0 .. Len(batcher.ch) -> Positions] /\ at[0] = setup.matchSeqNum
          /\ at[Len(batcher.ch)] = batcher.next
        BY <1>2, <1>3, <1>4
    <2> HIDE DEF at
    <2> QED BY <1>4, <2>1 DEF Chain
<1>6. MatchesOK
    BY <1>2, <1>3, <1>4, <1>5 DEF MatchesOK, Sending
<1>7. AlikeOK /\ RepeatsOK
    BY <1>4 DEF AlikeOK, RepeatsOK, NoneTwice
<1>8. ASSUME StartsAtTail PROVE AppliedOK
    <2>1. 0 \in 0 .. Len(tickets) /\ Position(0) \in {NoMatch, Len(log)}
        BY <1>3, <1>4, <1>8 DEF StartsAtTail
    <2> QED BY <1>4, <2>1 DEF AppliedOK
<1> QED BY <1>6, <1>7, <1>8

(* The conditions of the batches, and what they keep out of the stream.    *)
LEMMA ConditionsInvariant == Spec => [](ProducerInv /\ FlowInv /\ MatchesOK /\ AlikeOK /\ RepeatsOK)
<1> DEFINE Inv == ProducerInv /\ FlowInv /\ MatchesOK /\ AlikeOK /\ RepeatsOK
<1>1. Init => Inv
    BY InitKeeps, FlowInit, MatchesInit
<1>2. ASSUME Inv, [Next]_<<vars, setup>> PROVE Inv'
    <2>1. ProducerInv' /\ FlowInv'
        BY <1>2, StepKeeps, StutterKeeps, FlowKeeps DEF Next
    <2>2. MatchesOK'
        BY <1>2, MatchesKeep DEF FlowInv
    <2>3. AlikeOK'
        BY <1>2, <2>2, AlikeKeeps DEF FlowInv
    <2>4. RepeatsOK'
        BY <1>2, <2>1, RepeatsKeep
    <2> QED BY <2>1, <2>2, <2>3, <2>4
<1> QED BY <1>1, <1>2, PTL DEF Spec

(* With MatchSeqNum no record is in the stream twice, though the session   *)
(* sends batches again whose acknowledgement it missed (append.go,         *)
(* AppendRetryPolicyAll): each batch names the position it belongs to,     *)
(* also behind batches that were dropped (nextMatchSeqNum).  Without it    *)
(* nothing is promised of a stream in which a batch was repeated; until    *)
(* then the stream holds the records in the order in which Submit and Add  *)
(* accepted them, whatever is dropped, refused or failed on the way        *)
(* (addWithPermit, flushLocked, consumeBatches).                           *)
THEOREM StreamKeepsOrder == Spec => []StreamInOrder
<1>1. FlowInv /\ RepeatsOK => StreamInOrder
    BY Zenon DEF FlowInv, StreamOK, RepeatsOK, Conditional, InOrder, Before, StreamInOrder
<1> QED BY <1>1, ConditionsInvariant, PTL

(* The oldest batch that is not applied carries the position where the     *)
(* stream ends.                                                            *)
LEMMA MatchesHold ==
    ASSUME ProducerInv, MatchesOK, AlikeOK, AppliedOK
    PROVE  ConditionsHold
<1> SUFFICES ASSUME NEW i \in DOMAIN tickets, tickets[i].is \in {"submitted", "ticket"}, sessionOpen,
                    \A j \in 1 .. i - 1 : Applied(j)
             PROVE  Matches(tickets[i].batch)
    BY DEF ConditionsHold, Applied
<1>1. CASE ~ Conditional
    BY <1>1 DEF AlikeOK, Matches
<1>2. CASE Conditional
    <2>1. PICK l \in Nat : l = Len(tickets) /\ DOMAIN tickets = 1 .. l
        BY InvSession DEF SessionTypes
    <2>2. PICK n \in 0 .. l :
              /\ Position(n) \in {NoMatch, Len(log)}
              /\ \A j \in DOMAIN tickets : Applied(j) <=> j <= n
        BY <1>2, <2>1 DEF AppliedOK
    <2>3. i - 1 = n
        <3>1. ~ (i <= n)
            BY <2>2 DEF Applied
        <3>2. i - 1 = 0 \/ i - 1 <= n
            <4>1. i - 1 = 0 \/ (i - 1 \in DOMAIN tickets /\ i - 1 \in 1 .. i - 1)
                BY <2>1
            <4> QED BY <2>2, <4>1
        <3> QED BY <2>1, <2>2, <3>1, <3>2
    <2> QED BY <2>2, <2>3 DEF MatchesOK, Matches
<1> QED BY <1>1, <1>2

(* A producer that starts where the stream ends keeps its appends from     *)
(* conflicting with each other, however records are batched, dropped or    *)
(* failed and whatever barriers pass between them (nextMatchSeqNum,        *)
(* flushLocked), and as long as nothing was repeated every acknowledgement *)
(* tells the position its record has (recordMeta.index).                   *)
THEOREM PositionsAreExact == Spec /\ StartsAtTail => []PositionsExact
<1>1. Init /\ StartsAtTail => AppliedOK
    BY MatchesInit
<1>2. ASSUME ProducerInv, FlowInv, MatchesOK, AlikeOK, RepeatsOK, AppliedOK, [Next]_<<vars, setup>>
      PROVE  AppliedOK'
    BY <1>2, AppliedKeeps
<1>3. ProducerInv /\ FlowInv /\ MatchesOK /\ AlikeOK /\ RepeatsOK /\ AppliedOK => PositionsExact
    BY MatchesHold DEF PositionsExact, ProducerInv
<1> QED BY <1>1, <1>2, <1>3, ConditionsInvariant, PTL DEF Spec

===============================================================================
