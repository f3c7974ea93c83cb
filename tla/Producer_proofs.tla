--------------------------- MODULE Producer_proofs ---------------------------
(***************************************************************************)
(* Proofs about Producer and the Batcher it feeds, for any finite set of   *)
(* records of any sizes, any limits, any options of the batcher and any    *)
(* number of Flush calls.                                                  *)
(***************************************************************************)
EXTENDS Producer, Capacity_proofs, SequenceTheorems, TLAPS

(* A batch is being sent only by a method that holds mu, and the sender of *)
(* a barrier has no batch left to send.                                    *)
LockOK(b) == Sending(b) => b.mu # Free /\ b.mu.op # "barrierSend"

(* Once the batcher is closed its buffer stays empty and nobody but close  *)
(* holds mu; the channel is closed after that.                             *)
ClosedOK(b) ==
    /\ b.mu.op = "close" => b.closed
    /\ b.closed => b.buffer = <<>> /\ (b.mu = Free \/ b.mu.op = "close")
    /\ b.chClosed => b.closed /\ b.mu = Free

(* A linger timer runs exactly while something is buffered, also while a   *)
(* method holds mu, and its callback will run.                             *)
TimerOK(b) ==
    /\ setup.linger => (b.buffer # <<>> <=> b.timer)
    /\ b.timer => b.timerSeq \in b.scheduled

BatcherOK(b) == b \in BatcherType /\ LockOK(b) /\ ClosedOK(b) /\ TimerOK(b)

(* The records whose Submit or Add put them into the batcher. *)
Entered == {r \in Watched : pc[r] \in {"adding", "accepted"}}

(* The records with a result channel among these ones are of S, and their  *)
(* index is the place they have.                                           *)
Fits(records, meta, S) ==
    \A k \in DOMAIN meta :
        /\ meta[k].record \in S
        /\ meta[k].index < Len(records) /\ records[meta[k].index + 1] = meta[k].record

(* All the batches on their way hold entered records at their places.      *)
BatcherFits(b, S) ==
    /\ Fits(b.buffer, b.meta, S)
    /\ Fits(b.out.records, b.out.meta, S)
    /\ \A i \in DOMAIN b.ch : ~ IsBarrier(b.ch[i]) => Fits(b.ch[i].records, b.ch[i].meta, S)

BatchesFit ==
    /\ BatcherFits(batcher, Entered)
    /\ Fits(consumer.batch.records, consumer.batch.meta, Entered)
    /\ \A i \in DOMAIN tickets : Fits(tickets[i].batch.records, tickets[i].batch.meta, Entered)

(* The method that holds mu for a record is the one that record is at. *)
HolderOK ==
    /\ batcher.mu.op \in {"add", "added"} => pc[batcher.mu.who] = "adding"
    /\ batcher.mu.op = "backpressure" => pc[batcher.mu.who] = "backpressure"

(* Only a record with a result channel goes through Submit. *)
WatchedOK ==
    \A r \in Records :
        pc[r] \in {"entered", "backpressure", "waiting", "reserved", "ready"} => r \in Watched

(* A caller that is about to close the channel has closed the batcher. *)
SealingOK == \A w \in Closers : closer[w] = "sealing" => batcher.closed /\ batcher.mu = Free

(* What the consumer knows at its places. *)
ConsumerOK ==
    /\ consumer.at = "submitted" => tickets # <<>>
    /\ consumer.at = "failing" => producer.terminalErr # NoErr

(* The records whose permit is outstanding. *)
Held ==
    {r \in Watched : /\ pc[r] \in {"reserved", "ready", "adding", "accepted"}
                     /\ outcome[r] = Unresolved}

(* Exactly these hold a permit, and the capacity in use is theirs; only a  *)
(* record that entered the batcher is resolved.                            *)
PermitsOK ==
    /\ producer.permits = Held
    /\ producer.pool.bytes = BytesOf(Held)
    /\ \A r \in Records : outcome[r] # Unresolved => r \in Entered

(* What was applied is in the stream where its ticket says, as long as the *)
(* session has repeated nothing.                                           *)
TicketsOK ==
    NoneTwice =>
        \A i \in DOMAIN tickets :
            tickets[i].is \in {"appended", "acked"} =>
                \A k \in DOMAIN tickets[i].batch.records :
                    /\ tickets[i].start + k <= Len(log)
                    /\ log[tickets[i].start + k] = tickets[i].batch.records[k]

(* The invariant of the proofs. *)
ProducerInv ==
    /\ TypeOK /\ setup \in Setups
    /\ BatcherOK(batcher) /\ BatchesFit /\ HolderOK /\ WatchedOK
    /\ SealingOK /\ ConsumerOK /\ PermitsOK /\ TicketsOK /\ SeqNumExact

-----------------------------------------------------------------------------
(* The operations of the batcher, field by field.                          *)

(* The batch that is no batch is of its type; a batch is no barrier. *)
LEMMA BatchShape ==
    /\ NoBatch \in Batch
    /\ \A o \in Batch : ~ IsBarrier(o)
    /\ \A f \in Flushes : IsBarrier([barrier |-> f]) /\ [barrier |-> f] \in Outputs
    /\ \A o \in Outputs : IF IsBarrier(o) THEN o \in [barrier : Flushes] ELSE o \in Batch
<1>1. <<>> \in Seq(Records) /\ <<>> \in Seq(Metas)
    OBVIOUS
<1>2. NoBatch \in Batch
    BY <1>1 DEF NoBatch, Batch
<1>3. \A o \in Batch : ~ IsBarrier(o)
    BY DEF Batch, IsBarrier
<1>4. \A o \in [barrier : Flushes] : IsBarrier(o)
    BY DEF IsBarrier
<1>5. \A f \in Flushes : [barrier |-> f] \in [barrier : Flushes]
    OBVIOUS
<1> QED BY <1>2, <1>3, <1>4, <1>5 DEF Outputs

(* flushLocked up to its select. *)
LEMMA FlushBegunFields ==
    ASSUME NEW b \in BatcherType, ~ Sending(b), NEW c \in FlushBegun(b)
    PROVE  /\ c \in BatcherType
           /\ c.mu = b.mu /\ c.closed = b.closed /\ c.ch = b.ch /\ c.chClosed = b.chClosed
           /\ c.ctx = b.ctx /\ c.buffer = <<>> /\ c.timerSeq = b.timerSeq
           /\ b.buffer = <<>> => /\ c.out = b.out /\ c.meta = b.meta /\ c.timer = b.timer
                                 /\ c.scheduled = b.scheduled
           /\ b.buffer # <<>> => /\ c.out.records = b.buffer /\ c.out.meta = b.meta
                                 /\ c.meta = <<>> /\ ~ c.timer
           /\ Sending(c) <=> b.buffer # <<>>
<1>0. <<>> \in Seq(Records) /\ <<>> \in Seq(Metas)
    OBVIOUS
<1>1. CASE b.buffer = <<>>
    <2>1. c = [b EXCEPT !.failed = FALSE]
        BY <1>1 DEF FlushBegun
    <2> QED BY <1>1, <2>1 DEF BatcherType, Sending
<1>2. CASE b.buffer # <<>>
    <2> DEFINE o == [records |-> b.buffer, meta |-> b.meta, match |-> b.next]
    <2>1. PICK d \in StopTimer(b) :
              c = [d EXCEPT !.out = o, !.buffer = <<>>, !.meta = <<>>, !.failed = FALSE]
        BY <1>2 DEF FlushBegun
    <2>2. \E s \in SUBSET Nat : d = [b EXCEPT !.timer = FALSE, !.scheduled = s]
        <3>1. CASE b.timer
            BY <3>1 DEF StopTimer, BatcherType
        <3>2. CASE ~ b.timer
            <4>1. d = b
                BY <3>2 DEF StopTimer
            <4>2. b = [b EXCEPT !.timer = FALSE, !.scheduled = b.scheduled]
                BY <3>2 DEF BatcherType
            <4> QED BY <4>1, <4>2 DEF BatcherType
        <3> QED BY <3>1, <3>2
    <2>3. PICK s \in SUBSET Nat : d = [b EXCEPT !.timer = FALSE, !.scheduled = s]
        BY <2>2
    <2>4. o \in Batch /\ o.records = b.buffer /\ o.meta = b.meta
        BY DEF Batch, BatcherType
    <2>5. o # NoBatch
        BY <1>2, <2>4 DEF NoBatch
    <2> HIDE DEF o
    <2>6. c = [b EXCEPT !.timer = FALSE, !.scheduled = s, !.out = o, !.buffer = <<>>,
                        !.meta = <<>>, !.failed = FALSE]
        BY <2>1, <2>3 DEF BatcherType
    <2> QED BY <1>0, <1>2, <2>4, <2>5, <2>6 DEF BatcherType, Sending
<1> QED BY <1>1, <1>2

(* Who holds mu is a field of its own. *)
LEMMA LockFields ==
    ASSUME NEW b \in BatcherType, NEW op, NEW who, [op |-> op, who |-> who] \in Holders
    PROVE  /\ Lock(b, op, who) \in BatcherType
           /\ Lock(b, op, who).mu.op = op /\ Lock(b, op, who).mu.who = who
           /\ Lock(b, op, who).mu = [op |-> op, who |-> who]
           /\ Lock(b, op, who).closed = b.closed /\ Lock(b, op, who).ch = b.ch
           /\ Lock(b, op, who).chClosed = b.chClosed /\ Lock(b, op, who).ctx = b.ctx
           /\ Lock(b, op, who).buffer = b.buffer /\ Lock(b, op, who).meta = b.meta
           /\ Lock(b, op, who).out = b.out /\ Lock(b, op, who).timer = b.timer
           /\ Lock(b, op, who).timerSeq = b.timerSeq /\ Lock(b, op, who).scheduled = b.scheduled
           /\ Sending(Lock(b, op, who)) = Sending(b)
<1> DEFINE h == [op |-> op, who |-> who]
<1>1. h.op = op /\ h.who = who /\ h \in Holders
    OBVIOUS
<1> HIDE DEF h
<1>2. Lock(b, op, who) = [b EXCEPT !.mu = h]
    BY DEF Lock, h
<1> QED BY <1>1, <1>2 DEF BatcherType, Sending, h

(* Giving up mu changes nothing else and keeps the type. *)
LEMMA UnlockFields ==
    ASSUME NEW b \in BatcherType
    PROVE  /\ Unlock(b) \in BatcherType
           /\ Unlock(b).mu = Free
           /\ Unlock(b).closed = b.closed /\ Unlock(b).ch = b.ch
           /\ Unlock(b).chClosed = b.chClosed /\ Unlock(b).ctx = b.ctx
           /\ Unlock(b).buffer = b.buffer /\ Unlock(b).meta = b.meta
           /\ Unlock(b).out = b.out /\ Unlock(b).timer = b.timer
           /\ Unlock(b).timerSeq = b.timerSeq /\ Unlock(b).scheduled = b.scheduled
           /\ Sending(Unlock(b)) = Sending(b)
<1>1. Free \in Holders
    BY DEF Holders
<1> QED BY <1>1 DEF Unlock, BatcherType, Sending

(* The methods that may hold mu, by name; the free lock is told apart from *)
(* all of them.                                                            *)
LEMMA HolderNames ==
    /\ Free.op = "free"
    /\ \A h \in Holders : h.op = "free" => h = Free
    /\ \A r \in Records : /\ [op |-> "add", who |-> r] \in Holders
                          /\ [op |-> "added", who |-> r] \in Holders
    /\ \A r \in Watched : [op |-> "backpressure", who |-> r] \in Holders
    /\ \A f \in Flushes : /\ [op |-> "barrier", who |-> f] \in Holders
                          /\ [op |-> "barrierSend", who |-> f] \in Holders
    /\ \A w \in Closers : [op |-> "close", who |-> w] \in Holders
    /\ \A op \in {"timer", "flush"} : [op |-> op, who |-> "nobody"] \in Holders
BY DEF Holders, Free, Closers

(* A method that is not close takes mu, begins a flush, and gives mu up if *)
(* there is nothing to send.                                               *)
LEMMA FlushUnderLock ==
    ASSUME NEW b, BatcherOK(b), b.mu = Free, ~ b.closed, NEW c \in FlushBegun(b),
           NEW op \in {"add", "backpressure", "barrier", "flush", "timer"}, NEW who,
           [op |-> op, who |-> who] \in Holders
    PROVE  /\ BatcherOK(Lock(c, op, who))
           /\ Sending(c) <=> b.buffer # <<>>
           /\ ~ Sending(c) => BatcherOK(c)
           /\ ~ c.closed /\ c.mu = Free /\ c \in BatcherType
<1>1. ~ Sending(b) /\ b \in BatcherType
    BY DEF BatcherOK, LockOK
<1>2. /\ c \in BatcherType /\ c.mu = Free /\ ~ c.closed /\ c.chClosed = b.chClosed
      /\ c.buffer = <<>> /\ c.timerSeq = b.timerSeq /\ (Sending(c) <=> b.buffer # <<>>)
      /\ b.buffer = <<>> => c.timer = b.timer /\ c.scheduled = b.scheduled
      /\ b.buffer # <<>> => ~ c.timer
    BY <1>1, FlushBegunFields
<1>3. /\ ~ c.chClosed
      /\ setup.linger => ~ c.timer
      /\ c.timer => c.timerSeq \in c.scheduled
    BY <1>2 DEF BatcherOK, ClosedOK, TimerOK
<1> DEFINE d == Lock(c, op, who)
<1>4. /\ d \in BatcherType /\ d.mu.op = op /\ ~ d.closed /\ ~ d.chClosed
      /\ d.buffer = <<>> /\ d.timer = c.timer /\ d.timerSeq = c.timerSeq
      /\ d.scheduled = c.scheduled
    BY <1>2, <1>3, LockFields
<1> HIDE DEF d
<1>5. BatcherOK(d)
    BY <1>3, <1>4, HolderNames DEF BatcherOK, LockOK, ClosedOK, TimerOK
<1>6. ~ Sending(c) => BatcherOK(c)
    BY <1>2, <1>3, HolderNames DEF BatcherOK, LockOK, ClosedOK, TimerOK
<1> QED BY <1>2, <1>5, <1>6 DEF d

(* close does the same, having closed the batcher. *)
LEMMA FlushUnderClose ==
    ASSUME NEW b, BatcherOK(b), b.mu = Free, ~ b.closed, NEW w \in Closers,
           NEW c \in Closing(b, w)
    PROVE  /\ BatcherOK(c) /\ c.closed
           /\ c.mu = [op |-> "close", who |-> w]
           /\ ~ Sending(c) => BatcherOK(Unlock(c))
<1> DEFINE d == [b EXCEPT !.closed = TRUE]
<1>1. b \in BatcherType /\ ~ Sending(b)
    BY DEF BatcherOK, LockOK
<1>2. /\ d \in BatcherType /\ d.closed /\ d.mu = b.mu /\ d.chClosed = b.chClosed
      /\ d.buffer = b.buffer /\ d.timer = b.timer /\ d.timerSeq = b.timerSeq
      /\ d.scheduled = b.scheduled /\ ~ Sending(d)
    BY <1>1 DEF BatcherType, Sending
<1>3. PICK e \in FlushBegun(d) : c = Lock(e, "close", w)
    BY DEF Closing
<1> HIDE DEF d
<1>4. [op |-> "close", who |-> w] \in Holders
    BY HolderNames
<1>5. /\ e \in BatcherType /\ e.closed /\ e.mu = b.mu /\ e.chClosed = b.chClosed
      /\ e.buffer = <<>> /\ e.timerSeq = b.timerSeq
      /\ b.buffer = <<>> => e.timer = b.timer /\ e.scheduled = b.scheduled
      /\ b.buffer # <<>> => ~ e.timer
    BY <1>2, FlushBegunFields
<1>6. /\ c \in BatcherType /\ c.closed /\ c.chClosed = b.chClosed
      /\ c.mu = [op |-> "close", who |-> w] /\ c.mu.op = "close"
      /\ c.buffer = <<>> /\ c.timerSeq = b.timerSeq
      /\ b.buffer = <<>> => c.timer = b.timer /\ c.scheduled = b.scheduled
      /\ b.buffer # <<>> => ~ c.timer
    BY <1>3, <1>4, <1>5, LockFields
<1>7. ~ c.chClosed
    BY <1>6 DEF BatcherOK, ClosedOK
<1>8. LockOK(c)
    BY <1>6, HolderNames DEF LockOK
<1>9. ClosedOK(c)
    BY <1>6, <1>7 DEF ClosedOK
<1>10. TimerOK(c)
    BY <1>6 DEF TimerOK, BatcherOK
<1>11. ~ Sending(c) => BatcherOK(Unlock(c))
    BY <1>6, <1>7, <1>10, UnlockFields, HolderNames DEF LockOK, ClosedOK, TimerOK, BatcherOK
<1> QED BY <1>6, <1>8, <1>9, <1>10, <1>11 DEF BatcherOK

(* Giving up mu with nothing left to send. *)
LEMMA UnlockKeeps ==
    ASSUME NEW b, BatcherOK(b), ~ Sending(b)
    PROVE  BatcherOK(Unlock(b))
<1>1. b \in BatcherType
    BY DEF BatcherOK
<1>2. LockOK(Unlock(b))
    BY <1>1, UnlockFields DEF LockOK
<1>3. ClosedOK(Unlock(b))
    BY <1>1, UnlockFields, HolderNames DEF ClosedOK, BatcherOK
<1>4. TimerOK(Unlock(b))
    BY <1>1, UnlockFields DEF TimerOK, BatcherOK
<1> QED BY <1>1, <1>2, <1>3, <1>4, UnlockFields DEF BatcherOK

(* Whatever BatcherOK says nothing of may change. *)
LEMMA SameControl ==
    ASSUME NEW b, BatcherOK(b), NEW c \in BatcherType,
           c.mu = b.mu, c.out = b.out, c.buffer = b.buffer, c.timer = b.timer,
           c.timerSeq = b.timerSeq, c.scheduled = b.scheduled, c.closed = b.closed,
           c.chClosed => b.chClosed \/ (b.closed /\ b.mu = Free)
    PROVE  BatcherOK(c)
BY DEF BatcherOK, LockOK, ClosedOK, TimerOK, Sending

(* The select of flushLocked. *)
LEMMA SentKeeps ==
    ASSUME NEW b, BatcherOK(b), Sending(b)
    PROVE  /\ BatcherOK(Sent(b)) /\ Sent(b).closed = b.closed
           /\ Sent(b).mu \in {b.mu, Free} /\ (b.closed => Sent(b).mu = b.mu)
           /\ Sent(b).ch = Append(b.ch, b.out) /\ Sent(b).out = NoBatch
           /\ Sent(b).buffer = b.buffer /\ Sent(b).meta = b.meta
<1>1. b \in BatcherType
    BY DEF BatcherOK
<1> DEFINE f == Flushed(b)
           n == IF b.next = NoMatch THEN b.next ELSE b.next + Len(b.out.records)
           c == Append(b.ch, b.out)
<1>2. /\ f \in BatcherType /\ f.mu \in {b.mu, Free} /\ f.closed = b.closed /\ f.ch = b.ch
      /\ f.chClosed = b.chClosed /\ f.next = b.next /\ f.buffer = b.buffer /\ f.meta = b.meta
      /\ f.timer = b.timer /\ f.timerSeq = b.timerSeq /\ f.scheduled = b.scheduled
    <2>1. CASE b.mu.op \in {"timer", "flush"}
        <3>1. f = Unlock(b)
            BY <2>1 DEF Flushed
        <3>2. Free \in Holders
            BY DEF Holders
        <3> QED BY <1>1, <3>1, <3>2 DEF BatcherType, Unlock
    <2>2. CASE b.mu.op \notin {"timer", "flush"}
        BY <1>1, <2>2 DEF Flushed
    <2> QED BY <2>1, <2>2
<1>3. b.closed => f.mu = b.mu
    BY HolderNames DEF BatcherOK, ClosedOK, Flushed
<1>4. c \in Seq(Outputs) /\ n \in Nat \cup {NoMatch} /\ NoBatch \in Batch
    <2>1. b.out \in Batch /\ b.ch \in Seq(Outputs) /\ b.next \in Nat \cup {NoMatch}
        BY <1>1 DEF BatcherType
    <2>2. Len(b.out.records) \in Nat
        BY <2>1 DEF Batch
    <2> QED BY <2>1, <2>2, BatchShape DEF Outputs
<1>5. Sent(b) = [f EXCEPT !.ch = c, !.out = NoBatch, !.next = n]
    <2> HIDE DEF f
    <2> QED BY <1>2 DEF Sent, BatcherType, f
<1> HIDE DEF f, n, c
<1> DEFINE d == Sent(b)
<1>6. /\ d \in BatcherType /\ d.mu = f.mu /\ d.closed = b.closed /\ d.chClosed = b.chClosed
      /\ d.ch = c /\ d.out = NoBatch /\ d.buffer = b.buffer /\ d.meta = b.meta
      /\ d.timer = b.timer /\ d.timerSeq = b.timerSeq /\ d.scheduled = b.scheduled
    BY <1>2, <1>4, <1>5 DEF BatcherType
<1> HIDE DEF d
<1>7. b.mu # Free
    BY DEF BatcherOK, LockOK
<1>8. BatcherOK(d)
    BY <1>2, <1>3, <1>6, <1>7, HolderNames DEF BatcherOK, LockOK, ClosedOK, TimerOK, Sending
<1> QED BY <1>2, <1>3, <1>6, <1>8 DEF c, d

(* A batch given up at the end of the context (sendBatch) leaves a good    *)
(* batcher; mu is given up with it unless close holds it.                  *)
LEMMA DroppedKeeps ==
    ASSUME NEW b, BatcherOK(b), Sending(b)
    PROVE  /\ BatcherOK(Dropped(b)) /\ Dropped(b).closed = b.closed
           /\ Dropped(b).mu \in {b.mu, Free} /\ (b.closed => Dropped(b).mu = b.mu)
           /\ Dropped(b).ch = b.ch /\ Dropped(b).out = NoBatch
           /\ Dropped(b).buffer = b.buffer /\ Dropped(b).meta = b.meta
<1>1. b \in BatcherType
    BY DEF BatcherOK
<1> DEFINE f == Flushed(b)
           e == IF b.closeErr = NoErr THEN ErrContext ELSE b.closeErr
<1>2. /\ f \in BatcherType /\ f.mu \in {b.mu, Free} /\ f.closed = b.closed /\ f.ch = b.ch
      /\ f.chClosed = b.chClosed /\ f.closeErr = b.closeErr /\ f.buffer = b.buffer
      /\ f.meta = b.meta /\ f.timer = b.timer /\ f.timerSeq = b.timerSeq
      /\ f.scheduled = b.scheduled
    <2>1. CASE b.mu.op \in {"timer", "flush"}
        <3>1. f = Unlock(b)
            BY <2>1 DEF Flushed
        <3>2. Free \in Holders
            BY DEF Holders
        <3> QED BY <1>1, <3>1, <3>2 DEF BatcherType, Unlock
    <2>2. CASE b.mu.op \notin {"timer", "flush"}
        BY <1>1, <2>2 DEF Flushed
    <2> QED BY <2>1, <2>2
<1>3. b.closed => f.mu = b.mu
    BY HolderNames DEF BatcherOK, ClosedOK, Flushed
<1>4. e \in Errs \cup {NoErr} /\ NoBatch \in Batch
    BY <1>1, BatchShape DEF BatcherType, Errs
<1>5. Dropped(b) = [f EXCEPT !.out = NoBatch, !.failed = TRUE, !.closeErr = e]
    <2> HIDE DEF f
    <2> QED BY <1>2 DEF Dropped, BatcherType, f
<1> HIDE DEF f, e
<1> DEFINE d == Dropped(b)
<1>6. /\ d \in BatcherType /\ d.mu = f.mu /\ d.closed = b.closed /\ d.chClosed = b.chClosed
      /\ d.ch = b.ch /\ d.out = NoBatch /\ d.buffer = b.buffer /\ d.meta = b.meta
      /\ d.timer = b.timer /\ d.timerSeq = b.timerSeq /\ d.scheduled = b.scheduled
    BY <1>2, <1>4, <1>5 DEF BatcherType
<1> HIDE DEF d
<1>7. b.mu # Free
    BY DEF BatcherOK, LockOK
<1>8. BatcherOK(d)
    BY <1>2, <1>3, <1>6, <1>7, HolderNames DEF BatcherOK, LockOK, ClosedOK, TimerOK, Sending
<1> QED BY <1>2, <1>3, <1>6, <1>8 DEF d

(* The record enters the buffer at the place its index names. *)
LEMMA BufferedFields ==
    ASSUME NEW b \in BatcherType, NEW r \in Records
    PROVE  /\ Buffered(b, r) \in BatcherType /\ Buffered(b, r).mu = b.mu
           /\ Buffered(b, r).out = b.out /\ Buffered(b, r).closed = b.closed
           /\ Buffered(b, r).ch = b.ch /\ Buffered(b, r).chClosed = b.chClosed
           /\ Buffered(b, r).timer = b.timer /\ Buffered(b, r).timerSeq = b.timerSeq
           /\ Buffered(b, r).scheduled = b.scheduled
           /\ Buffered(b, r).buffer = Append(b.buffer, r) /\ Buffered(b, r).buffer # <<>>
           /\ Buffered(b, r).meta = IF r \in Watched
                                    THEN Append(b.meta, [record |-> r, index |-> Len(b.buffer)])
                                    ELSE b.meta
<1> DEFINE m == [record |-> r, index |-> Len(b.buffer)]
           n == IF r \in Watched THEN Append(b.meta, m) ELSE b.meta
           a == Append(b.buffer, r)
<1>1. b.buffer \in Seq(Records) /\ b.meta \in Seq(Metas)
    BY DEF BatcherType
<1>2. r \in Watched => m \in Metas
    BY <1>1 DEF Metas
<1>3. n \in Seq(Metas) /\ a \in Seq(Records) /\ a # <<>>
    BY <1>1, <1>2
<1> HIDE DEF n, a
<1>4. Buffered(b, r) = [b EXCEPT !.buffer = a, !.meta = n]
    BY DEF Buffered, BatcherType, a, n, m
<1>5. /\ Buffered(b, r) \in BatcherType /\ Buffered(b, r).mu = b.mu
      /\ Buffered(b, r).out = b.out /\ Buffered(b, r).closed = b.closed
      /\ Buffered(b, r).ch = b.ch /\ Buffered(b, r).chClosed = b.chClosed
      /\ Buffered(b, r).timer = b.timer /\ Buffered(b, r).timerSeq = b.timerSeq
      /\ Buffered(b, r).scheduled = b.scheduled
      /\ Buffered(b, r).buffer = a /\ Buffered(b, r).meta = n
    BY <1>3, <1>4 DEF BatcherType
<1> QED BY <1>3, <1>5 DEF a, n, m

(* Arming the linger timer touches only the timer. *)
LEMMA LingeringFields ==
    ASSUME NEW b \in BatcherType
    PROVE  /\ Lingering(b) \in BatcherType /\ Lingering(b).mu = b.mu
           /\ Lingering(b).out = b.out /\ Lingering(b).closed = b.closed
           /\ Lingering(b).ch = b.ch /\ Lingering(b).chClosed = b.chClosed
           /\ Lingering(b).buffer = b.buffer /\ Lingering(b).meta = b.meta
           /\ IF setup.linger /\ ~ b.timer
              THEN Lingering(b).timer /\ Lingering(b).timerSeq \in Lingering(b).scheduled
              ELSE Lingering(b) = b
<1>1. CASE setup.linger /\ ~ b.timer
    <2> DEFINE n == b.timerSeq + 1
               s == b.scheduled \cup {n}
    <2>1. n \in Nat /\ s \in SUBSET Nat /\ n \in s
        BY DEF BatcherType
    <2>2. Lingering(b) = [b EXCEPT !.timer = TRUE, !.timerSeq = n, !.scheduled = s]
        BY <1>1 DEF Lingering, BatcherType
    <2> HIDE DEF n, s
    <2> DEFINE l == Lingering(b)
    <2>3. /\ l \in BatcherType /\ l.mu = b.mu /\ l.out = b.out /\ l.closed = b.closed
          /\ l.ch = b.ch /\ l.chClosed = b.chClosed /\ l.buffer = b.buffer /\ l.meta = b.meta
          /\ l.timer = TRUE /\ l.timerSeq = n /\ l.scheduled = s
        BY <2>1, <2>2 DEF BatcherType
    <2> HIDE DEF l
    <2> QED BY <1>1, <2>1, <2>3 DEF l
<1>2. CASE ~ (setup.linger /\ ~ b.timer)
    BY <1>2 DEF Lingering
<1> QED BY <1>1, <1>2

(* addWithPermit from the place where the record fits. *)
LEMMA AddedKeeps ==
    ASSUME NEW b, BatcherOK(b), ~ Sending(b), ~ b.closed, NEW r \in Records,
           NEW d \in Added(b, r)
    PROVE  /\ BatcherOK(d) /\ ~ d.closed
           /\ d.mu = [op |-> "added", who |-> r]
           /\ d.ch = b.ch
           /\ \/ /\ d.out.records = Buffered(b, r).buffer /\ d.out.meta = Buffered(b, r).meta
                 /\ d.buffer = <<>> /\ d.meta = <<>>
              \/ /\ d.out = b.out
                 /\ d.buffer = Buffered(b, r).buffer /\ d.meta = Buffered(b, r).meta
<1> DEFINE c == Buffered(b, r)
           h == [op |-> "added", who |-> r]
<1>1. b \in BatcherType /\ ~ b.chClosed
    BY DEF BatcherOK, ClosedOK
<1>2. /\ c \in BatcherType /\ c.mu = b.mu /\ c.out = b.out /\ ~ c.closed
      /\ c.ch = b.ch /\ ~ c.chClosed /\ c.timer = b.timer /\ c.timerSeq = b.timerSeq
      /\ c.scheduled = b.scheduled /\ c.buffer # <<>> /\ ~ Sending(c)
    BY ZenonT(60), <1>1, BufferedFields DEF Sending
<1>3. h \in Holders
    BY HolderNames
<1> HIDE DEF c
<1>4. CASE Full(c)
    <2>1. PICK e \in FlushBegun(c) : d = Lock(e, "added", r)
        BY <1>4 DEF Added, c
    <2>2. /\ e \in BatcherType /\ ~ e.closed /\ ~ e.chClosed /\ e.ch = c.ch
          /\ e.buffer = <<>> /\ e.meta = <<>> /\ ~ e.timer
          /\ e.out.records = c.buffer /\ e.out.meta = c.meta
        BY <1>2, FlushBegunFields
    <2>3. /\ d \in BatcherType /\ ~ d.closed /\ ~ d.chClosed /\ d.ch = c.ch
          /\ d.buffer = <<>> /\ d.meta = <<>> /\ ~ d.timer /\ d.mu = h /\ d.mu.op = "added"
          /\ d.out.records = c.buffer /\ d.out.meta = c.meta
        BY <1>3, <2>1, <2>2, LockFields
    <2>4. BatcherOK(d)
        BY <2>3, HolderNames DEF BatcherOK, LockOK, ClosedOK, TimerOK
    <2> QED BY <1>2, <2>3, <2>4 DEF c
<1>5. CASE ~ Full(c)
    <2> DEFINE e == Lingering(c)
    <2>1. d = Lock(e, "added", r)
        BY <1>5 DEF Added, c
    <2>2. /\ e \in BatcherType /\ ~ e.closed /\ ~ e.chClosed /\ e.ch = c.ch
          /\ e.out = c.out /\ e.buffer = c.buffer /\ e.meta = c.meta
          /\ IF setup.linger /\ ~ c.timer
             THEN e.timer /\ e.timerSeq \in e.scheduled ELSE e = c
        BY <1>2, LingeringFields
    <2> HIDE DEF e
    <2>3. /\ setup.linger => e.timer
          /\ e.timer => e.timerSeq \in e.scheduled
        BY <1>2, <2>2 DEF BatcherOK, TimerOK
    <2>4. /\ d \in BatcherType /\ ~ d.closed /\ ~ d.chClosed /\ d.ch = c.ch
          /\ d.out = c.out /\ d.buffer = c.buffer /\ d.meta = c.meta
          /\ d.mu = h /\ d.mu.op = "added"
          /\ d.timer = e.timer /\ d.timerSeq = e.timerSeq /\ d.scheduled = e.scheduled
        BY <1>3, <2>1, <2>2, LockFields
    <2>5. BatcherOK(d)
        BY <1>2, <2>3, <2>4, HolderNames DEF BatcherOK, LockOK, ClosedOK, TimerOK
    <2> QED BY <1>2, <2>4, <2>5 DEF c
<1> QED BY <1>4, <1>5

(* flushFromTimer, current or stale. *)
LEMMA TimerFiredKeeps ==
    ASSUME NEW b, BatcherOK(b), b.mu = Free, NEW seq, NEW d \in TimerFired(b, seq)
    PROVE  /\ BatcherOK(d) /\ d.closed = b.closed
           /\ d.mu = Free \/ d.mu = [op |-> "timer", who |-> "nobody"]
           /\ b.closed => d.mu = Free
           /\ d.ch = b.ch
           /\ \/ /\ d.out.records = b.buffer /\ d.out.meta = b.meta
                 /\ d.buffer = <<>> /\ d.meta = <<>>
              \/ d.out = b.out /\ d.buffer = b.buffer /\ d.meta = b.meta
<1> DEFINE s == b.scheduled \ {seq}
           c == [b EXCEPT !.scheduled = s]
           e == [c EXCEPT !.timer = FALSE]
<1>1. b \in BatcherType /\ ~ Sending(b)
    BY DEF BatcherOK, LockOK
<1>2. s \in SUBSET Nat
    BY <1>1 DEF BatcherType
<1>3. /\ c \in BatcherType /\ c.mu = b.mu /\ c.out = b.out /\ c.closed = b.closed
      /\ c.ch = b.ch /\ c.chClosed = b.chClosed /\ c.timer = b.timer /\ c.timerSeq = b.timerSeq
      /\ c.scheduled = s /\ c.buffer = b.buffer /\ c.meta = b.meta
    BY <1>1, <1>2 DEF BatcherType
<1>4. /\ e \in BatcherType /\ e.mu = b.mu /\ e.out = b.out /\ e.closed = b.closed
      /\ e.ch = b.ch /\ e.chClosed = b.chClosed /\ ~ e.timer
      /\ e.buffer = b.buffer /\ e.meta = b.meta
    BY <1>3 DEF BatcherType
<1>5. CASE ~ TimerCurrent(b, seq)
    <2>1. d = c
        BY <1>5 DEF TimerFired
    <2>2. b.timer => b.timerSeq # seq
        BY <1>5 DEF TimerCurrent
    <2> HIDE DEF c, e
    <2>3. BatcherOK(c)
        BY <1>3, <2>2 DEF BatcherOK, LockOK, ClosedOK, TimerOK, Sending
    <2> QED BY <1>3, <2>1, <2>3
<1>6. CASE TimerCurrent(b, seq) /\ (b.closed \/ b.buffer = <<>>)
    <2>1. d = e
        BY <1>6 DEF TimerFired
    <2> HIDE DEF c, e
    <2>2. b.buffer = <<>>
        BY <1>6 DEF BatcherOK, ClosedOK
    <2>3. BatcherOK(e)
        BY <1>1, <1>4, <2>2 DEF BatcherOK, LockOK, ClosedOK, TimerOK, Sending
    <2> QED BY <1>4, <2>1, <2>3
<1>7. CASE TimerCurrent(b, seq) /\ ~ b.closed /\ b.buffer # <<>>
    <2>1. PICK g \in FlushBegun(e) : d = Lock(g, "timer", "nobody")
        BY <1>7 DEF TimerFired
    <2> HIDE DEF c, e
    <2>2. ~ Sending(e)
        BY <1>1, <1>4 DEF Sending
    <2>3. /\ g \in BatcherType /\ g.closed = b.closed /\ g.chClosed = b.chClosed /\ g.ch = b.ch
          /\ g.buffer = <<>> /\ g.meta = <<>> /\ ~ g.timer
          /\ g.out.records = b.buffer /\ g.out.meta = b.meta
        BY <1>4, <1>7, <2>2, FlushBegunFields
    <2>4. [op |-> "timer", who |-> "nobody"] \in Holders
        BY HolderNames
    <2>5. /\ d \in BatcherType /\ d.closed = b.closed /\ d.chClosed = b.chClosed /\ d.ch = b.ch
          /\ d.buffer = <<>> /\ d.meta = <<>> /\ ~ d.timer /\ d.mu.op = "timer"
          /\ d.mu = [op |-> "timer", who |-> "nobody"]
          /\ d.out.records = b.buffer /\ d.out.meta = b.meta
        BY <2>1, <2>3, <2>4, LockFields
    <2>6. BatcherOK(d)
        BY <1>7, <2>5, HolderNames DEF BatcherOK, LockOK, ClosedOK, TimerOK
    <2> QED BY <1>7, <2>5, <2>6
<1> QED BY <1>5, <1>6, <1>7

-----------------------------------------------------------------------------
(* Batches on their way hold entered records at their places.              *)

LEMMA FitsMore ==
    ASSUME NEW records, NEW meta, NEW S, NEW T, S \subseteq T, Fits(records, meta, S)
    PROVE  Fits(records, meta, T)
BY DEF Fits

(* A batcher that fits some records fits any larger set of them. *)
LEMMA BatcherFitsMore ==
    ASSUME NEW b, NEW S, NEW T, S \subseteq T, BatcherFits(b, S)
    PROVE  BatcherFits(b, T)
BY FitsMore DEF BatcherFits

(* What is empty fits. *)
LEMMA FitsEmpty ==
    ASSUME NEW S
    PROVE  /\ Fits(<<>>, <<>>, S)
           /\ Fits(NoBatch.records, NoBatch.meta, S)
BY DEF Fits, NoBatch

(* A record takes the last place. *)
LEMMA FitsBuffered ==
    ASSUME NEW b \in BatcherType, NEW r \in Records, NEW S, r \in Watched => r \in S,
           Fits(b.buffer, b.meta, S)
    PROVE  Fits(Buffered(b, r).buffer, Buffered(b, r).meta, S)
<1> DEFINE a == Append(b.buffer, r)
           m == [record |-> r, index |-> Len(b.buffer)]
<1>1. b.buffer \in Seq(Records) /\ b.meta \in Seq(Metas)
    BY DEF BatcherType
<1>2. /\ Len(a) = Len(b.buffer) + 1 /\ a[Len(b.buffer) + 1] = r
      /\ \A i \in 1 .. Len(b.buffer) : a[i] = b.buffer[i]
    BY <1>1
<1>3. m.record = r /\ m.index = Len(b.buffer)
    OBVIOUS
<1>4. Len(b.buffer) \in Nat
    BY <1>1
<1> HIDE DEF a, m
<1>5. Fits(a, b.meta, S)
    <2> SUFFICES ASSUME NEW k \in DOMAIN b.meta
                 PROVE  /\ b.meta[k].record \in S /\ b.meta[k].index < Len(a)
                        /\ a[b.meta[k].index + 1] = b.meta[k].record
        BY DEF Fits
    <2>1. b.meta[k] \in Metas
        BY <1>1
    <2>2. b.meta[k].index \in Nat
        BY <2>1 DEF Metas
    <2>3. /\ b.meta[k].record \in S /\ b.meta[k].index < Len(b.buffer)
          /\ b.buffer[b.meta[k].index + 1] = b.meta[k].record
        BY DEF Fits
    <2>4. b.meta[k].index + 1 \in 1 .. Len(b.buffer)
        BY <1>4, <2>2, <2>3
    <2> QED BY <1>2, <1>4, <2>2, <2>3, <2>4
<1>6. ASSUME r \in Watched PROVE Fits(a, Append(b.meta, m), S)
    <2> SUFFICES ASSUME NEW k \in DOMAIN Append(b.meta, m)
                 PROVE  LET x == Append(b.meta, m)[k]
                        IN  x.record \in S /\ x.index < Len(a) /\ a[x.index + 1] = x.record
        BY DEF Fits
    <2>1. \/ k \in DOMAIN b.meta /\ Append(b.meta, m)[k] = b.meta[k]
          \/ Append(b.meta, m)[k] = m
        BY <1>1
    <2> QED BY <1>1, <1>2, <1>3, <1>5, <1>6, <2>1 DEF Fits
<1> QED BY <1>5, <1>6, BufferedFields DEF a, m

(* The batch that was sent is the last of the channel; the first one is    *)
(* taken by the consumer.                                                  *)
LEMMA FitsSent ==
    ASSUME NEW b, BatcherOK(b), Sending(b), NEW S, BatcherFits(b, S)
    PROVE  BatcherFits(Sent(b), S)
<1>1. b.ch \in Seq(Outputs)
    BY DEF BatcherOK, BatcherType
<1> DEFINE c == Append(b.ch, b.out)
<1>2. \A i \in DOMAIN c : c[i] = b.out \/ (i \in DOMAIN b.ch /\ c[i] = b.ch[i])
    BY <1>1
<1> HIDE DEF c
<1>3. \A i \in DOMAIN c : ~ IsBarrier(c[i]) => Fits(c[i].records, c[i].meta, S)
    BY <1>2 DEF BatcherFits
<1> QED BY <1>3, SentKeeps, FitsEmpty DEF BatcherFits, c

-----------------------------------------------------------------------------
(* The operations of the producer.                                         *)

(* p became q without touching a permit, and stays terminal. *)
SamePermits(p, q) ==
    /\ q \in ProducerType
    /\ q.permits = p.permits /\ q.pool.bytes = p.pool.bytes
    /\ p.terminalErr # NoErr => q.terminalErr # NoErr

(* Cancelling the submit context keeps permits and terminal error. *)
LEMMA CancelSubmitKeeps ==
    ASSUME NEW p \in ProducerType, NEW err \in Errs
    PROVE  /\ SamePermits(p, CancelSubmit(p, err))
           /\ CancelSubmit(p, err).terminalErr = p.terminalErr
<1> DEFINE c == IF p.submitCause = NoErr THEN err ELSE p.submitCause
<1>1. c \in Errs \cup {NoErr}
    BY DEF ProducerType
<1>2. CancelSubmit(p, err) = [p EXCEPT !.submitCause = c]
    BY DEF CancelSubmit, ProducerType
<1> HIDE DEF c
<1> QED BY <1>1, <1>2 DEF SamePermits, ProducerType

(* Cancelling the producer's context keeps permits and terminal error. *)
LEMMA CancelCtxKeeps ==
    ASSUME NEW p \in ProducerType
    PROVE  /\ SamePermits(p, CancelCtx(p))
           /\ CancelCtx(p).terminalErr = p.terminalErr
<1> DEFINE q == CancelSubmit(p, ErrContext)
<1>1. SamePermits(p, q) /\ q.terminalErr = p.terminalErr
    BY CancelSubmitKeeps DEF Errs
<1>2. CancelCtx(p) = [q EXCEPT !.ctx = TRUE]
    BY DEF CancelCtx
<1> HIDE DEF q
<1> QED BY <1>1, <1>2 DEF SamePermits, ProducerType

(* Closing the pool releases no capacity (CapacityPool.Close). *)
LEMMA ClosedPoolFields ==
    ASSUME NEW p \in Pool
    PROVE  /\ ClosedPool(p) \in Pool /\ ClosedPool(p).bytes = p.bytes
BY DEF ClosedPool, Pool

(* Recording the terminal error cancels contexts and closes the pool, and  *)
(* returns no permit.                                                      *)
LEMMA RecordTerminalErrorKeeps ==
    ASSUME NEW p \in ProducerType, NEW err \in Errs
    PROVE  /\ SamePermits(p, RecordTerminalError(p, err))
           /\ RecordTerminalError(p, err).terminalErr \in Errs
<1>1. CASE p.terminalErr # NoErr
    BY <1>1 DEF RecordTerminalError, SamePermits, ProducerType
<1>2. CASE p.terminalErr = NoErr
    <2> DEFINE q == CancelSubmit(p, err)
               l == ClosedPool(q.pool)
               s == [q EXCEPT !.terminalErr = err, !.closing = TRUE, !.pool = l]
    <2>1. SamePermits(p, q)
        BY CancelSubmitKeeps
    <2>2. RecordTerminalError(p, err) = CancelCtx(s)
        <3> HIDE DEF q
        <3>1. s = [q EXCEPT !.terminalErr = err, !.closing = TRUE, !.pool = ClosedPool(@)]
            BY <2>1 DEF SamePermits, ProducerType
        <3> HIDE DEF s
        <3> QED BY <1>2, <3>1 DEF RecordTerminalError, q
    <2>3. q \in ProducerType /\ l \in Pool /\ l.bytes = q.pool.bytes
        BY <2>1, ClosedPoolFields DEF SamePermits, ProducerType
    <2> HIDE DEF q, l
    <2>4. /\ s \in ProducerType /\ s.permits = q.permits /\ s.pool = l /\ s.terminalErr = err
        BY <2>3 DEF ProducerType
    <2> HIDE DEF s
    <2>5. SamePermits(s, CancelCtx(s)) /\ CancelCtx(s).terminalErr = err
        BY <2>4, CancelCtxKeeps
    <2>6. err # NoErr
        BY DEF Errs, NoErr, ErrSessionClosed, ErrContext, ErrAppend
    <2> QED BY <2>1, <2>2, <2>3, <2>4, <2>5, <2>6 DEF SamePermits
<1> QED BY <1>1, <1>2

(* Looking at the contexts before a submission returns no permit. *)
LEMMA ChecksKeep ==
    ASSUME NEW p \in ProducerType
    PROVE  /\ SamePermits(p, p)
           /\ SamePermits(p, Checked(p))
           /\ SamePermits(p, MapSubmitError(p))
<1>1. SamePermits(p, p)
    BY DEF SamePermits
<1>2. SamePermits(p, Checked(p))
    BY <1>1, RecordTerminalErrorKeeps DEF Checked, Errs
<1>3. p.submitCause \notin {NoErr, ErrSessionClosed} => p.submitCause \in Errs
    BY DEF ProducerType
<1>4. SamePermits(p, MapSubmitError(p))
    BY <1>1, <1>3, RecordTerminalErrorKeeps DEF MapSubmitError
<1> QED BY <1>1, <1>2, <1>4

(* The bytes of a set of records add up. *)
LEMMA BytesType ==
    ASSUME NEW S \in SUBSET Records
    PROVE  IsFiniteSet(S) /\ BytesOf(S) \in Nat
<1>1. IsFiniteSet(S)
    BY BatcherAssumption, FS_Subset
<1>2. \A r \in S : Size[r] \in Nat
    BY BatcherAssumption
<1> QED BY <1>1, <1>2, SumType DEF BytesOf

(* The bytes of a set of records are those of its two parts. *)
LEMMA BytesSplit ==
    ASSUME NEW S \in SUBSET Records, NEW T
    PROVE  BytesOf(S) = BytesOf(S \ T) + BytesOf(S \cap T)
<1>1. IsFiniteSet(S \ T) /\ IsFiniteSet(S \cap T)
    BY BytesType
<1>2. (S \ T) \cap (S \cap T) = {} /\ (S \ T) \cup (S \cap T) = S
    OBVIOUS
<1>3. \A r \in (S \ T) \cup (S \cap T) : Size[r] \in Nat
    BY BatcherAssumption
<1>4. SumFunctionOnSet(Size, (S \ T) \cup (S \cap T))
         = SumFunctionOnSet(Size, S \ T) + SumFunctionOnSet(Size, S \cap T)
    BY <1>1, <1>2, <1>3, SumUnion
<1> QED BY <1>2, <1>4 DEF BytesOf

(* releaseProducerPermits gives back exactly the bytes of the permits that *)
(* are still held, and nothing is clamped.                                 *)
LEMMA ReleasePermitsKeeps ==
    ASSUME NEW p \in ProducerType, p.pool.bytes = BytesOf(p.permits), NEW S
    PROVE  /\ ReleasePermits(p, S) \in ProducerType
           /\ ReleasePermits(p, S).permits = p.permits \ S
           /\ ReleasePermits(p, S).pool.bytes = BytesOf(p.permits \ S)
           /\ ReleasePermits(p, S).terminalErr = p.terminalErr
<1> DEFINE held == S \cap p.permits
           rest == p.permits \ S
           l == Released(p.pool, BytesOf(held))
<1>1. p.permits \in SUBSET Watched /\ p.permits \in SUBSET Records /\ p.pool \in Pool
    BY BatcherAssumption DEF ProducerType
<1>2. held = p.permits \cap S /\ rest = p.permits \ held
    OBVIOUS
<1>3. BytesOf(held) \in Nat /\ BytesOf(rest) \in Nat
    <2>1. held \in SUBSET Records /\ rest \in SUBSET Records
        BY <1>1
    <2> HIDE DEF held, rest
    <2> QED BY <2>1, BytesType
<1>4. BytesOf(p.permits) = BytesOf(rest) + BytesOf(held)
    <2>1. BytesOf(p.permits) = BytesOf(p.permits \ S) + BytesOf(p.permits \cap S)
        BY <1>1, BytesSplit
    <2>2. held = p.permits \cap S
        BY <1>2
    <2> HIDE DEF held
    <2> QED BY <2>1, <2>2
<1> HIDE DEF held, rest
<1>5. l \in Pool /\ l.bytes = BytesOf(rest)
    BY <1>1, <1>3, <1>4, ReleasedFields
<1> HIDE DEF l
<1>6. ReleasePermits(p, S) = [p EXCEPT !.permits = rest, !.pool = l]
    BY <1>2 DEF ReleasePermits, ProducerType, held, l
<1>7. rest \in SUBSET Watched
    BY <1>1 DEF rest
<1> QED BY <1>5, <1>6, <1>7 DEF ProducerType, rest

-----------------------------------------------------------------------------
(* Facts about steps that several actions need.                            *)

CloserStates == {"idle", "called", "flushing", "sealing", "returned", "ok", "failed"}

SubmitTypes ==
    /\ pc \in [Records -> {"idle", "entered", "backpressure", "waiting", "reserved",
                           "ready", "adding", "accepted", "refused"}]
    /\ added \in Seq(Records)

FlushTypes ==
    /\ call \in [Flushes -> {"idle", "waiting", "draining",
                             "ok", "failed", "closed", "terminal", "abandoned"}]
    /\ ordered \in [Flushes -> {"none", "pending", "locked", "nil", "closed", "terminal"}]
    /\ barrier \in [Flushes -> Errs \cup {NoErr, "none"}]
    /\ covered \in [Flushes -> SUBSET Records]

WorkTypes ==
    /\ consumer \in [at : {"receive", "submitted", "failing", "barrier", "done"},
                     batch : Batch, who : Flushes \cup {"nobody"}]
    /\ ackWaiters \subseteq DOMAIN tickets

Ticket == [batch : Batch, start : Nat,
           is : {"submitted", "ticket", "appended", "rejected", "acked", "failed"}]

SessionTypes ==
    /\ tickets \in Seq(Ticket)
    /\ log \in Seq(Records)
    /\ sessionOpen \in BOOLEAN

(* The type invariant by parts. *)
LEMMA TypeParts ==
    TypeOK <=> /\ batcher \in BatcherType /\ producer \in ProducerType
               /\ SubmitTypes /\ outcome \in [Records -> Outcomes] /\ WorkTypes /\ FlushTypes
               /\ closer \in [Closers -> CloserStates]
               /\ callbacks \subseteq {"batcher", "producer"} /\ SessionTypes
BY Zenon DEF TypeOK, SubmitTypes, WorkTypes, FlushTypes, CloserStates, SessionTypes, Ticket

(* The type invariant of the next state by parts. *)
LEMMA TypePartsPrime ==
    TypeOK' <=> /\ batcher' \in BatcherType /\ producer' \in ProducerType
                /\ SubmitTypes' /\ outcome' \in [Records -> Outcomes] /\ WorkTypes'
                /\ FlushTypes' /\ closer' \in [Closers -> CloserStates]
                /\ callbacks' \subseteq {"batcher", "producer"} /\ SessionTypes'
BY Zenon DEF TypeOK, SubmitTypes, WorkTypes, FlushTypes, CloserStates, SessionTypes, Ticket,
   BatcherType, ProducerType

(* The options do not change, so what holds of a batcher keeps holding. *)
LEMMA BatcherOKPrime ==
    ASSUME BatcherOK(batcher'), UNCHANGED setup
    PROVE  BatcherOK(batcher)'
BY Zenon DEF BatcherOK, LockOK, ClosedOK, TimerOK, Sending, BatcherType

(* The parts of BatchesFit, in the next state, give it. *)
LEMMA FitsPrime ==
    ASSUME BatcherFits(batcher', Entered'),
           Fits(consumer'.batch.records, consumer'.batch.meta, Entered'),
           \A i \in DOMAIN tickets' :
               Fits(tickets'[i].batch.records, tickets'[i].batch.meta, Entered')
    PROVE  BatchesFit'
BY Zenon DEF BatchesFit, BatcherFits, Fits, Entered

(* Most steps neither resolve a record nor touch the consumer or the       *)
(* session.                                                                *)
LEMMA QuietStep ==
    ASSUME ProducerInv, UNCHANGED <<setup, outcome, workVars, sessionVars>>,
           producer' \in ProducerType, producer.terminalErr # NoErr => producer'.terminalErr # NoErr,
           SubmitTypes', FlushTypes', closer' \in [Closers -> CloserStates],
           callbacks' \subseteq {"batcher", "producer"},
           BatcherOK(batcher'), BatcherFits(batcher', Entered'), Entered \subseteq Entered',
           HolderOK', WatchedOK', SealingOK', PermitsOK'
    PROVE  ProducerInv'
<1>1. TypeOK
    BY DEF ProducerInv
<1>2. WorkTypes' /\ SessionTypes' /\ outcome' \in [Records -> Outcomes]
    BY <1>1, TypeParts DEF WorkTypes, SessionTypes, workVars, sessionVars
<1>3. TypeOK'
    BY <1>2, TypePartsPrime DEF BatcherOK
<1>4. BatchesFit'
    <2>1. /\ Fits(consumer'.batch.records, consumer'.batch.meta, Entered')
          /\ \A i \in DOMAIN tickets' :
                Fits(tickets'[i].batch.records, tickets'[i].batch.meta, Entered')
        BY FitsMore DEF ProducerInv, BatchesFit, workVars, sessionVars
    <2> QED BY <2>1, FitsPrime
<1>5. ConsumerOK'
    BY DEF ProducerInv, ConsumerOK, workVars, sessionVars
<1>6. TicketsOK' /\ SeqNumExact'
    BY DEF ProducerInv, TicketsOK, SeqNumExact, NoneTwice, sessionVars
<1>7. (setup \in Setups)'
    BY DEF ProducerInv
<1> QED BY <1>3, <1>4, <1>5, <1>6, <1>7, BatcherOKPrime DEF ProducerInv

(* A closed batcher stays closed, and only close becomes a sealer. *)
LEMMA SealingStays ==
    ASSUME SealingOK, \A w \in Closers : closer'[w] = "sealing" => closer[w] = "sealing",
           batcher.closed /\ batcher.mu = Free => batcher'.closed /\ batcher'.mu = Free
    PROVE  SealingOK'
BY DEF SealingOK

(* Becomes only ever adds a caller of close. *)
LEMMA BecomesKeeps ==
    ASSUME NEW p, NEW closers \in [Closers -> CloserStates], Becomes(p, closers)
    PROVE  /\ producer' = p
           /\ closer' \in [Closers -> CloserStates]
           /\ \A w \in Closers : closer'[w] = "sealing" => closers[w] = "sealing"
BY DEF Becomes, Closers, CloserStates

(* The permits after a step that resolves nothing. *)
LEMMA PermitsStay ==
    ASSUME ProducerInv, SamePermits(producer, producer'), UNCHANGED outcome,
           Held' = Held, Entered \subseteq Entered'
    PROVE  PermitsOK'
BY DEF ProducerInv, PermitsOK, SamePermits, BytesOf

(* What records hold and have entered depends on their places and outcomes *)
(* only.                                                                   *)
LEMMA SamePc ==
    ASSUME UNCHANGED <<pc, outcome>>
    PROVE  Held' = Held /\ Entered' = Entered
BY DEF Held, Entered

(* The place of one record changes. *)
LEMMA PcStep ==
    ASSUME TypeOK, NEW r \in Records, NEW v, pc' = [pc EXCEPT ![r] = v], UNCHANGED outcome
    PROVE  /\ (pc[r] \in {"adding", "accepted"} => v \in {"adding", "accepted"})
                 => Entered \subseteq Entered'
           /\ v \in {"adding", "accepted"} /\ r \in Watched => r \in Entered'
           /\ r \notin Watched => Held' = Held
           /\ (pc[r] \in {"reserved", "ready", "adding", "accepted"} <=>
                  v \in {"reserved", "ready", "adding", "accepted"}) => Held' = Held
           /\ v \notin {"reserved", "ready", "adding", "accepted"} => Held' = Held \ {r}
           /\ (/\ v \in {"reserved", "ready", "adding", "accepted"}
               /\ r \in Watched /\ outcome[r] = Unresolved) => Held' = Held \cup {r}
           /\ \A s \in Records : s # r => pc'[s] = pc[s]
           /\ pc'[r] = v
<1>1. pc \in [Records -> {"idle", "entered", "backpressure", "waiting", "reserved",
                           "ready", "adding", "accepted", "refused"}]
    BY DEF TypeOK
<1>2. pc'[r] = v /\ \A s \in Records : s # r => pc'[s] = pc[s]
    BY <1>1
<1>3. Watched \subseteq Records
    BY BatcherAssumption
<1>4. \A s \in Watched : s \in Entered' <=> pc'[s] \in {"adding", "accepted"}
    BY DEF Entered
<1>5. \A s : s \in Entered <=> s \in Watched /\ pc[s] \in {"adding", "accepted"}
    BY DEF Entered
<1>6. \A s : s \in Held' <=> /\ s \in Watched /\ outcome[s] = Unresolved
                             /\ pc'[s] \in {"reserved", "ready", "adding", "accepted"}
    BY DEF Held, Unresolved
<1>7. \A s : s \in Held <=> /\ s \in Watched /\ outcome[s] = Unresolved
                            /\ pc[s] \in {"reserved", "ready", "adding", "accepted"}
    BY DEF Held
<1> QED BY <1>2, <1>3, <1>4, <1>5, <1>6, <1>7

(* A record moves through Submit only if it has a result channel. *)
LEMMA WatchedStays ==
    ASSUME TypeOK, WatchedOK, NEW r \in Records, NEW v, pc' = [pc EXCEPT ![r] = v],
           v \in {"entered", "backpressure", "waiting", "reserved", "ready"} => r \in Watched
    PROVE  WatchedOK'
BY DEF TypeOK, WatchedOK

(* mu is held for another record than the one that moves. *)
LEMMA HolderStays ==
    ASSUME TypeOK, HolderOK, batcher'.mu = batcher.mu, NEW r \in Records, NEW v,
           pc' = [pc EXCEPT ![r] = v], pc[r] \notin {"adding", "backpressure"}
    PROVE  HolderOK'
<1>1. batcher.mu \in Holders
    BY DEF TypeOK, BatcherType
<1>2. batcher.mu.op \in {"add", "added", "backpressure"} => batcher.mu.who \in Records
    BY <1>1, BatcherAssumption DEF Holders, Free
<1>3. \A s \in Records : s # r => pc'[s] = pc[s]
    BY DEF TypeOK
<1>4. batcher.mu.op \in {"add", "added", "backpressure"} => batcher.mu.who # r
    BY DEF HolderOK
<1> QED BY <1>2, <1>3, <1>4 DEF HolderOK

(* A lock held for no record asks nothing of any record. *)
LEMMA HolderFree ==
    ASSUME batcher'.mu.op \notin {"add", "added", "backpressure"}
    PROVE  HolderOK'
BY DEF HolderOK

(* The holder of mu stays, and so does its record. *)
LEMMA HolderSame ==
    ASSUME HolderOK, batcher'.mu = batcher.mu, UNCHANGED pc
    PROVE  HolderOK'
BY DEF HolderOK

(* What the invariant says, in the form the steps use. *)
LEMMA InvFacts ==
    ASSUME ProducerInv
    PROVE  /\ TypeOK /\ producer \in ProducerType /\ batcher \in BatcherType
           /\ SubmitTypes /\ FlushTypes /\ closer \in [Closers -> CloserStates]
           /\ callbacks \subseteq {"batcher", "producer"}
           /\ BatcherOK(batcher) /\ BatcherFits(batcher, Entered)
           /\ HolderOK /\ WatchedOK /\ SealingOK /\ PermitsOK
           /\ Held \in SUBSET Watched /\ Held \in SUBSET Records
           /\ producer.permits = Held /\ producer.pool.bytes = BytesOf(Held)
           /\ SamePermits(producer, producer)
<1>1. TypeOK /\ PermitsOK
    BY DEF ProducerInv
<1>2. producer \in ProducerType
    BY <1>1, TypeParts
<1>3. Held \in SUBSET Watched /\ Held \in SUBSET Records
    BY BatcherAssumption DEF Held
<1>4. SamePermits(producer, producer)
    BY <1>2, ChecksKeep
<1> QED BY <1>1, <1>2, <1>3, <1>4, TypeParts DEF ProducerInv, BatchesFit, PermitsOK

(* Submit is refused: no permit of the record is left. *)
LEMMA RefuseStep ==
    ASSUME ProducerInv,
           UNCHANGED <<setup, outcome, workVars, flushVars, callbacks, sessionVars>>,
           NEW r \in Records, NEW p \in ProducerType, Refuse(r, p),
           producer.terminalErr # NoErr => p.terminalErr # NoErr,
           pc[r] \notin {"adding", "accepted"},
           p.permits = Held \ {r}, p.pool.bytes = BytesOf(Held \ {r}),
           BatcherOK(batcher'), BatcherFits(batcher', Entered), HolderOK',
           batcher.closed /\ batcher.mu = Free => batcher'.closed /\ batcher'.mu = Free
    PROVE  ProducerInv'
<1> USE InvFacts
<1>1. pc' = [pc EXCEPT ![r] = "refused"] /\ Becomes(p, closer) /\ UNCHANGED added
    BY DEF Refuse
<1>2. Entered \subseteq Entered' /\ Held' = Held \ {r}
    <2>1. UNCHANGED outcome /\ TypeOK
        OBVIOUS
    <2>2. Entered \subseteq Entered'
        BY <1>1, <2>1, PcStep
    <2>3. "refused" \notin {"reserved", "ready", "adding", "accepted"}
        OBVIOUS
    <2>4. Held' = Held \ {r}
        BY Zenon, <1>1, <2>1, <2>3, PcStep
    <2> QED BY <2>2, <2>4
<1>3. producer' = p /\ closer' \in [Closers -> CloserStates] /\ SealingOK'
    BY <1>1, BecomesKeeps, SealingStays
<1>4. SubmitTypes'
    BY <1>1 DEF SubmitTypes
<1>5. FlushTypes' /\ callbacks' \subseteq {"batcher", "producer"}
    BY DEF FlushTypes, flushVars
<1>6. PermitsOK'
    BY <1>2, <1>3 DEF PermitsOK, BytesOf
<1>7. BatcherFits(batcher', Entered')
    BY <1>2, BatcherFitsMore
<1>8. WatchedOK'
    BY <1>1, WatchedStays
<1> QED BY <1>2, <1>3, <1>4, <1>5, <1>6, <1>7, <1>8, QuietStep

(* A refusal before a permit was granted. *)
LEMMA RefuseEarly ==
    ASSUME ProducerInv,
           UNCHANGED <<setup, outcome, workVars, flushVars, callbacks, sessionVars>>,
           NEW r \in Records, NEW p, SamePermits(producer, p), Refuse(r, p),
           pc[r] \in {"idle", "entered", "backpressure", "waiting"},
           BatcherOK(batcher'), BatcherFits(batcher', Entered), HolderOK',
           batcher.closed /\ batcher.mu = Free => batcher'.closed /\ batcher'.mu = Free
    PROVE  ProducerInv'
<1>1. Held \ {r} = Held
    BY DEF Held
<1>2. p.permits = Held \ {r} /\ p.pool.bytes = BytesOf(Held \ {r})
    BY <1>1, InvFacts DEF SamePermits
<1> QED BY <1>2, RefuseStep DEF SamePermits

(* A record goes on without taking or giving back a permit. *)
LEMMA MoveStep ==
    ASSUME ProducerInv,
           UNCHANGED <<setup, producer, outcome, workVars, flushVars, closer, callbacks,
                       sessionVars>>,
           NEW r \in Records,
           NEW v \in {"entered", "backpressure", "waiting", "ready", "adding", "accepted"},
           pc' = [pc EXCEPT ![r] = v], SubmitTypes',
           pc[r] \in {"adding", "accepted"} => v \in {"adding", "accepted"},
           v \in {"entered", "backpressure", "waiting", "ready"} => r \in Watched,
           \/ r \notin Watched
           \/ pc[r] \in {"reserved", "ready", "adding", "accepted"} <=>
                  v \in {"ready", "adding", "accepted"},
           BatcherOK(batcher'), BatcherFits(batcher', Entered'), HolderOK',
           batcher.closed /\ batcher.mu = Free => batcher'.closed /\ batcher'.mu = Free
    PROVE  ProducerInv'
<1> USE InvFacts
<1>1. Entered \subseteq Entered'
    BY PcStep
<1>2. Held' = Held
    BY PcStep
<1>3. SealingOK'
    BY SealingStays
<1>4. PermitsOK'
    BY <1>1, <1>2, PermitsStay
<1>5. FlushTypes'
    BY DEF FlushTypes, flushVars
<1>6. WatchedOK'
    BY WatchedStays
<1> QED BY <1>1, <1>3, <1>4, <1>5, <1>6, QuietStep

(* tryReserve or reserve grants the permit. *)
LEMMA PermitStep ==
    ASSUME ProducerInv,
           UNCHANGED <<setup, batcher, outcome, workVars, flushVars, callbacks, sessionVars>>,
           NEW r \in Watched, TakePermit(r), pc[r] \in {"entered", "waiting"}
    PROVE  ProducerInv'
<1> USE InvFacts
<1> DEFINE l == Reserved(producer.pool, Size[r])
           s == producer.permits \cup {r}
<1>1. r \in Records /\ Size[r] \in Nat
    BY BatcherAssumption
<1>2. producer.pool \in Pool /\ producer.permits \in SUBSET Watched
    BY DEF ProducerType
<1>3. l \in Pool /\ l.bytes = producer.pool.bytes + Size[r]
    BY <1>1, <1>2, ReservedFields
<1>4. s \in SUBSET Watched
    BY <1>2
<1>5. pc' = [pc EXCEPT ![r] = "reserved"] /\ UNCHANGED <<added, closer>>
    BY DEF TakePermit
<1>6. producer' = [producer EXCEPT !.pool = l, !.permits = s]
    BY DEF TakePermit
<1> HIDE DEF l, s
<1>7. /\ producer' \in ProducerType /\ producer'.terminalErr = producer.terminalErr
      /\ producer'.pool = l /\ producer'.permits = s
    BY <1>3, <1>4, <1>6 DEF ProducerType
<1>8. outcome[r] = Unresolved
    BY <1>1 DEF PermitsOK, Entered
<1>9. Held' = Held \cup {r} /\ Entered \subseteq Entered'
    BY <1>1, <1>5, <1>8, PcStep
<1>10. BytesOf(Held \cup {r}) = BytesOf(Held) + Size[r]
    <2>1. r \notin Held
        BY DEF Held
    <2>2. IsFiniteSet(Held)
        BY BytesType
    <2>3. \A y \in Held \cup {r} : Size[y] \in Nat
        BY <1>1, BatcherAssumption
    <2> QED BY <2>1, <2>2, <2>3, SumAdd DEF BytesOf
<1>11. PermitsOK'
    <2>1. producer'.permits = Held' /\ producer'.pool.bytes = BytesOf(Held')
        BY <1>3, <1>7, <1>9, <1>10 DEF s
    <2>2. \A x \in Records : outcome'[x] # Unresolved => x \in Entered'
        BY <1>9 DEF PermitsOK
    <2> QED BY <2>1, <2>2 DEF PermitsOK, BytesOf, Unresolved
<1>12. SubmitTypes' /\ FlushTypes'
    BY <1>5 DEF SubmitTypes, FlushTypes, flushVars
<1>13. HolderOK' /\ WatchedOK' /\ SealingOK'
    BY <1>1, <1>5, HolderStays, WatchedStays, SealingStays
<1>14. BatcherOK(batcher') /\ BatcherFits(batcher', Entered')
    BY <1>9, BatcherFitsMore
<1> QED BY <1>5, <1>7, <1>9, <1>11, <1>12, <1>13, <1>14, QuietStep

-----------------------------------------------------------------------------
(* Submit.                                                                 *)

LEMMA SubmitKeeps ==
    ASSUME ProducerInv, UNCHANGED setup, NEW r \in Records, Submit(r)
    PROVE  ProducerInv'
<1> USE InvFacts
<1>1. /\ pc[r] = "idle" /\ r \in Watched
      /\ UNCHANGED <<batcher, outcome, workVars, flushVars, callbacks, sessionVars>>
    BY DEF Submit
<1>2. CASE NotAccepting /\ Refuse(r, Checked(producer))
    <2>1. SamePermits(producer, Checked(producer))
        BY ChecksKeep
    <2>2. HolderOK'
        BY <1>1, <1>2, HolderStays DEF Refuse
    <2> QED BY <1>1, <1>2, <2>1, <2>2, RefuseEarly
<1>3. CASE pc' = [pc EXCEPT ![r] = "entered"] /\ UNCHANGED <<added, producer, closer>>
    <2>1. HolderOK'
        BY <1>1, <1>3, HolderStays
    <2>2. Entered \subseteq Entered'
        BY <1>1, <1>3, PcStep
    <2>3. BatcherFits(batcher', Entered')
        BY <1>1, <2>2, BatcherFitsMore
    <2>4. SubmitTypes'
        BY <1>3 DEF SubmitTypes
    <2> QED BY <1>1, <1>3, <2>1, <2>3, <2>4, MoveStep
<1> QED BY <1>2, <1>3 DEF Submit

(* TryReserve takes a permit with the bytes of its record, or none         *)
(* (Producer.Submit).                                                      *)
LEMMA TryReserveKeeps ==
    ASSUME ProducerInv, UNCHANGED setup, NEW r \in Records, TryReserve(r)
    PROVE  ProducerInv'
<1> USE InvFacts
<1>1. /\ pc[r] = "entered" /\ r \in Watched
      /\ UNCHANGED <<batcher, outcome, workVars, flushVars, callbacks, sessionVars>>
    BY DEF TryReserve, WatchedOK
<1>2. CASE Refuse(r, MapSubmitError(producer))
    <2>1. SamePermits(producer, MapSubmitError(producer))
        BY ChecksKeep
    <2>2. HolderOK'
        BY <1>1, <1>2, HolderStays DEF Refuse
    <2> QED BY <1>1, <1>2, <2>1, <2>2, RefuseEarly
<1>3. CASE TakePermit(r)
    BY <1>1, <1>3, PermitStep
<1>4. CASE pc' = [pc EXCEPT ![r] = "backpressure"] /\ UNCHANGED <<added, producer, closer>>
    <2>1. HolderOK'
        BY <1>1, <1>4, HolderStays
    <2>2. Entered \subseteq Entered'
        BY <1>1, <1>4, PcStep
    <2>3. BatcherFits(batcher', Entered')
        BY <1>1, <2>2, BatcherFitsMore
    <2>4. SubmitTypes'
        BY <1>4 DEF SubmitTypes
    <2> QED BY <1>1, <1>4, <2>1, <2>3, <2>4, MoveStep
<1> QED BY <1>2, <1>3, <1>4 DEF TryReserve

(* Reserve waits for capacity, and gives up with the error of the context  *)
(* or of the closed pool.                                                  *)
LEMMA ReserveKeeps ==
    ASSUME ProducerInv, UNCHANGED setup, NEW r \in Records, Reserve(r)
    PROVE  ProducerInv'
<1> USE InvFacts
<1>1. /\ pc[r] = "waiting" /\ r \in Watched
      /\ UNCHANGED <<batcher, outcome, workVars, flushVars, callbacks, sessionVars>>
    BY DEF Reserve, WatchedOK
<1>2. CASE Refuse(r, MapSubmitError(producer))
    <2>1. SamePermits(producer, MapSubmitError(producer))
        BY ChecksKeep
    <2>2. HolderOK'
        BY <1>1, <1>2, HolderStays DEF Refuse
    <2> QED BY <1>1, <1>2, <2>1, <2>2, RefuseEarly
<1>3. CASE TakePermit(r)
    BY <1>1, <1>3, PermitStep
<1> QED BY <1>2, <1>3 DEF Reserve

(* The permit of a refused record is given back. *)
LEMMA ReleasedOne ==
    ASSUME ProducerInv, NEW r
    PROVE  LET p == ReleasePermits(producer, {r})
           IN  /\ p \in ProducerType /\ p.terminalErr = producer.terminalErr
               /\ p.permits = Held \ {r} /\ p.pool.bytes = BytesOf(Held \ {r})
<1>1. producer \in ProducerType /\ producer.permits = Held /\ producer.pool.bytes = BytesOf(Held)
    BY InvFacts
<1>2. producer.pool.bytes = BytesOf(producer.permits)
    BY <1>1
<1> QED BY <1>1, <1>2, ReleasePermitsKeeps

(* After the permit is taken Submit looks at the contexts again and gives  *)
(* the permit back if one ended.                                           *)
LEMMA RecheckKeeps ==
    ASSUME ProducerInv, UNCHANGED setup, NEW r \in Records, Recheck(r)
    PROVE  ProducerInv'
<1> USE InvFacts
<1>1. /\ pc[r] = "reserved" /\ r \in Watched
      /\ UNCHANGED <<batcher, outcome, workVars, flushVars, callbacks, sessionVars>>
    BY DEF Recheck, WatchedOK
<1>2. CASE Refuse(r, Checked(ReleasePermits(producer, {r})))
    <2> DEFINE p == ReleasePermits(producer, {r})
    <2>1. /\ p \in ProducerType /\ p.terminalErr = producer.terminalErr
          /\ p.permits = Held \ {r} /\ p.pool.bytes = BytesOf(Held \ {r})
        BY ReleasedOne
    <2> HIDE DEF p
    <2>2. SamePermits(p, Checked(p))
        BY <2>1, ChecksKeep
    <2>3. HolderOK'
        BY <1>1, <1>2, HolderStays DEF Refuse
    <2> DEFINE q == Checked(p)
    <2>4. /\ q \in ProducerType /\ (producer.terminalErr # NoErr => q.terminalErr # NoErr)
          /\ q.permits = Held \ {r} /\ q.pool.bytes = BytesOf(Held \ {r})
        BY <2>1, <2>2 DEF SamePermits
    <2>5. Refuse(r, q)
        BY <1>2 DEF p
    <2> HIDE DEF q
    <2> QED BY <1>1, <2>3, <2>4, <2>5, RefuseStep
<1>3. CASE pc' = [pc EXCEPT ![r] = "ready"] /\ UNCHANGED <<added, producer, closer>>
    <2>1. HolderOK'
        BY <1>1, <1>3, HolderStays
    <2>2. Entered \subseteq Entered'
        BY <1>1, <1>3, PcStep
    <2>3. BatcherFits(batcher', Entered')
        BY <1>1, <2>2, BatcherFitsMore
    <2>4. SubmitTypes'
        BY <1>3 DEF SubmitTypes
    <2> QED BY <1>1, <1>3, <2>1, <2>3, <2>4, MoveStep
<1> QED BY <1>2, <1>3 DEF Recheck

-----------------------------------------------------------------------------
(* The methods of the batcher that a record waits for.                     *)

LEMMA FitsFlushBegun ==
    ASSUME NEW b \in BatcherType, ~ Sending(b), NEW c \in FlushBegun(b), NEW S,
           BatcherFits(b, S)
    PROVE  BatcherFits(c, S)
<1>1. CASE b.buffer = <<>>
    <2>1. c.ch = b.ch /\ c.out = b.out /\ c.meta = b.meta /\ c.buffer = b.buffer
        BY <1>1, FlushBegunFields
    <2> QED BY <2>1 DEF BatcherFits
<1>2. CASE b.buffer # <<>>
    <2>1. /\ c.ch = b.ch /\ c.out.records = b.buffer /\ c.out.meta = b.meta
          /\ c.buffer = <<>> /\ c.meta = <<>>
        BY <1>2, FlushBegunFields
    <2> QED BY <2>1, FitsEmpty DEF BatcherFits
<1> QED BY <1>1, <1>2

(* Taking and giving up mu moves no record. *)
LEMMA FitsLock ==
    ASSUME NEW b \in BatcherType, NEW S, BatcherFits(b, S)
    PROVE  /\ BatcherFits(Unlock(b), S)
           /\ \A op, who : [op |-> op, who |-> who] \in Holders => BatcherFits(Lock(b, op, who), S)
<1>1. BatcherFits(Unlock(b), S)
    BY UnlockFields DEF BatcherFits
<1>2. ASSUME NEW op, NEW who, [op |-> op, who |-> who] \in Holders
      PROVE  BatcherFits(Lock(b, op, who), S)
    <2> DEFINE c == Lock(b, op, who)
    <2>1. c.ch = b.ch /\ c.out = b.out /\ c.meta = b.meta /\ c.buffer = b.buffer
        BY <1>2, LockFields
    <2> HIDE DEF c
    <2>2. BatcherFits(c, S)
        BY <2>1 DEF BatcherFits
    <2> QED BY <2>2 DEF c
<1> QED BY <1>1, <1>2

(* Nobody sends while mu is free. *)
LEMMA FreeIsIdle ==
    ASSUME ProducerInv, batcher.mu = Free
    PROVE  ~ Sending(batcher) /\ batcher \in BatcherType
BY InvFacts DEF BatcherOK, LockOK

(* A Submit that waits for capacity takes mu to flush what is buffered. *)
LEMMA BackpressureLocksKeeps ==
    ASSUME ProducerInv, UNCHANGED setup, NEW r \in Records, BackpressureLocks(r)
    PROVE  ProducerInv'
<1> USE InvFacts
<1>1. /\ pc[r] = "backpressure" /\ r \in Watched /\ batcher.mu = Free
      /\ UNCHANGED <<outcome, workVars, flushVars, callbacks, sessionVars>>
    BY DEF BackpressureLocks, WatchedOK
<1>2. CASE Refuse(r, MapSubmitError(producer)) /\ UNCHANGED batcher
    <2>1. SamePermits(producer, MapSubmitError(producer))
        BY ChecksKeep
    <2>2. HolderOK'
        BY <1>1, <1>2, HolderFree, HolderNames
    <2> QED BY <1>1, <1>2, <2>1, <2>2, RefuseEarly
<1>3. ASSUME ~ batcher.closed, NEW b \in FlushBegun(batcher),
             batcher' = IF Sending(b) THEN Lock(b, "backpressure", r) ELSE b,
             pc' = [pc EXCEPT ![r] = IF Sending(b) THEN @ ELSE "waiting"],
             UNCHANGED <<added, producer, closer>>
      PROVE  ProducerInv'
    <2> DEFINE v == IF Sending(b) THEN "backpressure" ELSE "waiting"
    <2>1. pc' = [pc EXCEPT ![r] = v] /\ v \in {"backpressure", "waiting"}
        BY <1>1, <1>3
    <2>2. [op |-> "backpressure", who |-> r] \in Holders
        BY <1>1, HolderNames
    <2>3. /\ BatcherOK(Lock(b, "backpressure", r)) /\ (~ Sending(b) => BatcherOK(b))
          /\ b \in BatcherType /\ b.mu = Free
        BY <1>1, <1>3, <2>2, FlushUnderLock
    <2>4. BatcherOK(batcher')
        BY <1>3, <2>3
    <2>5. BatcherFits(batcher', Entered)
        BY <1>1, <1>3, <2>2, <2>3, FreeIsIdle, FitsFlushBegun, FitsLock
    <2>6. Entered \subseteq Entered'
        BY <1>1, <2>1, PcStep
    <2>7. BatcherFits(batcher', Entered')
        BY <2>5, <2>6, BatcherFitsMore
    <2>8. HolderOK'
        <3>1. CASE Sending(b)
            <4>1. batcher'.mu.op = "backpressure" /\ batcher'.mu.who = r
                BY <1>3, <2>2, <2>3, <3>1, LockFields
            <4>2. pc'[r] = "backpressure"
                BY <2>1, <3>1 DEF SubmitTypes
            <4> QED BY <4>1, <4>2 DEF HolderOK
        <3>2. CASE ~ Sending(b)
            BY <1>3, <2>3, <3>2, HolderFree, HolderNames
        <3> QED BY <3>1, <3>2
    <2>9. SubmitTypes'
        BY <1>3, <2>1 DEF SubmitTypes
    <2> HIDE DEF v
    <2> QED BY <1>1, <1>3, <2>1, <2>4, <2>7, <2>8, <2>9, MoveStep
<1> QED BY <1>2, <1>3 DEF BackpressureLocks

(* A method that waited for its flush gives up mu. *)
LEMMA UnlockedBatcher ==
    ASSUME ProducerInv, ~ Sending(batcher), batcher.mu # Free, batcher' = Unlock(batcher)
    PROVE  /\ BatcherOK(batcher') /\ BatcherFits(batcher', Entered) /\ batcher'.mu = Free
           /\ batcher'.closed = batcher.closed /\ HolderOK'
<1> USE InvFacts
<1>1. BatcherOK(batcher') /\ BatcherFits(batcher', Entered)
    BY UnlockKeeps, FitsLock
<1>2. batcher'.mu = Free /\ batcher'.closed = batcher.closed
    BY UnlockFields
<1> QED BY <1>1, <1>2, HolderFree, HolderNames

(* That Submit gives mu up when its flush has ended. *)
LEMMA BackpressureUnlocksKeeps ==
    ASSUME ProducerInv, UNCHANGED setup, NEW r \in Records, BackpressureUnlocks(r)
    PROVE  ProducerInv'
<1> USE InvFacts
<1>1. /\ batcher.mu = [op |-> "backpressure", who |-> r] /\ ~ Sending(batcher)
      /\ batcher' = Unlock(batcher)
      /\ UNCHANGED <<outcome, workVars, flushVars, callbacks, sessionVars>>
    BY DEF BackpressureUnlocks
<1>2. pc[r] = "backpressure" /\ r \in Watched /\ batcher.mu # Free
    BY <1>1, HolderNames DEF HolderOK, WatchedOK
<1>3. BatcherOK(batcher') /\ BatcherFits(batcher', Entered) /\ HolderOK'
    BY <1>1, <1>2, UnlockedBatcher
<1>4. CASE Refuse(r, MapSubmitError(producer))
    <2>1. SamePermits(producer, MapSubmitError(producer))
        BY ChecksKeep
    <2> QED BY <1>1, <1>2, <1>3, <1>4, <2>1, RefuseEarly
<1>5. CASE pc' = [pc EXCEPT ![r] = "waiting"] /\ UNCHANGED <<added, producer, closer>>
    <2>1. Entered \subseteq Entered'
        BY <1>1, <1>2, <1>5, PcStep
    <2>2. BatcherFits(batcher', Entered')
        BY <1>3, <2>1, BatcherFitsMore
    <2>3. SubmitTypes'
        BY <1>5 DEF SubmitTypes
    <2> QED BY <1>1, <1>2, <1>3, <1>5, <2>2, <2>3, MoveStep
<1> QED BY <1>4, <1>5 DEF BackpressureUnlocks

(* The record enters the batcher, whoever held mu for it before. *)
LEMMA EntersKeeps ==
    ASSUME ProducerInv,
           UNCHANGED <<setup, producer, outcome, workVars, flushVars, closer, callbacks,
                       sessionVars>>,
           NEW r \in Records, Enters(r), ~ batcher.closed, ~ Sending(batcher),
           r \in Watched => pc[r] \in {"ready", "adding"},
           pc[r] # "accepted", pc[r] # "backpressure"
    PROVE  ProducerInv'
<1> USE InvFacts
<1>1. PICK b \in Added(batcher, r) :
          /\ batcher' = IF Sending(b) THEN b ELSE Unlock(b)
          /\ pc' = [pc EXCEPT ![r] = IF Sending(b) THEN "adding" ELSE "accepted"]
    BY DEF Enters
<1> DEFINE v == IF Sending(b) THEN "adding" ELSE "accepted"
           S == Entered'
<1>2. added' = Append(added, r)
    BY DEF Enters
<1>3. /\ BatcherOK(b) /\ ~ b.closed
      /\ b.mu = [op |-> "added", who |-> r] /\ b.ch = batcher.ch
      /\ \/ /\ b.out.records = Buffered(batcher, r).buffer
            /\ b.out.meta = Buffered(batcher, r).meta
            /\ b.buffer = <<>> /\ b.meta = <<>>
         \/ /\ b.out = batcher.out
            /\ b.buffer = Buffered(batcher, r).buffer /\ b.meta = Buffered(batcher, r).meta
    BY AddedKeeps
<1>4. v \in {"adding", "accepted"} /\ pc' = [pc EXCEPT ![r] = v]
    BY <1>1
<1>5. Entered \subseteq S /\ (r \in Watched => r \in S)
    BY <1>4, PcStep
<1> HIDE DEF S
<1>6. BatcherFits(batcher, S)
    BY <1>5, BatcherFitsMore
<1>7. Fits(Buffered(batcher, r).buffer, Buffered(batcher, r).meta, S)
    BY <1>5, <1>6, FitsBuffered DEF BatcherFits
<1>8. BatcherFits(b, S)
    BY <1>3, <1>6, <1>7, FitsEmpty DEF BatcherFits
<1>9. BatcherFits(batcher', Entered') /\ BatcherOK(batcher')
    BY <1>1, <1>3, <1>8, FitsLock, UnlockKeeps DEF S, BatcherOK
<1>10. HolderOK'
    <2>1. CASE Sending(b)
        <3>1. batcher'.mu.op = "added" /\ batcher'.mu.who = r
            BY <1>1, <1>3, <2>1
        <3>2. pc'[r] = "adding"
            BY <1>1, <2>1 DEF SubmitTypes
        <3> QED BY <3>1, <3>2 DEF HolderOK
    <2>2. CASE ~ Sending(b)
        <3>1. batcher'.mu = Free
            BY <1>1, <1>3, <2>2, UnlockFields DEF BatcherOK
        <3> QED BY <3>1, HolderFree, HolderNames
    <2> QED BY <2>1, <2>2
<1>11. SubmitTypes'
    BY <1>2, <1>4 DEF SubmitTypes
<1> HIDE DEF v
<1> QED BY <1>4, <1>9, <1>10, <1>11, MoveStep

(* Add takes mu, and is refused, flushes first, or puts the record in      *)
(* (Batcher.Add).                                                          *)
LEMMA AddKeeps ==
    ASSUME ProducerInv, UNCHANGED setup, NEW r \in Records, Add(r)
    PROVE  ProducerInv'
<1> USE InvFacts
<1>1. /\ pc[r] = (IF r \in Watched THEN "ready" ELSE "idle") /\ batcher.mu = Free
      /\ UNCHANGED <<outcome, workVars, flushVars, callbacks, sessionVars>>
    BY DEF Add
<1>2. /\ pc[r] \in {"ready", "idle"} /\ (r \in Watched => pc[r] = "ready")
      /\ ~ Sending(batcher)
    BY <1>1, FreeIsIdle
<1>3. CASE Refuse(r, ReleasePermits(producer, {r})) /\ UNCHANGED batcher
    <2> DEFINE p == ReleasePermits(producer, {r})
    <2>1. /\ p \in ProducerType /\ p.terminalErr = producer.terminalErr
          /\ p.permits = Held \ {r} /\ p.pool.bytes = BytesOf(Held \ {r})
        BY ReleasedOne
    <2>2. Refuse(r, p)
        BY <1>3
    <2> HIDE DEF p
    <2>3. HolderOK'
        BY <1>2, <1>3, HolderStays DEF Refuse
    <2> QED BY <1>1, <1>2, <1>3, <2>1, <2>2, <2>3, RefuseStep
<1>4. CASE ~ batcher.closed /\ Enters(r) /\ UNCHANGED <<producer, closer>>
    BY <1>1, <1>2, <1>4, EntersKeeps
<1>5. CASE /\ ~ batcher.closed
           /\ batcher' \in {Lock(b, "add", r) : b \in FlushBegun(batcher)}
           /\ pc' = [pc EXCEPT ![r] = "adding"]
           /\ UNCHANGED <<added, producer, closer>>
    <2>1. PICK b \in FlushBegun(batcher) : batcher' = Lock(b, "add", r)
        BY <1>5
    <2>2. [op |-> "add", who |-> r] \in Holders
        BY HolderNames
    <2>3. BatcherOK(batcher') /\ b \in BatcherType
        BY <1>1, <1>5, <2>1, <2>2, FlushUnderLock
    <2>4. BatcherFits(batcher', Entered)
        BY <1>2, <2>1, <2>2, <2>3, FitsFlushBegun, FitsLock
    <2>5. Entered \subseteq Entered'
        BY <1>1, <1>2, <1>5, PcStep
    <2>6. BatcherFits(batcher', Entered')
        BY <2>4, <2>5, BatcherFitsMore
    <2>7. batcher'.mu.op = "add" /\ batcher'.mu.who = r
        BY <2>1, <2>2, <2>3, LockFields
    <2>8. HolderOK' /\ SubmitTypes'
        BY <1>5, <2>7 DEF HolderOK, SubmitTypes
    <2> QED BY <1>1, <1>2, <1>5, <2>3, <2>6, <2>8, MoveStep
<1> QED BY <1>3, <1>4, <1>5 DEF Add

(* Add goes on after the flush that made room. *)
LEMMA AddAfterFlushKeeps ==
    ASSUME ProducerInv, UNCHANGED setup, NEW r \in Records, AddAfterFlush(r)
    PROVE  ProducerInv'
<1>1. /\ batcher.mu = [op |-> "add", who |-> r] /\ ~ Sending(batcher) /\ Enters(r)
      /\ UNCHANGED <<producer, outcome, workVars, flushVars, closer, callbacks, sessionVars>>
    BY DEF AddAfterFlush
<1>2. pc[r] = "adding" /\ ~ batcher.closed
    BY <1>1, InvFacts, HolderNames DEF HolderOK, BatcherOK, ClosedOK
<1> QED BY <1>1, <1>2, EntersKeeps

(* Add gives mu up after the flush its record caused. *)
LEMMA AddReturnsKeeps ==
    ASSUME ProducerInv, UNCHANGED setup, NEW r \in Records, AddReturns(r)
    PROVE  ProducerInv'
<1> USE InvFacts
<1>1. /\ batcher.mu = [op |-> "added", who |-> r] /\ ~ Sending(batcher)
      /\ batcher' = Unlock(batcher) /\ pc' = [pc EXCEPT ![r] = "accepted"]
      /\ UNCHANGED <<added, producer, outcome, workVars, flushVars, closer, callbacks,
                     sessionVars>>
    BY DEF AddReturns
<1>2. pc[r] = "adding" /\ batcher.mu # Free
    BY <1>1, HolderNames DEF HolderOK
<1>3. BatcherOK(batcher') /\ BatcherFits(batcher', Entered) /\ HolderOK'
    BY <1>1, <1>2, UnlockedBatcher
<1>4. Entered \subseteq Entered'
    BY <1>1, <1>2, PcStep
<1>5. BatcherFits(batcher', Entered')
    BY <1>3, <1>4, BatcherFitsMore
<1>6. SubmitTypes'
    BY <1>1 DEF SubmitTypes
<1> QED BY <1>1, <1>2, <1>3, <1>5, <1>6, MoveStep

-----------------------------------------------------------------------------
(* Steps that leave every record where it is.                              *)

LEMMA StillStep ==
    ASSUME ProducerInv, UNCHANGED <<setup, submitVars, outcome, workVars, sessionVars>>,
           SamePermits(producer, producer'), FlushTypes',
           closer' \in [Closers -> CloserStates],
           callbacks' \subseteq {"batcher", "producer"},
           BatcherOK(batcher'), BatcherFits(batcher', Entered), HolderOK', SealingOK'
    PROVE  ProducerInv'
<1> USE InvFacts
<1>1. UNCHANGED <<pc, added>>
    BY DEF submitVars
<1>2. Held' = Held /\ Entered' = Entered
    BY <1>1, SamePc
<1>3. SubmitTypes' /\ WatchedOK'
    BY <1>1 DEF SubmitTypes, WatchedOK
<1>4. PermitsOK'
    BY <1>2, PermitsStay
<1> QED BY <1>2, <1>3, <1>4, QuietStep DEF SamePermits

(* The batch on its way enters the channel (sendBatch). *)
LEMMA SendBatchKeeps ==
    ASSUME ProducerInv, UNCHANGED setup, SendBatch
    PROVE  ProducerInv'
<1> USE InvFacts
<1>1. /\ Sending(batcher) /\ batcher' = Sent(batcher)
      /\ UNCHANGED <<producer, submitVars, outcome, workVars, flushVars, closer, callbacks,
                     sessionVars>>
    BY DEF SendBatch
<1>2. /\ BatcherOK(batcher') /\ batcher'.closed = batcher.closed
      /\ batcher'.mu \in {batcher.mu, Free} /\ (batcher.closed => batcher'.mu = batcher.mu)
    BY <1>1, SentKeeps
<1>3. BatcherFits(batcher', Entered)
    BY <1>1, FitsSent
<1>4. HolderOK'
    BY <1>1, <1>2, HolderSame, HolderFree, HolderNames DEF submitVars
<1>5. SealingOK'
    BY <1>1, <1>2, SealingStays
<1>6. FlushTypes'
    BY <1>1 DEF FlushTypes, flushVars
<1> QED BY <1>1, <1>2, <1>3, <1>4, <1>5, <1>6, StillStep

(* A linger callback flushes, or finds that its timer is no longer the     *)
(* current one.                                                            *)
LEMMA FlushFromTimerKeeps ==
    ASSUME ProducerInv, UNCHANGED setup, NEW seq, FlushFromTimer(seq)
    PROVE  ProducerInv'
<1> USE InvFacts
<1>1. /\ batcher.mu = Free /\ batcher' \in TimerFired(batcher, seq)
      /\ UNCHANGED <<producer, submitVars, outcome, workVars, flushVars, closer, callbacks,
                     sessionVars>>
    BY DEF FlushFromTimer
<1>2. /\ BatcherOK(batcher') /\ batcher'.closed = batcher.closed
      /\ batcher'.mu = Free \/ batcher'.mu = [op |-> "timer", who |-> "nobody"]
      /\ batcher.closed => batcher'.mu = Free
      /\ batcher'.ch = batcher.ch
      /\ \/ /\ batcher'.out.records = batcher.buffer /\ batcher'.out.meta = batcher.meta
            /\ batcher'.buffer = <<>> /\ batcher'.meta = <<>>
         \/ /\ batcher'.out = batcher.out /\ batcher'.buffer = batcher.buffer
            /\ batcher'.meta = batcher.meta
    BY <1>1, TimerFiredKeeps
<1>3. BatcherFits(batcher', Entered)
    BY <1>2, FitsEmpty DEF BatcherFits
<1>4. HolderOK' /\ SealingOK'
    BY <1>1, <1>2, HolderFree, HolderNames, SealingStays
<1>5. FlushTypes'
    BY <1>1 DEF FlushTypes, flushVars
<1> QED BY <1>1, <1>2, <1>3, <1>4, <1>5, StillStep

(* Batcher.Flush sends what is buffered. *)
LEMMA BatcherFlushKeeps ==
    ASSUME ProducerInv, UNCHANGED setup, BatcherFlush
    PROVE  ProducerInv'
<1> USE InvFacts
<1>1. /\ batcher.mu = Free /\ batcher.buffer # <<>>
      /\ UNCHANGED <<producer, submitVars, outcome, workVars, flushVars, closer, callbacks,
                     sessionVars>>
    BY DEF BatcherFlush
<1>2. PICK b \in FlushBegun(batcher) : batcher' = Lock(b, "flush", "nobody")
    BY DEF BatcherFlush
<1>3. ~ batcher.closed /\ ~ Sending(batcher)
    BY <1>1, FreeIsIdle DEF BatcherOK, ClosedOK
<1>4. [op |-> "flush", who |-> "nobody"] \in Holders
    BY HolderNames
<1>5. BatcherOK(batcher') /\ b \in BatcherType
    BY <1>1, <1>2, <1>3, <1>4, FlushUnderLock
<1>6. BatcherFits(batcher', Entered)
    BY <1>2, <1>3, <1>4, <1>5, FitsFlushBegun, FitsLock
<1>7. HolderOK'
    BY <1>2, <1>4, <1>5, LockFields, HolderFree
<1>8. SealingOK'
    BY <1>1, <1>3, SealingStays
<1>9. FlushTypes'
    BY <1>1 DEF FlushTypes, flushVars
<1> QED BY <1>1, <1>5, <1>6, <1>7, <1>8, <1>9, StillStep

(* Steps of the producer that leave the batcher alone. *)
LEMMA ProducerOnlyStep ==
    ASSUME ProducerInv, UNCHANGED <<setup, batcher, submitVars, outcome, workVars, sessionVars>>,
           SamePermits(producer, producer'), FlushTypes',
           closer' \in [Closers -> CloserStates],
           \A w \in Closers : closer'[w] = "sealing" => closer[w] = "sealing",
           callbacks' \subseteq {"batcher", "producer"}
    PROVE  ProducerInv'
<1> USE InvFacts
<1>1. HolderOK' /\ SealingOK'
    BY HolderSame, SealingStays DEF submitVars
<1> QED BY <1>1, StillStep

(* What a Close does after the batcher's close returns no permit. *)
LEMMA AfterCloseKeeps ==
    ASSUME NEW p \in ProducerType, NEW w, NEW err \in Errs \cup {NoErr}
    PROVE  SamePermits(p, AfterClose(w, p, err))
BY ChecksKeep, RecordTerminalErrorKeeps DEF AfterClose

(* A close takes mu, marks the batcher closed and takes the buffer out. *)
LEMMA CloseLocksKeeps ==
    ASSUME ProducerInv, UNCHANGED setup, NEW w \in Closers, CloseLocks(w)
    PROVE  ProducerInv'
<1> USE InvFacts
<1>1. /\ closer[w] = "called" /\ batcher.mu = Free /\ ~ Sending(batcher)
      /\ UNCHANGED <<submitVars, outcome, workVars, flushVars, callbacks, sessionVars>>
    BY FreeIsIdle DEF CloseLocks
<1>2. FlushTypes'
    BY <1>1 DEF FlushTypes, flushVars
<1>3. CASE /\ Becomes(AfterClose(w, producer, batcher.closeErr), [closer EXCEPT ![w] = "returned"])
           /\ UNCHANGED batcher
    <2> DEFINE c == [closer EXCEPT ![w] = "returned"]
    <2>1. c \in [Closers -> CloserStates] /\ \A x \in Closers : c[x] = "sealing" => closer[x] = "sealing"
        BY DEF CloserStates
    <2>2. batcher.closeErr \in Errs \cup {NoErr}
        BY DEF BatcherType
    <2>3. SamePermits(producer, AfterClose(w, producer, batcher.closeErr))
        BY <2>2, AfterCloseKeeps
    <2> HIDE DEF c
    <2>4. /\ SamePermits(producer, producer') /\ closer' \in [Closers -> CloserStates]
          /\ \A x \in Closers : closer'[x] = "sealing" => closer[x] = "sealing"
        BY <1>3, <2>1, <2>3, BecomesKeeps DEF c
    <2> QED BY <1>1, <1>2, <1>3, <2>4, ProducerOnlyStep
<1>4. ASSUME ~ batcher.closed, NEW b \in Closing(batcher, w),
             batcher' = IF Sending(b) THEN b ELSE Unlock(b),
             closer' = [closer EXCEPT ![w] = IF Sending(b) THEN "flushing" ELSE "sealing"],
             UNCHANGED producer
      PROVE  ProducerInv'
    <2>1. /\ BatcherOK(b) /\ b.closed /\ b.mu = [op |-> "close", who |-> w]
          /\ ~ Sending(b) => BatcherOK(Unlock(b))
        BY <1>1, <1>4, FlushUnderClose
    <2>2. b \in BatcherType /\ BatcherOK(batcher')
        BY <1>4, <2>1 DEF BatcherOK
    <2>3. BatcherFits(b, Entered)
        <3> DEFINE d == [batcher EXCEPT !.closed = TRUE]
        <3>1. PICK e \in FlushBegun(d) : b = Lock(e, "close", w)
            BY DEF Closing
        <3>2. /\ d \in BatcherType /\ ~ Sending(d) /\ d.out = batcher.out /\ d.ch = batcher.ch
              /\ d.buffer = batcher.buffer /\ d.meta = batcher.meta
            BY <1>1 DEF BatcherType, Sending
        <3> HIDE DEF d
        <3>3. BatcherFits(d, Entered)
            BY <3>2 DEF BatcherFits
        <3>4. e \in BatcherType /\ BatcherFits(e, Entered)
            BY <3>2, <3>3, FlushBegunFields, FitsFlushBegun
        <3>5. [op |-> "close", who |-> w] \in Holders
            BY HolderNames
        <3> QED BY <3>1, <3>4, <3>5, FitsLock
    <2>4. BatcherFits(batcher', Entered)
        BY <1>4, <2>2, <2>3, FitsLock
    <2>5. HolderOK'
        <3>1. batcher'.mu = Free \/ batcher'.mu = [op |-> "close", who |-> w]
            BY <1>4, <2>1, <2>2, UnlockFields
        <3> QED BY <3>1, HolderFree, HolderNames
    <2>6. closer' \in [Closers -> CloserStates]
        BY <1>4 DEF CloserStates
    <2>7. SealingOK'
        <3>1. \A x \in Closers : closer[x] # "sealing"
            BY <1>4 DEF SealingOK
        <3>2. CASE Sending(b)
            <4>1. \A x \in Closers : closer'[x] # "sealing"
                BY <1>4, <3>1, <3>2
            <4> QED BY <4>1 DEF SealingOK
        <3>3. CASE ~ Sending(b)
            <4>1. batcher'.closed /\ batcher'.mu = Free
                BY <1>4, <2>1, <2>2, <3>3, UnlockFields
            <4> QED BY <4>1 DEF SealingOK
        <3> QED BY <3>2, <3>3
    <2>8. SamePermits(producer, producer')
        BY <1>4
    <2> QED BY <1>1, <1>2, <2>2, <2>4, <2>5, <2>6, <2>7, <2>8, StillStep
<1> QED BY <1>3, <1>4 DEF CloseLocks

(* A close gives mu up after its last flush. *)
LEMMA CloseUnlocksKeeps ==
    ASSUME ProducerInv, UNCHANGED setup, NEW w \in Closers, CloseUnlocks(w)
    PROVE  ProducerInv'
<1> USE InvFacts
<1>1. /\ batcher.mu = [op |-> "close", who |-> w] /\ ~ Sending(batcher)
      /\ batcher' = Unlock(batcher) /\ closer' = [closer EXCEPT ![w] = "sealing"]
      /\ UNCHANGED <<producer, submitVars, outcome, workVars, flushVars, callbacks, sessionVars>>
    BY DEF CloseUnlocks
<1>2. batcher.closed /\ batcher.mu # Free
    BY <1>1, HolderNames DEF BatcherOK, ClosedOK
<1>3. /\ BatcherOK(batcher') /\ BatcherFits(batcher', Entered) /\ HolderOK'
      /\ batcher'.mu = Free /\ batcher'.closed
    BY <1>1, <1>2, UnlockedBatcher
<1>4. SealingOK'
    BY <1>3 DEF SealingOK
<1>5. closer' \in [Closers -> CloserStates] /\ FlushTypes'
    BY <1>1 DEF CloserStates, FlushTypes, flushVars
<1> QED BY <1>1, <1>3, <1>4, <1>5, StillStep

(* The first close closes the channel, when nobody can send on it any      *)
(* more.                                                                   *)
LEMMA CloseSealsKeeps ==
    ASSUME ProducerInv, UNCHANGED setup, NEW w \in Closers, CloseSeals(w)
    PROVE  ProducerInv'
<1> USE InvFacts
<1>1. /\ closer[w] = "sealing" /\ batcher' = [batcher EXCEPT !.ctx = TRUE, !.chClosed = TRUE]
      /\ Becomes(AfterClose(w, producer, batcher.closeErr), [closer EXCEPT ![w] = "returned"])
      /\ UNCHANGED <<submitVars, outcome, workVars, flushVars, callbacks, sessionVars>>
    BY DEF CloseSeals
<1> DEFINE c == [closer EXCEPT ![w] = "returned"]
<1>2. c \in [Closers -> CloserStates] /\ \A x \in Closers : c[x] = "sealing" => closer[x] = "sealing"
    BY DEF CloserStates
<1>3. SamePermits(producer, AfterClose(w, producer, batcher.closeErr))
    BY AfterCloseKeeps DEF BatcherType
<1> HIDE DEF c
<1>4. /\ SamePermits(producer, producer') /\ closer' \in [Closers -> CloserStates]
      /\ \A x \in Closers : closer'[x] = "sealing" => closer[x] = "sealing"
    BY <1>1, <1>2, <1>3, BecomesKeeps DEF c
<1>5. batcher.closed /\ batcher.mu = Free
    BY <1>1 DEF SealingOK
<1>6. /\ batcher' \in BatcherType /\ batcher'.mu = batcher.mu /\ batcher'.out = batcher.out
      /\ batcher'.buffer = batcher.buffer /\ batcher'.meta = batcher.meta
      /\ batcher'.timer = batcher.timer /\ batcher'.timerSeq = batcher.timerSeq
      /\ batcher'.scheduled = batcher.scheduled /\ batcher'.closed = batcher.closed
      /\ batcher'.ch = batcher.ch
    BY <1>1 DEF BatcherType
<1>7. BatcherOK(batcher')
    BY <1>5, <1>6, SameControl
<1>8. BatcherFits(batcher', Entered)
    BY <1>6 DEF BatcherFits
<1>9. HolderOK' /\ SealingOK' /\ FlushTypes'
    BY <1>1, <1>4, <1>6, HolderSame, SealingStays DEF submitVars, FlushTypes, flushVars
<1> QED BY <1>1, <1>4, <1>7, <1>8, <1>9, StillStep

(* The application calls Batcher.Close. *)
LEMMA CloseBatcherKeeps ==
    ASSUME ProducerInv, UNCHANGED setup, CloseBatcher
    PROVE  ProducerInv'
<1> USE InvFacts
<1>1. /\ closer' = [closer EXCEPT !["user"] = "called"]
      /\ UNCHANGED <<batcher, producer, submitVars, outcome, workVars, flushVars, callbacks,
                     sessionVars>>
    BY DEF CloseBatcher
<1>2. /\ closer' \in [Closers -> CloserStates] /\ FlushTypes'
      /\ \A x \in Closers : closer'[x] = "sealing" => closer[x] = "sealing"
    BY <1>1 DEF CloserStates, FlushTypes, flushVars
<1> QED BY <1>1, <1>2, ProducerOnlyStep

(* The application calls Producer.Close. *)
LEMMA CloseKeeps ==
    ASSUME ProducerInv, UNCHANGED setup, Close
    PROVE  ProducerInv'
<1> USE InvFacts
<1> DEFINE l == ClosedPool(producer.pool)
           p == [producer EXCEPT !.closing = TRUE, !.pool = l]
<1>1. /\ producer' = CancelSubmit(p, ErrSessionClosed)
      /\ closer' = [closer EXCEPT !["producer"] = "called"]
      /\ UNCHANGED <<batcher, submitVars, outcome, workVars, flushVars, callbacks, sessionVars>>
    BY DEF Close
<1>2. l \in Pool /\ l.bytes = producer.pool.bytes
    BY ClosedPoolFields DEF ProducerType
<1> HIDE DEF l
<1>3. SamePermits(producer, p)
    BY <1>2 DEF SamePermits, ProducerType
<1> HIDE DEF p
<1>4. SamePermits(p, CancelSubmit(p, ErrSessionClosed))
    BY <1>3, CancelSubmitKeeps DEF SamePermits, Errs
<1>5. SamePermits(producer, producer')
    BY <1>1, <1>3, <1>4 DEF SamePermits
<1>6. /\ closer' \in [Closers -> CloserStates] /\ FlushTypes'
      /\ \A x \in Closers : closer'[x] = "sealing" => closer[x] = "sealing"
    BY <1>1 DEF CloserStates, FlushTypes, flushVars
<1> QED BY <1>1, <1>5, <1>6, ProducerOnlyStep

(* Producer.Close returns when the consumer and the acknowledgement        *)
(* goroutines are done.                                                    *)
LEMMA CloseReturnsKeeps ==
    ASSUME ProducerInv, UNCHANGED setup, CloseReturns
    PROVE  ProducerInv'
<1> USE InvFacts
<1> DEFINE p == IF producer.ctx THEN RecordTerminalError(producer, ErrContext) ELSE producer
           c == [closer EXCEPT !["producer"] = IF p.terminalErr = NoErr THEN "ok" ELSE "failed"]
<1>1. /\ Becomes(CancelCtx(p), c)
      /\ UNCHANGED <<batcher, submitVars, outcome, workVars, flushVars, callbacks, sessionVars>>
    BY DEF CloseReturns
<1>2. SamePermits(producer, p)
    BY RecordTerminalErrorKeeps DEF Errs
<1> HIDE DEF p
<1>3. SamePermits(producer, CancelCtx(p))
    BY <1>2, CancelCtxKeeps DEF SamePermits
<1>4. c \in [Closers -> CloserStates] /\ \A x \in Closers : c[x] = "sealing" => closer[x] = "sealing"
    BY DEF CloserStates
<1> HIDE DEF c
<1>5. /\ SamePermits(producer, producer') /\ closer' \in [Closers -> CloserStates]
      /\ \A x \in Closers : closer'[x] = "sealing" => closer[x] = "sealing"
    BY <1>1, <1>3, <1>4, BecomesKeeps
<1>6. FlushTypes'
    BY <1>1 DEF FlushTypes, flushVars
<1> QED BY <1>1, <1>5, <1>6, ProducerOnlyStep

(* The end of a context and the callbacks it runs take no permit and lose  *)
(* none.                                                                   *)
LEMMA CancelsKeep ==
    ASSUME ProducerInv, UNCHANGED setup,
           CancelBatcher \/ CancelProducer \/ BatcherCancelled \/ ProducerCancelled
    PROVE  ProducerInv'
<1> USE InvFacts
<1>1. UNCHANGED <<submitVars, outcome, workVars, flushVars, sessionVars>>
    BY DEF CancelBatcher, CancelProducer, BatcherCancelled, ProducerCancelled
<1>2. FlushTypes'
    BY <1>1 DEF FlushTypes, flushVars
<1>3. CASE CancelBatcher
    <2>1. /\ batcher' = [batcher EXCEPT !.ctx = TRUE]
          /\ UNCHANGED <<producer, closer, callbacks>>
        BY <1>3 DEF CancelBatcher
    <2>2. /\ batcher' \in BatcherType /\ batcher'.mu = batcher.mu /\ batcher'.out = batcher.out
          /\ batcher'.buffer = batcher.buffer /\ batcher'.meta = batcher.meta
          /\ batcher'.timer = batcher.timer /\ batcher'.timerSeq = batcher.timerSeq
          /\ batcher'.scheduled = batcher.scheduled /\ batcher'.closed = batcher.closed
          /\ batcher'.ch = batcher.ch /\ batcher'.chClosed = batcher.chClosed
        BY <2>1 DEF BatcherType
    <2>3. BatcherOK(batcher')
        BY <2>2, SameControl
    <2>4. BatcherFits(batcher', Entered)
        BY <2>2 DEF BatcherFits
    <2>5. HolderOK' /\ SealingOK'
        BY <1>1, <2>1, <2>2, HolderSame, SealingStays DEF submitVars
    <2> QED BY <1>1, <1>2, <2>1, <2>3, <2>4, <2>5, StillStep
<1>4. CASE CancelProducer
    <2>1. producer' = CancelCtx(producer) /\ UNCHANGED <<batcher, closer, callbacks>>
        BY <1>4 DEF CancelProducer
    <2>2. SamePermits(producer, producer')
        BY <2>1, CancelCtxKeeps
    <2> QED BY <1>1, <1>2, <2>1, <2>2, ProducerOnlyStep
<1>5. CASE BatcherCancelled
    <2> DEFINE cause == ShutdownCause(batcher)
               p == CancelSubmit(producer, cause)
               q == IF cause = ErrSessionClosed THEN p ELSE RecordTerminalError(p, cause)
    <2>1. /\ Becomes(q, closer) /\ UNCHANGED batcher
          /\ callbacks' = callbacks \ {"batcher"}
        BY <1>5 DEF BatcherCancelled
    <2>2. cause \in Errs
        <3>1. batcher.closeErr \in Errs \cup {NoErr}
            BY DEF BatcherType
        <3> QED BY <3>1 DEF ShutdownCause, Errs
    <2> HIDE DEF cause
    <2>3. SamePermits(producer, p)
        BY <2>2, CancelSubmitKeeps
    <2> HIDE DEF p
    <2>4. SamePermits(producer, q)
        BY <2>2, <2>3, RecordTerminalErrorKeeps DEF SamePermits
    <2> HIDE DEF q
    <2>5. /\ SamePermits(producer, producer') /\ closer' \in [Closers -> CloserStates]
          /\ \A x \in Closers : closer'[x] = "sealing" => closer[x] = "sealing"
        BY <2>1, <2>4, BecomesKeeps
    <2> QED BY <1>1, <1>2, <2>1, <2>5, ProducerOnlyStep
<1>6. CASE ProducerCancelled
    <2> DEFINE q == IF producer.closing THEN producer
                    ELSE RecordTerminalError(producer, ErrContext)
    <2>1. /\ Becomes(q, closer) /\ UNCHANGED batcher
          /\ callbacks' = callbacks \ {"producer"}
        BY <1>6 DEF ProducerCancelled
    <2>2. SamePermits(producer, q)
        BY RecordTerminalErrorKeeps DEF Errs
    <2> HIDE DEF q
    <2>3. /\ SamePermits(producer, producer') /\ closer' \in [Closers -> CloserStates]
          /\ \A x \in Closers : closer'[x] = "sealing" => closer[x] = "sealing"
        BY <2>1, <2>2, BecomesKeeps
    <2> QED BY <1>1, <1>2, <2>1, <2>3, ProducerOnlyStep
<1> QED BY <1>3, <1>4, <1>5, <1>6

-----------------------------------------------------------------------------
(* Flush.                                                                  *)

LEMMA FlushKeeps ==
    ASSUME ProducerInv, UNCHANGED setup, NEW f \in Flushes, Flush(f)
    PROVE  ProducerInv'
<1> USE InvFacts
<1>1. /\ covered' = [covered EXCEPT ![f] = {r \in Records : pc[r] = "accepted"}]
      /\ UNCHANGED <<batcher, submitVars, outcome, workVars, barrier, callbacks, sessionVars>>
    BY DEF Flush
<1>2. \E v \in {"closed", "draining", "waiting"} : call' = [call EXCEPT ![f] = v]
    BY DEF Flush
<1>3. ordered' = ordered \/ ordered' = [ordered EXCEPT ![f] = "pending"]
    BY DEF Flush
<1>4. FlushTypes'
    <2>1. {r \in Records : pc[r] = "accepted"} \in SUBSET Records
        OBVIOUS
    <2>2. covered' \in [Flushes -> SUBSET Records]
        BY <1>1, <2>1 DEF FlushTypes
    <2>3. /\ call' \in [Flushes -> {"idle", "waiting", "draining",
                                    "ok", "failed", "closed", "terminal", "abandoned"}]
          /\ ordered' \in [Flushes -> {"none", "pending", "locked", "nil", "closed", "terminal"}]
        BY <1>2, <1>3 DEF FlushTypes
    <2> QED BY <1>1, <2>2, <2>3 DEF FlushTypes
<1>5. SamePermits(producer, Checked(producer))
    BY ChecksKeep
<1>6. UNCHANGED <<producer, closer>> \/ Becomes(Checked(producer), closer)
    BY DEF Flush
<1>7. /\ SamePermits(producer, producer') /\ closer' \in [Closers -> CloserStates]
      /\ \A x \in Closers : closer'[x] = "sealing" => closer[x] = "sealing"
    BY <1>5, <1>6, BecomesKeeps
<1> QED BY <1>1, <1>4, <1>7, ProducerOnlyStep

(* The barrier cannot be sent: mu is given up and the producer fails. *)
LEMMA AfterBarrierFlushKeeps ==
    ASSUME ProducerInv,
           UNCHANGED <<setup, submitVars, outcome, workVars, call, barrier, callbacks, sessionVars>>,
           covered' \in [Flushes -> SUBSET Records], NEW f \in Flushes,
           \/ AfterBarrierFlush(f) /\ ~ Sending(batcher) /\ ~ batcher.closed
           \/ BarrierFails(f) /\ ~ Sending(batcher) /\ ~ batcher.closed
    PROVE  ProducerInv'
<1> USE InvFacts
<1>1. CASE BarrierFails(f)
    <2>1. /\ batcher' = Unlock(batcher) /\ ordered' = [ordered EXCEPT ![f] = "terminal"]
          /\ Becomes(RecordTerminalError(producer, ErrContext), closer)
        BY <1>1 DEF BarrierFails
    <2>2. SamePermits(producer, RecordTerminalError(producer, ErrContext))
        BY RecordTerminalErrorKeeps DEF Errs
    <2>3. /\ SamePermits(producer, producer') /\ closer' \in [Closers -> CloserStates]
          /\ \A x \in Closers : closer'[x] = "sealing" => closer[x] = "sealing"
        BY <2>1, <2>2, BecomesKeeps
    <2>4. BatcherOK(batcher') /\ BatcherFits(batcher', Entered) /\ batcher'.mu = Free
        BY <2>1, UnlockKeeps, FitsLock, UnlockFields
    <2>5. HolderOK' /\ SealingOK'
        BY <2>3, <2>4, HolderFree, HolderNames, SealingStays
    <2>6. FlushTypes'
        BY <2>1 DEF FlushTypes
    <2> QED BY <2>3, <2>4, <2>5, <2>6, StillStep
<1>2. CASE /\ batcher' = Lock(batcher, "barrierSend", f)
           /\ ordered' = [ordered EXCEPT ![f] = "locked"]
           /\ UNCHANGED <<producer, closer>>
    <2>1. [op |-> "barrierSend", who |-> f] \in Holders
        BY HolderNames
    <2>2. /\ batcher' \in BatcherType /\ batcher'.mu.op = "barrierSend" /\ ~ batcher'.closed
          /\ batcher'.chClosed = batcher.chClosed /\ batcher'.buffer = batcher.buffer
          /\ batcher'.timer = batcher.timer /\ batcher'.timerSeq = batcher.timerSeq
          /\ batcher'.scheduled = batcher.scheduled /\ ~ Sending(batcher')
        BY <1>2, <2>1, LockFields
    <2>3. BatcherOK(batcher')
        BY <2>2 DEF BatcherOK, LockOK, ClosedOK, TimerOK
    <2>4. BatcherFits(batcher', Entered)
        BY <1>2, <2>1, FitsLock
    <2>5. HolderOK' /\ SealingOK'
        BY <1>2, <2>2, HolderFree, SealingStays
    <2>6. FlushTypes'
        BY <1>2 DEF FlushTypes
    <2> QED BY <1>2, <2>3, <2>4, <2>5, <2>6, StillStep
<1> QED BY <1>1, <1>2 DEF AfterBarrierFlush

(* Flush takes mu for its barrier, and is refused or flushes               *)
(* (Batcher.flushBarrier).                                                 *)
LEMMA BarrierLocksKeeps ==
    ASSUME ProducerInv, UNCHANGED setup, NEW f \in Flushes, BarrierLocks(f)
    PROVE  ProducerInv'
<1> USE InvFacts
<1>1. /\ batcher.mu = Free /\ ~ Sending(batcher)
      /\ covered' = [covered EXCEPT ![f] = @ \cup RecordsOf(added)]
      /\ UNCHANGED <<submitVars, outcome, workVars, call, barrier, callbacks, sessionVars>>
    BY FreeIsIdle DEF BarrierLocks
<1>2. covered' \in [Flushes -> SUBSET Records]
    <2>1. RecordsOf(added) \in SUBSET Records
        BY DEF RecordsOf, SubmitTypes
    <2> QED BY <1>1, <2>1 DEF FlushTypes
<1>3. CASE ordered' = [ordered EXCEPT ![f] = "closed"] /\ UNCHANGED <<batcher, producer, closer>>
    <2>1. FlushTypes'
        BY <1>1, <1>2, <1>3 DEF FlushTypes
    <2> QED BY <1>1, <1>3, <2>1, ProducerOnlyStep
<1>4. CASE /\ ~ batcher.closed
           /\ batcher' \in {Lock(b, "barrier", f) : b \in FlushBegun(batcher)}
           /\ ordered' = [ordered EXCEPT ![f] = "locked"]
           /\ UNCHANGED <<producer, closer>>
    <2>1. PICK b \in FlushBegun(batcher) : batcher' = Lock(b, "barrier", f)
        BY <1>4
    <2>2. [op |-> "barrier", who |-> f] \in Holders
        BY HolderNames
    <2>3. BatcherOK(batcher') /\ b \in BatcherType
        BY <1>1, <1>4, <2>1, <2>2, FlushUnderLock
    <2>4. BatcherFits(batcher', Entered)
        BY <1>1, <2>1, <2>2, <2>3, FitsFlushBegun, FitsLock
    <2>5. HolderOK'
        BY <2>1, <2>2, <2>3, LockFields, HolderFree
    <2>6. SealingOK'
        BY <1>4, SealingStays
    <2>7. FlushTypes'
        BY <1>1, <1>2, <1>4 DEF FlushTypes
    <2> QED BY <1>1, <1>4, <2>3, <2>4, <2>5, <2>6, <2>7, StillStep
<1>5. CASE ~ batcher.closed /\ AfterBarrierFlush(f)
    BY <1>1, <1>2, <1>5, AfterBarrierFlushKeeps
<1> QED BY <1>3, <1>4, <1>5 DEF BarrierLocks

(* Flush goes on when the batch before its barrier is sent. *)
LEMMA BarrierFlushedKeeps ==
    ASSUME ProducerInv, UNCHANGED setup, NEW f \in Flushes, BarrierFlushed(f)
    PROVE  ProducerInv'
<1>1. /\ batcher.mu = [op |-> "barrier", who |-> f] /\ ~ Sending(batcher) /\ AfterBarrierFlush(f)
      /\ UNCHANGED <<submitVars, outcome, workVars, call, barrier, covered, callbacks, sessionVars>>
    BY DEF BarrierFlushed
<1>2. ~ batcher.closed
    BY <1>1, InvFacts, HolderNames DEF BatcherOK, ClosedOK
<1>3. covered' \in [Flushes -> SUBSET Records]
    BY <1>1, InvFacts DEF FlushTypes
<1> QED BY <1>1, <1>2, <1>3, AfterBarrierFlushKeeps

(* The barrier enters the channel and mu is given up, or the context       *)
(* ended.                                                                  *)
LEMMA BarrierSendsKeeps ==
    ASSUME ProducerInv, UNCHANGED setup, NEW f \in Flushes, BarrierSends(f)
    PROVE  ProducerInv'
<1> USE InvFacts
<1>1. /\ batcher.mu = [op |-> "barrierSend", who |-> f]
      /\ UNCHANGED <<submitVars, outcome, workVars, call, barrier, covered, callbacks, sessionVars>>
    BY DEF BarrierSends
<1>2. ~ batcher.closed /\ ~ Sending(batcher)
    BY <1>1, HolderNames DEF BatcherOK, ClosedOK, LockOK
<1>3. CASE BarrierFails(f)
    <2>1. covered' \in [Flushes -> SUBSET Records]
        BY <1>1 DEF FlushTypes
    <2> QED BY <1>1, <1>2, <1>3, <2>1, AfterBarrierFlushKeeps
<1>4. CASE /\ batcher' = [Unlock(batcher) EXCEPT !.ch = Append(@, [barrier |-> f])]
           /\ ordered' = [ordered EXCEPT ![f] = "nil"]
           /\ UNCHANGED <<producer, closer>>
    <2> DEFINE u == Unlock(batcher)
               o == [barrier |-> f]
               c == Append(u.ch, o)
    <2>1. BatcherOK(u) /\ BatcherFits(u, Entered) /\ u \in BatcherType /\ u.mu = Free
        BY <1>2, UnlockKeeps, FitsLock, UnlockFields
    <2>2. batcher' = [u EXCEPT !.ch = c]
        BY <1>4
    <2> HIDE DEF u
    <2>3. IsBarrier(o) /\ o \in Outputs /\ u.ch \in Seq(Outputs)
        BY <2>1, BatchShape DEF BatcherType
    <2> HIDE DEF o
    <2>4. c \in Seq(Outputs) /\ \A i \in DOMAIN c : c[i] = o \/ (i \in DOMAIN u.ch /\ c[i] = u.ch[i])
        BY <2>3
    <2> HIDE DEF c
    <2>5. /\ batcher' \in BatcherType /\ batcher'.mu = u.mu /\ batcher'.out = u.out
          /\ batcher'.buffer = u.buffer /\ batcher'.meta = u.meta
          /\ batcher'.timer = u.timer /\ batcher'.timerSeq = u.timerSeq
          /\ batcher'.scheduled = u.scheduled /\ batcher'.closed = u.closed
          /\ batcher'.ch = c /\ batcher'.chClosed = u.chClosed
        BY <2>1, <2>2, <2>4 DEF BatcherType
    <2>6. BatcherOK(batcher')
        BY <2>1, <2>5, SameControl
    <2>7. BatcherFits(batcher', Entered)
        BY <2>1, <2>3, <2>4, <2>5 DEF BatcherFits
    <2>8. HolderOK' /\ SealingOK'
        BY <1>2, <1>4, <2>1, <2>5, HolderFree, HolderNames, SealingStays
    <2>9. FlushTypes'
        BY <1>1, <1>4 DEF FlushTypes
    <2> QED BY <1>1, <1>4, <2>6, <2>7, <2>8, <2>9, StillStep
<1> QED BY <1>3, <1>4 DEF BarrierSends

(* A Flush returns, or its caller no longer waits for it. *)
LEMMA FlushReturnsKeeps ==
    ASSUME ProducerInv, UNCHANGED setup, NEW f \in Flushes, FlushReturns(f) \/ FlushAbandoned(f)
    PROVE  ProducerInv'
<1> USE InvFacts
<1>1. UNCHANGED <<batcher, producer, submitVars, outcome, workVars, ordered, barrier, covered,
                  closer, callbacks, sessionVars>>
    BY DEF FlushReturns, FlushAbandoned
<1>2. \E v \in {"ok", "failed", "closed", "terminal", "abandoned"} :
          call' = [call EXCEPT ![f] = v]
    BY DEF FlushReturns, FlushAbandoned
<1>3. FlushTypes'
    BY <1>1, <1>2 DEF FlushTypes
<1> QED BY <1>1, <1>3, ProducerOnlyStep

-----------------------------------------------------------------------------
(* Records are resolved.                                                   *)

LEMMA OutcomeShapes ==
    /\ Unresolved \in Outcomes
    /\ \A e \in Errs : Failed(e) \in Outcomes /\ Failed(e) # Unresolved /\ Failed(e).is = "failed"
    /\ \A n \in Nat : /\ Acked(n) \in Outcomes /\ Acked(n) # Unresolved
                      /\ Acked(n).is = "acked" /\ Acked(n).seqNum = n
<1>1. Unresolved \in Outcomes
    BY DEF Outcomes
<1>2. \A e \in Errs : Failed(e) \in Outcomes
    BY DEF Outcomes
<1>3. \A n \in Nat : Acked(n) \in [is : {"acked"}, seqNum : Nat]
    BY DEF Acked
<1>4. \A e \in Errs : Failed(e).is = "failed"
    BY DEF Failed
<1>5. \A n \in Nat : Acked(n).is = "acked" /\ Acked(n).seqNum = n
    BY DEF Acked
<1>6. Unresolved.is = "none"
    BY DEF Unresolved
<1> QED BY <1>1, <1>2, <1>3, <1>4, <1>5, <1>6 DEF Outcomes

(* recordMeta.resolve: every record of the batch gets its result unless it *)
(* has one.                                                                *)
LEMMA ResolvedFields ==
    ASSUME outcome \in [Records -> Outcomes], NEW meta, NEW results,
           \A k \in DOMAIN meta : results[k] \in Outcomes /\ results[k] # Unresolved
    PROVE  LET new == Resolved(meta, results)
           IN  /\ new \in [Records -> Outcomes]
               /\ \A r \in Records :
                     /\ new[r] = Unresolved <=>
                           outcome[r] = Unresolved /\ r \notin MetaRecords(meta)
                     /\ \/ new[r] = outcome[r]
                        \/ \E k \in DOMAIN meta : meta[k].record = r /\ new[r] = results[k]
<1> DEFINE new == Resolved(meta, results)
           at(r) == CHOOSE i \in DOMAIN meta : meta[i].record = r
<1>1. \A r \in Records : new[r] = IF outcome[r] = Unresolved /\ r \in MetaRecords(meta)
                                  THEN results[at(r)] ELSE outcome[r]
    BY DEF Resolved
<1>2. \A r \in MetaRecords(meta) : at(r) \in DOMAIN meta /\ meta[at(r)].record = r
    BY DEF MetaRecords
<1>3. new = [r \in Records |-> new[r]]
    BY DEF Resolved
<1> HIDE DEF new, at
<1>4. \A r \in Records :
          /\ new[r] \in Outcomes
          /\ new[r] = Unresolved <=> outcome[r] = Unresolved /\ r \notin MetaRecords(meta)
          /\ \/ new[r] = outcome[r]
             \/ \E k \in DOMAIN meta : meta[k].record = r /\ new[r] = results[k]
    BY <1>1, <1>2
<1>5. new \in [Records -> Outcomes]
    BY <1>3, <1>4
<1> QED BY <1>4, <1>5 DEF new

(* Every outcome is the old one or the result of the record's place. *)
ResultsGiven(meta, results) ==
    \A r \in Records :
        \/ outcome'[r] = outcome[r]
        \/ \E k \in DOMAIN meta : meta[k].record = r /\ outcome'[r] = results[k]

(* A batch is resolved and its permits are given back, each once. *)
LEMMA ResolveStep ==
    ASSUME ProducerInv, UNCHANGED <<setup, pc>>, NEW p, SamePermits(producer, p),
           NEW records, NEW meta, Fits(records, meta, Entered), NEW results,
           \A k \in DOMAIN meta : results[k] \in Outcomes /\ results[k] # Unresolved,
           producer' = ReleasePermits(p, MetaRecords(meta)),
           outcome' = Resolved(meta, results)
    PROVE  /\ producer' \in ProducerType /\ producer'.terminalErr = p.terminalErr
           /\ outcome' \in [Records -> Outcomes]
           /\ PermitsOK'
           /\ ResultsGiven(meta, results)
<1> USE InvFacts
<1>1. outcome \in [Records -> Outcomes]
    BY TypeParts
<1>2. /\ outcome' \in [Records -> Outcomes]
      /\ \A r \in Records :
            /\ outcome'[r] = Unresolved <=> outcome[r] = Unresolved /\ r \notin MetaRecords(meta)
            /\ \/ outcome'[r] = outcome[r]
               \/ \E k \in DOMAIN meta : meta[k].record = r /\ outcome'[r] = results[k]
    BY <1>1, ResolvedFields
<1>3. p.permits = Held /\ p.pool.bytes = BytesOf(p.permits) /\ p \in ProducerType
    BY DEF SamePermits
<1>4. /\ producer' \in ProducerType /\ producer'.permits = Held \ MetaRecords(meta)
      /\ producer'.pool.bytes = BytesOf(Held \ MetaRecords(meta))
      /\ producer'.terminalErr = p.terminalErr
    BY <1>3, ReleasePermitsKeeps
<1>5. Entered' = Entered
    BY DEF Entered
<1>6. Held' = Held \ MetaRecords(meta)
    BY <1>2, BatcherAssumption DEF Held, Unresolved
<1>7. \A r \in Records : outcome'[r] # Unresolved => r \in Entered'
    BY <1>2, <1>5 DEF PermitsOK, MetaRecords, Fits
<1>8. PermitsOK'
    BY <1>4, <1>6, <1>7 DEF PermitsOK, BytesOf, Unresolved
<1> QED BY <1>2, <1>4, <1>8 DEF ResultsGiven

(* dispatchBatchError does the same, having noted the error. *)
LEMMA DispatchedStep ==
    ASSUME NEW p \in ProducerType, NEW meta, NEW err \in Errs
    PROVE  \E q : /\ SamePermits(p, q) /\ q.terminalErr = p.terminalErr
                  /\ DispatchedError(p, meta, err) = ReleasePermits(q, MetaRecords(meta))
<1> DEFINE e == IF p.appendErr = NoErr THEN err ELSE p.appendErr
           q == [p EXCEPT !.appendErr = e]
<1>1. e \in Errs \cup {NoErr}
    BY DEF ProducerType
<1>2. DispatchedError(p, meta, err) = ReleasePermits(q, MetaRecords(meta))
    BY DEF DispatchedError, ProducerType
<1> HIDE DEF e
<1>3. SamePermits(p, q) /\ q.terminalErr = p.terminalErr
    BY <1>1 DEF SamePermits, ProducerType
<1> HIDE DEF q
<1> QED BY <1>2, <1>3

(* Failing a batch makes no acknowledgement. *)
LEMMA FailedStep ==
    ASSUME ProducerInv, UNCHANGED <<setup, pc, log>>, NEW p, SamePermits(producer, p),
           NEW records, NEW meta, Fits(records, meta, Entered), NEW err \in Errs,
           producer' = ReleasePermits(p, MetaRecords(meta)),
           outcome' = Resolved(meta, AllFailed(meta, err))
    PROVE  /\ producer' \in ProducerType /\ producer'.terminalErr = p.terminalErr
           /\ outcome' \in [Records -> Outcomes]
           /\ PermitsOK' /\ SeqNumExact'
<1> DEFINE results == AllFailed(meta, err)
<1>1. \A k \in DOMAIN meta : results[k] = Failed(err)
    BY DEF AllFailed
<1>2. \A k \in DOMAIN meta : results[k] \in Outcomes /\ results[k] # Unresolved
    BY <1>1, OutcomeShapes
<1> HIDE DEF results
<1>3. /\ producer' \in ProducerType /\ producer'.terminalErr = p.terminalErr
      /\ outcome' \in [Records -> Outcomes]
      /\ PermitsOK' /\ ResultsGiven(meta, results)
    BY <1>2, ResolveStep DEF results
<1>4. \A r \in Records : outcome'[r] = outcome[r] \/ outcome'[r].is # "acked"
    BY <1>1, <1>3, OutcomeShapes DEF ResultsGiven
<1>5. SeqNumExact'
    BY <1>4, BatcherAssumption DEF ProducerInv, SeqNumExact, NoneTwice
<1> QED BY <1>3, <1>5

-----------------------------------------------------------------------------
(* Steps of the consumer, of the waiters and of the session, which leave   *)
(* every Submit where it is.                                               *)
LEMMA BusyStep ==
    ASSUME ProducerInv, UNCHANGED <<setup, submitVars, callbacks>>,
           producer' \in ProducerType, outcome' \in [Records -> Outcomes],
           WorkTypes', FlushTypes', SessionTypes', closer' \in [Closers -> CloserStates],
           \A w \in Closers : closer'[w] = "sealing" => closer[w] = "sealing",
           BatcherOK(batcher'), BatcherFits(batcher', Entered),
           batcher'.closed = batcher.closed, batcher'.mu = batcher.mu,
           Fits(consumer'.batch.records, consumer'.batch.meta, Entered),
           \A i \in DOMAIN tickets' :
               Fits(tickets'[i].batch.records, tickets'[i].batch.meta, Entered),
           ConsumerOK', PermitsOK', TicketsOK', SeqNumExact'
    PROVE  ProducerInv'
<1> USE InvFacts
<1>1. UNCHANGED <<pc, added>>
    BY DEF submitVars
<1>2. SubmitTypes' /\ WatchedOK' /\ Entered' = Entered
    BY <1>1 DEF SubmitTypes, WatchedOK, Entered
<1>3. TypeOK'
    BY <1>2, TypePartsPrime DEF BatcherOK
<1>4. BatchesFit'
    BY <1>2, FitsPrime
<1>5. HolderOK' /\ SealingOK'
    BY <1>1, HolderSame, SealingStays
<1>6. (setup \in Setups)'
    BY DEF ProducerInv
<1> QED BY <1>2, <1>3, <1>4, <1>5, <1>6, BatcherOKPrime DEF ProducerInv

(* What the invariant says of the consumer and the session. *)
LEMMA InvSession ==
    ASSUME ProducerInv
    PROVE  /\ WorkTypes /\ SessionTypes /\ outcome \in [Records -> Outcomes]
           /\ Fits(consumer.batch.records, consumer.batch.meta, Entered)
           /\ \A i \in DOMAIN tickets :
                 Fits(tickets[i].batch.records, tickets[i].batch.meta, Entered)
           /\ ConsumerOK /\ TicketsOK /\ SeqNumExact
<1>1. TypeOK
    BY DEF ProducerInv
<1> QED BY <1>1, TypeParts DEF ProducerInv, BatchesFit

(* The consumer waits for the next batch or is at a barrier: it keeps none. *)
LEMMA ReceiveAtKeeps ==
    ASSUME NEW at \in {"receive", "submitted", "failing", "barrier", "done"},
           NEW batch \in Batch, NEW who \in Flushes \cup {"nobody"}, ReceiveAt(at, batch, who)
    PROVE  /\ consumer' \in [at : {"receive", "submitted", "failing", "barrier", "done"},
                             batch : Batch, who : Flushes \cup {"nobody"}]
           /\ consumer'.at = at /\ consumer'.batch = batch
BY DEF ReceiveAt

(* A waiting record is told of the failure, the permits are the others'. *)
LEMMA DropBatchKeeps ==
    ASSUME ProducerInv, UNCHANGED setup, DropBatch
    PROVE  ProducerInv'
<1> USE InvFacts, InvSession
<1>1. /\ Sending(batcher) /\ batcher' = Dropped(batcher)
      /\ producer' = ReleasePermits(producer, MetaRecords(batcher.out.meta))
      /\ outcome' = Resolved(batcher.out.meta, AllFailed(batcher.out.meta, ErrContext))
      /\ UNCHANGED <<submitVars, workVars, flushVars, closer, callbacks, sessionVars>>
    BY DEF DropBatch
<1>2. UNCHANGED <<pc, added, consumer, ackWaiters, tickets, log, sessionOpen>>
    BY <1>1 DEF submitVars, workVars, sessionVars
<1>3. Fits(batcher.out.records, batcher.out.meta, Entered) /\ ErrContext \in Errs
    BY DEF BatcherFits, Errs
<1>4. /\ producer' \in ProducerType /\ producer'.terminalErr = producer.terminalErr
      /\ outcome' \in [Records -> Outcomes] /\ PermitsOK' /\ SeqNumExact'
    BY <1>1, <1>2, <1>3, FailedStep
<1>5. /\ BatcherOK(batcher') /\ batcher'.closed = batcher.closed
      /\ batcher'.mu \in {batcher.mu, Free} /\ (batcher.closed => batcher'.mu = batcher.mu)
      /\ batcher'.ch = batcher.ch /\ batcher'.out = NoBatch
      /\ batcher'.buffer = batcher.buffer /\ batcher'.meta = batcher.meta
    BY <1>1, DroppedKeeps
<1>6. BatcherFits(batcher', Entered)
    BY <1>5, FitsEmpty DEF BatcherFits
<1>7. Entered' = Entered
    BY <1>2 DEF Entered
<1>8. SubmitTypes' /\ WatchedOK' /\ WorkTypes' /\ FlushTypes' /\ SessionTypes'
    BY <1>1, <1>2 DEF SubmitTypes, WatchedOK, WorkTypes, FlushTypes, flushVars, SessionTypes
<1>9. TypeOK'
    BY <1>1, <1>4, <1>5, <1>8, TypePartsPrime DEF BatcherOK
<1>10. BatchesFit'
    BY <1>2, <1>6, <1>7, FitsPrime
<1>11. HolderOK'
    BY <1>2, <1>5, HolderSame, HolderFree, HolderNames
<1>12. SealingOK'
    BY <1>1, <1>5, SealingStays
<1>13. ConsumerOK' /\ TicketsOK'
    BY <1>2, <1>4 DEF ConsumerOK, TicketsOK, NoneTwice
<1>14. (setup \in Setups)'
    BY DEF ProducerInv
<1> QED BY <1>4, <1>5, <1>8, <1>9, <1>10, <1>11, <1>12, <1>13, <1>14, BatcherOKPrime
        DEF ProducerInv

(* The consumer takes the first output. *)
LEMMA TakenOutput ==
    ASSUME ProducerInv, batcher.ch # <<>>, batcher' = [batcher EXCEPT !.ch = Tail(@)]
    PROVE  /\ BatcherOK(batcher') /\ BatcherFits(batcher', Entered)
           /\ batcher'.closed = batcher.closed /\ batcher'.mu = batcher.mu
           /\ Head(batcher.ch) \in Outputs
           /\ ~ IsBarrier(Head(batcher.ch)) =>
                 /\ Head(batcher.ch) \in Batch
                 /\ Fits(Head(batcher.ch).records, Head(batcher.ch).meta, Entered)
<1> USE InvFacts
<1>1. batcher.ch \in Seq(Outputs)
    BY DEF BatcherType
<1> DEFINE c == Tail(batcher.ch)
<1>2. /\ c \in Seq(Outputs) /\ Head(batcher.ch) \in Outputs
      /\ Head(batcher.ch) = batcher.ch[1] /\ 1 \in DOMAIN batcher.ch
      /\ \A i \in DOMAIN c : i + 1 \in DOMAIN batcher.ch /\ c[i] = batcher.ch[i + 1]
    BY <1>1
<1> HIDE DEF c
<1>3. batcher' = [batcher EXCEPT !.ch = c]
    BY DEF c
<1>4. /\ batcher' \in BatcherType /\ batcher'.mu = batcher.mu /\ batcher'.out = batcher.out
      /\ batcher'.buffer = batcher.buffer /\ batcher'.meta = batcher.meta
      /\ batcher'.timer = batcher.timer /\ batcher'.timerSeq = batcher.timerSeq
      /\ batcher'.scheduled = batcher.scheduled /\ batcher'.closed = batcher.closed
      /\ batcher'.ch = c /\ batcher'.chClosed = batcher.chClosed
    BY <1>2, <1>3 DEF BatcherType
<1>5. BatcherOK(batcher')
    BY <1>4, SameControl
<1>6. BatcherFits(batcher', Entered)
    BY <1>2, <1>4 DEF BatcherFits
<1>7. ~ IsBarrier(Head(batcher.ch)) =>
          /\ Head(batcher.ch) \in Batch
          /\ Fits(Head(batcher.ch).records, Head(batcher.ch).meta, Entered)
    BY <1>2, BatchShape DEF BatcherFits
<1> QED BY <1>2, <1>4, <1>5, <1>6, <1>7

(* The consumer takes the next output: a batch to submit or a barrier. *)
LEMMA ReceiveKeeps ==
    ASSUME ProducerInv, UNCHANGED setup, Receive
    PROVE  ProducerInv'
<1> USE InvFacts, InvSession
<1> DEFINE o == Head(batcher.ch)
<1>1. /\ consumer.at = "receive" /\ batcher.ch # <<>>
      /\ batcher' = [batcher EXCEPT !.ch = Tail(@)]
      /\ UNCHANGED <<submitVars, ackWaiters, flushVars, callbacks>>
    BY DEF Receive
<1>2. /\ BatcherOK(batcher') /\ BatcherFits(batcher', Entered)
      /\ batcher'.closed = batcher.closed /\ batcher'.mu = batcher.mu /\ o \in Outputs
      /\ ~ IsBarrier(o) => o \in Batch /\ Fits(o.records, o.meta, Entered)
    BY <1>1, TakenOutput
<1>3. FlushTypes' /\ UNCHANGED pc
    BY <1>1 DEF FlushTypes, flushVars, submitVars
<1>4. CASE /\ IsBarrier(o) /\ ReceiveAt("barrier", NoBatch, o.barrier)
           /\ UNCHANGED <<producer, outcome, closer, sessionVars>>
    <2>1. o.barrier \in Flushes /\ NoBatch \in Batch
        BY <1>2, <1>4, BatchShape
    <2> HIDE DEF o
    <2>2. /\ consumer' \in [at : {"receive", "submitted", "failing", "barrier", "done"},
                            batch : Batch, who : Flushes \cup {"nobody"}]
          /\ consumer'.at = "barrier" /\ consumer'.batch = NoBatch
        BY <1>4, <2>1, ReceiveAtKeeps
    <2>3. UNCHANGED <<tickets, log, sessionOpen>>
        BY <1>4 DEF sessionVars
    <2>4. WorkTypes' /\ SessionTypes' /\ ConsumerOK' /\ TicketsOK' /\ SeqNumExact'
        BY <1>1, <1>4, <2>2, <2>3 DEF WorkTypes, SessionTypes, ConsumerOK, TicketsOK,
                                      SeqNumExact, NoneTwice
    <2>5. Held' = Held /\ Entered' = Entered
        BY <1>3, <1>4, SamePc
    <2>6. PermitsOK'
        BY <1>4, <2>5, PermitsStay
    <2>7. Fits(consumer'.batch.records, consumer'.batch.meta, Entered)
        BY <2>2, FitsEmpty
    <2> QED BY <1>1, <1>2, <1>3, <1>4, <2>3, <2>4, <2>6, <2>7, BusyStep
<1>5. CASE /\ ~ IsBarrier(o) /\ producer.terminalErr # NoErr
           /\ producer' = DispatchedError(producer, o.meta, producer.terminalErr)
           /\ outcome' = Resolved(o.meta, AllFailed(o.meta, producer.terminalErr))
           /\ UNCHANGED <<consumer, closer, sessionVars>>
    <2> HIDE DEF o
    <2>1. producer.terminalErr \in Errs
        BY <1>5 DEF ProducerType
    <2>2. PICK q : /\ SamePermits(producer, q) /\ q.terminalErr = producer.terminalErr
                   /\ producer' = ReleasePermits(q, MetaRecords(o.meta))
        BY <1>5, <2>1, DispatchedStep
    <2>3. UNCHANGED <<tickets, log, sessionOpen>>
        BY <1>5 DEF sessionVars
    <2>4. /\ producer' \in ProducerType /\ producer'.terminalErr = q.terminalErr
          /\ outcome' \in [Records -> Outcomes] /\ PermitsOK' /\ SeqNumExact'
        BY <1>2, <1>3, <1>5, <2>1, <2>2, <2>3, FailedStep
    <2>5. WorkTypes' /\ SessionTypes' /\ ConsumerOK' /\ TicketsOK'
        BY <1>1, <1>5, <2>3, <2>2, <2>4 DEF WorkTypes, SessionTypes, ConsumerOK, TicketsOK, NoneTwice
    <2> QED BY <1>1, <1>2, <1>3, <1>5, <2>3, <2>4, <2>5, BusyStep
<1>6. CASE /\ ~ IsBarrier(o) /\ Becomes(RecordTerminalError(producer, ErrAppend), closer)
           /\ ReceiveAt("failing", o, "nobody") /\ UNCHANGED <<outcome, sessionVars>>
    <2> HIDE DEF o
    <2>1. /\ SamePermits(producer, RecordTerminalError(producer, ErrAppend))
          /\ RecordTerminalError(producer, ErrAppend).terminalErr \in Errs
        BY RecordTerminalErrorKeeps DEF Errs
    <2>2. /\ SamePermits(producer, producer') /\ producer'.terminalErr \in Errs
          /\ closer' \in [Closers -> CloserStates]
          /\ \A x \in Closers : closer'[x] = "sealing" => closer[x] = "sealing"
        BY <1>6, <2>1, BecomesKeeps
    <2>3. producer'.terminalErr # NoErr
        BY <2>2 DEF Errs, NoErr, ErrSessionClosed, ErrContext, ErrAppend
    <2>4. /\ consumer' \in [at : {"receive", "submitted", "failing", "barrier", "done"},
                            batch : Batch, who : Flushes \cup {"nobody"}]
          /\ consumer'.at = "failing" /\ consumer'.batch = o
        BY <1>2, <1>6, ReceiveAtKeeps
    <2>5. UNCHANGED <<tickets, log, sessionOpen>>
        BY <1>6 DEF sessionVars
    <2>6. WorkTypes' /\ SessionTypes' /\ ConsumerOK' /\ TicketsOK' /\ SeqNumExact'
        BY <1>1, <1>6, <2>3, <2>4, <2>5
           DEF WorkTypes, SessionTypes, ConsumerOK, TicketsOK, SeqNumExact, NoneTwice
    <2>7. Held' = Held /\ Entered' = Entered
        BY <1>3, <1>6, SamePc
    <2>8. PermitsOK'
        BY <1>6, <2>2, <2>7, PermitsStay
    <2>9. Fits(consumer'.batch.records, consumer'.batch.meta, Entered)
        BY <1>2, <1>6, <2>4
    <2> QED BY <1>1, <1>2, <1>3, <1>6, <2>2, <2>5, <2>6, <2>8, <2>9, BusyStep DEF SamePermits
<1>7. CASE /\ ~ IsBarrier(o)
           /\ tickets' = Append(tickets, [batch |-> o, start |-> 0, is |-> "submitted"])
           /\ ReceiveAt("submitted", o, "nobody")
           /\ UNCHANGED <<producer, outcome, closer, log, sessionOpen>>
    <2> HIDE DEF o
    <2> DEFINE t == [batch |-> o, start |-> 0, is |-> "submitted"]
    <2>1. t \in Ticket /\ t.batch = o /\ t.is = "submitted"
        BY <1>2, <1>7 DEF Ticket
    <2>2. tickets' = Append(tickets, t) /\ tickets \in Seq(Ticket)
        BY <1>7 DEF SessionTypes
    <2> HIDE DEF t
    <2>3. /\ tickets' \in Seq(Ticket) /\ tickets' # <<>> /\ DOMAIN tickets \subseteq DOMAIN tickets'
          /\ \A i \in DOMAIN tickets' :
                tickets'[i] = t \/ (i \in DOMAIN tickets /\ tickets'[i] = tickets[i])
        BY <2>1, <2>2
    <2>4. /\ consumer' \in [at : {"receive", "submitted", "failing", "barrier", "done"},
                            batch : Batch, who : Flushes \cup {"nobody"}]
          /\ consumer'.at = "submitted" /\ consumer'.batch = o
        BY <1>2, <1>7, ReceiveAtKeeps
    <2>5. WorkTypes' /\ SessionTypes'
        BY <1>1, <1>7, <2>3, <2>4 DEF WorkTypes, SessionTypes
    <2>6. ConsumerOK' /\ SeqNumExact'
        BY <1>7, <2>3, <2>4 DEF ConsumerOK, SeqNumExact, NoneTwice
    <2>7. TicketsOK'
        BY <1>7, <2>1, <2>3 DEF TicketsOK, NoneTwice
    <2>8. Held' = Held /\ Entered' = Entered
        BY <1>3, <1>7, SamePc
    <2>9. PermitsOK'
        BY <1>7, <2>8, PermitsStay
    <2>10. /\ Fits(consumer'.batch.records, consumer'.batch.meta, Entered)
           /\ \A i \in DOMAIN tickets' :
                 Fits(tickets'[i].batch.records, tickets'[i].batch.meta, Entered)
        BY <1>2, <1>7, <2>1, <2>3, <2>4
    <2> QED BY <1>1, <1>2, <1>3, <1>7, <2>5, <2>6, <2>7, <2>9, <2>10, BusyStep
<1> QED BY <1>4, <1>5, <1>6, <1>7 DEF Receive

(* The consumer gets the ticket of its batch, or fails it with the error   *)
(* of the session.                                                         *)
LEMMA AwaitSubmissionKeeps ==
    ASSUME ProducerInv, UNCHANGED setup, AwaitSubmission
    PROVE  ProducerInv'
<1> USE InvFacts, InvSession
<1>1. /\ consumer.at = "submitted"
      /\ UNCHANGED <<batcher, submitVars, outcome, flushVars, callbacks, sessionVars>>
    BY DEF AwaitSubmission
<1>2. UNCHANGED <<pc, tickets, log, sessionOpen>>
    BY <1>1 DEF submitVars, sessionVars
<1>3. FlushTypes' /\ SessionTypes' /\ TicketsOK' /\ SeqNumExact'
    BY <1>1, <1>2 DEF FlushTypes, flushVars, SessionTypes, TicketsOK, SeqNumExact, NoneTwice
<1>4. Held' = Held /\ Entered' = Entered
    BY <1>1, <1>2, SamePc
<1>5. CASE /\ ackWaiters' = ackWaiters \cup {Len(tickets)} /\ Receiving
           /\ UNCHANGED <<producer, closer>>
    <2>1. /\ consumer' \in [at : {"receive", "submitted", "failing", "barrier", "done"},
                            batch : Batch, who : Flushes \cup {"nobody"}]
          /\ consumer'.at = "receive" /\ consumer'.batch = NoBatch
        BY <1>5, ReceiveAtKeeps, BatchShape DEF Receiving
    <2>2. Len(tickets) \in DOMAIN tickets
        BY <1>1 DEF ConsumerOK, SessionTypes
    <2>3. WorkTypes' /\ ConsumerOK'
        BY <1>2, <1>5, <2>1, <2>2 DEF WorkTypes, ConsumerOK
    <2>4. PermitsOK'
        BY <1>1, <1>4, <1>5, PermitsStay
    <2>5. Fits(consumer'.batch.records, consumer'.batch.meta, Entered)
        BY <2>1, FitsEmpty
    <2> QED BY <1>1, <1>2, <1>3, <1>5, <2>3, <2>4, <2>5, BusyStep
<1>6. ASSUME NEW err \in {ErrAppend, ErrContext},
             Becomes(RecordTerminalError(producer, err), closer),
             consumer' = [consumer EXCEPT !.at = "failing"], UNCHANGED ackWaiters
      PROVE  ProducerInv'
    <2>1. /\ SamePermits(producer, RecordTerminalError(producer, err))
          /\ RecordTerminalError(producer, err).terminalErr \in Errs
        BY RecordTerminalErrorKeeps DEF Errs
    <2>2. /\ SamePermits(producer, producer') /\ producer'.terminalErr \in Errs
          /\ closer' \in [Closers -> CloserStates]
          /\ \A x \in Closers : closer'[x] = "sealing" => closer[x] = "sealing"
        BY <1>6, <2>1, BecomesKeeps
    <2>3. producer'.terminalErr # NoErr
        BY <2>2 DEF Errs, NoErr, ErrSessionClosed, ErrContext, ErrAppend
    <2>4. WorkTypes' /\ consumer'.batch = consumer.batch
        BY <1>2, <1>6 DEF WorkTypes
    <2>5. ConsumerOK'
        BY <1>6, <2>3 DEF ConsumerOK, WorkTypes
    <2>6. PermitsOK'
        BY <1>1, <1>4, <2>2, PermitsStay
    <2> QED BY <1>1, <1>2, <1>3, <2>2, <2>4, <2>5, <2>6, BusyStep DEF SamePermits
<1> QED BY <1>5, <1>6 DEF AwaitSubmission

(* After a terminal error the consumer fails a batch it received. *)
LEMMA FailBatchKeeps ==
    ASSUME ProducerInv, UNCHANGED setup, FailBatch
    PROVE  ProducerInv'
<1> USE InvFacts, InvSession
<1> DEFINE meta == consumer.batch.meta
<1>1. /\ consumer.at = "failing"
      /\ producer' = DispatchedError(producer, meta, producer.terminalErr)
      /\ outcome' = Resolved(meta, AllFailed(meta, producer.terminalErr))
      /\ Receiving
      /\ UNCHANGED <<batcher, submitVars, ackWaiters, flushVars, closer, callbacks, sessionVars>>
    BY DEF FailBatch
<1>2. UNCHANGED <<pc, tickets, log, sessionOpen>>
    BY <1>1 DEF submitVars, sessionVars
<1>3. producer.terminalErr \in Errs
    BY <1>1 DEF ConsumerOK, ProducerType
<1>4. Fits(consumer.batch.records, meta, Entered)
    OBVIOUS
<1> HIDE DEF meta
<1>5. PICK q : /\ SamePermits(producer, q) /\ q.terminalErr = producer.terminalErr
               /\ producer' = ReleasePermits(q, MetaRecords(meta))
    BY <1>1, <1>3, DispatchedStep
<1>6. /\ producer' \in ProducerType /\ producer'.terminalErr = q.terminalErr
      /\ outcome' \in [Records -> Outcomes] /\ PermitsOK' /\ SeqNumExact'
    BY <1>1, <1>2, <1>3, <1>4, <1>5, FailedStep
<1>7. /\ consumer' \in [at : {"receive", "submitted", "failing", "barrier", "done"},
                        batch : Batch, who : Flushes \cup {"nobody"}]
      /\ consumer'.at = "receive" /\ consumer'.batch = NoBatch
    BY <1>1, ReceiveAtKeeps, BatchShape DEF Receiving
<1>8. WorkTypes' /\ SessionTypes' /\ ConsumerOK' /\ TicketsOK' /\ FlushTypes'
    BY <1>1, <1>2, <1>7
       DEF WorkTypes, SessionTypes, ConsumerOK, TicketsOK, NoneTwice, FlushTypes, flushVars
<1>9. Fits(consumer'.batch.records, consumer'.batch.meta, Entered)
    BY <1>7, FitsEmpty
<1> QED BY <1>1, <1>2, <1>6, <1>8, <1>9, BusyStep

(* The consumer reaches a barrier or the end of the channel. *)
LEMMA ConsumerIdles ==
    ASSUME ProducerInv, UNCHANGED setup, ReachBarrier \/ ConsumerDrains
    PROVE  ProducerInv'
<1> USE InvFacts, InvSession
<1>1. UNCHANGED <<batcher, producer, submitVars, outcome, ackWaiters, call, ordered, covered,
                  closer, callbacks, sessionVars>>
    BY DEF ReachBarrier, ConsumerDrains, flushVars
<1>2. UNCHANGED <<pc, tickets, log, sessionOpen>>
    BY <1>1 DEF submitVars, sessionVars
<1>3. FlushTypes'
    <2>1. producer.appendErr \in Errs \cup {NoErr, "none"}
        BY DEF ProducerType
    <2>2. barrier' \in [Flushes -> Errs \cup {NoErr, "none"}]
        BY <2>1 DEF ReachBarrier, ConsumerDrains, flushVars, FlushTypes
    <2> QED BY <1>1, <2>2 DEF FlushTypes
<1>4. \E at \in {"receive", "done"} : ReceiveAt(at, NoBatch, "nobody")
    BY DEF ReachBarrier, ConsumerDrains, Receiving
<1>5. /\ consumer' \in [at : {"receive", "submitted", "failing", "barrier", "done"},
                        batch : Batch, who : Flushes \cup {"nobody"}]
      /\ consumer'.at \in {"receive", "done"} /\ consumer'.batch = NoBatch
    BY <1>4, ReceiveAtKeeps, BatchShape
<1>6. WorkTypes' /\ SessionTypes' /\ ConsumerOK' /\ TicketsOK' /\ SeqNumExact'
    BY <1>1, <1>2, <1>5 DEF WorkTypes, SessionTypes, ConsumerOK, TicketsOK, SeqNumExact, NoneTwice
<1>7. Held' = Held /\ Entered' = Entered
    BY <1>1, <1>2, SamePc
<1>8. PermitsOK'
    BY <1>1, <1>7, PermitsStay
<1>9. Fits(consumer'.batch.records, consumer'.batch.meta, Entered)
    BY <1>5, FitsEmpty
<1> QED BY <1>1, <1>2, <1>3, <1>6, <1>8, <1>9, BusyStep

(* The acknowledgement of a record names its position. *)
LEMMA AckedStep ==
    ASSUME ProducerInv, UNCHANGED <<setup, pc, log>>, NEW i \in DOMAIN tickets,
           tickets[i].is = "acked", NEW meta, meta = tickets[i].batch.meta,
           producer' = ReleasePermits(producer, MetaRecords(meta)),
           outcome' = Resolved(meta, [k \in DOMAIN meta |-> IndexedAck(tickets[i], meta[k])])
    PROVE  /\ producer' \in ProducerType /\ producer'.terminalErr = producer.terminalErr
           /\ outcome' \in [Records -> Outcomes]
           /\ PermitsOK' /\ SeqNumExact'
<1> USE InvFacts, InvSession
<1> DEFINE results == [k \in DOMAIN meta |-> IndexedAck(tickets[i], meta[k])]
           recs == tickets[i].batch.records
<1>1. tickets[i] \in Ticket
    BY DEF SessionTypes
<1>2. meta \in Seq(Metas) /\ recs \in Seq(Records) /\ tickets[i].start \in Nat
    BY <1>1 DEF Ticket, Batch
<1>3. \A k \in DOMAIN meta : meta[k] \in Metas
    BY <1>2
<1>4. \A k \in DOMAIN meta : meta[k].index \in Nat /\ tickets[i].start + meta[k].index \in Nat
    BY <1>2, <1>3 DEF Metas
<1>5. \A k \in DOMAIN meta : results[k] = Acked(tickets[i].start + meta[k].index)
    BY DEF IndexedAck
<1> HIDE DEF results
<1>6. \A k \in DOMAIN meta : results[k] \in Outcomes /\ results[k] # Unresolved
    <2> SUFFICES ASSUME NEW k \in DOMAIN meta
                 PROVE  results[k] \in Outcomes /\ results[k] # Unresolved
        OBVIOUS
    <2> DEFINE n == tickets[i].start + meta[k].index
    <2>1. n \in Nat /\ results[k] = Acked(n)
        BY <1>4, <1>5
    <2> HIDE DEF n
    <2> QED BY <2>1, OutcomeShapes
<1>7. Fits(recs, meta, Entered) /\ UNCHANGED <<setup, pc>> /\ SamePermits(producer, producer)
    OBVIOUS
<1> HIDE DEF recs
<1>8. /\ producer' \in ProducerType /\ producer'.terminalErr = producer.terminalErr
      /\ outcome' \in [Records -> Outcomes]
      /\ PermitsOK' /\ ResultsGiven(meta, results)
    <2>1. outcome' = Resolved(meta, results)
        BY DEF results
    <2>2. PICK p, records : /\ p = producer /\ records = recs
                            /\ SamePermits(producer, p) /\ Fits(records, meta, Entered)
                            /\ producer' = ReleasePermits(p, MetaRecords(meta))
        BY <1>7
    <2> HIDE InvFacts, InvSession
    <2>3. UNCHANGED <<setup, pc>>
        BY <1>7
    <2>4. /\ producer' \in ProducerType /\ producer'.terminalErr = p.terminalErr
          /\ outcome' \in [Records -> Outcomes]
          /\ PermitsOK' /\ ResultsGiven(meta, results)
        BY <1>6, <2>1, <2>2, <2>3, ResolveStep
    <2> QED BY <2>2, <2>4
<1>9. ASSUME NoneTwice, NEW k \in DOMAIN meta
      PROVE  /\ tickets[i].start + meta[k].index < Len(log)
             /\ log[tickets[i].start + meta[k].index + 1] = meta[k].record
    <2> DEFINE n == meta[k].index
    <2>1. n \in Nat /\ n < Len(recs) /\ recs[n + 1] = meta[k].record
        BY <1>4, <1>7 DEF Fits, recs
    <2>2. n + 1 \in DOMAIN recs
        BY <1>2, <2>1
    <2>3. /\ tickets[i].start + (n + 1) <= Len(log)
          /\ log[tickets[i].start + (n + 1)] = recs[n + 1]
        BY <1>9, <2>2 DEF TicketsOK, recs
    <2> DEFINE m == tickets[i].start
    <2>4. Len(log) \in Nat /\ m \in Nat
        BY <1>2 DEF SessionTypes
    <2> HIDE DEF n, m
    <2>5. m + (n + 1) = m + n + 1 /\ (m + (n + 1) <= Len(log) => m + n < Len(log))
        BY <2>1, <2>4
    <2> QED BY <2>1, <2>3, <2>5 DEF n, m
<1>10. SeqNumExact'
    <2> SUFFICES ASSUME NoneTwice, NEW r \in Watched, outcome'[r].is = "acked"
                 PROVE  /\ outcome'[r].seqNum < Len(log)
                        /\ log[outcome'[r].seqNum + 1] = r
        BY DEF SeqNumExact, NoneTwice
    <2>1. r \in Records
        BY BatcherAssumption
    <2>2. CASE outcome'[r] = outcome[r]
        BY <2>2 DEF SeqNumExact
    <2>3. ASSUME NEW k \in DOMAIN meta, meta[k].record = r, outcome'[r] = results[k]
          PROVE  /\ outcome'[r].seqNum < Len(log)
                 /\ log[outcome'[r].seqNum + 1] = r
        <3>1. outcome'[r].seqNum = tickets[i].start + meta[k].index
            BY <1>4, <1>5, <2>3, OutcomeShapes
        <3> QED BY <1>9, <2>3, <3>1
    <2> QED BY <1>8, <2>1, <2>2, <2>3 DEF ResultsGiven
<1> QED BY <1>8, <1>10

(* A ticket's goroutine resolves the records of its batch and returns      *)
(* their permits (resolveBatchAck).                                        *)
LEMMA AwaitAckKeeps ==
    ASSUME ProducerInv, UNCHANGED setup, NEW i \in DOMAIN tickets, AwaitAck(i)
    PROVE  ProducerInv'
<1> USE InvFacts, InvSession
<1> DEFINE meta == tickets[i].batch.meta
<1>1. /\ i \in ackWaiters /\ ackWaiters' = ackWaiters \ {i}
      /\ UNCHANGED <<batcher, submitVars, consumer, flushVars, callbacks, sessionVars>>
    BY DEF AwaitAck
<1>2. UNCHANGED <<pc, tickets, log, sessionOpen>>
    BY <1>1 DEF submitVars, sessionVars
<1>3. WorkTypes' /\ SessionTypes' /\ TicketsOK' /\ FlushTypes'
    BY <1>1, <1>2 DEF WorkTypes, SessionTypes, TicketsOK, NoneTwice, FlushTypes, flushVars
<1>4. CASE /\ tickets[i].is = "acked"
           /\ producer' = ReleasePermits(producer, MetaRecords(meta))
           /\ outcome' = Resolved(meta, [k \in DOMAIN meta |-> IndexedAck(tickets[i], meta[k])])
           /\ UNCHANGED closer
    <2>1. /\ producer' \in ProducerType /\ producer'.terminalErr = producer.terminalErr
          /\ outcome' \in [Records -> Outcomes] /\ PermitsOK' /\ SeqNumExact'
        BY <1>2, <1>4, AckedStep
    <2>2. ConsumerOK'
        BY <1>1, <1>2, <2>1 DEF ConsumerOK
    <2> QED BY <1>1, <1>2, <1>3, <1>4, <2>1, <2>2, BusyStep
<1>5. ASSUME NEW err \in {ErrAppend, ErrContext},
             LET p == RecordTerminalError(producer, err)
             IN  /\ Becomes(DispatchedError(p, meta, p.terminalErr), closer)
                 /\ outcome' = Resolved(meta, AllFailed(meta, p.terminalErr))
      PROVE  ProducerInv'
    <2> DEFINE p == RecordTerminalError(producer, err)
               e == p.terminalErr
    <2>1. SamePermits(producer, p) /\ e \in Errs
        BY RecordTerminalErrorKeeps DEF Errs
    <2>2. /\ Becomes(DispatchedError(p, meta, e), closer)
          /\ outcome' = Resolved(meta, AllFailed(meta, e))
        BY <1>5
    <2>3. Fits(tickets[i].batch.records, meta, Entered)
        OBVIOUS
    <2> HIDE DEF p, e, meta
    <2>4. p \in ProducerType /\ e # NoErr /\ e = p.terminalErr
        BY <2>1 DEF SamePermits, Errs, NoErr, ErrSessionClosed, ErrContext, ErrAppend, e
    <2>5. PICK q : /\ SamePermits(p, q) /\ q.terminalErr = p.terminalErr
                   /\ DispatchedError(p, meta, e) = ReleasePermits(q, MetaRecords(meta))
        BY <2>1, <2>4, DispatchedStep
    <2>6. /\ producer' = ReleasePermits(q, MetaRecords(meta))
          /\ closer' \in [Closers -> CloserStates]
          /\ \A x \in Closers : closer'[x] = "sealing" => closer[x] = "sealing"
        BY <2>2, <2>5, BecomesKeeps
    <2>7. SamePermits(producer, q)
        BY <2>1, <2>5 DEF SamePermits
    <2>8. /\ producer' \in ProducerType /\ producer'.terminalErr = q.terminalErr
          /\ outcome' \in [Records -> Outcomes] /\ PermitsOK' /\ SeqNumExact'
        BY <1>2, <2>1, <2>2, <2>3, <2>6, <2>7, FailedStep
    <2>9. ConsumerOK'
        BY <1>1, <1>2, <2>4, <2>5, <2>8 DEF ConsumerOK
    <2> QED BY <1>1, <1>2, <1>3, <2>6, <2>8, <2>9, BusyStep
<1> QED BY <1>4, <1>5 DEF AwaitAck

-----------------------------------------------------------------------------
(* The append session: batches are appended at the tail, and what is in    *)
(* the stream stays where it is.                                           *)

(* The stream only grows, so what is not in it twice was not before. *)
LEMMA TwiceStays ==
    ASSUME ProducerInv, SessionTypes', NoneTwice',
           Len(log) <= Len(log'), \A n \in 1 .. Len(log) : log'[n] = log[n]
    PROVE  NoneTwice
<1>1. /\ DOMAIN log = 1 .. Len(log) /\ DOMAIN log' = 1 .. Len(log')
      /\ Len(log) \in Nat /\ Len(log') \in Nat
    BY InvSession DEF SessionTypes
<1>2. DOMAIN log \subseteq DOMAIN log'
    BY <1>1
<1> QED BY <1>1, <1>2 DEF NoneTwice

(* What a step of the session has to keep. *)
LEMMA SessionStepKeeps ==
    ASSUME ProducerInv, UNCHANGED setup, SessionUnchanged, SessionTypes', TicketsOK',
           DOMAIN tickets' = DOMAIN tickets,
           \A i \in DOMAIN tickets : tickets'[i].batch = tickets[i].batch,
           Len(log) <= Len(log'), \A n \in 1 .. Len(log) : log'[n] = log[n]
    PROVE  ProducerInv'
<1> USE InvFacts, InvSession
<1>1. UNCHANGED <<batcher, producer, submitVars, outcome, consumer, ackWaiters, flushVars, closer,
                  callbacks, pc>>
    BY DEF SessionUnchanged, workVars, submitVars
<1>2. WorkTypes' /\ FlushTypes'
    BY <1>1 DEF WorkTypes, FlushTypes, flushVars
<1>3. SeqNumExact'
    <2>1. \A r \in Watched : outcome[r].is = "acked" => outcome[r].seqNum \in Nat
        BY BatcherAssumption DEF Outcomes, Unresolved, Failed
    <2>2. Len(log) \in Nat /\ Len(log') \in Nat
        BY DEF SessionTypes
    <2>3. NoneTwice' => NoneTwice
        BY TwiceStays
    <2> QED BY <1>1, <2>1, <2>2, <2>3 DEF SeqNumExact
<1>4. ConsumerOK'
    <2>1. tickets # <<>> => tickets' # <<>>
        BY DEF SessionTypes
    <2> QED BY <1>1, <2>1 DEF ConsumerOK
<1>5. Held' = Held /\ Entered' = Entered
    BY <1>1, SamePc
<1>6. PermitsOK'
    BY <1>1, <1>5, PermitsStay
<1>7. \A i \in DOMAIN tickets' : Fits(tickets'[i].batch.records, tickets'[i].batch.meta, Entered)
    OBVIOUS
<1> QED BY <1>1, <1>2, <1>3, <1>4, <1>6, <1>7, BusyStep

(* What was in a stream keeps its place when a batch is appended. *)
LEMMA AppendedFields ==
    ASSUME NEW l \in Seq(Records), NEW s \in Seq(Records)
    PROVE  /\ l \o s \in Seq(Records) /\ Len(l \o s) = Len(l) + Len(s) /\ Len(l) <= Len(l \o s)
           /\ \A n \in 1 .. Len(l) : (l \o s)[n] = l[n]
           /\ \A k \in DOMAIN s : Len(l) + k <= Len(l \o s) /\ (l \o s)[Len(l) + k] = s[k]
OBVIOUS

(* What a ticket says of its batch holds in a longer stream. *)
LEMMA TicketsGrow ==
    ASSUME ProducerInv, NoneTwice, NEW i \in DOMAIN tickets,
           tickets[i].is \in {"appended", "acked"}, NEW l \in Seq(Records),
           Len(log) <= Len(l), \A n \in 1 .. Len(log) : l[n] = log[n]
    PROVE  \A k \in DOMAIN tickets[i].batch.records :
               /\ tickets[i].start + k <= Len(l)
               /\ l[tickets[i].start + k] = tickets[i].batch.records[k]
<1> USE InvSession
<1>1. tickets[i] \in Ticket
    BY DEF SessionTypes
<1>2. tickets[i].start \in Nat /\ tickets[i].batch.records \in Seq(Records)
    BY <1>1 DEF Ticket, Batch
<1>3. Len(log) \in Nat /\ Len(l) \in Nat
    BY DEF SessionTypes
<1> SUFFICES ASSUME NEW k \in DOMAIN tickets[i].batch.records
             PROVE  /\ tickets[i].start + k <= Len(l)
                    /\ l[tickets[i].start + k] = tickets[i].batch.records[k]
    OBVIOUS
<1>4. k \in Nat \ {0}
    BY <1>2
<1>5. /\ tickets[i].start + k <= Len(log)
      /\ log[tickets[i].start + k] = tickets[i].batch.records[k]
    BY DEF TicketsOK
<1> QED BY <1>2, <1>3, <1>4, <1>5

(* The session gives a ticket to a submission or rejects it. *)
LEMMA SessionAnswersKeeps ==
    ASSUME ProducerInv, UNCHANGED setup, NEW i \in DOMAIN tickets, SessionAnswers(i)
    PROVE  ProducerInv'
<1> USE InvSession
<1> DEFINE v == IF sessionOpen THEN "ticket" ELSE "rejected"
<1>1. /\ tickets[i].is = "submitted" /\ UNCHANGED <<log, sessionOpen>> /\ SessionUnchanged
      /\ tickets' = [tickets EXCEPT ![i].is = v]
    BY DEF SessionAnswers
<1>2. v \in {"ticket", "rejected"}
    OBVIOUS
<1> HIDE DEF v
<1>3. tickets \in Seq(Ticket) /\ tickets[i] \in Ticket
    BY DEF SessionTypes
<1> DEFINE t == [tickets[i] EXCEPT !.is = v]
<1>4. t \in Ticket /\ t.batch = tickets[i].batch /\ t.is = v
    BY <1>2, <1>3 DEF Ticket
<1>5. tickets' = [tickets EXCEPT ![i] = t]
    BY <1>1
<1> HIDE DEF t
<1>6. /\ tickets' \in Seq(Ticket) /\ DOMAIN tickets' = DOMAIN tickets
      /\ tickets'[i] = t /\ \A j \in DOMAIN tickets : j # i => tickets'[j] = tickets[j]
    BY <1>3, <1>4, <1>5
<1>7. SessionTypes'
    BY <1>1, <1>6 DEF SessionTypes
<1>8. TicketsOK'
    BY <1>1, <1>2, <1>4, <1>6 DEF TicketsOK, NoneTwice
<1>9. \A j \in DOMAIN tickets : tickets'[j].batch = tickets[j].batch
    BY <1>4, <1>6
<1>10. Len(log) <= Len(log') /\ \A n \in 1 .. Len(log) : log'[n] = log[n]
    BY <1>1 DEF SessionTypes
<1> QED BY <1>1, <1>6, <1>7, <1>8, <1>9, <1>10, SessionStepKeeps

(* The stream appends the batch of a ticket. *)
LEMMA SessionAppendsKeeps ==
    ASSUME ProducerInv, UNCHANGED setup, NEW i \in DOMAIN tickets, SessionAppends(i)
    PROVE  ProducerInv'
<1> USE InvSession
<1> DEFINE s == tickets[i].batch.records
           t == [tickets[i] EXCEPT !.is = "appended", !.start = Len(log)]
<1>1. /\ log' = log \o s /\ UNCHANGED sessionOpen /\ SessionUnchanged
      /\ tickets' = [tickets EXCEPT ![i].is = "appended", ![i].start = Len(log)]
    BY DEF SessionAppends, Appends
<1>2. tickets \in Seq(Ticket) /\ tickets[i] \in Ticket /\ log \in Seq(Records) /\ Len(log) \in Nat
    BY DEF SessionTypes
<1>3. s \in Seq(Records)
    BY <1>2 DEF Ticket, Batch
<1>4. t \in Ticket /\ t.batch = tickets[i].batch /\ t.start = Len(log)
    BY <1>2 DEF Ticket
<1>5. tickets' = [tickets EXCEPT ![i] = t]
    BY <1>1, <1>2
<1> HIDE DEF t
<1>6. /\ tickets' \in Seq(Ticket) /\ DOMAIN tickets' = DOMAIN tickets
      /\ tickets'[i] = t /\ \A j \in DOMAIN tickets : j # i => tickets'[j] = tickets[j]
    BY <1>2, <1>4, <1>5
<1>7. /\ log' \in Seq(Records) /\ Len(log) <= Len(log')
      /\ \A n \in 1 .. Len(log) : log'[n] = log[n]
      /\ \A k \in DOMAIN s : Len(log) + k <= Len(log') /\ log'[Len(log) + k] = s[k]
    BY <1>1, <1>2, <1>3, AppendedFields
<1>8. SessionTypes'
    BY <1>1, <1>6, <1>7 DEF SessionTypes
<1>9. TicketsOK'
    <2> SUFFICES ASSUME NoneTwice', NEW j \in DOMAIN tickets,
                        tickets'[j].is \in {"appended", "acked"}
                 PROVE  \A k \in DOMAIN tickets'[j].batch.records :
                            /\ tickets'[j].start + k <= Len(log')
                            /\ log'[tickets'[j].start + k] = tickets'[j].batch.records[k]
        BY <1>6 DEF TicketsOK
    <2>0. NoneTwice
        BY <1>7, <1>8, TwiceStays
    <2>1. CASE j = i
        BY <1>4, <1>6, <1>7, <2>1
    <2>2. CASE j # i
        <3>1. tickets'[j] = tickets[j] /\ tickets[j].is \in {"appended", "acked"}
            BY <1>6, <2>2
        <3>2. \A k \in DOMAIN tickets[j].batch.records :
                  /\ tickets[j].start + k <= Len(log')
                  /\ log'[tickets[j].start + k] = tickets[j].batch.records[k]
            BY <1>7, <2>0, <3>1, TicketsGrow
        <3> QED BY <3>1, <3>2
    <2> QED BY <2>1, <2>2
<1>10. \A j \in DOMAIN tickets : tickets'[j].batch = tickets[j].batch
    BY <1>4, <1>6
<1> QED BY <1>1, <1>6, <1>7, <1>8, <1>9, <1>10, SessionStepKeeps

(* The session acknowledges a batch. *)
LEMMA SessionAcksKeeps ==
    ASSUME ProducerInv, UNCHANGED setup, NEW i \in DOMAIN tickets, SessionAcks(i)
    PROVE  ProducerInv'
<1> USE InvSession
<1>0. PICK start \in 0 .. Len(log) :
          /\ NoneTwice => tickets[i].is = "appended" /\ start = tickets[i].start
          /\ tickets' = [tickets EXCEPT ![i].is = "acked", ![i].start = start]
    BY DEF SessionAcks
<1> DEFINE t == [tickets[i] EXCEPT !.is = "acked", !.start = start]
<1>1. UNCHANGED log /\ UNCHANGED sessionOpen /\ SessionUnchanged
    BY DEF SessionAcks
<1>2. tickets \in Seq(Ticket) /\ tickets[i] \in Ticket /\ log \in Seq(Records) /\ Len(log) \in Nat
    BY DEF SessionTypes
<1>3. start \in Nat
    BY <1>2
<1>4. t \in Ticket /\ t.batch = tickets[i].batch /\ t.start = start
    BY <1>2, <1>3 DEF Ticket
<1>5. tickets' = [tickets EXCEPT ![i] = t]
    BY <1>0, <1>2
<1> HIDE DEF t
<1>6. /\ tickets' \in Seq(Ticket) /\ DOMAIN tickets' = DOMAIN tickets
      /\ tickets'[i] = t /\ \A j \in DOMAIN tickets : j # i => tickets'[j] = tickets[j]
    BY <1>2, <1>4, <1>5
<1>7. SessionTypes'
    BY <1>1, <1>6 DEF SessionTypes
<1>8. TicketsOK'
    <2> SUFFICES ASSUME NoneTwice, NEW j \in DOMAIN tickets,
                        tickets'[j].is \in {"appended", "acked"}
                 PROVE  \A k \in DOMAIN tickets'[j].batch.records :
                            /\ tickets'[j].start + k <= Len(log)
                            /\ log[tickets'[j].start + k] = tickets'[j].batch.records[k]
        BY <1>1, <1>6 DEF TicketsOK, NoneTwice
    <2>1. /\ tickets[j].is \in {"appended", "acked"}
          /\ tickets'[j].start = tickets[j].start /\ tickets'[j].batch = tickets[j].batch
        BY <1>0, <1>4, <1>6
    <2> QED BY <2>1 DEF TicketsOK
<1>9. \A j \in DOMAIN tickets : tickets'[j].batch = tickets[j].batch
    BY <1>4, <1>6
<1>10. Len(log) <= Len(log') /\ \A n \in 1 .. Len(log) : log'[n] = log[n]
    BY <1>1, <1>2
<1> QED BY <1>1, <1>6, <1>7, <1>8, <1>9, <1>10, SessionStepKeeps

(* The stream appends a batch that the session sent again. *)
LEMMA SessionRepeatsKeeps ==
    ASSUME ProducerInv, UNCHANGED setup, NEW i \in DOMAIN tickets, SessionRepeats(i)
    PROVE  ProducerInv'
<1> USE InvSession
<1> DEFINE s == tickets[i].batch.records
<1>1. log' = log \o s /\ UNCHANGED <<tickets, sessionOpen>> /\ SessionUnchanged
    BY DEF SessionRepeats, Appends
<1>2. tickets \in Seq(Ticket) /\ tickets[i] \in Ticket /\ log \in Seq(Records)
    BY DEF SessionTypes
<1>3. s \in Seq(Records)
    BY <1>2 DEF Ticket, Batch
<1>4. /\ log' \in Seq(Records) /\ Len(log) <= Len(log')
      /\ \A n \in 1 .. Len(log) : log'[n] = log[n]
    BY <1>1, <1>2, <1>3, AppendedFields
<1>5. SessionTypes'
    BY <1>1, <1>4 DEF SessionTypes
<1>6. TicketsOK'
    <2> SUFFICES ASSUME NoneTwice', NEW j \in DOMAIN tickets,
                        tickets[j].is \in {"appended", "acked"}
                 PROVE  \A k \in DOMAIN tickets[j].batch.records :
                            /\ tickets[j].start + k <= Len(log')
                            /\ log'[tickets[j].start + k] = tickets[j].batch.records[k]
        BY <1>1 DEF TicketsOK
    <2>1. NoneTwice
        BY <1>4, <1>5, TwiceStays
    <2> QED BY <1>4, <2>1, TicketsGrow
<1> QED BY <1>1, <1>4, <1>5, <1>6, SessionStepKeeps

(* The session ends, and with it every ticket it has not settled. *)
LEMMA SessionFailsKeeps ==
    ASSUME ProducerInv, UNCHANGED setup, SessionFails
    PROVE  ProducerInv'
<1> USE InvSession
<1>1. /\ sessionOpen' = FALSE /\ UNCHANGED log /\ SessionUnchanged
      /\ tickets' = [i \in DOMAIN tickets |->
                        IF Open(i) THEN [tickets[i] EXCEPT !.is = "failed"] ELSE tickets[i]]
    BY DEF SessionFails
<1>2. tickets \in Seq(Ticket) /\ log \in Seq(Records)
    BY DEF SessionTypes
<1>3. ASSUME NEW i \in DOMAIN tickets
      PROVE  /\ tickets'[i] \in Ticket /\ tickets'[i].batch = tickets[i].batch
             /\ tickets'[i] = tickets[i] \/ tickets'[i].is = "failed"
    <2>1. tickets[i] \in Ticket
        BY <1>2
    <2>2. CASE Open(i)
        <3>1. tickets'[i] = [tickets[i] EXCEPT !.is = "failed"]
            BY <1>1, <2>2
        <3> QED BY <2>1, <3>1 DEF Ticket
    <2>3. CASE ~ Open(i)
        BY <1>1, <2>1, <2>3
    <2> QED BY <2>2, <2>3
<1>4. tickets' \in Seq(Ticket) /\ DOMAIN tickets' = DOMAIN tickets
    <2>1. DOMAIN tickets = 1 .. Len(tickets) /\ Len(tickets) \in Nat
        BY <1>2
    <2>2. DOMAIN tickets' = DOMAIN tickets /\ tickets' = [i \in 1 .. Len(tickets) |-> tickets'[i]]
        BY <1>1, <2>1
    <2> QED BY <1>3, <2>1, <2>2
<1>5. Len(log) <= Len(log') /\ \A n \in 1 .. Len(log) : log'[n] = log[n]
    BY <1>1, <1>2
<1>6. SessionTypes'
    BY <1>1, <1>2, <1>4 DEF SessionTypes
<1>7. TicketsOK'
    <2> SUFFICES ASSUME NoneTwice, NEW j \in DOMAIN tickets,
                        tickets'[j].is \in {"appended", "acked"}
                 PROVE  \A k \in DOMAIN tickets'[j].batch.records :
                            /\ tickets'[j].start + k <= Len(log)
                            /\ log[tickets'[j].start + k] = tickets'[j].batch.records[k]
        BY <1>1, <1>4 DEF TicketsOK, NoneTwice
    <2>1. tickets'[j] = tickets[j]
        BY <1>3
    <2> QED BY <2>1 DEF TicketsOK
<1> QED BY <1>1, <1>3, <1>4, <1>5, <1>6, <1>7, SessionStepKeeps

-----------------------------------------------------------------------------
(* The theorems.                                                           *)

LEMMA InitKeeps ==
    ASSUME Init
    PROVE  ProducerInv
<1>1. setup \in Setups
    BY DEF Init
<1>2. /\ setup.matchSeqNum \in Nat \cup {NoMatch}
    BY <1>1, BatcherAssumption
<1>3. NewBatcher \in BatcherType
    <2>1. Free \in Holders /\ NoBatch \in Batch
        BY BatchShape DEF Holders
    <2>2. /\ <<>> \in Seq(Records) /\ <<>> \in Seq(Metas) /\ <<>> \in Seq(Outputs)
          /\ {} \in SUBSET Nat /\ 0 \in Nat
        OBVIOUS
    <2> QED BY <1>2, <2>1, <2>2 DEF NewBatcher, BatcherType
<1>4. BatcherOK(batcher)
    BY <1>3, HolderNames DEF Init, NewBatcher, BatcherOK, LockOK, ClosedOK, TimerOK, Sending
<1>5. NewPool \in Pool /\ NewPool.bytes = 0
    BY DEF NewPool, Pool
<1>6. /\ producer \in ProducerType /\ producer.permits = {} /\ producer.pool.bytes = 0
    BY <1>5 DEF Init, ProducerType
<1>7. TypeOK
    <2>1. SubmitTypes /\ FlushTypes
        BY DEF Init, SubmitTypes, FlushTypes
    <2>2. WorkTypes
        BY BatchShape DEF Init, WorkTypes
    <2>3. SessionTypes
        BY DEF Init, SessionTypes
    <2>4. outcome \in [Records -> Outcomes] /\ closer \in [Closers -> CloserStates]
        BY OutcomeShapes DEF Init, CloserStates
    <2>5. callbacks \subseteq {"batcher", "producer"}
        BY DEF Init
    <2> QED BY <1>3, <1>6, <2>1, <2>2, <2>3, <2>4, <2>5, TypeParts DEF Init
<1>8. BatchesFit
    <2>1. /\ batcher.buffer = <<>> /\ batcher.meta = <<>> /\ batcher.out = NoBatch
          /\ batcher.ch = <<>> /\ consumer.batch = NoBatch /\ tickets = <<>>
        BY DEF Init, NewBatcher
    <2> QED BY <2>1, FitsEmpty DEF BatchesFit, BatcherFits
<1>9. HolderOK /\ WatchedOK
    BY DEF Init, NewBatcher, Free, HolderOK, WatchedOK
<1>10. SealingOK /\ ConsumerOK
    BY DEF Init, SealingOK, ConsumerOK
<1>11. PermitsOK
    <2>1. Held = {}
        BY BatcherAssumption DEF Init, Held
    <2>2. BytesOf({}) = 0
        BY FS_EmptySet, SumType DEF BytesOf
    <2>3. \A r \in Records : outcome[r] = Unresolved
        BY DEF Init
    <2> QED BY <1>6, <2>1, <2>2, <2>3 DEF PermitsOK
<1>12. TicketsOK /\ SeqNumExact
    <2>1. \A r \in Watched : outcome[r].is = "none"
        BY BatcherAssumption DEF Init, Unresolved
    <2> QED BY <2>1 DEF Init, TicketsOK, SeqNumExact, NoneTwice
<1> QED BY <1>1, <1>4, <1>7, <1>8, <1>9, <1>10, <1>11, <1>12 DEF ProducerInv

(* Every step keeps the invariant. *)
LEMMA StepKeeps ==
    ASSUME ProducerInv, Step, UNCHANGED setup
    PROVE  ProducerInv'
<1>1. ASSUME NEW r \in Records, Submit(r) \/ SubmitStep(r) \/ (r \notin Watched /\ Add(r))
      PROVE  ProducerInv'
    BY <1>1, SubmitKeeps, TryReserveKeeps, BackpressureLocksKeeps, BackpressureUnlocksKeeps,
       ReserveKeeps, RecheckKeeps, AddKeeps, AddAfterFlushKeeps, AddReturnsKeeps DEF SubmitStep
<1>2. CASE SendBatch \/ DropBatch \/ BatcherFlush
    BY <1>2, SendBatchKeeps, DropBatchKeeps, BatcherFlushKeeps
<1>3. ASSUME NEW seq \in batcher.scheduled, FlushFromTimer(seq) PROVE ProducerInv'
    BY <1>3, FlushFromTimerKeeps
<1>4. ASSUME NEW f \in Flushes, Flush(f) \/ FlushStep(f) \/ FlushAbandoned(f) PROVE ProducerInv'
    BY <1>4, FlushKeeps, BarrierLocksKeeps, BarrierFlushedKeeps, BarrierSendsKeeps,
       FlushReturnsKeeps DEF FlushStep
<1>5. CASE Close \/ CloseReturns \/ CloseBatcher
    BY <1>5, CloseKeeps, CloseReturnsKeeps, CloseBatcherKeeps
<1>6. ASSUME NEW w \in Closers, CloseStep(w) PROVE ProducerInv'
    BY <1>6, CloseLocksKeeps, CloseUnlocksKeeps, CloseSealsKeeps DEF CloseStep
<1>7. CASE ConsumerStep
    BY <1>7, ReceiveKeeps, AwaitSubmissionKeeps, FailBatchKeeps, ConsumerIdles DEF ConsumerStep
<1>8. ASSUME NEW i \in DOMAIN tickets, AwaitAck(i) PROVE ProducerInv'
    BY <1>8, AwaitAckKeeps
<1>9. CASE CancelBatcher \/ CancelProducer \/ BatcherCancelled \/ ProducerCancelled
    BY <1>9, CancelsKeep
<1>10. CASE SessionStep \/ SessionFails \/ \E i \in DOMAIN tickets : SessionRepeats(i)
    BY <1>10, SessionAnswersKeeps, SessionAppendsKeeps, SessionAcksKeeps, SessionFailsKeeps,
       SessionRepeatsKeeps DEF SessionStep
<1> QED BY <1>1, <1>2, <1>3, <1>4, <1>5, <1>6, <1>7, <1>8, <1>9, <1>10 DEF Step

(* A step in which nothing changes keeps the invariant. *)
LEMMA StutterKeeps ==
    ASSUME ProducerInv, UNCHANGED <<vars, setup>>
    PROVE  ProducerInv'
<1>1. UNCHANGED <<setup, batcher, producer, submitVars, outcome, workVars, flushVars, closer,
                  callbacks, sessionVars>>
    BY DEF vars
<1>2. FlushTypes' /\ SamePermits(producer, producer')
    BY <1>1, InvFacts DEF FlushTypes, flushVars
<1> QED BY <1>1, <1>2, InvFacts, ProducerOnlyStep

(* The invariant holds in every state the producer reaches. *)
THEOREM ProducerInvariant == Spec => []ProducerInv
<1>1. Init => ProducerInv
    BY InitKeeps
<1>2. ProducerInv /\ [Next]_<<vars, setup>> => ProducerInv'
    BY StepKeeps, StutterKeeps DEF Next
<1> QED BY <1>1, <1>2, PTL DEF Spec

(* Every field of producer, batcher, consumer and session keeps its type. *)
THEOREM ProducerTypeCorrect == Spec => []TypeOK
<1>1. ProducerInv => TypeOK
    BY DEF ProducerInv
<1> QED BY <1>1, ProducerInvariant, PTL

(* The capacity in use is exactly the bytes of the records that hold a     *)
(* permit, whatever is refused late, dropped, failed or acknowledged       *)
(* (producerPermit, releaseProducerPermits).                               *)
THEOREM PermitsAreExact == Spec => []PermitsConserved
<1>1. ProducerInv => PermitsConserved
    BY Zenon DEF ProducerInv, PermitsOK, Held, PermitsConserved
<1> QED BY <1>1, ProducerInvariant, PTL

(* Nothing is sent on the batch channel once it is closed, and the buffer  *)
(* of a closed batcher is empty (Batcher.close).                           *)
THEOREM ChannelIsClosedLast == Spec => []ChannelClosedLast
<1>1. ProducerInv => ChannelClosedLast
    BY HolderNames DEF ProducerInv, BatcherOK, LockOK, ClosedOK, ChannelClosedLast
<1> QED BY <1>1, ProducerInvariant, PTL

(* What waits in the buffer has a linger timer whose callback will run     *)
(* (stopTimerLocked, flushFromTimer).                                      *)
THEOREM LingerHolds == Spec => []LingerArmed
<1>1. ProducerInv => LingerArmed
    BY DEF ProducerInv, BatcherOK, TimerOK, LingerArmed
<1> QED BY <1>1, ProducerInvariant, PTL

(* The acknowledgement of a record names its position in the stream,       *)
(* whatever else was batched with it (recordMeta.index, resolveBatchAck).  *)
THEOREM SeqNumsAreExact == Spec => []SeqNumExact
<1>1. ProducerInv => SeqNumExact
    BY DEF ProducerInv
<1> QED BY <1>1, ProducerInvariant, PTL

=============================================================================
