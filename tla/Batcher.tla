------------------------------ MODULE Batcher ------------------------------
(***************************************************************************)
(* Batcher (s2/batcher.go): collects records into batches and emits them   *)
(* on a bounded channel.                                                   *)
(*                                                                         *)
(* Every method runs under mu and keeps mu while it waits for room in the  *)
(* channel, so a batcher is a record whose field mu says which method      *)
(* holds the mutex (and for whom) and whose field out is the batch that    *)
(* method is trying to send.  The operators below are the steps of those   *)
(* methods; Producer says which goroutine takes them and when.             *)
(***************************************************************************)
EXTENDS Integers, Sequences, FiniteSetsExt

CONSTANTS Records,
          Watched,          \* the records with a result channel and a permit
          Size,             \* Size[r]: MeteredPayloadBytes
          Flushes,          \* the calls of Producer.Flush
          ChannelBuffer,    \* BatchingOptions.ChannelBuffer
          Setups,           \* the options and environments to consider
          NoMatch           \* BatchingOptions without MatchSeqNum

ASSUME BatcherAssumption ==
    /\ IsFiniteSet(Records) /\ Watched \subseteq Records
    /\ Size \in [Records -> Nat \ {0}]
    /\ ChannelBuffer \in Nat \ {0}
    /\ NoMatch \notin Nat
    /\ Setups \subseteq
          [maxRecords : Nat \ {0}, maxMeteredBytes : Nat \ {0},
           linger : BOOLEAN,                     \* Linger > 0: a timer flushes a partial batch
           matchSeqNum : Nat \cup {NoMatch},
           records : SUBSET Records,             \* the records the application adds
           may : SUBSET {"sessionFails",         \* the append session fails or is closed
                         "resends",              \* and may apply a batch again
                         "batcherCancelled", "producerCancelled",   \* parent contexts end
                         "directUse",            \* Batcher.Flush and Batcher.Close are called
                         "flushAbandoned"}]      \* the context given to Flush ends
    /\ \A x \in Setups : \A r \in x.records : Size[r] <= x.maxMeteredBytes

VARIABLE setup    \* one of Setups, fixed from the start

(* The errors the package tells apart: ErrSessionClosed, the error of a    *)
(* cancelled context, and an error of the append session.                  *)
NoErr == "nil"
ErrSessionClosed == "closed"
ErrContext == "ctx"
ErrAppend == "append"
Errs == {ErrSessionClosed, ErrContext, ErrAppend}

(* recordMeta: a record with its position in the batch *)
Metas == [record : Watched, index : Nat]

(* BatchOutput: a batch, or the barrier of a Flush *)
NoBatch == [records |-> <<>>, meta |-> <<>>, match |-> NoMatch]
Batch == [records : Seq(Records), meta : Seq(Metas), match : Nat \cup {NoMatch}]
Outputs == Batch \cup [barrier : Flushes]
IsBarrier(o) == "barrier" \in DOMAIN o

Free == [op |-> "free", who |-> "nobody"]
Holders ==
    {Free} \cup [op : {"add", "added"}, who : Records]
           \cup [op : {"backpressure"}, who : Watched]
           \cup [op : {"barrier", "barrierSend"}, who : Flushes]
           \cup [op : {"timer", "flush"}, who : {"nobody"}]
           \cup [op : {"close"}, who : {"producer", "terminal", "user"}]

BatcherType ==
    [mu : Holders, out : Batch,
     failed : BOOLEAN,             \* the last flushLocked returned an error
     buffer : Seq(Records), meta : Seq(Metas),
     timer : BOOLEAN,              \* timer # nil
     timerSeq : Nat,
     scheduled : SUBSET Nat,       \* timers whose callback may still run
     closed : BOOLEAN, closeErr : Errs \cup {NoErr},
     next : Nat \cup {NoMatch},    \* nextMatchSeqNum
     ch : Seq(Outputs), chClosed : BOOLEAN,   \* batchesCh
     ctx : BOOLEAN]                \* ctx is done

(* NewBatcher *)
NewBatcher ==
    [mu |-> Free, out |-> NoBatch, failed |-> FALSE,
     buffer |-> <<>>, meta |-> <<>>,
     timer |-> FALSE, timerSeq |-> 0, scheduled |-> {},
     closed |-> FALSE, closeErr |-> NoErr, next |-> setup.matchSeqNum,
     ch |-> <<>>, chClosed |-> FALSE, ctx |-> FALSE]

MetaRecords(meta) == {meta[i].record : i \in DOMAIN meta}

RecordsOf(seq) == {seq[i] : i \in DOMAIN seq}

(* bufferBytes, and the bytes of a set of permits *)
BytesOf(records) == SumFunctionOnSet(Size, records)

Lock(b, op, who) == [b EXCEPT !.mu = [op |-> op, who |-> who]]
Unlock(b) == [b EXCEPT !.mu = Free]

(* Mutant: a stopped timer is not forgotten. *)
StopTimerOnly(b) ==
    {[b EXCEPT !.scheduled = s] : s \in {b.scheduled, b.scheduled \ {b.timerSeq}}}

(* timer.Stop() and timer = nil.  Stop cannot recall a callback that has   *)
(* already started, so the callback may or may not still run.              *)
StopTimer(b) ==
    IF b.timer
    THEN {[b EXCEPT !.timer = FALSE, !.scheduled = s] :
             s \in {b.scheduled, b.scheduled \ {b.timerSeq}}}
    ELSE {b}

(* flushLocked up to its select: the buffer becomes the batch to send.     *)
FlushBegun(b) ==
    IF b.buffer = <<>>
    THEN {[b EXCEPT !.failed = FALSE]}
    ELSE {[c EXCEPT !.out = [records |-> b.buffer, meta |-> b.meta, match |-> b.next],
                    !.buffer = <<>>, !.meta = <<>>, !.failed = FALSE] : c \in StopTimer(b)}

Sending(b) == b.out # NoBatch
HasRoom(b) == Len(b.ch) < ChannelBuffer

(* The methods that do nothing after their flush give up mu with it.       *)
Flushed(b) == IF b.mu.op \in {"timer", "flush"} THEN Unlock(b) ELSE b

(* The select of flushLocked: the batch is sent ...                        *)
Sent(b) ==
    [Flushed(b) EXCEPT !.ch = Append(@, b.out), !.out = NoBatch,
              !.next = IF @ = NoMatch THEN @ ELSE @ + Len(b.out.records)]

(* ... or the context is done and the batch is dropped.                    *)
Dropped(b) ==
    [Flushed(b) EXCEPT !.out = NoBatch, !.failed = TRUE,
              !.closeErr = IF @ = NoErr THEN ErrContext ELSE @]

(* addWithPermit: does r overflow the current batch?                       *)
Overflows(b, r) ==
    /\ b.buffer # <<>>
    /\ \/ Len(b.buffer) + 1 > setup.maxRecords
       \/ BytesOf(RecordsOf(b.buffer)) + Size[r] > setup.maxMeteredBytes

Full(b) == Len(b.buffer) >= setup.maxRecords \/ BytesOf(RecordsOf(b.buffer)) >= setup.maxMeteredBytes

(* Mutant: the position among the records that have a result channel. *)
BufferedAtMetaIndex(b, r) ==
    [b EXCEPT !.buffer = Append(@, r),
              !.meta = IF r \in Watched
                       THEN Append(@, [record |-> r, index |-> Len(b.meta)]) ELSE @]

(* The record and its position enter the buffer.                           *)
Buffered(b, r) ==
    [b EXCEPT !.buffer = Append(@, r),
              !.meta = IF r \in Watched
                       THEN Append(@, [record |-> r, index |-> Len(b.buffer)]) ELSE @]

(* A linger timer is started unless one is running.                        *)
Lingering(b) ==
    IF setup.linger /\ ~ b.timer
    THEN [b EXCEPT !.timer = TRUE, !.timerSeq = @ + 1, !.scheduled = @ \cup {b.timerSeq + 1}]
    ELSE b

(* addWithPermit from the place where the record fits: it is buffered, and *)
(* the batch is flushed if that filled it.                                 *)
Added(b, r) ==
    LET c == Buffered(b, r)
    IN  IF Full(c) THEN {Lock(d, "added", r) : d \in FlushBegun(c)}
        ELSE {Lock(Lingering(c), "added", r)}

(* flushFromTimer: the callback is not stale.                              *)
TimerCurrent(b, seq) == b.timer /\ b.timerSeq = seq

(* flushFromTimer *)
TimerFired(b, seq) ==
    LET c == [b EXCEPT !.scheduled = @ \ {seq}]
    IN  IF ~ TimerCurrent(b, seq) THEN {c}
        ELSE LET d == [c EXCEPT !.timer = FALSE]
             IN  IF b.closed \/ b.buffer = <<>> THEN {d}
                 ELSE {Lock(e, "timer", "nobody") : e \in FlushBegun(d)}

(* close up to its flush.  A timer runs only while something is buffered,  *)
(* so that flush stops it.                                                 *)
Closing(b, who) ==
    {Lock(c, "close", who) : c \in FlushBegun([b EXCEPT !.closed = TRUE])}

(* shutdownCause *)
ShutdownCause(b) ==
    CASE b.closeErr # NoErr -> b.closeErr
      [] b.closeErr = NoErr /\ ~ b.closed /\ b.ctx -> ErrContext
      [] OTHER -> ErrSessionClosed

=============================================================================
