------------------------------ MODULE Producer ------------------------------
(***************************************************************************)
(* Producer (s2/producer.go) over a Batcher and an append session.         *)
(*                                                                         *)
(* Goroutines: one per Submit call, one per Flush call and one more that   *)
(* orders its barrier, the consumer of the batch channel, one waiter per   *)
(* submitted batch (ackWG), the linger timer callbacks, the callers of     *)
(* close (Producer.Close, the goroutine of recordTerminalError, and a user *)
(* who closes the batcher), and the AfterFunc callbacks of two contexts.   *)
(*                                                                         *)
(* The append session is what AppendSession promises: a batch is given a   *)
(* ticket or refused; batches with a ticket are applied in order and then  *)
(* acknowledged in order (ImplementsOrderedAppends), or the session fails  *)
(* and with it every open ticket, any prefix of whose batches was applied. *)
(* The session may apply a batch again, unless a condition or the retry    *)
(* policy keeps it from that; acknowledgements are exact only while nothing*)
(* is in the stream twice (ExactUnlessDuplicated).                         *)
(***************************************************************************)
EXTENDS Batcher, Capacity

CONSTANT MaxStream    \* bound: the session repeats nothing once the stream is this long
ASSUME MaxStreamAssumption == MaxStream \in Nat

(* newProducerWithSession: only bytes are limited. *)
ASSUME ProducerCapacityAssumption == MaxItems = 0

VARIABLES
    batcher,      \* the Batcher
    producer,     \* fields of the Producer, see ProducerType
    pc,           \* where the Submit (or Batcher.Add) of each record is
    added,        \* history: the records in the order they entered the batcher
    outcome,      \* what was sent on each record's result channel
    consumer,     \* the goroutine of consumeBatches
    ackWaiters,   \* the tickets whose waiter has not finished (ackWG)
    call,         \* where each Flush call is
    ordered,      \* the goroutine that orders its barrier
    barrier,      \* what was sent on its barrier channel
    covered,      \* history: the records ordered before its barrier
    closer,       \* the callers of close
    callbacks,    \* the AfterFunc callbacks that are still to run
    tickets,      \* the batches given to the append session, in order
    log,          \* the stream
    sessionOpen

sessionVars == <<tickets, log, sessionOpen>>
flushVars   == <<call, ordered, barrier, covered>>
submitVars  == <<pc, added>>
workVars    == <<consumer, ackWaiters>>

vars == <<batcher, producer, submitVars, outcome, workVars, flushVars, closer,
          callbacks, sessionVars>>

ProducerType ==
    [terminalErr : Errs \cup {NoErr}, appendErr : Errs \cup {NoErr}, closing : BOOLEAN,
     submitCause : Errs \cup {NoErr},   \* the cause submitCtx ended with
     ctx : BOOLEAN,                     \* ctx is done
     pool : Pool,                       \* capacity
     permits : SUBSET Watched]          \* the records whose permit is held

Unresolved == [is |-> "none"]
Acked(seqNum) == [is |-> "acked", seqNum |-> seqNum]
Failed(err) == [is |-> "failed", err |-> err]
Outcomes == {Unresolved} \cup {Failed(e) : e \in Errs} \cup [is : {"acked"}, seqNum : Nat]

Closers == {"producer", "terminal", "user"}

TypeOK ==
    /\ batcher \in BatcherType
    /\ producer \in ProducerType
    /\ pc \in [Records -> {"idle", "entered", "backpressure", "waiting", "reserved",
                           "ready", "adding", "accepted", "refused"}]
    /\ added \in Seq(Records)
    /\ outcome \in [Records -> Outcomes]
    /\ consumer \in [at : {"receive", "submitted", "failing", "barrier", "done"},
                     batch : Batch, who : Flushes \cup {"nobody"}]
    /\ ackWaiters \subseteq DOMAIN tickets
    /\ call \in [Flushes -> {"idle", "waiting", "draining",
                             "ok", "failed", "closed", "terminal", "abandoned"}]
    /\ ordered \in [Flushes -> {"none", "pending", "locked", "nil", "closed", "terminal"}]
    /\ barrier \in [Flushes -> Errs \cup {NoErr, "none"}]
    /\ covered \in [Flushes -> SUBSET Records]
    /\ closer \in [Closers -> {"idle", "called", "flushing", "sealing", "returned",
                               "ok", "failed"}]
    /\ callbacks \subseteq {"batcher", "producer"}
    /\ tickets \in Seq([batch : Batch, start : Nat,
                        is : {"submitted", "ticket", "appended", "rejected", "acked",
                              "failed"}])
    /\ log \in Seq(Records)
    /\ sessionOpen \in BOOLEAN

Init ==
    /\ setup \in Setups
    /\ batcher = NewBatcher
    /\ producer = [terminalErr |-> NoErr, appendErr |-> NoErr, closing |-> FALSE,
                   submitCause |-> NoErr, ctx |-> FALSE, pool |-> NewPool, permits |-> {}]
    /\ pc = [r \in Records |-> "idle"]
    /\ added = <<>>
    /\ outcome = [r \in Records |-> Unresolved]
    /\ consumer = [at |-> "receive", batch |-> NoBatch, who |-> "nobody"]
    /\ ackWaiters = {}
    /\ call = [f \in Flushes |-> "idle"]
    /\ ordered = [f \in Flushes |-> "none"]
    /\ barrier = [f \in Flushes |-> "none"]
    /\ covered = [f \in Flushes |-> {}]
    /\ closer = [w \in Closers |-> "idle"]
    /\ callbacks = {"batcher", "producer"}
    /\ tickets = <<>>
    /\ log = <<>>
    /\ sessionOpen = TRUE

-----------------------------------------------------------------------------
(* Shared operations on the producer.                                      *)

(* cancelSubmit: only the first cause counts.                              *)
CancelSubmit(p, cause) ==
    [p EXCEPT !.submitCause = IF @ = NoErr THEN cause ELSE @]

(* cancel of ctx, the parent of submitCtx                                  *)
CancelCtx(p) == [CancelSubmit(p, ErrContext) EXCEPT !.ctx = TRUE]

(* recordTerminalError.  Only the first call has an effect; nothing reads  *)
(* the fields it sets after terminalErr without looking at terminalErr     *)
(* first, so it is one step.                                               *)
RecordTerminalError(p, err) ==
    IF p.terminalErr # NoErr THEN p
    ELSE CancelCtx([CancelSubmit(p, err) EXCEPT !.terminalErr = err, !.closing = TRUE,
                                               !.pool = ClosedPool(@)])

(* releaseProducerPermits: each permit gives its bytes back once.          *)
ReleasePermits(p, records) ==
    LET held == records \cap p.permits
    IN  [p EXCEPT !.permits = @ \ held, !.pool = Released(@, BytesOf(held))]

(* producer' = p; the first terminal error also starts the goroutine that  *)
(* closes the batcher.                                                     *)
Becomes(p, closers) ==
    /\ producer' = p
    /\ closer' = IF producer.terminalErr = NoErr /\ p.terminalErr # NoErr
                 THEN [closers EXCEPT !["terminal"] = "called"] ELSE closers

(* recordMeta.resolve for every record of a batch                          *)
Resolved(meta, results) ==
    [r \in Records |->
        IF outcome[r] = Unresolved /\ r \in MetaRecords(meta)
        THEN results[CHOOSE i \in DOMAIN meta : meta[i].record = r] ELSE outcome[r]]

AllFailed(meta, err) == [i \in DOMAIN meta |-> Failed(err)]

(* dispatchBatchError *)
DispatchedError(p, meta, err) ==
    ReleasePermits([p EXCEPT !.appendErr = IF @ = NoErr THEN err ELSE @], MetaRecords(meta))

(* mapSubmitError, as far as it changes the producer                       *)
MapSubmitError(p) ==
    IF p.terminalErr # NoErr \/ p.closing \/ p.submitCause \in {NoErr, ErrSessionClosed}
    THEN p ELSE RecordTerminalError(p, p.submitCause)

-----------------------------------------------------------------------------
(* Submit                                                                  *)

Refuse(r, p) ==
    /\ pc' = [pc EXCEPT ![r] = "refused"]
    /\ Becomes(p, closer)
    /\ UNCHANGED added

(* The three checks at the start and, again, before the record is added.   *)
NotAccepting == producer.terminalErr # NoErr \/ producer.closing \/ producer.ctx

(* What they do: a context that is done becomes the terminal error.        *)
Checked(p) ==
    IF p.terminalErr = NoErr /\ ~ p.closing THEN RecordTerminalError(p, ErrContext) ELSE p

Submit(r) ==
    /\ pc[r] = "idle" /\ r \in Watched \cap setup.records
    /\ \/ NotAccepting /\ Refuse(r, Checked(producer))
       \/ /\ ~ NotAccepting
          /\ pc' = [pc EXCEPT ![r] = "entered"]
          /\ UNCHANGED <<added, producer, closer>>
    /\ UNCHANGED <<batcher, outcome, workVars, flushVars, callbacks, sessionVars>>

(* submitMu *)
SubmitMuFree ==
    \A r \in Watched : pc[r] \notin {"backpressure", "waiting", "reserved", "ready", "adding"}

(* The tracker refuses, with its own error or that of submitCtx.           *)
CapacityRefuses(r) == Oversized(Size[r]) \/ producer.pool.closed \/ producer.submitCause # NoErr

TakePermit(r) ==
    /\ producer' = [producer EXCEPT !.pool = Reserved(@, Size[r]), !.permits = @ \cup {r}]
    /\ pc' = [pc EXCEPT ![r] = "reserved"]
    /\ UNCHANGED <<added, closer>>

(* tryReserve *)
TryReserve(r) ==
    /\ pc[r] = "entered" /\ SubmitMuFree
    /\ \/ CapacityRefuses(r) /\ Refuse(r, MapSubmitError(producer))
       \/ ~ CapacityRefuses(r) /\ HasCapacity(producer.pool, Size[r]) /\ TakePermit(r)
       \/ /\ ~ CapacityRefuses(r) /\ ~ HasCapacity(producer.pool, Size[r])
          /\ pc' = [pc EXCEPT ![r] = "backpressure"]
          /\ UNCHANGED <<added, producer, closer>>
    /\ UNCHANGED <<batcher, outcome, workVars, flushVars, callbacks, sessionVars>>

(* flushForBackpressure takes mu ...                                       *)
BackpressureLocks(r) ==
    /\ pc[r] = "backpressure" /\ batcher.mu = Free
    /\ \/ /\ batcher.closed
          /\ Refuse(r, MapSubmitError(producer)) /\ UNCHANGED batcher
       \/ /\ ~ batcher.closed
          /\ \E b \in FlushBegun(batcher) :
                /\ batcher' = IF Sending(b) THEN Lock(b, "backpressure", r) ELSE b
                /\ pc' = [pc EXCEPT ![r] = IF Sending(b) THEN @ ELSE "waiting"]
          /\ UNCHANGED <<added, producer, closer>>
    /\ UNCHANGED <<outcome, workVars, flushVars, callbacks, sessionVars>>

(* ... and returns.                                                        *)
BackpressureUnlocks(r) ==
    /\ batcher.mu = [op |-> "backpressure", who |-> r] /\ ~ Sending(batcher)
    /\ batcher' = Unlock(batcher)
    /\ \/ batcher.failed /\ Refuse(r, MapSubmitError(producer))
       \/ /\ ~ batcher.failed
          /\ pc' = [pc EXCEPT ![r] = "waiting"]
          /\ UNCHANGED <<added, producer, closer>>
    /\ UNCHANGED <<outcome, workVars, flushVars, callbacks, sessionVars>>

(* reserve: waits until there is room, or it is refused.                   *)
Reserve(r) ==
    /\ pc[r] = "waiting"
    /\ \/ CapacityRefuses(r) /\ Refuse(r, MapSubmitError(producer))
       \/ ~ CapacityRefuses(r) /\ HasCapacity(producer.pool, Size[r]) /\ TakePermit(r)
    /\ UNCHANGED <<batcher, outcome, workVars, flushVars, callbacks, sessionVars>>

(* The checks are repeated because the producer may have been closed while *)
(* the call waited.                                                        *)
Recheck(r) ==
    /\ pc[r] = "reserved"
    /\ \/ NotAccepting /\ Refuse(r, Checked(ReleasePermits(producer, {r})))
       \/ /\ ~ NotAccepting
          /\ pc' = [pc EXCEPT ![r] = "ready"]
          /\ UNCHANGED <<added, producer, closer>>
    /\ UNCHANGED <<batcher, outcome, workVars, flushVars, callbacks, sessionVars>>

-----------------------------------------------------------------------------
(* addWithPermit.  A record without a result channel is added by           *)
(* Batcher.Add, which does not go through Submit.                          *)

(* The record enters the batcher; without a flush to wait for, the call    *)
(* returns.                                                                *)
Enters(r) ==
    /\ added' = Append(added, r)
    /\ \E b \in Added(batcher, r) :
          /\ batcher' = IF Sending(b) THEN b ELSE Unlock(b)
          /\ pc' = [pc EXCEPT ![r] = IF Sending(b) THEN "adding" ELSE "accepted"]

Add(r) ==
    /\ r \in setup.records /\ pc[r] = (IF r \in Watched THEN "ready" ELSE "idle")
    /\ batcher.mu = Free
    /\ \/ /\ batcher.closed
          /\ Refuse(r, ReleasePermits(producer, {r}))
          /\ UNCHANGED batcher
       \/ /\ ~ batcher.closed /\ ~ Overflows(batcher, r)
          /\ Enters(r)
          /\ UNCHANGED <<producer, closer>>
       \/ /\ ~ batcher.closed /\ Overflows(batcher, r)
          /\ batcher' \in {Lock(b, "add", r) : b \in FlushBegun(batcher)}
          /\ pc' = [pc EXCEPT ![r] = "adding"]
          /\ UNCHANGED <<added, producer, closer>>
    /\ UNCHANGED <<outcome, workVars, flushVars, callbacks, sessionVars>>

(* The previous batch is gone, sent or dropped: the error of that flush is *)
(* ignored.                                                                *)
AddAfterFlush(r) ==
    /\ batcher.mu = [op |-> "add", who |-> r] /\ ~ Sending(batcher)
    /\ Enters(r)
    /\ UNCHANGED <<producer, outcome, workVars, flushVars, closer, callbacks, sessionVars>>

AddReturns(r) ==
    /\ batcher.mu = [op |-> "added", who |-> r] /\ ~ Sending(batcher)
    /\ batcher' = Unlock(batcher)
    /\ pc' = [pc EXCEPT ![r] = "accepted"]
    /\ UNCHANGED <<added, producer, outcome, workVars, flushVars, closer, callbacks, sessionVars>>

-----------------------------------------------------------------------------
(* The select of flushLocked, for whoever holds mu.                        *)

SendBatch ==
    /\ Sending(batcher) /\ HasRoom(batcher)
    /\ batcher' = Sent(batcher)
    /\ UNCHANGED <<producer, submitVars, outcome, workVars, flushVars, closer, callbacks,
                   sessionVars>>

(* Mutant: a dropped batch keeps its permits. *)
DropBatchKeepsPermits ==
    /\ Sending(batcher) /\ batcher.ctx
    /\ batcher' = Dropped(batcher)
    /\ outcome' = Resolved(batcher.out.meta, AllFailed(batcher.out.meta, ErrContext))
    /\ UNCHANGED <<producer, submitVars, workVars, flushVars, closer, callbacks, sessionVars>>

DropBatch ==
    /\ Sending(batcher) /\ batcher.ctx
    /\ batcher' = Dropped(batcher)
    /\ producer' = ReleasePermits(producer, MetaRecords(batcher.out.meta))
    /\ outcome' = Resolved(batcher.out.meta, AllFailed(batcher.out.meta, ErrContext))
    /\ UNCHANGED <<submitVars, workVars, flushVars, closer, callbacks, sessionVars>>

(* flushFromTimer *)
FlushFromTimer(seq) ==
    /\ batcher.mu = Free /\ seq \in batcher.scheduled
    /\ batcher' \in TimerFired(batcher, seq)
    /\ UNCHANGED <<producer, submitVars, outcome, workVars, flushVars, closer, callbacks,
                   sessionVars>>

(* Batcher.Flush; with an empty buffer it does nothing.                    *)
BatcherFlush ==
    /\ "directUse" \in setup.may /\ batcher.mu = Free /\ batcher.buffer # <<>>
    /\ batcher' \in {Lock(b, "flush", "nobody") : b \in FlushBegun(batcher)}
    /\ UNCHANGED <<producer, submitVars, outcome, workVars, flushVars, closer, callbacks,
                   sessionVars>>

-----------------------------------------------------------------------------
(* Batcher.close                                                           *)

(* Producer.Close records the error that close returned.                   *)
AfterClose(w, p, err) ==
    IF w = "producer" /\ err # NoErr THEN RecordTerminalError(p, err) ELSE p

CloseLocks(w) ==
    /\ closer[w] = "called" /\ batcher.mu = Free
    /\ \/ /\ batcher.closed
          /\ Becomes(AfterClose(w, producer, batcher.closeErr), [closer EXCEPT ![w] = "returned"])
          /\ UNCHANGED batcher
       \/ /\ ~ batcher.closed
          /\ \E b \in Closing(batcher, w) :
                /\ batcher' = IF Sending(b) THEN b ELSE Unlock(b)
                /\ closer' = [closer EXCEPT ![w] = IF Sending(b) THEN "flushing" ELSE "sealing"]
          /\ UNCHANGED producer
    /\ UNCHANGED <<submitVars, outcome, workVars, flushVars, callbacks, sessionVars>>

CloseUnlocks(w) ==
    /\ closer[w] = "flushing"
    /\ batcher.mu = [op |-> "close", who |-> w] /\ ~ Sending(batcher)
    /\ batcher' = Unlock(batcher)
    /\ closer' = [closer EXCEPT ![w] = "sealing"]
    /\ UNCHANGED <<producer, submitVars, outcome, workVars, flushVars, callbacks, sessionVars>>

(* Mutant: the channel is closed before the last batch is in it. *)
CloseSealsFirst(w) ==
    /\ closer[w] \in {"flushing", "sealing"}
    /\ batcher' = [batcher EXCEPT !.ctx = TRUE, !.chClosed = TRUE]
    /\ Becomes(AfterClose(w, producer, batcher.closeErr), [closer EXCEPT ![w] = "returned"])
    /\ UNCHANGED <<submitVars, outcome, workVars, flushVars, callbacks, sessionVars>>

(* cancel and close(batchesCh), outside mu                                 *)
CloseSeals(w) ==
    /\ closer[w] = "sealing"
    /\ batcher' = [batcher EXCEPT !.ctx = TRUE, !.chClosed = TRUE]
    /\ Becomes(AfterClose(w, producer, batcher.closeErr), [closer EXCEPT ![w] = "returned"])
    /\ UNCHANGED <<submitVars, outcome, workVars, flushVars, callbacks, sessionVars>>

(* Batcher.Close called by the application                                 *)
CloseBatcher ==
    /\ "directUse" \in setup.may /\ closer["user"] = "idle"
    /\ closer' = [closer EXCEPT !["user"] = "called"]
    /\ UNCHANGED <<batcher, producer, submitVars, outcome, workVars, flushVars, callbacks,
                   sessionVars>>

-----------------------------------------------------------------------------
(* The consumer of the batch channel.                                      *)

ReceiveAt(at, batch, who) == consumer' = [at |-> at, batch |-> batch, who |-> who]
Receiving == ReceiveAt("receive", NoBatch, "nobody")

(* processBatch up to session.Submit, or the start of a barrier            *)
Receive ==
    /\ consumer.at = "receive" /\ batcher.ch # <<>>
    /\ batcher' = [batcher EXCEPT !.ch = Tail(@)]
    /\ LET o == Head(batcher.ch)
       IN  \/ /\ IsBarrier(o)
              /\ ReceiveAt("barrier", NoBatch, o.barrier)
              /\ UNCHANGED <<producer, outcome, closer, sessionVars>>
           \/ /\ ~ IsBarrier(o) /\ producer.terminalErr # NoErr
              /\ producer' = DispatchedError(producer, o.meta, producer.terminalErr)
              /\ outcome' = Resolved(o.meta, AllFailed(o.meta, producer.terminalErr))
              /\ UNCHANGED <<consumer, closer, sessionVars>>
           \/ /\ ~ IsBarrier(o) /\ producer.terminalErr = NoErr /\ ~ sessionOpen
              /\ Becomes(RecordTerminalError(producer, ErrAppend), closer)
              /\ ReceiveAt("failing", o, "nobody")
              /\ UNCHANGED <<outcome, sessionVars>>
           \/ /\ ~ IsBarrier(o) /\ producer.terminalErr = NoErr /\ sessionOpen
              /\ tickets' = Append(tickets, [batch |-> o, start |-> 0, is |-> "submitted"])
              /\ ReceiveAt("submitted", o, "nobody")
              /\ UNCHANGED <<producer, outcome, closer, log, sessionOpen>>
    /\ UNCHANGED <<submitVars, ackWaiters, flushVars, callbacks>>

(* Mutant: the next batch is submitted without waiting for the ticket. *)
AwaitNothing ==
    /\ consumer.at = "submitted"
    /\ ackWaiters' = ackWaiters \cup {Len(tickets)}
    /\ Receiving
    /\ UNCHANGED <<batcher, producer, submitVars, outcome, flushVars, closer, callbacks,
                   sessionVars>>

(* waitForBatchSubmission: a result that is ready is preferred to the end  *)
(* of the context.                                                         *)
AwaitSubmission ==
    /\ consumer.at = "submitted"
    /\ LET i == Len(tickets)
       IN  \/ /\ tickets[i].is \in {"ticket", "appended", "acked", "failed"}
              /\ ackWaiters' = ackWaiters \cup {i}
              /\ Receiving
              /\ UNCHANGED <<producer, closer>>
           \/ /\ tickets[i].is = "rejected"
              /\ Becomes(RecordTerminalError(producer, ErrAppend), closer)
              /\ consumer' = [consumer EXCEPT !.at = "failing"]
              /\ UNCHANGED ackWaiters
           \/ /\ tickets[i].is = "submitted" /\ producer.ctx
              /\ Becomes(RecordTerminalError(producer, ErrContext), closer)
              /\ consumer' = [consumer EXCEPT !.at = "failing"]
              /\ UNCHANGED ackWaiters
    /\ UNCHANGED <<batcher, submitVars, outcome, flushVars, callbacks, sessionVars>>

(* Mutant: the records of the batch are not told. *)
FailBatchSilently ==
    /\ consumer.at = "failing" /\ ackWaiters = {}
    /\ producer' = DispatchedError(producer, consumer.batch.meta, producer.terminalErr)
    /\ Receiving
    /\ UNCHANGED <<batcher, submitVars, outcome, ackWaiters, flushVars, closer, callbacks,
                   sessionVars>>

(* resolveSynchronousBatchError, after its recordTerminalError             *)
FailBatch ==
    /\ consumer.at = "failing" /\ ackWaiters = {}
    /\ producer' = DispatchedError(producer, consumer.batch.meta, producer.terminalErr)
    /\ outcome' = Resolved(consumer.batch.meta, AllFailed(consumer.batch.meta, producer.terminalErr))
    /\ Receiving
    /\ UNCHANGED <<batcher, submitVars, ackWaiters, flushVars, closer, callbacks, sessionVars>>

(* Mutants: the barrier does not wait; it reports the terminal error. *)
ReachBarrierEarly ==
    /\ consumer.at = "barrier"
    /\ barrier' = [barrier EXCEPT ![consumer.who] = producer.appendErr]
    /\ Receiving
    /\ UNCHANGED <<batcher, producer, submitVars, outcome, ackWaiters, call, ordered, covered,
                   closer, callbacks, sessionVars>>

ReachBarrierTerminal ==
    /\ consumer.at = "barrier" /\ ackWaiters = {}
    /\ barrier' = [barrier EXCEPT ![consumer.who] = producer.terminalErr]
    /\ Receiving
    /\ UNCHANGED <<batcher, producer, submitVars, outcome, ackWaiters, call, ordered, covered,
                   closer, callbacks, sessionVars>>

(* A barrier: every batch before it is settled.                            *)
ReachBarrier ==
    /\ consumer.at = "barrier" /\ ackWaiters = {}
    /\ barrier' = [barrier EXCEPT ![consumer.who] = producer.appendErr]
    /\ Receiving
    /\ UNCHANGED <<batcher, producer, submitVars, outcome, ackWaiters, call, ordered, covered,
                   closer, callbacks, sessionVars>>

(* The channel is closed and empty; consumerDone is closed once every      *)
(* waiter has finished.                                                    *)
ConsumerDrains ==
    /\ consumer.at = "receive" /\ batcher.ch = <<>> /\ batcher.chClosed
    /\ ackWaiters = {}
    /\ ReceiveAt("done", NoBatch, "nobody")
    /\ UNCHANGED <<batcher, producer, submitVars, outcome, ackWaiters, flushVars, closer,
                   callbacks, sessionVars>>

(* IndexedAppendAck: the acknowledgement of one record of a batch          *)
IndexedAck(ticket, m) == Acked(ticket.start + m.index)

(* The goroutine that waits for the acknowledgement of one batch:          *)
(* waitForBatchAck, which prefers a result that is ready to the end of the *)
(* context, and resolveBatchAck or dispatchBatchError.                     *)
AwaitAck(i) ==
    /\ i \in ackWaiters
    /\ LET meta == tickets[i].batch.meta
           Fail(err) ==
               LET p == RecordTerminalError(producer, err)
               IN  /\ Becomes(DispatchedError(p, meta, p.terminalErr), closer)
                   /\ outcome' = Resolved(meta, AllFailed(meta, p.terminalErr))
       IN  \/ /\ tickets[i].is = "acked"
              /\ producer' = ReleasePermits(producer, MetaRecords(meta))
              /\ outcome' = Resolved(meta, [k \in DOMAIN meta |-> IndexedAck(tickets[i], meta[k])])
              /\ UNCHANGED closer
           \/ tickets[i].is = "failed" /\ Fail(ErrAppend)
           \/ tickets[i].is \in {"ticket", "appended"} /\ producer.ctx /\ Fail(ErrContext)
    /\ ackWaiters' = ackWaiters \ {i}
    /\ UNCHANGED <<batcher, submitVars, consumer, flushVars, callbacks, sessionVars>>

-----------------------------------------------------------------------------
(* Flush                                                                   *)

Flush(f) ==
    /\ call[f] = "idle"
    /\ covered' = [covered EXCEPT ![f] = {r \in Records : pc[r] = "accepted"}]
    /\ \/ /\ NotAccepting /\ producer.closing /\ producer.terminalErr = NoErr
          /\ call' = [call EXCEPT ![f] = "closed"]
          /\ UNCHANGED <<ordered, producer, closer>>
       \/ /\ NotAccepting /\ (producer.closing => producer.terminalErr # NoErr)
          /\ call' = [call EXCEPT ![f] = "draining"]
          /\ Becomes(Checked(producer), closer)
          /\ UNCHANGED ordered
       \/ /\ ~ NotAccepting
          /\ call' = [call EXCEPT ![f] = "waiting"]
          /\ ordered' = [ordered EXCEPT ![f] = "pending"]
          /\ UNCHANGED <<producer, closer>>
    /\ UNCHANGED <<batcher, submitVars, outcome, workVars, barrier, callbacks, sessionVars>>

(* flushBarrier, after its flush: the barrier can be sent unless the       *)
(* context is done.                                                        *)
BarrierFails(f) ==
    /\ batcher' = Unlock(batcher)
    /\ ordered' = [ordered EXCEPT ![f] = "terminal"]
    /\ Becomes(RecordTerminalError(producer, ErrContext), closer)

AfterBarrierFlush(f) ==
    \/ (batcher.failed \/ batcher.ctx) /\ BarrierFails(f)
    \/ /\ ~ batcher.failed /\ ~ batcher.ctx
       /\ batcher' = Lock(batcher, "barrierSend", f)
       /\ ordered' = [ordered EXCEPT ![f] = "locked"]
       /\ UNCHANGED <<producer, closer>>

(* flushBarrier takes mu and flushes, ...                                  *)
BarrierLocks(f) ==
    /\ ordered[f] = "pending" /\ batcher.mu = Free
    /\ covered' = [covered EXCEPT ![f] = @ \cup RecordsOf(added)]
    /\ \/ /\ batcher.closed
          /\ ordered' = [ordered EXCEPT ![f] = "closed"]
          /\ UNCHANGED <<batcher, producer, closer>>
       \/ /\ ~ batcher.closed /\ batcher.buffer # <<>>
          /\ batcher' \in {Lock(b, "barrier", f) : b \in FlushBegun(batcher)}
          /\ ordered' = [ordered EXCEPT ![f] = "locked"]
          /\ UNCHANGED <<producer, closer>>
       \/ ~ batcher.closed /\ batcher.buffer = <<>> /\ AfterBarrierFlush(f)
    /\ UNCHANGED <<submitVars, outcome, workVars, call, barrier, callbacks, sessionVars>>

(* ... waits for that flush, ...                                           *)
BarrierFlushed(f) ==
    /\ batcher.mu = [op |-> "barrier", who |-> f] /\ ~ Sending(batcher)
    /\ AfterBarrierFlush(f)
    /\ UNCHANGED <<submitVars, outcome, workVars, call, barrier, covered, callbacks, sessionVars>>

(* ... or sends the barrier.                                               *)
BarrierSends(f) ==
    /\ batcher.mu = [op |-> "barrierSend", who |-> f]
    /\ \/ /\ HasRoom(batcher)
          /\ batcher' = [Unlock(batcher) EXCEPT !.ch = Append(@, [barrier |-> f])]
          /\ ordered' = [ordered EXCEPT ![f] = "nil"]
          /\ UNCHANGED <<producer, closer>>
       \/ batcher.ctx /\ BarrierFails(f)
    /\ UNCHANGED <<submitVars, outcome, workVars, call, barrier, covered, callbacks, sessionVars>>

(* waitForTerminalDrain waits for consumerDone.                            *)
TerminalDrained == consumer.at = "done"

(* The caller returns what the barrier reports; if the barrier could not   *)
(* be ordered, ErrSessionClosed or, after waitForTerminalDrain, the        *)
(* terminal error.                                                         *)
FlushReturns(f) ==
    /\ \/ /\ call[f] = "waiting" /\ ordered[f] = "nil" /\ barrier[f] # "none"
          /\ call' = [call EXCEPT ![f] = IF barrier[f] = NoErr THEN "ok" ELSE "failed"]
       \/ /\ call[f] = "waiting" /\ ordered[f] = "closed" /\ producer.terminalErr = NoErr
          /\ call' = [call EXCEPT ![f] = "closed"]
       \/ /\ \/ call[f] = "draining"
             \/ call[f] = "waiting" /\ ordered[f] = "terminal"
             \/ call[f] = "waiting" /\ ordered[f] = "closed" /\ producer.terminalErr # NoErr
          /\ TerminalDrained
          /\ call' = [call EXCEPT ![f] = "terminal"]
    /\ UNCHANGED <<batcher, producer, submitVars, outcome, workVars, ordered, barrier, covered,
                   closer, callbacks, sessionVars>>

(* The context given to Flush ends; its goroutine goes on.                 *)
FlushAbandoned(f) ==
    /\ "flushAbandoned" \in setup.may /\ call[f] \in {"waiting", "draining"}
    /\ call' = [call EXCEPT ![f] = "abandoned"]
    /\ UNCHANGED <<batcher, producer, submitVars, outcome, workVars, ordered, barrier, covered,
                   closer, callbacks, sessionVars>>

-----------------------------------------------------------------------------
(* Close, up to its call of batcher.close                                  *)
Close ==
    /\ closer["producer"] = "idle"
    /\ producer' = CancelSubmit([producer EXCEPT !.closing = TRUE, !.pool = ClosedPool(@)],
                                ErrSessionClosed)
    /\ closer' = [closer EXCEPT !["producer"] = "called"]
    /\ UNCHANGED <<batcher, submitVars, outcome, workVars, flushVars, callbacks, sessionVars>>

(* The rest of Close, once consumerDone is closed: a cancelled parent is   *)
(* looked for before Close cancels the context itself.                     *)
CloseReturns ==
    /\ closer["producer"] = "returned" /\ consumer.at = "done"
    /\ LET p == IF producer.ctx THEN RecordTerminalError(producer, ErrContext) ELSE producer
       IN  Becomes(CancelCtx(p), [closer EXCEPT !["producer"] =
                                     IF p.terminalErr = NoErr THEN "ok" ELSE "failed"])
    /\ UNCHANGED <<batcher, submitVars, outcome, workVars, flushVars, callbacks, sessionVars>>

-----------------------------------------------------------------------------
(* The contexts.                                                           *)

CancelBatcher ==
    /\ "batcherCancelled" \in setup.may /\ ~ batcher.ctx
    /\ batcher' = [batcher EXCEPT !.ctx = TRUE]
    /\ UNCHANGED <<producer, submitVars, outcome, workVars, flushVars, closer, callbacks,
                   sessionVars>>

CancelProducer ==
    /\ "producerCancelled" \in setup.may /\ ~ producer.ctx
    /\ producer' = CancelCtx(producer)
    /\ UNCHANGED <<batcher, submitVars, outcome, workVars, flushVars, closer, callbacks,
                   sessionVars>>

(* The AfterFunc of the batcher's context; shutdownCause needs mu.         *)
BatcherCancelled ==
    /\ "batcher" \in callbacks /\ batcher.ctx /\ batcher.mu = Free
    /\ callbacks' = callbacks \ {"batcher"}
    /\ LET cause == ShutdownCause(batcher)
           p == CancelSubmit(producer, cause)
       IN  Becomes(IF cause = ErrSessionClosed THEN p ELSE RecordTerminalError(p, cause), closer)
    /\ UNCHANGED <<batcher, submitVars, outcome, workVars, flushVars, sessionVars>>

(* The AfterFunc of the producer's context.                                *)
ProducerCancelled ==
    /\ "producer" \in callbacks /\ producer.ctx
    /\ callbacks' = callbacks \ {"producer"}
    /\ Becomes(IF producer.closing THEN producer ELSE RecordTerminalError(producer, ErrContext),
               closer)
    /\ UNCHANGED <<batcher, submitVars, outcome, workVars, flushVars, sessionVars>>

-----------------------------------------------------------------------------
(* The append session.                                                     *)

SessionUnchanged ==
    UNCHANGED <<batcher, producer, submitVars, outcome, workVars, flushVars, closer, callbacks>>

(* The future of a batch resolves, to a ticket or to an error.             *)
SessionAnswers(i) ==
    /\ tickets[i].is = "submitted"
    /\ tickets' = [tickets EXCEPT ![i].is = IF sessionOpen THEN "ticket" ELSE "rejected"]
    /\ UNCHANGED <<log, sessionOpen>> /\ SessionUnchanged

(* The batch may be appended at the tail of the stream.                    *)
Matches(batch) == batch.match \in {NoMatch, Len(log)}

(* No record is in the stream twice.                                       *)
NoneTwice == \A i, j \in DOMAIN log : log[i] = log[j] => i = j

(* The ticket is neither acknowledged nor failed.                          *)
Open(i) == tickets[i].is \in {"ticket", "appended"}

Appends(i) ==
    /\ Matches(tickets[i].batch)
    /\ log' = log \o tickets[i].batch.records

(* Batches are applied in the order of their tickets, ...                  *)
SessionAppends(i) ==
    /\ tickets[i].is = "ticket" /\ \A j \in 1 .. i - 1 : tickets[j].is # "ticket"
    /\ Appends(i)
    /\ tickets' = [tickets EXCEPT ![i].is = "appended", ![i].start = Len(log)]
    /\ UNCHANGED sessionOpen /\ SessionUnchanged

(* ... and acknowledged in that order.  Once something is in the stream    *)
(* twice, the acknowledgement of a copy may be taken for that of another   *)
(* batch: it may come before the batch is applied and name any position.   *)
SessionAcks(i) ==
    /\ Open(i) /\ \A j \in 1 .. i - 1 : ~ Open(j)
    /\ \E start \in 0 .. Len(log) :
          /\ NoneTwice => tickets[i].is = "appended" /\ start = tickets[i].start
          /\ tickets' = [tickets EXCEPT ![i].is = "acked", ![i].start = start]
    /\ UNCHANGED <<log, sessionOpen>> /\ SessionUnchanged

(* An append whose acknowledgement is late or lost is sent again, by the   *)
(* default AppendRetryPolicyAll or to a server that is draining, and so a  *)
(* batch that was applied is applied again; a batch that was acknowledged  *)
(* by mistake may still be applied.  A condition does not let it pass.     *)
SessionRepeats(i) ==
    /\ "resends" \in setup.may /\ Len(log) < MaxStream
    /\ tickets[i].is \notin {"submitted", "rejected"}
    /\ NoneTwice => RecordsOf(tickets[i].batch.records) \subseteq RecordsOf(log)
    /\ Appends(i)
    /\ UNCHANGED <<tickets, sessionOpen>> /\ SessionUnchanged

(* The session fails or is closed: every open ticket fails, though its     *)
(* batch may have been applied.                                            *)
SessionFails ==
    /\ "sessionFails" \in setup.may /\ sessionOpen
    /\ sessionOpen' = FALSE
    /\ tickets' = [i \in DOMAIN tickets |->
                      IF Open(i) THEN [tickets[i] EXCEPT !.is = "failed"] ELSE tickets[i]]
    /\ UNCHANGED log /\ SessionUnchanged

-----------------------------------------------------------------------------
SubmitStep(r) ==
    \/ TryReserve(r) \/ BackpressureLocks(r) \/ BackpressureUnlocks(r) \/ Reserve(r)
    \/ Recheck(r) \/ (r \in Watched /\ Add(r)) \/ AddAfterFlush(r) \/ AddReturns(r)

FlushStep(f) ==
    BarrierLocks(f) \/ BarrierFlushed(f) \/ BarrierSends(f) \/ FlushReturns(f)

CloseStep(w) == CloseLocks(w) \/ CloseUnlocks(w) \/ CloseSeals(w)

ConsumerStep ==
    Receive \/ AwaitSubmission \/ FailBatch \/ ReachBarrier \/ ConsumerDrains

SessionStep ==
    \E i \in DOMAIN tickets : SessionAnswers(i) \/ SessionAppends(i) \/ SessionAcks(i)

Step ==
    \/ \E r \in Records : Submit(r) \/ SubmitStep(r) \/ (r \notin Watched /\ Add(r))
    \/ SendBatch \/ DropBatch \/ BatcherFlush
    \/ \E seq \in batcher.scheduled : FlushFromTimer(seq)
    \/ \E f \in Flushes : Flush(f) \/ FlushStep(f) \/ FlushAbandoned(f)
    \/ Close \/ CloseReturns \/ CloseBatcher
    \/ \E w \in Closers : CloseStep(w)
    \/ ConsumerStep
    \/ \E i \in DOMAIN tickets : AwaitAck(i)
    \/ CancelBatcher \/ CancelProducer \/ BatcherCancelled \/ ProducerCancelled
    \/ SessionStep \/ SessionFails
    \/ \E i \in DOMAIN tickets : SessionRepeats(i)

Next == Step /\ UNCHANGED setup

Spec == Init /\ [][Next]_<<vars, setup>>

(* What goes on without a new call of the application: goroutines that can *)
(* run, timers, and an append session that settles its tickets             *)
(* (TicketsResolve and SubmitsAnswered of AppendSession).                  *)
Progress ==
    \/ \E r \in Watched : SubmitStep(r)
    \/ \E r \in Records \ Watched : AddAfterFlush(r) \/ AddReturns(r)
    \/ SendBatch \/ DropBatch
    \/ \E seq \in batcher.scheduled : FlushFromTimer(seq)
    \/ \E f \in Flushes : FlushStep(f)
    \/ \E w \in Closers : CloseStep(w)
    \/ CloseReturns \/ ConsumerStep
    \/ \E i \in DOMAIN tickets : AwaitAck(i)
    \/ BatcherCancelled \/ ProducerCancelled \/ SessionStep

(* No goroutine loops without waiting for another one, so it is enough     *)
(* that some of them goes on as long as one can.                           *)
FairSpec == Spec /\ WF_vars(Progress)

-----------------------------------------------------------------------------
(* Properties.                                                             *)

(* The capacity in use is exactly the bytes of the records that hold a     *)
(* permit: from the grant until the record is resolved or refused, through *)
(* batches dropped, failed, acknowledged and submissions refused late      *)
(* (producerPermit, releaseProducerPermits).                               *)
PermitsConserved ==
    producer.pool.bytes =
        BytesOf({r \in Watched : /\ pc[r] \in {"reserved", "ready", "adding", "accepted"}
                                 /\ outcome[r] = Unresolved})

(* SeqNum of a record's acknowledgement is its position in the stream,     *)
(* whatever else was batched with it (recordMeta.index), as long as the    *)
(* session has repeated nothing.                                           *)
SeqNumExact ==
    NoneTwice =>
        \A r \in Watched :
            outcome[r].is = "acked" =>
                outcome[r].seqNum < Len(log) /\ log[outcome[r].seqNum + 1] = r

(* With MatchSeqNum the next batch to apply always carries the position the*)
(* stream really has, as long as the session works: batching, dropped      *)
(* batches and barriers never make the producer's own appends conflict.    *)
ConditionsHold ==
    \A i \in DOMAIN tickets :
        (/\ tickets[i].is \in {"submitted", "ticket"} /\ sessionOpen
         /\ \A j \in 1 .. i - 1 : tickets[j].is \in {"appended", "acked"})
        => Matches(tickets[i].batch)

(* Positions are exact in both directions, within the types of the fields: *)
(* those the server assigns and those the producer predicts.               *)
PositionsExact == TypeOK /\ SeqNumExact /\ ConditionsHold

(* With MatchSeqNum no record is ever in the stream twice: every batch has *)
(* its condition, which lets no repetition by the session pass.  Without   *)
(* it, the default retry policy may duplicate a batch; as long as it has   *)
(* not, the stream holds the records in the order they were accepted.      *)
StreamInOrder ==
    /\ setup.matchSeqNum # NoMatch => NoneTwice
    /\ NoneTwice =>
          \A i, j \in DOMAIN log : i < j =>
              \E k, m \in DOMAIN added : k < m /\ added[k] = log[i] /\ added[m] = log[j]

(* A Flush that returns nil covers records that are all acknowledged: those*)
(* accepted before it was called and those ordered before its barrier.     *)
FlushIsDurable ==
    \A f \in Flushes :
        call[f] = "ok" => \A r \in covered[f] \cap Watched : outcome[r].is = "acked"

(* A barrier reports an error only if a record it covers failed; the end   *)
(* of the parent context alone does not make it fail.                      *)
BarrierErrorIsReal ==
    \A f \in Flushes :
        call[f] = "failed" => \E r \in covered[f] : r \notin Watched \/ outcome[r].is = "failed"

(* When Close has returned, every record Submit accepted is resolved, and  *)
(* the only capacity still held is that of Submit calls about to be        *)
(* refused.  If it returned nil, all of them are acknowledged; if it       *)
(* returned an error, a parent context may have ended or a record was not  *)
(* acknowledged.                                                           *)
CloseIsHonest ==
    closer["producer"] \in {"ok", "failed"} =>
        /\ \A r \in Watched :
              /\ pc[r] = "accepted" => outcome[r].is # "none"
              /\ closer["producer"] = "ok" => outcome[r].is # "failed"
        /\ \A r \in producer.permits : pc[r] \in {"reserved", "ready"}
        /\ closer["producer"] = "failed" =>
              \/ setup.may \cap {"batcherCancelled", "producerCancelled"} # {}
              \/ \E r \in RecordsOf(added) : r \notin Watched \/ outcome[r].is = "failed"

(* What Flush and Close report is what became of the records: an error is  *)
(* never made up and never kept back.                                      *)
ReportsAreHonest == BarrierErrorIsReal /\ CloseIsHonest

(* Nothing is sent on the batch channel once it is closed, which would     *)
(* panic, and nothing is left in the buffer of a closed batcher.           *)
ChannelClosedLast ==
    batcher.chClosed =>
        /\ ~ Sending(batcher) /\ batcher.mu.op # "barrierSend"
        /\ batcher.buffer = <<>>

(* A record does not wait in the buffer without a timer that will flush it,*)
(* however timers were stopped, replaced or late, and no timer is kept for *)
(* an empty buffer.                                                        *)
LingerArmed ==
    (setup.linger /\ batcher.mu = Free) =>
        /\ batcher.buffer # <<>> <=> batcher.timer
        /\ batcher.timer => batcher.timerSeq \in batcher.scheduled

(* Every Submit is refused, or its record is eventually resolved: neither  *)
(* backpressure (flushForBackpressure) nor a lost outcome leaves it waiting.*)
RecordsResolve ==
    \A r \in Watched : pc[r] = "entered" ~> pc[r] = "refused" \/ outcome[r] # Unresolved

(* Flush and Close return, whatever fails and however full the channel is. *)
FlushesReturn ==
    \A f \in Flushes :
        call[f] # "idle" ~> call[f] \in {"ok", "failed", "closed", "terminal", "abandoned"}

CloseCompletes ==
    closer["producer"] # "idle" ~> closer["producer"] \in {"ok", "failed"}

(* Everything the application waits for comes: records, Flush and Close.   *)
ProducerSettles == RecordsResolve /\ FlushesReturn /\ CloseCompletes

=============================================================================
