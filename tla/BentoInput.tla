----------------------------- MODULE BentoInput -----------------------------
(***************************************************************************)
(* One stream of the Bento input (s2-bentobox): seqNumCache (input.go), the*)
(* streamInput and toAckMap of each read session (stream_input.go), the    *)
(* source loop that opens one session after another and the manager that   *)
(* stops it (multi_stream_input.go).                                       *)
(*                                                                         *)
(* The position to resume from is kept in memory and in a durable cache of *)
(* the user.  Batches hold one record, as session.Next returns them.  The  *)
(* acknowledgement of a batch may come at any time: after its session was  *)
(* closed and followed by others, after the stream was pruned, after the   *)
(* stream was deleted and created anew.  A crash loses everything but the  *)
(* durable cache and the stream.  External: the read session (see          *)
(* ReadSession), the durable cache, and Bento, which acks or nacks.        *)
(***************************************************************************)
EXTENDS Integers, Sequences, FiniteSets

CONSTANTS
    MaxRecords,    \* bound on the records of the stream
    MaxSessions,   \* bound on the read sessions opened
    MaxInFlight,   \* InputConfig.MaxInFlight
    MaxFaults,     \* bound on failures, restarts, prunes and recreations
    MaxNacks,      \* bound on nacks
    StartSeqNum    \* InputConfig.StartSeqNum: "earliest" or "latest"

ASSUME BentoAssumption ==
    /\ {MaxRecords, MaxSessions, MaxInFlight, MaxFaults, MaxNacks} \subseteq Nat
    /\ StartSeqNum \in {"earliest", "latest"}

VARIABLES
    tail,         \* records in the stream
    incarnation,  \* how often the stream was created anew
    mem, durable, \* seqNumCache.mem and SeqNumCache: the next position, or NoEntry
    gen,          \* streamGen.gen
    manager,      \* the streamsManager's dealings with this stream
    worker,       \* the stream's source loop
    current,      \* the session it reads from
    session,      \* session[s]: a streamInput
    inputStream,  \* the channel to ReadBatch
    held,         \* batches in Bento's hands, not yet acked or nacked
    givenUp,      \* batches whose nack found no room (ghost)
    acked,        \* records acked since the stream was created (ghost)
    corrected,    \* the position was reset to the tail and kept since (ghost)
    faults, nackCount

vars == <<tail, incarnation, mem, durable, gen, manager, worker, current, session,
          inputStream, held, givenUp, acked, corrected, faults, nackCount>>

SeqNums == 0 .. MaxRecords - 1
Sessions == 1 .. MaxSessions
NoEntry == -1
NoBatch == -1
Positions == {NoEntry} \cup 0 .. MaxRecords

(* A batch, or an error, on its way to Bento: the session and the record. *)
Deliveries == Sessions \X (SeqNums \cup {NoBatch})

(***************************************************************************)
(* A streamInput: where the read session started and stands, the cache     *)
(* generation it captured, its toAckMap (a record is absent, unacked or    *)
(* acked), its nacks channel, and whether it is open.                      *)
(***************************************************************************)
StreamInputs ==
    [start: 0 .. MaxRecords, pos: 0 .. MaxRecords, gen: Nat, incarnation: Nat, open: BOOLEAN,
     toAck: [SeqNums -> {"absent", "unacked", "acked"}], nacks: Seq(SeqNums)]

(* connectStreamInput *)
NewStreamInput(start) ==
    [start |-> start, pos |-> start, gen |-> gen, incarnation |-> incarnation, open |-> TRUE,
     toAck |-> [n \in SeqNums |-> "absent"], nacks |-> <<>>]

NeverOpened == [start |-> 0, pos |-> 0, gen |-> 0, incarnation |-> 0, open |-> FALSE,
                toAck |-> [n \in SeqNums |-> "absent"], nacks |-> <<>>]

(***************************************************************************)
(* The source loop: connecting, with what the durable cache said, at the   *)
(* head of streamSourceRecvLoop, in session.Next, sending a batch or an    *)
(* error to inputStream, or gone.                                          *)
(***************************************************************************)
WorkerPhases == {"connect", "lookup", "reading", "next", "sending", "stopped"}

BentoTypeOK ==
    /\ tail \in 0 .. MaxRecords /\ incarnation \in Nat
    /\ mem \in Positions /\ durable \in Positions /\ gen \in Nat
    /\ manager \in {"run", "pruning", "removed", "closing", "closed"}
    /\ worker \in [phase: WorkerPhases, batch: Positions]
    /\ current \in 0 .. MaxSessions
    /\ session \in [Sessions -> StreamInputs]
    /\ inputStream \in Seq(Deliveries) /\ Len(inputStream) <= MaxInFlight
    /\ held \subseteq Deliveries
    /\ acked \subseteq SeqNums

At(phase) == [phase |-> phase, batch |-> NoBatch]

Init ==
    /\ tail = 0 /\ incarnation = 0
    /\ mem = NoEntry /\ durable = NoEntry /\ gen = 0
    /\ manager = "run" /\ worker = At("connect")
    /\ current = 0 /\ session = [s \in Sessions |-> NeverOpened]
    /\ inputStream = <<>> /\ held = {} /\ givenUp = {}
    /\ acked = {} /\ corrected = FALSE
    /\ faults = 0 /\ nackCount = 0

Fault == faults < MaxFaults /\ faults' = faults + 1

-----------------------------------------------------------------------------
(* The cache.                                                              *)

(* inner.Set, which may fail; ok tells. *)
InnerSet(value, ok) ==
    \/ ok /\ durable' = value /\ UNCHANGED faults
    \/ ~ok /\ Fault /\ UNCHANGED durable

(* Mutant: the generation of the acknowledgement is ignored. *)
CacheSetAlways(value, g, ok) == mem' = value /\ InnerSet(value, ok)

(* Set, of an acknowledgement that carries generation g. *)
CacheSet(value, g, ok) ==
    IF g < gen
    THEN ok /\ UNCHANGED <<mem, durable, faults>>
    ELSE mem' = value /\ InnerSet(value, ok)

(* ResetToTail, after a 416, bumps the generation. *)
ResetToTail(value) ==
    /\ gen' = gen + 1
    /\ mem' = value
    /\ \E ok \in BOOLEAN : InnerSet(value, ok)

-----------------------------------------------------------------------------
(* The stream.                                                             *)

ClientAppends ==
    /\ tail < MaxRecords
    /\ tail' = tail + 1
    /\ UNCHANGED <<incarnation, mem, durable, gen, manager, worker, current, session,
                   inputStream, held, acked, corrected, faults, nackCount, givenUp>>

(* Deleted and created again under the same name. *)
StreamRecreated ==
    /\ Fault
    /\ incarnation' = incarnation + 1
    /\ tail' = 0 /\ acked' = {} /\ corrected' = FALSE
    /\ UNCHANGED <<mem, durable, gen, manager, worker, current, session, inputStream, held,
                   nackCount, givenUp>>

-----------------------------------------------------------------------------
(* The source loop.                                                        *)

WorkerCancelled == manager \in {"pruning", "closing"}

CloseSession == session' = [session EXCEPT ![current].open = FALSE]

(* streamSource: seqNumCache.Get finds nothing in memory and asks the      *)
(* durable cache, whose error counts as a miss.  No lock is held: an       *)
(* acknowledgement may move the position before the value is kept.         *)
CacheMiss ==
    /\ worker.phase = "connect" /\ ~WorkerCancelled
    /\ mem = NoEntry
    /\ \E found \in {durable, NoEntry} :
          /\ IF found = durable THEN UNCHANGED faults ELSE Fault
          /\ worker' = [phase |-> "lookup", batch |-> found]
    /\ UNCHANGED <<tail, incarnation, mem, durable, gen, manager, current, session, inputStream,
                   held, acked, corrected, nackCount, givenUp>>

(* Where ReadSession starts without an entry. *)
DefaultStart == IF StartSeqNum = "earliest" THEN 0 ELSE tail

(* The session is opened at the cached position, or the default. *)
Connect ==
    /\ current < MaxSessions
    /\ \/ /\ worker.phase = "connect" /\ ~WorkerCancelled
          /\ mem # NoEntry
          /\ UNCHANGED mem
          /\ session' = [session EXCEPT ![current + 1] = NewStreamInput(mem)]
       \/ /\ worker.phase = "lookup"
          /\ mem' = IF worker.batch # NoEntry THEN worker.batch ELSE mem
          /\ session' = [session EXCEPT ![current + 1] =
                           NewStreamInput(IF worker.batch # NoEntry THEN worker.batch
                                          ELSE DefaultStart)]
    /\ current' = current + 1
    /\ worker' = At("reading")
    /\ UNCHANGED <<tail, incarnation, durable, gen, manager, inputStream, held, acked,
                   corrected, faults, nackCount, givenUp>>

(* handleBatch: tracked as unacked, on its way to inputStream; input is the *)
(* session without the record taken from it.                               *)
HandleBatch(n, input) ==
    /\ worker' = [phase |-> "sending", batch |-> n]
    /\ session' = [session EXCEPT ![current] = [input EXCEPT !.toAck[n] = "unacked"]]

(* ReadBatch: a nacked batch first ... *)
ReadNacked ==
    /\ worker.phase = "reading" /\ ~WorkerCancelled
    /\ session[current].nacks # <<>>
    /\ HandleBatch(Head(session[current].nacks), [session[current] EXCEPT !.nacks = Tail(@)])
    /\ UNCHANGED <<tail, incarnation, mem, durable, gen, manager, current, inputStream, held,
                   acked, corrected, faults, nackCount, givenUp>>

(* ... otherwise into session.Next, which blocks until there is a record,  *)
(* whatever is nacked meanwhile.                                           *)
EnterNext ==
    /\ worker.phase = "reading" /\ ~WorkerCancelled
    /\ session[current].nacks = <<>>
    /\ worker' = At("next")
    /\ UNCHANGED <<tail, incarnation, mem, durable, gen, manager, current, session, inputStream,
                   held, acked, corrected, faults, nackCount, givenUp>>

NextRecord ==
    /\ worker.phase = "next"
    /\ session[current].incarnation = incarnation
    /\ session[current].pos < tail
    /\ HandleBatch(session[current].pos, [session[current] EXCEPT !.pos = @ + 1])
    /\ UNCHANGED <<tail, incarnation, mem, durable, gen, manager, current, inputStream, held,
                   acked, corrected, faults, nackCount, givenUp>>

(* Next ends with an error, which is forwarded, or without one; a session  *)
(* of a stream that was created anew cannot go on.                         *)
SessionEnds ==
    /\ worker.phase = "next"
    /\ IF session[current].incarnation = incarnation THEN Fault ELSE UNCHANGED faults
    /\ \/ worker' = At("sending") /\ UNCHANGED session
       \/ worker' = At("connect") /\ CloseSession
    /\ UNCHANGED <<tail, incarnation, mem, durable, gen, manager, current, inputStream, held,
                   acked, corrected, nackCount, givenUp>>

(* A 416: the position lies beyond the tail. *)
RangeNotSatisfiable ==
    /\ worker.phase = "next"
    /\ session[current].start > tail /\ session[current].incarnation = incarnation
    /\ ResetToTail(tail)
    /\ corrected' = TRUE
    /\ worker' = At("connect") /\ CloseSession
    /\ UNCHANGED <<tail, incarnation, manager, current, inputStream, held, acked, nackCount, givenUp>>

(* Mutant: an error is sent as if there was always room. *)
SendUnbounded ==
    /\ worker.phase = "sending"
    /\ inputStream' = Append(inputStream, <<current, worker.batch>>)
    /\ worker' = At("connect") /\ CloseSession
    /\ UNCHANGED <<tail, incarnation, mem, durable, gen, manager, current, held, acked,
                   corrected, faults, nackCount, givenUp>>

(* The batch, or the error, goes to inputStream; an error ends the session. *)
Send ==
    /\ worker.phase = "sending"
    /\ Len(inputStream) < MaxInFlight
    /\ inputStream' = Append(inputStream, <<current, worker.batch>>)
    /\ IF worker.batch = NoBatch
       THEN worker' = At("connect") /\ CloseSession
       ELSE worker' = At("reading") /\ UNCHANGED session
    /\ UNCHANGED <<tail, incarnation, mem, durable, gen, manager, current, held, acked,
                   corrected, faults, nackCount, givenUp>>

(* Mutant: a source that is sending does not look at its context. *)
WorkerStopsUnlessSending ==
    /\ WorkerCancelled
    /\ worker.phase \notin {"stopped", "sending"}
    /\ worker' = At("stopped")
    /\ IF worker.phase \in {"connect", "lookup"} THEN UNCHANGED session ELSE CloseSession
    /\ UNCHANGED <<tail, incarnation, mem, durable, gen, manager, current, inputStream, held,
                   acked, corrected, faults, nackCount, givenUp>>

(* The worker's context is done: every wait of the loop ends, the session  *)
(* is closed and streamSource returns.                                     *)
WorkerStops ==
    /\ WorkerCancelled
    /\ worker.phase # "stopped"
    /\ worker' = At("stopped")
    /\ IF worker.phase \in {"connect", "lookup"} THEN UNCHANGED session ELSE CloseSession
    /\ UNCHANGED <<tail, incarnation, mem, durable, gen, manager, current, inputStream, held,
                   acked, corrected, faults, nackCount, givenUp>>

-----------------------------------------------------------------------------
(* streamsManager, as far as this stream goes.                             *)

(* A complete scan did not see the stream. *)
Prune ==
    /\ manager = "run" /\ Fault
    /\ manager' = "pruning"
    /\ UNCHANGED <<tail, incarnation, mem, durable, gen, worker, current, session, inputStream,
                   held, acked, corrected, nackCount, givenUp>>

(* The worker is gone: cache.Forget. *)
Forget ==
    /\ manager = "pruning" /\ worker.phase = "stopped"
    /\ manager' = "removed"
    /\ mem' = NoEntry /\ corrected' = FALSE
    /\ UNCHANGED <<tail, incarnation, durable, gen, worker, current, session, inputStream, held,
                   acked, faults, nackCount, givenUp>>

(* A later page lists it again: spawnWorker. *)
Respawn ==
    /\ manager = "removed"
    /\ manager' = "run"
    /\ worker' = At("connect")
    /\ UNCHANGED <<tail, incarnation, mem, durable, gen, current, session, inputStream, held,
                   acked, corrected, faults, nackCount, givenUp>>

(* MultiStreamInput.Close cancels; the manager waits for its workers. *)
Close ==
    /\ manager \in {"run", "removed"}
    /\ manager' = "closing"
    /\ UNCHANGED <<tail, incarnation, mem, durable, gen, worker, current, session, inputStream,
                   held, acked, corrected, faults, nackCount, givenUp>>

ManagerCloses ==
    /\ manager = "closing" /\ worker.phase = "stopped"
    /\ manager' = "closed"
    /\ UNCHANGED <<tail, incarnation, mem, durable, gen, worker, current, session, inputStream,
                   held, acked, corrected, faults, nackCount, givenUp>>

(* The process dies, or ends, and starts again with the durable cache. *)
Restart ==
    /\ Fault
    /\ mem' = NoEntry /\ gen' = 0 /\ corrected' = FALSE
    /\ manager' = "run" /\ worker' = At("connect")
    /\ session' = [s \in Sessions |-> NeverOpened]
    /\ inputStream' = <<>> /\ held' = {} /\ givenUp' = {}
    /\ UNCHANGED <<tail, incarnation, durable, current, acked, nackCount>>

-----------------------------------------------------------------------------
(* Bento: ReadBatch, then the AckFunc of each batch.  Its sync.Once makes  *)
(* repeated calls return the first result.                                 *)

ReadBatch ==
    /\ inputStream # <<>>
    /\ inputStream' = Tail(inputStream)
    /\ held' = IF Head(inputStream)[2] = NoBatch THEN held ELSE held \cup {Head(inputStream)}
    /\ UNCHANGED <<tail, incarnation, mem, durable, gen, manager, worker, current, session,
                   acked, corrected, faults, nackCount, givenUp>>

(* Mutant: gaps are ignored. *)
AckedAny(toAck) == {n \in SeqNums : toAck[n] = "acked"}

(* MarkDone: the batches acked without a gap from the oldest one tracked.  *)
AckedPrefix(toAck) ==
    {n \in SeqNums :
        /\ toAck[n] = "acked"
        /\ \A m \in SeqNums : m < n /\ (\E k \in 0 .. m : toAck[k] # "absent") => toAck[m] = "acked"}

Largest(S) == CHOOSE n \in S : \A m \in S : m <= n

(* ack: mark, move the cached position past the prefix, forget the prefix; *)
(* when the durable cache fails the tracking stays.  A held batch is       *)
(* tracked, so errCannotAckBatch is never returned.                        *)
Ack(d) ==
    LET s == d[1]
        marked == [session[s].toAck EXCEPT ![d[2]] = "acked"]
        prefix == AckedPrefix(marked)
    IN  /\ d \in held
        /\ held' = held \ {d}
        /\ acked' = IF session[s].incarnation = incarnation THEN acked \cup {d[2]} ELSE acked
        /\ IF prefix = {}
           THEN /\ session' = [session EXCEPT ![s].toAck = marked]
                /\ UNCHANGED <<mem, durable, faults>>
           ELSE \E ok \in BOOLEAN :
                  /\ CacheSet(Largest(prefix) + 1, session[s].gen, ok)
                  /\ session' = [session EXCEPT ![s].toAck =
                       [n \in SeqNums |-> IF ok /\ n \in prefix THEN "absent" ELSE marked[n]]]
        /\ UNCHANGED <<tail, incarnation, gen, manager, worker, current, inputStream, corrected,
                       nackCount, givenUp>>

(* nack: back into the session's queue.  When that is full the call waits; *)
(* a closed input or Bento's context ends the wait, and the batch is left  *)
(* unacked: only a later session reads it again.                           *)
NackQueued(d) ==
    /\ Len(session[d[1]].nacks) < MaxInFlight
    /\ session' = [session EXCEPT ![d[1]].nacks = Append(@, d[2])]
    /\ UNCHANGED givenUp

NackGivenUp(d) ==
    /\ Len(session[d[1]].nacks) >= MaxInFlight
    /\ givenUp' = givenUp \cup {d}
    /\ UNCHANGED session

Nack(d) ==
    /\ d \in held
    /\ nackCount < MaxNacks
    /\ nackCount' = nackCount + 1
    /\ NackQueued(d) \/ NackGivenUp(d)
    /\ held' = held \ {d}
    /\ UNCHANGED <<tail, incarnation, mem, durable, gen, manager, worker, current, inputStream,
                   acked, corrected, faults>>

-----------------------------------------------------------------------------

SourceStep ==
    \/ CacheMiss \/ Connect \/ ReadNacked \/ EnterNext \/ NextRecord
    \/ SessionEnds \/ RangeNotSatisfiable \/ Send \/ WorkerStops

Next ==
    \/ SourceStep
    \/ Prune \/ Forget \/ Respawn \/ Close \/ ManagerCloses \/ Restart
    \/ ClientAppends \/ StreamRecreated
    \/ ReadBatch \/ \E d \in held : Ack(d) \/ Nack(d)

Spec == Init /\ [][Next]_vars

(* The goroutines of the input run on; nothing is assumed of Bento, of the *)
(* stream or of the faults.                                                *)
FairSpec == /\ Spec
            /\ WF_vars(CacheMiss \/ Connect \/ ReadNacked \/ EnterNext \/ NextRecord \/ Send)
            /\ WF_vars(WorkerStops)
            /\ WF_vars(Forget) /\ WF_vars(ManagerCloses)

-----------------------------------------------------------------------------
(* Where a record read by the current session may be before it is acked. *)
UnderWay(n) ==
    \/ worker.phase = "sending" /\ worker.batch = n
    \/ \E i \in 1 .. Len(inputStream) : inputStream[i] = <<current, n>>
    \/ <<current, n>> \in held
    \/ \E i \in 1 .. Len(session[current].nacks) : session[current].nacks[i] = n

AllAckedBelow(position) == position # NoEntry => \A n \in 0 .. position - 1 : n \in acked

(* Reading from the start, no record is lost: a position in memory or in   *)
(* the durable cache has only acked records below it, whichever session's  *)
(* acks set it and whatever failed, and what the open session has read is  *)
(* acked, still on its way, or was nacked when the nack queue was full and *)
(* given up until a later session reads it again (givenUp).                *)
NoLoss ==
    StartSeqNum = "earliest" /\ incarnation = 0 =>
        /\ AllAckedBelow(mem)
        /\ AllAckedBelow(durable)
        /\ current > 0 /\ session[current].open =>
             \A n \in 0 .. session[current].pos - 1 :
                n \in acked \/ UnderWay(n) \/ <<current, n>> \in givenUp

(* Once a 416 reset the position to the tail, no acknowledgement from      *)
(* before the reset puts it beyond the tail again.                         *)
ResetStands == corrected => mem # NoEntry /\ mem <= tail

(* Close returns: a source blocked in Next, in its backoff or on a full    *)
(* inputStream that nobody reads stops, and the manager with it.           *)
InputCloses == manager = "closing" ~> manager # "closing"

=============================================================================
