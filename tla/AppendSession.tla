---------------------------- MODULE AppendSession ----------------------------
(***************************************************************************)
(* AppendSession (s2/append_session.go): ordered, pipelined appends over a *)
(* succession of connections.                                              *)
(*                                                                         *)
(* Goroutines: one per Submit call (sub), the pump, one acknowledgement    *)
(* reader per connection, and the caller of Close.  They share the         *)
(* in-flight queue (inflightMu), currentSession (sessionMu), the retry     *)
(* state (stateMu) and the close flags (closedMu, atomics).                *)
(*                                                                         *)
(* The batches are numbers: the application calls Submit in the order of   *)
(* the numbers, from one goroutine.                                        *)
(***************************************************************************)
EXTENDS AppendTransport, Capacity, FiniteSetsExt

CONSTANTS Size,          \* Size[b]: the metered bytes of batch b
          MaxAttempts    \* RetryConfig.MaxAttempts

ASSUME SessionAssumption ==
    /\ IsFiniteSet(Batches)
    /\ Size \in [Batches -> Nat]
    /\ MaxAttempts \in Nat

NoSession == 0

ASSUME SessionsAssumption == NoSession \notin Sessions /\ IsFiniteSet(Sessions)

VARIABLES
    sub,              \* the goroutine of each Submit call
    pool,             \* capacity
    inflightQueue,    \* batches enqueued and not resolved, oldest first
    entry,            \* the fields of each batch's inflightEntry
    sessionRefs,      \* per session, the queued entries sent on it
    result,           \* what the ticket of each batch resolved to
    ackedBy,          \* the acknowledgement each batch was resolved with
    lastAckedEnd,     \* lastAckedPosition.End.SeqNum, 0 if none
    currentSession,
    failuresPending,
    currentAttempt,
    retryAt,          \* "none", "pending" (in the future) or "due"
    advisedBefore,    \* advisedReconnects has recorded a reconnect
    wakeup,           \* the token in the wakeup channel
    closing, closed, closeDone,
    ctxDone,          \* pumpCtx is done
    closer,           \* the goroutine inside Close
    pump,             \* where the pump is
    pumpSession,      \* the session snapshot of submitInflightBatches
    pumpTodo,         \* the entries it has still to look at
    pumpErr,          \* the error the pump is handling
    reader,           \* where the reader of each session is
    readerErr,        \* the error it is handling
    reconnectAccepted \* it decided to follow the server's advice

queueVars  == <<inflightQueue, entry, sessionRefs, result, ackedBy>>
retryVars  == <<currentAttempt, retryAt, advisedBefore>>
claimVars  == <<currentSession, failuresPending>>
closeVars  == <<closing, closed, closeDone, ctxDone, closer>>
pumpVars   == <<pump, pumpSession, pumpTodo, pumpErr>>
readerVars == <<reader, readerErr, reconnectAccepted>>
remoteVars == <<server, tail, applied, faults>>

vars == <<transportVars, sub, pool, queueVars, lastAckedEnd, claimVars, retryVars,
          wakeup, closeVars, pumpVars, readerVars>>

Entries == [sentOn : SUBSET Sessions,
            attemptStart : {"zero", "running", "expired"},
            priorUncertainty : BOOLEAN]

NoAck == [of |-> 0, end |-> 0]

TypeOK ==
    /\ TransportTypeOK
    /\ sub \in [Batches -> {"idle", "reserving", "reserved", "enqueued", "rejected"}]
    /\ pool \in Pool
    /\ inflightQueue \in Seq(Batches)
    /\ entry \in [Batches -> Entries]
    /\ sessionRefs \in [Sessions -> Nat]
    /\ result \in [Batches -> {"none", "acked"} \cup Failures]
    /\ ackedBy \in [Batches -> Acks \cup {NoAck}]
    /\ lastAckedEnd \in Nat
    /\ currentSession \in Sessions \cup {NoSession}
    /\ failuresPending \in Nat
    /\ currentAttempt \in Nat
    /\ retryAt \in {"none", "pending", "due"}
    /\ {advisedBefore, wakeup, closing, closed, closeDone, ctxDone} \subseteq BOOLEAN
    /\ closer \in {"idle", "waitDone", "waitPump", "waitReaders", "done"}
    /\ pump \in {"select", "process", "getSession", "submit", "mark", "append", "write",
                 "claim", "resolve", "timeouts", "exited"}
    /\ pumpSession \in Sessions \cup {NoSession}
    /\ pumpTodo \in Seq(Batches)
    /\ pumpErr \in Errors \cup {NoError}
    /\ reader \in [Sessions -> {"off", "select", "drain", "advised", "advice", "claim",
                               "resolve", "done"}]
    /\ readerErr \in [Sessions -> Errors \cup {NoError}]
    /\ reconnectAccepted \in [Sessions -> BOOLEAN]

Init ==
    /\ TransportInit
    /\ sub = [b \in Batches |-> "idle"]
    /\ pool = NewPool
    /\ inflightQueue = <<>>
    /\ entry = [b \in Batches |->
                   [sentOn |-> {}, attemptStart |-> "zero", priorUncertainty |-> FALSE]]
    /\ sessionRefs = [s \in Sessions |-> 0]
    /\ result = [b \in Batches |-> "none"]
    /\ ackedBy = [b \in Batches |-> NoAck]
    /\ lastAckedEnd = 0
    /\ currentSession = NoSession
    /\ failuresPending = 0
    /\ currentAttempt = 0
    /\ retryAt = "none"
    /\ advisedBefore = FALSE
    /\ wakeup = FALSE
    /\ closing = FALSE /\ closed = FALSE /\ closeDone = FALSE /\ ctxDone = FALSE
    /\ closer = "idle"
    /\ pump = "select" /\ pumpSession = NoSession /\ pumpTodo = <<>> /\ pumpErr = NoError
    /\ reader = [s \in Sessions |-> "off"]
    /\ readerErr = [s \in Sessions |-> NoError]
    /\ reconnectAccepted = [s \in Sessions |-> FALSE]

Queued == {inflightQueue[i] : i \in DOMAIN inflightQueue}

Created == {s \in Sessions : transport[s].conn # "none"}

(* wakeupPump: a token in a channel with room for one. *)
WakeupPump == wakeup' = TRUE

-----------------------------------------------------------------------------
(* Submit *)

(***************************************************************************)
(* Submit returns at once; its goroutine reserves capacity and enqueues.   *)
(***************************************************************************)
Submit(b) ==
    /\ sub[b] = "idle"
    /\ \A a \in Batches : a < b =>
          IF setup.awaitTickets THEN sub[a] \in {"enqueued", "rejected"} ELSE sub[a] # "idle"
    /\ sub' = [sub EXCEPT ![b] = IF closing THEN "rejected" ELSE "reserving"]
    /\ UNCHANGED <<transportVars, pool, queueVars, lastAckedEnd, claimVars, retryVars, wakeup,
                   closeVars, pumpVars, readerVars>>

(* capacity.reserve(pumpCtx, size), which blocks until one disjunct holds. *)
Reserve(b) ==
    /\ sub[b] = "reserving"
    /\ \/ /\ pool.closed \/ ctxDone \/ Oversized(Size[b])
          /\ sub' = [sub EXCEPT ![b] = "rejected"]
          /\ UNCHANGED pool
       \/ /\ ~pool.closed /\ ~ctxDone /\ HasCapacity(pool, Size[b])
          /\ sub' = [sub EXCEPT ![b] = "reserved"]
          /\ pool' = Reserved(pool, Size[b])
    /\ UNCHANGED <<transportVars, queueVars, lastAckedEnd, claimVars, retryVars, wakeup,
                   closeVars, pumpVars, readerVars>>

(* Mutant: the pump is not woken. *)
EnqueueSilently(b) ==
    /\ sub[b] = "reserved"
    /\ sub' = [sub EXCEPT ![b] = IF closing THEN "rejected" ELSE "enqueued"]
    /\ pool' = IF closing THEN Released(pool, Size[b]) ELSE pool
    /\ inflightQueue' = IF closing THEN inflightQueue ELSE Append(inflightQueue, b)
    /\ UNCHANGED <<transportVars, entry, sessionRefs, result, ackedBy, lastAckedEnd, claimVars,
                   retryVars, wakeup, closeVars, pumpVars, readerVars>>

(* enqueueReservedEntry, and the release when it fails. *)
Enqueue(b) ==
    /\ sub[b] = "reserved"
    /\ \/ /\ closing
          /\ sub' = [sub EXCEPT ![b] = "rejected"]
          /\ pool' = Released(pool, Size[b])
          /\ UNCHANGED <<inflightQueue, wakeup>>
       \/ /\ ~closing
          /\ sub' = [sub EXCEPT ![b] = "enqueued"]
          /\ inflightQueue' = Append(inflightQueue, b)
          /\ WakeupPump
          /\ UNCHANGED pool
    /\ UNCHANGED <<transportVars, entry, sessionRefs, result, ackedBy, lastAckedEnd, claimVars,
                   retryVars, closeVars, pumpVars, readerVars>>

-----------------------------------------------------------------------------
(* failAllInflight and handleAck, shared by the pump and the readers *)

(***************************************************************************)
(* failAllInflight(err): every queued batch fails, the session is closed   *)
(* for good, and every connection still in use is closed.  t is the value  *)
(* of transport that the caller's own part of the step leaves.             *)
(***************************************************************************)
ReleasedAll(p, bs) ==
    [p EXCEPT !.bytes = LET n == SumFunctionOnSet(Size, bs)
                        IN  IF @ >= n THEN @ - n ELSE 0,
              !.items = IF MaxItems = 0 THEN @
                        ELSE IF @ >= Cardinality(bs) THEN @ - Cardinality(bs) ELSE 0]

InUse == {s \in Sessions : sessionRefs[s] > 0}

AllClosed(t) == ClosedSessions(t, InUse \cup ({currentSession} \ {NoSession}))

FailQueued(outcome, t) ==
    /\ result' = [b \in Batches |-> IF b \in Queued THEN outcome[b] ELSE result[b]]
    /\ pool' = ClosedPool(ReleasedAll(pool, Queued))
    /\ inflightQueue' = <<>>
    /\ sessionRefs' = [s \in Sessions |-> 0]
    /\ transport' = AllClosed(t)
    /\ UNCHANGED ackedBy

(* Mutant: the session stays open after a failure. *)
FailAllStaysOpen(err, t) ==
    /\ FailQueued(
          [b \in Queued |-> WithPriorUncertainty(err, entry[b].priorUncertainty)], t)
    /\ UNCHANGED <<closing, closed, closeDone, ctxDone, closer>>

FailAllInflight(err, t) ==
    /\ FailQueued(
          [b \in Queued |-> WithPriorUncertainty(err, entry[b].priorUncertainty)], t)
    /\ closing' = TRUE /\ closed' = TRUE /\ closeDone' = TRUE /\ ctxDone' = TRUE
    /\ UNCHANGED closer

(* What failAllInflight assigns is left alone; t is as above. *)
KeepInflight(t) ==
    /\ transport' = t
    /\ UNCHANGED <<pool, inflightQueue, sessionRefs, result, ackedBy, closeVars>>

(***************************************************************************)
(* handleAck's early returns, negated: there is a head, it was sent on the *)
(* connection, and the position is new.                                    *)
(***************************************************************************)
ConcernsHead(s, ack) ==
    /\ inflightQueue # <<>>
    /\ s \in entry[Head(inflightQueue)].sentOn
    /\ ack.end > lastAckedEnd

(* Mutant: the number of records is not compared. *)
AnyAckIsValid(b, ack) == TRUE

(* validateAckLocked, given that the acknowledgement is not ignored. *)
ValidAck(b, ack) == Count[ack.of] = Count[b]

(***************************************************************************)
(* handleAck: resolve the head of the queue, give its capacity back, drop  *)
(* its references and close the connections nobody refers to any more,     *)
(* except the current one (releaseEntrySessionsLocked, closeStaleSessions).*)
(* An acknowledgement that cannot be the head's fails the session.         *)
(***************************************************************************)
ReleasedRefs(b) ==
    [q \in Sessions |->
        IF q \in entry[b].sentOn /\ sessionRefs[q] > 0
        THEN sessionRefs[q] - 1 ELSE sessionRefs[q]]

StaleSessions(b) == {q \in entry[b].sentOn : sessionRefs[q] = 1} \ {currentSession}

CompleteHead(s, ack, t) ==
    LET b == Head(inflightQueue)
    IN  /\ result' = [result EXCEPT ![b] = "acked"]
        /\ ackedBy' = [ackedBy EXCEPT ![b] = ack]
        /\ inflightQueue' = Tail(inflightQueue)
        /\ sessionRefs' = ReleasedRefs(b)
        /\ entry' = [entry EXCEPT ![b].sentOn = {}]
        /\ lastAckedEnd' = ack.end
        /\ currentAttempt' = 0
        /\ pool' = Released(pool, Size[b])
        /\ transport' = ClosedSessions(AckReceived(t, s), StaleSessions(b))
        /\ WakeupPump
        /\ UNCHANGED closeVars

HandleAck(s, ack, t) ==
    \/ /\ ~ConcernsHead(s, ack)
       /\ KeepInflight(t)
       /\ UNCHANGED <<entry, lastAckedEnd, currentAttempt, wakeup>>
    \/ /\ ConcernsHead(s, ack)
       /\ ~ValidAck(Head(inflightQueue), ack)
       /\ FailAllInflight("uncertain", t)
       /\ UNCHANGED <<entry, lastAckedEnd, currentAttempt, wakeup>>
    \/ /\ ConcernsHead(s, ack)
       /\ ValidAck(Head(inflightQueue), ack)
       /\ CompleteHead(s, ack, t)

-----------------------------------------------------------------------------
(* handleSessionError, in its two critical sections *)

(* closeSessionIfUnused *)
ClosedIfUnused(s) ==
    ClosedSessions(transport, IF sessionRefs[s] = 0 THEN {s} ELSE {})

(* Mutant: whoever reports a failure owns it. *)
OwnsAnyway(s) == ~closed

(***************************************************************************)
(* The write path and the reader may both report the failure of a session: *)
(* whoever still finds it current owns the failure and goes on to resolve  *)
(* it.                                                                     *)
(***************************************************************************)
OwnsFailure(s) == ~closed /\ currentSession = s

(* handleSessionError up to the claim, which the owner alone makes *)
ClaimFailure(s) ==
    /\ currentSession' = IF OwnsFailure(s) THEN NoSession ELSE currentSession
    /\ failuresPending' = IF OwnsFailure(s) THEN failuresPending + 1 ELSE failuresPending
    /\ transport' = IF closed THEN transport ELSE ClosedIfUnused(s)

(* hasNonIdempotentSentPipelinedEntries *)
HasNonIdempotentSentPipelinedEntries ==
    \E i \in DOMAIN inflightQueue :
        /\ i > 1
        /\ setup.matchSeqNum[inflightQueue[i]] = NoMatch
        /\ entry[inflightQueue[i]].sentOn # {}

(* Mutant: the policy is not consulted. *)
MayRetryAnything(s, err) == IsRetryable(err) /\ currentAttempt < MaxAttempts - 1

CanRetryUnderNoSideEffects(s, err) == HasNoSideEffects(err) \/ ~EffectSignalled(s)

(* The retry decision of handleClaimedSessionError. *)
MayRetry(s, err) ==
    /\ setup.policy = "noSideEffects" =>
          /\ CanRetryUnderNoSideEffects(s, err)
          /\ ~HasNonIdempotentSentPipelinedEntries
    /\ IsRetryable(err)
    /\ currentAttempt < MaxAttempts - 1

(* Mutant: markInflightUncertainty is not called. *)
ForgetUncertainty(s, err) ==
    [b \in Batches |->
        IF b \in Queued THEN [entry[b] EXCEPT !.attemptStart = "zero"] ELSE entry[b]]

(* resetInflightAttemptStarts, and markInflightUncertainty if uncertain *)
ResetEntries(s, err) ==
    [b \in Batches |->
        IF b \notin Queued THEN entry[b]
        ELSE [entry[b] EXCEPT
                 !.attemptStart = "zero",
                 !.priorUncertainty = @ \/ (~HasNoSideEffects(err) /\ s \in entry[b].sentOn)]]

ScheduledRetry == IF retryAt = "none" THEN "pending" ELSE retryAt

(***************************************************************************)
(* handleClaimedSessionError: reconnect at once while the server drains,   *)
(* fail everything, or use up one attempt and retry after a delay.         *)
(***************************************************************************)
ResolveFailure(s, err) ==
    /\ failuresPending' = failuresPending - 1
    /\ WakeupPump
    /\ \/ /\ IsServerDraining(err)
          /\ advisedBefore' = TRUE
          /\ entry' = ResetEntries(s, err)
          /\ KeepInflight(transport)
          /\ UNCHANGED <<currentAttempt, retryAt>>
       \/ /\ ~IsServerDraining(err) /\ ~MayRetry(s, err)
          /\ FailAllInflight(err, transport)
          /\ UNCHANGED <<retryVars, entry>>
       \/ /\ ~IsServerDraining(err) /\ MayRetry(s, err)
          /\ currentAttempt' = currentAttempt + 1
          /\ entry' = ResetEntries(s, err)
          /\ retryAt' = ScheduledRetry
          /\ KeepInflight(transport)
          /\ UNCHANGED advisedBefore
    /\ UNCHANGED <<remoteVars, sub, lastAckedEnd, currentSession>>

-----------------------------------------------------------------------------
(* The pump *)

(* shouldStopPump, evaluated at the end of every iteration. *)
EndIteration ==
    IF closing /\ inflightQueue = <<>>
    THEN pump' = "exited" /\ closeDone' = TRUE
    ELSE pump' = "select" /\ UNCHANGED closeDone

(* The select of runPump; a timer fires at retryAt or at the head's timeout. *)
PumpWakes ==
    /\ pump = "select"
    /\ \/ wakeup /\ wakeup' = FALSE
       \/ /\ \/ retryAt = "due"
             \/ inflightQueue # <<>> /\ entry[Head(inflightQueue)].attemptStart = "expired"
          /\ UNCHANGED wakeup
    /\ pump' = "process"
    /\ UNCHANGED <<transportVars, sub, pool, queueVars, lastAckedEnd, claimVars, retryVars,
                   closeVars, pumpSession, pumpTodo, pumpErr, readerVars>>

PumpCancelled ==
    /\ pump = "select" /\ ctxDone
    /\ FailAllInflight("uncertain", transport)
    /\ pump' = "exited"
    /\ UNCHANGED <<remoteVars, sub, entry, lastAckedEnd, claimVars, retryVars, wakeup,
                   pumpSession, pumpTodo, pumpErr, readerVars>>

(* processInflightQueue up to getSession. *)
PumpProcess ==
    /\ pump = "process"
    /\ \/ /\ ctxDone \/ retryAt = "pending"
          /\ pump' = "timeouts" /\ UNCHANGED retryAt
       \/ /\ ~ctxDone /\ retryAt # "pending"
          /\ retryAt' = "none"
          /\ pump' = IF inflightQueue = <<>> THEN "timeouts" ELSE "getSession"
    /\ UNCHANGED <<transportVars, sub, pool, queueVars, lastAckedEnd, claimVars, currentAttempt,
                   advisedBefore, wakeup, closeVars, pumpSession, pumpTodo, pumpErr, readerVars>>

(* getSession: there is a session, or this is no time to open one. *)
NoNewSession == currentSession # NoSession \/ failuresPending > 0 \/ ctxDone

PumpKeepsSession ==
    /\ pump = "getSession" /\ NoNewSession
    /\ pump' = "submit"
    /\ UNCHANGED <<transportVars, sub, pool, queueVars, lastAckedEnd, claimVars, retryVars,
                   wakeup, closeVars, pumpSession, pumpTodo, pumpErr, readerVars>>

PumpOpensSession ==
    /\ pump = "getSession" /\ ~NoNewSession
    /\ Cardinality(Created) < setup.connections
    /\ \E s \in Sessions \ Created :
          /\ \A q \in Sessions \ Created : s <= q
          /\ currentSession' = s
          /\ transport' = Started(s)
          /\ reader' = [reader EXCEPT ![s] = "select"]
    /\ pump' = "submit"
    /\ UNCHANGED <<remoteVars, sub, pool, queueVars, lastAckedEnd, failuresPending, retryVars,
                   wakeup, closeVars, pumpSession, pumpTodo, pumpErr, readerErr,
                   reconnectAccepted>>

(* createAppendSession fails: handleSessionStartError or failAllInflight. *)
PumpStartFails ==
    /\ pump = "getSession" /\ ~NoNewSession
    /\ faults < MaxFaults /\ faults' = faults + 1
    /\ \E err \in setup.errors \cap {"uncertain", "fatalUncertain"} :
       \/ /\ IsRetryable(err) /\ currentAttempt < MaxAttempts - 1
          /\ currentAttempt' = currentAttempt + 1
          /\ retryAt' = ScheduledRetry
          /\ WakeupPump
          /\ KeepInflight(transport)
       \/ /\ ~(IsRetryable(err) /\ currentAttempt < MaxAttempts - 1)
          /\ FailAllInflight(err, transport)
          /\ UNCHANGED <<currentAttempt, retryAt, wakeup>>
    /\ pump' = "timeouts"
    /\ UNCHANGED <<server, tail, applied, sub, entry, lastAckedEnd, claimVars, advisedBefore,
                   pumpSession, pumpTodo, pumpErr, readerVars>>

(* submitInflightBatches: snapshot the session and the queue. *)
HasOpenSession ==
    currentSession # NoSession /\ ~HoldsInputsForReconnect(currentSession)

PumpSubmits ==
    /\ pump = "submit"
    /\ \/ /\ ~HasOpenSession
          /\ pump' = "timeouts"
          /\ UNCHANGED <<pumpSession, pumpTodo>>
       \/ /\ HasOpenSession
          /\ pump' = "mark"
          /\ pumpSession' = currentSession
          /\ pumpTodo' = inflightQueue
    /\ UNCHANGED <<transportVars, sub, pool, queueVars, lastAckedEnd, claimVars, retryVars,
                   wakeup, closeVars, pumpErr, readerVars>>

(* Mutants of the loop: completed entries are sent; any order will do. *)
SendableIfCompleted(i) == pumpSession \notin entry[pumpTodo[i]].sentOn

PumpMarksInAnyOrder ==
    /\ pump = "mark"
    /\ \E i \in DOMAIN pumpTodo :
          /\ result[pumpTodo[i]] = "none" /\ pumpSession \notin entry[pumpTodo[i]].sentOn
          /\ pumpTodo' = SubSeq(pumpTodo, i, Len(pumpTodo)) \o SubSeq(pumpTodo, 1, i - 1)
          /\ entry' = [entry EXCEPT
                 ![pumpTodo[i]].sentOn = @ \cup {pumpSession},
                 ![pumpTodo[i]].attemptStart = IF @ = "zero" THEN "running" ELSE @]
    /\ sessionRefs' = [sessionRefs EXCEPT ![pumpSession] = @ + 1]
    /\ pump' = "append"
    /\ UNCHANGED <<transportVars, sub, pool, inflightQueue, result, ackedBy,
                   lastAckedEnd, claimVars, retryVars, wakeup, closeVars, pumpSession, pumpErr,
                   readerVars>>

(* Its loop: record the next entry that is to be sent on this session. *)
Sendable(i) ==
    /\ result[pumpTodo[i]] = "none"
    /\ pumpSession \notin entry[pumpTodo[i]].sentOn

PumpMarks ==
    /\ pump = "mark"
    /\ \E i \in DOMAIN pumpTodo :
          /\ Sendable(i) /\ \A j \in 1..(i - 1) : ~Sendable(j)
          /\ pumpTodo' = SubSeq(pumpTodo, i, Len(pumpTodo))
          /\ entry' = [entry EXCEPT
                 ![pumpTodo[i]].sentOn = @ \cup {pumpSession},
                 ![pumpTodo[i]].attemptStart = IF @ = "zero" THEN "running" ELSE @]
    /\ sessionRefs' = [sessionRefs EXCEPT ![pumpSession] = @ + 1]
    /\ pump' = "append"
    /\ UNCHANGED <<transportVars, sub, pool, inflightQueue, result, ackedBy,
                   lastAckedEnd, claimVars, retryVars, wakeup, closeVars, pumpSession, pumpErr,
                   readerVars>>

PumpDoneSending ==
    /\ pump = "mark"
    /\ \A i \in DOMAIN pumpTodo : ~Sendable(i)
    /\ pump' = "timeouts" /\ pumpSession' = NoSession /\ pumpTodo' = <<>>
    /\ UNCHANGED <<transportVars, sub, pool, queueVars, lastAckedEnd, claimVars, retryVars,
                   wakeup, closeVars, pumpErr, readerVars>>

(* appendInput up to the write, which is counted before it starts. *)
PumpAppends ==
    /\ pump = "append"
    /\ \/ /\ RejectsInput(pumpSession)
          /\ pump' = "claim" /\ pumpErr' = InputError(pumpSession)
          /\ UNCHANGED transport
       \/ /\ ~RejectsInput(pumpSession)
          /\ pump' = "write" /\ UNCHANGED pumpErr
          /\ transport' = [transport EXCEPT ![pumpSession].pendingWrites = @ + 1]
    /\ UNCHANGED <<remoteVars, sub, pool, queueVars, lastAckedEnd, claimVars, retryVars,
                   wakeup, closeVars, pumpSession, pumpTodo, readerVars>>

(* writer.Write blocks until the transport takes the frame or fails. *)
PumpWrites ==
    /\ pump = "write"
    /\ \/ /\ WriteAccepted(pumpSession, Head(pumpTodo))
          /\ pump' = "mark" /\ pumpTodo' = Tail(pumpTodo) /\ UNCHANGED pumpErr
       \/ /\ WriteFails(pumpSession)
          /\ pump' = "claim" /\ pumpErr' = InputError(pumpSession) /\ UNCHANGED pumpTodo
    /\ UNCHANGED <<sub, pool, queueVars, lastAckedEnd, claimVars, retryVars, wakeup, closeVars,
                   pumpSession, readerVars>>

PumpClaims ==
    /\ pump = "claim"
    /\ ClaimFailure(pumpSession)
    /\ \/ /\ OwnsFailure(pumpSession)
          /\ pump' = "resolve" /\ UNCHANGED <<pumpSession, pumpErr>>
       \/ /\ ~OwnsFailure(pumpSession)
          /\ pump' = "timeouts" /\ pumpSession' = NoSession /\ pumpErr' = NoError
    /\ pumpTodo' = <<>>
    /\ UNCHANGED <<remoteVars, sub, pool, queueVars, lastAckedEnd, retryVars, wakeup, closeVars,
                   readerVars>>

PumpResolves ==
    /\ pump = "resolve"
    /\ ResolveFailure(pumpSession, pumpErr)
    /\ pump' = "timeouts" /\ pumpSession' = NoSession /\ pumpErr' = NoError
    /\ UNCHANGED <<pumpTodo, readerVars>>

(***************************************************************************)
(* checkTimeouts, then shouldStopPump: the head is checked and the session *)
(* claimed in one critical section of inflightMu.                          *)
(***************************************************************************)
HeadTimedOut ==
    /\ ~ctxDone /\ ~closed
    /\ inflightQueue # <<>> /\ entry[Head(inflightQueue)].attemptStart = "expired"

PumpTimeouts ==
    /\ pump = "timeouts"
    /\ \/ /\ HeadTimedOut /\ currentSession # NoSession
          /\ currentSession' = NoSession
          /\ failuresPending' = failuresPending + 1
          /\ transport' = ClosedIfUnused(currentSession)
          /\ pump' = "resolve" /\ pumpSession' = currentSession /\ pumpErr' = "uncertain"
          /\ UNCHANGED closeDone
       \/ /\ ~HeadTimedOut \/ currentSession = NoSession
          /\ EndIteration
          /\ UNCHANGED <<claimVars, transport, pumpSession, pumpErr>>
    /\ UNCHANGED <<remoteVars, sub, pool, queueVars, lastAckedEnd, retryVars, wakeup, closing,
                   closed, ctxDone, closer, pumpTodo, readerVars>>

Pump ==
    \/ PumpWakes \/ PumpCancelled \/ PumpProcess
    \/ PumpKeepsSession \/ PumpOpensSession \/ PumpStartFails
    \/ PumpSubmits \/ PumpMarks \/ PumpDoneSending \/ PumpAppends \/ PumpWrites
    \/ PumpClaims \/ PumpResolves \/ PumpTimeouts

-----------------------------------------------------------------------------
(* readAcks, one goroutine per session *)

(* The acknowledgement at the head of acksCh is taken and handled. *)
TakeAck(s) ==
    /\ transport[s].acksCh # <<>>
    /\ HandleAck(s, Head(transport[s].acksCh), [transport EXCEPT ![s].acksCh = Tail(@)])
    /\ UNCHANGED <<remoteVars, sub, claimVars, retryAt, advisedBefore, pumpVars, readerErr,
                   reconnectAccepted>>

(***************************************************************************)
(* processAck: after handleAck the reader looks at the server's advice,    *)
(* once per session ("advised"); then it goes on where it was.             *)
(***************************************************************************)
AdviceHandled(s) == reconnectAccepted[s] \/ transport[s].reconnectDeclined

ReaderTakesAck(s) ==
    /\ reader[s] \in {"select", "drain"}
    /\ TakeAck(s)
    /\ reader' = IF transport[s].reconnectAdvised /\ ~AdviceHandled(s)
                 THEN [reader EXCEPT ![s] = "advised"] ELSE reader

(***************************************************************************)
(* The answers of shouldReconnectOnAdvice: a reconnect recorded within the *)
(* last minute makes it say no, and a minute may have passed since.        *)
(***************************************************************************)
ShouldReconnectOnAdvice == IF advisedBefore THEN BOOLEAN ELSE {TRUE}

ReaderWeighsAdvice(s) ==
    /\ reader[s] = "advised"
    /\ \/ /\ TRUE \in ShouldReconnectOnAdvice
          /\ reconnectAccepted' = [reconnectAccepted EXCEPT ![s] = TRUE]
          /\ transport' = HalfClosed(transport, s)
          /\ UNCHANGED wakeup
       \/ /\ FALSE \in ShouldReconnectOnAdvice
          /\ transport' = [transport EXCEPT ![s].reconnectDeclined = TRUE]
          /\ WakeupPump
          /\ UNCHANGED reconnectAccepted
    /\ reader' = [reader EXCEPT ![s] = IF readerErr[s] = NoError THEN "select" ELSE "drain"]
    /\ UNCHANGED <<remoteVars, sub, pool, queueVars, lastAckedEnd, claimVars, retryVars,
                   closeVars, pumpVars, readerErr>>

(* An error is received: the acknowledgements already there come first. *)
ReaderTakesError(s) ==
    /\ reader[s] = "select" /\ transport[s].errorsCh # NoError
    /\ readerErr' = [readerErr EXCEPT ![s] = transport[s].errorsCh]
    /\ transport' = [transport EXCEPT ![s].errorsCh = NoError]
    /\ reader' = [reader EXCEPT ![s] = "drain"]
    /\ UNCHANGED <<remoteVars, sub, pool, queueVars, lastAckedEnd, claimVars, retryVars, wakeup,
                   closeVars, pumpVars, reconnectAccepted>>

ReaderDrained(s) ==
    /\ reader[s] = "drain" /\ transport[s].acksCh = <<>>
    /\ reader' = [reader EXCEPT ![s] = "claim"]
    /\ UNCHANGED <<transportVars, sub, pool, queueVars, lastAckedEnd, claimVars, retryVars,
                   wakeup, closeVars, pumpVars, readerErr, reconnectAccepted>>

ReaderClaims(s) ==
    /\ reader[s] = "claim"
    /\ ClaimFailure(s)
    /\ reader' = [reader EXCEPT ![s] = IF OwnsFailure(s) THEN "resolve" ELSE "done"]
    /\ UNCHANGED <<remoteVars, sub, pool, queueVars, lastAckedEnd, retryVars, wakeup, closeVars,
                   pumpVars, readerErr, reconnectAccepted>>

ReaderResolves(s) ==
    /\ reader[s] = "resolve"
    /\ ResolveFailure(s, readerErr[s])
    /\ reader' = [reader EXCEPT ![s] = "done"]
    /\ UNCHANGED <<pumpVars, readerErr, reconnectAccepted>>

(* Both channels closed and empty: a clean end, with or without a plan. *)
ReaderSeesEnd(s) ==
    /\ reader[s] = "select"
    /\ transport[s].chansClosed
    /\ transport[s].errorsCh = NoError /\ transport[s].acksCh = <<>>
    /\ reader' = [reader EXCEPT ![s] = IF reconnectAccepted[s] THEN "advice" ELSE "done"]
    /\ UNCHANGED <<transportVars, sub, pool, queueVars, lastAckedEnd, claimVars, retryVars,
                   wakeup, closeVars, pumpVars, readerErr, reconnectAccepted>>

(* hasUnackedOnSession *)
HasUnackedOnSession(s) == \E b \in Queued : s \in entry[b].sentOn

(* handleReconnectAdvice *)
ReaderFollowsAdvice(s) ==
    /\ reader[s] = "advice"
    /\ \/ /\ closed
          /\ reader' = [reader EXCEPT ![s] = "done"]
          /\ UNCHANGED <<readerErr, currentSession, transport, advisedBefore, wakeup>>
       \/ /\ ~closed /\ HasUnackedOnSession(s)
          /\ reader' = [reader EXCEPT ![s] = "claim"]
          /\ readerErr' = [readerErr EXCEPT ![s] = "uncertain"]
          /\ UNCHANGED <<currentSession, transport, advisedBefore, wakeup>>
       \/ /\ ~closed /\ ~HasUnackedOnSession(s)
          /\ reader' = [reader EXCEPT ![s] = "done"]
          /\ transport' = ClosedIfUnused(s)
          /\ \/ /\ currentSession = s
                /\ currentSession' = NoSession
                /\ advisedBefore' = TRUE
                /\ WakeupPump
             \/ /\ currentSession # s
                /\ UNCHANGED <<currentSession, advisedBefore, wakeup>>
          /\ UNCHANGED readerErr
    /\ UNCHANGED <<remoteVars, sub, pool, queueVars, lastAckedEnd, failuresPending,
                   currentAttempt, retryAt, closeVars, pumpVars, reconnectAccepted>>

ReaderCancelled(s) ==
    /\ reader[s] = "select" /\ ctxDone
    /\ reader' = [reader EXCEPT ![s] = "done"]
    /\ UNCHANGED <<transportVars, sub, pool, queueVars, lastAckedEnd, claimVars, retryVars,
                   wakeup, closeVars, pumpVars, readerErr, reconnectAccepted>>

Reader(s) ==
    \/ ReaderTakesAck(s) \/ ReaderWeighsAdvice(s)
    \/ ReaderTakesError(s) \/ ReaderDrained(s) \/ ReaderClaims(s) \/ ReaderResolves(s)
    \/ ReaderSeesEnd(s) \/ ReaderFollowsAdvice(s) \/ ReaderCancelled(s)

-----------------------------------------------------------------------------
(* Close, and cancellation of the context given to AppendSession *)

CloseStarts ==
    /\ closer = "idle" /\ setup.mayClose
    /\ closing' = TRUE
    /\ pool' = ClosedPool(pool)
    /\ WakeupPump
    /\ closer' = "waitDone"
    /\ UNCHANGED <<transportVars, sub, queueVars, lastAckedEnd, claimVars, retryVars, closed,
                   closeDone, ctxDone, pumpVars, readerVars>>

CloseDrained ==
    /\ closer = "waitDone" /\ closeDone
    /\ closed' = TRUE /\ ctxDone' = TRUE
    /\ closer' = "waitPump"
    /\ UNCHANGED <<transportVars, sub, pool, queueVars, lastAckedEnd, claimVars, retryVars,
                   wakeup, closing, closeDone, pumpVars, readerVars>>

(* The pump is gone: fail what is left, close every connection in use. *)
CloseCleansUp ==
    /\ closer = "waitPump" /\ pump = "exited"
    /\ FailQueued([b \in Queued |-> "failed"], transport)
    /\ closer' = "waitReaders"
    /\ UNCHANGED <<remoteVars, sub, entry, lastAckedEnd, claimVars, retryVars, wakeup, closing,
                   closed, closeDone, ctxDone, pumpVars, readerVars>>

(* Mutant: Close does not wait for the readers. *)
CloseReturnsEarly ==
    /\ closer = "waitReaders"
    /\ closer' = "done"
    /\ UNCHANGED <<transportVars, sub, pool, queueVars, lastAckedEnd, claimVars, retryVars,
                   wakeup, closing, closed, closeDone, ctxDone, pumpVars, readerVars>>

CloseReturns ==
    /\ closer = "waitReaders"
    /\ \A s \in Sessions : reader[s] \in {"off", "done"}
    /\ closer' = "done"
    /\ UNCHANGED <<transportVars, sub, pool, queueVars, lastAckedEnd, claimVars, retryVars,
                   wakeup, closing, closed, closeDone, ctxDone, pumpVars, readerVars>>

Cancel ==
    /\ setup.mayCancel /\ ~ctxDone
    /\ ctxDone' = TRUE
    /\ UNCHANGED <<transportVars, sub, pool, queueVars, lastAckedEnd, claimVars, retryVars,
                   wakeup, closing, closed, closeDone, closer, pumpVars, readerVars>>

-----------------------------------------------------------------------------
(* Time *)

(* The retry delay elapses. *)
RetryDue ==
    /\ retryAt = "pending"
    /\ retryAt' = "due"
    /\ UNCHANGED <<transportVars, sub, pool, queueVars, lastAckedEnd, claimVars, currentAttempt,
                   advisedBefore, wakeup, closeVars, pumpVars, readerVars>>

(***************************************************************************)
(* The request timeout of the oldest batch passes.  It counts as a fault,  *)
(* unless the current connection has nobody left to report its end.        *)
(***************************************************************************)
Abandoned == currentSession # NoSession /\ reader[currentSession] = "done"

RequestTimeout ==
    /\ inflightQueue # <<>> /\ entry[Head(inflightQueue)].attemptStart = "running"
    /\ Abandoned \/ faults < MaxFaults
    /\ faults' = IF Abandoned THEN faults ELSE faults + 1
    /\ entry' = [entry EXCEPT ![Head(inflightQueue)].attemptStart = "expired"]
    /\ UNCHANGED <<transport, server, tail, applied, sub, pool, inflightQueue, sessionRefs,
                   result, ackedBy, lastAckedEnd, claimVars, retryVars, wakeup,
                   closeVars, pumpVars, readerVars>>

-----------------------------------------------------------------------------

SessionVars == <<sub, pool, queueVars, lastAckedEnd, claimVars, retryVars, wakeup, closeVars,
                 pumpVars, readerVars>>

Submitter(b) == Submit(b) \/ Reserve(b) \/ Enqueue(b)

Closer == CloseDrained \/ CloseCleansUp \/ CloseReturns

Step ==
    \/ \E b \in Batches : Submitter(b)
    \/ Pump
    \/ \E s \in Sessions : Reader(s)
    \/ \E s \in Sessions : TransportNext(s) /\ UNCHANGED SessionVars
    \/ CloseStarts \/ Closer \/ Cancel
    \/ RetryDue \/ RequestTimeout

Next == Step /\ UNCHANGED setup

(***************************************************************************)
(* Goroutines that can run eventually run, timers fire, and a connection   *)
(* that has neither failed nor been closed makes progress (the HTTP/2      *)
(* ping and write timeouts of client.go turn a silent one into a failed    *)
(* one).  Nothing obliges the application to submit or close, or the       *)
(* network to fail.                                                        *)
(***************************************************************************)
Progress(s) ==
    \/ Connected(s) \/ ConnectFailed(s) \/ ReceiveAck(s) \/ ResponseEnds(s) \/ Teardown(s)
    \/ server[s].end = "up" /\ ~transport[s].closed /\ Apply(s)
    \/ ServerFinishes(s)

Fairness ==
    /\ \A b \in Batches : WF_vars(Reserve(b)) /\ WF_vars(Enqueue(b))
    /\ WF_vars(Pump)
    /\ SF_vars(PumpCancelled)    \* select picks among ready cases at random
    /\ \A s \in Sessions :
          WF_vars(Reader(s)) /\ WF_vars(Progress(s) /\ UNCHANGED SessionVars)
    /\ WF_vars(Closer)
    /\ WF_vars(RetryDue)
    /\ WF_vars(Abandoned /\ RequestTimeout)

Spec == Init /\ [][Next]_<<vars, setup>>

FairSpec == Spec /\ Fairness

-----------------------------------------------------------------------------
(* Safety *)

(***************************************************************************)
(* Capacity is held by exactly the batches that are reserved or in flight: *)
(* every path out of the queue (ack, failAllInflight, Close) and the       *)
(* refused enqueue give it back once.                                      *)
(***************************************************************************)
CapacityHeld == {b \in Batches : sub[b] = "reserved"} \cup Queued

CapacityConserved ==
    /\ pool.bytes = SumFunctionOnSet(Size, CapacityHeld)
    /\ pool.items = IF MaxItems = 0 THEN 0 ELSE Cardinality(CapacityHeld)

(***************************************************************************)
(* The reference count that decides when an old connection may be closed   *)
(* is the number of queued batches sent on it, although the pump counts up *)
(* on a snapshot of the queue and the readers count down.                  *)
(***************************************************************************)
RefsExact ==
    \A s \in Sessions :
        sessionRefs[s] = Cardinality({b \in Queued : s \in entry[b].sentOn})

(* Both accounts are exact, and every variable keeps its type, whichever   *)
(* goroutine counts up and whichever counts down.                          *)
AccountsExact == TypeOK /\ CapacityConserved /\ RefsExact

(***************************************************************************)
(* One owner per failure: never are two goroutines deciding at once what   *)
(* becomes of the in-flight batches, and failuresPending says whether one  *)
(* is (append_session.go:28).                                              *)
(***************************************************************************)
Resolvers == {s \in Sessions : reader[s] = "resolve"} \cup
             (IF pump = "resolve" THEN {NoSession} ELSE {})

SingleResolver ==
    /\ Cardinality(Resolvers) <= 1
    /\ failuresPending = Cardinality(Resolvers)

NoneTwice == \A b \in Batches : applied[b] <= 1

(***************************************************************************)
(* The acknowledgements of a connection that handleAck has not seen yet,   *)
(* oldest first: those in acksCh, and those the transport has still to     *)
(* receive.                                                                *)
(***************************************************************************)
Way(s) == transport[s].acksCh \o server[s].response

(* b is before a in the queue. *)
Prec(b, a) == \E k, m \in DOMAIN inflightQueue : k < m /\ inflightQueue[k] = b /\ inflightQueue[m] = a

(***************************************************************************)
(* The acknowledged batches lie in the stream in the order of the queue.   *)
(* The queue is resolved from its head, so it is enough that everything    *)
(* resolved lies before every queued batch that has an acknowledgement on  *)
(* some connection, and that those lie in the order of the queue, whatever *)
(* connections they come from.                                             *)
(***************************************************************************)
InQueueOrder ==
    /\ \A b \in Batches : result[b] = "acked" => ackedBy[b].end <= lastAckedEnd
    /\ LET unhandled == UNION {Range(Way(s)) : s \in Sessions}
       IN  \A x \in unhandled :
              /\ x.of \in Queued => x.end > lastAckedEnd
              /\ \A y \in unhandled : Prec(x.of, y.of) => x.end < y.end

(***************************************************************************)
(* As long as no batch was applied twice, acknowledgements are exact: each *)
(* ticket resolved with the acknowledgement of its own batch, and the      *)
(* acknowledged batches lie in the stream in the order of the queue.       *)
(***************************************************************************)
ExactUnlessDuplicated ==
    NoneTwice =>
        /\ \A b \in Batches : result[b] = "acked" => ackedBy[b].of = b /\ applied[b] = 1
        /\ InQueueOrder

(***************************************************************************)
(* A definite failure is definite across reconnects: when a ticket fails   *)
(* with "no side effects" and nothing was applied twice, the batch was not *)
(* applied on any connection, unless its acknowledgement had arrived and   *)
(* nobody had read it yet (priorUncertainty, append_session.go:1005).      *)
(***************************************************************************)
Unread(b) ==
    \E s \in Sessions : \E i \in DOMAIN transport[s].acksCh : transport[s].acksCh[i].of = b

FailsDefinitely(b) == result[b] = "none" /\ result'[b] = "failedNoEffect"

DefiniteUnlessUnread ==
    [][\A b \in Batches :
          FailsDefinitely(b) /\ NoneTwice => applied[b] = 0 \/ Unread(b)]_vars

(***************************************************************************)
(* When Close has returned nothing is left behind: every accepted batch    *)
(* has an outcome, capacity is free but for Submit calls about to be       *)
(* refused, every reader is gone and every connection is closed.           *)
(***************************************************************************)
CleanAfterClose ==
    closer = "done" =>
        /\ \A b \in Batches : sub[b] = "enqueued" => result[b] # "none"
        /\ CapacityHeld = {b \in Batches : sub[b] = "reserved"}
        /\ pump = "exited"
        /\ \A s \in Sessions : reader[s] \in {"off", "done"}
        /\ \A s \in Created : transport[s].closed \/ transport[s].conn = "ended"

(***************************************************************************)
(* The session implements the queue its users may reason about: whatever   *)
(* the connections do, each step accepts a batch at the back, acknowledges *)
(* the one at the front at a new position, or fails everything for good.   *)
(***************************************************************************)
Promise == INSTANCE OrderedAppends
               WITH queue <- inflightQueue, outcome <- result,
                    last <- lastAckedEnd, ended <- closing

ImplementsOrderedAppends == Promise!Spec

-----------------------------------------------------------------------------
(* Liveness *)

(***************************************************************************)
(* Every Submit is refused, or its batch is eventually acknowledged or     *)
(* failed: no goroutine waits for capacity, and no ticket for an outcome,  *)
(* for ever (createSubmitFuture, runPump).                                 *)
(***************************************************************************)
TicketsResolve ==
    \A b \in Batches :
        sub[b] = "reserving" ~> sub[b] = "rejected" \/ result[b] # "none"

(* Every call of Close returns. *)
CloseCompletes == closer = "waitDone" ~> closer = "done"

(* Everything the application waits for comes: tickets and Close.          *)
SessionSettles == TicketsResolve /\ CloseCompletes

-----------------------------------------------------------------------------
(* What the documentation promises about durability and retries *)

(***************************************************************************)
(* "the AppendAck once the batch is durable" (append_session.go:87): a     *)
(* ticket resolves with an acknowledgement only if its batch was applied.  *)
(* It rests on the record count of handleAck: it holds when the counts of  *)
(* the batches differ, and not when they are equal and a retry duplicates. *)
(***************************************************************************)
AckedIsDurable == \A b \in Batches : result[b] = "acked" => applied[b] > 0

(***************************************************************************)
(* AppendRetryPolicyNoSideEffects: "Only retry append operations that are  *)
(* guaranteed to have no side effects" (append.go:23): under this policy a *)
(* batch is applied at most once, and so is, under any policy, a batch     *)
(* that requires the tail its predecessors leave.                          *)
(***************************************************************************)
NoDuplicates ==
    \A b \in Batches :
        setup.policy = "noSideEffects" \/ setup.matchSeqNum[b] # NoMatch => applied[b] <= 1

=============================================================================
