------------------------- MODULE AppendSession_proofs -------------------------
(***************************************************************************)
(* Proofs about AppendSession, for any finite set of batches of any sizes, *)
(* any limits and bounds, and any number of connections.                   *)
(***************************************************************************)
EXTENDS AppendSession, Capacity_proofs, SequenceTheorems

(* What the pump knows at each place: while it works on a session it has   *)
(* one, and while it sends there is an entry to send.                      *)
PumpOK ==
    /\ pump \in {"mark", "append", "write", "claim", "resolve"} => pumpSession \in Sessions
    /\ pump \in {"append", "write"} => pumpTodo # <<>>

(* A claimed failure has taken the session away from everybody else: until *)
(* it is resolved there is no current session, and getSession opens none.  *)
ClaimIsExclusive ==
    /\ Resolvers # {} => currentSession = NoSession
    /\ SingleResolver

(* The parts of the type invariant that the steps below use one by one. *)
QueueTypes ==
    /\ inflightQueue \in Seq(Batches)
    /\ entry \in [Batches -> Entries]
    /\ sessionRefs \in [Sessions -> Nat]
    /\ result \in [Batches -> {"none", "acked"} \cup Failures]
    /\ ackedBy \in [Batches -> Acks \cup {NoAck}]
    /\ lastAckedEnd \in Nat

CloseTypes ==
    /\ {closing, closed, closeDone, ctxDone} \subseteq BOOLEAN
    /\ closer \in {"idle", "waitDone", "waitPump", "waitReaders", "done"}

-----------------------------------------------------------------------------
(* Closing connections changes two fields of theirs and nothing else. *)
LEMMA ClosedSessionsFields ==
    ASSUME NEW t \in [Sessions -> Transports], NEW S
    PROVE  /\ ClosedSessions(t, S) \in [Sessions -> Transports]
           /\ \A s \in Sessions :
                 /\ ClosedSessions(t, S)[s].conn = t[s].conn
                 /\ ClosedSessions(t, S)[s].closed = (t[s].closed \/ s \in S)
BY ZenonT(60) DEF ClosedSessions, Transports

(* failAllInflight gives back what the queued batches held, clamped. *)
LEMMA ReleasedAllFields ==
    ASSUME NEW p \in Pool, NEW S \in SUBSET Batches
    PROVE  /\ ReleasedAll(p, S) \in Pool
           /\ ReleasedAll(p, S).bytes = LET n == SumFunctionOnSet(Size, S)
                                        IN  IF p.bytes >= n THEN p.bytes - n ELSE 0
           /\ ReleasedAll(p, S).items =
                 IF MaxItems = 0 THEN p.items
                 ELSE IF p.items >= Cardinality(S) THEN p.items - Cardinality(S) ELSE 0
<1>1. IsFiniteSet(S)
    BY SessionAssumption, FS_Subset
<1>2. SumFunctionOnSet(Size, S) \in Nat
    BY <1>1, SessionAssumption, SumType
<1>3. Cardinality(S) \in Nat
    BY <1>1, FS_CardinalityType
<1> DEFINE n == SumFunctionOnSet(Size, S)
           m == Cardinality(S)
           bytes == IF p.bytes >= n THEN p.bytes - n ELSE 0
           items == IF MaxItems = 0 THEN p.items ELSE IF p.items >= m THEN p.items - m ELSE 0
<1>4. ReleasedAll(p, S) = [p EXCEPT !.bytes = bytes, !.items = items]
    BY DEF ReleasedAll, Pool
<1>5. bytes \in Nat
    BY <1>2 DEF Pool
<1>6. items \in Nat
    BY <1>3 DEF Pool
<1> HIDE DEF bytes, items
<1>7. ReleasedAll(p, S).bytes = bytes /\ ReleasedAll(p, S).items = items
    BY <1>4 DEF Pool
<1>8. ReleasedAll(p, S) \in Pool
    BY <1>4, <1>5, <1>6 DEF Pool
<1> QED BY <1>7, <1>8 DEF bytes, items

(* Closing the tracker leaves its counters alone. *)
LEMMA ClosedPoolFields ==
    ASSUME NEW p \in Pool
    PROVE  /\ ClosedPool(p) \in Pool
           /\ ClosedPool(p).bytes = p.bytes /\ ClosedPool(p).items = p.items
BY DEF ClosedPool, Pool

(* Failing the queue leaves every field of its type. *)
LEMMA FailQueuedTypes ==
    ASSUME TypeOK, NEW outcome \in [Queued -> Failures], NEW t \in [Sessions -> Transports],
           FailQueued(outcome, t)
    PROVE  /\ pool' \in Pool /\ inflightQueue' = <<>> /\ inflightQueue' \in Seq(Batches)
           /\ sessionRefs' \in [Sessions -> Nat]
           /\ result' \in [Batches -> {"none", "acked"} \cup Failures]
           /\ transport' \in [Sessions -> Transports]
           /\ ackedBy' = ackedBy
<1>1. Queued \in SUBSET Batches
    BY DEF Queued, TypeOK
<1>2. pool' \in Pool
    BY <1>1, ReleasedAllFields, ClosedPoolFields DEF FailQueued, TypeOK
<1>3. result' \in [Batches -> {"none", "acked"} \cup Failures]
    BY <1>1 DEF FailQueued, TypeOK
<1>4. transport' \in [Sessions -> Transports]
    BY ClosedSessionsFields DEF FailQueued, AllClosed
<1> QED BY <1>2, <1>3, <1>4 DEF FailQueued

(* withPriorUncertainty makes a failure of every queued batch. *)
LEMMA OutcomesAreFailures ==
    ASSUME NEW err
    PROVE  [b \in Queued |-> WithPriorUncertainty(err, entry[b].priorUncertainty)]
              \in [Queued -> Failures]
BY DEF WithPriorUncertainty, Failures

(* What failAllInflight assigns has its types, also when it is not called. *)
InflightTypes ==
    /\ pool \in Pool
    /\ QueueTypes
    /\ CloseTypes
    /\ transport \in [Sessions -> Transports]

(* failAllInflight keeps the types of queue, outcomes, capacity and references. *)
LEMMA FailAllTypes ==
    ASSUME TypeOK, NEW err, NEW t \in [Sessions -> Transports], FailAllInflight(err, t),
           UNCHANGED <<entry, lastAckedEnd>>
    PROVE  InflightTypes'
<1>1. /\ pool' \in Pool /\ inflightQueue' \in Seq(Batches)
      /\ sessionRefs' \in [Sessions -> Nat]
      /\ result' \in [Batches -> {"none", "acked"} \cup Failures]
      /\ transport' \in [Sessions -> Transports]
      /\ ackedBy' = ackedBy
    BY OutcomesAreFailures, FailQueuedTypes DEF FailAllInflight
<1>2. QueueTypes'
    BY <1>1 DEF QueueTypes, TypeOK
<1>3. CloseTypes'
    BY DEF FailAllInflight, CloseTypes, TypeOK
<1> QED BY <1>1, <1>2, <1>3 DEF InflightTypes

(* A step that leaves them alone keeps them. *)
LEMMA KeepInflightTypes ==
    ASSUME TypeOK, NEW t \in [Sessions -> Transports], KeepInflight(t),
           entry' \in [Batches -> Entries], lastAckedEnd' = lastAckedEnd
    PROVE  InflightTypes'
BY DEF KeepInflight, InflightTypes, QueueTypes, CloseTypes, TypeOK, closeVars

(* markAckReceived changes one counter. *)
LEMMA AckReceivedFields ==
    ASSUME NEW t \in [Sessions -> Transports], NEW s \in Sessions
    PROVE  /\ AckReceived(t, s) \in [Sessions -> Transports]
           /\ \A q \in Sessions : /\ AckReceived(t, s)[q].conn = t[q].conn
                                   /\ AckReceived(t, s)[q].closed = t[q].closed
<1> DEFINE n == IF t[s].pendingWrites > 0 THEN t[s].pendingWrites - 1 ELSE 0
<1>1. t[s] \in Transports /\ n \in Nat
    BY DEF Transports
<1>2. AckReceived(t, s) = [t EXCEPT ![s] = [t[s] EXCEPT !.pendingWrites = n]]
    BY DEF AckReceived
<1> HIDE DEF n
<1>3. [t[s] EXCEPT !.pendingWrites = n] \in Transports
    BY <1>1 DEF Transports
<1> QED BY <1>1, <1>2, <1>3 DEF Transports

(* handleAck preserves the types. *)
LEMMA HandleAckTypes ==
    ASSUME TypeOK, NEW s \in Sessions, NEW ack \in Acks, NEW t \in [Sessions -> Transports],
           HandleAck(s, ack, t)
    PROVE  InflightTypes' /\ wakeup' \in BOOLEAN /\ currentAttempt' \in Nat
<1>1. CASE ~ConcernsHead(s, ack)
    BY <1>1, KeepInflightTypes DEF HandleAck, TypeOK
<1>2. CASE ConcernsHead(s, ack) /\ ~ValidAck(Head(inflightQueue), ack)
    BY <1>2, FailAllTypes DEF HandleAck, TypeOK
<1>3. CASE ConcernsHead(s, ack) /\ ValidAck(Head(inflightQueue), ack)
    <2> DEFINE b == Head(inflightQueue)
    <2>0. b \in Batches /\ inflightQueue # <<>> /\ Size[b] \in Nat
        BY <1>3, SessionAssumption DEF ConcernsHead, TypeOK
    <2>1. CompleteHead(s, ack, t)
        BY <1>3 DEF HandleAck
    <2>2. pool' \in Pool
        BY <2>0, <2>1, ReleasedFields DEF CompleteHead, TypeOK
    <2>3. AckReceived(t, s) \in [Sessions -> Transports]
        BY AckReceivedFields
    <2>4. transport' \in [Sessions -> Transports]
        BY <2>1, <2>3, ClosedSessionsFields DEF CompleteHead
    <2>5. inflightQueue' \in Seq(Batches)
        BY <2>0, <2>1 DEF CompleteHead, TypeOK
    <2>6. entry' \in [Batches -> Entries]
        BY ZenonT(60), <2>0, <2>1 DEF CompleteHead, TypeOK, Entries
    <2>7. sessionRefs' \in [Sessions -> Nat]
        BY <2>1 DEF CompleteHead, ReleasedRefs, TypeOK
    <2>8. /\ result' \in [Batches -> {"none", "acked"} \cup Failures]
          /\ ackedBy' \in [Batches -> Acks \cup {NoAck}]
        BY <2>0, <2>1 DEF CompleteHead, TypeOK
    <2>9. lastAckedEnd' \in Nat /\ currentAttempt' \in Nat /\ wakeup' \in BOOLEAN
        BY <2>1 DEF CompleteHead, WakeupPump, Acks
    <2>10. CloseTypes'
        BY <2>1 DEF CompleteHead, CloseTypes, TypeOK, closeVars
    <2>11. QueueTypes'
        BY <2>5, <2>6, <2>7, <2>8, <2>9 DEF QueueTypes
    <2> QED BY <2>2, <2>4, <2>9, <2>10, <2>11 DEF InflightTypes
<1> QED BY <1>1, <1>2, <1>3

(* resetInflightAttemptStarts and markInflightUncertainty keep the entries *)
(* of their type and touch no sentOn.                                      *)
LEMMA ResetEntriesFields ==
    ASSUME TypeOK, NEW s, NEW err
    PROVE  /\ ResetEntries(s, err) \in [Batches -> Entries]
           /\ \A b \in Batches : ResetEntries(s, err)[b].sentOn = entry[b].sentOn
<1> DEFINE marked(b) == entry[b].priorUncertainty \/ (~HasNoSideEffects(err) /\ s \in entry[b].sentOn)
<1>1. \A b \in Batches : marked(b) \in BOOLEAN
    OBVIOUS
<1>2. \A b \in Batches : entry[b] \in Entries
    BY DEF TypeOK
<1>3. ResetEntries(s, err) =
        [b \in Batches |->
            IF b \notin Queued THEN entry[b]
            ELSE [entry[b] EXCEPT !.attemptStart = "zero", !.priorUncertainty = marked(b)]]
    BY <1>2 DEF ResetEntries, Entries
<1> HIDE DEF marked
<1>4. ASSUME NEW b \in Batches
      PROVE  /\ [entry[b] EXCEPT !.attemptStart = "zero", !.priorUncertainty = marked(b)] \in Entries
             /\ [entry[b] EXCEPT !.attemptStart = "zero", !.priorUncertainty = marked(b)].sentOn
                   = entry[b].sentOn
    BY <1>1, <1>2 DEF Entries
<1> QED BY <1>2, <1>3, <1>4

(* handleClaimedSessionError preserves the types. *)
LEMMA ResolveTypes ==
    ASSUME TypeOK, failuresPending > 0, NEW s, NEW err, ResolveFailure(s, err)
    PROVE  /\ InflightTypes' /\ failuresPending' \in Nat /\ currentAttempt' \in Nat
           /\ retryAt' \in {"none", "pending", "due"}
           /\ wakeup' \in BOOLEAN /\ advisedBefore' \in BOOLEAN
           /\ UNCHANGED <<remoteVars, sub, currentSession>>
<1>0. /\ failuresPending' \in Nat /\ wakeup' \in BOOLEAN
      /\ UNCHANGED <<remoteVars, sub, lastAckedEnd, currentSession>>
    BY DEF ResolveFailure, WakeupPump, TypeOK
<1>1. transport \in [Sessions -> Transports]
    BY DEF TypeOK, TransportTypeOK
<1>2. CASE IsServerDraining(err)
    <2>1. entry' = ResetEntries(s, err) /\ KeepInflight(transport)
        BY <1>2 DEF ResolveFailure
    <2>2. InflightTypes'
        BY <1>0, <1>1, <2>1, KeepInflightTypes, ResetEntriesFields
    <2> QED BY <1>0, <1>2, <2>2 DEF ResolveFailure, TypeOK
<1>3. CASE ~IsServerDraining(err) /\ ~MayRetry(s, err)
    <2>1. InflightTypes'
        BY <1>0, <1>1, <1>3, FailAllTypes DEF ResolveFailure
    <2> QED BY <1>0, <1>3, <2>1 DEF ResolveFailure, TypeOK, retryVars
<1>4. CASE ~IsServerDraining(err) /\ MayRetry(s, err)
    <2>1. entry' = ResetEntries(s, err) /\ KeepInflight(transport)
        BY <1>4 DEF ResolveFailure
    <2>2. InflightTypes'
        BY <1>0, <1>1, <2>1, KeepInflightTypes, ResetEntriesFields
    <2> QED BY <1>0, <1>4, <2>2 DEF ResolveFailure, TypeOK, ScheduledRetry
<1> QED BY <1>2, <1>3, <1>4

-----------------------------------------------------------------------------
(* One connection *)

(* reportError keeps the connection's state and whether it was closed. *)
LEMMA ReportingFields ==
    ASSUME NEW tr \in Transports, NEW err \in Errors
    PROVE  /\ Reporting(tr, err) \in Transports
           /\ Reporting(tr, err).conn = tr.conn /\ Reporting(tr, err).closed = tr.closed
<1> DEFINE e1 == IF tr.terminalErr = NoError THEN err ELSE tr.terminalErr
           e2 == IF tr.closed \/ tr.errorsCh # NoError THEN tr.errorsCh ELSE err
<1>1. e1 \in Errors \cup {NoError} /\ e2 \in Errors \cup {NoError}
    BY DEF Transports
<1>2. Reporting(tr, err) = [tr EXCEPT !.terminalErr = e1, !.errorsCh = e2]
    BY DEF Reporting
<1> HIDE DEF e1, e2
<1> QED BY <1>1, <1>2 DEF Transports

(* Every step of a connection and of the server preserves the types. *)
LEMMA TransportTypeStep ==
    ASSUME TransportTypeOK, setup \in Setups, NEW s \in Sessions, TransportNext(s)
    PROVE  TransportTypeOK'
<1> USE TransportAssumption
<1>0. transport[s] \in Transports /\ server[s] \in Servers
    BY DEF TransportTypeOK
<1>f. faults < MaxFaults => faults + 1 \in 0 .. MaxFaults
    BY DEF TransportTypeOK
<1>s. setup.errors \subseteq Errors
    OBVIOUS
<1>1. CASE Connected(s)
    BY <1>0, <1>1 DEF Connected, TransportTypeOK, Transports
<1>2. CASE ConnectFailed(s)
    <2>1. Reporting(transport[s], server[s].end) \in Transports
        BY <1>0, <1>2, ReportingFields DEF ConnectFailed
    <2>2. RequestFailed(transport[s], server[s].end) \in Transports
        BY ZenonT(60), <2>1 DEF RequestFailed, Transports
    <2> QED BY <1>2, <2>2 DEF ConnectFailed, TransportTypeOK
<1>3. CASE ReceiveAck(s)
    <2>1. PICK advised \in BOOLEAN :
            /\ advised => faults < MaxFaults
            /\ faults' = IF advised THEN faults + 1 ELSE faults
            /\ transport' = [transport EXCEPT
                 ![s].acksCh = Append(transport[s].acksCh, Head(server[s].response)),
                 ![s].reconnectAdvised = transport[s].reconnectAdvised \/ advised]
        BY <1>0, <1>3 DEF ReceiveAck, TransportTypeOK, Transports
    <2>2. Append(transport[s].acksCh, Head(server[s].response)) \in Seq(Acks)
        BY <1>0, <1>3 DEF ReceiveAck, Transports, Servers
    <2>3. (transport[s].reconnectAdvised \/ advised) \in BOOLEAN
        OBVIOUS
    <2>4. transport' \in [Sessions -> Transports]
        BY <1>0, <2>1, <2>2, <2>3 DEF TransportTypeOK, Transports
    <2>5. server' \in [Sessions -> Servers]
        <3>1. server' = [server EXCEPT ![s] = [server[s] EXCEPT !.response = Tail(@)]]
            BY <1>3 DEF ReceiveAck
        <3>2. Tail(server[s].response) \in Seq(Acks)
            BY <1>0, <1>3 DEF ReceiveAck, Servers
        <3>3. [server[s] EXCEPT !.response = Tail(@)] \in Servers
            BY <1>0, <3>2 DEF Servers
        <3> QED BY <3>1, <3>3 DEF TransportTypeOK
    <2>6. faults' \in 0 .. MaxFaults
        BY <2>1, <1>f DEF TransportTypeOK
    <2> QED BY <1>3, <2>4, <2>5, <2>6 DEF ReceiveAck, TransportTypeOK
<1>4. CASE ResponseEnds(s)
    <2>1. PICK r \in Transports : transport' = [transport EXCEPT ![s] = [r EXCEPT !.conn = "failing"]]
        <3>1. CASE server[s].end \in Errors /\ ~transport[s].closed
            BY <1>0, <1>4, <3>1, ReportingFields DEF ResponseEnds
        <3>2. CASE ~(server[s].end \in Errors /\ ~transport[s].closed)
            BY <1>0, <1>4, <3>2 DEF ResponseEnds
        <3> QED BY <3>1, <3>2
    <2>2. [r EXCEPT !.conn = "failing"] \in Transports
        BY DEF Transports
    <2> QED BY <1>4, <2>1, <2>2 DEF ResponseEnds, TransportTypeOK
<1>5. CASE Teardown(s)
    <2> DEFINE t == [transport EXCEPT ![s].conn = "ended", ![s].chansClosed = TRUE]
    <2>1. t \in [Sessions -> Transports]
        BY <1>0 DEF TransportTypeOK, Transports
    <2>2. transport' = ClosedSessions(t, {s})
        BY <1>5 DEF Teardown
    <2> HIDE DEF t
    <2>3. transport' \in [Sessions -> Transports]
        BY <2>1, <2>2, ClosedSessionsFields
    <2> QED BY <1>5, <2>3 DEF Teardown, TransportTypeOK
<1>6. CASE Apply(s)
    <2> DEFINE b == Head(server[s].inbox)
    <2>0. b \in Batches /\ Count[b] \in Nat /\ Tail(server[s].inbox) \in Seq(Batches)
        BY <1>0, <1>6 DEF Apply, Servers
    <2>1. CASE Condition(b) \in {NoMatch, tail}
        <3>0. /\ tail' = tail + Count[b]
              /\ applied' = [applied EXCEPT ![b] = @ + 1]
              /\ UNCHANGED <<transport, faults>>
            BY <1>6, <2>1 DEF Apply
        <3>1. tail' \in Nat
            BY <2>0, <3>0 DEF TransportTypeOK
        <3>2. applied' \in [Batches -> Nat]
            <4> HIDE DEF b
            <4>1. applied[b] + 1 \in Nat
                BY <2>0 DEF TransportTypeOK
            <4> QED BY <2>0, <3>0, <4>1 DEF TransportTypeOK
        <3> DEFINE resp == IF server[s].end = "up"
                           THEN Append(server[s].response, [of |-> b, end |-> tail'])
                           ELSE server[s].response
        <3>3. server' = [server EXCEPT ![s].inbox = Tail(server[s].inbox), ![s].response = resp]
            BY <1>6, <2>1 DEF Apply
        <3>4. [of |-> b, end |-> tail'] \in Acks
            BY <2>0, <3>1 DEF Acks
        <3>5. resp \in Seq(Acks)
            BY <1>0, <3>4 DEF Servers
        <3> HIDE DEF resp
        <3>6. server' = [server EXCEPT ![s] =
                 [server[s] EXCEPT !.inbox = Tail(server[s].inbox), !.response = resp]]
            BY <3>3
        <3>7. [server[s] EXCEPT !.inbox = Tail(server[s].inbox), !.response = resp] \in Servers
            BY <1>0, <2>0, <3>5 DEF Servers
        <3>8. server' \in [Sessions -> Servers]
            BY <3>6, <3>7 DEF TransportTypeOK
        <3> QED BY <3>0, <3>1, <3>2, <3>8 DEF TransportTypeOK
    <2>2. CASE Condition(b) \notin {NoMatch, tail}
        <3> DEFINE end == IF server[s].end = "up" THEN "fatalNoEffect" ELSE server[s].end
        <3>1. /\ server' = [server EXCEPT ![s] = [server[s] EXCEPT !.inbox = <<>>, !.end = end]]
              /\ UNCHANGED <<transport, tail, applied, faults>>
            BY <1>6, <2>2 DEF Apply
        <3>2. "fatalNoEffect" \in Errors
            BY DEF Errors
        <3>3. end \in Errors \cup {"up", "eof"}
            BY <1>0, <3>2 DEF Servers
        <3>4. <<>> \in Seq(Batches)
            OBVIOUS
        <3> HIDE DEF end
        <3>5. [server[s] EXCEPT !.inbox = <<>>, !.end = end] \in Servers
            BY <1>0, <3>3, <3>4 DEF Servers
        <3> QED BY <3>1, <3>5 DEF TransportTypeOK
    <2> QED BY <2>1, <2>2
<1>7. CASE ServerEnds(s)
    <2>1. PICK end \in (setup.errors \ {"uncertain"}) \cup {"eof"} :
            server' = [server EXCEPT ![s].end = end,
                                     ![s].inbox = IF HasNoSideEffects(end) THEN <<>> ELSE @]
        BY <1>7 DEF ServerEnds
    <2> DEFINE inbox == IF HasNoSideEffects(end) THEN <<>> ELSE server[s].inbox
    <2>2. server' = [server EXCEPT ![s] = [server[s] EXCEPT !.end = end, !.inbox = inbox]]
        BY <2>1
    <2>3. inbox \in Seq(Batches)
        BY <1>0 DEF Servers
    <2>4. end \in Errors \cup {"up", "eof"}
        BY <1>s
    <2> HIDE DEF inbox
    <2>5. [server[s] EXCEPT !.end = end, !.inbox = inbox] \in Servers
        BY <1>0, <2>3, <2>4 DEF Servers
    <2> QED BY <1>7, <1>f, <2>2, <2>5 DEF ServerEnds, TransportTypeOK
<1>8. CASE ServerFinishes(s)
    BY <1>0, <1>8 DEF ServerFinishes, TransportTypeOK, Servers
<1>9. CASE Break(s)
    <2>1. server' \in [Sessions -> Servers]
        <3>1. server' = [server EXCEPT ![s] = [server[s] EXCEPT !.end = "uncertain", !.response = <<>>]]
            BY <1>9 DEF Break
        <3>2. "uncertain" \in Errors /\ <<>> \in Seq(Acks)
            BY DEF Errors
        <3>3. [server[s] EXCEPT !.end = "uncertain", !.response = <<>>] \in Servers
            BY <1>0, <3>2 DEF Servers
        <3> QED BY <3>1, <3>3 DEF TransportTypeOK
    <2>2. transport' \in [Sessions -> Transports]
        BY <1>0, <1>9 DEF Break, TransportTypeOK, Transports
    <2> QED BY <1>9, <1>f, <2>1, <2>2 DEF Break, TransportTypeOK
<1> QED BY <1>1, <1>2, <1>3, <1>4, <1>5, <1>6, <1>7, <1>8, <1>9 DEF TransportNext

(* The zero value has its type. *)
LEMMA NoTransportType == NoTransport \in Transports
<1>1. <<>> \in Seq(Acks)
    OBVIOUS
<1> QED BY <1>1 DEF NoTransport, Transports

(* A resolver is counted in failuresPending. *)
LEMMA ResolverCounted ==
    ASSUME ClaimIsExclusive, TypeOK, pump = "resolve" \/ \E s \in Sessions : reader[s] = "resolve"
    PROVE  failuresPending > 0
<1>1. IsFiniteSet(Resolvers)
    <2>1. IsFiniteSet({s \in Sessions : reader[s] = "resolve"})
        BY SessionsAssumption, FS_Subset
    <2>2. IsFiniteSet({NoSession}) /\ IsFiniteSet({})
        BY FS_Singleton, FS_EmptySet
    <2> QED BY <2>1, <2>2, FS_Union DEF Resolvers
<1>2. Resolvers # {}
    BY DEF Resolvers
<1>3. Cardinality(Resolvers) # 0 /\ Cardinality(Resolvers) \in Nat
    BY <1>1, <1>2, FS_EmptySet, FS_CardinalityType
<1> QED BY <1>3 DEF ClaimIsExclusive, SingleResolver

-----------------------------------------------------------------------------
(* Type correctness *)

(* The types of everything that failAllInflight and a connection leave alone. *)
RestTypes ==
    /\ sub \in [Batches -> {"idle", "reserving", "reserved", "enqueued", "rejected"}]
    /\ currentSession \in Sessions \cup {NoSession}
    /\ failuresPending \in Nat
    /\ currentAttempt \in Nat
    /\ retryAt \in {"none", "pending", "due"}
    /\ {advisedBefore, wakeup} \subseteq BOOLEAN
    /\ pump \in {"select", "process", "getSession", "submit", "mark", "append", "write",
                 "claim", "resolve", "timeouts", "exited"}
    /\ pumpSession \in Sessions \cup {NoSession}
    /\ pumpTodo \in Seq(Batches)
    /\ pumpErr \in Errors \cup {NoError}
    /\ reader \in [Sessions -> {"off", "select", "drain", "advised", "advice", "claim",
                               "resolve", "done"}]
    /\ readerErr \in [Sessions -> Errors \cup {NoError}]
    /\ reconnectAccepted \in [Sessions -> BOOLEAN]

RemoteTypes ==
    /\ server \in [Sessions -> Servers]
    /\ tail \in Nat
    /\ applied \in [Batches -> Nat]
    /\ faults \in 0..MaxFaults

(* The type invariant is these parts. *)
LEMMA TypeParts ==
    /\ TypeOK => InflightTypes /\ RestTypes /\ RemoteTypes
    /\ InflightTypes' /\ RestTypes' /\ RemoteTypes' => TypeOK'
BY DEF TypeOK, TransportTypeOK, InflightTypes, QueueTypes, CloseTypes, RestTypes, RemoteTypes

(* Every step of a Submit goroutine preserves the types. *)
LEMMA SubmitterTypes ==
    ASSUME TypeOK, NEW b \in Batches, Submitter(b)
    PROVE  TypeOK'
<1> USE DEF transportVars, queueVars, retryVars, claimVars, closeVars, pumpVars, readerVars
<1>0. Size[b] \in Nat
    BY SessionAssumption
<1>1. CASE Submit(b)
    BY <1>1 DEF Submit, TypeOK, TransportTypeOK
<1>2. CASE Reserve(b)
    <2>1. pool' \in Pool
        <3>1. pool \in Pool
            BY DEF TypeOK
        <3>2. pool' = pool \/ pool' = Reserved(pool, Size[b])
            BY <1>2 DEF Reserve
        <3> QED BY <1>0, <3>1, <3>2, ReservedFields
    <2>2. sub' \in [Batches -> {"idle", "reserving", "reserved", "enqueued", "rejected"}]
        BY <1>2 DEF Reserve, TypeOK
    <2> QED BY <1>2, <2>1, <2>2 DEF Reserve, TypeOK, TransportTypeOK
<1>3. CASE Enqueue(b)
    <2>1. pool' \in Pool
        <3>1. pool \in Pool
            BY DEF TypeOK
        <3>2. pool' = pool \/ pool' = Released(pool, Size[b])
            BY <1>3 DEF Enqueue
        <3> QED BY <1>0, <3>1, <3>2, ReleasedFields
    <2>2. inflightQueue' \in Seq(Batches)
        <3>1. inflightQueue \in Seq(Batches)
            BY DEF TypeOK
        <3>2. inflightQueue' \in {inflightQueue, Append(inflightQueue, b)}
            BY <1>3 DEF Enqueue
        <3> QED BY <3>1, <3>2
    <2>3. wakeup' \in BOOLEAN
        BY <1>3 DEF Enqueue, WakeupPump, TypeOK
    <2>4. sub' \in [Batches -> {"idle", "reserving", "reserved", "enqueued", "rejected"}]
        BY <1>3 DEF Enqueue, TypeOK
    <2> QED BY <1>3, <2>1, <2>2, <2>3, <2>4 DEF Enqueue, TypeOK, TransportTypeOK
<1> QED BY <1>1, <1>2, <1>3 DEF Submitter

(* Every step of the pump preserves the types. *)
LEMMA PumpTypes ==
    ASSUME TypeOK, PumpOK, ClaimIsExclusive, setup \in Setups, Pump
    PROVE  TypeOK'
<1> USE DEF transportVars, remoteVars, queueVars, retryVars, claimVars, closeVars, pumpVars,
            readerVars
<1>t. transport \in [Sessions -> Transports]
    BY DEF TypeOK, TransportTypeOK
<1>s. setup.errors \subseteq Errors
    BY TransportAssumption
<1>1. CASE PumpWakes
    BY <1>1 DEF PumpWakes, TypeOK, TransportTypeOK
<1>2. CASE PumpCancelled
    <2>1. InflightTypes'
        BY <1>t, <1>2, FailAllTypes DEF PumpCancelled
    <2>2. RestTypes'
        BY <1>2 DEF PumpCancelled, RestTypes, TypeOK
    <2>3. RemoteTypes'
        BY <1>2 DEF PumpCancelled, RemoteTypes, TypeOK, TransportTypeOK
    <2> QED BY <2>1, <2>2, <2>3, TypeParts
<1>3. CASE PumpProcess
    BY <1>3 DEF PumpProcess, TypeOK, TransportTypeOK
<1>4. CASE PumpKeepsSession
    BY <1>4 DEF PumpKeepsSession, TypeOK, TransportTypeOK
<1>5. CASE PumpOpensSession
    <2>1. PICK s \in Sessions : /\ currentSession' = s /\ transport' = Started(s)
                                 /\ reader' = [reader EXCEPT ![s] = "select"]
        BY <1>5 DEF PumpOpensSession
    <2>2. [NoTransport EXCEPT !.conn = "connecting", !.requestWriter = "open"] \in Transports
        BY NoTransportType DEF Transports
    <2>3. transport' \in [Sessions -> Transports]
        BY <1>t, <2>1, <2>2 DEF Started
    <2> QED BY <1>5, <2>1, <2>3 DEF PumpOpensSession, TypeOK, TransportTypeOK
<1>6. CASE PumpStartFails
    <2>1. PICK err \in Errors :
            \/ /\ KeepInflight(transport) /\ WakeupPump /\ retryAt' = ScheduledRetry
               /\ currentAttempt' = currentAttempt + 1
            \/ FailAllInflight(err, transport) /\ UNCHANGED <<currentAttempt, retryAt, wakeup>>
        BY <1>s, <1>6 DEF PumpStartFails
    <2>2. InflightTypes'
        <3>1. entry' \in [Batches -> Entries] /\ UNCHANGED <<entry, lastAckedEnd>>
            BY <1>6 DEF PumpStartFails, TypeOK
        <3> QED BY <1>t, <2>1, <3>1, KeepInflightTypes, FailAllTypes
    <2>3. RestTypes'
        <3>1. currentAttempt' \in Nat
            BY <2>1 DEF TypeOK
        <3>2. wakeup' \in BOOLEAN
            BY <2>1 DEF TypeOK, WakeupPump
        <3>3. retryAt' \in {"none", "pending", "due"}
            BY <2>1 DEF TypeOK, ScheduledRetry
        <3>4. pump' = "timeouts"
            BY <1>6 DEF PumpStartFails
        <3> QED BY <1>6, <3>1, <3>2, <3>3, <3>4 DEF PumpStartFails, RestTypes, TypeOK
    <2>4. RemoteTypes'
        BY <1>6, TransportAssumption DEF PumpStartFails, RemoteTypes, TypeOK, TransportTypeOK
    <2> QED BY <2>2, <2>3, <2>4, TypeParts
<1>7. CASE PumpSubmits
    BY <1>7 DEF PumpSubmits, TypeOK, TransportTypeOK
<1>8. CASE PumpMarks
    <2>0. pumpSession \in Sessions
        BY <1>8 DEF PumpMarks, PumpOK
    <2>1. PICK i \in DOMAIN pumpTodo :
             /\ pumpTodo' = SubSeq(pumpTodo, i, Len(pumpTodo))
             /\ entry' = [entry EXCEPT
                    ![pumpTodo[i]].sentOn = @ \cup {pumpSession},
                    ![pumpTodo[i]].attemptStart = IF @ = "zero" THEN "running" ELSE @]
        BY <1>8 DEF PumpMarks
    <2>2. i \in 1 .. Len(pumpTodo) /\ pumpTodo[i] \in Batches
        BY DEF TypeOK
    <2>3. pumpTodo' \in Seq(Batches)
        BY <2>1, <2>2 DEF TypeOK
    <2>4. entry' \in [Batches -> Entries]
        <3> DEFINE b == pumpTodo[i]
                   sent == entry[b].sentOn \cup {pumpSession}
                   start == IF entry[b].attemptStart = "zero" THEN "running"
                                                               ELSE entry[b].attemptStart
        <3>1. entry' = [entry EXCEPT ![b] = [entry[b] EXCEPT !.sentOn = sent, !.attemptStart = start]]
            BY <2>1
        <3>2. b \in Batches /\ entry \in [Batches -> Entries]
            BY <2>2 DEF TypeOK
        <3>3. sent \in SUBSET Sessions /\ start \in {"zero", "running", "expired"}
            BY <2>0, <3>2 DEF Entries
        <3> HIDE DEF b, sent, start
        <3>4. [entry[b] EXCEPT !.sentOn = sent, !.attemptStart = start] \in Entries
            BY <3>2, <3>3 DEF Entries
        <3> QED BY <3>1, <3>2, <3>4
    <2>5. sessionRefs' \in [Sessions -> Nat]
        BY <2>0, <1>8 DEF PumpMarks, TypeOK
    <2> QED BY <1>8, <2>3, <2>4, <2>5 DEF PumpMarks, TypeOK, TransportTypeOK
<1>9. CASE PumpDoneSending
    BY <1>9 DEF PumpDoneSending, TypeOK, TransportTypeOK
<1>10. CASE PumpAppends
    <2>0. pumpSession \in Sessions
        BY <1>10 DEF PumpAppends, PumpOK
    <2>1. InputError(pumpSession) \in Errors
        BY <1>t, <2>0 DEF InputError, Transports, Errors
    <2>2. transport' \in [Sessions -> Transports]
        <3> DEFINE n == transport[pumpSession].pendingWrites + 1
        <3>1. \/ transport' = transport
              \/ transport' = [transport EXCEPT ![pumpSession] =
                                  [transport[pumpSession] EXCEPT !.pendingWrites = n]]
            BY <1>10 DEF PumpAppends
        <3>2. n \in Nat
            BY <1>t, <2>0 DEF Transports
        <3> HIDE DEF n
        <3>3. [transport[pumpSession] EXCEPT !.pendingWrites = n] \in Transports
            BY ZenonT(60), <1>t, <2>0, <3>2 DEF Transports
        <3> QED BY <1>t, <3>1, <3>3
    <2>3. pumpErr' \in Errors \cup {NoError}
        BY <1>10, <2>1 DEF PumpAppends, TypeOK
    <2> QED BY <1>10, <2>2, <2>3 DEF PumpAppends, TypeOK, TransportTypeOK
<1>11. CASE PumpWrites
    <2>0. pumpSession \in Sessions /\ pumpTodo # <<>>
        BY <1>11 DEF PumpWrites, PumpOK
    <2>1. InputError(pumpSession) \in Errors
        BY <1>t, <2>0 DEF InputError, Transports, Errors
    <2>2. Head(pumpTodo) \in Batches /\ Tail(pumpTodo) \in Seq(Batches)
        BY <2>0 DEF TypeOK
    <2>3. Append(server[pumpSession].inbox, Head(pumpTodo)) \in Seq(Batches)
        BY <2>0, <2>2 DEF TypeOK, TransportTypeOK, Servers
    <2>4. server' \in [Sessions -> Servers]
        <3>1. [server[pumpSession] EXCEPT !.inbox = Append(@, Head(pumpTodo))] \in Servers
            BY ZenonT(60), <2>0, <2>3 DEF TypeOK, TransportTypeOK, Servers
        <3>2. \/ server' = server
              \/ server' = [server EXCEPT ![pumpSession] =
                               [server[pumpSession] EXCEPT !.inbox = Append(@, Head(pumpTodo))]]
            BY <1>11 DEF PumpWrites, WriteAccepted, WriteFails
        <3> QED BY <3>1, <3>2 DEF TypeOK, TransportTypeOK
    <2>5. UNCHANGED <<transport, tail, applied, faults>>
        BY <1>11 DEF PumpWrites, WriteAccepted, WriteFails
    <2>6. pumpTodo' \in Seq(Batches) /\ pumpErr' \in Errors \cup {NoError}
        BY <1>11, <2>1, <2>2 DEF PumpWrites, TypeOK
    <2>7. pump' \in {"mark", "claim"}
        BY <1>11 DEF PumpWrites
    <2> QED BY <1>11, <2>4, <2>5, <2>6, <2>7 DEF PumpWrites, TypeOK, TransportTypeOK
<1>12. CASE PumpClaims
    <2>1. transport' \in [Sessions -> Transports]
        BY <1>t, <1>12, ClosedSessionsFields DEF PumpClaims, ClaimFailure, ClosedIfUnused
    <2>2. failuresPending' \in Nat /\ currentSession' \in Sessions \cup {NoSession}
        BY <1>12 DEF PumpClaims, ClaimFailure, TypeOK
    <2> QED BY <1>12, <2>1, <2>2 DEF PumpClaims, TypeOK, TransportTypeOK
<1>13. CASE PumpResolves
    <2>1. failuresPending > 0
        BY <1>13, ResolverCounted DEF PumpResolves
    <2>2. /\ InflightTypes' /\ failuresPending' \in Nat /\ currentAttempt' \in Nat
          /\ retryAt' \in {"none", "pending", "due"}
          /\ wakeup' \in BOOLEAN /\ advisedBefore' \in BOOLEAN
          /\ UNCHANGED <<remoteVars, sub, currentSession>>
        BY <1>13, <2>1, ResolveTypes DEF PumpResolves
    <2>3. RestTypes'
        BY <1>13, <2>2 DEF PumpResolves, RestTypes, TypeOK
    <2>4. RemoteTypes'
        BY <2>2 DEF RemoteTypes, TypeOK, TransportTypeOK
    <2> QED BY <2>2, <2>3, <2>4, TypeParts
<1>14. CASE PumpTimeouts
    <2>1. transport' \in [Sessions -> Transports]
        BY <1>t, <1>14, ClosedSessionsFields DEF PumpTimeouts, ClosedIfUnused
    <2>2. pumpErr' \in Errors \cup {NoError}
        BY <1>14 DEF PumpTimeouts, TypeOK, Errors
    <2>3. failuresPending' \in Nat /\ currentSession' \in Sessions \cup {NoSession}
        BY <1>14 DEF PumpTimeouts, TypeOK
    <2>4. closeDone' \in BOOLEAN /\ pump' \in {"resolve", "exited", "select"}
        BY <1>14 DEF PumpTimeouts, EndIteration, TypeOK
    <2>5. pumpSession' \in Sessions \cup {NoSession}
        BY <1>14 DEF PumpTimeouts, TypeOK
    <2> QED BY <1>14, <2>1, <2>2, <2>3, <2>4, <2>5 DEF PumpTimeouts, TypeOK, TransportTypeOK
<1> QED BY <1>1, <1>2, <1>3, <1>4, <1>5, <1>6, <1>7, <1>8, <1>9, <1>10, <1>11, <1>12, <1>13,
           <1>14 DEF Pump

(* Every step of a reader preserves the types. *)
LEMMA ReaderTypes ==
    ASSUME TypeOK, ClaimIsExclusive, NEW s \in Sessions, Reader(s)
    PROVE  TypeOK'
<1> USE DEF transportVars, remoteVars, queueVars, retryVars, claimVars, closeVars, pumpVars,
            readerVars
<1>t. transport \in [Sessions -> Transports] /\ transport[s] \in Transports
    BY DEF TypeOK, TransportTypeOK
<1>1. CASE ReaderTakesAck(s)
    <2> DEFINE ack == Head(transport[s].acksCh)
               t == [transport EXCEPT ![s].acksCh = Tail(@)]
    <2>1. transport[s].acksCh \in Seq(Acks) /\ transport[s].acksCh # <<>>
        BY <1>t, <1>1 DEF ReaderTakesAck, TakeAck, Transports
    <2>2. ack \in Acks /\ Tail(transport[s].acksCh) \in Seq(Acks)
        BY <2>1
    <2>3. t \in [Sessions -> Transports]
        <3>1. [transport[s] EXCEPT !.acksCh = Tail(@)] \in Transports
            BY <1>t, <2>2 DEF Transports
        <3>2. t = [transport EXCEPT ![s] = [transport[s] EXCEPT !.acksCh = Tail(@)]]
            OBVIOUS
        <3> QED BY <1>t, <3>1, <3>2
    <2>4. HandleAck(s, ack, t)
        BY <1>1 DEF ReaderTakesAck, TakeAck
    <2> HIDE DEF ack, t
    <2>5. InflightTypes' /\ wakeup' \in BOOLEAN /\ currentAttempt' \in Nat
        BY <2>2, <2>3, <2>4, HandleAckTypes
    <2>6. reader' \in {reader, [reader EXCEPT ![s] = "advised"]}
        BY <1>1 DEF ReaderTakesAck
    <2>7. RestTypes'
        BY <1>1, <2>5, <2>6 DEF ReaderTakesAck, TakeAck, RestTypes, TypeOK
    <2>8. RemoteTypes'
        BY <1>1 DEF ReaderTakesAck, TakeAck, RemoteTypes, TypeOK, TransportTypeOK
    <2> QED BY <2>5, <2>7, <2>8, TypeParts
<1>2. CASE ReaderWeighsAdvice(s)
    <2>1. transport' \in [Sessions -> Transports]
        <3>1. /\ [transport[s] EXCEPT !.requestWriter = "nil"] \in Transports
              /\ [transport[s] EXCEPT !.reconnectDeclined = TRUE] \in Transports
            BY <1>t DEF Transports
        <3>2. \/ transport' = [transport EXCEPT ![s] = [transport[s] EXCEPT !.requestWriter = "nil"]]
              \/ transport' = [transport EXCEPT ![s] = [transport[s] EXCEPT !.reconnectDeclined = TRUE]]
            BY <1>2 DEF ReaderWeighsAdvice, HalfClosed
        <3> QED BY <1>t, <3>1, <3>2
    <2>2. reconnectAccepted' \in [Sessions -> BOOLEAN]
        BY <1>2 DEF ReaderWeighsAdvice, TypeOK
    <2>3. wakeup' \in BOOLEAN
        BY <1>2 DEF ReaderWeighsAdvice, TypeOK, WakeupPump
    <2>4. reader' \in {[reader EXCEPT ![s] = "select"], [reader EXCEPT ![s] = "drain"]}
        BY <1>2 DEF ReaderWeighsAdvice
    <2>5. UNCHANGED <<remoteVars, sub, pool, queueVars, lastAckedEnd, claimVars, retryVars,
                      closeVars, pumpVars, readerErr>>
        BY <1>2 DEF ReaderWeighsAdvice
    <2>6. TransportTypeOK'
        BY <2>1, <2>5 DEF TypeOK, TransportTypeOK
    <2>7. reader' \in [Sessions -> {"off", "select", "drain", "advised", "advice", "claim",
                                   "resolve", "done"}]
        BY <2>4 DEF TypeOK
    <2> QED BY <2>2, <2>3, <2>5, <2>6, <2>7 DEF TypeOK
<1>3. CASE ReaderTakesError(s)
    <2>1. transport' \in [Sessions -> Transports]
        BY <1>t, <1>3 DEF ReaderTakesError, Transports
    <2>2. readerErr' \in [Sessions -> Errors \cup {NoError}]
        BY <1>t, <1>3 DEF ReaderTakesError, Transports, TypeOK
    <2> QED BY <1>3, <2>1, <2>2 DEF ReaderTakesError, TypeOK, TransportTypeOK
<1>4. CASE ReaderDrained(s)
    BY <1>4 DEF ReaderDrained, TypeOK, TransportTypeOK
<1>5. CASE ReaderClaims(s)
    <2>1. transport' \in [Sessions -> Transports]
        BY <1>t, <1>5, ClosedSessionsFields DEF ReaderClaims, ClaimFailure, ClosedIfUnused
    <2>2. failuresPending' \in Nat /\ currentSession' \in Sessions \cup {NoSession}
        BY <1>5 DEF ReaderClaims, ClaimFailure, TypeOK
    <2> QED BY ZenonT(60), <1>5, <2>1, <2>2 DEF ReaderClaims, TypeOK, TransportTypeOK
<1>6. CASE ReaderResolves(s)
    <2>1. failuresPending > 0
        BY <1>6, ResolverCounted DEF ReaderResolves
    <2>2. /\ InflightTypes' /\ failuresPending' \in Nat /\ currentAttempt' \in Nat
          /\ retryAt' \in {"none", "pending", "due"}
          /\ wakeup' \in BOOLEAN /\ advisedBefore' \in BOOLEAN
          /\ UNCHANGED <<remoteVars, sub, currentSession>>
        BY <1>6, <2>1, ResolveTypes DEF ReaderResolves
    <2>3. RestTypes'
        BY <1>6, <2>2 DEF ReaderResolves, RestTypes, TypeOK
    <2>4. RemoteTypes'
        BY <2>2 DEF RemoteTypes, TypeOK, TransportTypeOK
    <2> QED BY <2>2, <2>3, <2>4, TypeParts
<1>7. CASE ReaderSeesEnd(s)
    BY <1>7 DEF ReaderSeesEnd, TypeOK, TransportTypeOK
<1>8. CASE ReaderFollowsAdvice(s)
    <2>1. transport' \in [Sessions -> Transports]
        BY <1>t, <1>8, ClosedSessionsFields DEF ReaderFollowsAdvice, ClosedIfUnused
    <2>2. readerErr' \in [Sessions -> Errors \cup {NoError}]
        BY <1>8 DEF ReaderFollowsAdvice, TypeOK, Errors
    <2>3. reader' \in {[reader EXCEPT ![s] = "done"], [reader EXCEPT ![s] = "claim"]}
        BY <1>8 DEF ReaderFollowsAdvice
    <2>4. currentSession' \in {currentSession, NoSession}
        BY <1>8 DEF ReaderFollowsAdvice
    <2>5. advisedBefore' \in BOOLEAN
        BY <1>8 DEF ReaderFollowsAdvice, TypeOK
    <2>6. wakeup' \in BOOLEAN
        BY <1>8 DEF ReaderFollowsAdvice, WakeupPump, TypeOK
    <2>7. /\ UNCHANGED <<remoteVars, sub, pool, queueVars, lastAckedEnd, failuresPending,
                         currentAttempt, retryAt, closeVars, pumpVars, reconnectAccepted>>
        BY <1>8 DEF ReaderFollowsAdvice
    <2>8. TransportTypeOK'
        BY <2>1, <2>7 DEF TypeOK, TransportTypeOK
    <2>9. /\ currentSession' \in Sessions \cup {NoSession}
          /\ reader' \in [Sessions -> {"off", "select", "drain", "advised", "advice", "claim",
                                       "resolve", "done"}]
        BY <2>3, <2>4 DEF TypeOK
    <2> QED BY <2>2, <2>5, <2>6, <2>7, <2>8, <2>9 DEF TypeOK
<1>9. CASE ReaderCancelled(s)
    BY <1>9 DEF ReaderCancelled, TypeOK, TransportTypeOK
<1> QED BY <1>1, <1>2, <1>3, <1>4, <1>5, <1>6, <1>7, <1>8, <1>9 DEF Reader

(* Close, cancellation and time preserve the types. *)
LEMMA OtherTypes ==
    ASSUME TypeOK, CloseStarts \/ Closer \/ Cancel \/ RetryDue \/ RequestTimeout
    PROVE  TypeOK'
<1> USE DEF transportVars, remoteVars, queueVars, retryVars, claimVars, closeVars, pumpVars,
            readerVars
<1>t. transport \in [Sessions -> Transports]
    BY DEF TypeOK, TransportTypeOK
<1>1. CASE CloseStarts
    <2>1. pool' \in Pool
        BY <1>1, ClosedPoolFields DEF CloseStarts, TypeOK
    <2> QED BY <1>1, <2>1 DEF CloseStarts, WakeupPump, TypeOK, TransportTypeOK
<1>2. CASE CloseDrained
    BY <1>2 DEF CloseDrained, TypeOK, TransportTypeOK
<1>3. CASE CloseCleansUp
    <2>1. [b \in Queued |-> "failed"] \in [Queued -> Failures]
        BY DEF Failures
    <2>2. FailQueued([b \in Queued |-> "failed"], transport)
        BY <1>3 DEF CloseCleansUp
    <2>3. /\ pool' \in Pool /\ inflightQueue' \in Seq(Batches)
          /\ sessionRefs' \in [Sessions -> Nat]
          /\ result' \in [Batches -> {"none", "acked"} \cup Failures]
          /\ transport' \in [Sessions -> Transports]
          /\ ackedBy' = ackedBy
        BY <1>t, <2>1, <2>2, FailQueuedTypes
    <2> QED BY <1>3, <2>3 DEF CloseCleansUp, TypeOK, TransportTypeOK
<1>4. CASE CloseReturns
    BY <1>4 DEF CloseReturns, TypeOK, TransportTypeOK
<1>5. CASE Cancel
    BY <1>5 DEF Cancel, TypeOK, TransportTypeOK
<1>6. CASE RetryDue
    BY <1>6 DEF RetryDue, TypeOK, TransportTypeOK
<1>7. CASE RequestTimeout
    <2>1. Head(inflightQueue) \in Batches
        BY <1>7 DEF RequestTimeout, TypeOK
    <2>2. entry' \in [Batches -> Entries]
        BY ZenonT(60), <1>7, <2>1 DEF RequestTimeout, TypeOK, Entries
    <2>3. faults' \in 0 .. MaxFaults
        BY SMTT(40), <1>7, TransportAssumption DEF RequestTimeout, TypeOK, TransportTypeOK
    <2> QED BY SMTT(40), <1>7, <2>2, <2>3 DEF RequestTimeout, TypeOK, TransportTypeOK
<1> QED BY <1>1, <1>2, <1>3, <1>4, <1>5, <1>6, <1>7 DEF Closer

(* The type invariant is inductive, given what the pump and the claim      *)
(* guarantee.                                                              *)
LEMMA TypeStep ==
    ASSUME TypeOK, PumpOK, ClaimIsExclusive, setup \in Setups, [Next]_<<vars, setup>>
    PROVE  TypeOK'
<1>1. CASE \E b \in Batches : Submitter(b)
    BY <1>1, SubmitterTypes
<1>2. CASE Pump
    BY <1>2, PumpTypes
<1>3. CASE \E s \in Sessions : Reader(s)
    BY <1>3, ReaderTypes
<1>4. CASE \E s \in Sessions : TransportNext(s) /\ UNCHANGED SessionVars
    <2>1. TransportTypeOK'
        BY <1>4, TransportTypeStep DEF TypeOK
    <2> QED BY <1>4, <2>1 DEF TypeOK, SessionVars, queueVars, retryVars, claimVars, closeVars,
                              pumpVars, readerVars
<1>5. CASE CloseStarts \/ Closer \/ Cancel \/ RetryDue \/ RequestTimeout
    BY <1>5, OtherTypes
<1>6. CASE UNCHANGED <<vars, setup>>
    BY <1>6 DEF TypeOK, TransportTypeOK, vars, transportVars, queueVars, retryVars, claimVars,
                closeVars, pumpVars, readerVars
<1> QED BY <1>1, <1>2, <1>3, <1>4, <1>5, <1>6 DEF Next, Step

-----------------------------------------------------------------------------
(* Claims *)

(* The pump's places are consistent with what it holds. *)
LEMMA PumpOKStep ==
    ASSUME TypeOK, PumpOK, [Next]_<<vars, setup>>
    PROVE  PumpOK'
<1> USE DEF pumpVars
<1>1. CASE Pump
    <2>1. CASE PumpSubmits
        BY <2>1 DEF PumpSubmits, HasOpenSession, PumpOK, TypeOK
    <2>2. CASE PumpMarks
        <3>1. PICK i \in DOMAIN pumpTodo : pumpTodo' = SubSeq(pumpTodo, i, Len(pumpTodo))
            BY <2>2 DEF PumpMarks
        <3>2. pumpTodo' # <<>>
            <4>1. pumpTodo \in Seq(Batches) /\ i \in 1 .. Len(pumpTodo)
                BY DEF TypeOK
            <4>2. Len(SubSeq(pumpTodo, i, Len(pumpTodo))) = Len(pumpTodo) - i + 1
                BY <4>1
            <4> QED BY <3>1, <4>1, <4>2
        <3> QED BY <2>2, <3>2 DEF PumpMarks, PumpOK
    <2>3. CASE PumpTimeouts
        BY <2>3 DEF PumpTimeouts, EndIteration, PumpOK, TypeOK
    <2>4. CASE ~PumpSubmits /\ ~PumpMarks /\ ~PumpTimeouts
        BY <1>1, <2>4 DEF Pump, PumpWakes, PumpCancelled, PumpProcess, PumpKeepsSession,
               PumpOpensSession, PumpStartFails, PumpDoneSending, PumpAppends, PumpWrites,
               PumpClaims, PumpResolves, PumpOK
    <2> QED BY <2>1, <2>2, <2>3, <2>4
<1>2. CASE UNCHANGED pumpVars
    BY <1>2 DEF PumpOK
<1>3. ASSUME NEW s \in Sessions, Reader(s)
      PROVE  UNCHANGED pumpVars
    BY <1>3 DEF Reader, ReaderTakesAck, TakeAck, ReaderWeighsAdvice, ReaderTakesError,
           ReaderDrained, ReaderClaims, ReaderResolves, ReaderSeesEnd, ReaderFollowsAdvice,
           ReaderCancelled
<1>4. ASSUME NEW b \in Batches, Submitter(b)
      PROVE  UNCHANGED pumpVars
    BY <1>4 DEF Submitter, Submit, Reserve, Enqueue
<1>5. ASSUME CloseStarts \/ Closer \/ Cancel \/ RetryDue \/ RequestTimeout
      PROVE  UNCHANGED pumpVars
    BY <1>5 DEF CloseStarts, Closer, CloseDrained, CloseCleansUp, CloseReturns, Cancel,
           RetryDue, RequestTimeout
<1> QED BY <1>1, <1>2, <1>3, <1>4, <1>5 DEF Next, Step, SessionVars, vars

(* The claim without cardinalities: nobody resolves a failure, or one      *)
(* goroutine does and there is no current session.                         *)
Exclusive(resolvers, current, pending) ==
    \/ resolvers = {} /\ pending = 0
    \/ /\ \E r : resolvers = {r}
       /\ pending = 1 /\ current = NoSession

(* Exclusive says that there is at most one resolver, that it is counted, and
   that no session is current meanwhile: the form with cardinalities. *)
LEMMA ExclusiveForm ==
    ASSUME NEW R, IsFiniteSet(R), NEW current, NEW pending
    PROVE  Exclusive(R, current, pending) <=>
              /\ R # {} => current = NoSession
              /\ Cardinality(R) <= 1 /\ pending = Cardinality(R)
<1>1. Cardinality(R) \in Nat /\ (Cardinality(R) = 0 <=> R = {})
    BY FS_CardinalityType, FS_EmptySet
<1>2. Cardinality(R) = 1 <=> \E r : R = {r}
    BY FS_Singleton
<1>3. CASE R = {}
    BY <1>1, <1>3 DEF Exclusive
<1>4. CASE R # {}
    <2>1. Cardinality(R) <= 1 <=> Cardinality(R) = 1
        BY <1>1, <1>4
    <2>2. Cardinality(R) = 1 => (pending = Cardinality(R) <=> pending = 1)
        OBVIOUS
    <2> HIDE <1>1
    <2> QED BY <1>2, <1>4, <2>1, <2>2 DEF Exclusive
<1> QED BY <1>3, <1>4

(* ClaimIsExclusive is Exclusive of the goroutines that resolve, before and
   after a step. *)
LEMMA ClaimForm ==
    /\ ClaimIsExclusive <=> Exclusive(Resolvers, currentSession, failuresPending)
    /\ ClaimIsExclusive' <=> Exclusive(Resolvers', currentSession', failuresPending')
<1>1. IsFiniteSet(Resolvers) /\ IsFiniteSet(Resolvers')
    <2>1. /\ IsFiniteSet({s \in Sessions : reader[s] = "resolve"})
          /\ IsFiniteSet({s \in Sessions : reader'[s] = "resolve"})
        BY SessionsAssumption, FS_Subset
    <2>2. IsFiniteSet({NoSession}) /\ IsFiniteSet({})
        BY FS_Singleton, FS_EmptySet
    <2> QED BY <2>1, <2>2, FS_Union DEF Resolvers
<1>2. ClaimIsExclusive <=> Exclusive(Resolvers, currentSession, failuresPending)
    BY <1>1, ExclusiveForm DEF ClaimIsExclusive, SingleResolver
<1>3. ClaimIsExclusive' <=> Exclusive(Resolvers', currentSession', failuresPending')
    BY <1>1, ExclusiveForm DEF ClaimIsExclusive, SingleResolver
<1> QED BY <1>2, <1>3

(* A step in which nobody claims or resolves a failure keeps the claim,    *)
(* unless it opens a session while one is being resolved.                  *)
LEMMA NoClaim ==
    ASSUME ClaimIsExclusive, Resolvers' = Resolvers, failuresPending' = failuresPending,
           currentSession' \in {currentSession, NoSession} \/ failuresPending = 0
    PROVE  ClaimIsExclusive'
BY ClaimForm DEF Exclusive

(* The claim of a failure: nobody was resolving one. *)
LEMMA NewClaim ==
    ASSUME ClaimIsExclusive, currentSession # NoSession, NEW r, Resolvers' = Resolvers \cup {r},
           failuresPending' = failuresPending + 1, currentSession' = NoSession
    PROVE  ClaimIsExclusive'
BY ClaimForm DEF Exclusive

(* Its resolution: nobody else was resolving one. *)
LEMMA EndClaim ==
    ASSUME ClaimIsExclusive, NEW r \in Resolvers, Resolvers' = Resolvers \ {r},
           failuresPending' = failuresPending - 1
    PROVE  ClaimIsExclusive'
BY ClaimForm DEF Exclusive

(* Who resolves, after a step of one reader. *)
LEMMA ReaderResolvers ==
    ASSUME NEW s \in Sessions, \A q \in Sessions \ {s} : reader'[q] = reader[q], pump' = pump
    PROVE  /\ reader'[s] = "resolve" => Resolvers' = Resolvers \cup {s}
           /\ reader'[s] # "resolve" => Resolvers' = Resolvers \ {s}
BY SessionsAssumption DEF Resolvers

(* Who resolves, after a step of the pump. *)
LEMMA PumpResolvers ==
    ASSUME \A s \in Sessions : reader'[s] = "resolve" <=> reader[s] = "resolve"
    PROVE  /\ pump' = "resolve" => Resolvers' = Resolvers \cup {NoSession}
           /\ pump' # "resolve" => Resolvers' = Resolvers \ {NoSession}
BY SessionsAssumption DEF Resolvers

(* ClaimFailure either claims, for the current session, or leaves the      *)
(* claim alone.                                                            *)
LEMMA ClaimFailureClaims ==
    ASSUME TypeOK, ClaimIsExclusive, NEW s \in Sessions, ClaimFailure(s), NEW r,
           OwnsFailure(s) => Resolvers' = Resolvers \cup {r},
           ~OwnsFailure(s) => Resolvers' = Resolvers
    PROVE  ClaimIsExclusive'
<1>1. CASE OwnsFailure(s)
    <2>1. currentSession # NoSession /\ currentSession' = NoSession
        BY <1>1, SessionsAssumption DEF ClaimFailure, OwnsFailure
    <2>2. failuresPending' = failuresPending + 1
        BY <1>1 DEF ClaimFailure
    <2> QED BY <1>1, <2>1, <2>2, NewClaim
<1>2. CASE ~OwnsFailure(s)
    BY <1>2, NoClaim DEF ClaimFailure
<1> QED BY <1>1, <1>2

(* At most one goroutine resolves a failure, in every step. *)
LEMMA ClaimStep ==
    ASSUME TypeOK, PumpOK, ClaimIsExclusive, [Next]_<<vars, setup>>
    PROVE  ClaimIsExclusive'
<1> USE DEF claimVars, readerVars, pumpVars
<1>0. ASSUME UNCHANGED <<claimVars, reader, pump>>
      PROVE  ClaimIsExclusive'
    BY <1>0, NoClaim DEF Resolvers
<1>1. CASE \E b \in Batches : Submitter(b)
    BY <1>0, <1>1 DEF Submitter, Submit, Reserve, Enqueue
<1>2. CASE CloseStarts \/ Closer \/ Cancel \/ RetryDue \/ RequestTimeout
    BY <1>0, <1>2 DEF CloseStarts, Closer, CloseDrained, CloseCleansUp, CloseReturns, Cancel,
           RetryDue, RequestTimeout
<1>3. CASE \E s \in Sessions : TransportNext(s) /\ UNCHANGED SessionVars
    BY <1>0, <1>3 DEF SessionVars
<1>4. CASE Pump
    <2>1. CASE PumpOpensSession
        <3>1. PICK s \in Sessions : reader' = [reader EXCEPT ![s] = "select"] /\ s \notin Created
            BY <2>1 DEF PumpOpensSession
        <3>2. failuresPending = 0 /\ failuresPending' = failuresPending /\ pump # "resolve"
            BY <2>1 DEF PumpOpensSession, NoNewSession, TypeOK
        <3>3. Resolvers = {}
            BY <3>2, ClaimForm DEF Exclusive
        <3>4. \A q \in Sessions : reader'[q] = "resolve" <=> reader[q] = "resolve"
            BY <3>1, <3>3 DEF Resolvers, TypeOK
        <3>5. Resolvers' = Resolvers
            BY <2>1, <3>3, <3>4, PumpResolvers DEF PumpOpensSession
        <3> QED BY <3>2, <3>5, NoClaim
    <2>2. CASE PumpClaims
        <3>1. pumpSession \in Sessions /\ ClaimFailure(pumpSession) /\ UNCHANGED reader
            BY <2>2 DEF PumpClaims, PumpOK
        <3>2. /\ OwnsFailure(pumpSession) => Resolvers' = Resolvers \cup {NoSession}
              /\ ~OwnsFailure(pumpSession) => Resolvers' = Resolvers
            BY <2>2, <3>1, SessionsAssumption DEF PumpClaims, Resolvers
        <3> QED BY <3>1, <3>2, ClaimFailureClaims
    <2>3. CASE PumpResolves
        <3>1. NoSession \in Resolvers
            BY <2>3 DEF PumpResolves, Resolvers
        <3>2. Resolvers' = Resolvers \ {NoSession}
            BY <2>3, PumpResolvers DEF PumpResolves
        <3>3. failuresPending' = failuresPending - 1
            BY <2>3 DEF PumpResolves, ResolveFailure
        <3> QED BY <3>1, <3>2, <3>3, EndClaim
    <2>4. CASE PumpTimeouts
        <3>1. CASE currentSession # NoSession /\ pump' = "resolve"
            <4>1. currentSession' = NoSession /\ failuresPending' = failuresPending + 1
                BY <2>4, <3>1 DEF PumpTimeouts, EndIteration
            <4>2. Resolvers' = Resolvers \cup {NoSession}
                BY <2>4, <3>1, PumpResolvers DEF PumpTimeouts
            <4> QED BY <3>1, <4>1, <4>2, NewClaim
        <3>2. CASE ~(currentSession # NoSession /\ pump' = "resolve")
            <4>1. UNCHANGED <<claimVars, reader>> /\ pump = "timeouts" /\ pump' # "resolve"
                BY <2>4, <3>2 DEF PumpTimeouts, EndIteration
            <4>2. Resolvers' = Resolvers
                BY <4>1 DEF Resolvers
            <4> QED BY <4>1, <4>2, NoClaim
        <3> QED BY <3>1, <3>2
    <2>5. CASE ~PumpOpensSession /\ ~PumpClaims /\ ~PumpResolves /\ ~PumpTimeouts
        <3>1. UNCHANGED <<claimVars, reader>> /\ pump # "resolve" /\ pump' # "resolve"
            BY <1>4, <2>5 DEF Pump, PumpWakes, PumpCancelled, PumpProcess, PumpKeepsSession,
                   PumpStartFails, PumpSubmits, PumpMarks, PumpDoneSending, PumpAppends,
                   PumpWrites
        <3>2. Resolvers' = Resolvers
            BY <3>1 DEF Resolvers
        <3> QED BY <3>1, <3>2, NoClaim
    <2> QED BY <2>1, <2>2, <2>3, <2>4, <2>5
<1>5. ASSUME NEW s \in Sessions, Reader(s)
      PROVE  ClaimIsExclusive'
    <2>0. UNCHANGED pump
        BY <1>5 DEF Reader, ReaderTakesAck, TakeAck, ReaderWeighsAdvice, ReaderTakesError,
               ReaderDrained, ReaderClaims, ReaderResolves, ReaderSeesEnd, ReaderFollowsAdvice,
               ReaderCancelled
    <2>1. CASE ReaderClaims(s)
        <3>1. s \notin Resolvers
            BY <2>1, SessionsAssumption DEF ReaderClaims, Resolvers
        <3>2. /\ OwnsFailure(s) => Resolvers' = Resolvers \cup {s}
              /\ ~OwnsFailure(s) => Resolvers' = Resolvers
            <4>1. /\ \A q \in Sessions \ {s} : reader'[q] = reader[q]
                  /\ reader'[s] = IF OwnsFailure(s) THEN "resolve" ELSE "done"
                BY <2>1 DEF ReaderClaims, TypeOK
            <4> QED BY <2>0, <3>1, <4>1, ReaderResolvers
        <3> QED BY <2>1, <3>2, ClaimFailureClaims DEF ReaderClaims
    <2>2. CASE ReaderResolves(s)
        <3>1. s \in Resolvers
            BY <2>2 DEF ReaderResolves, Resolvers
        <3>2. Resolvers' = Resolvers \ {s}
            <4>1. (\A q \in Sessions \ {s} : reader'[q] = reader[q]) /\ reader'[s] = "done"
                BY <2>2 DEF ReaderResolves, TypeOK
            <4> QED BY <2>0, <4>1, ReaderResolvers
        <3>3. failuresPending' = failuresPending - 1
            BY <2>2 DEF ReaderResolves, ResolveFailure
        <3> QED BY <3>1, <3>2, <3>3, EndClaim
    <2>3. CASE ~ReaderClaims(s) /\ ~ReaderResolves(s)
        <3>1. /\ failuresPending' = failuresPending
              /\ currentSession' \in {currentSession, NoSession}
            BY <1>5, <2>3 DEF Reader, ReaderTakesAck, TakeAck, ReaderWeighsAdvice,
                   ReaderTakesError, ReaderDrained, ReaderSeesEnd, ReaderFollowsAdvice,
                   ReaderCancelled
        <3>2. /\ reader[s] # "resolve"
              /\ \/ reader' = reader
                 \/ \E v : v # "resolve" /\ reader' = [reader EXCEPT ![s] = v]
            <4>1. CASE ReaderTakesAck(s)
                BY <4>1 DEF ReaderTakesAck
            <4>2. CASE ReaderWeighsAdvice(s)
                BY <4>2 DEF ReaderWeighsAdvice
            <4>3. CASE ReaderFollowsAdvice(s)
                BY <4>3 DEF ReaderFollowsAdvice
            <4>4. CASE ReaderTakesError(s) \/ ReaderDrained(s) \/ ReaderSeesEnd(s)
                       \/ ReaderCancelled(s)
                BY <4>4 DEF ReaderTakesError, ReaderDrained, ReaderSeesEnd, ReaderCancelled
            <4> QED BY <1>5, <2>3, <4>1, <4>2, <4>3, <4>4 DEF Reader
        <3>3. s \notin Resolvers
            BY <3>2, SessionsAssumption DEF Resolvers
        <3>4. Resolvers' = Resolvers
            <4>1. CASE reader' = reader
                BY <2>0, <4>1 DEF Resolvers
            <4>2. CASE \E v : v # "resolve" /\ reader' = [reader EXCEPT ![s] = v]
                <5>1. (\A q \in Sessions \ {s} : reader'[q] = reader[q]) /\ reader'[s] # "resolve"
                    BY <4>2 DEF TypeOK
                <5> QED BY <2>0, <3>3, <5>1, ReaderResolvers
            <4> QED BY <3>2, <4>1, <4>2
        <3> QED BY <3>1, <3>4, NoClaim
    <2> QED BY <2>1, <2>2, <2>3
<1>6. CASE UNCHANGED <<vars, setup>>
    BY <1>0, <1>6 DEF vars
<1> QED BY <1>1, <1>2, <1>3, <1>4, <1>5, <1>6 DEF Next, Step

(* What the steps above prove together. *)
TypeInv == TypeOK /\ setup \in Setups /\ PumpOK /\ ClaimIsExclusive

(* The initial state of a connection and of the server has its types. *)
LEMMA TransportTypeInit == TransportInit => TransportTypeOK
<1> SUFFICES ASSUME TransportInit PROVE TransportTypeOK
    OBVIOUS
<1>1. transport \in [Sessions -> Transports]
    BY NoTransportType DEF TransportInit
<1>2. [inbox |-> <<>>, response |-> <<>>, end |-> "up"] \in Servers
    BY DEF Servers
<1> QED BY <1>1, <1>2, TransportAssumption DEF TransportInit, TransportTypeOK

(* The initial states satisfy TypeInv. *)
LEMMA TypeInvInit == Init => TypeInv
<1> SUFFICES ASSUME Init PROVE TypeInv
    OBVIOUS
<1>1. TransportTypeOK
    BY TransportTypeInit DEF Init
<1>2. NewPool \in Pool
    BY DEF NewPool, Pool
<1>3. [sentOn |-> {}, attemptStart |-> "zero", priorUncertainty |-> FALSE] \in Entries
    BY DEF Entries
<1>4. TypeOK
    <2>1. inflightQueue \in Seq(Batches) /\ pumpTodo \in Seq(Batches)
        BY DEF Init
    <2>2. entry \in [Batches -> Entries]
        BY <1>3 DEF Init
    <2>3. ackedBy \in [Batches -> Acks \cup {NoAck}]
        BY DEF Init
    <2> QED BY <1>1, <1>2, <2>1, <2>2, <2>3 DEF Init, TypeOK
<1>5. PumpOK /\ setup \in Setups
    BY DEF Init, TransportInit, PumpOK
<1>6. Resolvers = {}
    BY DEF Init, Resolvers
<1>7. ClaimIsExclusive
    BY <1>6, ClaimForm DEF Init, Exclusive
<1> QED BY <1>4, <1>5, <1>7 DEF TypeInv

(* TypeInv is inductive, hence holds in every reachable state. *)
LEMMA TypeInvariant == Spec => []TypeInv
<1>1. TypeInv /\ [Next]_<<vars, setup>> => TypeInv'
    BY TypeStep, PumpOKStep, ClaimStep DEF TypeInv, Next
<1> QED BY <1>1, TypeInvInit, PTL DEF Spec

(***************************************************************************)
(* Every variable of the session, of its connections and of the server has *)
(* its type in every state.                                                *)
(***************************************************************************)
THEOREM TypeCorrect == Spec => []TypeOK
BY TypeInvariant, PTL DEF TypeInv

(***************************************************************************)
(* One owner per failure (handleSessionError, checkTimeouts): the write    *)
(* path, the reader of a connection and the timeout check never resolve    *)
(* two failures at once, and failuresPending counts who does.              *)
(***************************************************************************)
THEOREM OneOwnerPerFailure == Spec => []SingleResolver
BY TypeInvariant, PTL DEF TypeInv, ClaimIsExclusive

-----------------------------------------------------------------------------
(* The queue *)

(* A new element at the back of a queue without repetitions. *)
LEMMA QueueGrows ==
    ASSUME NEW S, NEW q \in Seq(S), NEW e \in S
    PROVE  /\ Range(Append(q, e)) = Range(q) \cup {e}
           /\ IsInjective(q) /\ e \notin Range(q) => IsInjective(Append(q, e))
<1>1. /\ DOMAIN q = 1 .. Len(q) /\ DOMAIN Append(q, e) = 1 .. Len(q) + 1 /\ Len(q) \in Nat
      /\ \A i \in 1 .. Len(q) : Append(q, e)[i] = q[i]
      /\ Append(q, e)[Len(q) + 1] = e
    OBVIOUS
<1>2. \A i \in 1 .. Len(q) + 1 : i \in 1 .. Len(q) \/ i = Len(q) + 1
    BY <1>1
<1>3. 1 .. Len(q) \subseteq 1 .. Len(q) + 1 /\ Len(q) + 1 \in 1 .. Len(q) + 1
    BY <1>1
<1>4. Range(Append(q, e)) = Range(q) \cup {e}
    BY <1>1, <1>2, <1>3 DEF Range
<1>5. ASSUME IsInjective(q), e \notin Range(q)
      PROVE  IsInjective(Append(q, e))
    <2> SUFFICES ASSUME NEW i \in 1 .. Len(q) + 1, NEW j \in 1 .. Len(q) + 1,
                        Append(q, e)[i] = Append(q, e)[j]
                 PROVE  i = j
        BY <1>1 DEF IsInjective
    <2>1. CASE i \in 1 .. Len(q) /\ j \in 1 .. Len(q)
        BY <1>1, <1>5, <2>1 DEF IsInjective
    <2>2. CASE i \in 1 .. Len(q) /\ j = Len(q) + 1
        BY <1>1, <1>5, <2>2 DEF Range
    <2>3. CASE i = Len(q) + 1 /\ j \in 1 .. Len(q)
        BY <1>1, <1>5, <2>3 DEF Range
    <2> QED BY <1>2, <2>1, <2>2, <2>3
<1> QED BY <1>4, <1>5

(* The head of a queue without repetitions leaves it for good. *)
LEMMA QueueShrinks ==
    ASSUME NEW S, NEW q \in Seq(S), q # <<>>, IsInjective(q)
    PROVE  /\ Range(Tail(q)) = Range(q) \ {Head(q)}
           /\ Head(q) \in Range(q)
           /\ IsInjective(Tail(q))
<1>1. /\ Len(q) \in Nat \ {0} /\ DOMAIN q = 1 .. Len(q) /\ DOMAIN Tail(q) = 1 .. Len(q) - 1
      /\ Head(q) = q[1]
      /\ \A i \in 1 .. Len(q) - 1 : Tail(q)[i] = q[i + 1] /\ i + 1 \in 1 .. Len(q) /\ i + 1 # 1
    OBVIOUS
<1>2. 1 \in 1 .. Len(q) /\ \A j \in 1 .. Len(q) : j # 1 => j - 1 \in 1 .. Len(q) - 1
    BY <1>1
<1>3. \A j \in 1 .. Len(q) : j # 1 => Tail(q)[j - 1] = q[j]
    BY <1>1
<1>4. Head(q) \in Range(q)
    BY <1>1, <1>2 DEF Range
<1>5. ASSUME NEW x PROVE x \in Range(Tail(q)) => x \in Range(q) \ {Head(q)}
    BY <1>1, <1>2 DEF Range, IsInjective
<1>6. ASSUME NEW x \in Range(q), x # Head(q) PROVE x \in Range(Tail(q))
    <2>1. PICK j \in 1 .. Len(q) : x = q[j]
        BY <1>1 DEF Range
    <2>2. j # 1
        BY <1>1, <1>6, <2>1
    <2> QED BY <1>1, <1>2, <1>3, <2>1, <2>2 DEF Range
<1>7. IsInjective(Tail(q))
    <2> SUFFICES ASSUME NEW i \in 1 .. Len(q) - 1, NEW j \in 1 .. Len(q) - 1,
                        Tail(q)[i] = Tail(q)[j]
                 PROVE  i = j
        BY <1>1 DEF IsInjective
    <2>1. i + 1 = j + 1
        BY <1>1 DEF IsInjective
    <2> QED BY <2>1
<1> QED BY <1>4, <1>5, <1>6, <1>7

(***************************************************************************)
(* What a step can do to the queue and to its accounts.  Every step does   *)
(* one of the following, or is a step of a Submit goroutine.               *)
(***************************************************************************)
LeavesQueue ==
    /\ UNCHANGED <<inflightQueue, sub, result, sessionRefs, lastAckedEnd>>
    /\ pool'.bytes = pool.bytes /\ pool'.items = pool.items
    /\ \A b \in Batches : entry'[b].sentOn = entry[b].sentOn
    /\ closing' \in {closing, TRUE}

Completes ==
    /\ inflightQueue # <<>> /\ inflightQueue' = Tail(inflightQueue)
    /\ result' = [result EXCEPT ![Head(inflightQueue)] = "acked"]
    /\ sessionRefs' = ReleasedRefs(Head(inflightQueue))
    /\ entry' = [entry EXCEPT ![Head(inflightQueue)].sentOn = {}]
    /\ lastAckedEnd' \in Nat /\ lastAckedEnd' > lastAckedEnd
    /\ pool' = Released(pool, Size[Head(inflightQueue)])
    /\ UNCHANGED <<sub, closing>>

FailsAll ==
    /\ \E outcome \in [Queued -> Failures] :
          result' = [b \in Batches |-> IF b \in Queued THEN outcome[b] ELSE result[b]]
    /\ pool' = ClosedPool(ReleasedAll(pool, Queued))
    /\ inflightQueue' = <<>>
    /\ sessionRefs' = [s \in Sessions |-> 0]
    /\ UNCHANGED <<sub, entry, lastAckedEnd>>
    /\ closing' = TRUE

(* failAllInflight fails the queue and ends the session. *)
LEMMA FailAllFailsAll ==
    ASSUME NEW err, NEW t, FailAllInflight(err, t), UNCHANGED <<sub, entry, lastAckedEnd>>
    PROVE  FailsAll
BY OutcomesAreFailures DEF FailAllInflight, FailQueued, FailsAll

(* handleAck leaves the queue, fails it, or completes its head. *)
LEMMA HandleAckQueue ==
    ASSUME TypeOK, NEW s \in Sessions, NEW ack \in Acks, NEW t, HandleAck(s, ack, t),
           UNCHANGED sub
    PROVE  LeavesQueue \/ FailsAll \/ Completes
<1>1. CASE ~ConcernsHead(s, ack)
    BY <1>1 DEF HandleAck, KeepInflight, closeVars, LeavesQueue
<1>2. CASE ConcernsHead(s, ack) /\ ~ValidAck(Head(inflightQueue), ack)
    BY <1>2, FailAllFailsAll DEF HandleAck
<1>3. CASE ConcernsHead(s, ack) /\ ValidAck(Head(inflightQueue), ack)
    BY <1>3 DEF HandleAck, ConcernsHead, CompleteHead, closeVars, Completes, Acks
<1> QED BY <1>1, <1>2, <1>3

(* handleClaimedSessionError leaves the queue or fails it. *)
LEMMA ResolveQueue ==
    ASSUME TypeOK, NEW s, NEW err, ResolveFailure(s, err)
    PROVE  LeavesQueue \/ FailsAll
<1>1. CASE FailAllInflight(err, transport) /\ UNCHANGED entry
    BY <1>1, FailAllFailsAll DEF ResolveFailure
<1>2. CASE entry' = ResetEntries(s, err) /\ KeepInflight(transport)
    BY <1>2, ResetEntriesFields DEF ResolveFailure, KeepInflight, closeVars, LeavesQueue
<1> QED BY <1>1, <1>2 DEF ResolveFailure

(* Close has been called: the session is closing. *)
ClosingOK == closer # "idle" => closing

(* Every step of the session does one of five things to the in-flight queue:
   leaves it alone, fails all of it, completes its head, marks an entry as
   sent, or adds a batch to it. *)
LEMMA QueueSteps ==
    ASSUME TypeOK, ClosingOK, [Next]_<<vars, setup>>
    PROVE  \/ LeavesQueue \/ FailsAll \/ Completes \/ PumpMarks
           \/ \E b \in Batches : Submitter(b)
<1> USE DEF queueVars, closeVars
<1>1. CASE Pump
    <2>1. CASE PumpMarks
        BY <2>1
    <2>2. CASE PumpCancelled
        BY <2>2, FailAllFailsAll DEF PumpCancelled
    <2>3. CASE PumpStartFails
        <3>1. UNCHANGED <<sub, entry, lastAckedEnd>>
            BY <2>3 DEF PumpStartFails
        <3>2. KeepInflight(transport) \/ \E err : FailAllInflight(err, transport)
            BY <2>3 DEF PumpStartFails
        <3>3. CASE KeepInflight(transport)
            BY <3>1, <3>3 DEF KeepInflight, LeavesQueue
        <3> QED BY <3>1, <3>2, <3>3, FailAllFailsAll
    <2>4. CASE PumpResolves
        BY <2>4, ResolveQueue DEF PumpResolves
    <2>5. CASE PumpTimeouts
        BY <2>5 DEF PumpTimeouts, EndIteration, LeavesQueue
    <2>6. CASE ~PumpMarks /\ ~PumpCancelled /\ ~PumpStartFails /\ ~PumpResolves /\ ~PumpTimeouts
        BY <1>1, <2>6 DEF Pump, PumpWakes, PumpProcess, PumpKeepsSession, PumpOpensSession,
               PumpSubmits, PumpDoneSending, PumpAppends, PumpWrites, PumpClaims, LeavesQueue
    <2> QED BY <2>1, <2>2, <2>3, <2>4, <2>5, <2>6
<1>2. ASSUME NEW s \in Sessions, Reader(s)
      PROVE  LeavesQueue \/ FailsAll \/ Completes
    <2>1. CASE ReaderTakesAck(s)
        <3>1. transport[s].acksCh \in Seq(Acks) /\ transport[s].acksCh # <<>>
            BY <2>1 DEF ReaderTakesAck, TakeAck, TypeOK, TransportTypeOK, Transports
        <3>2. Head(transport[s].acksCh) \in Acks
            BY <3>1
        <3>3. /\ HandleAck(s, Head(transport[s].acksCh), [transport EXCEPT ![s].acksCh = Tail(@)])
              /\ UNCHANGED sub
            BY <2>1 DEF ReaderTakesAck, TakeAck
        <3> QED BY <3>2, <3>3, HandleAckQueue
    <2>2. CASE ReaderResolves(s)
        BY <2>2, ResolveQueue DEF ReaderResolves
    <2>3. CASE ~ReaderTakesAck(s) /\ ~ReaderResolves(s)
        BY <1>2, <2>3 DEF Reader, ReaderWeighsAdvice, ReaderTakesError, ReaderDrained,
               ReaderClaims, ReaderSeesEnd, ReaderFollowsAdvice, ReaderCancelled, LeavesQueue
    <2> QED BY <2>1, <2>2, <2>3
<1>3. CASE \E s \in Sessions : TransportNext(s) /\ UNCHANGED SessionVars
    BY <1>3 DEF SessionVars, LeavesQueue
<1>4. CASE CloseStarts
    BY <1>4, ClosedPoolFields DEF CloseStarts, LeavesQueue, TypeOK
<1>5. CASE CloseCleansUp
    <2>1. [b \in Queued |-> "failed"] \in [Queued -> Failures]
        BY DEF Failures
    <2>2. closing' = TRUE
        BY <1>5 DEF CloseCleansUp, ClosingOK, TypeOK
    <2>3. FailQueued([b \in Queued |-> "failed"], transport) /\ UNCHANGED <<sub, entry, lastAckedEnd>>
        BY <1>5 DEF CloseCleansUp
    <2> HIDE <1>5
    <2> QED BY <2>1, <2>2, <2>3 DEF FailQueued, FailsAll
<1>6. CASE CloseDrained \/ CloseReturns \/ Cancel \/ RetryDue
    BY <1>6 DEF CloseDrained, CloseReturns, Cancel, RetryDue, LeavesQueue
<1>7. CASE RequestTimeout
    <2>1. \A b \in Batches : entry'[b].sentOn = entry[b].sentOn
        BY <1>7 DEF RequestTimeout, TypeOK, Entries
    <2> QED BY <1>7, <2>1 DEF RequestTimeout, LeavesQueue
<1>8. CASE UNCHANGED <<vars, setup>>
    BY <1>8 DEF vars, LeavesQueue
<1> QED BY <1>1, <1>2, <1>3, <1>4, <1>5, <1>6, <1>7, <1>8 DEF Next, Step, Closer

(***************************************************************************)
(* The queue holds each batch once, and exactly those that were enqueued   *)
(* and have no outcome; a batch that was not enqueued was not sent.  What  *)
(* the pump has still to look at was enqueued, although some of it may     *)
(* have its outcome by now.                                                *)
(***************************************************************************)
QueueOK ==
    /\ IsInjective(inflightQueue)
    /\ \A b \in Batches : b \in Queued <=> sub[b] = "enqueued" /\ result[b] = "none"
    /\ \A b \in Batches : sub[b] # "enqueued" => result[b] = "none" /\ entry[b].sentOn = {}

TodoOK == \A i \in DOMAIN pumpTodo : sub[pumpTodo[i]] = "enqueued"

(* An enqueued batch stays enqueued. *)
LEMMA EnqueuedStays ==
    ASSUME TypeOK, ClosingOK, [Next]_<<vars, setup>>, NEW b \in Batches, sub[b] = "enqueued"
    PROVE  sub'[b] = "enqueued"
<1>1. ASSUME NEW a \in Batches, Submitter(a)
      PROVE  sub'[b] = "enqueued"
    BY <1>1 DEF Submitter, Submit, Reserve, Enqueue, TypeOK
<1> QED BY <1>1, QueueSteps DEF LeavesQueue, FailsAll, Completes, PumpMarks

(* The goroutine inside Close moves in its own steps only. *)
LEMMA CloserMoves ==
    ASSUME [Next]_<<vars, setup>>
    PROVE  closer' = closer \/ CloseStarts \/ Closer
<1> USE DEF closeVars
<1>1. ASSUME NEW a \in Batches, Submitter(a)
      PROVE  closer' = closer
    BY <1>1 DEF Submitter, Submit, Reserve, Enqueue
<1>2. CASE Pump
    BY <1>2 DEF Pump, PumpWakes, PumpCancelled, PumpProcess, PumpKeepsSession,
           PumpOpensSession, PumpStartFails, PumpSubmits, PumpMarks, PumpDoneSending,
           PumpAppends, PumpWrites, PumpClaims, PumpResolves, PumpTimeouts, EndIteration,
           ResolveFailure, FailAllInflight, KeepInflight
<1>3. ASSUME NEW s \in Sessions, Reader(s)
      PROVE  closer' = closer
    BY <1>3 DEF Reader, ReaderTakesAck, TakeAck, ReaderWeighsAdvice, ReaderTakesError,
           ReaderDrained, ReaderClaims, ReaderResolves, ReaderSeesEnd, ReaderFollowsAdvice,
           ReaderCancelled, HandleAck, CompleteHead, ResolveFailure, FailAllInflight,
           KeepInflight
<1>4. CASE \E s \in Sessions : TransportNext(s) /\ UNCHANGED SessionVars
    BY <1>4 DEF SessionVars
<1>5. CASE CloseStarts \/ Closer
    BY <1>5
<1>6. CASE Cancel \/ RetryDue \/ RequestTimeout
    BY <1>6 DEF Cancel, RetryDue, RequestTimeout
<1>7. CASE UNCHANGED <<vars, setup>>
    BY <1>7 DEF vars
<1> QED BY <1>1, <1>2, <1>3, <1>4, <1>5, <1>6, <1>7 DEF Next, Step

(* Once the session is closing it stays so, and Close begins by closing it. *)
LEMMA ClosingStep ==
    ASSUME TypeOK, ClosingOK, [Next]_<<vars, setup>>
    PROVE  ClosingOK' /\ (closing => closing')
<1> USE DEF closeVars
<1>1. closing => closing'
    <2>1. ASSUME NEW a \in Batches, Submitter(a)
          PROVE  closing' = closing
        BY <2>1 DEF Submitter, Submit, Reserve, Enqueue
    <2> QED BY <2>1, QueueSteps DEF LeavesQueue, FailsAll, Completes, PumpMarks
<1>2. closer' = closer \/ closing'
    BY CloserMoves DEF CloseStarts, Closer, CloseDrained, CloseCleansUp, CloseReturns, ClosingOK
<1> QED BY <1>1, <1>2 DEF ClosingOK

(* The queue invariant is preserved by every step. *)
LEMMA QueueStep ==
    ASSUME TypeOK, TypeOK', ClosingOK, QueueOK, TodoOK, [Next]_<<vars, setup>>
    PROVE  QueueOK'
<1>q. Queued = Range(inflightQueue) /\ Queued' = Range(inflightQueue')
    BY DEF Queued, Range
<1>s. inflightQueue \in Seq(Batches) /\ Queued \subseteq Batches
    BY DEF Queued, TypeOK
<1>1. CASE LeavesQueue
    <2>1. Queued' = Queued
        BY <1>1, <1>q DEF LeavesQueue
    <2> QED BY <1>1, <2>1 DEF LeavesQueue, QueueOK
<1>2. CASE FailsAll
    <2>1. Queued' = {} /\ IsInjective(inflightQueue')
        BY <1>2, <1>q DEF FailsAll, Range, IsInjective
    <2>2. PICK outcome \in [Queued -> Failures] :
             result' = [b \in Batches |-> IF b \in Queued THEN outcome[b] ELSE result[b]]
        BY <1>2 DEF FailsAll
    <2>3. \A b \in Batches : IF b \in Queued THEN result'[b] # "none" ELSE result'[b] = result[b]
        BY <2>2 DEF Failures
    <2>4. UNCHANGED <<sub, entry>>
        BY <1>2 DEF FailsAll
    <2> QED BY <2>1, <2>3, <2>4 DEF QueueOK
<1>3. CASE Completes
    <2> DEFINE h == Head(inflightQueue)
    <2>1. /\ Queued' = Queued \ {h} /\ h \in Queued
          /\ IsInjective(inflightQueue')
        BY <1>3, <1>q, <1>s, QueueShrinks DEF Completes, QueueOK
    <2>2. h \in Batches
        BY <1>s, <2>1
    <2>3. \A b \in Batches : result'[b] = IF b = h THEN "acked" ELSE result[b]
        BY <1>3, <2>2 DEF Completes, TypeOK
    <2>4. \A b \in Batches : b # h => entry'[b].sentOn = entry[b].sentOn
        BY <1>3, <2>2 DEF Completes, TypeOK
    <2>5. sub' = sub /\ sub[h] = "enqueued"
        BY <1>3, <2>1, <2>2 DEF Completes, QueueOK
    <2> HIDE DEF h
    <2> QED BY <2>1, <2>2, <2>3, <2>4, <2>5 DEF QueueOK
<1>4. CASE PumpMarks
    <2>1. UNCHANGED <<inflightQueue, sub, result>>
        BY <1>4 DEF PumpMarks
    <2>2. PICK i \in DOMAIN pumpTodo :
             entry' = [entry EXCEPT
                    ![pumpTodo[i]].sentOn = @ \cup {pumpSession},
                    ![pumpTodo[i]].attemptStart = IF @ = "zero" THEN "running" ELSE @]
        BY <1>4 DEF PumpMarks
    <2>3. \A b \in Batches : b # pumpTodo[i] => entry'[b] = entry[b]
        BY <2>2 DEF TypeOK
    <2>4. sub[pumpTodo[i]] = "enqueued"
        BY DEF TodoOK
    <2>5. Queued' = Queued
        BY <1>q, <2>1
    <2> QED BY <2>1, <2>3, <2>4, <2>5 DEF QueueOK
<1>5. ASSUME NEW b \in Batches, Submitter(b)
      PROVE  QueueOK'
    <2>1. UNCHANGED <<result, entry>>
        BY <1>5 DEF Submitter, Submit, Reserve, Enqueue, queueVars
    <2>2. CASE UNCHANGED inflightQueue
        <3>1. Queued' = Queued
            BY <1>q, <2>2
        <3>2. /\ \A a \in Batches : a # b => sub'[a] = sub[a]
              /\ sub[b] # "enqueued" /\ sub'[b] # "enqueued"
            BY <1>5, <2>2, <1>s, AppendProperties
               DEF Submitter, Submit, Reserve, Enqueue, TypeOK
        <3> QED BY <2>1, <2>2, <3>1, <3>2 DEF QueueOK
    <2>3. CASE inflightQueue' = Append(inflightQueue, b) /\ sub[b] # "enqueued"
               /\ sub' = [sub EXCEPT ![b] = "enqueued"]
        <3>1. b \notin Queued /\ result[b] = "none"
            BY <2>3 DEF QueueOK
        <3>2. Queued' = Queued \cup {b} /\ IsInjective(inflightQueue')
            BY <1>q, <1>s, <2>3, <3>1, QueueGrows DEF QueueOK
        <3>3. \A a \in Batches : sub'[a] = IF a = b THEN "enqueued" ELSE sub[a]
            BY <2>3 DEF TypeOK
        <3> QED BY <2>1, <3>1, <3>2, <3>3 DEF QueueOK
    <2>4. \/ UNCHANGED inflightQueue
          \/ /\ inflightQueue' = Append(inflightQueue, b) /\ sub[b] # "enqueued"
             /\ sub' = [sub EXCEPT ![b] = "enqueued"]
        <3>1. CASE Submit(b) \/ Reserve(b)
            BY <3>1 DEF Submit, Reserve, queueVars
        <3>2. CASE Enqueue(b)
            BY <3>2 DEF Enqueue
        <3> QED BY <1>5, <3>1, <3>2 DEF Submitter
    <2> QED BY <2>2, <2>3, <2>4
<1> QED BY <1>1, <1>2, <1>3, <1>4, <1>5, QueueSteps

(* What the pump has still to look at was in the queue. *)
LEMMA TodoStep ==
    ASSUME TypeOK, TypeOK', ClosingOK, QueueOK, TodoOK, [Next]_<<vars, setup>>
    PROVE  TodoOK'
<1> USE DEF pumpVars
<1>1. \A i \in DOMAIN pumpTodo' :
          (\E j \in DOMAIN pumpTodo : pumpTodo'[i] = pumpTodo[j]) \/ pumpTodo'[i] \in Queued
    <2>1. CASE UNCHANGED pumpTodo \/ pumpTodo' = <<>> \/ pumpTodo' = inflightQueue
        BY <2>1 DEF Queued
    <2>2. CASE PumpMarks
        <3>1. PICK k \in DOMAIN pumpTodo : pumpTodo' = SubSeq(pumpTodo, k, Len(pumpTodo))
            BY <2>2 DEF PumpMarks
        <3>q. pumpTodo \in Seq(Batches)
            BY DEF TypeOK
        <3>2. pumpTodo \in Seq(Batches) /\ k \in 1 .. Len(pumpTodo)
            BY <3>q
        <3>3. \A i \in DOMAIN pumpTodo' :
                 pumpTodo'[i] = pumpTodo[k + i - 1] /\ k + i - 1 \in DOMAIN pumpTodo
            BY <3>1, <3>2
        <3> QED BY <3>3
    <2>3. CASE pumpTodo # <<>> /\ pumpTodo' = Tail(pumpTodo)
        <3>1. pumpTodo \in Seq(Batches)
            BY DEF TypeOK
        <3>2. \A i \in DOMAIN pumpTodo' :
                 pumpTodo'[i] = pumpTodo[i + 1] /\ i + 1 \in DOMAIN pumpTodo
            BY <2>3, <3>1
        <3> QED BY <3>2
    <2>4. CASE pumpTodo = <<>> /\ pumpTodo' = Tail(pumpTodo)
        BY <2>4
    <2>5. CASE Pump
        BY <2>1, <2>2, <2>3, <2>4, <2>5
           DEF Pump, PumpWakes, PumpCancelled, PumpProcess, PumpKeepsSession, PumpOpensSession,
               PumpStartFails, PumpSubmits, PumpDoneSending, PumpAppends, PumpWrites, PumpClaims,
               PumpResolves, PumpTimeouts
    <2>6. ASSUME NEW s \in Sessions, Reader(s)
          PROVE  UNCHANGED pumpTodo
        BY <2>6 DEF Reader, ReaderTakesAck, TakeAck, ReaderWeighsAdvice, ReaderTakesError,
               ReaderDrained, ReaderClaims, ReaderResolves, ReaderSeesEnd, ReaderFollowsAdvice,
               ReaderCancelled
    <2>7. ASSUME NEW b \in Batches, Submitter(b)
          PROVE  UNCHANGED pumpTodo
        BY <2>7 DEF Submitter, Submit, Reserve, Enqueue
    <2>8. ASSUME CloseStarts \/ Closer \/ Cancel \/ RetryDue \/ RequestTimeout
          PROVE  UNCHANGED pumpTodo
        BY <2>8 DEF CloseStarts, Closer, CloseDrained, CloseCleansUp, CloseReturns, Cancel,
               RetryDue, RequestTimeout
    <2> QED BY <2>1, <2>5, <2>6, <2>7, <2>8 DEF Next, Step, SessionVars, vars
<1>2. \A i \in DOMAIN pumpTodo' : pumpTodo'[i] \in Batches
    BY DEF TypeOK
<1>3. \A i \in DOMAIN pumpTodo' : sub[pumpTodo'[i]] = "enqueued"
    BY <1>1, <1>2 DEF TodoOK, QueueOK
<1> QED BY <1>2, <1>3, EnqueuedStays DEF TodoOK

-----------------------------------------------------------------------------
(* The accounts *)

(* The queued batches that were sent on a session. *)
SentOn(s) == {b \in Queued : s \in entry[b].sentOn}

(* The entries sent on a connection are finitely many batches. *)
LEMMA SentOnFinite ==
    ASSUME TypeOK, NEW s
    PROVE  IsFiniteSet(SentOn(s)) /\ SentOn(s) \subseteq Batches
<1>1. SentOn(s) \in SUBSET Batches
    BY DEF SentOn, Queued, TypeOK
<1> QED BY <1>1, SessionAssumption, FS_Subset

(* The reference counts stay exact in every step. *)
LEMMA RefsStep ==
    ASSUME TypeOK, PumpOK, ClosingOK, QueueOK, TodoOK, RefsExact, [Next]_<<vars, setup>>
    PROVE  RefsExact'
<1>q. Queued = Range(inflightQueue) /\ Queued' = Range(inflightQueue')
    BY DEF Queued, Range
<1>s. inflightQueue \in Seq(Batches) /\ Queued \subseteq Batches
    BY DEF Queued, TypeOK
<1>r. \A s \in Sessions : sessionRefs[s] = Cardinality(SentOn(s))
    BY DEF RefsExact, SentOn
<1> SUFFICES ASSUME NEW s \in Sessions
             PROVE  sessionRefs'[s] = Cardinality({b \in Queued' : s \in entry'[b].sentOn})
    BY DEF RefsExact
<1> DEFINE after == {b \in Queued' : s \in entry'[b].sentOn}
<1>f. IsFiniteSet(SentOn(s)) /\ Cardinality(SentOn(s)) \in Nat
    BY SentOnFinite, FS_CardinalityType
<1>1. CASE LeavesQueue
    <2>1. after = SentOn(s)
        BY <1>1, <1>q, <1>s DEF LeavesQueue, SentOn
    <2> QED BY <1>1, <1>r, <2>1 DEF LeavesQueue
<1>2. CASE FailsAll
    <2>1. after = {}
        BY <1>2, <1>q DEF FailsAll, Range
    <2> QED BY <1>2, <2>1, FS_EmptySet DEF FailsAll
<1>3. CASE Completes
    <2> DEFINE h == Head(inflightQueue)
    <2>1. Queued' = Queued \ {h} /\ h \in Queued /\ h \in Batches
        BY <1>3, <1>q, <1>s, QueueShrinks DEF Completes, QueueOK
    <2>2. \A b \in Batches : b # h => entry'[b].sentOn = entry[b].sentOn
        BY <1>3, <2>1 DEF Completes, TypeOK
    <2>3. after = SentOn(s) \ {h}
        BY <1>s, <2>1, <2>2 DEF SentOn
    <2>4. h \in SentOn(s) <=> s \in entry[h].sentOn
        BY <2>1 DEF SentOn
    <2>5. Cardinality(after) = IF h \in SentOn(s) THEN Cardinality(SentOn(s)) - 1
                                                 ELSE Cardinality(SentOn(s))
        BY <1>f, <2>3, FS_RemoveElement
    <2>6. h \in SentOn(s) => Cardinality(SentOn(s)) > 0
        BY <1>f, FS_EmptySet
    <2>7. sessionRefs'[s] = IF s \in entry[h].sentOn /\ sessionRefs[s] > 0
                            THEN sessionRefs[s] - 1 ELSE sessionRefs[s]
        BY <1>3 DEF Completes, ReleasedRefs
    <2> HIDE DEF h, after
    <2> QED BY <1>r, <2>4, <2>5, <2>6, <2>7 DEF after
<1>4. CASE PumpMarks
    <2>1. Queued' = Queued /\ pumpSession \in Sessions
        BY <1>4, <1>q DEF PumpMarks, PumpOK
    <2>2. PICK i \in DOMAIN pumpTodo :
             /\ Sendable(i)
             /\ entry' = [entry EXCEPT
                    ![pumpTodo[i]].sentOn = @ \cup {pumpSession},
                    ![pumpTodo[i]].attemptStart = IF @ = "zero" THEN "running" ELSE @]
        BY <1>4 DEF PumpMarks
    <2> DEFINE b == pumpTodo[i]
    <2>3. b \in Batches
        BY DEF TypeOK
    <2>4. b \in Queued /\ pumpSession \notin entry[b].sentOn
        BY <2>2, <2>3 DEF Sendable, TodoOK, QueueOK
    <2>5. \A a \in Batches : entry'[a].sentOn = IF a = b THEN entry[a].sentOn \cup {pumpSession}
                                                ELSE entry[a].sentOn
        BY ZenonT(60), <2>2, <2>3 DEF TypeOK, Entries
    <2>6. sessionRefs'[s] = IF s = pumpSession THEN sessionRefs[s] + 1 ELSE sessionRefs[s]
        BY <1>4, <2>1 DEF PumpMarks, TypeOK
    <2> HIDE DEF b
    <2>7. CASE s = pumpSession
        <3>1. after = SentOn(s) \cup {b} /\ b \notin SentOn(s)
            BY <1>s, <2>1, <2>4, <2>5, <2>7 DEF SentOn
        <3>2. Cardinality(after) = Cardinality(SentOn(s)) + 1
            BY <1>f, <3>1, FS_AddElement
        <3> QED BY <1>r, <2>6, <2>7, <3>2
    <2>8. CASE s # pumpSession
        <3>1. after = SentOn(s)
            BY <1>s, <2>1, <2>5, <2>8 DEF SentOn
        <3> QED BY <1>r, <2>6, <2>8, <3>1
    <2> QED BY <2>7, <2>8
<1>5. ASSUME NEW b \in Batches, Submitter(b)
      PROVE  sessionRefs'[s] = Cardinality(after)
    <2>1. UNCHANGED <<sessionRefs, entry>>
        BY <1>5 DEF Submitter, Submit, Reserve, Enqueue, queueVars
    <2>2. \/ inflightQueue' = inflightQueue
          \/ inflightQueue' = Append(inflightQueue, b) /\ sub[b] # "enqueued"
        BY <1>5 DEF Submitter, Submit, Reserve, Enqueue, queueVars
    <2>3. \/ Queued' = Queued
          \/ Queued' = Queued \cup {b} /\ entry[b].sentOn = {}
        <3>1. CASE inflightQueue' = inflightQueue
            BY <1>q, <3>1
        <3>2. CASE inflightQueue' = Append(inflightQueue, b) /\ sub[b] # "enqueued"
            <4>1. Queued' = Queued \cup {b}
                BY <1>q, <1>s, <3>2, QueueGrows
            <4> QED BY <3>2, <4>1 DEF QueueOK
        <3> QED BY <2>2, <3>1, <3>2
    <2>4. after = SentOn(s)
        BY <2>1, <2>3 DEF SentOn
    <2> QED BY <1>r, <2>1, <2>4
<1> QED BY <1>1, <1>2, <1>3, <1>4, <1>5, QueueSteps

(* What the held batches weigh, and what a pool then says. *)
Balanced(p, held) ==
    /\ p.bytes = SumFunctionOnSet(Size, held)
    /\ p.items = IF MaxItems = 0 THEN 0 ELSE Cardinality(held)

(* A reservation keeps the account of a pool balanced. *)
LEMMA ReserveBalances ==
    ASSUME NEW p \in Pool, NEW held \in SUBSET Batches, NEW b \in Batches, b \notin held,
           Balanced(p, held)
    PROVE  Balanced(Reserved(p, Size[b]), held \cup {b})
<1>1. IsFiniteSet(held) /\ Size[b] \in Nat
    BY SessionAssumption, FS_Subset
<1>2. Cardinality(held \cup {b}) = Cardinality(held) + 1
    BY <1>1, FS_AddElement
<1>3. SumFunctionOnSet(Size, held \cup {b}) = SumFunctionOnSet(Size, held) + Size[b]
    BY <1>1, SessionAssumption, SumAdd
<1> QED BY <1>1, <1>2, <1>3, ReservedFields, CapacityAssumption DEF Balanced

(* A release of what is held keeps the account balanced. *)
LEMMA ReleaseBalances ==
    ASSUME NEW p \in Pool, NEW held \in SUBSET Batches, NEW b \in held, Balanced(p, held)
    PROVE  Balanced(Released(p, Size[b]), held \ {b})
<1>1. IsFiniteSet(held) /\ Size[b] \in Nat
    BY SessionAssumption, FS_Subset
<1>2. /\ Cardinality(held \ {b}) = Cardinality(held) - 1
      /\ Cardinality(held) \in Nat /\ Cardinality(held) # 0
    BY <1>1, FS_RemoveElement, FS_CardinalityType, FS_EmptySet
<1>3. /\ SumFunctionOnSet(Size, held \ {b}) = SumFunctionOnSet(Size, held) - Size[b]
      /\ SumFunctionOnSet(Size, held) >= Size[b]
    BY <1>1, SessionAssumption, SumRemove
<1>4. SumFunctionOnSet(Size, held) \in Nat
    BY <1>1, SessionAssumption, SumType
<1>5. Released(p, Size[b]).bytes = SumFunctionOnSet(Size, held \ {b})
    BY <1>1, <1>3, <1>4, ReleasedFields DEF Balanced
<1>6. Released(p, Size[b]).items = IF MaxItems = 0 THEN 0 ELSE Cardinality(held \ {b})
    <2>1. Released(p, Size[b]).items =
             IF MaxItems > 0 /\ p.items > 0 THEN p.items - 1 ELSE p.items
        BY <1>1, ReleasedFields
    <2>2. CASE MaxItems = 0
        BY <2>1, <2>2 DEF Balanced
    <2>3. CASE MaxItems # 0
        <3>1. MaxItems > 0
            BY <2>3, CapacityAssumption
        <3>2. p.items = Cardinality(held)
            BY <2>3 DEF Balanced
        <3> QED BY <1>2, <2>1, <2>3, <3>1, <3>2
    <2> QED BY <2>2, <2>3
<1> QED BY <1>5, <1>6 DEF Balanced

(* Releasing a whole set of batches, as failAllInflight does, keeps the
   account balanced. *)
LEMMA ReleaseAllBalances ==
    ASSUME NEW p \in Pool, NEW kept \in SUBSET Batches, NEW gone \in SUBSET Batches,
           kept \cap gone = {}, Balanced(p, kept \cup gone)
    PROVE  Balanced(ReleasedAll(p, gone), kept)
<1>1. IsFiniteSet(kept) /\ IsFiniteSet(gone)
    BY SessionAssumption, FS_Subset
<1>2. /\ Cardinality(kept \cup gone) = Cardinality(kept) + Cardinality(gone)
      /\ Cardinality(kept) \in Nat /\ Cardinality(gone) \in Nat
    <2>1. Cardinality(kept \cup gone) =
             Cardinality(kept) + Cardinality(gone) - Cardinality(kept \cap gone)
        BY <1>1, FS_Union
    <2> QED BY SMTT(40), <1>1, <2>1, FS_EmptySet, FS_CardinalityType
<1>3. /\ SumFunctionOnSet(Size, kept \cup gone) =
            SumFunctionOnSet(Size, kept) + SumFunctionOnSet(Size, gone)
      /\ SumFunctionOnSet(Size, kept) \in Nat /\ SumFunctionOnSet(Size, gone) \in Nat
    BY <1>1, SessionAssumption, SumUnion, SumType
<1> QED BY <1>2, <1>3, ReleasedAllFields, CapacityAssumption DEF Balanced

(* The capacity account stays exact in every step. *)
LEMMA CapacityStep ==
    ASSUME TypeOK, ClosingOK, QueueOK, CapacityConserved, [Next]_<<vars, setup>>
    PROVE  CapacityConserved'
<1> DEFINE waiting == {b \in Batches : sub[b] = "reserved"}
<1>q. Queued = Range(inflightQueue) /\ Queued' = Range(inflightQueue')
    BY DEF Queued, Range
<1>s. inflightQueue \in Seq(Batches) /\ Queued \in SUBSET Batches /\ pool \in Pool
    BY DEF Queued, TypeOK
<1>d. waiting \cap Queued = {}
    BY DEF QueueOK
<1>b. Balanced(pool, waiting \cup Queued)
    BY DEF CapacityConserved, CapacityHeld, Balanced
<1>g. Balanced(pool', CapacityHeld') => CapacityConserved'
    BY DEF CapacityConserved, Balanced
<1>h. CapacityHeld' = {b \in Batches : sub'[b] = "reserved"} \cup Queued'
    BY DEF CapacityHeld
<1>1. CASE LeavesQueue
    <2>1. CapacityHeld' = waiting \cup Queued
        BY <1>1, <1>q, <1>h DEF LeavesQueue
    <2> QED BY <1>1, <1>b, <1>g, <2>1 DEF LeavesQueue, Balanced
<1>2. CASE FailsAll
    <2>1. CapacityHeld' = waiting
        BY <1>2, <1>q, <1>h DEF FailsAll, Range
    <2>2. Balanced(ReleasedAll(pool, Queued), waiting) /\ ReleasedAll(pool, Queued) \in Pool
        BY <1>s, <1>d, <1>b, ReleaseAllBalances, ReleasedAllFields
    <2>3. pool' = ClosedPool(ReleasedAll(pool, Queued))
        BY <1>2 DEF FailsAll
    <2>4. Balanced(pool', waiting)
        BY <2>2, <2>3, ClosedPoolFields DEF Balanced
    <2> QED BY <1>g, <2>1, <2>4
<1>3. CASE Completes
    <2> DEFINE h == Head(inflightQueue)
    <2>1. Queued' = Queued \ {h} /\ h \in Queued
        BY <1>3, <1>q, <1>s, QueueShrinks DEF Completes, QueueOK
    <2>2. CapacityHeld' = (waiting \cup Queued) \ {h}
        BY <1>3, <1>d, <1>h, <2>1 DEF Completes
    <2>3. pool' = Released(pool, Size[h])
        BY <1>3 DEF Completes
    <2> HIDE DEF h, waiting
    <2>4. waiting \cup Queued \in SUBSET Batches
        BY <1>s DEF waiting
    <2>5. Balanced(pool', (waiting \cup Queued) \ {h})
        BY <1>s, <1>b, <2>1, <2>3, <2>4, ReleaseBalances
    <2> QED BY <1>g, <2>2, <2>5
<1>4. CASE PumpMarks
    <2>1. CapacityHeld' = waiting \cup Queued /\ UNCHANGED pool
        BY <1>4, <1>q, <1>h DEF PumpMarks
    <2> QED BY <1>b, <1>g, <2>1
<1>5. ASSUME NEW b \in Batches, Submitter(b)
      PROVE  CapacityConserved'
    <2>0. ASSUME NEW v, sub' = [sub EXCEPT ![b] = v]
          PROVE  {a \in Batches : sub'[a] = "reserved"} =
                    IF v = "reserved" THEN waiting \cup {b} ELSE waiting \ {b}
        BY <2>0 DEF TypeOK
    <2>1. CASE Submit(b)
        <3>1. b \notin waiting /\ UNCHANGED <<pool, inflightQueue>>
            BY <2>1 DEF Submit, queueVars
        <3>2. {a \in Batches : sub'[a] = "reserved"} = waiting
            BY <2>1, <3>1 DEF Submit, TypeOK
        <3> QED BY <1>q, <1>h, <1>b, <1>g, <3>1, <3>2
    <2>2. CASE Reserve(b)
        <3>1. b \notin waiting /\ b \notin Queued /\ Queued' = Queued
            BY <2>2, <1>q DEF Reserve, QueueOK, queueVars
        <3>2. CASE sub' = [sub EXCEPT ![b] = "rejected"] /\ UNCHANGED pool
            <4>1. {a \in Batches : sub'[a] = "reserved"} = waiting
                BY <2>0, <3>1, <3>2
            <4> QED BY <1>h, <1>b, <1>g, <3>1, <3>2, <4>1
        <3>3. CASE sub' = [sub EXCEPT ![b] = "reserved"] /\ pool' = Reserved(pool, Size[b])
            <4>1. CapacityHeld' = (waiting \cup Queued) \cup {b}
                BY <1>h, <2>0, <3>1, <3>3
            <4> HIDE DEF waiting
            <4>2. waiting \cup Queued \in SUBSET Batches /\ b \notin waiting \cup Queued
                BY <1>s, <3>1 DEF waiting
            <4>3. Balanced(pool', (waiting \cup Queued) \cup {b})
                BY <1>s, <1>b, <3>3, <4>2, ReserveBalances
            <4> QED BY <1>g, <4>1, <4>3
        <3> QED BY <2>2, <3>2, <3>3 DEF Reserve
    <2>3. CASE Enqueue(b)
        <3>1. b \in waiting /\ b \notin Queued
            BY <2>3 DEF Enqueue, QueueOK
        <3>2. CASE /\ sub' = [sub EXCEPT ![b] = "rejected"] /\ UNCHANGED inflightQueue
                   /\ pool' = Released(pool, Size[b])
            <4>1. CapacityHeld' = (waiting \cup Queued) \ {b}
                <5>1. Queued' = Queued
                    BY <1>q, <3>2
                <5>2. {a \in Batches : sub'[a] = "reserved"} = waiting \ {b}
                    BY <3>2 DEF TypeOK
                <5> QED BY <1>h, <3>1, <5>1, <5>2
            <4> HIDE DEF waiting
            <4>2. waiting \cup Queued \in SUBSET Batches /\ b \in waiting \cup Queued
                BY <1>s, <3>1 DEF waiting
            <4>3. Balanced(pool', (waiting \cup Queued) \ {b})
                BY <1>s, <1>b, <3>2, <4>2, ReleaseBalances
            <4> QED BY <1>g, <4>1, <4>3
        <3>3. CASE /\ sub' = [sub EXCEPT ![b] = "enqueued"] /\ UNCHANGED pool
                   /\ inflightQueue' = Append(inflightQueue, b)
            <4>1. Queued' = Queued \cup {b}
                BY <1>q, <1>s, <3>3, QueueGrows
            <4>2. CapacityHeld' = waiting \cup Queued
                BY <1>h, <2>0, <3>1, <3>3, <4>1
            <4> QED BY <1>b, <1>g, <3>3, <4>2
        <3> QED BY <2>3, <3>2, <3>3 DEF Enqueue
    <2> QED BY <1>5, <2>1, <2>2, <2>3 DEF Submitter
<1> QED BY <1>1, <1>2, <1>3, <1>4, <1>5, QueueSteps

(* The inductive invariant behind the accounts. *)
AccountsInv ==
    /\ TypeInv
    /\ ClosingOK /\ QueueOK /\ TodoOK
    /\ RefsExact /\ CapacityConserved

(* The initial states satisfy AccountsInv. *)
LEMMA AccountsInvInit == Init => AccountsInv
<1> SUFFICES ASSUME Init PROVE AccountsInv
    OBVIOUS
<1>1. Queued = {} /\ CapacityHeld = {}
    BY DEF Init, Queued, CapacityHeld
<1>2. TypeInv /\ ClosingOK
    BY TypeInvInit DEF Init, ClosingOK
<1>3. QueueOK /\ TodoOK
    BY <1>1 DEF Init, QueueOK, TodoOK, IsInjective
<1>4. RefsExact
    BY <1>1, FS_EmptySet DEF Init, RefsExact
<1>5. SumFunctionOnSet(Size, {}) = 0
    BY SumType, FS_EmptySet
<1>6. CapacityConserved
    BY <1>1, <1>5, FS_EmptySet DEF Init, CapacityConserved, NewPool
<1> QED BY <1>2, <1>3, <1>4, <1>6 DEF AccountsInv

(* AccountsInv is inductive, hence holds in every reachable state. *)
LEMMA AccountsInvariant == Spec => []AccountsInv
<1>1. ASSUME AccountsInv, [Next]_<<vars, setup>>
      PROVE  AccountsInv'
    <2>1. TypeInv'
        BY <1>1, TypeStep, PumpOKStep, ClaimStep DEF AccountsInv, TypeInv, Next
    <2>2. ClosingOK' /\ QueueOK' /\ TodoOK'
        BY <1>1, <2>1, ClosingStep, QueueStep, TodoStep DEF AccountsInv, TypeInv
    <2>3. RefsExact' /\ CapacityConserved'
        BY <1>1, RefsStep, CapacityStep DEF AccountsInv, TypeInv
    <2> QED BY <2>1, <2>2, <2>3 DEF AccountsInv
<1> QED BY <1>1, AccountsInvInit, PTL DEF Spec

(***************************************************************************)
(* Both accounts of the session are exact in every state: the capacity in  *)
(* use is what the reserved and queued batches weigh, whichever of ack,    *)
(* failAllInflight, Close and refused enqueue gives it back, and the       *)
(* reference count of every connection is the number of queued batches     *)
(* sent on it (append_session.go, capacity.go).                            *)
(***************************************************************************)
THEOREM AccountsAreExact == Spec => []AccountsExact
<1>1. AccountsInv => AccountsExact
    BY DEF AccountsInv, AccountsExact, TypeInv
<1> QED BY <1>1, AccountsInvariant, PTL

-----------------------------------------------------------------------------
(* The promise *)

(* Every step is a step of the abstract queue, or leaves it alone. *)
LEMMA PromiseStep ==
    ASSUME AccountsInv, AccountsInv', [Next]_<<vars, setup>>
    PROVE  [Promise!Next]_Promise!vars
<1> USE DEF Promise!vars
<1>t. TypeOK /\ TypeOK' /\ QueueOK /\ ClosingOK
    BY DEF AccountsInv, TypeInv
<1>w. Promise!Waiting = Queued
    BY DEF Promise!Waiting, Queued
<1>1. CASE LeavesQueue
    <2>1. CASE closing' = closing
        BY <1>1, <2>1 DEF LeavesQueue
    <2>2. CASE closing' = TRUE
        BY <1>1, <2>2 DEF LeavesQueue, Promise!Next, Promise!End
    <2> QED BY <1>1, <2>1, <2>2 DEF LeavesQueue
<1>2. CASE FailsAll
    <2>1. PICK outcome \in [Queued -> Failures] :
             result' = [b \in Batches |-> IF b \in Queued THEN outcome[b] ELSE result[b]]
        BY <1>2 DEF FailsAll
    <2>2. \A b \in Batches : IF b \in Queued THEN result'[b] \in Failures
                                             ELSE result'[b] = result[b]
        BY <2>1
    <2>3. result' \in [Batches -> {"none", "acked"} \cup Failures]
        BY <1>t DEF TypeOK
    <2>4. Promise!Fail
        BY <1>2, <1>w, <2>2, <2>3 DEF FailsAll, Promise!Fail
    <2> QED BY <2>4 DEF Promise!Next
<1>3. CASE Completes
    BY <1>3 DEF Completes, Promise!Next, Promise!Acknowledge
<1>4. CASE PumpMarks
    BY <1>4 DEF PumpMarks, closeVars
<1>5. ASSUME NEW b \in Batches, Submitter(b)
      PROVE  [Promise!Next]_Promise!vars
    <2>1. CASE Submit(b) \/ Reserve(b)
        BY <2>1 DEF Submit, Reserve, queueVars, closeVars
    <2>2. CASE Enqueue(b) /\ closing
        BY <2>2 DEF Enqueue, closeVars
    <2>3. CASE Enqueue(b) /\ ~closing
        <3>1. b \notin Queued /\ result[b] = "none"
            BY <1>t, <2>3 DEF Enqueue, QueueOK
        <3>2. Promise!Accept(b)
            BY <1>w, <2>3, <3>1 DEF Enqueue, closeVars, Promise!Accept
        <3> QED BY <3>2 DEF Promise!Next
    <2> QED BY <1>5, <2>1, <2>2, <2>3 DEF Submitter
<1> QED BY <1>1, <1>2, <1>3, <1>4, <1>5, <1>t, QueueSteps

(***************************************************************************)
(* The session with its goroutines, connections and retries implements the *)
(* ordered queue its users may reason about: whatever the connections do,  *)
(* every step accepts a batch at the back, acknowledges the one at the     *)
(* front at a position above all earlier ones, or fails all of them and    *)
(* ends the session.                                                       *)
(***************************************************************************)
THEOREM SessionImplementsPromise == Spec => ImplementsOrderedAppends
<1>1. Init => Promise!Init
    BY DEF Init, Promise!Init
<1>2. AccountsInv /\ AccountsInv' /\ [Next]_<<vars, setup>> => [Promise!Next]_Promise!vars
    BY PromiseStep
<1> QED BY <1>1, <1>2, AccountsInvariant, PTL DEF Spec, ImplementsOrderedAppends, Promise!Spec

-----------------------------------------------------------------------------
(* Close *)

(* A connection that was never created, was closed, or has ended. *)
Settled(t, s) == t[s].closed \/ t[s].conn \in {"none", "ended"}

(* A connection that could still be left open is in use or current. *)
NoLeak == \A s \in Sessions : Settled(transport, s) \/ sessionRefs[s] > 0 \/ s = currentSession

(* Settled connections stay settled. *)
StaySettled(t, u) == \A s \in Sessions : Settled(t, s) => Settled(u, s)

(* Closing sessions settles them, and unsettles none. *)
LEMMA CloseSettles ==
    ASSUME NEW t \in [Sessions -> Transports], NEW S
    PROVE  /\ StaySettled(t, ClosedSessions(t, S))
           /\ \A s \in Sessions \cap S : Settled(ClosedSessions(t, S), s)
<1>1. \A s \in Sessions :
         /\ ClosedSessions(t, S)[s].conn = t[s].conn
         /\ ClosedSessions(t, S)[s].closed = (t[s].closed \/ s \in S)
    BY ClosedSessionsFields
<1> QED BY <1>1 DEF StaySettled, Settled

(* A step of a connection unsettles none. *)
LEMMA TransportSettles ==
    ASSUME TransportTypeOK, NEW s \in Sessions, TransportNext(s)
    PROVE  StaySettled(transport, transport')
<1>0. transport \in [Sessions -> Transports] /\ transport[s] \in Transports
    BY DEF TransportTypeOK
<1> USE DEF StaySettled, Settled
<1>1. CASE Connected(s)
    BY <1>0, <1>1 DEF Connected, Transports
<1>2. CASE ConnectFailed(s)
    <2>1. Reporting(transport[s], server[s].end) \in Transports
        BY <1>0, <1>2, ReportingFields DEF ConnectFailed
    <2>2. RequestFailed(transport[s], server[s].end).conn = "ended"
        BY <2>1 DEF RequestFailed, Transports
    <2> QED BY <1>0, <1>2, <2>2 DEF ConnectFailed
<1>3. CASE ReceiveAck(s)
    BY <1>0, <1>3 DEF ReceiveAck, Transports
<1>4. CASE ResponseEnds(s)
    <2>1. PICK r \in Transports : /\ transport' = [transport EXCEPT ![s] = [r EXCEPT !.conn = "failing"]]
                                   /\ r.closed = transport[s].closed
        <3>1. CASE server[s].end \in Errors /\ ~transport[s].closed
            BY <1>0, <1>4, <3>1, ReportingFields DEF ResponseEnds
        <3>2. CASE ~(server[s].end \in Errors /\ ~transport[s].closed)
            BY <1>0, <1>4, <3>2 DEF ResponseEnds
        <3> QED BY <3>1, <3>2
    <2>2. [r EXCEPT !.conn = "failing"].closed = transport[s].closed
        BY <2>1 DEF Transports
    <2>3. transport[s].conn = "open"
        BY <1>4 DEF ResponseEnds
    <2> QED BY <1>0, <2>1, <2>2, <2>3
<1>5. CASE Teardown(s)
    <2> DEFINE t == [transport EXCEPT ![s].conn = "ended", ![s].chansClosed = TRUE]
    <2>1. t \in [Sessions -> Transports] /\ StaySettled(transport, t)
        BY <1>0 DEF Transports
    <2>2. transport' = ClosedSessions(t, {s})
        BY <1>5 DEF Teardown
    <2> HIDE DEF t
    <2> QED BY <2>1, <2>2, CloseSettles
<1>6. CASE Apply(s)
    BY <1>6 DEF Apply
<1>7. CASE ServerEnds(s) \/ ServerFinishes(s)
    BY <1>7 DEF ServerEnds, ServerFinishes
<1>8. CASE Break(s)
    BY <1>0, <1>8 DEF Break, Transports
<1> QED BY <1>1, <1>2, <1>3, <1>4, <1>5, <1>6, <1>7, <1>8 DEF TransportNext

(* Failing the queue settles every connection. *)
LEMMA FailQueuedSettles ==
    ASSUME TypeOK, NoLeak, NEW outcome, NEW t \in [Sessions -> Transports],
           StaySettled(transport, t), FailQueued(outcome, t)
    PROVE  \A s \in Sessions : Settled(transport', s)
<1> DEFINE S == InUse \cup ({currentSession} \ {NoSession})
<1>1. transport' = ClosedSessions(t, S)
    BY DEF FailQueued, AllClosed
<1>2. \A s \in Sessions : Settled(transport, s) \/ s \in S
    BY SessionsAssumption DEF NoLeak, InUse
<1> HIDE DEF S
<1> QED BY <1>1, <1>2, CloseSettles DEF StaySettled

(* handleAck leaves no connection behind. *)
LEMMA HandleAckSettles ==
    ASSUME TypeOK, NoLeak, NEW s \in Sessions, NEW ack, NEW t \in [Sessions -> Transports],
           StaySettled(transport, t), HandleAck(s, ack, t), UNCHANGED currentSession
    PROVE  NoLeak' /\ StaySettled(transport, transport')
<1>1. CASE ~ConcernsHead(s, ack)
    BY <1>1 DEF HandleAck, KeepInflight, NoLeak, StaySettled, Settled
<1>2. CASE ConcernsHead(s, ack) /\ ~ValidAck(Head(inflightQueue), ack)
    BY <1>2, FailQueuedSettles DEF HandleAck, FailAllInflight, NoLeak, StaySettled
<1>3. CASE ConcernsHead(s, ack) /\ ValidAck(Head(inflightQueue), ack)
    <2> DEFINE b == Head(inflightQueue)
               u == AckReceived(t, s)
    <2>1. CompleteHead(s, ack, t)
        BY <1>3 DEF HandleAck
    <2>2. transport' = ClosedSessions(u, StaleSessions(b)) /\ sessionRefs' = ReleasedRefs(b)
        BY <2>1 DEF CompleteHead
    <2>3. u \in [Sessions -> Transports] /\ StaySettled(t, u)
        BY AckReceivedFields DEF StaySettled, Settled
    <2> HIDE DEF u, b
    <2>4. /\ StaySettled(u, transport')
          /\ \A q \in Sessions \cap StaleSessions(b) : Settled(transport', q)
        BY <2>2, <2>3, CloseSettles
    <2>5. StaySettled(transport, transport')
        BY <2>3, <2>4 DEF StaySettled
    <2>6. ASSUME NEW q \in Sessions
          PROVE  Settled(transport', q) \/ sessionRefs'[q] > 0 \/ q = currentSession'
        <3>1. CASE q \in entry[b].sentOn /\ sessionRefs[q] = 1 /\ q # currentSession
            BY <2>4, <3>1 DEF StaleSessions
        <3>2. CASE ~(q \in entry[b].sentOn /\ sessionRefs[q] = 1) /\ sessionRefs[q] > 0
            <4>1. sessionRefs[q] \in Nat
                BY DEF TypeOK
            <4>2. sessionRefs'[q] = IF q \in entry[b].sentOn /\ sessionRefs[q] > 0
                                    THEN sessionRefs[q] - 1 ELSE sessionRefs[q]
                BY <2>2 DEF ReleasedRefs
            <4> QED BY <3>2, <4>1, <4>2
        <3>3. CASE Settled(transport, q) \/ q = currentSession
            BY <2>5, <3>3 DEF StaySettled
        <3> QED BY <3>1, <3>2, <3>3 DEF NoLeak
    <2> QED BY <2>5, <2>6 DEF NoLeak
<1> QED BY <1>1, <1>2, <1>3

(* handleClaimedSessionError leaves no connection behind. *)
LEMMA ResolveSettles ==
    ASSUME TypeOK, NoLeak, NEW s, NEW err, ResolveFailure(s, err)
    PROVE  NoLeak' /\ StaySettled(transport, transport')
<1>1. transport \in [Sessions -> Transports] /\ StaySettled(transport, transport)
    BY DEF TypeOK, TransportTypeOK, StaySettled
<1>2. CASE FailAllInflight(err, transport)
    BY <1>1, <1>2, FailQueuedSettles DEF FailAllInflight, NoLeak, StaySettled
<1>3. CASE KeepInflight(transport)
    BY <1>1, <1>3 DEF KeepInflight, ResolveFailure, NoLeak, StaySettled, Settled
<1> QED BY <1>2, <1>3 DEF ResolveFailure

(* A session that stops being the current one is closed, or still in use. *)
LEMMA DroppedSettles ==
    ASSUME TypeOK, NoLeak, NEW s \in Sessions, transport' = ClosedIfUnused(s),
           UNCHANGED sessionRefs,
           currentSession' = currentSession \/ currentSession = s
    PROVE  NoLeak' /\ StaySettled(transport, transport')
<1>1. transport \in [Sessions -> Transports]
    BY DEF TypeOK, TransportTypeOK
<1>2. StaySettled(transport, transport')
    BY <1>1, CloseSettles DEF ClosedIfUnused
<1>3. Settled(transport', s) \/ sessionRefs[s] > 0
    <2>1. CASE sessionRefs[s] = 0
        BY <1>1, <2>1, CloseSettles DEF ClosedIfUnused
    <2> QED BY <2>1 DEF TypeOK
<1> QED BY <1>2, <1>3 DEF NoLeak, StaySettled, Settled

(* Every step leaves no connection behind, and unsettles none but the one  *)
(* it creates.                                                             *)
LEMMA LeakStep ==
    ASSUME TypeOK, PumpOK, NoLeak, [Next]_<<vars, setup>>
    PROVE  NoLeak' /\ (PumpOpensSession \/ StaySettled(transport, transport'))
<1> USE DEF transportVars, remoteVars, queueVars, claimVars
<1>t. TransportTypeOK /\ transport \in [Sessions -> Transports] /\ StaySettled(transport, transport)
    BY DEF TypeOK, TransportTypeOK, StaySettled
<1>k. ASSUME StaySettled(transport, transport'), UNCHANGED <<sessionRefs, currentSession>>
      PROVE  NoLeak'
    BY <1>k DEF NoLeak, StaySettled, Settled
<1>u. ASSUME UNCHANGED <<transport, sessionRefs, currentSession>>
      PROVE  NoLeak' /\ StaySettled(transport, transport')
    BY <1>k, <1>u DEF StaySettled, Settled
<1>1. CASE \E b \in Batches : Submitter(b)
    BY <1>1, <1>u DEF Submitter, Submit, Reserve, Enqueue
<1>2. CASE Pump
    <2>1. CASE PumpCancelled
        BY <1>t, <2>1, FailQueuedSettles DEF PumpCancelled, FailAllInflight, NoLeak, StaySettled
    <2>2. CASE PumpOpensSession
        <3>1. PICK s \in Sessions : currentSession' = s /\ transport' = Started(s)
            BY <2>2 DEF PumpOpensSession
        <3>2. \A q \in Sessions : q # s => transport'[q] = transport[q]
            BY <1>t, <3>1 DEF Started
        <3>3. currentSession = NoSession /\ UNCHANGED sessionRefs
            BY <2>2 DEF PumpOpensSession, NoNewSession
        <3>4. NoLeak'
            BY <3>1, <3>2, <3>3, SessionsAssumption DEF NoLeak, Settled
        <3> QED BY <2>2, <3>4
    <2>3. CASE PumpStartFails
        <3>1. UNCHANGED currentSession
            BY <2>3 DEF PumpStartFails
        <3>2. KeepInflight(transport) \/ \E err : FailAllInflight(err, transport)
            BY <2>3 DEF PumpStartFails
        <3>3. CASE KeepInflight(transport)
            BY <1>u, <3>1, <3>3 DEF KeepInflight
        <3>4. CASE \E err : FailAllInflight(err, transport)
            BY <1>t, <3>4, FailQueuedSettles DEF FailAllInflight, NoLeak, StaySettled
        <3> QED BY <3>2, <3>3, <3>4
    <2>4. CASE PumpMarks
        <3>1. \A q \in Sessions : sessionRefs[q] > 0 => sessionRefs'[q] > 0
            BY <2>4 DEF PumpMarks, PumpOK, TypeOK
        <3>2. UNCHANGED <<transport, currentSession>>
            BY <2>4 DEF PumpMarks
        <3> QED BY <3>1, <3>2 DEF NoLeak, StaySettled, Settled
    <2>5. CASE PumpAppends
        <3>1. StaySettled(transport, transport')
            BY <1>t, <2>5 DEF PumpAppends, PumpOK, Transports, StaySettled, Settled
        <3> QED BY <1>k, <2>5, <3>1 DEF PumpAppends
    <2>6. CASE PumpWrites
        BY <1>u, <2>6 DEF PumpWrites, WriteAccepted, WriteFails
    <2>7. CASE PumpClaims
        <3>1. pumpSession \in Sessions /\ ClaimFailure(pumpSession) /\ UNCHANGED sessionRefs
            BY <2>7 DEF PumpClaims, PumpOK
        <3>2. CASE closed
            BY <1>u, <3>1, <3>2 DEF ClaimFailure, OwnsFailure
        <3>3. CASE ~closed
            <4>1. /\ transport' = ClosedIfUnused(pumpSession)
                  /\ currentSession' = currentSession \/ currentSession = pumpSession
                BY <3>1, <3>3 DEF ClaimFailure, OwnsFailure
            <4> QED BY <3>1, <4>1, DroppedSettles
        <3> QED BY <3>2, <3>3
    <2>8. CASE PumpResolves
        BY <2>8, ResolveSettles DEF PumpResolves
    <2>9. CASE PumpTimeouts
        <3>1. CASE currentSession # NoSession /\ pump' = "resolve"
            <4>1. /\ transport' = ClosedIfUnused(currentSession)
                  /\ UNCHANGED sessionRefs /\ currentSession \in Sessions
                BY <2>9, <3>1 DEF PumpTimeouts, EndIteration, TypeOK
            <4> QED BY <4>1, DroppedSettles
        <3>2. CASE ~(currentSession # NoSession /\ pump' = "resolve")
            BY <1>u, <2>9, <3>2 DEF PumpTimeouts, EndIteration
        <3> QED BY <3>1, <3>2
    <2>10. CASE PumpWakes \/ PumpProcess \/ PumpKeepsSession \/ PumpSubmits \/ PumpDoneSending
        BY <1>u, <2>10 DEF PumpWakes, PumpProcess, PumpKeepsSession, PumpSubmits, PumpDoneSending
    <2> QED BY <1>2, <2>1, <2>2, <2>3, <2>4, <2>5, <2>6, <2>7, <2>8, <2>9, <2>10 DEF Pump
<1>3. ASSUME NEW s \in Sessions, Reader(s)
      PROVE  NoLeak' /\ StaySettled(transport, transport')
    <2>t. transport[s] \in Transports
        BY <1>t
    <2>1. CASE ReaderTakesAck(s)
        <3> DEFINE t == [transport EXCEPT ![s].acksCh = Tail(@)]
        <3>1. transport[s].acksCh \in Seq(Acks) /\ transport[s].acksCh # <<>>
            BY <2>t, <2>1 DEF ReaderTakesAck, TakeAck, Transports
        <3>2. Tail(transport[s].acksCh) \in Seq(Acks)
            BY <3>1
        <3>3. t \in [Sessions -> Transports]
            <4>1. [transport[s] EXCEPT !.acksCh = Tail(@)] \in Transports
                BY <2>t, <3>2 DEF Transports
            <4>2. t = [transport EXCEPT ![s] = [transport[s] EXCEPT !.acksCh = Tail(@)]]
                OBVIOUS
            <4> QED BY <1>t, <4>1, <4>2
        <3>4. StaySettled(transport, t)
            BY <1>t, <2>t DEF Transports, StaySettled, Settled
        <3>5. HandleAck(s, Head(transport[s].acksCh), t) /\ UNCHANGED currentSession
            BY <2>1 DEF ReaderTakesAck, TakeAck
        <3> HIDE DEF t
        <3> QED BY <3>3, <3>4, <3>5, HandleAckSettles
    <2>2. CASE ReaderWeighsAdvice(s)
        <3>1. StaySettled(transport, transport')
            <4>1. \/ transport' = [transport EXCEPT ![s].requestWriter = "nil"]
                  \/ transport' = [transport EXCEPT ![s].reconnectDeclined = TRUE]
                BY <2>2 DEF ReaderWeighsAdvice, HalfClosed
            <4>2. CASE transport' = [transport EXCEPT ![s].requestWriter = "nil"]
                BY <1>t, <2>t, <4>2 DEF Transports, StaySettled, Settled
            <4>3. CASE transport' = [transport EXCEPT ![s].reconnectDeclined = TRUE]
                BY <1>t, <2>t, <4>3 DEF Transports, StaySettled, Settled
            <4> QED BY <4>1, <4>2, <4>3
        <3> QED BY <1>k, <2>2, <3>1 DEF ReaderWeighsAdvice
    <2>3. CASE ReaderTakesError(s)
        <3>1. StaySettled(transport, transport')
            BY <1>t, <2>t, <2>3 DEF ReaderTakesError, Transports, StaySettled, Settled
        <3> QED BY <1>k, <2>3, <3>1 DEF ReaderTakesError
    <2>4. CASE ReaderClaims(s)
        <3>1. ClaimFailure(s) /\ UNCHANGED sessionRefs
            BY <2>4 DEF ReaderClaims
        <3>2. CASE closed
            BY <1>u, <3>1, <3>2 DEF ClaimFailure, OwnsFailure
        <3>3. CASE ~closed
            <4>1. /\ transport' = ClosedIfUnused(s)
                  /\ currentSession' = currentSession \/ currentSession = s
                BY <3>1, <3>3 DEF ClaimFailure, OwnsFailure
            <4> QED BY <3>1, <4>1, DroppedSettles
        <3> QED BY <3>2, <3>3
    <2>5. CASE ReaderResolves(s)
        BY <2>5, ResolveSettles DEF ReaderResolves
    <2>6. CASE ReaderFollowsAdvice(s)
        <3>1. \/ UNCHANGED <<transport, currentSession>>
              \/ /\ transport' = ClosedIfUnused(s)
                 /\ currentSession' = currentSession \/ currentSession = s
            BY <2>6 DEF ReaderFollowsAdvice
        <3>2. UNCHANGED sessionRefs
            BY <2>6 DEF ReaderFollowsAdvice
        <3> QED BY <1>u, <3>1, <3>2, DroppedSettles
    <2>7. CASE ReaderDrained(s) \/ ReaderSeesEnd(s) \/ ReaderCancelled(s)
        BY <1>u, <2>7 DEF ReaderDrained, ReaderSeesEnd, ReaderCancelled
    <2> QED BY <1>3, <2>1, <2>2, <2>3, <2>4, <2>5, <2>6, <2>7 DEF Reader
<1>4. CASE \E s \in Sessions : TransportNext(s) /\ UNCHANGED SessionVars
    BY <1>t, <1>k, <1>4, TransportSettles DEF SessionVars
<1>5. CASE CloseCleansUp
    BY <1>t, <1>5, FailQueuedSettles DEF CloseCleansUp, NoLeak, StaySettled
<1>6. CASE CloseStarts \/ CloseDrained \/ CloseReturns \/ Cancel \/ RetryDue \/ RequestTimeout
    BY <1>u, <1>6 DEF CloseStarts, CloseDrained, CloseReturns, Cancel, RetryDue, RequestTimeout
<1>7. CASE UNCHANGED <<vars, setup>>
    BY <1>u, <1>7 DEF vars
<1> QED BY <1>1, <1>2, <1>3, <1>4, <1>5, <1>6, <1>7 DEF Next, Step, Closer

(* Once Close has cleaned up, nothing starts again. *)
CloseOK ==
    /\ closer \in {"waitReaders", "done"} =>
          /\ pump = "exited" /\ inflightQueue = <<>>
          /\ \A s \in Sessions : Settled(transport, s)
    /\ closer = "done" => \A s \in Sessions : reader[s] \in {"off", "done"}

(* A pump that has exited takes no step. *)
LEMMA PumpStays == pump = "exited" => ~Pump
BY DEF Pump, PumpWakes, PumpCancelled, PumpProcess, PumpKeepsSession, PumpOpensSession,
       PumpStartFails, PumpSubmits, PumpMarks, PumpDoneSending, PumpAppends, PumpWrites,
       PumpClaims, PumpResolves, PumpTimeouts

(* Neither does a reader that was not started or is done. *)
LEMMA ReaderStays ==
    ASSUME NEW s \in Sessions, reader[s] \in {"off", "done"}
    PROVE  ~Reader(s)
BY DEF Reader, ReaderTakesAck, ReaderWeighsAdvice, ReaderTakesError, ReaderDrained,
       ReaderClaims, ReaderResolves, ReaderSeesEnd, ReaderFollowsAdvice, ReaderCancelled

(* Every step keeps what Close has established so far. *)
LEMMA CloseStep ==
    ASSUME TypeOK, PumpOK, ClosingOK, NoLeak, CloseOK, [Next]_<<vars, setup>>
    PROVE  CloseOK'
<1> USE DEF pumpVars, readerVars
<1>1. CASE closer' \notin {"waitReaders", "done"}
    BY <1>1 DEF CloseOK
<1>2. CASE CloseCleansUp
    <2>1. \A s \in Sessions : Settled(transport', s)
        <3>1. transport \in [Sessions -> Transports] /\ StaySettled(transport, transport)
            BY DEF TypeOK, TransportTypeOK, StaySettled
        <3> QED BY <1>2, <3>1, FailQueuedSettles DEF CloseCleansUp
    <2>2. pump' = "exited" /\ inflightQueue' = <<>> /\ closer' = "waitReaders"
        BY <1>2 DEF CloseCleansUp, FailQueued
    <2> QED BY <2>1, <2>2 DEF CloseOK, Settled
<1>3. CASE closer' \in {"waitReaders", "done"} /\ ~CloseCleansUp
    <2>1. closer \in {"waitReaders", "done"}
        BY <1>3, CloserMoves DEF CloseStarts, Closer, CloseDrained, CloseReturns
    <2>2. /\ pump = "exited" /\ inflightQueue = <<>> /\ closing /\ ~Pump
          /\ \A s \in Sessions : Settled(transport, s)
        BY <2>1, PumpStays DEF CloseOK, ClosingOK
    <2>3. inflightQueue' = <<>>
        <3>1. ASSUME NEW b \in Batches, Submitter(b) PROVE UNCHANGED inflightQueue
            BY <2>2, <3>1 DEF Submitter, Submit, Reserve, Enqueue, queueVars
        <3>2. ~PumpMarks
            BY <2>2 DEF PumpMarks
        <3> QED BY <2>2, <3>1, <3>2, QueueSteps DEF LeavesQueue, FailsAll, Completes
    <2>4. \A s \in Sessions : Settled(transport', s)
        BY <2>2, LeakStep DEF Pump, StaySettled
    <2>5. pump' = "exited"
        <3>1. ASSUME NEW s \in Sessions, Reader(s) PROVE UNCHANGED pump
            BY <3>1 DEF Reader, ReaderTakesAck, TakeAck, ReaderWeighsAdvice, ReaderTakesError,
                   ReaderDrained, ReaderClaims, ReaderResolves, ReaderSeesEnd,
                   ReaderFollowsAdvice, ReaderCancelled
        <3>2. ASSUME NEW b \in Batches, Submitter(b) PROVE UNCHANGED pump
            BY <3>2 DEF Submitter, Submit, Reserve, Enqueue
        <3>3. ASSUME CloseStarts \/ Closer \/ Cancel \/ RetryDue \/ RequestTimeout
              PROVE  UNCHANGED pump
            BY <3>3 DEF CloseStarts, Closer, CloseDrained, CloseCleansUp, CloseReturns, Cancel,
                   RetryDue, RequestTimeout
        <3> QED BY <2>2, <3>1, <3>2, <3>3 DEF Next, Step, SessionVars, vars
    <2>6. ASSUME closer' = "done" PROVE \A s \in Sessions : reader'[s] \in {"off", "done"}
        <3>1. \A s \in Sessions : reader[s] \in {"off", "done"}
            <4>1. CASE closer = "done"
                BY <4>1 DEF CloseOK
            <4>2. CASE closer # "done"
                BY <2>1, <2>6, <4>2, CloserMoves
                   DEF CloseStarts, Closer, CloseDrained, CloseCleansUp, CloseReturns
            <4> QED BY <4>1, <4>2
        <3>2. UNCHANGED reader
            <4>1. ASSUME NEW b \in Batches, Submitter(b) PROVE UNCHANGED reader
                BY <4>1 DEF Submitter, Submit, Reserve, Enqueue
            <4>2. ASSUME CloseStarts \/ Closer \/ Cancel \/ RetryDue \/ RequestTimeout
                  PROVE  UNCHANGED reader
                BY <4>2 DEF CloseStarts, Closer, CloseDrained, CloseCleansUp, CloseReturns,
                       Cancel, RetryDue, RequestTimeout
            <4>3. ~\E s \in Sessions : Reader(s)
                BY <3>1, ReaderStays
            <4> QED BY <2>2, <4>1, <4>2, <4>3 DEF Next, Step, SessionVars, vars
        <3> QED BY <3>1, <3>2
    <2> QED BY <2>3, <2>4, <2>5, <2>6 DEF CloseOK, Settled
<1> QED BY <1>1, <1>2, <1>3

(* The inductive invariant behind a clean Close. *)
CloseInv == AccountsInv /\ NoLeak /\ CloseOK

(* CloseInv is inductive, hence holds in every reachable state. *)
LEMMA CloseInvariant == Spec => []CloseInv
<1>1. Init => CloseInv
    <2> SUFFICES ASSUME Init PROVE CloseInv
        OBVIOUS
    <2>1. NoLeak
        BY DEF Init, TransportInit, NoTransport, NoLeak, Settled
    <2>2. CloseOK
        BY DEF Init, CloseOK
    <2> QED BY <2>1, <2>2, AccountsInvInit DEF CloseInv
<1>2. ASSUME CloseInv, AccountsInv', [Next]_<<vars, setup>>
      PROVE  CloseInv'
    <2>1. NoLeak' /\ CloseOK'
        BY <1>2, LeakStep, CloseStep DEF CloseInv, AccountsInv, TypeInv
    <2> QED BY <1>2, <2>1 DEF CloseInv
<1> QED BY <1>1, <1>2, AccountsInvariant, PTL DEF Spec

(***************************************************************************)
(* When Close has returned, every accepted batch has its outcome, no       *)
(* capacity is held but by Submit calls about to be refused, the pump and  *)
(* all readers are gone, and every connection was closed or has ended,     *)
(* whatever failures, reconnects and cancellations went before.            *)
(***************************************************************************)
THEOREM CloseIsClean == Spec => []CleanAfterClose
<1>1. CloseInv => CleanAfterClose
    <2> SUFFICES ASSUME CloseInv, closer = "done" PROVE CleanAfterClose
        BY DEF CleanAfterClose
    <2>1. /\ pump = "exited" /\ inflightQueue = <<>>
          /\ \A s \in Sessions : Settled(transport, s)
          /\ \A s \in Sessions : reader[s] \in {"off", "done"}
        BY DEF CloseInv, CloseOK
    <2>2. Queued = {}
        BY <2>1 DEF Queued
    <2>3. QueueOK
        BY DEF CloseInv, AccountsInv
    <2>4. \A s \in Created : transport[s].closed \/ transport[s].conn = "ended"
        BY <2>1 DEF Created, Settled
    <2> QED BY <2>1, <2>2, <2>3, <2>4 DEF CleanAfterClose, QueueOK, CapacityHeld
<1> QED BY <1>1, CloseInvariant, PTL

-----------------------------------------------------------------------------
(***************************************************************************)
(* Acknowledgements.                                                       *)
(*                                                                         *)
(* What the session knows of the stream it learns from acknowledgements    *)
(* that several connections may still be carrying when a batch is sent     *)
(* again.  The line of a connection is what is under way on it: the frames *)
(* its server has still to apply (Inbox) and the acknowledgements nobody   *)
(* has handled yet (Way).                                                  *)
(***************************************************************************)
Inbox(s) == server[s].inbox
Up(s) == server[s].end = "up"
Open(s) == transport[s].requestWriter = "open"

(* b is under way on s: in the inbox, or its acknowledgement is unhandled. *)
AckOn(s, b) == \E i \in DOMAIN Way(s) : Way(s)[i].of = b
OnWay(s, b) == AckOn(s, b) \/ \E i \in DOMAIN Inbox(s) : Inbox(s)[i] = b

(* The pump is in the loop of submitInflightBatches; it has recorded b as  *)
(* sent on s and is about to write it.                                     *)
Looping == pump \in {"mark", "append", "write"}
Writing(b, s) == pump \in {"append", "write"} /\ pumpSession = s /\ b = Head(pumpTodo)

(* Acknowledgements are of batches in the stream, at positions that exist, *)
(* and those of one connection are in the order of the stream.             *)
AcksTrue ==
    /\ \A s \in Sessions : \A i \in DOMAIN Way(s) :
          applied[Way(s)[i].of] >= 1 /\ Way(s)[i].end <= tail
    /\ lastAckedEnd <= tail
    /\ \A s \in Sessions : \A i, j \in DOMAIN Way(s) : i < j => Way(s)[i].end < Way(s)[j].end

(* A ticket was resolved by the acknowledgement of a batch in the stream   *)
(* of as many records, which is all that validateAckLocked compares, and   *)
(* not beyond the last acknowledged position.                              *)
AckedTrue ==
    \A b \in Batches : result[b] = "acked" =>
        /\ ackedBy[b] \in Acks /\ applied[ackedBy[b].of] >= 1
        /\ Count[ackedBy[b].of] = Count[b] /\ ackedBy[b].end <= lastAckedEnd

(* After a failure the session is closing and its queue stays empty. *)
FailedEnds == (\E b \in Batches : result[b] \in Failures) => inflightQueue = <<>> /\ closing

(* A closed connection takes no frame; one that was not opened has carried *)
(* nothing and no batch is recorded as sent on it; the current one and the *)
(* one the pump sends on were opened.                                      *)
Shut == \A q \in Sessions : transport[q].closed => ~ Open(q)
Blank(q) == Way(q) = <<>> /\ Inbox(q) = <<>> /\ Up(q)
ConnOK ==
    /\ Shut
    /\ \A s \in Sessions : transport[s].conn = "none" =>
            Blank(s) /\ \A b \in Batches : s \notin entry[b].sentOn
    /\ currentSession # NoSession => transport[currentSession].conn # "none"
    /\ Looping => transport[pumpSession].conn # "none"

(* What is under way was enqueued and, while it is queued, is recorded as  *)
(* sent on that connection.                                                *)
SentOK ==
    \A s \in Sessions : \A b \in Batches : OnWay(s, b) =>
        sub[b] = "enqueued" /\ (b \in Queued => s \in entry[b].sentOn)

(* The pump's snapshot is in the order of the queue: whatever is before an *)
(* entry it has still to send was sent on this connection or comes first.  *)
LoopOK ==
    /\ Looping =>
        \A i \in DOMAIN pumpTodo : \A b \in Batches : Prec(b, pumpTodo[i]) =>
              pumpSession \in entry[b].sentOn \/ \E j \in DOMAIN pumpTodo : j < i /\ pumpTodo[j] = b
    /\ pump \in {"append", "write"} => (Head(pumpTodo) \in Queued => pumpSession \in entry[Head(pumpTodo)].sentOn)

(* No two acknowledgements are of the same batch, and an acknowledged      *)
(* batch was resolved by its own.                                          *)
UniqueOK ==
    /\ \A s, q \in Sessions : \A i \in DOMAIN Way(s), j \in DOMAIN Way(q) :
          Way(s)[i].of = Way(q)[j].of => s = q /\ i = j
    /\ \A b \in Batches : result[b] = "acked" => ackedBy[b].of = b /\ \A s \in Sessions : ~ AckOn(s, b)

(* While a connection works, the queued batches recorded as sent on it are *)
(* under way, or about to be written.                                      *)
DeliveredOK ==
    \A s \in Sessions : Up(s) /\ Open(s) =>
        \A b \in SentOn(s) : Writing(b, s) \/ OnWay(s, b)

(* What is under way on a connection is in the order of the queue, without *)
(* gaps.                                                                   *)
OrderOK ==
    \A s \in Sessions :
       /\ \A j \in DOMAIN Way(s) : \A b \in Batches : Prec(b, Way(s)[j].of) =>
             \E i \in DOMAIN Way(s) : i < j /\ Way(s)[i].of = b
       /\ Up(s) => \A j \in DOMAIN Inbox(s) : \A b \in Batches : Prec(b, Inbox(s)[j]) =>
             AckOn(s, b) \/ \E i \in DOMAIN Inbox(s) : i < j /\ Inbox(s)[i] = b

(* The acknowledgement of a queued batch is never taken for an old one. *)
AheadOK ==
    \A s \in Sessions : \A i \in DOMAIN Way(s) : Way(s)[i].of \in Queued => Way(s)[i].end > lastAckedEnd

(* All of it holds until a batch is applied twice. *)
ExactOK == NoneTwice => UniqueOK /\ DeliveredOK /\ OrderOK /\ AheadOK

-----------------------------------------------------------------------------
(* Receiving an acknowledgement moves it along the way. *)
LEMMA WayReceives ==
    ASSUME NEW S, NEW a \in Seq(S), NEW r \in Seq(S), r # <<>>
    PROVE  Append(a, Head(r)) \o Tail(r) = a \o r
<1> DEFINE n == Len(a)
           m == Len(r)
           u == Append(a, Head(r)) \o Tail(r)
           v == a \o r
<1>1. n \in Nat /\ m \in Nat /\ m > 0
    OBVIOUS
<1>2. Append(a, Head(r)) \in Seq(S) /\ Tail(r) \in Seq(S) /\ Len(Append(a, Head(r))) = n + 1 /\ Len(Tail(r)) = m - 1
    OBVIOUS
<1>3. u \in Seq(S) /\ v \in Seq(S) /\ Len(u) = n + m /\ Len(v) = n + m
    BY <1>1, <1>2
<1>4. ASSUME NEW i \in 1 .. n + m
      PROVE  u[i] = v[i]
    <2>1. CASE i <= n
        BY <1>1, <1>2, <2>1
    <2>2. CASE i = n + 1
        BY <1>1, <1>2, <2>2
    <2>3. CASE i > n + 1
        <3>1. u[i] = Tail(r)[i - (n + 1)]
            BY <1>1, <1>2, <2>3
        <3>2. Tail(r)[i - (n + 1)] = r[i - n]
            BY <1>1, <2>3
        <3> QED BY <1>1, <2>3, <3>1, <3>2
    <2> QED BY <1>1, <2>1, <2>2, <2>3
<1> QED BY <1>3, <1>4

(* Taking the oldest one. *)
LEMMA WayTaken ==
    ASSUME NEW S, NEW a \in Seq(S), NEW r \in Seq(S), a # <<>>
    PROVE  Tail(a) \o r = Tail(a \o r) /\ a \o r # <<>> /\ Head(a) = (a \o r)[1]
<1> DEFINE n == Len(a)
           m == Len(r)
           u == Tail(a) \o r
           v == Tail(a \o r)
<1>1. n \in Nat /\ m \in Nat /\ n > 0
    OBVIOUS
<1>2. Tail(a) \in Seq(S) /\ Len(Tail(a)) = n - 1 /\ a \o r \in Seq(S) /\ Len(a \o r) = n + m /\ a \o r # <<>>
    BY <1>1
<1>3. u \in Seq(S) /\ v \in Seq(S) /\ Len(u) = n + m - 1 /\ Len(v) = n + m - 1
    BY <1>1, <1>2
<1>4. ASSUME NEW i \in 1 .. n + m - 1
      PROVE  u[i] = v[i]
    <2>0. v[i] = (a \o r)[i + 1]
        BY <1>1, <1>2
    <2>1. CASE i <= n - 1
        BY <1>1, <1>2, <2>0, <2>1
    <2>2. CASE i > n - 1
        BY <1>1, <1>2, <2>0, <2>2
    <2> QED BY <1>1, <2>1, <2>2
<1>5. (a \o r)[1] = Head(a)
    BY <1>1
<1> QED BY <1>2, <1>3, <1>4, <1>5

(* A new one at its end. *)
LEMMA WayGrows ==
    ASSUME NEW S, NEW a \in Seq(S), NEW r \in Seq(S), NEW x \in S
    PROVE  a \o Append(r, x) = Append(a \o r, x)
<1> DEFINE n == Len(a)
           m == Len(r)
           u == a \o Append(r, x)
           v == Append(a \o r, x)
<1>1. n \in Nat /\ m \in Nat
    OBVIOUS
<1>2. Append(r, x) \in Seq(S) /\ Len(Append(r, x)) = m + 1 /\ a \o r \in Seq(S) /\ Len(a \o r) = n + m
    BY <1>1
<1>3. u \in Seq(S) /\ v \in Seq(S) /\ Len(u) = n + m + 1 /\ Len(v) = n + m + 1
    BY <1>1, <1>2
<1>4. ASSUME NEW i \in 1 .. n + m + 1
      PROVE  u[i] = v[i]
    BY <1>1, <1>2
<1> QED BY <1>3, <1>4

(* What is left when the answers not yet received are lost. *)
LEMMA WayCut ==
    ASSUME NEW S, NEW a \in Seq(S), NEW r \in Seq(S)
    PROVE  a \o <<>> = a /\ \A i \in DOMAIN a : i \in DOMAIN (a \o r) /\ (a \o r)[i] = a[i]
OBVIOUS

-----------------------------------------------------------------------------
(* A step of a goroutine closes connections, ends their input, or takes an *)
(* error; it leaves the rest of a connection alone.                        *)
QuietConn(u, v) ==
    /\ v.acksCh = u.acksCh /\ v.conn = u.conn
    /\ v.terminalErr = u.terminalErr /\ v.chansClosed = u.chansClosed
    /\ v.errorsCh \in {u.errorsCh, NoError}
    /\ v.requestWriter \in {u.requestWriter, "nil"}
    /\ v.closed => u.closed \/ v.requestWriter = "nil"
QuietConns(t, u) == \A s \in Sessions : QuietConn(t[s], u[s])
ConnQuiet == QuietConns(transport, transport') /\ UNCHANGED <<server, applied, tail>>

(* Closing connections is quiet and leaves the counters alone. *)
LEMMA ClosedIsQuiet ==
    ASSUME NEW t \in [Sessions -> Transports], NEW S
    PROVE  /\ QuietConns(t, ClosedSessions(t, S))
           /\ \A s \in Sessions : /\ ClosedSessions(t, S)[s].pendingWrites = t[s].pendingWrites
                                  /\ ClosedSessions(t, S)[s].errorsCh = t[s].errorsCh
<1> SUFFICES ASSUME NEW s \in Sessions
             PROVE  /\ QuietConn(t[s], ClosedSessions(t, S)[s])
                    /\ ClosedSessions(t, S)[s].pendingWrites = t[s].pendingWrites
                    /\ ClosedSessions(t, S)[s].errorsCh = t[s].errorsCh
    BY DEF QuietConns
<1>1. t[s] \in Transports
    OBVIOUS
<1>2. ClosedSessions(t, S)[s] = IF s \in S THEN [t[s] EXCEPT !.closed = TRUE, !.requestWriter = "nil"] ELSE t[s]
    BY DEF ClosedSessions
<1>3. CASE s \in S
    <2>1. ClosedSessions(t, S)[s] = [t[s] EXCEPT !.closed = TRUE, !.requestWriter = "nil"]
        BY <1>2, <1>3
    <2> HIDE <1>2
    <2> QED BY <1>1, <2>1 DEF QuietConn, Transports
<1>4. CASE s \notin S
    BY <1>1, <1>2, <1>4 DEF QuietConn, Transports
<1> QED BY <1>3, <1>4

(* Quiet changes in a row are quiet. *)
LEMMA QuietTwice ==
    ASSUME NEW t, NEW u, NEW v, QuietConns(t, u), QuietConns(u, v)
    PROVE  QuietConns(t, v)
<1> SUFFICES ASSUME NEW s \in Sessions PROVE QuietConn(t[s], v[s])
    BY DEF QuietConns
<1>1. QuietConn(t[s], u[s]) /\ QuietConn(u[s], v[s])
    BY DEF QuietConns
<1> QED BY <1>1 DEF QuietConn

(* So is no change. *)
LEMMA QuietNever == \A t : QuietConns(t, t)
BY DEF QuietConns, QuietConn

(* Counting writes is quiet. *)
LEMMA CountIsQuiet ==
    ASSUME NEW t \in [Sessions -> Transports], NEW s \in Sessions, NEW n,
           NEW u, u = [t EXCEPT ![s].pendingWrites = n]
    PROVE  /\ QuietConns(t, u) /\ u[s].pendingWrites = n
           /\ \A q \in Sessions : /\ u[q].errorsCh = t[q].errorsCh
                                  /\ q # s => u[q].pendingWrites = t[q].pendingWrites
<1>1. u[s] = [t[s] EXCEPT !.pendingWrites = n] /\ t[s] \in Transports
    OBVIOUS
<1>2. \A q \in Sessions : q # s => u[q] = t[q]
    OBVIOUS
<1>3. QuietConn(t[s], u[s]) /\ u[s].pendingWrites = n /\ u[s].errorsCh = t[s].errorsCh
    BY <1>1 DEF QuietConn, Transports
<1>4. \A q \in Sessions : q # s => QuietConn(t[q], u[q])
    BY <1>2 DEF QuietConn
<1> QED BY <1>2, <1>3, <1>4 DEF QuietConns

(* failAllInflight and closing what nobody uses are quiet. *)
LEMMA FailingIsQuiet ==
    ASSUME NEW t \in [Sessions -> Transports], NEW outcome, FailQueued(outcome, t)
    PROVE  /\ QuietConns(t, transport')
           /\ \A s \in Sessions : /\ transport'[s].pendingWrites = t[s].pendingWrites
                                  /\ transport'[s].errorsCh = t[s].errorsCh
BY ClosedIsQuiet DEF FailQueued, AllClosed

(* The claim and the resolution of a failure are quiet. *)
LEMMA ClaimIsQuiet ==
    ASSUME transport \in [Sessions -> Transports], NEW s \in Sessions,
           ClaimFailure(s) \/ transport' = ClosedIfUnused(s)
    PROVE  /\ QuietConns(transport, transport')
           /\ \A q \in Sessions : /\ transport'[q].pendingWrites = transport[q].pendingWrites
                                  /\ transport'[q].errorsCh = transport[q].errorsCh
<1>1. transport' = transport \/ \E S : transport' = ClosedSessions(transport, S)
    BY DEF ClaimFailure, ClosedIfUnused
<1> QED BY <1>1, ClosedIsQuiet, QuietNever

(* So is the resolution of a claimed failure. *)
LEMMA ResolveIsQuiet ==
    ASSUME transport \in [Sessions -> Transports], NEW s, NEW err, ResolveFailure(s, err)
    PROVE  /\ QuietConns(transport, transport')
           /\ \A q \in Sessions : /\ transport'[q].pendingWrites = transport[q].pendingWrites
                                  /\ transport'[q].errorsCh = transport[q].errorsCh
<1>1. CASE KeepInflight(transport)
    BY <1>1, QuietNever DEF KeepInflight
<1>2. CASE FailAllInflight(err, transport)
    BY <1>2, FailingIsQuiet DEF FailAllInflight
<1> QED BY <1>1, <1>2 DEF ResolveFailure

(* What a step that is neither of the transport nor one of those below     *)
(* does to the connections.                                                *)
Untouched ==
    /\ ConnQuiet
    /\ \A s \in Sessions : transport'[s].pendingWrites = transport[s].pendingWrites

PumpSends == PumpWrites /\ WriteAccepted(pumpSession, Head(pumpTodo))

(* A write that fails touches no connection, nor do an early return of     *)
(* appendInput and the other steps of the pump, unless it opens one.       *)
LEMMA PumpConns ==
    ASSUME TypeOK, PumpOK, Pump
    PROVE  Untouched \/ PumpAppends \/ PumpOpensSession \/ PumpSends
<1>0. transport \in [Sessions -> Transports]
    BY DEF TypeOK, TransportTypeOK
<1>a. ASSUME UNCHANGED <<transport, server, applied, tail>>
      PROVE  Untouched
    BY <1>a, QuietNever DEF Untouched, ConnQuiet
<1>1. CASE PumpWakes \/ PumpProcess \/ PumpKeepsSession \/ PumpSubmits \/ PumpMarks \/ PumpDoneSending
    BY <1>1, <1>a DEF PumpWakes, PumpProcess, PumpKeepsSession, PumpSubmits, PumpMarks,
        PumpDoneSending, transportVars
<1>2. CASE PumpCancelled
    <2>1. FailAllInflight("uncertain", transport) /\ UNCHANGED remoteVars
        BY <1>2 DEF PumpCancelled
    <2> QED BY <1>0, <2>1, FailingIsQuiet DEF FailAllInflight, remoteVars, Untouched, ConnQuiet
<1>3. CASE PumpStartFails
    <2>1. UNCHANGED <<server, applied, tail>>
        BY <1>3 DEF PumpStartFails
    <2>2. KeepInflight(transport) \/ \E err : FailAllInflight(err, transport)
        BY <1>3 DEF PumpStartFails
    <2>3. CASE KeepInflight(transport)
        BY <2>1, <2>3, <1>a DEF KeepInflight
    <2>4. CASE \E err : FailAllInflight(err, transport)
        BY <1>0, <2>1, <2>4, FailingIsQuiet DEF FailAllInflight, Untouched, ConnQuiet
    <2> QED BY <2>2, <2>3, <2>4
<1>4. CASE PumpWrites
    <2>1. WriteAccepted(pumpSession, Head(pumpTodo)) \/ WriteFails(pumpSession)
        BY <1>4 DEF PumpWrites
    <2>2. CASE WriteFails(pumpSession)
        BY <2>2, <1>a DEF WriteFails, transportVars
    <2> QED BY <1>4, <2>1, <2>2 DEF PumpSends
<1>5. CASE PumpClaims
    <2>1. pumpSession \in Sessions /\ ClaimFailure(pumpSession) /\ UNCHANGED remoteVars
        BY <1>5 DEF PumpClaims, PumpOK
    <2> QED BY <1>0, <2>1, ClaimIsQuiet DEF remoteVars, Untouched, ConnQuiet
<1>6. CASE PumpResolves
    <2>1. ResolveFailure(pumpSession, pumpErr) /\ UNCHANGED remoteVars
        BY <1>6 DEF PumpResolves, ResolveFailure
    <2> QED BY <1>0, <2>1, ResolveIsQuiet DEF remoteVars, Untouched, ConnQuiet
<1>7. CASE PumpTimeouts
    <2>1. UNCHANGED remoteVars
        BY <1>7 DEF PumpTimeouts
    <2>2. UNCHANGED transport \/ (currentSession # NoSession /\ transport' = ClosedIfUnused(currentSession))
        BY <1>7 DEF PumpTimeouts
    <2>3. currentSession \in Sessions \cup {NoSession}
        BY DEF TypeOK
    <2>4. CASE UNCHANGED transport
        BY <2>1, <2>4, <1>a DEF remoteVars
    <2>5. CASE currentSession \in Sessions /\ transport' = ClosedIfUnused(currentSession)
        BY <1>0, <2>1, <2>5, ClaimIsQuiet DEF remoteVars, Untouched, ConnQuiet
    <2> QED BY <2>2, <2>3, <2>4, <2>5
<1> QED BY <1>1, <1>2, <1>3, <1>4, <1>5, <1>6, <1>7 DEF Pump

(* A reader's step is quiet but for the acknowledgement it takes. *)
LEMMA ReaderConns ==
    ASSUME TypeOK, NEW s \in Sessions, Reader(s)
    PROVE  Untouched \/ ReaderTakesAck(s)
<1>0. transport \in [Sessions -> Transports]
    BY DEF TypeOK, TransportTypeOK
<1>a. ASSUME UNCHANGED <<transport, server, applied, tail>>
      PROVE  Untouched
    BY <1>a, QuietNever DEF Untouched, ConnQuiet
<1>1. CASE ReaderDrained(s) \/ ReaderSeesEnd(s) \/ ReaderCancelled(s)
    BY <1>1, <1>a DEF ReaderDrained, ReaderSeesEnd, ReaderCancelled, transportVars
<1>2. CASE ReaderWeighsAdvice(s)
    <2>1. UNCHANGED <<server, applied, tail>>
        BY <1>2 DEF ReaderWeighsAdvice, remoteVars
    <2>2. /\ \A q \in Sessions : q # s => transport'[q] = transport[q]
          /\ \/ transport'[s] = [transport[s] EXCEPT !.requestWriter = "nil"]
             \/ transport'[s] = [transport[s] EXCEPT !.reconnectDeclined = TRUE]
        BY <1>0, <1>2 DEF ReaderWeighsAdvice, HalfClosed
    <2>3. transport[s] \in Transports
        BY <1>0
    <2>4. QuietConn(transport[s], transport'[s]) /\ transport'[s].pendingWrites = transport[s].pendingWrites
        <3>1. CASE transport'[s] = [transport[s] EXCEPT !.requestWriter = "nil"]
            BY <2>3, <3>1 DEF QuietConn, Transports
        <3>2. CASE transport'[s] = [transport[s] EXCEPT !.reconnectDeclined = TRUE]
            BY <2>3, <3>2 DEF QuietConn, Transports
        <3> QED BY <2>2, <3>1, <3>2
    <2> QED BY <2>1, <2>2, <2>4 DEF Untouched, ConnQuiet, QuietConns, QuietConn
<1>3. CASE ReaderTakesError(s)
    <2>1. UNCHANGED <<server, applied, tail>> /\ transport' = [transport EXCEPT ![s].errorsCh = NoError]
        BY <1>3 DEF ReaderTakesError, remoteVars
    <2>2. transport[s] \in Transports
        BY <1>0
    <2>3. transport'[s] = [transport[s] EXCEPT !.errorsCh = NoError]
        BY <1>0, <2>1
    <2>4. QuietConn(transport[s], transport'[s]) /\ transport'[s].pendingWrites = transport[s].pendingWrites
        BY <2>2, <2>3 DEF QuietConn, Transports
    <2>5. \A q \in Sessions : q # s => transport'[q] = transport[q]
        BY <1>0, <2>1
    <2> QED BY <2>1, <2>4, <2>5 DEF Untouched, ConnQuiet, QuietConns, QuietConn
<1>4. CASE ReaderClaims(s)
    BY <1>0, <1>4, ClaimIsQuiet DEF ReaderClaims, remoteVars, Untouched, ConnQuiet
<1>5. CASE ReaderResolves(s)
    BY <1>0, <1>5, ResolveIsQuiet DEF ReaderResolves, ResolveFailure, remoteVars, Untouched, ConnQuiet
<1>6. CASE ReaderFollowsAdvice(s)
    <2>1. UNCHANGED remoteVars
        BY <1>6 DEF ReaderFollowsAdvice
    <2>2. UNCHANGED transport \/ transport' = ClosedIfUnused(s)
        BY <1>6 DEF ReaderFollowsAdvice
    <2>3. CASE UNCHANGED transport
        BY <2>1, <2>3, <1>a DEF remoteVars
    <2>4. CASE transport' = ClosedIfUnused(s)
        BY <1>0, <2>1, <2>4, ClaimIsQuiet DEF remoteVars, Untouched, ConnQuiet
    <2> QED BY <2>2, <2>3, <2>4
<1> QED BY <1>1, <1>2, <1>3, <1>4, <1>5, <1>6 DEF Reader

(* What a step does to the connections. *)
LEMMA ConnSteps ==
    ASSUME TypeOK, PumpOK, [Next]_<<vars, setup>>
    PROVE  \/ Untouched \/ PumpAppends \/ PumpOpensSession \/ PumpSends
           \/ \E s \in Sessions : ReaderTakesAck(s)
           \/ \E s \in Sessions : TransportNext(s) /\ UNCHANGED SessionVars
<1>0. transport \in [Sessions -> Transports]
    BY DEF TypeOK, TransportTypeOK
<1>a. ASSUME UNCHANGED <<transport, server, applied, tail>>
      PROVE  Untouched
    BY <1>a, QuietNever DEF Untouched, ConnQuiet
<1>1. ASSUME NEW b \in Batches, Submitter(b)
      PROVE  Untouched
    BY <1>1, <1>a DEF Submitter, Submit, Reserve, Enqueue, transportVars
<1>2. CASE CloseCleansUp
    BY <1>0, <1>2, FailingIsQuiet DEF CloseCleansUp, remoteVars, Untouched, ConnQuiet
<1>3. CASE CloseStarts \/ CloseDrained \/ CloseReturns \/ Cancel \/ RetryDue
    BY <1>3, <1>a DEF CloseStarts, CloseDrained, CloseReturns, Cancel, RetryDue, transportVars
<1>4. CASE RequestTimeout
    BY <1>4, <1>a DEF RequestTimeout
<1>5. CASE UNCHANGED <<vars, setup>>
    BY <1>5, <1>a DEF vars, transportVars
<1> QED BY <1>1, <1>2, <1>3, <1>4, <1>5, PumpConns, ReaderConns DEF Next, Step, Closer

-----------------------------------------------------------------------------
(* Who moves the pump and who the current session. *)
LEMMA PumpMoves ==
    ASSUME [Next]_<<vars, setup>>
    PROVE  Pump \/ UNCHANGED <<pump, pumpSession, pumpTodo, pumpErr>>
<1> USE DEF pumpVars
<1>1. ASSUME NEW a \in Batches, Submitter(a)
      PROVE  UNCHANGED <<pump, pumpSession, pumpTodo, pumpErr>>
    BY <1>1 DEF Submitter, Submit, Reserve, Enqueue
<1>2. ASSUME NEW s \in Sessions, Reader(s)
      PROVE  UNCHANGED <<pump, pumpSession, pumpTodo, pumpErr>>
    BY <1>2 DEF Reader, ReaderTakesAck, TakeAck, ReaderWeighsAdvice, ReaderTakesError,
           ReaderDrained, ReaderClaims, ReaderResolves, ReaderSeesEnd, ReaderFollowsAdvice,
           ReaderCancelled
<1>3. CASE \E s \in Sessions : TransportNext(s) /\ UNCHANGED SessionVars
    BY <1>3 DEF SessionVars
<1>4. CASE CloseStarts \/ Closer \/ Cancel \/ RetryDue \/ RequestTimeout
    BY <1>4 DEF CloseStarts, Closer, CloseDrained, CloseCleansUp, CloseReturns, Cancel,
           RetryDue, RequestTimeout
<1>5. CASE UNCHANGED <<vars, setup>>
    BY <1>5 DEF vars
<1> QED BY <1>1, <1>2, <1>3, <1>4, <1>5 DEF Next, Step

(* The loop of submitInflightBatches starts with a snapshot and goes on    *)
(* until a write fails or nothing is left to send.                         *)
LoopStarts ==
    /\ pump = "submit" /\ pump' = "mark" /\ currentSession # NoSession
    /\ pumpSession' = currentSession /\ pumpTodo' = inflightQueue

(* The pump gets into its loop, and goes round it, in these ways only. *)
LEMMA LoopMoves ==
    ASSUME TypeOK, PumpOK, [Next]_<<vars, setup>>, Looping'
    PROVE  \/ UNCHANGED <<pump, pumpSession, pumpTodo, pumpErr>>
           \/ LoopStarts
           \/ PumpMarks /\ pump' = "append" /\ pumpSession' = pumpSession
           \/ /\ PumpAppends /\ pump = "append" /\ pump' = "write" /\ ~ RejectsInput(pumpSession)
              /\ UNCHANGED <<pumpSession, pumpTodo>>
           \/ /\ PumpSends /\ pump = "write" /\ pump' = "mark"
              /\ pumpTodo' = Tail(pumpTodo) /\ pumpSession' = pumpSession
<1>1. CASE UNCHANGED <<pump, pumpSession, pumpTodo, pumpErr>>
    BY <1>1
<1>2. CASE Pump
    <2>1. CASE PumpWakes \/ PumpCancelled \/ PumpProcess \/ PumpKeepsSession \/ PumpOpensSession
               \/ PumpStartFails \/ PumpDoneSending \/ PumpClaims \/ PumpResolves \/ PumpTimeouts
        BY <2>1 DEF Looping, PumpWakes, PumpCancelled, PumpProcess, PumpKeepsSession,
            PumpOpensSession, PumpStartFails, PumpDoneSending, PumpClaims, PumpResolves,
            PumpTimeouts, EndIteration
    <2>2. CASE PumpSubmits
        BY <2>2 DEF Looping, PumpSubmits, HasOpenSession, LoopStarts
    <2>3. CASE PumpMarks
        BY <2>3 DEF PumpMarks
    <2>4. CASE PumpAppends
        BY <2>4 DEF Looping, PumpAppends
    <2>5. CASE PumpWrites
        <3>1. WriteAccepted(pumpSession, Head(pumpTodo))
            BY <2>5 DEF Looping, PumpWrites
        <3>2. pump = "write" /\ pumpSession' = pumpSession
            BY <2>5 DEF PumpWrites
        <3>3. pump' = "mark" /\ pumpTodo' = Tail(pumpTodo)
            BY <2>5 DEF Looping, PumpWrites
        <3> QED BY <2>5, <3>1, <3>2, <3>3 DEF PumpSends
    <2> QED BY <1>2, <2>1, <2>2, <2>3, <2>4, <2>5 DEF Pump
<1> QED BY <1>1, <1>2, PumpMoves

(* Only the pump makes a session current. *)
LEMMA CurrentMoves ==
    ASSUME [Next]_<<vars, setup>>
    PROVE  currentSession' \in {currentSession, NoSession} \/ PumpOpensSession
<1> USE DEF claimVars
<1>1. ASSUME NEW a \in Batches, Submitter(a)
      PROVE  currentSession' = currentSession
    BY <1>1 DEF Submitter, Submit, Reserve, Enqueue
<1>2. ASSUME NEW s \in Sessions, Reader(s)
      PROVE  currentSession' \in {currentSession, NoSession}
    BY <1>2 DEF Reader, ReaderTakesAck, TakeAck, ReaderWeighsAdvice, ReaderTakesError,
           ReaderDrained, ReaderClaims, ReaderResolves, ReaderSeesEnd, ReaderFollowsAdvice,
           ReaderCancelled, ClaimFailure, ResolveFailure
<1>3. CASE \E s \in Sessions : TransportNext(s) /\ UNCHANGED SessionVars
    BY <1>3 DEF SessionVars
<1>4. CASE CloseStarts \/ Closer \/ Cancel \/ RetryDue \/ RequestTimeout
    BY <1>4 DEF CloseStarts, Closer, CloseDrained, CloseCleansUp, CloseReturns, Cancel,
           RetryDue, RequestTimeout
<1>5. CASE UNCHANGED <<vars, setup>>
    BY <1>5 DEF vars
<1>6. CASE Pump
    BY <1>6 DEF Pump, PumpWakes, PumpCancelled, PumpProcess, PumpKeepsSession,
           PumpStartFails, PumpSubmits, PumpMarks, PumpDoneSending,
           PumpAppends, PumpWrites, PumpClaims, PumpResolves, PumpTimeouts,
           ResolveFailure, ClaimFailure
<1> QED BY <1>1, <1>2, <1>3, <1>4, <1>5, <1>6 DEF Next, Step

-----------------------------------------------------------------------------
(* What happens to the line of a connection: nothing; or its response ends *)
(* and the last of its way, or its inbox, is lost.                         *)
CutShort(s) ==
    /\ ~ Up(s)'
    /\ DOMAIN Way(s)' \subseteq DOMAIN Way(s)
    /\ \A i \in DOMAIN Way(s)' : Way(s)'[i] = Way(s)[i]
    /\ Inbox(s)' \in {Inbox(s), <<>>}
SameLine(s) == Way(s)' = Way(s) /\ Inbox(s)' = Inbox(s) /\ (Up(s)' <=> Up(s))
KeptConn(s) == (SameLine(s) \/ CutShort(s)) /\ (Open(s)' => Open(s))
LineKept == (\A s \in Sessions : KeptConn(s)) /\ UNCHANGED <<applied, tail>>

(* The server applies the oldest frame. *)
Applies(s) ==
    /\ Inbox(s) # <<>> /\ UNCHANGED transport
    /\ Condition(Head(Inbox(s))) \in {NoMatch, tail}
    /\ tail' = tail + Count[Head(Inbox(s))]
    /\ applied' = [applied EXCEPT ![Head(Inbox(s))] = @ + 1]
    /\ Inbox(s)' = Tail(Inbox(s)) /\ server'[s].end = server[s].end
    /\ Way(s)' = IF Up(s) THEN Append(Way(s), [of |-> Head(Inbox(s)), end |-> tail']) ELSE Way(s)
    /\ \A q \in Sessions : q # s => SameLine(q)

(* The types of the lines of a connection. *)
LEMMA LineTypes ==
    ASSUME TypeOK, NEW s \in Sessions
    PROVE  /\ Way(s) \in Seq(Acks) /\ Inbox(s) \in Seq(Batches)
           /\ transport[s] \in Transports /\ server[s] \in Servers
           /\ transport[s].acksCh \in Seq(Acks) /\ server[s].response \in Seq(Acks)
<1>1. transport[s] \in Transports /\ server[s] \in Servers
    BY DEF TypeOK, TransportTypeOK
<1>2. /\ transport[s].acksCh \in Seq(Acks) /\ server[s].response \in Seq(Acks)
      /\ server[s].inbox \in Seq(Batches)
    BY <1>1 DEF Transports, Servers
<1> QED BY <1>1, <1>2 DEF Way, Inbox

(* A quiet step keeps the lines. *)
LEMMA QuietKeepsLines ==
    ASSUME ConnQuiet
    PROVE  /\ LineKept /\ \A s \in Sessions : SameLine(s)
           /\ \A s \in Sessions : transport'[s].conn = transport[s].conn
           /\ (\A s \in Sessions : transport[s].closed => ~ Open(s))
                 => (\A s \in Sessions : transport[s].closed => ~ Open(s))'
<1>1. \A s \in Sessions : QuietConn(transport[s], transport'[s])
    BY DEF ConnQuiet, QuietConns
<1>2. UNCHANGED <<server, applied, tail>>
    BY DEF ConnQuiet
<1>3. \A s \in Sessions : SameLine(s) /\ (Open(s)' => Open(s)) /\ transport'[s].conn = transport[s].conn
    BY <1>1, <1>2 DEF QuietConn, SameLine, Way, Inbox, Up, Open
<1>4. \A s \in Sessions : transport'[s].closed => transport[s].closed \/ ~ Open(s)'
    BY <1>1 DEF QuietConn, Open
<1> QED BY <1>2, <1>3, <1>4 DEF LineKept, KeptConn

(* The steps of a connection keep the lines, unless a frame is applied. *)
LEMMA TransportLine ==
    ASSUME TypeOK, setup \in Setups, NEW s \in Sessions, TransportNext(s)
    PROVE  /\ LineKept \/ Applies(s)
           /\ \A q \in Sessions : transport'[q].conn # transport[q].conn => q = s /\ transport'[q].conn # "none"
           /\ (\A q \in Sessions : transport[q].closed => ~ Open(q))
                 => (\A q \in Sessions : transport[q].closed => ~ Open(q))'
           /\ transport[s].conn # "none" \/ Inbox(s) # <<>>
           /\ \A q \in Sessions : q # s => SameLine(q)
<1> DEFINE Settled2 == (\A q \in Sessions : transport[q].closed => ~ Open(q))
                       => (\A q \in Sessions : transport[q].closed => ~ Open(q))'
           Conns == \A q \in Sessions : transport'[q].conn # transport[q].conn => q = s /\ transport'[q].conn # "none"
           Live == transport[s].conn # "none" \/ Inbox(s) # <<>>
           Elsewhere == \A q \in Sessions : q # s => SameLine(q)
           Others == \A q \in Sessions : q # s => transport'[q] = transport[q] /\ server'[q] = server[q]
<1>0. /\ Way(s) \in Seq(Acks) /\ Inbox(s) \in Seq(Batches)
      /\ transport[s] \in Transports /\ server[s] \in Servers
      /\ transport[s].acksCh \in Seq(Acks) /\ server[s].response \in Seq(Acks)
      /\ transport \in [Sessions -> Transports] /\ server \in [Sessions -> Servers]
    BY LineTypes DEF TypeOK, TransportTypeOK
<1>a. ASSUME Others, KeptConn(s), UNCHANGED <<applied, tail>>
      PROVE  LineKept
    BY <1>a DEF LineKept, KeptConn, SameLine, Way, Inbox, Up, Open
<1>b. ASSUME Others, transport'[s].closed => (transport[s].closed /\ (Open(s)' => Open(s))) \/ ~ Open(s)'
      PROVE  Settled2
    BY <1>b DEF Open
<1>c. ASSUME Others, transport'[s].conn # "none" \/ transport'[s].conn = transport[s].conn
      PROVE  Conns
    BY <1>c
<1>d. ASSUME Others
      PROVE  Elsewhere
    BY <1>d DEF SameLine, Way, Inbox, Up
<1>1. CASE Connected(s)
    <2>1. /\ transport' = [transport EXCEPT ![s].conn = IF transport[s].closed THEN "ended" ELSE "open"]
          /\ UNCHANGED <<server, applied, tail>> /\ transport[s].conn = "connecting"
        BY <1>1 DEF Connected
    <2>2. Others
        BY <1>0, <2>1
    <2>3. transport'[s] = [transport[s] EXCEPT !.conn = IF transport[s].closed THEN "ended" ELSE "open"]
        BY <1>0, <2>1
    <2>4. /\ transport'[s].acksCh = transport[s].acksCh /\ transport'[s].requestWriter = transport[s].requestWriter
          /\ transport'[s].closed = transport[s].closed /\ transport'[s].conn # "none"
        BY <1>0, <2>3 DEF Transports
    <2>5. KeptConn(s)
        BY <2>1, <2>4 DEF KeptConn, SameLine, Way, Inbox, Up, Open
    <2> QED BY <2>1, <2>2, <2>4, <2>5, <1>a, <1>d, <1>b, <1>c DEF Open
<1>2. CASE ConnectFailed(s)
    <2> DEFINE r == Reporting(transport[s], server[s].end)
    <2>1. /\ transport' = [transport EXCEPT ![s] = RequestFailed(transport[s], server[s].end)]
          /\ UNCHANGED <<server, applied, tail>> /\ transport[s].conn = "connecting"
          /\ server[s].end \in Errors
        BY <1>2 DEF ConnectFailed
    <2>2. Others
        BY <1>0, <2>1
    <2>3. r \in Transports /\ r.closed = transport[s].closed /\ r.acksCh = transport[s].acksCh
          /\ r.requestWriter = transport[s].requestWriter
        <3>1. r \in Transports /\ r.closed = transport[s].closed
            BY <1>0, <2>1, ReportingFields
        <3> QED BY <1>0, <3>1 DEF Reporting, Transports
    <2>4. transport'[s] = [r EXCEPT !.conn = "ended",
                                    !.requestWriter = IF r.requestWriter = "nil" THEN "nil" ELSE "broken"]
        BY <1>0, <2>1 DEF RequestFailed
    <2> HIDE DEF r
    <2>5. /\ transport'[s].acksCh = transport[s].acksCh /\ transport'[s].closed = transport[s].closed
          /\ transport'[s].conn # "none" /\ transport'[s].requestWriter \in {"nil", "broken"}
        BY <2>3, <2>4 DEF Transports
    <2>6. KeptConn(s) /\ ~ Open(s)'
        BY <2>1, <2>5 DEF KeptConn, SameLine, Way, Inbox, Up, Open
    <2> QED BY <2>1, <2>2, <2>5, <2>6, <1>a, <1>d, <1>b, <1>c
<1>3. CASE ReceiveAck(s)
    <2> DEFINE x == Head(server[s].response)
    <2>1. /\ server' = [server EXCEPT ![s].response = Tail(@)] /\ UNCHANGED <<applied, tail>>
          /\ server[s].response # <<>> /\ transport[s].conn = "open"
        BY <1>3 DEF ReceiveAck
    <2>2. PICK advised \in BOOLEAN :
             transport' = [transport EXCEPT
                 ![s].acksCh = Append(transport[s].acksCh, x),
                 ![s].reconnectAdvised = transport[s].reconnectAdvised \/ advised]
        BY <1>0, <1>3 DEF ReceiveAck
    <2>3. Others
        BY <1>0, <2>1, <2>2
    <2>4. /\ transport'[s] = [transport[s] EXCEPT !.acksCh = Append(transport[s].acksCh, x),
                                                !.reconnectAdvised = transport[s].reconnectAdvised \/ advised]
          /\ server'[s] = [server[s] EXCEPT !.response = Tail(server[s].response)]
        BY <1>0, <2>1, <2>2
    <2>5. /\ transport'[s].acksCh = Append(transport[s].acksCh, x) /\ transport'[s].closed = transport[s].closed
          /\ transport'[s].conn = transport[s].conn /\ transport'[s].requestWriter = transport[s].requestWriter
          /\ server'[s].response = Tail(server[s].response) /\ server'[s].inbox = server[s].inbox
          /\ server'[s].end = server[s].end
        BY <1>0, <2>4 DEF Transports, Servers
    <2>6. Way(s)' = Way(s)
        <3>1. Append(transport[s].acksCh, x) \o Tail(server[s].response)
                 = transport[s].acksCh \o server[s].response
            BY <1>0, <2>1, WayReceives
        <3> QED BY <2>5, <3>1 DEF Way
    <2>7. KeptConn(s)
        BY <2>5, <2>6 DEF KeptConn, SameLine, Inbox, Up, Open
    <2> QED BY <2>1, <2>3, <2>5, <2>7, <1>a, <1>d, <1>b, <1>c DEF Open
<1>4. CASE ResponseEnds(s)
    <2>1. /\ UNCHANGED <<server, applied, tail>> /\ transport[s].conn = "open"
          /\ transport' = [transport EXCEPT ![s] =
                [IF server[s].end \in Errors /\ ~transport[s].closed
                 THEN Reporting(transport[s], server[s].end) ELSE transport[s] EXCEPT !.conn = "failing"]]
        BY <1>4 DEF ResponseEnds
    <2>2. Others
        BY <1>0, <2>1
    <2>3. PICK r \in Transports : /\ transport'[s] = [r EXCEPT !.conn = "failing"]
                                 /\ r.closed = transport[s].closed /\ r.acksCh = transport[s].acksCh
                                 /\ r.requestWriter = transport[s].requestWriter
        <3>1. CASE server[s].end \in Errors /\ ~transport[s].closed
            <4> DEFINE r == Reporting(transport[s], server[s].end)
            <4>1. transport'[s] = [r EXCEPT !.conn = "failing"]
                BY <1>0, <2>1, <3>1
            <4>2. r \in Transports /\ r.closed = transport[s].closed
                BY <1>0, <3>1, ReportingFields
            <4>3. r.acksCh = transport[s].acksCh /\ r.requestWriter = transport[s].requestWriter
                BY <1>0 DEF Reporting, Transports
            <4> HIDE DEF r
            <4> QED BY <4>1, <4>2, <4>3
        <3>2. CASE ~(server[s].end \in Errors /\ ~transport[s].closed)
            BY <1>0, <2>1, <3>2
        <3> QED BY <3>1, <3>2
    <2>4. /\ transport'[s].acksCh = transport[s].acksCh /\ transport'[s].closed = transport[s].closed
          /\ transport'[s].conn # "none" /\ transport'[s].requestWriter = transport[s].requestWriter
        BY <2>3 DEF Transports
    <2>5. KeptConn(s)
        BY <2>1, <2>4 DEF KeptConn, SameLine, Way, Inbox, Up, Open
    <2> QED BY <2>1, <2>2, <2>4, <2>5, <1>a, <1>d, <1>b, <1>c DEF Open
<1>5. CASE Teardown(s)
    <2> DEFINE t == [transport EXCEPT ![s].conn = "ended", ![s].chansClosed = TRUE]
    <2>1. /\ transport' = ClosedSessions(t, {s}) /\ UNCHANGED <<server, applied, tail>>
          /\ transport[s].conn = "failing"
        BY <1>5 DEF Teardown
    <2>2. /\ t[s] = [transport[s] EXCEPT !.conn = "ended", !.chansClosed = TRUE]
          /\ \A q \in Sessions : q # s => t[q] = transport[q]
        BY <1>0
    <2>3. /\ transport'[s] = [t[s] EXCEPT !.closed = TRUE, !.requestWriter = "nil"]
          /\ \A q \in Sessions : q # s => transport'[q] = t[q]
        BY <2>1 DEF ClosedSessions
    <2> HIDE DEF t
    <2>4. transport'[s].acksCh = transport[s].acksCh /\ transport'[s].conn = "ended" /\ transport'[s].requestWriter = "nil"
        BY <1>0, <2>2, <2>3 DEF Transports
    <2>5. Others
        BY <2>1, <2>2, <2>3
    <2>6. KeptConn(s) /\ ~ Open(s)'
        BY <2>1, <2>4 DEF KeptConn, SameLine, Way, Inbox, Up, Open
    <2> QED BY <2>1, <2>4, <2>5, <2>6, <1>a, <1>d, <1>b, <1>c
<1>6. CASE Apply(s)
    <2> DEFINE b == Head(server[s].inbox)
    <2>0. server[s].inbox # <<>> /\ UNCHANGED transport
        BY <1>6 DEF Apply
    <2>t. Settled2 /\ Conns /\ Live
        <3>1. CASE Condition(b) \in {NoMatch, tail}
            BY <2>0 DEF Open, Inbox
        <3> QED BY <2>0 DEF Open, Inbox
    <2>1. CASE Condition(b) \in {NoMatch, tail}
        <3>1. /\ tail' = tail + Count[b] /\ applied' = [applied EXCEPT ![b] = @ + 1]
              /\ server' = [server EXCEPT
                   ![s].inbox = Tail(server[s].inbox),
                   ![s].response = IF server[s].end = "up"
                                   THEN Append(server[s].response, [of |-> b, end |-> tail'])
                                   ELSE server[s].response]
            BY <1>0, <1>6, <2>1 DEF Apply
        <3>2. server'[s] = [server[s] EXCEPT
                   !.inbox = Tail(server[s].inbox),
                   !.response = IF server[s].end = "up"
                                   THEN Append(server[s].response, [of |-> b, end |-> tail'])
                                   ELSE server[s].response]
            BY <1>0, <3>1
        <3>3. /\ server'[s].inbox = Tail(server[s].inbox) /\ server'[s].end = server[s].end
              /\ server'[s].response = IF server[s].end = "up"
                                   THEN Append(server[s].response, [of |-> b, end |-> tail'])
                                   ELSE server[s].response
            BY <1>0, <3>2 DEF Servers
        <3>4. \A q \in Sessions : q # s => server'[q] = server[q]
            BY <1>0, <3>1
        <3>5. Way(s)' = IF Up(s) THEN Append(Way(s), [of |-> b, end |-> tail']) ELSE Way(s)
            <4>1. [of |-> b, end |-> tail'] \in Acks
                <5>1. b \in Batches /\ tail \in Nat /\ Count[b] \in Nat
                    <6>1. server[s].inbox \in Seq(Batches)
                        BY <1>0 DEF Servers
                    <6>2. b \in Batches
                        BY <2>0, <6>1
                    <6>3. tail \in Nat
                        BY DEF TypeOK, TransportTypeOK
                    <6>4. Count[b] \in Nat
                        BY <6>2, TransportAssumption
                    <6> QED BY <6>2, <6>3, <6>4
                <5> QED BY <3>1, <5>1 DEF Acks
            <4>2. CASE Up(s)
                <5>1. Way(s)' = transport[s].acksCh \o Append(server[s].response, [of |-> b, end |-> tail'])
                    BY <2>0, <3>3, <4>2 DEF Way, Up
                <5>2. ASSUME NEW x \in Acks
                      PROVE  transport[s].acksCh \o Append(server[s].response, x)
                                = Append(transport[s].acksCh \o server[s].response, x)
                    <6>1. ASSUME NEW a \in Seq(Acks), NEW r \in Seq(Acks)
                          PROVE  a \o Append(r, x) = Append(a \o r, x)
                        BY WayGrows
                    <6>2. transport[s].acksCh \in Seq(Acks) /\ server[s].response \in Seq(Acks)
                        BY <1>0
                    <6> QED BY <6>1, <6>2, Zenon
                <5> QED BY <4>1, <4>2, <5>1, <5>2 DEF Way
            <4>3. CASE ~ Up(s)
                BY <2>0, <3>3, <4>3 DEF Way, Up
            <4> QED BY <4>2, <4>3
        <3>6. \A q \in Sessions : q # s => SameLine(q)
            BY <2>0, <3>4 DEF SameLine, Way, Inbox, Up
        <3> HIDE DEF b
        <3>7. Applies(s)
            BY <2>0, <2>1, <3>1, <3>3, <3>5, <3>6 DEF Applies, Inbox, b
        <3> QED BY <2>t, <3>6, <3>7
    <2>2. CASE Condition(b) \notin {NoMatch, tail}
        <3>1. /\ UNCHANGED <<tail, applied>>
              /\ server' = [server EXCEPT
                   ![s].inbox = <<>>,
                   ![s].end = IF server[s].end = "up" THEN "fatalNoEffect" ELSE server[s].end]
            BY <1>0, <1>6, <2>2 DEF Apply
        <3>2. server'[s] = [server[s] EXCEPT !.inbox = <<>>,
                   !.end = IF server[s].end = "up" THEN "fatalNoEffect" ELSE server[s].end]
            BY <1>0, <3>1
        <3>3. /\ server'[s].inbox = <<>> /\ server'[s].end # "up" /\ server'[s].response = server[s].response
            BY <1>0, <3>2 DEF Servers
        <3>4. Others
            BY <1>0, <2>0, <3>1
        <3>5. KeptConn(s)
            BY <2>0, <3>3 DEF KeptConn, CutShort, Way, Inbox, Up, Open
        <3>6. LineKept
            BY <3>1, <3>4, <3>5, <1>a
        <3> QED BY <2>t, <3>4, <3>6, <1>d
    <2> QED BY <2>1, <2>2
<1>7. CASE ServerEnds(s)
    <2>1. /\ UNCHANGED <<transport, tail, applied>> /\ transport[s].conn # "none"
        BY <1>7 DEF ServerEnds
    <2>2. PICK end \in (setup.errors \ {"uncertain"}) \cup {"eof"} :
             server' = [server EXCEPT ![s].end = end,
                                      ![s].inbox = IF HasNoSideEffects(end) THEN <<>> ELSE server[s].inbox]
        BY <1>0, <1>7 DEF ServerEnds
    <2>3. end # "up"
        <3>1. setup.errors \subseteq Errors
            BY TransportAssumption
        <3> QED BY <3>1 DEF Errors
    <2>4. server'[s] = [server[s] EXCEPT !.end = end,
                                      !.inbox = IF HasNoSideEffects(end) THEN <<>> ELSE server[s].inbox]
        BY <1>0, <2>2
    <2>5. /\ server'[s].end # "up" /\ server'[s].inbox \in {server[s].inbox, <<>>}
          /\ server'[s].response = server[s].response
        BY <1>0, <2>3, <2>4 DEF Servers
    <2>6. Others
        BY <1>0, <2>1, <2>2
    <2>7. KeptConn(s)
        BY <2>1, <2>5 DEF KeptConn, CutShort, Way, Inbox, Up, Open
    <2>8. Settled2 /\ Conns
        BY <2>1 DEF Open
    <2> QED BY <2>1, <2>6, <2>7, <2>8, <1>a, <1>d
<1>8. CASE ServerFinishes(s)
    <2>1. /\ UNCHANGED <<transport, tail, applied>> /\ transport[s].conn # "none"
          /\ server' = [server EXCEPT ![s].end = "eof"]
        BY <1>8 DEF ServerFinishes
    <2>2. server'[s] = [server[s] EXCEPT !.end = "eof"]
        BY <1>0, <2>1
    <2>3. server'[s].end # "up" /\ server'[s].inbox = server[s].inbox /\ server'[s].response = server[s].response
        BY <1>0, <2>2 DEF Servers
    <2>4. Others
        BY <1>0, <2>1
    <2>5. KeptConn(s)
        BY <2>1, <2>3 DEF KeptConn, CutShort, Way, Inbox, Up, Open
    <2>6. Settled2 /\ Conns
        BY <2>1 DEF Open
    <2> QED BY <2>1, <2>4, <2>5, <2>6, <1>a, <1>d
<1>9. CASE Break(s)
    <2>1. /\ UNCHANGED <<tail, applied>> /\ transport[s].conn # "none"
          /\ server' = [server EXCEPT ![s].end = "uncertain", ![s].response = <<>>]
          /\ transport' = [transport EXCEPT
                 ![s].requestWriter = IF transport[s].requestWriter = "open" THEN "broken"
                                      ELSE transport[s].requestWriter]
        BY <1>0, <1>9 DEF Break
    <2>2. /\ server'[s] = [server[s] EXCEPT !.end = "uncertain", !.response = <<>>]
          /\ transport'[s] = [transport[s] EXCEPT
                 !.requestWriter = IF transport[s].requestWriter = "open" THEN "broken"
                                   ELSE transport[s].requestWriter]
        BY <1>0, <2>1
    <2>3. /\ server'[s].end # "up" /\ server'[s].inbox = server[s].inbox /\ server'[s].response = <<>>
          /\ transport'[s].acksCh = transport[s].acksCh /\ transport'[s].conn = transport[s].conn
          /\ transport'[s].requestWriter # "open"
        BY <1>0, <2>2 DEF Servers, Transports
    <2>4. Others
        BY <1>0, <2>1
    <2>5. Way(s)' = transport[s].acksCh
        BY <1>0, <2>3, WayCut DEF Way
    <2>6. KeptConn(s) /\ ~ Open(s)'
        <3>1. \A i \in DOMAIN transport[s].acksCh :
                 i \in DOMAIN Way(s) /\ Way(s)[i] = transport[s].acksCh[i]
            BY <1>0, WayCut DEF Way
        <3>2. ~ Up(s)' /\ Inbox(s)' = Inbox(s) /\ ~ Open(s)'
            BY <2>3 DEF Up, Inbox, Open
        <3>3. CutShort(s)
            BY <2>5, <3>1, <3>2 DEF CutShort
        <3> QED BY <3>2, <3>3 DEF KeptConn
    <2> QED BY <2>1, <2>3, <2>4, <2>6, <1>a, <1>d, <1>b, <1>c
<1> QED BY <1>1, <1>2, <1>3, <1>4, <1>5, <1>6, <1>7, <1>8, <1>9 DEF TransportNext

(* Only handleAck moves the last acknowledged position and records what    *)
(* completed a batch.                                                      *)
LEMMA AckedMoves ==
    ASSUME [Next]_<<vars, setup>>
    PROVE  UNCHANGED <<ackedBy, lastAckedEnd>> \/ \E s \in Sessions : ReaderTakesAck(s)
<1> USE DEF queueVars
<1>1. ASSUME NEW a \in Batches, Submitter(a)
      PROVE  UNCHANGED <<ackedBy, lastAckedEnd>>
    BY <1>1 DEF Submitter, Submit, Reserve, Enqueue
<1>2. ASSUME NEW s, NEW err, ResolveFailure(s, err)
      PROVE  UNCHANGED <<ackedBy, lastAckedEnd>>
    BY <1>2 DEF ResolveFailure, KeepInflight, FailAllInflight, FailQueued
<1>3. ASSUME NEW s \in Sessions, Reader(s)
      PROVE  UNCHANGED <<ackedBy, lastAckedEnd>> \/ ReaderTakesAck(s)
    <2>1. CASE ReaderResolves(s)
        BY <2>1, <1>2 DEF ReaderResolves
    <2> QED BY <1>3, <2>1 DEF Reader, ReaderWeighsAdvice, ReaderTakesError,
           ReaderDrained, ReaderClaims, ReaderSeesEnd, ReaderFollowsAdvice,
           ReaderCancelled
<1>4. CASE \E s \in Sessions : TransportNext(s) /\ UNCHANGED SessionVars
    BY <1>4 DEF SessionVars
<1>5. CASE CloseStarts \/ Closer \/ Cancel \/ RetryDue \/ RequestTimeout
    BY <1>5 DEF CloseStarts, Closer, CloseDrained, CloseCleansUp, CloseReturns, Cancel,
           RetryDue, RequestTimeout, FailQueued
<1>6. CASE UNCHANGED <<vars, setup>>
    BY <1>6 DEF vars
<1>7. CASE Pump
    <2>1. CASE PumpResolves
        BY <2>1, <1>2 DEF PumpResolves
    <2>2. CASE PumpCancelled \/ PumpStartFails
        BY <2>2 DEF PumpCancelled, PumpStartFails, KeepInflight, FailAllInflight, FailQueued
    <2> QED BY <1>7, <2>1, <2>2 DEF Pump, PumpWakes, PumpProcess, PumpKeepsSession, PumpOpensSession,
           PumpSubmits, PumpMarks, PumpDoneSending,
           PumpAppends, PumpWrites, PumpClaims, PumpTimeouts
<1> QED BY <1>1, <1>3, <1>4, <1>5, <1>6, <1>7 DEF Next, Step

(* Who is before whom in a queue only grows at its end. *)
LEMMA PrecTail ==
    ASSUME inflightQueue \in Seq(Batches), inflightQueue # <<>>, inflightQueue' = Tail(inflightQueue),
           NEW a, NEW b, Prec(b, a)'
    PROVE  Prec(b, a)
<1>1. PICK k, m \in DOMAIN inflightQueue' : k < m /\ inflightQueue'[k] = b /\ inflightQueue'[m] = a
    BY DEF Prec
<1>2. /\ k + 1 \in DOMAIN inflightQueue /\ m + 1 \in DOMAIN inflightQueue /\ k + 1 < m + 1
      /\ inflightQueue[k + 1] = b /\ inflightQueue[m + 1] = a
    BY <1>1
<1> QED BY <1>2 DEF Prec

(* A batch added to the queue goes in front of nobody. *)
LEMMA PrecAppend ==
    ASSUME inflightQueue \in Seq(Batches), NEW e \in Batches, inflightQueue' = Append(inflightQueue, e),
           NEW a, NEW b, Prec(b, a)'
    PROVE  Prec(b, a) \/ a = e
<1>1. PICK k, m \in DOMAIN inflightQueue' : k < m /\ inflightQueue'[k] = b /\ inflightQueue'[m] = a
    BY DEF Prec
<1>2. CASE m = Len(inflightQueue) + 1
    BY <1>1, <1>2
<1>3. CASE m # Len(inflightQueue) + 1
    <2>1. /\ k \in DOMAIN inflightQueue /\ m \in DOMAIN inflightQueue
          /\ inflightQueue[k] = b /\ inflightQueue[m] = a
        BY <1>1, <1>3
    <2> QED BY <1>1, <2>1 DEF Prec
<1> QED BY <1>2, <1>3

(* What was enqueued stays so, nobody returns to the queue, nobody gets    *)
(* in front of one already queued, and a queued batch stays recorded on    *)
(* the connections it was sent on.                                         *)
QueueForward ==
    /\ \A b \in Batches : sub[b] = "enqueued" => sub'[b] = "enqueued"
    /\ \A b \in Batches : b \in Queued' => b \in Queued \/ sub[b] # "enqueued"
    /\ \A a, b \in Batches : Prec(b, a)' => Prec(b, a) \/ sub[a] # "enqueued"
    /\ \A b \in Batches : b \in Queued' => entry[b].sentOn \subseteq entry'[b].sentOn

(* Every step moves the queue forward in this sense. *)
LEMMA QueueMovesForward ==
    ASSUME TypeOK, ClosingOK, QueueOK, [Next]_<<vars, setup>>
    PROVE  QueueForward
<1> DEFINE Subs == \A b \in Batches : sub[b] = "enqueued" => sub'[b] = "enqueued"
           Stays == \A b \in Batches : b \in Queued' => b \in Queued \/ sub[b] # "enqueued"
           Order == \A a, b \in Batches : Prec(b, a)' => Prec(b, a) \/ sub[a] # "enqueued"
           Sent == \A b \in Batches : b \in Queued' => entry[b].sentOn \subseteq entry'[b].sentOn
<1>q. inflightQueue \in Seq(Batches) /\ Queued \subseteq Batches
      /\ Queued = Range(inflightQueue) /\ Queued' = Range(inflightQueue')
    BY DEF TypeOK, Queued, Range
<1>s. Subs
    BY EnqueuedStays
<1>a. ASSUME inflightQueue' = inflightQueue
      PROVE  Stays /\ Order
    BY <1>a, <1>q DEF Prec
<1>1. CASE LeavesQueue
    BY <1>1, <1>s, <1>a DEF LeavesQueue, QueueForward
<1>2. CASE FailsAll
    <2>1. inflightQueue' = <<>>
        BY <1>2 DEF FailsAll
    <2>2. Queued' = {}
        BY <1>q, <2>1 DEF Range
    <2>3. Order
        BY <2>1 DEF Prec
    <2> QED BY <1>s, <2>2, <2>3 DEF QueueForward
<1>3. CASE Completes
    <2> DEFINE h == Head(inflightQueue)
    <2>1. Queued' = Queued \ {h} /\ h \in Queued
        BY <1>3, <1>q, QueueShrinks DEF Completes, QueueOK
    <2>2. \A b \in Batches : b # h => entry'[b].sentOn = entry[b].sentOn
        BY <1>3, <1>q, <2>1 DEF Completes, TypeOK
    <2>3. Order
        BY <1>3, <1>q, PrecTail DEF Completes
    <2> HIDE DEF h
    <2> QED BY <1>s, <2>1, <2>2, <2>3 DEF QueueForward
<1>4. CASE PumpMarks
    <2>1. UNCHANGED inflightQueue
        BY <1>4 DEF PumpMarks
    <2>2. PICK i \in DOMAIN pumpTodo :
             entry' = [entry EXCEPT
                    ![pumpTodo[i]].sentOn = @ \cup {pumpSession},
                    ![pumpTodo[i]].attemptStart = IF @ = "zero" THEN "running" ELSE @]
        BY <1>4 DEF PumpMarks
    <2>3. Sent
        BY <2>2 DEF TypeOK, Entries
    <2> QED BY <1>s, <1>a, <2>1, <2>3 DEF QueueForward
<1>5. ASSUME NEW e \in Batches, Submitter(e)
      PROVE  QueueForward
    <2>1. UNCHANGED entry
        BY <1>5 DEF Submitter, Submit, Reserve, Enqueue, queueVars
    <2>2. UNCHANGED inflightQueue \/ (inflightQueue' = Append(inflightQueue, e) /\ sub[e] # "enqueued")
        BY <1>5 DEF Submitter, Submit, Reserve, Enqueue, queueVars
    <2>3. CASE UNCHANGED inflightQueue
        BY <1>s, <1>a, <2>1, <2>3 DEF QueueForward
    <2>4. CASE inflightQueue' = Append(inflightQueue, e) /\ sub[e] # "enqueued"
        <3>1. Queued' = Queued \cup {e}
            <4>1. e \notin Queued
                BY <2>4 DEF QueueOK
            <4> QED BY <1>q, <2>4, <4>1, QueueGrows
        <3>2. Order
            BY <1>q, <2>4, PrecAppend
        <3> QED BY <1>s, <2>1, <2>4, <3>1, <3>2 DEF QueueForward
    <2> QED BY <2>2, <2>3, <2>4
<1> QED BY <1>1, <1>2, <1>3, <1>4, <1>5, QueueSteps

(* Only the pump records a batch as sent: the one it sends next. *)
LEMMA NewlySent ==
    ASSUME TypeOK, ClosingOK, QueueOK, [Next]_<<vars, setup>>, NEW b \in Batches, NEW s,
           s \in entry'[b].sentOn, s \notin entry[b].sentOn
    PROVE  PumpMarks /\ s = pumpSession /\ pumpTodo' # <<>> /\ b = Head(pumpTodo')
<1>1. CASE LeavesQueue \/ FailsAll
    BY <1>1 DEF LeavesQueue, FailsAll
<1>2. CASE Completes
    <2>1. Head(inflightQueue) \in Batches
        BY <1>2 DEF Completes, TypeOK
    <2>2. entry'[b].sentOn = IF b = Head(inflightQueue) THEN {} ELSE entry[b].sentOn
        BY <1>2, <2>1 DEF Completes, TypeOK, Entries
    <2> QED BY <2>2
<1>3. ASSUME NEW e \in Batches, Submitter(e)
      PROVE  FALSE
    BY <1>3 DEF Submitter, Submit, Reserve, Enqueue, queueVars
<1>4. CASE PumpMarks
    <2>1. PICK i \in DOMAIN pumpTodo :
             /\ pumpTodo' = SubSeq(pumpTodo, i, Len(pumpTodo))
             /\ entry' = [entry EXCEPT
                    ![pumpTodo[i]].sentOn = @ \cup {pumpSession},
                    ![pumpTodo[i]].attemptStart = IF @ = "zero" THEN "running" ELSE @]
        BY <1>4 DEF PumpMarks
    <2>2. pumpTodo \in Seq(Batches) /\ entry \in [Batches -> Entries]
        BY DEF TypeOK
    <2>3. pumpTodo' # <<>> /\ Head(pumpTodo') = pumpTodo[i]
        BY <2>1, <2>2
    <2>4. b = pumpTodo[i] /\ s = pumpSession
        BY <2>1, <2>2 DEF Entries
    <2> QED BY <1>4, <2>3, <2>4
<1> QED BY <1>1, <1>2, <1>3, <1>4, QueueSteps

-----------------------------------------------------------------------------
(* Taking the oldest acknowledgement of s: it does not concern the head of *)
(* the queue, it fails the session, or it completes the head.              *)
Takes(s) ==
    /\ Way(s) # <<>> /\ Way(s)' = Tail(Way(s)) /\ Inbox(s)' = Inbox(s) /\ (Up(s)' <=> Up(s))
    /\ \A q \in Sessions : q # s => SameLine(q)
    /\ \A q \in Sessions : Open(q)' => Open(q)
    /\ UNCHANGED <<applied, tail>>
    /\ \/ /\ ~ConcernsHead(s, Way(s)[1])
          /\ UNCHANGED <<inflightQueue, result, ackedBy, lastAckedEnd>>
       \/ inflightQueue' = <<>> /\ FailsAll /\ UNCHANGED <<ackedBy, lastAckedEnd>>
       \/ /\ ConcernsHead(s, Way(s)[1]) /\ ValidAck(Head(inflightQueue), Way(s)[1])
          /\ inflightQueue' = Tail(inflightQueue)
          /\ result' = [result EXCEPT ![Head(inflightQueue)] = "acked"]
          /\ ackedBy' = [ackedBy EXCEPT ![Head(inflightQueue)] = Way(s)[1]]
          /\ lastAckedEnd' = Way(s)[1].end

(* Both ends of a connection that was not closed or opened by this step. *)
ConnsKept ==
    /\ \A q \in Sessions : transport'[q].conn = transport[q].conn
    /\ (\A q \in Sessions : transport[q].closed => ~ Open(q))
         => (\A q \in Sessions : transport[q].closed => ~ Open(q))'

(* That is what the reader does when it takes an acknowledgement. *)
LEMMA TakesOldest ==
    ASSUME TypeOK, NEW s \in Sessions, ReaderTakesAck(s)
    PROVE  Takes(s) /\ ConnsKept
<1> DEFINE t == [transport EXCEPT ![s].acksCh = Tail(@)]
           ack == Head(transport[s].acksCh)
<1>0. /\ transport \in [Sessions -> Transports] /\ transport[s] \in Transports
      /\ transport[s].acksCh \in Seq(Acks) /\ server[s].response \in Seq(Acks)
    BY LineTypes DEF TypeOK, TransportTypeOK
<1>1. /\ transport[s].acksCh # <<>> /\ HandleAck(s, ack, t)
      /\ UNCHANGED remoteVars /\ UNCHANGED sub
    <2>1. TakeAck(s)
        BY DEF ReaderTakesAck
    <2>2. transport[s].acksCh # <<>> /\ HandleAck(s, ack, t)
        BY <2>1 DEF TakeAck
    <2>3. UNCHANGED remoteVars /\ UNCHANGED sub
        BY <2>1 DEF TakeAck
    <2> QED BY <2>2, <2>3
<1>2. t[s] = [transport[s] EXCEPT !.acksCh = Tail(transport[s].acksCh)]
    BY <1>0
<1>3. /\ t[s].acksCh = Tail(transport[s].acksCh) /\ t[s].conn = transport[s].conn
      /\ t[s].requestWriter = transport[s].requestWriter /\ t[s].closed = transport[s].closed
      /\ t[s] \in Transports
    <2>1. Tail(transport[s].acksCh) \in Seq(Acks)
        BY <1>0, <1>1
    <2> DEFINE rest == Tail(transport[s].acksCh)
    <2> HIDE DEF t, rest
    <2>2. t[s] = [transport[s] EXCEPT !.acksCh = rest] /\ rest \in Seq(Acks)
        BY <1>2, <2>1 DEF rest
    <2>3. /\ t[s].acksCh = rest /\ t[s].conn = transport[s].conn
          /\ t[s].requestWriter = transport[s].requestWriter /\ t[s].closed = transport[s].closed
          /\ t[s] \in Transports
        BY <1>0, <2>2 DEF Transports
    <2> QED BY <2>3 DEF rest
<1>4. \A q \in Sessions : q # s => t[q] = transport[q]
    BY <1>0
<1>5. t \in [Sessions -> Transports]
    BY <1>0, <1>3, <1>4
<1> HIDE DEF t
<1>6. QuietConns(t, transport')
    <2>1. CASE KeepInflight(t)
        BY <2>1, QuietNever DEF KeepInflight
    <2>2. CASE FailAllInflight("uncertain", t)
        BY <2>2, <1>5, FailingIsQuiet DEF FailAllInflight
    <2>3. CASE CompleteHead(s, ack, t)
        <3>1. transport' = ClosedSessions(AckReceived(t, s), StaleSessions(Head(inflightQueue)))
            BY <2>3 DEF CompleteHead
        <3>2. PICK n : AckReceived(t, s) = [t EXCEPT ![s].pendingWrites = n]
            BY <1>5 DEF AckReceived
        <3>3. QuietConns(t, AckReceived(t, s))
            <4>1. ASSUME NEW u, u = [t EXCEPT ![s].pendingWrites = n]
                  PROVE  QuietConns(t, u)
                BY <1>5, <4>1, CountIsQuiet
            <4> QED BY <3>2, <4>1
        <3>4. AckReceived(t, s) \in [Sessions -> Transports]
            BY <1>5, AckReceivedFields
        <3>5. QuietConns(AckReceived(t, s), transport')
            BY <3>1, <3>4, ClosedIsQuiet
        <3> QED BY <3>3, <3>5, QuietTwice
    <2> QED BY <1>1, <2>1, <2>2, <2>3 DEF HandleAck
<1>7. \A q \in Sessions : QuietConn(t[q], transport'[q])
    BY <1>6 DEF QuietConns
<1>8. /\ transport'[s].acksCh = Tail(transport[s].acksCh)
      /\ \A q \in Sessions : q # s => transport'[q].acksCh = transport[q].acksCh
      /\ \A q \in Sessions : transport'[q].conn = transport[q].conn
      /\ \A q \in Sessions : Open(q)' => Open(q)
      /\ \A q \in Sessions : transport'[q].closed => transport[q].closed \/ ~ Open(q)'
    BY <1>3, <1>4, <1>7 DEF QuietConn, Open
<1>9. UNCHANGED <<server, applied, tail>>
    BY <1>1 DEF remoteVars
<1>10. /\ Way(s) # <<>> /\ Way(s)' = Tail(Way(s)) /\ ack = Way(s)[1]
    <2>1. /\ Tail(transport[s].acksCh) \o server[s].response = Tail(transport[s].acksCh \o server[s].response)
          /\ transport[s].acksCh \o server[s].response # <<>>
          /\ Head(transport[s].acksCh) = (transport[s].acksCh \o server[s].response)[1]
        BY <1>0, <1>1, WayTaken
    <2> QED BY <1>8, <1>9, <2>1 DEF Way
<1>11. /\ Inbox(s)' = Inbox(s) /\ (Up(s)' <=> Up(s))
       /\ \A q \in Sessions : q # s => SameLine(q)
    BY <1>8, <1>9 DEF SameLine, Way, Inbox, Up
<1>12. \/ /\ ~ConcernsHead(s, ack)
          /\ UNCHANGED <<inflightQueue, result, ackedBy, lastAckedEnd>>
       \/ inflightQueue' = <<>> /\ FailsAll /\ UNCHANGED <<ackedBy, lastAckedEnd>>
       \/ /\ ConcernsHead(s, ack) /\ ValidAck(Head(inflightQueue), ack)
          /\ inflightQueue' = Tail(inflightQueue)
          /\ result' = [result EXCEPT ![Head(inflightQueue)] = "acked"]
          /\ ackedBy' = [ackedBy EXCEPT ![Head(inflightQueue)] = ack]
          /\ lastAckedEnd' = ack.end
    <2>1. CASE ~ConcernsHead(s, ack)
        BY <1>1, <2>1 DEF HandleAck, KeepInflight
    <2>2. CASE ConcernsHead(s, ack) /\ ~ValidAck(Head(inflightQueue), ack)
        <3>1. FailAllInflight("uncertain", t) /\ UNCHANGED <<sub, entry, lastAckedEnd>>
            BY <1>1, <2>2 DEF HandleAck
        <3> QED BY <3>1, FailAllFailsAll DEF FailAllInflight, FailQueued
    <2>3. CASE ConcernsHead(s, ack) /\ ValidAck(Head(inflightQueue), ack)
        <3>1. CompleteHead(s, ack, t)
            BY <1>1, <2>3 DEF HandleAck
        <3> QED BY <2>3, <3>1 DEF CompleteHead
    <2> QED BY <2>1, <2>2, <2>3
<1> HIDE DEF ack
<1>13. Takes(s)
    BY <1>8, <1>9, <1>10, <1>11, <1>12 DEF Takes
<1>14. ConnsKept
    BY <1>8 DEF ConnsKept
<1> QED BY <1>13, <1>14

(* A write that is accepted puts the frame in the inbox, if anyone reads. *)
Sends(s, b) ==
    /\ UNCHANGED <<transport, applied, tail>> /\ Open(s)
    /\ Way(s)' = Way(s) /\ (Up(s)' <=> Up(s))
    /\ Inbox(s)' = IF Up(s) THEN Append(Inbox(s), b) ELSE Inbox(s)
    /\ \A q \in Sessions : q # s => SameLine(q)

(* That is what a write does that is accepted. *)
LEMMA SendsFrame ==
    ASSUME TypeOK, PumpOK, PumpSends, NEW s, s = pumpSession, NEW b, b = Head(pumpTodo)
    PROVE  Sends(s, b) /\ ConnsKept
<1>1. s \in Sessions /\ server \in [Sessions -> Servers]
    BY DEF PumpSends, PumpWrites, PumpOK, TypeOK, TransportTypeOK
<1>2. /\ transport[s].requestWriter = "open" /\ UNCHANGED <<transport, applied, tail>>
      /\ server' = IF server[s].end = "up" THEN [server EXCEPT ![s].inbox = Append(server[s].inbox, b)] ELSE server
    <2>1. WriteAccepted(s, b)
        BY DEF PumpSends
    <2>2. UNCHANGED <<transport, applied, tail>> /\ transport[s].requestWriter = "open"
        BY <2>1 DEF WriteAccepted
    <2>3. server' = IF server[s].end = "up" THEN [server EXCEPT ![s].inbox = Append(server[s].inbox, b)] ELSE server
        BY <1>1, <2>1 DEF WriteAccepted
    <2> QED BY <2>2, <2>3
<1>3. server'[s] = IF server[s].end = "up" THEN [server[s] EXCEPT !.inbox = Append(server[s].inbox, b)] ELSE server[s]
    BY <1>1, <1>2
<1>4. /\ server'[s].response = server[s].response /\ server'[s].end = server[s].end
      /\ server'[s].inbox = IF server[s].end = "up" THEN Append(server[s].inbox, b) ELSE server[s].inbox
    BY <1>1, <1>3 DEF Servers
<1>5. \A q \in Sessions : q # s => server'[q] = server[q]
    BY <1>1, <1>2
<1>6. Sends(s, b)
    <2>1. Open(s) /\ Way(s)' = Way(s) /\ (Up(s)' <=> Up(s))
        BY <1>2, <1>4 DEF Way, Up, Open
    <2>2. Inbox(s)' = IF Up(s) THEN Append(Inbox(s), b) ELSE Inbox(s)
        BY <1>4 DEF Inbox, Up
    <2>3. \A q \in Sessions : q # s => SameLine(q)
        BY <1>2, <1>5 DEF SameLine, Way, Inbox, Up
    <2> QED BY <1>2, <2>1, <2>2, <2>3 DEF Sends
<1>7. ConnsKept
    BY <1>2 DEF ConnsKept, Open
<1> QED BY <1>6, <1>7

(* Opening a connection, and counting a write. *)
Opens(s) ==
    /\ transport[s].conn = "none" /\ transport'[s].conn # "none" /\ currentSession' = s
    /\ UNCHANGED <<server, applied, tail>>
    /\ \A q \in Sessions : q # s => transport'[q] = transport[q]
    /\ transport'[s].acksCh = <<>> /\ ~ transport'[s].closed

(* That is what getSession does when it opens a connection. *)
LEMMA OpensSession ==
    ASSUME TypeOK, PumpOpensSession
    PROVE  \E s \in Sessions : Opens(s)
<1>1. PICK s \in Sessions \ Created : transport' = Started(s) /\ currentSession' = s
    BY DEF PumpOpensSession
<1>2. transport \in [Sessions -> Transports] /\ UNCHANGED <<server, applied, tail>>
    BY DEF TypeOK, TransportTypeOK, PumpOpensSession, remoteVars
<1>3. /\ transport'[s] = [NoTransport EXCEPT !.conn = "connecting", !.requestWriter = "open"]
      /\ \A q \in Sessions : q # s => transport'[q] = transport[q]
    BY <1>1, <1>2 DEF Started
<1>4. transport'[s].conn = "connecting" /\ transport'[s].acksCh = <<>> /\ transport'[s].closed = FALSE
    BY <1>3 DEF NoTransport
<1>5. transport[s].conn = "none"
    BY <1>1 DEF Created
<1> QED BY <1>1, <1>2, <1>3, <1>4, <1>5 DEF Opens

(* Counting a write before it starts is quiet. *)
LEMMA CountsWrite ==
    ASSUME TypeOK, PumpOK, PumpAppends
    PROVE  ConnQuiet
<1>1. pumpSession \in Sessions /\ UNCHANGED <<server, applied, tail>>
      /\ transport \in [Sessions -> Transports]
    BY DEF PumpAppends, PumpOK, remoteVars, TypeOK, TransportTypeOK
<1>2. transport' = transport \/ \E n : transport' = [transport EXCEPT ![pumpSession].pendingWrites = n]
    BY <1>1 DEF PumpAppends
<1>3. QuietConns(transport, transport')
    BY <1>1, <1>2, CountIsQuiet, QuietNever
<1> QED BY <1>1, <1>3 DEF ConnQuiet

-----------------------------------------------------------------------------
(* What a step does to the lines of the connections and to what was        *)
(* acknowledged.                                                           *)
Steady == UNCHANGED <<ackedBy, lastAckedEnd>>

(* Every step keeps the lines, opens a connection, sends a frame, takes
   an acknowledgement or applies a frame. *)
LEMMA LineSteps ==
    ASSUME TypeOK, PumpOK, setup \in Setups, [Next]_<<vars, setup>>
    PROVE  \/ LineKept /\ Steady
           \/ \E s \in Sessions : Opens(s) /\ Steady
           \/ /\ PumpSends /\ Steady /\ pumpSession \in Sessions
              /\ \E s, b : s = pumpSession /\ b = Head(pumpTodo) /\ Sends(s, b)
           \/ \E s \in Sessions : Takes(s) /\ ReaderTakesAck(s)
           \/ \E s \in Sessions : Applies(s) /\ UNCHANGED SessionVars
<1>1. CASE \E s \in Sessions : ReaderTakesAck(s)
    BY <1>1, TakesOldest
<1>2. CASE \E s \in Sessions : TransportNext(s) /\ UNCHANGED SessionVars
    <2>1. PICK s \in Sessions : TransportNext(s) /\ UNCHANGED SessionVars
        BY <1>2
    <2>2. Steady
        BY <2>1 DEF SessionVars, queueVars, Steady
    <2>3. LineKept \/ Applies(s)
        BY <2>1, TransportLine
    <2> QED BY <2>1, <2>2, <2>3
<1>3. CASE ~ \E s \in Sessions : ReaderTakesAck(s)
    <2>1. Steady
        BY <1>3, AckedMoves DEF Steady
    <2>2. CASE Untouched
        BY <2>1, <2>2, QuietKeepsLines DEF Untouched
    <2>3. CASE PumpAppends
        BY <2>1, <2>3, CountsWrite, QuietKeepsLines
    <2>4. CASE PumpOpensSession
        BY <2>1, <2>4, OpensSession
    <2>5. CASE PumpSends
        <3>1. pumpSession \in Sessions
            BY <2>5 DEF PumpSends, PumpWrites, PumpOK
        <3> QED BY <2>1, <2>5, <3>1, SendsFrame
    <2> QED BY <1>2, <1>3, <2>2, <2>3, <2>4, <2>5, ConnSteps
<1> QED BY <1>1, <1>3

(* A connection that was not opened stays blank, and a closed one shut.    *)
LEMMA ConnFacts ==
    ASSUME TypeOK, PumpOK, setup \in Setups, [Next]_<<vars, setup>>, NEW q \in Sessions
    PROVE  /\ Shut => Shut'
           /\ transport'[q].conn = "none" => transport[q].conn = "none"
           /\ transport'[q].conn = "none" /\ Blank(q) => Blank(q)' \/ (PumpSends /\ q = pumpSession)
<1>0. TypeOK /\ PumpOK
    OBVIOUS
<1>a. ASSUME ConnQuiet
      PROVE  Shut' \/ ~ Shut
    BY <1>a, QuietKeepsLines DEF Shut
<1>1. CASE ConnQuiet
    <2>1. SameLine(q) /\ transport'[q].conn = transport[q].conn
        BY <1>1, QuietKeepsLines
    <2> QED BY <1>1, <1>a, <2>1 DEF SameLine, Blank
<1>2. CASE PumpOpensSession
    <2>1. PICK s \in Sessions : Opens(s)
        BY <1>2, OpensSession
    <2>2. q = s => transport'[q].conn # "none"
        BY <2>1 DEF Opens
    <2>3. q # s => SameLine(q) /\ transport'[q] = transport[q]
        BY <2>1 DEF Opens, SameLine, Way, Inbox, Up
    <2>4. Shut => Shut'
        BY <2>1 DEF Opens, Shut, Open
    <2> QED BY <2>2, <2>3, <2>4 DEF SameLine, Blank
<1>3. CASE PumpSends
    <2>1. PICK s, b : s = pumpSession /\ b = Head(pumpTodo) /\ Sends(s, b)
        BY <1>3, SendsFrame
    <2>2. UNCHANGED transport
        BY <2>1 DEF Sends
    <2>3. q # s => SameLine(q)
        BY <2>1 DEF Sends
    <2>4. Shut => Shut'
        BY <2>2 DEF Shut, Open
    <2> QED BY <1>3, <2>1, <2>2, <2>3, <2>4 DEF SameLine, Blank
<1>4. ASSUME NEW s \in Sessions, ReaderTakesAck(s)
      PROVE  /\ Shut => Shut'
             /\ transport'[q].conn = transport[q].conn
             /\ Blank(q) => Blank(q)'
    <2>1. Takes(s) /\ ConnsKept
        BY <1>4, TakesOldest
    <2> QED BY <2>1 DEF Takes, ConnsKept, Shut, Blank, SameLine
<1>5. ASSUME NEW s \in Sessions, TransportNext(s)
      PROVE  /\ Shut => Shut'
             /\ transport'[q].conn = "none" => transport[q].conn = "none"
             /\ transport'[q].conn = "none" /\ Blank(q) => Blank(q)'
    <2>1. /\ transport'[q].conn # transport[q].conn => q = s /\ transport'[q].conn # "none"
          /\ Shut => Shut'
          /\ transport[s].conn # "none" \/ Inbox(s) # <<>>
          /\ q # s => SameLine(q)
        BY <1>5, TransportLine DEF Shut
    <2> QED BY <2>1 DEF Blank, SameLine
<1> QED BY <1>1, <1>2, <1>3, <1>4, <1>5, ConnSteps, CountsWrite DEF Untouched

(* What the accounts of AppendSession_proofs say of a state.               *)
Base ==
    /\ TypeOK /\ setup \in Setups /\ PumpOK /\ ClaimIsExclusive
    /\ ClosingOK /\ QueueOK /\ TodoOK

(* The types of the lines after a step. *)
LEMMA LineTypesNext ==
    ASSUME TypeOK', NEW s \in Sessions
    PROVE  Way(s)' \in Seq(Acks) /\ Inbox(s)' \in Seq(Batches)
<1>1. transport'[s] \in Transports /\ server'[s] \in Servers
    BY DEF TypeOK, TransportTypeOK
<1>2. transport'[s].acksCh \in Seq(Acks) /\ server'[s].response \in Seq(Acks) /\ server'[s].inbox \in Seq(Batches)
    BY <1>1 DEF Transports, Servers
<1> QED BY <1>2 DEF Way, Inbox

(* A step that sends, takes and applies nothing: lines stay or are cut     *)
(* short, and only a connection that was blank is opened.                  *)
Rests ==
    /\ Steady /\ UNCHANGED <<applied, tail>>
    /\ \A q \in Sessions : /\ SameLine(q) \/ CutShort(q)
                           /\ Open(q)' => Open(q) \/ transport[q].conn = "none"

(* Every step rests, sends a frame, takes an acknowledgement or applies
   a frame. *)
LEMMA LineCases ==
    ASSUME Base, ConnOK, [Next]_<<vars, setup>>
    PROVE  \/ Rests
           \/ /\ PumpSends /\ Steady /\ pumpSession \in Sessions
              /\ \E s, b : s = pumpSession /\ b = Head(pumpTodo) /\ Sends(s, b)
           \/ \E s \in Sessions : Takes(s) /\ ReaderTakesAck(s)
           \/ \E s \in Sessions : Applies(s) /\ UNCHANGED SessionVars
<1>1. CASE LineKept /\ Steady
    BY <1>1 DEF LineKept, KeptConn, Rests
<1>2. ASSUME NEW s \in Sessions, Opens(s), Steady
      PROVE  Rests
    <2>1. Blank(s)
        BY <1>2 DEF Opens, ConnOK
    <2>2. /\ transport[s].acksCh \in Seq(Acks) /\ server[s].response \in Seq(Acks)
        BY LineTypes DEF Base
    <2>3. server[s].response = <<>>
        BY <2>1, <2>2 DEF Blank, Way
    <2>4. SameLine(s)
        <3>1. Way(s)' = <<>> \o server[s].response
            BY <1>2 DEF Opens, Way
        <3>2. Way(s)' = <<>>
            BY <3>1, <2>3
        <3> QED BY <1>2, <2>1, <3>2 DEF Opens, Blank, SameLine, Inbox, Up
    <2>5. \A q \in Sessions : q # s => SameLine(q) /\ (Open(q)' => Open(q))
        BY <1>2 DEF Opens, SameLine, Way, Inbox, Up, Open
    <2>6. UNCHANGED <<applied, tail>> /\ transport[s].conn = "none"
        BY <1>2 DEF Opens
    <2> QED BY <1>2, <2>4, <2>5, <2>6 DEF Rests
<1> QED BY <1>1, <1>2, LineSteps DEF Base

(* A line keeps its order: what is on it moves up by one when its oldest   *)
(* is taken, and what comes is added at its end.                           *)
WayShift(s, d) ==
    \A i \in DOMAIN Way(s)' :
       \/ i + d \in DOMAIN Way(s) /\ Way(s)'[i] = Way(s)[i + d]
       \/ /\ d = 0 /\ Applies(s) /\ Up(s) /\ i = Len(Way(s)) + 1
          /\ Way(s)'[i] = [of |-> Head(Inbox(s)), end |-> tail']
InboxShift(s, d) ==
    \A i \in DOMAIN Inbox(s)' :
       \/ i + d \in DOMAIN Inbox(s) /\ Inbox(s)'[i] = Inbox(s)[i + d]
       \/ /\ d = 0 /\ PumpSends /\ s = pumpSession /\ Up(s) /\ Open(s) /\ i = Len(Inbox(s)) + 1
          /\ Inbox(s)'[i] = Head(pumpTodo)

(* The line of acknowledgements moves up by one when its oldest is taken. *)
LEMMA WayShifts ==
    ASSUME Base, ConnOK, [Next]_<<vars, setup>>, NEW s \in Sessions
    PROVE  (Takes(s) => WayShift(s, 1)) /\ (~ Takes(s) => WayShift(s, 0))
<1>0. Way(s) \in Seq(Acks)
    BY LineTypes DEF Base
<1>1. ASSUME Way(s)' = Way(s)
      PROVE  WayShift(s, 0)
    BY <1>0, <1>1 DEF WayShift
<1>2. ASSUME CutShort(s)
      PROVE  WayShift(s, 0)
    BY <1>0, <1>2 DEF CutShort, WayShift
<1>3. ASSUME Takes(s)
      PROVE  WayShift(s, 1)
    <2>1. Way(s)' = Tail(Way(s)) /\ Way(s) # <<>>
        BY <1>3 DEF Takes
    <2>2. \A i \in DOMAIN Way(s)' : i + 1 \in DOMAIN Way(s) /\ Way(s)'[i] = Way(s)[i + 1]
        BY <1>0, <2>1
    <2> QED BY <1>3, <2>2 DEF WayShift
<1>4. ASSUME Applies(s), Up(s)
      PROVE  WayShift(s, 0)
    <2>1. Way(s)' = Append(Way(s), [of |-> Head(Inbox(s)), end |-> tail'])
        BY <1>4 DEF Applies
    <2>2. ASSUME NEW i \in DOMAIN Way(s)'
          PROVE  \/ i \in DOMAIN Way(s) /\ Way(s)'[i] = Way(s)[i]
                 \/ i = Len(Way(s)) + 1 /\ Way(s)'[i] = [of |-> Head(Inbox(s)), end |-> tail']
        BY <1>0, <2>1
    <2>3. \A i \in DOMAIN Way(s) : i + 0 = i
        BY <1>0
    <2> QED BY <1>4, <2>2, <2>3 DEF WayShift
<1>5. ASSUME NEW r, NEW b, Sends(r, b)
      PROVE  Way(s)' = Way(s)
    BY <1>5 DEF Sends, SameLine
<1>6. ASSUME NEW r \in Sessions, r # s, Takes(r) \/ Applies(r)
      PROVE  Way(s)' = Way(s)
    BY <1>6 DEF Takes, Applies, SameLine
<1>7. Applies(s) /\ ~ Up(s) => Way(s)' = Way(s)
    BY DEF Applies
<1> QED BY <1>1, <1>2, <1>3, <1>4, <1>5, <1>6, <1>7, LineCases DEF Rests, SameLine

(* The line of frames moves up by one when its oldest is applied. *)
LEMMA InboxShifts ==
    ASSUME Base, ConnOK, [Next]_<<vars, setup>>, NEW s \in Sessions
    PROVE  (Applies(s) => InboxShift(s, 1)) /\ (~ Applies(s) => InboxShift(s, 0))
<1>0. Inbox(s) \in Seq(Batches)
    BY LineTypes DEF Base
<1>1. ASSUME Inbox(s)' \in {Inbox(s), <<>>}
      PROVE  InboxShift(s, 0)
    BY <1>0, <1>1 DEF InboxShift
<1>2. ASSUME Applies(s)
      PROVE  InboxShift(s, 1)
    <2>1. Inbox(s)' = Tail(Inbox(s)) /\ Inbox(s) # <<>>
        BY <1>2 DEF Applies
    <2>2. \A i \in DOMAIN Inbox(s)' : i + 1 \in DOMAIN Inbox(s) /\ Inbox(s)'[i] = Inbox(s)[i + 1]
        BY <1>0, <2>1
    <2> QED BY <1>2, <2>2 DEF InboxShift
<1>3. ASSUME NEW r, NEW c, r = pumpSession, c = Head(pumpTodo), Sends(r, c), PumpSends
      PROVE  InboxShift(s, 0)
    <2>1. CASE s # r \/ ~ Up(s)
        <3>1. Inbox(s)' = Inbox(s)
            BY <1>3, <2>1 DEF Sends, SameLine
        <3> QED BY <3>1, <1>1
    <2>2. CASE s = r /\ Up(s)
        <3>1. Inbox(s)' = Append(Inbox(s), c) /\ Open(s)
            BY <1>3, <2>2 DEF Sends
        <3>2. ASSUME NEW i \in DOMAIN Inbox(s)'
              PROVE  \/ i \in DOMAIN Inbox(s) /\ Inbox(s)'[i] = Inbox(s)[i]
                     \/ i = Len(Inbox(s)) + 1 /\ Inbox(s)'[i] = c
            BY <1>0, <3>1
        <3>3. \A i \in DOMAIN Inbox(s) : i + 0 = i
            BY <1>0
        <3> QED BY <1>3, <2>2, <3>1, <3>2, <3>3 DEF InboxShift
    <2> QED BY <2>1, <2>2
<1>4. ASSUME NEW r \in Sessions, Takes(r) \/ (r # s /\ Applies(r))
      PROVE  Inbox(s)' = Inbox(s)
    BY <1>4 DEF Takes, Applies, SameLine
<1>5. ASSUME SameLine(s) \/ CutShort(s)
      PROVE  InboxShift(s, 0)
    BY <1>1, <1>5 DEF SameLine, CutShort
<1> QED BY <1>1, <1>2, <1>3, <1>4, <1>5, LineCases DEF Rests

(* An acknowledgement that is on its way was so before, or is that of the  *)
(* frame applied.                                                          *)
LEMMA WayComes ==
    ASSUME Base, ConnOK, [Next]_<<vars, setup>>, NEW s \in Sessions, NEW i \in DOMAIN Way(s)'
    PROVE  \/ \E k \in DOMAIN Way(s) : Way(s)'[i] = Way(s)[k]
           \/ /\ Applies(s) /\ Up(s)
              /\ Way(s)'[i] = [of |-> Head(Inbox(s)), end |-> tail']
BY WayShifts DEF WayShift

(* What is under way on s was so before, or is the frame just sent.        *)
LEMMA OnWayComes ==
    ASSUME Base, ConnOK, [Next]_<<vars, setup>>, NEW s \in Sessions, NEW b \in Batches, OnWay(s, b)'
    PROVE  OnWay(s, b) \/ (PumpSends /\ s = pumpSession /\ b = Head(pumpTodo))
<1>0. Inbox(s) \in Seq(Batches)
    BY LineTypes DEF Base
<1>1. CASE AckOn(s, b)'
    <2>1. PICK i \in DOMAIN Way(s)' : Way(s)'[i].of = b
        BY <1>1 DEF AckOn
    <2>2. CASE \E k \in DOMAIN Way(s) : Way(s)'[i] = Way(s)[k]
        BY <2>1, <2>2 DEF OnWay, AckOn
    <2>3. CASE Applies(s) /\ Way(s)'[i] = [of |-> Head(Inbox(s)), end |-> tail']
        <3>1. Head(Inbox(s)) = b /\ Inbox(s) # <<>>
            BY <2>1, <2>3 DEF Applies
        <3>2. 1 \in DOMAIN Inbox(s) /\ Inbox(s)[1] = b
            BY <1>0, <3>1
        <3> QED BY <3>2 DEF OnWay
    <2> QED BY <2>2, <2>3, WayComes
<1>2. ASSUME NEW i \in DOMAIN Inbox(s)', Inbox(s)'[i] = b
      PROVE  (\E k \in DOMAIN Inbox(s) : Inbox(s)[k] = b) \/ (PumpSends /\ s = pumpSession /\ b = Head(pumpTodo))
    BY <1>2, InboxShifts DEF InboxShift
<1> QED BY <1>1, <1>2 DEF OnWay

(* The stream only grows.                                                  *)
LEMMA StreamGrows ==
    ASSUME Base, ConnOK, [Next]_<<vars, setup>>
    PROVE  /\ tail' >= tail
           /\ \A b \in Batches : applied'[b] >= applied[b]
           /\ \A s \in Sessions : Applies(s) =>
                 /\ Head(Inbox(s)) \in Batches /\ tail' > tail /\ tail' \in Nat
                 /\ applied'[Head(Inbox(s))] = applied[Head(Inbox(s))] + 1
                 /\ \A b \in Batches : b # Head(Inbox(s)) => applied'[b] = applied[b]
<1>0. tail \in Nat /\ applied \in [Batches -> Nat]
    BY DEF Base, TypeOK, TransportTypeOK
<1>1. ASSUME NEW s \in Sessions, Applies(s)
      PROVE  /\ Head(Inbox(s)) \in Batches /\ tail' > tail /\ tail' \in Nat
             /\ applied'[Head(Inbox(s))] = applied[Head(Inbox(s))] + 1
             /\ \A b \in Batches : b # Head(Inbox(s)) => applied'[b] = applied[b]
    <2>1. Head(Inbox(s)) \in Batches
        <3>1. Inbox(s) \in Seq(Batches) /\ Inbox(s) # <<>>
            BY <1>1, LineTypes DEF Base, Applies
        <3> QED BY <3>1
    <2>2. Count[Head(Inbox(s))] \in Nat \ {0}
        BY <2>1, TransportAssumption
    <2>3. tail' = tail + Count[Head(Inbox(s))]
        BY <1>1 DEF Applies
    <2>4. applied' = [applied EXCEPT ![Head(Inbox(s))] = @ + 1]
        BY <1>1 DEF Applies
    <2>5. tail' > tail /\ tail' \in Nat
        BY <1>0, <2>2, <2>3
    <2> QED BY <1>0, <2>1, <2>4, <2>5
<1>2. ASSUME UNCHANGED <<applied, tail>>
      PROVE  tail' >= tail /\ \A b \in Batches : applied'[b] >= applied[b]
    BY <1>0, <1>2
<1>3. ASSUME NEW s \in Sessions, Applies(s)
      PROVE  tail' >= tail /\ \A b \in Batches : applied'[b] >= applied[b]
    BY <1>0, <1>1, <1>3
<1>4. ASSUME NEW s, NEW b, Sends(s, b)
      PROVE  UNCHANGED <<applied, tail>>
    BY <1>4 DEF Sends
<1>5. ASSUME NEW s, Takes(s)
      PROVE  UNCHANGED <<applied, tail>>
    BY <1>5 DEF Takes
<1> QED BY <1>1, <1>2, <1>3, <1>4, <1>5, LineCases DEF Rests

-----------------------------------------------------------------------------
(* Acknowledgements speak the truth about the stream, in its order.        *)
LEMMA AcksTrueStep ==
    ASSUME Base, Base', ConnOK, AcksTrue, [Next]_<<vars, setup>>
    PROVE  AcksTrue'
<1>0. /\ tail \in Nat /\ tail' >= tail /\ lastAckedEnd \in Nat
      /\ \A b \in Batches : applied[b] \in Nat /\ applied'[b] >= applied[b]
      /\ applied' \in [Batches -> Nat] /\ tail' \in Nat
    BY StreamGrows DEF Base, TypeOK, TransportTypeOK
<1>w. ASSUME NEW s \in Sessions, NEW i \in DOMAIN Way(s)
      PROVE  /\ i \in Nat /\ Way(s)[i].of \in Batches /\ Way(s)[i].end \in Nat
             /\ applied[Way(s)[i].of] >= 1 /\ Way(s)[i].end <= tail
    <2>1. Way(s) \in Seq(Acks)
        BY LineTypes DEF Base
    <2>2. Way(s)[i] \in Acks /\ i \in Nat
        BY <2>1
    <2> QED BY <2>2 DEF Acks, AcksTrue
<1>1. ASSUME NEW s \in Sessions, NEW i \in DOMAIN Way(s)'
      PROVE  applied'[Way(s)'[i].of] >= 1 /\ Way(s)'[i].end <= tail'
    <2>1. CASE \E k \in DOMAIN Way(s) : Way(s)'[i] = Way(s)[k]
        BY <1>0, <1>w, <2>1
    <2>2. CASE Applies(s) /\ Way(s)'[i] = [of |-> Head(Inbox(s)), end |-> tail']
        <3>1. Head(Inbox(s)) \in Batches /\ applied'[Head(Inbox(s))] = applied[Head(Inbox(s))] + 1
            BY <2>2, StreamGrows
        <3> QED BY <1>0, <2>2, <3>1
    <2> QED BY <2>1, <2>2, WayComes
<1>2. lastAckedEnd' <= tail'
    <2>1. CASE lastAckedEnd' = lastAckedEnd
        BY <1>0, <2>1 DEF AcksTrue
    <2>2. ASSUME NEW s \in Sessions, Takes(s), lastAckedEnd' # lastAckedEnd
          PROVE  lastAckedEnd' <= tail'
        <3>1. lastAckedEnd' = Way(s)[1].end /\ Way(s) # <<>>
            BY <2>2 DEF Takes
        <3>2. 1 \in DOMAIN Way(s)
            BY <3>1, LineTypes DEF Base
        <3> QED BY <1>0, <1>w, <3>1, <3>2
    <2> QED BY <2>1, <2>2, LineCases DEF Rests, Steady, Applies, SessionVars
<1>3. ASSUME NEW s \in Sessions, NEW i \in DOMAIN Way(s)', NEW j \in DOMAIN Way(s)', i < j
      PROVE  Way(s)'[i].end < Way(s)'[j].end
    <2>0. Way(s) \in Seq(Acks) /\ Way(s)' \in Seq(Acks)
        BY LineTypes, LineTypesNext DEF Base
    <2>1. PICK d \in {0, 1} : WayShift(s, d)
        BY WayShifts
    <2>2. i \in Nat /\ j \in Nat /\ j <= Len(Way(s)')
        BY <2>0
    <2>3. CASE i + d \in DOMAIN Way(s) /\ Way(s)'[i] = Way(s)[i + d]
        <3>1. CASE j + d \in DOMAIN Way(s) /\ Way(s)'[j] = Way(s)[j + d]
            <4>1. i + d < j + d
                BY <1>3, <2>2
            <4> QED BY <2>3, <3>1, <4>1 DEF AcksTrue
        <3>2. CASE Applies(s) /\ Way(s)'[j] = [of |-> Head(Inbox(s)), end |-> tail']
            <4>1. Way(s)'[i].end <= tail /\ Way(s)'[i].end \in Nat
                BY <1>w, <2>3
            <4>2. tail' > tail
                BY <3>2, StreamGrows
            <4> QED BY <1>0, <3>2, <4>1, <4>2
        <3> QED BY <2>1, <3>1, <3>2 DEF WayShift
    <2>4. CASE d = 0 /\ i = Len(Way(s)) + 1
        <3>1. j \in DOMAIN Way(s) \/ j = Len(Way(s)) + 1
            BY <2>1, <2>2, <2>4 DEF WayShift
        <3> QED BY <1>3, <2>0, <2>2, <2>4, <3>1
    <2> QED BY <2>1, <2>3, <2>4 DEF WayShift
<1> QED BY <1>1, <1>2, <1>3 DEF AcksTrue

(* A batch is acknowledged only as the head of the queue, by an            *)
(* acknowledgement that concerns it and passes the check of handleAck.     *)
LEMMA AckedComes ==
    ASSUME Base, ConnOK, [Next]_<<vars, setup>>, NEW b \in Batches, result'[b] = "acked"
    PROVE  \/ result[b] = "acked" /\ ackedBy'[b] = ackedBy[b]
           \/ \E s \in Sessions :
                 /\ Takes(s) /\ ConcernsHead(s, Way(s)[1]) /\ ValidAck(Head(inflightQueue), Way(s)[1])
                 /\ b = Head(inflightQueue) /\ ackedBy'[b] = Way(s)[1]
                 /\ inflightQueue' = Tail(inflightQueue) /\ lastAckedEnd' = Way(s)[1].end
<1>0. result \in [Batches -> {"none", "acked"} \cup Failures] /\ lastAckedEnd \in Nat
      /\ ackedBy \in [Batches -> Acks \cup {NoAck}] /\ inflightQueue \in Seq(Batches)
    BY DEF Base, TypeOK
<1>f. ASSUME FailsAll
      PROVE  result[b] = "acked"
    <2>1. PICK outcome \in [Queued -> Failures] :
             result' = [x \in Batches |-> IF x \in Queued THEN outcome[x] ELSE result[x]]
        BY <1>f DEF FailsAll
    <2> QED BY <2>1 DEF Failures
<1>1. CASE Steady
    <2>1. CASE LeavesQueue
        BY <1>1, <2>1 DEF LeavesQueue, Steady
    <2>2. CASE FailsAll
        BY <1>1, <2>2, <1>f DEF Steady
    <2>3. CASE Completes
        BY <1>0, <1>1, <2>3 DEF Completes, Steady
    <2>4. CASE PumpMarks
        BY <1>1, <2>4 DEF PumpMarks, Steady
    <2>5. ASSUME NEW e \in Batches, Submitter(e)
          PROVE  result' = result
        BY <2>5 DEF Submitter, Submit, Reserve, Enqueue, queueVars
    <2> QED BY <1>1, <2>1, <2>2, <2>3, <2>4, <2>5, QueueSteps DEF Base, Steady
<1>2. ASSUME NEW s \in Sessions, Takes(s)
      PROVE  \/ result[b] = "acked" /\ ackedBy'[b] = ackedBy[b]
             \/ /\ ConcernsHead(s, Way(s)[1]) /\ ValidAck(Head(inflightQueue), Way(s)[1])
                /\ b = Head(inflightQueue) /\ ackedBy'[b] = Way(s)[1]
                /\ inflightQueue' = Tail(inflightQueue) /\ lastAckedEnd' = Way(s)[1].end
    <2>1. CASE UNCHANGED <<result, ackedBy>>
        BY <2>1
    <2>2. CASE FailsAll /\ UNCHANGED ackedBy
        BY <2>2, <1>f
    <2>3. CASE /\ ConcernsHead(s, Way(s)[1]) /\ ValidAck(Head(inflightQueue), Way(s)[1])
               /\ inflightQueue' = Tail(inflightQueue)
               /\ result' = [result EXCEPT ![Head(inflightQueue)] = "acked"]
               /\ ackedBy' = [ackedBy EXCEPT ![Head(inflightQueue)] = Way(s)[1]]
               /\ lastAckedEnd' = Way(s)[1].end
        <3>1. Head(inflightQueue) \in Batches
            BY <1>0, <2>3 DEF ConcernsHead
        <3>2. CASE b = Head(inflightQueue)
            BY <1>0, <2>3, <3>1, <3>2
        <3>3. CASE b # Head(inflightQueue)
            BY <1>0, <2>3, <3>1, <3>3
        <3> QED BY <3>2, <3>3
    <2> QED BY <1>2, <2>1, <2>2, <2>3 DEF Takes
<1>3. ASSUME NEW s \in Sessions, UNCHANGED SessionVars
      PROVE  Steady
    BY <1>3 DEF SessionVars, queueVars, Steady
<1> QED BY <1>1, <1>2, <1>3, LineCases DEF Rests

(* The last acknowledged position never goes back.                         *)
LEMMA LastGrows ==
    ASSUME Base, [Next]_<<vars, setup>>
    PROVE  lastAckedEnd' >= lastAckedEnd
<1>0. lastAckedEnd \in Nat
    BY DEF Base, TypeOK
<1>1. CASE lastAckedEnd' = lastAckedEnd
    BY <1>0, <1>1
<1>2. CASE Completes
    BY <1>0, <1>2 DEF Completes
<1>3. CASE LeavesQueue \/ FailsAll
    BY <1>1, <1>3 DEF LeavesQueue, FailsAll
<1>4. CASE PumpMarks
    BY <1>1, <1>4 DEF PumpMarks
<1>5. ASSUME NEW e \in Batches, Submitter(e)
      PROVE  lastAckedEnd' = lastAckedEnd
    BY <1>5 DEF Submitter, Submit, Reserve, Enqueue
<1> QED BY <1>1, <1>2, <1>3, <1>4, <1>5, QueueSteps DEF Base

(* Every acknowledged batch is backed by an acknowledgement of a batch of  *)
(* the same number of records, which is in the stream, not beyond the last *)
(* acknowledged position.                                                  *)
LEMMA AckedTrueStep ==
    ASSUME Base, Base', ConnOK, AcksTrue, AckedTrue, [Next]_<<vars, setup>>
    PROVE  AckedTrue'
<1> SUFFICES ASSUME NEW b \in Batches, result'[b] = "acked"
             PROVE  /\ ackedBy'[b] \in Acks /\ applied'[ackedBy'[b].of] >= 1
                    /\ Count[ackedBy'[b].of] = Count[b] /\ ackedBy'[b].end <= lastAckedEnd'
    BY DEF AckedTrue
<1>0. ASSUME NEW a \in Acks, applied[a.of] >= 1
      PROVE  applied'[a.of] >= 1
    <2>1. a.of \in Batches
        BY DEF Acks
    <2>2. applied[a.of] \in Nat /\ applied'[a.of] >= applied[a.of] /\ applied'[a.of] \in Nat
        <3>1. applied \in [Batches -> Nat] /\ applied' \in [Batches -> Nat]
            BY DEF Base, TypeOK, TransportTypeOK
        <3> QED BY <2>1, <3>1, StreamGrows
    <2> QED BY <1>0, <2>1, <2>2
<1>1. CASE result[b] = "acked" /\ ackedBy'[b] = ackedBy[b]
    <2>1. ackedBy[b] \in Acks /\ ackedBy[b].end \in Nat /\ lastAckedEnd \in Nat /\ lastAckedEnd' \in Nat
        BY <1>1 DEF AckedTrue, Acks, Base, TypeOK
    <2>2. ackedBy[b].end <= lastAckedEnd'
        BY <1>1, <2>1, LastGrows DEF AckedTrue
    <2> QED BY <1>0, <1>1, <2>1, <2>2 DEF AckedTrue
<1>2. ASSUME NEW s \in Sessions, Takes(s), ConcernsHead(s, Way(s)[1]),
             ValidAck(Head(inflightQueue), Way(s)[1]), b = Head(inflightQueue), ackedBy'[b] = Way(s)[1],
             lastAckedEnd' = Way(s)[1].end
      PROVE  /\ ackedBy'[b] \in Acks /\ applied'[ackedBy'[b].of] >= 1
             /\ Count[ackedBy'[b].of] = Count[b] /\ ackedBy'[b].end <= lastAckedEnd'
    <2>1. Way(s) \in Seq(Acks) /\ Way(s) # <<>>
        BY <1>2, LineTypes DEF Base, Takes
    <2>2. 1 \in DOMAIN Way(s) /\ Way(s)[1] \in Acks
        BY <2>1
    <2>3. applied[Way(s)[1].of] >= 1
        BY <2>2 DEF AcksTrue
    <2>4. ackedBy'[b].end <= lastAckedEnd'
        BY <1>2, <2>2 DEF Acks
    <2> QED BY <1>0, <1>2, <2>2, <2>3, <2>4 DEF ValidAck
<1> QED BY <1>1, <1>2, AckedComes

(* Once a batch has failed the session is closing and holds no batch.      *)
LEMMA FailedEndsStep ==
    ASSUME Base, FailedEnds, [Next]_<<vars, setup>>
    PROVE  FailedEnds'
<1>0. result \in [Batches -> {"none", "acked"} \cup Failures] /\ inflightQueue \in Seq(Batches)
    BY DEF Base, TypeOK
<1>1. CASE LeavesQueue
    <2>1. closing => closing'
        BY ClosingStep DEF Base
    <2> QED BY <1>1, <2>1 DEF LeavesQueue, FailedEnds
<1>2. CASE FailsAll
    BY <1>2 DEF FailsAll, FailedEnds
<1>3. CASE Completes
    <2>1. \A b \in Batches : result[b] \notin Failures
        BY <1>3 DEF Completes, FailedEnds
    <2>2. Head(inflightQueue) \in Batches
        BY <1>0, <1>3 DEF Completes
    <2>3. \A b \in Batches : result'[b] \notin Failures
        BY <1>0, <1>3, <2>1, <2>2 DEF Completes, Failures
    <2> QED BY <2>3 DEF FailedEnds
<1>4. CASE PumpMarks
    BY <1>4 DEF PumpMarks, closeVars, FailedEnds
<1>5. ASSUME NEW e \in Batches, Submitter(e)
      PROVE  FailedEnds'
    <2>1. UNCHANGED <<result, closing>>
        BY <1>5 DEF Submitter, Submit, Reserve, Enqueue, queueVars, closeVars
    <2>2. closing => UNCHANGED inflightQueue
        BY <1>5 DEF Submitter, Submit, Reserve, Enqueue, queueVars
    <2> QED BY <2>1, <2>2 DEF FailedEnds
<1> QED BY <1>1, <1>2, <1>3, <1>4, <1>5, QueueSteps DEF Base

(* Nothing is on a connection that was not opened.                         *)
LEMMA ConnStep ==
    ASSUME Base, ConnOK, [Next]_<<vars, setup>>
    PROVE  ConnOK'
<1>0. TypeOK /\ PumpOK /\ setup \in Setups /\ ClosingOK /\ QueueOK
    BY DEF Base
<1>p. ASSUME Looping, NEW s, s = pumpSession
      PROVE  transport'[s].conn # "none"
    <2>1. s \in Sessions /\ transport[s].conn # "none"
        BY <1>p DEF ConnOK, Looping, Base, PumpOK
    <2> QED BY <1>0, <2>1, ConnFacts
<1>1. Shut'
    <2>1. Shut => Shut'
        <3>1. CASE Sessions = {}
            BY <3>1 DEF Shut
        <3>2. CASE Sessions # {}
            BY <1>0, <3>2, ConnFacts
        <3> QED BY <3>1, <3>2
    <2> QED BY <2>1 DEF ConnOK
<1>2. ASSUME NEW s \in Sessions, transport'[s].conn = "none"
      PROVE  Blank(s)' /\ \A b \in Batches : s \notin entry'[b].sentOn
    <2>1. Blank(s) /\ \A b \in Batches : s \notin entry[b].sentOn
        BY <1>0, <1>2, ConnFacts DEF ConnOK
    <2>2. ~ (PumpSends /\ s = pumpSession)
        BY <1>2, <1>p DEF PumpSends, PumpWrites, Looping
    <2>3. Blank(s)'
        BY <1>0, <1>2, <2>1, <2>2, ConnFacts
    <2>4. ASSUME NEW b \in Batches, s \in entry'[b].sentOn
          PROVE  FALSE
        <3>1. PumpMarks /\ s = pumpSession
            BY <1>0, <2>1, <2>4, NewlySent
        <3> QED BY <1>2, <1>p, <3>1 DEF PumpMarks, Looping
    <2> QED BY <2>3, <2>4
<1>3. ASSUME currentSession' # NoSession
      PROVE  transport'[currentSession'].conn # "none"
    <2>1. CASE currentSession' = currentSession
        <3>1. currentSession \in Sessions /\ transport[currentSession].conn # "none"
            BY <1>3, <2>1, <1>0 DEF ConnOK, TypeOK
        <3>2. \A q \in Sessions : transport[q].conn # "none" => transport'[q].conn # "none"
            BY <1>0, ConnFacts
        <3> QED BY <2>1, <3>1, <3>2
    <2>2. CASE PumpOpensSession
        BY <1>0, <2>2, OpensSession DEF Opens
    <2> QED BY <1>3, <2>1, <2>2, CurrentMoves
<1>4. ASSUME Looping'
      PROVE  transport'[pumpSession'].conn # "none"
    <2>0. \A q \in Sessions : transport[q].conn # "none" => transport'[q].conn # "none"
        BY <1>0, ConnFacts
    <2>1. CASE LoopStarts
        <3>1. currentSession \in Sessions /\ transport[currentSession].conn # "none"
            BY <1>0, <2>1 DEF LoopStarts, ConnOK, TypeOK
        <3> QED BY <2>0, <2>1, <3>1 DEF LoopStarts
    <2>2. CASE Looping /\ pumpSession' = pumpSession
        BY <2>2, <1>p
    <2>3. (Looping /\ pumpSession' = pumpSession) \/ LoopStarts
        BY <1>0, <1>4, LoopMoves DEF Looping, PumpMarks
    <2> QED BY <2>1, <2>2, <2>3
<1> QED BY <1>1, <1>2, <1>3, <1>4 DEF ConnOK

(* What is under way was submitted, and a batch of the queue that is under *)
(* way on a connection is recorded as sent on it.                          *)
LEMMA SentStep ==
    ASSUME Base, ConnOK, SentOK, LoopOK, [Next]_<<vars, setup>>
    PROVE  SentOK'
<1> SUFFICES ASSUME NEW s \in Sessions, NEW b \in Batches, OnWay(s, b)'
             PROVE  sub'[b] = "enqueued" /\ (b \in Queued' => s \in entry'[b].sentOn)
    BY DEF SentOK
<1>1. QueueForward
    BY QueueMovesForward DEF Base
<1>2. sub[b] = "enqueued" /\ (b \in Queued => s \in entry[b].sentOn)
    <2>1. CASE OnWay(s, b)
        BY <2>1 DEF SentOK
    <2>2. CASE PumpSends /\ s = pumpSession /\ b = Head(pumpTodo)
        <3>1. pump = "write" /\ pumpTodo \in Seq(Batches) /\ pumpTodo # <<>>
            BY <2>2 DEF PumpSends, PumpWrites, PumpOK, Base, TypeOK
        <3>2. 1 \in DOMAIN pumpTodo /\ pumpTodo[1] = b
            BY <2>2, <3>1
        <3>3. sub[b] = "enqueued"
            BY <3>2 DEF Base, TodoOK
        <3> QED BY <2>2, <3>1, <3>3 DEF LoopOK
    <2> QED BY <2>1, <2>2, OnWayComes
<1>3. sub'[b] = "enqueued" /\ (b \in Queued' => b \in Queued /\ entry[b].sentOn \subseteq entry'[b].sentOn)
    BY <1>1, <1>2 DEF QueueForward
<1> QED BY <1>2, <1>3

(* The snapshot of the queue is taken in one step.                         *)
LEMMA LoopStartsQuietly ==
    ASSUME [Next]_<<vars, setup>>, LoopStarts
    PROVE  UNCHANGED <<inflightQueue, entry, result>>
<1>1. Pump
    BY PumpMoves DEF LoopStarts
<1>2. PumpSubmits
    BY <1>1 DEF LoopStarts, Pump, PumpWakes, PumpCancelled, PumpProcess, PumpKeepsSession,
       PumpOpensSession, PumpStartFails, PumpMarks, PumpDoneSending, PumpAppends, PumpWrites,
       PumpClaims, PumpResolves, PumpTimeouts
<1> QED BY <1>2 DEF PumpSubmits, queueVars

(* Two batches one before the other in the queue are two batches of it. *)
LEMMA PrecParts ==
    ASSUME Base, NEW a, NEW b, Prec(b, a)
    PROVE  /\ a \in Batches /\ b \in Batches /\ a \in Queued /\ b \in Queued /\ a # b
           /\ sub[a] = "enqueued" /\ result[a] = "none" /\ sub[b] = "enqueued" /\ result[b] = "none"
<1>1. PICK k, m \in DOMAIN inflightQueue : k < m /\ inflightQueue[k] = b /\ inflightQueue[m] = a
    BY DEF Prec
<1>2. inflightQueue \in Seq(Batches) /\ IsInjective(inflightQueue)
    BY DEF Base, TypeOK, QueueOK
<1>3. a \in Batches /\ b \in Batches /\ a \in Queued /\ b \in Queued
    BY <1>1, <1>2 DEF Queued
<1>4. a # b
    BY <1>1, <1>2 DEF IsInjective
<1> QED BY <1>3, <1>4 DEF Base, QueueOK

(* Positions in what remains of a sequence.                                *)
LEMMA Slides ==
    ASSUME NEW j \in Nat, NEW p \in Nat, NEW i \in Nat, NEW m \in Nat,
           j >= p, j < i + p - 1, j <= m
    PROVE  j - p + 1 \in 1 .. m - p + 1 /\ j - p + 1 < i /\ j - p + 1 + p - 1 = j
OBVIOUS

(* What the pump has still to send is in the order of the queue: whatever  *)
(* is before it was sent on this connection or comes first.                *)
LEMMA LoopStep ==
    ASSUME Base, Base', ConnOK, LoopOK, [Next]_<<vars, setup>>
    PROVE  LoopOK'
<1> DEFINE InOrder(i, a) ==
               \A b \in Batches : Prec(b, a)' =>
                  pumpSession' \in entry'[b].sentOn
                    \/ \E j \in DOMAIN pumpTodo' : j < i /\ pumpTodo'[j] = b
           Marked(h) == h \in Queued' => pumpSession' \in entry'[h].sentOn
<1>f. QueueForward /\ TypeOK /\ PumpOK
    BY QueueMovesForward DEF Base
<1>t. /\ pumpTodo \in Seq(Batches) /\ \A i \in DOMAIN pumpTodo : sub[pumpTodo[i]] = "enqueued"
      /\ \A i \in DOMAIN pumpTodo : i \in Nat
      /\ \A i \in DOMAIN pumpTodo : pumpTodo[i] \in Batches
    <2>1. pumpTodo \in Seq(Batches)
        BY DEF Base, TypeOK
    <2>2. \A i \in DOMAIN pumpTodo : i \in Nat /\ pumpTodo[i] \in Batches
        BY <2>1
    <2> QED BY <2>1, <2>2 DEF Base, TodoOK
<1>b. ASSUME NEW a \in Batches, NEW b \in Batches, Prec(b, a)', sub[a] = "enqueued"
      PROVE  /\ Prec(b, a) /\ b \in Queued /\ result[b] = "none" /\ a # b
             /\ entry[b].sentOn \subseteq entry'[b].sentOn
    <2>1. Prec(b, a)
        BY <1>b, <1>f DEF QueueForward
    <2>2. b \in Queued'
        BY <1>b DEF Prec, Queued
    <2> QED BY <1>f, <2>1, <2>2, PrecParts DEF QueueForward
<1>d. ASSUME Looping, NEW i \in DOMAIN pumpTodo, NEW a, a = pumpTodo[i], NEW b \in Batches, Prec(b, a)'
      PROVE  /\ b \in Queued /\ result[b] = "none" /\ a # b
             /\ pumpSession \in entry'[b].sentOn
                  \/ \E j \in DOMAIN pumpTodo : j < i /\ pumpTodo[j] = b
             /\ pumpSession \in entry[b].sentOn => pumpSession \in entry'[b].sentOn
    <2>1. a \in Batches /\ sub[a] = "enqueued"
        BY <1>d, <1>t
    <2>2. /\ Prec(b, a) /\ b \in Queued /\ result[b] = "none" /\ a # b
          /\ entry[b].sentOn \subseteq entry'[b].sentOn
        BY <1>b, <1>d, <2>1
    <2>3. pumpSession \in entry[b].sentOn \/ \E j \in DOMAIN pumpTodo : j < i /\ pumpTodo[j] = b
        BY <1>d, <2>2 DEF LoopOK
    <2> QED BY <2>2, <2>3
<1>m. ASSUME pump \in {"append", "write"}, UNCHANGED <<pumpSession, pumpTodo>>, NEW h, h = Head(pumpTodo)
      PROVE  Marked(h)
    <2>1. h \in Batches /\ sub[h] = "enqueued"
        <3>1. pumpTodo # <<>>
            BY <1>m, <1>f DEF PumpOK
        <3>2. 1 \in DOMAIN pumpTodo /\ h = pumpTodo[1]
            BY <1>m, <1>t, <3>1
        <3> QED BY <3>2, <1>t
    <2>2. h \in Queued' => h \in Queued /\ entry[h].sentOn \subseteq entry'[h].sentOn
        BY <1>f, <2>1 DEF QueueForward
    <2> QED BY <1>m, <2>2 DEF LoopOK
<1>1. ASSUME Looping, UNCHANGED <<pumpSession, pumpTodo>>, pump' \in {"append", "write"} => pump \in {"append", "write"}
      PROVE  LoopOK'
    <2>1. ASSUME NEW i \in DOMAIN pumpTodo', NEW a, a = pumpTodo'[i]
          PROVE  InOrder(i, a)
        BY <1>1, <2>1, <1>d
    <2>2. ASSUME pump' \in {"append", "write"}, NEW h, h = Head(pumpTodo')
          PROVE  Marked(h)
        BY <1>1, <2>2, <1>m
    <2> QED BY <2>1, <2>2 DEF LoopOK
<1>2. CASE LoopStarts
    <2>1. UNCHANGED inflightQueue
        BY <1>2, <1>f, LoopStartsQuietly DEF LoopStarts
    <2>2. inflightQueue \in Seq(Batches) /\ IsInjective(inflightQueue)
        BY DEF Base, TypeOK, QueueOK
    <2>3. ASSUME NEW i \in DOMAIN pumpTodo', NEW a, a = pumpTodo'[i]
          PROVE  InOrder(i, a)
        <3>1. ASSUME NEW b \in Batches, Prec(b, a)'
              PROVE  \E j \in DOMAIN pumpTodo' : j < i /\ pumpTodo'[j] = b
            <4>1. PICK k, m \in DOMAIN inflightQueue : k < m /\ inflightQueue[k] = b /\ inflightQueue[m] = a
                BY <3>1, <2>1 DEF Prec
            <4>2. m = i
                BY <1>2, <2>2, <2>3, <4>1 DEF LoopStarts, IsInjective
            <4> QED BY <1>2, <4>1, <4>2 DEF LoopStarts
        <3> QED BY <3>1
    <2> QED BY <1>2, <2>3 DEF LoopOK, LoopStarts
<1>3. CASE PumpMarks /\ pumpSession' = pumpSession
    <2>1. PICK i0 \in DOMAIN pumpTodo :
             /\ Sendable(i0) /\ \A j \in 1..(i0 - 1) : ~ Sendable(j)
             /\ pumpTodo' = SubSeq(pumpTodo, i0, Len(pumpTodo))
             /\ entry' = [entry EXCEPT
                    ![pumpTodo[i0]].sentOn = @ \cup {pumpSession},
                    ![pumpTodo[i0]].attemptStart = IF @ = "zero" THEN "running" ELSE @]
        BY <1>3 DEF PumpMarks
    <2>2. /\ DOMAIN pumpTodo' = 1 .. Len(pumpTodo) - i0 + 1
          /\ \A i \in DOMAIN pumpTodo' : i + i0 - 1 \in DOMAIN pumpTodo /\ pumpTodo'[i] = pumpTodo[i + i0 - 1]
          /\ i0 \in Nat /\ i0 >= 1 /\ Head(pumpTodo') = pumpTodo[i0]
        BY <1>t, <2>1
    <2>3. ASSUME NEW i \in DOMAIN pumpTodo', NEW a, a = pumpTodo'[i]
          PROVE  InOrder(i, a)
        <3>1. ASSUME NEW b \in Batches, Prec(b, a)'
              PROVE  pumpSession' \in entry'[b].sentOn
                        \/ \E j \in DOMAIN pumpTodo' : j < i /\ pumpTodo'[j] = b
            <4>0. Looping /\ i \in Nat
                BY <1>3, <2>2 DEF PumpMarks, Looping
            <4>1. i + i0 - 1 \in DOMAIN pumpTodo /\ a = pumpTodo[i + i0 - 1]
                BY <2>2, <2>3
            <4>2. /\ result[b] = "none"
                  /\ pumpSession \in entry'[b].sentOn
                        \/ \E j \in DOMAIN pumpTodo : j < i + i0 - 1 /\ pumpTodo[j] = b
                  /\ pumpSession \in entry[b].sentOn => pumpSession \in entry'[b].sentOn
                BY <1>d, <3>1, <4>0, <4>1
            <4>3. ASSUME NEW j \in DOMAIN pumpTodo, j < i + i0 - 1, pumpTodo[j] = b
                  PROVE  pumpSession' \in entry'[b].sentOn
                            \/ \E n \in DOMAIN pumpTodo' : n < i /\ pumpTodo'[n] = b
                <5>1. j \in Nat /\ j >= 1
                    BY <1>t
                <5>2. CASE j < i0
                    <6>1. ~ Sendable(j)
                        BY <2>1, <2>2, <5>1, <5>2
                    <6> QED BY <1>3, <4>2, <4>3, <6>1 DEF Sendable
                <5>3. CASE j >= i0
                    <6>0. j <= Len(pumpTodo) /\ Len(pumpTodo) \in Nat
                        BY <1>t
                    <6>1. PICK n \in Nat : n = j - i0 + 1
                        BY <2>2, <5>1, <5>3
                    <6>a. i0 \in Nat /\ i \in Nat /\ j < i + i0 - 1
                        BY <2>2, <4>0, <4>3
                    <6>2. n \in 1 .. Len(pumpTodo) - i0 + 1 /\ n < i /\ n + i0 - 1 = j
                        BY <5>1, <5>3, <6>0, <6>1, <6>a, Slides
                    <6>3. n \in DOMAIN pumpTodo'
                        BY <2>2, <6>2
                    <6>4. pumpTodo'[n] = b
                        BY <2>2, <4>3, <6>2, <6>3
                    <6> QED BY <6>2, <6>3, <6>4
                <5> QED BY <2>2, <5>1, <5>2, <5>3
            <4> QED BY <1>3, <4>2, <4>3
        <3> QED BY <3>1
    <2>4. ASSUME NEW h, h = Head(pumpTodo')
          PROVE  Marked(h)
        <3>1. h = pumpTodo[i0] /\ h \in Batches
            BY <1>t, <2>2, <2>4
        <3>2. pumpSession \in entry'[h].sentOn
            BY <2>1, <3>1, <1>f DEF TypeOK, Entries
        <3> QED BY <1>3, <3>2
    <2> QED BY <2>3, <2>4 DEF LoopOK
<1>4. CASE PumpSends /\ pump = "write" /\ pump' = "mark" /\ pumpTodo' = Tail(pumpTodo) /\ pumpSession' = pumpSession
    <2>0. pumpTodo # <<>>
        BY <1>4, <1>f DEF PumpOK
    <2>1. \A i \in DOMAIN pumpTodo' : i \in Nat /\ i >= 1 /\ i + 1 \in DOMAIN pumpTodo /\ pumpTodo'[i] = pumpTodo[i + 1]
        BY <1>4, <1>t, <2>0
    <2>2. \A j \in DOMAIN pumpTodo : j = 1 \/ (j - 1 \in DOMAIN pumpTodo' /\ pumpTodo'[j - 1] = pumpTodo[j])
        BY <1>4, <1>t, <2>0
    <2>3. ASSUME NEW i \in DOMAIN pumpTodo', NEW a, a = pumpTodo'[i]
          PROVE  InOrder(i, a)
        <3>1. ASSUME NEW b \in Batches, Prec(b, a)'
              PROVE  pumpSession' \in entry'[b].sentOn
                        \/ \E j \in DOMAIN pumpTodo' : j < i /\ pumpTodo'[j] = b
            <4>1. /\ b \in Queued
                  /\ pumpSession \in entry'[b].sentOn
                        \/ \E j \in DOMAIN pumpTodo : j < i + 1 /\ pumpTodo[j] = b
                  /\ pumpSession \in entry[b].sentOn => pumpSession \in entry'[b].sentOn
                BY <1>4, <1>d, <2>1, <2>3, <3>1 DEF Looping
            <4>2. ASSUME NEW j \in DOMAIN pumpTodo, j < i + 1, pumpTodo[j] = b
                  PROVE  pumpSession' \in entry'[b].sentOn
                            \/ \E n \in DOMAIN pumpTodo' : n < i /\ pumpTodo'[n] = b
                <5>1. CASE j = 1
                    <6>1. b = Head(pumpTodo)
                        BY <1>t, <2>0, <4>2, <5>1
                    <6>2. pumpSession \in entry[b].sentOn
                        BY <1>4, <4>1, <6>1 DEF LoopOK
                    <6> QED BY <1>4, <4>1, <6>2
                <5>2. CASE j # 1
                    <6>1. j - 1 \in DOMAIN pumpTodo' /\ pumpTodo'[j - 1] = b /\ j - 1 < i
                        BY <1>t, <2>1, <2>2, <4>2, <5>2
                    <6> QED BY <6>1
                <5> QED BY <5>1, <5>2
            <4> QED BY <1>4, <4>1, <4>2
        <3> QED BY <3>1
    <2> QED BY <1>4, <2>3 DEF LoopOK
<1>5. CASE ~ Looping'
    BY <1>5 DEF Looping, LoopOK
<1>6. CASE Looping' /\ UNCHANGED <<pump, pumpSession, pumpTodo, pumpErr>>
    BY <1>1, <1>6 DEF Looping
<1>7. CASE pump = "append" /\ UNCHANGED <<pumpSession, pumpTodo>>
    BY <1>1, <1>7 DEF Looping
<1> QED BY <1>f, <1>2, <1>3, <1>4, <1>5, <1>6, <1>7, LoopMoves

-----------------------------------------------------------------------------
(* A step that takes an acknowledgement applies no frame.                  *)
LEMMA TakesOrApplies ==
    ASSUME Base, NEW s \in Sessions, NEW q \in Sessions, Takes(s), Applies(q)
    PROVE  FALSE
<1>1. Inbox(q) \in Seq(Batches) /\ Inbox(q) # <<>> /\ Inbox(q)' = Tail(Inbox(q))
    BY LineTypes DEF Base, Applies
<1>2. Inbox(q)' = Inbox(q)
    BY DEF Takes, SameLine
<1> QED BY <1>1, <1>2

(* One that applies a frame of s applies none of another connection.       *)
LEMMA AppliesOne ==
    ASSUME Base, NEW s \in Sessions, NEW q \in Sessions, Applies(s), Applies(q)
    PROVE  s = q
<1> SUFFICES ASSUME s # q PROVE FALSE
    OBVIOUS
<1>1. Inbox(q) \in Seq(Batches) /\ Inbox(q) # <<>> /\ Inbox(q)' = Tail(Inbox(q))
    BY LineTypes DEF Base, Applies
<1>2. Inbox(q)' = Inbox(q)
    BY DEF Applies, SameLine
<1> QED BY <1>1, <1>2

(* As long as nothing was applied twice, the oldest acknowledgement of a   *)
(* connection is that of the head of the queue, or of no queued batch.     *)
LEMMA OldestIsHead ==
    ASSUME Base, SentOK, FailedEnds, UniqueOK, OrderOK, AheadOK, NEW s \in Sessions, Way(s) # <<>>
    PROVE  /\ Way(s)[1].of \in Queued =>
                 Way(s)[1].of = Head(inflightQueue) /\ ConcernsHead(s, Way(s)[1])
           /\ ConcernsHead(s, Way(s)[1]) =>
                 Way(s)[1].of = Head(inflightQueue) /\ Way(s)[1].of \in Queued
<1> DEFINE y == Way(s)[1].of
<1>1. Way(s) \in Seq(Acks) /\ inflightQueue \in Seq(Batches)
    BY LineTypes DEF Base, TypeOK
<1>2. 1 \in DOMAIN Way(s) /\ Way(s)[1] \in Acks
    BY <1>1
<1>3. y \in Batches /\ OnWay(s, y) /\ AckOn(s, y)
    BY <1>2 DEF Acks, OnWay, AckOn
<1>4. ASSUME y \in Queued
      PROVE  y = Head(inflightQueue) /\ ConcernsHead(s, Way(s)[1])
    <2>1. PICK m \in DOMAIN inflightQueue : inflightQueue[m] = y
        BY <1>4 DEF Queued
    <2>2. m = 1
        <3> SUFFICES ASSUME m # 1 PROVE FALSE
            OBVIOUS
        <3>1. 1 \in DOMAIN inflightQueue /\ 1 < m /\ inflightQueue[1] \in Batches
            BY <1>1, <2>1
        <3>2. Prec(inflightQueue[1], y)
            BY <2>1, <3>1 DEF Prec
        <3>3. \E i \in DOMAIN Way(s) : i < 1 /\ Way(s)[i].of = inflightQueue[1]
            BY <1>2, <3>1, <3>2 DEF OrderOK
        <3> QED BY <1>1, <3>3
    <2>3. inflightQueue # <<>> /\ y = Head(inflightQueue)
        BY <1>1, <2>1, <2>2
    <2>4. s \in entry[y].sentOn
        BY <1>3, <1>4 DEF SentOK
    <2>5. Way(s)[1].end > lastAckedEnd
        BY <1>2, <1>4 DEF AheadOK
    <2> HIDE DEF y
    <2> QED BY <2>3, <2>4, <2>5 DEF ConcernsHead
<1>5. ASSUME ConcernsHead(s, Way(s)[1])
      PROVE  y \in Queued
    <2>1. sub[y] = "enqueued"
        BY <1>3 DEF SentOK
    <2>2. result[y] # "acked"
        BY <1>3 DEF UniqueOK
    <2>3. result[y] \notin Failures
        BY <1>3, <1>5 DEF FailedEnds, ConcernsHead
    <2>4. result[y] = "none"
        BY <1>3, <2>2, <2>3 DEF Base, TypeOK
    <2> QED BY <1>3, <2>1, <2>4 DEF Base, QueueOK
<1> QED BY <1>4, <1>5

(* Whatever is taken leaves the queue, if it was in it.                    *)
LEMMA TakenLeaves ==
    ASSUME Base, SentOK, FailedEnds, UniqueOK, OrderOK, AheadOK, NEW s \in Sessions, Takes(s)
    PROVE  /\ Way(s)[1].of \notin Queued'
           /\ lastAckedEnd' # lastAckedEnd => /\ Way(s)[1].of = Head(inflightQueue)
                                              /\ lastAckedEnd' = Way(s)[1].end
<1>1. Way(s) # <<>>
    BY DEF Takes
<1>q. inflightQueue \in Seq(Batches) /\ IsInjective(inflightQueue)
    BY DEF Base, TypeOK, QueueOK
<1>2. CASE ~ConcernsHead(s, Way(s)[1]) /\ UNCHANGED <<inflightQueue, lastAckedEnd>>
    BY <1>1, <1>2, OldestIsHead DEF Queued
<1>3. CASE inflightQueue' = <<>> /\ UNCHANGED lastAckedEnd
    BY <1>3 DEF Queued
<1>4. CASE /\ ConcernsHead(s, Way(s)[1]) /\ inflightQueue' = Tail(inflightQueue)
           /\ lastAckedEnd' = Way(s)[1].end
    <2>1. Way(s)[1].of = Head(inflightQueue) /\ inflightQueue # <<>>
        BY <1>1, <1>4, OldestIsHead DEF ConcernsHead
    <2>2. Range(Tail(inflightQueue)) = Range(inflightQueue) \ {Head(inflightQueue)}
        BY <1>q, <2>1, QueueShrinks
    <2>3. Queued' = Range(Tail(inflightQueue))
        BY <1>4 DEF Queued, Range
    <2> QED BY <1>4, <2>1, <2>2, <2>3
<1> QED BY <1>2, <1>3, <1>4 DEF Takes

(* A step that keeps a response going keeps what is under way of it.       *)
LEMMA UpBack ==
    ASSUME Base, ConnOK, [Next]_<<vars, setup>>, NEW s \in Sessions, Up(s)'
    PROVE  Up(s) /\ (SameLine(s) \/ Takes(s) \/ Applies(s) \/ (PumpSends /\ s = pumpSession))
<1>1. ASSUME NEW r \in Sessions, Applies(r)
      PROVE  Up(s)
    BY <1>1 DEF Applies, SameLine, Up
<1>2. ASSUME NEW r \in Sessions, Takes(r)
      PROVE  Up(s)
    BY <1>2 DEF Takes, SameLine
<1>3. ASSUME NEW r, NEW b, Sends(r, b)
      PROVE  Up(s)
    BY <1>3 DEF Sends, SameLine
<1>4. CutShort(s) => FALSE
    BY DEF CutShort
<1>5. SameLine(s) => Up(s)
    BY DEF SameLine
<1>6. ASSUME NEW r \in Sessions, r # s, Takes(r) \/ Applies(r)
      PROVE  SameLine(s)
    BY <1>6 DEF Takes, Applies
<1>7. ASSUME NEW r, NEW b, r # s, Sends(r, b)
      PROVE  SameLine(s)
    BY <1>7 DEF Sends
<1>8. CASE Rests
    BY <1>4, <1>5, <1>8 DEF Rests
<1>9. ASSUME PumpSends, NEW r, NEW b, r = pumpSession, Sends(r, b)
      PROVE  Up(s) /\ (SameLine(s) \/ (PumpSends /\ s = pumpSession))
    BY <1>3, <1>7, <1>9
<1>10. ASSUME NEW r \in Sessions, Takes(r)
       PROVE  Up(s) /\ (SameLine(s) \/ Takes(s))
    BY <1>2, <1>6, <1>10
<1>11. ASSUME NEW r \in Sessions, Applies(r)
       PROVE  Up(s) /\ (SameLine(s) \/ Applies(s))
    BY <1>1, <1>6, <1>11
<1> QED BY <1>8, <1>9, <1>10, <1>11, LineCases

(* What is acknowledged, or under way, and remains queued stays so.        *)
LEMMA StaysOnWay ==
    ASSUME Base, Base', ConnOK, SentOK, FailedEnds, UniqueOK, OrderOK, AheadOK,
           [Next]_<<vars, setup>>, NEW s \in Sessions, Up(s)', NEW b \in Batches, b \in Queued'
    PROVE  /\ AckOn(s, b) => AckOn(s, b)'
           /\ OnWay(s, b) => OnWay(s, b)'
<1>0. /\ Way(s) \in Seq(Acks) /\ Inbox(s) \in Seq(Batches)
    BY LineTypes DEF Base
<1>1. ASSUME AckOn(s, b)
      PROVE  AckOn(s, b)'
    <2>1. PICK i \in DOMAIN Way(s) : Way(s)[i].of = b
        BY <1>1 DEF AckOn
    <2>2. CASE Way(s)' = Way(s)
        BY <2>1, <2>2 DEF AckOn
    <2>3. CASE Takes(s)
        <3>1. Way(s)' = Tail(Way(s)) /\ Way(s) # <<>>
            BY <2>3 DEF Takes
        <3>2. i # 1
            BY <2>1, <2>3, TakenLeaves
        <3>3. i - 1 \in DOMAIN Way(s)' /\ Way(s)'[i - 1] = Way(s)[i]
            BY <1>0, <3>1, <3>2
        <3> QED BY <2>1, <3>3 DEF AckOn
    <2>4. CASE Applies(s) /\ Up(s)
        <3>1. Way(s)' = Append(Way(s), [of |-> Head(Inbox(s)), end |-> tail'])
            BY <2>4 DEF Applies
        <3>2. i \in DOMAIN Way(s)' /\ Way(s)'[i] = Way(s)[i]
            BY <1>0, <3>1
        <3> QED BY <2>1, <3>2 DEF AckOn
    <2>5. CASE PumpSends /\ s = pumpSession
        <3>1. \A r, c : Sends(r, c) /\ r = s => Way(s)' = Way(s)
            BY DEF Sends
        <3> QED BY <2>2, <2>5, <3>1, SendsFrame DEF Base
    <2> QED BY <2>2, <2>3, <2>4, <2>5, UpBack DEF SameLine
<1>2. ASSUME NEW i \in DOMAIN Inbox(s), Inbox(s)[i] = b
      PROVE  OnWay(s, b)'
    <2>1. CASE Inbox(s)' = Inbox(s)
        BY <1>2, <2>1 DEF OnWay
    <2>2. CASE Applies(s) /\ Up(s)
        <3>1. /\ Way(s)' = Append(Way(s), [of |-> Head(Inbox(s)), end |-> tail'])
              /\ Inbox(s)' = Tail(Inbox(s)) /\ Inbox(s) # <<>>
            BY <2>2 DEF Applies
        <3>2. CASE i = 1
            <4>1. Head(Inbox(s)) = b
                BY <1>0, <1>2, <3>1, <3>2
            <4>2. /\ Len(Way(s)) + 1 \in DOMAIN Way(s)'
                  /\ Way(s)'[Len(Way(s)) + 1] = [of |-> Head(Inbox(s)), end |-> tail']
                BY <1>0, <3>1
            <4> QED BY <4>1, <4>2 DEF OnWay, AckOn
        <3>3. CASE i # 1
            <4>1. i - 1 \in DOMAIN Inbox(s)' /\ Inbox(s)'[i - 1] = Inbox(s)[i]
                BY <1>0, <3>1, <3>3
            <4> QED BY <1>2, <4>1 DEF OnWay
        <3> QED BY <3>2, <3>3
    <2>3. CASE PumpSends /\ s = pumpSession
        <3>1. PICK r, c : r = s /\ Sends(r, c)
            BY <2>3, SendsFrame DEF Base
        <3>2. Inbox(s)' = Append(Inbox(s), c) \/ Inbox(s)' = Inbox(s)
            BY <3>1 DEF Sends
        <3>3. i \in DOMAIN Inbox(s)' /\ Inbox(s)'[i] = Inbox(s)[i]
            BY <1>0, <3>2
        <3> QED BY <1>2, <3>3 DEF OnWay
    <2> QED BY <2>1, <2>2, <2>3, UpBack DEF SameLine, Takes
<1>3. (OnWay(s, b))' <=> (AckOn(s, b)' \/ \E i \in DOMAIN Inbox(s)' : Inbox(s)'[i] = b)
    BY DEF OnWay
<1> QED BY <1>1, <1>2, <1>3 DEF OnWay

(* How far a line of acknowledgements moves up in a step.                  *)
LEMMA ShiftOf ==
    ASSUME Base, ConnOK, [Next]_<<vars, setup>>, NEW s \in Sessions
    PROVE  \E d \in {0, 1} : (d = 1 <=> Takes(s)) /\ WayShift(s, d)
<1>1. CASE Takes(s)
    BY <1>1, WayShifts
<1>2. CASE ~ Takes(s)
    BY <1>2, WayShifts
<1> QED BY <1>1, <1>2

(* The same for the frames the server has still to apply.                  *)
LEMMA InboxShiftOf ==
    ASSUME Base, ConnOK, [Next]_<<vars, setup>>, NEW s \in Sessions
    PROVE  \E d \in {0, 1} : (d = 1 <=> Applies(s)) /\ InboxShift(s, d)
<1>1. CASE Applies(s)
    BY <1>1, InboxShifts
<1>2. CASE ~ Applies(s)
    BY <1>2, InboxShifts
<1> QED BY <1>1, <1>2

(* As long as no batch is applied twice, a frame being applied belongs to  *)
(* a batch that nobody has acknowledged.                                   *)
LEMMA AppliedFirst ==
    ASSUME Base, Base', ConnOK, AcksTrue, NoneTwice', [Next]_<<vars, setup>>,
           NEW r \in Sessions, Applies(r), NEW h, h = Head(Inbox(r))
    PROVE  /\ h \in Batches /\ applied[h] = 0
           /\ \A s \in Sessions : \A k \in DOMAIN Way(s) : Way(s)[k].of # h
<1>1. h \in Batches /\ applied'[h] = applied[h] + 1
    BY StreamGrows
<1>2. applied'[h] <= 1 /\ applied[h] \in Nat
    BY <1>1 DEF NoneTwice, Base, TypeOK, TransportTypeOK
<1>3. applied[h] = 0
    BY <1>1, <1>2
<1> QED BY <1>1, <1>3 DEF AcksTrue

(* As long as no batch is applied twice, no two acknowledgements are of    *)
(* the same batch, and each acknowledged batch was resolved by its own.    *)
LEMMA UniqueStep ==
    ASSUME Base, Base', ConnOK, SentOK, FailedEnds, AcksTrue, AckedTrue, NoneTwice',
           UniqueOK, OrderOK, AheadOK, [Next]_<<vars, setup>>
    PROVE  UniqueOK'
<1>t. \A s \in Sessions : Way(s)' \in Seq(Acks) /\ \A i \in DOMAIN Way(s)' : i \in Nat /\ i >= 1
    BY LineTypesNext DEF Base
<1>1. ASSUME NEW s \in Sessions, NEW i \in DOMAIN Way(s)', NEW q \in Sessions, NEW j \in DOMAIN Way(q)',
             Way(s)'[i].of = Way(q)'[j].of
      PROVE  s = q /\ i = j
    <2>1. PICK d \in {0, 1} : (d = 1 <=> Takes(s)) /\ WayShift(s, d)
        BY ShiftOf
    <2>2. PICK e \in {0, 1} : (e = 1 <=> Takes(q)) /\ WayShift(q, e)
        BY ShiftOf
    <2>3. CASE /\ i + d \in DOMAIN Way(s) /\ Way(s)'[i] = Way(s)[i + d]
               /\ j + e \in DOMAIN Way(q) /\ Way(q)'[j] = Way(q)[j + e]
        <3>1. s = q /\ i + d = j + e
            BY <1>1, <2>3 DEF UniqueOK
        <3>2. d = e
            BY <2>1, <2>2, <3>1
        <3> QED BY <1>t, <3>1, <3>2
    <2>4. CASE /\ Applies(s) /\ Way(s)'[i] = [of |-> Head(Inbox(s)), end |-> tail']
               /\ j + e \in DOMAIN Way(q) /\ Way(q)'[j] = Way(q)[j + e]
        BY <1>1, <2>4, AppliedFirst
    <2>5. CASE /\ Applies(q) /\ Way(q)'[j] = [of |-> Head(Inbox(q)), end |-> tail']
               /\ i + d \in DOMAIN Way(s) /\ Way(s)'[i] = Way(s)[i + d]
        BY <1>1, <2>5, AppliedFirst
    <2>6. CASE Applies(s) /\ Applies(q) /\ i = Len(Way(s)) + 1 /\ j = Len(Way(q)) + 1
        BY <2>6, AppliesOne
    <2> QED BY <2>1, <2>2, <2>3, <2>4, <2>5, <2>6 DEF WayShift
<1>2. ASSUME NEW b \in Batches, result'[b] = "acked"
      PROVE  ackedBy'[b].of = b /\ \A s \in Sessions : ~ AckOn(s, b)'
    <2>1. CASE result[b] = "acked" /\ ackedBy'[b] = ackedBy[b]
        <3>1. ackedBy[b].of = b /\ \A s \in Sessions : ~ AckOn(s, b)
            BY <2>1 DEF UniqueOK
        <3>2. applied[b] >= 1
            BY <2>1, <3>1 DEF AckedTrue
        <3>3. ASSUME NEW s \in Sessions, NEW i \in DOMAIN Way(s)', Way(s)'[i].of = b
              PROVE  FALSE
            <4>1. CASE \E k \in DOMAIN Way(s) : Way(s)'[i] = Way(s)[k]
                BY <3>1, <3>3, <4>1 DEF AckOn
            <4>2. CASE Applies(s) /\ Way(s)'[i] = [of |-> Head(Inbox(s)), end |-> tail']
                BY <3>2, <3>3, <4>2, AppliedFirst
            <4> QED BY <4>1, <4>2, WayComes
        <3> QED BY <2>1, <3>1, <3>3 DEF AckOn
    <2>2. ASSUME NEW r \in Sessions, Takes(r), ConcernsHead(r, Way(r)[1]), b = Head(inflightQueue),
                 ackedBy'[b] = Way(r)[1]
          PROVE  ackedBy'[b].of = b /\ \A s \in Sessions : ~ AckOn(s, b)'
        <3>1. Way(r)[1].of = b /\ 1 \in DOMAIN Way(r)
            <4>1. Way(r) # <<>> /\ Way(r) \in Seq(Acks)
                BY <2>2, LineTypes DEF Takes, Base
            <4> QED BY <2>2, <4>1, OldestIsHead
        <3>2. ASSUME NEW s \in Sessions, NEW i \in DOMAIN Way(s)', Way(s)'[i].of = b
              PROVE  FALSE
            <4>1. PICK d \in {0, 1} : (d = 1 <=> Takes(s)) /\ WayShift(s, d)
                BY ShiftOf
            <4>2. i + d \in DOMAIN Way(s) /\ Way(s)'[i] = Way(s)[i + d]
                BY <2>2, <4>1, TakesOrApplies DEF WayShift
            <4>3. s = r /\ i + d = 1
                BY <3>1, <3>2, <4>2 DEF UniqueOK
            <4> QED BY <1>t, <2>2, <4>1, <4>3
        <3> QED BY <2>2, <3>1, <3>2 DEF AckOn
    <2> QED BY <1>2, <2>1, <2>2, AckedComes
<1> QED BY <1>1, <1>2 DEF UniqueOK

(* As long as the response of a connection goes on and its input is open,  *)
(* every queued batch recorded as sent on it is under way on it, or the    *)
(* pump is writing it.                                                     *)
LEMMA DeliveredStep ==
    ASSUME Base, Base', ConnOK, SentOK, FailedEnds, UniqueOK, OrderOK, AheadOK, DeliveredOK,
           [Next]_<<vars, setup>>
    PROVE  DeliveredOK'
<1> SUFFICES ASSUME NEW s \in Sessions, Up(s)', Open(s)', NEW b, b \in Queued', s \in entry'[b].sentOn
             PROVE  Writing(b, s)' \/ OnWay(s, b)'
    BY DEF DeliveredOK, SentOn
<1>0. b \in Batches
    BY DEF Base, Queued, TypeOK
<1>q. QueueForward /\ TypeOK /\ PumpOK /\ QueueOK /\ ClosingOK
    BY QueueMovesForward DEF Base
<1>1. CASE s \notin entry[b].sentOn
    <2>1. PumpMarks /\ s = pumpSession /\ b = Head(pumpTodo')
        BY <1>0, <1>1, <1>q, NewlySent
    <2> QED BY <2>1 DEF PumpMarks, Writing
<1>2. CASE s \in entry[b].sentOn
    <2>1. b \in Queued
        <3>1. sub[b] = "enqueued"
            BY <1>0, <1>2, <1>q DEF QueueOK
        <3> QED BY <1>0, <1>q, <3>1 DEF QueueForward
    <2>2. transport[s].conn # "none"
        BY <1>0, <1>2 DEF ConnOK
    <2>3. Open(s)
        <3>1. CASE Rests
            BY <2>2, <3>1 DEF Rests
        <3>2. ASSUME NEW r, NEW c, Sends(r, c)
              PROVE  Open(s)
            BY <3>2 DEF Sends, Open
        <3>3. ASSUME NEW r \in Sessions, Takes(r)
              PROVE  Open(s)
            BY <3>3 DEF Takes
        <3>4. ASSUME NEW r \in Sessions, Applies(r)
              PROVE  Open(s)
            BY <3>4 DEF Applies, Open
        <3> QED BY <3>1, <3>2, <3>3, <3>4, LineCases
    <2>4. Up(s)
        BY UpBack
    <2>5. b \in SentOn(s)
        BY <1>2, <2>1 DEF SentOn
    <2>6. CASE OnWay(s, b)
        BY <1>0, <2>6, StaysOnWay
    <2>7. CASE Writing(b, s)
        <3>0. pump \in {"append", "write"} /\ s = pumpSession /\ b = Head(pumpTodo)
            BY <2>7 DEF Writing
        <3>1. CASE UNCHANGED <<pump, pumpSession, pumpTodo, pumpErr>>
            BY <3>0, <3>1 DEF Writing
        <3>2. CASE PumpAppends
            <4>1. ~ RejectsInput(s)
                BY <2>3 DEF ConnOK, Shut, RejectsInput, Open
            <4> QED BY <3>0, <3>2, <4>1 DEF PumpAppends, Writing
        <3>3. CASE PumpWrites
            <4>1. ~ WriteFails(s)
                BY <2>3, <2>4 DEF WriteFails, Open, Up
            <4>2. PumpSends
                BY <3>0, <3>3, <4>1 DEF PumpWrites, PumpSends
            <4>3. Sends(s, b)
                BY <1>q, <3>0, <4>2, SendsFrame
            <4>4. Inbox(s)' = Append(Inbox(s), b) /\ Inbox(s) \in Seq(Batches)
                BY <1>q, <2>4, <4>3, LineTypes DEF Sends
            <4>5. Len(Inbox(s)) + 1 \in DOMAIN Inbox(s)' /\ Inbox(s)'[Len(Inbox(s)) + 1] = b
                BY <1>0, <4>4
            <4> QED BY <4>5 DEF OnWay
        <3>4. Pump => PumpAppends \/ PumpWrites
            BY <3>0 DEF Pump, PumpWakes, PumpCancelled, PumpProcess, PumpKeepsSession,
               PumpOpensSession, PumpStartFails, PumpSubmits, PumpMarks, PumpDoneSending,
               PumpClaims, PumpResolves, PumpTimeouts
        <3> QED BY <3>1, <3>2, <3>3, <3>4, PumpMoves
    <2> QED BY <2>3, <2>4, <2>5, <2>6, <2>7 DEF DeliveredOK
<1> QED BY <1>1, <1>2

(* The acknowledgements of a connection are in the order of the queue.     *)
LEMMA OrderOfAcks ==
    ASSUME Base, Base', ConnOK, SentOK, FailedEnds, UniqueOK, OrderOK, AheadOK, [Next]_<<vars, setup>>,
           NEW s \in Sessions, NEW j \in DOMAIN Way(s)', NEW a, a = Way(s)'[j].of,
           NEW b \in Batches, Prec(b, a)'
    PROVE  \E i \in DOMAIN Way(s)' : i < j /\ Way(s)'[i].of = b
<1>t. /\ Way(s)' \in Seq(Acks) /\ Way(s) \in Seq(Acks) /\ Inbox(s) \in Seq(Batches)
    BY LineTypes, LineTypesNext DEF Base
<1>d. /\ j \in Nat /\ j >= 1 /\ \A i \in Nat : i >= 1 /\ i < j => i \in DOMAIN Way(s)'
      /\ \A i \in DOMAIN Way(s) : i \in Nat /\ i >= 1 /\ i <= Len(Way(s))
      /\ Len(Way(s)) \in Nat
    BY <1>t
<1>e. a \in Batches
    <2>1. Way(s)'[j] \in Acks
        BY <1>t
    <2> QED BY <2>1 DEF Acks
<1>q. QueueForward
    BY QueueMovesForward DEF Base
<1>p. b \in Queued'
    BY DEF Prec, Queued
<1>1. PICK d \in {0, 1} : (d = 1 <=> Takes(s)) /\ WayShift(s, d)
    BY ShiftOf
<1>2. CASE j + d \in DOMAIN Way(s) /\ Way(s)'[j] = Way(s)[j + d]
    <2>1. AckOn(s, a)
        BY <1>2 DEF AckOn
    <2>2. Prec(b, a)
        BY <1>e, <1>q, <2>1 DEF SentOK, OnWay, QueueForward
    <2>3. PICK i \in DOMAIN Way(s) : i < j + d /\ Way(s)[i].of = b
        BY <1>2, <2>2 DEF OrderOK
    <2>4. CASE d = 0
        <3>1. i \in DOMAIN Way(s)' /\ i < j
            BY <1>d, <2>3, <2>4
        <3>2. Way(s)'[i] = Way(s)[i]
            BY <1>1, <1>d, <2>3, <2>4, <3>1 DEF WayShift
        <3> QED BY <2>3, <3>1, <3>2
    <2>5. CASE d = 1
        <3>1. i # 1
            BY <1>1, <1>p, <2>3, <2>5, TakenLeaves
        <3>2. i - 1 \in DOMAIN Way(s)' /\ i - 1 < j
            BY <1>d, <2>3, <2>5, <3>1
        <3>3. Way(s)'[i - 1] = Way(s)[(i - 1) + 1]
            BY <1>1, <2>5, <3>2 DEF WayShift
        <3>4. (i - 1) + 1 = i
            BY <1>d
        <3> QED BY <2>3, <3>2, <3>3, <3>4
    <2> QED BY <2>4, <2>5
<1>3. CASE /\ d = 0 /\ Applies(s) /\ Up(s) /\ j = Len(Way(s)) + 1
           /\ Way(s)'[j] = [of |-> Head(Inbox(s)), end |-> tail']
    <2>1. 1 \in DOMAIN Inbox(s) /\ Inbox(s)[1] = a
        BY <1>3, <1>t DEF Applies
    <2>2. Prec(b, a)
        BY <1>e, <1>q, <2>1 DEF SentOK, OnWay, QueueForward
    <2>3. ~ \E i \in DOMAIN Inbox(s) : i < 1
        BY <1>t
    <2>4. AckOn(s, b)
        BY <1>3, <2>1, <2>2, <2>3 DEF OrderOK
    <2>5. PICK i \in DOMAIN Way(s) : Way(s)[i].of = b
        BY <2>4 DEF AckOn
    <2>6. i < j /\ i \in DOMAIN Way(s)' /\ i # Len(Way(s)) + 1
        BY <1>3, <1>d, <2>5
    <2>7. Way(s)'[i] = Way(s)[i]
        BY <1>1, <1>3, <1>d, <2>6 DEF WayShift
    <2> QED BY <2>5, <2>6, <2>7
<1> QED BY <1>1, <1>2, <1>3 DEF WayShift

(* What a batch on the wire has to follow was acknowledged, or is ahead.   *)
LEMMA OrderOfFrames ==
    ASSUME Base, Base', ConnOK, SentOK, LoopOK, FailedEnds, UniqueOK, OrderOK, AheadOK, DeliveredOK,
           [Next]_<<vars, setup>>,
           NEW s \in Sessions, Up(s)', NEW j \in DOMAIN Inbox(s)', NEW a, a = Inbox(s)'[j],
           NEW b \in Batches, Prec(b, a)'
    PROVE  AckOn(s, b)' \/ \E i \in DOMAIN Inbox(s)' : i < j /\ Inbox(s)'[i] = b
<1>t. /\ Way(s) \in Seq(Acks) /\ Inbox(s)' \in Seq(Batches) /\ Inbox(s) \in Seq(Batches)
    BY LineTypes, LineTypesNext DEF Base
<1>d. /\ j \in Nat /\ j >= 1 /\ \A i \in Nat : i >= 1 /\ i < j => i \in DOMAIN Inbox(s)'
      /\ \A i \in DOMAIN Inbox(s) : i \in Nat /\ i >= 1 /\ i <= Len(Inbox(s))
      /\ Len(Inbox(s)) \in Nat
      /\ a \in Batches
    BY <1>t
<1>q. QueueForward
    BY QueueMovesForward DEF Base
<1>p. b \in Queued'
    BY DEF Prec, Queued
<1>u. Up(s)
    BY UpBack
<1>a. AckOn(s, b) => AckOn(s, b)'
    BY <1>p, StaysOnWay
<1>1. PICK d \in {0, 1} : (d = 1 <=> Applies(s)) /\ InboxShift(s, d)
    BY InboxShiftOf
<1>2. CASE j + d \in DOMAIN Inbox(s) /\ Inbox(s)'[j] = Inbox(s)[j + d]
    <2>1. OnWay(s, a)
        BY <1>2 DEF OnWay
    <2>2. Prec(b, a)
        BY <1>d, <1>q, <2>1 DEF SentOK, QueueForward
    <2>3. CASE AckOn(s, b)
        BY <1>a, <2>3
    <2>4. ASSUME NEW i \in DOMAIN Inbox(s), i < j + d, Inbox(s)[i] = b
          PROVE  AckOn(s, b)' \/ \E k \in DOMAIN Inbox(s)' : k < j /\ Inbox(s)'[k] = b
        <3>1. CASE d = 0
            <4>1. i \in DOMAIN Inbox(s)' /\ i < j
                BY <1>d, <2>4, <3>1
            <4>2. Inbox(s)'[i] = Inbox(s)[i]
                BY <1>1, <1>d, <2>4, <3>1, <4>1 DEF InboxShift
            <4> QED BY <2>4, <4>1, <4>2
        <3>2. CASE d = 1 /\ i = 1
            <4>1. /\ Way(s)' = Append(Way(s), [of |-> Head(Inbox(s)), end |-> tail'])
                  /\ Head(Inbox(s)) = b
                BY <1>1, <1>t, <1>u, <2>4, <3>2 DEF Applies
            <4>2. /\ Len(Way(s)) + 1 \in DOMAIN Way(s)'
                  /\ Way(s)'[Len(Way(s)) + 1] = [of |-> Head(Inbox(s)), end |-> tail']
                BY <1>t, <4>1
            <4> QED BY <4>1, <4>2 DEF AckOn
        <3>3. CASE d = 1 /\ i # 1
            <4>1. i - 1 \in DOMAIN Inbox(s)' /\ i - 1 < j
                BY <1>d, <2>4, <3>3
            <4>2. Inbox(s)'[i - 1] = Inbox(s)[(i - 1) + 1]
                BY <1>1, <3>3, <4>1 DEF InboxShift
            <4>3. (i - 1) + 1 = i
                BY <1>d
            <4> QED BY <2>4, <4>1, <4>2, <4>3
        <3> QED BY <3>1, <3>2, <3>3
    <2> QED BY <1>2, <1>u, <2>2, <2>3, <2>4 DEF OrderOK
<1>3. CASE /\ d = 0 /\ PumpSends /\ s = pumpSession /\ Open(s) /\ j = Len(Inbox(s)) + 1
           /\ Inbox(s)'[j] = Head(pumpTodo)
    <2>0. pump = "write" /\ pumpTodo \in Seq(Batches) /\ pumpTodo # <<>>
        BY <1>3 DEF PumpSends, PumpWrites, Base, PumpOK, TypeOK
    <2>1. 1 \in DOMAIN pumpTodo /\ pumpTodo[1] = a /\ Head(pumpTodo) = a
        BY <1>3, <2>0
    <2>2. sub[a] = "enqueued"
        BY <2>1 DEF Base, TodoOK
    <2>3. Prec(b, a)
        BY <1>d, <1>q, <2>2 DEF QueueForward
    <2>4. ~ \E i \in DOMAIN pumpTodo : i < 1
        BY <2>0
    <2>5. s \in entry[b].sentOn
        BY <1>3, <2>0, <2>1, <2>3, <2>4 DEF LoopOK, Looping
    <2>6. b \in Queued /\ a # b
        BY <2>3, PrecParts
    <2>7. OnWay(s, b)
        BY <1>3, <1>u, <2>1, <2>5, <2>6 DEF DeliveredOK, SentOn, Writing
    <2>8. ASSUME NEW i \in DOMAIN Inbox(s), Inbox(s)[i] = b
          PROVE  \E k \in DOMAIN Inbox(s)' : k < j /\ Inbox(s)'[k] = b
        <3>1. i \in DOMAIN Inbox(s)' /\ i < j /\ i # Len(Inbox(s)) + 1
            BY <1>3, <1>d, <2>8
        <3>2. Inbox(s)'[i] = Inbox(s)[i]
            BY <1>1, <1>3, <1>d, <3>1 DEF InboxShift
        <3> QED BY <2>8, <3>1, <3>2
    <2> QED BY <1>a, <2>7, <2>8 DEF OnWay
<1> QED BY <1>1, <1>2, <1>3 DEF InboxShift

(* Both orders together.                                                   *)
LEMMA OrderStep ==
    ASSUME Base, Base', ConnOK, SentOK, LoopOK, FailedEnds, UniqueOK, OrderOK, AheadOK, DeliveredOK,
           [Next]_<<vars, setup>>
    PROVE  OrderOK'
<1>1. ASSUME NEW s \in Sessions, NEW j \in DOMAIN Way(s)', NEW b \in Batches, Prec(b, Way(s)[j].of)'
      PROVE  \E i \in DOMAIN Way(s)' : i < j /\ Way(s)'[i].of = b
    <2>1. PICK a : a = Way(s)'[j].of
        OBVIOUS
    <2>2. Prec(b, a)'
        BY <1>1, <2>1 DEF Prec
    <2> QED BY <2>1, <2>2, OrderOfAcks
<1>2. ASSUME NEW s \in Sessions, Up(s)', NEW j \in DOMAIN Inbox(s)', NEW b \in Batches,
             Prec(b, Inbox(s)[j])'
      PROVE  AckOn(s, b)' \/ \E i \in DOMAIN Inbox(s)' : i < j /\ Inbox(s)'[i] = b
    <2>1. PICK a : a = Inbox(s)'[j]
        OBVIOUS
    <2>2. Prec(b, a)'
        BY <1>2, <2>1 DEF Prec
    <2> QED BY <1>2, <2>1, <2>2, OrderOfFrames
<1> QED BY <1>1, <1>2 DEF OrderOK

(* The acknowledgement of a queued batch is ahead of the last position     *)
(* acknowledged.                                                           *)
LEMMA AheadStep ==
    ASSUME Base, Base', ConnOK, SentOK, FailedEnds, AcksTrue, UniqueOK, OrderOK, AheadOK,
           [Next]_<<vars, setup>>
    PROVE  AheadOK'
<1> SUFFICES ASSUME NEW s \in Sessions, NEW i \in DOMAIN Way(s)', Way(s)'[i].of \in Queued'
             PROVE  Way(s)'[i].end > lastAckedEnd'
    BY DEF AheadOK
<1> DEFINE a == Way(s)'[i].of
<1>t. /\ Way(s)' \in Seq(Acks) /\ Way(s) \in Seq(Acks) /\ inflightQueue \in Seq(Batches)
      /\ lastAckedEnd \in Nat /\ tail \in Nat /\ IsInjective(inflightQueue)
    BY LineTypes, LineTypesNext DEF Base, TypeOK, TransportTypeOK, QueueOK
<1>d. i \in Nat /\ i >= 1
    BY <1>t
<1>q. QueueForward
    BY QueueMovesForward DEF Base
<1>1. PICK d \in {0, 1} : (d = 1 <=> Takes(s)) /\ WayShift(s, d)
    BY ShiftOf
<1>2. ASSUME i + d \in DOMAIN Way(s), Way(s)'[i] = Way(s)[i + d]
      PROVE  a \in Queued /\ a \in Batches /\ Way(s)[i + d].of = a
    <2>0. Way(s)[i + d] \in Acks /\ Way(s)[i + d].of = a
        BY <1>2, <1>t
    <2>1. a \in Batches /\ AckOn(s, a)
        BY <1>2, <2>0 DEF AckOn, Acks
    <2>2. sub[a] = "enqueued"
        BY <2>1 DEF SentOK, OnWay
    <2> QED BY <2>0, <1>q, <2>1, <2>2 DEF QueueForward
<1>3. CASE lastAckedEnd' = lastAckedEnd
    <2>1. CASE i + d \in DOMAIN Way(s) /\ Way(s)'[i] = Way(s)[i + d]
        BY <1>2, <1>3, <2>1 DEF AheadOK
    <2>2. CASE Applies(s) /\ Way(s)'[i] = [of |-> Head(Inbox(s)), end |-> tail']
        <3>1. tail' > tail /\ tail' \in Nat /\ lastAckedEnd <= tail
            BY <2>2, StreamGrows DEF AcksTrue
        <3> QED BY <1>3, <1>t, <2>2, <3>1
    <2> QED BY <1>1, <2>1, <2>2 DEF WayShift
<1>4. ASSUME NEW r \in Sessions, Takes(r), lastAckedEnd' # lastAckedEnd
      PROVE  Way(s)'[i].end > lastAckedEnd'
    <2>1. /\ Way(r)[1].of \notin Queued' /\ Way(r)[1].of = Head(inflightQueue)
          /\ lastAckedEnd' = Way(r)[1].end
        BY <1>4, TakenLeaves
    <2>2. i + d \in DOMAIN Way(s) /\ Way(s)'[i] = Way(s)[i + d]
        BY <1>1, <1>4, TakesOrApplies DEF WayShift
    <2>3. a \in Queued /\ a \in Batches /\ Way(s)[i + d].of = a
        BY <1>2, <2>2
    <2>4. 1 \in DOMAIN Way(r) /\ Way(r) \in Seq(Acks)
        BY <1>4, LineTypes DEF Takes, Base
    <2>5. CASE s = r
        <3>1. i + d > 1 /\ d = 1
            BY <1>1, <1>4, <1>d, <2>5
        <3>2. Way(s)[1].end < Way(s)[i + d].end
            <4>1. \A k, m \in DOMAIN Way(s) : k < m => Way(s)[k].end < Way(s)[m].end
                BY DEF AcksTrue
            <4>2. 1 \in DOMAIN Way(s) /\ i + d \in DOMAIN Way(s) /\ 1 < i + d
                BY <2>2, <2>4, <2>5, <3>1
            <4> QED BY <4>1, <4>2
        <3>3. Way(s)[1].end \in Nat /\ Way(s)[i + d].end \in Nat
            <4>1. Way(s)[1] \in Acks /\ Way(s)[i + d] \in Acks
                BY <1>t, <2>2, <2>4, <2>5
            <4> QED BY <4>1 DEF Acks
        <3> QED BY <2>1, <2>2, <2>5, <3>2, <3>3
    <2>6. CASE s # r
        <3>1. PICK m \in DOMAIN inflightQueue : inflightQueue[m] = a
            BY <2>3 DEF Queued
        <3>2. a # Head(inflightQueue)
            BY <2>1
        <3>3. 1 \in DOMAIN inflightQueue /\ 1 < m /\ inflightQueue[1] = Head(inflightQueue)
              /\ inflightQueue[1] \in Batches
            BY <1>t, <3>1, <3>2
        <3>4. PICK h \in Batches : h = Head(inflightQueue)
            BY <3>3
        <3>5. Prec(h, a)
            BY <3>1, <3>3, <3>4 DEF Prec
        <3>6. PICK k \in DOMAIN Way(s) : Way(s)[k].of = h
            BY <2>2, <2>3, <3>5 DEF OrderOK
        <3> QED BY <2>1, <2>4, <2>6, <3>4, <3>6 DEF UniqueOK
    <2> QED BY <2>5, <2>6
<1>5. ASSUME NEW r, NEW c, Sends(r, c), Steady
      PROVE  lastAckedEnd' = lastAckedEnd
    BY <1>5 DEF Steady
<1>6. ASSUME NEW r \in Sessions, Applies(r), UNCHANGED SessionVars
      PROVE  lastAckedEnd' = lastAckedEnd
    BY <1>6 DEF SessionVars
<1>7. CASE Rests
    BY <1>3, <1>7 DEF Rests, Steady
<1> QED BY <1>3, <1>4, <1>5, <1>6, <1>7, LineCases

(* As long as no batch is applied twice, everything is exact.              *)
LEMMA ExactStep ==
    ASSUME Base, Base', ConnOK, SentOK, LoopOK, AcksTrue, AckedTrue, FailedEnds, ExactOK,
           [Next]_<<vars, setup>>
    PROVE  ExactOK'
<1> SUFFICES ASSUME NoneTwice'
             PROVE  UniqueOK' /\ DeliveredOK' /\ OrderOK' /\ AheadOK'
    BY DEF ExactOK
<1>1. NoneTwice
    <2>1. \A b \in Batches : applied'[b] >= applied[b] /\ applied'[b] <= 1
        BY StreamGrows DEF NoneTwice
    <2>2. \A b \in Batches : applied'[b] \in Nat /\ applied[b] \in Nat
        BY DEF Base, TypeOK, TransportTypeOK
    <2>3. \A b \in Batches : applied[b] <= 1
        BY <2>1, <2>2
    <2> QED BY <2>3 DEF NoneTwice
<1>2. UniqueOK /\ DeliveredOK /\ OrderOK /\ AheadOK
    BY <1>1 DEF ExactOK
<1> QED BY <1>2, UniqueStep, DeliveredStep, OrderStep, AheadStep

-----------------------------------------------------------------------------
(* What holds of the connections and of the acknowledgements in every      *)
(* reachable state, on top of the accounts.                                *)
LinesInv ==
    /\ AccountsInv
    /\ ConnOK /\ AcksTrue /\ AckedTrue /\ FailedEnds
    /\ SentOK /\ LoopOK /\ ExactOK

(* Before the first step no connection is open and nothing is under way.   *)
LEMMA LinesInvInit == Init => LinesInv
<1> SUFFICES ASSUME Init PROVE LinesInv
    OBVIOUS
<1>1. AccountsInv
    BY AccountsInvInit
<1>2. /\ \A s \in Sessions : transport[s] = NoTransport /\ server[s] = [inbox |-> <<>>, response |-> <<>>, end |-> "up"]
      /\ tail = 0 /\ lastAckedEnd = 0 /\ inflightQueue = <<>> /\ pump = "select"
      /\ currentSession = NoSession
      /\ \A b \in Batches : result[b] = "none" /\ entry[b].sentOn = {}
    BY DEF Init, TransportInit
<1>3. \A s \in Sessions : /\ transport[s].acksCh = <<>> /\ server[s].response = <<>> /\ server[s].inbox = <<>>
                          /\ server[s].end = "up" /\ transport[s].conn = "none" /\ transport[s].closed = FALSE
    BY <1>2 DEF NoTransport
<1>4. \A s \in Sessions : Way(s) = <<>> /\ Inbox(s) = <<>> /\ Up(s) /\ ~ transport[s].closed
    BY <1>3 DEF Way, Inbox, Up
<1>5. \A s \in Sessions : DOMAIN Way(s) = {} /\ DOMAIN Inbox(s) = {}
    BY <1>4
<1>6. Queued = {} /\ \A a, b : ~ Prec(b, a)
    BY <1>2 DEF Queued, Prec
<1>7. ConnOK
    BY <1>2, <1>4 DEF ConnOK, Shut, Blank, Looping
<1>8. AcksTrue /\ AckedTrue /\ FailedEnds
    BY <1>2, <1>5 DEF AcksTrue, AckedTrue, FailedEnds, Failures
<1>9. SentOK /\ LoopOK
    BY <1>2, <1>5 DEF SentOK, OnWay, AckOn, LoopOK, Looping
<1>10. UniqueOK /\ DeliveredOK /\ OrderOK /\ AheadOK
    BY <1>2, <1>5, <1>6 DEF UniqueOK, DeliveredOK, SentOn, OrderOK, AheadOK
<1> QED BY <1>1, <1>7, <1>8, <1>9, <1>10 DEF LinesInv, ExactOK

(* LinesInv is inductive, hence holds in every reachable state.            *)
LEMMA LinesInvariant == Spec => []LinesInv
<1>1. AccountsInv => Base
    BY DEF AccountsInv, TypeInv, Base
<1>2. AccountsInv' => Base'
    BY DEF AccountsInv, TypeInv, Base
<1>3. ASSUME LinesInv, AccountsInv', [Next]_<<vars, setup>>
      PROVE  LinesInv'
    <2>1. Base /\ Base'
        BY <1>1, <1>2, <1>3 DEF LinesInv
    <2>2. /\ ConnOK /\ AcksTrue /\ AckedTrue /\ FailedEnds
          /\ SentOK /\ LoopOK /\ ExactOK
        BY <1>3 DEF LinesInv
    <2>3. ConnOK' /\ AcksTrue' /\ AckedTrue' /\ FailedEnds'
        BY <1>3, <2>1, <2>2, ConnStep, AcksTrueStep, AckedTrueStep, FailedEndsStep
    <2>4. SentOK' /\ LoopOK' /\ ExactOK'
        BY <1>3, <2>1, <2>2, SentStep, LoopStep, ExactStep
    <2> QED BY <1>3, <2>3, <2>4 DEF LinesInv
<1> QED BY <1>3, LinesInvInit, AccountsInvariant, PTL DEF Spec

(* What is acknowledged on the connections is in the order of the queue,   *)
(* across connections, as long as no batch is applied twice.               *)
LEMMA InOrder ==
    ASSUME LinesInv, NoneTwice
    PROVE  InQueueOrder
<1>0. AcksTrue /\ AckedTrue /\ UniqueOK /\ OrderOK /\ AheadOK
    BY DEF LinesInv, ExactOK
<1>1. ASSUME NEW s \in Sessions, NEW q \in Sessions, NEW i \in DOMAIN Way(s), NEW j \in DOMAIN Way(q),
             Prec(Way(s)[i].of, Way(q)[j].of)
      PROVE  Way(s)[i].end < Way(q)[j].end
    <2>1. Way(s)[i] \in Acks
        BY LineTypes DEF LinesInv, AccountsInv, TypeInv, Base
    <2>2. PICK k \in DOMAIN Way(q) : k < j /\ Way(q)[k].of = Way(s)[i].of
        BY <1>0, <1>1, <2>1 DEF OrderOK, Acks
    <2>3. s = q /\ i = k
        BY <1>0, <2>2 DEF UniqueOK
    <2> QED BY <1>0, <2>2, <2>3 DEF AcksTrue
<1>2. ASSUME NEW x \in UNION {Range(Way(s)) : s \in Sessions}
      PROVE  \E s \in Sessions : \E i \in DOMAIN Way(s) : x = Way(s)[i]
    BY DEF Range
<1>3. \A x, y \in UNION {Range(Way(s)) : s \in Sessions} : Prec(x.of, y.of) => x.end < y.end
    BY <1>1, <1>2
<1>4. \A x \in UNION {Range(Way(s)) : s \in Sessions} : x.of \in Queued => x.end > lastAckedEnd
    BY <1>0, <1>2 DEF AheadOK
<1> QED BY <1>0, <1>3, <1>4 DEF InQueueOrder, AckedTrue

(***************************************************************************)
(* Acknowledgements are exact as long as nothing is applied twice: each    *)
(* ticket resolves with the acknowledgement of its own batch, which is in  *)
(* the stream once and in the order of the queue, although handleAck       *)
(* compares only record counts and positions, and acknowledgements of      *)
(* several connections are on the way.                                     *)
(***************************************************************************)
THEOREM AcksAreExact == Spec => []ExactUnlessDuplicated
<1>1. ASSUME LinesInv
      PROVE  ExactUnlessDuplicated
    <2> SUFFICES ASSUME NoneTwice
                 PROVE  /\ \A b \in Batches : result[b] = "acked" => ackedBy[b].of = b /\ applied[b] = 1
                        /\ InQueueOrder
        BY DEF ExactUnlessDuplicated
    <2>1. ASSUME NEW b \in Batches, result[b] = "acked"
          PROVE  ackedBy[b].of = b /\ applied[b] = 1
        <3>1. ackedBy[b].of = b
            BY <1>1, <2>1 DEF LinesInv, ExactOK, UniqueOK
        <3>2. applied[b] >= 1 /\ applied[b] <= 1 /\ applied[b] \in Nat
            BY <1>1, <2>1, <3>1 DEF LinesInv, AckedTrue, NoneTwice, AccountsInv, TypeInv, TypeOK, TransportTypeOK
        <3> QED BY <3>1, <3>2
    <2> QED BY <1>1, <2>1, InOrder
<1> QED BY <1>1, LinesInvariant, PTL

(***************************************************************************)
(* A ticket resolves with an acknowledgement only if its batch is in the   *)
(* stream, provided no two batches have the same number of records: then   *)
(* the check of validateAckLocked tells them apart, even after a retry     *)
(* that duplicated some of them.                                           *)
(***************************************************************************)
THEOREM DistinctCountsAreDurable ==
    ASSUME \A a, b \in Batches : Count[a] = Count[b] => a = b
    PROVE  Spec => []AckedIsDurable
<1>1. ASSUME LinesInv
      PROVE  AckedIsDurable
    <2> SUFFICES ASSUME NEW b \in Batches, result[b] = "acked"
                 PROVE  applied[b] > 0
        BY DEF AckedIsDurable
    <2>1. /\ ackedBy[b] \in Acks /\ applied[ackedBy[b].of] >= 1
          /\ Count[ackedBy[b].of] = Count[b]
        BY <1>1 DEF LinesInv, AckedTrue
    <2>2. ackedBy[b].of \in Batches
        BY <2>1 DEF Acks
    <2>3. ackedBy[b].of = b
        BY <2>1, <2>2
    <2>4. applied[b] >= 1 /\ applied[b] \in Nat
        BY <1>1, <2>1, <2>3 DEF LinesInv, AccountsInv, TypeInv, TypeOK, TransportTypeOK
    <2> QED BY <2>4
<1> QED BY <1>1, LinesInvariant, PTL

-----------------------------------------------------------------------------
(***************************************************************************)
(* Effects.                                                                *)
(*                                                                         *)
(* Under the noSideEffects policy a batch is sent again only if it was not *)
(* applied and is not about to be.  A connection owns the batches in       *)
(* flight from the moment it becomes current until its failure is resolved *)
(* or advice is followed: as long as it does, a batch that may take effect *)
(* (stale, below) was sent on it, and when it stops no such batch is left. *)
(***************************************************************************)
Owns(s) ==
    s = currentSession \/ reader[s] = "resolve" \/ (pump = "resolve" /\ pumpSession = s)

(* b was not applied and no server is going to apply it. *)
InInbox(s, b) == \E i \in DOMAIN Inbox(s) : Inbox(s)[i] = b
Fresh(b) == applied[b] = 0 /\ \A s \in Sessions : ~ InInbox(s, b)
Stale == {b \in Queued : ~ Fresh(b)}

(* No frame gets through to the server of s any more. *)
Dead(s) == ~ Up(s) \/ ~ Open(s)

(* The server of s ended it in a way that leaves open what was applied. *)
Lost(s) == ~ Up(s) /\ ~ HasNoSideEffects(server[s].end)

(* e is what the server of s ended the response with, and every            *)
(* acknowledgement it sent was received.                                   *)
ErrKnown(s, e) ==
    /\ e = server[s].end /\ e \in Errors
    /\ transport[s].conn \in {"failing", "ended"} /\ server[s].response = <<>>

(* Errors are reported for what the server said, and a reader that handles *)
(* one of them has handled every acknowledgement before it.                *)
ReportOK(s) ==
    /\ transport[s].errorsCh # NoError => ErrKnown(s, transport[s].errorsCh)
    /\ transport[s].terminalErr # NoError => ErrKnown(s, transport[s].terminalErr)
    /\ transport[s].chansClosed => transport[s].conn = "ended" /\ ~ Open(s)
HandlerOK(s) ==
    /\ readerErr[s] # NoError =>
          /\ transport[s].conn # "none" /\ Dead(s)
          /\ readerErr[s] = "uncertain" \/ ErrKnown(s, readerErr[s])
    /\ reader[s] \in {"drain", "claim", "resolve"} => readerErr[s] # NoError
    /\ reader[s] \in {"claim", "resolve"} /\ readerErr[s] # "uncertain" => transport[s].acksCh = <<>>
    /\ reader[s] = "advice" => transport[s].conn # "none" /\ ~ Open(s)
ServerOK(s) ==
    /\ HasNoSideEffects(server[s].end) => Inbox(s) = <<>>
    /\ server[s].end = "draining" => "draining" \in setup.errors
ErrorsOK == \A s \in Sessions : ReportOK(s) /\ HandlerOK(s) /\ ServerOK(s)

(* No batch is applied twice, for none is sent that was applied or is      *)
(* about to be.                                                            *)
OnceOK ==
    /\ \A b \in Batches : applied[b] <= 1 /\ (applied[b] >= 1 => sub[b] = "enqueued")
    /\ \A s \in Sessions : \A i \in DOMAIN Inbox(s) :
         /\ applied[Inbox(s)[i]] = 0
         /\ \A q \in Sessions : \A j \in DOMAIN Inbox(q) : Inbox(s)[i] = Inbox(q)[j] => s = q /\ i = j

(* The batches that may have taken effect were sent on the owner. *)
StaleOK ==
    \A b \in Stale : \E s \in Sessions :
        Owns(s) /\ s \in entry[b].sentOn /\ (OnWay(s, b) \/ Lost(s))

(* pendingWrites counts all of them, and the write under way. *)
PendingOK ==
    \A s \in Sessions : Owns(s) =>
        transport[s].pendingWrites >= Cardinality(Stale) + (IF pump = "write" /\ pumpSession = s THEN 1 ELSE 0)

(* The pump sends what is not stale, on the owner or in vain. *)
SendOK ==
    /\ pump \in {"append", "write"} => Fresh(Head(pumpTodo))
    /\ Looping => /\ currentSession = pumpSession \/ Dead(pumpSession)
                  /\ \A s \in Sessions : Owns(s) => s = pumpSession

(* When the pump handles an error without side effects, the batch it met   *)
(* it with is queued and not stale.                                        *)
PumpErrOK ==
    pump \in {"claim", "resolve"} =>
       /\ pumpErr = "uncertain" \/ ErrKnown(pumpSession, pumpErr)
       /\ HasNoSideEffects(pumpErr) =>
            \/ inflightQueue = <<>> /\ closing
            \/ \E w \in Queued : pumpSession \in entry[w].sentOn /\ Fresh(w)

(* The set-ups without conditions in which the policy keeps its promise:   *)
(* a server that drains is excepted (handleClaimedSessionError).           *)
Unconditional(p) ==
    /\ p.policy = "noSideEffects" /\ "draining" \notin p.errors
    /\ \A b \in Batches : p.matchSeqNum[b] = NoMatch
EffectsOK == OnceOK /\ StaleOK /\ PendingOK /\ SendOK /\ PumpErrOK

(* A batch with a condition is applied at most once, in every set-up. *)
ConditionOK ==
    \A b \in Batches : Condition(b) # NoMatch =>
        applied[b] <= 1 /\ (applied[b] >= 1 => tail > Condition(b))

EffectsInv ==
    /\ LinesInv /\ ErrorsOK /\ ConditionOK
    /\ Unconditional(setup) => EffectsOK

-----------------------------------------------------------------------------
(* How the end of a connection changes: once, and an end that promises no  *)
(* side effects drops what was not applied and keeps every answer.         *)
EndStep(s) ==
    /\ \/ server'[s].end = server[s].end
       \/ /\ Up(s) /\ ~ Up(s)'
          /\ HasNoSideEffects(server'[s].end) => Inbox(s)' = <<>> /\ Way(s)' = Way(s)
          /\ server'[s].end = "draining" => "draining" \in setup.errors
    /\ ~ Up(s) => /\ Way(s)' = Way(s) \/ Takes(s)
                  /\ server[s].response = <<>> => server'[s].response = <<>>
                  /\ Inbox(s) = <<>> => Inbox(s)' = <<>>

(* The steps of a connection change its end in this way only. *)
LEMMA TransportEnds ==
    ASSUME TypeOK, setup \in Setups, NEW s \in Sessions, TransportNext(s)
    PROVE  /\ EndStep(s)
           /\ \A q \in Sessions : q # s => transport'[q] = transport[q] /\ server'[q] = server[q]
<1> DEFINE Others == \A q \in Sessions : q # s => transport'[q] = transport[q] /\ server'[q] = server[q]
<1>0. /\ Way(s) \in Seq(Acks) /\ Inbox(s) \in Seq(Batches)
      /\ transport[s] \in Transports /\ server[s] \in Servers
      /\ transport[s].acksCh \in Seq(Acks) /\ server[s].response \in Seq(Acks)
      /\ transport \in [Sessions -> Transports] /\ server \in [Sessions -> Servers]
    BY LineTypes DEF TypeOK, TransportTypeOK
<1>a. ASSUME server'[s] = server[s], transport'[s].acksCh = transport[s].acksCh
      PROVE  EndStep(s)
    BY <1>a DEF EndStep, Way, Inbox
<1>1. CASE Connected(s)
    <2>1. /\ transport' = [transport EXCEPT ![s].conn = IF transport[s].closed THEN "ended" ELSE "open"]
          /\ UNCHANGED server
        BY <1>1 DEF Connected
    <2>2. Others
        BY <1>0, <2>1
    <2>3. transport'[s] = [transport[s] EXCEPT !.conn = IF transport[s].closed THEN "ended" ELSE "open"]
        BY <1>0, <2>1
    <2>4. transport'[s].acksCh = transport[s].acksCh
        BY <1>0, <2>3 DEF Transports
    <2> QED BY <1>a, <2>1, <2>2, <2>4
<1>2. CASE ConnectFailed(s)
    <2> DEFINE r == Reporting(transport[s], server[s].end)
    <2>1. /\ transport' = [transport EXCEPT ![s] = RequestFailed(transport[s], server[s].end)]
          /\ UNCHANGED server
        BY <1>2 DEF ConnectFailed
    <2>2. Others
        BY <1>0, <2>1
    <2>3. transport'[s].acksCh = transport[s].acksCh
        BY <1>0, <2>1 DEF RequestFailed, Reporting, Transports
    <2> QED BY <1>a, <2>1, <2>2, <2>3
<1>3. CASE ReceiveAck(s)
    <2> DEFINE x == Head(server[s].response)
    <2>1. /\ server' = [server EXCEPT ![s].response = Tail(server[s].response)]
          /\ server[s].response # <<>>
        BY <1>3 DEF ReceiveAck
    <2>2. PICK advised \in BOOLEAN :
             transport' = [transport EXCEPT
                 ![s].acksCh = Append(transport[s].acksCh, x),
                 ![s].reconnectAdvised = transport[s].reconnectAdvised \/ advised]
        BY <1>0, <1>3 DEF ReceiveAck
    <2>3. Others
        BY <1>0, <2>1, <2>2
    <2>4. /\ transport'[s] = [transport[s] EXCEPT !.acksCh = Append(transport[s].acksCh, x),
                                                !.reconnectAdvised = transport[s].reconnectAdvised \/ advised]
          /\ server'[s] = [server[s] EXCEPT !.response = Tail(server[s].response)]
        BY <1>0, <2>1, <2>2
    <2>5. /\ transport'[s].acksCh = Append(transport[s].acksCh, x)
          /\ server'[s].response = Tail(server[s].response) /\ server'[s].inbox = server[s].inbox
          /\ server'[s].end = server[s].end
        BY <1>0, <2>4 DEF Transports, Servers
    <2>6. Way(s)' = Way(s)
        <3>1. Append(transport[s].acksCh, x) \o Tail(server[s].response)
                 = transport[s].acksCh \o server[s].response
            BY <1>0, <2>1, WayReceives
        <3> QED BY <2>5, <3>1 DEF Way
    <2> QED BY <2>1, <2>3, <2>5, <2>6 DEF EndStep, Inbox
<1>4. CASE ResponseEnds(s)
    <2>1. /\ UNCHANGED server
          /\ transport' = [transport EXCEPT ![s] =
                [IF server[s].end \in Errors /\ ~transport[s].closed
                 THEN Reporting(transport[s], server[s].end) ELSE transport[s] EXCEPT !.conn = "failing"]]
        BY <1>4 DEF ResponseEnds
    <2>2. Others
        BY <1>0, <2>1
    <2>3. transport'[s].acksCh = transport[s].acksCh
        BY <1>0, <2>1 DEF Reporting, Transports
    <2> QED BY <1>a, <2>1, <2>2, <2>3
<1>5. CASE Teardown(s)
    <2> DEFINE t == [transport EXCEPT ![s].conn = "ended", ![s].chansClosed = TRUE]
    <2>1. transport' = ClosedSessions(t, {s}) /\ UNCHANGED server
        BY <1>5 DEF Teardown
    <2>2. /\ t[s] = [transport[s] EXCEPT !.conn = "ended", !.chansClosed = TRUE]
          /\ \A q \in Sessions : q # s => t[q] = transport[q]
        BY <1>0
    <2>3. /\ transport'[s] = [t[s] EXCEPT !.closed = TRUE, !.requestWriter = "nil"]
          /\ \A q \in Sessions : q # s => transport'[q] = t[q]
        BY <2>1 DEF ClosedSessions
    <2> HIDE DEF t
    <2>4. transport'[s].acksCh = transport[s].acksCh
        BY <1>0, <2>2, <2>3 DEF Transports
    <2> QED BY <1>a, <2>1, <2>2, <2>3, <2>4
<1>6. CASE Apply(s)
    <2> DEFINE b == Head(server[s].inbox)
               ack == [of |-> b, end |-> tail']
    <2>0. server[s].inbox # <<>> /\ UNCHANGED transport
        BY <1>6 DEF Apply
    <2>1. CASE Condition(b) \in {NoMatch, tail}
        <3>1. server' = [server EXCEPT
                   ![s].inbox = Tail(server[s].inbox),
                   ![s].response = IF server[s].end = "up"
                                   THEN Append(server[s].response, ack) ELSE server[s].response]
            BY <1>0, <1>6, <2>1 DEF Apply
        <3>2. server'[s] = [server[s] EXCEPT
                   !.inbox = Tail(server[s].inbox),
                   !.response = IF server[s].end = "up"
                                   THEN Append(server[s].response, ack) ELSE server[s].response]
            BY <1>0, <3>1
        <3>3. /\ server'[s].end = server[s].end
              /\ server[s].end # "up" => server'[s].response = server[s].response
            BY <1>0, <3>2 DEF Servers
        <3>4. Others
            BY <1>0, <2>0, <3>1
        <3> QED BY <2>0, <3>3, <3>4 DEF EndStep, Up, Way, Inbox
    <2>2. CASE Condition(b) \notin {NoMatch, tail}
        <3>1. server' = [server EXCEPT
                   ![s].inbox = <<>>,
                   ![s].end = IF server[s].end = "up" THEN "fatalNoEffect" ELSE server[s].end]
            BY <1>0, <1>6, <2>2 DEF Apply
        <3>2. server'[s] = [server[s] EXCEPT
                   !.inbox = <<>>,
                   !.end = IF server[s].end = "up" THEN "fatalNoEffect" ELSE server[s].end]
            BY <1>0, <3>1
        <3>3. /\ server'[s].end = IF server[s].end = "up" THEN "fatalNoEffect" ELSE server[s].end
              /\ server'[s].response = server[s].response /\ server'[s].inbox = <<>>
            BY <1>0, <3>2 DEF Servers
        <3>4. Others
            BY <1>0, <2>0, <3>1
        <3> QED BY <2>0, <3>3, <3>4 DEF EndStep, Up, Way, Inbox
    <2> QED BY <2>1, <2>2
<1>7. CASE ServerEnds(s)
    <2>1. PICK end \in (setup.errors \ {"uncertain"}) \cup {"eof"} :
             server' = [server EXCEPT ![s].end = end,
                             ![s].inbox = IF HasNoSideEffects(end) THEN <<>> ELSE server[s].inbox]
        BY <1>0, <1>7 DEF ServerEnds
    <2>2. server[s].end = "up" /\ UNCHANGED transport
        BY <1>7 DEF ServerEnds
    <2>3. server'[s] = [server[s] EXCEPT !.end = end,
                             !.inbox = IF HasNoSideEffects(end) THEN <<>> ELSE server[s].inbox]
        BY <1>0, <2>1
    <2>4. /\ server'[s].end = end /\ server'[s].response = server[s].response
          /\ HasNoSideEffects(end) => server'[s].inbox = <<>>
        BY <1>0, <2>3 DEF Servers
    <2>5. end # "up"
        <3>1. setup.errors \subseteq Errors
            BY TransportAssumption
        <3> QED BY <3>1 DEF Errors
    <2>6. Others
        BY <1>0, <2>1, <2>2
    <2> QED BY <2>2, <2>4, <2>5, <2>6 DEF EndStep, Up, Way, Inbox
<1>8. CASE ServerFinishes(s)
    <2>1. server' = [server EXCEPT ![s].end = "eof"] /\ server[s].end = "up" /\ UNCHANGED transport
        BY <1>8 DEF ServerFinishes
    <2>2. server'[s].end = "eof"
        BY <1>0, <2>1 DEF Servers
    <2>3. Others
        BY <1>0, <2>1
    <2> QED BY <2>1, <2>2, <2>3 DEF EndStep, Up, HasNoSideEffects
<1>9. CASE Break(s)
    <2>1. /\ server' = [server EXCEPT ![s].end = "uncertain", ![s].response = <<>>]
          /\ transport' = [transport EXCEPT
                ![s].requestWriter = IF @ = "open" THEN "broken" ELSE @]
          /\ server[s].end = "up"
        BY <1>9 DEF Break
    <2>2. server'[s].end = "uncertain"
        BY <1>0, <2>1 DEF Servers
    <2>3. Others
        BY <1>0, <2>1
    <2> QED BY <2>1, <2>2, <2>3 DEF EndStep, Up, HasNoSideEffects
<1> QED BY <1>1, <1>2, <1>3, <1>4, <1>5, <1>6, <1>7, <1>8, <1>9 DEF TransportNext

(* What the server said, once everything before it was received. *)
Reported(s, e) ==
    /\ e = server'[s].end /\ e \in Errors
    /\ transport'[s].conn \in {"failing", "ended"} /\ server'[s].response = <<>>

(* What a step may do to the reports of a connection. *)
ReportStep(s) ==
    /\ transport[s].conn \in {"failing", "ended"} => transport'[s].conn \in {"failing", "ended"}
    /\ transport[s].conn = "ended" => transport'[s].conn = "ended"
    /\ transport[s].conn # "none" => transport'[s].conn # "none"
    /\ transport'[s].errorsCh \in {transport[s].errorsCh, NoError} \/ Reported(s, transport'[s].errorsCh)
    /\ transport'[s].terminalErr \in {transport[s].terminalErr, NoError} \/ Reported(s, transport'[s].terminalErr)
    /\ transport'[s].chansClosed => transport[s].chansClosed \/ (transport'[s].conn = "ended" /\ ~ Open(s)')
    /\ transport[s].acksCh = <<>> => transport'[s].acksCh = <<>> \/ transport[s].conn = "open"
    /\ transport[s].conn # "none" => (Open(s)' => Open(s))

(* The steps of a connection report what the server said, and count nothing. *)
LEMMA TransportReports ==
    ASSUME TypeOK, setup \in Setups, NEW s \in Sessions, TransportNext(s)
    PROVE  /\ ReportStep(s)
           /\ transport'[s].pendingWrites = transport[s].pendingWrites
<1>0. /\ transport[s] \in Transports /\ server[s] \in Servers
      /\ transport[s].acksCh \in Seq(Acks) /\ server[s].response \in Seq(Acks)
      /\ transport \in [Sessions -> Transports] /\ server \in [Sessions -> Servers]
    BY LineTypes DEF TypeOK, TransportTypeOK
<1>a. ASSUME transport'[s] = transport[s]
      PROVE  ReportStep(s) /\ transport'[s].pendingWrites = transport[s].pendingWrites
    BY <1>a DEF ReportStep, Open
<1>1. CASE Connected(s)
    <2>1. /\ transport' = [transport EXCEPT ![s].conn = IF transport[s].closed THEN "ended" ELSE "open"]
          /\ transport[s].conn = "connecting"
        BY <1>1 DEF Connected
    <2>3. transport'[s] = [transport[s] EXCEPT !.conn = IF transport[s].closed THEN "ended" ELSE "open"]
        BY <1>0, <2>1
    <2>4. /\ transport'[s].acksCh = transport[s].acksCh /\ transport'[s].conn \in {"ended", "open"}
          /\ transport'[s].errorsCh = transport[s].errorsCh /\ transport'[s].terminalErr = transport[s].terminalErr
          /\ transport'[s].chansClosed = transport[s].chansClosed /\ transport'[s].requestWriter = transport[s].requestWriter
          /\ transport'[s].pendingWrites = transport[s].pendingWrites
        BY <1>0, <2>3 DEF Transports
    <2> QED BY <2>1, <2>4 DEF ReportStep, Open
<1>b. ASSUME NEW tr \in Transports, NEW err \in Errors, NEW r, r = Reporting(tr, err)
      PROVE  /\ r.acksCh = tr.acksCh /\ r.conn = tr.conn /\ r.chansClosed = tr.chansClosed
             /\ r.requestWriter = tr.requestWriter /\ r.pendingWrites = tr.pendingWrites
             /\ r.errorsCh \in {tr.errorsCh, err} /\ r.terminalErr \in {tr.terminalErr, err}
             /\ r \in Transports
    BY <1>b DEF Reporting, Transports
<1>2. CASE ConnectFailed(s)
    <2>1. /\ transport' = [transport EXCEPT ![s] = RequestFailed(transport[s], server[s].end)]
          /\ UNCHANGED server /\ transport[s].conn = "connecting"
          /\ server[s].end \in Errors /\ server[s].response = <<>>
        BY <1>2 DEF ConnectFailed
    <2>2. PICK r : r = Reporting(transport[s], server[s].end)
        OBVIOUS
    <2>3. transport'[s] = [r EXCEPT !.conn = "ended",
                                    !.requestWriter = IF r.requestWriter = "nil" THEN "nil" ELSE "broken"]
        BY <1>0, <2>1, <2>2 DEF RequestFailed
    <2>4. /\ r.acksCh = transport[s].acksCh /\ r.chansClosed = transport[s].chansClosed
          /\ r.pendingWrites = transport[s].pendingWrites
          /\ r.errorsCh \in {transport[s].errorsCh, server[s].end}
          /\ r.terminalErr \in {transport[s].terminalErr, server[s].end} /\ r \in Transports
        BY <1>0, <1>b, <2>1, <2>2
    <2>5. /\ transport'[s].acksCh = r.acksCh /\ transport'[s].chansClosed = r.chansClosed
          /\ transport'[s].pendingWrites = r.pendingWrites /\ transport'[s].errorsCh = r.errorsCh
          /\ transport'[s].terminalErr = r.terminalErr /\ transport'[s].conn = "ended"
          /\ transport'[s].requestWriter # "open"
        BY <2>3, <2>4 DEF Transports
    <2> QED BY <2>1, <2>4, <2>5 DEF ReportStep, Reported, Open
<1>3. CASE ReceiveAck(s)
    <2>2. PICK advised \in BOOLEAN :
             transport' = [transport EXCEPT
                 ![s].acksCh = Append(transport[s].acksCh, Head(server[s].response)),
                 ![s].reconnectAdvised = transport[s].reconnectAdvised \/ advised]
        BY <1>0, <1>3 DEF ReceiveAck
    <2>3. transport[s].conn = "open"
        BY <1>3 DEF ReceiveAck
    <2>4. transport'[s] = [transport[s] EXCEPT !.acksCh = Append(transport[s].acksCh, Head(server[s].response)),
                                              !.reconnectAdvised = transport[s].reconnectAdvised \/ advised]
        BY <1>0, <2>2
    <2>5. /\ transport'[s].conn = transport[s].conn
          /\ transport'[s].errorsCh = transport[s].errorsCh /\ transport'[s].terminalErr = transport[s].terminalErr
          /\ transport'[s].chansClosed = transport[s].chansClosed /\ transport'[s].requestWriter = transport[s].requestWriter
          /\ transport'[s].pendingWrites = transport[s].pendingWrites
        BY <1>0, <2>4 DEF Transports
    <2> QED BY <2>3, <2>5 DEF ReportStep, Open
<1>4. CASE ResponseEnds(s)
    <2>1. /\ UNCHANGED server /\ transport[s].conn = "open"
          /\ (server[s].end # "up" /\ server[s].response = <<>>) \/ transport[s].closed
          /\ transport' = [transport EXCEPT ![s] =
                [IF server[s].end \in Errors /\ ~transport[s].closed
                 THEN Reporting(transport[s], server[s].end) ELSE transport[s] EXCEPT !.conn = "failing"]]
        BY <1>4 DEF ResponseEnds
    <2>2. PICK r \in Transports :
             /\ transport'[s] = [r EXCEPT !.conn = "failing"]
             /\ r.acksCh = transport[s].acksCh /\ r.chansClosed = transport[s].chansClosed
             /\ r.pendingWrites = transport[s].pendingWrites /\ r.requestWriter = transport[s].requestWriter
             /\ \/ r.errorsCh = transport[s].errorsCh /\ r.terminalErr = transport[s].terminalErr
                \/ /\ server[s].end \in Errors /\ server[s].response = <<>>
                   /\ r.errorsCh \in {transport[s].errorsCh, server[s].end}
                   /\ r.terminalErr \in {transport[s].terminalErr, server[s].end}
        <3>1. CASE server[s].end \in Errors /\ ~transport[s].closed
            <4>1. PICK r : r = Reporting(transport[s], server[s].end)
                OBVIOUS
            <4>2. transport'[s] = [r EXCEPT !.conn = "failing"]
                BY <1>0, <2>1, <3>1, <4>1
            <4> QED BY <1>0, <1>b, <2>1, <3>1, <4>1, <4>2
        <3>2. CASE ~(server[s].end \in Errors /\ ~transport[s].closed)
            <4>1. transport'[s] = [transport[s] EXCEPT !.conn = "failing"]
                BY <1>0, <2>1, <3>2
            <4> QED BY <1>0, <4>1
        <3> QED BY <3>1, <3>2
    <2>3. /\ transport'[s].acksCh = r.acksCh /\ transport'[s].chansClosed = r.chansClosed
          /\ transport'[s].pendingWrites = r.pendingWrites /\ transport'[s].errorsCh = r.errorsCh
          /\ transport'[s].terminalErr = r.terminalErr /\ transport'[s].conn = "failing"
          /\ transport'[s].requestWriter = r.requestWriter
        BY <2>2 DEF Transports
    <2> QED BY <2>1, <2>2, <2>3 DEF ReportStep, Reported, Open
<1>5. CASE Teardown(s)
    <2> DEFINE t == [transport EXCEPT ![s].conn = "ended", ![s].chansClosed = TRUE]
    <2>1. transport' = ClosedSessions(t, {s}) /\ transport[s].conn = "failing"
        BY <1>5 DEF Teardown
    <2>2. t[s] = [transport[s] EXCEPT !.conn = "ended", !.chansClosed = TRUE]
        BY <1>0
    <2>3. transport'[s] = [t[s] EXCEPT !.closed = TRUE, !.requestWriter = "nil"]
        BY <2>1 DEF ClosedSessions
    <2> HIDE DEF t
    <2>4. /\ transport'[s].conn = "ended" /\ transport'[s].requestWriter = "nil"
          /\ transport'[s].acksCh = transport[s].acksCh /\ transport'[s].pendingWrites = transport[s].pendingWrites
          /\ transport'[s].errorsCh = transport[s].errorsCh /\ transport'[s].terminalErr = transport[s].terminalErr
        BY <1>0, <2>2, <2>3 DEF Transports
    <2> QED BY <2>1, <2>4 DEF ReportStep, Open
<1>6. CASE Apply(s) \/ ServerEnds(s) \/ ServerFinishes(s)
    BY <1>6, <1>a DEF Apply, ServerEnds, ServerFinishes
<1>7. CASE Break(s)
    <2>1. transport' = [transport EXCEPT
             ![s].requestWriter = IF transport[s].requestWriter = "open" THEN "broken" ELSE transport[s].requestWriter]
        BY <1>0, <1>7 DEF Break
    <2>2. transport'[s] = [transport[s] EXCEPT
             !.requestWriter = IF transport[s].requestWriter = "open" THEN "broken" ELSE transport[s].requestWriter]
        BY <1>0, <2>1
    <2>3. /\ transport'[s].acksCh = transport[s].acksCh /\ transport'[s].conn = transport[s].conn
          /\ transport'[s].errorsCh = transport[s].errorsCh /\ transport'[s].terminalErr = transport[s].terminalErr
          /\ transport'[s].chansClosed = transport[s].chansClosed /\ transport'[s].requestWriter # "open"
          /\ transport'[s].pendingWrites = transport[s].pendingWrites
        BY <1>0, <2>2 DEF Transports
    <2> QED BY <2>3 DEF ReportStep, Open
<1> QED BY <1>1, <1>2, <1>3, <1>4, <1>5, <1>6, <1>7 DEF TransportNext

(* Opening a connection starts it afresh. *)
LEMMA OpensAfresh ==
    ASSUME TypeOK, PumpOpensSession
    PROVE  \E s \in Sessions :
              /\ Opens(s) /\ s \notin Created
              /\ transport'[s].pendingWrites = 0 /\ ~ transport'[s].chansClosed
              /\ transport'[s].errorsCh = NoError /\ transport'[s].terminalErr = NoError
              /\ reader'[s] = "select" /\ \A q \in Sessions : q # s => reader'[q] = reader[q]
<1>1. PICK s \in Sessions \ Created :
         /\ transport' = Started(s) /\ currentSession' = s
         /\ reader' = [reader EXCEPT ![s] = "select"]
    BY DEF PumpOpensSession
<1>2. /\ transport \in [Sessions -> Transports] /\ UNCHANGED <<server, applied, tail>>
      /\ reader \in [Sessions -> {"off", "select", "drain", "advised", "advice", "claim", "resolve", "done"}]
    BY DEF TypeOK, TransportTypeOK, PumpOpensSession, remoteVars
<1>3. /\ transport'[s] = [NoTransport EXCEPT !.conn = "connecting", !.requestWriter = "open"]
      /\ \A q \in Sessions : q # s => transport'[q] = transport[q]
    BY <1>1, <1>2 DEF Started
<1>4. /\ transport'[s].conn = "connecting" /\ transport'[s].acksCh = <<>> /\ transport'[s].closed = FALSE
      /\ transport'[s].pendingWrites = 0 /\ transport'[s].chansClosed = FALSE
      /\ transport'[s].errorsCh = NoError /\ transport'[s].terminalErr = NoError
    BY <1>3 DEF NoTransport
<1>5. transport[s].conn = "none"
    BY <1>1 DEF Created
<1>6. reader'[s] = "select" /\ \A q \in Sessions : q # s => reader'[q] = reader[q]
    BY <1>1, <1>2
<1> QED BY <1>1, <1>2, <1>3, <1>4, <1>5, <1>6 DEF Opens

(* What taking an acknowledgement does to the connections: it is counted   *)
(* if it completes the head.                                               *)
Counted(s) ==
    IF transport[s].pendingWrites > 0 THEN transport[s].pendingWrites - 1 ELSE 0
TakesQuietly(s) ==
    /\ UNCHANGED <<server, applied, tail>>
    /\ \A q \in Sessions :
          /\ transport'[q].errorsCh \in {transport[q].errorsCh, NoError}
          /\ transport'[q].terminalErr = transport[q].terminalErr
          /\ transport'[q].chansClosed = transport[q].chansClosed
          /\ transport'[q].conn = transport[q].conn
          /\ Open(q)' => Open(q)
          /\ transport[q].acksCh = <<>> => transport'[q].acksCh = <<>>
          /\ q # s => transport'[q].pendingWrites = transport[q].pendingWrites
    /\ transport'[s].pendingWrites =
          IF lastAckedEnd' = lastAckedEnd THEN transport[s].pendingWrites ELSE Counted(s)

(* That is what the reader does when it takes one. *)
LEMMA TakesAreQuiet ==
    ASSUME TypeOK, NEW s \in Sessions, ReaderTakesAck(s)
    PROVE  TakesQuietly(s)
<1> DEFINE t == [transport EXCEPT ![s].acksCh = Tail(@)]
           ack == Head(transport[s].acksCh)
<1>0. /\ transport \in [Sessions -> Transports] /\ transport[s] \in Transports
      /\ transport[s].acksCh \in Seq(Acks)
    BY LineTypes DEF TypeOK, TransportTypeOK
<1>1. /\ transport[s].acksCh # <<>> /\ HandleAck(s, ack, t)
      /\ UNCHANGED <<server, applied, tail>>
    <2>1. TakeAck(s)
        BY DEF ReaderTakesAck
    <2> QED BY <2>1 DEF TakeAck, remoteVars
<1>2. t[s] = [transport[s] EXCEPT !.acksCh = Tail(transport[s].acksCh)]
    BY <1>0
<1>3. /\ t[s].conn = transport[s].conn /\ t[s].errorsCh = transport[s].errorsCh
      /\ t[s].terminalErr = transport[s].terminalErr /\ t[s].chansClosed = transport[s].chansClosed
      /\ t[s].requestWriter = transport[s].requestWriter
      /\ t[s].pendingWrites = transport[s].pendingWrites
      /\ t[s] \in Transports
    <2>0. Tail(transport[s].acksCh) \in Seq(Acks)
        BY <1>0, <1>1
    <2>1. PICK rest \in Seq(Acks) : rest = Tail(transport[s].acksCh)
        BY <2>0
    <2> HIDE DEF t
    <2>2. t[s] = [transport[s] EXCEPT !.acksCh = rest]
        BY <1>2, <2>1
    <2> QED BY <1>0, <2>2 DEF Transports
<1>4. \A q \in Sessions : q # s => t[q] = transport[q]
    BY <1>0
<1>5. t \in [Sessions -> Transports]
    BY <1>0, <1>3, <1>4
<1>e. ack.end \in Nat /\ lastAckedEnd \in Nat
    <2>1. ack \in Acks
        BY <1>0, <1>1
    <2> QED BY <2>1 DEF Acks, TypeOK
<1> HIDE DEF t
<1>6. /\ QuietConns(t, transport')
      /\ \A q \in Sessions : q # s => transport'[q].pendingWrites = t[q].pendingWrites
      /\ transport'[s].pendingWrites =
            IF lastAckedEnd' = lastAckedEnd THEN t[s].pendingWrites
            ELSE IF t[s].pendingWrites > 0 THEN t[s].pendingWrites - 1 ELSE 0
    <2>1. CASE KeepInflight(t) /\ lastAckedEnd' = lastAckedEnd
        <3>1. transport' = t
            BY <2>1 DEF KeepInflight
        <3> QED BY <2>1, <3>1, QuietNever
    <2>2. CASE FailAllInflight("uncertain", t) /\ lastAckedEnd' = lastAckedEnd
        BY <2>2, <1>5, FailingIsQuiet DEF FailAllInflight
    <2>3. CASE ConcernsHead(s, ack) /\ CompleteHead(s, ack, t)
        <3>1. transport' = ClosedSessions(AckReceived(t, s), StaleSessions(Head(inflightQueue)))
            BY <2>3 DEF CompleteHead
        <3>2. PICK u : u = AckReceived(t, s)
            OBVIOUS
        <3>n. PICK n : n = IF t[s].pendingWrites > 0 THEN t[s].pendingWrites - 1 ELSE 0
            OBVIOUS
        <3>3. u = [t EXCEPT ![s].pendingWrites = n]
            BY <3>2, <3>n, <1>5 DEF AckReceived
        <3>4. QuietConns(t, u) /\ u[s].pendingWrites = n
              /\ \A q \in Sessions : q # s => u[q].pendingWrites = t[q].pendingWrites
            <4>1. ASSUME NEW v, v = [t EXCEPT ![s].pendingWrites = n]
                  PROVE  /\ QuietConns(t, v) /\ v[s].pendingWrites = n
                         /\ \A q \in Sessions : q # s => v[q].pendingWrites = t[q].pendingWrites
                <5>1. PICK t0 \in [Sessions -> Transports] : t0 = t
                    BY <1>5
                <5>2. v = [t0 EXCEPT ![s].pendingWrites = n]
                    BY <4>1, <5>1
                <5>3. QuietConns(t0, v)
                    BY <5>2, CountIsQuiet
                <5>4. v[s] = [t0[s] EXCEPT !.pendingWrites = n] /\ t0[s] \in Transports
                    BY <5>2
                <5>5. v[s].pendingWrites = n
                    BY <5>4 DEF Transports
                <5>6. \A q \in Sessions : q # s => v[q] = t0[q]
                    BY <5>2
                <5> QED BY <5>1, <5>3, <5>5, <5>6
            <4> QED BY <3>3, <4>1
        <3>5. u \in [Sessions -> Transports]
            BY <1>5, <3>2, AckReceivedFields
        <3>6. /\ QuietConns(u, transport')
              /\ \A q \in Sessions : transport'[q].pendingWrites = u[q].pendingWrites
            BY <3>1, <3>2, <3>5, ClosedIsQuiet
        <3>7. lastAckedEnd' # lastAckedEnd
            BY <1>e, <2>3 DEF CompleteHead, ConcernsHead
        <3> QED BY <3>n, <3>4, <3>6, <3>7, QuietTwice
    <2> QED BY <1>1, <2>1, <2>2, <2>3 DEF HandleAck
<1>7. \A q \in Sessions : QuietConn(t[q], transport'[q])
    BY <1>6 DEF QuietConns
<1>8. transport'[s].acksCh = Tail(transport[s].acksCh)
    <2>1. t[s].acksCh = Tail(transport[s].acksCh)
        <3>0. Tail(transport[s].acksCh) \in Seq(Acks)
            BY <1>0, <1>1
        <3>1. PICK rest \in Seq(Acks) : rest = Tail(transport[s].acksCh)
            BY <3>0
        <3>2. t[s] = [transport[s] EXCEPT !.acksCh = rest]
            BY <1>2, <3>1
        <3>3. t[s].acksCh = rest
            BY <1>0, <3>2 DEF Transports
        <3> QED BY <3>1, <3>3
    <2> QED BY <1>7, <2>1 DEF QuietConn
<1>9. \A q \in Sessions :
          /\ transport'[q].errorsCh \in {transport[q].errorsCh, NoError}
          /\ transport'[q].terminalErr = transport[q].terminalErr
          /\ transport'[q].chansClosed = transport[q].chansClosed
          /\ transport'[q].conn = transport[q].conn
          /\ Open(q)' => Open(q)
          /\ transport[q].acksCh = <<>> => transport'[q].acksCh = <<>>
    BY <1>1, <1>3, <1>4, <1>7 DEF QuietConn, Open
<1> QED BY <1>1, <1>3, <1>4, <1>6, <1>9 DEF TakesQuietly, Counted

(* Every step changes the reports of a connection and its end in these ways. *)
LEMMA ReportMoves ==
    ASSUME Base, ConnOK, [Next]_<<vars, setup>>, NEW s \in Sessions
    PROVE  ReportStep(s) /\ EndStep(s)
<1>0. TypeOK /\ PumpOK /\ setup \in Setups
    BY DEF Base
<1>1. ASSUME ConnQuiet
      PROVE  ReportStep(s) /\ EndStep(s)
    <2>1. QuietConn(transport[s], transport'[s]) /\ UNCHANGED server
        BY <1>1 DEF ConnQuiet, QuietConns
    <2> QED BY <2>1 DEF QuietConn, ReportStep, EndStep, Open, Way, Inbox
<1>2. ASSUME PumpOpensSession
      PROVE  ReportStep(s) /\ EndStep(s)
    <2>1. PICK r \in Sessions :
              /\ Opens(r)
              /\ ~ transport'[r].chansClosed
              /\ transport'[r].errorsCh = NoError /\ transport'[r].terminalErr = NoError
        BY <1>0, <1>2, OpensAfresh
    <2>2. CASE s # r
        <3>1. transport'[s] = transport[s] /\ server' = server
            BY <2>1, <2>2 DEF Opens
        <3> QED BY <3>1 DEF ReportStep, EndStep, Open, Way, Inbox
    <2>3. CASE s = r
        <3>1. transport[s].conn = "none" /\ server' = server /\ transport'[s].acksCh = <<>>
            BY <2>1, <2>3 DEF Opens
        <3>2. Up(s)
            BY <3>1 DEF ConnOK, Blank
        <3> QED BY <2>1, <2>3, <3>1, <3>2 DEF ReportStep, EndStep, Up
    <2> QED BY <2>2, <2>3
<1>3. ASSUME PumpSends
      PROVE  ReportStep(s) /\ EndStep(s)
    <2>1. PICK q, b : q = pumpSession /\ b = Head(pumpTodo)
        OBVIOUS
    <2>2. WriteAccepted(q, b) /\ q \in Sessions
        BY <1>0, <1>3, <2>1 DEF PumpSends, PumpWrites, PumpOK
    <2>3. /\ UNCHANGED transport
          /\ server' = IF server[q].end = "up" THEN [server EXCEPT ![q].inbox = Append(server[q].inbox, b)] ELSE server
        BY <1>0, <2>2 DEF WriteAccepted, TypeOK, TransportTypeOK
    <2>4. server \in [Sessions -> Servers] /\ server[s] \in Servers
        BY <1>0 DEF TypeOK, TransportTypeOK
    <2>5. /\ server'[s].end = server[s].end /\ server'[s].response = server[s].response
          /\ ~ Up(s) => server'[s] = server[s]
        <3>1. CASE server'[s] = server[s]
            BY <3>1
        <3>2. CASE s = q /\ server'[s] = [server[s] EXCEPT !.inbox = Append(server[q].inbox, b)] /\ Up(s)
            BY <2>4, <3>2 DEF Servers
        <3> QED BY <2>3, <2>4, <3>1, <3>2 DEF Up
    <2> QED BY <2>3, <2>5 DEF ReportStep, EndStep, Open, Way, Inbox
<1>4. ASSUME NEW r \in Sessions, ReaderTakesAck(r)
      PROVE  ReportStep(s) /\ EndStep(s)
    <2>1. TakesQuietly(r) /\ Takes(r)
        BY <1>0, <1>4, TakesAreQuiet, TakesOldest
    <2>2. Way(s)' = Way(s) \/ Takes(s)
        BY <2>1 DEF Takes, SameLine
    <2>3. server' = server
        BY <2>1 DEF TakesQuietly
    <2>4. ReportStep(s)
        BY <2>1 DEF TakesQuietly, ReportStep
    <2> QED BY <2>2, <2>3, <2>4 DEF EndStep, Inbox
<1>5. ASSUME NEW r \in Sessions, TransportNext(r)
      PROVE  ReportStep(s) /\ EndStep(s)
    <2>1. CASE s = r
        BY <1>0, <1>5, <2>1, TransportEnds, TransportReports
    <2>2. CASE s # r
        <3>1. transport'[s] = transport[s] /\ server'[s] = server[s]
            BY <1>0, <1>5, <2>2, TransportEnds
        <3> QED BY <3>1 DEF ReportStep, EndStep, Open, Way, Inbox
    <2> QED BY <2>1, <2>2
<1> QED BY <1>0, <1>1, <1>2, <1>3, <1>4, <1>5, ConnSteps, CountsWrite DEF Untouched

(* What is known of an error stays so. *)
LEMMA KnownStays ==
    ASSUME Base, ConnOK, [Next]_<<vars, setup>>, NEW s \in Sessions, NEW e, ErrKnown(s, e)
    PROVE  ErrKnown(s, e)' /\ server'[s].end = server[s].end
<1>1. ReportStep(s) /\ EndStep(s)
    BY ReportMoves
<1>2. ~ Up(s)
    BY DEF ErrKnown, Up, Errors
<1> QED BY <1>1, <1>2 DEF ErrKnown, ReportStep, EndStep

(* So does a connection that lets nothing through. *)
LEMMA DeadStays ==
    ASSUME Base, ConnOK, [Next]_<<vars, setup>>, NEW s \in Sessions, Dead(s), transport[s].conn # "none"
    PROVE  Dead(s)'
<1>1. ReportStep(s) /\ EndStep(s)
    BY ReportMoves
<1> QED BY <1>1 DEF Dead, ReportStep, EndStep, Up

-----------------------------------------------------------------------------
(* A reader moves by itself, or is started for a new connection. *)
LEMMA ReaderMoves ==
    ASSUME TypeOK, [Next]_<<vars, setup>>, NEW s \in Sessions
    PROVE  \/ reader'[s] = reader[s] /\ readerErr'[s] = readerErr[s]
           \/ Reader(s)
           \/ reader'[s] = "select" /\ readerErr'[s] = readerErr[s] /\ transport[s].conn = "none" /\ PumpOpensSession
<1>0. /\ reader \in [Sessions -> {"off", "select", "drain", "advised", "advice", "claim", "resolve", "done"}]
      /\ readerErr \in [Sessions -> Errors \cup {NoError}]
    BY DEF TypeOK
<1> DEFINE Same == reader'[s] = reader[s] /\ readerErr'[s] = readerErr[s]
<1>1. ASSUME NEW a \in Batches, Submitter(a)
      PROVE  Same
    BY <1>1 DEF Submitter, Submit, Reserve, Enqueue, readerVars
<1>2. ASSUME NEW r \in Sessions, Reader(r), r # s
      PROVE  Same
    BY <1>0, <1>2 DEF Reader, ReaderTakesAck, TakeAck, ReaderWeighsAdvice, ReaderTakesError,
           ReaderDrained, ReaderClaims, ReaderResolves, ReaderSeesEnd, ReaderFollowsAdvice,
           ReaderCancelled, readerVars
<1>3. CASE \E r \in Sessions : TransportNext(r) /\ UNCHANGED SessionVars
    BY <1>3 DEF SessionVars, readerVars
<1>4. CASE CloseStarts \/ Closer \/ Cancel \/ RetryDue \/ RequestTimeout
    BY <1>4 DEF CloseStarts, Closer, CloseDrained, CloseCleansUp, CloseReturns, Cancel,
           RetryDue, RequestTimeout, readerVars
<1>5. CASE UNCHANGED <<vars, setup>>
    BY <1>5 DEF vars, readerVars
<1>6. CASE Pump
    <2>1. CASE PumpOpensSession
        <3>1. PICK r \in Sessions :
                 /\ r \notin Created /\ reader'[r] = "select" /\ \A q \in Sessions : q # r => reader'[q] = reader[q]
            BY <2>1, OpensAfresh
        <3>2. readerErr' = readerErr
            BY <2>1 DEF PumpOpensSession
        <3> QED BY <2>1, <3>1, <3>2 DEF Created
    <2>2. CASE PumpWakes \/ PumpCancelled \/ PumpProcess \/ PumpKeepsSession \/ PumpStartFails
               \/ PumpSubmits \/ PumpMarks \/ PumpDoneSending
        BY <2>2 DEF PumpWakes, PumpCancelled, PumpProcess, PumpKeepsSession,
           PumpStartFails, PumpSubmits, PumpMarks, PumpDoneSending, readerVars
    <2>3. CASE PumpAppends \/ PumpWrites \/ PumpClaims \/ PumpResolves \/ PumpTimeouts
        BY <2>3 DEF PumpAppends, PumpWrites, PumpClaims, PumpResolves, PumpTimeouts, readerVars
    <2> QED BY <1>6, <2>1, <2>2, <2>3 DEF Pump
<1> QED BY <1>1, <1>2, <1>3, <1>4, <1>5, <1>6 DEF Next, Step

(* What is reported is what the server said. *)
LEMMA ReportOKStep ==
    ASSUME Base, ConnOK, [Next]_<<vars, setup>>, NEW s \in Sessions, ReportOK(s)
    PROVE  ReportOK(s)'
<1>1. ReportStep(s)
    BY ReportMoves
<1>2. ASSUME NEW e, Reported(s, e)
      PROVE  ErrKnown(s, e)'
    BY <1>2 DEF Reported, ErrKnown
<1>3. ASSUME NEW e, e = transport'[s].errorsCh, e # NoError
      PROVE  ErrKnown(s, e)'
    <2>1. CASE e = transport[s].errorsCh
        BY <1>3, <2>1, KnownStays DEF ReportOK
    <2>2. CASE Reported(s, e)
        BY <1>2, <2>2
    <2> QED BY <1>1, <1>3, <2>1, <2>2 DEF ReportStep
<1>4. ASSUME NEW e, e = transport'[s].terminalErr, e # NoError
      PROVE  ErrKnown(s, e)'
    <2>1. CASE e = transport[s].terminalErr
        BY <1>4, <2>1, KnownStays DEF ReportOK
    <2>2. CASE Reported(s, e)
        BY <1>2, <2>2
    <2> QED BY <1>1, <1>4, <2>1, <2>2 DEF ReportStep
<1>5. transport'[s].chansClosed => transport'[s].conn = "ended" /\ ~ Open(s)'
    BY <1>1 DEF ReportStep, ReportOK
<1>6. /\ transport'[s].errorsCh # NoError => ErrKnown(s, transport[s].errorsCh)'
      /\ transport'[s].terminalErr # NoError => ErrKnown(s, transport[s].terminalErr)'
    BY <1>3, <1>4 DEF ErrKnown
<1> QED BY <1>5, <1>6 DEF ReportOK

(* A reader that handles an error knows what it is and has nothing to      *)
(* receive any more.                                                       *)
LEMMA HandlerOKStep ==
    ASSUME Base, ConnOK, [Next]_<<vars, setup>>, NEW s \in Sessions, ReportOK(s), HandlerOK(s)
    PROVE  HandlerOK(s)'
<1>1. ReportStep(s) /\ EndStep(s)
    BY ReportMoves
<1>0. /\ reader \in [Sessions -> {"off", "select", "drain", "advised", "advice", "claim", "resolve", "done"}]
      /\ readerErr \in [Sessions -> Errors \cup {NoError}] /\ TypeOK
    BY DEF Base, TypeOK
<1> DEFINE Known(e) == /\ transport[s].conn # "none" /\ Dead(s)
                       /\ e = "uncertain" \/ ErrKnown(s, e)
           Handled == readerErr'[s] # NoError =>
                        /\ transport'[s].conn # "none" /\ Dead(s)'
                        /\ readerErr'[s] = "uncertain" \/ ErrKnown(s, readerErr[s])'
<1>2. ASSUME NEW e, e = readerErr'[s], e # NoError => Known(e)
      PROVE  Handled
    <2>1. e # NoError => transport'[s].conn # "none" /\ Dead(s)'
        BY <1>1, <1>2, DeadStays DEF ReportStep
    <2>2. e # NoError => e = "uncertain" \/ ErrKnown(s, e)'
        BY <1>2, KnownStays
    <2> QED BY <1>2, <2>1, <2>2 DEF ErrKnown
<1>3. readerErr[s] # NoError => Known(readerErr[s])
    BY DEF HandlerOK
<1>4. readerErr'[s] = readerErr[s] => Handled
    <2>1. PICK e : e = readerErr[s]
        OBVIOUS
    <2> QED BY <1>2, <1>3, <2>1
<1>5. ASSUME reader[s] \in {"claim", "resolve"}, readerErr[s] # "uncertain"
      PROVE  transport'[s].acksCh = <<>>
    <2>1. transport[s].acksCh = <<>> /\ readerErr[s] # NoError
        BY <1>5 DEF HandlerOK
    <2>2. transport[s].conn # "open"
        BY <1>3, <1>5, <2>1 DEF ErrKnown
    <2> QED BY <1>1, <2>1, <2>2 DEF ReportStep
<1>6. CASE reader'[s] = reader[s] /\ readerErr'[s] = readerErr[s]
    BY <1>1, <1>4, <1>5, <1>6 DEF HandlerOK, ReportStep
<1>7. CASE reader'[s] = "select" /\ readerErr'[s] = readerErr[s]
    BY <1>4, <1>7 DEF HandlerOK
<1>8. CASE ReaderTakesAck(s)
    <2>1. readerErr' = readerErr
        BY <1>8 DEF ReaderTakesAck, TakeAck
    <2>2. reader'[s] \in {"advised", reader[s]} /\ reader[s] \in {"select", "drain"}
        BY <1>0, <1>8 DEF ReaderTakesAck
    <2> QED BY <1>4, <2>1, <2>2 DEF HandlerOK
<1>9. CASE ReaderWeighsAdvice(s)
    <2>1. readerErr' = readerErr
        BY <1>9 DEF ReaderWeighsAdvice
    <2>2. reader'[s] = IF readerErr[s] = NoError THEN "select" ELSE "drain"
        BY <1>0, <1>9 DEF ReaderWeighsAdvice
    <2> QED BY <1>4, <2>1, <2>2 DEF HandlerOK
<1>10. CASE ReaderTakesError(s)
    <2>1. PICK e : e = transport[s].errorsCh
        OBVIOUS
    <2>2. e # NoError /\ readerErr'[s] = e /\ reader'[s] = "drain"
        BY <1>0, <1>10, <2>1 DEF ReaderTakesError
    <2>3. ErrKnown(s, e)
        BY <2>1, <2>2 DEF ReportOK
    <2>4. Known(e)
        BY <2>3 DEF ErrKnown, Dead, Up, Errors
    <2>5. Handled
        BY <1>2, <2>2, <2>4
    <2> QED BY <2>2, <2>5 DEF HandlerOK
<1>11. CASE ReaderDrained(s)
    <2>1. readerErr' = readerErr /\ transport' = transport
        BY <1>11 DEF ReaderDrained, transportVars
    <2>2. reader[s] = "drain" /\ transport[s].acksCh = <<>> /\ reader'[s] = "claim"
        BY <1>0, <1>11 DEF ReaderDrained
    <2> QED BY <1>4, <2>1, <2>2 DEF HandlerOK
<1>12. CASE ReaderClaims(s) \/ ReaderResolves(s) \/ ReaderCancelled(s)
    <2>1. readerErr' = readerErr
        BY <1>12 DEF ReaderClaims, ReaderResolves, ReaderCancelled
    <2>2. reader'[s] = "done" \/ (reader'[s] = "resolve" /\ reader[s] = "claim")
        BY <1>0, <1>12 DEF ReaderClaims, ReaderResolves, ReaderCancelled
    <2> QED BY <1>4, <1>5, <2>1, <2>2 DEF HandlerOK
<1>13. CASE ReaderSeesEnd(s)
    <2>1. readerErr' = readerErr /\ transport' = transport /\ transport[s].chansClosed
        BY <1>13 DEF ReaderSeesEnd, transportVars
    <2>2. reader'[s] \in {"advice", "done"}
        BY <1>0, <1>13 DEF ReaderSeesEnd
    <2>3. transport'[s].conn # "none" /\ ~ Open(s)'
        BY <2>1 DEF ReportOK, Open
    <2> QED BY <1>4, <2>1, <2>2, <2>3 DEF HandlerOK
<1>14. CASE ReaderFollowsAdvice(s)
    <2>1. \/ readerErr' = readerErr /\ reader'[s] = "done"
          \/ readerErr'[s] = "uncertain" /\ reader'[s] = "claim" /\ reader[s] = "advice"
        BY <1>0, <1>14 DEF ReaderFollowsAdvice
    <2>2. CASE readerErr' = readerErr /\ reader'[s] = "done"
        BY <1>4, <2>2 DEF HandlerOK
    <2>3. CASE readerErr'[s] = "uncertain" /\ reader'[s] = "claim" /\ reader[s] = "advice"
        <3>1. Known("uncertain")
            BY <2>3 DEF HandlerOK, Dead
        <3>2. PICK e : e = "uncertain"
            OBVIOUS
        <3>3. Handled
            BY <1>2, <2>3, <3>1, <3>2
        <3> QED BY <2>3, <3>3 DEF HandlerOK, NoError
    <2> QED BY <2>1, <2>2, <2>3
<1> QED BY <1>0, <1>6, <1>7, <1>8, <1>9, <1>10, <1>11, <1>12, <1>13, <1>14, ReaderMoves DEF Reader

(* Errors are known for what they are, in every set-up. *)
LEMMA ErrorsStep ==
    ASSUME Base, ConnOK, ErrorsOK, [Next]_<<vars, setup>>
    PROVE  ErrorsOK'
<1>0. setup' = setup
    BY DEF Next, vars
<1> SUFFICES ASSUME NEW s \in Sessions
             PROVE  ReportOK(s)' /\ HandlerOK(s)' /\ ServerOK(s)'
    BY DEF ErrorsOK
<1>1. ReportOK(s) /\ HandlerOK(s) /\ ServerOK(s)
    BY DEF ErrorsOK
<1>2. EndStep(s)
    BY ReportMoves
<1>3. ServerOK(s)'
    <2>1. CASE server'[s].end = server[s].end
        <3>1. HasNoSideEffects(server[s].end) => ~ Up(s)
            BY DEF HasNoSideEffects, Up
        <3> QED BY <1>0, <1>1, <1>2, <2>1, <3>1 DEF ServerOK, EndStep
    <2>2. CASE Up(s) /\ server'[s].end # server[s].end
        BY <1>0, <1>2, <2>2 DEF ServerOK, EndStep
    <2> QED BY <1>2, <2>1, <2>2 DEF EndStep
<1> QED BY <1>1, <1>3, ReportOKStep, HandlerOKStep

(* A conditional batch is applied at most once: its condition is the tail  *)
(* it was applied at, and the tail only grows.                             *)
LEMMA ConditionStep ==
    ASSUME Base, ConnOK, ConditionOK, [Next]_<<vars, setup>>
    PROVE  ConditionOK'
<1>0. /\ setup' = setup /\ tail \in Nat /\ applied \in [Batches -> Nat]
      /\ \A b \in Batches : Condition(b) \in Nat \cup {NoMatch}
    <2>1. setup' = setup
        BY DEF Next, vars
    <2>2. setup.matchSeqNum \in [Batches -> Nat \cup {NoMatch}]
        BY TransportAssumption DEF Base
    <2> QED BY <2>1, <2>2 DEF Base, TypeOK, TransportTypeOK, Condition
<1> SUFFICES ASSUME NEW b \in Batches, Condition(b) # NoMatch
             PROVE  applied'[b] <= 1 /\ (applied'[b] >= 1 => tail' > Condition(b))
    BY <1>0 DEF ConditionOK, Condition
<1>1. tail' >= tail /\ applied[b] <= 1 /\ (applied[b] >= 1 => tail > Condition(b))
    BY StreamGrows DEF ConditionOK
<1>2. CASE applied'[b] = applied[b]
    <2>1. tail' \in Nat
        BY <1>0, StreamGrows, LineCases DEF Rests, Sends, Takes, Applies
    <2> QED BY <1>0, <1>1, <1>2, <2>1
<1>3. ASSUME NEW s \in Sessions, Applies(s), b = Head(Inbox(s))
      PROVE  applied'[b] <= 1 /\ tail' > Condition(b)
    <2>1. Condition(b) = tail
        BY <1>3 DEF Applies
    <2>2. applied[b] = 0
        BY <1>0, <1>1, <2>1
    <2>3. tail' > tail /\ applied'[b] = applied[b] + 1
        BY <1>3, StreamGrows
    <2> QED BY <2>1, <2>2, <2>3
<1>4. applied'[b] = applied[b] \/ \E s \in Sessions : Applies(s) /\ b = Head(Inbox(s))
    BY StreamGrows, LineCases DEF Rests, Sends, Takes
<1> QED BY <1>2, <1>3, <1>4

-----------------------------------------------------------------------------
(* What is known of the connections and of the acknowledgements when the   *)
(* lemmas below look at a step, no batch having been applied twice.        *)
Basis ==
    /\ Base /\ ConnOK /\ SentOK /\ LoopOK /\ FailedEnds /\ AcksTrue /\ AckedTrue
    /\ UniqueOK /\ DeliveredOK /\ OrderOK /\ AheadOK
    /\ ErrorsOK

(* A batch in an inbox is under way. *)
LEMMA InboxIsOnWay == \A s, b : InInbox(s, b) => OnWay(s, b)
BY DEF InInbox, OnWay

(* At most one connection owns the batches in flight. *)
LEMMA OwnersAreOne ==
    ASSUME Base, NEW s \in Sessions, NEW q \in Sessions, Owns(s), Owns(q)
    PROVE  s = q
<1>1. Exclusive(Resolvers, currentSession, failuresPending)
    BY ClaimForm DEF Base
<1>2. NoSession \notin Sessions
    BY SessionsAssumption
<1>3. /\ reader[s] = "resolve" => s \in Resolvers
      /\ reader[q] = "resolve" => q \in Resolvers
      /\ pump = "resolve" => NoSession \in Resolvers
    BY DEF Resolvers
<1> QED BY <1>1, <1>2, <1>3 DEF Owns, Exclusive

(* When a connection is opened, none did. *)
LEMMA NobodyOwns ==
    ASSUME Base, PumpOpensSession, NEW s \in Sessions
    PROVE  ~ Owns(s)
<1>1. Exclusive(Resolvers, currentSession, failuresPending)
    BY ClaimForm DEF Base
<1>2. currentSession = NoSession /\ failuresPending \in Nat /\ ~(failuresPending > 0)
    BY DEF Base, TypeOK, PumpOpensSession, NoNewSession
<1>3. failuresPending = 0
    BY <1>2
<1>4. Resolvers = {}
    BY <1>1, <1>3 DEF Exclusive
<1> QED BY <1>2, <1>4, SessionsAssumption DEF Resolvers, Owns

(* How a connection ceases to own them: the queue is emptied, its failure  *)
(* is resolved and a retry allowed, or nothing queued was sent on it.      *)
RetryAllowed(s, err) == IsServerDraining(err) \/ MayRetry(s, err)
Releases(s) ==
    \/ inflightQueue' = <<>>
    \/ reader[s] = "resolve" /\ RetryAllowed(s, readerErr[s])
    \/ pump = "resolve" /\ pumpSession = s /\ RetryAllowed(s, pumpErr)
    \/ currentSession = s /\ ~ HasUnackedOnSession(s)

(* Resolving a failure allows a retry or empties the queue. *)
LEMMA ResolvesOrFails ==
    ASSUME NEW s, NEW err, ResolveFailure(s, err)
    PROVE  RetryAllowed(s, err) \/ inflightQueue' = <<>>
BY DEF ResolveFailure, RetryAllowed, FailAllInflight, FailQueued

(* A claim passes a connection on from the current one to the resolver. *)
LEMMA OwnerMovesPump ==
    ASSUME Base, Pump, NEW s \in Sessions
    PROVE  /\ Owns(s)' => Owns(s) \/ PumpOpensSession
           /\ Owns(s) => Owns(s)' \/ Releases(s)
<1>0. /\ currentSession \in Sessions \cup {NoSession} /\ NoSession \notin Sessions
      /\ pump \in {"select", "process", "getSession", "submit", "mark", "append", "write",
                   "claim", "resolve", "timeouts", "exited"}
    BY SessionsAssumption DEF Base, TypeOK
<1>1. CASE PumpWakes \/ PumpCancelled \/ PumpProcess \/ PumpKeepsSession \/ PumpStartFails
           \/ PumpSubmits \/ PumpMarks \/ PumpDoneSending \/ PumpAppends \/ PumpWrites
    <2>1. UNCHANGED <<currentSession, reader>>
        BY <1>1 DEF PumpWakes, PumpCancelled, PumpProcess, PumpKeepsSession, PumpStartFails,
            PumpSubmits, PumpMarks, PumpDoneSending, PumpAppends, PumpWrites, claimVars, readerVars
    <2>2. pump # "resolve" /\ pump' # "resolve"
        BY <1>1 DEF PumpWakes, PumpCancelled, PumpProcess, PumpKeepsSession, PumpStartFails,
            PumpSubmits, PumpMarks, PumpDoneSending, PumpAppends, PumpWrites
    <2> QED BY <2>1, <2>2 DEF Owns
<1>2. CASE PumpOpensSession
    BY <1>2, NobodyOwns
<1>3. CASE PumpClaims
    <2>1. /\ UNCHANGED reader /\ pump = "claim"
          /\ currentSession' = IF OwnsFailure(pumpSession) THEN NoSession ELSE currentSession
          /\ \/ OwnsFailure(pumpSession) /\ pump' = "resolve" /\ pumpSession' = pumpSession
             \/ ~OwnsFailure(pumpSession) /\ pump' = "timeouts"
        BY <1>3 DEF PumpClaims, ClaimFailure, readerVars
    <2> QED BY <1>0, <2>1 DEF Owns, OwnsFailure
<1>4. CASE PumpResolves
    <2>1. /\ UNCHANGED <<reader, currentSession>> /\ pump = "resolve" /\ pump' = "timeouts"
          /\ ResolveFailure(pumpSession, pumpErr)
        BY <1>4 DEF PumpResolves, ResolveFailure, readerVars
    <2>2. RetryAllowed(pumpSession, pumpErr) \/ inflightQueue' = <<>>
        BY <2>1, ResolvesOrFails
    <2> QED BY <2>1, <2>2 DEF Owns, Releases
<1>5. CASE PumpTimeouts
    <2>1. UNCHANGED reader /\ pump = "timeouts"
        BY <1>5 DEF PumpTimeouts, readerVars
    <2>2. \/ /\ currentSession # NoSession /\ currentSession' = NoSession
             /\ pump' = "resolve" /\ pumpSession' = currentSession
          \/ EndIteration /\ UNCHANGED currentSession
        BY <1>5 DEF PumpTimeouts, claimVars
    <2>3. EndIteration => pump' # "resolve"
        BY DEF EndIteration
    <2> QED BY <1>0, <2>1, <2>2, <2>3 DEF Owns
<1> QED BY <1>1, <1>2, <1>3, <1>4, <1>5 DEF Pump

(* So does the claim of a reader. *)
LEMMA OwnerMovesReader ==
    ASSUME Base, NEW r \in Sessions, Reader(r), NEW s \in Sessions
    PROVE  /\ Owns(s)' => Owns(s)
           /\ Owns(s) => Owns(s)' \/ Releases(s)
<1>0. /\ currentSession \in Sessions \cup {NoSession} /\ NoSession \notin Sessions
      /\ reader \in [Sessions -> {"off", "select", "drain", "advised", "advice", "claim", "resolve", "done"}]
    BY SessionsAssumption DEF Base, TypeOK
<1>1. UNCHANGED <<pump, pumpSession>>
    BY DEF Reader, ReaderTakesAck, TakeAck, ReaderWeighsAdvice, ReaderTakesError,
           ReaderDrained, ReaderClaims, ReaderResolves, ReaderSeesEnd, ReaderFollowsAdvice,
           ReaderCancelled, pumpVars
<1>2. CASE ReaderTakesAck(r) \/ ReaderWeighsAdvice(r) \/ ReaderTakesError(r) \/ ReaderDrained(r)
           \/ ReaderSeesEnd(r) \/ ReaderCancelled(r)
    <2>1. UNCHANGED currentSession
        BY <1>2 DEF ReaderTakesAck, TakeAck, ReaderWeighsAdvice, ReaderTakesError, ReaderDrained,
            ReaderSeesEnd, ReaderCancelled, claimVars
    <2>2. reader[r] # "resolve" /\ reader'[r] # "resolve" /\ \A q \in Sessions : q # r => reader'[q] = reader[q]
        BY <1>0, <1>2 DEF ReaderTakesAck, ReaderWeighsAdvice, ReaderTakesError, ReaderDrained,
            ReaderSeesEnd, ReaderCancelled
    <2> QED BY <1>1, <2>1, <2>2 DEF Owns
<1>3. CASE ReaderClaims(r)
    <2>1. /\ reader[r] = "claim"
          /\ currentSession' = IF OwnsFailure(r) THEN NoSession ELSE currentSession
          /\ reader'[r] = IF OwnsFailure(r) THEN "resolve" ELSE "done"
          /\ \A q \in Sessions : q # r => reader'[q] = reader[q]
        BY <1>0, <1>3 DEF ReaderClaims, ClaimFailure
    <2> QED BY <1>0, <1>1, <2>1 DEF Owns, OwnsFailure
<1>4. CASE ReaderResolves(r)
    <2>1. /\ reader[r] = "resolve" /\ UNCHANGED currentSession /\ reader'[r] = "done"
          /\ \A q \in Sessions : q # r => reader'[q] = reader[q]
          /\ ResolveFailure(r, readerErr[r])
        BY <1>0, <1>4 DEF ReaderResolves, ResolveFailure
    <2>2. RetryAllowed(r, readerErr[r]) \/ inflightQueue' = <<>>
        BY <2>1, ResolvesOrFails
    <2> QED BY <1>1, <2>1, <2>2 DEF Owns, Releases
<1>5. CASE ReaderFollowsAdvice(r)
    <2>1. /\ reader[r] = "advice" /\ reader'[r] # "resolve"
          /\ \A q \in Sessions : q # r => reader'[q] = reader[q]
        BY <1>0, <1>5 DEF ReaderFollowsAdvice
    <2>2. \/ UNCHANGED currentSession
          \/ currentSession = r /\ currentSession' = NoSession /\ ~ HasUnackedOnSession(r)
        BY <1>5 DEF ReaderFollowsAdvice
    <2> QED BY <1>0, <1>1, <2>1, <2>2 DEF Owns, Releases
<1> QED BY <1>2, <1>3, <1>4, <1>5 DEF Reader

(* Who owns after a step owned before, or was opened; who owned still does *)
(* or is released.                                                         *)
LEMMA OwnerMoves ==
    ASSUME Base, [Next]_<<vars, setup>>, NEW s \in Sessions
    PROVE  /\ Owns(s)' => Owns(s) \/ PumpOpensSession
           /\ Owns(s) => Owns(s)' \/ Releases(s)
<1> DEFINE Same == UNCHANGED <<currentSession, reader, pump, pumpSession>>
<1>0. Same => (Owns(s)' <=> Owns(s))
    BY DEF Owns
<1>1. ASSUME NEW a \in Batches, Submitter(a)
      PROVE  Same
    BY <1>1 DEF Submitter, Submit, Reserve, Enqueue, readerVars, pumpVars, claimVars
<1>2. CASE \E r \in Sessions : TransportNext(r) /\ UNCHANGED SessionVars
    BY <1>0, <1>2 DEF SessionVars, readerVars, pumpVars, claimVars
<1>3. CASE CloseStarts \/ Closer \/ Cancel \/ RetryDue \/ RequestTimeout
    BY <1>0, <1>3 DEF CloseStarts, Closer, CloseDrained, CloseCleansUp, CloseReturns, Cancel,
           RetryDue, RequestTimeout, readerVars, pumpVars, claimVars
<1>4. CASE UNCHANGED <<vars, setup>>
    BY <1>0, <1>4 DEF vars, readerVars, pumpVars, claimVars
<1> QED BY <1>0, <1>1, <1>2, <1>3, <1>4, OwnerMovesPump, OwnerMovesReader DEF Next, Step

-----------------------------------------------------------------------------
(* The frame a step sends. *)
NewlySends(b) == PumpSends /\ b = Head(pumpTodo) /\ Up(pumpSession) /\ Open(pumpSession)

(* What is not applied nor about to be stays so until it is sent. *)
LEMMA FreshStays ==
    ASSUME Base, ConnOK, [Next]_<<vars, setup>>, NEW b \in Batches, Fresh(b), ~ NewlySends(b)
    PROVE  Fresh(b)'
<1>0. applied[b] = 0 /\ \A s \in Sessions : ~ InInbox(s, b)
    BY DEF Fresh
<1>1. ASSUME NEW s \in Sessions, InInbox(s, b)'
      PROVE  FALSE
    <2>1. PICK i \in DOMAIN Inbox(s)' : Inbox(s)'[i] = b
        BY <1>1 DEF InInbox
    <2>2. \A d \in {0, 1} : i + d \in DOMAIN Inbox(s) => Inbox(s)[i + d] # b
        BY <1>0 DEF InInbox
    <2>3. PICK d \in {0, 1} : InboxShift(s, d)
        BY InboxShiftOf
    <2> QED BY <2>1, <2>2, <2>3 DEF InboxShift, NewlySends
<1>2. applied'[b] = 0
    <2>1. CASE UNCHANGED applied
        BY <1>0, <2>1
    <2>2. ASSUME NEW r \in Sessions, Applies(r)
          PROVE  applied'[b] = 0
        <3>1. Inbox(r) \in Seq(Batches) /\ Inbox(r) # <<>>
            BY <2>2, LineTypes DEF Base, Applies
        <3>2. 1 \in DOMAIN Inbox(r) /\ Inbox(r)[1] = Head(Inbox(r))
            BY <3>1
        <3>3. b # Head(Inbox(r))
            BY <1>0, <3>2 DEF InInbox
        <3> QED BY <1>0, <2>2, <3>3, StreamGrows
    <2> QED BY <2>1, <2>2, LineCases DEF Rests, Sends, Takes
<1> QED BY <1>1, <1>2 DEF Fresh

(* Only a batch that was just sent becomes stale. *)
LEMMA StaleMoves ==
    ASSUME Basis, Base', OnceOK, [Next]_<<vars, setup>>
    PROVE  /\ Stale \subseteq Batches /\ Stale' \subseteq Batches
           /\ \A b \in Stale' : b \in Stale \/ NewlySends(b)
<1>q. Queued \subseteq Batches /\ Queued' \subseteq Batches
    <2>1. inflightQueue \in Seq(Batches) /\ inflightQueue' \in Seq(Batches)
        BY DEF Basis, Base, TypeOK
    <2> QED BY <2>1 DEF Queued
<1>0. Base /\ ConnOK /\ SentOK /\ QueueForward
    BY QueueMovesForward DEF Basis, Base
<1>1. ASSUME NEW b \in Batches, b \in Queued', ~ Fresh(b)', ~ NewlySends(b)
      PROVE  b \in Stale
    <2>1. ~ Fresh(b)
        BY <1>0, <1>1, FreshStays
    <2>2. sub[b] = "enqueued"
        <3>1. applied[b] # 0 => sub[b] = "enqueued"
            BY <1>0 DEF OnceOK, Base, TypeOK, TransportTypeOK
        <3>2. \A s \in Sessions : InInbox(s, b) => sub[b] = "enqueued"
            BY <1>0, InboxIsOnWay DEF SentOK
        <3> QED BY <2>1, <3>1, <3>2 DEF Fresh
    <2>3. b \in Queued
        BY <1>0, <1>1, <2>2 DEF QueueForward
    <2> QED BY <2>1, <2>3 DEF Stale
<1> QED BY <1>q, <1>1 DEF Stale

(* The sizes of the set of stale batches. *)
LEMMA StaleSizes ==
    ASSUME Base
    PROVE  /\ IsFiniteSet(Stale) /\ Cardinality(Stale) \in Nat
           /\ \A S : S \subseteq Stale => IsFiniteSet(S) /\ Cardinality(S) \in Nat /\ Cardinality(S) <= Cardinality(Stale)
<1>1. Stale \subseteq Batches
    BY DEF Stale, Queued, Base, TypeOK
<1>2. IsFiniteSet(Stale)
    BY <1>1, SessionAssumption, FS_Subset
<1> QED BY <1>2, FS_Subset, FS_CardinalityType

(* A connection is released only when no batch that stays queued is stale: *)
(* otherwise no retry is allowed.                                          *)
LEMMA ReleaseIsClean ==
    ASSUME Basis, Unconditional(setup), EffectsOK, NEW s \in Sessions, Owns(s), Releases(s)
    PROVE  Stale = {} \/ inflightQueue' = <<>>
<1>0. Base /\ ErrorsOK /\ StaleOK /\ PendingOK /\ PumpErrOK
    BY DEF Basis, EffectsOK
<1>1. \A b \in Stale : s \in entry[b].sentOn /\ (OnWay(s, b) \/ Lost(s)) /\ b \in Queued /\ ~ Fresh(b)
    BY <1>0, OwnersAreOne DEF StaleOK, Stale
<1>2. ASSUME NEW err, RetryAllowed(s, err), err = "uncertain" \/ ErrKnown(s, err)
      PROVE  /\ HasNoSideEffects(err) \/ Stale = {}
             /\ ~HasNonIdempotentSentPipelinedEntries
    <2>1. ~ IsServerDraining(err)
        <3>1. err = "draining" => "draining" \in setup.errors
            BY <1>0, <1>2 DEF ErrorsOK, ServerOK, ErrKnown
        <3> QED BY <3>1 DEF IsServerDraining, Unconditional
    <2>2. CanRetryUnderNoSideEffects(s, err) /\ ~HasNonIdempotentSentPipelinedEntries
        BY <1>2, <2>1 DEF RetryAllowed, MayRetry, Unconditional
    <2>3. ASSUME ~EffectSignalled(s)
          PROVE  Stale = {}
        <3>1. transport[s].pendingWrites \in Nat
            BY <1>0, LineTypes DEF Base, Transports
        <3>2. transport[s].pendingWrites = 0
            BY <2>3, <3>1 DEF EffectSignalled
        <3>3. Cardinality(Stale) \in Nat /\ IsFiniteSet(Stale)
            BY <1>0, StaleSizes
        <3>4. transport[s].pendingWrites >= Cardinality(Stale) + (IF pump = "write" /\ pumpSession = s THEN 1 ELSE 0)
            BY <1>0 DEF PendingOK
        <3>5. Cardinality(Stale) = 0
            BY <3>2, <3>3, <3>4
        <3> QED BY <3>3, <3>5, FS_EmptySet
    <2> QED BY <2>2, <2>3 DEF CanRetryUnderNoSideEffects
<1>3. ASSUME reader[s] = "resolve", RetryAllowed(s, readerErr[s])
      PROVE  Stale = {}
    <2>1. PICK err : err = readerErr[s]
        OBVIOUS
    <2>2. HandlerOK(s) /\ ServerOK(s)
        BY <1>0 DEF ErrorsOK
    <2>3. err = "uncertain" \/ ErrKnown(s, err)
        BY <1>3, <2>1, <2>2 DEF HandlerOK
    <2>4. ASSUME HasNoSideEffects(err)
          PROVE  Stale = {}
        <3>1. err # "uncertain"
            BY <2>4 DEF HasNoSideEffects
        <3>2. /\ transport[s].acksCh = <<>> /\ server[s].response = <<>> /\ server[s].end = err
              /\ Inbox(s) = <<>>
            BY <1>3, <2>1, <2>2, <2>3, <2>4, <3>1 DEF HandlerOK, ErrKnown, ServerOK
        <3>3. Way(s) = <<>>
            BY <3>2 DEF Way
        <3>4. \A b : ~ OnWay(s, b)
            BY <3>2, <3>3 DEF OnWay, AckOn
        <3>5. ~ Lost(s)
            BY <2>4, <3>2 DEF Lost
        <3> QED BY <1>1, <3>4, <3>5
    <2> QED BY <1>2, <1>3, <2>1, <2>3, <2>4
<1>4. ASSUME pump = "resolve", pumpSession = s, RetryAllowed(s, pumpErr)
      PROVE  Stale = {}
    <2>1. PICK err : err = pumpErr
        OBVIOUS
    <2>2. err = "uncertain" \/ ErrKnown(s, err)
        BY <1>0, <1>4, <2>1 DEF PumpErrOK
    <2>3. ASSUME HasNoSideEffects(err), ~HasNonIdempotentSentPipelinedEntries
          PROVE  Stale = {}
        <3>q. inflightQueue \in Seq(Batches)
            BY <1>0 DEF Base, TypeOK
        <3>1. CASE inflightQueue = <<>>
            <4>1. Queued = {}
                BY <3>1 DEF Queued
            <4> QED BY <4>1 DEF Stale
        <3>2. ASSUME NEW w \in Queued, s \in entry[w].sentOn, Fresh(w), NEW b \in Stale
              PROVE  FALSE
            <4>1. \A i \in DOMAIN inflightQueue : entry[inflightQueue[i]].sentOn # {} => i = 1
                <5>1. ASSUME NEW i \in DOMAIN inflightQueue, entry[inflightQueue[i]].sentOn # {}
                      PROVE  i = 1
                    <6>1. inflightQueue[i] \in Batches /\ i \in Nat \ {0}
                        BY <3>q
                    <6>2. ~(i > 1)
                        BY <2>3, <5>1, <6>1 DEF HasNonIdempotentSentPipelinedEntries, Unconditional
                    <6> QED BY <6>1, <6>2
                <5> QED BY <5>1
            <4>2. PICK k \in DOMAIN inflightQueue : w = inflightQueue[k]
                BY DEF Queued
            <4>3. PICK m \in DOMAIN inflightQueue : b = inflightQueue[m]
                BY <1>1 DEF Queued
            <4>4. k = 1 /\ m = 1
                BY <1>1, <3>2, <4>1, <4>2, <4>3
            <4> QED BY <1>1, <3>2, <4>2, <4>3, <4>4
        <3> QED BY <1>0, <1>4, <2>1, <2>3, <3>1, <3>2 DEF PumpErrOK
    <2> QED BY <1>2, <1>4, <2>1, <2>2, <2>3
<1>5. ASSUME currentSession = s, ~ HasUnackedOnSession(s)
      PROVE  Stale = {}
    BY <1>1, <1>5 DEF HasUnackedOnSession
<1> QED BY <1>3, <1>4, <1>5 DEF Releases

-----------------------------------------------------------------------------
(* No batch is applied twice, nor is any twice on its way to a server. *)
LEMMA OnceStep ==
    ASSUME Basis, Base', OnceOK, SendOK, [Next]_<<vars, setup>>
    PROVE  OnceOK'
<1>0. Base /\ ConnOK /\ SentOK
    BY DEF Basis
<1>t. /\ applied \in [Batches -> Nat] /\ \A s \in Sessions : Inbox(s) \in Seq(Batches) /\ Inbox(s)' \in Seq(Batches)
      /\ \A b \in Batches : sub[b] = "enqueued" => sub'[b] = "enqueued"
    BY <1>0, LineTypes, LineTypesNext, EnqueuedStays DEF Base, TypeOK, TransportTypeOK
<1>f. PumpSends => Fresh(Head(pumpTodo))
    BY DEF SendOK, PumpSends, PumpWrites
<1>1. ASSUME NEW r \in Sessions, Applies(r), NEW h, h = Head(Inbox(r))
      PROVE  /\ h \in Batches /\ applied[h] = 0 /\ applied'[h] = 1 /\ sub[h] = "enqueued"
             /\ \A b \in Batches : b # h => applied'[b] = applied[b]
             /\ 1 \in DOMAIN Inbox(r) /\ Inbox(r)[1] = h
    <2>1. 1 \in DOMAIN Inbox(r) /\ Inbox(r)[1] = h
        BY <1>t, <1>1 DEF Applies
    <2>2. h \in Batches /\ applied'[h] = applied[h] + 1 /\ \A b \in Batches : b # h => applied'[b] = applied[b]
        BY <1>0, <1>1, StreamGrows
    <2>3. applied[h] = 0
        BY <2>1 DEF OnceOK
    <2>4. sub[h] = "enqueued"
        BY <1>0, <2>1, <2>2 DEF SentOK, OnWay
    <2> QED BY <2>1, <2>2, <2>3, <2>4
<1>2. UNCHANGED applied \/ \E r \in Sessions : Applies(r)
    BY <1>0, LineCases DEF Rests, Sends, Takes
<1>3. ASSUME NEW b \in Batches
      PROVE  applied'[b] <= 1 /\ (applied'[b] >= 1 => sub'[b] = "enqueued")
    <2>1. CASE UNCHANGED applied
        BY <1>t, <2>1 DEF OnceOK
    <2>2. ASSUME NEW r \in Sessions, Applies(r)
          PROVE  applied'[b] <= 1 /\ (applied'[b] >= 1 => sub'[b] = "enqueued")
        <3>1. PICK h : h = Head(Inbox(r))
            OBVIOUS
        <3>2. CASE b = h
            BY <1>t, <1>1, <2>2, <3>1, <3>2
        <3>3. CASE b # h
            BY <1>t, <1>1, <2>2, <3>1, <3>3 DEF OnceOK
        <3> QED BY <3>2, <3>3
    <2> QED BY <1>2, <2>1, <2>2
<1>4. ASSUME NEW s \in Sessions, NEW d \in {0, 1}, d = 1 <=> Applies(s),
             NEW i \in DOMAIN Inbox(s)', i + d \in DOMAIN Inbox(s), Inbox(s)'[i] = Inbox(s)[i + d]
      PROVE  applied'[Inbox(s)[i + d]] = 0
    <2>0. i \in Nat \ {0}
        BY <1>t
    <2>1. Inbox(s)[i + d] \in Batches /\ applied[Inbox(s)[i + d]] = 0
        BY <1>t, <1>4 DEF OnceOK
    <2>2. ASSUME NEW r \in Sessions, Applies(r)
          PROVE  Inbox(s)[i + d] # Head(Inbox(r))
        <3> SUFFICES ASSUME Inbox(s)[i + d] = Head(Inbox(r)) PROVE FALSE
            OBVIOUS
        <3>1. PICK h : h = Head(Inbox(r))
            OBVIOUS
        <3>2. 1 \in DOMAIN Inbox(r) /\ Inbox(r)[1] = h
            BY <1>1, <2>2, <3>1
        <3>3. s = r /\ i + d = 1
            BY <1>4, <3>1, <3>2 DEF OnceOK
        <3> QED BY <1>4, <2>0, <2>2, <3>3
    <2>3. ASSUME NEW r \in Sessions, Applies(r)
          PROVE  applied'[Inbox(s)[i + d]] = 0
        <3>1. PICK h : h = Head(Inbox(r))
            OBVIOUS
        <3>2. Inbox(s)[i + d] # h
            BY <2>2, <2>3, <3>1
        <3> QED BY <1>1, <2>1, <2>3, <3>1, <3>2
    <2> QED BY <1>2, <2>1, <2>3
<1>5. ASSUME NEW s \in Sessions, NEW d \in {0, 1}, InboxShift(s, d), NEW i \in DOMAIN Inbox(s)'
      PROVE  \/ i + d \in DOMAIN Inbox(s) /\ Inbox(s)'[i] = Inbox(s)[i + d]
             \/ /\ PumpSends /\ s = pumpSession /\ d = 0 /\ i = Len(Inbox(s)) + 1
                /\ Inbox(s)'[i] = Head(pumpTodo)
    BY <1>5 DEF InboxShift
<1>h. ASSUME PumpSends, NEW b, b = Head(pumpTodo)
      PROVE  applied'[b] = 0 /\ \A s \in Sessions : \A i \in DOMAIN Inbox(s) : Inbox(s)[i] # b
    <2>1. UNCHANGED applied
        BY <1>0, <1>h, SendsFrame DEF Base, Sends
    <2> QED BY <1>f, <1>h, <2>1 DEF Fresh, InInbox
<1>6. ASSUME NEW s \in Sessions, NEW i \in DOMAIN Inbox(s)'
      PROVE  applied'[Inbox(s)'[i]] = 0
    <2>1. PICK d \in {0, 1} : (d = 1 <=> Applies(s)) /\ InboxShift(s, d)
        BY <1>0, InboxShiftOf
    <2>2. PICK b : b = Head(pumpTodo)
        OBVIOUS
    <2>3. CASE i + d \in DOMAIN Inbox(s) /\ Inbox(s)'[i] = Inbox(s)[i + d]
        BY <1>4, <2>1, <2>3
    <2>4. CASE PumpSends /\ Inbox(s)'[i] = b
        BY <1>h, <2>2, <2>4
    <2> QED BY <1>5, <2>1, <2>2, <2>3, <2>4
<1>7. ASSUME NEW s \in Sessions, NEW i \in DOMAIN Inbox(s)', NEW q \in Sessions, NEW j \in DOMAIN Inbox(q)',
             Inbox(s)'[i] = Inbox(q)'[j]
      PROVE  s = q /\ i = j
    <2>0. i \in Nat /\ j \in Nat
        BY <1>t
    <2>1. PICK d \in {0, 1} : (d = 1 <=> Applies(s)) /\ InboxShift(s, d)
        BY <1>0, InboxShiftOf
    <2>2. PICK e \in {0, 1} : (e = 1 <=> Applies(q)) /\ InboxShift(q, e)
        BY <1>0, InboxShiftOf
    <2>3. PICK b : b = Head(pumpTodo)
        OBVIOUS
    <2>4. CASE /\ i + d \in DOMAIN Inbox(s) /\ Inbox(s)'[i] = Inbox(s)[i + d]
               /\ j + e \in DOMAIN Inbox(q) /\ Inbox(q)'[j] = Inbox(q)[j + e]
        <3>k. PICK k \in DOMAIN Inbox(s) : k = i + d
            BY <2>4
        <3>m. PICK m \in DOMAIN Inbox(q) : m = j + e
            BY <2>4
        <3>e. Inbox(s)[k] = Inbox(q)[m]
            BY <1>7, <2>4, <3>k, <3>m
        <3>1. s = q /\ i + d = j + e
            BY <3>e, <3>k, <3>m DEF OnceOK
        <3>2. d = e
            BY <2>1, <2>2, <3>1
        <3> QED BY <2>0, <3>1, <3>2
    <2>5. CASE /\ PumpSends /\ Inbox(s)'[i] = b
               /\ j + e \in DOMAIN Inbox(q) /\ Inbox(q)'[j] = Inbox(q)[j + e]
        BY <1>7, <1>h, <2>3, <2>5
    <2>6. CASE /\ PumpSends /\ Inbox(q)'[j] = b
               /\ i + d \in DOMAIN Inbox(s) /\ Inbox(s)'[i] = Inbox(s)[i + d]
        BY <1>7, <1>h, <2>3, <2>6
    <2>7. CASE s = pumpSession /\ q = pumpSession /\ i = Len(Inbox(s)) + 1 /\ j = Len(Inbox(q)) + 1
        BY <2>7
    <2> QED BY <1>5, <2>1, <2>2, <2>3, <2>4, <2>5, <2>6, <2>7
<1> QED BY <1>3, <1>6, <1>7 DEF OnceOK

(* The batches that may have taken effect were sent on the owner, which    *)
(* still has to answer for them or was lost.                               *)
LEMMA StaleStep ==
    ASSUME Basis, Base', Unconditional(setup), EffectsOK, [Next]_<<vars, setup>>
    PROVE  StaleOK'
<1>0. /\ Base /\ ConnOK /\ SentOK /\ ErrorsOK /\ FailedEnds /\ UniqueOK /\ OrderOK /\ AheadOK
      /\ OnceOK /\ StaleOK /\ SendOK /\ QueueForward
    BY QueueMovesForward DEF Basis, EffectsOK, Base
<1> SUFFICES ASSUME NEW b \in Stale'
             PROVE  \E s \in Sessions : Owns(s)' /\ s \in entry'[b].sentOn /\ (OnWay(s, b)' \/ Lost(s)')
    BY DEF StaleOK
<1>1. b \in Batches /\ b \in Queued' /\ ~ Fresh(b)' /\ (b \in Stale \/ NewlySends(b))
    BY <1>0, StaleMoves DEF Stale
<1>2. CASE NewlySends(b)
    <2>1. PICK s : s = pumpSession
        OBVIOUS
    <2>2. s \in Sessions /\ Looping /\ pump = "write" /\ b = Head(pumpTodo) /\ Up(s) /\ Open(s)
        BY <1>0, <1>2, <2>1 DEF NewlySends, PumpSends, PumpWrites, Base, PumpOK, Looping
    <2>3. currentSession = s
        BY <1>0, <2>1, <2>2 DEF SendOK, Dead
    <2>4. UNCHANGED currentSession
        BY <1>2 DEF NewlySends, PumpSends, PumpWrites, claimVars
    <2>5. Owns(s)'
        BY <2>3, <2>4 DEF Owns
    <2>6. Inbox(s)' = Append(Inbox(s), b) /\ Inbox(s) \in Seq(Batches)
        <3>1. Sends(s, b)
            BY <1>0, <1>2, <2>1, <2>2, SendsFrame DEF NewlySends, Base
        <3> QED BY <1>0, <2>2, <3>1, LineTypes DEF Sends, Base
    <2>7. OnWay(s, b)'
        <3>1. Len(Inbox(s)) + 1 \in DOMAIN Inbox(s)' /\ Inbox(s)'[Len(Inbox(s)) + 1] = b
            BY <1>1, <2>6
        <3> QED BY <3>1 DEF OnWay
    <2>8. s \in entry'[b].sentOn
        <3>1. pumpTodo \in Seq(Batches) /\ pumpTodo # <<>>
            BY <1>0, <2>2 DEF Base, TypeOK, PumpOK
        <3>2. 1 \in DOMAIN pumpTodo /\ pumpTodo[1] = b
            BY <2>2, <3>1
        <3>3. sub[b] = "enqueued"
            BY <1>0, <3>2 DEF Base, TodoOK
        <3>4. b \in Queued /\ entry[b].sentOn \subseteq entry'[b].sentOn
            BY <1>0, <1>1, <3>3 DEF QueueForward
        <3>5. s \in entry[b].sentOn
            BY <2>1, <2>2, <3>4 DEF Basis, LoopOK
        <3> QED BY <3>4, <3>5
    <2> QED BY <2>2, <2>5, <2>7, <2>8
<1>3. CASE b \in Stale /\ ~ NewlySends(b)
    <2>1. PICK s \in Sessions : Owns(s) /\ s \in entry[b].sentOn /\ (OnWay(s, b) \/ Lost(s))
        BY <1>0, <1>3 DEF StaleOK
    <2>2. Owns(s)'
        <3>1. inflightQueue' # <<>>
            BY <1>1 DEF Queued
        <3>2. Stale # {}
            BY <1>3
        <3>3. ~ Releases(s)
            BY <2>1, <3>1, <3>2, ReleaseIsClean
        <3> QED BY <1>0, <2>1, <3>3, OwnerMoves
    <2>3. s \in entry'[b].sentOn
        BY <1>0, <1>1, <2>1 DEF QueueForward
    <2>e. EndStep(s) /\ ServerOK(s)
        BY <1>0, ReportMoves DEF ErrorsOK
    <2>4. ASSUME Lost(s)
          PROVE  Lost(s)'
        BY <2>4, <2>e DEF EndStep, Lost, Up
    <2>5. ASSUME OnWay(s, b), Up(s)'
          PROVE  OnWay(s, b)'
        BY <1>0, <1>1, <2>5, StaysOnWay
    <2>6. ASSUME OnWay(s, b), Up(s), ~ Up(s)'
          PROVE  OnWay(s, b)' \/ Lost(s)'
        <3> SUFFICES ASSUME ~ Lost(s)'
                     PROVE  OnWay(s, b)'
            OBVIOUS
        <3>1. Inbox(s)' = <<>> /\ Way(s)' = Way(s)
            BY <2>6, <2>e DEF EndStep, Lost, Up
        <3>2. AckOn(s, b) => OnWay(s, b)'
            BY <3>1 DEF AckOn, OnWay
        <3>3. ASSUME InInbox(s, b)
              PROVE  FALSE
            <4>1. applied[b] = 0
                BY <3>3 DEF InInbox, EffectsOK, OnceOK
            <4>2. UNCHANGED applied
                <5>1. ASSUME NEW r \in Sessions, Applies(r)
                      PROVE  Up(s)' <=> Up(s)
                    BY <5>1 DEF Applies, SameLine, Up
                <5> QED BY <1>0, <2>6, <5>1, LineCases DEF Rests, Sends, Takes
            <4>3. PICK q \in Sessions : InInbox(q, b)'
                BY <1>1, <4>1, <4>2 DEF Fresh
            <4>4. q # s
                BY <3>1, <4>3 DEF InInbox
            <4>5. PICK i \in DOMAIN Inbox(q)' : Inbox(q)'[i] = b
                BY <4>3 DEF InInbox
            <4>6. PICK d \in {0, 1} : InboxShift(q, d)
                BY <1>0, InboxShiftOf
            <4>k. PICK k \in DOMAIN Inbox(s) : Inbox(s)[k] = b
                BY <3>3 DEF InInbox
            <4>7. \A j \in DOMAIN Inbox(q) : Inbox(q)[j] # b
                BY <1>0, <4>4, <4>k DEF OnceOK
            <4> QED BY <1>3, <4>5, <4>6, <4>7 DEF InboxShift, NewlySends
        <3> QED BY <2>6, <3>2, <3>3 DEF OnWay, InInbox
    <2>7. ASSUME OnWay(s, b), ~ Up(s), ~ Lost(s)
          PROVE  OnWay(s, b)'
        <3>1. Inbox(s) = <<>>
            BY <2>7, <2>e DEF Lost, ServerOK
        <3>2. AckOn(s, b)
            BY <2>7, <3>1 DEF OnWay
        <3>3. PICK i \in DOMAIN Way(s) : Way(s)[i].of = b
            BY <3>2 DEF AckOn
        <3>4. CASE Way(s)' = Way(s)
            BY <3>3, <3>4 DEF OnWay, AckOn
        <3>5. CASE Takes(s)
            <4>0. Way(s) \in Seq(Acks)
                BY <1>0, LineTypes DEF Base
            <4>1. Way(s)' = Tail(Way(s)) /\ Way(s) # <<>>
                BY <3>5 DEF Takes
            <4>2. i # 1
                BY <1>0, <1>1, <3>3, <3>5, TakenLeaves
            <4>3. i - 1 \in DOMAIN Way(s)' /\ Way(s)'[i - 1] = Way(s)[i]
                BY <4>0, <4>1, <4>2
            <4> QED BY <3>3, <4>3 DEF OnWay, AckOn
        <3> QED BY <2>7, <2>e, <3>4, <3>5 DEF EndStep
    <2> QED BY <2>1, <2>2, <2>3, <2>4, <2>5, <2>6, <2>7
<1> QED BY <1>1, <1>2, <1>3

(* The acknowledgement that completes the head of the queue leaves one     *)
(* stale batch less.                                                       *)
LEMMA CompletedIsStale ==
    ASSUME Basis, Base', NEW s \in Sessions, Takes(s), lastAckedEnd' # lastAckedEnd
    PROVE  \E h \in Stale : h \notin Stale'
<1>0. Base /\ SentOK /\ FailedEnds /\ UniqueOK /\ OrderOK /\ AheadOK /\ AcksTrue
    BY DEF Basis
<1>1. PICK h : h = Way(s)[1].of
    OBVIOUS
<1>2. /\ Way(s) \in Seq(Acks) /\ Way(s) # <<>> /\ inflightQueue \in Seq(Batches)
      /\ applied \in [Batches -> Nat]
    BY <1>0, LineTypes DEF Takes, Base, TypeOK, TransportTypeOK
<1>3. 1 \in DOMAIN Way(s) /\ h \in Batches
    <2>1. 1 \in DOMAIN Way(s) /\ Way(s)[1] \in Acks
        BY <1>2
    <2> QED BY <1>1, <2>1 DEF Acks
<1>4. h \notin Queued'
    BY <1>0, <1>1, TakenLeaves
<1>5. h \in Queued
    <2>1. ConcernsHead(s, Way(s)[1])
        BY DEF Takes
    <2> QED BY <1>0, <1>1, <1>2, <2>1, OldestIsHead
<1>6. ~ Fresh(h)
    BY <1>0, <1>1, <1>2, <1>3 DEF AcksTrue, Fresh
<1>7. h \notin Stale'
    BY <1>4 DEF Stale
<1> QED BY <1>5, <1>6, <1>7 DEF Stale

(* The owner counts every batch that may have taken effect. *)
LEMMA PendingStep ==
    ASSUME Basis, Base', OnceOK, StaleOK, PendingOK, SendOK, [Next]_<<vars, setup>>
    PROVE  PendingOK'
<1> DEFINE W(s) == IF pump = "write" /\ pumpSession = s THEN 1 ELSE 0
           Wn(s) == IF pump' = "write" /\ pumpSession' = s THEN 1 ELSE 0
           P(s) == transport[s].pendingWrites
           Pn(s) == transport'[s].pendingWrites
<1>0. Base /\ TypeOK /\ PumpOK /\ setup \in Setups
    BY DEF Basis, Base
<1> SUFFICES ASSUME NEW s \in Sessions, Owns(s)'
             PROVE  Pn(s) >= Cardinality(Stale') + Wn(s)
    BY DEF PendingOK
<1>t. /\ P(s) \in Nat /\ Pn(s) \in Nat /\ W(s) \in {0, 1} /\ Wn(s) \in {0, 1}
      /\ Cardinality(Stale) \in Nat /\ IsFiniteSet(Stale)
    <2>1. transport'[s] \in Transports /\ transport[s] \in Transports
        BY DEF Basis, Base, TypeOK, TransportTypeOK
    <2> QED BY <1>0, <2>1, StaleSizes DEF Transports
<1>m. \A b \in Stale' : b \in Stale \/ NewlySends(b)
    BY StaleMoves
<1>a. ASSUME Stale' \subseteq Stale
      PROVE  Cardinality(Stale') \in Nat /\ Cardinality(Stale') <= Cardinality(Stale)
    BY <1>0, <1>a, StaleSizes
<1>w. ASSUME Wn(s) = 1, ~ PumpAppends
      PROVE  W(s) = 1 /\ UNCHANGED pump
    <2>1. Looping' /\ pump' = "write" /\ pumpSession' = s
        BY <1>w DEF Looping
    <2> QED BY <1>0, <1>w, <2>1, LoopMoves DEF LoopStarts
<1>1. CASE PumpOpensSession
    <2>1. \A q \in Sessions : ~ Owns(q)
        BY <1>0, <1>1, NobodyOwns
    <2>2. pump = "getSession" /\ pump' = "submit"
        BY <1>1 DEF PumpOpensSession
    <2>3. CASE Owns(s)
        BY <2>1, <2>3
    <2>4. CASE Stale' = {}
        <3>1. Cardinality(Stale') = 0
            BY <2>4, FS_EmptySet
        <3> QED BY <1>t, <2>2, <3>1
    <2>5. ASSUME Stale' # {}
          PROVE  FALSE
        <3>1. PICK b \in Stale' : TRUE
            BY <2>5
        <3>2. ~ NewlySends(b)
            BY <2>2 DEF NewlySends, PumpSends, PumpWrites
        <3> QED BY <1>m, <2>1, <3>1, <3>2 DEF StaleOK
    <2> QED BY <2>4, <2>5
<1>2. CASE ~ PumpOpensSession
    <2>1. Owns(s) /\ P(s) >= Cardinality(Stale) + W(s)
        BY <1>0, <1>2, OwnerMoves DEF PendingOK
    <2>2. ASSUME Stale' \subseteq Stale, Pn(s) = P(s), ~ PumpAppends
          PROVE  Pn(s) >= Cardinality(Stale') + Wn(s)
        <3>1. Wn(s) <= W(s)
            BY <1>t, <1>w, <2>2
        <3>2. Cardinality(Stale') \in Nat /\ Cardinality(Stale') <= Cardinality(Stale)
            BY <1>a, <2>2
        <3> HIDE DEF W, Wn, P, Pn
        <3> QED BY <1>t, <2>1, <2>2, <3>1, <3>2
    <2>s. ~ PumpSends => Stale' \subseteq Stale
        BY <1>m DEF NewlySends
    <2>3. CASE PumpAppends
        <3>0. ~ PumpSends /\ pump = "append" /\ pumpSession \in Sessions
            BY <1>0, <2>3 DEF PumpAppends, PumpSends, PumpWrites, PumpOK
        <3>1. Cardinality(Stale') \in Nat /\ Cardinality(Stale') <= Cardinality(Stale)
            BY <1>a, <2>s, <3>0
        <3>2. CASE pump' = "claim" /\ UNCHANGED transport
            <4>1. Pn(s) = P(s) /\ Wn(s) = 0
                BY <3>2
            <4> HIDE DEF W, Wn, P, Pn
            <4> QED BY <1>t, <2>1, <3>1, <4>1
        <3>3. CASE transport' = [transport EXCEPT ![pumpSession].pendingWrites = @ + 1]
            <4>0. transport[pumpSession] \in Transports /\ transport \in [Sessions -> Transports]
                BY <1>0, <3>0 DEF TypeOK, TransportTypeOK
            <4>1. CASE s = pumpSession
                <5>1. transport'[s] = [transport[s] EXCEPT !.pendingWrites = transport[s].pendingWrites + 1]
                    BY <3>3, <4>0, <4>1
                <5>2. Pn(s) = P(s) + 1
                    BY <4>0, <4>1, <5>1 DEF Transports
                <5> HIDE DEF W, Wn, P, Pn
                <5> QED BY <1>t, <2>1, <3>1, <5>2
            <4>2. CASE s # pumpSession
                <5>1. transport'[s] = transport[s]
                    BY <3>3, <4>0, <4>2
                <5>2. pumpSession' = pumpSession
                    BY <2>3 DEF PumpAppends
                <5>3. Pn(s) = P(s) /\ Wn(s) = 0
                    BY <4>2, <5>1, <5>2
                <5> HIDE DEF W, Wn, P, Pn
                <5> QED BY <1>t, <2>1, <3>1, <5>3
            <4> QED BY <4>1, <4>2
        <3> QED BY <2>3, <3>2, <3>3 DEF PumpAppends
    <2>4. CASE PumpSends
        <3>0. /\ pump = "write" /\ ~ PumpAppends /\ pumpSession \in Sessions
              /\ UNCHANGED transport /\ pump' # "write"
            BY <1>0, <2>4 DEF PumpAppends, PumpSends, PumpWrites, PumpOK, WriteAccepted
        <3>1. Pn(s) = P(s) /\ Wn(s) = 0
            BY <3>0
        <3>2. CASE Stale' \subseteq Stale
            BY <2>2, <3>0, <3>1, <3>2
        <3>3. CASE ~ (Stale' \subseteq Stale)
            <4>1. PICK b \in Stale' : b \notin Stale
                BY <3>3
            <4>2. NewlySends(b)
                BY <1>m, <4>1
            <4>3. currentSession = pumpSession
                BY <3>0, <4>2 DEF NewlySends, SendOK, Looping, Dead
            <4>4. s = pumpSession
                BY <1>0, <2>1, <3>0, <4>3, OwnersAreOne DEF Owns
            <4>5. W(s) = 1
                BY <3>0, <4>4
            <4>6. Stale' \subseteq Stale \cup {b}
                BY <1>m, <4>2 DEF NewlySends
            <4>7. Cardinality(Stale \cup {b}) = Cardinality(Stale) + 1 /\ IsFiniteSet(Stale \cup {b})
                BY <1>t, <4>1, FS_AddElement
            <4>8. Cardinality(Stale') \in Nat /\ Cardinality(Stale') <= Cardinality(Stale) + 1
                BY <4>6, <4>7, FS_Subset, FS_CardinalityType
            <4> HIDE DEF W, Wn, P, Pn
            <4> QED BY <1>t, <2>1, <3>1, <4>5, <4>8
        <3> QED BY <3>2, <3>3
    <2>5. ASSUME NEW r \in Sessions, ReaderTakesAck(r)
          PROVE  Pn(s) >= Cardinality(Stale') + Wn(s)
        <3>0. TakesQuietly(r) /\ Takes(r)
            BY <1>0, <2>5, TakesAreQuiet, TakesOldest
        <3>1. UNCHANGED <<pump, pumpSession>>
            BY <2>5 DEF ReaderTakesAck, TakeAck, pumpVars
        <3>2. ~ PumpSends /\ ~ PumpAppends
            BY <3>1 DEF PumpSends, PumpWrites, PumpAppends
        <3>3. CASE r # s \/ lastAckedEnd' = lastAckedEnd
            <4>1. Pn(s) = P(s)
                BY <3>0, <3>3 DEF TakesQuietly
            <4> QED BY <2>2, <2>s, <3>2, <4>1
        <3>4. CASE r = s /\ lastAckedEnd' # lastAckedEnd
            <4>1. PICK h \in Stale : h \notin Stale'
                BY <3>0, <3>4, CompletedIsStale
            <4>2. Stale' \subseteq Stale \ {h}
                BY <2>s, <3>2, <4>1
            <4>3. Cardinality(Stale \ {h}) = Cardinality(Stale) - 1 /\ IsFiniteSet(Stale \ {h})
                BY <1>t, FS_RemoveElement
            <4>4. Cardinality(Stale') \in Nat /\ Cardinality(Stale') <= Cardinality(Stale) - 1
                BY <4>2, <4>3, FS_Subset, FS_CardinalityType
            <4>5. Pn(s) = IF P(s) > 0 THEN P(s) - 1 ELSE 0
                BY <3>0, <3>4 DEF TakesQuietly, Counted
            <4>6. Wn(s) = W(s)
                BY <3>1
            <4> HIDE DEF W, Wn, P, Pn
            <4> QED BY <1>t, <2>1, <4>4, <4>5, <4>6
        <3> QED BY <3>3, <3>4
    <2>6. ASSUME NEW r \in Sessions, TransportNext(r), UNCHANGED SessionVars
          PROVE  Pn(s) >= Cardinality(Stale') + Wn(s)
        <3>1. UNCHANGED pump
            BY <2>6 DEF SessionVars, pumpVars
        <3>2. ~ PumpSends /\ ~ PumpAppends
            BY <3>1 DEF PumpSends, PumpWrites, PumpAppends
        <3>3. Pn(s) = P(s)
            BY <1>0, <2>6, TransportEnds, TransportReports
        <3> QED BY <2>2, <2>s, <3>2, <3>3
    <2>7. CASE Untouched
        <3>1. Pn(s) = P(s)
            BY <2>7 DEF Untouched
        <3> QED BY <2>2, <2>3, <2>4, <2>s, <2>7, <3>1
    <2> QED BY <1>0, <1>2, <2>3, <2>4, <2>5, <2>6, <2>7, ConnSteps
<1> QED BY <1>1, <1>2

(* While the pump sends, the current session is given up only if no frame  *)
(* gets through to it any more.                                            *)
LEMMA CurrentCleared ==
    ASSUME Base, ErrorsOK, Looping, NEW s, s = currentSession, s # NoSession, currentSession' # s,
           [Next]_<<vars, setup>>
    PROVE  Dead(s)
<1>0. s \in Sessions /\ HandlerOK(s)
    BY DEF Base, TypeOK, ErrorsOK
<1>1. CASE ReaderClaims(s)
    BY <1>0, <1>1 DEF ReaderClaims, HandlerOK
<1>2. CASE ReaderFollowsAdvice(s)
    BY <1>0, <1>2 DEF ReaderFollowsAdvice, HandlerOK, Dead
<1>3. ASSUME NEW r \in Sessions, Reader(r)
      PROVE  (ReaderClaims(r) \/ ReaderFollowsAdvice(r)) /\ r = s
    <2>1. ReaderClaims(r) \/ ReaderFollowsAdvice(r)
        BY <1>3 DEF Reader, ReaderTakesAck, TakeAck, ReaderWeighsAdvice, ReaderTakesError,
           ReaderDrained, ReaderResolves, ReaderSeesEnd, ReaderCancelled, ResolveFailure, claimVars
    <2>2. r = s
        BY <2>1 DEF ReaderClaims, ReaderFollowsAdvice, ClaimFailure, OwnsFailure
    <2> QED BY <2>1, <2>2
<1>4. ASSUME NEW a \in Batches, Submitter(a)
      PROVE  FALSE
    BY <1>4 DEF Submitter, Submit, Reserve, Enqueue, claimVars
<1>5. CASE Pump
    BY <1>5 DEF Looping, Pump, PumpWakes, PumpCancelled, PumpProcess, PumpKeepsSession,
           PumpOpensSession, PumpStartFails, PumpSubmits, PumpMarks, PumpDoneSending,
           PumpAppends, PumpWrites, PumpClaims, PumpResolves, PumpTimeouts, claimVars
<1>6. CASE \E r \in Sessions : TransportNext(r) /\ UNCHANGED SessionVars
    BY <1>6 DEF SessionVars, claimVars
<1>7. CASE CloseStarts \/ Closer \/ Cancel \/ RetryDue \/ RequestTimeout
    BY <1>7 DEF CloseStarts, Closer, CloseDrained, CloseCleansUp, CloseReturns, Cancel,
           RetryDue, RequestTimeout, claimVars
<1>8. CASE UNCHANGED <<vars, setup>>
    BY <1>8 DEF vars, claimVars
<1> QED BY <1>1, <1>2, <1>3, <1>4, <1>5, <1>6, <1>7, <1>8 DEF Next, Step

(* What the pump sends was not applied and is not about to be, and it goes *)
(* to the owner, if it gets anywhere.                                      *)
LEMMA SendStep ==
    ASSUME Basis, Base', StaleOK, SendOK, [Next]_<<vars, setup>>
    PROVE  SendOK'
<1>0. /\ Base /\ ConnOK /\ ErrorsOK /\ TypeOK /\ PumpOK /\ TypeOK' /\ PumpOK'
      /\ currentSession \in Sessions \cup {NoSession} /\ NoSession \notin Sessions
    BY SessionsAssumption DEF Basis, Base, TypeOK
<1>t. pumpTodo \in Seq(Batches) /\ pumpTodo' \in Seq(Batches)
    BY <1>0 DEF TypeOK
<1>1. ASSUME pump' \in {"append", "write"}, NEW b, b = Head(pumpTodo')
      PROVE  Fresh(b)'
    <2>1. b \in Batches /\ Looping'
        <3>1. pumpTodo' # <<>>
            BY <1>0, <1>1 DEF PumpOK
        <3> QED BY <1>t, <1>1, <3>1 DEF Looping
    <2>2. CASE UNCHANGED <<pump, pumpSession, pumpTodo, pumpErr>>
        <3>1. Fresh(b)
            BY <1>1, <2>2 DEF SendOK
        <3>2. ~ NewlySends(b)
            BY <2>2 DEF NewlySends, PumpSends, PumpWrites
        <3> QED BY <1>0, <2>1, <3>1, <3>2, FreshStays
    <2>3. CASE PumpMarks
        <3>1. PICK i \in DOMAIN pumpTodo : Sendable(i) /\ pumpTodo' = SubSeq(pumpTodo, i, Len(pumpTodo))
            BY <2>3 DEF PumpMarks
        <3>2. b = pumpTodo[i]
            BY <1>t, <1>1, <3>1
        <3>3. sub[b] = "enqueued" /\ result[b] = "none" /\ pumpSession \notin entry[b].sentOn
            BY <1>0, <3>1, <3>2 DEF Sendable, Base, TodoOK
        <3>4. b \in Queued
            BY <1>0, <2>1, <3>3 DEF Base, QueueOK
        <3>5. \A s \in Sessions : Owns(s) => s = pumpSession
            BY <2>3 DEF PumpMarks, Looping, SendOK
        <3>6. Fresh(b)
            BY <3>3, <3>4, <3>5 DEF StaleOK, Stale
        <3>7. ~ NewlySends(b)
            BY <2>3 DEF PumpMarks, NewlySends, PumpSends, PumpWrites
        <3> QED BY <1>0, <2>1, <3>6, <3>7, FreshStays
    <2>4. CASE PumpAppends /\ pump = "append" /\ UNCHANGED pumpTodo
        <3>1. Fresh(b)
            BY <1>1, <2>4 DEF SendOK
        <3>2. ~ NewlySends(b)
            BY <2>4 DEF NewlySends, PumpSends, PumpWrites
        <3> QED BY <1>0, <2>1, <3>1, <3>2, FreshStays
    <2> QED BY <1>0, <1>1, <2>1, <2>2, <2>3, <2>4, LoopMoves DEF LoopStarts
<1>2. ASSUME Looping'
      PROVE  ~ PumpOpensSession
    BY <1>2 DEF PumpOpensSession, Looping
<1>3. ASSUME LoopStarts
      PROVE  /\ currentSession' = pumpSession'
             /\ \A s \in Sessions : Owns(s)' => s = pumpSession'
    <2>1. currentSession' = currentSession
        <3>1. Pump
            BY <1>3, PumpMoves DEF LoopStarts
        <3>2. PumpSubmits
            BY <1>3, <3>1 DEF LoopStarts, Pump, PumpWakes, PumpCancelled, PumpProcess, PumpKeepsSession,
               PumpOpensSession, PumpStartFails, PumpMarks, PumpDoneSending, PumpAppends, PumpWrites,
               PumpClaims, PumpResolves, PumpTimeouts
        <3> QED BY <3>2 DEF PumpSubmits, claimVars
    <2>2. currentSession \in Sessions /\ pumpSession' = currentSession /\ Looping'
        BY <1>0, <1>3 DEF LoopStarts, Looping
    <2>3. ASSUME NEW s \in Sessions, Owns(s)'
          PROVE  s = currentSession
        <3>1. Owns(s) /\ Owns(currentSession)
            BY <1>0, <1>2, <2>2, <2>3, OwnerMoves DEF Owns
        <3> QED BY <1>0, <2>2, <3>1, OwnersAreOne
    <2> QED BY <2>1, <2>2, <2>3
<1>4. ASSUME Looping', Looping, pumpSession' = pumpSession, NEW q, q = pumpSession
      PROVE  /\ currentSession' = q \/ Dead(q)'
             /\ \A s \in Sessions : Owns(s)' => s = q
    <2>1. q \in Sessions /\ transport[q].conn # "none"
        BY <1>0, <1>4 DEF Looping, PumpOK, ConnOK
    <2>2. Dead(q) => Dead(q)'
        BY <1>0, <2>1, DeadStays
    <2>3. currentSession = q \/ Dead(q)
        BY <1>4 DEF SendOK
    <2>4. currentSession = q /\ currentSession' # q => Dead(q)
        BY <1>0, <1>4, <2>1, CurrentCleared
    <2>5. ASSUME NEW s \in Sessions, Owns(s)'
          PROVE  s = q
        <3>1. Owns(s)
            BY <1>0, <1>2, <1>4, <2>5, OwnerMoves
        <3> QED BY <1>4, <3>1 DEF SendOK
    <2> QED BY <2>2, <2>3, <2>4, <2>5
<1>5. ASSUME Looping'
      PROVE  LoopStarts \/ (Looping /\ pumpSession' = pumpSession)
    BY <1>0, <1>5, LoopMoves DEF Looping, PumpMarks
<1>6. ASSUME Looping'
      PROVE  /\ currentSession' = pumpSession' \/ Dead(pumpSession)'
             /\ \A s \in Sessions : Owns(s)' => s = pumpSession'
    <2>1. CASE LoopStarts
        BY <1>3, <2>1
    <2>2. CASE Looping /\ pumpSession' = pumpSession
        <3>1. PICK q : q = pumpSession
            OBVIOUS
        <3>2. Dead(q)' => Dead(pumpSession)'
            BY <2>2, <3>1 DEF Dead, Up, Open
        <3> QED BY <1>4, <1>6, <2>2, <3>1, <3>2
    <2> QED BY <1>5, <1>6, <2>1, <2>2
<1>7. pump' \in {"append", "write"} => Fresh(Head(pumpTodo))'
    <2>1. PICK b : b = Head(pumpTodo')
        OBVIOUS
    <2>2. Fresh(b)' => Fresh(Head(pumpTodo))'
        BY <2>1 DEF Fresh, InInbox
    <2> QED BY <1>1, <2>1, <2>2
<1> QED BY <1>6, <1>7 DEF SendOK

(* How the pump comes to handle an error. *)
LEMMA PumpErrMoves ==
    ASSUME TypeOK, PumpOK, [Next]_<<vars, setup>>, pump' \in {"claim", "resolve"}
    PROVE  \/ pumpErr' = "uncertain"
           \/ pump \in {"claim", "resolve"} /\ UNCHANGED <<pumpSession, pumpErr>>
           \/ /\ pump \in {"append", "write"} /\ pumpSession' = pumpSession
              /\ pumpErr' = InputError(pumpSession)
              /\ UNCHANGED <<inflightQueue, closing>> /\ \A b : ~ NewlySends(b)
<1>1. CASE UNCHANGED <<pump, pumpSession, pumpTodo, pumpErr>>
    BY <1>1
<1>2. CASE PumpWakes \/ PumpCancelled \/ PumpProcess \/ PumpKeepsSession \/ PumpOpensSession
           \/ PumpStartFails \/ PumpSubmits \/ PumpMarks \/ PumpDoneSending \/ PumpResolves
    BY <1>2 DEF PumpWakes, PumpCancelled, PumpProcess, PumpKeepsSession, PumpOpensSession,
        PumpStartFails, PumpSubmits, PumpMarks, PumpDoneSending, PumpResolves
<1>3. CASE PumpAppends
    BY <1>3 DEF PumpAppends, queueVars, closeVars, NewlySends, PumpSends, PumpWrites
<1>4. CASE PumpWrites
    <2>1. /\ pump = "write" /\ pump' = "claim" /\ pumpErr' = InputError(pumpSession)
          /\ WriteFails(pumpSession) /\ UNCHANGED <<pumpSession, inflightQueue, closing>>
        BY <1>4 DEF PumpWrites, queueVars, closeVars
    <2>2. ~ (Up(pumpSession) /\ Open(pumpSession))
        BY <2>1 DEF WriteFails, Up, Open
    <2> QED BY <2>1, <2>2 DEF NewlySends
<1>5. CASE PumpClaims
    BY <1>5 DEF PumpClaims
<1>6. CASE PumpTimeouts
    BY <1>6 DEF PumpTimeouts, EndIteration
<1> QED BY <1>1, <1>2, <1>3, <1>4, <1>5, <1>6, PumpMoves DEF Pump

(* A queued batch that is not stale stays queued, unless the whole queue   *)
(* fails: what is not applied is not acknowledged.                         *)
LEMMA FreshKeepsPlace ==
    ASSUME Basis, Base', NEW w \in Queued, Fresh(w), [Next]_<<vars, setup>>
    PROVE  w \in Queued' \/ (inflightQueue' = <<>> /\ closing')
<1>0. /\ Base /\ ConnOK /\ SentOK /\ FailedEnds /\ UniqueOK /\ OrderOK /\ AheadOK /\ AcksTrue
      /\ TypeOK /\ ClosingOK /\ QueueOK
    BY DEF Basis, Base
<1>q. inflightQueue \in Seq(Batches) /\ w \in Batches /\ IsInjective(inflightQueue)
      /\ Queued = Range(inflightQueue) /\ Queued' = Range(inflightQueue')
    BY <1>0 DEF TypeOK, Queued, Range, QueueOK
<1>1. CASE LeavesQueue \/ PumpMarks
    <2>1. inflightQueue' = inflightQueue
        BY <1>1 DEF LeavesQueue, PumpMarks
    <2> QED BY <1>q, <2>1
<1>2. CASE FailsAll
    BY <1>2 DEF FailsAll
<1>3. CASE Completes
    <2>1. lastAckedEnd' # lastAckedEnd
        BY <1>0, <1>3 DEF Completes, TypeOK
    <2>2. PICK s \in Sessions : Takes(s)
        <3>1. PICK r \in Sessions : ReaderTakesAck(r)
            BY <2>1, AckedMoves
        <3> QED BY <1>0, <3>1, TakesOldest
    <2>3. PICK h : h = Way(s)[1].of
        OBVIOUS
    <2>4. h = Head(inflightQueue)
        BY <1>0, <2>1, <2>2, <2>3, TakenLeaves
    <2>5. 1 \in DOMAIN Way(s) /\ h \in Batches
        <3>1. Way(s) \in Seq(Acks) /\ Way(s) # <<>>
            BY <1>0, <2>2, LineTypes DEF Takes
        <3>2. 1 \in DOMAIN Way(s) /\ Way(s)[1] \in Acks
            BY <3>1
        <3> QED BY <2>3, <3>2 DEF Acks
    <2>6. applied[h] >= 1
        BY <1>0, <2>3, <2>5 DEF AcksTrue
    <2>7. w # h
        BY <2>6 DEF Fresh
    <2>8. inflightQueue # <<>> /\ inflightQueue' = Tail(inflightQueue)
        BY <1>3 DEF Completes
    <2>9. Range(Tail(inflightQueue)) = Range(inflightQueue) \ {Head(inflightQueue)}
        BY <1>q, <2>8, QueueShrinks
    <2> QED BY <1>q, <2>4, <2>7, <2>8, <2>9
<1>4. ASSUME NEW a \in Batches, Submitter(a)
      PROVE  w \in Queued'
    <2>1. inflightQueue' \in {inflightQueue, Append(inflightQueue, a)}
        BY <1>4 DEF Submitter, Submit, Reserve, Enqueue, queueVars
    <2>2. PICK i \in DOMAIN inflightQueue : inflightQueue[i] = w
        BY DEF Queued
    <2>3. i \in DOMAIN inflightQueue' /\ inflightQueue'[i] = w
        BY <1>q, <2>1, <2>2, <1>4
    <2> QED BY <2>3 DEF Queued
<1> QED BY <1>0, <1>1, <1>2, <1>3, <1>4, QueueSteps

(* A queue that is empty for good stays empty. *)
LEMMA StaysEmpty ==
    ASSUME TypeOK, ClosingOK, [Next]_<<vars, setup>>, inflightQueue = <<>>, closing
    PROVE  inflightQueue' = <<>> /\ closing'
<1>1. closing'
    BY ClosingStep
<1>2. ASSUME NEW a \in Batches, Submitter(a)
      PROVE  inflightQueue' = <<>>
    BY <1>2 DEF Submitter, Submit, Reserve, Enqueue, queueVars
<1> QED BY <1>1, <1>2, QueueSteps DEF LeavesQueue, FailsAll, Completes, PumpMarks

(* When the pump handles an error without side effects, the batch it met   *)
(* it with is still queued and not stale, or the whole queue has failed.   *)
LEMMA PumpErrStep ==
    ASSUME Basis, Base', SendOK, PumpErrOK, [Next]_<<vars, setup>>
    PROVE  PumpErrOK'
<1>0. /\ Base /\ ConnOK /\ LoopOK /\ FailedEnds /\ UniqueOK /\ AckedTrue /\ ErrorsOK
      /\ TypeOK /\ PumpOK /\ ClosingOK /\ QueueOK /\ TodoOK /\ PumpOK'
      /\ QueueForward
    BY QueueMovesForward DEF Basis, Base
<1>q. Queued \subseteq Batches /\ Queued' \subseteq Batches
    <2>1. inflightQueue \in Seq(Batches) /\ inflightQueue' \in Seq(Batches)
        BY DEF Basis, Base, TypeOK
    <2> QED BY <2>1 DEF Queued
<1> DEFINE Idle == inflightQueue' = <<>> /\ closing'
           Keeps(q, w) == w \in Queued' /\ q \in entry'[w].sentOn /\ Fresh(w)'
           Good(q, e) == /\ e = "uncertain" \/ ErrKnown(q, e)'
                         /\ HasNoSideEffects(e) => Idle \/ \E w \in Batches : Keeps(q, w)
<1> SUFFICES ASSUME pump' \in {"claim", "resolve"}
             PROVE  PumpErrOK'
    BY DEF PumpErrOK
<1>1. ASSUME NEW q, q = pumpSession', NEW e, e = pumpErr', Good(q, e)
      PROVE  PumpErrOK'
    <2>1. ErrKnown(q, e)' => ErrKnown(pumpSession, pumpErr)'
        BY <1>1 DEF ErrKnown
    <2>2. (\E w \in Batches : Keeps(q, w)) => (\E w \in Queued : pumpSession \in entry[w].sentOn /\ Fresh(w))'
        BY <1>1
    <2> QED BY <1>1, <2>1, <2>2 DEF PumpErrOK
<1>2. CASE pumpErr' = "uncertain"
    <2>1. ~ HasNoSideEffects("uncertain")
        BY DEF HasNoSideEffects
    <2> QED BY <1>2, <2>1 DEF PumpErrOK
<1>3. CASE pump \in {"claim", "resolve"} /\ UNCHANGED <<pumpSession, pumpErr>>
    <2>1. PICK q, e : q = pumpSession /\ e = pumpErr
        OBVIOUS
    <2>2. q \in Sessions
        BY <1>0, <1>3, <2>1 DEF PumpOK
    <2>3. e = "uncertain" \/ ErrKnown(q, e)
        BY <1>3, <2>1 DEF PumpErrOK
    <2>4. e = "uncertain" \/ ErrKnown(q, e)'
        BY <1>0, <2>2, <2>3, KnownStays
    <2>5. ASSUME HasNoSideEffects(e)
          PROVE  Idle \/ \E w \in Batches : Keeps(q, w)
        <3>1. CASE inflightQueue = <<>> /\ closing
            BY <1>0, <3>1, StaysEmpty
        <3>2. ASSUME NEW w \in Queued, q \in entry[w].sentOn, Fresh(w), ~ Idle
              PROVE  Keeps(q, w)
            <4>0. w \in Batches
                BY <1>q
            <4>1. w \in Queued'
                BY <3>2, FreshKeepsPlace
            <4>2. ~ NewlySends(w)
                BY <1>3 DEF NewlySends, PumpSends, PumpWrites
            <4>3. Fresh(w)'
                BY <1>0, <3>2, <4>0, <4>2, FreshStays
            <4>4. q \in entry'[w].sentOn
                BY <1>0, <3>2, <4>0, <4>1 DEF QueueForward
            <4> QED BY <4>1, <4>3, <4>4
        <3> QED BY <1>3, <1>q, <2>1, <2>5, <3>1, <3>2 DEF PumpErrOK
    <2>6. Good(q, e)
        BY <2>4, <2>5
    <2> HIDE DEF Good
    <2> QED BY <1>1, <1>3, <2>1, <2>6
<1>4. CASE /\ pump \in {"append", "write"} /\ pumpSession' = pumpSession
           /\ pumpErr' = InputError(pumpSession)
           /\ UNCHANGED <<inflightQueue, closing>> /\ \A b : ~ NewlySends(b)
    <2>1. PICK q, e, w : q = pumpSession /\ e = InputError(pumpSession) /\ w = Head(pumpTodo)
        OBVIOUS
    <2>2. q \in Sessions /\ w \in Batches /\ sub[w] = "enqueued"
        <3>1. pumpTodo # <<>> /\ pumpTodo \in Seq(Batches) /\ q \in Sessions
            BY <1>0, <1>4, <2>1 DEF PumpOK, TypeOK
        <3>2. 1 \in DOMAIN pumpTodo /\ pumpTodo[1] = w
            BY <2>1, <3>1
        <3> QED BY <1>0, <3>1, <3>2 DEF TodoOK
    <2>3. e = "uncertain" \/ ErrKnown(q, e)
        <3>1. ReportOK(q)
            BY <1>0, <2>2 DEF ErrorsOK
        <3> QED BY <2>1, <3>1 DEF ReportOK, InputError
    <2>4. e = "uncertain" \/ ErrKnown(q, e)'
        BY <1>0, <2>2, <2>3, KnownStays
    <2>5. Fresh(w) /\ Fresh(w)'
        <3>1. Fresh(w)
            BY <1>4, <2>1 DEF SendOK
        <3> QED BY <1>0, <1>4, <2>2, <3>1, FreshStays
    <2>6. ASSUME result[w] = "none"
          PROVE  Keeps(q, w)
        <3>1. w \in Queued
            BY <1>0, <2>2, <2>6 DEF QueueOK
        <3>2. w \in Queued'
            BY <1>4, <3>1 DEF Queued
        <3>3. q \in entry[w].sentOn
            BY <1>0, <1>4, <2>1, <3>1 DEF LoopOK
        <3>4. q \in entry'[w].sentOn
            BY <1>0, <2>2, <3>2, <3>3 DEF QueueForward
        <3> QED BY <2>2, <2>5, <3>2, <3>4
    <2>7. ASSUME result[w] = "acked"
          PROVE  FALSE
        <3>1. ackedBy[w].of = w /\ applied[ackedBy[w].of] >= 1
            BY <1>0, <2>2, <2>7 DEF UniqueOK, AckedTrue
        <3> QED BY <2>5, <3>1 DEF Fresh
    <2>8. ASSUME result[w] \in Failures
          PROVE  Idle
        BY <1>0, <1>4, <2>2, <2>8 DEF FailedEnds
    <2>9. Idle \/ \E x \in Batches : Keeps(q, x)
        <3>1. result[w] \in {"none", "acked"} \cup Failures
            BY <1>0, <2>2 DEF TypeOK
        <3>2. CASE result[w] = "none"
            <4>1. Keeps(q, w)
                BY <2>6, <3>2
            <4> QED BY <2>2, <4>1
        <3> QED BY <2>7, <2>8, <3>1, <3>2
    <2>10. Good(q, e)
        BY <2>4, <2>9
    <2> HIDE DEF Good
    <2> QED BY <1>1, <1>4, <2>1, <2>10
<1> QED BY <1>0, <1>2, <1>3, <1>4, PumpErrMoves

(* At the start nothing is sent, so nothing can have an effect. *)
LEMMA EffectsInvInit == Init => EffectsInv
<1> SUFFICES ASSUME Init PROVE EffectsInv
    OBVIOUS
<1>1. /\ \A s \in Sessions : transport[s] = NoTransport /\ server[s] = [inbox |-> <<>>, response |-> <<>>, end |-> "up"]
      /\ inflightQueue = <<>> /\ pump = "select" /\ currentSession = NoSession
      /\ \A s \in Sessions : reader[s] = "off" /\ readerErr[s] = NoError
      /\ \A b \in Batches : applied[b] = 0
    BY DEF Init, TransportInit
<1>2. \A s \in Sessions : /\ transport[s].errorsCh = NoError /\ transport[s].terminalErr = NoError
                          /\ transport[s].chansClosed = FALSE
                          /\ server[s].end = "up" /\ server[s].inbox = <<>>
    BY <1>1 DEF NoTransport
<1>3. \A s \in Sessions : Inbox(s) = <<>> /\ DOMAIN Inbox(s) = {}
    BY <1>2 DEF Inbox
<1>4. LinesInv
    BY LinesInvInit
<1>5. ErrorsOK
    BY <1>1, <1>2, <1>3 DEF ErrorsOK, ReportOK, HandlerOK, ServerOK, HasNoSideEffects
<1>6. ConditionOK
    BY <1>1 DEF ConditionOK
<1>7. Stale = {}
    BY <1>1 DEF Stale, Queued
<1>8. \A s \in Sessions : ~ Owns(s)
    BY <1>1, SessionsAssumption DEF Owns
<1>9. EffectsOK
    BY <1>1, <1>3, <1>7, <1>8 DEF EffectsOK, OnceOK, StaleOK, PendingOK, SendOK, PumpErrOK, Looping
<1> QED BY <1>4, <1>5, <1>6, <1>9 DEF EffectsInv

(* The invariant of effects holds in every reachable state. *)
LEMMA EffectsInvariant == Spec => []EffectsInv
<1>1. ASSUME EffectsInv, LinesInv', [Next]_<<vars, setup>>
      PROVE  EffectsInv'
    <2>1. Base /\ Base' /\ ConnOK /\ LinesInv
        BY <1>1 DEF EffectsInv, LinesInv, AccountsInv, TypeInv, Base
    <2>2. ErrorsOK' /\ ConditionOK'
        BY <1>1, <2>1, ErrorsStep, ConditionStep DEF EffectsInv
    <2>3. setup' = setup
        BY <1>1 DEF Next, vars
    <2>4. Unconditional(setup)' <=> Unconditional(setup)
        BY <2>3 DEF Unconditional
    <2>5. ASSUME Unconditional(setup)
          PROVE  EffectsOK'
        <3>1. EffectsOK
            BY <1>1, <2>5 DEF EffectsInv
        <3>2. NoneTwice
            BY <3>1 DEF EffectsOK, OnceOK, NoneTwice
        <3>3. Basis
            BY <1>1, <2>1, <3>2 DEF Basis, EffectsInv, LinesInv, ExactOK
        <3>4. OnceOK' /\ StaleOK' /\ PendingOK' /\ SendOK' /\ PumpErrOK'
            BY <1>1, <2>1, <2>5, <3>1, <3>3, OnceStep, StaleStep, PendingStep, SendStep, PumpErrStep
               DEF EffectsOK
        <3> QED BY <3>4 DEF EffectsOK
    <2> QED BY <1>1, <2>2, <2>4, <2>5 DEF EffectsInv
<1> QED BY <1>1, EffectsInvInit, LinesInvariant, PTL DEF Spec

(***************************************************************************)
(* Retries have no effect of their own.  A batch that requires the tail    *)
(* its predecessors leave is applied at most once under any policy, and    *)
(* under the noSideEffects policy so is every batch of a session whose     *)
(* batches are unconditional, however many connections fail and whenever   *)
(* the pump meets the error of one whose acknowledgements are unread,      *)
(* provided no server drains (handleClaimedSessionError).                  *)
(***************************************************************************)
THEOREM RetriesHaveNoEffect ==
    ASSUME \A p \in Setups : p.policy = "noSideEffects" =>
              Unconditional(p) \/ \A b \in Batches : p.matchSeqNum[b] # NoMatch
    PROVE  Spec => []NoDuplicates
<1>1. ASSUME EffectsInv
      PROVE  NoDuplicates
    <2> SUFFICES ASSUME NEW b \in Batches,
                        setup.policy = "noSideEffects" \/ setup.matchSeqNum[b] # NoMatch
                 PROVE  applied[b] <= 1
        BY DEF NoDuplicates
    <2>1. setup \in Setups
        BY <1>1 DEF EffectsInv, LinesInv, AccountsInv, TypeInv
    <2>2. CASE setup.matchSeqNum[b] # NoMatch
        BY <1>1, <2>2 DEF EffectsInv, ConditionOK, Condition
    <2>3. CASE Unconditional(setup)
        BY <1>1, <2>3 DEF EffectsInv, EffectsOK, OnceOK
    <2> QED BY <2>1, <2>2, <2>3
<1> QED BY <1>1, EffectsInvariant, PTL

-----------------------------------------------------------------------------
(***************************************************************************)
(* Definite failures.                                                      *)
(*                                                                         *)
(* priorUncertainty marks every queued batch that an earlier connection    *)
(* may have carried further than anybody will learn.  One that is not      *)
(* marked was at most carried by connections that ended without side       *)
(* effects, or by the one that owns the batches in flight: if it was       *)
(* applied, its acknowledgement is on the way or the owner lost it.        *)
(***************************************************************************)
Harmless(s) == ErrKnown(s, server[s].end) /\ HasNoSideEffects(server[s].end)

AppliedOK == \A b \in Batches : applied[b] >= 1 => sub[b] = "enqueued"

(* What the pump sends on a connection that was given up goes nowhere, and *)
(* it handles an error that the server gave or that says nothing.          *)
TargetOK == Looping => currentSession = pumpSession \/ Dead(pumpSession)
PumpKnownOK == pump \in {"claim", "resolve"} => pumpErr = "uncertain" \/ ErrKnown(pumpSession, pumpErr)

Answers(s, b) == AckOn(s, b) \/ (Owns(s) /\ s \in entry[b].sentOn /\ Lost(s))

DefiniteOK ==
    \A b \in Queued : ~ entry[b].priorUncertainty =>
        /\ \A s \in Sessions : OnWay(s, b) => Owns(s) \/ Harmless(s)
        /\ applied[b] >= 1 => \E s \in Sessions : Answers(s, b)

DefiniteInv ==
    /\ LinesInv /\ ErrorsOK /\ AppliedOK /\ TargetOK /\ PumpKnownOK
    /\ NoneTwice => DefiniteOK

(* What was applied was enqueued. *)
LEMMA AppliedStep ==
    ASSUME Base, ConnOK, SentOK, AppliedOK, [Next]_<<vars, setup>>
    PROVE  AppliedOK'
<1> SUFFICES ASSUME NEW b \in Batches, applied'[b] >= 1
             PROVE  sub'[b] = "enqueued"
    BY DEF AppliedOK
<1>1. applied[b] \in Nat /\ (sub[b] = "enqueued" => sub'[b] = "enqueued")
    BY EnqueuedStays DEF Base, TypeOK, TransportTypeOK
<1>2. CASE UNCHANGED applied
    BY <1>1, <1>2 DEF AppliedOK
<1>3. ASSUME NEW r \in Sessions, Applies(r)
      PROVE  sub'[b] = "enqueued"
    <2>1. PICK h : h = Head(Inbox(r))
        OBVIOUS
    <2>2. CASE b = h
        <3>1. Inbox(r) \in Seq(Batches) /\ Inbox(r) # <<>>
            BY <1>3, LineTypes DEF Base, Applies
        <3>2. 1 \in DOMAIN Inbox(r) /\ Inbox(r)[1] = b
            BY <2>1, <2>2, <3>1
        <3>3. OnWay(r, b)
            BY <3>2 DEF OnWay
        <3> QED BY <1>1, <3>3 DEF SentOK
    <2>3. CASE b # h
        <3>1. applied'[b] = applied[b]
            BY <1>3, <2>1, <2>3, StreamGrows
        <3> QED BY <1>1, <3>1 DEF AppliedOK
    <2> QED BY <2>2, <2>3
<1>4. UNCHANGED applied \/ \E r \in Sessions : Applies(r)
    BY LineCases DEF Rests, Sends, Takes
<1> QED BY <1>2, <1>3, <1>4

(* A mark of uncertainty stays: only resetting adds one. *)
LEMMA PriorStays ==
    ASSUME TypeOK, [Next]_<<vars, setup>>, NEW b \in Batches, entry[b].priorUncertainty
    PROVE  entry'[b].priorUncertainty
<1> USE DEF queueVars
<1>t. entry \in [Batches -> Entries] /\ inflightQueue \in Seq(Batches) /\ Queued \subseteq Batches
    BY DEF TypeOK, Queued
<1>1. ASSUME NEW a \in Batches, Submitter(a)
      PROVE  entry' = entry
    BY <1>1 DEF Submitter, Submit, Reserve, Enqueue
<1>2. ASSUME NEW s, NEW err, ResolveFailure(s, err)
      PROVE  entry'[b].priorUncertainty
    <2>1. entry' = entry \/ entry' = ResetEntries(s, err)
        BY <1>2 DEF ResolveFailure
    <2>2. ResetEntries(s, err)[b].priorUncertainty
        BY <1>t DEF ResetEntries, Entries
    <2> QED BY <2>1, <2>2
<1>3. ASSUME NEW s \in Sessions, ReaderTakesAck(s)
      PROVE  entry'[b].priorUncertainty
    <2>1. entry' = entry \/ (inflightQueue # <<>> /\ entry' = [entry EXCEPT ![Head(inflightQueue)].sentOn = {}])
        BY <1>3 DEF ReaderTakesAck, TakeAck, HandleAck, CompleteHead, ConcernsHead
    <2>2. inflightQueue # <<>> => Head(inflightQueue) \in Batches
        BY <1>t
    <2> QED BY <1>t, <2>1, <2>2 DEF Entries
<1>4. ASSUME NEW s \in Sessions, Reader(s)
      PROVE  entry'[b].priorUncertainty
    <2>1. CASE ReaderResolves(s)
        BY <2>1, <1>2 DEF ReaderResolves
    <2>2. CASE entry' = entry
        BY <2>2
    <2> QED BY <1>3, <1>4, <2>1, <2>2 DEF Reader, ReaderWeighsAdvice, ReaderTakesError,
           ReaderDrained, ReaderClaims, ReaderSeesEnd, ReaderFollowsAdvice, ReaderCancelled
<1>5. CASE Pump
    <2>1. CASE PumpMarks
        <3>1. pumpTodo \in Seq(Batches)
            BY DEF TypeOK
        <3>2. PICK i \in DOMAIN pumpTodo : entry' = [entry EXCEPT
                 ![pumpTodo[i]].sentOn = @ \cup {pumpSession},
                 ![pumpTodo[i]].attemptStart = IF @ = "zero" THEN "running" ELSE @]
            BY <2>1 DEF PumpMarks
        <3>3. pumpTodo[i] \in Batches
            BY <3>1
        <3> QED BY <1>t, <3>2, <3>3 DEF Entries
    <2>2. CASE PumpResolves
        BY <2>2, <1>2 DEF PumpResolves
    <2>3. CASE entry' = entry
        BY <2>3
    <2> QED BY <1>5, <2>1, <2>2, <2>3 DEF Pump, PumpWakes, PumpCancelled, PumpProcess, PumpKeepsSession,
           PumpOpensSession, PumpStartFails, PumpSubmits, PumpDoneSending, PumpAppends, PumpWrites,
           PumpClaims, PumpTimeouts
<1>6. CASE \E s \in Sessions : TransportNext(s) /\ UNCHANGED SessionVars
    BY <1>6 DEF SessionVars
<1>7. CASE RequestTimeout
    <2>1. Head(inflightQueue) \in Batches
        BY <1>t, <1>7 DEF RequestTimeout
    <2> QED BY <1>t, <1>7, <2>1 DEF RequestTimeout, Entries
<1>8. CASE CloseStarts \/ Closer \/ Cancel \/ RetryDue
    BY <1>8 DEF CloseStarts, Closer, CloseDrained, CloseCleansUp, CloseReturns, Cancel, RetryDue
<1>9. CASE UNCHANGED <<vars, setup>>
    BY <1>9 DEF vars
<1> QED BY <1>1, <1>4, <1>5, <1>6, <1>7, <1>8, <1>9 DEF Next, Step

(* How a connection ceases to own the batches in flight. *)
LEMMA OwnerLeaves ==
    ASSUME Base, [Next]_<<vars, setup>>, NEW s \in Sessions, Owns(s), ~ Owns(s)'
    PROVE  \/ reader[s] = "resolve" /\ ResolveFailure(s, readerErr[s])
           \/ pump = "resolve" /\ pumpSession = s /\ ResolveFailure(s, pumpErr)
           \/ ~ HasUnackedOnSession(s)
<1>0. /\ currentSession \in Sessions \cup {NoSession} /\ NoSession \notin Sessions /\ TypeOK
      /\ reader \in [Sessions -> {"off", "select", "drain", "advised", "advice", "claim", "resolve", "done"}]
    BY SessionsAssumption DEF Base, TypeOK
<1>1. CASE reader[s] = "resolve"
    <2>1. CASE PumpOpensSession
        BY <2>1, NobodyOwns
    <2>2. CASE Reader(s) /\ ~ PumpOpensSession
        BY <1>1, <2>2 DEF Reader, ReaderTakesAck, ReaderWeighsAdvice, ReaderTakesError, ReaderDrained,
           ReaderClaims, ReaderResolves, ReaderSeesEnd, ReaderFollowsAdvice, ReaderCancelled
    <2>3. reader'[s] # reader[s]
        BY <1>1 DEF Owns
    <2> QED BY <1>0, <2>1, <2>2, <2>3, ReaderMoves
<1>2. CASE pump = "resolve" /\ pumpSession = s
    <2>1. Pump
        BY <1>2, PumpMoves DEF Owns
    <2> QED BY <1>2, <2>1 DEF Pump, PumpWakes, PumpCancelled, PumpProcess, PumpKeepsSession,
           PumpOpensSession, PumpStartFails, PumpSubmits, PumpMarks, PumpDoneSending, PumpAppends,
           PumpWrites, PumpClaims, PumpResolves, PumpTimeouts
<1>3. CASE currentSession = s
    <2>0. currentSession' # s
        BY DEF Owns
    <2>1. CASE Pump
        <3>1. CASE PumpClaims
            <4>1. pumpSession = s /\ pump' = "resolve" /\ pumpSession' = s
                BY <1>3, <2>0, <3>1 DEF PumpClaims, ClaimFailure, OwnsFailure
            <4> QED BY <4>1 DEF Owns
        <3>2. CASE PumpTimeouts
            <4>1. pump' = "resolve" /\ pumpSession' = s
                BY <1>3, <2>0, <3>2 DEF PumpTimeouts, claimVars
            <4> QED BY <4>1 DEF Owns
        <3>3. CASE PumpResolves
            BY <1>3, <2>0, <3>3 DEF PumpResolves, ResolveFailure
        <3>4. CASE PumpOpensSession
            BY <3>4, NobodyOwns
        <3> QED BY <1>3, <2>0, <2>1, <3>1, <3>2, <3>3, <3>4 DEF Pump, PumpWakes, PumpCancelled, PumpProcess,
               PumpKeepsSession, PumpStartFails, PumpSubmits, PumpMarks, PumpDoneSending, PumpAppends,
               PumpWrites, claimVars
    <2>2. ASSUME NEW r \in Sessions, Reader(r)
          PROVE  ~ HasUnackedOnSession(s)
        <3>1. CASE ReaderClaims(r)
            <4>1. r = s /\ reader' = [reader EXCEPT ![r] = "resolve"]
                BY <1>3, <2>0, <3>1 DEF ReaderClaims, ClaimFailure, OwnsFailure
            <4> QED BY <1>0, <4>1 DEF Owns
        <3>2. CASE ReaderFollowsAdvice(r)
            BY <1>3, <2>0, <3>2 DEF ReaderFollowsAdvice
        <3>3. CASE ReaderResolves(r)
            BY <1>3, <2>0, <3>3 DEF ReaderResolves, ResolveFailure
        <3> QED BY <1>3, <2>0, <2>2, <3>1, <3>2, <3>3 DEF Reader, ReaderTakesAck, TakeAck, ReaderWeighsAdvice,
               ReaderTakesError, ReaderDrained, ReaderSeesEnd, ReaderCancelled, claimVars
    <2>3. ASSUME NEW a \in Batches, Submitter(a)
          PROVE  FALSE
        BY <1>3, <2>0, <2>3 DEF Submitter, Submit, Reserve, Enqueue, claimVars
    <2>4. CASE \E r \in Sessions : TransportNext(r) /\ UNCHANGED SessionVars
        BY <1>3, <2>0, <2>4 DEF SessionVars, claimVars
    <2>5. CASE CloseStarts \/ Closer \/ Cancel \/ RetryDue \/ RequestTimeout
        BY <1>3, <2>0, <2>5 DEF CloseStarts, Closer, CloseDrained, CloseCleansUp, CloseReturns, Cancel,
           RetryDue, RequestTimeout, claimVars
    <2>6. CASE UNCHANGED <<vars, setup>>
        BY <1>3, <2>0, <2>6 DEF vars, claimVars
    <2> QED BY <2>1, <2>2, <2>3, <2>4, <2>5, <2>6 DEF Next, Step
<1> QED BY <1>1, <1>2, <1>3 DEF Owns

(* When it does, every queued batch sent on it is marked, unless it ended  *)
(* without side effects.                                                   *)
LEMMA LeavesHarmless ==
    ASSUME Base, ErrorsOK, PumpKnownOK, [Next]_<<vars, setup>>, NEW s \in Sessions,
           Owns(s), ~ Owns(s)', NEW b \in Queued, b \in Queued', s \in entry[b].sentOn,
           ~ entry'[b].priorUncertainty
    PROVE  Harmless(s)
<1>0. b \in Batches
    BY DEF Base, TypeOK, Queued
<1>1. HasUnackedOnSession(s)
    BY DEF HasUnackedOnSession
<1>2. ASSUME NEW err, ResolveFailure(s, err), err = "uncertain" \/ ErrKnown(s, err)
      PROVE  Harmless(s)
    <2>1. inflightQueue' # <<>>
        BY DEF Queued
    <2>2. entry' = ResetEntries(s, err)
        BY <1>2, <2>1 DEF ResolveFailure, FailAllInflight, FailQueued
    <2>3. entry'[b].priorUncertainty <=> entry[b].priorUncertainty \/ ~HasNoSideEffects(err)
        <3>1. entry[b] \in Entries
            BY <1>0 DEF Base, TypeOK
        <3> QED BY <1>0, <2>2, <3>1 DEF ResetEntries, Entries
    <2>4. HasNoSideEffects(err) /\ err # "uncertain"
        BY <2>3 DEF HasNoSideEffects
    <2> QED BY <1>2, <2>4 DEF Harmless, ErrKnown
<1>3. ASSUME reader[s] = "resolve", ResolveFailure(s, readerErr[s])
      PROVE  Harmless(s)
    <2>1. PICK err : err = readerErr[s]
        OBVIOUS
    <2>2. err = "uncertain" \/ ErrKnown(s, err)
        BY <1>3, <2>1 DEF ErrorsOK, HandlerOK
    <2> QED BY <1>2, <1>3, <2>1, <2>2
<1>4. ASSUME pump = "resolve", pumpSession = s, ResolveFailure(s, pumpErr)
      PROVE  Harmless(s)
    <2>1. PICK err : err = pumpErr
        OBVIOUS
    <2>2. err = "uncertain" \/ ErrKnown(s, err)
        BY <1>4, <2>1 DEF PumpKnownOK
    <2> QED BY <1>2, <1>4, <2>1, <2>2
<1> QED BY <1>1, <1>3, <1>4, OwnerLeaves

(* A connection that ended without side effects stays so. *)
LEMMA HarmlessStays ==
    ASSUME Base, ConnOK, [Next]_<<vars, setup>>, NEW s \in Sessions, Harmless(s)
    PROVE  Harmless(s)'
<1>1. PICK e : e = server[s].end
    OBVIOUS
<1>2. ErrKnown(s, e)' /\ server'[s].end = e
    BY <1>1, KnownStays DEF Harmless
<1> QED BY <1>1, <1>2 DEF Harmless, ErrKnown

(* What the pump sends on a connection that is not current goes nowhere.   *)
LEMMA TargetStep ==
    ASSUME Base, ConnOK, ErrorsOK, TargetOK, [Next]_<<vars, setup>>
    PROVE  TargetOK'
<1>0. TypeOK /\ PumpOK
    BY DEF Base
<1> SUFFICES ASSUME Looping' PROVE currentSession' = pumpSession' \/ Dead(pumpSession)'
    BY DEF TargetOK
<1>1. CASE LoopStarts
    <2>1. Pump
        BY <1>1, PumpMoves DEF LoopStarts
    <2>2. PumpSubmits
        BY <1>1, <2>1 DEF LoopStarts, Pump, PumpWakes, PumpCancelled, PumpProcess, PumpKeepsSession,
           PumpOpensSession, PumpStartFails, PumpMarks, PumpDoneSending, PumpAppends, PumpWrites,
           PumpClaims, PumpResolves, PumpTimeouts
    <2> QED BY <1>1, <2>2 DEF PumpSubmits, claimVars, LoopStarts
<1>2. CASE Looping /\ pumpSession' = pumpSession
    <2>1. PICK q : q = pumpSession
        OBVIOUS
    <2>2. q \in Sessions /\ transport[q].conn # "none" /\ q # NoSession
        BY <1>0, <1>2, <2>1, SessionsAssumption DEF Looping, PumpOK, ConnOK
    <2>3. Dead(q) => Dead(q)'
        BY <1>0, <2>2, DeadStays
    <2>4. currentSession = q /\ currentSession' # q => Dead(q)
        BY <1>2, <2>2, CurrentCleared
    <2>5. Dead(q)' => Dead(pumpSession)'
        BY <1>2, <2>1 DEF Dead, Up, Open
    <2> QED BY <1>2, <2>1, <2>3, <2>4, <2>5 DEF TargetOK
<1> QED BY <1>0, <1>1, <1>2, LoopMoves DEF Looping, PumpMarks

(* The pump's error is the server's, or says nothing. *)
LEMMA PumpKnownStep ==
    ASSUME Base, ConnOK, ErrorsOK, PumpKnownOK, [Next]_<<vars, setup>>
    PROVE  PumpKnownOK'
<1>0. TypeOK /\ PumpOK
    BY DEF Base
<1> SUFFICES ASSUME pump' \in {"claim", "resolve"}
             PROVE  pumpErr' = "uncertain" \/ ErrKnown(pumpSession, pumpErr)'
    BY DEF PumpKnownOK
<1>1. ASSUME NEW q \in Sessions, NEW e, q = pumpSession', e = pumpErr', e = "uncertain" \/ ErrKnown(q, e)
      PROVE  pumpErr' = "uncertain" \/ ErrKnown(pumpSession, pumpErr)'
    <2>1. e = "uncertain" \/ ErrKnown(q, e)'
        BY <1>1, KnownStays
    <2> QED BY <1>1, <2>1 DEF ErrKnown
<1>2. CASE pump \in {"claim", "resolve"} /\ UNCHANGED <<pumpSession, pumpErr>>
    <2>1. PICK q, e : q = pumpSession /\ e = pumpErr
        OBVIOUS
    <2>2. q \in Sessions /\ (e = "uncertain" \/ ErrKnown(q, e))
        BY <1>0, <1>2, <2>1 DEF PumpOK, PumpKnownOK
    <2> QED BY <1>1, <1>2, <2>1, <2>2
<1>3. CASE pump \in {"append", "write"} /\ pumpSession' = pumpSession /\ pumpErr' = InputError(pumpSession)
    <2>1. PICK q, e : q = pumpSession /\ e = InputError(pumpSession)
        OBVIOUS
    <2>2. q \in Sessions
        BY <1>0, <1>3, <2>1 DEF PumpOK
    <2>3. ReportOK(q)
        BY <2>2 DEF ErrorsOK
    <2>4. e = "uncertain" \/ ErrKnown(q, e)
        BY <2>1, <2>3 DEF ReportOK, InputError
    <2> QED BY <1>1, <1>3, <2>1, <2>2, <2>4
<1> QED BY <1>0, <1>2, <1>3, PumpErrMoves

(* What is under way is under way on the owner, or on a connection that    *)
(* ended without side effects.                                             *)
LEMMA WayStep ==
    ASSUME Basis, TargetOK, PumpKnownOK, DefiniteOK, [Next]_<<vars, setup>>,
           NEW b \in Batches, b \in Queued', ~ entry'[b].priorUncertainty, NEW s \in Sessions, OnWay(s, b)'
    PROVE  Owns(s)' \/ Harmless(s)'
<1>0. Base /\ ConnOK /\ SentOK /\ ErrorsOK /\ PumpOK /\ QueueForward
    BY QueueMovesForward DEF Basis, Base
<1>1. ~ entry[b].priorUncertainty
    BY <1>0, PriorStays DEF Base
<1>2. CASE OnWay(s, b)
    <2>1. b \in Queued /\ s \in entry[b].sentOn
        BY <1>0, <1>2 DEF SentOK, QueueForward
    <2>2. Owns(s) \/ Harmless(s)
        BY <1>1, <1>2, <2>1 DEF DefiniteOK
    <2>3. Owns(s) /\ ~ Owns(s)' => Harmless(s)
        BY <1>0, <2>1, LeavesHarmless
    <2>4. Harmless(s) => Harmless(s)'
        BY <1>0, HarmlessStays
    <2> QED BY <2>2, <2>3, <2>4
<1>3. CASE PumpSends /\ s = pumpSession /\ b = Head(pumpTodo) /\ ~ OnWay(s, b)
    <2>1. pump = "write" /\ UNCHANGED currentSession
        BY <1>3 DEF PumpSends, PumpWrites, claimVars
    <2>2. Sends(s, b)
        BY <1>0, <1>3, SendsFrame DEF Base
    <2>3. Up(s)
        BY <1>3, <2>2 DEF Sends, OnWay, AckOn
    <2>4. Open(s)
        BY <2>2 DEF Sends
    <2>5. currentSession = s
        BY <1>3, <2>1, <2>3, <2>4 DEF TargetOK, Looping, Dead
    <2> QED BY <2>1, <2>5 DEF Owns
<1> QED BY <1>0, <1>2, <1>3, OnWayComes

(* A batch that was applied, and is not marked, is answered for.           *)
LEMMA AnswersStep ==
    ASSUME Basis, Base', AppliedOK, PumpKnownOK, DefiniteOK, [Next]_<<vars, setup>>,
           NEW b \in Batches, b \in Queued', ~ entry'[b].priorUncertainty, applied'[b] >= 1
    PROVE  \E s \in Sessions : Answers(s, b)'
<1>0. /\ Base /\ ConnOK /\ SentOK /\ ErrorsOK /\ FailedEnds /\ UniqueOK /\ OrderOK /\ AheadOK
      /\ QueueForward
    BY QueueMovesForward DEF Basis, Base
<1>1. ~ entry[b].priorUncertainty
    BY <1>0, PriorStays DEF Base
<1>2. ASSUME NEW s \in Sessions, b \in Queued, Owns(s), s \in entry[b].sentOn, Lost(s)
      PROVE  Answers(s, b)'
    <2>1. EndStep(s)
        BY <1>0, ReportMoves
    <2>2. Lost(s)'
        BY <1>2, <2>1 DEF EndStep, Lost, Up
    <2>3. Owns(s)'
        <3>1. ~ Harmless(s)
            BY <1>2 DEF Lost, Harmless
        <3> QED BY <1>0, <1>2, <3>1, LeavesHarmless
    <2>4. s \in entry'[b].sentOn
        BY <1>0, <1>2 DEF QueueForward
    <2> QED BY <2>2, <2>3, <2>4 DEF Answers
<1>3. ASSUME NEW s \in Sessions, OnWay(s, b)
      PROVE  b \in Queued /\ s \in entry[b].sentOn /\ (Owns(s) \/ Harmless(s))
    <2>1. b \in Queued /\ s \in entry[b].sentOn
        BY <1>0, <1>3 DEF SentOK, QueueForward
    <2> QED BY <1>1, <1>3, <2>1 DEF DefiniteOK
<1>4. ASSUME NEW s \in Sessions, AckOn(s, b)
      PROVE  Answers(s, b)'
    <2>1. EndStep(s)
        BY <1>0, ReportMoves
    <2>2. OnWay(s, b)
        BY <1>4 DEF OnWay
    <2>3. CASE Up(s)'
        BY <1>0, <1>4, <2>3, StaysOnWay DEF Answers
    <2>4. CASE Lost(s)
        <3>1. ~ Harmless(s)
            BY <2>4 DEF Lost, Harmless
        <3> QED BY <1>2, <1>3, <2>2, <2>4, <3>1
    <2>5. CASE Up(s) /\ ~ Up(s)'
        <3>1. CASE Lost(s)'
            <4>1. ~ Harmless(s)
                BY <2>5 DEF Up, Harmless, ErrKnown, Errors
            <4>2. b \in Queued /\ s \in entry[b].sentOn /\ Owns(s)
                BY <1>3, <2>2, <4>1
            <4>3. Owns(s)'
                BY <1>0, <4>1, <4>2, LeavesHarmless
            <4>4. s \in entry'[b].sentOn
                BY <1>0, <4>2 DEF QueueForward
            <4> QED BY <3>1, <4>3, <4>4 DEF Answers
        <3>2. CASE ~ Lost(s)'
            <4>1. Way(s)' = Way(s)
                BY <2>1, <2>5, <3>2 DEF EndStep, Lost, Up
            <4> QED BY <1>4, <4>1 DEF AckOn, Answers
        <3> QED BY <3>1, <3>2
    <2>6. CASE ~ Up(s)
        <3>1. PICK i \in DOMAIN Way(s) : Way(s)[i].of = b
            BY <1>4 DEF AckOn
        <3>2. CASE Way(s)' = Way(s)
            BY <3>1, <3>2 DEF AckOn, Answers
        <3>3. CASE Takes(s)
            <4>0. Way(s) \in Seq(Acks)
                BY <1>0, LineTypes DEF Base
            <4>1. Way(s)' = Tail(Way(s)) /\ Way(s) # <<>>
                BY <3>3 DEF Takes
            <4>2. i # 1
                BY <1>0, <3>1, <3>3, TakenLeaves
            <4>3. i - 1 \in DOMAIN Way(s)' /\ Way(s)'[i - 1] = Way(s)[i]
                BY <4>0, <4>1, <4>2
            <4> QED BY <3>1, <4>3 DEF AckOn, Answers
        <3> QED BY <2>1, <2>6, <3>2, <3>3 DEF EndStep
    <2> QED BY <2>3, <2>5, <2>6
<1>5. CASE applied[b] >= 1
    <2>1. b \in Queued
        BY <1>0, <1>5 DEF AppliedOK, QueueForward
    <2>2. PICK s \in Sessions : Answers(s, b)
        BY <1>1, <1>5, <2>1 DEF DefiniteOK
    <2>3. Answers(s, b)'
        BY <1>2, <1>4, <2>1, <2>2 DEF Answers
    <2> QED BY <2>3
<1>6. CASE ~ (applied[b] >= 1)
    <2>1. UNCHANGED applied \/ \E r \in Sessions : Applies(r)
        BY <1>0, LineCases DEF Rests, Sends, Takes
    <2>2. PICK r \in Sessions : Applies(r)
        BY <1>6, <2>1
    <2>3. PICK h : h = Head(Inbox(r))
        OBVIOUS
    <2>4. b = h
        BY <1>0, <1>6, <2>2, <2>3, StreamGrows
    <2>5. /\ Inbox(r) \in Seq(Batches) /\ Inbox(r) # <<>> /\ Way(r) \in Seq(Acks) /\ Way(r)' \in Seq(Acks)
          /\ tail' \in Nat
        BY <1>0, <2>2, LineTypes, LineTypesNext, StreamGrows DEF Base, Applies
    <2>6. CASE Up(r)
        <3>1. PICK a : a = [of |-> h, end |-> tail']
            OBVIOUS
        <3>2. a \in Acks /\ Way(r)' = Append(Way(r), a)
            <4>1. Way(r)' = Append(Way(r), a)
                BY <2>2, <2>3, <2>6, <3>1 DEF Applies
            <4> QED BY <2>4, <2>5, <3>1, <4>1 DEF Acks
        <3>3. Len(Way(r)) + 1 \in DOMAIN Way(r)' /\ Way(r)'[Len(Way(r)) + 1].of = b
            BY <2>4, <2>5, <3>1, <3>2
        <3>4. AckOn(r, b)'
            BY <3>3 DEF AckOn
        <3> QED BY <3>4 DEF Answers
    <2>7. CASE ~ Up(r)
        <3>1. 1 \in DOMAIN Inbox(r) /\ Inbox(r)[1] = b
            BY <2>3, <2>4, <2>5
        <3>2. OnWay(r, b)
            BY <3>1 DEF OnWay
        <3>3. Lost(r)
            BY <1>0, <2>5, <2>7 DEF ErrorsOK, ServerOK, Lost
        <3>4. ~ Harmless(r)
            BY <3>3 DEF Lost, Harmless
        <3> QED BY <1>2, <1>3, <3>2, <3>3, <3>4
    <2> QED BY <2>6, <2>7
<1> QED BY <1>5, <1>6

(* A ticket fails with "no side effects" only when the owner of a failure  *)
(* resolves an error that says so and the batch is not marked.             *)
LEMMA WhoFailsDefinitely ==
    ASSUME TypeOK, [Next]_<<vars, setup>>, NEW b \in Batches, FailsDefinitely(b)
    PROVE  /\ b \in Queued /\ ~ entry[b].priorUncertainty
           /\ \/ \E s \in Sessions : reader[s] = "resolve" /\ HasNoSideEffects(readerErr[s])
              \/ pump = "resolve" /\ HasNoSideEffects(pumpErr)
<1> USE DEF queueVars
<1> DEFINE Marked == b \in Queued /\ ~ entry[b].priorUncertainty
<1>0. result[b] = "none" /\ result'[b] = "failedNoEffect" /\ inflightQueue \in Seq(Batches)
      /\ result \in [Batches -> {"none", "acked"} \cup Failures]
    BY DEF FailsDefinitely, TypeOK
<1>1. ASSUME NEW err, NEW t, FailAllInflight(err, t)
      PROVE  Marked /\ HasNoSideEffects(err)
    <2>1. result' = [a \in Batches |->
              IF a \in Queued THEN WithPriorUncertainty(err, entry[a].priorUncertainty) ELSE result[a]]
        BY <1>1 DEF FailAllInflight, FailQueued
    <2>2. b \in Queued /\ WithPriorUncertainty(err, entry[b].priorUncertainty) = "failedNoEffect"
        BY <1>0, <2>1
    <2> QED BY <2>2 DEF WithPriorUncertainty
<1>2. ASSUME NEW s, NEW err, ResolveFailure(s, err)
      PROVE  Marked /\ HasNoSideEffects(err)
    <2>1. result' # result
        BY <1>0
    <2>2. FailAllInflight(err, transport)
        BY <1>2, <2>1 DEF ResolveFailure, KeepInflight
    <2> QED BY <1>1, <2>2
<1>u. ~ HasNoSideEffects("uncertain") /\ ~ HasNoSideEffects("fatalUncertain")
    BY DEF HasNoSideEffects
<1>3. ASSUME NEW s \in Sessions, Reader(s)
      PROVE  Marked /\ reader[s] = "resolve" /\ HasNoSideEffects(readerErr[s])
    <2>1. CASE ReaderResolves(s)
        BY <2>1, <1>2 DEF ReaderResolves
    <2>2. CASE ReaderTakesAck(s)
        <3>1. PICK ack, t : HandleAck(s, ack, t)
            BY <2>2 DEF ReaderTakesAck, TakeAck
        <3>2. ~ FailAllInflight("uncertain", t)
            BY <1>1, <1>u
        <3>3. ~ KeepInflight(t)
            BY <1>0 DEF KeepInflight
        <3>4. ConcernsHead(s, ack) /\ CompleteHead(s, ack, t)
            BY <3>1, <3>2, <3>3 DEF HandleAck
        <3>5. Head(inflightQueue) \in Batches /\ result' = [result EXCEPT ![Head(inflightQueue)] = "acked"]
            BY <1>0, <3>4 DEF ConcernsHead, CompleteHead
        <3>6. result'[b] \in {result[b], "acked"}
            BY <1>0, <3>5
        <3> QED BY <1>0, <3>6
    <2> QED BY <1>0, <1>3, <2>1, <2>2 DEF Reader, ReaderWeighsAdvice, ReaderTakesError, ReaderDrained,
           ReaderClaims, ReaderSeesEnd, ReaderFollowsAdvice, ReaderCancelled
<1>4. ASSUME Pump
      PROVE  Marked /\ pump = "resolve" /\ HasNoSideEffects(pumpErr)
    <2>1. CASE PumpResolves
        BY <2>1, <1>2 DEF PumpResolves
    <2>2. CASE PumpCancelled
        <3>1. FailAllInflight("uncertain", transport)
            BY <2>2 DEF PumpCancelled
        <3> QED BY <1>1, <1>u, <3>1
    <2>3. CASE PumpStartFails
        <3>1. PICK err \in {"uncertain", "fatalUncertain"} : KeepInflight(transport) \/ FailAllInflight(err, transport)
            BY <2>3 DEF PumpStartFails
        <3>2. ~ KeepInflight(transport)
            BY <1>0 DEF KeepInflight
        <3> QED BY <1>1, <1>u, <3>1, <3>2
    <2> QED BY <1>0, <1>4, <2>1, <2>2, <2>3 DEF Pump, PumpWakes, PumpProcess, PumpKeepsSession,
           PumpOpensSession, PumpSubmits, PumpMarks, PumpDoneSending, PumpAppends, PumpWrites,
           PumpClaims, PumpTimeouts
<1>5. ASSUME NEW a \in Batches, Submitter(a)
      PROVE  FALSE
    BY <1>0, <1>5 DEF Submitter, Submit, Reserve, Enqueue
<1>6. ASSUME \E s \in Sessions : TransportNext(s) /\ UNCHANGED SessionVars
      PROVE  FALSE
    BY <1>0, <1>6 DEF SessionVars
<1>7. ASSUME CloseCleansUp
      PROVE  FALSE
    <2>1. result' = [a \in Batches |-> IF a \in Queued THEN [x \in Queued |-> "failed"][a] ELSE result[a]]
        BY <1>7 DEF CloseCleansUp, FailQueued
    <2> QED BY <1>0, <2>1
<1>8. ASSUME CloseStarts \/ CloseDrained \/ CloseReturns \/ Cancel \/ RetryDue \/ RequestTimeout
      PROVE  FALSE
    BY <1>0, <1>8 DEF CloseStarts, CloseDrained, CloseReturns, Cancel, RetryDue, RequestTimeout
<1>9. ASSUME UNCHANGED <<vars, setup>>
      PROVE  FALSE
    BY <1>0, <1>9 DEF vars
<1> QED BY <1>3, <1>4, <1>5, <1>6, <1>7, <1>8, <1>9 DEF Next, Step, Closer

(* At the start no batch has been sent and none is uncertain. *)
LEMMA DefiniteInvInit == Init => DefiniteInv
<1> SUFFICES ASSUME Init PROVE DefiniteInv
    OBVIOUS
<1>1. LinesInv /\ ErrorsOK
    BY LinesInvInit, EffectsInvInit DEF EffectsInv
<1>2. inflightQueue = <<>> /\ pump = "select" /\ \A b \in Batches : applied[b] = 0
    BY DEF Init, TransportInit
<1>3. Queued = {}
    BY <1>2 DEF Queued
<1> QED BY <1>1, <1>2, <1>3 DEF DefiniteInv, AppliedOK, TargetOK, PumpKnownOK, DefiniteOK, Looping

(* The invariant of definite failures holds in every reachable state. *)
LEMMA DefiniteInvariant == Spec => []DefiniteInv
<1>1. ASSUME DefiniteInv, LinesInv', [Next]_<<vars, setup>>
      PROVE  DefiniteInv'
    <2>1. Base /\ Base' /\ ConnOK /\ SentOK /\ ErrorsOK /\ LinesInv
        BY <1>1 DEF DefiniteInv, LinesInv, AccountsInv, TypeInv, Base
    <2>2. ErrorsOK' /\ AppliedOK' /\ TargetOK' /\ PumpKnownOK'
        BY <1>1, <2>1, ErrorsStep, AppliedStep, TargetStep, PumpKnownStep DEF DefiniteInv
    <2>3. ASSUME NoneTwice'
          PROVE  DefiniteOK'
        <3>1. NoneTwice
            <4>1. ASSUME NEW b \in Batches
                  PROVE  applied[b] <= 1
                <5>1. applied'[b] >= applied[b] /\ applied'[b] <= 1
                    BY <1>1, <2>1, <2>3, StreamGrows DEF NoneTwice
                <5>2. applied[b] \in Nat /\ applied'[b] \in Nat
                    BY <2>1 DEF Base, TypeOK, TransportTypeOK
                <5> QED BY <5>1, <5>2
            <4> QED BY <4>1 DEF NoneTwice
        <3>2. Basis /\ AppliedOK /\ TargetOK /\ PumpKnownOK /\ DefiniteOK
            BY <1>1, <2>1, <3>1 DEF Basis, DefiniteInv, LinesInv, ExactOK
        <3>3. ASSUME NEW b \in Batches, b \in Queued', ~ entry'[b].priorUncertainty
              PROVE  /\ \A s \in Sessions : OnWay(s, b)' => Owns(s)' \/ Harmless(s)'
                     /\ applied'[b] >= 1 => \E s \in Sessions : Answers(s, b)'
            BY <1>1, <2>1, <3>2, <3>3, WayStep, AnswersStep
        <3>4. Queued' \subseteq Batches
            <4>1. inflightQueue' \in Seq(Batches)
                BY <2>1 DEF Base, TypeOK
            <4> QED BY <4>1 DEF Queued
        <3> QED BY <3>3, <3>4 DEF DefiniteOK
    <2> QED BY <1>1, <2>2, <2>3 DEF DefiniteInv
<1> QED BY <1>1, DefiniteInvInit, LinesInvariant, PTL DEF Spec

(***************************************************************************)
(* A definite failure is definite: when a ticket fails with "no side       *)
(* effects" and nothing was applied twice, the batch was not applied on    *)
(* any connection, unless its acknowledgement had arrived and nobody had   *)
(* read it (withPriorUncertainty, markInflightUncertainty).                *)
(***************************************************************************)
THEOREM FailuresAreDefinite == Spec => DefiniteUnlessUnread
<1>1. ASSUME DefiniteInv, [Next]_<<vars, setup>>, NoneTwice, NEW b \in Batches, FailsDefinitely(b),
             applied[b] # 0
      PROVE  Unread(b)
    <2>1. Base /\ ErrorsOK /\ PumpKnownOK /\ PumpOK /\ DefiniteOK
        BY <1>1 DEF DefiniteInv, LinesInv, AccountsInv, TypeInv, Base
    <2>2. b \in Queued /\ ~ entry[b].priorUncertainty
        BY <1>1, <2>1, WhoFailsDefinitely DEF Base
    <2>u. ~ HasNoSideEffects("uncertain")
        BY DEF HasNoSideEffects
    <2>3. PICK s \in Sessions : Owns(s) /\ Harmless(s)
        <3>1. ASSUME NEW s \in Sessions, reader[s] = "resolve", HasNoSideEffects(readerErr[s])
              PROVE  Owns(s) /\ Harmless(s)
            <4>1. PICK err : err = readerErr[s]
                OBVIOUS
            <4>2. err = "uncertain" \/ ErrKnown(s, err)
                BY <2>1, <3>1, <4>1 DEF ErrorsOK, HandlerOK, NoError, HasNoSideEffects
            <4> QED BY <2>u, <3>1, <4>1, <4>2 DEF Owns, Harmless, ErrKnown
        <3>2. ASSUME pump = "resolve", HasNoSideEffects(pumpErr), NEW s, s = pumpSession
              PROVE  s \in Sessions /\ Owns(s) /\ Harmless(s)
            <4>1. PICK err : err = pumpErr
                OBVIOUS
            <4>2. err = "uncertain" \/ ErrKnown(s, err)
                BY <2>1, <3>2, <4>1 DEF PumpKnownOK
            <4>3. s \in Sessions
                BY <2>1, <3>2 DEF PumpOK
            <4> QED BY <2>u, <3>2, <4>1, <4>2, <4>3 DEF Owns, Harmless, ErrKnown
        <3> QED BY <1>1, <2>1, <3>1, <3>2, WhoFailsDefinitely DEF Base
    <2>4. PICK q \in Sessions : Answers(q, b)
        <3>1. applied[b] >= 1
            BY <1>1, <2>1 DEF Base, TypeOK, TransportTypeOK
        <3> QED BY <2>1, <2>2, <3>1 DEF DefiniteOK
    <2>5. AckOn(q, b)
        <3>1. ASSUME Owns(q), Lost(q)
              PROVE  FALSE
            <4>1. q = s
                BY <2>1, <2>3, <3>1, OwnersAreOne
            <4> QED BY <2>3, <3>1, <4>1 DEF Harmless, Lost
        <3> QED BY <2>4, <3>1 DEF Answers
    <2>6. Harmless(q)
        <3>1. OnWay(q, b)
            BY <2>5 DEF OnWay
        <3>2. Owns(q) \/ Harmless(q)
            BY <2>1, <2>2, <3>1 DEF DefiniteOK
        <3> QED BY <2>1, <2>3, <3>2, OwnersAreOne
    <2>7. Way(q) = transport[q].acksCh
        <3>1. transport[q].acksCh \in Seq(Acks) /\ server[q].response = <<>>
            BY <2>1, <2>6, LineTypes DEF Base, Harmless, ErrKnown
        <3> QED BY <3>1 DEF Way
    <2> QED BY <2>5, <2>7 DEF AckOn, Unread
<1>2. ASSUME DefiniteInv, [Next]_<<vars, setup>>
      PROVE  [\A b \in Batches : FailsDefinitely(b) /\ NoneTwice => applied[b] = 0 \/ Unread(b)]_vars
    BY <1>1, <1>2
<1> QED BY <1>2, DefiniteInvariant, PTL DEF Spec, DefiniteUnlessUnread

=============================================================================
