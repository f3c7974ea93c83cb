----------------------------- MODULE ReadSession -----------------------------
(***************************************************************************)
(* ReadSession and its streamReader (s2/read_session.go, s2/read.go): a    *)
(* streaming read that reconnects where it left off.                       *)
(*                                                                         *)
(* Goroutines: the reader (run and runOnce), the application that calls    *)
(* Next in a loop, and whoever calls Close or waits on a CaughtUpFuture.   *)
(* Reader and application share the bounded channel recordsCh, errorCh and *)
(* the caught-up state.                                                    *)
(*                                                                         *)
(* A record is its sequence number.  The server is external: it sends the  *)
(* records of the stream in order, with or without the tail, from the      *)
(* position the request named; an empty batch that carries a tail says     *)
(* that there is nothing to read before that tail.                         *)
(***************************************************************************)
EXTENDS Integers, Sequences

CONSTANTS MaxTail,              \* bound: the records ever in the stream
          Commands,             \* which of them are command records
          IgnoreCommandRecords, \* ReadOptions
          StartAtTail,          \* TailOffset 0; otherwise SeqNum 0
          Count,                \* ReadOptions.Count, or NoLimit
          NoLimit,
          BatchSize,            \* bound: records in a batch
          BatchesBuffer,        \* readSessionBatchesBuffer
          MaxAttempts,          \* RetryConfig.MaxAttempts
          ServerErrors,         \* which ends the server may choose
          MaxFaults,            \* bound: errors, broken connections and advice
          MayClose,             \* the application may call Close or cancel its context
          Futures               \* the calls of CaughtUp

ASSUME ReadAssumption ==
    /\ {MaxTail, MaxFaults} \subseteq Nat
    /\ {BatchSize, BatchesBuffer, MaxAttempts} \subseteq Nat \ {0}
    /\ Commands \subseteq 0 .. MaxTail - 1
    /\ {IgnoreCommandRecords, StartAtTail, MayClose} \subseteq BOOLEAN
    /\ NoLimit \notin Nat /\ Count \in Nat \cup {NoLimit}
    /\ ServerErrors \subseteq {"retryable", "fatal", "draining", "eof"}

NoPos == -1
Pos == Nat \cup {NoPos}

NoErr == "nil"
ErrSessionClosed == "closed"

VARIABLES
    tail,        \* external: the tail of the stream
    conn,        \* external: the response being read
    faults,      \* bound: faults so far
    reader,      \* the streamReader, see ReaderType
    recordsCh, recordsClosed, errorCh,
    caughtUp,    \* caughtUpState
    ctxDone,     \* the reader's context
    session,     \* the ReadSession
    returned,    \* history: what Next returned
    origin       \* history: the position the first batch with one began at

vars == <<tail, conn, faults, reader, recordsCh, recordsClosed, errorCh, caughtUp, ctxDone,
          session, returned, origin>>

(* A batch: the records from .. upto - 1, perhaps the tail, perhaps advice *)
(* to reconnect.                                                           *)
Frames == [from : Nat, upto : Nat, tail : Pos, advised : BOOLEAN]
Deliveries == [records : Seq(Nat), caughtUpTail : Pos, next : Nat]
NoFrame == [from |-> 0, upto |-> 0, tail |-> NoPos, advised |-> FALSE]

(* The errors of runOnce: "advised" is errReconnectAdvised.                *)
Errors == {"retryable", "fatal", "draining", "advised"}

Conns == [pos : Nat, left : Nat \cup {NoLimit}, frames : Seq(Frames),
          end : {"open", "ok", "eof"} \cup Errors]
NoConn == [pos |-> 0, left |-> NoLimit, frames |-> <<>>, end |-> "ok"]

ReaderType ==
    [at : {"attempt", "reading", "sending", "consuming", "failed", "backoff",
           "reporting", "closing", "done"},
     frame : Frames,               \* the batch being delivered
     nextSeq : Pos,                \* nextSeq, NoPos unless hasNextSeq
     recordsRead : Nat,
     before : Nat,                 \* recordsBefore
     failures : Nat,               \* consecutiveFailures
     advised : BOOLEAN,            \* advisedReconnects has a recent entry
     declined : BOOLEAN,           \* declinedAdvice
     consumed : BOOLEAN,           \* the delivery's consumed channel is closed
     err : Errors \cup {NoErr},    \* what runOnce returned
     terminalErr : Errors \cup {NoErr}]

CaughtUpType ==
    [tail : Pos, terminalErr : Errors \cup {NoErr, ErrSessionClosed},
     future : [Futures -> [is : {"none", "pending", "tail", "err"}, tail : Pos]]]

SessionType ==
    [pending : Seq(Nat), caughtUpTail : Pos, next : Pos, position : Pos,
     readerDone : BOOLEAN, readerErr : Errors \cup {NoErr},
     err : Errors \cup {NoErr}, closed : BOOLEAN,
     inNext : BOOLEAN,             \* a call of Next is in its loop
     finished : BOOLEAN]           \* history: it met the end of a session not stopped

TypeOK ==
    /\ tail \in 0 .. MaxTail /\ faults \in 0 .. MaxFaults
    /\ conn \in Conns
    /\ reader \in ReaderType
    /\ recordsCh \in Seq(Deliveries) /\ Len(recordsCh) <= BatchesBuffer
    /\ {recordsClosed, ctxDone} \subseteq BOOLEAN
    /\ errorCh \in Seq(Errors) /\ Len(errorCh) <= 1
    /\ caughtUp \in CaughtUpType
    /\ session \in SessionType
    /\ returned \in Seq(Nat)
    /\ origin \in Pos

Init ==
    /\ tail \in 0 .. 1 /\ tail <= MaxTail
    /\ conn = NoConn /\ faults = 0
    /\ reader = [at |-> "attempt", frame |-> NoFrame, nextSeq |-> NoPos, recordsRead |-> 0,
                 before |-> 0, failures |-> 0, advised |-> FALSE, declined |-> FALSE,
                 consumed |-> FALSE, err |-> NoErr, terminalErr |-> NoErr]
    /\ recordsCh = <<>> /\ recordsClosed = FALSE /\ errorCh = <<>>
    /\ caughtUp = [tail |-> NoPos, terminalErr |-> NoErr,
                   future |-> [f \in Futures |-> [is |-> "none", tail |-> NoPos]]]
    /\ ctxDone = FALSE
    /\ session = [pending |-> <<>>, caughtUpTail |-> NoPos, next |-> NoPos, position |-> NoPos,
                  readerDone |-> FALSE, readerErr |-> NoErr, err |-> NoErr, closed |-> FALSE,
                  inNext |-> FALSE, finished |-> FALSE]
    /\ returned = <<>> /\ origin = NoPos

-----------------------------------------------------------------------------
(* caughtUpState                                                           *)

Settled(c, result) ==
    [f \in Futures |-> IF c.future[f].is = "pending" THEN result ELSE c.future[f]]

SetCaughtUp(c, t) ==
    IF c.terminalErr # NoErr THEN c
    ELSE [c EXCEPT !.tail = t, !.future = Settled(c, [is |-> "tail", tail |-> t])]

SetBehind(c) == IF c.terminalErr # NoErr THEN c ELSE [c EXCEPT !.tail = NoPos]

(* end: a clean end keeps an observed tail.                                *)
End(c, err) ==
    IF c.terminalErr # NoErr THEN c
    ELSE [c EXCEPT !.tail = IF err = NoErr THEN @ ELSE NoPos,
                   !.terminalErr = IF err = NoErr THEN ErrSessionClosed ELSE err,
                   !.future = Settled(c, [is |-> "err", tail |-> NoPos])]

(* CaughtUp *)
NewFuture(f) ==
    /\ caughtUp.future[f].is = "none"
    /\ caughtUp' = [caughtUp EXCEPT !.future[f] =
                       CASE caughtUp.tail # NoPos -> [is |-> "tail", tail |-> caughtUp.tail]
                         [] caughtUp.tail = NoPos /\ caughtUp.terminalErr # NoErr
                              -> [is |-> "err", tail |-> NoPos]
                         [] OTHER -> [is |-> "pending", tail |-> NoPos]]
    /\ UNCHANGED <<tail, conn, faults, reader, recordsCh, recordsClosed, errorCh, ctxDone,
                   session, returned, origin>>

-----------------------------------------------------------------------------
(* The reader: run.                                                        *)

LimitsReached == Count # NoLimit /\ reader.recordsRead >= Count

(* buildAttemptOptions: what is left of the limit; LimitsReached was       *)
(* checked first, so something is.                                         *)
Remaining == IF Count = NoLimit THEN NoLimit ELSE Count - reader.recordsRead

(* Mutant: a reconnect repeats the original request. *)
StartFromScratch == IF StartAtTail THEN tail ELSE 0

(* ReadOptions: the start the caller asked for, as the server resolves it. *)
OriginalStart == IF StartAtTail THEN tail ELSE 0

(* buildAttemptOptions: the next record once one was read, and the         *)
(* original start until then.                                              *)
StartPosition == IF reader.nextSeq # NoPos THEN reader.nextSeq ELSE OriginalStart

(* The request of runOnce, and the response it is answered with.  A limit  *)
(* of zero may mean no limit to the endpoint: it must not be sent.         *)
Request == [pos |-> StartPosition, left |-> IF Remaining = 0 THEN NoLimit ELSE Remaining,
            frames |-> <<>>, end |-> "open"]

Fail(err) == reader' = [reader EXCEPT !.at = "failed", !.err = err]

(* The head of the loop of run; the request may fail.                      *)
Attempt ==
    /\ reader.at = "attempt" /\ ~ ctxDone
    /\ \/ /\ LimitsReached
          /\ reader' = [reader EXCEPT !.at = "reporting"]
          /\ UNCHANGED <<conn, faults>>
       \/ /\ ~ LimitsReached
          /\ reader' = [reader EXCEPT !.at = "reading", !.before = reader.recordsRead,
                                      !.declined = FALSE]
          /\ conn' = Request
          /\ UNCHANGED faults
       \/ /\ ~ LimitsReached /\ faults < MaxFaults
          /\ reader' = [reader EXCEPT !.at = "failed", !.err = "retryable",
                                      !.before = reader.recordsRead]
          /\ faults' = faults + 1
          /\ UNCHANGED conn
    /\ UNCHANGED <<tail, recordsCh, recordsClosed, errorCh, caughtUp, ctxDone, session, returned,
                   origin>>

Visible(s) == ~ (IgnoreCommandRecords /\ s \in Commands)

(* The records from a to b - 1 that the application is to see.             *)
VisibleBetween(a, b) ==
    LET before[n \in Nat] == IF n <= a THEN <<>>
                             ELSE IF Visible(n - 1) THEN Append(before[n - 1], n - 1)
                             ELSE before[n - 1]
    IN  before[b]

(* readBatchCaughtUp *)
BatchCaughtUp(frame) ==
    /\ frame.tail # NoPos
    /\ frame.from = frame.upto \/ frame.upto = frame.tail

(* advanceState, with every record of the batch, filtered or not           *)
AdvanceState(r, frame) ==
    IF frame.from = frame.upto THEN r
    ELSE [r EXCEPT !.recordsRead = @ + (frame.upto - frame.from), !.nextSeq = frame.upto]

(* The position after the batch: an empty batch with a tail has one too.   *)
HasNext(frame) == frame.from # frame.upto \/ frame.tail # NoPos
NextOf(frame) == IF frame.from # frame.upto THEN frame.upto ELSE frame.tail

(* runOnce, after a delivery: follow the server's advice unless that was   *)
(* done lately.  Whether "lately" has passed is up to the clock.           *)
AfterDelivery(r, frame) ==
    IF ~ frame.advised \/ r.declined THEN {[r EXCEPT !.at = "reading"]}
    ELSE {[r EXCEPT !.at = "failed", !.err = "advised"]}
         \cup (IF r.advised THEN {[r EXCEPT !.at = "reading", !.declined = TRUE]} ELSE {})

(* A gap, a batch without a tail, or records still to be returned.         *)
Behind(c, frame) ==
    IF ~ BatchCaughtUp(frame) \/ VisibleBetween(frame.from, frame.upto) # <<>>
    THEN SetBehind(c) ELSE c

(* runOnce: a batch is decoded and accounted for; then it is delivered.    *)
ReceiveBatch ==
    /\ reader.at = "reading" /\ conn.frames # <<>>
    /\ LET frame == Head(conn.frames)
           r == AdvanceState(reader, frame)
       IN  /\ conn' = [conn EXCEPT !.frames = Tail(@)]
           /\ caughtUp' = Behind(caughtUp, frame)
           /\ reader' \in IF HasNext(frame)
                          THEN {[r EXCEPT !.at = "sending", !.frame = frame]}
                          ELSE AfterDelivery(r, frame)
           /\ origin' = IF origin = NoPos /\ HasNext(frame) THEN frame.from ELSE origin
    /\ UNCHANGED <<tail, faults, recordsCh, recordsClosed, errorCh, ctxDone, session, returned>>

(* Mutant: the reader goes on while a caught-up batch is not consumed. *)
SendWithoutWaiting ==
    /\ reader.at = "sending" /\ Len(recordsCh) < BatchesBuffer
    /\ LET frame == reader.frame
       IN  /\ recordsCh' = Append(recordsCh,
                 [records |-> VisibleBetween(frame.from, frame.upto), next |-> NextOf(frame),
                  caughtUpTail |-> IF BatchCaughtUp(frame) THEN frame.tail ELSE NoPos])
           /\ reader' \in AfterDelivery([reader EXCEPT !.frame = NoFrame], frame)
    /\ UNCHANGED <<tail, conn, faults, recordsClosed, errorCh, caughtUp, ctxDone, session,
                   returned, origin>>

(* Mutant: the channel has no bound. *)
SendUnbounded ==
    /\ reader.at = "sending"
    /\ recordsCh' = Append(recordsCh,
          [records |-> VisibleBetween(reader.frame.from, reader.frame.upto),
           next |-> NextOf(reader.frame), caughtUpTail |-> NoPos])
    /\ reader' \in AfterDelivery([reader EXCEPT !.frame = NoFrame], reader.frame)
    /\ UNCHANGED <<tail, conn, faults, recordsClosed, errorCh, caughtUp, ctxDone, session,
                   returned, origin>>

(* sendDelivery: room in the channel; a caught-up batch is waited for.     *)
SendDelivery ==
    /\ reader.at = "sending" /\ Len(recordsCh) < BatchesBuffer
    /\ LET frame == reader.frame
       IN  /\ recordsCh' = Append(recordsCh,
                 [records |-> VisibleBetween(frame.from, frame.upto), next |-> NextOf(frame),
                  caughtUpTail |-> IF BatchCaughtUp(frame) THEN frame.tail ELSE NoPos])
           /\ reader' \in IF BatchCaughtUp(frame)
                          THEN {[reader EXCEPT !.at = "consuming", !.consumed = FALSE]}
                          ELSE AfterDelivery([reader EXCEPT !.frame = NoFrame], frame)
    /\ UNCHANGED <<tail, conn, faults, recordsClosed, errorCh, caughtUp, ctxDone, session,
                   returned, origin>>

Consumed ==
    /\ reader.at = "consuming" /\ reader.consumed
    /\ reader' \in AfterDelivery([reader EXCEPT !.frame = NoFrame], reader.frame)
    /\ UNCHANGED <<tail, conn, faults, recordsCh, recordsClosed, errorCh, caughtUp, ctxDone,
                   session, returned, origin>>

(* A response that ends without a terminal frame is taken for a normal end.*)
IsExpectedFrameReadError(end) == end = "eof"

(* runOnce returns because the response has ended.                         *)
ResponseEnds ==
    /\ reader.at = "reading" /\ conn.frames = <<>> /\ conn.end # "open"
    /\ IF conn.end = "ok" \/ IsExpectedFrameReadError(conn.end)
       THEN reader' = [reader EXCEPT !.at = "reporting"]
       ELSE Fail(conn.end)
    /\ UNCHANGED <<tail, conn, faults, recordsCh, recordsClosed, errorCh, caughtUp, ctxDone,
                   session, returned, origin>>

(* The tail watchdog: no batch for twenty seconds.                         *)
Watchdog ==
    /\ reader.at = "reading" /\ conn.frames = <<>> /\ conn.end = "open" /\ faults < MaxFaults
    /\ faults' = faults + 1
    /\ Fail("retryable")
    /\ UNCHANGED <<tail, conn, recordsCh, recordsClosed, errorCh, caughtUp, ctxDone, session,
                   returned, origin>>

(* Every wait of run and runOnce ends with the context, and run with it.   *)
Cancelled ==
    /\ ctxDone /\ reader.at \in {"attempt", "reading", "sending", "consuming", "failed", "backoff"}
    /\ reader' = [reader EXCEPT !.at = "reporting"]
    /\ UNCHANGED <<tail, conn, faults, recordsCh, recordsClosed, errorCh, caughtUp, ctxDone,
                   session, returned, origin>>

(* isRetryableReadError, given that the context is not done                *)
IsRetryable(err) == err = "retryable"

(* A batch read since the attempt began forgives earlier failures.         *)
Progressed == reader.recordsRead > reader.before

(* run, after runOnce returned an error: planned reconnects are free,      *)
(* other errors count and end the session if there are too many.           *)
HandleError ==
    /\ reader.at = "failed" /\ ~ ctxDone
    /\ \/ /\ reader.err \in {"advised", "draining"} /\ LimitsReached
          /\ reader' = [reader EXCEPT !.at = "reporting"]
          /\ UNCHANGED caughtUp
       \/ /\ reader.err \in {"advised", "draining"} /\ ~ LimitsReached
          /\ reader' = [reader EXCEPT !.at = "attempt", !.advised = TRUE,
                                      !.failures = IF Progressed THEN 0 ELSE @]
          /\ caughtUp' = SetBehind(caughtUp)
       \/ LET failures == IF Progressed THEN 0 ELSE reader.failures + 1
          IN  /\ reader.err \notin {"advised", "draining"}
              /\ \/ /\ ~ IsRetryable(reader.err) \/ failures >= MaxAttempts
                    /\ reader' = [reader EXCEPT !.at = "reporting", !.failures = failures,
                                                !.terminalErr = reader.err]
                    /\ caughtUp' = End(caughtUp, reader.err)
                 \/ /\ IsRetryable(reader.err) /\ failures < MaxAttempts
                    /\ reader' = [reader EXCEPT !.at = "backoff", !.failures = failures]
                    /\ caughtUp' = SetBehind(caughtUp)
    /\ UNCHANGED <<tail, conn, faults, recordsCh, recordsClosed, errorCh, ctxDone, session,
                   returned, origin>>

(* waitForRetryBackoff *)
Backoff ==
    /\ reader.at = "backoff"
    /\ reader' = [reader EXCEPT !.at = "attempt"]
    /\ UNCHANGED <<tail, conn, faults, recordsCh, recordsClosed, errorCh, caughtUp, ctxDone,
                   session, returned, origin>>

(* The deferred function of run: the error is sent ...                     *)
Report ==
    /\ reader.at = "reporting"
    /\ caughtUp' = End(caughtUp, reader.terminalErr)
    /\ errorCh' = IF reader.terminalErr = NoErr THEN errorCh ELSE Append(errorCh, reader.terminalErr)
    /\ reader' = [reader EXCEPT !.at = "closing"]
    /\ UNCHANGED <<tail, conn, faults, recordsCh, recordsClosed, ctxDone, session, returned, origin>>

(* Mutant: the records channel is closed before the error is sent. *)
CloseBeforeReport ==
    /\ reader.at \in {"reporting", "closing"} /\ ~ recordsClosed
    /\ recordsClosed' = TRUE
    /\ reader' = [reader EXCEPT !.at = IF @ = "closing" THEN "done" ELSE @]
    /\ UNCHANGED <<tail, conn, faults, recordsCh, errorCh, caughtUp, ctxDone, session, returned,
                   origin>>

(* ... before the channels are closed.                                     *)
CloseChannels ==
    /\ reader.at = "closing"
    /\ recordsClosed' = TRUE
    /\ reader' = [reader EXCEPT !.at = "done"]
    /\ UNCHANGED <<tail, conn, faults, recordsCh, errorCh, caughtUp, ctxDone, session, returned,
                   origin>>

-----------------------------------------------------------------------------
(* The application: Next and Close.                                        *)

(* finishDelivery, as far as it changes the session.  Its other effects    *)
(* are on the reader's side: see Next.                                     *)
Finished(s) ==
    [s EXCEPT !.position = IF s.next # NoPos THEN s.next ELSE @,
              !.next = NoPos, !.caughtUpTail = NoPos]

(* yieldPending: the next record of the current delivery.                  *)
Yield(s) == [s EXCEPT !.position = Head(s.pending) + 1, !.pending = Tail(@)]

(* Mutant: the consumed channel is never closed. *)
SettleKeepsWaiting(s) ==
    /\ session' = IF s.pending = <<>> THEN Finished(s) ELSE s
    /\ caughtUp' = IF s.pending = <<>> /\ s.caughtUpTail # NoPos
                   THEN SetCaughtUp(caughtUp, s.caughtUpTail) ELSE caughtUp
    /\ UNCHANGED reader

(* A session with a delivery whose last record was just returned, or which *)
(* had none: position, caught-up state and the consumed channel change.    *)
Settle(s) ==
    /\ session' = IF s.pending = <<>> THEN Finished(s) ELSE s
    /\ IF s.pending = <<>> /\ s.caughtUpTail # NoPos
       THEN /\ caughtUp' = SetCaughtUp(caughtUp, s.caughtUpTail)
            /\ reader' = [reader EXCEPT !.consumed = TRUE]
       ELSE UNCHANGED <<caughtUp, reader>>

(* Next: a record of the current delivery is returned at once; otherwise   *)
(* the call enters its loop, which does not look at closed again.          *)
NextCalled ==
    /\ ~ session.closed /\ session.err = NoErr /\ ~ session.inNext
    /\ IF session.pending # <<>>
       THEN /\ returned' = Append(returned, Head(session.pending))
            /\ Settle(Yield(session))
       ELSE /\ session' = [session EXCEPT !.inNext = TRUE]
            /\ UNCHANGED <<returned, caughtUp, reader>>
    /\ UNCHANGED <<tail, conn, faults, recordsCh, recordsClosed, errorCh, ctxDone, origin>>

(* A delivery is received: its first record is returned, if it has one.    *)
NextReceives ==
    /\ session.inNext /\ recordsCh # <<>>
    /\ recordsCh' = Tail(recordsCh)
    /\ LET d == Head(recordsCh)
           s == [session EXCEPT !.pending = d.records, !.caughtUpTail = d.caughtUpTail,
                                !.next = d.next]
       IN  IF d.records = <<>>
           THEN Settle(s) /\ UNCHANGED returned
           ELSE /\ Settle(Yield([s EXCEPT !.inNext = FALSE]))
                /\ returned' = Append(returned, Head(d.records))
    /\ UNCHANGED <<tail, conn, faults, recordsClosed, errorCh, ctxDone, origin>>

(* Next learns how the reader ended, also from the closed errorCh, and     *)
(* goes on with what is buffered.                                          *)
NextSeesError ==
    /\ session.inNext /\ ~ session.readerDone /\ (errorCh # <<>> \/ recordsClosed)
    /\ session' = [session EXCEPT !.readerDone = TRUE,
                                  !.readerErr = IF errorCh = <<>> THEN NoErr ELSE Head(errorCh)]
    /\ errorCh' = <<>>
    /\ UNCHANGED <<tail, conn, faults, reader, recordsCh, recordsClosed, caughtUp, ctxDone,
                   returned, origin>>

(* Close, which Next also calls: the futures end and the reader stops.     *)
ClosedSession(s) ==
    /\ session' = [s EXCEPT !.closed = TRUE]
    /\ caughtUp' = IF s.closed THEN caughtUp ELSE End(caughtUp, NoErr)
    /\ ctxDone' = TRUE

(* recordsCh is closed and drained: Next returns false.                    *)
NextEnds ==
    /\ session.inNext /\ recordsCh = <<>> /\ recordsClosed
    /\ LET err == IF ~ session.readerDone /\ errorCh # <<>> THEN Head(errorCh)
                  ELSE session.readerErr
       IN  ClosedSession([session EXCEPT !.readerErr = err, !.err = err, !.inNext = FALSE,
                                         !.finished = ~ ctxDone])
    /\ errorCh' = <<>>
    /\ UNCHANGED <<tail, conn, faults, reader, recordsCh, recordsClosed, returned, origin>>

Close ==
    /\ MayClose /\ ~ session.closed
    /\ ClosedSession(session)
    /\ UNCHANGED <<tail, conn, faults, reader, recordsCh, recordsClosed, errorCh, returned, origin>>

(* What the application may ask at any time: NextReadPosition, IsCaughtUp  *)
(* and whether the Wait of a CaughtUpFuture would return.                  *)
NextReadPosition == session.position
IsCaughtUp == caughtUp.tail # NoPos
Ready(f) == caughtUp.future[f].is \in {"tail", "err"}

(* External: the context the session was opened with is cancelled.         *)
CancelContext ==
    /\ MayClose /\ ~ ctxDone
    /\ ctxDone' = TRUE
    /\ UNCHANGED <<tail, conn, faults, reader, recordsCh, recordsClosed, errorCh, caughtUp, session,
                   returned, origin>>

-----------------------------------------------------------------------------
(* External: the stream and the server.                                    *)

(* What is appended once the session was stopped is not its concern.       *)
AppendRecord ==
    /\ tail < MaxTail /\ ~ ctxDone
    /\ tail' = tail + 1
    /\ UNCHANGED <<conn, faults, reader, recordsCh, recordsClosed, errorCh, caughtUp, ctxDone,
                   session, returned, origin>>

Reading == reader.at \in {"reading", "sending", "consuming"} /\ conn.end = "open"

(* A batch: records, or none at the tail, with or without the tail.        *)
SendBatch(n, withTail, advised) ==
    /\ Reading /\ conn.frames = <<>>
    /\ conn.pos + n <= tail /\ (conn.left # NoLimit => n <= conn.left /\ conn.left > 0)
    /\ n = 0 => conn.pos = tail
    /\ advised => faults < MaxFaults
    /\ faults' = IF advised THEN faults + 1 ELSE faults
    /\ conn' = [conn EXCEPT !.pos = @ + n, !.left = IF @ = NoLimit THEN @ ELSE @ - n,
                            !.frames = <<[from |-> conn.pos, upto |-> conn.pos + n,
                                          tail |-> IF withTail THEN tail ELSE NoPos,
                                          advised |-> advised]>>]
    /\ UNCHANGED <<tail, reader, recordsCh, recordsClosed, errorCh, caughtUp, ctxDone, session,
                   returned, origin>>

(* The server ends a response whose limit is reached.                      *)
ServerFinishes ==
    /\ Reading /\ conn.left = 0
    /\ conn' = [conn EXCEPT !.end = "ok"]
    /\ UNCHANGED <<tail, faults, reader, recordsCh, recordsClosed, errorCh, caughtUp, ctxDone,
                   session, returned, origin>>

(* It ends it with an error, or without a terminal frame ("eof").          *)
ServerEnds(err) ==
    /\ Reading /\ faults < MaxFaults
    /\ faults' = faults + 1
    /\ conn' = [conn EXCEPT !.end = err]
    /\ UNCHANGED <<tail, reader, recordsCh, recordsClosed, errorCh, caughtUp, ctxDone, session,
                   returned, origin>>

(* The connection breaks and what was on its way is lost.                  *)
Break ==
    /\ Reading /\ faults < MaxFaults
    /\ faults' = faults + 1
    /\ conn' = [conn EXCEPT !.end = "retryable", !.frames = <<>>]
    /\ UNCHANGED <<tail, reader, recordsCh, recordsClosed, errorCh, caughtUp, ctxDone, session,
                   returned, origin>>

-----------------------------------------------------------------------------
ReaderStep ==
    \/ Attempt \/ ReceiveBatch \/ SendDelivery \/ Consumed \/ ResponseEnds \/ Cancelled
    \/ HandleError \/ Backoff \/ Report \/ CloseChannels

NextStep == NextCalled \/ NextReceives \/ NextSeesError \/ NextEnds

ServerStep ==
    \/ \E n \in 1 .. BatchSize : SendBatch(n, TRUE, FALSE)
    \/ ServerFinishes

Next ==
    \/ ReaderStep \/ Watchdog \/ NextStep \/ Close \/ CancelContext
    \/ \E f \in Futures : NewFuture(f)
    \/ AppendRecord \/ ServerStep
    \/ \E n \in 0 .. BatchSize, withTail, advised \in BOOLEAN : SendBatch(n, withTail, advised)
    \/ \E err \in ServerErrors : ServerEnds(err)
    \/ Break

Spec == Init /\ [][Next]_vars

(* The reader runs and does not overlook its cancelled context forever,    *)
(* since a Go select picks among its ready cases at random; the            *)
(* application keeps calling Next; and a server that has records sends     *)
(* them some day, and reports the tail when there are none.                *)
FairSpec ==
    /\ Spec
    /\ WF_vars(ReaderStep) /\ SF_vars(Cancelled) /\ WF_vars(NextStep)
    /\ SF_vars(ServerStep) /\ SF_vars(caughtUp.tail = NoPos /\ SendBatch(0, TRUE, FALSE))

-----------------------------------------------------------------------------
(* Properties.                                                             *)

(* What Next has returned is exactly the records from where the session    *)
(* began up to NextReadPosition, in order, each once: across reconnects,   *)
(* filtered command records, buffered batches and Close, resuming from the *)
(* position neither repeats nor skips a record.                            *)
ReturnedExactly ==
    IF NextReadPosition = NoPos THEN returned = <<>>
    ELSE returned = VisibleBetween(origin, NextReadPosition)

(* IsCaughtUp is true only while every record before the reported tail has *)
(* been returned, and of a session that has not ended nothing after it:    *)
(* the reader waits for a caught-up batch to be consumed before it may     *)
(* report that the session fell behind again.  A CaughtUpFuture resolves   *)
(* to a tail only when every record before that tail has been returned.    *)
CaughtUpIsTrue ==
    /\ IsCaughtUp =>
          IF caughtUp.terminalErr = NoErr
          THEN NextReadPosition = caughtUp.tail /\ session.pending = <<>>
          ELSE NextReadPosition >= caughtUp.tail
    /\ \A f \in Futures :
          caughtUp.future[f].is = "tail" => caughtUp.future[f].tail <= NextReadPosition

(* When Next reports the end of a session that nobody stopped, Err is the  *)
(* error the reader ended with, every record fetched was returned, and all *)
(* attempts together fetched no more than the session asked for.           *)
EndIsComplete ==
    session.finished =>
        /\ session.err = reader.terminalErr
        /\ reader.nextSeq # NoPos => returned = VisibleBetween(origin, reader.nextSeq)
        /\ Count # NoLimit => reader.recordsRead <= Count

(* Every record of the stream is returned, unless the session ends: once   *)
(* appends stop, Next catches up with the tail for good.                   *)
RecordsReturned ==
    <>[](\/ origin = NoPos \/ session.closed \/ reader.at = "done"
         \/ returned = VisibleBetween(origin, tail))

(* Every future is settled: the session catches up or ends.                *)
FuturesSettle ==
    \A f \in Futures :
        caughtUp.future[f].is = "pending" ~> Ready(f)

(* After Close or cancellation the reader goroutine stops, wherever it is  *)
(* blocked.                                                                *)
ReaderStops == ctxDone ~> reader.at = "done"

(* Everything a reader waits for comes: the records, the caught-up state,  *)
(* and the end of its goroutine after Close.                               *)
ReaderSettles == RecordsReturned /\ FuturesSettle /\ ReaderStops

=============================================================================
