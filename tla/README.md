# TLA+ models of the S2 Go SDK

This directory models the S2 Go SDK (`src/s2`), the framing it reads its
sessions through (`src/internal/framing`) and the Bento input built on top of
it (`src/s2-bentobox`). The modules are model-checked with TLC on small
instances, and eight `*_proofs` modules prove what matters most of them with
TLAPS for all parameters (see "Proofs"). `PROJECT.json` maps every definition to the lines it models and
lists runs, mutants, findings, hazards and theorems.

## The system

```
 application
   |  Submit / Flush / Close          |  Submit / Close      |  Next / Close / CaughtUp
   v                                  v                      v
 Producer --batchesCh-- Batcher    AppendSession          ReadSession
   |  permits: capacityTracker        |  capacityTracker     |  recordsCh, errorCh
   +------- submitOwned ------------->|  pump + readers      v
                                      v                   streamReader
                              transportAppendSession         |
                                      |  frames / acks       |  batches
                                      v                      v
                                    S2 service (external)
```

| Component | State it keeps | Operations | What is hard |
|---|---|---|---|
| `capacityTracker` (capacity.go) | bytes and batches in flight, closed | reserve, tryReserve, release, Close | broadcasts sent after the unlock, cancellation by `AfterFunc` |
| `AppendSession` (append_session.go) | in-flight queue, current connection, reference counts, retry state, close flags | Submit, pump, readers, timeouts, Close | two goroutines see one failure; late acknowledgements; retries that may duplicate; Close racing Submit |
| `transportAppendSession` (append.go) | one connection: writer, ack channel, error channel, terminal error | start, appendInput, readAcksLoop, halfClose, Close | write and read ends fail independently |
| `Batcher` (batcher.go) | buffer, timer, next MatchSeqNum, output channel | Add, Flush, timer, barrier, Close | blocking send with the mutex held; stale timers |
| `Producer` (producer.go) | permits, terminal error, contexts | Submit, Flush, Close, consumer, ack waiters | barriers, backpressure, shutdown from the consumer |
| `ReadSession`, `streamReader` (read_session.go, read.go) | next sequence number, counters, caught-up state, delivery channel | Next, Close, CaughtUp, reconnect | resume position against filtering and buffering; two channels; waiting for consumption |
| error classes (error.go, reconnect.go) | - | IsRetryable, HasNoSideEffects, draining | which failure may be retried, and what may be said afterwards |
| unary requests (retry.go, http.go and the clients of streams, basins, tokens, locations, metrics) | attempt number, uncertainty of earlier attempts | one retry loop around one request per attempt | an attempt given up may still be applied; what the final error may say; backoff overflow |
| `spreadTransport` (connpool.go) | transports per host, sessions and poisoned flag of each | RoundTrip, poison, release, CloseIdleConnections | two atomics read and written in opposite orders; who closes a poisoned connection |
| `FrameReader`, `S2SFrameParser` (framing.go) | buffer, offset, size hint, pending error | ReadFrame | offsets across compaction and growth; the end of the stream inside a frame |
| `pager` and the `Iter` methods (iterator.go) | page key, values | Next | filtered pages; a listing that changes between pages |
| Bento input (input.go, stream_input.go, multi_stream_input.go) | position in memory and in the user's cache, generation, unacked batches, nacks, workers | ReadBatch, ack, nack, Close, discovery, pruning | acks that come late and out of order, across sessions, resets, pruning and restarts |
| HTTP transports, configuration, Bento output, specsync | | | see "What is not modelled" |

What makes each part correct is stated as its properties (below).

## Modules

| Module | Models |
|---|---|
| `Capacity` | the account of `capacityTracker` as operators on a record, used by three modules |
| `CapacityTracker` | goroutines that use it, at the grain of the lock and the condition variable |
| `AppendErrors` | errors by what the code asks of them |
| `AppendTransport` | one connection, both ends (the server's end is external) |
| `AppendSession` | extends `AppendTransport` and `Capacity` with Submit, pump, readers, Close, timers |
| `OrderedAppends` | abstract: the queue an append session promises |
| `Batcher` | the batcher as a record and the steps of its methods |
| `Producer` | extends `Batcher` and `Capacity` with every goroutine around them |
| `ReadSession` | reader, application and caught-up state over an external server |
| `ErrorCodes` | the table of error codes and the judgements made from status, code and origin |
| `UnaryRequests` | one call of any unary operation: attempts, errors, backoff, and the server it talks to |
| `SpreadTransport` | the connection pool, at the grain of its lock and atomics |
| `FrameReader` | bytes to frames |
| `Listing` | a listing that other clients change, and what a page of it is turned into |
| `Pager` | extends `Listing` with the list iterators |
| `StreamDiscovery` | extends `Listing` with the scan and the set of workers of the Bento input |
| `BentoInput` | one stream of the Bento input, over sessions, resets, pruning and restarts |
| `Capacity_proofs`, `CapacityTracker_proofs`, `AppendSession_proofs`, `Producer_proofs`, `ReadSession_proofs`, `BentoInput_proofs` | the theorems about the module each is named after |
| `ProducerReports_proofs` | extends `Producer_proofs`: the order of the records, their positions, and what Submit, Flush and Close report |
| `Client_proofs` | the theorems about `SpreadTransport`, `UnaryRequests`, `StreamDiscovery`, `Pager`, `FrameReader`, and `MCClient`, where they stand side by side |
| `MC*` | instances for TLC; `MCClient` puts the parts that share no state side by side |

### CapacityTracker

`reserve` is: try once; take the lock again; decide (closed, cancelled, has
room); otherwise sleep. `release` and `Close` change the account under the lock
and broadcast afterwards, so each is two actions with anything in between. A
cancelled context wakes sleepers from a goroutine of its own.

### AppendTransport and AppendSession

A batch is a number; its data is its size, its record count and its
`MatchSeqNum`. A connection has a request side (`requestWriter`, a frame being
written), a server side (frames received, end of response) and a response side
(`acksCh`, `errorsCh`, `terminalErr`). One frame at most is in flight in the
pipe, as `io.Pipe` has it.

The pump goes through `select`, `process`, `getSession`, `submit`, `mark`,
`append`, `write`, `timeouts`, with `claim` and `resolve` for a failure; each
value of `pump` is a point where another goroutine can run, that is, a place
where the code holds no lock or takes another one. A reader has its own
positions. Steps that the code performs under one lock, or whose intermediate
states no other goroutine can distinguish, are one action:

- `Reserve` is one step although `reserve` sleeps and wakes: the
  `CapacityTracker` theorems and `WaitsEnd` are what justifies it;
- `CompleteHead` includes everything `handleAck` does after its checks. The
  code releases capacity, closes stale connections and wakes the pump after
  it unlocks `inflightMu`; these only enable other goroutines;
- `ReceiveAck` takes an acknowledgement off the response and puts it into `acksCh`
  in one step, and waits for room before it begins; in the code the wait is
  between the two (append.go:403). Nobody but this goroutine touches what it
  holds meanwhile;
- `Reporting` drops an error once the connection is closed, where the `select` of
  append.go:207 may still find room for it: the session closes only connections it
  has given up, whose readers end either way;
- `ResolveFailure` decides and acts in one step: a claim excludes every other
  resolver (`SingleResolver`) and stops the pump from reconnecting.

Time is two facts: the retry deadline is `pending` or `due`, the head's
attempt is `running` or `expired`. The clock of `shouldReconnectOnAdvice` is a
free choice once a reconnect has been recorded.

The server applies the frames of a connection in order, acknowledges each
once, may end the response in any way at any time, and is assumed to keep its
word when it sends an error that promises no side effects. A broken connection
loses what is on its way to the client, while frames on their way to the
server may be applied later.

`OrderedAppends` is what the session promises: a queue whose head is
acknowledged at a new position, or which fails as a whole and for good.
`ImplementsOrderedAppends` checks every step of the session against it, with
the mapping `queue <- inflightQueue`, `outcome <- result`,
`last <- lastAckedEnd`, `ended <- closing`.

### Batcher and Producer

Every method of the batcher runs under `mu` and keeps it while it waits for room
in the channel. The batcher is therefore a record whose field `mu` says which
method holds it and for whom, and `out` is what that method is trying to send.
A flush with nothing to send is one step with the rest of its method.
`recordTerminalError` is one step, except for the goroutine it starts to close
the batcher. The append session below is its promise: each batch is given a
ticket or refused; batches are applied in the order of their tickets
(`SessionAppends`) and then acknowledged in that order (`SessionAcks`), or the
session fails with an arbitrary prefix of the open batches applied
(`SessionFails`). That is `ImplementsOrderedAppends` with
`ExactUnlessDuplicated` of `AppendSession`. It does not promise that a batch is
applied only once: `SessionRepeats` applies any batch again that was applied
before, as the default `AppendRetryPolicyAll` does after a timeout
(append.go:21) and a draining server makes the session do, unless the batch has a
condition that no longer holds. From then on an acknowledgement may come before its batch is
applied and name any position (`finding_durable`). So what the producer may promise
depends on `MatchSeqNum`: with it, no record is in the stream twice
(`StreamInOrder`) and positions are exact throughout (`PositionsExact`); without
it, order and sequence numbers hold as long as nothing was repeated
(`NoneTwice`).

`CloseIsHonest` says what a Close that has returned stands for: every accepted
record is resolved, nil means all of them are acknowledged, and an error that a
context may have ended or a record was not acknowledged. Capacity is given back
except that of Submit calls which were granted it while Close was under way: they
have still to find the producer closed, refuse their record and return it.

`AppendSession` and `Producer` have a variable `setup` that never changes: the
options of the session or producer and which faults its environment may bring.
The CONSTANT `Setups` is the set it is chosen from, so one run covers several
configurations.

### ReadSession

A record is its sequence number; `VisibleBetween` is the reference for what the
application is to see of a range of them. The reader goes through `attempt`, `reading`,
`sending`, `consuming`, `failed`, `backoff`, and at the end `reporting`,
`closing`, `done`. The server sends the records from the position of the
request in batches, with or without the tail, with or without the advice to
reconnect, and ends the response in any way. `finishDelivery` is one step with
the `Next` that calls it: position, caught-up state and consumed channel are
read by the reader and by `IsCaughtUp` under their own locks, and the order of
the three assignments cannot be seen by a reader that waits for the last of
them. The two channels are closed in one step, which Next cannot tell from two.
Of the limits, `Count` is modelled; bytes, `until` and `wait` are not. The server
takes a limit of zero for none, so a session with nothing left must not ask again.

### UnaryRequests and ErrorCodes

An operation is what its request does at the server (read, create, ensure,
delete, update, append), the loop it runs in, whether it carries a request
token, and whether its arguments are validated; there is one definition for
each method of the clients. An attempt is `Attempt`, then one of `Reply`,
`ReplyUnreadable` (headers without a body) and `RequestFails`, then the backoff.
A request is in `wire` from the moment it is sent, whatever the client does
afterwards: the server may process it after its attempt was given up, or after
the call returned. The server performs it (`Process`), refuses it with a code
that promises no effect (`Refuse`), or answers with something that promises
nothing (`Muddle`), among it the code of one error under the status of another.
Durations have `Width` bits, so that the shift of the backoff overflows.

### SpreadTransport

A request is `checkedOut`, `streaming`, `ended`, `releasing`; `release` is three
steps (decrement, load of the flag, closing) and `poison` is three (removal
under the lock, flag, closing), because nothing but the atomics orders them.
The transport of an entry is one connection that `CloseIdleConnections` closes
if no stream is open on it. `net/http` is assumed to have ended the stream when
`Body.Close` returns; `PoisonedIsClosed` rests on that, since `release` comes next
(connpool.go:155). `Checkout` looks at all entries at once, where the code loads
their counts one after another while other requests release theirs: it may pass
over an entry that has just got room, which costs a connection and breaks no limit.

### FrameReader

A byte is the pair of the frame it belongs to and its place in it, so that a
frame put together from the wrong bytes shows. A read brings any number of the
bytes that are left, with or without the end. The frames sent include the
largest, a terminal one, and each kind `ParseFrame` refuses.

### Listing, Pager, StreamDiscovery

A listing is a function from names to absent, live or deleting, which changes
between any two pages. `changed` remembers the names that changed since the scan
began: what is promised is about the others. A page is the ascending sequence of
the names it shows (`InOrder`), cut at `Limit`.

### BentoInput

The source loop of a stream opens one read session after another, each with a
`toAckMap` and a nack queue of its own. Batches in Bento's hands may be acked
or nacked at any time, also when their session is long closed. `Get` of the
cache is two steps (`CacheMiss`, `Connect`), because it holds no lock. A `Set`
of the durable cache may fail; a restart keeps only the durable cache and the
stream; a stream may be deleted and created again under its name, which is what
makes a position lie beyond the tail (416). `connectStreamInput` cannot fail:
`ReadSession` returns no error. `NoLoss` is about streams that are not created
anew, and about a start at the earliest record; a record that was nacked when the
nack queue was full is given up until a later session reads it again (`givenUp`).
A session that is open when the stream is created anew reads nothing more; the next one
meets the 416. Inside one `ReadSession` a reconnect could go on in the new stream or
meet the 416 at a later position, which neither property speaks of.

## Runs

Each run asks one question; every property has a mutant of the code that
breaks it under the same configuration.

| Run | Instance | Shows |
|---|---|---|
| `capacity` | 4 callers with sizes 1 to 4 | the account is exact (`ItemsAreHeld`, `BytesAreHeld`), limits hold (`WithinLimits`), no wake-up is lost (`NoLostWakeup`), Close and cancellation end every wait (`WaitsEnd`) |
| `append_session` | 2 pipelined batches, 1 fault of any kind; three set-ups: unconditional with 2 connections, `MatchSeqNum` with 3, `noSideEffects` with concurrent Submit calls and cancellation | capacity and reference counts (`AccountsExact`), one owner per failure (`SingleResolver`), exact acknowledgements without duplicates (`ExactUnlessDuplicated`), `CleanAfterClose`, no batch applied twice under the last two set-ups, of which neither has a draining server (`NoDuplicates`), a failure reported as free of side effects is, unless the batch was applied twice or its acknowledgement is unread (`DefiniteUnlessUnread`), refinement of `OrderedAppends` |
| `append_live` | room for one batch, batches of different record counts | every ticket resolves and every Close returns (`SessionSettles`); `AckedIsDurable` thanks to the count check |
| `producer` | 2 submitted records and a direct one, Flush, Close, channel of one place; three set-ups: a session that fails and sends again with `MatchSeqNum`, one that sends again without a condition (batches of one record), and cancelled parent contexts with the batcher used directly | `PermitsConserved`, `PositionsExact` (conditions and sequence numbers), `FlushIsDurable`, `ChannelClosedLast`, `ReportsAreHonest` (Flush and Close), `StreamInOrder` (order, and none twice with `MatchSeqNum`) |
| `producer_live` | capacity for one record, linger timers, failing session | `LingerArmed`; every record is refused or resolved, every Flush and Close returns (`ProducerSettles`) |
| `read_session` | 3 records, one filtered, limit 2, 2 faults | `ReturnedExactly`, `CaughtUpIsTrue`, `EndIsComplete` (the limit is kept, and an end is reported only when it is complete) |
| `read_live` | 2 records, one filtered, 1 fault, Close | records are returned, caught-up futures settle, the reader stops (`ReaderSettles`) |
| `client`, pool | 3 requests, 2 sessions per connection, 3 connections | `SessionsExact`, `PoisonedIsClosed` |
| `client`, unary | every operation, both policies, 4 attempts, 7-bit durations, 1 write of another client | `FailuresAreTrue` (an append said to have had no effect had none; a Create does not take its own object for another's), `AppendedOnce`, `BackoffBounded` |
| `client`, frame | up to 3 frames of up to 8 bytes, buffer of 4, reads of 3 | `FrameReaderExact`: frames, end and buffer |
| `client`, pager and discovery | 4 names, pages of 2, 2 changes | `ListedExactly`, `DiscoveryExact` |
| `bento` | 2 records, 3 sessions, queue of 1, 2 faults, 2 nacks | `NoLoss`, `ResetStands`, `InputCloses` |
| `finding_durable`, `finding_draining`, `finding_resume` | see Findings | a violation each |

The `client` run holds parts that share no state: `scene` picks one for each
behaviour and the others stay as they are, so the states are those of each part
alone. `NoDuplicates` and `ExactUnlessDuplicated` go together: where the first
holds, tickets resolve with the acknowledgement of their own batch, and the
acknowledged batches lie in the stream in the order of the queue. Its second part
(`InQueueOrder`) relates the acknowledgements on all connections to the queue and to
`lastAckedEnd`; since the queue is resolved from its head
(`ImplementsOrderedAppends`), that is the order of everything acknowledged.

### Bounds

Two batches are enough for pipelining (one at the head, one behind it), for an
acknowledgement taken by the wrong batch, and for reordering; two connections
for every race between an old and a new one, and three where a batch has to be
uncertain, retried and refused. One fault already brings both ends of a
connection, the timer and the pump into conflict; because timeouts of an
abandoned connection and the ends caused by Close are not counted, a behaviour
can hold several failures. When the connections are used up the pump waits in
`getSession`: for liveness, `append_live` has as many connections as its fault
can use. The conditional set-up of `append_session` meets only the errors that
lead to a retry and then to a refusal, and has a third connection for it; it
does not call Close (`mayClose`), which the other two set-ups do. `MaxTail`, `BatchSize` and `BatchesBuffer` of the read session are the
least for which a batch waits in the channel while another is being returned
and a third arrives. The channel of the batcher has one place so that it is
full often. `MaxStream` bounds the stream up to which the session repeats batches: three
records are one more than the two submitted, so that a repetition can come
before, between and after the first applications. Three requests on a pool with two places per connection make a
second connection necessary, and two of them meet on a poisoned one. The first
pair of base delays passes its maximum by a shift that wraps to a negative
number, the second has its minimum above its maximum; four attempts reach both.
Frames of eight bytes at most make a buffer of four compact and grow within three
frames. Four names in pages of two give a scan a page that is all filtered out
and one after it. The Bento input needs two records for a gap, a second session
for late acks and redeliveries, and a third for what those leave behind; two
faults are a session's end and a crash, a recreated stream and a failed cache,
or a prune. `CHECK_DEADLOCK FALSE` is set because all of these systems may
stop: the application need not call anything again.

Symmetry is used for the records of a producer and the requests of the pool, in
runs without liveness.

### Fairness

Goroutines that can run eventually run, timers fire, and a live connection
makes progress: an HTTP/2 ping or write timeout turns a silent one into a
failed one (`client.go`). Nothing obliges the application to call Submit, Flush
or Close, or the network to fail. A Go `select` picks among its ready cases at
random, so a case that is ready infinitely often is taken some day: this is the
strong fairness of `PumpCancelled` in `AppendSession` and of `Cancelled` in
`ReadSession`. The application of a read session keeps calling `Next`, and a
server with something to send sends it some day. In `Producer` no goroutine
loops without waiting for another one, so weak fairness of their disjunction
is enough. In `BentoInput` the source loop and the manager run on, and a
cancelled loop gets to see it; nothing is assumed of Bento, which may never read
another batch, or of the stream.

## Findings

- `finding_durable`: after a timeout a batch is sent again on a new connection
  and both connections acknowledge it. The first acknowledgement completes it.
  The second comes from a connection on which the next batch was sent too, has
  a new end position and, if the record counts agree, is taken for the next
  batch: that ticket resolves although the batch was not applied.
- `finding_draining`: a draining server acknowledges a batch and ends the
  response. The pump, writing the next batch, meets the recorded error before the
  reader has handled the acknowledgement, and `server_draining` is retried without
  a look at the policy: the batch is sent again and applied twice although the
  policy is `noSideEffects`. The reader would have handled the acknowledgement
  first; the write path does not.
- `finding_resume`: a session that starts at the tail, is told the tail by an
  empty batch and reconnects before its first record asks for the tail again
  and skips what was appended in between, while `NextReadPosition` moves past
  it.

Behaviours met while modelling that have no run of their own:

- under `noSideEffects`, with conditional and unconditional batches in one session,
  the same early error is retried while an acknowledgement is unread:
  `hasNonIdempotentSentPipelinedEntries` passes over conditional batches and over
  the head (append_session.go:1034);
- two Submit calls made without waiting for the first ticket may be enqueued in
  either order (append_session.go:126);
- a reader may schedule a backoff between the pump's check of `retryAt` and its
  call of `getSession`, which then does not wait (append_session.go:362);
- a batch whose acknowledgement has arrived unread when a write fails can be
  reported as failed without side effects, although `HasNoSideEffects` promises
  that "no append took effect across every attempt" (error.go:159; the exception in
  `DefiniteUnlessUnread`). With two failures, one of them `server_draining`, this
  goes further, which is the antecedent of that property: batches whose
  acknowledgements are unread are sent again and the first is acknowledged at its
  second position; the acknowledgements of the first connection are then passed
  over as old, and a batch that was applied there fails without side effects when
  the second connection refuses it;
- a server that keeps answering `server_draining` is reconnected to without delay
  and without using up attempts (append_session.go:767, read.go:286);
- an `Ensure` that is retried after a lost answer says the object was there
  already, and a retried `Delete`, `Issue` or `Revoke` may say "not found" or
  "already exists" of its own earlier attempt: only `Create` has a request token;
- the overflow check of the backoff (retry.go:153) misses a shift that wraps
  to a value between the two base delays, which takes unusual base delays and
  some sixty attempts;
- a nacked Bento batch waits until `session.Next` returns (stream_input.go:205),
  and one whose queue was full is delivered again only by a later session;
- the ack of a batch is remembered with its result, so a failed cache write is
  not repeated by a second ack, although `MarkDone` leaves its tracking "so the
  user can retry" (stream_input.go:86): the next contiguous ack repeats it;
- `Set` compares generations and not positions (input.go:129): when a session ends
  while batches of it are unacked, their late acks move the cached position past
  records that the next session delivers again, and the ack of the first of these
  stores a smaller position, although `Set` is said to advance it (input.go:116);
  nothing is lost (`NoLoss`), but acked records may be delivered once more;
- an ack after `Forget` puts the position back into memory, there only if the
  durable write fails; acks of an older incarnation of a stream count for the new
  one until a 416 resets the position;
- with `InputStartSeqNumLatest` and no cached position, records appended while
  the input reconnects are skipped.

## Proofs

Each theorem below is `Spec => []P` for the property `P` of the same run unless
something else is said, and holds for every value of the constants that satisfies
the named assumptions: `CapacityAssumption` and `CallersAssumption` (limits,
finitely many callers), `TransportAssumption`, `SessionAssumption` and
`SessionsAssumption` (finitely many batches and connections, sizes, set-ups),
`BatcherAssumption` (finitely many records, positive sizes, a buffered channel),
`ProducerCapacityAssumption` (the pool of a producer counts bytes only),
`UnaryAssumption` (base delays are pairs of integers, a width of at least one
bit), `ReadAssumption` (buffers and attempts are positive), `PoolAssumption`,
`ListingAssumption` (finitely many names, a page holds at least one),
`FrameAssumption` (frames and reads of at least one byte) and `BentoAssumption`. All of them are evaluated by TLC in the runs. Where a property
is not inductive, the strengthening was checked with TLC before it was proved.

**Capacity.** `SumUnion`, `SumAdd`, `SumRemove`, `SumType` say what
`SumFunctionOnSet` of the community modules computes, over any finite set. Its
definition folds over a set, and no induction theorem of the library can be
instantiated here; instead the total is shown to be the cardinality of a set of
slots, one for each unit of each element (`SumIsSlots`), by taking the least
counterexample among finite sets (`LeastSet`). Every account of bytes rests on
these four.

**CapacityTracker.** `TypeCorrect`, `ItemsConserved` (`ItemsAreHeld`),
`BytesConserved` (`BytesAreHeld`), `LimitsRespected` (`WithinLimits`),
`WakeupsNotLost` (`NoLostWakeup`). Each is inductive with `TypeOK`:
`HoldersStep` says how an action changes the set of holders, which cardinality
and sum turn into the two counters; only a reservation raises the account, and
it checked both limits under the same lock; a step that makes a sleeper
servable leaves a broadcast pending.

**AppendSession.**
- `TypeCorrect` and `OneOwnerPerFailure` (`SingleResolver`) come from `TypeInv`:
  the types need that while the pump works on a session it has one, and while it
  sends there is an entry to send (`PumpOK`), and a
  failure's owner is unique because while a failure is claimed there is no current
  session, so nobody else can claim (`ClaimIsExclusive`).
- `AccountsAreExact` (`AccountsExact`) from `AccountsInv`: the queue holds exactly
  the enqueued batches without an outcome, each once (`QueueOK`), a batch is
  marked as sent only on the connection it counts for, and every step moves
  capacity, queue and reference counts together.
- `SessionImplementsPromise` is `Spec => ImplementsOrderedAppends`, the step
  simulation of `OrderedAppends`: `QueueSteps` reduces every action to a batch
  that enters the queue, the head that completes, the whole queue that fails, or
  no change, and `PromiseStep` matches each with its abstract action.
- `AcksAreExact` (`ExactUnlessDuplicated`) and `DistinctCountsAreDurable` from
  `LinesInv`, about the line of every connection: the frames its server has still
  to apply, then the acknowledgements nobody has handled. Whatever is
  acknowledged is in the stream, in its order (`AcksTrue`), and a resolved ticket is
  backed by an acknowledgement of as many records (`AckedTrue`); the rest holds
  until a batch is applied twice (`ExactOK`): no two acknowledgements are of one
  batch (`UniqueOK`), a line holds the queue in its order and without gaps
  (`OrderOK`), which needs that a working connection has received whatever was sent
  on it (`DeliveredOK`) and that the pump's snapshot is in order (`LoopOK`), and
  the acknowledgement of a queued batch is ahead of `lastAckedEnd` (`AheadOK`).
  So the oldest acknowledgement of a line that concerns the head is the head's
  (`OldestIsHead`). What precedes it in the queue is before it on its line and
  nowhere else, which gives the order across connections (`InOrder`). `LineCases` sorts every step of session, transport and server:
  it cuts lines short at most, sends a frame, takes an acknowledgement, or applies
  a frame. `DistinctCountsAreDurable` is `Spec => []AckedIsDurable` for batches of
  different record counts: `finding_durable` is what happens with equal ones.
- `RetriesHaveNoEffect` (`NoDuplicates`) from `EffectsInv`. A batch with a condition
  is applied once because the tail has passed its condition by then
  (`ConditionOK`), in every set-up. For the others the policy has to answer. A
  batch that was applied or is in a server's inbox is stale, and what is stale
  must not be sent: every stale batch was sent on the one connection that owns
  the batches in flight (`StaleOK`); its `pendingWrites` is at least their number,
  plus the write under way (`PendingOK`), so that `pendingWrites = 0`, or a queue
  whose batches behind the head have not been sent, rules stale batches out when a
  failure is retried; and an error that promises no side effects was given by the
  server of that connection, after every acknowledgement that the reader has
  handled (`ErrorsOK`), or met by the pump with a batch of its own that is not
  stale (`PumpErrOK`). The hypothesis asks for set-ups under `noSideEffects` to have
  batches that are all unconditional and no server that drains, or batches that
  are all conditional. Neither half can be dropped: `finding_draining` shows a
  duplicate without the first, and TLC finds one without the second when
  `MixedSetup` takes the place of `DrainedSetup` in `MCAppendSession_draining.cfg`.
  Both have one cause, the write path that meets the recorded error before the
  reader has emptied `acksCh`.
- `FailuresAreDefinite` (`DefiniteUnlessUnread`) from `DefiniteInv`: a queued batch
  that is not marked by `priorUncertainty` is on the way only on the connection
  that owns the batches in flight or on one that ended without side effects, and if
  it was applied, its acknowledgement is still to be read or the owner has lost it
  (`DefiniteOK`). It holds for every set-up, without a hypothesis. The property
  speaks of the time before anything was applied twice: TLC refuted the form
  without this antecedent once an instance had two failures (see Findings), and
  found no violation of the present one there (4.5 million states).
- `CloseIsClean` (`CleanAfterClose`) adds `CloseOK`: once Close
  waits for the readers the pump has exited, the queue is empty and every
  connection is settled; when it is done every reader is off or done.

**Producer and Batcher.** One invariant, `ProducerInv`, carries the first five
results (`Producer_proofs`).
- `ChannelIsClosedLast` (`ChannelClosedLast`): a batch is being sent only under
  `mu`, and the sender of a barrier has no batch left (`LockOK`); once `closed` is
  set the buffer stays empty, nobody but a close holds `mu`, and the channel is
  closed with `mu` free (`ClosedOK`); whoever is about to close it has set
  `closed` (`SealingOK`).
- `LingerHolds` (`LingerArmed`): the timer runs exactly while something is
  buffered, also while a method holds `mu`, and a stopped or replaced timer has
  another sequence number than the current one (`TimerOK`).
- `PermitsAreExact` (`PermitsConserved`) from `PermitsOK`: exactly the records
  between a grant and their resolution or refusal hold a permit, and the bytes in
  use are theirs. It needs that a record is resolved only after it entered the
  batcher, hence that every batch on its way, in the buffer, out, in the channel,
  at the consumer or at a ticket, names only records that entered (`BatchesFit`),
  and that the holder of `mu` is where its record is (`HolderOK`).
- `SeqNumsAreExact` (`SeqNumExact`) from `BatchesFit`, whose second half says that
  the index of a record in `meta` is its place among the records, and `TicketsOK`:
  as long as nothing is in the stream twice, an acknowledged ticket's records lie in it
  from its `start`.
- `ProducerTypeCorrect` (`TypeOK`) comes with them: the consumer takes only what
  was sent (`ConsumerOK`).
`InitKeeps` and one `...Keeps` lemma for each action show it inductive; the lemmas
of the first part say field by field what `Lock`, `FlushBegun`, `Buffered`, `Sent`,
`Dropped`, `Added` and the others return, and `SamePermits` collects the steps that
only move errors and contexts.

The other properties (`ProducerReports_proofs`) follow the records on their way
from Submit to the stream. `StepKinds` first sorts the steps by what they do to
the records: one enters the batcher; a barrier is ordered; the buffer becomes the
batch to send, or the batch is sent or dropped; the consumer and the session work;
or nothing moves. The invariants are then proved for each kind.
- `StreamKeepsOrder` (`StreamInOrder`) has two halves. The order comes from
  `FlowInv`: the buffer, the batch to send, every batch of the channel, the consumer's
  batch and the tickets each hold records in the order of `added`, and each of these
  places holds older records than the one before it on the way (`LineOK`, `TurnsOK`,
  `StreamOK`); the stream follows as long as nothing is in it twice. That nothing is,
  with `MatchSeqNum`, is not assumed of the session, which may repeat any batch: every
  batch has its condition (`AlikeOK`), and the condition of a batch that is in the
  stream has been passed by its end (`RepeatsOK`).
- `FlushDurable` (`FlushIsDurable`) and `ReportsHonest` (`ReportsAreHonest`) from
  `ReportInv`: a record and its result channel are never apart (`MetaOK`); the
  unresolved records are exactly those on their way (`OutcomesOK`), also after
  failures, which is why Close and Flush cannot overtake one; the barrier of a
  Flush is in one place and cuts the way in two, with what the Flush covers before
  it (`CutsOK`); and of what is before it, whatever failed is in the error the
  consumer keeps or will give to the barrier (`ErrorsOK`). A closed producer has
  nobody on the way (`CloseOK`); a record that Submit is handing over has entered the
  batcher or its Add holds `mu` (`AddingOK`), and a closed batcher is not locked, so
  that only records not handed over hold capacity. An error of Close has a cause:
  as long as no context of the application ends and no batch has failed, neither
  batcher nor producer has recorded an error (`EndsOK`).
- `PositionsAreExact` is `Spec /\ StartsAtTail => []PositionsExact`: without
  `MatchSeqNum` or with the position the stream has at the start, here 0. With
  another `MatchSeqNum` the first append fails its condition, as it should. The
  positions of the batches form a chain from the first ticket through the channel
  to `batcher.next` (`MatchesOK`, a witness for every place of the channel in
  `Chain`); it may break after the last ticket, but then the producer has recorded
  a terminal error and nothing more is submitted. With `MatchSeqNum`, while the
  session works, the applied tickets are a prefix and the stream ends where that
  prefix ends (`AppliedOK`).

**ReadSession.** `ReadInv` follows the records from the response to Next. `Taken`,
`Sent` and `Received` are how far those records reach that Next has taken, that
were put into the channel, and that the reader has received; each part of the way
continues the one after it (`SessionOK`, `ChannelOK`, `ReaderOK`, `ConnOK`), an
attempt asks for what follows `Received`, and what was read, is on its way and may
come is within the limit (`LimitOK`). A caught-up delivery is the last one while
it waits (`WaitOK`), so that nothing but empty deliveries can be under way in a
session that is caught up (`CaughtUpOK`); `ErrorOK` says where the reader's error
is. From it follow `ReadTypeCorrect` (`TypeOK`), `CaughtUpHolds`
(`CaughtUpIsTrue`) and `LimitHolds` for every session, and `ReturnsExactly`
(`ReturnedExactly`) and `EndsCompletely` (`EndIsComplete`) for sessions that start
at a sequence number, `~StartAtTail /\ Spec => []P`: for the others
`finding_resume` shows that the first is false, and the second needs the same.
`VisibleBetween` is a recursive function; that it exists, that adjacent ranges
concatenate (`VisibleConcat`) and what the first record of a range leaves
(`VisibleFirst`) are proved by `SetInduction`, induction stated for a set, which
is the form the provers can use.

**UnaryRequests.** `UnaryTypeCorrect`, `AppendsAtMostOnce` (`AppendedOnce`),
`FailuresTellTheTruth` (`FailuresAreTrue`) and `BackoffIsBounded`
(`BackoffBounded`) from `UnaryInv`: an attempt that goes on after an unclear answer
has remembered it (`CertainOK`), what may be applied again never was
(`OnceOK`), and the object of a `Create` is its own if its token is
(`CreateOK`). `DelayBounded` is the arithmetic of the shift that wraps.

**SpreadTransport.** `PoolTypeCorrect`, `SessionsConserved` (`SessionsExact`, the
count as the cardinality of the holders) and `NoConnectionLeaks`
(`PoisonedIsClosed`) from `PoolInv`, with the invariant that an entry out of the
pool is flagged or has a caller that will flag it (`RetiredIsFlagged`).
`RetirementIsFinal` is the action property `RetiredStaysOut`: a connection taken
out of the pool is never put back.

**BentoInput.** `BentoTypeCorrect` (`BentoTypeOK`) and `ResetIsKept`
(`ResetStands`) from `BentoInv`; `NothingIsLost` (`NoLoss`) from `LossInv`: what a
session has read is tracked (`ReadIsTracked`), what is tracked and not acked is
under way (`OpenIsUnderWay`), and a position has only acked records below it
(`PositionsOK`), because an ack moves it over the acked prefix of its session
(`PrefixIsAcked`).

**Listings.** `InOrderIs` shows that a finite set of numbers has one ascending
sequence, by `SetInduction`, and `PageIs` what a page and the key after it are:
everything shown between two keys, or to the end.
- `DiscoveryIsExact` (`DiscoveryExact`) from `DiscoveryInv`: while a scan is under
  way `seen` holds the names that were live all along up to the cursor, and
  nothing that was gone all along (`ScanOK`); a complete scan holds all of them
  (`PruneOK`), and the workers do until the next one is complete (`UpdateOK`). A
  change by another client only takes names out of what is promised
  (`ChangeShrinks`), so it cannot break either.
- `ListsExactly` (`ListedExactly`) from `PagerInv`: what was returned and what is
  held ends before the key of the next page (`KeyOK`), each in order
  (`ValuesOK`), and a name that was live all along is returned, held, or still
  behind that key (`CoverOK`), also past pages of which nothing is left.

**FrameReader.** `FramesComeOutExactly` (`FrameReaderExact`) from `FrameInv`. What
is not consumed of the buffer is the wire from the end of the last returned frame
to the last byte that arrived, byte for byte (`UnreadOK`), through every
consumption, compaction and growth (`RoomIs`), and `need` is nothing or the size
of the frame it begins with (`NeedOK`): so a complete parse is the next frame, an
end met with bytes left is inside a frame (`EndingOK`), and the capacity stays
below the larger of the first one and twice the largest frame or read. The wire
is a concatenation, and `FlattenSeq` of the community modules a recursive
function: that it exists for every length (`FlatteningExists`) and grows by one
frame at a time (`FlatStep`) gives where each frame lies on the wire (`WireIs`).

**Client.** `ClientTypeCorrect` is `TypeOK` of `MCClient`: a step of the whole is a
step of each part or leaves it alone; iterator and discovery look at one listing,
whose changes are steps of the one that is running.

Only model-checked is what depends on fairness, `WaitsEnd`, `SessionSettles`,
`ProducerSettles`, `ReaderSettles` and `InputCloses`: TLAPS has no liveness rules
here.

## What is not modelled

- The contents of messages: JSON, protobuf, compression, encryption headers,
  metering. The models have sizes, codes and positions where they matter.
- The transports of `client.go` and `proxy.go`: configuration of `net/http`. The
  idle timeout of a pooled connection (it only closes what nobody uses).
- Byte, time and wait limits of a read session (same code as the count limit),
  the `StartAfter` an iterator may begin with (it only shortens the listing).
- `types.go`, `config.go`, `encryption.go`: data and validation without state.
- The Bento output: a closed flag before `AppendSession.Submit`. specsync,
  generated code, examples: no run-time behaviour of the SDK.
- An append input that cannot be marshalled (append.go:255): the pump would
  handle it as the other errors of `appendInput`.
- More than `MaxFaults` failures in a row.

## Plan

Every safety invariant and action property that a passing run checks is stated by
a theorem. What may follow:

1. A run of `append_session` with two failures beside the one with one; its states
   are too many for a routine check (4.5 million for one set-up), so it was made
   by hand.
2. The single writer of a stream: `AppendSession` has the stream to itself, as
   `UnaryRequests` has not; a second writer would make conditions fail and tails
   move between two acknowledgements.
