---------------------------- MODULE UnaryRequests ----------------------------
(***************************************************************************)
(* One call of a unary operation of the client: the retry loops withRetries*)
(* and withAppendRetries (s2/retry.go) around one HTTP request per attempt *)
(* (s2/http.go), for every operation of the stream, basin, access token,   *)
(* location and metrics clients and for Append, Read and CheckTail of a    *)
(* stream.                                                                 *)
(*                                                                         *)
(* The server and the network are external.  The request of an attempt may *)
(* be lost, or be processed long after its attempt was given up; the       *)
(* answer may be lost or arrive with a body that cannot be read.           *)
(***************************************************************************)
EXTENDS Integers, ErrorCodes

CONSTANTS
    MaxAttempts,    \* RetryConfig.MaxAttempts
    Width,          \* bits of a time.Duration
    Delays,         \* pairs <<MinBaseDelay, MaxBaseDelay>>
    MaxOthers       \* bound on the writes of other clients

ASSUME UnaryAssumption ==
    /\ MaxAttempts \in Nat \ {0} /\ Width \in Nat \ {0} /\ MaxOthers \in Nat
    /\ Delays \subseteq Int \X Int
    /\ \A d \in Delays : d[1] > 0 /\ d[2] > 0 /\ 2 * d[2] < 2^(Width - 1)

VARIABLES
    call,       \* the operation and the configuration it runs under
    pc,         \* where the call is
    attemptNo,
    priorUncertainty,
    delay,      \* the backoff waited for
    ctx,        \* is the caller's context still live
    wire,       \* attempts whose request has not been processed
    answer,     \* the server's answer to the current attempt
    result,     \* what the call returned
    resource,   \* the object the call is about: absent, mine or other's
    creator,    \* request token of the attempt that created it
    tail,       \* records in the stream
    applied,    \* how often the call's append was applied (ghost)
    others      \* writes of other clients so far

unaryVars == <<call, pc, attemptNo, priorUncertainty, delay, ctx, wire, answer, result,
               resource, creator, tail, applied, others>>

-----------------------------------------------------------------------------
(* The operations, by what their request does at the server, the loop that *)
(* retries it, whether a request token makes its repetition recognisable,  *)
(* and whether the arguments are validated before anything is sent.        *)

Op(effect, loop, token, validated) ==
    [effect |-> effect, loop |-> loop, token |-> token, validated |-> validated]

Retried(effect, validated) == Op(effect, "withRetries", FALSE, validated)

Create(token) == Op("create", "withRetries", token, TRUE)

StreamsList        == Retried("read", FALSE)
StreamsCreate      == Create(TRUE)
StreamsEnsure      == Retried("ensure", TRUE)
StreamsDelete      == Retried("delete", TRUE)
StreamsGetConfig   == Retried("read", TRUE)
StreamsReconfigure == Retried("update", TRUE)

BasinsList        == Retried("read", FALSE)
BasinsCreate      == Create(TRUE)
BasinsEnsure      == Retried("ensure", TRUE)
BasinsDelete      == Retried("delete", TRUE)
BasinsGetConfig   == Retried("read", TRUE)
BasinsReconfigure == Retried("update", TRUE)

(* Issue creates without a request token. *)
AccessTokensList   == Retried("read", FALSE)
AccessTokensIssue  == Create(FALSE)
AccessTokensRevoke == Retried("delete", TRUE)

LocationsList       == Retried("read", FALSE)
LocationsGetDefault == Retried("read", FALSE)
LocationsSetDefault == Retried("update", TRUE)

MetricsAccount == Retried("read", TRUE)
MetricsBasin   == Retried("read", TRUE)
MetricsStream  == Retried("read", TRUE)

(* StreamClient.Append: the input is validated and copied, then sent. *)
StreamClientAppend == Op("append", "withAppendRetries", FALSE, TRUE)
StreamClientRead   == Retried("read", FALSE)
CheckTail          == Retried("read", FALSE)

Operations ==
    {StreamsList, StreamsCreate, StreamsEnsure, StreamsDelete, StreamsGetConfig,
     StreamsReconfigure, BasinsList, BasinsCreate, BasinsEnsure, BasinsDelete,
     BasinsGetConfig, BasinsReconfigure, AccessTokensList, AccessTokensIssue,
     AccessTokensRevoke, LocationsList, LocationsGetDefault, LocationsSetDefault,
     MetricsAccount, MetricsBasin, MetricsStream, StreamClientAppend,
     StreamClientRead, CheckTail}

(* Client configuration and arguments, fixed for the call. *)
Calls ==
    [op: Operations, policy: {"all", "noSideEffects"}, matchSeqNum: BOOLEAN,
     delays: Delays, valid: BOOLEAN]

Sensible(c) ==
    /\ c.op.effect # "append" => c.policy = "all" /\ ~c.matchSeqNum
    /\ ~c.op.validated => c.valid

-----------------------------------------------------------------------------
(* What an attempt can end with besides an S2Error: client.Do failed (every *)
(* such error is a *url.Error, hence a net.Error), or a response that could *)
(* not be read, decompressed or decoded.                                    *)
NetworkError == S2Error(0, "", "net")
OpaqueError  == S2Error(0, "", "opaque")
ContextError == S2Error(0, "", "context")

IsS2Error(err) == err.origin \in {"server", "network", "sdk"}

(* A response of the server below 400; Ensure reads the provision result.  *)
Success(what) == S2Error(200, what, "server")
IsSuccess(response) == 200 <= response.status /\ response.status < 400

NoAnswer == S2Error(0, "", "none")

(* HasNoSideEffects of the package, for an error not yet wrapped. *)
NoSideEffects(err) == IsS2Error(err) /\ HasNoSideEffects(err)

(* withPriorUncertainty: TRUE if the error is wrapped as indefinite. *)
WithPriorUncertainty(err, prior) == prior /\ NoSideEffects(err)

(* What the call returns: a response, or an error, wrapped or not. *)
Outcome(response, indefinite) == [response |-> response, indefinite |-> indefinite]

(* time.Duration arithmetic: a left shift in Width bits, two's complement. *)
ShiftLeft(x, n) ==
    LET half == 2^(Width - 1)
        raw == (x * 2^n) % (2 * half)
    IN  IF raw >= half THEN raw - 2 * half ELSE raw

(* Mutant: overflow is not caught. *)
BaseDelayUnchecked(delays, attempt) ==
    LET base == ShiftLeft(delays[1], attempt - 1)
    IN  IF base > delays[2] THEN delays[2] ELSE base

(* calculateRetryBackoff, without the jitter. *)
BaseDelay(delays, attempt) ==
    LET base == ShiftLeft(delays[1], attempt - 1)
    IN  IF base > delays[2] \/ base < delays[1] THEN delays[2] ELSE base

Jitter(base) == {0, base \div 2, base - 1}

(* Mutant: a network error is retried under any policy. *)
RetryAnyNetworkError == TRUE

(* shouldRetryNetworkError *)
ShouldRetryNetworkError == call.policy # "noSideEffects"

(* shouldRetryError *)
ShouldRetryError(err) ==
    /\ IsS2Error(err)
    /\ IsRetryable(err)
    /\ call.policy = "noSideEffects" => HasNoSideEffects(err)

(* Mutant: one attempt too many. *)
RetriesOnceMore(err) ==
    /\ attemptNo <= MaxAttempts
    /\ err = NetworkError \/ (IsS2Error(err) /\ IsRetryable(err))

(* Does the loop go round again after err (withRetries). *)
RetriesAgain(err) ==
    /\ attemptNo < MaxAttempts
    /\ \/ err = NetworkError
       \/ IsS2Error(err) /\ IsRetryable(err)

(* ... and withAppendRetries. *)
AppendRetriesAgain(err) ==
    /\ attemptNo < MaxAttempts
    /\ IF err = NetworkError THEN ShouldRetryNetworkError ELSE ShouldRetryError(err)

(* Mutant: only an error of the server leaves the effect open. *)
StillUncertainIfAnswered(err) == priorUncertainty \/ (err.origin = "server" /\ ~NoSideEffects(err))

(* priorUncertainty after an attempt that failed with err and is retried. *)
StillUncertain(err) == priorUncertainty \/ ~NoSideEffects(err)

-----------------------------------------------------------------------------

UnaryInit ==
    /\ call \in {c \in Calls : Sensible(c)}
    /\ pc = "begin"
    /\ attemptNo = 1
    /\ priorUncertainty = FALSE
    /\ delay = 0
    /\ ctx = "live"
    /\ wire = {}
    /\ answer = NoAnswer
    /\ result = Outcome(NoAnswer, FALSE)
    /\ resource \in {"absent", "other"}
    /\ creator = 0
    /\ tail = 0
    /\ applied = 0
    /\ others = 0

serverVars == <<resource, creator, tail, applied, others>>

Return(res) == pc' = "returned" /\ result' = res

(* Invalid arguments are refused before the loop, most with an S2Error of   *)
(* the SDK, some with a plain error.                                        *)
Validate ==
    /\ pc = "begin"
    /\ IF call.valid THEN pc' = "attempt" /\ UNCHANGED result
       ELSE \E err \in {ValidationError, OpaqueError} : Return(Outcome(err, FALSE))
    /\ UNCHANGED <<call, attemptNo, priorUncertainty, delay, ctx, wire, answer, serverVars>>

(* The head of the loop, and the request of the attempt. *)
Attempt ==
    /\ pc = "attempt"
    /\ IF ctx = "live"
       THEN pc' = "sent" /\ wire' = wire \cup {attemptNo} /\ UNCHANGED result
       ELSE Return(Outcome(ContextError, FALSE)) /\ UNCHANGED wire
    /\ answer' = NoAnswer
    /\ UNCHANGED <<call, attemptNo, priorUncertainty, delay, ctx, serverVars>>

(***************************************************************************)
(* The attempt failed with err: give up, or wait for the backoff.          *)
(***************************************************************************)
AttemptFailed(err) ==
    LET appending == call.op.loop = "withAppendRetries"
        again == IF appending THEN AppendRetriesAgain(err) ELSE RetriesAgain(err)
        indefinite == appending /\ WithPriorUncertainty(err, priorUncertainty)
        base == BaseDelay(call.delays, attemptNo)
    IN  IF ctx # "live"
        THEN Return(Outcome(ContextError, FALSE)) /\ UNCHANGED <<priorUncertainty, delay>>
        ELSE IF ~again
        THEN Return(Outcome(err, indefinite)) /\ UNCHANGED <<priorUncertainty, delay>>
        ELSE /\ pc' = "backoff"
             /\ priorUncertainty' = StillUncertain(err)
             /\ \E jitter \in Jitter(base) : delay' = base + jitter
             /\ UNCHANGED result

unchangedByReply == <<call, attemptNo, ctx, wire, answer, serverVars>>

(* The answer arrives whole. *)
Reply ==
    /\ pc = "sent"
    /\ answer # NoAnswer
    /\ IF IsSuccess(answer)
       THEN Return(Outcome(answer, FALSE)) /\ UNCHANGED <<priorUncertainty, delay>>
       ELSE AttemptFailed(answer)
    /\ UNCHANGED unchangedByReply

(* The headers arrive, the body cannot be read or decoded. *)
ReplyUnreadable ==
    /\ pc = "sent"
    /\ answer # NoAnswer
    /\ \E err \in IF IsSuccess(answer) THEN {OpaqueError, NetworkError}
                  ELSE {BodyReadError(answer.status), OpaqueError} :
          AttemptFailed(err)
    /\ UNCHANGED unchangedByReply

(* No answer: dial failure, reset, timeout; the request may arrive later. *)
RequestFails ==
    /\ pc = "sent"
    /\ AttemptFailed(NetworkError)
    /\ UNCHANGED unchangedByReply

(* waitForRetryBackoff: the timer, or the context. *)
BackoffOver ==
    /\ pc = "backoff"
    /\ IF ctx = "live"
       THEN pc' = "attempt" /\ attemptNo' = attemptNo + 1 /\ UNCHANGED result
       ELSE Return(Outcome(ContextError, FALSE)) /\ UNCHANGED attemptNo
    /\ UNCHANGED <<call, priorUncertainty, delay, ctx, wire, answer, serverVars>>

Cancel ==
    /\ pc # "returned"
    /\ ctx = "live"
    /\ ctx' = "done"
    /\ UNCHANGED <<call, pc, attemptNo, priorUncertainty, delay, wire, answer, result, serverVars>>

-----------------------------------------------------------------------------
(* The server.  A request token, when the operation sends one, is the same *)
(* for all attempts of the call.                                           *)

RequestToken(attempt) == IF call.op.token THEN 1 ELSE 100 + attempt

Answers(a, what) == answer' = IF a = attemptNo /\ pc = "sent" THEN what ELSE answer

(* The normal answer to request a in the server's present state. *)
Owns(a) == resource = "mine" /\ creator = RequestToken(a)
Matches == call.matchSeqNum => tail = 0

AnswerTo(a) ==
    CASE call.op.effect = "ensure" -> Success(IF resource = "absent" THEN "created" ELSE "noop")
      [] call.op.effect = "create" /\ resource # "absent" /\ ~Owns(a) ->
           Coded("resource_already_exists")
      [] call.op.effect = "delete" /\ resource = "absent" -> Coded("stream_not_found")
      [] call.op.effect = "append" /\ ~Matches -> Coded("APPEND_CONDITION_FAILED")
      [] OTHER -> Success("ok")

(* What it does to that state. *)
Effect(a) ==
    \/ /\ call.op.effect \in {"create", "ensure"} /\ resource = "absent"
       /\ resource' = "mine" /\ creator' = RequestToken(a)
       /\ UNCHANGED <<tail, applied>>
    \/ /\ call.op.effect = "delete"
       /\ resource' = "absent"
       /\ UNCHANGED <<creator, tail, applied>>
    \/ /\ call.op.effect = "append" /\ Matches
       /\ tail' = tail + 1 /\ applied' = applied + 1
       /\ UNCHANGED <<resource, creator>>
    \/ /\ \/ call.op.effect \in {"read", "update"}
          \/ call.op.effect \in {"create", "ensure"} /\ resource # "absent"
          \/ call.op.effect = "append" /\ ~Matches
       /\ UNCHANGED <<resource, creator, tail, applied>>

Perform(a) == Effect(a) /\ Answers(a, AnswerTo(a))

Process(a) ==
    /\ a \in wire
    /\ wire' = wire \ {a}
    /\ Perform(a)
    /\ UNCHANGED <<call, pc, attemptNo, priorUncertainty, delay, ctx, result, others>>

(* Refused by a server that does nothing, with a code that says so ...      *)
Refusals == {Coded("rate_limited"), Coded("server_draining"), Coded("permission_denied")}

Refuse(a) ==
    /\ a \in wire
    /\ wire' = wire \ {a}
    /\ \E err \in Refusals : Answers(a, err)
    /\ UNCHANGED <<call, pc, attemptNo, priorUncertainty, delay, ctx, result, serverVars>>

(* ... or answered with an error that leaves open whether it was done: a    *)
(* code without the guarantee, no code, or a code under another status,     *)
(* such as a proxy's.                                                       *)
Unsure == {Coded("storage"), Coded("client_hangup"), Uncoded(502), Uncoded(400),
           S2Error(500, "rate_limited", "server")}

Muddle(a) ==
    /\ a \in wire
    /\ \E err \in Unsure : Answers(a, err)
    /\ Effect(a) \/ UNCHANGED <<resource, creator, tail, applied>>
    /\ wire' = wire \ {a}
    /\ UNCHANGED <<call, pc, attemptNo, priorUncertainty, delay, ctx, result, others>>

(* Another client appends, or creates the object. *)
OtherWrites ==
    /\ pc # "returned"
    /\ others < MaxOthers
    /\ others' = others + 1
    /\ \/ tail' = tail + 1 /\ call.op.effect = "append" /\ UNCHANGED resource
       \/ /\ resource = "absent" /\ call.op.effect \in {"create", "ensure", "delete"}
          /\ resource' = "other" /\ UNCHANGED tail
    /\ UNCHANGED <<call, pc, attemptNo, priorUncertainty, delay, ctx, wire, answer, result,
                   creator, applied>>

UnaryNext ==
    \/ Validate \/ Attempt \/ Reply \/ ReplyUnreadable \/ RequestFails
    \/ BackoffOver \/ Cancel \/ OtherWrites
    \/ \E a \in 1 .. MaxAttempts : Process(a) \/ Refuse(a) \/ Muddle(a)

UnarySpec == UnaryInit /\ [][UnaryNext]_unaryVars

-----------------------------------------------------------------------------

UnaryTypeOK ==
    /\ call \in Calls
    /\ pc \in {"begin", "attempt", "sent", "backoff", "returned"}
    /\ attemptNo \in 1 .. MaxAttempts
    /\ priorUncertainty \in BOOLEAN
    /\ delay \in Int
    /\ ctx \in {"live", "done"}
    /\ wire \subseteq 1 .. MaxAttempts
    /\ resource \in {"absent", "mine", "other"}
    /\ tail \in Nat /\ applied \in Nat /\ others \in 0 .. MaxOthers

(* What HasNoSideEffects tells the caller of a failed call. *)
ReportsNoEffect ==
    /\ pc = "returned"
    /\ ~IsSuccess(result.response)
    /\ ~result.indefinite
    /\ NoSideEffects(result.response)

(* An append that failed with an error said to have no side effects was    *)
(* applied by none of its attempts, not even by a request that reaches the *)
(* server after the call returned.                                         *)
NoEffectIsTrue ==
    call.op.effect = "append" /\ ReportsNoEffect => applied = 0

(* One Append puts its records into the stream at most once when only      *)
(* effect-free failures are retried or a match_seq_num guards it.          *)
AppendedOnce ==
    call.policy = "noSideEffects" \/ call.matchSeqNum => applied <= 1

(* A Create that reports the object as existing already did not create it  *)
(* itself in an attempt whose answer was lost: the request token is the    *)
(* same for all attempts.                                                  *)
SaysAlreadyExists == result.response = Coded("resource_already_exists")

CreateKnowsItsOwn ==
    pc = "returned" /\ call.op.token /\ SaysAlreadyExists => resource # "mine"

(* What a failed call says of its own effect is true. *)
FailuresAreTrue == NoEffectIsTrue /\ CreateKnowsItsOwn

(* However many attempts, the backoff stays positive, at least the         *)
(* smallest configured base and less than twice the largest: the shift     *)
(* that overflows is caught.                                               *)
BackoffBounded ==
    pc = "backoff" => LET lo == call.delays[1]
                          hi == call.delays[2]
                      IN  /\ delay >= IF lo < hi THEN lo ELSE hi
                          /\ delay < 2 * hi

=============================================================================
