---------------------------- MODULE AppendErrors ----------------------------
(***************************************************************************)
(* The errors an append can meet, by what the code asks of them            *)
(* (s2/error.go, s2/reconnect.go): is it worth a retry, does it guarantee  *)
(* that nothing was mutated, does it announce that the server drains.      *)
(*                                                                         *)
(*   draining        503 server_draining                                   *)
(*   noEffect        retryable, no side effects (rate_limited, ...)        *)
(*   uncertain       retryable, may have taken effect: timeouts, resets,   *)
(*                   5xx, and every error that is not an *S2Error, such as *)
(*                   a failed write or ErrSessionClosed                    *)
(*   fatalNoEffect   final, no side effects (append condition failed, ...) *)
(*   fatalUncertain  final, without that guarantee (unknown 4xx codes)     *)
(***************************************************************************)

Errors == {"draining", "noEffect", "uncertain", "fatalNoEffect", "fatalUncertain"}

NoError == "none"

(* isServerDraining *)
IsServerDraining(err) == err = "draining"

(* S2Error.IsRetryable; an error of another type is always retried. *)
IsRetryable(err) == err \in {"draining", "noEffect", "uncertain"}

(* S2Error.HasNoSideEffects, isNoSideEffectsError *)
HasNoSideEffects(err) == err \in {"draining", "noEffect", "fatalNoEffect"}

(***************************************************************************)
(* What the ticket of a batch resolves to when err fails it: withPrior-    *)
(* Uncertainty wraps a definite error whose batch may have been applied by *)
(* an earlier attempt.                                                     *)
(***************************************************************************)
Failures == {"failedNoEffect", "failed"}

WithPriorUncertainty(err, priorUncertainty) ==
    IF HasNoSideEffects(err) /\ ~priorUncertainty THEN "failedNoEffect" ELSE "failed"

=============================================================================
