----------------------------- MODULE ErrorCodes -----------------------------
(***************************************************************************)
(* S2Error (s2/error.go): what an error answer says, by its status, its    *)
(* code and the place it came from.  The code decides only together with   *)
(* the status it belongs to and only when the server itself answered;      *)
(* anything else is judged by the status alone.                            *)
(***************************************************************************)
EXTENDS Integers

Info(status, retryable, noSideEffects) ==
    [status |-> status, retryable |-> retryable, noSideEffects |-> noSideEffects]

errorCodes ==
    [access_token_not_found  |-> Info(404, FALSE, TRUE),
     authn                   |-> Info(401, FALSE, TRUE),
     bad_frame               |-> Info(400, FALSE, TRUE),
     bad_header              |-> Info(400, FALSE, TRUE),
     bad_json                |-> Info(400, FALSE, TRUE),
     bad_path                |-> Info(400, FALSE, TRUE),
     bad_proto               |-> Info(400, FALSE, TRUE),
     bad_query               |-> Info(400, FALSE, TRUE),
     basin_deletion_pending  |-> Info(409, FALSE, TRUE),
     basin_not_found         |-> Info(404, FALSE, TRUE),
     client_hangup           |-> Info(499, FALSE, FALSE),
     decryption_failed       |-> Info(400, FALSE, TRUE),
     hot_server              |-> Info(502, TRUE, TRUE),
     invalid                 |-> Info(422, FALSE, TRUE),
     not_implemented         |-> Info(501, FALSE, TRUE),
     other                   |-> Info(500, TRUE, FALSE),
     permission_denied       |-> Info(403, FALSE, TRUE),
     quota_exhausted         |-> Info(403, FALSE, TRUE),
     rate_limited            |-> Info(429, TRUE, TRUE),
     request_timeout         |-> Info(408, TRUE, FALSE),
     resource_already_exists |-> Info(409, FALSE, TRUE),
     server_draining         |-> Info(503, TRUE, TRUE),
     storage                 |-> Info(500, TRUE, FALSE),
     stream_deletion_pending |-> Info(409, FALSE, TRUE),
     stream_not_found        |-> Info(404, FALSE, TRUE),
     transaction_conflict    |-> Info(409, TRUE, TRUE),
     unavailable             |-> Info(503, TRUE, FALSE),
     upstream_timeout        |-> Info(504, TRUE, FALSE),
     APPEND_CONDITION_FAILED |-> Info(412, FALSE, TRUE)]

isRetryableStatus(status) == status \in {408, 429, 500, 502, 503, 504}

S2Error(status, code, origin) == [status |-> status, code |-> code, origin |-> origin]

(* decodeAPIError: the answer a server gives with a code of the API, and    *)
(* one without a code the client can read.                                  *)
Coded(code) == S2Error(errorCodes[code].status, code, "server")
Uncoded(status) == S2Error(status, "", "server")

(* newBodyReadError: the status arrived, the body did not. *)
BodyReadError(status) == S2Error(status, "", "network")

(* newValidationError *)
ValidationError == S2Error(0, "VALIDATION", "sdk")

Known(e) == e.code \in DOMAIN errorCodes

IsRetryable(e) ==
    /\ e.status # 0
    /\ IF e.origin = "server" /\ Known(e)
       THEN errorCodes[e.code].status = e.status /\ errorCodes[e.code].retryable
       ELSE isRetryableStatus(e.status)

HasNoSideEffects(e) ==
    /\ e.origin = "server"
    /\ Known(e)
    /\ errorCodes[e.code].status = e.status
    /\ errorCodes[e.code].noSideEffects

=============================================================================
