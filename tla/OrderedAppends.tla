--------------------------- MODULE OrderedAppends ---------------------------
(***************************************************************************)
(* What an append session promises to its user, without connections,       *)
(* retries or goroutines: accepted batches are acknowledged from the front *)
(* of one queue, at growing positions; a failure takes everything that is  *)
(* left in the queue and ends the session; an ended session accepts        *)
(* nothing, but may still acknowledge what it had accepted.                *)
(***************************************************************************)
EXTENDS Naturals, Sequences

CONSTANTS Batches,     \* what can be submitted, each at most once
          Failures     \* the ways a batch can fail

VARIABLES queue,       \* accepted and undecided, oldest first
          outcome,     \* per batch
          last,        \* the highest acknowledged position
          ended

vars == <<queue, outcome, last, ended>>

Waiting == {queue[i] : i \in DOMAIN queue}

Init ==
    /\ queue = <<>>
    /\ outcome = [b \in Batches |-> "none"]
    /\ last = 0
    /\ ended = FALSE

Accept(b) ==
    /\ ~ended
    /\ b \notin Waiting /\ outcome[b] = "none"
    /\ queue' = Append(queue, b)
    /\ UNCHANGED <<outcome, last, ended>>

(* Next positions are bounded by nothing but the stream itself. *)
Acknowledge ==
    /\ queue # <<>>
    /\ queue' = Tail(queue)
    /\ last' \in Nat /\ last' > last
    /\ outcome' = [outcome EXCEPT ![Head(queue)] = "acked"]
    /\ UNCHANGED ended

Fail ==
    /\ ended' = TRUE
    /\ queue' = <<>>
    /\ outcome' \in [Batches -> {"none", "acked"} \cup Failures]
    /\ \A b \in Batches : IF b \in Waiting THEN outcome'[b] \in Failures
                                           ELSE outcome'[b] = outcome[b]
    /\ UNCHANGED last

End ==
    /\ ended' = TRUE
    /\ UNCHANGED <<queue, outcome, last>>

Next == (\E b \in Batches : Accept(b)) \/ Acknowledge \/ Fail \/ End

Spec == Init /\ [][Next]_vars

=============================================================================
