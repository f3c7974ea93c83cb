--------------------------- MODULE CapacityTracker ---------------------------
(***************************************************************************)
(* Goroutines that reserve and release in-flight capacity through          *)
(* capacityTracker (s2/capacity.go).                                       *)
(*                                                                         *)
(* A caller of reserve first tries without waiting (tryReserve), then      *)
(* takes the lock again and, while it cannot be served, sleeps in          *)
(* cond.Wait.  What makes the code hard is that every wake-up is a         *)
(* broadcast sent AFTER the lock was dropped (release, Close) or by the    *)
(* goroutine of context.AfterFunc (cancellation), so a change of the pool  *)
(* and the broadcast that announces it are two steps, with anything in     *)
(* between.                                                                *)
(***************************************************************************)
EXTENDS Capacity, FiniteSetsExt

CONSTANTS Callers,     \* goroutines that call reserve, one request at a time
          Size         \* Size[c]: the bytes caller c asks for

ASSUME CallersAssumption == IsFiniteSet(Callers) /\ Size \in [Callers -> Nat]

VARIABLES pool,        \* curBytes, curItems, closed
          pc,          \* where each caller is, see CallerStates
          cancelled,   \* the callers whose context is done
          closer       \* the goroutine that calls Close

vars == <<pool, pc, cancelled, closer>>

(***************************************************************************)
(* idle      - not inside reserve                                          *)
(* retry     - tryReserve found no capacity; about to lock again           *)
(* waiting   - asleep in cond.Wait                                         *)
(* woken     - notified, has not got the lock back yet                     *)
(* holding   - reserve returned nil; the capacity is this caller's         *)
(* releasing - inside release, after the unlock and before the broadcast   *)
(* failed    - reserve returned an error                                   *)
(***************************************************************************)
CallerStates == {"idle", "retry", "waiting", "woken", "holding", "releasing", "failed"}

TypeOK ==
    /\ pool \in Pool
    /\ pc \in [Callers -> CallerStates]
    /\ cancelled \in SUBSET Callers
    /\ closer \in {"idle", "closing", "done"}

Holders == {c \in Callers : pc[c] = "holding"}

Init ==
    /\ pool = NewPool
    /\ pc = [c \in Callers |-> "idle"]
    /\ cancelled = {}
    /\ closer = "idle"

(***************************************************************************)
(* The decision every pass through the lock makes, in the code's order:    *)
(* closed, then the context, then capacity; "otherwise" is what the        *)
(* caller does when none of them settles the call.                         *)
(***************************************************************************)
Decide(c, otherwise) ==
    \/ /\ pool.closed \/ c \in cancelled
       /\ pc' = [pc EXCEPT ![c] = "failed"]
       /\ UNCHANGED pool
    \/ /\ ~pool.closed /\ c \notin cancelled
       /\ HasCapacity(pool, Size[c])
       /\ pool' = Reserved(pool, Size[c])
       /\ pc' = [pc EXCEPT ![c] = "holding"]
    \/ /\ ~pool.closed /\ c \notin cancelled
       /\ ~HasCapacity(pool, Size[c])
       /\ pc' = [pc EXCEPT ![c] = otherwise]
       /\ UNCHANGED pool

(* tryReserve, called first by reserve. *)
TryReserve(c) ==
    /\ pc[c] = "idle"
    /\ IF Oversized(Size[c])
       THEN pc' = [pc EXCEPT ![c] = "failed"] /\ UNCHANGED pool
       ELSE Decide(c, "retry")
    /\ UNCHANGED <<cancelled, closer>>

(***************************************************************************)
(* The locked part of reserve: on entry (retry) and after every wake-up    *)
(* (woken).  The AfterFunc that will broadcast on cancellation is          *)
(* registered before the lock is released by cond.Wait.                    *)
(***************************************************************************)
ReserveOrWait(c) ==
    /\ pc[c] \in {"retry", "woken"}
    /\ Decide(c, "waiting")
    /\ UNCHANGED <<cancelled, closer>>

(* cond.Broadcast *)
Broadcast(states) ==
    [c \in Callers |-> IF states[c] = "waiting" THEN "woken" ELSE states[c]]

(* release: the counters change under the lock, ... *)
Release(c) ==
    /\ pc[c] = "holding"
    /\ pool' = Released(pool, Size[c])
    /\ pc' = [pc EXCEPT ![c] = "releasing"]
    /\ UNCHANGED <<cancelled, closer>>

(* Mutant: release wakes nobody. *)
ReleaseSilently(c) ==
    /\ pc[c] = "releasing"
    /\ pc' = [pc EXCEPT ![c] = "idle"]
    /\ UNCHANGED <<pool, cancelled, closer>>

(* ... the broadcast follows after it. *)
ReleaseBroadcast(c) ==
    /\ pc[c] = "releasing"
    /\ pc' = Broadcast([pc EXCEPT ![c] = "idle"])
    /\ UNCHANGED <<pool, cancelled, closer>>

(* The context of a pending call is cancelled ... *)
Cancel(c) ==
    /\ c \notin cancelled
    /\ pc[c] \in {"idle", "retry", "waiting", "woken"}
    /\ cancelled' = cancelled \cup {c}
    /\ UNCHANGED <<pool, pc, closer>>

(* ... and the goroutine started by context.AfterFunc wakes the sleepers. *)
CancellationWakeup(c) ==
    /\ c \in cancelled /\ pc[c] = "waiting"
    /\ pc' = Broadcast(pc)
    /\ UNCHANGED <<pool, cancelled, closer>>

(* Close sets the flag under the lock ... *)
Close ==
    /\ closer = "idle"
    /\ pool' = ClosedPool(pool)
    /\ closer' = "closing"
    /\ UNCHANGED <<pc, cancelled>>

(* Mutant: Close wakes nobody. *)
CloseSilently ==
    /\ closer = "closing"
    /\ closer' = "done"
    /\ UNCHANGED <<pool, pc, cancelled>>

(* ... and broadcasts after it. *)
CloseBroadcast ==
    /\ closer = "closing"
    /\ pc' = Broadcast(pc)
    /\ closer' = "done"
    /\ UNCHANGED <<pool, cancelled>>

Next ==
    \/ \E c \in Callers :
          \/ TryReserve(c) \/ ReserveOrWait(c)
          \/ Release(c) \/ ReleaseBroadcast(c)
          \/ Cancel(c) \/ CancellationWakeup(c)
    \/ Close \/ CloseBroadcast

(***************************************************************************)
(* A goroutine that can run eventually runs.  Nobody is obliged to call    *)
(* reserve, release, Close or cancel.                                      *)
(***************************************************************************)
Fairness ==
    /\ \A c \in Callers :
          /\ WF_vars(ReserveOrWait(c))
          /\ WF_vars(ReleaseBroadcast(c))
          /\ WF_vars(CancellationWakeup(c))
    /\ WF_vars(CloseBroadcast)

Spec == Init /\ [][Next]_vars /\ Fairness

-----------------------------------------------------------------------------
(* Properties *)

(***************************************************************************)
(* With a limit on batches, curItems counts exactly the callers between a  *)
(* successful reserve and their release; without one it stays 0.  A        *)
(* release that is lost, doubled or clamped (capacity.go:114) would break  *)
(* it.                                                                     *)
(***************************************************************************)
ItemsAreHeld ==
    pool.items = IF MaxItems > 0 THEN Cardinality(Holders) ELSE 0

(* The bytes side of the same account, which has no limit to switch it off. *)
BytesAreHeld == pool.bytes = SumFunctionOnSet(Size, Holders)

(* The limits given to newCapacityTracker are never exceeded. *)
WithinLimits ==
    /\ MaxBytes > 0 => pool.bytes <= MaxBytes
    /\ MaxItems > 0 => pool.items <= MaxItems

(* A broadcast that is still to come will reach whoever sleeps now. *)
BroadcastPending ==
    \/ closer = "closing"
    \/ \E c \in Callers : pc[c] = "releasing"
    \/ \E c \in cancelled : pc[c] = "waiting"

(***************************************************************************)
(* No lost wake-up: a caller asleep in cond.Wait whose wait is over        *)
(* (capacity, Close or its own cancellation) is about to be woken.         *)
(***************************************************************************)
NoLostWakeup ==
    \A c \in Callers :
        /\ pc[c] = "waiting"
        /\ pool.closed \/ c \in cancelled \/ HasCapacity(pool, Size[c])
        => BroadcastPending

(***************************************************************************)
(* Close and cancellation end every wait: the code's callers rely on it to *)
(* not leak the goroutine of Submit (append_session.go:126).               *)
(***************************************************************************)
WaitsEnd ==
    \A c \in Callers :
        (pool.closed \/ c \in cancelled) /\ pc[c] \in {"retry", "waiting", "woken"}
            ~> pc[c] = "failed"

=============================================================================
