------------------------ MODULE CapacityTracker_proofs ------------------------
(***************************************************************************)
(* Proofs about CapacityTracker, for any finite set of callers, any        *)
(* request sizes and any limits.                                           *)
(***************************************************************************)
EXTENDS CapacityTracker, Capacity_proofs

(***************************************************************************)
(* Type correctness of capacityTracker's fields and of the callers: the    *)
(* clamped subtraction of release keeps both counters natural numbers.     *)
(***************************************************************************)
LEMMA TypeInductive == TypeOK /\ [Next]_vars => TypeOK'
<1> SUFFICES ASSUME TypeOK, [Next]_vars PROVE TypeOK'
    OBVIOUS
<1> USE CapacityAssumption, CallersAssumption
<1>d. ASSUME NEW c \in Callers, NEW otherwise \in CallerStates, Decide(c, otherwise)
      PROVE  pool' \in Pool /\ pc' \in [Callers -> CallerStates]
    <2>1. Size[c] \in Nat /\ pool \in Pool
        BY DEF TypeOK
    <2>2. pc' \in [Callers -> CallerStates]
        BY <1>d DEF Decide, TypeOK, CallerStates
    <2>3. pool' = pool \/ pool' = Reserved(pool, Size[c])
        BY <1>d DEF Decide
    <2> QED BY <2>1, <2>2, <2>3, ReservedFields
<1>1. ASSUME NEW c \in Callers, TryReserve(c) PROVE TypeOK'
    <2>1. CASE Oversized(Size[c])
        BY <1>1, <2>1 DEF TryReserve, TypeOK, CallerStates
    <2>2. CASE ~Oversized(Size[c])
        <3>1. Decide(c, "retry") /\ UNCHANGED <<cancelled, closer>>
            BY <1>1, <2>2 DEF TryReserve
        <3>2. pool' \in Pool /\ pc' \in [Callers -> CallerStates]
            BY <1>d, <3>1 DEF CallerStates
        <3> QED BY <3>1, <3>2 DEF TypeOK
    <2> QED BY <2>1, <2>2
<1>2. ASSUME NEW c \in Callers, ReserveOrWait(c) PROVE TypeOK'
    <2>1. Decide(c, "waiting") /\ UNCHANGED <<cancelled, closer>>
        BY <1>2 DEF ReserveOrWait
    <2>2. pool' \in Pool /\ pc' \in [Callers -> CallerStates]
        BY <1>d, <2>1 DEF CallerStates
    <2> QED BY <2>1, <2>2 DEF TypeOK
<1>3. ASSUME NEW c \in Callers, Release(c) PROVE TypeOK'
    BY <1>3, ReleasedFields DEF Release, TypeOK, CallerStates
<1>4. ASSUME NEW c \in Callers, ReleaseBroadcast(c) PROVE TypeOK'
    BY <1>4 DEF ReleaseBroadcast, Broadcast, TypeOK, CallerStates
<1>5. ASSUME NEW c \in Callers, Cancel(c) PROVE TypeOK'
    BY <1>5 DEF Cancel, TypeOK
<1>6. ASSUME NEW c \in Callers, CancellationWakeup(c) PROVE TypeOK'
    BY <1>6 DEF CancellationWakeup, Broadcast, TypeOK, CallerStates
<1>7. CASE Close
    BY <1>7 DEF Close, ClosedPool, TypeOK, Pool
<1>8. CASE CloseBroadcast
    BY <1>8 DEF CloseBroadcast, Broadcast, TypeOK, CallerStates
<1>9. CASE UNCHANGED vars
    BY <1>9 DEF vars, TypeOK
<1> QED BY <1>1, <1>2, <1>3, <1>4, <1>5, <1>6, <1>7, <1>8, <1>9 DEF Next

(* The fields of capacityTracker and the callers always have their types. *)
THEOREM TypeCorrect == Spec => []TypeOK
<1>1. Init => TypeOK
    BY DEF Init, TypeOK, NewPool, Pool, CallerStates
<1> QED BY <1>1, TypeInductive, PTL DEF Spec

(***************************************************************************)
(* How a step changes the set of holders together with the pool: the only  *)
(* facts about the actions that the account of the items needs.            *)
(***************************************************************************)
LEMMA HoldersStep ==
    ASSUME TypeOK, [Next]_vars
    PROVE  \/ Holders' = Holders /\ pool'.items = pool.items /\ pool'.bytes = pool.bytes
           \/ \E c \in Callers :
                 /\ c \notin Holders /\ Holders' = Holders \cup {c}
                 /\ HasCapacity(pool, Size[c]) /\ pool' = Reserved(pool, Size[c])
           \/ \E c \in Callers :
                 /\ c \in Holders /\ Holders' = Holders \ {c}
                 /\ pool' = Released(pool, Size[c])
<1> USE DEF Holders
<1>d. ASSUME NEW c \in Callers, NEW otherwise \in {"retry", "waiting"},
             pc[c] # "holding", Decide(c, otherwise)
      PROVE  \/ Holders' = Holders /\ pool' = pool
             \/ /\ c \notin Holders /\ Holders' = Holders \cup {c}
                /\ HasCapacity(pool, Size[c]) /\ pool' = Reserved(pool, Size[c])
    BY <1>d DEF Decide, TypeOK
<1>1. ASSUME NEW c \in Callers, TryReserve(c) \/ ReserveOrWait(c)
      PROVE  \/ Holders' = Holders /\ pool' = pool
             \/ /\ c \notin Holders /\ Holders' = Holders \cup {c}
                /\ HasCapacity(pool, Size[c]) /\ pool' = Reserved(pool, Size[c])
    <2>1. CASE TryReserve(c) /\ Oversized(Size[c])
        BY <2>1 DEF TryReserve, TypeOK
    <2>2. CASE TryReserve(c) /\ ~Oversized(Size[c])
        BY <2>2, <1>d DEF TryReserve
    <2>3. CASE ReserveOrWait(c)
        BY <2>3, <1>d DEF ReserveOrWait
    <2> QED BY <1>1, <2>1, <2>2, <2>3
<1>2. ASSUME NEW c \in Callers, Release(c)
      PROVE  c \in Holders /\ Holders' = Holders \ {c} /\ pool' = Released(pool, Size[c])
    BY <1>2 DEF Release, TypeOK
<1>3. ASSUME NEW c \in Callers, ReleaseBroadcast(c)
      PROVE  Holders' = Holders /\ pool' = pool
    BY <1>3 DEF ReleaseBroadcast, Broadcast, TypeOK
<1>4. ASSUME NEW c \in Callers, Cancel(c) \/ CancellationWakeup(c)
      PROVE  Holders' = Holders /\ pool' = pool
    BY <1>4 DEF Cancel, CancellationWakeup, Broadcast, TypeOK
<1>5. CASE Close
    BY <1>5 DEF Close, ClosedPool, TypeOK, Pool
<1>6. CASE CloseBroadcast
    BY <1>6 DEF CloseBroadcast, Broadcast, TypeOK
<1>7. CASE UNCHANGED vars
    BY <1>7 DEF vars
<1> QED BY <1>1, <1>2, <1>3, <1>4, <1>5, <1>6, <1>7 DEF Next

(***************************************************************************)
(* The batches counted in flight are the callers that hold capacity: no    *)
(* release of capacity.go is lost, doubled or swallowed by the clamp.      *)
(***************************************************************************)
THEOREM ItemsConserved == Spec => []ItemsAreHeld
<1> USE CapacityAssumption, CallersAssumption
<1>1. Init => ItemsAreHeld
    <2> SUFFICES ASSUME Init PROVE ItemsAreHeld
        OBVIOUS
    <2>1. Holders = {}
        BY DEF Init, Holders
    <2> QED BY <2>1, FS_EmptySet DEF Init, NewPool, ItemsAreHeld
<1>2. TypeOK /\ ItemsAreHeld /\ [Next]_vars => ItemsAreHeld'
    <2> SUFFICES ASSUME TypeOK, ItemsAreHeld, [Next]_vars PROVE ItemsAreHeld'
        OBVIOUS
    <2>0. IsFiniteSet(Holders) /\ Cardinality(Holders) \in Nat
        BY FS_Subset, FS_CardinalityType DEF Holders
    <2>1. CASE Holders' = Holders /\ pool'.items = pool.items
        BY <2>1 DEF ItemsAreHeld
    <2>2. ASSUME NEW c \in Callers, c \notin Holders, Holders' = Holders \cup {c},
                 pool' = Reserved(pool, Size[c])
          PROVE  ItemsAreHeld'
        <3>1. Cardinality(Holders') = Cardinality(Holders) + 1
            BY <2>0, <2>2, FS_AddElement
        <3> QED BY <3>1, <2>0, <2>2 DEF ItemsAreHeld, Reserved, TypeOK, Pool
    <2>3. ASSUME NEW c \in Callers, c \in Holders, Holders' = Holders \ {c},
                 pool' = Released(pool, Size[c])
          PROVE  ItemsAreHeld'
        <3>1. Cardinality(Holders') = Cardinality(Holders) - 1
            BY <2>0, <2>3, FS_RemoveElement
        <3>2. Cardinality(Holders) # 0
            BY <2>0, <2>3, FS_EmptySet
        <3> QED BY <3>1, <3>2, <2>0, <2>3 DEF ItemsAreHeld, Released, TypeOK, Pool
    <2> QED BY <2>1, <2>2, <2>3, HoldersStep
<1> QED BY <1>1, <1>2, TypeCorrect, PTL DEF Spec

(***************************************************************************)
(* The bytes counted in flight are the sizes of the callers that hold      *)
(* capacity: the clamp of release at zero never bites.                     *)
(***************************************************************************)
THEOREM BytesConserved == Spec => []BytesAreHeld
<1> USE CapacityAssumption, CallersAssumption
<1>1. Init => BytesAreHeld
    <2> SUFFICES ASSUME Init PROVE BytesAreHeld
        OBVIOUS
    <2>1. Holders = {}
        BY DEF Init, Holders
    <2>2. SumFunctionOnSet(Size, {}) = 0
        BY SumType, FS_EmptySet
    <2> QED BY <2>1, <2>2 DEF Init, NewPool, BytesAreHeld
<1>2. TypeOK /\ BytesAreHeld /\ [Next]_vars => BytesAreHeld'
    <2> SUFFICES ASSUME TypeOK, BytesAreHeld, [Next]_vars PROVE BytesAreHeld'
        OBVIOUS
    <2>0. IsFiniteSet(Holders) /\ \A c \in Callers : Size[c] \in Nat
        BY FS_Subset DEF Holders
    <2>1. CASE Holders' = Holders /\ pool'.bytes = pool.bytes
        BY <2>1 DEF BytesAreHeld
    <2>2. ASSUME NEW c \in Callers, c \notin Holders, Holders' = Holders \cup {c},
                 pool' = Reserved(pool, Size[c])
          PROVE  BytesAreHeld'
        <3>1. SumFunctionOnSet(Size, Holders \cup {c}) = SumFunctionOnSet(Size, Holders) + Size[c]
            BY <2>0, <2>2, SumAdd DEF Holders
        <3>2. pool'.bytes = pool.bytes + Size[c]
            BY <2>0, <2>2, ReservedFields DEF TypeOK
        <3> QED BY <3>1, <3>2, <2>2 DEF BytesAreHeld
    <2>3. ASSUME NEW c \in Callers, c \in Holders, Holders' = Holders \ {c},
                 pool' = Released(pool, Size[c])
          PROVE  BytesAreHeld'
        <3>1. /\ SumFunctionOnSet(Size, Holders \ {c}) = SumFunctionOnSet(Size, Holders) - Size[c]
              /\ SumFunctionOnSet(Size, Holders) >= Size[c]
            BY <2>0, <2>3, SumRemove DEF Holders
        <3>2. pool'.bytes = IF pool.bytes >= Size[c] THEN pool.bytes - Size[c] ELSE 0
            BY <2>0, <2>3, ReleasedFields DEF TypeOK
        <3> QED BY <3>1, <3>2, <2>3 DEF BytesAreHeld
    <2> QED BY <2>1, <2>2, <2>3, HoldersStep
<1> QED BY <1>1, <1>2, TypeCorrect, PTL DEF Spec

(***************************************************************************)
(* Backpressure: neither limit of newCapacityTracker is ever exceeded.     *)
(***************************************************************************)
THEOREM LimitsRespected == Spec => []WithinLimits
<1> USE CapacityAssumption, CallersAssumption
<1>1. Init => WithinLimits
    BY DEF Init, NewPool, WithinLimits
<1>2. TypeOK /\ WithinLimits /\ [Next]_vars => WithinLimits'
    <2> SUFFICES ASSUME TypeOK, WithinLimits, [Next]_vars PROVE WithinLimits'
        OBVIOUS
    <2>1. CASE pool'.items = pool.items /\ pool'.bytes = pool.bytes
        BY <2>1 DEF WithinLimits
    <2>2. ASSUME NEW c \in Callers, HasCapacity(pool, Size[c]),
                 pool' = Reserved(pool, Size[c])
          PROVE  WithinLimits'
        BY <2>2 DEF WithinLimits, HasCapacity, Reserved, TypeOK, Pool
    <2>3. ASSUME NEW c \in Callers, pool' = Released(pool, Size[c]) PROVE WithinLimits'
        BY <2>3 DEF WithinLimits, Released, TypeOK, Pool
    <2> QED BY <2>1, <2>2, <2>3, HoldersStep
<1> QED BY <1>1, <1>2, TypeCorrect, PTL DEF Spec

(***************************************************************************)
(* The condition that would end the sleep of caller c.                     *)
(***************************************************************************)
Servable(c) == pool.closed \/ c \in cancelled \/ HasCapacity(pool, Size[c])

(***************************************************************************)
(* No goroutine sleeps in cond.Wait past the moment it could go on without *)
(* a broadcast being due, although release and Close broadcast only after  *)
(* they have dropped the lock and cancellation broadcasts from a goroutine *)
(* of its own.                                                             *)
(***************************************************************************)
THEOREM WakeupsNotLost == Spec => []NoLostWakeup
<1> USE CapacityAssumption, CallersAssumption
<1>1. Init => NoLostWakeup
    BY DEF Init, NoLostWakeup
<1>2. TypeOK /\ NoLostWakeup /\ [Next]_vars => NoLostWakeup'
    <2> SUFFICES ASSUME TypeOK, NoLostWakeup, [Next]_vars,
                        NEW w \in Callers, pc'[w] = "waiting", Servable(w)'
                 PROVE  BroadcastPending'
        BY DEF NoLostWakeup, Servable
    <2>d. ASSUME NEW c \in Callers, NEW otherwise \in {"retry", "waiting"},
                 pc[c] \in {"idle", "retry", "woken"},
                 Decide(c, otherwise), UNCHANGED <<cancelled, closer>>
          PROVE  BroadcastPending'
        <3>0. \/ pool' = pool
              \/ /\ pool'.closed = pool.closed
                 /\ pool'.bytes >= pool.bytes /\ pool'.items >= pool.items
            <4>1. Size[c] \in Nat /\ pool \in Pool
                BY DEF TypeOK
            <4>2. pool' = pool \/ pool' = Reserved(pool, Size[c])
                BY <2>d DEF Decide
            <4>3. /\ Reserved(pool, Size[c]).closed = pool.closed
                  /\ Reserved(pool, Size[c]).bytes = pool.bytes + Size[c]
                  /\ Reserved(pool, Size[c]).items \in {pool.items, pool.items + 1}
                BY <4>1, ReservedFields
            <4>4. pool.bytes \in Nat /\ pool.items \in Nat
                BY <4>1 DEF Pool
            <4> QED BY <4>1, <4>2, <4>3, <4>4
        <3>t. pool' \in Pool /\ pool \in Pool /\ Size[w] \in Nat
            BY TypeInductive DEF TypeOK
        <3>1. pc[w] = "waiting" => Servable(w)
            BY <2>d, <3>0, <3>t DEF Servable, Pool, HasCapacity
        <3>2. w = c => ~Servable(w)'
            BY <2>d DEF Decide, Servable, TypeOK
        <3>3. pc[w] = "waiting"
            BY <2>d, <3>2 DEF Decide, TypeOK
        <3>4. BroadcastPending
            BY <3>1, <3>3 DEF NoLostWakeup, Servable
        <3> QED BY <3>4, <2>d DEF Decide, BroadcastPending, TypeOK
    <2>1. ASSUME NEW c \in Callers, TryReserve(c) PROVE BroadcastPending'
        <3>1. CASE Oversized(Size[c])
            BY <2>1, <3>1 DEF TryReserve, NoLostWakeup, Servable, BroadcastPending, TypeOK
        <3>2. CASE ~Oversized(Size[c])
            BY <2>1, <3>2, <2>d DEF TryReserve
        <3> QED BY <3>1, <3>2
    <2>2. ASSUME NEW c \in Callers, ReserveOrWait(c) PROVE BroadcastPending'
        BY <2>2, <2>d DEF ReserveOrWait
    <2>3. ASSUME NEW c \in Callers, Release(c) PROVE BroadcastPending'
        BY <2>3 DEF Release, BroadcastPending, TypeOK
    <2>4. ASSUME NEW c \in Callers, ReleaseBroadcast(c) PROVE FALSE
        BY <2>4 DEF ReleaseBroadcast, Broadcast, TypeOK
    <2>5. ASSUME NEW c \in Callers, Cancel(c) PROVE BroadcastPending'
        <3>1. CASE w = c
            BY <2>5, <3>1 DEF Cancel, BroadcastPending, TypeOK
        <3>2. CASE w # c
            BY <2>5, <3>2 DEF Cancel, NoLostWakeup, Servable, BroadcastPending, TypeOK
        <3> QED BY <3>1, <3>2
    <2>6. ASSUME NEW c \in Callers, CancellationWakeup(c) PROVE FALSE
        BY <2>6 DEF CancellationWakeup, Broadcast, TypeOK
    <2>7. CASE Close
        BY <2>7 DEF Close, BroadcastPending
    <2>8. ASSUME CloseBroadcast PROVE FALSE
        BY <2>8 DEF CloseBroadcast, Broadcast, TypeOK
    <2>9. CASE UNCHANGED vars
        BY <2>9 DEF vars, NoLostWakeup, Servable, BroadcastPending, HasCapacity
    <2> QED BY <2>1, <2>2, <2>3, <2>4, <2>5, <2>6, <2>7, <2>8, <2>9 DEF Next
<1> QED BY <1>1, <1>2, TypeCorrect, PTL DEF Spec

=============================================================================
