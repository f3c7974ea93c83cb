------------------------------ MODULE Capacity ------------------------------
(***************************************************************************)
(* The bookkeeping of capacityTracker (s2/capacity.go) that is guarded by  *)
(* its mutex: how many bytes and batches are in flight and whether the     *)
(* tracker was closed.  CapacityTracker models the callers that block on   *)
(* it; AppendSession uses the same operators for its backpressure.         *)
(*                                                                         *)
(* A pool is the record of the fields curBytes, curItems and closed.       *)
(* A limit of 0 means "no limit", as in the code; with no limit on items   *)
(* curItems is never counted up.                                           *)
(***************************************************************************)
EXTENDS Integers

CONSTANTS MaxBytes,    \* maxBytes
          MaxItems     \* maxItems

ASSUME CapacityAssumption == MaxBytes \in Nat /\ MaxItems \in Nat

Pool == [bytes : Nat, items : Nat, closed : BOOLEAN]

(* newCapacityTracker *)
NewPool == [bytes |-> 0, items |-> 0, closed |-> FALSE]

(* Mutant: off by one on both limits. *)
HasCapacityOffByOne(pool, n) ==
    /\ MaxBytes > 0 => pool.bytes + n <= MaxBytes + 1
    /\ MaxItems > 0 => pool.items <= MaxItems

(* hasCapacity *)
HasCapacity(pool, n) ==
    /\ MaxBytes > 0 => pool.bytes + n <= MaxBytes
    /\ MaxItems > 0 => pool.items < MaxItems

(* The request can never be granted: tryReserve refuses it at once. *)
Oversized(n) == MaxBytes > 0 /\ n > MaxBytes

(* reserveLocked *)
Reserved(pool, n) ==
    [pool EXCEPT !.bytes = @ + n,
                 !.items = IF MaxItems > 0 THEN @ + 1 ELSE @]

(* Mutants: the batch, or its bytes, are not given back. *)
ReleasedBytesOnly(pool, n) == [pool EXCEPT !.bytes = IF @ >= n THEN @ - n ELSE 0]

ReleasedItemsOnly(pool, n) ==
    [pool EXCEPT !.items = IF MaxItems > 0 /\ @ > 0 THEN @ - 1 ELSE @]

(* release, without its broadcast; both counters are clamped at zero. *)
Released(pool, n) ==
    [pool EXCEPT !.bytes = IF @ >= n THEN @ - n ELSE 0,
                 !.items = IF MaxItems > 0 /\ @ > 0 THEN @ - 1 ELSE @]

(* Close, without its broadcast. *)
ClosedPool(pool) == [pool EXCEPT !.closed = TRUE]

=============================================================================
