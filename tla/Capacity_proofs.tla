--------------------------- MODULE Capacity_proofs ---------------------------
(***************************************************************************)
(* What every account of in-flight bytes and batches needs: the fields of  *)
(* a pool after each operation of capacity.go, and what SumFunctionOnSet,  *)
(* the fold with which the models add up sizes, computes on finite sets.   *)
(***************************************************************************)
EXTENDS Capacity, FiniteSets, Functions, FiniteSetTheorems, WellFoundedInduction, TLAPS

(***************************************************************************)
(* The fields of a pool after reserveLocked and after release.             *)
(***************************************************************************)
LEMMA ReservedFields ==
    ASSUME NEW p \in Pool, NEW n \in Nat
    PROVE  /\ Reserved(p, n) \in Pool
           /\ Reserved(p, n).bytes = p.bytes + n
           /\ Reserved(p, n).items = IF MaxItems > 0 THEN p.items + 1 ELSE p.items
           /\ Reserved(p, n).closed = p.closed
<1>1. p.bytes + n \in Nat
    BY DEF Pool
<1>2. (IF MaxItems > 0 THEN p.items + 1 ELSE p.items) \in Nat
    BY CapacityAssumption DEF Pool
<1> QED BY <1>1, <1>2 DEF Reserved, Pool

(* The fields of a pool after release. *)
LEMMA ReleasedFields ==
    ASSUME NEW p \in Pool, NEW n \in Nat
    PROVE  /\ Released(p, n) \in Pool
           /\ Released(p, n).bytes = IF p.bytes >= n THEN p.bytes - n ELSE 0
           /\ Released(p, n).items = IF MaxItems > 0 /\ p.items > 0 THEN p.items - 1 ELSE p.items
           /\ Released(p, n).closed = p.closed
<1>1. (IF p.bytes >= n THEN p.bytes - n ELSE 0) \in Nat
    BY DEF Pool
<1>2. (IF MaxItems > 0 /\ p.items > 0 THEN p.items - 1 ELSE p.items) \in Nat
    BY CapacityAssumption DEF Pool
<1> QED BY <1>1, <1>2 DEF Released, Pool

-----------------------------------------------------------------------------
(***************************************************************************)
(* The fold is recursive.  Its value is found by comparing it with a       *)
(* closed form: the sum of the f[x] is the number of pairs <<x, i>> with   *)
(* i \in 1..f[x].  That the two agree is shown for a set of least          *)
(* cardinality on which they would not.                                    *)
(***************************************************************************)

(* The slots of x, and of all elements of S. *)
SlotsOf(f, x) == {x} \X (1 .. f[x])
Slots(f, S) == UNION {SlotsOf(f, x) : x \in S}

(* An element has as many slots as its size. *)
LEMMA SlotsOfCount ==
    ASSUME NEW f, NEW x, f[x] \in Nat
    PROVE  IsFiniteSet(SlotsOf(f, x)) /\ Cardinality(SlotsOf(f, x)) = f[x]
<1>1. IsFiniteSet({x}) /\ Cardinality({x}) = 1
    BY FS_Singleton
<1>2. IsFiniteSet(1 .. f[x]) /\ Cardinality(1 .. f[x]) = f[x]
    BY SMTT(40), FS_Interval
<1>3. /\ IsFiniteSet({x} \X (1 .. f[x]))
      /\ Cardinality({x} \X (1 .. f[x])) = Cardinality({x}) * Cardinality(1 .. f[x])
    BY <1>1, <1>2, FS_Product
<1> QED BY <1>1, <1>2, <1>3 DEF SlotsOf

(* Finitely many elements have finitely many slots. *)
LEMMA SlotsFinite ==
    ASSUME NEW S, IsFiniteSet(S), NEW f, \A x \in S : f[x] \in Nat
    PROVE  IsFiniteSet(Slots(f, S))
<1> DEFINE F == {SlotsOf(f, x) : x \in S}
           g == [x \in S |-> SlotsOf(f, x)]
<1>1. g \in Surjection(S, F)
    BY DEF Surjection
<1>2. IsFiniteSet(F)
    BY <1>1, FS_Surjection
<1>3. \A s \in F : IsFiniteSet(s)
    BY SlotsOfCount
<1>4. IsFiniteSet(UNION F)
    BY <1>2, <1>3, FS_UNION
<1> QED BY <1>4 DEF Slots

(* The slots of disjoint sets add up. *)
LEMMA SlotsUnion ==
    ASSUME NEW S, IsFiniteSet(S), NEW R, IsFiniteSet(R), S \cap R = {},
           NEW f, \A x \in S \cup R : f[x] \in Nat
    PROVE  Cardinality(Slots(f, S \cup R)) = Cardinality(Slots(f, S)) + Cardinality(Slots(f, R))
<1>1. IsFiniteSet(Slots(f, S)) /\ IsFiniteSet(Slots(f, R))
    BY SlotsFinite
<1>2. Slots(f, S \cup R) = Slots(f, S) \cup Slots(f, R)
    BY DEF Slots
<1>3. Slots(f, S) \cap Slots(f, R) = {}
    BY DEF Slots, SlotsOf
<1>4. Cardinality(Slots(f, S)) \in Nat /\ Cardinality(Slots(f, R)) \in Nat
    BY <1>1, FS_CardinalityType
<1>5. Cardinality(Slots(f, S) \cup Slots(f, R)) =
        Cardinality(Slots(f, S)) + Cardinality(Slots(f, R))
          - Cardinality(Slots(f, S) \cap Slots(f, R))
    BY <1>1, FS_Union
<1>6. Cardinality(Slots(f, S) \cap Slots(f, R)) = 0
    BY <1>3, FS_EmptySet
<1>7. Cardinality(Slots(f, S \cup R)) = Cardinality(Slots(f, S) \cup Slots(f, R))
    BY <1>2
<1> QED BY <1>4, <1>5, <1>6, <1>7

(* Taking an element out takes its slots away. *)
LEMMA SlotsPeel ==
    ASSUME NEW S, IsFiniteSet(S), NEW x \in S, NEW f, \A y \in S : f[y] \in Nat
    PROVE  /\ Cardinality(Slots(f, S)) = f[x] + Cardinality(Slots(f, S \ {x}))
           /\ Cardinality(Slots(f, S \ {x})) \in Nat
<1>1. IsFiniteSet(S \ {x}) /\ IsFiniteSet({x})
    BY FS_RemoveElement, FS_Singleton
<1>2. S = (S \ {x}) \cup {x} /\ (S \ {x}) \cap {x} = {}
    OBVIOUS
<1>3. Slots(f, {x}) = SlotsOf(f, x)
    BY DEF Slots
<1>4. Cardinality(Slots(f, S)) = Cardinality(Slots(f, S \ {x})) + Cardinality(Slots(f, {x}))
    BY <1>1, <1>2, SlotsUnion
<1>5. Cardinality(Slots(f, S \ {x})) \in Nat
    BY <1>1, SlotsFinite, FS_CardinalityType
<1> QED BY <1>3, <1>4, <1>5, SlotsOfCount

(* A non-empty set of finite sets has a member of least cardinality. *)
LEMMA LeastSet ==
    ASSUME NEW C, C # {}, \A s \in C : IsFiniteSet(s)
    PROVE  \E s \in C : \A r \in C : Cardinality(s) <= Cardinality(r)
<1> DEFINE N == {Cardinality(s) : s \in C}
           R == {p \in Nat \X Nat : p[1] < p[2]}
<1>1. N \subseteq Nat /\ N # {}
    BY FS_CardinalityType
<1>2. IsWellFoundedOn(R, Nat)
    BY NatLessThanWellFounded DEF OpToRel
<1>3. \E n \in N : \A m \in N : ~(<<m, n>> \in R)
    <2> HIDE DEF R, N
    <2> QED BY <1>1, <1>2, WFMin
<1>4. PICK n \in N : \A m \in N : ~(<<m, n>> \in R)
    BY <1>3
<1>5. ASSUME NEW m \in N PROVE n <= m
    <2>1. m \in Nat /\ n \in Nat
        BY <1>1
    <2>2. ~(m < n)
        BY <1>4, <2>1
    <2> QED BY <2>1, <2>2
<1>6. PICK s \in C : n = Cardinality(s)
    OBVIOUS
<1>7. \A r \in C : Cardinality(s) <= Cardinality(r)
    BY <1>5, <1>6
<1> QED BY <1>7

(* The equation of the fold on the subsets of S: peel off the chosen       *)
(* element, as MapThenFoldSet does.                                        *)
Chosen(s) == CHOOSE x \in s : TRUE
Peels(it, f, S) ==
    it = [s \in SUBSET S |-> IF s = {} THEN 0 ELSE f[Chosen(s)] + it[s \ {Chosen(s)}]]

(* Counting the slots satisfies the equation. *)
LEMMA SlotsPeels ==
    ASSUME NEW S, IsFiniteSet(S), NEW f, \A x \in S : f[x] \in Nat
    PROVE  Peels([s \in SUBSET S |-> Cardinality(Slots(f, s))], f, S)
<1> DEFINE g == [s \in SUBSET S |-> Cardinality(Slots(f, s))]
<1>1. ASSUME NEW s \in SUBSET S, s = {} PROVE g[s] = 0
    <2>1. Slots(f, s) = {}
        BY <1>1 DEF Slots
    <2> QED BY <2>1, FS_EmptySet
<1>2. ASSUME NEW s \in SUBSET S, s # {}
      PROVE  g[s] = f[Chosen(s)] + g[s \ {Chosen(s)}]
    <2>1. Chosen(s) \in s
        BY <1>2 DEF Chosen
    <2>2. IsFiniteSet(s)
        BY FS_Subset
    <2>3. Cardinality(Slots(f, s)) = f[Chosen(s)] + Cardinality(Slots(f, s \ {Chosen(s)}))
        BY <2>1, <2>2, SlotsPeel
    <2> QED BY <2>3
<1>3. g = [s \in SUBSET S |-> IF s = {} THEN 0 ELSE f[Chosen(s)] + g[s \ {Chosen(s)}]]
    BY <1>1, <1>2
<1> QED BY <1>3 DEF Peels

(* The equation has one solution. *)
LEMMA PeelsUnique ==
    ASSUME NEW S, IsFiniteSet(S), NEW f, NEW g, NEW h, Peels(g, f, S), Peels(h, f, S)
    PROVE  g = h
<1> DEFINE C == {s \in SUBSET S : g[s] # h[s]}
<1>1. ASSUME C # {} PROVE FALSE
    <2>0. \A s \in C : IsFiniteSet(s)
        BY FS_Subset
    <2>1. PICK s \in C : \A r \in C : Cardinality(s) <= Cardinality(r)
        <3> HIDE DEF C
        <3> QED BY <1>1, <2>0, LeastSet
    <2>2. s \in SUBSET S /\ g[s] # h[s] /\ IsFiniteSet(s)
        BY <2>0
    <2>3. s # {}
        BY <2>2 DEF Peels
    <2>4. Chosen(s) \in s
        BY <2>3 DEF Chosen
    <2>5. s \ {Chosen(s)} \in SUBSET S
        BY <2>2
    <2>6. Cardinality(s \ {Chosen(s)}) = Cardinality(s) - 1 /\ Cardinality(s) \in Nat
        BY <2>2, <2>4, FS_RemoveElement, FS_CardinalityType
    <2>7. s \ {Chosen(s)} \notin C
        BY <2>1, <2>6
    <2>8. g[s \ {Chosen(s)}] = h[s \ {Chosen(s)}]
        BY <2>5, <2>7
    <2>9. g[s] = f[Chosen(s)] + g[s \ {Chosen(s)}] /\ h[s] = f[Chosen(s)] + h[s \ {Chosen(s)}]
        BY <2>2, <2>3 DEF Peels
    <2> QED BY <2>2, <2>8, <2>9
<1>2. \A s \in SUBSET S : g[s] = h[s]
    BY <1>1
<1>3. /\ g = [s \in SUBSET S |-> g[s]]
      /\ h = [s \in SUBSET S |-> h[s]]
    BY DEF Peels
<1> QED BY <1>2, <1>3

(* The sum is the number of slots. *)
LEMMA SumIsSlots ==
    ASSUME NEW S, IsFiniteSet(S), NEW f, \A x \in S : f[x] \in Nat
    PROVE  SumFunctionOnSet(f, S) = Cardinality(Slots(f, S))
<1> DEFINE g == [s \in SUBSET S |-> Cardinality(Slots(f, s))]
           it == CHOOSE h : Peels(h, f, S)
<1>1. Peels(g, f, S)
    BY SlotsPeels
<1>2. Peels(it, f, S)
    <2> HIDE DEF g
    <2> QED BY <1>1
<1>3. it = g
    <2> HIDE DEF g, it
    <2> QED BY <1>1, <1>2, PeelsUnique
<1>4. SumFunctionOnSet(f, S) = it[S]
    BY DEF SumFunctionOnSet, FoldFunctionOnSet, MapThenFoldSet, Peels, Chosen
<1> QED BY <1>3, <1>4

-----------------------------------------------------------------------------
(* The total size of a finite set is a natural number, zero for none. *)
THEOREM SumType ==
    ASSUME NEW S, IsFiniteSet(S), NEW f, \A x \in S : f[x] \in Nat
    PROVE  /\ SumFunctionOnSet(f, S) \in Nat
           /\ S = {} => SumFunctionOnSet(f, S) = 0
<1>1. Cardinality(Slots(f, S)) \in Nat
    BY SlotsFinite, FS_CardinalityType
<1>2. S = {} => Slots(f, S) = {}
    BY DEF Slots
<1> QED BY <1>1, <1>2, SumIsSlots, FS_EmptySet

(* The totals of disjoint finite sets add up. *)
THEOREM SumUnion ==
    ASSUME NEW S, IsFiniteSet(S), NEW R, IsFiniteSet(R), S \cap R = {},
           NEW f, \A x \in S \cup R : f[x] \in Nat
    PROVE  SumFunctionOnSet(f, S \cup R) = SumFunctionOnSet(f, S) + SumFunctionOnSet(f, R)
<1>1. IsFiniteSet(S \cup R)
    BY FS_Union
<1>2. /\ SumFunctionOnSet(f, S \cup R) = Cardinality(Slots(f, S \cup R))
      /\ SumFunctionOnSet(f, S) = Cardinality(Slots(f, S))
      /\ SumFunctionOnSet(f, R) = Cardinality(Slots(f, R))
    BY <1>1, SumIsSlots
<1> QED BY <1>2, SlotsUnion

(* One element more adds its size. *)
THEOREM SumAdd ==
    ASSUME NEW S, IsFiniteSet(S), NEW x, x \notin S,
           NEW f, \A y \in S \cup {x} : f[y] \in Nat
    PROVE  SumFunctionOnSet(f, S \cup {x}) = SumFunctionOnSet(f, S) + f[x]
<1>1. IsFiniteSet(S \cup {x})
    BY FS_AddElement
<1>2. (S \cup {x}) \ {x} = S
    OBVIOUS
<1>3. /\ Cardinality(Slots(f, S \cup {x})) = f[x] + Cardinality(Slots(f, S))
      /\ Cardinality(Slots(f, S)) \in Nat
    BY <1>1, <1>2, SlotsPeel
<1> QED BY <1>1, <1>3, SumIsSlots

(* One element less takes its size away, which the total contains. *)
THEOREM SumRemove ==
    ASSUME NEW S, IsFiniteSet(S), NEW x \in S, NEW f, \A y \in S : f[y] \in Nat
    PROVE  /\ SumFunctionOnSet(f, S \ {x}) = SumFunctionOnSet(f, S) - f[x]
           /\ SumFunctionOnSet(f, S) >= f[x]
<1>1. IsFiniteSet(S \ {x})
    BY FS_RemoveElement
<1>2. /\ Cardinality(Slots(f, S)) = f[x] + Cardinality(Slots(f, S \ {x}))
      /\ Cardinality(Slots(f, S \ {x})) \in Nat
    BY SlotsPeel
<1> QED BY <1>1, <1>2, SumIsSlots

=============================================================================
