------------------------------- MODULE MCClient -------------------------------
(***************************************************************************)
(* The parts of the client that share no state, checked in one run: a      *)
(* behaviour exercises one of them (its scene) and leaves the others in    *)
(* their initial state.                                                    *)
(***************************************************************************)
EXTENDS SpreadTransport, UnaryRequests, FrameReader, Pager, StreamDiscovery, TLC

VARIABLE scene

vars == <<scene, poolVars, unaryVars, frameVars, listingVars, iterVars, managerVars>>

(* Base delays <<least, greatest>>: one that overflows before the last     *)
(* attempt, and one whose least exceeds its greatest.                      *)
MCDelays == {<<21, 31>>, <<20, 8>>}

RequestSymmetry == Permutations(Requests)

(* One initial state of each component for the scenes of the others. *)
UnaryIdle == UnaryInit /\ call = (CHOOSE c \in Calls : Sensible(c)) /\ resource = "absent"
FrameIdle == FrameInit /\ frames = <<>> /\ ending = "EOF"
ListingIdle == ListingInit /\ \A n \in Names : listing[n] = "absent"
PagerIdle == PagerInit /\ includeDeleted
DiscoveryIdle == DiscoveryInit /\ static

Init ==
    /\ scene \in {"pool", "unary", "frame", "pager", "discovery"}
    /\ PoolInit
    /\ IF scene = "unary" THEN UnaryInit ELSE UnaryIdle
    /\ IF scene = "frame" THEN FrameInit ELSE FrameIdle
    /\ IF scene \in {"pager", "discovery"} THEN ListingInit ELSE ListingIdle
    /\ IF scene = "pager" THEN PagerInit ELSE PagerIdle
    /\ IF scene = "discovery" THEN DiscoveryInit ELSE DiscoveryIdle

PoolScene ==
    /\ scene = "pool" /\ PoolNext
    /\ UNCHANGED <<unaryVars, frameVars, listingVars, iterVars, managerVars>>

UnaryScene ==
    /\ scene = "unary" /\ UnaryNext
    /\ UNCHANGED <<poolVars, frameVars, listingVars, iterVars, managerVars>>

FrameScene ==
    /\ scene = "frame" /\ FrameNext
    /\ UNCHANGED <<poolVars, unaryVars, listingVars, iterVars, managerVars>>

PagerScene ==
    /\ scene = "pager" /\ PagerNext
    /\ UNCHANGED <<poolVars, unaryVars, frameVars, managerVars>>

DiscoveryScene ==
    /\ scene = "discovery" /\ DiscoveryNext
    /\ UNCHANGED <<poolVars, unaryVars, frameVars, iterVars>>


Next == UNCHANGED scene /\ (PoolScene \/ UnaryScene \/ FrameScene \/ PagerScene \/ DiscoveryScene)

Spec == Init /\ [][Next]_vars

(* Every component keeps to its types. *)
TypeOK == PoolTypeOK /\ UnaryTypeOK /\ FrameTypeOK /\ PagerTypeOK /\ DiscoveryTypeOK

=============================================================================
