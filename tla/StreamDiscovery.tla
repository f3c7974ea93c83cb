--------------------------- MODULE StreamDiscovery ---------------------------
(***************************************************************************)
(* How the Bento input finds the streams it reads: streamDiscovery and     *)
(* InputStreams.listPage (s2-bentobox/input.go), and streamsManager        *)
(* (multi_stream_input.go), which starts a worker for every stream of a    *)
(* page and stops, after a complete scan, the workers of the streams the   *)
(* scan did not see.  What a worker does, and how it stops, is BentoInput. *)
(***************************************************************************)
EXTENDS Listing

VARIABLES
    static,    \* StaticInputStreams: all Names, rather than those listed
    cursor,    \* streamDiscovery.cursor
    seen,      \* streamDiscovery.seen
    complete,  \* the streams of a complete scan
    workers,   \* existingWorkers
    pruning,   \* the manager is in its pruning loop
    wait       \* what it waits for: nothing, the page or the update interval

managerVars == <<static, cursor, seen, complete, workers, pruning, wait>>
discoveryVars == <<listingVars, managerVars>>

DiscoveryTypeOK ==
    /\ ListingTypeOK
    /\ static \in BOOLEAN /\ pruning \in BOOLEAN
    /\ cursor \in Names \cup {NoName}
    /\ seen \subseteq Names /\ complete \subseteq Names /\ workers \subseteq Names
    /\ wait \in {"nothing", "page", "update"}

DiscoveryInit ==
    /\ static \in BOOLEAN
    /\ cursor = NoName /\ seen = {} /\ complete = {}
    /\ workers = {}
    /\ pruning = FALSE
    /\ wait = "nothing"

(* listPage, of StaticInputStreams and of PrefixedInputStreams. *)
PageStreams == IF static THEN Names ELSE ToSet(NotDeleted(Page(cursor)))
PageNext == IF static THEN NoName ELSE NextKey(Page(cursor), HasMore(cursor))

(* Mutant: only the page that ends the scan counts. *)
LastPageOnly == PageStreams

(* What a complete scan holds: the streams of all its pages. *)
Scanned == seen \cup PageStreams

(* discovery.next, then a worker for every new stream of the page. *)
ScanPage ==
    /\ ~pruning
    /\ changed' = IF cursor = NoName THEN {} ELSE changed
    /\ workers' = workers \cup PageStreams
    /\ cursor' = PageNext
    /\ IF PageNext # NoName
       THEN seen' = Scanned /\ wait' = "page" /\ UNCHANGED <<complete, pruning>>
       ELSE seen' = {} /\ complete' = Scanned /\ pruning' = TRUE /\ UNCHANGED wait
    /\ UNCHANGED <<listing, changes, static>>

(* The listing failed: the cursor is kept and the page retried. *)
ScanFails ==
    /\ ~pruning /\ ~static
    /\ wait' = "page"
    /\ UNCHANGED <<listingVars, static, cursor, seen, complete, workers, pruning>>

(* A worker of a stream no longer there is closed, waited for, forgotten. *)
PruneWorker(n) ==
    /\ pruning
    /\ n \in workers \ complete
    /\ workers' = workers \ {n}
    /\ UNCHANGED <<listingVars, static, cursor, seen, complete, pruning, wait>>

PruneDone ==
    /\ pruning
    /\ workers \subseteq complete
    /\ pruning' = FALSE /\ wait' = "update"
    /\ UNCHANGED <<listingVars, static, cursor, seen, complete, workers>>

DiscoveryNext ==
    \/ ScanPage \/ ScanFails \/ PruneDone
    \/ \E n \in Names : PruneWorker(n)
    \/ \E n \in Names : ListingChanges(n) /\ UNCHANGED managerVars

DiscoverySpec == ListingInit /\ DiscoveryInit /\ [][DiscoveryNext]_discoveryVars

-----------------------------------------------------------------------------
Wanted == IF static THEN Names ELSE LiveAllAlong
Unwanted == IF static THEN {} ELSE GoneAllAlong

(* A stream that is live while a scan goes through the pages keeps its     *)
(* worker, or has one when the scan is over, and a stream that is not live *)
(* all that while has none: whatever appears and disappears around it,     *)
(* however the pages are cut, and whatever page had to be retried.         *)
DiscoveryExact ==
    /\ pruning => Wanted \subseteq workers /\ Wanted \subseteq complete
    /\ wait = "update" /\ ~pruning /\ cursor = NoName =>
          Wanted \subseteq workers /\ workers \cap Unwanted = {}

=============================================================================
