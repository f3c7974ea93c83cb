-------------------------------- MODULE Pager --------------------------------
(***************************************************************************)
(* pager (s2/iterator.go) and the fetch functions of StreamsClient.Iter,   *)
(* BasinsClient.Iter and AccessTokensClient.Iter: a listing is read page   *)
(* by page, each page starting after the last name of the one before,      *)
(* while other clients create and delete what is listed.                   *)
(***************************************************************************)
EXTENDS Listing

VARIABLES
    includeDeleted,  \* IncludeDeleted, or an iterator that does not filter
    startAfter, done, values, err,     \* pager
    fetching,        \* Next is in its loop
    ended,           \* Next returned false
    yielded          \* values the caller has seen

iterVars == <<includeDeleted, startAfter, done, values, err, fetching, ended, yielded>>
pagerVars == <<listingVars, iterVars>>

PagerTypeOK ==
    /\ ListingTypeOK
    /\ startAfter \in Names \cup {NoName}
    /\ done \in BOOLEAN /\ err \in BOOLEAN /\ fetching \in BOOLEAN /\ ended \in BOOLEAN
    /\ values \in Seq(Names) /\ yielded \in Seq(Names)

PagerInit ==
    /\ includeDeleted \in BOOLEAN
    /\ startAfter = NoName
    /\ done = FALSE /\ values = <<>> /\ err = FALSE
    /\ fetching = FALSE /\ ended = FALSE
    /\ yielded = <<>>

(* Next returns: TRUE with the first of the values. *)
Deliver(vs) ==
    /\ fetching' = FALSE
    /\ ended' = (vs = <<>>)
    /\ yielded' = IF vs = <<>> THEN yielded ELSE Append(yielded, Head(vs))

(* Mutant: one page per Next, even if all of it was filtered out. *)
FetchOnePage ==
    /\ fetching
    /\ LET page == Page(startAfter)
           items == IF includeDeleted THEN page ELSE NotDeleted(page)
           next == NextKey(page, HasMore(startAfter))
       IN  /\ values' = items
           /\ done' = (done \/ next = NoName)
           /\ startAfter' = IF next = NoName THEN startAfter ELSE next
           /\ Deliver(items)
    /\ UNCHANGED <<listingVars, includeDeleted, err>>

(* Next: drop the value returned last, then fetch until there is one. *)
NextValue ==
    LET rest == IF values = <<>> THEN <<>> ELSE Tail(values)
    IN  /\ ~fetching /\ ~ended
        /\ values' = rest
        /\ IF rest = <<>> /\ ~done
           THEN fetching' = TRUE /\ UNCHANGED <<ended, yielded>>
           ELSE Deliver(rest)
        /\ UNCHANGED <<listingVars, includeDeleted, startAfter, done, err>>

(* fetch: the page, filtered unless the caller asked for everything. *)
FetchPage ==
    /\ fetching
    /\ LET page == Page(startAfter)
           items == IF includeDeleted THEN page ELSE NotDeleted(page)
           next == NextKey(page, HasMore(startAfter))
       IN  /\ values' = items
           /\ done' = (done \/ next = NoName)
           /\ startAfter' = IF next = NoName THEN startAfter ELSE next
           /\ IF items = <<>> /\ ~done'
              THEN UNCHANGED <<fetching, ended, yielded>>
              ELSE Deliver(items)
    /\ UNCHANGED <<listingVars, includeDeleted, err>>

(* The List call failed after its retries: Next is false from now on. *)
FetchFails ==
    /\ fetching
    /\ err' = TRUE
    /\ fetching' = FALSE /\ ended' = TRUE
    /\ UNCHANGED <<listingVars, includeDeleted, startAfter, done, values, yielded>>

PagerNext ==
    \/ NextValue \/ FetchPage \/ FetchFails
    \/ \E n \in Names : ~ended /\ ListingChanges(n) /\ UNCHANGED iterVars

PagerSpec == ListingInit /\ PagerInit /\ [][PagerNext]_pagerVars

-----------------------------------------------------------------------------
(* No name is returned twice or out of order, and a name that was live all *)
(* along is not skipped: it comes before every later name, and an          *)
(* iteration that ends without an error has returned it, whatever pages    *)
(* the names being deleted fall on.                                        *)
ListedExactly ==
    /\ \A i, j \in 1 .. Len(yielded) : i < j => yielded[i] < yielded[j]
    /\ \A n \in LiveAllAlong :
          \/ n \in ToSet(yielded)
          \/ \A i \in 1 .. Len(yielded) : yielded[i] < n
    /\ ended /\ ~err => LiveAllAlong \subseteq ToSet(yielded)

=============================================================================
