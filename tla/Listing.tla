------------------------------- MODULE Listing -------------------------------
(***************************************************************************)
(* A listing of the service, as the pages of StreamsClient.List and its    *)
(* like show it: the names that match, in ascending order, each live or    *)
(* being deleted (DeletedAt is set) until it disappears, while other       *)
(* clients create and delete.  A page holds at most Limit names after      *)
(* start_after and says whether there are more.  External, except for how  *)
(* a page is turned into items and the key of the next page.               *)
(***************************************************************************)
EXTENDS Integers, Sequences, FiniteSets, SequencesExt

CONSTANTS
    Names,      \* 1 .. n, in the order of the listing
    Limit,      \* the page size
    MaxChanges  \* bound on the changes other clients make

ASSUME ListingAssumption ==
    IsFiniteSet(Names) /\ Names \subseteq Nat \ {0} /\ Limit \in Nat \ {0} /\ MaxChanges \in Nat

VARIABLES
    listing,  \* listing[n]: absent, live or deleting
    changed,  \* names that changed since the scan began (ghost)
    changes

listingVars == <<listing, changed, changes>>

NameStates == {"absent", "live", "deleting"}

(* The empty name: start of the listing, and no next page. *)
NoName == 0

ListingTypeOK ==
    /\ listing \in [Names -> NameStates]
    /\ changed \subseteq Names
    /\ changes \in 0 .. MaxChanges

ListingInit ==
    /\ listing \in [Names -> NameStates]
    /\ changed = {}
    /\ changes = 0

(* Names that were live, or were not, since the scan began. *)
LiveAllAlong == {n \in Names \ changed : listing[n] = "live"}
GoneAllAlong == {n \in Names \ changed : listing[n] # "live"}

(* Another client creates, begins to delete, or is done deleting a name. *)
ListingChanges(n) ==
    /\ changes < MaxChanges
    /\ \E s \in NameStates \ {listing[n]} :
          /\ <<listing[n], s>> \notin {<<"absent", "deleting">>, <<"deleting", "live">>}
          /\ listing' = [listing EXCEPT ![n] = s]
    /\ changed' = changed \cup {n}
    /\ changes' = changes + 1

(* The names of a set as a sequence, in ascending order. *)
InOrder(S) ==
    CHOOSE s \in [1 .. Cardinality(S) -> S] :
        \A i, j \in 1 .. Cardinality(S) : i < j => s[i] < s[j]

(* List: the names after start_after, at most Limit. *)
After(key) == InOrder({n \in Names : n > key /\ listing[n] # "absent"})
Page(key) == LET all == After(key) IN SubSeq(all, 1, IF Len(all) < Limit THEN Len(all) ELSE Limit)
HasMore(key) == Len(After(key)) > Limit

(* The page, which is in ascending order, without the names being deleted, *)
(* and the key of the next page, which is its last name as it was listed.  *)
NotDeleted(page) == InOrder({n \in ToSet(page) : listing[n] = "live"})

NextKey(page, more) == IF more /\ page # <<>> THEN Last(page) ELSE NoName

=============================================================================
