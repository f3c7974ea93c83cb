--------------------------- MODULE SpreadTransport ---------------------------
(***************************************************************************)
(* spreadTransport (s2/connpool.go): streaming requests are spread over    *)
(* several HTTP/2 transports per host, at most MaxSessions on each.  An    *)
(* entry whose server drains or resets streams is poisoned: it leaves the  *)
(* pool while the sessions it serves go on, and whoever sees it idle last  *)
(* closes its connection.                                                  *)
(*                                                                         *)
(* One lock guards the pool; the session count and the poisoned flag of an *)
(* entry are atomics, so every access to one of them is a step of its own. *)
(* An entry owns one connection: http2.Transport dials when a request      *)
(* finds none and CloseIdleConnections closes it only when no stream is    *)
(* open on it.  Its idle timeout (90 s) is left out.                       *)
(*                                                                         *)
(* Entries are numbered in the order of their creation, so the slice of a  *)
(* host, to which checkout appends and from which poison filters, is the   *)
(* ordered set of its entries.                                             *)
(***************************************************************************)
EXTENDS Integers, FiniteSets

CONSTANTS
    Requests,      \* the streaming requests of all sessions
    Hosts,
    MaxEntries,    \* bound on the transports created
    MaxSessions    \* maxSessionsPerConnection

ASSUME PoolAssumption ==
    /\ IsFiniteSet(Requests)
    /\ MaxEntries \in Nat
    /\ MaxSessions \in Nat \ {0}

VARIABLES
    hosts,      \* hosts[h]: the entries checkout may hand out
    created,    \* number of entries created
    sessions,   \* sessions[e]: spreadEntry.sessions
    poisoned,   \* poisoned[e]: spreadEntry.poisoned
    conn,       \* conn[e]: is the connection of e's transport open
    request,    \* request[r]: where RoundTrip, or the body's Close, is
    poisoner,   \* poisoner[r]: where r's call of poison is
    closer      \* entries CloseIdleConnections has still to visit

poolVars == <<hosts, created, sessions, poisoned, conn, request, poisoner, closer>>

Entries == 1 .. MaxEntries

(* No entry: the request has not been checked out. *)
Nobody == 0

(***************************************************************************)
(* Phases of a request:                                                    *)
(*   idle       not sent                                                   *)
(*   checkedOut counted on its entry, the transport's RoundTrip running    *)
(*   streaming  response returned, the stream is open on the connection    *)
(*   ended      the stream is over, the body not yet closed                *)
(*   releasing  about to call release                                      *)
(*   lastOut    release took the count to zero, poisoned not yet loaded    *)
(*   closing    release is about to close the idle connection              *)
(*   done                                                                  *)
(***************************************************************************)
RequestPhases == {"idle", "checkedOut", "streaming", "ended", "releasing",
                  "lastOut", "closing", "done"}

(* poison: "removed" from the pool, then the flag "flagged", then closeIdle. *)
PoisonPhases == {"none", "removed", "flagged"}

PoolTypeOK ==
    /\ hosts \in [Hosts -> SUBSET Entries]
    /\ created \in 0 .. MaxEntries
    /\ sessions \in [Entries -> Nat]
    /\ poisoned \in [Entries -> BOOLEAN]
    /\ conn \in [Entries -> BOOLEAN]
    /\ request \in [Requests -> [phase: RequestPhases, entry: Entries \cup {Nobody}]]
    /\ poisoner \in [Requests -> PoisonPhases]
    /\ closer \in SUBSET Entries

PoolInit ==
    /\ hosts = [h \in Hosts |-> {}]
    /\ created = 0
    /\ sessions = [e \in Entries |-> 0]
    /\ poisoned = [e \in Entries |-> FALSE]
    /\ conn = [e \in Entries |-> FALSE]
    /\ request = [r \in Requests |-> [phase |-> "idle", entry |-> Nobody]]
    /\ poisoner = [r \in Requests |-> "none"]
    /\ closer = {}

-----------------------------------------------------------------------------

Goto(r, phase) == request' = [request EXCEPT ![r].phase = phase]

(* The requests counted in sessions[e]. *)
HoldingPhases == {"checkedOut", "streaming", "ended", "releasing"}
Holders(e) == {r \in Requests : request[r].entry = e /\ request[r].phase \in HoldingPhases}

(* The transport of e has a stream open on its connection. *)
Busy(e) == \E r \in Requests : request[r].entry = e /\ request[r].phase = "streaming"

(* closeIdleConnections: an idle connection is closed, a busy one is not. *)
CloseIdle(e) == conn' = [conn EXCEPT ![e] = conn[e] /\ Busy(e)]

(***************************************************************************)
(* checkout, under the lock, followed by storing the poison handle: the    *)
(* first entry with room, or a new one at the end of the slice.            *)
(***************************************************************************)
HasRoom(e) == sessions[e] < MaxSessions

Roomy(h) == {e \in hosts[h] : HasRoom(e)}

Take(r, h, e) ==
    /\ hosts' = [hosts EXCEPT ![h] = @ \cup {e}]
    /\ sessions' = [sessions EXCEPT ![e] = @ + 1]
    /\ request' = [request EXCEPT ![r] = [phase |-> "checkedOut", entry |-> e]]
    /\ UNCHANGED <<poisoned, conn, poisoner, closer>>

CheckoutPooled(r, h) ==
    /\ request[r].phase = "idle"
    /\ \E e \in Roomy(h) :
          /\ \A x \in Roomy(h) : e <= x
          /\ Take(r, h, e)
    /\ UNCHANGED created

CheckoutNew(r, h) ==
    /\ request[r].phase = "idle"
    /\ Roomy(h) = {}
    /\ created < MaxEntries
    /\ created' = created + 1
    /\ Take(r, h, created + 1)

(* entry.rt.RoundTrip returned a response: it dialled if it had to. *)
RoundTripOK(r) ==
    /\ request[r].phase = "checkedOut"
    /\ conn' = [conn EXCEPT ![request[r].entry] = TRUE]
    /\ Goto(r, "streaming")
    /\ UNCHANGED <<hosts, created, sessions, poisoned, poisoner, closer>>

(* Mutant: the session of a failed round trip is not released. *)
RoundTripFailsKeeps(r) ==
    /\ request[r].phase = "checkedOut"
    /\ conn' = conn
    /\ Goto(r, "done")
    /\ UNCHANGED <<hosts, created, sessions, poisoned, poisoner, closer>>

(* ... or failed, having dialled or not: the session is released. *)
RoundTripFails(r) ==
    /\ request[r].phase = "checkedOut"
    /\ \E dialled \in BOOLEAN :
          conn' = [conn EXCEPT ![request[r].entry] = @ \/ dialled]
    /\ Goto(r, "releasing")
    /\ UNCHANGED <<hosts, created, sessions, poisoned, poisoner, closer>>

(* The server ends the stream; its body is still to be closed. *)
StreamEnds(r) ==
    /\ request[r].phase = "streaming"
    /\ Goto(r, "ended")
    /\ UNCHANGED <<hosts, created, sessions, poisoned, conn, poisoner, closer>>

(* The connection breaks, and every stream on it with it. *)
ConnectionLost(e) ==
    /\ conn[e]
    /\ conn' = [conn EXCEPT ![e] = FALSE]
    /\ request' = [r \in Requests |->
                     IF request[r].entry = e /\ request[r].phase = "streaming"
                     THEN [request[r] EXCEPT !.phase = "ended"] ELSE request[r]]
    /\ UNCHANGED <<hosts, created, sessions, poisoned, poisoner, closer>>

(* releaseOnClose.Close: the stream first, then, once, release. *)
CloseBody(r) ==
    /\ request[r].phase \in {"streaming", "ended"}
    /\ Goto(r, "releasing")
    /\ UNCHANGED <<hosts, created, sessions, poisoned, conn, poisoner, closer>>

(* release: the decrement, the load of poisoned, the closing. *)
ReleaseDecrement(r) ==
    LET e == request[r].entry
    IN  /\ request[r].phase = "releasing"
        /\ sessions' = [sessions EXCEPT ![e] = @ - 1]
        /\ Goto(r, IF sessions[e] = 1 THEN "lastOut" ELSE "done")
        /\ UNCHANGED <<hosts, created, poisoned, conn, poisoner, closer>>

ReleaseLoadPoisoned(r) ==
    /\ request[r].phase = "lastOut"
    /\ Goto(r, IF poisoned[request[r].entry] THEN "closing" ELSE "done")
    /\ UNCHANGED <<hosts, created, sessions, poisoned, conn, poisoner, closer>>

ReleaseCloseIdle(r) ==
    /\ request[r].phase = "closing"
    /\ CloseIdle(request[r].entry)
    /\ Goto(r, "done")
    /\ UNCHANGED <<hosts, created, sessions, poisoned, poisoner, closer>>

(***************************************************************************)
(* poison, by the holder of the handle stored at checkout: possibly after  *)
(* its own session was released.  Removed under the lock; only the call    *)
(* that removed the entry goes on to flag it and close its connection.     *)
(***************************************************************************)
PoisonRemove(r) ==
    LET e == request[r].entry
    IN  /\ e # Nobody
        /\ poisoner[r] = "none"
        /\ \E h \in Hosts : e \in hosts[h]
        /\ hosts' = [h \in Hosts |-> hosts[h] \ {e}]
        /\ poisoner' = [poisoner EXCEPT ![r] = "removed"]
        /\ UNCHANGED <<created, sessions, poisoned, conn, request, closer>>

(* Mutant: the entry is not flagged before its connection is looked at. *)
PoisonClosesFirst(r) ==
    /\ poisoner[r] = "removed"
    /\ CloseIdle(request[r].entry)
    /\ poisoner' = [poisoner EXCEPT ![r] = "none"]
    /\ UNCHANGED <<hosts, created, sessions, poisoned, request, closer>>

PoisonFlag(r) ==
    /\ poisoner[r] = "removed"
    /\ poisoned' = [poisoned EXCEPT ![request[r].entry] = TRUE]
    /\ poisoner' = [poisoner EXCEPT ![r] = "flagged"]
    /\ UNCHANGED <<hosts, created, sessions, conn, request, closer>>

PoisonCloseIdle(r) ==
    /\ poisoner[r] = "flagged"
    /\ CloseIdle(request[r].entry)
    /\ poisoner' = [poisoner EXCEPT ![r] = "none"]
    /\ UNCHANGED <<hosts, created, sessions, poisoned, request, closer>>

(* CloseIdleConnections: a copy of the pool under the lock, then each entry. *)
CloseIdleBegin ==
    /\ closer = {}
    /\ closer' = UNION {hosts[h] : h \in Hosts}
    /\ UNCHANGED <<hosts, created, sessions, poisoned, conn, request, poisoner>>

CloseIdleEntry(e) ==
    /\ e \in closer
    /\ CloseIdle(e)
    /\ closer' = closer \ {e}
    /\ UNCHANGED <<hosts, created, sessions, poisoned, request, poisoner>>

PoolNext ==
    \/ \E r \in Requests, h \in Hosts : CheckoutPooled(r, h) \/ CheckoutNew(r, h)
    \/ \E r \in Requests :
          \/ RoundTripOK(r) \/ RoundTripFails(r)
          \/ StreamEnds(r) \/ CloseBody(r)
          \/ ReleaseDecrement(r) \/ ReleaseLoadPoisoned(r) \/ ReleaseCloseIdle(r)
          \/ PoisonRemove(r) \/ PoisonFlag(r) \/ PoisonCloseIdle(r)
    \/ \E e \in Entries : ConnectionLost(e) \/ CloseIdleEntry(e)
    \/ CloseIdleBegin

PoolSpec == PoolInit /\ [][PoolNext]_poolVars

-----------------------------------------------------------------------------
(* The count the limit is enforced with is the number of sessions that are *)
(* really on the entry, at most MaxSessions, on every path out of a        *)
(* request: a failed round trip and a closed body release exactly once.    *)
SessionsExact ==
    \A e \in Entries : /\ sessions[e] = Cardinality(Holders(e))
                       /\ sessions[e] <= MaxSessions

(* Somebody is still bound to close the connection of e. *)
Attended(e) ==
    \/ \E h \in Hosts : e \in hosts[h]
    \/ \E r \in Requests : /\ request[r].entry = e
                           /\ \/ request[r].phase \in HoldingPhases \cup {"lastOut", "closing"}
                              \/ poisoner[r] # "none"

(* An entry that was poisoned does not leak its connection: once its last  *)
(* session is gone and no call of poison is under way on it, the           *)
(* connection is closed, whoever of them came last.                        *)
PoisonedIsClosed ==
    \A e \in Entries : conn[e] => Attended(e)

=============================================================================
