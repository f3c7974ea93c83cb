---------------------------- MODULE Client_proofs ----------------------------
(***************************************************************************)
(* Proofs about the parts of the client, which share no state.             *)
(*                                                                         *)
(* The connection pool of connpool.go, for any finite set of requests, any *)
(* hosts and any limit of sessions per connection.                         *)
(*                                                                         *)
(* One unary call, for every number of attempts, every width of a duration,*)
(* every pair of base delays and any number of writes of other clients.    *)
(*                                                                         *)
(* Listings, for any finite set of names, any page size and any number of  *)
(* changes: the iterator and the discovery of streams.  The frame reader,  *)
(* for any number of frames, any largest frame, read chunk and first       *)
(* buffer.                                                                 *)
(***************************************************************************)
EXTENDS MCClient, FiniteSetTheorems, SequenceTheorems, WellFoundedInduction, TLAPS

-----------------------------------------------------------------------------
(***************************************************************************)
(* The connection pool.                                                    *)
(***************************************************************************)

(* checkout may hand out entry e. *)
Pooled(e) == \E h \in Hosts : e \in hosts[h]

(* An entry is known to the pool, to a request and to the network only     *)
(* after checkout created it; a request has one from its checkout on.      *)
EntriesKnown ==
    /\ \A h \in Hosts : \A e \in hosts[h] : e <= created
    /\ \A r \in Requests : request[r].entry <= created
    /\ \A r \in Requests : request[r].phase = "idle" <=> request[r].entry = Nobody
    /\ \A e \in Entries : conn[e] => e <= created

(* An entry that has left the pool is flagged, or its poisoner is about to *)
(* flag it: removal and flag are two steps of poison.                      *)
RetiredIsFlagged ==
    \A e \in Entries : e <= created =>
        \/ Pooled(e)
        \/ poisoned[e]
        \/ \E r \in Requests : request[r].entry = e /\ poisoner[r] = "removed"

(* The inductive invariant. *)
PoolInv ==
    /\ PoolTypeOK
    /\ EntriesKnown
    /\ SessionsExact
    /\ RetiredIsFlagged
    /\ PoisonedIsClosed

-----------------------------------------------------------------------------
(* Goto moves the phase of one request and nothing else. *)
LEMMA GotoFields ==
    ASSUME PoolTypeOK, NEW r \in Requests, NEW p \in RequestPhases, Goto(r, p)
    PROVE  /\ request' \in [Requests -> [phase: RequestPhases, entry: Entries \cup {Nobody}]]
           /\ request'[r].phase = p
           /\ \A x \in Requests : request'[x].entry = request[x].entry
           /\ \A x \in Requests \ {r} : request'[x] = request[x]
BY DEF Goto, PoolTypeOK

(* closeIdleConnections opens no connection, and leaves the one of its own *)
(* entry open only when a stream runs on it.                               *)
LEMMA CloseIdleFields ==
    ASSUME PoolTypeOK, NEW e, CloseIdle(e)
    PROVE  /\ conn' \in [Entries -> BOOLEAN]
           /\ \A x \in Entries : conn'[x] => conn[x] /\ (x = e => Busy(e))
<1>1. (conn[e] /\ Busy(e)) \in BOOLEAN
    BY DEF Busy
<1>2. conn' = [x \in Entries |-> IF x = e THEN conn[e] /\ Busy(e) ELSE conn[x]]
    BY DEF CloseIdle, PoolTypeOK
<1>3. \A x \in Entries : conn'[x] = IF x = e THEN conn[e] /\ Busy(e) ELSE conn[x]
    BY <1>2
<1>4. \A x \in Entries : conn'[x] \in BOOLEAN
    BY <1>1, <1>3 DEF PoolTypeOK
<1> QED BY <1>2, <1>3, <1>4

(* A failed round trip may have dialled the connection of its own entry. *)
LEMMA DialledFields ==
    ASSUME PoolTypeOK, NEW r \in Requests, RoundTripFails(r)
    PROVE  /\ conn' \in [Entries -> BOOLEAN]
           /\ \A x \in Entries : conn'[x] => conn[x] \/ x = request[r].entry
<1>1. PICK dialled \in BOOLEAN :
          conn' = [conn EXCEPT ![request[r].entry] = conn[request[r].entry] \/ dialled]
    BY DEF RoundTripFails
<1>2. conn' = [x \in Entries |-> IF x = request[r].entry THEN conn[x] \/ dialled ELSE conn[x]]
    BY <1>1 DEF PoolTypeOK
<1>3. \A x \in Entries : conn'[x] = IF x = request[r].entry THEN conn[x] \/ dialled ELSE conn[x]
    BY <1>2
<1>4. \A x \in Entries : conn'[x] \in BOOLEAN
    BY <1>3 DEF PoolTypeOK
<1> QED BY <1>2, <1>3, <1>4

(* A session about to be released is counted: release never takes the      *)
(* atomic counter of an entry below zero.                                  *)
LEMMA HeldIsCounted ==
    ASSUME PoolTypeOK, SessionsExact, NEW e \in Entries, Holders(e) # {}
    PROVE  sessions[e] >= 1
<1>1. IsFiniteSet(Holders(e))
    BY PoolAssumption, FS_Subset DEF Holders
<1>2. Cardinality(Holders(e)) \in Nat /\ Cardinality(Holders(e)) # 0
    BY <1>1, FS_CardinalityType, FS_EmptySet
<1> QED BY <1>2 DEF SessionsExact

(* Every action of the pool preserves the types of its fields. *)
LEMMA PoolTypeStep ==
    ASSUME PoolTypeOK, EntriesKnown, SessionsExact, [PoolNext]_poolVars
    PROVE  PoolTypeOK'
<1> USE PoolAssumption DEF Entries
<1>1. ASSUME NEW r \in Requests, NEW h \in Hosts, CheckoutPooled(r, h) PROVE PoolTypeOK'
    BY <1>1 DEF CheckoutPooled, Take, Roomy, PoolTypeOK, RequestPhases
<1>2. ASSUME NEW r \in Requests, NEW h \in Hosts, CheckoutNew(r, h) PROVE PoolTypeOK'
    BY <1>2 DEF CheckoutNew, Take, PoolTypeOK, RequestPhases
<1>3. ASSUME NEW r \in Requests, RoundTripOK(r) PROVE PoolTypeOK'
    BY <1>3 DEF RoundTripOK, Goto, PoolTypeOK, RequestPhases
<1>4. ASSUME NEW r \in Requests, RoundTripFails(r) PROVE PoolTypeOK'
    BY <1>4, GotoFields, DialledFields DEF RoundTripFails, PoolTypeOK, RequestPhases
<1>5. ASSUME NEW r \in Requests, StreamEnds(r) \/ CloseBody(r) PROVE PoolTypeOK'
    BY ZenonT(60), <1>5 DEF StreamEnds, CloseBody, Goto, PoolTypeOK, RequestPhases
<1>6. ASSUME NEW r \in Requests, ReleaseDecrement(r) PROVE PoolTypeOK'
    <2>1. request[r].entry \in Entries /\ r \in Holders(request[r].entry)
        BY <1>6 DEF ReleaseDecrement, EntriesKnown, Holders, HoldingPhases, PoolTypeOK, Nobody
    <2>2. sessions[request[r].entry] >= 1
        BY <2>1, HeldIsCounted
    <2>3. sessions' \in [Entries -> Nat]
        BY <1>6, <2>1, <2>2 DEF ReleaseDecrement, PoolTypeOK
    <2> QED BY <1>6, <2>3, GotoFields DEF ReleaseDecrement, PoolTypeOK, RequestPhases
<1>7. ASSUME NEW r \in Requests, ReleaseLoadPoisoned(r) PROVE PoolTypeOK'
    BY <1>7 DEF ReleaseLoadPoisoned, Goto, PoolTypeOK, RequestPhases
<1>8. ASSUME NEW r \in Requests, ReleaseCloseIdle(r) PROVE PoolTypeOK'
    <2>1. request' \in [Requests -> [phase: RequestPhases, entry: Entries \cup {Nobody}]]
        BY <1>8, GotoFields DEF ReleaseCloseIdle, RequestPhases
    <2>2. conn' \in [Entries -> BOOLEAN]
        BY <1>8, CloseIdleFields DEF ReleaseCloseIdle
    <2> QED BY <1>8, <2>1, <2>2 DEF ReleaseCloseIdle, PoolTypeOK
<1>9. ASSUME NEW r \in Requests, PoisonRemove(r) \/ PoisonFlag(r) PROVE PoolTypeOK'
    <2>1. CASE PoisonRemove(r)
        BY <2>1 DEF PoisonRemove, PoolTypeOK, PoisonPhases
    <2>2. CASE PoisonFlag(r)
        BY <2>2 DEF PoisonFlag, PoolTypeOK, PoisonPhases
    <2> QED BY <1>9, <2>1, <2>2
<1>10. ASSUME NEW r \in Requests, PoisonCloseIdle(r) PROVE PoolTypeOK'
    BY <1>10, CloseIdleFields DEF PoisonCloseIdle, PoolTypeOK, PoisonPhases
<1>11. ASSUME NEW e \in Entries, ConnectionLost(e) PROVE PoolTypeOK'
    BY <1>11 DEF ConnectionLost, PoolTypeOK, RequestPhases
<1>12. ASSUME NEW e \in Entries, CloseIdleEntry(e) PROVE PoolTypeOK'
    BY <1>12, CloseIdleFields DEF CloseIdleEntry, PoolTypeOK
<1>13. CASE CloseIdleBegin
    BY <1>13 DEF CloseIdleBegin, PoolTypeOK
<1>14. CASE UNCHANGED poolVars
    BY <1>14 DEF poolVars, PoolTypeOK
<1> QED BY <1>1, <1>2, <1>3, <1>4, <1>5, <1>6, <1>7, <1>8, <1>9, <1>10, <1>11, <1>12,
           <1>13, <1>14 DEF PoolNext

(* Taking an entry that exists keeps the entries known. *)
LEMMA TakeKnown ==
    ASSUME PoolTypeOK, EntriesKnown,
           NEW r \in Requests, NEW h \in Hosts, NEW e \in Entries, Take(r, h, e),
           created' \in Nat, created <= created', e <= created'
    PROVE  EntriesKnown'
<1>1. hosts' = [hosts EXCEPT ![h] = hosts[h] \cup {e}] /\ UNCHANGED conn
    BY DEF Take
<1>2. /\ request'[r].phase = "checkedOut" /\ request'[r].entry = e
      /\ \A x \in Requests \ {r} : request'[x] = request[x]
    BY DEF Take, PoolTypeOK
<1>3. e # Nobody /\ e \in Nat /\ created \in Nat
    BY DEF Entries, Nobody, PoolTypeOK
<1>4. \A k \in Hosts : \A x \in hosts'[k] : x <= created'
    <2> SUFFICES ASSUME NEW k \in Hosts, NEW x \in hosts'[k] PROVE x <= created'
        OBVIOUS
    <2>1. CASE x \in hosts[k]
        BY <1>3, <2>1 DEF EntriesKnown, PoolTypeOK, Entries
    <2> QED BY <1>1, <2>1 DEF PoolTypeOK
<1>5. \A x \in Requests : request[x].entry \in Nat
    BY DEF PoolTypeOK, Entries, Nobody
<1> QED BY <1>1, <1>2, <1>3, <1>4, <1>5 DEF EntriesKnown, Entries

(* So does moving a request that has an entry on to its next phase. *)
LEMMA MovedKnown ==
    ASSUME PoolTypeOK, EntriesKnown,
           NEW r \in Requests, NEW p \in RequestPhases, Goto(r, p),
           request[r].phase # "idle", p # "idle", UNCHANGED <<hosts, created>>,
           \A x \in Entries : conn'[x] => conn[x] \/ x = request[r].entry
    PROVE  EntriesKnown'
<1>1. \A x \in Requests : request'[x].entry = request[x].entry
    BY GotoFields
<1>2. \A x \in Requests : request'[x].phase = "idle" <=> request[x].phase = "idle"
    BY GotoFields
<1> QED BY <1>1, <1>2 DEF EntriesKnown

(* Every action leaves uncreated entries unknown. *)
LEMMA EntriesKnownStep ==
    ASSUME PoolTypeOK, EntriesKnown, [PoolNext]_poolVars
    PROVE  EntriesKnown'
<1> USE PoolAssumption DEF Entries, EntriesKnown, Nobody
<1>1. ASSUME NEW r \in Requests, NEW h \in Hosts, CheckoutPooled(r, h) PROVE EntriesKnown'
    <2>1. PICK e \in hosts[h] : Take(r, h, e) /\ UNCHANGED created
        BY <1>1 DEF CheckoutPooled, Roomy
    <2>2. e \in Entries /\ e <= created
        BY DEF PoolTypeOK
    <2> QED BY <2>1, <2>2, TakeKnown DEF PoolTypeOK
<1>2. ASSUME NEW r \in Requests, NEW h \in Hosts, CheckoutNew(r, h) PROVE EntriesKnown'
    <2>1. /\ Take(r, h, created + 1) /\ created' = created + 1 /\ created < MaxEntries
          /\ created \in 0 .. MaxEntries
        BY <1>2 DEF CheckoutNew, PoolTypeOK
    <2>2. created + 1 \in Entries /\ created' \in Nat /\ created <= created' /\ created + 1 <= created'
        BY <2>1
    <2> HIDE DEF Entries, EntriesKnown, Nobody
    <2> QED BY <2>1, <2>2, TakeKnown
<1>3. ASSUME NEW r \in Requests, RoundTripOK(r) PROVE EntriesKnown'
    BY <1>3, MovedKnown DEF RoundTripOK, PoolTypeOK, RequestPhases
<1>4. ASSUME NEW r \in Requests, RoundTripFails(r) PROVE EntriesKnown'
    BY <1>4, MovedKnown, DialledFields DEF RoundTripFails, RequestPhases
<1>5. ASSUME NEW r \in Requests, StreamEnds(r) \/ CloseBody(r) PROVE EntriesKnown'
    BY <1>5, MovedKnown DEF StreamEnds, CloseBody, RequestPhases
<1>6. ASSUME NEW r \in Requests, ReleaseDecrement(r) \/ ReleaseLoadPoisoned(r)
      PROVE  EntriesKnown'
    BY <1>6, MovedKnown DEF ReleaseDecrement, ReleaseLoadPoisoned, RequestPhases
<1>7. ASSUME NEW r \in Requests, ReleaseCloseIdle(r) PROVE EntriesKnown'
    BY <1>7, MovedKnown, CloseIdleFields DEF ReleaseCloseIdle, RequestPhases
<1>8. ASSUME NEW r \in Requests, PoisonRemove(r) \/ PoisonFlag(r) PROVE EntriesKnown'
    BY <1>8 DEF PoisonRemove, PoisonFlag, PoolTypeOK
<1>9. ASSUME NEW r \in Requests, PoisonCloseIdle(r) PROVE EntriesKnown'
    BY <1>9, CloseIdleFields DEF PoisonCloseIdle, PoolTypeOK
<1>10. ASSUME NEW e \in Entries, ConnectionLost(e) PROVE EntriesKnown'
    BY <1>10 DEF ConnectionLost, PoolTypeOK
<1>11. ASSUME NEW e \in Entries, CloseIdleEntry(e) PROVE EntriesKnown'
    BY <1>11, CloseIdleFields DEF CloseIdleEntry, PoolTypeOK
<1>12. CASE CloseIdleBegin
    BY <1>12 DEF CloseIdleBegin
<1>13. CASE UNCHANGED poolVars
    BY <1>13 DEF poolVars
<1> QED BY <1>1, <1>2, <1>3, <1>4, <1>5, <1>6, <1>7, <1>8, <1>9, <1>10, <1>11, <1>12,
           <1>13 DEF PoolNext

-----------------------------------------------------------------------------
(* Moving a request between two phases that hold its entry, or between two *)
(* that do not, changes no set of holders.                                 *)
LEMMA MovedHolders ==
    ASSUME PoolTypeOK, NEW r \in Requests, NEW p \in RequestPhases, Goto(r, p),
           request[r].phase \in HoldingPhases <=> p \in HoldingPhases,
           NEW e \in Entries
    PROVE  Holders(e)' = Holders(e)
<1>1. \A x \in Requests : request'[x].entry = request[x].entry
    BY GotoFields
<1>2. \A x \in Requests : request'[x].phase \in HoldingPhases <=> request[x].phase \in HoldingPhases
    BY GotoFields
<1> QED BY <1>1, <1>2 DEF Holders

(* How one step changes who holds entry e together with its counter: the   *)
(* only facts about the actions that the account of the sessions needs.    *)
LEMMA HoldersStep ==
    ASSUME PoolTypeOK, EntriesKnown, [PoolNext]_poolVars, NEW e \in Entries
    PROVE  \/ Holders(e)' = Holders(e) /\ sessions'[e] = sessions[e]
           \/ \E r \in Requests :
                 /\ r \notin Holders(e) /\ Holders(e)' = Holders(e) \cup {r}
                 /\ sessions'[e] = sessions[e] + 1
                 /\ sessions[e] < MaxSessions \/ e > created
           \/ \E r \in Requests :
                 /\ r \in Holders(e) /\ Holders(e)' = Holders(e) \ {r}
                 /\ sessions'[e] = sessions[e] - 1
<1> DEFINE Same == Holders(e)' = Holders(e) /\ sessions'[e] = sessions[e]
           Gained(r) == /\ r \notin Holders(e) /\ Holders(e)' = Holders(e) \cup {r}
                        /\ sessions'[e] = sessions[e] + 1
                        /\ sessions[e] < MaxSessions \/ e > created
           Lost(r) == /\ r \in Holders(e) /\ Holders(e)' = Holders(e) \ {r}
                      /\ sessions'[e] = sessions[e] - 1
<1>t. ASSUME NEW r \in Requests, NEW h \in Hosts, NEW x \in Entries, Take(r, h, x),
             request[r].phase = "idle", HasRoom(x) \/ x > created
      PROVE  Same \/ Gained(r)
    <2>1. /\ request'[r].phase = "checkedOut" /\ request'[r].entry = x
          /\ \A y \in Requests \ {r} : request'[y] = request[y]
        BY <1>t DEF Take, PoolTypeOK
    <2>2. r \notin Holders(e)
        BY <1>t DEF Holders, HoldingPhases
    <2>3. CASE x = e
        <3>1. Holders(e)' = Holders(e) \cup {r}
            BY <2>1, <2>3 DEF Holders, HoldingPhases
        <3> QED BY <1>t, <2>2, <2>3, <3>1 DEF Take, HasRoom, PoolTypeOK
    <2>4. CASE x # e
        <3>1. Holders(e)' = Holders(e)
            BY <2>1, <2>2, <2>4 DEF Holders
        <3> QED BY <1>t, <2>4, <3>1 DEF Take, PoolTypeOK
    <2> QED BY <2>3, <2>4
<1>1. ASSUME NEW r \in Requests, NEW h \in Hosts, CheckoutPooled(r, h)
      PROVE  Same \/ Gained(r)
    <2>1. PICK x \in Roomy(h) : Take(r, h, x)
        BY <1>1 DEF CheckoutPooled
    <2>2. x \in Entries /\ HasRoom(x) /\ request[r].phase = "idle"
        BY <1>1 DEF CheckoutPooled, Roomy, PoolTypeOK
    <2> QED BY <1>t, <2>1, <2>2
<1>2. ASSUME NEW r \in Requests, NEW h \in Hosts, CheckoutNew(r, h)
      PROVE  Same \/ Gained(r)
    <2>1. created + 1 \in Entries /\ created + 1 > created
        BY <1>2, PoolAssumption DEF CheckoutNew, PoolTypeOK, Entries
    <2> QED BY <1>2, <1>t, <2>1 DEF CheckoutNew
<1>3. ASSUME NEW r \in Requests, RoundTripOK(r) \/ RoundTripFails(r) PROVE Same
    BY <1>3, MovedHolders DEF RoundTripOK, RoundTripFails, RequestPhases, HoldingPhases
<1>4. ASSUME NEW r \in Requests, StreamEnds(r) \/ CloseBody(r) PROVE Same
    BY <1>4, MovedHolders DEF StreamEnds, CloseBody, RequestPhases, HoldingPhases
<1>5. ASSUME NEW r \in Requests, ReleaseDecrement(r) PROVE Same \/ Lost(r)
    <2>1. PICK p \in {"lastOut", "done"} : Goto(r, p)
        BY <1>5 DEF ReleaseDecrement
    <2>2. /\ request'[r].phase \notin HoldingPhases /\ request[r].phase \in HoldingPhases
          /\ \A y \in Requests : request'[y].entry = request[y].entry
          /\ \A y \in Requests \ {r} : request'[y] = request[y]
        BY <1>5, <2>1, GotoFields DEF ReleaseDecrement, RequestPhases, HoldingPhases
    <2>3. CASE request[r].entry = e
        BY <1>5, <2>2, <2>3 DEF ReleaseDecrement, Holders, PoolTypeOK
    <2>4. CASE request[r].entry # e
        BY <1>5, <2>2, <2>4 DEF ReleaseDecrement, Holders, PoolTypeOK
    <2> QED BY <2>3, <2>4
<1>6. ASSUME NEW r \in Requests, ReleaseLoadPoisoned(r) \/ ReleaseCloseIdle(r) PROVE Same
    BY <1>6, MovedHolders
    DEF ReleaseLoadPoisoned, ReleaseCloseIdle, RequestPhases, HoldingPhases
<1>7. ASSUME NEW r \in Requests, PoisonRemove(r) \/ PoisonFlag(r) \/ PoisonCloseIdle(r)
      PROVE  Same
    BY <1>7 DEF PoisonRemove, PoisonFlag, PoisonCloseIdle, Holders
<1>8. ASSUME NEW x \in Entries, ConnectionLost(x) PROVE Same
    BY <1>8 DEF ConnectionLost, Holders, HoldingPhases, PoolTypeOK
<1>9. ASSUME NEW x \in Entries, CloseIdleEntry(x) PROVE Same
    BY <1>9 DEF CloseIdleEntry, Holders
<1>10. CASE CloseIdleBegin
    BY <1>10 DEF CloseIdleBegin, Holders
<1>11. CASE UNCHANGED poolVars
    BY <1>11 DEF poolVars, Holders
<1> QED BY <1>1, <1>2, <1>3, <1>4, <1>5, <1>6, <1>7, <1>8, <1>9, <1>10, <1>11 DEF PoolNext

(* Every step keeps the counter of every entry equal to its holders and    *)
(* within the limit.                                                       *)
LEMMA SessionsExactStep ==
    ASSUME PoolTypeOK, EntriesKnown, SessionsExact, [PoolNext]_poolVars
    PROVE  SessionsExact'
<1> SUFFICES ASSUME NEW e \in Entries
             PROVE  sessions'[e] = Cardinality(Holders(e)') /\ sessions'[e] <= MaxSessions
    BY DEF SessionsExact
<1>0. IsFiniteSet(Holders(e)) /\ Cardinality(Holders(e)) \in Nat
    BY PoolAssumption, FS_Subset, FS_CardinalityType DEF Holders
<1>1. sessions[e] = Cardinality(Holders(e)) /\ sessions[e] <= MaxSessions
    BY DEF SessionsExact
<1>2. CASE Holders(e)' = Holders(e) /\ sessions'[e] = sessions[e]
    BY <1>1, <1>2
<1>3. ASSUME NEW r \in Requests, r \notin Holders(e), Holders(e)' = Holders(e) \cup {r},
             sessions'[e] = sessions[e] + 1, sessions[e] < MaxSessions \/ e > created
      PROVE  sessions'[e] = Cardinality(Holders(e)') /\ sessions'[e] <= MaxSessions
    <2>1. Cardinality(Holders(e)') = Cardinality(Holders(e)) + 1
        BY <1>0, <1>3, FS_AddElement
    <2>2. ASSUME e > created PROVE sessions[e] = 0
        <3>1. Holders(e) = {}
            BY <2>2 DEF EntriesKnown, Holders, PoolTypeOK, Entries
        <3> QED BY <3>1, <1>1, FS_EmptySet
    <2> QED BY <1>0, <1>1, <1>3, <2>1, <2>2, PoolAssumption
<1>4. ASSUME NEW r \in Requests, r \in Holders(e), Holders(e)' = Holders(e) \ {r},
             sessions'[e] = sessions[e] - 1
      PROVE  sessions'[e] = Cardinality(Holders(e)') /\ sessions'[e] <= MaxSessions
    <2>1. Cardinality(Holders(e)') = Cardinality(Holders(e)) - 1
        BY <1>0, <1>4, FS_RemoveElement
    <2> QED BY <1>0, <1>1, <1>4, <2>1, PoolAssumption
<1> QED BY <1>2, <1>3, <1>4, HoldersStep

-----------------------------------------------------------------------------
(* Every step keeps the retired entries flagged or about to be flagged.    *)
LEMMA RetiredIsFlaggedStep ==
    ASSUME PoolTypeOK, EntriesKnown, RetiredIsFlagged, [PoolNext]_poolVars
    PROVE  RetiredIsFlagged'
<1> DEFINE Removing(x) == \E r \in Requests : request[r].entry = x /\ poisoner[r] = "removed"
<1> SUFFICES ASSUME NEW x \in Entries, x <= created'
             PROVE  (Pooled(x) \/ poisoned[x] \/ Removing(x))'
    BY DEF RetiredIsFlagged
<1>0. x <= created => Pooled(x) \/ poisoned[x] \/ Removing(x)
    BY DEF RetiredIsFlagged
<1> HIDE DEF Removing
<1>t. ASSUME NEW r \in Requests, NEW h \in Hosts, NEW e \in Entries, Take(r, h, e),
             request[r].phase = "idle", x <= created \/ x = e
      PROVE  (Pooled(x) \/ poisoned[x] \/ Removing(x))'
    <2>1. \A y \in Requests \ {r} : request'[y] = request[y]
        BY <1>t DEF Take, PoolTypeOK
    <2>2. request[r].entry # x
        BY <1>t DEF EntriesKnown, Entries, Nobody
    <2>3. Removing(x) => Removing(x)'
        BY <1>t, <2>1, <2>2 DEF Removing, Take
    <2>4. Pooled(x) \/ x = e => Pooled(x)'
        BY <1>t DEF Take, Pooled, PoolTypeOK
    <2>5. poisoned' = poisoned
        BY <1>t DEF Take
    <2> QED BY <1>0, <1>t, <2>3, <2>4, <2>5
<1>1. ASSUME NEW r \in Requests, NEW h \in Hosts, CheckoutPooled(r, h)
      PROVE  (Pooled(x) \/ poisoned[x] \/ Removing(x))'
    <2>1. PICK e \in Roomy(h) : Take(r, h, e)
        BY <1>1 DEF CheckoutPooled
    <2>2. e \in Entries /\ x <= created /\ request[r].phase = "idle"
        BY <1>1 DEF CheckoutPooled, Roomy, PoolTypeOK
    <2> QED BY <1>t, <2>1, <2>2
<1>2. ASSUME NEW r \in Requests, NEW h \in Hosts, CheckoutNew(r, h)
      PROVE  (Pooled(x) \/ poisoned[x] \/ Removing(x))'
    <2>1. created + 1 \in Entries /\ (x <= created \/ x = created + 1)
        BY <1>2, PoolAssumption DEF CheckoutNew, PoolTypeOK, Entries
    <2> QED BY <1>2, <1>t, <2>1 DEF CheckoutNew
<1>m. ASSUME NEW r \in Requests, NEW p \in RequestPhases, Goto(r, p),
             UNCHANGED <<hosts, created, poisoned, poisoner>>
      PROVE  (Pooled(x) \/ poisoned[x] \/ Removing(x))'
    <2>1. \A y \in Requests : request'[y].entry = request[y].entry
        BY <1>m, GotoFields
    <2> QED BY <1>0, <1>m, <2>1 DEF Pooled, Removing
<1>3. ASSUME NEW r \in Requests, RoundTripOK(r) \/ RoundTripFails(r) \/ StreamEnds(r) \/ CloseBody(r)
      PROVE  (Pooled(x) \/ poisoned[x] \/ Removing(x))'
    BY <1>3, <1>m DEF RoundTripOK, RoundTripFails, StreamEnds, CloseBody, RequestPhases
<1>4. ASSUME NEW r \in Requests,
             ReleaseDecrement(r) \/ ReleaseLoadPoisoned(r) \/ ReleaseCloseIdle(r)
      PROVE  (Pooled(x) \/ poisoned[x] \/ Removing(x))'
    BY <1>4, <1>m DEF ReleaseDecrement, ReleaseLoadPoisoned, ReleaseCloseIdle, RequestPhases
<1>5. ASSUME NEW r \in Requests, PoisonRemove(r)
      PROVE  (Pooled(x) \/ poisoned[x] \/ Removing(x))'
    <2>1. Removing(x) => Removing(x)'
        BY <1>5 DEF PoisonRemove, Removing, PoolTypeOK
    <2>2. CASE request[r].entry = x
        BY <1>5, <2>2 DEF PoisonRemove, Removing, PoolTypeOK
    <2>3. CASE request[r].entry # x
        <3>1. Pooled(x) => Pooled(x)'
            BY <1>5, <2>3 DEF PoisonRemove, Pooled, PoolTypeOK
        <3> QED BY <1>0, <1>5, <2>1, <3>1 DEF PoisonRemove
    <2> QED BY <2>2, <2>3
<1>6. ASSUME NEW r \in Requests, PoisonFlag(r)
      PROVE  (Pooled(x) \/ poisoned[x] \/ Removing(x))'
    <2>1. CASE request[r].entry = x
        BY <1>6, <2>1 DEF PoisonFlag, PoolTypeOK
    <2>2. CASE request[r].entry # x
        <3>1. Removing(x) => Removing(x)'
            BY <1>6, <2>2 DEF PoisonFlag, Removing, PoolTypeOK
        <3>2. poisoned[x] => poisoned'[x]
            BY <1>6, <2>2 DEF PoisonFlag, PoolTypeOK
        <3> QED BY <1>0, <1>6, <3>1, <3>2 DEF PoisonFlag, Pooled
    <2> QED BY <2>1, <2>2
<1>7. ASSUME NEW r \in Requests, PoisonCloseIdle(r)
      PROVE  (Pooled(x) \/ poisoned[x] \/ Removing(x))'
    BY <1>0, <1>7 DEF PoisonCloseIdle, Removing, Pooled, PoolTypeOK
<1>8. ASSUME NEW e \in Entries, ConnectionLost(e)
      PROVE  (Pooled(x) \/ poisoned[x] \/ Removing(x))'
    BY <1>0, <1>8 DEF ConnectionLost, Removing, Pooled, PoolTypeOK
<1>9. ASSUME NEW e \in Entries, CloseIdleEntry(e)
      PROVE  (Pooled(x) \/ poisoned[x] \/ Removing(x))'
    BY <1>0, <1>9 DEF CloseIdleEntry, Removing, Pooled
<1>10. CASE CloseIdleBegin
    BY <1>0, <1>10 DEF CloseIdleBegin, Removing, Pooled
<1>11. CASE UNCHANGED poolVars
    BY <1>0, <1>11 DEF poolVars, Removing, Pooled
<1> QED BY <1>1, <1>2, <1>3, <1>4, <1>5, <1>6, <1>7, <1>8, <1>9, <1>10, <1>11 DEF PoolNext

(* The phases in which a request is still bound to look at its connection. *)
MindfulPhases == HoldingPhases \cup {"lastOut", "closing"}

(* Moving a request between mindful phases leaves nobody unattended. *)
LEMMA MovedAttended ==
    ASSUME PoolTypeOK, NEW r \in Requests, NEW p \in MindfulPhases, Goto(r, p),
           UNCHANGED <<hosts, poisoner>>, NEW e \in Entries
    PROVE  Attended(e) \/ e = request[r].entry => Attended(e)'
<1>1. /\ request'[r].phase = p
      /\ \A x \in Requests : request'[x].entry = request[x].entry
      /\ \A x \in Requests \ {r} : request'[x] = request[x]
    BY GotoFields DEF MindfulPhases, HoldingPhases, RequestPhases
<1>2. CASE e = request[r].entry
    BY <1>1, <1>2 DEF Attended, MindfulPhases
<1>3. CASE e # request[r].entry
    BY <1>1, <1>3 DEF Attended
<1> QED BY <1>2, <1>3

(* A request that leaves for good disturbs the entry it used, no other.    *)
LEMMA DoneAttended ==
    ASSUME PoolTypeOK, NEW r \in Requests, Goto(r, "done"), UNCHANGED <<hosts, poisoner>>,
           NEW e \in Entries, Attended(e)
    PROVE  \/ Attended(e)'
           \/ e = request[r].entry /\ request[r].phase \in MindfulPhases
<1>1. /\ \A x \in Requests : request'[x].entry = request[x].entry
      /\ \A x \in Requests \ {r} : request'[x] = request[x]
    BY GotoFields DEF RequestPhases
<1> QED BY <1>1 DEF Attended, MindfulPhases

(* No step abandons an open connection: the last of release, poison and    *)
(* CloseIdleConnections to touch a retired entry closes it.                *)
LEMMA PoisonedIsClosedStep ==
    ASSUME PoolTypeOK, EntriesKnown, SessionsExact, RetiredIsFlagged, PoisonedIsClosed,
           [PoolNext]_poolVars
    PROVE  PoisonedIsClosed'
<1> SUFFICES ASSUME NEW e \in Entries, conn'[e] PROVE Attended(e)'
    BY DEF PoisonedIsClosed
<1>0. conn[e] => Attended(e)
    BY DEF PoisonedIsClosed
<1>b. Busy(e) => \E y \in Requests : request[y].entry = e /\ request[y].phase = "streaming"
    BY DEF Busy
<1>t. ASSUME NEW r \in Requests, NEW h \in Hosts, NEW x \in Entries, Take(r, h, x),
             request[r].phase = "idle"
      PROVE  Attended(e)'
    <2>1. /\ conn' = conn /\ poisoner' = poisoner
          /\ \A y \in Requests \ {r} : request'[y] = request[y]
        BY <1>t DEF Take, PoolTypeOK
    <2>2. request[r].entry # e
        BY <1>t DEF EntriesKnown, Entries, Nobody
    <2>3. (\E k \in Hosts : e \in hosts[k]) => (\E k \in Hosts : e \in hosts'[k])
        BY <1>t DEF Take, PoolTypeOK
    <2> QED BY <1>0, <2>1, <2>2, <2>3 DEF Attended
<1>1. ASSUME NEW r \in Requests, NEW h \in Hosts, CheckoutPooled(r, h) PROVE Attended(e)'
    <2>1. PICK x \in Roomy(h) : Take(r, h, x)
        BY <1>1 DEF CheckoutPooled
    <2> QED BY <1>1, <1>t, <2>1 DEF CheckoutPooled, Roomy, PoolTypeOK
<1>2. ASSUME NEW r \in Requests, NEW h \in Hosts, CheckoutNew(r, h) PROVE Attended(e)'
    <2>1. created + 1 \in Entries
        BY <1>2, PoolAssumption DEF CheckoutNew, PoolTypeOK, Entries
    <2> QED BY <1>2, <1>t, <2>1 DEF CheckoutNew
<1>3. ASSUME NEW r \in Requests, RoundTripOK(r) PROVE Attended(e)'
    <2>1. conn[e] \/ e = request[r].entry
        BY <1>3 DEF RoundTripOK, PoolTypeOK
    <2> QED BY <1>0, <1>3, <2>1, MovedAttended DEF RoundTripOK, MindfulPhases, HoldingPhases
<1>4. ASSUME NEW r \in Requests, RoundTripFails(r) PROVE Attended(e)'
    <2>1. conn[e] \/ e = request[r].entry
        BY <1>4, DialledFields
    <2> QED BY <1>0, <1>4, <2>1, MovedAttended DEF RoundTripFails, MindfulPhases, HoldingPhases
<1>5. ASSUME NEW r \in Requests, StreamEnds(r) \/ CloseBody(r) PROVE Attended(e)'
    BY <1>0, <1>5, MovedAttended DEF StreamEnds, CloseBody, MindfulPhases, HoldingPhases
<1>6. ASSUME NEW r \in Requests, ReleaseDecrement(r) PROVE Attended(e)'
    <2>1. CASE sessions[request[r].entry] = 1
        BY <1>0, <1>6, <2>1, MovedAttended DEF ReleaseDecrement, MindfulPhases, HoldingPhases
    <2>2. CASE sessions[request[r].entry] # 1
        <3>1. Goto(r, "done") /\ UNCHANGED <<hosts, poisoner, conn>>
            BY <1>6, <2>2 DEF ReleaseDecrement
        <3>2. CASE e # request[r].entry
            BY <1>0, <3>1, <3>2, DoneAttended
        <3>3. CASE e = request[r].entry
            <4>1. r \in Holders(e) /\ IsFiniteSet(Holders(e))
                BY <1>6, <3>3, PoolAssumption, FS_Subset
                DEF ReleaseDecrement, Holders, HoldingPhases
            <4>2. Holders(e) # {r}
                BY <2>2, <3>3, FS_Singleton DEF SessionsExact
            <4>3. PICK y \in Holders(e) : y # r
                BY <4>1, <4>2
            <4>4. y \in Requests /\ request'[y] = request[y]
                BY <3>1, <4>3, GotoFields DEF Holders, RequestPhases
            <4> QED BY <4>3, <4>4 DEF Holders, Attended
        <3> QED BY <3>2, <3>3
    <2> QED BY <2>1, <2>2
<1>7. ASSUME NEW r \in Requests, ReleaseLoadPoisoned(r) PROVE Attended(e)'
    <2>1. CASE poisoned[request[r].entry]
        BY <1>0, <1>7, <2>1, MovedAttended DEF ReleaseLoadPoisoned, MindfulPhases
    <2>2. CASE ~poisoned[request[r].entry]
        <3>1. /\ Goto(r, "done") /\ UNCHANGED <<hosts, poisoner, conn>>
              /\ request[r].phase = "lastOut"
            BY <1>7, <2>2 DEF ReleaseLoadPoisoned
        <3>2. CASE e # request[r].entry
            BY <1>0, <3>1, <3>2, DoneAttended
        <3>3. CASE e = request[r].entry
            <4>1. e <= created
                BY <3>3 DEF EntriesKnown
            <4>2. \/ Pooled(e)
                  \/ \E y \in Requests : request[y].entry = e /\ poisoner[y] = "removed"
                BY <2>2, <3>3, <4>1 DEF RetiredIsFlagged
            <4>3. \A y \in Requests : request'[y].entry = request[y].entry
                BY <3>1, GotoFields DEF RequestPhases
            <4> QED BY <3>1, <4>2, <4>3 DEF Attended, Pooled
        <3> QED BY <3>2, <3>3
    <2> QED BY <2>1, <2>2
<1>8. ASSUME NEW r \in Requests, ReleaseCloseIdle(r) PROVE Attended(e)'
    <2>1. /\ Goto(r, "done") /\ UNCHANGED <<hosts, poisoner>>
          /\ CloseIdle(request[r].entry) /\ request[r].phase = "closing"
        BY <1>8 DEF ReleaseCloseIdle
    <2>2. conn[e] /\ (e = request[r].entry => Busy(e))
        BY <2>1, CloseIdleFields
    <2>3. CASE e # request[r].entry
        BY <1>0, <2>1, <2>2, <2>3, DoneAttended
    <2>4. CASE e = request[r].entry
        <3>1. PICK y \in Requests : request[y].entry = e /\ request[y].phase = "streaming"
            BY <1>b, <2>2, <2>4
        <3>2. request'[y] = request[y]
            BY <2>1, <3>1, GotoFields DEF RequestPhases
        <3> QED BY <3>1, <3>2 DEF Attended, HoldingPhases
    <2> QED BY <2>3, <2>4
<1>9. ASSUME NEW r \in Requests, PoisonRemove(r) PROVE Attended(e)'
    <2>1. CASE e = request[r].entry
        BY <1>9, <2>1 DEF PoisonRemove, Attended, PoolTypeOK
    <2>2. CASE e # request[r].entry
        BY <1>0, <1>9, <2>2 DEF PoisonRemove, Attended, PoolTypeOK
    <2> QED BY <2>1, <2>2
<1>10. ASSUME NEW r \in Requests, PoisonFlag(r) PROVE Attended(e)'
    BY <1>0, <1>10 DEF PoisonFlag, Attended, PoolTypeOK
<1>11. ASSUME NEW r \in Requests, PoisonCloseIdle(r) PROVE Attended(e)'
    <2>1. conn[e] /\ (e = request[r].entry => Busy(e))
        BY <1>11, CloseIdleFields DEF PoisonCloseIdle
    <2>2. CASE e # request[r].entry
        BY <1>0, <1>11, <2>1, <2>2 DEF PoisonCloseIdle, Attended, PoolTypeOK
    <2>3. CASE e = request[r].entry
        BY <1>11, <1>b, <2>1, <2>3 DEF PoisonCloseIdle, Attended, HoldingPhases
    <2> QED BY <2>2, <2>3
<1>12. ASSUME NEW x \in Entries, ConnectionLost(x) PROVE Attended(e)'
    <2>1. conn[e]
        BY <1>12 DEF ConnectionLost, PoolTypeOK
    <2> QED BY <1>0, <1>12, <2>1 DEF ConnectionLost, Attended, HoldingPhases, PoolTypeOK
<1>13. ASSUME NEW x \in Entries, CloseIdleEntry(x) PROVE Attended(e)'
    <2>1. conn[e]
        BY <1>13, CloseIdleFields DEF CloseIdleEntry
    <2> QED BY <1>0, <1>13, <2>1 DEF CloseIdleEntry, Attended
<1>14. CASE CloseIdleBegin
    BY <1>0, <1>14 DEF CloseIdleBegin, Attended
<1>15. CASE UNCHANGED poolVars
    BY <1>0, <1>15 DEF poolVars, Attended
<1> QED BY <1>1, <1>2, <1>3, <1>4, <1>5, <1>6, <1>7, <1>8, <1>9, <1>10, <1>11, <1>12,
           <1>13, <1>14, <1>15 DEF PoolNext

-----------------------------------------------------------------------------
(* The invariant of the pool is inductive. *)
LEMMA PoolInvariant == PoolSpec => []PoolInv
<1>1. PoolInit => PoolInv
    <2> SUFFICES ASSUME PoolInit PROVE PoolInv
        OBVIOUS
    <2>1. PoolTypeOK
        BY PoolAssumption DEF PoolInit, PoolTypeOK, RequestPhases, PoisonPhases, Nobody
    <2>2. \A e \in Entries : Holders(e) = {}
        BY DEF PoolInit, Holders, HoldingPhases
    <2>3. SessionsExact
        BY SMTT(40), <2>2, FS_EmptySet, PoolAssumption DEF PoolInit, SessionsExact
    <2>4. EntriesKnown /\ PoisonedIsClosed
        BY DEF PoolInit, EntriesKnown, PoisonedIsClosed, Nobody
    <2>5. RetiredIsFlagged
        BY DEF PoolInit, RetiredIsFlagged, Entries
    <2> QED BY <2>1, <2>3, <2>4, <2>5 DEF PoolInv
<1>2. PoolInv /\ [PoolNext]_poolVars => PoolInv'
    BY PoolTypeStep, EntriesKnownStep, SessionsExactStep, RetiredIsFlaggedStep,
       PoisonedIsClosedStep DEF PoolInv
<1> QED BY <1>1, <1>2, PTL DEF PoolSpec

(* The fields of spreadTransport and of its entries have their types; in   *)
(* particular no release takes the session count of an entry below zero.   *)
THEOREM PoolTypeCorrect == PoolSpec => []PoolTypeOK
<1>1. PoolInv => PoolTypeOK
    BY DEF PoolInv
<1> QED BY <1>1, PoolInvariant, PTL

(* The atomic session counter of every entry is the number of requests     *)
(* that hold it, never above maxSessionsPerConnection, although checkout   *)
(* increments it under the lock and release decrements it outside.         *)
THEOREM SessionsConserved == PoolSpec => []SessionsExact
<1>1. PoolInv => SessionsExact
    BY DEF PoolInv
<1> QED BY <1>1, PoolInvariant, PTL

(* No connection of a poisoned entry leaks: in whatever order poison's     *)
(* three steps and release's three steps interleave, whoever comes last    *)
(* closes it.                                                              *)
THEOREM NoConnectionLeaks == PoolSpec => []PoisonedIsClosed
<1>1. PoolInv => PoisonedIsClosed
    BY DEF PoolInv
<1> QED BY <1>1, PoolInvariant, PTL

(* An entry that left the pool is never handed out again: checkout only    *)
(* appends entries it creates, and takes the others from the pool itself.  *)
RetiredStaysOut ==
    [][\A e \in Entries : e <= created /\ ~Pooled(e) => ~Pooled(e)']_poolVars

(* Under the pool's lock a retired entry stays retired, whatever the       *)
(* requests that still hold it do.                                         *)
THEOREM RetirementIsFinal == PoolSpec => RetiredStaysOut
<1>1. ASSUME PoolTypeOK, [PoolNext]_poolVars, NEW e \in Entries, e <= created, ~Pooled(e)
      PROVE  ~Pooled(e)'
    <2>1. ASSUME NEW r \in Requests, NEW h \in Hosts, CheckoutPooled(r, h) PROVE ~Pooled(e)'
        BY <1>1, <2>1 DEF CheckoutPooled, Roomy, Take, Pooled, PoolTypeOK
    <2>2. ASSUME NEW r \in Requests, NEW h \in Hosts, CheckoutNew(r, h) PROVE ~Pooled(e)'
        <3>1. e # created + 1
            BY <1>1 DEF Entries, PoolTypeOK
        <3> QED BY <1>1, <2>2, <3>1 DEF CheckoutNew, Take, Pooled, PoolTypeOK
    <2>3. ASSUME NEW r \in Requests, PoisonRemove(r) PROVE ~Pooled(e)'
        BY <1>1, <2>3 DEF PoisonRemove, Pooled, PoolTypeOK
    <2>4. CASE hosts' = hosts
        BY <1>1, <2>4 DEF Pooled
    <2> QED BY <1>1, <2>1, <2>2, <2>3, <2>4
        DEF PoolNext, poolVars, RoundTripOK, RoundTripFails, StreamEnds, CloseBody,
            ReleaseDecrement, ReleaseLoadPoisoned, ReleaseCloseIdle, PoisonFlag,
            PoisonCloseIdle, ConnectionLost, CloseIdleEntry, CloseIdleBegin
<1>2. PoolTypeOK /\ [PoolNext]_poolVars =>
        [\A e \in Entries : e <= created /\ ~Pooled(e) => ~Pooled(e)']_poolVars
    BY <1>1
<1> QED BY <1>2, PoolTypeCorrect, PTL DEF PoolSpec, RetiredStaysOut

-----------------------------------------------------------------------------
(***************************************************************************)
(* Unary requests.                                                         *)
(***************************************************************************)

(* Operations and errors.                                                  *)

(* The append is the only operation with the append loop, and only creates *)
(* carry a request token.                                                  *)
LEMMA OperationFacts ==
    ASSUME NEW op \in Operations
    PROVE  /\ op.effect = "append" <=> op.loop = "withAppendRetries"
           /\ op.token => op.effect = "create"
BY DEF Operations, StreamsList, StreamsCreate, StreamsEnsure, StreamsDelete,
       StreamsGetConfig, StreamsReconfigure, BasinsList, BasinsCreate, BasinsEnsure,
       BasinsDelete, BasinsGetConfig, BasinsReconfigure, AccessTokensList,
       AccessTokensIssue, AccessTokensRevoke, LocationsList, LocationsGetDefault,
       LocationsSetDefault, MetricsAccount, MetricsBasin, MetricsStream,
       StreamClientAppend, StreamClientRead, CheckTail, Retried, Create, Op

(* No error but one of the server itself is said to have no side effects.  *)
LEMMA OnlyTheServerKnows ==
    ASSUME NEW why, why.origin # "server"
    PROVE  ~NoSideEffects(why)
BY DEF NoSideEffects, HasNoSideEffects

(* So none of the errors the client makes itself is. *)
LEMMA ClientErrorsAreOpen ==
    /\ ~NoSideEffects(NetworkError) /\ ~NoSideEffects(OpaqueError)
    /\ ~NoSideEffects(ContextError) /\ ~NoSideEffects(NoAnswer)
    /\ ~NoSideEffects(ValidationError)
    /\ \A status : ~NoSideEffects(BodyReadError(status))
BY OnlyTheServerKnows
   DEF NetworkError, OpaqueError, ContextError, NoAnswer, ValidationError, BodyReadError,
       S2Error

(* A response below 400 is no error without side effects. *)
LEMMA SuccessIsNoError ==
    ASSUME NEW what \in {"ok", "created", "noop"}
    PROVE  ~NoSideEffects(Success(what))
BY DEF NoSideEffects, HasNoSideEffects, Known, Success, S2Error, errorCodes

(* What the server answers when it does not know is not said to be free of *)
(* side effects.                                                           *)
LEMMA UnsureIsOpen ==
    ASSUME NEW why \in Unsure
    PROVE  ~NoSideEffects(why)
<1>1. /\ \A c \in {"storage", "client_hangup"} : errorCodes[c].noSideEffects = FALSE
      /\ \A c \in {"rate_limited"} : errorCodes[c].status # 500
      /\ "" \notin DOMAIN errorCodes
  BY DEF errorCodes, Info
<1>2. CASE why \in {Coded("storage"), Coded("client_hangup")}
  <2>1. why.code \in {"storage", "client_hangup"}
    BY <1>2 DEF Coded, S2Error
  <2> QED  BY <2>1, <1>1 DEF NoSideEffects, HasNoSideEffects
<1>3. CASE why \in {Uncoded(502), Uncoded(400)}
  <2>1. why.code = ""
    <3>1. \A status : Uncoded(status).code = ""
      BY DEF Uncoded, S2Error
    <3> QED  BY ZenonT(60), <3>1, <1>3
  <2> QED  BY <2>1, <1>1 DEF NoSideEffects, HasNoSideEffects, Known
<1>4. CASE why = S2Error(500, "rate_limited", "server")
  <2>1. why.code \in {"rate_limited"} /\ why.status = 500
    BY <1>4 DEF S2Error
  <2> QED  BY <2>1, <1>1 DEF NoSideEffects, HasNoSideEffects
<1> QED  BY <1>2, <1>3, <1>4 DEF Unsure

(* The answer to a create of an object that exists is told from all others. *)
LEMMA AlreadyExistsIsTold ==
    LET exists == Coded("resource_already_exists")
    IN  /\ exists \notin Refusals \cup Unsure
        /\ exists \notin {NetworkError, OpaqueError, ContextError, NoAnswer, ValidationError}
        /\ \A status : exists # BodyReadError(status)
        /\ \A what \in {"ok", "created", "noop"} : exists # Success(what)
        /\ exists # Coded("stream_not_found") /\ exists # Coded("APPEND_CONDITION_FAILED")
BY ZenonT(60) DEF Coded, Uncoded, Refusals, Unsure, NetworkError, OpaqueError, ContextError, NoAnswer,
       ValidationError, BodyReadError, Success, S2Error

(* The backoff of an attempt, jitter included, lies between the smaller of *)
(* the configured delays and twice the greatest, whatever overflowed.      *)
LEMMA DelayBounded ==
    ASSUME NEW delays \in Delays, NEW attempt \in Nat \ {0},
           NEW jitter \in Jitter(BaseDelay(delays, attempt))
    PROVE  LET d == BaseDelay(delays, attempt) + jitter
           IN  /\ d \in Int
               /\ d >= IF delays[1] < delays[2] THEN delays[1] ELSE delays[2]
               /\ d < 2 * delays[2]
<1> DEFINE lo == delays[1]
           hi == delays[2]
           half == 2^(Width - 1)
           raw == (lo * 2^(attempt - 1)) % (2 * half)
           shifted == ShiftLeft(lo, attempt - 1)
           base == BaseDelay(delays, attempt)
<1>1. lo \in Int /\ hi \in Int /\ lo > 0 /\ hi > 0 /\ 2 * hi < half
  BY UnaryAssumption
<1>2. half \in Int /\ 2^(attempt - 1) \in Int
  <2>1. Width - 1 \in Nat /\ attempt - 1 \in Nat
    BY UnaryAssumption
  <2> QED  BY <2>1
<1>3. raw \in Int
  <2> DEFINE x == lo * 2^(attempt - 1)
             y == 2 * half
  <2>1. x \in Int
    <3> HIDE DEF lo
    <3> QED BY <1>1, <1>2
  <2>2. y \in Int /\ y > 0
    <3> HIDE DEF half
    <3> QED BY <1>1, <1>2
  <2>3. x % y \in Int
    <3> HIDE DEF x, y
    <3> QED BY <2>1, <2>2
  <2> QED  BY <2>3
<1>4. shifted \in Int
  <2>1. shifted = IF raw >= half THEN raw - 2 * half ELSE raw
    BY DEF ShiftLeft
  <2> HIDE DEF raw, half, shifted
  <2> QED  BY <2>1, <1>2, <1>3
<1>5. base = IF shifted > hi \/ shifted < lo THEN hi ELSE shifted
  BY DEF BaseDelay
<1>6. jitter \in {0, base \div 2, base - 1}
  BY DEF Jitter
<1> HIDE DEF lo, hi, shifted, base
<1>7. base \in Int /\ base > 0 /\ base <= hi /\ (base = hi \/ base >= lo)
  <2>1. CASE shifted > hi \/ shifted < lo
    BY <2>1, <1>1, <1>5
  <2>2. CASE ~(shifted > hi \/ shifted < lo)
    BY <2>2, <1>1, <1>4, <1>5
  <2> QED  BY <2>1, <2>2
<1>8. jitter \in Int /\ 0 <= jitter /\ jitter < base
  <2>1. base \div 2 \in Int /\ 0 <= base \div 2 /\ base \div 2 < base
    BY <1>7
  <2> QED  BY <2>1, <1>6, <1>7
<1>9. base + jitter \in Int /\ base + jitter >= (IF lo < hi THEN lo ELSE hi)
      /\ base + jitter < 2 * hi
  BY <1>1, <1>7, <1>8
<1> QED  BY <1>9 DEF lo, hi, base

-----------------------------------------------------------------------------
(* The inductive invariant.                                                *)

Appending == call.op.effect = "append"

(* The call is one the client can make, and the bound on the attempts.     *)
CallOK ==
    /\ call.op \in Operations /\ call.delays \in Delays /\ Sensible(call)
    /\ pc = "backoff" => attemptNo < MaxAttempts

(***************************************************************************)
(* As long as no attempt left its effect open, no request but the current  *)
(* attempt's can still reach the server, and it has done nothing before it *)
(* does.  Nothing at all has happened when the loop goes round, or when    *)
(* the current answer says so.                                             *)
(***************************************************************************)
NothingDone == wire = {} /\ applied = 0

CertainOK ==
    Appending /\ ~priorUncertainty =>
        /\ wire \subseteq {attemptNo}
        /\ wire # {} => applied = 0
        /\ applied <= 1
        /\ pc \in {"begin", "attempt", "backoff"} => NothingDone
        /\ pc = "sent" /\ NoSideEffects(answer) => NothingDone
        /\ ReportsNoEffect => NothingDone

(* An uncertain failure is wrapped, whatever its own error says, ...       *)
UncertainOK == Appending /\ priorUncertainty => ~ReportsNoEffect

(* ... and under the policy that retries only what had no effect there is  *)
(* none.  A guarded append is applied to an empty stream.                  *)
OnceOK ==
    /\ call.policy = "noSideEffects" => ~priorUncertainty
    /\ ~Appending => applied = 0
    /\ call.matchSeqNum => applied <= 1 /\ applied <= tail

(* An object created by a call with a token is known by the token, and     *)
(* once a create was told that the object exists it is another's for good. *)
CreateOK ==
    call.op.token =>
        /\ resource = "mine" => creator = 1
        /\ answer = Coded("resource_already_exists") => resource = "other"
        /\ SaysAlreadyExists => resource = "other"

UnaryInv ==
    /\ UnaryTypeOK /\ CallOK /\ CertainOK /\ UncertainOK /\ OnceOK /\ CreateOK /\ BackoffBounded

(* The initial states satisfy UnaryInv. *)
LEMMA UnaryInvInit == UnaryInit => UnaryInv
<1> SUFFICES ASSUME UnaryInit PROVE UnaryInv
  OBVIOUS
<1> USE DEF UnaryInit
<1>1. call \in Calls /\ Sensible(call) /\ call.op \in Operations /\ call.delays \in Delays
  BY DEF Calls
<1>2. UnaryTypeOK /\ CallOK
  <2>1. 1 \in 1 .. MaxAttempts /\ 0 \in 0 .. MaxOthers
    BY UnaryAssumption
  <2>2. UnaryTypeOK
    <3>1. wire \subseteq 1 .. MaxAttempts /\ priorUncertainty \in BOOLEAN
      OBVIOUS
    <3>2. attemptNo \in 1 .. MaxAttempts /\ others \in 0 .. MaxOthers
      BY <2>1
    <3>3. delay \in Int /\ tail \in Nat /\ applied \in Nat
      OBVIOUS
    <3>4. pc \in {"begin", "attempt", "sent", "backoff", "returned"} /\ ctx \in {"live", "done"}
          /\ resource \in {"absent", "mine", "other"}
      OBVIOUS
    <3> QED  BY <1>1, <3>1, <3>2, <3>3, <3>4 DEF UnaryTypeOK
  <2>3. CallOK
    BY <1>1 DEF CallOK
  <2> QED  BY <2>2, <2>3
<1>3. ~ReportsNoEffect
  BY DEF ReportsNoEffect
<1>4. CertainOK /\ UncertainOK /\ OnceOK
  BY <1>3 DEF CertainOK, UncertainOK, OnceOK, NothingDone
<1>5. CreateOK
  BY AlreadyExistsIsTold DEF CreateOK, SaysAlreadyExists, Outcome
<1>6. BackoffBounded
  BY DEF BackoffBounded
<1> QED  BY <1>2, <1>4, <1>5, <1>6 DEF UnaryInv

(* A step that changes only the course of the call, not the server or the  *)
(* wire, and neither returns nor waits for a backoff.                      *)
LEMMA BackoffUnlessWaiting == ASSUME pc' # "backoff" PROVE BackoffBounded'
BY DEF BackoffBounded

(* Validate keeps the invariant. *)
LEMMA ValidateStep == UnaryInv /\ Validate => UnaryInv'
<1> SUFFICES ASSUME UnaryInv, Validate PROVE UnaryInv'
  OBVIOUS
<1> USE DEF Validate, serverVars
<1>1. /\ pc = "begin" /\ pc' \in {"attempt", "returned"}
      /\ UNCHANGED <<call, attemptNo, priorUncertainty, delay, ctx, wire, answer, resource,
                     creator, tail, applied, others>>
  BY DEF Return
<1>2. result' = result \/ \E why \in {ValidationError, OpaqueError} : result' = Outcome(why, FALSE)
  BY DEF Return
<1>3. UnaryTypeOK'
  BY <1>1 DEF UnaryInv, UnaryTypeOK
<1>4. CallOK' /\ OnceOK'
  BY <1>1 DEF UnaryInv, CallOK, OnceOK, Sensible, Appending
<1>5. pc' = "returned" => result'.response \in {ValidationError, OpaqueError}
  BY <1>1 DEF Return, Outcome
<1>6. ~ReportsNoEffect'
  BY <1>5, ClientErrorsAreOpen DEF ReportsNoEffect
<1>7. CertainOK' /\ UncertainOK'
  BY <1>1, <1>6 DEF UnaryInv, CertainOK, UncertainOK, Appending, NothingDone
<1>8. CreateOK'
  BY <1>1, <1>2, AlreadyExistsIsTold DEF UnaryInv, CreateOK, SaysAlreadyExists, Outcome
<1> QED  BY <1>1, <1>3, <1>4, <1>7, <1>8, BackoffUnlessWaiting DEF UnaryInv

(* Attempt keeps the invariant. *)
LEMMA AttemptStep == UnaryInv /\ Attempt => UnaryInv'
<1> SUFFICES ASSUME UnaryInv, Attempt PROVE UnaryInv'
  OBVIOUS
<1> USE DEF Attempt, serverVars
<1>1. /\ pc = "attempt" /\ answer' = NoAnswer
      /\ UNCHANGED <<call, attemptNo, priorUncertainty, delay, ctx, resource, creator, tail,
                     applied, others>>
  OBVIOUS
<1>2. CASE ctx = "live"
  <2>1. pc' = "sent" /\ wire' = wire \cup {attemptNo} /\ result' = result
    BY <1>2
  <2>2. UnaryTypeOK'
    BY <1>1, <2>1 DEF UnaryInv, UnaryTypeOK
  <2>3. CallOK' /\ OnceOK'
    BY <1>1, <2>1 DEF UnaryInv, CallOK, OnceOK, Sensible, Appending
  <2>4. CertainOK' /\ UncertainOK'
    BY <1>1, <2>1, ClientErrorsAreOpen
       DEF UnaryInv, CertainOK, UncertainOK, Appending, NothingDone, ReportsNoEffect
  <2>5. CreateOK'
    BY <1>1, <2>1, AlreadyExistsIsTold DEF UnaryInv, CreateOK, SaysAlreadyExists
  <2> QED  BY <2>1, <2>2, <2>3, <2>4, <2>5, BackoffUnlessWaiting DEF UnaryInv
<1>3. CASE ctx # "live"
  <2>1. pc' = "returned" /\ result' = Outcome(ContextError, FALSE) /\ wire' = wire
    BY <1>3 DEF Return
  <2>2. UnaryTypeOK'
    BY <1>1, <2>1 DEF UnaryInv, UnaryTypeOK
  <2>3. CallOK' /\ OnceOK'
    BY <1>1, <2>1 DEF UnaryInv, CallOK, OnceOK, Sensible, Appending
  <2>4. ~ReportsNoEffect'
    BY <2>1, ClientErrorsAreOpen DEF ReportsNoEffect, Outcome
  <2>5. CertainOK' /\ UncertainOK'
    BY <1>1, <2>1, <2>4 DEF UnaryInv, CertainOK, UncertainOK, Appending, NothingDone
  <2>6. CreateOK'
    BY <1>1, <2>1, AlreadyExistsIsTold DEF UnaryInv, CreateOK, SaysAlreadyExists, Outcome
  <2> QED  BY <2>1, <2>2, <2>3, <2>5, <2>6, BackoffUnlessWaiting DEF UnaryInv
<1> QED  BY <1>2, <1>3

(* BackoffOver keeps the invariant. *)
LEMMA BackoffOverStep == UnaryInv /\ BackoffOver => UnaryInv'
<1> SUFFICES ASSUME UnaryInv, BackoffOver PROVE UnaryInv'
  OBVIOUS
<1> USE DEF BackoffOver, serverVars
<1>1. /\ pc = "backoff"
      /\ UNCHANGED <<call, priorUncertainty, delay, ctx, wire, answer, resource, creator,
                     tail, applied, others>>
  OBVIOUS
<1>2. CASE ctx = "live"
  <2>1. pc' = "attempt" /\ attemptNo' = attemptNo + 1 /\ result' = result
    BY <1>2
  <2>2. UnaryTypeOK'
    BY <1>1, <2>1, UnaryAssumption DEF UnaryInv, UnaryTypeOK, CallOK
  <2>3. CallOK' /\ OnceOK'
    BY <1>1, <2>1 DEF UnaryInv, CallOK, OnceOK, Sensible, Appending
  <2>4. CertainOK' /\ UncertainOK'
    BY <1>1, <2>1 DEF UnaryInv, CertainOK, UncertainOK, Appending, NothingDone, ReportsNoEffect
  <2>5. CreateOK'
    BY <1>1, <2>1 DEF UnaryInv, CreateOK, SaysAlreadyExists
  <2> QED  BY <2>1, <2>2, <2>3, <2>4, <2>5, BackoffUnlessWaiting DEF UnaryInv
<1>3. CASE ctx # "live"
  <2>1. pc' = "returned" /\ result' = Outcome(ContextError, FALSE) /\ attemptNo' = attemptNo
    BY <1>3 DEF Return
  <2>2. UnaryTypeOK'
    BY <1>1, <2>1 DEF UnaryInv, UnaryTypeOK
  <2>3. CallOK' /\ OnceOK'
    BY <1>1, <2>1 DEF UnaryInv, CallOK, OnceOK, Sensible, Appending
  <2>4. ~ReportsNoEffect'
    BY <2>1, ClientErrorsAreOpen DEF ReportsNoEffect, Outcome
  <2>5. CertainOK' /\ UncertainOK'
    BY <1>1, <2>1, <2>4 DEF UnaryInv, CertainOK, UncertainOK, Appending, NothingDone
  <2>6. CreateOK'
    BY <1>1, <2>1, AlreadyExistsIsTold DEF UnaryInv, CreateOK, SaysAlreadyExists, Outcome
  <2> QED  BY <2>1, <2>2, <2>3, <2>5, <2>6, BackoffUnlessWaiting DEF UnaryInv
<1> QED  BY <1>2, <1>3

(***************************************************************************)
(* A failed attempt keeps the invariant if its error is honest: one said   *)
(* to have no side effects had none, and one that says that the object     *)
(* exists found another's.                                                 *)
(***************************************************************************)
LEMMA FailedStep ==
    ASSUME UnaryInv, pc = "sent", NEW why, AttemptFailed(why), UNCHANGED unchangedByReply,
           Appending /\ ~priorUncertainty /\ NoSideEffects(why) => NothingDone,
           call.op.token /\ why = Coded("resource_already_exists") => resource = "other"
    PROVE  UnaryInv'
<1> DEFINE appending == call.op.loop = "withAppendRetries"
           again == IF appending THEN AppendRetriesAgain(why) ELSE RetriesAgain(why)
           base == BaseDelay(call.delays, attemptNo)
<1>1. UNCHANGED <<call, attemptNo, ctx, wire, answer, resource, creator, tail, applied, others>>
  BY DEF unchangedByReply, serverVars
<1>2. call.op \in Operations /\ (Appending <=> appending)
  BY OperationFacts DEF UnaryInv, CallOK, Appending
<1>3. /\ again => attemptNo < MaxAttempts
      /\ again /\ call.policy = "noSideEffects" => NoSideEffects(why)
  <2>1. again => attemptNo < MaxAttempts
    BY DEF AppendRetriesAgain, RetriesAgain
  <2>2. call.policy = "noSideEffects" => Appending
    BY DEF UnaryInv, CallOK, Sensible, Appending
  <2>3. call.policy = "noSideEffects" /\ AppendRetriesAgain(why) => NoSideEffects(why)
    BY DEF AppendRetriesAgain, ShouldRetryNetworkError, ShouldRetryError, NoSideEffects
  <2> QED  BY <2>1, <2>2, <2>3, <1>2
<1>4. CASE ctx # "live"
  <2>1. /\ pc' = "returned" /\ result' = Outcome(ContextError, FALSE)
        /\ priorUncertainty' = priorUncertainty /\ delay' = delay
    BY <1>4 DEF AttemptFailed, Return
  <2>2. UnaryTypeOK'
    BY <1>1, <2>1 DEF UnaryInv, UnaryTypeOK
  <2>3. CallOK' /\ OnceOK'
    BY <1>1, <2>1 DEF UnaryInv, CallOK, OnceOK, Sensible, Appending
  <2>4. ~ReportsNoEffect'
    BY <2>1, ClientErrorsAreOpen DEF ReportsNoEffect, Outcome
  <2>5. CertainOK' /\ UncertainOK'
    BY <1>1, <2>1, <2>4 DEF UnaryInv, CertainOK, UncertainOK, Appending, NothingDone
  <2>6. CreateOK'
    BY <1>1, <2>1, AlreadyExistsIsTold DEF UnaryInv, CreateOK, SaysAlreadyExists, Outcome
  <2> QED  BY <2>1, <2>2, <2>3, <2>5, <2>6, BackoffUnlessWaiting DEF UnaryInv
<1>5. CASE ctx = "live" /\ ~again
  <2> DEFINE indefinite == appending /\ WithPriorUncertainty(why, priorUncertainty)
  <2>1. /\ pc' = "returned" /\ result' = Outcome(why, indefinite)
        /\ priorUncertainty' = priorUncertainty /\ delay' = delay
    BY <1>5 DEF AttemptFailed, Return
  <2>2. UnaryTypeOK'
    BY <1>1, <2>1 DEF UnaryInv, UnaryTypeOK
  <2>3. CallOK' /\ OnceOK'
    BY <1>1, <2>1 DEF UnaryInv, CallOK, OnceOK, Sensible, Appending
  <2>4. result'.response = why /\ result'.indefinite = indefinite
    BY <2>1 DEF Outcome
  <2>5. ReportsNoEffect' => NoSideEffects(why) /\ ~indefinite
    BY <2>4 DEF ReportsNoEffect
  <2>6. Appending /\ priorUncertainty => ~ReportsNoEffect'
    BY <1>2, <2>5 DEF WithPriorUncertainty
  <2>7. CertainOK' /\ UncertainOK'
    BY <1>1, <2>1, <2>5, <2>6 DEF UnaryInv, CertainOK, UncertainOK, Appending, NothingDone
  <2>8. CreateOK'
    BY <1>1, <2>4 DEF UnaryInv, CreateOK, SaysAlreadyExists
  <2> QED  BY <2>1, <2>2, <2>3, <2>7, <2>8, BackoffUnlessWaiting DEF UnaryInv
<1>6. CASE ctx = "live" /\ again
  <2>1. /\ pc' = "backoff" /\ result' = result
        /\ priorUncertainty' = StillUncertain(why)
        /\ \E jitter \in Jitter(base) : delay' = base + jitter
    BY <1>6 DEF AttemptFailed
  <2>2. PICK jitter \in Jitter(base) : delay' = base + jitter
    BY <2>1
  <2>3. priorUncertainty' = (priorUncertainty \/ ~NoSideEffects(why))
    BY <2>1 DEF StillUncertain
  <2>4. call.delays \in Delays /\ attemptNo \in Nat \ {0}
    BY UnaryAssumption DEF UnaryInv, CallOK, UnaryTypeOK
  <2>5. delay' \in Int /\ BackoffBounded'
    <3>1. /\ delay' \in Int
          /\ delay' >= IF call.delays[1] < call.delays[2] THEN call.delays[1] ELSE call.delays[2]
          /\ delay' < 2 * call.delays[2]
      BY <2>2, <2>4, DelayBounded
    <3> QED  BY <3>1, <1>1 DEF BackoffBounded
  <2>6. UnaryTypeOK'
    <3>1. priorUncertainty' \in BOOLEAN
      BY <2>3
    <3> QED  BY <1>1, <2>1, <2>5, <3>1 DEF UnaryInv, UnaryTypeOK
  <2>7. CallOK'
    BY <1>1, <1>3, <1>6, <2>1 DEF UnaryInv, CallOK, Sensible
  <2>8. OnceOK'
    BY <1>1, <1>3, <1>6, <2>3 DEF UnaryInv, OnceOK, Appending
  <2>9. ~ReportsNoEffect'
    BY <2>1 DEF ReportsNoEffect
  <2>10. CertainOK' /\ UncertainOK'
    BY <1>1, <2>1, <2>3, <2>9 DEF UnaryInv, CertainOK, UncertainOK, Appending, NothingDone
  <2>11. CreateOK'
    BY <1>1, <2>1 DEF UnaryInv, CreateOK, SaysAlreadyExists
  <2> QED  BY <2>5, <2>6, <2>7, <2>8, <2>10, <2>11 DEF UnaryInv
<1> QED  BY <1>4, <1>5, <1>6

(* Reply, ReplyUnreadable and RequestFails keep the invariant. *)
LEMMA ReplySteps == UnaryInv /\ (Reply \/ ReplyUnreadable \/ RequestFails) => UnaryInv'
<1>1. ASSUME UnaryInv, Reply PROVE UnaryInv'
  <2> USE <1>1
  <2>1. CASE IsSuccess(answer)
    <3>1. /\ pc = "sent" /\ pc' = "returned" /\ result' = Outcome(answer, FALSE)
          /\ UNCHANGED <<priorUncertainty, delay, call, attemptNo, ctx, wire, answer, resource,
                         creator, tail, applied, others>>
      BY <2>1 DEF Reply, Return, unchangedByReply, serverVars
    <3>2. UnaryTypeOK'
      BY <3>1 DEF UnaryInv, UnaryTypeOK
    <3>3. CallOK' /\ OnceOK'
      BY <3>1 DEF UnaryInv, CallOK, OnceOK, Sensible, Appending
    <3>4. result'.response = answer
      BY <3>1 DEF Outcome
    <3>5. ~ReportsNoEffect'
      BY <2>1, <3>4 DEF ReportsNoEffect
    <3>6. CertainOK' /\ UncertainOK'
      BY <3>1, <3>5 DEF UnaryInv, CertainOK, UncertainOK, Appending, NothingDone
    <3>7. CreateOK'
      BY <3>1, <3>4 DEF UnaryInv, CreateOK, SaysAlreadyExists
    <3> QED  BY <3>1, <3>2, <3>3, <3>6, <3>7, BackoffUnlessWaiting DEF UnaryInv
  <2>2. CASE ~IsSuccess(answer)
    <3>1. pc = "sent" /\ AttemptFailed(answer) /\ UNCHANGED unchangedByReply
      BY <2>2 DEF Reply
    <3>2. Appending /\ ~priorUncertainty /\ NoSideEffects(answer) => NothingDone
      BY <3>1 DEF UnaryInv, CertainOK
    <3>3. call.op.token /\ answer = Coded("resource_already_exists") => resource = "other"
      BY DEF UnaryInv, CreateOK
    <3> QED  BY <3>1, <3>2, <3>3, FailedStep
  <2> QED  BY <2>1, <2>2
<1>2. ASSUME UnaryInv, ReplyUnreadable PROVE UnaryInv'
  <2> USE <1>2
  <2>1. PICK why : /\ why \in {OpaqueError, NetworkError} \/ why = BodyReadError(answer.status)
                   /\ AttemptFailed(why)
    BY DEF ReplyUnreadable
  <2>2. ~NoSideEffects(why) /\ why # Coded("resource_already_exists")
    BY <2>1, ClientErrorsAreOpen, AlreadyExistsIsTold
  <2>3. pc = "sent" /\ UNCHANGED unchangedByReply
    BY DEF ReplyUnreadable
  <2> QED  BY <2>1, <2>2, <2>3, FailedStep
<1>3. ASSUME UnaryInv, RequestFails PROVE UnaryInv'
  <2>1. pc = "sent" /\ AttemptFailed(NetworkError) /\ UNCHANGED unchangedByReply
    BY <1>3 DEF RequestFails
  <2>2. ~NoSideEffects(NetworkError) /\ NetworkError # Coded("resource_already_exists")
    BY ClientErrorsAreOpen, AlreadyExistsIsTold
  <2> QED  BY <1>3, <2>1, <2>2, FailedStep
<1> QED  BY <1>1, <1>2, <1>3

(* What a request does at the server, by the operation it belongs to. *)
LEMMA EffectFacts ==
    ASSUME UnaryInv, NEW a, Effect(a) \/ UNCHANGED <<resource, creator, tail, applied>>
    PROVE  /\ resource' \in {"absent", "mine", "other"}
           /\ tail' \in Nat /\ applied' \in Nat /\ applied' - applied \in {0, 1}
           /\ ~Appending => applied' = applied
           /\ applied' # applied => Matches /\ tail' = tail + 1
           /\ tail' >= tail
           /\ call.op.token /\ resource # "absent" => resource' = resource /\ creator' = creator
           /\ call.op.token /\ resource' = "mine" => creator' = 1
           /\ call.op.token /\ resource = "absent" => resource' \in {"absent", "mine"}
<1>1. resource \in {"absent", "mine", "other"} /\ tail \in Nat /\ applied \in Nat
  BY DEF UnaryInv, UnaryTypeOK
<1>2. call.op.token => call.op.effect = "create" /\ (resource = "mine" => creator = 1)
  BY OperationFacts DEF UnaryInv, CallOK, CreateOK
<1>3. CASE UNCHANGED <<resource, creator, tail, applied>>
  BY <1>1, <1>2, <1>3
<1>4. CASE Effect(a)
  <2>1. CASE call.op.effect \in {"create", "ensure"} /\ resource = "absent" /\ resource' = "mine"
             /\ creator' = RequestToken(a) /\ UNCHANGED <<tail, applied>>
    BY <2>1, <1>1, <1>2 DEF RequestToken
  <2>2. CASE call.op.effect = "delete" /\ resource' = "absent" /\ UNCHANGED <<creator, tail, applied>>
    BY <2>2, <1>1, <1>2
  <2>3. CASE Appending /\ Matches /\ tail' = tail + 1 /\ applied' = applied + 1
             /\ UNCHANGED <<resource, creator>>
    BY <2>3, <1>1, <1>2 DEF Appending
  <2> QED  BY <2>1, <2>2, <2>3, <1>3, <1>4 DEF Effect, Appending
<1> QED  BY <1>3, <1>4

(***************************************************************************)
(* The server takes a request from the wire and answers it, at any time.   *)
(* The invariant is kept if its answer is honest.                          *)
(***************************************************************************)
LEMMA ServerStep ==
    ASSUME UnaryInv, NEW a \in wire, wire' = wire \ {a}, NEW what, Answers(a, what),
           Effect(a) \/ UNCHANGED <<resource, creator, tail, applied>>,
           UNCHANGED <<call, pc, attemptNo, priorUncertainty, delay, ctx, result, others>>,
           Appending /\ NoSideEffects(what) => applied' = applied,
           call.op.token /\ what = Coded("resource_already_exists") => resource' = "other"
    PROVE  UnaryInv'
<1> USE DEF UnaryInv
<1>1. UnaryTypeOK'
  BY EffectFacts DEF UnaryTypeOK
<1>2. CallOK'
  BY DEF CallOK, Sensible
<1>3. answer' = what \/ answer' = answer
  BY DEF Answers
<1>4. CertainOK'
  <2> SUFFICES ASSUME Appending, ~priorUncertainty
               PROVE  /\ wire' \subseteq {attemptNo}
                      /\ wire' # {} => applied' = 0
                      /\ applied' <= 1
                      /\ pc \in {"begin", "attempt", "backoff"} => NothingDone'
                      /\ pc = "sent" /\ NoSideEffects(answer') => NothingDone'
                      /\ ReportsNoEffect => NothingDone'
    BY DEF CertainOK, Appending, ReportsNoEffect
  <2>1. a = attemptNo /\ wire = {attemptNo} /\ wire' = {} /\ applied = 0
    BY DEF CertainOK
  <2>2. pc \notin {"begin", "attempt", "backoff"} /\ ~ReportsNoEffect
    BY <2>1 DEF CertainOK, NothingDone
  <2>3. applied' \in {0, 1}
    BY <2>1, EffectFacts
  <2>4. pc = "sent" => answer' = what
    BY <2>1 DEF Answers
  <2> QED  BY <2>1, <2>2, <2>3, <2>4 DEF NothingDone
<1>5. UncertainOK'
  BY DEF UncertainOK, Appending, ReportsNoEffect
<1>6. OnceOK'
  <2>1. applied \in Nat /\ tail \in Nat
    BY DEF UnaryTypeOK
  <2>2. ~Appending => applied' = 0
    BY EffectFacts DEF OnceOK
  <2>3. ASSUME call.matchSeqNum PROVE applied' <= 1 /\ applied' <= tail'
    <3>1. CASE applied' = applied
      BY <2>1, <2>3, <3>1, EffectFacts DEF OnceOK
    <3>2. CASE applied' # applied
      <4>1. tail = 0 /\ tail' = 1
        BY <2>3, <3>2, EffectFacts DEF Matches
      <4>2. applied = 0
        BY <2>1, <2>3, <4>1 DEF OnceOK
      <4> QED  BY <4>1, <4>2, EffectFacts
    <3> QED  BY <3>1, <3>2
  <2> QED  BY <2>2, <2>3 DEF OnceOK, Appending
<1>7. CreateOK'
  <2> SUFFICES ASSUME call.op.token
               PROVE  /\ resource' = "mine" => creator' = 1
                      /\ answer' = Coded("resource_already_exists") => resource' = "other"
                      /\ SaysAlreadyExists => resource' = "other"
    BY DEF CreateOK, SaysAlreadyExists
  <2>1. resource = "other" => resource' = "other"
    BY EffectFacts
  <2> QED  BY <1>3, <2>1, EffectFacts DEF CreateOK
<1>8. BackoffBounded'
  BY DEF BackoffBounded
<1> QED  BY <1>1, <1>2, <1>4, <1>5, <1>6, <1>7, <1>8

(* Process, Refuse and Muddle keep the invariant. *)
LEMMA ServerSteps ==
    ASSUME UnaryInv, NEW a, Process(a) \/ Refuse(a) \/ Muddle(a)
    PROVE  UnaryInv'
<1>1. CASE Process(a)
  <2> DEFINE what == AnswerTo(a)
  <2>1. /\ a \in wire /\ wire' = wire \ {a} /\ Effect(a) /\ Answers(a, what)
        /\ UNCHANGED <<call, pc, attemptNo, priorUncertainty, delay, ctx, result, others>>
    BY <1>1 DEF Process, Perform
  <2>2. ASSUME Appending, NoSideEffects(what) PROVE applied' = applied
    <3>1. ~Matches
      <4>1. SUFFICES ASSUME Matches PROVE FALSE
        OBVIOUS
      <4>2. what = Success("ok")
        BY <2>2, <4>1 DEF AnswerTo, Appending
      <4> QED  BY <2>2, <4>2, SuccessIsNoError
    <3> QED  BY <2>1, <3>1, EffectFacts
  <2>3. ASSUME call.op.token, what = Coded("resource_already_exists") PROVE resource' = "other"
    <3>1. call.op.effect = "create"
      BY <2>3, OperationFacts DEF UnaryInv, CallOK
    <3>2. resource # "absent" /\ ~Owns(a)
      <4>1. SUFFICES ASSUME ~(resource # "absent" /\ ~Owns(a)) PROVE FALSE
        OBVIOUS
      <4>2. what = Success("ok")
        BY <3>1, <4>1 DEF AnswerTo
      <4> QED  BY <2>3, <4>2, AlreadyExistsIsTold
    <3>3. resource # "mine"
      BY <2>3, <3>2 DEF Owns, RequestToken, UnaryInv, CreateOK
    <3>4. resource = "other"
      BY <3>2, <3>3 DEF UnaryInv, UnaryTypeOK
    <3> QED  BY <2>1, <2>3, <3>4, EffectFacts
  <2> HIDE DEF what
  <2> QED  BY <2>1, <2>2, <2>3, ServerStep
<1>2. CASE Refuse(a)
  <2>1. PICK why \in Refusals : Answers(a, why)
    BY <1>2 DEF Refuse
  <2>2. /\ a \in wire /\ wire' = wire \ {a} /\ UNCHANGED <<resource, creator, tail, applied>>
        /\ UNCHANGED <<call, pc, attemptNo, priorUncertainty, delay, ctx, result, others>>
    BY <1>2 DEF Refuse, serverVars
  <2>3. why # Coded("resource_already_exists")
    BY AlreadyExistsIsTold
  <2> QED  BY <2>1, <2>2, <2>3, ServerStep
<1>3. CASE Muddle(a)
  <2>1. PICK why \in Unsure : Answers(a, why)
    BY <1>3 DEF Muddle
  <2>2. /\ a \in wire /\ wire' = wire \ {a}
        /\ Effect(a) \/ UNCHANGED <<resource, creator, tail, applied>>
        /\ UNCHANGED <<call, pc, attemptNo, priorUncertainty, delay, ctx, result, others>>
    BY <1>3 DEF Muddle
  <2>3. why # Coded("resource_already_exists") /\ ~NoSideEffects(why)
    BY AlreadyExistsIsTold, UnsureIsOpen
  <2> QED  BY <2>1, <2>2, <2>3, ServerStep
<1> QED  BY <1>1, <1>2, <1>3

(* Cancel, OtherWrites and steps of other components keep the invariant. *)
LEMMA OtherSteps == UnaryInv /\ (Cancel \/ OtherWrites \/ UNCHANGED unaryVars) => UnaryInv'
<1> SUFFICES ASSUME UnaryInv, Cancel \/ OtherWrites \/ UNCHANGED unaryVars PROVE UnaryInv'
  OBVIOUS
<1> USE DEF UnaryInv
<1>1. /\ UNCHANGED <<call, pc, attemptNo, priorUncertainty, delay, wire, answer, result,
                     creator, applied>>
      /\ ctx' \in {ctx, "done"} /\ others' \in 0 .. MaxOthers
      /\ tail' \in {tail, tail + 1}
      /\ resource' = resource \/ (resource = "absent" /\ resource' = "other")
  <2>1. CASE Cancel
    BY <2>1 DEF Cancel, serverVars, UnaryTypeOK
  <2>2. CASE OtherWrites
    <3>1. MaxOthers \in Nat
      BY UnaryAssumption
    <3> QED  BY <2>2, <3>1 DEF OtherWrites, UnaryTypeOK
  <2>3. CASE UNCHANGED unaryVars
    BY <2>3 DEF unaryVars, UnaryTypeOK
  <2> QED  BY <2>1, <2>2, <2>3
<1>2. UnaryTypeOK'
  BY <1>1 DEF UnaryTypeOK
<1>3. CallOK'
  BY <1>1 DEF CallOK, Sensible
<1>4. CertainOK' /\ UncertainOK'
  BY <1>1 DEF CertainOK, UncertainOK, Appending, NothingDone, ReportsNoEffect
<1>5. OnceOK'
  BY <1>1 DEF OnceOK, Appending, UnaryTypeOK
<1>6. CreateOK'
  BY <1>1 DEF CreateOK, SaysAlreadyExists
<1>7. BackoffBounded'
  BY <1>1 DEF BackoffBounded
<1> QED  BY <1>2, <1>3, <1>4, <1>5, <1>6, <1>7

(* The inductive invariant holds in every reachable state. *)
LEMMA UnaryInvariant == UnarySpec => []UnaryInv
<1>1. UnaryInv /\ [UnaryNext]_unaryVars => UnaryInv'
  BY ValidateStep, AttemptStep, BackoffOverStep, ReplySteps, ServerSteps, OtherSteps
     DEF UnaryNext
<1> QED  BY <1>1, UnaryInvInit, PTL DEF UnarySpec

-----------------------------------------------------------------------------

(* A call keeps to its types and to MaxAttempts, whatever is retried.      *)
THEOREM UnaryTypeCorrect == UnarySpec => []UnaryTypeOK
<1>1. UnaryInv => UnaryTypeOK
  BY DEF UnaryInv
<1> QED  BY <1>1, UnaryInvariant, PTL

(* An Append whose retries are restricted to failures without effect, or   *)
(* which carries a match_seq_num, is applied at most once, although the    *)
(* requests of attempts that were given up may still reach the server.     *)
THEOREM AppendsAtMostOnce == UnarySpec => []AppendedOnce
<1>1. UnaryInv => AppendedOnce
  <2> SUFFICES ASSUME UnaryInv, call.policy = "noSideEffects" \/ call.matchSeqNum
               PROVE  applied <= 1
    BY DEF AppendedOnce
  <2>1. CASE call.matchSeqNum
    BY <2>1 DEF UnaryInv, OnceOK
  <2>2. CASE call.policy = "noSideEffects"
    <3>1. ~priorUncertainty
      BY <2>2 DEF UnaryInv, OnceOK
    <3>2. CASE Appending
      BY <3>1, <3>2 DEF UnaryInv, CertainOK
    <3>3. CASE ~Appending
      BY <3>3 DEF UnaryInv, OnceOK
    <3> QED  BY <3>2, <3>3
  <2> QED  BY <2>1, <2>2
<1> QED  BY <1>1, UnaryInvariant, PTL

(* What a failed call says of its own effect is true: an Append that       *)
(* reports no side effects has none, and a Create with a request token     *)
(* that reports the object as existing did not create it itself.           *)
THEOREM FailuresTellTheTruth == UnarySpec => []FailuresAreTrue
<1>1. UnaryInv => NoEffectIsTrue
  <2> SUFFICES ASSUME UnaryInv, Appending, ReportsNoEffect PROVE applied = 0
    BY DEF NoEffectIsTrue, Appending
  <2>1. priorUncertainty \in BOOLEAN
    BY DEF UnaryInv, UnaryTypeOK
  <2>2. ~priorUncertainty
    BY <2>1 DEF UnaryInv, UncertainOK
  <2> QED  BY <2>2 DEF UnaryInv, CertainOK, NothingDone
<1>2. UnaryInv => CreateKnowsItsOwn
  BY DEF UnaryInv, CreateOK, CreateKnowsItsOwn
<1> QED  BY <1>1, <1>2, UnaryInvariant, PTL DEF FailuresAreTrue

(* The backoff stays positive and within its configured bounds for every   *)
(* number of attempts, although the shift that computes it overflows.      *)
THEOREM BackoffIsBounded == UnarySpec => []BackoffBounded
<1>1. UnaryInv => BackoffBounded
  BY DEF UnaryInv
<1> QED  BY <1>1, UnaryInvariant, PTL

-----------------------------------------------------------------------------
(***************************************************************************)
(* Induction over the naturals, for a set instead of a predicate.          *)
(***************************************************************************)
LEMMA SetInduction ==
    ASSUME NEW S, 0 \in S, \A n \in Nat : n \in S => n + 1 \in S
    PROVE  \A n \in Nat : n \in S
<1> DEFINE C == Nat \ S
           R == {p \in Nat \X Nat : p[1] < p[2]}
<1>1. ASSUME C # {} PROVE FALSE
    <2>1. IsWellFoundedOn(R, Nat)
        BY NatLessThanWellFounded DEF OpToRel
    <2>2. C \subseteq Nat
        OBVIOUS
    <2>3. \E n \in C : \A m \in C : ~(<<m, n>> \in R)
        <3> HIDE DEF R, C
        <3> QED BY <1>1, <2>1, <2>2, WFMin
    <2>4. PICK n \in C : \A m \in C : ~(<<m, n>> \in R)
        BY <2>3
    <2>5. n \in Nat /\ n # 0
        OBVIOUS
    <2>6. n - 1 \in Nat /\ n - 1 \notin C
        <3>1. n - 1 \in Nat /\ <<n - 1, n>> \in R
            BY <2>5
        <3> QED BY <3>1, <2>4
    <2>7. n - 1 \in S /\ (n - 1) + 1 = n
        BY <2>5, <2>6
    <2> QED BY <2>4, <2>5, <2>6, <2>7
<1> QED BY <1>1

-----------------------------------------------------------------------------
(* An ascending sequence of all elements of S. *)
Ascending(s, S) ==
    /\ s \in [1 .. Cardinality(S) -> S]
    /\ \A i, j \in 1 .. Cardinality(S) : i < j => s[i] < s[j]

(* A finite set of naturals that is not empty has a greatest element. *)
LEMMA GreatestExists ==
    ASSUME NEW S, IsFiniteSet(S), S \subseteq Nat, S # {}
    PROVE  \E m \in S : \A n \in S : n <= m
<1> DEFINE T == {k \in Nat : \A U \in SUBSET S : Cardinality(U) = k /\ U # {} => \E m \in U : \A n \in U : n <= m}
<1>1. 0 \in T
    <2> SUFFICES ASSUME NEW U \in SUBSET S, Cardinality(U) = 0, U # {} PROVE FALSE
        OBVIOUS
    <2>1. IsFiniteSet(U)
        BY FS_Subset
    <2> QED BY <2>1, FS_EmptySet
<1>2. ASSUME NEW k \in Nat, k \in T PROVE k + 1 \in T
    <2> SUFFICES ASSUME NEW U \in SUBSET S, Cardinality(U) = k + 1, U # {}
                 PROVE  \E m \in U : \A n \in U : n <= m
        OBVIOUS
    <2>1. PICK x \in U : TRUE
        OBVIOUS
    <2> DEFINE V == U \ {x}
    <2>2. IsFiniteSet(U) /\ Cardinality(V) = k
        <3>1. IsFiniteSet(U)
            BY FS_Subset
        <3>2. Cardinality(V) = Cardinality(U) - 1
            BY <2>1, <3>1, FS_RemoveElement
        <3> QED BY <3>1, <3>2
    <2>3. CASE V = {}
        BY <2>1, <2>3
    <2>4. CASE V # {}
        <3>1. PICK m \in V : \A n \in V : n <= m
            BY <1>2, <2>2, <2>4
        <3>2. CASE x <= m
            BY <2>1, <3>1, <3>2
        <3>3. CASE ~ (x <= m)
            <4>1. \A n \in U : n <= x
                BY <2>1, <3>1, <3>3
            <4> QED BY <2>1, <4>1
        <3> QED BY <3>2, <3>3
    <2> QED BY <2>3, <2>4
<1>3. Cardinality(S) \in Nat
    BY FS_CardinalityType
<1>4. Cardinality(S) \in T
    <2> HIDE DEF T
    <2> QED BY <1>1, <1>2, <1>3, SetInduction
<1> QED BY <1>4

(* Every finite set of naturals can be put in order. *)
LEMMA AscendingExists ==
    ASSUME NEW S, IsFiniteSet(S), S \subseteq Nat
    PROVE  \E s : Ascending(s, S)
<1> DEFINE T == {k \in Nat : \A U \in SUBSET S : Cardinality(U) = k => \E s : Ascending(s, U)}
<1>1. 0 \in T
    <2> SUFFICES ASSUME NEW U \in SUBSET S, Cardinality(U) = 0 PROVE \E s : Ascending(s, U)
        OBVIOUS
    <2> DEFINE s == [i \in 1 .. 0 |-> i]
    <2>1. s \in [1 .. 0 -> U]
        OBVIOUS
    <2>2. \A i, j \in 1 .. 0 : i < j => s[i] < s[j]
        OBVIOUS
    <2> HIDE DEF s
    <2> QED BY <2>1, <2>2 DEF Ascending
<1>2. ASSUME NEW k \in Nat, k \in T PROVE k + 1 \in T
    <2> SUFFICES ASSUME NEW U \in SUBSET S, Cardinality(U) = k + 1 PROVE \E s : Ascending(s, U)
        OBVIOUS
    <2>1. IsFiniteSet(U) /\ U # {}
        <3>1. IsFiniteSet(U)
            BY FS_Subset
        <3>2. Cardinality(U) # 0
            OBVIOUS
        <3> QED BY <3>1, <3>2, FS_EmptySet
    <2>2. PICK m \in U : \A n \in U : n <= m
        <3>1. U \subseteq Nat
            OBVIOUS
        <3> QED BY <2>1, <3>1, GreatestExists
    <2> DEFINE V == U \ {m}
    <2>3. Cardinality(V) = k
        <3>1. Cardinality(V) = Cardinality(U) - 1
            BY <2>1, <2>2, FS_RemoveElement
        <3> QED BY <3>1
    <2>4. PICK s : s \in [1 .. k -> V] /\ \A i, j \in 1 .. k : i < j => s[i] < s[j]
        <3>1. V \in SUBSET S
            OBVIOUS
        <3> HIDE DEF V
        <3>2. \E s : Ascending(s, V)
            BY <1>2, <2>3, <3>1
        <3> QED BY <2>3, <3>2 DEF Ascending
    <2> DEFINE t == [i \in 1 .. k + 1 |-> IF i = k + 1 THEN m ELSE s[i]]
    <2>5. t \in [1 .. k + 1 -> U]
        BY <2>2, <2>4
    <2>6. ASSUME NEW i \in 1 .. k + 1, NEW j \in 1 .. k + 1, i < j PROVE t[i] < t[j]
        <3>1. i \in 1 .. k /\ t[i] = s[i] /\ s[i] \in V
            <4>1. i \in 1 .. k
                BY <2>6
            <4> QED BY <2>4, <4>1
        <3>2. CASE j = k + 1
            <4>1. s[i] <= m /\ s[i] # m /\ s[i] \in Nat /\ m \in Nat
                BY <2>2, <3>1
            <4> QED BY <3>1, <3>2, <4>1
        <3>3. CASE j # k + 1
            <4>1. j \in 1 .. k /\ t[j] = s[j]
                BY <3>3
            <4> QED BY <2>4, <2>6, <3>1, <4>1
        <3> QED BY <3>2, <3>3
    <2> HIDE DEF t
    <2> QED BY <2>5, <2>6 DEF Ascending
<1>3. Cardinality(S) \in Nat
    BY FS_CardinalityType
<1>4. Cardinality(S) \in T
    <2> HIDE DEF T
    <2> QED BY <1>1, <1>2, <1>3, SetInduction
<1> QED BY <1>4

(* What InOrder returns: all elements of the set, each once, in order. *)
LEMMA InOrderIs ==
    ASSUME NEW S, IsFiniteSet(S), S \subseteq Nat
    PROVE  /\ InOrder(S) \in Seq(S) /\ Len(InOrder(S)) = Cardinality(S)
           /\ Cardinality(S) \in Nat
           /\ ToSet(InOrder(S)) = S
           /\ \A i, j \in 1 .. Len(InOrder(S)) : i < j => InOrder(S)[i] < InOrder(S)[j]
<1> DEFINE n == Cardinality(S)
           s == InOrder(S)
<1>1. n \in Nat
    BY FS_CardinalityType
<1>2. Ascending(s, S)
    BY AscendingExists DEF Ascending, InOrder
<1>3. s \in [1 .. n -> S] /\ \A i, j \in 1 .. n : i < j => s[i] < s[j]
    BY <1>2 DEF Ascending
<1> HIDE DEF s, n
<1>4. s \in Seq(S) /\ Len(s) = n
    BY <1>1, <1>3
<1>5. s \in Injection(1 .. n, S)
    <2>1. ASSUME NEW i \in 1 .. n, NEW j \in 1 .. n, s[i] = s[j] PROVE i = j
        <3>0. s[i] \in S /\ s[j] \in S
            BY <1>3
        <3>1. i \in Nat /\ j \in Nat
            BY <1>1
        <3>2. s[i] \in Nat /\ s[j] \in Nat
            BY <3>0
        <3>3. ~ (i < j) /\ ~ (j < i)
            BY <1>3, <2>1, <3>2
        <3> QED BY <3>1, <3>3
    <2> QED BY <1>3, <2>1 DEF Injection, IsInjective
<1>6. s \in Surjection(1 .. n, S)
    <2>1. Cardinality(1 .. n) = n
        BY <1>1, FS_Interval
    <2>2. Cardinality(1 .. n) = Cardinality(S)
        BY <2>1 DEF n
    <2> QED BY <1>5, <2>2, FS_Injection
<1>7. ToSet(s) = S
    <2>1. DOMAIN s = 1 .. n
        BY <1>3
    <2> QED BY <1>3, <1>6, <2>1 DEF Surjection, ToSet
<1> QED BY <1>1, <1>3, <1>4, <1>7 DEF s, n

-----------------------------------------------------------------------------
(***************************************************************************)
(* Pages of a listing.                                                     *)
(***************************************************************************)

(* The names a listing shows after a key. *)
Shown(key) == {n \in Names : n > key /\ listing[n] # "absent"}

IsAscending(s) == \A i, j \in 1 .. Len(s) : i < j => s[i] < s[j]

(* Names are positive numbers, and no name (zero) is none of them. *)
LEMMA NamesAreNumbers == Names \subseteq Nat /\ NoName \in Nat /\ NoName \notin Names
BY ListingAssumption DEF NoName

(* A page is the first part of what is shown, and the key of the next one  *)
(* is where it ends, or that nothing follows.                              *)
LEMMA PageIs ==
    ASSUME NEW key \in Names \cup {NoName}
    PROVE  /\ Page(key) \in Seq(Names)
           /\ IsAscending(Page(key))
           /\ ToSet(Page(key)) \subseteq Shown(key)
           /\ NextKey(Page(key), HasMore(key)) \in Names \cup {NoName}
           /\ NextKey(Page(key), HasMore(key)) = NoName => ToSet(Page(key)) = Shown(key)
           /\ NextKey(Page(key), HasMore(key)) # NoName =>
                 /\ NextKey(Page(key), HasMore(key)) > key
                 /\ \A n \in ToSet(Page(key)) : n <= NextKey(Page(key), HasMore(key))
                 /\ \A n \in Shown(key) : n <= NextKey(Page(key), HasMore(key)) => n \in ToSet(Page(key))
<1> DEFINE all == After(key)
           size == IF Len(all) < Limit THEN Len(all) ELSE Limit
           page == Page(key)
           next == NextKey(page, HasMore(key))
<1>1. Shown(key) \subseteq Names /\ Shown(key) \subseteq Nat /\ IsFiniteSet(Shown(key))
    <2>1. Shown(key) \subseteq Names
        BY DEF Shown
    <2> QED BY <2>1, NamesAreNumbers, ListingAssumption, FS_Subset
<1>2. all = InOrder(Shown(key))
    BY DEF After, Shown
<1>3. /\ all \in Seq(Shown(key)) /\ Len(all) \in Nat
      /\ ToSet(all) = Shown(key)
      /\ \A i, j \in 1 .. Len(all) : i < j => all[i] < all[j]
    BY <1>1, <1>2, InOrderIs
<1> HIDE DEF all
<1>4. size \in Nat /\ size <= Len(all) /\ Limit \in Nat /\ Limit >= 1
    BY <1>3, ListingAssumption
<1>5. page = SubSeq(all, 1, size)
    BY DEF Page, all
<1> HIDE DEF page, size
<1>6. /\ page \in Seq(Shown(key)) /\ Len(page) = size
      /\ \A i \in 1 .. size : page[i] = all[i]
    BY <1>3, <1>4, <1>5
<1>7. page \in Seq(Names)
    BY <1>1, <1>6
<1>8. IsAscending(page)
    BY <1>3, <1>4, <1>6 DEF IsAscending
<1>9. ToSet(page) = {page[i] : i \in 1 .. size} /\ ToSet(all) = {all[i] : i \in 1 .. Len(all)}
    <2>1. DOMAIN page = 1 .. size /\ DOMAIN all = 1 .. Len(all)
        BY <1>3, <1>4, <1>6
    <2> QED BY <2>1 DEF ToSet
<1>10. ToSet(page) \subseteq Shown(key)
    BY <1>6, <1>9
<1>11. HasMore(key) <=> Len(all) > Limit
    BY DEF HasMore, all
<1>12. CASE ~ HasMore(key)
    <2>1. next = NoName
        BY <1>12 DEF NextKey
    <2>2. size = Len(all)
        BY <1>3, <1>4, <1>11, <1>12 DEF size
    <2>3. ToSet(page) = Shown(key)
        BY <1>3, <1>6, <1>9, <2>2
    <2> QED BY <1>7, <1>8, <1>10, <2>1, <2>3 DEF page
<1>13. CASE HasMore(key)
    <2>1. size = Limit
        BY <1>3, <1>4, <1>11, <1>13 DEF size
    <2>2. page # <<>>
        BY <1>4, <1>6, <2>1
    <2>3. next = page[size]
        BY <1>6, <1>13, <2>2 DEF NextKey, Last
    <2>4. next \in Shown(key) /\ next = all[size]
        BY <1>4, <1>6, <2>1, <2>3
    <2>5. next \in Names /\ next # NoName /\ next > key
        BY <2>4, NamesAreNumbers DEF Shown
    <2>6. ASSUME NEW n \in ToSet(page) PROVE n <= next
        <3>1. PICK i \in 1 .. size : n = page[i]
            BY <1>9
        <3>2. n \in Nat /\ next \in Nat
            BY <1>1, <1>10, <2>4
        <3>3. i < size => n < next
            BY <1>4, <1>6, <1>8, <2>1, <2>3, <3>1 DEF IsAscending
        <3> QED BY <1>4, <2>3, <3>1, <3>2, <3>3
    <2>7. ASSUME NEW n \in Shown(key), n <= next PROVE n \in ToSet(page)
        <3>1. PICK i \in 1 .. Len(all) : n = all[i]
            BY <1>3, <1>9
        <3>2. n \in Nat /\ next \in Nat
            BY <1>1, <2>4
        <3>3. ~ (size < i)
            BY <1>3, <1>4, <2>1, <2>4, <2>7, <3>1, <3>2
        <3>4. i \in 1 .. size
            BY <1>3, <1>4, <3>3
        <3> QED BY <1>6, <1>9, <3>1, <3>4
    <2> QED BY <1>7, <1>8, <1>10, <2>5, <2>6, <2>7 DEF page
<1> QED BY <1>12, <1>13

(* The filter keeps exactly the live names of a page, in order. *)
LEMMA NotDeletedIs ==
    ASSUME NEW page \in Seq(Names)
    PROVE  /\ NotDeleted(page) \in Seq(Names)
           /\ IsAscending(NotDeleted(page))
           /\ ToSet(NotDeleted(page)) = {n \in ToSet(page) : listing[n] = "live"}
<1> DEFINE T == {n \in ToSet(page) : listing[n] = "live"}
<1>1. T \subseteq Names
    BY DEF ToSet
<1>2. IsFiniteSet(T) /\ T \subseteq Nat
    BY <1>1, NamesAreNumbers, ListingAssumption, FS_Subset
<1>3. NotDeleted(page) = InOrder(T)
    BY DEF NotDeleted
<1> HIDE DEF T
<1>4. /\ InOrder(T) \in Seq(T) /\ ToSet(InOrder(T)) = T
      /\ \A i, j \in 1 .. Len(InOrder(T)) : i < j => InOrder(T)[i] < InOrder(T)[j]
    BY <1>2, InOrderIs
<1> QED BY <1>1, <1>3, <1>4 DEF IsAscending, T

(* What a change of another client does to the names that did not change. *)
LEMMA ChangeShrinks ==
    ASSUME ListingTypeOK, NEW n \in Names, ListingChanges(n)
    PROVE  /\ ListingTypeOK'
           /\ LiveAllAlong' \subseteq LiveAllAlong
           /\ GoneAllAlong' \subseteq GoneAllAlong
<1>1. /\ listing' \in [Names -> NameStates] /\ \A m \in Names \ {n} : listing'[m] = listing[m]
      /\ changed' = changed \cup {n} /\ changes < MaxChanges /\ changes' = changes + 1
    BY DEF ListingChanges, ListingTypeOK
<1>2. ListingTypeOK'
    BY <1>1, ListingAssumption DEF ListingTypeOK
<1> QED BY <1>1, <1>2 DEF LiveAllAlong, GoneAllAlong

-----------------------------------------------------------------------------
(***************************************************************************)
(* Discovery.  While a scan is under way seen holds the live names up to   *)
(* the cursor, and nothing that was gone all along; a complete scan holds  *)
(* all of them, and so do the workers, until the next one is complete.     *)
(***************************************************************************)
ScanOK ==
    /\ cursor # NoName => ~ static /\ ~ pruning /\ wait = "page"
    /\ cursor = NoName => seen = {}
    /\ seen \subseteq workers /\ seen \cap GoneAllAlong = {}
    /\ \A n \in LiveAllAlong : n <= cursor => n \in seen

PruneOK ==
    pruning => /\ Wanted \subseteq complete /\ complete \cap Unwanted = {}
               /\ complete \subseteq workers

UpdateOK ==
    wait = "update" /\ ~ pruning => Wanted \subseteq workers /\ workers \cap Unwanted = {}

DiscoveryInv == DiscoveryTypeOK /\ ScanOK /\ PruneOK /\ UpdateOK

(* The discovery invariant holds before the first scan. *)
LEMMA DiscoveryInvInit == ListingInit /\ DiscoveryInit => DiscoveryInv
<1> SUFFICES ASSUME ListingInit, DiscoveryInit PROVE DiscoveryInv
    OBVIOUS
<1>1. DiscoveryTypeOK
    <2>1. 0 \in 0 .. MaxChanges
        BY ListingAssumption
    <2> QED BY <2>1 DEF ListingInit, DiscoveryInit, DiscoveryTypeOK, ListingTypeOK
<1>2. ScanOK
    BY NamesAreNumbers, ListingAssumption DEF ListingInit, DiscoveryInit, ScanOK, LiveAllAlong, NoName
<1> QED BY <1>1, <1>2 DEF DiscoveryInv, DiscoveryInit, PruneOK, UpdateOK

(* What the pages show of the streams. *)
LEMMA PageStreamsAre ==
    ASSUME DiscoveryTypeOK
    PROVE  /\ PageStreams \subseteq Names
           /\ PageNext \in Names \cup {NoName}
           /\ static => PageStreams = Names /\ PageNext = NoName
           /\ ~ static => /\ \A n \in PageStreams : listing[n] = "live"
                          /\ PageNext # NoName => PageNext > cursor
                          /\ \A n \in Names : listing[n] = "live" /\ n > cursor
                                /\ (PageNext # NoName => n <= PageNext) => n \in PageStreams
<1>1. CASE static
    BY <1>1 DEF PageStreams, PageNext
<1>2. CASE ~ static
    <2> DEFINE page == Page(cursor)
               next == NextKey(page, HasMore(cursor))
    <2>1. cursor \in Names \cup {NoName}
        BY DEF DiscoveryTypeOK
    <2>2. /\ page \in Seq(Names) /\ ToSet(page) \subseteq Shown(cursor)
          /\ next \in Names \cup {NoName}
          /\ next = NoName => ToSet(page) = Shown(cursor)
          /\ next # NoName => /\ next > cursor
                              /\ \A n \in Shown(cursor) : n <= next => n \in ToSet(page)
        BY <2>1, PageIs
    <2>3. PageStreams = ToSet(NotDeleted(page)) /\ PageNext = next
        BY <1>2 DEF PageStreams, PageNext
    <2> HIDE DEF page, next
    <2>4. PageStreams = {n \in ToSet(page) : listing[n] = "live"}
        BY <2>2, <2>3, NotDeletedIs
    <2>5. PageStreams \subseteq Names
        BY <2>2, <2>4 DEF Shown
    <2>6. ASSUME NEW n \in Names, listing[n] = "live", n > cursor, PageNext # NoName => n <= PageNext
          PROVE  n \in PageStreams
        <3>1. n \in Shown(cursor)
            BY <2>6 DEF Shown
        <3> QED BY <2>2, <2>3, <2>4, <2>6, <3>1
    <2> QED BY <1>2, <2>2, <2>3, <2>4, <2>5, <2>6
<1> QED BY <1>1, <1>2

(* Scanning one more page keeps the discovery invariant. *)
LEMMA ScanPageKeeps ==
    ASSUME DiscoveryInv, ScanPage
    PROVE  DiscoveryInv'
<1>1. DiscoveryTypeOK /\ ListingTypeOK /\ ScanOK /\ PruneOK /\ UpdateOK
    BY DEF DiscoveryInv, DiscoveryTypeOK
<1>2. /\ PageStreams \subseteq Names
      /\ PageNext \in Names \cup {NoName}
      /\ static => PageStreams = Names /\ PageNext = NoName
      /\ ~ static => /\ \A n \in PageStreams : listing[n] = "live"
                     /\ PageNext # NoName => PageNext > cursor
                     /\ \A n \in Names : listing[n] = "live" /\ n > cursor
                           /\ (PageNext # NoName => n <= PageNext) => n \in PageStreams
    BY <1>1, PageStreamsAre
<1>3. /\ ~ pruning
      /\ changed' = IF cursor = NoName THEN {} ELSE changed
      /\ workers' = workers \cup PageStreams
      /\ cursor' = PageNext
      /\ Scanned = seen \cup PageStreams
      /\ listing' = listing /\ changes' = changes /\ static' = static
      /\ PageNext # NoName => seen' = Scanned /\ wait' = "page" /\ complete' = complete /\ pruning' = pruning
      /\ PageNext = NoName => seen' = {} /\ complete' = Scanned /\ pruning' = TRUE /\ wait' = wait
    BY DEF ScanPage, Scanned
<1>4. DiscoveryTypeOK'
    BY <1>1, <1>2, <1>3 DEF DiscoveryTypeOK, ListingTypeOK
<1>5. ~ static => Scanned \cap GoneAllAlong' = {}
    <2>1. CASE cursor = NoName
        BY <1>1, <1>2, <1>3, <2>1 DEF ScanOK, GoneAllAlong
    <2>2. CASE cursor # NoName
        BY <1>1, <1>2, <1>3, <2>2 DEF ScanOK, GoneAllAlong
    <2> QED BY <2>1, <2>2
<1>6. ASSUME ~ static, NEW n \in LiveAllAlong', PageNext # NoName => n <= PageNext
      PROVE  n \in Scanned
    <2>1. n \in Names /\ listing[n] = "live" /\ n \in Nat /\ cursor \in Nat /\ n # NoName
        BY <1>1, <1>3, NamesAreNumbers DEF LiveAllAlong, DiscoveryTypeOK
    <2>2. CASE n > cursor
        BY <1>2, <1>3, <1>6, <2>1, <2>2
    <2>3. CASE ~ (n > cursor)
        <3>1. cursor # NoName
            BY <2>1, <2>3 DEF NoName
        <3>2. n \in LiveAllAlong
            BY <1>3, <3>1 DEF LiveAllAlong
        <3> QED BY <1>1, <1>3, <2>1, <2>3, <3>2 DEF ScanOK
    <2> QED BY <2>2, <2>3
<1>7. CASE PageNext # NoName
    <2>1. ~ static /\ ~ pruning'
        BY <1>2, <1>3, <1>7
    <2>2. ScanOK'
        BY <1>1, <1>2, <1>3, <1>5, <1>6, <1>7, <2>1 DEF ScanOK
    <2> QED BY <1>3, <1>4, <1>7, <2>1, <2>2 DEF DiscoveryInv, PruneOK, UpdateOK
<1>8. CASE PageNext = NoName
    <2>1. \A n \in Names : ~ (n <= cursor')
        BY <1>3, <1>8, ListingAssumption DEF NoName
    <2>2. ScanOK'
        BY <1>1, <1>3, <1>8, <2>1 DEF ScanOK, LiveAllAlong
    <2>3. complete' \subseteq workers'
        BY <1>1, <1>3, <1>8 DEF ScanOK
    <2>4. CASE static
        <3>1. Wanted' = Names /\ Unwanted' = {} /\ complete' = seen \cup Names
            BY <1>2, <1>3, <1>8, <2>4 DEF Wanted, Unwanted
        <3> QED BY <1>3, <1>4, <1>8, <2>2, <2>3, <3>1 DEF DiscoveryInv, PruneOK, UpdateOK
    <2>5. CASE ~ static
        <3>1. Wanted' = LiveAllAlong' /\ Unwanted' = GoneAllAlong'
            BY <1>3, <2>5 DEF Wanted, Unwanted
        <3>2. Wanted' \subseteq complete' /\ complete' \cap Unwanted' = {}
            BY <1>3, <1>5, <1>6, <1>8, <2>5, <3>1
        <3> QED BY <1>3, <1>4, <1>8, <2>2, <2>3, <3>2 DEF DiscoveryInv, PruneOK, UpdateOK
    <2> QED BY <2>4, <2>5
<1> QED BY <1>7, <1>8

(* Every step of the discovery keeps its invariant. *)
LEMMA DiscoveryStep ==
    ASSUME DiscoveryInv, [DiscoveryNext]_discoveryVars
    PROVE  DiscoveryInv'
<1>1. DiscoveryTypeOK /\ ListingTypeOK /\ ScanOK /\ PruneOK /\ UpdateOK
    BY DEF DiscoveryInv, DiscoveryTypeOK
<1>2. CASE ScanPage
    BY <1>2, ScanPageKeeps
<1>3. CASE ScanFails
    <2>1. /\ UNCHANGED <<listing, changed, changes, static, cursor, seen, complete, workers, pruning>>
          /\ wait' = "page"
        BY <1>3 DEF ScanFails, listingVars
    <2>2. DiscoveryTypeOK' /\ ScanOK'
        BY <1>1, <2>1 DEF DiscoveryTypeOK, ListingTypeOK, ScanOK, GoneAllAlong, LiveAllAlong
    <2>3. PruneOK' /\ UpdateOK'
        BY <1>1, <2>1 DEF PruneOK, UpdateOK, Wanted, Unwanted, GoneAllAlong, LiveAllAlong
    <2> QED BY <2>2, <2>3 DEF DiscoveryInv
<1>4. CASE PruneDone
    <2>1. /\ pruning /\ workers \subseteq complete /\ pruning' = FALSE /\ wait' = "update"
          /\ UNCHANGED <<listing, changed, changes, static, cursor, seen, complete, workers>>
        BY <1>4 DEF PruneDone, listingVars
    <2>2. DiscoveryTypeOK' /\ ScanOK'
        BY <1>1, <2>1 DEF DiscoveryTypeOK, ListingTypeOK, ScanOK, GoneAllAlong, LiveAllAlong
    <2>3. PruneOK' /\ UpdateOK'
        BY <1>1, <2>1 DEF PruneOK, UpdateOK, Wanted, Unwanted, GoneAllAlong, LiveAllAlong
    <2> QED BY <2>2, <2>3 DEF DiscoveryInv
<1>5. ASSUME NEW n \in Names, PruneWorker(n) PROVE DiscoveryInv'
    <2>1. /\ pruning /\ n \in workers \ complete /\ workers' = workers \ {n}
          /\ UNCHANGED <<listing, changed, changes, static, cursor, seen, complete, pruning, wait>>
        BY <1>5 DEF PruneWorker, listingVars
    <2>2. DiscoveryTypeOK' /\ ScanOK'
        BY <1>1, <2>1 DEF DiscoveryTypeOK, ListingTypeOK, ScanOK, GoneAllAlong, LiveAllAlong
    <2>3. PruneOK' /\ UpdateOK'
        BY <1>1, <2>1 DEF PruneOK, UpdateOK, Wanted, Unwanted, GoneAllAlong, LiveAllAlong
    <2> QED BY <2>2, <2>3 DEF DiscoveryInv
<1>6. ASSUME NEW n \in Names, ListingChanges(n), UNCHANGED managerVars PROVE DiscoveryInv'
    <2>1. UNCHANGED <<static, cursor, seen, complete, workers, pruning, wait>>
        BY <1>6 DEF managerVars
    <2>2. /\ ListingTypeOK'
          /\ LiveAllAlong' \subseteq LiveAllAlong /\ GoneAllAlong' \subseteq GoneAllAlong
        BY <1>1, <1>6, ChangeShrinks
    <2>3. Wanted' \subseteq Wanted /\ Unwanted' \subseteq Unwanted
        BY <2>1, <2>2 DEF Wanted, Unwanted
    <2>4. DiscoveryTypeOK'
        BY <1>1, <2>1, <2>2 DEF DiscoveryTypeOK
    <2>5. ScanOK'
        BY <1>1, <2>1, <2>2 DEF ScanOK
    <2>6. PruneOK' /\ UpdateOK'
        BY <1>1, <2>1, <2>3 DEF PruneOK, UpdateOK
    <2> QED BY <2>4, <2>5, <2>6 DEF DiscoveryInv
<1>7. CASE UNCHANGED discoveryVars
    BY <1>1, <1>7 DEF discoveryVars, managerVars, listingVars, DiscoveryInv, DiscoveryTypeOK, ListingTypeOK,
       ScanOK, PruneOK, UpdateOK, Wanted, Unwanted, GoneAllAlong, LiveAllAlong
<1> QED BY <1>2, <1>3, <1>4, <1>5, <1>6, <1>7 DEF DiscoveryNext

(* The manager's workers are exact.  For any listing and page size, and    *)
(* whatever appears and disappears during a scan: streams that are live    *)
(* all along have a worker when it is over, and are not pruned, and those  *)
(* that were gone all along have none (streamDiscovery, streamsManager).   *)
THEOREM DiscoveryIsExact == DiscoverySpec => []DiscoveryExact
<1>1. ASSUME DiscoveryInv PROVE DiscoveryExact
    <2>1. ScanOK /\ PruneOK /\ UpdateOK
        BY <1>1 DEF DiscoveryInv
    <2>2. pruning => Wanted \subseteq complete /\ complete \subseteq workers
        BY <2>1 DEF PruneOK
    <2> QED BY <2>1, <2>2 DEF DiscoveryExact, UpdateOK
<1>2. DiscoveryInv /\ [DiscoveryNext]_discoveryVars => DiscoveryInv'
    BY DiscoveryStep
<1> QED BY <1>1, <1>2, DiscoveryInvInit, PTL DEF DiscoverySpec

-----------------------------------------------------------------------------
(***************************************************************************)
(* The iterator.  What it has returned, and the values it holds, come      *)
(* before the key of the next page, and every name that was live all along *)
(* is among them or after that key.                                        *)
(***************************************************************************)
ValuesOK ==
    /\ IsAscending(yielded) /\ IsAscending(values)
    /\ values # <<>> => /\ ~ fetching /\ ~ ended
                        /\ yielded # <<>> /\ yielded[Len(yielded)] = values[1]

KeyOK ==
    ~ done => /\ \A i \in 1 .. Len(yielded) : yielded[i] <= startAfter
              /\ \A i \in 1 .. Len(values) : values[i] <= startAfter

CoverOK ==
    \A n \in LiveAllAlong :
        \/ n \in ToSet(yielded) \/ n \in ToSet(values)
        \/ ~ done /\ n > startAfter

EndOK == (fetching => ~ done) /\ (ended /\ ~ err => done)

PagerInv == PagerTypeOK /\ ValuesOK /\ KeyOK /\ CoverOK /\ EndOK

(* The pager invariant holds before the first call. *)
LEMMA PagerInvInit == ListingInit /\ PagerInit => PagerInv
<1> SUFFICES ASSUME ListingInit, PagerInit PROVE PagerInv
    OBVIOUS
<1>1. PagerTypeOK
    <2>1. 0 \in 0 .. MaxChanges
        BY ListingAssumption
    <2>2. ListingTypeOK
        BY <2>1 DEF ListingInit, ListingTypeOK
    <2>3. <<>> \in Seq(Names)
        OBVIOUS
    <2> QED BY <2>2, <2>3 DEF PagerInit, PagerTypeOK
<1>2. \A n \in LiveAllAlong : n > startAfter
    BY ListingAssumption DEF PagerInit, LiveAllAlong, NoName
<1> QED BY <1>1, <1>2 DEF PagerInv, PagerInit, ValuesOK, KeyOK, CoverOK, EndOK, IsAscending

(* The elements of a sequence. *)
LEMMA ElementsOf ==
    ASSUME NEW s \in Seq(Names)
    PROVE  ToSet(s) = {s[i] : i \in 1 .. Len(s)}
BY DEF ToSet

(* The elements of a sequence of names are numbers. *)
LEMMA ElementsAreNumbers ==
    ASSUME NEW s \in Seq(Names)
    PROVE  \A i \in 1 .. Len(s) : s[i] \in Names /\ s[i] \in Nat
<1>1. \A i \in 1 .. Len(s) : s[i] \in Names
    OBVIOUS
<1> QED BY <1>1, NamesAreNumbers

(* Appending a name adds it to the elements of a sequence. *)
LEMMA ElementsOfAppend ==
    ASSUME NEW s \in Seq(Names), NEW n \in Names
    PROVE  ToSet(Append(s, n)) = ToSet(s) \cup {n}
<1>1. /\ Append(s, n) \in Seq(Names) /\ Len(Append(s, n)) = Len(s) + 1 /\ Len(s) \in Nat
      /\ \A i \in 1 .. Len(s) : Append(s, n)[i] = s[i]
      /\ Append(s, n)[Len(s) + 1] = n
    OBVIOUS
<1>2. ToSet(Append(s, n)) = {Append(s, n)[i] : i \in 1 .. Len(s) + 1} /\ ToSet(s) = {s[i] : i \in 1 .. Len(s)}
    BY <1>1, ElementsOf
<1>3. 1 .. Len(s) + 1 = (1 .. Len(s)) \cup {Len(s) + 1}
    BY <1>1
<1> QED BY <1>1, <1>2, <1>3

(* Values that follow everything returned keep the order when Next takes   *)
(* the first of them.                                                      *)
LEMMA DeliverKeepsOrder ==
    ASSUME PagerTypeOK, IsAscending(yielded), NEW vs \in Seq(Names), IsAscending(vs), vs # <<>>,
           \A i \in 1 .. Len(yielded) : \A j \in 1 .. Len(vs) : yielded[i] < vs[j]
    PROVE  /\ Append(yielded, Head(vs)) \in Seq(Names)
           /\ IsAscending(Append(yielded, Head(vs)))
           /\ Append(yielded, Head(vs)) # <<>>
           /\ Append(yielded, Head(vs))[Len(Append(yielded, Head(vs)))] = vs[1]
           /\ ToSet(Append(yielded, Head(vs))) = ToSet(yielded) \cup {vs[1]}
           /\ \A i \in 1 .. Len(Append(yielded, Head(vs))) : i <= Len(yielded) \/ Append(yielded, Head(vs))[i] = vs[1]
           /\ \A i \in 1 .. Len(yielded) : Append(yielded, Head(vs))[i] = yielded[i]
<1>1. yielded \in Seq(Names) /\ Head(vs) = vs[1] /\ vs[1] \in Names /\ 1 \in 1 .. Len(vs)
    BY DEF PagerTypeOK
<1> DEFINE y == Append(yielded, Head(vs))
<1>2. /\ y \in Seq(Names) /\ Len(y) = Len(yielded) + 1 /\ Len(yielded) \in Nat
      /\ \A i \in 1 .. Len(yielded) : y[i] = yielded[i]
      /\ y[Len(yielded) + 1] = vs[1]
    BY <1>1
<1>3. ToSet(y) = ToSet(yielded) \cup {vs[1]}
    BY <1>1, ElementsOfAppend
<1> HIDE DEF y
<1>4. IsAscending(y)
    <2> SUFFICES ASSUME NEW i \in 1 .. Len(y), NEW j \in 1 .. Len(y), i < j PROVE y[i] < y[j]
        BY DEF IsAscending
    <2>1. i \in 1 .. Len(yielded) /\ y[i] = yielded[i]
        BY <1>2
    <2>2. CASE j \in 1 .. Len(yielded)
        BY <1>2, <2>1, <2>2 DEF IsAscending
    <2>3. CASE j = Len(yielded) + 1
        BY <1>1, <1>2, <2>1, <2>3
    <2> QED BY <1>2, <2>2, <2>3
<1>5. y # <<>> /\ y[Len(y)] = vs[1] /\ \A i \in 1 .. Len(y) : i <= Len(yielded) \/ y[i] = vs[1]
    BY <1>2
<1> QED BY <1>2, <1>3, <1>4, <1>5 DEF y

(* Returning the next value of the page in hand, or finding none left,     *)
(* keeps the pager invariant.                                              *)
LEMMA NextValueKeeps ==
    ASSUME PagerInv, NextValue
    PROVE  PagerInv'
<1> DEFINE rest == IF values = <<>> THEN <<>> ELSE Tail(values)
<1>1. PagerTypeOK /\ ValuesOK /\ KeyOK /\ CoverOK /\ EndOK /\ values \in Seq(Names) /\ yielded \in Seq(Names)
    BY DEF PagerInv, PagerTypeOK
<1>2. /\ ~ fetching /\ ~ ended /\ values' = rest
      /\ rest = <<>> /\ ~ done => fetching' = TRUE /\ UNCHANGED <<ended, yielded>>
      /\ ~ (rest = <<>> /\ ~ done) =>
            /\ fetching' = FALSE /\ ended' = (rest = <<>>)
            /\ yielded' = IF rest = <<>> THEN yielded ELSE Append(yielded, Head(rest))
      /\ UNCHANGED <<listing, changed, changes, includeDeleted, startAfter, done, err>>
    BY DEF NextValue, Deliver, listingVars
<1>3. /\ rest \in Seq(Names)
      /\ \A i \in 1 .. Len(rest) : i + 1 \in 1 .. Len(values) /\ rest[i] = values[i + 1]
      /\ values # <<>> => Len(rest) = Len(values) - 1 /\ Len(values) \in Nat /\ Len(values) >= 1
    BY <1>1
<1> HIDE DEF rest
<1>4. IsAscending(rest)
    BY <1>1, <1>3 DEF ValuesOK, IsAscending
<1>5. LiveAllAlong' = LiveAllAlong
    BY <1>2 DEF LiveAllAlong
<1>6. ToSet(values) \subseteq ToSet(yielded) \cup ToSet(rest)
    <2>1. ASSUME NEW i \in 1 .. Len(values) PROVE values[i] \in ToSet(yielded) \cup ToSet(rest)
        <3>1. values # <<>>
            BY <1>1
        <3>2. CASE i = 1
            <4>1. yielded # <<>> /\ yielded[Len(yielded)] = values[1] /\ Len(yielded) \in 1 .. Len(yielded)
                BY <1>1, <3>1 DEF ValuesOK
            <4> QED BY <1>1, <3>2, <4>1, ElementsOf
        <3>3. CASE i # 1
            <4>1. i - 1 \in 1 .. Len(rest) /\ values[i] = rest[i - 1]
                BY <1>3, <3>1, <3>3
            <4> QED BY <1>3, <4>1, ElementsOf
        <3> QED BY <3>2, <3>3
    <2> QED BY <1>1, <2>1, ElementsOf
<1>7. ToSet(yielded) \subseteq ToSet(yielded') /\ yielded' \in Seq(Names) /\ IsAscending(yielded')
      /\ (rest # <<>> => yielded' # <<>> /\ yielded'[Len(yielded')] = rest[1])
      /\ (~ done => \A i \in 1 .. Len(yielded') : yielded'[i] <= startAfter)
    <2>1. CASE rest = <<>>
        <3>1. yielded' = yielded
            BY <1>2, <2>1
        <3> QED BY <1>1, <2>1, <3>1 DEF ValuesOK, KeyOK
    <2>2. CASE rest # <<>>
        <3>1. values # <<>> /\ Len(values) >= 2 /\ 1 \in 1 .. Len(rest)
            BY <1>3, <2>2 DEF rest
        <3>2. yielded' = Append(yielded, Head(rest))
            BY <1>2, <2>2
        <3>3. ASSUME NEW i \in 1 .. Len(yielded), NEW j \in 1 .. Len(rest) PROVE yielded[i] < rest[j]
            <4>0. Len(yielded) \in 1 .. Len(yielded)
                BY <1>1
            <4>1. /\ yielded[i] \in Nat /\ yielded[Len(yielded)] \in Nat /\ rest[j] \in Nat
                  /\ i = Len(yielded) \/ yielded[i] < yielded[Len(yielded)]
                <5>1. yielded[i] \in Nat /\ yielded[Len(yielded)] \in Nat /\ rest[j] \in Nat
                    BY <1>1, <1>3, <4>0, ElementsAreNumbers
                <5>2. i = Len(yielded) \/ yielded[i] < yielded[Len(yielded)]
                    BY <1>1, <4>0 DEF ValuesOK, IsAscending
                <5> QED BY <5>1, <5>2
            <4>2. yielded[Len(yielded)] = values[1] /\ values[1] < rest[j]
                BY <1>1, <1>3, <3>1 DEF ValuesOK, IsAscending
            <4> QED BY <4>1, <4>2
        <3>4. ~ done => rest[1] <= startAfter /\ \A i \in 1 .. Len(yielded) : yielded[i] <= startAfter
            BY <1>1, <1>3, <3>1 DEF KeyOK
        <3>5. IsAscending(yielded)
            BY <1>1 DEF ValuesOK
        <3>6. /\ yielded' \in Seq(Names)
              /\ IsAscending(yielded')
              /\ yielded' # <<>>
              /\ yielded'[Len(yielded')] = rest[1]
              /\ ToSet(yielded') = ToSet(yielded) \cup {rest[1]}
              /\ \A i \in 1 .. Len(yielded') : i <= Len(yielded) \/ yielded'[i] = rest[1]
              /\ \A i \in 1 .. Len(yielded) : yielded'[i] = yielded[i]
            BY <1>1, <1>3, <1>4, <2>2, <3>2, <3>3, <3>5, DeliverKeepsOrder
        <3>7. ASSUME ~ done, NEW i \in 1 .. Len(yielded') PROVE yielded'[i] <= startAfter
            <4>1. i \in 1 .. Len(yielded) \/ yielded'[i] = rest[1]
                BY <1>1, <3>6
            <4> QED BY <3>4, <3>6, <3>7, <4>1
        <3> QED BY <3>6, <3>7
    <2> QED BY <2>1, <2>2
<1>8. PagerTypeOK'
    <2>1. fetching' \in BOOLEAN /\ ended' \in BOOLEAN
        BY <1>1, <1>2 DEF PagerTypeOK
    <2> QED BY <1>1, <1>2, <1>3, <1>7, <2>1 DEF PagerTypeOK, ListingTypeOK
<1>9. ValuesOK'
    <2>1. rest # <<>> => ~ fetching' /\ ~ ended'
        BY <1>2
    <2> QED BY <1>2, <1>4, <1>7, <2>1 DEF ValuesOK, IsAscending
<1>10. KeyOK'
    BY <1>1, <1>2, <1>3, <1>7 DEF KeyOK
<1>11. CoverOK'
    BY <1>1, <1>2, <1>5, <1>6, <1>7 DEF CoverOK
<1>12. EndOK'
    <2>1. CASE rest = <<>> /\ ~ done
        BY <1>1, <1>2, <2>1 DEF EndOK
    <2>2. CASE ~ (rest = <<>> /\ ~ done)
        <3>1. fetching' = FALSE /\ (ended' => rest = <<>>) /\ done' = done
            BY <1>2, <2>2
        <3>2. ended' => done
            BY <2>2, <3>1
        <3> QED BY <3>1, <3>2 DEF EndOK
    <2> QED BY <2>1, <2>2
<1> QED BY <1>8, <1>9, <1>10, <1>11, <1>12 DEF PagerInv

(* Fetching a page keeps the pager invariant. *)
LEMMA FetchPageKeeps ==
    ASSUME PagerInv, FetchPage
    PROVE  PagerInv'
<1> DEFINE page == Page(startAfter)
           items == IF includeDeleted THEN page ELSE NotDeleted(page)
           next == NextKey(page, HasMore(startAfter))
<1>1. PagerTypeOK /\ ValuesOK /\ KeyOK /\ CoverOK /\ EndOK /\ yielded \in Seq(Names)
      /\ startAfter \in Names \cup {NoName} /\ values = <<>> /\ ~ done /\ fetching
    BY DEF PagerInv, PagerTypeOK, ValuesOK, EndOK, FetchPage
<1>2. /\ page \in Seq(Names) /\ IsAscending(page) /\ ToSet(page) \subseteq Shown(startAfter)
      /\ next \in Names \cup {NoName}
      /\ next = NoName => ToSet(page) = Shown(startAfter)
      /\ next # NoName => /\ next > startAfter
                          /\ \A n \in ToSet(page) : n <= next
                          /\ \A n \in Shown(startAfter) : n <= next => n \in ToSet(page)
    BY <1>1, PageIs
<1>3. /\ values' = items /\ done' = (done \/ next = NoName)
      /\ startAfter' = IF next = NoName THEN startAfter ELSE next
      /\ items = <<>> /\ ~ done' => UNCHANGED <<fetching, ended, yielded>>
      /\ ~ (items = <<>> /\ ~ done') =>
            /\ fetching' = FALSE /\ ended' = (items = <<>>)
            /\ yielded' = IF items = <<>> THEN yielded ELSE Append(yielded, Head(items))
      /\ UNCHANGED <<listing, changed, changes, includeDeleted, err>>
    BY DEF FetchPage, Deliver, listingVars
<1>4. /\ items \in Seq(Names) /\ IsAscending(items) /\ ToSet(items) \subseteq ToSet(page)
      /\ \A n \in ToSet(page) : listing[n] = "live" => n \in ToSet(items)
    <2> HIDE DEF page
    <2>1. CASE includeDeleted
        BY <1>2, <2>1
    <2>2. CASE ~ includeDeleted
        BY <1>2, <2>2, NotDeletedIs
    <2> QED BY <2>1, <2>2
<1> HIDE DEF page, items, next
<1>5. ToSet(items) = {items[i] : i \in 1 .. Len(items)}
    BY <1>4, ElementsOf
<1>6. \A i \in 1 .. Len(items) : items[i] > startAfter /\ (next # NoName => items[i] <= next)
    BY <1>2, <1>4, <1>5 DEF Shown
<1>7. startAfter \in Nat /\ next \in Nat /\ \A i \in 1 .. Len(yielded) : yielded[i] \in Nat
    <2>1. startAfter \in Nat /\ next \in Nat
        BY <1>1, <1>2, NamesAreNumbers
    <2> QED BY <1>1, <2>1, ElementsAreNumbers
<1>8. ToSet(yielded) \subseteq ToSet(yielded') /\ yielded' \in Seq(Names) /\ IsAscending(yielded')
      /\ (items # <<>> => yielded' # <<>> /\ yielded'[Len(yielded')] = items[1])
      /\ (next # NoName => \A i \in 1 .. Len(yielded') : yielded'[i] <= next)
    <2>0. next # NoName => \A i \in 1 .. Len(yielded) : yielded[i] <= next
        BY <1>1, <1>2, <1>7 DEF KeyOK
    <2>1. CASE items = <<>>
        <3>1. yielded' = yielded
            BY <1>3, <2>1
        <3> QED BY <1>1, <2>0, <2>1, <3>1 DEF ValuesOK
    <2>2. CASE items # <<>>
        <3>1. yielded' = Append(yielded, Head(items)) /\ 1 \in 1 .. Len(items)
            BY <1>3, <1>4, <2>2
        <3>2. ASSUME NEW i \in 1 .. Len(yielded), NEW j \in 1 .. Len(items) PROVE yielded[i] < items[j]
            <4>1. items[j] \in Nat
                BY <1>4, ElementsAreNumbers
            <4> QED BY <1>1, <1>6, <1>7, <4>1 DEF KeyOK
        <3>3. IsAscending(yielded)
            BY <1>1 DEF ValuesOK
        <3>4. /\ yielded' \in Seq(Names)
              /\ IsAscending(yielded')
              /\ yielded' # <<>>
              /\ yielded'[Len(yielded')] = items[1]
              /\ ToSet(yielded') = ToSet(yielded) \cup {items[1]}
              /\ \A i \in 1 .. Len(yielded') : i <= Len(yielded) \/ yielded'[i] = items[1]
              /\ \A i \in 1 .. Len(yielded) : yielded'[i] = yielded[i]
            BY <1>1, <1>4, <2>2, <3>1, <3>2, <3>3, DeliverKeepsOrder
        <3>5. ASSUME next # NoName, NEW i \in 1 .. Len(yielded') PROVE yielded'[i] <= next
            <4>1. i \in 1 .. Len(yielded) \/ yielded'[i] = items[1]
                BY <1>1, <3>4
            <4> QED BY <1>6, <2>0, <3>1, <3>4, <3>5, <4>1
        <3> QED BY <3>4, <3>5
    <2> QED BY <2>1, <2>2
<1>9. PagerTypeOK'
    <2>1. fetching' \in BOOLEAN /\ ended' \in BOOLEAN /\ done' \in BOOLEAN /\ startAfter' \in Names \cup {NoName}
        BY <1>1, <1>2, <1>3 DEF PagerTypeOK
    <2> QED BY <1>1, <1>3, <1>4, <1>8, <2>1 DEF PagerTypeOK, ListingTypeOK
<1>10. ValuesOK'
    <2>1. items # <<>> => ~ fetching' /\ ~ ended'
        BY <1>3
    <2> QED BY <1>3, <1>4, <1>8, <2>1 DEF ValuesOK, IsAscending
<1>11. KeyOK'
    BY <1>3, <1>6, <1>8 DEF KeyOK
<1>12. CoverOK'
    <2> SUFFICES ASSUME NEW n \in LiveAllAlong'
                 PROVE  n \in ToSet(yielded') \/ n \in ToSet(items) \/ (~ done' /\ n > startAfter')
        BY <1>3 DEF CoverOK
    <2>1. n \in LiveAllAlong /\ n \in Names /\ listing[n] = "live" /\ n \in Nat
        BY <1>3, NamesAreNumbers DEF LiveAllAlong
    <2>2. CASE n \in ToSet(yielded)
        BY <1>8, <2>2
    <2>3. CASE n \notin ToSet(yielded)
        <3>1. n > startAfter
            <4>1. ToSet(values) = {}
                BY <1>1 DEF ToSet
            <4> QED BY <1>1, <2>1, <2>3, <4>1 DEF CoverOK
        <3>2. n \in Shown(startAfter)
            BY <2>1, <3>1 DEF Shown
        <3>3. CASE n \in ToSet(page)
            BY <1>4, <2>1, <3>3
        <3>4. CASE n \notin ToSet(page)
            <4>1. next # NoName /\ n > next
                BY <1>2, <1>7, <2>1, <3>2, <3>4
            <4> QED BY <1>1, <1>3, <4>1
        <3> QED BY <3>3, <3>4
    <2> QED BY <2>2, <2>3
<1>13. EndOK'
    <2>1. CASE next = NoName
        <3>1. done' /\ fetching' = FALSE
            BY <1>3, <2>1
        <3> QED BY <3>1 DEF EndOK
    <2>2. CASE next # NoName
        <3>1. ~ done'
            BY <1>1, <1>3, <2>2
        <3>2. items = <<>> => ended' = ended /\ err' = err
            BY <1>3, <3>1
        <3>3. items # <<>> => ~ ended'
            BY <1>3
        <3> QED BY <1>1, <3>1, <3>2, <3>3 DEF EndOK
    <2> QED BY <2>1, <2>2
<1> QED BY <1>9, <1>10, <1>11, <1>12, <1>13 DEF PagerInv

(* Every step of the pager keeps its invariant. *)
LEMMA PagerStep ==
    ASSUME PagerInv, [PagerNext]_pagerVars
    PROVE  PagerInv'
<1>1. PagerTypeOK /\ ListingTypeOK /\ ValuesOK /\ KeyOK /\ CoverOK /\ EndOK
    BY DEF PagerInv, PagerTypeOK
<1>2. CASE NextValue
    BY <1>2, NextValueKeeps
<1>3. CASE FetchPage
    BY <1>3, FetchPageKeeps
<1>4. CASE FetchFails
    <2>1. /\ fetching /\ err' = TRUE /\ fetching' = FALSE /\ ended' = TRUE
          /\ UNCHANGED <<listing, changed, changes, includeDeleted, startAfter, done, values, yielded>>
        BY <1>4 DEF FetchFails, listingVars
    <2>2. PagerTypeOK' /\ ValuesOK'
        BY <1>1, <2>1 DEF PagerTypeOK, ListingTypeOK, ValuesOK, IsAscending
    <2>3. KeyOK' /\ CoverOK' /\ EndOK'
        BY <1>1, <2>1 DEF KeyOK, CoverOK, EndOK, LiveAllAlong
    <2> QED BY <2>2, <2>3 DEF PagerInv
<1>5. ASSUME NEW n \in Names, ListingChanges(n), UNCHANGED iterVars PROVE PagerInv'
    <2>1. UNCHANGED <<includeDeleted, startAfter, done, values, err, fetching, ended, yielded>>
        BY <1>5 DEF iterVars
    <2>2. ListingTypeOK' /\ LiveAllAlong' \subseteq LiveAllAlong
        BY <1>1, <1>5, ChangeShrinks
    <2>3. PagerTypeOK' /\ ValuesOK'
        BY <1>1, <2>1, <2>2 DEF PagerTypeOK, ValuesOK, IsAscending
    <2>4. KeyOK' /\ CoverOK' /\ EndOK'
        BY <1>1, <2>1, <2>2 DEF KeyOK, CoverOK, EndOK
    <2> QED BY <2>3, <2>4 DEF PagerInv
<1>6. CASE UNCHANGED pagerVars
    BY <1>1, <1>6 DEF pagerVars, iterVars, listingVars, PagerInv, PagerTypeOK, ListingTypeOK,
       ValuesOK, IsAscending, KeyOK, CoverOK, EndOK, LiveAllAlong
<1> QED BY <1>2, <1>3, <1>4, <1>5, <1>6 DEF PagerNext

(* Iterators return every name once and in order, and skip none that was   *)
(* live all along, whatever the page size, however other clients change    *)
(* the listing between two pages, and whichever page fails (pager.Next).   *)
THEOREM ListsExactly == PagerSpec => []ListedExactly
<1>1. ASSUME PagerInv PROVE ListedExactly
    <2>1. PagerTypeOK /\ ValuesOK /\ KeyOK /\ CoverOK /\ EndOK /\ values \in Seq(Names) /\ yielded \in Seq(Names)
        BY <1>1 DEF PagerInv, PagerTypeOK
    <2>2. \A i, j \in 1 .. Len(yielded) : i < j => yielded[i] < yielded[j]
        BY <2>1 DEF ValuesOK, IsAscending
    <2>3. ASSUME NEW n \in LiveAllAlong, n \notin ToSet(yielded), NEW i \in 1 .. Len(yielded)
          PROVE  yielded[i] < n
        <3>0. n \in Nat /\ yielded[i] \in Nat /\ startAfter \in Nat /\ yielded[Len(yielded)] \in Nat
            <4>1. n \in Nat /\ startAfter \in Nat
                BY <2>1, NamesAreNumbers DEF LiveAllAlong, PagerTypeOK
            <4>2. Len(yielded) \in 1 .. Len(yielded)
                BY <2>1
            <4> QED BY <2>1, <4>1, <4>2, ElementsAreNumbers
        <3>1. CASE n \in ToSet(values)
            <4>1. PICK j \in 1 .. Len(values) : n = values[j]
                BY <2>1, <3>1, ElementsOf
            <4>2. values # <<>> /\ yielded[Len(yielded)] = values[1] /\ Len(yielded) \in 1 .. Len(yielded)
                BY <2>1, <4>1 DEF ValuesOK
            <4>3. values[1] \in ToSet(yielded)
                BY <2>1, <4>2, ElementsOf
            <4>4. j # 1 /\ values[1] < values[j]
                BY <2>1, <2>3, <4>1, <4>3 DEF ValuesOK, IsAscending
            <4>5. i = Len(yielded) \/ yielded[i] < yielded[Len(yielded)]
                BY <2>1, <2>2, <4>2
            <4> QED BY <3>0, <4>1, <4>2, <4>4, <4>5
        <3>2. CASE n \notin ToSet(values)
            BY <2>1, <2>3, <3>0, <3>2 DEF CoverOK, KeyOK
        <3> QED BY <3>1, <3>2
    <2>4. ASSUME ended, ~ err PROVE LiveAllAlong \subseteq ToSet(yielded)
        <3>1. values = <<>> /\ done
            BY <2>1, <2>4 DEF ValuesOK, EndOK
        <3>2. ToSet(values) = {}
            BY <3>1 DEF ToSet
        <3> QED BY <2>1, <3>1, <3>2 DEF CoverOK
    <2> QED BY <2>2, <2>3, <2>4 DEF ListedExactly
<1>2. PagerInv /\ [PagerNext]_pagerVars => PagerInv'
    BY PagerStep
<1> QED BY <1>1, <1>2, PagerInvInit, PTL DEF PagerSpec

-----------------------------------------------------------------------------
(***************************************************************************)
(* Concatenation: FlattenSeq is defined by a recursive function, which     *)
(* exists and gives its equation.                                          *)
(***************************************************************************)
Flattening(f, s, n) == f = [i \in 1 .. n |-> IF i = 1 THEN s[i] ELSE f[i - 1] \o s[i]]

(* The function by which FlattenSeq is defined exists, whatever the        *)
(* length.                                                                 *)
LEMMA FlatteningExists ==
    ASSUME NEW s
    PROVE  \A n \in Nat : \E f : Flattening(f, s, n)
<1> DEFINE S == {n \in Nat : \E f : Flattening(f, s, n)}
<1>1. 0 \in S
    <2> DEFINE f == [i \in 1 .. 0 |-> 0]
    <2>1. Flattening(f, s, 0)
        BY DEF Flattening
    <2> QED BY <2>1
<1>2. ASSUME NEW n \in Nat, n \in S PROVE n + 1 \in S
    <2>1. PICK f : Flattening(f, s, n)
        BY <1>2
    <2> DEFINE g == [i \in 1 .. n + 1 |-> IF i <= n THEN f[i] ELSE IF i = 1 THEN s[i] ELSE f[n] \o s[i]]
    <2>2. ASSUME NEW i \in 1 .. n + 1 PROVE g[i] = IF i = 1 THEN s[i] ELSE g[i - 1] \o s[i]
        <3>1. CASE i <= n
            <4>1. i \in 1 .. n /\ g[i] = f[i]
                BY <3>1
            <4>2. f[i] = IF i = 1 THEN s[i] ELSE f[i - 1] \o s[i]
                BY <2>1, <4>1 DEF Flattening
            <4>3. i # 1 => i - 1 \in 1 .. n + 1 /\ g[i - 1] = f[i - 1]
                BY <3>1
            <4> QED BY <4>1, <4>2, <4>3
        <3>2. CASE i = n + 1
            <4>1. ~(i <= n) /\ i - 1 = n /\ (i # 1 => n \in 1 .. n + 1 /\ n <= n)
                BY <3>2
            <4>2. i # 1 => g[n] = f[n]
                BY <4>1
            <4>3. g[i] = IF i = 1 THEN s[i] ELSE f[n] \o s[i]
                BY <4>1
            <4> QED BY <4>1, <4>2, <4>3
        <3> QED BY <3>1, <3>2
    <2>3. Flattening(g, s, n + 1)
        BY <2>2 DEF Flattening
    <2> QED BY <2>3
<1> HIDE DEF S
<1>3. \A n \in Nat : n \in S
    BY <1>1, <1>2, SetInduction
<1> QED BY <1>3 DEF S

(* FlattenSeq is the last value of that function. *)
LEMMA FlattenIs ==
    ASSUME NEW s, Len(s) \in Nat
    PROVE  /\ Len(s) = 0 => FlattenSeq(s) = s
           /\ Len(s) # 0 => \E f : Flattening(f, s, Len(s)) /\ FlattenSeq(s) = f[Len(s)]
<1> DEFINE f == CHOOSE f : Flattening(f, s, Len(s))
<1>1. Flattening(f, s, Len(s))
    BY FlatteningExists
<1>2. FlattenSeq(s) = IF Len(s) = 0 THEN s ELSE f[Len(s)]
    BY DEF FlattenSeq, Flattening
<1> HIDE DEF f
<1> QED BY <1>1, <1>2

(* One more sequence is put at the end. *)
LEMMA FlattenAppended ==
    ASSUME NEW X, NEW s \in Seq(Seq(X)), NEW t \in Seq(Seq(X)), Len(t) = Len(s) + 1,
           \A i \in 1 .. Len(s) : t[i] = s[i]
    PROVE  FlattenSeq(t) = FlattenSeq(s) \o t[Len(t)]
<1> DEFINE n == Len(s)
<1>1. n \in Nat /\ Len(t) = n + 1 /\ n + 1 \in Nat /\ n + 1 # 0
    OBVIOUS
<1>2. PICK g : Flattening(g, t, n + 1) /\ FlattenSeq(t) = g[n + 1]
    BY <1>1, FlattenIs
<1>3. \A i \in 1 .. n + 1 : g[i] = IF i = 1 THEN t[i] ELSE g[i - 1] \o t[i]
    BY <1>2 DEF Flattening
<1>4. CASE n = 0
    <2>1. s = <<>> /\ FlattenSeq(s) = s
        BY <1>4, FlattenIs
    <2>2. g[1] = t[1] /\ t[1] \in Seq(X) /\ 1 = n + 1
        BY <1>1, <1>3, <1>4
    <2> QED BY <1>1, <1>2, <2>1, <2>2
<1>5. CASE n # 0
    <2>1. PICK f : Flattening(f, s, n) /\ FlattenSeq(s) = f[n]
        BY <1>1, <1>5, FlattenIs
    <2>2. \A i \in 1 .. n : f[i] = IF i = 1 THEN s[i] ELSE f[i - 1] \o s[i]
        BY <2>1 DEF Flattening
    <2> DEFINE S == {i \in Nat : i \in 1 .. n => f[i] = g[i]}
    <2>3. 0 \in S
        OBVIOUS
    <2>4. ASSUME NEW i \in Nat, i \in S PROVE i + 1 \in S
        <3> SUFFICES ASSUME i + 1 \in 1 .. n PROVE f[i + 1] = g[i + 1]
            OBVIOUS
        <3>1. i + 1 \in 1 .. n + 1 /\ t[i + 1] = s[i + 1] /\ (i + 1) - 1 = i
            BY <1>1
        <3>2. CASE i = 0
            BY <1>3, <2>2, <3>1, <3>2
        <3>3. CASE i # 0
            <4>1. i \in 1 .. n /\ i + 1 # 1
                BY <1>1, <3>3
            <4> QED BY <1>3, <2>2, <2>4, <3>1, <4>1
        <3> QED BY <3>2, <3>3
    <2> HIDE DEF S
    <2>5. n \in S
        BY <1>1, <2>3, <2>4, SetInduction
    <2>6. f[n] = g[n]
        BY <1>1, <1>5, <2>5 DEF S
    <2>7. g[n + 1] = g[n] \o t[n + 1]
        <3>1. n + 1 \in 1 .. n + 1 /\ n + 1 # 1 /\ (n + 1) - 1 = n
            BY <1>1, <1>5
        <3> QED BY <1>3, <3>1
    <2> QED BY <1>1, <1>2, <2>1, <2>6, <2>7
<1> QED BY <1>4, <1>5

-----------------------------------------------------------------------------
(***************************************************************************)
(* The wire.                                                               *)
(***************************************************************************)
Bytes == Nat \X Nat

(* The first n frames on the wire, and how many bytes they take. *)
FirstFrames(n) == [i \in 1 .. n |-> CreateFrame(i)]
FlatTo(n) == FlattenSeq(FirstFrames(n))
Offset(n) == Len(FlatTo(n))

FramesOK == frames \in Seq(SentFrames)

(* A frame on the wire is its three length bytes and its body. *)
LEMMA SizesAre ==
    ASSUME FramesOK, NEW i \in 1 .. Len(frames)
    PROVE  /\ frames[i].length \in Nat
           /\ CreateFrame(i) \in Seq(Bytes)
           /\ Len(CreateFrame(i)) = 3 + frames[i].length
           /\ \A k \in 1 .. 3 + frames[i].length : CreateFrame(i)[k] = <<i, k>>
<1>1. frames[i] \in SentFrames
    BY DEF FramesOK
<1>2. MaxFrameSize \in Nat
    BY FrameAssumption
<1>3. frames[i].length \in Nat
    BY <1>1, <1>2 DEF SentFrames, Frame
<1>4. CreateFrame(i) \in [1 .. 3 + frames[i].length -> Bytes]
    BY <1>3 DEF CreateFrame, Bytes
<1>5. \A k \in 1 .. 3 + frames[i].length : CreateFrame(i)[k] = <<i, k>>
    BY DEF CreateFrame
<1> QED BY <1>3, <1>4, <1>5

(* One more frame on the wire is that frame appended. *)
LEMMA FlatStep ==
    ASSUME FramesOK, NEW n \in 0 .. Len(frames)
    PROVE  /\ FlatTo(0) = <<>>
           /\ n < Len(frames) => FlatTo(n + 1) = FlatTo(n) \o CreateFrame(n + 1)
<1>0. Len(frames) \in Nat
    BY DEF FramesOK
<1>1. ASSUME NEW m \in 0 .. Len(frames)
      PROVE  FirstFrames(m) \in Seq(Seq(Bytes)) /\ Len(FirstFrames(m)) = m
    <2>1. \A i \in 1 .. m : CreateFrame(i) \in Seq(Bytes)
        BY <1>0, SizesAre
    <2>2. FirstFrames(m) \in [1 .. m -> Seq(Bytes)]
        BY <2>1 DEF FirstFrames
    <2> QED BY <1>0, <2>2
<1>2. FlatTo(0) = <<>>
    <2>1. Len(FirstFrames(0)) = 0 /\ FirstFrames(0) = <<>>
        BY <1>0, <1>1
    <2> QED BY <2>1, FlattenIs DEF FlatTo
<1>3. ASSUME n < Len(frames) PROVE FlatTo(n + 1) = FlatTo(n) \o CreateFrame(n + 1)
    <2>1. n + 1 \in 0 .. Len(frames) /\ n + 1 \in 1 .. n + 1
        BY <1>0, <1>3
    <2>2. /\ FirstFrames(n) \in Seq(Seq(Bytes)) /\ Len(FirstFrames(n)) = n
          /\ FirstFrames(n + 1) \in Seq(Seq(Bytes)) /\ Len(FirstFrames(n + 1)) = n + 1
        BY <1>1, <2>1
    <2>3. \A i \in 1 .. n : FirstFrames(n + 1)[i] = FirstFrames(n)[i]
        BY DEF FirstFrames
    <2>4. FirstFrames(n + 1)[n + 1] = CreateFrame(n + 1)
        BY <2>1 DEF FirstFrames
    <2>5. FlattenSeq(FirstFrames(n + 1)) = FlattenSeq(FirstFrames(n)) \o FirstFrames(n + 1)[n + 1]
        BY <2>2, <2>3, FlattenAppended
    <2> QED BY <2>4, <2>5 DEF FlatTo
<1> QED BY <1>2, <1>3

(* Frame by frame and byte by byte, the wire is what was sent. *)
WireTo(n) ==
    /\ FlatTo(n) \in Seq(Bytes)
    /\ \A i \in 0 .. n : Offset(i) \in Nat /\ Offset(i) <= Offset(n)
    /\ \A i \in 0 .. n - 1 :
          /\ Offset(i + 1) = Offset(i) + 3 + frames[i + 1].length
          /\ \A k \in 1 .. 3 + frames[i + 1].length : FlatTo(n)[Offset(i) + k] = <<i + 1, k>>

(* The wire up to a frame is as long as the frames so far, and each frame  *)
(* stands at its offset.                                                   *)
LEMMA WireIs ==
    ASSUME FramesOK
    PROVE  \A n \in 0 .. Len(frames) : WireTo(n)
<1>0. Len(frames) \in Nat
    BY DEF FramesOK
<1> DEFINE S == {n \in Nat : n <= Len(frames) => WireTo(n)}
<1>1. 0 \in S
    <2>1. FlatTo(0) = <<>> /\ Offset(0) = 0
        BY <1>0, FlatStep DEF Offset
    <2>2. \A i \in 0 .. 0 : i = 0
        OBVIOUS
    <2>3. 0 .. 0 - 1 = {} /\ <<>> \in Seq(Bytes)
        OBVIOUS
    <2>4. WireTo(0)
        <3>1. FlatTo(0) \in Seq(Bytes)
            BY <2>1, <2>3
        <3>2. \A i \in 0 .. 0 : Offset(i) \in Nat /\ Offset(i) <= Offset(0)
            BY <2>1, <2>2
        <3> QED BY <2>3, <3>1, <3>2 DEF WireTo
    <2> QED BY <2>4
<1>2. ASSUME NEW n \in Nat, n \in S PROVE n + 1 \in S
    <2> SUFFICES ASSUME n + 1 <= Len(frames) PROVE WireTo(n + 1)
        OBVIOUS
    <2>1. WireTo(n) /\ n \in 0 .. Len(frames) /\ n < Len(frames) /\ n + 1 \in 1 .. Len(frames)
        BY <1>0, <1>2
    <2>2. FlatTo(n + 1) = FlatTo(n) \o CreateFrame(n + 1)
        BY <2>1, FlatStep
    <2>3. /\ frames[n + 1].length \in Nat
          /\ CreateFrame(n + 1) \in Seq(Bytes)
          /\ Len(CreateFrame(n + 1)) = 3 + frames[n + 1].length
          /\ \A k \in 1 .. 3 + frames[n + 1].length : CreateFrame(n + 1)[k] = <<n + 1, k>>
        BY <2>1, SizesAre
    <2>4. FlatTo(n) \in Seq(Bytes) /\ Offset(n) = Len(FlatTo(n)) /\ Offset(n) \in Nat
        BY <2>1 DEF WireTo, Offset
    <2>5. /\ FlatTo(n + 1) \in Seq(Bytes)
          /\ Len(FlatTo(n + 1)) = Offset(n) + 3 + frames[n + 1].length
          /\ \A j \in 1 .. Offset(n) : FlatTo(n + 1)[j] = FlatTo(n)[j]
          /\ \A k \in 1 .. 3 + frames[n + 1].length : FlatTo(n + 1)[Offset(n) + k] = <<n + 1, k>>
        <3> DEFINE a == FlatTo(n)
                   c == CreateFrame(n + 1)
                   m == 3 + frames[n + 1].length
        <3>1. a \in Seq(Bytes) /\ c \in Seq(Bytes) /\ Len(c) = m /\ Len(a) = Offset(n) /\ m \in Nat
            BY <2>3, <2>4
        <3>2. FlatTo(n + 1) = a \o c
            BY <2>2
        <3>3. \A k \in 1 .. m : c[k] = <<n + 1, k>>
            BY <2>3
        <3> HIDE DEF a, c, m
        <3>4. /\ a \o c \in Seq(Bytes) /\ Len(a \o c) = Len(a) + m
              /\ \A j \in 1 .. Len(a) : (a \o c)[j] = a[j]
              /\ \A k \in 1 .. m : (a \o c)[Len(a) + k] = c[k]
            BY <3>1
        <3>5. /\ FlatTo(n + 1) \in Seq(Bytes) /\ Len(FlatTo(n + 1)) = Offset(n) + m
              /\ \A j \in 1 .. Offset(n) : FlatTo(n + 1)[j] = a[j]
              /\ \A k \in 1 .. m : FlatTo(n + 1)[Offset(n) + k] = <<n + 1, k>>
            BY <3>1, <3>2, <3>3, <3>4
        <3>6. Offset(n) + m = Offset(n) + 3 + frames[n + 1].length
            <4>1. Offset(n) \in Nat /\ frames[n + 1].length \in Nat
                BY <2>3, <2>4
            <4>2. \A x, y \in Nat : x + (3 + y) = x + 3 + y
                OBVIOUS
            <4> QED BY <4>1, <4>2 DEF m
        <3> QED BY <3>5, <3>6 DEF a, m
    <2>6. Offset(n + 1) = Offset(n) + 3 + frames[n + 1].length /\ Offset(n + 1) \in Nat
        BY <2>3, <2>4, <2>5 DEF Offset
    <2>7. ASSUME NEW i \in 0 .. n + 1 PROVE Offset(i) \in Nat /\ Offset(i) <= Offset(n + 1)
        <3>1. CASE i = n + 1
            BY <2>6, <3>1
        <3>2. CASE i # n + 1
            <4>1. i \in 0 .. n
                BY <3>2
            <4>2. Offset(i) \in Nat /\ Offset(i) <= Offset(n)
                BY <2>1, <4>1 DEF WireTo
            <4> QED BY <2>3, <2>4, <2>6, <4>2
        <3> QED BY <3>1, <3>2
    <2>8. ASSUME NEW i \in 0 .. (n + 1) - 1
          PROVE  /\ Offset(i + 1) = Offset(i) + 3 + frames[i + 1].length
                 /\ \A k \in 1 .. 3 + frames[i + 1].length : FlatTo(n + 1)[Offset(i) + k] = <<i + 1, k>>
        <3>1. CASE i = n
            BY <2>5, <2>6, <3>1
        <3>2. CASE i # n
            <4>1. i \in 0 .. n - 1 /\ i + 1 \in 0 .. n /\ i \in 0 .. n /\ i + 1 \in 1 .. Len(frames)
                BY <2>1, <3>2
            <4>2. /\ Offset(i + 1) = Offset(i) + 3 + frames[i + 1].length
                  /\ \A k \in 1 .. 3 + frames[i + 1].length : FlatTo(n)[Offset(i) + k] = <<i + 1, k>>
                  /\ Offset(i + 1) <= Offset(n) /\ Offset(i) \in Nat
                BY <2>1, <4>1 DEF WireTo
            <4>3. frames[i + 1].length \in Nat
                BY <4>1, SizesAre
            <4>4. ASSUME NEW k \in 1 .. 3 + frames[i + 1].length PROVE FlatTo(n + 1)[Offset(i) + k] = <<i + 1, k>>
                <5>1. Offset(i) + k \in 1 .. Offset(n)
                    <6>1. k \in Nat /\ 1 <= k /\ k <= 3 + frames[i + 1].length
                        BY <4>3
                    <6>2. \A x, y, z, w \in Nat : 1 <= z /\ z <= 3 + y /\ x + 3 + y <= w => x + z \in 1 .. w
                        OBVIOUS
                    <6>3. Offset(i) \in Nat /\ Offset(n) \in Nat /\ Offset(i) + 3 + frames[i + 1].length <= Offset(n)
                        BY <2>4, <4>2
                    <6> QED BY <4>3, <6>1, <6>2, <6>3
                <5> QED BY <2>5, <4>2, <5>1
            <4> QED BY <4>2, <4>4
        <3> QED BY <3>1, <3>2
    <2> QED BY <2>5, <2>7, <2>8 DEF WireTo
<1> HIDE DEF S
<1>3. \A n \in Nat : n \in S
    BY <1>1, <1>2, SetInduction
<1> QED BY <1>0, <1>3 DEF S

(* What WireIs says of the whole wire, and that offsets grow frame by      *)
(* frame.                                                                  *)
LEMMA WholeWire ==
    ASSUME FramesOK
    PROVE  /\ Len(frames) \in Nat /\ Wire \in Seq(Bytes) /\ Len(Wire) = Offset(Len(frames))
           /\ Offset(0) = 0
           /\ \A i \in 0 .. Len(frames) : Offset(i) \in Nat /\ Offset(i) <= Len(Wire)
           /\ \A i \in 0 .. Len(frames) - 1 :
                 /\ Offset(i + 1) = Offset(i) + 3 + frames[i + 1].length
                 /\ \A k \in 1 .. 3 + frames[i + 1].length : Wire[Offset(i) + k] = <<i + 1, k>>
<1>1. Len(frames) \in Nat /\ Len(frames) \in 0 .. Len(frames)
    BY DEF FramesOK
<1>2. Wire = FlatTo(Len(frames)) /\ Len(Wire) = Offset(Len(frames))
    BY DEF Wire, FlatTo, FirstFrames, Offset
<1>3. WireTo(Len(frames))
    BY <1>1, WireIs
<1>4. Offset(0) = 0
    BY <1>1, FlatStep DEF Offset
<1> QED BY <1>1, <1>2, <1>3, <1>4 DEF WireTo

-----------------------------------------------------------------------------
(***************************************************************************)
(* The reader.  What is not consumed of the buffer is the wire from the    *)
(* end of the last frame returned to the last byte that arrived; need is   *)
(* the size of the frame it begins with, or nothing.                       *)
(***************************************************************************)
Returned == Len(delivered)

SentOK == FramesOK /\ cut \in 0 .. Len(Wire) /\ ending \in {"EOF", "error"} /\ arrived \in 0 .. cut

DeliveredOK == Returned \in 0 .. Len(frames) /\ delivered = FirstFrames(Returned)

CapacityBound == Larger(InitialCapacity, 2 * Larger(3 + MaxFrameSize, 3 + ReadChunkSize))

BufferOK ==
    /\ buffer \in Seq(Bytes) /\ off \in 0 .. Len(buffer)
    /\ capacity \in Nat /\ Len(buffer) <= capacity /\ capacity <= CapacityBound

UnreadOK ==
    /\ Offset(Returned) + Unread = arrived
    /\ \A k \in 1 .. Unread : buffer[off + k] = Wire[Offset(Returned) + k]

(* The frame after the last one returned is known, and its length valid. *)
NextKnown == Unread >= 4 /\ Returned < Len(frames) /\ ValidLength(frames[Returned + 1])

NeedOK ==
    /\ need = 0 \/ (NextKnown /\ need = 3 + frames[Returned + 1].length)
    /\ reader = "read" => Unread < 4 \/ need > Unread

(* The unread bytes hold no whole frame. *)
Incomplete == Unread < 4 \/ (NextKnown /\ Unread < 3 + frames[Returned + 1].length)

Ended == reader \in {"EOF", "unexpectedEOF", "error"}

EndingOK ==
    /\ pendingErr \in {"nil", "EOF", "error"}
    /\ reader \in {"parse", "read", "invalid", "EOF", "unexpectedEOF", "error"}
    /\ pendingErr # "nil" => arrived = cut /\ pendingErr = ending
    /\ Ended => arrived = cut /\ reader = EndErr(ending, Unread) /\ Incomplete
    /\ reader = "invalid" => Returned < Len(frames) /\ ~ ValidFrame(frames[Returned + 1])

FrameInv == SentOK /\ DeliveredOK /\ BufferOK /\ UnreadOK /\ NeedOK /\ EndingOK

(* The frame invariant holds before the first read. *)
LEMMA FrameInvInit == FrameInit => FrameInv
<1> SUFFICES ASSUME FrameInit PROVE FrameInv
    OBVIOUS
<1>1. FramesOK
    <2>1. PICK m \in 0 .. MaxFrames : frames \in [1 .. m -> SentFrames]
        BY DEF FrameInit, SeqOf
    <2>2. m \in Nat
        BY FrameAssumption
    <2> QED BY <2>1, <2>2 DEF FramesOK
<1>2. Len(Wire) \in Nat /\ Offset(0) = 0 /\ Len(frames) \in Nat
    BY <1>1, WholeWire
<1>3. SentOK
    BY <1>1, <1>2 DEF FrameInit, SentOK
<1>4. Returned = 0 /\ DeliveredOK
    <2>1. delivered = <<>>
        BY DEF FrameInit
    <2>2. FirstFrames(0) = <<>>
        BY DEF FirstFrames
    <2> QED BY <1>2, <2>1, <2>2 DEF Returned, DeliveredOK
<1>5. BufferOK
    BY FrameAssumption DEF FrameInit, BufferOK, CapacityBound, Larger
<1>6. Unread = 0
    BY DEF FrameInit, Unread
<1>7. UnreadOK
    BY <1>2, <1>4, <1>6 DEF FrameInit, UnreadOK
<1>8. NeedOK /\ EndingOK
    BY <1>6 DEF FrameInit, NeedOK, EndingOK, Ended
<1> QED BY <1>3, <1>4, <1>5, <1>7, <1>8 DEF FrameInv

(* The buffer and the frame it begins with. *)
LEMMA UnreadIs ==
    ASSUME FrameInv
    PROVE  /\ Len(buffer) \in Nat /\ off \in Nat /\ Unread \in Nat /\ Unread = Len(buffer) - off
           /\ Unconsumed \in Seq(Bytes) /\ Len(Unconsumed) = Unread
           /\ \A k \in 1 .. Unread : Unconsumed[k] = buffer[off + k]
           /\ Returned \in Nat /\ Offset(Returned) \in Nat
<1>1. FramesOK /\ buffer \in Seq(Bytes) /\ off \in 0 .. Len(buffer) /\ Returned \in 0 .. Len(frames)
    BY DEF FrameInv, BufferOK, DeliveredOK, SentOK
<1>2. Len(buffer) \in Nat /\ off \in Nat /\ off <= Len(buffer)
    BY <1>1
<1>3. Unread = Len(buffer) - off /\ Unread \in Nat
    BY <1>2 DEF Unread
<1>4. /\ Unconsumed \in Seq(Bytes) /\ Len(Unconsumed) = Len(buffer) - off
      /\ \A k \in 1 .. Len(buffer) - off : Unconsumed[k] = buffer[off + k]
    <2>1. off + 1 \in 1 .. Len(buffer) + 1
        BY <1>2
    <2>2. \A k \in 1 .. Len(buffer) - off : k + (off + 1) - 1 = off + k
        BY <1>2
    <2> QED BY <1>1, <1>2, <2>1, <2>2 DEF Unconsumed
<1>5. Returned \in Nat /\ Offset(Returned) \in Nat
    BY <1>1, WholeWire
<1> QED BY <1>2, <1>3, <1>4, <1>5

(* What is unread starts with the first frame not returned yet. *)
LEMMA FirstFrameIs ==
    ASSUME FrameInv, Unread >= 1
    PROVE  /\ Returned < Len(frames) /\ Returned + 1 \in 1 .. Len(frames)
           /\ FirstFrame = frames[Returned + 1]
           /\ TotalSize = 3 + frames[Returned + 1].length
           /\ frames[Returned + 1].length \in Nat
           /\ Offset(Returned + 1) = Offset(Returned) + 3 + frames[Returned + 1].length
           /\ \A k \in 1 .. 3 + frames[Returned + 1].length : Wire[Offset(Returned) + k] = <<Returned + 1, k>>
<1>1. SentOK /\ FramesOK /\ DeliveredOK /\ UnreadOK
    BY DEF FrameInv, SentOK
<1>2. /\ Unread \in Nat /\ Returned \in Nat /\ Offset(Returned) \in Nat /\ Len(frames) \in Nat
      /\ Len(Wire) = Offset(Len(frames)) /\ Len(Wire) \in Nat
    BY <1>1, UnreadIs, WholeWire
<1>3. Offset(Returned) + Unread <= Len(Wire)
    BY <1>1, <1>2 DEF SentOK, UnreadOK
<1>4. Returned # Len(frames)
    BY <1>2, <1>3
<1>5. Returned < Len(frames) /\ Returned + 1 \in 1 .. Len(frames) /\ Returned \in 0 .. Len(frames) - 1
    BY <1>1, <1>2, <1>4 DEF DeliveredOK
<1>6. frames[Returned + 1].length \in Nat
    BY <1>1, <1>5, SizesAre
<1>7. /\ Offset(Returned + 1) = Offset(Returned) + 3 + frames[Returned + 1].length
      /\ \A k \in 1 .. 3 + frames[Returned + 1].length : Wire[Offset(Returned) + k] = <<Returned + 1, k>>
    BY <1>1, <1>5, WholeWire
<1>8. FirstFrame = frames[Returned + 1]
    <2>1. 1 \in 1 .. Unread /\ 1 \in 1 .. 3 + frames[Returned + 1].length
        BY <1>2, <1>6
    <2>2. Unconsumed[1] = Wire[Offset(Returned) + 1]
        BY <1>1, <2>1, UnreadIs DEF UnreadOK
    <2>3. Unconsumed[1] = <<Returned + 1, 1>>
        BY <1>7, <2>1, <2>2
    <2> QED BY <2>3 DEF FirstFrame
<1> QED BY <1>5, <1>6, <1>7, <1>8 DEF TotalSize

(* A parse that returns no frame keeps the frame invariant. *)
LEMMA ParseKeeps ==
    ASSUME FrameInv, ParseNothing \/ ParseIncomplete \/ ParseInvalid
    PROVE  FrameInv'
<1>1. SentOK /\ DeliveredOK /\ BufferOK /\ UnreadOK /\ NeedOK /\ EndingOK
    BY DEF FrameInv
<1>2. Unread \in Nat
    BY UnreadIs
<1>3. UNCHANGED <<frames, cut, ending, arrived, buffer, off, capacity, pendingErr, delivered>> /\ reader = "parse"
    BY DEF ParseNothing, ParseIncomplete, ParseInvalid
<1>4. /\ Unread' = Unread /\ Returned' = Returned /\ Offset(Returned)' = Offset(Returned) /\ Wire' = Wire
      /\ FirstFrames(Returned)' = FirstFrames(Returned) /\ NextKnown' = NextKnown
    BY <1>3 DEF Unread, Returned, Offset, FlatTo, FirstFrames, CreateFrame, Wire, NextKnown
<1>5. SentOK' /\ DeliveredOK' /\ BufferOK' /\ UnreadOK'
    BY <1>1, <1>3, <1>4 DEF SentOK, FramesOK, DeliveredOK, BufferOK, UnreadOK
<1>6. CASE ParseNothing
    <2>1. reader' = "read" /\ Unread < 4 /\ need' = need
        BY <1>6 DEF ParseNothing, TooShort
    <2> QED BY <1>1, <1>3, <1>4, <1>5, <2>1 DEF FrameInv, NeedOK, EndingOK, Ended
<1>7. CASE ParseIncomplete
    <2>1. reader' = "read" /\ Unread >= 4 /\ ValidLength(FirstFrame) /\ need' = TotalSize /\ Unread < TotalSize
        BY <1>2, <1>7 DEF ParseIncomplete, TooShort
    <2>2. /\ Returned < Len(frames) /\ FirstFrame = frames[Returned + 1]
          /\ TotalSize = 3 + frames[Returned + 1].length
        BY <1>2, <2>1, FirstFrameIs
    <2>3. NextKnown /\ need' = 3 + frames[Returned + 1].length /\ need' > Unread
        BY <1>2, <2>1, <2>2 DEF NextKnown
    <2> QED BY <1>1, <1>3, <1>4, <1>5, <2>1, <2>3 DEF FrameInv, NeedOK, EndingOK, Ended
<1>8. CASE ParseInvalid
    <2>1. /\ reader' = "invalid" /\ Unread >= 4 /\ need' = 0
          /\ ~ ValidLength(FirstFrame) \/ ~ ValidFrame(FirstFrame)
        BY <1>2, <1>8 DEF ParseInvalid, TooShort
    <2>2. Returned < Len(frames) /\ FirstFrame = frames[Returned + 1]
        BY <1>2, <2>1, FirstFrameIs
    <2>3. ~ ValidFrame(frames[Returned + 1])
        BY <2>1, <2>2 DEF ValidFrame
    <2>4. ~ ValidFrame(frames'[Returned' + 1])
        BY <1>3, <1>4, <2>3 DEF ValidFrame, ValidLength
    <2> QED BY <1>1, <1>3, <1>4, <1>5, <2>1, <2>2, <2>4 DEF FrameInv, NeedOK, EndingOK, Ended
<1> QED BY <1>6, <1>7, <1>8

(* Returning a complete frame keeps the frame invariant. *)
LEMMA ParseCompleteKeeps ==
    ASSUME FrameInv, ParseComplete
    PROVE  FrameInv'
<1> DEFINE n == TotalSize
<1>1. SentOK /\ FramesOK /\ DeliveredOK /\ BufferOK /\ UnreadOK /\ NeedOK /\ EndingOK
    BY DEF FrameInv, SentOK
<1>2. /\ Len(buffer) \in Nat /\ off \in Nat /\ Unread \in Nat /\ Unread = Len(buffer) - off
      /\ Unconsumed \in Seq(Bytes) /\ Len(Unconsumed) = Unread
      /\ \A k \in 1 .. Unread : Unconsumed[k] = buffer[off + k]
      /\ Returned \in Nat /\ Offset(Returned) \in Nat
    BY UnreadIs
<1>3. /\ reader = "parse" /\ Unread >= 4 /\ Unread >= n /\ need' = 0
      /\ delivered' = Append(delivered, SubSeq(Unconsumed, 1, n))
      /\ IF off + n = Len(buffer) THEN buffer' = <<>> /\ off' = 0 ELSE buffer' = buffer /\ off' = off + n
      /\ UNCHANGED <<frames, cut, ending, arrived, capacity, pendingErr, reader>>
    BY <1>2 DEF ParseComplete, Consume, TooShort
<1>4. /\ Returned < Len(frames) /\ Returned + 1 \in 1 .. Len(frames)
      /\ n = 3 + frames[Returned + 1].length
      /\ frames[Returned + 1].length \in Nat
      /\ Offset(Returned + 1) = Offset(Returned) + 3 + frames[Returned + 1].length
      /\ \A k \in 1 .. 3 + frames[Returned + 1].length : Wire[Offset(Returned) + k] = <<Returned + 1, k>>
    <2>1. Unread >= 1
        BY <1>2, <1>3
    <2> QED BY <2>1, FirstFrameIs
<1>5. n \in Nat /\ n >= 3 /\ n <= Unread /\ Offset(Returned + 1) = Offset(Returned) + n
    <2> HIDE DEF n
    <2>1. \A x, y \in Nat : 3 + y \in Nat /\ 3 + y >= 3 /\ x + 3 + y = x + (3 + y)
        OBVIOUS
    <2> QED BY <1>2, <1>3, <1>4, <2>1
<1> HIDE DEF n
<1>6. SubSeq(Unconsumed, 1, n) = CreateFrame(Returned + 1)
    <2> DEFINE u == SubSeq(Unconsumed, 1, n)
               c == CreateFrame(Returned + 1)
    <2>1. u \in Seq(Bytes) /\ Len(u) = n /\ \A k \in 1 .. n : u[k] = Unconsumed[k]
        BY <1>2, <1>5
    <2>2. c \in Seq(Bytes) /\ Len(c) = n /\ \A k \in 1 .. n : c[k] = <<Returned + 1, k>>
        BY <1>1, <1>4, SizesAre
    <2>3. ASSUME NEW k \in 1 .. n PROVE u[k] = c[k]
        <3>1. k \in 1 .. Unread
            BY <1>2, <1>5
        <3>2. Unconsumed[k] = Wire[Offset(Returned) + k]
            BY <1>1, <1>2, <3>1 DEF UnreadOK
        <3> QED BY <1>4, <2>1, <2>2, <3>2
    <2> HIDE DEF u, c
    <2>4. u = c
        BY <1>5, <2>1, <2>2, <2>3
    <2> QED BY <2>4 DEF u, c
<1>7. /\ Wire' = Wire /\ Offset(Returned + 1)' = Offset(Returned' + 1) /\ \A i : Offset(i)' = Offset(i)
      /\ \A i : FirstFrames(i)' = FirstFrames(i)
    BY <1>3 DEF Wire, Offset, FlatTo, FirstFrames, CreateFrame
<1>8. Returned' = Returned + 1 /\ delivered' = FirstFrames(Returned + 1)
    <2> DEFINE d == FirstFrames(Returned)
    <2>1. delivered = d
        BY <1>1 DEF DeliveredOK
    <2>2. d \in [1 .. Returned -> Seq(Bytes)] /\ \A i \in 1 .. Returned : d[i] = CreateFrame(i)
        <3>1. \A i \in 1 .. Returned : CreateFrame(i) \in Seq(Bytes)
            BY <1>1, <1>2, <1>4, SizesAre
        <3> QED BY <3>1 DEF FirstFrames
    <2>3. CreateFrame(Returned + 1) \in Seq(Bytes)
        BY <1>1, <1>4, SizesAre
    <2> HIDE DEF d
    <2>4. d \in Seq(Seq(Bytes)) /\ Len(d) = Returned
        BY <1>2, <2>2
    <2> DEFINE e == Append(d, CreateFrame(Returned + 1))
    <2>5. /\ e \in Seq(Seq(Bytes)) /\ Len(e) = Returned + 1
          /\ \A i \in 1 .. Returned : e[i] = d[i]
          /\ e[Returned + 1] = CreateFrame(Returned + 1)
        BY <1>2, <2>3, <2>4
    <2>6. delivered' = e
        BY <1>3, <1>6, <2>1
    <2>7. e = [i \in 1 .. Returned + 1 |-> CreateFrame(i)]
        <3>1. \A i \in 1 .. Returned + 1 : e[i] = CreateFrame(i)
            <4> TAKE i \in 1 .. Returned + 1
            <4>1. i \in 1 .. Returned \/ i = Returned + 1
                BY <1>2
            <4> QED BY <2>2, <2>5, <4>1
        <3>2. e = [i \in 1 .. Returned + 1 |-> e[i]]
            BY <2>5
        <3> HIDE DEF e
        <3> QED BY <3>1, <3>2
    <2>8. Returned' = Len(delivered')
        BY DEF Returned
    <2> QED BY <2>5, <2>6, <2>7, <2>8 DEF FirstFrames
<1>9. Len(buffer') \in Nat /\ buffer' \in Seq(Bytes) /\ off' \in 0 .. Len(buffer') /\ Len(buffer') <= Len(buffer)
      /\ Unread' = Unread - n
      /\ \A k \in 1 .. Unread - n : buffer'[off' + k] = buffer[off + (n + k)]
    <2>1. CASE off + n = Len(buffer)
        <3>1. buffer' = <<>> /\ off' = 0 /\ Unread - n = 0
            BY <1>2, <1>3, <1>5, <2>1
        <3> QED BY <1>2, <3>1 DEF Unread
    <2>2. CASE off + n # Len(buffer)
        <3>1. buffer' = buffer /\ off' = off + n
            BY <1>3, <2>2
        <3>2. off + n <= Len(buffer)
            BY <1>2, <1>5
        <3>3. \A k \in 1 .. Unread - n : (off + n) + k = off + (n + k)
            BY <1>2, <1>5
        <3>4. Unread' = Len(buffer) - (off + n)
            BY <3>1 DEF Unread
        <3>5. buffer \in Seq(Bytes)
            BY <1>1 DEF BufferOK
        <3> QED BY <1>2, <1>5, <3>1, <3>2, <3>3, <3>4, <3>5
    <2> QED BY <2>1, <2>2
<1>10. SentOK'
    BY <1>1, <1>3, <1>7 DEF SentOK, FramesOK
<1>11. DeliveredOK'
    <2>1. FirstFrames(Returned)' = FirstFrames(Returned + 1)
        BY <1>3, <1>8 DEF FirstFrames, CreateFrame
    <2>2. Returned' \in 0 .. Len(frames')
        BY <1>2, <1>3, <1>4, <1>8
    <2> QED BY <1>8, <2>1, <2>2 DEF DeliveredOK
<1>12. BufferOK'
    <2>1. Len(buffer) <= capacity /\ capacity \in Nat /\ capacity <= CapacityBound
        BY <1>1 DEF BufferOK
    <2> QED BY <1>2, <1>3, <1>9, <2>1 DEF BufferOK, CapacityBound, Larger
<1>13. UnreadOK'
    <2>1. Offset(Returned + 1) + (Unread - n) = arrived
        BY <1>1, <1>2, <1>5 DEF UnreadOK
    <2>2. ASSUME NEW k \in 1 .. Unread - n PROVE buffer'[off' + k] = Wire[Offset(Returned + 1) + k]
        <3>1. n + k \in 1 .. Unread /\ Offset(Returned) + (n + k) = Offset(Returned + 1) + k
            BY <1>2, <1>5
        <3>2. buffer[off + (n + k)] = Wire[Offset(Returned) + (n + k)]
            BY <1>1, <3>1 DEF UnreadOK
        <3> QED BY <1>9, <3>1, <3>2
    <2>3. Offset(Returned)' = Offset(Returned + 1)
        BY <1>7, <1>8
    <2> QED BY <1>3, <1>7, <1>9, <2>1, <2>2, <2>3 DEF UnreadOK
<1>14. NeedOK' /\ EndingOK'
    BY <1>1, <1>3 DEF NeedOK, EndingOK, Ended
<1> QED BY <1>10, <1>11, <1>12, <1>13, <1>14 DEF FrameInv

(***************************************************************************)
(* readFrom.  ensureSpare keeps what is not consumed and makes the room    *)
(* that was asked for; the capacity at most doubles what one frame needs.  *)
(***************************************************************************)
LEMMA SpareIs ==
    ASSUME FrameInv, reader = "read"
    PROVE  /\ Spare \in Nat /\ Spare >= 1
           /\ Unread + Spare <= Larger(3 + MaxFrameSize, 3 + ReadChunkSize)
<1>1. NeedOK /\ Unread \in Nat /\ Returned \in Nat /\ FramesOK
    BY UnreadIs DEF FrameInv, SentOK
<1>2. MaxFrameSize \in Nat /\ ReadChunkSize \in Nat /\ ReadChunkSize >= 1
    BY FrameAssumption
<1>3. CASE need > Unread
    <2> DEFINE l == frames[Returned + 1].length
    <2>1. NextKnown /\ need = 3 + l
        BY <1>1, <1>3 DEF NeedOK
    <2>2. l \in Nat /\ l <= MaxFrameSize
        <3>1. Returned + 1 \in 1 .. Len(frames) /\ ValidLength(frames[Returned + 1])
            BY <1>1, <2>1 DEF NextKnown, FramesOK
        <3> QED BY <1>1, <3>1, SizesAre DEF ValidLength
    <2> HIDE DEF l
    <2>3. Spare = need - Unread
        BY <1>3 DEF Spare
    <2> QED BY <1>1, <1>2, <1>3, <2>1, <2>2, <2>3 DEF Larger
<1>4. CASE ~ (need > Unread)
    <2>1. Unread < 4
        BY <1>1, <1>4 DEF NeedOK
    <2>2. Spare = ReadChunkSize
        BY <1>4 DEF Spare
    <2> QED BY <1>1, <1>2, <2>1, <2>2 DEF Larger
<1> QED BY <1>3, <1>4

(* Making room keeps the unread bytes, in a buffer whose capacity stays    *)
(* bounded.                                                                *)
LEMMA RoomIs ==
    ASSUME FrameInv, NEW n \in Nat, Unread + n <= Larger(3 + MaxFrameSize, 3 + ReadChunkSize)
    PROVE  /\ EnsureSpare(n).buffer \in Seq(Bytes)
           /\ EnsureSpare(n).off \in 0 .. Len(EnsureSpare(n).buffer)
           /\ Len(EnsureSpare(n).buffer) - EnsureSpare(n).off = Unread
           /\ \A k \in 1 .. Unread : EnsureSpare(n).buffer[EnsureSpare(n).off + k] = buffer[off + k]
           /\ EnsureSpare(n).capacity \in Nat /\ EnsureSpare(n).capacity <= CapacityBound
           /\ EnsureSpare(n).capacity - Len(EnsureSpare(n).buffer) >= n
<1> DEFINE M == Larger(3 + MaxFrameSize, 3 + ReadChunkSize)
<1>1. /\ Len(buffer) \in Nat /\ off \in Nat /\ Unread \in Nat /\ Unread = Len(buffer) - off
      /\ Unconsumed \in Seq(Bytes) /\ Len(Unconsumed) = Unread
      /\ \A k \in 1 .. Unread : Unconsumed[k] = buffer[off + k]
    BY UnreadIs
<1>2. /\ buffer \in Seq(Bytes) /\ off \in 0 .. Len(buffer)
      /\ capacity \in Nat /\ Len(buffer) <= capacity /\ capacity <= CapacityBound
    BY DEF FrameInv, BufferOK
<1>3. M \in Nat /\ CapacityBound = Larger(InitialCapacity, 2 * M) /\ InitialCapacity \in Nat
    BY FrameAssumption DEF Larger, CapacityBound
<1> HIDE DEF M
<1>4. 2 * M <= CapacityBound /\ M <= CapacityBound /\ CapacityBound \in Nat
    BY <1>3 DEF Larger
<1>5. Unread + n <= M
    BY DEF M
<1>6. CASE capacity - Len(buffer) >= n
    <2>1. EnsureSpare(n) = [buffer |-> buffer, off |-> off, capacity |-> capacity]
        BY <1>6 DEF EnsureSpare
    <2> QED BY <1>1, <1>2, <1>6, <2>1
<1>7. CASE ~ (capacity - Len(buffer) >= n) /\ capacity - Unread >= n
    <2>1. EnsureSpare(n) = [buffer |-> Unconsumed, off |-> 0, capacity |-> capacity]
        BY <1>7 DEF EnsureSpare
    <2>2. \A k \in 1 .. Unread : 0 + k = k
        OBVIOUS
    <2>3. 0 \in 0 .. Unread /\ Unread - 0 = Unread
        BY <1>1
    <2>4. EnsureSpare(n).buffer = Unconsumed /\ EnsureSpare(n).off = 0 /\ EnsureSpare(n).capacity = capacity
        BY <2>1
    <2>5. \A k \in 1 .. Unread : Unconsumed[0 + k] = buffer[off + k]
        BY <1>1, <2>2
    <2>6. Len(Unconsumed) = Unread /\ Unconsumed \in Seq(Bytes)
        BY <1>1
    <2> QED BY <1>2, <1>7, <2>3, <2>4, <2>5, <2>6
<1>8. CASE ~ (capacity - Len(buffer) >= n) /\ ~ (capacity - Unread >= n)
    <2> DEFINE c == IF capacity * 2 < Unread + n THEN Unread + n ELSE capacity * 2
    <2>1. EnsureSpare(n) = [buffer |-> Unconsumed, off |-> 0, capacity |-> c]
        BY <1>8 DEF EnsureSpare
    <2>2. c \in Nat /\ c >= Unread + n /\ c <= 2 * M
        BY <1>1, <1>2, <1>3, <1>5, <1>8
    <2> HIDE DEF c
    <2>3. \A k \in 1 .. Unread : 0 + k = k
        OBVIOUS
    <2>4. 0 \in 0 .. Unread /\ Unread - 0 = Unread /\ c - Unread >= n /\ c <= CapacityBound
        BY <1>1, <1>3, <1>4, <2>2
    <2> QED BY <1>1, <2>1, <2>2, <2>3, <2>4
<1> QED BY <1>6, <1>7, <1>8

(* A read that adds bytes to the buffer keeps the frame invariant. *)
LEMMA ReadFromKeeps ==
    ASSUME FrameInv, ReadFrom
    PROVE  FrameInv'
<1> DEFINE room == EnsureSpare(Spare)
           space == room.capacity - Len(room.buffer)
           left == cut - arrived
<1>1. SentOK /\ FramesOK /\ DeliveredOK /\ BufferOK /\ UnreadOK /\ NeedOK /\ EndingOK
    BY DEF FrameInv, SentOK
<1>2. /\ Unread \in Nat /\ Returned \in Nat /\ Offset(Returned) \in Nat
      /\ Len(Wire) \in Nat /\ Wire \in Seq(Bytes) /\ arrived \in Nat /\ cut \in Nat /\ cut <= Len(Wire)
      /\ left \in Nat
    BY <1>1, UnreadIs, WholeWire DEF SentOK
<1>3. reader = "read" /\ pendingErr = "nil" /\ UNCHANGED <<frames, cut, ending, need, delivered>>
    BY DEF ReadFrom
<1>4. /\ room.buffer \in Seq(Bytes) /\ room.off \in 0 .. Len(room.buffer)
      /\ Len(room.buffer) - room.off = Unread
      /\ \A k \in 1 .. Unread : room.buffer[room.off + k] = buffer[off + k]
      /\ room.capacity \in Nat /\ room.capacity <= CapacityBound
      /\ space \in Nat /\ Len(room.buffer) \in Nat
    <2>1. Spare \in Nat /\ Unread + Spare <= Larger(3 + MaxFrameSize, 3 + ReadChunkSize)
        BY <1>3, SpareIs
    <2> HIDE DEF room
    <2>2. /\ room.buffer \in Seq(Bytes) /\ room.off \in 0 .. Len(room.buffer)
          /\ Len(room.buffer) - room.off = Unread
          /\ \A k \in 1 .. Unread : room.buffer[room.off + k] = buffer[off + k]
          /\ room.capacity \in Nat /\ room.capacity <= CapacityBound
          /\ room.capacity - Len(room.buffer) >= Spare
        BY <2>1, RoomIs DEF room
    <2> QED BY <2>1, <2>2
<1>5. PICK n \in 0 .. IF space < left THEN space ELSE left :
         /\ arrived' = arrived + n
         /\ buffer' = room.buffer \o SubSeq(Wire, arrived + 1, arrived + n)
         /\ off' = room.off /\ capacity' = room.capacity
         /\ \/ n > 0 /\ pendingErr' = "nil" /\ reader' = "parse"
            \/ /\ n = left
               /\ pendingErr' = ending
               /\ reader' = IF n > 0 THEN "parse" ELSE EndErr(ending, Len(buffer') - off')
    BY DEF ReadFrom
<1> HIDE DEF room
<1>6. n \in Nat /\ n <= space /\ n <= left
    BY <1>2, <1>4, <1>5
<1> DEFINE got == SubSeq(Wire, arrived + 1, arrived + n)
<1>7. got \in Seq(Bytes) /\ Len(got) = n /\ \A k \in 1 .. n : got[k] = Wire[arrived + k]
    <2>1. arrived + 1 \in 1 .. Len(Wire) + 1 /\ arrived + n \in (arrived + 1) - 1 .. Len(Wire)
        BY <1>2, <1>6
    <2>2. \A k \in 1 .. n : k + (arrived + 1) - 1 = arrived + k
        BY <1>2, <1>6
    <2>3. \A w \in Seq(Bytes), lo, hi \in Nat :
            lo \in 1 .. Len(w) + 1 /\ hi \in lo - 1 .. Len(w) =>
            /\ SubSeq(w, lo, hi) \in Seq(Bytes) /\ Len(SubSeq(w, lo, hi)) = hi - lo + 1
            /\ \A k \in 1 .. hi - lo + 1 : SubSeq(w, lo, hi)[k] = w[k + lo - 1]
        OBVIOUS
    <2>4. arrived + 1 \in Nat /\ arrived + n \in Nat /\ (arrived + n) - (arrived + 1) + 1 = n
        BY <1>2, <1>6
    <2>5. /\ got \in Seq(Bytes) /\ Len(got) = n
          /\ \A k \in 1 .. n : got[k] = Wire[k + (arrived + 1) - 1]
        BY <1>2, <2>1, <2>3, <2>4
    <2> QED BY <2>2, <2>5
<1> HIDE DEF got
<1>8. /\ buffer' \in Seq(Bytes) /\ Len(buffer') = Len(room.buffer) + n
      /\ \A j \in 1 .. Len(room.buffer) : buffer'[j] = room.buffer[j]
      /\ \A k \in 1 .. n : buffer'[Len(room.buffer) + k] = got[k]
    <2> DEFINE a == room.buffer
    <2>1. a \in Seq(Bytes) /\ got \in Seq(Bytes) /\ Len(got) = n
        BY <1>4, <1>7
    <2>2. buffer' = a \o got
        BY <1>5 DEF got
    <2> HIDE DEF a
    <2>3. /\ a \o got \in Seq(Bytes) /\ Len(a \o got) = Len(a) + n
          /\ \A j \in 1 .. Len(a) : (a \o got)[j] = a[j]
          /\ \A k \in 1 .. n : (a \o got)[Len(a) + k] = got[k]
        BY <2>1
    <2> QED BY <2>2, <2>3 DEF a
<1>9. Unread' = Unread + n
    <2>1. Unread' = Len(buffer') - off'
        BY DEF Unread
    <2> QED BY <1>2, <1>4, <1>5, <1>6, <1>8, <2>1
<1>10. /\ Wire' = Wire /\ Returned' = Returned /\ Offset(Returned)' = Offset(Returned)
       /\ FirstFrames(Returned)' = FirstFrames(Returned)
    BY <1>3 DEF Wire, Returned, Offset, FlatTo, FirstFrames, CreateFrame
<1>11. SentOK'
    <2>1. arrived' \in 0 .. cut
        BY <1>2, <1>5, <1>6
    <2> QED BY <1>1, <1>3, <1>10, <2>1 DEF SentOK, FramesOK
<1>12. DeliveredOK'
    BY <1>1, <1>3, <1>10 DEF DeliveredOK
<1>13. BufferOK'
    <2>1. /\ off' \in 0 .. Len(buffer') /\ capacity' \in Nat
          /\ Len(buffer') <= capacity' /\ capacity' <= CapacityBound
        <3>1. \A x, y, z, m \in Nat : x \in 0 .. y /\ m <= z - y => x \in 0 .. y + m /\ y + m <= z
            OBVIOUS
        <3>2. /\ room.off \in Nat /\ room.off \in 0 .. Len(room.buffer) /\ n <= room.capacity - Len(room.buffer)
              /\ room.capacity \in Nat /\ Len(room.buffer) \in Nat /\ room.capacity <= CapacityBound
            BY <1>4, <1>6
        <3> QED BY <1>5, <1>6, <1>8, <3>1, <3>2
    <2> QED BY <1>8, <2>1 DEF BufferOK, CapacityBound, Larger
<1>14. UnreadOK'
    <2>1. Offset(Returned) + (Unread + n) = arrived'
        <3>1. \A x, y, z, m \in Nat : x + y = z => x + (y + m) = z + m
            OBVIOUS
        <3>2. Offset(Returned) + Unread = arrived
            BY <1>1 DEF UnreadOK
        <3>3. arrived' = arrived + n
            BY <1>5
        <3> QED BY <1>2, <1>6, <3>1, <3>2, <3>3
    <2>2. ASSUME NEW k \in 1 .. Unread + n PROVE buffer'[off' + k] = Wire[Offset(Returned) + k]
        <3>1. CASE k <= Unread
            <4>1. k \in 1 .. Unread /\ room.off + k \in 1 .. Len(room.buffer)
                BY <1>2, <1>4, <1>6, <3>1
            <4>2. buffer'[off' + k] = buffer[off + k]
                BY <1>4, <1>5, <1>8, <4>1
            <4> QED BY <1>1, <4>1, <4>2 DEF UnreadOK
        <3>2. CASE k > Unread
            <4>1. /\ k - Unread \in 1 .. n /\ room.off + k = Len(room.buffer) + (k - Unread)
                <5>1. \A x, y, z \in Nat : y - x = z => x + k = y + (k - z)
                    BY <1>2, <1>6
                <5>2. k - Unread \in 1 .. n
                    BY <1>2, <1>6, <3>2
                <5>3. room.off \in Nat /\ Len(room.buffer) \in Nat
                    BY <1>4
                <5>4. Len(room.buffer) - room.off = Unread /\ Unread \in Nat
                    BY <1>2, <1>4
                <5> QED BY <5>1, <5>2, <5>3, <5>4
            <4>2. buffer'[off' + k] = Wire[arrived + (k - Unread)]
                BY <1>5, <1>7, <1>8, <4>1
            <4>3. arrived + (k - Unread) = Offset(Returned) + k
                BY <1>1, <1>2, <1>6 DEF UnreadOK
            <4> QED BY <4>2, <4>3
        <3> QED BY <1>2, <1>6, <3>1, <3>2
    <2> QED BY <1>9, <1>10, <2>1, <2>2 DEF UnreadOK
<1>15. NeedOK'
    <2>1. reader' # "read"
        <3>1. ending \in {"EOF", "error"}
            BY <1>1 DEF SentOK
        <3> QED BY <1>5, <3>1 DEF EndErr
    <2>2. need = 0 \/ (NextKnown /\ need = 3 + frames[Returned + 1].length)
        BY <1>1 DEF NeedOK
    <2>3. NextKnown => NextKnown'
        BY <1>2, <1>3, <1>6, <1>9, <1>10 DEF NextKnown, ValidLength
    <2> QED BY <1>3, <1>10, <2>1, <2>2, <2>3 DEF NeedOK
<1>16. EndingOK'
    <2>1. CASE n > 0 /\ pendingErr' = "nil" /\ reader' = "parse"
        BY <2>1 DEF EndingOK, Ended
    <2>2. CASE n = left /\ pendingErr' = ending /\ reader' = IF n > 0 THEN "parse" ELSE EndErr(ending, Len(buffer') - off')
        <3>1. arrived' = cut' /\ pendingErr' = ending'
            BY <1>2, <1>3, <1>5, <2>2
        <3>2. ending \in {"EOF", "error"}
            BY <1>1 DEF SentOK
        <3>3. CASE n > 0
            BY <2>2, <3>1, <3>2, <3>3 DEF EndingOK, Ended
        <3>4. CASE ~ (n > 0)
            <4>1. n = 0 /\ Unread' = Unread /\ reader' = EndErr(ending, Unread')
                BY <1>2, <1>6, <1>9, <2>2, <3>4 DEF Unread
            <4>2. reader' \in {"EOF", "unexpectedEOF", "error"}
                BY <3>2, <4>1 DEF EndErr
            <4>3. Incomplete
                BY <1>1, <1>2, <1>3 DEF NeedOK, Incomplete
            <4>4. Incomplete'
                BY <1>3, <1>10, <4>1, <4>3 DEF Incomplete, NextKnown, ValidLength
            <4>5. reader' = EndErr(ending, Unread)'
                BY <1>3, <4>1 DEF EndErr
            <4>6. reader' \notin {"parse", "read", "invalid"} /\ pendingErr' \in {"nil", "EOF", "error"}
                BY <2>2, <3>2, <4>2
            <4> HIDE DEF left
            <4> QED BY <3>1, <4>2, <4>4, <4>5, <4>6 DEF EndingOK, Ended
        <3> QED BY <3>3, <3>4
    <2> QED BY <1>5, <2>1, <2>2
<1> QED BY <1>11, <1>12, <1>13, <1>14, <1>15, <1>16 DEF FrameInv

(* Reporting the error of an earlier read keeps the frame invariant. *)
LEMMA ReportPendingKeeps ==
    ASSUME FrameInv, ReportPending
    PROVE  FrameInv'
<1>1. SentOK /\ DeliveredOK /\ BufferOK /\ UnreadOK /\ NeedOK /\ EndingOK /\ Unread \in Nat
    BY UnreadIs DEF FrameInv
<1>2. /\ UNCHANGED <<frames, cut, ending, arrived, buffer, off, capacity, need, pendingErr, delivered>>
      /\ reader = "read" /\ pendingErr # "nil" /\ reader' = EndErr(pendingErr, Unread)
    BY DEF ReportPending
<1>3. /\ Unread' = Unread /\ Returned' = Returned /\ Offset(Returned)' = Offset(Returned) /\ Wire' = Wire
      /\ FirstFrames(Returned)' = FirstFrames(Returned) /\ NextKnown' = NextKnown
    BY <1>2 DEF Unread, Returned, Offset, FlatTo, FirstFrames, CreateFrame, Wire, NextKnown
<1>4. SentOK' /\ DeliveredOK' /\ BufferOK' /\ UnreadOK'
    BY <1>1, <1>2, <1>3 DEF SentOK, FramesOK, DeliveredOK, BufferOK, UnreadOK
<1>5. arrived = cut /\ pendingErr = ending /\ ending \in {"EOF", "error"}
    BY <1>1, <1>2 DEF EndingOK, SentOK
<1>6. reader' \in {"EOF", "unexpectedEOF", "error"} /\ reader' = EndErr(ending, Unread)'
    BY <1>2, <1>3, <1>5 DEF EndErr
<1>7. NeedOK'
    BY <1>1, <1>2, <1>3, <1>6 DEF NeedOK
<1>8. Incomplete /\ Incomplete'
    BY <1>1, <1>2, <1>3 DEF NeedOK, Incomplete
<1>9. EndingOK'
    BY <1>1, <1>2, <1>5, <1>6, <1>8 DEF EndingOK, Ended
<1> QED BY <1>4, <1>7, <1>9 DEF FrameInv

(* Every step of the frame reader keeps its invariant. *)
LEMMA FrameStep == FrameInv /\ [FrameNext]_frameVars => FrameInv'
<1> SUFFICES ASSUME FrameInv, [FrameNext]_frameVars PROVE FrameInv'
    OBVIOUS
<1>1. CASE UNCHANGED frameVars
    <2>1. UNCHANGED <<frames, cut, ending, arrived, buffer, off, capacity, need, pendingErr, reader, delivered>>
        BY <1>1 DEF frameVars
    <2> QED BY <2>1 DEF FrameInv, SentOK, FramesOK, DeliveredOK, BufferOK, UnreadOK, NeedOK, EndingOK, Ended, Incomplete,
              NextKnown, Unread, Returned, Offset, FlatTo, FirstFrames, CreateFrame, Wire, EndErr
<1> QED BY <1>1, ParseKeeps, ParseCompleteKeeps, ReadFromKeeps, ReportPendingKeeps DEF FrameNext

(* The frame reader is exact.  For any number of frames of each kind, cut  *)
(* anywhere, read in any pieces, and any largest frame, read chunk and     *)
(* first buffer: whole frames come out in order, the end is reported as    *)
(* what it is, and the buffer keeps its bound (FrameReader.ReadFrame).     *)
THEOREM FramesComeOutExactly == FrameSpec => []FrameReaderExact
<1>1. ASSUME FrameInv PROVE FrameReaderExact
    <2>1. SentOK /\ FramesOK /\ DeliveredOK /\ BufferOK /\ UnreadOK /\ NeedOK /\ EndingOK
        BY <1>1 DEF FrameInv, SentOK
    <2>2. /\ Unread \in Nat /\ Unread = Len(buffer) - off /\ Returned \in Nat /\ Offset(Returned) \in Nat
          /\ Len(frames) \in Nat /\ off \in Nat
        BY <1>1, <2>1, UnreadIs, WholeWire
    <2>3. FrameTypeOK
        <3>1. need \in Nat
            <4>1. ASSUME NextKnown PROVE frames[Returned + 1].length \in Nat
                BY <2>1, <2>2, <4>1, SizesAre DEF NextKnown
            <4> QED BY <2>1, <4>1 DEF NeedOK
        <3> QED BY <2>1, <2>2, <3>1 DEF FrameTypeOK, SentOK, BufferOK, EndingOK
    <2>4. FramesExact
        BY <2>1 DEF FramesExact, DeliveredOK, Returned, FirstFrames
    <2>5. Residue = cut - Offset(Returned)
        BY <2>1 DEF Residue, DeliveredOK, Offset, FlatTo
    <2>6. arrived = cut => Residue = Unread
        BY <2>1, <2>2, <2>5 DEF UnreadOK, SentOK
    <2>7. ASSUME Ended, Returned < Len(frames), ValidFrame(frames[Returned + 1])
          PROVE  Residue < 3 + frames[Returned + 1].length
        <3>1. frames[Returned + 1].length \in Nat /\ frames[Returned + 1].length > 0
            <4>1. Returned + 1 \in 1 .. Len(frames)
                BY <2>2, <2>7
            <4> QED BY <2>1, <2>7, <4>1, SizesAre DEF ValidFrame, ValidLength
        <3>2. Residue = Unread /\ Incomplete
            BY <2>1, <2>6, <2>7 DEF EndingOK
        <3> QED BY <2>2, <3>1, <3>2 DEF Incomplete
    <2>8. EndIsHonest
        <3>1. Ended => arrived = cut /\ reader = EndErr(ending, Unread) /\ Residue = Unread
            BY <2>1, <2>6 DEF EndingOK
        <3>2. reader = "EOF" => ending = "EOF" /\ Residue = 0
            BY <2>1, <2>2, <3>1 DEF Ended, EndErr, SentOK
        <3>3. reader = "unexpectedEOF" => ending = "EOF" /\ Residue > 0
            BY <2>1, <2>2, <3>1 DEF Ended, EndErr, SentOK
        <3>4. reader = "invalid" => ~ ValidFrame(frames[Returned + 1])
            BY <2>1 DEF EndingOK
        <3> QED BY <2>7, <3>2, <3>3, <3>4 DEF EndIsHonest, Ended, Returned
    <2>9. BufferBounded
        <3>1. ASSUME reader = "read"
              PROVE  EnsureSpare(Spare).capacity - Len(EnsureSpare(Spare).buffer) > 0
            <4>1. Spare \in Nat /\ Spare >= 1 /\ Unread + Spare <= Larger(3 + MaxFrameSize, 3 + ReadChunkSize)
                BY <1>1, <3>1, SpareIs
            <4> DEFINE room == EnsureSpare(Spare)
            <4> HIDE DEF room
            <4>2. /\ room.capacity - Len(room.buffer) >= Spare /\ room.capacity \in Nat
                  /\ room.buffer \in Seq(Bytes)
                BY <1>1, <4>1, RoomIs DEF room
            <4>3. room.capacity - Len(room.buffer) > 0
                BY <4>1, <4>2
            <4> QED BY <4>3 DEF room
        <3> QED BY <2>1, <3>1 DEF BufferBounded, BufferOK, CapacityBound
    <2> QED BY <2>3, <2>4, <2>8, <2>9 DEF FrameReaderExact
<1> QED BY <1>1, FrameInvInit, FrameStep, PTL DEF FrameSpec

-----------------------------------------------------------------------------
(***************************************************************************)
(* The parts together.                                                     *)
(***************************************************************************)

(* The listing belongs to the iterator or to the discovery. *)
ListingInv ==
    /\ PagerTypeOK /\ DiscoveryTypeOK
    /\ scene = "pager" => PagerInv
    /\ scene = "discovery" => DiscoveryInv

(* The invariants of the pager and the discovery hold initially in the     *)
(* composed client.                                                        *)
LEMMA ListingInvInit == Init => ListingInv
<1> SUFFICES ASSUME Init PROVE ListingInv
    OBVIOUS
<1>1. ListingInit /\ PagerInit /\ DiscoveryInit
    BY DEF Init, ListingIdle, PagerIdle, DiscoveryIdle
<1>2. PagerInv /\ DiscoveryInv
    BY <1>1, PagerInvInit, DiscoveryInvInit
<1> QED BY <1>2 DEF ListingInv, PagerInv, DiscoveryInv

(* Every step of the composed client keeps the invariants of the pager and *)
(* the discovery.                                                          *)
LEMMA ListingInvStep == ListingInv /\ [Next]_vars => ListingInv'
<1> SUFFICES ASSUME ListingInv, [Next]_vars PROVE ListingInv'
    OBVIOUS
<1>0. PagerTypeOK /\ DiscoveryTypeOK /\ ListingTypeOK
    BY DEF ListingInv, PagerTypeOK
<1>1. CASE PagerScene /\ scene' = scene
    <2>1. PagerInv' /\ scene = "pager"
        BY <1>1, PagerStep DEF PagerScene, ListingInv
    <2>2. UNCHANGED <<static, cursor, seen, complete, workers, pruning, wait>>
        BY <1>1 DEF PagerScene, managerVars
    <2>3. PagerTypeOK' /\ ListingTypeOK'
        BY <2>1 DEF PagerInv, PagerTypeOK
    <2>4. DiscoveryTypeOK'
        BY <1>0, <2>2, <2>3 DEF DiscoveryTypeOK
    <2> QED BY <1>1, <2>1, <2>3, <2>4 DEF ListingInv
<1>2. CASE DiscoveryScene /\ scene' = scene
    <2>1. DiscoveryInv' /\ scene = "discovery"
        BY <1>2, DiscoveryStep DEF DiscoveryScene, ListingInv
    <2>2. UNCHANGED <<includeDeleted, startAfter, done, values, err, fetching, ended, yielded>>
        BY <1>2 DEF DiscoveryScene, iterVars
    <2>3. DiscoveryTypeOK' /\ ListingTypeOK'
        BY <2>1 DEF DiscoveryInv, DiscoveryTypeOK
    <2>4. PagerTypeOK'
        BY <1>0, <2>2, <2>3 DEF PagerTypeOK
    <2> QED BY <1>2, <2>1, <2>3, <2>4 DEF ListingInv
<1>3. CASE scene' = scene /\ UNCHANGED <<listingVars, iterVars, managerVars>>
    <2>1. UNCHANGED pagerVars /\ UNCHANGED discoveryVars
        BY <1>3 DEF pagerVars, discoveryVars
    <2>2. PagerInv => PagerInv'
        BY <2>1, PagerStep
    <2>3. DiscoveryInv => DiscoveryInv'
        BY <2>1, DiscoveryStep
    <2>4. PagerTypeOK'
        BY <1>0, <1>3 DEF PagerTypeOK, ListingTypeOK, listingVars, iterVars
    <2>5. DiscoveryTypeOK'
        BY <1>0, <1>3 DEF DiscoveryTypeOK, ListingTypeOK, listingVars, managerVars
    <2> QED BY <1>3, <2>2, <2>3, <2>4, <2>5 DEF ListingInv
<1> QED BY <1>1, <1>2, <1>3 DEF Next, vars, PoolScene, UnaryScene, FrameScene

(* Every part of the client keeps its types beside the others, for all the *)
(* parameters at once: each takes its own steps or none.                   *)
THEOREM ClientTypeCorrect == Spec => []TypeOK
<1>1. Init => PoolInit /\ UnaryInit /\ FrameInit
    BY DEF Init, UnaryIdle, FrameIdle
<1>2. [Next]_vars => [PoolNext]_poolVars
    BY DEF Next, vars, PoolScene, UnaryScene, FrameScene, PagerScene, DiscoveryScene
<1>3. [Next]_vars => [UnaryNext]_unaryVars
    BY DEF Next, vars, PoolScene, UnaryScene, FrameScene, PagerScene, DiscoveryScene
<1>4. [Next]_vars => [FrameNext]_frameVars
    BY DEF Next, vars, PoolScene, UnaryScene, FrameScene, PagerScene, DiscoveryScene
<1>5. Spec => PoolSpec /\ UnarySpec /\ FrameSpec
    BY <1>1, <1>2, <1>3, <1>4, PTL DEF Spec, PoolSpec, UnarySpec, FrameSpec
<1>6. Spec => []ListingInv
    BY ListingInvInit, ListingInvStep, PTL DEF Spec
<1>7. PoolTypeOK /\ UnaryTypeOK /\ FrameReaderExact /\ ListingInv => TypeOK
    BY DEF TypeOK, FrameReaderExact, ListingInv
<1> QED BY <1>5, <1>6, <1>7, PoolTypeCorrect, UnaryTypeCorrect, FramesComeOutExactly, PTL

=============================================================================
