-------------------------- MODULE BentoInput_proofs --------------------------
(***************************************************************************)
(* What the Bento input promises for one stream, proved for every number   *)
(* of records, sessions, faults and nacks and every room in its channels.  *)
(***************************************************************************)
EXTENDS BentoInput, TLAPS, WellFoundedInduction

-----------------------------------------------------------------------------
(* The inductive invariant.                                                *)

(* The source has a session in every phase in which it uses one, and what  *)
(* it is sending is a record or an error; what Bento holds are records.    *)
SourceOK ==
    /\ worker.phase \in {"reading", "next", "sending"} => current \in Sessions
    /\ worker.phase = "sending" => worker.batch \in SeqNums \cup {NoBatch}
    /\ held \subseteq Sessions \X SeqNums
    /\ corrected \in BOOLEAN

(* Where record n of session s may stand: the session was opened and has   *)
(* read past it, and if the position was reset since the stream was        *)
(* created and the session is a later one, n lies before the tail.         *)
Fine(s, n) ==
    /\ s <= current
    /\ n < session[s].pos
    /\ corrected /\ session[s].gen = gen => n < tail

(* Everything tracked or on its way stands where it may. *)
TracksOK ==
    /\ \A s \in Sessions : \A n \in SeqNums : session[s].toAck[n] # "absent" => Fine(s, n)
    /\ \A s \in Sessions : \A i \in 1 .. Len(session[s].nacks) : Fine(s, session[s].nacks[i])
    /\ \A i \in 1 .. Len(inputStream) : Fine(inputStream[i][1], inputStream[i][2])
    /\ \A d \in held : Fine(d[1], d[2])
    /\ worker.phase = "sending" => Fine(current, worker.batch)

(* A session has the generation of the cache when it was opened, and a     *)
(* reset position is looked up in memory.                                  *)
ResetOK ==
    /\ \A s \in Sessions : session[s].gen <= gen
    /\ corrected => worker.phase # "lookup"
    /\ ResetStands

BentoInv == BentoTypeOK /\ SourceOK /\ TracksOK /\ ResetOK

(***************************************************************************)
(* While the first stream of this name lives and is read from its start:   *)
(* what a session has read is acked or tracked as unacked, what it tracks  *)
(* as acked is, and no position lies beyond an unacked record.             *)
(***************************************************************************)
ReadIsTracked ==
    \A s \in Sessions :
        /\ session[s].incarnation = 0
        /\ session[s].start <= session[s].pos /\ session[s].pos <= tail
        /\ \A n \in SeqNums : session[s].toAck[n] = "acked" => n \in acked
        /\ \A n \in SeqNums :
              n < session[s].pos => n \in acked \/ session[s].toAck[n] = "unacked"

OpenIsUnderWay ==
    current > 0 /\ session[current].open =>
        \A n \in 0 .. session[current].pos - 1 :
            n \in acked \/ UnderWay(n) \/ <<current, n>> \in givenUp

PositionsOK ==
    /\ AllAckedBelow(mem) /\ AllAckedBelow(durable)
    /\ worker.phase = "lookup" => AllAckedBelow(worker.batch)
    /\ \A n \in acked : n < tail

LossInv ==
    /\ BentoInv
    /\ manager = "removed" => worker.phase = "stopped"
    /\ StartSeqNum = "earliest" /\ incarnation = 0 =>
          PositionsOK /\ ReadIsTracked /\ OpenIsUnderWay

(* The initial states satisfy BentoInv. *)
LEMMA BentoInvInit == Init => LossInv
<1> SUFFICES ASSUME Init PROVE LossInv
  OBVIOUS
<1> USE DEF Init
<1>1. MaxRecords \in Nat /\ MaxSessions \in Nat /\ MaxInFlight \in Nat
  BY BentoAssumption
<1>2. NeverOpened \in StreamInputs
  <2>1. <<>> \in Seq(SeqNums) /\ 0 \in 0 .. MaxRecords
    BY <1>1
  <2>2. [n \in SeqNums |-> "absent"] \in [SeqNums -> {"absent", "unacked", "acked"}]
    OBVIOUS
  <2> QED  BY <2>1, <2>2 DEF NeverOpened, StreamInputs
<1>3. BentoTypeOK
  <2>1. session \in [Sessions -> StreamInputs]
    BY <1>2
  <2>2. worker \in [phase: WorkerPhases, batch: Positions]
    BY DEF At, WorkerPhases, Positions, NoBatch, NoEntry
  <2>3. inputStream \in Seq(Deliveries) /\ Len(inputStream) <= MaxInFlight
    BY <1>1
  <2>4. tail \in 0 .. MaxRecords /\ current \in 0 .. MaxSessions /\ incarnation \in Nat /\ gen \in Nat
    BY <1>1
  <2>5. mem \in Positions /\ durable \in Positions
    BY DEF Positions
  <2> QED  BY <2>1, <2>2, <2>3, <2>4, <2>5 DEF BentoTypeOK
<1>4. SourceOK /\ TracksOK
  <2>1. worker.phase = "connect"
    BY DEF At
  <2>2. \A s \in Sessions : session[s].nacks = <<>>
    BY DEF NeverOpened
  <2>3. \A s \in Sessions : \A n \in SeqNums : session[s].toAck[n] = "absent"
    BY DEF NeverOpened
  <2>4. SourceOK
    BY <2>1 DEF SourceOK
  <2>5. \A s \in Sessions : 1 .. Len(session[s].nacks) = {}
    BY <2>2
  <2>6. 1 .. Len(inputStream) = {}
    OBVIOUS
  <2> QED  BY <2>1, <2>3, <2>4, <2>5, <2>6 DEF TracksOK
<1>5. ResetOK
  BY DEF ResetOK, ResetStands, NeverOpened, At
<1>6. PositionsOK
  BY DEF PositionsOK, AllAckedBelow, At
<1>7. ReadIsTracked
  <2> SUFFICES ASSUME NEW s \in Sessions
               PROVE  /\ session[s].incarnation = 0 /\ session[s].start = 0 /\ session[s].pos = 0
                      /\ \A n \in SeqNums : session[s].toAck[n] = "absent" /\ ~(n < 0)
    BY DEF ReadIsTracked
  <2> QED  BY <1>1 DEF NeverOpened, SeqNums
<1>8. OpenIsUnderWay
  BY DEF OpenIsUnderWay
<1> QED  BY <1>3, <1>4, <1>5, <1>6, <1>7, <1>8 DEF LossInv, BentoInv

-----------------------------------------------------------------------------
(* Facts about the parts of a step.                                        *)

(* The types of one session. *)
LEMMA SessionTypes ==
    ASSUME BentoTypeOK, NEW s \in Sessions
    PROVE  /\ session[s] \in StreamInputs
           /\ session[s].start \in 0 .. MaxRecords /\ session[s].pos \in 0 .. MaxRecords
           /\ session[s].start \in Int /\ session[s].pos \in Int
           /\ session[s].gen \in Nat /\ session[s].incarnation \in Nat
           /\ session[s].toAck \in [SeqNums -> {"absent", "unacked", "acked"}]
           /\ session[s].nacks \in Seq(SeqNums)
BY BentoAssumption DEF BentoTypeOK, StreamInputs

(* What a step keeps of session s. *)
SameTracks(s) ==
    /\ session'[s].gen = session[s].gen /\ session'[s].incarnation = session[s].incarnation
    /\ session'[s].start = session[s].start /\ session'[s].pos = session[s].pos
    /\ session'[s].toAck = session[s].toAck /\ session'[s].nacks = session[s].nacks

(* Closing a session leaves what it tracks alone. *)
LEMMA CloseFacts ==
    ASSUME BentoTypeOK, current \in Sessions, CloseSession
    PROVE  /\ session' \in [Sessions -> StreamInputs]
           /\ \A s \in Sessions : SameTracks(s)
           /\ ~session'[current].open
<1> DEFINE closed == [session[current] EXCEPT !.open = FALSE]
<1>1. session' = [session EXCEPT ![current] = closed]
  BY DEF CloseSession
<1>2. session \in [Sessions -> StreamInputs] /\ session[current] \in StreamInputs
  BY DEF BentoTypeOK
<1>3. closed \in StreamInputs
  BY <1>2 DEF StreamInputs
<1>4. /\ closed.gen = session[current].gen /\ closed.incarnation = session[current].incarnation
      /\ closed.start = session[current].start /\ closed.pos = session[current].pos
      /\ closed.toAck = session[current].toAck /\ closed.nacks = session[current].nacks
      /\ closed.open = FALSE
  BY <1>2 DEF StreamInputs
<1> HIDE DEF closed
<1>5. session' \in [Sessions -> StreamInputs]
  BY <1>1, <1>2, <1>3
<1>6. session'[current] = closed /\ \A s \in Sessions \ {current} : session'[s] = session[s]
  BY <1>1, <1>2
<1> QED  BY <1>4, <1>5, <1>6 DEF SameTracks

(* A record stands where it may after a step. *)
FineNext(s, n) ==
    /\ s <= current'
    /\ n < session'[s].pos
    /\ corrected' /\ session'[s].gen = gen' => n < tail'

(* A record that stands where it may stays there while nothing it depends  *)
(* on moves back.                                                          *)
LEMMA FineKept ==
    ASSUME BentoInv, NEW s \in Sessions, NEW n \in Int, Fine(s, n),
           tail' \in Int, tail' >= tail \/ ~corrected',
           current' \in Int, current' >= current,
           session'[s].pos \in Int, session'[s].pos >= session[s].pos,
           session'[s].gen = session[s].gen,
           corrected' /\ session[s].gen = gen' => corrected /\ gen' = gen
    PROVE  FineNext(s, n)
<1>1. session[s].pos \in Int /\ current \in Int /\ tail \in Int
  BY SessionTypes, BentoAssumption DEF BentoInv, BentoTypeOK
<1>2. s \in Int
  BY DEF Sessions
<1> QED  BY <1>1, <1>2 DEF Fine, FineNext

(* What is on its way is a record, or an error, of a session. *)
LEMMA DeliveryTypes ==
    ASSUME BentoInv
    PROVE  /\ \A s \in Sessions : \A i \in 1 .. Len(session[s].nacks) :
                session[s].nacks[i] \in SeqNums
           /\ \A i \in 1 .. Len(inputStream) :
                inputStream[i][1] \in Sessions /\ inputStream[i][2] \in SeqNums \cup {NoBatch}
           /\ \A d \in held : d[1] \in Sessions /\ d[2] \in SeqNums /\ d = <<d[1], d[2]>>
           /\ SeqNums \cup {NoBatch} \subseteq Int
<1>1. ASSUME NEW s \in Sessions, NEW i \in 1 .. Len(session[s].nacks)
      PROVE  session[s].nacks[i] \in SeqNums
  BY SessionTypes DEF BentoInv
<1>2. ASSUME NEW i \in 1 .. Len(inputStream)
      PROVE  inputStream[i][1] \in Sessions /\ inputStream[i][2] \in SeqNums \cup {NoBatch}
  <2>1. inputStream[i] \in Deliveries
    BY DEF BentoInv, BentoTypeOK
  <2> QED  BY <2>1 DEF Deliveries
<1>3. \A d \in held : d[1] \in Sessions /\ d[2] \in SeqNums /\ d = <<d[1], d[2]>>
  BY DEF BentoInv, SourceOK
<1>4. SeqNums \cup {NoBatch} \subseteq Int
  BY DEF SeqNums, NoBatch
<1> QED  BY <1>1, <1>2, <1>3, <1>4

(***************************************************************************)
(* A step that neither reads nor delivers: the sessions keep what they     *)
(* track, and nothing new is on its way.                                   *)
(***************************************************************************)
LEMMA TracksUntouched ==
    ASSUME BentoInv, BentoTypeOK', SourceOK',
           \A s \in Sessions : SameTracks(s),
           UNCHANGED <<inputStream, held, current>>,
           tail' >= tail \/ ~corrected',
           \A s \in Sessions : corrected' /\ session[s].gen = gen' => corrected /\ gen' = gen,
           worker'.phase = "sending" =>
               \/ worker.phase = "sending" /\ worker'.batch = worker.batch
               \/ worker'.batch = NoBatch
    PROVE  TracksOK'
<1>1. tail' \in Int /\ current' \in Int /\ current' = current /\ current \in Int
  BY BentoAssumption DEF BentoTypeOK, BentoInv
<1>2. ASSUME NEW s \in Sessions, NEW n \in Int, Fine(s, n) PROVE FineNext(s, n)
  <2>1. session'[s].pos \in Int /\ session'[s].pos >= session[s].pos
    BY SessionTypes DEF SameTracks, BentoInv
  <2> QED  BY <1>1, <1>2, <2>1, FineKept DEF SameTracks
<1>3. \A s \in Sessions : \A n \in SeqNums : session'[s].toAck[n] # "absent" => FineNext(s, n)
  BY <1>2, DeliveryTypes DEF SameTracks, BentoInv, TracksOK
<1>4. \A s \in Sessions : \A i \in 1 .. Len(session'[s].nacks) :
        FineNext(s, session'[s].nacks[i])
  BY <1>2, DeliveryTypes DEF SameTracks, BentoInv, TracksOK
<1>5. \A i \in 1 .. Len(inputStream') : FineNext(inputStream'[i][1], inputStream'[i][2])
  BY <1>2, DeliveryTypes DEF BentoInv, TracksOK
<1>6. \A d \in held' : FineNext(d[1], d[2])
  BY <1>2, DeliveryTypes DEF BentoInv, TracksOK
<1>7. ASSUME worker'.phase = "sending" PROVE FineNext(current', worker'.batch)
  <2>1. current \in Sessions
    BY <1>1, <1>7 DEF SourceOK
  <2>2. CASE worker.phase = "sending" /\ worker'.batch = worker.batch
    <3>1. worker.batch \in Int
      BY <2>2, DeliveryTypes DEF BentoInv, SourceOK
    <3> QED  BY <1>1, <1>2, <2>1, <2>2, <3>1 DEF BentoInv, TracksOK
  <2>3. CASE worker'.batch = NoBatch
    <3>1. session'[current].pos \in 0 .. MaxRecords
      BY <2>1, SessionTypes DEF SameTracks, BentoInv
    <3>2. tail' \in 0 .. MaxRecords
      BY DEF BentoTypeOK
    <3>3. MaxRecords \in Nat
      BY BentoAssumption
    <3> QED  BY <1>1, <2>3, <3>1, <3>2, <3>3 DEF FineNext, NoBatch
  <2> QED  BY <1>7, <2>2, <2>3
<1> QED  BY <1>3, <1>4, <1>5, <1>6, <1>7 DEF TracksOK, Fine, FineNext

-----------------------------------------------------------------------------
(* Every step keeps BentoInv.                                              *)

Using == {"reading", "next", "sending"}

(* A step that neither reads nor delivers, and moves no position beyond    *)
(* the tail while a reset stands.                                          *)
QuietWorker ==
    /\ worker' \in [phase: WorkerPhases, batch: Positions]
    /\ worker'.phase \in Using => worker.phase \in Using
    /\ worker'.phase = "sending" =>
          \/ worker.phase = "sending" /\ worker'.batch = worker.batch
          \/ worker'.batch = NoBatch

QuietCache ==
    /\ mem' \in Positions /\ durable' \in Positions /\ gen' \in Nat /\ gen' >= gen
    /\ corrected' \in BOOLEAN /\ (corrected' /\ gen' = gen => corrected)
    /\ corrected' => mem' # NoEntry /\ mem' <= tail' /\ worker'.phase # "lookup"

(* A step that leaves alone what the sessions track and what is on its way
   to Bento, changes the cache only as QuietCache says, and starts no use of
   a session, keeps BentoInv. *)
LEMMA QuietStep ==
    ASSUME BentoInv, QuietWorker, QuietCache,
           session' \in [Sessions -> StreamInputs], \A s \in Sessions : SameTracks(s),
           UNCHANGED <<inputStream, held, current>>,
           tail' \in 0 .. MaxRecords, tail' >= tail \/ ~corrected', incarnation' \in Nat,
           acked' \subseteq SeqNums,
           manager' \in {"run", "pruning", "removed", "closing", "closed"}
    PROVE  BentoInv'
<1>1. BentoTypeOK'
  BY DEF BentoTypeOK, BentoInv, QuietWorker, QuietCache
<1>2. SourceOK'
  BY DEF SourceOK, BentoInv, QuietWorker, QuietCache, Using
<1>3. \A s \in Sessions : session[s].gen \in Nat /\ session[s].gen <= gen /\ gen \in Nat
  BY SessionTypes DEF BentoInv, ResetOK, BentoTypeOK
<1>4. \A s \in Sessions : corrected' /\ session[s].gen = gen' => corrected /\ gen' = gen
  BY <1>3 DEF QuietCache
<1>5. TracksOK'
  BY <1>1, <1>2, <1>4, TracksUntouched DEF QuietWorker
<1>6. \A s \in Sessions : session'[s].gen <= gen'
  BY <1>3 DEF SameTracks, QuietCache
<1>7. ResetOK'
  BY <1>6 DEF ResetOK, ResetStands, QuietCache
<1> QED  BY <1>1, <1>2, <1>5, <1>7 DEF BentoInv

(* The phases of a source that waits for nothing it has read. *)
LEMMA AtTypes ==
    \A phase \in WorkerPhases : /\ At(phase) \in [phase: WorkerPhases, batch: Positions]
                                /\ At(phase).phase = phase /\ At(phase).batch = NoBatch
BY DEF At, Positions, NoBatch, NoEntry

(* The cache keeps its types, whether its durable part fails or not. *)
LEMMA InnerSetTypes ==
    ASSUME durable \in Positions, NEW value \in Positions, NEW ok, InnerSet(value, ok)
    PROVE  durable' \in Positions
BY DEF InnerSet

(* The steps of the cache's owner, of the manager and of the stream.       *)
LEMMA ManagerSteps ==
    ASSUME BentoInv, Prune \/ Forget \/ Respawn \/ Close \/ ManagerCloses \/ ClientAppends
                     \/ StreamRecreated
    PROVE  BentoInv'
<1> USE DEF BentoInv
<1>1. /\ session' = session /\ session' \in [Sessions -> StreamInputs]
      /\ UNCHANGED <<inputStream, held, current, gen, durable>>
      /\ manager' \in {"run", "pruning", "removed", "closing", "closed"}
      /\ incarnation' \in Nat /\ acked' \subseteq SeqNums
  BY DEF Prune, Forget, Respawn, Close, ManagerCloses, ClientAppends, StreamRecreated,
         BentoTypeOK
<1>2. worker' = worker \/ worker' = At("connect")
  BY DEF Prune, Forget, Respawn, Close, ManagerCloses, ClientAppends, StreamRecreated
<1>3. QuietWorker
  BY <1>2, AtTypes DEF QuietWorker, Using, WorkerPhases, BentoTypeOK
<1>4. tail' \in 0 .. MaxRecords /\ (tail' >= tail \/ ~corrected')
  <2>1. tail \in 0 .. MaxRecords /\ MaxRecords \in Nat
    BY BentoAssumption DEF BentoTypeOK
  <2>2. tail' = tail \/ ClientAppends \/ StreamRecreated
    BY DEF Prune, Forget, Respawn, Close, ManagerCloses
  <2> QED  BY <2>1, <2>2 DEF ClientAppends, StreamRecreated
<1>5. \/ mem' = mem /\ corrected' \in {corrected, FALSE}
      \/ mem' = NoEntry /\ corrected' = FALSE
  BY DEF Prune, Forget, Respawn, Close, ManagerCloses, ClientAppends, StreamRecreated
<1>6. QuietCache
  <2>1. /\ mem \in Positions /\ durable \in Positions /\ gen \in Nat /\ NoEntry \in Positions
        /\ corrected \in BOOLEAN
    BY DEF BentoTypeOK, SourceOK, Positions
  <2>2. corrected => mem # NoEntry /\ mem <= tail /\ worker.phase # "lookup"
    BY DEF ResetOK, ResetStands
  <2>3. ASSUME corrected' PROVE mem' # NoEntry /\ mem' <= tail' /\ worker'.phase # "lookup"
    <3>1. corrected /\ mem' = mem
      BY <1>5, <2>3, Zenon
    <3>2. tail' >= tail /\ mem \in Int /\ tail \in Int /\ tail' \in Int
      BY <1>4, <2>1, <2>3, BentoAssumption DEF Positions, NoEntry, BentoTypeOK
    <3>3. worker'.phase # "lookup"
      BY <1>2, <2>2, <3>1, AtTypes DEF WorkerPhases
    <3> QED  BY <2>2, <3>1, <3>2, <3>3
  <2>4. corrected' \in BOOLEAN /\ (corrected' => corrected)
    <3>1. CASE corrected' = corrected
      BY <2>1, <3>1, Zenon
    <3>2. CASE corrected' = FALSE
      BY <3>2, Zenon
    <3> QED  BY <1>5, <3>1, <3>2, Zenon
  <2>5. mem' \in Positions
    BY <1>5, <2>1, Zenon
  <2> QED  BY <1>1, <2>1, <2>3, <2>4, <2>5 DEF QuietCache
<1> QED  BY <1>1, <1>3, <1>4, <1>6, QuietStep DEF SameTracks

(* The steps of the source that read and deliver nothing.                  *)
LEMMA SourceSteps ==
    ASSUME BentoInv, CacheMiss \/ EnterNext \/ SessionEnds \/ WorkerStops
    PROVE  BentoInv'
<1> USE DEF BentoInv
<1>1. UNCHANGED <<inputStream, held, current, gen, durable, mem, corrected, tail, incarnation,
                  acked, manager>>
  BY DEF CacheMiss, EnterNext, SessionEnds, WorkerStops
<1>2. session' \in [Sessions -> StreamInputs] /\ \A s \in Sessions : SameTracks(s)
  <2>1. CASE session' = session
    BY <2>1 DEF SameTracks, BentoTypeOK
  <2>2. CASE CloseSession /\ worker.phase \in Using
    BY <2>2, CloseFacts DEF SourceOK, Using
  <2>3. worker.phase \in WorkerPhases
    BY DEF BentoTypeOK
  <2> QED  BY <2>1, <2>2, <2>3 DEF CacheMiss, EnterNext, SessionEnds, WorkerStops, Using,
                                 WorkerPhases
<1>3. \/ worker' = [phase |-> "lookup", batch |-> durable] /\ mem = NoEntry
      \/ worker' = [phase |-> "lookup", batch |-> NoEntry] /\ mem = NoEntry
      \/ worker' \in {At("next"), At("sending")} /\ worker.phase \in Using
      \/ worker' \in {At("connect"), At("stopped")}
  BY DEF CacheMiss, EnterNext, SessionEnds, WorkerStops, Using
<1>4. durable \in Positions /\ NoEntry \in Positions
  BY DEF BentoTypeOK, Positions
<1>5. QuietWorker
  <2>1. CASE mem = NoEntry /\ \E found \in Positions : worker' = [phase |-> "lookup", batch |-> found]
    BY <2>1 DEF QuietWorker, Using, WorkerPhases
  <2>2. CASE worker' \in {At("next"), At("sending")} /\ worker.phase \in Using
    BY <2>2, AtTypes DEF QuietWorker, WorkerPhases
  <2>3. CASE worker' \in {At("connect"), At("stopped")}
    BY <2>3, AtTypes DEF QuietWorker, Using, WorkerPhases
  <2> QED  BY <1>3, <1>4, <2>1, <2>2, <2>3
<1>6. QuietCache
  <2>1. mem = NoEntry => ~corrected
    BY DEF ResetOK, ResetStands
  <2>2. corrected => worker'.phase # "lookup"
    BY <1>3, <2>1, AtTypes DEF WorkerPhases
  <2>3. mem \in Positions /\ gen \in Nat /\ corrected \in BOOLEAN
    BY DEF BentoTypeOK, SourceOK
  <2> QED  BY <1>1, <1>4, <2>2, <2>3 DEF QuietCache, ResetOK, ResetStands
<1>7. /\ tail' \in 0 .. MaxRecords /\ tail' >= tail /\ incarnation' \in Nat
      /\ acked' \subseteq SeqNums
      /\ manager' \in {"run", "pruning", "removed", "closing", "closed"}
  BY <1>1, BentoAssumption DEF BentoTypeOK
<1> QED  BY <1>1, <1>2, <1>5, <1>6, <1>7, QuietStep

(* The reset: every session opened before carries an older generation.     *)
LEMMA ResetStep ==
    ASSUME BentoInv, RangeNotSatisfiable
    PROVE  BentoInv'
<1> USE DEF BentoInv
<1>1. /\ UNCHANGED <<inputStream, held, current, tail, incarnation, acked, manager>>
      /\ worker.phase = "next" /\ worker' = At("connect") /\ CloseSession
      /\ gen' = gen + 1 /\ mem' = tail /\ corrected' = TRUE
      /\ \E ok \in BOOLEAN : InnerSet(tail, ok)
  BY DEF RangeNotSatisfiable, ResetToTail
<1>2. tail \in 0 .. MaxRecords /\ MaxRecords \in Nat /\ tail \in Positions /\ tail # NoEntry
      /\ gen \in Nat
  BY BentoAssumption DEF BentoTypeOK, Positions, NoEntry
<1>3. session' \in [Sessions -> StreamInputs] /\ \A s \in Sessions : SameTracks(s)
  BY <1>1, CloseFacts DEF SourceOK
<1>4. QuietWorker
  BY <1>1, AtTypes DEF QuietWorker, Using, WorkerPhases
<1>5. durable' \in Positions
  BY <1>1, <1>2, InnerSetTypes DEF BentoTypeOK
<1>6. QuietCache
  <2>1. worker'.phase # "lookup"
    BY <1>1, AtTypes DEF WorkerPhases
  <2> QED  BY <1>1, <1>2, <1>5, <2>1 DEF QuietCache
<1>7. /\ tail' \in 0 .. MaxRecords /\ tail' >= tail /\ incarnation' \in Nat
      /\ acked' \subseteq SeqNums
      /\ manager' \in {"run", "pruning", "removed", "closing", "closed"}
  BY <1>1, <1>2 DEF BentoTypeOK
<1> QED  BY <1>1, <1>3, <1>4, <1>6, <1>7, QuietStep

(* A session opened anew: no record of it is tracked or on its way.        *)
LEMMA ConnectStep ==
    ASSUME BentoInv, Connect
    PROVE  BentoInv'
<1> USE DEF BentoInv
<1> DEFINE s0 == current + 1
<1>1. /\ UNCHANGED <<inputStream, held, gen, durable, corrected, tail, incarnation, acked, manager>>
      /\ current' = s0 /\ current < MaxSessions /\ worker' = At("reading")
  BY DEF Connect
<1>2. /\ current \in Nat /\ MaxSessions \in Nat /\ MaxRecords \in Nat /\ tail \in 0 .. MaxRecords
      /\ s0 \in Sessions /\ s0 > current /\ gen \in Nat /\ incarnation \in Nat
  BY <1>1, BentoAssumption DEF BentoTypeOK, Sessions
<1>3. PICK start \in 0 .. MaxRecords :
          /\ session' = [session EXCEPT ![s0] = NewStreamInput(start)]
          /\ mem' = mem \/ (worker.phase = "lookup" /\ mem' = worker.batch)
  <2>1. CASE mem # NoEntry /\ mem' = mem /\ session' = [session EXCEPT ![s0] = NewStreamInput(mem)]
    <3>1. mem \in 0 .. MaxRecords
      BY <2>1 DEF BentoTypeOK, Positions
    <3> QED  BY <2>1, <3>1
  <2>2. CASE /\ worker.phase = "lookup"
             /\ mem' = IF worker.batch # NoEntry THEN worker.batch ELSE mem
             /\ session' = [session EXCEPT ![s0] =
                   NewStreamInput(IF worker.batch # NoEntry THEN worker.batch ELSE DefaultStart)]
    <3>1. worker.batch \in Positions /\ DefaultStart \in 0 .. MaxRecords
      BY <1>2 DEF BentoTypeOK, DefaultStart
    <3>2. (IF worker.batch # NoEntry THEN worker.batch ELSE DefaultStart) \in 0 .. MaxRecords
      BY <3>1 DEF Positions
    <3> QED  BY <2>2, <3>2
  <2> QED  BY <2>1, <2>2 DEF Connect
<1>4. NewStreamInput(start) \in StreamInputs
  <2>1. <<>> \in Seq(SeqNums)
    OBVIOUS
  <2>2. [n \in SeqNums |-> "absent"] \in [SeqNums -> {"absent", "unacked", "acked"}]
    OBVIOUS
  <2> QED  BY <1>2, <2>1, <2>2 DEF NewStreamInput, StreamInputs
<1>5. /\ session' \in [Sessions -> StreamInputs]
      /\ session'[s0] = NewStreamInput(start)
      /\ \A s \in Sessions \ {s0} : session'[s] = session[s]
  BY <1>2, <1>3, <1>4 DEF BentoTypeOK
<1>6. /\ session'[s0].nacks = <<>> /\ session'[s0].gen = gen
      /\ \A n \in SeqNums : session'[s0].toAck[n] = "absent"
  BY <1>5 DEF NewStreamInput
<1>7. worker'.phase = "reading" /\ worker' \in [phase: WorkerPhases, batch: Positions]
  BY <1>1, AtTypes DEF WorkerPhases
<1>8. BentoTypeOK'
  <2>1. mem' \in Positions
    BY <1>3 DEF BentoTypeOK
  <2> QED  BY <1>1, <1>2, <1>5, <1>7, <2>1 DEF BentoTypeOK
<1>9. SourceOK'
  BY <1>1, <1>2, <1>7 DEF SourceOK
<1>10. ASSUME NEW s \in Sessions, NEW n \in Int, Fine(s, n) PROVE s # s0 /\ FineNext(s, n)
  <2>1. s # s0 /\ s \in Int
    BY <1>2, <1>10 DEF Fine, Sessions
  <2>2. session'[s] = session[s] /\ session'[s].pos \in Int
    BY <1>5, <2>1, SessionTypes
  <2> QED  BY <1>1, <1>2, <1>10, <2>1, <2>2, FineKept
<1>11. \A s \in Sessions : \A n \in SeqNums : session'[s].toAck[n] # "absent" => FineNext(s, n)
  BY <1>5, <1>6, <1>10, DeliveryTypes DEF TracksOK
<1>12. \A s \in Sessions : \A i \in 1 .. Len(session'[s].nacks) : FineNext(s, session'[s].nacks[i])
  <2> SUFFICES ASSUME NEW s \in Sessions, NEW i \in 1 .. Len(session'[s].nacks)
               PROVE  FineNext(s, session'[s].nacks[i])
    OBVIOUS
  <2>1. s # s0 /\ session'[s] = session[s]
    BY <1>5, <1>6
  <2> QED  BY <1>10, <2>1, DeliveryTypes DEF TracksOK
<1>13. \A i \in 1 .. Len(inputStream') : FineNext(inputStream'[i][1], inputStream'[i][2])
  BY <1>1, <1>10, DeliveryTypes DEF TracksOK
<1>14. \A d \in held' : FineNext(d[1], d[2])
  BY <1>1, <1>10, DeliveryTypes DEF TracksOK
<1>15. TracksOK'
  BY <1>7, <1>11, <1>12, <1>13, <1>14 DEF TracksOK, Fine, FineNext
<1>16. ResetOK'
  <2>1. \A s \in Sessions : session'[s].gen <= gen'
    BY <1>1, <1>2, <1>5, <1>6 DEF ResetOK
  <2>2. corrected => mem' = mem
    BY <1>3 DEF ResetOK
  <2> QED  BY <1>1, <1>7, <2>1, <2>2 DEF ResetOK, ResetStands
<1> QED  BY <1>8, <1>9, <1>15, <1>16

(* A crash empties everything but the stream and the durable cache.        *)
LEMMA RestartStep ==
    ASSUME BentoInv, Restart
    PROVE  BentoInv'
<1> USE DEF BentoInv
<1>1. /\ UNCHANGED <<tail, incarnation, durable, current, acked>>
      /\ mem' = NoEntry /\ gen' = 0 /\ corrected' = FALSE /\ manager' = "run"
      /\ worker' = At("connect") /\ session' = [s \in Sessions |-> NeverOpened]
      /\ inputStream' = <<>> /\ held' = {}
  BY DEF Restart
<1>2. MaxRecords \in Nat /\ MaxInFlight \in Nat
  BY BentoAssumption
<1>3. NeverOpened \in StreamInputs
  <2>1. <<>> \in Seq(SeqNums) /\ 0 \in 0 .. MaxRecords
    BY <1>2
  <2>2. [n \in SeqNums |-> "absent"] \in [SeqNums -> {"absent", "unacked", "acked"}]
    OBVIOUS
  <2> QED  BY <2>1, <2>2 DEF NeverOpened, StreamInputs
<1>4. worker'.phase = "connect" /\ worker' \in [phase: WorkerPhases, batch: Positions]
  BY <1>1, AtTypes DEF WorkerPhases
<1>5. BentoTypeOK'
  <2>1. session' \in [Sessions -> StreamInputs]
    BY <1>1, <1>3
  <2>2. inputStream' \in Seq(Deliveries) /\ Len(inputStream') <= MaxInFlight
    BY <1>1, <1>2
  <2> QED  BY <1>1, <1>4, <2>1, <2>2 DEF BentoTypeOK, Positions
<1>6. SourceOK'
  BY <1>1, <1>4 DEF SourceOK
<1>7. TracksOK'
  <2>1. \A s \in Sessions : /\ 1 .. Len(session'[s].nacks) = {}
                            /\ \A n \in SeqNums : session'[s].toAck[n] = "absent"
    BY <1>1 DEF NeverOpened
  <2>2. 1 .. Len(inputStream') = {}
    BY <1>1
  <2> QED  BY <1>1, <1>4, <2>1, <2>2 DEF TracksOK
<1>8. ResetOK'
  BY <1>1 DEF ResetOK, ResetStands, NeverOpened
<1> QED  BY <1>5, <1>6, <1>7, <1>8

(* A record is taken from the session and tracked. *)
LEMMA HandleFacts ==
    ASSUME BentoTypeOK, current \in Sessions, NEW n \in SeqNums, NEW input \in StreamInputs,
           HandleBatch(n, input)
    PROVE  /\ worker' = [phase |-> "sending", batch |-> n]
           /\ session' \in [Sessions -> StreamInputs]
           /\ \A s \in Sessions \ {current} : session'[s] = session[s]
           /\ session'[current].toAck = [input.toAck EXCEPT ![n] = "unacked"]
           /\ session'[current].gen = input.gen /\ session'[current].incarnation = input.incarnation
           /\ session'[current].start = input.start /\ session'[current].pos = input.pos
           /\ session'[current].open = input.open /\ session'[current].nacks = input.nacks
<1> DEFINE tracked == [input.toAck EXCEPT ![n] = "unacked"]
           tracking == [input EXCEPT !.toAck = tracked]
<1>1. worker' = [phase |-> "sending", batch |-> n] /\ session' = [session EXCEPT ![current] = tracking]
  BY DEF HandleBatch
<1>2. tracked \in [SeqNums -> {"absent", "unacked", "acked"}]
  BY DEF StreamInputs
<1> HIDE DEF tracked
<1>3. /\ tracking \in StreamInputs /\ tracking.toAck = tracked
      /\ tracking.gen = input.gen /\ tracking.incarnation = input.incarnation
      /\ tracking.start = input.start /\ tracking.pos = input.pos
      /\ tracking.open = input.open /\ tracking.nacks = input.nacks
  BY <1>2 DEF StreamInputs
<1> HIDE DEF tracking
<1>4. /\ session' \in [Sessions -> StreamInputs] /\ session'[current] = tracking
      /\ \A s \in Sessions \ {current} : session'[s] = session[s]
  BY <1>1, <1>3 DEF BentoTypeOK
<1> QED  BY <1>1, <1>3, <1>4 DEF tracked

(* handleBatch, for a batch read from the stream or redelivered, keeps
   BentoInv. *)
LEMMA ReadStep ==
    ASSUME BentoInv, worker.phase \in {"reading", "next"},
           NEW n \in SeqNums, NEW input \in StreamInputs, HandleBatch(n, input),
           input.gen = session[current].gen, input.toAck = session[current].toAck,
           input.pos >= session[current].pos, n < input.pos,
           corrected /\ session[current].gen = gen => n < tail,
           \A i \in 1 .. Len(input.nacks) :
               \E j \in 1 .. Len(session[current].nacks) : input.nacks[i] = session[current].nacks[j],
           UNCHANGED <<tail, incarnation, mem, durable, gen, manager, current, inputStream, held,
                       acked, corrected>>
    PROVE  BentoInv'
<1> USE DEF BentoInv
<1>1. current \in Sessions /\ current \in Int
  BY DEF SourceOK, Sessions
<1>2. /\ worker' = [phase |-> "sending", batch |-> n]
      /\ session' \in [Sessions -> StreamInputs]
      /\ \A s \in Sessions \ {current} : session'[s] = session[s]
      /\ session'[current].toAck = [input.toAck EXCEPT ![n] = "unacked"]
      /\ session'[current].gen = input.gen /\ session'[current].pos = input.pos
      /\ session'[current].nacks = input.nacks
  BY <1>1, HandleFacts
<1>3. BentoTypeOK'
  <2>1. worker' \in [phase: WorkerPhases, batch: Positions]
    <3>1. n \in Positions
      BY BentoAssumption DEF Positions, SeqNums
    <3> QED  BY <1>2, <3>1 DEF WorkerPhases
  <2> QED  BY <1>2, <2>1 DEF BentoTypeOK
<1>4. SourceOK'
  BY <1>1, <1>2 DEF SourceOK
<1>5. ASSUME NEW s \in Sessions, NEW m \in Int, Fine(s, m) PROVE FineNext(s, m)
  <2>1. session[s].pos \in Int /\ session'[s].pos \in Int /\ session'[s].pos >= session[s].pos
    <3>1. session[s].pos \in Int
      BY SessionTypes
    <3>2. CASE s = current
      BY <1>2, <3>1, <3>2 DEF StreamInputs
    <3>3. CASE s # current
      BY <1>2, <3>1, <3>3
    <3> QED  BY <3>1, <3>2, <3>3
  <2>2. session'[s].gen = session[s].gen
    <3>1. CASE s = current
      BY <1>2, <3>1
    <3>2. CASE s # current
      BY <1>2, <3>2
    <3> QED  BY <3>1, <3>2
  <2>3. tail \in Int
    BY BentoAssumption DEF BentoTypeOK
  <2> QED  BY <1>1, <1>5, <2>1, <2>2, <2>3, FineKept
<1>6. FineNext(current, n)
  BY <1>1, <1>2 DEF FineNext
<1>7. \A s \in Sessions : \A m \in SeqNums : session'[s].toAck[m] # "absent" => FineNext(s, m)
  <2> SUFFICES ASSUME NEW s \in Sessions, NEW m \in SeqNums, session'[s].toAck[m] # "absent"
               PROVE  FineNext(s, m)
    OBVIOUS
  <2>1. CASE s = current /\ m = n
    BY <1>6, <2>1
  <2>2. CASE ~(s = current /\ m = n)
    <3>1. session'[s].toAck[m] = session[s].toAck[m]
      BY <1>2, <2>2, SessionTypes
    <3> QED  BY <1>5, <3>1, DeliveryTypes DEF TracksOK
  <2> QED  BY <2>1, <2>2
<1>8. \A s \in Sessions : \A i \in 1 .. Len(session'[s].nacks) : FineNext(s, session'[s].nacks[i])
  <2> SUFFICES ASSUME NEW s \in Sessions, NEW i \in 1 .. Len(session'[s].nacks)
               PROVE  FineNext(s, session'[s].nacks[i])
    OBVIOUS
  <2>1. \E j \in 1 .. Len(session[s].nacks) : session'[s].nacks[i] = session[s].nacks[j]
    BY <1>2
  <2> QED  BY <1>5, <2>1, DeliveryTypes DEF TracksOK
<1>9. \A i \in 1 .. Len(inputStream') : FineNext(inputStream'[i][1], inputStream'[i][2])
  BY <1>5, DeliveryTypes DEF TracksOK
<1>10. \A d \in held' : FineNext(d[1], d[2])
  BY <1>5, DeliveryTypes DEF TracksOK
<1>11. TracksOK'
  BY <1>2, <1>6, <1>7, <1>8, <1>9, <1>10 DEF TracksOK, Fine, FineNext
<1>12. ResetOK'
  BY <1>2 DEF ResetOK, ResetStands
<1> QED  BY <1>3, <1>4, <1>11, <1>12

(* The queue of nacked batches without its head. *)
LEMMA TailFacts ==
    ASSUME NEW S, NEW q \in Seq(S), q # <<>>
    PROVE  /\ Head(q) \in S /\ Head(q) = q[1] /\ Tail(q) \in Seq(S) /\ 1 \in 1 .. Len(q)
           /\ Len(q) \in Nat /\ Len(q) > 0 /\ Len(Tail(q)) = Len(q) - 1
           /\ \A i \in 1 .. Len(Tail(q)) : Tail(q)[i] = q[i + 1] /\ i + 1 \in 1 .. Len(q)
OBVIOUS

(* The session without the head of its nacks. *)
LEMMA NackedInput ==
    ASSUME BentoInv, NEW s \in Sessions, session[s].nacks # <<>>
    PROVE  LET input == [session[s] EXCEPT !.nacks = Tail(@)]
           IN  /\ input \in StreamInputs /\ input.nacks = Tail(session[s].nacks)
               /\ input.gen = session[s].gen /\ input.toAck = session[s].toAck
               /\ input.start = session[s].start /\ input.pos = session[s].pos
               /\ input.incarnation = session[s].incarnation /\ input.open = session[s].open
<1> DEFINE rest == Tail(session[s].nacks)
           input == [session[s] EXCEPT !.nacks = rest]
<1>1. session[s] \in StreamInputs /\ rest \in Seq(SeqNums)
  BY SessionTypes, TailFacts DEF BentoInv
<1> HIDE DEF rest
<1>2. /\ input \in StreamInputs /\ input.nacks = rest
      /\ input.gen = session[s].gen /\ input.toAck = session[s].toAck
      /\ input.start = session[s].start /\ input.pos = session[s].pos
      /\ input.incarnation = session[s].incarnation /\ input.open = session[s].open
  BY <1>1 DEF StreamInputs
<1> QED  BY <1>2 DEF rest

(* The session past its next record. *)
LEMMA ReadInput ==
    ASSUME BentoInv, NEW s \in Sessions, session[s].pos < tail
    PROVE  LET input == [session[s] EXCEPT !.pos = @ + 1]
           IN  /\ input \in StreamInputs /\ input.pos = session[s].pos + 1
               /\ input.gen = session[s].gen /\ input.toAck = session[s].toAck
               /\ input.start = session[s].start /\ input.nacks = session[s].nacks
               /\ input.incarnation = session[s].incarnation /\ input.open = session[s].open
               /\ session[s].pos \in SeqNums
<1> DEFINE next == session[s].pos + 1
           input == [session[s] EXCEPT !.pos = next]
<1>1. session[s].pos \in 0 .. MaxRecords /\ tail \in 0 .. MaxRecords /\ MaxRecords \in Nat
  BY SessionTypes, BentoAssumption DEF BentoInv, BentoTypeOK
<1>2. session[s] \in StreamInputs /\ next \in 0 .. MaxRecords /\ session[s].pos \in SeqNums
  BY <1>1, SessionTypes DEF BentoInv, SeqNums
<1> HIDE DEF next
<1>3. /\ input \in StreamInputs /\ input.pos = next
      /\ input.gen = session[s].gen /\ input.toAck = session[s].toAck
      /\ input.start = session[s].start /\ input.nacks = session[s].nacks
      /\ input.incarnation = session[s].incarnation /\ input.open = session[s].open
  BY <1>2 DEF StreamInputs
<1> QED  BY <1>2, <1>3 DEF next

(* The redelivery of a nacked batch keeps BentoInv. *)
LEMMA ReadNackedStep ==
    ASSUME BentoInv, ReadNacked
    PROVE  BentoInv'
<1> DEFINE n == Head(session[current].nacks)
           input == [session[current] EXCEPT !.nacks = Tail(@)]
<1>1. /\ worker.phase = "reading" /\ session[current].nacks # <<>> /\ HandleBatch(n, input)
      /\ UNCHANGED <<tail, incarnation, mem, durable, gen, manager, current, inputStream, held,
                     acked, corrected>>
  BY DEF ReadNacked
<1>2. current \in Sessions
  BY <1>1 DEF BentoInv, SourceOK
<1>3. session[current].nacks \in Seq(SeqNums) /\ session[current].pos \in Int
  BY <1>2, SessionTypes DEF BentoInv
<1>4. n \in SeqNums /\ Fine(current, n)
  BY <1>1, <1>2, <1>3, TailFacts DEF BentoInv, TracksOK
<1>5. /\ input \in StreamInputs /\ input.nacks = Tail(session[current].nacks)
      /\ input.gen = session[current].gen /\ input.toAck = session[current].toAck
      /\ input.pos = session[current].pos
  BY <1>1, <1>2, NackedInput
<1>6. \A i \in 1 .. Len(input.nacks) :
         \E j \in 1 .. Len(session[current].nacks) : input.nacks[i] = session[current].nacks[j]
  BY <1>1, <1>3, <1>5, TailFacts
<1> HIDE DEF n, input
<1>7. /\ input.pos >= session[current].pos /\ n < input.pos
      /\ corrected /\ session[current].gen = gen => n < tail
  BY <1>3, <1>4, <1>5 DEF Fine
<1>8. worker.phase \in {"reading", "next"}
  BY <1>1
<1> QED  BY <1>1, <1>4, <1>5, <1>6, <1>7, <1>8, ReadStep

(* Reading the next record keeps BentoInv. *)
LEMMA NextRecordStep ==
    ASSUME BentoInv, NextRecord
    PROVE  BentoInv'
<1> DEFINE n == session[current].pos
           input == [session[current] EXCEPT !.pos = @ + 1]
<1>1. /\ worker.phase = "next" /\ n < tail /\ HandleBatch(n, input)
      /\ UNCHANGED <<tail, incarnation, mem, durable, gen, manager, current, inputStream, held,
                     acked, corrected>>
  BY DEF NextRecord
<1>2. current \in Sessions
  BY <1>1 DEF BentoInv, SourceOK
<1>3. /\ input \in StreamInputs /\ input.pos = n + 1 /\ input.nacks = session[current].nacks
      /\ input.gen = session[current].gen /\ input.toAck = session[current].toAck
      /\ n \in SeqNums
  BY <1>1, <1>2, ReadInput
<1>4. n \in Int /\ n < input.pos /\ input.pos >= n
  BY <1>3 DEF SeqNums
<1>5. \A i \in 1 .. Len(input.nacks) :
         \E j \in 1 .. Len(session[current].nacks) : input.nacks[i] = session[current].nacks[j]
  BY <1>3
<1>6. n = session[current].pos
  OBVIOUS
<1> HIDE DEF n, input
<1> QED  BY <1>1, <1>3, <1>4, <1>5, <1>6, ReadStep

(* What goes to inputStream. *)
LEMMA SendStep ==
    ASSUME BentoInv, Send
    PROVE  BentoInv'
<1> USE DEF BentoInv
<1> DEFINE d == <<current, worker.batch>>
<1>1. /\ UNCHANGED <<tail, incarnation, mem, durable, gen, manager, current, held, acked, corrected>>
      /\ worker.phase = "sending" /\ inputStream' = Append(inputStream, d)
      /\ Len(inputStream) < MaxInFlight
      /\ \/ worker' = At("connect") /\ CloseSession
         \/ worker' = At("reading") /\ session' = session
  BY DEF Send
<1>2. current \in Sessions /\ worker.batch \in SeqNums \cup {NoBatch} /\ Fine(current, worker.batch)
  BY <1>1 DEF SourceOK, TracksOK
<1>3. session' \in [Sessions -> StreamInputs] /\ \A s \in Sessions : SameTracks(s)
  <2>1. CASE CloseSession
    BY <1>2, <2>1, CloseFacts
  <2>2. CASE session' = session
    BY <2>2 DEF SameTracks, BentoTypeOK
  <2> QED  BY <1>1, <2>1, <2>2
<1>4. worker'.phase \in {"connect", "reading"} /\ worker' \in [phase: WorkerPhases, batch: Positions]
  BY <1>1, AtTypes DEF WorkerPhases
<1>5. /\ inputStream' \in Seq(Deliveries) /\ Len(inputStream') <= MaxInFlight
      /\ \A i \in 1 .. Len(inputStream') :
            inputStream'[i] = d \/ (i \in 1 .. Len(inputStream) /\ inputStream'[i] = inputStream[i])
  <2>1. d \in Deliveries
    BY <1>2 DEF Deliveries
  <2>2. inputStream \in Seq(Deliveries) /\ MaxInFlight \in Nat
    BY BentoAssumption DEF BentoTypeOK
  <2> HIDE DEF d
  <2> QED  BY <1>1, <2>1, <2>2
<1>6. BentoTypeOK'
  BY <1>1, <1>3, <1>4, <1>5 DEF BentoTypeOK
<1>7. SourceOK'
  BY <1>1, <1>2, <1>4 DEF SourceOK
<1>8. tail \in Int /\ current \in Int /\ MaxRecords \in Nat
  BY BentoAssumption DEF BentoTypeOK
<1>9. ASSUME NEW s \in Sessions, NEW m \in Int, Fine(s, m) PROVE FineNext(s, m)
  <2>1. session'[s].pos \in Int /\ session'[s].pos >= session[s].pos /\ session'[s].gen = session[s].gen
    BY <1>3, SessionTypes DEF SameTracks
  <2> QED  BY <1>1, <1>8, <1>9, <2>1, FineKept
<1>10. \A s \in Sessions : \A m \in SeqNums : session'[s].toAck[m] # "absent" => FineNext(s, m)
  BY <1>3, <1>9, DeliveryTypes DEF SameTracks, TracksOK
<1>11. \A s \in Sessions : \A i \in 1 .. Len(session'[s].nacks) : FineNext(s, session'[s].nacks[i])
  BY <1>3, <1>9, DeliveryTypes DEF SameTracks, TracksOK
<1>12. \A i \in 1 .. Len(inputStream') : FineNext(inputStream'[i][1], inputStream'[i][2])
  <2> SUFFICES ASSUME NEW i \in 1 .. Len(inputStream')
               PROVE  FineNext(inputStream'[i][1], inputStream'[i][2])
    OBVIOUS
  <2>1. CASE inputStream'[i] = d
    BY <1>2, <1>9, <2>1, DeliveryTypes
  <2>2. CASE i \in 1 .. Len(inputStream) /\ inputStream'[i] = inputStream[i]
    BY <1>9, <2>2, DeliveryTypes DEF TracksOK
  <2> QED  BY <1>5, <2>1, <2>2
<1>13. \A e \in held' : FineNext(e[1], e[2])
  BY <1>1, <1>9, DeliveryTypes DEF TracksOK
<1>14. TracksOK'
  BY <1>4, <1>10, <1>11, <1>12, <1>13 DEF TracksOK, Fine, FineNext
<1>15. ResetOK'
  BY <1>1, <1>3, <1>4 DEF ResetOK, ResetStands, SameTracks
<1> QED  BY <1>6, <1>7, <1>14, <1>15

(* Bento receives what inputStream has first. *)
LEMMA ReadBatchStep ==
    ASSUME BentoInv, ReadBatch
    PROVE  BentoInv'
<1> USE DEF BentoInv
<1>1. /\ UNCHANGED <<tail, incarnation, mem, durable, gen, manager, worker, current, session,
                     acked, corrected>>
      /\ inputStream # <<>> /\ inputStream' = Tail(inputStream)
      /\ held' = held \/ (held' = held \cup {Head(inputStream)} /\ Head(inputStream)[2] # NoBatch)
  BY DEF ReadBatch
<1>2. inputStream \in Seq(Deliveries)
  BY DEF BentoTypeOK
<1>3. /\ inputStream' \in Seq(Deliveries) /\ Len(inputStream') <= MaxInFlight
      /\ \A i \in 1 .. Len(inputStream') :
            i + 1 \in 1 .. Len(inputStream) /\ inputStream'[i] = inputStream[i + 1]
      /\ 1 \in 1 .. Len(inputStream) /\ Head(inputStream) = inputStream[1]
      /\ Head(inputStream) \in Deliveries
  <2>1. Len(inputStream) <= MaxInFlight /\ MaxInFlight \in Nat
    BY BentoAssumption DEF BentoTypeOK
  <2> QED  BY <1>1, <1>2, <2>1, TailFacts
<1>4. held' \subseteq Sessions \X SeqNums /\ Sessions \X SeqNums \subseteq Deliveries
  BY <1>1, <1>3 DEF SourceOK, Deliveries
<1>5. BentoTypeOK'
  BY <1>1, <1>3, <1>4 DEF BentoTypeOK
<1>6. SourceOK'
  BY <1>1, <1>4 DEF SourceOK
<1>7. \A i \in 1 .. Len(inputStream') : Fine(inputStream'[i][1], inputStream'[i][2])
  BY <1>3 DEF TracksOK
<1>8. \A e \in held' : Fine(e[1], e[2])
  BY <1>1, <1>3 DEF TracksOK
<1>9. TracksOK'
  BY <1>1, <1>7, <1>8 DEF TracksOK, Fine
<1>10. ResetOK'
  BY <1>1 DEF ResetOK, ResetStands
<1> QED  BY <1>5, <1>6, <1>9, <1>10

(***************************************************************************)
(* What an acknowledgement or a nack changes: one session's tracking and   *)
(* queue, and the position.                                                *)
(***************************************************************************)
LEMMA SettleStep ==
    ASSUME BentoInv, NEW d \in held, held' = held \ {d},
           session' \in [Sessions -> StreamInputs],
           \A s \in Sessions :
              /\ session'[s].pos = session[s].pos /\ session'[s].gen = session[s].gen
              /\ \A n \in SeqNums : session'[s].toAck[n] # "absent" =>
                    session[s].toAck[n] # "absent" \/ <<s, n>> = d
              /\ \A i \in 1 .. Len(session'[s].nacks) :
                    \/ i \in 1 .. Len(session[s].nacks) /\ session'[s].nacks[i] = session[s].nacks[i]
                    \/ <<s, session'[s].nacks[i]>> = d,
           UNCHANGED <<tail, incarnation, gen, manager, worker, current, inputStream, corrected>>,
           mem' \in Positions, durable' \in Positions, acked' \subseteq SeqNums,
           corrected => mem' # NoEntry /\ mem' <= tail
    PROVE  BentoInv'
<1> USE DEF BentoInv
<1>1. BentoTypeOK'
  BY DEF BentoTypeOK
<1>2. SourceOK'
  BY DEF SourceOK
<1>3. tail \in Int /\ current \in Int
  BY BentoAssumption DEF BentoTypeOK
<1>4. ASSUME NEW s \in Sessions, NEW m \in Int, Fine(s, m) PROVE FineNext(s, m)
  BY <1>3, <1>4, SessionTypes, FineKept
<1>5. d[1] \in Sessions /\ d[2] \in SeqNums /\ Fine(d[1], d[2])
  BY DeliveryTypes DEF TracksOK
<1>6. \A s \in Sessions : \A m \in SeqNums : session'[s].toAck[m] # "absent" => FineNext(s, m)
  <2> SUFFICES ASSUME NEW s \in Sessions, NEW m \in SeqNums, session'[s].toAck[m] # "absent"
               PROVE  Fine(s, m)
    BY <1>4, DeliveryTypes
  <2> QED  BY <1>5 DEF TracksOK
<1>7. \A s \in Sessions : \A i \in 1 .. Len(session'[s].nacks) : FineNext(s, session'[s].nacks[i])
  <2> SUFFICES ASSUME NEW s \in Sessions, NEW i \in 1 .. Len(session'[s].nacks)
               PROVE  FineNext(s, session'[s].nacks[i])
    OBVIOUS
  <2>1. CASE i \in 1 .. Len(session[s].nacks) /\ session'[s].nacks[i] = session[s].nacks[i]
    BY <1>4, <2>1, DeliveryTypes DEF TracksOK
  <2>2. CASE <<s, session'[s].nacks[i]>> = d
    <3>1. d[1] = s /\ d[2] = session'[s].nacks[i]
      BY <2>2
    <3> QED  BY <1>4, <1>5, <3>1, DeliveryTypes
  <2> QED  BY <2>1, <2>2
<1>8. \A i \in 1 .. Len(inputStream') : FineNext(inputStream'[i][1], inputStream'[i][2])
  BY <1>4, DeliveryTypes DEF TracksOK
<1>9. \A e \in held' : FineNext(e[1], e[2])
  BY <1>4, DeliveryTypes DEF TracksOK
<1>10. worker'.phase = "sending" => FineNext(current', worker'.batch)
  BY <1>4, DeliveryTypes DEF SourceOK, TracksOK
<1>11. TracksOK'
  BY <1>6, <1>7, <1>8, <1>9, <1>10 DEF TracksOK, Fine, FineNext
<1>12. ResetOK'
  BY DEF ResetOK, ResetStands
<1> QED  BY <1>1, <1>2, <1>11, <1>12

(* What a nack does to its session. *)
LEMMA NackFacts ==
    ASSUME BentoInv, NEW d \in held, Nack(d)
    PROVE  /\ session' \in [Sessions -> StreamInputs]
           /\ \A s \in Sessions :
                /\ session'[s].pos = session[s].pos /\ session'[s].gen = session[s].gen
                /\ session'[s].start = session[s].start /\ session'[s].toAck = session[s].toAck
                /\ session'[s].incarnation = session[s].incarnation
                /\ session'[s].open = session[s].open
                /\ \A i \in 1 .. Len(session'[s].nacks) :
                      \/ i \in 1 .. Len(session[s].nacks) /\ session'[s].nacks[i] = session[s].nacks[i]
                      \/ <<s, session'[s].nacks[i]>> = d
           /\ \A s \in Sessions : \A i \in 1 .. Len(session[s].nacks) :
                 i \in 1 .. Len(session'[s].nacks) /\ session'[s].nacks[i] = session[s].nacks[i]
           /\ \/ /\ givenUp' = givenUp
                 /\ \E i \in 1 .. Len(session'[d[1]].nacks) : session'[d[1]].nacks[i] = d[2]
              \/ d \in givenUp' /\ givenUp \subseteq givenUp'
           /\ held' = held \ {d}
           /\ UNCHANGED <<tail, incarnation, mem, durable, gen, manager, worker, current,
                          inputStream, acked, corrected>>
<1>1. /\ held' = held \ {d}
      /\ UNCHANGED <<tail, incarnation, mem, durable, gen, manager, worker, current, inputStream,
                     acked, corrected>>
  BY DEF Nack
<1>2. d[1] \in Sessions /\ d[2] \in SeqNums /\ d = <<d[1], d[2]>>
  BY DeliveryTypes
<1>3. session \in [Sessions -> StreamInputs]
  BY DEF BentoInv, BentoTypeOK
<1>4. CASE NackGivenUp(d)
  BY <1>1, <1>3, <1>4 DEF NackGivenUp
<1>5. CASE NackQueued(d)
  <2> DEFINE s0 == d[1]
             q == Append(session[s0].nacks, d[2])
             input == [session[s0] EXCEPT !.nacks = q]
  <2>1. session' = [session EXCEPT ![s0] = input] /\ givenUp' = givenUp
    BY <1>5 DEF NackQueued
  <2>2. session[s0] \in StreamInputs /\ session[s0].nacks \in Seq(SeqNums)
    BY <1>2, SessionTypes DEF BentoInv
  <2>3. /\ q \in Seq(SeqNums) /\ Len(q) = Len(session[s0].nacks) + 1
        /\ Len(session[s0].nacks) \in Nat
        /\ q[Len(q)] = d[2]
        /\ \A i \in 1 .. Len(session[s0].nacks) : q[i] = session[s0].nacks[i]
    BY <1>2, <2>2
  <2> HIDE DEF q
  <2>4. /\ input \in StreamInputs /\ input.nacks = q
        /\ input.pos = session[s0].pos /\ input.gen = session[s0].gen
        /\ input.start = session[s0].start /\ input.toAck = session[s0].toAck
        /\ input.incarnation = session[s0].incarnation /\ input.open = session[s0].open
    BY <2>2, <2>3 DEF StreamInputs
  <2> HIDE DEF input, s0
  <2>5. s0 = d[1] /\ s0 \in Sessions
    BY <1>2 DEF s0
  <2>6. /\ session' \in [Sessions -> StreamInputs] /\ session'[s0] = input
        /\ \A s \in Sessions \ {s0} : session'[s] = session[s]
    BY <1>3, <2>1, <2>4, <2>5
  <2>7. ASSUME NEW s \in Sessions
        PROVE  /\ session'[s].pos = session[s].pos /\ session'[s].gen = session[s].gen
               /\ session'[s].start = session[s].start /\ session'[s].toAck = session[s].toAck
               /\ session'[s].incarnation = session[s].incarnation
               /\ session'[s].open = session[s].open
    <3>1. CASE s = s0
      BY <2>4, <2>6, <3>1
    <3>2. CASE s # s0
      BY <2>6, <3>2
    <3> QED  BY <3>1, <3>2
  <2>8. ASSUME NEW s \in Sessions, NEW i \in 1 .. Len(session'[s].nacks)
        PROVE  \/ i \in 1 .. Len(session[s].nacks) /\ session'[s].nacks[i] = session[s].nacks[i]
               \/ <<s, session'[s].nacks[i]>> = d
    <3>1. CASE s = s0
      <4>1. i \in 1 .. Len(q) /\ session'[s].nacks = q
        BY <2>4, <2>6, <3>1
      <4>2. i \in 1 .. Len(session[s0].nacks) \/ i = Len(q)
        BY <2>3, <4>1
      <4> QED  BY <1>2, <2>3, <2>5, <3>1, <4>1, <4>2
    <3>2. CASE s # s0
      BY <2>6, <3>2
    <3> QED  BY <3>1, <3>2
  <2>9. ASSUME NEW s \in Sessions, NEW i \in 1 .. Len(session[s].nacks)
        PROVE  i \in 1 .. Len(session'[s].nacks) /\ session'[s].nacks[i] = session[s].nacks[i]
    <3>1. CASE s = s0
      <4>1. session'[s].nacks = q /\ i \in 1 .. Len(session[s0].nacks)
        BY <2>4, <2>6, <3>1
      <4> QED  BY <2>3, <3>1, <4>1
    <3>2. CASE s # s0
      BY <2>6, <3>2
    <3> QED  BY <3>1, <3>2
  <2>10. \E i \in 1 .. Len(session'[s0].nacks) : session'[s0].nacks[i] = d[2]
    <3>1. session'[s0].nacks = q /\ Len(q) \in 1 .. Len(q)
      BY <2>3, <2>4, <2>6
    <3> QED  BY <2>3, <3>1
  <2> QED  BY <1>1, <2>1, <2>5, <2>6, <2>7, <2>8, <2>9, <2>10
<1> QED  BY <1>4, <1>5 DEF Nack

(* A nack keeps BentoInv. *)
LEMMA NackStep ==
    ASSUME BentoInv, NEW d \in held, Nack(d)
    PROVE  BentoInv'
<1>1. /\ mem' \in Positions /\ durable' \in Positions /\ acked' \subseteq SeqNums
      /\ corrected => mem' # NoEntry /\ mem' <= tail
  BY NackFacts DEF BentoInv, BentoTypeOK, ResetOK, ResetStands
<1> QED  BY <1>1, NackFacts, SettleStep

(* A set of records that is not empty has a largest one. *)
LEMMA LargestExists ==
    ASSUME NEW S \in SUBSET SeqNums, S # {}
    PROVE  Largest(S) \in S /\ \A m \in S : m <= Largest(S)
<1> DEFINE D == {MaxRecords - n : n \in S}
           R == {p \in Nat \X Nat : p[1] < p[2]}
<1>1. MaxRecords \in Nat
  BY BentoAssumption
<1>2. D \subseteq Nat /\ D # {}
  <2>1. \A n \in S : MaxRecords - n \in Nat
    BY <1>1 DEF SeqNums
  <2>2. PICK n : n \in S
    OBVIOUS
  <2>3. MaxRecords - n \in D
    BY <2>2
  <2> QED  BY <2>1, <2>3
<1>3. IsWellFoundedOn(R, Nat)
  BY NatLessThanWellFounded DEF OpToRel
<1>4. \E x \in D : \A y \in D : ~(<<y, x>> \in R)
  <2> HIDE DEF R, D
  <2> QED  BY <1>2, <1>3, WFMin
<1>5. PICK n \in S : \A y \in D : ~(<<y, MaxRecords - n>> \in R)
  BY <1>4
<1>6. ASSUME NEW m \in S PROVE m <= n
  <2>1. MaxRecords - m \in D /\ MaxRecords - m \in Nat /\ MaxRecords - n \in Nat /\ m \in Int /\ n \in Int
    BY <1>1 DEF SeqNums
  <2>2. ~(MaxRecords - m < MaxRecords - n)
    BY <1>5, <2>1
  <2> QED  BY <1>1, <2>1, <2>2
<1> QED  BY <1>6 DEF Largest

(***************************************************************************)
(* What an acknowledgement does to its session and to the position: it     *)
(* moves, if at all, past the largest record of the acked prefix, and only *)
(* for a session of the present generation.                                *)
(***************************************************************************)
Marked(d) == [session[d[1]].toAck EXCEPT ![d[2]] = "acked"]

(* What an ack does to its session, to the cache and to the other sessions. *)
LEMMA AckFacts ==
    ASSUME BentoInv, NEW d \in held, Ack(d)
    PROVE  /\ session' \in [Sessions -> StreamInputs]
           /\ \A s \in Sessions :
                /\ session'[s].pos = session[s].pos /\ session'[s].gen = session[s].gen
                /\ session'[s].start = session[s].start /\ session'[s].nacks = session[s].nacks
                /\ session'[s].incarnation = session[s].incarnation
                /\ session'[s].open = session[s].open
           /\ \A s \in Sessions : \A n \in SeqNums :
                /\ session'[s].toAck[n] # "absent" => session[s].toAck[n] # "absent" \/ <<s, n>> = d
                /\ session'[s].toAck[n] = "acked" => session[s].toAck[n] = "acked" \/ <<s, n>> = d
                /\ session[s].toAck[n] = "unacked" /\ <<s, n>> # d =>
                      session'[s].toAck[n] = "unacked"
           /\ \/ mem' = mem /\ durable' = durable
              \/ /\ session[d[1]].gen = gen
                 /\ \E p \in AckedPrefix(Marked(d)) : mem' = p + 1 /\ durable' \in {durable, p + 1}
           /\ held' = held \ {d}
           /\ acked' = IF session[d[1]].incarnation = incarnation THEN acked \cup {d[2]} ELSE acked
           /\ UNCHANGED <<tail, incarnation, gen, manager, worker, current, inputStream, corrected,
                          givenUp>>
<1> DEFINE s0 == d[1]
           marked == Marked(d)
           prefix == AckedPrefix(marked)
<1>1. /\ held' = held \ {d}
      /\ acked' = IF session[d[1]].incarnation = incarnation THEN acked \cup {d[2]} ELSE acked
      /\ UNCHANGED <<tail, incarnation, gen, manager, worker, current, inputStream, corrected,
                     givenUp>>
  BY DEF Ack
<1>2. s0 \in Sessions /\ d[2] \in SeqNums /\ d = <<s0, d[2]>>
  BY DeliveryTypes
<1>3. marked \in [SeqNums -> {"absent", "unacked", "acked"}]
  BY <1>2, SessionTypes DEF BentoInv, Marked
<1>4. PICK toAck \in [SeqNums -> {"absent", "unacked", "acked"}] :
         /\ session' = [session EXCEPT ![s0].toAck = toAck]
         /\ \A n \in SeqNums : toAck[n] = marked[n] \/ (marked[n] = "acked" /\ toAck[n] = "absent")
  <2>1. CASE prefix = {}
    BY <1>3, <2>1 DEF Ack, Marked
  <2>2. CASE prefix # {}
    <3>1. PICK ok \in BOOLEAN : session' = [session EXCEPT ![s0].toAck =
                 [n \in SeqNums |-> IF ok /\ n \in prefix THEN "absent" ELSE marked[n]]]
      BY <2>2 DEF Ack, Marked
    <3> DEFINE f == [n \in SeqNums |-> IF ok /\ n \in prefix THEN "absent" ELSE marked[n]]
    <3>2. f \in [SeqNums -> {"absent", "unacked", "acked"}]
      BY <1>3
    <3>3. \A n \in SeqNums : f[n] = marked[n] \/ (marked[n] = "acked" /\ f[n] = "absent")
      BY DEF AckedPrefix
    <3> QED  BY <3>1, <3>2, <3>3
  <2> QED  BY <2>1, <2>2
<1> DEFINE input == [session[s0] EXCEPT !.toAck = toAck]
<1>5. session' = [session EXCEPT ![s0] = input]
  BY <1>4
<1>6. /\ input \in StreamInputs /\ input.toAck = toAck
      /\ input.pos = session[s0].pos /\ input.gen = session[s0].gen
      /\ input.start = session[s0].start /\ input.nacks = session[s0].nacks
      /\ input.incarnation = session[s0].incarnation /\ input.open = session[s0].open
  <2>1. session[s0] \in StreamInputs
    BY <1>2, SessionTypes DEF BentoInv
  <2> QED  BY <1>4, <2>1 DEF StreamInputs
<1> HIDE DEF input
<1>7. /\ session' \in [Sessions -> StreamInputs] /\ session'[s0] = input
      /\ \A s \in Sessions \ {s0} : session'[s] = session[s]
  <2>1. session \in [Sessions -> StreamInputs]
    BY DEF BentoInv, BentoTypeOK
  <2> HIDE DEF s0
  <2> QED  BY <1>2, <1>5, <1>6, <2>1
<1>8. ASSUME NEW s \in Sessions
      PROVE  /\ session'[s].pos = session[s].pos /\ session'[s].gen = session[s].gen
             /\ session'[s].start = session[s].start /\ session'[s].nacks = session[s].nacks
             /\ session'[s].incarnation = session[s].incarnation
             /\ session'[s].open = session[s].open
  <2>1. CASE s = s0
    BY <1>6, <1>7, <2>1
  <2>2. CASE s # s0
    BY <1>7, <2>2
  <2> QED  BY <2>1, <2>2
<1>9. ASSUME NEW s \in Sessions, NEW n \in SeqNums
      PROVE  /\ session'[s].toAck[n] # "absent" => session[s].toAck[n] # "absent" \/ <<s, n>> = d
             /\ session'[s].toAck[n] = "acked" => session[s].toAck[n] = "acked" \/ <<s, n>> = d
             /\ session[s].toAck[n] = "unacked" /\ <<s, n>> # d => session'[s].toAck[n] = "unacked"
  <2>1. CASE s # s0
    BY <1>7, <2>1
  <2>2. CASE s = s0 /\ n = d[2]
    BY <1>2, <2>2
  <2>3. CASE s = s0 /\ n # d[2]
    <3>1. marked[n] = session[s].toAck[n]
      BY <1>2, <2>3, SessionTypes DEF BentoInv, Marked
    <3>2. session'[s].toAck = toAck
      BY <1>6, <1>7, <2>3
    <3> QED  BY <1>4, <3>1, <3>2
  <2> QED  BY <2>1, <2>2, <2>3
<1>10. \/ mem' = mem /\ durable' = durable
       \/ /\ session[s0].gen = gen
          /\ \E p \in prefix : mem' = p + 1 /\ durable' \in {durable, p + 1}
  <2>1. CASE prefix = {}
    BY <2>1 DEF Ack, Marked
  <2>2. CASE prefix # {}
    <3>1. PICK ok \in BOOLEAN : CacheSet(Largest(prefix) + 1, session[s0].gen, ok)
      BY <2>2 DEF Ack, Marked
    <3>2. Largest(prefix) \in prefix
      BY <2>2, LargestExists DEF AckedPrefix
    <3>3. session[s0].gen \in Nat /\ gen \in Nat /\ session[s0].gen <= gen
      BY <1>2, SessionTypes DEF BentoInv, BentoTypeOK, ResetOK
    <3>4. CASE session[s0].gen < gen
      BY <3>1, <3>4 DEF CacheSet
    <3>5. CASE ~(session[s0].gen < gen)
      <4>1. session[s0].gen = gen
        BY <3>3, <3>5
      <4>2. mem' = Largest(prefix) + 1 /\ InnerSet(Largest(prefix) + 1, ok)
        BY <3>1, <3>5 DEF CacheSet
      <4>3. durable' \in {durable, Largest(prefix) + 1}
        BY <4>2 DEF InnerSet
      <4> QED  BY <3>2, <4>1, <4>2, <4>3
    <3> QED  BY <3>4, <3>5
  <2> QED  BY <2>1, <2>2
<1> QED  BY <1>1, <1>7, <1>8, <1>9, <1>10

(* An ack keeps BentoInv. *)
LEMMA AckStep ==
    ASSUME BentoInv, NEW d \in held, Ack(d)
    PROVE  BentoInv'
<1> USE DEF BentoInv
<1>1. d[1] \in Sessions /\ d[2] \in SeqNums /\ d = <<d[1], d[2]>> /\ Fine(d[1], d[2])
  BY DeliveryTypes DEF TracksOK
<1>2. \A p \in AckedPrefix(Marked(d)) : p \in SeqNums /\ Fine(d[1], p)
  <2> SUFFICES ASSUME NEW p \in AckedPrefix(Marked(d)) PROVE p \in SeqNums /\ Fine(d[1], p)
    OBVIOUS
  <2>1. p \in SeqNums /\ Marked(d)[p] = "acked"
    BY DEF AckedPrefix
  <2>2. p = d[2] \/ session[d[1]].toAck[p] = "acked"
    BY <1>1, <2>1, SessionTypes DEF Marked
  <2> QED  BY <1>1, <2>1, <2>2 DEF TracksOK
<1>3. MaxRecords \in Nat /\ tail \in 0 .. MaxRecords
  BY BentoAssumption DEF BentoTypeOK
<1>4. \A p \in SeqNums : p + 1 \in Positions /\ p + 1 # NoEntry /\ p \in Int
  BY <1>3 DEF SeqNums, Positions, NoEntry
<1>5. mem' \in Positions /\ durable' \in Positions
  BY <1>2, <1>4, AckFacts DEF BentoTypeOK
<1>6. acked' \subseteq SeqNums
  BY <1>1, AckFacts DEF BentoTypeOK
<1>7. ASSUME corrected PROVE mem' # NoEntry /\ mem' <= tail
  <2>1. CASE mem' = mem
    BY <1>7, <2>1 DEF ResetOK, ResetStands
  <2>2. CASE session[d[1]].gen = gen /\ \E p \in AckedPrefix(Marked(d)) : mem' = p + 1
    <3>1. PICK p \in AckedPrefix(Marked(d)) : mem' = p + 1
      BY <2>2
    <3>2. p \in SeqNums /\ p < tail
      BY <1>2, <1>7, <2>2 DEF Fine
    <3> QED  BY <1>3, <1>4, <3>1, <3>2
  <2> QED  BY <2>1, <2>2, AckFacts
<1> QED  BY <1>5, <1>6, <1>7, AckFacts, SettleStep

(* Every step keeps BentoInv. *)
LEMMA BentoInvStep == BentoInv /\ [Next]_vars => BentoInv'
<1> SUFFICES ASSUME BentoInv, [Next]_vars PROVE BentoInv'
  OBVIOUS
<1>1. CASE Next
  BY <1>1, ManagerSteps, SourceSteps, ResetStep, ConnectStep, RestartStep, ReadNackedStep,
     NextRecordStep, SendStep, ReadBatchStep, NackStep, AckStep
     DEF Next, SourceStep
<1>2. CASE UNCHANGED vars
  BY <1>2 DEF vars, BentoInv, BentoTypeOK, SourceOK, TracksOK, Fine, ResetOK, ResetStands
<1> QED  BY <1>1, <1>2

(* BentoInv is inductive, hence holds in every reachable state. *)
LEMMA BentoInvariant == Spec => []BentoInv
<1>1. Init => BentoInv
  BY BentoInvInit DEF LossInv
<1> QED  BY <1>1, BentoInvStep, PTL DEF Spec

-----------------------------------------------------------------------------
(* No record is lost.                                                      *)

(* A stream that is no longer looked after has no source. *)
LEMMA RemovedStep ==
    ASSUME BentoTypeOK, manager = "removed" => worker.phase = "stopped", [Next]_vars
    PROVE  manager' = "removed" => worker'.phase = "stopped"
<1> SUFFICES ASSUME manager' = "removed" PROVE worker'.phase = "stopped"
  OBVIOUS
<1>1. CASE UNCHANGED vars
  BY <1>1 DEF vars
<1>2. CASE Forget
  BY <1>2 DEF Forget
<1>3. CASE Prune \/ Respawn \/ Close \/ ManagerCloses \/ Restart
  BY <1>3 DEF Prune, Respawn, Close, ManagerCloses, Restart
<1>4. CASE ClientAppends \/ StreamRecreated \/ ReadBatch
  BY <1>4 DEF ClientAppends, StreamRecreated, ReadBatch
<1>5. CASE \E d \in held : Ack(d) \/ Nack(d)
  <2>1. PICK d \in held : Ack(d) \/ Nack(d)
    BY <1>5
  <2>2. manager' = manager /\ worker' = worker
    BY <2>1 DEF Ack, Nack
  <2> QED  BY <2>2
<1>6. CASE SourceStep
  <2>1. manager = "removed"
    BY <1>6 DEF SourceStep, CacheMiss, Connect, ReadNacked, EnterNext, NextRecord, SessionEnds,
                RangeNotSatisfiable, Send, WorkerStops
  <2>2. FALSE
    BY <1>6, <2>1 DEF SourceStep, CacheMiss, Connect, ReadNacked, EnterNext, NextRecord,
                SessionEnds, RangeNotSatisfiable, Send, WorkerStops, WorkerCancelled
  <2> QED  BY <2>2
<1> QED  BY <1>1, <1>2, <1>3, <1>4, <1>5, <1>6 DEF Next

(* More acked records and a longer stream leave the positions as good.     *)
LEMMA AckedBelowKept ==
    ASSUME NEW position, AllAckedBelow(position), acked \subseteq acked'
    PROVE  position # NoEntry => \A n \in 0 .. position - 1 : n \in acked'
BY DEF AllAckedBelow

(* A position below which everything is acked does not exceed the tail.    *)
LEMMA AckedBelowTail ==
    ASSUME BentoInv, PositionsOK, NEW position \in 0 .. MaxRecords, AllAckedBelow(position)
    PROVE  position <= tail /\ \A n \in SeqNums : n < position => n \in acked
<1>1. MaxRecords \in Nat /\ tail \in 0 .. MaxRecords /\ position \in Int /\ position # NoEntry
  BY BentoAssumption DEF BentoInv, BentoTypeOK, NoEntry
<1>2. \A n \in 0 .. position - 1 : n \in acked /\ n < tail
  BY <1>1 DEF AllAckedBelow, PositionsOK
<1>3. position <= tail
  <2>1. CASE position = 0
    BY <1>1, <2>1
  <2>2. CASE position > 0
    <3>1. position - 1 < tail
      BY <1>1, <1>2, <2>2
    <3> QED  BY <1>1, <3>1
  <2> QED  BY <1>1, <2>1, <2>2
<1>4. \A n \in SeqNums : n < position => n \in 0 .. position - 1
  BY <1>1 DEF SeqNums
<1> QED  BY <1>2, <1>3, <1>4

(* Nothing is read, delivered or acked. *)
LEMMA QuietLoss ==
    ASSUME BentoInv, PositionsOK, ReadIsTracked, OpenIsUnderWay,
           \A s \in Sessions : SameTracks(s),
           UNCHANGED <<inputStream, held, givenUp, current, durable, acked>>,
           tail' \in Int, tail' >= tail,
           mem' \in {mem, NoEntry},
           \/ session' = session
           \/ current \in Sessions /\ ~session'[current].open,
           \/ worker' = worker
           \/ worker.phase # "sending"
           \/ current \in Sessions /\ ~session'[current].open,
           worker'.phase = "lookup" => worker' = worker \/ worker'.batch \in {durable, NoEntry}
    PROVE  (PositionsOK /\ ReadIsTracked /\ OpenIsUnderWay)'
<1>1. tail \in Int /\ \A n \in acked : n \in Int
  BY BentoAssumption DEF BentoInv, BentoTypeOK, SeqNums
<1>2. AllAckedBelow(NoEntry)
  BY DEF AllAckedBelow
<1>3. PositionsOK'
  <2>1. AllAckedBelow(mem)' /\ AllAckedBelow(durable)'
    BY <1>2 DEF PositionsOK, AllAckedBelow
  <2>2. worker'.phase = "lookup" => AllAckedBelow(worker.batch)'
    <3>1. CASE worker' = worker
      BY <3>1 DEF PositionsOK, AllAckedBelow
    <3>2. CASE worker'.batch \in {durable, NoEntry}
      BY <3>2, <2>1 DEF PositionsOK, AllAckedBelow
    <3> QED  BY <3>1, <3>2
  <2>3. \A n \in acked' : n < tail'
    BY <1>1 DEF PositionsOK
  <2> QED  BY <2>1, <2>2, <2>3 DEF PositionsOK
<1>4. ReadIsTracked'
  <2> SUFFICES ASSUME NEW s \in Sessions
               PROVE  /\ session'[s].incarnation = 0
                      /\ session'[s].start <= session'[s].pos /\ session'[s].pos <= tail'
                      /\ \A n \in SeqNums : session'[s].toAck[n] = "acked" => n \in acked'
                      /\ \A n \in SeqNums :
                            n < session'[s].pos => n \in acked' \/ session'[s].toAck[n] = "unacked"
    BY DEF ReadIsTracked
  <2>1. session[s].pos \in Int /\ session[s].pos <= tail
    BY SessionTypes DEF BentoInv, ReadIsTracked
  <2>2. session'[s].pos <= tail'
    BY <1>1, <2>1 DEF SameTracks
  <2> QED  BY <2>2 DEF SameTracks, ReadIsTracked
<1>5. OpenIsUnderWay'
  <2> SUFFICES ASSUME current > 0, session'[current].open,
                      NEW n \in 0 .. session'[current].pos - 1
               PROVE  n \in acked \/ UnderWay(n)' \/ <<current, n>> \in givenUp
    BY DEF OpenIsUnderWay
  <2>1. current \in Sessions
    BY BentoAssumption DEF BentoInv, BentoTypeOK, Sessions
  <2>2. session' = session /\ (worker' = worker \/ worker.phase # "sending")
    OBVIOUS
  <2>3. n \in acked \/ UnderWay(n) \/ <<current, n>> \in givenUp
    BY <2>2 DEF OpenIsUnderWay
  <2>4. UnderWay(n) => UnderWay(n)'
    BY <2>2 DEF UnderWay
  <2> QED  BY <2>3, <2>4
<1> QED  BY <1>3, <1>4, <1>5

LossOK == PositionsOK /\ ReadIsTracked /\ OpenIsUnderWay

(* The steps that read, deliver and ack nothing. *)
LEMMA QuietLossSteps ==
    ASSUME LossInv, LossOK, incarnation = 0,
           \/ CacheMiss \/ EnterNext \/ SessionEnds \/ WorkerStops
           \/ Prune \/ Forget \/ Respawn \/ Close \/ ManagerCloses \/ ClientAppends
    PROVE  LossOK'
<1> USE DEF LossOK, LossInv
<1>1. /\ UNCHANGED <<inputStream, held, givenUp, current, durable, acked>>
      /\ mem' \in {mem, NoEntry} /\ tail' \in {tail, tail + 1}
  BY DEF CacheMiss, EnterNext, SessionEnds, WorkerStops, Prune, Forget, Respawn, Close,
         ManagerCloses, ClientAppends
<1>2. tail' \in Int /\ tail' >= tail
  BY <1>1, BentoAssumption DEF BentoInv, BentoTypeOK
<1>3. session' = session \/ (CloseSession /\ current \in Sessions)
  <2>1. worker.phase \in WorkerPhases
    BY DEF BentoInv, BentoTypeOK
  <2> QED  BY <2>1 DEF CacheMiss, EnterNext, SessionEnds, WorkerStops, Prune, Forget, Respawn,
             Close, ManagerCloses, ClientAppends, BentoInv, SourceOK, WorkerPhases
<1>4. /\ \A s \in Sessions : SameTracks(s)
      /\ session' = session \/ (current \in Sessions /\ ~session'[current].open)
  <2>1. CASE session' = session
    BY <2>1 DEF SameTracks
  <2>2. CASE CloseSession /\ current \in Sessions
    BY <2>2, CloseFacts DEF BentoInv
  <2> QED  BY <1>3, <2>1, <2>2
<1>5. \/ worker' = worker
      \/ worker.phase # "sending"
      \/ current \in Sessions /\ ~session'[current].open
  <2>1. CASE WorkerStops /\ worker.phase = "sending"
    <3>1. CloseSession /\ current \in Sessions
      BY <2>1 DEF WorkerStops, BentoInv, SourceOK
    <3> QED  BY <3>1, CloseFacts DEF BentoInv
  <2>2. CASE Respawn
    BY <2>2 DEF Respawn
  <2>3. CASE CacheMiss \/ EnterNext \/ SessionEnds
    BY <2>3 DEF CacheMiss, EnterNext, SessionEnds
  <2>4. CASE Prune \/ Forget \/ Close \/ ManagerCloses \/ ClientAppends
    BY <2>4 DEF Prune, Forget, Close, ManagerCloses, ClientAppends
  <2> QED  BY <2>1, <2>2, <2>3, <2>4
<1>6. worker'.phase = "lookup" => worker' = worker \/ worker'.batch \in {durable, NoEntry}
  <2>1. CASE CacheMiss
    BY <2>1 DEF CacheMiss
  <2>2. CASE EnterNext \/ SessionEnds \/ WorkerStops \/ Respawn
    BY <2>2, AtTypes DEF EnterNext, SessionEnds, WorkerStops, Respawn, WorkerPhases
  <2>3. CASE Prune \/ Forget \/ Close \/ ManagerCloses \/ ClientAppends
    BY <2>3 DEF Prune, Forget, Close, ManagerCloses, ClientAppends
  <2> QED  BY <2>1, <2>2, <2>3
<1> QED  BY <1>1, <1>2, <1>4, <1>5, <1>6, QuietLoss

(* A session starts where everything before is acked. *)
LEMMA ConnectLoss ==
    ASSUME BentoInv, LossOK, incarnation = 0, StartSeqNum = "earliest", Connect
    PROVE  LossOK'
<1> USE DEF LossOK
<1> DEFINE s0 == current + 1
<1>1. /\ UNCHANGED <<inputStream, held, gen, durable, corrected, tail, incarnation, acked, givenUp>>
      /\ current' = s0 /\ current < MaxSessions /\ worker' = At("reading")
  BY DEF Connect
<1>2. /\ current \in Nat /\ MaxSessions \in Nat /\ MaxRecords \in Nat /\ tail \in 0 .. MaxRecords
      /\ s0 \in Sessions
  BY <1>1, BentoAssumption DEF BentoInv, BentoTypeOK, Sessions
<1>3. PICK start \in 0 .. MaxRecords :
          /\ session' = [session EXCEPT ![s0] = NewStreamInput(start)]
          /\ AllAckedBelow(start)
          /\ mem' = mem \/ (worker.phase = "lookup" /\ mem' = worker.batch)
  <2>1. CASE mem # NoEntry /\ mem' = mem /\ session' = [session EXCEPT ![s0] = NewStreamInput(mem)]
    <3>1. mem \in 0 .. MaxRecords
      BY <2>1 DEF BentoInv, BentoTypeOK, Positions
    <3> QED  BY <2>1, <3>1 DEF PositionsOK
  <2>2. CASE /\ worker.phase = "lookup" /\ worker.batch # NoEntry /\ mem' = worker.batch
             /\ session' = [session EXCEPT ![s0] = NewStreamInput(worker.batch)]
    <3>1. worker.batch \in 0 .. MaxRecords
      BY <2>2 DEF BentoInv, BentoTypeOK, Positions
    <3> QED  BY <2>2, <3>1 DEF PositionsOK
  <2>3. CASE worker.batch = NoEntry /\ mem' = mem /\ session' = [session EXCEPT ![s0] = NewStreamInput(0)]
    <3>1. AllAckedBelow(0) /\ 0 \in 0 .. MaxRecords
      BY <1>2 DEF AllAckedBelow
    <3> QED  BY <2>3, <3>1
  <2> QED  BY <2>1, <2>2, <2>3 DEF Connect, DefaultStart
<1>4. start <= tail /\ \A n \in SeqNums : n < start => n \in acked
  BY <1>3, AckedBelowTail
<1>5. /\ session'[s0] = NewStreamInput(start)
      /\ \A s \in Sessions \ {s0} : session'[s] = session[s]
  BY <1>2, <1>3 DEF BentoInv, BentoTypeOK
<1>6. /\ session'[s0].start = start /\ session'[s0].pos = start /\ session'[s0].incarnation = 0
      /\ \A n \in SeqNums : session'[s0].toAck[n] = "absent"
  BY <1>5 DEF NewStreamInput
<1>7. PositionsOK'
  <2>1. AllAckedBelow(mem') /\ worker'.phase = "reading"
    BY <1>1, <1>3, AtTypes DEF PositionsOK, WorkerPhases
  <2> QED  BY <1>1, <2>1 DEF PositionsOK, AllAckedBelow
<1>8. ReadIsTracked'
  <2> SUFFICES ASSUME NEW s \in Sessions
               PROVE  /\ session'[s].incarnation = 0
                      /\ session'[s].start <= session'[s].pos /\ session'[s].pos <= tail
                      /\ \A n \in SeqNums : session'[s].toAck[n] = "acked" => n \in acked
                      /\ \A n \in SeqNums :
                            n < session'[s].pos => n \in acked \/ session'[s].toAck[n] = "unacked"
    BY <1>1 DEF ReadIsTracked
  <2>1. CASE s = s0
    BY <1>4, <1>6, <2>1
  <2>2. CASE s # s0
    BY <1>5, <2>2 DEF ReadIsTracked
  <2> QED  BY <2>1, <2>2
<1>9. OpenIsUnderWay'
  <2>1. \A n \in 0 .. start - 1 : n \in acked
    BY <1>2, <1>3 DEF AllAckedBelow, NoEntry
  <2> QED  BY <1>1, <1>6, <2>1 DEF OpenIsUnderWay
<1> QED  BY <1>7, <1>8, <1>9

(* After a crash no session is open, and the durable position is good.     *)
LEMMA RestartLoss ==
    ASSUME BentoInv, LossOK, incarnation = 0, Restart
    PROVE  LossOK'
<1> USE DEF LossOK
<1>1. /\ UNCHANGED <<tail, durable, current, acked>> /\ mem' = NoEntry
      /\ worker' = At("connect") /\ session' = [s \in Sessions |-> NeverOpened]
  BY DEF Restart
<1>2. MaxRecords \in Nat /\ tail \in 0 .. MaxRecords /\ current \in 0 .. MaxSessions /\ MaxSessions \in Nat
  BY BentoAssumption DEF BentoInv, BentoTypeOK
<1>3. PositionsOK'
  <2>1. worker'.phase = "connect"
    BY <1>1, AtTypes DEF WorkerPhases
  <2> QED  BY <1>1, <2>1 DEF PositionsOK, AllAckedBelow
<1>4. ReadIsTracked'
  <2> SUFFICES ASSUME NEW s \in Sessions
               PROVE  /\ session'[s].incarnation = 0 /\ session'[s].start = 0 /\ session'[s].pos = 0
                      /\ \A n \in SeqNums : session'[s].toAck[n] = "absent" /\ ~(n < 0)
    BY <1>1, <1>2 DEF ReadIsTracked
  <2> QED  BY <1>1, <1>2 DEF NeverOpened, SeqNums
<1>5. OpenIsUnderWay'
  <2>1. current > 0 => current \in Sessions
    BY <1>2 DEF Sessions
  <2> QED  BY <1>1, <2>1 DEF OpenIsUnderWay, NeverOpened
<1> QED  BY <1>3, <1>4, <1>5

(* A record read, or taken back from the nacks, is tracked and sent.       *)
LEMMA ReadLoss ==
    ASSUME BentoInv, LossOK, worker.phase \in {"reading", "next"},
           NEW n \in SeqNums, NEW input \in StreamInputs, HandleBatch(n, input),
           input.toAck = session[current].toAck, input.incarnation = session[current].incarnation,
           input.start = session[current].start, input.open = session[current].open,
           input.pos <= tail, input.start <= input.pos,
           \A m \in Int : m < input.pos => m < session[current].pos \/ m = n,
           \A i \in 1 .. Len(session[current].nacks) :
               \/ session[current].nacks[i] = n
               \/ \E j \in 1 .. Len(input.nacks) : input.nacks[j] = session[current].nacks[i],
           UNCHANGED <<tail, mem, durable, current, inputStream, held, acked, givenUp>>
    PROVE  LossOK'
<1> USE DEF LossOK
<1>1. current \in Sessions
  BY DEF BentoInv, SourceOK
<1>2. /\ worker' = [phase |-> "sending", batch |-> n]
      /\ session' \in [Sessions -> StreamInputs]
      /\ \A s \in Sessions \ {current} : session'[s] = session[s]
      /\ session'[current].toAck = [input.toAck EXCEPT ![n] = "unacked"]
      /\ session'[current].incarnation = input.incarnation
      /\ session'[current].start = input.start /\ session'[current].pos = input.pos
      /\ session'[current].open = input.open /\ session'[current].nacks = input.nacks
  BY <1>1, HandleFacts DEF BentoInv
<1>3. PositionsOK'
  BY <1>2 DEF PositionsOK, AllAckedBelow
<1>4. ReadIsTracked'
  <2> SUFFICES ASSUME NEW s \in Sessions
               PROVE  /\ session'[s].incarnation = 0
                      /\ session'[s].start <= session'[s].pos /\ session'[s].pos <= tail
                      /\ \A m \in SeqNums : session'[s].toAck[m] = "acked" => m \in acked
                      /\ \A m \in SeqNums :
                            m < session'[s].pos => m \in acked \/ session'[s].toAck[m] = "unacked"
    BY DEF ReadIsTracked
  <2>1. CASE s # current
    BY <1>2, <2>1 DEF ReadIsTracked
  <2>2. CASE s = current
    <3>1. \A m \in SeqNums : session'[s].toAck[m] = IF m = n THEN "unacked" ELSE session[s].toAck[m]
      BY <1>1, <1>2, <2>2, SessionTypes DEF BentoInv
    <3>2. /\ session'[s].incarnation = 0 /\ session'[s].pos = input.pos
          /\ session'[s].start <= session'[s].pos /\ session'[s].pos <= tail
      BY <1>1, <1>2, <2>2 DEF ReadIsTracked
    <3>3. \A m \in SeqNums : session'[s].toAck[m] = "acked" => m \in acked
      BY <1>1, <2>2, <3>1 DEF ReadIsTracked
    <3>4. ASSUME NEW m \in SeqNums, m < session'[s].pos
          PROVE  m \in acked \/ session'[s].toAck[m] = "unacked"
      <4>1. CASE m = n
        BY <3>1, <4>1
      <4>2. CASE m # n
        <5>1. m < session[current].pos
          BY <3>2, <3>4, <4>2, DeliveryTypes
        <5> QED  BY <1>1, <2>2, <3>1, <4>2, <5>1 DEF ReadIsTracked
      <4> QED  BY <4>1, <4>2
    <3> QED  BY <3>2, <3>3, <3>4
  <2> QED  BY <2>1, <2>2
<1>5. OpenIsUnderWay'
  <2> SUFFICES ASSUME session[current].open, NEW m \in 0 .. input.pos - 1
               PROVE  m \in acked \/ UnderWay(m)' \/ <<current, m>> \in givenUp
    BY <1>2 DEF OpenIsUnderWay
  <2>1. CASE m = n
    BY <1>2, <2>1 DEF UnderWay
  <2>2. CASE m # n
    <3>1. input.pos \in Int /\ session[current].pos \in Int
      BY <1>1, SessionTypes DEF BentoInv, StreamInputs
    <3>2. m \in 0 .. session[current].pos - 1
      BY <2>2, <3>1
    <3>3. current > 0
      BY <1>1 DEF Sessions
    <3>4. m \in acked \/ UnderWay(m) \/ <<current, m>> \in givenUp
      BY <3>2, <3>3 DEF OpenIsUnderWay
    <3>5. UnderWay(m) => UnderWay(m)'
      <4>1. CASE \E i \in 1 .. Len(session[current].nacks) : session[current].nacks[i] = m
        <5>1. \E j \in 1 .. Len(session'[current].nacks) : session'[current].nacks[j] = m
          BY <1>2, <2>2, <4>1
        <5> QED  BY <5>1 DEF UnderWay
      <4>2. CASE ~(\E i \in 1 .. Len(session[current].nacks) : session[current].nacks[i] = m)
        BY <4>2 DEF UnderWay
      <4> QED  BY <4>1, <4>2
    <3> QED  BY <3>4, <3>5
  <2> QED  BY <2>1, <2>2
<1> QED  BY <1>3, <1>4, <1>5

(* Reading a batch, new or redelivered, keeps LossOK: what is read is tracked. *)
LEMMA ReadLossSteps ==
    ASSUME BentoInv, LossOK, ReadNacked \/ NextRecord
    PROVE  LossOK'
<1>1. current \in Sessions
  BY DEF ReadNacked, NextRecord, BentoInv, SourceOK
<1>2. /\ session[current].pos \in Int /\ session[current].start \in Int /\ tail \in Int
      /\ session[current].start <= session[current].pos /\ session[current].pos <= tail
  BY <1>1, SessionTypes, BentoAssumption DEF BentoInv, BentoTypeOK, LossOK, ReadIsTracked
<1>3. CASE ReadNacked
  <2> DEFINE n == Head(session[current].nacks)
             input == [session[current] EXCEPT !.nacks = Tail(@)]
  <2>1. /\ worker.phase = "reading" /\ session[current].nacks # <<>> /\ HandleBatch(n, input)
        /\ UNCHANGED <<tail, mem, durable, current, inputStream, held, acked, givenUp>>
    BY <1>3 DEF ReadNacked
  <2>2. session[current].nacks \in Seq(SeqNums)
    BY <1>1, SessionTypes DEF BentoInv
  <2>3. n \in SeqNums /\ Fine(current, n)
    BY <1>1, <2>1, <2>2, TailFacts DEF BentoInv, TracksOK
  <2>4. /\ input \in StreamInputs /\ input.nacks = Tail(session[current].nacks)
        /\ input.incarnation = session[current].incarnation /\ input.toAck = session[current].toAck
        /\ input.pos = session[current].pos /\ input.start = session[current].start
        /\ input.open = session[current].open
    BY <1>1, <2>1, NackedInput
  <2>5. ASSUME NEW i \in 1 .. Len(session[current].nacks)
        PROVE  \/ session[current].nacks[i] = n
               \/ \E j \in 1 .. Len(input.nacks) : input.nacks[j] = session[current].nacks[i]
    <3>1. CASE i = 1
      BY <2>1, <2>2, <3>1, TailFacts
    <3>2. CASE i # 1
      <4>1. i - 1 \in 1 .. Len(input.nacks) /\ (i - 1) + 1 = i
        BY <2>1, <2>2, <2>4, <3>2, TailFacts
      <4>2. input.nacks[i - 1] = session[current].nacks[i]
        BY <2>1, <2>2, <2>4, <4>1, TailFacts
      <4> QED  BY <4>1, <4>2
    <3> QED  BY <3>1, <3>2
  <2> HIDE DEF n, input
  <2>6. worker.phase \in {"reading", "next"} /\ input.pos <= tail /\ input.start <= input.pos
    BY <1>2, <2>1, <2>4
  <2> QED  BY <2>1, <2>3, <2>4, <2>5, <2>6, ReadLoss
<1>4. CASE NextRecord
  <2> DEFINE n == session[current].pos
             input == [session[current] EXCEPT !.pos = @ + 1]
  <2>1. /\ worker.phase = "next" /\ n < tail /\ HandleBatch(n, input)
        /\ UNCHANGED <<tail, mem, durable, current, inputStream, held, acked, givenUp>>
    BY <1>4 DEF NextRecord
  <2>2. /\ input \in StreamInputs /\ input.pos = n + 1 /\ input.nacks = session[current].nacks
        /\ input.incarnation = session[current].incarnation /\ input.toAck = session[current].toAck
        /\ input.start = session[current].start /\ input.open = session[current].open
        /\ n \in SeqNums
    BY <1>1, <2>1, ReadInput
  <2>3. n = session[current].pos
    OBVIOUS
  <2> HIDE DEF n, input
  <2>4. /\ input.pos <= tail /\ input.start <= input.pos /\ worker.phase \in {"reading", "next"}
        /\ \A m \in Int : m < input.pos => m < session[current].pos \/ m = n
    BY <1>2, <2>1, <2>2, <2>3
  <2>5. \A i \in 1 .. Len(session[current].nacks) :
           \E j \in 1 .. Len(input.nacks) : input.nacks[j] = session[current].nacks[i]
    BY <2>2
  <2> QED  BY <2>1, <2>2, <2>4, <2>5, ReadLoss
<1> QED  BY <1>3, <1>4

(* On the way through inputStream to Bento nothing is lost. *)
LEMMA SendLoss ==
    ASSUME BentoInv, LossOK, Send
    PROVE  LossOK'
<1> USE DEF LossOK
<1> DEFINE d == <<current, worker.batch>>
<1>1. /\ UNCHANGED <<tail, mem, durable, current, held, acked, givenUp>>
      /\ worker.phase = "sending" /\ inputStream' = Append(inputStream, d)
      /\ \/ worker' = At("connect") /\ CloseSession
         \/ worker' = At("reading") /\ session' = session
  BY DEF Send
<1>2. current \in Sessions /\ worker.batch \in SeqNums \cup {NoBatch}
  BY <1>1 DEF BentoInv, SourceOK
<1>3. /\ \A s \in Sessions : SameTracks(s)
      /\ session' = session \/ ~session'[current].open
  <2>1. CASE CloseSession
    BY <1>2, <2>1, CloseFacts DEF BentoInv
  <2>2. CASE session' = session
    BY <2>2 DEF SameTracks
  <2> QED  BY <1>1, <2>1, <2>2
<1>4. worker'.phase # "lookup"
  BY <1>1, AtTypes DEF WorkerPhases
<1>5. PositionsOK'
  BY <1>1, <1>4 DEF PositionsOK, AllAckedBelow
<1>6. ReadIsTracked'
  BY <1>1, <1>3 DEF ReadIsTracked, SameTracks
<1>7. OpenIsUnderWay'
  <2> SUFFICES ASSUME session'[current].open, current > 0, NEW n \in 0 .. session'[current].pos - 1
               PROVE  n \in acked \/ UnderWay(n)' \/ <<current, n>> \in givenUp
    BY <1>1 DEF OpenIsUnderWay
  <2>1. session' = session
    BY <1>3
  <2>2. n \in acked \/ UnderWay(n) \/ <<current, n>> \in givenUp
    BY <2>1 DEF OpenIsUnderWay
  <2>3. inputStream \in Seq(Deliveries) /\ d \in Deliveries
    BY <1>2 DEF BentoInv, BentoTypeOK, Deliveries
  <2>4. /\ \A i \in 1 .. Len(inputStream) : i \in 1 .. Len(inputStream') /\ inputStream'[i] = inputStream[i]
        /\ \E i \in 1 .. Len(inputStream') : inputStream'[i] = d
    <3> HIDE DEF d
    <3>1. /\ Len(inputStream') = Len(inputStream) + 1 /\ Len(inputStream) \in Nat
          /\ inputStream'[Len(inputStream) + 1] = d
          /\ \A i \in 1 .. Len(inputStream) : inputStream'[i] = inputStream[i]
      BY <1>1, <2>3
    <3> QED  BY <3>1
  <2>5. CASE worker.batch = n
    BY <1>1, <2>4, <2>5 DEF UnderWay
  <2>6. CASE worker.batch # n
    <3>1. CASE \E i \in 1 .. Len(inputStream) : inputStream[i] = <<current, n>>
      <4>1. \E i \in 1 .. Len(inputStream') : inputStream'[i] = <<current, n>>
        BY <2>4, <3>1
      <4> QED  BY <1>1, <4>1 DEF UnderWay
    <3>2. CASE ~\E i \in 1 .. Len(inputStream) : inputStream[i] = <<current, n>>
      BY <1>1, <2>1, <2>2, <2>6, <3>2 DEF UnderWay
    <3> QED  BY <3>1, <3>2
  <2> QED  BY <2>5, <2>6
<1> QED  BY <1>5, <1>6, <1>7

(* Bento taking a batch keeps LossOK. *)
LEMMA ReadBatchLoss ==
    ASSUME BentoInv, LossOK, ReadBatch
    PROVE  LossOK'
<1> USE DEF LossOK
<1>1. /\ UNCHANGED <<tail, mem, durable, worker, current, session, acked, givenUp>>
      /\ inputStream # <<>> /\ inputStream' = Tail(inputStream)
      /\ held' = IF Head(inputStream)[2] = NoBatch THEN held ELSE held \cup {Head(inputStream)}
  BY DEF ReadBatch
<1>2. PositionsOK' /\ ReadIsTracked'
  BY <1>1 DEF PositionsOK, AllAckedBelow, ReadIsTracked
<1>3. OpenIsUnderWay'
  <2> SUFFICES ASSUME session[current].open, current > 0, NEW n \in 0 .. session[current].pos - 1
               PROVE  n \in acked \/ UnderWay(n)' \/ <<current, n>> \in givenUp
    BY <1>1 DEF OpenIsUnderWay
  <2>1. n \in acked \/ UnderWay(n) \/ <<current, n>> \in givenUp
    BY DEF OpenIsUnderWay
  <2>2. inputStream \in Seq(Deliveries)
    BY DEF BentoInv, BentoTypeOK
  <2>3. CASE \E i \in 1 .. Len(inputStream) : inputStream[i] = <<current, n>>
    <3>1. PICK i \in 1 .. Len(inputStream) : inputStream[i] = <<current, n>>
      BY <2>3
    <3>2. CASE i = 1
      <4>1. Head(inputStream) = <<current, n>> /\ n # NoBatch
        BY <1>1, <2>2, <3>1, <3>2, TailFacts DEF NoBatch
      <4>2. <<current, n>> \in held'
        BY <1>1, <4>1
      <4> QED  BY <1>1, <4>2 DEF UnderWay
    <3>3. CASE i # 1
      <4>1. i - 1 \in 1 .. Len(inputStream') /\ (i - 1) + 1 = i
        BY <1>1, <2>2, <3>3, TailFacts
      <4>2. inputStream'[i - 1] = <<current, n>>
        BY <1>1, <2>2, <3>1, <4>1, TailFacts
      <4> QED  BY <1>1, <4>1, <4>2 DEF UnderWay
    <3> QED  BY <3>2, <3>3
  <2>4. CASE ~\E i \in 1 .. Len(inputStream) : inputStream[i] = <<current, n>>
    <3>1. held \subseteq held'
      BY <1>1
    <3> QED  BY <1>1, <2>1, <2>4, <3>1 DEF UnderWay
  <2> QED  BY <2>3, <2>4
<1> QED  BY <1>2, <1>3

(* A nacked batch waits to be read again, or is given up. *)
LEMMA NackLoss ==
    ASSUME BentoInv, LossOK, NEW d \in held, Nack(d)
    PROVE  LossOK'
<1> USE DEF LossOK
<1>1. /\ UNCHANGED <<tail, mem, durable, worker, current, inputStream, acked>>
      /\ held' = held \ {d}
  BY NackFacts
<1>2. PositionsOK'
  BY <1>1 DEF PositionsOK, AllAckedBelow
<1>3. ReadIsTracked'
  BY <1>1, NackFacts DEF ReadIsTracked
<1>4. OpenIsUnderWay'
  <2> SUFFICES ASSUME session'[current].open, current > 0, NEW n \in 0 .. session'[current].pos - 1
               PROVE  n \in acked \/ UnderWay(n)' \/ <<current, n>> \in givenUp'
    BY <1>1 DEF OpenIsUnderWay
  <2>1. current \in Sessions
    BY BentoAssumption DEF BentoInv, BentoTypeOK, Sessions
  <2>2. session[current].open /\ session'[current].pos = session[current].pos
    BY <2>1, NackFacts
  <2>3. n \in acked \/ UnderWay(n) \/ <<current, n>> \in givenUp
    BY <2>2 DEF OpenIsUnderWay
  <2>4. givenUp \subseteq givenUp'
    BY NackFacts
  <2>5. CASE <<current, n>> = d
    <3>1. d[1] = current /\ d[2] = n
      BY <2>5
    <3>2. \/ d \in givenUp'
          \/ \E i \in 1 .. Len(session'[current].nacks) : session'[current].nacks[i] = n
      BY <3>1, NackFacts
    <3> QED  BY <1>1, <2>5, <3>2 DEF UnderWay
  <2>6. CASE <<current, n>> # d
    <3>1. CASE \E i \in 1 .. Len(session[current].nacks) : session[current].nacks[i] = n
      <4>1. \E i \in 1 .. Len(session'[current].nacks) : session'[current].nacks[i] = n
        BY <2>1, <3>1, NackFacts
      <4> QED  BY <1>1, <4>1 DEF UnderWay
    <3>2. CASE ~\E i \in 1 .. Len(session[current].nacks) : session[current].nacks[i] = n
      BY <1>1, <2>3, <2>4, <2>6, <3>2 DEF UnderWay
    <3> QED  BY <3>1, <3>2
  <2> QED  BY <2>5, <2>6
<1> QED  BY <1>2, <1>3, <1>4

(* Below the acked prefix of a session everything is acked: what it read   *)
(* and does not track was acked, and so was what it did not have to read.  *)
LEMMA PrefixIsAcked ==
    ASSUME BentoInv, LossOK, NEW d \in held, NEW p \in AckedPrefix(Marked(d)),
           NEW n \in 0 .. p
    PROVE  n \in acked \cup {d[2]}
<1> USE DEF LossOK
<1> DEFINE s0 == d[1]
<1>1. s0 \in Sessions /\ d[2] \in SeqNums /\ Fine(s0, d[2])
  BY DeliveryTypes DEF BentoInv, TracksOK
<1>2. session[s0].toAck \in [SeqNums -> {"absent", "unacked", "acked"}] /\ session[s0].pos \in Int
  BY <1>1, SessionTypes DEF BentoInv
<1>3. \A m \in SeqNums : Marked(d)[m] = IF m = d[2] THEN "acked" ELSE session[s0].toAck[m]
  BY <1>1, <1>2 DEF Marked
<1>4. p \in SeqNums /\ Marked(d)[p] = "acked"
  BY DEF AckedPrefix
<1>5. p < session[s0].pos
  BY <1>1, <1>3, <1>4 DEF BentoInv, TracksOK, Fine
<1>6. n \in SeqNums /\ n < session[s0].pos /\ n \in Int /\ p \in Int /\ n <= p
  BY <1>2, <1>4, <1>5, BentoAssumption DEF SeqNums
<1>7. n \in acked \/ session[s0].toAck[n] = "unacked"
  BY <1>1, <1>6 DEF ReadIsTracked
<1>8. ASSUME session[s0].toAck[n] = "unacked", n # d[2] PROVE FALSE
  <2>1. Marked(d)[n] = "unacked"
    BY <1>3, <1>6, <1>8
  <2>2. n < p
    BY <1>4, <1>6, <2>1
  <2>3. \E k \in 0 .. n : Marked(d)[k] # "absent"
    BY <1>6, <2>1
  <2>4. Marked(d)[n] = "acked"
    BY <1>6, <2>2, <2>3 DEF AckedPrefix
  <2> QED  BY <2>1, <2>4
<1> QED  BY <1>7, <1>8

(* An ack keeps LossOK: the position it stores has only acked records before it. *)
LEMMA AckLoss ==
    ASSUME BentoInv, LossOK, incarnation = 0, NEW d \in held, Ack(d)
    PROVE  LossOK'
<1> USE DEF LossOK
<1>1. d[1] \in Sessions /\ d[2] \in SeqNums /\ d = <<d[1], d[2]>> /\ Fine(d[1], d[2])
  BY DeliveryTypes DEF BentoInv, TracksOK
<1>2. acked' = acked \cup {d[2]} /\ held' = held \ {d}
  BY <1>1, AckFacts DEF ReadIsTracked
<1>3. UNCHANGED <<tail, worker, current, inputStream, givenUp>>
  BY AckFacts
<1>4. PositionsOK'
  <2>1. \A p \in AckedPrefix(Marked(d)) : \A n \in 0 .. (p + 1) - 1 : n \in acked'
    <3> SUFFICES ASSUME NEW p \in AckedPrefix(Marked(d)), NEW n \in 0 .. (p + 1) - 1
                 PROVE  n \in acked'
      OBVIOUS
    <3>1. p \in Int
      BY DeliveryTypes DEF AckedPrefix
    <3>2. n \in 0 .. p
      BY <3>1
    <3> QED  BY <1>2, <3>2, PrefixIsAcked
  <2>2. AllAckedBelow(mem)' /\ AllAckedBelow(durable)'
    <3>1. \A n \in acked : n \in acked'
      BY <1>2
    <3> QED  BY <2>1, <3>1, AckFacts DEF PositionsOK, AllAckedBelow
  <2>3. worker'.phase = "lookup" => AllAckedBelow(worker.batch)'
    BY <1>2, <1>3 DEF PositionsOK, AllAckedBelow
  <2>4. d[2] < tail
    <3>1. /\ d[2] \in Int /\ d[2] < session[d[1]].pos /\ session[d[1]].pos <= tail
          /\ session[d[1]].pos \in Int /\ tail \in Int
      BY <1>1, SessionTypes, DeliveryTypes, BentoAssumption
         DEF Fine, ReadIsTracked, BentoInv, BentoTypeOK
    <3> QED  BY <3>1
  <2> QED  BY <1>2, <1>3, <2>2, <2>3, <2>4 DEF PositionsOK
<1>5. ReadIsTracked'
  <2> SUFFICES ASSUME NEW s \in Sessions
               PROVE  /\ session'[s].incarnation = 0
                      /\ session'[s].start <= session'[s].pos /\ session'[s].pos <= tail
                      /\ \A n \in SeqNums : session'[s].toAck[n] = "acked" => n \in acked'
                      /\ \A n \in SeqNums :
                            n < session'[s].pos => n \in acked' \/ session'[s].toAck[n] = "unacked"
    BY <1>3 DEF ReadIsTracked
  <2>1. /\ session'[s].incarnation = 0 /\ session'[s].pos = session[s].pos
        /\ session'[s].start <= session'[s].pos /\ session'[s].pos <= tail
    BY AckFacts DEF ReadIsTracked
  <2>2. \A n \in SeqNums : <<s, n>> = d => n \in acked'
    BY <1>1, <1>2
  <2>3. \A n \in SeqNums : session'[s].toAck[n] = "acked" => n \in acked'
    BY <1>2, <2>2, AckFacts DEF ReadIsTracked
  <2>4. \A n \in SeqNums : n < session'[s].pos => n \in acked' \/ session'[s].toAck[n] = "unacked"
    BY <1>2, <2>1, <2>2, AckFacts DEF ReadIsTracked
  <2> QED  BY <2>1, <2>3, <2>4
<1>6. OpenIsUnderWay'
  <2> SUFFICES ASSUME session'[current].open, current > 0, NEW n \in 0 .. session'[current].pos - 1
               PROVE  n \in acked' \/ UnderWay(n)' \/ <<current, n>> \in givenUp
    BY <1>3 DEF OpenIsUnderWay
  <2>1. current \in Sessions
    BY BentoAssumption DEF BentoInv, BentoTypeOK, Sessions
  <2>2. /\ session[current].open /\ session'[current].pos = session[current].pos
        /\ session'[current].nacks = session[current].nacks
    BY <2>1, AckFacts
  <2>3. n \in acked \/ UnderWay(n) \/ <<current, n>> \in givenUp
    BY <2>2 DEF OpenIsUnderWay
  <2>4. CASE <<current, n>> = d
    BY <1>2, <2>4
  <2>5. CASE <<current, n>> # d
    BY <1>2, <1>3, <2>2, <2>3, <2>5 DEF UnderWay
  <2> QED  BY <2>4, <2>5
<1> QED  BY <1>4, <1>5, <1>6

(* The stronger invariant holds in every reachable state. *)
LEMMA LossInvStep == LossInv /\ [Next]_vars => LossInv'
<1> SUFFICES ASSUME LossInv, [Next]_vars PROVE LossInv'
  OBVIOUS
<1>1. BentoInv /\ BentoInv'
  BY BentoInvStep DEF LossInv
<1>2. manager' = "removed" => worker'.phase = "stopped"
  BY RemovedStep DEF LossInv, BentoInv
<1>3. ASSUME StartSeqNum = "earliest", incarnation' = 0 PROVE LossOK'
  <2>1. incarnation \in Nat
    BY <1>1 DEF BentoInv, BentoTypeOK
  <2>2. CASE StreamRecreated
    BY <1>3, <2>1, <2>2 DEF StreamRecreated
  <2>3. CASE UNCHANGED vars
    <3>1. LossOK
      BY <1>3, <2>3 DEF LossInv, LossOK, vars
    <3> QED  BY <2>3, <3>1 DEF vars, LossOK, PositionsOK, ReadIsTracked, OpenIsUnderWay,
                              AllAckedBelow, UnderWay
  <2>4. CASE Next /\ ~StreamRecreated
    <3>1. incarnation = 0
      BY <1>3, <2>4 DEF Next, SourceStep, CacheMiss, Connect, ReadNacked, EnterNext, NextRecord,
           SessionEnds, RangeNotSatisfiable, Send, WorkerStops, Prune, Forget, Respawn, Close,
           ManagerCloses, Restart, ClientAppends, ReadBatch, Ack, Nack
    <3>2. LossOK
      BY <1>3, <3>1 DEF LossInv, LossOK
    <3>3. ~RangeNotSatisfiable
      <4> SUFFICES ASSUME RangeNotSatisfiable PROVE FALSE
        OBVIOUS
      <4>1. current \in Sessions /\ session[current].start > tail
        BY <1>1 DEF RangeNotSatisfiable, BentoInv, SourceOK
      <4>2. /\ session[current].start \in Int /\ session[current].pos \in Int /\ tail \in Int
            /\ session[current].start <= session[current].pos /\ session[current].pos <= tail
        BY <1>1, <3>2, <4>1, SessionTypes, BentoAssumption
           DEF LossOK, ReadIsTracked, BentoInv, BentoTypeOK
      <4> QED  BY <4>1, <4>2
    <3> QED
      BY <1>1, <1>3, <2>4, <3>1, <3>2, <3>3, QuietLossSteps, ConnectLoss, RestartLoss,
         ReadLossSteps, SendLoss, ReadBatchLoss, NackLoss, AckLoss
         DEF Next, SourceStep
  <2> QED  BY <2>2, <2>3, <2>4
<1> QED  BY <1>1, <1>2, <1>3 DEF LossInv, LossOK

(* LossInv is inductive, hence holds in every reachable state. *)
LEMMA LossInvariant == Spec => []LossInv
BY BentoInvInit, LossInvStep, PTL DEF Spec

-----------------------------------------------------------------------------

(* The input keeps to its types and its channel to its room, whatever is   *)
(* acked, nacked, pruned, recreated or lost in a crash.                    *)
THEOREM BentoTypeCorrect == Spec => []BentoTypeOK
<1>1. BentoInv => BentoTypeOK
  BY DEF BentoInv
<1> QED  BY <1>1, BentoInvariant, PTL

(* A reset to the tail after a 416 stands: no acknowledgement of a session *)
(* from before it moves the position beyond the tail again.                *)
THEOREM ResetIsKept == Spec => []ResetStands
<1>1. BentoInv => ResetStands
  BY DEF BentoInv, ResetOK
<1> QED  BY <1>1, BentoInvariant, PTL

(* Reading from the start, no record is lost: positions in memory and in   *)
(* the durable cache lie only beyond acked records, and what the open      *)
(* session has read is acked or still on its way.                          *)
THEOREM NothingIsLost == Spec => []NoLoss
<1>1. LossInv => NoLoss
  BY DEF LossInv, NoLoss, PositionsOK, OpenIsUnderWay
<1> QED  BY <1>1, LossInvariant, PTL

=============================================================================
