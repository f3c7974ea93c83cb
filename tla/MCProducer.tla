----------------------------- MODULE MCProducer -----------------------------
(* Instances of Producer for TLC. *)
EXTENDS Producer, TLC

OneByteEach == [r \in Records |-> 1]

(* Two submitted records, or one and a direct one, fit in a batch of three *)
(* bytes; all of them do not.                                              *)
DirectIsLarger == [r \in Records |-> IF r \in Watched THEN 1 ELSE 2]

(* A record added directly beside the submitted ones, MatchSeqNum, and an  *)
(* append session that may fail and would repeat a batch if it could.      *)
FailingSession ==
    [maxRecords |-> 3, maxMeteredBytes |-> 3, linger |-> FALSE, matchSeqNum |-> 0,
     records |-> Records, may |-> {"sessionFails", "resends", "flushAbandoned"}]

(* Parent contexts end, and the application uses the batcher behind the    *)
(* producer's back.                                                        *)
CancelledContexts ==
    [maxRecords |-> 2, maxMeteredBytes |-> 2, linger |-> FALSE, matchSeqNum |-> NoMatch,
     records |-> Watched, may |-> {"batcherCancelled", "producerCancelled", "directUse"}]

(* Batches without a condition, which the session may append again.        *)
RepeatingSession ==
    [maxRecords |-> 1, maxMeteredBytes |-> 2, linger |-> FALSE, matchSeqNum |-> NoMatch,
     records |-> Watched, may |-> {"resends"}]

(* Linger timers, and room for one record at a time. *)
LingeringBatches ==
    [maxRecords |-> 2, maxMeteredBytes |-> 2, linger |-> TRUE, matchSeqNum |-> 0,
     records |-> Watched, may |-> {"sessionFails"}]

SafetySetups == {FailingSession, CancelledContexts, RepeatingSession}

LivenessSetups == {LingeringBatches}

(* The records of the Submit calls are interchangeable, and so are the     *)
(* records given to Batcher.Add.                                           *)
Interchangeable == Permutations(Watched) \cup Permutations(Records \ Watched)

=============================================================================
