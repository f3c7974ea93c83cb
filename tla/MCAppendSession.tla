-------------------------- MODULE MCAppendSession --------------------------
(* Instances of AppendSession for TLC. *)
EXTENDS AppendSession

OneRecordEach == [b \in Batches |-> 1]

AsManyAsItsNumber == [b \in Batches |-> b]

AllErrors == {"draining", "noEffect", "uncertain", "fatalNoEffect", "fatalUncertain"}

(* Unconditional batches, retried without restriction. *)
Plain == [policy |-> "all", matchSeqNum |-> [b \in Batches |-> NoMatch], awaitTickets |-> TRUE,
          mayCancel |-> FALSE, mayClose |-> TRUE, errors |-> AllErrors, connections |-> 2]

(* Every batch requires the tail its predecessors leave; a third           *)
(* connection, and no Close.                                               *)
Conditional == [Plain EXCEPT !.matchSeqNum = [b \in Batches |-> b - 1], !.connections = 3,
                             !.errors = {"uncertain", "fatalNoEffect"}, !.mayClose = FALSE]

(* Only effect-free failures are retried; Submit calls do not wait for     *)
(* each other, and the session may be cancelled.                           *)
Cautious == [Plain EXCEPT !.policy = "noSideEffects", !.errors = {"noEffect", "uncertain", "fatalUncertain"},
                          !.awaitTickets = FALSE, !.mayCancel = TRUE]

(* The server drains; nothing else goes wrong. *)
Drained == [Plain EXCEPT !.policy = "noSideEffects", !.errors = {"draining"},
                         !.awaitTickets = FALSE, !.mayClose = FALSE]

DrainedSetup == {Drained}

(* One unconditional batch among conditional ones.  With this set-up in    *)
(* the place of DrainedSetup NoDuplicates is violated as well: the         *)
(* hypothesis of RetriesHaveNoEffect cannot do without either half.        *)
Mixed == [Drained EXCEPT !.errors = {"noEffect"},
                         !.matchSeqNum = [b \in Batches |-> IF b = 1 THEN NoMatch ELSE 1]]

MixedSetup == {Mixed}

AllSetups == {Plain, Conditional, Cautious}

PlainSetup == {Plain}

PlainWithBreaks == {[Plain EXCEPT !.errors = {"uncertain"}]}

=============================================================================
