--------------------------- MODULE AppendTransport ---------------------------
(***************************************************************************)
(* One streaming connection of an append session: transportAppendSession   *)
(* (s2/append.go) on the client side and, as far as its use shows, the     *)
(* server at the other end.                                                *)
(*                                                                         *)
(* A connection is a request body, into which the pump writes frames       *)
(* through a pipe, and a response body from which readAcksLoop reads       *)
(* acknowledgements, ended by a terminal frame, by EOF or by a failure.    *)
(* The request body is consumed while the request is still connecting.     *)
(*                                                                         *)
(* The server (external) applies the frames of a connection in order,      *)
(* answers each applied frame with one acknowledgement, and may end the    *)
(* response at any time.  It is assumed to keep its word on errors that    *)
(* promise no side effects: it has acknowledged every frame it applied     *)
(* before it sends one, and applies none after.  A connection that breaks  *)
(* loses what was on the way to the client; frames on the way to the       *)
(* server may still be applied, at any later time.                         *)
(***************************************************************************)
EXTENDS AppendErrors, Integers, Sequences

CONSTANTS Batches,     \* the batches the application submits
          Count,       \* Count[b]: the number of records of batch b
          NoMatch,     \* a batch without match_seq_num
          Sessions,    \* identities of connections, in order of creation
          AckBuffer,   \* appendAckChannelBuffer
          Setups,      \* the configurations a session may be opened with
          MaxFaults    \* bound on failures, timeouts and reconnect advice

ASSUME TransportAssumption ==
    /\ Batches \subseteq Nat
    /\ Count \in [Batches -> Nat \ {0}]
    /\ NoMatch \notin Nat
    /\ Sessions \subseteq Nat
    /\ AckBuffer \in Nat \ {0}
    /\ Setups \subseteq
          [policy : {"all", "noSideEffects"},              \* AppendRetryPolicy
           matchSeqNum : [Batches -> Nat \cup {NoMatch}],  \* the tail each batch requires
           awaitTickets : BOOLEAN,  \* the application waits for a ticket before the next Submit
           mayCancel : BOOLEAN,     \* the context given to AppendSession may be cancelled
           mayClose : BOOLEAN,      \* the application may call Close
           errors : SUBSET Errors,  \* what a server may end a response with
           connections : Nat]       \* bound on the connections opened
    /\ MaxFaults \in Nat

VARIABLES setup,       \* the configuration of the session, fixed from the start
          transport,   \* per session, the fields of transportAppendSession
          server,      \* per session, the server's end of the connection
          tail,        \* the stream's next sequence number
          applied,     \* applied[b]: how often b was appended to the stream
          faults       \* failures that have happened, at most MaxFaults

transportVars == <<transport, server, tail, applied, faults>>

(* An acknowledgement: its end position, and (history) the batch it is for. *)
Acks == [of : Batches, end : Nat]

Transports ==
    [conn : {"none", "connecting", "open", "failing", "ended"},
     closed : BOOLEAN,
     requestWriter : {"open", "broken", "nil"},
     pendingWrites : Nat,
     terminalErr : Errors \cup {NoError},
     errorsCh : Errors \cup {NoError},
     acksCh : Seq(Acks),
     chansClosed : BOOLEAN,
     reconnectAdvised : BOOLEAN,
     reconnectDeclined : BOOLEAN]

(* Input not yet applied, answers not yet received, and how it ended. *)
Servers ==
    [inbox : Seq(Batches),
     response : Seq(Acks),
     end : Errors \cup {"up", "eof"}]

TransportTypeOK ==
    /\ transport \in [Sessions -> Transports]
    /\ server \in [Sessions -> Servers]
    /\ tail \in Nat
    /\ applied \in [Batches -> Nat]
    /\ faults \in 0..MaxFaults

(* The zero value: no session was created under this identity yet. *)
NoTransport ==
    [conn |-> "none", closed |-> FALSE, requestWriter |-> "nil", pendingWrites |-> 0,
     terminalErr |-> NoError, errorsCh |-> NoError, acksCh |-> <<>>, chansClosed |-> FALSE,
     reconnectAdvised |-> FALSE, reconnectDeclined |-> FALSE]

TransportInit ==
    /\ setup \in Setups
    /\ transport = [s \in Sessions |-> NoTransport]
    /\ server = [s \in Sessions |-> [inbox |-> <<>>, response |-> <<>>, end |-> "up"]]
    /\ tail = 0
    /\ applied = [b \in Batches |-> 0]
    /\ faults = 0

-----------------------------------------------------------------------------
(* The calls AppendSession makes on a connection, as values of transport. *)

(* createAppendSession and start: the request runs in a goroutine. *)
Started(s) ==
    [transport EXCEPT ![s] = [NoTransport EXCEPT !.conn = "connecting", !.requestWriter = "open"]]

(* Close, of every session in the set S; closeOnce makes it idempotent. *)
ClosedSessions(t, S) ==
    [s \in Sessions |->
        IF s \in S THEN [t[s] EXCEPT !.closed = TRUE, !.requestWriter = "nil"] ELSE t[s]]

(* halfClose: no more input, acknowledgements remain readable. *)
HalfClosed(t, s) == [t EXCEPT ![s].requestWriter = "nil"]

(* appendInput returns before it writes when the session was shut. *)
RejectsInput(s) == transport[s].closed \/ transport[s].requestWriter = "nil"

(* The error appendInput returns: terminalErr, if there is one. *)
InputError(s) ==
    IF transport[s].terminalErr # NoError THEN transport[s].terminalErr ELSE "uncertain"

(* holdInputsForReconnect *)
HoldsInputsForReconnect(s) ==
    transport[s].reconnectAdvised /\ ~transport[s].reconnectDeclined

(* effectSignalled *)
EffectSignalled(s) == transport[s].pendingWrites > 0

(* markAckReceived *)
AckReceived(t, s) ==
    [t EXCEPT ![s].pendingWrites = IF @ > 0 THEN @ - 1 ELSE 0]

(* reportError: first error wins, the channel holds one and never blocks. *)
Reporting(tr, err) ==
    [tr EXCEPT !.terminalErr = IF @ = NoError THEN err ELSE @,
               !.errorsCh = IF tr.closed \/ @ # NoError THEN @ ELSE err]

-----------------------------------------------------------------------------
(* Frames: writer.Write returns once the transport has taken the frame. *)

(* A frame that arrives after the server ended the response is dropped. *)
WriteAccepted(s, b) ==
    /\ transport[s].requestWriter = "open"
    /\ server' = IF server[s].end = "up"
                 THEN [server EXCEPT ![s].inbox = Append(@, b)]
                 ELSE server
    /\ UNCHANGED <<transport, tail, applied, faults>>

(* The pipe was closed under the writer, or the transport stopped reading. *)
WriteFails(s) ==
    /\ transport[s].requestWriter # "open" \/ server[s].end # "up"
    /\ UNCHANGED transportVars

-----------------------------------------------------------------------------
(* connectAndRead *)

(* Response headers arrived; a session closed meanwhile is abandoned. *)
Connected(s) ==
    /\ transport[s].conn = "connecting"
    /\ transport' = [transport EXCEPT ![s].conn = IF transport[s].closed THEN "ended" ELSE "open"]
    /\ UNCHANGED <<server, tail, applied, faults>>

(* connectAndRead returns early: the error is reported, the pipe broken. *)
RequestFailed(tr, err) ==
    [Reporting(tr, err) EXCEPT
        !.conn = "ended",
        !.requestWriter = IF @ = "nil" THEN "nil" ELSE "broken"]

(* The request failed or was answered with an error status.  Nothing will *)
(* close the channels of this session.                                    *)
ConnectFailed(s) ==
    /\ transport[s].conn = "connecting"
    /\ server[s].end \in Errors /\ server[s].response = <<>>
    /\ transport' = [transport EXCEPT ![s] = RequestFailed(@, server[s].end)]
    /\ UNCHANGED <<server, tail, applied, faults>>

-----------------------------------------------------------------------------
(* readAcksLoop *)

(***************************************************************************)
(* handleFrame for an acknowledgement: the loop blocks while acksCh is     *)
(* full.  The server may set the reconnect-advised flag on any frame.      *)
(***************************************************************************)
ReceiveAck(s) ==
    /\ transport[s].conn = "open"
    /\ server[s].response # <<>>
    /\ Len(transport[s].acksCh) < AckBuffer
    /\ \E advised \in BOOLEAN :
          /\ advised => faults < MaxFaults
          /\ faults' = IF advised THEN faults + 1 ELSE faults
          /\ transport' = [transport EXCEPT
                 ![s].acksCh = Append(@, Head(server[s].response)),
                 ![s].reconnectAdvised = @ \/ advised]
    /\ server' = [server EXCEPT ![s].response = Tail(@)]
    /\ UNCHANGED <<tail, applied>>

(***************************************************************************)
(* The loop sees the end of the response, or its own body closed by Close, *)
(* and reports an error unless the session was closed (reportErrorIfOpen). *)
(***************************************************************************)
ResponseEnds(s) ==
    /\ transport[s].conn = "open"
    /\ \/ server[s].end # "up" /\ server[s].response = <<>>
       \/ transport[s].closed
    /\ transport' = [transport EXCEPT ![s] =
           [IF server[s].end \in Errors /\ ~transport[s].closed
            THEN Reporting(@, server[s].end) ELSE @ EXCEPT !.conn = "failing"]]
    /\ UNCHANGED <<server, tail, applied, faults>>

(* The deferred calls: close errorsCh, close acksCh, Close. *)
Teardown(s) ==
    /\ transport[s].conn = "failing"
    /\ transport' = ClosedSessions([transport EXCEPT ![s].conn = "ended",
                                                     ![s].chansClosed = TRUE], {s})
    /\ UNCHANGED <<server, tail, applied, faults>>

-----------------------------------------------------------------------------
(* The server and the network (external) *)

(* The condition on the wire: convertAppendInputToProto copies it. *)
Condition(b) == setup.matchSeqNum[b]

(* Apply the oldest frame, or end the session when its condition fails. *)
Apply(s) ==
    /\ server[s].inbox # <<>>
    /\ LET b == Head(server[s].inbox) IN
       IF Condition(b) \in {NoMatch, tail}
       THEN /\ tail' = tail + Count[b]
            /\ applied' = [applied EXCEPT ![b] = @ + 1]
            /\ server' = [server EXCEPT
                   ![s].inbox = Tail(@),
                   ![s].response = IF server[s].end = "up"
                                   THEN Append(@, [of |-> b, end |-> tail']) ELSE @]
       ELSE /\ server' = [server EXCEPT
                   ![s].inbox = <<>>,
                   ![s].end = IF @ = "up" THEN "fatalNoEffect" ELSE @]
            /\ UNCHANGED <<tail, applied>>
    /\ UNCHANGED <<transport, faults>>

(* The server ends the response: an error frame, an error status, or EOF. *)
ServerEnds(s) ==
    /\ transport[s].conn \in {"connecting", "open"} /\ ~transport[s].closed
    /\ server[s].end = "up"
    /\ faults < MaxFaults /\ faults' = faults + 1
    /\ \E end \in (setup.errors \ {"uncertain"}) \cup {"eof"} :
          server' = [server EXCEPT ![s].end = end,
                                   ![s].inbox = IF HasNoSideEffects(end) THEN <<>> ELSE @]
    /\ UNCHANGED <<transport, tail, applied>>

(***************************************************************************)
(* Once the request body has ended (halfClose, Close) and all input is     *)
(* answered, the server ends the response.                                 *)
(***************************************************************************)
ServerFinishes(s) ==
    /\ transport[s].conn \in {"connecting", "open"} /\ ~transport[s].closed
    /\ transport[s].requestWriter = "nil"
    /\ server[s].end = "up" /\ server[s].inbox = <<>>
    /\ server' = [server EXCEPT ![s].end = "eof"]
    /\ UNCHANGED <<transport, tail, applied, faults>>

(* The connection breaks: answers are lost, the pipe stops being read. *)
Break(s) ==
    /\ "uncertain" \in setup.errors
    /\ transport[s].conn \in {"connecting", "open"} /\ ~transport[s].closed
    /\ server[s].end = "up"
    /\ faults < MaxFaults /\ faults' = faults + 1
    /\ server' = [server EXCEPT ![s].end = "uncertain", ![s].response = <<>>]
    /\ transport' = [transport EXCEPT
           ![s].requestWriter = IF @ = "open" THEN "broken" ELSE @]
    /\ UNCHANGED <<tail, applied>>

TransportNext(s) ==
    \/ Connected(s) \/ ConnectFailed(s)
    \/ ReceiveAck(s) \/ ResponseEnds(s) \/ Teardown(s)
    \/ Apply(s) \/ ServerEnds(s) \/ ServerFinishes(s) \/ Break(s)

=============================================================================
