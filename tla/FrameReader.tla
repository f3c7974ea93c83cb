----------------------------- MODULE FrameReader -----------------------------
(***************************************************************************)
(* FrameReader and S2SFrameParser (internal/framing/framing.go): frames    *)
(* are cut out of a byte stream that arrives in arbitrary chunks and may   *)
(* end, or fail, anywhere.                                                 *)
(*                                                                         *)
(* A byte is <<i, k>>: the k-th byte of the i-th frame sent.  A frame is   *)
(* three bytes of length, then length bytes: the flag byte and a payload.  *)
(* The parser's slice is its contents (buffer), its capacity and the       *)
(* offset of what is not yet consumed.                                     *)
(***************************************************************************)
EXTENDS Integers, Sequences, SequencesExt

CONSTANTS
    MaxFrameSize,
    ReadChunkSize,     \* readChunkSize
    InitialCapacity,   \* of NewS2SFrameParser
    MaxFrames          \* bound on the frames sent

ASSUME FrameAssumption ==
    /\ MaxFrameSize \in Nat \ {0} /\ ReadChunkSize \in Nat \ {0}
    /\ InitialCapacity \in Nat /\ MaxFrames \in Nat

VARIABLES
    frames,      \* the frames the server sent
    cut,         \* bytes that arrive before the connection ends ...
    ending,      \* ... with EOF or with an error
    arrived,     \* bytes read from the connection so far
    buffer, off, capacity, need,    \* S2SFrameParser
    pendingErr,  \* FrameReader.pendingErr
    reader,      \* ReadFrame is about to parse, about to read, or has failed with ...
    delivered    \* frames returned so far

frameVars == <<frames, cut, ending, arrived, buffer, off, capacity, need, pendingErr,
               reader, delivered>>

-----------------------------------------------------------------------------

Frame(length, terminal, compression) ==
    [length |-> length, terminal |-> terminal, compression |-> compression]

(* Regular and terminal frames, the largest, and the ones ParseFrame refuses. *)
SentFrames ==
    {Frame(1, FALSE, "none"), Frame(MaxFrameSize, FALSE, "gzip"), Frame(3, TRUE, "none"),
     Frame(0, FALSE, "none"), Frame(MaxFrameSize + 1, FALSE, "none"),
     Frame(2, TRUE, "none"), Frame(1, FALSE, "unknown")}

(* CreateFrameWithStatus: length prefix, flag, status, data. *)
CreateFrame(i) == [k \in 1 .. 3 + frames[i].length |-> <<i, k>>]

Wire == FlattenSeq([i \in 1 .. Len(frames) |-> CreateFrame(i)])

(* ParseFrame's checks, in its order. *)
ValidLength(f) == f.length > 0 /\ f.length <= MaxFrameSize
ValidFrame(f) == /\ ValidLength(f)
                 /\ f.compression \in {"none", "zstd", "gzip"}
                 /\ f.terminal => f.length >= 3

-----------------------------------------------------------------------------

FrameInit ==
    /\ frames \in SeqOf(SentFrames, MaxFrames)
    /\ \A i \in 1 .. Len(frames) - 2 : ValidFrame(frames[i])
    /\ cut \in 0 .. Len(Wire)
    /\ ending \in {"EOF", "error"}
    /\ arrived = 0
    /\ buffer = <<>> /\ off = 0 /\ capacity = InitialCapacity /\ need = 0
    /\ pendingErr = "nil"
    /\ reader = "parse"
    /\ delivered = <<>>

Unread == Len(buffer) - off

(***************************************************************************)
(* ParseFrame: nothing below four bytes; need is the size of a frame that  *)
(* is not complete; a complete one is copied out and consumed.             *)
(***************************************************************************)
Unconsumed == SubSeq(buffer, off + 1, Len(buffer))

(* The frame whose length prefix the unread bytes begin with. *)
FirstFrame == frames[Unconsumed[1][1]]

TotalSize == 3 + FirstFrame.length

Consume(n) ==
    IF off + n = Len(buffer)
    THEN buffer' = <<>> /\ off' = 0
    ELSE buffer' = buffer /\ off' = off + n

TooShort == Unread < 4

ParseNothing ==
    /\ reader = "parse"
    /\ TooShort
    /\ reader' = "read"
    /\ UNCHANGED <<frames, cut, ending, arrived, buffer, off, capacity, need, pendingErr, delivered>>

ParseIncomplete ==
    /\ reader = "parse"
    /\ ~TooShort /\ ValidLength(FirstFrame) /\ Unread < TotalSize
    /\ need' = TotalSize
    /\ reader' = "read"
    /\ UNCHANGED <<frames, cut, ending, arrived, buffer, off, capacity, pendingErr, delivered>>

ParseInvalid ==
    /\ reader = "parse"
    /\ ~TooShort
    /\ ~ValidLength(FirstFrame) \/ (Unread >= TotalSize /\ ~ValidFrame(FirstFrame))
    /\ need' = 0
    /\ reader' = "invalid"
    /\ UNCHANGED <<frames, cut, ending, arrived, buffer, off, capacity, pendingErr, delivered>>

ParseComplete ==
    /\ reader = "parse"
    /\ ~TooShort /\ ValidFrame(FirstFrame) /\ Unread >= TotalSize
    /\ need' = 0
    /\ delivered' = Append(delivered, SubSeq(Unconsumed, 1, TotalSize))
    /\ Consume(TotalSize)
    /\ UNCHANGED <<frames, cut, ending, arrived, capacity, pendingErr, reader>>

(***************************************************************************)
(* readFrom: ensureSpare makes room, compacting before it grows; one Read  *)
(* fills any part of the spare room, and may bring the end with it.        *)
(***************************************************************************)
Spare == IF need > Unread THEN need - Unread ELSE ReadChunkSize

(* Mutant: compaction forgets to rewind the offset. *)
EnsureSpareKeepsOffset(n) ==
    IF capacity - Len(buffer) >= n THEN [buffer |-> buffer, off |-> off, capacity |-> capacity]
    ELSE [buffer |-> Unconsumed, off |-> off, capacity |-> capacity * 2 + n]

(* The slice after ensureSpare(n): its contents, offset and capacity. *)
EnsureSpare(n) ==
    LET fits(len) == capacity - len >= n
        grown == IF capacity * 2 < Unread + n THEN Unread + n ELSE capacity * 2
    IN  IF fits(Len(buffer)) THEN [buffer |-> buffer, off |-> off, capacity |-> capacity]
        ELSE [buffer |-> Unconsumed, off |-> 0,
              capacity |-> IF fits(Unread) THEN capacity ELSE grown]

(* endErr: EOF inside a frame is a truncated stream. *)
EndErr(err, rest) == IF err = "EOF" /\ rest > 0 THEN "unexpectedEOF" ELSE err

ReadFrom ==
    /\ reader = "read"
    /\ pendingErr = "nil"
    /\ LET room == EnsureSpare(Spare)
           space == room.capacity - Len(room.buffer)
           left == cut - arrived
       IN  \E n \in 0 .. IF space < left THEN space ELSE left :
             /\ arrived' = arrived + n
             /\ buffer' = room.buffer \o SubSeq(Wire, arrived + 1, arrived + n)
             /\ off' = room.off /\ capacity' = room.capacity
             /\ \/ n > 0 /\ pendingErr' = "nil" /\ reader' = "parse"
                \/ /\ n = left
                   /\ pendingErr' = ending
                   /\ reader' = IF n > 0 THEN "parse"
                                ELSE EndErr(ending, Len(buffer') - off')
    /\ UNCHANGED <<frames, cut, ending, need, delivered>>

(* Nothing more to parse and the end was seen with the last bytes. *)
ReportPending ==
    /\ reader = "read"
    /\ pendingErr # "nil"
    /\ reader' = EndErr(pendingErr, Unread)
    /\ UNCHANGED <<frames, cut, ending, arrived, buffer, off, capacity, need, pendingErr, delivered>>

FrameNext ==
    \/ ParseNothing \/ ParseIncomplete \/ ParseInvalid \/ ParseComplete
    \/ ReadFrom \/ ReportPending

FrameSpec == FrameInit /\ [][FrameNext]_frameVars

-----------------------------------------------------------------------------

FrameTypeOK ==
    /\ arrived \in 0 .. cut /\ off \in Nat /\ capacity \in Nat /\ need \in Nat
    /\ pendingErr \in {"nil", "EOF", "error"}
    /\ reader \in {"parse", "read", "invalid", "EOF", "unexpectedEOF", "error"}

(* The frames returned are the frames sent, whole and in order, however    *)
(* the bytes were cut into reads and the buffer compacted or grown.        *)
FramesExact ==
    /\ Len(delivered) <= Len(frames)
    /\ \A i \in 1 .. Len(delivered) : delivered[i] = CreateFrame(i)

(* The bytes that arrived and were not returned as frames. *)
Residue == cut - Len(FlattenSeq(delivered))

(* How ReadFrame ends tells the truth: a clean end only on a frame         *)
(* boundary after every frame was returned, a truncated stream only inside *)
(* a frame, the connection's error and an invalid frame only after every   *)
(* complete frame before it was returned.                                  *)
EndIsHonest ==
    /\ reader = "EOF" => ending = "EOF" /\ Residue = 0
    /\ reader = "unexpectedEOF" => ending = "EOF" /\ Residue > 0
    /\ reader \in {"EOF", "unexpectedEOF", "error"} /\ Len(delivered) < Len(frames)
         => LET next == frames[Len(delivered) + 1]
            IN  ValidFrame(next) => Residue < 3 + next.length
    /\ reader = "invalid" => ~ValidFrame(frames[Len(delivered) + 1])

Larger(a, b) == IF a > b THEN a ELSE b

(* The parser never asks the connection for zero bytes, which would spin,  *)
(* and its buffer stays within twice what one frame needs.                 *)
BufferBounded ==
    /\ Len(buffer) <= capacity
    /\ reader = "read" => LET room == EnsureSpare(Spare)
                          IN  room.capacity - Len(room.buffer) > 0
    /\ capacity <= Larger(InitialCapacity, 2 * Larger(3 + MaxFrameSize, 3 + ReadChunkSize))

(* All of it together: the frames that were sent come out, whole and in    *)
(* order, the end of the stream is reported as what it is, and the buffer  *)
(* always has room to read into without growing past its bound.            *)
FrameReaderExact == FrameTypeOK /\ FramesExact /\ EndIsHonest /\ BufferBounded

=============================================================================
