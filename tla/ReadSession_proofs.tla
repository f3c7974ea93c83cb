------------------------- MODULE ReadSession_proofs -------------------------
(***************************************************************************)
(* Theorems about ReadSession: what Next returns, the position, the        *)
(* caught-up state and the end of a session, for streams of any length,    *)
(* any batches, buffers, limits, and any number of faults.                 *)
(***************************************************************************)
EXTENDS ReadSession, SequenceTheorems, WellFoundedInduction, TLAPS

-----------------------------------------------------------------------------
(* Induction over the naturals, for a set instead of a predicate.          *)

(* A set that holds zero and with each number the next one holds all. *)
LEMMA SetInduction ==
    ASSUME NEW S, 0 \in S, \A n \in Nat : n \in S => n + 1 \in S
    PROVE  \A n \in Nat : n \in S
<1> DEFINE C == Nat \ S
           R == {p \in Nat \X Nat : p[1] < p[2]}
<1>1. ASSUME C # {} PROVE FALSE
    <2>1. IsWellFoundedOn(R, Nat)
        BY NatLessThanWellFounded DEF OpToRel
    <2>2. C \subseteq Nat
        OBVIOUS
    <2>3. \E n \in C : \A m \in C : ~(<<m, n>> \in R)
        <3> HIDE DEF R, C
        <3> QED BY <1>1, <2>1, <2>2, WFMin
    <2>4. PICK n \in C : \A m \in C : ~(<<m, n>> \in R)
        BY <2>3
    <2>5. n \in Nat /\ n # 0
        OBVIOUS
    <2>6. n - 1 \in Nat /\ n - 1 \notin C
        <3>1. n - 1 \in Nat /\ <<n - 1, n>> \in R
            BY <2>5
        <3> QED BY <3>1, <2>4
    <2>7. n - 1 \in S /\ (n - 1) + 1 = n
        BY <2>5, <2>6
    <2> QED BY <2>4, <2>5, <2>6, <2>7
<1> QED BY <1>1

-----------------------------------------------------------------------------
(* VisibleBetween: the recursive function it is defined by exists, which   *)
(* gives its two equations; the rest follows from them.                    *)

Step(s, n) == IF Visible(n) THEN Append(s, n) ELSE s

Before(f, a) ==
    f = [n \in Nat |-> IF n <= a THEN <<>> ELSE Step(f[n - 1], n - 1)]

(* The same up to m only. *)
BeforeUpTo(f, a, m) ==
    f = [n \in 0 .. m |-> IF n <= a THEN <<>> ELSE Step(f[n - 1], n - 1)]

(* Each initial part of the function exists. *)
LEMMA PartExists ==
    ASSUME NEW a \in Nat
    PROVE  \A m \in Nat : \E f : BeforeUpTo(f, a, m)
<1> DEFINE S == {m \in Nat : \E f : BeforeUpTo(f, a, m)}
<1>1. 0 \in S
    <2> DEFINE f == [n \in 0 .. 0 |-> <<>>]
    <2>1. BeforeUpTo(f, a, 0)
        BY DEF BeforeUpTo
    <2> QED BY <2>1
<1>2. ASSUME NEW m \in Nat, m \in S PROVE m + 1 \in S
    <2>1. PICK f : BeforeUpTo(f, a, m)
        BY <1>2
    <2> DEFINE g == [n \in 0 .. m + 1 |->
                        IF n <= m THEN f[n]
                        ELSE IF n <= a THEN <<>> ELSE Step(f[m], m)]
    <2>2. ASSUME NEW n \in 0 .. m + 1
          PROVE  g[n] = IF n <= a THEN <<>> ELSE Step(g[n - 1], n - 1)
        <3>1. CASE n <= m
            <4>1. n \in 0 .. m /\ g[n] = f[n]
                BY <3>1
            <4>2. f[n] = IF n <= a THEN <<>> ELSE Step(f[n - 1], n - 1)
                BY <2>1, <4>1 DEF BeforeUpTo
            <4>3. n > a => n - 1 \in 0 .. m + 1 /\ g[n - 1] = f[n - 1]
                BY <3>1
            <4> QED BY <4>1, <4>2, <4>3
        <3>2. CASE n = m + 1
            <4>1. ~(n <= m) /\ n - 1 = m /\ m \in 0 .. m + 1
                BY <3>2
            <4> QED BY <4>1
        <3> QED BY <3>1, <3>2
    <2>3. BeforeUpTo(g, a, m + 1)
        BY <2>2 DEF BeforeUpTo
    <2> QED BY <2>3
<1> HIDE DEF S
<1>3. \A m \in Nat : m \in S
    BY <1>1, <1>2, SetInduction
<1> QED BY <1>3 DEF S

(* Two initial parts agree where both are defined. *)
LEMMA PartsAgree ==
    ASSUME NEW a \in Nat, NEW m \in Nat, NEW k \in Nat, NEW f, NEW g,
           BeforeUpTo(f, a, m), BeforeUpTo(g, a, k)
    PROVE  \A n \in Nat : n <= m /\ n <= k => f[n] = g[n]
<1> DEFINE S == {n \in Nat : n <= m /\ n <= k => f[n] = g[n]}
<1>1. 0 \in S
    BY DEF BeforeUpTo
<1>2. ASSUME NEW n \in Nat, n \in S PROVE n + 1 \in S
    <2>1. CASE n + 1 <= m /\ n + 1 <= k
        <3>1. n + 1 \in 0 .. m /\ n + 1 \in 0 .. k /\ (n + 1) - 1 = n
            BY <2>1
        <3>2. f[n] = g[n]
            BY <1>2, <2>1
        <3>3. f[n + 1] = IF n + 1 <= a THEN <<>> ELSE Step(f[(n + 1) - 1], (n + 1) - 1)
            BY <3>1 DEF BeforeUpTo
        <3>4. g[n + 1] = IF n + 1 <= a THEN <<>> ELSE Step(g[(n + 1) - 1], (n + 1) - 1)
            BY <3>1 DEF BeforeUpTo
        <3> QED BY <3>1, <3>2, <3>3, <3>4
    <2> QED BY <2>1
<1> HIDE DEF S
<1>3. \A n \in Nat : n \in S
    BY <1>1, <1>2, SetInduction
<1> QED BY <1>3 DEF S

(* The function exists. *)
LEMMA BeforeExists ==
    ASSUME NEW a \in Nat
    PROVE  \E f : Before(f, a)
<1> DEFINE Part(m) == CHOOSE f : BeforeUpTo(f, a, m)
           f == [n \in Nat |-> Part(n)[n]]
<1>1. ASSUME NEW m \in Nat PROVE BeforeUpTo(Part(m), a, m)
    BY PartExists
<1>2. ASSUME NEW n \in Nat PROVE f[n] = IF n <= a THEN <<>> ELSE Step(f[n - 1], n - 1)
    <2> HIDE DEF Part
    <2>1. Part(n)[n] = IF n <= a THEN <<>> ELSE Step(Part(n)[n - 1], n - 1)
        BY <1>1 DEF BeforeUpTo
    <2>2. CASE n <= a
        BY <2>1, <2>2
    <2>3. CASE n > a
        <3>1. n - 1 \in Nat /\ n - 1 <= n
            BY <2>3
        <3>2. Part(n)[n - 1] = Part(n - 1)[n - 1]
            BY <1>1, <3>1, PartsAgree
        <3> QED BY <2>1, <2>3, <3>1, <3>2
    <2> QED BY <2>2, <2>3
<1>3. Before(f, a)
    <2>1. f = [n \in Nat |-> f[n]]
        OBVIOUS
    <2> HIDE DEF f
    <2> QED BY <1>2, <2>1 DEF Before
<1> QED BY <1>3

(* The equations of VisibleBetween: nothing before the start, and each     *)
(* record adds itself if it is visible.                                    *)
LEMMA VisibleEquations ==
    ASSUME NEW a \in Nat, NEW n \in Nat
    PROVE  /\ n <= a => VisibleBetween(a, n) = <<>>
           /\ n >= a => VisibleBetween(a, n + 1) =
                           IF Visible(n) THEN Append(VisibleBetween(a, n), n)
                           ELSE VisibleBetween(a, n)
<1> DEFINE f == CHOOSE f : Before(f, a)
<1>1. Before(f, a)
    BY BeforeExists
<1>2. \A k : VisibleBetween(a, k) = f[k]
    BY DEF VisibleBetween, Before, Step
<1> HIDE DEF f
<1>3. n <= a => f[n] = <<>>
    BY <1>1 DEF Before
<1>4. n >= a => f[n + 1] = Step(f[n], n)
    <2>1. n + 1 \in Nat /\ (n + 1) - 1 = n /\ (n >= a => ~(n + 1 <= a))
        OBVIOUS
    <2> QED BY <1>1, <2>1 DEF Before
<1> QED BY <1>2, <1>3, <1>4 DEF Step

(* The visible records are numbers within the bounds. *)
LEMMA VisibleType ==
    ASSUME NEW a \in Nat, NEW b \in Nat
    PROVE  VisibleBetween(a, b) \in Seq(Nat)
<1> DEFINE S == {n \in Nat : VisibleBetween(a, n) \in Seq(Nat)}
<1>0. \A n \in Nat : n <= a => VisibleBetween(a, n) = <<>>
    BY VisibleEquations
<1>1. ASSUME NEW n \in Nat, n <= a PROVE n \in S
    <2>1. VisibleBetween(a, n) = <<>>
        BY <1>0, <1>1
    <2>2. VisibleBetween(a, n) \in Seq(Nat)
        BY <2>1
    <2> QED BY <2>2
<1>2. ASSUME NEW n \in Nat, n \in S PROVE n + 1 \in S
    <2>1. CASE n + 1 <= a
        BY <1>1, <2>1
    <2>2. CASE n >= a
        <3>1. Append(VisibleBetween(a, n), n) \in Seq(Nat)
            BY <1>2
        <3>2. VisibleBetween(a, n + 1) \in Seq(Nat)
            BY <1>2, <2>2, <3>1, VisibleEquations
        <3> QED BY <3>2
    <2> QED BY <2>1, <2>2
<1>4. 0 \in S
    BY <1>1
<1> HIDE DEF S
<1>3. \A n \in Nat : n \in S
    BY <1>4, <1>2, SetInduction
<1> QED BY <1>3 DEF S

(* Nothing is visible between a position and itself. *)
LEMMA VisibleNone ==
    ASSUME NEW a \in Nat
    PROVE  VisibleBetween(a, a) = <<>>
BY VisibleEquations

(* The visible records of adjacent ranges follow each other. *)
LEMMA VisibleConcat ==
    ASSUME NEW a \in Nat, NEW b \in Nat, NEW c \in Nat, a <= b, b <= c
    PROVE  VisibleBetween(a, b) \o VisibleBetween(b, c) = VisibleBetween(a, c)
<1> DEFINE S == {n \in Nat : n >= b =>
                    VisibleBetween(a, b) \o VisibleBetween(b, n) = VisibleBetween(a, n)}
<1>0. /\ \A s \in Seq(Nat) : s \o <<>> = s
      /\ \A s, t \in Seq(Nat), x \in Nat : s \o Append(t, x) = Append(s \o t, x)
    OBVIOUS
<1>b. VisibleBetween(a, b) \o VisibleBetween(b, b) = VisibleBetween(a, b)
    BY <1>0, VisibleNone, VisibleType
<1>1. 0 \in S
    BY <1>b
<1>2. ASSUME NEW n \in Nat, n \in S PROVE n + 1 \in S
    <2>1. CASE n + 1 < b
        BY <2>1
    <2>2. CASE n + 1 = b
        BY <1>b, <2>2
    <2>3. CASE n >= b
        <3>1. VisibleBetween(a, b) \o VisibleBetween(b, n) = VisibleBetween(a, n)
            BY <1>2, <2>3
        <3>2. /\ VisibleBetween(b, n + 1) = IF Visible(n) THEN Append(VisibleBetween(b, n), n)
                                            ELSE VisibleBetween(b, n)
              /\ VisibleBetween(a, n + 1) = IF Visible(n) THEN Append(VisibleBetween(a, n), n)
                                            ELSE VisibleBetween(a, n)
            BY <2>3, VisibleEquations
        <3>3. VisibleBetween(a, b) \o Append(VisibleBetween(b, n), n)
                 = Append(VisibleBetween(a, b) \o VisibleBetween(b, n), n)
            BY ZenonT(60), <1>0, VisibleType
        <3>4. VisibleBetween(a, b) \o VisibleBetween(b, n + 1) = VisibleBetween(a, n + 1)
            BY <3>1, <3>2, <3>3
        <3> QED BY <3>4
    <2> QED BY <2>1, <2>2, <2>3
<1> HIDE DEF S
<1>3. \A n \in Nat : n \in S
    BY <1>1, <1>2, SetInduction
<1> QED BY <1>3 DEF S

(* The first visible record of a range: what is before it and what after. *)
LEMMA VisibleFirst ==
    ASSUME NEW a \in Nat, NEW b \in Nat, a <= b, VisibleBetween(a, b) # <<>>
    PROVE  LET h == Head(VisibleBetween(a, b))
           IN  /\ h \in Nat /\ a <= h /\ h + 1 <= b
               /\ VisibleBetween(a, h + 1) = <<h>>
               /\ Tail(VisibleBetween(a, b)) = VisibleBetween(h + 1, b)
<1> DEFINE First(h, n) == h \in Nat /\ a <= h /\ h + 1 <= n /\ VisibleBetween(a, h + 1) = <<h>>
           S == {n \in Nat : n >= a /\ VisibleBetween(a, n) # <<>> => \E h \in Nat : First(h, n)}
<1>1. 0 \in S
    BY VisibleEquations
<1>2. ASSUME NEW n \in Nat, n \in S PROVE n + 1 \in S
    <2>1. CASE n + 1 <= a
        BY <2>1, VisibleEquations
    <2>2. CASE n >= a /\ VisibleBetween(a, n) # <<>>
        <3>1. PICK h \in Nat : First(h, n)
            BY <1>2, <2>2
        <3>2. First(h, n + 1)
            BY <3>1
        <3> QED BY <3>2
    <2>3. CASE n >= a /\ VisibleBetween(a, n) = <<>>
        <3>1. CASE Visible(n)
            <4>1. VisibleBetween(a, n + 1) = Append(<<>>, n)
                BY <2>3, <3>1, VisibleEquations
            <4>2. First(n, n + 1)
                BY <2>3, <4>1
            <4> QED BY <4>2
        <3>2. CASE ~Visible(n)
            <4>1. VisibleBetween(a, n + 1) = <<>>
                BY <2>3, <3>2, VisibleEquations
            <4> QED BY <4>1
        <3> QED BY <3>1, <3>2
    <2> QED BY <2>1, <2>2, <2>3
<1>3. \A n \in Nat : n \in S
    <2> HIDE DEF S
    <2> QED BY <1>1, <1>2, SetInduction
<1>4. PICK h \in Nat : First(h, b)
    BY <1>3
<1>5. VisibleBetween(a, b) = <<h>> \o VisibleBetween(h + 1, b)
    <2>1. h + 1 \in Nat /\ a <= h + 1 /\ h + 1 <= b /\ VisibleBetween(a, h + 1) = <<h>>
        BY <1>4
    <2>2. VisibleBetween(a, h + 1) \o VisibleBetween(h + 1, b) = VisibleBetween(a, b)
        BY <2>1, VisibleConcat
    <2> QED BY <2>1, <2>2
<1>6. VisibleBetween(h + 1, b) \in Seq(Nat)
    BY VisibleType
<1>7. ASSUME NEW t \in Seq(Nat) PROVE Head(<<h>> \o t) = h /\ Tail(<<h>> \o t) = t
    <2> DEFINE s == <<h>> \o t
    <2>1. <<h>> \in Seq(Nat) /\ Len(<<h>>) = 1 /\ <<h>>[1] = h
        OBVIOUS
    <2>2. /\ s \in Seq(Nat) /\ Len(s) = 1 + Len(t) /\ Len(t) \in Nat
          /\ \A i \in 1 .. 1 + Len(t) : s[i] = IF i <= 1 THEN <<h>>[i] ELSE t[i - 1]
        BY <2>1, ConcatProperties
    <2> HIDE DEF s
    <2>3. s # <<>> /\ s[1] = h /\ \A i \in 1 .. Len(t) : s[i + 1] = t[i]
        <3>1. 1 \in 1 .. 1 + Len(t) /\ Len(s) # 0
            BY <2>2
        <3>2. ASSUME NEW i \in 1 .. Len(t) PROVE s[i + 1] = t[i]
            BY SMTT(40), <2>2
        <3> QED BY <2>1, <2>2, <3>1, <3>2
    <2>4. /\ Tail(s) \in Seq(Nat) /\ Len(Tail(s)) = Len(t)
          /\ \A i \in 1 .. Len(Tail(s)) : Tail(s)[i] = s[i + 1]
        BY <2>2, <2>3, HeadTailProperties
    <2>5. Tail(s) = t
        BY <2>3, <2>4, SeqEqual
    <2>6. Head(s) = h
        BY <2>2, <2>3
    <2> QED BY <2>5, <2>6 DEF s
<1> QED BY <1>4, <1>5, <1>6, <1>7

-----------------------------------------------------------------------------
(* Types.                                                                  *)

(* The caught-up state keeps its type, and which of its fields change. *)
LEMMA CaughtUpFields ==
    ASSUME NEW c \in CaughtUpType, NEW t \in Pos, NEW err \in Errors \cup {NoErr}
    PROVE  /\ SetCaughtUp(c, t) \in CaughtUpType
           /\ SetBehind(c) \in CaughtUpType
           /\ End(c, err) \in CaughtUpType
<1> DEFINE F == [Futures -> [is : {"none", "pending", "tail", "err"}, tail : Pos]]
<1>1. ASSUME NEW r \in [is : {"none", "pending", "tail", "err"}, tail : Pos]
      PROVE  Settled(c, r) \in F
    BY DEF Settled, CaughtUpType
<1>2. /\ [is |-> "tail", tail |-> t] \in [is : {"none", "pending", "tail", "err"}, tail : Pos]
      /\ [is |-> "err", tail |-> NoPos] \in [is : {"none", "pending", "tail", "err"}, tail : Pos]
    BY DEF Pos
<1>3. /\ Settled(c, [is |-> "tail", tail |-> t]) \in F
      /\ Settled(c, [is |-> "err", tail |-> NoPos]) \in F
    BY <1>1, <1>2
<1>4. SetCaughtUp(c, t) \in CaughtUpType
    BY <1>3 DEF SetCaughtUp, CaughtUpType
<1>5. SetBehind(c) \in CaughtUpType
    BY DEF SetBehind, CaughtUpType, Pos
<1>6. End(c, err) \in CaughtUpType
    BY <1>3 DEF End, CaughtUpType, Pos
<1> QED BY <1>4, <1>5, <1>6

(* Where the reader may be. *)
Phases == {"attempt", "reading", "sending", "consuming", "failed", "backoff", "reporting",
           "closing", "done"}

(* The updates of the reader in the loop of run keep its type. *)
LEMMA ReaderUpdates ==
    ASSUME NEW r \in ReaderType
    PROVE  \A a \in Phases :
              /\ [r EXCEPT !.at = a] \in ReaderType
              /\ \A e \in Errors : [r EXCEPT !.at = a, !.err = e] \in ReaderType
              /\ \A n \in Nat :
                    /\ [r EXCEPT !.at = a, !.before = n, !.declined = FALSE] \in ReaderType
                    /\ [r EXCEPT !.at = a, !.advised = TRUE, !.failures = n] \in ReaderType
                    /\ [r EXCEPT !.at = a, !.failures = n] \in ReaderType
              /\ \A n \in Nat, e \in Errors \cup {NoErr} :
                    /\ [r EXCEPT !.at = a, !.err = e, !.before = n] \in ReaderType
                    /\ [r EXCEPT !.at = a, !.failures = n, !.terminalErr = e] \in ReaderType
<1> SUFFICES ASSUME NEW a \in Phases, NEW e \in Errors \cup {NoErr}, NEW n \in Nat
             PROVE  /\ [r EXCEPT !.at = a] \in ReaderType
                    /\ [r EXCEPT !.at = a, !.err = e] \in ReaderType
                    /\ [r EXCEPT !.at = a, !.before = n, !.declined = FALSE] \in ReaderType
                    /\ [r EXCEPT !.at = a, !.err = e, !.before = n] \in ReaderType
                    /\ [r EXCEPT !.at = a, !.advised = TRUE, !.failures = n] \in ReaderType
                    /\ [r EXCEPT !.at = a, !.failures = n] \in ReaderType
                    /\ [r EXCEPT !.at = a, !.failures = n, !.terminalErr = e] \in ReaderType
    <2>1. NoErr \in Errors \cup {NoErr} /\ 0 \in Nat
        OBVIOUS
    <2> QED BY <2>1
<1> USE DEF Phases
<1>1. [r EXCEPT !.at = a] \in ReaderType /\ [r EXCEPT !.at = a, !.err = e] \in ReaderType
    BY DEF ReaderType
<1>2. [r EXCEPT !.at = a, !.before = n, !.declined = FALSE] \in ReaderType
    BY DEF ReaderType
<1>3. [r EXCEPT !.at = a, !.err = e, !.before = n] \in ReaderType
    BY DEF ReaderType
<1>4. [r EXCEPT !.at = a, !.advised = TRUE, !.failures = n] \in ReaderType
    BY DEF ReaderType
<1>5. [r EXCEPT !.at = a, !.failures = n] \in ReaderType
    BY DEF ReaderType
<1>6. [r EXCEPT !.at = a, !.failures = n, !.terminalErr = e] \in ReaderType
    BY DEF ReaderType
<1> QED BY <1>1, <1>2, <1>3, <1>4, <1>5, <1>6

(* After a delivery the reader reads on or follows the advice. *)
LEMMA AfterDeliveryFields ==
    ASSUME NEW r \in ReaderType, NEW frame \in Frames, NEW q \in AfterDelivery(r, frame)
    PROVE  /\ q \in ReaderType
           /\ q.at \in {"reading", "failed"}
           /\ q.frame = r.frame /\ q.nextSeq = r.nextSeq /\ q.recordsRead = r.recordsRead
           /\ q.terminalErr = r.terminalErr /\ q.consumed = r.consumed
<1>1. \/ q = [r EXCEPT !.at = "reading"]
      \/ q = [r EXCEPT !.at = "failed", !.err = "advised"]
      \/ q = [r EXCEPT !.at = "reading", !.declined = TRUE]
    BY DEF AfterDelivery
<1>2. CASE q = [r EXCEPT !.at = "reading"]
    BY <1>2 DEF ReaderType
<1>3. CASE q = [r EXCEPT !.at = "failed", !.err = "advised"]
    BY <1>3 DEF ReaderType, Errors
<1>4. CASE q = [r EXCEPT !.at = "reading", !.declined = TRUE]
    BY <1>4 DEF ReaderType
<1> QED BY <1>1, <1>2, <1>3, <1>4

(* Receiving a batch moves the position past it and counts its records. *)
LEMMA AdvanceStateFields ==
    ASSUME NEW r \in ReaderType, NEW frame \in Frames, frame.from <= frame.upto
    PROVE  LET q == AdvanceState(r, frame)
           IN  /\ q \in ReaderType
               /\ q.at = r.at /\ q.frame = r.frame
               /\ q.terminalErr = r.terminalErr /\ q.consumed = r.consumed
               /\ q.recordsRead = r.recordsRead + (frame.upto - frame.from)
               /\ q.nextSeq = IF frame.from = frame.upto THEN r.nextSeq ELSE frame.upto
<1>1. CASE frame.from = frame.upto
    BY <1>1 DEF AdvanceState, ReaderType, Frames
<1>2. CASE frame.from # frame.upto
    <2>1. r.recordsRead + (frame.upto - frame.from) \in Nat /\ frame.upto \in Pos
        BY DEF ReaderType, Frames, Pos
    <2> QED BY <1>2, <2>1 DEF AdvanceState, ReaderType
<1> QED BY <1>1, <1>2

(* A delivery that is finished, and the record that is returned next. *)
LEMMA SessionFields ==
    ASSUME NEW s \in SessionType
    PROVE  /\ Finished(s) \in SessionType
           /\ Finished(s).position = IF s.next # NoPos THEN s.next ELSE s.position
           /\ Finished(s).next = NoPos /\ Finished(s).caughtUpTail = NoPos
           /\ Finished(s).pending = s.pending /\ Finished(s).inNext = s.inNext
           /\ Finished(s).readerDone = s.readerDone /\ Finished(s).readerErr = s.readerErr
           /\ Finished(s).err = s.err /\ Finished(s).closed = s.closed
           /\ Finished(s).finished = s.finished
           /\ s.pending # <<>> =>
                 /\ Yield(s) \in SessionType
                 /\ Yield(s).position = Head(s.pending) + 1
                 /\ Yield(s).pending = Tail(s.pending)
                 /\ Yield(s).next = s.next /\ Yield(s).caughtUpTail = s.caughtUpTail
                 /\ Yield(s).inNext = s.inNext
                 /\ Yield(s).readerDone = s.readerDone /\ Yield(s).readerErr = s.readerErr
                 /\ Yield(s).err = s.err /\ Yield(s).closed = s.closed
                 /\ Yield(s).finished = s.finished
<1>1. NoPos \in Pos
    BY DEF NoPos, Pos
<1>2. CASE s.pending # <<>>
    <2>1. Head(s.pending) + 1 \in Pos /\ Tail(s.pending) \in Seq(Nat)
        BY <1>2 DEF SessionType, Pos
    <2> QED BY <1>1, <1>2, <2>1 DEF Finished, Yield, SessionType
<1>3. CASE s.pending = <<>>
    BY <1>1, <1>3 DEF Finished, SessionType
<1> QED BY <1>2, <1>3

-----------------------------------------------------------------------------
(***************************************************************************)
(* The inductive invariant.  Records travel from the response through the  *)
(* reader and the channel to Next; each part of the way begins where the   *)
(* one after it ends.                                                      *)
(***************************************************************************)

(* Where the reader is in the loop of run, and where it reads a response.  *)
Live == {"attempt", "reading", "sending", "consuming", "failed", "backoff"}
Receiving == {"reading", "sending", "consuming"}
Ending == {"closing", "done"}

(* How far the records reach that Next has taken from the channel ...      *)
Taken == IF session.next # NoPos THEN session.next
         ELSE IF session.position # NoPos THEN session.position ELSE 0

(* ... those that have been put into it ...                                *)
Sent == IF recordsCh = <<>> THEN Taken ELSE recordsCh[Len(recordsCh)].next

(* ... and those that the reader has received.                             *)
Received == IF reader.at = "sending" THEN reader.frame.upto ELSE Sent

(* b continues a: directly, unless a session that started at the tail may  *)
(* have asked for the tail again.                                          *)
Follows(a, b, gap) == a <= b /\ (~gap => a = b)

Continues(e, d) ==
    \E b \in 0 .. d.next : /\ Follows(e, b, StartAtTail)
                           /\ d.records = VisibleBetween(b, d.next)

FrameOK(f) ==
    /\ f.from <= f.upto
    /\ f.from = f.upto /\ f.tail # NoPos => f.tail = f.upto

(* What Next has returned reaches up to the position, and what is pending  *)
(* from there to the end of the delivery.                                  *)
SessionOK ==
    /\ session.pending = <<>> <=> session.next = NoPos
    /\ session.inNext => session.next = NoPos
    /\ session.next # NoPos => /\ session.position # NoPos
                               /\ session.position <= session.next
                               /\ session.pending = VisibleBetween(session.position, session.next)
    /\ session.position = NoPos => returned = <<>>
    /\ session.position # NoPos /\ ~StartAtTail =>
          returned = VisibleBetween(0, session.position)

(* The deliveries in the channel continue what Next has taken.             *)
ChannelOK ==
    \A i \in 1 .. Len(recordsCh) :
        Continues(IF i = 1 THEN Taken ELSE recordsCh[i - 1].next, recordsCh[i])

(* Nothing has moved before the first batch with a position.               *)
OriginOK ==
    /\ origin = NoPos => /\ recordsCh = <<>> /\ reader.at # "sending"
                         /\ session.next = NoPos /\ session.position = NoPos
    /\ ~StartAtTail => origin \in {NoPos, 0}

(* The next attempt asks for what follows the records received.            *)
ReaderOK ==
    /\ reader.at = "sending" =>
          /\ HasNext(reader.frame) /\ FrameOK(reader.frame)
          /\ Follows(Sent, reader.frame.from, StartAtTail)
    /\ reader.at \in Live \/ ~ctxDone =>
          IF reader.nextSeq # NoPos THEN reader.nextSeq = Received /\ origin # NoPos
          ELSE ~StartAtTail => Received = 0
    /\ reader.at \in Live => Received <= tail

(* The response continues what the reader has received.                    *)
Gap == StartAtTail /\ reader.nextSeq = NoPos

ConnOK ==
    reader.at \in Receiving =>
        /\ Len(conn.frames) <= 1 /\ conn.pos <= tail
        /\ conn.frames = <<>> /\ conn.end = "open" => Follows(Received, conn.pos, Gap)
        /\ conn.frames # <<>> => /\ FrameOK(Head(conn.frames))
                                 /\ Head(conn.frames).upto = conn.pos
                                 /\ Follows(Received, Head(conn.frames).from, Gap)

(* What was read, what is on its way and what may come is within the limit. *)
OnTheWay == IF conn.frames = <<>> THEN 0 ELSE Head(conn.frames).upto - Head(conn.frames).from

LimitOK ==
    Count # NoLimit =>
        /\ reader.recordsRead <= Count
        /\ reader.at \in Receiving =>
              conn.left \in Nat /\ reader.recordsRead + OnTheWay + conn.left <= Count

(* The reader waits for a caught-up delivery, which is therefore the last. *)
Waiting ==
    \/ reader.at = "consuming" /\ ~reader.consumed
    \/ reader.at \in {"reporting", "closing", "done"}

WaitOK ==
    /\ \A i \in 1 .. Len(recordsCh) :
          recordsCh[i].caughtUpTail # NoPos =>
              /\ i = Len(recordsCh) /\ Waiting
              /\ recordsCh[i].next = recordsCh[i].caughtUpTail
    /\ session.caughtUpTail # NoPos =>
          recordsCh = <<>> /\ session.next = session.caughtUpTail /\ Waiting

(* A session that is caught up has nothing but empty deliveries under way. *)
CaughtUpOK ==
    caughtUp.tail # NoPos /\ caughtUp.terminalErr = NoErr =>
        /\ session.next = NoPos
        /\ \A i \in 1 .. Len(recordsCh) :
              recordsCh[i].records = <<>> /\ recordsCh[i].caughtUpTail # NoPos
        /\ reader.at = "sending" =>
              /\ BatchCaughtUp(reader.frame)
              /\ VisibleBetween(reader.frame.from, reader.frame.upto) = <<>>

(* Where the error is that the reader ended with.                          *)
ErrorOK ==
    /\ recordsClosed <=> reader.at = "done"
    /\ session.finished => session.closed /\ ~session.inNext /\ reader.at = "done"
    /\ reader.at \notin Ending =>
          errorCh = <<>> /\ ~session.readerDone /\ session.readerErr = NoErr
    /\ reader.at \in Ending /\ (session.inNext \/ ~session.closed) =>
          IF session.readerDone THEN session.readerErr = reader.terminalErr /\ errorCh = <<>>
          ELSE /\ session.readerErr = NoErr
               /\ errorCh = IF reader.terminalErr = NoErr THEN <<>> ELSE <<reader.terminalErr>>

(* What held when Next reported the end.                                   *)
EndOK ==
    session.finished =>
        /\ session.err = reader.terminalErr
        /\ ~StartAtTail /\ reader.nextSeq # NoPos =>
              origin # NoPos /\ returned = VisibleBetween(0, reader.nextSeq)

ReadInv ==
    /\ TypeOK /\ SessionOK /\ ChannelOK /\ OriginOK /\ ReaderOK /\ ConnOK /\ LimitOK
    /\ WaitOK /\ CaughtUpOK /\ CaughtUpIsTrue /\ ErrorOK /\ EndOK

-----------------------------------------------------------------------------
(* Settling a delivery keeps the types; of the reader only consumed changes. *)
LEMMA SettleTypes ==
    ASSUME TypeOK, NEW s \in SessionType, Settle(s)
    PROVE  /\ session' \in SessionType
           /\ caughtUp' \in CaughtUpType
           /\ reader' \in ReaderType
           /\ reader'.at = reader.at /\ reader'.frame = reader.frame
           /\ reader'.nextSeq = reader.nextSeq /\ reader'.recordsRead = reader.recordsRead
           /\ reader'.terminalErr = reader.terminalErr
<1>1. session' \in SessionType
    BY SessionFields DEF Settle
<1>2. caughtUp' \in CaughtUpType
    <2>1. s.caughtUpTail \in Pos /\ caughtUp \in CaughtUpType
        BY DEF SessionType, TypeOK
    <2>2. SetCaughtUp(caughtUp, s.caughtUpTail) \in CaughtUpType
        BY <2>1, CaughtUpFields
    <2> QED BY <2>1, <2>2 DEF Settle
<1>3. reader' = reader \/ reader' = [reader EXCEPT !.consumed = TRUE]
    BY DEF Settle
<1> QED BY <1>1, <1>2, <1>3 DEF TypeOK, ReaderType

(* Every step keeps the types. *)
LEMMA TypeStep ==
    ASSUME TypeOK, ReaderOK, ConnOK, ErrorOK, [Next]_vars
    PROVE  TypeOK'
<1> USE ReadAssumption
<1>c. /\ conn \in Conns /\ reader \in ReaderType /\ caughtUp \in CaughtUpType
      /\ session \in SessionType
    BY DEF TypeOK
<1>p. {"attempt", "reading", "failed", "backoff", "reporting"} \subseteq Phases
    BY DEF Phases
<1>1. CASE Attempt
    <2>1. conn' \in Conns
        <3>1. CASE LimitsReached \/ conn' = conn
            BY <1>1, <1>c, <3>1 DEF Attempt
        <3>2. CASE ~LimitsReached /\ conn' = Request
            <4>1. StartPosition \in Nat
                BY <1>c DEF StartPosition, OriginalStart, TypeOK, ReaderType, Pos
            <4>2. Remaining \in Nat \cup {NoLimit}
                BY <1>c, <3>2 DEF Remaining, LimitsReached, ReaderType
            <4> QED BY <3>2, <4>1, <4>2 DEF Request, Conns
        <3> QED BY <1>1, <3>1, <3>2 DEF Attempt
    <2>2. reader' \in ReaderType
        <3>1. \/ reader' = [reader EXCEPT !.at = "reporting"]
              \/ reader' = [reader EXCEPT !.at = "reading", !.before = reader.recordsRead,
                                          !.declined = FALSE]
              \/ reader' = [reader EXCEPT !.at = "failed", !.err = "retryable",
                                          !.before = reader.recordsRead]
            BY <1>1 DEF Attempt
        <3>2. reader.recordsRead \in Nat /\ "retryable" \in Errors
            BY <1>c DEF ReaderType, Errors
        <3>3. CASE reader' = [reader EXCEPT !.at = "reporting"]
            BY <1>c, <1>p, <3>3, ReaderUpdates, Zenon
        <3>4. CASE reader' = [reader EXCEPT !.at = "reading", !.before = reader.recordsRead,
                                            !.declined = FALSE]
            BY <1>c, <1>p, <3>2, <3>4, ReaderUpdates, Zenon
        <3>5. CASE reader' = [reader EXCEPT !.at = "failed", !.err = "retryable",
                                            !.before = reader.recordsRead]
            BY <1>c, <1>p, <3>2, <3>5, ReaderUpdates, Zenon
        <3> QED BY <3>1, <3>3, <3>4, <3>5
    <2>3. faults' \in 0 .. MaxFaults
        BY <1>1 DEF Attempt, TypeOK
    <2> QED BY <1>1, <2>1, <2>2, <2>3 DEF Attempt, TypeOK
<1>2. CASE ReceiveBatch
    <2> DEFINE frame == Head(conn.frames)
               r == AdvanceState(reader, frame)
    <2>1. frame \in Frames /\ Tail(conn.frames) \in Seq(Frames) /\ frame.from <= frame.upto
        BY <1>2, <1>c DEF ReceiveBatch, Conns, ConnOK, Receiving, FrameOK
    <2>2. r \in ReaderType
        BY <1>c, <2>1, AdvanceStateFields
    <2>3. conn' \in Conns
        BY <1>2, <1>c, <2>1 DEF ReceiveBatch, Conns
    <2>4. caughtUp' \in CaughtUpType
        <3>1. caughtUp' = SetBehind(caughtUp) \/ caughtUp' = caughtUp
            BY <1>2 DEF ReceiveBatch, Behind
        <3>2. NoPos \in Pos
            BY DEF Pos
        <3> QED BY <1>c, <3>1, <3>2, CaughtUpFields
    <2>5. reader' \in ReaderType
        <3>1. \/ reader' = [r EXCEPT !.at = "sending", !.frame = frame]
              \/ reader' \in AfterDelivery(r, frame)
            BY <1>2 DEF ReceiveBatch
        <3> HIDE DEF r, frame
        <3>2. CASE reader' = [r EXCEPT !.at = "sending", !.frame = frame]
            BY <2>1, <2>2, <3>2 DEF ReaderType
        <3> QED BY <2>1, <2>2, <3>1, <3>2, AfterDeliveryFields
    <2>6. origin' \in Pos
        BY <1>2, <2>1 DEF ReceiveBatch, TypeOK, Frames, Pos
    <2> QED BY <1>2, <2>3, <2>4, <2>5, <2>6 DEF ReceiveBatch, TypeOK
<1>3. CASE SendDelivery
    <2> DEFINE frame == reader.frame
               d == [records |-> VisibleBetween(frame.from, frame.upto), next |-> NextOf(frame),
                     caughtUpTail |-> IF BatchCaughtUp(frame) THEN frame.tail ELSE NoPos]
    <2>1. frame \in Frames
        BY <1>c DEF ReaderType
    <2>2. d \in Deliveries
        <3>1. VisibleBetween(frame.from, frame.upto) \in Seq(Nat)
            BY <2>1, VisibleType DEF Frames
        <3>2. NextOf(frame) \in Nat
            BY <1>3, <2>1 DEF SendDelivery, ReaderOK, HasNext, NextOf, Frames, Pos
        <3>3. (IF BatchCaughtUp(frame) THEN frame.tail ELSE NoPos) \in Pos
            BY <2>1 DEF Frames, Pos
        <3> QED BY <3>1, <3>2, <3>3 DEF Deliveries
    <2>3. recordsCh' = Append(recordsCh, d) /\ Len(recordsCh) < BatchesBuffer
        BY <1>3 DEF SendDelivery
    <2>4. recordsCh' \in Seq(Deliveries) /\ Len(recordsCh') <= BatchesBuffer
        <3> HIDE DEF d
        <3> QED BY <2>2, <2>3 DEF TypeOK
    <2>5. reader' \in ReaderType
        <3>1. \/ reader' = [reader EXCEPT !.at = "consuming", !.consumed = FALSE]
              \/ reader' \in AfterDelivery([reader EXCEPT !.frame = NoFrame], frame)
            BY <1>3 DEF SendDelivery
        <3>2. [reader EXCEPT !.frame = NoFrame] \in ReaderType
            BY <1>c DEF ReaderType, NoFrame, Frames, Pos
        <3>3. CASE reader' = [reader EXCEPT !.at = "consuming", !.consumed = FALSE]
            BY <1>c, <3>3 DEF ReaderType
        <3> QED BY <2>1, <3>1, <3>2, <3>3, AfterDeliveryFields
    <2> QED BY <1>3, <2>4, <2>5 DEF SendDelivery, TypeOK
<1>4. CASE Consumed
    <2>1. [reader EXCEPT !.frame = NoFrame] \in ReaderType /\ reader.frame \in Frames
        BY <1>c DEF ReaderType, NoFrame, Frames, Pos
    <2>2. reader' \in ReaderType
        BY <1>4, <2>1, AfterDeliveryFields DEF Consumed
    <2> QED BY <1>4, <2>2 DEF Consumed, TypeOK
<1>5. CASE ResponseEnds
    <2>1. \/ reader' = [reader EXCEPT !.at = "reporting"]
          \/ reader' = [reader EXCEPT !.at = "failed", !.err = conn.end] /\ conn.end \in Errors
        BY <1>5, <1>c DEF ResponseEnds, IsExpectedFrameReadError, Conns, Fail
    <2>2. reader' \in ReaderType
        <3>1. CASE reader' = [reader EXCEPT !.at = "reporting"]
            BY <1>c, <1>p, <3>1, ReaderUpdates, Zenon
        <3>2. CASE reader' = [reader EXCEPT !.at = "failed", !.err = conn.end] /\ conn.end \in Errors
            BY <1>c, <1>p, <3>2, ReaderUpdates, Zenon
        <3> QED BY <2>1, <3>1, <3>2
    <2> QED BY <1>5, <2>2 DEF ResponseEnds, TypeOK
<1>6. CASE Watchdog
    <2>1. reader' = [reader EXCEPT !.at = "failed", !.err = "retryable"]
        BY <1>6 DEF Watchdog, Fail
    <2>2. reader' \in ReaderType
        BY <1>c, <2>1, ReaderUpdates DEF Phases, Errors
    <2>3. faults' \in 0 .. MaxFaults
        BY <1>6 DEF Watchdog, TypeOK
    <2> QED BY <1>6, <2>2, <2>3 DEF Watchdog, TypeOK
<1>7. CASE Cancelled \/ Backoff \/ CloseChannels
    <2>1. reader' \in ReaderType
        BY <1>7, <1>c DEF Cancelled, Backoff, CloseChannels, ReaderType
    <2> QED BY <1>7, <2>1 DEF Cancelled, Backoff, CloseChannels, TypeOK
<1>8. CASE HandleError
    <2>1. reader.err \in Errors \cup {NoErr} /\ NoPos \in Pos
        BY <1>c DEF ReaderType, Pos
    <2>2. caughtUp' \in CaughtUpType
        <3>1. \/ caughtUp' = caughtUp \/ caughtUp' = SetBehind(caughtUp)
              \/ caughtUp' = End(caughtUp, reader.err)
            BY <1>8 DEF HandleError
        <3> QED BY <1>c, <2>1, <3>1, CaughtUpFields
    <2>3. (IF Progressed THEN 0 ELSE reader.failures + 1) \in Nat
        BY <1>c DEF ReaderType
    <2>4. reader' \in ReaderType
        <3> DEFINE n == IF Progressed THEN 0 ELSE reader.failures + 1
                   m == IF Progressed THEN 0 ELSE reader.failures
        <3>1. \/ reader' = [reader EXCEPT !.at = "reporting"]
              \/ reader' = [reader EXCEPT !.at = "attempt", !.advised = TRUE, !.failures = m]
              \/ reader' = [reader EXCEPT !.at = "reporting", !.failures = n,
                                          !.terminalErr = reader.err]
              \/ reader' = [reader EXCEPT !.at = "backoff", !.failures = n]
            BY <1>8 DEF HandleError
        <3>2. n \in Nat /\ m \in Nat
            BY <1>c DEF ReaderType
        <3> HIDE DEF n, m
        <3>3. CASE reader' = [reader EXCEPT !.at = "reporting"]
            BY <1>c, <1>p, <3>3, ReaderUpdates, Zenon
        <3>4. CASE reader' = [reader EXCEPT !.at = "attempt", !.advised = TRUE, !.failures = m]
            BY <1>c, <1>p, <3>2, <3>4, ReaderUpdates, Zenon
        <3>5. CASE reader' = [reader EXCEPT !.at = "reporting", !.failures = n,
                                            !.terminalErr = reader.err]
            BY <1>c, <1>p, <2>1, <3>2, <3>5, ReaderUpdates, Zenon
        <3>6. CASE reader' = [reader EXCEPT !.at = "backoff", !.failures = n]
            BY <1>c, <1>p, <3>2, <3>6, ReaderUpdates, Zenon
        <3> QED BY <3>1, <3>3, <3>4, <3>5, <3>6
    <2> QED BY <1>8, <2>2, <2>4 DEF HandleError, TypeOK
<1>9. CASE Report
    <2>1. reader.terminalErr \in Errors \cup {NoErr} /\ NoPos \in Pos
        BY <1>c DEF ReaderType, Pos
    <2>2. caughtUp' \in CaughtUpType
        BY <1>9, <1>c, <2>1, CaughtUpFields DEF Report
    <2>3. reader' \in ReaderType
        BY <1>9, <1>c DEF Report, ReaderType
    <2>4. errorCh' \in Seq(Errors) /\ Len(errorCh') <= 1
        <3>1. errorCh = <<>>
            BY <1>9 DEF Report, ErrorOK, Ending
        <3> QED BY <1>9, <2>1, <3>1 DEF Report, TypeOK
    <2> QED BY <1>9, <2>2, <2>3, <2>4 DEF Report, TypeOK
<1>10. CASE NextCalled
    <2>1. CASE session.pending # <<>>
        <3>1. Yield(session) \in SessionType /\ Head(session.pending) \in Nat
            BY <1>c, <2>1, SessionFields DEF SessionType
        <3>2. Settle(Yield(session)) /\ returned' = Append(returned, Head(session.pending))
            BY <1>10, <2>1 DEF NextCalled
        <3>3. returned' \in Seq(Nat)
            BY <3>1, <3>2 DEF TypeOK
        <3> QED BY <1>10, <3>1, <3>2, <3>3, SettleTypes DEF NextCalled, TypeOK
    <2>2. CASE session.pending = <<>>
        <3>1. session' \in SessionType
            BY <1>10, <1>c, <2>2 DEF NextCalled, SessionType
        <3> QED BY <1>10, <2>2, <3>1 DEF NextCalled, TypeOK
    <2> QED BY <2>1, <2>2
<1>11. CASE NextReceives
    <2> DEFINE d == Head(recordsCh)
               s == [session EXCEPT !.pending = d.records, !.caughtUpTail = d.caughtUpTail,
                                    !.next = d.next]
               t == [s EXCEPT !.inNext = FALSE]
    <2>1. d \in Deliveries /\ recordsCh' \in Seq(Deliveries) /\ Len(recordsCh') <= BatchesBuffer
        BY <1>11 DEF NextReceives, TypeOK
    <2>2. s \in SessionType /\ t \in SessionType /\ t.pending = d.records
        BY <1>c, <2>1 DEF SessionType, Deliveries, Pos
    <2>3. /\ d.records = <<>> => Settle(s) /\ returned' = returned
          /\ d.records # <<>> => Settle(Yield(t)) /\ returned' = Append(returned, Head(d.records))
        BY <1>11 DEF NextReceives
    <2>4. d.records # <<>> => Head(d.records) \in Nat
        BY <2>1 DEF Deliveries
    <2>r. /\ d.records = <<>> => returned' = returned
          /\ d.records # <<>> => returned' = Append(returned, Head(d.records))
        BY <2>3
    <2> HIDE DEF d, s, t
    <2>5. returned' \in Seq(Nat)
        <3>1. returned \in Seq(Nat)
            BY DEF TypeOK
        <3>2. CASE d.records = <<>>
            BY <2>r, <3>1, <3>2
        <3>3. CASE d.records # <<>>
            <4>1. \A x \in Nat : Append(returned, x) \in Seq(Nat)
                BY <3>1
            <4> QED BY <2>r, <2>4, <3>3, <4>1
        <3> QED BY <3>2, <3>3
    <2>6. \E q \in SessionType : Settle(q)
        BY <2>2, <2>3, SessionFields
    <2> QED BY <1>11, <2>1, <2>5, <2>6, SettleTypes DEF NextReceives, TypeOK
<1>12. CASE NextSeesError
    <2>1. errorCh # <<>> => Head(errorCh) \in Errors
        BY DEF TypeOK
    <2>2. session' \in SessionType
        BY <1>12, <1>c, <2>1 DEF NextSeesError, SessionType
    <2>3. errorCh' \in Seq(Errors) /\ Len(errorCh') <= 1
        BY <1>12 DEF NextSeesError
    <2> QED BY <1>12, <2>2, <2>3 DEF NextSeesError, TypeOK
<1>13. CASE NextEnds
    <2> DEFINE err == IF ~ session.readerDone /\ errorCh # <<>> THEN Head(errorCh)
                      ELSE session.readerErr
               s == [session EXCEPT !.readerErr = err, !.err = err, !.inNext = FALSE,
                                    !.finished = ~ ctxDone]
    <2>1. err \in Errors \cup {NoErr}
        BY <1>c DEF TypeOK, SessionType
    <2>2. ClosedSession(s) /\ errorCh' = <<>>
        BY <1>13 DEF NextEnds
    <2>3. session' \in SessionType
        <3> HIDE DEF err
        <3> QED BY <1>c, <2>1, <2>2 DEF ClosedSession, SessionType
    <2>4. caughtUp' \in CaughtUpType /\ ctxDone' = TRUE
        <3>1. caughtUp' = caughtUp \/ caughtUp' = End(caughtUp, NoErr)
            BY <2>2 DEF ClosedSession
        <3>2. NoPos \in Pos /\ ctxDone' = TRUE
            BY <2>2 DEF Pos, ClosedSession
        <3> QED BY <1>c, <3>1, <3>2, CaughtUpFields
    <2>5. errorCh' \in Seq(Errors) /\ Len(errorCh') <= 1
        BY <2>2
    <2> QED BY <1>13, <2>3, <2>4, <2>5 DEF NextEnds, TypeOK
<1>14. CASE Close
    <2>1. session' \in SessionType /\ ctxDone' = TRUE
        BY <1>14, <1>c DEF Close, ClosedSession, SessionType
    <2>2. caughtUp' \in CaughtUpType
        <3>1. caughtUp' = caughtUp \/ caughtUp' = End(caughtUp, NoErr)
            BY <1>14 DEF Close, ClosedSession
        <3>2. NoPos \in Pos
            BY DEF Pos
        <3> QED BY <1>c, <3>1, <3>2, CaughtUpFields
    <2> QED BY <1>14, <2>1, <2>2 DEF Close, TypeOK
<1>15. CASE CancelContext \/ AppendRecord
    <2>1. tail' \in 0 .. MaxTail
        BY <1>15 DEF CancelContext, AppendRecord, TypeOK
    <2>2. {recordsClosed', ctxDone'} \subseteq BOOLEAN
        BY <1>15 DEF CancelContext, AppendRecord, TypeOK
    <2> QED BY <1>15, <2>1, <2>2 DEF CancelContext, AppendRecord, TypeOK
<1>16. ASSUME NEW f \in Futures, NewFuture(f) PROVE TypeOK'
    <2> DEFINE R == [is : {"none", "pending", "tail", "err"}, tail : Pos]
    <2>1. PICK r \in R : caughtUp' = [caughtUp EXCEPT !.future = [@ EXCEPT ![f] = r]]
        <3>1. /\ [is |-> "tail", tail |-> caughtUp.tail] \in R
              /\ [is |-> "err", tail |-> NoPos] \in R /\ [is |-> "pending", tail |-> NoPos] \in R
            BY <1>c DEF CaughtUpType, Pos
        <3> HIDE DEF R
        <3>2. CASE caughtUp.tail # NoPos
            BY <1>16, <3>1, <3>2 DEF NewFuture
        <3>3. CASE caughtUp.tail = NoPos /\ caughtUp.terminalErr # NoErr
            BY <1>16, <3>1, <3>3 DEF NewFuture
        <3>4. CASE caughtUp.tail = NoPos /\ caughtUp.terminalErr = NoErr
            BY <1>16, <3>1, <3>4 DEF NewFuture
        <3> QED BY <3>2, <3>3, <3>4
    <2>2. caughtUp' \in CaughtUpType
        BY <1>c, <2>1 DEF CaughtUpType
    <2> QED BY <1>16, <2>2 DEF NewFuture, TypeOK
<1>17. ASSUME NEW n \in 0 .. BatchSize, NEW withTail \in BOOLEAN, NEW advised \in BOOLEAN,
              SendBatch(n, withTail, advised)
       PROVE  TypeOK'
    <2> DEFINE f == [from |-> conn.pos, upto |-> conn.pos + n,
                     tail |-> IF withTail THEN tail ELSE NoPos, advised |-> advised]
               left == IF conn.left = NoLimit THEN conn.left ELSE conn.left - n
    <2>1. n \in Nat /\ conn.pos \in Nat /\ conn.pos + n \in Nat
        BY <1>c DEF Conns
    <2>2. f \in Frames
        BY <2>1 DEF Frames, Pos, TypeOK
    <2>3. left \in Nat \cup {NoLimit}
        BY <1>17, <1>c, <2>1 DEF SendBatch, Conns
    <2>4. conn' = [conn EXCEPT !.pos = conn.pos + n, !.left = left, !.frames = <<f>>]
        BY <1>17 DEF SendBatch
    <2> HIDE DEF f, left
    <2>5. <<f>> \in Seq(Frames)
        BY <2>2
    <2>6. conn' \in Conns
        BY <1>c, <2>1, <2>3, <2>4, <2>5 DEF Conns
    <2>7. faults' \in 0 .. MaxFaults
        BY <1>17 DEF SendBatch, TypeOK
    <2> QED BY <1>17, <2>6, <2>7 DEF SendBatch, TypeOK
<1>18. CASE ServerFinishes
    <2>1. conn' \in Conns
        BY <1>18, <1>c DEF ServerFinishes, Conns
    <2> QED BY <1>18, <2>1 DEF ServerFinishes, TypeOK
<1>19. ASSUME NEW err \in ServerErrors, ServerEnds(err) PROVE TypeOK'
    <2>1. err \in {"open", "ok", "eof"} \cup Errors
        BY DEF Errors
    <2>2. conn' \in Conns
        BY <1>19, <1>c, <2>1 DEF ServerEnds, Conns
    <2>3. faults' \in 0 .. MaxFaults
        BY <1>19 DEF ServerEnds, TypeOK
    <2> QED BY <1>19, <2>2, <2>3 DEF ServerEnds, TypeOK
<1>20. CASE Break
    <2>1. <<>> \in Seq(Frames)
        OBVIOUS
    <2>2. conn' \in Conns
        BY <1>20, <1>c, <2>1 DEF Break, Conns, Errors
    <2>3. faults' \in 0 .. MaxFaults
        BY <1>20 DEF Break, TypeOK
    <2> QED BY <1>20, <2>2, <2>3 DEF Break, TypeOK
<1>21. CASE UNCHANGED vars
    BY <1>21 DEF vars, TypeOK
<1>22. ASSUME NEW n \in 1 .. BatchSize, SendBatch(n, TRUE, FALSE) PROVE TypeOK'
    <2>1. n \in 0 .. BatchSize
        OBVIOUS
    <2> QED BY <1>17, <1>22, <2>1
<1> QED BY <1>1, <1>2, <1>3, <1>4, <1>5, <1>6, <1>7, <1>8, <1>9, <1>10, <1>11, <1>12, <1>13, <1>14,
           <1>15, <1>16, <1>17, <1>18, <1>19, <1>20, <1>21, <1>22
        DEF Next, ReaderStep, NextStep, ServerStep

-----------------------------------------------------------------------------
(* The reader's control: steps of run that move no records.                *)

(* A caught-up state that claims no more than another one. *)
ClaimsNoMore(d, c) ==
    /\ d.tail # NoPos => d.tail = c.tail
    /\ d.terminalErr = NoErr => c.terminalErr = NoErr
    /\ \A f \in Futures : d.future[f].is = "tail" => d.future[f] = c.future[f]

(* Falling behind and ending take claims back. *)
LEMMA ClaimsTakenBack ==
    ASSUME NEW c \in CaughtUpType, NEW err \in Errors \cup {NoErr}
    PROVE  /\ ClaimsNoMore(c, c)
           /\ ClaimsNoMore(SetBehind(c), c)
           /\ c.terminalErr = NoErr => SetBehind(c).tail = NoPos
           /\ ClaimsNoMore(End(c, err), c)
           /\ End(c, err).terminalErr # NoErr
<1>1. ClaimsNoMore(c, c)
    BY DEF ClaimsNoMore
<1>2. ClaimsNoMore(SetBehind(c), c) /\ (c.terminalErr = NoErr => SetBehind(c).tail = NoPos)
    BY DEF ClaimsNoMore, SetBehind, CaughtUpType
<1>3. CASE c.terminalErr # NoErr
    BY <1>1, <1>2, <1>3 DEF End
<1>4. CASE c.terminalErr = NoErr
    <2>1. /\ End(c, err).tail = IF err = NoErr THEN c.tail ELSE NoPos
          /\ End(c, err).terminalErr = IF err = NoErr THEN ErrSessionClosed ELSE err
          /\ End(c, err).future = Settled(c, [is |-> "err", tail |-> NoPos])
        BY <1>4 DEF End, CaughtUpType
    <2>2. End(c, err).terminalErr # NoErr
        BY <2>1 DEF NoErr, ErrSessionClosed
    <2>3. ASSUME NEW f \in Futures, End(c, err).future[f].is = "tail"
          PROVE  End(c, err).future[f] = c.future[f]
        BY <2>1, <2>3 DEF Settled
    <2> QED BY <1>1, <1>2, <2>1, <2>2, <2>3 DEF ClaimsNoMore
<1> QED BY <1>3, <1>4

(* The caught-up state stays true when it claims no more than before and   *)
(* no records have moved.                                                  *)
LEMMA ClaimsStayTrue ==
    ASSUME TypeOK, CaughtUpIsTrue, ClaimsNoMore(caughtUp', caughtUp),
           session'.pending = session.pending, session'.position = session.position
    PROVE  CaughtUpIsTrue'
<1>0. session.position \in Int
    BY DEF TypeOK, SessionType, Pos, NoPos
<1>2. ASSUME IsCaughtUp'
      PROVE  IF caughtUp'.terminalErr = NoErr
             THEN NextReadPosition' = caughtUp'.tail /\ session'.pending = <<>>
             ELSE NextReadPosition' >= caughtUp'.tail
    <2>1. caughtUp'.tail = caughtUp.tail /\ caughtUp.tail # NoPos
        BY <1>2 DEF IsCaughtUp, ClaimsNoMore
    <2>2. session.position >= caughtUp.tail
        BY <1>0, <2>1 DEF CaughtUpIsTrue, IsCaughtUp, NextReadPosition
    <2> QED BY <2>1, <2>2 DEF CaughtUpIsTrue, IsCaughtUp, NextReadPosition, ClaimsNoMore
<1>3. ASSUME NEW f \in Futures, caughtUp'.future[f].is = "tail"
      PROVE  caughtUp'.future[f].tail <= NextReadPosition'
    BY <1>3 DEF CaughtUpIsTrue, NextReadPosition, ClaimsNoMore
<1> QED BY <1>2, <1>3 DEF CaughtUpIsTrue

(* So it does together with what is under way. *)
LEMMA CaughtUpKept ==
    ASSUME TypeOK, CaughtUpOK, CaughtUpIsTrue, ClaimsNoMore(caughtUp', caughtUp),
           UNCHANGED recordsCh, session'.next = session.next, session'.pending = session.pending,
           session'.position = session.position,
           reader'.at = "sending" => reader.at = "sending" /\ reader'.frame = reader.frame
    PROVE  CaughtUpOK' /\ CaughtUpIsTrue'
<1>1. CaughtUpOK'
    BY DEF CaughtUpOK, ClaimsNoMore, BatchCaughtUp
<1> QED BY <1>1, ClaimsStayTrue

(* What the steps of run that move no records have in common. *)
Control ==
    \/ Attempt \/ Consumed \/ ResponseEnds \/ Watchdog \/ Cancelled \/ HandleError \/ Backoff
    \/ Report \/ CloseChannels

ControlEffect ==
    /\ UNCHANGED <<tail, recordsCh, session, returned, origin, ctxDone>>
    /\ reader'.nextSeq = reader.nextSeq /\ reader'.recordsRead = reader.recordsRead
    /\ reader'.at # "sending" /\ reader.at # "done"
    /\ reader'.at \in Live => reader.at \in Live \ {"sending"}
    /\ reader.at = "sending" => ctxDone
    /\ reader.at \in {"reporting", "closing"} => reader'.at \in Ending
    /\ reader'.at \in Receiving => Attempt \/ (reader.at \in Receiving /\ conn' = conn)
    /\ reader.at = "consuming" /\ ~reader.consumed => reader'.at = "reporting"
    /\ ClaimsNoMore(caughtUp', caughtUp)

(* They have these effects. *)
LEMMA ControlEffects ==
    ASSUME TypeOK, Control
    PROVE  ControlEffect
<1>c. reader \in ReaderType /\ caughtUp \in CaughtUpType
      /\ reader.err \in Errors \cup {NoErr} /\ reader.terminalErr \in Errors \cup {NoErr}
    BY DEF TypeOK, ReaderType
<1>0. /\ ClaimsNoMore(caughtUp, caughtUp) /\ ClaimsNoMore(SetBehind(caughtUp), caughtUp)
      /\ ClaimsNoMore(End(caughtUp, reader.err), caughtUp)
      /\ ClaimsNoMore(End(caughtUp, reader.terminalErr), caughtUp)
    BY <1>c, ClaimsTakenBack
<1> USE DEF ControlEffect, Live, Receiving, Ending
<1>1. CASE Attempt
    BY <1>c, <1>0, <1>1 DEF Attempt, ReaderType
<1>2. CASE Consumed
    <2>1. [reader EXCEPT !.frame = NoFrame] \in ReaderType /\ reader.frame \in Frames
        BY <1>c DEF ReaderType, NoFrame, Frames, Pos
    <2>2. /\ [reader EXCEPT !.frame = NoFrame].nextSeq = reader.nextSeq
          /\ [reader EXCEPT !.frame = NoFrame].recordsRead = reader.recordsRead
        BY <1>c DEF ReaderType
    <2>3. /\ reader'.at \in {"reading", "failed"} /\ reader'.nextSeq = reader.nextSeq
          /\ reader'.recordsRead = reader.recordsRead
        BY <1>2, <2>1, <2>2, AfterDeliveryFields DEF Consumed
    <2> QED BY <1>0, <1>2, <2>3 DEF Consumed
<1>3. CASE ResponseEnds
    BY <1>c, <1>0, <1>3 DEF ResponseEnds, Fail, ReaderType
<1>4. CASE Watchdog
    BY <1>c, <1>0, <1>4 DEF Watchdog, Fail, ReaderType
<1>5. CASE Cancelled
    BY <1>c, <1>0, <1>5 DEF Cancelled, ReaderType
<1>6. CASE HandleError
    BY <1>c, <1>0, <1>6 DEF HandleError, ReaderType
<1>7. CASE Backoff
    BY <1>c, <1>0, <1>7 DEF Backoff, ReaderType
<1>8. CASE Report
    BY <1>c, <1>0, <1>8 DEF Report, ReaderType
<1>9. CASE CloseChannels
    BY <1>c, <1>0, <1>9 DEF CloseChannels, ReaderType
<1> QED BY <1>1, <1>2, <1>3, <1>4, <1>5, <1>6, <1>7, <1>8, <1>9 DEF Control

(* The steps of the reader's control keep the invariant. *)
LEMMA ControlStep ==
    ASSUME ReadInv, TypeOK', Control
    PROVE  ReadInv'
<1>c. /\ TypeOK /\ SessionOK /\ ChannelOK /\ OriginOK /\ ReaderOK /\ ConnOK /\ LimitOK
      /\ WaitOK /\ CaughtUpOK /\ CaughtUpIsTrue /\ ErrorOK /\ EndOK
    BY DEF ReadInv
<1>e. ControlEffect
    BY <1>c, ControlEffects
<1>t. /\ reader \in ReaderType /\ conn \in Conns /\ tail \in Nat
      /\ reader.nextSeq \in Pos /\ reader.recordsRead \in Nat
    BY <1>c, ReadAssumption DEF TypeOK, ReaderType
<1>s. Taken' = Taken /\ Sent' = Sent /\ Received' = Sent
    BY <1>e DEF ControlEffect, Taken, Sent, Received
<1>r. reader'.at \in Live \/ ~ctxDone => Received = Sent /\ (reader.at \in Live \/ ~ctxDone)
    BY <1>e DEF ControlEffect, Received
<1>1. SessionOK'
    BY <1>c, <1>e DEF ControlEffect, SessionOK
<1>2. ChannelOK'
    BY <1>c, <1>e, <1>s DEF ControlEffect, ChannelOK
<1>3. OriginOK'
    BY <1>c, <1>e DEF ControlEffect, OriginOK
<1>4. ReaderOK'
    BY <1>c, <1>e, <1>r, <1>s DEF ControlEffect, ReaderOK
<1>5. ConnOK' /\ LimitOK'
    <2>1. CASE Attempt /\ reader'.at \in Receiving
        <3>1. reader.at = "attempt" /\ ~LimitsReached /\ conn' = Request
            BY <1>t, <2>1 DEF Attempt, Receiving, ReaderType
        <3>2. /\ conn'.pos = StartPosition /\ conn'.left = Remaining /\ conn'.frames = <<>>
              /\ conn'.end = "open"
            <4>1. Remaining # 0
                BY <1>t, <3>1, ReadAssumption DEF Remaining, LimitsReached
            <4> QED BY <3>1, <4>1 DEF Request
        <3>3. Received <= tail /\ Received = Sent /\ reader.at \in Live
            BY <1>c, <1>r, <3>1 DEF ReaderOK, Live, Received
        <3>4. Follows(Sent, StartPosition, Gap) /\ StartPosition <= tail
            BY <1>c, <1>t, <3>3 DEF ReaderOK, StartPosition, OriginalStart, Follows, Gap, NoPos, Pos
        <3>5. Gap' = Gap /\ tail' = tail /\ reader'.recordsRead = reader.recordsRead
            BY <1>e DEF ControlEffect, Gap
        <3>6. ConnOK'
            <4>1. Len(conn'.frames) = 0
                BY <3>2
            <4> QED BY <1>s, <3>2, <3>4, <3>5, <4>1 DEF ConnOK
        <3>7. Count # NoLimit => Remaining \in Nat /\ reader.recordsRead + Remaining <= Count
            BY <1>t, <3>1, ReadAssumption DEF Remaining, LimitsReached
        <3>8. OnTheWay' = 0
            BY <3>2 DEF OnTheWay
        <3> QED BY <1>c, <1>t, <3>2, <3>5, <3>6, <3>7, <3>8 DEF LimitOK
    <2>2. CASE reader.at \in Receiving /\ conn' = conn /\ reader'.at \in Receiving
        <3>1. Received' = Received /\ Gap' = Gap /\ OnTheWay' = OnTheWay
            BY <1>e, <1>r, <1>s, <2>2 DEF ControlEffect, Gap, OnTheWay, Receiving, Live
        <3> QED BY <1>c, <1>e, <2>2, <3>1 DEF ControlEffect, ConnOK, LimitOK
    <2>3. CASE reader'.at \notin Receiving
        BY <1>c, <1>e, <2>3 DEF ControlEffect, ConnOK, LimitOK
    <2> QED BY <1>e, <2>1, <2>2, <2>3 DEF ControlEffect
<1>6. WaitOK'
    <2>1. Waiting => Waiting'
        BY <1>e DEF ControlEffect, Waiting, Ending
    <2> QED BY <1>c, <1>e, <2>1 DEF ControlEffect, WaitOK
<1>7. CaughtUpOK' /\ CaughtUpIsTrue'
    BY <1>c, <1>e, CaughtUpKept DEF ControlEffect
<1>8. ErrorOK' /\ EndOK'
    <2>f. ~session.finished /\ session' = session /\ ~recordsClosed
        BY <1>c, <1>e DEF ControlEffect, ErrorOK
    <2>1. CASE ~Report /\ ~CloseChannels
        <3>1. UNCHANGED <<errorCh, recordsClosed>>
            BY <2>1 DEF Control, Attempt, Consumed, ResponseEnds, Watchdog, Cancelled, HandleError,
                        Backoff
        <3>2. reader.at \notin Ending
            BY <1>c, <2>1 DEF Control, Attempt, Consumed, ResponseEnds, Watchdog, Cancelled,
                        HandleError, Backoff, Ending
        <3>3. reader'.at \notin Ending
            <4>1. CASE Consumed
                <5>1. [reader EXCEPT !.frame = NoFrame] \in ReaderType /\ reader.frame \in Frames
                    BY <1>t DEF ReaderType, NoFrame, Frames, Pos
                <5> QED BY <4>1, <5>1, AfterDeliveryFields DEF Consumed, Ending
            <4>2. CASE ~Consumed
                BY <1>t, <2>1, <4>2 DEF Control, Attempt, ResponseEnds, Watchdog, Cancelled,
                        HandleError, Backoff, Fail, Ending, ReaderType
            <4> QED BY <4>1, <4>2
        <3> QED BY <1>c, <2>f, <3>1, <3>2, <3>3 DEF ErrorOK, EndOK, Ending
    <2>2. CASE Report
        <3>1. /\ reader.at = "reporting" /\ reader'.at = "closing"
              /\ reader'.terminalErr = reader.terminalErr /\ recordsClosed' = recordsClosed
            BY <1>t, <2>2 DEF Report, ReaderType
        <3>2. errorCh = <<>> /\ ~session.readerDone /\ session.readerErr = NoErr
            BY <1>c, <3>1 DEF ErrorOK, Ending
        <3>3. errorCh' = IF reader.terminalErr = NoErr THEN <<>> ELSE <<reader.terminalErr>>
            BY <2>2, <3>2 DEF Report
        <3> QED BY <1>c, <2>f, <3>1, <3>2, <3>3 DEF ErrorOK, EndOK, Ending
    <2>3. CASE CloseChannels
        <3>1. /\ reader.at = "closing" /\ reader'.at = "done" /\ errorCh' = errorCh
              /\ reader'.terminalErr = reader.terminalErr /\ recordsClosed' = TRUE
            BY <1>t, <2>3 DEF CloseChannels, ReaderType
        <3> QED BY <1>c, <2>f, <3>1 DEF ErrorOK, EndOK, Ending
    <2> QED BY <2>1, <2>2, <2>3
<1> QED BY <1>1, <1>2, <1>3, <1>4, <1>5, <1>6, <1>7, <1>8 DEF ReadInv

-----------------------------------------------------------------------------
(* The reader receives a batch and sends it to the channel.                *)

(* The first element of a sequence, and what is left of a single one. *)
LEMMA FirstOf ==
    ASSUME NEW S, NEW s \in Seq(S), s # <<>>
    PROVE  Head(s) \in S /\ Len(s) \in Nat /\ Len(s) >= 1 /\ (Len(s) <= 1 => Tail(s) = <<>>)
<1>1. Head(s) \in S /\ Len(s) \in Nat /\ Len(s) >= 1 /\ Tail(s) \in Seq(S)
    OBVIOUS
<1>2. Len(s) = 1 => Len(Tail(s)) = 0
    OBVIOUS
<1>3. \A t \in Seq(S) : Len(t) = 0 => t = <<>>
    OBVIOUS
<1> QED BY <1>1, <1>2, <1>3

(* Receiving a batch keeps the invariant. *)
LEMMA ReceiveStep ==
    ASSUME ReadInv, TypeOK', ReceiveBatch
    PROVE  ReadInv'
<1> DEFINE f == Head(conn.frames)
           r == AdvanceState(reader, f)
<1>c. /\ TypeOK /\ SessionOK /\ ChannelOK /\ OriginOK /\ ReaderOK /\ ConnOK /\ LimitOK
      /\ WaitOK /\ CaughtUpOK /\ CaughtUpIsTrue /\ ErrorOK /\ EndOK
    BY DEF ReadInv
<1>a. /\ reader.at = "reading" /\ conn.frames # <<>>
      /\ conn' = [conn EXCEPT !.frames = Tail(conn.frames)]
      /\ caughtUp' = Behind(caughtUp, f)
      /\ reader' \in IF HasNext(f) THEN {[r EXCEPT !.at = "sending", !.frame = f]}
                     ELSE AfterDelivery(r, f)
      /\ origin' = IF origin = NoPos /\ HasNext(f) THEN f.from ELSE origin
      /\ UNCHANGED <<tail, faults, recordsCh, recordsClosed, errorCh, ctxDone, session, returned>>
    BY DEF ReceiveBatch
<1>t. /\ reader \in ReaderType /\ conn \in Conns /\ caughtUp \in CaughtUpType /\ tail \in Nat
      /\ reader.nextSeq \in Pos /\ reader.recordsRead \in Nat /\ conn.frames \in Seq(Frames)
      /\ conn.pos \in Nat /\ conn.left \in Nat \cup {NoLimit}
    BY <1>c, ReadAssumption DEF TypeOK, ReaderType, Conns
<1>f. f \in Frames /\ f.from \in Nat /\ f.upto \in Nat /\ f.tail \in Pos
    <2>1. f \in Frames
        BY <1>a, <1>t, FirstOf
    <2> HIDE DEF f
    <2> QED BY <2>1 DEF Frames
<1>o. /\ FrameOK(f) /\ f.upto = conn.pos /\ Follows(Received, f.from, Gap) /\ conn.pos <= tail
      /\ Received = Sent /\ Len(conn.frames) <= 1
    BY <1>a, <1>c DEF ConnOK, Receiving, Received
<1>n. /\ conn'.frames = <<>> /\ conn'.pos = conn.pos /\ conn'.left = conn.left
      /\ conn'.end = conn.end
    <2>1. Tail(conn.frames) = <<>>
        BY <1>a, <1>t, <1>o, FirstOf
    <2> QED BY <1>a, <1>t, <2>1 DEF Conns
<1>h. OnTheWay = f.upto - f.from /\ OnTheWay' = 0
    BY <1>a, <1>n DEF OnTheWay
<1> HIDE DEF f
<1>r. /\ r \in ReaderType /\ r.terminalErr = reader.terminalErr
      /\ r.recordsRead = reader.recordsRead + (f.upto - f.from)
      /\ r.nextSeq = IF f.from = f.upto THEN reader.nextSeq ELSE f.upto
    BY <1>t, <1>f, <1>o, AdvanceStateFields DEF FrameOK
<1> HIDE DEF r
<1>s. Taken' = Taken /\ Sent' = Sent
    BY <1>a DEF Taken, Sent
<1>q. /\ reader'.recordsRead = r.recordsRead /\ reader'.nextSeq = r.nextSeq
      /\ reader'.terminalErr = reader.terminalErr
      /\ HasNext(f) => reader'.at = "sending" /\ reader'.frame = f
      /\ ~HasNext(f) => reader'.at \in {"reading", "failed"}
    <2>1. CASE HasNext(f)
        BY <1>a, <1>r, <2>1 DEF ReaderType
    <2>2. CASE ~HasNext(f)
        <3>1. reader' \in AfterDelivery(r, f)
            BY <1>a, <2>2
        <3> QED BY <1>f, <1>r, <2>2, <3>1, AfterDeliveryFields
    <2> QED BY <2>1, <2>2
<1>e. reader'.at \in {"sending", "reading", "failed"}
    BY <1>q
<1>v. HasNext(f) => Received' = f.upto
    BY <1>q DEF Received
<1>w. ~HasNext(f) => Received' = Sent /\ f.from = f.upto
    BY <1>q, <1>s DEF Received, HasNext
<1>g. Gap => StartAtTail
    BY DEF Gap
<1>b. (~StartAtTail => Received = f.from) /\ Received <= f.from
    BY <1>o, <1>g DEF Follows
<1>k. /\ reader.nextSeq # NoPos => reader.nextSeq = Received /\ origin # NoPos /\ Received = f.from
      /\ reader.nextSeq = NoPos => (~StartAtTail => Received = 0)
    BY <1>a, <1>c, <1>o DEF ReaderOK, Live, Gap, Follows
<1>1. SessionOK'
    BY <1>c, <1>a DEF SessionOK
<1>2. ChannelOK'
    BY <1>c, <1>a, <1>s DEF ChannelOK
<1>3. OriginOK'
    <2>1. origin = NoPos => Received = 0
        BY <1>c, <1>o DEF OriginOK, Sent, Taken
    <2>2. CASE origin = NoPos /\ HasNext(f)
        <3>1. origin' = f.from /\ origin' # NoPos /\ (~StartAtTail => origin' = 0)
            BY <1>a, <1>b, <1>f, <2>1, <2>2 DEF NoPos
        <3> QED BY <3>1 DEF OriginOK
    <2>3. CASE ~(origin = NoPos /\ HasNext(f))
        BY <1>a, <1>c, <1>q, <2>3 DEF OriginOK
    <2> QED BY <2>2, <2>3
<1>4. ReaderOK'
    <2>1. CASE HasNext(f)
        <3>1. origin' # NoPos
            BY <1>a, <1>f, <2>1 DEF NoPos
        <3>2. HasNext(reader'.frame) /\ FrameOK(reader'.frame)
              /\ Follows(Sent, reader'.frame.from, StartAtTail)
            BY <1>q, <1>o, <1>b, <2>1 DEF Follows
        <3>3. IF reader'.nextSeq # NoPos THEN reader'.nextSeq = Received' /\ origin' # NoPos
              ELSE ~StartAtTail => Received' = 0
            <4>1. CASE f.from = f.upto
                <5>1. reader'.nextSeq = reader.nextSeq /\ Received' = f.from
                    BY <1>q, <1>r, <1>v, <2>1, <4>1
                <5> QED BY <1>k, <1>b, <3>1, <5>1
            <4>2. CASE f.from # f.upto
                <5>1. reader'.nextSeq = f.upto /\ Received' = f.upto /\ f.upto # NoPos
                    BY <1>f, <1>q, <1>r, <1>v, <2>1, <4>2 DEF NoPos
                <5> QED BY <3>1, <5>1
            <4> QED BY <4>1, <4>2
        <3>4. Received' <= tail'
            BY <1>a, <1>v, <1>o, <2>1
        <3> QED BY <1>s, <3>2, <3>3, <3>4 DEF ReaderOK
    <2>2. CASE ~HasNext(f)
        <3>1. reader'.nextSeq = reader.nextSeq /\ Received' = Received /\ origin' = origin
            BY <1>a, <1>q, <1>r, <1>w, <1>o, <2>2
        <3>2. reader'.at # "sending"
            BY <1>q, <2>2
        <3>3. Received <= tail
            BY <1>a, <1>c DEF ReaderOK, Live
        <3> QED BY <1>a, <1>k, <3>1, <3>2, <3>3 DEF ReaderOK
    <2> QED BY <2>1, <2>2
<1>5. ConnOK'
    <2>1. Len(conn'.frames) <= 1 /\ conn'.pos <= tail'
        <3>1. Len(<<>>) = 0
            OBVIOUS
        <3>2. conn'.frames = <<>> /\ conn'.pos = conn.pos /\ conn.pos <= tail /\ tail' = tail
            BY <1>a, <1>n, <1>o
        <3> QED BY <3>1, <3>2
    <2>2. CASE HasNext(f)
        <3>1. Follows(Received', conn'.pos, Gap')
            BY <1>f, <1>n, <1>o, <1>v, <2>2 DEF Follows
        <3> QED BY <1>n, <2>1, <3>1 DEF ConnOK
    <2>3. CASE ~HasNext(f)
        <3>1. Received' = Received /\ conn'.pos = f.from /\ Gap' = Gap
            BY <1>n, <1>o, <1>q, <1>r, <1>w, <2>3 DEF Gap
        <3> QED BY <1>n, <1>o, <2>1, <3>1 DEF ConnOK
    <2> QED BY <2>2, <2>3
<1>6. LimitOK'
    <2>1. CASE Count = NoLimit
        BY <2>1 DEF LimitOK
    <2>2. CASE Count # NoLimit
        <3>1. conn.left \in Nat /\ reader.recordsRead + (f.upto - f.from) + conn.left <= Count
            BY <1>a, <1>c, <1>h, <2>2 DEF LimitOK, Receiving
        <3>2. reader'.recordsRead + OnTheWay' + conn'.left <= Count
            BY <1>f, <1>h, <1>n, <1>q, <1>r, <1>t, <3>1
        <3>3. reader'.recordsRead <= Count
            BY SMTT(40), <1>f, <1>q, <1>r, <1>t, <3>1, <2>2, ReadAssumption
        <3> QED BY <1>n, <3>1, <3>2, <3>3 DEF LimitOK
    <2> QED BY <2>1, <2>2
<1>7. WaitOK'
    BY <1>a, <1>c DEF WaitOK, Waiting
<1>8. CaughtUpOK'
    <2>1. CASE ~BatchCaughtUp(f) \/ VisibleBetween(f.from, f.upto) # <<>>
        <3>1. caughtUp' = SetBehind(caughtUp)
            BY <1>a, <2>1 DEF Behind
        <3>2. caughtUp'.tail = NoPos \/ caughtUp'.terminalErr # NoErr
            BY <1>t, <3>1 DEF SetBehind, CaughtUpType
        <3> QED BY <3>2 DEF CaughtUpOK
    <2>2. CASE BatchCaughtUp(f) /\ VisibleBetween(f.from, f.upto) = <<>>
        <3>1. caughtUp' = caughtUp
            BY <1>a, <2>2 DEF Behind
        <3> QED BY <1>a, <1>c, <1>q, <2>2, <3>1 DEF CaughtUpOK
    <2> QED BY <2>1, <2>2
<1>9. CaughtUpIsTrue'
    <2>0. NoErr \in Errors \cup {NoErr}
        OBVIOUS
    <2>1. ClaimsNoMore(caughtUp, caughtUp) /\ ClaimsNoMore(SetBehind(caughtUp), caughtUp)
        BY <1>t, <2>0, ClaimsTakenBack
    <2>2. ClaimsNoMore(caughtUp', caughtUp)
        BY <1>a, <2>1 DEF Behind
    <2> QED BY <1>a, <1>c, <2>2, ClaimsStayTrue
<1>10. ErrorOK' /\ EndOK'
    BY <1>a, <1>c, <1>e DEF ErrorOK, EndOK, Ending
<1> QED BY <1>1, <1>2, <1>3, <1>4, <1>5, <1>6, <1>7, <1>8, <1>9, <1>10 DEF ReadInv

(* A delivery put into the channel keeps the invariant. *)
LEMMA SendStep ==
    ASSUME ReadInv, TypeOK', SendDelivery
    PROVE  ReadInv'
<1> DEFINE f == reader.frame
           d == [records |-> VisibleBetween(f.from, f.upto), next |-> NextOf(f),
                 caughtUpTail |-> IF BatchCaughtUp(f) THEN f.tail ELSE NoPos]
           n == Len(recordsCh)
<1>c. /\ TypeOK /\ SessionOK /\ ChannelOK /\ OriginOK /\ ReaderOK /\ ConnOK /\ LimitOK
      /\ WaitOK /\ CaughtUpOK /\ CaughtUpIsTrue /\ ErrorOK /\ EndOK
    BY DEF ReadInv
<1>a. /\ reader.at = "sending"
      /\ recordsCh' = Append(recordsCh, d)
      /\ reader' \in IF BatchCaughtUp(f)
                     THEN {[reader EXCEPT !.at = "consuming", !.consumed = FALSE]}
                     ELSE AfterDelivery([reader EXCEPT !.frame = NoFrame], f)
      /\ UNCHANGED <<tail, conn, faults, recordsClosed, errorCh, caughtUp, ctxDone, session,
                     returned, origin>>
    BY DEF SendDelivery
<1>t. reader \in ReaderType /\ f \in Frames /\ recordsCh \in Seq(Deliveries)
    BY <1>c DEF TypeOK, ReaderType
<1>f. f.from \in Nat /\ f.upto \in Nat /\ f.tail \in Pos /\ f.from <= f.upto
    BY <1>a, <1>c, <1>t DEF Frames, ReaderOK, FrameOK
<1>o. /\ HasNext(f) /\ FrameOK(f) /\ Follows(Sent, f.from, StartAtTail) /\ Received = f.upto
    BY <1>a, <1>c DEF ReaderOK, Received
<1>n. NextOf(f) = f.upto /\ (BatchCaughtUp(f) => f.tail = f.upto /\ f.tail # NoPos)
    BY <1>o DEF NextOf, HasNext, FrameOK, BatchCaughtUp
<1>d. /\ d.records = VisibleBetween(f.from, f.upto) /\ d.next = f.upto
      /\ d.caughtUpTail = IF BatchCaughtUp(f) THEN f.tail ELSE NoPos
    BY <1>n
<1> HIDE DEF f, d
<1>l. /\ n \in Nat /\ Len(recordsCh') = n + 1 /\ recordsCh'[n + 1] = d /\ recordsCh' # <<>>
      /\ \A i \in 1 .. n : recordsCh'[i] = recordsCh[i]
      /\ recordsCh = <<>> <=> n = 0
    <2>1. d \in Deliveries
        <3>1. VisibleBetween(f.from, f.upto) \in Seq(Nat)
            BY <1>f, VisibleType
        <3>2. d = [records |-> VisibleBetween(f.from, f.upto), next |-> f.upto,
                   caughtUpTail |-> IF BatchCaughtUp(f) THEN f.tail ELSE NoPos]
            BY <1>n DEF d
        <3> QED BY <1>f, <3>1, <3>2 DEF Deliveries, Pos
    <2> QED BY <1>a, <1>t, <2>1
<1> HIDE DEF n
<1>q. /\ reader'.nextSeq = reader.nextSeq /\ reader'.recordsRead = reader.recordsRead
      /\ reader'.terminalErr = reader.terminalErr
      /\ BatchCaughtUp(f) => reader'.at = "consuming" /\ ~reader'.consumed
      /\ reader'.at \in {"consuming", "reading", "failed"}
    <2>1. CASE BatchCaughtUp(f)
        BY <1>a, <1>t, <2>1 DEF ReaderType
    <2>2. CASE ~BatchCaughtUp(f)
        <3>1. reader' \in AfterDelivery([reader EXCEPT !.frame = NoFrame], f)
            BY <1>a, <2>2
        <3>2. /\ [reader EXCEPT !.frame = NoFrame] \in ReaderType
              /\ [reader EXCEPT !.frame = NoFrame].nextSeq = reader.nextSeq
              /\ [reader EXCEPT !.frame = NoFrame].recordsRead = reader.recordsRead
              /\ [reader EXCEPT !.frame = NoFrame].terminalErr = reader.terminalErr
            BY <1>t DEF ReaderType, NoFrame, Frames, Pos
        <3> QED BY <1>t, <2>2, <3>1, <3>2, AfterDeliveryFields
    <2> QED BY <2>1, <2>2
<1>s. Taken' = Taken /\ Sent' = f.upto /\ Received' = Received
    <2>1. Sent' = f.upto
        BY <1>d, <1>l DEF Sent
    <2> QED BY <1>a, <1>o, <1>q, <2>1 DEF Taken, Received
<1>w. /\ \A i \in 1 .. n : recordsCh[i].caughtUpTail = NoPos
      /\ session.caughtUpTail = NoPos
    BY <1>a, <1>c DEF WaitOK, Waiting, n
<1>1. SessionOK'
    BY <1>c, <1>a DEF SessionOK
<1>2. ChannelOK'
    <2>1. ASSUME NEW i \in 1 .. n
          PROVE  Continues(IF i = 1 THEN Taken' ELSE recordsCh'[i - 1].next, recordsCh'[i])
        <3>1. recordsCh'[i] = recordsCh[i] /\ (i # 1 => recordsCh'[i - 1] = recordsCh[i - 1])
            BY <1>l
        <3>2. Continues(IF i = 1 THEN Taken ELSE recordsCh[i - 1].next, recordsCh[i])
            BY <1>c DEF ChannelOK, n
        <3> QED BY <1>s, <3>1, <3>2
    <2>2. (IF n + 1 = 1 THEN Taken' ELSE recordsCh'[(n + 1) - 1].next) = Sent
        <3>1. CASE n = 0
            BY <1>l, <1>s, <3>1 DEF Sent
        <3>2. CASE n # 0
            <4>1. (n + 1) - 1 = n /\ n \in 1 .. n /\ n + 1 # 1
                BY <1>l, <3>2
            <4> QED BY <1>l, <3>2, <4>1 DEF Sent, n
        <3> QED BY <3>1, <3>2
    <2>3. Continues(Sent, d)
        <3>1. f.from \in 0 .. d.next
            BY <1>d, <1>f
        <3> QED BY <1>d, <1>o, <3>1 DEF Continues
    <2>4. ASSUME NEW i \in 1 .. n + 1
          PROVE  Continues(IF i = 1 THEN Taken' ELSE recordsCh'[i - 1].next, recordsCh'[i])
        <3>1. CASE i \in 1 .. n
            BY <2>1, <3>1
        <3>2. CASE i = n + 1
            BY <1>l, <2>2, <2>3, <3>2
        <3> QED BY <1>l, <3>1, <3>2
    <2> QED BY <1>l, <2>4 DEF ChannelOK
<1>3. OriginOK'
    BY <1>a, <1>c DEF OriginOK
<1>4. ReaderOK'
    <2>1. reader.at \in Live
        BY <1>a DEF Live
    <2> QED BY <1>a, <1>c, <1>q, <1>s, <2>1 DEF ReaderOK
<1>5. ConnOK' /\ LimitOK'
    <2>1. reader.at \in Receiving /\ Gap' = Gap /\ OnTheWay' = OnTheWay
        BY <1>a, <1>q DEF Receiving, Gap, OnTheWay
    <2> QED BY <1>a, <1>c, <1>q, <1>s, <2>1 DEF ConnOK, LimitOK
<1>6. WaitOK'
    <2>1. ASSUME NEW i \in 1 .. n + 1, recordsCh'[i].caughtUpTail # NoPos
          PROVE  i = n + 1 /\ Waiting' /\ recordsCh'[i].next = recordsCh'[i].caughtUpTail
        <3>1. i = n + 1
            BY <1>l, <1>w, <2>1
        <3>2. BatchCaughtUp(f)
            BY <1>d, <1>l, <2>1, <3>1
        <3> QED BY <1>d, <1>l, <1>n, <1>q, <3>1, <3>2 DEF Waiting
    <2> QED BY <1>a, <1>l, <1>w, <2>1 DEF WaitOK
<1>7. CaughtUpOK'
    <2> SUFFICES ASSUME caughtUp.tail # NoPos, caughtUp.terminalErr = NoErr
                 PROVE  CaughtUpOK'
        BY <1>a DEF CaughtUpOK
    <2>1. /\ session.next = NoPos /\ BatchCaughtUp(f) /\ d.records = <<>>
          /\ \A i \in 1 .. n : recordsCh[i].caughtUpTail # NoPos
        BY <1>a, <1>c, <1>d DEF CaughtUpOK, f, n
    <2>2. n = 0
        <3>1. n # 0 => 1 \in 1 .. n
            BY <1>l
        <3> QED BY <1>w, <2>1, <3>1
    <2>3. ASSUME NEW i \in 1 .. n + 1
          PROVE  recordsCh'[i].records = <<>> /\ recordsCh'[i].caughtUpTail # NoPos
        <3>1. i = n + 1
            BY <2>2
        <3> QED BY <1>d, <1>l, <1>n, <2>1, <3>1
    <2> QED BY <1>a, <1>l, <1>q, <2>1, <2>3 DEF CaughtUpOK
<1>8. CaughtUpIsTrue'
    BY <1>a, <1>c DEF CaughtUpIsTrue, IsCaughtUp, NextReadPosition
<1>9. ErrorOK' /\ EndOK'
    BY <1>a, <1>c, <1>q DEF ErrorOK, EndOK, Ending
<1> QED BY <1>1, <1>2, <1>3, <1>4, <1>5, <1>6, <1>7, <1>8, <1>9 DEF ReadInv

-----------------------------------------------------------------------------
(* The application takes records.                                          *)

(* Returning the first record of a range extends what was returned up to   *)
(* its start; when no other is left, up to its end.                        *)
LEMMA ReturnFirst ==
    ASSUME NEW b \in Nat, NEW e \in Nat, b <= e, VisibleBetween(b, e) # <<>>
    PROVE  LET h == Head(VisibleBetween(b, e))
           IN  /\ h \in Nat /\ b <= h /\ h + 1 \in Nat /\ h + 1 <= e
               /\ Tail(VisibleBetween(b, e)) = VisibleBetween(h + 1, e)
               /\ Append(VisibleBetween(0, b), h) = VisibleBetween(0, h + 1)
               /\ VisibleBetween(h + 1, e) = <<>> => VisibleBetween(0, h + 1) = VisibleBetween(0, e)
<1> DEFINE h == Head(VisibleBetween(b, e))
<1>1. /\ h \in Nat /\ b <= h /\ h + 1 <= e /\ VisibleBetween(b, h + 1) = <<h>>
      /\ Tail(VisibleBetween(b, e)) = VisibleBetween(h + 1, e)
    BY VisibleFirst
<1> HIDE DEF h
<1>2. /\ h + 1 \in Nat /\ 0 \in Nat /\ b <= h + 1 /\ 0 <= b /\ 0 <= h + 1
    BY <1>1
<1>3. VisibleBetween(0, b) \o VisibleBetween(b, h + 1) = VisibleBetween(0, h + 1)
    BY <1>2, VisibleConcat
<1>4. VisibleBetween(0, h + 1) \o VisibleBetween(h + 1, e) = VisibleBetween(0, e)
    BY <1>1, <1>2, VisibleConcat
<1>5. VisibleBetween(0, b) \in Seq(Nat) /\ VisibleBetween(0, h + 1) \in Seq(Nat)
    BY <1>2, VisibleType
<1>6. \A s \in Seq(Nat) : s \o <<>> = s /\ s \o <<h>> = Append(s, h)
    BY <1>1
<1>7. Append(VisibleBetween(0, b), h) = VisibleBetween(0, h + 1)
    BY <1>1, <1>3, <1>5, <1>6
<1>8. VisibleBetween(h + 1, e) = <<>> => VisibleBetween(0, h + 1) = VisibleBetween(0, e)
    BY <1>4, <1>5, <1>6
<1> QED BY <1>1, <1>2, <1>7, <1>8 DEF h

(* How far the records have been returned once s is settled. *)
ReturnedTo(s) == IF s.pending = <<>> THEN s.next ELSE s.position

(* A delivery that is settled: s is the session that holds the rest of it. *)
SettleCase(s) ==
    /\ s.next # NoPos /\ origin # NoPos /\ (session.inNext \/ ~session.closed)
    /\ s.pending # <<>> => /\ s.position # NoPos /\ s.position <= s.next /\ ~s.inNext
                           /\ s.pending = VisibleBetween(s.position, s.next)
    /\ ~StartAtTail => returned' = VisibleBetween(0, ReturnedTo(s))
    /\ session.position <= ReturnedTo(s)
    /\ s.inNext => session.inNext
    /\ s.readerDone = session.readerDone /\ s.readerErr = session.readerErr
    /\ s.closed = session.closed /\ s.finished = session.finished
    /\ \A i \in 1 .. Len(recordsCh') :
          /\ Continues(IF i = 1 THEN s.next ELSE recordsCh'[i - 1].next, recordsCh'[i])
          /\ recordsCh'[i].caughtUpTail # NoPos =>
                /\ i = Len(recordsCh') /\ Waiting
                /\ recordsCh'[i].next = recordsCh'[i].caughtUpTail
    /\ Sent = IF recordsCh' = <<>> THEN s.next ELSE recordsCh'[Len(recordsCh')].next
    /\ s.caughtUpTail # NoPos => recordsCh' = <<>> /\ s.next = s.caughtUpTail /\ Waiting
    /\ caughtUp.tail # NoPos /\ caughtUp.terminalErr = NoErr =>
          s.pending = <<>> /\ s.caughtUpTail # NoPos
    /\ UNCHANGED <<tail, conn, faults, recordsClosed, errorCh, ctxDone, origin>>

(* Settling it keeps the invariant. *)
LEMMA SettleStep ==
    ASSUME ReadInv, TypeOK', NEW s \in SessionType, Settle(s), SettleCase(s)
    PROVE  ReadInv'
<1>c. /\ TypeOK /\ SessionOK /\ ChannelOK /\ OriginOK /\ ReaderOK /\ ConnOK /\ LimitOK
      /\ WaitOK /\ CaughtUpOK /\ CaughtUpIsTrue /\ ErrorOK /\ EndOK
    BY DEF ReadInv
<1>u. UNCHANGED <<tail, conn, faults, recordsClosed, errorCh, ctxDone, origin>>
    BY DEF SettleCase
<1>r. /\ reader'.at = reader.at /\ reader'.frame = reader.frame
      /\ reader'.nextSeq = reader.nextSeq /\ reader'.recordsRead = reader.recordsRead
      /\ reader'.terminalErr = reader.terminalErr
    BY <1>c, SettleTypes
<1>t. /\ caughtUp \in CaughtUpType /\ session.position \in Int /\ s.next \in Pos /\ s.position \in Pos
      /\ s.caughtUpTail \in Pos
    BY <1>c DEF TypeOK, SessionType, Pos, NoPos
<1>p. /\ s.pending = <<>> => /\ session'.pending = <<>> /\ session'.next = NoPos
                             /\ session'.position = s.next /\ session'.caughtUpTail = NoPos
      /\ s.pending # <<>> => session' = s
      /\ session'.inNext = s.inNext /\ session'.closed = s.closed /\ session'.finished = s.finished
      /\ session'.readerDone = s.readerDone /\ session'.readerErr = s.readerErr
    <2>1. CASE s.pending = <<>>
        BY <2>1, SessionFields DEF Settle, SettleCase
    <2>2. CASE s.pending # <<>>
        BY <2>2 DEF Settle
    <2> QED BY <2>1, <2>2
<1>q. session'.position = ReturnedTo(s) /\ session'.position # NoPos
    BY <1>p DEF ReturnedTo, SettleCase
<1>s. Taken' = s.next /\ Sent' = Sent /\ Received' = Received
    <2>1. Taken' = s.next
        <3>1. s.next # NoPos
            BY DEF SettleCase
        <3> QED BY <1>p, <3>1 DEF Taken
    <2>2. Sent' = Sent
        BY <2>1 DEF Sent, SettleCase
    <2> QED BY <1>r, <2>1, <2>2 DEF Received
<1>f. ~session.finished /\ ~session'.finished
    BY <1>c, <1>p DEF ErrorOK, SettleCase
<1>1. SessionOK'
    <2>1. CASE s.pending = <<>>
        BY <1>p, <1>q, <2>1 DEF SessionOK, SettleCase
    <2>2. CASE s.pending # <<>>
        BY <1>p, <1>q, <2>2 DEF SessionOK, SettleCase
    <2> QED BY <2>1, <2>2
<1>2. ChannelOK'
    BY <1>s DEF ChannelOK, SettleCase
<1>3. OriginOK'
    BY <1>c, <1>u DEF OriginOK, SettleCase
<1>4. ReaderOK'
    BY <1>c, <1>r, <1>s, <1>u DEF ReaderOK
<1>5. ConnOK' /\ LimitOK'
    <2>1. Gap' = Gap /\ OnTheWay' = OnTheWay
        BY <1>r, <1>u DEF Gap, OnTheWay
    <2> QED BY <1>c, <1>r, <1>s, <1>u, <2>1 DEF ConnOK, LimitOK
<1>6. ASSUME s.pending = <<>> /\ s.caughtUpTail # NoPos
      PROVE  WaitOK' /\ CaughtUpOK' /\ CaughtUpIsTrue'
    <2>1. /\ caughtUp' = SetCaughtUp(caughtUp, s.caughtUpTail) /\ recordsCh' = <<>>
          /\ session'.position = s.caughtUpTail /\ Waiting
        BY <1>p, <1>6 DEF Settle, SettleCase
    <2>2. \A i \in 1 .. Len(recordsCh') : FALSE
        <3>1. Len(<<>>) = 0
            OBVIOUS
        <3> QED BY <2>1, <3>1
    <2>3. WaitOK'
        BY <1>p, <1>6, <2>2 DEF WaitOK
    <2>4. CaughtUpOK'
        BY <1>p, <1>r, <1>6, <2>1, <2>2 DEF CaughtUpOK, Waiting
    <2>5. session.position <= session'.position /\ session'.position \in Int
        BY <1>q, <1>t, <2>1 DEF SettleCase, Pos, NoPos
    <2>6. CaughtUpIsTrue'
        <3>1. CASE caughtUp.terminalErr # NoErr
            <4>1. caughtUp' = caughtUp
                BY <2>1, <3>1 DEF SetCaughtUp
            <4>2. caughtUp.tail \in Int /\ \A g \in Futures : caughtUp.future[g].tail \in Int
                BY <1>t DEF CaughtUpType, Pos, NoPos
            <4> QED BY <1>c, <1>t, <2>5, <3>1, <4>1, <4>2
                    DEF CaughtUpIsTrue, IsCaughtUp, NextReadPosition
        <3>2. CASE caughtUp.terminalErr = NoErr
            <4>1. /\ caughtUp'.tail = s.caughtUpTail /\ caughtUp'.terminalErr = NoErr
                  /\ caughtUp'.future = Settled(caughtUp, [is |-> "tail", tail |-> s.caughtUpTail])
                BY <1>t, <2>1, <3>2 DEF SetCaughtUp, CaughtUpType
            <4>2. ASSUME NEW g \in Futures, caughtUp'.future[g].is = "tail"
                  PROVE  caughtUp'.future[g].tail <= session'.position
                <5>1. CASE caughtUp.future[g].is = "pending"
                    BY <2>1, <2>5, <4>1, <5>1 DEF Settled
                <5>2. CASE caughtUp.future[g].is # "pending"
                    <6>1. caughtUp'.future[g] = caughtUp.future[g] /\ caughtUp.future[g].tail \in Int
                        BY <1>t, <4>1, <5>2 DEF Settled, CaughtUpType, Pos, NoPos
                    <6>2. caughtUp.future[g].tail <= session.position
                        BY <1>c, <4>2, <6>1 DEF CaughtUpIsTrue, NextReadPosition
                    <6> QED BY <1>t, <2>5, <6>1, <6>2
                <5> QED BY <5>1, <5>2
            <4> QED BY <1>p, <1>6, <2>1, <4>1, <4>2 DEF CaughtUpIsTrue, IsCaughtUp, NextReadPosition
        <3> QED BY <3>1, <3>2
    <2> QED BY <2>3, <2>4, <2>6
<1>7. ASSUME ~(s.pending = <<>> /\ s.caughtUpTail # NoPos)
      PROVE  WaitOK' /\ CaughtUpOK' /\ CaughtUpIsTrue'
    <2>1. UNCHANGED <<caughtUp, reader>>
        BY <1>7 DEF Settle
    <2>2. WaitOK'
        <3>1. Waiting' = Waiting
            BY <2>1 DEF Waiting
        <3>2. session'.caughtUpTail # NoPos =>
                 recordsCh' = <<>> /\ session'.next = session'.caughtUpTail /\ Waiting
            BY <1>p, <1>7 DEF SettleCase
        <3> QED BY <3>1, <3>2 DEF WaitOK, SettleCase
    <2>3. ~(caughtUp.tail # NoPos /\ caughtUp.terminalErr = NoErr)
        BY <1>7 DEF SettleCase
    <2>4. CaughtUpOK'
        BY <2>1, <2>3 DEF CaughtUpOK
    <2>5. session.position <= session'.position /\ session'.position \in Int
        BY <1>q, <1>t DEF SettleCase, ReturnedTo, Pos, NoPos
    <2>6. caughtUp.tail \in Int /\ \A g \in Futures : caughtUp.future[g].tail \in Int
        BY <1>t DEF CaughtUpType, Pos, NoPos
    <2>7. CaughtUpIsTrue'
        BY <1>c, <1>t, <2>1, <2>3, <2>5, <2>6 DEF CaughtUpIsTrue, IsCaughtUp, NextReadPosition
    <2> QED BY <2>2, <2>4, <2>7
<1>8. ErrorOK' /\ EndOK'
    <2>1. session'.inNext \/ ~session'.closed => session.inNext \/ ~session.closed
        BY <1>p DEF SettleCase
    <2>2. session'.readerDone = session.readerDone /\ session'.readerErr = session.readerErr
        BY <1>p DEF SettleCase
    <2> QED BY <1>c, <1>f, <1>r, <1>u, <2>1, <2>2 DEF ErrorOK, EndOK
<1> QED BY <1>1, <1>2, <1>3, <1>4, <1>5, <1>6, <1>7, <1>8 DEF ReadInv

(* What has been returned reaches up to the end of what Next has taken,    *)
(* when nothing is pending.                                                *)
LEMMA ReturnedToTaken ==
    ASSUME TypeOK, SessionOK, session.next = NoPos
    PROVE  /\ Taken \in Nat /\ session.position <= Taken
           /\ ~StartAtTail => returned = VisibleBetween(0, Taken)
<1>1. session.position \in Pos
    BY DEF TypeOK, SessionType
<1>2. CASE session.position = NoPos
    <2>1. VisibleBetween(0, 0) = <<>>
        BY VisibleNone
    <2> QED BY <1>2, <2>1 DEF SessionOK, Taken, NoPos
<1>3. CASE session.position # NoPos
    BY <1>1, <1>3 DEF SessionOK, Taken, Pos
<1> QED BY <1>2, <1>3

(* Next returns a pending record, or enters its loop. *)
LEMMA CallStep ==
    ASSUME ReadInv, TypeOK', NextCalled
    PROVE  ReadInv'
<1>c. /\ TypeOK /\ SessionOK /\ ChannelOK /\ OriginOK /\ ReaderOK /\ ConnOK /\ LimitOK
      /\ WaitOK /\ CaughtUpOK /\ CaughtUpIsTrue /\ ErrorOK /\ EndOK
    BY DEF ReadInv
<1>t. session \in SessionType
    BY <1>c DEF TypeOK
<1>u. /\ UNCHANGED <<tail, conn, faults, recordsCh, recordsClosed, errorCh, ctxDone, origin>>
      /\ ~session.closed /\ ~session.inNext
    BY DEF NextCalled
<1>1. CASE session.pending # <<>>
    <2> DEFINE s == Yield(session)
               p == session.position
               e == session.next
               h == Head(session.pending)
    <2>1. /\ p \in Nat /\ e \in Nat /\ p <= e /\ e # NoPos
          /\ session.pending = VisibleBetween(p, e)
        BY <1>c, <1>t, <1>1 DEF SessionOK, SessionType, Pos
    <2>2. returned' = Append(returned, h) /\ Settle(s)
        BY <1>1 DEF NextCalled
    <2>3. /\ s \in SessionType /\ s.position = h + 1 /\ s.pending = Tail(session.pending)
          /\ s.next = e /\ s.caughtUpTail = session.caughtUpTail /\ s.inNext = session.inNext
          /\ s.readerDone = session.readerDone /\ s.readerErr = session.readerErr
          /\ s.closed = session.closed /\ s.finished = session.finished
        BY <1>t, <1>1, SessionFields
    <2> HIDE DEF s, p, e, h
    <2>4. /\ h \in Nat /\ p <= h /\ h + 1 \in Nat /\ h + 1 <= e
          /\ s.pending = VisibleBetween(h + 1, e)
          /\ Append(VisibleBetween(0, p), h) = VisibleBetween(0, h + 1)
          /\ VisibleBetween(h + 1, e) = <<>> => VisibleBetween(0, h + 1) = VisibleBetween(0, e)
        <3>1. h = Head(VisibleBetween(p, e)) /\ VisibleBetween(p, e) # <<>>
            BY <1>1, <2>1 DEF h
        <3>2. s.pending = Tail(VisibleBetween(p, e))
            BY <2>1, <2>3
        <3> QED BY <2>1, <3>1, <3>2, ReturnFirst
    <2>5. ~StartAtTail => returned = VisibleBetween(0, p)
        BY <1>c, <2>1 DEF SessionOK, p, e
    <2>6. ReturnedTo(s) = IF s.pending = <<>> THEN e ELSE h + 1
        BY <2>3 DEF ReturnedTo
    <2>7. ~StartAtTail => returned' = VisibleBetween(0, ReturnedTo(s))
        BY <2>2, <2>4, <2>5, <2>6
    <2>8. p <= ReturnedTo(s)
        BY <2>1, <2>4, <2>6
    <2>9. Taken = e /\ origin # NoPos
        BY <1>c, <2>1 DEF Taken, OriginOK, e
    <2>10. \A i \in 1 .. Len(recordsCh) :
              Continues(IF i = 1 THEN e ELSE recordsCh[i - 1].next, recordsCh[i])
        BY <1>c, <2>9 DEF ChannelOK
    <2>11. Sent = IF recordsCh = <<>> THEN e ELSE recordsCh[Len(recordsCh)].next
        BY <2>9 DEF Sent
    <2>12. /\ s.caughtUpTail # NoPos => recordsCh = <<>> /\ e = s.caughtUpTail /\ Waiting
           /\ \A i \in 1 .. Len(recordsCh) :
                 recordsCh[i].caughtUpTail # NoPos =>
                     /\ i = Len(recordsCh) /\ Waiting
                     /\ recordsCh[i].next = recordsCh[i].caughtUpTail
        BY <1>c, <2>3 DEF WaitOK, e
    <2>13. ~(caughtUp.tail # NoPos /\ caughtUp.terminalErr = NoErr)
        BY <1>c, <2>1 DEF CaughtUpOK, e
    <2>14. s.pending # <<>> => h + 1 # NoPos /\ h + 1 <= e
        BY <2>4 DEF NoPos
    <2>15. SettleCase(s)
        <3>1. recordsCh' = recordsCh
            BY <1>u
        <3> QED BY <1>u, <2>1, <2>3, <2>4, <2>7, <2>8, <2>9, <2>10, <2>11, <2>12, <2>13, <2>14, <3>1
                DEF SettleCase, p
    <2> QED BY <2>2, <2>3, <2>15, SettleStep
<1>2. CASE session.pending = <<>>
    <2>1. /\ session'.pending = session.pending /\ session'.next = session.next
          /\ session'.position = session.position /\ session'.caughtUpTail = session.caughtUpTail
          /\ session'.readerDone = session.readerDone /\ session'.readerErr = session.readerErr
          /\ session'.closed = session.closed /\ session'.finished = session.finished
          /\ session'.err = session.err
          /\ UNCHANGED <<returned, caughtUp, reader>>
        BY <1>t, <1>2 DEF NextCalled, SessionType
    <2>2. Taken' = Taken /\ Sent' = Sent /\ Received' = Received /\ Waiting' = Waiting
          /\ Gap' = Gap /\ OnTheWay' = OnTheWay
        BY <1>u, <2>1 DEF Taken, Sent, Received, Waiting, Gap, OnTheWay
    <2>3. SessionOK'
        BY <1>c, <1>2, <2>1 DEF SessionOK
    <2>4. ChannelOK' /\ OriginOK'
        BY <1>c, <1>u, <2>1, <2>2 DEF ChannelOK, OriginOK
    <2>5. ReaderOK' /\ ConnOK' /\ LimitOK'
        BY <1>c, <1>u, <2>1, <2>2 DEF ReaderOK, ConnOK, LimitOK
    <2>6. WaitOK'
        BY <1>c, <1>u, <2>1, <2>2 DEF WaitOK
    <2>7. CaughtUpOK' /\ CaughtUpIsTrue'
        BY <1>c, <1>u, <2>1 DEF CaughtUpOK, CaughtUpIsTrue, IsCaughtUp, NextReadPosition
    <2>8. ErrorOK' /\ EndOK'
        BY <1>c, <1>u, <2>1 DEF ErrorOK, EndOK
    <2> QED BY <2>3, <2>4, <2>5, <2>6, <2>7, <2>8 DEF ReadInv
<1> QED BY <1>1, <1>2

(* Next takes a delivery from the channel. *)
LEMMA TakeStep ==
    ASSUME ReadInv, TypeOK', NextReceives
    PROVE  ReadInv'
<1> DEFINE d == Head(recordsCh)
           q == [session EXCEPT !.pending = d.records, !.caughtUpTail = d.caughtUpTail,
                                !.next = d.next]
           t == [q EXCEPT !.inNext = FALSE]
           s == IF d.records = <<>> THEN q ELSE Yield(t)
           n == Len(recordsCh)
<1>c. /\ TypeOK /\ SessionOK /\ ChannelOK /\ OriginOK /\ ReaderOK /\ ConnOK /\ LimitOK
      /\ WaitOK /\ CaughtUpOK /\ CaughtUpIsTrue /\ ErrorOK /\ EndOK
    BY DEF ReadInv
<1>t. session \in SessionType /\ recordsCh \in Seq(Deliveries)
    BY <1>c DEF TypeOK
<1>u. /\ UNCHANGED <<tail, conn, faults, recordsClosed, errorCh, ctxDone, origin>>
      /\ session.inNext /\ recordsCh # <<>> /\ recordsCh' = Tail(recordsCh)
    BY DEF NextReceives
<1>a. /\ Settle(s)
      /\ d.records = <<>> => returned' = returned
      /\ d.records # <<>> => returned' = Append(returned, Head(d.records))
    BY DEF NextReceives
<1>d. d \in Deliveries
    BY <1>t, <1>u, FirstOf
<1>l. /\ n \in Nat /\ n >= 1 /\ Len(recordsCh') = n - 1 /\ recordsCh[1] = d
      /\ \A i \in 1 .. n - 1 : recordsCh'[i] = recordsCh[i + 1]
      /\ recordsCh' = <<>> <=> n = 1
    <2>1. recordsCh' \in Seq(Deliveries) /\ Len(recordsCh') = n - 1
        BY <1>t, <1>u
    <2>2. n \in Nat /\ n >= 1 /\ recordsCh[1] = d
        BY <1>t, <1>u
    <2>3. \A i \in 1 .. n - 1 : recordsCh'[i] = recordsCh[i + 1]
        <3>1. \A i \in 1 .. Len(Tail(recordsCh)) : Tail(recordsCh)[i] = recordsCh[i + 1]
            BY <1>t, <1>u, HeadTailProperties
        <3> QED BY <1>u, <2>1, <3>1
    <2>4. recordsCh' = <<>> <=> Len(recordsCh') = 0
        BY <2>1
    <2> QED BY <2>1, <2>2, <2>3, <2>4
<1>q. /\ q \in SessionType /\ q.pending = d.records /\ q.caughtUpTail = d.caughtUpTail
      /\ q.next = d.next /\ q.position = session.position /\ q.inNext = session.inNext
      /\ q.readerDone = session.readerDone /\ q.readerErr = session.readerErr
      /\ q.closed = session.closed /\ q.finished = session.finished
      /\ t \in SessionType /\ t.pending = d.records /\ t.caughtUpTail = d.caughtUpTail
      /\ t.next = d.next /\ ~t.inNext
      /\ t.readerDone = session.readerDone /\ t.readerErr = session.readerErr
      /\ t.closed = session.closed /\ t.finished = session.finished
    <2> HIDE DEF d
    <2> QED BY <1>t, <1>d DEF SessionType, Deliveries, Pos
<1>e. d.next \in Nat /\ d.next # NoPos /\ d.caughtUpTail \in Pos
    BY <1>d DEF Deliveries, NoPos
<1> HIDE DEF d, q, t, n
<1>s. /\ s \in SessionType /\ s.next = d.next /\ s.caughtUpTail = d.caughtUpTail
      /\ s.readerDone = session.readerDone /\ s.readerErr = session.readerErr
      /\ s.closed = session.closed /\ s.finished = session.finished
      /\ d.records = <<>> => s.pending = <<>>
      /\ d.records # <<>> => /\ s.pending = Tail(d.records) /\ s.position = Head(d.records) + 1
                             /\ ~s.inNext
    <2>1. CASE d.records = <<>>
        BY <1>q, <2>1
    <2>2. CASE d.records # <<>>
        BY <1>q, <2>2, SessionFields
    <2> QED BY <2>1, <2>2
<1> HIDE DEF s
<1>n. session.next = NoPos
    BY <1>c, <1>u DEF SessionOK
<1>o. /\ Taken \in Nat /\ session.position <= Taken /\ session.position \in Int
      /\ ~StartAtTail => returned = VisibleBetween(0, Taken)
    <2>1. session.position \in Int
        BY <1>t DEF SessionType, Pos, NoPos
    <2> QED BY <1>c, <1>n, <2>1, ReturnedToTaken
<1>b. PICK b \in 0 .. d.next : /\ Follows(Taken, b, StartAtTail)
                               /\ d.records = VisibleBetween(b, d.next)
    <2>1. 1 \in 1 .. n
        BY <1>l
    <2>2. Continues(Taken, recordsCh[1])
        BY <1>c, <2>1 DEF ChannelOK, n
    <2> QED BY <1>l, <2>2 DEF Continues
<1>f. b \in Nat /\ b <= d.next /\ Taken <= b /\ (~StartAtTail => returned = VisibleBetween(0, b))
    BY <1>b, <1>e, <1>o DEF Follows
<1>h. d.records # <<>> =>
        LET h == Head(d.records)
        IN  /\ h \in Nat /\ b <= h /\ h + 1 \in Nat /\ h + 1 <= d.next
            /\ s.pending = VisibleBetween(h + 1, d.next)
            /\ Append(VisibleBetween(0, b), h) = VisibleBetween(0, h + 1)
            /\ VisibleBetween(h + 1, d.next) = <<>> =>
                  VisibleBetween(0, h + 1) = VisibleBetween(0, d.next)
    <2> SUFFICES ASSUME d.records # <<>>
                 PROVE  LET h == Head(d.records)
                        IN  /\ h \in Nat /\ b <= h /\ h + 1 \in Nat /\ h + 1 <= d.next
                            /\ s.pending = VisibleBetween(h + 1, d.next)
                            /\ Append(VisibleBetween(0, b), h) = VisibleBetween(0, h + 1)
                            /\ VisibleBetween(h + 1, d.next) = <<>> =>
                                  VisibleBetween(0, h + 1) = VisibleBetween(0, d.next)
        OBVIOUS
    <2> DEFINE e == d.next
               h == Head(VisibleBetween(b, e))
    <2>1. e \in Nat /\ b <= e /\ VisibleBetween(b, e) # <<>>
        BY <1>b, <1>e, <1>f
    <2>2. Head(d.records) = h /\ s.pending = Tail(VisibleBetween(b, e))
        BY <1>b, <1>s
    <2> HIDE DEF e
    <2>3. /\ h \in Nat /\ b <= h /\ h + 1 \in Nat /\ h + 1 <= e
          /\ Tail(VisibleBetween(b, e)) = VisibleBetween(h + 1, e)
          /\ Append(VisibleBetween(0, b), h) = VisibleBetween(0, h + 1)
          /\ VisibleBetween(h + 1, e) = <<>> => VisibleBetween(0, h + 1) = VisibleBetween(0, e)
        BY <1>f, <2>1, ReturnFirst
    <2> HIDE DEF h
    <2> QED BY <2>2, <2>3 DEF e
<1>1. (~StartAtTail => returned' = VisibleBetween(0, ReturnedTo(s))) /\ b <= ReturnedTo(s)
    <2>1. CASE d.records = <<>>
        <3>1. ReturnedTo(s) = d.next
            BY <1>s, <2>1 DEF ReturnedTo
        <3>2. VisibleBetween(0, b) = VisibleBetween(0, d.next)
            <4>1. VisibleBetween(0, b) \o VisibleBetween(b, d.next) = VisibleBetween(0, d.next)
                <5>1. 0 \in Nat /\ b \in Nat /\ d.next \in Nat /\ 0 <= b /\ b <= d.next
                    BY <1>e, <1>f
                <5> QED BY <5>1, VisibleConcat
            <4>2. VisibleBetween(0, b) \in Seq(Nat)
                BY <1>f, VisibleType
            <4>3. \A x \in Seq(Nat) : x \o <<>> = x
                OBVIOUS
            <4> QED BY <1>b, <2>1, <4>1, <4>2, <4>3
        <3> QED BY <1>a, <1>f, <2>1, <3>1, <3>2
    <2>2. CASE d.records # <<>>
        <3> DEFINE h == Head(d.records)
        <3>1. ReturnedTo(s) = IF VisibleBetween(h + 1, d.next) = <<>> THEN d.next ELSE h + 1
            BY <1>h, <1>s, <2>2 DEF ReturnedTo
        <3>2. /\ h \in Nat /\ b <= h /\ h + 1 \in Nat /\ h + 1 <= d.next
              /\ Append(VisibleBetween(0, b), h) = VisibleBetween(0, h + 1)
              /\ VisibleBetween(h + 1, d.next) = <<>> =>
                    VisibleBetween(0, h + 1) = VisibleBetween(0, d.next)
            BY <1>h, <2>2
        <3>3. returned' = Append(returned, h)
            BY <1>a, <2>2
        <3> HIDE DEF h
        <3>4. b <= ReturnedTo(s)
            BY <1>f, <3>1, <3>2
        <3>5. ~StartAtTail => returned' = VisibleBetween(0, ReturnedTo(s))
            BY <1>f, <3>1, <3>2, <3>3
        <3> QED BY <3>4, <3>5
    <2> QED BY <2>1, <2>2
<1>2. session.position <= ReturnedTo(s)
    <2>1. ReturnedTo(s) \in Int
        BY <1>s DEF ReturnedTo, SessionType, Pos, NoPos
    <2> QED BY <1>1, <1>f, <1>o, <2>1
<1>3. s.pending # <<>> => /\ s.position # NoPos /\ s.position <= s.next /\ ~s.inNext
                          /\ s.pending = VisibleBetween(s.position, s.next)
    <2>1. CASE d.records # <<>>
        BY <1>h, <1>s, <2>1 DEF NoPos
    <2> QED BY <1>s, <2>1
<1>4. ASSUME NEW i \in 1 .. Len(recordsCh')
      PROVE  /\ Continues(IF i = 1 THEN s.next ELSE recordsCh'[i - 1].next, recordsCh'[i])
             /\ recordsCh'[i].caughtUpTail # NoPos =>
                   /\ i = Len(recordsCh') /\ Waiting
                   /\ recordsCh'[i].next = recordsCh'[i].caughtUpTail
    <2>1. /\ i \in 1 .. n - 1 /\ i + 1 \in 1 .. n /\ i + 1 # 1 /\ (i + 1) - 1 = i
          /\ recordsCh'[i] = recordsCh[i + 1]
        BY <1>l
    <2>2. Continues(recordsCh[(i + 1) - 1].next, recordsCh[i + 1])
        BY <1>c, <2>1 DEF ChannelOK, n
    <2>3. recordsCh[(i + 1) - 1].next = IF i = 1 THEN s.next ELSE recordsCh'[i - 1].next
        <3>1. CASE i = 1
            BY <1>l, <1>s, <2>1, <3>1
        <3>2. CASE i # 1
            <4>1. i - 1 \in 1 .. n - 1 /\ (i - 1) + 1 = i
                BY <1>l, <2>1, <3>2
            <4>2. recordsCh'[i - 1] = recordsCh[(i - 1) + 1]
                BY <1>l, <4>1
            <4> QED BY <2>1, <3>2, <4>1, <4>2
        <3> QED BY <3>1, <3>2
    <2>4. recordsCh[i + 1].caughtUpTail # NoPos =>
             i + 1 = n /\ Waiting /\ recordsCh[i + 1].next = recordsCh[i + 1].caughtUpTail
        BY <1>c, <2>1 DEF WaitOK, n
    <2> QED BY <1>l, <2>1, <2>2, <2>3, <2>4
<1>5. Sent = IF recordsCh' = <<>> THEN s.next ELSE recordsCh'[Len(recordsCh')].next
    <2>0. Sent = recordsCh[n].next
        BY <1>u DEF Sent, n
    <2>1. CASE n = 1
        BY <1>l, <1>s, <2>0, <2>1
    <2>2. CASE n # 1
        <3>1. n - 1 \in 1 .. n - 1 /\ (n - 1) + 1 = n
            BY <1>l, <2>2
        <3> QED BY <1>l, <2>0, <2>2, <3>1
    <2> QED BY <2>1, <2>2
<1>6. s.caughtUpTail # NoPos => recordsCh' = <<>> /\ s.next = s.caughtUpTail /\ Waiting
    <2>1. 1 \in 1 .. n
        BY <1>l
    <2>2. recordsCh[1].caughtUpTail # NoPos =>
             1 = n /\ Waiting /\ recordsCh[1].next = recordsCh[1].caughtUpTail
        BY <1>c, <2>1 DEF WaitOK, n
    <2> QED BY <1>l, <1>s, <2>2
<1>7. caughtUp.tail # NoPos /\ caughtUp.terminalErr = NoErr => s.pending = <<>> /\ s.caughtUpTail # NoPos
    <2>1. 1 \in 1 .. n
        BY <1>l
    <2>2. caughtUp.tail # NoPos /\ caughtUp.terminalErr = NoErr =>
             recordsCh[1].records = <<>> /\ recordsCh[1].caughtUpTail # NoPos
        BY <1>c, <2>1 DEF CaughtUpOK, n
    <2> QED BY <1>l, <1>s, <2>2
<1>8. origin # NoPos
    BY <1>c, <1>u DEF OriginOK
<1>9. SettleCase(s)
    BY <1>1, <1>2, <1>3, <1>4, <1>5, <1>6, <1>7, <1>8, <1>e, <1>s, <1>u DEF SettleCase
<1> QED BY <1>a, <1>s, <1>9, SettleStep

-----------------------------------------------------------------------------
(* Steps of the application that move no records.                          *)

QuietEffect ==
    /\ UNCHANGED <<tail, conn, reader, recordsCh, recordsClosed, returned, origin>>
    /\ session'.pending = session.pending /\ session'.next = session.next
    /\ session'.position = session.position /\ session'.caughtUpTail = session.caughtUpTail
    /\ session'.inNext => session.inNext
    /\ ctxDone => ctxDone'
    /\ ClaimsNoMore(caughtUp', caughtUp)

(* They keep all but what is said of errors. *)
LEMMA QuietStep ==
    ASSUME ReadInv, TypeOK', QuietEffect, ErrorOK', EndOK'
    PROVE  ReadInv'
<1>c. /\ TypeOK /\ SessionOK /\ ChannelOK /\ OriginOK /\ ReaderOK /\ ConnOK /\ LimitOK
      /\ WaitOK /\ CaughtUpOK /\ CaughtUpIsTrue
    BY DEF ReadInv
<1> USE DEF QuietEffect
<1>s. Taken' = Taken /\ Sent' = Sent /\ Received' = Received /\ Waiting' = Waiting
      /\ Gap' = Gap /\ OnTheWay' = OnTheWay
    BY DEF Taken, Sent, Received, Waiting, Gap, OnTheWay
<1>1. SessionOK'
    BY <1>c DEF SessionOK
<1>2. ChannelOK' /\ OriginOK'
    BY <1>c, <1>s DEF ChannelOK, OriginOK
<1>3. ReaderOK' /\ ConnOK' /\ LimitOK'
    BY <1>c, <1>s DEF ReaderOK, ConnOK, LimitOK
<1>4. WaitOK'
    BY <1>c, <1>s DEF WaitOK
<1>5. CaughtUpOK' /\ CaughtUpIsTrue'
    BY <1>c, CaughtUpKept
<1> QED BY <1>1, <1>2, <1>3, <1>4, <1>5 DEF ReadInv

(* Where the error is, for a call of Next that is in its loop. *)
LEMMA ErrorFor ==
    ASSUME TypeOK, ErrorOK, session.inNext, reader.at \in Ending
    PROVE  (IF session.readerDone \/ errorCh = <<>> THEN session.readerErr ELSE Head(errorCh))
              = reader.terminalErr
<1>1. CASE session.readerDone
    BY <1>1 DEF ErrorOK
<1>2. CASE ~session.readerDone /\ reader.terminalErr = NoErr
    BY <1>2 DEF ErrorOK
<1>3. CASE ~session.readerDone /\ reader.terminalErr # NoErr
    <2>1. errorCh = <<reader.terminalErr>>
        BY <1>3 DEF ErrorOK
    <2>2. errorCh # <<>> /\ Head(errorCh) = reader.terminalErr
        BY <2>1
    <2> QED BY <1>3, <2>2
<1> QED BY <1>1, <1>2, <1>3

(* Next learns of the error, meets the end, or the session is stopped. *)
LEMMA StopStep ==
    ASSUME ReadInv, TypeOK', NextSeesError \/ NextEnds \/ Close \/ CancelContext
    PROVE  ReadInv'
<1>c. /\ TypeOK /\ SessionOK /\ OriginOK /\ ReaderOK /\ ErrorOK /\ EndOK
    BY DEF ReadInv
<1>t. session \in SessionType /\ caughtUp \in CaughtUpType /\ NoErr \in Errors \cup {NoErr}
    BY <1>c DEF TypeOK
<1>0. ClaimsNoMore(caughtUp, caughtUp) /\ ClaimsNoMore(End(caughtUp, NoErr), caughtUp)
    BY <1>t, ClaimsTakenBack
<1>1. CASE NextSeesError
    <2>1. /\ session.inNext /\ ~session.readerDone /\ (errorCh # <<>> \/ recordsClosed)
          /\ session'.readerDone /\ errorCh' = <<>>
          /\ session'.readerErr = IF errorCh = <<>> THEN NoErr ELSE Head(errorCh)
          /\ session'.closed = session.closed /\ session'.finished = session.finished
          /\ session'.inNext = session.inNext /\ session'.err = session.err
        BY <1>t, <1>1 DEF NextSeesError, SessionType
    <2>2. QuietEffect
        BY <1>t, <1>0, <1>1 DEF NextSeesError, QuietEffect, SessionType
    <2>3. reader.at \in Ending /\ session.readerErr = NoErr
        BY <1>c, <2>1 DEF ErrorOK, Ending
    <2>4. session'.readerErr = reader.terminalErr
        BY <1>c, <2>1, <2>3, ErrorFor
    <2>5. UNCHANGED <<reader, recordsClosed, returned, origin>>
        BY <2>2 DEF QuietEffect
    <2>6. ErrorOK' /\ EndOK'
        BY <1>c, <2>1, <2>3, <2>4, <2>5 DEF ErrorOK, EndOK
    <2> QED BY <2>2, <2>6, QuietStep
<1>2. CASE NextEnds
    <2> DEFINE err == IF ~ session.readerDone /\ errorCh # <<>> THEN Head(errorCh)
                      ELSE session.readerErr
               s == [session EXCEPT !.readerErr = err, !.err = err, !.inNext = FALSE,
                                    !.finished = ~ ctxDone]
    <2>1. /\ session.inNext /\ recordsCh = <<>> /\ recordsClosed /\ errorCh' = <<>>
          /\ ClosedSession(s)
          /\ UNCHANGED <<tail, conn, faults, reader, recordsCh, recordsClosed, returned, origin>>
        BY <1>2 DEF NextEnds
    <2> HIDE DEF err
    <2>2. /\ session'.err = err /\ session'.closed /\ ~session'.inNext
          /\ session'.finished = ~ctxDone /\ ctxDone'
          /\ session'.pending = session.pending /\ session'.next = session.next
          /\ session'.position = session.position /\ session'.caughtUpTail = session.caughtUpTail
        BY <1>t, <2>1 DEF ClosedSession, SessionType
    <2>3. caughtUp' = caughtUp \/ caughtUp' = End(caughtUp, NoErr)
        BY <2>1 DEF ClosedSession
    <2>4. QuietEffect
        BY <1>0, <2>1, <2>2, <2>3 DEF QuietEffect
    <2>5. reader.at = "done" /\ reader.at \in Ending
        BY <1>c, <2>1 DEF ErrorOK, Ending
    <2>6. err = reader.terminalErr
        BY <1>c, <2>1, <2>5, ErrorFor DEF err
    <2>7. ErrorOK'
        BY <2>1, <2>2, <2>5 DEF ErrorOK
    <2>8. ASSUME ~ctxDone, ~StartAtTail, reader.nextSeq # NoPos
          PROVE  origin # NoPos /\ returned = VisibleBetween(0, reader.nextSeq)
        <3>1. reader.nextSeq = Received /\ origin # NoPos
            BY <1>c, <2>8 DEF ReaderOK
        <3>2. Received = Taken
            BY <2>1, <2>5 DEF Received, Sent
        <3>3. session.next = NoPos
            BY <1>c, <2>1 DEF SessionOK
        <3>4. returned = VisibleBetween(0, Taken)
            BY <1>c, <2>8, <3>3, ReturnedToTaken
        <3> QED BY <3>1, <3>2, <3>4
    <2>9. EndOK'
        BY <2>1, <2>2, <2>6, <2>8 DEF EndOK
    <2> QED BY <2>4, <2>7, <2>9, QuietStep
<1>3. CASE Close
    <2>1. /\ ~session.closed /\ ClosedSession(session)
          /\ UNCHANGED <<tail, conn, faults, reader, recordsCh, recordsClosed, errorCh, returned,
                         origin>>
        BY <1>3 DEF Close
    <2>2. /\ session'.closed /\ session'.inNext = session.inNext /\ ctxDone'
          /\ session'.finished = session.finished
          /\ session'.readerDone = session.readerDone /\ session'.readerErr = session.readerErr
          /\ session'.pending = session.pending /\ session'.next = session.next
          /\ session'.position = session.position /\ session'.caughtUpTail = session.caughtUpTail
        BY <1>t, <2>1 DEF ClosedSession, SessionType
    <2>3. caughtUp' = caughtUp \/ caughtUp' = End(caughtUp, NoErr)
        BY <2>1 DEF ClosedSession
    <2>4. QuietEffect
        BY <1>0, <2>1, <2>2, <2>3 DEF QuietEffect
    <2>5. ErrorOK' /\ EndOK'
        BY <1>c, <2>1, <2>2 DEF ErrorOK, EndOK
    <2> QED BY <2>4, <2>5, QuietStep
<1>4. CASE CancelContext
    <2>1. QuietEffect
        BY <1>0, <1>4 DEF CancelContext, QuietEffect
    <2>2. ErrorOK' /\ EndOK'
        BY <1>c, <1>4 DEF CancelContext, ErrorOK, EndOK
    <2> QED BY <2>1, <2>2, QuietStep
<1> QED BY <1>1, <1>2, <1>3, <1>4

(* A future that is asked for starts out with what the session knows. *)
LEMMA FutureStep ==
    ASSUME ReadInv, TypeOK', NEW f \in Futures, NewFuture(f)
    PROVE  ReadInv'
<1>c. /\ TypeOK /\ SessionOK /\ ChannelOK /\ OriginOK /\ ReaderOK /\ ConnOK /\ LimitOK
      /\ WaitOK /\ CaughtUpOK /\ CaughtUpIsTrue /\ ErrorOK /\ EndOK
    BY DEF ReadInv
<1>u. UNCHANGED <<tail, conn, faults, reader, recordsCh, recordsClosed, errorCh, ctxDone,
                  session, returned, origin>>
    BY DEF NewFuture
<1>t. /\ caughtUp \in CaughtUpType /\ caughtUp.tail \in Int /\ session.position \in Int
    BY <1>c DEF TypeOK, CaughtUpType, SessionType, Pos, NoPos
<1>1. /\ caughtUp'.tail = caughtUp.tail /\ caughtUp'.terminalErr = caughtUp.terminalErr
      /\ \A g \in Futures \ {f} : caughtUp'.future[g] = caughtUp.future[g]
      /\ caughtUp'.future[f].is = "tail" =>
            caughtUp.tail # NoPos /\ caughtUp'.future[f].tail = caughtUp.tail
    <2>1. CASE caughtUp.tail # NoPos
        BY <1>t, <2>1 DEF NewFuture, CaughtUpType
    <2>2. CASE caughtUp.tail = NoPos /\ caughtUp.terminalErr # NoErr
        BY <1>t, <2>2 DEF NewFuture, CaughtUpType
    <2>3. CASE caughtUp.tail = NoPos /\ caughtUp.terminalErr = NoErr
        BY <1>t, <2>3 DEF NewFuture, CaughtUpType
    <2> QED BY <2>1, <2>2, <2>3
<1>s. Taken' = Taken /\ Sent' = Sent /\ Received' = Received /\ Waiting' = Waiting
      /\ Gap' = Gap /\ OnTheWay' = OnTheWay
    BY <1>u DEF Taken, Sent, Received, Waiting, Gap, OnTheWay
<1>2. SessionOK' /\ ChannelOK' /\ OriginOK' /\ WaitOK' /\ ErrorOK' /\ EndOK'
    BY <1>c, <1>u, <1>s DEF SessionOK, ChannelOK, OriginOK, WaitOK, ErrorOK, EndOK
<1>3. ReaderOK' /\ ConnOK' /\ LimitOK'
    BY <1>c, <1>u, <1>s DEF ReaderOK, ConnOK, LimitOK
<1>4. CaughtUpOK'
    BY <1>c, <1>u, <1>1 DEF CaughtUpOK
<1>5. CaughtUpIsTrue'
    <2>1. caughtUp.tail # NoPos => caughtUp.tail <= session.position
        BY <1>c, <1>t DEF CaughtUpIsTrue, IsCaughtUp, NextReadPosition
    <2>2. ASSUME NEW g \in Futures, caughtUp'.future[g].is = "tail"
          PROVE  caughtUp'.future[g].tail <= session'.position
        <3>1. CASE g = f
            BY <1>1, <1>u, <2>1, <2>2, <3>1
        <3>2. CASE g # f
            BY <1>c, <1>1, <1>u, <2>2, <3>2 DEF CaughtUpIsTrue, NextReadPosition
        <3> QED BY <3>1, <3>2
    <2> QED BY <1>c, <1>u, <1>1, <2>2 DEF CaughtUpIsTrue, IsCaughtUp, NextReadPosition
<1> QED BY <1>2, <1>3, <1>4, <1>5 DEF ReadInv

-----------------------------------------------------------------------------
(* The stream and the server.                                              *)

(* They change the response and the tail only. *)
ServerEffect ==
    /\ UNCHANGED <<reader, recordsCh, recordsClosed, errorCh, caughtUp, ctxDone, session,
                   returned, origin>>
    /\ tail <= tail'

(* All but what is said of the response is kept. *)
LEMMA ServerKeeps ==
    ASSUME ReadInv, TypeOK', ServerEffect, ConnOK', LimitOK'
    PROVE  ReadInv'
<1>c. /\ TypeOK /\ SessionOK /\ ChannelOK /\ OriginOK /\ ReaderOK
      /\ WaitOK /\ CaughtUpOK /\ CaughtUpIsTrue /\ ErrorOK /\ EndOK
    BY DEF ReadInv
<1> USE DEF ServerEffect
<1>t. tail \in Int /\ tail' \in Int
    BY <1>c, ReadAssumption DEF TypeOK
<1>s. Taken' = Taken /\ Sent' = Sent /\ Received' = Received /\ Waiting' = Waiting
    BY DEF Taken, Sent, Received, Waiting
<1>n. Received \in Int
    <2>1. session.next \in Int /\ session.position \in Int /\ reader.frame.upto \in Int
        BY SMTT(40), <1>c DEF TypeOK, SessionType, ReaderType, Frames, Pos, NoPos
    <2>2. Taken \in Int
        BY <2>1 DEF Taken
    <2>3. recordsCh # <<>> => recordsCh[Len(recordsCh)].next \in Int
        <3>1. recordsCh # <<>> => recordsCh[Len(recordsCh)] \in Deliveries
            BY <1>c DEF TypeOK
        <3> QED BY <3>1 DEF Deliveries
    <2> QED BY <2>1, <2>2, <2>3 DEF Received, Sent
<1>1. SessionOK' /\ ChannelOK' /\ OriginOK' /\ WaitOK' /\ ErrorOK' /\ EndOK'
    BY <1>c, <1>s DEF SessionOK, ChannelOK, OriginOK, WaitOK, ErrorOK, EndOK
<1>2. ReaderOK'
    BY <1>c, <1>s, <1>t, <1>n DEF ReaderOK
<1>3. CaughtUpOK' /\ CaughtUpIsTrue'
    BY <1>c DEF CaughtUpOK, CaughtUpIsTrue, IsCaughtUp, NextReadPosition
<1> QED BY <1>1, <1>2, <1>3 DEF ReadInv

(* Records are appended, batches are sent, responses end and break. *)
LEMMA ServerStepKeeps ==
    ASSUME ReadInv, TypeOK',
           \/ AppendRecord \/ ServerFinishes \/ Break
           \/ \E err \in ServerErrors : ServerEnds(err)
           \/ \E n \in 0 .. BatchSize, withTail, advised \in BOOLEAN : SendBatch(n, withTail, advised)
    PROVE  ReadInv'
<1>c. TypeOK /\ ConnOK /\ LimitOK
    BY DEF ReadInv
<1>t. /\ conn \in Conns /\ tail \in Nat /\ reader.recordsRead \in Nat /\ conn.pos \in Nat
      /\ conn.left \in Nat \cup {NoLimit} /\ conn.frames \in Seq(Frames)
      /\ Count \in Nat \cup {NoLimit} /\ NoLimit \notin Nat
    BY <1>c, ReadAssumption DEF TypeOK, Conns, ReaderType
<1>1. CASE AppendRecord
    <2>1. ServerEffect /\ conn' = conn /\ tail' = tail + 1
        BY <1>t, <1>1 DEF AppendRecord, ServerEffect
    <2>2. Received' = Received /\ Gap' = Gap /\ OnTheWay' = OnTheWay
        BY <2>1 DEF ServerEffect, Received, Sent, Taken, Gap, OnTheWay
    <2>3. ConnOK' /\ LimitOK'
        BY <1>c, <1>t, <2>1, <2>2 DEF ServerEffect, ConnOK, LimitOK
    <2> QED BY <2>1, <2>3, ServerKeeps
<1>e. reader.at \in Receiving /\ conn.frames # <<>> => OnTheWay \in Nat
    <2> SUFFICES ASSUME reader.at \in Receiving, conn.frames # <<>> PROVE OnTheWay \in Nat
        OBVIOUS
    <2> DEFINE f == Head(conn.frames)
    <2>1. f \in Frames /\ f.from <= f.upto
        BY <1>c, <1>t, FirstOf DEF ConnOK, FrameOK
    <2>2. OnTheWay = f.upto - f.from
        BY DEF OnTheWay
    <2> HIDE DEF f
    <2> QED BY <2>1, <2>2 DEF Frames
<1>2. CASE ServerFinishes \/ \E err \in ServerErrors : ServerEnds(err)
    <2>1. PICK end : Reading /\ conn' = [conn EXCEPT !.end = end] /\ tail' = tail /\ ServerEffect
        BY SMTT(40), <1>t, <1>2 DEF ServerFinishes, ServerEnds, ServerEffect
    <2>2. conn'.pos = conn.pos /\ conn'.left = conn.left /\ conn'.frames = conn.frames
        BY <1>t, <2>1 DEF Conns
    <2>3. Received' = Received /\ Gap' = Gap /\ OnTheWay' = OnTheWay /\ conn.end = "open"
        BY <2>1, <2>2 DEF ServerEffect, Received, Sent, Taken, Gap, OnTheWay, Reading
    <2>4. ConnOK' /\ LimitOK'
        BY <1>c, <2>1, <2>2, <2>3 DEF ServerEffect, ConnOK, LimitOK
    <2> QED BY <2>1, <2>4, ServerKeeps
<1>3. CASE Break
    <2>1. /\ conn' = [conn EXCEPT !.end = "retryable", !.frames = <<>>]
          /\ tail' = tail /\ ServerEffect
        BY <1>t, <1>3 DEF Break, ServerEffect
    <2>2. /\ conn'.pos = conn.pos /\ conn'.left = conn.left /\ conn'.frames = <<>>
          /\ conn'.end # "open"
        BY <1>t, <2>1 DEF Conns
    <2>3. OnTheWay' = 0 /\ Len(conn'.frames) = 0 /\ reader' = reader
        BY <2>1, <2>2 DEF OnTheWay, ServerEffect
    <2>4. ConnOK'
        BY <1>c, <2>1, <2>2, <2>3 DEF ConnOK
    <2>5. LimitOK'
        <3>1. reader.at \in Receiving => OnTheWay \in Nat
            BY <1>e DEF OnTheWay
        <3> QED BY <1>c, <1>t, <2>2, <2>3, <3>1 DEF LimitOK
    <2> QED BY <2>1, <2>4, <2>5, ServerKeeps
<1>4. ASSUME NEW n \in 0 .. BatchSize, NEW withTail \in BOOLEAN, NEW advised \in BOOLEAN,
             SendBatch(n, withTail, advised)
      PROVE  ReadInv'
    <2> DEFINE f == [from |-> conn.pos, upto |-> conn.pos + n,
                     tail |-> IF withTail THEN tail ELSE NoPos, advised |-> advised]
    <2>0. n \in Nat
        BY ReadAssumption
    <2>1. /\ Reading /\ conn.frames = <<>> /\ conn.pos + n <= tail
          /\ conn.left # NoLimit => n <= conn.left
          /\ n = 0 => conn.pos = tail
          /\ tail' = tail /\ ServerEffect
          /\ conn' = [conn EXCEPT !.pos = conn.pos + n,
                                  !.left = IF conn.left = NoLimit THEN conn.left ELSE conn.left - n,
                                  !.frames = <<f>>]
        <3>1. /\ Reading /\ conn.frames = <<>> /\ conn.pos + n <= tail
              /\ conn.left # NoLimit => n <= conn.left
              /\ n = 0 => conn.pos = tail
            BY <1>4 DEF SendBatch
        <3>2. tail' = tail /\ ServerEffect
            <4>1. UNCHANGED <<tail, reader, recordsCh, recordsClosed, errorCh, caughtUp, ctxDone,
                              session, returned, origin>>
                BY <1>4 DEF SendBatch
            <4>2. tail <= tail
                BY <1>t
            <4> QED BY <4>1, <4>2 DEF ServerEffect
        <3>3. conn' = [conn EXCEPT !.pos = conn.pos + n,
                                   !.left = IF conn.left = NoLimit THEN conn.left ELSE conn.left - n,
                                   !.frames = <<f>>]
            BY <1>4 DEF SendBatch
        <3> HIDE DEF f
        <3> QED BY <3>1, <3>2, <3>3
    <2>2. /\ f.from = conn.pos /\ f.upto = conn.pos + n /\ FrameOK(f)
        BY <1>t, <2>0, <2>1 DEF FrameOK
    <2> HIDE DEF f
    <2>3. /\ conn'.pos = conn.pos + n /\ conn'.frames = <<f>> /\ conn'.end = conn.end
          /\ conn'.left = IF conn.left = NoLimit THEN conn.left ELSE conn.left - n
        BY <1>t, <2>1 DEF Conns
    <2>4. /\ Len(conn'.frames) = 1 /\ Head(conn'.frames) = f /\ conn'.frames # <<>>
        BY <2>3
    <2>5. Received' = Received /\ Gap' = Gap /\ OnTheWay = 0 /\ OnTheWay' = n /\ reader' = reader
        BY <1>t, <2>0, <2>1, <2>2, <2>4 DEF ServerEffect, Received, Sent, Taken, Gap, OnTheWay
    <2>6. reader.at \in Receiving /\ conn.end = "open"
        BY <2>1 DEF Reading, Receiving
    <2>7. ConnOK'
        BY <1>c, <1>t, <2>0, <2>1, <2>2, <2>3, <2>4, <2>5, <2>6 DEF ConnOK
    <2>8. LimitOK'
        <3>1. CASE Count # NoLimit
            <4>1. conn.left \in Nat /\ reader.recordsRead + conn.left <= Count
                BY <1>c, <1>t, <2>5, <2>6, <3>1 DEF LimitOK
            <4>2. conn'.left = conn.left - n /\ conn'.left \in Nat
                BY <1>t, <2>0, <2>1, <2>3, <4>1
            <4> QED BY <1>c, <1>t, <2>0, <2>5, <4>1, <4>2 DEF LimitOK
        <3> QED BY <3>1 DEF LimitOK
    <2> QED BY <2>1, <2>7, <2>8, ServerKeeps
<1> QED BY <1>1, <1>2, <1>3, <1>4

-----------------------------------------------------------------------------
(* The theorems.                                                           *)

(* The invariant holds at first ... *)
LEMMA ReadInit ==
    ASSUME Init
    PROVE  ReadInv
<1> USE ReadAssumption DEF Init
<1>1. TypeOK
    <2>1. conn \in Conns
        BY DEF NoConn, Conns
    <2>2. reader \in ReaderType
        BY DEF ReaderType, NoFrame, Frames, Pos
    <2>3. caughtUp \in CaughtUpType
        BY DEF CaughtUpType, Pos
    <2>4. session \in SessionType
        BY DEF SessionType, Pos
    <2>5. /\ recordsCh \in Seq(Deliveries) /\ Len(recordsCh) <= BatchesBuffer
          /\ errorCh \in Seq(Errors) /\ Len(errorCh) <= 1 /\ returned \in Seq(Nat)
        <3>1. <<>> \in Seq(Deliveries) /\ <<>> \in Seq(Errors) /\ <<>> \in Seq(Nat) /\ Len(<<>>) = 0
            OBVIOUS
        <3> QED BY <3>1
    <2>6. tail \in 0 .. MaxTail /\ faults \in 0 .. MaxFaults
        OBVIOUS
    <2> QED BY <2>1, <2>2, <2>3, <2>4, <2>5, <2>6 DEF TypeOK, Pos
<1>l. \A i \in 1 .. Len(recordsCh) : FALSE
    <2>1. Len(<<>>) = 0
        OBVIOUS
    <2> QED BY <2>1
<1>f. reader.at = "attempt" /\ session.next = NoPos /\ session.position = NoPos
    OBVIOUS
<1>r. Taken = 0 /\ Sent = 0 /\ Received = 0
    BY <1>f DEF Taken, Sent, Received
<1>2. SessionOK /\ OriginOK
    BY DEF SessionOK, OriginOK
<1>3. ChannelOK /\ WaitOK
    BY <1>l DEF ChannelOK, WaitOK
<1>4. ReaderOK /\ ConnOK /\ LimitOK
    BY <1>r DEF ReaderOK, ConnOK, LimitOK, Receiving
<1>5. CaughtUpOK /\ CaughtUpIsTrue
    BY DEF CaughtUpOK, CaughtUpIsTrue, IsCaughtUp
<1>6. ErrorOK /\ EndOK
    BY DEF ErrorOK, EndOK, Ending
<1> QED BY <1>1, <1>2, <1>3, <1>4, <1>5, <1>6 DEF ReadInv

(* ... and every step keeps it. *)
LEMMA ReadStep ==
    ASSUME ReadInv, [Next]_vars
    PROVE  ReadInv'
<1>1. TypeOK'
    BY TypeStep DEF ReadInv
<1>2. CASE Control
    BY <1>1, <1>2, ControlStep
<1>3. CASE ReceiveBatch
    BY <1>1, <1>3, ReceiveStep
<1>4. CASE SendDelivery
    BY <1>1, <1>4, SendStep
<1>5. CASE NextCalled
    BY <1>1, <1>5, CallStep
<1>6. CASE NextReceives
    BY <1>1, <1>6, TakeStep
<1>7. CASE NextSeesError \/ NextEnds \/ Close \/ CancelContext
    BY <1>1, <1>7, StopStep
<1>8. CASE \E f \in Futures : NewFuture(f)
    BY <1>1, <1>8, FutureStep
<1>9. CASE \/ AppendRecord \/ ServerFinishes \/ Break
           \/ \E err \in ServerErrors : ServerEnds(err)
           \/ \E n \in 0 .. BatchSize, withTail, advised \in BOOLEAN : SendBatch(n, withTail, advised)
    BY <1>1, <1>9, ServerStepKeeps
<1>10. CASE \E n \in 1 .. BatchSize : SendBatch(n, TRUE, FALSE)
    <2>1. \E n \in 0 .. BatchSize, withTail, advised \in BOOLEAN : SendBatch(n, withTail, advised)
        <3>1. PICK n \in 1 .. BatchSize : SendBatch(n, TRUE, FALSE)
            BY <1>10
        <3>2. n \in 0 .. BatchSize
            OBVIOUS
        <3> QED BY <3>1, <3>2
    <2> QED BY <1>9, <2>1
<1>11. CASE UNCHANGED vars
    <2> USE <1>11 DEF vars
    <2>1. Taken' = Taken /\ Sent' = Sent /\ Received' = Received /\ Waiting' = Waiting
          /\ Gap' = Gap /\ OnTheWay' = OnTheWay
        BY DEF Taken, Sent, Received, Waiting, Gap, OnTheWay
    <2>2. SessionOK' /\ ChannelOK' /\ OriginOK' /\ WaitOK' /\ ErrorOK' /\ EndOK'
        BY <2>1 DEF ReadInv, SessionOK, ChannelOK, OriginOK, WaitOK, ErrorOK, EndOK
    <2>3. ReaderOK' /\ ConnOK' /\ LimitOK'
        BY <2>1 DEF ReadInv, ReaderOK, ConnOK, LimitOK
    <2>4. CaughtUpOK' /\ CaughtUpIsTrue'
        BY DEF ReadInv, CaughtUpOK, CaughtUpIsTrue, IsCaughtUp, NextReadPosition
    <2> QED BY <1>1, <2>2, <2>3, <2>4 DEF ReadInv
<1> QED BY <1>2, <1>3, <1>4, <1>5, <1>6, <1>7, <1>8, <1>9, <1>10, <1>11
        DEF Next, ReaderStep, NextStep, ServerStep, Control

(* The invariant holds always. *)
LEMMA ReadInvHolds == Spec => []ReadInv
<1>1. Init => ReadInv
    BY ReadInit
<1>2. ReadInv /\ [Next]_vars => ReadInv'
    BY ReadStep
<1> QED BY <1>1, <1>2, PTL DEF Spec

(* The variables of the reader, the channels, the caught-up state and the  *)
(* session keep their types; in particular the channel never holds more    *)
(* deliveries than its buffer, and errorCh never more than one error.      *)
THEOREM ReadTypeCorrect == Spec => []TypeOK
<1>1. ReadInv => TypeOK
    BY DEF ReadInv
<1> QED BY <1>1, ReadInvHolds, PTL

(* Whatever the reader, the server and the application do: IsCaughtUp is   *)
(* true only while every record before the reported tail has been          *)
(* returned, and a CaughtUpFuture resolves to a tail only when they were.  *)
THEOREM CaughtUpHolds == Spec => []CaughtUpIsTrue
<1>1. ReadInv => CaughtUpIsTrue
    BY DEF ReadInv
<1> QED BY <1>1, ReadInvHolds, PTL

(* All attempts of a session together fetch no more records than its       *)
(* limit, however often it reconnects.                                     *)
THEOREM LimitHolds == Spec => [](Count # NoLimit => reader.recordsRead <= Count)
<1>1. ReadInv => (Count # NoLimit => reader.recordsRead <= Count)
    BY DEF ReadInv, LimitOK
<1> QED BY <1>1, ReadInvHolds, PTL

(* A session that starts at a sequence number returns exactly the records  *)
(* from there up to NextReadPosition, in order and each once, across       *)
(* reconnects, filtered command records, buffered batches and Close.       *)
THEOREM ReturnsExactly == ~StartAtTail /\ Spec => []ReturnedExactly
<1>1. ASSUME ~StartAtTail, ReadInv
      PROVE  ReturnedExactly
    <2>1. CASE session.position = NoPos
        BY <1>1, <2>1 DEF ReadInv, SessionOK, ReturnedExactly, NextReadPosition
    <2>2. CASE session.position # NoPos
        <3>1. origin = 0
            BY <1>1, <2>2 DEF ReadInv, OriginOK
        <3> QED BY <1>1, <2>2, <3>1 DEF ReadInv, SessionOK, ReturnedExactly, NextReadPosition
    <2> QED BY <2>1, <2>2
<1>2. ~StartAtTail /\ ReadInv => ReturnedExactly
    BY <1>1
<1>3. CASE StartAtTail
    BY <1>3
<1>4. CASE ~StartAtTail
    <2>1. ReadInv => ReturnedExactly
        BY <1>2, <1>4
    <2> QED BY <2>1, ReadInvHolds, PTL
<1> QED BY <1>3, <1>4

(* When Next reports the end of such a session that nobody stopped, Err is *)
(* the error the reader ended with, every record fetched was returned, and *)
(* no more was fetched than the session asked for.                         *)
THEOREM EndsCompletely == ~StartAtTail /\ Spec => []EndIsComplete
<1>1. ASSUME ~StartAtTail, ReadInv
      PROVE  EndIsComplete
    <2>1. ASSUME session.finished, reader.nextSeq # NoPos
          PROVE  returned = VisibleBetween(origin, reader.nextSeq)
        <3>1. origin = 0
            BY <1>1, <2>1 DEF ReadInv, EndOK, OriginOK
        <3> QED BY <1>1, <2>1, <3>1 DEF ReadInv, EndOK
    <2> QED BY <1>1, <2>1 DEF ReadInv, EndOK, LimitOK, EndIsComplete
<1>2. ~StartAtTail /\ ReadInv => EndIsComplete
    BY <1>1
<1>3. CASE StartAtTail
    BY <1>3
<1>4. CASE ~StartAtTail
    <2>1. ReadInv => EndIsComplete
        BY <1>2, <1>4
    <2> QED BY <2>1, ReadInvHolds, PTL
<1> QED BY <1>3, <1>4

=============================================================================
