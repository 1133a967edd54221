-------------------------- MODULE StreamLoggerProofs --------------------------
(***************************************************************************)
(* Proofs about StreamLogger: type correctness and the order of the log,   *)
(* for every ring size, every step of the source and every kind of frame,  *)
(* and that a gap in the log is a lost frame and a ring, where the step    *)
(* is one.                                                                 *)
(***************************************************************************)
EXTENDS StreamLogger, TLAPS

-----------------------------------------------------------------------------
(***************************************************************************)
(* What the logger needs of the ring: the slot at its index and the next.  *)
(***************************************************************************)

\* A remainder is below its divisor.
LEMMA ModRange == ASSUME NEW a \in Int, NEW b \in Nat \ {0} PROVE a % b \in 0 .. b - 1
  BY Z3

\* A number below the divisor is its own remainder.
LEMMA ModSmall == ASSUME NEW b \in Nat \ {0}, NEW a \in 0 .. b - 1 PROVE a % b = a
  BY Z3

\* One turn above: subtract the divisor once.
LEMMA ModTurn == ASSUME NEW b \in Nat \ {0}, NEW a \in b .. 2 * b - 1 PROVE a % b = a - b
  BY Z3

\* The only multiple of b strictly between -b and b is 0.
LEMMA NoSmallMultiple ==
  ASSUME NEW b \in Nat \ {0}, NEW d \in Int, -b < b * d, b * d < b
  PROVE  d = 0
<1>1. ~(d >= 1)
  <2>1. d >= 1 => b * d >= b
    BY Z3
  <2> QED  BY <2>1
<1>2. ~(d <= -1)
  <2>1. d <= -1 => b * d <= -b
    BY Z3
  <2> QED  BY <2>1
<1> QED  BY <1>1, <1>2

\* get_head always names a slot of the ring.
LEMMA GetHeadInSlots ==
  ASSUME NEW h \in Int, NEW index \in Int
  PROVE  GetHead(h, index) \in Slots
<1> DEFINE w == ToWord(h - index) % NumFrames
<1>1. ToWord(h - index) \in Int
  BY RingAssumption, ModRange DEF ToWord
<1>2. w \in Int
  BY <1>1, RingAssumption, ModRange
<1>3. ToWord(w + NumFrames) \in Int
  BY <1>2, RingAssumption, ModRange DEF ToWord
<1> QED  BY <1>3, RingAssumption, ModRange DEF GetHead, Slots

\* The two outer steps of get_head undo each other on a slot number.
LEMMA GetHeadOuter ==
  ASSUME NEW s \in Slots
  PROVE  ToWord(s + NumFrames) % NumFrames = s
<1>1. ToWord(s + NumFrames) = s + NumFrames
  BY RingAssumption, ModSmall DEF ToWord, Slots
<1>2. s + NumFrames \in NumFrames .. 2 * NumFrames - 1
  BY RingAssumption DEF Slots
<1> QED  BY <1>1, <1>2, RingAssumption, ModTurn DEF Slots

\* get_head(-1) is the slot after the head, whatever the word size.
LEMMA GetHeadNext ==
  ASSUME NEW h \in Slots
  PROVE  GetHead(h, -1) = Succ(h)
<1>1. ToWord(h + 1) = h + 1
  BY RingAssumption, ModSmall DEF ToWord, Slots
<1>2. (h + 1) % NumFrames = Succ(h)
  <2>1. CASE h = NumFrames - 1
    BY <2>1, RingAssumption, ModTurn DEF Slots, Succ
  <2>2. CASE h # NumFrames - 1
    <3>1. h + 1 \in 0 .. NumFrames - 1
      BY <2>2, RingAssumption DEF Slots
    <3> QED  BY <2>2, <3>1, RingAssumption, ModSmall DEF Succ
  <2> QED  BY <2>1, <2>2
<1>3. Succ(h) \in Slots
  BY RingAssumption DEF Slots, Succ
<1>4. h - (-1) = h + 1
  BY DEF Slots
<1> QED  BY <1>1, <1>2, <1>3, <1>4, GetHeadOuter DEF GetHead

-----------------------------------------------------------------------------
(***************************************************************************)
(* Types.                                                                  *)
(***************************************************************************)

LEMMA ZeroFrameType == ZeroFrame \in FrameType
BY LoggerAssumption DEF ZeroFrame, Frame, FrameType, Sequences

LEMMA ReadsType == ASSUME TypeOK, NEW s \in Slots, NEW f \in Reads(s)
                   PROVE f \in FrameType
<1>1. frames[s] \in FrameType /\ incoming \in FrameType
  BY DEF TypeOK
<1>2. \A a, b \in FrameType : Frame(a.sequence, b.kind) \in FrameType
  BY DEF Frame, FrameType
<1>3. Torn(frames[s], incoming) \subseteq FrameType
  BY <1>1, <1>2, ZeroFrameType DEF Torn
<1> QED
  BY <1>1, <1>3 DEF Reads

LEMMA RelativeSlots == ASSUME NEW h \in Slots
                       PROVE GetHead(h, 1) \in Slots /\ GetHead(h, -1) \in Slots
<1>1. h \in Int /\ 1 \in Int /\ -1 \in Int
  BY RingAssumption DEF Slots
<1> QED
  BY <1>1, GetHeadInSlots

LEMMA AppendType == ASSUME NEW S, NEW q \in Seq(S), NEW e \in S
                    PROVE Append(q, e) \in Seq(S)
OBVIOUS

LEMMA SequencesAreInts == Sequences \subseteq Int
BY LoggerAssumption, RingAssumption DEF Sequences

LEMMA ExpectedIsInt == TypeOK => current_sequence \in Int
<1>1. Word - 2 \in Int /\ MaxSequence \in 0 .. Word - 2
  BY LoggerAssumption, RingAssumption
<1>2. MaxSequence \in Int
  BY <1>1
<1>3. TypeOK => current_sequence \in 0 .. MaxSequence + 1
  BY DEF TypeOK
<1> QED
  BY <1>2, <1>3

LEMMA FrameSequence ==
  ASSUME NEW f \in FrameType
  PROVE  /\ f.sequence \in Sequences /\ f.sequence \in Int
         /\ f.sequence \in 0 .. MaxSequence + 1
         /\ f.sequence + 1 \in 0 .. MaxSequence + 1
<1>1. f.sequence \in Sequences
  BY DEF FrameType
<1> QED
  BY <1>1, LoggerAssumption, RingAssumption DEF Sequences

LEMMA SubsetSeq == ASSUME NEW S, NEW T, S \subseteq T, NEW q \in Seq(S)
                   PROVE q \in Seq(T)
OBVIOUS

\* An increasing sequence below b stays increasing when e >= b is appended.
LEMMA AppendKeepsOrder ==
  ASSUME NEW q \in Seq(Int), NEW b \in Int, NEW e \in Int, e >= b,
         \A i \in 1 .. Len(q) : q[i] < b,
         \A i \in 1 .. Len(q) - 1 : q[i] < q[i + 1]
  PROVE  LET r == Append(q, e) IN
         /\ \A i \in 1 .. Len(r) : r[i] < e + 1
         /\ \A i \in 1 .. Len(r) - 1 : r[i] < r[i + 1]
<1> DEFINE r == Append(q, e)
<1>1. Len(r) = Len(q) + 1 /\ r[Len(q) + 1] = e /\ Len(q) \in Nat
  OBVIOUS
<1>2. \A i \in 1 .. Len(q) : r[i] = q[i] /\ q[i] \in Int
  OBVIOUS
<1> HIDE DEF r
<1>3. ASSUME NEW i \in 1 .. Len(r) PROVE r[i] < e + 1
  <2>1. CASE i = Len(q) + 1
    BY <1>1, <2>1
  <2>2. CASE i \in 1 .. Len(q)
    BY <1>2, <2>2
  <2> QED
    BY <1>1, <2>1, <2>2
<1>4. ASSUME NEW i \in 1 .. Len(r) - 1 PROVE r[i] < r[i + 1]
  <2>1. CASE i = Len(q)
    BY <1>1, <1>2, <2>1
  <2>2. CASE i \in 1 .. Len(q) - 1
    BY <1>1, <1>2, <2>2
  <2> QED
    BY <1>1, <2>1, <2>2
<1> QED
  BY <1>3, <1>4 DEF r

LEMMA NextSlot == ASSUME NEW s \in Slots PROVE (s + 1) % NumFrames \in Slots
BY RingAssumption DEF Slots

LEMMA TypeInit == Init => TypeOK
<1> SUFFICES ASSUME Init PROVE TypeOK
  OBVIOUS
<1>1. 0 \in Slots /\ 0 \in Sequences /\ 0 \in 0 .. MaxSequence + 1
  BY RingAssumption, LoggerAssumption DEF Slots, Sequences
<1>2. logged \in Seq(Sequences)
  BY DEF Init
<1> QED
  BY <1>1, <1>2, ZeroFrameType DEF Init, TypeOK

LEMMA WriteEntryType ==
  ASSUME TypeOK, NEW s \in Slots, NEW f \in FrameType, NEW next,
         next \in {"latest", "drain"},
         latest' \in Sequences, WriteEntry(f, s, next)
  PROVE TypeOK'
<1>1. f.sequence \in Sequences /\ f.sequence \in 0 .. MaxSequence + 1
      /\ f.sequence + 1 \in 0 .. MaxSequence + 1
  BY FrameSequence
<1>2. UNCHANGED <<head, frames, filling, incoming, newest, produced, initialized, slot>>
  BY DEF WriteEntry, writerVars
<1>3. /\ current_head' \in Slots /\ current_sequence' \in 0 .. MaxSequence + 1
      /\ pc' \in {"latest", "drain", "poll", "done"}
  BY <1>1, NextSlot DEF WriteEntry
<1>4. stop' \in BOOLEAN
  BY DEF WriteEntry, TypeOK
<1>5. logged' = logged \/ logged' = Append(logged, f.sequence)
  BY DEF WriteEntry
<1>6. logged' \in Seq(Sequences)
  BY <1>1, <1>5, AppendType DEF TypeOK
<1> QED
  BY <1>2, <1>3, <1>4, <1>6 DEF TypeOK

LEMMA TypeStep == TypeOK /\ [Next]_vars => TypeOK'
<1> SUFFICES ASSUME TypeOK, [Next]_vars PROVE TypeOK'
  OBVIOUS
<1>1. CASE UNCHANGED vars
  BY <1>1 DEF vars, writerVars, streamVars, TypeOK
<1>2. ASSUME NEW step \in Steps, NEW kind \in Kinds, BeginPublish(step, kind)
      PROVE TypeOK'
  <2>1. newest.sequence \in 0 .. MaxSequence /\ step \in Nat
    BY LoggerAssumption DEF TypeOK, FrameType, Sequences
  <2>2. incoming' \in FrameType
    BY <1>2, <2>1, LoggerAssumption DEF BeginPublish, Frame, FrameType, Sequences
  <2> QED
    BY <1>2, <2>2 DEF BeginPublish, TypeOK, streamVars
<1>3. CASE EndPublish
  <2>1. head' \in Slots
    BY <1>3, RelativeSlots DEF EndPublish, TypeOK
  <2>2. produced' \subseteq Sequences
    BY <1>3 DEF EndPublish, TypeOK, FrameType
  <2> QED
    BY <1>3, <2>1, <2>2 DEF EndPublish, TypeOK, streamVars
<1>4. CASE RequestStop
  BY <1>4 DEF RequestStop, TypeOK, writerVars, streamVars
<1>5. CASE Poll
  BY <1>5 DEF Poll, TypeOK, writerVars, streamVars
<1>6. CASE Aim
  <2>1. slot' \in Slots
    BY <1>6, RelativeSlots DEF Aim, TypeOK
  <2> QED
    BY <1>6, <2>1 DEF Aim, TypeOK, writerVars, streamVars
<1>7. CASE TakeInitial
  <2>1. PICK f \in Reads(slot) :
          \/ GiveUp
          \/ /\ initialized' = TRUE
             /\ current_head' = slot
             /\ current_sequence' = f.sequence
             /\ pc' = "latest"
             /\ UNCHANGED <<writerVars, stop, slot, latest, logged>>
    BY <1>7 DEF TakeInitial
  <2>2. f \in FrameType
    BY <2>1, ReadsType DEF TypeOK
  <2>3. f.sequence \in 0 .. MaxSequence + 1
    BY <2>2, FrameSequence
  <2> QED
    BY <2>1, <2>3 DEF GiveUp, TypeOK, writerVars, streamVars
<1>8. CASE TakeLatest
  <2>1. PICK f \in Reads(slot) :
          \/ GiveUp
          \/ WriteEntry(f, slot, "latest") /\ UNCHANGED latest
          \/ /\ latest' = f.sequence
             /\ pc' = "drain"
             /\ UNCHANGED <<writerVars, stop, streamVars, slot, logged>>
    BY <1>8 DEF TakeLatest
  <2>2. f \in FrameType /\ f.sequence \in Sequences
    BY <2>1, ReadsType DEF TypeOK, FrameType
  <2>3. CASE WriteEntry(f, slot, "latest") /\ UNCHANGED latest
    BY <2>2, <2>3, WriteEntryType DEF TypeOK
  <2> QED
    BY <2>1, <2>2, <2>3 DEF GiveUp, TypeOK, writerVars, streamVars
<1>9. CASE Drain
  <2>1. PICK f \in Reads(current_head) :
          \/ GiveUp
          \/ /\ WriteEntry(f, current_head, IF f.sequence + 1 > latest THEN "latest" ELSE "drain")
             /\ UNCHANGED latest
    BY <1>9 DEF Drain
  <2>2. f \in FrameType
    BY <2>1, ReadsType DEF TypeOK
  <2>3. CASE GiveUp
    BY <2>3 DEF GiveUp, TypeOK, writerVars, streamVars
  <2> QED
    BY <2>1, <2>2, <2>3, WriteEntryType DEF TypeOK
<1> QED
  BY <1>1, <1>2, <1>3, <1>4, <1>5, <1>6, <1>7, <1>8, <1>9 DEF Next, Publish, Work

\* Type correctness of the logger: the worker's slots are slots of the ring, so
\* it never asks for one the reader would refuse.
THEOREM TypeCorrect == Spec => []TypeOK
<1> QED
  BY TypeInit, TypeStep, PTL DEF Spec

-----------------------------------------------------------------------------
LEMMA OrderInit == Init => LogBehind /\ LoggedIncreasing
BY DEF Init, LogBehind, LoggedIncreasing

\* The one step that appends to the log appends a frame the worker expects or
\* a later one.
LEMMA WriteEntryOrder ==
  ASSUME TypeOK, LogBehind, LoggedIncreasing, initialized,
         NEW s, NEW f \in FrameType, NEW next,
         next \in {"latest", "drain"},
         f.sequence >= current_sequence, WriteEntry(f, s, next)
  PROVE (LogBehind /\ LoggedIncreasing)'
<1>1. f.sequence \in Int /\ current_sequence \in Int
  BY FrameSequence, ExpectedIsInt
<1>2. logged \in Seq(Int)
  BY SequencesAreInts, SubsetSeq DEF TypeOK
<1>3. initialized'
  BY DEF WriteEntry
<1>4. CASE f.kind = "good"
  <2>1. /\ logged' = Append(logged, f.sequence)
        /\ current_sequence' = f.sequence + 1
        /\ pc' \in {"latest", "drain"}
    BY <1>4 DEF WriteEntry
  <2>2. /\ \A i \in 1 .. Len(logged') : logged'[i] < current_sequence'
        /\ \A i \in 1 .. Len(logged') - 1 : logged'[i] < logged'[i + 1]
    BY <1>1, <1>2, <2>1, AppendKeepsOrder DEF LogBehind, LoggedIncreasing
  <2> QED
    BY <1>3, <2>1, <2>2 DEF LogBehind, LoggedIncreasing
<1>5. CASE f.kind # "good"
  <2>1. /\ logged' = logged /\ current_sequence' = f.sequence
        /\ pc' \in {"poll", "done"}
    BY <1>5 DEF WriteEntry
  <2>2. \A i \in 1 .. Len(logged) : logged[i] \in Int
    BY <1>2
  <2>3. ASSUME NEW i \in 1 .. Len(logged) PROVE logged[i] < f.sequence
    <3>1. logged[i] < current_sequence /\ logged[i] \in Int
      BY <2>2 DEF LogBehind
    <3> QED
      BY <1>1, <3>1
  <2> QED
    BY <1>3, <2>1, <2>3 DEF LogBehind, LoggedIncreasing
<1> QED
  BY <1>4, <1>5

LEMMA OrderStep ==
  TypeOK /\ LogBehind /\ LoggedIncreasing /\ [Next]_vars
    => (LogBehind /\ LoggedIncreasing)'
<1> SUFFICES ASSUME TypeOK, LogBehind, LoggedIncreasing, [Next]_vars
             PROVE (LogBehind /\ LoggedIncreasing)'
  OBVIOUS
<1> DEFINE Ordered == LogBehind /\ LoggedIncreasing
<1>1. CASE UNCHANGED <<pc, initialized, current_sequence, logged>>
  BY <1>1 DEF LogBehind, LoggedIncreasing
<1>2. CASE GiveUp
  BY <1>2 DEF GiveUp, streamVars, LogBehind, LoggedIncreasing
<1>3. CASE UNCHANGED vars \/ Publish \/ RequestStop
  <2>1. UNCHANGED <<pc, initialized, current_sequence, logged>>
    BY <1>3 DEF vars, Publish, BeginPublish, EndPublish, RequestStop, streamVars
  <2> QED
    BY <2>1, <1>1
<1>4. CASE Poll
  BY <1>4 DEF Poll, streamVars, LogBehind, LoggedIncreasing
<1>5. CASE Aim
  BY <1>5 DEF Aim, streamVars, LogBehind, LoggedIncreasing
<1>6. CASE TakeInitial
  <2>1. CASE GiveUp
    BY <2>1, <1>2
  <2>2. CASE initialized' = TRUE /\ pc' = "latest" /\ UNCHANGED logged
    <3>1. logged = <<>>
      BY <1>6 DEF TakeInitial, LogBehind
    <3>2. logged' = <<>> /\ Len(<<>>) = 0
      BY <2>2, <3>1
    <3>3. LoggedIncreasing' /\ \A i \in 1 .. Len(logged') : logged'[i] < current_sequence'
      BY <3>2 DEF LoggedIncreasing
    <3> QED
      BY <2>2, <3>3 DEF LogBehind
  <2> QED
    BY <1>6, <2>1, <2>2 DEF TakeInitial
<1>7. CASE TakeLatest
  <2>1. initialized /\ slot \in Slots
    BY <1>7 DEF TakeLatest, LogBehind, TypeOK
  <2>2. PICK f \in Reads(slot) :
          \/ GiveUp
          \/ NeedsResync(f.sequence) /\ WriteEntry(f, slot, "latest")
          \/ pc' = "drain" /\ UNCHANGED <<streamVars, logged>>
    BY <1>7 DEF TakeLatest
  <2>3. f \in FrameType
    BY <2>1, <2>2, ReadsType
  <2>4. CASE NeedsResync(f.sequence) /\ WriteEntry(f, slot, "latest")
    <3>1. f.sequence \in Int /\ current_sequence \in Int
      BY <2>3, FrameSequence, ExpectedIsInt
    <3>2. f.sequence >= current_sequence
      BY <2>4, <3>1, RingAssumption DEF NeedsResync, AvailableFrames
    <3> QED
      BY <2>1, <2>3, <2>4, <3>2, WriteEntryOrder
  <2>5. CASE pc' = "drain" /\ UNCHANGED <<streamVars, logged>>
    BY <2>1, <2>5 DEF streamVars, LogBehind, LoggedIncreasing
  <2> QED
    BY <1>2, <2>2, <2>4, <2>5
<1>8. CASE Drain
  <2>1. initialized /\ current_head \in Slots
    BY <1>8 DEF Drain, LogBehind, TypeOK
  <2>2. PICK f \in Reads(current_head) :
          \/ GiveUp
          \/ /\ f.sequence >= current_sequence
             /\ WriteEntry(f, current_head, IF f.sequence + 1 > latest THEN "latest" ELSE "drain")
    BY <1>8 DEF Drain
  <2>3. f \in FrameType
    BY <2>1, <2>2, ReadsType
  <2> QED
    BY <1>2, <2>1, <2>2, <2>3, WriteEntryOrder
<1> QED
  BY <1>3, <1>4, <1>5, <1>6, <1>7, <1>8 DEF Next, Work

\* However the writer laps the worker, whatever frames cannot be read or
\* written and whenever it resyncs, the log is in strictly increasing order of
\* sequence numbers: no frame twice, none after a later one.
THEOREM LogIsOrdered == Spec => []LoggedIncreasing
<1> QED
  BY TypeInit, TypeStep, OrderInit, OrderStep, PTL DEF Spec

-----------------------------------------------------------------------------
(***************************************************************************)
(* A source that numbers its frames one after the other: what the slots    *)
(* hold, where the logger is in the ring, and what it has passed over.     *)
(***************************************************************************)
Consecutive == Steps = {1}

\* The number of a frame tells its slot.
InItsSlot(q, s) == (q - 1) % NumFrames = s

\* A slot holds nothing or a frame of the last lap.
LapHeld ==
  /\ head = newest.sequence % NumFrames
  /\ produced = 1 .. newest.sequence
  /\ filling => incoming.sequence = newest.sequence + 1
  /\ \A s \in Slots : frames[s].sequence # 0 =>
       /\ InItsSlot(frames[s].sequence, s)
       /\ newest.sequence - NumFrames < frames[s].sequence
       /\ frames[s].sequence <= newest.sequence

\* The writer has taken the slot of frame q, for a frame it has published or is storing.
Overwritten(q) ==
  \/ q <= newest.sequence - NumFrames
  \/ filling /\ q <= newest.sequence + 1 - NumFrames

\* Frame q is lost and frame e a ring or more further on.
Jumped(q, e) == Overwritten(q) /\ e >= q + NumFrames

\* The logger is in the slot of the frame it expects: the one after the last it logged,
\* unless that one is lost.
InPlace ==
  logged # <<>> /\ ~Mislabelled =>
    /\ InItsSlot(current_sequence, current_head)
    /\ \/ current_sequence = LastLogged + 1
       \/ Jumped(LastLogged + 1, current_sequence)

Inv == TypeOK /\ LogBehind /\ LoggedIncreasing /\ LapHeld /\ InPlace

\* A multiple leaves nothing.
LEMMA MultipleOfRing == ASSUME NEW m \in Int PROVE (NumFrames * m) % NumFrames = 0
<1> DEFINE x == NumFrames * m
           k == x \div NumFrames
           r == x % NumFrames
<1>1. NumFrames \in Nat \ {0} /\ x \in Int
  BY RingAssumption, Z3
<1>2. k \in Int /\ r \in 0 .. NumFrames - 1 /\ x = NumFrames * k + r
  BY <1>1, Z3
<1>3. NumFrames * (m - k) = r /\ m - k \in Int
  BY <1>1, <1>2, Z3
<1>4. m - k = 0
  BY <1>1, <1>2, <1>3, NoSmallMultiple
<1>5. NumFrames * (m - k) = 0
  BY <1>1, <1>4
<1> QED BY <1>3, <1>5

\* A lap before, the remainder is the same.
LEMMA LapBefore ==
  ASSUME NEW a \in Int
  PROVE  (a - NumFrames) % NumFrames = a % NumFrames
<1> DEFINE b == a - NumFrames
           k == a \div NumFrames
           l == b \div NumFrames
           r == a % NumFrames
           t == b % NumFrames
<1>1. NumFrames \in Nat \ {0} /\ b \in Int
  BY RingAssumption
<1>2. k \in Int /\ r \in 0 .. NumFrames - 1 /\ a = NumFrames * k + r
  BY <1>1, Z3
<1>3. l \in Int /\ t \in 0 .. NumFrames - 1 /\ b = NumFrames * l + t
  BY <1>1, Z3
<1> HIDE DEF k, l, r, t
<1>4. NumFrames * (k - l - 1) = t - r /\ k - l - 1 \in Int
  BY <1>1, <1>2, <1>3, Z3
<1>5. -NumFrames < NumFrames * (k - l - 1) /\ NumFrames * (k - l - 1) < NumFrames
  BY <1>1, <1>2, <1>3, <1>4
<1>6. k - l - 1 = 0
  BY <1>1, <1>4, <1>5, NoSmallMultiple
<1>7. NumFrames * (k - l - 1) = 0
  BY <1>1, <1>6
<1>8. t = r
  BY <1>2, <1>3, <1>4, <1>7
<1> QED BY <1>8 DEF t, r

\* The slots of neighbouring numbers are neighbours.
LEMMA NextInItsSlot ==
  ASSUME NEW q \in Int, NEW s \in Slots, InItsSlot(q, s)
  PROVE  InItsSlot(q + 1, (s + 1) % NumFrames)
<1> DEFINE k == (q - 1) \div NumFrames
<1>1. NumFrames \in Nat \ {0} /\ q - 1 \in Int /\ s \in 0 .. NumFrames - 1
  BY RingAssumption DEF Slots
<1>2. q - 1 = NumFrames * k + s /\ k \in Int
  BY <1>1, Z3 DEF InItsSlot
<1>3. q = NumFrames * k + (s + 1)
  BY <1>1, <1>2, Z3
<1>4. CASE s + 1 < NumFrames
  <2>1. q % NumFrames = s + 1
    BY <1>1, <1>2, <1>3, <1>4, Z3
  <2>2. (s + 1) % NumFrames = s + 1
    BY <1>1, <1>4, ModSmall
  <2> QED BY <2>1, <2>2 DEF InItsSlot
<1>5. CASE s + 1 = NumFrames
  <2>1. q = NumFrames * (k + 1)
    BY <1>1, <1>2, <1>3, <1>5, Z3
  <2>2. q % NumFrames = 0
    BY <1>2, <2>1, MultipleOfRing
  <2>3. (s + 1) % NumFrames = 0
    BY <1>1, <1>5, Z3
  <2> QED BY <2>2, <2>3 DEF InItsSlot
<1> QED BY <1>1, <1>4, <1>5

\* Two numbers in one slot are a lap apart, or the same.
LEMMA SameSlotApart ==
  ASSUME NEW q \in Int, NEW r \in Int, NEW s \in Slots,
         InItsSlot(q, s), InItsSlot(r, s), q < r
  PROVE  q <= r - NumFrames
<1> DEFINE k == (q - 1) \div NumFrames
           l == (r - 1) \div NumFrames
<1>1. NumFrames \in Nat \ {0}
  BY RingAssumption
<1>2. q - 1 = NumFrames * k + s /\ k \in Int
  BY <1>1, Z3 DEF InItsSlot, Slots
<1>3. r - 1 = NumFrames * l + s /\ l \in Int
  BY <1>1, Z3 DEF InItsSlot, Slots
<1> HIDE DEF k, l
<1>4. r - q = NumFrames * (l - k) /\ l - k \in Int
  BY <1>1, <1>2, <1>3, Z3 DEF Slots
<1>5. l - k >= 1
  <2>1. l - k <= 0 => NumFrames * (l - k) <= 0
    BY <1>1, <1>4, Z3
  <2> QED BY <1>4, <2>1
<1>6. NumFrames * (l - k) >= NumFrames
  BY <1>1, <1>4, <1>5, Z3
<1> QED BY <1>1, <1>4, <1>6

LEMMA NumbersAreInts ==
  ASSUME TypeOK
  PROVE  /\ newest.sequence \in Nat /\ incoming.sequence \in Nat
         /\ current_sequence \in Nat
         /\ \A s \in Slots : frames[s].sequence \in Nat
         /\ logged \in Seq(Nat)
<1>1. Sequences \subseteq Nat /\ 0 .. MaxSequence + 1 \subseteq Nat
  BY LoggerAssumption, RingAssumption DEF Sequences
<1>2. logged \in Seq(Nat)
  BY <1>1, SubsetSeq DEF TypeOK
<1> QED BY <1>1, <1>2 DEF TypeOK, FrameType

\* The number a read returns belongs to the slot, even if the writer is in it.
LEMMA ReadsLabel ==
  ASSUME TypeOK, LapHeld, NEW s \in Slots, NEW f \in Reads(s), f.sequence # 0
  PROVE  /\ InItsSlot(f.sequence, s) /\ f.sequence \in Nat
         /\ \/ f.sequence <= newest.sequence
            \/ filling /\ f.sequence <= newest.sequence + 1
<1>1. \/ f.sequence = frames[s].sequence
      \/ filling /\ s = head /\ f.sequence = incoming.sequence
  BY DEF Reads, Torn, Frame, ZeroFrame
<1>2. CASE f.sequence = frames[s].sequence
  BY <1>2, NumbersAreInts DEF LapHeld
<1>3. CASE filling /\ s = head /\ f.sequence = incoming.sequence
  <2>1. f.sequence = newest.sequence + 1 /\ newest.sequence \in Nat
    BY <1>3, NumbersAreInts DEF LapHeld
  <2>2. f.sequence - 1 = newest.sequence
    BY <2>1
  <2> QED BY <1>3, <2>1, <2>2 DEF LapHeld, InItsSlot
<1> QED BY <1>1, <1>2, <1>3

LEMMA LapInit == Init => LapHeld
<1> SUFFICES ASSUME Init PROVE LapHeld
  OBVIOUS
<1>1. newest.sequence = 0 /\ produced = {} /\ head = 0
      /\ \A s \in Slots : frames[s].sequence = 0
  BY DEF Init, ZeroFrame, Frame
<1>2. 0 % NumFrames = 0 /\ 1 .. 0 = {}
  BY RingAssumption, ModSmall
<1> QED BY <1>1, <1>2 DEF Init, LapHeld

LEMMA PublishKeepsLap ==
  ASSUME Consecutive, TypeOK, LapHeld, Publish
  PROVE  LapHeld'
<1> DEFINE n == newest.sequence
<1>1. n \in Nat /\ incoming.sequence \in Nat /\ head \in Slots
  BY NumbersAreInts DEF TypeOK
<1>2. CASE \E step \in Steps, kind \in Kinds : BeginPublish(step, kind)
  <2>1. incoming'.sequence = n + 1
    BY <1>2 DEF Consecutive, BeginPublish, Frame
  <2> QED BY <1>2, <2>1 DEF BeginPublish, LapHeld
<1>3. CASE EndPublish
  <2>1. newest'.sequence = n + 1 /\ newest' = incoming /\ ~filling'
    BY <1>3 DEF EndPublish, LapHeld
  <2>2. produced' = 1 .. n + 1
    BY <1>1, <1>3, <2>1 DEF EndPublish, LapHeld
  <2>3. InItsSlot(n + 1, head)
    BY <1>1 DEF LapHeld, InItsSlot
  <2>4. head' = (head + 1) % NumFrames
    <3>1. head' = Succ(head)
      BY <1>1, <1>3, GetHeadNext DEF EndPublish
    <3>2. CASE head = NumFrames - 1
      BY <1>1, <3>1, <3>2, RingAssumption, ModTurn DEF Succ, Slots
    <3>3. CASE head # NumFrames - 1
      <4>1. head + 1 \in 0 .. NumFrames - 1
        BY <1>1, <3>3, RingAssumption DEF Slots
      <4> QED BY <3>1, <3>3, <4>1, RingAssumption, ModSmall DEF Succ
    <3> QED BY <3>2, <3>3
  <2>5. head' = (n + 1) % NumFrames
    <3>1. InItsSlot(n + 2, head')
      BY <1>1, <2>3, <2>4, NextInItsSlot
    <3> QED BY <1>1, <3>1 DEF InItsSlot
  <2>6. ASSUME NEW s \in Slots, frames'[s].sequence # 0
        PROVE  /\ InItsSlot(frames'[s].sequence, s)
               /\ newest'.sequence - NumFrames < frames'[s].sequence
               /\ frames'[s].sequence <= newest'.sequence
    <3>1. CASE s = head
      <4>1. frames'[s].sequence = n + 1
        BY <1>3, <3>1, <2>1 DEF EndPublish, TypeOK
      <4> QED BY <1>1, <2>1, <2>3, <3>1, <4>1, RingAssumption
    <3>2. CASE s # head
      <4>1. frames'[s] = frames[s]
        BY <1>3, <3>2 DEF EndPublish, TypeOK
      <4>2. /\ InItsSlot(frames[s].sequence, s) /\ frames[s].sequence \in Nat
            /\ n - NumFrames < frames[s].sequence /\ frames[s].sequence <= n
        BY <2>6, <4>1, NumbersAreInts DEF LapHeld
      <4>3. frames[s].sequence # n + 1 - NumFrames
        <5>1. SUFFICES ASSUME frames[s].sequence = n + 1 - NumFrames PROVE FALSE
          OBVIOUS
        <5>2. frames[s].sequence - 1 = n - NumFrames
          BY <1>1, <5>1, RingAssumption
        <5>3. (n - NumFrames) % NumFrames = n % NumFrames
          BY <1>1, LapBefore
        <5> QED BY <3>2, <4>2, <5>2, <5>3 DEF InItsSlot, LapHeld
      <4> QED BY <1>1, <2>1, <4>1, <4>2, <4>3, RingAssumption
    <3> QED BY <3>1, <3>2
  <2>7. head' = newest'.sequence % NumFrames /\ produced' = 1 .. newest'.sequence
    BY <2>1, <2>2, <2>5
  <2> QED BY <2>1, <2>6, <2>7 DEF LapHeld, InItsSlot
<1> QED BY <1>2, <1>3 DEF Publish

\* What is overwritten stays so.
LEMMA OverwrittenStays ==
  ASSUME Consecutive, TypeOK, LapHeld, Publish, NEW q \in Int, Overwritten(q)
  PROVE  Overwritten(q)'
<1>1. newest.sequence \in Nat /\ NumFrames \in Nat
  BY NumbersAreInts, RingAssumption
<1>2. CASE \E step \in Steps, kind \in Kinds : BeginPublish(step, kind)
  <2>1. newest' = newest /\ filling'
    BY <1>2 DEF BeginPublish
  <2> QED BY <1>1, <2>1 DEF Overwritten
<1>3. CASE EndPublish
  <2>1. newest'.sequence = newest.sequence + 1
    BY <1>3 DEF EndPublish, LapHeld
  <2> QED BY <1>1, <2>1 DEF Overwritten
<1> QED BY <1>2, <1>3 DEF Publish

\* What is overwritten is in no slot, but perhaps in the one being filled.
LEMMA OverwrittenIsGone ==
  ASSUME TypeOK, LapHeld, NEW q \in Nat, q # 0, Overwritten(q)
  PROVE  ~StillHeld(q)
<1> SUFFICES ASSUME NEW s \in Slots, ~(filling /\ s = head), frames[s].sequence = q
             PROVE  FALSE
  BY DEF StillHeld
<1>1. newest.sequence \in Nat /\ NumFrames \in Nat
  BY NumbersAreInts, RingAssumption
<1>2. InItsSlot(q, s) /\ newest.sequence - NumFrames < q
  BY DEF LapHeld
<1>3. filling /\ q = newest.sequence + 1 - NumFrames
  BY <1>1, <1>2 DEF Overwritten
<1>4. q - 1 = newest.sequence - NumFrames
  BY <1>1, <1>3
<1>5. (newest.sequence - NumFrames) % NumFrames = newest.sequence % NumFrames
  BY <1>1, LapBefore
<1> QED BY <1>2, <1>3, <1>4, <1>5 DEF InItsSlot, LapHeld

-----------------------------------------------------------------------------
LEMMA AppendLast ==
  ASSUME NEW q \in Seq(Nat), NEW e \in Nat, NEW r, r = Append(q, e)
  PROVE  /\ r # <<>> /\ r[Len(r)] = e
         /\ \A i \in 1 .. Len(q) : i \in 1 .. Len(r) /\ r[i] = q[i]
         /\ \E i \in 1 .. Len(r) : r[i] = e
<1>1. Len(q) \in Nat /\ Len(r) = Len(q) + 1 /\ r[Len(q) + 1] = e
  OBVIOUS
<1>2. \A i \in 1 .. Len(q) : i \in 1 .. Len(r) /\ r[i] = q[i]
  BY <1>1
<1>3. Len(r) \in 1 .. Len(r) /\ Len(r) # 0
  BY <1>1
<1> QED BY <1>1, <1>2, <1>3

\* The last number logged is one of a frame, and below the one expected.
LEMMA LastLoggedIsNumber ==
  ASSUME TypeOK, LogBehind, logged # <<>>, ~Mislabelled
  PROVE  LastLogged \in Nat /\ LastLogged # 0 /\ LastLogged < current_sequence
<1>1. logged \in Seq(Nat)
  BY NumbersAreInts
<1>2. Len(logged) \in 1 .. Len(logged)
  BY <1>1
<1>3. logged[Len(logged)] \in Nat
  BY <1>1, <1>2
<1>4. logged[Len(logged)] < current_sequence
  BY <1>2 DEF LogBehind
<1>5. logged[Len(logged)] # 0
  BY <1>2 DEF Mislabelled
<1> QED BY <1>3, <1>4, <1>5 DEF LastLogged

\* A frame f that the logger is about to write, given what it has passed over.
DueOrLost(f) ==
  logged # <<>> /\ ~Mislabelled =>
    f.sequence = LastLogged + 1 \/ Jumped(LastLogged + 1, f.sequence)

LEMMA WriteEntryInPlace ==
  ASSUME TypeOK, LogBehind, LapHeld, NEW s \in Slots, NEW f \in Reads(s), NEW next,
         f.sequence >= current_sequence, DueOrLost(f), WriteEntry(f, s, next)
  PROVE  InPlace'
<1> SUFFICES ASSUME logged' # <<>>, ~Mislabelled'
             PROVE  /\ InItsSlot(current_sequence', current_head')
                    /\ \/ current_sequence' = LastLogged' + 1
                       \/ Overwritten(LastLogged + 1)' /\ current_sequence' >= LastLogged' + 1 + NumFrames
  BY DEF InPlace, InItsSlot, Jumped
<1>1. f \in FrameType /\ f.sequence \in Nat
  <2>1. f \in FrameType
    BY ReadsType
  <2> QED BY <2>1, LoggerAssumption, RingAssumption DEF FrameType, Sequences
<1>2. logged \in Seq(Nat) /\ newest' = newest /\ filling' = filling
  BY NumbersAreInts DEF WriteEntry, writerVars
<1>3. CASE f.kind = "good"
  <2>1. /\ logged' = Append(logged, f.sequence) /\ current_sequence' = f.sequence + 1
        /\ current_head' = (s + 1) % NumFrames
    BY <1>3 DEF WriteEntry
  <2>2. LastLogged' = f.sequence /\ f.sequence # 0
    BY <1>1, <1>2, <2>1, AppendLast DEF LastLogged, Mislabelled
  <2>3. InItsSlot(f.sequence, s)
    BY <2>2, ReadsLabel
  <2>4. InItsSlot(f.sequence + 1, (s + 1) % NumFrames)
    BY <1>1, <2>3, NextInItsSlot
  <2> QED BY <2>1, <2>2, <2>4
<1>4. CASE f.kind # "good"
  <2>1. logged' = logged /\ current_sequence' = f.sequence /\ current_head' = s
    BY <1>4 DEF WriteEntry
  <2>2. logged # <<>> /\ ~Mislabelled /\ LastLogged' = LastLogged
    BY <2>1 DEF Mislabelled, LastLogged
  <2>3. LastLogged \in Nat /\ LastLogged < current_sequence /\ current_sequence \in Nat
    BY <2>2, LastLoggedIsNumber, NumbersAreInts
  <2>4. InItsSlot(f.sequence, s)
    BY <1>1, <2>3, ReadsLabel
  <2>5. \/ f.sequence = LastLogged + 1
        \/ Overwritten(LastLogged + 1) /\ f.sequence >= LastLogged + 1 + NumFrames
    BY <2>2 DEF DueOrLost, Jumped
  <2>6. Overwritten(LastLogged + 1) => Overwritten(LastLogged + 1)'
    BY <1>2, <2>2 DEF Overwritten
  <2> QED BY <2>1, <2>2, <2>4, <2>5, <2>6
<1> QED BY <1>3, <1>4

\* The logger takes the newest frame only when it is more than a ring behind.
LEMMA ResyncIsDue ==
  ASSUME TypeOK, LogBehind, LapHeld, InPlace, NEW s \in Slots, NEW f \in Reads(s),
         NeedsResync(f.sequence)
  PROVE  f.sequence >= current_sequence /\ DueOrLost(f)
<1>1. f \in FrameType /\ f.sequence \in Nat
  <2>1. f \in FrameType
    BY ReadsType
  <2> QED BY <2>1, LoggerAssumption, RingAssumption DEF FrameType, Sequences
<1>2. /\ current_sequence \in Nat /\ newest.sequence \in Nat
      /\ NumFrames \in Nat \ {0}
  BY NumbersAreInts, RingAssumption
<1>3. f.sequence >= current_sequence /\ f.sequence - current_sequence + 1 > NumFrames
  BY <1>1, <1>2 DEF NeedsResync, AvailableFrames
<1>4. ASSUME logged # <<>>, ~Mislabelled PROVE Jumped(LastLogged + 1, f.sequence)
  <2>1. LastLogged \in Nat /\ LastLogged < current_sequence
    BY <1>4, LastLoggedIsNumber
  <2>2. f.sequence # 0
    BY <1>1, <1>2, <1>3, <2>1
  <2>3. f.sequence <= newest.sequence \/ (filling /\ f.sequence <= newest.sequence + 1)
    BY <2>2, ReadsLabel
  <2>4. f.sequence >= LastLogged + 1 + NumFrames
    BY <1>1, <1>2, <1>3, <2>1
  <2>5. CASE current_sequence = LastLogged + 1
    BY <1>1, <1>2, <1>3, <2>1, <2>3, <2>4, <2>5 DEF Overwritten, Jumped
  <2>6. CASE Overwritten(LastLogged + 1)
    BY <2>4, <2>6 DEF Jumped
  <2> QED BY <1>4, <2>5, <2>6 DEF InPlace, Jumped
<1> QED BY <1>3, <1>4 DEF DueOrLost

\* The frame in the slot of the one expected is that one, or a lap ahead of it.
LEMMA DrainIsDue ==
  ASSUME TypeOK, LogBehind, LapHeld, InPlace, NEW f \in Reads(current_head),
         f.sequence >= current_sequence
  PROVE  DueOrLost(f)
<1>1. current_head \in Slots /\ f \in FrameType /\ f.sequence \in Nat
  <2>1. current_head \in Slots
    BY DEF TypeOK
  <2>2. f \in FrameType
    BY <2>1, ReadsType
  <2> QED BY <2>1, <2>2, LoggerAssumption, RingAssumption DEF FrameType, Sequences
<1>2. /\ current_sequence \in Nat /\ newest.sequence \in Nat
      /\ NumFrames \in Nat \ {0}
  BY NumbersAreInts, RingAssumption
<1>3. ASSUME logged # <<>>, ~Mislabelled
      PROVE  f.sequence = LastLogged + 1 \/ Jumped(LastLogged + 1, f.sequence)
  <2>1. LastLogged \in Nat /\ LastLogged < current_sequence
    BY <1>3, LastLoggedIsNumber
  <2>2. f.sequence # 0
    BY <1>1, <1>2, <2>1
  <2>3. /\ InItsSlot(f.sequence, current_head)
        /\ f.sequence <= newest.sequence \/ (filling /\ f.sequence <= newest.sequence + 1)
    BY <1>1, <2>2, ReadsLabel
  <2>4. CASE current_sequence = LastLogged + 1 /\ f.sequence # current_sequence
    <3>1. InItsSlot(current_sequence, current_head) /\ current_sequence < f.sequence
      BY <1>1, <1>2, <1>3, <2>4 DEF InPlace
    <3>2. current_sequence <= f.sequence - NumFrames
      BY <1>1, <1>2, <2>3, <3>1, SameSlotApart
    <3> QED BY <1>1, <1>2, <2>1, <2>3, <2>4, <3>2 DEF Overwritten, Jumped
  <2>5. CASE Jumped(LastLogged + 1, current_sequence)
    BY <1>1, <1>2, <2>1, <2>5 DEF Jumped
  <2> QED BY <1>3, <2>4, <2>5 DEF InPlace
<1> QED BY <1>3 DEF DueOrLost

LEMMA PlaceStep ==
  ASSUME Consecutive, TypeOK, LogBehind, LapHeld, InPlace, [Next]_vars
  PROVE  LapHeld' /\ InPlace'
<1>1. CASE Publish
  <2>1. LapHeld'
    BY <1>1, PublishKeepsLap
  <2>2. UNCHANGED <<logged, current_sequence, current_head>>
    BY <1>1 DEF Publish, BeginPublish, EndPublish, streamVars
  <2>3. ASSUME logged # <<>>, ~Mislabelled, Overwritten(LastLogged + 1)
        PROVE  Overwritten(LastLogged + 1)'
    <3>1. LastLogged + 1 \in Int /\ LastLogged' = LastLogged
      BY <2>2, <2>3, LastLoggedIsNumber DEF LastLogged
    <3>2. Overwritten(LastLogged + 1)' <=>
            \/ LastLogged + 1 <= newest'.sequence - NumFrames
            \/ filling' /\ LastLogged + 1 <= newest'.sequence + 1 - NumFrames
      BY <3>1 DEF Overwritten
    <3>3. \/ LastLogged + 1 <= newest'.sequence - NumFrames
          \/ filling' /\ LastLogged + 1 <= newest'.sequence + 1 - NumFrames
      <4> DEFINE q == LastLogged + 1
      <4> HIDE DEF q
      <4>1. q \in Int /\ Overwritten(q)
        BY <2>3, <3>1 DEF q
      <4>2. newest.sequence \in Nat /\ NumFrames \in Nat
        BY NumbersAreInts, RingAssumption
      <4>3. (newest' = newest /\ filling') \/ newest'.sequence = newest.sequence + 1
        BY <1>1 DEF Publish, BeginPublish, EndPublish, LapHeld
      <4> QED BY <4>1, <4>2, <4>3 DEF Overwritten, q
    <3> QED BY <3>2, <3>3
  <2> QED BY <2>1, <2>2, <2>3 DEF InPlace, Mislabelled, LastLogged, Jumped
<1>2. CASE UNCHANGED <<writerVars, streamVars, logged>>
  BY <1>2 DEF LapHeld, InPlace, Mislabelled, LastLogged, Overwritten, Jumped, writerVars, streamVars
<1>3. CASE UNCHANGED vars \/ RequestStop \/ Poll \/ Aim \/ GiveUp
  BY <1>2, <1>3 DEF vars, RequestStop, Poll, Aim, GiveUp
<1>4. ASSUME Work, UNCHANGED writerVars PROVE LapHeld'
  BY <1>4 DEF LapHeld, writerVars
<1>5. CASE TakeInitial
  <2>1. CASE GiveUp
    BY <1>3, <2>1
  <2>2. CASE UNCHANGED <<writerVars, logged>> /\ pc = "take initial"
    <3>1. logged' = <<>>
      BY <2>2 DEF LogBehind
    <3> QED BY <1>4, <1>5, <2>2, <3>1 DEF InPlace, Work
  <2> QED BY <1>5, <2>1, <2>2 DEF TakeInitial
<1>6. CASE TakeLatest
  <2>1. PICK f \in Reads(slot) :
          \/ GiveUp
          \/ NeedsResync(f.sequence) /\ WriteEntry(f, slot, "latest")
          \/ UNCHANGED <<writerVars, streamVars, logged>>
    BY <1>6 DEF TakeLatest
  <2>2. CASE NeedsResync(f.sequence) /\ WriteEntry(f, slot, "latest")
    <3>1. slot \in Slots
      BY DEF TypeOK
    <3>2. f.sequence >= current_sequence /\ DueOrLost(f)
      BY <2>2, <3>1, ResyncIsDue
    <3>3. InPlace'
      BY <2>2, <3>1, <3>2, WriteEntryInPlace
    <3>4. UNCHANGED writerVars
      BY <2>2 DEF WriteEntry
    <3> QED BY <1>4, <1>6, <3>3, <3>4 DEF Work
  <2> QED BY <1>2, <1>3, <2>1, <2>2
<1>7. CASE Drain
  <2>1. current_head \in Slots
    BY DEF TypeOK
  <2>2. PICK f \in Reads(current_head) :
          \/ GiveUp
          \/ /\ f.sequence >= current_sequence
             /\ WriteEntry(f, current_head, IF f.sequence + 1 > latest THEN "latest" ELSE "drain")
    BY <1>7 DEF Drain
  <2>3. CASE /\ f.sequence >= current_sequence
             /\ WriteEntry(f, current_head, IF f.sequence + 1 > latest THEN "latest" ELSE "drain")
    <3>1. InPlace'
      BY <2>1, <2>3, DrainIsDue, WriteEntryInPlace
    <3>2. UNCHANGED writerVars
      BY <2>3 DEF WriteEntry
    <3> QED BY <1>4, <1>7, <3>1, <3>2 DEF Work
  <2> QED BY <1>3, <2>2, <2>3
<1> QED BY <1>1, <1>3, <1>5, <1>6, <1>7 DEF Next, Work

\* What a write passes over begins with the frame after the last one logged, which
\* is lost, and the frame written is a ring further on.
LEMMA PassesOverLost ==
  ASSUME TypeOK, LogBehind, LapHeld, logged # <<>>, ~Mislabelled,
         NEW s \in Slots, NEW f \in Reads(s), NEW next,
         DueOrLost(f), WriteEntry(f, s, next), logged' # logged,
         {q \in produced : LastLogged < q /\ q < LastLogged'} # {}
  PROVE  LET passed == {q \in produced : LastLogged < q /\ q < LastLogged'}
         IN ~StillHeld(Min(passed)) /\ LastLogged' >= Min(passed) + NumFrames
<1> DEFINE passed == {q \in produced : LastLogged < q /\ q < LastLogged'}
           n == newest.sequence
<1>1. /\ LastLogged \in Nat /\ n \in Nat /\ logged \in Seq(Nat)
      /\ NumFrames \in Nat /\ f.sequence \in Nat
  <2>1. f \in FrameType
    BY ReadsType
  <2>2. f.sequence \in Nat
    BY <2>1, LoggerAssumption, RingAssumption DEF FrameType, Sequences
  <2> QED BY <2>2, LastLoggedIsNumber, NumbersAreInts, RingAssumption
<1>2. LastLogged' = f.sequence
  <2>1. logged' = Append(logged, f.sequence)
    BY DEF WriteEntry
  <2> QED BY <1>1, <2>1, AppendLast DEF LastLogged
<1>3. PICK q \in produced : LastLogged < q /\ q < f.sequence
  BY <1>2
<1>4. produced = 1 .. n
  BY DEF LapHeld
<1>5. Jumped(LastLogged + 1, f.sequence)
  BY <1>1, <1>3, <1>4 DEF DueOrLost
<1>6. LastLogged + 1 \in passed /\ \A x \in passed : LastLogged + 1 <= x
  BY <1>1, <1>2, <1>3, <1>4
<1>7. Min(passed) = LastLogged + 1
  <2>1. \A x \in passed : (\A y \in passed : x <= y) => x = LastLogged + 1
    BY <1>1, <1>4, <1>6
  <2> QED BY <1>6, <2>1 DEF Min
<1>8. ~StillHeld(LastLogged + 1)
  BY <1>1, <1>5, OverwrittenIsGone DEF Jumped
<1> QED BY <1>2, <1>5, <1>7, <1>8 DEF Jumped

\* If the source numbers its frames one after the other, the log has a gap only where
\* the frame due next was lost, and then of a ring at least: through laps, torn reads,
\* resyncs and frames that could not be written, for every ring size, whether or not it
\* divides the word (and as long as no frame was logged as number 0).
THEOREM OnlyLapsAreSkipped == Consecutive => (Spec => GapsAreLaps)
<1> SUFFICES ASSUME Consecutive PROVE Spec => GapsAreLaps
  OBVIOUS
<1> DEFINE Gap ==
      logged' # logged /\ logged # <<>> /\ ~Mislabelled =>
        LET passed == {q \in produced : LastLogged < q /\ q < LastLogged'}
        IN passed # {} => ~StillHeld(Min(passed)) /\ LastLogged' >= Min(passed) + NumFrames
<1>1. Init => Inv
  BY TypeInit, OrderInit, LapInit DEF Init, Inv, InPlace
<1>2. Inv /\ [Next]_vars => Inv'
  BY TypeStep, OrderStep, PlaceStep DEF Inv
<1>3. Inv /\ [Next]_vars => [Gap]_vars
  <2> SUFFICES ASSUME Inv, Next, logged' # logged, logged # <<>>, ~Mislabelled,
                      {q \in produced : LastLogged < q /\ q < LastLogged'} # {}
               PROVE  LET passed == {q \in produced : LastLogged < q /\ q < LastLogged'}
                      IN ~StillHeld(Min(passed)) /\ LastLogged' >= Min(passed) + NumFrames
    OBVIOUS
  <2>1. \E s \in Slots : \E f \in Reads(s), next \in {"latest", "drain"} :
          WriteEntry(f, s, next) /\ DueOrLost(f)
    <3>1. CASE TakeLatest
      <4>1. PICK f \in Reads(slot) :
              NeedsResync(f.sequence) /\ WriteEntry(f, slot, "latest")
        BY <3>1 DEF TakeLatest, GiveUp
      <4>2. slot \in Slots
        BY DEF Inv, TypeOK
      <4> QED BY <4>1, <4>2, ResyncIsDue DEF Inv
    <3>2. CASE Drain
      <4>1. PICK f \in Reads(current_head) :
              /\ f.sequence >= current_sequence
              /\ WriteEntry(f, current_head, IF f.sequence + 1 > latest THEN "latest" ELSE "drain")
        BY <3>2 DEF Drain, GiveUp
      <4>2. current_head \in Slots
        BY DEF Inv, TypeOK
      <4>3. DueOrLost(f)
        BY <4>1, DrainIsDue DEF Inv
      <4> QED BY <4>1, <4>2, <4>3
    <3>3. Publish \/ RequestStop \/ Poll \/ Aim \/ TakeInitial => logged' = logged
      BY DEF Publish, BeginPublish, EndPublish, RequestStop, Poll, Aim, TakeInitial, GiveUp
    <3> QED BY <3>1, <3>2, <3>3 DEF Next, Work
  <2> QED BY <2>1, PassesOverLost DEF Inv
<1> QED BY <1>1, <1>2, <1>3, PTL DEF Spec, GapsAreLaps
=============================================================================
