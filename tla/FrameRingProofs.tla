--------------------------- MODULE FrameRingProofs ---------------------------
(***************************************************************************)
(* Type correctness of FrameRing, that a read the writer does not come     *)
(* round to is exact, and how far a lapped read can be torn.               *)
(*                                                                         *)
(* First what get_head returns, for every ring and word size: index 0 is   *)
(* the head, -1 the slot after it, and a positive index counts back from   *)
(* the head within the lap, and across its start exactly when the ring     *)
(* divides the word.                                                       *)
(***************************************************************************)
EXTENDS FrameRing, TLAPS

-----------------------------------------------------------------------------
(***************************************************************************)
(* Facts about the remainder.                                              *)
(***************************************************************************)

\* A remainder is below its divisor.
LEMMA ModRange == ASSUME NEW a \in Int, NEW b \in Nat \ {0} PROVE a % b \in 0 .. b - 1
  BY Z3

\* A number below the divisor is its own remainder.
LEMMA ModSmall == ASSUME NEW b \in Nat \ {0}, NEW a \in 0 .. b - 1 PROVE a % b = a
  BY Z3

\* One turn above: subtract the divisor once.
LEMMA ModTurn == ASSUME NEW b \in Nat \ {0}, NEW a \in b .. 2 * b - 1 PROVE a % b = a - b
  BY Z3

\* One turn below: add the divisor once.
LEMMA ModTurnDown == ASSUME NEW b \in Nat \ {0}, NEW a \in (-b) .. -1 PROVE a % b = a + b
  BY Z3

\* The only multiple of b strictly between -b and b is 0.
LEMMA NoSmallMultiple ==
  ASSUME NEW b \in Nat \ {0}, NEW d \in Int, -b < b * d, b * d < b
  PROVE  d = 0
<1>1. ~(d >= 1)
  <2>1. d >= 1 => b * d >= b
    BY Z3
  <2> QED  BY <2>1
<1>2. ~(d <= -1)
  <2>1. d <= -1 => b * d <= -b
    BY Z3
  <2> QED  BY <2>1
<1> QED  BY <1>1, <1>2

\* Just below a multiple of b: the remainder counts back from b.
LEMMA ModBelowMultiple ==
  ASSUME NEW b \in Nat \ {0}, NEW m \in Nat \ {0}, NEW a \in 1 .. b
  PROVE  (b * m - a) % b = b - a
<1> DEFINE x == b * m - a
           q == x \div b
           r == x % b
<1>0. x \in Int /\ b * m \in Int
  OBVIOUS
<1>1. q \in Int /\ r \in 0 .. b - 1 /\ x = b * q + r
  BY <1>0, Z3
<1>2. b * (q - m + 1) = b - a - r
  BY <1>1, Z3
<1>3. q - m + 1 = 0
  BY <1>1, <1>2, NoSmallMultiple, Z3
<1> QED  BY <1>1, <1>2, <1>3, Z3

LEMMA MultipleRemainder ==
  ASSUME NEW b \in Nat \ {0}, NEW m \in Int PROVE (b * m) % b = 0
<1> DEFINE x == b * m
           q == x \div b
           r == x % b
<1>1. x \in Int /\ q \in Int /\ r \in 0 .. b - 1 /\ x = b * q + r
  BY Z3
<1>2. b * (m - q) = r
  BY <1>1, Z3
<1>3. m - q = 0
  BY <1>1, <1>2, NoSmallMultiple, Z3
<1> QED  BY <1>1, <1>2, <1>3, Z3

-----------------------------------------------------------------------------
(***************************************************************************)
(* The head and its neighbours.                                            *)
(***************************************************************************)

\* get_head always names a slot of the ring.
LEMMA GetHeadInSlots ==
  ASSUME NEW h \in Int, NEW index \in Int
  PROVE  GetHead(h, index) \in Slots
<1> DEFINE w == ToWord(h - index) % NumFrames
<1>1. ToWord(h - index) \in Int
  BY RingAssumption, ModRange DEF ToWord
<1>2. w \in Int
  BY <1>1, RingAssumption, ModRange
<1>3. ToWord(w + NumFrames) \in Int
  BY <1>2, RingAssumption, ModRange DEF ToWord
<1> QED  BY <1>3, RingAssumption, ModRange DEF GetHead, Slots

\* The two outer steps of get_head undo each other on a slot number.
LEMMA GetHeadOuter ==
  ASSUME NEW s \in Slots
  PROVE  ToWord(s + NumFrames) % NumFrames = s
<1>1. ToWord(s + NumFrames) = s + NumFrames
  BY RingAssumption, ModSmall DEF ToWord, Slots
<1>2. s + NumFrames \in NumFrames .. 2 * NumFrames - 1
  BY RingAssumption DEF Slots
<1> QED  BY <1>1, <1>2, RingAssumption, ModTurn DEF Slots

\* Within the lap get_head subtracts; index 0 is the head itself.
LEMMA GetHeadWithinLap ==
  ASSUME NEW h \in Slots, NEW index \in 0 .. h
  PROVE  GetHead(h, index) = h - index
<1>1. h - index \in Slots
  BY RingAssumption DEF Slots
<1>2. ToWord(h - index) = h - index
  BY <1>1, RingAssumption, ModSmall DEF ToWord, Slots
<1>3. (h - index) % NumFrames = h - index
  BY <1>1, RingAssumption, ModSmall DEF Slots
<1> QED  BY <1>1, <1>2, <1>3, GetHeadOuter DEF GetHead

\* get_head(-1) is the slot after the head, whatever the word size.
LEMMA GetHeadNext ==
  ASSUME NEW h \in Slots
  PROVE  GetHead(h, -1) = Succ(h)
<1>1. ToWord(h + 1) = h + 1
  BY RingAssumption, ModSmall DEF ToWord, Slots
<1>2. (h + 1) % NumFrames = Succ(h)
  <2>1. CASE h = NumFrames - 1
    BY <2>1, RingAssumption, ModTurn DEF Slots, Succ
  <2>2. CASE h # NumFrames - 1
    <3>1. h + 1 \in 0 .. NumFrames - 1
      BY <2>2, RingAssumption DEF Slots
    <3> QED  BY <2>2, <3>1, RingAssumption, ModSmall DEF Succ
  <2> QED  BY <2>1, <2>2
<1>3. Succ(h) \in Slots
  BY RingAssumption DEF Slots, Succ
<1>4. h - (-1) = h + 1
  BY DEF Slots
<1> QED  BY <1>1, <1>2, <1>3, <1>4, GetHeadOuter DEF GetHead

\* A positive index past the start of the ring is counted back from the top of
\* the word.
LEMMA GetHeadFromTop ==
  ASSUME NEW h \in Slots, NEW index \in h + 1 .. NumFrames
  PROVE  GetHead(h, index) = (Word - (index - h)) % NumFrames
<1>1. h - index \in (-Word) .. -1
  BY RingAssumption DEF Slots
<1>2. ToWord(h - index) = Word - (index - h)
  BY <1>1, RingAssumption, ModTurnDown DEF ToWord, Slots
<1>3. Word - (index - h) \in Int
  BY RingAssumption DEF Slots
<1>4. (Word - (index - h)) % NumFrames \in Slots
  BY <1>3, RingAssumption, ModRange DEF Slots
<1> QED  BY <1>2, <1>4, GetHeadOuter DEF GetHead

\* From there it is right for one distance past the start, and for all of them,
\* when the word is a multiple of the ring and for no other word.
LEMMA GetHeadAcrossStart ==
  ASSUME NEW h \in Slots, NEW index \in h + 1 .. NumFrames
  PROVE  GetHead(h, index) = h - index + NumFrames <=> Word % NumFrames = 0
<1> DEFINE a == index - h
           q == Word \div NumFrames
           k == (Word - a) \div NumFrames
<1>1. a \in 1 .. NumFrames /\ h - index + NumFrames = NumFrames - a
  BY RingAssumption DEF Slots
<1>2. GetHead(h, index) = (Word - a) % NumFrames
  BY GetHeadFromTop
<1> HIDE DEF a
<1>3. ASSUME Word % NumFrames = 0 PROVE (Word - a) % NumFrames = NumFrames - a
  <2>1. q \in Int /\ Word = NumFrames * q
    BY <1>3, RingAssumption, Z3
  <2>2. q \in Nat \ {0}
    BY <2>1, RingAssumption, Z3
  <2> QED  BY <1>1, <2>1, <2>2, RingAssumption, ModBelowMultiple
<1>4. ASSUME (Word - a) % NumFrames = NumFrames - a PROVE Word % NumFrames = 0
  <2>1. k \in Int /\ Word - a = NumFrames * k + (NumFrames - a)
    BY <1>1, <1>4, RingAssumption, Z3
  <2>2. Word = NumFrames * (k + 1)
    BY <1>1, <2>1, RingAssumption, Z3
  <2> QED  BY <2>1, <2>2, RingAssumption, MultipleRemainder
<1> QED  BY <1>1, <1>2, <1>3, <1>4

-----------------------------------------------------------------------------
(***************************************************************************)
(* get_head(k), k from 1 to the size of the ring, is the slot filled k     *)
(* publications ago exactly when the head is at k or beyond it, or the     *)
(* ring divides the word: no ring of 300, 2000, 8000 or 10000 slots divides *)
(* 2^32, and reading the latest frame of one at head 0 is the case         *)
(* latest_wrap.cfg finds wrong.                                            *)
(***************************************************************************)
THEOREM GetHeadCountsBack ==
  ASSUME NEW h \in Slots, NEW index \in 1 .. NumFrames
  PROVE  Behind(GetHead(h, index), h) = index <=> index <= h \/ Word % NumFrames = 0
<1>1. CASE index <= h
  <2>1. GetHead(h, index) = h - index
    BY <1>1, GetHeadWithinLap DEF Slots
  <2> QED  BY <1>1, <2>1, RingAssumption DEF Behind, Slots
<1>2. CASE index > h
  <2>1. GetHead(h, index) \in Slots
    BY GetHeadInSlots DEF Slots
  <2>2. GetHead(h, index) = h - index + NumFrames <=> Word % NumFrames = 0
    BY <1>2, GetHeadAcrossStart DEF Slots
  <2>3. ASSUME NEW s \in Slots PROVE Behind(s, h) = index <=> s = h - index + NumFrames
    BY <1>2, RingAssumption DEF Behind, Slots
  <2> QED  BY <1>2, <2>1, <2>2, <2>3 DEF Slots
<1> QED  BY <1>1, <1>2 DEF Slots

-----------------------------------------------------------------------------
(***************************************************************************)
(* The words of an entry.                                                  *)
(***************************************************************************)

LEMMA WriteSlotIsHead == ASSUME head \in Slots PROVE WriteSlot = head
  BY GetHeadWithinLap DEF WriteSlot, Slots

\* An entry in flight has an ordinal, and zeroed memory has none.
LEMMA WordFacts ==
  /\ Nothing \in Words /\ Nothing = -1 /\ Words \subseteq Int
  /\ \A e \in Words : e <= MaxPublished - 1 \/ e = -1
  /\ PayloadOf(Nothing, Chunks) \in Payloads
  /\ PayloadOf(Nothing, {}) \in Checksums
  /\ ZeroFrame \in Frames
<1>1. /\ Nothing \in Words /\ Nothing = -1 /\ Words \subseteq Int
      /\ \A e \in Words : e <= MaxPublished - 1 \/ e = -1
  BY FrameRingAssumption DEF Words, Ordinals, Nothing
<1>2. PayloadOf(Nothing, Chunks) \in Payloads
  BY <1>1 DEF Payloads, PayloadOf
<1>3. PayloadOf(Nothing, {}) \in Checksums
  <2>1. PayloadOf(Nothing, {}) \in [{} -> Words]
    BY <1>1 DEF PayloadOf
  <2> QED  BY <2>1 DEF Checksums
<1>4. ZeroFrame \in Frames
  BY <1>1, <1>2, <1>3 DEF ZeroFrame, Frames
<1> QED  BY <1>1, <1>2, <1>3, <1>4

\* A stored ordinal is one of those that may be stored.
LEMMA PublishedIsWord ==
  TypeOK /\ wpc = "fill" => published \in Words /\ published \in Ordinals
  BY FrameRingAssumption DEF TypeOK, Words, Ordinals

-----------------------------------------------------------------------------
(***************************************************************************)
(* Types.                                                                  *)
(***************************************************************************)

LEMMA InitType == Init => TypeOK
<1> SUFFICES ASSUME Init PROVE TypeOK  OBVIOUS
<1>1. 0 \in Slots
  BY RingAssumption DEF Slots
<1>2. NoEntry \in [timestamp_ns : Words, sequence : Words, data : Payloads]
  BY WordFacts DEF NoEntry
<1> QED  BY <1>1, <1>2, WordFacts, FrameRingAssumption DEF Init, TypeOK, Nothing

LEMMA NextType == TypeOK /\ [Next]_vars => TypeOK'
<1> SUFFICES ASSUME TypeOK, [Next]_vars PROVE TypeOK'
  OBVIOUS
<1> USE FrameRingAssumption DEF TypeOK, ringVars, writerVars, readerVars
<1>1. WriteSlot = head
  BY WriteSlotIsHead
<1>2. ASSUME NEW size \in Sizes, BeginWrite(size) PROVE TypeOK'
  BY <1>2 DEF BeginWrite
<1>3. CASE StoreTimestamp
  <2>1. frames' \in [Slots -> Frames]
    BY <1>1, <1>3, PublishedIsWord DEF StoreTimestamp, Stored, Frames
  <2> QED  BY <1>3, <2>1 DEF StoreTimestamp, Stored
<1>4. ASSUME NEW c \in Chunks, StoreChunk(c) PROVE TypeOK'
  <2>1. published \in Words
    BY <1>4, PublishedIsWord DEF StoreChunk, Stored
  <2>2. frames[head].data \in [Chunks -> Words]
    BY DEF Frames, Payloads
  <2>3. [frames[head].data EXCEPT ![c] = published] \in Payloads
    BY <2>1, <2>2 DEF Payloads
  <2>4. [frames[head] EXCEPT !.data = [frames[head].data EXCEPT ![c] = published]] \in Frames
    BY <2>3 DEF Frames
  <2>5. frames' \in [Slots -> Frames]
    BY <1>1, <1>4, <2>4 DEF StoreChunk
  <2> QED  BY <1>4, <2>5 DEF StoreChunk, Stored
<1>5. CASE StoreChecksum
  <2>1. PayloadOf(published, wsize) \in Checksums
    BY <1>5, PublishedIsWord DEF StoreChecksum, Stored, PayloadOf, Checksums
  <2>2. frames' \in [Slots -> Frames]
    BY <1>1, <1>5, <2>1 DEF StoreChecksum, Frames
  <2> QED  BY <1>5, <2>2 DEF StoreChecksum, Stored
<1>6. CASE StoreSequence
  <2>1. frames' \in [Slots -> Frames]
    BY <1>1, <1>6, PublishedIsWord DEF StoreSequence, Stored, Frames
  <2> QED  BY <1>6, <2>1 DEF StoreSequence, Stored
<1>7. CASE StoreHead
  <2>1. head' \in Slots
    BY <1>7, GetHeadInSlots DEF StoreHead, Advance, Slots
  <2> QED  BY <1>7, <2>1 DEF StoreHead, Advance
<1>8. CASE StoreBufferSequence
  <2>1. published - 1 \in Words
    BY DEF Words, Ordinals, Nothing
  <2> QED  BY <1>8, <2>1 DEF StoreBufferSequence
<1>9. ASSUME NEW s \in Slots, NEW w \in Int, StartAt(s, w) PROVE TypeOK'
  BY <1>9 DEF StartAt
<1>10. ASSUME NEW s \in Slots PROVE EntryOf(s) \in Int
  BY RingAssumption DEF EntryOf, Behind, Slots
<1>11. ASSUME NEW index \in Requests, StartRead(index) PROVE TypeOK'
  <2>1. GetHead(head, index) \in Slots
    <3>1. head \in Int /\ index \in Int
      BY DEF Slots
    <3> QED  BY <3>1, GetHeadInSlots
  <2>2. published - Age(index) \in Int
    BY RingAssumption, ModRange DEF Age
  <2>3. Wanted(index) \in Int
    BY <1>10, <2>1, <2>2 DEF Wanted
  <2> QED  BY <1>9, <1>11, <2>1, <2>3 DEF StartRead
<1>12. ASSUME NEW s \in Slots, StartReadAbsolute(s) PROVE TypeOK'
  BY <1>9, <1>10, <1>12 DEF StartReadAbsolute
<1>13. ASSUME NEW c \in Chunks, SumChunk(c) PROVE TypeOK'
  <2>1. frames[rslot].data[c] \in Words
    BY DEF Frames, Payloads
  <2> QED  BY <1>13, <2>1 DEF SumChunk, Payloads
<1>14. CASE LoadChecksum
  <2>1. frames[rslot].checksum \in Checksums
    BY DEF Frames
  <2> QED  BY <1>14, <2>1 DEF LoadChecksum, Loaded
<1>15. ASSUME NEW c \in Chunks, CopyChunk(c) PROVE TypeOK'
  <2>1. frames[rslot].data[c] \in Words
    BY DEF Frames, Payloads
  <2> QED  BY <1>15, <2>1 DEF CopyChunk, Loaded, Payloads
<1>16. CASE TakeSequence
  <2>1. frames[rslot].sequence \in Words
    BY DEF Frames
  <2> QED  BY <1>16, <2>1 DEF TakeSequence, Loaded
<1>17. CASE TakeTimestamp
  <2>1. frames[rslot].timestamp_ns \in Words
    BY DEF Frames
  <2> QED  BY <1>17, <2>1 DEF TakeTimestamp, Loaded
<1>18. CASE Deliver
  BY <1>18 DEF Deliver
<1>19. NoEntry \in [timestamp_ns : Words, sequence : Words, data : Payloads]
  BY WordFacts DEF NoEntry
<1>20. CASE Reject
  BY <1>19, <1>20 DEF Reject
<1>21. CASE Return
  <2>1. 0 \in Slots
    BY RingAssumption DEF Slots
  <2> QED  BY <1>19, <1>21, <2>1, WordFacts DEF Return
<1>22. CASE UNCHANGED vars
  BY <1>22 DEF vars
<1>23. QED
  BY <1>2, <1>3, <1>4, <1>5, <1>6, <1>7, <1>8, <1>11, <1>12, <1>13, <1>14,
     <1>15, <1>16, <1>17, <1>18, <1>20, <1>21, <1>22
     DEF Next, Write, Read

\* Whatever the writer and the reader do, they keep to the slots of the ring
\* and to words the writer stored.
THEOREM TypeCorrect == Spec => []TypeOK
  BY InitType, NextType, PTL DEF Spec

-----------------------------------------------------------------------------
(***************************************************************************)
(* Distances on the ring, and what a store changes.                        *)
(***************************************************************************)

LEMMA BehindFacts ==
  ASSUME NEW s \in Slots, NEW h \in Slots
  PROVE  /\ Behind(s, h) \in 1 .. NumFrames
         /\ Behind(s, h) = NumFrames <=> s = h
  BY RingAssumption DEF Behind, Slots

\* A publication moves every slot one further from the head, except the one
\* just filled, which becomes the nearest.
LEMMA BehindStep ==
  ASSUME NEW s \in Slots, NEW h \in Slots
  PROVE  Behind(s, Succ(h)) = IF s = h THEN 1 ELSE Behind(s, h) + 1
  BY RingAssumption DEF Behind, Slots, Succ

\* The words of a frame are ordinals or zeroed memory, hence integers.
LEMMA FrameWords ==
  ASSUME TypeOK, NEW s \in Slots
  PROVE  /\ frames[s] \in Frames
         /\ frames[s].timestamp_ns \in Int /\ frames[s].sequence \in Int
         /\ frames[s].data \in [Chunks -> Words]
         /\ \A c \in Chunks : frames[s].data[c] \in Int
         /\ DOMAIN frames[s].checksum \subseteq Chunks
<1>1. frames[s] \in Frames
  BY DEF TypeOK
<1>2. /\ frames[s].timestamp_ns \in Words /\ frames[s].sequence \in Words
      /\ frames[s].data \in [Chunks -> Words]
      /\ frames[s].checksum \in Checksums
  BY <1>1 DEF Frames, Payloads
<1>3. DOMAIN frames[s].checksum \subseteq Chunks
  <2>1. PICK c \in SUBSET Chunks : frames[s].checksum \in [c -> Words]
    BY <1>2 DEF Checksums
  <2> QED  BY <2>1
<1>4. /\ frames[s].timestamp_ns \in Int /\ frames[s].sequence \in Int
      /\ \A c \in Chunks : frames[s].data[c] \in Int
  BY <1>2, WordFacts
<1> QED  BY <1>1, <1>2, <1>3, <1>4

LEMMA EntryOfSlot ==
  ASSUME TypeOK, NEW s \in Slots
  PROVE  /\ EntryOf(s) \in Int /\ EntryOf(s) < published
         /\ published - EntryOf(s) = Behind(s, head)
  BY BehindFacts, RingAssumption DEF EntryOf, TypeOK

LEMMA InitRing == Init => RingInv
<1> SUFFICES ASSUME Init PROVE RingInv  OBVIOUS
<1>1. 0 \in Slots /\ TypeOK
  BY InitType, RingAssumption DEF Slots
<1>2. ASSUME NEW s \in Slots PROVE EntryOf(s) < 0 /\ EntryOf(s) \in Int /\ frames[s] = ZeroFrame
  BY <1>1, EntryOfSlot DEF Init
<1>3. SettledSlots
  BY <1>2 DEF SettledSlots, Holds
<1>4. SlotOrder
  <2>1. AtMost(ZeroFrame, 0) /\ DOMAIN ZeroFrame.checksum # Chunks
    BY FrameRingAssumption DEF AtMost, ZeroFrame, PayloadOf, Nothing
  <2>2. ASSUME NEW e \in Int, e < 0 PROVE NoOlder(ZeroFrame, e)
    <3>1. PICK c \in Chunks : TRUE
      BY FrameRingAssumption
    <3>2. ZeroFrame.data[c] = -1
      BY DEF ZeroFrame, PayloadOf, Nothing
    <3> QED  BY <2>2, <3>1, <3>2 DEF NoOlder, ZeroFrame, Nothing
  <2> QED  BY <1>1, <1>2, <2>1, <2>2, WordFacts DEF Init, SlotOrder
<1> QED  BY <1>3, <1>4 DEF Init, RingInv, Filling

LEMMA ReaderKeepsRing == RingInv /\ UNCHANGED <<ringVars, writerVars>> => RingInv'
  BY DEF RingInv, SettledSlots, SlotOrder, Filling, Busy, Holds, AtMost, NoOlder, EntryOf,
         ringVars, writerVars

\* A step that stores nothing and leaves the head alone keeps the slots as they
\* are, unless it ends a filling.
LEMMA SlotsStay ==
  RingInv /\ UNCHANGED ringVars /\ wpc \in {"wait", "announce"}
    => SettledSlots' /\ SlotOrder'
  BY DEF RingInv, SettledSlots, SlotOrder, Busy, Holds, AtMost, NoOlder, EntryOf, ringVars

-----------------------------------------------------------------------------
(***************************************************************************)
(* A store.                                                                *)
(***************************************************************************)

Store == StoreTimestamp \/ (\E c \in Chunks : StoreChunk(c)) \/ StoreChecksum \/ StoreSequence

\* A store of the newest ordinal into the slot at the head: each word of the slot
\* is as before or of that ordinal, and every other slot is as before.
RaisesHead ==
  /\ head' = head /\ published' = published /\ wpc' = wpc /\ wsize' = wsize
  /\ \A s \in Slots \ {head} : frames'[s] = frames[s]
  /\ frames'[head].checksum \in {frames[head].checksum, PayloadOf(published, wsize)}
  /\ \A c \in Chunks : frames'[head].data[c] \in {frames[head].data[c], published}
  /\ frames'[head].timestamp_ns \in {frames[head].timestamp_ns, published}
  /\ frames'[head].sequence \in {frames[head].sequence, published}

\* Every word of the slot at the head that is not to be stored any more is the
\* new entry's.
KeepsFilling ==
  /\ "timestamp_ns" \notin wtodo' =>
       frames'[head].timestamp_ns = published
  /\ \A c \in wsize \ wtodo' : frames'[head].data[c] = published
  /\ "checksum" \notin wtodo' => frames'[head].checksum = PayloadOf(published, wsize)
  /\ "sequence" \notin wtodo' => frames'[head].sequence = published

LEMMA StoreRaisesHead ==
  ASSUME TypeOK, RingInv, Store
  PROVE  RaisesHead /\ KeepsFilling /\ UNCHANGED readerVars /\ wpc = "fill"
<1>0. /\ WriteSlot = head /\ head \in Slots /\ frames \in [Slots -> Frames]
      /\ wsize \subseteq Chunks
  BY WriteSlotIsHead DEF TypeOK
<1>1. CASE StoreTimestamp
  <2> USE <1>1, <1>0 DEF StoreTimestamp, Stored
  <2>1. /\ \A s \in Slots \ {head} : frames'[s] = frames[s]
        /\ frames'[head] = [frames[head] EXCEPT !.timestamp_ns = published]
    OBVIOUS
  <2>2. /\ frames'[head].checksum = frames[head].checksum
        /\ frames'[head].data = frames[head].data
        /\ frames'[head].timestamp_ns = published
        /\ frames'[head].sequence = frames[head].sequence
    BY <2>1, FrameWords DEF Frames
  <2>3. KeepsFilling
    BY <2>2, FrameRingAssumption DEF RingInv, Filling, KeepsFilling
  <2> QED  BY <2>1, <2>2, <2>3 DEF RaisesHead
<1>2. ASSUME NEW c \in Chunks, StoreChunk(c)
      PROVE  RaisesHead /\ KeepsFilling /\ UNCHANGED readerVars /\ wpc = "fill"
  <2> USE <1>2, <1>0 DEF StoreChunk, Stored
  <2> DEFINE data == [frames[head].data EXCEPT ![c] = published]
  <2>1. /\ \A s \in Slots \ {head} : frames'[s] = frames[s]
        /\ frames'[head] = [frames[head] EXCEPT !.data = data]
    OBVIOUS
  <2>2. /\ frames'[head].checksum = frames[head].checksum
        /\ frames'[head].data = data
        /\ frames'[head].timestamp_ns = frames[head].timestamp_ns
        /\ frames'[head].sequence = frames[head].sequence
    BY <2>1, FrameWords DEF Frames
  <2>3. \A x \in Chunks : data[x] = IF x = c THEN published ELSE frames[head].data[x]
    BY FrameWords
  <2>4. c \notin Labels
    BY FrameRingAssumption DEF Labels
  <2>5. KeepsFilling
    BY <2>2, <2>3, <2>4 DEF RingInv, Filling, KeepsFilling, Labels
  <2> QED  BY <2>1, <2>2, <2>3, <2>5 DEF RaisesHead
<1>3. CASE StoreChecksum
  <2> USE <1>3, <1>0 DEF StoreChecksum, Stored
  <2>1. /\ \A s \in Slots \ {head} : frames'[s] = frames[s]
        /\ frames'[head] = [frames[head] EXCEPT !.checksum = PayloadOf(published, wsize)]
    OBVIOUS
  <2>2. /\ frames'[head].checksum = PayloadOf(published, wsize)
        /\ frames'[head].data = frames[head].data
        /\ frames'[head].timestamp_ns = frames[head].timestamp_ns
        /\ frames'[head].sequence = frames[head].sequence
    BY <2>1, FrameWords DEF Frames
  <2>3. KeepsFilling
    BY <2>2, FrameRingAssumption DEF RingInv, Filling, KeepsFilling
  <2> QED  BY <2>1, <2>2, <2>3 DEF RaisesHead
<1>4. CASE StoreSequence
  <2> USE <1>4, <1>0 DEF StoreSequence, Stored
  <2>1. /\ \A s \in Slots \ {head} : frames'[s] = frames[s]
        /\ frames'[head] = [frames[head] EXCEPT !.sequence = published]
    OBVIOUS
  <2>2. /\ frames'[head].checksum = frames[head].checksum
        /\ frames'[head].data = frames[head].data
        /\ frames'[head].timestamp_ns = frames[head].timestamp_ns
        /\ frames'[head].sequence = published
    BY <2>1, FrameWords DEF Frames
  <2>3. KeepsFilling
    BY <2>2, FrameRingAssumption DEF RingInv, Filling, KeepsFilling
  <2> QED  BY <2>1, <2>2, <2>3 DEF RaisesHead
<1> QED  BY <1>1, <1>2, <1>3, <1>4 DEF Store

\* Words only grow under a store.
LEMMA RaisedSlot ==
  ASSUME TypeOK, RingInv, RaisesHead, NEW s \in Slots
  PROVE  /\ s # head => frames'[s] = frames[s]
         /\ AtMost(frames'[s], published)
         /\ \A c \in Chunks : frames'[s].data[c] >= frames[s].data[c]
         /\ \A e \in Int : NoOlder(frames[s], e) => NoOlder(frames'[s], e)
<1>0. head \in Slots /\ published \in Int /\ AtMost(frames[s], published)
  BY DEF TypeOK, RingInv, SlotOrder
<1>1. CASE s # head
  BY <1>0, <1>1, FrameWords DEF RaisesHead
<1>2. CASE s = head
  <2>1. /\ \A c \in Chunks : /\ frames'[s].data[c] >= frames[s].data[c]
                             /\ frames'[s].data[c] <= published
                            /\ frames'[s].data[c] \in Int
        /\ frames'[s].timestamp_ns >= frames[s].timestamp_ns
        /\ frames'[s].timestamp_ns <= published /\ frames'[s].timestamp_ns \in Int
        /\ frames'[s].sequence >= frames[s].sequence
        /\ frames'[s].sequence <= published /\ frames'[s].sequence \in Int
    BY <1>0, <1>2, FrameWords DEF RaisesHead, AtMost
  <2>2. ASSUME NEW e \in Int, NoOlder(frames[s], e) PROVE NoOlder(frames'[s], e)
    <3>1. PICK c \in Chunks : frames[s].data[c] >= e
      BY <2>2 DEF NoOlder
    <3>2. frames'[s].data[c] >= e
      BY <2>1, <3>1, FrameWords
    <3> QED  BY <2>1, <2>2, <3>2, FrameWords DEF NoOlder
  <2> QED  BY <1>2, <2>1, <2>2 DEF AtMost
<1> QED  BY <1>1, <1>2

LEMMA StoreKeepsRing == TypeOK /\ RingInv /\ Store => RingInv'
<1> SUFFICES ASSUME TypeOK, RingInv, Store PROVE RingInv'
  OBVIOUS
<1>0. /\ RaisesHead /\ KeepsFilling /\ wpc = "fill" /\ head \in Slots
      /\ published \in Ordinals /\ wsize \subseteq Chunks
  BY StoreRaisesHead, PublishedIsWord DEF TypeOK
<1>1. \A s \in Slots : EntryOf(s)' = EntryOf(s)
  BY <1>0 DEF RaisesHead, EntryOf
<1>2. SettledSlots'
  BY <1>0, <1>1 DEF RingInv, SettledSlots, Busy, RaisesHead, Holds
<1>3. ASSUME NEW s \in Slots, DOMAIN frames'[s].checksum = Chunks
      PROVE  \E e \in Ordinals : frames'[s].checksum = PayloadOf(e, Chunks)
  <2>1. CASE frames'[s].checksum = frames[s].checksum
    BY <1>3, <2>1 DEF RingInv, SlotOrder
  <2>2. CASE s = head /\ frames'[s].checksum = PayloadOf(published, wsize)
    <3>1. DOMAIN PayloadOf(published, wsize) = wsize
      BY DEF PayloadOf
    <3> QED  BY <1>0, <1>3, <2>2, <3>1
  <2> QED  BY <1>0, <2>1, <2>2 DEF RaisesHead
<1>4. ASSUME NEW s \in Slots PROVE AtMost(frames'[s], published') /\ NoOlder(frames'[s], EntryOf(s)')
  <2>1. NoOlder(frames[s], EntryOf(s)) /\ EntryOf(s) \in Int
    BY EntryOfSlot DEF RingInv, SlotOrder
  <2>2. published' = published
    BY <1>0 DEF RaisesHead
  <2> QED  BY <1>0, <1>1, <2>1, <2>2, RaisedSlot
<1>5. SlotOrder'
  BY <1>3, <1>4 DEF SlotOrder, AtMost, NoOlder
<1>6. Filling'
  BY <1>0 DEF RaisesHead, KeepsFilling, RingInv, Filling
<1> QED  BY <1>2, <1>5, <1>6 DEF RingInv

-----------------------------------------------------------------------------
(***************************************************************************)
(* The steps of the writer.                                                *)
(***************************************************************************)

LEMMA HeadStoreKeepsRing == TypeOK /\ RingInv /\ StoreHead => RingInv'
<1> SUFFICES ASSUME TypeOK, RingInv, StoreHead PROVE RingInv'
  OBVIOUS
<1> USE DEF StoreHead, Advance
<1>0. head \in Slots /\ published \in Int /\ wsize \subseteq Chunks /\ Succ(head) \in Slots
  BY RingAssumption DEF TypeOK, Succ, Slots
<1>1. head' = Succ(head)
  BY <1>0, GetHeadNext
<1>2. ASSUME NEW s \in Slots
      PROVE  EntryOf(s)' = IF s = head THEN published ELSE EntryOf(s)
  <2>1. Behind(s, head') = Behind(s, Succ(head))
    BY <1>1, Zenon
  <2>2. Behind(s, Succ(head)) = IF s = head THEN 1 ELSE Behind(s, head) + 1
    BY <1>0, BehindStep
  <2>3. Behind(s, head) \in Int
    BY <1>0, BehindFacts
  <2>4. EntryOf(s)' = (published + 1) - Behind(s, Succ(head))
    <3>1. EntryOf(s)' = published' - Behind(s, head')
      BY DEF EntryOf
    <3>2. published' = published + 1
      OBVIOUS
    <3>3. EntryOf(s)' = published' - Behind(s, Succ(head))
      BY <2>1, <3>1, Zenon
    <3> QED  BY <3>2, <3>3, Zenon
  <2> QED  BY <1>0, <2>2, <2>3, <2>4 DEF EntryOf
<1>3. /\ frames[head].checksum = PayloadOf(published, wsize)
      /\ DOMAIN frames[head].checksum = wsize
      /\ \A c \in wsize : frames[head].data[c] = published
      /\ frames[head].timestamp_ns = published /\ frames[head].sequence = published
      /\ wsize # {}
  BY DEF RingInv, Filling, PayloadOf
<1>4. Holds(frames[head], published)
  BY <1>0, <1>3, FrameRingAssumption DEF Holds, TypeOK
<1>5. NoOlder(frames[head], published)
  BY <1>0, <1>3 DEF NoOlder
<1>6. SettledSlots'
  <2> SUFFICES ASSUME NEW s \in Slots PROVE Holds(frames[s], EntryOf(s)')
    BY DEF SettledSlots, Holds
  <2> QED  BY <1>2, <1>4 DEF RingInv, SettledSlots, Busy
<1>7. SlotOrder'
  <2>1. ASSUME NEW s \in Slots PROVE AtMost(frames[s], published + 1)
    BY <1>0, FrameWords DEF RingInv, SlotOrder, AtMost
  <2>2. ASSUME NEW s \in Slots PROVE NoOlder(frames[s], EntryOf(s)')
    BY <1>2, <1>5 DEF RingInv, SlotOrder
  <2> QED  BY <2>1, <2>2 DEF RingInv, SlotOrder, AtMost, NoOlder
<1> QED  BY <1>6, <1>7 DEF RingInv, Filling

LEMMA NextRing == TypeOK /\ RingInv /\ [Next]_vars => RingInv'
<1> SUFFICES ASSUME TypeOK, RingInv, [Next]_vars PROVE RingInv'
  OBVIOUS
<1>1. ASSUME NEW size \in Sizes, BeginWrite(size) PROVE RingInv'
  <2> USE <1>1 DEF BeginWrite
  <2>1. SettledSlots' /\ SlotOrder'
    BY SlotsStay
  <2>2. size # {} /\ size \subseteq Chunks
    BY FrameRingAssumption
  <2>3. Filling'
    BY <2>2 DEF Filling, Labels
  <2> QED  BY <2>1, <2>3 DEF RingInv
<1>2. CASE Store
  BY <1>2, StoreKeepsRing
<1>3. CASE StoreHead
  BY <1>3, HeadStoreKeepsRing
<1>4. CASE StoreBufferSequence
  <2> USE <1>4 DEF StoreBufferSequence
  <2>1. SettledSlots' /\ SlotOrder'
    BY DEF RingInv, SettledSlots, SlotOrder, Busy, AtMost, NoOlder, Holds, EntryOf
  <2> QED  BY <2>1 DEF RingInv, Filling
<1>5. CASE Read
  <2>1. UNCHANGED <<ringVars, writerVars>>
    BY <1>5 DEF Read, StartRead, StartReadAbsolute, StartAt, SumChunk, LoadChecksum, Loaded,
                CopyChunk, TakeSequence, TakeTimestamp, Deliver, Reject, Return
  <2> QED  BY <2>1, ReaderKeepsRing
<1>6. CASE UNCHANGED vars
  BY <1>6, ReaderKeepsRing DEF vars
<1> QED
  BY <1>1, <1>2, <1>3, <1>4, <1>5, <1>6 DEF Next, Write, Store

\* What a writer step can do to the slot a reader is in: outside the slot at the
\* head nothing changes, and in it words only grow.
LEMMA WriteGrows ==
  ASSUME TypeOK, RingInv, Write, NEW s \in Slots
  PROVE  /\ UNCHANGED readerVars
         /\ s # head => frames'[s] = frames[s]
         /\ \A c \in Chunks : frames'[s].data[c] >= frames[s].data[c]
         /\ \A e \in Int : NoOlder(frames[s], e) => NoOlder(frames'[s], e)
<1>1. CASE Store
  BY <1>1, StoreRaisesHead, RaisedSlot
<1>2. CASE ~Store
  <2>1. UNCHANGED frames /\ UNCHANGED readerVars
    BY <1>2 DEF Write, Store, BeginWrite, StoreHead, Advance, StoreBufferSequence, ringVars
  <2> QED  BY <2>1, FrameWords DEF NoOlder
<1> QED  BY <1>1, <1>2

\* Only StoreHead moves the head, and it moves it past the slot just filled.
LEMMA WriteMovesHead ==
  ASSUME TypeOK, Write
  PROVE  \/ head' = head /\ published' = published
         \/ head' = Succ(head) /\ published' = published + 1
  BY GetHeadNext
     DEF TypeOK, Write, BeginWrite, StoreTimestamp, StoreChunk, StoreChecksum, Stored,
         StoreSequence, StoreHead, Advance, StoreBufferSequence, ringVars

-----------------------------------------------------------------------------
(***************************************************************************)
(* The reader.                                                             *)
(***************************************************************************)

\* get_head(index) is as far behind the head as the caller means it to be when
\* it does not count back past the start of a ring that does not divide the
\* word.
LEMMA RequestedSlot ==
  ASSUME NEW h \in Slots, NEW index \in -1 .. NumFrames, index <= h \/ Word % NumFrames = 0
  PROVE  Behind(GetHead(h, index), h) = Age(index)
<1>1. CASE index \in 1 .. NumFrames
  <2>1. Behind(GetHead(h, index), h) = index
    BY <1>1, GetHeadCountsBack
  <2>2. (index - 1) % NumFrames = index - 1
    BY <1>1, RingAssumption, ModSmall
  <2> QED  BY <1>1, <2>1, <2>2 DEF Age
<1>2. CASE index = 0
  <2>1. GetHead(h, index) = h
    BY <1>2, GetHeadWithinLap DEF Slots
  <2>2. (index - 1) % NumFrames = NumFrames - 1
    BY <1>2, RingAssumption, ModTurnDown
  <2> QED  BY <2>1, <2>2, BehindFacts, RingAssumption DEF Age
<1>3. CASE index = -1
  <2>1. GetHead(h, index) = Succ(h)
    BY <1>3, GetHeadNext
  <2>2. CASE NumFrames = 1
    <3>1. (index - 1) % NumFrames = 0
      BY <1>3, <2>2, ModRange
    <3>2. Succ(h) \in Slots /\ h \in Slots /\ Succ(h) = h
      BY <2>2 DEF Succ, Slots
    <3> QED  BY <2>1, <2>2, <3>1, <3>2, BehindFacts DEF Age
  <2>3. CASE NumFrames # 1
    <3>1. (index - 1) % NumFrames = NumFrames - 2
      <4>1. index - 1 \in (-NumFrames) .. -1 /\ index - 1 = -2
        BY <1>3, <2>3, RingAssumption
      <4>2. (index - 1) % NumFrames = index - 1 + NumFrames
        BY <4>1, RingAssumption, ModTurnDown
      <4> QED  BY <4>1, <4>2, RingAssumption
    <3>2. Behind(Succ(h), h) = NumFrames - 1
      BY <2>3, RingAssumption DEF Behind, Succ, Slots
    <3> QED  BY <2>1, <3>1, <3>2, RingAssumption DEF Age
  <2> QED  BY <2>2, <2>3
<1> QED  BY <1>1, <1>2, <1>3

\* Whatever the ring and the word, a read is for the entry in the slot it is
\* sent to.
LEMMA ReadsItsSlot ==
  ASSUME TypeOK
  PROVE  \A index \in Requests : /\ GetHead(head, index) \in Slots
                                 /\ Wanted(index) = EntryOf(GetHead(head, index))
<1> SUFFICES ASSUME NEW index \in Requests
             PROVE  /\ GetHead(head, index) \in Slots
                    /\ Wanted(index) = EntryOf(GetHead(head, index))
  OBVIOUS
<1>1. head \in Slots /\ index \in -1 .. NumFrames
  BY FrameRingAssumption DEF TypeOK
<1>2. GetHead(head, index) \in Slots
  <2>1. head \in Int /\ index \in Int
    BY <1>1 DEF Slots
  <2> QED  BY <2>1, GetHeadInSlots
<1>3. CASE index <= head \/ Word % NumFrames = 0
  <2>1. Behind(GetHead(head, index), head) = Age(index)
    BY <1>1, <1>3, RequestedSlot
  <2>2. Wanted(index) = published - Age(index)
    BY <1>3 DEF Wanted
  <2> QED  BY <1>2, <2>1, <2>2 DEF EntryOf
<1>4. CASE ~(index <= head \/ Word % NumFrames = 0)
  BY <1>2, <1>4 DEF Wanted
<1> QED  BY <1>2, <1>3, <1>4

\* So every read begins at a slot with the entry it is for.
LEMMA ReadBegins ==
  ASSUME TypeOK, (\E index \in Requests : StartRead(index)) \/ (\E s \in Slots : StartReadAbsolute(s))
  PROVE  \E s \in Slots : StartAt(s, EntryOf(s))
  BY ReadsItsSlot DEF StartRead, StartReadAbsolute

LEMMA NextReading == TypeOK /\ RingInv /\ Reading /\ [Next]_vars => Reading'
<1> SUFFICES ASSUME TypeOK, RingInv, Reading, [Next]_vars PROVE Reading'
  OBVIOUS
<1>1. CASE Write
  <2>1. UNCHANGED readerVars
    BY <1>1, WriteGrows, RingAssumption DEF Slots
  <2> QED  BY <2>1 DEF Reading, readerVars
<1>2. CASE Read
  BY <1>2 DEF Reading, Read, StartRead, StartReadAbsolute, StartAt, SumChunk, LoadChecksum,
     Loaded, CopyChunk, TakeSequence, TakeTimestamp, Deliver, Reject, Return
<1>3. CASE UNCHANGED vars
  BY <1>3 DEF vars, readerVars, Reading
<1> QED  BY <1>1, <1>2, <1>3 DEF Next

\* In the window the slot read is not the one at the head, so it is settled.
LEMMA WindowSettled ==
  ASSUME TypeOK, RingInv, WindowRead, rpc # "idle", InWindow
  PROVE  rslot # head /\ Holds(frames[rslot], target)
<1>1. rslot \in Slots /\ head \in Slots /\ target \in Int /\ published \in Int
  BY FrameRingAssumption DEF TypeOK
<1>2. Behind(rslot, head) = published - target /\ published - target < NumFrames
  BY DEF WindowRead, InWindow
<1>3. rslot # head
  BY <1>1, <1>2, BehindFacts, RingAssumption
<1>4. EntryOf(rslot) = target
  BY <1>1, <1>2 DEF EntryOf
<1>5. Holds(frames[rslot], EntryOf(rslot))
  BY <1>1, <1>3 DEF RingInv, SettledSlots, Busy
<1> QED  BY <1>3, <1>4, <1>5

\* Another step of the read, with the ring as it was.
LEMMA NextWindow ==
  ASSUME TypeOK, RingInv, Reading, WindowRead, [Next]_vars
  PROVE  WindowRead'
<1>0. /\ rslot \in Slots /\ head \in Slots /\ target \in Int /\ published \in Int
      /\ rsum \in [Chunks -> Words] /\ entry.data \in [Chunks -> Words]
      /\ entry \in [timestamp_ns : Words, sequence : Words, data : Payloads]
  BY FrameRingAssumption DEF TypeOK, Payloads
<1>1. CASE Write
  <2>1. UNCHANGED <<rpc, rslot, sumtodo, rtodo, rsum, checksum, entry, target>>
    BY <1>0, <1>1, WriteGrows DEF readerVars
  <2>2. ASSUME rpc # "idle", InWindow' PROVE InWindow
    BY <1>0, <1>1, <2>1, <2>2, WriteMovesHead, RingAssumption DEF InWindow
  <2>3. ASSUME rpc # "idle", InWindow'
        PROVE  frames'[rslot] = frames[rslot] /\ Behind(rslot, head') = published' - target
    <3>1. rslot # head /\ Behind(rslot, head) = published - target
      BY <2>2, <2>3, WindowSettled DEF WindowRead
    <3>2. frames'[rslot] = frames[rslot]
      BY <1>0, <1>1, <3>1, WriteGrows
    <3>3. CASE head' = head /\ published' = published
      BY <3>1, <3>2, <3>3
    <3>4. CASE head' = Succ(head) /\ published' = published + 1
      <4>1. Behind(rslot, Succ(head)) = Behind(rslot, head) + 1
        BY <1>0, <3>1, BehindStep
      <4>2. Behind(rslot, head') = Behind(rslot, Succ(head))
        BY <3>4, Zenon
      <4> QED  BY <1>0, <3>1, <3>2, <3>4, <4>1, <4>2
    <3> QED  BY <1>1, <3>3, <3>4, WriteMovesHead
  <2> QED  BY <2>1, <2>2, <2>3 DEF WindowRead, InWindow
<1>2. ASSUME NEW s \in Slots, StartAt(s, EntryOf(s)) PROVE WindowRead'
  <2>1. Behind(s, head) = published - EntryOf(s)
    BY <1>0, EntryOfSlot
  <2>2. \A c \in Chunks : c \in Chunks \cup Labels
    OBVIOUS
  <2> QED  BY <1>2, <2>1, <2>2 DEF StartAt, WindowRead, InWindow, ringVars, Labels
<1>3. ASSUME NEW c \in Chunks, SumChunk(c) PROVE WindowRead'
  BY <1>0, <1>3 DEF SumChunk, WindowRead, InWindow, ringVars
<1>4. CASE LoadChecksum
  BY <1>0, <1>4, FrameRingAssumption DEF LoadChecksum, Loaded, WindowRead, InWindow, ringVars
<1>5. ASSUME NEW c \in Chunks, CopyChunk(c) PROVE WindowRead'
  <2> USE <1>5 DEF CopyChunk, Loaded, ringVars
  <2>1. /\ \A x \in Chunks : entry'.data[x] = IF x = c THEN frames[rslot].data[c] ELSE entry.data[x]
        /\ entry'.sequence = entry.sequence /\ entry'.timestamp_ns = entry.timestamp_ns
    BY <1>0
  <2>2. c \notin Labels
    BY FrameRingAssumption DEF Labels
  <2> QED  BY <2>1, <2>2 DEF WindowRead, InWindow, Labels
<1>6. CASE TakeSequence
  <2> USE <1>6 DEF TakeSequence, Loaded, ringVars
  <2>1. /\ entry'.sequence = frames[rslot].sequence
        /\ entry'.timestamp_ns = entry.timestamp_ns /\ entry'.data = entry.data
    BY <1>0
  <2> QED  BY <2>1, FrameRingAssumption DEF WindowRead, InWindow
<1>7. CASE TakeTimestamp
  <2> USE <1>7 DEF TakeTimestamp, Loaded, ringVars
  <2>1. /\ entry'.timestamp_ns = frames[rslot].timestamp_ns
        /\ entry'.sequence = entry.sequence /\ entry'.data = entry.data
    BY <1>0
  <2> QED  BY <2>1, FrameRingAssumption DEF WindowRead, InWindow
<1>8. CASE Deliver
  BY <1>8 DEF Deliver, WindowRead, InWindow, ringVars
<1>9. CASE Reject
  <2> USE <1>9 DEF Reject, ringVars
  <2>1. ASSUME InWindow, target >= 0, DOMAIN frames[rslot].checksum = Chunks PROVE FALSE
    <3>1. Holds(frames[rslot], target)
      BY <2>1, WindowSettled
    <3>2. frames[rslot].checksum = PayloadOf(target, Chunks)
      BY <1>0, <2>1, <3>1 DEF Holds
    <3>3. \A c \in Chunks : frames[rslot].data[c] = target
      BY <1>0, <2>1, <3>1 DEF Holds
    <3>4. \A c \in Chunks : rsum[c] = target
      BY <2>1, <3>3 DEF WindowRead
    <3>5. rsum = PayloadOf(target, Chunks)
      BY <1>0, <3>4 DEF PayloadOf
    <3>6. checksum = frames[rslot].checksum
      BY <2>1 DEF WindowRead
    <3> QED  BY <3>2, <3>5, <3>6
  <2>2. InWindow => target < 0 \/ DOMAIN frames[rslot].checksum # Chunks
    BY <1>0, <2>1
  <2>3. InWindow' <=> InWindow
    BY DEF InWindow
  <2>4. ASSUME InWindow
        PROVE  /\ Behind(rslot, head) = published - target
               /\ \A c \in Chunks \ sumtodo : rsum[c] = frames[rslot].data[c]
               /\ checksum = frames[rslot].checksum
    BY <2>4 DEF WindowRead
  <2> QED  BY <2>2, <2>3, <2>4 DEF WindowRead
<1>10. CASE Return
  BY <1>10 DEF Return, WindowRead
<1>11. CASE UNCHANGED vars
  BY <1>11 DEF vars, ringVars, readerVars, WindowRead, InWindow
<1> QED
  BY <1>1, <1>2, <1>3, <1>4, <1>5, <1>6, <1>7, <1>8, <1>9, <1>10, <1>11, ReadBegins
     DEF Next, Read

LEMMA GeTransitive ==
  ASSUME NEW a \in Int, NEW b \in Int, NEW d \in Int, a >= b, b >= d PROVE a >= d
  OBVIOUS

LEMMA LeTransitive ==
  ASSUME NEW a \in Int, NEW b \in Int, NEW d \in Int, a <= b, d >= b PROVE a <= d
  OBVIOUS

LEMMA NextLapped ==
  ASSUME TypeOK, RingInv, Reading, LappedRead, [Next]_vars
  PROVE  LappedRead'
<1>0. /\ rslot \in Slots /\ target \in Int
      /\ rsum \in [Chunks -> Words] /\ entry.data \in [Chunks -> Words]
      /\ entry \in [timestamp_ns : Words, sequence : Words, data : Payloads]
      /\ \A c \in Chunks : rsum[c] \in Int /\ entry.data[c] \in Int
      /\ \A c \in Chunks : frames[rslot].data[c] \in Int
      /\ frames[rslot].sequence \in Int /\ frames[rslot].timestamp_ns \in Int
  BY WordFacts, FrameWords DEF TypeOK, Payloads
<1>1. CASE Write
  <2>1. UNCHANGED <<rpc, rslot, sumtodo, rtodo, rsum, checksum, entry, target>>
    BY <1>0, <1>1, WriteGrows DEF readerVars
  <2>2. ASSUME rpc \in {"load", "delivered"} PROVE NoOlder(frames'[rslot], target)
    BY <1>0, <1>1, <2>2, WriteGrows DEF LappedRead
  <2>3. \A c \in Chunks : frames'[rslot].data[c] >= frames[rslot].data[c]
    BY <1>0, <1>1, WriteGrows
  <2>4. \A c \in Chunks : frames'[rslot].data[c] \in Int
    <3>1. frames' \in [Slots -> Frames]
      BY NextType DEF TypeOK
    <3>2. frames'[rslot].data \in [Chunks -> Words]
      BY <1>0, <3>1 DEF Frames, Payloads
    <3> QED  BY <3>2, WordFacts
  <2>5. ASSUME rpc \in {"load", "delivered"}
        PROVE  /\ \E c \in Chunks : /\ frames'[rslot].data[c] >= target
                                    /\ c \notin sumtodo => rsum[c] >= target
               /\ \A c \in Chunks \ sumtodo : rsum[c] <= frames'[rslot].data[c]
    <3>1. PICK c \in Chunks : /\ frames[rslot].data[c] >= target
                              /\ c \notin sumtodo => rsum[c] >= target
      BY <2>5 DEF LappedRead
    <3>2. frames'[rslot].data[c] >= target
      <4>1. frames[rslot].data[c] \in Int
        BY <1>0
      <4>2. frames'[rslot].data[c] \in Int
        BY <2>4
      <4>3. frames'[rslot].data[c] >= frames[rslot].data[c]
        BY <2>3
      <4>4. frames[rslot].data[c] >= target
        BY <3>1
      <4> QED  BY <1>0, <4>1, <4>2, <4>3, <4>4, GeTransitive
    <3>3. ASSUME NEW x \in Chunks \ sumtodo PROVE rsum[x] <= frames'[rslot].data[x]
      <4>1. rsum[x] <= frames[rslot].data[x]
        BY <2>5 DEF LappedRead
      <4>2. /\ frames[rslot].data[x] \in Int /\ frames'[rslot].data[x] \in Int
            /\ frames'[rslot].data[x] >= frames[rslot].data[x] /\ rsum[x] \in Int
        BY <1>0, <2>3, <2>4
      <4> QED  BY <4>1, <4>2, LeTransitive
    <3> QED  BY <3>1, <3>2, <3>3, Zenon
  <2>6. ASSUME rpc \in {"load", "delivered"}
        PROVE  /\ \A c \in Chunks \ rtodo : c \notin sumtodo /\ rsum[c] <= entry.data[c]
               /\ "sequence" \notin rtodo => entry.sequence >= target
               /\ "timestamp_ns" \notin rtodo => entry.timestamp_ns >= target
               /\ "checksum" \notin rtodo /\ DOMAIN checksum = Chunks =>
                    \E e \in Ordinals : checksum = PayloadOf(e, Chunks)
    BY <2>6 DEF LappedRead
  <2> QED  BY <2>1, <2>2, <2>5, <2>6 DEF LappedRead, NoOlder
<1>2. ASSUME NEW s \in Slots, StartAt(s, EntryOf(s)) PROVE LappedRead'
  <2> USE <1>2 DEF StartAt, ringVars
  <2>1. NoOlder(frames[s], EntryOf(s))
    BY DEF RingInv, SlotOrder
  <2>2. \E c \in Chunks : frames[s].data[c] >= EntryOf(s)
    BY <2>1 DEF NoOlder
  <2> QED  BY <2>1, <2>2 DEF LappedRead, NoOlder, Labels
<1>3. ASSUME NEW c \in Chunks, SumChunk(c) PROVE LappedRead'
  <2> USE <1>3 DEF SumChunk, ringVars
  <2>1. \A x \in Chunks : rsum'[x] = IF x = c THEN frames[rslot].data[c] ELSE rsum[x]
    BY <1>0
  <2>2. \A x \in Chunks \ rtodo : x # c
    BY DEF LappedRead
  <2>3. PICK d \in Chunks : /\ frames[rslot].data[d] >= target
                            /\ d \notin sumtodo => rsum[d] >= target
    BY DEF LappedRead
  <2>4. \E x \in Chunks : /\ frames[rslot].data[x] >= target
                          /\ x \notin sumtodo' => rsum'[x] >= target
    BY <2>1, <2>3
  <2>5. \A x \in Chunks \ sumtodo' : rsum'[x] <= frames[rslot].data[x]
    <3>1. \A x \in Chunks \ sumtodo : rsum[x] <= frames[rslot].data[x]
      BY DEF LappedRead
    <3> QED  BY <1>0, <2>1, <3>1
  <2>6. \A x \in Chunks \ rtodo : x \notin sumtodo' /\ rsum'[x] <= entry.data[x]
    BY <2>1, <2>2 DEF LappedRead
  <2>7. /\ NoOlder(frames[rslot], target)
        /\ "sequence" \notin rtodo => entry.sequence >= target
        /\ "timestamp_ns" \notin rtodo => entry.timestamp_ns >= target
        /\ "checksum" \notin rtodo /\ DOMAIN checksum = Chunks =>
             \E e \in Ordinals : checksum = PayloadOf(e, Chunks)
    BY DEF LappedRead
  <2>8. /\ frames' = frames /\ rslot' = rslot /\ target' = target
        /\ rtodo' = rtodo /\ entry' = entry /\ checksum' = checksum
    OBVIOUS
  <2> QED  BY <2>4, <2>5, <2>6, <2>7, <2>8 DEF LappedRead, NoOlder
<1>4. CASE LoadChecksum
  <2> USE <1>4 DEF LoadChecksum, Loaded, ringVars
  <2>1. DOMAIN checksum' = Chunks => \E e \in Ordinals : checksum' = PayloadOf(e, Chunks)
    BY <1>0 DEF RingInv, SlotOrder
  <2>2. "checksum" \notin Chunks
    BY FrameRingAssumption
  <2> QED  BY <2>1, <2>2 DEF LappedRead, NoOlder
<1>5. ASSUME NEW c \in Chunks, CopyChunk(c) PROVE LappedRead'
  <2> USE <1>5 DEF CopyChunk, Loaded, ringVars
  <2>1. /\ \A x \in Chunks : entry'.data[x] = IF x = c THEN frames[rslot].data[c] ELSE entry.data[x]
        /\ entry'.sequence = entry.sequence /\ entry'.timestamp_ns = entry.timestamp_ns
    BY <1>0
  <2>2. c \notin Labels
    BY FrameRingAssumption DEF Labels
  <2>3. \A x \in Chunks \ rtodo' : x \notin sumtodo /\ rsum[x] <= entry'.data[x]
    BY <2>1 DEF LappedRead
  <2> QED  BY <2>1, <2>2, <2>3 DEF LappedRead, NoOlder, Labels
<1>6. CASE TakeSequence
  <2> USE <1>6 DEF TakeSequence, Loaded, ringVars
  <2>1. /\ entry'.sequence = frames[rslot].sequence
        /\ entry'.timestamp_ns = entry.timestamp_ns /\ entry'.data = entry.data
    BY <1>0
  <2> QED  BY <2>1, FrameRingAssumption DEF LappedRead, NoOlder
<1>7. CASE TakeTimestamp
  <2> USE <1>7 DEF TakeTimestamp, Loaded, ringVars
  <2>1. /\ entry'.timestamp_ns = frames[rslot].timestamp_ns
        /\ entry'.sequence = entry.sequence /\ entry'.data = entry.data
    BY <1>0
  <2> QED  BY <2>1, FrameRingAssumption DEF LappedRead, NoOlder
<1>8. CASE Deliver
  BY <1>8 DEF Deliver, LappedRead, NoOlder, ringVars
<1>9. CASE Reject \/ Return
  BY <1>9 DEF Reject, Return, LappedRead
<1>10. CASE UNCHANGED vars
  BY <1>10 DEF vars, ringVars, readerVars, LappedRead, NoOlder
<1> QED
  BY <1>1, <1>2, <1>3, <1>4, <1>5, <1>6, <1>7, <1>8, <1>9, <1>10, ReadBegins
     DEF Next, Read

LEMMA InitReads == Init => Reading /\ WindowRead /\ LappedRead
  BY DEF Init, Reading, WindowRead, LappedRead

-----------------------------------------------------------------------------
(***************************************************************************)
(* Theorems.                                                               *)
(***************************************************************************)

LEMMA InvHolds == Spec => []Inv
<1>1. Init => Inv
  BY InitType, InitRing, InitReads DEF Inv
<1>2. Inv /\ [Next]_vars => Inv'
  BY NextType, NextRing, NextReading, NextWindow, NextLapped DEF Inv
<1> QED  BY <1>1, <1>2, PTL DEF Spec

LEMMA InvImpliesExact == Inv => ExactInWindow
<1> SUFFICES ASSUME Inv, InWindow PROVE ExactInWindow
  BY DEF ExactInWindow
<1>0. /\ entry \in [timestamp_ns : Words, sequence : Words, data : Payloads]
      /\ target \in Int /\ rslot \in Slots /\ TypeOK
  BY DEF Inv, TypeOK
<1>1. ASSUME rpc = "delivered"
      PROVE  entry = [timestamp_ns |-> target, sequence |-> target,
                      data |-> PayloadOf(target, Chunks)]
  <2>1. Holds(frames[rslot], target)
    BY <1>1, WindowSettled DEF Inv
  <2>2. /\ rsum = frames[rslot].checksum
        /\ entry.sequence = frames[rslot].sequence
        /\ entry.timestamp_ns = frames[rslot].timestamp_ns
        /\ \A c \in Chunks : entry.data[c] = frames[rslot].data[c]
    BY <1>1 DEF Inv, Reading, WindowRead
  <2>3. rsum \in [Chunks -> Words]
    BY DEF Inv, TypeOK, Payloads
  <2>4. DOMAIN frames[rslot].checksum = Chunks
    BY <2>2, <2>3
  <2>5. target >= 0
    <3>1. ASSUME target < 0 PROVE FALSE
      <4>1. frames[rslot].checksum = PayloadOf(Nothing, {})
        BY <2>1, <3>1 DEF Holds, ZeroFrame
      <4>2. DOMAIN frames[rslot].checksum = {}
        BY <4>1 DEF PayloadOf
      <4> QED  BY <2>4, <4>2, FrameRingAssumption
    <3> QED  BY <1>0, <3>1
  <2>6. /\ frames[rslot].timestamp_ns = target /\ frames[rslot].sequence = target
        /\ \A c \in Chunks : frames[rslot].data[c] = target
    BY <1>0, <2>1, <2>4, <2>5 DEF Holds
  <2>7. entry.data = PayloadOf(target, Chunks)
    BY <1>0, <2>2, <2>6 DEF Payloads, PayloadOf
  <2> QED  BY <1>0, <2>2, <2>6, <2>7
<1>2. rpc = "rejected" => target < 0 \/ DOMAIN frames[rslot].checksum # Chunks
  BY DEF Inv, WindowRead
<1> QED  BY <1>1, <1>2 DEF ExactInWindow

\* A read the writer does not come round to returns exactly the entry it is for,
\* or nothing when there is none or it is short: for every ring, also those that
\* do not divide the word, every payload, every request and every order of the
\* plain loads and stores.
THEOREM ReadsAreExact == Spec => []ExactInWindow
  BY InvHolds, InvImpliesExact, PTL

\* A read at an index up to the head, among them the oldest entry (-1) always and
\* the latest (1) at every head but 0, is for the entry that index means.
THEOREM ReadsAreForTheirIndex ==
  ASSUME NEW index \in Requests, TypeOK, StartRead(index), index <= head
  PROVE  /\ target' = published - Age(index)
         /\ Behind(rslot', head) = Age(index)
<1>1. head \in Slots /\ index \in -1 .. NumFrames
  BY FrameRingAssumption DEF TypeOK
<1>2. Behind(GetHead(head, index), head) = Age(index)
  BY <1>1, RequestedSlot
<1> QED  BY <1>2 DEF StartRead, StartAt, Wanted

LEMMA InvImpliesTornShape == Inv => TornShape
<1> SUFFICES ASSUME Inv, rpc = "delivered" PROVE TornShape
  BY DEF TornShape
<1>0. /\ target \in Int /\ rsum \in [Chunks -> Words]
      /\ \A c \in Chunks : rsum[c] \in Int
      /\ sumtodo = {} /\ rtodo = {} /\ rsum = checksum
  BY WordFacts DEF Inv, TypeOK, Payloads, Reading
<1>1. PICK e \in Ordinals : checksum = PayloadOf(e, Chunks)
  BY <1>0 DEF Inv, LappedRead
<1>2. /\ rsum = PayloadOf(e, Chunks) /\ \A c \in Chunks : rsum[c] = e
      /\ e \in Int
  BY <1>0, <1>1 DEF PayloadOf, Ordinals
<1>3. e >= target
  <2>1. PICK c \in Chunks : rsum[c] >= target
    BY <1>0 DEF Inv, LappedRead
  <2> QED  BY <1>2, <2>1
<1>4. \A c \in Chunks : entry.data[c] >= e
  <2> SUFFICES ASSUME NEW c \in Chunks PROVE entry.data[c] >= e
    OBVIOUS
  <2>1. entry.data[c] \in Int
    BY WordFacts DEF Inv, TypeOK, Payloads
  <2>2. rsum[c] <= entry.data[c]
    BY <1>0 DEF Inv, LappedRead
  <2> QED  BY <1>2, <2>1, <2>2
<1>5. entry.timestamp_ns >= target /\ entry.sequence >= target
  BY <1>0 DEF Inv, LappedRead
<1> QED  BY <1>2, <1>3, <1>4, <1>5 DEF TornShape

\* However the writer laps a read and in whatever order the machine makes its
\* loads, what is delivered is bounded from below by the entry seen whole and by
\* the entry the read was for.
THEOREM TornReadsAreBounded == Spec => []TornShape
  BY InvHolds, InvImpliesTornShape, PTL

\* Buffer.sequence and the head describe the same entry, except between the
\* two stores of a publication.
THEOREM SequenceIsAnnounced == Spec => []SequenceFollowsHead
<1>1. Init => SequenceFollowsHead
  BY DEF Init, SequenceFollowsHead, Nothing
<1>2. TypeOK /\ SequenceFollowsHead /\ [Next]_vars => SequenceFollowsHead'
  <2> SUFFICES ASSUME TypeOK, SequenceFollowsHead, [Next]_vars PROVE SequenceFollowsHead'
    OBVIOUS
  <2>1. published \in Int
    BY DEF TypeOK
  <2> QED
    BY <2>1 DEF SequenceFollowsHead, Next, vars, ringVars, writerVars, Write, BeginWrite,
       StoreTimestamp, StoreChunk, StoreChecksum, StoreSequence, Stored, StoreHead, Advance,
       StoreBufferSequence, Read, StartRead, StartReadAbsolute, StartAt, SumChunk, LoadChecksum,
       Loaded, CopyChunk, TakeSequence, TakeTimestamp, Deliver, Reject, Return
<1> QED  BY <1>1, <1>2, TypeCorrect, PTL DEF Spec
=============================================================================
