------------------------------ MODULE FrameRing ------------------------------
(***************************************************************************)
(* One shared-memory ring, its writer thread and a reader, at the grain of *)
(* the individual loads and stores of the shared frame.                    *)
(*                                                                         *)
(* SharedDictWriter::_process_queue stores timestamp, payload, checksum    *)
(* and sequence into the slot at the head, then the next head and the      *)
(* buffer's sequence.  There is no lock between it and SharedDictReader,   *)
(* another process, which sums the payload, compares the checksum, copies  *)
(* the payload again and takes sequence and timestamp.                     *)
(*                                                                         *)
(* Only head and the buffer's sequence are atomic.  The frame's fields are *)
(* plain memory and the machine may run weakly ordered, so:                *)
(*   - the stores of one entry become visible in any order, between the    *)
(*     load of the head that precedes them (sequentially consistent, so    *)
(*     not before the release store of the entry before) and the release   *)
(*     store of the head that follows them;                                *)
(*   - the loads of one read happen in any order, those of the copy, the   *)
(*     sequence and the timestamp also before the comparison that decides  *)
(*     over them; only two loads of one byte keep their order.             *)
(*                                                                         *)
(* Entries are named by their ordinal: entry e is the e-th that was begun. *)
(* Nothing stands for zeroed memory.  A payload is a function from chunks  *)
(* to the entry each chunk came from, and the checksum of a payload is the *)
(* payload itself: CRC32 is taken to be free of collisions.                *)
(***************************************************************************)
EXTENDS RingIndex

CONSTANTS Chunks,        \* the portions of a slot's payload
          Sizes,         \* payload sizes a source hands over: sets of chunks
          Requests,      \* the indexes from the head a reader asks for
          MaxPublished   \* bound on the number of entries

\* add() refuses an empty entry; read_oldest asks for -1, read_latest for 1.
ASSUME FrameRingAssumption == /\ Chunks # {}
                              /\ Chunks \cap {"timestamp_ns", "checksum", "sequence"} = {}
                              /\ Sizes \subseteq (SUBSET Chunks) \ {{}}
                              /\ Requests \subseteq -1 .. NumFrames
                              /\ MaxPublished \in Nat

VARIABLES head,       \* Buffer.head
          sequence,   \* Buffer.sequence
          frames,     \* Buffer.frames
          published,  \* entries whose head store has happened (history)
          wpc,        \* where the writer thread is in its loop
          wsize,      \* chunks of the entry being written
          wtodo,      \* stores of it that are not visible yet
          rpc,        \* where the reader is in _populate_data_enty
          rslot,      \* the slot it reads
          sumtodo,    \* chunks the checksum pass has not loaded yet
          rtodo,      \* the other loads it still has to make
          rsum,       \* the payload as the checksum pass saw it
          checksum,   \* frame->checksum as the reader loaded it
          entry,      \* the DataEntry being filled in
          target      \* ordinal of the entry the read is for (history)

ringVars   == <<head, sequence, frames, published>>
writerVars == <<wpc, wsize, wtodo>>
readerVars == <<rpc, rslot, sumtodo, rtodo, rsum, checksum, entry, target>>
vars       == <<ringVars, writerVars, readerVars>>

Nothing == -1

Ordinals == 0 .. MaxPublished - 1
Words    == Ordinals \cup {Nothing}
Payloads == [Chunks -> Words]

\* The payload of entry e on chunks c, and its checksum.
PayloadOf(e, c) == [x \in c |-> e]

\* The words of a frame beside its payload.
Labels == {"timestamp_ns", "checksum", "sequence"}

\* A slot after memset: crc32 of no bytes is the zero word.
ZeroFrame == [timestamp_ns |-> Nothing, checksum |-> PayloadOf(Nothing, {}),
              sequence |-> Nothing, data |-> PayloadOf(Nothing, Chunks)]

NoEntry == [timestamp_ns |-> Nothing, sequence |-> Nothing,
            data |-> PayloadOf(Nothing, Chunks)]

Init == /\ head = 0 /\ sequence = Nothing /\ published = 0
        /\ frames = [s \in Slots |-> ZeroFrame]
        /\ wpc = "wait" /\ wsize = {} /\ wtodo = {}
        /\ rpc = "idle" /\ rslot = 0 /\ sumtodo = {} /\ rtodo = {}
        /\ rsum = PayloadOf(Nothing, Chunks) /\ checksum = PayloadOf(Nothing, {})
        /\ entry = NoEntry /\ target = Nothing

-----------------------------------------------------------------------------
(***************************************************************************)
(* The writer thread.                                                      *)
(***************************************************************************)

WriteSlot == GetHead(head, 0)

\* Take the next entry and look up the slot for it.
BeginWrite(size) ==
  /\ wpc = "wait"
  /\ published < MaxPublished
  /\ wpc' = "fill"
  /\ wsize' = size
  /\ wtodo' = Labels \cup size
  /\ UNCHANGED <<ringVars, readerVars>>

Stored(x) == /\ wpc = "fill" /\ x \in wtodo
             /\ wtodo' = wtodo \ {x}
             /\ UNCHANGED <<head, sequence, published, wpc, wsize, readerVars>>

StoreTimestamp ==
  /\ Stored("timestamp_ns")
  /\ frames' = [frames EXCEPT ![WriteSlot].timestamp_ns = published]

StoreChunk(c) ==
  /\ Stored(c)
  /\ frames' = [frames EXCEPT ![WriteSlot].data[c] = published]

\* crc32 of the entry's own bytes: it does not read the shared frame.
StoreChecksum ==
  /\ Stored("checksum")
  /\ frames' = [frames EXCEPT ![WriteSlot].checksum = PayloadOf(published, wsize)]

StoreSequence ==
  /\ Stored("sequence")
  /\ frames' = [frames EXCEPT ![WriteSlot].sequence = published]

Advance == /\ head' = GetHead(head, -1)
           /\ published' = published + 1
           /\ wpc' = "announce"
           /\ wtodo' = {}
           /\ UNCHANGED <<sequence, frames, wsize, readerVars>>

\* Mutant: a relaxed store of the head, which overtakes the timestamp.
StoreHeadRelaxed == /\ wpc = "fill" /\ wtodo \subseteq {"timestamp_ns"}
                    /\ Advance

\* _buffer->head.store(get_head(-1), release)
StoreHead == /\ wpc = "fill" /\ wtodo = {}
             /\ Advance

\* _buffer->sequence.store(entry.sequence, release)
StoreBufferSequence ==
  /\ wpc = "announce"
  /\ sequence' = published - 1
  /\ wpc' = "wait"
  /\ wsize' = {}
  /\ UNCHANGED <<head, frames, published, wtodo, readerVars>>

Write == \/ \E size \in Sizes : BeginWrite(size)
         \/ StoreTimestamp
         \/ \E c \in Chunks : StoreChunk(c)
         \/ StoreChecksum \/ StoreSequence
         \/ StoreHead \/ StoreBufferSequence

-----------------------------------------------------------------------------
(***************************************************************************)
(* The reader.                                                             *)
(***************************************************************************)

StartAt(s, wanted) ==
  /\ rpc = "idle"
  /\ rpc' = "load"
  /\ rslot' = s
  /\ sumtodo' = Chunks
  /\ rtodo' = Chunks \cup Labels
  /\ target' = wanted
  /\ UNCHANGED <<ringVars, writerVars, rsum, checksum, entry>>

\* The entry in slot s, also while the writer is replacing it.
EntryOf(s) == published - Behind(s, head)

\* The entry a request is for.  A request that counts back past slot 0 lands
\* where the word leaves it when the ring does not divide the word (see
\* LatestIsNewest); what is said of it then is about the slot it landed in.
Wanted(index) == IF index <= head \/ Word % NumFrames = 0
                 THEN published - Age(index)
                 ELSE EntryOf(GetHead(head, index))

\* read(entry, index): read_latest is index 1, read_oldest index -1.
StartRead(index) == StartAt(GetHead(head, index), Wanted(index))

\* read_absolute of a slot of the ring; any other index is refused.
StartReadAbsolute(s) == StartAt(s, EntryOf(s))

\* crc32 over the whole slot, whatever the length of the entry in it.
SumChunk(c) ==
  /\ rpc = "load" /\ c \in sumtodo
  /\ rsum' = [rsum EXCEPT ![c] = frames[rslot].data[c]]
  /\ sumtodo' = sumtodo \ {c}
  /\ UNCHANGED <<ringVars, writerVars, rpc, rslot, rtodo, checksum, entry, target>>

Loaded(x) == /\ rpc = "load" /\ x \in rtodo
             /\ rtodo' = rtodo \ {x}
             /\ UNCHANGED <<ringVars, writerVars, rpc, rslot, sumtodo, rsum, target>>

LoadChecksum ==
  /\ Loaded("checksum")
  /\ checksum' = frames[rslot].checksum
  /\ UNCHANGED entry

\* entry.data.assign loads each chunk of the slot a second time.
CopyChunk(c) ==
  /\ c \notin sumtodo
  /\ Loaded(c)
  /\ entry' = [entry EXCEPT !.data[c] = frames[rslot].data[c]]
  /\ UNCHANGED checksum

TakeSequence ==
  /\ Loaded("sequence")
  /\ entry' = [entry EXCEPT !.sequence = frames[rslot].sequence]
  /\ UNCHANGED checksum

TakeTimestamp ==
  /\ Loaded("timestamp_ns")
  /\ entry' = [entry EXCEPT !.timestamp_ns = frames[rslot].timestamp_ns]
  /\ UNCHANGED checksum

\* Mutant: the checksum is computed and not compared.
DeliverUnchecked ==
  /\ rpc = "load" /\ sumtodo = {} /\ rtodo = {}
  /\ rpc' = "delivered"
  /\ UNCHANGED <<ringVars, writerVars, rslot, sumtodo, rtodo, rsum, checksum, entry, target>>

\* computed_checksum = frame->checksum, and the entry is complete.
Deliver ==
  /\ rpc = "load" /\ sumtodo = {} /\ rtodo = {}
  /\ rsum = checksum
  /\ rpc' = "delivered"
  /\ UNCHANGED <<ringVars, writerVars, rslot, sumtodo, rtodo, rsum, checksum, entry, target>>

\* computed_checksum # frame->checksum: the entry stays empty, and what was
\* loaded for it ahead of the comparison is dropped.
Reject ==
  /\ rpc = "load" /\ sumtodo = {} /\ "checksum" \notin rtodo
  /\ rsum # checksum
  /\ rpc' = "rejected"
  /\ rtodo' = {} /\ entry' = NoEntry
  /\ UNCHANGED <<ringVars, writerVars, rslot, sumtodo, rsum, checksum, target>>

\* The caller takes the entry and passes a fresh one to its next read.
Return ==
  /\ rpc \in {"delivered", "rejected"}
  /\ rpc' = "idle" /\ rslot' = 0 /\ sumtodo' = {} /\ rtodo' = {}
  /\ rsum' = PayloadOf(Nothing, Chunks) /\ checksum' = PayloadOf(Nothing, {})
  /\ entry' = NoEntry /\ target' = Nothing
  /\ UNCHANGED <<ringVars, writerVars>>

Read == \/ \E index \in Requests : StartRead(index)
        \/ \E s \in Slots : StartReadAbsolute(s)
        \/ \E c \in Chunks : SumChunk(c) \/ CopyChunk(c)
        \/ LoadChecksum \/ TakeSequence \/ TakeTimestamp
        \/ Deliver \/ Reject \/ Return

Next == Write \/ Read

Spec == Init /\ [][Next]_vars

-----------------------------------------------------------------------------
(***************************************************************************)
(* Properties.                                                             *)
(***************************************************************************)

Checksums == UNION {[c -> Words] : c \in SUBSET Chunks}

Frames == [timestamp_ns : Words, checksum : Checksums, sequence : Words, data : Payloads]

\* The writer and the reader keep to the words and slots of the ring.
TypeOK == /\ head \in Slots
          /\ sequence \in Words
          /\ frames \in [Slots -> Frames]
          /\ published \in 0 .. MaxPublished
          /\ wpc \in {"wait", "fill", "announce"}
          /\ wpc = "fill" => published < MaxPublished
          /\ wsize \in SUBSET Chunks
          /\ wtodo \in SUBSET (Labels \cup Chunks)
          /\ rpc \in {"idle", "load", "delivered", "rejected"}
          /\ rslot \in Slots
          /\ sumtodo \in SUBSET Chunks
          /\ rtodo \in SUBSET (Chunks \cup Labels)
          /\ rsum \in Payloads /\ checksum \in Checksums
          /\ entry \in [timestamp_ns : Words, sequence : Words, data : Payloads]
          /\ target \in Int

\* The slot the reader was sent to holds the entry it is for until the writer
\* comes round to it, NumFrames publications after that entry.
InWindow == published - target < NumFrames

\* A read during which the writer does not come round to the slot returns the
\* entry it was for, all of it and nothing else (payload, sequence and
\* timestamp of one publication), and comes back empty only when there is no
\* such entry or it is shorter than the slot, which the reader sums whole.
ExactInWindow ==
  InWindow =>
    /\ rpc = "delivered" =>
         entry = [timestamp_ns |-> target, sequence |-> target,
                  data |-> PayloadOf(target, Chunks)]
    /\ rpc = "rejected" =>
         target < 0 \/ DOMAIN frames[rslot].checksum # Chunks

\* However far the writer laps a read, and in whatever order the machine makes
\* its loads, the reader delivers only after it saw one whole entry in the
\* slot, no older than the one the read was for; no chunk it copied is older
\* than that entry, and the sequence number and the timestamp, which may have
\* been loaded before it, are no older than the entry the read was for.
TornShape ==
  rpc = "delivered" =>
    \E e \in Ordinals :
      /\ rsum = PayloadOf(e, Chunks)
      /\ e >= target
      /\ \A c \in Chunks : entry.data[c] >= e
      /\ entry.timestamp_ns >= target
      /\ entry.sequence >= target

\* Buffer.sequence names the entry before the head, except between the two
\* stores that publish an entry, when it still names the one before that.
SequenceFollowsHead ==
  sequence = IF wpc = "announce" THEN published - 2 ELSE published - 1

\* What the reader hands out is what it verified: ringbuffer.hpp calls the
\* checksum the integrity check of the data, and a unit test names the
\* promise "ReaderSkipsFramesWithChecksumMismatch".
DeliversWhatItVerified == rpc = "delivered" => entry.data = rsum

\* "index_from_head=1 means getting the most recently completed frame": the
\* slot a request for it is sent to is the one filled last.
LatestIsNewest == published > 0 => Behind(GetHead(head, 1), head) = 1

-----------------------------------------------------------------------------
(***************************************************************************)
(* The inductive invariant behind ExactInWindow and TornShape.             *)
(***************************************************************************)

\* Slot s is the one the writer is filling.
Busy(s) == s = head /\ wpc = "fill"

\* Frame f holds entry e and nothing newer; there is no entry before the first.
Holds(f, e) ==
  IF e < 0 THEN f = ZeroFrame
  ELSE /\ f.timestamp_ns = e /\ f.sequence = e
       /\ f.checksum = PayloadOf(e, DOMAIN f.checksum)
       /\ DOMAIN f.checksum # {}
       /\ \A c \in DOMAIN f.checksum : f.data[c] = e

\* Nothing in f that entry e wrote is older than e.
NoOlder(f, e) == /\ f.timestamp_ns >= e /\ f.sequence >= e
                 /\ \E c \in Chunks : f.data[c] >= e

AtMost(f, e) == /\ \A c \in Chunks : f.data[c] <= e
                /\ f.timestamp_ns <= e
                /\ f.sequence <= e

\* A slot nobody is writing holds the entry its distance from the head says.
SettledSlots ==
  \A s \in Slots : ~Busy(s) => Holds(frames[s], EntryOf(s))

\* No slot holds a word of an entry that was not begun, the slot being written
\* nothing older than the entry it replaces, and every checksum over a whole slot
\* is that of one entry.
SlotOrder ==
  \A s \in Slots :
    /\ AtMost(frames[s], published)
    /\ NoOlder(frames[s], EntryOf(s))
    /\ DOMAIN frames[s].checksum = Chunks =>
         \E e \in Ordinals : frames[s].checksum = PayloadOf(e, Chunks)

\* What the writer has already stored in the slot at the head.
Filling ==
  wpc = "fill" =>
    /\ wsize # {}
    /\ "timestamp_ns" \notin wtodo => frames[head].timestamp_ns = published
    /\ \A c \in wsize \ wtodo : frames[head].data[c] = published
    /\ "checksum" \notin wtodo => frames[head].checksum = PayloadOf(published, wsize)
    /\ "sequence" \notin wtodo => frames[head].sequence = published

RingInv == SettledSlots /\ SlotOrder /\ Filling

\* A read ends when all its loads are made and, if it delivers, agree.
Reading == /\ rpc \in {"delivered", "rejected"} => sumtodo = {} /\ rtodo = {}
           /\ rpc = "delivered" => rsum = checksum

\* In the window the slot stays as far behind the head as the entry the read
\* is for, so the writer is not in it and every load sees that entry.
WindowRead ==
  rpc # "idle" /\ InWindow =>
    /\ Behind(rslot, head) = published - target
    /\ \A c \in Chunks \ sumtodo : rsum[c] = frames[rslot].data[c]
    /\ "checksum" \notin rtodo => checksum = frames[rslot].checksum
    /\ rpc # "rejected" =>
         /\ \A c \in Chunks \ rtodo : entry.data[c] = frames[rslot].data[c]
         /\ "sequence" \notin rtodo => entry.sequence = frames[rslot].sequence
         /\ "timestamp_ns" \notin rtodo => entry.timestamp_ns = frames[rslot].timestamp_ns
    /\ rpc = "rejected" => target < 0 \/ DOMAIN frames[rslot].checksum # Chunks

\* In the window or not, words in the slot only grow from the entry the read is
\* for, so a chunk copied is no older than the same chunk when it was summed.
LappedRead ==
  rpc \in {"load", "delivered"} =>
    /\ NoOlder(frames[rslot], target)
    /\ \E c \in Chunks : /\ frames[rslot].data[c] >= target
                         /\ c \notin sumtodo => rsum[c] >= target
    /\ \A c \in Chunks \ sumtodo : rsum[c] <= frames[rslot].data[c]
    /\ \A c \in Chunks \ rtodo : c \notin sumtodo /\ rsum[c] <= entry.data[c]
    /\ "sequence" \notin rtodo => entry.sequence >= target
    /\ "timestamp_ns" \notin rtodo => entry.timestamp_ns >= target
    /\ "checksum" \notin rtodo /\ DOMAIN checksum = Chunks =>
         \E e \in Ordinals : checksum = PayloadOf(e, Chunks)

Inv == TypeOK /\ RingInv /\ Reading /\ WindowRead /\ LappedRead
=============================================================================
