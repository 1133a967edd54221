----------------------------- MODULE StreamLogger -----------------------------
(***************************************************************************)
(* SharedDictLogger: one worker thread that copies the frames of one ring  *)
(* into the log, beside the writer of that ring.                           *)
(*                                                                         *)
(* The worker never waits for the writer and the writer never waits for    *)
(* it: the worker keeps the sequence number it expects and the slot it     *)
(* expects it in, asks the ring for its latest frame, and either drains    *)
(* slot by slot up to that frame or, when it is more than a ring behind,   *)
(* resyncs to it.                                                          *)
(*                                                                         *)
(* A frame is its sequence number and its kind: good, unwritable (refused  *)
(* while it is turned into a message), throwing (an exception while it     *)
(* is), or unreadable (shorter than the slot, so its checksum never        *)
(* matches and it reads as an empty entry).  FrameRing shows what a read   *)
(* that meets the writer in its slot returns: nothing, one of the two      *)
(* frames, or the label of one with the payload of the other.              *)
(***************************************************************************)
EXTENDS RingIndex, Sequences, FiniteSetsExt

CONSTANTS Steps,        \* how far a source's sequence moves from frame to frame
          Kinds,        \* the kinds of frames the source publishes
          MaxSequence   \* bound on the sequence numbers

\* Frame counters start at 1 and stay below the wrap of a word; a camera that
\* keeps every k-th frame steps by k, one that keeps all of them by 1.
ASSUME LoggerAssumption ==
  /\ Steps # {} /\ Steps \subseteq Nat \ {0}
  /\ Kinds \subseteq {"good", "unwritable", "throwing", "unreadable"}
  /\ MaxSequence \in 0 .. Word - 2

VARIABLES head,              \* Buffer.head
          frames,            \* Buffer.frames
          filling,           \* the writer is storing a frame at the head
          incoming,          \* that frame
          newest,            \* the frame published last
          produced,          \* every sequence number published (history)
          stop,              \* _stop
          pc,                \* where the worker is in run and _process_stream
          initialized,       \* SensorStream.initialized
          current_head,      \* SensorStream.current_head
          current_sequence,  \* SensorStream.current_sequence
          slot,              \* the slot read_latest was sent to
          latest,            \* latest_entry.sequence
          logged             \* the sequence numbers in the log, in order

writerVars == <<head, frames, filling, incoming, newest, produced>>
streamVars == <<initialized, current_head, current_sequence>>
vars == <<writerVars, stop, pc, streamVars, slot, latest, logged>>

Frame(sequence, kind) == [sequence |-> sequence, kind |-> kind]

\* Zeroed memory has sequence 0 and a checksum that matches nothing.
ZeroFrame == Frame(0, "unreadable")

Init == /\ head = 0 /\ frames = [s \in Slots |-> ZeroFrame]
        /\ filling = FALSE /\ incoming = ZeroFrame
        /\ newest = ZeroFrame /\ produced = {}
        /\ stop = FALSE /\ pc = "poll"
        /\ initialized = FALSE /\ current_head = 0 /\ current_sequence = 0
        /\ slot = 0 /\ latest = 0 /\ logged = <<>>

-----------------------------------------------------------------------------
(***************************************************************************)
(* The writer of the ring, in two steps: while it stores a frame in the    *)
(* slot at the head, and the publication.                                  *)
(***************************************************************************)

BeginPublish(step, kind) ==
  /\ ~filling
  /\ newest.sequence + step <= MaxSequence
  /\ filling' = TRUE
  /\ incoming' = Frame(newest.sequence + step, kind)
  /\ UNCHANGED <<head, frames, newest, produced,
                 stop, pc, streamVars, slot, latest, logged>>

EndPublish ==
  /\ filling
  /\ frames' = [frames EXCEPT ![head] = incoming]
  /\ head' = GetHead(head, -1)
  /\ newest' = incoming
  /\ produced' = produced \cup {incoming.sequence}
  /\ filling' = FALSE
  /\ UNCHANGED <<incoming, stop, pc, streamVars, slot, latest, logged>>

\* What a read of slot s may return.
Torn(f, g) == {f, g, Frame(f.sequence, g.kind), Frame(g.sequence, f.kind), ZeroFrame}

Reads(s) == IF filling /\ s = head THEN Torn(frames[s], incoming) ELSE {frames[s]}

-----------------------------------------------------------------------------
(***************************************************************************)
(* The worker thread.                                                      *)
(***************************************************************************)

\* request_stop, or the exception of another stream's worker.
RequestStop ==
  /\ ~stop
  /\ stop' = TRUE
  /\ UNCHANGED <<writerVars, pc, streamVars, slot, latest, logged>>

\* Mutant: the worker goes on whatever the flag says.
PollForever ==
  /\ pc = "poll"
  /\ pc' = IF initialized THEN "latest" ELSE "initial"
  /\ UNCHANGED <<writerVars, stop, streamVars, slot, latest, logged>>

\* _stop is looked at between two calls of _process_stream and nowhere else.
Poll ==
  /\ pc = "poll"
  /\ pc' = IF stop THEN "done" ELSE IF initialized THEN "latest" ELSE "initial"
  /\ UNCHANGED <<writerVars, stop, streamVars, slot, latest, logged>>

\* read_latest finds the slot before the head first and loads the frame later.
Aim ==
  /\ pc \in {"initial", "latest"}
  /\ slot' = GetHead(head, 1)
  /\ pc' = IF pc = "initial" THEN "take initial" ELSE "take latest"
  /\ UNCHANGED <<writerVars, stop, streamVars, latest, logged>>

\* An empty entry ends the call; run() sleeps a millisecond and polls again.
GiveUp == /\ pc' = "poll"
          /\ UNCHANGED <<writerVars, stop, streamVars, slot, latest, logged>>

TakeInitial ==
  /\ pc = "take initial"
  /\ \E f \in Reads(slot) :
       \/ f.kind = "unreadable" /\ GiveUp
       \/ /\ f.kind # "unreadable"
          /\ initialized' = TRUE
          /\ current_head' = slot
          /\ current_sequence' = f.sequence
          /\ pc' = "latest"
          /\ UNCHANGED <<writerVars, stop, slot, latest, logged>>

\* _write_entry of frame f in slot s, and the step past it on success.
WriteEntry(f, s, next) ==
  /\ UNCHANGED <<writerVars, initialized, slot>>
  /\ \/ /\ f.kind = "good"
        /\ logged' = Append(logged, f.sequence)
        /\ current_head' = (s + 1) % NumFrames
        /\ current_sequence' = f.sequence + 1
        /\ pc' = next
        /\ UNCHANGED stop
     \/ /\ f.kind = "unwritable"
        /\ current_head' = s
        /\ current_sequence' = f.sequence
        /\ pc' = "poll"
        /\ UNCHANGED <<logged, stop>>
     \/ /\ f.kind = "throwing"
        /\ current_head' = s
        /\ current_sequence' = f.sequence
        /\ stop' = TRUE
        /\ pc' = "done"
        /\ UNCHANGED logged

\* Mutant: the frame expected is not counted.
AvailableBeyond(last) ==
  IF last < current_sequence THEN 0 ELSE last - current_sequence

\* analyze_stream_progress
AvailableFrames(last) ==
  IF last < current_sequence THEN 0 ELSE last - current_sequence + 1

\* Mutant: a logger that is exactly a ring behind resyncs as well.
ResyncsEagerly(last) == AvailableFrames(last) >= NumFrames

NeedsResync(last) == AvailableFrames(last) > NumFrames

TakeLatest ==
  /\ pc = "take latest"
  /\ \E f \in Reads(slot) :
       \/ f.kind = "unreadable" /\ GiveUp
       \/ f.kind # "unreadable" /\ AvailableFrames(f.sequence) = 0 /\ GiveUp
       \/ /\ f.kind # "unreadable"
          /\ NeedsResync(f.sequence)
          /\ WriteEntry(f, slot, "latest")
          /\ UNCHANGED latest
       \/ /\ f.kind # "unreadable"
          /\ AvailableFrames(f.sequence) > 0 /\ ~NeedsResync(f.sequence)
          /\ latest' = f.sequence
          /\ pc' = "drain"
          /\ UNCHANGED <<writerVars, stop, streamVars, slot, logged>>

\* Mutant: whatever is in the expected slot is logged.
DrainBlindly ==
  /\ pc = "drain"
  /\ \E f \in Reads(current_head) :
       \/ f.kind = "unreadable" /\ GiveUp
       \/ /\ f.kind # "unreadable"
          /\ WriteEntry(f, current_head, IF f.sequence + 1 > latest THEN "latest" ELSE "drain")
          /\ UNCHANGED latest

\* A later frame than expected is taken in its place; an earlier one waits.
Drain ==
  /\ pc = "drain"
  /\ \E f \in Reads(current_head) :
       \/ f.kind = "unreadable" /\ GiveUp
       \/ f.kind # "unreadable" /\ f.sequence < current_sequence /\ GiveUp
       \/ /\ f.kind # "unreadable"
          /\ f.sequence >= current_sequence
          /\ WriteEntry(f, current_head, IF f.sequence + 1 > latest THEN "latest" ELSE "drain")
          /\ UNCHANGED latest

Publish == (\E step \in Steps, kind \in Kinds : BeginPublish(step, kind)) \/ EndPublish
Work    == Poll \/ Aim \/ TakeInitial \/ TakeLatest \/ Drain

Next == Publish \/ RequestStop \/ Work

\* The worker thread is scheduled and a publication that began is completed;
\* the source may pause for ever and nobody has to stop the logger.
Fairness == WF_vars(Work) /\ WF_vars(EndPublish)

Spec == Init /\ [][Next]_vars /\ Fairness

-----------------------------------------------------------------------------
(***************************************************************************)
(* Properties.                                                             *)
(***************************************************************************)

Sequences == 0 .. MaxSequence
FrameType == [sequence : Sequences, kind : Kinds \cup {"unreadable"}]

\* The worker's slots are slots of the ring and its sequence numbers those of
\* frames, or the one after the last.
TypeOK == /\ head \in Slots /\ frames \in [Slots -> FrameType]
          /\ filling \in BOOLEAN /\ incoming \in FrameType
          /\ newest \in FrameType /\ produced \subseteq Sequences
          /\ stop \in BOOLEAN
          /\ pc \in {"poll", "initial", "take initial", "latest", "take latest",
                     "drain", "done"}
          /\ initialized \in BOOLEAN
          /\ current_head \in Slots /\ current_sequence \in 0 .. MaxSequence + 1
          /\ slot \in Slots /\ latest \in Sequences
          /\ logged \in Seq(Sequences)

\* No frame is logged twice and none after a later one, through resyncs,
\* frames that could not be written and reads the writer overtook.
LoggedIncreasing ==
  \A i \in 1 .. Len(logged) - 1 : logged[i] < logged[i + 1]

\* Nothing is logged before the stream is initialized, and what is logged is
\* older than the frame the worker expects: the invariant behind
\* LoggedIncreasing.
LogBehind ==
  /\ pc \in {"initial", "take initial"} => ~initialized
  /\ pc \in {"latest", "take latest", "drain"} => initialized
  /\ ~initialized => logged = <<>>
  /\ \A i \in 1 .. Len(logged) : logged[i] < current_sequence

LastLogged == logged[Len(logged)]

\* A frame the writer is not storing at this moment is still in its slot.
StillHeld(q) == \E s \in Slots : /\ ~(filling /\ s = head)
                                 /\ frames[s].sequence = q

\* A frame was logged as number 0: it was read between the stores of checksum
\* and sequence during the very first filling of its slot.
Mislabelled == \E i \in 1 .. Len(logged) : logged[i] = 0

\* The log has a gap only where the frame due next was lost: the writer had taken
\* its slot.  What is logged then is at least a whole ring further on: the newest
\* frame read, or the one found in the slot.  The frames between the two that the
\* ring still holds, up to NumFrames - 1 of them, are given up with it.
GapsAreLaps ==
  [][logged' # logged /\ logged # <<>> /\ ~Mislabelled =>
       LET passed == {q \in produced : LastLogged < q /\ q < LastLogged'}
       IN passed # {} => /\ ~StillHeld(Min(passed))
                         /\ LastLogged' >= Min(passed) + NumFrames]_vars

\* read_latest is sent to another slot than the newest frame's.
Misdirected == head = 0 /\ Word % NumFrames # 0

\* The log ends with the newest frame, unless there is none or the logger was
\* stopped; a logger that cannot see that frame is past the one it is shown.
UpToDate == newest.sequence > 0 /\ ~stop /\ ~Mislabelled =>
              IF Misdirected
              THEN current_sequence > frames[GetHead(head, 1)].sequence
              ELSE logged # <<>> /\ LastLogged >= newest.sequence

\* Once the source pauses, with frames in the ring that can all be written, the
\* log ends with the newest one: through torn reads, resyncs and laps, and also
\* after frames that could not be written but have been overwritten since.  Only
\* a source that pauses with the head at 0 leaves the newest frames of a ring
\* such as the service's unlogged until it goes on.
CatchesUp ==
  <>[]((\A s \in Slots : frames[s].sequence > 0 => frames[s].kind = "good") => UpToDate)

\* As much as the tests and get_head say: a frame that cannot be written is
\* skipped, and index 1 is the frame completed last, so the log ends with the
\* newest frame as soon as that one can be written.
LogsTheNewest ==
  <>[](newest.kind = "good" /\ newest.sequence > 0 /\ ~stop /\ ~Mislabelled =>
         logged # <<>> /\ LastLogged >= newest.sequence)

\* A logger that is asked to stop ends once the source pauses: the flag is not
\* looked at while there are frames left to drain.
StopEnds == stop ~> pc = "done"
=============================================================================
