------------------------------- MODULE Timeline -------------------------------
(***************************************************************************)
(* What a recording of dataset_collection puts on disk, in time: the rows  *)
(* of a Basler camera, or the events of an event camera, each with a tick  *)
(* of its device and the host time ClockAnchor made of it.                 *)
(*                                                                         *)
(* Session has the threads and the files; here is one thread and the       *)
(* values.  A device sends a block, or a chunk of events, at a true time   *)
(* that nobody knows; the host observes it some latency later, never out   *)
(* of order.                                                               *)
(***************************************************************************)
EXTENDS ClockAnchor, FiniteSets, SequencesExt

CONSTANTS Kinds,         \* what is recorded: "rgb", "event"
          Warmup,        \* warmup_samples
          Nominal,       \* the nominal rate of the camera, ns per tick
          NsPerUs,       \* that of the event camera, whose ticks are microseconds
          NsPerTick,     \* the true one
          Latencies,     \* from the true time to the observation, ns
          Gaps,          \* the distance of a block to the one before
          BlockModulus,  \* the block IDs of the camera are 1 .. BlockModulus
          MaxBlocks,     \* bound: blocks a camera sends
          Width,         \* pixels of the event sensor
          MaxChunks,     \* bound: chunks of events
          MaxTick        \* bound: time of an event, ticks

ASSUME TimelineAssumption ==
  /\ Kinds \subseteq {"rgb", "event"} /\ Warmup \in Nat
  /\ {Nominal, NsPerUs} \subseteq Nat \ {0} /\ NsPerTick \in Nat \ {0}
  /\ Latencies \subseteq Nat /\ Gaps \subseteq Nat \ {0}
  /\ {BlockModulus, MaxBlocks, Width, MaxChunks, MaxTick} \subseteq Nat \ {0}

VARIABLES kind,     \* what is recorded
          frozen,   \* the tick counter of the camera stands still
          anchor,   \* its ClockAnchor
          now,      \* the host time of the last observation
          sent,     \* the blocks the camera has sent
          lastId,   \* last_block_id, 0 for None
          dropped,  \* _dropped_count
          rows,     \* timestamps.csv of a camera
          chunks,   \* the chunks the decoder of the event camera delivered
          file      \* events.bin

recordingVars == <<kind, frozen, anchor, now, sent, lastId, dropped, rows, chunks, file>>

TimelineInit ==
  /\ kind \in Kinds /\ frozen \in (IF kind = "rgb" THEN BOOLEAN ELSE {FALSE})
  /\ anchor = NewAnchor(IF kind = "rgb" THEN Nominal ELSE NsPerUs, Warmup) /\ now = 0
  /\ sent = 0 /\ lastId = 0 /\ dropped = 0 /\ rows = << >>
  /\ chunks = << >> /\ file = << >>

Later(a, b) == IF a > b THEN a ELSE b

\* An observation is late by the latency, and not before the one before it.
Observed(true, latency) == Later(now, true + latency)

-----------------------------------------------------------------------------
(***************************************************************************)
(* A Basler camera.                                                        *)
(***************************************************************************)

BlockId(block) == ((block - 1) % BlockModulus) + 1
TickOf(block)  == IF frozen THEN 0 ELSE block

\* Mutant: the blocks from one frame to the next, both included.
DropsWithTheFrame(id) == IF lastId # 0 /\ id > lastId + 1 THEN id - lastId ELSE 0

\* The blocks passed over since the last frame; a counter that wrapped shows none.
Drops(id) == IF lastId # 0 /\ id > lastId + 1 THEN id - lastId - 1 ELSE 0

\* _grab_loop with a frame.
Grab ==
  /\ kind = "rgb"
  /\ \E gap \in Gaps, latency \in Latencies :
       LET block == sent + gap
           ticks == TickOf(block)
           arrival == Observed(block * NsPerTick, latency)
       IN /\ block <= MaxBlocks
          /\ sent' = block /\ now' = arrival
          /\ lastId' = BlockId(block) /\ dropped' = dropped + Drops(BlockId(block))
          /\ anchor' = Observe(anchor, ticks, arrival)
          /\ rows' = Append(rows, [block |-> block, ticks |-> ticks, arrival |-> arrival,
                                   latency |-> arrival - block * NsPerTick,
                                   exposure |-> HostNs(anchor, ticks, arrival)])
  /\ UNCHANGED <<kind, frozen, chunks, file>>

\* A grab that did not succeed: its block ID is not looked at.
GrabFails ==
  /\ kind = "rgb" /\ sent < MaxBlocks /\ sent' = sent + 1
  /\ UNCHANGED <<kind, frozen, anchor, now, lastId, dropped, rows, chunks, file>>

-----------------------------------------------------------------------------
(***************************************************************************)
(* An event camera: a chunk is a sequence of events in the order of their  *)
(* time; x = Width stands for a coordinate outside the sensor.             *)
(***************************************************************************)

Filled   == {i \in 1..Len(chunks) : chunks[i] # << >>}
LastTick == IF Filled = {} THEN 0 ELSE Last(chunks[Max(Filled)]).t

Event(x, t) == [x |-> x, t |-> t]
Chunks ==
  LET Instants == LastTick..MaxTick
  IN {<< >>} \cup {<<Event(x, t)>> : x \in 0..Width, t \in Instants}
             \cup {<<Event(x, t), Event(y, u)>> : x \in 0..Width, y \in 0..Width, t \in Instants, u \in Instants}

InOrder(chunk) == \A i \in 1..Len(chunk) - 1 : chunk[i].t <= chunk[i + 1].t

\* The mask of the coordinates: the events on the sensor, in their order.
Valid(events) ==
  LET valid[n \in 0..Len(events)] ==
        IF n = 0 THEN << >>
        ELSE IF events[n].x \in 0..Width - 1 THEN Append(valid[n - 1], events[n])
        ELSE valid[n - 1]
  IN valid[Len(events)]

\* _stream_loop: the last event of the chunk is anchored, the others follow from it
\* at the current rate.
StreamChunk ==
  /\ kind = "event" /\ Len(chunks) < MaxChunks
  /\ \E chunk \in Chunks, latency \in Latencies :
       /\ InOrder(chunk) /\ chunks' = Append(chunks, chunk)
       /\ LET valid == Valid(chunk)
              reference == Last(valid).t
              observed == Observed(reference * NsPerTick, latency)
              after == Observe(anchor, reference, observed)
              host == HostNs(anchor, reference, observed)
              HostTime(e) == host + ((e.t - reference) * after.rate[1]) \div after.rate[2]
          IN IF valid = << >>
               THEN UNCHANGED <<anchor, now, file>>
               ELSE /\ anchor' = after /\ now' = observed
                    /\ file' = file \o [i \in 1..Len(valid) |->
                                          [x |-> valid[i].x, ns |-> HostTime(valid[i]),
                                           tick |-> valid[i].t]]
  /\ UNCHANGED <<kind, frozen, sent, lastId, dropped, rows>>

RecordStep == Grab \/ GrabFails \/ StreamChunk

-----------------------------------------------------------------------------
(***************************************************************************)
(* Properties.                                                             *)
(***************************************************************************)

\* The rate is the least-squares slope through the anchor of every sample of the
\* recording, those of the warm-up included, though no sample is kept (clock.py: the
\* warm-up data is folded into the ongoing fit "instead of discarding it").
FitsEverySample ==
  (kind = "rgb" /\ ~frozen /\ Len(rows) > anchor.warmup) =>
    LET samples == [i \in DOMAIN rows |-> Sample(rows[i].ticks, rows[i].arrival)]
        xs == TicksFrom(samples, rows[1].ticks)
        ys == HostsFrom(samples, anchor.host0)
    IN anchor.rate[1] * Total(Products(xs, xs)) = anchor.rate[2] * Total(Products(xs, ys))

\* Where every latency was the same, the anchor reads the true rate of the device
\* off the samples, whatever the nominal one, and every frame has its own arrival
\* for its exposure: nothing jumps when the warm-up ends.
ExactWithoutJitter ==
  (kind = "rgb" /\ ~frozen /\ \A i \in 1..Len(rows) : rows[i].latency = rows[1].latency) =>
    /\ \A i \in 1..Len(rows) : rows[i].exposure = rows[i].arrival
    /\ anchor.anchored => /\ anchor.rate[1] = NsPerTick * anchor.rate[2]
                          /\ DriftSign(anchor) > 0 <=> NsPerTick > Nominal

\* No drop is counted that did not happen; and, unless the block IDs wrapped, frames
\* and drops are together the blocks from the first frame to the last.
DropsAreGaps ==
  rows # << >> =>
    LET blocks == Last(rows).block - rows[1].block + 1
    IN /\ Len(rows) + dropped <= blocks
       /\ Last(rows).block <= BlockModulus => Len(rows) + dropped = blocks
=============================================================================
