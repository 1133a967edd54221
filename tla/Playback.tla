------------------------------- MODULE Playback -------------------------------
(***************************************************************************)
(* The scripts that read a recording back: visualize_dataset.py renders    *)
(* events.bin into a video, visualize_events.py decodes the raw recording  *)
(* into a heat map, analyze_latency.py looks at timestamps.csv.            *)
(*                                                                         *)
(* A recording is made as in Timeline, then one of the readers goes over   *)
(* it chunk by chunk.  Both renderers drop events outside the sensor and   *)
(* events without a recent neighbour, and remember when each pixel last    *)
(* fired from one chunk to the next.  The sensor is a line of pixels.      *)
(***************************************************************************)
EXTENDS Timeline

CONSTANTS Readers,       \* "visualize_dataset", "visualize_events"
          DeltaT,        \* the duration of a frame of the video, ns
          DenoiseUs,     \* --denoise-us, with which the filter is on
          Radius,        \* --denoise-radius
          MinNeighbors   \* --denoise-min-neighbors

ASSUME PlaybackAssumption ==
  /\ Readers \subseteq {"visualize_dataset", "visualize_events"}
  /\ {DeltaT, DenoiseUs} \subseteq Nat \ {0} /\ {Radius, MinNeighbors} \subseteq Nat

VARIABLES mode,        \* "recording", "reading", "finalizing", "done"
          reader,      \* who reads
          at,          \* the chunks read
          lastActive,  \* when each pixel last fired
          played,      \* the events gone through, with what became of them
          invalid,     \* total_invalid_coords
          counts,      \* the events of each chunk that were kept
          video        \* the files of the video

readingVars == <<mode, reader, at, lastActive, played, invalid, counts, video>>
vars == <<recordingVars, readingVars>>

\* The sentinel of last_active: before any threshold.
Never == -1000000

Init == /\ TimelineInit
        /\ mode = "recording" /\ reader \in Readers /\ at = 0
        /\ lastActive = [x \in 0..Width - 1 |-> Never]
        /\ played = << >> /\ invalid = 0 /\ counts = << >>
        /\ video = [intermediate |-> "none", final |-> "none"]

-----------------------------------------------------------------------------
(***************************************************************************)
(* denoise_keep_mask.                                                      *)
(***************************************************************************)

Near(x) == {y \in 0..Width - 1 : x - Radius <= y /\ y <= x + Radius}

IsActive(active, x, since) == Cardinality({y \in Near(x) : active[y] >= since}) >= MinNeighbors

\* Mutant: only an event that is kept counts for those after it.
DenoiseEventIfKept(state, e) ==
  LET keep == IsActive(state.active, e.x, e.time - DenoiseUs)
  IN [active |-> IF keep THEN [state.active EXCEPT ![e.x] = e.time] ELSE state.active,
      out |-> Append(state.out, [x |-> e.x, time |-> e.time, keep |-> keep])]

\* One event: looked up among those before it, then remembered, kept or not.
DenoiseEvent(state, e) ==
  LET keep == IsActive(state.active, e.x, e.time - DenoiseUs)
  IN [active |-> [state.active EXCEPT ![e.x] = e.time],
      out |-> Append(state.out, [x |-> e.x, time |-> e.time, keep |-> keep])]

Denoise(events, active) ==
  LET after[n \in 0..Len(events)] ==
        IF n = 0 THEN [active |-> active, out |-> << >>]
        ELSE DenoiseEvent(after[n - 1], events[n])
  IN after[Len(events)]

Kept(out) == SelectSeq(out, LAMBDA e : e.keep)

\* A chunk of valid events, their times in the unit the reader has them in.
Play(events) ==
  \E result \in {Denoise(events, lastActive)} :
    /\ lastActive' = result.active /\ played' = played \o result.out
    /\ counts' = Append(counts, Len(Kept(result.out))) /\ at' = at + 1

-----------------------------------------------------------------------------
(***************************************************************************)
(* render_event_video of visualize_dataset.py.                             *)
(***************************************************************************)

\* A stable sort: the element of rank k has k - 1 before it.
SortedBy(seq, key(_)) ==
  LET Before(j, i) == key(seq[j]) < key(seq[i]) \/ (key(seq[j]) = key(seq[i]) /\ j < i)
      Rank == [i \in DOMAIN seq |-> 1 + Cardinality({j \in DOMAIN seq : Before(j, i)})]
  IN [k \in DOMAIN seq |-> seq[CHOOSE i \in DOMAIN seq : Rank[i] = k]]

\* argsort(kind="stable") by timestamp_ns.
Chronological(records) == SortedBy(records, LAMBDA r : r.ns)

\* searchsorted(side="left"): the number of values below v.
SearchLeft(seq, v) == Cardinality({i \in DOMAIN seq : seq[i] < v})

\* Mutant: the frame the last events are in is not rendered.
VideoChunksShort(records) ==
  Later((Last(records).ns - records[1].ns) \div DeltaT, 1)

VideoChunks(records) ==
  Later((Last(records).ns - records[1].ns) \div DeltaT + 1, 1)

\* The records of frame k, from 0.
VideoChunk(records, k) ==
  LET ts == [i \in DOMAIN records |-> records[i].ns]
      start == SearchLeft(ts, ts[1] + k * DeltaT)
      end == SearchLeft(ts, ts[1] + (k + 1) * DeltaT)
  IN SubSeq(records, start + 1, end)

RenderChunk ==
  /\ mode = "reading" /\ reader = "visualize_dataset"
  /\ LET records == Chronological(file)
         chunk == VideoChunk(records, at)
     IN /\ at < VideoChunks(records)
        /\ Play([i \in DOMAIN chunk |-> [x |-> chunk[i].x, time |-> chunk[i].ns]])
  /\ video' = [video EXCEPT !.intermediate = "mp4v"]
  /\ UNCHANGED <<recordingVars, mode, reader, invalid>>

RenderEnds ==
  /\ mode = "reading" /\ reader = "visualize_dataset"
  /\ at >= VideoChunks(Chronological(file)) /\ mode' = "finalizing"
  /\ UNCHANGED <<recordingVars, reader, at, lastActive, played, invalid, counts, video>>

\* _finalize_video: without ffmpeg, or when it fails, whatever it left behind, the
\* file of OpenCV is renamed; else it is removed.
Finalize ==
  /\ mode = "finalizing" /\ mode' = "done"
  /\ \E ffmpeg \in {"unwanted", "absent", "fails", "fails_halfway", "succeeds"} :
       video' = [intermediate |-> "none",
                 final |-> IF ffmpeg = "succeeds" THEN "h264" ELSE video.intermediate]
  /\ UNCHANGED <<recordingVars, reader, at, lastActive, played, invalid, counts>>

-----------------------------------------------------------------------------
(***************************************************************************)
(* main of visualize_events.py: it reads the raw recording, in which every *)
(* event has the time of the device.                                       *)
(***************************************************************************)

ReadChunk ==
  /\ mode = "reading" /\ reader = "visualize_events" /\ at < Len(chunks)
  /\ LET chunk == chunks[at + 1]
         valid == Valid(chunk)
     IN /\ invalid' = invalid + Len(chunk) - Len(valid)
        /\ Play([i \in DOMAIN valid |-> [x |-> valid[i].x, time |-> valid[i].t]])
  /\ UNCHANGED <<recordingVars, mode, reader, video>>

\* The file ends, or the decoder gives up: what was read before is kept.
ReadEnds ==
  /\ mode = "reading" /\ reader = "visualize_events" /\ mode' = "done"
  /\ UNCHANGED <<recordingVars, reader, at, lastActive, played, invalid, counts, video>>

-----------------------------------------------------------------------------
\* The recording is over and the reader is run; without an event it has nothing to do.
StartReading ==
  /\ mode = "recording"
  /\ mode' = IF kind = "event" /\ (reader = "visualize_dataset" => file # << >>)
               THEN "reading" ELSE "done"
  /\ UNCHANGED <<recordingVars, reader, at, lastActive, played, invalid, counts, video>>

Record == mode = "recording" /\ RecordStep /\ UNCHANGED readingVars

Next == Record \/ StartReading \/ RenderChunk \/ RenderEnds \/ Finalize \/ ReadChunk \/ ReadEnds
Spec == Init /\ [][Next]_vars

-----------------------------------------------------------------------------
(***************************************************************************)
(* analyze_latency.py, over the rows of one camera; as reference and other *)
(* series of a pair it is given the exposures and the arrivals.            *)
(***************************************************************************)

Exposures == [i \in DOMAIN rows |-> rows[i].exposure]
Arrivals  == [i \in DOMAIN rows |-> rows[i].arrival]

Distance(a, b) == IF a > b THEN a - b ELSE b - a

\* Mutant: only the reference after the value is looked at.
NearestOfRight(reference, value) ==
  LET sorted == SortedBy(reference, LAMBDA ns : ns)
      pos == SearchLeft(sorted, value)
  IN IF pos < Len(sorted) THEN sorted[pos + 1] ELSE sorted[pos]

\* nearest_match_offsets_ms: the neighbours of the place of the value.
NearestOf(reference, value) ==
  LET sorted == SortedBy(reference, LAMBDA ns : ns)
      pos == SearchLeft(sorted, value)
      candidates == {sorted[i] : i \in {pos, pos + 1} \cap DOMAIN sorted}
  IN CHOOSE c \in candidates : \A d \in candidates : Distance(c, value) <= Distance(d, value)

\* latency_drift_slope_ms_per_min, by its sign: that of the covariance of the
\* elapsed time and the latency, 0 where there is nothing to fit.
DriftTrend ==
  LET n == Len(rows)
      xs == [i \in DOMAIN rows |-> rows[i].exposure - rows[1].exposure]
      ys == [i \in DOMAIN rows |-> rows[i].arrival - rows[i].exposure]
  IN IF n < 2 \/ xs[n] <= 0 THEN 0
     ELSE n * Total(Products(xs, ys)) - Total(xs) * Total(ys)

\* _compute_achieved_fps: frames but one over the time from the first row to the last.
FallbackFps == <<30, 1000000000>>
AchievedFps ==
  LET first == rows[1].exposure
      last == Last(rows).exposure
  IN IF Len(rows) < 2 \/ last <= first THEN FallbackFps
     ELSE <<Later(Len(rows) - 1, 1), last - first>>

\* implied_fps of the histogram of intervals: one over their mean.
ImpliedFps ==
  LET n == Len(rows)
      intervals == [i \in 1..n - 1 |-> rows[i + 1].exposure - rows[i].exposure]
  IN <<n - 1, Total(intervals)>>

-----------------------------------------------------------------------------
(***************************************************************************)
(* Properties.                                                             *)
(***************************************************************************)

\* The offset analyze_latency.py reports is that of the nearest reference of all, it
\* and visualize_dataset.py agree on the frame rate, and a recording without drift in
\* its latencies shows no trend and its true frame rate.
AnalysisAgrees ==
  (mode = "done" /\ rows # << >>) =>
    /\ \A i \in DOMAIN rows : \A j \in DOMAIN rows :
         Distance(NearestOf(Exposures, Arrivals[i]), Arrivals[i])
           <= Distance(Exposures[j], Arrivals[i])
    /\ AchievedFps # FallbackFps => AchievedFps = ImpliedFps
    /\ (~frozen /\ \A i \in DOMAIN rows : rows[i].latency = rows[1].latency) =>
         /\ DriftTrend = 0
         /\ Len(rows) > 1 /\ dropped = 0 /\ Last(rows).block <= BlockModulus =>
              AchievedFps[2] = NsPerTick * AchievedFps[1]

\* Enough pixels around an event fired within so many ns before it, in whatever chunk.
UnitNs == IF reader = "visualize_dataset" THEN 1 ELSE NsPerUs
HasSupport(i, ns) ==
  LET recent == {j \in 1..i - 1 : (played[i].time - played[j].time) * UnitNs <= ns}
  IN Cardinality({played[j].x : j \in recent} \cap Near(played[i].x)) >= MinNeighbors

\* An event is kept exactly if it has support within the window (event_denoise.py:
\* "memory across the whole recording rather than resetting every delta-t chunk"): as
\* many microseconds as the option says in visualize_events.py, as many nanoseconds in
\* visualize_dataset.py, whose times are in that unit.
KeepsSupported == \A i \in DOMAIN played : played[i].keep <=> HasSupport(i, DenoiseUs * UnitNs)

\* What the option says of both: not kept by visualize_dataset.py (denoise_units.cfg).
KeepsMicroseconds == \A i \in DOMAIN played : played[i].keep <=> HasSupport(i, DenoiseUs * NsPerUs)

\* A reader goes through every valid event it decoded once and in order, counts the
\* others, and leaves one whole video and no intermediate file, whatever ffmpeg does.
EveryEventShown ==
  mode = "done" =>
    /\ video.intermediate = "none"
    /\ reader = "visualize_dataset" /\ file # << >> =>
         /\ video.final \in {"mp4v", "h264"}
         /\ LET records == Chronological(file)
            IN [i \in DOMAIN played |-> <<played[i].x, played[i].time>>]
                 = [i \in DOMAIN records |-> <<records[i].x, records[i].ns>>]
    /\ reader = "visualize_events" =>
         LET decoded == FlattenSeq(SubSeq(chunks, 1, at))
         IN /\ [i \in DOMAIN played |-> played[i].x]
                 = [i \in DOMAIN Valid(decoded) |-> Valid(decoded)[i].x]
            /\ Len(played) + invalid = Len(decoded)
=============================================================================
