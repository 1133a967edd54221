------------------------------- MODULE Sensor -------------------------------
(***************************************************************************)
(* One stream on its way from the shared memory to the pages that show it: *)
(* _SensorState and its statistics in the web collector, the requests of   *)
(* the HTTP server that read it, and the script of the page.               *)
(*                                                                         *)
(* The collector's thread and the requests for the state exclude each      *)
(* other.  A request for a frame does not: it looks at the sensor, encodes *)
(* outside every lock, and comes back to leave what it made in the cache.  *)
(* A page asks for the state every 100 ms and for a frame every 33 ms,     *)
(* never for two frames at once; the answers to its requests for the state *)
(* may overtake each other.                                                *)
(*                                                                         *)
(* A frame stands for its JPEG as well: the encoding of a frame is that    *)
(* frame.  It has a place in the order of publication (id), the number its *)
(* device gave it (sequence), and a round, which is a new one whenever the *)
(* numbers start over: with the main application, or by wrapping.          *)
(***************************************************************************)
EXTENDS Integers, FiniteSets

CONSTANTS None,        \* no frame, no number
          Kinds,       \* what the stream may be
          Clients,     \* who sends requests for frames ...
          Pages,       \* ... and those of them that are pages
          Word,        \* sequences are counted modulo Word
          Gaps,        \* by how much they may go up from frame to frame
          NumFrames,   \* slots of the ring
          AtZero,      \* the slot get_head(1) names when the head is 0
          MaxId,       \* bound: frames published
          MaxRestarts, \* bound: restarts of the main application
          MaxAnswers   \* bound: answers under way to a page

ASSUME KindAssumption   == Kinds \subseteq {"camera", "imu"}
ASSUME ClientAssumption == Pages \subseteq Clients
ASSUME NumberAssumption == /\ Word \in Nat \ {0} /\ Gaps \subseteq Nat \ {0}
                           /\ MaxId \in Nat /\ MaxRestarts \in Nat /\ MaxAnswers \in Nat
ASSUME RingAssumption   == NumFrames \in Nat \ {0} /\ AtZero \in 0..NumFrames - 1
ASSUME NoneAssumption   == None \notin Nat

VARIABLES kind,      \* _kind
          newest,    \* the newest frame in the shared memory
          head,      \* the head of the ring it is in
          aside,     \* the frame in the slot AtZero
          made,      \* the last frame ever published: its id, round, number, time
          restarts,  \* restarts so far
          sensor,    \* _last_sequence, _last_timestamp_ns, _last_ready
          payload,   \* _last_payload: frame or sample, sample_count, cached encoding
          stats,     \* the count of the RunningStats
          first,     \* the first number seen since the last reset (history)
          wentBack,  \* by how much the numbers have gone back since then (history)
          request,   \* the request of each client for a frame
          answers,   \* the answers about the state that are under way to each page
          summary,   \* deviceSummaries
          counted,   \* the numbers each page has in its count (history)
          astray,    \* the pages there when the numbers went back, or told of no
                     \* number after they had one (history)
          card,      \* cameraCards
          image      \* the frame each page shows

sourceVars  == <<newest, head, aside, made, restarts>>
countVars   == <<stats, first, wentBack>>
sensorVars  == <<sensor, payload, countVars>>
pageVars    == <<answers, summary, counted>>
summaryVars == <<pageVars, astray>>
cardVars    == <<card, image>>
vars == <<kind, sourceVars, sensorVars, request, summaryVars, cardVars>>

Numbers == 0..(Word - 1)

NoSensor  == [sequence |-> None, time |-> None, ready |-> FALSE]
NoPayload == [item |-> None, samples |-> None, encoded |-> None, encodedFor |-> None]
Idle      == [at |-> "idle", sequence |-> None, frame |-> None, asked |-> None]

\* A page has no request when it begins; any other client has one at any time.
Rest(c)   == IF c \in Pages THEN Idle ELSE [Idle EXCEPT !.at = "asked"]

NoSummary == [sequence |-> None, last |-> None, count |-> 0]
NewCard   == [ready |-> FALSE, latest |-> None, rendered |-> None]

Init ==
  /\ kind \in Kinds
  /\ newest = None /\ head = 0 /\ aside = None
  /\ made = [id |-> 0, round |-> 1, sequence |-> 0, time |-> 0] /\ restarts = 0
  /\ sensor = NoSensor /\ payload = NoPayload /\ stats = 0 /\ first = None /\ wentBack = 0
  /\ request = [c \in Clients |-> Rest(c)]
  /\ answers = [p \in Pages |-> {}] /\ summary = [p \in Pages |-> NoSummary]
  /\ counted = [p \in Pages |-> {}] /\ astray = {}
  /\ card = [p \in Pages |-> NewCard] /\ image = [p \in Pages |-> None]

-----------------------------------------------------------------------------
(***************************************************************************)
(* The device and the main application.                                    *)
(***************************************************************************)

\* The times of a camera go up; two samples of an IMU may have the same.
Ticks == IF kind = "imu" THEN {0, 1} ELSE {1}

Publish ==
  /\ made.id < MaxId
  /\ \E gap \in Gaps, tick \in Ticks :
       LET next == (made.sequence + gap) % Word IN
       made' = [id |-> made.id + 1, sequence |-> next, time |-> made.time + tick,
                round |-> IF next <= made.sequence THEN made.round + 1 ELSE made.round]
  /\ newest' = made' /\ head' = (head + 1) % NumFrames
  /\ aside' = IF head = AtZero THEN made' ELSE aside
  /\ UNCHANGED <<kind, restarts, sensorVars, request, summaryVars, cardVars>>

\* The main application is stopped and started: _reset_runtime_state, and a new
\* segment in which nothing is published yet.
Restart ==
  /\ restarts < MaxRestarts /\ restarts' = restarts + 1
  /\ newest' = None /\ head' = 0 /\ aside' = None
  /\ made' = [made EXCEPT !.round = @ + 1, !.sequence = 0]
  /\ sensor' = NoSensor /\ payload' = NoPayload
  /\ stats' = 0 /\ first' = None /\ wentBack' = 0 /\ astray' = Pages
  /\ UNCHANGED <<kind, request, pageVars, cardVars>>

-----------------------------------------------------------------------------
(***************************************************************************)
(* update() and the statistics, in the collector's thread.                 *)
(***************************************************************************)

\* read(): the frame published last, or the one in the wrong slot when the head is 0,
\* where get_head(1) is right only if the ring divides the word.  The reader is attached
\* at some time between the start and the first update.
Latest == IF head = 0 THEN aside ELSE newest
Reads  == Latest # None /\ Latest.sequence # sensor.sequence
Seen   == [sequence |-> Latest.sequence, time |-> Latest.time, ready |-> TRUE]

GoesBack == sensor.sequence # None /\ (Latest.sequence < sensor.sequence \/ Latest.time <= sensor.time)

\* sample_count: what _sequence_rate_hz makes of two frames.
Passed == IF sensor.sequence = None THEN None ELSE Latest.sequence - sensor.sequence

\* add(): a rate that is not known adds nothing.
Added(count, weight) == IF weight = None THEN count ELSE count + weight

CountsOn == /\ stats' = Added(stats, Passed) /\ UNCHANGED wentBack
            /\ first' = IF first = None THEN Latest.sequence ELSE first

\* Mutant: the payload is updated in place, with what it has in the cache.
UpdateInPlace ==
  /\ Reads /\ ~GoesBack /\ sensor' = Seen /\ CountsOn
  /\ payload' = [payload EXCEPT !.item = Latest, !.samples = Passed]
  /\ UNCHANGED <<kind, sourceVars, request, summaryVars, cardVars>>

Update ==
  /\ Reads /\ ~GoesBack /\ sensor' = Seen /\ CountsOn
  /\ payload' = [NoPayload EXCEPT !.item = Latest, !.samples = Passed]
  /\ UNCHANGED <<kind, sourceVars, request, summaryVars, cardVars>>

\* The numbers start over, or the time stands still: the payload stays what it was.
UpdateGoesBack ==
  /\ Reads /\ GoesBack /\ sensor' = Seen
  /\ wentBack' = wentBack + sensor.sequence - Latest.sequence /\ astray' = Pages
  /\ UNCHANGED <<kind, sourceVars, payload, stats, first, request, pageVars, cardVars>>

-----------------------------------------------------------------------------
(***************************************************************************)
(* camera_frame_bytes(), in a thread of the server.                        *)
(***************************************************************************)

Serve(c, answer) ==
  request' = [request EXCEPT ![c] = IF c \in Pages
                                    THEN [@ EXCEPT !.at = "answered", !.frame = answer,
                                                   !.sequence = None]
                                    ELSE Rest(c)]

ServerOnly == UNCHANGED <<kind, sourceVars, sensor, countVars, summaryVars, cardVars>>

HasFrame == kind = "camera" /\ sensor.ready /\ payload.item # None

\* Nothing to show: 204.
HasNone(c) ==
  /\ request[c].at = "asked" /\ ~HasFrame
  /\ Serve(c, None) /\ UNCHANGED payload /\ ServerOnly

IsCached == payload.encoded # None /\ payload.encodedFor = sensor.sequence

ServeCached(c) ==
  /\ request[c].at = "asked" /\ HasFrame /\ IsCached
  /\ Serve(c, payload.encoded) /\ UNCHANGED payload /\ ServerOnly

TakeFrame(c) ==
  /\ request[c].at = "asked" /\ HasFrame /\ ~IsCached
  /\ request' = [request EXCEPT ![c].at = "encoding", ![c].sequence = sensor.sequence,
                                ![c].frame = payload.item]
  /\ UNCHANGED payload /\ ServerOnly

\* Mutant: the same number is taken for the same frame.
EncodeByNumber(c) ==
  /\ request[c].at = "encoding"
  /\ payload' = IF sensor.sequence = request[c].sequence
                THEN [payload EXCEPT !.encoded = request[c].frame,
                                     !.encodedFor = request[c].sequence]
                ELSE payload
  /\ Serve(c, request[c].frame) /\ ServerOnly

\* The encoding is kept if the sensor has gone no further meanwhile.
Encode(c) ==
  /\ request[c].at = "encoding"
  /\ payload' = IF sensor.sequence = request[c].sequence /\ payload.item = request[c].frame
                THEN [payload EXCEPT !.encoded = request[c].frame,
                                     !.encodedFor = request[c].sequence]
                ELSE payload
  /\ Serve(c, request[c].frame) /\ ServerOnly

-----------------------------------------------------------------------------
(***************************************************************************)
(* The page.                                                               *)
(***************************************************************************)

PageOnly == UNCHANGED <<kind, sourceVars, sensorVars>>

Snapshot == [ready |-> sensor.ready, sequence |-> sensor.sequence, samples |-> payload.samples]

\* refreshState: the timer does not wait for the answer to the last request.
Poll(p) ==
  /\ Cardinality(answers[p]) < MaxAnswers
  /\ answers' = [answers EXCEPT ![p] = @ \cup {Snapshot}]
  /\ PageOnly /\ UNCHANGED <<summary, counted, astray, request, cardVars>>

StartsOver(old, s) == old.sequence # None /\ s.sequence # None /\ s.sequence < old.sequence

\* Mutant: a number seen before is added again.
SummaryAfterEvery(old, s) ==
  LET reset == StartsOver(old, s)
      count == IF reset THEN 0 ELSE old.count
  IN [sequence |-> s.sequence, last |-> s.sequence,
      count |-> IF s.sequence # None THEN Added(count, s.samples) ELSE count]

\* updateSummaryState, for one stream.
SummaryAfter(old, s) ==
  LET reset == StartsOver(old, s)
      count == IF reset THEN 0 ELSE old.count
      last  == IF reset THEN None ELSE old.last
      new   == s.sequence # None /\ s.sequence # last
  IN [sequence |-> s.sequence,
      last     |-> IF new THEN s.sequence ELSE last,
      count    |-> IF new THEN Added(count, s.samples) ELSE count]

\* The numbers in the count: those from one frame to the next, without the first.
CountedWith(s) ==
  IF s.sequence = None \/ s.samples = None THEN {}
  ELSE ((s.sequence - s.samples + 1)..s.sequence) \cap Numbers

CountedAfter(old, numbers, s) ==
  (IF StartsOver(old, s) THEN {} ELSE numbers) \cup CountedWith(s)

Apply(p) ==
  /\ \E s \in answers[p] :
       /\ answers' = [answers EXCEPT ![p] = @ \ {s}]
       /\ summary' = [summary EXCEPT ![p] = SummaryAfter(@, s)]
       /\ card' = [card EXCEPT ![p].ready = s.ready, ![p].latest = s.sequence]
       /\ counted' = [counted EXCEPT ![p] = CountedAfter(summary[p], @, s)]
       /\ astray' = IF s.sequence = None /\ summary[p].last # None THEN astray \cup {p} ELSE astray
  /\ PageOnly /\ UNCHANGED <<request, image>>

\* The request, or its answer, is lost.
PollFails(p) ==
  /\ \E s \in answers[p] : answers' = [answers EXCEPT ![p] = @ \ {s}]
  /\ PageOnly /\ UNCHANGED <<summary, counted, astray, request, cardVars>>

\* refreshCameraFrames: a card is skipped while a request of it is in flight.
AskFrame(p) ==
  /\ kind = "camera" /\ request[p] = Idle
  /\ card[p].ready /\ card[p].latest # None /\ card[p].latest # card[p].rendered
  /\ request' = [request EXCEPT ![p].at = "asked", ![p].asked = card[p].latest]
  /\ PageOnly /\ UNCHANGED <<summaryVars, cardVars>>

ShowFrame(p) ==
  /\ request[p].at = "answered" /\ request[p].frame # None
  /\ image' = [image EXCEPT ![p] = request[p].frame]
  /\ card' = IF card[p].latest = request[p].asked
             THEN [card EXCEPT ![p].rendered = request[p].asked] ELSE card
  /\ request' = [request EXCEPT ![p] = Idle]
  /\ PageOnly /\ UNCHANGED summaryVars

\* Mutant: without a frame, inFlight is not cleared.
FrameFailsForGood(p) ==
  /\ request[p].at = "answered" /\ request[p].frame # None
  /\ request' = [request EXCEPT ![p] = Idle]
  /\ PageOnly /\ UNCHANGED <<summaryVars, cardVars>>

\* No content, or the answer is lost: inFlight is cleared all the same.
FrameFails(p) ==
  /\ request[p].at = "answered"
  /\ request' = [request EXCEPT ![p] = Idle]
  /\ PageOnly /\ UNCHANGED <<summaryVars, cardVars>>

Sampling   == Update \/ UpdateGoesBack
Serving(c) == HasNone(c) \/ ServeCached(c) \/ TakeFrame(c) \/ Encode(c)

Next == \/ Publish \/ Restart \/ Sampling
        \/ \E c \in Clients : Serving(c)
        \/ \E p \in Pages : \/ Poll(p) \/ Apply(p) \/ PollFails(p)
                            \/ AskFrame(p) \/ ShowFrame(p) \/ FrameFails(p)

\* The threads of the collector and of the server run, the timers of a page fire, and
\* not every answer to it is lost.
Fairness ==
  /\ WF_vars(Sampling)
  /\ \A c \in Clients : WF_vars(Serving(c))
  /\ \A p \in Pages : /\ WF_vars(Poll(p)) /\ WF_vars(AskFrame(p)) /\ WF_vars(FrameFails(p))
                      /\ SF_vars(Apply(p)) /\ SF_vars(ShowFrame(p))

Spec == Init /\ [][Next]_vars /\ Fairness

-----------------------------------------------------------------------------
NumberOrNone == Numbers \cup {None}
CountOrNone  == Nat \cup {None}
Frames       == [id : Nat, round : Nat, sequence : Numbers, time : Nat]
FrameOrNone  == Frames \cup {None}
Sensors      == [sequence : NumberOrNone, time : CountOrNone, ready : BOOLEAN]
Payloads     == [item : FrameOrNone, samples : CountOrNone, encoded : FrameOrNone,
                 encodedFor : NumberOrNone]
RequestSet   == [at : {"idle", "asked", "encoding", "answered"}, sequence : NumberOrNone,
                 frame : FrameOrNone, asked : NumberOrNone]
Snapshots    == [ready : BOOLEAN, sequence : NumberOrNone, samples : CountOrNone]
Summaries    == [sequence : NumberOrNone, last : NumberOrNone, count : Nat]
Cards        == [ready : BOOLEAN, latest : NumberOrNone, rendered : NumberOrNone]

TypeOK ==
  /\ kind \in Kinds
  /\ newest \in FrameOrNone /\ head \in 0..NumFrames - 1 /\ aside \in FrameOrNone
  /\ made \in Frames /\ restarts \in Nat
  /\ sensor \in Sensors /\ payload \in Payloads
  /\ stats \in Nat /\ first \in NumberOrNone /\ wentBack \in Int
  /\ request \in [Clients -> RequestSet]
  /\ answers \in [Pages -> SUBSET Snapshots] /\ summary \in [Pages -> Summaries]
  /\ counted \in [Pages -> SUBSET Numbers] /\ astray \subseteq Pages
  /\ card \in [Pages -> Cards] /\ image \in [Pages -> FrameOrNone]

\* The JPEG in the cache is that of the frame beside it, though it was made outside
\* the lock, and the number it was made for may have come back after a restart.
CachedIsCurrent == payload.encoded # None => payload.encoded = payload.item

\* A page never goes back to a frame older than the one it shows, whoever else
\* fetches frames, and however the answers about the state overtake each other.
ImagesGoForward ==
  [][\A p \in Pages : image[p] # None => image'[p] # None /\ image[p].id <= image'[p].id]_vars

\* The collector has counted every number since the first it saw, those it did not see
\* the frames of included, and exactly those again over which the numbers went back: a
\* late read at the end of a lap of the ring is made good.  As long as they have not
\* gone back, a page has each number that it counts once in its count and counts none
\* that the collector did not, however the answers to it overtake each other; unless one
\* from before the first frame comes so late that it makes the page forget the number
\* it compares with.
CountsOnce ==
  /\ sensor.sequence # None => stats = sensor.sequence - first + wentBack
  /\ \A p \in Pages \ astray :
       /\ summary[p].count = Cardinality(counted[p])
       /\ \A n \in counted[p] : first < n /\ n <= sensor.sequence

\* Each number once, whatever is read: not kept at the end of a lap of a ring that does
\* not divide the word (sensor_lap.cfg).
NeverCountsAgain ==
  kind = "camera" /\ made.round = 1 /\ sensor.sequence # None => stats <= sensor.sequence - first

\* Once no frame comes any more, a page comes to show the last one the collector has;
\* or, where the numbers have started over or gone back, one it takes for it by its
\* number.
PageCatchesUp ==
  kind = "camera" =>
    \A p \in Pages :
      <>[](payload.item # None =>
             /\ image[p] # None
             /\ \/ image[p] = payload.item
                \/ (newest.round > 1 \/ wentBack # 0) /\ card[p].rendered = sensor.sequence)

=============================================================================
