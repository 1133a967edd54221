------------------------------- MODULE Session -------------------------------
(***************************************************************************)
(* One run of a recording script of dataset_collection: record.py,         *)
(* record_rgb_event.py, record_multi_rgb.py, record_imu.py,                *)
(* record_event.py or record_basler.py.                                    *)
(*                                                                         *)
(* The main thread claims an output directory, starts its devices one      *)
(* after the other, waits for Ctrl+C or the end of the duration, stops the *)
(* devices, closes their files and writes a manifest of what was recorded. *)
(* Each device has a daemon thread of its own that fetches items and hands *)
(* them to a callback, which writes a row of a file that the main thread   *)
(* closes.  A stop is a flag, then a join with a timeout: a thread that is *)
(* late for the join goes on beside the main thread, and one whose         *)
(* callback raises ends without a word.                                    *)
(***************************************************************************)
EXTENDS Integers, Sequences, SequencesExt

CONSTANTS Scripts,   \* the scripts that may be run
          Configs,   \* what camera_info.yaml may describe
          MayFail,   \* the devices whose start may fail
          MaxItems,  \* bound: items fetched from a device
          MaxDirs,   \* bound: output directories
          NumFrames  \* --num-frames of record_basler.py

ASSUME BoundsAssumption == /\ Scripts \subseteq {"record", "record_rgb_event", "record_multi_rgb", "record_imu",
                                           "record_event", "record_basler"}
                           /\ Configs \subseteq SUBSET {"RGB1", "RGB2", "Event1", "imu"}
                           /\ MaxItems \in Nat \ {0} /\ MaxDirs \in Nat \ {0}
                           /\ NumFrames \in Nat \ {0}

VARIABLES script,      \* the script being run
          configured,  \* the parts camera_info.yaml describes
          pc,          \* what the main thread is doing
          todo,        \* what it still has to start, stop and close there
          raised,      \* a start failed
          asked,       \* stop_event is set
          dirs,        \* who made each output directory: nobody, us, another run
          dir,         \* the directory tried, later the one used
          phase,       \* where the thread of each device is
          stop,        \* the devices whose stop flag is set
          timedOut,    \* the devices whose join ran into its timeout
          closed,      \* the Basler cameras that were closed
          open,        \* the groups whose files are open
          count,       \* the items each recorder has counted
          rows,        \* the rows in the file of each device
          manifest     \* the counts reported at the end

mainVars   == <<pc, todo, raised>>
configVars == <<script, configured>>
dirVars    == <<dirs, dir>>
threadVars == <<phase, count, rows>>
stopVars   == <<stop, timedOut, closed, open>>
vars == <<configVars, mainVars, asked, dirVars, threadVars, stopVars, manifest>>

Devices == {"RGB1", "RGB2", "Event1", "accel", "gyro", "raw", "monitor"}
Basler  == {"RGB1", "RGB2"}
Imu     == {"accel", "gyro"}

\* The threads that hand what they fetch to a callback that writes a row.
Recorded == Basler \cup Imu \cup {"Event1"}

-----------------------------------------------------------------------------
(***************************************************************************)
(* The scripts: what they start, in which order, whether a failure to      *)
(* start is caught, and in which order they stop.                          *)
(***************************************************************************)

\* active_names: a camera has a serial number, or is left out.
Chosen(name) == IF name \in configured THEN <<name>> ELSE << >>

Groups == {"rig", "event_rig", "imu", "camera", "raw", "monitor"}

Members(group) ==
  CASE group = "rig"       -> Chosen("RGB1") \o Chosen("RGB2")
    [] group = "event_rig" -> Chosen("Event1")
    [] group = "imu"       -> IF "imu" \in configured THEN <<"accel", "gyro">> ELSE << >>
    [] group = "camera"    -> <<"RGB1">>
    [] group = "raw"       -> <<"raw">>
    [] group = "monitor"   -> <<"monitor">>

GroupOf(d) ==
  CASE d \in Basler  -> IF script = "record_basler" THEN "camera" ELSE "rig"
    [] d = "Event1"  -> "event_rig"
    [] d \in Imu     -> "imu"
    [] d = "raw"     -> "raw"
    [] d = "monitor" -> "monitor"

Job(does, what)    == [does |-> does, what |-> what]
For(does, devices) == [i \in 1..Len(devices) |-> Job(does, devices[i])]

StartGroup(group) == For("start", Members(group))

\* Mutant: a rig closes its files before it stops its devices.
StopGroupFilesFirst(group) == <<Job("close", group)>> \o For("stop", Members(group))

\* stop() of the rigs: every device, and only then the files.
StopGroup(group) == For("stop", Members(group)) \o <<Job("close", group)>>

Record ==
  [groups |-> {"rig", "event_rig", "imu"}, needs |-> {"rig", "event_rig"}, guarded |-> TRUE,
   starts |-> StartGroup("rig") \o StartGroup("event_rig") \o StartGroup("imu"),
   stops  |-> StopGroup("rig") \o StopGroup("event_rig") \o StopGroup("imu")]
RecordRgbEvent ==
  [groups |-> {"rig", "event_rig"}, needs |-> {"rig", "event_rig"}, guarded |-> TRUE,
   starts |-> StartGroup("rig") \o StartGroup("event_rig"),
   stops  |-> StopGroup("rig") \o StopGroup("event_rig")]
RecordMultiRgb ==
  [groups |-> {"monitor", "rig"}, needs |-> {"rig"}, guarded |-> FALSE,
   starts |-> StartGroup("monitor") \o StartGroup("rig"),
   stops  |-> StopGroup("rig") \o StopGroup("monitor")]

\* A script with one device, or the two of the IMU, and no handler.
Single(group) == [groups |-> {group}, needs |-> {group}, guarded |-> FALSE,
                  starts |-> StartGroup(group), stops |-> StopGroup(group)]
RecordImu    == Single("imu")
RecordEvent  == Single("raw")
RecordBasler == Single("camera")

Plan == CASE script = "record"           -> Record
          [] script = "record_rgb_event" -> RecordRgbEvent
          [] script = "record_multi_rgb" -> RecordMultiRgb
          [] script = "record_imu"       -> RecordImu
          [] script = "record_event"     -> RecordEvent
          [] script = "record_basler"    -> RecordBasler

Before(seq, x) == SubSeq(seq, 1, CHOOSE i \in 0..Len(seq) - 1 : seq[i + 1] = x)

\* start() of a rig that fails at d stops those it has started, and no others.
RigUnwinds(d) ==
  IF GroupOf(d) \in {"rig", "event_rig"} THEN For("stop", Before(Members(GroupOf(d)), d)) ELSE << >>

\* Mutant: main has no handler.
MainLeaves(d) == << >>

\* The handler in main: the rigs whose start() returned, the last one first.
MainUnwinds(d) ==
  IF Plan.guarded
    THEN (IF GroupOf(d) = "imu" THEN StopGroup("event_rig") ELSE << >>)
         \o (IF GroupOf(d) # "rig" THEN StopGroup("rig") ELSE << >>)
    ELSE << >>

-----------------------------------------------------------------------------
(***************************************************************************)
(* The start of a device, as a function of what its driver answers.        *)
(***************************************************************************)

BayerFormats == {"BayerRG8", "BayerGB8"}

BaslerOpens(a) == a.connects /\ a.formats \cap BayerFormats # {}
BaslerAnswers  == [connects : BOOLEAN, formats : SUBSET (BayerFormats \cup {"Mono8"})]

\* A live stream takes a serial number and no bias file.
StreamOpens(a) == ~a.bias /\ a.connects
\* The raw recording takes the first camera, and fails on a bias file after it is open.
RawOpens(a)    == a.connects /\ ~a.bias
EventAnswers   == [connects : BOOLEAN, bias : BOOLEAN]

\* sampling_frequency of each channel: not there, no permission, rejected, or
\* set.  One that is rejected is fatal; so is none that exists.
ImuOpens(a) == /\ a.found
               /\ a.rate => /\ "refused" \notin a.channels
                            /\ {"set", "denied"} \cap a.channels # {}
ImuAnswers  == [found : BOOLEAN, rate : BOOLEAN,
                channels : (SUBSET {"absent", "denied", "refused", "set"}) \ {{}}]

\* Whether start() of d may return (ok) or raise (not ok).
CanStart(d, ok) ==
  /\ ~ok => d \in MayFail
  /\ CASE d \in Basler     -> \E a \in BaslerAnswers : BaslerOpens(a) = ok
       [] d \in Imu        -> \E a \in ImuAnswers : ImuOpens(a) = ok
       [] d = "Event1"     -> \E a \in EventAnswers : StreamOpens(a) = ok
       [] d = "raw"        -> \E a \in EventAnswers : RawOpens(a) = ok
       [] d = "monitor"    -> ok

-----------------------------------------------------------------------------
(***************************************************************************)
(* The main thread.                                                        *)
(***************************************************************************)

Init ==
  /\ script \in Scripts /\ configured \in Configs
  /\ pc = "naming" /\ todo = << >> /\ raised = FALSE /\ asked = FALSE
  /\ dirs = [n \in 1..MaxDirs |-> "free"] /\ dir = 1
  /\ phase = [d \in Devices |-> "idle"]
  /\ stop = {} /\ timedOut = {} /\ closed = {} /\ open = {}
  /\ count = [d \in Recorded |-> 0] /\ rows = [d \in Recorded |-> 0]
  /\ manifest = << >>

\* make_output_dir tries the names in turn ...
NameExists ==
  /\ pc = "naming" /\ dirs[dir] # "free" /\ dir < MaxDirs /\ dir' = dir + 1
  /\ UNCHANGED <<configVars, mainVars, asked, dirs, threadVars, stopVars, manifest>>

NameIsFree ==
  /\ pc = "naming" /\ dirs[dir] = "free" /\ pc' = "making"
  /\ UNCHANGED <<configVars, todo, raised, asked, dirVars, threadVars, stopVars, manifest>>

\* Mutant: a directory that exists by now is as good.
MakeDirectoryOrTake ==
  /\ pc = "making"
  /\ LET ready == \A group \in Plan.needs : Members(group) # << >>
     IN /\ dirs' = [dirs EXCEPT ![dir] = IF @ = "free" THEN "ours" ELSE @]
        /\ raised' = FALSE
        /\ pc' = IF ready THEN "starting" ELSE "done"
        /\ todo' = IF ready THEN Plan.starts ELSE << >>
        /\ open' = IF ready THEN Plan.groups ELSE {}
  /\ UNCHANGED <<configVars, asked, dir, threadVars, stop, timedOut, closed, manifest>>

\* ... and makes the one that was free a moment ago: it raises if it no longer is.
\* The rigs and writers are then made, their files open, unless a part the
\* script cannot do without is not configured.
MakeDirectory ==
  /\ pc = "making"
  /\ LET made  == dirs[dir] = "free"
         ready == made /\ \A group \in Plan.needs : Members(group) # << >>
     IN /\ dirs' = IF made THEN [dirs EXCEPT ![dir] = "ours"] ELSE dirs
        /\ raised' = ~made
        /\ pc' = IF ready THEN "starting" ELSE "done"
        /\ todo' = IF ready THEN Plan.starts ELSE << >>
        /\ open' = IF ready THEN Plan.groups ELSE {}
  /\ UNCHANGED <<configVars, asked, dir, threadVars, stop, timedOut, closed, manifest>>

Now(does) == todo # << >> /\ Head(todo).does = does

Start ==
  /\ pc = "starting" /\ Now("start")
  /\ LET d == Head(todo).what IN
     /\ CanStart(d, TRUE)
     /\ phase' = [phase EXCEPT ![d] = "loop"]
  /\ todo' = Tail(todo)
  /\ UNCHANGED <<configVars, pc, raised, asked, dirVars, count, rows, stopVars, manifest>>

\* The rig stops what it started, main what it saw start, and raises again.
StartFails ==
  /\ pc = "starting" /\ Now("start")
  /\ LET d == Head(todo).what IN
     /\ CanStart(d, FALSE)
     /\ todo' = RigUnwinds(d) \o MainUnwinds(d)
  /\ pc' = "stopping" /\ raised' = TRUE
  /\ UNCHANGED <<configVars, asked, dirVars, threadVars, stopVars, manifest>>

StartsWaiting ==
  /\ pc = "starting" /\ todo = << >> /\ pc' = "waiting"
  /\ UNCHANGED <<configVars, todo, raised, asked, dirVars, threadVars, stopVars, manifest>>

\* stop_event.wait returns.
StartsStopping ==
  /\ pc = "waiting" /\ asked
  /\ pc' = "stopping" /\ todo' = Plan.stops
  /\ UNCHANGED <<configVars, raised, asked, dirVars, threadVars, stopVars, manifest>>

\* stop() of a recorder sets the flag ...
Flag ==
  /\ pc = "stopping" /\ Now("stop") /\ Head(todo).what \notin stop
  /\ stop' = stop \cup {Head(todo).what}
  /\ UNCHANGED <<configVars, mainVars, asked, dirVars, threadVars, timedOut, closed, open, manifest>>

HasEnded(d) == phase[d] \in {"idle", "ended", "died", "late"}

\* Mutant: the join has no timeout.
JoinForever ==
  /\ pc = "stopping" /\ Now("stop") /\ Head(todo).what \in stop /\ HasEnded(Head(todo).what)
  /\ closed' = closed \cup ({Head(todo).what} \cap Basler)
  /\ todo' = Tail(todo)
  /\ UNCHANGED <<configVars, pc, raised, asked, dirVars, threadVars, stop, timedOut, open,
                 manifest>>

\* ... and joins the thread, or gives up on it; a Basler camera is closed.
Join ==
  /\ pc = "stopping" /\ Now("stop") /\ Head(todo).what \in stop
  /\ LET d == Head(todo).what IN
     /\ timedOut' = IF HasEnded(d) THEN timedOut ELSE timedOut \cup {d}
     /\ closed' = closed \cup ({d} \cap Basler)
  /\ todo' = Tail(todo)
  /\ UNCHANGED <<configVars, pc, raised, asked, dirVars, threadVars, stop, open, manifest>>

CloseFiles ==
  /\ pc = "stopping" /\ Now("close")
  /\ open' = open \ {Head(todo).what} /\ todo' = Tail(todo)
  /\ UNCHANGED <<configVars, pc, raised, asked, dirVars, threadVars, stop, timedOut, closed,
                 manifest>>

\* The manifest, or summary, of what every recorder has counted by now; a failed start
\* has none.  A thread that its join gave up on may still be writing.
Report ==
  /\ pc = "stopping" /\ todo = << >>
  /\ pc' = "leaving" /\ manifest' = IF raised THEN << >> ELSE count
  /\ UNCHANGED <<configVars, todo, raised, asked, dirVars, threadVars, stopVars>>

Leave ==
  /\ pc = "leaving" /\ pc' = "done"
  /\ UNCHANGED <<configVars, todo, raised, asked, dirVars, threadVars, stopVars, manifest>>

Main == \/ NameExists \/ NameIsFree \/ MakeDirectory \/ Start \/ StartFails \/ StartsWaiting
        \/ StartsStopping \/ Flag \/ Join \/ CloseFiles \/ Report \/ Leave

\* Ctrl+C, SIGTERM or the end of the duration, once the handlers are installed.
AskToStop ==
  /\ pc \in {"starting", "waiting"} /\ ~asked /\ asked' = TRUE
  /\ UNCHANGED <<configVars, mainVars, dirVars, threadVars, stopVars, manifest>>

\* Another recording, earlier or started beside this one, takes a name.
OthersMakeDirectory ==
  /\ pc \in {"naming", "making"}
  /\ \E n \in 1..MaxDirs : /\ dirs[n] = "free" /\ \A m \in 1..n - 1 : dirs[m] # "free"
                           /\ dirs' = [dirs EXCEPT ![n] = "theirs"]
  /\ UNCHANGED <<configVars, mainVars, asked, dir, threadVars, stopVars, manifest>>

-----------------------------------------------------------------------------
(***************************************************************************)
(* The threads: "loop" is the test of the stop flag, "fetch" the wait for  *)
(* the next item, "write" the callback; of the events, "writing" is the    *)
(* output of a batch, "counting" what follows it.  They are daemon         *)
(* threads: they do not outlive the process.                               *)
(***************************************************************************)

Goes(d, to) == pc # "done" /\ phase' = [phase EXCEPT ![d] = to]

ThreadOnly == UNCHANGED <<configVars, mainVars, asked, dirVars, stopVars, manifest>>

LoopTest(d) ==
  /\ phase[d] = "loop"
  /\ Goes(d, IF d \in stop THEN "ended" ELSE "fetch")
  /\ ThreadOnly /\ UNCHANGED <<count, rows>>

\* Nothing comes of it: a timeout, a failed grab, an empty batch, one with no valid
\* event, or a read error.
FetchesNothing(d) ==
  /\ d \in Recorded /\ phase[d] = "fetch"
  /\ Goes(d, "loop")
  /\ ThreadOnly /\ UNCHANGED <<count, rows>>

\* The poll of the raw recording, and the monitor: nobody is called.
RawPollLoop ==
  /\ phase["raw"] = "fetch" /\ Goes("raw", "loop")
  /\ ThreadOnly /\ UNCHANGED <<count, rows>>

MonitorLoop ==
  /\ phase["monitor"] = "fetch" /\ Goes("monitor", "loop")
  /\ ThreadOnly /\ UNCHANGED <<count, rows>>

\* A frame or a sample is counted before it is handed over.
GrabLoop(d) ==
  /\ d \in Basler /\ phase[d] = "fetch" /\ d \notin closed
  /\ count[d] < MaxItems /\ count' = [count EXCEPT ![d] = @ + 1]
  /\ Goes(d, "write")
  /\ ThreadOnly /\ UNCHANGED rows

\* Mutant: a sample is counted before it is read, and the read may fail.
PollLoopCountsFirst(d) ==
  /\ d \in Imu /\ phase[d] = "fetch"
  /\ count[d] < MaxItems /\ count' = [count EXCEPT ![d] = @ + 1]
  /\ \E to \in {"write", "loop"} : Goes(d, to)
  /\ ThreadOnly /\ UNCHANGED rows

PollLoop(d) ==
  /\ d \in Imu /\ phase[d] = "fetch"
  /\ count[d] < MaxItems /\ count' = [count EXCEPT ![d] = @ + 1]
  /\ Goes(d, "write")
  /\ ThreadOnly /\ UNCHANGED rows

\* A batch is counted by its writer, after it is written.
StreamLoop(d) ==
  /\ d = "Event1" /\ phase[d] = "fetch" /\ count[d] < MaxItems
  /\ Goes(d, "write")
  /\ ThreadOnly /\ UNCHANGED <<count, rows>>

\* The camera no longer grabs, or the decoder has no more events or finds them
\* inconsistent.
LoopEnds(d) ==
  /\ \/ d \in Basler /\ phase[d] = "loop"
     \/ d = "Event1" /\ phase[d] = "fetch"
  /\ Goes(d, "ended")
  /\ ThreadOnly /\ UNCHANGED <<count, rows>>

\* What is called for the next item raises, and nothing catches it: the camera was
\* unplugged, or closed under a thread its join gave up on.
FetchFails(d) ==
  /\ d \in Basler \cup {"Event1"} /\ phase[d] = "fetch"
  /\ Goes(d, "died")
  /\ ThreadOnly /\ UNCHANGED <<count, rows>>

HasOpenFile(d) == GroupOf(d) \in open

\* record_basler.py stops itself when it has the frames it was asked for.
WritesRow(d) ==
  /\ d # "Event1" /\ phase[d] = "write" /\ HasOpenFile(d)
  /\ rows' = [rows EXCEPT ![d] = @ + 1]
  /\ asked' = (asked \/ (script = "record_basler" /\ count[d] >= NumFrames))
  /\ Goes(d, "loop")
  /\ UNCHANGED <<configVars, mainVars, dirVars, stopVars, count, manifest>>

\* A batch is handed to the system: closing the file no longer stops that.
BeginsBatch(d) ==
  /\ d = "Event1" /\ phase[d] = "write" /\ HasOpenFile(d)
  /\ Goes(d, "writing")
  /\ ThreadOnly /\ UNCHANGED <<count, rows>>

WritesBatch(d) ==
  /\ phase[d] = "writing" /\ rows' = [rows EXCEPT ![d] = @ + 1]
  /\ Goes(d, "counting")
  /\ ThreadOnly /\ UNCHANGED count

\* The disk is full: some of the batch may be there, and none of it is counted.
WriteFails(d) ==
  /\ phase[d] = "writing" /\ rows' \in {rows, [rows EXCEPT ![d] = @ + 1]}
  /\ Goes(d, "died")
  /\ ThreadOnly /\ UNCHANGED count

CountsBatch(d) ==
  /\ phase[d] = "counting" /\ count' = [count EXCEPT ![d] = @ + 1]
  /\ Goes(d, "loop")
  /\ ThreadOnly /\ UNCHANGED rows

WritesToClosedFile(d) ==
  /\ phase[d] = "write" /\ ~HasOpenFile(d)
  /\ Goes(d, "late")
  /\ ThreadOnly /\ UNCHANGED <<count, rows>>

\* The conversion or the write raises: nothing catches it.
CallbackFails(d) ==
  /\ phase[d] = "write"
  /\ Goes(d, "died")
  /\ ThreadOnly /\ UNCHANGED <<count, rows>>

Thread(d) == \/ LoopTest(d) \/ FetchesNothing(d) \/ GrabLoop(d) \/ PollLoop(d) \/ StreamLoop(d)
             \/ LoopEnds(d) \/ FetchFails(d) \/ WritesRow(d)
             \/ BeginsBatch(d) \/ WritesBatch(d) \/ WriteFails(d) \/ CountsBatch(d)
             \/ WritesToClosedFile(d) \/ CallbackFails(d)

Next == Main \/ AskToStop \/ OthersMakeDirectory \/ (\E d \in Devices : Thread(d)) \/ RawPollLoop \/ MonitorLoop

\* Nothing is assumed of a device: a fetch may never return.
Spec == Init /\ [][Next]_vars /\ WF_vars(Main)

-----------------------------------------------------------------------------
TypeOK ==
  /\ script \in Scripts /\ configured \in Configs
  /\ pc \in {"naming", "making", "starting", "waiting", "stopping", "leaving", "done"}
  /\ todo \in Seq([does : {"start", "stop", "close"}, what : Devices \cup Groups])
  /\ raised \in BOOLEAN /\ asked \in BOOLEAN
  /\ phase \in [Devices -> {"idle", "loop", "fetch", "write", "writing", "counting",
                           "ended", "died", "late"}]
  /\ count \in [Recorded -> 0..MaxItems] /\ rows \in [Recorded -> 0..MaxItems]
  /\ dirs \in [1..MaxDirs -> {"free", "ours", "theirs"}] /\ dir \in 1..MaxDirs
  /\ stop \subseteq Devices /\ timedOut \subseteq stop /\ closed \subseteq Basler
  /\ open \subseteq Groups

\* When main is about to leave, by its end or by an exception its handler has dealt
\* with, no thread of a device runs that a join has not given up on.  What record.py
\* (comment at 132) promises: a startup failure anywhere stops whatever did start.
StopsWhatStarted ==
  (pc = "done" /\ (Plan.guarded \/ ~raised)) =>
    \A d \in Devices : HasEnded(d) \/ d \in timedOut

\* How far the manifest is from the file.  A frame or a sample is counted before its row
\* is written, a batch of events after.
Miscount(d) == IF d = "Event1" THEN rows[d] - manifest[d] ELSE manifest[d] - rows[d]

\* The manifest counts what is in the files, also of a thread that goes on beside it.  It
\* is wrong by one item at most, where the thread failed with that item or outlived its
\* join: a frame or sample too many, or a batch of events, or a part of one, too few.
CountsItsRows ==
  manifest # << >> =>
    \A d \in Recorded : /\ Miscount(d) \in {0, 1}
                        /\ Miscount(d) = 1 => phase[d] \in {"died", "late"} \/ d \in timedOut

\* Only a thread whose join timed out finds its file closed.
FilesOutliveThreads == \A d \in Devices : phase[d] = "late" => d \in timedOut

\* A recording never goes into the directory of another one (make_output_dir: "never
\* silently overwrites (or worse, interleaves into) a previous recording").
OwnDirectory == pc \in {"starting", "waiting", "stopping", "leaving"} => dirs[dir] = "ours"

\* Once it is asked to stop, or a start has failed, the script ends, whatever the
\* devices do.
SessionEnds == (asked \/ raised) ~> (pc = "done")
=============================================================================
