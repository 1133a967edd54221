------------------------------- MODULE Service -------------------------------
(***************************************************************************)
(* The main application, start.cpp: the master of the segment, the modules *)
(* that make, start and stop the sensors, and the threads of the sensors.  *)
(*                                                                         *)
(* The main thread makes the master, then for each module its sensors and  *)
(* starts them, waits for a signal, stops the modules in reverse, and      *)
(* leaves the scope in which all of them live, where the destructors run.  *)
(* An exception leads to those destructors at once.  What it does next is  *)
(* a list of jobs of a few steps each; a step that does not apply to the   *)
(* state of its sensor is passed over, as the early returns of start() and *)
(* stop() do.                                                              *)
(*                                                                         *)
(* A camera is at a coarser grain here than in Capture, which has the      *)
(* order of assignments in start() and stop() and the buffers.             *)
(***************************************************************************)
EXTENDS Naturals, Sequences, SequencesExt

CONSTANTS V4L2, Pylon,  \* the cameras of the two backends
          Event, Imu,   \* the event cameras, the IMUs
          Configs,      \* configurations: which of them there are, in which order
          None          \* no sensor

Sensors == V4L2 \cup Pylon \cup Event \cup Imu

ASSUME SensorsAssumption ==
  /\ V4L2 \cap Pylon = {} /\ (V4L2 \cup Pylon) \cap Event = {}
  /\ (V4L2 \cup Pylon \cup Event) \cap Imu = {} /\ None \notin Sensors
  /\ Configs \subseteq [cameras : Seq(V4L2 \cup Pylon), events : Seq(Event), imus : Seq(Imu)]
  /\ \A c \in Configs : IsInjective(c.cameras \o c.events \o c.imus)

VARIABLES config,    \* the configuration of this run
          pc,        \* what the main thread is doing
          todo,      \* the jobs it still has to do there
          step,      \* the step it is at in the first of them
          stopping,  \* the sensor whose stop() is going on, or None
          asked,     \* a signal has come (g_running is FALSE)
          linked,    \* the segment exists under its name
          status,    \* the object of each sensor, for cameras with its _state
          running,   \* _running
          device,    \* the device: closed, open, streaming, its buffer cancelled, or its
             \* descriptor left open by a constructor that threw (leaked)
          polled,    \* the IMUs whose buffer has a descriptor to poll
          thread,    \* where the worker of each sensor is
          removed,   \* the Pylon cameras that were unplugged
          calling,   \* the event cameras whose SDK is calling back
          refused,   \* the sensors that would not stop streaming (history)
          faulty,    \* the sensors that have failed themselves (history)
          raisedBy   \* the sensor whose failure ended the service, or None (history)

mainVars    == <<pc, todo, step, stopping, config>>
sensorVars  == <<status, running, device, polled, thread>>
historyVars == <<refused, faulty, raisedBy>>
contextVars == <<config, stopping, asked, linked, removed, calling>>
vars == <<mainVars, asked, linked, sensorVars, removed, calling, historyVars>>

-----------------------------------------------------------------------------
(***************************************************************************)
(* What the main thread does, as lists of jobs, and the steps of a job.    *)
(***************************************************************************)

Job(does, what)    == [does |-> does, what |-> what]
For(does, sensors) == [i \in 1..Len(sensors) |-> Job(does, sensors[i])]

Cameras      == config.cameras
EventCameras == config.events
Imus         == config.imus

StartUp == <<Job("create", None)>> \o For("make", Cameras) \o For("start", Cameras)
           \o For("make", EventCameras) \o For("start", EventCameras)
           \o For("make", Imus) \o For("start", Imus)

\* stop_imus() also destroys them.
StopImus == For("stop", Imus) \o For("destroy", Imus)
ShutDown == StopImus \o For("stop", EventCameras) \o For("stop", Cameras)

\* Mutant: the master is not the first object of the scope.
UnwindMasterFirst ==
  StopImus \o <<Job("unlink", None)>> \o For("destroy", EventCameras) \o For("destroy", Cameras)

\* The destructors at the end of the scope, the last object first.
Unwind == StopImus \o For("destroy", EventCameras) \o For("destroy", Cameras)
          \o <<Job("unlink", None)>>

\* A destructor stops its sensor without asking it is_valid().
FirstStep(job) ==
  CASE job.does = "start"   -> IF job.what \in Imu THEN "open" ELSE "arm"
    [] job.does = "stop"    -> "ask"
    [] job.does = "destroy" -> "lower"
    [] OTHER                -> job.does

\* The event camera has members that go before the SDK's object.
NextStep(job, now) ==
  CASE now = "open"            -> "arm"
    [] now = "arm"             -> "spawn"
    [] now \in {"ask", "lower"} -> "halt"
    [] now = "halt"            -> "join"
    [] now = "join"            -> "release"
    [] now = "release" /\ job.does = "destroy" -> IF job.what \in Event THEN "scrap" ELSE "free"
    [] now = "scrap"           -> "free"
    [] OTHER                   -> "over"

Entry(jobs) == IF jobs = << >> THEN "over" ELSE FirstStep(Head(jobs))

-----------------------------------------------------------------------------
Init ==
  /\ config \in Configs /\ pc = "starting" /\ stopping = None
  /\ todo = StartUp /\ step = Entry(StartUp)
  /\ asked = FALSE /\ linked = FALSE
  /\ status = [s \in Sensors |-> "none"] /\ running = [s \in Sensors |-> FALSE]
  /\ device = [s \in Sensors |-> "closed"] /\ polled = {}
  /\ thread = [s \in Sensors |-> "none"] /\ removed = {} /\ calling = {}
  /\ refused = {} /\ faulty = {} /\ raisedBy = None

\* is_valid(): the descriptor of a V4L2 camera is open, a Pylon camera is open and
\* still there, an event camera has been made.
Valid(s) == /\ s \in V4L2 \cup Pylon => device[s] # "closed"
            /\ s \notin removed

Now(do, s) == todo # << >> /\ step = do /\ Head(todo).what = s

Goes(stage, jobs) == pc' = stage /\ todo' = jobs /\ step' = Entry(jobs)

Done == LET next == NextStep(Head(todo), step)
        IN IF next = "over" THEN Goes(pc, Tail(todo)) ELSE step' = next /\ UNCHANGED <<pc, todo>>

\* An exception that nothing catches before main: the scope is left.
Raises(s) == Goes("unwinding", Unwind) /\ raisedBy' = s

CreateMaster ==
  /\ Now("create", None)
  /\ \/ Done /\ linked' = TRUE
     \/ Goes("gone", << >>) /\ UNCHANGED linked
  /\ UNCHANGED <<config, stopping, asked, sensorVars, removed, calling, historyVars>>

\* Only a Pylon or an event camera is opened for good here; a V4L2 camera whose
\* device cannot be opened is made, and not valid.
Make(s) ==
  /\ Now("make", s) /\ Done
  /\ status' = [status EXCEPT ![s] = "initialized"]
  /\ \E d \in {"open", "closed"} :
       /\ s \in Imu => d = "closed"
       /\ s \in Pylon \cup Event => d = "open"
       /\ device' = [device EXCEPT ![s] = d]
       /\ faulty' = IF d = "closed" /\ s \notin Imu THEN faulty \cup {s} ELSE faulty
  /\ UNCHANGED <<contextVars, running, polled, thread, refused, raisedBy>>

\* Mutant: the modules do not catch what the constructor of a camera throws.
MakeFailsForAll(s) ==
  /\ Now("make", s)
  /\ faulty' = faulty \cup {s} /\ Raises(s)
  /\ UNCHANGED <<contextVars, sensorVars, refused>>

\* The modules of the cameras keep a null pointer for one whose constructor throws.  A
\* V4L2 camera throws for a format it does not know once its device is open, and no
\* destructor closes the descriptor.
MakeFails(s) ==
  /\ Now("make", s)
  /\ faulty' = faulty \cup {s}
  /\ \/ s \in Imu /\ Raises(s) /\ UNCHANGED <<status, device>>
     \/ /\ s \notin Imu /\ Done /\ UNCHANGED raisedBy
        /\ status' = [status EXCEPT ![s] = "broken"]
        /\ \E d \in {"closed"} \cup (IF s \in V4L2 THEN {"leaked"} ELSE {}) :
             device' = [device EXCEPT ![s] = d]
  /\ UNCHANGED <<contextVars, running, polled, thread, refused>>

-----------------------------------------------------------------------------
(***************************************************************************)
(* start().                                                                *)
(***************************************************************************)

\* The IIO context and the device in it.
Open(s) ==
  /\ Now("open", s) /\ Done
  /\ \E opens \in BOOLEAN :
       /\ running' = [running EXCEPT ![s] = opens]
       /\ device' = [device EXCEPT ![s] = IF opens THEN "open" ELSE "closed"]
       /\ faulty' = IF opens THEN faulty ELSE faulty \cup {s}
  /\ UNCHANGED <<contextVars, status, polled, thread, refused, raisedBy>>

Applies(s) == IF s \in Imu THEN device[s] = "open" ELSE status[s] = "initialized" /\ Valid(s)

\* Acquisition, or the channels and the buffer of an IMU, which may have nothing to
\* poll.
Arm(s) ==
  /\ Now("arm", s) /\ Applies(s) /\ Done
  /\ device' = [device EXCEPT ![s] = "streaming"]
  /\ polled' \in {polled} \cup (IF s \in Imu THEN {polled \cup {s}} ELSE {})
  /\ UNCHANGED <<contextVars, status, running, thread, historyVars>>

\* Mutant: an IMU without a buffer or without channels keeps its context.
ArmFailsOpen(s) ==
  /\ Now("arm", s) /\ Applies(s) /\ Done
  /\ faulty' = faulty \cup {s}
  /\ running' = [running EXCEPT ![s] = FALSE]
  /\ UNCHANGED <<contextVars, status, device, polled, thread, refused, raisedBy>>

ArmFails(s) ==
  /\ Now("arm", s) /\ Applies(s) /\ Done
  /\ faulty' = faulty \cup {s}
  /\ running' = [running EXCEPT ![s] = FALSE]
  /\ device' = [device EXCEPT ![s] = IF s \in Imu THEN "closed" ELSE @]
  /\ UNCHANGED <<contextVars, status, polled, thread, refused, raisedBy>>

Spawn(s) ==
  /\ Now("spawn", s) /\ device[s] = "streaming" /\ Done
  /\ running' = [running EXCEPT ![s] = TRUE] /\ thread' = [thread EXCEPT ![s] = "test"]
  /\ status' = [status EXCEPT ![s] = IF s \in Imu THEN @ ELSE "running"]
  /\ UNCHANGED <<contextVars, device, polled, historyVars>>

\* _stop_acquisition() stops the stream, or fails.
StreamStops(s) ==
  \/ device' = [device EXCEPT ![s] = "open"] /\ UNCHANGED refused
  \/ refused' = refused \cup {s} /\ UNCHANGED device

\* The thread cannot be made: a camera takes it back, an IMU lets the exception pass.
SpawnFails(s) ==
  /\ Now("spawn", s) /\ device[s] = "streaming"
  /\ faulty' = faulty \cup {s}
  /\ IF s \in Imu THEN Raises(s) /\ UNCHANGED <<device, refused>>
                  ELSE Done /\ StreamStops(s) /\ UNCHANGED raisedBy
  /\ UNCHANGED <<contextVars, status, running, polled, thread>>

-----------------------------------------------------------------------------
(***************************************************************************)
(* stop() and the destructors.                                             *)
(***************************************************************************)

\* What stop() finds at its entry: a camera that was not stopped, an IMU that runs.
Stoppable(s) == IF s \in Imu THEN running[s] ELSE status[s] \in {"initialized", "running"}

Lower(s) ==
  /\ Now("lower", s) \/ (Now("ask", s) /\ Valid(s))
  /\ Stoppable(s) /\ Done
  /\ running' = [running EXCEPT ![s] = FALSE] /\ stopping' = s
  /\ UNCHANGED <<config, asked, linked, status, device, polled, thread, removed, calling, historyVars>>

\* Mutant: the IMU's thread is left to wait for samples.
HaltCameras(s) ==
  /\ Now("halt", s) /\ stopping = s /\ Done
  /\ IF s \notin Imu /\ status[s] = "running" THEN StreamStops(s) ELSE UNCHANGED <<device, refused>>
  /\ UNCHANGED <<contextVars, status, running, polled, thread, faulty, raisedBy>>

\* _stop_acquisition() if start() had gone through; iio_buffer_cancel().
Halt(s) ==
  /\ Now("halt", s) /\ stopping = s /\ Done
  /\ \/ s \in Imu /\ device' = [device EXCEPT ![s] = "cancelled"] /\ UNCHANGED refused
     \/ s \notin Imu /\ status[s] = "running" /\ StreamStops(s)
     \/ s \notin Imu /\ status[s] # "running" /\ UNCHANGED <<device, refused>>
  /\ UNCHANGED <<contextVars, status, running, polled, thread, faulty, raisedBy>>

\* The SDK has ended its callbacks when its stop() returns.
Quiet(s) == s \notin calling \/ device[s] = "streaming"

Join(s) ==
  /\ Now("join", s) /\ stopping = s /\ thread[s] \in {"none", "ended"} /\ Quiet(s) /\ Done
  /\ UNCHANGED <<contextVars, sensorVars, historyVars>>

\* _post_stop() or _destroy_resources(): a Pylon camera may not close, and an event
\* camera stays open as long as its object.
Release(s) ==
  /\ Now("release", s) /\ stopping = s /\ stopping' = None /\ Done
  /\ \E d \in {"closed", device[s]} :
       /\ s \in V4L2 \cup Imu => d = "closed"
       /\ s \in Event => d = device[s]
       /\ device' = [device EXCEPT ![s] = d]
  /\ status' = [status EXCEPT ![s] = IF s \in Imu THEN @ ELSE "stopped"]
  /\ polled' = polled \ {s}
  /\ UNCHANGED <<config, asked, linked, running, thread, removed, calling, historyVars>>

Exists(s) == status[s] \in {"initialized", "running", "stopped", "scrapped"}

\* The members of an event camera that are declared after the SDK's object.
Scrap(s) ==
  /\ Now("scrap", s) /\ Exists(s) /\ Done
  /\ status' = [status EXCEPT ![s] = "scrapped"]
  /\ UNCHANGED <<contextVars, running, device, polled, thread, historyVars>>

\* The SDK's object, which ends its callbacks, and the writer.
Free(s) ==
  /\ Now("free", s) /\ Exists(s) /\ s \notin calling /\ Done
  /\ status' = [status EXCEPT ![s] = "freed"] /\ device' = [device EXCEPT ![s] = "closed"]
  /\ UNCHANGED <<contextVars, running, polled, thread, historyVars>>

\* The early returns.
PassesOver(s) ==
  /\ \/ Now("arm", s) /\ ~Applies(s)
     \/ Now("spawn", s) /\ device[s] # "streaming"
     \/ Now("ask", s) /\ ~(Valid(s) /\ Stoppable(s))
     \/ Now("lower", s) /\ ~Stoppable(s)
     \/ \E do \in {"halt", "join", "release"} : Now(do, s) /\ stopping # s
     \/ \E do \in {"scrap", "free"} : Now(do, s) /\ ~Exists(s)
  /\ Done
  /\ UNCHANGED <<contextVars, sensorVars, historyVars>>

\* The end of the scope.
Unlink ==
  /\ Now("unlink", None) /\ Done /\ linked' = FALSE
  /\ UNCHANGED <<config, stopping, asked, sensorVars, removed, calling, historyVars>>

-----------------------------------------------------------------------------
\* main: it looks at g_running only once everything is started.
Proceed ==
  /\ todo = << >>
  /\ \/ pc = "starting" /\ Goes("waiting", << >>)
     \/ pc = "waiting" /\ asked /\ Goes("stopping", ShutDown)
     \/ pc = "stopping" /\ Goes("unwinding", Unwind)
     \/ pc = "unwinding" /\ Goes("gone", << >>)
  /\ UNCHANGED <<contextVars, sensorVars, historyVars>>

Main == \/ CreateMaster \/ Unlink \/ Proceed
        \/ \E s \in Sensors :
             \/ Make(s) \/ MakeFails(s) \/ Open(s) \/ Arm(s) \/ ArmFails(s) \/ Spawn(s) \/ SpawnFails(s)
             \/ Lower(s) \/ Halt(s) \/ Join(s) \/ Release(s) \/ Scrap(s) \/ Free(s) \/ PassesOver(s)

\* SIGINT or SIGTERM.
Signal ==
  /\ ~asked /\ pc # "gone" /\ asked' = TRUE
  /\ UNCHANGED <<mainVars, linked, sensorVars, removed, calling, historyVars>>

\* A GigE camera is unplugged (external).
Unplug(s) ==
  /\ s \in Pylon \ removed /\ device[s] # "closed"
  /\ removed' = removed \cup {s} /\ faulty' = faulty \cup {s}
  /\ UNCHANGED <<mainVars, asked, linked, sensorVars, calling, refused, raisedBy>>

-----------------------------------------------------------------------------
(***************************************************************************)
(* The threads of the sensors.                                             *)
(***************************************************************************)

WorkerOnly == UNCHANGED <<mainVars, asked, linked, status, device, polled, removed, calling, refused, raisedBy>>

GoesTo(s, place) == thread' = [thread EXCEPT ![s] = place]
Stays            == UNCHANGED <<running, faulty>>

\* A camera's loop ends by itself on an error and lowers its flag.
Dies(s) == /\ GoesTo(s, "ended")
           /\ running' = [running EXCEPT ![s] = FALSE] /\ faulty' = faulty \cup {s}

TestFlag(s) ==
  /\ thread[s] = "test" /\ Stays /\ WorkerOnly
  /\ GoesTo(s, IF ~running[s] THEN "ended" ELSE IF s \in Imu \ polled THEN "refill" ELSE "wait")

\* poll() or RetrieveResult() with a timeout, or the sleep of an event camera's loop.
Wait(s) ==
  /\ thread[s] = "wait" /\ WorkerOnly
  /\ \/ GoesTo(s, "test") /\ Stays
     \/ s \in Imu /\ GoesTo(s, "refill") /\ Stays
     \/ s \in V4L2 \cup Pylon /\ device[s] = "streaming" /\ GoesTo(s, "add") /\ Stays
     \/ s \in V4L2 \cup Pylon /\ Dies(s)

\* iio_buffer_refill(): samples, or an error, the only answer of a cancelled buffer.
Refill(s) ==
  /\ thread[s] = "refill" /\ Stays /\ WorkerOnly
  /\ \/ GoesTo(s, "test")
     \/ device[s] = "streaming" /\ GoesTo(s, "add")

\* SharedDictWriter::add(); a V4L2 camera then gives its buffer back, or cannot.
Add(s) ==
  /\ thread[s] = "add" /\ WorkerOnly
  /\ \/ GoesTo(s, "test") /\ Stays
     \/ s \in V4L2 /\ Dies(s)

\* Without a descriptor to poll, only a cancelled buffer is sure to answer.
RefillReturns(s) == (s \in polled \/ device[s] = "cancelled") /\ Refill(s)

\* _on_cd_events(), on a thread of the SDK (external): the events are converted in a
\* buffer and added frame by frame.
CallBack(s) ==
  /\ s \in Event \ calling /\ device[s] = "streaming"
  /\ calling' = calling \cup {s}
  /\ UNCHANGED <<mainVars, asked, linked, sensorVars, removed, historyVars>>

CallBackEnds(s) ==
  /\ s \in calling /\ calling' = calling \ {s}
  /\ UNCHANGED <<mainVars, asked, linked, sensorVars, removed, historyVars>>

Next == \/ Main \/ Signal
        \/ \E s \in Sensors : \/ Unplug(s) \/ TestFlag(s) \/ Wait(s) \/ Refill(s) \/ Add(s)
                              \/ CallBack(s) \/ CallBackEnds(s)

\* The main thread goes on unless it waits in a join for a thread or for a
\* callback of the SDK, which comes to a stop between two of them; the threads are
\* scheduled, and only refill() may block.
Spec == /\ Init /\ [][Next]_vars
        /\ WF_vars(Main) /\ SF_vars(\E s \in Event : Free(s))
        /\ \A s \in Sensors : WF_vars(TestFlag(s) \/ Wait(s) \/ RefillReturns(s) \/ Add(s))
        /\ \A s \in Event : WF_vars(CallBackEnds(s))

-----------------------------------------------------------------------------
TypeOK ==
  /\ pc \in {"starting", "waiting", "stopping", "unwinding", "gone"}
  /\ todo \in Seq([does : {"create", "make", "start", "stop", "destroy", "unlink"}, what : Sensors \cup {None}])
  /\ step \in {"create", "make", "open", "arm", "spawn", "ask", "lower", "halt", "join", "release",
               "scrap", "free", "unlink", "over"}
  /\ stopping \in Sensors \cup {None} /\ asked \in BOOLEAN /\ linked \in BOOLEAN
  /\ status \in [Sensors -> {"none", "broken", "initialized", "running", "stopped", "scrapped", "freed"}]
  /\ running \in [Sensors -> BOOLEAN] /\ polled \subseteq Imu /\ removed \subseteq Pylon
  /\ calling \subseteq Event
  /\ device \in [Sensors -> {"closed", "open", "streaming", "cancelled", "leaked"}]
  /\ thread \in [Sensors -> {"none", "test", "wait", "refill", "add", "ended"}]
  /\ refused \subseteq Sensors /\ faulty \subseteq Sensors /\ raisedBy \in Sensors \cup {None}

\* An object has the device open.
Holds(s) == device[s] \notin {"closed", "leaked"}

\* The worker of a sensor, or the SDK, is at the device or at the writer.
Busy(s) == thread[s] \in {"wait", "refill", "add"} \/ s \in calling

\* Whoever is at a device or adds to a ring does it while the device is open, the
\* object alive and the segment named; except for callbacks of an event camera that
\* could not be stopped, which may find its conversion buffer gone.
UsesWhatExists ==
  \A s \in Sensors : Busy(s) =>
    /\ linked /\ Holds(s)
    /\ status[s] \in {"initialized", "running", "stopped"} \/ s \in refused

\* "A single unreachable/broken camera must not prevent the rest of the module (and
\* the other cameras) from starting up": once the service waits, every sensor that did
\* not fail itself captures, and only an IMU can end the service.
BrokenStaysAlone ==
  /\ pc = "waiting" => \A s \in ToSet(Cameras \o EventCameras \o Imus) \ faulty :
                         thread[s] \in {"test", "wait", "refill", "add"}
  /\ raisedBy \in Imu \cup {None}

\* However far it came, and whatever failed on the way, the service leaves no thread
\* and no segment behind, and no device open but the descriptor of a V4L2 camera whose
\* constructor threw; and an IMU that did not start holds nothing while the others run.
NothingLeftOpen ==
  /\ pc = "gone" =>
       /\ ~linked
       /\ \A s \in Sensors :
            /\ thread[s] \in {"none", "ended"}
            /\ device[s] = "closed" \/ (device[s] = "leaked" /\ s \in V4L2 /\ status[s] = "broken")
  /\ pc = "waiting" => \A s \in Imu : running[s] \/ device[s] = "closed"

\* Without that exception: the code does not keep this (service_leak.cfg).
EveryDeviceClosed == pc = "gone" => \A s \in Sensors : device[s] = "closed"

\* A signal, at whatever moment it comes, or a failure ends the service, though an IMU
\* may have no samples to wake it.
ServiceEnds == (asked \/ raisedBy # None) ~> pc = "gone"
=============================================================================
