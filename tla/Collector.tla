------------------------------ MODULE Collector ------------------------------
(***************************************************************************)
(* DataCollectorState of the web collector: the requests of the frontend,  *)
(* the collector thread, and the two processes they start and stop, the    *)
(* main application and the logger.                                        *)
(*                                                                         *)
(* Requests and the collector thread exclude each other with one lock,     *)
(* held to the end, waits for a process included.  The processes do not    *)
(* know of the lock: they come up, serve and go between any two looks the  *)
(* lock's holder takes at them.                                            *)
(*                                                                         *)
(* The segment is described by SharedSegment; here it is absent, being     *)
(* made by the main application, served by it, or left behind finished     *)
(* ("stale") or unfinished ("ruins") by one that was killed.               *)
(*                                                                         *)
(* Names that Sensor has too begin with Collector, since                   *)
(* WebCollectorProofs extends both.                                        *)
(***************************************************************************)

VARIABLES proc,      \* each process: not started, up, asked to terminate, gone
                     \* by itself, or stopped on request
          phase,     \* how far the main application is
          segment,   \* the segment in the file system
          readers,   \* _readers_initialized
          started,   \* _main_app_started
          fatal,     \* _fatal_error is set
          pc,        \* the next step of the lock's holder, or "free"
          req,       \* what it has to do
          whom,      \* the process it is about to stop
          closed,    \* close() was called
          served,    \* the last main application made its segment (history)
          leftover   \* it found a segment of another one (history)

procVars    == <<proc, phase>>
stateVars   == <<readers, started, fatal>>
holderVars  == <<pc, req, whom>>
historyVars == <<served, leftover>>
collectorVars == <<procVars, segment, stateVars, holderVars, closed, historyVars>>

Runs(p) == proc[p] \in {"up", "asked"}

CollectorInit ==
  /\ proc = [p \in {"main", "logger"} |-> "none"] /\ phase = "boot"
  /\ segment \in {"absent", "stale", "ruins"}
  /\ readers = FALSE /\ started = FALSE /\ fatal = FALSE
  /\ pc = "free" /\ req = "none" /\ whom = "main" /\ closed = FALSE
  /\ served = FALSE /\ leftover = FALSE

-----------------------------------------------------------------------------
(***************************************************************************)
(* The processes.                                                          *)
(***************************************************************************)

Ended(p) == proc' = [proc EXCEPT ![p] = IF proc[p] = "asked" THEN "stopped" ELSE "gone"]

MainClears ==
  /\ Runs("main") /\ phase = "boot"
  /\ phase' = "make" /\ segment' = "making"
  /\ UNCHANGED <<proc, stateVars, holderVars, closed, historyVars>>

MainServes ==
  /\ Runs("main") /\ phase = "make"
  /\ phase' = "serve" /\ segment' = "served" /\ served' = TRUE
  /\ UNCHANGED <<proc, stateVars, holderVars, closed, leftover>>

\* By a return of main, or by an exception: what it made is unlinked.
MainExits ==
  /\ Runs("main") /\ Ended("main")
  /\ segment' = IF phase = "boot" THEN segment ELSE "absent"
  /\ UNCHANGED <<phase, stateVars, holderVars, closed, historyVars>>

\* What is left of the segment when no destructor runs.
Abandon == segment' = CASE phase = "boot"  -> segment
                        [] phase = "make"  -> "ruins"
                        [] phase = "serve" -> "stale"

MainCrashes ==
  /\ Runs("main") /\ Ended("main") /\ Abandon
  /\ UNCHANGED <<phase, stateVars, holderVars, closed, historyVars>>

LoggerEnds ==
  /\ Runs("logger") /\ Ended("logger")
  /\ UNCHANGED <<phase, segment, stateVars, holderVars, closed, historyVars>>

Processes == MainClears \/ MainServes \/ MainExits \/ MainCrashes \/ LoggerEnds

-----------------------------------------------------------------------------
(***************************************************************************)
(* Who takes the lock.  A request that is refused changes nothing and is   *)
(* left out.                                                               *)
(***************************************************************************)

Take(what, where, process) ==
  /\ pc = "free" /\ req' = what /\ pc' = where /\ whom' = process
  /\ UNCHANGED <<procVars, segment, stateVars, historyVars>>

\* Mutant: the readers of the main application before are kept.
StartMainKeepsReaders ==
  /\ pc = "free" /\ ~Runs("main")
  /\ fatal' = FALSE /\ UNCHANGED readers
  /\ \/ /\ proc' = [proc EXCEPT !["main"] = "up"] /\ phase' = "boot"
        /\ started' = TRUE
        /\ pc' = "look" /\ req' = "look"
        /\ served' = FALSE /\ leftover' = (segment # "absent")
     \/ /\ proc' = [proc EXCEPT !["main"] = "none"]
        /\ UNCHANGED <<phase, started, pc, req, historyVars>>
  /\ UNCHANGED <<segment, whom, closed>>

\* start_main_app.  Popen may fail, with the new handle in place.
StartMain ==
  /\ pc = "free" /\ ~Runs("main")
  /\ fatal' = FALSE /\ readers' = FALSE
  /\ \/ /\ proc' = [proc EXCEPT !["main"] = "up"] /\ phase' = "boot"
        /\ started' = TRUE
        /\ pc' = "look" /\ req' = "look"
        /\ served' = FALSE /\ leftover' = (segment # "absent")
     \/ /\ proc' = [proc EXCEPT !["main"] = "none"]
        /\ UNCHANGED <<phase, started, pc, req, historyVars>>
  /\ UNCHANGED <<segment, whom, closed>>

\* Mutant: logging may go on.
StopMainUnasked == Take("stop_main", "ask", "main") /\ UNCHANGED closed

\* stop_main_app: logging has to be stopped first.
StopMain == /\ ~Runs("logger")
            /\ Take("stop_main", "ask", "main") /\ UNCHANGED closed

\* start_logging, up to the readers.
StartLogging == /\ Runs("main") /\ ~Runs("logger")
                /\ Take("record", "attach", whom) /\ UNCHANGED closed

StopLogging  == Take("stop_logger", "ask", "logger") /\ UNCHANGED closed
TakeSnapshot == Take("look", "look", whom) /\ UNCHANGED closed

\* The collector thread, when it is to attach the readers.
Collect == /\ ~closed /\ ~fatal /\ ~readers /\ Runs("main")
           /\ Take("collect", "attach", whom) /\ UNCHANGED closed

\* close() and its stop_all; requests that came before may still wait for the
\* lock.
Close == ~closed /\ closed' = TRUE /\ Take("stop_all", "check", "logger")

Requests == \/ StartMain \/ StopMain \/ StartLogging \/ StopLogging
            \/ TakeSnapshot \/ Collect \/ Close

-----------------------------------------------------------------------------
(***************************************************************************)
(* What the holder of the lock does.                                       *)
(***************************************************************************)

Release == pc' = "free" /\ req' = "none"
GoOn(where) == pc' = where /\ UNCHANGED req

\* The end of _ensure_readers_initialized.
Attached == IF req = "record" THEN GoOn("record") ELSE Release

\* Its early returns and the probe.
Attach ==
  /\ pc = "attach"
  /\ IF ~readers /\ ~fatal /\ Runs("main") /\ segment \in {"served", "stale"}
       THEN GoOn("make") ELSE Attached
  /\ UNCHANGED <<procVars, segment, stateVars, whom, closed, historyVars>>

\* One reader for each sensor, and _mark_fatal_error when one is missing.  A
\* segment that is being made may have them all or not.
MakeReaders ==
  /\ pc = "make"
  /\ \/ /\ segment \in {"served", "stale", "making"}
        /\ readers' = TRUE /\ Attached
        /\ UNCHANGED <<started, fatal, whom>>
     \/ /\ segment \in {"making", "ruins", "absent"}
        /\ readers' = FALSE /\ started' = FALSE /\ fatal' = TRUE
        /\ req' = "fatal" /\ pc' = "check" /\ whom' = "logger"
  /\ UNCHANGED <<procVars, segment, closed, historyVars>>

\* The rest of start_logging.
Record ==
  /\ pc = "record"
  /\ \/ /\ readers
        /\ proc' = [proc EXCEPT !["logger"] = "up"]
        /\ GoOn("look")
     \/ Release /\ UNCHANGED proc
  /\ UNCHANGED <<phase, segment, stateVars, whom, closed, historyVars>>

\* Process whom was stopped, or did not have to be.
Done ==
  CASE whom = "logger" /\ req \in {"fatal", "stop_all"} ->
         GoOn("check") /\ whom' = "main" /\ UNCHANGED stateVars
    [] whom = "logger" /\ req = "stop_logger" ->
         GoOn("look") /\ UNCHANGED <<whom, stateVars>>
    [] whom = "main" /\ req \in {"stop_main", "stop_all"} ->
         /\ IF req = "stop_main" THEN GoOn("look") ELSE Release
         /\ started' = FALSE /\ readers' = FALSE /\ UNCHANGED <<whom, fatal>>
    [] OTHER -> Release /\ UNCHANGED <<whom, stateVars>>

\* `if running' before a stop.
Check ==
  /\ pc = "check"
  /\ IF Runs(whom) THEN GoOn("ask") /\ UNCHANGED <<whom, stateVars>> ELSE Done
  /\ UNCHANGED <<procVars, segment, closed, historyVars>>

\* _ProcessHandle.stop: it raises when the process does not run, which ends a
\* request, and which _mark_fatal_error ignores.
Ask ==
  /\ pc = "ask"
  /\ IF Runs(whom)
       THEN /\ proc' = [proc EXCEPT ![whom] = "asked"]
            /\ GoOn("await") /\ UNCHANGED <<whom, stateVars>>
       ELSE /\ IF req = "fatal" THEN Done ELSE Release /\ UNCHANGED <<whom, stateVars>>
            /\ UNCHANGED proc
  /\ UNCHANGED <<phase, segment, closed, historyVars>>

\* Mutant: it waits for as long as it takes.
AwaitForever ==
  /\ pc = "await" /\ ~Runs(whom) /\ Done
  /\ UNCHANGED <<procVars, segment, closed, historyVars>>

\* Five seconds, then SIGKILL.
Await ==
  /\ pc = "await" /\ Done
  /\ \/ ~Runs(whom) /\ UNCHANGED <<proc, segment>>
     \/ /\ Runs(whom) /\ Ended(whom)
        /\ IF whom = "main" THEN Abandon ELSE UNCHANGED segment
  /\ UNCHANGED <<phase, closed, historyVars>>

\* Mutant: a logger is left running.
LookAway ==
  /\ pc = "look"
  /\ IF ~fatal /\ started /\ ~Runs("main") /\ ~readers
       THEN fatal' = TRUE /\ Release /\ UNCHANGED whom
       ELSE Release /\ UNCHANGED <<fatal, whom>>
  /\ UNCHANGED <<procVars, segment, readers, started, closed, historyVars>>

\* Mutant: an exit is noticed while readers are attached only.
LookAtReaders ==
  /\ pc = "look"
  /\ IF ~fatal /\ started /\ ~Runs("main") /\ readers
       THEN /\ fatal' = TRUE
            /\ IF Runs("logger") THEN GoOn("ask") /\ whom' = "logger"
                                 ELSE Release /\ UNCHANGED whom
       ELSE Release /\ UNCHANGED <<fatal, whom>>
  /\ UNCHANGED <<procVars, segment, readers, started, closed, historyVars>>

\* snapshot.
Look ==
  /\ pc = "look"
  /\ IF ~fatal /\ started /\ ~Runs("main") /\ ~readers
       THEN /\ fatal' = TRUE
            /\ IF Runs("logger") THEN GoOn("ask") /\ whom' = "logger"
                                 ELSE Release /\ UNCHANGED whom
       ELSE Release /\ UNCHANGED <<fatal, whom>>
  /\ UNCHANGED <<procVars, segment, readers, started, closed, historyVars>>

Holder == Attach \/ MakeReaders \/ Record \/ Check \/ Ask \/ Await \/ Look

CollectorNext == Processes \/ Requests \/ Holder

\* Nothing keeps the holder of the lock from going on; the processes need not.
CollectorSpec == CollectorInit /\ [][CollectorNext]_collectorVars /\ WF_collectorVars(Holder)

-----------------------------------------------------------------------------
(***************************************************************************)
(* Properties.                                                             *)
(***************************************************************************)

CollectorTypeOK ==
  /\ proc \in [{"main", "logger"} -> {"none", "up", "asked", "gone", "stopped"}]
  /\ phase \in {"boot", "make", "serve"}
  /\ segment \in {"absent", "making", "served", "stale", "ruins"}
  /\ readers \in BOOLEAN /\ started \in BOOLEAN /\ fatal \in BOOLEAN
  /\ pc \in {"free", "attach", "make", "record", "check", "ask", "await", "look"}
  /\ req \in {"none", "stop_main", "record", "stop_logger", "look", "collect",
              "stop_all", "fatal"}
  /\ whom \in {"main", "logger"} /\ closed \in BOOLEAN
  /\ served \in BOOLEAN /\ leftover \in BOOLEAN
  /\ pc = "free" <=> req = "none"

\* When an error is on display nothing is left running behind it.
FatalMeansDown == pc = "free" /\ fatal => ~Runs("main") /\ ~Runs("logger")

\* The main application, whose end unlinks the segment, is asked to terminate
\* only when no logger runs.
LoggerStopsFirst ==
  [][proc["main"] = "up" /\ proc'["main"] = "asked" => ~Runs("logger")]_collectorVars

\* The readers belong to the running main application, unless it found a
\* segment of another one.
ReadyIsReal == readers /\ Runs("main") /\ ~leftover => served

\* A snapshot reports a main application that exited before its segment was
\* ready.
EarlyExitReported ==
  [][pc = "look" /\ pc' # "look" /\ proc["main"] = "gone" /\ started /\ ~served
       => fatal']_collectorVars

\* An exit is told from a stop: a main application that was stopped on request is never
\* reported as a failure, and a snapshot reports one that exited before its segment was
\* ready, unless it found the segment of another one.
ExitsAreToldApart ==
  [][/\ ~fatal /\ fatal' => proc["main"] # "stopped"
     /\ (pc = "look" /\ pc' # "look" /\ proc["main"] = "gone" /\ started /\ ~served /\ ~leftover)
          => fatal']_collectorVars

\* Whoever has the lock gives it back.
LockIsReleased == pc # "free" ~> pc = "free"
=============================================================================
