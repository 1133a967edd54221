------------------------- MODULE WebCollectorProofs --------------------------
(***************************************************************************)
(* The web collector.  Of its processes and its lock: what runs once an    *)
(* error is on display, whose segment the readers are attached to, who is  *)
(* stopped first, and which exits are reported.  Of Sensor, for any        *)
(* clients, any numbering and any bounds: its types, the cache of encoded  *)
(* frames, the order of the frames a page shows, and what the collector    *)
(* and a page count.                                                       *)
(***************************************************************************)
EXTENDS Integers, Collector, Sensor, FiniteSetTheorems, TLAPS

-----------------------------------------------------------------------------
(***************************************************************************)
(* The processes and the lock.                                             *)
(***************************************************************************)

AtStop == pc \in {"check", "ask", "await"}

\* What is left running once an error is noted.
Errors ==
  /\ pc \in {"attach", "make", "record"} => ~fatal
  /\ fatal => \/ ~Runs("main") /\ ~Runs("logger")
              \/ AtStop /\ req = "fatal"
              \/ AtStop /\ whom = "logger" /\ ~Runs("main")

\* Who is asked to terminate, and what has been stopped before.
Stopping ==
  /\ \A p \in {"main", "logger"} : proc[p] = "asked" => pc = "await" /\ whom = p
  /\ AtStop /\ whom = "main" => ~Runs("logger") /\ req \in {"stop_main", "stop_all", "fatal"}
  /\ req = "fatal" => AtStop /\ ~started
  /\ started /\ proc["main"] = "stopped" =>
       pc = "await" /\ whom = "main" /\ req \in {"stop_main", "stop_all"}

\* Whose segment the readers are attached to.
Attachment ==
  /\ Runs("main") /\ ~leftover =>
       /\ phase = "serve" <=> served
       /\ phase = "boot"  => segment = "absent"
       /\ phase = "make"  => segment = "making"
       /\ phase = "serve" => segment = "served"
  /\ pc = "make" => proc["main"] \in {"up", "gone"}
  /\ (readers \/ pc = "make") /\ ~leftover => served

CollectorInv == CollectorTypeOK /\ Errors /\ Stopping /\ Attachment

LEMMA StartsRight == CollectorInit => CollectorInv
BY DEF CollectorInit, CollectorInv, CollectorTypeOK, Errors, Stopping, Attachment, AtStop, Runs

\* The processes come up and go by themselves.
LEMMA ProcessesKeep ==
  ASSUME CollectorInv, Processes
  PROVE  CollectorInv'
<1> USE DEF CollectorInv, CollectorTypeOK, Errors, Stopping, Attachment, AtStop, Runs, Ended,
            procVars, stateVars, holderVars, historyVars
<1>1. CASE MainClears
  BY <1>1 DEF MainClears
<1>2. CASE MainServes
  BY <1>2 DEF MainServes
<1>3. CASE MainExits
  BY <1>3 DEF MainExits
<1>4. CASE MainCrashes
  BY <1>4 DEF MainCrashes, Abandon
<1>5. CASE LoggerEnds
  BY <1>5 DEF LoggerEnds
<1> QED BY <1>1, <1>2, <1>3, <1>4, <1>5 DEF Processes

\* Whoever takes the lock finds it free.
LEMMA RequestsKeep ==
  ASSUME CollectorInv, Requests
  PROVE  CollectorInv'
<1> USE DEF CollectorInv, CollectorTypeOK, Errors, Stopping, Attachment, AtStop, Runs,
            procVars, stateVars, holderVars, historyVars
<1>1. CASE StartMain
  <2>1. /\ pc = "free" /\ ~Runs("main") /\ fatal' = FALSE /\ readers' = FALSE
        /\ UNCHANGED <<segment, whom, closed>>
    BY <1>1 DEF StartMain
  <2>2. CASE /\ proc' = [proc EXCEPT !["main"] = "up"] /\ phase' = "boot" /\ started' = TRUE
             /\ pc' = "look" /\ req' = "look" /\ served' = FALSE
             /\ leftover' = (segment # "absent")
    <3>1. CollectorTypeOK' /\ Errors'
      BY <2>1, <2>2
    <3>2. Stopping' /\ Attachment'
      BY <2>1, <2>2
    <3> QED BY <3>1, <3>2
  <2>3. CASE /\ proc' = [proc EXCEPT !["main"] = "none"]
             /\ UNCHANGED <<phase, started, pc, req, historyVars>>
    <3>1. ~Runs("main")' /\ (Runs("logger")' <=> Runs("logger"))
      BY <2>3
    <3>2. CollectorTypeOK' /\ Errors'
      BY <2>1, <2>3, <3>1
    <3>3. Stopping' /\ Attachment'
      BY <2>1, <2>3, <3>1
    <3> QED BY <3>2, <3>3
  <2> QED BY <1>1, <2>2, <2>3 DEF StartMain
<1>2. CASE StopMain
  BY <1>2 DEF StopMain, Take
<1>3. CASE StartLogging
  BY <1>3 DEF StartLogging, Take
<1>4. CASE StopLogging
  BY <1>4 DEF StopLogging, Take
<1>5. CASE TakeSnapshot
  BY <1>5 DEF TakeSnapshot, Take
<1>6. CASE Collect
  BY <1>6 DEF Collect, Take
<1>7. CASE Close
  BY <1>7 DEF Close, Take
<1> QED BY <1>1, <1>2, <1>3, <1>4, <1>5, <1>6, <1>7 DEF Requests

\* How a request goes on when a process is stopped, or did not have to be: with the
\* main application, with a snapshot, with what stop_main_app and stop_all note, or
\* not at all.
GoesToMain == /\ whom = "logger" /\ req \in {"fatal", "stop_all"} /\ pc' = "check" /\ req' = req
              /\ whom' = "main" /\ readers' = readers /\ started' = started /\ fatal' = fatal
GoesToLook == /\ whom = "logger" /\ req = "stop_logger" /\ pc' = "look" /\ req' = req
              /\ whom' = whom /\ readers' = readers /\ started' = started /\ fatal' = fatal
MainIsDown == /\ whom = "main" /\ req \in {"stop_main", "stop_all"} /\ whom' = whom
              /\ started' = FALSE /\ readers' = FALSE /\ fatal' = fatal
              /\ \/ pc' = "look" /\ req' = req /\ req = "stop_main"
                 \/ pc' = "free" /\ req' = "none"
IsOver     == /\ whom = "logger" \/ req \notin {"stop_main", "stop_all"}
              /\ whom = "main" \/ req \notin {"fatal", "stop_all", "stop_logger"}
              /\ pc' = "free" /\ req' = "none" /\ whom' = whom
              /\ readers' = readers /\ started' = started /\ fatal' = fatal

LEMMA AfterStop ==
  ASSUME Done, whom \in {"main", "logger"}
  PROVE  GoesToMain \/ GoesToLook \/ MainIsDown \/ IsOver
<1>1. CASE whom = "logger" /\ req \in {"fatal", "stop_all"}
  BY <1>1 DEF Done, GoOn, GoesToMain, stateVars
<1>2. CASE whom = "logger" /\ req = "stop_logger"
  BY <1>2 DEF Done, GoOn, GoesToLook, stateVars
<1>3. CASE whom = "main" /\ req = "stop_main"
  BY <1>3 DEF Done, GoOn, MainIsDown
<1>4. CASE whom = "main" /\ req = "stop_all"
  BY <1>4 DEF Done, Release, MainIsDown
<1>5. CASE /\ whom = "logger" \/ req \notin {"stop_main", "stop_all"}
           /\ whom = "main" \/ req \notin {"fatal", "stop_all", "stop_logger"}
  BY <1>5 DEF Done, Release, IsOver, stateVars
<1> QED BY <1>1, <1>2, <1>3, <1>4, <1>5

\* The process that is stopped does not run any more, the other one is as it was.
LEMMA StopKeeps ==
  ASSUME CollectorInv, AtStop, Done, proc'[whom] \notin {"up", "asked"},
         UNCHANGED <<phase, closed, historyVars>>,
         proc' \in [{"main", "logger"} -> {"none", "up", "asked", "gone", "stopped"}],
         \A p \in {"main", "logger"} : proc'[p] # proc[p] => p = whom,
         segment' \in {"absent", "making", "served", "stale", "ruins"},
         whom = "logger" => segment' = segment
  PROVE  CollectorInv'
<1> USE DEF historyVars
<1>1. /\ CollectorTypeOK /\ Errors /\ Stopping /\ Attachment /\ whom \in {"main", "logger"}
      /\ readers \in BOOLEAN /\ pc \in {"check", "ask", "await"}
  BY DEF CollectorInv, CollectorTypeOK, AtStop
<1>2. /\ \A p \in {"main", "logger"} : proc'[p] # "asked"
      /\ Runs("main")' => Runs("main") /\ whom = "logger"
      /\ Runs("logger")' => Runs("logger") /\ whom = "main"
  <2>1. \A p \in {"main", "logger"} : proc'[p] # "asked"
    BY <1>1 DEF Stopping
  <2>2. \A p \in {"main", "logger"} : proc'[p] = "up" => proc[p] = "up" /\ whom # p
    BY <1>1
  <2> QED BY <1>1, <2>1, <2>2 DEF Runs
<1>3. pc' \in {"check", "look", "free"} /\ readers' \in {readers, FALSE}
  <2>1. GoesToMain \/ GoesToLook \/ MainIsDown \/ IsOver
    BY <1>1, AfterStop
  <2> QED BY <2>1 DEF GoesToMain, GoesToLook, MainIsDown, IsOver
<1>4. Attachment'
  <2>1. phase' = phase /\ served' = served /\ leftover' = leftover
    OBVIOUS
  <2>2. Runs("main")' /\ ~leftover' =>
          /\ phase' = "serve" <=> served'
          /\ phase' = "boot"  => segment' = "absent"
          /\ phase' = "make"  => segment' = "making"
          /\ phase' = "serve" => segment' = "served"
    BY <1>1, <1>2, <2>1 DEF Attachment
  <2>3. (readers \/ pc = "make") /\ ~leftover => served
    BY <1>1 DEF Attachment
  <2>4. pc' # "make"
    BY <1>3
  <2>5. readers' => readers
    BY <1>3, Zenon
  <2>6. (readers' \/ pc' = "make") /\ ~leftover' => served'
    <3>1. (served' <=> served) /\ (leftover' <=> leftover)
      BY <2>1
    <3> QED BY <2>3, <2>4, <2>5, <3>1, Zenon
  <2> QED BY <2>2, <2>4, <2>6 DEF Attachment
<1>5. ASSUME GoesToMain PROVE CollectorTypeOK' /\ Errors' /\ Stopping'
  <2>1. CollectorTypeOK'
    BY <1>1, <1>5 DEF CollectorTypeOK, GoesToMain
  <2>2. Errors'
    <3>1. ~Runs("logger")'
      BY <1>2, <1>5 DEF GoesToMain
    <3>2. fatal => ~Runs("main") \/ req = "fatal"
      BY <1>1, <1>5 DEF Errors, GoesToMain
    <3>3. /\ pc' = "check" /\ whom' = "main" /\ req' = req /\ (fatal' <=> fatal)
          /\ fatal => ~Runs("main")' \/ req = "fatal"
      BY <1>2, <1>5, <3>2 DEF GoesToMain
    <3> QED BY <3>1, <3>3 DEF Errors, AtStop
  <2>3. Stopping'
    <3>1. ~Runs("logger")'
      BY <1>2, <1>5 DEF GoesToMain
    <3> QED BY <1>1, <1>2, <1>5, <3>1 DEF Stopping, AtStop, GoesToMain
  <2> QED BY <2>1, <2>2, <2>3
<1>6. ASSUME GoesToLook PROVE CollectorTypeOK' /\ Errors' /\ Stopping'
  <2>1. CollectorTypeOK'
    BY <1>1, <1>6 DEF CollectorTypeOK, GoesToLook
  <2>2. Errors'
    <3>1. fatal' => ~Runs("main") /\ ~Runs("main")' /\ ~Runs("logger")'
      BY <1>1, <1>2, <1>6 DEF Errors, GoesToLook
    <3> QED BY <1>6, <3>1 DEF Errors, GoesToLook
  <2>3. Stopping'
    BY <1>1, <1>2, <1>6 DEF Stopping, AtStop, GoesToLook
  <2> QED BY <2>1, <2>2, <2>3
<1>7. ASSUME MainIsDown PROVE CollectorTypeOK' /\ Errors' /\ Stopping'
  <2>1. CollectorTypeOK'
    BY <1>1, <1>7 DEF CollectorTypeOK, MainIsDown
  <2>2. Errors'
    BY <1>1, <1>2, <1>7 DEF Errors, Stopping, AtStop, MainIsDown
  <2>3. Stopping'
    BY <1>1, <1>2, <1>7 DEF Stopping, AtStop, MainIsDown
  <2> QED BY <2>1, <2>2, <2>3
<1>8. ASSUME IsOver PROVE CollectorTypeOK' /\ Errors' /\ Stopping'
  <2>1. CollectorTypeOK'
    BY <1>1, <1>8 DEF CollectorTypeOK, IsOver
  <2>2. Errors'
    <3>1. whom = "main" => ~Runs("logger")
      BY <1>1 DEF Stopping, AtStop
    <3>2. fatal /\ whom = "logger" => ~Runs("main")
      BY <1>1, <1>8 DEF Errors, IsOver
    <3>3. fatal' => ~Runs("main")' /\ ~Runs("logger")'
      BY <1>1, <1>2, <1>8, <3>1, <3>2 DEF IsOver
    <3> QED BY <1>8, <3>3 DEF Errors, IsOver
  <2>3. Stopping'
    BY <1>1, <1>2, <1>8 DEF Stopping, AtStop, IsOver
  <2> QED BY <2>1, <2>2, <2>3
<1> QED BY <1>1, <1>4, <1>5, <1>6, <1>7, <1>8, AfterStop DEF CollectorInv

\* What the holder of the lock does, up to its release.
LEMMA HolderKeeps ==
  ASSUME CollectorInv, Holder
  PROVE  CollectorInv'
<1> USE DEF procVars, stateVars, holderVars, historyVars
<1>1. CASE Attach
  <2>1. /\ pc = "attach" /\ ~fatal /\ req # "fatal" /\ ~AtStop'
        /\ \/ pc' = "make" /\ req' = req /\ Runs("main") /\ segment \in {"served", "stale"}
           \/ pc' = "record" /\ req' = req
           \/ pc' = "free" /\ req' = "none"
    BY <1>1 DEF Attach, Attached, Release, GoOn, CollectorInv, CollectorTypeOK, Errors, Stopping, AtStop
  <2>2. UNCHANGED <<procVars, segment, stateVars, whom, closed, historyVars>>
    BY <1>1 DEF Attach
  <2> QED
    BY <2>1, <2>2 DEF CollectorInv, CollectorTypeOK, Errors, Stopping, Attachment, AtStop, Runs
<1>2. CASE MakeReaders
  <2>1. pc = "make" /\ ~fatal /\ req # "fatal" /\ (~leftover => served)
    BY <1>2 DEF MakeReaders, CollectorInv, Errors, Stopping, AtStop, Attachment
  <2>2. \/ /\ readers' = TRUE /\ UNCHANGED <<started, fatal, whom>>
           /\ \/ pc' = "record" /\ req' = req
              \/ pc' = "free" /\ req' = "none"
        \/ /\ readers' = FALSE /\ started' = FALSE /\ fatal' = TRUE
           /\ req' = "fatal" /\ pc' = "check" /\ whom' = "logger"
    BY <1>2 DEF MakeReaders, Attached, Release, GoOn
  <2>3. UNCHANGED <<procVars, segment, closed, historyVars>>
    BY <1>2 DEF MakeReaders
  <2>4. CollectorTypeOK'
    <3>1. CollectorTypeOK
      BY DEF CollectorInv
    <3>2. CASE /\ readers' = TRUE /\ UNCHANGED <<started, fatal, whom>>
               /\ \/ pc' = "record" /\ req' = req
                  \/ pc' = "free" /\ req' = "none"
      BY <2>1, <2>3, <3>1, <3>2 DEF CollectorTypeOK
    <3>3. CASE /\ readers' = FALSE /\ started' = FALSE /\ fatal' = TRUE
               /\ req' = "fatal" /\ pc' = "check" /\ whom' = "logger"
      BY <2>3, <3>1, <3>3 DEF CollectorTypeOK
    <3> QED BY <2>2, <3>2, <3>3
  <2>5. Errors'
    BY <2>1, <2>2, <2>3 DEF Errors, AtStop
  <2>6. Stopping'
    BY <2>1, <2>2, <2>3 DEF CollectorInv, Stopping, AtStop, Runs
  <2>7. Attachment'
    BY <2>1, <2>2, <2>3 DEF CollectorInv, Attachment, Runs
  <2> QED BY <2>4, <2>5, <2>6, <2>7 DEF CollectorInv
<1>3. CASE Record
  <2>1. /\ pc = "record" /\ ~fatal /\ req # "fatal"
        /\ \/ proc' = [proc EXCEPT !["logger"] = "up"] /\ pc' = "look" /\ req' = req
           \/ pc' = "free" /\ req' = "none" /\ proc' = proc
    BY <1>3 DEF Record, Release, GoOn, CollectorInv, Errors, Stopping, AtStop
  <2>2. UNCHANGED <<phase, segment, stateVars, whom, closed, historyVars>>
    BY <1>3 DEF Record
  <2> QED
    BY <2>1, <2>2 DEF CollectorInv, CollectorTypeOK, Errors, Stopping, Attachment, AtStop, Runs
<1>4. CASE Check
  <2>1. pc = "check" /\ UNCHANGED <<procVars, segment, closed, historyVars>>
    BY <1>4 DEF Check
  <2>2. CASE Runs(whom)
    <3>1. pc' = "ask" /\ req' = req /\ UNCHANGED <<whom, stateVars>>
      BY <1>4, <2>2 DEF Check, GoOn
    <3> QED
      BY <2>1, <3>1 DEF CollectorInv, CollectorTypeOK, Errors, Stopping, Attachment, AtStop, Runs
  <2>3. CASE ~Runs(whom)
    <3>1. Done /\ AtStop
      BY <1>4, <2>1, <2>3 DEF Check, AtStop
    <3> QED BY <2>1, <2>3, <3>1, StopKeeps DEF Runs, CollectorInv, CollectorTypeOK
  <2> QED BY <2>2, <2>3
<1>5. CASE Ask
  <2>1. pc = "ask" /\ AtStop /\ UNCHANGED <<phase, segment, closed, historyVars>>
    BY <1>5 DEF Ask, AtStop
  <2>2. CASE Runs(whom)
    <3>1. /\ proc' = [proc EXCEPT ![whom] = "asked"] /\ pc' = "await" /\ req' = req
          /\ UNCHANGED <<whom, stateVars>>
      BY <1>5, <2>2 DEF Ask, GoOn
    <3>2. AtStop'
      BY <3>1 DEF AtStop
    <3>3. CollectorTypeOK' /\ Errors'
      <4>1. CollectorTypeOK'
        BY <2>1, <2>2, <3>1 DEF CollectorInv, CollectorTypeOK
      <4>2. \A p \in {"main", "logger"} : Runs(p)' => Runs(p)
        BY <2>2, <3>1 DEF CollectorInv, CollectorTypeOK, Runs
      <4>3. fatal' => fatal
        BY <3>1
      <4> QED
        BY <2>1, <3>1, <3>2, <4>1, <4>2, <4>3 DEF CollectorInv, Errors
    <3>4. Stopping'
      BY <2>1, <2>2, <3>1, <3>2 DEF CollectorInv, CollectorTypeOK, Stopping, AtStop, Runs
    <3>5. Attachment'
      BY <2>1, <2>2, <3>1, <3>2 DEF CollectorInv, CollectorTypeOK, Attachment, Runs
    <3> QED BY <3>3, <3>4, <3>5 DEF CollectorInv
  <2>3. CASE ~Runs(whom) /\ req = "fatal"
    <3>1. Done /\ proc' = proc
      BY <1>5, <2>3 DEF Ask
    <3> QED BY <2>1, <2>3, <3>1, StopKeeps DEF Runs, CollectorInv, CollectorTypeOK
  <2>4. CASE ~Runs(whom) /\ req # "fatal"
    <3>1. pc' = "free" /\ req' = "none" /\ UNCHANGED <<whom, stateVars, proc>>
      BY <1>5, <2>4 DEF Ask, Release
    <3>2. CollectorTypeOK' /\ Errors'
      BY <2>1, <2>4, <3>1 DEF CollectorInv, CollectorTypeOK, Errors, AtStop, Runs
    <3>3. Stopping'
      BY <2>1, <2>4, <3>1 DEF CollectorInv, CollectorTypeOK, Stopping, AtStop, Runs
    <3>4. Attachment'
      BY <2>1, <3>1 DEF CollectorInv, Attachment, Runs
    <3> QED BY <3>2, <3>3, <3>4 DEF CollectorInv
  <2> QED BY <2>2, <2>3, <2>4
<1>6. CASE Await
  <2>1. pc = "await" /\ AtStop /\ Done /\ UNCHANGED <<phase, closed, historyVars>>
    BY <1>6 DEF Await, AtStop
  <2>2. CASE ~Runs(whom) /\ UNCHANGED <<proc, segment>>
    BY <2>1, <2>2, StopKeeps DEF Runs, CollectorInv, CollectorTypeOK
  <2>3. CASE /\ Runs(whom) /\ Ended(whom)
             /\ IF whom = "main" THEN Abandon ELSE UNCHANGED segment
    <3>1. /\ proc' \in [{"main", "logger"} -> {"none", "up", "asked", "gone", "stopped"}]
          /\ proc'[whom] \in {"gone", "stopped"}
          /\ \A p \in {"main", "logger"} : proc'[p] # proc[p] => p = whom
      BY <2>3 DEF Ended, CollectorInv, CollectorTypeOK
    <3>2. /\ segment' \in {"absent", "making", "served", "stale", "ruins"}
          /\ whom = "logger" => segment' = segment
      BY <2>3 DEF Abandon, CollectorInv, CollectorTypeOK
    <3> QED BY <2>1, <3>1, <3>2, StopKeeps
  <2> QED BY <1>6, <2>2, <2>3 DEF Await
<1>7. CASE Look
  <2>1. pc = "look" /\ UNCHANGED <<procVars, segment, readers, started, closed, historyVars>>
    BY <1>7 DEF Look
  <2>2. req # "fatal"
    BY <2>1 DEF CollectorInv, Stopping, AtStop
  <2>3. \/ /\ ~Runs("main") /\ fatal' = TRUE /\ Runs("logger")
           /\ pc' = "ask" /\ req' = req /\ whom' = "logger"
        \/ /\ ~Runs("main") /\ fatal' = TRUE /\ ~Runs("logger")
           /\ pc' = "free" /\ req' = "none" /\ whom' = whom
        \/ /\ pc' = "free" /\ req' = "none" /\ UNCHANGED <<fatal, whom>>
    BY <1>7 DEF Look, Release, GoOn
  <2>4. CollectorTypeOK'
    <3>1. fatal' \in BOOLEAN
      BY <2>3 DEF CollectorInv, CollectorTypeOK
    <3>2. /\ pc' \in {"ask", "free"} /\ whom' \in {"main", "logger"} /\ (pc' = "free" <=> req' = "none")
          /\ req' \in {req, "none"}
      BY <2>1, <2>3 DEF CollectorInv, CollectorTypeOK
    <3> QED BY <2>1, <3>1, <3>2 DEF CollectorInv, CollectorTypeOK
  <2>5. Errors'
    BY <2>1, <2>3 DEF CollectorInv, Errors, AtStop, Runs
  <2>6. Stopping'
    BY <2>1, <2>2, <2>3 DEF CollectorInv, Stopping, AtStop, Runs
  <2>7. Attachment'
    BY <2>1, <2>3 DEF CollectorInv, Attachment, Runs
  <2> QED BY <2>4, <2>5, <2>6, <2>7 DEF CollectorInv
<1> QED BY <1>1, <1>2, <1>3, <1>4, <1>5, <1>6, <1>7 DEF Holder

LEMMA CollectorKeeps == CollectorInv /\ [CollectorNext]_collectorVars => CollectorInv'
<1> SUFFICES ASSUME CollectorInv, [CollectorNext]_collectorVars PROVE CollectorInv'
  OBVIOUS
<1>1. CASE UNCHANGED collectorVars
  <2> USE <1>1 DEF collectorVars, procVars, stateVars, holderVars, historyVars, CollectorInv
  <2>1. CollectorTypeOK'
    BY DEF CollectorTypeOK
  <2>2. Errors' /\ Stopping'
    BY DEF Errors, Stopping, AtStop, Runs
  <2>3. Attachment'
    BY DEF Attachment, Runs
  <2> QED BY <2>1, <2>2, <2>3
<1> QED
  BY <1>1, ProcessesKeep, RequestsKeep, HolderKeeps DEF CollectorNext

LEMMA CollectorAlways == CollectorSpec => []CollectorInv
BY StartsRight, CollectorKeeps, PTL DEF CollectorSpec

\* The state of the collector keeps to its types; the lock is free exactly while
\* nobody has anything to do.
THEOREM CollectorTypeCorrect == CollectorSpec => []CollectorTypeOK
<1>1. CollectorInv => CollectorTypeOK
  BY DEF CollectorInv
<1> QED BY <1>1, CollectorAlways, PTL

\* Once an error is on display and the lock is free, neither process runs: whoever
\* notes the error stops the logger, and the main application if it still runs.
THEOREM ErrorLeavesNothing == CollectorSpec => []FatalMeansDown
<1>1. CollectorInv => FatalMeansDown
  BY DEF CollectorInv, Errors, AtStop, FatalMeansDown
<1> QED BY <1>1, CollectorAlways, PTL

\* Readers are never attached to the segment of an earlier main application, but
\* where the present one has found one of another life.
THEOREM ReadersAreCurrent == CollectorSpec => []ReadyIsReal
<1>1. CollectorInv => ReadyIsReal
  BY DEF CollectorInv, Attachment, ReadyIsReal
<1> QED BY <1>1, CollectorAlways, PTL

\* No request and no error asks the main application to terminate while a logger
\* reads its segment.
THEOREM LoggerIsStopped == CollectorSpec => LoggerStopsFirst
<1> DEFINE First == proc["main"] = "up" /\ proc'["main"] = "asked" => ~Runs("logger")
<1>1. ASSUME CollectorInv, [CollectorNext]_collectorVars PROVE [First]_collectorVars
  <2> SUFFICES ASSUME CollectorNext, proc["main"] = "up", proc'["main"] = "asked"
               PROVE  ~Runs("logger")
    BY <1>1
  <2>1. Ask /\ whom = "main"
    <3> USE DEF procVars, stateVars, holderVars, historyVars, CollectorInv, CollectorTypeOK
    <3>1. ~ Processes
      BY <1>1 DEF Processes, MainClears, MainServes, MainExits, MainCrashes, LoggerEnds, Ended
    <3>2. ~ Requests
      BY <1>1 DEF Requests, StartMain, StopMain, StartLogging, StopLogging, TakeSnapshot, Collect,
                  Close, Take
    <3>3. ~ (Attach \/ MakeReaders \/ Record \/ Check \/ Look)
      BY <1>1 DEF Attach, MakeReaders, Record, Check, Look
    <3>5. ~ Await
      BY <1>1 DEF Await, Ended
    <3>4. Ask => whom = "main"
      BY <1>1 DEF Ask
    <3> QED BY <3>1, <3>2, <3>3, <3>4, <3>5 DEF CollectorNext, Holder
  <2> QED BY <1>1, <2>1 DEF CollectorInv, Stopping, AtStop, Ask
<1>2. CollectorSpec => [][First]_collectorVars
  BY <1>1, CollectorAlways, PTL DEF CollectorSpec
<1> QED BY <1>2 DEF LoggerStopsFirst

\* A stop that was asked for is never shown as a failure, and an exit before the segment
\* was ready is, unless there was one of another main application.
THEOREM ExitsAreKnown == CollectorSpec => ExitsAreToldApart
<1> DEFINE Apart ==
      /\ ~fatal /\ fatal' => proc["main"] # "stopped"
      /\ (pc = "look" /\ pc' # "look" /\ proc["main"] = "gone" /\ started /\ ~served /\ ~leftover)
           => fatal'
<1>1. ASSUME CollectorInv, [CollectorNext]_collectorVars PROVE [Apart]_collectorVars
  <2> SUFFICES ASSUME CollectorNext PROVE Apart
    BY <1>1
  <2> USE DEF procVars, stateVars, holderVars, historyVars
  <2>1. ~fatal /\ fatal' => pc = "make" \/ (Look /\ started)
    <3>1. Processes /\ fatal' => fatal
      BY DEF Processes, MainClears, MainServes, MainExits, MainCrashes, LoggerEnds
    <3>2. Requests /\ fatal' => fatal
      BY DEF Requests, StartMain, StopMain, StartLogging, StopLogging, TakeSnapshot, Collect,
             Close, Take
    <3>3. (Attach \/ Record \/ Check \/ Ask \/ Await) /\ fatal' => fatal
      BY DEF Attach, Record, Check, Ask, Await, Done
    <3>4. MakeReaders => pc = "make"
      BY DEF MakeReaders
    <3>5. Look /\ fatal' => fatal \/ started
      BY DEF Look
    <3>6. \/ Processes \/ Requests \/ MakeReaders \/ Look
          \/ Attach \/ Record \/ Check \/ Ask \/ Await
      BY DEF CollectorNext, Holder
    <3> QED BY <3>1, <3>2, <3>3, <3>4, <3>5, <3>6
  <2>2. ~fatal /\ fatal' => proc["main"] # "stopped"
    <3>1. Look => pc = "look"
      BY DEF Look
    <3> QED BY <1>1, <2>1, <3>1 DEF CollectorInv, Attachment, Stopping
  <2>3. ASSUME pc = "look", pc' # "look", proc["main"] = "gone", started, ~served, ~leftover
        PROVE  fatal'
    <3>1. ~readers /\ ~Runs("main")
      BY <1>1, <2>3 DEF CollectorInv, Attachment, Runs
    <3>2. Look
      <4>1. ~ Processes
        BY <2>3 DEF Processes, MainClears, MainServes, MainExits, MainCrashes, LoggerEnds
      <4>2. ~ Requests
        BY <2>3 DEF Requests, StartMain, StopMain, StartLogging, StopLogging, TakeSnapshot, Collect,
                    Close, Take
      <4>3. ~ (Attach \/ MakeReaders \/ Record \/ Check \/ Ask \/ Await)
        BY <2>3 DEF Attach, MakeReaders, Record, Check, Ask, Await
      <4> QED BY <4>1, <4>2, <4>3 DEF CollectorNext, Holder
    <3>3. fatal \in BOOLEAN
      BY <1>1 DEF CollectorInv, CollectorTypeOK
    <3> QED BY <2>3, <3>1, <3>2, <3>3 DEF Look
  <2> QED BY <2>2, <2>3
<1>2. CollectorSpec => [][Apart]_collectorVars
  BY <1>1, CollectorAlways, PTL DEF CollectorSpec
<1> QED BY <1>2 DEF ExitsAreToldApart

-----------------------------------------------------------------------------
(***************************************************************************)
(* The sensors and the pages.                                              *)
(***************************************************************************)

USE KindAssumption, ClientAssumption, NumberAssumption, NoneAssumption, RingAssumption

LEMMA RemainderIsNumber ==
  ASSUME NEW n \in Nat
  PROVE  n % Word \in Numbers
BY DEF Numbers

LEMMA InitTypeOK == Init => TypeOK
<1> SUFFICES ASSUME Init PROVE TypeOK
  OBVIOUS
<1>1. made \in Frames
  BY DEF Init, Frames, Numbers
<1>2. sensor \in Sensors /\ payload \in Payloads
  BY DEF Init, Sensors, Payloads, NoSensor, NoPayload, NumberOrNone, CountOrNone, FrameOrNone
<1>3. request \in [Clients -> RequestSet]
  <2>1. Idle \in RequestSet /\ [Idle EXCEPT !.at = "asked"] \in RequestSet
    BY DEF Idle, RequestSet, NumberOrNone, FrameOrNone
  <2> QED BY <2>1 DEF Init, Rest
<1>4. summary \in [Pages -> Summaries] /\ card \in [Pages -> Cards]
  BY DEF Init, NoSummary, NewCard, Summaries, Cards, NumberOrNone
<1>5. /\ newest \in FrameOrNone /\ head \in 0..NumFrames - 1 /\ aside \in FrameOrNone
      /\ image \in [Pages -> FrameOrNone]
  BY DEF Init, FrameOrNone
<1>6. /\ answers \in [Pages -> SUBSET Snapshots] /\ kind \in Kinds /\ restarts \in Nat
      /\ stats \in Nat /\ first \in NumberOrNone /\ wentBack \in Int
      /\ counted \in [Pages -> SUBSET Numbers] /\ astray \subseteq Pages
  BY DEF Init, NumberOrNone
<1> QED BY <1>1, <1>2, <1>3, <1>4, <1>5, <1>6 DEF TypeOK

LEMMA PublishTypes == ASSUME TypeOK, Publish PROVE TypeOK'
<1>1. PICK gap \in Gaps, tick \in Ticks :
        LET next == (made.sequence + gap) % Word IN
        made' = [id |-> made.id + 1, sequence |-> next, time |-> made.time + tick,
                 round |-> IF next <= made.sequence THEN made.round + 1 ELSE made.round]
  BY DEF Publish
<1>2. made.id \in Nat /\ made.sequence \in Nat /\ made.time \in Nat /\ made.round \in Nat
  BY DEF TypeOK, Frames, Numbers
<1> DEFINE next  == (made.sequence + gap) % Word
           round == IF next <= made.sequence THEN made.round + 1 ELSE made.round
<1>3. made' = [id |-> made.id + 1, sequence |-> next, time |-> made.time + tick, round |-> round]
  BY <1>1
<1>4. tick \in Nat /\ gap \in Nat
  BY DEF Ticks
<1>5. next \in Numbers
  <2>1. made.sequence + gap \in Nat
    BY <1>2, <1>4
  <2> QED BY <2>1, RemainderIsNumber, Zenon
<1>6. round \in Nat
  BY <1>2
<1> HIDE DEF next, round
<1>7. made' \in Frames
  BY <1>2, <1>3, <1>4, <1>5, <1>6 DEF Frames
<1>8. newest' \in FrameOrNone /\ aside' \in FrameOrNone
  BY <1>7 DEF TypeOK, Publish, FrameOrNone
<1>9. head' \in 0..NumFrames - 1
  <2>1. head + 1 \in Nat
    BY DEF TypeOK
  <2> QED BY <2>1 DEF Publish
<1> QED BY <1>7, <1>8, <1>9
        DEF TypeOK, Publish, sensorVars, countVars, summaryVars, pageVars, cardVars

LEMMA RestartTypes == ASSUME TypeOK, Restart PROVE TypeOK'
<1>1. made' \in Frames
  <2>1. made.round + 1 \in Nat
    BY DEF TypeOK, Frames
  <2>2. 0 \in Numbers
    BY DEF Numbers
  <2> QED BY <2>1, <2>2 DEF TypeOK, Restart, Frames
<1>2. sensor' \in Sensors /\ payload' \in Payloads /\ first' \in NumberOrNone
  BY DEF Restart, Sensors, Payloads, NoSensor, NoPayload, NumberOrNone, CountOrNone, FrameOrNone
<1>3. /\ newest' \in FrameOrNone /\ head' \in 0..NumFrames - 1 /\ aside' \in FrameOrNone
      /\ restarts' \in Nat /\ stats' \in Nat /\ wentBack' \in Int /\ astray' \subseteq Pages
  BY DEF TypeOK, Restart, FrameOrNone
<1> QED BY <1>1, <1>2, <1>3 DEF TypeOK, Restart, pageVars, cardVars

\* What the collector's thread reads.
LEMMA ReadTypes ==
  ASSUME TypeOK, Reads
  PROVE  Latest \in Frames /\ Latest.sequence \in Numbers /\ Seen \in Sensors
BY DEF TypeOK, Reads, Latest, FrameOrNone, Frames, Seen, Sensors, NumberOrNone, CountOrNone

\* A number that does not go back has a distance from the one before.
LEMMA PassedType ==
  ASSUME TypeOK, Reads, ~GoesBack
  PROVE  Passed \in CountOrNone
<1>1. Latest.sequence \in Numbers
  BY ReadTypes
<1>2. CASE sensor.sequence = None
  BY <1>2 DEF Passed, CountOrNone
<1>3. CASE sensor.sequence # None
  <2>1. sensor.sequence \in Numbers
    BY <1>3 DEF TypeOK, Sensors, NumberOrNone
  <2>2. Latest.sequence >= sensor.sequence
    BY <1>1, <1>3, <2>1 DEF GoesBack, Numbers
  <2> QED BY <1>1, <1>3, <2>1, <2>2 DEF Passed, CountOrNone, Numbers
<1> QED BY <1>2, <1>3

LEMMA AddedType ==
  ASSUME NEW n \in Nat, NEW w \in CountOrNone
  PROVE  Added(n, w) \in Nat
BY DEF Added, CountOrNone

LEMMA UpdateTypes == ASSUME TypeOK, Update PROVE TypeOK'
<1>1. Latest \in Frames /\ Latest.sequence \in Numbers /\ Seen \in Sensors
  BY ReadTypes DEF Update
<1>2. Passed \in CountOrNone
  BY PassedType DEF Update
<1>3. payload' \in Payloads
  BY <1>1, <1>2 DEF Update, NoPayload, Payloads, FrameOrNone, NumberOrNone
<1>4. stats' \in Nat
  BY <1>2, AddedType DEF Update, CountsOn, TypeOK
<1>5. first' \in NumberOrNone
  BY <1>1 DEF Update, CountsOn, TypeOK, NumberOrNone
<1> QED BY <1>1, <1>3, <1>4, <1>5
        DEF Update, CountsOn, TypeOK, sourceVars, summaryVars, pageVars, cardVars

LEMMA UpdateGoesBackTypes == ASSUME TypeOK, UpdateGoesBack PROVE TypeOK'
<1>1. sensor' \in Sensors /\ Latest.sequence \in Numbers
  BY ReadTypes DEF UpdateGoesBack
<1>2. sensor.sequence \in Numbers
  BY DEF UpdateGoesBack, GoesBack, TypeOK, Sensors, NumberOrNone
<1>3. wentBack' \in Int /\ astray' \subseteq Pages
  BY <1>1, <1>2 DEF UpdateGoesBack, TypeOK, Numbers
<1> QED BY <1>1, <1>3 DEF UpdateGoesBack, TypeOK, sourceVars, pageVars, cardVars

\* Whatever a client is given, its request keeps its type.
LEMMA ServeTypes ==
  ASSUME TypeOK, NEW c \in Clients, NEW f \in FrameOrNone, Serve(c, f)
  PROVE  request' \in [Clients -> RequestSet]
<1>1. request[c] \in RequestSet
  BY DEF TypeOK
<1>2. [request[c] EXCEPT !.at = "answered", !.frame = f, !.sequence = None] \in RequestSet
  BY <1>1 DEF RequestSet, NumberOrNone
<1>3. Rest(c) \in RequestSet
  BY DEF Rest, Idle, RequestSet, NumberOrNone, FrameOrNone
<1> QED BY <1>2, <1>3 DEF Serve, TypeOK

LEMMA ServingTypes ==
  ASSUME TypeOK, NEW c \in Clients, Serving(c)
  PROVE  TypeOK'
<1> USE DEF ServerOnly, sourceVars, countVars, summaryVars, pageVars, cardVars
<1>1. CASE HasNone(c)
  <2>1. request' \in [Clients -> RequestSet]
    BY <1>1, ServeTypes DEF HasNone, FrameOrNone
  <2> QED BY <1>1, <2>1 DEF HasNone, TypeOK
<1>2. CASE ServeCached(c)
  <2>1. payload.encoded \in FrameOrNone
    BY DEF TypeOK, Payloads
  <2>2. request' \in [Clients -> RequestSet]
    BY <1>2, <2>1, ServeTypes DEF ServeCached
  <2> QED BY <1>2, <2>2 DEF ServeCached, TypeOK
<1>3. CASE TakeFrame(c)
  <2>1. payload.item \in FrameOrNone /\ sensor.sequence \in NumberOrNone
    BY DEF TypeOK, Payloads, Sensors
  <2>2. [request[c] EXCEPT !.at = "encoding", !.sequence = sensor.sequence,
                           !.frame = payload.item] \in RequestSet
    <3>1. request[c] \in RequestSet
      BY DEF TypeOK
    <3> QED BY <2>1, <3>1 DEF RequestSet
  <2>3. request' \in [Clients -> RequestSet]
    BY <1>3, <2>2 DEF TakeFrame, TypeOK
  <2> QED BY <1>3, <2>3 DEF TakeFrame, TypeOK
<1>4. CASE Encode(c)
  <2>1. request[c].frame \in FrameOrNone /\ request[c].sequence \in NumberOrNone
    BY DEF TypeOK, RequestSet
  <2>2. request' \in [Clients -> RequestSet]
    BY <1>4, <2>1, ServeTypes DEF Encode
  <2>3. [payload EXCEPT !.encoded = request[c].frame,
                        !.encodedFor = request[c].sequence] \in Payloads
    BY <2>1 DEF TypeOK, Payloads
  <2>4. payload' \in Payloads
    BY <1>4, <2>3 DEF Encode, TypeOK
  <2> QED BY <1>4, <2>2, <2>4 DEF Encode, TypeOK
<1> QED BY <1>1, <1>2, <1>3, <1>4 DEF Serving

LEMMA SummaryType ==
  ASSUME NEW old \in Summaries, NEW s \in Snapshots
  PROVE  SummaryAfter(old, s) \in Summaries
<1>1. /\ old.count \in Nat /\ old.last \in NumberOrNone
      /\ s.sequence \in NumberOrNone /\ s.samples \in CountOrNone
  BY DEF Summaries, Snapshots
<1>2. Added(old.count, s.samples) \in Nat /\ Added(0, s.samples) \in Nat
  BY <1>1, AddedType
<1>3. None \in NumberOrNone /\ 0 \in Nat
  BY DEF NumberOrNone
<1> QED BY <1>1, <1>2, <1>3 DEF SummaryAfter, Summaries

LEMMA PageTypes ==
  ASSUME TypeOK, NEW p \in Pages,
         Poll(p) \/ Apply(p) \/ PollFails(p) \/ AskFrame(p) \/ ShowFrame(p) \/ FrameFails(p)
  PROVE  TypeOK'
<1> USE DEF PageOnly, sourceVars, sensorVars, countVars, summaryVars, pageVars, cardVars
<1>1. CASE Poll(p)
  <2>1. Snapshot \in Snapshots
    BY DEF TypeOK, Snapshot, Snapshots, Sensors, Payloads
  <2>2. answers' \in [Pages -> SUBSET Snapshots]
    BY <1>1, <2>1 DEF Poll, TypeOK
  <2> QED BY <1>1, <2>2 DEF Poll, TypeOK
<1>2. CASE Apply(p)
  <2>1. PICK s \in answers[p] :
          /\ answers' = [answers EXCEPT ![p] = @ \ {s}]
          /\ summary' = [summary EXCEPT ![p] = SummaryAfter(@, s)]
          /\ card' = [card EXCEPT ![p].ready = s.ready, ![p].latest = s.sequence]
          /\ counted' = [counted EXCEPT ![p] = CountedAfter(summary[p], @, s)]
          /\ astray' = IF s.sequence = None /\ summary[p].last # None
                       THEN astray \cup {p} ELSE astray
    BY <1>2 DEF Apply
  <2>2. s \in Snapshots
    BY DEF TypeOK
  <2>3. answers' \in [Pages -> SUBSET Snapshots]
    BY <2>1 DEF TypeOK
  <2>4. summary' \in [Pages -> Summaries]
    BY <2>1, <2>2, SummaryType DEF TypeOK
  <2>5. card[p] \in Cards /\ s.ready \in BOOLEAN /\ s.sequence \in NumberOrNone
    BY <2>2 DEF TypeOK, Snapshots
  <2>6. [card[p] EXCEPT !.ready = s.ready, !.latest = s.sequence] \in Cards
    BY <2>5 DEF Cards
  <2>7. card' \in [Pages -> Cards]
    BY <2>1, <2>6 DEF TypeOK
  <2>8. counted' \in [Pages -> SUBSET Numbers] /\ astray' \subseteq Pages
    <3>1. counted[p] \subseteq Numbers
      BY DEF TypeOK
    <3>2. CountedAfter(summary[p], counted[p], s) \subseteq Numbers
      BY <3>1 DEF CountedAfter, CountedWith
    <3> QED BY <2>1, <3>2 DEF TypeOK
  <2> QED BY <1>2, <2>3, <2>4, <2>7, <2>8 DEF Apply, TypeOK
<1>3. CASE PollFails(p)
  <2>1. answers' \in [Pages -> SUBSET Snapshots]
    BY <1>3 DEF PollFails, TypeOK
  <2> QED BY <1>3, <2>1 DEF PollFails, TypeOK
<1>4. CASE AskFrame(p)
  <2>1. card[p].latest \in NumberOrNone /\ request[p] \in RequestSet
    BY DEF TypeOK, Cards
  <2>2. [request[p] EXCEPT !.at = "asked", !.asked = card[p].latest] \in RequestSet
    BY <2>1 DEF RequestSet
  <2>3. request' \in [Clients -> RequestSet]
    BY <1>4, <2>2 DEF AskFrame, TypeOK
  <2> QED BY <1>4, <2>3 DEF AskFrame, TypeOK
<1>5. Idle \in RequestSet
  BY DEF Idle, RequestSet, NumberOrNone, FrameOrNone
<1>6. CASE ShowFrame(p)
  <2>1. request' \in [Clients -> RequestSet]
    BY <1>5, <1>6 DEF ShowFrame, TypeOK
  <2>2. request[p].frame \in FrameOrNone /\ request[p].asked \in NumberOrNone
    BY DEF TypeOK, RequestSet
  <2>3. image' \in [Pages -> FrameOrNone]
    BY <1>6, <2>2 DEF ShowFrame, TypeOK
  <2>4. [card[p] EXCEPT !.rendered = request[p].asked] \in Cards
    BY <2>2 DEF TypeOK, Cards
  <2>5. card' \in [Pages -> Cards]
    BY <1>6, <2>4 DEF ShowFrame, TypeOK
  <2> QED BY <1>6, <2>1, <2>3, <2>5 DEF ShowFrame, TypeOK
<1>7. CASE FrameFails(p)
  <2>1. request' \in [Clients -> RequestSet]
    BY <1>5, <1>7 DEF FrameFails, TypeOK
  <2> QED BY <1>7, <2>1 DEF FrameFails, TypeOK
<1> QED BY <1>1, <1>2, <1>3, <1>4, <1>6, <1>7

LEMMA NextTypes == TypeOK /\ [Next]_vars => TypeOK'
<1> SUFFICES ASSUME TypeOK, [Next]_vars PROVE TypeOK'
  OBVIOUS
<1>1. CASE UNCHANGED vars
  BY <1>1 DEF TypeOK, vars, sourceVars, sensorVars, countVars, summaryVars, pageVars, cardVars
<1>2. CASE Next
  BY <1>2, PublishTypes, RestartTypes, UpdateTypes, UpdateGoesBackTypes, ServingTypes, PageTypes
     DEF Next, Sampling
<1> QED BY <1>1, <1>2

\* Every number is one of the device's numbers, every frame one that was published,
\* and the counts are counts, whatever is read, reset, served or lost in between.
THEOREM TypeCorrect == Spec => []TypeOK
BY InitTypeOK, NextTypes, PTL DEF Spec

-----------------------------------------------------------------------------
\* Served: what a client has been given, or is having encoded.
Held(c) == request[c].at \in {"encoding", "answered"} /\ request[c].frame # None

\* The frames the collector may read, and where it is: if it has read an older frame
\* than the one it has, that is the one in the wrong slot, or there is a newer one there.
SourceInOrder ==
  /\ newest # None => newest = made
  /\ aside # None => aside.id <= made.id
  /\ payload.item # None => payload.item.id <= made.id
  /\ sensor.sequence = None => payload.item = None
  /\ kind = "camera" =>
       /\ made.time = made.id
       /\ aside # None => aside.time = aside.id
       /\ payload.item # None =>
            \/ sensor.time # None /\ payload.item.id <= sensor.time
            \/ aside.id = sensor.time
            \/ payload.item.id < aside.id

\* No client has, or is about to have, a frame that is newer than f.
NoneAfter(f) ==
  /\ \A c \in Clients : Held(c) => request[c].frame.id <= f.id
  /\ \A p \in Pages : image[p] # None => image[p].id <= f.id

\* Where a frame may be, on its way from the device to a page, the earlier ones are.
FramesInOrder ==
  /\ NoneAfter(made)
  /\ payload.item # None => NoneAfter(payload.item)
  /\ payload.item = None => /\ newest # None => NoneAfter(newest)
                            /\ aside # None => NoneAfter(aside)
  /\ \A p \in Pages : image[p] # None /\ Held(p) => image[p].id <= request[p].frame.id
  /\ kind # "camera" => /\ \A c \in Clients : ~Held(c)
                        /\ \A p \in Pages : image[p] = None

\* The inductive invariant: the order of the images rests on the cache, and on where
\* the collector is.
Inv == TypeOK /\ CachedIsCurrent /\ SourceInOrder /\ FramesInOrder

\* The identities of the frames are numbers: what the order needs of the types.
LEMMA Identities ==
  ASSUME TypeOK
  PROVE  /\ made.id \in Nat
         /\ newest # None => newest.id \in Nat
         /\ aside # None => aside.id \in Nat /\ aside.time \in Nat
         /\ payload.item # None => payload.item.id \in Nat
         /\ sensor.time # None => sensor.time \in Nat
         /\ \A c \in Clients : request[c].frame # None => request[c].frame.id \in Nat
         /\ \A p \in Pages : image[p] # None => image[p].id \in Nat
BY DEF TypeOK, Frames, FrameOrNone, Payloads, RequestSet, Sensors, CountOrNone

LEMMA InitInv == Init => Inv
<1> SUFFICES ASSUME Init PROVE Inv
  OBVIOUS
<1>1. CachedIsCurrent /\ SourceInOrder
  BY DEF Init, NoPayload, CachedIsCurrent, SourceInOrder
<1>2. \A c \in Clients : ~Held(c)
  BY DEF Init, Held, Rest, Idle
<1>3. FramesInOrder
  BY <1>2 DEF Init, NoPayload, FramesInOrder, NoneAfter
<1> QED BY <1>1, <1>3, InitTypeOK DEF Inv

\* What is no newer than one frame is no newer than a later one.
LEMMA NoneAfterLater ==
  ASSUME TypeOK, NEW f, NEW g, f.id \in Nat, g.id \in Nat, f.id <= g.id, NoneAfter(f)
  PROVE  NoneAfter(g)
<1>1. \A c \in Clients : Held(c) => request[c].frame.id \in Nat
  BY Identities DEF Held
<1>2. \A p \in Pages : image[p] # None => image[p].id \in Nat
  BY Identities
<1> QED BY <1>1, <1>2 DEF NoneAfter

\* What is published is newer than all there is.
LEMMA PublishKeepsOrder ==
  ASSUME Inv, Publish
  PROVE  CachedIsCurrent' /\ SourceInOrder' /\ FramesInOrder'
<1>1. /\ made'.id = made.id + 1 /\ newest' = made'
      /\ aside' = made' \/ aside' = aside
      /\ UNCHANGED <<kind, sensor, payload, request, image>>
  BY DEF Publish, sensorVars, cardVars
<1>2. kind = "camera" => made'.time = made.time + 1
  BY DEF Publish, Ticks
<1>3. /\ made.id \in Nat /\ made'.id \in Nat /\ made'.id > made.id
      /\ aside # None => aside.id \in Nat
      /\ payload.item # None => payload.item.id \in Nat
      /\ sensor.time # None => sensor.time \in Nat
  BY <1>1, Identities DEF Inv
<1>4. SourceInOrder'
  <2>1. /\ aside' # None => aside'.id <= made'.id
        /\ payload'.item # None => payload'.item.id < made'.id
    BY <1>1, <1>3 DEF Inv, SourceInOrder
  <2>2. kind = "camera" => made'.time = made'.id /\ (aside' # None => aside'.time = aside'.id)
    BY <1>1, <1>2 DEF Inv, SourceInOrder
  <2> QED BY <1>1, <1>3, <2>1, <2>2 DEF Inv, SourceInOrder
<1>5. NoneAfter(made') /\ NoneAfter(made)
  BY <1>1, <1>3, NoneAfterLater DEF Inv, FramesInOrder
<1>6. \A c \in Clients : Held(c)' = Held(c)
  BY <1>1 DEF Held
<1>7. ASSUME NEW f, NoneAfter(f)
      PROVE  (\A c \in Clients : Held(c)' => request'[c].frame.id <= f.id)
             /\ (\A p \in Pages : image'[p] # None => image'[p].id <= f.id)
  BY <1>1, <1>6, <1>7 DEF NoneAfter
<1>8. FramesInOrder'
  BY <1>1, <1>5, <1>6, <1>7 DEF Inv, FramesInOrder, NoneAfter
<1> QED BY <1>1, <1>4, <1>8 DEF Inv, CachedIsCurrent

LEMMA RestartKeepsOrder ==
  ASSUME Inv, Restart
  PROVE  CachedIsCurrent' /\ SourceInOrder' /\ FramesInOrder'
<1>1. /\ made'.id = made.id /\ made'.time = made.time /\ newest' = None /\ aside' = None
      /\ payload'.item = None /\ payload'.encoded = None
      /\ UNCHANGED <<kind, request, image>>
  BY DEF Restart, NoPayload, Inv, TypeOK, Frames, cardVars
<1>2. \A c \in Clients : Held(c)' = Held(c)
  BY <1>1 DEF Held
<1>3. CachedIsCurrent' /\ SourceInOrder'
  BY <1>1 DEF Inv, CachedIsCurrent, SourceInOrder
<1> QED BY <1>1, <1>2, <1>3 DEF Inv, FramesInOrder, NoneAfter

\* What is accepted is no older than what there is, though it may not be the newest.
LEMMA AcceptsLater ==
  ASSUME Inv, Reads, ~GoesBack, kind = "camera"
  PROVE  NoneAfter(Latest)
<1>1. /\ Latest = newest \/ Latest = aside
      /\ Latest # None /\ Latest.id \in Nat /\ Latest.time \in Nat /\ made.id \in Nat
  BY ReadTypes, Identities DEF Inv, Latest, Reads, Frames
<1>2. CASE payload.item = None
  BY <1>1, <1>2 DEF Inv, FramesInOrder
<1>3. CASE payload.item # None
  <2>1. sensor.sequence # None /\ ~(Latest.time <= sensor.time)
    BY <1>3 DEF Inv, SourceInOrder, GoesBack
  <2>2. payload.item.id \in Nat /\ (sensor.time # None => sensor.time \in Nat)
    BY <1>3, Identities DEF Inv
  <2>3. payload.item.id <= Latest.id
    <3>1. CASE Latest = newest
      BY <1>1, <1>3, <3>1 DEF Inv, SourceInOrder
    <3>2. CASE Latest = aside
      <4>1. aside.time = aside.id
        BY <1>1, <3>2 DEF Inv, SourceInOrder
      <4>2. CASE sensor.time # None /\ payload.item.id <= sensor.time
        BY <1>1, <2>1, <2>2, <3>2, <4>1, <4>2
      <4>3. CASE aside.id = sensor.time
        BY <1>1, <2>1, <3>2, <4>1, <4>3
      <4>4. CASE payload.item.id < aside.id
        BY <1>1, <2>2, <3>2, <4>4
      <4> QED BY <1>3, <4>2, <4>3, <4>4 DEF Inv, SourceInOrder
    <3> QED BY <1>1, <3>1, <3>2
  <2>4. NoneAfter(payload.item)
    BY <1>3 DEF Inv, FramesInOrder
  <2> QED BY <1>1, <2>2, <2>3, <2>4, NoneAfterLater DEF Inv
<1> QED BY <1>2, <1>3

\* It takes the place of the frame before, and the cache is emptied.
LEMMA UpdateKeepsOrder ==
  ASSUME Inv, Update
  PROVE  CachedIsCurrent' /\ SourceInOrder' /\ FramesInOrder'
<1>1. /\ payload'.item = Latest /\ payload'.encoded = None /\ Latest # None
      /\ sensor'.sequence = Latest.sequence /\ sensor'.time = Latest.time
      /\ UNCHANGED <<kind, newest, aside, made, request, image>>
  BY DEF Update, Reads, NoPayload, Seen, sourceVars, cardVars
<1>2. /\ Latest \in Frames /\ Latest.id \in Nat /\ Latest.time \in Nat
      /\ Latest.sequence \in Numbers /\ Latest.sequence # None /\ Latest.time # None
  BY ReadTypes DEF Update, Inv, Frames, Numbers
<1>3. Latest.id <= made.id /\ (kind = "camera" => Latest.time = Latest.id)
  BY <1>1, Identities DEF Inv, SourceInOrder, Latest
<1>4. SourceInOrder'
  BY <1>1, <1>2, <1>3 DEF Inv, SourceInOrder
<1>5. \A c \in Clients : Held(c)' = Held(c)
  BY <1>1 DEF Held
<1>6. kind = "camera" => NoneAfter(Latest)
  BY AcceptsLater DEF Update
<1>7. kind # "camera" => NoneAfter(Latest)
  BY DEF Inv, FramesInOrder, NoneAfter
<1>8. FramesInOrder'
  BY <1>1, <1>5, <1>6, <1>7 DEF Inv, FramesInOrder, NoneAfter
<1> QED BY <1>1, <1>4, <1>8 DEF CachedIsCurrent

\* Where it goes back, the frame it has is the newest still, or the wrong slot is read.
LEMMA GoesBackKeepsOrder ==
  ASSUME Inv, UpdateGoesBack
  PROVE  CachedIsCurrent' /\ SourceInOrder' /\ FramesInOrder'
<1>1. /\ sensor'.sequence = Latest.sequence /\ sensor'.time = Latest.time /\ Latest # None
      /\ UNCHANGED <<kind, newest, aside, made, payload, request, image>>
  BY DEF UpdateGoesBack, Reads, Seen, sourceVars, cardVars
<1>2. /\ Latest.time \in Nat /\ Latest.time # None
      /\ Latest.sequence \in Numbers /\ Latest.sequence # None
  BY ReadTypes DEF UpdateGoesBack, Inv, Frames, Numbers
<1>3. kind = "camera" => Latest.time = Latest.id /\ (Latest = made \/ Latest = aside)
  BY <1>1 DEF Inv, SourceInOrder, Latest
<1>4. SourceInOrder'
  BY <1>1, <1>2, <1>3 DEF Inv, SourceInOrder
<1> QED BY <1>1, <1>4 DEF Inv, FramesInOrder, NoneAfter, Held, CachedIsCurrent

\* A client is given nothing, or a frame no older than what its page shows.
LEMMA RequestKeepsOrder ==
  ASSUME Inv, NEW c \in Clients, UNCHANGED <<kind, newest, aside, made, sensor, image>>,
         payload'.item = payload.item,
         \A d \in Clients \ {c} : request'[d] = request[d],
         Held(c)' => /\ (kind = "camera" /\ payload.item # None) \/ Held(c)
                     /\ payload.item = None => request'[c].frame = request[c].frame
                     /\ request'[c].frame.id <= made.id
                     /\ payload.item # None => request'[c].frame.id <= payload.item.id
                     /\ c \in Pages /\ image[c] # None => image[c].id <= request'[c].frame.id
  PROVE  SourceInOrder' /\ FramesInOrder'
<1>1. \A d \in Clients \ {c} : Held(d)' = Held(d)
  BY DEF Held
<1>2. SourceInOrder'
  BY DEF Inv, SourceInOrder
<1>3. ASSUME NEW f, NoneAfter(f), Held(c)' => request'[c].frame.id <= f.id
      PROVE  /\ \A d \in Clients : Held(d)' => request'[d].frame.id <= f.id
             /\ \A p \in Pages : image'[p] # None => image'[p].id <= f.id
  BY <1>1, <1>3 DEF NoneAfter
<1>4. NoneAfter(made)'
  BY <1>3 DEF Inv, FramesInOrder, NoneAfter
<1>5. payload'.item # None => NoneAfter(payload.item)'
  BY <1>3 DEF Inv, FramesInOrder, NoneAfter
<1>6. ASSUME payload'.item = None
      PROVE  (newest' # None => NoneAfter(newest)') /\ (aside' # None => NoneAfter(aside)')
  <2>1. Held(c)' => Held(c) /\ request'[c].frame = request[c].frame
    BY <1>6
  <2> QED BY <1>3, <1>6, <2>1 DEF Inv, FramesInOrder, NoneAfter
<1>7. ASSUME NEW p \in Pages, image'[p] # None, Held(p)'
      PROVE  image'[p].id <= request'[p].frame.id
  <2>1. CASE p = c
    BY <1>7, <2>1
  <2>2. CASE p # c
    BY <1>1, <1>7, <2>2 DEF Inv, FramesInOrder
  <2> QED BY <2>1, <2>2
<1>8. kind' # "camera" => (\A d \in Clients : ~Held(d)') /\ (\A p \in Pages : image'[p] = None)
  BY <1>1 DEF Inv, FramesInOrder
<1> QED BY <1>2, <1>4, <1>5, <1>6, <1>7, <1>8 DEF FramesInOrder

LEMMA ServingKeepsOrder ==
  ASSUME Inv, NEW c \in Clients, Serving(c)
  PROVE  CachedIsCurrent' /\ SourceInOrder' /\ FramesInOrder'
<1> USE DEF ServerOnly, sourceVars, cardVars
<1>1. /\ payload \in Payloads /\ request \in [Clients -> RequestSet]
      /\ request[c] \in RequestSet
  BY DEF Inv, TypeOK
<1>2. /\ payload.item # None => payload.item.id <= made.id
      /\ c \in Pages /\ image[c] # None /\ payload.item # None => image[c].id <= payload.item.id
      /\ payload.item # None => payload.item.id \in Nat
  BY Identities DEF Inv, SourceInOrder, FramesInOrder, NoneAfter
<1>3. ASSUME NEW f \in FrameOrNone, Serve(c, f)
      PROVE  /\ \A d \in Clients \ {c} : request'[d] = request[d]
             /\ Held(c)' => request'[c].frame = f /\ f # None
  <2>1. request'[c] = IF c \in Pages
                      THEN [request[c] EXCEPT !.at = "answered", !.frame = f, !.sequence = None]
                      ELSE Rest(c)
    BY <1>1, <1>3 DEF Serve
  <2>2. Rest(c).frame = None
    BY DEF Rest, Idle
  <2>3. [request[c] EXCEPT !.at = "answered", !.frame = f, !.sequence = None].frame = f
    BY <1>1 DEF RequestSet
  <2>4. \A d \in Clients \ {c} : request'[d] = request[d]
    BY <1>1, <1>3 DEF Serve
  <2> QED BY <2>1, <2>2, <2>3, <2>4 DEF Held
<1>4. CASE HasNone(c)
  <2>1. ~Held(c)' /\ (\A d \in Clients \ {c} : request'[d] = request[d])
    BY <1>3, <1>4 DEF HasNone, FrameOrNone
  <2>2. SourceInOrder' /\ FramesInOrder'
    BY <1>4, <2>1, RequestKeepsOrder DEF HasNone
  <2> QED BY <1>4, <2>2 DEF HasNone, Inv, CachedIsCurrent
<1>5. CASE ServeCached(c)
  <2>1. /\ payload.encoded = payload.item /\ payload.item # None /\ payload.item \in FrameOrNone
        /\ kind = "camera"
    BY <1>1, <1>5 DEF ServeCached, IsCached, HasFrame, Inv, CachedIsCurrent, Payloads
  <2>2. /\ \A d \in Clients \ {c} : request'[d] = request[d]
        /\ Held(c)' => request'[c].frame = payload.item
    BY <1>3, <1>5, <2>1 DEF ServeCached
  <2>3. SourceInOrder' /\ FramesInOrder'
    BY <1>2, <1>5, <2>1, <2>2, RequestKeepsOrder DEF ServeCached
  <2> QED BY <1>5, <2>3 DEF ServeCached, Inv, CachedIsCurrent
<1>6. CASE TakeFrame(c)
  <2>1. payload.item # None /\ kind = "camera"
    BY <1>6 DEF TakeFrame, HasFrame
  <2>2. /\ \A d \in Clients \ {c} : request'[d] = request[d]
        /\ request'[c].frame = payload.item
    BY <1>1, <1>6 DEF TakeFrame, RequestSet
  <2>3. UNCHANGED <<kind, newest, aside, made, sensor, image, payload>>
    BY <1>6 DEF TakeFrame
  <2>4. /\ request'[c].frame.id <= made.id
        /\ payload.item # None => request'[c].frame.id <= payload.item.id
        /\ c \in Pages /\ image[c] # None => image[c].id <= request'[c].frame.id
    BY <1>2, <2>1, <2>2
  <2>5. SourceInOrder' /\ FramesInOrder'
    BY <2>1, <2>2, <2>3, <2>4, RequestKeepsOrder
  <2> QED BY <1>6, <2>5 DEF TakeFrame, Inv, CachedIsCurrent
<1>7. CASE Encode(c)
  <2>1. request[c].frame \in FrameOrNone /\ Serve(c, request[c].frame)
    BY <1>1, <1>7 DEF Encode, RequestSet
  <2>2. /\ \A d \in Clients \ {c} : request'[d] = request[d]
        /\ Held(c)' => request'[c].frame = request[c].frame /\ request[c].frame # None
    BY <1>3, <2>1
  <2>3. payload'.item = payload.item
    BY <1>1, <1>7 DEF Encode, Payloads
  <2>4. Held(c)' => Held(c)
    BY <1>7, <2>2 DEF Encode, Held
  <2>5. Held(c)' =>
          /\ request'[c].frame.id <= made.id
          /\ payload.item # None => request'[c].frame.id <= payload.item.id
          /\ c \in Pages /\ image[c] # None => image[c].id <= request'[c].frame.id
    BY <2>2, <2>4 DEF Inv, FramesInOrder, NoneAfter
  <2>6. SourceInOrder' /\ FramesInOrder'
    BY <1>7, <2>2, <2>3, <2>4, <2>5, RequestKeepsOrder DEF Encode
  <2>7. CachedIsCurrent'
    <3>1. CASE payload' = payload
      BY <3>1 DEF Inv, CachedIsCurrent
    <3>2. CASE /\ payload.item = request[c].frame
               /\ payload' = [payload EXCEPT !.encoded = request[c].frame,
                                             !.encodedFor = request[c].sequence]
      BY <1>1, <3>2 DEF CachedIsCurrent, Payloads
    <3> QED BY <1>7, <3>1, <3>2 DEF Encode
  <2> QED BY <2>6, <2>7
<1> QED BY <1>4, <1>5, <1>6, <1>7 DEF Serving

LEMMA PageKeepsOrder ==
  ASSUME Inv, NEW p \in Pages,
         Poll(p) \/ Apply(p) \/ PollFails(p) \/ AskFrame(p) \/ ShowFrame(p) \/ FrameFails(p)
  PROVE  CachedIsCurrent' /\ SourceInOrder' /\ FramesInOrder'
<1> USE DEF PageOnly, sourceVars, sensorVars, cardVars
<1>1. request \in [Clients -> RequestSet] /\ p \in Clients /\ image \in [Pages -> FrameOrNone]
  BY DEF Inv, TypeOK
<1>2. CachedIsCurrent' /\ UNCHANGED <<kind, newest, aside, made, sensor, payload>>
  BY DEF Inv, CachedIsCurrent, Poll, Apply, PollFails, AskFrame, ShowFrame, FrameFails
<1>3. CASE Poll(p) \/ Apply(p) \/ PollFails(p)
  <2>1. UNCHANGED <<request, image>>
    BY <1>3 DEF Poll, Apply, PollFails
  <2> QED BY <1>2, <2>1 DEF Inv, SourceInOrder, FramesInOrder, NoneAfter, Held
<1>4. CASE AskFrame(p)
  <2>1. (\A d \in Clients \ {p} : request'[d] = request[d]) /\ ~Held(p)'
    BY <1>1, <1>4 DEF AskFrame, RequestSet, Held
  <2> QED BY <1>2, <1>4, <2>1, <1>1, RequestKeepsOrder DEF AskFrame
<1>5. ASSUME request' = [request EXCEPT ![p] = Idle]
      PROVE  (\A d \in Clients \ {p} : request'[d] = request[d]) /\ ~Held(p)'
  BY <1>1, <1>5 DEF Held, Idle
<1>6. CASE FrameFails(p)
  <2>1. (\A d \in Clients \ {p} : request'[d] = request[d]) /\ ~Held(p)'
    BY <1>5, <1>6 DEF FrameFails
  <2> QED BY <1>2, <1>6, <2>1, <1>1, RequestKeepsOrder DEF FrameFails
<1>7. CASE ShowFrame(p)
  <2>1. (\A d \in Clients \ {p} : request'[d] = request[d]) /\ ~Held(p)'
    BY <1>5, <1>7 DEF ShowFrame
  <2>2. image'[p] = request[p].frame /\ (\A q \in Pages \ {p} : image'[q] = image[q])
    BY <1>1, <1>7 DEF ShowFrame
  <2>3. Held(p)
    BY <1>7 DEF ShowFrame, Held
  <2>4. \A d \in Clients \ {p} : Held(d)' = Held(d)
    BY <2>1 DEF Held
  <2>5. ASSUME NEW f, NoneAfter(f)
        PROVE  /\ \A c \in Clients : Held(c)' => request'[c].frame.id <= f.id
               /\ \A q \in Pages : image'[q] # None => image'[q].id <= f.id
    BY <2>1, <2>2, <2>3, <2>4, <2>5 DEF NoneAfter
  <2>6. \A q \in Pages : image'[q] # None /\ Held(q)' => image'[q].id <= request'[q].frame.id
    BY <2>1, <2>2, <2>4 DEF Inv, FramesInOrder
  <2>7. kind' = "camera"
    BY <1>2, <2>3 DEF Inv, FramesInOrder
  <2>8. SourceInOrder'
    BY <1>2 DEF Inv, SourceInOrder
  <2>9. FramesInOrder'
    BY <1>2, <2>5, <2>6, <2>7 DEF Inv, FramesInOrder, NoneAfter
  <2> QED BY <1>2, <2>8, <2>9
<1> QED BY <1>3, <1>4, <1>6, <1>7

LEMMA NextInv == Inv /\ [Next]_vars => Inv'
<1> SUFFICES ASSUME Inv, [Next]_vars PROVE Inv'
  OBVIOUS
<1>1. TypeOK'
  BY NextTypes DEF Inv
<1>2. CASE UNCHANGED vars
  BY <1>1, <1>2 DEF Inv, CachedIsCurrent, SourceInOrder, FramesInOrder, NoneAfter, Held, vars,
                    sourceVars, sensorVars, cardVars
<1>3. CASE Next
  BY <1>1, <1>3, PublishKeepsOrder, RestartKeepsOrder, UpdateKeepsOrder, GoesBackKeepsOrder,
     ServingKeepsOrder, PageKeepsOrder DEF Inv, Next, Sampling
<1> QED BY <1>2, <1>3

\* The cached JPEG is that of the frame beside it, for any number of clients that
\* encode at once, and although a sequence number may come back.
THEOREM CacheIsCurrent == Spec => []CachedIsCurrent
<1>1. Inv => CachedIsCurrent
  BY DEF Inv
<1> QED BY <1>1, InitInv, NextInv, PTL DEF Spec

\* A page never goes back to an older frame, for any number of pages and other
\* clients, however often the main application is started again.
THEOREM ImagesNeverGoBack == Spec => ImagesGoForward
<1>1. ASSUME Inv, Next
      PROVE  \A p \in Pages : image[p] # None => image'[p] # None /\ image[p].id <= image'[p].id
  <2> SUFFICES ASSUME NEW p \in Pages, image[p] # None
               PROVE  image'[p] # None /\ image[p].id <= image'[p].id
    OBVIOUS
  <2>1. CASE \E q \in Pages : ShowFrame(q)
    <3>1. PICK q \in Pages : ShowFrame(q)
      BY <2>1
    <3>2. image \in [Pages -> FrameOrNone]
      BY <1>1 DEF Inv, TypeOK
    <3>3. CASE q = p
      <4>1. image'[p] = request[p].frame /\ request[p].frame # None /\ Held(p)
        BY <3>1, <3>2, <3>3 DEF ShowFrame, Held
      <4> QED BY <1>1, <4>1 DEF Inv, FramesInOrder
    <3>4. CASE q # p
      <4>1. image'[p] = image[p]
        BY <3>1, <3>2, <3>4 DEF ShowFrame
      <4> QED BY <1>1, <4>1, Identities DEF Inv
    <3> QED BY <3>3, <3>4
  <2>2. CASE image' = image
    BY <1>1, <2>2, Identities DEF Inv
  <2>3. image' = image \/ \E q \in Pages : ShowFrame(q)
    BY <1>1 DEF Next, Publish, Restart, Sampling, Update, UpdateGoesBack, Serving, HasNone, ServeCached,
                TakeFrame, Encode, ServerOnly, Poll, Apply, PollFails, AskFrame, FrameFails, cardVars
  <2> QED BY <2>1, <2>2, <2>3
<1>2. Inv /\ [Next]_vars =>
        [\A p \in Pages : image[p] # None => image'[p] # None /\ image[p].id <= image'[p].id]_vars
  BY <1>1
<1> QED BY <1>2, InitInv, NextInv, PTL DEF Spec, ImagesGoForward

-----------------------------------------------------------------------------
(***************************************************************************)
(* What is counted.                                                        *)
(***************************************************************************)

\* A number that the collector has counted up to.
Covered(q) == q # None => sensor.sequence # None /\ first <= q /\ q <= sensor.sequence

\* The m numbers counted with q begin after the first one ...
Begins(q, m) == q # None /\ m # None => first <= q - m

\* ... and after t, if t is an earlier one; two answers with one number agree.
Apart(t, k, q, m) ==
  t # None /\ q # None => /\ m # None /\ t < q => t <= q - m
                          /\ t = q => k = m

\* They are new to a page, or it has counted them.
Within(p, q, m) ==
  summary[p].last # None /\ q # None /\ m # None =>
    /\ summary[p].last < q => summary[p].last <= q - m
    /\ summary[p].last = q => (q - m + 1)..q \subseteq counted[p]

SensorCounts ==
  IF sensor.sequence = None
    THEN stats = 0 /\ first = None /\ wentBack = 0 /\ payload.samples = None
    ELSE first # None /\ stats = sensor.sequence - first + wentBack

\* What a page has in its count is what lies between the first number and its last one.
PageCount(p) ==
  /\ summary[p].sequence = summary[p].last
  /\ summary[p].count = Cardinality(counted[p])
  /\ \A n \in counted[p] : summary[p].last # None /\ first < n /\ n <= summary[p].last

\* Whatever order the answers to a page come in, each of them counts numbers that come
\* after any smaller one the page has, or is about to have.
PageCounts(p) ==
  /\ sensor.sequence # None =>
       first # None /\ first <= sensor.sequence /\ Begins(sensor.sequence, payload.samples)
  /\ Covered(summary[p].last) /\ Within(p, sensor.sequence, payload.samples)
  /\ \A s \in answers[p] :
       /\ Covered(s.sequence) /\ Begins(s.sequence, s.samples)
       /\ Apart(s.sequence, s.samples, sensor.sequence, payload.samples)
       /\ Within(p, s.sequence, s.samples)
       /\ \A t \in answers[p] : Apart(t.sequence, t.samples, s.sequence, s.samples)
  /\ PageCount(p)

Counts == SensorCounts /\ \A p \in Pages \ astray : PageCounts(p)

\* The inductive invariant of the counts.
CountInv == TypeOK /\ Counts

LEMMA Values ==
  ASSUME TypeOK
  PROVE  /\ sensor.sequence \in CountOrNone /\ payload.samples \in CountOrNone
         /\ first \in CountOrNone /\ stats \in Nat /\ wentBack \in Int
         /\ \A p \in Pages :
              /\ summary[p].last \in CountOrNone /\ summary[p].count \in Nat
              /\ counted[p] \subseteq Numbers
              /\ \A s \in answers[p] : /\ s.sequence \in NumberOrNone /\ s.sequence \in CountOrNone
                                       /\ s.samples \in CountOrNone
<1>1. NumberOrNone \subseteq CountOrNone
  BY DEF NumberOrNone, Numbers, CountOrNone
<1>2. sensor \in Sensors /\ payload \in Payloads /\ first \in NumberOrNone
  BY DEF TypeOK
<1>3. ASSUME NEW p \in Pages
      PROVE  /\ summary[p].last \in CountOrNone /\ summary[p].count \in Nat
             /\ counted[p] \subseteq Numbers
             /\ \A s \in answers[p] : /\ s.sequence \in NumberOrNone /\ s.sequence \in CountOrNone
                                      /\ s.samples \in CountOrNone
  <2>1. summary[p] \in Summaries /\ answers[p] \subseteq Snapshots /\ counted[p] \subseteq Numbers
    BY DEF TypeOK
  <2> QED BY <1>1, <2>1 DEF Summaries, Snapshots
<1> QED BY <1>1, <1>2, <1>3 DEF TypeOK, Sensors, Payloads

LEMMA InitCounts == Init => Counts
<1> SUFFICES ASSUME Init PROVE Counts
  OBVIOUS
<1>1. SensorCounts
  BY DEF Init, SensorCounts, NoSensor, NoPayload
<1>2. ASSUME NEW p \in Pages
      PROVE  PageCounts(p)
  <2>1. /\ sensor.sequence = None /\ summary[p] = NoSummary /\ answers[p] = {} /\ counted[p] = {}
    BY DEF Init, NoSensor
  <2>2. PageCount(p)
    BY <2>1, FS_EmptySet DEF PageCount, NoSummary
  <2> QED BY <2>1, <2>2 DEF PageCounts, Covered, Within, NoSummary
<1> QED BY <1>1, <1>2 DEF Counts

\* What the collector and a page have counted is about these variables only.
LEMMA PageStays ==
  ASSUME NEW p \in Pages, PageCounts(p), UNCHANGED <<sensor, first>>,
         answers'[p] \subseteq answers[p], summary'[p] = summary[p], counted'[p] = counted[p],
         payload'.samples = payload.samples
  PROVE  PageCounts(p)'
BY DEF PageCounts, PageCount, Covered, Begins, Apart, Within

LEMMA CountsStay ==
  ASSUME Counts, UNCHANGED <<sensor, countVars, pageVars, astray>>,
         payload'.samples = payload.samples
  PROVE  Counts'
<1> USE DEF countVars, pageVars
<1>1. SensorCounts'
  BY DEF Counts, SensorCounts
<1>2. ASSUME NEW p \in Pages \ astray
      PROVE  PageCounts(p)'
  BY PageStays DEF Counts
<1> QED BY <1>1, <1>2 DEF Counts

\* When the numbers start over or go back, the pages there are have gone astray.
LEMMA RestartCounts ==
  ASSUME CountInv, Restart
  PROVE  Counts'
BY DEF Restart, NoSensor, NoPayload, Counts, SensorCounts

LEMMA GoesBackCounts ==
  ASSUME CountInv, UpdateGoesBack
  PROVE  Counts'
<1>1. /\ sensor.sequence \in Nat /\ first # None /\ first \in Nat /\ wentBack \in Int
      /\ stats = sensor.sequence - first + wentBack
  BY Values DEF CountInv, Counts, SensorCounts, CountOrNone, UpdateGoesBack, GoesBack
<1>2. Latest.sequence \in Nat /\ Latest.sequence # None
  BY ReadTypes DEF CountInv, UpdateGoesBack, Numbers
<1>3. /\ sensor'.sequence = Latest.sequence /\ first' = first /\ stats' = stats
      /\ wentBack' = wentBack + sensor.sequence - Latest.sequence
      /\ astray' = Pages
  BY DEF UpdateGoesBack, Seen
<1>4. stats' = sensor'.sequence - first' + wentBack'
  BY <1>1, <1>2, <1>3
<1> QED BY <1>1, <1>2, <1>3, <1>4 DEF Counts, SensorCounts

\* The next number counted begins where the last one ended.
LEMMA UpdateCounts ==
  ASSUME CountInv, Update
  PROVE  Counts'
<1> USE DEF CountInv
<1>1. /\ sensor'.sequence = Latest.sequence /\ payload'.samples = Passed
      /\ stats' = Added(stats, Passed) /\ wentBack' = wentBack
      /\ first' = IF first = None THEN Latest.sequence ELSE first
      /\ UNCHANGED <<answers, summary, counted, astray>>
  BY DEF Update, CountsOn, Seen, NoPayload, summaryVars, pageVars
<1>2. Latest.sequence \in Nat /\ Latest.sequence # None
  BY ReadTypes DEF Update, Numbers
<1>3. SensorCounts
  BY DEF Counts
<1>4. CASE sensor.sequence = None
  <2>1. /\ payload'.samples = None /\ stats' = 0 /\ first' = Latest.sequence /\ wentBack' = 0
    BY <1>1, <1>3, <1>4 DEF Passed, Added, SensorCounts
  <2>2. SensorCounts'
    BY <1>1, <1>2, <2>1 DEF SensorCounts
  <2>3. ASSUME NEW p \in Pages \ astray
        PROVE  PageCounts(p)'
    <3>1. PageCounts(p)
      BY DEF Counts
    <3>2. summary[p].last = None /\ \A s \in answers[p] : s.sequence = None
      BY <1>4, <3>1 DEF PageCounts, Covered
    <3>3. PageCount(p)'
      BY <1>1, <3>1, <3>2 DEF PageCounts, PageCount
    <3> QED BY <1>1, <1>2, <2>1, <3>1, <3>2, <3>3
            DEF PageCounts, Covered, Begins, Apart, Within
  <2> QED BY <1>1, <2>2, <2>3 DEF Counts
<1>5. CASE sensor.sequence # None
  <2>1. /\ first \in Nat /\ first # None /\ sensor.sequence \in Nat /\ wentBack \in Int
        /\ stats = sensor.sequence - first + wentBack
    BY <1>3, <1>5, Values DEF SensorCounts, CountOrNone
  <2>2. sensor.sequence < Latest.sequence
    BY <1>2, <1>5, <2>1 DEF Update, Reads, GoesBack
  <2>3. /\ payload'.samples = Latest.sequence - sensor.sequence
        /\ payload'.samples \in Nat /\ payload'.samples # None
        /\ first' = first /\ stats' = Latest.sequence - first + wentBack
    BY <1>1, <1>2, <1>5, <2>1, <2>2 DEF Passed, Added
  <2>4. SensorCounts'
    BY <1>1, <1>2, <2>1, <2>3 DEF SensorCounts
  <2>5. ASSUME NEW q \in CountOrNone, NEW k, Covered(q)
        PROVE  Covered(q)' /\ Apart(q, k, sensor'.sequence, payload'.samples)
    <3>1. CASE q = None
      BY <3>1 DEF Covered, Apart
    <3>2. CASE q # None
      <4>1. q \in Nat /\ first <= q /\ q <= sensor.sequence
        BY <2>5, <3>2 DEF Covered, CountOrNone
      <4> QED BY <1>1, <1>2, <2>1, <2>2, <2>3, <4>1 DEF Covered, Apart
    <3> QED BY <3>1, <3>2
  <2>6. ASSUME NEW p \in Pages \ astray
        PROVE  PageCounts(p)'
    <3>1. PageCounts(p)
      BY DEF Counts
    <3>2. /\ Covered(summary[p].last)'
          /\ Apart(summary[p].last, None, sensor'.sequence, payload'.samples)
      <4>1. summary[p].last \in CountOrNone /\ Covered(summary[p].last)
        BY <3>1, Values DEF PageCounts
      <4> QED BY <1>1, <2>5, <4>1 DEF Covered
    <3>3. Within(p, sensor.sequence, payload.samples)'
      <4>1. summary[p].last # None => summary[p].last < sensor'.sequence
        <5>1. summary[p].last \in CountOrNone /\ Covered(summary[p].last)
          BY <3>1, Values DEF PageCounts
        <5> QED BY <1>1, <1>2, <2>1, <2>2, <5>1 DEF Covered, CountOrNone
      <4>2. summary[p].last # None => summary[p].last \in Nat
        BY Values DEF CountOrNone
      <4> QED BY <1>1, <1>2, <2>3, <3>2, <4>1, <4>2 DEF Apart, Within
    <3>4. ASSUME NEW s \in answers[p]
          PROVE  /\ Covered(s.sequence)' /\ Begins(s.sequence, s.samples)'
                 /\ Apart(s.sequence, s.samples, sensor'.sequence, payload'.samples)
                 /\ Within(p, s.sequence, s.samples)'
                 /\ \A t \in answers[p] : Apart(t.sequence, t.samples, s.sequence, s.samples)
      <4>1. /\ s.sequence \in CountOrNone /\ Covered(s.sequence) /\ Begins(s.sequence, s.samples)
            /\ Within(p, s.sequence, s.samples)
            /\ \A t \in answers[p] : Apart(t.sequence, t.samples, s.sequence, s.samples)
        BY <3>1, Values DEF PageCounts
      <4>2. Covered(s.sequence)' /\ Apart(s.sequence, s.samples, sensor'.sequence, payload'.samples)
        BY <2>5, <4>1 DEF Covered
      <4>3. Begins(s.sequence, s.samples)'
        BY <2>3, <4>1 DEF Begins
      <4>4. Within(p, s.sequence, s.samples)'
        BY <1>1, <4>1 DEF Within
      <4> QED BY <4>1, <4>2, <4>3, <4>4
    <3>5. PageCount(p)'
      BY <1>1, <2>3, <3>1 DEF PageCounts, PageCount
    <3>6. sensor'.sequence # None /\ first' # None /\ first' <= sensor'.sequence
          /\ Begins(sensor.sequence, payload.samples)'
      <4>1. first <= sensor.sequence
        BY <1>5, <3>1 DEF PageCounts
      <4>2. first <= Latest.sequence /\ first <= Latest.sequence - (Latest.sequence - sensor.sequence)
        BY <1>2, <2>1, <2>2, <4>1
      <4> QED BY <1>1, <1>2, <2>1, <2>3, <4>2 DEF Begins
    <3>7. answers'[p] = answers[p]
      BY <1>1
    <3> HIDE DEF Covered, Begins, Apart, Within, PageCount
    <3> QED BY <3>2, <3>3, <3>4, <3>5, <3>6, <3>7, <1>1 DEF PageCounts, Covered, Begins, Apart, Within
  <2> QED BY <1>1, <2>4, <2>6 DEF Counts
<1> QED BY <1>4, <1>5

LEMMA ServingCounts ==
  ASSUME CountInv, NEW c \in Clients, Serving(c)
  PROVE  Counts'
<1>1. payload \in Payloads
  BY DEF CountInv, TypeOK
<1>2. payload'.samples = payload.samples
  BY <1>1 DEF Serving, HasNone, ServeCached, TakeFrame, Encode, Payloads
<1>3. ServerOnly
  BY DEF Serving, HasNone, ServeCached, TakeFrame, Encode
<1> QED BY <1>2, <1>3, CountsStay DEF CountInv, ServerOnly, summaryVars

\* The numbers one answer counts: as many as it says, none of them before the first.
LEMMA NumbersOfAnswer ==
  ASSUME NEW q \in Numbers, NEW m \in Nat, NEW f \in Nat, f <= q - m, q # None, m # None,
         NEW s, s.sequence = q, s.samples = m
  PROVE  /\ CountedWith(s) = (q - m + 1)..q
         /\ IsFiniteSet(CountedWith(s)) /\ Cardinality(CountedWith(s)) = m
         /\ \A n \in CountedWith(s) : n \in Nat /\ f < n /\ n <= q /\ q - m < n
<1>1. q \in Nat /\ q < Word
  BY DEF Numbers
<1>2. CountedWith(s) = (q - m + 1)..q
  <2>1. (q - m + 1)..q \subseteq Numbers
    BY <1>1 DEF Numbers
  <2> QED BY <2>1 DEF CountedWith
<1>3. IsFiniteSet((q - m + 1)..q) /\ Cardinality((q - m + 1)..q) = m
  <2>1. q - m + 1 \in Int /\ q \in Int
    BY <1>1
  <2>2. /\ IsFiniteSet((q - m + 1)..q)
        /\ Cardinality((q - m + 1)..q) = IF q - m + 1 > q THEN 0 ELSE q - (q - m + 1) + 1
    BY <2>1, FS_Interval
  <2>3. (IF q - m + 1 > q THEN 0 ELSE q - (q - m + 1) + 1) = m
    BY <1>1
  <2> QED BY <2>2, <2>3
<1> QED BY <1>1, <1>2, <1>3

\* What one answer adds to what a page has counted.
LEMMA SummaryCounts ==
  ASSUME TypeOK, SensorCounts, NEW p \in Pages, PageCounts(p), NEW s \in answers[p],
         s.sequence = None => summary[p].last = None
  PROVE  LET after == SummaryAfter(summary[p], s)
             numbers == CountedAfter(summary[p], counted[p], s)
         IN /\ after.sequence = s.sequence /\ after.last = s.sequence
            /\ after.count = Cardinality(numbers)
            /\ \A n \in numbers : s.sequence # None /\ first < n /\ n <= s.sequence
            /\ s.sequence # None /\ s.samples # None =>
                 (s.sequence - s.samples + 1)..s.sequence \subseteq numbers
<1> DEFINE old     == summary[p]
           new     == CountedWith(s)
           after   == SummaryAfter(old, s)
           numbers == CountedAfter(old, counted[p], s)
<1>1. /\ old.last \in CountOrNone /\ old.count \in Nat /\ first \in CountOrNone
      /\ s.sequence \in NumberOrNone /\ s.sequence \in CountOrNone /\ s.samples \in CountOrNone
      /\ sensor.sequence \in CountOrNone /\ counted[p] \subseteq Numbers
  BY Values
<1>2. /\ old.sequence = old.last /\ old.count = Cardinality(counted[p])
      /\ \A n \in counted[p] : old.last # None /\ first < n /\ n <= old.last
      /\ Covered(s.sequence) /\ Begins(s.sequence, s.samples) /\ Covered(old.last)
      /\ Within(p, s.sequence, s.samples)
  BY DEF PageCounts, PageCount
<1>3. IsFiniteSet(counted[p])
  <2>1. 0 \in Int /\ Word - 1 \in Int
    OBVIOUS
  <2>2. IsFiniteSet(0..(Word - 1))
    BY <2>1, FS_Interval
  <2> QED BY <1>1, <2>2, FS_Subset DEF Numbers
<1>4. CASE s.sequence = None
  <2>1. after.sequence = None /\ after.last = None /\ after.count = old.count
    BY <1>2, <1>4 DEF SummaryAfter, StartsOver
  <2>2. numbers = counted[p] /\ counted[p] = {}
    BY <1>2, <1>4 DEF CountedAfter, CountedWith, StartsOver
  <2> QED BY <1>2, <1>4, <2>1, <2>2
<1>5. CASE s.sequence # None
  <2>1. /\ s.sequence \in Nat /\ s.sequence \in Numbers /\ first \in Nat
        /\ first <= s.sequence /\ None \notin Nat
        /\ s.samples # None => s.samples \in Nat /\ first <= s.sequence - s.samples
    <3>1. first # None
      BY <1>2, <1>5 DEF Covered, SensorCounts
    <3> QED BY <1>1, <1>2, <1>5, <3>1 DEF Covered, CountOrNone, NumberOrNone, Begins
  <2>2. /\ IsFiniteSet(new) /\ Cardinality(new) = Added(0, s.samples)
        /\ \A n \in new : first < n /\ n <= s.sequence
        /\ s.samples = None => new = {}
        /\ s.samples # None => /\ new = (s.sequence - s.samples + 1)..s.sequence
                               /\ \A n \in new : n \in Nat /\ s.sequence - s.samples < n
    <3>1. CASE s.samples = None
      BY <3>1, FS_EmptySet DEF CountedWith, Added
    <3>2. CASE s.samples # None
      <4>1. s.samples \in Nat /\ first <= s.sequence - s.samples
        BY <2>1, <3>2
      <4>2. /\ new = (s.sequence - s.samples + 1)..s.sequence
            /\ IsFiniteSet(new) /\ Cardinality(new) = s.samples
            /\ \A n \in new : n \in Nat /\ first < n /\ n <= s.sequence /\ s.sequence - s.samples < n
        BY <1>5, <2>1, <3>2, <4>1, NumbersOfAnswer
      <4>3. Added(0, s.samples) = s.samples
        BY <3>2, <4>1 DEF Added
      <4> QED BY <3>2, <4>2, <4>3
    <3> QED BY <3>1, <3>2
  <2> HIDE DEF new
  <2>3. CASE old.last # None /\ s.sequence < old.last
    <3>1. after.sequence = s.sequence /\ after.last = s.sequence /\ after.count = Added(0, s.samples)
      BY <1>2, <1>5, <2>1, <2>3 DEF SummaryAfter, StartsOver
    <3>2. numbers = new
      BY <1>2, <1>5, <2>3 DEF CountedAfter, StartsOver, new
    <3> QED BY <1>5, <2>2, <3>1, <3>2
  <2>4. CASE old.last = None \/ ~(s.sequence < old.last)
    <3>1. ~StartsOver(old, s)
      BY <1>2, <2>4 DEF StartsOver
    <3>2. numbers = counted[p] \cup new
      BY <3>1 DEF CountedAfter, new
    <3>3. ASSUME NEW n \in numbers
          PROVE  first < n /\ n <= s.sequence
      <4>1. CASE n \in new
        BY <2>2, <4>1
      <4>2. CASE n \in counted[p]
        <5>1. n \in Nat /\ old.last # None /\ old.last \in Nat /\ first < n /\ n <= old.last
          BY <1>1, <1>2, <4>2 DEF Numbers, CountOrNone
        <5> QED BY <2>1, <2>4, <5>1
      <4> QED BY <3>2, <3>3, <4>1, <4>2
    <3>4. CASE s.sequence = old.last
      <4>1. after.sequence = s.sequence /\ after.last = s.sequence /\ after.count = old.count
        BY <1>2, <1>5, <3>1, <3>4 DEF SummaryAfter
      <4>2. new \subseteq counted[p]
        BY <1>2, <1>5, <2>2, <3>4 DEF Within
      <4>3. numbers = counted[p]
        BY <3>2, <4>2
      <4> QED BY <1>2, <1>5, <2>2, <3>2, <3>3, <4>1, <4>3
    <3>5. CASE s.sequence # old.last
      <4>1. /\ after.sequence = s.sequence /\ after.last = s.sequence
            /\ after.count = Added(old.count, s.samples)
        BY <1>2, <1>5, <3>1, <3>5 DEF SummaryAfter
      <4>2. counted[p] \cap new = {}
        <5> SUFFICES ASSUME NEW n \in counted[p], n \in new PROVE FALSE
          OBVIOUS
        <5>1. n \in Nat /\ old.last # None /\ old.last \in Nat /\ n <= old.last
          BY <1>1, <1>2 DEF Numbers, CountOrNone
        <5>2. s.samples # None /\ s.samples \in Nat /\ s.sequence - s.samples < n
          BY <2>1, <2>2
        <5>3. old.last < s.sequence
          BY <2>1, <2>4, <3>5, <5>1
        <5>4. old.last <= s.sequence - s.samples
          BY <1>2, <1>5, <5>1, <5>2, <5>3 DEF Within
        <5> QED BY <2>1, <5>1, <5>2, <5>4
      <4>3. Cardinality(numbers) = Cardinality(counted[p]) + Cardinality(new) - Cardinality({})
        BY <1>3, <2>2, <3>2, <4>2, FS_Union
      <4>4. Cardinality(numbers) = after.count
        <5>1. Cardinality({}) = 0
          BY FS_EmptySet
        <5>2. Cardinality(new) = Added(0, s.samples) /\ Cardinality(counted[p]) = old.count
          BY <1>2, <2>2
        <5>3. old.count + Added(0, s.samples) - 0 = Added(old.count, s.samples)
          BY <1>1, <2>1 DEF Added
        <5> QED BY <4>1, <4>3, <5>1, <5>2, <5>3
      <4> QED BY <1>5, <2>2, <3>2, <3>3, <4>1, <4>4
    <3> QED BY <3>4, <3>5
  <2> QED BY <1>1, <2>1, <2>3, <2>4 DEF CountOrNone
<1> QED BY <1>4, <1>5

LEMMA ApplyCounts ==
  ASSUME CountInv, NEW p \in Pages, Apply(p)
  PROVE  Counts'
<1>1. PICK s \in answers[p] :
        /\ answers' = [answers EXCEPT ![p] = @ \ {s}]
        /\ summary' = [summary EXCEPT ![p] = SummaryAfter(@, s)]
        /\ counted' = [counted EXCEPT ![p] = CountedAfter(summary[p], @, s)]
        /\ astray' = IF s.sequence = None /\ summary[p].last # None
                     THEN astray \cup {p} ELSE astray
  BY DEF Apply
<1>2. /\ answers'[p] = answers[p] \ {s} /\ summary'[p] = SummaryAfter(summary[p], s)
      /\ counted'[p] = CountedAfter(summary[p], counted[p], s)
      /\ \A q \in Pages \ {p} : /\ answers'[q] = answers[q] /\ summary'[q] = summary[q]
                                /\ counted'[q] = counted[q]
  BY <1>1 DEF CountInv, TypeOK
<1>3. UNCHANGED <<sensor, payload, stats, first, wentBack>> /\ TypeOK /\ SensorCounts
  BY DEF Apply, PageOnly, sensorVars, countVars, CountInv, Counts
<1>4. SensorCounts'
  BY <1>3 DEF SensorCounts
<1>5. ASSUME NEW q \in Pages \ astray'
      PROVE  PageCounts(q)'
  <2>1. q \notin astray /\ PageCounts(q)
    BY <1>1, <1>5 DEF CountInv, Counts
  <2>2. CASE q # p
    BY <1>2, <1>3, <2>1, <2>2, PageStays
  <2>3. CASE q = p
    <3>1. s.sequence = None => summary[p].last = None
      BY <1>1, <1>5, <2>3
    <3>2. /\ summary'[p].sequence = s.sequence /\ summary'[p].last = s.sequence
          /\ summary'[p].count = Cardinality(counted'[p])
          /\ \A n \in counted'[p] : s.sequence # None /\ first < n /\ n <= s.sequence
          /\ s.sequence # None /\ s.samples # None =>
               (s.sequence - s.samples + 1)..s.sequence \subseteq counted'[p]
      BY <1>2, <1>3, <2>1, <2>3, <3>1, SummaryCounts
    <3>3. PageCount(p)'
      BY <1>3, <3>2 DEF PageCount
    <3>4. /\ Covered(s.sequence)
          /\ Apart(s.sequence, s.samples, sensor.sequence, payload.samples)
          /\ \A t \in answers[p] : Apart(s.sequence, s.samples, t.sequence, t.samples)
      BY <2>1, <2>3 DEF PageCounts
    <3>5. ASSUME NEW r, NEW m, Apart(s.sequence, s.samples, r, m)
          PROVE  Within(p, r, m)'
      <4>1. Within(p, r, m)' <=>
              (s.sequence # None /\ r # None /\ m # None =>
                 /\ s.sequence < r => s.sequence <= r - m
                 /\ s.sequence = r => (r - m + 1)..r \subseteq counted'[p])
        BY <3>2 DEF Within
      <4> QED BY <3>2, <3>5, <4>1 DEF Apart
    <3>6. Within(p, sensor.sequence, payload.samples)'
      BY <1>3, <3>4, <3>5
    <3>7. ASSUME NEW t \in answers[p]
          PROVE  Within(p, t.sequence, t.samples)'
      BY <3>4, <3>5
    <3>8. Covered(summary[p].last)'
      BY <1>3, <3>2, <3>4 DEF Covered
    <3>9. \A t \in answers[p] : /\ Covered(t.sequence)' /\ Begins(t.sequence, t.samples)'
                                /\ Apart(t.sequence, t.samples, sensor.sequence, payload.samples)
                                /\ \A u \in answers[p] : Apart(u.sequence, u.samples, t.sequence, t.samples)
      BY <1>3, <2>1, <2>3 DEF PageCounts, Covered, Begins
    <3>10. /\ sensor'.sequence # None =>
                first' # None /\ first' <= sensor'.sequence /\ Begins(sensor.sequence, payload.samples)'
      BY <1>3, <2>1 DEF PageCounts, Begins
    <3> QED BY <1>2, <1>3, <2>3, <3>3, <3>6, <3>7, <3>8, <3>9, <3>10
            DEF PageCounts, Covered, Begins, Apart, Within
  <2> QED BY <2>2, <2>3
<1> QED BY <1>4, <1>5 DEF Counts

LEMMA PollFailsCounts ==
  ASSUME CountInv, NEW p \in Pages, PollFails(p)
  PROVE  Counts'
<1>1. PICK s \in answers[p] : answers' = [answers EXCEPT ![p] = @ \ {s}]
  BY DEF PollFails
<1>2. /\ UNCHANGED <<sensor, payload, stats, first, wentBack, summary, counted, astray>>
      /\ SensorCounts /\ \A q \in Pages : answers'[q] \subseteq answers[q]
  BY <1>1 DEF PollFails, PageOnly, sensorVars, countVars, CountInv, TypeOK, Counts
<1>3. SensorCounts'
  BY <1>2 DEF SensorCounts
<1>4. ASSUME NEW q \in Pages \ astray'
      PROVE  PageCounts(q)'
  BY <1>2, PageStays DEF CountInv, Counts
<1> QED BY <1>3, <1>4 DEF Counts

\* An answer under way is as far as the collector is.
LEMMA PollCounts ==
  ASSUME CountInv, NEW p \in Pages, Poll(p)
  PROVE  Counts'
<1>1. /\ UNCHANGED <<sensor, payload, stats, first, wentBack, summary, counted, astray>>
      /\ answers' = [answers EXCEPT ![p] = @ \cup {Snapshot}]
  BY DEF Poll, PageOnly, sensorVars, countVars
<1>2. SensorCounts' /\ TypeOK
  BY <1>1 DEF CountInv, Counts, SensorCounts
<1>3. ASSUME NEW q \in Pages \ astray'
      PROVE  PageCounts(q)'
  <2>1. PageCounts(q)
    BY <1>1, <1>3 DEF CountInv, Counts
  <2>2. CASE q # p
    <3>1. answers'[q] = answers[q]
      BY <1>1, <1>2, <2>2 DEF TypeOK
    <3> QED BY <1>1, <2>1, <3>1, PageStays
  <2>3. CASE q = p
    <3>1. answers'[q] = answers[q] \cup {Snapshot}
      BY <1>1, <1>2, <2>3 DEF TypeOK
    <3>2. Snapshot.sequence = sensor.sequence /\ Snapshot.samples = payload.samples
      BY DEF Snapshot
    <3>3. /\ sensor.sequence \in CountOrNone /\ first \in CountOrNone
          /\ \A s \in answers[q] : s.sequence \in CountOrNone
      BY <1>2, Values
    <3>4. /\ Covered(sensor.sequence) /\ Begins(sensor.sequence, payload.samples)
          /\ Apart(sensor.sequence, payload.samples, sensor.sequence, payload.samples)
      BY <2>1, <3>3 DEF PageCounts, Covered, Begins, Apart, CountOrNone
    <3>5. ASSUME NEW s \in answers[q]
          PROVE  Apart(sensor.sequence, payload.samples, s.sequence, s.samples)
      <4>1. Covered(s.sequence) /\ Apart(s.sequence, s.samples, sensor.sequence, payload.samples)
        BY <2>1 DEF PageCounts
      <4> QED BY <3>3, <4>1 DEF Covered, Apart, CountOrNone
    <3>6. ASSUME NEW s \in answers'[q]
          PROVE  /\ Covered(s.sequence) /\ Begins(s.sequence, s.samples)
                 /\ Apart(s.sequence, s.samples, sensor.sequence, payload.samples)
                 /\ Within(q, s.sequence, s.samples)
      BY <2>1, <3>1, <3>2, <3>4 DEF PageCounts
    <3>7. ASSUME NEW s \in answers'[q], NEW t \in answers'[q]
          PROVE  Apart(t.sequence, t.samples, s.sequence, s.samples)
      BY <2>1, <3>1, <3>2, <3>4, <3>5 DEF PageCounts
    <3>8. /\ Covered(summary[q].last) /\ Within(q, sensor.sequence, payload.samples)
          /\ PageCount(q)
          /\ sensor.sequence # None => first # None /\ first <= sensor.sequence
      BY <2>1 DEF PageCounts
    <3>9. PageCount(q)'
      BY <1>1, <3>8 DEF PageCount
    <3> QED BY <1>1, <3>4, <3>6, <3>7, <3>8, <3>9 DEF PageCounts, Covered, Begins, Apart, Within
  <2> QED BY <2>2, <2>3
<1> QED BY <1>2, <1>3 DEF Counts

LEMMA NextCounts == CountInv /\ [Next]_vars => CountInv'
<1> SUFFICES ASSUME CountInv, [Next]_vars PROVE CountInv'
  OBVIOUS
<1>1. TypeOK'
  BY NextTypes DEF CountInv
<1>2. CASE UNCHANGED vars
  BY <1>1, <1>2, CountsStay DEF CountInv, vars, sensorVars, summaryVars
<1>3. CASE Publish
  BY <1>1, <1>3, CountsStay DEF CountInv, Publish, sensorVars, summaryVars
<1>4. CASE \E p \in Pages : AskFrame(p) \/ ShowFrame(p) \/ FrameFails(p)
  BY <1>1, <1>4, CountsStay DEF CountInv, AskFrame, ShowFrame, FrameFails, PageOnly, sensorVars,
                          summaryVars
<1>5. CASE Next
  BY <1>1, <1>3, <1>4, <1>5, RestartCounts, UpdateCounts, GoesBackCounts, ServingCounts,
     PollCounts, ApplyCounts, PollFailsCounts DEF CountInv, Next, Sampling
<1> QED BY <1>2, <1>5

\* The collector's count is what its numbers went up by, those they went back over
\* counted again; and until they go back, a page has in its count each number it counts
\* once, and none that the collector did not: for any ring, any gaps between the frames,
\* any number of pages, and any answers under way.
THEOREM NumbersCountOnce == Spec => []CountsOnce
<1>1. ASSUME CountInv
      PROVE  CountsOnce
  <2>1. sensor.sequence # None => stats = sensor.sequence - first + wentBack
    BY <1>1 DEF CountInv, Counts, SensorCounts
  <2>2. ASSUME NEW p \in Pages \ astray
        PROVE  /\ summary[p].count = Cardinality(counted[p])
               /\ \A n \in counted[p] : first < n /\ n <= sensor.sequence
    <3>1. Covered(summary[p].last) /\ PageCount(p)
      BY <1>1 DEF CountInv, Counts, PageCounts
    <3>2. /\ summary[p].last \in CountOrNone /\ sensor.sequence \in CountOrNone
          /\ counted[p] \subseteq Numbers
      BY <1>1, Values DEF CountInv
    <3>3. ASSUME NEW n \in counted[p]
          PROVE  n <= sensor.sequence
      <4>1. /\ n \in Nat /\ summary[p].last \in Nat /\ sensor.sequence \in Nat
            /\ n <= summary[p].last /\ summary[p].last <= sensor.sequence
        BY <3>1, <3>2 DEF Covered, PageCount, CountOrNone, Numbers
      <4> QED BY <4>1
    <3> QED BY <3>1, <3>3 DEF PageCount
  <2> QED BY <2>1, <2>2 DEF CountsOnce
<1>2. Init => CountInv
  BY InitTypeOK, InitCounts DEF CountInv
<1> QED BY <1>1, <1>2, NextCounts, PTL DEF Spec
=============================================================================
