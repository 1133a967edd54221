------------------------------- MODULE Capture -------------------------------
(***************************************************************************)
(* A V4L2 camera: the life cycle of Camera (start, stop), the thread that  *)
(* runs its capture loop, and the buffers that go round between that       *)
(* thread and the driver.                                                  *)
(*                                                                         *)
(* One thread calls start() and stop(), the destructor's stop() included.  *)
(* The driver (external) is given a buffer by QBUF, fills it, and gives it *)
(* back by DQBUF, oldest frame first.  STREAMOFF takes every buffer from   *)
(* it and makes DQBUF fail.  Any call to it may fail, and a failure leaves *)
(* its state as it was.  process_frame is SharedDictWriter::add, see       *)
(* WriterQueue; here it takes the time the worker is at "process".         *)
(***************************************************************************)
EXTENDS Naturals

CONSTANTS Buffers,    \* what the driver can grant of req_buffer_count
          Subsample,  \* subsample_factor, 1 if the configuration says 0
          MaxFrames,  \* bound on the frames the sensor takes
          Nobody      \* no buffer

ASSUME CaptureAssumption == /\ Subsample \in Nat \ {0}
                            /\ MaxFrames \in Nat
                            /\ Nobody \notin Buffers

\* A filled buffer: the frame's sequence, and whether its time stamp is of the
\* monotonic clock.
Frames == [buf : Buffers, seq : 0 .. MaxFrames, monotonic : BOOLEAN]

VARIABLES state,      \* _state
          running,    \* _running
          owner,      \* where the owner is in start() or stop()
          worker,     \* where _worker is in _capture_loop
          valid,      \* _file_desc >= 0
          buffers,    \* the buffers of _buffers that are mapped
          streaming,  \* the driver streams
          queued,     \* the buffers the driver may fill
          filled,     \* the ones it has filled, as frames
          held,       \* the buffer the worker has dequeued, or Nobody
          frame,      \* the sequence of the sensor's next frame
          lost        \* the buffers that nobody is going to queue (history)

driverVars == <<streaming, queued, filled, frame>>
vars == <<state, running, owner, worker, valid, buffers, held, lost, driverVars>>

\* The buffers that are mapped and queued before the first failure, if any.
InitMmap == /\ buffers \in SUBSET Buffers /\ queued \in SUBSET buffers
            /\ \A b, c \in buffers \ queued : b = c

\* The constructor.  The camera exists even without a device or with a part of
\* its buffers, and it is valid if the device is open.
Init ==
  /\ state = "initialized" /\ running = FALSE
  /\ owner = "idle" /\ worker = "none"
  /\ valid \in BOOLEAN
  /\ IF valid THEN InitMmap ELSE buffers = {} /\ queued = {}
  /\ streaming = FALSE /\ filled = {} /\ frame = 0
  /\ held = Nobody /\ lost = buffers \ queued

WithDriver  == queued \cup {f.buf : f \in filled}
Circulating == WithDriver \cup ({held} \ {Nobody})

-----------------------------------------------------------------------------
(***************************************************************************)
(* The driver and the sensor (external).                                   *)
(***************************************************************************)

Fill(b, monotonic) ==
  /\ streaming /\ frame < MaxFrames /\ b \in queued
  /\ queued' = queued \ {b}
  /\ filled' = filled \cup {[buf |-> b, seq |-> frame, monotonic |-> monotonic]}
  /\ frame' = frame + 1
  /\ UNCHANGED <<state, running, owner, worker, valid, buffers, streaming, held, lost>>

\* No buffer to fill: the frame is gone.
Miss ==
  /\ streaming /\ frame < MaxFrames /\ queued = {}
  /\ frame' = frame + 1
  /\ UNCHANGED <<state, running, owner, worker, valid, buffers, streaming, queued, filled, held, lost>>

Driver == Miss \/ \E b \in Buffers, m \in BOOLEAN : Fill(b, m)

-----------------------------------------------------------------------------
(***************************************************************************)
(* start().  One whose STREAMON fails changes nothing and is left out.     *)
(***************************************************************************)

StreamOn ==
  /\ owner = "idle" /\ state = "initialized" /\ valid
  /\ streaming' = TRUE /\ running' = TRUE /\ owner' = "spawn"
  /\ UNCHANGED <<state, worker, valid, buffers, queued, filled, frame, held, lost>>

Spawn ==
  /\ owner = "spawn"
  /\ worker' = "test" /\ owner' = "mark"
  /\ UNCHANGED <<state, running, valid, buffers, driverVars, held, lost>>

\* STREAMOFF: the driver gives up every buffer, or does nothing.
StreamsOff == \/ /\ streaming' = FALSE /\ queued' = {} /\ filled' = {}
                 /\ lost' = lost \cup WithDriver
              \/ UNCHANGED <<streaming, queued, filled, lost>>

\* std::thread throws: start() can be called again.
SpawnFails ==
  /\ owner = "spawn"
  /\ running' = FALSE /\ owner' = "idle"
  /\ StreamsOff
  /\ UNCHANGED <<state, worker, valid, buffers, frame, held>>

\* Mutant: the flag is raised once the thread exists.
MarkAndRaise ==
  /\ owner = "mark"
  /\ state' = "running" /\ owner' = "idle" /\ running' = TRUE
  /\ UNCHANGED <<worker, valid, buffers, driverVars, held, lost>>

Mark ==
  /\ owner = "mark"
  /\ state' = "running" /\ owner' = "idle"
  /\ UNCHANGED <<running, worker, valid, buffers, driverVars, held, lost>>

-----------------------------------------------------------------------------
(***************************************************************************)
(* stop().                                                                 *)
(***************************************************************************)

\* Mutant: stop() leaves it to STREAMOFF to end the capture loop.
LowerNothing ==
  /\ owner = "idle" /\ state # "stopped"
  /\ owner' = "streamoff"
  /\ UNCHANGED <<state, running, worker, valid, buffers, driverVars, held, lost>>

Lower ==
  /\ owner = "idle" /\ state # "stopped"
  /\ running' = FALSE /\ owner' = "streamoff"
  /\ UNCHANGED <<state, worker, valid, buffers, driverVars, held, lost>>

StreamOff ==
  /\ owner = "streamoff"
  /\ owner' = "join"
  /\ IF state = "running" THEN StreamsOff ELSE UNCHANGED <<streaming, queued, filled, lost>>
  /\ UNCHANGED <<state, running, worker, valid, buffers, frame, held>>

\* Mutant: the buffers are unmapped without waiting for the thread.
JoinNobody ==
  /\ owner = "join"
  /\ owner' = "cleanup"
  /\ UNCHANGED <<state, running, worker, valid, buffers, driverVars, held, lost>>

Join ==
  /\ owner = "join" /\ worker \in {"none", "ended"}
  /\ owner' = "cleanup"
  /\ UNCHANGED <<state, running, worker, valid, buffers, driverVars, held, lost>>

\* _post_stop unmaps the buffers and closes the device, which releases it
\* even if close() reports an error; the camera then stays valid.
PostStop ==
  /\ owner = "cleanup"
  /\ buffers' = {} /\ valid' \in {FALSE, valid}
  /\ streaming' = FALSE /\ queued' = {} /\ filled' = {}
  /\ state' = "stopped" /\ owner' = "idle"
  /\ UNCHANGED <<running, worker, frame, held, lost>>

Owner == StreamOn \/ Spawn \/ SpawnFails \/ Mark \/ Lower \/ StreamOff \/ Join \/ PostStop

-----------------------------------------------------------------------------
(***************************************************************************)
(* _capture_loop, in the worker.                                           *)
(***************************************************************************)

\* is_running(), at the head of the loop and after poll().
Test ==
  /\ worker \in {"test", "ready"}
  /\ worker' = IF ~running THEN "leave" ELSE IF worker = "test" THEN "poll" ELSE "dequeue"
  /\ UNCHANGED <<state, running, owner, valid, buffers, driverVars, held, lost>>

\* poll() sees a frame or a stream that is off, or finds neither for 100 ms,
\* or fails.
Poll ==
  /\ worker = "poll"
  /\ worker' \in {"leave", IF filled # {} \/ ~streaming THEN "ready" ELSE "test"}
  /\ UNCHANGED <<state, running, owner, valid, buffers, driverVars, held, lost>>

Oldest(f) == f \in filled /\ \A g \in filled : f.seq <= g.seq

\* Mutant: a frame that is not kept is not given back either.
DequeueToSkip ==
  /\ worker = "dequeue" /\ streaming
  /\ \E f \in filled :
       /\ Oldest(f)
       /\ filled' = filled \ {f}
       /\ IF f.seq % Subsample = 0 /\ f.monotonic
            THEN worker' = "process" /\ held' = f.buf /\ lost' = lost
            ELSE /\ worker' = "test" /\ held' = held
                 /\ lost' = IF f.monotonic THEN lost ELSE lost \cup {f.buf}
  /\ UNCHANGED <<state, running, owner, valid, buffers, streaming, queued, frame>>

\* A frame without a monotonic time stamp is skipped, and its buffer with it.
Dequeue ==
  /\ worker = "dequeue" /\ streaming
  /\ \E f \in filled :
       LET keep == f.seq % Subsample = 0
       IN /\ Oldest(f)
          /\ filled' = filled \ {f}
          /\ IF keep /\ ~f.monotonic
               THEN worker' = "test" /\ held' = held /\ lost' = lost \cup {f.buf}
               ELSE /\ worker' = IF keep THEN "process" ELSE "requeue"
                    /\ held' = f.buf /\ lost' = lost
  /\ UNCHANGED <<state, running, owner, valid, buffers, streaming, queued, frame>>

DequeueFails ==
  /\ worker = "dequeue"
  /\ worker' = "leave"
  /\ UNCHANGED <<state, running, owner, valid, buffers, driverVars, held, lost>>

Process ==
  /\ worker = "process"
  /\ worker' = "requeue"
  /\ UNCHANGED <<state, running, owner, valid, buffers, driverVars, held, lost>>

Requeue ==
  /\ worker = "requeue"
  /\ worker' = "test" /\ queued' = queued \cup {held} /\ held' = Nobody
  /\ UNCHANGED <<state, running, owner, valid, buffers, streaming, filled, frame, lost>>

RequeueFails ==
  /\ worker = "requeue"
  /\ worker' = "leave" /\ held' = Nobody /\ lost' = lost \cup {held}
  /\ UNCHANGED <<state, running, owner, valid, buffers, driverVars>>

Leave ==
  /\ worker = "leave"
  /\ worker' = "ended" /\ running' = FALSE
  /\ UNCHANGED <<state, owner, valid, buffers, driverVars, held, lost>>

Worker == Test \/ Poll \/ Dequeue \/ DequeueFails \/ Process \/ Requeue \/ RequeueFails \/ Leave

Next == Owner \/ Worker \/ Driver

\* stop() goes on once called, and both threads are scheduled: poll() waits
\* 100 ms at most.  Nobody has to call start() or stop(), and no frame has to
\* come.
Spec == /\ Init /\ [][Next]_vars
        /\ WF_vars(Worker)
        /\ WF_vars(Spawn \/ Mark) /\ WF_vars(StreamOff \/ Join \/ PostStop)

-----------------------------------------------------------------------------
InLoop == {"test", "poll", "ready", "dequeue", "process", "requeue", "leave"}

TypeOK ==
  /\ state \in {"initialized", "running", "stopped"}
  /\ running \in BOOLEAN /\ valid \in BOOLEAN /\ streaming \in BOOLEAN
  /\ owner \in {"idle", "spawn", "mark", "streamoff", "join", "cleanup"}
  /\ worker \in {"none", "ended"} \cup InLoop
  /\ buffers \subseteq Buffers /\ queued \subseteq Buffers /\ lost \subseteq Buffers
  /\ filled \subseteq Frames /\ frame \in 0 .. MaxFrames
  /\ held \in IF worker \in {"process", "requeue"} THEN Buffers ELSE {Nobody}

\* While a frame is copied out of a buffer, the buffer is mapped and the driver
\* cannot write to it, whatever start() and stop() are doing meanwhile.
CopiesItsOwn == worker = "process" => held \in buffers /\ held \notin WithDriver

\* is_running(), which CameraModule::get_running_cameras counts and the capture
\* loop obeys, is never left TRUE by a thread that is gone: it is TRUE only
\* while the thread captures or is about to be made.
RunningMeansCapturing == running => owner = "spawn" \/ worker \in InLoop

\* No path round the capture loop keeps a buffer: each one is with the driver
\* or the worker, or is lost to STREAMOFF, to a failed QBUF or to the skipping
\* of a frame without a monotonic time stamp.
BuffersCirculate == buffers \subseteq Circulating \cup lost

\* What start(), stop() and the thread know of each other (the invariant that
\* CaptureProofs shows to be inductive, with BufferOrder).
LifeCycle ==
  /\ owner \in {"spawn", "mark"} => state = "initialized"
  /\ state = "initialized" => (worker = "none" <=> owner # "mark")
  /\ state = "stopped" \/ owner = "cleanup" => worker \in {"none", "ended"}
  /\ owner \in {"streamoff", "join", "cleanup"} => state # "stopped" /\ ~running
  /\ worker \in {"none", "ended"} /\ running => owner = "spawn" /\ worker = "none"

\* No buffer is in two places, and none is anywhere once it is unmapped.
BufferOrder ==
  /\ Circulating \subseteq buffers
  /\ held \notin WithDriver
  /\ \A f \in filled : f.buf \notin queued
  /\ \A f, g \in filled : f.buf = g.buf => f = g

Inv == TypeOK /\ LifeCycle /\ BufferOrder /\ BuffersCirculate

\* stop() returns, so the service ends, whatever the driver refuses.
StopReturns == owner = "streamoff" ~> owner = "idle"
=============================================================================
