----------------------------- MODULE WorkerProofs -----------------------------
(***************************************************************************)
(* Proofs about the two worker threads a frame passes on its way to the    *)
(* ring: the one of its camera, in Capture, and the one of its writer, in  *)
(* WriterQueue.                                                            *)
(*                                                                         *)
(* For any set of buffers, any subsampling and any bound on the frames:    *)
(* what a frame is copied from is mapped and is not the driver's, the      *)
(* running flag tells of a thread that captures, and the capture loop      *)
(* keeps no buffer.  For any number of producers and any bound on the      *)
(* entries: no wake-up is lost, the worker drains what was accepted before *)
(* it ends, and every step of the queue is a step of FrameStream or        *)
(* changes nothing there.                                                  *)
(***************************************************************************)
EXTENDS Capture, WriterQueue, TLAPS

-----------------------------------------------------------------------------
(***************************************************************************)
(* The camera.                                                             *)
(***************************************************************************)

LEMMA FrameParts == ASSUME NEW f \in Frames
                    PROVE  f.buf \in Buffers /\ f.seq \in 0 .. MaxFrames /\ f.monotonic \in BOOLEAN
BY DEF Frames

LEMMA FrameMade == ASSUME NEW b \in Buffers, NEW n \in 0 .. MaxFrames, NEW m \in BOOLEAN
                   PROVE  LET f == [buf |-> b, seq |-> n, monotonic |-> m]
                          IN f \in Frames /\ f.buf = b
BY DEF Frames

LEMMA WithDriverType == TypeOK => WithDriver \subseteq Buffers
BY FrameParts DEF TypeOK, WithDriver

-----------------------------------------------------------------------------
LEMMA TypeInit == Init => TypeOK
<1> SUFFICES ASSUME Init PROVE TypeOK
  OBVIOUS
<1>1. buffers \subseteq Buffers /\ queued \subseteq Buffers /\ lost \subseteq Buffers
  BY DEF Init, InitMmap
<1>2. frame \in 0 .. MaxFrames
  BY CaptureAssumption DEF Init
<1>3. valid \in BOOLEAN /\ running \in BOOLEAN /\ streaming \in BOOLEAN
  BY DEF Init
<1> QED
  BY <1>1, <1>2, <1>3 DEF Init, TypeOK, InLoop

LEMMA TypeStep == TypeOK /\ LifeCycle /\ [Next]_vars => TypeOK'
<1> SUFFICES ASSUME TypeOK, LifeCycle, [Next]_vars PROVE TypeOK'
  OBVIOUS
<1> USE DEF TypeOK, InLoop
<1>1. CASE UNCHANGED vars
  BY <1>1 DEF vars, driverVars
<1>2. ASSUME NEW b \in Buffers, NEW m \in BOOLEAN, Fill(b, m) PROVE TypeOK'
  <2>1. frame \in 0 .. MaxFrames /\ frame + 1 \in 0 .. MaxFrames
    BY <1>2, CaptureAssumption DEF Fill
  <2> DEFINE f == [buf |-> b, seq |-> frame, monotonic |-> m]
  <2>2. filled' = filled \cup {f} /\ f \in Frames
    BY <1>2, <2>1, FrameMade DEF Fill
  <2> HIDE DEF f
  <2> QED
    BY <1>2, <2>1, <2>2 DEF Fill
<1>3. CASE Miss
  <2>1. frame' \in 0 .. MaxFrames
    BY <1>3, CaptureAssumption DEF Miss
  <2> QED
    BY <1>3, <2>1 DEF Miss
<1>4. CASE StreamOn
  BY <1>4 DEF StreamOn
<1>5. CASE Spawn
  BY <1>5 DEF Spawn, LifeCycle, driverVars
<1>6. CASE SpawnFails
  BY <1>6, WithDriverType DEF SpawnFails, StreamsOff
<1>7. CASE Mark
  BY <1>7 DEF Mark, driverVars
<1>8. CASE Lower
  BY <1>8 DEF Lower, driverVars
<1>9. CASE StreamOff
  <2>1. CASE state = "running"
    BY <1>9, <2>1, WithDriverType DEF StreamOff, StreamsOff
  <2>2. CASE state # "running"
    BY <1>9, <2>2 DEF StreamOff
  <2> QED
    BY <2>1, <2>2
<1>10. CASE Join
  BY <1>10 DEF Join, driverVars
<1>11. CASE PostStop
  BY <1>11 DEF PostStop
<1>12. CASE Test
  BY <1>12 DEF Test, driverVars
<1>13. CASE Poll
  BY <1>13 DEF Poll, driverVars
<1>14. CASE Dequeue
  <2>1. PICK f \in filled :
          /\ filled' = filled \ {f}
          /\ \/ worker' = "test" /\ held' = Nobody /\ lost' = lost \cup {f.buf}
             \/ worker' \in {"process", "requeue"} /\ held' = f.buf /\ lost' = lost
    BY <1>14 DEF Dequeue, Oldest
  <2>2. f.buf \in Buffers
    BY FrameParts
  <2> QED
    BY <1>14, <2>1, <2>2 DEF Dequeue
<1>15. CASE DequeueFails \/ Process
  BY <1>15 DEF DequeueFails, Process, driverVars
<1>16. CASE Requeue
  BY <1>16 DEF Requeue
<1>17. CASE RequeueFails
  BY <1>17 DEF RequeueFails, driverVars
<1>18. CASE Leave
  BY <1>18 DEF Leave, driverVars
<1> QED
  BY <1>1, <1>2, <1>3, <1>4, <1>5, <1>6, <1>7, <1>8, <1>9, <1>10, <1>11, <1>12,
     <1>13, <1>14, <1>15, <1>16, <1>17, <1>18 DEF Next, Owner, Worker, Driver

-----------------------------------------------------------------------------
LEMMA LifeInit == Init => LifeCycle
BY DEF Init, LifeCycle

LEMMA LifeStep == TypeOK /\ LifeCycle /\ [Next]_vars => LifeCycle'
<1> SUFFICES ASSUME TypeOK, LifeCycle, [Next]_vars PROVE LifeCycle'
  OBVIOUS
<1> USE DEF LifeCycle
<1>1. CASE UNCHANGED vars \/ Driver
  BY <1>1 DEF vars, Driver, Fill, Miss
<1>2. CASE StreamOn
  BY <1>2 DEF StreamOn
<1>3. CASE Spawn
  BY <1>3 DEF Spawn
<1>4. CASE SpawnFails
  BY <1>4 DEF SpawnFails
<1>5. CASE Mark
  BY <1>5 DEF Mark
<1>6. CASE Lower
  BY <1>6 DEF Lower
<1>7. CASE StreamOff \/ Join
  BY <1>7 DEF StreamOff, Join
<1>8. CASE PostStop
  BY <1>8 DEF PostStop
<1>9. CASE Test \/ Poll
  BY <1>9 DEF Test, Poll
<1>10. CASE Dequeue \/ DequeueFails
  <2>1. worker = "dequeue" /\ worker' \in {"test", "process", "requeue", "leave"}
        /\ UNCHANGED <<state, running, owner>>
    BY <1>10 DEF Dequeue, DequeueFails
  <2> QED
    BY <2>1
<1>11. CASE Process \/ Requeue \/ RequeueFails
  BY <1>11 DEF Process, Requeue, RequeueFails
<1>12. CASE Leave
  BY <1>12 DEF Leave
<1> QED
  BY <1>1, <1>2, <1>3, <1>4, <1>5, <1>6, <1>7, <1>8, <1>9, <1>10, <1>11, <1>12
     DEF Next, Owner, Worker

\* Type correctness of a camera, its thread and its driver; the worker holds a
\* buffer exactly while it copies from it or gives it back.
THEOREM TypeCorrect == Spec => []TypeOK
<1> QED
  BY TypeInit, TypeStep, LifeInit, LifeStep, PTL DEF Spec

\* The running flag is TRUE only while the thread captures or is about to be
\* made: a thread that ends by itself lowers it, start() raises it before it
\* makes the thread, and stop() lowers it before it waits.
THEOREM FlagIsTrue == Spec => []RunningMeansCapturing
<1>1. TypeOK /\ LifeCycle => RunningMeansCapturing
  BY DEF TypeOK, LifeCycle, RunningMeansCapturing
<1> QED
  BY <1>1, TypeInit, TypeStep, LifeInit, LifeStep, PTL DEF Spec

-----------------------------------------------------------------------------
LEMMA OrderInit == Init => BufferOrder
BY CaptureAssumption DEF Init, InitMmap, BufferOrder, Circulating, WithDriver

LEMMA OrderStep == TypeOK /\ LifeCycle /\ BufferOrder /\ [Next]_vars => BufferOrder'
<1> SUFFICES ASSUME TypeOK, LifeCycle, BufferOrder, [Next]_vars PROVE BufferOrder'
  OBVIOUS
<1> USE DEF BufferOrder, Circulating, WithDriver
<1>1. CASE UNCHANGED <<buffers, queued, filled, held>>
  BY <1>1
<1>2. ASSUME NEW b \in Buffers, NEW m \in BOOLEAN, Fill(b, m) PROVE BufferOrder'
  <2> DEFINE f == [buf |-> b, seq |-> frame, monotonic |-> m]
  <2>1. f.buf = b
    OBVIOUS
  <2>2. /\ b \in queued /\ queued' = queued \ {b} /\ filled' = filled \cup {f}
        /\ UNCHANGED <<buffers, held>>
    BY <1>2 DEF Fill
  <2> HIDE DEF f
  <2> QED
    BY <2>1, <2>2
<1>3. CASE StreamsOff /\ UNCHANGED <<buffers, held>>
  BY <1>3 DEF StreamsOff
<1>4. CASE PostStop
  <2>1. held' = Nobody /\ buffers' = {} /\ queued' = {} /\ filled' = {}
    BY <1>4 DEF PostStop, LifeCycle, TypeOK
  <2> QED
    BY <2>1
<1>5. CASE Dequeue
  <2>1. PICK f \in filled :
          /\ filled' = filled \ {f}
          /\ held' = Nobody \/ held' = f.buf
          /\ UNCHANGED <<buffers, queued>>
    BY <1>5 DEF Dequeue, Oldest, TypeOK
  <2>2. Nobody \notin queued /\ \A g \in filled : g.buf # Nobody
    BY CaptureAssumption, FrameParts DEF TypeOK
  <2> QED
    BY <2>1, <2>2
<1>6. CASE Requeue
  <2>1. /\ held # Nobody /\ held' = Nobody
        /\ queued' = queued \cup {held}
        /\ UNCHANGED <<buffers, filled>>
    BY <1>6, CaptureAssumption DEF Requeue, TypeOK
  <2>2. Nobody \notin queued /\ \A g \in filled : g.buf # Nobody
    BY CaptureAssumption, FrameParts DEF TypeOK
  <2> QED
    BY <2>1, <2>2
<1>7. CASE RequeueFails
  <2>1. Nobody \notin queued /\ \A g \in filled : g.buf # Nobody
    BY CaptureAssumption, FrameParts DEF TypeOK
  <2> QED
    BY <1>7, <2>1 DEF RequeueFails, driverVars
<1> QED
  <2>1. CASE UNCHANGED vars \/ Miss \/ StreamOn \/ Spawn \/ Mark \/ Lower \/ Join
             \/ Test \/ Poll \/ DequeueFails \/ Process \/ Leave
    BY <1>1, <2>1 DEF vars, Miss, StreamOn, Spawn, Mark, Lower, Join, Test, Poll,
                      DequeueFails, Process, Leave, driverVars
  <2>2. CASE SpawnFails \/ StreamOff
    BY <1>1, <1>3, <2>2 DEF SpawnFails, StreamOff
  <2> QED
    BY <1>2, <1>4, <1>5, <1>6, <1>7, <2>1, <2>2 DEF Next, Owner, Worker, Driver

\* The buffer a frame is copied from is mapped and is not the driver's: stop()
\* unmaps only when the thread has ended, and no buffer is in two places.
THEOREM CopiesAreSafe == Spec => []CopiesItsOwn
<1>1. TypeOK /\ BufferOrder => CopiesItsOwn
  BY CaptureAssumption DEF TypeOK, BufferOrder, Circulating, CopiesItsOwn
<1> QED
  BY <1>1, TypeInit, TypeStep, LifeInit, LifeStep, OrderInit, OrderStep, PTL DEF Spec

-----------------------------------------------------------------------------
LEMMA CirculateInit == Init => BuffersCirculate
BY DEF Init, InitMmap, BuffersCirculate, Circulating, WithDriver

LEMMA CirculateStep == TypeOK /\ BuffersCirculate /\ [Next]_vars => BuffersCirculate'
<1> SUFFICES ASSUME TypeOK, BuffersCirculate, [Next]_vars PROVE BuffersCirculate'
  OBVIOUS
<1> USE DEF BuffersCirculate, Circulating, WithDriver
<1>1. CASE UNCHANGED <<buffers, queued, filled, held, lost>>
  BY <1>1
<1>2. ASSUME NEW b \in Buffers, NEW m \in BOOLEAN, Fill(b, m) PROVE BuffersCirculate'
  <2> DEFINE f == [buf |-> b, seq |-> frame, monotonic |-> m]
  <2>1. f.buf = b
    OBVIOUS
  <2>2. /\ queued' = queued \ {b} /\ filled' = filled \cup {f}
        /\ UNCHANGED <<buffers, held, lost>>
    BY <1>2 DEF Fill
  <2> HIDE DEF f
  <2> QED
    BY <2>1, <2>2
<1>3. CASE StreamsOff /\ UNCHANGED <<buffers, held>>
  BY <1>3 DEF StreamsOff
<1>4. CASE PostStop
  BY <1>4 DEF PostStop
<1>5. CASE Dequeue
  <2>1. PICK f \in filled :
          /\ filled' = filled \ {f}
          /\ \/ held' = f.buf /\ lost' = lost
             \/ held' = Nobody /\ lost' = lost \cup {f.buf}
          /\ UNCHANGED <<buffers, queued>>
    BY <1>5 DEF Dequeue, Oldest, TypeOK
  <2>2. held = Nobody /\ f.buf \in Buffers
    BY <1>5, FrameParts DEF Dequeue, TypeOK
  <2> QED
    BY <2>1, <2>2, CaptureAssumption
<1>6. CASE Requeue
  BY <1>6 DEF Requeue
<1>7. CASE RequeueFails
  BY <1>7 DEF RequeueFails, driverVars
<1> QED
  <2>1. CASE UNCHANGED vars \/ Miss \/ StreamOn \/ Spawn \/ Mark \/ Lower \/ Join
             \/ Test \/ Poll \/ DequeueFails \/ Process \/ Leave
    BY <1>1, <2>1 DEF vars, Miss, StreamOn, Spawn, Mark, Lower, Join, Test, Poll,
                      DequeueFails, Process, Leave, driverVars
  <2>2. CASE SpawnFails \/ StreamOff
    BY <1>1, <1>3, <2>2 DEF SpawnFails, StreamOff
  <2> QED
    BY <1>2, <1>4, <1>5, <1>6, <1>7, <2>1, <2>2 DEF Next, Owner, Worker, Driver

\* Every way round the capture loop gives its buffer back, with the one
\* exception the model names: a frame without a monotonic time stamp.
THEOREM BuffersComeBack == Spec => []BuffersCirculate
<1> QED
  BY TypeInit, TypeStep, LifeInit, LifeStep, CirculateInit, CirculateStep, PTL DEF Spec

-----------------------------------------------------------------------------
(***************************************************************************)
(* The writer.                                                             *)
(***************************************************************************)


LEMMA EmptyIsSeq == ASSUME NEW S PROVE <<>> \in Seq(S)
OBVIOUS

LEMMA QueueTypeInit == QueueInit => QueueTypeOK
<1> SUFFICES ASSUME QueueInit PROVE QueueTypeOK
  OBVIOUS
<1>1. /\ queue \in Seq(Entries) /\ accepted \in Seq(Entries)
      /\ published \in Seq(Entries)
  BY EmptyIsSeq DEF QueueInit
<1>2. ppc \in [Producers -> {"idle", "notify"}]
  BY DEF QueueInit
<1>3. wpc \in {"test", "absent"} /\ current = NoEntry /\ settled \in Nat
  BY DEF QueueInit
<1> QED
  BY <1>1, <1>2, <1>3 DEF QueueInit, QueueTypeOK

LEMMA QueueTypeStep == QueueTypeOK /\ [QueueNext]_(queueVars) => QueueTypeOK'
<1> SUFFICES ASSUME QueueTypeOK, [QueueNext]_(queueVars) PROVE QueueTypeOK'
  OBVIOUS
<1> USE DEF QueueTypeOK
<1>1. CASE UNCHANGED queueVars
  BY <1>1 DEF queueVars, historyVars
<1>2. ASSUME NEW p \in Producers, NEW payload \in Payloads, Add(p, payload)
      PROVE QueueTypeOK'
  BY <1>2 DEF Add, Entries
<1>3. ASSUME NEW p \in Producers, NotifyOne(p) PROVE QueueTypeOK'
  BY <1>3 DEF NotifyOne, Woken, historyVars
<1>4. CASE Sleep
  BY <1>4 DEF Sleep, historyVars
<1>5. CASE Exit
  BY <1>5 DEF Exit, historyVars
<1>6. CASE Pop
  BY <1>6 DEF Pop, historyVars
<1>7. CASE Publish
  BY <1>7 DEF Publish
<1>8. CASE SpuriousWake
  BY <1>8 DEF SpuriousWake, historyVars
<1>9. CASE Stop
  BY <1>9 DEF Stop, historyVars
<1>10. CASE NotifyAll
  BY <1>10 DEF NotifyAll, Woken, historyVars
<1>11. CASE JoinWorker
  BY <1>11 DEF JoinWorker, historyVars
<1> QED
  BY <1>1, <1>2, <1>3, <1>4, <1>5, <1>6, <1>7, <1>8, <1>9, <1>10, <1>11
     DEF QueueNext, Produce, Work, Destroy

\* Type correctness of the writer: every variable keeps its type, and the
\* worker holds an entry exactly while it writes one.
THEOREM QueueTypeCorrect == QueueSpec => []QueueTypeOK
<1> QED
  BY QueueTypeInit, QueueTypeStep, PTL DEF QueueSpec

-----------------------------------------------------------------------------
LEMMA WakeupStep ==
  QueueTypeOK /\ NoLostWakeup /\ [QueueNext]_(queueVars) => NoLostWakeup'
<1> SUFFICES ASSUME QueueTypeOK, NoLostWakeup, [QueueNext]_(queueVars)
             PROVE  NoLostWakeup'
  OBVIOUS
<1> USE DEF NoLostWakeup
<1>1. CASE UNCHANGED queueVars
  BY <1>1 DEF queueVars, historyVars
<1>2. ASSUME NEW p \in Producers, NEW payload \in Payloads, Add(p, payload)
      PROVE NoLostWakeup'
  BY <1>2 DEF Add, QueueTypeOK
<1>3. ASSUME NEW p \in Producers, NotifyOne(p) PROVE NoLostWakeup'
  BY <1>3 DEF NotifyOne, Woken
<1>4. CASE Sleep
  BY <1>4 DEF Sleep
<1>5. CASE Exit \/ Pop \/ Publish \/ SpuriousWake
  BY <1>5 DEF Exit, Pop, Publish, SpuriousWake
<1>6. CASE Stop
  BY <1>6 DEF Stop
<1>7. CASE NotifyAll
  BY <1>7 DEF NotifyAll, Woken
<1>8. CASE JoinWorker
  BY <1>8 DEF JoinWorker
<1> QED
  BY <1>1, <1>2, <1>3, <1>4, <1>5, <1>6, <1>7, <1>8
     DEF QueueNext, Produce, Work, Destroy

\* add() and the destructor change what the worker waits for under the mutex
\* and notify after it, so a worker that sleeps on work or on a stop has a
\* notification still to come.
THEOREM WakeupsArrive == QueueSpec => []NoLostWakeup
<1>1. QueueInit => NoLostWakeup
  BY DEF QueueInit, NoLostWakeup
<1> QED
  BY <1>1, QueueTypeInit, QueueTypeStep, WakeupStep, PTL DEF QueueSpec

-----------------------------------------------------------------------------
\* What is held and queued is always the unsettled tail of what was accepted.
LEMMA LedgerInit == QueueInit => Ledger
BY EmptyIsSeq DEF QueueInit, Ledger, InHand

LEMMA TailGrows ==
  ASSUME NEW S, NEW q \in Seq(S), NEW a \in Seq(S), NEW e \in S, NEW n \in Nat,
         Len(a) = n + Len(q), \A i \in 1 .. Len(q) : q[i] = a[n + i]
  PROVE  /\ Len(Append(a, e)) = n + Len(Append(q, e))
         /\ \A i \in 1 .. Len(Append(q, e)) : Append(q, e)[i] = Append(a, e)[n + i]
OBVIOUS

LEMMA LedgerStep == QueueTypeOK /\ Ledger /\ [QueueNext]_(queueVars) => Ledger'
<1> SUFFICES ASSUME QueueTypeOK, Ledger, [QueueNext]_(queueVars) PROVE Ledger'
  OBVIOUS
<1> USE DEF Ledger, InHand, QueueTypeOK
<1>1. CASE UNCHANGED queueVars
  BY <1>1 DEF queueVars, historyVars
<1>2. ASSUME NEW p \in Producers, NEW payload \in Payloads, Add(p, payload)
      PROVE Ledger'
  <2> DEFINE e == [by |-> p, payload |-> payload]
  <2>1. /\ queue' = Append(queue, e) /\ accepted' = Append(accepted, e)
        /\ e \in Entries
        /\ UNCHANGED <<wpc, current, settled>>
    BY <1>2 DEF Add, Entries
  <2>2. InHand' = InHand /\ settled + InHand \in Nat
    BY <2>1
  <2>3. wpc' = "write" => current' = accepted'[settled' + 1]
    BY <2>1
  <2>4. /\ Len(accepted') = settled + InHand + Len(queue')
        /\ \A i \in 1 .. Len(queue') : queue'[i] = accepted'[settled + InHand + i]
    <3> DEFINE n == settled + InHand
    <3> HIDE DEF e, InHand
    <3>1. /\ e \in Entries /\ queue \in Seq(Entries) /\ accepted \in Seq(Entries)
          /\ n \in Nat /\ Len(accepted) = n + Len(queue)
          /\ \A i \in 1 .. Len(queue) : queue[i] = accepted[n + i]
      BY <2>1, <2>2
    <3> HIDE DEF n
    <3>2. /\ Len(Append(accepted, e)) = n + Len(Append(queue, e))
          /\ \A i \in 1 .. Len(Append(queue, e)) : Append(queue, e)[i] = Append(accepted, e)[n + i]
      BY <3>1, TailGrows
    <3> QED
      BY <2>1, <3>2 DEF n
  <2> QED
    BY <2>1, <2>2, <2>3, <2>4
<1>3. ASSUME NEW p \in Producers, NotifyOne(p) PROVE Ledger'
  BY <1>3 DEF NotifyOne, Woken, historyVars
<1>4. CASE Sleep \/ Exit \/ SpuriousWake
  BY <1>4 DEF Sleep, Exit, SpuriousWake, historyVars
<1>5. CASE Pop
  BY <1>5 DEF Pop, historyVars
<1>6. CASE Publish
  <2>1. /\ wpc = "write" /\ wpc' = "test" /\ settled' = settled + 1
        /\ UNCHANGED <<queue, accepted>>
    BY <1>6 DEF Publish
  <2>2. /\ Len(accepted) = settled + 1 + Len(queue)
        /\ \A i \in 1 .. Len(queue) : queue[i] = accepted[settled + 1 + i]
    BY <2>1
  <2> QED
    BY <2>1, <2>2
<1>7. CASE NotifyAll
  <2>1. /\ wpc' = "write" <=> wpc = "write"
        /\ UNCHANGED <<queue, current, accepted, settled>>
    BY <1>7 DEF NotifyAll, Woken, historyVars
  <2>2. CASE wpc = "write"
    BY <2>1, <2>2
  <2>3. CASE wpc # "write"
    BY <2>1, <2>3
  <2> QED
    BY <2>2, <2>3
<1>8. CASE Stop \/ JoinWorker
  <2>1. UNCHANGED <<queue, wpc, current, accepted, settled>>
    BY <1>8 DEF Stop, JoinWorker, historyVars
  <2> QED
    BY <2>1
<1> QED
  BY <1>1, <1>2, <1>3, <1>4, <1>5, <1>6, <1>7, <1>8
     DEF QueueNext, Produce, Work, Destroy

LEMMA DrainedStep ==
  QueueTypeOK /\ Ledger /\ DrainedAtExit /\ [QueueNext]_(queueVars)
    => DrainedAtExit'
<1> SUFFICES ASSUME QueueTypeOK, Ledger, DrainedAtExit, [QueueNext]_(queueVars)
             PROVE DrainedAtExit'
  OBVIOUS
<1> USE DEF DrainedAtExit
<1>1. CASE UNCHANGED queueVars
  BY <1>1 DEF queueVars, historyVars
<1>2. CASE Produce
  <2>1. ASSUME NEW p \in Producers, NEW payload \in Payloads, Add(p, payload)
        PROVE DrainedAtExit'
    BY <2>1 DEF Add
  <2>2. ASSUME NEW p \in Producers, NotifyOne(p) PROVE DrainedAtExit'
    BY <2>2 DEF NotifyOne, Woken, historyVars
  <2> QED
    BY <1>2, <2>1, <2>2 DEF Produce
<1>3. CASE Exit
  BY <1>3 DEF Exit, Ledger, InHand, QueueTypeOK, historyVars
<1>4. CASE Sleep \/ Pop \/ Publish \/ SpuriousWake
  BY <1>4 DEF Sleep, Pop, Publish, SpuriousWake
<1>5. CASE Stop \/ NotifyAll \/ JoinWorker
  BY <1>5 DEF Stop, NotifyAll, Woken, JoinWorker, historyVars
<1> QED
  BY <1>1, <1>2, <1>3, <1>4, <1>5 DEF QueueNext, Work, Destroy

\* The worker ends only when every entry that was ever accepted is settled.
THEOREM WorkerDrains == QueueSpec => []DrainedAtExit
<1>1. QueueInit => DrainedAtExit
  BY DEF QueueInit, DrainedAtExit
<1> QED
  BY <1>1, QueueTypeInit, QueueTypeStep, LedgerInit, LedgerStep, DrainedStep, PTL DEF QueueSpec

-----------------------------------------------------------------------------
\* Every step of the queue is a step of the stream, or changes nothing there.
LEMMA StreamStep ==
  QueueTypeOK /\ Ledger /\ DrainedAtExit /\ [QueueNext]_(queueVars)
    => [Stream!Next]_(Stream!vars)
<1> SUFFICES ASSUME QueueTypeOK, Ledger, DrainedAtExit, [QueueNext]_(queueVars)
             PROVE [Stream!Next]_(Stream!vars)
  OBVIOUS
<1> USE DEF Stream!vars
<1>1. CASE UNCHANGED queueVars
  BY <1>1 DEF queueVars, historyVars
<1>2. ASSUME NEW p \in Producers, NEW payload \in Payloads, Add(p, payload)
      PROVE Stream!Next
  <2> DEFINE e == [by |-> p, payload |-> payload]
  <2>1. e \in Stream!Entries
    BY DEF Stream!Entries
  <2>2. Stream!Accept(e)
    BY <1>2 DEF Add, Stream!Accept
  <2> QED
    BY <2>1, <2>2 DEF Stream!Next
<1>3. ASSUME NEW p \in Producers, NotifyOne(p) PROVE UNCHANGED Stream!vars
  BY <1>3 DEF NotifyOne, Woken, historyVars
<1>4. CASE Sleep \/ Pop \/ SpuriousWake
  BY <1>4 DEF Sleep, Pop, SpuriousWake, historyVars
<1>5. CASE Exit
  <2>1. settled = Len(accepted)
    BY <1>5 DEF Exit, Ledger, InHand, QueueTypeOK
  <2> QED
    BY <1>5, <2>1 DEF Exit, historyVars, Stream!Next, Stream!Finish
<1>6. CASE Publish
  <2>1. settled < Len(accepted) /\ current = accepted[settled + 1]
    BY <1>6 DEF Publish, Ledger, InHand, QueueTypeOK
  <2> QED
    BY <1>6, <2>1 DEF Publish, Stream!Next, Stream!Settle
<1>7. CASE Stop
  BY <1>7 DEF Stop, historyVars, Stream!Next, Stream!Close
<1>8. CASE NotifyAll \/ JoinWorker
  BY <1>8 DEF NotifyAll, Woken, JoinWorker, historyVars
<1> QED
  BY <1>1, <1>2, <1>3, <1>4, <1>5, <1>6, <1>7, <1>8
     DEF QueueNext, Produce, Work, Destroy

\* The writer implements the stream, its safety part: what add() accepted is
\* settled in that order, once each, until a stop has drained it.
THEOREM QueueImplementsStream ==
  QueueSpec => Stream!Init /\ [][Stream!Next]_(Stream!vars)
<1>1. QueueInit => Stream!Init
  BY DEF QueueInit, Stream!Init
<1>2. QueueInit => DrainedAtExit
  BY DEF QueueInit, DrainedAtExit
<1> QED
  BY <1>1, <1>2, QueueTypeInit, QueueTypeStep, LedgerInit, LedgerStep, DrainedStep,
     StreamStep, PTL DEF QueueSpec
=============================================================================
