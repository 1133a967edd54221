----------------------------- MODULE WriterQueue -----------------------------
(***************************************************************************)
(* SharedDictWriter: the queue between the threads that call add() and the *)
(* worker thread that publishes, and the destructor that stops the worker. *)
(*                                                                         *)
(* Each critical section of _queue_mutex is one action.  The notify calls  *)
(* come after the mutex is released, so they are actions of their own, and *)
(* a notification that finds nobody waiting is lost.  What the worker does *)
(* with an entry once it has it is FrameRing, here the single action       *)
(* Publish.  A transform replaces the payload of an entry and fails by     *)
(* leaving it as it was; its result is assumed to fit the slot.            *)
(*                                                                         *)
(* Names that Capture has too begin with Queue, so that WorkerProofs can   *)
(* extend both.                                                            *)
(***************************************************************************)
EXTENDS Naturals, Sequences

CONSTANTS Producers,   \* the threads that call add()
          Payloads,    \* what they hand over; add() refuses an empty one
          TooLong,     \* the payloads longer than size_per_frame
          MaxAdds,     \* bound on the number of entries
          NoEntry      \* the worker's empty hands

Entries == [by : Producers, payload : Payloads]

ASSUME QueueAssumption == /\ TooLong \subseteq Payloads
                          /\ MaxAdds \in Nat
                          /\ NoEntry \notin Entries

VARIABLES queue,       \* _data_queue
          stop,        \* _stop
          ppc,         \* where each producer is in add()
          wpc,         \* where the worker is in _process_queue
          dpc,         \* where the owner is in the destructor
          current,     \* the worker's local entry
          accepted,    \* every entry add() took, in order (history)
          settled,     \* how many of them are published or dropped (history)
          published    \* the entries published, in order (history)

historyVars == <<accepted, settled, published>>
queueVars == <<queue, stop, ppc, wpc, dpc, current, historyVars>>

\* The constructor starts the worker unless the name is empty or the segment
\* or the buffer is missing; add() works all the same.
QueueInit ==
  /\ queue = <<>> /\ stop = FALSE
  /\ ppc = [p \in Producers |-> "idle"]
  /\ wpc \in {"test", "absent"}
  /\ dpc = "alive"
  /\ current = NoEntry
  /\ accepted = <<>> /\ settled = 0 /\ published = <<>>

-----------------------------------------------------------------------------
\* Mutant: add() queues the entry and does not notify.
AddSilently(p, payload) ==
  /\ ppc[p] = "idle" /\ dpc # "gone"
  /\ Len(accepted) < MaxAdds
  /\ ~stop
  /\ LET e == [by |-> p, payload |-> payload]
     IN queue' = Append(queue, e) /\ accepted' = Append(accepted, e)
  /\ UNCHANGED <<stop, ppc, wpc, dpc, current, settled, published>>

\* add(): a stopped writer refuses, which changes nothing.
Add(p, payload) ==
  /\ ppc[p] = "idle" /\ dpc # "gone"
  /\ Len(accepted) < MaxAdds
  /\ ~stop
  /\ LET e == [by |-> p, payload |-> payload]
     IN queue' = Append(queue, e) /\ accepted' = Append(accepted, e)
  /\ ppc' = [ppc EXCEPT ![p] = "notify"]
  /\ UNCHANGED <<stop, wpc, dpc, current, settled, published>>

\* A notification wakes the worker if it waits.
Woken == IF wpc = "asleep" THEN "test" ELSE wpc

NotifyOne(p) ==
  /\ ppc[p] = "notify"
  /\ wpc' = Woken
  /\ ppc' = [ppc EXCEPT ![p] = "idle"]
  /\ UNCHANGED <<queue, stop, dpc, current, historyVars>>

-----------------------------------------------------------------------------
\* _cv.wait tests its predicate with the mutex held and sleeps if it is false.
Sleep ==
  /\ wpc = "test"
  /\ ~stop /\ queue = <<>>
  /\ wpc' = "asleep"
  /\ UNCHANGED <<queue, stop, ppc, dpc, current, historyVars>>

Exit ==
  /\ wpc = "test"
  /\ stop /\ queue = <<>>
  /\ wpc' = "exited"
  /\ UNCHANGED <<queue, stop, ppc, dpc, current, historyVars>>

Pop ==
  /\ wpc = "test"
  /\ queue # <<>>
  /\ current' = Head(queue)
  /\ queue' = Tail(queue)
  /\ wpc' = "write"
  /\ UNCHANGED <<stop, ppc, dpc, historyVars>>

\* Mutant: the length of the entry is not looked at.
PublishAnyLength ==
  /\ wpc = "write"
  /\ published' = Append(published, current)
  /\ settled' = settled + 1
  /\ current' = NoEntry
  /\ wpc' = "test"
  /\ UNCHANGED <<queue, stop, ppc, dpc, accepted>>

\* An entry longer than the slot is skipped; next_head is always a slot of the
\* ring, so the frame is never null.
Publish ==
  /\ wpc = "write"
  /\ published' = IF current.payload \in TooLong THEN published
                                                 ELSE Append(published, current)
  /\ settled' = settled + 1
  /\ current' = NoEntry
  /\ wpc' = "test"
  /\ UNCHANGED <<queue, stop, ppc, dpc, accepted>>

\* A condition variable may wake its waiter for no reason.
SpuriousWake ==
  /\ wpc = "asleep"
  /\ wpc' = "test"
  /\ UNCHANGED <<queue, stop, ppc, dpc, current, historyVars>>

-----------------------------------------------------------------------------
\* ~SharedDictWriter: _stop_processing, then join the worker if there is one.
Stop ==
  /\ dpc = "alive"
  /\ stop' = TRUE
  /\ dpc' = "notify"
  /\ UNCHANGED <<queue, ppc, wpc, current, historyVars>>

\* Mutant: the destructor joins without waking the worker.
NotifyNobody ==
  /\ dpc = "notify"
  /\ dpc' = "join"
  /\ UNCHANGED <<queue, stop, ppc, wpc, current, historyVars>>

NotifyAll ==
  /\ dpc = "notify"
  /\ wpc' = Woken
  /\ dpc' = "join"
  /\ UNCHANGED <<queue, stop, ppc, current, historyVars>>

\* The object outlives the calls of add() that are in progress: its owners stop
\* the capturing thread first.
JoinWorker ==
  /\ dpc = "join"
  /\ wpc \in {"absent", "exited"}
  /\ \A p \in Producers : ppc[p] = "idle"
  /\ dpc' = "gone"
  /\ UNCHANGED <<queue, stop, ppc, wpc, current, historyVars>>

Produce == \E p \in Producers :
             NotifyOne(p) \/ \E payload \in Payloads : Add(p, payload)
Work    == Sleep \/ Exit \/ Pop \/ Publish
Destroy == Stop \/ NotifyAll \/ JoinWorker

QueueNext == Produce \/ Work \/ SpuriousWake \/ Destroy

\* Threads are scheduled: a call that is under way goes on, and so does the
\* worker.  Nobody has to call add() or the destructor.
Fairness == /\ WF_queueVars(Work)
            /\ \A p \in Producers : WF_queueVars(NotifyOne(p))
            /\ WF_queueVars(NotifyAll) /\ WF_queueVars(JoinWorker)

QueueSpec == QueueInit /\ [][QueueNext]_queueVars /\ Fairness

-----------------------------------------------------------------------------
(***************************************************************************)
(* Properties.                                                             *)
(***************************************************************************)

\* The worker holds an entry exactly while it writes one.
QueueTypeOK ==
  /\ queue \in Seq(Entries)
  /\ stop \in BOOLEAN
  /\ ppc \in [Producers -> {"idle", "notify"}]
  /\ wpc \in {"absent", "test", "asleep", "write", "exited"}
  /\ dpc \in {"alive", "notify", "join", "gone"}
  /\ IF wpc = "write" THEN current \in Entries ELSE current = NoEntry
  /\ accepted \in Seq(Entries) /\ published \in Seq(Entries)
  /\ settled \in Nat

\* A worker that sleeps while there is something for it to do (an entry in the
\* queue, or the stop) is about to be woken: add() and the destructor notify
\* after they release the mutex, and nothing in between loses the wake-up.
NoLostWakeup ==
  wpc = "asleep" =>
    /\ queue # <<>> => \E p \in Producers : ppc[p] = "notify"
    /\ stop => dpc = "notify"

\* A worker that ended leaves nothing behind and nothing can arrive any more:
\* every entry accepted before the stop was published or skipped.
DrainedAtExit ==
  wpc = "exited" => stop /\ queue = <<>> /\ settled = Len(accepted)

\* The destructor of a writer returns, whatever it finds the worker doing and
\* however many entries wait in the queue.
DestructorReturns == (dpc = "notify") ~> (dpc = "gone")

\* The queue, the condition variable and the stop flag implement the stream:
\* entries are settled in the order add() accepted them, once each, none is
\* lost on the way to a stop, and the worker gets to all of them.
Stream == INSTANCE FrameStream
            WITH running <- wpc # "absent", closed <- stop,
                 finished <- wpc = "exited"
ImplementsStream == Stream!Spec

\* What the worker has not settled yet is what it holds and what is queued, in
\* the order of acceptance: the invariant behind DrainedAtExit and Stream.
InHand == IF wpc = "write" THEN 1 ELSE 0

Ledger == /\ Len(accepted) = settled + InHand + Len(queue)
          /\ wpc = "write" => current = accepted[settled + 1]
          /\ \A i \in 1 .. Len(queue) : queue[i] = accepted[settled + InHand + i]
=============================================================================
