----------------------------- MODULE FrameStream -----------------------------
(***************************************************************************)
(* What a SharedDictWriter promises the threads that hand it data, without *)
(* its queue, its condition variable and its worker thread: what add()     *)
(* accepts is settled in the order it was accepted, each entry once, by    *)
(* publishing it or, when it is too long for the slot, by dropping it; and *)
(* a writer that is closed finishes only when everything is settled.       *)
(***************************************************************************)
EXTENDS Naturals, Sequences

CONSTANTS Producers,   \* the threads that call add()
          Payloads,    \* what they hand over
          TooLong      \* the payloads longer than size_per_frame

VARIABLES running,     \* the writer found its buffer when it was constructed
          accepted,    \* every entry add() took, in order
          settled,     \* how many of them are published or dropped
          published,   \* the entries published, in order
          closed,      \* nothing is accepted any more
          finished     \* nothing is published any more

vars == <<running, accepted, settled, published, closed, finished>>

Entries == [by : Producers, payload : Payloads]

Init == /\ running \in BOOLEAN
        /\ accepted = <<>> /\ settled = 0 /\ published = <<>>
        /\ closed = FALSE /\ finished = FALSE

Accept(e) == /\ ~closed
             /\ accepted' = Append(accepted, e)
             /\ UNCHANGED <<running, settled, published, closed, finished>>

Close == /\ ~closed
         /\ closed' = TRUE
         /\ UNCHANGED <<running, accepted, settled, published, finished>>

Settle == /\ running /\ ~finished
          /\ settled < Len(accepted)
          /\ settled' = settled + 1
          /\ LET e == accepted[settled + 1]
             IN published' = IF e.payload \in TooLong THEN published
                                                       ELSE Append(published, e)
          /\ UNCHANGED <<running, accepted, closed, finished>>

Finish == /\ running /\ closed /\ ~finished
          /\ settled = Len(accepted)
          /\ finished' = TRUE
          /\ UNCHANGED <<running, accepted, settled, published, closed>>

Next == (\E e \in Entries : Accept(e)) \/ Close \/ Settle \/ Finish

Spec == Init /\ [][Next]_vars /\ WF_vars(Settle) /\ WF_vars(Finish)
=============================================================================
