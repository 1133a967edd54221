------------------------------ MODULE RingIndex ------------------------------
(***************************************************************************)
(* Index arithmetic of one shared-memory ring.                             *)
(*                                                                         *)
(* A ring has NumFrames slots and an atomic head, the slot the writer will *)
(* fill next.  Clients ask for slots relative to the head with             *)
(* SharedDictClient::get_head (index 0 is the head itself, 1 the frame     *)
(* completed last, -1 the slot after the head).  The computation mixes     *)
(* int32_t and uint32_t, so the word size matters: Word is the number of   *)
(* values of a uint32_t, 2^32 in the program, a small number in the runs.  *)
(***************************************************************************)
EXTENDS Integers

CONSTANTS NumFrames,   \* Buffer.num_frames
          Word         \* how many values an unsigned word has

\* load() refuses num_frames = 0 and the segment is smaller than 2^32 bytes
\* with at least 16 bytes a frame, so twice num_frames fits in a word.
ASSUME RingAssumption == /\ NumFrames \in Nat \ {0}
                         /\ Word \in Nat \ {0}
                         /\ 2 * NumFrames <= Word

Slots == 0 .. NumFrames - 1

\* static_cast<uint32_t> of an int32_t.
ToWord(i) == i % Word

\* SharedDictClient::get_head: (head % n + n) % n, where head is an int32_t
\* that the usual conversions turn into an unsigned word before the first %.
GetHead(h, index) ==
  ToWord((ToWord(h - index) % NumFrames) + NumFrames) % NumFrames

-----------------------------------------------------------------------------
\* The vocabulary of the properties: the slot after s, how many publications
\* ago slot s was filled when the head is h, and how many publications ago
\* the frame at an index from the head is meant to have been filled.
Succ(s) == IF s = NumFrames - 1 THEN 0 ELSE s + 1

Behind(s, h) == IF s < h THEN h - s ELSE h - s + NumFrames

Age(index) == ((index - 1) % NumFrames) + 1
=============================================================================
