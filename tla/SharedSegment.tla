---------------------------- MODULE SharedSegment ----------------------------
(***************************************************************************)
(* The shared-memory segment as a whole: the master that creates, clears,  *)
(* describes and unlinks it, the clients that attach to it, and the probe  *)
(* with which the web collector asks whether it is there.                  *)
(*                                                                         *)
(* A name in the file system links a memory object; an object lives on     *)
(* while a process has it mapped.  What an object holds is the set of its  *)
(* parts that are written: the number of buffers and, for each buffer, its *)
(* name and its dimensions (num_frames, size_per_frame, offset).  They are *)
(* plain stores with no fence, after a memset of the whole region, so      *)
(* another process may see them in any order, and sees half-written        *)
(* dimensions as missing ones.  A client that steps over a buffer without  *)
(* its dimensions lands inside that buffer's frames, where no name is.     *)
(*                                                                         *)
(* One master runs at a time.  It may crash at every step, which leaves    *)
(* the segment behind for the next one to take over.                       *)
(***************************************************************************)
EXTENDS Naturals, Sequences

CONSTANTS Names,     \* the names of buffers
          Config,    \* the names under shared_memory, in order
          Expected,  \* the names the probe looks for, in order
          Clients,   \* processes that construct a client
          Wants,     \* the name each of them looks for
          Objects,   \* memory objects
          None       \* no object

Buffers == 1 .. Len(Config)
Named(seq, name) == \E i \in DOMAIN seq : seq[i] = name

ASSUME SegmentAssumption ==
  /\ Config \in Seq(Names) /\ Expected \in Seq(Names) /\ Len(Config) > 0
  /\ \A i, j \in Buffers : Config[i] = Config[j] => i = j
  /\ \A c \in Clients : Named(Config, Wants[c])
  /\ None \notin Objects

Count   == <<"count", 0>>
Name(i) == <<"name", i>>
Dims(i) == <<"dims", i>>
Parts   == {Count} \cup ({"name", "dims"} \X Buffers)

VARIABLES linked,    \* the object the name of the segment refers to
          sized,     \* the objects that ftruncate has given their size
          written,   \* the parts each object holds
          mpc,       \* where the master is
          mobj,      \* its object
          cpc,       \* where each client is in its constructor, or what came of it
          cobj,      \* its object
          at,        \* the buffer it is at
          ppc,       \* where the probe is, or its last answer
          pobj,      \* the object it looks at
          pat,       \* the buffer it is at
          steady,    \* nothing was written to that object since the probe
                     \* began, and it was finished then (history)
          whole,     \* nothing was cleared in it since the probe began (history)
          vouched,   \* the object the probe found ready and nobody has begun to
                     \* clear since (history)
          trusting   \* the clients that opened a finished or vouched-for object
                     \* that nobody has begun to clear since (history)

segmentVars == <<linked, sized, written>>
masterVars  == <<mpc, mobj>>
clientVars  == <<cpc, cobj, at>>
probeVars   == <<ppc, pobj, pat>>
historyVars == <<steady, whole, vouched, trusting>>
vars == <<segmentVars, masterVars, clientVars, probeVars, historyVars>>

Init == /\ linked = None /\ sized = {} /\ written = [o \in Objects |-> {}]
        /\ mpc = "down" /\ mobj = None
        /\ cpc = [c \in Clients |-> "idle"]
        /\ cobj = [c \in Clients |-> None]
        /\ at = [c \in Clients |-> 1]
        /\ ppc = "idle" /\ pobj = None /\ pat = 1
        /\ steady = FALSE /\ whole = FALSE /\ vouched = None /\ trusting = {}

Finished(o) == o \in sized /\ written[o] = Parts
InUse == {linked, mobj, pobj} \cup {cobj[c] : c \in Clients}

-----------------------------------------------------------------------------
(***************************************************************************)
(* The master.                                                             *)
(***************************************************************************)

\* shm_open with O_CREAT and without O_EXCL: what a crashed master left is
\* taken over as it is.
Create ==
  /\ mpc = "down" /\ mpc' = "created"
  /\ \/ /\ linked # None
        /\ mobj' = linked
        /\ UNCHANGED <<segmentVars, vouched>>
     \/ /\ linked = None
        /\ mobj' \in Objects \ InUse
        /\ linked' = mobj'
        /\ sized' = sized \ {mobj'}
        /\ written' = [written EXCEPT ![mobj'] = {}]
        /\ vouched' = None
  /\ UNCHANGED <<clientVars, probeVars, steady, whole, trusting>>

\* ftruncate and mmap; when either fails the segment is unlinked.
Size ==
  /\ mpc = "created"
  /\ \/ /\ sized' = sized \cup {mobj}
        /\ mpc' = "clearing"
        /\ UNCHANGED <<linked, written, mobj>>
     \/ /\ linked' = None
        /\ mpc' = "down" /\ mobj' = None
        /\ UNCHANGED <<sized, written>>
  /\ UNCHANGED <<clientVars, probeVars, historyVars>>

\* memset, part by part in any order.
Clear(part) ==
  /\ mpc = "clearing" /\ part \in written[mobj]
  /\ written' = [written EXCEPT ![mobj] = @ \ {part}]
  /\ steady' = (steady /\ pobj # mobj)
  /\ whole' = (whole /\ pobj # mobj)
  /\ vouched' = IF vouched = mobj THEN None ELSE vouched
  /\ trusting' = {c \in trusting : cobj[c] # mobj}
  /\ UNCHANGED <<linked, sized, masterVars, clientVars, probeVars>>

\* The end of _initialize_shm.
Cleared ==
  /\ mpc = "clearing" /\ written[mobj] = {}
  /\ mpc' = "describing"
  /\ UNCHANGED <<segmentVars, mobj, clientVars, probeVars, historyVars>>

\* A store of _initialize_metadata.
Store(part) ==
  /\ mpc = "describing" /\ part \in Parts \ written[mobj]
  /\ written' = [written EXCEPT ![mobj] = @ \cup {part}]
  /\ steady' = (steady /\ pobj # mobj)
  /\ UNCHANGED <<linked, sized, masterVars, clientVars, probeVars, whole, vouched, trusting>>

Serve ==
  /\ mpc = "describing" /\ written[mobj] = Parts
  /\ mpc' = "serving"
  /\ UNCHANGED <<segmentVars, mobj, clientVars, probeVars, historyVars>>

\* The destructor unlinks the name; whoever has the object mapped keeps it.
Exit ==
  /\ mpc = "serving"
  /\ mpc' = "down" /\ mobj' = None
  /\ linked' = None
  /\ UNCHANGED <<sized, written, clientVars, probeVars, historyVars>>

Crash ==
  /\ mpc # "down"
  /\ mpc' = "down" /\ mobj' = None
  /\ UNCHANGED <<segmentVars, clientVars, probeVars, historyVars>>

Master == \/ Create \/ Size \/ Cleared \/ Serve \/ Exit \/ Crash
          \/ \E part \in Parts : Clear(part) \/ Store(part)

-----------------------------------------------------------------------------
(***************************************************************************)
(* A client: SharedDictClient's constructor, and the destructor.           *)
(***************************************************************************)

GoTo(c, where) == cpc' = [cpc EXCEPT ![c] = where]

Open(c) ==
  /\ cpc[c] = "idle"
  /\ IF linked = None
       THEN GoTo(c, "absent") /\ UNCHANGED <<cobj, trusting>>
       ELSE /\ GoTo(c, "stat")
            /\ cobj' = [cobj EXCEPT ![c] = linked]
            /\ trusting' = IF Finished(linked) \/ vouched = linked
                             THEN trusting \cup {c} ELSE trusting
  /\ UNCHANGED <<segmentVars, masterVars, at, probeVars, steady, whole, vouched>>

\* fstat and mmap: an object without a size cannot be mapped, and the
\* constructor throws.
Map(c) ==
  /\ cpc[c] = "stat"
  /\ GoTo(c, IF cobj[c] \in sized THEN "count" ELSE "threw")
  /\ UNCHANGED <<segmentVars, masterVars, cobj, at, probeVars, historyVars>>

ReadCount(c) ==
  /\ cpc[c] = "count"
  /\ GoTo(c, IF Count \in written[cobj[c]] THEN "name" ELSE "lost")
  /\ at' = [at EXCEPT ![c] = 1]
  /\ UNCHANGED <<segmentVars, masterVars, cobj, probeVars, historyVars>>

MatchName(c) ==
  /\ cpc[c] = "name"
  /\ GoTo(c, IF Name(at[c]) \in written[cobj[c]] /\ Config[at[c]] = Wants[c]
               THEN "ready" ELSE "skip")
  /\ UNCHANGED <<segmentVars, masterVars, cobj, at, probeVars, historyVars>>

\* Mutant: the walk ends before the last buffer.
SkipButLast(c) ==
  /\ cpc[c] = "skip"
  /\ IF Dims(at[c]) \in written[cobj[c]] /\ at[c] + 1 < Len(Config)
       THEN GoTo(c, "name") /\ at' = [at EXCEPT ![c] = @ + 1]
       ELSE GoTo(c, "lost") /\ UNCHANGED at
  /\ UNCHANGED <<segmentVars, masterVars, cobj, probeVars, historyVars>>

\* The dimensions lead to the next buffer.
Skip(c) ==
  /\ cpc[c] = "skip"
  /\ IF Dims(at[c]) \in written[cobj[c]] /\ at[c] < Len(Config)
       THEN GoTo(c, "name") /\ at' = [at EXCEPT ![c] = @ + 1]
       ELSE GoTo(c, "lost") /\ UNCHANGED at
  /\ UNCHANGED <<segmentVars, masterVars, cobj, probeVars, historyVars>>

\* There is no second attempt: a client that is not ready stays so until its
\* process constructs another one.
Close(c) ==
  /\ cpc[c] \in {"absent", "threw", "lost", "ready"}
  /\ GoTo(c, "idle")
  /\ cobj' = [cobj EXCEPT ![c] = None]
  /\ at' = [at EXCEPT ![c] = 1]
  /\ trusting' = trusting \ {c}
  /\ UNCHANGED <<segmentVars, masterVars, probeVars, steady, whole, vouched>>

Client(c) == \/ Open(c) \/ Map(c) \/ ReadCount(c)
             \/ MatchName(c) \/ Skip(c) \/ Close(c)

-----------------------------------------------------------------------------
(***************************************************************************)
(* The probe of the web collector.                                         *)
(***************************************************************************)

Say(answer) == ppc' = answer /\ pobj' = None /\ pat' = 1

BeginProbe ==
  /\ ppc \in {"idle", "yes", "no"}
  /\ IF linked = None
       THEN Say("no") /\ steady' = FALSE /\ whole' = FALSE
       ELSE /\ ppc' = "map" /\ pobj' = linked /\ pat' = 1
            /\ steady' = Finished(linked) /\ whole' = TRUE
  /\ UNCHANGED <<segmentVars, masterVars, clientVars, vouched, trusting>>

\* Mutant: one buffer more is expected than there are names.
ProbeCountOffByOne ==
  /\ ppc = "map"
  /\ IF /\ pobj \in sized /\ Count \in written[pobj]
        /\ Len(Config) = Len(Expected) + 1
       THEN ppc' = "header" /\ UNCHANGED <<pobj, pat>>
       ELSE Say("no")
  /\ UNCHANGED <<segmentVars, masterVars, clientVars, historyVars>>

\* The segment must have a size and as many buffers as are expected.
ProbeCount ==
  /\ ppc = "map"
  /\ IF /\ pobj \in sized /\ Count \in written[pobj]
        /\ Len(Config) = Len(Expected)
       THEN ppc' = "header" /\ UNCHANGED <<pobj, pat>>
       ELSE Say("no")
  /\ UNCHANGED <<segmentVars, masterVars, clientVars, historyVars>>

\* The names must be the expected ones in the expected order.  The last
\* buffer's dimensions are not needed.
ProbeHeader ==
  /\ ppc = "header"
  /\ LET matches == Name(pat) \in written[pobj] /\ Config[pat] = Expected[pat]
     IN \/ /\ matches /\ pat = Len(Expected)
           /\ Say("yes")
           /\ vouched' = IF whole THEN pobj ELSE vouched
        \/ /\ matches /\ Dims(pat) \in written[pobj] /\ pat < Len(Expected)
           /\ pat' = pat + 1
           /\ UNCHANGED <<ppc, pobj, vouched>>
        \/ /\ ~matches \/ (Dims(pat) \notin written[pobj] /\ pat < Len(Expected))
           /\ Say("no") /\ UNCHANGED vouched
  /\ UNCHANGED <<segmentVars, masterVars, clientVars, steady, whole, trusting>>

Probe == BeginProbe \/ ProbeCount \/ ProbeHeader

Next == Master \/ Probe \/ \E c \in Clients : Client(c)

Spec == Init /\ [][Next]_vars

-----------------------------------------------------------------------------
(***************************************************************************)
(* Properties.                                                             *)
(***************************************************************************)

Attached == {"stat", "count", "name", "skip", "lost", "ready"}

\* The master works on the linked object, processes that are in the segment
\* have an object, and the walks stay on the buffers.
TypeOK ==
  /\ linked \in Objects \cup {None} /\ sized \subseteq Objects
  /\ written \in [Objects -> SUBSET Parts]
  /\ mpc \in {"down", "created", "clearing", "describing", "serving"}
  /\ IF mpc = "down" THEN mobj = None ELSE mobj \in Objects /\ mobj = linked
  /\ cpc \in [Clients -> Attached \cup {"idle", "absent", "threw"}]
  /\ cobj \in [Clients -> Objects \cup {None}]
  /\ \A c \in Clients : cpc[c] \in Attached => cobj[c] \in Objects
  /\ at \in [Clients -> Buffers]
  /\ ppc \in {"idle", "map", "header", "yes", "no"}
  /\ pobj \in Objects \cup {None} /\ (ppc \in {"map", "header"} => pobj \in Objects)
  /\ pat \in Nat \ {0} /\ (ppc = "header" => pat \in Buffers)
  /\ steady \in BOOLEAN /\ whole \in BOOLEAN
  /\ vouched \in Objects \cup {None} /\ trusting \subseteq Clients

\* A client that opens a segment that is finished, or that the probe found
\* ready, attaches to its buffer unless a master begins to clear the segment.
TrustedAttach ==
  \A c \in trusting : cpc[c] \notin {"threw", "lost"}

\* The probe says yes to a finished segment that nobody touches meanwhile.
ProbeSeesService == [][steady /\ ppc' = "no" => ~(ppc \in {"map", "header"})]_vars

-----------------------------------------------------------------------------
(***************************************************************************)
(* What the proofs need to know of a state.                                *)
(***************************************************************************)

\* A walk over the buffers of object o reaches every one of them.
Walkable(o) == /\ o \in sized /\ Count \in written[o]
               /\ \A i \in Buffers : Name(i) \in written[o]
               /\ \A i \in Buffers : i < Len(Config) => Dims(i) \in written[o]

\* What the probe has seen is still there unless a master began to clear it.
ProbeKnows ==
  /\ ppc = "map" => pat = 1
  /\ ppc = "header" =>
       /\ Len(Config) = Len(Expected)
       /\ whole => /\ pobj \in sized /\ Count \in written[pobj]
                   /\ \A i \in Buffers : i < pat => Name(i) \in written[pobj]
                   /\ \A i \in Buffers : i < pat => Dims(i) \in written[pobj]
  /\ ppc \in {"map", "header"} /\ steady => Finished(pobj)
  /\ vouched # None => Walkable(vouched)

\* A trusting client has not walked past its buffer.
TrustKnows ==
  \A c \in trusting :
    /\ cpc[c] \in {"stat", "count", "name", "skip", "ready"}
    /\ Walkable(cobj[c])
    /\ cpc[c] \in {"name", "skip"} =>
         \A i \in Buffers : i < at[c] => Config[i] # Wants[c]
    /\ cpc[c] = "skip" => Config[at[c]] # Wants[c]

Inv == TypeOK /\ ProbeKnows /\ TrustKnows
=============================================================================
