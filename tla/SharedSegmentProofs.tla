------------------------- MODULE SharedSegmentProofs -------------------------
(***************************************************************************)
(* Proofs about SharedSegment, for any number of buffers, clients and      *)
(* memory objects and any number of crashes and restarts of the master.    *)
(*                                                                         *)
(* What makes the walks safe is that parts only ever disappear in Clear:   *)
(* whatever the probe or a client relies on is remembered in a history     *)
(* variable that Clear resets, and everything else keeps it (MasterKeeps).  *)
(***************************************************************************)
EXTENDS SharedSegment, TLAPS

LEMMA BuffersNat == Buffers \subseteq Nat \ {0} /\ Len(Config) \in Nat /\ 1 \in Buffers
                    /\ Len(Expected) \in Nat /\ Buffers = 1 .. Len(Config)
<1>1. Len(Config) \in Nat /\ Len(Expected) \in Nat /\ Len(Config) > 0
  BY SegmentAssumption
<1> QED
  BY <1>1 DEF Buffers

LEMMA Init1 == Init => Inv
<1> SUFFICES ASSUME Init PROVE Inv
  OBVIOUS
<1>1. TypeOK
  BY BuffersNat DEF Init, TypeOK, Attached
<1>2. ProbeKnows
  BY DEF Init, ProbeKnows
<1>3. TrustKnows
  BY DEF Init, TrustKnows
<1> QED
  BY <1>1, <1>2, <1>3 DEF Inv

-----------------------------------------------------------------------------
(***************************************************************************)
(* Types.                                                                  *)
(***************************************************************************)

LEMMA TypeMaster == TypeOK /\ Master => TypeOK'
<1> SUFFICES ASSUME TypeOK, Master PROVE TypeOK'
  OBVIOUS
<1> USE DEF TypeOK, clientVars, probeVars, historyVars, segmentVars, masterVars
<1>1. CASE Create
  <2>1. UNCHANGED <<clientVars, probeVars, steady, whole, trusting>> /\ mpc' = "created"
    BY <1>1 DEF Create
  <2>2. CASE linked # None
    <3>1. mobj' = linked /\ UNCHANGED <<linked, sized, written, vouched>>
      BY <1>1, <2>2 DEF Create
    <3> QED
      BY <2>1, <2>2, <3>1
  <2>3. CASE linked = None
    <3>1. /\ mobj' \in Objects /\ linked' = mobj' /\ vouched' = None
          /\ sized' = sized \ {mobj'} /\ written' = [written EXCEPT ![mobj'] = {}]
      BY <1>1, <2>3 DEF Create
    <3> QED
      BY <2>1, <3>1
  <2> QED
    BY <2>2, <2>3
<1>2. CASE Size
  BY <1>2 DEF Size
<1>3. ASSUME NEW part \in Parts, Clear(part) PROVE TypeOK'
  <2>1. /\ written' = [written EXCEPT ![mobj] = @ \ {part}] /\ mpc = "clearing"
        /\ UNCHANGED <<linked, sized, masterVars, clientVars, probeVars>>
    BY <1>3 DEF Clear
  <2>2. written' \in [Objects -> SUBSET Parts]
    BY <2>1
  <2>3. steady' \in BOOLEAN /\ whole' \in BOOLEAN /\ vouched' \in Objects \cup {None}
        /\ trusting' \subseteq Clients
    BY <1>3 DEF Clear
  <2> QED
    BY <2>1, <2>2, <2>3
<1>4. CASE Cleared
  BY <1>4 DEF Cleared
<1>5. ASSUME NEW part \in Parts, Store(part) PROVE TypeOK'
  <2>1. /\ written' = [written EXCEPT ![mobj] = @ \cup {part}]
        /\ UNCHANGED <<linked, sized, masterVars, clientVars, probeVars, whole, vouched, trusting>>
    BY <1>5 DEF Store
  <2>2. written' \in [Objects -> SUBSET Parts]
    BY <2>1
  <2>3. steady' \in BOOLEAN
    BY <1>5 DEF Store
  <2> QED
    BY <2>1, <2>2, <2>3
<1>6. CASE Serve
  BY <1>6 DEF Serve
<1>7. CASE Exit
  BY <1>7 DEF Exit
<1>8. CASE Crash
  BY <1>8 DEF Crash
<1> QED
  BY <1>1, <1>2, <1>3, <1>4, <1>5, <1>6, <1>7, <1>8 DEF Master

LEMMA TypeClient ==
  ASSUME TypeOK, NEW c \in Clients, Client(c) PROVE TypeOK'
<1> USE DEF TypeOK, probeVars, historyVars, segmentVars, masterVars, GoTo, Attached
<1>1. CASE Open(c)
  BY <1>1 DEF Open
<1>2. CASE Map(c)
  BY <1>2 DEF Map
<1>3. CASE ReadCount(c)
  BY <1>3, BuffersNat DEF ReadCount
<1>4. CASE MatchName(c)
  BY <1>4 DEF MatchName
<1>5. CASE Skip(c)
  <2>1. at' \in [Clients -> Buffers]
    BY <1>5, BuffersNat DEF Skip
  <2> QED
    BY <1>5, <2>1 DEF Skip
<1>6. CASE Close(c)
  BY <1>6, BuffersNat DEF Close
<1> QED
  BY <1>1, <1>2, <1>3, <1>4, <1>5, <1>6 DEF Client

LEMMA TypeProbe == TypeOK /\ ProbeKnows /\ Probe => TypeOK'
<1> SUFFICES ASSUME TypeOK, ProbeKnows, Probe PROVE TypeOK'
  OBVIOUS
<1> USE DEF TypeOK, clientVars, historyVars, segmentVars, masterVars, Say
<1>1. CASE BeginProbe
  <2>1. steady' \in BOOLEAN /\ whole' \in BOOLEAN
    BY <1>1 DEF BeginProbe, Finished
  <2> QED
    BY <1>1, <2>1 DEF BeginProbe
<1>2. CASE ProbeCount
  BY <1>2, BuffersNat DEF ProbeCount, ProbeKnows
<1>3. CASE ProbeHeader
  <2>1. Len(Config) = Len(Expected) /\ pat \in Buffers /\ pobj \in Objects /\ ppc = "header"
    BY <1>3 DEF ProbeHeader, ProbeKnows
  <2>2. vouched' \in Objects \cup {None}
    BY <1>3, <2>1 DEF ProbeHeader
  <2>3. /\ ppc' \in {"header", "yes", "no"} /\ pobj' \in Objects \cup {None}
        /\ ppc' = "header" => pobj' \in Objects
    BY <1>3, <2>1 DEF ProbeHeader
  <2>4. pat' \in Buffers
    BY <1>3, <2>1, BuffersNat DEF ProbeHeader
  <2>5. UNCHANGED <<segmentVars, masterVars, clientVars, steady, whole, trusting>>
    BY <1>3 DEF ProbeHeader
  <2> QED
    BY <2>2, <2>3, <2>4, <2>5, BuffersNat
<1> QED
  BY <1>1, <1>2, <1>3 DEF Probe

LEMMA TypeStep == TypeOK /\ ProbeKnows /\ [Next]_vars => TypeOK'
<1> SUFFICES ASSUME TypeOK, ProbeKnows, [Next]_vars PROVE TypeOK'
  OBVIOUS
<1>1. CASE UNCHANGED vars
  BY <1>1 DEF vars, TypeOK, clientVars, probeVars, historyVars, segmentVars, masterVars
<1> QED
  BY <1>1, TypeMaster, TypeProbe, TypeClient DEF Next

-----------------------------------------------------------------------------
(***************************************************************************)
(* Parts stay where they are.                                              *)
(***************************************************************************)

\* Object o keeps its size and its parts.
Kept(o) == (o \in sized => o \in sized') /\ written[o] \subseteq written'[o]

LEMMA WalkableKept ==
  ASSUME NEW o, Kept(o), Walkable(o) PROVE Walkable(o)'
BY DEF Kept, Walkable

\* A step of the master other than Clear takes nothing away from an object that
\* is linked or that somebody has mapped.
LEMMA MasterKeeps ==
  ASSUME TypeOK, Create \/ Size \/ Cleared \/ Serve \/ Exit \/ Crash \/ (\E part \in Parts : Store(part)),
         NEW o \in Objects, o \in {linked, pobj} \cup {cobj[c] : c \in Clients}
  PROVE  Kept(o)
<1> USE DEF Kept, TypeOK, segmentVars
<1>1. CASE Create
  <2>1. CASE linked # None
    BY <1>1, <2>1 DEF Create
  <2>2. CASE linked = None
    <3>1. /\ mobj' \in Objects \ InUse
          /\ sized' = sized \ {mobj'} /\ written' = [written EXCEPT ![mobj'] = {}]
      BY <1>1, <2>2 DEF Create
    <3>2. o \in InUse
      BY DEF InUse
    <3> QED
      BY <3>1, <3>2
  <2> QED
    BY <2>1, <2>2
<1>2. CASE Size
  BY <1>2 DEF Size
<1>3. CASE Cleared
  BY <1>3 DEF Cleared
<1>4. ASSUME NEW part \in Parts, Store(part) PROVE Kept(o)
  BY <1>4 DEF Store
<1>5. CASE Serve
  BY <1>5 DEF Serve
<1>6. CASE Exit
  BY <1>6 DEF Exit
<1>7. CASE Crash
  BY <1>7 DEF Crash
<1> QED
  BY <1>1, <1>2, <1>3, <1>4, <1>5, <1>6, <1>7

\* Clear takes parts of the master's own object only.
LEMMA ClearKeeps ==
  ASSUME TypeOK, NEW part, Clear(part), NEW o \in Objects, o # mobj PROVE Kept(o)
BY DEF Clear, Kept, TypeOK

-----------------------------------------------------------------------------
(***************************************************************************)
(* TrustedAttach.                                                          *)
(***************************************************************************)

LEMMA TrustMaster == TypeOK /\ TrustKnows /\ Master => TrustKnows'
<1> SUFFICES ASSUME TypeOK, TrustKnows, Master, NEW c \in trusting'
             PROVE  (/\ cpc[c] \in {"stat", "count", "name", "skip", "ready"}
                     /\ Walkable(cobj[c])
                     /\ cpc[c] \in {"name", "skip"} =>
                          \A i \in Buffers : i < at[c] => Config[i] # Wants[c]
                     /\ cpc[c] = "skip" => Config[at[c]] # Wants[c])'
  BY DEF TrustKnows
<1>1. c \in trusting /\ UNCHANGED <<cpc, cobj, at>>
  BY DEF Master, Create, Size, Clear, Cleared, Store, Serve, Exit, Crash, clientVars, historyVars
<1>2. cobj[c] \in Objects /\ c \in Clients
  BY <1>1 DEF TypeOK, TrustKnows, Attached
<1>3. Kept(cobj[c])
  <2>1. ASSUME NEW part \in Parts, Clear(part) PROVE Kept(cobj[c])
    <3>1. cobj[c] # mobj
      BY <2>1 DEF Clear
    <3> QED
      BY <1>2, <2>1, <3>1, ClearKeeps
  <2>2. CASE ~(\E part \in Parts : Clear(part))
    BY <1>2, <2>2, MasterKeeps DEF Master
  <2> QED
    BY <2>1, <2>2
<1>4. Walkable(cobj[c])
  BY <1>1 DEF TrustKnows
<1>5. Walkable(cobj[c])'
  BY <1>1, <1>3, <1>4 DEF Walkable, Kept
<1> QED
  BY <1>1, <1>5 DEF TrustKnows

LEMMA TrustProbe == TrustKnows /\ Probe => TrustKnows'
BY DEF TrustKnows, Walkable, Probe, BeginProbe, ProbeCount, ProbeHeader, Say,
       segmentVars, clientVars, historyVars

LEMMA TrustClient ==
  ASSUME TypeOK, TrustKnows, ProbeKnows, NEW c \in Clients, Client(c) PROVE TrustKnows'
<1>1. /\ cpc \in [Clients -> Attached \cup {"idle", "absent", "threw"}]
      /\ cobj \in [Clients -> Objects \cup {None}]
      /\ at \in [Clients -> Buffers] /\ trusting \subseteq Clients
  BY DEF TypeOK
<1> DEFINE Knows(d) == /\ cpc[d] \in {"stat", "count", "name", "skip", "ready"}
                       /\ Walkable(cobj[d])
                       /\ cpc[d] \in {"name", "skip"} =>
                            \A i \in Buffers : i < at[d] => Config[i] # Wants[d]
                       /\ cpc[d] = "skip" => Config[at[d]] # Wants[d]
<1>2. UNCHANGED segmentVars
  BY DEF Client, Open, Map, ReadCount, MatchName, Skip, Close
<1>3. ASSUME NEW o, Walkable(o) PROVE Walkable(o)'
  BY <1>2, <1>3 DEF Walkable, segmentVars
<1>4. ASSUME NEW d \in trusting', d # c PROVE Knows(d)'
  <2>1. /\ d \in trusting /\ d \in Clients
        /\ cpc'[d] = cpc[d] /\ cobj'[d] = cobj[d] /\ at'[d] = at[d]
    BY <1>1, <1>4 DEF Client, Open, Map, ReadCount, MatchName, Skip, Close, GoTo, historyVars
  <2>2. Knows(d)
    BY <2>1 DEF TrustKnows
  <2>3. Walkable(cobj[d])'
    BY <1>3, <2>1, <2>2 DEF Walkable, segmentVars, Client
  <2> QED
    BY <2>1, <2>2, <2>3
<1>5. ASSUME c \in trusting' PROVE Knows(c)'
  <2>1. CASE Open(c)
    <3>1. linked # None /\ cpc'[c] = "stat" /\ cobj'[c] = linked
      BY <1>1, <1>5, <2>1 DEF Open, GoTo, TrustKnows
    <3>2. Finished(linked) \/ vouched = linked
      BY <1>1, <1>5, <2>1, <3>1 DEF Open, GoTo, TrustKnows
    <3>3. Walkable(linked)
      BY <3>1, <3>2 DEF ProbeKnows, Finished, Walkable, Parts, Name, Dims
    <3> QED
      BY <1>2, <3>1, <3>3 DEF Walkable, segmentVars
  <2> SUFFICES ASSUME ~Open(c) PROVE Knows(c)'
    BY <2>1
  <2>2. c \in trusting /\ cobj' = cobj
    BY <1>1, <1>5 DEF Client, Map, ReadCount, MatchName, Skip, Close, historyVars
  <2>3. Knows(c)
    BY <2>2 DEF TrustKnows
  <2>4. Walkable(cobj[c])'
    BY <1>2, <2>2, <2>3 DEF Walkable, segmentVars
  <2>5. CASE Map(c)
    BY <1>1, <2>3, <2>4, <2>5 DEF Map, GoTo, Walkable
  <2>6. CASE ReadCount(c)
    <3>1. cpc'[c] = "name" /\ at'[c] = 1
      BY <1>1, <2>3, <2>6 DEF ReadCount, GoTo, Walkable
    <3>2. \A i \in Buffers : ~(i < 1)
      BY BuffersNat
    <3> QED
      BY <2>4, <3>1, <3>2
  <2>7. CASE MatchName(c)
    <3>1. Name(at[c]) \in written[cobj[c]]
      BY <1>1, <2>3 DEF Walkable
    <3>2. at' = at /\ cpc[c] = "name"
          /\ cpc'[c] = IF Config[at[c]] = Wants[c] THEN "ready" ELSE "skip"
      BY <1>1, <2>7, <3>1 DEF MatchName, GoTo
    <3> QED
      BY <2>3, <2>4, <3>2
  <2>8. CASE Skip(c)
    <3>1. at[c] \in Buffers /\ cpc[c] = "skip"
      BY <1>1, <2>8 DEF Skip
    <3>2. \A i \in Buffers : i <= at[c] => Config[i] # Wants[c]
      BY <2>3, <3>1, BuffersNat
    <3>3. PICK i \in Buffers : Config[i] = Wants[c]
      <4>1. DOMAIN Config = Buffers
        BY SegmentAssumption DEF Buffers
      <4> QED
        BY <4>1, SegmentAssumption DEF Named
    <3>4. at[c] < Len(Config)
      BY <3>1, <3>2, <3>3, BuffersNat
    <3>5. Dims(at[c]) \in written[cobj[c]]
      BY <2>3, <3>1, <3>4 DEF Walkable
    <3>6. cpc'[c] = "name" /\ at'[c] = at[c] + 1
      BY <1>1, <2>8, <3>4, <3>5 DEF Skip, GoTo
    <3>7. \A j \in Buffers : j < at[c] + 1 => Config[j] # Wants[c]
      BY <3>1, <3>2, BuffersNat
    <3> QED
      BY <2>4, <3>6, <3>7
  <2>9. CASE Close(c)
    BY <1>5, <2>9 DEF Close
  <2> QED
    BY <2>5, <2>6, <2>7, <2>8, <2>9 DEF Client
<1> QED
  BY <1>4, <1>5 DEF TrustKnows

-----------------------------------------------------------------------------
(***************************************************************************)
(* What the probe has seen.                                                *)
(***************************************************************************)

LEMMA ProbeMaster ==
  ASSUME TypeOK, ProbeKnows, Master PROVE ProbeKnows'
<1>1. UNCHANGED <<ppc, pobj, pat>>
  BY DEF Master, Create, Size, Clear, Cleared, Store, Serve, Exit, Crash, probeVars
<1>2. CASE Create \/ Size \/ Cleared \/ Serve \/ Exit \/ Crash \/ (\E part \in Parts : Store(part))
  <2>1. ASSUME ppc \in {"map", "header"} PROVE pobj \in Objects /\ Kept(pobj)
    BY <1>2, <2>1, MasterKeeps DEF TypeOK
  <2>2. whole' = whole /\ (steady' => steady)
    <3>1. CASE \E part \in Parts : Store(part)
      BY <3>1 DEF Store, TypeOK
    <3>2. CASE Create \/ Size \/ Cleared \/ Serve \/ Exit \/ Crash
      <4>1. whole' = whole /\ steady' = steady
        BY <3>2 DEF Create, Size, Cleared, Serve, Exit, Crash, historyVars
      <4> QED
        BY <4>1
    <3> QED
      BY <1>2, <3>1, <3>2
  <2>3. ASSUME ppc \in {"map", "header"}, steady' PROVE Finished(pobj)'
    <3>1. steady /\ Finished(pobj)
      BY <2>2, <2>3 DEF ProbeKnows
    <3>2. CASE \E part \in Parts : Store(part)
      <4>1. pobj # mobj
        BY <2>3, <3>2 DEF Store
      <4> QED
        BY <1>1, <2>1, <2>3, <3>1, <3>2, <4>1 DEF Store, Finished, TypeOK
    <3>3. CASE Create
      <4>1. CASE linked # None
        BY <1>1, <3>1, <3>3, <4>1 DEF Create, Finished, segmentVars
      <4>2. CASE linked = None
        <5>1. /\ mobj' \in Objects \ InUse
              /\ sized' = sized \ {mobj'} /\ written' = [written EXCEPT ![mobj'] = {}]
          BY <3>3, <4>2 DEF Create
        <5>2. pobj # mobj'
          BY <5>1 DEF InUse
        <5> QED
          BY <1>1, <2>1, <2>3, <3>1, <5>1, <5>2 DEF Finished, TypeOK
      <4> QED
        BY <4>1, <4>2
    <3>4. CASE Size
      BY <1>1, <3>1, <3>4 DEF Size, Finished
    <3>5. CASE Cleared \/ Serve \/ Exit \/ Crash
      BY <1>1, <3>1, <3>5 DEF Cleared, Serve, Exit, Crash, Finished, segmentVars
    <3> QED
      BY <1>2, <3>2, <3>3, <3>4, <3>5
  <2>4. ASSUME ppc = "header", whole'
        PROVE  /\ pobj \in sized' /\ Count \in written'[pobj]
               /\ \A i \in Buffers : i < pat => Name(i) \in written'[pobj]
               /\ \A i \in Buffers : i < pat => Dims(i) \in written'[pobj]
    BY <2>1, <2>2, <2>4 DEF ProbeKnows, Kept
  <2>5. ASSUME vouched' # None PROVE Walkable(vouched)'
    <3>1. vouched' = vouched /\ Walkable(vouched)
      BY <1>2, <2>5 DEF Create, Size, Cleared, Store, Serve, Exit, Crash, historyVars, ProbeKnows
    <3>2. Kept(vouched)
      <4>1. CASE Create
        <5>1. linked # None
          BY <2>5, <4>1 DEF Create
        <5> QED
          BY <4>1, <5>1 DEF Create, Kept, segmentVars
      <4>2. CASE Size
        BY <4>2 DEF Size, Kept
      <4>3. ASSUME NEW part \in Parts, Store(part) PROVE Kept(vouched)
        BY <2>5, <3>1, <4>3 DEF Store, Kept, TypeOK
      <4>4. CASE Cleared \/ Serve \/ Exit \/ Crash
        BY <4>4 DEF Cleared, Serve, Exit, Crash, Kept, segmentVars
      <4> QED
        BY <1>2, <4>1, <4>2, <4>3, <4>4
    <3>3. Walkable(vouched)'
      BY <3>1, <3>2 DEF Walkable, Kept
    <3> QED
      BY <3>3
  <2> QED
    BY <1>1, <2>3, <2>4, <2>5 DEF ProbeKnows
<1>3. ASSUME NEW part \in Parts, Clear(part) PROVE ProbeKnows'
  <2>1. /\ steady' = (steady /\ pobj # mobj) /\ whole' = (whole /\ pobj # mobj)
        /\ vouched' = IF vouched = mobj THEN None ELSE vouched
    BY <1>3 DEF Clear
  <2>2. ASSUME NEW o \in Objects, o # mobj PROVE sized' = sized /\ written'[o] = written[o]
    BY <1>3, <2>2 DEF Clear, TypeOK
  <2>3. ASSUME ppc = "header", whole'
        PROVE  /\ pobj \in sized' /\ Count \in written'[pobj]
               /\ \A i \in Buffers : i < pat => Name(i) \in written'[pobj]
               /\ \A i \in Buffers : i < pat => Dims(i) \in written'[pobj]
    BY <2>1, <2>2, <2>3 DEF ProbeKnows, TypeOK
  <2>4. ASSUME ppc \in {"map", "header"}, steady' PROVE Finished(pobj)'
    BY <1>1, <2>1, <2>2, <2>4 DEF ProbeKnows, TypeOK, Finished
  <2>5. ASSUME vouched' # None PROVE Walkable(vouched)'
    <3>1. vouched' = vouched /\ vouched # mobj /\ vouched \in Objects /\ Walkable(vouched)
      BY <2>1, <2>5 DEF ProbeKnows, TypeOK
    <3> QED
      BY <2>2, <3>1 DEF Walkable
  <2> QED
    BY <1>1, <2>3, <2>4, <2>5 DEF ProbeKnows
<1> QED
  BY <1>2, <1>3 DEF Master

LEMMA ProbeItself ==
  ASSUME TypeOK, ProbeKnows, Probe PROVE ProbeKnows'
<1> USE DEF segmentVars, masterVars, clientVars, historyVars, Say
<1>1. UNCHANGED segmentVars
  BY DEF Probe, BeginProbe, ProbeCount, ProbeHeader
<1>2. ASSUME vouched' = vouched, vouched # None PROVE Walkable(vouched)'
  BY <1>1, <1>2 DEF ProbeKnows, Walkable
<1>3. CASE BeginProbe
  BY <1>1, <1>2, <1>3 DEF BeginProbe, ProbeKnows, Finished
<1>4. CASE ProbeCount
  <2>1. pat = 1 /\ ppc = "map"
    BY <1>4 DEF ProbeCount, ProbeKnows
  <2>2. \A i \in Buffers : ~(i < 1)
    BY BuffersNat
  <2>3. CASE ppc' = "header"
    <3>1. /\ pobj \in sized /\ Count \in written[pobj] /\ Len(Config) = Len(Expected)
          /\ UNCHANGED <<pobj, pat, steady, whole, vouched>>
      BY <1>4, <2>3 DEF ProbeCount
    <3>2. steady => Finished(pobj)
      BY <2>1 DEF ProbeKnows
    <3> QED
      BY <1>1, <1>2, <2>1, <2>2, <2>3, <3>1, <3>2 DEF ProbeKnows, Finished
  <2>4. CASE ppc' # "header"
    <3>1. ppc' = "no" /\ vouched' = vouched
      BY <1>4, <2>4 DEF ProbeCount
    <3> QED
      BY <1>2, <3>1 DEF ProbeKnows
  <2> QED
    BY <2>3, <2>4
<1>5. CASE ProbeHeader
  <2>1. /\ ppc = "header" /\ Len(Config) = Len(Expected) /\ pat \in Buffers /\ pobj \in Objects
        /\ steady' = steady /\ whole' = whole
    BY <1>5 DEF ProbeHeader, ProbeKnows, TypeOK
  <2>2. steady => Finished(pobj)
    BY <2>1 DEF ProbeKnows
  <2>3. whole => /\ pobj \in sized /\ Count \in written[pobj]
                 /\ \A i \in Buffers : i < pat => Name(i) \in written[pobj]
                 /\ \A i \in Buffers : i < pat => Dims(i) \in written[pobj]
    BY <2>1 DEF ProbeKnows
  <2>4. CASE /\ Name(pat) \in written[pobj] /\ pat = Len(Expected)
             /\ ppc' = "yes" /\ vouched' = IF whole THEN pobj ELSE vouched
    <3>1. whole => Walkable(pobj)
      <4>1. \A i \in Buffers : i < pat \/ i = pat
        BY <2>1, <2>4, BuffersNat
      <4> QED
        BY <2>1, <2>3, <2>4, <4>1 DEF Walkable
    <3>2. vouched' # None => Walkable(vouched)'
      BY <1>1, <1>2, <2>4, <3>1 DEF Walkable
    <3> QED
      BY <2>4, <3>2 DEF ProbeKnows
  <2>5. CASE /\ Name(pat) \in written[pobj] /\ Dims(pat) \in written[pobj]
             /\ pat < Len(Expected) /\ pat' = pat + 1
             /\ UNCHANGED <<ppc, pobj, vouched>>
    <3>1. \A i \in Buffers : i < pat + 1 => i < pat \/ i = pat
      BY <2>1, BuffersNat
    <3>2. whole => /\ \A i \in Buffers : i < pat' => Name(i) \in written[pobj]
                   /\ \A i \in Buffers : i < pat' => Dims(i) \in written[pobj]
      BY <2>3, <2>5, <3>1
    <3>3. vouched' # None => Walkable(vouched)'
      BY <1>2, <2>5
    <3>4. steady' => Finished(pobj)'
      BY <1>1, <2>1, <2>2, <2>5 DEF Finished
    <3> QED
      BY <1>1, <2>1, <2>3, <2>5, <3>2, <3>3, <3>4 DEF ProbeKnows
  <2>6. CASE ppc' = "no" /\ vouched' = vouched
    BY <1>2, <2>6 DEF ProbeKnows
  <2> QED
    BY <1>5, <2>4, <2>5, <2>6 DEF ProbeHeader
<1> QED
  BY <1>3, <1>4, <1>5 DEF Probe

LEMMA ProbeClient ==
  ASSUME ProbeKnows, NEW c \in Clients, Client(c) PROVE ProbeKnows'
<1>1. UNCHANGED <<segmentVars, probeVars, steady, whole, vouched>>
  BY DEF Client, Open, Map, ReadCount, MatchName, Skip, Close, historyVars
<1> QED
  BY <1>1 DEF ProbeKnows, Walkable, Finished, segmentVars, probeVars

LEMMA InvStep == Inv /\ [Next]_vars => Inv'
<1> SUFFICES ASSUME Inv, [Next]_vars PROVE Inv'
  OBVIOUS
<1> USE DEF Inv
<1>1. TypeOK'
  BY TypeStep
<1>2. CASE UNCHANGED vars
  <2>1. ProbeKnows' /\ TrustKnows'
    BY <1>2 DEF vars, segmentVars, masterVars, clientVars, probeVars, historyVars,
                ProbeKnows, TrustKnows, Walkable, Finished
  <2> QED
    BY <1>1, <2>1
<1>3. CASE Next
  <2>1. ProbeKnows'
    BY <1>3, ProbeMaster, ProbeItself, ProbeClient DEF Next
  <2>2. TrustKnows'
    BY <1>3, TrustMaster, TrustProbe, TrustClient DEF Next
  <2> QED
    BY <1>1, <2>1, <2>2
<1> QED
  BY <1>2, <1>3

LEMMA Invariance == Spec => []Inv
BY Init1, InvStep, PTL DEF Spec

-----------------------------------------------------------------------------
(***************************************************************************)
(* Theorems.                                                               *)
(***************************************************************************)

\* Every variable keeps its type, the master works on the linked object, and
\* the walks of clients and probe stay on the buffers of the layout.
THEOREM TypeCorrect == Spec => []TypeOK
<1>1. Inv => TypeOK
  BY DEF Inv
<1> QED
  BY <1>1, Invariance, PTL

\* A client that opens a finished segment, or one the probe said yes to, does
\* not fail to attach unless a master begins to clear that segment again.
THEOREM AttachesWhenTrusted == Spec => []TrustedAttach
<1>1. Inv => TrustedAttach
  BY DEF Inv, TrustKnows, TrustedAttach
<1> QED
  BY <1>1, Invariance, PTL

\* The probe never says no to a finished segment nobody touches, provided that
\* it expects exactly the buffers the master makes.
THEOREM ProbeIsRight == ASSUME Expected = Config PROVE Spec => ProbeSeesService
<1>1. ASSUME Inv, [Next]_vars
      PROVE  [steady /\ ppc' = "no" => ~(ppc \in {"map", "header"})]_vars
  <2>1. SUFFICES ASSUME Next, steady, ppc' = "no", ppc \in {"map", "header"} PROVE FALSE
    BY <1>1
  <2>2. Finished(pobj)
    BY <1>1, <2>1 DEF Inv, ProbeKnows
  <2>3. Probe
    BY <2>1 DEF Next, Master, Create, Size, Clear, Cleared, Store, Serve, Exit, Crash,
                Client, Open, Map, ReadCount, MatchName, Skip, Close, probeVars
  <2>4. CASE ProbeCount
    BY <2>1, <2>2, <2>4 DEF ProbeCount, Finished, Parts
  <2>5. CASE ProbeHeader
    <3>1. pat \in Buffers /\ Name(pat) \in written[pobj] /\ Dims(pat) \in written[pobj]
      BY <1>1, <2>2, <2>5 DEF ProbeHeader, Inv, TypeOK, Finished, Parts, Name, Dims
    <3>2. pat = Len(Expected) \/ pat < Len(Expected)
      BY <3>1, BuffersNat
    <3> QED
      BY <2>1, <2>5, <3>1, <3>2 DEF ProbeHeader, Say
  <2>6. CASE BeginProbe
    BY <2>1, <2>6 DEF BeginProbe
  <2> QED
    BY <2>3, <2>4, <2>5, <2>6 DEF Probe
<1> QED
  BY <1>1, Invariance, PTL DEF Spec, ProbeSeesService
=============================================================================
