---------------------------- MODULE ServiceProofs ----------------------------
(***************************************************************************)
(* Proofs about Service, for any sensors and any configurations: type      *)
(* correctness, that threads and callbacks find what they use, that a      *)
(* broken sensor stops no other, and that nothing stays open.              *)
(*                                                                         *)
(* The invariant relates the state of each sensor to the jobs that are     *)
(* still to be done for it: one that is open when the scope is left has    *)
(* its destructor before it, and the end of the master comes after it.     *)
(***************************************************************************)
EXTENDS Service, TLAPS

-----------------------------------------------------------------------------
(***************************************************************************)
(* Lists of jobs.                                                          *)
(***************************************************************************)

Jobs == [does : {"create", "make", "start", "stop", "destroy", "unlink"}, what : Sensors \cup {None}]

\* What may come before what: the master first and last, no sensor made or started
\* twice, none made after its start.
Precedes(a, b) ==
  /\ b.does # "create" /\ a.does # "unlink"
  /\ a.does = "make" => b # a
  /\ a.does = "start" => b # a /\ b # Job("make", a.what)

Ordered(jobs) == \A i, j \in 1..Len(jobs) : i < j => Precedes(jobs[i], jobs[j])

LEMMA Elements ==
  ASSUME NEW S, NEW q \in Seq(S)
  PROVE  /\ ToSet(q) = {q[i] : i \in 1..Len(q)} /\ ToSet(q) \subseteq S
         /\ \A i \in 1..Len(q) : q[i] \in S /\ q[i] \in ToSet(q)
BY DEF ToSet

LEMMA ElementsOfConcat ==
  ASSUME NEW S, NEW a \in Seq(S), NEW b \in Seq(S)
  PROVE  a \o b \in Seq(S) /\ ToSet(a \o b) = ToSet(a) \cup ToSet(b)
<1>1. a \o b \in Seq(S)
  OBVIOUS
<1>2. ToSet(a) \cup ToSet(b) \subseteq ToSet(a \o b)
  <2>1. ASSUME NEW i \in 1..Len(a) PROVE a[i] \in ToSet(a \o b)
    <3>1. i \in 1..Len(a \o b) /\ (a \o b)[i] = a[i]
      OBVIOUS
    <3> QED BY <1>1, <3>1, Elements
  <2>2. ASSUME NEW i \in 1..Len(b) PROVE b[i] \in ToSet(a \o b)
    <3>1. Len(a) + i \in 1..Len(a \o b) /\ (a \o b)[Len(a) + i] = b[i]
      OBVIOUS
    <3> QED BY <1>1, <3>1, Elements
  <2> QED BY <2>1, <2>2, Elements
<1>3. ASSUME NEW i \in 1..Len(a \o b) PROVE (a \o b)[i] \in ToSet(a) \cup ToSet(b)
  <2>1. CASE i <= Len(a)
    <3>1. i \in 1..Len(a) /\ (a \o b)[i] = a[i]
      BY <2>1
    <3> QED BY <3>1, Elements
  <2>2. CASE i > Len(a)
    <3>1. i - Len(a) \in 1..Len(b) /\ (a \o b)[i] = b[i - Len(a)]
      BY <2>2
    <3> QED BY <3>1, Elements
  <2> QED BY <2>1, <2>2
<1>4. ToSet(a \o b) = {(a \o b)[i] : i \in 1..Len(a \o b)}
  BY <1>1, Elements
<1> QED BY <1>1, <1>2, <1>3, <1>4

LEMMA OrderedConcat ==
  ASSUME NEW a \in Seq(Jobs), NEW b \in Seq(Jobs), Ordered(a), Ordered(b),
         \A x \in ToSet(a), y \in ToSet(b) : Precedes(x, y)
  PROVE  Ordered(a \o b)
<1> SUFFICES ASSUME NEW i \in 1..Len(a \o b), NEW j \in 1..Len(a \o b), i < j
             PROVE  Precedes((a \o b)[i], (a \o b)[j])
  BY DEF Ordered
<1>1. CASE j <= Len(a)
  <2>1. i \in 1..Len(a) /\ j \in 1..Len(a) /\ (a \o b)[i] = a[i] /\ (a \o b)[j] = a[j]
    BY <1>1
  <2> QED BY <2>1 DEF Ordered
<1>2. CASE i > Len(a)
  <2>1. /\ i - Len(a) \in 1..Len(b) /\ j - Len(a) \in 1..Len(b) /\ i - Len(a) < j - Len(a)
        /\ (a \o b)[i] = b[i - Len(a)] /\ (a \o b)[j] = b[j - Len(a)]
    BY <1>2
  <2> QED BY <2>1 DEF Ordered
<1>3. CASE i <= Len(a) /\ j > Len(a)
  <2>1. /\ i \in 1..Len(a) /\ j - Len(a) \in 1..Len(b)
        /\ (a \o b)[i] = a[i] /\ (a \o b)[j] = b[j - Len(a)]
    BY <1>3
  <2> QED BY <2>1, Elements
<1> QED BY <1>1, <1>2, <1>3

\* The rest of an ordered list, and what its first job says of it.
LEMMA OrderedTail ==
  ASSUME NEW q \in Seq(Jobs), q # << >>, Ordered(q)
  PROVE  /\ Tail(q) \in Seq(Jobs) /\ Ordered(Tail(q))
         /\ Head(q) \in Jobs /\ Head(q) \in ToSet(q)
         /\ ToSet(q) = {Head(q)} \cup ToSet(Tail(q))
         /\ \A job \in ToSet(Tail(q)) : Precedes(Head(q), job)
<1>1. /\ Head(q) = q[1] /\ 1 \in 1..Len(q) /\ Tail(q) \in Seq(Jobs) /\ Len(Tail(q)) = Len(q) - 1
      /\ \A i \in 1..Len(Tail(q)) : Tail(q)[i] = q[i + 1] /\ i + 1 \in 1..Len(q)
  OBVIOUS
<1>2. ASSUME NEW i \in 1..Len(q), i # 1 PROVE i - 1 \in 1..Len(Tail(q)) /\ q[i] = Tail(q)[i - 1]
  <2>1. i \in Int /\ Len(q) \in Nat
    OBVIOUS
  <2>2. i - 1 \in 1..Len(Tail(q)) /\ (i - 1) + 1 = i
    BY <1>1, <1>2, <2>1
  <2> QED BY <1>1, <2>2
<1>3. Ordered(Tail(q))
  <2> SUFFICES ASSUME NEW i \in 1..Len(Tail(q)), NEW j \in 1..Len(Tail(q)), i < j
               PROVE  Precedes(Tail(q)[i], Tail(q)[j])
    BY DEF Ordered
  <2> QED BY <1>1 DEF Ordered
<1>4. ToSet(q) = {Head(q)} \cup ToSet(Tail(q))
  <2>1. ASSUME NEW i \in 1..Len(q) PROVE q[i] \in {Head(q)} \cup ToSet(Tail(q))
    BY <1>1, <1>2, Elements
  <2>2. ASSUME NEW i \in 1..Len(Tail(q)) PROVE Tail(q)[i] \in ToSet(q)
    BY <1>1, Elements
  <2>3. q[1] \in ToSet(q)
    BY <1>1, Elements
  <2>4. /\ ToSet(q) = {q[i] : i \in 1..Len(q)}
        /\ ToSet(Tail(q)) = {Tail(q)[i] : i \in 1..Len(Tail(q))}
    BY <1>1, Elements
  <2>5. ToSet(q) \subseteq {Head(q)} \cup ToSet(Tail(q))
    BY <2>1, <2>4
  <2>6. ToSet(Tail(q)) \subseteq ToSet(q)
    BY <2>2, <2>4
  <2> QED BY <1>1, <2>3, <2>5, <2>6
<1>5. ASSUME NEW job \in ToSet(Tail(q)) PROVE Precedes(Head(q), job)
  <2>1. ToSet(Tail(q)) = {Tail(q)[i] : i \in 1..Len(Tail(q))}
    BY <1>1, Elements
  <2>2. PICK i \in 1..Len(Tail(q)) : job = Tail(q)[i]
    BY <1>5, <2>1
  <2>3. i + 1 \in 1..Len(q) /\ job = q[i + 1]
    BY <1>1, <2>2
  <2>4. 1 < i + 1
    OBVIOUS
  <2>5. Precedes(q[1], q[i + 1])
    BY <1>1, <2>3, <2>4 DEF Ordered
  <2> QED BY <1>1, <2>3, <2>5
<1>6. Head(q) \in Jobs
  BY <1>1
<1> QED BY <1>1, <1>3, <1>4, <1>5, <1>6

LEMMA JobType ==
  ASSUME NEW d \in {"create", "make", "start", "stop", "destroy", "unlink"}, NEW s \in Sensors \cup {None}
  PROVE  Job(d, s) \in Jobs /\ Job(d, s).does = d /\ Job(d, s).what = s
BY DEF Job, Jobs

LEMMA JobsFor ==
  ASSUME NEW d \in {"make", "start", "stop", "destroy"}, NEW q \in Seq(Sensors)
  PROVE  /\ For(d, q) \in Seq(Jobs)
         /\ ToSet(For(d, q)) = {Job(d, s) : s \in ToSet(q)}
         /\ IsInjective(q) \/ d \in {"stop", "destroy"} => Ordered(For(d, q))
<1>1. /\ For(d, q) \in Seq(Jobs) /\ Len(For(d, q)) = Len(q)
      /\ \A i \in 1..Len(q) : For(d, q)[i] = Job(d, q[i]) /\ q[i] \in Sensors
  <2>1. \A i \in 1..Len(q) : q[i] \in Sensors /\ Job(d, q[i]) \in Jobs
    BY JobType
  <2>2. Len(q) \in Nat
    OBVIOUS
  <2> QED BY <2>1, <2>2 DEF For
<1>2. ToSet(For(d, q)) = {Job(d, s) : s \in ToSet(q)}
  <2>1. ToSet(For(d, q)) = {For(d, q)[i] : i \in 1..Len(q)} /\ ToSet(q) = {q[i] : i \in 1..Len(q)}
    BY <1>1, Elements
  <2> QED BY <1>1, <2>1
<1>3. ASSUME IsInjective(q) \/ d \in {"stop", "destroy"} PROVE Ordered(For(d, q))
  <2> SUFFICES ASSUME NEW i \in 1..Len(For(d, q)), NEW j \in 1..Len(For(d, q)), i < j
               PROVE  Precedes(For(d, q)[i], For(d, q)[j])
    BY DEF Ordered
  <2>1. /\ For(d, q)[i] = Job(d, q[i]) /\ For(d, q)[j] = Job(d, q[j]) /\ q[i] \in Sensors
        /\ q[j] \in Sensors
    BY <1>1
  <2>2. d \in {"stop", "destroy"} \/ q[i] # q[j]
    <3>1. i \in DOMAIN q /\ j \in DOMAIN q /\ i # j
      BY <1>1
    <3> QED BY <1>3, <3>1 DEF IsInjective
  <2>3. /\ Job(d, q[i]).does = d /\ Job(d, q[j]).does = d /\ Job(d, q[i]).what = q[i]
        /\ Job(d, q[j]).what = q[j]
    BY <2>1, JobType
  <2> QED BY <2>1, <2>2, <2>3, JobType DEF Precedes
<1> QED BY <1>1, <1>2, <1>3

Present == ToSet(Cameras) \cup ToSet(EventCameras) \cup ToSet(Imus)

LEMMA InjectiveParts ==
  ASSUME NEW S, NEW a \in Seq(S), NEW b \in Seq(S), IsInjective(a \o b)
  PROVE  IsInjective(a) /\ IsInjective(b)
<1>1. /\ DOMAIN a = 1..Len(a) /\ DOMAIN b = 1..Len(b) /\ DOMAIN (a \o b) = 1..(Len(a) + Len(b))
      /\ \A i \in 1..Len(a) : i \in 1..(Len(a) + Len(b)) /\ (a \o b)[i] = a[i]
      /\ \A i \in 1..Len(b) : Len(a) + i \in 1..(Len(a) + Len(b)) /\ (a \o b)[Len(a) + i] = b[i]
  OBVIOUS
<1>2. ASSUME NEW i \in 1..Len(a), NEW j \in 1..Len(a), a[i] = a[j] PROVE i = j
  BY <1>1, <1>2 DEF IsInjective
<1>3. ASSUME NEW i \in 1..Len(b), NEW j \in 1..Len(b), b[i] = b[j] PROVE i = j
  <2>1. Len(a) + i = Len(a) + j
    BY <1>1, <1>3 DEF IsInjective
  <2> QED BY <2>1
<1> QED BY <1>1, <1>2, <1>3 DEF IsInjective

LEMMA ConfiguredSensors ==
  ASSUME config \in Configs
  PROVE  /\ Cameras \in Seq(Sensors) /\ EventCameras \in Seq(Sensors) /\ Imus \in Seq(Sensors)
         /\ IsInjective(Cameras) /\ IsInjective(EventCameras) /\ IsInjective(Imus)
         /\ ToSet(Cameras) \subseteq V4L2 \cup Pylon
         /\ ToSet(EventCameras) \subseteq Event /\ ToSet(Imus) \subseteq Imu
         /\ Present \subseteq Sensors
         /\ Present = ToSet(Cameras \o EventCameras \o Imus)
<1>1. /\ Cameras \in Seq(V4L2 \cup Pylon) /\ EventCameras \in Seq(Event) /\ Imus \in Seq(Imu)
      /\ IsInjective(Cameras \o EventCameras \o Imus)
  <2>1. config \in [cameras : Seq(V4L2 \cup Pylon), events : Seq(Event), imus : Seq(Imu)]
    BY SensorsAssumption
  <2>2. IsInjective(config.cameras \o config.events \o config.imus)
    BY SensorsAssumption
  <2> QED BY <2>1, <2>2 DEF Cameras, EventCameras, Imus
<1>2. Cameras \in Seq(Sensors) /\ EventCameras \in Seq(Sensors) /\ Imus \in Seq(Sensors)
  BY <1>1 DEF Sensors
<1>3. /\ ToSet(Cameras) \subseteq V4L2 \cup Pylon
      /\ ToSet(EventCameras) \subseteq Event /\ ToSet(Imus) \subseteq Imu
  BY <1>1, Elements
<1>4. Cameras \o EventCameras \in Seq(Sensors)
  BY <1>2
<1>5. IsInjective(Cameras \o EventCameras) /\ IsInjective(Imus)
  BY <1>1, <1>2, <1>4, InjectiveParts
<1>6. IsInjective(Cameras) /\ IsInjective(EventCameras)
  BY <1>2, <1>5, InjectiveParts
<1>7. Present = ToSet(Cameras \o EventCameras \o Imus)
  <2>1. ToSet(Cameras \o EventCameras) = ToSet(Cameras) \cup ToSet(EventCameras)
    BY <1>2, ElementsOfConcat
  <2>2. ToSet(Cameras \o EventCameras \o Imus) = ToSet(Cameras \o EventCameras) \cup ToSet(Imus)
    <3> DEFINE both == Cameras \o EventCameras
    <3>1. both \in Seq(Sensors)
      BY <1>4
    <3> HIDE DEF both
    <3>2. ToSet(both \o Imus) = ToSet(both) \cup ToSet(Imus)
      BY <1>2, <3>1, ElementsOfConcat
    <3> QED BY <3>2 DEF both
  <2> QED BY <2>1, <2>2 DEF Present
<1>8. Present \subseteq Sensors
  BY <1>3 DEF Present, Sensors
<1> QED BY <1>2, <1>3, <1>5, <1>6, <1>7, <1>8

\* The jobs for some sensors are put at the end of a list.
LEMMA PutLast ==
  ASSUME NEW a \in Seq(Jobs), Ordered(a), NEW q \in Seq(Sensors),
         NEW d \in {"make", "start", "stop", "destroy"}, IsInjective(q) \/ d \in {"stop", "destroy"},
         \A x \in ToSet(a), s \in ToSet(q) : Precedes(x, Job(d, s))
  PROVE  /\ a \o For(d, q) \in Seq(Jobs) /\ Ordered(a \o For(d, q))
         /\ ToSet(a \o For(d, q)) = ToSet(a) \cup {Job(d, s) : s \in ToSet(q)}
<1>1. /\ For(d, q) \in Seq(Jobs) /\ Ordered(For(d, q))
      /\ ToSet(For(d, q)) = {Job(d, s) : s \in ToSet(q)}
  BY JobsFor
<1> QED BY <1>1, ElementsOfConcat, OrderedConcat

LEMMA SingleJob ==
  ASSUME NEW job \in Jobs
  PROVE  <<job>> \in Seq(Jobs) /\ Ordered(<<job>>) /\ ToSet(<<job>>) = {job}
<1>1. <<job>> \in Seq(Jobs) /\ Len(<<job>>) = 1 /\ <<job>>[1] = job
  OBVIOUS
<1>2. ToSet(<<job>>) = {job}
  <2>1. ToSet(<<job>>) = {<<job>>[i] : i \in 1..1}
    BY <1>1, Elements
  <2> QED BY <1>1, <2>1
<1> QED BY <1>1, <1>2 DEF Ordered

MadeAndStarted(A) ==
  {Job("create", None)} \cup {Job("make", s) : s \in A} \cup {Job("start", s) : s \in A}

\* Some sensors are made, then started, after others.
LEMMA MakeAndStart ==
  ASSUME NEW A \in SUBSET Sensors, NEW a \in Seq(Jobs), Ordered(a), ToSet(a) = MadeAndStarted(A),
         NEW q \in Seq(Sensors), IsInjective(q), ToSet(q) \cap A = {}
  PROVE  /\ A \cup ToSet(q) \in SUBSET Sensors
         /\ a \o For("make", q) \o For("start", q) \in Seq(Jobs)
         /\ Ordered(a \o For("make", q) \o For("start", q))
         /\ ToSet(a \o For("make", q) \o For("start", q)) = MadeAndStarted(A \cup ToSet(q))
<1> USE DEF MadeAndStarted
<1> DEFINE m == a \o For("make", q)
<1>1. \A s \in Sensors : /\ Job("make", s).does = "make" /\ Job("make", s).what = s
                         /\ Job("start", s).does = "start" /\ Job("start", s).what = s
  BY JobType
<1>2. Job("create", None).does = "create" /\ Job("create", None).what = None
  BY JobType
<1>3. ToSet(q) \subseteq Sensors
  BY Elements
<1>4. ASSUME NEW x \in ToSet(a), NEW s \in ToSet(q)
      PROVE  Precedes(x, Job("make", s)) /\ Precedes(x, Job("start", s))
  <2>1. CASE x = Job("create", None)
    BY <1>1, <1>2, <1>3, <2>1 DEF Precedes
  <2>2. ASSUME NEW t \in A, x = Job("make", t)
           PROVE Precedes(x, Job("make", s)) /\ Precedes(x, Job("start", s))
    BY <1>1, <1>3, <2>2 DEF Precedes
  <2>3. ASSUME NEW t \in A, x = Job("start", t)
           PROVE Precedes(x, Job("make", s)) /\ Precedes(x, Job("start", s))
    BY <1>1, <1>3, <2>3 DEF Precedes
  <2> QED BY <2>1, <2>2, <2>3
<1>5. m \in Seq(Jobs) /\ Ordered(m) /\ ToSet(m) = ToSet(a) \cup {Job("make", s) : s \in ToSet(q)}
  BY <1>4, PutLast
<1>6. ASSUME NEW x \in ToSet(m), NEW s \in ToSet(q) PROVE Precedes(x, Job("start", s))
  <2>1. ASSUME NEW t \in ToSet(q), x = Job("make", t) PROVE Precedes(x, Job("start", s))
    BY <1>1, <1>3, <2>1 DEF Precedes
  <2> HIDE DEF m
  <2> QED BY <1>4, <1>5, <2>1
<1> HIDE DEF m
<1>7. /\ m \o For("start", q) \in Seq(Jobs) /\ Ordered(m \o For("start", q))
      /\ ToSet(m \o For("start", q)) = ToSet(m) \cup {Job("start", s) : s \in ToSet(q)}
  BY <1>5, <1>6, PutLast
<1>8. m = a \o For("make", q)
  BY DEF m
<1>9. A \cup ToSet(q) \in SUBSET Sensors
  BY <1>3
<1>10. /\ {Job("make", s) : s \in A \cup ToSet(q)} = {Job("make", s) : s \in A} \cup
            {Job("make", s) : s \in ToSet(q)}
       /\ {Job("start", s) : s \in A \cup ToSet(q)} = {Job("start", s) : s \in A} \cup
            {Job("start", s) : s \in ToSet(q)}
  OBVIOUS
<1> QED BY <1>5, <1>7, <1>8, <1>9, <1>10

LEMMA StartUpJobs ==
  ASSUME config \in Configs
  PROVE  /\ StartUp \in Seq(Jobs) /\ Ordered(StartUp) /\ StartUp # << >>
         /\ ToSet(StartUp) = {Job("create", None)} \cup {Job("make", s) : s \in Present}
                             \cup {Job("start", s) : s \in Present}
<1> DEFINE J0 == <<Job("create", None)>>
           J1 == J0 \o For("make", Cameras) \o For("start", Cameras)
           J2 == J1 \o For("make", EventCameras) \o For("start", EventCameras)
           J3 == J2 \o For("make", Imus) \o For("start", Imus)
<1>1. /\ Cameras \in Seq(Sensors) /\ EventCameras \in Seq(Sensors) /\ Imus \in Seq(Sensors)
      /\ IsInjective(Cameras) /\ IsInjective(EventCameras) /\ IsInjective(Imus)
      /\ ToSet(EventCameras) \cap ToSet(Cameras) = {}
      /\ ToSet(Imus) \cap (ToSet(Cameras) \cup ToSet(EventCameras)) = {}
  BY ConfiguredSensors, SensorsAssumption
<1>2. J0 \in Seq(Jobs) /\ Ordered(J0) /\ ToSet(J0) = MadeAndStarted({})
  BY JobType, SingleJob DEF MadeAndStarted
<1>3. /\ ToSet(Cameras) \in SUBSET Sensors /\ J1 \in Seq(Jobs) /\ Ordered(J1)
      /\ ToSet(J1) = MadeAndStarted(ToSet(Cameras))
  <2> HIDE DEF J0
  <2>1. /\ {} \cup ToSet(Cameras) = ToSet(Cameras) /\ {} \in SUBSET Sensors
        /\ ToSet(Cameras) \cap {} = {}
    OBVIOUS
  <2>2. J1 \in Seq(Jobs) /\ Ordered(J1) /\ ToSet(J1) = MadeAndStarted({} \cup ToSet(Cameras))
    BY <1>1, <1>2, <2>1, MakeAndStart
  <2>3. ToSet(Cameras) \in SUBSET Sensors
    BY ConfiguredSensors DEF Present
  <2> QED BY <2>1, <2>2, <2>3
<1>4. /\ ToSet(Cameras) \cup ToSet(EventCameras) \in SUBSET Sensors
      /\ J2 \in Seq(Jobs) /\ Ordered(J2) /\ ToSet(J2) =
           MadeAndStarted(ToSet(Cameras) \cup ToSet(EventCameras))
  <2> HIDE DEF J1
  <2> QED BY <1>1, <1>3, MakeAndStart
<1>5. J3 \in Seq(Jobs) /\ Ordered(J3) /\ ToSet(J3) = MadeAndStarted(Present)
  <2> HIDE DEF J2
  <2> DEFINE A == ToSet(Cameras) \cup ToSet(EventCameras)
  <2>1. /\ A \in SUBSET Sensors /\ J2 \in Seq(Jobs) /\ Ordered(J2)
        /\ ToSet(J2) = MadeAndStarted(A)
        /\ Imus \in Seq(Sensors) /\ IsInjective(Imus) /\ ToSet(Imus) \cap A = {}
    BY <1>1, <1>4
  <2>2. A \cup ToSet(Imus) = Present
    BY DEF Present
  <2> HIDE DEF A
  <2>3. J3 \in Seq(Jobs) /\ Ordered(J3) /\ ToSet(J3) = MadeAndStarted(A \cup ToSet(Imus))
    BY <2>1, MakeAndStart
  <2> QED BY <2>2, <2>3
<1>6. StartUp = J3
  BY DEF StartUp
<1>7. J3 # << >>
  <2> HIDE DEF J3
  <2>1. ToSet(<< >>) = {}
    BY DEF ToSet
  <2> QED BY <1>5, <2>1 DEF MadeAndStarted
<1> QED BY <1>5, <1>6, <1>7 DEF MadeAndStarted

LEMMA StoppingJobs ==
  ASSUME config \in Configs
  PROVE  /\ ShutDown \in Seq(Jobs) /\ Ordered(ShutDown)
         /\ ToSet(ShutDown) \subseteq {Job("stop", s) : s \in Present} \cup
              {Job("destroy", s) : s \in Present}
         /\ Unwind \in Seq(Jobs) /\ Ordered(Unwind) /\ Unwind # << >>
         /\ ToSet(Unwind) \subseteq {Job("stop", s) : s \in Present} \cup
              {Job("destroy", s) : s \in Present}
                                    \cup {Job("unlink", None)}
         /\ {Job("destroy", s) : s \in Present} \cup {Job("unlink", None)} \subseteq ToSet(Unwind)
<1> DEFINE Of(d, q) == {Job(d, s) : s \in ToSet(q)}
           D0 == For("stop", Imus)
           D2 == StopImus \o For("stop", EventCameras)
           U2 == StopImus \o For("destroy", EventCameras)
           U3 == U2 \o For("destroy", Cameras)
           Ul == Job("unlink", None)
           Ends == {Job("stop", s) : s \in Sensors} \cup {Job("destroy", s) : s \in Sensors}
<1>1. /\ Cameras \in Seq(Sensors) /\ EventCameras \in Seq(Sensors) /\ Imus \in Seq(Sensors)
      /\ ToSet(Cameras) \subseteq Sensors /\ ToSet(EventCameras) \subseteq Sensors /\
           ToSet(Imus) \subseteq Sensors
  BY ConfiguredSensors DEF Present
<1>2. \A s \in Sensors : /\ Job("stop", s).does = "stop" /\ Job("destroy", s).does = "destroy"
  BY JobType
<1>3. Ul \in Jobs /\ Ul.does = "unlink"
  BY JobType
<1>4. ASSUME NEW x \in Ends, NEW s \in Sensors
      PROVE  Precedes(x, Job("stop", s)) /\ Precedes(x, Job("destroy", s))
  BY <1>2, <1>3 DEF Precedes
<1>5. ASSUME NEW x \in Ends PROVE Precedes(x, Ul)
  BY <1>2, <1>3 DEF Precedes
<1>6. D0 \in Seq(Jobs) /\ Ordered(D0) /\ ToSet(D0) = Of("stop", Imus) /\ ToSet(D0) \subseteq Ends
  BY <1>1, JobsFor
<1>7. /\ StopImus \in Seq(Jobs) /\ Ordered(StopImus)
      /\ ToSet(StopImus) = Of("stop", Imus) \cup Of("destroy", Imus)
      /\ ToSet(StopImus) \subseteq Ends
  <2>1. \A x \in ToSet(D0), s \in ToSet(Imus) : Precedes(x, Job("destroy", s))
    BY <1>1, <1>4, <1>6
  <2>2. StopImus = D0 \o For("destroy", Imus)
    BY DEF StopImus
  <2> HIDE DEF D0
  <2>3. /\ StopImus \in Seq(Jobs) /\ Ordered(StopImus)
        /\ ToSet(StopImus) = ToSet(D0) \cup Of("destroy", Imus)
    BY <1>1, <1>6, <2>1, <2>2, PutLast
  <2> QED BY <1>1, <1>6, <2>3
<1>8. /\ D2 \in Seq(Jobs) /\ Ordered(D2)
      /\ ToSet(D2) = ToSet(StopImus) \cup Of("stop", EventCameras)
      /\ ToSet(D2) \subseteq Ends
  <2>1. \A x \in ToSet(StopImus), s \in ToSet(EventCameras) : Precedes(x, Job("stop", s))
    BY <1>1, <1>4, <1>7
  <2>2. D2 \in Seq(Jobs) /\ Ordered(D2) /\ ToSet(D2) = ToSet(StopImus) \cup Of("stop", EventCameras)
    BY <1>1, <1>7, <2>1, PutLast
  <2> QED BY <1>1, <1>7, <2>2
<1>9. /\ ShutDown \in Seq(Jobs) /\ Ordered(ShutDown)
      /\ ToSet(ShutDown) = ToSet(D2) \cup Of("stop", Cameras)
  <2>1. \A x \in ToSet(D2), s \in ToSet(Cameras) : Precedes(x, Job("stop", s))
    BY <1>1, <1>4, <1>8
  <2>2. ShutDown = D2 \o For("stop", Cameras)
    BY DEF ShutDown
  <2> HIDE DEF D2
  <2> QED BY <1>1, <1>8, <2>1, <2>2, PutLast
<1>10. /\ U2 \in Seq(Jobs) /\ Ordered(U2)
       /\ ToSet(U2) = ToSet(StopImus) \cup Of("destroy", EventCameras)
      /\ ToSet(U2) \subseteq Ends
  <2>1. \A x \in ToSet(StopImus), s \in ToSet(EventCameras) : Precedes(x, Job("destroy", s))
    BY <1>1, <1>4, <1>7
  <2>2. /\ U2 \in Seq(Jobs) /\ Ordered(U2)
        /\ ToSet(U2) = ToSet(StopImus) \cup Of("destroy", EventCameras)
    BY <1>1, <1>7, <2>1, PutLast
  <2> QED BY <1>1, <1>7, <2>2
<1>11. /\ U3 \in Seq(Jobs) /\ Ordered(U3) /\ ToSet(U3) = ToSet(U2) \cup Of("destroy", Cameras)
       /\ ToSet(U3) \subseteq Ends
  <2>1. \A x \in ToSet(U2), s \in ToSet(Cameras) : Precedes(x, Job("destroy", s))
    BY <1>1, <1>4, <1>10
  <2> HIDE DEF U2
  <2>2. U3 \in Seq(Jobs) /\ Ordered(U3) /\ ToSet(U3) = ToSet(U2) \cup Of("destroy", Cameras)
    BY <1>1, <1>10, <2>1, PutLast
  <2> QED BY <1>1, <1>10, <2>2
<1>12. Unwind \in Seq(Jobs) /\ Ordered(Unwind) /\ ToSet(Unwind) = ToSet(U3) \cup {Ul}
  <2>1. <<Ul>> \in Seq(Jobs) /\ Ordered(<<Ul>>) /\ ToSet(<<Ul>>) = {Ul}
    BY <1>3, SingleJob
  <2>2. Unwind = U3 \o <<Ul>>
    BY DEF Unwind
  <2>3. ASSUME NEW x \in ToSet(U3) PROVE Precedes(x, Ul)
    BY <1>5, <1>11
  <2> HIDE DEF U3, Ul
  <2>4. \A x \in ToSet(U3), y \in ToSet(<<Ul>>) : Precedes(x, y)
    BY <2>1, <2>3
  <2>5. Ordered(U3 \o <<Ul>>)
    BY <1>11, <2>1, <2>4, OrderedConcat
  <2>6. U3 \o <<Ul>> \in Seq(Jobs) /\ ToSet(U3 \o <<Ul>>) = ToSet(U3) \cup ToSet(<<Ul>>)
    BY <1>11, <2>1, ElementsOfConcat
  <2> QED BY <2>1, <2>5, <2>6, <2>2
<1>13. /\ \A d \in {"stop", "destroy"} :
            {Job(d, s) : s \in Present} = Of(d, Cameras) \cup Of(d, EventCameras) \cup Of(d, Imus)
  BY DEF Present
<1>14. Unwind # << >>
  <2>1. ToSet(<< >>) = {}
    BY DEF ToSet
  <2> QED BY <1>12, <2>1
<1> HIDE DEF D2, U2, U3, Of, Ul
<1>15. Ul = Job("unlink", None)
  BY DEF Ul
<1> QED BY <1>7, <1>8, <1>9, <1>10, <1>11, <1>12, <1>13, <1>14, <1>15

Has(does, s) == Job(does, s) \in ToSet(todo)
Working(s)   == todo # << >> /\ Head(todo).what = s
Live(s)      == thread[s] \in {"test", "wait", "refill", "add"}

\* The jobs that there are at a stage.
Fits(stage, job) ==
  /\ job.what \in IF job.does \in {"create", "unlink"} THEN {None} ELSE Present
  /\ CASE stage = "starting"  -> job.does \in {"create", "make", "start"}
       [] stage = "stopping"  -> job.does \in {"stop", "destroy"}
       [] stage = "unwinding" -> job.does \in {"stop", "destroy", "unlink"}
       [] OTHER               -> FALSE

Steps(job) ==
  CASE job.does = "start"   -> IF job.what \in Imu THEN {"open", "arm", "spawn"} ELSE {"arm", "spawn"}
    [] job.does = "stop"    -> {"ask", "halt", "join", "release"}
    [] job.does = "destroy" -> {"lower", "halt", "join", "release", "scrap", "free"}
    [] OTHER                -> {job.does}

JobsInOrder ==
  /\ config \in Configs
  /\ todo \in Seq(Jobs) /\ Ordered(todo) /\ \A job \in ToSet(todo) : Fits(pc, job)
  /\ IF todo = << >> THEN step = "over" ELSE step \in Steps(Head(todo))
  /\ pc = "unwinding" /\ todo # << >> => Has("unlink", None)

StopsOne == stopping # None => Working(stopping) /\ step \in {"halt", "join", "release"}

Agenda == JobsInOrder /\ StopsOne

Does == {"create", "make", "start", "stop", "destroy", "unlink"}

LEMMA EntryIsFirst ==
  ASSUME NEW jobs \in Seq(Jobs)
  PROVE  IF jobs = << >> THEN Entry(jobs) = "over"
         ELSE /\ Entry(jobs) \in Steps(Head(jobs))
              /\ Entry(jobs) \notin {"spawn", "halt", "join", "release", "scrap", "free"}
              /\ Entry(jobs) = "arm" => Head(jobs).what \notin Imu
              /\ Head(jobs).does = "destroy" => Entry(jobs) = "lower"
<1>1. CASE jobs = << >>
  BY <1>1 DEF Entry
<1>2. CASE jobs # << >>
  <2>1. Head(jobs) \in Jobs /\ Entry(jobs) = FirstStep(Head(jobs))
    BY <1>2 DEF Entry
  <2>2. Head(jobs).does \in Does
    BY <2>1 DEF Jobs, Does
  <2> QED BY <1>2, <2>1, <2>2 DEF FirstStep, Steps, Does
<1> QED BY <1>1, <1>2

LEMMA FirstJob ==
  ASSUME JobsInOrder, todo # << >>
  PROVE  /\ Head(todo) \in Jobs /\ Head(todo) \in ToSet(todo) /\ Fits(pc, Head(todo))
         /\ Head(todo).does \in Does /\ Head(todo) = Job(Head(todo).does, Head(todo).what)
         /\ Tail(todo) \in Seq(Jobs) /\ Ordered(Tail(todo))
         /\ ToSet(todo) = {Head(todo)} \cup ToSet(Tail(todo))
         /\ \A job \in ToSet(Tail(todo)) : Precedes(Head(todo), job)
<1>1. todo \in Seq(Jobs) /\ Ordered(todo)
  BY DEF JobsInOrder
<1>2. /\ Head(todo) \in Jobs /\ Head(todo) \in ToSet(todo)
      /\ Tail(todo) \in Seq(Jobs) /\ Ordered(Tail(todo))
      /\ ToSet(todo) = {Head(todo)} \cup ToSet(Tail(todo))
      /\ \A job \in ToSet(Tail(todo)) : Precedes(Head(todo), job)
  BY <1>1, OrderedTail
<1>3. Fits(pc, Head(todo))
  BY <1>2 DEF JobsInOrder
<1>4. Head(todo).does \in Does /\ Head(todo) = Job(Head(todo).does, Head(todo).what)
  BY <1>2 DEF Jobs, Does, Job
<1> QED BY <1>2, <1>3, <1>4

\* The job that a step belongs to, and when it is done.
LEMMA JobOfStep ==
  ASSUME JobsInOrder, NEW do, NEW s, Now(do, s)
  PROVE  /\ do \in {"open", "arm", "spawn"} => Head(todo) = Job("start", s) /\ pc = "starting" /\
             s \in Present
         /\ do = "open" => s \in Imu
         /\ do = "make" => Head(todo) = Job("make", s) /\ pc = "starting" /\ s \in Present
         /\ do = "ask" => Head(todo) = Job("stop", s) /\ pc \in {"stopping", "unwinding"} /\ s \in Present
         /\ do \in {"lower", "scrap", "free"} =>
              Head(todo) = Job("destroy", s) /\ pc \in {"stopping", "unwinding"} /\ s \in Present
         /\ do \in {"halt", "join", "release"} =>
              /\ Head(todo) \in {Job("stop", s), Job("destroy", s)} /\
                   pc \in {"stopping", "unwinding"} /\ s \in Present
         /\ do = "create" => Head(todo) = Job("create", s) /\ pc = "starting" /\ s = None
         /\ do = "unlink" => Head(todo) = Job("unlink", s) /\ pc = "unwinding" /\ s = None
<1>1. todo # << >> /\ step = do /\ Head(todo).what = s
  BY DEF Now
<1>2. /\ Fits(pc, Head(todo)) /\ Head(todo).does \in Does
      /\ Head(todo) = Job(Head(todo).does, s)
  BY <1>1, FirstJob
<1>3. do \in Steps(Head(todo))
  BY <1>1 DEF JobsInOrder
<1> DEFINE d == Head(todo).does
<1>4. /\ d = "start" => do \in {"open", "arm", "spawn"} /\ (do = "open" => s \in Imu)
      /\ d = "stop" => do \in {"ask", "halt", "join", "release"}
      /\ d = "destroy" => do \in {"lower", "halt", "join", "release", "scrap", "free"}
      /\ d \in {"create", "make", "unlink"} => do = d
  BY <1>1, <1>3 DEF Steps
<1>5. /\ d \in {"create", "make", "start"} => pc = "starting"
      /\ d \in {"stop", "destroy"} => pc \in {"stopping", "unwinding"}
      /\ d = "unlink" => pc = "unwinding"
      /\ IF d \in {"create", "unlink"} THEN s = None ELSE s \in Present
  BY <1>1, <1>2 DEF Fits
<1> HIDE DEF d
<1>6. Head(todo) = Job(d, s) /\ d \in Does
  BY <1>2 DEF d
<1> QED BY <1>4, <1>5, <1>6 DEF Does

LEMMA Advances ==
  ASSUME JobsInOrder, NEW do, NEW s, Now(do, s), Done,
         \/ do \in {"open", "arm", "ask", "lower", "halt", "join", "scrap"}
         \/ do = "release" /\ Head(todo).does = "destroy"
  PROVE  /\ pc' = pc /\ todo' = todo
         /\ step' = CASE do = "open" -> "arm" [] do = "arm" -> "spawn"
              [] do \in {"ask", "lower"} -> "halt"
                      [] do = "halt" -> "join" [] do = "join" -> "release" [] do = "scrap" -> "free"
                      [] do = "release" -> IF s \in Event THEN "scrap" ELSE "free"
         /\ step' \in Steps(Head(todo))
<1>1. todo # << >> /\ step = do /\ Head(todo).what = s
  BY DEF Now
<1>2. NextStep(Head(todo), do) = CASE do = "open" -> "arm" [] do = "arm" -> "spawn"
        [] do \in {"ask", "lower"} -> "halt"
                                   [] do = "halt" -> "join" [] do = "join" -> "release"
                                     [] do = "scrap" -> "free"
                                   [] do = "release" -> IF s \in Event THEN "scrap" ELSE "free"
  BY <1>1 DEF NextStep
<1>3. NextStep(Head(todo), do) # "over"
  BY <1>2
<1>4. pc' = pc /\ todo' = todo /\ step' = NextStep(Head(todo), do)
  BY <1>1, <1>3 DEF Done
<1>5. Head(todo).does \in Does /\ do \in Steps(Head(todo))
  BY <1>1, FirstJob DEF JobsInOrder
<1>6. step' \in Steps(Head(todo))
  BY <1>1, <1>2, <1>4, <1>5 DEF Steps, Does
<1> QED BY <1>2, <1>4, <1>6

LEMMA Finishes ==
  ASSUME JobsInOrder, NEW do, NEW s, Now(do, s), Done,
         \/ do \in {"create", "make", "spawn", "free", "unlink"}
         \/ do = "release" /\ Head(todo).does # "destroy"
  PROVE  pc' = pc /\ todo' = Tail(todo) /\ step' = Entry(Tail(todo))
<1>1. todo # << >> /\ step = do /\ Head(todo).what = s
  BY DEF Now
<1>2. NextStep(Head(todo), do) = "over"
  BY <1>1 DEF NextStep
<1> QED BY <1>1, <1>2 DEF Done, Goes

\* Either way.
LEMMA OneStepOn ==
  ASSUME JobsInOrder, NEW do, NEW s, Now(do, s), Done
  PROVE  /\ pc' = pc
         /\ \/ todo' = todo /\ step' \in Steps(Head(todo))
            \/ todo' = Tail(todo) /\ step' = Entry(Tail(todo))
<1>1. do \in {"create", "make", "spawn", "free", "unlink", "open", "arm", "ask", "lower", "halt",
        "join", "scrap", "release"}
  <2>1. todo # << >> /\ step = do /\ do \in Steps(Head(todo))
    BY DEF Now, JobsInOrder
  <2>2. Head(todo).does \in Does
    BY <2>1, FirstJob
  <2> QED BY <2>1, <2>2 DEF Steps, Does
<1>2. CASE do \in {"open", "arm", "ask", "lower", "halt", "join", "scrap"} \/
         (do = "release" /\ Head(todo).does = "destroy")
  BY <1>2, Advances
<1>3. CASE do \in {"create", "make", "spawn", "free", "unlink"} \/
         (do = "release" /\ Head(todo).does # "destroy")
  BY <1>3, Finishes
<1> QED BY <1>1, <1>2, <1>3

LEMMA JobsStayInOrder ==
  ASSUME JobsInOrder, NEW do, NEW s, Now(do, s), Done, config' = config
  PROVE  JobsInOrder'
<1>1. todo # << >> /\ pc' = pc /\ Present' = Present
  BY OneStepOn DEF Now, Present, Cameras, EventCameras, Imus
<1>2. \A job : Fits(pc, job) => Fits(pc, job)'
  BY <1>1 DEF Fits
<1>3. CASE todo' = todo /\ step' \in Steps(Head(todo))
  BY <1>1, <1>2, <1>3 DEF JobsInOrder, Has
<1>4. CASE todo' = Tail(todo) /\ step' = Entry(Tail(todo))
  <2>1. /\ Tail(todo) \in Seq(Jobs) /\ Ordered(Tail(todo)) /\ Fits(pc, Head(todo))
        /\ ToSet(todo) = {Head(todo)} \cup ToSet(Tail(todo))
        /\ \A job \in ToSet(Tail(todo)) : Precedes(Head(todo), job)
    BY <1>1, FirstJob
  <2>2. IF todo' = << >> THEN step' = "over" ELSE step' \in Steps(Head(todo'))
    BY <1>4, <2>1, EntryIsFirst
  <2>3. ASSUME pc = "unwinding", Tail(todo) # << >> PROVE Job("unlink", None) \in ToSet(Tail(todo))
    <3>1. Job("unlink", None) \in ToSet(todo)
      BY <1>1, <2>3 DEF JobsInOrder, Has
    <3>2. Head(Tail(todo)) \in ToSet(Tail(todo))
      BY <2>1, <2>3, OrderedTail
    <3>3. Head(todo).does # "unlink"
      BY <2>1, <3>2 DEF Precedes
    <3>4. Job("unlink", None).does = "unlink"
      BY JobType
    <3> QED BY <2>1, <3>1, <3>3, <3>4
  <2>4. \A job \in ToSet(Tail(todo)) : Fits(pc, job)
    BY <2>1 DEF JobsInOrder
  <2>5. config' \in Configs
    BY DEF JobsInOrder
  <2> QED BY <1>1, <1>2, <1>4, <2>1, <2>2, <2>3, <2>4, <2>5 DEF JobsInOrder, Has
<1> QED BY <1>1, <1>3, <1>4, OneStepOn

\* What becomes of the jobs of the sensor at work, and of the others'.
LEMMA JobsOfOthers ==
  ASSUME JobsInOrder, NEW do, NEW s, Now(do, s), Done, NEW t \in Sensors \cup {None}, t # s,
    NEW d \in Does
  PROVE  /\ Has(d, t)' <=> Has(d, t)
         /\ ~Now(do, t) /\ ~Working(t)
         /\ Working(t)' => /\ step' \notin {"spawn", "halt", "join", "release", "scrap", "free"}
                           /\ step' = "arm" => t \notin Imu
                           /\ Head(todo').does = "destroy" => step' = "lower"
<1>1. todo # << >> /\ Head(todo).what = s
  BY DEF Now
<1>2. Job(d, t).what = t
  BY JobType DEF Does
<1>3. CASE todo' = todo
  BY <1>1, <1>3 DEF Has, Working, Now
<1>4. CASE todo' = Tail(todo) /\ step' = Entry(Tail(todo))
  <2>1. Tail(todo) \in Seq(Jobs) /\ ToSet(todo) = {Head(todo)} \cup ToSet(Tail(todo))
    BY <1>1, FirstJob
  <2>2. Has(d, t)' <=> Has(d, t)
    BY <1>1, <1>2, <1>4, <2>1 DEF Has
  <2>3. ~Now(do, t) /\ ~Working(t)
    BY <1>1 DEF Now, Working
  <2> QED BY <1>4, <2>1, <2>2, <2>3, EntryIsFirst DEF Working
<1> QED BY <1>3, <1>4, OneStepOn

LEMMA JobFinished ==
  ASSUME JobsInOrder, NEW do, NEW s \in Sensors, Now(do, s), todo' = Tail(todo), step' = Entry(Tail(todo))
  PROVE  /\ \A d \in Does : /\ Has(d, s)' => Has(d, s)
                            /\ Head(todo).does # d => (Has(d, s)' <=> Has(d, s))
         /\ Head(todo).does = "make" => ~Has("make", s)'
         /\ Head(todo).does = "start" => ~Has("make", s)' /\ ~Has("start", s)'
         /\ Working(s)' => /\ step' \notin {"spawn", "halt", "join", "release", "scrap", "free"}
                           /\ step' = "arm" => s \notin Imu
                           /\ Head(todo').does = "destroy" => step' = "lower"
<1>1. todo # << >> /\ Head(todo).what = s
  BY DEF Now
<1>2. /\ Tail(todo) \in Seq(Jobs) /\ ToSet(todo) = {Head(todo)} \cup ToSet(Tail(todo))
      /\ \A job \in ToSet(Tail(todo)) : Precedes(Head(todo), job)
      /\ Head(todo) = Job(Head(todo).does, s) /\ Head(todo).does \in Does
  BY <1>1, FirstJob
<1>3. \A d \in Does : Job(d, s).does = d
  BY JobType DEF Does
<1>4. \A d \in Does : Has(d, s)' => Has(d, s)
  BY <1>2 DEF Has
<1>5. \A d \in Does : Head(todo).does # d => (Has(d, s)' <=> Has(d, s))
  BY <1>2, <1>3 DEF Has
<1>6. Head(todo).does = "make" => ~Has("make", s)'
  BY <1>2 DEF Has, Precedes
<1>7. Head(todo).does = "start" => ~Has("make", s)' /\ ~Has("start", s)'
  BY <1>1, <1>2 DEF Has, Precedes
<1>8. Working(s)' => /\ step' \notin {"spawn", "halt", "join", "release", "scrap", "free"}
                     /\ step' = "arm" => s \notin Imu
                     /\ Head(todo').does = "destroy" => step' = "lower"
  BY <1>2, EntryIsFirst DEF Working
<1> QED BY <1>4, <1>5, <1>6, <1>7, <1>8

-----------------------------------------------------------------------------
(***************************************************************************)
(* What is known of the segment and of each sensor.                        *)
(***************************************************************************)

Name ==
  /\ pc \in {"starting", "waiting", "stopping"} => (linked <=> ~Has("create", None))
  /\ pc = "unwinding" => (linked <=> Has("unlink", None))
  /\ pc = "gone" => ~linked
  /\ Has("create", None) => \A s \in Sensors : status[s] = "none"

Making(s) ==
  /\ status[s] # "none" => s \in Present
  /\ Has("make", s) => status[s] = "none"
  /\ Has("start", s) => ~Live(s)
  /\ Has("start", s) => Has("make", s) \/ status[s] \in {"initialized"} \cup
       (IF s \in Imu THEN {} ELSE {"broken"})

Held(s) ==
  /\ status[s] \in {"none", "freed"} => device[s] = "closed"
  /\ device[s] = "leaked" => s \in V4L2 /\ status[s] = "broken"
  /\ status[s] = "broken" => ~Holds(s)
  /\ status[s] = "running" => Holds(s)
  /\ Live(s) => Holds(s) /\ status[s] = IF s \in Imu THEN "initialized" ELSE "running"
  /\ pc = "unwinding" /\ Holds(s) => Has("destroy", s)
  /\ pc = "gone" => ~Holds(s)

ImuHeld(s) ==
  s \in Imu => /\ running[s] => status[s] = "initialized"
               /\ device[s] # "closed" <=> running[s] \/ stopping = s

Ending(s) ==
  /\ stopping = s => ~running[s] /\ status[s] \in {"initialized"} \cup
       (IF s \in Imu THEN {} ELSE {"running"})
  /\ stopping = s /\ step = "release" => ~Live(s) /\ Quiet(s)
  /\ Working(s) /\ Head(todo).does = "destroy" /\ step # "lower" /\ stopping # s => ~Stoppable(s)

CalledBack(s) ==
  s \in Event =>
    /\ s \in calling => \/ device[s] = "streaming"
                        \/ device[s] = "open" /\ status[s] \in {"initialized", "running"}
    /\ device[s] = "streaming" /\ s \notin refused =>
         \/ status[s] = "running" /\ ~(stopping = s /\ step \in {"join", "release"})
         \/ status[s] = "initialized" /\ Now("spawn", s)

\* start() will go through.
Startable(s) ==
  /\ status[s] = "initialized"
  /\ IF Now("spawn", s) THEN device[s] = "streaming"
     ELSE IF s \in Imu THEN Now("arm", s) => device[s] = "open"
                       ELSE device[s] = "open"

Sound(s) ==
  /\ s \in removed => s \in faulty
  /\ pc \in {"starting", "waiting"} /\ s \in Present \ faulty =>
       \/ Has("make", s) /\ Has("start", s)
       \/ ~Has("make", s) /\ Has("start", s) /\ Startable(s)
       \/ ~Has("make", s) /\ Live(s) /\ running[s]

SensorInv(s) == Making(s) /\ Held(s) /\ ImuHeld(s) /\ Ending(s) /\ CalledBack(s) /\ Sound(s)

IInv == /\ TypeOK /\ Agenda /\ Name /\ raisedBy \in Imu \cup {None}
        /\ \A s \in Sensors : SensorInv(s)

-----------------------------------------------------------------------------
LEMMA InitInv == Init => IInv
<1> SUFFICES ASSUME Init PROVE IInv
  OBVIOUS
<1>1. config \in Configs /\ todo = StartUp /\ step = Entry(StartUp) /\ pc = "starting"
  BY DEF Init
<1>2. /\ StartUp \in Seq(Jobs) /\ Ordered(StartUp) /\ StartUp # << >>
      /\ ToSet(StartUp) = {Job("create", None)} \cup {Job("make", s) : s \in Present}
                          \cup {Job("start", s) : s \in Present}
  BY <1>1, StartUpJobs
<1>3. /\ Job("create", None).does = "create" /\ Job("create", None).what = None
      /\ \A s \in Sensors : /\ Job("make", s).does = "make" /\ Job("make", s).what = s
                            /\ Job("start", s).does = "start" /\ Job("start", s).what = s
  BY JobType
<1>4. Present \subseteq Sensors /\ None \notin Sensors
  BY <1>1, ConfiguredSensors, SensorsAssumption
<1>5. \A job \in ToSet(StartUp) : Fits(pc, job)
  BY <1>1, <1>2, <1>3, <1>4 DEF Fits
<1>6. step \in Steps(Head(todo))
  BY <1>1, <1>2, EntryIsFirst
<1>7. Agenda
  BY <1>1, <1>2, <1>5, <1>6 DEF Agenda, JobsInOrder, StopsOne, Init
<1>8. /\ Has("create", None)
      /\ \A s \in Sensors : (Has("make", s) <=> s \in Present) /\ (Has("start", s) <=> s \in Present)
  BY <1>1, <1>2, <1>3, <1>4 DEF Has
<1>9. Name
  BY <1>1, <1>8 DEF Name, Init
<1>10. step \in {"create", "make", "open", "arm", "spawn", "ask", "lower", "halt", "join",
         "release", "scrap", "free", "unlink", "over"}
  <2>1. Head(todo) \in Jobs
    BY <1>1, <1>2
  <2>2. Head(todo).does \in Does
    BY <2>1 DEF Jobs, Does
  <2> QED BY <1>6, <2>2 DEF Steps, Does
<1>11. TypeOK
  BY <1>1, <1>2, <1>10 DEF TypeOK, Init, Jobs
<1>12. ASSUME NEW s \in Sensors PROVE SensorInv(s)
  <2>1. /\ status[s] = "none" /\ device[s] = "closed" /\ thread[s] = "none" /\ ~running[s]
        /\ calling = {} /\ stopping = None /\ removed = {} /\ pc = "starting"
    BY DEF Init
  <2>2. stopping # s
    BY <1>4, <2>1
  <2>3. step # "release" /\ Head(todo).does # "destroy" /\ ~Live(s)
    <3>1. Head(todo) \in ToSet(StartUp)
      BY <1>1, <1>2, OrderedTail
    <3>2. Head(todo).does \in {"create", "make", "start"}
      BY <1>2, <1>3, <1>4, <3>1
    <3> QED BY <1>6, <2>1, <3>2 DEF Steps, Live
  <2> QED BY <1>8, <2>1, <2>2, <2>3 DEF SensorInv, Making, Held, Holds, ImuHeld, Ending, CalledBack, Sound
<1> QED BY <1>7, <1>9, <1>11, <1>12 DEF IInv, Init
-----------------------------------------------------------------------------
\* A sensor that the step is not about.
LEMMA OthersAsBefore ==
  ASSUME IInv, NEW do, NEW s, Now(do, s), Done, NEW t \in Sensors, t # s, config' = config,
         status'[t] = status[t], running'[t] = running[t], device'[t] = device[t], thread'[t] = thread[t],
         removed' = removed, calling' = calling,
         t \in refused' <=> t \in refused, t \in faulty => t \in faulty',
         stopping' \in {stopping, s, None}
  PROVE  SensorInv(t)'
<1>1. JobsInOrder /\ StopsOne /\ SensorInv(t) /\ None \notin Sensors
  BY SensorsAssumption DEF IInv, Agenda
<1>2. /\ Has("make", t)' <=> Has("make", t)
      /\ Has("start", t)' <=> Has("start", t)
      /\ Has("destroy", t)' <=> Has("destroy", t)
  BY <1>1, JobsOfOthers DEF Does
<1>3. /\ ~Working(t)
      /\ Working(t)' => /\ step' \notin {"spawn", "halt", "join", "release", "scrap", "free"}
                        /\ step' = "arm" => t \notin Imu
                        /\ Head(todo').does = "destroy" => step' = "lower"
  BY <1>1, JobsOfOthers DEF Does
<1>4. stopping # t /\ stopping' # t
  BY <1>1, <1>3 DEF StopsOne
<1>5. pc' = pc /\ Present' = Present
  BY <1>1, OneStepOn DEF Present, Cameras, EventCameras, Imus
<1>6. ~Now("spawn", t) /\ ~Now("spawn", t)' /\ (t \in Imu => ~Now("arm", t)')
  BY <1>3 DEF Now, Working
<1>7. Live(t)' <=> Live(t)
  BY DEF Live
<1>8. Making(t)' /\ Held(t)'
  BY <1>1, <1>2, <1>5, <1>7 DEF SensorInv, Making, Held, Holds
<1>9. ImuHeld(t)' /\ CalledBack(t)'
  BY <1>1, <1>4, <1>6 DEF SensorInv, ImuHeld, CalledBack
<1>10. Ending(t)'
  BY <1>3, <1>4 DEF Ending
<1>11. Sound(t)'
  BY <1>1, <1>2, <1>5, <1>6, <1>7 DEF SensorInv, Sound, Startable
<1> QED BY <1>8, <1>9, <1>10, <1>11 DEF SensorInv

Others(s) ==
  \A t \in Sensors \ {s} :
    /\ status'[t] = status[t] /\ running'[t] = running[t]
    /\ device'[t] = device[t] /\ thread'[t] = thread[t]
    /\ t \in refused' <=> t \in refused
    /\ t \in faulty => t \in faulty'

SensorTypes ==
  /\ status \in [Sensors -> {"none", "broken", "initialized", "running", "stopped", "scrapped", "freed"}]
  /\ running \in [Sensors -> BOOLEAN] /\ polled \subseteq Imu
  /\ device \in [Sensors -> {"closed", "open", "streaming", "cancelled", "leaked"}]
  /\ thread \in [Sensors -> {"none", "test", "wait", "refill", "add", "ended"}]
  /\ refused \subseteq Sensors /\ faulty \subseteq Sensors

LEMMA StepNames ==
  ASSUME NEW jobs \in Seq(Jobs), NEW now, IF jobs = << >> THEN now = "over" ELSE now \in Steps(Head(jobs))
  PROVE  now \in {"create", "make", "open", "arm", "spawn", "ask", "lower", "halt", "join", "release",
                  "scrap", "free", "unlink", "over"}
<1>1. jobs # << >> => Head(jobs) \in Jobs
  OBVIOUS
<1>2. jobs # << >> => Head(jobs).does \in Does
  BY <1>1 DEF Jobs, Does
<1> QED BY <1>2 DEF Steps, Does

LEMMA NotCreating ==
  ASSUME JobsInOrder, NEW do, NEW s \in Sensors, Now(do, s)
  PROVE  ~Has("create", None) /\ s # None
<1>1. todo # << >> /\ Head(todo).what = s /\ s # None
  BY SensorsAssumption DEF Now
<1>2. /\ ToSet(todo) = {Head(todo)} \cup ToSet(Tail(todo))
      /\ \A job \in ToSet(Tail(todo)) : Precedes(Head(todo), job)
  BY <1>1, FirstJob
<1>3. Job("create", None).does = "create" /\ Job("create", None).what = None
  BY JobType
<1> QED BY <1>1, <1>2, <1>3 DEF Has, Precedes

\* A step of the main thread on one sensor: what remains to be shown is about that sensor.
LEMMA StepOnSensor ==
  ASSUME IInv, NEW do, NEW s \in Sensors, Now(do, s), Done,
         UNCHANGED <<config, asked, linked, removed, calling, raisedBy>>,
         stopping' \in {stopping, s, None}, StopsOne',
         SensorTypes', Others(s), SensorInv(s)'
  PROVE  IInv'
<1>1. JobsInOrder /\ None \notin Sensors /\ s # None
  BY SensorsAssumption DEF IInv, Agenda
<1>2. JobsInOrder'
  BY <1>1, JobsStayInOrder
<1>3. pc' = pc
  BY <1>1, OneStepOn
<1>4. TypeOK'
  <2>1. step' \in {"create", "make", "open", "arm", "spawn", "ask", "lower", "halt", "join", "release",
                   "scrap", "free", "unlink", "over"}
    BY <1>2, StepNames DEF JobsInOrder
  <2>2. todo' \in Seq(Jobs)
    BY <1>2 DEF JobsInOrder
  <2> QED BY <1>3, <2>1, <2>2 DEF IInv, TypeOK, SensorTypes, Jobs
<1>5. Name'
  <2>1. /\ Has("create", None)' <=> Has("create", None)
        /\ Has("unlink", None)' <=> Has("unlink", None)
    BY <1>1, JobsOfOthers DEF Does
  <2>2. ~Has("create", None)
    BY <1>1, NotCreating
  <2> QED BY <1>3, <2>1, <2>2 DEF IInv, Name
<1>6. ASSUME NEW t \in Sensors, t # s PROVE SensorInv(t)'
  BY <1>6, OthersAsBefore DEF Others
<1> QED BY <1>2, <1>4, <1>5, <1>6 DEF IInv, Agenda

LEMMA AtSensor ==
  ASSUME IInv, NEW do, NEW s \in Sensors, Now(do, s)
  PROVE  /\ JobsInOrder /\ StopsOne /\ SensorInv(s) /\ SensorTypes
         /\ s # None /\ todo # << >> /\ step = do /\ Head(todo).what = s
         /\ stopping \in {s, None} /\ (do \notin {"halt", "join", "release"} => stopping = None)
<1>1. s # None /\ todo # << >> /\ step = do /\ Head(todo).what = s
  BY SensorsAssumption DEF Now
<1> QED BY <1>1 DEF IInv, Agenda, TypeOK, SensorTypes, StopsOne, Working

\* The step is not the last of its job.
LEMMA GoesOn ==
  ASSUME IInv, NEW do, NEW s \in Sensors, Now(do, s), Done, config' = config,
         \/ do \in {"open", "arm", "ask", "lower", "halt", "join", "scrap"}
         \/ do = "release" /\ Head(todo).does = "destroy"
  PROVE  /\ pc' = pc /\ todo' = todo /\ Present' = Present /\ Working(s)'
         /\ \A d \in Does : Has(d, s)' <=> Has(d, s)
         /\ step' = CASE do = "open" -> "arm" [] do = "arm" -> "spawn"
              [] do \in {"ask", "lower"} -> "halt"
                      [] do = "halt" -> "join" [] do = "join" -> "release" [] do = "scrap" -> "free"
                      [] do = "release" -> IF s \in Event THEN "scrap" ELSE "free"
         /\ \A now : Now(now, s)' <=> step' = now
<1>1. JobsInOrder /\ todo # << >> /\ Head(todo).what = s
  BY AtSensor
<1>2. /\ pc' = pc /\ todo' = todo
      /\ step' = CASE do = "open" -> "arm" [] do = "arm" -> "spawn" [] do \in {"ask", "lower"} -> "halt"
                   [] do = "halt" -> "join" [] do = "join" -> "release" [] do = "scrap" -> "free"
                   [] do = "release" -> IF s \in Event THEN "scrap" ELSE "free"
  BY <1>1, Advances
<1> QED BY <1>1, <1>2 DEF Present, Cameras, EventCameras, Imus, Has, Working, Now

\* The step is the last of its job.
LEMMA GoesToNextJob ==
  ASSUME IInv, NEW do, NEW s \in Sensors, Now(do, s), Done, config' = config,
         \/ do \in {"make", "spawn", "free"}
         \/ do = "release" /\ Head(todo).does # "destroy"
  PROVE  /\ pc' = pc /\ Present' = Present
         /\ \A d \in Does : /\ Has(d, s)' => Has(d, s)
                            /\ Head(todo).does # d => (Has(d, s)' <=> Has(d, s))
         /\ Head(todo).does = "make" => ~Has("make", s)'
         /\ Head(todo).does = "start" => ~Has("make", s)' /\ ~Has("start", s)'
         /\ ~Now("spawn", s)' /\ (s \in Imu => ~Now("arm", s)')
         /\ Working(s)' => (Head(todo').does = "destroy" => step' = "lower")
<1>1. JobsInOrder /\ todo # << >>
  BY AtSensor
<1>2. pc' = pc /\ todo' = Tail(todo) /\ step' = Entry(Tail(todo))
  BY <1>1, Finishes
<1>3. Present' = Present
  BY DEF Present, Cameras, EventCameras, Imus
<1> QED BY <1>1, <1>2, <1>3, JobFinished DEF Now, Working

LEMMA MakeKeeps == ASSUME IInv, NEW s \in Sensors, Make(s) PROVE IInv'
<1>1. /\ Now("make", s) /\ Done /\ status' = [status EXCEPT ![s] = "initialized"]
      /\ UNCHANGED <<contextVars, running, polled, thread, refused, raisedBy>>
  BY DEF Make
<1>2. PICK d \in {"open", "closed"} :
        /\ s \in Imu => d = "closed"
        /\ s \in Pylon \cup Event => d = "open"
        /\ device' = [device EXCEPT ![s] = d]
        /\ faulty' = IF d = "closed" /\ s \notin Imu THEN faulty \cup {s} ELSE faulty
  BY DEF Make
<1>3. JobsInOrder /\ StopsOne /\ SensorInv(s) /\ SensorTypes /\ stopping = None /\ s # None
  BY <1>1, AtSensor
<1>4. Head(todo) = Job("make", s) /\ pc = "starting" /\ s \in Present /\ Head(todo).does = "make"
  BY <1>1, <1>3, JobOfStep, JobType
<1>5. Has("make", s) /\ todo # << >>
  BY <1>1, <1>3, <1>4, FirstJob, AtSensor DEF Has
<1>6. /\ pc' = pc /\ Present' = Present /\ ~Has("make", s)'
      /\ (Has("start", s)' <=> Has("start", s))
      /\ ~Now("spawn", s)' /\ (s \in Imu => ~Now("arm", s)')
      /\ Working(s)' => (Head(todo').does = "destroy" => step' = "lower")
  BY <1>1, <1>4, GoesToNextJob DEF Does, contextVars
<1>7. /\ SensorTypes' /\ Others(s) /\ status'[s] = "initialized" /\ device'[s] = d
      /\ running'[s] = running[s] /\ (Live(s)' <=> Live(s)) /\ UNCHANGED <<stopping, removed, calling>>
  BY <1>1, <1>2, <1>3 DEF SensorTypes, Others, Live, contextVars
<1>8. /\ status[s] = "none" /\ device[s] = "closed" /\ ~Live(s)
      /\ (s \in Event => s \notin calling) /\ (s \in Imu => ~running[s])
  BY <1>3, <1>5 DEF SensorInv, Making, Held, Holds, CalledBack, ImuHeld
<1>9. Making(s)' /\ Held(s)' /\ ImuHeld(s)' /\ Ending(s)' /\ CalledBack(s)'
  BY <1>2, <1>3, <1>4, <1>6, <1>7, <1>8 DEF SensorInv, Making, Held, Holds, ImuHeld, Ending, CalledBack
<1>10. Sound(s)'
  BY <1>2, <1>3, <1>4, <1>5, <1>6, <1>7 DEF SensorInv, Sound, Startable, Sensors
<1> QED BY <1>1, <1>3, <1>7, <1>9, <1>10, StepOnSensor DEF contextVars, StopsOne, SensorInv

LEMMA MakeFailsKeeps ==
  ASSUME IInv, NEW s \in Sensors \ Imu, MakeFails(s) PROVE IInv'
<1>1. /\ Now("make", s) /\ Done /\ status' = [status EXCEPT ![s] = "broken"]
      /\ faulty' = faulty \cup {s}
      /\ UNCHANGED <<contextVars, running, polled, thread, refused, raisedBy>>
  BY DEF MakeFails
<1>0. PICK d \in {"closed"} \cup (IF s \in V4L2 THEN {"leaked"} ELSE {}) :
        device' = [device EXCEPT ![s] = d]
  BY DEF MakeFails
<1>2. JobsInOrder /\ StopsOne /\ SensorInv(s) /\ SensorTypes /\ stopping = None /\ s # None
  BY <1>1, AtSensor
<1>3. Head(todo) = Job("make", s) /\ pc = "starting" /\ s \in Present /\ Head(todo).does = "make"
  BY <1>1, <1>2, JobOfStep, JobType
<1>4. Has("make", s) /\ todo # << >>
  BY <1>1, <1>2, <1>3, FirstJob, AtSensor DEF Has
<1>5. /\ pc' = pc /\ Present' = Present /\ ~Has("make", s)'
      /\ (Has("start", s)' <=> Has("start", s))
      /\ ~Now("spawn", s)'
      /\ Working(s)' => (Head(todo').does = "destroy" => step' = "lower")
  BY <1>1, <1>3, GoesToNextJob DEF Does, contextVars
<1>6. /\ SensorTypes' /\ Others(s) /\ status'[s] = "broken" /\ device'[s] = d
      /\ running'[s] = running[s] /\ (Live(s)' <=> Live(s)) /\ UNCHANGED <<stopping, removed, calling>>
  BY <1>0, <1>1, <1>2 DEF SensorTypes, Others, Live, contextVars
<1>7. status[s] = "none" /\ device[s] = "closed" /\ ~Live(s) /\ (s \in Event => s \notin calling)
  BY <1>2, <1>4 DEF SensorInv, Making, Held, Holds, CalledBack
<1>8. Making(s)' /\ Held(s)' /\ ImuHeld(s)' /\ Ending(s)' /\ CalledBack(s)'
  BY <1>0, <1>2, <1>3, <1>5, <1>6, <1>7 DEF SensorInv, Making, Held, Holds, ImuHeld, Ending, CalledBack
<1>9. Sound(s)'
  BY <1>1 DEF Sound
<1> QED BY <1>1, <1>2, <1>6, <1>8, <1>9, StepOnSensor DEF contextVars, StopsOne, SensorInv

\* What open, arm and spawn find.
LEMMA AtStart ==
  ASSUME IInv, NEW do \in {"open", "arm", "spawn"}, NEW s \in Sensors, Now(do, s)
  PROVE  /\ JobsInOrder /\ StopsOne /\ SensorInv(s) /\ SensorTypes /\ stopping = None /\ s # None
         /\ step = do /\ pc = "starting" /\ s \in Present /\ (do = "open" => s \in Imu)
         /\ Head(todo).does = "start" /\ Has("start", s) /\ ~Has("make", s) /\ ~Live(s)
         /\ status[s] \in {"initialized"} \cup (IF s \in Imu THEN {} ELSE {"broken"})
         /\ Working(s) /\ todo # << >>
<1>1. /\ JobsInOrder /\ StopsOne /\ SensorInv(s) /\ SensorTypes /\ stopping = None /\ s # None
      /\ step = do
  BY AtSensor
<1>2. /\ Head(todo) = Job("start", s) /\ pc = "starting" /\ s \in Present
      /\ Head(todo).does = "start"
      /\ (do = "open" => s \in Imu)
  BY <1>1, JobOfStep, JobType
<1>3. todo # << >> /\ Working(s)
  BY AtSensor DEF Working
<1>4. Has("start", s) /\ ~Has("make", s)
  <2>1. Head(todo) \in ToSet(todo) /\ ToSet(todo) = {Head(todo)} \cup ToSet(Tail(todo))
        /\ \A job \in ToSet(Tail(todo)) : Precedes(Head(todo), job)
    BY <1>1, <1>3, FirstJob
  <2>2. Head(todo).what = s /\ Job("make", s).does = "make"
    BY <1>3, JobType DEF Working
  <2> QED BY <1>2, <2>1, <2>2 DEF Has, Precedes
<1> QED BY <1>1, <1>2, <1>3, <1>4 DEF SensorInv, Making

LEMMA OpenKeeps == ASSUME IInv, NEW s \in Sensors, Open(s) PROVE IInv'
<1>1. Now("open", s) /\ Done /\ UNCHANGED <<contextVars, status, polled, thread, refused, raisedBy>>
  BY DEF Open
<1>2. PICK opens \in BOOLEAN :
        /\ running' = [running EXCEPT ![s] = opens]
        /\ device' = [device EXCEPT ![s] = IF opens THEN "open" ELSE "closed"]
        /\ faulty' = IF opens THEN faulty ELSE faulty \cup {s}
  BY DEF Open
<1>3. /\ JobsInOrder /\ StopsOne /\ SensorInv(s) /\ SensorTypes /\ stopping = None /\ s # None
      /\ s \in Imu
      /\ pc = "starting" /\ s \in Present /\ Has("start", s) /\ ~Has("make", s) /\ ~Live(s) /\
           status[s] \in {"initialized"} \cup (IF s \in Imu THEN {} ELSE {"broken"})
      /\ Head(todo).does = "start"
  BY <1>1, AtStart
<1>4. /\ pc' = pc /\ Present' = Present /\ todo' = todo /\ step' = "arm" /\ ~Now("spawn", s)'
      /\ ~Has("make", s)' /\ Has("start", s)'
  BY <1>1, <1>3, GoesOn DEF Does, contextVars
<1>5. /\ SensorTypes' /\ Others(s) /\ status'[s] = "initialized" /\
           device'[s] = IF opens THEN "open" ELSE "closed"
      /\ running'[s] = opens /\ (Live(s)' <=> Live(s)) /\ UNCHANGED <<stopping, removed, calling>>
  BY <1>1, <1>2, <1>3 DEF SensorTypes, Others, Live, contextVars
<1>6. s \notin Event
  BY <1>3, SensorsAssumption
<1>7. Making(s)' /\ Held(s)' /\ ImuHeld(s)' /\ Ending(s)' /\ CalledBack(s)'
  BY <1>2, <1>3, <1>4, <1>5, <1>6 DEF SensorInv, Making, Held, Holds, ImuHeld, Ending, CalledBack
<1>8. Sound(s)'
  BY <1>2, <1>3, <1>4, <1>5 DEF SensorInv, Sound, Startable
<1> QED BY <1>1, <1>3, <1>5, <1>7, <1>8, StepOnSensor DEF contextVars, StopsOne, SensorInv

LEMMA ArmKeeps == ASSUME IInv, NEW s \in Sensors, Arm(s) PROVE IInv'
<1>1. /\ Now("arm", s) /\ Done /\ Applies(s)
      /\ UNCHANGED <<contextVars, status, running, thread, historyVars>>
      /\ device' = [device EXCEPT ![s] = "streaming"]
      /\ polled' \in {polled} \cup (IF s \in Imu THEN {polled \cup {s}} ELSE {})
  BY DEF Arm
<1>2. /\ JobsInOrder /\ StopsOne /\ SensorInv(s) /\ SensorTypes /\ stopping = None /\ s # None
      /\ pc = "starting" /\ s \in Present /\ Has("start", s) /\ ~Has("make", s) /\ ~Live(s)
      /\ Head(todo).does = "start" /\ step = "arm" /\
           status[s] \in {"initialized"} \cup (IF s \in Imu THEN {} ELSE {"broken"})
  BY <1>1, AtStart
<1>3. /\ pc' = pc /\ Present' = Present /\ todo' = todo /\ step' = "spawn" /\ Now("spawn", s)'
      /\ ~Has("make", s)' /\ Has("start", s)'
  BY <1>1, <1>2, GoesOn DEF Does, contextVars
<1>4. /\ SensorTypes' /\ Others(s) /\ status'[s] = status[s] /\ device'[s] = "streaming"
      /\ running'[s] = running[s] /\ (Live(s)' <=> Live(s)) /\
           UNCHANGED <<stopping, removed, calling, faulty, refused>>
  BY <1>1, <1>2 DEF SensorTypes, Others, Live, contextVars, historyVars
<1>5. status[s] = "initialized" /\ (s \in Imu => device[s] = "open")
  BY <1>1, <1>2 DEF Applies
<1>6. Making(s)' /\ Held(s)' /\ ImuHeld(s)' /\ Ending(s)' /\ CalledBack(s)'
  BY <1>2, <1>3, <1>4, <1>5 DEF SensorInv, Making, Held, Holds, ImuHeld, Ending, CalledBack
<1>7. Sound(s)'
  BY <1>2, <1>3, <1>4, <1>5 DEF SensorInv, Sound, Startable
<1> QED BY <1>1, <1>2, <1>4, <1>6, <1>7, StepOnSensor DEF contextVars, StopsOne, SensorInv, historyVars

LEMMA ArmFailsKeeps == ASSUME IInv, NEW s \in Sensors, ArmFails(s) PROVE IInv'
<1>1. /\ Now("arm", s) /\ Done /\ Applies(s)
      /\ UNCHANGED <<contextVars, status, polled, thread, refused, raisedBy>>
      /\ device' = [device EXCEPT ![s] = IF s \in Imu THEN "closed" ELSE @]
      /\ running' = [running EXCEPT ![s] = FALSE] /\ faulty' = faulty \cup {s}
  BY DEF ArmFails
<1>2. /\ JobsInOrder /\ StopsOne /\ SensorInv(s) /\ SensorTypes /\ stopping = None /\ s # None
      /\ pc = "starting" /\ s \in Present /\ Has("start", s) /\ ~Has("make", s) /\ ~Live(s)
      /\ Head(todo).does = "start" /\ step = "arm" /\
           status[s] \in {"initialized"} \cup (IF s \in Imu THEN {} ELSE {"broken"})
  BY <1>1, AtStart
<1>3. /\ pc' = pc /\ Present' = Present /\ todo' = todo /\ step' = "spawn" /\ ~Now("spawn", s)
      /\ Now("spawn", s)'
      /\ ~Has("make", s)' /\ Has("start", s)'
  BY <1>1, <1>2, GoesOn DEF Does, contextVars, Now
<1>4. /\ SensorTypes' /\ Others(s) /\ status'[s] = status[s] /\
           device'[s] = IF s \in Imu THEN "closed" ELSE device[s]
      /\ running'[s] = FALSE /\ (Live(s)' <=> Live(s)) /\
           UNCHANGED <<stopping, removed, calling, refused>>
  BY <1>1, <1>2 DEF SensorTypes, Others, Live, contextVars
<1>5. status[s] = "initialized"
  BY <1>1, <1>2 DEF Applies
<1>6. s \in Imu => s \notin Event
  BY SensorsAssumption
<1>7. Making(s)' /\ Held(s)' /\ ImuHeld(s)' /\ Ending(s)' /\ CalledBack(s)'
  BY <1>2, <1>3, <1>4, <1>5, <1>6 DEF SensorInv, Making, Held, Holds, ImuHeld, Ending, CalledBack
<1>8. Sound(s)'
  BY <1>1 DEF Sound
<1> QED BY <1>1, <1>2, <1>4, <1>7, <1>8, StepOnSensor DEF contextVars, StopsOne, SensorInv

LEMMA SpawnKeeps == ASSUME IInv, NEW s \in Sensors, Spawn(s) PROVE IInv'
<1>1. /\ Now("spawn", s) /\ Done /\ device[s] = "streaming"
      /\ UNCHANGED <<contextVars, device, polled, historyVars>>
      /\ running' = [running EXCEPT ![s] = TRUE] /\ thread' = [thread EXCEPT ![s] = "test"]
      /\ status' = [status EXCEPT ![s] = IF s \in Imu THEN @ ELSE "running"]
  BY DEF Spawn
<1>2. /\ JobsInOrder /\ StopsOne /\ SensorInv(s) /\ SensorTypes /\ stopping = None /\ s # None
      /\ pc = "starting" /\ s \in Present /\ Has("start", s) /\ ~Has("make", s) /\ ~Live(s)
      /\ Head(todo).does = "start" /\ step = "spawn" /\
           status[s] \in {"initialized"} \cup (IF s \in Imu THEN {} ELSE {"broken"})
  BY <1>1, AtStart
<1>3. /\ pc' = pc /\ Present' = Present /\ ~Has("make", s)' /\ ~Has("start", s)'
      /\ ~Now("spawn", s)'
      /\ Working(s)' => (Head(todo').does = "destroy" => step' = "lower")
  BY <1>1, <1>2, GoesToNextJob DEF Does, contextVars
<1>4. /\ SensorTypes' /\ Others(s)
      /\ status'[s] = (IF s \in Imu THEN "initialized" ELSE "running")
      /\ device'[s] = "streaming"
      /\ running'[s] = TRUE /\ Live(s)' /\ UNCHANGED <<stopping, removed, calling, faulty, refused>>
  BY <1>1, <1>2 DEF SensorTypes, Others, Live, contextVars, historyVars
<1>5. s \in Imu => s \notin Event
  BY SensorsAssumption
<1>6. Making(s)' /\ Held(s)' /\ ImuHeld(s)' /\ Ending(s)' /\ CalledBack(s)'
  BY <1>2, <1>3, <1>4, <1>5 DEF SensorInv, Making, Held, Holds, ImuHeld, Ending, CalledBack
<1>7. Sound(s)'
  BY <1>2, <1>3, <1>4 DEF SensorInv, Sound
<1> QED BY <1>1, <1>2, <1>4, <1>6, <1>7, StepOnSensor DEF contextVars, StopsOne, SensorInv, historyVars

LEMMA SpawnFailsKeeps == ASSUME IInv, NEW s \in Sensors \ Imu, SpawnFails(s) PROVE IInv'
<1>1. /\ Now("spawn", s) /\ Done /\ device[s] = "streaming"
      /\ UNCHANGED <<contextVars, status, running, polled, thread, raisedBy>>
      /\ faulty' = faulty \cup {s} /\ StreamStops(s)
  BY DEF SpawnFails
<1>2. /\ JobsInOrder /\ StopsOne /\ SensorInv(s) /\ SensorTypes /\ stopping = None /\ s # None
      /\ pc = "starting" /\ s \in Present /\ Has("start", s) /\ ~Has("make", s) /\ ~Live(s)
      /\ Head(todo).does = "start" /\ step = "spawn" /\ status[s] \in {"initialized", "broken"}
  BY <1>1, AtStart
<1>3. /\ pc' = pc /\ Present' = Present /\ ~Has("make", s)' /\ ~Has("start", s)'
      /\ ~Now("spawn", s)'
      /\ Working(s)' => (Head(todo').does = "destroy" => step' = "lower")
  BY <1>1, <1>2, GoesToNextJob DEF Does, contextVars
<1>4. /\ SensorTypes' /\ Others(s) /\ status'[s] = status[s]
      /\ \/ device'[s] = "open" /\ (s \in refused' <=> s \in refused)
         \/ device'[s] = device[s] /\ s \in refused'
      /\ running'[s] = running[s] /\ (Live(s)' <=> Live(s)) /\ UNCHANGED <<stopping, removed, calling>>
  BY <1>1, <1>2 DEF SensorTypes, Others, Live, contextVars, StreamStops
<1>5. Making(s)' /\ Held(s)' /\ ImuHeld(s)' /\ Ending(s)' /\ CalledBack(s)'
  BY <1>1, <1>2, <1>3, <1>4 DEF SensorInv, Making, Held, Holds, ImuHeld, Ending, CalledBack
<1>6. Sound(s)'
  BY <1>1 DEF Sound
<1> QED BY <1>1, <1>2, <1>4, <1>5, <1>6, StepOnSensor DEF contextVars, StopsOne, SensorInv

\* What the steps of stop() and of a destructor find: the service is past its start.
LEMMA AtEnd ==
  ASSUME IInv, NEW do \in {"ask", "lower", "halt", "join", "release", "scrap", "free"},
    NEW s \in Sensors, Now(do, s)
  PROVE  /\ JobsInOrder /\ StopsOne /\ SensorInv(s) /\ SensorTypes /\ stopping \in {s, None} /\ s # None
         /\ step = do /\ pc \in {"stopping", "unwinding"} /\ s \in Present /\ todo # << >> /\
              Head(todo).what = s
         /\ Head(todo).does \in {"stop", "destroy"}
         /\ do = "ask" => Head(todo).does = "stop"
         /\ do \in {"lower", "scrap", "free"} => Head(todo).does = "destroy"
         /\ do \notin {"halt", "join", "release"} => stopping = None
         /\ Working(s) /\ ~Has("make", s) /\ ~Has("start", s)
<1>1. /\ JobsInOrder /\ StopsOne /\ SensorInv(s) /\ SensorTypes /\ stopping \in {s, None}
      /\ s # None /\ step = do
      /\ todo # << >> /\ Head(todo).what = s /\ (do \notin {"halt", "join", "release"} => stopping = None)
  BY AtSensor
<1>2. /\ Head(todo).does \in {"stop", "destroy"} /\ (do = "ask" => Head(todo).does = "stop")
      /\ (do \in {"lower", "scrap", "free"} => Head(todo).does = "destroy")
      /\ pc \in {"stopping", "unwinding"} /\ s \in Present
  BY <1>1, JobOfStep, JobType
<1>3. ~Has("make", s) /\ ~Has("start", s)
  <2>1. /\ Job("make", s).does = "make" /\ Job("make", s).what = s
        /\ Job("start", s).does = "start" /\ Job("start", s).what = s
    BY JobType
  <2>2. \A job \in ToSet(todo) : Fits(pc, job)
    BY <1>1 DEF JobsInOrder
  <2> QED BY <1>2, <2>1, <2>2 DEF Has, Fits
<1> QED BY <1>1, <1>2, <1>3 DEF Working

LEMMA LowerKeeps == ASSUME IInv, NEW s \in Sensors, Lower(s) PROVE IInv'
<1>1. PICK do \in {"ask", "lower"} : Now(do, s)
  BY DEF Lower
<1>2. /\ Done /\ Stoppable(s) /\ running' = [running EXCEPT ![s] = FALSE] /\ stopping' = s
      /\ UNCHANGED <<config, asked, linked, status, device, polled, thread, removed, calling,
           historyVars>>
  BY DEF Lower
<1>3. /\ JobsInOrder /\ StopsOne /\ SensorInv(s) /\ SensorTypes /\ stopping = None /\ s # None
      /\ pc \in {"stopping", "unwinding"} /\ s \in Present /\ ~Has("make", s) /\ ~Has("start", s)
      /\ step = do
  BY <1>1, AtEnd
<1>4. /\ pc' = pc /\ Present' = Present /\ todo' = todo /\ step' = "halt" /\ ~Now("spawn", s)
      /\ Working(s)'
      /\ ~Has("make", s)' /\ ~Has("start", s)' /\ (Has("destroy", s)' <=> Has("destroy", s))
  BY <1>1, <1>2, <1>3, GoesOn DEF Does, Now
<1>5. /\ SensorTypes' /\ Others(s) /\ status'[s] = status[s] /\ device'[s] = device[s]
      /\ running'[s] = FALSE /\ (Live(s)' <=> Live(s)) /\ UNCHANGED <<removed, calling, refused, faulty>>
  BY <1>2, <1>3 DEF SensorTypes, Others, Live, historyVars
<1>6. Making(s)' /\ Held(s)' /\ ImuHeld(s)' /\ Ending(s)' /\ CalledBack(s)'
  BY <1>2, <1>3, <1>4, <1>5 DEF SensorInv, Making, Held, Holds, ImuHeld, Ending, CalledBack, Stoppable
<1>7. Sound(s)'
  BY <1>3, <1>4, <1>5 DEF SensorInv, Sound
<1>8. StopsOne'
  BY <1>2, <1>4 DEF StopsOne
<1> QED BY <1>1, <1>2, <1>3, <1>5, <1>6, <1>7, <1>8, StepOnSensor DEF SensorInv, historyVars

LEMMA HaltKeeps == ASSUME IInv, NEW s \in Sensors, Halt(s) PROVE IInv'
<1>1. /\ Now("halt", s) /\ stopping = s /\ Done
      /\ UNCHANGED <<contextVars, status, running, polled, thread, faulty, raisedBy>>
  BY DEF Halt
<1>2. \/ s \in Imu /\ device' = [device EXCEPT ![s] = "cancelled"] /\ UNCHANGED refused
      \/ s \notin Imu /\ status[s] = "running" /\ StreamStops(s)
      \/ s \notin Imu /\ status[s] # "running" /\ UNCHANGED <<device, refused>>
  BY DEF Halt
<1>3. /\ JobsInOrder /\ StopsOne /\ SensorInv(s) /\ SensorTypes /\ s # None
      /\ pc \in {"stopping", "unwinding"} /\ s \in Present /\ ~Has("make", s) /\ ~Has("start", s)
      /\ step = "halt"
  BY <1>1, AtEnd
<1>4. /\ pc' = pc /\ Present' = Present /\ todo' = todo /\ step' = "join" /\ ~Now("spawn", s)
      /\ Working(s)'
      /\ ~Has("make", s)' /\ ~Has("start", s)' /\ (Has("destroy", s)' <=> Has("destroy", s))
  BY <1>1, <1>3, GoesOn DEF Does, Now, contextVars
<1>5. /\ status[s] \in {"initialized", "running"} /\ status'[s] = status[s]
      /\ running'[s] = running[s] /\ (Live(s)' <=> Live(s))
      /\ UNCHANGED <<removed, calling, faulty, stopping>>
  BY <1>1, <1>3 DEF SensorInv, Ending, Live, contextVars
<1>6. /\ SensorTypes' /\ Others(s)
      /\ s \in Imu => device'[s] = "cancelled"
      /\ s \notin Imu /\ status[s] = "running" =>
           \/ device'[s] = "open" /\ (s \in refused' <=> s \in refused)
           \/ device'[s] = device[s] /\ s \in refused'
      /\ s \notin Imu /\ status[s] # "running" =>
           device'[s] = device[s] /\ (s \in refused' <=> s \in refused)
  <2>1. CASE s \in Imu
    BY <1>1, <1>2, <1>3, <2>1 DEF SensorTypes, Others
  <2>2. CASE s \notin Imu /\ status[s] = "running"
    BY <1>1, <1>2, <1>3, <2>2 DEF SensorTypes, Others, StreamStops
  <2>3. CASE s \notin Imu /\ status[s] # "running"
    BY <1>1, <1>2, <1>3, <2>3 DEF SensorTypes, Others
  <2> QED BY <2>1, <2>2, <2>3
<1>7. s \in Imu => device[s] # "closed" /\ s \notin Event
  BY <1>1, <1>3, SensorsAssumption DEF SensorInv, ImuHeld
<1>8. Making(s)' /\ Held(s)' /\ ImuHeld(s)' /\ Ending(s)' /\ CalledBack(s)'
  BY <1>1, <1>3, <1>4, <1>5, <1>6, <1>7 DEF SensorInv, Making, Held, Holds, ImuHeld, Ending, CalledBack
<1>9. Sound(s)'
  BY <1>3, <1>4, <1>5 DEF SensorInv, Sound
<1>10. StopsOne'
  BY <1>1, <1>4, <1>5 DEF StopsOne
<1> QED BY <1>1, <1>3, <1>5, <1>6, <1>8, <1>9, <1>10, StepOnSensor DEF SensorInv, contextVars

LEMMA JoinKeeps == ASSUME IInv, NEW s \in Sensors, Join(s) PROVE IInv'
<1>1. /\ Now("join", s) /\ stopping = s /\ Done /\ thread[s] \in {"none", "ended"} /\ Quiet(s)
      /\ UNCHANGED <<contextVars, sensorVars, historyVars>>
  BY DEF Join
<1>2. /\ JobsInOrder /\ StopsOne /\ SensorInv(s) /\ SensorTypes /\ s # None
      /\ pc \in {"stopping", "unwinding"} /\ s \in Present /\ ~Has("make", s) /\ ~Has("start", s)
      /\ step = "join"
  BY <1>1, AtEnd
<1>3. /\ pc' = pc /\ Present' = Present /\ todo' = todo /\ step' = "release" /\ ~Now("spawn", s)
      /\ Working(s)'
      /\ ~Has("make", s)' /\ ~Has("start", s)' /\ (Has("destroy", s)' <=> Has("destroy", s))
  BY <1>1, <1>2, GoesOn DEF Does, Now, contextVars
<1>4. /\ SensorTypes' /\ Others(s) /\ (Live(s)' <=> Live(s)) /\ ~Live(s)
      /\ UNCHANGED <<status, device, running, removed, calling, faulty, refused, stopping>>
  BY <1>1, <1>2 DEF SensorTypes, Others, Live, contextVars, sensorVars, historyVars
<1>5. Making(s)' /\ Held(s)' /\ ImuHeld(s)' /\ Ending(s)' /\ CalledBack(s)'
  BY <1>1, <1>2, <1>3, <1>4 DEF SensorInv, Making, Held, Holds, ImuHeld, Ending, CalledBack, Quiet
<1>6. Sound(s)'
  BY <1>2, <1>3, <1>4 DEF SensorInv, Sound
<1>7. StopsOne'
  BY <1>1, <1>3, <1>4 DEF StopsOne
<1> QED BY <1>1, <1>2, <1>4, <1>5, <1>6, <1>7, StepOnSensor DEF SensorInv, contextVars, historyVars

\* What a job finds when the step after this one belongs to it, or to the next job.
LEMMA EndMoves ==
  ASSUME IInv, NEW do \in {"ask", "lower", "halt", "join", "release", "scrap", "free"}, NEW s \in Sensors,
         Now(do, s), Done, config' = config
  PROVE  /\ pc' = pc /\ Present' = Present /\ ~Has("make", s)' /\ ~Has("start", s)' /\
             ~Now("spawn", s)' /\ ~Now("spawn", s)
         /\ do # "free" => (Has("destroy", s)' <=> Has("destroy", s))
         /\ Working(s)' /\ Head(todo').does = "destroy" =>
              \/ step' = "lower"
              \/ do # "ask" /\ Working(s) /\ Head(todo).does = "destroy"
         /\ do = "release" => step' \notin {"halt", "join", "release"}
<1>1. /\ JobsInOrder /\ ~Has("make", s) /\ ~Has("start", s) /\ step = do
      /\ Head(todo).does \in {"stop", "destroy"}
      /\ Working(s) /\ (do = "ask" => Head(todo).does = "stop") /\
           (do = "free" => Head(todo).does = "destroy")
  BY AtEnd
<1>2. CASE do \in {"ask", "lower", "halt", "join", "scrap"} \/
         (do = "release" /\ Head(todo).does = "destroy")
  BY <1>1, <1>2, GoesOn DEF Does, Now
<1>3. CASE do = "free" \/ (do = "release" /\ Head(todo).does # "destroy")
  <2>1. /\ pc' = pc /\ Present' = Present /\ todo' = Tail(todo) /\ step' = Entry(Tail(todo))
        /\ ~Has("make", s)' /\ ~Has("start", s)' /\ ~Now("spawn", s)'
        /\ Working(s)' => (Head(todo').does = "destroy" => step' = "lower")
        /\ do # "free" => (Has("destroy", s)' <=> Has("destroy", s))
    BY <1>1, <1>3, GoesToNextJob, Finishes DEF Does
  <2>2. Tail(todo) \in Seq(Jobs)
    BY <1>1, FirstJob DEF Working
  <2>3. step' \notin {"halt", "join", "release"}
    BY <2>1, <2>2, EntryIsFirst
  <2> QED BY <1>1, <2>1, <2>3 DEF Now
<1> QED BY <1>1, <1>2, <1>3

LEMMA ReleaseKeeps == ASSUME IInv, NEW s \in Sensors, Release(s) PROVE IInv'
<1>1. /\ Now("release", s) /\ stopping = s /\ Done /\ stopping' = None /\ polled' = polled \ {s}
      /\ status' = [status EXCEPT ![s] = IF s \in Imu THEN @ ELSE "stopped"]
      /\ UNCHANGED <<config, asked, linked, running, thread, removed, calling, historyVars>>
  BY DEF Release
<1>2. PICK d \in {"closed", device[s]} :
        /\ s \in V4L2 \cup Imu => d = "closed"
        /\ s \in Event => d = device[s]
        /\ device' = [device EXCEPT ![s] = d]
  BY DEF Release
<1>3. /\ JobsInOrder /\ StopsOne /\ SensorInv(s) /\ SensorTypes /\ s # None
      /\ pc \in {"stopping", "unwinding"} /\ s \in Present /\ step = "release" /\ Working(s)
  BY <1>1, AtEnd
<1>4. /\ pc' = pc /\ Present' = Present /\ ~Has("make", s)' /\ ~Has("start", s)' /\ ~Now("spawn", s)
      /\ Has("destroy", s)' <=> Has("destroy", s)
      /\ step' \notin {"halt", "join", "release"}
  BY <1>1, EndMoves
<1>5. /\ SensorTypes' /\ Others(s) /\ (Live(s)' <=> Live(s)) /\ ~Live(s) /\ Quiet(s)
      /\ status'[s] = (IF s \in Imu THEN "initialized" ELSE "stopped") /\ device'[s] = d
      /\ ~running[s]
      /\ UNCHANGED <<running, removed, calling, faulty, refused>>
  BY <1>1, <1>2, <1>3 DEF SensorTypes, Others, Live, historyVars, SensorInv, Ending
<1>6. s \in Imu => s \notin Event
  BY SensorsAssumption
<1>7. Making(s)' /\ Held(s)' /\ ImuHeld(s)' /\ CalledBack(s)'
  <2>1. Making(s)' /\ Held(s)'
    BY <1>1, <1>2, <1>3, <1>4, <1>5, <1>6 DEF SensorInv, Making, Held, Holds
  <2>2. ImuHeld(s)'
    BY <1>1, <1>2, <1>3, <1>4, <1>5, <1>6 DEF SensorInv, ImuHeld
  <2>3. CalledBack(s)'
    BY <1>1, <1>2, <1>3, <1>4, <1>5, <1>6 DEF SensorInv, CalledBack, Quiet
  <2> QED BY <2>1, <2>2, <2>3
<1>8. Ending(s)'
  BY <1>1, <1>3, <1>5 DEF Ending, Stoppable
<1>9. Sound(s)'
  BY <1>3, <1>4, <1>5 DEF SensorInv, Sound
<1>10. StopsOne'
  BY <1>1 DEF StopsOne
<1> QED BY <1>1, <1>3, <1>5, <1>7, <1>8, <1>9, <1>10, StepOnSensor DEF SensorInv, historyVars

\* The destructor is past stop().
LEMMA PastStop ==
  ASSUME IInv, NEW do \in {"scrap", "free"}, NEW s \in Sensors, Now(do, s)
  PROVE  ~Stoppable(s) /\ ~Live(s) /\ (s \in Imu => device[s] = "closed")
<1>1. /\ SensorInv(s) /\ stopping = None /\ s # None /\ Working(s)
      /\ Head(todo).does = "destroy" /\ step = do
  BY AtEnd
<1>2. ~Stoppable(s)
  BY <1>1 DEF SensorInv, Ending
<1> QED BY <1>1, <1>2 DEF SensorInv, Held, Holds, ImuHeld, Stoppable

LEMMA ScrapKeeps == ASSUME IInv, NEW s \in Sensors, Scrap(s) PROVE IInv'
<1>1. /\ Now("scrap", s) /\ Done /\ status' = [status EXCEPT ![s] = "scrapped"] /\ Exists(s)
      /\ UNCHANGED <<contextVars, running, device, polled, thread, historyVars>>
  BY DEF Scrap
<1>2. /\ JobsInOrder /\ StopsOne /\ SensorInv(s) /\ SensorTypes /\ s # None /\ stopping = None
      /\ pc \in {"stopping", "unwinding"} /\ s \in Present /\ step = "scrap"
  BY <1>1, AtEnd
<1>3. /\ pc' = pc /\ Present' = Present /\ ~Has("make", s)' /\ ~Has("start", s)' /\ ~Now("spawn", s)
      /\ Has("destroy", s)' <=> Has("destroy", s)
  BY <1>1, EndMoves DEF contextVars
<1>4. /\ SensorTypes' /\ Others(s) /\ (Live(s)' <=> Live(s)) /\ status'[s] = "scrapped"
      /\ UNCHANGED <<device, running, removed, calling, faulty, refused, stopping>>
  BY <1>1, <1>2 DEF SensorTypes, Others, Live, contextVars, historyVars
<1>5. /\ ~Stoppable(s) /\ ~Live(s) /\ (s \in Imu => device[s] = "closed")
      /\ (s \in Imu => s \notin Event)
  BY <1>1, PastStop, SensorsAssumption
<1>6. Making(s)' /\ Held(s)' /\ ImuHeld(s)' /\ CalledBack(s)'
  BY <1>1, <1>2, <1>3, <1>4, <1>5 DEF SensorInv, Making, Held, Holds, ImuHeld, CalledBack, Stoppable, Exists
<1>7. Ending(s)'
  BY <1>2, <1>4, <1>5 DEF Ending, Stoppable
<1>8. Sound(s)'
  BY <1>2, <1>3, <1>4 DEF SensorInv, Sound
<1>9. StopsOne'
  BY <1>2, <1>4 DEF StopsOne
<1> QED BY <1>1, <1>2, <1>4, <1>6, <1>7, <1>8, <1>9, StepOnSensor DEF SensorInv, contextVars, historyVars

LEMMA FreeKeeps == ASSUME IInv, NEW s \in Sensors, Free(s) PROVE IInv'
<1>1. /\ Now("free", s) /\ Done /\ s \notin calling
      /\ status' = [status EXCEPT ![s] = "freed"] /\ device' = [device EXCEPT ![s] = "closed"]
      /\ UNCHANGED <<contextVars, running, polled, thread, historyVars>>
  BY DEF Free
<1>2. /\ JobsInOrder /\ StopsOne /\ SensorInv(s) /\ SensorTypes /\ s # None /\ stopping = None
      /\ pc \in {"stopping", "unwinding"} /\ s \in Present /\ step = "free"
  BY <1>1, AtEnd
<1>3. /\ pc' = pc /\ Present' = Present /\ ~Has("make", s)' /\ ~Has("start", s)'
  BY <1>1, EndMoves DEF contextVars
<1>4. /\ SensorTypes' /\ Others(s) /\ (Live(s)' <=> Live(s)) /\ status'[s] = "freed"
      /\ device'[s] = "closed"
      /\ UNCHANGED <<running, removed, calling, faulty, refused, stopping>>
  BY <1>1, <1>2 DEF SensorTypes, Others, Live, contextVars, historyVars
<1>5. ~Stoppable(s) /\ ~Live(s)
  BY <1>1, PastStop
<1>6. Making(s)' /\ Held(s)' /\ ImuHeld(s)' /\ CalledBack(s)'
  BY <1>1, <1>2, <1>3, <1>4, <1>5 DEF SensorInv, Making, Held, Holds, ImuHeld, CalledBack, Stoppable
<1>7. Ending(s)'
  BY <1>2, <1>4, <1>5 DEF Ending, Stoppable
<1>8. Sound(s)'
  BY <1>2, <1>3, <1>4 DEF SensorInv, Sound
<1>9. StopsOne'
  BY <1>2, <1>4 DEF StopsOne
<1> QED BY <1>1, <1>2, <1>4, <1>6, <1>7, <1>8, <1>9, StepOnSensor DEF SensorInv, contextVars, historyVars

\* A step of stop() or of a destructor that does not apply.
LEMMA EndPassesOver ==
  ASSUME IInv, NEW s \in Sensors, Done, UNCHANGED <<contextVars, sensorVars, historyVars>>,
         \/ Now("ask", s)
         \/ Now("lower", s) /\ ~Stoppable(s)
         \/ \E do \in {"halt", "join", "release"} : Now(do, s) /\ stopping # s
         \/ \E do \in {"scrap", "free"} : Now(do, s) /\ ~Exists(s)
  PROVE  IInv'
<1>1. PICK do \in {"ask", "lower", "halt", "join", "release", "scrap", "free"} :
        /\ Now(do, s)
        /\ do = "lower" => ~Stoppable(s)
        /\ do \in {"halt", "join", "release"} => stopping # s
        /\ do \in {"scrap", "free"} => ~Exists(s)
  BY DEF Now
<1>2. /\ JobsInOrder /\ StopsOne /\ SensorInv(s) /\ SensorTypes /\ s # None
      /\ pc \in {"stopping", "unwinding"} /\ s \in Present /\ step = do /\ Working(s)
      /\ do \in {"lower", "scrap", "free"} => Head(todo).does = "destroy"
  BY <1>1, AtEnd
<1>3. stopping = None
  BY <1>1, AtEnd
<1>4. /\ pc' = pc /\ Present' = Present /\ ~Has("make", s)' /\ ~Has("start", s)' /\ ~Now("spawn", s)
      /\ do # "free" => (Has("destroy", s)' <=> Has("destroy", s))
      /\ Working(s)' /\ Head(todo').does = "destroy" =>
           step' = "lower" \/ (do # "ask" /\ Working(s) /\ Head(todo).does = "destroy")
  BY <1>1, EndMoves DEF contextVars
<1>5. /\ SensorTypes' /\ Others(s) /\ (Live(s)' <=> Live(s))
      /\ UNCHANGED <<status, device, running, removed, calling, faulty, refused, stopping>>
  BY <1>2 DEF SensorTypes, Others, Live, contextVars, sensorVars, historyVars
<1>6. do = "free" => ~Holds(s)
  BY <1>1, <1>2 DEF SensorInv, Held, Holds, Exists, SensorTypes
<1>7. Making(s)' /\ Held(s)'
  BY <1>2, <1>4, <1>5, <1>6 DEF SensorInv, Making, Held, Holds
<1>8. ImuHeld(s)' /\ CalledBack(s)' /\ Sound(s)'
  BY <1>2, <1>3, <1>4, <1>5 DEF SensorInv, ImuHeld, CalledBack, Sound
<1>9. Ending(s)'
  BY <1>1, <1>2, <1>3, <1>4, <1>5 DEF SensorInv, Ending, Stoppable
<1>10. StopsOne'
  BY <1>3, <1>5 DEF StopsOne
<1> QED BY <1>1, <1>2, <1>5, <1>7, <1>8, <1>9, <1>10, StepOnSensor DEF SensorInv, contextVars, historyVars

\* A step of start() that does not apply.
LEMMA StartPassesOver ==
  ASSUME IInv, NEW s \in Sensors, Done, UNCHANGED <<contextVars, sensorVars, historyVars>>,
         \/ Now("arm", s) /\ ~Applies(s)
         \/ Now("spawn", s) /\ device[s] # "streaming"
  PROVE  IInv'
<1>1. PICK do \in {"arm", "spawn"} :
        /\ Now(do, s) /\ (do = "arm" => ~Applies(s)) /\ (do = "spawn" => device[s] # "streaming")
  BY DEF Now
<1>2. /\ JobsInOrder /\ StopsOne /\ SensorInv(s) /\ SensorTypes /\ stopping = None /\ s # None
      /\ pc = "starting" /\ s \in Present /\ Has("start", s) /\ ~Has("make", s) /\ ~Live(s)
      /\ Head(todo).does = "start" /\ step = do /\ Working(s)
  BY <1>1, AtStart
<1>3. s \in faulty
  <2>1. SUFFICES ASSUME s \notin faulty PROVE FALSE
    OBVIOUS
  <2>2. Startable(s) /\ s \notin removed
    BY <1>2, <2>1 DEF SensorInv, Sound
  <2>3. do = "spawn" <=> Now("spawn", s)
    BY <1>1, <1>2 DEF Now
  <2>4. do = "arm" => Now("arm", s)
    BY <1>1
  <2> QED BY <1>1, <2>2, <2>3, <2>4 DEF Startable, Applies, Valid
<1>4. pc' = pc /\ Present' = Present /\ (Working(s)' => (Head(todo').does = "destroy" => step' = "lower"))
      /\ (Has("make", s)' => Has("make", s)) /\ (Has("start", s)' => Has("start", s)) /\
           (do = "spawn" => ~Now("spawn", s)')
  <2>1. CASE do = "arm"
    BY <1>1, <1>2, <2>1, GoesOn DEF Does, contextVars
  <2>2. CASE do = "spawn"
    BY <1>1, <1>2, <2>2, GoesToNextJob DEF Does, contextVars
  <2> QED BY <2>1, <2>2
<1>5. /\ SensorTypes' /\ Others(s) /\ (Live(s)' <=> Live(s))
      /\ UNCHANGED <<status, device, running, removed, calling, faulty, refused, stopping>>
  BY <1>2 DEF SensorTypes, Others, Live, contextVars, sensorVars, historyVars
<1>6. Making(s)' /\ Held(s)' /\ ImuHeld(s)' /\ Ending(s)'
  BY <1>2, <1>4, <1>5 DEF SensorInv, Making, Held, Holds, ImuHeld, Ending
<1>7. CalledBack(s)'
  <2>1. s \in Event /\ device[s] = "streaming" /\ s \notin refused => status[s] = "running"
    BY <1>1, <1>2 DEF SensorInv, CalledBack, Now
  <2> QED BY <1>2, <1>5, <2>1 DEF SensorInv, CalledBack
<1>8. Sound(s)'
  BY <1>3, <1>5 DEF Sound
<1>9. StopsOne'
  BY <1>2, <1>5 DEF StopsOne
<1> QED BY <1>1, <1>2, <1>5, <1>6, <1>7, <1>8, <1>9, StepOnSensor DEF SensorInv, contextVars, historyVars

LEMMA PassesOverKeeps == ASSUME IInv, NEW s \in Sensors, PassesOver(s) PROVE IInv'
BY EndPassesOver, StartPassesOver DEF PassesOver
-----------------------------------------------------------------------------
\* The end of the scope is entered: every sensor will be destroyed.
LEMMA EntersUnwinding ==
  ASSUME IInv, Goes("unwinding", Unwind), linked, stopping = None, stopping' = None,
         UNCHANGED <<config, asked, linked, status, running, device, polled, thread, removed,
           calling, refused>>,
         \A s \in Sensors : ~(s \in Event /\ Now("spawn", s)),
         faulty \subseteq faulty', SensorTypes', raisedBy' \in Imu \cup {None}
  PROVE  IInv'
<1>1. config \in Configs /\ None \notin Sensors /\ Imu \subseteq Sensors /\ Present' = Present
  BY SensorsAssumption DEF IInv, Agenda, JobsInOrder, Present, Cameras, EventCameras, Imus, Sensors
<1>2. /\ Unwind \in Seq(Jobs) /\ Ordered(Unwind) /\ Unwind # << >>
      /\ ToSet(Unwind) \subseteq {Job("stop", s) : s \in Present} \cup {Job("destroy", s) : s \in Present}
                                 \cup {Job("unlink", None)}
      /\ {Job("destroy", s) : s \in Present} \cup {Job("unlink", None)} \subseteq ToSet(Unwind)
  BY <1>1, StoppingJobs
<1>3. pc' = "unwinding" /\ todo' = Unwind /\ step' = Entry(Unwind)
  BY DEF Goes
<1>4. Present \subseteq Sensors
  BY <1>1, ConfiguredSensors
<1>5. /\ \A s \in Present : /\ Job("stop", s).does = "stop" /\ Job("stop", s).what = s
                            /\ Job("destroy", s).does = "destroy" /\ Job("destroy", s).what = s
      /\ Job("unlink", None).does = "unlink" /\ Job("unlink", None).what = None
      /\ \A s \in Sensors : Job("make", s).does = "make" /\ Job("start", s).does = "start"
      /\ Job("create", None).does = "create"
  BY <1>4, JobType
<1>6. \A job \in ToSet(Unwind) : Fits("unwinding", job) /\ job.does \in {"stop", "destroy", "unlink"}
  BY <1>2, <1>5 DEF Fits
<1>7. JobsInOrder'
  <2>1. step' \in Steps(Head(Unwind))
    BY <1>2, <1>3, EntryIsFirst
  <2>2. \A job : Fits("unwinding", job) => Fits(pc, job)'
    BY <1>1, <1>3 DEF Fits
  <2> QED BY <1>1, <1>2, <1>3, <1>6, <2>1, <2>2 DEF JobsInOrder, Has
<1>8. /\ ~Has("create", None)' /\ Has("unlink", None)'
      /\ \A s \in Sensors : ~Has("make", s)' /\ ~Has("start", s)' /\ (s \in Present => Has("destroy", s)')
  BY <1>2, <1>3, <1>5, <1>6 DEF Has
<1>9. /\ step' \notin {"spawn", "halt", "join", "release"}
      /\ (Head(todo').does = "destroy" => step' = "lower")
  BY <1>2, <1>3, EntryIsFirst
<1>10. TypeOK'
  <2>1. step' \in {"create", "make", "open", "arm", "spawn", "ask", "lower", "halt", "join", "release",
                   "scrap", "free", "unlink", "over"}
    BY <1>7, StepNames DEF JobsInOrder
  <2>2. todo' \in Seq(Jobs)
    BY <1>2, <1>3
  <2> QED BY <1>1, <1>3, <2>1, <2>2 DEF IInv, TypeOK, SensorTypes, Jobs
<1>11. Name'
  BY <1>3, <1>8 DEF Name
<1>12. ASSUME NEW s \in Sensors PROVE SensorInv(s)'
  <2>1. SensorInv(s) /\ s # None /\ (Live(s)' <=> Live(s)) /\ (s \in refused' <=> s \in refused)
    BY <1>1 DEF IInv, Live
  <2>2. Making(s)' /\ Held(s)'
    BY <1>1, <1>3, <1>8, <2>1 DEF SensorInv, Making, Held, Holds
  <2>3. ImuHeld(s)' /\ Ending(s)'
    BY <1>9, <2>1 DEF SensorInv, ImuHeld, Ending
  <2>4. CalledBack(s)'
    BY <1>9, <2>1 DEF SensorInv, CalledBack
  <2>5. Sound(s)'
    BY <1>3, <2>1 DEF SensorInv, Sound
  <2> QED BY <2>2, <2>3, <2>4, <2>5 DEF SensorInv
<1>13. StopsOne'
  BY DEF StopsOne
<1> QED BY <1>7, <1>10, <1>11, <1>12, <1>13 DEF IInv, Agenda

LEMMA MakeFailsRaises == ASSUME IInv, NEW s \in Imu, MakeFails(s) PROVE IInv'
<1>1. /\ Now("make", s) /\ faulty' = faulty \cup {s} /\ Goes("unwinding", Unwind) /\ raisedBy' = s
      /\ UNCHANGED <<contextVars, status, running, device, polled, thread, refused>>
  BY DEF MakeFails, Raises
<1>2. s \in Sensors
  BY DEF Sensors
<1>3. /\ JobsInOrder /\ SensorTypes /\ stopping = None /\ pc = "starting"
      /\ ~Has("create", None) /\ step = "make"
  BY <1>1, <1>2, AtSensor, JobOfStep, NotCreating
<1>4. linked
  BY <1>3 DEF IInv, Name
<1>5. SensorTypes'
  BY <1>1, <1>2, <1>3 DEF SensorTypes
<1>6. \A t \in Sensors : ~(t \in Event /\ Now("spawn", t))
  BY <1>3 DEF Now
<1> QED BY <1>1, <1>3, <1>4, <1>5, <1>6, EntersUnwinding DEF contextVars

LEMMA SpawnFailsRaises == ASSUME IInv, NEW s \in Imu, SpawnFails(s) PROVE IInv'
<1>1. /\ Now("spawn", s) /\ faulty' = faulty \cup {s} /\ Goes("unwinding", Unwind) /\ raisedBy' = s
      /\ UNCHANGED <<contextVars, status, running, device, polled, thread, refused>>
  BY DEF SpawnFails, Raises
<1>2. s \in Sensors /\ s \notin Event
  BY SensorsAssumption DEF Sensors
<1>3. /\ JobsInOrder /\ SensorTypes /\ stopping = None /\ pc = "starting"
      /\ ~Has("create", None) /\ Head(todo).what = s
  BY <1>1, <1>2, AtSensor, JobOfStep, NotCreating
<1>4. linked
  BY <1>3 DEF IInv, Name
<1>5. SensorTypes'
  BY <1>1, <1>2, <1>3 DEF SensorTypes
<1>6. \A t \in Sensors : ~(t \in Event /\ Now("spawn", t))
  BY <1>2, <1>3 DEF Now
<1> QED BY <1>1, <1>3, <1>4, <1>5, <1>6, EntersUnwinding DEF contextVars

\* The main thread goes on to a stage with no job for any sensor.
LEMMA EntersIdle ==
  ASSUME IInv, NEW stage \in {"waiting", "gone"}, Goes(stage, << >>), stopping = None,
         linked' \in BOOLEAN, linked' <=> stage = "waiting",
         UNCHANGED <<config, stopping, asked, sensorVars, removed, calling, historyVars>>,
         \A s \in Sensors : ~Now("spawn", s),
         stage = "gone" => \A s \in Sensors : ~Holds(s),
         stage = "waiting" => pc = "starting" /\ todo = << >>
  PROVE  IInv'
<1>1. pc' = stage /\ todo' = << >> /\ step' = "over" /\ ToSet(<< >>) = {} /\ None \notin Sensors
  BY SensorsAssumption DEF Goes, Entry, ToSet
<1>2. config \in Configs /\ Present' = Present
  BY DEF IInv, Agenda, JobsInOrder, Present, Cameras, EventCameras, Imus
<1>3. JobsInOrder'
  BY <1>1, <1>2 DEF JobsInOrder, Ordered
<1>4. \A d, s : ~Has(d, s)' /\ ~Working(s)' /\ ~Now(d, s)'
  BY <1>1 DEF Has, Working, Now
<1>5. TypeOK'
  BY <1>1, <1>2 DEF IInv, TypeOK, sensorVars, historyVars
<1>6. Name'
  BY <1>1, <1>4 DEF Name
<1>7. ASSUME NEW s \in Sensors PROVE SensorInv(s)'
  <2>1. /\ SensorInv(s) /\ s # None /\ (Live(s)' <=> Live(s))
        /\ UNCHANGED <<status, device, running, removed, calling, faulty, refused, stopping>>
    BY <1>1 DEF IInv, Live, sensorVars, historyVars
  <2>2. Making(s)' /\ Held(s)'
    BY <1>1, <1>2, <1>4, <2>1 DEF SensorInv, Making, Held, Holds
  <2>3. ImuHeld(s)' /\ Ending(s)' /\ CalledBack(s)'
    BY <1>4, <2>1 DEF SensorInv, ImuHeld, Ending, CalledBack
  <2>4. Sound(s)'
    <3>1. CASE stage = "gone"
      BY <1>1, <2>1, <3>1 DEF SensorInv, Sound
    <3>2. CASE stage = "waiting"
      <4>1. ~Has("start", s)
        BY <1>1, <3>2 DEF Has
      <4> QED BY <1>1, <1>2, <1>4, <2>1, <3>2, <4>1 DEF SensorInv, Sound
    <3> QED BY <3>1, <3>2
  <2> QED BY <2>2, <2>3, <2>4 DEF SensorInv
<1>8. StopsOne'
  BY DEF StopsOne
<1> QED BY <1>3, <1>5, <1>6, <1>7, <1>8 DEF IInv, Agenda, historyVars

\* The signal has come: the modules are stopped.
LEMMA EntersStopping ==
  ASSUME IInv, pc = "waiting", todo = << >>, Goes("stopping", ShutDown),
         UNCHANGED <<contextVars, sensorVars, historyVars>>
  PROVE  IInv'
<1>1. /\ pc' = "stopping" /\ todo' = ShutDown /\ step' = Entry(ShutDown) /\ ToSet(<< >>) = {}
      /\ None \notin Sensors
  BY SensorsAssumption DEF Goes, Entry, ToSet
<1>2. config \in Configs /\ Present' = Present
  BY DEF IInv, Agenda, JobsInOrder, Present, Cameras, EventCameras, Imus, contextVars
<1>3. /\ ShutDown \in Seq(Jobs) /\ Ordered(ShutDown)
      /\ ToSet(ShutDown) \subseteq {Job("stop", s) : s \in Present} \cup
           {Job("destroy", s) : s \in Present}
  BY <1>2, StoppingJobs
<1>4. Present \subseteq Sensors
  BY <1>2, ConfiguredSensors
<1>5. /\ \A s \in Present : /\ Job("stop", s).does = "stop" /\ Job("stop", s).what = s
                            /\ Job("destroy", s).does = "destroy" /\ Job("destroy", s).what = s
      /\ \A s \in Sensors : Job("make", s).does = "make" /\ Job("start", s).does = "start"
      /\ Job("create", None).does = "create"
  BY <1>4, JobType
<1>6. \A job \in ToSet(ShutDown) : Fits("stopping", job) /\ job.does \in {"stop", "destroy"}
  BY <1>3, <1>5 DEF Fits
<1>7. IF ShutDown = << >> THEN step' = "over"
      ELSE /\ step' \in Steps(Head(ShutDown))
           /\ step' \notin {"spawn", "halt", "join", "release", "scrap", "free"}
           /\ Head(ShutDown).does = "destroy" => step' = "lower"
  BY <1>1, <1>3, EntryIsFirst
<1>8. JobsInOrder'
  <2>1. \A job : Fits("stopping", job) => Fits(pc, job)'
    BY <1>1, <1>2 DEF Fits
  <2> QED BY <1>1, <1>2, <1>3, <1>6, <1>7, <2>1 DEF JobsInOrder, contextVars
<1>9. /\ ~Has("create", None)' /\ ~Has("create", None)
      /\ \A s \in Sensors : ~Has("make", s)' /\ ~Has("start", s)'
  BY <1>1, <1>5, <1>6 DEF Has
<1>10. stopping = None /\ stopping' = None
  BY DEF IInv, Agenda, StopsOne, Working, contextVars
<1>11. TypeOK'
  <2>1. step' \in {"create", "make", "open", "arm", "spawn", "ask", "lower", "halt", "join", "release",
                   "scrap", "free", "unlink", "over"}
    BY <1>8, StepNames DEF JobsInOrder
  <2>2. todo' \in Seq(Jobs)
    BY <1>1, <1>3
  <2> QED BY <1>1, <2>1, <2>2 DEF IInv, TypeOK, Jobs, contextVars, sensorVars, historyVars
<1>12. Name'
  BY <1>1, <1>9 DEF Name, IInv, contextVars
<1>13. ASSUME NEW s \in Sensors PROVE SensorInv(s)'
  <2>1. /\ SensorInv(s) /\ s # None /\ (Live(s)' <=> Live(s)) /\ ~Now("spawn", s)
        /\ ~Now("spawn", s)'
        /\ UNCHANGED <<status, device, running, removed, calling, faulty, refused, stopping>>
    BY <1>1, <1>7 DEF IInv, Live, sensorVars, historyVars, contextVars, Now
  <2>2. Making(s)' /\ Held(s)'
    BY <1>1, <1>2, <1>9, <2>1 DEF SensorInv, Making, Held, Holds
  <2>3. ImuHeld(s)' /\ Ending(s)' /\ CalledBack(s)'
    BY <1>1, <1>7, <1>10, <2>1 DEF SensorInv, ImuHeld, Ending, CalledBack, Working
  <2>4. Sound(s)'
    BY <1>1, <2>1 DEF SensorInv, Sound
  <2> QED BY <2>2, <2>3, <2>4 DEF SensorInv
<1>14. StopsOne'
  BY <1>10 DEF StopsOne
<1> QED BY <1>8, <1>11, <1>12, <1>13, <1>14 DEF IInv, Agenda, historyVars

LEMMA ProceedKeeps == ASSUME IInv, Proceed PROVE IInv'
<1>1. /\ todo = << >> /\ UNCHANGED <<contextVars, sensorVars, historyVars>> /\ ToSet(<< >>) = {}
  BY DEF Proceed, ToSet
<1>2. stopping = None /\ None \notin Sensors /\ linked \in BOOLEAN
  BY <1>1, SensorsAssumption DEF IInv, Agenda, StopsOne, Working, TypeOK
<1>3. (\A d, s : ~Has(d, s)) /\ \A s : ~Now("spawn", s)
  BY <1>1 DEF Has, Now
<1>4. CASE pc = "starting" /\ Goes("waiting", << >>)
  <2>1. linked
    BY <1>3, <1>4 DEF IInv, Name
  <2> QED BY <1>1, <1>2, <1>3, <1>4, <2>1, EntersIdle DEF contextVars
<1>5. CASE pc = "waiting" /\ Goes("stopping", ShutDown)
  BY <1>1, <1>5, EntersStopping
<1>6. CASE pc = "stopping" /\ Goes("unwinding", Unwind)
  <2>1. linked
    BY <1>3, <1>6 DEF IInv, Name
  <2>2. SensorTypes'
    BY <1>1 DEF IInv, TypeOK, SensorTypes, sensorVars, historyVars
  <2> QED BY <1>1, <1>2, <1>3, <1>6, <2>1, <2>2, EntersUnwinding DEF contextVars, sensorVars,
    historyVars, IInv
<1>7. CASE pc = "unwinding" /\ Goes("gone", << >>)
  <2>1. ~linked
    BY <1>3, <1>7 DEF IInv, Name
  <2>2. \A s \in Sensors : ~Holds(s)
    BY <1>3, <1>7 DEF IInv, SensorInv, Held, Holds
  <2> QED BY <1>1, <1>2, <1>3, <1>7, <2>1, <2>2, EntersIdle DEF contextVars
<1> QED BY <1>4, <1>5, <1>6, <1>7 DEF Proceed

\* The making and the end of the master.
LEMMA MasterKeeps ==
  ASSUME IInv, NEW do \in {"create", "unlink"}, Now(do, None), Done, linked' = (do = "create"),
         UNCHANGED <<config, stopping, asked, sensorVars, removed, calling, historyVars>>
  PROVE  IInv'
<1>1. JobsInOrder /\ None \notin Sensors /\ todo # << >> /\ step = do
  BY SensorsAssumption DEF IInv, Agenda, Now
<1>2. /\ Head(todo) = Job(do, None) /\ pc = (IF do = "create" THEN "starting" ELSE "unwinding")
      /\ Head(todo).does = do
  BY <1>1, JobOfStep, JobType
<1>3. pc' = pc /\ todo' = Tail(todo) /\ step' = Entry(Tail(todo))
  BY <1>1, Finishes
<1>4. /\ Tail(todo) \in Seq(Jobs) /\ ToSet(todo) = {Head(todo)} \cup ToSet(Tail(todo))
      /\ \A job \in ToSet(Tail(todo)) : Precedes(Head(todo), job)
  BY <1>1, FirstJob
<1>5. JobsInOrder'
  BY <1>1, JobsStayInOrder
<1>6. stopping = None
  BY <1>1 DEF IInv, Agenda, StopsOne
<1>7. TypeOK'
  <2>1. step' \in {"create", "make", "open", "arm", "spawn", "ask", "lower", "halt", "join", "release",
                   "scrap", "free", "unlink", "over"}
    BY <1>5, StepNames DEF JobsInOrder
  <2> QED BY <1>3, <1>4, <2>1 DEF IInv, TypeOK, Jobs, sensorVars, historyVars
<1>8. Name'
  <2>1. Job("create", None).does = "create" /\ Job("unlink", None).does = "unlink"
    BY JobType
  <2>2. ~Has("create", None)'
    BY <1>3, <1>4, <2>1 DEF Has, Precedes
  <2>3. do = "unlink" => ~Has("unlink", None)'
    BY <1>2, <1>3, <1>4, <2>1 DEF Has, Precedes
  <2> QED BY <1>2, <1>3, <2>2, <2>3 DEF Name
<1>9. ASSUME NEW s \in Sensors PROVE SensorInv(s)'
  BY <1>1, <1>6, <1>9, OthersAsBefore DEF sensorVars, historyVars
<1>10. StopsOne'
  BY <1>6 DEF StopsOne
<1> QED BY <1>5, <1>7, <1>8, <1>9, <1>10 DEF IInv, Agenda, historyVars

LEMMA CreateMasterKeeps == ASSUME IInv, CreateMaster PROVE IInv'
<1>1. /\ Now("create", None)
      /\ UNCHANGED <<config, stopping, asked, sensorVars, removed, calling, historyVars>>
  BY DEF CreateMaster
<1>2. JobsInOrder /\ todo # << >> /\ step = "create" /\ None \notin Sensors
  BY <1>1, SensorsAssumption DEF IInv, Agenda, Now
<1>3. Has("create", None) /\ pc = "starting" /\ stopping = None /\ linked \in BOOLEAN
  BY <1>1, <1>2, JobOfStep, FirstJob DEF Has, IInv, Agenda, StopsOne, TypeOK
<1>4. ~linked /\ (\A s \in Sensors : ~Holds(s)) /\ (\A s \in Sensors : ~Now("spawn", s))
  BY <1>2, <1>3 DEF IInv, Name, SensorInv, Held, Holds, Now
<1>5. CASE Done /\ linked' = TRUE
  BY <1>1, <1>5, MasterKeeps
<1>6. CASE Goes("gone", << >>) /\ UNCHANGED linked
  BY <1>1, <1>3, <1>4, <1>6, EntersIdle
<1> QED BY <1>5, <1>6 DEF CreateMaster

LEMMA UnlinkKeeps == ASSUME IInv, Unlink PROVE IInv'
BY MasterKeeps DEF Unlink

LEMMA MainKeeps == ASSUME IInv, Main PROVE IInv'
<1>1. ASSUME NEW s \in Sensors,
             \/ Make(s) \/ MakeFails(s) \/ Open(s) \/ Arm(s) \/ ArmFails(s) \/ Spawn(s) \/ SpawnFails(s)
             \/ Lower(s) \/ Halt(s) \/ Join(s) \/ Release(s) \/ Scrap(s) \/ Free(s) \/ PassesOver(s)
      PROVE  IInv'
  <2>1. CASE MakeFails(s)
    BY <2>1, MakeFailsKeeps, MakeFailsRaises
  <2>2. CASE SpawnFails(s)
    BY <2>2, SpawnFailsKeeps, SpawnFailsRaises
  <2>3. CASE Make(s) \/ Open(s) \/ Arm(s) \/ ArmFails(s) \/ Spawn(s)
    BY <2>3, MakeKeeps, OpenKeeps, ArmKeeps, ArmFailsKeeps, SpawnKeeps
  <2>4. CASE Lower(s) \/ Halt(s) \/ Join(s) \/ Release(s) \/ Scrap(s) \/ Free(s) \/ PassesOver(s)
    BY <2>4, LowerKeeps, HaltKeeps, JoinKeeps, ReleaseKeeps, ScrapKeeps, FreeKeeps, PassesOverKeeps
  <2> QED BY <1>1, <2>1, <2>2, <2>3, <2>4
<1> QED BY <1>1, CreateMasterKeeps, UnlinkKeeps, ProceedKeeps DEF Main
-----------------------------------------------------------------------------
\* The threads, the SDK, a cable and a signal move while the main thread does not.
LEMMA BesideMain ==
  ASSUME IInv, UNCHANGED <<pc, todo, step, stopping, config, linked, status, device, refused, raisedBy>>,
         TypeOK', NEW s \in Sensors,
         \A t \in Sensors \ {s} : /\ UNCHANGED <<running[t], thread[t], t \in removed, t \in calling>>
                                  /\ t \in faulty => t \in faulty',
         Ending(s)', CalledBack(s)', Sound(s)', ImuHeld(s)', Live(s)' => Live(s)
  PROVE  IInv'
<1>1. Present' = Present /\ (\A d, t : Has(d, t)' <=> Has(d, t)) /\ (\A t : Working(t)' <=> Working(t))
      /\ \A d, t : Now(d, t)' <=> Now(d, t)
  BY DEF Present, Cameras, EventCameras, Imus, Has, Working, Now
<1>2. Agenda'
  BY <1>1 DEF IInv, Agenda, JobsInOrder, StopsOne, Fits
<1>3. Name'
  BY <1>1 DEF IInv, Name
<1>4. ASSUME NEW t \in Sensors PROVE Making(t)' /\ Held(t)'
  <2>1. Live(t)' => Live(t)
    BY DEF Live
  <2> QED BY <1>1, <2>1 DEF IInv, SensorInv, Making, Held, Holds
<1>5. ASSUME NEW t \in Sensors \ {s} PROVE ImuHeld(t)' /\ Ending(t)' /\ CalledBack(t)' /\ Sound(t)'
  <2>1. /\ SensorInv(t) /\ (Live(t)' <=> Live(t)) /\ running'[t] = running[t]
        /\ (t \in removed' <=> t \in removed) /\ (t \in calling' <=> t \in calling) /\
             (t \in faulty => t \in faulty')
    BY DEF Live, IInv
  <2> QED BY <1>1, <2>1 DEF SensorInv, ImuHeld, Ending, Quiet, Stoppable, CalledBack, Sound, Startable
<1> QED BY <1>2, <1>3, <1>4, <1>5 DEF IInv, SensorInv

LEMMA ThreadKeeps ==
  ASSUME IInv, NEW s \in Sensors, TestFlag(s) \/ Wait(s) \/ Refill(s) \/ Add(s)
  PROVE  IInv'
<1>1. WorkerOnly /\ Live(s)
  BY DEF TestFlag, Wait, Refill, Add, Live
<1>2. PICK place \in {"test", "wait", "refill", "add", "ended"} :
        /\ thread' = [thread EXCEPT ![s] = place]
        /\ \/ running' = running /\ faulty' = faulty /\ (place = "ended" => ~running[s])
           \/ s \notin Imu /\ place = "ended" /\ running' = [running EXCEPT ![s] = FALSE] /\
                faulty' = faulty \cup {s}
  BY SensorsAssumption DEF TestFlag, Wait, Refill, Add, Dies, Stays, GoesTo
<1>3. SensorInv(s) /\ TypeOK /\ s # None /\ (s \in Imu => s \notin Event)
  BY SensorsAssumption DEF IInv
<1>4. /\ TypeOK'
      /\ UNCHANGED <<pc, todo, step, stopping, config, linked, status, device, refused, raisedBy,
           removed, calling>>
  <2>1. UNCHANGED <<pc, todo, step, stopping, config, asked, linked, status, device, polled,
          refused, raisedBy, removed, calling>>
    BY <1>1 DEF WorkerOnly, mainVars
  <2>2. /\ thread' \in [Sensors -> {"none", "test", "wait", "refill", "add", "ended"}]
        /\ running' \in [Sensors -> BOOLEAN] /\ faulty' \subseteq Sensors
    BY <1>2, <1>3 DEF TypeOK
  <2> QED BY <1>3, <2>1, <2>2 DEF TypeOK
<1>5. /\ \A t \in Sensors \ {s} : /\ UNCHANGED <<running[t], thread[t]>>
                                  /\ t \in faulty => t \in faulty'
      /\ s \in Imu => running'[s] = running[s]
      /\ running'[s] => running[s]
      /\ \/ running'[s] = running[s] /\ faulty' = faulty /\ (Live(s)' \/ ~running[s])
         \/ s \in faulty'
  BY <1>2, <1>3 DEF TypeOK, Live
<1>6. /\ (\A d : Has(d, s)' <=> Has(d, s)) /\ (Working(s)' <=> Working(s))
      /\ (\A d : Now(d, s)' <=> Now(d, s))
      /\ Present' = Present
  BY <1>4 DEF Has, Working, Now, Present, Cameras, EventCameras, Imus
<1>7. ImuHeld(s)' /\ CalledBack(s)'
  BY <1>3, <1>4, <1>5, <1>6 DEF SensorInv, ImuHeld, CalledBack
<1>8. Ending(s)'
  BY <1>1, <1>3, <1>4, <1>5, <1>6 DEF SensorInv, Ending, Quiet, Stoppable
<1>9. Sound(s)'
  BY <1>1, <1>3, <1>4, <1>5, <1>6 DEF SensorInv, Sound, Making, Startable
<1> QED BY <1>1, <1>4, <1>5, <1>7, <1>8, <1>9, BesideMain

LEMMA CallBackKeeps ==
  ASSUME IInv, NEW s \in Sensors, CallBack(s) \/ CallBackEnds(s)
  PROVE  IInv'
<1>1. /\ UNCHANGED <<mainVars, asked, linked, sensorVars, removed, historyVars>>
      /\ \/ s \in Event /\ device[s] = "streaming" /\ calling' = calling \cup {s}
         \/ calling' = calling \ {s}
  BY DEF CallBack, CallBackEnds
<1>2. SensorInv(s) /\ TypeOK
  BY DEF IInv
<1>3. /\ TypeOK'
      /\ UNCHANGED <<pc, todo, step, stopping, config, linked, status, device, refused, raisedBy, removed,
                     running, thread, faulty>>
  BY <1>1, <1>2 DEF TypeOK, mainVars, sensorVars, historyVars
<1>4. /\ (\A d : Has(d, s)' <=> Has(d, s)) /\ (Working(s)' <=> Working(s))
      /\ (\A d : Now(d, s)' <=> Now(d, s))
      /\ Present' = Present /\ (Live(s)' <=> Live(s))
  BY <1>3 DEF Has, Working, Now, Present, Cameras, EventCameras, Imus, Live
<1>5. ImuHeld(s)' /\ CalledBack(s)' /\ Sound(s)'
  BY <1>1, <1>2, <1>3, <1>4 DEF SensorInv, ImuHeld, CalledBack, Sound, Startable
<1>6. Ending(s)'
  BY <1>1, <1>2, <1>3, <1>4 DEF SensorInv, Ending, Quiet, Stoppable
<1>7. \A t \in Sensors \ {s} : (t \in calling' <=> t \in calling)
  BY <1>1
<1> QED BY <1>3, <1>4, <1>5, <1>6, <1>7, BesideMain

LEMMA UnplugKeeps == ASSUME IInv, NEW s \in Sensors, Unplug(s) PROVE IInv'
<1>1. /\ UNCHANGED <<mainVars, asked, linked, sensorVars, calling, refused, raisedBy>>
      /\ removed' = removed \cup {s} /\ faulty' = faulty \cup {s} /\ s \in Pylon
  BY DEF Unplug
<1>2. SensorInv(s) /\ TypeOK
  BY DEF IInv
<1>3. /\ TypeOK'
      /\ UNCHANGED <<pc, todo, step, stopping, config, linked, status, device, refused, raisedBy,
           running, thread, calling>>
  BY <1>1, <1>2 DEF TypeOK, mainVars, sensorVars
<1>4. /\ (Working(s)' <=> Working(s)) /\ (\A d : Now(d, s)' <=> Now(d, s)) /\ (Live(s)' <=> Live(s))
  BY <1>3 DEF Working, Now, Live
<1>5. ImuHeld(s)' /\ CalledBack(s)' /\ Sound(s)' /\ Ending(s)'
  BY <1>1, <1>2, <1>3, <1>4 DEF SensorInv, ImuHeld, CalledBack, Sound, Ending, Quiet, Stoppable
<1> QED BY <1>1, <1>3, <1>4, <1>5, BesideMain

\* Nothing that the invariant speaks of has changed but that a signal has come.
LEMMA AskedKeeps ==
  ASSUME IInv, UNCHANGED <<mainVars, linked, sensorVars, removed, calling, historyVars>>,
    asked' \in BOOLEAN
  PROVE  IInv'
<1>1. /\ (\A d, s : Has(d, s)' <=> Has(d, s)) /\ (\A s : Working(s)' <=> Working(s))
      /\ (\A d, s : Now(d, s)' <=> Now(d, s))
      /\ (\A s : Live(s)' <=> Live(s)) /\ Present' = Present
  BY DEF Has, Working, Now, Live, Present, Cameras, EventCameras, Imus, mainVars, sensorVars
<1>2. TypeOK' /\ Agenda' /\ Name' /\ raisedBy' \in Imu \cup {None}
  BY <1>1 DEF IInv, TypeOK, Agenda, JobsInOrder, StopsOne, Fits, Name, mainVars, sensorVars, historyVars
<1>3. ASSUME NEW s \in Sensors PROVE SensorInv(s)'
  BY <1>1 DEF IInv, SensorInv, Making, Held, Holds, ImuHeld, Ending, Quiet, Stoppable, CalledBack, Sound,
    Startable,
              mainVars, sensorVars, historyVars
<1> QED BY <1>2, <1>3 DEF IInv

LEMMA NextKeeps == IInv /\ [Next]_vars => IInv'
<1> SUFFICES ASSUME IInv, [Next]_vars PROVE IInv'
  OBVIOUS
<1>1. CASE UNCHANGED vars
  BY <1>1, AskedKeeps DEF vars, IInv, TypeOK
<1>2. CASE Main
  BY <1>2, MainKeeps
<1>3. CASE Signal
  BY <1>3, AskedKeeps DEF Signal
<1>4. ASSUME NEW s \in Sensors, Unplug(s) \/ TestFlag(s) \/ Wait(s) \/ Refill(s) \/ Add(s) \/
         CallBack(s) \/ CallBackEnds(s)
      PROVE  IInv'
  BY <1>4, UnplugKeeps, ThreadKeeps, CallBackKeeps
<1> QED BY <1>1, <1>2, <1>3, <1>4 DEF Next

LEMMA Invariance == Spec => []IInv
BY InitInv, NextKeeps, PTL DEF Spec

\* Type correctness.
THEOREM TypeCorrect == Spec => []TypeOK
<1>1. IInv => TypeOK
  BY DEF IInv
<1> QED BY <1>1, Invariance, PTL

\* The segment outlives every device.
LEMMA NamedWhileOpen == ASSUME IInv, NEW s \in Sensors, Holds(s) PROVE linked
<1>1. SensorInv(s) /\ Name /\ JobsInOrder /\ TypeOK
  BY DEF IInv, Agenda
<1>2. pc # "gone" /\ ~Has("create", None)
  BY <1>1 DEF SensorInv, Held, Holds, Name
<1>3. CASE pc = "unwinding"
  <2>1. Has("destroy", s)
    BY <1>1, <1>3 DEF SensorInv, Held, Holds
  <2>2. todo # << >>
    BY <2>1 DEF Has, ToSet
  <2> QED BY <1>1, <1>3, <2>2 DEF JobsInOrder, Name
<1>4. CASE pc \in {"starting", "waiting", "stopping"}
  BY <1>1, <1>2, <1>4 DEF Name
<1> QED BY <1>1, <1>2, <1>3, <1>4 DEF TypeOK

\* No thread and no callback is at a device that is closed, with an object that is gone
\* (but for the conversion buffer of an event camera that would not stop), or at a ring
\* without a name: not after a failure, an exception or an early signal either.
THEOREM EverythingUsedExists == Spec => []UsesWhatExists
<1>1. IInv => UsesWhatExists
  <2> SUFFICES ASSUME IInv, NEW s \in Sensors, Busy(s)
               PROVE  /\ linked /\ Holds(s)
                      /\ status[s] \in {"initialized", "running", "stopped"} \/ s \in refused
    BY DEF UsesWhatExists
  <2>1. SensorInv(s) /\ (s \in calling => s \in Event)
    BY DEF IInv, TypeOK
  <2>2. /\ Holds(s)
        /\ (status[s] \in {"initialized", "running", "stopped"} \/ s \in refused)
    <3>1. CASE Live(s)
      BY <2>1, <3>1 DEF SensorInv, Held, Holds
    <3>2. CASE s \in calling
      BY <2>1, <3>2 DEF SensorInv, CalledBack, Holds
    <3> QED BY <3>1, <3>2 DEF Busy, Live
  <2> QED BY <2>2, NamedWhileOpen
<1> QED BY <1>1, Invariance, PTL

\* Once the service waits, every sensor of the configuration that did not fail itself
\* captures, whatever failed beside it; only an IMU's exception ends the service.
THEOREM BrokenSensorStaysAlone == Spec => []BrokenStaysAlone
<1>1. IInv => BrokenStaysAlone
  <2> SUFFICES ASSUME IInv PROVE BrokenStaysAlone
    OBVIOUS
  <2>1. config \in Configs /\ JobsInOrder
    BY DEF IInv, Agenda, JobsInOrder
  <2>2. Present = ToSet(Cameras \o EventCameras \o Imus) /\ Present \subseteq Sensors
    BY <2>1, ConfiguredSensors
  <2>3. ASSUME pc = "waiting", NEW s \in Present \ faulty PROVE Live(s)
    <3>1. \A job \in ToSet(todo) : FALSE
      BY <2>1, <2>3 DEF JobsInOrder, Fits
    <3>2. Sound(s)
      BY <2>2 DEF IInv, SensorInv
    <3> QED BY <2>3, <3>1, <3>2 DEF Sound, Has
  <2> QED BY <2>2, <2>3 DEF BrokenStaysAlone, Live, IInv
<1> QED BY <1>1, Invariance, PTL

\* Whatever it came through, the service leaves no thread and no name behind, no device
\* open but the descriptor of a V4L2 camera whose constructor threw, and an IMU that did
\* not start holds nothing.
THEOREM NothingIsLeftOpen == Spec => []NothingLeftOpen
<1>1. IInv => NothingLeftOpen
  <2> SUFFICES ASSUME IInv PROVE NothingLeftOpen
    OBVIOUS
  <2>1. ASSUME pc = "gone", NEW s \in Sensors
        PROVE  /\ thread[s] \in {"none", "ended"}
               /\ device[s] = "closed" \/ (device[s] = "leaked" /\ s \in V4L2 /\ status[s] = "broken")
    BY <2>1 DEF IInv, TypeOK, SensorInv, Held, Holds, Live
  <2>2. pc = "gone" => ~linked
    BY DEF IInv, Name
  <2>3. ASSUME pc = "waiting", NEW s \in Imu PROVE running[s] \/ device[s] = "closed"
    <3>1. JobsInOrder /\ StopsOne /\ s \in Sensors /\ s # None
      BY SensorsAssumption DEF IInv, Agenda, Sensors
    <3>2. todo = << >>
      <4>1. todo # << >> => Fits(pc, Head(todo))
        BY <3>1, FirstJob
      <4> QED BY <2>3, <4>1 DEF Fits
    <3>3. stopping # s
      BY <3>1, <3>2 DEF StopsOne, Working
    <3> QED BY <3>1, <3>3 DEF IInv, SensorInv, ImuHeld
  <2> QED BY <2>1, <2>2, <2>3 DEF NothingLeftOpen
<1> QED BY <1>1, Invariance, PTL
=============================================================================
