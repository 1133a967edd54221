---------------------------- MODULE SessionProofs ----------------------------
(***************************************************************************)
(* Proofs about Session, for any set of its scripts, any configuration,    *)
(* any devices that may fail and any bounds: the types, the output         *)
(* directory, the files and the counts, and what a failed start leaves.    *)
(*                                                                         *)
(* The invariant relates the thread of each device to what the main thread *)
(* has before it: a thread that runs while the script stops is to be       *)
(* stopped, and before the files it writes to are closed.                  *)
(***************************************************************************)
EXTENDS Session, TLAPS

-----------------------------------------------------------------------------
(***************************************************************************)
(* Lists of jobs.                                                          *)
(***************************************************************************)

Jobs == [does : {"start", "stop", "close"}, what : Devices \cup Groups]

\* The devices in the order in which any script starts them.
Rank == [d \in Devices |-> CASE d \in {"monitor", "raw"} -> 0 [] d = "RGB1" -> 1 [] d = "RGB2" -> 2
                             [] d = "Event1" -> 3 [] d = "accel" -> 4 [] d = "gyro" -> 5]

\* The devices of a group, configured or not.
Belongs(group) ==
  CASE group \in {"rig", "camera"} -> Basler
    [] group = "event_rig"         -> {"Event1"}
    [] group = "imu"               -> Imu
    [] group = "raw"               -> {"raw"}
    [] group = "monitor"           -> {"monitor"}

\* What may come before what: nothing is started before what precedes it, and no
\* device of a group is stopped after the files of the group are closed.
Precedes(a, b) ==
  /\ a.does = "start" /\ b.does = "start" => Rank[a.what] < Rank[b.what]
  /\ a.does = "close" /\ b.does = "stop" => b.what \notin Belongs(a.what)

\* A list of devices in the order of their ranks.
Ranked(q) == \A i, j \in 1..Len(q) : i < j => Rank[q[i]] < Rank[q[j]]

Ordered(jobs) == \A i, j \in 1..Len(jobs) : i < j => Precedes(jobs[i], jobs[j])

LEMMA Elements ==
  ASSUME NEW S, NEW q \in Seq(S)
  PROVE  /\ ToSet(q) = {q[i] : i \in 1..Len(q)} /\ ToSet(q) \subseteq S
         /\ \A i \in 1..Len(q) : q[i] \in S /\ q[i] \in ToSet(q)
BY DEF ToSet

LEMMA ElementsOfConcat ==
  ASSUME NEW S, NEW a \in Seq(S), NEW b \in Seq(S)
  PROVE  a \o b \in Seq(S) /\ ToSet(a \o b) = ToSet(a) \cup ToSet(b)
<1>1. a \o b \in Seq(S)
  OBVIOUS
<1>2. ToSet(a) \cup ToSet(b) \subseteq ToSet(a \o b)
  <2>1. ASSUME NEW i \in 1..Len(a) PROVE a[i] \in ToSet(a \o b)
    <3>1. i \in 1..Len(a \o b) /\ (a \o b)[i] = a[i]
      OBVIOUS
    <3> QED BY <1>1, <3>1, Elements
  <2>2. ASSUME NEW i \in 1..Len(b) PROVE b[i] \in ToSet(a \o b)
    <3>1. Len(a) + i \in 1..Len(a \o b) /\ (a \o b)[Len(a) + i] = b[i]
      OBVIOUS
    <3> QED BY <1>1, <3>1, Elements
  <2> QED BY <2>1, <2>2, Elements
<1>3. ASSUME NEW i \in 1..Len(a \o b) PROVE (a \o b)[i] \in ToSet(a) \cup ToSet(b)
  <2>1. CASE i <= Len(a)
    <3>1. i \in 1..Len(a) /\ (a \o b)[i] = a[i]
      BY <2>1
    <3> QED BY <3>1, Elements
  <2>2. CASE i > Len(a)
    <3>1. i - Len(a) \in 1..Len(b) /\ (a \o b)[i] = b[i - Len(a)]
      BY <2>2
    <3> QED BY <3>1, Elements
  <2> QED BY <2>1, <2>2
<1>4. ToSet(a \o b) = {(a \o b)[i] : i \in 1..Len(a \o b)}
  BY <1>1, Elements
<1> QED BY <1>1, <1>2, <1>3, <1>4

LEMMA OrderedConcat ==
  ASSUME NEW a \in Seq(Jobs), NEW b \in Seq(Jobs), Ordered(a), Ordered(b),
         \A x \in ToSet(a), y \in ToSet(b) : Precedes(x, y)
  PROVE  Ordered(a \o b)
<1> SUFFICES ASSUME NEW i \in 1..Len(a \o b), NEW j \in 1..Len(a \o b), i < j
             PROVE  Precedes((a \o b)[i], (a \o b)[j])
  BY DEF Ordered
<1>1. CASE j <= Len(a)
  <2>1. i \in 1..Len(a) /\ j \in 1..Len(a) /\ (a \o b)[i] = a[i] /\ (a \o b)[j] = a[j]
    BY <1>1
  <2> QED BY <2>1 DEF Ordered
<1>2. CASE i > Len(a)
  <2>1. /\ i - Len(a) \in 1..Len(b) /\ j - Len(a) \in 1..Len(b) /\ i - Len(a) < j - Len(a)
        /\ (a \o b)[i] = b[i - Len(a)] /\ (a \o b)[j] = b[j - Len(a)]
    BY <1>2
  <2> QED BY <2>1 DEF Ordered
<1>3. CASE i <= Len(a) /\ j > Len(a)
  <2>1. /\ i \in 1..Len(a) /\ j - Len(a) \in 1..Len(b)
        /\ (a \o b)[i] = a[i] /\ (a \o b)[j] = b[j - Len(a)]
    BY <1>3
  <2> QED BY <2>1, Elements
<1> QED BY <1>1, <1>2, <1>3

\* The rest of an ordered list, and what its first job says of it.
LEMMA OrderedTail ==
  ASSUME NEW q \in Seq(Jobs), q # << >>, Ordered(q)
  PROVE  /\ Tail(q) \in Seq(Jobs) /\ Ordered(Tail(q))
         /\ Head(q) \in Jobs /\ Head(q) \in ToSet(q)
         /\ ToSet(q) = {Head(q)} \cup ToSet(Tail(q))
         /\ \A job \in ToSet(Tail(q)) : Precedes(Head(q), job)
<1>1. /\ Head(q) = q[1] /\ 1 \in 1..Len(q) /\ Tail(q) \in Seq(Jobs) /\ Len(Tail(q)) = Len(q) - 1
      /\ \A i \in 1..Len(Tail(q)) : Tail(q)[i] = q[i + 1] /\ i + 1 \in 1..Len(q)
  OBVIOUS
<1>2. ASSUME NEW i \in 1..Len(q), i # 1 PROVE i - 1 \in 1..Len(Tail(q)) /\ q[i] = Tail(q)[i - 1]
  <2>1. i \in Int /\ Len(q) \in Nat
    OBVIOUS
  <2>2. i - 1 \in 1..Len(Tail(q)) /\ (i - 1) + 1 = i
    BY <1>1, <1>2, <2>1
  <2> QED BY <1>1, <2>2
<1>3. Ordered(Tail(q))
  <2> SUFFICES ASSUME NEW i \in 1..Len(Tail(q)), NEW j \in 1..Len(Tail(q)), i < j
               PROVE  Precedes(Tail(q)[i], Tail(q)[j])
    BY DEF Ordered
  <2> QED BY <1>1 DEF Ordered
<1>4. ToSet(q) = {Head(q)} \cup ToSet(Tail(q))
  <2>1. ASSUME NEW i \in 1..Len(q) PROVE q[i] \in {Head(q)} \cup ToSet(Tail(q))
    BY <1>1, <1>2, Elements
  <2>2. ASSUME NEW i \in 1..Len(Tail(q)) PROVE Tail(q)[i] \in ToSet(q)
    BY <1>1, Elements
  <2>3. q[1] \in ToSet(q)
    BY <1>1, Elements
  <2>4. /\ ToSet(q) = {q[i] : i \in 1..Len(q)}
        /\ ToSet(Tail(q)) = {Tail(q)[i] : i \in 1..Len(Tail(q))}
    BY <1>1, Elements
  <2>5. ToSet(q) \subseteq {Head(q)} \cup ToSet(Tail(q))
    BY <2>1, <2>4
  <2>6. ToSet(Tail(q)) \subseteq ToSet(q)
    BY <2>2, <2>4
  <2> QED BY <1>1, <2>3, <2>5, <2>6
<1>5. ASSUME NEW job \in ToSet(Tail(q)) PROVE Precedes(Head(q), job)
  <2>1. ToSet(Tail(q)) = {Tail(q)[i] : i \in 1..Len(Tail(q))}
    BY <1>1, Elements
  <2>2. PICK i \in 1..Len(Tail(q)) : job = Tail(q)[i]
    BY <1>5, <2>1
  <2>3. i + 1 \in 1..Len(q) /\ job = q[i + 1]
    BY <1>1, <2>2
  <2>4. 1 < i + 1
    OBVIOUS
  <2>5. Precedes(q[1], q[i + 1])
    BY <1>1, <2>3, <2>4 DEF Ordered
  <2> QED BY <1>1, <2>3, <2>5
<1>6. Head(q) \in Jobs
  BY <1>1
<1> QED BY <1>1, <1>3, <1>4, <1>5, <1>6

LEMMA JobType ==
  ASSUME NEW does \in {"start", "stop", "close"}, NEW what \in Devices \cup Groups
  PROVE  Job(does, what) \in Jobs /\ Job(does, what).does = does /\ Job(does, what).what = what
BY DEF Job, Jobs

LEMMA RankType == Rank \in [Devices -> Nat]
BY DEF Rank, Devices

LEMMA JobsFor ==
  ASSUME NEW does \in {"start", "stop"}, NEW q \in Seq(Devices),
         does = "stop" \/ Ranked(q)
  PROVE  /\ For(does, q) \in Seq(Jobs) /\ Ordered(For(does, q))
         /\ ToSet(For(does, q)) = {Job(does, d) : d \in ToSet(q)}
<1>1. /\ For(does, q) \in Seq(Jobs) /\ Len(For(does, q)) = Len(q)
      /\ \A i \in 1..Len(q) : For(does, q)[i] = Job(does, q[i]) /\ q[i] \in Devices
  <2>1. \A i \in 1..Len(q) : q[i] \in Devices /\ Job(does, q[i]) \in Jobs
    BY JobType
  <2>2. Len(q) \in Nat
    OBVIOUS
  <2> QED BY <2>1, <2>2 DEF For
<1>2. ToSet(For(does, q)) = {Job(does, d) : d \in ToSet(q)}
  <2>1. /\ ToSet(For(does, q)) = {For(does, q)[i] : i \in 1..Len(q)}
        /\ ToSet(q) = {q[i] : i \in 1..Len(q)}
    BY <1>1, Elements
  <2> QED BY <1>1, <2>1
<1>3. Ordered(For(does, q))
  <2> SUFFICES ASSUME NEW i \in 1..Len(For(does, q)), NEW j \in 1..Len(For(does, q)), i < j
               PROVE  Precedes(For(does, q)[i], For(does, q)[j])
    BY DEF Ordered
  <2>1. For(does, q)[i] = Job(does, q[i]) /\ For(does, q)[j] = Job(does, q[j])
    BY <1>1
  <2>2. /\ Job(does, q[i]).does = does /\ Job(does, q[j]).does = does
        /\ Job(does, q[i]).what = q[i] /\ Job(does, q[j]).what = q[j]
    BY <1>1, JobType
  <2>3. does = "stop" \/ Rank[q[i]] < Rank[q[j]]
    BY <1>1 DEF Ranked
  <2> QED BY <2>1, <2>2, <2>3 DEF Precedes
<1> QED BY <1>1, <1>2, <1>3

-----------------------------------------------------------------------------
(***************************************************************************)
(* The groups and the plans.                                               *)
(***************************************************************************)

LEMMA GroupFacts ==
  ASSUME NEW d \in Devices
  PROVE  GroupOf(d) \in Groups /\ d \in Belongs(GroupOf(d))
BY DEF Devices, Groups, GroupOf, Belongs, Basler, Imu

LEMMA BelongFacts ==
  ASSUME NEW group \in Groups
  PROVE  Belongs(group) \subseteq Devices
BY DEF Devices, Groups, Belongs, Basler, Imu

LEMMA SmallLists ==
  /\ ToSet(<< >>) = {}
  /\ \A x : ToSet(<<x>>) = {x}
  /\ \A x, y : ToSet(<<x, y>>) = {x, y}
BY DEF ToSet

LEMMA ChosenFacts ==
  ASSUME NEW name \in Devices
  PROVE  /\ Chosen(name) \in Seq({name}) /\ Chosen(name) \in Seq(Devices)
         /\ Len(Chosen(name)) \in {0, 1}
         /\ ToSet(Chosen(name)) = {name} \cap configured
<1>1. CASE name \in configured
  <2>1. Chosen(name) = <<name>>
    BY <1>1 DEF Chosen
  <2>2. <<name>> \in Seq({name}) /\ <<name>> \in Seq(Devices) /\ Len(<<name>>) = 1
    OBVIOUS
  <2> QED BY <1>1, <2>1, <2>2, SmallLists
<1>2. CASE name \notin configured
  <2>1. Chosen(name) = << >>
    BY <1>2 DEF Chosen
  <2>2. << >> \in Seq({name}) /\ << >> \in Seq(Devices) /\ Len(<< >>) = 0
    OBVIOUS
  <2> QED BY <1>2, <2>1, <2>2, SmallLists
<1> QED BY <1>1, <1>2

LEMMA ShortRanked ==
  ASSUME NEW q \in Seq(Devices), Len(q) \in {0, 1}
  PROVE  Ranked(q)
BY DEF Ranked

LEMMA RigFacts ==
  /\ Members("rig") = Chosen("RGB1") \o Chosen("RGB2")
  /\ Members("rig") \in Seq(Devices) /\ Ranked(Members("rig"))
  /\ ToSet(Members("rig")) = {"RGB1", "RGB2"} \cap configured
<1> DEFINE a == Chosen("RGB1")
           b == Chosen("RGB2")
<1>1. Members("rig") = a \o b
  BY DEF Members
<1>2. /\ a \in Seq({"RGB1"}) /\ a \in Seq(Devices) /\ Len(a) \in {0, 1}
      /\ b \in Seq({"RGB2"}) /\ b \in Seq(Devices) /\ Len(b) \in {0, 1}
  <2>1. "RGB1" \in Devices /\ "RGB2" \in Devices
    BY DEF Devices
  <2> QED BY <2>1, ChosenFacts
<1>3. ToSet(a) \cup ToSet(b) = {"RGB1", "RGB2"} \cap configured
  BY ChosenFacts DEF Devices
<1> HIDE DEF a, b
<1>4. a \o b \in Seq(Devices) /\ ToSet(a \o b) = ToSet(a) \cup ToSet(b)
  BY <1>2, ElementsOfConcat
<1>5. Ranked(a \o b)
  <2> SUFFICES ASSUME NEW i \in 1..Len(a \o b), NEW j \in 1..Len(a \o b), i < j
               PROVE  Rank[(a \o b)[i]] < Rank[(a \o b)[j]]
    BY DEF Ranked
  <2>1. Len(a \o b) = Len(a) + Len(b) /\ Len(a) \in Nat /\ Len(b) \in Nat
    BY <1>2
  <2>2. i = 1 /\ j = 2 /\ Len(a) = 1 /\ Len(b) = 1
    <3>1. i \in Int /\ j \in Int /\ 1 <= i /\ i < j /\ j <= Len(a) + Len(b)
      BY <2>1
    <3>2. Len(a) = 0 \/ Len(a) = 1
      BY <1>2
    <3>3. Len(b) = 0 \/ Len(b) = 1
      BY <1>2
    <3>4. \A k, l \in {0, 1} : j <= k + l => i = 1 /\ j = 2 /\ k = 1 /\ l = 1
      BY <3>1
    <3> QED BY <3>1, <3>2, <3>3, <3>4
  <2>3. (a \o b)[1] = a[1]
    BY <1>2, <2>2
  <2>6. (a \o b)[2] = b[1]
    <3>1. 1 \in 1..Len(b) /\ Len(a) + 1 = 2
      BY <2>2
    <3>2. \A k \in 1..Len(b) : (a \o b)[Len(a) + k] = b[k]
      BY <1>2
    <3> QED BY <3>1, <3>2
  <2>4. a[1] = "RGB1" /\ b[1] = "RGB2"
    BY <1>2, <2>2
  <2>5. Rank["RGB1"] < Rank["RGB2"]
    BY DEF Rank, Devices
  <2> QED BY <2>2, <2>3, <2>6, <2>4, <2>5
<1> QED BY <1>1, <1>3, <1>4, <1>5 DEF a, b

LEMMA ImuFacts ==
  /\ Members("imu") \in Seq(Devices) /\ Ranked(Members("imu"))
  /\ ToSet(Members("imu")) = IF "imu" \in configured THEN Imu ELSE {}
<1>1. CASE "imu" \in configured
  <2>1. Members("imu") = <<"accel", "gyro">>
    BY <1>1 DEF Members
  <2>2. /\ <<"accel", "gyro">> \in Seq(Devices) /\ Len(<<"accel", "gyro">>) = 2
        /\ <<"accel", "gyro">>[1] = "accel" /\ <<"accel", "gyro">>[2] = "gyro"
    BY DEF Devices
  <2>3. Rank["accel"] < Rank["gyro"]
    BY DEF Rank, Devices
  <2>4. \A i, j \in 1..2 : i < j => i = 1 /\ j = 2
    OBVIOUS
  <2>5. Ranked(<<"accel", "gyro">>)
    BY <2>2, <2>3, <2>4 DEF Ranked
  <2>6. ToSet(<<"accel", "gyro">>) = Imu
    BY SmallLists DEF Imu
  <2> QED BY <1>1, <2>1, <2>2, <2>5, <2>6
<1>2. CASE "imu" \notin configured
  <2>1. Members("imu") = << >> /\ << >> \in Seq(Devices) /\ Len(<< >>) \in {0, 1}
    BY <1>2 DEF Members
  <2> QED BY <1>2, <2>1, SmallLists, ShortRanked
<1> QED BY <1>1, <1>2

LEMMA SingleFacts ==
  ASSUME NEW d \in Devices
  PROVE  <<d>> \in Seq(Devices) /\ Ranked(<<d>>) /\ ToSet(<<d>>) = {d}
<1>1. <<d>> \in Seq(Devices) /\ Len(<<d>>) \in {0, 1}
  OBVIOUS
<1> QED BY <1>1, ShortRanked, SmallLists

LEMMA MemberFacts ==
  ASSUME NEW group \in Groups
  PROVE  /\ Members(group) \in Seq(Devices) /\ Ranked(Members(group))
         /\ ToSet(Members(group)) \subseteq Belongs(group)
<1>1. CASE group = "rig"
  BY <1>1, RigFacts DEF Belongs, Basler
<1>2. CASE group = "event_rig"
  <2>1. Members(group) = Chosen("Event1") /\ "Event1" \in Devices
    BY <1>2 DEF Members, Devices
  <2>2. /\ Chosen("Event1") \in Seq(Devices) /\ Len(Chosen("Event1")) \in {0, 1}
        /\ ToSet(Chosen("Event1")) = {"Event1"} \cap configured
    <3>1. \A d \in Devices : /\ Chosen(d) \in Seq(Devices) /\ Len(Chosen(d)) \in {0, 1}
                             /\ ToSet(Chosen(d)) = {d} \cap configured
      BY ChosenFacts
    <3> HIDE DEF Devices
    <3> QED BY <2>1, <3>1
  <2>3. Ranked(Chosen("Event1"))
    BY <2>2, ShortRanked
  <2> QED BY <1>2, <2>1, <2>2, <2>3 DEF Belongs
<1>3. CASE group = "imu"
  BY <1>3, ImuFacts DEF Belongs
<1>4. CASE group = "camera"
  BY <1>4, SingleFacts DEF Members, Devices, Belongs, Basler
<1>5. CASE group = "raw"
  BY <1>5, SingleFacts DEF Members, Devices, Belongs
<1>6. CASE group = "monitor"
  BY <1>6, SingleFacts DEF Members, Devices, Belongs
<1> QED BY <1>1, <1>2, <1>3, <1>4, <1>5, <1>6 DEF Groups

LEMMA StartsOfGroup ==
  ASSUME NEW group \in Groups
  PROVE  /\ StartGroup(group) \in Seq(Jobs) /\ Ordered(StartGroup(group))
         /\ ToSet(StartGroup(group)) = {Job("start", d) : d \in ToSet(Members(group))}
BY MemberFacts, JobsFor DEF StartGroup

LEMMA StopsOfGroup ==
  ASSUME NEW group \in Groups
  PROVE  /\ StopGroup(group) \in Seq(Jobs) /\ Ordered(StopGroup(group))
         /\ ToSet(StopGroup(group)) = {Job("stop", d) : d \in ToSet(Members(group))} \cup
              {Job("close", group)}
<1> DEFINE stops == For("stop", Members(group))
           close == <<Job("close", group)>>
<1>1. /\ stops \in Seq(Jobs) /\ Ordered(stops)
      /\ ToSet(stops) = {Job("stop", d) : d \in ToSet(Members(group))}
  BY MemberFacts, JobsFor
<1>2. close \in Seq(Jobs) /\ Ordered(close) /\ ToSet(close) = {Job("close", group)}
  <2>1. Job("close", group) \in Jobs
    BY JobType
  <2>2. close \in Seq(Jobs) /\ Len(close) = 1
    BY <2>1
  <2> QED BY <2>2, SmallLists DEF Ordered
<1>3. \A x \in ToSet(stops), y \in ToSet(close) : Precedes(x, y)
  <2> SUFFICES ASSUME NEW d \in ToSet(Members(group)) PROVE Precedes(Job("stop", d), Job("close", group))
    BY <1>1, <1>2
  <2>1. d \in Devices
    BY MemberFacts, BelongFacts
  <2> QED BY <2>1, JobType DEF Precedes
<1> HIDE DEF stops, close
<1>4. stops \o close \in Seq(Jobs) /\ ToSet(stops \o close) = ToSet(stops) \cup ToSet(close)
  BY <1>1, <1>2, ElementsOfConcat
<1>5. Ordered(stops \o close)
  BY <1>1, <1>2, <1>3, OrderedConcat
<1>6. StopGroup(group) = stops \o close
  BY DEF StopGroup, stops, close
<1> QED BY <1>1, <1>2, <1>4, <1>5, <1>6

\* A list that starts the devices of a set, and one that stops them and closes groups.
StartsOf(jobs, devices) ==
  jobs \in Seq(Jobs) /\ Ordered(jobs) /\ ToSet(jobs) = {Job("start", d) : d \in devices}
StopsOf(jobs, groups, devices) ==
  /\ jobs \in Seq(Jobs) /\ Ordered(jobs)
  /\ ToSet(jobs) = {Job("stop", d) : d \in devices} \cup {Job("close", g) : g \in groups}

LEMMA StartsConcat ==
  ASSUME NEW X \in SUBSET Devices, NEW Y \in SUBSET Devices, NEW a, NEW b, StartsOf(a, X), StartsOf(b, Y),
         \A x \in X, y \in Y : Rank[x] < Rank[y]
  PROVE  StartsOf(a \o b, X \cup Y)
<1>1. /\ a \in Seq(Jobs) /\ Ordered(a) /\ ToSet(a) = {Job("start", d) : d \in X}
      /\ b \in Seq(Jobs) /\ Ordered(b) /\ ToSet(b) = {Job("start", d) : d \in Y}
  BY DEF StartsOf
<1>2. ASSUME NEW x \in X, NEW y \in Y PROVE Precedes(Job("start", x), Job("start", y))
  <2>1. Job("start", x).does = "start" /\ Job("start", x).what = x /\ Job("start", y).what = y
    BY DEF Job
  <2> QED BY <2>1 DEF Precedes
<1>3. \A x \in ToSet(a), y \in ToSet(b) : Precedes(x, y)
  BY <1>1, <1>2
<1>4. a \o b \in Seq(Jobs) /\ ToSet(a \o b) = ToSet(a) \cup ToSet(b) /\ Ordered(a \o b)
  BY <1>1, <1>3, ElementsOfConcat, OrderedConcat
<1>5. {Job("start", d) : d \in X \cup Y} = {Job("start", d) : d \in X} \cup {Job("start", d) : d \in Y}
  OBVIOUS
<1> QED BY <1>1, <1>4, <1>5 DEF StartsOf

LEMMA StopsConcat ==
  ASSUME NEW X \in SUBSET Devices, NEW Y \in SUBSET Devices, NEW G \in SUBSET Groups,
    NEW H \in SUBSET Groups,
         NEW a, NEW b, StopsOf(a, G, X), StopsOf(b, H, Y), \A g \in G : Y \cap Belongs(g) = {}
  PROVE  StopsOf(a \o b, G \cup H, X \cup Y)
<1>1. /\ a \in Seq(Jobs) /\ Ordered(a)
      /\ ToSet(a) = {Job("stop", d) : d \in X} \cup {Job("close", g) : g \in G}
      /\ b \in Seq(Jobs) /\ Ordered(b)
      /\ ToSet(b) = {Job("stop", d) : d \in Y} \cup {Job("close", g) : g \in H}
  BY DEF StopsOf
<1>2. ASSUME NEW x \in ToSet(a), NEW y \in ToSet(b) PROVE Precedes(x, y)
  <2>1. (\E d \in X : x = Job("stop", d)) \/ \E g \in G : x = Job("close", g)
    BY <1>1
  <2>2. (\E d \in Y : y = Job("stop", d)) \/ \E g \in H : y = Job("close", g)
    BY <1>1
  <2>3. x.does # "start" /\ (x.does = "close" => x.what \in G)
    BY <2>1 DEF Job
  <2>4. y.does # "start" /\ (y.does = "stop" => y.what \in Y)
    BY <2>2 DEF Job
  <2> QED BY <2>3, <2>4 DEF Precedes
<1>3. a \o b \in Seq(Jobs) /\ ToSet(a \o b) = ToSet(a) \cup ToSet(b) /\ Ordered(a \o b)
  BY <1>1, <1>2, ElementsOfConcat, OrderedConcat, SMTT(30)
<1>4. /\ {Job("stop", d) : d \in X \cup Y} = {Job("stop", d) : d \in X} \cup {Job("stop", d) : d \in Y}
      /\ {Job("close", g) : g \in G \cup H} = {Job("close", g) : g \in G} \cup {Job("close", g) : g \in H}
  OBVIOUS
<1> QED BY <1>1, <1>3, <1>4 DEF StopsOf

LEMMA NoStops == StopsOf(<< >>, {}, {})
<1>1. << >> \in Seq(Jobs) /\ Ordered(<< >>)
  BY DEF Ordered
<1> QED BY <1>1, SmallLists DEF StopsOf

Present(group) == ToSet(Members(group))

LEMMA PresentFacts ==
  ASSUME NEW group \in Groups
  PROVE  /\ Present(group) \subseteq Belongs(group) /\ Present(group) \in SUBSET Devices
         /\ StartsOf(StartGroup(group), Present(group))
         /\ StopsOf(StopGroup(group), {group}, Present(group))
<1>1. {Job("close", g) : g \in {group}} = {Job("close", group)}
  OBVIOUS
<1> QED BY <1>1, MemberFacts, BelongFacts, StartsOfGroup, StopsOfGroup DEF Present, StartsOf, StopsOf

\* The devices of the script.
PlanDevices == UNION {Present(group) : group \in Plan.groups}

LEMMA PlanFacts ==
  ASSUME script \in Scripts
  PROVE  /\ Plan.groups \in SUBSET Groups /\ PlanDevices \in SUBSET Devices
         /\ \A d \in Devices : d \in PlanDevices <=> GroupOf(d) \in Plan.groups /\
              d \in Present(GroupOf(d))
         /\ \A group \in Plan.groups : \A d \in Belongs(group) : GroupOf(d) = group
         /\ StartsOf(Plan.starts, PlanDevices) /\ StopsOf(Plan.stops, Plan.groups, PlanDevices)
         /\ Plan.guarded => script # "record_basler" /\ Plan.groups \subseteq {"rig", "event_rig", "imu"}
                            /\ {"rig", "event_rig"} \subseteq Plan.groups
<1> DEFINE Facts == /\ Plan.groups \in SUBSET Groups
                    /\ \A group \in Plan.groups : \A d \in Belongs(group) : GroupOf(d) = group
                    /\ StartsOf(Plan.starts, PlanDevices) /\ StopsOf(Plan.stops, Plan.groups, PlanDevices)
                    /\ Plan.guarded => script # "record_basler" /\
                         Plan.groups \subseteq {"rig", "event_rig", "imu"}
                                       /\ {"rig", "event_rig"} \subseteq Plan.groups
<1>a. {"rig", "event_rig", "imu", "camera", "raw", "monitor"} = Groups
  BY DEF Groups
<1>b. /\ \A x \in Belongs("rig"), y \in Belongs("event_rig") \cup Belongs("imu") : Rank[x] < Rank[y]
      /\ \A x \in Belongs("event_rig"), y \in Belongs("imu") : Rank[x] < Rank[y]
      /\ \A x \in Belongs("monitor"), y \in Belongs("rig") : Rank[x] < Rank[y]
  BY DEF Rank, Belongs, Basler, Imu, Devices
<1>c. /\ Belongs("rig") \cap (Belongs("event_rig") \cup Belongs("imu")) = {}
      /\ Belongs("event_rig") \cap Belongs("imu") = {} /\ Belongs("rig") \cap Belongs("monitor") = {}
  BY DEF Belongs, Basler, Imu
<1>d. /\ Belongs("rig") = Basler /\ Belongs("event_rig") = {"Event1"} /\ Belongs("imu") = Imu
      /\ Belongs("camera") = Basler /\ Belongs("raw") = {"raw"} /\ Belongs("monitor") = {"monitor"}
  BY DEF Belongs
<1>e. /\ GroupOf("Event1") = "event_rig" /\ GroupOf("raw") = "raw" /\ GroupOf("monitor") = "monitor"
      /\ \A d \in Imu : GroupOf(d) = "imu"
      /\ \A d \in Basler : GroupOf(d) = IF script = "record_basler" THEN "camera" ELSE "rig"
  BY DEF GroupOf, Basler, Imu
<1>f. \A group \in {"rig", "event_rig", "imu", "camera", "raw", "monitor"} :
         /\ Present(group) \subseteq Belongs(group) /\ Present(group) \in SUBSET Devices
         /\ StartsOf(StartGroup(group), Present(group)) /\
              StopsOf(StopGroup(group), {group}, Present(group))
  BY <1>a, PresentFacts
<1>1. ASSUME script = "record" PROVE Facts
  <2>1. Plan = Record
    BY <1>1 DEF Plan
  <2>2. /\ Plan.groups = {"rig", "event_rig", "imu"} /\ Plan.guarded = TRUE
        /\ Plan.starts = StartGroup("rig") \o StartGroup("event_rig") \o StartGroup("imu")
        /\ Plan.stops = StopGroup("rig") \o StopGroup("event_rig") \o StopGroup("imu")
    BY <2>1 DEF Record
  <2>3. PlanDevices = Present("rig") \cup Present("event_rig") \cup Present("imu")
    BY <2>2 DEF PlanDevices
  <2>4. StartsOf(StartGroup("rig") \o StartGroup("event_rig"), Present("rig") \cup Present("event_rig"))
    BY <1>b, <1>f, StartsConcat
  <2>5. StartsOf(Plan.starts, PlanDevices)
    <3>1. /\ Present("rig") \cup Present("event_rig") \in SUBSET Devices
          /\ \A x \in Present("rig") \cup Present("event_rig"), y \in Present("imu") : Rank[x] < Rank[y]
      BY <1>b, <1>f
    <3> QED BY <1>f, <2>2, <2>3, <2>4, <3>1, StartsConcat
  <2>6. StopsOf(StopGroup("rig") \o StopGroup("event_rig"), {"rig", "event_rig"},
          Present("rig") \cup Present("event_rig"))
    <3>1. \A g \in {"rig"} : Present("event_rig") \cap Belongs(g) = {}
      BY <1>c, <1>f
    <3>2. /\ {"rig"} \in SUBSET Groups /\ {"event_rig"} \in SUBSET Groups
          /\ {"rig"} \cup {"event_rig"} = {"rig", "event_rig"}
      BY <1>a
    <3>3. StopsOf(StopGroup("rig") \o StopGroup("event_rig"), {"rig"} \cup {"event_rig"},
            Present("rig") \cup Present("event_rig"))
      BY <1>f, <3>1, <3>2, StopsConcat
    <3> QED BY <3>2, <3>3
  <2>7. StopsOf(Plan.stops, Plan.groups, PlanDevices)
    <3>1. /\ \A g \in {"rig", "event_rig"} : Present("imu") \cap Belongs(g) = {}
          /\ Present("rig") \cup Present("event_rig") \in SUBSET Devices
      BY <1>c, <1>f
    <3>2. /\ {"rig", "event_rig"} \in SUBSET Groups /\ {"imu"} \in SUBSET Groups
          /\ {"rig", "event_rig"} \cup {"imu"} = Plan.groups
      BY <1>a, <2>2
    <3> QED BY <1>f, <2>2, <2>3, <2>6, <3>1, <3>2, StopsConcat, SMTT(30)
  <2>8. \A group \in Plan.groups : \A d \in Belongs(group) : GroupOf(d) = group
    BY <1>1, <1>d, <1>e, <2>2
  <2> QED BY <1>1, <1>a, <2>2, <2>5, <2>7, <2>8
<1>2. ASSUME script = "record_rgb_event" PROVE Facts
  <2>1. Plan = RecordRgbEvent
    BY <1>2 DEF Plan
  <2>2. /\ Plan.groups = {"rig", "event_rig"} /\ Plan.guarded = TRUE
        /\ Plan.starts = StartGroup("rig") \o StartGroup("event_rig")
        /\ Plan.stops = StopGroup("rig") \o StopGroup("event_rig")
    BY <2>1 DEF RecordRgbEvent
  <2>3. PlanDevices = Present("rig") \cup Present("event_rig")
    BY <2>2 DEF PlanDevices
  <2>4. StartsOf(Plan.starts, PlanDevices)
    BY <1>b, <1>f, <2>2, <2>3, StartsConcat
  <2>5. StopsOf(Plan.stops, Plan.groups, PlanDevices)
    <3>1. \A g \in {"rig"} : Present("event_rig") \cap Belongs(g) = {}
      BY <1>c, <1>f
    <3>2. /\ {"rig"} \in SUBSET Groups /\ {"event_rig"} \in SUBSET Groups
          /\ {"rig"} \cup {"event_rig"} = Plan.groups
      BY <1>a, <2>2
    <3> QED BY <1>f, <2>2, <2>3, <3>1, <3>2, StopsConcat
  <2>6. \A group \in Plan.groups : \A d \in Belongs(group) : GroupOf(d) = group
    BY <1>2, <1>d, <1>e, <2>2
  <2> QED BY <1>2, <1>a, <2>2, <2>4, <2>5, <2>6
<1>3. ASSUME script = "record_multi_rgb" PROVE Facts
  <2>1. Plan = RecordMultiRgb
    BY <1>3 DEF Plan
  <2>2. /\ Plan.groups = {"monitor", "rig"} /\ Plan.guarded = FALSE
        /\ Plan.starts = StartGroup("monitor") \o StartGroup("rig")
        /\ Plan.stops = StopGroup("rig") \o StopGroup("monitor")
    BY <2>1 DEF RecordMultiRgb
  <2>3. /\ PlanDevices = Present("monitor") \cup Present("rig")
        /\ PlanDevices = Present("rig") \cup Present("monitor")
    BY <2>2 DEF PlanDevices
  <2>4. StartsOf(Plan.starts, PlanDevices)
    BY <1>b, <1>f, <2>2, <2>3, StartsConcat
  <2>5. StopsOf(Plan.stops, Plan.groups, PlanDevices)
    <3>1. \A g \in {"rig"} : Present("monitor") \cap Belongs(g) = {}
      BY <1>c, <1>f
    <3>2. /\ {"rig"} \in SUBSET Groups /\ {"monitor"} \in SUBSET Groups
          /\ {"rig"} \cup {"monitor"} = Plan.groups
      BY <1>a, <2>2
    <3> QED BY <1>f, <2>2, <2>3, <3>1, <3>2, StopsConcat
  <2>6. \A group \in Plan.groups : \A d \in Belongs(group) : GroupOf(d) = group
    BY <1>3, <1>d, <1>e, <2>2
  <2> QED BY <1>3, <1>a, <2>2, <2>4, <2>5, <2>6
<1>4. ASSUME NEW group \in {"imu", "raw", "camera"}, Plan = Single(group),
             \A d \in Belongs(group) : GroupOf(d) = group
      PROVE  Facts
  <2>1. /\ Plan.groups = {group} /\ Plan.guarded = FALSE
        /\ Plan.starts = StartGroup(group) /\ Plan.stops = StopGroup(group)
    BY <1>4 DEF Single
  <2>2. PlanDevices = Present(group)
    BY <2>1 DEF PlanDevices
  <2> QED BY <1>4, <1>a, <1>f, <2>1, <2>2
<1>5. ASSUME script = "record_imu" PROVE Facts
  <2>1. Plan = Single("imu")
    BY <1>5 DEF Plan, RecordImu
  <2> QED BY <1>4, <1>d, <1>e, <2>1
<1>6. ASSUME script = "record_event" PROVE Facts
  <2>1. Plan = Single("raw")
    BY <1>6 DEF Plan, RecordEvent
  <2> QED BY <1>4, <1>d, <1>e, <2>1
<1>7. ASSUME script = "record_basler" PROVE Facts
  <2>1. Plan = Single("camera")
    BY <1>7 DEF Plan, RecordBasler
  <2> QED BY <1>4, <1>7, <1>d, <1>e, <2>1
<1>8. Facts
  BY <1>1, <1>2, <1>3, <1>5, <1>6, <1>7, BoundsAssumption
<1> USE <1>8
<1>9. \A group \in Plan.groups : Present(group) \subseteq Belongs(group) /\
        Present(group) \in SUBSET Devices
  BY PresentFacts
<1>10. PlanDevices \in SUBSET Devices
  BY <1>9 DEF PlanDevices
<1>11. \A d \in Devices : d \in PlanDevices <=> GroupOf(d) \in Plan.groups /\ d \in Present(GroupOf(d))
  <2> SUFFICES ASSUME NEW d \in Devices
               PROVE  d \in PlanDevices <=> GroupOf(d) \in Plan.groups /\ d \in Present(GroupOf(d))
    OBVIOUS
  <2>1. ASSUME NEW group \in Plan.groups, d \in Present(group) PROVE GroupOf(d) = group
    BY <1>9, <2>1
  <2> QED BY <2>1 DEF PlanDevices
<1> QED BY <1>10, <1>11

\* Before(q, d) are the devices that come before d in the order of starts.
LEMMA BeforeFacts ==
  ASSUME NEW q \in Seq(Devices), Ranked(q), NEW d \in ToSet(q)
  PROVE  Before(q, d) \in Seq(Devices) /\ ToSet(Before(q, d)) = {e \in ToSet(q) : Rank[e] < Rank[d]}
<1>1. /\ ToSet(q) = {q[i] : i \in 1..Len(q)}
      /\ \A i \in 1..Len(q) : q[i] \in Devices /\ Rank[q[i]] \in Nat
  BY Elements, RankType
<1>2. PICK k \in 1..Len(q) : q[k] = d
  BY <1>1
<1>3. Len(q) \in Nat /\ k \in Nat /\ 1 <= k /\ k <= Len(q)
  OBVIOUS
<1>4. ASSUME NEW i \in 1..Len(q) PROVE (Rank[q[i]] < Rank[d] <=> i < k) /\ (q[i] = d => i = k)
  <2>1. CASE i < k
    <3>1. Rank[q[i]] < Rank[q[k]]
      BY <2>1 DEF Ranked
    <3> QED BY <1>1, <1>2, <2>1, <3>1
  <2>2. CASE i = k
    BY <1>1, <1>2, <2>2
  <2>3. CASE i > k
    <3>1. Rank[q[k]] < Rank[q[i]]
      BY <2>3 DEF Ranked
    <3> QED BY <1>1, <1>2, <2>3, <3>1
  <2> QED BY <1>3, <2>1, <2>2, <2>3
<1>5. (CHOOSE i \in 0..Len(q) - 1 : q[i + 1] = d) = k - 1
  <2>1. k - 1 \in 0..Len(q) - 1 /\ q[(k - 1) + 1] = d
    BY <1>2, <1>3
  <2>2. ASSUME NEW i \in 0..Len(q) - 1, q[i + 1] = d PROVE i = k - 1
    <3>1. i + 1 \in 1..Len(q)
      BY <1>3
    <3>2. i + 1 = k
      BY <1>4, <2>2, <3>1
    <3> QED BY <1>3, <3>2
  <2> QED BY <2>1, <2>2
<1>6. Before(q, d) = SubSeq(q, 1, k - 1)
  BY <1>5 DEF Before
<1>7. /\ SubSeq(q, 1, k - 1) \in Seq(Devices) /\ Len(SubSeq(q, 1, k - 1)) = k - 1
      /\ \A i \in 1..k - 1 : SubSeq(q, 1, k - 1)[i] = q[i] /\ i \in 1..Len(q)
  BY <1>3
<1>8. ToSet(SubSeq(q, 1, k - 1)) = {SubSeq(q, 1, k - 1)[i] : i \in 1..k - 1}
  <2> DEFINE s == SubSeq(q, 1, k - 1)
  <2>1. s \in Seq(Devices) /\ Len(s) = k - 1
    BY <1>7
  <2> HIDE DEF s
  <2>2. ToSet(s) = {s[i] : i \in 1..Len(s)}
    BY <2>1, Elements
  <2>3. ToSet(s) = {s[i] : i \in 1..k - 1}
    BY <2>1, <2>2
  <2> QED BY <2>3 DEF s
<1>9. {e \in ToSet(q) : Rank[e] < Rank[d]} \subseteq ToSet(SubSeq(q, 1, k - 1))
  <2> SUFFICES ASSUME NEW i \in 1..Len(q), Rank[q[i]] < Rank[d]
               PROVE  q[i] \in ToSet(SubSeq(q, 1, k - 1))
    BY <1>1
  <2>1. i \in 1..k - 1
    BY <1>3, <1>4
  <2> QED BY <1>7, <1>8, <2>1
<1>10. ToSet(SubSeq(q, 1, k - 1)) \subseteq {e \in ToSet(q) : Rank[e] < Rank[d]}
  <2> SUFFICES ASSUME NEW i \in 1..k - 1
               PROVE  q[i] \in ToSet(q) /\ Rank[q[i]] < Rank[d]
    BY <1>7, <1>8
  <2>1. i \in 1..Len(q) /\ i < k
    BY <1>3
  <2> QED BY <1>1, <1>4, <2>1
<1> QED BY <1>6, <1>7, <1>9, <1>10

LEMMA RigUnwindsFacts ==
  ASSUME NEW d \in Devices, d \in Present(GroupOf(d))
  PROVE  StopsOf(RigUnwinds(d), {},
                 IF GroupOf(d) \in {"rig", "event_rig"} THEN {e \in Present(GroupOf(d)) : Rank[e] < Rank[d]} ELSE {})
<1>1. CASE GroupOf(d) \in {"rig", "event_rig"}
  <2> DEFINE before == Before(Members(GroupOf(d)), d)
  <2>1. GroupOf(d) \in Groups
    BY GroupFacts
  <2>2. /\ Members(GroupOf(d)) \in Seq(Devices) /\ Ranked(Members(GroupOf(d)))
        /\ d \in ToSet(Members(GroupOf(d)))
    BY <2>1, MemberFacts DEF Present
  <2>3. before \in Seq(Devices) /\ ToSet(before) = {e \in Present(GroupOf(d)) : Rank[e] < Rank[d]}
    BY <2>2, BeforeFacts DEF Present
  <2>4. RigUnwinds(d) = For("stop", before)
    BY <1>1 DEF RigUnwinds
  <2> HIDE DEF before
  <2>5. /\ For("stop", before) \in Seq(Jobs) /\ Ordered(For("stop", before))
        /\ ToSet(For("stop", before)) = {Job("stop", e) : e \in ToSet(before)}
    BY <2>3, JobsFor
  <2>6. {Job("close", g) : g \in {}} = {}
    OBVIOUS
  <2> QED BY <1>1, <2>3, <2>4, <2>5, <2>6 DEF StopsOf
<1>2. CASE GroupOf(d) \notin {"rig", "event_rig"}
  <2>1. RigUnwinds(d) = << >>
    BY <1>2 DEF RigUnwinds
  <2> QED BY <1>2, <2>1, NoStops
<1> QED BY <1>1, <1>2

LEMMA MainUnwindsFacts ==
  ASSUME NEW d \in Devices
  PROVE  LET groups == IF Plan.guarded
                         THEN (IF GroupOf(d) = "imu" THEN {"event_rig"} ELSE {})
                              \cup (IF GroupOf(d) # "rig" THEN {"rig"} ELSE {})
                         ELSE {}
         IN StopsOf(MainUnwinds(d), groups, UNION {Present(group) : group \in groups})
<1> DEFINE first  == IF GroupOf(d) = "imu" THEN StopGroup("event_rig") ELSE << >>
           second == IF GroupOf(d) # "rig" THEN StopGroup("rig") ELSE << >>
           G == IF GroupOf(d) = "imu" THEN {"event_rig"} ELSE {}
           H == IF GroupOf(d) # "rig" THEN {"rig"} ELSE {}
           X == UNION {Present(group) : group \in G}
           Y == UNION {Present(group) : group \in H}
<1>1. "rig" \in Groups /\ "event_rig" \in Groups
  BY DEF Groups
<1>2. G \in SUBSET Groups /\ H \in SUBSET Groups
  BY <1>1
<1>3. StopsOf(first, G, X) /\ X \in SUBSET Devices
  <2>1. CASE GroupOf(d) = "imu"
    BY <1>1, <2>1, PresentFacts
  <2>2. CASE GroupOf(d) # "imu"
    BY <2>2, NoStops
  <2> QED BY <2>1, <2>2
<1>4. StopsOf(second, H, Y) /\ Y \in SUBSET Devices /\ Y \subseteq Belongs("rig")
  <2>1. CASE GroupOf(d) # "rig"
    BY <1>1, <2>1, PresentFacts
  <2>2. CASE GroupOf(d) = "rig"
    BY <2>2, NoStops
  <2> QED BY <2>1, <2>2
<1>5. \A g \in G : Y \cap Belongs(g) = {}
  <2>1. Belongs("rig") \cap Belongs("event_rig") = {}
    BY DEF Belongs, Basler
  <2> QED BY <1>4, <2>1
<1>6. UNION {Present(group) : group \in G \cup H} = X \cup Y
  OBVIOUS
<1>7. CASE Plan.guarded
  <2>1. MainUnwinds(d) = first \o second
    BY <1>7 DEF MainUnwinds
  <2> HIDE DEF first, second, G, H, X, Y
  <2>2. StopsOf(first \o second, G \cup H, X \cup Y)
    BY <1>2, <1>3, <1>4, <1>5, StopsConcat
  <2>3. StopsOf(MainUnwinds(d), G \cup H, UNION {Present(group) : group \in G \cup H})
    BY <1>6, <2>1, <2>2
  <2> QED BY <1>7, <2>3 DEF G, H
<1>8. CASE ~Plan.guarded
  <2>1. MainUnwinds(d) = << >>
    BY <1>8 DEF MainUnwinds
  <2> QED BY <1>8, <2>1, NoStops
<1> QED BY <1>7, <1>8

\* What a failed start unwinds: a group is closed after all of its devices are stopped,
\* and in a script with a handler every device before the one that failed is stopped,
\* unless that is the gyroscope.
LEMMA UnwindFacts ==
  ASSUME script \in Scripts, NEW d \in PlanDevices
  PROVE  \E groups \in SUBSET Groups, devices \in SUBSET Devices :
           /\ StopsOf(RigUnwinds(d) \o MainUnwinds(d), groups, devices)
           /\ \A group \in groups : Present(group) \subseteq devices
           /\ Plan.guarded /\ d # "gyro" => \A e \in PlanDevices : Rank[e] < Rank[d] => e \in devices
<1> DEFINE rig == IF GroupOf(d) \in {"rig", "event_rig"} THEN {e \in Present(GroupOf(d)) : Rank[e] < Rank[d]} ELSE {}
           groups == IF Plan.guarded
                       THEN (IF GroupOf(d) = "imu" THEN {"event_rig"} ELSE {})
                            \cup (IF GroupOf(d) # "rig" THEN {"rig"} ELSE {})
                       ELSE {}
           others == UNION {Present(group) : group \in groups}
<1>1. /\ d \in Devices /\ GroupOf(d) \in Plan.groups /\ d \in Present(GroupOf(d))
      /\ GroupOf(d) \in Groups
  BY PlanFacts
<1>2. groups \in SUBSET Groups /\ groups \subseteq {"event_rig", "rig"}
  BY DEF Groups
<1>3. StopsOf(RigUnwinds(d), {}, rig)
  BY <1>1, RigUnwindsFacts
<1>4. StopsOf(MainUnwinds(d), groups, others)
  BY <1>1, MainUnwindsFacts
<1>5. rig \in SUBSET Devices /\ others \in SUBSET Devices
  <2>1. \A group \in Groups : Present(group) \in SUBSET Devices
    BY PresentFacts
  <2>2. rig \in SUBSET Devices
    BY <1>1, <2>1
  <2>3. others \in SUBSET Devices
    BY <1>2, <2>1
  <2> QED BY <2>2, <2>3
<1>6. ASSUME Plan.guarded, d # "gyro", NEW e \in PlanDevices, Rank[e] < Rank[d]
         PROVE e \in rig \cup others
  <2>1. /\ e \in Devices /\ GroupOf(e) \in {"rig", "event_rig", "imu"} /\ e \in Present(GroupOf(e))
        /\ GroupOf(d) \in {"rig", "event_rig", "imu"}
    BY <1>1, <1>6, PlanFacts
  <2>2. CASE GroupOf(d) = GroupOf(e)
    <3>1. CASE GroupOf(d) \in {"rig", "event_rig"}
      BY <1>6, <2>1, <2>2, <3>1
    <3>2. CASE GroupOf(d) = "imu"
      <4>1. d \in Belongs("imu") /\ e \in Belongs("imu")
        BY <1>1, <2>1, <2>2, <3>2, GroupFacts
      <4>2. d = "accel" /\ (e = "accel" \/ e = "gyro")
        BY <1>6, <4>1 DEF Belongs, Imu
      <4>3. ~(Rank["accel"] < Rank["accel"]) /\ ~(Rank["gyro"] < Rank["accel"])
        BY DEF Rank, Devices
      <4> QED BY <1>6, <4>2, <4>3
    <3> QED BY <2>1, <3>1, <3>2
  <2>3. CASE GroupOf(d) # GroupOf(e)
    <3>1. d \in Belongs(GroupOf(d)) /\ e \in Belongs(GroupOf(e))
      BY <1>1, <2>1, GroupFacts
    <3>2. /\ \A x \in Belongs("rig"), y \in Belongs("event_rig") \cup
               Belongs("imu") : ~(Rank[y] < Rank[x])
          /\ \A x \in Belongs("event_rig"), y \in Belongs("imu") : ~(Rank[y] < Rank[x])
      BY DEF Rank, Belongs, Basler, Imu, Devices
    <3>3. GroupOf(e) \in groups
      BY <1>6, <2>1, <2>3, <3>1, <3>2
    <3> QED BY <2>1, <3>3
  <2> QED BY <2>2, <2>3
<1>7. \A group \in groups : Present(group) \subseteq rig \cup others
  OBVIOUS
<1> HIDE DEF rig, groups, others
<1>8. StopsOf(RigUnwinds(d) \o MainUnwinds(d), {} \cup groups, rig \cup others)
  <2>1. \A g \in {} : others \cap Belongs(g) = {}
    OBVIOUS
  <2> QED BY <1>2, <1>3, <1>4, <1>5, <2>1, StopsConcat
<1>9. {} \cup groups = groups /\ rig \cup others \in SUBSET Devices
  BY <1>5
<1> QED BY <1>2, <1>6, <1>7, <1>8, <1>9

-----------------------------------------------------------------------------
(***************************************************************************)
(* The invariant.                                                          *)
(***************************************************************************)

Phases == {"idle", "loop", "fetch", "write", "writing", "counting", "ended", "died", "late"}

\* The thread has ended, or was never started, or its join has given up on it.
Over(d) == HasEnded(d) \/ d \in timedOut

Runs(d) == phase[d] \in {"loop", "fetch", "write", "writing", "counting"}

\* A startup failure, if there was one, is one that the handler in main is there for.
\* It does not know of the accelerometer when the gyroscope fails.
Answered == raised => Plan.guarded /\ "gyro" \notin MayFail

\* The main thread and the list before it.
Stage ==
  /\ pc \in {"naming", "making"} => open = {} /\ \A d \in Devices : phase[d] = "idle"
  /\ pc \in {"naming", "making", "waiting", "leaving", "done"} => todo = << >>
  /\ pc = "starting" => \A job \in ToSet(todo) : job.does = "start" /\ job.what \in PlanDevices
  /\ pc = "stopping" => \A job \in ToSet(todo) : job.does # "start"
  /\ pc = "stopping" /\ ~raised => \A g \in open : Job("close", g) \in ToSet(todo)
  /\ pc \in {"starting", "waiting"} => ~raised /\ open = Plan.groups
  /\ \A job \in ToSet(todo) : job.what \in IF job.does = "close" THEN Groups ELSE Devices
  /\ Ordered(todo)

\* There is a manifest only after all files are closed.
Reported == /\ pc \notin {"leaving", "done"} => manifest = << >>
            /\ manifest # << >> => manifest \in [Recorded -> 0..MaxItems] /\ ~raised /\ open = {}

\* A frame or a sample is counted before its row is written, a batch of events after.
Counted(d) ==
  /\ phase[d] \in {"writing", "counting"} => d = "Event1"
  /\ d = "Event1" => /\ rows[d] \in {count[d], count[d] + 1}
                     /\ rows[d] # count[d] => phase[d] \in {"counting", "died"}
                     /\ phase[d] = "counting" => rows[d] = count[d] + 1
                     /\ phase[d] \in {"write", "writing"} => count[d] < MaxItems
  /\ d \in Recorded \ {"Event1"} =>
       /\ count[d] \in {rows[d], rows[d] + 1}
       /\ phase[d] \in {"idle", "loop", "fetch", "ended"} => count[d] = rows[d]
       /\ phase[d] = "write" => count[d] = rows[d] + 1

\* Once there is a manifest no file takes another row, but a batch of events that was
\* handed over before its file was closed may still arrive, and be the last.
Manifested(d) ==
  manifest # << >> /\ d \in Recorded =>
    /\ Miscount(d) \in {0, 1}
    /\ Miscount(d) = 1 => phase[d] \in {"died", "late"} \/ d \in timedOut
    /\ d = "Event1" /\ phase[d] \in {"fetch", "write", "writing", "late"} => Miscount(d) = 0

\* The files of a device are open until its thread has ended or is given up on.
Filed(d) == /\ Runs(d) => GroupOf(d) \in open \/ d \in timedOut
            /\ phase[d] = "late" => d \in timedOut

\* A device that was started belongs to the script, and what is still to be started
\* comes after it.
Planned(d) == phase[d] # "idle" =>
                d \in PlanDevices /\ \A e \in Devices : Job("start", e) \in ToSet(todo) =>
                  Rank[d] < Rank[e]

\* A device is stopped before its files are closed, and before the script ends.
Stopped(d) ==
  /\ Job("close", GroupOf(d)) \in ToSet(todo) => Over(d) \/ Job("stop", d) \in ToSet(todo)
  /\ pc = "stopping" /\ Answered => Over(d) \/ Job("stop", d) \in ToSet(todo)
  /\ pc \in {"leaving", "done"} /\ Answered => Over(d)

DeviceInv(d) == Counted(d) /\ Manifested(d) /\ Filed(d) /\ Planned(d) /\ Stopped(d)

IInv == TypeOK /\ Stage /\ Reported /\ \A d \in Devices : DeviceInv(d)

LEMMA SameJobs == Jobs = [does : {"start", "stop", "close"}, what : Devices \cup Groups]
BY DEF Jobs

LEMMA JobsDiffer ==
  ASSUME NEW c, NEW d, NEW x, NEW y
  PROVE  Job(c, x) = Job(d, y) <=> c = d /\ x = y
<1>1. Job(c, x).does = c /\ Job(d, y).does = d /\ Job(c, x).what = x /\ Job(d, y).what = y
  BY DEF Job
<1> QED BY <1>1

LEMMA TypeOfTodo == TypeOK => todo \in Seq(Jobs)
BY DEF TypeOK, Jobs

LEMMA TypeOfPhase ==
  TypeOK => /\ phase \in [Devices -> Phases]
            /\ stop \subseteq Devices /\ timedOut \subseteq stop /\ open \subseteq Groups
            /\ script \in Scripts
BY DEF TypeOK, Phases

LEMMA CountTypes ==
  ASSUME TypeOK
  PROVE  /\ count \in [Recorded -> 0..MaxItems] /\ rows \in [Recorded -> 0..MaxItems] /\ asked \in BOOLEAN
         /\ MaxItems \in Nat /\ Recorded \subseteq Devices
         /\ Recorded = {"RGB1", "RGB2", "accel", "gyro", "Event1"} /\ Basler \subseteq Recorded /\
              Imu \subseteq Recorded
BY BoundsAssumption DEF TypeOK, Recorded, Devices, Basler, Imu

\* A thread runs beside a manifest only if its join gave up on it.
LEMMA RunsBesideManifest ==
  ASSUME IInv, NEW d \in Devices, Runs(d), manifest # << >>
  PROVE  d \in timedOut /\ d \in stop /\ open = {}
<1>1. pc \in {"leaving", "done"} /\ ~raised /\ open = {}
  BY DEF IInv, Reported
<1>2. Over(d)
  BY <1>1 DEF IInv, DeviceInv, Stopped, Answered
<1> QED BY <1>1, <1>2, TypeOfPhase DEF IInv, Over, HasEnded, Runs

LEMMA PlanStays ==
  ASSUME UNCHANGED configVars
  PROVE  /\ Plan' = Plan /\ PlanDevices' = PlanDevices
         /\ \A d \in Devices : GroupOf(d)' = GroupOf(d)
<1>1. script' = script /\ configured' = configured
  BY DEF configVars
<1>2. \A g : Members(g)' = Members(g)
  BY <1>1 DEF Members, Chosen
<1>3. Plan' = Plan
  BY <1>1, <1>2 DEF Plan, Record, RecordRgbEvent, RecordMultiRgb, RecordImu, RecordEvent, RecordBasler,
                    Single, StartGroup, StopGroup, For
<1>4. PlanDevices' = PlanDevices
  BY <1>2, <1>3 DEF PlanDevices, Present
<1>5. \A d \in Devices : GroupOf(d)' = GroupOf(d)
  BY <1>1 DEF GroupOf
<1> QED BY <1>3, <1>4, <1>5

LEMMA NothingToDo == Ordered(<< >>) /\ ToSet(<< >>) = {} /\ << >> \in Seq(Jobs)
BY SmallLists DEF Ordered

LEMMA InitInv == Init => IInv
<1> SUFFICES ASSUME Init PROVE IInv
  OBVIOUS
<1>1. TypeOK
  <2>1. todo \in Seq([does : {"start", "stop", "close"}, what : Devices \cup Groups])
    BY NothingToDo, SameJobs DEF Init
  <2>2. /\ count \in [Recorded -> 0..MaxItems] /\ rows \in [Recorded -> 0..MaxItems]
        /\ dirs \in [1..MaxDirs -> {"free", "ours", "theirs"}] /\ dir \in 1..MaxDirs
    BY BoundsAssumption DEF Init
  <2>3. /\ script \in Scripts /\ configured \in Configs /\ pc = "naming" /\ raised = FALSE
        /\ asked = FALSE
        /\ phase \in [Devices -> Phases]
        /\ stop = {} /\ timedOut = {} /\ closed = {} /\ open = {}
    BY DEF Init, Phases
  <2> QED BY <2>1, <2>2, <2>3 DEF TypeOK, Phases
<1>2. Stage /\ Reported
  BY NothingToDo DEF Init, Stage, Reported
<1>3. ASSUME NEW d \in Devices PROVE DeviceInv(d)
  <2>1. phase[d] = "idle" /\ todo = << >> /\ pc = "naming"
    BY DEF Init
  <2>2. Counted(d) /\ Manifested(d)
    BY DEF Init, Counted, Manifested, Recorded
  <2>3. Filed(d) /\ Planned(d) /\ Stopped(d)
    BY <2>1, NothingToDo DEF Filed, Planned, Stopped, Runs
  <2> QED BY <2>2, <2>3 DEF DeviceInv
<1> QED BY <1>1, <1>2, <1>3 DEF IInv

\* A step that changes nothing the invariant speaks of.
LEMMA QuietStep ==
  ASSUME IInv,
         UNCHANGED <<configVars, mainVars, phase, count, rows, stop, timedOut, closed, open, manifest>>,
         dirs' \in [1..MaxDirs -> {"free", "ours", "theirs"}], dir' \in 1..MaxDirs, asked' \in BOOLEAN
  PROVE  IInv'
<1>1. Plan' = Plan /\ PlanDevices' = PlanDevices /\ \A d \in Devices : GroupOf(d)' = GroupOf(d)
  BY PlanStays
<1>2. TypeOK'
  BY DEF IInv, TypeOK, configVars, mainVars
<1>3. Stage' /\ Reported'
  BY <1>1 DEF IInv, Stage, Reported, mainVars
<1>4. ASSUME NEW d \in Devices PROVE DeviceInv(d)'
  <2>1. DeviceInv(d) /\ GroupOf(d)' = GroupOf(d)
    BY <1>1 DEF IInv
  <2>2. Counted(d)' /\ Manifested(d)'
    BY <2>1 DEF DeviceInv, Counted, Manifested, Miscount
  <2>3. Filed(d)'
    BY <2>1 DEF DeviceInv, Filed, Runs
  <2>4. Planned(d)'
    BY <1>1, <2>1 DEF DeviceInv, Planned, mainVars
  <2>5. Stopped(d)'
    BY <1>1, <2>1 DEF DeviceInv, Stopped, Over, HasEnded, Answered, mainVars
  <2> QED BY <2>2, <2>3, <2>4, <2>5 DEF DeviceInv
<1> QED BY <1>2, <1>3, <1>4 DEF IInv

-----------------------------------------------------------------------------
(***************************************************************************)
(* The threads.                                                            *)
(***************************************************************************)

\* A thread moves while the script runs: the invariant holds if it does for this device.
LEMMA ThreadStep ==
  ASSUME IInv, NEW d \in Devices, NEW to \in Phases \ {"idle"},
         UNCHANGED <<configVars, mainVars, dirVars, stopVars, manifest>>, asked' \in BOOLEAN,
         pc # "done", Runs(d), phase' = [phase EXCEPT ![d] = to],
         count' \in [Recorded -> 0..MaxItems], rows' \in [Recorded -> 0..MaxItems],
         \A e \in Recorded \ {d} : count'[e] = count[e] /\ rows'[e] = rows[e],
         Counted(d)', Manifested(d)', to = "late" => d \in timedOut
  PROVE  IInv'
<1>1. Plan' = Plan /\ PlanDevices' = PlanDevices /\ \A e \in Devices : GroupOf(e)' = GroupOf(e)
  BY PlanStays
<1>2. phase \in [Devices -> Phases]
  BY TypeOfPhase DEF IInv
<1>3. /\ phase'[d] = to /\ \A e \in Devices \ {d} : phase'[e] = phase[e]
      /\ phase' \in [Devices -> Phases]
  BY <1>2
<1>4. TypeOK'
  BY <1>3 DEF IInv, TypeOK, Phases, configVars, mainVars, dirVars, stopVars
<1>5. phase[d] # "idle"
  BY DEF Runs
<1>6. Stage'
  <2>1. pc \notin {"naming", "making"}
    BY <1>5 DEF IInv, Stage
  <2> QED BY <1>1, <2>1 DEF IInv, Stage, mainVars, stopVars
<1>7. Reported'
  BY DEF IInv, Reported, mainVars, stopVars
<1>8. ASSUME NEW e \in Devices PROVE DeviceInv(e)'
  <2>1. DeviceInv(e) /\ GroupOf(e)' = GroupOf(e)
    BY <1>1 DEF IInv
  <2>2. Counted(e)' /\ Manifested(e)'
    <3>1. CASE e = d
      BY <3>1
    <3>2. CASE e # d
      <4>1. "Event1" \in Recorded
        BY DEF Recorded
      <4>2. phase'[e] = phase[e] /\ (e \in Recorded => count'[e] = count[e] /\ rows'[e] = rows[e])
        BY <1>3, <3>2
      <4>3. Counted(e)'
        BY <2>1, <4>1, <4>2 DEF DeviceInv, Counted
      <4>4. Manifested(e)'
        BY <2>1, <4>2 DEF DeviceInv, Manifested, Miscount, stopVars
      <4> QED BY <4>3, <4>4
    <3> QED BY <3>1, <3>2
  <2>3. Filed(e)'
    <3>1. CASE e = d
      BY <1>3, <2>1, <3>1 DEF DeviceInv, Filed, Runs, stopVars
    <3>2. CASE e # d
      BY <1>3, <2>1, <3>2 DEF DeviceInv, Filed, Runs, stopVars
    <3> QED BY <3>1, <3>2
  <2>4. Planned(e)'
    <3>1. phase[e] # "idle" <=> phase'[e] # "idle"
      BY <1>3, <1>5
    <3> QED BY <1>1, <2>1, <3>1 DEF DeviceInv, Planned, mainVars
  <2>5. Over(e) => Over(e)'
    <3>1. CASE e = d
      BY <3>1 DEF Over, HasEnded, Runs, stopVars
    <3>2. CASE e # d
      BY <1>3, <3>2 DEF Over, HasEnded, stopVars
    <3> QED BY <3>1, <3>2
  <2>6. Stopped(e)'
    BY <1>1, <2>1, <2>5 DEF DeviceInv, Stopped, Answered, mainVars
  <2> QED BY <2>2, <2>3, <2>4, <2>6 DEF DeviceInv
<1> QED BY <1>4, <1>6, <1>7, <1>8 DEF IInv

\* A thread that neither counts nor writes.
LEMMA IdleThreadStep ==
  ASSUME IInv, NEW d \in Devices, NEW to \in Phases \ {"idle"},
         ThreadOnly, UNCHANGED <<count, rows>>, Runs(d), Goes(d, to),
         phase[d] \in {"loop", "fetch", "write"}, to # "counting",
         to = "fetch" => phase[d] = "loop" /\ d \notin stop,
         to = "late" => phase[d] = "write" /\ d \in timedOut,
         phase[d] = "write" => to \in {"writing", "died", "late"},
         to = "write" => phase[d] = "fetch" /\ d = "Event1" /\ count[d] < MaxItems,
         to = "writing" => phase[d] = "write" /\ d = "Event1"
  PROVE  IInv'
<1>1. /\ UNCHANGED <<configVars, mainVars, dirVars, stopVars, manifest>> /\ asked' = asked
      /\ pc # "done" /\ phase' = [phase EXCEPT ![d] = to]
  BY DEF ThreadOnly, Goes
<1>2. /\ count \in [Recorded -> 0..MaxItems] /\ rows \in [Recorded -> 0..MaxItems]
      /\ asked \in BOOLEAN
      /\ phase \in [Devices -> Phases]
  BY CountTypes, TypeOfPhase DEF IInv
<1>3. phase'[d] = to /\ Counted(d) /\ Manifested(d)
  BY <1>1, <1>2 DEF IInv, DeviceInv
<1>4. Counted(d)'
  BY <1>3 DEF Counted, Phases
<1>5. Manifested(d)'
  <2>1. to = "fetch" => manifest = << >>
    BY RunsBesideManifest
  <2> QED BY <1>1, <1>3, <2>1 DEF Manifested, Miscount, stopVars
<1> QED BY <1>1, <1>2, <1>4, <1>5, ThreadStep

\* An item is counted and goes to the callback.
LEMMA CountingStep ==
  ASSUME IInv, NEW d \in Recorded, d # "Event1", phase[d] = "fetch", count[d] < MaxItems,
         count' = [count EXCEPT ![d] = @ + 1], Goes(d, "write"), ThreadOnly, UNCHANGED rows
  PROVE  IInv'
<1>1. /\ UNCHANGED <<configVars, mainVars, dirVars, stopVars, manifest>> /\ asked' = asked
      /\ pc # "done" /\ phase' = [phase EXCEPT ![d] = "write"]
  BY DEF ThreadOnly, Goes
<1>2. /\ count \in [Recorded -> 0..MaxItems] /\ rows \in [Recorded -> 0..MaxItems]
      /\ asked \in BOOLEAN
      /\ MaxItems \in Nat /\ d \in Devices
      /\ phase \in [Devices -> Phases]
  BY CountTypes, TypeOfPhase DEF IInv
<1>3. /\ count' \in [Recorded -> 0..MaxItems] /\ rows' \in [Recorded -> 0..MaxItems]
      /\ count'[d] = count[d] + 1 /\ rows'[d] = rows[d] /\ phase'[d] = "write"
      /\ \A e \in Recorded \ {d} : count'[e] = count[e] /\ rows'[e] = rows[e]
  BY <1>1, <1>2
<1>4. count[d] = rows[d]
  BY <1>2 DEF IInv, DeviceInv, Counted
<1>5. Counted(d)'
  BY <1>3, <1>4 DEF Counted
<1>6. Runs(d)
  BY DEF Runs
<1>7. Manifested(d)'
  BY <1>1, <1>2, <1>3 DEF IInv, DeviceInv, Manifested, Miscount, stopVars
<1>8. "write" \in Phases \ {"idle"}
  BY DEF Phases
<1> QED BY <1>1, <1>2, <1>3, <1>5, <1>6, <1>7, <1>8, ThreadStep

LEMMA RowStep ==
  ASSUME IInv, NEW d \in Devices, WritesRow(d) PROVE IInv'
<1>1. /\ UNCHANGED <<configVars, mainVars, dirVars, stopVars, manifest, count>> /\ d # "Event1"
      /\ phase[d] = "write"
      /\ pc # "done" /\ phase' = [phase EXCEPT ![d] = "loop"] /\ rows' = [rows EXCEPT ![d] = @ + 1]
      /\ asked' = (asked \/ (script = "record_basler" /\ count[d] >= NumFrames))
  BY DEF WritesRow, Goes
<1>2. /\ count \in [Recorded -> 0..MaxItems] /\ rows \in [Recorded -> 0..MaxItems]
      /\ asked \in BOOLEAN
      /\ MaxItems \in Nat
      /\ phase \in [Devices -> Phases]
  BY CountTypes, TypeOfPhase DEF IInv
<1>3. d \in Recorded => count[d] = rows[d] + 1
  BY <1>1 DEF IInv, DeviceInv, Counted
<1>4. /\ rows' \in [Recorded -> 0..MaxItems] /\ phase'[d] = "loop"
      /\ \A e \in Recorded \ {d} : rows'[e] = rows[e]
      /\ d \in Recorded => rows'[d] = rows[d] + 1
  BY <1>1, <1>2, <1>3
<1>5. Counted(d)'
  BY <1>1, <1>2, <1>3, <1>4 DEF Counted
<1>6. Runs(d) /\ asked' \in BOOLEAN /\ "loop" \in Phases \ {"idle"}
  BY <1>1, <1>2 DEF Runs, Phases
<1>7. Manifested(d)'
  <2>1. manifest = << >>
    BY <1>6, RunsBesideManifest DEF WritesRow, HasOpenFile
  <2> QED BY <1>1, <2>1 DEF Manifested
<1> QED BY <1>1, <1>2, <1>4, <1>5, <1>6, <1>7, ThreadStep

\* A batch arrives on the disk, or a part of it does before the write fails.
LEMMA ArrivalStep ==
  ASSUME IInv, NEW d \in Devices, phase[d] = "writing", NEW to \in {"counting", "died"}, Goes(d, to),
         to = "counting" => rows' = [rows EXCEPT ![d] = @ + 1],
         rows' \in {rows, [rows EXCEPT ![d] = @ + 1]}, ThreadOnly, UNCHANGED count
  PROVE  IInv'
<1>1. /\ UNCHANGED <<configVars, mainVars, dirVars, stopVars, manifest, count>> /\ asked' = asked
      /\ pc # "done" /\ phase' = [phase EXCEPT ![d] = to]
  BY DEF ThreadOnly, Goes
<1>2. /\ count \in [Recorded -> 0..MaxItems] /\ rows \in [Recorded -> 0..MaxItems]
      /\ asked \in BOOLEAN /\ MaxItems \in Nat
      /\ phase \in [Devices -> Phases]
  BY CountTypes, TypeOfPhase DEF IInv
<1>3. d = "Event1" /\ d \in Recorded /\ rows[d] = count[d] /\ count[d] < MaxItems
  BY CountTypes DEF IInv, DeviceInv, Counted
<1>4. /\ rows' \in [Recorded -> 0..MaxItems] /\ phase'[d] = to
      /\ \A e \in Recorded \ {d} : rows'[e] = rows[e]
      /\ rows'[d] \in {rows[d], rows[d] + 1} /\ (to = "counting" => rows'[d] = rows[d] + 1)
  BY <1>1, <1>2, <1>3
<1>5. Counted(d)'
  BY <1>1, <1>2, <1>3, <1>4 DEF Counted
<1>6. Runs(d) /\ to \in Phases \ {"idle"}
  BY DEF Runs, Phases
<1>7. Manifested(d)'
  <2> SUFFICES ASSUME manifest # << >> PROVE Manifested(d)'
    BY <1>1 DEF Manifested
  <2>1. d \in timedOut /\ Miscount(d) = 0 /\ manifest[d] \in Nat
    BY <1>2, <1>3, <1>6, RunsBesideManifest DEF IInv, DeviceInv, Manifested, Reported
  <2>2. Miscount(d)' \in {0, 1}
    BY <1>1, <1>2, <1>3, <1>4, <2>1 DEF Miscount
  <2> QED BY <1>1, <1>4, <2>1, <2>2 DEF Manifested, stopVars
<1> QED BY <1>1, <1>2, <1>4, <1>5, <1>6, <1>7, ThreadStep

\* Its writer counts it.
LEMMA BatchStep ==
  ASSUME IInv, NEW d \in Devices, CountsBatch(d) PROVE IInv'
<1>1. /\ UNCHANGED <<configVars, mainVars, dirVars, stopVars, manifest, rows>> /\ asked' = asked
      /\ phase[d] = "counting" /\ pc # "done" /\ phase' = [phase EXCEPT ![d] = "loop"]
      /\ count' = [count EXCEPT ![d] = @ + 1]
  BY DEF CountsBatch, ThreadOnly, Goes
<1>2. /\ count \in [Recorded -> 0..MaxItems] /\ rows \in [Recorded -> 0..MaxItems]
      /\ asked \in BOOLEAN /\ MaxItems \in Nat
      /\ phase \in [Devices -> Phases]
  BY CountTypes, TypeOfPhase DEF IInv
<1>3. d = "Event1" /\ d \in Recorded /\ rows[d] = count[d] + 1
  BY <1>1, CountTypes DEF IInv, DeviceInv, Counted
<1>4. /\ count' \in [Recorded -> 0..MaxItems] /\ phase'[d] = "loop" /\ count'[d] = rows[d]
      /\ \A e \in Recorded \ {d} : count'[e] = count[e]
  BY <1>1, <1>2, <1>3
<1>5. Counted(d)'
  BY <1>1, <1>2, <1>3, <1>4 DEF Counted
<1>6. Runs(d) /\ "loop" \in Phases \ {"idle"}
  BY <1>1 DEF Runs, Phases
<1>7. Manifested(d)'
  BY <1>1, <1>3, <1>4 DEF IInv, DeviceInv, Manifested, Miscount, stopVars
<1> QED BY <1>1, <1>2, <1>4, <1>5, <1>6, <1>7, ThreadStep

LEMMA ThreadInv ==
  ASSUME IInv, NEW d \in Devices, Thread(d) PROVE IInv'
<1>1. CASE LoopTest(d)
  <2>1. /\ phase[d] = "loop" /\ ThreadOnly /\ UNCHANGED <<count, rows>>
        /\ Goes(d, IF d \in stop THEN "ended" ELSE "fetch")
    BY <1>1 DEF LoopTest
  <2>2. \E to \in {"ended", "fetch"} : Goes(d, to) /\ (to = "fetch" => d \notin stop)
    BY <2>1
  <2> QED BY <2>1, <2>2, IdleThreadStep DEF Runs, Phases
<1>2. CASE FetchesNothing(d)
  BY <1>2, IdleThreadStep DEF FetchesNothing, Runs, Phases
<1>3. CASE GrabLoop(d) \/ PollLoop(d)
  <2>1. d \in Recorded /\ d # "Event1"
    BY <1>3, CountTypes DEF GrabLoop, PollLoop, IInv, Basler, Imu
  <2> QED BY <1>3, <2>1, CountingStep DEF GrabLoop, PollLoop
<1>4. CASE StreamLoop(d)
  BY <1>4, IdleThreadStep DEF StreamLoop, Runs, Phases
<1>5. CASE LoopEnds(d) \/ FetchFails(d)
  BY <1>5, IdleThreadStep DEF LoopEnds, FetchFails, Runs, Phases
<1>6. CASE BeginsBatch(d)
  BY <1>6, IdleThreadStep DEF BeginsBatch, Runs, Phases
<1>7. CASE WritesToClosedFile(d)
  <2>1. phase[d] = "write" /\ GroupOf(d) \notin open /\ Runs(d)
    BY <1>7 DEF WritesToClosedFile, HasOpenFile, Runs
  <2>2. d \in timedOut
    BY <2>1 DEF IInv, DeviceInv, Filed
  <2> QED BY <1>7, <2>1, <2>2, IdleThreadStep DEF WritesToClosedFile, Phases
<1>8. CASE CallbackFails(d)
  BY <1>8, IdleThreadStep DEF CallbackFails, Runs, Phases
<1>9. CASE WritesBatch(d) \/ WriteFails(d)
  BY <1>9, ArrivalStep DEF WritesBatch, WriteFails
<1> QED BY <1>1, <1>2, <1>3, <1>4, <1>5, <1>6, <1>7, <1>8, <1>9, RowStep, BatchStep DEF Thread

LEMMA OtherLoopsInv ==
  ASSUME IInv, RawPollLoop \/ MonitorLoop PROVE IInv'
<1>1. "raw" \in Devices /\ "monitor" \in Devices
  BY DEF Devices
<1> QED BY <1>1, IdleThreadStep DEF RawPollLoop, MonitorLoop, Runs, Phases

-----------------------------------------------------------------------------
(***************************************************************************)
(* The main thread.                                                        *)
(***************************************************************************)

\* A step in which no thread moves: what is left to show of each device.
LEMMA NoThreadMoves ==
  ASSUME IInv, UNCHANGED <<configVars, threadVars>>, TypeOK', Stage', Reported',
         NEW d \in Devices, timedOut \subseteq timedOut',
         Runs(d) => GroupOf(d) \in open' \/ d \in timedOut',
         phase[d] # "idle" => \A e \in Devices : Job("start", e) \in ToSet(todo') => Rank[d] < Rank[e],
         manifest' = manifest \/ Manifested(d)',
         Stopped(d)'
  PROVE  DeviceInv(d)'
<1>1. PlanDevices' = PlanDevices /\ GroupOf(d)' = GroupOf(d) /\ DeviceInv(d)
  BY PlanStays DEF IInv
<1>2. phase' = phase /\ count' = count /\ rows' = rows
  BY DEF threadVars
<1>3. Counted(d)' /\ Manifested(d)'
  BY <1>1, <1>2 DEF DeviceInv, Counted, Manifested, Miscount
<1>4. Filed(d)'
  BY <1>1, <1>2 DEF DeviceInv, Filed, Runs
<1>5. Planned(d)'
  BY <1>1, <1>2 DEF DeviceInv, Planned
<1> QED BY <1>3, <1>4, <1>5 DEF DeviceInv

LEMMA NamingInv ==
  ASSUME IInv, NameExists \/ NameIsFree PROVE IInv'
<1>1. CASE NameExists
  <2>1. /\ dirs \in [1..MaxDirs -> {"free", "ours", "theirs"}] /\ dir \in 1..MaxDirs
        /\ asked \in BOOLEAN /\ MaxDirs \in Nat
    BY BoundsAssumption DEF IInv, TypeOK
  <2>2. dir' \in 1..MaxDirs
    BY <1>1, <2>1 DEF NameExists
  <2>3. /\ UNCHANGED <<configVars, mainVars, phase, count, rows, stop, timedOut, closed, open, manifest>>
        /\ dirs' = dirs /\ asked' = asked
    BY <1>1 DEF NameExists, threadVars, stopVars
  <2> QED BY <2>1, <2>2, <2>3, QuietStep
<1>2. CASE NameIsFree
  <2>1. /\ pc = "naming" /\ pc' = "making"
        /\ UNCHANGED <<configVars, todo, raised, asked, dirVars, threadVars, stopVars, manifest>>
    BY <1>2 DEF NameIsFree
  <2>2. TypeOK'
    BY <2>1 DEF IInv, TypeOK, configVars, dirVars, threadVars, stopVars
  <2>3. Stage' /\ Reported'
    BY <2>1, PlanStays DEF IInv, Stage, Reported, threadVars, stopVars
  <2>4. ASSUME NEW d \in Devices PROVE DeviceInv(d)'
    <3>1. phase[d] = "idle" /\ todo = << >>
      BY <2>1 DEF IInv, Stage
    <3>2. Stopped(d)'
      BY <2>1, <3>1, NothingToDo DEF Stopped, Over, HasEnded, threadVars
    <3>3. timedOut' = timedOut
      BY <2>1 DEF stopVars
    <3> QED BY <2>1, <2>2, <2>3, <3>1, <3>2, <3>3, NoThreadMoves DEF Runs
  <2> QED BY <2>2, <2>3, <2>4 DEF IInv
<1> QED BY <1>1, <1>2

LEMMA MakeDirectoryInv ==
  ASSUME IInv, MakeDirectory PROVE IInv'
<1>1. /\ pc = "making"
      /\ UNCHANGED <<configVars, asked, dir, threadVars, stop, timedOut, closed, manifest>>
      /\ dirs' = (IF dirs[dir] = "free" THEN [dirs EXCEPT ![dir] = "ours"] ELSE dirs)
  BY DEF MakeDirectory
<1>2. /\ raised' = (dirs[dir] # "free")
      /\ \/ pc' = "starting" /\ todo' = Plan.starts /\ open' = Plan.groups /\ raised' = FALSE
         \/ pc' = "done" /\ todo' = << >> /\ open' = {}
  BY DEF MakeDirectory
<1>3. \A d \in Devices : phase[d] = "idle"
  BY <1>1 DEF IInv, Stage
<1>4. /\ Plan.groups \in SUBSET Groups /\ PlanDevices \in SUBSET Devices
      /\ Plan.starts \in Seq(Jobs) /\ Ordered(Plan.starts)
      /\ ToSet(Plan.starts) = {Job("start", d) : d \in PlanDevices}
  BY PlanFacts, TypeOfPhase DEF IInv, StartsOf
<1>5. Plan' = Plan /\ PlanDevices' = PlanDevices /\ \A e \in Devices : GroupOf(e)' = GroupOf(e)
  BY <1>1, PlanStays
<1>6. TypeOK'
  <2>1. todo' \in Seq([does : {"start", "stop", "close"}, what : Devices \cup Groups])
    BY <1>2, <1>4, NothingToDo, SameJobs
  <2>2. open' \subseteq Groups /\ raised' \in BOOLEAN
    BY <1>2, <1>4
  <2>3. dirs' \in [1..MaxDirs -> {"free", "ours", "theirs"}]
    BY <1>1 DEF IInv, TypeOK
  <2> QED BY <1>1, <1>2, <2>1, <2>2, <2>3 DEF IInv, TypeOK, configVars, threadVars
<1>7. Stage'
  <2>1. CASE pc' = "starting"
    <3>1. \A job \in ToSet(todo') : job.does = "start" /\ job.what \in PlanDevices
      <4>1. \A d : Job("start", d).does = "start" /\ Job("start", d).what = d
        BY DEF Job
      <4> QED BY <1>2, <1>4, <2>1, <4>1
    <3>2. Ordered(todo')
      BY <1>2, <1>4, <2>1
    <3> QED BY <1>2, <1>4, <1>5, <2>1, <3>1, <3>2 DEF Stage
  <2>2. CASE pc' = "done"
    BY <1>2, <2>2, NothingToDo DEF Stage
  <2> QED BY <1>2, <2>1, <2>2
<1>8. Reported'
  BY <1>1 DEF IInv, Reported
<1>9. ASSUME NEW d \in Devices PROVE DeviceInv(d)'
  <2>1. Job("close", GroupOf(d)) \notin ToSet(todo')
    <3>1. \A e : Job("close", GroupOf(d)) # Job("start", e)
      BY JobsDiffer
    <3> QED BY <1>2, <1>4, <3>1, NothingToDo
  <2>2. Stopped(d)'
    BY <1>1, <1>2, <1>3, <1>5, <2>1 DEF Stopped, Over, HasEnded, threadVars
  <2> QED BY <1>1, <1>3, <1>6, <1>7, <1>8, <2>2, NoThreadMoves DEF Runs
<1> QED BY <1>6, <1>7, <1>8, <1>9 DEF IInv

\* What the head and the tail of the list are.
LEMMA TodoFacts ==
  ASSUME IInv, todo # << >>
  PROVE  /\ Tail(todo) \in Seq(Jobs) /\ Ordered(Tail(todo)) /\ Head(todo) \in Jobs /\
             Head(todo) \in ToSet(todo)
         /\ ToSet(todo) = {Head(todo)} \cup ToSet(Tail(todo))
         /\ \A job \in ToSet(Tail(todo)) : Precedes(Head(todo), job)
         /\ Head(todo) = Job(Head(todo).does, Head(todo).what)
<1>1. todo \in Seq(Jobs) /\ Ordered(todo)
  BY TypeOfTodo DEF IInv, Stage
<1>2. Head(todo) \in Jobs
  BY <1>1, OrderedTail
<1>3. Head(todo) = Job(Head(todo).does, Head(todo).what)
  BY <1>2 DEF Jobs, Job
<1> QED BY <1>1, <1>3, OrderedTail

LEMMA StartInv ==
  ASSUME IInv, Start PROVE IInv'
<1> DEFINE d == Head(todo).what
<1>1. /\ pc = "starting" /\ todo # << >> /\ Head(todo).does = "start"
      /\ phase' = [phase EXCEPT ![d] = "loop"] /\ todo' = Tail(todo)
      /\ UNCHANGED <<configVars, pc, raised, asked, dirVars, count, rows, stopVars, manifest>>
  BY DEF Start, Now
<1>2. /\ Tail(todo) \in Seq(Jobs) /\ Ordered(Tail(todo)) /\ Head(todo) \in ToSet(todo)
      /\ ToSet(todo) = {Head(todo)} \cup ToSet(Tail(todo))
      /\ \A job \in ToSet(Tail(todo)) : Precedes(Head(todo), job)
      /\ Head(todo) = Job("start", d)
  BY <1>1, TodoFacts
<1>3. Plan' = Plan /\ PlanDevices' = PlanDevices /\ \A e \in Devices : GroupOf(e)' = GroupOf(e)
  BY <1>1, PlanStays
<1>4. d \in PlanDevices /\ d \in Devices /\ GroupOf(d) \in Plan.groups
  <2>1. d \in PlanDevices
    BY <1>1, <1>2 DEF IInv, Stage
  <2> QED BY <2>1, PlanFacts, TypeOfPhase DEF IInv
<1>5. phase[d] = "idle"
  <2>1. ~(Rank[d] < Rank[d])
    BY <1>4, RankType
  <2>2. Job("start", d) \in ToSet(todo) /\ Planned(d)
    BY <1>2, <1>4 DEF IInv, DeviceInv
  <2> QED BY <1>4, <2>1, <2>2 DEF Planned
<1>6. /\ phase \in [Devices -> Phases]
      /\ phase' \in [Devices -> Phases]
      /\ phase'[d] = "loop" /\ \A e \in Devices \ {d} : phase'[e] = phase[e]
  BY <1>1, <1>4, TypeOfPhase DEF IInv, Phases
<1> HIDE DEF d
<1>7. TypeOK'
  <2>1. todo' \in Seq([does : {"start", "stop", "close"}, what : Devices \cup Groups])
    BY <1>1, <1>2, SameJobs
  <2> QED BY <1>1, <1>6, <2>1 DEF IInv, TypeOK, configVars, dirVars, stopVars
<1>8. Stage' /\ Reported'
  BY <1>1, <1>2, <1>3 DEF IInv, Stage, Reported, stopVars
<1>9. ASSUME NEW e \in Devices PROVE DeviceInv(e)'
  <2>1. DeviceInv(e) /\ GroupOf(e)' = GroupOf(e) /\ open' = open /\ timedOut' = timedOut
    BY <1>1, <1>3 DEF IInv, stopVars
  <2>2. Counted(e)' /\ Manifested(e)'
    <3>1. manifest' = << >>
      BY <1>1 DEF IInv, Reported
    <3> QED BY <1>1, <1>5, <1>6, <2>1, <3>1 DEF DeviceInv, Counted, Manifested
  <2>3. Filed(e)'
    <3>1. open = Plan.groups
      BY <1>1 DEF IInv, Stage
    <3> QED BY <1>4, <1>6, <2>1, <3>1 DEF DeviceInv, Filed, Runs
  <2>4. Planned(e)'
    <3>1. CASE e = d
      <4>1. ASSUME NEW x \in Devices, Job("start", x) \in ToSet(todo') PROVE Rank[e] < Rank[x]
        <5>1. Precedes(Job("start", d), Job("start", x))
          BY <1>1, <1>2, <4>1
        <5> QED BY <3>1, <5>1 DEF Precedes, Job
      <4> QED BY <1>3, <1>4, <3>1, <4>1 DEF Planned
    <3>2. CASE e # d
      BY <1>1, <1>2, <1>3, <1>6, <2>1, <3>2 DEF DeviceInv, Planned
    <3> QED BY <3>1, <3>2
  <2>5. Stopped(e)'
    <3>1. \A job \in ToSet(todo') : job.does = "start"
      BY <1>1, <1>2 DEF IInv, Stage
    <3>2. Job("close", GroupOf(e)).does = "close"
      BY DEF Job
    <3>3. Job("close", GroupOf(e)) \notin ToSet(todo')
      BY <3>1, <3>2
    <3> QED BY <1>1, <2>1, <3>3 DEF Stopped
  <2> QED BY <2>2, <2>3, <2>4, <2>5 DEF DeviceInv
<1> QED BY <1>7, <1>8, <1>9 DEF IInv

\* The list is a list of stops from now on: what it stops, and what it closes.
LEMMA StopsBegin ==
  ASSUME IInv, NEW jobs, NEW groups \in SUBSET Groups, NEW devices \in SUBSET Devices,
         StopsOf(jobs, groups, devices), todo' = jobs, pc' = "stopping", raised' \in BOOLEAN,
         pc \in {"starting", "waiting"}, raised' \/ open \subseteq groups,
         UNCHANGED <<configVars, asked, dirVars, threadVars, stopVars, manifest>>,
         \A d \in PlanDevices : GroupOf(d) \in groups => d \in devices,
         (raised' => Plan.guarded /\ "gyro" \notin MayFail) =>
           \A d \in Devices : phase[d] # "idle" => d \in devices
  PROVE  IInv'
<1>1. /\ jobs \in Seq(Jobs) /\ Ordered(jobs)
      /\ ToSet(jobs) = {Job("stop", d) : d \in devices} \cup {Job("close", g) : g \in groups}
  BY DEF StopsOf
<1>2. Plan' = Plan /\ PlanDevices' = PlanDevices /\ \A e \in Devices : GroupOf(e)' = GroupOf(e)
  BY PlanStays
<1>3. TypeOK'
  <2>1. todo' \in Seq([does : {"start", "stop", "close"}, what : Devices \cup Groups])
    BY <1>1, SameJobs
  <2> QED BY <2>1 DEF IInv, TypeOK, configVars, dirVars, threadVars, stopVars
<1>4. Stage'
  <2>1. ASSUME NEW job \in ToSet(jobs)
        PROVE  job.does # "start" /\ job.what \in IF job.does = "close" THEN Groups ELSE Devices
    <3>1. (\E d \in devices : job = Job("stop", d)) \/ \E g \in groups : job = Job("close", g)
      BY <1>1, <2>1
    <3> QED BY <3>1 DEF Job
  <2>2. ~raised' => \A g \in open : Job("close", g) \in ToSet(jobs)
    BY <1>1
  <2> QED BY <1>1, <2>1, <2>2 DEF Stage, stopVars
<1>5. Reported'
  BY DEF IInv, Reported
<1>6. ASSUME NEW d \in Devices PROVE DeviceInv(d)'
  <2>1. /\ phase' = phase /\ timedOut' = timedOut /\ open' = open /\ DeviceInv(d)
        /\ GroupOf(d)' = GroupOf(d)
    BY <1>2 DEF threadVars, stopVars, IInv
  <2>2. /\ \A e : Job("start", e) \notin ToSet(todo')
        /\ Job("stop", d) \in ToSet(todo') <=> d \in devices
        /\ Job("close", GroupOf(d)) \in ToSet(todo') <=> GroupOf(d) \in groups
    BY <1>1, JobsDiffer
  <2>3. Over(d) \/ d \in PlanDevices
    BY <2>1 DEF DeviceInv, Planned, Over, HasEnded
  <2>4. Over(d) => Over(d)'
    BY <2>1 DEF Over, HasEnded
  <2>5. phase[d] = "idle" => Over(d)
    BY DEF Over, HasEnded
  <2>6. Stopped(d)'
    BY <1>2, <2>1, <2>2, <2>3, <2>4, <2>5 DEF Stopped, Answered
  <2> QED BY <1>3, <1>4, <1>5, <2>1, <2>2, <2>6, NoThreadMoves DEF DeviceInv, Filed
<1> QED BY <1>3, <1>4, <1>5, <1>6 DEF IInv

LEMMA StartFailsInv ==
  ASSUME IInv, StartFails PROVE IInv'
<1> DEFINE d == Head(todo).what
<1>1. /\ pc = "starting" /\ todo # << >> /\ Head(todo).does = "start" /\ CanStart(d, FALSE)
      /\ todo' = RigUnwinds(d) \o MainUnwinds(d) /\ pc' = "stopping" /\ raised' = TRUE
      /\ UNCHANGED <<configVars, asked, dirVars, threadVars, stopVars, manifest>>
  BY DEF StartFails, Now
<1>2. Head(todo) \in ToSet(todo) /\ Head(todo) = Job("start", d)
  BY <1>1, TodoFacts
<1>3. d \in PlanDevices /\ d \in Devices /\ script \in Scripts
  <2>1. d \in PlanDevices
    BY <1>1, <1>2 DEF IInv, Stage
  <2> QED BY <2>1, PlanFacts, TypeOfPhase DEF IInv
<1>4. PICK groups \in SUBSET Groups, devices \in SUBSET Devices :
        /\ StopsOf(RigUnwinds(d) \o MainUnwinds(d), groups, devices)
        /\ \A group \in groups : Present(group) \subseteq devices
        /\ Plan.guarded /\ d # "gyro" => \A e \in PlanDevices : Rank[e] < Rank[d] => e \in devices
  BY <1>3, UnwindFacts
<1>5. d \in MayFail
  BY <1>1 DEF CanStart
<1> HIDE DEF d
<1>6. \A e \in PlanDevices : GroupOf(e) \in groups => e \in devices
  BY <1>3, <1>4, PlanFacts
<1>7. ASSUME Plan.guarded, "gyro" \notin MayFail, NEW e \in Devices, phase[e] # "idle" PROVE e \in devices
  <2>1. e \in PlanDevices /\ Rank[e] < Rank[d]
    <3>1. Planned(e)
      BY DEF IInv, DeviceInv
    <3> QED BY <1>2, <1>3, <1>7, <3>1 DEF Planned
  <2> QED BY <1>4, <1>5, <1>7, <2>1
<1> QED BY <1>1, <1>4, <1>6, <1>7, StopsBegin

LEMMA StartsStoppingInv ==
  ASSUME IInv, StartsStopping PROVE IInv'
<1>1. /\ pc = "waiting" /\ pc' = "stopping" /\ todo' = Plan.stops
      /\ UNCHANGED <<configVars, raised, asked, dirVars, threadVars, stopVars, manifest>>
  BY DEF StartsStopping
<1>2. script \in Scripts /\ raised \in BOOLEAN
  BY DEF IInv, TypeOK
<1>3. /\ Plan.groups \in SUBSET Groups /\ PlanDevices \in SUBSET Devices
      /\ StopsOf(Plan.stops, Plan.groups, PlanDevices)
  BY <1>2, PlanFacts
<1>4. \A d \in Devices : phase[d] # "idle" => d \in PlanDevices
  BY DEF IInv, DeviceInv, Planned
<1>5. open \subseteq Plan.groups
  BY <1>1 DEF IInv, Stage
<1> QED BY <1>1, <1>2, <1>3, <1>4, <1>5, StopsBegin

LEMMA StartsWaitingInv ==
  ASSUME IInv, StartsWaiting PROVE IInv'
<1>1. /\ pc = "starting" /\ todo = << >> /\ pc' = "waiting"
      /\ UNCHANGED <<configVars, todo, raised, asked, dirVars, threadVars, stopVars, manifest>>
  BY DEF StartsWaiting
<1>2. Plan' = Plan /\ PlanDevices' = PlanDevices /\ \A e \in Devices : GroupOf(e)' = GroupOf(e)
  BY <1>1, PlanStays
<1>3. TypeOK'
  BY <1>1 DEF IInv, TypeOK, configVars, dirVars, threadVars, stopVars
<1>4. Stage' /\ Reported'
  BY <1>1, <1>2 DEF IInv, Stage, Reported, threadVars, stopVars
<1>5. ASSUME NEW d \in Devices PROVE DeviceInv(d)'
  <2>1. timedOut' = timedOut /\ open' = open /\ DeviceInv(d)
    BY <1>1 DEF IInv, stopVars
  <2>2. Stopped(d)'
    BY <1>1, NothingToDo DEF Stopped
  <2> QED BY <1>1, <1>3, <1>4, <2>1, <2>2, NoThreadMoves, NothingToDo DEF DeviceInv, Filed
<1> QED BY <1>3, <1>4, <1>5 DEF IInv

LEMMA FlagInv ==
  ASSUME IInv, Flag PROVE IInv'
<1>1. /\ pc = "stopping" /\ todo # << >> /\ Head(todo).does = "stop"
      /\ stop' = stop \cup {Head(todo).what}
      /\ UNCHANGED <<configVars, mainVars, asked, dirVars, threadVars, timedOut, closed, open, manifest>>
  BY DEF Flag, Now
<1>2. Plan' = Plan /\ PlanDevices' = PlanDevices /\ \A e \in Devices : GroupOf(e)' = GroupOf(e)
  BY <1>1, PlanStays
<1>3. Head(todo).what \in Devices
  BY <1>1, TodoFacts DEF IInv, Stage
<1>4. TypeOK'
  BY <1>1, <1>3 DEF IInv, TypeOK, configVars, mainVars, dirVars, threadVars
<1>5. Stage' /\ Reported'
  BY <1>1, <1>2 DEF IInv, Stage, Reported, mainVars, threadVars
<1>6. ASSUME NEW d \in Devices PROVE DeviceInv(d)'
  <2>1. /\ todo' = todo /\ pc' = pc /\ raised' = raised /\ phase' = phase /\ DeviceInv(d)
        /\ GroupOf(d)' = GroupOf(d)
    BY <1>1, <1>2 DEF IInv, mainVars, threadVars
  <2>2. Stopped(d)'
    BY <1>1, <1>2, <2>1 DEF DeviceInv, Stopped, Over, HasEnded, Answered
  <2> QED BY <1>1, <1>4, <1>5, <2>1, <2>2, NoThreadMoves DEF DeviceInv, Filed, Planned
<1> QED BY <1>4, <1>5, <1>6 DEF IInv

LEMMA JoinInv ==
  ASSUME IInv, Join PROVE IInv'
<1> DEFINE d == Head(todo).what
<1>1. /\ pc = "stopping" /\ todo # << >> /\ Head(todo).does = "stop" /\ d \in stop
      /\ timedOut' = (IF HasEnded(d) THEN timedOut ELSE timedOut \cup {d})
      /\ closed' = closed \cup ({d} \cap Basler) /\ todo' = Tail(todo)
      /\ UNCHANGED <<configVars, pc, raised, asked, dirVars, threadVars, stop, open, manifest>>
  BY DEF Join, Now
<1>2. /\ Tail(todo) \in Seq(Jobs) /\ Ordered(Tail(todo))
      /\ ToSet(todo) = {Head(todo)} \cup ToSet(Tail(todo)) /\ Head(todo) = Job("stop", d)
  BY <1>1, TodoFacts
<1> HIDE DEF d
<1>3. Plan' = Plan /\ PlanDevices' = PlanDevices /\ \A e \in Devices : GroupOf(e)' = GroupOf(e)
  BY <1>1, PlanStays
<1>4. TypeOK'
  <2>1. todo' \in Seq([does : {"start", "stop", "close"}, what : Devices \cup Groups])
    BY <1>1, <1>2, SameJobs
  <2>2. timedOut' \subseteq stop' /\ closed' \subseteq Basler
    BY <1>1 DEF IInv, TypeOK
  <2> QED BY <1>1, <2>1, <2>2 DEF IInv, TypeOK, configVars, dirVars, threadVars
<1>5. Stage' /\ Reported'
  <2>1. \A g \in open' : Job("close", g) \in ToSet(todo) => Job("close", g) \in ToSet(todo')
    BY <1>1, <1>2, JobsDiffer
  <2> QED BY <1>1, <1>2, <1>3, <2>1 DEF IInv, Stage, Reported, threadVars
<1>6. ASSUME NEW e \in Devices PROVE DeviceInv(e)'
  <2>1. /\ phase' = phase /\ open' = open /\ timedOut \subseteq timedOut' /\ DeviceInv(e)
        /\ GroupOf(e)' = GroupOf(e)
    BY <1>1, <1>3 DEF IInv, threadVars
  <2>2. Over(e) => Over(e)'
    BY <2>1 DEF Over, HasEnded
  <2>3. e = d => Over(e)'
    BY <1>1, <2>1 DEF Over, HasEnded
  <2>4. /\ Job("close", GroupOf(e)) \in ToSet(todo') => Job("close", GroupOf(e)) \in ToSet(todo)
        /\ Job("stop", e) \in ToSet(todo) => e = d \/ Job("stop", e) \in ToSet(todo')
        /\ \A x : Job("start", x) \in ToSet(todo') => Job("start", x) \in ToSet(todo)
    BY <1>1, <1>2, JobsDiffer
  <2>5. Stopped(e)'
    BY <1>1, <1>3, <2>1, <2>2, <2>3, <2>4 DEF DeviceInv, Stopped, Answered
  <2> QED BY <1>1, <1>4, <1>5, <2>1, <2>4, <2>5, NoThreadMoves DEF DeviceInv, Filed, Planned
<1> QED BY <1>4, <1>5, <1>6 DEF IInv

\* The files of a group are closed once each of its devices is over: none of them is
\* stopped later, and the invariant says that all are, here or before.
LEMMA CloseFilesInv ==
  ASSUME IInv, CloseFiles PROVE IInv'
<1> DEFINE g == Head(todo).what
<1>1. /\ pc = "stopping" /\ todo # << >> /\ Head(todo).does = "close"
      /\ open' = open \ {g} /\ todo' = Tail(todo)
      /\ UNCHANGED <<configVars, pc, raised, asked, dirVars, threadVars, stop, timedOut, closed,
           manifest>>
  BY DEF CloseFiles, Now
<1>2. /\ Tail(todo) \in Seq(Jobs) /\ Ordered(Tail(todo))
      /\ ToSet(todo) = {Head(todo)} \cup ToSet(Tail(todo)) /\ Head(todo) = Job("close", g)
      /\ \A job \in ToSet(Tail(todo)) : Precedes(Head(todo), job)
  BY <1>1, TodoFacts
<1> HIDE DEF g
<1>3. Plan' = Plan /\ PlanDevices' = PlanDevices /\ \A e \in Devices : GroupOf(e)' = GroupOf(e)
  BY <1>1, PlanStays
<1>4. TypeOK'
  <2>1. todo' \in Seq([does : {"start", "stop", "close"}, what : Devices \cup Groups])
    BY <1>1, <1>2, SameJobs
  <2>2. open' \subseteq Groups
    BY <1>1 DEF IInv, TypeOK
  <2> QED BY <1>1, <2>1, <2>2 DEF IInv, TypeOK, configVars, dirVars, threadVars
<1>5. Stage' /\ Reported'
  <2>1. \A h \in open' : Job("close", h) \in ToSet(todo) => Job("close", h) \in ToSet(todo')
    BY <1>1, <1>2, JobsDiffer
  <2> QED BY <1>1, <1>2, <1>3, <2>1 DEF IInv, Stage, Reported, threadVars
<1>6. ASSUME NEW e \in Devices PROVE DeviceInv(e)'
  <2>1. phase' = phase /\ timedOut' = timedOut /\ DeviceInv(e) /\ GroupOf(e)' = GroupOf(e)
    BY <1>1, <1>3 DEF IInv, threadVars
  <2>2. Over(e) => Over(e)'
    BY <2>1 DEF Over, HasEnded
  <2>3. /\ Job("close", GroupOf(e)) \in ToSet(todo') => Job("close", GroupOf(e)) \in ToSet(todo)
        /\ Job("stop", e) \in ToSet(todo) <=> Job("stop", e) \in ToSet(todo')
        /\ \A x : Job("start", x) \in ToSet(todo') => Job("start", x) \in ToSet(todo)
    BY <1>1, <1>2, JobsDiffer
  <2>4. Stopped(e)'
    BY <1>1, <1>3, <2>1, <2>2, <2>3 DEF DeviceInv, Stopped, Answered
  <2>5. GroupOf(e) = g => Over(e)
    <3> SUFFICES ASSUME GroupOf(e) = g PROVE Over(e)
      OBVIOUS
    <3>1. e \in Belongs(g)
      BY GroupFacts
    <3>2. Job("stop", e) \notin ToSet(Tail(todo))
      BY <1>2, <3>1 DEF Precedes, Job
    <3>3. Job("close", GroupOf(e)) \in ToSet(todo) /\ Job("stop", e) \notin ToSet(todo)
      BY <1>2, <3>2, JobsDiffer
    <3> QED BY <2>1, <3>3 DEF DeviceInv, Stopped
  <2>6. Runs(e) => GroupOf(e) \in open' \/ e \in timedOut'
    BY <1>1, <2>1, <2>5 DEF DeviceInv, Filed, Runs, Over, HasEnded
  <2> QED BY <1>1, <1>4, <1>5, <2>1, <2>3, <2>4, <2>6, NoThreadMoves DEF DeviceInv, Planned
<1> QED BY <1>4, <1>5, <1>6 DEF IInv

\* Every recorder is joined or given up on by now: what it has counted is in its file.
LEMMA ReportInv ==
  ASSUME IInv, Report PROVE IInv'
<1>1. /\ pc = "stopping" /\ todo = << >> /\ pc' = "leaving"
      /\ manifest' = (IF raised THEN << >> ELSE count)
      /\ UNCHANGED <<configVars, todo, raised, asked, dirVars, threadVars, stopVars>>
  BY DEF Report
<1>2. Plan' = Plan /\ PlanDevices' = PlanDevices /\ \A e \in Devices : GroupOf(e)' = GroupOf(e)
  BY <1>1, PlanStays
<1>3. TypeOK'
  BY <1>1 DEF IInv, TypeOK, configVars, dirVars, threadVars, stopVars
<1>4. Stage'
  BY <1>1, <1>2 DEF IInv, Stage, threadVars, stopVars
<1>5. Reported'
  <2>1. ~raised => open = {}
    BY <1>1, NothingToDo DEF IInv, Stage
  <2>2. count \in [Recorded -> 0..MaxItems]
    BY CountTypes DEF IInv
  <2> QED BY <1>1, <2>1, <2>2 DEF Reported, stopVars
<1>6. ASSUME NEW d \in Devices PROVE DeviceInv(d)'
  <2>1. phase' = phase /\ rows' = rows /\ timedOut' = timedOut /\ open' = open /\ DeviceInv(d)
    BY <1>1 DEF IInv, threadVars, stopVars
  <2>2. Stopped(d)'
    BY <1>1, <1>2, <2>1, NothingToDo DEF DeviceInv, Stopped, Answered, Over, HasEnded
  <2>3. Manifested(d)'
    <3> SUFFICES ASSUME ~raised, d \in Recorded PROVE Manifested(d)'
      BY <1>1 DEF Manifested
    <3>1. manifest' = count /\ count[d] \in Nat /\ rows[d] \in Nat /\ phase[d] \in Phases
      BY <1>1, CountTypes, TypeOfPhase DEF IInv
    <3>2. Over(d) /\ Counted(d)
      BY <1>1, <2>1, NothingToDo DEF DeviceInv, Stopped, Answered
    <3>3. CASE d = "Event1"
      <4>1. /\ rows[d] \in {count[d], count[d] + 1}
            /\ rows[d] # count[d] => phase[d] \in {"counting", "died"}
        BY <3>2, <3>3 DEF Counted
      <4>2. Miscount(d)' = rows[d] - count[d]
        BY <2>1, <3>1, <3>3 DEF Miscount
      <4>3. Miscount(d)' \in {0, 1} /\ (Miscount(d)' = 1 => phase[d] \in {"counting", "died"})
        BY <3>1, <4>1, <4>2
      <4> QED BY <2>1, <3>2, <3>3, <4>3 DEF Manifested, Over, HasEnded
    <3>4. CASE d # "Event1"
      <4>1. /\ count[d] \in {rows[d], rows[d] + 1}
            /\ phase[d] \in {"idle", "loop", "fetch", "ended"} => count[d] = rows[d]
        BY <3>2, <3>4 DEF Counted
      <4>2. Miscount(d)' = count[d] - rows[d]
        BY <2>1, <3>1, <3>4 DEF Miscount
      <4>3. /\ Miscount(d)' \in {0, 1}
            /\ Miscount(d)' = 1 => phase[d] \notin {"idle", "loop", "fetch", "ended"}
        BY <3>1, <4>1, <4>2
      <4> QED BY <2>1, <3>2, <3>4, <4>3 DEF Manifested, Over, HasEnded
    <3> QED BY <3>3, <3>4
  <2> QED BY <1>1, <1>3, <1>4, <1>5, <2>1, <2>2, <2>3, NoThreadMoves, NothingToDo DEF DeviceInv, Filed
<1> QED BY <1>3, <1>4, <1>5, <1>6 DEF IInv

LEMMA LeaveInv ==
  ASSUME IInv, Leave PROVE IInv'
<1>1. /\ pc = "leaving" /\ pc' = "done"
      /\ UNCHANGED <<configVars, todo, raised, asked, dirVars, threadVars, stopVars, manifest>>
  BY DEF Leave
<1>2. Plan' = Plan /\ PlanDevices' = PlanDevices /\ \A e \in Devices : GroupOf(e)' = GroupOf(e)
  BY <1>1, PlanStays
<1>3. TypeOK'
  BY <1>1 DEF IInv, TypeOK, configVars, dirVars, threadVars, stopVars
<1>4. Stage' /\ Reported'
  BY <1>1, <1>2 DEF IInv, Stage, Reported, threadVars, stopVars
<1>5. ASSUME NEW d \in Devices PROVE DeviceInv(d)'
  <2>1. phase' = phase /\ timedOut' = timedOut /\ open' = open /\ DeviceInv(d)
    BY <1>1 DEF IInv, threadVars, stopVars
  <2>2. Stopped(d)'
    BY <1>1, <1>2, <2>1 DEF DeviceInv, Stopped, Answered, Over, HasEnded
  <2> QED BY <1>1, <1>3, <1>4, <2>1, <2>2, NoThreadMoves DEF DeviceInv, Filed, Planned
<1> QED BY <1>3, <1>4, <1>5 DEF IInv

-----------------------------------------------------------------------------
(***************************************************************************)
(* The theorems.                                                           *)
(***************************************************************************)

LEMMA EnvironmentInv ==
  ASSUME IInv, AskToStop \/ OthersMakeDirectory \/ UNCHANGED vars PROVE IInv'
<1>1. dirs \in [1..MaxDirs -> {"free", "ours", "theirs"}] /\ dir \in 1..MaxDirs /\ asked \in BOOLEAN
  BY DEF IInv, TypeOK
<1>2. CASE AskToStop \/ UNCHANGED vars
  BY <1>1, <1>2, QuietStep DEF AskToStop, vars, dirVars, threadVars, stopVars
<1>3. CASE OthersMakeDirectory
  <2>1. dirs' \in [1..MaxDirs -> {"free", "ours", "theirs"}]
    BY <1>1, <1>3 DEF OthersMakeDirectory
  <2> QED BY <1>1, <1>3, <2>1, QuietStep DEF OthersMakeDirectory, threadVars, stopVars
<1> QED BY <1>2, <1>3

LEMMA StepInv == IInv /\ [Next]_vars => IInv'
<1> SUFFICES ASSUME IInv, [Next]_vars PROVE IInv'
  OBVIOUS
<1>1. CASE Main
  BY <1>1, NamingInv, MakeDirectoryInv, StartInv, StartFailsInv, StartsWaitingInv, StartsStoppingInv,
     FlagInv, JoinInv, CloseFilesInv, ReportInv, LeaveInv DEF Main
<1>2. CASE AskToStop \/ OthersMakeDirectory \/ UNCHANGED vars
  BY <1>2, EnvironmentInv
<1>3. CASE (\E d \in Devices : Thread(d)) \/ RawPollLoop \/ MonitorLoop
  BY <1>3, ThreadInv, OtherLoopsInv
<1> QED BY <1>1, <1>2, <1>3 DEF Next

LEMMA Invariant == Spec => []IInv
BY InitInv, StepInv, PTL DEF Spec

\* The state of every script keeps to its types, whatever the bounds.
THEOREM TypeCorrect == Spec => []TypeOK
<1>1. IInv => TypeOK
  BY DEF IInv
<1> QED BY <1>1, Invariant, PTL

\* Only a thread whose join timed out finds its file closed: the rigs stop all of their
\* devices before they close, also where a failed start is unwound.
THEOREM FilesStayOpen == Spec => []FilesOutliveThreads
<1>1. IInv => FilesOutliveThreads
  BY DEF IInv, DeviceInv, Filed, FilesOutliveThreads
<1> QED BY <1>1, Invariant, PTL

\* The manifest is wrong by one item of a device at most, where its thread failed with
\* that item or outlived its join.  The files are closed by then, so a frame or a sample
\* may be missing; a batch of events may be there that the manifest does not count.
THEOREM ManifestCountsRows == Spec => []CountsItsRows
<1>1. IInv => CountsItsRows
  BY DEF IInv, DeviceInv, Manifested, CountsItsRows, Recorded, Devices, Basler, Imu
<1> QED BY <1>1, Invariant, PTL

\* Were the gyroscope never to fail, no startup failure that the handler of main
\* catches, and no end of a recording, would leave a thread that no join has given up
\* on.  The condition is the one that session_startup.cfg does without.
THEOREM StartedIsStopped ==
  ASSUME "gyro" \notin MayFail
  PROVE  Spec => []StopsWhatStarted
<1>1. IInv => StopsWhatStarted
  BY DEF IInv, DeviceInv, Stopped, Answered, Over, StopsWhatStarted
<1> QED BY <1>1, Invariant, PTL

-----------------------------------------------------------------------------
(***************************************************************************)
(* The output directory.                                                   *)
(***************************************************************************)

\* What is known of the directory at every step.  Before it is made the name may be
\* anybody's; other recordings only take a name that is free.
Claimed ==
  /\ dirs \in [1..MaxDirs -> {"free", "ours", "theirs"}] /\ dir \in 1..MaxDirs
  /\ OwnDirectory

Recording == {"starting", "waiting", "stopping", "leaving"}

LEMMA InitClaimed == Init => Claimed
BY BoundsAssumption DEF Init, Claimed, OwnDirectory

\* A step of the main thread that takes no directory and does not begin to record.
LEMMA StillClaimed ==
  ASSUME Claimed, UNCHANGED dirVars,
         pc' \in Recording => pc \in Recording
  PROVE  Claimed'
BY DEF Claimed, OwnDirectory, Recording, dirVars

LEMMA NamingClaims ==
  ASSUME Claimed, NameExists \/ NameIsFree \/ MakeDirectory
  PROVE  Claimed'
<1>1. CASE NameExists
  BY <1>1, BoundsAssumption DEF NameExists, Claimed, OwnDirectory, mainVars
<1>2. CASE NameIsFree
  BY <1>2, StillClaimed DEF NameIsFree, Recording
<1>3. CASE MakeDirectory
  <2>1. CASE dirs[dir] = "free"
    <3>1. dirs' = [dirs EXCEPT ![dir] = "ours"] /\ dir' = dir
      BY <1>3, <2>1 DEF MakeDirectory
    <3> QED BY <3>1 DEF Claimed, OwnDirectory
  <2>2. CASE dirs[dir] # "free"
    <3>1. UNCHANGED dirVars /\ pc' = "done"
      BY <1>3, <2>2 DEF MakeDirectory, dirVars
    <3> QED BY <3>1, StillClaimed DEF Recording
  <2> QED BY <2>1, <2>2
<1> QED BY <1>1, <1>2, <1>3

LEMMA MainClaims == ASSUME Claimed, Main PROVE Claimed'
<1>1. CASE NameExists \/ NameIsFree \/ MakeDirectory
  BY <1>1, NamingClaims
<1>2. CASE Start \/ StartFails \/ StartsWaiting \/ StartsStopping \/ Flag \/ Join \/ CloseFiles \/ Report
            \/ Leave
  <2>1. UNCHANGED dirVars
    BY <1>2 DEF Start, StartFails, StartsWaiting, StartsStopping, Flag, Join, CloseFiles, Report, Leave
  <2>2. pc \in Recording
    BY <1>2 DEF Recording, Start, StartFails, StartsWaiting, StartsStopping, Flag, Join, CloseFiles, Report, Leave
  <2> QED BY <2>1, <2>2, StillClaimed
<1> QED BY <1>1, <1>2 DEF Main

\* Another recording is made beside this one.
LEMMA OthersClaim == ASSUME Claimed, OthersMakeDirectory PROVE Claimed'
<1>1. PICK n \in 1..MaxDirs : dirs[n] = "free" /\ dirs' = [dirs EXCEPT ![n] = "theirs"]
  BY DEF OthersMakeDirectory
<1>2. pc' = pc /\ pc \in {"naming", "making"} /\ dir' = dir
  BY DEF OthersMakeDirectory, mainVars
<1> QED BY <1>1, <1>2 DEF Claimed, OwnDirectory

LEMMA ThreadsClaimNothing ==
  ASSUME Claimed, (\E d \in Devices : Thread(d)) \/ RawPollLoop \/ MonitorLoop \/ AskToStop
  PROVE  Claimed'
<1>1. UNCHANGED <<mainVars, dirVars>>
  BY DEF Thread, LoopTest, FetchesNothing, GrabLoop, PollLoop, StreamLoop, LoopEnds, FetchFails,
         WritesRow, BeginsBatch, WritesBatch, WriteFails, CountsBatch, WritesToClosedFile, CallbackFails,
         RawPollLoop, MonitorLoop, AskToStop, ThreadOnly
<1> QED BY <1>1, StillClaimed DEF mainVars

\* A recording never goes into a directory that another one has made, however its name
\* test and the making of the directory fall among the others'.
THEOREM DirectoryIsOurs == Spec => []OwnDirectory
<1>1. Claimed /\ [Next]_vars => Claimed'
  <2> SUFFICES ASSUME Claimed, [Next]_vars PROVE Claimed'
    OBVIOUS
  <2>1. CASE UNCHANGED vars
    BY <2>1, StillClaimed DEF vars, mainVars
  <2>2. CASE Next
    BY <2>2, MainClaims, OthersClaim, ThreadsClaimNothing DEF Next
  <2> QED BY <2>1, <2>2
<1>2. Claimed => OwnDirectory
  BY DEF Claimed
<1> QED BY <1>1, <1>2, InitClaimed, PTL DEF Spec
=============================================================================
