---------------------------- MODULE AsdmProofs ----------------------------
(***************************************************************************)
(* Theorems about the sensor database, for every set of sensors, every     *)
(* value and any number of sweeps and requests: an answer is of one sweep, *)
(* the running average stays within the samples, the tables of the V70 and *)
(* the V80 agree with one another, so that every record is in place, and   *)
(* the host is told the size of what it is given.                          *)
(***************************************************************************)
EXTENDS Asdm, SequenceTheorems, FiniteSetTheorems, WellFoundedInduction, TLAPS

-----------------------------------------------------------------------------
(* The invariants                                                          *)

DbRecord == [value : Nat, of : Nat, ok : BOOLEAN, max : Nat, avg : Nat, n : Nat \ {0}, done : Nat]
Samples  == Nat \cup {None}

(* The types of what the two tasks work on.                                *)
SweepTypes ==
  /\ boot \in {"repo", "record", "failed", "wild", "ready"}
  /\ sweeps \in Nat
  /\ glvr \in [Watched -> Nat]
  /\ db \in [Watched -> DbRecord]
  /\ sensor \in [pc : {"delay", "monitored", "read", "update"}, left : SUBSET Watched, sample : Samples]
  /\ seen \in [Watched -> [min : Samples, max : Samples]]
  /\ req = [pc |-> req.pc, cmd |-> req.cmd, repo |-> req.repo, left |-> req.left,
            got |-> req.got, size |-> req.size]
  /\ req.got \in Seq(DbRecord)

(* sdr_lock belongs to the task that is between its take and its give.     *)
LockInv ==
  /\ sensor.pc \in {"read", "update"} <=> lock = "sensor"
  /\ req.pc = "copy" <=> lock = "opcode"

(* Nothing is swept or asked for before Init_Asdm is through.              *)
BootInv ==
  /\ boot # "ready" => sweeps = 0 /\ \A w \in Watched : db[w].of = 0 /\ db[w].done = 0
  /\ sensor.pc # "delay" => boot = "ready"
  /\ req.pc \in {"lock", "copy"} => boot = "ready" /\ req.left \subseteq Here

(* The sensors a sweep is through with have been read and accounted for in *)
(* it; the first of the rest may have been read.                           *)
SweepInv ==
  /\ sensor.pc \notin {"read", "update"} => sensor.left = {}
  /\ sensor.pc = "update" => sensor.left # {} /\ db[First(sensor.left)].of = sweeps
  /\ \A w \in Here \ sensor.left : db[w].of = sweeps /\ db[w].done = sweeps

(* What has been copied of the database while nobody sweeps.               *)
CopyInv ==
  /\ req.pc = "lock" => req.got = <<>>
  /\ req.pc = "copy" =>
       \A i \in 1..Len(req.got) : req.got[i].of = sweeps /\ req.got[i].done = sweeps

AnswerInv == LockInv /\ BootInv /\ SweepInv /\ CopyInv /\ AnswerOfOneSweep

(* The statistics of a sensor, of which there has been a good sample or    *)
(* none yet, and the sample that is still to be accounted for.             *)
StatsOf(w) ==
  IF db[w].n = 1
  THEN db[w].max = 0 /\ db[w].avg = 0 /\ seen[w].min = None /\ seen[w].max = None
  ELSE /\ seen[w].min \in Nat /\ seen[w].max \in Nat
       /\ db[w].max = seen[w].max
       /\ seen[w].min <= db[w].avg /\ db[w].avg <= seen[w].max
StatsInv ==
  /\ \A w \in Watched : StatsOf(w)
  /\ sensor.pc = "update" =>
       /\ sensor.left # {}
       /\ sensor.sample # None => db[First(sensor.left)].value = sensor.sample

-----------------------------------------------------------------------------
(* The order of the records                                                *)

(* There is a least number in every set of numbers.                        *)
LEMMA LeastOf ==
  ASSUME NEW S \in SUBSET Nat, S # {}
  PROVE  \E m \in S : \A y \in S : m <= y
<1> DEFINE R == {ss \in Nat \X Nat : ss[1] < ss[2]}
<1>1. IsWellFoundedOn(R, Nat)
  BY NatLessThanWellFounded DEF OpToRel
<1>2. \A m, y \in Nat : ~(<<y, m>> \in R) => m <= y
  OBVIOUS
<1> HIDE DEF R
<1>3. PICK m \in S : \A y \in S : ~(<<y, m>> \in R)
  BY <1>1, WFMin
<1> QED
  BY <1>2, <1>3

(* A sensor that is followed has a repository and a place in it.           *)
LEMMA Places ==
  ASSUME NEW w \in Watched
  PROVE  Place(w) \in Nat /\ w[2] \in Nat
<1>1. w[1] \in Dynamic /\ w[2] \in Nat
  <2>1. Watched \subseteq Dynamic \X (Nat \ {0})
    BY AsdmAssumption
  <2> QED
    BY <2>1
<1>2. \E r \in 1..Len(Repos) : Repos[r] = w[1]
  <2>1. 5 = Len(Repos) /\ Repos[2] = "Temperature" /\ Repos[3] = "Voltage" /\ Repos[4] = "Current" /\ Repos[5] = "Power"
    BY DEF Repos
  <2>2. 2 \in 1..5 /\ 3 \in 1..5 /\ 4 \in 1..5 /\ 5 \in 1..5
    OBVIOUS
  <2>3. \/ w[1] = "Temperature" \/ w[1] = "Voltage" \/ w[1] = "Current" \/ w[1] = "Power"
    BY <1>1 DEF Dynamic
  <2> HIDE DEF Repos
  <2> QED
    BY <2>1, <2>2, <2>3
<1>3. Len(Repos) = 5
  BY DEF Repos
<1> QED
  BY <1>1, <1>2, <1>3 DEF Place

(* The record that comes first in a set of records is one of them: a sweep *)
(* takes the sensors one by one.                                           *)
LEMMA FirstIs ==
  ASSUME NEW S \in SUBSET Watched, S # {}
  PROVE  First(S) \in S
<1> DEFINE P == {Place(v) : v \in S}
<1>1. P \in SUBSET Nat /\ P # {}
  BY Places
<1>2. PICK p \in P : \A q \in P : p <= q
  BY <1>1, LeastOf
<1> DEFINE T == {v \in S : Place(v) = p}
           I == {v[2] : v \in T}
<1>3. I \in SUBSET Nat /\ I # {}
  BY <1>2, Places
<1>4. PICK i \in I : \A j \in I : i <= j
  BY <1>3, LeastOf
<1>5. PICK w \in S : Place(w) = p /\ w[2] = i
  BY <1>4
<1>6. ASSUME NEW v \in S
      PROVE  <<Place(w), w[2]>> = <<Place(v), v[2]>>
               \/ Place(w) < Place(v) \/ (Place(w) = Place(v) /\ w[2] < v[2])
  <2>1. /\ Place(v) \in Nat /\ v[2] \in Nat /\ p \in Nat /\ i \in Nat
    BY <1>1, <1>2, <1>3, <1>4, Places
  <2>2. p <= Place(v)
    BY <1>2
  <2>3. Place(v) = p => i <= v[2]
    BY <1>4
  <2> QED
    BY <1>5, <2>1, <2>2, <2>3
<1> QED
  BY <1>5, <1>6 DEF First

(* The running average of vmc_asdm.c, for every sample and every count: it *)
(* stays between what it was and the sample, so between the least and the  *)
(* greatest sample there has been, for all its integer divisions.          *)
LEMMA AverageBetween ==
  ASSUME NEW avg \in Nat, NEW v \in Nat, NEW n \in Nat \ {0}
  PROVE  /\ Average(avg, v, n) \in Nat
         /\ v <= avg => v <= Average(avg, v, n) /\ Average(avg, v, n) <= avg
         /\ avg <= v => avg <= Average(avg, v, n) /\ Average(avg, v, n) <= v
<1> DEFINE a == avg \div n
           b == v \div n
           r == avg % n
           s == v % n
<1>1. /\ a \in Nat /\ b \in Nat /\ r \in 0..n-1 /\ s \in 0..n-1
      /\ avg = n * a + r /\ v = n * b + s
  OBVIOUS
<1>2. Average(avg, v, n) = avg - a + b
  BY DEF Average
<1> HIDE DEF a, b, r, s
<1>3. v <= avg => b <= a
  <2>1. ASSUME v <= avg, b > a PROVE FALSE
    <3>1. n * b >= n * (a + 1)
      BY <1>1, <2>1
    <3>2. n * (a + 1) = n * a + n
      BY <1>1
    <3>3. n * a \in Nat /\ n * b \in Nat
      BY <1>1
    <3> QED
      BY <1>1, <2>1, <3>1, <3>2, <3>3
  <2> QED
    BY <1>1, <2>1
<1>4. avg <= v => a <= b
  <2>1. ASSUME avg <= v, a > b PROVE FALSE
    <3>1. n * a >= n * (b + 1)
      BY <1>1, <2>1
    <3>2. n * (b + 1) = n * b + n
      BY <1>1
    <3>3. n * a \in Nat /\ n * b \in Nat
      BY <1>1
    <3> QED
      BY <1>1, <2>1, <3>1, <3>2, <3>3
  <2> QED
    BY <1>1, <2>1
<1>5. v <= avg => a - b <= avg - v
  <2>1. ASSUME v <= avg PROVE a - b <= avg - v
    <3>1. CASE a = b
      BY <1>1, <2>1, <3>1
    <3>2. CASE a > b
      <4>1. PICK d \in Nat : a = b + d /\ d >= 1
        <5>1. a - b \in Nat /\ a = b + (a - b) /\ a - b >= 1
          BY <1>1, <3>2
        <5> QED
          BY <5>1
      <4>2. n * a = n * b + n * d /\ n * b \in Nat /\ n * d \in Nat
        BY <1>1, <4>1
      <4>3. avg - v = n * d + r - s
        BY <1>1, <4>2
      <4>4. n * d - d >= n - 1
        <5>1. (n - 1) * d >= n - 1
          BY <4>1
        <5>2. (n - 1) * d = n * d - d
          BY <4>1
        <5> QED
          BY <5>1, <5>2
      <4> QED
        BY <1>1, <4>1, <4>2, <4>3, <4>4
    <3> QED
      BY <1>1, <1>3, <2>1, <3>1, <3>2
  <2> QED
    BY <2>1
<1>6. avg <= v => b - a <= v - avg
  <2>1. ASSUME avg <= v PROVE b - a <= v - avg
    <3>1. CASE a = b
      BY <1>1, <2>1, <3>1
    <3>2. CASE b > a
      <4>1. PICK d \in Nat : b = a + d /\ d >= 1
        <5>1. b - a \in Nat /\ b = a + (b - a) /\ b - a >= 1
          BY <1>1, <3>2
        <5> QED
          BY <5>1
      <4>2. n * b = n * a + n * d /\ n * a \in Nat /\ n * d \in Nat
        BY <1>1, <4>1
      <4>3. v - avg = n * d + s - r
        BY <1>1, <4>2
      <4>4. n * d - d >= n - 1
        <5>1. (n - 1) * d >= n - 1
          BY <4>1
        <5>2. (n - 1) * d = n * d - d
          BY <4>1
        <5> QED
          BY <5>1, <5>2
      <4> QED
        BY <1>1, <4>1, <4>2, <4>3, <4>4
    <3> QED
      BY <1>1, <1>4, <2>1, <3>1, <3>2
  <2> QED
    BY <2>1
<1> HIDE DEF Average
<1> QED
  BY <1>1, <1>2, <1>3, <1>4, <1>5, <1>6

-----------------------------------------------------------------------------
(* Types                                                                   *)

(* The fields of a record that the sweep writes.                           *)
LEMMA RecordIs ==
  ASSUME SweepTypes, NEW w \in Watched
  PROVE  /\ db[w] \in DbRecord
         /\ db[w].value \in Nat /\ db[w].of \in Nat /\ db[w].max \in Nat /\ db[w].avg \in Nat
         /\ db[w].n \in Nat \ {0} /\ db[w].done \in Nat
         /\ seen[w].min \in Samples /\ seen[w].max \in Samples
         /\ glvr[w] \in Nat
BY DEF SweepTypes, DbRecord

(* What a sample does to a record.                                         *)
LEMMA UpdateIs ==
  ASSUME SweepTypes, NEW w \in Watched, NEW v \in Samples
  PROVE  LET u == UpdateRecord(db[w], v)
         IN /\ u \in DbRecord /\ u.done = sweeps /\ u.of = db[w].of /\ u.value = db[w].value
            /\ v = None => u.n = db[w].n /\ u.max = db[w].max /\ u.avg = db[w].avg
            /\ v # None =>
                 /\ u.n = db[w].n + 1
                 /\ u.max = IF db[w].value > db[w].max THEN db[w].value ELSE db[w].max
                 /\ u.avg = Average(db[w].avg, db[w].value, db[w].n)
<1> DEFINE r == db[w]
           m == IF r.value > r.max THEN r.value ELSE r.max
           a == Average(r.avg, r.value, r.n)
<1>1. r \in DbRecord /\ sweeps \in Nat
  BY RecordIs DEF SweepTypes
<1>2. r.n + 1 \in Nat \ {0} /\ m \in Nat /\ a \in Nat
  BY RecordIs, AverageBetween
<1>3. CASE v = None
  BY <1>1, <1>3 DEF UpdateRecord, DbRecord
<1>4. CASE v # None
  <2>1. UpdateRecord(r, v) = [r EXCEPT !.ok = TRUE, !.done = sweeps, !.n = r.n + 1, !.max = m, !.avg = a]
    BY <1>4 DEF UpdateRecord
  <2> HIDE DEF m, a, r
  <2>2. /\ UpdateRecord(r, v) \in DbRecord /\ UpdateRecord(r, v).done = sweeps
        /\ UpdateRecord(r, v).of = r.of /\ UpdateRecord(r, v).value = r.value
        /\ UpdateRecord(r, v).n = r.n + 1 /\ UpdateRecord(r, v).max = m /\ UpdateRecord(r, v).avg = a
    BY <1>1, <1>2, <2>1 DEF DbRecord
  <2> QED
    BY <1>4, <2>2 DEF m, a, r
<1> QED
  BY <1>3, <1>4

(* The sensor task leaves the requests of the host alone.                  *)
LEMMA TypeSweep ==
  ASSUME SweepTypes, Sweep
  PROVE  SweepTypes'
<1> DEFINE Sensors == [pc : {"delay", "monitored", "read", "update"}, left : SUBSET Watched, sample : Samples]
<1>0. /\ sensor \in Sensors /\ sweeps \in Nat /\ None \in Samples
      /\ db \in [Watched -> DbRecord] /\ glvr \in [Watched -> Nat]
      /\ seen \in [Watched -> [min : Samples, max : Samples]]
  BY DEF SweepTypes, Samples
<1>1. CASE Monitor
  <2>1. /\ sensor' = [sensor EXCEPT !.pc = "monitored"]
        /\ UNCHANGED <<boot, db, sweeps, req, seen>>
    BY <1>1 DEF Monitor
  <2>2. glvr' \in [Watched -> Nat]
    <3>1. PICK chip \in [Here -> Values \cup {None}] :
            glvr' = [w \in Watched |-> IF w \notin Here THEN glvr[w]
                                       ELSE IF chip[w] = None THEN Failed(w, glvr[w]) ELSE chip[w]]
      BY <1>1 DEF Monitor
    <3>2. Values \subseteq Nat
      BY AsdmAssumption
    <3>3. ASSUME NEW w \in Watched PROVE Failed(w, glvr[w]) \in Nat
      BY <1>0 DEF Failed, FailedElectrical, FailedTemperature
    <3>4. ASSUME NEW w \in Watched, w \in Here, chip[w] # None PROVE chip[w] \in Nat
      BY <3>2, <3>4
    <3> QED
      BY <1>0, <3>1, <3>3, <3>4
  <2>3. sensor' \in Sensors
    BY <1>0, <2>1
  <2> QED
    BY <2>1, <2>2, <2>3 DEF SweepTypes
<1>2. CASE SweepBegin
  <2>1. /\ sensor' = [pc |-> "read", left |-> Here, sample |-> None] /\ sweeps' = sweeps + 1
        /\ UNCHANGED <<boot, glvr, db, req, seen>>
    BY <1>2 DEF SweepBegin
  <2>2. sensor' \in Sensors /\ sweeps' \in Nat
    BY <1>0, <2>1 DEF Here
  <2> QED
    BY <2>1, <2>2 DEF SweepTypes
<1>3. CASE SweepRead
  <2> DEFINE w == First(sensor.left)
             v == IF w[1] = "Temperature" THEN TemperatureSample(glvr[w]) ELSE ElectricalSample(glvr[w])
  <2>1. w \in Watched
    BY <1>0, <1>3, FirstIs DEF SweepRead
  <2>2. v \in Samples
    BY <1>0, <2>1 DEF TemperatureSample, ElectricalSample, Samples
  <2>3. /\ sensor' = [sensor EXCEPT !.pc = "update", !.sample = v]
        /\ db' = [db EXCEPT ![w].value = IF v = None THEN @ ELSE v, ![w].of = sweeps]
        /\ UNCHANGED <<boot, glvr, sweeps, req, seen>>
    BY <1>3 DEF SweepRead
  <2> HIDE DEF w, v
  <2>4. sensor' \in Sensors
    BY <1>0, <2>2, <2>3
  <2>5. db' \in [Watched -> DbRecord]
    <3>1. db[w] \in DbRecord /\ (v # None => v \in Nat)
      BY <1>0, <2>1, <2>2 DEF Samples
    <3>2. \E x \in Nat : db' = [db EXCEPT ![w] = [db[w] EXCEPT !.value = x, !.of = sweeps]]
      <4>1. db' = [db EXCEPT ![w] = [db[w] EXCEPT !.value = IF v = None THEN db[w].value ELSE v, !.of = sweeps]]
        BY <1>0, <2>1, <2>3
      <4>2. (IF v = None THEN db[w].value ELSE v) \in Nat
        BY <3>1 DEF DbRecord
      <4> QED
        BY <4>1, <4>2
    <3>3. \A x \in Nat : [db[w] EXCEPT !.value = x, !.of = sweeps] \in DbRecord
      BY <1>0, <3>1 DEF DbRecord
    <3>4. \E r \in DbRecord : db' = [db EXCEPT ![w] = r]
      BY <3>2, <3>3
    <3> QED
      BY <1>0, <3>4
  <2> QED
    BY <2>3, <2>4, <2>5 DEF SweepTypes
<1>4. CASE SweepUpdate
  <2> DEFINE w == First(sensor.left)
             v == sensor.sample
             s == [min |-> IF seen[w].min = None \/ v < seen[w].min THEN v ELSE seen[w].min,
                   max |-> IF v > seen[w].max THEN v ELSE seen[w].max]
  <2>1. /\ db' = [db EXCEPT ![w] = UpdateRecord(db[w], v)]
        /\ sensor' = [pc |-> "read", left |-> sensor.left \ {w}, sample |-> None]
        /\ seen' = seen \/ seen' = [seen EXCEPT ![w] = s]
        /\ UNCHANGED <<boot, glvr, sweeps, req>>
    BY <1>4 DEF SweepUpdate
  <2>2. v \in Samples
    BY <1>0
  <2> HIDE DEF v
  <2>3. sensor' \in Sensors
    BY <1>0, <2>1
  <2>4. db' \in [Watched -> DbRecord]
    BY <1>0, <2>1, <2>2, UpdateIs
  <2>5. seen' \in [Watched -> [min : Samples, max : Samples]]
    <3>1. CASE w \in Watched
      <4>1. s \in [min : Samples, max : Samples]
        BY <1>0, <2>2, <3>1
      <4> QED
        BY <1>0, <2>1, <4>1
    <3>2. CASE w \notin Watched
      <4>1. seen' = seen
        BY <1>0, <2>1, <3>2
      <4> QED
        BY <1>0, <4>1
    <3> QED
      BY <3>1, <3>2
  <2> QED
    BY <2>1, <2>3, <2>4, <2>5 DEF SweepTypes
<1>5. CASE SweepEnd
  <2>1. sensor' = [sensor EXCEPT !.pc = "delay"] /\ UNCHANGED <<boot, glvr, db, sweeps, req, seen>>
    BY <1>5 DEF SweepEnd
  <2>2. sensor' \in Sensors
    BY <1>0, <2>1
  <2> QED
    BY <2>1, <2>2 DEF SweepTypes
<1> QED
  BY <1>1, <1>2, <1>3, <1>4, <1>5 DEF Sweep

(* Where a request of the host leads: what the opcode task does with the   *)
(* lock and the answer, and that it leaves the database alone.             *)
LEMMA OpSteps ==
  ASSUME Opcode, SweepTypes
  PROVE  /\ UNCHANGED <<layout, boot, glvr, db, sensor, sweeps, seen>>
         /\ req' = [pc |-> req'.pc, cmd |-> req'.cmd, repo |-> req'.repo, left |-> req'.left,
                    got |-> req'.got, size |-> req'.size]
         /\ \/ /\ req.pc \in {"idle", "answered"} /\ req'.pc \in {"answered", "lock"} /\ lock' = lock
               /\ req'.got = <<>>
               /\ req'.pc = "lock" => boot = "ready" /\ req'.left \subseteq Here
            \/ /\ req.pc = "lock" /\ lock = "none" /\ lock' = "opcode" /\ req'.pc = "copy"
               /\ req'.left = req.left /\ req'.got = req.got
            \/ /\ req.pc = "copy" /\ req.left # {} /\ lock' = lock /\ req'.pc = "copy"
               /\ req'.left = req.left \ {First(req.left)}
               /\ req'.got = Append(req.got, db[First(req.left)])
            \/ /\ req.pc = "copy" /\ req.left = {} /\ lock' = "none" /\ req'.pc = "answered"
               /\ req'.left = req.left /\ req'.got = req.got
<1>0. req = [pc |-> req.pc, cmd |-> req.cmd, repo |-> req.repo, left |-> req.left,
             got |-> req.got, size |-> req.size]
  BY DEF SweepTypes
<1>1. CASE Request
  <2>1. /\ req.pc \in {"idle", "answered"} /\ lock' = lock
        /\ UNCHANGED <<layout, boot, glvr, db, sensor, sweeps, seen>>
    BY <1>1 DEF Request
  <2>2. PICK repo \in Dynamic, cmd \in {"size", "sdr", "single", "all"} :
          LET mine == {w \in Here : w[1] = repo}
              of   == [NoReq EXCEPT !.cmd = cmd, !.repo = repo]
          IN \/ /\ boot = "failed" /\ req' = [of EXCEPT !.pc = "answered", !.cmd = "refused"]
             \/ /\ boot = "ready" /\ cmd = "size"
                /\ req' = [of EXCEPT !.pc = "answered", !.size = DeclaredSize(Index(repo))]
             \/ /\ boot = "ready" /\ cmd \in {"sdr", "all"}
                /\ req' = [of EXCEPT !.pc = "lock", !.left = mine]
             \/ /\ boot = "ready" /\ cmd = "single"
                /\ \E w \in mine : req' = [of EXCEPT !.pc = "lock", !.left = {w}]
    BY <1>1 DEF Request
  <2>3. \E pc \in {"answered", "lock"} : \E c, left, size :
          /\ req' = [pc |-> pc, cmd |-> c, repo |-> repo, left |-> left, got |-> <<>>, size |-> size]
          /\ pc = "lock" => boot = "ready" /\ left \subseteq Here
    <3> DEFINE mine == {w \in Here : w[1] = repo}
    <3>1. CASE boot = "failed" /\ req' = [[NoReq EXCEPT !.cmd = cmd, !.repo = repo]
                                            EXCEPT !.pc = "answered", !.cmd = "refused"]
      <4>1. req' = [pc |-> "answered", cmd |-> "refused", repo |-> repo, left |-> {}, got |-> <<>>, size |-> 0]
        BY <3>1 DEF NoReq
      <4> QED
        BY <4>1
    <3>2. CASE /\ boot = "ready"
               /\ req' = [[NoReq EXCEPT !.cmd = cmd, !.repo = repo]
                            EXCEPT !.pc = "answered", !.size = DeclaredSize(Index(repo))]
      <4>1. req' = [pc |-> "answered", cmd |-> cmd, repo |-> repo, left |-> {}, got |-> <<>>,
                    size |-> DeclaredSize(Index(repo))]
        BY <3>2 DEF NoReq
      <4> QED
        BY <4>1
    <3>3. ASSUME boot = "ready", NEW l \in SUBSET Here,
                 req' = [[NoReq EXCEPT !.cmd = cmd, !.repo = repo] EXCEPT !.pc = "lock", !.left = l]
          PROVE  \E pc \in {"answered", "lock"} : \E c, left, size :
                   /\ req' = [pc |-> pc, cmd |-> c, repo |-> repo, left |-> left, got |-> <<>>, size |-> size]
                   /\ pc = "lock" => boot = "ready" /\ left \subseteq Here
      <4>1. req' = [pc |-> "lock", cmd |-> cmd, repo |-> repo, left |-> l, got |-> <<>>, size |-> 0]
        BY <3>3 DEF NoReq
      <4> QED
        BY <3>3, <4>1
    <3>4. mine \in SUBSET Here /\ \A w \in mine : {w} \in SUBSET Here
      OBVIOUS
    <3> HIDE DEF mine
    <3>5. \/ boot = "failed" /\ req' = [[NoReq EXCEPT !.cmd = cmd, !.repo = repo]
                                          EXCEPT !.pc = "answered", !.cmd = "refused"]
          \/ /\ boot = "ready"
             /\ req' = [[NoReq EXCEPT !.cmd = cmd, !.repo = repo]
                          EXCEPT !.pc = "answered", !.size = DeclaredSize(Index(repo))]
          \/ /\ boot = "ready"
             /\ \E l \in SUBSET Here :
                  req' = [[NoReq EXCEPT !.cmd = cmd, !.repo = repo] EXCEPT !.pc = "lock", !.left = l]
      BY <2>2, <3>4 DEF mine
    <3> QED
      BY <3>1, <3>2, <3>3, <3>5
  <2>4. /\ req' = [pc |-> req'.pc, cmd |-> req'.cmd, repo |-> req'.repo, left |-> req'.left,
                   got |-> req'.got, size |-> req'.size]
        /\ req'.pc \in {"answered", "lock"} /\ req'.got = <<>>
        /\ req'.pc = "lock" => boot = "ready" /\ req'.left \subseteq Here
    BY <2>3
  <2> QED
    BY <2>1, <2>4
<1>2. CASE RequestLock
  <2>1. req' = [req EXCEPT !.pc = "copy"]
    BY <1>2 DEF RequestLock
  <2>2. req' = [pc |-> "copy", cmd |-> req.cmd, repo |-> req.repo, left |-> req.left,
                got |-> req.got, size |-> req.size]
    BY <1>0, <2>1
  <2>3. /\ req.pc = "lock" /\ lock = "none" /\ lock' = "opcode"
        /\ UNCHANGED <<layout, boot, glvr, db, sensor, sweeps, seen>>
    BY <1>2 DEF RequestLock
  <2> QED
    BY <2>2, <2>3
<1>3. CASE RequestCopy
  <2> DEFINE w == First(req.left)
  <2>1. req' = [req EXCEPT !.left = @ \ {w}, !.got = Append(@, db[w])]
    BY <1>3 DEF RequestCopy
  <2>3. /\ req.pc = "copy" /\ req.left # {} /\ lock' = lock
        /\ UNCHANGED <<layout, boot, glvr, db, sensor, sweeps, seen>>
    BY <1>3 DEF RequestCopy
  <2> HIDE DEF w
  <2>2. req' = [pc |-> req.pc, cmd |-> req.cmd, repo |-> req.repo, left |-> req.left \ {w},
                got |-> Append(req.got, db[w]), size |-> req.size]
    BY <1>0, <2>1
  <2>4. /\ req' = [pc |-> req'.pc, cmd |-> req'.cmd, repo |-> req'.repo, left |-> req'.left,
                   got |-> req'.got, size |-> req'.size]
        /\ req'.pc = "copy" /\ req'.left = req.left \ {w} /\ req'.got = Append(req.got, db[w])
    BY <2>2, <2>3
  <2> QED
    BY <2>3, <2>4 DEF w
<1>4. CASE RequestAnswer
  <2>1. /\ req.pc = "copy" /\ req.left = {} /\ lock' = "none"
        /\ \E size : req' = [req EXCEPT !.pc = "answered", !.size = size]
        /\ UNCHANGED <<layout, boot, glvr, db, sensor, sweeps, seen>>
    BY <1>4 DEF RequestAnswer
  <2>2. PICK size : req' = [req EXCEPT !.pc = "answered", !.size = size]
    BY <2>1
  <2>3. req' = [pc |-> "answered", cmd |-> req.cmd, repo |-> req.repo, left |-> req.left,
                got |-> req.got, size |-> size]
    BY <1>0, <2>2
  <2>4. /\ req' = [pc |-> req'.pc, cmd |-> req'.cmd, repo |-> req'.repo, left |-> req'.left,
                   got |-> req'.got, size |-> req'.size]
        /\ req'.pc = "answered" /\ req'.left = req.left /\ req'.got = req.got
    BY <2>3
  <2> QED
    BY <2>1, <2>4
<1> QED
  BY <1>1, <1>2, <1>3, <1>4 DEF Opcode

(* Where the sensor task leads: it takes sdr_lock for a sweep, and writes  *)
(* the one record it is at.                                                *)
LEMMA SweepSteps ==
  ASSUME Sweep, SweepTypes, SweepInv
  PROVE  /\ UNCHANGED <<layout, boot, req>>
         /\ \/ /\ boot = "ready" /\ sensor.pc = "delay" /\ sensor'.pc = "monitored"
               /\ sensor'.left = sensor.left
               /\ UNCHANGED <<lock, db, sweeps, seen>>
            \/ /\ sensor.pc = "monitored" /\ lock = "none" /\ lock' = "sensor" /\ sweeps' = sweeps + 1
               /\ sensor'.pc = "read" /\ sensor'.left = Here
               /\ UNCHANGED <<db, seen>>
            \/ /\ sensor.pc = "read" /\ sensor.left # {} /\ First(sensor.left) \in Watched
               /\ sensor'.pc = "update" /\ sensor'.left = sensor.left
               /\ \E x \in Nat :
                    /\ db' = [db EXCEPT ![First(sensor.left)] = [@ EXCEPT !.value = x, !.of = sweeps]]
                    /\ sensor'.sample # None => x = sensor'.sample
               /\ UNCHANGED <<lock, sweeps, seen>>
            \/ /\ sensor.pc = "update" /\ First(sensor.left) \in sensor.left
               /\ First(sensor.left) \in Watched
               /\ sensor'.pc = "read" /\ sensor'.left = sensor.left \ {First(sensor.left)}
               /\ SweepUpdate
               /\ UNCHANGED <<lock, sweeps>>
            \/ /\ sensor.pc = "read" /\ sensor.left = {} /\ lock' = "none" /\ sensor'.pc = "delay"
               /\ sensor'.left = {}
               /\ UNCHANGED <<db, sweeps, seen>>
<1> DEFINE Sensors == [pc : {"delay", "monitored", "read", "update"}, left : SUBSET Watched, sample : Samples]
<1>0. sensor \in Sensors /\ db \in [Watched -> DbRecord] /\ glvr \in [Watched -> Nat]
  BY DEF SweepTypes
<1>1. CASE Monitor
  <2>1. /\ sensor' = [sensor EXCEPT !.pc = "monitored"] /\ boot = "ready" /\ sensor.pc = "delay"
        /\ UNCHANGED <<layout, boot, lock, db, sweeps, req, seen>>
    BY <1>1 DEF Monitor
  <2> QED
    BY <1>0, <2>1
<1>2. CASE SweepBegin
  BY <1>2 DEF SweepBegin
<1>3. CASE SweepRead
  <2> DEFINE w == First(sensor.left)
             v == IF w[1] = "Temperature" THEN TemperatureSample(glvr[w]) ELSE ElectricalSample(glvr[w])
  <2>1. w \in Watched
    BY <1>0, <1>3, FirstIs DEF SweepRead
  <2>2. v # None => v \in Nat
    BY <1>0, <2>1 DEF TemperatureSample, ElectricalSample
  <2>3. /\ sensor' = [sensor EXCEPT !.pc = "update", !.sample = v]
        /\ db' = [db EXCEPT ![w].value = IF v = None THEN @ ELSE v, ![w].of = sweeps]
        /\ sensor.pc = "read" /\ sensor.left # {}
        /\ UNCHANGED <<layout, boot, lock, sweeps, req, seen>>
    BY <1>3 DEF SweepRead
  <2> HIDE DEF w, v
  <2>4. sensor'.pc = "update" /\ sensor'.left = sensor.left /\ sensor'.sample = v
    BY <1>0, <2>3
  <2>5. \E x \in Nat : /\ db' = [db EXCEPT ![w] = [@ EXCEPT !.value = x, !.of = sweeps]]
                       /\ v # None => x = v
    <3>1. db' = [db EXCEPT ![w] = [db[w] EXCEPT !.value = IF v = None THEN db[w].value ELSE v, !.of = sweeps]]
      BY <1>0, <2>1, <2>3
    <3>2. (IF v = None THEN db[w].value ELSE v) \in Nat
      BY <1>0, <2>1, <2>2 DEF DbRecord
    <3> QED
      BY <3>1, <3>2
  <2> QED
    BY <2>1, <2>3, <2>4, <2>5 DEF w
<1>4. CASE SweepUpdate
  <2>1. sensor.pc = "update" /\ sensor' = [pc |-> "read", left |-> sensor.left \ {First(sensor.left)}, sample |-> None]
        /\ UNCHANGED <<layout, boot, req, lock, sweeps>>
    BY <1>4 DEF SweepUpdate
  <2>2. sensor.left # {}
    BY <2>1 DEF SweepInv
  <2>3. First(sensor.left) \in sensor.left /\ First(sensor.left) \in Watched
    BY <1>0, <2>2, FirstIs
  <2> QED
    BY <1>4, <2>1, <2>3
<1>5. CASE SweepEnd
  <2>1. /\ sensor' = [sensor EXCEPT !.pc = "delay"] /\ sensor.pc = "read" /\ sensor.left = {} /\ lock' = "none"
        /\ UNCHANGED <<layout, boot, db, sweeps, req, seen>>
    BY <1>5 DEF SweepEnd
  <2> QED
    BY <1>0, <2>1
<1> QED
  BY <1>1, <1>2, <1>3, <1>4, <1>5 DEF Sweep

(* Init_Asdm changes the layout, and nothing of the two tasks.             *)
LEMMA StartupSteps ==
  ASSUME Startup
  PROVE  /\ UNCHANGED tasks
         /\ boot \in {"repo", "record"} /\ boot' \in {"repo", "record", "failed", "wild", "ready"}
<1>1. CASE BeginRepo
  BY <1>1 DEF BeginRepo
<1>2. CASE FillRecord
  <2>1. boot = "record" /\ UNCHANGED tasks
    BY <1>2 DEF FillRecord
  <2>2. boot' = "wild" \/ boot' = boot
    BY <1>2 DEF FillRecord
  <2> QED
    BY <2>1, <2>2
<1>3. CASE EndRepo
  <2>1. boot = "record" /\ UNCHANGED tasks /\ (boot' = IF sdr = Len(Repos) THEN "ready" ELSE "repo")
    BY <1>3 DEF EndRepo
  <2> QED
    BY <2>1
<1>4. CASE OutOfMemory
  BY <1>4 DEF OutOfMemory
<1> QED
  BY <1>1, <1>2, <1>3, <1>4 DEF Startup

(* What the two tasks work on keeps its types.                             *)
LEMMA TypeStep ==
  ASSUME SweepTypes, BootInv, SweepInv, [Next]_vars
  PROVE  SweepTypes'
<1>1. CASE Startup
  <2>1. UNCHANGED tasks /\ boot' \in {"repo", "record", "failed", "wild", "ready"}
    BY <1>1, StartupSteps
  <2> QED
    BY <2>1 DEF tasks, SweepTypes
<1>2. CASE Sweep
  BY <1>2, TypeSweep
<1>3. CASE Opcode
  <2>1. /\ UNCHANGED <<layout, boot, glvr, db, sensor, sweeps, seen>>
        /\ req' = [pc |-> req'.pc, cmd |-> req'.cmd, repo |-> req'.repo, left |-> req'.left,
                   got |-> req'.got, size |-> req'.size]
    BY <1>3, OpSteps
  <2>2. req'.got = <<>> \/ req'.got = req.got \/ req'.got = Append(req.got, db[First(req.left)])
    BY <1>3, OpSteps
  <2>3. req'.got = Append(req.got, db[First(req.left)]) => req'.got \in Seq(DbRecord) \/ req'.got = req.got \/ req'.got = <<>>
    <3>1. (req.pc = "copy" /\ req.left # {}) \/ req'.got = req.got \/ req'.got = <<>>
      BY <1>3, OpSteps
    <3>2. CASE req.pc = "copy" /\ req.left # {}
      <4>1. First(req.left) \in Watched
        BY <3>2, FirstIs DEF BootInv, Here
      <4>2. db[First(req.left)] \in DbRecord
        BY <4>1, RecordIs
      <4> QED
        BY <4>2 DEF SweepTypes
    <3> QED
      BY <3>1, <3>2
  <2>4. req'.got \in Seq(DbRecord)
    <3>1. <<>> \in Seq(DbRecord)
      OBVIOUS
    <3>2. req.got \in Seq(DbRecord)
      BY DEF SweepTypes
    <3> QED
      BY <2>2, <2>3, <3>1, <3>2
  <2> QED
    BY <2>1, <2>4 DEF SweepTypes
<1>4. CASE UNCHANGED vars
  BY <1>4 DEF vars, tasks, SweepTypes
<1> QED
  BY <1>1, <1>2, <1>3, <1>4 DEF Next, Done

-----------------------------------------------------------------------------
(* An answer is of one sweep                                               *)

(* The two tasks never hold the lock together.                             *)
LEMMA LockStep ==
  ASSUME SweepTypes, LockInv, BootInv, SweepInv, [Next]_vars
  PROVE  LockInv'
<1>1. CASE Startup
  BY <1>1, StartupSteps DEF tasks, LockInv
<1>2. CASE Sweep
  <2>1. req' = req
    BY <1>2, SweepSteps
  <2>2. \/ lock' = lock /\ sensor.pc \notin {"read", "update"} /\ sensor'.pc \notin {"read", "update"}
        \/ lock' = lock /\ sensor.pc \in {"read", "update"} /\ sensor'.pc \in {"read", "update"}
        \/ lock = "none" /\ lock' = "sensor" /\ sensor'.pc = "read"
        \/ sensor.pc = "read" /\ lock' = "none" /\ sensor'.pc = "delay"
    BY <1>2, SweepSteps
  <2> QED
    BY <2>1, <2>2 DEF LockInv
<1>3. CASE Opcode
  <2>1. sensor' = sensor
    BY <1>3, OpSteps
  <2>2. \/ lock' = lock /\ req.pc # "copy" /\ req'.pc # "copy"
        \/ lock' = lock /\ req.pc = "copy" /\ req'.pc = "copy"
        \/ lock = "none" /\ lock' = "opcode" /\ req'.pc = "copy"
        \/ req.pc = "copy" /\ lock' = "none" /\ req'.pc = "answered"
    BY <1>3, OpSteps
  <2> QED
    BY <2>1, <2>2 DEF LockInv
<1>4. CASE UNCHANGED vars
  BY <1>4 DEF vars, tasks, LockInv
<1> QED
  BY <1>1, <1>2, <1>3, <1>4 DEF Next, Done

(* Sweeps and requests begin when the database is there, and it is laid    *)
(* out once.                                                               *)
LEMMA BootStep ==
  ASSUME SweepTypes, BootInv, SweepInv, [Next]_vars
  PROVE  BootInv'
<1>1. CASE Startup
  <2>1. UNCHANGED tasks /\ boot # "ready"
    BY <1>1, StartupSteps
  <2>2. sensor.pc = "delay" /\ req.pc \notin {"lock", "copy"}
    BY <2>1 DEF BootInv
  <2> QED
    BY <2>1, <2>2 DEF tasks, BootInv
<1>2. CASE Sweep
  <2>1. UNCHANGED <<layout, boot, req>>
    BY <1>2, SweepSteps
  <2>2. boot = "ready"
    BY <1>2, SweepSteps DEF BootInv
  <2>3. Here' = Here
    BY <2>1 DEF layout, Here
  <2> QED
    BY <2>1, <2>2, <2>3 DEF BootInv
<1>3. CASE Opcode
  <2>1. UNCHANGED <<layout, boot, db, sensor, sweeps>>
    BY <1>3, OpSteps
  <2>2. Here' = Here
    BY <2>1 DEF layout, Here
  <2>3. req'.pc \in {"lock", "copy"} => boot = "ready" /\ req'.left \subseteq Here
    BY <1>3, OpSteps DEF BootInv
  <2> QED
    BY <2>1, <2>2, <2>3 DEF BootInv
<1>4. CASE UNCHANGED vars
  <2>1. Here' = Here
    BY <1>4 DEF vars, layout, Here
  <2> QED
    BY <1>4, <2>1 DEF vars, tasks, BootInv
<1> QED
  BY <1>1, <1>2, <1>3, <1>4 DEF Next, Done

(* The records a sweep has left behind are of this sweep.                  *)
LEMMA SweepStep ==
  ASSUME SweepTypes, BootInv, SweepInv, [Next]_vars
  PROVE  SweepInv'
<1>1. CASE Startup
  <2>1. UNCHANGED tasks /\ boot # "ready"
    BY <1>1, StartupSteps
  <2>2. sensor.pc = "delay" /\ sweeps = 0 /\ \A w \in Watched : db[w].of = 0 /\ db[w].done = 0
    BY <2>1 DEF BootInv
  <2>3. Here' \subseteq Watched
    BY DEF Here
  <2> QED
    BY <2>1, <2>2, <2>3 DEF tasks, SweepInv
<1>2. CASE Sweep
  <2>1. UNCHANGED layout
    BY <1>2, SweepSteps
  <2>2. Here' = Here /\ Here \subseteq Watched
    BY <2>1 DEF layout, Here
  <2>3. db \in [Watched -> DbRecord] /\ sweeps \in Nat /\ sensor.sample \in Samples
    BY DEF SweepTypes
  <2> DEFINE f == First(sensor.left)
  <2>4. CASE sensor.pc = "delay" /\ sensor'.pc = "monitored" /\ sensor'.left = sensor.left /\ UNCHANGED <<db, sweeps>>
    BY <2>2, <2>4 DEF SweepInv
  <2>5. CASE sensor'.pc = "read" /\ sensor'.left = Here /\ db' = db
    BY <2>2, <2>5 DEF SweepInv
  <2>6. CASE /\ sensor.left # {} /\ f \in Watched /\ sensor'.pc = "update" /\ sensor'.left = sensor.left /\ sweeps' = sweeps
             /\ \E x \in Nat : db' = [db EXCEPT ![f] = [@ EXCEPT !.value = x, !.of = sweeps]]
    <3>1. PICK x \in Nat : db' = [db EXCEPT ![f] = [@ EXCEPT !.value = x, !.of = sweeps]]
      BY <2>6
    <3>2. sensor'.left # {} /\ First(sensor'.left) = f
      BY <2>6
    <3>3. f \in sensor.left
      BY <2>6, FirstIs DEF SweepTypes
    <3> HIDE DEF f
    <3>4. db'[f].of = sweeps
      BY <2>3, <2>6, <3>1 DEF DbRecord
    <3>5. \A w \in Here \ sensor.left : db'[w] = db[w]
      BY <2>2, <2>3, <3>1, <3>3
    <3> QED
      BY <2>2, <2>6, <3>2, <3>4, <3>5 DEF SweepInv
  <2>7. CASE /\ sensor.pc = "update" /\ f \in sensor.left /\ f \in Watched /\ SweepUpdate /\ sweeps' = sweeps
             /\ sensor'.pc = "read" /\ sensor'.left = sensor.left \ {f}
    <3>1. db' = [db EXCEPT ![f] = UpdateRecord(db[f], sensor.sample)]
      BY <2>7 DEF SweepUpdate
    <3>2. db[f].of = sweeps
      BY <2>7 DEF SweepInv
    <3>3. UpdateRecord(db[f], sensor.sample).done = sweeps /\ UpdateRecord(db[f], sensor.sample).of = sweeps
      BY <2>3, <2>7, <3>2, UpdateIs
    <3> HIDE DEF f
    <3>4. db'[f].of = sweeps /\ db'[f].done = sweeps
      BY <2>3, <2>7, <3>1, <3>3
    <3>5. \A w \in Here \ sensor.left : db'[w] = db[w] \/ w = f
      BY <2>2, <2>3, <3>1
    <3>6. \A w \in Here \ sensor'.left : w = f \/ w \in Here \ sensor.left
      BY <2>7
    <3> QED
      BY <2>2, <2>7, <3>4, <3>5, <3>6 DEF SweepInv
  <2>8. CASE sensor'.pc = "delay" /\ sensor.left = {} /\ sensor'.left = {} /\ UNCHANGED <<db, sweeps>>
    BY <2>2, <2>8 DEF SweepInv
  <2>9. \/ sensor.pc = "delay" /\ sensor'.pc = "monitored" /\ sensor'.left = sensor.left /\ UNCHANGED <<db, sweeps>>
        \/ sensor'.pc = "read" /\ sensor'.left = Here /\ db' = db
        \/ /\ sensor.left # {} /\ f \in Watched /\ sensor'.pc = "update" /\ sensor'.left = sensor.left /\ sweeps' = sweeps
           /\ \E x \in Nat : db' = [db EXCEPT ![f] = [@ EXCEPT !.value = x, !.of = sweeps]]
        \/ /\ sensor.pc = "update" /\ f \in sensor.left /\ f \in Watched /\ SweepUpdate /\ sweeps' = sweeps
           /\ sensor'.pc = "read" /\ sensor'.left = sensor.left \ {f}
        \/ sensor'.pc = "delay" /\ sensor.left = {} /\ sensor'.left = {} /\ UNCHANGED <<db, sweeps>>
    BY <1>2, SweepSteps
  <2> HIDE DEF f
  <2> QED
    BY <2>4, <2>5, <2>6, <2>7, <2>8, <2>9
<1>3. CASE Opcode
  <2>1. UNCHANGED <<layout, db, sensor, sweeps>>
    BY <1>3, OpSteps
  <2>2. Here' = Here
    BY <2>1 DEF layout, Here
  <2> QED
    BY <2>1, <2>2 DEF SweepInv
<1>4. CASE UNCHANGED vars
  <2>1. Here' = Here
    BY <1>4 DEF vars, layout, Here
  <2> QED
    BY <1>4, <2>1 DEF vars, tasks, SweepInv
<1> QED
  BY <1>1, <1>2, <1>3, <1>4 DEF Next, Done

(* What the opcode task has copied is of the last sweep, for as long as it *)
(* holds the lock; after that the answer is the host's.                    *)
LEMMA CopyStep ==
  ASSUME SweepTypes, LockInv, BootInv, SweepInv, CopyInv, AnswerOfOneSweep, [Next]_vars
  PROVE  CopyInv' /\ AnswerOfOneSweep'
<1>1. CASE Startup
  BY <1>1, StartupSteps DEF tasks, CopyInv, AnswerOfOneSweep
<1>2. CASE Sweep
  <2>1. req' = req
    BY <1>2, SweepSteps
  <2>2. req.pc = "copy" => sweeps' = sweeps
    BY <1>2, SweepSteps DEF LockInv
  <2> QED
    BY <2>1, <2>2 DEF CopyInv, AnswerOfOneSweep
<1>3. CASE Opcode
  <2>1. sweeps' = sweeps
    BY <1>3, OpSteps
  <2>2. CASE req'.got = <<>> /\ req'.pc \in {"answered", "lock"}
    BY <2>2 DEF CopyInv, AnswerOfOneSweep
  <2>3. CASE req.pc = "lock" /\ req'.pc = "copy" /\ req'.got = req.got
    <3>1. req'.got = <<>>
      BY <2>3 DEF CopyInv
    <3> QED
      BY <2>3, <3>1 DEF CopyInv, AnswerOfOneSweep
  <2>4. CASE req.pc = "copy" /\ req.left # {} /\ req'.pc = "copy" /\ req'.got = Append(req.got, db[First(req.left)])
    <3> DEFINE x == db[First(req.left)]
    <3>1. sensor.pc \notin {"read", "update"}
      BY <2>4 DEF LockInv
    <3>2. sensor.left = {}
      BY <3>1 DEF SweepInv
    <3>3. req.left \subseteq Here /\ Here \subseteq Watched
      BY <2>4 DEF BootInv, Here
    <3>4. First(req.left) \in Here
      BY <2>4, <3>3, FirstIs
    <3>5. x.of = sweeps /\ x.done = sweeps /\ x \in DbRecord
      BY <3>2, <3>3, <3>4, RecordIs DEF SweepInv
    <3> HIDE DEF x
    <3>6. req.got \in Seq(DbRecord) /\ req'.got = Append(req.got, x)
      BY <2>4 DEF SweepTypes, x
    <3>7. \A i \in 1..Len(req'.got) : req'.got[i] = x \/ (i \in 1..Len(req.got) /\ req'.got[i] = req.got[i])
      BY <3>5, <3>6
    <3>8. \A i \in 1..Len(req'.got) : req'.got[i].of = sweeps /\ req'.got[i].done = sweeps
      BY <2>4, <3>5, <3>7 DEF CopyInv
    <3> QED
      BY <2>1, <2>4, <3>8 DEF CopyInv, AnswerOfOneSweep
  <2>5. CASE req'.pc = "answered" /\ req'.got = req.got
    BY <2>5 DEF CopyInv, AnswerOfOneSweep
  <2> QED
    BY <1>3, <2>2, <2>3, <2>4, <2>5, OpSteps
<1>4. CASE UNCHANGED vars
  BY <1>4 DEF vars, tasks, CopyInv, AnswerOfOneSweep
<1> QED
  BY <1>1, <1>2, <1>3, <1>4 DEF Next, Done

-----------------------------------------------------------------------------
(* The average is between the samples                                      *)

(* One good sample: the record and what has been seen of the sensor.       *)
LEMMA SampleCounted ==
  ASSUME SweepTypes, NEW w \in Watched, StatsOf(w),
         sensor.left # {}, First(sensor.left) = w, sensor.sample # None, db[w].value = sensor.sample,
         SweepUpdate
  PROVE  StatsOf(w)'
<1> DEFINE v == sensor.sample
           u == UpdateRecord(db[w], v)
           s == [min |-> IF seen[w].min = None \/ v < seen[w].min THEN v ELSE seen[w].min,
                 max |-> IF v > seen[w].max THEN v ELSE seen[w].max]
<1>1. db' = [db EXCEPT ![w] = u] /\ seen' = [seen EXCEPT ![w] = s]
  BY DEF SweepUpdate
<1>2. db \in [Watched -> DbRecord] /\ seen \in [Watched -> [min : Samples, max : Samples]] /\ v \in Nat
  BY DEF SweepTypes, Samples
<1>3. db'[w] = u /\ seen'[w] = s
  BY <1>1, <1>2
<1>4. /\ u.n = db[w].n + 1
      /\ u.max = IF v > db[w].max THEN v ELSE db[w].max
      /\ u.avg = Average(db[w].avg, v, db[w].n)
  BY <1>2, UpdateIs DEF Samples
<1>5. /\ s.min = IF seen[w].min = None \/ v < seen[w].min THEN v ELSE seen[w].min
      /\ s.max = IF v > seen[w].max THEN v ELSE seen[w].max
  OBVIOUS
<1>6. /\ db[w].max \in Nat /\ db[w].avg \in Nat /\ db[w].n \in Nat \ {0}
  BY RecordIs
<1> HIDE DEF v, u, s
<1> DEFINE a == Average(db[w].avg, v, db[w].n)
<1>7. /\ u.avg = a /\ a \in Nat
      /\ v <= db[w].avg => v <= a /\ a <= db[w].avg
      /\ db[w].avg <= v => db[w].avg <= a /\ a <= v
  <2>1. \A g, x \in Nat, n \in Nat \ {0} :
          /\ Average(g, x, n) \in Nat
          /\ x <= g => x <= Average(g, x, n) /\ Average(g, x, n) <= g
          /\ g <= x => g <= Average(g, x, n) /\ Average(g, x, n) <= x
    BY AverageBetween
  <2> QED
    BY <1>2, <1>4, <1>6, <2>1
<1> HIDE DEF a
<1>8. u.n \in Nat /\ u.n # 1
  BY <1>4, <1>6
<1>9. s.min \in Nat /\ s.max \in Nat /\ u.max = s.max /\ s.min <= u.avg /\ u.avg <= s.max
  <2>1. CASE db[w].n = 1
    <3>1. db[w].max = 0 /\ db[w].avg = 0 /\ seen[w].min = None /\ seen[w].max = None
      BY <2>1 DEF StatsOf
    <3>2. Average(0, v, 1) = v
      BY <1>2 DEF Average
    <3>3. u.avg = v
      BY <1>7, <2>1, <3>1, <3>2 DEF a
    <3>4. s.min = v /\ s.max = v /\ u.max = v
      BY <1>2, <1>4, <1>5, <3>1 DEF None
    <3> QED
      BY <1>2, <3>3, <3>4
  <2>2. CASE db[w].n # 1
    <3>1. /\ seen[w].min \in Nat /\ seen[w].max \in Nat
          /\ db[w].max = seen[w].max
          /\ seen[w].min <= db[w].avg /\ db[w].avg <= seen[w].max
      BY <2>2 DEF StatsOf
    <3> QED
      BY <1>2, <1>4, <1>5, <1>6, <1>7, <3>1 DEF None
  <2> QED
    BY <2>1, <2>2
<1> QED
  BY <1>3, <1>8, <1>9 DEF StatsOf

(* A step of the sensor task keeps the statistics of every sensor, those   *)
(* of a sensor that could not be read too.                                 *)
LEMMA StatsStep ==
  ASSUME SweepTypes, SweepInv, StatsInv, [Next]_vars
  PROVE  StatsInv'
<1>1. CASE UNCHANGED <<db, seen, sensor>>
  BY <1>1 DEF StatsInv, StatsOf
<1>2. CASE Sweep
  <2> DEFINE f == First(sensor.left)
  <2>0. db \in [Watched -> DbRecord] /\ seen \in [Watched -> [min : Samples, max : Samples]]
    BY DEF SweepTypes
  <2>1. CASE sensor'.pc # "update" /\ UNCHANGED <<db, seen>>
    BY <2>1 DEF StatsInv, StatsOf
  <2>2. CASE /\ sensor.left # {} /\ f \in Watched /\ sensor'.left = sensor.left /\ seen' = seen
             /\ \E x \in Nat : /\ db' = [db EXCEPT ![f] = [@ EXCEPT !.value = x, !.of = sweeps]]
                               /\ sensor'.sample # None => x = sensor'.sample
    <3>1. PICK x \in Nat : /\ db' = [db EXCEPT ![f] = [@ EXCEPT !.value = x, !.of = sweeps]]
                           /\ sensor'.sample # None => x = sensor'.sample
      BY <2>2
    <3>2. First(sensor'.left) = f
      BY <2>2
    <3> HIDE DEF f
    <3>3. db'[f].value = x
      BY <2>0, <2>2, <3>1 DEF DbRecord
    <3>4. ASSUME NEW w \in Watched PROVE StatsOf(w)'
      <4>1. db'[w].n = db[w].n /\ db'[w].max = db[w].max /\ db'[w].avg = db[w].avg
        BY <2>0, <2>2, <3>1 DEF DbRecord
      <4>2. StatsOf(w)
        BY DEF StatsInv
      <4> QED
        BY <2>2, <4>1, <4>2 DEF StatsOf
    <3> QED
      BY <2>2, <3>1, <3>2, <3>3, <3>4 DEF StatsInv
  <2>3. CASE /\ sensor.pc = "update" /\ f \in sensor.left /\ f \in Watched /\ SweepUpdate /\ sensor'.pc = "read"
    <3>1. ASSUME NEW w \in Watched PROVE StatsOf(w)'
      <4>0. StatsOf(w)
        BY DEF StatsInv
      <4>1. CASE w # f
        <5>1. /\ db' = [db EXCEPT ![f] = UpdateRecord(db[f], sensor.sample)]
              /\ \/ seen' = seen
                 \/ seen' = [seen EXCEPT ![f] =
                      [min |-> IF seen[f].min = None \/ sensor.sample < seen[f].min THEN sensor.sample ELSE seen[f].min,
                       max |-> IF sensor.sample > seen[f].max THEN sensor.sample ELSE seen[f].max]]
          BY <2>3 DEF SweepUpdate
        <5> HIDE DEF f
        <5>2. db'[w] = db[w] /\ seen'[w] = seen[w]
          BY <2>0, <4>1, <5>1
        <5> QED
          BY <4>0, <5>2 DEF StatsOf
      <4>2. CASE w = f /\ sensor.sample = None
        <5>1. db' = [db EXCEPT ![w] = UpdateRecord(db[w], sensor.sample)] /\ seen' = seen
          BY <2>3, <4>2 DEF SweepUpdate
        <5>2. sensor.sample \in Samples
          BY <4>2 DEF Samples
        <5>3. /\ UpdateRecord(db[w], sensor.sample).n = db[w].n
              /\ UpdateRecord(db[w], sensor.sample).max = db[w].max
              /\ UpdateRecord(db[w], sensor.sample).avg = db[w].avg
          BY <4>2, <5>2, UpdateIs
        <5>4. db'[w] = UpdateRecord(db[w], sensor.sample)
          BY <2>0, <5>1
        <5> QED
          BY <4>0, <5>1, <5>3, <5>4 DEF StatsOf
      <4>3. CASE w = f /\ sensor.sample # None
        <5>1. sensor.left # {} /\ db[w].value = sensor.sample
          BY <2>3, <4>3 DEF StatsInv
        <5> QED
          BY <2>3, <4>0, <4>3, <5>1, SampleCounted
      <4> QED
        BY <4>1, <4>2, <4>3
    <3> QED
      BY <2>3, <3>1 DEF StatsInv
  <2>4. \/ sensor'.pc # "update" /\ UNCHANGED <<db, seen>>
        \/ /\ sensor.left # {} /\ f \in Watched /\ sensor'.left = sensor.left /\ seen' = seen
           /\ \E x \in Nat : /\ db' = [db EXCEPT ![f] = [@ EXCEPT !.value = x, !.of = sweeps]]
                             /\ sensor'.sample # None => x = sensor'.sample
        \/ /\ sensor.pc = "update" /\ f \in sensor.left /\ f \in Watched /\ SweepUpdate /\ sensor'.pc = "read"
    BY <1>2, SweepSteps
  <2> HIDE DEF f
  <2> QED
    BY <2>1, <2>2, <2>3, <2>4
<1>3. CASE Startup
  BY <1>1, <1>3, StartupSteps DEF tasks
<1>4. CASE Opcode
  BY <1>1, <1>4, OpSteps
<1> QED
  BY <1>1, <1>2, <1>3, <1>4 DEF Next, Done, vars, tasks

-----------------------------------------------------------------------------
(* Sums                                                                    *)

(* MapThenSumSet, of the values of a function.                             *)
Chosen(s) == CHOOSE x \in s : TRUE
Sums(g, D, it) == it = [s \in D |-> IF s = {} THEN 0 ELSE g[Chosen(s)] + it[s \ {Chosen(s)}]]
Total(g, I) == (CHOOSE it : Sums(g, SUBSET I, it))[I]
Small(I, k) == {s \in SUBSET I : Cardinality(s) <= k}

LEMMA Taken ==
  ASSUME NEW I, IsFiniteSet(I), NEW s \in SUBSET I
  PROVE  /\ IsFiniteSet(s) /\ Cardinality(s) \in Nat /\ (Cardinality(s) = 0 <=> s = {})
         /\ \A y \in s : s \ {y} \in SUBSET I /\ Cardinality(s \ {y}) = Cardinality(s) - 1
         /\ s # {} => Chosen(s) \in s
<1>1. IsFiniteSet(s)
  BY FS_Subset
<1>2. Cardinality(s) \in Nat /\ (Cardinality(s) = 0 <=> s = {})
  BY <1>1, FS_CardinalityType, FS_EmptySet
<1>3. \A y \in s : Cardinality(s \ {y}) = Cardinality(s) - 1
  BY <1>1, FS_RemoveElement
<1> QED
  BY <1>1, <1>2, <1>3 DEF Chosen

(* The function MapThenSumSet chooses is there, for every finite set.      *)
LEMMA SumsExist ==
  ASSUME NEW g, NEW I, IsFiniteSet(I)
  PROVE  \E it : Sums(g, SUBSET I, it)
<1> DEFINE T == {k \in Nat : ~ \E it : Sums(g, Small(I, k), it)}
<1>1. T = {}
  <2> SUFFICES ASSUME T # {} PROVE FALSE
    OBVIOUS
  <2>1. PICK m \in T : \A k \in T : m <= k
    BY LeastOf
  <2>2. m \in Nat /\ ~ \E it : Sums(g, Small(I, m), it)
    BY <2>1
  <2>3. CASE m = 0
    <3> DEFINE it == [s \in Small(I, 0) |-> 0]
    <3>1. \A s \in Small(I, 0) : s = {}
      BY Taken DEF Small
    <3>2. it = [s \in Small(I, 0) |-> IF s = {} THEN 0 ELSE g[Chosen(s)] + it[s \ {Chosen(s)}]]
      BY <3>1
    <3> HIDE DEF it
    <3> QED
      BY <2>2, <2>3, <3>2 DEF Sums
  <2>4. CASE m # 0
    <3> DEFINE k == m - 1
    <3>1. k \in Nat /\ m = k + 1 /\ k \notin T
      BY <2>1, <2>2, <2>4
    <3> HIDE DEF k
    <3>2. PICK f : Sums(g, Small(I, k), f)
      BY <3>1
    <3> DEFINE h == [s \in Small(I, m) |-> IF s = {} THEN 0 ELSE g[Chosen(s)] + f[s \ {Chosen(s)}]]
    <3>3. ASSUME NEW s \in Small(I, k) PROVE h[s] = f[s]
      <4>1. s \in Small(I, m)
        BY <3>1, Taken DEF Small
      <4>2. f[s] = IF s = {} THEN 0 ELSE g[Chosen(s)] + f[s \ {Chosen(s)}]
        BY <3>2 DEF Sums
      <4> QED
        BY <4>1, <4>2
    <3>4. ASSUME NEW s \in Small(I, m), s # {} PROVE s \ {Chosen(s)} \in Small(I, k)
      BY <3>1, <3>4, Taken DEF Small
    <3>5. ASSUME NEW s \in Small(I, m), s # {} PROVE f[s \ {Chosen(s)}] = h[s \ {Chosen(s)}]
      BY <3>3, <3>4, <3>5
    <3>6. h = [s \in Small(I, m) |-> IF s = {} THEN 0 ELSE g[Chosen(s)] + h[s \ {Chosen(s)}]]
      BY <3>5
    <3> HIDE DEF h
    <3> QED
      BY <2>2, <3>6 DEF Sums
  <2> QED
    BY <2>3, <2>4
<1>2. Cardinality(I) \in Nat
  BY FS_CardinalityType
<1>3. Small(I, Cardinality(I)) = SUBSET I
  BY FS_Subset DEF Small
<1> QED
  BY <1>1, <1>2, <1>3

(* A sum is a number, and does not depend on the order.                    *)
LEMMA SumsAre ==
  ASSUME NEW g, NEW I, IsFiniteSet(I), \A i \in I : g[i] \in Nat, NEW it, Sums(g, SUBSET I, it), NEW z \in SUBSET I
  PROVE  it[z] \in Nat /\ (z = {} => it[z] = 0) /\ \A y \in z : it[z] = g[y] + it[z \ {y}]
<1> DEFINE Good(s) == it[s] \in Nat /\ (s = {} => it[s] = 0) /\ \A y \in s : it[s] = g[y] + it[s \ {y}]
           T == {Cardinality(s) : s \in {t \in SUBSET I : ~Good(t)}}
<1>a. SUFFICES ASSUME ~Good(z) PROVE FALSE
  OBVIOUS
<1>1. T \in SUBSET Nat /\ T # {}
  BY <1>a, Taken
<1>2. PICK s \in SUBSET I : ~Good(s) /\ \A t \in SUBSET I : ~Good(t) => Cardinality(s) <= Cardinality(t)
  <2>1. PICK m \in T : \A k \in T : m <= k
    BY <1>1, LeastOf
  <2> HIDE DEF Good
  <2> QED
    BY <2>1
<1>3. \A t \in SUBSET I : Cardinality(t) < Cardinality(s) => Good(t)
  <2> HIDE DEF Good
  <2> QED
    BY <1>2, Taken
<1>4. \A t \in SUBSET I : it[t] = IF t = {} THEN 0 ELSE g[Chosen(t)] + it[t \ {Chosen(t)}]
  BY DEF Sums
<1>5. s # {}
  <2>1. s = {} => it[s] = 0
    BY <1>4
  <2>2. s = {} => Good(s)
    BY <2>1
  <2> HIDE DEF Good
  <2> QED
    BY <1>2, <2>2
<1> DEFINE c == Chosen(s)
<1>6. c \in s /\ s \ {c} \in SUBSET I /\ Cardinality(s \ {c}) < Cardinality(s) /\ c \in I /\ g[c] \in Nat
  BY <1>5, Taken
<1>7. it[s] = g[c] + it[s \ {c}]
  BY <1>4, <1>5
<1> HIDE DEF c
<1>8. Good(s \ {c})
  <2> HIDE DEF Good
  <2> QED
    BY <1>3, <1>6
<1>9. it[s] \in Nat
  BY <1>6, <1>7, <1>8
<1>10. ASSUME NEW y \in s PROVE it[s] = g[y] + it[s \ {y}]
  <2>1. CASE y = c
    BY <1>7, <2>1
  <2>2. CASE y # c
    <3>1. y \in s \ {c} /\ c \in s \ {y} /\ (s \ {c}) \ {y} = (s \ {y}) \ {c} /\ y \in I
      BY <1>6, <2>2
    <3>2. s \ {y} \in SUBSET I /\ Cardinality(s \ {y}) < Cardinality(s)
      BY Taken
    <3>3. Good(s \ {y})
      <4> HIDE DEF Good
      <4> QED
        BY <1>3, <3>2
    <3> DEFINE r == (s \ {y}) \ {c}
    <3>4. it[s \ {c}] = g[y] + it[r]
      BY <1>8, <3>1
    <3>5. it[s \ {y}] = g[c] + it[r]
      BY <3>1, <3>3
    <3>6. it[r] \in Nat
      <4>1. r \in SUBSET I /\ Cardinality(r) < Cardinality(s)
        <5> DEFINE u == s \ {y}
        <5>a. u \in SUBSET I /\ c \in u /\ r = u \ {c}
          BY <3>1, <3>2
        <5> HIDE DEF r, u
        <5>b. Cardinality(r) = Cardinality(u) - 1 /\ Cardinality(u) \in Nat /\ r \in SUBSET I
          BY <5>a, Taken
        <5>c. Cardinality(s) \in Nat
          BY Taken
        <5> USE DEF u
        <5>1. /\ Cardinality(r) = Cardinality(s \ {y}) - 1 /\ Cardinality(s \ {y}) \in Nat
              /\ Cardinality(s) \in Nat /\ r \in SUBSET I
          BY <5>b, <5>c
        <5> QED
          BY <3>2, <5>1
      <4>2. Good(r)
        <5> HIDE DEF Good
        <5> QED
          BY <1>3, <4>1
      <4> QED
        BY <4>2
    <3> HIDE DEF r
    <3>7. g[y] \in Nat
      BY <3>1
    <3> QED
      BY <1>6, <1>7, <3>4, <3>5, <3>6, <3>7
  <2> QED
    BY <2>1, <2>2
<1> QED
  BY <1>2, <1>5, <1>9, <1>10

(* The sum of functions that agree.                                        *)
Alike(g, h, I, J, it, jt) ==
  /\ J \subseteq I /\ IsFiniteSet(I) /\ (\A i \in I : g[i] \in Nat) /\ (\A i \in J : h[i] = g[i])
  /\ Sums(g, SUBSET I, it) /\ Sums(h, SUBSET J, jt)
LEMMA SumsAgree ==
  ASSUME NEW g, NEW h, NEW I, NEW J, NEW it, NEW jt, Alike(g, h, I, J, it, jt), NEW z \in SUBSET J
  PROVE  it[z] = jt[z]
<1>b. /\ J \subseteq I /\ IsFiniteSet(I) /\ (\A i \in I : g[i] \in Nat) /\ (\A i \in J : h[i] = g[i])
      /\ Sums(g, SUBSET I, it) /\ Sums(h, SUBSET J, jt)
  BY DEF Alike
<1>0. IsFiniteSet(J) /\ \A i \in J : h[i] \in Nat
  BY <1>b, FS_Subset
<1> DEFINE T == {Cardinality(s) : s \in {t \in SUBSET J : it[t] # jt[t]}}
<1>a. SUFFICES ASSUME it[z] # jt[z] PROVE FALSE
  OBVIOUS
<1>1. T \in SUBSET Nat /\ T # {}
  BY <1>a, <1>0, Taken
<1>2. PICK s \in SUBSET J : it[s] # jt[s] /\ \A t \in SUBSET J : it[t] # jt[t] => Cardinality(s) <= Cardinality(t)
  <2>1. PICK m \in T : \A k \in T : m <= k
    BY <1>1, LeastOf
  <2> QED
    BY <2>1
<1>3. s \in SUBSET I
  BY <1>b
<1>4. CASE s = {}
  <2>1. it[s] = 0
    BY <1>b, <1>3, <1>4 DEF Sums
  <2>2. jt[s] = 0
    BY <1>b, <1>4 DEF Sums
  <2> QED
    BY <1>2, <2>1, <2>2
<1>5. CASE s # {}
  <2>1. PICK y : y \in s
    BY <1>5
  <2>2. s \ {y} \in SUBSET J /\ Cardinality(s \ {y}) < Cardinality(s)
    BY <1>0, <2>1, Taken
  <2>3. it[s \ {y}] = jt[s \ {y}]
    BY <1>0, <1>2, <2>2, Taken
  <2>4. it[s] = g[y] + it[s \ {y}]
    BY <1>b, <1>3, <2>1, SumsAre
  <2>5. jt[s] = h[y] + jt[s \ {y}]
    BY <1>b, <1>0, <2>1, SumsAre
  <2> QED
    BY <1>b, <1>2, <2>1, <2>3, <2>4, <2>5
<1> QED
  BY <1>4, <1>5

(* The sum over the first n numbers: one more, and how much it can be.     *)
LEMMA TotalIs ==
  ASSUME NEW g, NEW I, IsFiniteSet(I)
  PROVE  \E it : Sums(g, SUBSET I, it) /\ Total(g, I) = it[I]
BY SumsExist DEF Total

LEMMA TotalNone == \A g : Total(g, 1..0) = 0
<1> TAKE g
<1>1. 1..0 = {} /\ IsFiniteSet(1..0)
  BY FS_EmptySet
<1>2. PICK it : Sums(g, SUBSET (1..0), it) /\ Total(g, 1..0) = it[1..0]
  BY <1>1, TotalIs
<1> QED
  BY <1>1, <1>2 DEF Sums

LEMMA TotalStep ==
  ASSUME NEW n \in Nat, NEW g, NEW h, \A i \in 1..n + 1 : g[i] \in Nat, \A i \in 1..n : h[i] = g[i]
  PROVE  Total(g, 1..n + 1) = Total(h, 1..n) + g[n + 1] /\ Total(h, 1..n) \in Nat
<1> DEFINE I == 1..n + 1
           J == 1..n
<1>1. IsFiniteSet(I) /\ IsFiniteSet(J) /\ J \subseteq I /\ n + 1 \in I /\ I \ {n + 1} = J /\ J \in SUBSET J /\ I \in SUBSET I
  BY FS_Interval
<1>2. PICK it : Sums(g, SUBSET I, it) /\ Total(g, I) = it[I]
  BY <1>1, TotalIs
<1>3. PICK jt : Sums(h, SUBSET J, jt) /\ Total(h, J) = jt[J]
  BY <1>1, TotalIs
<1>4. (\A i \in I : g[i] \in Nat) /\ (\A i \in J : h[i] = g[i]) /\ \A i \in J : h[i] \in Nat
  BY <1>1
<1> HIDE DEF I, J
<1>5. it[J] = jt[J]
  <2>1. J \subseteq I /\ IsFiniteSet(I) /\ J \in SUBSET J
    BY <1>1
  <2>2. Alike(g, h, I, J, it, jt)
    BY <1>2, <1>3, <1>4, <2>1 DEF Alike
  <2> QED
    BY <2>1, <2>2, SumsAgree
<1>6. it[I] = g[n + 1] + it[I \ {n + 1}]
  BY <1>1, <1>2, <1>4, SumsAre
<1>7. jt[J] \in Nat
  BY <1>1, <1>3, <1>4, SumsAre
<1>8. n + 1 \in I => g[n + 1] \in Nat
  BY <1>4
<1>9. Total(g, I) = Total(h, J) + g[n + 1] /\ Total(h, J) \in Nat
  <2>1. it[I] = g[n + 1] + jt[J] /\ g[n + 1] \in Nat
    BY <1>1, <1>5, <1>6, <1>8
  <2> QED
    BY <1>2, <1>3, <1>7, <2>1
<1> QED
  BY <1>9 DEF I, J

LEMMA TotalBound ==
  ASSUME NEW n \in Nat, NEW b \in Nat, NEW g, \A i \in 1..n : g[i] \in 0..b
  PROVE  Total(g, 1..n) \in 0..b * n
<1> DEFINE T == {k \in 0..n : ~(Total(g, 1..k) \in 0..b * k)}
<1>a. SUFFICES ASSUME T # {} PROVE FALSE
  OBVIOUS
<1>1. T \in SUBSET Nat
  OBVIOUS
<1>2. PICK m \in T : \A k \in T : m <= k
  BY <1>a, <1>1, LeastOf
<1>3. m \in 0..n /\ ~(Total(g, 1..m) \in 0..b * m)
  BY <1>2
<1>4. m # 0
  BY <1>3, TotalNone
<1> DEFINE k == m - 1
<1>5. k \in Nat /\ k + 1 = m /\ k \in 0..n /\ k \notin T
  BY <1>2, <1>3, <1>4
<1> HIDE DEF k
<1>6. Total(g, 1..k) \in 0..b * k
  BY <1>5
<1>7. g[m] \in 0..b /\ \A i \in 1..m : g[i] \in Nat
  BY <1>3, <1>4
<1>8. Total(g, 1..m) = Total(g, 1..k) + g[m]
  BY <1>5, <1>7, TotalStep
<1>9. b * m = b * k + b /\ b * k \in Nat
  BY <1>5
<1> QED
  BY <1>3, <1>6, <1>7, <1>8, <1>9

(* What Asdm_Get_Sensor_Repository and Asdm_Get_All_Sensor_Data add up.    *)
LEMMA WrittenSum ==
  ASSUME NEW r, NEW I
  PROVE  MapThenSumSet(LAMBDA i : WrittenOf(r, rec[r][i]), I) = Total([i \in I |-> WrittenOf(r, rec[r][i])], I)
<1> DEFINE g == [i \in I |-> WrittenOf(r, rec[r][i])]
           Adding(it) == [s \in SUBSET I |->
             IF s = {} THEN 0
             ELSE WrittenOf(r, rec[r][CHOOSE x \in s : TRUE]) + it[s \ {CHOOSE x \in s : TRUE}]]
<1>1. MapThenSumSet(LAMBDA i : WrittenOf(r, rec[r][i]), I) = (CHOOSE it : it = Adding(it))[I]
  BY DEF MapThenSumSet, MapThenFoldSet
<1>2. \A it : it = Adding(it) <=> Sums(g, SUBSET I, it)
  <2> TAKE it
  <2>1. ASSUME NEW s \in SUBSET I, s # {}
        PROVE  WrittenOf(r, rec[r][CHOOSE x \in s : TRUE]) = g[Chosen(s)]
    <3>1. Chosen(s) \in I
      BY <2>1 DEF Chosen
    <3> QED
      BY <3>1 DEF Chosen
  <2>2. Adding(it) = [s \in SUBSET I |-> IF s = {} THEN 0 ELSE g[Chosen(s)] + it[s \ {Chosen(s)}]]
    BY <2>1 DEF Chosen
  <2> HIDE DEF Adding, g
  <2> QED
    BY <2>2 DEF Sums
<1> HIDE DEF Adding
<1>3. (CHOOSE it : it = Adding(it)) = CHOOSE it : Sums(g, SUBSET I, it)
  BY <1>2
<1> QED
  BY <1>1, <1>3 DEF Total

LEMMA PayloadSum ==
  ASSUME NEW r, NEW I
  PROVE  MapThenSumSet(LAMBDA i : 2 + 3 * rec[r][i].size, I) = Total([i \in I |-> 2 + 3 * rec[r][i].size], I)
<1> DEFINE g == [i \in I |-> 2 + 3 * rec[r][i].size]
           Adding(it) == [s \in SUBSET I |->
             IF s = {} THEN 0
             ELSE (2 + 3 * rec[r][CHOOSE x \in s : TRUE].size) + it[s \ {CHOOSE x \in s : TRUE}]]
<1>1. MapThenSumSet(LAMBDA i : 2 + 3 * rec[r][i].size, I) = (CHOOSE it : it = Adding(it))[I]
  BY DEF MapThenSumSet, MapThenFoldSet
<1>2. \A it : it = Adding(it) <=> Sums(g, SUBSET I, it)
  <2> TAKE it
  <2>1. ASSUME NEW s \in SUBSET I, s # {}
        PROVE  2 + 3 * rec[r][CHOOSE x \in s : TRUE].size = g[Chosen(s)]
    <3>1. Chosen(s) \in I
      BY <2>1 DEF Chosen
    <3> QED
      BY <3>1 DEF Chosen
  <2>2. Adding(it) = [s \in SUBSET I |-> IF s = {} THEN 0 ELSE g[Chosen(s)] + it[s \ {Chosen(s)}]]
    BY <2>1 DEF Chosen
  <2> HIDE DEF Adding, g
  <2> QED
    BY <2>2 DEF Sums
<1> HIDE DEF Adding
<1>3. (CHOOSE it : it = Adding(it)) = CHOOSE it : Sums(g, SUBSET I, it)
  BY <1>2
<1> QED
  BY <1>1, <1>3 DEF Total

-----------------------------------------------------------------------------
(* The layout of the database                                              *)

(* The tables of the V70 and the V80: the entry a repository begins with,  *)
(* the names an entry has, and the records the repository has before it.   *)
Starts(p, s) ==
  CASE s = 1 -> 1 [] s = 2 -> 12
    [] s \in 3..6 -> (IF p = "V70" THEN 15 ELSE 16) + s - 3
NameCount(p, c) ==
  IF p = "V70" THEN (IF c \in 15..16 THEN 3 ELSE 1)
  ELSE IF c = 14 THEN 3 ELSE IF c = 15 THEN 4 ELSE IF c \in 16..17 THEN 10 ELSE 1
Prior(p, c) ==
  IF c <= 11 THEN c - 1
  ELSE IF c <= 14 THEN c - 12
  ELSE IF p = "V80" /\ c = 15 THEN 5 ELSE 0

(* A sequence, of whatever it is.                                         *)
IsSeq(s) == Len(s) \in Nat /\ s \in Seq({s[i] : i \in 1..Len(s)})
Proper(r, s) ==
  /\ r.of = Repos[s] /\ r.name # "?"
  /\ WrittenOf(s, r) \in 0..45 /\ Footprint(Repos[s], r) = WrittenOf(s, r)
  /\ s # 1 => 2 + 3 * r.size \in 0..14

(* Where Init_Asdm is in the metadata tells how many records it has laid   *)
(* out: the two tables end each repository together.                       *)
AtEntry ==
  \/ cursor = Starts(platform, sdr + 1) /\ inst = 0 /\ idx = Count
  \/ /\ cursor \in Starts(platform, sdr)..(Starts(platform, sdr + 1) - 1)
     /\ inst < NameCount(platform, cursor) /\ idx = Prior(platform, cursor) + inst
LayoutInv ==
  platform # "VCK5000" =>
    /\ platform \in {"V70", "V80"} /\ boot \in {"repo", "record", "failed", "ready"}
    /\ DOMAIN rec = 1..5 /\ rec = [r \in 1..5 |-> rec[r]]
    /\ \A r \in 1..5 : /\ IsSeq(rec[r]) /\ Len(rec[r]) <= Counts(platform)[r]
                       /\ \A i \in 1..Len(rec[r]) : Proper(rec[r][i], r)
    /\ boot \in {"repo", "record"} => sdr \in 1..5 /\ \A r \in 1..5 : r > sdr => rec[r] = <<>>
    /\ boot = "repo" => rec[sdr] = <<>> /\ cursor = Starts(platform, sdr)
    /\ boot = "record" => Len(rec[sdr]) = idx /\ inst \in Nat /\ AtEntry

-----------------------------------------------------------------------------
(* The tables                                                              *)

Sized(size, thresholds, repo) ==
  /\ size \in 1..25 /\ (repo # "BoardInfo" => size <= 4) /\ (repo = "Temperature" => size = 2)
  /\ thresholds = IF repo = "Temperature" THEN 3 ELSE 0
Kind(e, repo, n) ==
  /\ e.repo = repo /\ Len(e.names) = n /\ \A i \in 1..n : e.names[i] # "?"
  /\ Sized(e.size, e.thresholds, repo)
AllOf(s, n, repo, k) == IsSeq(s) /\ Len(s) = n /\ \A i \in 1..n : Kind(s[i], repo, k)

(* Sequences of anything, one after the other.                             *)
LEMMA SeqIs ==
  ASSUME NEW S, NEW s \in Seq(S)
  PROVE  IsSeq(s)
<1>1. Len(s) \in Nat /\ s = [i \in 1..Len(s) |-> s[i]]
  OBVIOUS
<1> DEFINE T == {s[i] : i \in 1..Len(s)}
<1>2. \A i \in 1..Len(s) : s[i] \in T
  OBVIOUS
<1> HIDE DEF T
<1>3. [i \in 1..Len(s) |-> s[i]] \in Seq(T)
  BY <1>1, <1>2
<1> QED
  BY <1>1, <1>3 DEF IsSeq, T

LEMMA ConcatIs ==
  ASSUME NEW s, NEW t, IsSeq(s), IsSeq(t)
  PROVE  /\ IsSeq(s \o t) /\ Len(s \o t) = Len(s) + Len(t)
         /\ \A i \in 1..Len(s) + Len(t) : (s \o t)[i] = IF i <= Len(s) THEN s[i] ELSE t[i - Len(s)]
<1> DEFINE S == {s[i] : i \in 1..Len(s)} 
           T == {t[i] : i \in 1..Len(t)}
<1>1. s \in Seq(S) /\ t \in Seq(T)
  BY DEF IsSeq
<1> HIDE DEF S, T
<1>2. s \in Seq(S \cup T) /\ t \in Seq(S \cup T)
  BY <1>1, SeqMonotonic
<1> QED
  BY <1>2, SeqIs, ConcatProperties

LEMMA AppendIs ==
  ASSUME NEW s, NEW r, IsSeq(s)
  PROVE  /\ IsSeq(Append(s, r)) /\ Len(Append(s, r)) = Len(s) + 1
         /\ \A i \in 1..Len(s) + 1 : Append(s, r)[i] = IF i <= Len(s) THEN s[i] ELSE r
<1> DEFINE S == {s[i] : i \in 1..Len(s)} 
<1>1. s \in Seq(S)
  BY DEF IsSeq
<1> HIDE DEF S
<1>2. s \in Seq(S \cup {r}) /\ r \in S \cup {r}
  BY <1>1, SeqMonotonic
<1>3. Append(s, r) \in Seq(S \cup {r})
  BY <1>2
<1>4. IsSeq(Append(s, r))
  BY <1>3, SeqIs
<1> QED
  BY <1>2, <1>4

LEMMA AllConcat ==
  ASSUME NEW s, NEW t, NEW m \in Nat, NEW n \in Nat, NEW repo, NEW k, AllOf(s, m, repo, k), AllOf(t, n, repo, k)
  PROVE  AllOf(s \o t, m + n, repo, k)
<1>1. IsSeq(s) /\ IsSeq(t) /\ Len(s) = m /\ Len(t) = n
  BY DEF AllOf
<1>2. /\ IsSeq(s \o t) /\ Len(s \o t) = m + n
      /\ \A i \in 1..m + n : (s \o t)[i] = IF i <= m THEN s[i] ELSE t[i - m]
  BY <1>1, ConcatIs
<1>3. ASSUME NEW i \in 1..m + n PROVE Kind((s \o t)[i], repo, k)
  <2>1. CASE i <= m
    <3>1. i \in 1..m
      BY <2>1
    <3> QED
      BY <1>2, <2>1, <3>1 DEF AllOf
  <2>2. CASE ~(i <= m)
    <3>1. i - m \in 1..n
      BY <2>2
    <3> QED
      BY <1>2, <2>2, <3>1 DEF AllOf
  <2> QED
    BY <2>1, <2>2
<1> QED
  BY <1>2, <1>3 DEF AllOf

(* An entry with its names.                                                *)
LEMMA GroupIs ==
  ASSUME NEW repo, NEW names, NEW size, NEW thresholds, NEW n \in Nat, Sized(size, thresholds, repo),
         Len(names) = n, \A i \in 1..n : names[i] # "?"
  PROVE  Kind(Snsr(repo, names, size, thresholds), repo, n)
BY DEF Snsr, Kind

Fits(name, size) == name # "?" /\ size \in 1..25
LEMMA InfoIs ==
  ASSUME NEW name, NEW size, Fits(name, size)
  PROVE  Kind(Info(name, size), "BoardInfo", 1)
<1>1. Len(<<name>>) = 1 /\ \A i \in 1..1 : <<name>>[i] = name
  OBVIOUS
<1> QED
  BY <1>1 DEF Fits, Info, Kind, Sized

(* The board information of a card with some MAC addresses.                *)
LEMMA BoardInfoIs ==
  ASSUME NEW macs, NEW m \in Nat, Len(macs) = m, \A i \in 1..m : macs[i] # "?"
  PROVE  AllOf(BoardInfo(macs), 10 + m, "BoardInfo", 1)
<1> DEFINE x == <<Info("Product Name", 25), Info("Serial Num", 15), Info("Part Num", 25),
                  Info("Revision", 9), Info("MFG Date", 4), Info("UUID", 17)>>
           y == [i \in 1..Len(macs) |-> Info(macs[i], 7)]
           z == <<Info("fpga_fan_1", 2), Info("Active SC Ver", 4), Info("Target SC Ver", 3), Info("OEM ID", 5)>>
           Good(e) == Kind(e, "BoardInfo", 1)
<1>1. IsSeq(x) /\ Len(x) = 6 /\ \A c \in 1..6 : Good(x[c])
  <2>1. ASSUME NEW a, NEW b, NEW c, NEW d, NEW e, NEW f
        PROVE  LET s == <<a, b, c, d, e, f>>
               IN s \in Seq({a, b, c, d, e, f}) /\ Len(s) = 6 
                  /\ s[1] = a /\ s[2] = b /\ s[3] = c /\ s[4] = d /\ s[5] = e /\ s[6] = f
    OBVIOUS
  <2>2. Good(Info("Product Name", 25)) /\ Good(Info("Serial Num", 15)) /\ Good(Info("Part Num", 25))
    <3>1. Fits("Product Name", 25) /\ Fits("Serial Num", 15) /\ Fits("Part Num", 25)
      BY DEF Fits
    <3> QED
      BY <3>1, InfoIs
  <2>3. Good(Info("Revision", 9)) /\ Good(Info("MFG Date", 4)) /\ Good(Info("UUID", 17))
    <3>1. Fits("Revision", 9) /\ Fits("MFG Date", 4) /\ Fits("UUID", 17)
      BY DEF Fits
    <3> QED
      BY <3>1, InfoIs
  <2>4. /\ Len(x) = 6 /\ x[1] = Info("Product Name", 25) /\ x[2] = Info("Serial Num", 15) /\ x[3] = Info("Part Num", 25)
        /\ x[4] = Info("Revision", 9) /\ x[5] = Info("MFG Date", 4) /\ x[6] = Info("UUID", 17)
    BY <2>1
  <2>5. IsSeq(x)
    <3> DEFINE S == {Info("Product Name", 25), Info("Serial Num", 15), Info("Part Num", 25),
                     Info("Revision", 9), Info("MFG Date", 4), Info("UUID", 17)}
    <3>1. x \in Seq(S)
      OBVIOUS
    <3> HIDE DEF S
    <3> HIDE DEF x
    <3> QED
      BY <3>1, SeqIs
  <2> HIDE DEF x, Good
  <2>6. ASSUME NEW c \in 1..6 PROVE Good(x[c])
    <3>1. c = 1 \/ c = 2 \/ c = 3 \/ c = 4 \/ c = 5 \/ c = 6
      OBVIOUS
    <3> QED
      BY <2>2, <2>3, <2>4, <3>1
  <2> QED
    BY <2>4, <2>5, <2>6
<1>2. IsSeq(y) /\ Len(y) = m /\ \A c \in 1..m : Good(y[c])
  <2> DEFINE e(i) == Info(macs[i], 7)
             S == {e(i) : i \in 1..m}
  <2>1. ASSUME NEW c \in 1..m PROVE Good(e(c))
    <3>1. Fits(macs[c], 7)
      BY DEF Fits
    <3> QED
      BY <3>1, InfoIs
  <2>2. y = [i \in 1..m |-> e(i)] /\ \A i \in 1..m : e(i) \in S
    OBVIOUS
  <2> HIDE DEF y, e, S, Good
  <2>3. y \in Seq(S) /\ Len(y) = m /\ \A c \in 1..m : y[c] = e(c)
    BY <2>2
  <2> QED
    BY <2>1, <2>3, SeqIs
<1>3. IsSeq(z) /\ Len(z) = 4 /\ \A c \in 1..4 : Good(z[c])
  <2>1. ASSUME NEW a, NEW b, NEW c, NEW d
        PROVE  LET s == <<a, b, c, d>>
               IN s \in Seq({a, b, c, d}) /\ Len(s) = 4 /\ s[1] = a /\ s[2] = b /\ s[3] = c /\ s[4] = d
    OBVIOUS
  <2>2. /\ Good(Info("fpga_fan_1", 2)) /\ Good(Info("Active SC Ver", 4))
        /\ Good(Info("Target SC Ver", 3)) /\ Good(Info("OEM ID", 5))
    <3>1. Fits("fpga_fan_1", 2) /\ Fits("Active SC Ver", 4) /\ Fits("Target SC Ver", 3) /\ Fits("OEM ID", 5)
      BY DEF Fits
    <3> QED
      BY <3>1, InfoIs
  <2>3. /\ Len(z) = 4 /\ z[1] = Info("fpga_fan_1", 2) /\ z[2] = Info("Active SC Ver", 4)
        /\ z[3] = Info("Target SC Ver", 3) /\ z[4] = Info("OEM ID", 5)
    BY <2>1
  <2>4. IsSeq(z)
    <3> DEFINE S == {Info("fpga_fan_1", 2), Info("Active SC Ver", 4), Info("Target SC Ver", 3), Info("OEM ID", 5)}
    <3>1. z \in Seq(S)
      OBVIOUS
    <3> HIDE DEF S
    <3> HIDE DEF z
    <3> QED
      BY <3>1, SeqIs
  <2> HIDE DEF z, Good
  <2>5. ASSUME NEW c \in 1..4 PROVE Good(z[c])
    <3>1. c = 1 \/ c = 2 \/ c = 3 \/ c = 4
      OBVIOUS
    <3> QED
      BY <2>2, <2>3, <3>1
  <2> QED
    BY <2>3, <2>4, <2>5
<1>4. BoardInfo(macs) = (x \o y) \o z
  BY DEF BoardInfo
<1> DEFINE u == x \o y
           v == u \o z
<1> HIDE DEF x, y, z, Good
<1>5. AllOf(u, 6 + m, "BoardInfo", 1)
  <2>1. AllOf(x, 6, "BoardInfo", 1) /\ AllOf(y, m, "BoardInfo", 1)
    BY <1>1, <1>2 DEF AllOf, Good
  <2> QED
    BY <2>1, AllConcat
<1> HIDE DEF u
<1>6. AllOf(v, 10 + m, "BoardInfo", 1)
  <2>1. AllOf(z, 4, "BoardInfo", 1) /\ 6 + m \in Nat /\ 6 + m + 4 = 10 + m
    BY <1>3 DEF AllOf, Good
  <2>2. AllOf(v, 6 + m + 4, "BoardInfo", 1)
    BY <1>5, <2>1, AllConcat
  <2> QED
    BY <2>1, <2>2
<1> QED
  BY <1>4, <1>6 DEF u

(* The names of the group sensors.                                         *)
Named(s, n) == Len(s) = n /\ \A i \in 1..n : s[i] # "?"
LEMMA NamesAre ==
  /\ Named(V70Voltages, 3) /\ Named(V70Currents, 3)
  /\ Named(V80Voltages, 10) /\ Named(V80Currents, 10)
  /\ Named(V80Temperatures, 3) /\ Named(V80Cages, 4)
  /\ Named(VckVoltages, 5) /\ Named(VckCurrents, 3)
  /\ Named(<<"PCB">>, 1) /\ Named(<<"device">>, 1) /\ Named(<<"vccint">>, 1) /\ Named(<<"Total Power">>, 1)
<1>1. Named(V70Voltages, 3) /\ Named(V70Currents, 3)
  BY DEF Named, V70Voltages, V70Currents
<1>2. Named(V80Voltages, 10) /\ Named(V80Currents, 10)
  BY DEF Named, V80Voltages, V80Currents
<1>3. Named(V80Temperatures, 3) /\ Named(V80Cages, 4)
  BY DEF Named, V80Temperatures, V80Cages
<1>4. Named(<<"PCB">>, 1) /\ Named(<<"device">>, 1) /\ Named(<<"vccint">>, 1) /\ Named(<<"Total Power">>, 1)
  BY DEF Named
<1>5. Named(VckVoltages, 5) /\ Named(VckCurrents, 3)
  BY DEF Named, VckVoltages, VckCurrents
<1> QED
  BY <1>1, <1>2, <1>3, <1>4, <1>5

(* The entries of a repository in the metadata of the V70 and the V80, and *)
(* the names each has.                                                     *)
LEMMA TemperatureIs ==
  ASSUME NEW names, NEW n \in Nat, Named(names, n)
  PROVE  Kind(Temperatures(names), "Temperature", n)
<1>1. Sized(2, 3, "Temperature")
  BY DEF Sized
<1> QED
  BY <1>1, GroupIs DEF Temperatures, Named

LEMMA RailsAre ==
  ASSUME NEW v, NEW c, NEW n \in Nat, NEW k \in Nat, Named(v, n), Named(c, k)
  PROVE  /\ IsSeq(Rails(v, c)) /\ Len(Rails(v, c)) = 3
         /\ Kind(Rails(v, c)[1], "Voltage", n) /\ Kind(Rails(v, c)[2], "Current", k)
         /\ Kind(Rails(v, c)[3], "Power", 1)
<1> DEFINE x == Snsr("Voltage", v, 2, 0)
           y == Snsr("Current", c, 4, 0)
           z == Snsr("Power", <<"Total Power">>, 2, 0)
<1>1. Kind(x, "Voltage", n) /\ Kind(y, "Current", k)
  <2>1. Sized(2, 0, "Voltage") /\ Sized(4, 0, "Current")
    BY DEF Sized
  <2>2. Kind(x, "Voltage", n)
    BY <2>1, GroupIs DEF Named
  <2>3. Kind(y, "Current", k)
    BY <2>1, GroupIs DEF Named
  <2> QED
    BY <2>2, <2>3
<1>2. Kind(z, "Power", 1)
  <2>1. Sized(2, 0, "Power")
    BY DEF Sized
  <2> QED
    BY <2>1, NamesAre, GroupIs DEF Named
<1>3. Rails(v, c) = <<x, y, z>>
  BY DEF Rails
<1> HIDE DEF x, y, z
<1>4. /\ <<x, y, z>> \in Seq({x, y, z}) /\ Len(<<x, y, z>>) = 3
      /\ <<x, y, z>>[1] = x /\ <<x, y, z>>[2] = y /\ <<x, y, z>>[3] = z
  OBVIOUS
<1> QED
  BY <1>1, <1>2, <1>3, <1>4, SeqIs

(* Three sequences one after the other.                                    *)
InTurn(x, b, t, r, l, m, n) ==
  /\ Len(x) = l + m + n
  /\ \A c \in 1..l : x[c] = b[c]
  /\ \A c \in 1..m : x[l + c] = t[c]
  /\ \A c \in 1..n : x[l + m + c] = r[c]
LEMMA ThreeAre ==
  ASSUME NEW b, NEW t, NEW r, IsSeq(b), IsSeq(t), IsSeq(r), NEW l \in Nat, NEW m \in Nat, NEW n \in Nat,
         Len(b) = l, Len(t) = m, Len(r) = n
  PROVE  InTurn((b \o t) \o r, b, t, r, l, m, n)
<1> DEFINE u == b \o t
           x == u \o r
<1>1. /\ IsSeq(u) /\ Len(u) = l + m
      /\ \A i \in 1..l + m : u[i] = IF i <= l THEN b[i] ELSE t[i - l]
  BY ConcatIs
<1>2. (\A c \in 1..l : u[c] = b[c]) /\ \A c \in 1..m : u[l + c] = t[c]
  <2> HIDE DEF u
  <2>1. ASSUME NEW c \in 1..l PROVE u[c] = b[c]
    BY <1>1
  <2>2. ASSUME NEW c \in 1..m PROVE u[l + c] = t[c]
    <3>1. l + c \in 1..l + m /\ ~(l + c <= l) /\ l + c - l = c
      OBVIOUS
    <3> QED
      BY <1>1, <3>1
  <2> QED
    BY <2>1, <2>2
<1> HIDE DEF u
<1> DEFINE k == l + m
<1>3. k \in Nat /\ Len(u) = k
  BY <1>1
<1>4. /\ Len(x) = k + n
      /\ \A i \in 1..k + n : x[i] = IF i <= k THEN u[i] ELSE r[i - k]
  <2> HIDE DEF k
  <2> QED
    BY <1>1, <1>3, ConcatIs
<1> HIDE DEF x, k
<1>5. (\A c \in 1..k : x[c] = u[c]) /\ \A c \in 1..n : x[k + c] = r[c]
  <2>1. ASSUME NEW c \in 1..k PROVE x[c] = u[c]
    BY <1>3, <1>4
  <2>2. ASSUME NEW c \in 1..n PROVE x[k + c] = r[c]
    <3>1. k + c \in 1..k + n /\ ~(k + c <= k) /\ k + c - k = c
      BY <1>3
    <3>2. x[k + c] = r[k + c - k]
      BY <1>3, <1>4, <3>1
    <3> QED
      BY <3>1, <3>2
  <2> QED
    BY <2>1, <2>2
<1>6. (\A c \in 1..l : c \in 1..k) /\ \A c \in 1..m : l + c \in 1..k
  BY DEF k
<1>7. (\A c \in 1..l : x[c] = b[c]) /\ \A c \in 1..m : x[l + c] = t[c]
  BY <1>2, <1>5, <1>6
<1>8. x = (b \o t) \o r
  BY DEF x, u
<1> QED
  BY <1>4, <1>5, <1>7, <1>8 DEF k, InTurn

(* The metadata of the two cards.                                          *)
LEMMA V70Is ==
  LET x == V70Sensors
  IN /\ Len(x) = 17
     /\ \A c \in 1..11 : Kind(x[c], "BoardInfo", 1)
     /\ Kind(x[12], "Temperature", 1) /\ Kind(x[13], "Temperature", 1) /\ Kind(x[14], "Temperature", 1)
     /\ Kind(x[15], "Voltage", 3) /\ Kind(x[16], "Current", 3) /\ Kind(x[17], "Power", 1)
<1> DEFINE b == BoardInfo(<<"MAC 0">>)
           t == <<Temperatures(<<"PCB">>), Temperatures(<<"device">>), Temperatures(<<"vccint">>)>>
           r == Rails(V70Voltages, V70Currents)
           x == (b \o t) \o r
<1>1. IsSeq(b) /\ Len(b) = 11 /\ \A c \in 1..11 : Kind(b[c], "BoardInfo", 1)
  <2>1. Len(<<"MAC 0">>) = 1 /\ \A i \in 1..1 : <<"MAC 0">>[i] # "?"
    OBVIOUS
  <2>2. AllOf(b, 10 + 1, "BoardInfo", 1)
    BY <2>1, BoardInfoIs
  <2>3. 10 + 1 = 11
    OBVIOUS
  <2>4. AllOf(b, 11, "BoardInfo", 1)
    BY <2>2, <2>3
  <2> QED
    BY <2>4 DEF AllOf
<1>2. /\ Len(t) = 3
      /\ Kind(t[1], "Temperature", 1) /\ Kind(t[2], "Temperature", 1) /\ Kind(t[3], "Temperature", 1)
  BY NamesAre, TemperatureIs
<1>3. IsSeq(t)
  <2>1. t \in Seq({Temperatures(<<"PCB">>), Temperatures(<<"device">>), Temperatures(<<"vccint">>)})
    OBVIOUS
  <2> HIDE DEF t
  <2> QED
    BY <2>1, SeqIs
<1>4. IsSeq(r) /\ Len(r) = 3 /\ Kind(r[1], "Voltage", 3) /\ Kind(r[2], "Current", 3) /\ Kind(r[3], "Power", 1)
  BY NamesAre, RailsAre
<1>5. V70Sensors = x
  BY DEF V70Sensors
<1> HIDE DEF b, t, r
<1>6. /\ Len(x) = 11 + 3 + 3
      /\ \A c \in 1..11 : x[c] = b[c]
      /\ \A c \in 1..3 : x[11 + c] = t[c]
      /\ \A c \in 1..3 : x[11 + 3 + c] = r[c]
  <2>1. IsSeq(b) /\ IsSeq(t) /\ IsSeq(r) /\ Len(b) = 11 /\ Len(t) = 3 /\ Len(r) = 3
    BY <1>1, <1>2, <1>3, <1>4
  <2>2. 11 \in Nat /\ 3 \in Nat /\ 3 \in Nat
    OBVIOUS
  <2>3. InTurn(x, b, t, r, 11, 3, 3)
    BY <2>1, <2>2, ThreeAre
  <2> HIDE DEF x
  <2> QED
    BY <2>3 DEF InTurn
<1> HIDE DEF x
<1>7. x[12] = t[1] /\ x[13] = t[2] /\ x[14] = t[3] /\ x[15] = r[1] /\ x[16] = r[2] /\ x[17] = r[3]
  <2>1. x[11 + 1] = t[1] /\ x[11 + 2] = t[2] /\ x[11 + 3] = t[3]
    BY <1>6
  <2>2. x[11 + 3 + 1] = r[1] /\ x[11 + 3 + 2] = r[2] /\ x[11 + 3 + 3] = r[3]
    BY <1>6
  <2> QED
    BY <2>1, <2>2
<1>8. \A c \in 1..11 : Kind(x[c], "BoardInfo", 1)
  BY <1>1, <1>6
<1> QED
  BY <1>2, <1>4, <1>5, <1>6, <1>7, <1>8

LEMMA V80Is ==
  LET x == V80Sensors
  IN /\ Len(x) = 18
     /\ \A c \in 1..11 : Kind(x[c], "BoardInfo", 1)
     /\ Kind(x[12], "Temperature", 1) /\ Kind(x[13], "Temperature", 1)
     /\ Kind(x[14], "Temperature", 3) /\ Kind(x[15], "Temperature", 4)
     /\ Kind(x[16], "Voltage", 10) /\ Kind(x[17], "Current", 10) /\ Kind(x[18], "Power", 1)
<1> DEFINE b == BoardInfo(<<"MAC 0">>)
           t == <<Temperatures(<<"PCB">>), Temperatures(<<"vccint">>), Temperatures(V80Temperatures),
                  Temperatures(V80Cages)>>
           r == Rails(V80Voltages, V80Currents)
           x == (b \o t) \o r
<1>1. IsSeq(b) /\ Len(b) = 11 /\ \A c \in 1..11 : Kind(b[c], "BoardInfo", 1)
  <2>1. Len(<<"MAC 0">>) = 1 /\ \A i \in 1..1 : <<"MAC 0">>[i] # "?"
    OBVIOUS
  <2>2. AllOf(b, 10 + 1, "BoardInfo", 1)
    BY <2>1, BoardInfoIs
  <2>3. 10 + 1 = 11
    OBVIOUS
  <2>4. AllOf(b, 11, "BoardInfo", 1)
    BY <2>2, <2>3
  <2> QED
    BY <2>4 DEF AllOf
<1>2. /\ Len(t) = 4
      /\ Kind(t[1], "Temperature", 1) /\ Kind(t[2], "Temperature", 1)
      /\ Kind(t[3], "Temperature", 3) /\ Kind(t[4], "Temperature", 4)
  BY NamesAre, TemperatureIs
<1>3. IsSeq(t)
  <2>1. t \in Seq({Temperatures(<<"PCB">>), Temperatures(<<"vccint">>), Temperatures(V80Temperatures),
                   Temperatures(V80Cages)})
    OBVIOUS
  <2> HIDE DEF t
  <2> QED
    BY <2>1, SeqIs
<1>4. IsSeq(r) /\ Len(r) = 3 /\ Kind(r[1], "Voltage", 10) /\ Kind(r[2], "Current", 10) /\ Kind(r[3], "Power", 1)
  BY NamesAre, RailsAre
<1>5. V80Sensors = x
  BY DEF V80Sensors
<1> HIDE DEF b, t, r
<1>6. /\ Len(x) = 11 + 4 + 3
      /\ \A c \in 1..11 : x[c] = b[c]
      /\ \A c \in 1..4 : x[11 + c] = t[c]
      /\ \A c \in 1..3 : x[11 + 4 + c] = r[c]
  <2>1. IsSeq(b) /\ IsSeq(t) /\ IsSeq(r) /\ Len(b) = 11 /\ Len(t) = 4 /\ Len(r) = 3
    BY <1>1, <1>2, <1>3, <1>4
  <2>2. 11 \in Nat /\ 4 \in Nat /\ 3 \in Nat
    OBVIOUS
  <2>3. InTurn(x, b, t, r, 11, 4, 3)
    BY <2>1, <2>2, ThreeAre
  <2> HIDE DEF x
  <2> QED
    BY <2>3 DEF InTurn
<1> HIDE DEF x
<1>7. /\ x[12] = t[1] /\ x[13] = t[2] /\ x[14] = t[3] /\ x[15] = t[4]
      /\ x[16] = r[1] /\ x[17] = r[2] /\ x[18] = r[3]
  <2>1. x[11 + 1] = t[1] /\ x[11 + 2] = t[2] /\ x[11 + 3] = t[3] /\ x[11 + 4] = t[4]
    BY <1>6
  <2>2. x[11 + 4 + 1] = r[1] /\ x[11 + 4 + 2] = r[2] /\ x[11 + 4 + 3] = r[3]
    BY <1>6
  <2> QED
    BY <2>1, <2>2
<1>8. \A c \in 1..11 : Kind(x[c], "BoardInfo", 1)
  BY <1>1, <1>6
<1> QED
  BY <1>2, <1>4, <1>5, <1>6, <1>7, <1>8

(* The two tables agree: the names of the entries of a repository are as   *)
(* many as its count says.                                                 *)
Cards == {"V70", "V80"}
LEMMA ConstantsAre ==
  /\ Repos[1] = "BoardInfo" /\ Repos[2] = "Temperature" /\ Repos[3] = "Voltage" /\ Repos[4] = "Current"
  /\ Repos[5] = "Power" /\ Len(Repos) = 5
  /\ Counts("V70")[1] = 11 /\ Counts("V70")[2] = 3 /\ Counts("V70")[3] = 3 /\ Counts("V70")[4] = 3 /\ Counts("V70")[5] = 1
  /\ Counts("V80")[1] = 11 /\ Counts("V80")[2] = 9 /\ Counts("V80")[3] = 10 /\ Counts("V80")[4] = 10 /\ Counts("V80")[5] = 1
<1>1. Counts("V70") = <<11, 3, 3, 3, 1>> /\ Counts("V80") = <<11, 9, 10, 10, 1>>
  BY DEF Counts, V70Counts, V80Counts
<1> QED
  BY <1>1 DEF Repos

(* What Init_Asdm counts for a record is what is written for it later on,  *)
(* whichever entry it is of.                                               *)
RecordOf(repo, e, i) ==
  [name |-> e.names[i], size |-> ValueSize(repo, e.names[i], e), of |-> e.repo,
   thresholds |-> e.thresholds, dynamic |-> e.repo # "BoardInfo"]
LEMMA RecordFits ==
  ASSUME NEW p \in {"VCK5000", "V70", "V80"}, NEW s \in 1..5, NEW c \in 1..Len(MetaData(p)), NEW n \in Nat,
         Kind(MetaData(p)[c], Repos[s], n), NEW i \in 1..n
  PROVE  Proper(RecordOf(Repos[s], MetaData(p)[c], i), s)
<1> DEFINE e == MetaData(p)[c]
           r == RecordOf(Repos[s], e, i)
           l == Len(e.names[i])
           z == e.size
           t == e.thresholds
           u == r.size
           m == UnitLength(Repos[s])
<1>1. /\ e.repo = Repos[s] /\ Len(e.names) = n /\ e.names[i] # "?"
      /\ z \in 1..25 /\ (Repos[s] # "BoardInfo" => z <= 4) /\ (Repos[s] = "Temperature" => z = 2)
      /\ t = IF Repos[s] = "Temperature" THEN 3 ELSE 0
  BY DEF Kind, Sized
<1>2. l \in 1..13 /\ l + z <= 37
  BY <1>1, NamesAssumption
<1>3. r.name = e.names[i] /\ r.of = Repos[s] /\ r.thresholds = t /\ r.dynamic = (Repos[s] # "BoardInfo")
  BY <1>1 DEF RecordOf
<1>4. u = IF Repos[s] = "Voltage" /\ e.names[i] = "vccint" THEN 4 ELSE z
  BY DEF RecordOf, ValueSize
<1>5. /\ WrittenOf(s, r) = 2 + (l + 1) + 1 + u + 1 + m + 2 + t * u + 1 + (IF r.dynamic THEN 2 * u ELSE 0)
      /\ Footprint(Repos[s], r) = 1 + 1 + (l + 1) + 1 + u + 1 + m + 1 + 1
           + (IF Repos[s] = "BoardInfo" THEN 0 ELSE t * u) + 1 + (IF r.dynamic THEN 2 * u ELSE 0)
  BY <1>3 DEF WrittenOf, Footprint
<1> HIDE DEF e, r, l, z, t, u, m
<1> DEFINE a == WrittenOf(s, r)
           b == Footprint(Repos[s], r)
<1>6. a \in 0..45 /\ b = a /\ (s # 1 => 2 + 3 * u \in 0..14)
  <2> HIDE DEF a, b
  <2>1. CASE s = 1
    <3>1. Repos[s] = "BoardInfo" /\ Repos[s] # "Temperature" /\ Repos[s] # "Voltage"
      BY <2>1, ConstantsAre
    <3>2. u = z /\ t = 0 /\ r.dynamic = FALSE
      BY <1>1, <1>3, <1>4, <3>1
    <3>3. m = 0
      BY <3>1 DEF m, UnitLength
    <3>4. t * u = 0
      BY <1>1, <3>2
    <3>5. a = 2 + (l + 1) + 1 + z + 1 + 0 + 2 + 0 + 1 + 0
      BY <1>5, <3>2, <3>3, <3>4 DEF a
    <3>6. b = 1 + 1 + (l + 1) + 1 + z + 1 + 0 + 1 + 1 + 0 + 1 + 0
      BY <1>5, <3>1, <3>2, <3>3 DEF b
    <3> QED
      BY <1>1, <1>2, <2>1, <3>5, <3>6
  <2>2. CASE s # 1
    <3>1. Repos[s] # "BoardInfo" /\ m \in 5..8
      <4>1. s = 2 \/ s = 3 \/ s = 4 \/ s = 5
        BY <2>2
      <4> QED
        BY <4>1, ConstantsAre DEF m, UnitLength
    <3>2. z \in 1..4 /\ r.dynamic = TRUE
      <4>1. z \in 1..25 /\ z <= 4
        BY <1>1, <3>1
      <4>2. r.dynamic = TRUE
        BY <1>3, <3>1
      <4> QED
        BY <4>1, <4>2
    <3>3. (t * u = 0 /\ u \in 1..4) \/ (t * u = 6 /\ u = 2)
      <4>1. CASE Repos[s] = "Temperature"
        <5>1. z = 2 /\ t = 3 /\ Repos[s] # "Voltage"
          BY <1>1, <4>1
        <5> QED
          BY <1>4, <5>1
      <4>2. CASE Repos[s] # "Temperature"
        <5>1. t = 0
          BY <1>1, <4>2
        <5>2. u \in 1..4
          BY <1>4, <3>2
        <5> QED
          BY <5>1, <5>2
      <4> QED
        BY <4>1, <4>2
    <3> DEFINE v == t * u
    <3>4. /\ a = 2 + (l + 1) + 1 + u + 1 + m + 2 + v + 1 + 2 * u
          /\ b = 1 + 1 + (l + 1) + 1 + u + 1 + m + 1 + 1 + v + 1 + 2 * u
      BY <1>5, <3>1, <3>2 DEF a, b
    <3> HIDE DEF v
    <3>5. (v = 0 /\ u \in 1..4) \/ (v = 6 /\ u = 2)
      BY <3>3 DEF v
    <3>6. l \in 1..13 /\ m \in 5..8
      BY <1>2, <3>1
    <3> HIDE DEF u
    <3>7. CASE v = 0 /\ u \in 1..4
      BY <3>4, <3>6, <3>7
    <3>8. CASE v = 6 /\ u = 2
      BY <3>4, <3>6, <3>8
    <3> QED
      BY <3>5, <3>7, <3>8
  <2> QED
    BY <2>1, <2>2
<1>7. Proper(r, s)
  BY <1>1, <1>3, <1>6 DEF Proper, u
<1> QED
  BY <1>7 DEF r, e

LEMMA StartsAre ==
  /\ \A p \in Cards : Starts(p, 1) = 1 /\ Starts(p, 2) = 12
  /\ Starts("V70", 3) = 15 /\ Starts("V70", 4) = 16 /\ Starts("V70", 5) = 17 /\ Starts("V70", 6) = 18
  /\ Starts("V80", 3) = 16 /\ Starts("V80", 4) = 17 /\ Starts("V80", 5) = 18 /\ Starts("V80", 6) = 19
BY DEF Starts

LEMMA BeginsAt ==
  ASSUME NEW p \in Cards, NEW s \in 1..5
  PROVE  /\ Starts(p, s) \in Nat \ {0} /\ Starts(p, s + 1) \in Nat /\ Starts(p, s) < Starts(p, s + 1)
         /\ Prior(p, Starts(p, s)) = 0 /\ Counts(p)[s] \in Nat \ {0}
<1>1. p = "V70" \/ p = "V80"
  BY DEF Cards
<1>2. s = 1 \/ s = 2 \/ s = 3 \/ s = 4 \/ s = 5
  OBVIOUS
<1>3. CASE s = 1
  BY <1>1, <1>3, StartsAre, ConstantsAre DEF Prior
<1>4. CASE s = 2
  BY <1>1, <1>4, StartsAre, ConstantsAre DEF Prior
<1>5. CASE s = 3
  BY <1>1, <1>5, StartsAre, ConstantsAre DEF Prior
<1>6. CASE s = 4
  BY <1>1, <1>6, StartsAre, ConstantsAre DEF Prior
<1>7. CASE s = 5
  BY <1>1, <1>7, StartsAre, ConstantsAre DEF Prior
<1> QED
  BY <1>2, <1>3, <1>4, <1>5, <1>6, <1>7

Adds(p, s, c) ==
  /\ NameCount(p, c) \in Nat \ {0} /\ Prior(p, c) \in Nat /\ Prior(p, c) + NameCount(p, c) <= Counts(p)[s]
  /\ c + 1 = Starts(p, s + 1) => Prior(p, c) + NameCount(p, c) = Counts(p)[s]
  /\ c + 1 # Starts(p, s + 1) => Prior(p, c) + NameCount(p, c) = Prior(p, c + 1)
EntryIs(p, s, c) ==
  /\ c <= Len(MetaData(p)) /\ Kind(MetaData(p)[c], Repos[s], NameCount(p, c))
  /\ Adds(p, s, c)
LEMMA EntriesAre ==
  ASSUME NEW p \in Cards, NEW s \in 1..5, NEW c \in Starts(p, s)..(Starts(p, s + 1) - 1)
  PROVE  EntryIs(p, s, c)
<1>1. s = 1 \/ s = 2 \/ s = 3 \/ s = 4 \/ s = 5
  OBVIOUS
<1>2. CASE p = "V70"
  <2> DEFINE x == MetaData("V70")
  <2>1. /\ Len(x) = 17 /\ \A i \in 1..11 : Kind(x[i], "BoardInfo", 1)
        /\ Kind(x[12], "Temperature", 1) /\ Kind(x[13], "Temperature", 1) /\ Kind(x[14], "Temperature", 1)
        /\ Kind(x[15], "Voltage", 3) /\ Kind(x[16], "Current", 3) /\ Kind(x[17], "Power", 1)
    BY V70Is DEF MetaData
  <2> HIDE DEF x
  <2>2. CASE s = 1
    <3>1. c \in 1..11 /\ Starts("V70", s + 1) = 12
      BY <1>2, <2>2, StartsAre DEF Cards
    <3>2. Kind(x[c], Repos[s], NameCount("V70", c))
      BY <2>1, <2>2, <3>1, ConstantsAre DEF NameCount
    <3>3. Adds("V70", s, c)
      BY <2>2, <3>1, ConstantsAre DEF Adds, NameCount, Prior
    <3>4. c <= Len(x)
      BY <2>1, <3>1
    <3> QED
      BY <1>2, <3>2, <3>3, <3>4 DEF EntryIs, x
  <2>3. CASE s = 2
    <3>1. (c = 12 \/ c = 13 \/ c = 14) /\ Starts("V70", s + 1) = 15
      BY <1>2, <2>3, StartsAre DEF Cards
    <3>2. Kind(x[c], Repos[s], NameCount("V70", c))
      BY <2>1, <2>3, <3>1, ConstantsAre DEF NameCount
    <3>3. Adds("V70", s, c)
      BY <2>3, <3>1, ConstantsAre DEF Adds, NameCount, Prior
    <3>4. c <= Len(x)
      BY <2>1, <3>1
    <3> QED
      BY <1>2, <3>2, <3>3, <3>4 DEF EntryIs, x
  <2>4. CASE s = 3
    <3>1. c = 15 /\ Starts("V70", s + 1) = 16
      BY <1>2, <2>4, StartsAre DEF Cards
    <3>2. Kind(x[c], Repos[s], NameCount("V70", c))
      BY <2>1, <2>4, <3>1, ConstantsAre DEF NameCount
    <3>3. Adds("V70", s, c)
      BY <2>4, <3>1, ConstantsAre DEF Adds, NameCount, Prior
    <3>4. c <= Len(x)
      BY <2>1, <3>1
    <3> QED
      BY <1>2, <3>2, <3>3, <3>4 DEF EntryIs, x
  <2>5. CASE s = 4
    <3>1. c = 16 /\ Starts("V70", s + 1) = 17
      BY <1>2, <2>5, StartsAre DEF Cards
    <3>2. Kind(x[c], Repos[s], NameCount("V70", c))
      BY <2>1, <2>5, <3>1, ConstantsAre DEF NameCount
    <3>3. Adds("V70", s, c)
      BY <2>5, <3>1, ConstantsAre DEF Adds, NameCount, Prior
    <3>4. c <= Len(x)
      BY <2>1, <3>1
    <3> QED
      BY <1>2, <3>2, <3>3, <3>4 DEF EntryIs, x
  <2>6. CASE s = 5
    <3>1. c = 17 /\ Starts("V70", s + 1) = 18
      BY <1>2, <2>6, StartsAre DEF Cards
    <3>2. Kind(x[c], Repos[s], NameCount("V70", c))
      BY <2>1, <2>6, <3>1, ConstantsAre DEF NameCount
    <3>3. Adds("V70", s, c)
      BY <2>6, <3>1, ConstantsAre DEF Adds, NameCount, Prior
    <3>4. c <= Len(x)
      BY <2>1, <3>1
    <3> QED
      BY <1>2, <3>2, <3>3, <3>4 DEF EntryIs, x
  <2> QED
    BY <1>1, <2>2, <2>3, <2>4, <2>5, <2>6
<1>3. CASE p = "V80"
  <2> DEFINE x == MetaData("V80")
  <2>1. /\ Len(x) = 18 /\ \A i \in 1..11 : Kind(x[i], "BoardInfo", 1)
        /\ Kind(x[12], "Temperature", 1) /\ Kind(x[13], "Temperature", 1)
        /\ Kind(x[14], "Temperature", 3) /\ Kind(x[15], "Temperature", 4)
        /\ Kind(x[16], "Voltage", 10) /\ Kind(x[17], "Current", 10) /\ Kind(x[18], "Power", 1)
    BY V80Is DEF MetaData
  <2> HIDE DEF x
  <2>2. CASE s = 1
    <3>1. c \in 1..11 /\ Starts("V80", s + 1) = 12
      BY <1>3, <2>2, StartsAre DEF Cards
    <3>2. Kind(x[c], Repos[s], NameCount("V80", c))
      BY <2>1, <2>2, <3>1, ConstantsAre DEF NameCount
    <3>3. Adds("V80", s, c)
      BY <2>2, <3>1, ConstantsAre DEF Adds, NameCount, Prior
    <3>4. c <= Len(x)
      BY <2>1, <3>1
    <3> QED
      BY <1>3, <3>2, <3>3, <3>4 DEF EntryIs, x
  <2>3. CASE s = 2
    <3>1. (c = 12 \/ c = 13 \/ c = 14 \/ c = 15) /\ Starts("V80", s + 1) = 16
      BY <1>3, <2>3, StartsAre DEF Cards
    <3>2. Kind(x[c], Repos[s], NameCount("V80", c))
      BY <2>1, <2>3, <3>1, ConstantsAre DEF NameCount
    <3>3. Adds("V80", s, c)
      BY <2>3, <3>1, ConstantsAre DEF Adds, NameCount, Prior
    <3>4. c <= Len(x)
      BY <2>1, <3>1
    <3> QED
      BY <1>3, <3>2, <3>3, <3>4 DEF EntryIs, x
  <2>4. CASE s = 3
    <3>1. c = 16 /\ Starts("V80", s + 1) = 17
      BY <1>3, <2>4, StartsAre DEF Cards
    <3>2. Kind(x[c], Repos[s], NameCount("V80", c))
      BY <2>1, <2>4, <3>1, ConstantsAre DEF NameCount
    <3>3. Adds("V80", s, c)
      BY <2>4, <3>1, ConstantsAre DEF Adds, NameCount, Prior
    <3>4. c <= Len(x)
      BY <2>1, <3>1
    <3> QED
      BY <1>3, <3>2, <3>3, <3>4 DEF EntryIs, x
  <2>5. CASE s = 4
    <3>1. c = 17 /\ Starts("V80", s + 1) = 18
      BY <1>3, <2>5, StartsAre DEF Cards
    <3>2. Kind(x[c], Repos[s], NameCount("V80", c))
      BY <2>1, <2>5, <3>1, ConstantsAre DEF NameCount
    <3>3. Adds("V80", s, c)
      BY <2>5, <3>1, ConstantsAre DEF Adds, NameCount, Prior
    <3>4. c <= Len(x)
      BY <2>1, <3>1
    <3> QED
      BY <1>3, <3>2, <3>3, <3>4 DEF EntryIs, x
  <2>6. CASE s = 5
    <3>1. c = 18 /\ Starts("V80", s + 1) = 19
      BY <1>3, <2>6, StartsAre DEF Cards
    <3>2. Kind(x[c], Repos[s], NameCount("V80", c))
      BY <2>1, <2>6, <3>1, ConstantsAre DEF NameCount
    <3>3. Adds("V80", s, c)
      BY <2>6, <3>1, ConstantsAre DEF Adds, NameCount, Prior
    <3>4. c <= Len(x)
      BY <2>1, <3>1
    <3> QED
      BY <1>3, <3>2, <3>3, <3>4 DEF EntryIs, x
  <2> QED
    BY <1>1, <2>2, <2>3, <2>4, <2>5, <2>6
<1> QED
  BY <1>2, <1>3 DEF Cards

-----------------------------------------------------------------------------
(* Init_Asdm                                                               *)

(* One record more of a repository, from an entry of its own.              *)
Fills(r) ==
  /\ rec' = [rec EXCEPT ![sdr] = Append(@, r)] /\ bytes' = bytes + Footprint(Repos[sdr], r)
  /\ idx' = idx + 1 /\ UNCHANGED <<platform, sdr, blocks, boot>>
LEMMA FillStep ==
  ASSUME LayoutInv, platform # "VCK5000", FillRecord
  PROVE  LayoutInv' /\ \E r : Fills(r)
<1> DEFINE p == platform
           k == Count
           x == MetaData(p)
           e == x[cursor]
           n == NameCount(p, cursor)
           g == Len(e.names)
           r == RecordOf(Repos[sdr], e, inst + 1)
<1>1. /\ p \in Cards /\ boot = "record" /\ sdr \in 1..5 /\ idx = Len(rec[sdr]) /\ inst \in Nat /\ AtEntry
      /\ rec = [t \in 1..5 |-> rec[t]] /\ DOMAIN rec = 1..5
      /\ \A t \in 1..5 : t > sdr => rec[t] = <<>>
      /\ idx < k \/ inst > 0
  BY DEF LayoutInv, FillRecord, Cards
<1>2. \A t \in 1..5 : /\ IsSeq(rec[t]) /\ Len(rec[t]) <= Counts(p)[t]
                      /\ \A i \in 1..Len(rec[t]) : Proper(rec[t][i], t)
  BY DEF LayoutInv
<1>3. /\ Starts(p, sdr) \in Nat /\ Starts(p, sdr + 1) \in Nat /\ k \in Nat
  BY <1>1, BeginsAt DEF Count
<1>4. /\ cursor \in Starts(p, sdr)..(Starts(p, sdr + 1) - 1)
      /\ inst < n /\ idx = Prior(p, cursor) + inst
  <2> HIDE DEF k
  <2> QED
    BY <1>1, <1>3 DEF AtEntry, k
<1>5. EntryIs(p, sdr, cursor)
  BY <1>1, <1>4, EntriesAre
<1>6. ~(cursor > Len(x)) /\ Kind(e, Repos[sdr], n) /\ Adds(p, sdr, cursor) /\ cursor \in Nat
  <2>1. cursor \in Nat
    BY <1>3, <1>4
  <2>2. cursor <= Len(x)
    BY <1>5 DEF EntryIs
  <2>3. Len(x) \in Nat
    <3>1. x = V70Sensors \/ x = V80Sensors
      BY <1>1 DEF Cards, MetaData
    <3> QED
      BY <3>1, V70Is, V80Is
  <2> HIDE DEF x
  <2>4. ~(cursor > Len(x))
    BY <2>1, <2>2, <2>3
  <2> USE DEF x
  <2> QED
    BY <1>5, <2>1, <2>4 DEF EntryIs
<1>7. /\ rec' = [rec EXCEPT ![sdr] = Append(@, r)]
      /\ idx' = idx + 1
      /\ inst + 1 < g => inst' = inst + 1 /\ cursor' = cursor
      /\ ~(inst + 1 < g) => inst' = 0 /\ cursor' = cursor + 1
      /\ platform' = platform /\ sdr' = sdr /\ boot' = boot
      /\ Fills(r)
  BY <1>6 DEF FillRecord, RecordOf, Fills
<1>8. g = n /\ e.repo = Repos[sdr] /\ \A i \in 1..n : e.names[i] # "?"
  BY <1>6 DEF Kind
<1>9. n \in Nat \ {0} /\ Prior(p, cursor) \in Nat /\ Prior(p, cursor) + n <= k
  BY <1>6 DEF Adds, Count
<1>10. Proper(r, sdr)
  <2>1. inst + 1 \in 1..n
    <3> HIDE DEF n
    <3> QED
      BY <1>1, <1>4, <1>9
  <2>2. n \in Nat /\ cursor \in 1..Len(x) /\ p \in {"VCK5000", "V70", "V80"}
    <3>1. cursor \in Nat /\ cursor # 0 /\ Len(x) \in Nat
      <4>1. x = V70Sensors \/ x = V80Sensors
        BY <1>1 DEF Cards, MetaData
      <4>2. Len(x) \in Nat
        BY <4>1, V70Is, V80Is
      <4>3. Starts(p, sdr) # 0
        BY <1>1, BeginsAt
      <4> QED
        BY <1>3, <1>4, <4>2, <4>3
    <3>2. n \in Nat /\ p \in {"VCK5000", "V70", "V80"}
      BY <1>1, <1>9 DEF Cards
    <3> HIDE DEF x
    <3> QED
      BY <1>6, <3>1, <3>2
  <2> HIDE DEF n, x
  <2>3. x = MetaData(p)
    BY DEF x
  <2> QED
    BY <1>1, <1>6, <2>1, <2>2, <2>3, RecordFits
<1> HIDE DEF r, e, x
<1> DEFINE s == rec[sdr]
<1>11. /\ DOMAIN rec' = 1..5 /\ rec' = [t \in 1..5 |-> rec'[t]]
       /\ rec'[sdr] = Append(s, r) /\ \A t \in 1..5 : t # sdr => rec'[t] = rec[t]
  BY <1>1, <1>7
<1>12. /\ IsSeq(Append(s, r)) /\ Len(Append(s, r)) = idx + 1
       /\ \A i \in 1..idx + 1 : Append(s, r)[i] = IF i <= idx THEN s[i] ELSE r
  BY <1>1, <1>2, AppendIs
<1>13. idx \in Nat /\ idx + 1 <= k
  <2> HIDE DEF n, k
  <2> QED
    BY <1>1, <1>3, <1>4, <1>9
<1> DEFINE a == Append(s, r)
<1>14. \A i \in 1..idx + 1 : Proper(a[i], sdr)
  <2>1. \A i \in 1..idx : Proper(s[i], sdr)
    BY <1>1, <1>2
  <2> HIDE DEF a, s
  <2>2. \A i \in 1..idx + 1 : a[i] = IF i <= idx THEN s[i] ELSE r
    BY <1>12 DEF a
  <2> QED
    BY <1>10, <1>13, <2>1, <2>2
<1> HIDE DEF a, s
<1>15. \A t \in 1..5 : /\ IsSeq(rec'[t]) /\ Len(rec'[t]) <= Counts(p)[t]
                       /\ \A i \in 1..Len(rec'[t]) : Proper(rec'[t][i], t)
  <2> SUFFICES ASSUME NEW t \in 1..5
               PROVE  /\ IsSeq(rec'[t]) /\ Len(rec'[t]) <= Counts(p)[t]
                      /\ \A i \in 1..Len(rec'[t]) : Proper(rec'[t][i], t)
    OBVIOUS
  <2>1. CASE t # sdr
    BY <1>2, <1>11, <2>1
  <2>2. CASE t = sdr
    <3>1. rec'[t] = a /\ Len(a) = idx + 1 /\ IsSeq(a)
      BY <1>11, <1>12, <2>2 DEF a
    <3>2. idx + 1 <= Counts(p)[t]
      BY <1>13, <2>2 DEF Count
    <3> QED
      BY <1>14, <2>2, <3>1, <3>2
  <2> QED
    BY <2>1, <2>2
<1>16. AtEntry' /\ inst' \in Nat
  <2>1. CASE inst + 1 < g
    <3>1. inst' = inst + 1 /\ cursor' = cursor /\ idx' = idx + 1
      BY <1>7, <2>1
    <3>2. inst' < n
      BY <1>8, <2>1, <3>1
    <3>3. idx' = Prior(p, cursor) + inst'
      <4> HIDE DEF n, k, p
      <4> QED
        BY <1>1, <1>4, <1>9, <3>1
    <3> QED
      BY <1>1, <1>4, <1>7, <3>1, <3>2, <3>3 DEF AtEntry
  <2>2. CASE ~(inst + 1 < g)
    <3>1. inst' = 0 /\ cursor' = cursor + 1 /\ idx' = idx + 1
      BY <1>7, <2>2
    <3>2. inst + 1 = n
      <4> HIDE DEF n, g
      <4> QED
        BY <1>1, <1>4, <1>8, <1>9, <2>2
    <3>3. idx' = Prior(p, cursor) + n
      <4> HIDE DEF n, p
      <4> QED
        BY <1>1, <1>4, <1>9, <3>1, <3>2
    <3>4. CASE cursor + 1 = Starts(p, sdr + 1)
      <4>1. idx' = k
        BY <1>6, <3>3, <3>4 DEF Adds, Count
      <4> QED
        BY <1>7, <3>1, <3>4, <4>1 DEF AtEntry, Count
    <3>5. CASE cursor + 1 # Starts(p, sdr + 1)
      <4>1. idx' = Prior(p, cursor + 1)
        BY <1>6, <3>3, <3>5 DEF Adds
      <4>2. cursor + 1 \in Starts(p, sdr)..(Starts(p, sdr + 1) - 1)
        BY <1>3, <1>4, <3>5
      <4>3. 0 < NameCount(p, cursor + 1) /\ Prior(p, cursor + 1) \in Nat
        <5>1. EntryIs(p, sdr, cursor + 1)
          BY <1>1, <4>2, EntriesAre
        <5> QED
          BY <5>1 DEF EntryIs, Adds
      <4>4. idx' = Prior(p, cursor + 1) + 0
        BY <4>1, <4>3
      <4> QED
        BY <1>7, <3>1, <4>2, <4>3, <4>4 DEF AtEntry
    <3> QED
      BY <3>1, <3>4, <3>5
  <2> QED
    BY <2>1, <2>2
<1>17. Len(rec'[sdr']) = idx' /\ \A t \in 1..5 : t > sdr' => rec'[t] = <<>>
  <2>1. \A t \in 1..5 : t > sdr => t # sdr
    BY <1>1
  <2> QED
    BY <1>1, <1>7, <1>11, <1>12, <2>1
<1> QED
  BY <1>1, <1>7, <1>11, <1>15, <1>16, <1>17 DEF LayoutInv, Cards

(* A repository begins and ends where the metadata begin and end it.       *)
LEMMA EndStep ==
  ASSUME LayoutInv, platform # "VCK5000", EndRepo
  PROVE  LayoutInv' /\ idx = Count
<1> DEFINE p == platform
<1>1. /\ p \in Cards /\ boot = "record" /\ sdr \in 1..5 /\ inst = 0 /\ AtEntry
      /\ \A t \in 1..5 : t > sdr => rec[t] = <<>>
      /\ idx >= Count
  BY DEF LayoutInv, EndRepo, Cards
<1>2. /\ rec' = rec /\ platform' = platform /\ cursor' = cursor /\ sdr' = sdr + 1
      /\ boot' = IF sdr = 5 THEN "ready" ELSE "repo"
  BY ConstantsAre DEF EndRepo
<1>3. cursor = Starts(p, sdr + 1) /\ idx = Count
  <2>1. ASSUME cursor \in Starts(p, sdr)..(Starts(p, sdr + 1) - 1), idx = Prior(p, cursor) + inst
        PROVE  FALSE
    <3>1. Adds(p, sdr, cursor)
      BY <1>1, <2>1, EntriesAre DEF EntryIs
    <3>2. Prior(p, cursor) + NameCount(p, cursor) <= Count /\ Count \in Nat
          /\ NameCount(p, cursor) \in Nat \ {0} /\ Prior(p, cursor) \in Nat
      BY <1>1, <3>1, BeginsAt DEF Adds, Count
    <3>3. idx = Prior(p, cursor)
      BY <1>1, <2>1, <3>2
    <3> QED
      BY <1>1, <3>2, <3>3
  <2> QED
    BY <1>1, <2>1 DEF AtEntry
<1>4. ASSUME sdr = 5 PROVE LayoutInv'
  BY <1>1, <1>2, <1>4 DEF LayoutInv
<1>5. ASSUME sdr # 5 PROVE LayoutInv'
  <2>1. sdr' \in 1..5 /\ sdr' > sdr /\ \A t \in 1..5 : t > sdr' => t > sdr
    BY <1>1, <1>2, <1>5
  <2>2. boot' = "repo" /\ rec'[sdr'] = <<>> /\ cursor' = Starts(platform', sdr')
        /\ \A t \in 1..5 : t > sdr' => rec'[t] = <<>>
    BY <1>1, <1>2, <1>3, <1>5, <2>1
  <2> QED
    BY <1>2, <2>1, <2>2 DEF LayoutInv
<1> QED
  BY <1>3, <1>4, <1>5

LEMMA LayoutStep ==
  ASSUME LayoutInv, [Next]_vars
  PROVE  LayoutInv'
<1>0. platform' = platform
  BY DEF Next, Startup, Sweep, Opcode, Done, BeginRepo, FillRecord, EndRepo, OutOfMemory, Monitor, SweepBegin,
         SweepRead, SweepUpdate, SweepEnd, Request, RequestLock, RequestCopy, RequestAnswer, vars, layout
<1>1. SUFFICES ASSUME platform # "VCK5000" PROVE LayoutInv'
  BY <1>0 DEF LayoutInv
<1>2. CASE UNCHANGED <<layout, boot>>
  BY <1>2 DEF LayoutInv, layout, AtEntry, Count
<1>3. CASE OutOfMemory
  BY <1>3 DEF OutOfMemory, LayoutInv, layout
<1>4. CASE BeginRepo
  <2>1. /\ boot = "repo" /\ sdr \in 1..5 /\ rec[sdr] = <<>> /\ cursor = Starts(platform, sdr) /\ platform \in Cards
        /\ \A t \in 1..5 : t > sdr => rec[t] = <<>>
    BY <1>1, <1>4 DEF BeginRepo, LayoutInv, Cards
  <2>2. boot' = "record" /\ idx' = 0 /\ inst' = 0 /\ UNCHANGED <<platform, sdr, cursor, rec>>
    BY <1>4 DEF BeginRepo
  <2>3. /\ Starts(platform, sdr) \in Nat /\ Starts(platform, sdr + 1) \in Nat
        /\ Starts(platform, sdr) < Starts(platform, sdr + 1) /\ Prior(platform, cursor) = 0
    BY <2>1, BeginsAt
  <2>4. cursor \in Starts(platform, sdr)..(Starts(platform, sdr + 1) - 1)
    BY <2>1, <2>3
  <2>5. NameCount(platform, cursor) > 0
    <3>1. EntryIs(platform, sdr, cursor)
      BY <2>1, <2>4, EntriesAre
    <3> QED
      BY <3>1 DEF EntryIs, Adds
  <2>6. AtEntry'
    BY <2>2, <2>3, <2>4, <2>5 DEF AtEntry
  <2>7. Len(rec'[sdr']) = idx' /\ inst' \in Nat
    BY <2>1, <2>2
  <2> QED
    BY <1>1, <2>1, <2>2, <2>6, <2>7 DEF LayoutInv
<1>5. CASE FillRecord
  BY <1>1, <1>5, FillStep
<1>6. CASE EndRepo
  BY <1>1, <1>6, EndStep
<1>7. UNCHANGED <<layout, boot>> \/ OutOfMemory \/ BeginRepo \/ FillRecord \/ EndRepo
  BY DEF Next, Startup, Sweep, Opcode, Done, Monitor, SweepBegin,
         SweepRead, SweepUpdate, SweepEnd, Request, RequestLock, RequestCopy, RequestAnswer, vars
<1> QED
  BY <1>2, <1>3, <1>4, <1>5, <1>6, <1>7

LEMMA LayoutBegins ==
  ASSUME Init
  PROVE  LayoutInv
<1>1. /\ boot = "repo" /\ sdr = 1 /\ cursor = 1 /\ rec = [r \in 1..5 |-> <<>>] /\ platform \in Platforms
  BY ConstantsAre DEF Init
<1>2. platform # "VCK5000" => platform \in Cards
  BY <1>1, AsdmAssumption DEF Cards
<1>3. DOMAIN rec = 1..5 /\ rec = [r \in 1..5 |-> rec[r]] /\ \A r \in 1..5 : rec[r] = <<>>
  BY <1>1
<1>4. IsSeq(<<>>) /\ Len(<<>>) = 0
  <2>1. <<>> \in Seq({})
    OBVIOUS
  <2> QED
    BY <2>1, SeqIs
<1>5. ASSUME platform # "VCK5000", NEW r \in 1..5
      PROVE  IsSeq(rec[r]) /\ Len(rec[r]) <= Counts(platform)[r] /\ \A i \in 1..Len(rec[r]) : Proper(rec[r][i], r)
  <2>1. Counts(platform)[r] \in Nat
    BY <1>2, <1>5, BeginsAt
  <2> QED
    BY <1>3, <1>4, <2>1
<1>6. platform # "VCK5000" => cursor = Starts(platform, sdr)
  BY <1>1, <1>2, StartsAre
<1> QED
  BY <1>1, <1>2, <1>3, <1>5, <1>6 DEF LayoutInv, Cards

-----------------------------------------------------------------------------
(* The sizes                                                               *)

(* byteCount is what the records so far take up; a repository that is      *)
(* through has all its records, and its header says how many blocks they   *)
(* are.                                                                    *)
Lengths(s, q) == [i \in 1..Len(q) |-> WrittenOf(s, q[i])]
Full(s) ==
  /\ Len(rec[s]) = Counts(platform)[s]
  /\ blocks[s] = Blocks(Total(Lengths(s, rec[s]), 1..Len(rec[s])) + EorLength)
SizeInv ==
  platform # "VCK5000" =>
    /\ blocks = [s \in 1..5 |-> blocks[s]]
    /\ boot = "record" => bytes = Total(Lengths(sdr, rec[sdr]), 1..Len(rec[sdr]))
    /\ boot \in {"repo", "record"} => \A s \in 1..5 : s < sdr => Full(s)
    /\ boot = "ready" => \A s \in 1..5 : Full(s)

LEMMA SizeFill ==
  ASSUME LayoutInv, SizeInv, platform # "VCK5000", FillRecord
  PROVE  SizeInv'
<1>1. LayoutInv' /\ boot = "record"
  BY FillStep DEF FillRecord
<1>2. PICK r : Fills(r)
  BY FillStep
<1>3. /\ rec' = [rec EXCEPT ![sdr] = Append(@, r)] /\ bytes' = bytes + Footprint(Repos[sdr], r)
      /\ UNCHANGED <<platform, sdr, blocks, boot>>
  BY <1>2 DEF Fills
<1> DEFINE q == rec[sdr]
           a == Append(q, r)
           n == Len(q)
<1>4. /\ sdr \in 1..5 /\ IsSeq(q) /\ DOMAIN rec = 1..5
      /\ bytes = Total(Lengths(sdr, q), 1..n)
      /\ blocks = [s \in 1..5 |-> blocks[s]]
      /\ \A s \in 1..5 : s < sdr => Full(s)
  BY <1>1 DEF LayoutInv, SizeInv
<1>5. rec'[sdr] = a /\ \A s \in 1..5 : s # sdr => rec'[s] = rec[s]
  BY <1>3, <1>4
<1>6. n \in Nat /\ Len(a) = n + 1 /\ \A i \in 1..n + 1 : a[i] = IF i <= n THEN q[i] ELSE r
  BY <1>4, AppendIs DEF IsSeq
<1>7. \A i \in 1..n + 1 : Proper(a[i], sdr)
  <2>1. \A i \in 1..Len(rec'[sdr]) : Proper(rec'[sdr][i], sdr)
    BY <1>1, <1>3, <1>4 DEF LayoutInv
  <2> HIDE DEF a, n
  <2> QED
    BY <1>5, <1>6, <2>1
<1> HIDE DEF q, a, n
<1>8. /\ \A i \in 1..n + 1 : Lengths(sdr, a)[i] = WrittenOf(sdr, a[i])
      /\ \A i \in 1..n : Lengths(sdr, q)[i] = WrittenOf(sdr, q[i])
  BY <1>6 DEF Lengths, n
<1>9. n + 1 \in 1..n + 1 /\ a[n + 1] = r
  BY <1>6
<1>10. WrittenOf(sdr, r) = Footprint(Repos[sdr], r)
  BY <1>7, <1>9 DEF Proper
<1>11. Total(Lengths(sdr, a), 1..n + 1) = Total(Lengths(sdr, q), 1..n) + Lengths(sdr, a)[n + 1]
  <2> DEFINE g == Lengths(sdr, a)
             h == Lengths(sdr, q)
  <2>1. \A i \in 1..n + 1 : g[i] \in Nat
    BY <1>7, <1>8 DEF Proper
  <2>2. \A i \in 1..n : h[i] = g[i]
    <3> SUFFICES ASSUME NEW i \in 1..n PROVE h[i] = g[i]
      OBVIOUS
    <3>1. i \in 1..n + 1 /\ i <= n
      BY <1>6
    <3> QED
      BY <1>6, <1>8, <3>1
  <2> HIDE DEF g, h
  <2>3. Total(g, 1..n + 1) = Total(h, 1..n) + g[n + 1]
    BY <1>6, <2>1, <2>2, TotalStep
  <2> QED
    BY <2>3 DEF g, h
<1>12. bytes' = Total(Lengths(sdr', rec'[sdr']), 1..Len(rec'[sdr']))
  <2>1. bytes' = Total(Lengths(sdr, a), 1..n + 1)
    BY <1>3, <1>4, <1>8, <1>9, <1>10, <1>11
  <2> QED
    BY <1>3, <1>5, <1>6, <2>1
<1>13. \A s \in 1..5 : s < sdr' => Full(s)'
  BY <1>3, <1>4, <1>5 DEF Full
<1> QED
  BY <1>1, <1>3, <1>4, <1>12, <1>13 DEF SizeInv

LEMMA SizeEnd ==
  ASSUME LayoutInv, SizeInv, platform # "VCK5000", EndRepo
  PROVE  SizeInv'
<1>1. /\ blocks' = [blocks EXCEPT ![sdr] = Blocks(bytes + EorLength)] /\ sdr' = sdr + 1
      /\ boot' = (IF sdr = 5 THEN "ready" ELSE "repo")
      /\ UNCHANGED <<platform, rec>> /\ boot = "record"
  BY ConstantsAre DEF EndRepo
<1>2. /\ sdr \in 1..5 /\ Len(rec[sdr]) = idx /\ idx = Counts(platform)[sdr]
      /\ bytes = Total(Lengths(sdr, rec[sdr]), 1..Len(rec[sdr]))
      /\ blocks = [s \in 1..5 |-> blocks[s]]
      /\ \A s \in 1..5 : s < sdr => Full(s)
  BY <1>1, EndStep DEF LayoutInv, SizeInv, Count
<1>3. blocks' = [s \in 1..5 |-> blocks'[s]] /\ blocks'[sdr] = Blocks(bytes + EorLength)
      /\ \A s \in 1..5 : s # sdr => blocks'[s] = blocks[s]
  BY <1>1, <1>2
<1>4. \A s \in 1..5 : s <= sdr => Full(s)'
  <2> SUFFICES ASSUME NEW s \in 1..5, s <= sdr PROVE Full(s)'
    OBVIOUS
  <2>1. CASE s = sdr
    BY <1>1, <1>2, <1>3, <2>1 DEF Full
  <2>2. CASE s # sdr
    BY <1>1, <1>2, <1>3, <2>2 DEF Full
  <2> QED
    BY <2>1, <2>2
<1>5. \A s \in 1..5 : (s < sdr' \/ sdr = 5) => s <= sdr
  BY <1>1, <1>2
<1> QED
  BY <1>1, <1>3, <1>4, <1>5 DEF SizeInv

LEMMA SizeStep ==
  ASSUME LayoutInv, SizeInv, [Next]_vars
  PROVE  SizeInv'
<1>0. platform' = platform
  BY DEF Next, Startup, Sweep, Opcode, Done, BeginRepo, FillRecord, EndRepo, OutOfMemory, Monitor, SweepBegin,
         SweepRead, SweepUpdate, SweepEnd, Request, RequestLock, RequestCopy, RequestAnswer, vars, layout
<1>1. SUFFICES ASSUME platform # "VCK5000" PROVE SizeInv'
  BY <1>0 DEF SizeInv
<1>2. CASE UNCHANGED <<layout, boot>>
  BY <1>2 DEF SizeInv, layout, Full
<1>3. CASE OutOfMemory
  BY <1>3 DEF OutOfMemory, SizeInv, layout
<1>4. CASE BeginRepo
  <2>1. /\ boot = "repo" /\ boot' = "record" /\ bytes' = 0 /\ UNCHANGED <<platform, sdr, rec, blocks>>
    BY <1>4 DEF BeginRepo
  <2>2. rec'[sdr'] = <<>>
    BY <1>1, <2>1 DEF LayoutInv
  <2>3. Len(<<>>) = 0
    OBVIOUS
  <2>4. bytes' = Total(Lengths(sdr', rec'[sdr']), 1..Len(rec'[sdr']))
    BY <2>1, <2>2, <2>3, TotalNone
  <2>5. /\ blocks' = [s \in 1..5 |-> blocks'[s]] /\ \A s \in 1..5 : s < sdr' => Full(s)'
    BY <1>1, <2>1 DEF SizeInv, Full
  <2> QED
    BY <2>1, <2>4, <2>5 DEF SizeInv
<1>5. CASE FillRecord
  BY <1>1, <1>5, SizeFill
<1>6. CASE EndRepo
  BY <1>1, <1>6, SizeEnd
<1>7. UNCHANGED <<layout, boot>> \/ OutOfMemory \/ BeginRepo \/ FillRecord \/ EndRepo
  BY DEF Next, Startup, Sweep, Opcode, Done, Monitor, SweepBegin,
         SweepRead, SweepUpdate, SweepEnd, Request, RequestLock, RequestCopy, RequestAnswer, vars
<1> QED
  BY <1>2, <1>3, <1>4, <1>5, <1>6, <1>7

LEMMA SizeBegins ==
  ASSUME Init
  PROVE  SizeInv
<1>1. /\ boot = "repo" /\ sdr = 1 /\ blocks = [r \in 1..5 |-> 127]
  BY ConstantsAre DEF Init
<1>2. blocks = [r \in 1..5 |-> blocks[r]] /\ \A r \in 1..5 : ~(r < 1)
  BY <1>1
<1> QED
  BY <1>1, <1>2 DEF SizeInv

-----------------------------------------------------------------------------
(* The VCK5000                                                             *)

(* The tables of the VCK5000: the entry a repository begins with, the      *)
(* names an entry has, and the records the repository has before it.  The  *)
(* QSFP names overrun the temperatures, the currents are one short, and    *)
(* the metadata run out.                                                   *)
VckStarts(s) == CASE s = 1 -> 1 [] s = 2 -> 13 [] s = 3 -> 17 [] s = 4 -> 19 [] s = 5 -> 20
VckNames(c) == CASE c \in 1..15 -> 1 [] c = 16 -> 4 [] c = 17 -> 5 [] c = 18 -> 3 [] c = 19 -> 1
VckPrior(c) == CASE c \in 1..12 -> c - 1 [] c \in 13..16 -> c - 13 [] c = 17 -> 0 [] c = 18 -> 5 [] c = 19 -> 0
VckAt ==
  \/ sdr < 4 /\ cursor = VckStarts(sdr + 1) /\ inst = 0 /\ idx \in Nat /\ idx >= Count
  \/ sdr = 4 /\ cursor = 20 /\ inst = 0 /\ idx = 1
  \/ /\ cursor \in VckStarts(sdr)..(VckStarts(sdr + 1) - 1)
     /\ inst < VckNames(cursor) /\ idx = VckPrior(cursor) + inst
VckInv ==
  platform = "VCK5000" =>
    /\ boot \in {"repo", "record", "failed", "wild"}
    /\ boot \in {"repo", "record"} => sdr \in 1..4
    /\ boot = "repo" => cursor = VckStarts(sdr)
    /\ boot = "record" => inst \in Nat /\ VckAt

LEMMA VckIs ==
  LET x == VckSensors
  IN /\ Len(x) = 19
     /\ \A c \in 1..15 : Len(x[c].names) = 1
     /\ Len(x[16].names) = 4 /\ Len(x[17].names) = 5 /\ Len(x[18].names) = 3 /\ Len(x[19].names) = 1
<1> DEFINE b == BoardInfo(<<"MAC 0", "MAC 1">>)
           t == <<Temperatures(<<"PCB">>), Temperatures(<<"device">>), Temperatures(<<"vccint">>),
                  Temperatures(VckCages)>>
           r == Rails(VckVoltages, VckCurrents)
           x == (b \o t) \o r
<1>1. IsSeq(b) /\ Len(b) = 12 /\ \A c \in 1..12 : Len(b[c].names) = 1
  <2>1. Len(<<"MAC 0", "MAC 1">>) = 2 /\ \A i \in 1..2 : <<"MAC 0", "MAC 1">>[i] # "?"
    OBVIOUS
  <2>2. AllOf(b, 10 + 2, "BoardInfo", 1)
    BY <2>1, BoardInfoIs
  <2>3. 10 + 2 = 12
    OBVIOUS
  <2>4. AllOf(b, 12, "BoardInfo", 1)
    BY <2>2, <2>3
  <2> QED
    BY <2>4 DEF AllOf, Kind
<1>2. /\ Len(t) = 4
      /\ Len(t[1].names) = 1 /\ Len(t[2].names) = 1 /\ Len(t[3].names) = 1 /\ Len(t[4].names) = 4
  BY DEF Temperatures, Snsr, VckCages
<1>3. IsSeq(t)
  <2>1. t \in Seq({Temperatures(<<"PCB">>), Temperatures(<<"device">>), Temperatures(<<"vccint">>),
                   Temperatures(VckCages)})
    OBVIOUS
  <2> HIDE DEF t
  <2> QED
    BY <2>1, SeqIs
<1>4. IsSeq(r) /\ Len(r) = 3 /\ Len(r[1].names) = 5 /\ Len(r[2].names) = 3 /\ Len(r[3].names) = 1
  <2>1. /\ IsSeq(r) /\ Len(r) = 3 /\ Kind(r[1], "Voltage", 5) /\ Kind(r[2], "Current", 3)
        /\ Kind(r[3], "Power", 1)
    BY NamesAre, RailsAre
  <2> HIDE DEF r
  <2> QED
    BY <2>1 DEF Kind
<1>5. VckSensors = x
  BY DEF VckSensors
<1> HIDE DEF b, t, r
<1>6. /\ Len(x) = 12 + 4 + 3
      /\ \A c \in 1..12 : x[c] = b[c]
      /\ \A c \in 1..4 : x[12 + c] = t[c]
      /\ \A c \in 1..3 : x[12 + 4 + c] = r[c]
  <2>1. IsSeq(b) /\ IsSeq(t) /\ IsSeq(r) /\ Len(b) = 12 /\ Len(t) = 4 /\ Len(r) = 3
    BY <1>1, <1>2, <1>3, <1>4
  <2>2. 12 \in Nat /\ 4 \in Nat /\ 3 \in Nat
    OBVIOUS
  <2>3. InTurn(x, b, t, r, 12, 4, 3)
    BY <2>1, <2>2, ThreeAre
  <2> HIDE DEF x
  <2> QED
    BY <2>3 DEF InTurn
<1> HIDE DEF x
<1>7. /\ x[13] = t[1] /\ x[14] = t[2] /\ x[15] = t[3] /\ x[16] = t[4]
      /\ x[17] = r[1] /\ x[18] = r[2] /\ x[19] = r[3]
  <2>1. x[12 + 1] = t[1] /\ x[12 + 2] = t[2] /\ x[12 + 3] = t[3] /\ x[12 + 4] = t[4]
    BY <1>6
  <2>2. x[12 + 4 + 1] = r[1] /\ x[12 + 4 + 2] = r[2] /\ x[12 + 4 + 3] = r[3]
    BY <1>6
  <2> QED
    BY <2>1, <2>2
<1>8. ASSUME NEW c \in 1..15 PROVE Len(x[c].names) = 1
  <2>1. c \in 1..12 \/ c = 13 \/ c = 14 \/ c = 15
    OBVIOUS
  <2> QED
    BY <1>1, <1>2, <1>6, <1>7, <2>1
<1>9. Len(x) = 19
  BY <1>6
<1> QED
  BY <1>2, <1>4, <1>5, <1>7, <1>8, <1>9

(* What one entry adds to a repository of the VCK5000.                     *)
VckAdds(s, c) ==
  /\ c \in 1..19 /\ VckPrior(c) \in Nat /\ VckNames(c) \in Nat \ {0} /\ VckPrior(c) < VckCounts[s]
  /\ c + 1 = VckStarts(s + 1) =>
       IF s = 4 THEN c + 1 = 20 /\ VckPrior(c) + VckNames(c) = 1
                ELSE VckPrior(c) + VckNames(c) >= VckCounts[s]
  /\ c + 1 # VckStarts(s + 1) => VckPrior(c) + VckNames(c) = VckPrior(c + 1)
LEMMA VckEntries ==
  ASSUME NEW s \in 1..4, NEW c \in VckStarts(s)..(VckStarts(s + 1) - 1)
  PROVE  VckAdds(s, c)
<1>1. VckStarts(1) = 1 /\ VckStarts(2) = 13 /\ VckStarts(3) = 17 /\ VckStarts(4) = 19 /\ VckStarts(5) = 20
  BY DEF VckStarts
<1>2. VckCounts[1] = 12 /\ VckCounts[2] = 5 /\ VckCounts[3] = 6 /\ VckCounts[4] = 4
  BY DEF VckCounts
<1>3. s = 1 \/ s = 2 \/ s = 3 \/ s = 4
  OBVIOUS
<1>4. CASE s = 1
  <2>1. c \in 1..12 /\ VckStarts(s + 1) = 13 /\ VckCounts[s] = 12
    BY <1>1, <1>2, <1>4
  <2>2. VckPrior(c) = c - 1 /\ VckNames(c) = 1 /\ (c # 12 => VckPrior(c + 1) = c)
    BY <2>1 DEF VckPrior, VckNames
  <2> QED
    BY <1>4, <2>1, <2>2 DEF VckAdds
<1>5. CASE s = 2
  <2>1. c \in 13..16 /\ VckStarts(s + 1) = 17 /\ VckCounts[s] = 5
    BY <1>1, <1>2, <1>5
  <2>2. /\ VckPrior(c) = c - 13 /\ VckNames(c) = (IF c = 16 THEN 4 ELSE 1)
        /\ c # 16 => VckPrior(c + 1) = c - 12
    BY <2>1 DEF VckPrior, VckNames
  <2> QED
    BY <1>5, <2>1, <2>2 DEF VckAdds
<1>6. CASE s = 3
  <2>1. (c = 17 \/ c = 18) /\ VckStarts(s + 1) = 19 /\ VckCounts[s] = 6
    BY <1>1, <1>2, <1>6
  <2>2. VckPrior(17) = 0 /\ VckPrior(18) = 5 /\ VckNames(17) = 5 /\ VckNames(18) = 3
    BY DEF VckPrior, VckNames
  <2> QED
    BY <1>6, <2>1, <2>2 DEF VckAdds
<1>7. CASE s = 4
  <2>1. c = 19 /\ VckStarts(s + 1) = 20 /\ VckCounts[s] = 4
    BY <1>1, <1>2, <1>7
  <2>2. VckPrior(19) = 0 /\ VckNames(19) = 1
    BY DEF VckPrior, VckNames
  <2> QED
    BY <1>7, <2>1, <2>2 DEF VckAdds
<1> QED
  BY <1>3, <1>4, <1>5, <1>6, <1>7

LEMMA VckStep ==
  ASSUME VckInv, [Next]_vars
  PROVE  VckInv'
<1>0. platform' = platform
  BY DEF Next, Startup, Sweep, Opcode, Done, BeginRepo, FillRecord, EndRepo, OutOfMemory, Monitor, SweepBegin,
         SweepRead, SweepUpdate, SweepEnd, Request, RequestLock, RequestCopy, RequestAnswer, vars, layout
<1>1. SUFFICES ASSUME platform = "VCK5000" PROVE VckInv'
  BY <1>0 DEF VckInv
<1> DEFINE x == MetaData(platform)
<1>2. Counts(platform) = VckCounts /\ x = VckSensors
  BY <1>1 DEF Counts, MetaData
<1>3. CASE UNCHANGED <<layout, boot>>
  BY <1>3 DEF VckInv, layout, VckAt, Count
<1>4. CASE OutOfMemory
  BY <1>4 DEF OutOfMemory, VckInv, layout
<1>5. CASE BeginRepo
  <2>1. boot = "repo" /\ sdr \in 1..4 /\ cursor = VckStarts(sdr)
    BY <1>1, <1>5 DEF BeginRepo, VckInv
  <2>2. boot' = "record" /\ idx' = 0 /\ inst' = 0 /\ UNCHANGED <<platform, sdr, cursor>>
    BY <1>5 DEF BeginRepo
  <2>3. /\ cursor \in VckStarts(sdr)..(VckStarts(sdr + 1) - 1) /\ VckPrior(cursor) = 0
        /\ VckNames(cursor) > 0
    <3>1. sdr = 1 \/ sdr = 2 \/ sdr = 3 \/ sdr = 4
      BY <2>1
    <3> QED
      BY <2>1, <3>1 DEF VckStarts, VckPrior, VckNames
  <2>4. VckAt'
    BY <2>2, <2>3 DEF VckAt
  <2> QED
    BY <2>1, <2>2, <2>4 DEF VckInv
<1>6. CASE FillRecord
  <2>1. /\ boot = "record" /\ sdr \in 1..4 /\ inst \in Nat /\ VckAt /\ (idx < Count \/ inst > 0)
        /\ Count \in Nat
    <3>1. boot = "record" /\ sdr \in 1..4 /\ inst \in Nat /\ VckAt /\ (idx < Count \/ inst > 0)
      BY <1>1, <1>6 DEF FillRecord, VckInv
    <3> QED
      BY <1>2, <3>1 DEF Count, VckCounts
  <2>2. CASE cursor > Len(x)
    BY <1>6, <2>1, <2>2 DEF FillRecord, VckInv
  <2>3. CASE ~(cursor > Len(x))
    <3> DEFINE n == Len(x[cursor].names)
    <3>1. /\ idx' = idx + 1 /\ UNCHANGED <<platform, sdr, boot>>
          /\ inst + 1 < n => inst' = inst + 1 /\ cursor' = cursor
          /\ ~(inst + 1 < n) => inst' = 0 /\ cursor' = cursor + 1
      BY <1>6, <2>3 DEF FillRecord
    <3> HIDE DEF n
    <3>2. ~(cursor = 20)
      BY <1>2, <2>3, VckIs
    <3>3. /\ cursor \in VckStarts(sdr)..(VckStarts(sdr + 1) - 1)
          /\ inst < VckNames(cursor) /\ idx = VckPrior(cursor) + inst
      <4>1. ~(inst = 0 /\ idx \in Nat /\ idx >= Count)
        BY <2>1
      <4> QED
        BY <2>1, <3>2, <4>1 DEF VckAt
    <3>4. VckAdds(sdr, cursor)
      BY <2>1, <3>3, VckEntries
    <3>5. n = VckNames(cursor)
      <4>1. cursor \in 1..15 \/ cursor = 16 \/ cursor = 17 \/ cursor = 18 \/ cursor = 19
        BY <3>4 DEF VckAdds
      <4> QED
        BY <1>2, <4>1, VckIs DEF n, VckNames
    <3>6. /\ VckPrior(cursor) \in Nat /\ VckNames(cursor) \in Nat \ {0} /\ idx \in Nat /\ cursor \in 1..19
      BY <2>1, <3>3, <3>4 DEF VckAdds
    <3>7. CASE inst + 1 < n
      <4>1. inst' = inst + 1 /\ cursor' = cursor /\ idx' = VckPrior(cursor') + inst' /\ inst' < VckNames(cursor')
        BY <2>1, <3>1, <3>3, <3>5, <3>6, <3>7
      <4>2. VckAt'
        BY <3>1, <3>3, <4>1 DEF VckAt
      <4> QED
        BY <2>1, <3>1, <4>1, <4>2 DEF VckInv
    <3>8. CASE ~(inst + 1 < n)
      <4>1. inst' = 0 /\ cursor' = cursor + 1
        BY <3>1, <3>8
      <4>2. idx' = VckPrior(cursor) + VckNames(cursor)
        BY <2>1, <3>1, <3>3, <3>5, <3>6, <3>8
      <4>3. CASE cursor + 1 = VckStarts(sdr + 1)
        <5>1. sdr = 4 => cursor' = 20 /\ idx' = 1
          BY <3>4, <4>1, <4>2, <4>3 DEF VckAdds
        <5>2. sdr # 4 => idx' >= VckCounts[sdr]
          BY <3>4, <4>2, <4>3 DEF VckAdds
        <5>3. Count' = VckCounts[sdr]
          BY <1>2, <3>1 DEF Count
        <5>4. VckAt'
          BY <2>1, <3>1, <3>6, <4>1, <4>3, <5>1, <5>2, <5>3 DEF VckAt
        <5> QED
          BY <2>1, <3>1, <4>1, <5>4 DEF VckInv
      <4>4. CASE cursor + 1 # VckStarts(sdr + 1)
        <5>1. cursor' \in VckStarts(sdr)..(VckStarts(sdr + 1) - 1)
          <6>1. VckStarts(sdr) \in Nat /\ VckStarts(sdr + 1) \in Nat
            <7>1. sdr = 1 \/ sdr = 2 \/ sdr = 3 \/ sdr = 4
              BY <2>1
            <7> QED
              BY <7>1 DEF VckStarts
          <6> QED
            BY <3>3, <3>6, <4>1, <4>4, <6>1
        <5>2. VckAdds(sdr, cursor')
          BY <2>1, <5>1, VckEntries
        <5>3. idx' = VckPrior(cursor') /\ VckPrior(cursor') \in Nat /\ 0 < VckNames(cursor')
          BY <3>4, <4>1, <4>2, <4>4, <5>2 DEF VckAdds
        <5>4. VckAt'
          BY <3>1, <4>1, <5>1, <5>3 DEF VckAt
        <5> QED
          BY <2>1, <3>1, <4>1, <5>4 DEF VckInv
      <4> QED
        BY <4>3, <4>4
    <3> QED
      BY <3>7, <3>8
  <2> QED
    BY <2>2, <2>3
<1>7. CASE EndRepo
  <2>1. boot = "record" /\ sdr \in 1..4 /\ VckAt /\ idx >= Count /\ inst = 0
    BY <1>1, <1>7 DEF EndRepo, VckInv
  <2>2. sdr' = sdr + 1 /\ boot' = (IF sdr = 5 THEN "ready" ELSE "repo") /\ cursor' = cursor
    BY <1>7, ConstantsAre DEF EndRepo
  <2>3. sdr < 4 /\ cursor = VckStarts(sdr + 1)
    <3>1. ASSUME cursor \in VckStarts(sdr)..(VckStarts(sdr + 1) - 1), idx = VckPrior(cursor) + inst PROVE FALSE
      <4>1. VckPrior(cursor) \in Nat /\ VckPrior(cursor) < Count
        <5>1. VckAdds(sdr, cursor)
          BY <2>1, <3>1, VckEntries
        <5> QED
          BY <1>2, <5>1 DEF VckAdds, Count
      <4>2. Count \in Nat
        BY <1>2, <2>1 DEF Count, VckCounts
      <4> QED
        BY <2>1, <3>1, <4>1, <4>2
    <3>2. ASSUME sdr = 4, idx = 1 PROVE FALSE
      <4>1. Count = 4
        BY <1>2, <3>2 DEF Count, VckCounts
      <4> QED
        BY <2>1, <3>2, <4>1
    <3> QED
      BY <2>1, <3>1, <3>2 DEF VckAt
  <2>4. sdr' \in 1..4 /\ boot' = "repo" /\ cursor' = VckStarts(sdr')
    BY <2>1, <2>2, <2>3
  <2> QED
    BY <2>4 DEF VckInv
<1>8. UNCHANGED <<layout, boot>> \/ OutOfMemory \/ BeginRepo \/ FillRecord \/ EndRepo
  <2>1. Sweep \/ Opcode \/ Done \/ UNCHANGED vars => UNCHANGED <<layout, boot>>
    BY DEF Sweep, Opcode, Done, Monitor, SweepBegin, SweepRead, SweepUpdate, SweepEnd, Request, RequestLock,
           RequestCopy, RequestAnswer, vars
  <2> QED
    BY <2>1 DEF Next, Startup
<1> QED
  BY <1>3, <1>4, <1>5, <1>6, <1>7, <1>8

-----------------------------------------------------------------------------
(* The theorems                                                            *)

(* cl_vmc_init starts with no database, no sweep and no request.           *)
LEMMA InitHolds ==
  ASSUME Init
  PROVE  SweepTypes /\ AnswerInv /\ StatsInv
<1>1. SweepTypes
  <2>1. Fresh \in DbRecord
    BY DEF Fresh, DbRecord
  <2>2. req.got \in Seq(DbRecord)
    <3>1. <<>> \in Seq(DbRecord)
      OBVIOUS
    <3> QED
      BY <3>1 DEF Init, NoReq
  <2>3. /\ db = [w \in Watched |-> Fresh] /\ glvr = [w \in Watched |-> 0]
        /\ seen = [w \in Watched |-> [min |-> None, max |-> None]] /\ req = NoReq
        /\ sensor = [pc |-> "delay", left |-> {}, sample |-> None] /\ boot = "repo" /\ sweeps = 0
    BY DEF Init
  <2>4. /\ db \in [Watched -> DbRecord] /\ glvr \in [Watched -> Nat]
        /\ seen \in [Watched -> [min : Samples, max : Samples]]
    BY <2>1, <2>3 DEF Samples
  <2>5. sensor \in [pc : {"delay", "monitored", "read", "update"}, left : SUBSET Watched, sample : Samples]
    BY <2>3 DEF Samples
  <2>6. req = [pc |-> req.pc, cmd |-> req.cmd, repo |-> req.repo, left |-> req.left,
               got |-> req.got, size |-> req.size]
    BY <2>3 DEF NoReq
  <2> QED
    BY <2>2, <2>3, <2>4, <2>5, <2>6 DEF SweepTypes
<1>2. LockInv /\ BootInv /\ SweepInv /\ StatsInv
  BY DEF Init, NoReq, Fresh, LockInv, BootInv, SweepInv, StatsInv, StatsOf, Here
<1>3. CopyInv /\ AnswerOfOneSweep
  BY DEF Init, NoReq, CopyInv, AnswerOfOneSweep
<1> QED
  BY <1>1, <1>2, <1>3 DEF AnswerInv

(* The types, and the order of the sweep and the answers around the lock.  *)
LEMMA Invariants ==
  Spec => [](SweepTypes /\ AnswerInv /\ StatsInv)
<1>1. Init => SweepTypes /\ AnswerInv /\ StatsInv
  BY InitHolds
<1>2. SweepTypes /\ AnswerInv /\ StatsInv /\ [Next]_vars => (SweepTypes /\ AnswerInv /\ StatsInv)'
  BY TypeStep, LockStep, BootStep, SweepStep, CopyStep, StatsStep DEF AnswerInv
<1> QED
  BY <1>1, <1>2, PTL DEF Spec

(* The records the host gets in one answer of cl_vmc_sensor_request are    *)
(* all of the same sweep of Asdm_Update_Sensors, and all accounted for in  *)
(* it: sdr_lock keeps the answer out of the sweep, however many sensors    *)
(* there are and whichever of them fail.                                   *)
THEOREM AnswersOfOneSweep == Spec => []AnswerOfOneSweep
<1>1. AnswerInv => AnswerOfOneSweep
  BY DEF AnswerInv
<1> QED
  BY <1>1, Invariants, PTL

(* The maximum Update_Sensor_Value keeps is the greatest good sample and   *)
(* its running average lies between the least and the greatest, after any  *)
(* number of samples of any size.                                          *)
THEOREM AverageIsBetween == Spec => []AverageWithinSamples
<1>1. SweepTypes /\ StatsInv => AverageWithinSamples
  <2> SUFFICES ASSUME SweepTypes, StatsInv, NEW w \in Watched, db[w].n > 1
               PROVE  db[w].max = seen[w].max /\ db[w].avg \in seen[w].min..seen[w].max
    BY DEF AverageWithinSamples
  <2>1. db[w].n \in Nat /\ db[w].avg \in Nat
    BY RecordIs
  <2>2. db[w].n # 1
    BY <2>1
  <2>3. /\ seen[w].min \in Nat /\ seen[w].max \in Nat
        /\ db[w].max = seen[w].max
        /\ seen[w].min <= db[w].avg /\ db[w].avg <= seen[w].max
    BY <2>2 DEF StatsInv, StatsOf
  <2> QED
    BY <2>1, <2>3
<1> QED
  BY <1>1, Invariants, PTL

(* On the V70 and the V80, every record Init_Asdm lays out describes a     *)
(* sensor of the repository it is in, within the array allocated for its   *)
(* count, and the metadata never run out: the two tables that Init_Asdm    *)
(* reads side by side agree.                                               *)
THEOREM RecordsAreInPlace == Spec => []RecordsInPlace
<1>1. LayoutInv => RecordsInPlace
  BY ConstantsAre DEF LayoutInv, RecordsInPlace, Proper
<1>2. Init => LayoutInv
  BY LayoutBegins
<1>3. LayoutInv /\ [Next]_vars => LayoutInv'
  BY LayoutStep
<1> QED
  BY <1>1, <1>2, <1>3, PTL DEF Spec

(* The host is told the size of what it is given: what Init_Asdm counts of *)
(* the records of a repository is what Asdm_Get_Sensor_Repository writes   *)
(* for them, rounded up to a block, within the response buffer.  On the    *)
(* VCK5000, whose metadata run out, there is nobody to tell.               *)
THEOREM SizesDoAgree == Spec => []SizesAgree
<1>1. LayoutInv /\ SizeInv /\ VckInv => SizesAgree
  <2> SUFFICES ASSUME LayoutInv, SizeInv, VckInv, boot = "ready", NEW r \in 1..5
               PROVE  /\ DeclaredSize(r) - Written(r) \in 0..7
                      /\ 1 + Written(r) <= RespBuffer
                      /\ Repos[r] \in Dynamic => Payload(r) < 256
    BY ConstantsAre DEF SizesAgree
  <2>1. platform \in Cards
    BY DEF VckInv, LayoutInv, Cards
  <2> DEFINE q == rec[r]
             k == Counts(platform)[r]
             g == Lengths(r, q)
             h == [i \in 1..k |-> 2 + 3 * rec[r][i].size]
  <2>2. k \in 0..11 /\ (r # 1 => k \in 0..10)
    <3>1. r = 1 \/ r = 2 \/ r = 3 \/ r = 4 \/ r = 5
      OBVIOUS
    <3> QED
      BY <2>1, <3>1, ConstantsAre DEF Cards
  <2>3. /\ Len(q) = k /\ blocks[r] = Blocks(Total(g, 1..k) + EorLength)
        /\ \A i \in 1..k : Proper(q[i], r)
    BY <2>1 DEF LayoutInv, SizeInv, Full, Cards
  <2>4. \A i \in 1..k : g[i] \in 0..45
    BY <2>3 DEF Proper, Lengths
  <2>5. g = [i \in 1..k |-> WrittenOf(r, rec[r][i])]
    BY <2>3 DEF Lengths
  <2>6. Written(r) = HeaderLength + Total(g, 1..k) + EorLength
    BY <2>5, WrittenSum DEF Written
  <2> HIDE DEF g, k
  <2>7. Total(g, 1..k) \in 0..45 * k
    <3>1. k \in Nat /\ 45 \in Nat
      BY <2>2
    <3> QED
      BY <2>4, <3>1, TotalBound
  <2> DEFINE t == Total(g, 1..k)
  <2>8. t \in 0..495
    <3>1. t \in 0..45 * k
      BY <2>7
    <3> HIDE DEF t
    <3>2. 45 * k <= 495 /\ 45 * k \in Nat
      BY <2>2
    <3> QED
      BY <3>1, <3>2
  <2>9. DeclaredSize(r) - Written(r) \in 0..7 /\ 1 + Written(r) <= RespBuffer
    <3>1. blocks[r] = Blocks(t + 3) /\ Written(r) = 4 + t + 3 /\ DeclaredSize(r) = 4 + 8 * blocks[r]
      BY <2>3, <2>6 DEF DeclaredSize, HeaderLength, EorLength
    <3> HIDE DEF t
    <3> DEFINE d == (t + 10) \div 8
    <3>2. d \in 0..63 /\ 8 * d \in t + 3..t + 10
      BY <2>8
    <3>3. blocks[r] = d % 256
      <4>1. t + 3 + 7 = t + 10
        BY <2>8
      <4> QED
        BY <3>1, <4>1 DEF Blocks
    <3> HIDE DEF d
    <3>4. blocks[r] = d
      BY <3>2, <3>3
    <3> QED
      BY <2>8, <3>1, <3>2, <3>4 DEF RespBuffer
  <2>10. ASSUME Repos[r] \in Dynamic PROVE Payload(r) < 256
    <3>1. r # 1
      BY <2>10, ConstantsAre DEF Dynamic
    <3>2. \A i \in 1..k : h[i] \in 0..14
      BY <2>3, <3>1 DEF Proper
    <3>3. Payload(r) = Total(h, 1..k)
      BY PayloadSum DEF Payload, k
    <3> HIDE DEF h
    <3>4. k \in Nat /\ 14 \in Nat /\ k <= 10
      BY <2>2, <3>1
    <3>5. Total(h, 1..k) \in 0..14 * k
      BY <3>2, <3>4, TotalBound
    <3> QED
      BY <3>3, <3>4, <3>5
  <2> QED
    BY <2>9, <2>10
<1>2. Init => LayoutInv /\ SizeInv /\ VckInv
  <2>1. Init => VckInv
    BY DEF Init, VckInv, VckStarts
  <2> QED
    BY <2>1, LayoutBegins, SizeBegins
<1>3. LayoutInv /\ SizeInv /\ VckInv /\ [Next]_vars => (LayoutInv /\ SizeInv /\ VckInv)'
  BY LayoutStep, SizeStep, VckStep
<1> QED
  BY <1>1, <1>2, <1>3, PTL DEF Spec

=============================================================================
