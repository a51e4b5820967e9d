-------------------------------- MODULE Asdm --------------------------------
(***************************************************************************)
(* The sensor database (vmc/vmc_asdm.c): the records Init_Asdm lays out    *)
(* from the tables of the platform, the sweep of the sensor task that      *)
(* fills them, and the requests of the host the opcode task answers from   *)
(* them.                                                                   *)
(*                                                                         *)
(* The layout is that of the real tables.  Values are followed for the     *)
(* sensors in Watched only; a record does not depend on any other.         *)
(***************************************************************************)
EXTENDS Integers, Sequences, FiniteSetsExt

CONSTANTS
  Platforms,  \* the cards: a subset of {"VCK5000", "V70", "V80"}
  Watched,    \* sensors whose values are followed: <<repository, place>>
  Values,     \* values a sensor is read with
  MaxSweeps,  \* sweeps of the sensor task
  MaxReqs     \* requests of the host

None == -1
Repos == <<"BoardInfo", "Temperature", "Voltage", "Current", "Power">>
Dynamic == {"Temperature", "Voltage", "Current", "Power"}

ASSUME AsdmAssumption ==
  /\ Platforms \subseteq {"VCK5000", "V70", "V80"}
  /\ Watched \subseteq Dynamic \X (Nat \ {0})
  /\ Values \subseteq Nat \ {0}
  /\ {MaxSweeps, MaxReqs} \subseteq Nat

-----------------------------------------------------------------------------
(* The tables.                                                             *)

Info(name, size) == [repo |-> "BoardInfo", names |-> <<name>>, size |-> size, thresholds |-> 0]
Snsr(repo, names, size, thresholds) ==
  [repo |-> repo, names |-> names, size |-> size, thresholds |-> thresholds]

(* Group sensors: one entry of the table, one record for each name. *)
VckVoltages == <<"12v_pex", "3v3_pex", "3v3_aux", "12v_aux_0", "12v_aux_1">>
VckCurrents == <<"12v_pex", "12v_aux_0", "12v_aux_1">>
V70Voltages == <<"12v_pex", "3v3_pex", "vccint">>
V70Currents == <<"12v_pex", "3v3_pex", "vccint">>
V80Temperatures == <<"VCCHBM", "1V2VCCODIMM", "1V2GTXAVTT">>
V80Voltages ==
  <<"12v_pex", "3v3_pex", "vccint", "1V5_VCC_AUX", "3V3QSFP", "12VAUX0", "12VAUX1",
    "VCC_HBM", "1V2_VCCO_DIMM", "1V2_GTXAVTT">>
V80Currents == V80Voltages
(* QSFP_MAX_NUM names, whatever the card has; those the VCK5000 has no     *)
(* name for are whatever lies behind its table.                            *)
VckCages == <<"cage_temp_0", "cage_temp_1", "?", "?">>
V80Cages == <<"cage_temp_0", "cage_temp_1", "cage_temp_2", "cage_temp_3">>

(* The entries of snsrMetaData each card lists as supported, in order. *)
BoardInfo(macs) ==
  <<Info("Product Name", 25), Info("Serial Num", 15), Info("Part Num", 25),
    Info("Revision", 9), Info("MFG Date", 4), Info("UUID", 17)>>
  \o [i \in 1..Len(macs) |-> Info(macs[i], 7)]
  \o <<Info("fpga_fan_1", 2), Info("Active SC Ver", 4), Info("Target SC Ver", 3), Info("OEM ID", 5)>>
Temperatures(names) == Snsr("Temperature", names, 2, 3)
Rails(voltages, currents) ==
  <<Snsr("Voltage", voltages, 2, 0), Snsr("Current", currents, 4, 0),
    Snsr("Power", <<"Total Power">>, 2, 0)>>

VckSensors ==
  BoardInfo(<<"MAC 0", "MAC 1">>)
  \o <<Temperatures(<<"PCB">>), Temperatures(<<"device">>), Temperatures(<<"vccint">>),
       Temperatures(VckCages)>>
  \o Rails(VckVoltages, VckCurrents)
V70Sensors ==
  BoardInfo(<<"MAC 0">>)
  \o <<Temperatures(<<"PCB">>), Temperatures(<<"device">>), Temperatures(<<"vccint">>)>>
  \o Rails(V70Voltages, V70Currents)
V80Sensors ==
  BoardInfo(<<"MAC 0">>)
  \o <<Temperatures(<<"PCB">>), Temperatures(<<"vccint">>), Temperatures(V80Temperatures),
       Temperatures(V80Cages)>>
  \o Rails(V80Voltages, V80Currents)
MetaData(p) == CASE p = "VCK5000" -> VckSensors [] p = "V70" -> V70Sensors [] p = "V80" -> V80Sensors

(* How long the names are: no provers know the length of a string, so that *)
(* it is stated here, of every entry of the three tables.                  *)
ASSUME NamesAssumption ==
  \A p \in {"VCK5000", "V70", "V80"} : \A c \in 1..Len(MetaData(p)) :
    LET e == MetaData(p)[c]
    IN \A i \in 1..Len(e.names) : Len(e.names[i]) \in 1..13 /\ Len(e.names[i]) + e.size <= 37

(* The number of records of each repository. *)
VckCounts == <<12, 5, 5 + 1, 4, 1>>
V70Counts == <<11, 3, 3, 3, 1>>
(* Seeded fault: the last QSFP cage of the V80 is not counted. *)
V80CountsShort == <<11, 8, 10, 10, 1>>
V80Counts == <<11, 9, 10, 10, 1>>
Counts(p) == CASE p = "VCK5000" -> VckCounts [] p = "V70" -> V70Counts [] p = "V80" -> V80Counts

UnitLength(repo) ==
  CASE repo = "BoardInfo" -> 0 [] repo = "Temperature" -> 8 [] repo = "Voltage" -> 6
    [] repo = "Current" -> 5 [] repo = "Power" -> 6

HeaderLength == 4  \* sizeof(Asdm_Header_t)
EorLength == 3     \* "END"
RespBuffer == 512  \* SENSOR_RESP_BUFFER_SIZE
-----------------------------------------------------------------------------
VARIABLES
  platform,
  boot,    \* where cl_vmc_init is: "repo", "record", "failed", "wild" or "ready"
  sdr, idx, inst,  \* repository, record and instance Init_Asdm is at
  cursor,  \* totalRecords: the entry of the metadata it is at
  rec,     \* sdrInfo: the records of each repository
  bytes,   \* byteCount
  blocks,  \* no_of_bytes of each header
  lock,    \* the task that holds sdr_lock, or "none"
  glvr,    \* sensor_glvr: the readings the monitor of the platform has taken
  db,      \* the values of the watched sensors
  sensor,  \* the sensor task: pc, the sensors it has still to read, the sample it has read
  sweeps,  \* sweeps begun
  req,     \* the request the opcode task is at
  reqs,    \* requests so far
  seen     \* the least and the greatest good sample of each watched sensor

layout == <<platform, sdr, idx, inst, cursor, rec, bytes, blocks>>
tasks  == <<lock, glvr, db, sensor, sweeps, req, reqs, seen>>
vars   == <<layout, boot, tasks>>

NoReq == [pc |-> "idle", cmd |-> "none", repo |-> "none", left |-> {}, got |-> <<>>, size |-> 0]
Fresh == [value |-> 0, of |-> 0, ok |-> TRUE, max |-> 0, avg |-> 0, n |-> 1, done |-> 0]

Init ==
  /\ platform \in Platforms
  /\ boot = "repo" /\ sdr = 1 /\ idx = 0 /\ inst = 0 /\ cursor = 1
  /\ rec = [r \in 1..Len(Repos) |-> <<>>] /\ bytes = 0 /\ blocks = [r \in 1..Len(Repos) |-> 127]
  /\ lock = "none" /\ glvr = [w \in Watched |-> 0] /\ db = [w \in Watched |-> Fresh]
  /\ sensor = [pc |-> "delay", left |-> {}, sample |-> None] /\ sweeps = 0
  /\ req = NoReq /\ reqs = 0
  /\ seen = [w \in Watched |-> [min |-> None, max |-> None]]

-----------------------------------------------------------------------------
(* Init_Asdm.                                                              *)

Count == Counts(platform)[sdr]

(* pvPortMalloc can fail for every piece of every record.  What was        *)
(* allocated before stays; the card runs on without the VMC services.      *)
OutOfMemory ==
  /\ boot \in {"repo", "record"}
  /\ boot' = "failed"
  /\ UNCHANGED <<layout, tasks>>

BeginRepo ==
  /\ boot = "repo" /\ sdr <= Len(Repos)
  /\ boot' = "record"
  /\ idx' = 0 /\ inst' = 0 /\ bytes' = 0
  /\ UNCHANGED <<platform, sdr, cursor, rec, blocks, tasks>>

ValueSize(repo, name, entry) ==
  IF repo = "Voltage" /\ name = "vccint" THEN 4 ELSE entry.size
(* Seeded fault: the maximum and the average are not counted. *)
FootprintStatic(repo, r) ==
  1 + 1 + (Len(r.name) + 1) + 1 + r.size + 1 + UnitLength(repo) + 1 + 1
  + (IF repo = "BoardInfo" THEN 0 ELSE r.thresholds * r.size) + 1
(* What Init_Asdm adds to byteCount for a record. *)
Footprint(repo, r) ==
  1 + 1 + (Len(r.name) + 1) + 1 + r.size + 1 + UnitLength(repo) + 1 + 1
  + (IF repo = "BoardInfo" THEN 0 ELSE r.thresholds * r.size) + 1 + (IF r.dynamic THEN 2 * r.size ELSE 0)

(* One record, from instance inst of the metadata entry at the cursor.     *)
(* Beyond the metadata there is nothing defined to take a record from.     *)
FillRecord ==
  /\ boot = "record" /\ (idx < Count \/ inst > 0)
  /\ IF cursor > Len(MetaData(platform))
     THEN boot' = "wild" /\ UNCHANGED layout
     ELSE LET entry == MetaData(platform)[cursor]
              name  == entry.names[inst + 1]
              r == [name |-> name, size |-> ValueSize(Repos[sdr], name, entry), of |-> entry.repo,
                    thresholds |-> entry.thresholds, dynamic |-> entry.repo # "BoardInfo"]
          IN /\ rec' = [rec EXCEPT ![sdr] = Append(@, r)]
             /\ bytes' = bytes + Footprint(Repos[sdr], r)
             /\ idx' = idx + 1
             /\ IF inst + 1 < Len(entry.names) THEN inst' = inst + 1 /\ cursor' = cursor
                ELSE inst' = 0 /\ cursor' = cursor + 1
             /\ UNCHANGED <<platform, sdr, blocks, boot>>
  /\ UNCHANGED tasks

(* The length of the repository, in blocks of eight bytes and eight bits. *)
Blocks(b) == ((b + 7) \div 8) % 256
EndRepo ==
  /\ boot = "record" /\ idx >= Count /\ inst = 0
  /\ blocks' = [blocks EXCEPT ![sdr] = Blocks(bytes + EorLength)]
  /\ sdr' = sdr + 1
  /\ boot' = IF sdr = Len(Repos) THEN "ready" ELSE "repo"
  /\ UNCHANGED <<platform, idx, inst, cursor, rec, bytes, tasks>>

-----------------------------------------------------------------------------
(* The sensor task.                                                        *)

Place(w) == CHOOSE r \in 1..Len(Repos) : Repos[r] = w[1]
Here == {w \in Watched : w[2] <= Len(rec[Place(w)])}
First(S) == CHOOSE w \in S : \A v \in S : <<Place(w), w[2]>> = <<Place(v), v[2]>>
                               \/ Place(w) < Place(v) \/ (Place(w) = Place(v) /\ w[2] < v[2])

(* What the monitor leaves when the chip does not answer: the V80 keeps    *)
(* the last voltage and current, the V70 has zero; temperatures are kept.  *)
FailedElectrical(last) == IF platform = "V80" THEN last ELSE 0
FailedTemperature(last) == last
Failed(w, last) == IF w[1] = "Temperature" THEN FailedTemperature(last) ELSE FailedElectrical(last)

(* cl_vmc_monitor_sensors reads all the chips first. *)
Monitor ==
  /\ boot = "ready" /\ sensor.pc = "delay" /\ sweeps < MaxSweeps
  /\ \E chip \in [Here -> Values \cup {None}] :
       glvr' = [w \in Watched |-> IF w \notin Here THEN glvr[w]
                                  ELSE IF chip[w] = None THEN Failed(w, glvr[w]) ELSE chip[w]]
  /\ sensor' = [sensor EXCEPT !.pc = "monitored"]
  /\ UNCHANGED <<layout, boot, lock, db, sweeps, req, reqs, seen>>

(* Asdm_Update_Sensors holds sdr_lock for the whole of a sweep. *)
SweepBegin ==
  /\ sensor.pc = "monitored" /\ lock = "none"
  /\ lock' = "sensor" /\ sweeps' = sweeps + 1
  /\ sensor' = [pc |-> "read", left |-> Here, sample |-> None]
  /\ UNCHANGED <<layout, boot, glvr, db, req, reqs, seen>>

(* The read functions: a temperature is good whatever it is, an electrical *)
(* reading of zero is a failure of size 0.                                 *)
TemperatureSample(reading) == reading
ElectricalSample(reading) == IF reading = 0 THEN None ELSE reading

(* snsrReadFunc and the copy of the value; a failure copies nothing. *)
SweepRead ==
  /\ sensor.pc = "read" /\ sensor.left # {}
  /\ LET w == First(sensor.left)
         v == IF w[1] = "Temperature" THEN TemperatureSample(glvr[w]) ELSE ElectricalSample(glvr[w])
     IN /\ sensor' = [sensor EXCEPT !.pc = "update", !.sample = v]
        /\ db' = [db EXCEPT ![w].value = IF v = None THEN @ ELSE v, ![w].of = sweeps]
  /\ UNCHANGED <<layout, boot, lock, glvr, sweeps, req, reqs, seen>>

(* Seeded fault: the share of the old average is not taken out of it. *)
AverageNoDecay(avg, v, n) == avg + v \div n
Average(avg, v, n) == avg - avg \div n + v \div n

(* Update_Sensor_Value: the status, and for a good sample the maximum and  *)
(* the running average.                                                    *)
UpdateRecord(r, v) ==
  IF v = None THEN [r EXCEPT !.ok = FALSE, !.done = sweeps]
  ELSE [r EXCEPT !.ok = TRUE, !.done = sweeps, !.n = @ + 1,
                 !.max = IF r.value > @ THEN r.value ELSE @,
                 !.avg = Average(@, r.value, r.n)]
SweepUpdate ==
  /\ sensor.pc = "update"
  /\ LET w == First(sensor.left)  v == sensor.sample
     IN /\ db' = [db EXCEPT ![w] = UpdateRecord(@, v)]
        /\ sensor' = [pc |-> "read", left |-> sensor.left \ {w}, sample |-> None]
        /\ seen' = IF v = None THEN seen
                   ELSE [seen EXCEPT ![w] = [min |-> IF @.min = None \/ v < @.min THEN v ELSE @.min,
                                             max |-> IF v > @.max THEN v ELSE @.max]]
  /\ UNCHANGED <<layout, boot, lock, glvr, sweeps, req, reqs>>

SweepEnd ==
  /\ sensor.pc = "read" /\ sensor.left = {}
  /\ lock' = "none" /\ sensor' = [sensor EXCEPT !.pc = "delay"]
  /\ UNCHANGED <<layout, boot, glvr, db, sweeps, req, reqs, seen>>

-----------------------------------------------------------------------------
(* The opcode task: cl_vmc_sensor_request.                                 *)

Index(repo) == CHOOSE r \in 1..Len(Repos) : Repos[r] = repo
(* Asdm_Get_SDR_Size: the length the host is told. *)
DeclaredSize(r) == HeaderLength + 8 * blocks[r]
(* Asdm_Get_Sensor_Repository: the bytes written after the completion code. *)
WrittenOf(r, s) ==
  2 + (Len(s.name) + 1) + 1 + s.size + 1 + UnitLength(Repos[r]) + 2 + s.thresholds * s.size + 1
  + (IF s.dynamic THEN 2 * s.size ELSE 0)
Written(r) ==
  HeaderLength + MapThenSumSet(LAMBDA i : WrittenOf(r, rec[r][i]), 1..Counts(platform)[r]) + EorLength
(* Asdm_Get_All_Sensor_Data: three values, their size and the status. *)
Payload(r) == MapThenSumSet(LAMBDA i : 2 + 3 * rec[r][i].size, 1..Counts(platform)[r])

(* A command other than the size is refused while the database is not      *)
(* there; "size" needs no lock.                                            *)
Request ==
  /\ boot \in {"ready", "failed"} /\ req.pc \in {"idle", "answered"} /\ reqs < MaxReqs
  /\ reqs' = reqs + 1
  /\ \E repo \in Dynamic, cmd \in {"size", "sdr", "single", "all"} :
       LET mine == {w \in Here : w[1] = repo}
           of   == [NoReq EXCEPT !.cmd = cmd, !.repo = repo]
       IN \/ /\ boot = "failed" /\ req' = [of EXCEPT !.pc = "answered", !.cmd = "refused"]
          \/ /\ boot = "ready" /\ cmd = "size"
             /\ req' = [of EXCEPT !.pc = "answered", !.size = DeclaredSize(Index(repo))]
          \/ /\ boot = "ready" /\ cmd \in {"sdr", "all"}
             /\ req' = [of EXCEPT !.pc = "lock", !.left = mine]
          \/ /\ boot = "ready" /\ cmd = "single"
             /\ \E w \in mine : req' = [of EXCEPT !.pc = "lock", !.left = {w}]
  /\ UNCHANGED <<layout, boot, lock, glvr, db, sensor, sweeps, seen>>

(* Seeded fault: the records are copied without sdr_lock. *)
RequestLockNot ==
  /\ req.pc = "lock"
  /\ req' = [req EXCEPT !.pc = "copy"]
  /\ UNCHANGED <<layout, boot, lock, glvr, db, sensor, sweeps, reqs, seen>>
RequestLock ==
  /\ req.pc = "lock" /\ lock = "none"
  /\ lock' = "opcode"
  /\ req' = [req EXCEPT !.pc = "copy"]
  /\ UNCHANGED <<layout, boot, glvr, db, sensor, sweeps, reqs, seen>>

RequestCopy ==
  /\ req.pc = "copy" /\ req.left # {}
  /\ LET w == First(req.left)
     IN req' = [req EXCEPT !.left = @ \ {w}, !.got = Append(@, db[w])]
  /\ UNCHANGED <<layout, boot, lock, glvr, db, sensor, sweeps, reqs, seen>>

RequestAnswer ==
  /\ req.pc = "copy" /\ req.left = {}
  /\ lock' = "none"
  /\ req' = [req EXCEPT !.pc = "answered",
               !.size = CASE req.cmd = "sdr" -> 1 + Written(Index(req.repo))
                          [] req.cmd = "all" -> 3 + (Payload(Index(req.repo)) % 256)
                          [] req.cmd = "single" -> 0]
  /\ UNCHANGED <<layout, boot, glvr, db, sensor, sweeps, reqs, seen>>

(* The bounds are reached, or there is no database. *)
Done ==
  /\ \/ boot \in {"failed", "wild"} /\ (boot = "failed" => reqs = MaxReqs)
     \/ boot = "ready" /\ sweeps = MaxSweeps /\ sensor.pc = "delay" /\ reqs = MaxReqs /\ req.pc = "answered"
  /\ UNCHANGED vars

Startup == BeginRepo \/ FillRecord \/ EndRepo \/ OutOfMemory
Sweep == Monitor \/ SweepBegin \/ SweepRead \/ SweepUpdate \/ SweepEnd
Opcode == Request \/ RequestLock \/ RequestCopy \/ RequestAnswer
Next == Startup \/ Sweep \/ Opcode \/ Done
Spec == Init /\ [][Next]_vars

-----------------------------------------------------------------------------
(* Properties.                                                             *)

Tasks == {"sensor", "opcode"}
(* no_of_bytes has eight bits, an answer fits SENSOR_RESP_BUFFER_SIZE, and *)
(* the lock belongs to the task that is between its take and its give.     *)
TypeOK ==
  /\ platform \in Platforms /\ boot \in {"repo", "record", "failed", "wild", "ready"}
  /\ sdr \in 1..Len(Repos) + 1 /\ {idx, inst, bytes} \subseteq Nat /\ cursor \in Nat \ {0}
  /\ \A r \in 1..Len(Repos) : blocks[r] \in 0..255
  /\ lock \in Tasks \cup {"none"}
  /\ sensor.pc \in {"delay", "monitored", "read", "update"} /\ sensor.left \subseteq Watched
  /\ glvr \in [Watched -> Values \cup {0}]
  /\ sensor.sample \in Values \cup {None, 0}
  /\ req.pc \in {"idle", "lock", "copy", "answered"} /\ req.left \subseteq Watched
  /\ req.size \in 0..RespBuffer
  /\ (lock = "sensor") = (sensor.pc \in {"read", "update"})
  /\ sweeps \in 0..MaxSweeps /\ reqs \in 0..MaxReqs

(* The record counts of a platform and the entries of its metadata are two *)
(* tables kept apart: Init_Asdm takes as many entries as the count says.   *)
(* Every record must describe a sensor of its own repository, within the   *)
(* array allocated for the count, and the metadata must not run out.  The  *)
(* tables of the VCK5000 do not agree (vck5000.c:30): its four QSFP names  *)
(* overrun five temperatures.                                              *)
RecordsInPlace ==
  platform # "VCK5000" =>
  /\ boot # "wild"
  /\ \A r \in 1..Len(Repos) :
       /\ Len(rec[r]) <= Counts(platform)[r]
       /\ \A i \in 1..Len(rec[r]) : rec[r][i].of = Repos[r] /\ rec[r][i].name # "?"

(* The host sizes its buffer by GET_SIZE and then asks for the repository: *)
(* the size it is told, counted by Init_Asdm, must cover what              *)
(* Asdm_Get_Sensor_Repository writes, with less than a block of padding,   *)
(* the answer must fit the response buffer, and the length of all sensors' *)
(* data, an 8-bit sum, must not wrap.                                      *)
SizesAgree ==
  boot = "ready" =>
    \A r \in 1..Len(Repos) :
      /\ DeclaredSize(r) - Written(r) \in 0..7
      /\ 1 + Written(r) <= RespBuffer
      /\ Repos[r] \in Dynamic => Payload(r) < 256

(* The values of one answer are all of the same sweep, none of them read   *)
(* but not yet accounted for: the sweep and the answer exclude each other  *)
(* through sdr_lock, though the one takes many reads of the sensor bus.    *)
AnswerOfOneSweep ==
  \A i, j \in 1..Len(req.got) : req.got[i].of = req.got[j].of /\ req.got[i].done = req.got[i].of

(* The maximum is the greatest good sample, and the running average, for   *)
(* all its integer divisions, stays between the least and the greatest.    *)
AverageWithinSamples ==
  \A w \in Watched :
    sensor.pc # "update" /\ db[w].n > 1 =>
      /\ db[w].max = seen[w].max
      /\ db[w].avg \in seen[w].min..seen[w].max

=============================================================================
