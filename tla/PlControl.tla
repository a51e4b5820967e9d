----------------------------- MODULE PlControl -----------------------------
(***************************************************************************)
(* The PL of the card has three masters.  The XGQ Program task downloads   *)
(* it (rmgmt/rmgmt_xfer.c): the kernel clock is disabled, the gate frozen, *)
(* the clock stopped, the PDI loaded, and everything undone.  The XGQ      *)
(* Opcode task scales its clocks behind the same gate (rmgmt_clock.c) and  *)
(* changes the limits of the throttling (vmc_sensors.c).  The Sensor       *)
(* Monitor task throttles the clock to the power measured                  *)
(* (clock_throttling.c), shuts it down when a reading is critical, and     *)
(* serves the requests of the program task.                                *)
(*                                                                         *)
(* The registers are written without a lock.  Stores of a task are seen by *)
(* the others in program order: the tasks share one core.                  *)
(***************************************************************************)
EXTENDS Integers, FiniteSets, Xclbin

CONSTANTS
  Layouts,       \* the sections of the xclbins that may be downloaded
  ActivityMax,   \* ACTIVITY_MAX
  ActivityFloor, \* REDUCE_GAPPING_DEMAND_RATE_TO_FIVE_PERCENTAGE
  CritWait,      \* MAX_COUNT_TO_WAIT_1SEC
  Powers,        \* values of BoardMeasuredPower
  Currents,      \* what the rails' currents may be, taken together
  Critical,      \* the power that calls for a shutdown
  ThermalPowers, \* values of ThermalThrottlingThresholdPower
  BoardPower,    \* BoardThrottlingThresholdPower
  IdlePower,
  Limits,        \* limits the host may ask for, per kind; 0: none
  MaxLoads, MaxOps,  \* commands of the host to the program and to the opcode task, at most
  MaxShuts       \* readings that may be critical in one pass of the monitor

ASSUME PlAssumption ==
  /\ {ActivityMax, ActivityFloor, CritWait, Critical, BoardPower} \subseteq Nat \ {0}
  /\ ActivityFloor <= ActivityMax
  /\ IdlePower \in Nat
  /\ Powers \subseteq Nat /\ Currents \subseteq Nat /\ ThermalPowers \subseteq Int /\ Limits \subseteq Nat
  /\ {MaxLoads, MaxOps, MaxShuts} \subseteq Nat
  /\ Layouts \subseteq Seq([kind : Kinds, size : Nat, pad : Nat])

(* The limits in force by default; those of temperatures and of power are  *)
(* treated alike and never read together.                                  *)
Default == BoardPower

VARIABLES
  pc,       \* where the three tasks are
  layout,   \* the sections the xclbin came with
  xclbin,   \* the container in the data buffer
  target,   \* the kind of section under way
  loaded,   \* result of the last load
  request,  \* the request in the SENSOR queues, or its answer
  gate,     \* VMR_EP_PR_ISOLATION
  ucs,      \* VMR_EP_UCS_SHUTDOWN: the clock runs
  seen,     \* what ucs_clock_shutdown has read of it
  gap,      \* VMR_EP_GAPPING_DEMAND: throttling enabled, bit 24, and the rate
  enabled,  \* sensor_glvr.clk_throttling_enabled
  params,   \* g_clk_throttling_params
  handle,   \* clock_throttling_std_algorithm
  set,      \* the request the opcode task carries out on params
  power,    \* the power measured last
  crit,     \* the count of the power monitor
  hot,      \* critical readings in a row, none of them answered by a shutdown
  freed,    \* a scaling has freed the gate since the download froze it
  restored, \* a shutdown has written ucs back since the download stopped it
  count     \* what was used of the bounds

hwVars     == <<gate, ucs, gap>>
limitVars  == <<params, handle, set>>
critVars   == <<power, crit, hot>>
ghostVars  == <<freed, restored>>
loadVars   == <<layout, xclbin, target, loaded>>
vars == <<pc, layout, xclbin, target, loaded, request, gate, ucs, seen, gap, enabled, params, handle,
          set, power, crit, hot, freed, restored, count>>

NoSet == [reset |-> FALSE, on |-> FALSE, limit |-> 0]

Init ==
  /\ pc = [prog |-> "idle", op |-> "idle", sens |-> "poll"]
  /\ layout = <<>> /\ xclbin = Packed(<<>>)
  /\ target = "none" /\ loaded = TRUE
  /\ request = "none"
  /\ gate = "free" /\ ucs = TRUE /\ seen = TRUE
  /\ \E control \in BOOLEAN : gap = [on |-> FALSE, control |-> control, rate |-> ActivityMax]
  /\ enabled = FALSE
  /\ \E limit \in {0, Default} :  \* the VCK5000 copies a limit that is not set yet
       params = [update |-> FALSE, scaling |-> FALSE, on |-> FALSE, limit |-> limit]
  /\ handle = [on |-> FALSE, limit |-> 0, activity |-> ActivityMax, last |-> 0]
  /\ set = NoSet
  /\ power = 0 /\ crit = 1 /\ hot = 0
  /\ freed = FALSE /\ restored = FALSE
  /\ count = [load |-> 0, op |-> 0, shut |-> 0]

(* Where the program task is while the gate is its own.                    *)
Isolated == {"stop", "load", "start", "free"}

Goto(task, step) == pc' = [pc EXCEPT ![task] = step]
Use(what) == count' = [count EXCEPT ![what] = @ + 1]

-----------------------------------------------------------------------------
(* rmgmt_fpga_download, in the program task, of an xclbin that             *)
(* rmgmt_validate_uuid has accepted.  The PDI of the APU is loaded by      *)
(* other functions, which leave the PL, its gate and its clock alone.      *)
Download(sections) ==
  /\ pc.prog = "idle"
  /\ count.load < MaxLoads
  /\ Use("load")
  /\ layout' = sections /\ xclbin' = Packed(sections)
  /\ target' = "ppdi"
  /\ Goto("prog", "section")
  /\ UNCHANGED <<loaded, request, hwVars, seen, enabled, limitVars, critVars, ghostVars>>

(* The command is over, and its data with it.                              *)
Over ==
  /\ Goto("prog", "idle")
  /\ layout' = <<>> /\ xclbin' = Packed(<<>>) /\ target' = "none" /\ loaded' = TRUE

(* No section of this kind: the next kind is looked for, and then the rest *)
(* goes to the APU.                                                        *)
NextKind ==
  IF target = "ppdi" THEN target' = "pdi" /\ Goto("prog", "section")
                     ELSE target' = "none" /\ Goto("prog", "apu")

SkipSection ==
  /\ pc.prog = "section"
  /\ ~HasSection(xclbin, target)
  /\ NextKind
  /\ UNCHANGED <<layout, xclbin, loaded, request, hwVars, seen, enabled, limitVars, critVars, ghostVars, count>>

(* The APU takes what is left, refuses it, or is not there (-ENODEV).      *)
ApuTransfer ==
  /\ pc.prog = "apu"
  /\ Over
  /\ UNCHANGED <<request, hwVars, seen, enabled, limitVars, critVars, ghostVars, count>>

(* XFpga_Initialize, and the request that disables the kernel clock.       *)
LoadBegin ==
  /\ pc.prog = "section"
  /\ HasSection(xclbin, target)
  /\ \/ Over /\ UNCHANGED request
     \/ Goto("prog", "clockOff") /\ request' = "disable" /\ UNCHANGED loadVars
  /\ UNCHANGED <<hwVars, seen, enabled, limitVars, critVars, ghostVars, count>>

(* Seeded fault: the gate is not frozen.                                   *)
FreezeNot ==
  /\ pc.prog = "clockOff" /\ request = "done"
  /\ request' = "none" /\ freed' = FALSE
  /\ Goto("prog", "stop")
  /\ UNCHANGED <<loadVars, hwVars, seen, enabled, limitVars, critVars, restored, count>>

Freeze ==
  /\ pc.prog = "clockOff" /\ request = "done"
  /\ request' = "none"
  /\ gate' = "frozen" /\ freed' = FALSE
  /\ Goto("prog", "stop")
  /\ UNCHANGED <<loadVars, ucs, gap, seen, enabled, limitVars, critVars, restored, count>>

Stop ==
  /\ pc.prog = "stop"
  /\ ucs' = FALSE /\ restored' = FALSE
  /\ Goto("prog", "load")
  /\ UNCHANGED <<loadVars, request, gate, gap, seen, enabled, limitVars, critVars, freed, count>>

(* XFpga_BitStream_Load and reconfig_clock, whose result is not used.      *)
Load ==
  /\ pc.prog = "load"
  /\ loaded' \in BOOLEAN
  /\ Goto("prog", "start")
  /\ UNCHANGED <<layout, xclbin, target, request, hwVars, seen, enabled, limitVars, critVars, ghostVars, count>>

Start ==
  /\ pc.prog = "start"
  /\ ucs' = TRUE
  /\ Goto("prog", "free")
  /\ UNCHANGED <<loadVars, request, gate, gap, seen, enabled, limitVars, critVars, ghostVars, count>>

(* Seeded fault: the kernel clock is not enabled after a load that failed. *)
FreeIfLoaded ==
  /\ pc.prog = "free"
  /\ gate' = "free" /\ freed' = FALSE
  /\ IF loaded THEN request' = "enable" /\ Goto("prog", "clockOn") /\ UNCHANGED loadVars
     ELSE Over /\ UNCHANGED request
  /\ UNCHANGED <<ucs, gap, seen, enabled, limitVars, critVars, restored, count>>

(* axigate_free, and the request that enables the kernel clock.            *)
Free ==
  /\ pc.prog = "free"
  /\ gate' = "free" /\ freed' = FALSE
  /\ request' = "enable"
  /\ Goto("prog", "clockOn")
  /\ UNCHANGED <<loadVars, ucs, gap, seen, enabled, limitVars, critVars, restored, count>>

(* The section that was loaded is trimmed.                                 *)
LoadEnd ==
  /\ pc.prog = "clockOn" /\ request = "done"
  /\ request' = "none"
  /\ IF loaded
     THEN xclbin' = SectionRemove(xclbin, target) /\ NextKind /\ UNCHANGED <<layout, loaded>>
     ELSE Over
  /\ UNCHANGED <<hwVars, seen, enabled, limitVars, critVars, ghostVars, count>>

ProgStep ==
  SkipSection \/ ApuTransfer \/ LoadBegin \/ Freeze \/ Stop \/ Load \/ Start \/ Free \/ LoadEnd

-----------------------------------------------------------------------------
(* rmgmt_clock_freq_scaling, a CLOCK_SCALE command of the host, in the     *)
(* opcode task: with its own gate, whatever state the gate is in.          *)
ScaleFreeze ==
  /\ pc.op = "idle"
  /\ count.op < MaxOps
  /\ Use("op")
  /\ gate' = "frozen"
  /\ Goto("op", "scale")
  /\ UNCHANGED <<loadVars, request, ucs, gap, seen, enabled, limitVars, critVars, ghostVars>>

(* Seeded fault: a wizard that stays busy returns with the gate frozen.    *)
ScaleFreeUnlessBusy ==
  /\ pc.op = "scale"
  /\ \/ gate' = "free" /\ freed' = (pc.prog \in Isolated)
     \/ UNCHANGED <<gate, freed>>
  /\ Goto("op", "idle")
  /\ UNCHANGED <<loadVars, request, ucs, gap, seen, enabled, limitVars, critVars, restored, count>>

ScaleFree ==
  /\ pc.op = "scale"
  /\ gate' = "free" /\ freed' = (pc.prog \in Isolated)
  /\ Goto("op", "idle")
  /\ UNCHANGED <<loadVars, request, ucs, gap, seen, enabled, limitVars, critVars, restored, count>>

(* vmc_set_clk_throttling_override: the update is announced before the     *)
(* limits are there.                                                       *)
SetBegin(s) ==
  /\ pc.op = "idle"
  /\ count.op < MaxOps
  /\ Use("op")
  /\ set' = IF s.on /\ ~s.reset THEN s ELSE NoSet
  /\ params' = [params EXCEPT !.update = TRUE, !.scaling = s.on]
  /\ Goto("op", IF s.on /\ ~s.reset THEN "limit" ELSE "off")
  /\ UNCHANGED <<loadVars, request, hwVars, seen, enabled, handle, critVars, ghostVars>>

(* A limit of 0, or one that is not enabled, changes nothing.              *)
SetLimit ==
  /\ pc.op = "limit"
  /\ params' = IF set.limit > 0 THEN [params EXCEPT !.limit = set.limit] ELSE params
  /\ Goto("op", "on")
  /\ UNCHANGED <<loadVars, request, hwVars, seen, enabled, handle, set, critVars, ghostVars, count>>

(* Seeded fault: an override is switched on whether it has a limit or not. *)
SetOnAlways ==
  /\ pc.op = "on"
  /\ params' = [params EXCEPT !.on = TRUE]
  /\ set' = NoSet
  /\ Goto("op", "idle")
  /\ UNCHANGED <<loadVars, request, hwVars, seen, enabled, handle, critVars, ghostVars, count>>

SetOn ==
  /\ pc.op = "on"
  /\ params' = IF set.limit > 0 THEN [params EXCEPT !.on = TRUE] ELSE params
  /\ set' = NoSet
  /\ Goto("op", "idle")
  /\ UNCHANGED <<loadVars, request, hwVars, seen, enabled, handle, critVars, ghostVars, count>>

SetOff ==
  /\ pc.op = "off"
  /\ params' = [params EXCEPT !.on = FALSE, !.scaling = FALSE]
  /\ Goto("op", "default")
  /\ UNCHANGED <<loadVars, request, hwVars, seen, enabled, handle, set, critVars, ghostVars, count>>

SetDefault ==
  /\ pc.op = "default"
  /\ params' = [params EXCEPT !.limit = Default]
  /\ set' = NoSet
  /\ Goto("op", "idle")
  /\ UNCHANGED <<loadVars, request, hwVars, seen, enabled, handle, critVars, ghostVars, count>>

OpStep == ScaleFree \/ SetLimit \/ SetOn \/ SetOff \/ SetDefault

-----------------------------------------------------------------------------
(* cl_vmc_sensor_func: a request of the program task, if there is one.     *)
(* "Write 0 on gapping demand" clears bit 24 of what was read and leaves   *)
(* the rate, and that it is in force, as they are.                         *)
Poll ==
  /\ pc.sens = "poll"
  /\ IF request \in {"disable", "enable"}
     THEN request' = "done" /\ enabled' = (request = "enable")
     ELSE UNCHANGED <<request, enabled>>
  /\ gap' = IF request = "disable" THEN [gap EXCEPT !.control = FALSE] ELSE gap
  /\ Goto("sens", "monitor")
  /\ count' = [count EXCEPT !.shut = 0]
  /\ UNCHANGED <<loadVars, gate, ucs, seen, limitVars, critVars, ghostVars>>

(* Seeded fault: readings below the limit do not end a run.                *)
MonitorKeepsCount ==
  /\ pc.sens = "monitor"
  /\ power' \in Powers
  /\ IF power' < Critical
     THEN UNCHANGED crit /\ hot' = 0 /\ Goto("sens", "thresholds")
     ELSE /\ crit' = IF crit = CritWait THEN 1 ELSE crit + 1
          /\ hot' = IF crit = CritWait THEN 0 ELSE hot + 1
          /\ Goto("sens", IF crit = CritWait THEN "see" ELSE "thresholds")
  /\ UNCHANGED <<loadVars, request, hwVars, seen, enabled, limitVars, ghostVars, count>>

(* Monitor_Sensors, its power monitor: a run of critical readings calls    *)
(* for a shutdown.                                                         *)
Monitor ==
  /\ pc.sens = "monitor"
  /\ power' \in Powers
  /\ IF power' < Critical
     THEN crit' = 0 /\ hot' = 0 /\ Goto("sens", "thresholds")
     ELSE /\ crit' = IF crit = CritWait THEN 1 ELSE crit + 1
          /\ hot' = IF crit = CritWait THEN 0 ELSE hot + 1
          /\ Goto("sens", IF crit = CritWait THEN "see" ELSE "thresholds")
  /\ UNCHANGED <<loadVars, request, hwVars, seen, enabled, limitVars, ghostVars, count>>

(* Monitor_Thresholds and the sweep of the sensors: a critical temperature *)
(* shuts the clock down at once.                                           *)
Thresholds ==
  /\ pc.sens = "thresholds"
  /\ \/ count.shut < MaxShuts /\ Use("shut") /\ Goto("sens", "see")
     \/ UNCHANGED count /\ Goto("sens", IF enabled THEN "flags" ELSE "poll")
  /\ UNCHANGED <<loadVars, request, hwVars, seen, enabled, limitVars, critVars, ghostVars>>

(* ucs_clock_shutdown: throttling is switched on and the shutdown register *)
(* read; the magic number is written with what was read, then what was     *)
(* read alone; the rate is set when the hardware has latched the request.  *)
ShutdownSee ==
  /\ pc.sens = "see"
  /\ gap' = [gap EXCEPT !.on = TRUE]
  /\ seen' = ucs
  /\ Goto("sens", "trigger")
  /\ UNCHANGED <<loadVars, request, gate, ucs, enabled, limitVars, critVars, ghostVars, count>>

WriteBack ==
  /\ ucs' = seen
  /\ restored' = (restored \/ ucs # seen)

ShutdownTrigger ==
  /\ pc.sens = "trigger"
  /\ WriteBack
  /\ Goto("sens", "restore")
  /\ UNCHANGED <<loadVars, request, gate, gap, seen, enabled, limitVars, critVars, freed, count>>

ShutdownRestore ==
  /\ pc.sens = "restore"
  /\ WriteBack
  /\ \E latched \in BOOLEAN : gap' = IF latched THEN [gap EXCEPT !.rate = ActivityFloor] ELSE gap
  /\ seen' = TRUE
  /\ Goto("sens", "thresholds")
  /\ UNCHANGED <<loadVars, request, gate, enabled, limitVars, critVars, freed, count>>

-----------------------------------------------------------------------------
(* Clock_throttling, while it is enabled: new limits are copied, first     *)
(* which of them are on, then their values.                                *)
CopyFlags ==
  /\ pc.sens = "flags"
  /\ IF params.update
     THEN handle' = [handle EXCEPT !.on = params.on] /\ Goto("sens", "limits")
     ELSE UNCHANGED handle /\ Goto("sens", "power")
  /\ UNCHANGED <<loadVars, request, hwVars, seen, enabled, params, set, critVars, ghostVars, count>>

CopyLimits ==
  /\ pc.sens = "limits"
  /\ handle' = [handle EXCEPT !.limit = params.limit]
  /\ Goto("sens", "clear")
  /\ UNCHANGED <<loadVars, request, hwVars, seen, enabled, params, set, critVars, ghostVars, count>>

CopyEnd ==
  /\ pc.sens = "clear"
  /\ params' = [params EXCEPT !.update = FALSE]
  /\ Goto("sens", "power")
  /\ UNCHANGED <<loadVars, request, hwVars, seen, enabled, handle, set, critVars, ghostVars, count>>

(* The power the kernels are held to.                                      *)
Threshold(h) == IF h.on /\ h.limit < BoardPower THEN h.limit ELSE BoardPower

(* Seeded fault: the limit of the host does not count.                     *)
DenominatorOfBoard(h, thermal) == Min({BoardPower} \cup (IF thermal >= 0 THEN {thermal} ELSE {}))

(* BoardNormalizedPower is the power measured over the smallest of these;  *)
(* a thermal threshold that is negative makes a quotient that is too.      *)
Denominator(h, thermal) ==
  Min({BoardPower} \cup (IF h.on THEN {h.limit} ELSE {}) \cup (IF thermal >= 0 THEN {thermal} ELSE {}))

(* clock_throttling_algorithm, all quotients brought to one denominator:   *)
(* fast attack when the target asks for less and the readings have         *)
(* changed, that is the current of a rail, one step up otherwise.          *)
NextActivity(h, p, c, thermal) ==
  LET target_ == (Threshold(h) - IdlePower) * Denominator(h, thermal)
      kernel  == p * Threshold(h) - IdlePower * Denominator(h, thermal)
      wanted  == IF Threshold(h) < IdlePower THEN 0
                 ELSE IF kernel <= 0 THEN ActivityMax
                 ELSE IF c # h.last /\ target_ < kernel THEN (h.activity * target_) \div kernel
                 ELSE Min({h.activity + 1, ActivityMax})
  IN Max({wanted, ActivityFloor})

(* clock_throttling_algorithm_power, when scaling is enabled.  The thermal *)
(* threshold is what clock_throttling_algorithm_temperature has made of    *)
(* the pass before, the currents are those the power was measured with,    *)
(* the voltages making the rest; both are read here alone.                 *)
Throttle ==
  /\ pc.sens = "power"
  /\ IF params.scaling
     THEN /\ \E thermal \in ThermalPowers, current \in Currents :
               handle' = [handle EXCEPT !.activity = NextActivity(handle, power, current, thermal),
                                        !.last = current]
          /\ gap' = [on |-> TRUE, control |-> FALSE, rate |-> handle'.activity]
     ELSE UNCHANGED <<handle, gap>>
  /\ Goto("sens", "poll")
  /\ UNCHANGED <<loadVars, request, gate, ucs, seen, enabled, params, set, critVars, ghostVars, count>>

SensStep ==
  \/ Poll \/ Monitor \/ Thresholds \/ ShutdownSee \/ ShutdownTrigger \/ ShutdownRestore
  \/ CopyFlags \/ CopyLimits \/ CopyEnd \/ Throttle

-----------------------------------------------------------------------------
Next ==
  \/ \E sections \in Layouts : Download(sections)
  \/ ProgStep
  \/ ScaleFreeze
  \/ \E s \in [reset : BOOLEAN, on : BOOLEAN, limit : Limits] : SetBegin(s)
  \/ OpStep
  \/ SensStep

(* The tasks have the same priority and the scheduler preempts.            *)
Spec == Init /\ [][Next]_vars /\ WF_vars(ProgStep) /\ WF_vars(OpStep) /\ WF_vars(SensStep)

-----------------------------------------------------------------------------
(* The type invariant.                                                     *)
TypeOK ==
  /\ pc.prog \in Isolated \cup {"idle", "section", "apu", "clockOff", "clockOn"}
  /\ pc.op \in {"idle", "scale", "limit", "on", "off", "default"}
  /\ pc.sens \in {"poll", "monitor", "thresholds", "see", "trigger", "restore", "flags", "limits", "clear", "power"}
  /\ target \in {"none", "ppdi", "pdi"} /\ {loaded, ucs, seen, enabled, freed, restored} \subseteq BOOLEAN
  /\ request \in {"none", "disable", "enable", "done"} /\ gate \in {"free", "frozen"}
  /\ gap \in [on : BOOLEAN, control : BOOLEAN, rate : ActivityFloor..ActivityMax]
  /\ params \in [update : BOOLEAN, scaling : BOOLEAN, on : BOOLEAN, limit : Limits \cup {0, Default}]
  /\ handle.activity \in ActivityFloor..ActivityMax
  /\ crit \in 0..CritWait /\ power \in Powers \cup {0}

(* While a PDI is loaded into the PL, the gate is frozen unless a          *)
(* CLOCK_SCALE command has freed it, the clock is stopped unless a         *)
(* shutdown has written back what it had read before, and the sensor task  *)
(* is not throttling (fpga_pdi_download).                                  *)
LoadIsolated ==
  /\ pc.prog \in Isolated => ~enabled /\ pc.sens \notin {"flags", "limits", "clear", "power"}
  /\ pc.prog \in {"stop", "load", "start", "free"} => gate = "frozen" \/ freed
  /\ pc.prog = "load" => ~ucs \/ restored

(* With no command under way the gate is free, and the clock runs unless   *)
(* a shutdown has written back a stop of a download that is over.          *)
DownloadEndsOpen ==
  pc.prog = "idle" /\ pc.op = "idle" => gate = "free" /\ (ucs \/ restored)

(* A load that has begun ends with the kernel clock under control of the   *)
(* sensor task again, whether the PDI was good or not.                     *)
KernelClockComesBack == pc.prog = "load" ~> (pc.prog \in {"idle", "section", "apu"} /\ enabled)

(* The algorithm divides by the limit of the host only when there is one,  *)
(* although the two tasks share the parameters without a lock.             *)
OverrideHasLimit == handle.on /\ pc.sens # "limits" => handle.limit > 0

(* When the current of a rail has changed and the power is above the limit *)
(* in force, the board's or the host's, the rate goes down or is at its    *)
(* floor, whatever the voltages and temperatures say ("fast attack").      *)
OverPowerSlowsDown ==
  [][ /\ pc.sens = "power" /\ pc'.sens = "poll" /\ params.scaling
      /\ handle'.last # handle.last
      /\ power > Threshold(handle)
      => gap'.rate < handle.activity \/ gap'.rate = ActivityFloor ]_vars

(* "shutdown clock only if power reached critical threshold continuously   *)
(* for 1sec": never after fewer than CritWait readings, and always after   *)
(* one more.                                                               *)
SustainedPowerShuts ==
  [][ pc.sens = "monitor" /\ pc'.sens # "monitor" /\ power' >= Critical =>
        /\ pc'.sens = "see" => hot + 1 >= CritWait
        /\ hot >= CritWait => pc'.sens = "see" ]_vars

(* The clock topology, where rmgmt_fpga_download found it at first.        *)
TopologyInPlace ==
  LET f == Packed(layout)
      s == f.secs[FirstOf(f, "topo")]
  IN \A k \in 1..s.size : xclbin.mem[s.off + k] = s.own

(* Trimming the sections that were loaded leaves the others whole: each    *)
(* table entry points at its own data, the APU is sent all of them, and a  *)
(* load reads the clock topology where it is, unless the container has PL  *)
(* sections of both kinds, so that one was trimmed before.                 *)
RestIsIntact ==
  /\ Intact(xclbin)
  /\ pc.prog = "apu" =>
       \A i \in DOMAIN layout : layout[i].kind \in {"topo", "other"} =>
         \E s \in Range(xclbin.secs) : s.own = i /\ s.size = layout[i].size
  /\ LET kinds == {layout[i].kind : i \in DOMAIN layout}
     IN pc.prog = "load" /\ "topo" \in kinds /\ ~({"ppdi", "pdi"} \subseteq kinds) => TopologyInPlace
=============================================================================
