-------------------------- MODULE PlControlProofs --------------------------
(***************************************************************************)
(* Theorems about the control of the PL, for every set of xclbins, limits, *)
(* powers and temperatures: a load is isolated, a download leaves the gate *)
(* open and the clock running, the throttling has the limit it divides by, *)
(* too much power slows the clock down, power that stays critical shuts it *)
(* down, and what a download trims from its xclbin leaves the rest whole.  *)
(***************************************************************************)
EXTENDS PlControl, SequenceTheorems, WellFoundedInduction, TLAPS

-----------------------------------------------------------------------------
(* The invariants                                                          *)

ProgPcs == Isolated \cup {"idle", "section", "apu", "clockOff", "clockOn"}
OpPcs   == {"idle", "scale", "limit", "on", "off", "default"}
ThrottlePcs == {"flags", "limits", "clear", "power"}
SensPcs == {"poll", "monitor", "thresholds", "see", "trigger", "restore"} \cup ThrottlePcs

(* The types of what the tasks share; the container is not among it.       *)
ControlTypes ==
  /\ pc \in [prog : ProgPcs, op : OpPcs, sens : SensPcs]
  /\ target \in {"none", "ppdi", "pdi"}
  /\ loaded \in BOOLEAN /\ ucs \in BOOLEAN /\ seen \in BOOLEAN
  /\ enabled \in BOOLEAN /\ freed \in BOOLEAN /\ restored \in BOOLEAN
  /\ request \in {"none", "disable", "enable", "done"} /\ gate \in {"free", "frozen"}
  /\ gap \in [on : BOOLEAN, control : BOOLEAN, rate : ActivityFloor..ActivityMax]
  /\ params \in [update : BOOLEAN, scaling : BOOLEAN, on : BOOLEAN, limit : Limits \cup {0, Default}]
  /\ handle \in [on : BOOLEAN, limit : Limits \cup {0, Default},
                 activity : ActivityFloor..ActivityMax, last : Nat]
  /\ set \in [reset : BOOLEAN, on : BOOLEAN, limit : Limits \cup {0}]
  /\ crit \in 0..CritWait /\ hot \in Nat
  /\ power \in Powers \cup {0}

(* A request of the program task is there while it waits, and only then;   *)
(* once the clock control is off it stays off until it is asked for.       *)
RequestInv ==
  /\ request = "none" <=> pc.prog \notin {"clockOff", "clockOn"}
  /\ request = "disable" => pc.prog = "clockOff"
  /\ request = "enable" => pc.prog = "clockOn"
  /\ pc.prog \in Isolated \/ (pc.prog = "clockOff" /\ request = "done") =>
       ~enabled /\ pc.sens \notin ThrottlePcs

(* The gate is free when nobody needs it, and a load has it frozen.        *)
GateInv ==
  /\ pc.prog \in Isolated => gate = "frozen" \/ freed
  /\ pc.prog \notin Isolated /\ pc.op # "scale" => gate = "free"

(* The clock is stopped during a load, and runs otherwise.                 *)
ClockInv ==
  /\ pc.prog = "load" => ~ucs \/ restored
  /\ pc.prog \notin {"load", "start"} => ucs \/ restored

ControlInv == RequestInv /\ GateInv /\ ClockInv

(* A limit that is switched on is there, in the parameters and in what the *)
(* throttling has copied of them, also between the two steps of the copy.  *)
LimitInv ==
  /\ params.on => params.limit > 0
  /\ pc.op = "on" /\ set.limit > 0 => params.limit > 0
  /\ pc.sens = "limits" /\ handle.on => params.limit > 0
  /\ OverrideHasLimit

(* The count of the power monitor is the readings in a row, or one more.   *)
CritInv == crit \in {hot, hot + 1}

-----------------------------------------------------------------------------
(* The tasks and their types                                               *)

Tasks == [prog : ProgPcs, op : OpPcs, sens : SensPcs]

(* The parameters are numbers.                                             *)
LEMMA Numbers ==
  /\ ActivityMax \in Nat \ {0} /\ ActivityFloor \in Nat \ {0} /\ ActivityFloor <= ActivityMax
  /\ CritWait \in Nat \ {0} /\ Critical \in Nat \ {0} /\ BoardPower \in Nat \ {0}
  /\ IdlePower \in Nat /\ Powers \subseteq Nat /\ Currents \subseteq Nat
  /\ ThermalPowers \subseteq Int /\ Limits \subseteq Nat
BY PlAssumption

(* The program task moves, and the others stay where they are.             *)
LEMMA GotoProg ==
  ASSUME pc \in Tasks, NEW p \in ProgPcs, Goto("prog", p)
  PROVE  pc' \in Tasks /\ pc'.prog = p /\ pc'.op = pc.op /\ pc'.sens = pc.sens
BY DEF Tasks, Goto

(* The opcode task moves.                                                  *)
LEMMA GotoOp ==
  ASSUME pc \in Tasks, NEW p \in OpPcs, Goto("op", p)
  PROVE  pc' \in Tasks /\ pc'.op = p /\ pc'.prog = pc.prog /\ pc'.sens = pc.sens
BY DEF Tasks, Goto

(* The sensor task moves.                                                  *)
LEMMA GotoSens ==
  ASSUME pc \in Tasks, NEW p \in SensPcs, Goto("sens", p)
  PROVE  pc' \in Tasks /\ pc'.sens = p /\ pc'.prog = pc.prog /\ pc'.op = pc.op
BY DEF Tasks, Goto

(* Where each step of the program task leads, and what it does to the      *)
(* request, the gate and the clock.                                        *)
LEMMA ProgSteps ==
  ASSUME pc \in Tasks, ProgStep \/ \E sections \in Layouts : Download(sections)
  PROVE  /\ pc' \in Tasks /\ pc'.op = pc.op /\ pc'.sens = pc.sens
         /\ UNCHANGED <<gap, seen, enabled, params, handle, set, power, crit, hot>>
         /\ \/ /\ pc.prog \in {"idle", "section", "apu"} /\ pc'.prog \in {"idle", "section", "apu"}
               /\ UNCHANGED <<request, gate, ucs, freed, restored>>
            \/ /\ pc.prog = "section" /\ pc'.prog = "clockOff" /\ request' = "disable"
               /\ UNCHANGED <<gate, ucs, freed, restored>>
            \/ /\ pc.prog = "clockOff" /\ request = "done" /\ request' = "none"
               /\ pc'.prog = "stop" /\ gate' = "frozen" /\ freed' = FALSE /\ UNCHANGED <<ucs, restored>>
            \/ /\ pc.prog = "stop" /\ pc'.prog = "load" /\ ucs' = FALSE /\ restored' = FALSE
               /\ UNCHANGED <<request, gate, freed>>
            \/ /\ pc.prog = "load" /\ pc'.prog = "start" /\ UNCHANGED <<request, gate, ucs, freed, restored>>
            \/ /\ pc.prog = "start" /\ pc'.prog = "free" /\ ucs' = TRUE
               /\ UNCHANGED <<request, gate, freed, restored>>
            \/ /\ pc.prog = "free" /\ pc'.prog = "clockOn" /\ request' = "enable"
               /\ gate' = "free" /\ freed' = FALSE /\ UNCHANGED <<ucs, restored>>
            \/ /\ pc.prog = "clockOn" /\ request = "done" /\ request' = "none"
               /\ pc'.prog \in {"idle", "section", "apu"} /\ UNCHANGED <<gate, ucs, freed, restored>>
         /\ loaded' \in BOOLEAN \/ loaded' = loaded
         /\ target' \in {"none", "ppdi", "pdi"} \/ target' = target
<1> USE DEF ProgPcs, Isolated, hwVars, limitVars, critVars, ghostVars, loadVars
<1>1. ASSUME NEW sections \in Layouts, Download(sections)
      PROVE  /\ pc.prog = "idle" /\ pc' \in Tasks /\ pc'.op = pc.op /\ pc'.sens = pc.sens /\ pc'.prog = "section"
             /\ UNCHANGED <<gap, seen, enabled, params, handle, set, power, crit, hot>>
             /\ UNCHANGED <<request, gate, ucs, freed, restored, loaded>> /\ target' = "ppdi"
  BY <1>1, GotoProg DEF Download
<1>2. CASE SkipSection
  BY <1>2, GotoProg DEF SkipSection, NextKind
<1>3. CASE ApuTransfer
  BY <1>3, GotoProg DEF ApuTransfer, Over
<1>4. CASE LoadBegin
  BY <1>4, GotoProg DEF LoadBegin, Over
<1>5. CASE Freeze
  BY <1>5, GotoProg DEF Freeze
<1>6. CASE Stop
  BY <1>6, GotoProg DEF Stop
<1>7. CASE Load
  BY <1>7, GotoProg DEF Load
<1>8. CASE Start
  BY <1>8, GotoProg DEF Start
<1>9. CASE Free
  BY <1>9, GotoProg DEF Free
<1>10. CASE LoadEnd
  BY <1>10, GotoProg DEF LoadEnd, Over, NextKind
<1> QED
  BY <1>1, <1>2, <1>3, <1>4, <1>5, <1>6, <1>7, <1>8, <1>9, <1>10 DEF ProgStep

(* Where each step of the opcode task leads: a scaling holds the gate, an  *)
(* override changes the parameters.                                        *)
LEMMA OpSteps ==
  ASSUME pc \in Tasks,
         ScaleFreeze \/ OpStep \/ \E s \in [reset : BOOLEAN, on : BOOLEAN, limit : Limits] : SetBegin(s)
  PROVE  /\ pc' \in Tasks /\ pc'.prog = pc.prog /\ pc'.sens = pc.sens
         /\ UNCHANGED <<target, loaded, request, ucs, gap, seen, enabled, handle, power, crit, hot, restored>>
         /\ \/ /\ pc.op = "idle" /\ pc'.op = "scale" /\ gate' = "frozen" /\ UNCHANGED <<freed, params, set>>
            \/ /\ pc.op = "scale" /\ pc'.op = "idle" /\ gate' = "free"
               /\ freed' = (pc.prog \in Isolated) /\ UNCHANGED <<params, set>>
            \/ /\ pc.op = "idle" /\ pc'.op \in {"limit", "off"} /\ UNCHANGED <<gate, freed>>
               /\ \E s \in [reset : BOOLEAN, on : BOOLEAN, limit : Limits] :
                    /\ params' = [params EXCEPT !.update = TRUE, !.scaling = s.on]
                    /\ set' = s \/ set' = NoSet
            \/ /\ pc.op = "limit" /\ pc'.op = "on" /\ UNCHANGED <<gate, freed, set>>
               /\ params' = IF set.limit > 0 THEN [params EXCEPT !.limit = set.limit] ELSE params
            \/ /\ pc.op = "on" /\ pc'.op = "idle" /\ UNCHANGED <<gate, freed>> /\ set' = NoSet
               /\ params' = IF set.limit > 0 THEN [params EXCEPT !.on = TRUE] ELSE params
            \/ /\ pc.op = "off" /\ pc'.op = "default" /\ UNCHANGED <<gate, freed, set>>
               /\ params' = [params EXCEPT !.on = FALSE, !.scaling = FALSE]
            \/ /\ pc.op = "default" /\ pc'.op = "idle" /\ UNCHANGED <<gate, freed>> /\ set' = NoSet
               /\ params' = [params EXCEPT !.limit = Default]
<1> USE DEF OpPcs, hwVars, limitVars, critVars, ghostVars, loadVars
<1>1. CASE ScaleFreeze
  BY <1>1, GotoOp DEF ScaleFreeze
<1>2. CASE ScaleFree
  BY <1>2, GotoOp DEF ScaleFree
<1>3. ASSUME NEW s \in [reset : BOOLEAN, on : BOOLEAN, limit : Limits], SetBegin(s)
      PROVE  /\ pc' \in Tasks /\ pc'.prog = pc.prog /\ pc'.sens = pc.sens
             /\ UNCHANGED <<target, loaded, request, ucs, gap, seen, enabled, handle, power, crit, hot, restored>>
             /\ pc.op = "idle" /\ pc'.op \in {"limit", "off"} /\ UNCHANGED <<gate, freed>>
             /\ params' = [params EXCEPT !.update = TRUE, !.scaling = s.on]
             /\ set' = s \/ set' = NoSet
  BY <1>3, GotoOp DEF SetBegin
<1>4. CASE SetLimit
  BY <1>4, GotoOp DEF SetLimit
<1>5. CASE SetOn
  BY <1>5, GotoOp DEF SetOn
<1>6. CASE SetOff
  BY <1>6, GotoOp DEF SetOff
<1>7. CASE SetDefault
  BY <1>7, GotoOp DEF SetDefault
<1> QED
  BY <1>1, <1>2, <1>3, <1>4, <1>5, <1>6, <1>7 DEF OpStep

(* What the sensor task may do in a step: serve a request, measure, shut   *)
(* the clock down, copy new limits, throttle.                              *)
LEMMA SensSteps ==
  ASSUME pc \in Tasks, SensStep
  PROVE  /\ pc' \in Tasks /\ pc'.prog = pc.prog /\ pc'.op = pc.op
         /\ UNCHANGED <<target, loaded, gate, set, freed>>
         /\ \/ /\ pc.sens = "poll" /\ pc'.sens = "monitor"
               /\ \/ /\ request \in {"disable", "enable"} /\ request' = "done"
                     /\ enabled' = (request = "enable")
                  \/ request \notin {"disable", "enable"} /\ UNCHANGED <<request, enabled>>
               /\ gap' = gap \/ gap' = [gap EXCEPT !.control = FALSE]
               /\ UNCHANGED <<ucs, seen, params, handle, power, crit, hot, restored>>
            \/ /\ UNCHANGED <<request, enabled, ucs, gap, seen, params, handle, restored>>
               /\ Monitor /\ pc.sens = "monitor" /\ pc'.sens \in {"thresholds", "see"}
            \/ /\ UNCHANGED <<request, enabled, ucs, gap, seen, params, handle, power, crit, hot, restored>>
               /\ pc.sens = "thresholds"
               /\ pc'.sens = "see" \/ pc'.sens = IF enabled THEN "flags" ELSE "poll"
            \/ /\ UNCHANGED <<request, enabled, ucs, params, handle, power, crit, hot, restored>>
               /\ gap' = [gap EXCEPT !.on = TRUE] /\ seen' = ucs
               /\ pc.sens = "see" /\ pc'.sens = "trigger"
            \/ /\ UNCHANGED <<request, enabled, params, handle, power, crit, hot>>
               /\ gap' = gap \/ gap' = [gap EXCEPT !.rate = ActivityFloor]
               /\ seen' = seen \/ seen' = TRUE
               /\ WriteBack
               /\ pc.sens \in {"trigger", "restore"} /\ pc'.sens \in {"restore", "thresholds"}
            \/ /\ UNCHANGED <<request, enabled, ucs, gap, seen, params, power, crit, hot, restored>>
               /\ pc.sens = "flags"
               /\ \/ handle' = [handle EXCEPT !.on = params.on] /\ pc'.sens = "limits"
                  \/ UNCHANGED handle /\ pc'.sens = "power"
            \/ /\ UNCHANGED <<request, enabled, ucs, gap, seen, params, power, crit, hot, restored>>
               /\ handle' = [handle EXCEPT !.limit = params.limit]
               /\ pc.sens = "limits" /\ pc'.sens = "clear"
            \/ /\ UNCHANGED <<request, enabled, ucs, gap, seen, handle, power, crit, hot, restored>>
               /\ params' = [params EXCEPT !.update = FALSE]
               /\ pc.sens = "clear" /\ pc'.sens = "power"
            \/ /\ UNCHANGED <<request, enabled, ucs, seen, params, power, crit, hot, restored>>
               /\ Throttle /\ pc.sens = "power" /\ pc'.sens = "poll"
<1> USE DEF SensPcs, ThrottlePcs, hwVars, limitVars, critVars, ghostVars, loadVars
<1>1. CASE Poll
  BY <1>1, GotoSens DEF Poll
<1>2. CASE Monitor
  BY <1>2, GotoSens DEF Monitor
<1>3. CASE Thresholds
  BY <1>3, GotoSens DEF Thresholds
<1>4. CASE ShutdownSee
  BY <1>4, GotoSens DEF ShutdownSee
<1>5. CASE ShutdownTrigger
  BY <1>5, GotoSens DEF ShutdownTrigger
<1>6. CASE ShutdownRestore
  BY <1>6, GotoSens DEF ShutdownRestore
<1>7. CASE CopyFlags
  BY <1>7, GotoSens DEF CopyFlags
<1>8. CASE CopyLimits
  BY <1>8, GotoSens DEF CopyLimits
<1>9. CASE CopyEnd
  BY <1>9, GotoSens DEF CopyEnd
<1>10. CASE Throttle
  BY <1>10, GotoSens DEF Throttle
<1> QED
  BY <1>1, <1>2, <1>3, <1>4, <1>5, <1>6, <1>7, <1>8, <1>9, <1>10 DEF SensStep


-----------------------------------------------------------------------------
(* The rate of the clock                                                   *)

(* The least of a few numbers is one of them, and none is less.            *)
LEMMA LeastOf ==
  ASSUME NEW S \in SUBSET Int, NEW m \in S, \A y \in S : m <= y
  PROVE  Min(S) \in S /\ \A y \in S : Min(S) <= y
BY DEF Min

(* The larger of two numbers.                                              *)
LEMMA LargerOf ==
  ASSUME NEW a \in Int, NEW b \in Int
  PROVE  Max({a, b}) = IF a >= b THEN a ELSE b
<1>1. \E x \in {a, b} : \A y \in {a, b} : x >= y
  OBVIOUS
<1>2. Max({a, b}) \in {a, b} /\ \A y \in {a, b} : Max({a, b}) >= y
  BY <1>1 DEF Max
<1> QED
  BY <1>2

(* The limits and the powers there are, as numbers.                        *)
LEMMA HandleTypes ==
  ASSUME ControlTypes
  PROVE  /\ handle.limit \in Nat /\ handle.on \in BOOLEAN /\ power \in Nat
         /\ handle.activity \in ActivityFloor..ActivityMax /\ handle.activity \in Nat
         /\ params.limit \in Nat /\ set.limit \in Nat /\ Limits \cup {0, Default} \subseteq Nat
<1>1. Limits \cup {0, Default} \subseteq Nat
  BY Numbers DEF Default
<1>2. handle.limit \in Limits \cup {0, Default} /\ handle.on \in BOOLEAN
  BY DEF ControlTypes
<1>3. handle.activity \in ActivityFloor..ActivityMax /\ power \in Powers \cup {0}
  BY DEF ControlTypes
<1>4. params.limit \in Limits \cup {0, Default} /\ set.limit \in Limits \cup {0, Default}
  BY DEF ControlTypes
<1> QED
  BY <1>1, <1>2, <1>3, <1>4, Numbers

(* What clock_throttling_algorithm divides by is none of the limits it is  *)
(* the least of, and never negative.                                       *)
LEMMA DenominatorIs ==
  ASSUME ControlTypes, NEW thermal \in Int
  PROVE  /\ Denominator(handle, thermal) \in Nat
         /\ Denominator(handle, thermal) <= Threshold(handle)
<1>0. /\ BoardPower \in Nat /\ handle.limit \in Nat /\ handle.on \in BOOLEAN
  BY Numbers, HandleTypes
<1> DEFINE A == IF handle.on THEN {handle.limit} ELSE {}
           B == IF thermal >= 0 THEN {thermal} ELSE {}
           S == {BoardPower} \cup A \cup B
<1>1. S \in SUBSET Int /\ S \subseteq Nat
  BY <1>0
<1>2. \E m \in S : \A y \in S : m <= y
  <2>1. \E m \in {BoardPower} \cup A : \A y \in {BoardPower} \cup A : m <= y
    BY <1>0
  <2>2. PICK m \in {BoardPower} \cup A : \A y \in {BoardPower} \cup A : m <= y
    BY <2>1
  <2>3. m \in Int
    BY <1>0
  <2>4. CASE B = {}
    BY <2>2, <2>4
  <2>5. CASE B = {thermal}
    <3>1. CASE m <= thermal
      BY <2>2, <2>5, <3>1
    <3>2. CASE ~(m <= thermal)
      BY <1>0, <2>2, <2>3, <2>5, <3>2
    <3> QED
      BY <3>1, <3>2
  <2> QED
    BY <2>4, <2>5
<1> HIDE DEF S
<1>3. Min(S) \in S /\ \A y \in S : Min(S) <= y
  BY <1>1, <1>2, LeastOf
<1>4. Denominator(handle, thermal) = Min(S)
  BY DEF Denominator, S
<1>5. Threshold(handle) \in S
  BY DEF Threshold, S
<1> QED
  BY <1>1, <1>3, <1>4, <1>5

(* A quotient of a part.                                                   *)
LEMMA PartOf ==
  ASSUME NEW a \in Nat, NEW t \in Nat, NEW k \in Nat, t < k
  PROVE  /\ ((a * t) \div k) \in Nat /\ ((a * t) \div k) <= a
         /\ a > 0 => ((a * t) \div k) < a
<1> DEFINE q == (a * t) \div k
<1>1. a * t \in Nat /\ k \in Nat \ {0}
  OBVIOUS
<1>2. q \in Nat /\ k * q <= a * t
  BY <1>1
<1>3. a * t <= a * k /\ (a > 0 => a * t < a * k)
  OBVIOUS
<1> HIDE DEF q
<1>4. ~(q > a)
  <2>1. ASSUME q > a PROVE FALSE
    <3>1. k * q > k * a
      BY <1>1, <1>2, <2>1
    <3> QED
      BY <1>1, <1>2, <1>3, <3>1
  <2> QED
    BY <2>1
<1>5. a > 0 => q # a
  <2>1. ASSUME a > 0, q = a PROVE FALSE
    BY <1>1, <1>2, <1>3, <2>1
  <2> QED
    BY <2>1
<1> QED
  BY <1>2, <1>4, <1>5 DEF q

(* The rate stays between its floor and full rate.                         *)
LEMMA ActivityIs ==
  ASSUME ControlTypes, NEW thermal \in Int, NEW current \in Nat
  PROVE  LET a == NextActivity(handle, power, current, thermal)
         IN /\ a \in ActivityFloor..ActivityMax
            /\ /\ Threshold(handle) > 0 /\ power > Threshold(handle) /\ current # handle.last
               => a < handle.activity \/ a = ActivityFloor
<1> DEFINE T == Threshold(handle)
           D == Denominator(handle, thermal)
           full == (T - IdlePower) * D
           kernel == power * T - IdlePower * D
           wanted == IF T < IdlePower THEN 0
                     ELSE IF kernel <= 0 THEN ActivityMax
                     ELSE IF current # handle.last /\ full < kernel THEN (handle.activity * full) \div kernel
                     ELSE Min({handle.activity + 1, ActivityMax})
           act == handle.activity
<1>1. T \in Nat
  BY HandleTypes, Numbers DEF Threshold
<1>2. D \in Nat /\ D <= T
  BY DenominatorIs
<1>3. act \in Nat /\ act >= ActivityFloor /\ act <= ActivityMax /\ power \in Nat
  BY HandleTypes, Numbers
<1>4. NextActivity(handle, power, current, thermal) = Max({wanted, ActivityFloor})
  BY DEF NextActivity
<1> HIDE DEF T, D, act
<1>5. full \in Int /\ kernel \in Int /\ (T >= IdlePower => full \in Nat)
  <2>1. IdlePower * D \in Nat /\ power * T \in Nat
    BY <1>1, <1>2, <1>3, Numbers
  <2>2. ASSUME T >= IdlePower PROVE full \in Nat
    <3>1. T - IdlePower \in Nat
      BY <1>1, <2>2, Numbers
    <3> QED
      BY <1>2, <3>1
  <2> QED
    BY <1>1, <1>2, <2>1, <2>2, Numbers
<1>6. T > 0 /\ power > T => full < kernel
  <2>1. ASSUME T > 0, power > T PROVE full < kernel
    <3>1. T * D <= T * T /\ T * T < power * T
      <4>1. T * D <= T * T
        BY <1>1, <1>2
      <4>2. T * T < power * T
        BY <1>1, <1>3, <2>1
      <4> QED
        BY <4>1, <4>2
    <3>2. full = T * D - IdlePower * D
      BY <1>1, <1>2, Numbers
    <3>3. T * D \in Nat /\ T * T \in Nat /\ power * T \in Nat /\ IdlePower * D \in Nat
      BY <1>1, <1>2, <1>3, Numbers
    <3> QED
      BY <3>1, <3>2, <3>3
  <2> QED
    BY <2>1
<1> HIDE DEF full, kernel
<1>7. /\ wanted \in Int /\ wanted <= ActivityMax
      /\ T > 0 /\ power > T /\ current # handle.last => wanted < act \/ wanted = 0
  <2>1. CASE T < IdlePower
    BY <2>1, Numbers
  <2>2. CASE T >= IdlePower /\ kernel <= 0
    <3>1. wanted = ActivityMax
      BY <1>1, <2>2, Numbers
    <3>2. ~(full < kernel)
      BY <1>5, <2>2
    <3> QED
      BY <1>6, <3>1, <3>2, Numbers
  <2>3. CASE T >= IdlePower /\ ~(kernel <= 0) /\ current # handle.last /\ full < kernel
    <3>1. wanted = (act * full) \div kernel
      BY <1>1, <2>3, Numbers DEF act
    <3>2. kernel \in Nat /\ full \in Nat /\ act > 0
      BY <1>3, <1>5, <2>3, Numbers
    <3>3. wanted \in Nat /\ wanted < act
      BY <1>3, <2>3, <3>1, <3>2, PartOf
    <3> HIDE DEF wanted
    <3> QED
      BY <1>3, <3>3, Numbers
  <2>4. CASE T >= IdlePower /\ ~(kernel <= 0) /\ ~(current # handle.last /\ full < kernel)
    <3>1. wanted = Min({act + 1, ActivityMax})
      BY <1>1, <2>4, Numbers DEF act
    <3>2. \E m \in {act + 1, ActivityMax} : \A y \in {act + 1, ActivityMax} : m <= y
      BY <1>3, Numbers
    <3>3. {act + 1, ActivityMax} \in SUBSET Int
      BY <1>3, Numbers
    <3>4. wanted \in {act + 1, ActivityMax} /\ wanted <= ActivityMax
      BY <3>1, <3>2, <3>3, LeastOf
    <3> HIDE DEF wanted
    <3> QED
      BY <1>3, <1>6, <2>4, <3>4, Numbers
  <2> QED
    BY <1>1, <1>5, <2>1, <2>2, <2>3, <2>4, Numbers
<1> HIDE DEF wanted
<1>8. NextActivity(handle, power, current, thermal) = IF wanted >= ActivityFloor THEN wanted ELSE ActivityFloor
  BY <1>4, <1>7, LargerOf, Numbers
<1> QED
  BY <1>7, <1>8, Numbers DEF T, act

-----------------------------------------------------------------------------
(* Type correctness                                                        *)

(* The steps of the program task keep the types.                           *)
LEMMA TypeProg ==
  ASSUME ControlTypes, ProgStep \/ \E sections \in Layouts : Download(sections)
  PROVE  ControlTypes'
<1>1. pc \in Tasks
  BY DEF ControlTypes, Tasks
<1>2. /\ pc' \in Tasks
      /\ UNCHANGED <<gap, seen, enabled, params, handle, set, power, crit, hot>>
      /\ loaded' \in BOOLEAN \/ loaded' = loaded
      /\ target' \in {"none", "ppdi", "pdi"} \/ target' = target
  BY <1>1, ProgSteps
<1>3. /\ request' \in {"none", "disable", "enable"} \/ request' = request
      /\ gate' \in {"free", "frozen"} \/ gate' = gate
      /\ ucs' \in BOOLEAN \/ ucs' = ucs
      /\ freed' = FALSE \/ freed' = freed
      /\ restored' = FALSE \/ restored' = restored
  BY <1>1, ProgSteps
<1>4. loaded' \in BOOLEAN /\ target' \in {"none", "ppdi", "pdi"}
  BY <1>2 DEF ControlTypes
<1>5. request' \in {"none", "disable", "enable", "done"} /\ gate' \in {"free", "frozen"}
  BY <1>3 DEF ControlTypes
<1>6. ucs' \in BOOLEAN /\ freed' \in BOOLEAN /\ restored' \in BOOLEAN
  BY <1>3 DEF ControlTypes
<1> QED
  BY <1>2, <1>4, <1>5, <1>6 DEF ControlTypes, Tasks

(* The steps of the opcode task keep the types.                            *)
LEMMA TypeOp ==
  ASSUME ControlTypes,
         ScaleFreeze \/ OpStep \/ \E s \in [reset : BOOLEAN, on : BOOLEAN, limit : Limits] : SetBegin(s)
  PROVE  ControlTypes'
<1> DEFINE Params == [update : BOOLEAN, scaling : BOOLEAN, on : BOOLEAN, limit : Limits \cup {0, Default}]
           Sets == [reset : BOOLEAN, on : BOOLEAN, limit : Limits \cup {0}]
<1>1. pc \in Tasks /\ params \in Params /\ set \in Sets
  BY DEF ControlTypes, Tasks
<1>2. /\ pc' \in Tasks
      /\ UNCHANGED <<target, loaded, request, ucs, gap, seen, enabled, handle, power, crit, hot, restored>>
  BY <1>1, OpSteps
<1>3. /\ gate' \in {"free", "frozen"} \/ gate' = gate
      /\ freed' = freed \/ freed' = (pc.prog \in Isolated)
  BY <1>1, OpSteps
<1>4. set' = set \/ set' \in Sets
  <2>1. NoSet \in Sets /\ [reset : BOOLEAN, on : BOOLEAN, limit : Limits] \subseteq Sets
    BY DEF NoSet
  <2> HIDE DEF Sets
  <2> QED
    BY <1>1, <2>1, OpSteps
<1>5. params' \in Params
  <2>1. \/ params' = params
        \/ \E s \in BOOLEAN : params' = [params EXCEPT !.update = TRUE, !.scaling = s]
        \/ params' = [params EXCEPT !.limit = set.limit]
        \/ params' = [params EXCEPT !.on = TRUE]
        \/ params' = [params EXCEPT !.on = FALSE, !.scaling = FALSE]
        \/ params' = [params EXCEPT !.limit = Default]
    <3>1. \A s \in [reset : BOOLEAN, on : BOOLEAN, limit : Limits] : s.on \in BOOLEAN
      OBVIOUS
    <3> HIDE DEF Params, Sets
    <3> QED
      BY <1>1, <3>1, OpSteps
  <2> QED
    BY <1>1, <2>1
<1>6. gate' \in {"free", "frozen"} /\ freed' \in BOOLEAN /\ set' \in Sets
  <2>1. freed' \in BOOLEAN
    <3>1. freed \in BOOLEAN
      BY DEF ControlTypes
    <3>2. (pc.prog \in Isolated) \in BOOLEAN
      OBVIOUS
    <3>3. freed' = freed \/ freed' = (pc.prog \in Isolated)
      BY <1>3
    <3> QED
      BY <3>1, <3>2, <3>3
  <2>2. gate' \in {"free", "frozen"}
    BY <1>3 DEF ControlTypes
  <2> QED
    BY <1>1, <1>4, <2>1, <2>2
<1> QED
  BY <1>2, <1>5, <1>6 DEF ControlTypes, Tasks

(* The steps of the sensor task keep the types.                            *)
LEMMA TypeSens ==
  ASSUME ControlTypes, SensStep
  PROVE  ControlTypes'
<1> DEFINE Params == [update : BOOLEAN, scaling : BOOLEAN, on : BOOLEAN, limit : Limits \cup {0, Default}]
           Handles == [on : BOOLEAN, limit : Limits \cup {0, Default},
                       activity : ActivityFloor..ActivityMax, last : Nat]
           Gaps == [on : BOOLEAN, control : BOOLEAN, rate : ActivityFloor..ActivityMax]
<1>1. pc \in Tasks /\ params \in Params /\ handle \in Handles /\ gap \in Gaps
  BY DEF ControlTypes, Tasks
<1>2. pc' \in Tasks /\ UNCHANGED <<target, loaded, gate, set, freed>>
  BY <1>1, SensSteps
<1>3. CASE Monitor
  <2>1. pc.sens = "monitor"
    BY <1>3 DEF Monitor
  <2>2. UNCHANGED <<request, enabled, ucs, gap, seen, params, handle, restored>>
    BY <1>3 DEF Monitor, hwVars, limitVars, ghostVars
  <2>3. power' \in Powers /\ crit \in 0..CritWait /\ hot \in Nat
    BY <1>3 DEF Monitor, ControlTypes
  <2>4. \/ crit' = 0 /\ hot' = 0
        \/ crit = CritWait /\ crit' = 1 /\ hot' = 0
        \/ crit # CritWait /\ crit' = crit + 1 /\ hot' = hot + 1
    BY <1>3 DEF Monitor
  <2>5. crit' \in 0..CritWait /\ hot' \in Nat
    BY <2>3, <2>4, Numbers
  <2> QED
    BY <1>2, <2>2, <2>3, <2>5 DEF ControlTypes, Tasks
<1>4. CASE Throttle
  <2>1. UNCHANGED <<request, enabled, ucs, seen, params, power, crit, hot, restored>>
    BY <1>4 DEF Throttle, critVars, ghostVars
  <2>2. CASE params.scaling
    <3>1. PICK thermal \in ThermalPowers, current \in Currents :
            handle' = [handle EXCEPT !.activity = NextActivity(handle, power, current, thermal),
                                     !.last = current]
      BY <1>4, <2>2 DEF Throttle
    <3>a. current \in Nat
      BY Numbers
    <3>2. NextActivity(handle, power, current, thermal) \in ActivityFloor..ActivityMax
      BY <3>a, Numbers, ActivityIs
    <3>3. handle' \in Handles
      BY <1>1, <3>1, <3>2, <3>a
    <3>4. gap' = [on |-> TRUE, control |-> FALSE, rate |-> handle'.activity]
      BY <1>4, <2>2 DEF Throttle
    <3>5. gap' \in Gaps
      BY <3>3, <3>4
    <3> QED
      BY <1>2, <2>1, <3>3, <3>5 DEF ControlTypes, Tasks
  <2>3. CASE ~params.scaling
    <3>1. UNCHANGED <<handle, gap>>
      BY <1>4, <2>3 DEF Throttle
    <3> QED
      BY <1>2, <2>1, <3>1 DEF ControlTypes, Tasks
  <2> QED
    BY <2>2, <2>3
<1>5. CASE ~Monitor /\ ~Throttle
  <2>1. UNCHANGED <<power, crit, hot>>
    BY <1>1, <1>5, SensSteps
  <2>2. request' \in {"done", request} /\ (enabled' = enabled \/ enabled' = (request = "enable"))
    BY <1>1, <1>5, SensSteps
  <2>3. gap' \in Gaps
    <3>1. \/ gap' = gap \/ gap' = [gap EXCEPT !.on = TRUE] \/ gap' = [gap EXCEPT !.control = FALSE]
          \/ gap' = [gap EXCEPT !.rate = ActivityFloor]
      BY <1>1, <1>5, SensSteps
    <3>2. ActivityFloor \in ActivityFloor..ActivityMax
      BY Numbers
    <3> QED
      BY <1>1, <3>1, <3>2
  <2>4. seen' \in BOOLEAN /\ ucs' \in BOOLEAN /\ restored' \in BOOLEAN
    <3>1. seen' \in {seen, ucs, TRUE} /\ ucs' \in {ucs, seen}
      BY <1>1, <1>5, SensSteps DEF WriteBack
    <3>2. restored' = restored \/ restored' = (restored \/ ucs # seen)
      BY <1>1, <1>5, SensSteps DEF WriteBack
    <3> QED
      BY <3>1, <3>2 DEF ControlTypes
  <2>5. params' \in Params /\ handle' \in Handles
    <3>1. params' = params \/ params' = [params EXCEPT !.update = FALSE]
      BY <1>1, <1>5, SensSteps
    <3>2. \/ handle' = handle \/ handle' = [handle EXCEPT !.on = params.on]
          \/ handle' = [handle EXCEPT !.limit = params.limit]
      BY <1>1, <1>5, SensSteps
    <3> QED
      BY <1>1, <3>1, <3>2
  <2>6. request' \in {"none", "disable", "enable", "done"} /\ enabled' \in BOOLEAN
    <3>1. (request = "enable") \in BOOLEAN
      OBVIOUS
    <3>2. enabled' \in BOOLEAN
      BY <2>2, <3>1 DEF ControlTypes
    <3> QED
      BY <2>2, <3>2 DEF ControlTypes
  <2> HIDE DEF Params, Handles, Gaps
  <2>7. /\ UNCHANGED <<target, loaded, gate, set, freed, power, crit, hot>> /\ pc' \in Tasks
        /\ seen' \in BOOLEAN /\ ucs' \in BOOLEAN /\ restored' \in BOOLEAN
        /\ params' \in Params /\ handle' \in Handles /\ gap' \in Gaps
    BY <1>2, <2>1, <2>3, <2>4, <2>5
  <2> QED
    BY <2>6, <2>7 DEF ControlTypes, Tasks, Params, Handles, Gaps
<1> QED
  BY <1>3, <1>4, <1>5

(* Every step keeps the types.                                             *)
LEMMA TypeStep == ControlTypes /\ [Next]_vars => ControlTypes'
<1> SUFFICES ASSUME ControlTypes, [Next]_vars PROVE ControlTypes'
  OBVIOUS
<1>1. CASE UNCHANGED vars
  BY <1>1 DEF vars, ControlTypes
<1> QED
  BY <1>1, TypeProg, TypeOp, TypeSens DEF Next

(* The tasks start with the types they keep.                               *)
LEMMA TypeInit == Init => ControlTypes
<1> SUFFICES ASSUME Init PROVE ControlTypes
  OBVIOUS
<1>1. pc \in [prog : ProgPcs, op : OpPcs, sens : SensPcs]
  BY DEF Init, ProgPcs, OpPcs, SensPcs
<1>2. ActivityMax \in ActivityFloor..ActivityMax /\ 1 \in 0..CritWait
  BY Numbers
<1>3. /\ gap \in [on : BOOLEAN, control : BOOLEAN, rate : ActivityFloor..ActivityMax]
      /\ params \in [update : BOOLEAN, scaling : BOOLEAN, on : BOOLEAN, limit : Limits \cup {0, Default}]
      /\ handle \in [on : BOOLEAN, limit : Limits \cup {0, Default},
                     activity : ActivityFloor..ActivityMax, last : Nat]
      /\ set \in [reset : BOOLEAN, on : BOOLEAN, limit : Limits \cup {0}]
  <2>1. gap \in [on : BOOLEAN, control : BOOLEAN, rate : ActivityFloor..ActivityMax]
    BY <1>2 DEF Init
  <2>3. handle \in [on : BOOLEAN, limit : Limits \cup {0, Default},
                    activity : ActivityFloor..ActivityMax, last : Nat]
    BY <1>2 DEF Init
  <2> QED
    BY <2>1, <2>3 DEF Init, NoSet
<1> QED
  BY <1>1, <1>2, <1>3 DEF ControlTypes, Init

-----------------------------------------------------------------------------
(* Isolation, gate and clock                                               *)

(* The program task asks for the kernel clock to be let alone before it    *)
(* freezes the gate, and has it back after it has freed it.                *)
LEMMA ControlProg ==
  ASSUME ControlTypes, ControlInv, ProgStep \/ \E sections \in Layouts : Download(sections)
  PROVE  ControlInv'
<1>1. pc \in Tasks /\ request \in {"none", "disable", "enable", "done"}
  BY DEF ControlTypes, Tasks
<1>2. RequestInv'
  <2>1. /\ pc'.sens = pc.sens /\ enabled' = enabled
        /\ \/ /\ pc.prog \notin {"clockOff", "clockOn"} /\ request' = request
              /\ pc'.prog \in {"idle", "section", "apu"} \/ pc.prog \in Isolated
              /\ pc'.prog \notin {"clockOff", "clockOn"}
           \/ pc'.prog = "clockOff" /\ request' = "disable"
           \/ pc'.prog = "stop" /\ pc.prog = "clockOff" /\ request = "done" /\ request' = "none"
           \/ pc'.prog = "clockOn" /\ request' = "enable"
           \/ pc'.prog \in {"idle", "section", "apu"} /\ request' = "none"
    BY <1>1, ProgSteps DEF Isolated
  <2>2. /\ request = "none" <=> pc.prog \notin {"clockOff", "clockOn"}
        /\ pc.prog \in Isolated \/ (pc.prog = "clockOff" /\ request = "done") =>
             ~enabled /\ pc.sens \notin ThrottlePcs
    BY DEF RequestInv, ControlInv
  <2>3. (request = "none" <=> pc.prog \notin {"clockOff", "clockOn"})'
    BY <2>1, <2>2
  <2>4. (request = "disable" => pc.prog = "clockOff")' /\ (request = "enable" => pc.prog = "clockOn")'
    BY <2>1, <2>2
  <2>5. (pc.prog \in Isolated \/ (pc.prog = "clockOff" /\ request = "done") =>
             ~enabled /\ pc.sens \notin ThrottlePcs)'
    BY <2>1, <2>2 DEF Isolated
  <2> QED
    BY <2>3, <2>4, <2>5 DEF RequestInv
<1>3. GateInv'
  BY <1>1, ProgSteps DEF GateInv, ControlInv, Isolated
<1>4. ClockInv'
  BY <1>1, ProgSteps DEF ClockInv, ControlInv, Isolated
<1> QED
  BY <1>2, <1>3, <1>4 DEF ControlInv

(* A scaling that frees the gate of a load has freed it.                   *)
LEMMA ControlOp ==
  ASSUME ControlTypes, ControlInv,
         ScaleFreeze \/ OpStep \/ \E s \in [reset : BOOLEAN, on : BOOLEAN, limit : Limits] : SetBegin(s)
  PROVE  ControlInv'
<1>1. pc \in Tasks /\ pc.op \in OpPcs
  BY DEF ControlTypes, Tasks
<1>2. /\ pc'.prog = pc.prog /\ pc'.sens = pc.sens /\ UNCHANGED <<request, enabled, ucs, restored>>
      /\ \/ pc'.op = "scale" /\ gate' = "frozen" /\ freed' = freed
         \/ pc'.op = "idle" /\ gate' = "free" /\ freed' = (pc.prog \in Isolated)
         \/ pc.op # "scale" /\ UNCHANGED <<gate, freed>>
  BY <1>1, OpSteps
<1>3. RequestInv' /\ ClockInv'
  BY <1>2 DEF RequestInv, ClockInv, ControlInv
<1>4. GateInv'
  BY <1>2 DEF GateInv, ControlInv
<1> QED
  BY <1>3, <1>4 DEF ControlInv

(* The sensor task lets a load alone once it has answered, but for a       *)
(* shutdown, which writes back what it has read of the clock.              *)
LEMMA ControlSens ==
  ASSUME ControlTypes, ControlInv, SensStep
  PROVE  ControlInv'
<1>1. pc \in Tasks /\ pc.sens \in SensPcs /\ enabled \in BOOLEAN
      /\ request \in {"none", "disable", "enable", "done"}
  BY DEF ControlTypes, Tasks
<1>2. pc'.prog = pc.prog /\ pc'.op = pc.op /\ UNCHANGED <<gate, freed>>
  BY <1>1, SensSteps
<1>3. \/ UNCHANGED <<ucs, restored>>
      \/ WriteBack
  BY <1>1, SensSteps
<1>4. \/ /\ request \in {"disable", "enable"} /\ request' = "done" /\ enabled' = (request = "enable")
         /\ pc'.sens = "monitor"
      \/ /\ UNCHANGED <<request, enabled>>
         /\ pc'.sens \in ThrottlePcs => pc.sens \in ThrottlePcs \/ enabled
  BY <1>1, SensSteps DEF ThrottlePcs
<1>5. GateInv'
  BY <1>2 DEF GateInv, ControlInv
<1>6. ClockInv'
  <2>1. ucs \in BOOLEAN /\ seen \in BOOLEAN /\ restored \in BOOLEAN
    BY DEF ControlTypes
  <2>2. CASE UNCHANGED <<ucs, restored>>
    BY <1>2, <2>2 DEF ClockInv, ControlInv
  <2>3. CASE WriteBack
    <3>1. restored' \/ (ucs' = ucs /\ restored' = restored)
      BY <2>1, <2>3 DEF WriteBack
    <3> QED
      BY <1>2, <3>1 DEF ClockInv, ControlInv
  <2> QED
    BY <1>3, <2>2, <2>3
<1>7. RequestInv'
  <2>1. CASE /\ request \in {"disable", "enable"} /\ request' = "done" /\ enabled' = (request = "enable")
             /\ pc'.sens = "monitor"
    BY <1>2, <2>1 DEF RequestInv, ControlInv, Isolated, ThrottlePcs
  <2>2. CASE /\ UNCHANGED <<request, enabled>>
             /\ pc'.sens \in ThrottlePcs => pc.sens \in ThrottlePcs \/ enabled
    BY <1>2, <2>2 DEF RequestInv, ControlInv
  <2> QED
    BY <1>4, <2>1, <2>2
<1> QED
  BY <1>5, <1>6, <1>7 DEF ControlInv

(* Every step keeps the gate and the clock as the download needs them.     *)
LEMMA ControlStep == ControlTypes /\ ControlInv /\ [Next]_vars => ControlInv'
<1> SUFFICES ASSUME ControlTypes, ControlInv, [Next]_vars PROVE ControlInv'
  OBVIOUS
<1>1. CASE UNCHANGED vars
  BY <1>1 DEF vars, ControlInv, RequestInv, GateInv, ClockInv
<1> QED
  BY <1>1, ControlProg, ControlOp, ControlSens DEF Next

(* The gate is free and the clock runs before the first download.          *)
LEMMA ControlInit == Init => ControlInv
BY DEF Init, ControlInv, RequestInv, GateInv, ClockInv, Isolated, ThrottlePcs

(* The types and the control hold in every state.                          *)
LEMMA ControlAlways == Spec => [](ControlTypes /\ ControlInv)
<1>1. Init => ControlTypes /\ ControlInv
  BY TypeInit, ControlInit
<1>2. ControlTypes /\ ControlInv /\ [Next]_vars => (ControlTypes /\ ControlInv)'
  BY TypeStep, ControlStep
<1> QED
  BY <1>1, <1>2, PTL DEF Spec

(* The variables of rmgmt_xfer.c, clock_throttling.c and the registers of  *)
(* the PL keep their types; the rate written to the hardware is between    *)
(* the floor of the algorithm and full rate.                               *)
THEOREM TypeCorrect == Spec => []TypeOK
<1>1. ControlTypes /\ ControlInv => TypeOK
  BY DEF ControlTypes, TypeOK, ProgPcs, OpPcs, SensPcs, ThrottlePcs
<1> QED
  BY <1>1, ControlAlways, PTL

(* While fpga_pdi_download loads a PDI, the gate is frozen unless a        *)
(* CLOCK_SCALE command has freed it, the clock is stopped unless a         *)
(* shutdown has written back what it had read, and the throttling of the   *)
(* sensor task keeps away, for every download and every interleaving.      *)
THEOREM LoadIsIsolated == Spec => []LoadIsolated
<1>1. ControlTypes /\ ControlInv => LoadIsolated
  BY DEF ControlInv, RequestInv, GateInv, ClockInv, LoadIsolated, Isolated, ThrottlePcs
<1> QED
  BY <1>1, ControlAlways, PTL

(* When no command is under way, whatever the loads came to, the gate is   *)
(* free, and the clock runs unless a shutdown has put a stop back.         *)
THEOREM EndsOpen == Spec => []DownloadEndsOpen
<1>1. ControlTypes /\ ControlInv => DownloadEndsOpen
  BY DEF ControlInv, GateInv, ClockInv, DownloadEndsOpen, Isolated
<1> QED
  BY <1>1, ControlAlways, PTL

-----------------------------------------------------------------------------
(* The limit of the host                                                   *)

(* An override is switched on after its limit is there, and a limit that   *)
(* is there is never taken away.                                           *)
LEMMA LimitOp ==
  ASSUME ControlTypes, LimitInv,
         ScaleFreeze \/ OpStep \/ \E s \in [reset : BOOLEAN, on : BOOLEAN, limit : Limits] : SetBegin(s)
  PROVE  LimitInv'
<1>1. pc \in Tasks /\ set.limit \in Nat /\ params.limit \in Nat /\ params.on \in BOOLEAN
  BY HandleTypes DEF ControlTypes, Tasks
<1>2. params \in [update : BOOLEAN, scaling : BOOLEAN, on : BOOLEAN, limit : Limits \cup {0, Default}]
  BY DEF ControlTypes
<1>3. pc'.sens = pc.sens /\ handle' = handle
  BY <1>1, OpSteps
<1>4. Default > 0
  BY Numbers DEF Default
<1>5. /\ \/ params'.limit = params.limit /\ params'.on \in {params.on, FALSE}
         \/ params'.limit = set.limit /\ set.limit > 0 /\ params'.on = params.on
         \/ params'.limit = params.limit /\ set.limit > 0 /\ pc.op = "on"
         \/ params'.limit = Default /\ params'.on = params.on
      /\ pc'.op = "on" =>
           pc.op = "limit" /\ set' = set /\ (set.limit > 0 => params'.limit = set.limit)
  <2>1. CASE pc.op = "idle"
    <3>1. \/ params' = params
          \/ \E s \in BOOLEAN : params' = [params EXCEPT !.update = TRUE, !.scaling = s]
      <4>1. \A s \in [reset : BOOLEAN, on : BOOLEAN, limit : Limits] : s.on \in BOOLEAN
        OBVIOUS
      <4> QED
        BY <1>1, <2>1, <4>1, OpSteps
    <3>2. pc'.op # "on"
      BY <1>1, <2>1, OpSteps
    <3> QED
      BY <1>2, <3>1, <3>2
  <2>2. CASE pc.op = "scale"
    BY <1>1, <2>2, OpSteps
  <2>3. CASE pc.op = "limit"
    BY <1>1, <1>2, <2>3, OpSteps
  <2>4. CASE pc.op = "on"
    BY <1>1, <1>2, <2>4, OpSteps
  <2>5. CASE pc.op = "off"
    BY <1>1, <1>2, <2>5, OpSteps
  <2>6. CASE pc.op = "default"
    BY <1>1, <1>2, <2>6, OpSteps
  <2> QED
    BY <1>1, <2>1, <2>2, <2>3, <2>4, <2>5, <2>6 DEF Tasks, OpPcs
<1>6. params.limit > 0 => params'.limit > 0
  BY <1>4, <1>5
<1>7. params'.on => params'.limit > 0
  BY <1>4, <1>5 DEF LimitInv
<1>8. (pc.op = "on" /\ set.limit > 0 => params.limit > 0)'
  BY <1>5
<1>9. (pc.sens = "limits" /\ handle.on => params.limit > 0)' /\ OverrideHasLimit'
  BY <1>3, <1>6 DEF LimitInv, OverrideHasLimit
<1> QED
  BY <1>7, <1>8, <1>9 DEF LimitInv

(* The copy takes the limits in force, which are there.                    *)
LEMMA LimitSens ==
  ASSUME ControlTypes, LimitInv, SensStep
  PROVE  LimitInv'
<1> DEFINE Handles == [on : BOOLEAN, limit : Limits \cup {0, Default},
                       activity : ActivityFloor..ActivityMax, last : Nat]
<1>1. pc \in Tasks
  BY DEF ControlTypes, Tasks
<1>2. /\ params \in [update : BOOLEAN, scaling : BOOLEAN, on : BOOLEAN, limit : Limits \cup {0, Default}]
      /\ handle \in Handles
  BY DEF ControlTypes
<1>3. pc'.op = pc.op /\ set' = set
  BY <1>1, SensSteps
<1>4. params'.on = params.on /\ params'.limit = params.limit
  <2>1. params' = params \/ params' = [params EXCEPT !.update = FALSE]
    BY <1>1, SensSteps
  <2> QED
    BY <1>2, <2>1
<1>5. \/ handle'.on = handle.on /\ handle'.limit = handle.limit /\ pc'.sens # "limits" /\ pc.sens # "limits"
      \/ handle'.on = params.on /\ pc'.sens = "limits"
      \/ /\ handle'.on = handle.on /\ handle'.limit = params.limit
         /\ pc.sens = "limits" /\ pc'.sens # "limits"
  <2>1. CASE Throttle
    <3>1. \/ handle' = handle
          \/ \E a, c : handle' = [handle EXCEPT !.activity = a, !.last = c]
      BY <2>1 DEF Throttle
    <3>2. handle'.on = handle.on /\ handle'.limit = handle.limit
      BY <1>2, <3>1
    <3>3. pc'.sens = "poll" /\ pc.sens = "power"
      BY <1>1, <2>1, GotoSens DEF Throttle, SensPcs
    <3> QED
      BY <3>2, <3>3
  <2>2. CASE pc.sens = "flags" /\ ~Throttle
    BY <1>1, <1>2, <2>2, SensSteps
  <2>3. CASE pc.sens = "limits" /\ ~Throttle
    BY <1>1, <1>2, <2>3, SensSteps
  <2>4. CASE pc.sens \notin {"flags", "limits"} /\ ~Throttle
    BY <1>1, <2>4, SensSteps
  <2> QED
    BY <2>1, <2>2, <2>3, <2>4
<1>6. /\ params.on => params.limit > 0
      /\ pc.op = "on" /\ set.limit > 0 => params.limit > 0
      /\ pc.sens = "limits" /\ handle.on => params.limit > 0
      /\ handle.on /\ pc.sens # "limits" => handle.limit > 0
  BY DEF LimitInv, OverrideHasLimit
<1>7. (pc.sens = "limits" /\ handle.on => params.limit > 0)'
  BY <1>4, <1>5, <1>6
<1>8. OverrideHasLimit'
  BY <1>4, <1>5, <1>6 DEF OverrideHasLimit
<1> QED
  BY <1>3, <1>4, <1>6, <1>7, <1>8 DEF LimitInv

(* Every step keeps the limits that are switched on.                       *)
LEMMA LimitStep == ControlTypes /\ LimitInv /\ [Next]_vars => LimitInv'
<1> SUFFICES ASSUME ControlTypes, LimitInv, [Next]_vars PROVE LimitInv'
  OBVIOUS
<1>1. CASE UNCHANGED vars
  BY <1>1 DEF vars, LimitInv, OverrideHasLimit
<1>2. CASE ProgStep \/ \E sections \in Layouts : Download(sections)
  <2>1. pc \in Tasks
    BY DEF ControlTypes, Tasks
  <2>2. pc'.op = pc.op /\ pc'.sens = pc.sens /\ UNCHANGED <<params, handle, set>>
    BY <1>2, <2>1, ProgSteps
  <2> QED
    BY <2>2 DEF LimitInv, OverrideHasLimit
<1> QED
  BY <1>1, <1>2, LimitOp, LimitSens DEF Next

(* The throttling never divides by a limit of the host that is not there:  *)
(* vmc_set_clk_throttling_override and the copy of its parameters share    *)
(* them without a lock, and are fine in every interleaving.                *)
THEOREM OverrideIsSafe == Spec => []OverrideHasLimit
<1>1. Init => ControlTypes /\ LimitInv
  <2>1. Init => LimitInv
    BY DEF Init, LimitInv, OverrideHasLimit
  <2> QED
    BY <2>1, TypeInit
<1>2. ControlTypes /\ LimitInv /\ [Next]_vars => (ControlTypes /\ LimitInv)'
  BY TypeStep, LimitStep
<1>3. LimitInv => OverrideHasLimit
  BY DEF LimitInv
<1> QED
  BY <1>1, <1>2, <1>3, PTL DEF Spec

-----------------------------------------------------------------------------
(* Power                                                                   *)

(* Fast attack: in a pass of clock_throttling_algorithm_power in which the *)
(* current of a rail has changed and the power is above the limit in       *)
(* force, the board's or the host's, the rate goes down or is at its       *)
(* floor, for all currents, powers, limits and temperatures.               *)
THEOREM FastAttack == Spec => OverPowerSlowsDown
<1>1. Init => ControlTypes /\ LimitInv
  <2>1. Init => LimitInv
    BY DEF Init, LimitInv, OverrideHasLimit
  <2> QED
    BY <2>1, TypeInit
<1>2. ControlTypes /\ LimitInv /\ [Next]_vars => (ControlTypes /\ LimitInv)'
  BY TypeStep, LimitStep
<1> DEFINE Fast ==
      /\ pc.sens = "power" /\ pc'.sens = "poll" /\ params.scaling
      /\ handle'.last # handle.last
      /\ power > Threshold(handle)
      => gap'.rate < handle.activity \/ gap'.rate = ActivityFloor
<1>3. ControlTypes /\ LimitInv /\ [Next]_vars => [Fast]_vars
  <2> SUFFICES ASSUME ControlTypes, LimitInv, [Next]_vars, vars' # vars,
                      pc.sens = "power", pc'.sens = "poll", params.scaling,
                      handle'.last # handle.last, power > Threshold(handle)
               PROVE  gap'.rate < handle.activity \/ gap'.rate = ActivityFloor
    OBVIOUS
  <2>1. pc \in Tasks
    BY DEF ControlTypes, Tasks
  <2>2. Throttle
    <3>1. SensStep
      BY <2>1, ProgSteps, OpSteps DEF Next
    <3> QED
      BY <2>1, <3>1, SensSteps
  <2>3. PICK thermal \in ThermalPowers, current \in Currents :
          handle' = [handle EXCEPT !.activity = NextActivity(handle, power, current, thermal),
                                   !.last = current]
    BY <2>2 DEF Throttle
  <2>4. gap'.rate = NextActivity(handle, power, current, thermal)
    <3>1. gap' = [on |-> TRUE, control |-> FALSE, rate |-> handle'.activity]
      BY <2>2 DEF Throttle
    <3> QED
      BY <2>3, <3>1 DEF ControlTypes
  <2>5. Threshold(handle) > 0
    BY HandleTypes, Numbers DEF Threshold, LimitInv, OverrideHasLimit
  <2>6. current \in Nat /\ current # handle.last
    BY <2>3, Numbers DEF ControlTypes
  <2> QED
    BY <2>4, <2>5, <2>6, ActivityIs, Numbers
<1> QED
  BY <1>1, <1>2, <1>3, PTL DEF Spec, OverPowerSlowsDown

(* The monitor counts the critical readings in a row.                      *)
LEMMA CritStep == ControlTypes /\ CritInv /\ [Next]_vars => CritInv'
<1> SUFFICES ASSUME ControlTypes, CritInv, [Next]_vars PROVE CritInv'
  OBVIOUS
<1>1. pc \in Tasks /\ crit \in Nat /\ hot \in Nat
  BY Numbers DEF ControlTypes, Tasks
<1>2. CASE Monitor
  <2>1. \/ crit' = 0 /\ hot' = 0
        \/ crit' = 1 /\ hot' = 0
        \/ crit' = crit + 1 /\ hot' = hot + 1
    BY <1>2 DEF Monitor
  <2> QED
    BY <1>1, <2>1 DEF CritInv
<1>3. CASE ~Monitor
  <2>1. crit' = crit /\ hot' = hot
    <3>1. CASE Throttle
      BY <3>1 DEF Throttle, critVars
    <3>2. CASE UNCHANGED vars
      BY <3>2 DEF vars
    <3>3. CASE SensStep /\ ~Throttle
      BY <1>1, <1>3, <3>3, SensSteps
    <3>4. CASE ProgStep \/ \E sections \in Layouts : Download(sections)
      BY <1>1, <3>4, ProgSteps
    <3>5. CASE ScaleFreeze \/ OpStep \/ \E s \in [reset : BOOLEAN, on : BOOLEAN, limit : Limits] : SetBegin(s)
      BY <1>1, <3>5, OpSteps
    <3> QED
      BY <3>1, <3>2, <3>3, <3>4, <3>5 DEF Next
  <2> QED
    BY <2>1 DEF CritInv
<1> QED
  BY <1>2, <1>3

(* The clock is shut down for power exactly when it has been critical for  *)
(* MAX_COUNT_TO_WAIT_1SEC readings in a row: never after fewer, and always *)
(* at the next one, for every such count.                                  *)
THEOREM SustainedShuts == Spec => SustainedPowerShuts
<1>1. Init => ControlTypes /\ CritInv
  <2>1. Init => CritInv
    BY DEF Init, CritInv
  <2> QED
    BY <2>1, TypeInit
<1>2. ControlTypes /\ CritInv /\ [Next]_vars => (ControlTypes /\ CritInv)'
  BY TypeStep, CritStep
<1> DEFINE Shut ==
      pc.sens = "monitor" /\ pc'.sens # "monitor" /\ power' >= Critical =>
        /\ pc'.sens = "see" => hot + 1 >= CritWait
        /\ hot >= CritWait => pc'.sens = "see"
<1>3. ControlTypes /\ CritInv /\ [Next]_vars => [Shut]_vars
  <2> SUFFICES ASSUME ControlTypes, CritInv, [Next]_vars, vars' # vars,
                      pc.sens = "monitor", pc'.sens # "monitor", power' >= Critical
               PROVE  /\ pc'.sens = "see" => hot + 1 >= CritWait
                      /\ hot >= CritWait => pc'.sens = "see"
    OBVIOUS
  <2>1. pc \in Tasks
    BY DEF ControlTypes, Tasks
  <2>2. Monitor
    <3>1. SensStep
      BY <2>1, ProgSteps, OpSteps DEF Next
    <3> QED
      BY <2>1, <3>1, SensSteps
  <2>3. power' \in Nat /\ Critical \in Nat /\ CritWait \in Nat /\ crit \in 0..CritWait /\ hot \in Nat
    BY <2>2, Numbers DEF Monitor, ControlTypes
  <2>4. ~(power' < Critical)
    BY <2>3
  <2>5. pc'.sens = IF crit = CritWait THEN "see" ELSE "thresholds"
    <3>1. Goto("sens", IF crit = CritWait THEN "see" ELSE "thresholds")
      BY <2>2, <2>4 DEF Monitor
    <3> QED
      BY <2>1, <3>1, GotoSens DEF SensPcs
  <2> QED
    BY <2>3, <2>5 DEF CritInv
<1> QED
  BY <1>1, <1>2, <1>3, PTL DEF Spec, SustainedPowerShuts

-----------------------------------------------------------------------------
(* Numbers and sequences                                                   *)

(* Some number is the least of a set of them.                              *)
LEMMA Least ==
  ASSUME NEW T \in SUBSET Nat, T # {}
  PROVE  \E x \in T : \A y \in T : x <= y
<1> DEFINE R == OpToRel(<, Nat)
<1>1. IsWellFoundedOn(R, Nat)
  BY NatLessThanWellFounded
<1>2. \A x, y \in Nat : x < y => <<x, y>> \in R
  BY DEF OpToRel
<1> HIDE DEF R
<1>3. PICK x \in T : \A y \in T : ~ (<<y, x>> \in R)
  BY <1>1, WFMin
<1>4. \A y \in T : x <= y
  <2> TAKE y \in T
  <2>1. x \in Nat /\ y \in Nat /\ ~ (<<y, x>> \in R)
    BY <1>3
  <2> QED
    BY <1>2, <2>1
<1> QED
  BY <1>4

(* FlattenSeq, of the first m of some sequences.                           *)
Glued(b, m, F) == F = [i \in 1..m |-> IF i = 1 THEN b[1] ELSE F[i - 1] \o b[i]]
Flat(b, m) == FlattenSeq([i \in 1..m |-> b[i]])

(* The function FlattenSeq chooses is there, for every number of sequences:*)
(* of those without one there would be a least.                            *)
LEMMA GlueExists ==
  ASSUME NEW b, NEW n \in Nat
  PROVE  \E F : Glued(b, n, F)
<1> DEFINE T == {m \in Nat : ~ \E F : Glued(b, m, F)}
<1>a. SUFFICES ASSUME T # {} PROVE FALSE
  OBVIOUS
<1>1. PICK m \in T : \A k \in T : m <= k
  BY <1>a, Least
<1>2. m \in Nat /\ ~ \E F : Glued(b, m, F)
  BY <1>1
<1>3. CASE m = 0
  <2> DEFINE F == [i \in 1..0 |-> 0]
  <2>1. Glued(b, 0, F)
    BY DEF Glued
  <2> QED
    BY <1>2, <1>3, <2>1
<1>4. CASE m # 0
  <2> DEFINE k == m - 1
  <2>1. k \in Nat /\ m = k + 1 /\ k \notin T
    BY <1>1, <1>2, <1>4
  <2> HIDE DEF k
  <2>2. PICK F : Glued(b, k, F)
    BY <2>1
  <2> DEFINE x == IF m = 1 THEN b[1] ELSE F[k] \o b[m]
             G == [i \in 1..m |-> IF i = m THEN x ELSE F[i]]
  <2>3. ASSUME NEW i \in 1..m PROVE G[i] = IF i = 1 THEN b[1] ELSE G[i - 1] \o b[i]
    <3>1. CASE i = m
      <4>1. G[i] = x
        BY <3>1
      <4>2. i # 1 => G[i - 1] = F[k] /\ k \in 1..m
        BY <2>1, <3>1
      <4> QED
        BY <3>1, <4>1, <4>2
    <3>2. CASE i # m
      <4>1. i \in 1..k /\ (i # 1 => i - 1 \in 1..m /\ i - 1 # m)
        BY <2>1, <3>2
      <4>2. F[i] = IF i = 1 THEN b[1] ELSE F[i - 1] \o b[i]
        BY <2>2, <4>1 DEF Glued
      <4> QED
        BY <3>2, <4>1, <4>2
    <3> QED
      BY <3>1, <3>2
  <2>4. Glued(b, m, G)
    <3> HIDE DEF x
    <3>1. G = [i \in 1..m |-> G[i]]
      OBVIOUS
    <3> HIDE DEF G
    <3> QED
      BY <2>3, <3>1 DEF Glued
  <2> QED
    BY <1>2, <2>4
<1> QED
  BY <1>3, <1>4

(* Two of them agree where both are defined.                               *)
LEMMA GlueAgrees ==
  ASSUME NEW b, NEW n \in Nat, NEW m \in Nat, m <= n, NEW F, NEW G, Glued(b, m, F), Glued(b, n, G), NEW k \in 1..m
  PROVE  F[k] = G[k]
<1> DEFINE T == {i \in 1..m : F[i] # G[i]}
<1>a. SUFFICES ASSUME T # {} PROVE FALSE
  OBVIOUS
<1>1. T \in SUBSET Nat
  OBVIOUS
<1>2. PICK i \in T : \A j \in T : i <= j
  BY <1>1, <1>a, Least
<1>3. i \in 1..m /\ i \in 1..n /\ F[i] # G[i] /\ \A j \in 1..m : j < i => F[j] = G[j]
  BY <1>2
<1>4. F[i] = (IF i = 1 THEN b[1] ELSE F[i - 1] \o b[i]) /\ G[i] = (IF i = 1 THEN b[1] ELSE G[i - 1] \o b[i])
  BY <1>3 DEF Glued
<1>5. i # 1 => i - 1 \in 1..m /\ i - 1 < i
  BY <1>3
<1> QED
  BY <1>3, <1>4, <1>5

(* What FlattenSeq makes of the first m sequences.                         *)
LEMMA FlatIs ==
  ASSUME NEW b, NEW m \in Nat \ {0}
  PROVE  \E F : Glued(b, m, F) /\ Flat(b, m) = F[m]
<1> DEFINE s == [i \in 1..m |-> b[i]]
           F == CHOOSE f : Glued(b, m, f)
<1>1. Len(s) = m
  OBVIOUS
<1>2. FlattenSeq(s) = (CHOOSE f : f = [i \in 1..Len(s) |-> IF i = 1 THEN s[1] ELSE f[i - 1] \o s[i]])[Len(s)]
  BY <1>1 DEF FlattenSeq
<1>3. \A f : f = [i \in 1..Len(s) |-> IF i = 1 THEN s[1] ELSE f[i - 1] \o s[i]] <=> Glued(b, m, f)
  <2> TAKE f
  <2>1. [i \in 1..Len(s) |-> IF i = 1 THEN s[1] ELSE f[i - 1] \o s[i]] = [i \in 1..m |-> IF i = 1 THEN b[1] ELSE f[i - 1] \o b[i]]
    BY <1>1
  <2> QED
    BY <2>1 DEF Glued
<1>4. FlattenSeq(s) = F[m]
  BY <1>1, <1>2, <1>3
<1>5. Glued(b, m, F)
  BY GlueExists
<1> QED
  BY <1>4, <1>5 DEF Flat

(* One more sequence is appended to what is there.                         *)
LEMMA FlatStep ==
  ASSUME NEW S, NEW n \in Nat, NEW b \in [1..n -> Seq(S)]
  PROVE  /\ Flat(b, 0) = <<>>
         /\ \A m \in 1..n : Flat(b, m) = Flat(b, m - 1) \o b[m]
         /\ \A m \in 0..n : Flat(b, m) \in Seq(S)
<1>1. Flat(b, 0) = <<>>
  BY DEF Flat, FlattenSeq
<1>2. ASSUME NEW m \in 1..n PROVE Flat(b, m) = Flat(b, m - 1) \o b[m]
  <2>1. PICK F : Glued(b, m, F) /\ Flat(b, m) = F[m]
    BY FlatIs
  <2>2. F[m] = IF m = 1 THEN b[1] ELSE F[m - 1] \o b[m]
    <3>1. m \in 1..m
      OBVIOUS
    <3> QED
      BY <2>1, <3>1 DEF Glued
  <2>3. CASE m = 1
    <3>1. b[1] \in Seq(S)
      BY <2>3
    <3>2. <<>> \o b[1] = b[1] /\ m - 1 = 0
      BY <2>3, <3>1
    <3> QED
      BY <1>1, <2>1, <2>2, <2>3, <3>2
  <2>4. CASE m # 1
    <3>1. m - 1 \in Nat \ {0} /\ m - 1 <= m /\ m - 1 \in 1..m - 1
      BY <2>4
    <3>2. PICK G : Glued(b, m - 1, G) /\ Flat(b, m - 1) = G[m - 1]
      BY <3>1, FlatIs
    <3>3. G[m - 1] = F[m - 1]
      BY <2>1, <3>1, <3>2, GlueAgrees
    <3> QED
      BY <2>1, <2>2, <2>4, <3>2, <3>3
  <2> QED
    BY <2>3, <2>4
<1>3. \A m \in 0..n : Flat(b, m) \in Seq(S)
  <2> DEFINE T == {m \in 0..n : Flat(b, m) \notin Seq(S)}
  <2>a. SUFFICES ASSUME T # {} PROVE FALSE
    OBVIOUS
  <2>1. T \in SUBSET Nat
    OBVIOUS
  <2>2. PICK m \in T : \A k \in T : m <= k
    BY <2>1, <2>a, Least
  <2>3. m \in 0..n /\ Flat(b, m) \notin Seq(S) /\ \A k \in 0..n : k < m => Flat(b, k) \in Seq(S)
    BY <2>2
  <2>4. m # 0
    <3>1. <<>> \in Seq(S)
      OBVIOUS
    <3> QED
      BY <1>1, <2>3, <3>1
  <2>5. m \in 1..n /\ m - 1 \in 0..n /\ m - 1 < m
    BY <2>3, <2>4
  <2>6. Flat(b, m - 1) \in Seq(S) /\ b[m] \in Seq(S)
    BY <2>3, <2>5
  <2>7. Flat(b, m - 1) \o b[m] \in Seq(S)
    BY <2>6
  <2> QED
    BY <1>2, <2>3, <2>5, <2>7
<1> QED
  BY <1>1, <1>2, <1>3

(* A sequence begins with another one.                                     *)
Begins(f, g) == Len(f) <= Len(g) /\ \A x \in 1..Len(f) : g[x] = f[x]

(* What comes first stays first.                                           *)
LEMMA FlatPrefix ==
  ASSUME NEW S, NEW n \in Nat, NEW b \in [1..n -> Seq(S)], NEW m \in 0..n, NEW k \in m..n
  PROVE  Begins(Flat(b, m), Flat(b, k))
<1> DEFINE f == Flat(b, m)
           P(i) == Len(f) <= Len(Flat(b, i)) /\ \A x \in 1..Len(f) : Flat(b, i)[x] = f[x]
           T == {i \in m..n : ~P(i)}
<1>a. SUFFICES ASSUME T # {} PROVE FALSE
  BY DEF Begins
<1>1. T \in SUBSET Nat
  OBVIOUS
<1>2. PICK i \in T : \A j \in T : i <= j
  BY <1>1, <1>a, Least
<1>3. i \in m..n /\ ~P(i) /\ \A j \in m..n : j < i => P(j)
  BY <1>2
<1>4. f \in Seq(S) /\ Len(f) \in Nat
  <2>1. m \in 0..n
    OBVIOUS
  <2>2. f \in Seq(S)
    BY <2>1, FlatStep
  <2> HIDE DEF f
  <2> QED
    BY <2>2
<1>5. i # m
  <2>1. P(m)
    BY <1>4
  <2> QED
    BY <1>3, <2>1
<1>6. i \in 1..n /\ i - 1 \in m..n /\ i - 1 \in 0..n /\ i - 1 < i
  BY <1>3, <1>5
<1>7. Flat(b, i) = Flat(b, i - 1) \o b[i] /\ Flat(b, i - 1) \in Seq(S) /\ b[i] \in Seq(S)
  BY <1>6, FlatStep
<1>8. P(i - 1)
  BY <1>3, <1>6
<1> HIDE DEF f
<1> DEFINE g == Flat(b, i - 1)
           h == b[i]
<1>9. /\ g \in Seq(S) /\ h \in Seq(S) /\ Flat(b, i) = g \o h /\ Len(f) <= Len(g)
      /\ \A x \in 1..Len(f) : g[x] = f[x]
  BY <1>7, <1>8
<1> HIDE DEF g, h
<1>10. /\ Len(g \o h) = Len(g) + Len(h) /\ Len(g) \in Nat /\ Len(h) \in Nat
       /\ \A x \in 1..Len(g) : (g \o h)[x] = g[x]
  BY <1>9
<1>11. \A x \in 1..Len(f) : x \in 1..Len(g)
  BY <1>4, <1>9, <1>10
<1> QED
  BY <1>3, <1>4, <1>9, <1>10, <1>11

-----------------------------------------------------------------------------
(* Containers                                                              *)

SectionsOf == [kind : Kinds, size : Nat, pad : Nat]
Entries == [kind : Kinds, off : Nat, size : Nat, own : Nat]

(* The data of the sections lie behind the table in the order of the       *)
(* entries, one after another.                                             *)
WellFormed(f) ==
  /\ f.mem \in Seq(Nat) /\ f.secs \in Seq(Entries)
  /\ \A i \in 1..Len(f.secs) : Len(f.secs) <= f.secs[i].off
  /\ \A i, j \in 1..Len(f.secs) : i < j => f.secs[i].off + f.secs[i].size <= f.secs[j].off
  /\ Intact(f)

(* A container that was packed is well formed, and entry i is the one of   *)
(* section i.                                                              *)
LEMMA PackedIs ==
  ASSUME NEW secs \in Seq(SectionsOf)
  PROVE  /\ WellFormed(Packed(secs)) /\ Len(Packed(secs).secs) = Len(secs)
         /\ \A i \in 1..Len(secs) : LET s == Packed(secs).secs[i]
                                    IN s.kind = secs[i].kind /\ s.size = secs[i].size /\ s.own = i
<1> DEFINE n == Len(secs)
           Zeros(k) == [x \in 1..k |-> 0]
           b == [i \in 1..n |-> [x \in 1..secs[i].size |-> i] \o [x \in 1..secs[i].pad |-> 0]]
           At(i) == n + Len(Flat(b, i - 1))
           f == Packed(secs)
           entry(i) == [kind |-> secs[i].kind, off |-> At(i), size |-> secs[i].size, own |-> i]
<1>1. n \in Nat /\ \A i \in 1..n : secs[i].kind \in Kinds /\ secs[i].size \in Nat /\ secs[i].pad \in Nat
  <2>1. \A i \in 1..n : secs[i] \in SectionsOf
    OBVIOUS
  <2>2. n \in Nat
    OBVIOUS
  <2> QED
    BY <2>1, <2>2 DEF SectionsOf
<1>2. \A i \in 1..n : /\ b[i] \in Seq(Nat) /\ secs[i].size <= Len(b[i])
                      /\ \A x \in 1..secs[i].size : b[i][x] = i
  <2> TAKE i \in 1..n
  <2> DEFINE u == secs[i].size
             v == secs[i].pad
             p == [x \in 1..u |-> i]
             q == [x \in 1..v |-> 0]
  <2>1. u \in Nat /\ v \in Nat /\ b[i] = p \o q
    BY <1>1
  <2> HIDE DEF u, v
  <2>2. p \in Seq(Nat) /\ q \in Seq(Nat) /\ Len(p) = u /\ Len(q) = v /\ \A x \in 1..u : p[x] = i
    BY <2>1
  <2> HIDE DEF p, q, b
  <2>3. p \o q \in Seq(Nat)
    BY <2>2
  <2>4. Len(p \o q) = u + v
    <3>1. Len(p \o q) = Len(p) + Len(q)
      BY <2>2, ConcatProperties
    <3> QED
      BY <2>2, <3>1
  <2>5. \A x \in 1..u : (p \o q)[x] = p[x]
    BY <2>1, <2>2
  <2>6. b[i] \in Seq(Nat) /\ u <= Len(b[i]) /\ \A x \in 1..u : b[i][x] = i
    BY <2>1, <2>2, <2>3, <2>4, <2>5
  <2> QED
    BY <2>6 DEF u
<1>3. b \in [1..n -> Seq(Nat)]
  <2>1. b = [i \in 1..n |-> b[i]]
    OBVIOUS
  <2> HIDE DEF b
  <2> QED
    BY <1>2, <2>1
<1>4. /\ \A i \in 1..n : FlattenSeq([j \in 1..i - 1 |-> [x \in 1..secs[j].size |-> j] \o [x \in 1..secs[j].pad |-> 0]])
                         = Flat(b, i - 1)
      /\ FlattenSeq(b) = Flat(b, n)
  <2>1. ASSUME NEW i \in 1..n
        PROVE  [j \in 1..i - 1 |-> [x \in 1..secs[j].size |-> j] \o [x \in 1..secs[j].pad |-> 0]]
                        = [j \in 1..i - 1 |-> b[j]]
    <3> DEFINE B(j) == [x \in 1..secs[j].size |-> j] \o [x \in 1..secs[j].pad |-> 0]
    <3>1. \A j \in 1..n : b[j] = B(j)
      OBVIOUS
    <3>2. \A j \in 1..i - 1 : j \in 1..n
      BY <1>1
    <3> HIDE DEF b, B
    <3>3. [j \in 1..i - 1 |-> B(j)] = [j \in 1..i - 1 |-> b[j]]
      BY <3>1, <3>2
    <3> QED
      BY <3>3 DEF B
  <2>2. b = [j \in 1..n |-> b[j]]
    OBVIOUS
  <2> HIDE DEF b
  <2> QED
    BY <2>1, <2>2 DEF Flat
<1>5. f.secs = [i \in 1..n |-> entry(i)] /\ f.mem = Zeros(n) \o Flat(b, n)
  BY <1>4 DEF Packed
<1> HIDE DEF b, f
<1>6. /\ \A m \in 0..n : Flat(b, m) \in Seq(Nat) /\ Len(Flat(b, m)) \in Nat
      /\ \A m \in 1..n : Flat(b, m) = Flat(b, m - 1) \o b[m]
  <2>1. \A m \in 0..n : Flat(b, m) \in Seq(Nat)
    BY <1>1, <1>3, FlatStep
  <2>2. \A m \in 1..n : Flat(b, m) = Flat(b, m - 1) \o b[m]
    BY <1>1, <1>3, FlatStep
  <2>3. \A m \in 0..n : Len(Flat(b, m)) \in Nat
    BY <2>1
  <2> QED
    BY <2>1, <2>2, <2>3
<1>7. \A m \in 0..n : \A k \in m..n : /\ Len(Flat(b, m)) <= Len(Flat(b, k))
                                      /\ \A x \in 1..Len(Flat(b, m)) : Flat(b, k)[x] = Flat(b, m)[x]
  <2> TAKE m \in 0..n
  <2> TAKE k \in m..n
  <2>1. Begins(Flat(b, m), Flat(b, k))
    BY <1>1, <1>3, FlatPrefix
  <2> QED
    BY <2>1 DEF Begins
<1>8. \A i \in 1..n : At(i) \in Nat /\ n <= At(i)
  <2> TAKE i \in 1..n
  <2>1. i - 1 \in 0..n
    BY <1>1
  <2>2. Len(Flat(b, i - 1)) \in Nat
    BY <1>6, <2>1
  <2> QED
    BY <1>1, <2>2
<1>9. f.secs \in Seq(Entries) /\ Len(f.secs) = n /\ \A i \in 1..n : f.secs[i] = entry(i)
  <2>1. \A i \in 1..n : entry(i) \in Entries
    BY <1>1, <1>8 DEF Entries
  <2> HIDE DEF entry
  <2> QED
    BY <1>1, <1>5, <2>1
<1>10. Zeros(n) \in Seq(Nat) /\ Len(Zeros(n)) = n
  BY <1>1
<1> HIDE DEF Zeros
<1>11. /\ f.mem \in Seq(Nat) /\ Len(f.mem) = n + Len(Flat(b, n))
       /\ \A x \in 1..Len(Flat(b, n)) : f.mem[n + x] = Flat(b, n)[x]
  <2> DEFINE d == Flat(b, n)
             z == Zeros(n)
  <2>1. d \in Seq(Nat) /\ Len(d) \in Nat
    BY <1>1, <1>6
  <2>2. f.mem = z \o d /\ z \in Seq(Nat) /\ Len(z) = n
    BY <1>5, <1>10
  <2> HIDE DEF d, z
  <2>3. z \o d \in Seq(Nat) /\ Len(z \o d) = n + Len(d)
    <3>1. z \o d \in Seq(Nat)
      BY <2>1, <2>2
    <3>2. Len(z \o d) = Len(z) + Len(d)
      BY <2>1, <2>2, ConcatProperties
    <3> QED
      BY <2>2, <3>1, <3>2
  <2>4. \A x \in 1..Len(d) : (z \o d)[n + x] = d[x]
    <3> TAKE x \in 1..Len(d)
    <3>1. n + x \in 1..Len(z) + Len(d) /\ ~(n + x <= Len(z)) /\ n + x - Len(z) = x
      BY <1>1, <2>1, <2>2
    <3> QED
      BY <2>1, <2>2, <3>1
  <2> QED
    BY <2>2, <2>3, <2>4 DEF d
(* Section i lies in the first i pieces of the data.                       *)
<1>12. ASSUME NEW i \in 1..n
       PROVE  /\ At(i) + secs[i].size <= n + Len(Flat(b, i)) /\ Len(Flat(b, i)) <= Len(Flat(b, n))
              /\ \A k \in 1..secs[i].size : f.mem[At(i) + k] = i
  <2> DEFINE p == Flat(b, i - 1)
             u == secs[i].size
  <2>1. i - 1 \in 0..n /\ i \in 0..n /\ n \in i..n /\ n \in 0..n
    BY <1>1
  <2>2. p \in Seq(Nat) /\ Len(p) \in Nat /\ Flat(b, i) = p \o b[i] /\ u \in Nat
    BY <1>1, <1>6, <2>1
  <2>3. Len(Flat(b, i)) <= Len(Flat(b, n)) /\ \A x \in 1..Len(Flat(b, i)) : Flat(b, n)[x] = Flat(b, i)[x]
    BY <1>7, <2>1
  <2>4. Len(Flat(b, n)) \in Nat /\ Len(Flat(b, i)) \in Nat
    BY <1>6, <2>1
  <2>5. b[i] \in Seq(Nat) /\ Len(b[i]) \in Nat /\ u <= Len(b[i]) /\ \A x \in 1..u : b[i][x] = i
    BY <1>2
  <2>6. At(i) = n + Len(p)
    OBVIOUS
  <2> HIDE DEF p, u, At
  <2>7. Len(Flat(b, i)) = Len(p) + Len(b[i])
    BY <2>2, <2>5
  <2>8. \A k \in 1..u : f.mem[At(i) + k] = i
    <3> TAKE k \in 1..u
    <3>1. Len(p) + k \in 1..Len(Flat(b, i)) /\ Len(p) + k \in 1..Len(Flat(b, n)) /\ At(i) + k = n + (Len(p) + k)
      BY <1>1, <2>2, <2>3, <2>4, <2>5, <2>6, <2>7
    <3>2. Flat(b, i)[Len(p) + k] = b[i][k]
      <4>1. k \in 1..Len(b[i]) /\ Len(p) + k \in 1..Len(p) + Len(b[i]) /\ ~(Len(p) + k <= Len(p)) /\ Len(p) + k - Len(p) = k
        BY <2>2, <2>5
      <4> QED
        BY <2>2, <2>5, <4>1, SMTT(30)
    <3> QED
      BY <1>11, <2>3, <2>5, <3>1, <3>2
  <2> QED
    BY <1>1, <2>2, <2>3, <2>4, <2>5, <2>6, <2>7, <2>8 DEF u
<1>13. \A i, j \in 1..n : i < j => At(i) + secs[i].size <= At(j)
  <2> TAKE i, j \in 1..n
  <2> HAVE i < j
  <2>1. i \in 0..n /\ j - 1 \in i..n /\ j - 1 \in 0..n
    BY <1>1
  <2>2. Len(Flat(b, i)) <= Len(Flat(b, j - 1)) /\ Len(Flat(b, i)) \in Nat /\ Len(Flat(b, j - 1)) \in Nat
    BY <1>6, <1>7, <2>1
  <2>3. At(i) + secs[i].size <= n + Len(Flat(b, i)) /\ At(i) \in Nat /\ secs[i].size \in Nat
    BY <1>1, <1>8, <1>12
  <2>4. At(j) = n + Len(Flat(b, j - 1))
    OBVIOUS
  <2> HIDE DEF At
  <2> QED
    BY <1>1, <2>2, <2>3, <2>4
<1>14. \A i \in 1..n : At(i) + secs[i].size <= Len(f.mem)
  <2> TAKE i \in 1..n
  <2>1. /\ At(i) + secs[i].size <= n + Len(Flat(b, i)) /\ Len(Flat(b, i)) <= Len(Flat(b, n))
        /\ At(i) \in Nat /\ secs[i].size \in Nat /\ Len(Flat(b, i)) \in Nat /\ Len(Flat(b, n)) \in Nat
    BY <1>1, <1>6, <1>8, <1>12
  <2>2. Len(f.mem) = n + Len(Flat(b, n)) /\ n \in Nat
    BY <1>1, <1>11
  <2> DEFINE o == At(i)
             u == secs[i].size
             d == Len(Flat(b, i))
             e == Len(Flat(b, n))
             l == Len(f.mem)
  <2>3. o + u <= n + d /\ d <= e /\ o \in Nat /\ u \in Nat /\ d \in Nat /\ e \in Nat /\ l = n + e
    BY <2>1, <2>2
  <2> HIDE DEF At, n, o, u, d, e, l
  <2>4. o + u <= l
    BY <2>2, <2>3
  <2> QED
    BY <2>4 DEF o, u, l
<1>15. \A i \in 1..n : f.secs[i].kind = secs[i].kind /\ f.secs[i].off = At(i) /\ f.secs[i].size = secs[i].size /\ f.secs[i].own = i
  <2> TAKE i \in 1..n
  <2>1. f.secs[i] = entry(i)
    BY <1>9
  <2> DEFINE s == f.secs[i]
  <2>2. s = [kind |-> secs[i].kind, off |-> At(i), size |-> secs[i].size, own |-> i]
    BY <2>1
  <2> HIDE DEF s, At
  <2>3. s.kind = secs[i].kind /\ s.off = At(i) /\ s.size = secs[i].size /\ s.own = i
    BY <2>2
  <2> QED
    BY <2>3 DEF s
<1> HIDE DEF At, entry
<1>16. Intact(f)
  <2>1. DOMAIN f.secs = 1..n
    BY <1>9
  <2> QED
    <3> SUFFICES ASSUME NEW i \in 1..n
                 PROVE  /\ f.secs[i].off + f.secs[i].size <= Len(f.mem)
                        /\ \A k \in 1..f.secs[i].size : f.mem[f.secs[i].off + k] = f.secs[i].own
      BY <2>1 DEF Intact
    <3>1. f.secs[i].off = At(i) /\ f.secs[i].size = secs[i].size /\ f.secs[i].own = i
      BY <1>15
    <3>2. At(i) + secs[i].size <= Len(f.mem) /\ \A k \in 1..secs[i].size : f.mem[At(i) + k] = i
      BY <1>12, <1>14
    <3> QED
      BY <3>1, <3>2
<1>17. WellFormed(f)
  <2>1. \A i \in 1..Len(f.secs) : Len(f.secs) <= f.secs[i].off
    BY <1>8, <1>9, <1>15
  <2>2. \A i, j \in 1..Len(f.secs) : i < j => f.secs[i].off + f.secs[i].size <= f.secs[j].off
    BY <1>9, <1>13, <1>15
  <2> QED
    BY <1>9, <1>11, <1>16, <2>1, <2>2 DEF WellFormed
<1>18. Len(f.secs) = Len(secs)
  BY <1>9 DEF n
<1>19. \A i \in 1..Len(secs) : LET s == f.secs[i] IN s.kind = secs[i].kind /\ s.size = secs[i].size /\ s.own = i
  BY <1>15 DEF n
<1> QED
  BY <1>17, <1>18, <1>19 DEF f

(* The same section, wherever its data are.                                *)
Same(s, t) == s.kind = t.kind /\ s.size = t.size /\ s.own = t.own

(* Entries move together and stay what they are.                           *)
LEMMA ShiftIs ==
  ASSUME NEW s \in Seq(Entries), NEW c \in Nat, \A j \in 1..Len(s) : c <= s[j].off
  PROVE  /\ Shift(s, c) \in Seq(Entries) /\ Len(Shift(s, c)) = Len(s)
         /\ \A j \in 1..Len(s) : Same(Shift(s, c)[j], s[j]) /\ Shift(s, c)[j].off = s[j].off - c
<1> DEFINE t == Shift(s, c)
           e(j) == [s[j] EXCEPT !.off = @ - c]
<1>1. DOMAIN s = 1..Len(s) /\ Len(s) \in Nat /\ \A j \in 1..Len(s) : s[j] \in Entries
  OBVIOUS
<1>2. t = [j \in 1..Len(s) |-> e(j)]
  BY <1>1 DEF Shift
<1>3. ASSUME NEW j \in 1..Len(s)
      PROVE  e(j) \in Entries /\ Same(e(j), s[j]) /\ e(j).off = s[j].off - c
  <2> DEFINE u == s[j]
  <2>1. u \in Entries /\ c <= u.off /\ e(j) = [u EXCEPT !.off = @ - c]
    BY <1>1
  <2> HIDE DEF u, e
  <2>2. u.off \in Nat /\ u.off - c \in Nat
    BY <2>1 DEF Entries
  <2>3. e(j) \in Entries
    BY <2>1, <2>2 DEF Entries
  <2>4. e(j).off = u.off - c /\ e(j).kind = u.kind /\ e(j).size = u.size /\ e(j).own = u.own
    BY <2>1 DEF Entries
  <2> QED
    BY <2>3, <2>4 DEF u, Same
<1> HIDE DEF t, e
<1>4. t \in Seq(Entries) /\ Len(t) = Len(s) /\ \A j \in 1..Len(s) : t[j] = e(j)
  BY <1>1, <1>2, <1>3
<1> QED
  BY <1>3, <1>4 DEF t

(* A turn of the loop that finds its kind: the container stays well formed,*)
(* and every entry but the one removed is there with its own data.         *)
LEMMA RemoveKeeps ==
  ASSUME NEW f, WellFormed(f), NEW i \in 1..Len(f.secs)
  PROVE  /\ WellFormed(RemoveAtIndex(f, i))
         /\ \A x \in 1..Len(f.secs) : x # i =>
              \E y \in 1..Len(RemoveAtIndex(f, i).secs) : Same(RemoveAtIndex(f, i).secs[y], f.secs[x])
         /\ \A y \in 1..Len(RemoveAtIndex(f, i).secs) :
              \E x \in 1..Len(f.secs) : Same(RemoveAtIndex(f, i).secs[y], f.secs[x])
<1> DEFINE s == f.secs
           m == f.mem
           n == Len(s)
           L == Len(m)
           to == s[i].off
           bh == Behind(f, i)
           c == 1 + bh - to
           cut == SubSeq(m, 1, to) \o SubSeq(m, bh + 1, L)
           g == RemoveAtIndex(f, i)
<1>1. m \in Seq(Nat) /\ s \in Seq(Entries) /\ n \in Nat /\ L \in Nat /\ i \in 1..n
  BY DEF WellFormed
<1>2. \A j \in 1..n : s[j] \in Entries /\ s[j].off \in Nat /\ s[j].size \in Nat
  <2>1. \A j \in 1..n : s[j] \in Entries
    BY <1>1
  <2> QED
    BY <2>1 DEF Entries
<1>3. /\ \A j \in 1..n : n <= s[j].off
      /\ \A j, k \in 1..n : j < k => s[j].off + s[j].size <= s[k].off
  BY DEF WellFormed
<1>4. \A j \in 1..n : s[j].off + s[j].size <= L /\ \A k \in 1..s[j].size : m[s[j].off + k] = s[j].own
  <2>1. DOMAIN s = 1..n
    BY <1>1
  <2> QED
    BY <2>1 DEF WellFormed, Intact
<1>5. bh = IF i = n THEN to + s[i].size ELSE s[i + 1].off
  BY DEF Behind
<1>6. g = IF n = 1
          THEN [secs |-> <<>>, mem |-> cut]
          ELSE [secs |-> Shift(SubSeq(s, 1, i - 1), 1) \o Shift(SubSeq(s, i + 1, n), c), mem |-> Tail(cut)]
  BY DEF RemoveAtIndex
<1> HIDE DEF bh, g, s, m, n, L
<1>7. to \in Nat /\ bh \in Nat /\ to <= bh /\ bh <= L /\ c \in Nat /\ 1 <= c /\ n <= to
  <2>1. to \in Nat /\ s[i].size \in Nat /\ n <= to /\ to + s[i].size <= L
    BY <1>1, <1>2, <1>3, <1>4
  <2> DEFINE u == s[i].size
  <2>2. CASE i = n
    <3>1. bh = to + u
      BY <1>5, <2>2
    <3>3. to \in Nat /\ u \in Nat /\ n <= to /\ to + u <= L
      BY <2>1
    <3> HIDE DEF to, u
    <3>2. to \in Nat /\ bh \in Nat /\ to <= bh /\ bh <= L /\ 1 + bh - to \in Nat /\ 1 <= 1 + bh - to /\ n <= to
      BY <1>1, <3>1, <3>3
    <3> QED
      BY <3>2
  <2>3. CASE i # n
    <3>1. i + 1 \in 1..n /\ i < i + 1
      BY <1>1, <2>3
    <3>2. s[i + 1].off \in Nat /\ s[i + 1].size \in Nat /\ to + s[i].size <= s[i + 1].off /\ s[i + 1].off + s[i + 1].size <= L
      <4>1. s[i + 1].off \in Nat /\ s[i + 1].size \in Nat
        BY <1>2, <3>1
      <4>2. to + s[i].size <= s[i + 1].off
        <5>1. s[i].off + s[i].size <= s[i + 1].off
          BY <1>1, <1>3, <3>1
        <5> QED
          BY <5>1
      <4>3. s[i + 1].off + s[i + 1].size <= L
        BY <1>4, <3>1
      <4> QED
        BY <4>1, <4>2, <4>3
    <3> DEFINE o == s[i + 1].off
               v == s[i + 1].size
    <3>3. bh = o /\ o \in Nat /\ v \in Nat /\ to + u <= o /\ o + v <= L
      BY <1>5, <2>3, <3>2
    <3> HIDE DEF to, u, o, v
    <3>4. to \in Nat /\ bh \in Nat /\ to <= bh /\ bh <= L /\ 1 + bh - to \in Nat /\ 1 <= 1 + bh - to /\ n <= to
      BY <1>1, <2>1, <3>3 DEF u
    <3> QED
      BY <3>4
  <2> QED
    BY <2>2, <2>3
<1> HIDE DEF c, to
<1>8. \A k \in i + 1..n : bh <= s[k].off
  <2> TAKE k \in i + 1..n
  <2>1. i + 1 \in 1..n /\ i # n /\ k \in 1..n
    BY <1>1
  <2>2. bh = s[i + 1].off
    BY <1>5, <2>1
  <2>3. s[i + 1].off \in Nat /\ s[i + 1].size \in Nat /\ s[k].off \in Nat
    BY <1>2, <2>1
  <2>4. CASE k = i + 1
    BY <2>2, <2>3, <2>4
  <2>5. CASE k # i + 1
    <3>1. i + 1 < k
      BY <1>1, <2>5
    <3>2. s[i + 1].off + s[i + 1].size <= s[k].off
      BY <1>3, <2>1, <3>1
    <3> QED
      BY <2>2, <2>3, <3>2
  <2> QED
    BY <2>4, <2>5
<1>9. c = 1 + bh - to
  BY DEF c
<1>10. /\ cut \in Seq(Nat) /\ Len(cut) = to + (L - bh)
       /\ \A k \in 1..to : cut[k] = m[k]
       /\ \A k \in to + 1..to + (L - bh) : cut[k] = m[k + bh - to]
  <2> DEFINE p == SubSeq(m, 1, to)
             q == SubSeq(m, bh + 1, L)
  <2>1. \A k \in 1..L : m[k] \in Nat
    BY <1>1 DEF L
  <2>2. p \in Seq(Nat) /\ Len(p) = to /\ \A k \in 1..to : p[k] = m[k]
    <3>1. \A k \in 1..to : m[k] \in Nat
      BY <1>1, <1>7, <2>1
    <3>2. /\ SubSeq(m, 1, to) \in Seq(Nat) /\ Len(SubSeq(m, 1, to)) = (IF 1 <= to THEN to - 1 + 1 ELSE 0)
          /\ \A k \in 1..to - 1 + 1 : SubSeq(m, 1, to)[k] = m[1 + k - 1]
      BY <1>7, <3>1, SubSeqProperties
    <3>3. \A k \in 1..to : k \in 1..to - 1 + 1 /\ 1 + k - 1 = k
      BY <1>7
    <3>4. (IF 1 <= to THEN to - 1 + 1 ELSE 0) = to
      BY <1>7
    <3> QED
      BY <3>2, <3>3, <3>4
  <2>3. q \in Seq(Nat) /\ Len(q) = L - bh /\ \A k \in 1..L - bh : q[k] = m[k + bh]
    <3>1. \A k \in bh + 1..L : m[k] \in Nat
      BY <1>1, <1>7, <2>1
    <3>2. bh + 1 \in Int /\ L \in Int
      BY <1>1, <1>7
    <3>3. /\ SubSeq(m, bh + 1, L) \in Seq(Nat) /\ Len(SubSeq(m, bh + 1, L)) = (IF bh + 1 <= L THEN L - (bh + 1) + 1 ELSE 0)
          /\ \A k \in 1..L - (bh + 1) + 1 : SubSeq(m, bh + 1, L)[k] = m[(bh + 1) + k - 1]
      BY <3>1, <3>2, SubSeqProperties
    <3>4. \A k \in 1..L - bh : k \in 1..L - (bh + 1) + 1 /\ (bh + 1) + k - 1 = k + bh
      BY <1>1, <1>7
    <3>5. (IF bh + 1 <= L THEN L - (bh + 1) + 1 ELSE 0) = L - bh
      BY <1>1, <1>7
    <3> QED
      BY <3>3, <3>4, <3>5
  <2>4. cut = p \o q
    OBVIOUS
  <2> HIDE DEF p, q, cut
  <2>5. cut \in Seq(Nat) /\ Len(cut) = Len(p) + Len(q)
    BY <2>2, <2>3, <2>4, ConcatProperties
  <2>6. \A k \in 1..Len(p) + Len(q) : cut[k] = IF k <= Len(p) THEN p[k] ELSE q[k - Len(p)]
    BY <2>2, <2>3, <2>4, ConcatProperties
  <2>7. \A k \in 1..to : cut[k] = m[k]
    BY <1>1, <1>7, <2>2, <2>3, <2>6
  <2>8. \A k \in to + 1..to + (L - bh) : cut[k] = m[k + bh - to]
    <3> TAKE k \in to + 1..to + (L - bh)
    <3>1. k \in 1..Len(p) + Len(q) /\ ~(k <= Len(p)) /\ k - Len(p) \in 1..L - bh /\ k - Len(p) + bh = k + bh - to
      BY <1>1, <1>7, <2>2, <2>3
    <3> QED
      BY <2>3, <2>6, <3>1
  <2> QED
    BY <2>2, <2>3, <2>5, <2>7, <2>8
<1> HIDE DEF cut
<1>11. CASE n = 1
  <2>1. g.secs = <<>> /\ g.mem = cut
    BY <1>6, <1>11
  <2>2. Len(g.secs) = 0 /\ g.secs \in Seq(Entries) /\ DOMAIN g.secs = {} /\ 1..Len(g.secs) = {}
    BY <2>1
  <2>3. Intact(g)
    BY <2>2 DEF Intact
  <2>4. WellFormed(g)
    BY <1>10, <2>1, <2>2, <2>3 DEF WellFormed
  <2>5. \A x \in 1..n : x = i
    BY <1>1, <1>11
  <2> QED
    BY <2>2, <2>4, <2>5 DEF g, s, n
<1>12. CASE n # 1
  <2>1. g.secs = Shift(SubSeq(s, 1, i - 1), 1) \o Shift(SubSeq(s, i + 1, n), c) /\ g.mem = Tail(cut)
    BY <1>6, <1>12
  <2>2. 2 <= n
    BY <1>1, <1>12
  <2>3. /\ g.mem \in Seq(Nat) /\ Len(g.mem) = to + (L - bh) - 1
        /\ \A k \in 1..to - 1 : g.mem[k] = m[k + 1]
        /\ \A k \in to..to + (L - bh) - 1 : g.mem[k] = m[k + c]
    <3>1. Len(cut) \in Nat /\ Len(cut) # 0
      BY <1>1, <1>7, <1>10, <2>2
    <3>2. cut # <<>>
      BY <3>1
    <3>3. Tail(cut) \in Seq(Nat) /\ Len(Tail(cut)) = Len(cut) - 1 /\ \A k \in 1..Len(Tail(cut)) : Tail(cut)[k] = cut[k + 1]
      BY <1>10, <3>2, HeadTailProperties
    <3>4. \A k \in 1..to - 1 : k \in 1..Len(Tail(cut)) /\ k + 1 \in 1..to
      BY <1>1, <1>7, <1>10, <3>3
    <3>5. \A k \in to..to + (L - bh) - 1 : k \in 1..Len(Tail(cut)) /\ k + 1 \in to + 1..to + (L - bh) /\ (k + 1) + bh - to = k + c
      BY <1>1, <1>7, <1>10, <2>2, <3>3, <1>9
    <3>6. \A k \in 1..to - 1 : Tail(cut)[k] = m[k + 1]
      BY <1>10, <3>3, <3>4
    <3>7. \A k \in to..to + (L - bh) - 1 : Tail(cut)[k] = m[k + c]
      <4> TAKE k \in to..to + (L - bh) - 1
      <4>1. k \in 1..Len(Tail(cut)) /\ k + 1 \in to + 1..to + (L - bh) /\ (k + 1) + bh - to = k + c
        BY <3>5
      <4>2. Tail(cut)[k] = cut[k + 1]
        BY <3>3, <4>1
      <4>3. cut[k + 1] = m[(k + 1) + bh - to]
        BY <1>10, <4>1
      <4> QED
        BY <4>1, <4>2, <4>3
    <3>8. Len(Tail(cut)) = to + (L - bh) - 1
      <4>1. Len(cut) = to + (L - bh)
        BY <1>10
      <4>2. Len(Tail(cut)) = Len(cut) - 1
        BY <3>3
      <4> QED
        BY <1>1, <1>7, <4>1, <4>2
    <3> QED
      BY <2>1, <3>3, <3>6, <3>7, <3>8
  <2> DEFINE A == SubSeq(s, 1, i - 1)
             B == SubSeq(s, i + 1, n)
             from(y) == IF y < i THEN y ELSE y + 1
             by(y) == IF y < i THEN 1 ELSE c
  <2>4. A \in Seq(Entries) /\ Len(A) = i - 1 /\ \A k \in 1..i - 1 : A[k] = s[k]
    <3>1. \A k \in 1..i - 1 : s[k] \in Entries
      BY <1>1, <1>2
    <3>2. i - 1 \in Int /\ 1 \in Int
      BY <1>1
    <3>3. /\ SubSeq(s, 1, i - 1) \in Seq(Entries) /\ Len(SubSeq(s, 1, i - 1)) = (IF 1 <= i - 1 THEN (i - 1) - 1 + 1 ELSE 0)
          /\ \A k \in 1..(i - 1) - 1 + 1 : SubSeq(s, 1, i - 1)[k] = s[1 + k - 1]
      BY <3>1, <3>2, SubSeqProperties
    <3>4. \A k \in 1..i - 1 : k \in 1..(i - 1) - 1 + 1 /\ 1 + k - 1 = k
      BY <1>1
    <3>5. (IF 1 <= i - 1 THEN (i - 1) - 1 + 1 ELSE 0) = i - 1
      BY <1>1
    <3> QED
      BY <3>3, <3>4, <3>5
  <2>5. B \in Seq(Entries) /\ Len(B) = n - i /\ \A k \in 1..n - i : B[k] = s[k + i]
    <3>1. \A k \in i + 1..n : s[k] \in Entries
      BY <1>1, <1>2
    <3>2. i + 1 \in Int /\ n \in Int
      BY <1>1
    <3>3. /\ SubSeq(s, i + 1, n) \in Seq(Entries) /\ Len(SubSeq(s, i + 1, n)) = (IF i + 1 <= n THEN n - (i + 1) + 1 ELSE 0)
          /\ \A k \in 1..n - (i + 1) + 1 : SubSeq(s, i + 1, n)[k] = s[(i + 1) + k - 1]
      BY <3>1, <3>2, SubSeqProperties
    <3>4. \A k \in 1..n - i : k \in 1..n - (i + 1) + 1 /\ (i + 1) + k - 1 = k + i
      BY <1>1
    <3>5. (IF i + 1 <= n THEN n - (i + 1) + 1 ELSE 0) = n - i
      BY <1>1
    <3> QED
      BY <3>3, <3>4, <3>5
  <2> HIDE DEF A, B
  <2>6. \A k \in 1..i - 1 : 1 <= A[k].off
    <3> TAKE k \in 1..i - 1
    <3>1. k \in 1..n /\ A[k] = s[k]
      BY <1>1, <2>4
    <3>2. n <= s[k].off /\ s[k].off \in Nat
      BY <1>2, <1>3, <3>1
    <3> QED
      BY <1>1, <2>2, <3>1, <3>2
  <2>7. \A k \in 1..n - i : c <= B[k].off
    <3> TAKE k \in 1..n - i
    <3>1. k + i \in 1..n /\ i < k + i
      BY <1>1
    <3>2. bh <= s[k + i].off
      <4>1. k + i \in i + 1..n
        BY <1>1
      <4> QED
        BY <1>8, <4>1
    <3>3. c <= bh
      BY <1>1, <1>7, <1>9, <2>2
    <3>4. c <= s[k + i].off
      <4>1. s[k + i].off \in Nat
        BY <1>2, <3>1
      <4> QED
        BY <1>7, <3>2, <3>3, <4>1
    <3> QED
      BY <2>5, <3>4
  <2> DEFINE SA == Shift(A, 1)
             SB == Shift(B, c)
  <2>8. /\ SA \in Seq(Entries) /\ Len(SA) = i - 1
        /\ \A k \in 1..i - 1 : Same(SA[k], A[k]) /\ SA[k].off = A[k].off - 1
    <3>1. 1 \in Nat /\ \A k \in 1..Len(A) : 1 <= A[k].off
      BY <2>4, <2>6
    <3> QED
      BY <2>4, <3>1, ShiftIs
  <2>9. /\ SB \in Seq(Entries) /\ Len(SB) = n - i
        /\ \A k \in 1..n - i : Same(SB[k], B[k]) /\ SB[k].off = B[k].off - c
    <3>1. \A k \in 1..Len(B) : c <= B[k].off
      BY <2>5, <2>7
    <3> QED
      BY <1>7, <2>5, <3>1, ShiftIs
  <2>10. g.secs = SA \o SB
    BY <2>1 DEF A, B, n
  <2> HIDE DEF SA, SB
  <2>11. g.secs \in Seq(Entries) /\ Len(g.secs) = n - 1
    <3>1. g.secs \in Seq(Entries) /\ Len(g.secs) = Len(SA) + Len(SB)
      BY <2>8, <2>9, <2>10, ConcatProperties
    <3> QED
      BY <1>1, <2>8, <2>9, <3>1
  <2>12. \A y \in 1..n - 1 : g.secs[y] = IF y <= i - 1 THEN SA[y] ELSE SB[y - (i - 1)]
    <3>1. \A y \in 1..Len(SA) + Len(SB) : g.secs[y] = IF y <= Len(SA) THEN SA[y] ELSE SB[y - Len(SA)]
      BY <2>8, <2>9, <2>10, ConcatProperties
    <3>2. Len(SA) + Len(SB) = n - 1 /\ Len(SA) = i - 1
      BY <1>1, <2>8, <2>9
    <3> QED
      BY <3>1, <3>2
  <2>13. ASSUME NEW y \in 1..n - 1
         PROVE  from(y) \in 1..n /\ Same(g.secs[y], s[from(y)]) /\ g.secs[y].off = s[from(y)].off - by(y)
    <3>1. CASE y < i
      <4>1. y <= i - 1 /\ y \in 1..i - 1 /\ y \in 1..n
        BY <1>1, <3>1
      <4>2. g.secs[y] = SA[y]
        BY <2>12, <4>1
      <4> QED
        BY <2>4, <2>8, <3>1, <4>1, <4>2
    <3>2. CASE ~(y < i)
      <4>1. ~(y <= i - 1) /\ y - (i - 1) \in 1..n - i /\ y - (i - 1) + i = y + 1 /\ y + 1 \in 1..n
        BY <1>1, <3>2
      <4>2. g.secs[y] = SB[y - (i - 1)] /\ B[y - (i - 1)] = s[y + 1]
        BY <2>5, <2>12, <4>1
      <4> QED
        BY <2>9, <3>2, <4>1, <4>2
    <3> QED
      BY <3>1, <3>2
  <2>14. ASSUME NEW y \in 1..n - 1
         PROVE  /\ n - 1 <= g.secs[y].off
                /\ g.secs[y].off + g.secs[y].size <= Len(g.mem)
                /\ \A k \in 1..g.secs[y].size : g.mem[g.secs[y].off + k] = g.secs[y].own
    <3> DEFINE t == s[from(y)]
               o == t.off
               u == t.size
    <3>1. from(y) \in 1..n /\ g.secs[y].size = u /\ g.secs[y].own = t.own /\ g.secs[y].off = o - by(y)
      BY <2>13 DEF Same
    <3>2. o \in Nat /\ u \in Nat /\ n <= o /\ o + u <= L /\ \A k \in 1..u : m[o + k] = t.own
      BY <1>2, <1>3, <1>4, <3>1
    <3>3. CASE y < i
      <4>1. from(y) = y /\ by(y) = 1
        BY <3>3
      <4>2. o + u <= to
        BY <1>1, <1>3, <3>3, <4>1 DEF to
      <4> HIDE DEF t, o, u, from, by
      <4>3. n - 1 <= o - 1 /\ (o - 1) + u <= to + (L - bh) - 1
        BY <1>1, <1>7, <3>2, <4>2
      <4>4. \A k \in 1..u : g.mem[(o - 1) + k] = t.own
        <5> TAKE k \in 1..u
        <5>1. (o - 1) + k \in 1..to - 1 /\ (o - 1) + k + 1 = o + k
          BY <1>1, <1>7, <2>2, <3>2, <4>2
        <5>2. g.mem[(o - 1) + k] = m[(o - 1) + k + 1]
          BY <2>3, <5>1
        <5>3. m[o + k] = t.own
          BY <3>2
        <5> QED
          BY <5>1, <5>2, <5>3
      <4> QED
        BY <2>3, <3>1, <4>1, <4>3, <4>4
    <3>4. CASE ~(y < i)
      <4>1. from(y) = y + 1 /\ by(y) = c
        BY <3>4
      <4>2. bh <= o
        <5>1. y + 1 \in i + 1..n
          BY <1>1, <3>4
        <5> QED
          BY <1>8, <4>1, <5>1
      <4> HIDE DEF t, o, u, from, by
      <4>3. n - 1 <= o - c /\ (o - c) + u <= to + (L - bh) - 1
        BY <1>1, <1>7, <3>2, <4>2, <1>9
      <4>4. \A k \in 1..u : g.mem[(o - c) + k] = t.own
        <5> TAKE k \in 1..u
        <5>1. (o - c) + k \in to..to + (L - bh) - 1 /\ (o - c) + k + c = o + k
          BY <1>1, <1>7, <2>2, <3>2, <4>2, <1>9
        <5>2. g.mem[(o - c) + k] = m[(o - c) + k + c]
          BY <2>3, <5>1
        <5>3. m[o + k] = t.own
          BY <3>2
        <5> QED
          BY <5>1, <5>2, <5>3
      <4> QED
        BY <2>3, <3>1, <4>1, <4>3, <4>4
    <3> QED
      BY <3>3, <3>4
  <2>15. ASSUME NEW y \in 1..n - 1, NEW z \in 1..n - 1, y < z
         PROVE  g.secs[y].off + g.secs[y].size <= g.secs[z].off
    <3> DEFINE a == s[from(y)].off
               u == s[from(y)].size
               e == s[from(z)].off
    <3>1. from(y) \in 1..n /\ from(z) \in 1..n /\ from(y) < from(z)
      BY <1>1, <2>15
    <3>2. a + u <= e /\ a \in Nat /\ u \in Nat /\ e \in Nat
      BY <1>2, <1>3, <3>1
    <3>3. g.secs[y].off = a - by(y) /\ g.secs[y].size = u /\ g.secs[z].off = e - by(z)
      BY <2>13 DEF Same
    <3>4. CASE by(y) = by(z)
      <4>1. by(y) \in Nat
        BY <1>7
      <4> HIDE DEF a, u, e, by
      <4>2. (a - by(y)) + u <= e - by(z)
        BY <3>2, <3>4, <4>1
      <4> QED
        BY <3>3, <4>2
    <3>5. CASE by(y) # by(z)
      <4>1. y < i /\ ~(z < i)
        BY <1>1, <2>15, <3>5
      <4>2. by(y) = 1 /\ by(z) = c /\ from(y) = y /\ from(z) = z + 1
        BY <4>1
      <4>3. a + u <= to /\ bh <= e
        <5>1. a + u <= to
          BY <1>1, <1>3, <4>1, <4>2 DEF to
        <5>2. z + 1 \in i + 1..n
          BY <1>1, <4>1
        <5> QED
          BY <1>8, <4>2, <5>1, <5>2
      <4> HIDE DEF a, u, e, by, from
      <4>4. (a - 1) + u <= e - c
        BY <1>7, <3>2, <4>3, <1>9
      <4> QED
        BY <3>3, <4>2, <4>4
    <3> QED
      BY <3>4, <3>5
  <2>16. WellFormed(g)
    <3>1. DOMAIN g.secs = 1..n - 1 /\ 1..Len(g.secs) = 1..n - 1
      BY <1>1, <2>11
    <3>2. Intact(g)
      BY <2>14, <3>1 DEF Intact
    <3> QED
      BY <2>3, <2>11, <2>14, <2>15, <3>1, <3>2 DEF WellFormed
  <2>17. \A x \in 1..n : x # i => \E y \in 1..Len(g.secs) : Same(g.secs[y], s[x])
    <3> TAKE x \in 1..n
    <3> HAVE x # i
    <3> DEFINE y == IF x < i THEN x ELSE x - 1
    <3>1. y \in 1..n - 1 /\ from(y) = x
      BY <1>1
    <3> HIDE DEF y, from
    <3>2. Same(g.secs[y], s[x])
      BY <2>13, <3>1
    <3> QED
      BY <2>11, <3>1, <3>2
  <2>18. \A y \in 1..Len(g.secs) : \E x \in 1..n : Same(g.secs[y], s[x])
    BY <2>11, <2>13
  <2> QED
    BY <2>16, <2>17, <2>18 DEF g, s, n
<1> QED
  BY <1>11, <1>12

(* One turn of the loop of SectionRemove, and the first n of them.         *)
OneTurn(g, i, kind) == IF i <= Len(g.secs) /\ g.secs[i].kind = kind THEN RemoveAtIndex(g, i) ELSE g
Turned(f, kind, n, T) == T = [i \in 0..n |-> IF i = 0 THEN f ELSE OneTurn(T[i - 1], i, kind)]

(* The loop has a result after every number of turns.                      *)
LEMMA TurnsExist ==
  ASSUME NEW f, NEW kind, NEW n \in Nat
  PROVE  \E T : Turned(f, kind, n, T)
<1> DEFINE U == {m \in Nat : ~ \E F : Turned(f, kind, m, F)}
<1>a. SUFFICES ASSUME U # {} PROVE FALSE
  OBVIOUS
<1>1. PICK m \in U : \A k \in U : m <= k
  BY <1>a, Least
<1>2. m \in Nat /\ ~ \E F : Turned(f, kind, m, F)
  BY <1>1
<1>3. CASE m = 0
  <2> DEFINE F == [i \in 0..0 |-> f]
  <2>1. F = [i \in 0..0 |-> IF i = 0 THEN f ELSE OneTurn(F[i - 1], i, kind)]
    OBVIOUS
  <2>2. Turned(f, kind, 0, F)
    BY <2>1 DEF Turned
  <2> QED
    BY <1>2, <1>3, <2>2
<1>4. CASE m # 0
  <2> DEFINE k == m - 1
  <2>1. k \in Nat /\ m = k + 1 /\ k \notin U
    BY <1>1, <1>2, <1>4
  <2> HIDE DEF k
  <2>2. PICK F : Turned(f, kind, k, F)
    BY <2>1
  <2> DEFINE x == OneTurn(F[k], m, kind)
             G == [i \in 0..m |-> IF i = m THEN x ELSE F[i]]
  <2>3. ASSUME NEW i \in 0..m PROVE G[i] = IF i = 0 THEN f ELSE OneTurn(G[i - 1], i, kind)
    <3>1. CASE i = m
      <4>1. G[i] = x
        BY <3>1
      <4>2. i # 0 /\ i - 1 = k /\ k \in 0..m /\ k # m
        BY <2>1, <3>1
      <4>3. G[i - 1] = F[k]
        BY <4>2
      <4> HIDE DEF G
      <4> QED
        BY <3>1, <4>1, <4>2, <4>3
    <3>2. CASE i # m
      <4>1. i \in 0..k /\ (i # 0 => i - 1 \in 0..m /\ i - 1 # m)
        BY <2>1, <3>2
      <4>2. F[i] = IF i = 0 THEN f ELSE OneTurn(F[i - 1], i, kind)
        BY <2>2, <4>1 DEF Turned
      <4>3. G[i] = F[i] /\ (i # 0 => G[i - 1] = F[i - 1])
        BY <3>2, <4>1
      <4> HIDE DEF G
      <4> QED
        BY <4>2, <4>3
    <3> QED
      BY <3>1, <3>2
  <2>4. Turned(f, kind, m, G)
    <3> HIDE DEF x
    <3>1. G = [i \in 0..m |-> G[i]]
      OBVIOUS
    <3> HIDE DEF G
    <3> QED
      BY <2>3, <3>1 DEF Turned
  <2> QED
    BY <1>2, <2>4
<1> QED
  BY <1>3, <1>4

(* The sections of a container of any other kind are in another one.       *)
Others(f, g, kind) ==
  \A x \in 1..Len(f.secs) : f.secs[x].kind # kind => \E y \in 1..Len(g.secs) : Same(g.secs[y], f.secs[x])

(* A turn keeps the sections of other kinds, and none comes.               *)
LEMMA TurnKeeps ==
  ASSUME NEW g, WellFormed(g), NEW i \in Nat \ {0}, NEW kind
  PROVE  WellFormed(OneTurn(g, i, kind)) /\ Others(g, OneTurn(g, i, kind), kind) /\ Others(OneTurn(g, i, kind), g, "none")
<1>1. CASE i <= Len(g.secs) /\ g.secs[i].kind = kind
  <2>1. Len(g.secs) \in Nat
    BY DEF WellFormed
  <2>2. i \in 1..Len(g.secs)
    BY <1>1, <2>1
  <2> DEFINE h == RemoveAtIndex(g, i)
  <2>3. /\ WellFormed(h)
        /\ \A x \in 1..Len(g.secs) : x # i => \E y \in 1..Len(h.secs) : Same(h.secs[y], g.secs[x])
        /\ \A y \in 1..Len(h.secs) : \E x \in 1..Len(g.secs) : Same(h.secs[y], g.secs[x])
    BY <2>2, RemoveKeeps
  <2>4. OneTurn(g, i, kind) = h
    BY <1>1 DEF OneTurn
  <2> HIDE DEF h
  <2>5. Others(g, h, kind)
    BY <1>1, <2>3 DEF Others
  <2>6. Others(h, g, "none")
    BY <2>3 DEF Others, Same
  <2> QED
    BY <2>3, <2>4, <2>5, <2>6
<1>2. CASE ~(i <= Len(g.secs) /\ g.secs[i].kind = kind)
  <2>1. OneTurn(g, i, kind) = g
    BY <1>2 DEF OneTurn
  <2>2. \A k : Others(g, g, k)
    BY DEF Others, Same
  <2> QED
    BY <2>1, <2>2
<1> QED
  BY <1>1, <1>2

(* What two turns keep is kept by both.                                    *)
LEMMA OthersTrans ==
  ASSUME NEW f, NEW g, NEW h, NEW kind, Others(f, g, kind), Others(g, h, kind)
  PROVE  Others(f, h, kind)
<1> SUFFICES ASSUME NEW x \in 1..Len(f.secs), f.secs[x].kind # kind
             PROVE  \E z \in 1..Len(h.secs) : Same(h.secs[z], f.secs[x])
  BY DEF Others
<1>1. PICK y \in 1..Len(g.secs) : Same(g.secs[y], f.secs[x])
  BY DEF Others
<1>2. g.secs[y].kind # kind
  BY <1>1 DEF Same
<1>3. PICK z \in 1..Len(h.secs) : Same(h.secs[z], g.secs[y])
  BY <1>2 DEF Others
<1> QED
  BY <1>1, <1>3 DEF Same

(* Sections are left whole, all those of other kinds stay, and none comes. *)
LEMMA SectionRemoveKeeps ==
  ASSUME NEW f, WellFormed(f), NEW kind
  PROVE  /\ WellFormed(SectionRemove(f, kind))
         /\ Others(f, SectionRemove(f, kind), kind) /\ Others(SectionRemove(f, kind), f, "none")
<1> DEFINE n == Len(f.secs)
           T == CHOOSE t : Turned(f, kind, n, t)
           P(g) == WellFormed(g) /\ Others(f, g, kind) /\ Others(g, f, "none")
<1>1. n \in Nat
  BY DEF WellFormed
<1>2. Turned(f, kind, n, T)
  BY <1>1, TurnsExist
<1>3. SectionRemove(f, kind) = T[n]
  <2> DEFINE R(t) == [i \in 0..n |-> IF i = 0 THEN f ELSE LET g == t[i - 1]
                                        IN IF i <= Len(g.secs) /\ g.secs[i].kind = kind THEN RemoveAtIndex(g, i) ELSE g]
  <2>1. SectionRemove(f, kind) = (CHOOSE t : t = R(t))[n]
    BY DEF SectionRemove
  <2>2. \A t : R(t) = [i \in 0..n |-> IF i = 0 THEN f ELSE OneTurn(t[i - 1], i, kind)]
    BY DEF OneTurn
  <2> HIDE DEF R
  <2>3. \A t : t = R(t) <=> Turned(f, kind, n, t)
    BY <2>2 DEF Turned
  <2> QED
    BY <2>1, <2>3
<1> HIDE DEF T, n
<1>4. \A i \in 0..n : P(T[i])
  <2> DEFINE U == {i \in 0..n : ~P(T[i])}
  <2>a. SUFFICES ASSUME U # {} PROVE FALSE
    OBVIOUS
  <2>1. U \in SUBSET Nat
    OBVIOUS
  <2>2. PICK i \in U : \A j \in U : i <= j
    BY <2>1, <2>a, Least
  <2>3. i \in 0..n /\ ~P(T[i]) /\ \A j \in 0..n : j < i => P(T[j])
    BY <1>1, <2>2
  <2>4. T[i] = IF i = 0 THEN f ELSE OneTurn(T[i - 1], i, kind)
    BY <1>2, <2>3 DEF Turned
  <2>5. i # 0
    <3>1. \A k : Others(f, f, k)
      BY DEF Others, Same
    <3>2. P(f)
      BY <3>1
    <3> QED
      BY <2>3, <2>4, <3>2
  <2>6. i \in Nat \ {0} /\ i - 1 \in 0..n /\ i - 1 < i
    BY <1>1, <2>3, <2>5
  <2> DEFINE g == T[i - 1]
             h == OneTurn(g, i, kind)
  <2>7. P(g)
    BY <2>3, <2>6
  <2> HIDE DEF g
  <2>8. WellFormed(h) /\ Others(g, h, kind) /\ Others(h, g, "none")
    BY <2>6, <2>7, TurnKeeps
  <2>9. T[i] = h
    BY <2>4, <2>5 DEF g
  <2> HIDE DEF h
  <2>10. P(h)
    BY <2>7, <2>8, OthersTrans
  <2> QED
    BY <2>3, <2>9, <2>10
<1>5. P(T[n])
  BY <1>1, <1>4
<1> QED
  BY <1>3, <1>5

-----------------------------------------------------------------------------
(* The xclbin of a download                                                *)

KindsOf(secs) == {secs[i].kind : i \in 1..Len(secs)}

(* Where the program task has a section under way.                         *)
WithSection == Isolated \cup {"clockOff", "clockOn"}

(* What download of these sections leaves in the buffer: the sections are  *)
(* of the kinds that came, those for the APU are all there, and nothing    *)
(* was trimmed before there was a partition of the first kind.             *)
Remains(secs, f) ==
  /\ secs \in Seq(SectionsOf) /\ WellFormed(f)
  /\ \A x \in 1..Len(f.secs) : f.secs[x].kind \in KindsOf(secs)
  /\ \A i \in 1..Len(secs) : secs[i].kind \in {"topo", "other"} =>
       \E x \in 1..Len(f.secs) : f.secs[x].kind = secs[i].kind /\ f.secs[x].size = secs[i].size /\ f.secs[x].own = i

ContainerInv ==
  /\ Remains(layout, xclbin)
  /\ target = "ppdi" => xclbin = Packed(layout)
  /\ target = "pdi" => xclbin = Packed(layout) \/ "ppdi" \in KindsOf(layout)
  /\ pc.prog \in WithSection \cup {"section"} => target \in {"ppdi", "pdi"}
  /\ pc.prog \in WithSection => HasSection(xclbin, target)

(* A section that is found is one of the table, of that kind.              *)
LEMMA FirstIs ==
  ASSUME NEW f, f.secs \in Seq(Entries), NEW kind, Found(f, kind)
  PROVE  FirstOf(f, kind) \in 1..Len(f.secs) /\ f.secs[FirstOf(f, kind)].kind = kind
<1> DEFINE T == {i \in 1..Len(f.secs) : f.secs[i].kind = kind}
<1>1. DOMAIN f.secs = 1..Len(f.secs) /\ Len(f.secs) \in Nat
  OBVIOUS
<1>2. T \in SUBSET Nat /\ T # {}
  BY <1>1 DEF Found
<1>3. PICK i \in T : \A j \in T : i <= j
  BY <1>2, Least
<1>4. i \in DOMAIN f.secs /\ f.secs[i].kind = kind /\ \A j \in 1..i - 1 : f.secs[j].kind # kind
  BY <1>1, <1>3
<1> QED
  BY <1>1, <1>4 DEF FirstOf

(* The container a download begins with.                                   *)
LEMMA PackedRemains ==
  ASSUME NEW secs \in Seq(SectionsOf)
  PROVE  Remains(secs, Packed(secs))
<1> DEFINE f == Packed(secs)
<1>1. /\ WellFormed(f) /\ Len(f.secs) = Len(secs)
      /\ \A i \in 1..Len(secs) : f.secs[i].kind = secs[i].kind /\ f.secs[i].size = secs[i].size /\ f.secs[i].own = i
  BY PackedIs
<1> HIDE DEF f
<1>2. \A x \in 1..Len(f.secs) : f.secs[x].kind \in KindsOf(secs)
  BY <1>1 DEF KindsOf
<1> QED
  BY <1>1, <1>2 DEF Remains, f

(* Trimming a partition of the PL leaves the rest.                         *)
LEMMA TrimRemains ==
  ASSUME NEW secs, NEW f, Remains(secs, f), NEW kind \in {"ppdi", "pdi"}
  PROVE  Remains(secs, SectionRemove(f, kind))
<1> DEFINE g == SectionRemove(f, kind)
<1>1. WellFormed(g) /\ Others(f, g, kind) /\ Others(g, f, "none")
  BY SectionRemoveKeeps DEF Remains
<1> HIDE DEF g
<1>2. ASSUME NEW x \in 1..Len(g.secs) PROVE g.secs[x].kind \in KindsOf(secs)
  <2>1. g.secs[x] \in Entries
    BY <1>1 DEF WellFormed
  <2>2. g.secs[x].kind # "none"
    BY <2>1 DEF Entries, Kinds
  <2>3. PICK y \in 1..Len(f.secs) : Same(f.secs[y], g.secs[x])
    BY <1>1, <2>2 DEF Others
  <2> QED
    BY <2>3 DEF Remains, Same
<1>3. ASSUME NEW i \in 1..Len(secs), secs[i].kind \in {"topo", "other"}
      PROVE  \E x \in 1..Len(g.secs) : g.secs[x].kind = secs[i].kind /\ g.secs[x].size = secs[i].size /\ g.secs[x].own = i
  <2>1. PICK y \in 1..Len(f.secs) : f.secs[y].kind = secs[i].kind /\ f.secs[y].size = secs[i].size /\ f.secs[y].own = i
    BY <1>3 DEF Remains
  <2>2. f.secs[y].kind # kind
    BY <1>3, <2>1
  <2>3. PICK x \in 1..Len(g.secs) : Same(g.secs[x], f.secs[y])
    BY <1>1, <2>2 DEF Others
  <2> QED
    BY <2>1, <2>3 DEF Same
<1> QED
  BY <1>1, <1>2, <1>3 DEF Remains, g

(* Before a download, and after it, there are no sections.                 *)
LEMMA NothingRemains == Remains(<<>>, Packed(<<>>))
<1>1. <<>> \in Seq(SectionsOf)
  OBVIOUS
<1> QED
  BY <1>1, PackedRemains

(* A section that is there has a kind that came.                           *)
LEMMA HasKind ==
  ASSUME NEW secs, NEW f, Remains(secs, f), NEW kind, HasSection(f, kind)
  PROVE  kind \in KindsOf(secs)
<1>1. f.secs \in Seq(Entries)
  BY DEF Remains, WellFormed
<1>2. FirstOf(f, kind) \in 1..Len(f.secs) /\ f.secs[FirstOf(f, kind)].kind = kind
  BY <1>1, FirstIs DEF HasSection
<1> QED
  BY <1>2 DEF Remains

(* Every step of the program task, the trimming among them, keeps what is  *)
(* known of the container.                                                 *)
LEMMA ContainerProg ==
  ASSUME ControlTypes, ContainerInv, ProgStep \/ \E sections \in Layouts : Download(sections)
  PROVE  ContainerInv'
<1> USE DEF WithSection, ProgPcs, Isolated
<1>a. pc \in Tasks
  BY DEF ControlTypes, Tasks
<1>b. ASSUME Over PROVE ContainerInv'
  <2>1. pc'.prog = "idle" /\ target' = "none" /\ layout' = <<>> /\ xclbin' = Packed(<<>>)
    BY <1>a, <1>b, GotoProg DEF Over
  <2> QED
    BY <2>1, NothingRemains DEF ContainerInv
<1>c. ASSUME UNCHANGED <<layout, xclbin, target>>, pc'.prog \in WithSection, pc.prog \in WithSection PROVE ContainerInv'
  BY <1>c DEF ContainerInv
<1>1. ASSUME NEW sections \in Layouts, Download(sections) PROVE ContainerInv'
  <2>1. pc'.prog = "section" /\ target' = "ppdi" /\ layout' = sections /\ xclbin' = Packed(sections)
    BY <1>a, <1>1, GotoProg DEF Download
  <2>2. sections \in Seq(SectionsOf)
    BY PlAssumption DEF SectionsOf
  <2> QED
    BY <2>1, <2>2, PackedRemains DEF ContainerInv
<1>2. CASE SkipSection
  <2>1. layout' = layout /\ xclbin' = xclbin /\ target \in {"ppdi", "pdi"}
    BY <1>2 DEF SkipSection, ContainerInv
  <2>2. target = "ppdi" => target' = "pdi" /\ pc'.prog = "section"
    BY <1>a, <1>2, GotoProg DEF SkipSection, NextKind
  <2>3. target = "pdi" => target' = "none" /\ pc'.prog = "apu"
    BY <1>a, <1>2, GotoProg DEF SkipSection, NextKind
  <2> QED
    BY <2>1, <2>2, <2>3 DEF ContainerInv
<1>3. CASE ApuTransfer
  BY <1>b, <1>3 DEF ApuTransfer
<1>4. CASE LoadBegin
  <2>1. CASE Over
    BY <1>b, <2>1
  <2>2. CASE Goto("prog", "clockOff") /\ UNCHANGED loadVars
    <3>1. pc'.prog = "clockOff" /\ UNCHANGED <<layout, xclbin, target>> /\ HasSection(xclbin, target) /\ pc.prog = "section"
      BY <1>a, <1>4, <2>2, GotoProg DEF LoadBegin, loadVars
    <3>2. HasSection(xclbin, target)'
      BY <3>1 DEF HasSection, Found, FirstOf
    <3> QED
      BY <3>1, <3>2 DEF ContainerInv
  <2> QED
    BY <1>4, <2>1, <2>2 DEF LoadBegin
<1>5. CASE Freeze
  BY <1>a, <1>c, <1>5, GotoProg DEF Freeze, loadVars
<1>6. CASE Stop
  BY <1>a, <1>c, <1>6, GotoProg DEF Stop, loadVars
<1>7. CASE Load
  BY <1>a, <1>c, <1>7, GotoProg DEF Load, loadVars
<1>8. CASE Start
  BY <1>a, <1>c, <1>8, GotoProg DEF Start, loadVars
<1>9. CASE Free
  BY <1>a, <1>c, <1>9, GotoProg DEF Free, loadVars
<1>10. CASE LoadEnd
  <2>1. CASE ~loaded
    BY <1>b, <1>10, <2>1 DEF LoadEnd
  <2>2. CASE loaded
    <3>1. layout' = layout /\ xclbin' = SectionRemove(xclbin, target) /\ NextKind
      BY <1>10, <2>2 DEF LoadEnd
    <3>2. target \in {"ppdi", "pdi"} /\ target \in KindsOf(layout)
      BY <1>10, HasKind DEF LoadEnd, ContainerInv
    <3>3. Remains(layout', xclbin')
      BY <3>1, <3>2, TrimRemains DEF ContainerInv
    <3>4. \/ target = "ppdi" /\ target' = "pdi" /\ pc'.prog = "section"
          \/ target' = "none" /\ pc'.prog = "apu"
      BY <1>a, <3>1, GotoProg DEF NextKind
    <3> QED
      BY <3>1, <3>2, <3>3, <3>4 DEF ContainerInv
  <2> QED
    BY <2>1, <2>2
<1> QED
  BY <1>1, <1>2, <1>3, <1>4, <1>5, <1>6, <1>7, <1>8, <1>9, <1>10 DEF ProgStep

(* The other tasks leave the container alone.                              *)
LEMMA ContainerOthers ==
  ASSUME ControlTypes, ContainerInv,
         \/ ScaleFreeze \/ OpStep \/ \E s \in [reset : BOOLEAN, on : BOOLEAN, limit : Limits] : SetBegin(s)
         \/ SensStep \/ UNCHANGED vars
  PROVE  ContainerInv'
<1>1. pc \in Tasks
  BY DEF ControlTypes, Tasks
<1>2. pc'.prog = pc.prog
  <2>1. CASE UNCHANGED vars
    BY <2>1 DEF vars
  <2> QED
    BY <1>1, <2>1, OpSteps, SensSteps
<1>3. UNCHANGED <<layout, xclbin, target>>
  BY DEF ScaleFreeze, OpStep, SetBegin, SensStep, vars, loadVars, ScaleFree, SetLimit, SetOn, SetOff, SetDefault,
         Poll, Monitor, Thresholds, ShutdownSee, ShutdownTrigger, ShutdownRestore, CopyFlags, CopyLimits, CopyEnd, Throttle
<1> QED
  BY <1>2, <1>3 DEF ContainerInv

(* Every step keeps it.                                                    *)
LEMMA ContainerStep == ControlTypes /\ ContainerInv /\ [Next]_vars => ContainerInv'
BY ContainerProg, ContainerOthers DEF Next

(* It holds before the first download.                                     *)
LEMMA ContainerInit == Init => ContainerInv
BY NothingRemains DEF Init, ContainerInv, WithSection, Isolated

(* Once a PDI of the PL is loaded, its section is trimmed and the rest of  *)
(* the xclbin goes to the APU: whatever sections there are, in whatever    *)
(* order and of whatever size, trimming leaves every entry at its own      *)
(* data, none of those for the APU is lost, and a load that trimmed        *)
(* nothing before finds the clock topology in its place.                   *)
THEOREM TheRestIsIntact == Spec => []RestIsIntact
<1>1. Init => ControlTypes /\ ContainerInv
  BY TypeInit, ContainerInit
<1>2. ControlTypes /\ ContainerInv /\ [Next]_vars => (ControlTypes /\ ContainerInv)'
  BY TypeStep, ContainerStep
<1>3. ASSUME ContainerInv PROVE RestIsIntact
  <2>1. layout \in Seq(SectionsOf) /\ WellFormed(xclbin) /\ xclbin.secs \in Seq(Entries)
    BY <1>3 DEF ContainerInv, Remains, WellFormed
  <2>2. DOMAIN layout = 1..Len(layout) /\ DOMAIN xclbin.secs = 1..Len(xclbin.secs)
    BY <2>1
  <2>3. Intact(xclbin)
    BY <2>1 DEF WellFormed
  <2>4. ASSUME NEW i \in DOMAIN layout, layout[i].kind \in {"topo", "other"}
        PROVE  \E s \in Range(xclbin.secs) : s.own = i /\ s.size = layout[i].size
    <3>1. PICK x \in 1..Len(xclbin.secs) : xclbin.secs[x].size = layout[i].size /\ xclbin.secs[x].own = i
      BY <1>3, <2>2, <2>4 DEF ContainerInv, Remains
    <3>2. xclbin.secs[x] \in Range(xclbin.secs)
      BY <2>2 DEF Range
    <3> QED
      BY <3>1, <3>2
  <2> DEFINE kinds == {layout[i].kind : i \in DOMAIN layout}
  <2>5. ASSUME pc.prog = "load", "topo" \in kinds, ~({"ppdi", "pdi"} \subseteq kinds) PROVE TopologyInPlace
    <3>1. kinds = KindsOf(layout)
      BY <2>2 DEF KindsOf
    <3> HIDE DEF kinds
    <3>2. target \in {"ppdi", "pdi"} /\ target \in kinds
      BY <1>3, <2>5, <3>1, HasKind DEF ContainerInv, WithSection, Isolated
    <3>3. xclbin = Packed(layout)
      BY <1>3, <2>5, <3>1, <3>2 DEF ContainerInv
    <3>4. Found(xclbin, "topo")
      <4>1. PICK i \in 1..Len(layout) : layout[i].kind = "topo"
        BY <2>5, <3>1 DEF KindsOf
      <4>2. \E x \in 1..Len(xclbin.secs) : xclbin.secs[x].kind = "topo"
        BY <1>3, <4>1 DEF ContainerInv, Remains
      <4> QED
        BY <2>2, <4>2 DEF Found
    <3>5. FirstOf(xclbin, "topo") \in DOMAIN xclbin.secs
      BY <2>1, <2>2, <3>4, FirstIs
    <3> QED
      BY <2>3, <3>3, <3>5 DEF TopologyInPlace, Intact
  <2> QED
    BY <2>3, <2>4, <2>5 DEF RestIsIntact
<1> QED
  BY <1>1, <1>2, <1>3, PTL DEF Spec
=============================================================================
