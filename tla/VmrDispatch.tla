---------------------------- MODULE VmrDispatch ----------------------------
(***************************************************************************)
(* The command path of the firmware: the host submits commands on the SQ,  *)
(* the XGQ Receive task routes each one to the queue of the XGQ Program or *)
(* of the XGQ Opcode task, that task runs it (with the help of the Sensor  *)
(* Monitor or SC Comms task where the command needs one) and the           *)
(* completion is written on the CQ under msg_complete_lock.  A command of  *)
(* type "vmr" or "srst" ends with a reset of the firmware.                 *)
(*                                                                         *)
(* A member of Cmds is one use of a command id by the host: the host       *)
(* reuses an id only once it has the completion of its last use, so two    *)
(* uses never coexist and counting them apart loses nothing.               *)
(***************************************************************************)
EXTENDS Integers, Sequences, FiniteSets

CONSTANTS
  Cmds,      \* the commands the host may submit
  NoCmd,     \* the cid of a message that stands for no command (cid 0)
  QLen,      \* XGQ_XQUEUE_LENGTH, the capacity of every FreeRTOS queue
  NSlots,    \* slots of the SQ and of the CQ
  Window,    \* commands the host keeps in flight at most
  VmcReady   \* cl_vmc_is_ready() when cl_main creates the tasks

ASSUME DispatchAssumption ==
  /\ IsFiniteSet(Cmds)
  /\ NoCmd \notin Cmds
  /\ QLen \in Nat \ {0}
  /\ NSlots \in Nat \ {0}
  /\ Window \in Nat \ {0}
  /\ VmcReady \in BOOLEAN

Rcodes     == {"ok", "err"}
HostTypes  == {"pdi", "xclbin", "scfw", "vmr", "quick", "srst", "bad"}
ClockTypes == {"clkOff", "clkOn"}

(* The tasks that complete commands, the two that queue them, and the two  *)
(* VMC tasks that answer requests of the program task.                     *)
Tasks    == {"rx", "prog", "op"}
Workers  == {"prog", "op"}
Services == {"sc", "sensor"}
NoTask   == "none"

(* cl_msg_t: header and type; the payload is what the handlers make of it. *)
Msg   == [cid : Cmds \cup {NoCmd}, type : HostTypes \cup ClockTypes \cup {"none"}, rcode : Rcodes]
Blank == [cid |-> NoCmd, type |-> "none", rcode |-> "ok"]
Entry == [cid : Cmds \cup {NoCmd}, rcode : Rcodes]

(* Seeded fault: an opcode is listed under the wrong queue.                *)
QueueOfOnlyReset(type) == IF type = "srst" THEN "op" ELSE "prog"

(* xgq_cmd_handlers: the queue that serves a command.                      *)
QueueOf(type) == IF type \in {"quick", "srst"} THEN "op" ELSE "prog"
(* The commands completed before their callback, which may not return.     *)
CompletesFirst(type) == type \in {"vmr", "srst"}

VARIABLES
  sq,       \* commands published on the SQ and not yet consumed
  taskQ,    \* the queues of the program and opcode tasks
  reqQ,     \* SCFW_REQ and SENSOR_REQ
  respQ,    \* SCFW_RESP and SENSOR_RESP
  pc,       \* where each completing task is in its loop
  msg,      \* the message each of them works on (Blank: none)
  svcMsg,   \* the request each VMC task works on (Blank: none)
  sects,    \* PL sections of the xclbin that are still to be downloaded
  loaded,   \* result of the last XFpga_BitStream_Load
  lock,     \* the holder of msg_complete_lock
  wslot,    \* the CQ slot a task has reserved (Wild: none was free)
  cqProd,   \* xr_produced of the CQ: slots reserved
  cqReg,    \* the producer pointer the host sees
  cqCons,   \* the consumer pointer of the host
  cqSlot,   \* contents of the CQ slots
  status,   \* the "VMR is ready" word of the shared memory
  stage,    \* where each command is
  outcome,  \* what the handler of each command returned
  reply     \* what the host was told of each command

chanVars  == <<sq, taskQ, reqQ, respQ>>
cqVars    == <<lock, wslot, cqProd, cqReg, cqCons, cqSlot>>
loadVars  == <<sects, loaded>>
taskVars  == <<pc, msg, svcMsg>>
cmdVars   == <<stage, outcome, reply>>
vars == <<sq, taskQ, reqQ, respQ, pc, msg, svcMsg, sects, loaded, lock, wslot,
          cqProd, cqReg, cqCons, cqSlot, status, stage, outcome, reply>>

Wild == NSlots    \* stands for an address that was never initialised

Live   == {"sq", "rx", "queued", "held", "req", "svc", "resp", "cq"}
Stages == Live \cup {"unsent", "answered", "lost"}

(* Commands the host has submitted and knows no result of.                 *)
Outstanding == {c \in Cmds : stage[c] \in Live}

FirmwareReset ==
  /\ sq' = <<>>
  /\ taskQ' = [w \in Workers |-> <<>>]
  /\ reqQ' = [s \in Services |-> <<>>]
  /\ respQ' = [s \in Services |-> <<>>]
  /\ pc' = [t \in Tasks |-> IF t = "rx" THEN "wait" ELSE "recv"]
  /\ msg' = [t \in Tasks |-> Blank]
  /\ svcMsg' = [s \in Services |-> Blank]
  /\ sects' = 0
  /\ loaded' = "ok"
  /\ lock' = NoTask
  /\ wslot' = [t \in Tasks |-> 0]
  /\ cqProd' = 0 /\ cqReg' = 0 /\ cqCons' = 0
  /\ cqSlot' = [i \in 0..NSlots-1 |-> [cid |-> NoCmd, rcode |-> "ok"]]
  /\ status' = 1

Init ==
  /\ sq = <<>>
  /\ taskQ = [w \in Workers |-> <<>>]
  /\ reqQ = [s \in Services |-> <<>>]
  /\ respQ = [s \in Services |-> <<>>]
  /\ pc = [t \in Tasks |-> IF t = "rx" THEN "wait" ELSE "recv"]
  /\ msg = [t \in Tasks |-> Blank]
  /\ svcMsg = [s \in Services |-> Blank]
  /\ sects = 0
  /\ loaded = "ok"
  /\ lock = NoTask
  /\ wslot = [t \in Tasks |-> 0]
  /\ cqProd = 0 /\ cqReg = 0 /\ cqCons = 0
  /\ cqSlot = [i \in 0..NSlots-1 |-> [cid |-> NoCmd, rcode |-> "ok"]]
  /\ status = 1
  /\ stage = [c \in Cmds |-> "unsent"]
  /\ outcome = [c \in Cmds |-> "none"]
  /\ reply = [c \in Cmds |-> "none"]

-----------------------------------------------------------------------------
(* The host: an XGQ client that keeps at most Window commands in flight.   *)

(* A slot of the SQ stays taken until the receive task has dealt with the  *)
(* command in it and has published its consumer pointer.                   *)
SqSlotsInUse == Len(sq) + (IF pc["rx"] = "wait" THEN 0 ELSE 1)

HostSubmit(c, type) ==
  /\ stage[c] = "unsent"
  /\ SqSlotsInUse < NSlots
  /\ Cardinality(Outstanding) < Window
  /\ sq' = Append(sq, [cid |-> c, type |-> type, rcode |-> "ok"])
  /\ stage' = [stage EXCEPT ![c] = "sq"]
  /\ UNCHANGED <<taskQ, reqQ, respQ, taskVars, loadVars, cqVars, status, outcome, reply>>

HostReceive ==
  /\ cqCons < cqReg
  /\ LET e == cqSlot[cqCons % NSlots] IN
       IF e.cid \in Cmds
       THEN /\ reply' = [reply EXCEPT ![e.cid] = e.rcode]
            /\ stage' = [stage EXCEPT ![e.cid] = "answered"]
       ELSE UNCHANGED <<reply, stage>>
  /\ cqCons' = cqCons + 1
  /\ UNCHANGED <<chanVars, taskVars, loadVars, lock, wslot, cqProd, cqReg, cqSlot, status, outcome>>

-----------------------------------------------------------------------------
(* cl_xgq_receive_func                                                     *)

RxConsume ==
  /\ pc["rx"] = "wait"
  /\ sq # <<>>
  /\ msg' = [msg EXCEPT !["rx"] = Head(sq)]
  /\ sq' = Tail(sq)
  /\ pc' = [pc EXCEPT !["rx"] = "submit"]
  /\ stage' = [stage EXCEPT ![Head(sq).cid] = "rx"]
  /\ UNCHANGED <<taskQ, reqQ, respQ, svcMsg, loadVars, cqVars, status, outcome, reply>>

(* Seeded fault: a full queue is not reported and the message is dropped.  *)
RxSubmitDropsWhenFull ==
  LET m == msg["rx"]
      q == QueueOf(m.type)
  IN /\ pc["rx"] = "submit"
     /\ m.type # "bad"
     /\ taskQ' = IF Len(taskQ[q]) < QLen THEN [taskQ EXCEPT ![q] = Append(@, m)] ELSE taskQ
     /\ stage' = [stage EXCEPT ![m.cid] = "queued"]
     /\ msg' = [msg EXCEPT !["rx"] = Blank]
     /\ pc' = [pc EXCEPT !["rx"] = "notify"]
     /\ UNCHANGED <<sq, reqQ, respQ, svcMsg, loadVars, cqVars, status, outcome, reply>>

(* submit_to_queue: the message goes to the queue of the opcode.           *)
RxSubmit ==
  LET m == msg["rx"]
      q == QueueOf(m.type)
  IN /\ pc["rx"] = "submit"
     /\ m.type # "bad"
     /\ Len(taskQ[q]) < QLen
     /\ taskQ' = [taskQ EXCEPT ![q] = Append(@, m)]
     /\ stage' = [stage EXCEPT ![m.cid] = "queued"]
     /\ msg' = [msg EXCEPT !["rx"] = Blank]
     /\ pc' = [pc EXCEPT !["rx"] = "notify"]
     /\ UNCHANGED <<sq, reqQ, respQ, svcMsg, loadVars, cqVars, status, outcome, reply>>

(* Seeded fault: a refused command is forgotten instead of completed.      *)
RxAbortForgets ==
  /\ pc["rx"] = "submit"
  /\ msg["rx"].type = "bad" \/ Len(taskQ[QueueOf(msg["rx"].type)]) = QLen
  /\ pc' = [pc EXCEPT !["rx"] = "notify"]
  /\ UNCHANGED <<chanVars, msg, svcMsg, loadVars, cqVars, status, cmdVars>>

(* submit_to_queue fails (no such opcode, a payload its handler refuses,   *)
(* or a queue that stays full for XGQ_XQUEUE_WAIT_MS) and abort_msg        *)
(* completes the command with -EINVAL.                                     *)
RxAbort ==
  LET m == msg["rx"] IN
  /\ pc["rx"] = "submit"
  /\ m.type = "bad" \/ Len(taskQ[QueueOf(m.type)]) = QLen
  /\ msg' = [msg EXCEPT !["rx"] = [cid |-> m.cid, type |-> "none", rcode |-> "err"]]
  /\ outcome' = [outcome EXCEPT ![m.cid] = "err"]
  /\ pc' = [pc EXCEPT !["rx"] = "complete"]
  /\ UNCHANGED <<chanVars, svcMsg, loadVars, cqVars, status, stage, reply>>

RxNotify ==
  /\ pc["rx"] = "notify"
  /\ pc' = [pc EXCEPT !["rx"] = "wait"]
  /\ UNCHANGED <<chanVars, msg, svcMsg, loadVars, cqVars, status, cmdVars>>

-----------------------------------------------------------------------------
(* cl_msg_handle_complete, run by any of the three tasks                   *)

(* Seeded fault: the completion lock is not taken.                         *)
CompleteReserveNoLock(t) ==
  /\ pc[t] = "complete"
  /\ lock' = t
  /\ IF cqProd - cqCons < NSlots
     THEN wslot' = [wslot EXCEPT ![t] = cqProd % NSlots] /\ cqProd' = cqProd + 1
     ELSE wslot' = [wslot EXCEPT ![t] = Wild] /\ UNCHANGED cqProd
  /\ pc' = [pc EXCEPT ![t] = "publish"]
  /\ UNCHANGED <<chanVars, msg, svcMsg, loadVars, cqReg, cqCons, cqSlot, status, cmdVars>>

(* Seeded fault: xgq_produce does not test whether the ring is full.       *)
CompleteReserveWhenFull(t) ==
  /\ pc[t] = "complete"
  /\ lock = NoTask
  /\ lock' = t
  /\ wslot' = [wslot EXCEPT ![t] = cqProd % NSlots]
  /\ cqProd' = cqProd + 1
  /\ pc' = [pc EXCEPT ![t] = "publish"]
  /\ UNCHANGED <<chanVars, msg, svcMsg, loadVars, cqReg, cqCons, cqSlot, status, cmdVars>>

(* xSemaphoreTake and xgq_produce.  The result of xgq_produce is not       *)
(* tested: when the CQ is full the slot address stays uninitialised.       *)
CompleteReserve(t) ==
  /\ pc[t] = "complete"
  /\ lock = NoTask
  /\ lock' = t
  /\ IF cqProd - cqCons < NSlots
     THEN /\ wslot' = [wslot EXCEPT ![t] = cqProd % NSlots]
          /\ cqProd' = cqProd + 1
     ELSE /\ wslot' = [wslot EXCEPT ![t] = Wild]
          /\ UNCHANGED cqProd
  /\ pc' = [pc EXCEPT ![t] = "publish"]
  /\ UNCHANGED <<chanVars, msg, svcMsg, loadVars, cqReg, cqCons, cqSlot, status, cmdVars>>

(* cl_memcpy_toio, xgq_notify_peer_produced and xSemaphoreGive.  A wild    *)
(* address may be one left on the stack, that of any slot, or lie outside  *)
(* the ring.                                                               *)
CompletePublish(t) ==
  LET e == [cid |-> msg[t].cid, rcode |-> msg[t].rcode] IN
  /\ pc[t] = "publish"
  /\ \/ /\ wslot[t] # Wild
        /\ cqSlot' = [cqSlot EXCEPT ![wslot[t]] = e]
     \/ /\ wslot[t] = Wild
        /\ \/ \E i \in 0..NSlots-1 : cqSlot' = [cqSlot EXCEPT ![i] = e]
           \/ UNCHANGED cqSlot
  /\ cqReg' = cqProd
  /\ lock' = NoTask
  /\ stage' = [stage EXCEPT ![msg[t].cid] = "cq"]
  /\ msg' = [msg EXCEPT ![t] = Blank]
  /\ pc' = [pc EXCEPT ![t] = IF t = "rx" THEN "notify"
                             ELSE IF CompletesFirst(msg[t].type) THEN "stop"
                             ELSE "recv"]
  /\ UNCHANGED <<chanVars, svcMsg, loadVars, wslot, cqProd, cqCons, status, outcome, reply>>

(* A handler returns r: the message gets its rcode and is to be completed. *)
Finish(t, m, r) ==
  /\ msg' = [msg EXCEPT ![t] = [m EXCEPT !.rcode = r]]
  /\ outcome' = [outcome EXCEPT ![m.cid] = r]
  /\ pc' = [pc EXCEPT ![t] = "complete"]

-----------------------------------------------------------------------------
(* cl_xgq_program_func and cl_xgq_opcode_func                              *)

(* cl_recv_from_queue and the dispatch on the type.  The commands that     *)
(* reset the firmware are completed, with rcode 0, before their callback.  *)
FirstStep(type) ==
  CASE type = "pdi"    -> "work"
    [] type = "quick"  -> "work"
    [] type = "xclbin" -> "section"
    [] type = "scfw"   -> "scfw"
    [] OTHER           -> "complete"

WorkerRecv(w) ==
  /\ pc[w] = "recv"
  /\ taskQ[w] # <<>>
  /\ LET m == Head(taskQ[w]) IN
       /\ msg' = [msg EXCEPT ![w] = m]
       /\ stage' = [stage EXCEPT ![m.cid] = "held"]
       /\ pc' = [pc EXCEPT ![w] = FirstStep(m.type)]
       /\ outcome' = IF CompletesFirst(m.type) THEN [outcome EXCEPT ![m.cid] = "ok"] ELSE outcome
       /\ sects' \in (IF w = "prog" /\ m.type = "xclbin" THEN 0..2 ELSE {sects})
  /\ taskQ' = [taskQ EXCEPT ![w] = Tail(@)]
  /\ UNCHANGED <<sq, reqQ, respQ, svcMsg, loaded, cqVars, status, reply>>

(* A callback that runs to its end in its own task: a PDI flash or APU     *)
(* download, any opcode, and what remains of an xclbin download when no PL *)
(* section is left (the transfer of the rest to the APU).                  *)
WorkerWork(w) ==
  /\ \/ pc[w] = "work"
     \/ pc[w] = "section" /\ sects = 0
  /\ \E r \in Rcodes : Finish(w, msg[w], r)
  /\ UNCHANGED <<chanVars, svcMsg, loadVars, cqVars, status, stage, reply>>

(* The xclbin is refused (rmgmt_validate_uuid), or the FPGA manager does   *)
(* not initialise for a section (XFpga_Initialize).                        *)
XclbinRefused ==
  /\ pc["prog"] = "section"
  /\ sects > 0
  /\ Finish("prog", msg["prog"], "err")
  /\ UNCHANGED <<chanVars, svcMsg, loadVars, cqVars, status, stage, reply>>

(* disable_kernel_clock and enable_kernel_clock: a request to the sensor   *)
(* task when VMC is ready, a direct call otherwise.                        *)
ClockRequest(from, type, wait) ==
  /\ VmcReady
  /\ pc["prog"] = from
  /\ Len(reqQ["sensor"]) < QLen
  /\ reqQ' = [reqQ EXCEPT !["sensor"] = Append(@, [cid |-> NoCmd, type |-> type, rcode |-> "ok"])]
  /\ pc' = [pc EXCEPT !["prog"] = wait]
  /\ UNCHANGED <<sq, taskQ, respQ, msg, svcMsg, loadVars, cqVars, status, cmdVars>>

(* Seeded fault: the clocks are stopped for a section that is not there.   *)
ClockOffRequestAlways == ClockRequest("section", "clkOff", "clkOffWait")

ClockOffRequest == sects > 0 /\ ClockRequest("section", "clkOff", "clkOffWait")
ClockOnRequest  == ClockRequest("clkOn", "clkOn", "clkOnWait")

(* The clocks are off (r = "ok"): load the section.  Otherwise give up.    *)
AfterClockOff(r) ==
  IF r = "ok"
  THEN /\ pc' = [pc EXCEPT !["prog"] = "load"]
       /\ UNCHANGED <<msg, outcome>>
  ELSE Finish("prog", msg["prog"], "err")

(* The clocks were switched on again, whatever the request returned.       *)
AfterClockOn ==
  IF loaded = "ok"
  THEN /\ sects' = sects - 1
       /\ pc' = [pc EXCEPT !["prog"] = "section"]
       /\ UNCHANGED <<msg, outcome>>
  ELSE /\ Finish("prog", msg["prog"], "err")
       /\ UNCHANGED sects

(* Seeded fault: the program task gives up waiting for the sensor task.    *)
ClockOffAnswerOrTimeout ==
  /\ pc["prog"] = "clkOffWait"
  /\ IF respQ["sensor"] # <<>>
     THEN /\ AfterClockOff(Head(respQ["sensor"]).rcode)
          /\ respQ' = [respQ EXCEPT !["sensor"] = Tail(@)]
     ELSE Finish("prog", msg["prog"], "err") /\ UNCHANGED respQ
  /\ UNCHANGED <<sq, taskQ, reqQ, svcMsg, loadVars, cqVars, status, stage, reply>>

ClockOffAnswer ==
  /\ pc["prog"] = "clkOffWait"
  /\ respQ["sensor"] # <<>>
  /\ AfterClockOff(Head(respQ["sensor"]).rcode)
  /\ respQ' = [respQ EXCEPT !["sensor"] = Tail(@)]
  /\ UNCHANGED <<sq, taskQ, reqQ, svcMsg, loadVars, cqVars, status, stage, reply>>

ClockOnAnswer ==
  /\ pc["prog"] = "clkOnWait"
  /\ respQ["sensor"] # <<>>
  /\ AfterClockOn
  /\ respQ' = [respQ EXCEPT !["sensor"] = Tail(@)]
  /\ UNCHANGED <<sq, taskQ, reqQ, svcMsg, loaded, cqVars, status, stage, reply>>

ClockOffDirect ==
  /\ ~VmcReady
  /\ pc["prog"] = "section" /\ sects > 0
  /\ AfterClockOff("ok")
  /\ UNCHANGED <<chanVars, svcMsg, loadVars, cqVars, status, stage, reply>>

ClockOnDirect ==
  /\ ~VmcReady
  /\ pc["prog"] = "clkOn"
  /\ AfterClockOn
  /\ UNCHANGED <<chanVars, svcMsg, loaded, cqVars, status, stage, reply>>

(* XFpga_BitStream_Load, between disable and enable of the kernel clock.   *)
ProgLoad ==
  /\ pc["prog"] = "load"
  /\ loaded' \in Rcodes
  /\ pc' = [pc EXCEPT !["prog"] = "clkOn"]
  /\ UNCHANGED <<chanVars, msg, svcMsg, sects, cqVars, status, cmdVars>>

(* program_scfw: the message itself travels to the SC task and back, and   *)
(* what comes back replaces the one that was sent.                         *)
ScfwRequest ==
  LET m == msg["prog"] IN
  /\ pc["prog"] = "scfw"
  /\ Len(reqQ["sc"]) < QLen
  /\ reqQ' = [reqQ EXCEPT !["sc"] = Append(@, m)]
  /\ stage' = [stage EXCEPT ![m.cid] = "req"]
  /\ msg' = [msg EXCEPT !["prog"] = Blank]
  /\ pc' = [pc EXCEPT !["prog"] = "scfwWait"]
  /\ UNCHANGED <<sq, taskQ, respQ, svcMsg, loadVars, cqVars, status, outcome, reply>>

ScfwAnswer ==
  /\ pc["prog"] = "scfwWait"
  /\ respQ["sc"] # <<>>
  /\ LET m == Head(respQ["sc"]) IN
       /\ msg' = [msg EXCEPT !["prog"] = m]
       /\ stage' = [stage EXCEPT ![m.cid] = "held"]
  /\ respQ' = [respQ EXCEPT !["sc"] = Tail(@)]
  /\ pc' = [pc EXCEPT !["prog"] = "complete"]
  /\ UNCHANGED <<sq, taskQ, reqQ, svcMsg, loadVars, cqVars, status, outcome, reply>>

-----------------------------------------------------------------------------
(* cl_vmc_sc_comms_func and cl_vmc_sensor_func, created when VMC is ready  *)

(* Move the command of message m, if it stands for one, to place p.        *)
Move(m, p) == stage' = [c \in Cmds |-> IF c = m.cid THEN p ELSE stage[c]]

ServiceTake(s) ==
  /\ VmcReady
  /\ svcMsg[s] = Blank
  /\ reqQ[s] # <<>>
  /\ svcMsg' = [svcMsg EXCEPT ![s] = Head(reqQ[s])]
  /\ Move(Head(reqQ[s]), "svc")
  /\ reqQ' = [reqQ EXCEPT ![s] = Tail(@)]
  /\ UNCHANGED <<sq, taskQ, respQ, pc, msg, loadVars, cqVars, status, outcome, reply>>

(* Seeded fault: the request is sent back without cl_msg_set_rcode.        *)
ServiceAnswerNoRcode(s) ==
  LET m == svcMsg[s] IN
  /\ m # Blank
  /\ Len(respQ[s]) < QLen
  /\ respQ' = [respQ EXCEPT ![s] = Append(@, m)]
  /\ \E r \in Rcodes : outcome' = [c \in Cmds |-> IF c = m.cid THEN r ELSE outcome[c]]
  /\ Move(m, "resp")
  /\ svcMsg' = [svcMsg EXCEPT ![s] = Blank]
  /\ UNCHANGED <<sq, taskQ, reqQ, pc, msg, loadVars, cqVars, status, reply>>

(* The clock requests the sensor task serves always return 0.              *)
ServiceRcodes(s) == IF s = "sc" THEN Rcodes ELSE {"ok"}

ServiceAnswer(s) ==
  LET m == svcMsg[s] IN
  /\ m # Blank
  /\ Len(respQ[s]) < QLen
  /\ \E r \in ServiceRcodes(s) :
       /\ respQ' = [respQ EXCEPT ![s] = Append(@, [m EXCEPT !.rcode = r])]
       /\ outcome' = [c \in Cmds |-> IF c = m.cid THEN r ELSE outcome[c]]
  /\ Move(m, "resp")
  /\ svcMsg' = [svcMsg EXCEPT ![s] = Blank]
  /\ UNCHANGED <<sq, taskQ, reqQ, pc, msg, loadVars, cqVars, status, reply>>

-----------------------------------------------------------------------------
(* rmgmt_pm_reset_rpu and rmgmt_eemi_pm_reset, after the completion        *)

(* The callback gives up before, or in, vmr_status_service_stop.           *)
ResetRefused(w) ==
  /\ pc[w] = "stop"
  /\ pc' = [pc EXCEPT ![w] = "recv"]
  /\ UNCHANGED <<chanVars, msg, svcMsg, loadVars, cqVars, status, cmdVars>>

ServiceStop(w) ==
  /\ pc[w] = "stop"
  /\ status' = 0
  /\ pc' = [pc EXCEPT ![w] = "shutdown"]
  /\ UNCHANGED <<chanVars, msg, svcMsg, loadVars, cqVars, cmdVars>>

(* XPm_SystemShutdown: the task spins until the reset comes, or returns.   *)
Shutdown(w) ==
  /\ pc[w] = "shutdown"
  /\ \E next \in {"hang", "recv"} : pc' = [pc EXCEPT ![w] = next]
  /\ UNCHANGED <<chanVars, msg, svcMsg, loadVars, cqVars, status, cmdVars>>

(* The firmware starts again and vmr_xgq_init resets both rings; the host  *)
(* attaches anew and gives up the commands it has no completion of.        *)
Reboot ==
  /\ \E w \in Workers : pc[w] = "hang"
  /\ FirmwareReset
  /\ stage' = [c \in Cmds |-> IF stage[c] \in Live THEN "lost" ELSE stage[c]]
  /\ UNCHANGED <<outcome, reply>>

-----------------------------------------------------------------------------
(* The host has sent all it had to send and has every answer it will get.  *)
Quiet ==
  /\ \A c \in Cmds : stage[c] \in {"answered", "lost"}
  /\ UNCHANGED vars

RxStep ==
  RxConsume \/ RxSubmit \/ RxAbort \/ RxNotify \/ CompleteReserve("rx") \/ CompletePublish("rx")
ResetStep(w) == ResetRefused(w) \/ ServiceStop(w) \/ Shutdown(w)
WorkerStep(w) ==
  WorkerRecv(w) \/ WorkerWork(w) \/ CompleteReserve(w) \/ CompletePublish(w) \/ ResetStep(w)
ClockStep ==
  \/ ClockOffRequest \/ ClockOffAnswer \/ ClockOffDirect
  \/ ClockOnRequest \/ ClockOnAnswer \/ ClockOnDirect
ProgStep == XclbinRefused \/ ClockStep \/ ProgLoad \/ ScfwRequest \/ ScfwAnswer
ServiceStep(s) == ServiceTake(s) \/ ServiceAnswer(s)

Next ==
  \/ \E c \in Cmds, type \in HostTypes : HostSubmit(c, type)
  \/ HostReceive
  \/ RxStep
  \/ \E w \in Workers : WorkerStep(w)
  \/ ProgStep
  \/ \E s \in Services : ServiceStep(s)
  \/ Reboot
  \/ Quiet

Spec == Init /\ [][Next]_vars

(* Every task runs at the same priority and the scheduler preempts, so a   *)
(* task that can go on does; the host reads the completions it is sent and *)
(* a requested reset comes.                                                *)
Fairness ==
  /\ WF_vars(HostReceive)
  /\ WF_vars(RxStep)
  /\ WF_vars(WorkerStep("prog") \/ ProgStep)
  /\ WF_vars(WorkerStep("op"))
  /\ \A s \in Services : WF_vars(ServiceStep(s))
  /\ WF_vars(Reboot)

FairSpec == Spec /\ Fairness

-----------------------------------------------------------------------------
WorkerPcs == {"recv", "work", "section", "clkOffWait", "load", "clkOn", "clkOnWait",
              "scfw", "scfwWait", "complete", "publish", "stop", "shutdown", "hang"}
Pcs == WorkerPcs \cup {"wait", "submit", "notify"}

(* The type invariant of the command path.                                 *)
TypeOK ==
  /\ sq \in Seq(Msg)
  /\ taskQ \in [Workers -> Seq(Msg)]
  /\ reqQ \in [Services -> Seq(Msg)]
  /\ respQ \in [Services -> Seq(Msg)]
  /\ pc \in [Tasks -> Pcs]
  /\ msg \in [Tasks -> Msg]
  /\ svcMsg \in [Services -> Msg]
  /\ sects \in 0..2
  /\ loaded \in Rcodes
  /\ lock \in Tasks \cup {NoTask}
  /\ wslot \in [Tasks -> 0..NSlots]
  /\ cqProd \in Nat /\ cqReg \in Nat /\ cqCons \in Nat
  /\ cqSlot \in [0..NSlots-1 -> Entry]
  /\ status \in {0, 1}
  /\ stage \in [Cmds -> Stages]
  /\ outcome \in [Cmds -> Rcodes \cup {"none"}]
  /\ reply \in [Cmds -> Rcodes \cup {"none"}]

Cids(q) == {q[i].cid : i \in DOMAIN q}
Unread  == cqCons .. cqReg - 1

(* A command the host waits for is always somewhere in the firmware, in    *)
(* the place its stage names and in no other: none is dropped between two  *)
(* queues and none is handled twice.                                       *)
HeldSomewhere ==
  \A c \in Cmds :
    /\ stage[c] = "sq"     <=> c \in Cids(sq)
    /\ stage[c] = "rx"     <=> c = msg["rx"].cid
    /\ stage[c] = "queued" <=> \E w \in Workers : c \in Cids(taskQ[w])
    /\ stage[c] = "held"   <=> \E w \in Workers : c = msg[w].cid
    /\ stage[c] = "req"    <=> c \in Cids(reqQ["sc"])
    /\ stage[c] = "svc"    <=> c = svcMsg["sc"].cid
    /\ stage[c] = "resp"   <=> c \in Cids(respQ["sc"])
    /\ stage[c] = "cq"     <=> \E i \in Unread : c = cqSlot[i % NSlots].cid

(* The host gets one completion per command: no completion is in the CQ    *)
(* for a command the host already has the answer of, and none is there     *)
(* twice.                                                                  *)
AnsweredOnce ==
  \A i \in Unread :
    LET e == cqSlot[i % NSlots] IN
      /\ e.cid \in Cmds
      /\ reply[e.cid] = "none"
      /\ \A j \in Unread : cqSlot[j % NSlots].cid = e.cid => i = j

(* What the host is told is what the handler of that very command          *)
(* returned, whatever queues the message went through.                     *)
ReplyIsOutcome == \A c \in Cmds : reply[c] # "none" => reply[c] = outcome[c]

(* The program task and a VMC task share no more than one request: a task  *)
(* that waits for an answer can only get the answer to its own request.    *)
OneRequestInFlight ==
  \A s \in Services :
    Len(reqQ[s]) + Len(respQ[s]) + (IF svcMsg[s] = Blank THEN 0 ELSE 1)
      = IF pc["prog"] \in (IF s = "sc" THEN {"scfwWait"} ELSE {"clkOffWait", "clkOnWait"}) THEN 1 ELSE 0

(* Even when the host has more commands in flight than the CQ has slots,   *)
(* the pointers of the CQ stay in order: no slot is reserved that the host *)
(* has not read, and no more than one is reserved and not yet published.   *)
CqNeverOverrun ==
  /\ cqCons <= cqReg
  /\ cqReg <= cqProd
  /\ cqProd <= cqReg + 1
  /\ cqProd <= cqCons + NSlots

Settled(c) == stage[c] \in {"answered", "lost"}

(* Every submitted command is completed, unless a reset comes first.       *)
EveryCommandAnswered == \A c \in Cmds : (stage[c] # "unsent") ~> Settled(c)

(* A command for the opcode task is carried to its completion even when    *)
(* the program task is blocked for good and the CQ is full: the receive    *)
(* task waits for neither.                                                 *)
OpcodeOnSq(c) == \E i \in DOMAIN sq : sq[i].cid = c /\ sq[i].type \in {"quick", "srst"}
OpcodePathIsOpen == \A c \in Cmds : OpcodeOnSq(c) ~> (stage[c] = "cq" \/ Settled(c))

=============================================================================
