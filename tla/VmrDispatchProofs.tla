------------------------- MODULE VmrDispatchProofs -------------------------
(***************************************************************************)
(* Theorems about the command path, for every number of commands, queue    *)
(* length, ring size and host window.                                      *)
(***************************************************************************)
EXTENDS VmrDispatch, FiniteSetTheorems, TLAPS

-----------------------------------------------------------------------------
(* The PL section the program task works on is one of those still to be    *)
(* downloaded: the conjunct that makes TypeOK inductive.                   *)
InSection == {"clkOffWait", "load", "clkOn", "clkOnWait"}
SectionPending == pc["prog"] \in InSection => sects > 0
TypeInv == TypeOK /\ SectionPending

(* A command's message carries one of the return codes.                    *)
LEMMA BlankType == Blank \in Msg
BY DEF Blank, Msg, Rcodes

(* Taking the first message of a queue of messages yields a message and    *)
(* leaves a queue of messages.                                             *)
LEMMA HeadTail ==
  ASSUME NEW S, NEW q \in Seq(S), q # <<>>
  PROVE  Head(q) \in S /\ Tail(q) \in Seq(S)
OBVIOUS

(* The place a task goes to when it has received a command is one of its   *)
(* own.                                                                    *)
LEMMA FirstStepType ==
  ASSUME NEW type
  PROVE  FirstStep(type) \in WorkerPcs \ InSection
BY DEF FirstStep, WorkerPcs, InSection

(* The initial state of the firmware is well typed.                        *)
LEMMA TypeInit == Init => TypeInv
<1> SUFFICES ASSUME Init PROVE TypeInv
  OBVIOUS
<1> USE DispatchAssumption DEF Init
<1>1. Blank \in Msg
  BY BlankType
<1>2. [cid |-> NoCmd, rcode |-> "ok"] \in Entry
  BY DEF Entry, Rcodes
<1>3. pc \in [Tasks -> Pcs]
  BY DEF Tasks, Pcs, WorkerPcs
<1>4. sq \in Seq(Msg) /\ taskQ \in [Workers -> Seq(Msg)]
  OBVIOUS
<1>5. reqQ \in [Services -> Seq(Msg)] /\ respQ \in [Services -> Seq(Msg)]
  OBVIOUS
<1>6. msg \in [Tasks -> Msg] /\ svcMsg \in [Services -> Msg]
  BY <1>1
<1>7. cqSlot \in [0..NSlots-1 -> Entry]
  BY <1>2
<1>8. wslot \in [Tasks -> 0..NSlots]
  OBVIOUS
<1>9. /\ stage \in [Cmds -> Stages]
      /\ outcome \in [Cmds -> Rcodes \cup {"none"}]
      /\ reply \in [Cmds -> Rcodes \cup {"none"}]
  BY DEF Stages
<1>10. sects \in 0..2 /\ loaded \in Rcodes /\ lock \in Tasks \cup {NoTask} /\ status \in {0, 1}
  BY DEF Rcodes
<1>11. SectionPending
  BY DEF SectionPending, InSection, Tasks
<1> QED
  BY <1>3, <1>4, <1>5, <1>6, <1>7, <1>8, <1>9, <1>10, <1>11 DEF TypeInv, TypeOK

(* What a step of each part of the system leaves of the types.             *)
LEMMA TypeHost ==
  ASSUME TypeInv, NEW c \in Cmds, NEW type \in HostTypes,
         HostSubmit(c, type)
  PROVE  TypeInv'
<1> USE DispatchAssumption DEF TypeInv, TypeOK, SectionPending, chanVars, cqVars, loadVars, taskVars, cmdVars
<1>1. [cid |-> c, type |-> type, rcode |-> "ok"] \in Msg
  BY DEF Msg, Rcodes
<1>2. "sq" \in Stages
  BY DEF Stages, Live
<1> QED
  BY <1>1, <1>2 DEF HostSubmit

(* HostReceive keeps the types: what is in a CQ slot is an entry.          *)
LEMMA TypeReceive == TypeInv /\ HostReceive => TypeInv'
<1> SUFFICES ASSUME TypeInv, HostReceive PROVE TypeInv'
  OBVIOUS
<1> USE DispatchAssumption DEF TypeInv, TypeOK, SectionPending, chanVars, cqVars, loadVars, taskVars, cmdVars
<1> DEFINE e == cqSlot[cqCons % NSlots]
<1>1. cqCons % NSlots \in 0..NSlots-1
  OBVIOUS
<1>2. e \in Entry
  BY <1>1
<1>3. e.rcode \in Rcodes /\ "answered" \in Stages
  BY <1>2 DEF Entry, Stages
<1>4. /\ reply' = IF e.cid \in Cmds THEN [reply EXCEPT ![e.cid] = e.rcode] ELSE reply
      /\ stage' = IF e.cid \in Cmds THEN [stage EXCEPT ![e.cid] = "answered"] ELSE stage
  BY DEF HostReceive
<1>41. /\ reply' \in [Cmds -> Rcodes \cup {"none"}]
       /\ stage' \in [Cmds -> Stages]
  BY <1>3, <1>4
<1>5. cqCons' \in Nat
  BY DEF HostReceive
<1>6. UNCHANGED <<chanVars, taskVars, loadVars, lock, wslot, cqProd, cqReg, cqSlot, status, outcome>>
  BY DEF HostReceive
<1> QED
  BY <1>41, <1>5, <1>6

(* The steps of the XGQ Receive task keep the types.                       *)
LEMMA TypeRx ==
  ASSUME TypeInv, RxConsume \/ RxSubmit \/ RxAbort \/ RxNotify
  PROVE  TypeInv'
<1> USE DispatchAssumption DEF TypeInv, TypeOK, SectionPending, chanVars, cqVars, loadVars, taskVars, cmdVars
<1>0. {"rx", "queued"} \subseteq Stages /\ {"wait", "submit", "notify", "complete"} \subseteq Pcs
  BY DEF Stages, Live, Pcs, WorkerPcs
<1>1. CASE RxConsume
  <2>1. Head(sq) \in Msg /\ Tail(sq) \in Seq(Msg)
    BY <1>1, HeadTail DEF RxConsume
  <2> QED
    BY <1>0, <1>1, <2>1 DEF RxConsume, Tasks
<1>2. CASE RxSubmit
  <2>1. msg["rx"] \in Msg /\ Blank \in Msg
    BY BlankType DEF Tasks
  <2>2. QueueOf(msg["rx"].type) \in Workers
    BY DEF QueueOf, Workers
  <2>3. taskQ' \in [Workers -> Seq(Msg)]
    BY <1>2, <2>1, <2>2 DEF RxSubmit
  <2>4. /\ stage' \in [Cmds -> Stages]
        /\ msg' \in [Tasks -> Msg]
        /\ pc' \in [Tasks -> Pcs]
        /\ pc'["prog"] = pc["prog"]
    BY <1>0, <1>2, <2>1 DEF RxSubmit, Tasks
  <2>5. UNCHANGED <<sq, reqQ, respQ, svcMsg, loadVars, cqVars, status, outcome, reply>>
    BY <1>2 DEF RxSubmit
  <2> QED
    BY <2>3, <2>4, <2>5
<1>3. CASE RxAbort
  <2>1. msg["rx"] \in Msg
    BY DEF Tasks
  <2>2. [cid |-> msg["rx"].cid, type |-> "none", rcode |-> "err"] \in Msg
    BY <2>1 DEF Msg, Rcodes
  <2> QED
    BY <1>0, <1>3, <2>2 DEF RxAbort, Tasks, Rcodes
<1>4. CASE RxNotify
  BY <1>0, <1>4 DEF RxNotify, Tasks
<1> QED
  BY <1>1, <1>2, <1>3, <1>4

(* cl_msg_handle_complete, in whichever task, keeps the types.             *)
LEMMA TypeComplete ==
  ASSUME TypeInv, NEW t \in Tasks, CompleteReserve(t) \/ CompletePublish(t)
  PROVE  TypeInv'
<1> USE DispatchAssumption DEF TypeInv, TypeOK, SectionPending, chanVars, cqVars, loadVars, taskVars, cmdVars
<1>0. "cq" \in Stages /\ {"notify", "stop", "recv", "publish"} \subseteq Pcs
  BY DEF Stages, Live, Pcs, WorkerPcs
<1>1. CASE CompleteReserve(t)
  <2>1. cqProd % NSlots \in 0..NSlots /\ Wild \in 0..NSlots
    BY DEF Wild
  <2>2. /\ \E i \in 0..NSlots : wslot' = [wslot EXCEPT ![t] = i]
        /\ cqProd' \in {cqProd, cqProd + 1}
    BY <1>1, <2>1, Zenon DEF CompleteReserve
  <2>3. pc' \in [Tasks -> Pcs] /\ SectionPending'
    BY <1>0, <1>1 DEF CompleteReserve, InSection
  <2>4. /\ lock' = t
        /\ UNCHANGED <<chanVars, msg, svcMsg, loadVars, cqReg, cqCons, cqSlot, status, cmdVars>>
    BY <1>1 DEF CompleteReserve
  <2>5. wslot' \in [Tasks -> 0..NSlots] /\ cqProd' \in Nat
    BY <2>2
  <2> QED
    BY <2>3, <2>4, <2>5
<1>2. CASE CompletePublish(t)
  <2>1. msg[t] \in Msg /\ Blank \in Msg
    BY BlankType
  <2>2. [cid |-> msg[t].cid, rcode |-> msg[t].rcode] \in Entry
    BY <2>1 DEF Msg, Entry
  <2>3. cqSlot' \in [0..NSlots-1 -> Entry]
    BY <1>2, <2>2 DEF CompletePublish
  <2>4. SectionPending'
    BY <1>2 DEF CompletePublish, InSection
  <2> QED
    BY <1>0, <1>2, <2>1, <2>3, <2>4 DEF CompletePublish
<1> QED
  BY <1>1, <1>2

(* A message with another return code is a message.                        *)
LEMMA RcodeType ==
  ASSUME NEW m \in Msg, NEW r \in Rcodes
  PROVE  [m EXCEPT !.rcode = r] \in Msg
BY DEF Msg

(* A handler that returns leaves a message to complete, outside of any PL  *)
(* section.                                                                *)
LEMMA FinishType ==
  ASSUME TypeInv, NEW t \in Tasks, NEW r \in Rcodes, Finish(t, msg[t], r)
  PROVE  /\ msg' \in [Tasks -> Msg]
         /\ outcome' \in [Cmds -> Rcodes \cup {"none"}]
         /\ pc' \in [Tasks -> Pcs]
         /\ pc'["prog"] \in InSection => pc["prog"] \in InSection
<1> USE DEF TypeInv, TypeOK
<1>1. [msg[t] EXCEPT !.rcode = r] \in Msg
  BY RcodeType
<1>2. msg' \in [Tasks -> Msg]
  BY <1>1 DEF Finish
<1>3. outcome' \in [Cmds -> Rcodes \cup {"none"}]
  BY DEF Finish
<1> QED
  BY <1>2, <1>3 DEF Finish, Pcs, WorkerPcs, InSection

(* The steps every worker task has keep the types.                         *)
LEMMA TypeWorker ==
  ASSUME TypeInv, NEW w \in Workers, WorkerRecv(w) \/ WorkerWork(w) \/ ResetStep(w)
  PROVE  TypeInv'
<1> USE DispatchAssumption DEF TypeInv, TypeOK, SectionPending, chanVars, cqVars, loadVars, taskVars, cmdVars
<1>0. w \in Tasks /\ Workers \subseteq Tasks
  BY DEF Workers, Tasks
<1>1. CASE WorkerRecv(w)
  <2> DEFINE m == Head(taskQ[w])
  <2>1. m \in Msg /\ Tail(taskQ[w]) \in Seq(Msg)
    BY <1>1, HeadTail DEF WorkerRecv
  <2>2. FirstStep(m.type) \in WorkerPcs \ InSection
    BY FirstStepType
  <2>3. pc' \in [Tasks -> Pcs] /\ SectionPending'
    <3>1. pc' = [pc EXCEPT ![w] = FirstStep(m.type)]
      BY <1>1 DEF WorkerRecv
    <3>2. \E p \in WorkerPcs \ InSection : pc' = [pc EXCEPT ![w] = p]
      BY <3>1, <2>2
    <3>3. pc' \in [Tasks -> Pcs]
      BY <3>2 DEF Pcs
    <3>4. CASE w = "prog"
      BY <3>2, <3>3, <3>4, <1>0
    <3>5. CASE w # "prog"
      <4>1. sects' = sects
        BY <1>1, <3>5 DEF WorkerRecv
      <4>2. pc'["prog"] = pc["prog"]
        BY <3>2, <3>5, <1>0 DEF Tasks
      <4> QED
        BY <3>3, <4>1, <4>2
    <3> QED
      BY <3>4, <3>5
  <2>4. msg' = [msg EXCEPT ![w] = m] /\ taskQ' = [taskQ EXCEPT ![w] = Tail(@)]
    BY <1>1 DEF WorkerRecv
  <2>5. msg' \in [Tasks -> Msg] /\ taskQ' \in [Workers -> Seq(Msg)]
    BY <2>1, <2>4
  <2>6. stage' \in [Cmds -> Stages] /\ outcome' \in [Cmds -> Rcodes \cup {"none"}]
    BY <1>1 DEF WorkerRecv, Stages, Live, Rcodes
  <2>7. sects' \in 0..2
    BY <1>1 DEF WorkerRecv
  <2>8. UNCHANGED <<sq, reqQ, respQ, svcMsg, loaded, cqVars, status, reply>>
    BY <1>1 DEF WorkerRecv
  <2> QED
    BY <2>3, <2>5, <2>6, <2>7, <2>8
<1>2. CASE WorkerWork(w)
  <2>1. PICK r \in Rcodes : Finish(w, msg[w], r)
    BY <1>2 DEF WorkerWork
  <2>2. UNCHANGED <<chanVars, svcMsg, loadVars, cqVars, status, stage, reply>>
    BY <1>2 DEF WorkerWork
  <2>3. /\ msg' \in [Tasks -> Msg]
        /\ outcome' \in [Cmds -> Rcodes \cup {"none"}]
        /\ pc' \in [Tasks -> Pcs]
        /\ pc'["prog"] \in InSection => pc["prog"] \in InSection
    BY <1>0, <2>1, FinishType
  <2> QED
    BY <2>2, <2>3
<1>3. CASE ResetStep(w)
  <2>1. \E p \in {"recv", "shutdown", "hang"} : pc' = [pc EXCEPT ![w] = p]
    BY <1>3 DEF ResetStep, ResetRefused, ServiceStop, Shutdown
  <2>2. pc' \in [Tasks -> Pcs] /\ (pc'["prog"] \in InSection => pc["prog"] \in InSection)
    BY <2>1, <1>0 DEF Pcs, WorkerPcs, InSection
  <2>3. status' \in {0, 1} /\ UNCHANGED <<chanVars, msg, svcMsg, loadVars, cqVars, cmdVars>>
    BY <1>3 DEF ResetStep, ResetRefused, ServiceStop, Shutdown
  <2> QED
    BY <2>2, <2>3
<1> QED
  BY <1>1, <1>2, <1>3

(* The steps of the program task alone keep the types.                     *)
LEMMA TypeProg ==
  ASSUME TypeInv, ProgStep
  PROVE  TypeInv'
<1> USE DispatchAssumption DEF TypeInv, TypeOK, SectionPending, chanVars, cqVars, loadVars, taskVars, cmdVars
<1>0. "prog" \in Tasks /\ msg["prog"] \in Msg
  BY DEF Tasks
<1>1. CASE XclbinRefused
  <2>1. Finish("prog", msg["prog"], "err") /\ "err" \in Rcodes
    BY <1>1 DEF XclbinRefused, Rcodes
  <2>2. UNCHANGED <<chanVars, svcMsg, loadVars, cqVars, status, stage, reply>>
    BY <1>1 DEF XclbinRefused
  <2>3. /\ msg' \in [Tasks -> Msg]
        /\ outcome' \in [Cmds -> Rcodes \cup {"none"}]
        /\ pc' \in [Tasks -> Pcs]
        /\ pc'["prog"] \in InSection => pc["prog"] \in InSection
    BY <1>0, <2>1, FinishType
  <2> QED
    BY <2>2, <2>3
<1>2. CASE ClockOffRequest \/ ClockOnRequest
  <2>1. "sensor" \in Services
    BY DEF Services
  <2>2. \A type \in ClockTypes : [cid |-> NoCmd, type |-> type, rcode |-> "ok"] \in Msg
    BY DEF Msg, Rcodes
  <2>3. \E type \in ClockTypes :
          reqQ' = [reqQ EXCEPT !["sensor"] = Append(@, [cid |-> NoCmd, type |-> type, rcode |-> "ok"])]
    BY <1>2 DEF ClockOffRequest, ClockOnRequest, ClockRequest, ClockTypes
  <2>4. reqQ' \in [Services -> Seq(Msg)]
    BY <2>1, <2>2, <2>3
  <2>5. pc' \in [Tasks -> Pcs] /\ sects > 0
    BY <1>0, <1>2 DEF ClockOffRequest, ClockOnRequest, ClockRequest, Pcs, WorkerPcs, InSection
  <2>6. UNCHANGED <<sq, taskQ, respQ, msg, svcMsg, loadVars, cqVars, status, cmdVars>>
    BY <1>2 DEF ClockOffRequest, ClockOnRequest, ClockRequest
  <2> QED
    BY <2>4, <2>5, <2>6
<1>3. CASE ClockOffAnswer \/ ClockOffDirect
  <2>1. PICK r : AfterClockOff(r)
    BY <1>3 DEF ClockOffAnswer, ClockOffDirect
  <2>2. sects > 0
    BY <1>3 DEF ClockOffAnswer, ClockOffDirect, InSection
  <2>3. /\ msg' \in [Tasks -> Msg]
        /\ outcome' \in [Cmds -> Rcodes \cup {"none"}]
        /\ pc' \in [Tasks -> Pcs]
    BY <1>0, <2>1, FinishType DEF AfterClockOff, Pcs, WorkerPcs, Rcodes
  <2>4. respQ' \in [Services -> Seq(Msg)]
    <3>1. CASE ClockOffAnswer
      <4>1. respQ["sensor"] \in Seq(Msg) /\ respQ["sensor"] # <<>>
        BY <3>1 DEF ClockOffAnswer, Services
      <4>2. Tail(respQ["sensor"]) \in Seq(Msg)
        BY <4>1, HeadTail
      <4> QED
        BY <3>1, <4>2 DEF ClockOffAnswer
    <3>2. CASE ClockOffDirect
      BY <3>2 DEF ClockOffDirect
    <3> QED
      BY <1>3, <3>1, <3>2
  <2>5. UNCHANGED <<sq, taskQ, reqQ, svcMsg, loadVars, cqVars, status, stage, reply>>
    BY <1>3 DEF ClockOffAnswer, ClockOffDirect
  <2> QED
    BY <2>2, <2>3, <2>4, <2>5
<1>4. CASE ClockOnAnswer \/ ClockOnDirect
  <2>1. AfterClockOn /\ sects > 0
    BY <1>4 DEF ClockOnAnswer, ClockOnDirect, InSection
  <2>2. /\ msg' \in [Tasks -> Msg]
        /\ outcome' \in [Cmds -> Rcodes \cup {"none"}]
        /\ pc' \in [Tasks -> Pcs]
    BY <1>0, <2>1, FinishType DEF AfterClockOn, Pcs, WorkerPcs, Rcodes
  <2>3. sects' \in 0..2 /\ pc'["prog"] \notin InSection
    BY <1>0, <2>1 DEF AfterClockOn, Finish, InSection
  <2>4. respQ' \in [Services -> Seq(Msg)]
    <3>1. CASE ClockOnAnswer
      <4>1. respQ["sensor"] \in Seq(Msg) /\ respQ["sensor"] # <<>>
        BY <3>1 DEF ClockOnAnswer, Services
      <4>2. Tail(respQ["sensor"]) \in Seq(Msg)
        BY <4>1, HeadTail
      <4> QED
        BY <3>1, <4>2 DEF ClockOnAnswer
    <3>2. CASE ClockOnDirect
      BY <3>2 DEF ClockOnDirect
    <3> QED
      BY <1>4, <3>1, <3>2
  <2>5. UNCHANGED <<sq, taskQ, reqQ, svcMsg, loaded, cqVars, status, stage, reply>>
    BY <1>4 DEF ClockOnAnswer, ClockOnDirect
  <2> QED
    BY <2>2, <2>3, <2>4, <2>5
<1>5. CASE ProgLoad
  BY <1>0, <1>5 DEF ProgLoad, Rcodes, Pcs, WorkerPcs, InSection
<1>6. CASE ScfwRequest
  <2>1. "sc" \in Services /\ Blank \in Msg
    BY BlankType DEF Services
  <2>2. reqQ' \in [Services -> Seq(Msg)]
    BY <1>0, <1>6, <2>1 DEF ScfwRequest
  <2>3. /\ stage' \in [Cmds -> Stages]
        /\ msg' \in [Tasks -> Msg]
        /\ pc' \in [Tasks -> Pcs]
        /\ pc'["prog"] \notin InSection
    BY <1>0, <1>6, <2>1 DEF ScfwRequest, Stages, Live, Pcs, WorkerPcs, InSection
  <2>4. UNCHANGED <<sq, taskQ, respQ, svcMsg, loadVars, cqVars, status, outcome, reply>>
    BY <1>6 DEF ScfwRequest
  <2> QED
    BY <2>2, <2>3, <2>4
<1>7. CASE ScfwAnswer
  <2>1. respQ["sc"] \in Seq(Msg) /\ respQ["sc"] # <<>>
    BY <1>7 DEF ScfwAnswer, Services
  <2>2. Head(respQ["sc"]) \in Msg /\ Tail(respQ["sc"]) \in Seq(Msg)
    BY <2>1, HeadTail
  <2>3. respQ' \in [Services -> Seq(Msg)]
    BY <1>7, <2>2 DEF ScfwAnswer
  <2>4. /\ stage' \in [Cmds -> Stages]
        /\ msg' \in [Tasks -> Msg]
        /\ pc' \in [Tasks -> Pcs]
        /\ pc'["prog"] \notin InSection
    BY <1>0, <1>7, <2>2 DEF ScfwAnswer, Stages, Live, Pcs, WorkerPcs, InSection
  <2>5. UNCHANGED <<sq, taskQ, reqQ, svcMsg, loadVars, cqVars, status, outcome, reply>>
    BY <1>7 DEF ScfwAnswer
  <2> QED
    BY <2>3, <2>4, <2>5
<1> QED
  BY <1>1, <1>2, <1>3, <1>4, <1>5, <1>6, <1>7 DEF ProgStep, ClockStep

(* The steps of the two VMC tasks keep the types.                          *)
LEMMA TypeService ==
  ASSUME TypeInv, NEW sv \in Services, ServiceStep(sv)
  PROVE  TypeInv'
<1> USE DispatchAssumption DEF TypeInv, TypeOK, SectionPending, chanVars, cqVars, loadVars, taskVars, cmdVars
<1>1. CASE ServiceTake(sv)
  <2>1. Head(reqQ[sv]) \in Msg /\ Tail(reqQ[sv]) \in Seq(Msg)
    BY <1>1, HeadTail DEF ServiceTake
  <2>2. /\ svcMsg' \in [Services -> Msg]
        /\ reqQ' \in [Services -> Seq(Msg)]
    BY <1>1, <2>1 DEF ServiceTake
  <2>3. stage' \in [Cmds -> Stages]
    BY <1>1 DEF ServiceTake, Move, Stages, Live
  <2>4. UNCHANGED <<sq, taskQ, respQ, pc, msg, loadVars, cqVars, status, outcome, reply>>
    BY <1>1 DEF ServiceTake
  <2> QED
    BY <2>2, <2>3, <2>4
<1>2. CASE ServiceAnswer(sv)
  <2>1. PICK r \in Rcodes :
          /\ respQ' = [respQ EXCEPT ![sv] = Append(@, [svcMsg[sv] EXCEPT !.rcode = r])]
          /\ outcome' = [c \in Cmds |-> IF c = svcMsg[sv].cid THEN r ELSE outcome[c]]
    BY <1>2 DEF ServiceAnswer, ServiceRcodes, Rcodes
  <2>2. [svcMsg[sv] EXCEPT !.rcode = r] \in Msg
    BY RcodeType
  <2>3. /\ respQ' \in [Services -> Seq(Msg)]
        /\ outcome' \in [Cmds -> Rcodes \cup {"none"}]
    BY <2>1, <2>2
  <2>4. svcMsg' \in [Services -> Msg] /\ stage' \in [Cmds -> Stages]
    BY <1>2, BlankType DEF ServiceAnswer, Move, Stages, Live
  <2>5. UNCHANGED <<sq, taskQ, reqQ, pc, msg, loadVars, cqVars, status, reply>>
    BY <1>2 DEF ServiceAnswer
  <2> QED
    BY <2>3, <2>4, <2>5
<1> QED
  BY <1>1, <1>2 DEF ServiceStep

(* After a reset the firmware starts from typed memory.                    *)
LEMMA TypeReboot == TypeInv /\ Reboot => TypeInv'
<1> SUFFICES ASSUME TypeInv, Reboot PROVE TypeInv'
  OBVIOUS
<1> USE DispatchAssumption DEF Reboot, FirmwareReset
<1>1. /\ msg' \in [Tasks -> Msg]
      /\ svcMsg' \in [Services -> Msg]
  BY BlankType
<1>2. cqSlot' \in [0..NSlots-1 -> Entry] /\ wslot' \in [Tasks -> 0..NSlots]
  BY DEF Entry, Rcodes
<1>3. pc' \in [Tasks -> Pcs] /\ pc'["prog"] = "recv"
  BY DEF Pcs, WorkerPcs, Tasks
<1>4. stage' \in [Cmds -> Stages]
  BY DEF TypeInv, TypeOK, Stages
<1>5. /\ sq' \in Seq(Msg)
      /\ taskQ' \in [Workers -> Seq(Msg)]
      /\ reqQ' \in [Services -> Seq(Msg)]
      /\ respQ' \in [Services -> Seq(Msg)]
  OBVIOUS
<1>6. /\ sects' \in 0..2 /\ loaded' \in Rcodes /\ lock' \in Tasks \cup {NoTask}
      /\ cqProd' \in Nat /\ cqReg' \in Nat /\ cqCons' \in Nat /\ status' \in {0, 1}
  BY DEF Rcodes
<1>7. UNCHANGED <<outcome, reply>>
  OBVIOUS
<1> QED
  BY <1>1, <1>2, <1>3, <1>4, <1>5, <1>6, <1>7 DEF TypeInv, TypeOK, SectionPending, InSection

(* Every step keeps the types.                                             *)
LEMMA TypeStep == TypeInv /\ [Next]_vars => TypeInv'
<1> SUFFICES ASSUME TypeInv, [Next]_vars PROVE TypeInv'
  OBVIOUS
<1>1. ASSUME NEW c \in Cmds, NEW type \in HostTypes, HostSubmit(c, type) PROVE TypeInv'
  BY <1>1, TypeHost
<1>2. CASE HostReceive
  BY <1>2, TypeReceive
<1>3. CASE RxStep
  BY <1>3, TypeRx, TypeComplete DEF RxStep, Tasks
<1>4. ASSUME NEW w \in Workers, WorkerStep(w) PROVE TypeInv'
  BY <1>4, TypeWorker, TypeComplete DEF WorkerStep, Workers, Tasks
<1>5. CASE ProgStep
  BY <1>5, TypeProg
<1>6. ASSUME NEW sv \in Services, ServiceStep(sv) PROVE TypeInv'
  BY <1>6, TypeService
<1>7. CASE Reboot
  BY <1>7, TypeReboot
<1>8. CASE Quiet \/ UNCHANGED vars
  BY <1>8 DEF Quiet, vars, TypeInv, TypeOK, SectionPending
<1> QED
  BY <1>1, <1>2, <1>3, <1>4, <1>5, <1>6, <1>7, <1>8 DEF Next

(* Every variable keeps its type: in particular no task leaves its loop    *)
(* and the PL sections of an xclbin never run below zero.                  *)
THEOREM TypeCorrect == Spec => []TypeOK
<1>1. TypeInv => TypeOK
  BY DEF TypeInv
<1> QED
  BY TypeInit, TypeStep, <1>1, PTL DEF Spec

-----------------------------------------------------------------------------
(* The CQ.  The lock is held by exactly the task that has reserved a slot  *)
(* and not yet published it; without the lock nothing is reserved.         *)
LockInv ==
  /\ \A t \in Tasks : pc[t] = "publish" => lock = t
  /\ lock # NoTask => pc[lock] = "publish"
  /\ lock = NoTask => cqReg = cqProd

CqInv == TypeInv /\ LockInv /\ CqNeverOverrun

(* A handler that returns does not hold the lock, before or after.         *)
LEMMA FinishCq ==
  ASSUME TypeInv, NEW t \in Tasks, NEW r, pc[t] # "publish", Finish(t, msg[t], r)
  PROVE  \A u \in Tasks : pc'[u] = "publish" <=> pc[u] = "publish"
BY DEF Finish, TypeInv, TypeOK

(* Only a completion, the host and a reset touch the CQ.                   *)
LEMMA CqUntouched ==
  ASSUME TypeInv,
         \/ \E c \in Cmds, type \in HostTypes : HostSubmit(c, type)
         \/ RxConsume \/ RxSubmit \/ RxAbort \/ RxNotify
         \/ \E w \in Workers : WorkerRecv(w) \/ WorkerWork(w) \/ ResetStep(w)
         \/ ProgStep
         \/ \E sv \in Services : ServiceStep(sv)
         \/ Quiet
  PROVE  /\ UNCHANGED <<lock, cqProd, cqReg, cqCons>>
         /\ \A t \in Tasks : pc'[t] = "publish" <=> pc[t] = "publish"
<1> USE DEF cqVars
<1>0. pc \in [Tasks -> Pcs] /\ "prog" \in Tasks /\ "rx" \in Tasks /\ Workers \subseteq Tasks
  BY DEF TypeInv, TypeOK, Tasks, Workers
<1>1. ASSUME NEW c \in Cmds, NEW type \in HostTypes, HostSubmit(c, type)
      PROVE  /\ UNCHANGED <<lock, cqProd, cqReg, cqCons>>
             /\ \A t \in Tasks : pc'[t] = "publish" <=> pc[t] = "publish"
  BY <1>1 DEF HostSubmit, taskVars
<1>2. CASE RxConsume \/ RxSubmit \/ RxAbort \/ RxNotify
  <2>1. /\ pc["rx"] # "publish"
        /\ \E p \in {"wait", "submit", "complete", "notify"} : pc' = [pc EXCEPT !["rx"] = p]
    BY <1>2 DEF RxConsume, RxSubmit, RxAbort, RxNotify
  <2> QED
    BY <1>0, <1>2, <2>1 DEF RxConsume, RxSubmit, RxAbort, RxNotify
<1>3. ASSUME NEW w \in Workers, WorkerRecv(w) \/ WorkerWork(w) \/ ResetStep(w)
      PROVE  /\ UNCHANGED <<lock, cqProd, cqReg, cqCons>>
             /\ \A t \in Tasks : pc'[t] = "publish" <=> pc[t] = "publish"
  <2>1. CASE WorkerRecv(w)
    <3>1. pc[w] = "recv" /\ \E p \in Pcs \ {"publish"} : pc' = [pc EXCEPT ![w] = p]
      BY <2>1 DEF WorkerRecv, FirstStep, Pcs, WorkerPcs
    <3> QED
      BY <1>0, <2>1, <3>1 DEF WorkerRecv
  <2>2. CASE WorkerWork(w)
    BY <1>0, <2>2, FinishCq DEF WorkerWork
  <2>3. CASE ResetStep(w)
    BY <1>0, <2>3 DEF ResetStep, ResetRefused, ServiceStop, Shutdown
  <2> QED
    BY <1>3, <2>1, <2>2, <2>3
<1>4. CASE ProgStep
  <2>1. pc["prog"] # "publish"
    BY <1>4 DEF ProgStep, XclbinRefused, ClockStep, ClockOffRequest, ClockOnRequest, ClockRequest,
                ClockOffAnswer, ClockOnAnswer, ClockOffDirect, ClockOnDirect, ProgLoad, ScfwRequest, ScfwAnswer
  <2>2. UNCHANGED <<lock, cqProd, cqReg, cqCons>>
    BY <1>4 DEF ProgStep, XclbinRefused, ClockStep, ClockOffRequest, ClockOnRequest, ClockRequest,
                ClockOffAnswer, ClockOnAnswer, ClockOffDirect, ClockOnDirect, ProgLoad, ScfwRequest, ScfwAnswer
  <2>3. \E p \in Pcs \ {"publish"} : pc' = [pc EXCEPT !["prog"] = p]
    BY <1>4 DEF ProgStep, XclbinRefused, ClockStep, ClockOffRequest, ClockOnRequest, ClockRequest,
                ClockOffAnswer, ClockOnAnswer, ClockOffDirect, ClockOnDirect, ProgLoad, ScfwRequest, ScfwAnswer,
                AfterClockOff, AfterClockOn, Finish, Pcs, WorkerPcs
  <2> QED
    BY <1>0, <2>1, <2>2, <2>3
<1>5. ASSUME NEW sv \in Services, ServiceStep(sv)
      PROVE  /\ UNCHANGED <<lock, cqProd, cqReg, cqCons>>
             /\ \A t \in Tasks : pc'[t] = "publish" <=> pc[t] = "publish"
  BY <1>5 DEF ServiceStep, ServiceTake, ServiceAnswer
<1>6. CASE Quiet
  BY <1>6 DEF Quiet, vars
<1> QED
  BY <1>1, <1>2, <1>3, <1>4, <1>5, <1>6

(* Every step keeps the lock and the pointers of the CQ in order.          *)
LEMMA CqStep == CqInv /\ TypeInv' /\ [Next]_vars => LockInv' /\ CqNeverOverrun'
<1> SUFFICES ASSUME CqInv, TypeInv', [Next]_vars PROVE LockInv' /\ CqNeverOverrun'
  OBVIOUS
<1>0. /\ cqProd \in Nat /\ cqReg \in Nat /\ cqCons \in Nat /\ NSlots \in Nat
      /\ lock \in Tasks \cup {NoTask} /\ NoTask \notin Tasks /\ pc \in [Tasks -> Pcs]
  BY DispatchAssumption DEF CqInv, TypeInv, TypeOK, NoTask, Tasks
<1>1. ASSUME /\ UNCHANGED <<lock, cqProd, cqReg, cqCons>>
             /\ \A t \in Tasks : pc'[t] = "publish" <=> pc[t] = "publish"
      PROVE  LockInv' /\ CqNeverOverrun'
  BY <1>0, <1>1 DEF CqInv, LockInv, CqNeverOverrun
<1>2. ASSUME NEW t \in Tasks, CompleteReserve(t)
      PROVE  LockInv' /\ CqNeverOverrun'
  <2>1. pc' = [pc EXCEPT ![t] = "publish"] /\ lock = NoTask /\ lock' = t
    BY <1>2 DEF CompleteReserve
  <2>2. LockInv'
    BY <1>0, <2>1 DEF CqInv, LockInv
  <2>3. /\ cqReg = cqProd /\ UNCHANGED <<cqReg, cqCons>>
        /\ \/ cqProd' = cqProd
           \/ cqProd - cqCons < NSlots /\ cqProd' = cqProd + 1
    BY <1>2, <2>1 DEF CompleteReserve, CqInv, LockInv
  <2>4. CqNeverOverrun'
    BY <1>0, <2>3 DEF CqInv, CqNeverOverrun
  <2> QED
    BY <2>2, <2>4
<1>3. ASSUME NEW t \in Tasks, CompletePublish(t)
      PROVE  LockInv' /\ CqNeverOverrun'
  <2>1. /\ lock = t /\ lock' = NoTask
        /\ \E p \in {"notify", "stop", "recv"} : pc' = [pc EXCEPT ![t] = p]
        /\ cqReg' = cqProd /\ UNCHANGED <<cqProd, cqCons>>
    BY <1>3 DEF CompletePublish, CqInv, LockInv
  <2> QED
    BY <1>0, <2>1 DEF CqInv, LockInv, CqNeverOverrun
<1>4. CASE HostReceive
  BY <1>0, <1>4 DEF HostReceive, taskVars, CqInv, LockInv, CqNeverOverrun
<1>5. CASE Reboot
  BY <1>0, <1>5 DEF Reboot, FirmwareReset, LockInv, CqNeverOverrun, Tasks
<1>6. CASE UNCHANGED vars
  BY <1>1, <1>6 DEF vars
<1>7. CASE RxStep
  BY <1>1, <1>2, <1>3, <1>7, CqUntouched DEF RxStep, CqInv, Tasks
<1>8. ASSUME NEW w \in Workers, WorkerStep(w) PROVE LockInv' /\ CqNeverOverrun'
  <2>1. w \in Tasks
    BY DEF Workers, Tasks
  <2> QED
    BY <1>1, <1>2, <1>3, <1>8, <2>1, CqUntouched DEF WorkerStep, CqInv
<1>9. CASE ProgStep \/ Quiet
  BY <1>1, <1>9, CqUntouched DEF CqInv
<1>10. ASSUME NEW sv \in Services, ServiceStep(sv) PROVE LockInv' /\ CqNeverOverrun'
  BY <1>1, <1>10, CqUntouched DEF CqInv
<1>11. ASSUME NEW c \in Cmds, NEW type \in HostTypes, HostSubmit(c, type)
       PROVE  LockInv' /\ CqNeverOverrun'
  BY <1>1, <1>11, CqUntouched DEF CqInv
<1> QED
  BY <1>4, <1>5, <1>6, <1>7, <1>8, <1>9, <1>10, <1>11 DEF Next

(* Whatever the host keeps in flight, a task never reserves a CQ slot the  *)
(* host has not read, and never more than one slot waits for its entry.    *)
THEOREM CqSafe == Spec => []CqNeverOverrun
<1>1. Init => LockInv /\ CqNeverOverrun
  BY DispatchAssumption DEF Init, LockInv, CqNeverOverrun, Tasks, NoTask
<1>2. CqInv /\ [Next]_vars => CqInv'
  BY TypeStep, CqStep DEF CqInv
<1> QED
  BY TypeInit, <1>1, <1>2, PTL DEF Spec, CqInv

-----------------------------------------------------------------------------
(* What the host can rely on: a command it waits for is in one place of    *)
(* the firmware, is completed once, and is told what its own handler       *)
(* returned.                                                               *)

(* The messages that stand for a command, as the host writes them, as the  *)
(* receive task lets them through, and as they are at any time; and the    *)
(* requests the program task makes of the sensor task on its own account.  *)
Submitted == [cid : Cmds, type : HostTypes, rcode : {"ok"}]
Accepted  == [cid : Cmds, type : HostTypes \ {"bad"}, rcode : {"ok"}]
Command   == [cid : Cmds, type : HostTypes \cup ClockTypes \cup {"none"}, rcode : Rcodes]
Clock     == [cid : {NoCmd}, type : ClockTypes, rcode : Rcodes]

(* Where the receive task and a worker have no command.                    *)
RxIdle     == {"wait", "notify"}
RxBusy     == {"submit", "complete", "publish"}
WorkerIdle == {"recv", "scfwWait", "stop", "shutdown", "hang"}

(* What kind of message each queue and each task holds.                    *)
Kinds ==
  /\ sq \in Seq(Submitted)
  /\ taskQ \in [Workers -> Seq(Accepted)]
  /\ reqQ["sc"] \in Seq(Command) /\ respQ["sc"] \in Seq(Command)
  /\ svcMsg["sc"] \in Command \cup {Blank}
  /\ reqQ["sensor"] \in Seq(Clock) /\ respQ["sensor"] \in Seq(Clock)
  /\ svcMsg["sensor"] \in Clock \cup {Blank}
  /\ pc["rx"] \in RxIdle \cup RxBusy
  /\ pc["rx"] \in RxIdle => msg["rx"] = Blank
  /\ pc["rx"] = "submit" => msg["rx"] \in Submitted
  /\ pc["rx"] \in RxBusy => msg["rx"] \in Command
  /\ \A w \in Workers :
       /\ pc[w] \in WorkerPcs
       /\ msg[w] \in (IF pc[w] \in WorkerIdle THEN {Blank} ELSE Command)

KindInv == TypeInv /\ Kinds

(* The commands at a stage, and the one a message stands for.              *)
At(p)   == {c \in Cmds : stage[c] = p}
CidOf(m) == {m.cid} \ {NoCmd}

(* No two messages of a queue are of one command.                          *)
Single(q) == \A i, j \in DOMAIN q : q[i].cid = q[j].cid => i = j

(* What the host finds in the CQ at a pointer value.                       *)
Told(i) == cqSlot[i % NSlots]

(* Every place of the firmware holds the commands whose stage names it,    *)
(* each once.                                                              *)
PlacedSq     == Cids(sq) = At("sq") /\ Single(sq)
PlacedRx     == CidOf(msg["rx"]) = At("rx")
PlacedQueued ==
  /\ Cids(taskQ["prog"]) \cup Cids(taskQ["op"]) = At("queued")
  /\ Cids(taskQ["prog"]) \cap Cids(taskQ["op"]) = {}
  /\ Single(taskQ["prog"]) /\ Single(taskQ["op"])
PlacedHeld ==
  /\ CidOf(msg["prog"]) \cup CidOf(msg["op"]) = At("held")
  /\ CidOf(msg["prog"]) \cap CidOf(msg["op"]) = {}
PlacedReq  == Cids(reqQ["sc"]) = At("req") /\ Single(reqQ["sc"])
PlacedSvc  == CidOf(svcMsg["sc"]) = At("svc")
PlacedResp == Cids(respQ["sc"]) = At("resp") /\ Single(respQ["sc"])
PlacedCq ==
  /\ {Told(i).cid : i \in Unread} = At("cq")
  /\ \A i, j \in Unread : Told(i).cid = Told(j).cid => i = j

(* A task that publishes has reserved the slot behind the published ones;  *)
(* the host keeps to its window; an answered command has left the          *)
(* firmware.                                                               *)
Reserved ==
  \A t \in Tasks : pc[t] = "publish" => cqProd = cqReg + 1 /\ wslot[t] = cqReg % NSlots
InWindow == Cardinality(Outstanding) <= Window
Replied  == \A c \in Cmds : reply[c] # "none" => stage[c] = "answered"

InPlace ==
  /\ PlacedSq /\ PlacedRx /\ PlacedQueued /\ PlacedHeld
  /\ PlacedReq /\ PlacedSvc /\ PlacedResp /\ PlacedCq
  /\ InWindow /\ Replied
PlaceInv == KindInv /\ LockInv /\ CqNeverOverrun /\ Reserved /\ InPlace

(* The return code a message carries once its handler is done is the one   *)
(* the handler returned.                                                   *)
TrueMsgs  == \A t \in Tasks : pc[t] \in {"complete", "publish"} => msg[t].rcode = outcome[msg[t].cid]
TrueResps == \A i \in DOMAIN respQ["sc"] : respQ["sc"][i].rcode = outcome[respQ["sc"][i].cid]
TrueTold  == \A i \in Unread : Told(i).rcode = outcome[Told(i).cid]
Truthful  == TrueMsgs /\ TrueResps /\ TrueTold /\ ReplyIsOutcome
OutcomeInv == PlaceInv /\ Truthful

-----------------------------------------------------------------------------
(* The kinds of messages: a command's message is never the blank one.      *)
LEMMA KindsOfMessages ==
  /\ Accepted \subseteq Submitted /\ Submitted \subseteq Command
  /\ Command \subseteq Msg /\ Clock \subseteq Msg
  /\ Blank \notin Command /\ Blank \notin Clock /\ Blank.cid = NoCmd
  /\ "ok" \in Rcodes /\ "err" \in Rcodes
BY DispatchAssumption DEF Accepted, Submitted, Command, Clock, Msg, Blank, Rcodes, HostTypes, ClockTypes

(* The initial state, and that after a reset, hold no message at all.      *)
LEMMA KindInit == Init => Kinds
BY DEF Init, Kinds, Workers, Services, Tasks, WorkerPcs, WorkerIdle, RxIdle, RxBusy

(* A reset empties every queue and every task.                             *)
LEMMA KindReboot == Reboot => Kinds'
BY DEF Reboot, FirmwareReset, Kinds, Workers, Services, Tasks, WorkerPcs, WorkerIdle, RxIdle, RxBusy

(* The host puts a command on the SQ and takes completions off the CQ.     *)
LEMMA KindHost ==
  ASSUME KindInv,
         \/ \E c \in Cmds, type \in HostTypes : HostSubmit(c, type)
         \/ HostReceive
  PROVE  Kinds'
<1> USE DEF KindInv, Kinds
<1>1. ASSUME NEW c \in Cmds, NEW type \in HostTypes, HostSubmit(c, type)
      PROVE  Kinds'
  <2>1. [cid |-> c, type |-> type, rcode |-> "ok"] \in Submitted
    BY DEF Submitted
  <2>2. sq' \in Seq(Submitted)
    BY <1>1, <2>1 DEF HostSubmit
  <2> QED
    BY <1>1, <2>2 DEF HostSubmit, taskVars
<1>2. CASE HostReceive
  BY <1>2 DEF HostReceive, taskVars, chanVars
<1> QED
  BY <1>1, <1>2

(* The receive task checks the type of what it passes on, and keeps no     *)
(* message while it waits.                                                 *)
LEMMA KindRx ==
  ASSUME KindInv, RxConsume \/ RxSubmit \/ RxAbort \/ RxNotify
  PROVE  Kinds'
<1> USE DEF KindInv, Kinds, chanVars
<1>0. /\ msg \in [Tasks -> Msg] /\ pc \in [Tasks -> Pcs] /\ "rx" \in Tasks
      /\ \A w \in Workers : w \in Tasks /\ w # "rx"
  BY DEF TypeInv, TypeOK, Tasks, Workers
<1>1. CASE RxConsume
  <2>1. Head(sq) \in Submitted /\ Tail(sq) \in Seq(Submitted)
    BY <1>1, HeadTail DEF RxConsume
  <2> QED
    BY <1>0, <1>1, <2>1, KindsOfMessages DEF RxConsume, RxIdle, RxBusy
<1>2. CASE RxSubmit
  <2>1. msg["rx"] \in Accepted
    BY <1>2 DEF RxSubmit, Submitted, Accepted
  <2>2. QueueOf(msg["rx"].type) \in Workers
    BY DEF QueueOf, Workers
  <2>3. taskQ' \in [Workers -> Seq(Accepted)]
    BY <1>2, <2>1, <2>2 DEF RxSubmit
  <2> QED
    BY <1>0, <1>2, <2>3 DEF RxSubmit, RxIdle, RxBusy
<1>3. CASE RxAbort
  <2>1. [cid |-> msg["rx"].cid, type |-> "none", rcode |-> "err"] \in Command
    BY <1>3 DEF RxAbort, Submitted, Command, Rcodes
  <2> QED
    BY <1>0, <1>3, <2>1 DEF RxAbort, RxIdle, RxBusy
<1>4. CASE RxNotify
  BY <1>0, <1>4 DEF RxNotify, RxIdle, RxBusy
<1> QED
  BY <1>1, <1>2, <1>3, <1>4

(* Only a task that has a command completes one, and then has none.        *)
LEMMA KindComplete ==
  ASSUME KindInv, NEW t \in Tasks, CompleteReserve(t) \/ CompletePublish(t)
  PROVE  Kinds'
<1> USE DEF KindInv, Kinds, chanVars
<1>0. /\ msg \in [Tasks -> Msg] /\ pc \in [Tasks -> Pcs] /\ "rx" \in Tasks
      /\ t = "rx" \/ t \in Workers
      /\ \A w \in Workers : w \in Tasks /\ w # "rx"
  BY DEF TypeInv, TypeOK, Tasks, Workers
<1>1. CASE CompleteReserve(t)
  <2>1. /\ pc' = [pc EXCEPT ![t] = "publish"] /\ pc[t] = "complete"
        /\ UNCHANGED <<sq, taskQ, reqQ, respQ, msg, svcMsg>>
    BY <1>1 DEF CompleteReserve
  <2> QED
    BY <1>0, <2>1 DEF RxIdle, RxBusy, WorkerIdle, WorkerPcs
<1>2. CASE CompletePublish(t)
  <2>1. /\ msg' = [msg EXCEPT ![t] = Blank]
        /\ UNCHANGED <<sq, taskQ, reqQ, respQ, svcMsg>>
    BY <1>2 DEF CompletePublish
  <2>2. /\ t = "rx" => pc' = [pc EXCEPT ![t] = "notify"]
        /\ t # "rx" => \E p \in {"stop", "recv"} : pc' = [pc EXCEPT ![t] = p]
    BY <1>2 DEF CompletePublish
  <2> QED
    BY <1>0, <2>1, <2>2 DEF RxIdle, RxBusy, WorkerIdle, WorkerPcs
<1> QED
  BY <1>1, <1>2

(* The first step of a command is one that has a message.                  *)
LEMMA FirstStepBusy ==
  ASSUME NEW type
  PROVE  FirstStep(type) \in WorkerPcs \ WorkerIdle
BY DEF FirstStep, WorkerPcs, WorkerIdle

(* The handlers leave a worker with its command, ready to be completed.    *)
LEMMA KindFinish ==
  ASSUME KindInv, NEW w \in Workers, pc[w] \notin WorkerIdle,
         NEW r \in Rcodes, Finish(w, msg[w], r),
         UNCHANGED <<chanVars, svcMsg>>
  PROVE  Kinds'
<1> USE DEF KindInv, Kinds, chanVars
<1>0. /\ msg \in [Tasks -> Msg] /\ pc \in [Tasks -> Pcs] /\ "rx" \in Tasks
      /\ \A u \in Workers : u \in Tasks /\ u # "rx"
  BY DEF TypeInv, TypeOK, Tasks, Workers
<1>1. [msg[w] EXCEPT !.rcode = r] \in Command
  BY DEF Command
<1> QED
  BY <1>0, <1>1 DEF Finish, WorkerIdle, WorkerPcs

(* A worker takes a command only when it has none.                         *)
LEMMA KindWorker ==
  ASSUME KindInv, NEW w \in Workers, WorkerRecv(w) \/ WorkerWork(w) \/ ResetStep(w)
  PROVE  Kinds'
<1> USE DEF KindInv, Kinds, chanVars
<1>0. /\ msg \in [Tasks -> Msg] /\ pc \in [Tasks -> Pcs] /\ "rx" \in Tasks
      /\ \A u \in Workers : u \in Tasks /\ u # "rx"
  BY DEF TypeInv, TypeOK, Tasks, Workers
<1>1. CASE WorkerRecv(w)
  <2> DEFINE m == Head(taskQ[w])
  <2>1. m \in Accepted /\ Tail(taskQ[w]) \in Seq(Accepted)
    BY <1>1, HeadTail DEF WorkerRecv
  <2>2. FirstStep(m.type) \in WorkerPcs \ WorkerIdle /\ m \in Command
    BY <2>1, FirstStepBusy, KindsOfMessages
  <2>3. /\ msg' = [msg EXCEPT ![w] = m]
        /\ pc' = [pc EXCEPT ![w] = FirstStep(m.type)]
        /\ taskQ' = [taskQ EXCEPT ![w] = Tail(@)]
        /\ UNCHANGED <<sq, reqQ, respQ, svcMsg>>
    BY <1>1 DEF WorkerRecv
  <2>4. taskQ' \in [Workers -> Seq(Accepted)]
    BY <2>1, <2>3
  <2>5. ASSUME NEW u \in Workers
        PROVE  /\ pc'[u] \in WorkerPcs
               /\ msg'[u] \in (IF pc'[u] \in WorkerIdle THEN {Blank} ELSE Command)
    BY <1>0, <2>2, <2>3
  <2> QED
    BY <1>0, <2>3, <2>4, <2>5
<1>2. CASE WorkerWork(w)
  BY <1>2, KindFinish DEF WorkerWork, WorkerIdle
<1>3. CASE ResetStep(w)
  <2>1. /\ \E p \in {"recv", "shutdown", "hang"} : pc' = [pc EXCEPT ![w] = p]
        /\ pc[w] \in WorkerIdle
        /\ UNCHANGED <<sq, taskQ, reqQ, respQ, msg, svcMsg>>
    BY <1>3 DEF ResetStep, ResetRefused, ServiceStop, Shutdown, WorkerIdle
  <2> QED
    BY <1>0, <2>1 DEF WorkerIdle, WorkerPcs
<1> QED
  BY <1>1, <1>2, <1>3

(* The program task asks a VMC task and gets a message of the kind it sent *)
(* back.                                                                   *)
LEMMA KindProg ==
  ASSUME KindInv, ProgStep
  PROVE  Kinds'
<1> USE DEF KindInv, Kinds, chanVars
<1>0. /\ msg \in [Tasks -> Msg] /\ pc \in [Tasks -> Pcs] /\ "rx" \in Tasks
      /\ \A u \in Workers : u \in Tasks /\ u # "rx"
      /\ "prog" \in Workers
      /\ reqQ \in [Services -> Seq(Msg)] /\ respQ \in [Services -> Seq(Msg)]
      /\ "sc" \in Services /\ "sensor" \in Services
  BY DEF TypeInv, TypeOK, Tasks, Workers, Services
<1>1. CASE XclbinRefused
  BY <1>0, <1>1, KindFinish, KindsOfMessages DEF XclbinRefused, WorkerIdle
<1>2. CASE ClockOffRequest \/ ClockOnRequest
  <2>1. PICK type \in ClockTypes :
          reqQ' = [reqQ EXCEPT !["sensor"] = Append(@, [cid |-> NoCmd, type |-> type, rcode |-> "ok"])]
    BY <1>2 DEF ClockOffRequest, ClockOnRequest, ClockRequest, ClockTypes
  <2>2. [cid |-> NoCmd, type |-> type, rcode |-> "ok"] \in Clock
    BY DEF Clock, Rcodes
  <2>3. reqQ'["sensor"] \in Seq(Clock) /\ reqQ'["sc"] = reqQ["sc"]
    BY <1>0, <2>1, <2>2
  <2>4. /\ pc["prog"] \notin WorkerIdle
        /\ \E p \in {"clkOffWait", "clkOnWait"} : pc' = [pc EXCEPT !["prog"] = p]
        /\ UNCHANGED <<sq, taskQ, respQ, msg, svcMsg>>
    BY <1>2 DEF ClockOffRequest, ClockOnRequest, ClockRequest, WorkerIdle
  <2> QED
    BY <1>0, <2>3, <2>4 DEF WorkerIdle, WorkerPcs
<1>3. CASE ClockOffAnswer \/ ClockOffDirect \/ ClockOnAnswer \/ ClockOnDirect
  <2>1. /\ pc["prog"] \notin WorkerIdle
        /\ UNCHANGED <<sq, taskQ, reqQ, svcMsg>>
        /\ \/ UNCHANGED respQ
           \/ respQ["sensor"] # <<>> /\ respQ' = [respQ EXCEPT !["sensor"] = Tail(@)]
    BY <1>3 DEF ClockOffAnswer, ClockOffDirect, ClockOnAnswer, ClockOnDirect, WorkerIdle
  <2>2. respQ'["sensor"] \in Seq(Clock) /\ respQ'["sc"] = respQ["sc"]
    <3>1. respQ["sensor"] # <<>> => Tail(respQ["sensor"]) \in Seq(Clock)
      BY HeadTail
    <3> QED
      BY <1>0, <2>1, <3>1
  <2>3. \/ \E p \in {"load", "section"} : pc' = [pc EXCEPT !["prog"] = p] /\ msg' = msg
        \/ Finish("prog", msg["prog"], "err")
    BY <1>3 DEF ClockOffAnswer, ClockOffDirect, ClockOnAnswer, ClockOnDirect, AfterClockOff, AfterClockOn
  <2>4. msg["prog"] \in Command /\ [msg["prog"] EXCEPT !.rcode = "err"] \in Command
    BY ZenonT(60), <1>0, <2>1, KindsOfMessages DEF Command
  <2>5. \E p \in {"load", "section", "complete"}, m \in Command :
          pc' = [pc EXCEPT !["prog"] = p] /\ msg' = [msg EXCEPT !["prog"] = m]
    BY <1>0, <2>3, <2>4 DEF Finish
  <2> QED
    BY <1>0, <2>1, <2>2, <2>5 DEF WorkerIdle, WorkerPcs
<1>4. CASE ProgLoad
  BY <1>0, <1>4 DEF ProgLoad, WorkerIdle, WorkerPcs
<1>5. CASE ScfwRequest
  <2>1. msg["prog"] \in Command
    BY <1>0, <1>5 DEF ScfwRequest, WorkerIdle
  <2>2. reqQ'["sc"] \in Seq(Command) /\ reqQ'["sensor"] = reqQ["sensor"]
    BY <1>0, <1>5, <2>1 DEF ScfwRequest
  <2>3. /\ msg' = [msg EXCEPT !["prog"] = Blank]
        /\ pc' = [pc EXCEPT !["prog"] = "scfwWait"]
        /\ UNCHANGED <<sq, taskQ, respQ, svcMsg>>
    BY <1>5 DEF ScfwRequest
  <2> QED
    BY <1>0, <2>2, <2>3 DEF WorkerIdle, WorkerPcs
<1>6. CASE ScfwAnswer
  <2>1. Head(respQ["sc"]) \in Command /\ Tail(respQ["sc"]) \in Seq(Command)
    BY <1>6, HeadTail DEF ScfwAnswer
  <2>2. respQ'["sc"] \in Seq(Command) /\ respQ'["sensor"] = respQ["sensor"]
    BY <1>0, <1>6, <2>1 DEF ScfwAnswer
  <2>3. /\ msg' = [msg EXCEPT !["prog"] = Head(respQ["sc"])]
        /\ pc' = [pc EXCEPT !["prog"] = "complete"]
        /\ UNCHANGED <<sq, taskQ, reqQ, svcMsg>>
    BY <1>6 DEF ScfwAnswer
  <2> QED
    BY <1>0, <2>1, <2>2, <2>3 DEF WorkerIdle, WorkerPcs
<1> QED
  BY <1>1, <1>2, <1>3, <1>4, <1>5, <1>6 DEF ProgStep, ClockStep

(* A VMC task gives back what it was given, with a return code.            *)
LEMMA KindService ==
  ASSUME KindInv, NEW sv \in Services, ServiceStep(sv)
  PROVE  Kinds'
<1> DEFINE Kind(s) == IF s = "sc" THEN Command ELSE Clock
<1>0. /\ reqQ \in [Services -> Seq(Msg)] /\ respQ \in [Services -> Seq(Msg)]
      /\ svcMsg \in [Services -> Msg]
      /\ \A s \in Services : s = "sc" \/ s = "sensor"
      /\ \A s \in Services : /\ reqQ[s] \in Seq(Kind(s)) /\ respQ[s] \in Seq(Kind(s))
                             /\ svcMsg[s] \in Kind(s) \cup {Blank}
  BY DEF KindInv, Kinds, TypeInv, TypeOK, Services
<1>1. ASSUME \A s \in Services : /\ reqQ'[s] \in Seq(Kind(s)) /\ respQ'[s] \in Seq(Kind(s))
                                 /\ svcMsg'[s] \in Kind(s) \cup {Blank},
             UNCHANGED <<sq, taskQ, pc, msg>>
      PROVE  Kinds'
  BY <1>1 DEF KindInv, Kinds, Services
<1>2. CASE ServiceTake(sv)
  <2>1. Head(reqQ[sv]) \in Kind(sv) /\ Tail(reqQ[sv]) \in Seq(Kind(sv))
    BY <1>0, <1>2, HeadTail DEF ServiceTake
  <2>2. /\ svcMsg' = [svcMsg EXCEPT ![sv] = Head(reqQ[sv])]
        /\ reqQ' = [reqQ EXCEPT ![sv] = Tail(@)]
        /\ UNCHANGED <<sq, taskQ, pc, msg, respQ>>
    BY <1>2 DEF ServiceTake
  <2> HIDE DEF Kind
  <2> QED
    BY <1>0, <1>1, <2>1, <2>2
<1>3. CASE ServiceAnswer(sv)
  <2>1. PICK r \in Rcodes : respQ' = [respQ EXCEPT ![sv] = Append(@, [svcMsg[sv] EXCEPT !.rcode = r])]
    BY <1>3 DEF ServiceAnswer, ServiceRcodes, Rcodes
  <2>2. svcMsg[sv] \in Kind(sv)
    BY <1>0, <1>3 DEF ServiceAnswer
  <2>3. [svcMsg[sv] EXCEPT !.rcode = r] \in Kind(sv)
    BY <2>2 DEF Command, Clock
  <2>4. /\ svcMsg' = [svcMsg EXCEPT ![sv] = Blank]
        /\ UNCHANGED <<sq, taskQ, pc, msg, reqQ>>
    BY <1>3 DEF ServiceAnswer
  <2> HIDE DEF Kind
  <2> QED
    BY <1>0, <1>1, <2>1, <2>3, <2>4
<1> QED
  BY <1>2, <1>3 DEF ServiceStep

(* Every step keeps the kinds of the messages.                             *)
LEMMA KindStep == KindInv /\ [Next]_vars => Kinds'
<1> SUFFICES ASSUME KindInv, [Next]_vars PROVE Kinds'
  OBVIOUS
<1>1. CASE HostReceive \/ \E c \in Cmds, type \in HostTypes : HostSubmit(c, type)
  BY <1>1, KindHost
<1>2. CASE RxStep
  BY <1>2, KindRx, KindComplete DEF RxStep, Tasks
<1>3. ASSUME NEW w \in Workers, WorkerStep(w) PROVE Kinds'
  BY <1>3, KindWorker, KindComplete DEF WorkerStep, Workers, Tasks
<1>4. CASE ProgStep
  BY <1>4, KindProg
<1>5. ASSUME NEW sv \in Services, ServiceStep(sv) PROVE Kinds'
  BY <1>5, KindService
<1>6. CASE Reboot
  BY <1>6, KindReboot
<1>7. CASE Quiet \/ UNCHANGED vars
  BY <1>7 DEF Quiet, vars, KindInv, Kinds
<1> QED
  BY <1>1, <1>2, <1>3, <1>4, <1>5, <1>6, <1>7 DEF Next

-----------------------------------------------------------------------------
(* One request at a time.  The program task waits where it has asked, and  *)
(* nowhere else.                                                           *)
WaitFor(s) == IF s = "sc" THEN {"scfwWait"} ELSE {"clkOffWait", "clkOnWait"}
Waits      == {"scfwWait", "clkOffWait", "clkOnWait"}

(* The steps of the other tasks, and those of the program task that ask    *)
(* for nothing, neither send a request nor end a wait.                     *)
LEMMA RequestsUntouched ==
  ASSUME KindInv,
         \/ \E c \in Cmds, type \in HostTypes : HostSubmit(c, type)
         \/ HostReceive
         \/ RxStep
         \/ \E w \in Workers : WorkerStep(w)
         \/ XclbinRefused \/ ClockOffDirect \/ ClockOnDirect \/ ProgLoad
         \/ Quiet \/ UNCHANGED vars
  PROVE  /\ UNCHANGED <<reqQ, respQ, svcMsg>>
         /\ pc'["prog"] = pc["prog"] \/ {pc["prog"], pc'["prog"]} \cap Waits = {}
<1> DEFINE Goal == /\ UNCHANGED <<reqQ, respQ, svcMsg>>
                   /\ pc'["prog"] = pc["prog"] \/ {pc["prog"], pc'["prog"]} \cap Waits = {}
<1> USE DEF chanVars, taskVars
<1>0. /\ pc \in [Tasks -> Pcs] /\ "prog" \in Tasks /\ "rx" \in Tasks /\ Workers \subseteq Tasks
      /\ \A w \in Workers : w # "rx"
  BY DEF KindInv, TypeInv, TypeOK, Tasks, Workers
<1>1. CASE HostReceive \/ Quiet \/ UNCHANGED vars \/ \E c \in Cmds, type \in HostTypes : HostSubmit(c, type)
  BY <1>1 DEF HostReceive, Quiet, vars, HostSubmit
<1>2. ASSUME NEW t \in Tasks, CompleteReserve(t) \/ CompletePublish(t) PROVE Goal
  <2>1. /\ pc[t] \in {"complete", "publish"} /\ UNCHANGED <<reqQ, respQ, svcMsg>>
        /\ \E p \in {"publish", "notify", "stop", "recv"} : pc' = [pc EXCEPT ![t] = p]
    BY <1>2 DEF CompleteReserve, CompletePublish
  <2> QED
    BY <1>0, <2>1 DEF Waits
<1>3. CASE RxStep
  <2>1. CASE RxConsume \/ RxSubmit \/ RxAbort \/ RxNotify
    <3>1. /\ UNCHANGED <<reqQ, respQ, svcMsg>>
          /\ \E p \in {"wait", "submit", "complete", "notify"} : pc' = [pc EXCEPT !["rx"] = p]
      BY <2>1 DEF RxConsume, RxSubmit, RxAbort, RxNotify
    <3> QED
      BY <1>0, <3>1
  <2> QED
    BY <1>0, <1>2, <1>3, <2>1 DEF RxStep
<1>4. ASSUME NEW w \in Workers, WorkerStep(w) PROVE Goal
  <2>1. CASE WorkerRecv(w)
    <3>1. /\ pc[w] = "recv" /\ UNCHANGED <<reqQ, respQ, svcMsg>>
          /\ pc' = [pc EXCEPT ![w] = FirstStep(Head(taskQ[w]).type)]
      BY <2>1 DEF WorkerRecv
    <3>2. FirstStep(Head(taskQ[w]).type) \notin Waits
      BY DEF FirstStep, Waits
    <3> QED
      BY <1>0, <3>1, <3>2 DEF Waits
  <2>2. CASE WorkerWork(w)
    BY <1>0, <2>2 DEF WorkerWork, Finish, Waits
  <2>3. CASE ResetStep(w)
    BY <1>0, <2>3 DEF ResetStep, ResetRefused, ServiceStop, Shutdown, Waits
  <2> QED
    BY <1>0, <1>2, <1>4, <2>1, <2>2, <2>3 DEF WorkerStep
<1>5. CASE XclbinRefused \/ ClockOffDirect \/ ClockOnDirect \/ ProgLoad
  <2>1. /\ pc["prog"] \in {"section", "clkOn", "load"} /\ UNCHANGED <<reqQ, respQ, svcMsg>>
        /\ \E p \in {"complete", "load", "section", "clkOn"} : pc' = [pc EXCEPT !["prog"] = p]
    BY <1>5 DEF XclbinRefused, ClockOffDirect, ClockOnDirect, ProgLoad, AfterClockOff, AfterClockOn, Finish
  <2> QED
    BY <1>0, <2>1 DEF Waits
<1> QED
  BY <1>1, <1>3, <1>4, <1>5

(* Every step keeps the number of requests at one for a task that waits    *)
(* and at none for one that does not.                                      *)
LEMMA OneRequestStep ==
  KindInv /\ OneRequestInFlight /\ [Next]_vars => OneRequestInFlight'
<1> SUFFICES ASSUME KindInv, OneRequestInFlight, [Next]_vars PROVE OneRequestInFlight'
  OBVIOUS
<1> DEFINE InFlight(s) == Len(reqQ[s]) + Len(respQ[s]) + (IF svcMsg[s] = Blank THEN 0 ELSE 1)
           Expected(s) == IF pc["prog"] \in WaitFor(s) THEN 1 ELSE 0
<1>0. /\ reqQ \in [Services -> Seq(Msg)] /\ respQ \in [Services -> Seq(Msg)]
      /\ svcMsg \in [Services -> Msg] /\ pc \in [Tasks -> Pcs] /\ "prog" \in Tasks
      /\ \A s \in Services : s = "sc" \/ s = "sensor"
      /\ "sc" \in Services /\ "sensor" \in Services
  BY DEF KindInv, TypeInv, TypeOK, Tasks, Services
<1>1. \A s \in Services : InFlight(s) = Expected(s)
  BY DEF OneRequestInFlight, WaitFor
<1>2. SUFFICES \A s \in Services : InFlight(s)' = Expected(s)'
  BY DEF OneRequestInFlight, WaitFor
<1>3. ASSUME /\ UNCHANGED <<reqQ, respQ, svcMsg>>
             /\ pc'["prog"] = pc["prog"] \/ {pc["prog"], pc'["prog"]} \cap Waits = {}
      PROVE  \A s \in Services : InFlight(s)' = Expected(s)'
  BY <1>1, <1>3 DEF WaitFor, Waits
<1>4. ASSUME NEW s \in Services, NEW m, NEW p \in WaitFor(s), pc["prog"] \notin Waits,
             reqQ' = [reqQ EXCEPT ![s] = Append(@, m)], m \in Msg,
             pc' = [pc EXCEPT !["prog"] = p], UNCHANGED <<respQ, svcMsg>>
      PROVE  \A u \in Services : InFlight(u)' = Expected(u)'
  <2>1. Len(reqQ'[s]) = Len(reqQ[s]) + 1 /\ \A u \in Services \ {s} : reqQ'[u] = reqQ[u]
    BY <1>0, <1>4
  <2>2. pc'["prog"] = p /\ \A u \in Services \ {s} : p \notin WaitFor(u)
    BY <1>0, <1>4 DEF WaitFor
  <2>3. InFlight(s) = 0
    BY <1>1, <1>4 DEF WaitFor, Waits
  <2>4. \A u \in Services : InFlight(u) = 0
    BY <1>1, <1>4 DEF WaitFor, Waits
  <2>5. InFlight(s)' = 1
    BY <1>0, <1>4, <2>1, <2>3
  <2>6. \A u \in Services \ {s} : InFlight(u)' = 0
    BY <1>4, <2>1, <2>4
  <2>7. \A u \in Services : Expected(u)' = IF u = s THEN 1 ELSE 0
    BY <1>4, <2>2
  <2> HIDE DEF InFlight, Expected
  <2> QED
    BY <2>5, <2>6, <2>7
<1>5. ASSUME NEW s \in Services, NEW p, pc["prog"] \in WaitFor(s), p \notin Waits,
             respQ[s] # <<>>, respQ' = [respQ EXCEPT ![s] = Tail(@)],
             pc' = [pc EXCEPT !["prog"] = p], UNCHANGED <<reqQ, svcMsg>>
      PROVE  \A u \in Services : InFlight(u)' = Expected(u)'
  <2>1. Len(respQ'[s]) = Len(respQ[s]) - 1 /\ \A u \in Services \ {s} : respQ'[u] = respQ[u]
    BY <1>0, <1>5
  <2>2. InFlight(s) = 1
    BY <1>1, <1>5
  <2>3. \A u \in Services \ {s} : InFlight(u) = 0
    BY <1>0, <1>1, <1>5 DEF WaitFor
  <2>4. InFlight(s)' = 0
    BY <1>0, <1>5, <2>1, <2>2
  <2>5. \A u \in Services \ {s} : InFlight(u)' = 0
    BY <1>5, <2>1, <2>3
  <2>6. \A u \in Services : pc'["prog"] \notin WaitFor(u)
    BY <1>0, <1>5 DEF WaitFor, Waits
  <2> QED
    BY <2>4, <2>5, <2>6
<1>6. ASSUME NEW s \in Services, ServiceStep(s)
      PROVE  \A u \in Services : InFlight(u)' = Expected(u)'
  <2>1. pc' = pc
    BY <1>6 DEF ServiceStep, ServiceTake, ServiceAnswer
  <2>2. CASE ServiceTake(s)
    <3>1. Head(reqQ[s]) # Blank
      <4>1. s = "sc" => Head(reqQ[s]) \in Command
        BY <2>2, HeadTail DEF ServiceTake, KindInv, Kinds
      <4>2. s = "sensor" => Head(reqQ[s]) \in Clock
        BY <2>2, HeadTail DEF ServiceTake, KindInv, Kinds
      <4> QED
        BY <1>0, <4>1, <4>2, KindsOfMessages
    <3>2. /\ svcMsg[s] = Blank /\ svcMsg'[s] = Head(reqQ[s]) /\ reqQ[s] # <<>>
          /\ reqQ'[s] = Tail(reqQ[s]) /\ respQ' = respQ
          /\ \A u \in Services \ {s} : svcMsg'[u] = svcMsg[u] /\ reqQ'[u] = reqQ[u]
      BY <1>0, <2>2 DEF ServiceTake
    <3>3. Len(reqQ'[s]) = Len(reqQ[s]) - 1
      BY <1>0, <3>2
    <3>4. InFlight(s)' = InFlight(s)
      BY <1>0, <3>1, <3>2, <3>3
    <3>5. \A u \in Services \ {s} : InFlight(u)' = InFlight(u)
      BY <3>2
    <3>6. \A u \in Services : Expected(u)' = Expected(u)
      BY <2>1
    <3> HIDE DEF InFlight, Expected
    <3> QED
      BY <1>1, <3>4, <3>5, <3>6
  <2>3. CASE ServiceAnswer(s)
    <3>1. PICK m : respQ' = [respQ EXCEPT ![s] = Append(@, m)]
      BY <2>3 DEF ServiceAnswer
    <3>2. /\ svcMsg[s] # Blank /\ svcMsg'[s] = Blank /\ reqQ' = reqQ
          /\ respQ'[s] = Append(respQ[s], m)
          /\ \A u \in Services \ {s} : svcMsg'[u] = svcMsg[u] /\ respQ'[u] = respQ[u]
      BY <1>0, <2>3, <3>1 DEF ServiceAnswer
    <3>3. Len(respQ'[s]) = Len(respQ[s]) + 1
      BY <1>0, <3>2
    <3>4. InFlight(s)' = InFlight(s)
      BY <1>0, <3>2, <3>3
    <3>5. \A u \in Services \ {s} : InFlight(u)' = InFlight(u)
      BY <3>2
    <3>6. \A u \in Services : Expected(u)' = Expected(u)
      BY <2>1
    <3> HIDE DEF InFlight, Expected
    <3> QED
      BY <1>1, <3>4, <3>5, <3>6
  <2> QED
    BY <1>6, <2>2, <2>3 DEF ServiceStep
<1>7. CASE Reboot
  BY <1>7 DEF Reboot, FirmwareReset, Services, Tasks, WaitFor
<1>8. CASE ProgStep
  <2>1. CASE ClockOffRequest \/ ClockOnRequest
    <3>1. PICK type \in ClockTypes, p \in WaitFor("sensor") :
            /\ reqQ' = [reqQ EXCEPT !["sensor"] = Append(@, [cid |-> NoCmd, type |-> type, rcode |-> "ok"])]
            /\ pc' = [pc EXCEPT !["prog"] = p]
      BY <2>1 DEF ClockOffRequest, ClockOnRequest, ClockRequest, ClockTypes, WaitFor
    <3>2. [cid |-> NoCmd, type |-> type, rcode |-> "ok"] \in Msg
      BY DEF Msg, Rcodes
    <3>3. pc["prog"] \notin Waits /\ UNCHANGED <<respQ, svcMsg>>
      BY <2>1 DEF ClockOffRequest, ClockOnRequest, ClockRequest, Waits
    <3> HIDE DEF InFlight, Expected
    <3> QED
      BY <1>0, <1>4, <3>1, <3>2, <3>3
  <2>2. CASE ClockOffAnswer \/ ClockOnAnswer
    <3>1. /\ pc["prog"] \in WaitFor("sensor") /\ respQ["sensor"] # <<>>
          /\ respQ' = [respQ EXCEPT !["sensor"] = Tail(@)]
          /\ UNCHANGED <<reqQ, svcMsg>>
          /\ \E p \in {"load", "complete", "section"} : pc' = [pc EXCEPT !["prog"] = p]
      BY <2>2 DEF ClockOffAnswer, ClockOnAnswer, WaitFor, AfterClockOff, AfterClockOn, Finish
    <3>2. PICK p \in {"load", "complete", "section"} : pc' = [pc EXCEPT !["prog"] = p]
      BY <3>1
    <3>3. p \notin Waits
      BY DEF Waits
    <3> HIDE DEF InFlight, Expected
    <3> QED
      BY <1>0, <1>5, <3>1, <3>2, <3>3
  <2>3. CASE ScfwRequest
    <3>1. /\ reqQ' = [reqQ EXCEPT !["sc"] = Append(@, msg["prog"])]
          /\ pc' = [pc EXCEPT !["prog"] = "scfwWait"] /\ "scfwWait" \in WaitFor("sc")
          /\ pc["prog"] \notin Waits /\ UNCHANGED <<respQ, svcMsg>>
      BY <2>3 DEF ScfwRequest, WaitFor, Waits
    <3>2. msg["prog"] \in Msg
      BY <1>0 DEF KindInv, TypeInv, TypeOK
    <3> HIDE DEF InFlight, Expected
    <3> QED
      BY <1>0, <1>4, <3>1, <3>2
  <2>4. CASE ScfwAnswer
    <3>1. /\ pc["prog"] \in WaitFor("sc") /\ respQ["sc"] # <<>>
          /\ respQ' = [respQ EXCEPT !["sc"] = Tail(@)]
          /\ pc' = [pc EXCEPT !["prog"] = "complete"] /\ "complete" \notin Waits
          /\ UNCHANGED <<reqQ, svcMsg>>
      BY <2>4 DEF ScfwAnswer, WaitFor, Waits
    <3> HIDE DEF InFlight, Expected
    <3> QED
      BY <1>0, <1>5, <3>1
  <2> QED
    BY <1>3, <1>8, <2>1, <2>2, <2>3, <2>4, RequestsUntouched DEF ProgStep, ClockStep
<1> QED
  BY <1>3, <1>6, <1>7, <1>8, RequestsUntouched DEF Next

(* The program task and a VMC task share one request at most, and share    *)
(* one whenever the program task waits: the answer a task takes from its   *)
(* queue, with no timeout and no check of the id, is to its own request.   *)
THEOREM OneRequest == Spec => []OneRequestInFlight
<1>1. Init => OneRequestInFlight
  BY DEF Init, OneRequestInFlight, Services, Tasks
<1>2. KindInv /\ [Next]_vars => KindInv'
  BY TypeStep, KindStep DEF KindInv
<1>3. Init => KindInv
  BY TypeInit, KindInit DEF KindInv
<1> QED
  BY <1>1, <1>2, <1>3, OneRequestStep, PTL DEF Spec

-----------------------------------------------------------------------------
(* Places.  A message put on a queue adds its command to those the queue   *)
(* holds.                                                                  *)
LEMMA QueueGets ==
  ASSUME NEW q \in Seq(Msg), NEW m \in Msg
  PROVE  /\ Cids(Append(q, m)) = Cids(q) \cup {m.cid}
         /\ Single(q) /\ m.cid \notin Cids(q) => Single(Append(q, m))
<1> DEFINE a == Append(q, m)
<1>1. /\ DOMAIN q = 1..Len(q) /\ DOMAIN a = 1..Len(q)+1 /\ Len(q) \in Nat
      /\ a[Len(q)+1] = m /\ \A i \in 1..Len(q) : a[i] = q[i]
  OBVIOUS
<1> HIDE DEF a
<1>2. Cids(a) = Cids(q) \cup {m.cid}
  BY <1>1 DEF Cids
<1>3. ASSUME Single(q), m.cid \notin Cids(q) PROVE Single(a)
  BY <1>1, <1>3 DEF Cids, Single
<1> QED
  BY <1>2, <1>3 DEF a

(* Taking the first message of a queue removes its command, and no other,  *)
(* from those the queue holds.                                             *)
LEMMA QueueGives ==
  ASSUME NEW q \in Seq(Msg), q # <<>>, Single(q)
  PROVE  /\ Head(q).cid \in Cids(q)
         /\ Cids(Tail(q)) = Cids(q) \ {Head(q).cid}
         /\ Single(Tail(q))
<1> DEFINE r == Tail(q)
<1>1. /\ DOMAIN q = 1..Len(q) /\ DOMAIN r = 1..Len(q)-1 /\ Len(q) \in Nat \ {0}
      /\ Head(q) = q[1] /\ \A i \in 1..Len(q)-1 : r[i] = q[i+1]
  OBVIOUS
<1> HIDE DEF r
<1>2. Head(q).cid \in Cids(q)
  BY <1>1 DEF Cids
<1>3. Single(r)
  BY SMTT(30), <1>1 DEF Single
<1>4. ASSUME NEW c \in Cids(r) PROVE c \in Cids(q) \ {Head(q).cid}
  <2>1. PICK i \in 1..Len(q)-1 : c = q[i+1].cid
    BY <1>1 DEF Cids
  <2> QED
    BY <1>1, <2>1 DEF Cids, Single
<1>5. ASSUME NEW c \in Cids(q) \ {Head(q).cid} PROVE c \in Cids(r)
  <2>1. PICK i \in 1..Len(q) : c = q[i].cid
    BY <1>1 DEF Cids
  <2>2. i # 1 /\ i - 1 \in 1..Len(q)-1
    BY <1>1, <2>1
  <2>3. r[i-1] = q[i]
    BY <1>1, <2>2
  <2> QED
    BY <1>1, <2>1, <2>2, <2>3 DEF Cids
<1> QED
  BY <1>2, <1>3, <1>4, <1>5 DEF r

(* A command that moves leaves the place it was at and is at the other.    *)
LEMMA AtMove ==
  ASSUME PlaceInv, NEW c \in Cmds, NEW p, stage' = [stage EXCEPT ![c] = p]
  PROVE  \A q : At(q)' = IF q = p THEN At(q) \cup {c} ELSE At(q) \ {c}
BY DEF PlaceInv, KindInv, TypeInv, TypeOK, At

(* A message of a command stands for it, the blank one for none.           *)
LEMMA CidOfMessage ==
  /\ CidOf(Blank) = {}
  /\ \A m \in Command : CidOf(m) = {m.cid} /\ m.cid \in Cmds
BY DispatchAssumption DEF CidOf, Blank, Command

(* Moving a command inside the firmware, or out of it, keeps the host      *)
(* within its window and touches no command that has been answered.        *)
LEMMA MoveInside ==
  ASSUME PlaceInv, NEW c \in Cmds, NEW p \in Live, stage[c] \in Live,
         stage' = [stage EXCEPT ![c] = p], reply' = reply
  PROVE  InWindow' /\ Replied'
<1>1. Outstanding' = Outstanding
  BY DEF Outstanding, PlaceInv, KindInv, TypeInv, TypeOK
<1> QED
  BY <1>1 DEF PlaceInv, InPlace, InWindow, Replied, Live

(* A place keeps its commands when neither its contents nor the stages     *)
(* that name it change.                                                    *)
LEMMA Stays ==
  ASSUME PlaceInv
  PROVE  /\ sq' = sq /\ At("sq")' = At("sq") => PlacedSq'
         /\ msg'["rx"] = msg["rx"] /\ At("rx")' = At("rx") => PlacedRx'
         /\ taskQ' = taskQ /\ At("queued")' = At("queued") => PlacedQueued'
         /\ (\A w \in Workers : msg'[w].cid = msg[w].cid) /\ At("held")' = At("held") => PlacedHeld'
         /\ reqQ'["sc"] = reqQ["sc"] /\ At("req")' = At("req") => PlacedReq'
         /\ svcMsg'["sc"] = svcMsg["sc"] /\ At("svc")' = At("svc") => PlacedSvc'
         /\ respQ'["sc"] = respQ["sc"] /\ At("resp")' = At("resp") => PlacedResp'
         /\ UNCHANGED <<cqSlot, cqCons, cqReg>> /\ At("cq")' = At("cq") => PlacedCq'
<1> USE DEF PlaceInv, InPlace, Cids, Single, CidOf
<1>1. sq' = sq /\ At("sq")' = At("sq") => PlacedSq'
  BY DEF PlacedSq
<1>2. msg'["rx"] = msg["rx"] /\ At("rx")' = At("rx") => PlacedRx'
  BY DEF PlacedRx
<1>3. taskQ' = taskQ /\ At("queued")' = At("queued") => PlacedQueued'
  <2> SUFFICES ASSUME taskQ' = taskQ, At("queued")' = At("queued") PROVE PlacedQueued'
    OBVIOUS
  <2>1. \A w \in Workers : Cids(taskQ[w])' = Cids(taskQ[w]) /\ Single(taskQ[w])' = Single(taskQ[w])
    OBVIOUS
  <2> QED
    BY <2>1 DEF PlacedQueued, Workers
<1>4. (\A w \in Workers : msg'[w].cid = msg[w].cid) /\ At("held")' = At("held") => PlacedHeld'
  BY DEF PlacedHeld, Workers
<1>5. reqQ'["sc"] = reqQ["sc"] /\ At("req")' = At("req") => PlacedReq'
  BY DEF PlacedReq
<1>6. svcMsg'["sc"] = svcMsg["sc"] /\ At("svc")' = At("svc") => PlacedSvc'
  BY DEF PlacedSvc
<1>7. respQ'["sc"] = respQ["sc"] /\ At("resp")' = At("resp") => PlacedResp'
  BY DEF PlacedResp
<1>8. UNCHANGED <<cqSlot, cqCons, cqReg>> /\ At("cq")' = At("cq") => PlacedCq'
  BY DEF PlacedCq, Told, Unread
<1> QED
  BY <1>1, <1>2, <1>3, <1>4, <1>5, <1>6, <1>7, <1>8

(* Where no queue of commands and no stage changes, and each task keeps    *)
(* its command, everything stays in place.                                 *)
LEMMA NothingMoves ==
  ASSUME PlaceInv,
         UNCHANGED <<sq, taskQ, stage, reply, cqSlot, cqCons, cqReg>>,
         \A t \in Tasks : msg'[t].cid = msg[t].cid,
         reqQ'["sc"] = reqQ["sc"], respQ'["sc"] = respQ["sc"], svcMsg'["sc"] = svcMsg["sc"]
  PROVE  InPlace'
<1>1. \A p : At(p)' = At(p)
  BY DEF At
<1>2. PlacedRx'
  BY <1>1 DEF PlaceInv, InPlace, PlacedRx, CidOf, Tasks
<1>3. \A w \in Workers : msg'[w].cid = msg[w].cid
  BY DEF Workers, Tasks
<1>4. InWindow' /\ Replied'
  BY DEF PlaceInv, InPlace, InWindow, Replied, Outstanding
<1> QED
  BY <1>1, <1>2, <1>3, <1>4, Stays DEF InPlace

(* The host submits a command it has not submitted before, within its      *)
(* window.                                                                 *)
LEMMA PlaceSubmit ==
  ASSUME PlaceInv, NEW c \in Cmds, NEW type \in HostTypes, HostSubmit(c, type)
  PROVE  InPlace'
<1> DEFINE m == [cid |-> c, type |-> type, rcode |-> "ok"]
<1>0. m \in Msg /\ m.cid = c /\ sq \in Seq(Msg) /\ stage \in [Cmds -> Stages]
  BY KindsOfMessages DEF Msg, PlaceInv, KindInv, TypeInv, TypeOK
<1>1. /\ sq' = Append(sq, m) /\ stage' = [stage EXCEPT ![c] = "sq"] /\ stage[c] = "unsent"
      /\ UNCHANGED <<taskQ, reqQ, respQ, msg, svcMsg, cqCons, cqReg, cqSlot, reply>>
      /\ Cardinality(Outstanding) < Window
  BY DEF HostSubmit, taskVars, cqVars
<1> HIDE DEF m
<1>2. \A q : At(q)' = IF q = "sq" THEN At(q) \cup {c} ELSE At(q) \ {c}
  BY <1>1, AtMove
<1>3. \A q : q # "unsent" => c \notin At(q)
  BY <1>1 DEF At
<1>4. PlacedSq'
  <2>1. c \notin Cids(sq) /\ Single(sq) /\ Cids(sq) = At("sq")
    BY <1>3 DEF PlaceInv, InPlace, PlacedSq
  <2>2. Cids(sq') = Cids(sq) \cup {c} /\ Single(sq')
    BY <1>0, <1>1, <2>1, QueueGets
  <2> QED
    BY <1>2, <2>1, <2>2 DEF PlacedSq
<1>5. Outstanding' = Outstanding \cup {c} /\ c \notin Outstanding
  BY <1>0, <1>1 DEF Outstanding, Live, Stages
<1>6. IsFiniteSet(Outstanding)
  BY DispatchAssumption, FS_Subset DEF Outstanding
<1>7. Cardinality(Outstanding') = Cardinality(Outstanding) + 1 /\ Cardinality(Outstanding) \in Nat
  BY <1>5, <1>6, FS_AddElement, FS_CardinalityType
<1>8. InWindow'
  BY <1>1, <1>7, DispatchAssumption DEF InWindow
<1>9. Replied'
  BY <1>0, <1>1 DEF PlaceInv, InPlace, Replied
<1>10. \A q : q \notin {"sq", "unsent"} => At(q)' = At(q)
  BY <1>2, <1>3
<1> QED
  BY <1>1, <1>4, <1>8, <1>9, <1>10, Stays DEF InPlace

(* The receive task takes the commands off the SQ and passes each on, or   *)
(* keeps it to complete it.                                                *)
LEMMA PlaceRx ==
  ASSUME PlaceInv, RxConsume \/ RxSubmit \/ RxAbort \/ RxNotify
  PROVE  InPlace'
<1>0. /\ msg \in [Tasks -> Msg] /\ "rx" \in Tasks /\ "rx" \notin Workers
      /\ sq \in Seq(Msg) /\ taskQ \in [Workers -> Seq(Msg)] /\ Workers = {"prog", "op"}
      /\ stage \in [Cmds -> Stages] /\ {"sq", "rx", "queued"} \subseteq Live
  BY DEF PlaceInv, KindInv, TypeInv, TypeOK, Tasks, Workers, Live
<1>1. CASE RxConsume
  <2> DEFINE m == Head(sq)
             c == m.cid
  <2>1. /\ sq # <<>> /\ sq' = Tail(sq) /\ msg' = [msg EXCEPT !["rx"] = m]
        /\ stage' = [stage EXCEPT ![c] = "rx"]
        /\ UNCHANGED <<taskQ, reqQ, respQ, svcMsg, cqCons, cqReg, cqSlot, reply>>
    BY <1>1 DEF RxConsume, cqVars
  <2>2. c \in Cids(sq) /\ Cids(sq') = Cids(sq) \ {c} /\ Single(sq')
    BY <1>0, <2>1, QueueGives DEF PlaceInv, InPlace, PlacedSq
  <2>3. m \in Command /\ c \in Cmds /\ stage[c] = "sq"
    BY <2>1, <2>2, HeadTail, KindsOfMessages DEF PlaceInv, KindInv, Kinds, InPlace, PlacedSq, At
  <2>4. CidOf(msg["rx"]) = {} /\ CidOf(msg'["rx"]) = {c}
    BY <1>0, <1>1, <2>1, <2>3, CidOfMessage DEF RxConsume, PlaceInv, KindInv, Kinds, RxIdle
  <2> HIDE DEF m, c
  <2>5. \A q : At(q)' = IF q = "rx" THEN At(q) \cup {c} ELSE At(q) \ {c}
    BY <2>1, <2>3, AtMove
  <2>6. \A q : q \notin {"sq", "rx"} => At(q)' = At(q)
    BY <2>3, <2>5 DEF At
  <2>7. PlacedSq'
    BY <2>2, <2>5 DEF PlaceInv, InPlace, PlacedSq
  <2>8. PlacedRx'
    BY <2>4, <2>5 DEF PlaceInv, InPlace, PlacedRx
  <2>9. \A w \in Workers : msg'[w] = msg[w]
    BY <1>0, <2>1
  <2>10. InWindow' /\ Replied'
    BY <1>0, <2>1, <2>3, MoveInside
  <2> QED
    BY <2>1, <2>6, <2>7, <2>8, <2>9, <2>10, Stays DEF InPlace
<1>2. CASE RxSubmit
  <2> DEFINE m == msg["rx"]
             c == m.cid
             w == QueueOf(m.type)
  <2>1. /\ taskQ' = [taskQ EXCEPT ![w] = Append(@, m)] /\ msg' = [msg EXCEPT !["rx"] = Blank]
        /\ stage' = [stage EXCEPT ![c] = "queued"] /\ w \in Workers
        /\ UNCHANGED <<sq, reqQ, respQ, svcMsg, cqCons, cqReg, cqSlot, reply>>
    BY <1>2 DEF RxSubmit, cqVars, QueueOf, Workers
  <2>2. m \in Command /\ m \in Msg
    BY <1>2, KindsOfMessages DEF RxSubmit, PlaceInv, KindInv, Kinds, RxBusy
  <2>3. c \in Cmds /\ At("rx") = {c}
    BY <2>2, CidOfMessage DEF PlaceInv, InPlace, PlacedRx
  <2>4. stage[c] = "rx" /\ \A q : q # "rx" => c \notin At(q)
    BY <2>3 DEF At
  <2> HIDE DEF m, w
  <2>5. \A v \in Workers : c \notin Cids(taskQ[v]) /\ Single(taskQ[v])
    BY <1>0, <2>4 DEF PlaceInv, InPlace, PlacedQueued
  <2>6. \A v \in Workers :
          /\ Cids(taskQ'[v]) = IF v = w THEN Cids(taskQ[v]) \cup {c} ELSE Cids(taskQ[v])
          /\ Single(taskQ'[v])
    <3>1. Cids(Append(taskQ[w], m)) = Cids(taskQ[w]) \cup {c} /\ Single(Append(taskQ[w], m))
      BY <1>0, <2>1, <2>2, <2>5, QueueGets
    <3> QED
      BY <1>0, <2>1, <2>5, <3>1
  <2>7. CidOf(msg'["rx"]) = {}
    BY <1>0, <2>1, CidOfMessage
  <2> HIDE DEF c
  <2>8. \A q : At(q)' = IF q = "queued" THEN At(q) \cup {c} ELSE At(q) \ {c}
    BY <2>1, <2>3, AtMove
  <2>9. \A q : q \notin {"rx", "queued"} => At(q)' = At(q)
    BY <2>4, <2>8
  <2>10. PlacedRx'
    BY <2>3, <2>7, <2>8 DEF PlacedRx
  <2>11. PlacedQueued'
    <3>1. /\ Cids(taskQ["prog"]) \cup Cids(taskQ["op"]) = At("queued")
          /\ Cids(taskQ["prog"]) \cap Cids(taskQ["op"]) = {}
      BY DEF PlaceInv, InPlace, PlacedQueued
    <3> QED
      BY <1>0, <2>1, <2>5, <2>6, <2>8, <3>1 DEF PlacedQueued
  <2>12. \A v \in Workers : msg'[v] = msg[v]
    BY <1>0, <2>1
  <2>13. InWindow' /\ Replied'
    BY <1>0, <2>1, <2>3, <2>4, MoveInside
  <2> QED
    BY <2>1, <2>9, <2>10, <2>11, <2>12, <2>13, Stays DEF InPlace
<1>3. CASE RxAbort \/ RxNotify
  <2>1. \A t \in Tasks : msg'[t].cid = msg[t].cid
    BY <1>0, <1>3 DEF RxAbort, RxNotify
  <2>2. UNCHANGED <<sq, taskQ, reqQ, respQ, svcMsg, stage, reply, cqSlot, cqCons, cqReg>>
    BY <1>3 DEF RxAbort, RxNotify, chanVars, cqVars, cmdVars
  <2> QED
    BY <2>1, <2>2, NothingMoves
<1> QED
  BY <1>1, <1>2, <1>3

(* A handler that returns keeps its command.                               *)
LEMMA PlaceFinish ==
  ASSUME PlaceInv, NEW w \in Workers, NEW r \in Rcodes, Finish(w, msg[w], r),
         UNCHANGED <<sq, taskQ, svcMsg, stage, reply, cqSlot, cqCons, cqReg>>,
         reqQ'["sc"] = reqQ["sc"], respQ'["sc"] = respQ["sc"]
  PROVE  InPlace'
<1>1. msg \in [Tasks -> Msg] /\ w \in Tasks
  BY DEF PlaceInv, KindInv, TypeInv, TypeOK, Workers, Tasks
<1>2. [msg[w] EXCEPT !.rcode = r].cid = msg[w].cid
  BY <1>1 DEF Msg
<1>3. \A t \in Tasks : msg'[t].cid = msg[t].cid
  BY <1>1, <1>2 DEF Finish
<1> QED
  BY <1>3, NothingMoves

(* A worker takes commands off its own queue.                              *)
LEMMA PlaceWorker ==
  ASSUME PlaceInv, NEW w \in Workers, WorkerRecv(w) \/ WorkerWork(w) \/ ResetStep(w)
  PROVE  InPlace'
<1>0. /\ msg \in [Tasks -> Msg] /\ "rx" \notin Workers /\ Workers \subseteq Tasks
      /\ taskQ \in [Workers -> Seq(Msg)] /\ Workers = {"prog", "op"}
      /\ stage \in [Cmds -> Stages] /\ {"queued", "held"} \subseteq Live
  BY DEF PlaceInv, KindInv, TypeInv, TypeOK, Tasks, Workers, Live
<1>1. CASE WorkerRecv(w)
  <2> DEFINE m == Head(taskQ[w])
             c == m.cid
  <2>1. /\ taskQ[w] # <<>> /\ taskQ' = [taskQ EXCEPT ![w] = Tail(@)] /\ msg' = [msg EXCEPT ![w] = m]
        /\ stage' = [stage EXCEPT ![c] = "held"]
        /\ UNCHANGED <<sq, reqQ, respQ, svcMsg, cqCons, cqReg, cqSlot, reply>>
    BY <1>1 DEF WorkerRecv, cqVars
  <2>2. \A v \in Workers : Single(taskQ[v])
    BY <1>0 DEF PlaceInv, InPlace, PlacedQueued
  <2>3. c \in Cids(taskQ[w]) /\ Cids(Tail(taskQ[w])) = Cids(taskQ[w]) \ {c} /\ Single(Tail(taskQ[w]))
    BY <1>0, <2>1, <2>2, QueueGives
  <2>4. m \in Accepted
    BY <2>1, HeadTail DEF PlaceInv, KindInv, Kinds
  <2>5. m \in Command /\ c \in Cmds /\ stage[c] = "queued"
    BY <1>0, <2>3, <2>4, KindsOfMessages, CidOfMessage DEF PlaceInv, InPlace, PlacedQueued, At
  <2>6. CidOf(msg[w]) = {} /\ CidOf(msg'[w]) = {c}
    <3>1. msg[w] = Blank
      BY <1>1 DEF WorkerRecv, PlaceInv, KindInv, Kinds, WorkerIdle
    <3>2. msg'[w] = m
      BY <1>0, <2>1
    <3> QED
      BY <2>5, <3>1, <3>2, CidOfMessage
  <2> HIDE DEF m, c
  <2>7. \A q : At(q)' = IF q = "held" THEN At(q) \cup {c} ELSE At(q) \ {c}
    BY <2>1, <2>5, AtMove
  <2>8. \A q : q # "queued" => c \notin At(q)
    BY <2>5 DEF At
  <2>9. \A q : q \notin {"queued", "held"} => At(q)' = At(q)
    BY <2>7, <2>8
  <2>10. PlacedQueued'
    <3>1. /\ Cids(taskQ["prog"]) \cup Cids(taskQ["op"]) = At("queued")
          /\ Cids(taskQ["prog"]) \cap Cids(taskQ["op"]) = {}
      BY DEF PlaceInv, InPlace, PlacedQueued
    <3>2. \A v \in Workers : taskQ'[v] = IF v = w THEN Tail(taskQ[w]) ELSE taskQ[v]
      BY <1>0, <2>1
    <3>3. \A v \in Workers :
            /\ Cids(taskQ'[v]) = IF v = w THEN Cids(taskQ[v]) \ {c} ELSE Cids(taskQ[v])
            /\ Single(taskQ'[v])
      BY <2>2, <2>3, <3>2
    <3> QED
      BY <1>0, <2>3, <2>7, <3>1, <3>3 DEF PlacedQueued
  <2>11. PlacedHeld'
    <3>1. \A v \in Workers : CidOf(msg'[v]) = IF v = w THEN {c} ELSE CidOf(msg[v])
      BY <1>0, <2>1, <2>6
    <3>2. CidOf(msg["prog"]) \cup CidOf(msg["op"]) = At("held") /\ c \notin At("held")
      BY <2>8 DEF PlaceInv, InPlace, PlacedHeld
    <3> QED
      BY <1>0, <2>6, <2>7, <3>1, <3>2 DEF PlacedHeld
  <2>12. msg'["rx"] = msg["rx"]
    BY <1>0, <2>1
  <2>13. InWindow' /\ Replied'
    BY <1>0, <2>1, <2>5, MoveInside
  <2> QED
    BY <2>1, <2>9, <2>10, <2>11, <2>12, <2>13, Stays DEF InPlace
<1>2. CASE WorkerWork(w)
  BY <1>2, PlaceFinish DEF WorkerWork, chanVars, cqVars
<1>3. CASE ResetStep(w)
  <2>1. UNCHANGED <<sq, taskQ, reqQ, respQ, msg, svcMsg, stage, reply, cqSlot, cqCons, cqReg>>
    BY <1>3 DEF ResetStep, ResetRefused, ServiceStop, Shutdown, chanVars, cqVars, cmdVars
  <2> QED
    BY <2>1, NothingMoves
<1> QED
  BY <1>1, <1>2, <1>3

(* The message of an SC firmware command goes to the SC task and comes     *)
(* back; the requests to the sensor task stand for no command.             *)
LEMMA PlaceProg ==
  ASSUME PlaceInv, ProgStep
  PROVE  InPlace'
<1>0. /\ msg \in [Tasks -> Msg] /\ "prog" \in Workers /\ "op" \in Workers /\ Workers \subseteq Tasks
      /\ reqQ \in [Services -> Seq(Msg)] /\ respQ \in [Services -> Seq(Msg)]
      /\ "sc" \in Services /\ "rx" \notin Workers /\ "rx" \in Tasks
      /\ stage \in [Cmds -> Stages] /\ {"held", "req", "resp"} \subseteq Live
      /\ "err" \in Rcodes
  BY DEF PlaceInv, KindInv, TypeInv, TypeOK, Tasks, Workers, Services, Live, Rcodes
<1>1. CASE XclbinRefused
  BY <1>0, <1>1, PlaceFinish DEF XclbinRefused, chanVars, cqVars
<1>2. CASE ClockStep \/ ProgLoad
  <2>1. /\ UNCHANGED <<sq, taskQ, svcMsg, stage, reply, cqSlot, cqCons, cqReg>>
        /\ reqQ'["sc"] = reqQ["sc"] /\ respQ'["sc"] = respQ["sc"]
    BY <1>0, <1>2 DEF ClockStep, ProgLoad, ClockOffRequest, ClockOnRequest, ClockRequest, ClockOffAnswer,
              ClockOnAnswer, ClockOffDirect, ClockOnDirect, chanVars, cqVars, cmdVars
  <2>2. msg' = msg \/ Finish("prog", msg["prog"], "err")
    BY <1>2 DEF ClockStep, ProgLoad, ClockOffRequest, ClockOnRequest, ClockRequest, ClockOffAnswer,
              ClockOnAnswer, ClockOffDirect, ClockOnDirect, AfterClockOff, AfterClockOn
  <2> QED
    BY <1>0, <2>1, <2>2, NothingMoves, PlaceFinish
<1>3. CASE ScfwRequest
  <2> DEFINE m == msg["prog"]
             c == m.cid
  <2>1. /\ reqQ' = [reqQ EXCEPT !["sc"] = Append(@, m)] /\ msg' = [msg EXCEPT !["prog"] = Blank]
        /\ stage' = [stage EXCEPT ![c] = "req"]
        /\ UNCHANGED <<sq, taskQ, respQ, svcMsg, cqCons, cqReg, cqSlot, reply>>
    BY <1>3 DEF ScfwRequest, cqVars
  <2>2. m \in Command /\ m \in Msg
    BY <1>0, <1>3, KindsOfMessages DEF ScfwRequest, PlaceInv, KindInv, Kinds, WorkerIdle
  <2>3. c \in Cmds /\ CidOf(m) = {c}
    BY <2>2, CidOfMessage
  <2> HIDE DEF m
  <2>4. /\ {c} \cup CidOf(msg["op"]) = At("held") /\ c \notin CidOf(msg["op"])
    BY <2>3 DEF PlaceInv, InPlace, PlacedHeld, m
  <2>5. stage[c] = "held" /\ \A q : q # "held" => c \notin At(q)
    BY <2>4 DEF At
  <2>6. CidOf(msg'["prog"]) = {} /\ msg'["op"] = msg["op"] /\ msg'["rx"] = msg["rx"]
    BY <1>0, <2>1, CidOfMessage DEF Workers
  <2>7. c \notin Cids(reqQ["sc"]) /\ Single(reqQ["sc"]) /\ Cids(reqQ["sc"]) = At("req")
    BY <2>5 DEF PlaceInv, InPlace, PlacedReq
  <2>8. /\ reqQ'["sc"] = Append(reqQ["sc"], m)
        /\ Cids(Append(reqQ["sc"], m)) = Cids(reqQ["sc"]) \cup {c} /\ Single(Append(reqQ["sc"], m))
    BY <1>0, <2>1, <2>2, <2>7, QueueGets
  <2> HIDE DEF c
  <2>9. \A q : At(q)' = IF q = "req" THEN At(q) \cup {c} ELSE At(q) \ {c}
    BY <2>1, <2>3, AtMove
  <2>10. \A q : q \notin {"held", "req"} => At(q)' = At(q)
    BY <2>5, <2>9
  <2>11. PlacedHeld'
    BY <2>4, <2>6, <2>9 DEF PlacedHeld
  <2>12. PlacedReq'
    BY <2>7, <2>8, <2>9 DEF PlacedReq
  <2>13. InWindow' /\ Replied'
    BY <1>0, <2>1, <2>3, <2>5, MoveInside
  <2> QED
    BY <2>1, <2>6, <2>10, <2>11, <2>12, <2>13, Stays DEF InPlace
<1>4. CASE ScfwAnswer
  <2> DEFINE m == Head(respQ["sc"])
             c == m.cid
  <2>1. /\ respQ["sc"] # <<>> /\ respQ' = [respQ EXCEPT !["sc"] = Tail(@)]
        /\ msg' = [msg EXCEPT !["prog"] = m] /\ stage' = [stage EXCEPT ![c] = "held"]
        /\ UNCHANGED <<sq, taskQ, reqQ, svcMsg, cqCons, cqReg, cqSlot, reply>>
    BY <1>4 DEF ScfwAnswer, cqVars
  <2>2. m \in Command
    BY <2>1, HeadTail DEF PlaceInv, KindInv, Kinds
  <2>3. Single(respQ["sc"]) /\ Cids(respQ["sc"]) = At("resp")
    BY DEF PlaceInv, InPlace, PlacedResp
  <2>4. /\ c \in Cids(respQ["sc"]) /\ respQ'["sc"] = Tail(respQ["sc"])
        /\ Cids(Tail(respQ["sc"])) = Cids(respQ["sc"]) \ {c} /\ Single(Tail(respQ["sc"]))
    BY <1>0, <2>1, <2>3, QueueGives
  <2>5. c \in Cmds /\ CidOf(m) = {c} /\ stage[c] = "resp"
    BY <2>2, <2>3, <2>4, CidOfMessage DEF At
  <2>6. CidOf(msg["prog"]) = {}
    BY <1>0, <1>4, CidOfMessage DEF ScfwAnswer, PlaceInv, KindInv, Kinds, WorkerIdle
  <2>7. msg'["prog"] = m /\ msg'["op"] = msg["op"] /\ msg'["rx"] = msg["rx"]
    BY <1>0, <2>1
  <2> HIDE DEF m, c
  <2>8. \A q : At(q)' = IF q = "held" THEN At(q) \cup {c} ELSE At(q) \ {c}
    BY <2>1, <2>5, AtMove
  <2>9. \A q : q # "resp" => c \notin At(q)
    BY <2>5 DEF At
  <2>10. \A q : q \notin {"held", "resp"} => At(q)' = At(q)
    BY <2>8, <2>9
  <2>11. PlacedHeld'
    BY <2>5, <2>6, <2>7, <2>8, <2>9 DEF PlaceInv, InPlace, PlacedHeld
  <2>12. PlacedResp'
    BY <2>3, <2>4, <2>8 DEF PlacedResp
  <2>13. InWindow' /\ Replied'
    BY <1>0, <2>1, <2>5, MoveInside
  <2> QED
    BY <2>1, <2>7, <2>10, <2>11, <2>12, <2>13, Stays DEF InPlace
<1> QED
  BY <1>1, <1>2, <1>3, <1>4 DEF ProgStep

(* The stages after a VMC task has moved the command of a message.         *)
LEMMA MoveIsMove ==
  ASSUME PlaceInv, NEW m \in Command \cup Clock, NEW p, Move(m, p)
  PROVE  IF m \in Command THEN stage' = [stage EXCEPT ![m.cid] = p] ELSE stage' = stage
<1>1. stage \in [Cmds -> Stages]
  BY DEF PlaceInv, KindInv, TypeInv, TypeOK
<1>2. m \in Command => m.cid \in Cmds
  BY DEF Command
<1>3. m \notin Command => m.cid \notin Cmds
  BY DispatchAssumption DEF Clock
<1> QED
  BY <1>1, <1>2, <1>3 DEF Move

(* The SC task moves the command of its request along; the sensor task     *)
(* moves none.                                                             *)
LEMMA PlaceService ==
  ASSUME PlaceInv, NEW sv \in Services, ServiceStep(sv)
  PROVE  InPlace'
<1>0. /\ reqQ \in [Services -> Seq(Msg)] /\ respQ \in [Services -> Seq(Msg)]
      /\ svcMsg \in [Services -> Msg] /\ stage \in [Cmds -> Stages]
      /\ "sc" \in Services /\ (sv = "sc" \/ sv = "sensor") /\ "sensor" # "sc"
      /\ {"req", "svc", "resp"} \subseteq Live
  BY DEF PlaceInv, KindInv, TypeInv, TypeOK, Services, Live
<1>1. \A m \in Clock : m \notin Command
  BY DispatchAssumption DEF Clock, Command
<1>2. CASE sv = "sensor"
  <2>1. stage' = stage
    <3>1. CASE ServiceTake(sv)
      <4>1. Head(reqQ[sv]) \in Clock
        BY <1>2, <3>1, HeadTail DEF ServiceTake, PlaceInv, KindInv, Kinds
      <4> QED
        BY <1>1, <3>1, <4>1, MoveIsMove DEF ServiceTake
    <3>2. CASE ServiceAnswer(sv)
      <4>1. svcMsg[sv] \in Clock
        BY <1>2, <3>2 DEF ServiceAnswer, PlaceInv, KindInv, Kinds
      <4> QED
        BY <1>1, <3>2, <4>1, MoveIsMove DEF ServiceAnswer
    <3> QED
      BY <3>1, <3>2 DEF ServiceStep
  <2>2. UNCHANGED <<sq, taskQ, msg, reply, cqSlot, cqCons, cqReg>>
    BY DEF ServiceStep, ServiceTake, ServiceAnswer, cqVars
  <2>3. reqQ'["sc"] = reqQ["sc"] /\ respQ'["sc"] = respQ["sc"] /\ svcMsg'["sc"] = svcMsg["sc"]
    BY <1>0, <1>2 DEF ServiceStep, ServiceTake, ServiceAnswer
  <2> QED
    BY <2>1, <2>2, <2>3, NothingMoves
<1>3. CASE sv = "sc" /\ ServiceTake(sv)
  <2> DEFINE m == Head(reqQ["sc"])
             c == m.cid
  <2>1. /\ reqQ["sc"] # <<>> /\ svcMsg["sc"] = Blank /\ Move(m, "svc")
        /\ reqQ'["sc"] = Tail(reqQ["sc"]) /\ svcMsg'["sc"] = m
        /\ UNCHANGED <<sq, taskQ, respQ, msg, cqCons, cqReg, cqSlot, reply>>
    BY <1>0, <1>3 DEF ServiceTake, cqVars
  <2>2. m \in Command
    BY <2>1, HeadTail DEF PlaceInv, KindInv, Kinds
  <2>3. Single(reqQ["sc"]) /\ Cids(reqQ["sc"]) = At("req") /\ CidOf(svcMsg["sc"]) = At("svc")
    BY DEF PlaceInv, InPlace, PlacedReq, PlacedSvc
  <2>4. /\ c \in Cids(reqQ["sc"])
        /\ Cids(Tail(reqQ["sc"])) = Cids(reqQ["sc"]) \ {c} /\ Single(Tail(reqQ["sc"]))
    BY <1>0, <2>1, <2>3, QueueGives
  <2>5. c \in Cmds /\ CidOf(m) = {c} /\ stage[c] = "req" /\ stage' = [stage EXCEPT ![c] = "svc"]
    BY <2>1, <2>2, <2>3, <2>4, CidOfMessage, MoveIsMove DEF At
  <2>6. At("svc") = {}
    BY <2>1, <2>3, CidOfMessage
  <2> HIDE DEF m, c
  <2>7. \A q : At(q)' = IF q = "svc" THEN At(q) \cup {c} ELSE At(q) \ {c}
    BY <2>5, AtMove
  <2>8. \A q : q \notin {"req", "svc"} => At(q)' = At(q)
    BY <2>5, <2>7 DEF At
  <2>9. PlacedReq'
    BY <2>1, <2>3, <2>4, <2>7 DEF PlacedReq
  <2>10. PlacedSvc'
    BY <2>1, <2>5, <2>6, <2>7 DEF PlacedSvc
  <2>11. InWindow' /\ Replied'
    BY <1>0, <2>1, <2>5, MoveInside
  <2> QED
    BY <2>1, <2>8, <2>9, <2>10, <2>11, Stays DEF InPlace
<1>4. CASE sv = "sc" /\ ServiceAnswer(sv)
  <2> DEFINE m == svcMsg["sc"]
             c == m.cid
  <2>1. PICK r \in Rcodes : respQ' = [respQ EXCEPT !["sc"] = Append(@, [m EXCEPT !.rcode = r])]
    BY <1>4 DEF ServiceAnswer, ServiceRcodes, Rcodes
  <2>2. /\ m # Blank /\ Move(m, "resp") /\ svcMsg'["sc"] = Blank
        /\ UNCHANGED <<sq, taskQ, reqQ, msg, cqCons, cqReg, cqSlot, reply>>
    BY <1>0, <1>4 DEF ServiceAnswer, cqVars
  <2>3. m \in Command
    BY <2>2 DEF PlaceInv, KindInv, Kinds
  <2>4. [m EXCEPT !.rcode = r] \in Msg /\ [m EXCEPT !.rcode = r].cid = c
    BY <2>3, KindsOfMessages, RcodeType DEF Command
  <2>5. c \in Cmds /\ stage' = [stage EXCEPT ![c] = "resp"] /\ At("svc") = {c}
    BY <2>2, <2>3, CidOfMessage, MoveIsMove DEF PlaceInv, InPlace, PlacedSvc
  <2>6. stage[c] = "svc" /\ \A q : q # "svc" => c \notin At(q)
    BY <2>5 DEF At
  <2>7. Single(respQ["sc"]) /\ Cids(respQ["sc"]) = At("resp") /\ c \notin Cids(respQ["sc"])
    BY <2>6 DEF PlaceInv, InPlace, PlacedResp
  <2>8. Cids(respQ'["sc"]) = Cids(respQ["sc"]) \cup {c} /\ Single(respQ'["sc"])
    <3> DEFINE a == [m EXCEPT !.rcode = r]
    <3>1. respQ'["sc"] = Append(respQ["sc"], a)
      BY <1>0, <2>1
    <3>2. a \in Msg /\ a.cid = c
      BY <2>4
    <3> HIDE DEF a, m, c
    <3>3. Cids(Append(respQ["sc"], a)) = Cids(respQ["sc"]) \cup {c} /\ Single(Append(respQ["sc"], a))
      BY <1>0, <2>7, <3>2, QueueGets
    <3> QED
      BY <3>1, <3>3
  <2>9. CidOf(svcMsg'["sc"]) = {}
    BY <2>2, CidOfMessage
  <2> HIDE DEF m, c
  <2>10. \A q : At(q)' = IF q = "resp" THEN At(q) \cup {c} ELSE At(q) \ {c}
    BY <2>5, AtMove
  <2>11. \A q : q \notin {"svc", "resp"} => At(q)' = At(q)
    BY <2>6, <2>10
  <2>12. PlacedSvc'
    BY <2>5, <2>9, <2>10 DEF PlacedSvc
  <2>13. PlacedResp'
    BY <2>7, <2>8, <2>10 DEF PlacedResp
  <2>14. InWindow' /\ Replied'
    BY <1>0, <2>2, <2>5, <2>6, MoveInside
  <2> QED
    BY <2>2, <2>11, <2>12, <2>13, <2>14, Stays DEF InPlace
<1> QED
  BY <1>0, <1>2, <1>3, <1>4 DEF ServiceStep

-----------------------------------------------------------------------------
(* The ring of completions.  Pointers less than a ring apart are of        *)
(* different slots.                                                        *)
LEMMA SlotsDiffer ==
  ASSUME NEW i \in Nat, NEW j \in Nat, i < j, j - i < NSlots
  PROVE  i % NSlots # j % NSlots
<1> SUFFICES ASSUME i % NSlots = j % NSlots PROVE FALSE
  OBVIOUS
<1> DEFINE k == (j \div NSlots) - (i \div NSlots)
<1>0. NSlots \in Nat \ {0}
  BY DispatchAssumption
<1>1. /\ i = NSlots * (i \div NSlots) + (i % NSlots)
      /\ j = NSlots * (j \div NSlots) + (j % NSlots)
      /\ i \div NSlots \in Int /\ j \div NSlots \in Int
      /\ i % NSlots \in Int
  BY <1>0
<1>2. k \in Int /\ j - i = NSlots * k
  BY <1>0, <1>1
<1> HIDE DEF k
<1>3. k >= 1 => NSlots * k >= NSlots
  BY <1>0, <1>2
<1>4. k <= 0 => NSlots * k <= 0
  BY <1>0, <1>2
<1> QED
  BY <1>0, <1>2, <1>3, <1>4

(* The commands whose completions the host has not read are all ones it    *)
(* waits for, so is the one a task is about to complete: with a window no  *)
(* larger than the ring there is a free slot when a task takes the lock.   *)
LEMMA RoomInCq ==
  ASSUME PlaceInv, Window <= NSlots, NEW t \in Tasks, pc[t] = "complete", lock = NoTask
  PROVE  cqProd - cqCons < NSlots
<1> DEFINE c == msg[t].cid
           S == Outstanding \ {c}
           f == [i \in Unread |-> Told(i).cid]
<1>0. /\ cqProd = cqReg /\ cqReg \in Nat /\ cqCons \in Nat /\ cqCons <= cqReg
      /\ NSlots \in Nat /\ Window \in Nat
  BY DispatchAssumption DEF PlaceInv, LockInv, CqNeverOverrun, KindInv, TypeInv, TypeOK
<1>1. c \in Outstanding /\ c \notin At("cq")
  <2>1. msg[t] \in Command
    BY DEF PlaceInv, KindInv, Kinds, RxBusy, WorkerIdle, Tasks, Workers
  <2>2. CidOf(msg[t]) = {c} /\ c \in Cmds
    BY <2>1, CidOfMessage
  <2>3. stage[c] \in {"rx", "held"}
    BY <2>2 DEF PlaceInv, InPlace, PlacedRx, PlacedHeld, At, Tasks
  <2> QED
    BY <2>2, <2>3 DEF Outstanding, Live, At
<1>2. IsFiniteSet(Outstanding) /\ IsFiniteSet(S) /\ Cardinality(S) = Cardinality(Outstanding) - 1
  BY <1>1, DispatchAssumption, FS_Subset, FS_RemoveElement DEF Outstanding
<1>3. \A i \in Unread : Told(i).cid \in S
  BY <1>1 DEF PlaceInv, InPlace, PlacedCq, At, Outstanding, Live
<1>4. f \in Injection(Unread, S)
  BY <1>3 DEF PlaceInv, InPlace, PlacedCq, Injection, IsInjective
<1>5. Cardinality(Unread) <= Cardinality(S)
  BY <1>2, <1>4, FS_Injection
<1>6. Cardinality(Unread) = cqReg - cqCons
  BY <1>0, FS_Interval DEF Unread
<1>7. Cardinality(Outstanding) <= Window /\ Cardinality(Outstanding) \in Nat
  BY <1>2, FS_CardinalityType DEF PlaceInv, InPlace, InWindow
<1> QED
  BY <1>0, <1>2, <1>5, <1>6, <1>7

(* Reserving a slot moves no command.                                      *)
LEMMA PlaceReserve ==
  ASSUME PlaceInv, Window <= NSlots, NEW t \in Tasks, CompleteReserve(t)
  PROVE  InPlace' /\ Reserved'
<1>1. InPlace'
  BY NothingMoves DEF CompleteReserve, chanVars, cmdVars
<1>2. /\ cqProd = cqReg /\ cqProd' = cqProd + 1 /\ cqReg' = cqReg
      /\ wslot' = [wslot EXCEPT ![t] = cqProd % NSlots]
      /\ pc' = [pc EXCEPT ![t] = "publish"] /\ lock = NoTask
  BY RoomInCq DEF CompleteReserve, PlaceInv, LockInv
<1>3. Reserved'
  BY <1>2 DEF Reserved, PlaceInv, LockInv, KindInv, TypeInv, TypeOK, NoTask, Tasks
<1> QED
  BY <1>1, <1>3

(* Publishing moves the task's command to the CQ, behind those the host    *)
(* has not read and over none of them.                                     *)
LEMMA PlacePublish ==
  ASSUME PlaceInv, NEW t \in Tasks, CompletePublish(t)
  PROVE  /\ InPlace' /\ Reserved'
         /\ Unread' = Unread \cup {cqReg} /\ cqReg \notin Unread
         /\ cqSlot'[cqReg % NSlots] = [cid |-> msg[t].cid, rcode |-> msg[t].rcode]
         /\ \A i \in Unread : Told(i)' = Told(i)
<1> DEFINE m == msg[t]
           c == m.cid
           e == [cid |-> m.cid, rcode |-> m.rcode]
<1>0. /\ cqProd \in Nat /\ cqReg \in Nat /\ cqCons \in Nat /\ NSlots \in Nat \ {0}
      /\ msg \in [Tasks -> Msg] /\ pc \in [Tasks -> Pcs] /\ wslot \in [Tasks -> 0..NSlots]
      /\ cqSlot \in [0..NSlots-1 -> Entry]
      /\ stage \in [Cmds -> Stages] /\ {"rx", "held", "cq"} \subseteq Live
      /\ Workers = {"prog", "op"} /\ Tasks = {"rx", "prog", "op"}
  BY DispatchAssumption DEF PlaceInv, KindInv, TypeInv, TypeOK, Tasks, Workers, Live
<1>1. pc[t] = "publish" /\ cqProd = cqReg + 1 /\ wslot[t] = cqReg % NSlots /\ lock = t
  BY DEF CompletePublish, PlaceInv, Reserved, LockInv
<1>2. cqReg % NSlots \in 0..NSlots-1 /\ wslot[t] # Wild
  BY <1>0, <1>1 DEF Wild
<1>3. /\ cqSlot' = [cqSlot EXCEPT ![cqReg % NSlots] = e]
      /\ cqReg' = cqProd /\ stage' = [stage EXCEPT ![c] = "cq"] /\ msg' = [msg EXCEPT ![t] = Blank]
      /\ UNCHANGED <<sq, taskQ, reqQ, respQ, svcMsg, wslot, cqProd, cqCons, reply>>
      /\ \E p \in {"notify", "stop", "recv"} : pc' = [pc EXCEPT ![t] = p]
  BY <1>1, <1>2 DEF CompletePublish, chanVars
<1>4. m \in Command
  BY <1>0, <1>1 DEF PlaceInv, KindInv, Kinds, RxBusy, WorkerIdle
<1>5. c \in Cmds /\ CidOf(m) = {c}
  BY <1>4, CidOfMessage
<1>6. t = "rx" => stage[c] = "rx"
  BY <1>5 DEF PlaceInv, InPlace, PlacedRx, At
<1>7. t # "rx" => stage[c] = "held"
  BY <1>0, <1>5 DEF PlaceInv, InPlace, PlacedHeld, At
<1>8. cqCons <= cqReg /\ cqReg + 1 <= cqCons + NSlots
  BY <1>0, <1>1 DEF PlaceInv, CqNeverOverrun
<1>9. Unread = cqCons..cqReg-1 /\ Unread' = cqCons..cqReg
  BY <1>0, <1>1, <1>3 DEF Unread
<1>10. Unread' = Unread \cup {cqReg} /\ cqReg \notin Unread
  BY <1>0, <1>8, <1>9
<1> HIDE DEF e
<1>11. cqSlot'[cqReg % NSlots] = e
  BY <1>0, <1>2, <1>3
<1>12. ASSUME NEW i \in Unread PROVE Told(i)' = Told(i)
  <2>1. i \in Nat /\ i < cqReg /\ cqReg - i < NSlots
    BY <1>0, <1>8, <1>9
  <2>2. i % NSlots # cqReg % NSlots
    BY <1>0, <2>1, SlotsDiffer
  <2>3. cqSlot'[i % NSlots] = cqSlot[i % NSlots]
    BY <1>0, <1>2, <1>3, <2>1, <2>2
  <2> QED
    BY <2>3 DEF Told
<1>13. e.cid = c
  BY DEF e
<1>14. CidOf(msg'[t]) = {} /\ \A u \in Tasks \ {t} : msg'[u] = msg[u]
  BY <1>0, <1>3, CidOfMessage
<1> HIDE DEF m, c
<1>15. \A q : At(q)' = IF q = "cq" THEN At(q) \cup {c} ELSE At(q) \ {c}
  BY <1>3, <1>5, AtMove
<1>16. \A q : q # stage[c] => c \notin At(q)
  BY DEF At
<1>17. \A q : q \notin {"rx", "held", "cq"} => At(q)' = At(q)
  BY <1>6, <1>7, <1>15, <1>16
<1>18. PlacedRx' /\ PlacedHeld'
  <2>1. CASE t = "rx"
    <3>1. At("held")' = At("held")
      BY <1>6, <1>15, <1>16, <2>1
    <3>4. \A w \in Workers : msg'[w] = msg[w]
      BY <1>0, <1>14, <2>1
    <3>2. PlacedHeld'
      BY <3>1, <3>4, Stays
    <3>3. PlacedRx'
      BY <1>5, <1>14, <1>15, <2>1 DEF PlaceInv, InPlace, PlacedRx, m
    <3> QED
      BY <3>2, <3>3
  <2>2. CASE t # "rx"
    <3>1. At("rx")' = At("rx")
      BY <1>7, <1>15, <1>16, <2>2
    <3>2. PlacedRx'
      BY <1>0, <1>14, <2>2, <3>1, Stays
    <3>3. \A w \in Workers : CidOf(msg'[w]) = IF w = t THEN {} ELSE CidOf(msg[w])
      BY <1>0, <1>14
    <3>4. PlacedHeld'
      BY <1>0, <1>5, <1>15, <2>2, <3>3 DEF PlaceInv, InPlace, PlacedHeld, m
    <3> QED
      BY <3>2, <3>4
  <2> QED
    BY <2>1, <2>2
<1>19. PlacedCq'
  <2>1. /\ {Told(i).cid : i \in Unread} = At("cq")
        /\ \A i, j \in Unread : Told(i).cid = Told(j).cid => i = j
    BY DEF PlaceInv, InPlace, PlacedCq
  <2>2. c \notin At("cq")
    BY <1>0, <1>6, <1>7, <1>16
  <2>3. \A i \in Unread' : Told(i)'.cid = IF i = cqReg THEN c ELSE Told(i).cid
    <3>1. \A i \in Unread : i # cqReg /\ Told(i)' = Told(i)
      BY <1>10, <1>12
    <3>2. \A i : i = cqReg => Told(i)' = e
      BY <1>11 DEF Told
    <3> QED
      BY <1>10, <1>13, <3>1, <3>2
  <2>4. {Told(i)'.cid : i \in Unread'} = At("cq")'
    BY <1>10, <1>15, <2>1, <2>3
  <2>5. \A i, j \in Unread' : Told(i)'.cid = Told(j)'.cid => i = j
    BY <1>10, <2>1, <2>2, <2>3
  <2> QED
    BY <2>4, <2>5 DEF PlacedCq
<1>20. InWindow' /\ Replied'
  BY <1>0, <1>3, <1>5, <1>6, <1>7, MoveInside
<1>21. Reserved'
  <2>1. \A u \in Tasks : pc'[u] # "publish"
    BY <1>0, <1>1, <1>3 DEF PlaceInv, LockInv
  <2> QED
    BY <2>1 DEF Reserved
<1>22. InPlace'
  BY <1>3, <1>17, <1>18, <1>19, <1>20, Stays DEF InPlace
<1> QED
  BY <1>10, <1>11, <1>12, <1>21, <1>22 DEF e, m

(* The host reads a completion: the one command it is of is answered.      *)
LEMMA PlaceReceive ==
  ASSUME PlaceInv, HostReceive
  PROVE  /\ InPlace' /\ Reserved'
         /\ Unread' = Unread \ {cqCons} /\ cqCons \in Unread
         /\ Told(cqCons).cid \in Cmds
         /\ reply' = [reply EXCEPT ![Told(cqCons).cid] = Told(cqCons).rcode]
<1> DEFINE e == Told(cqCons)
           c == e.cid
<1>0. /\ cqProd \in Nat /\ cqReg \in Nat /\ cqCons \in Nat
      /\ stage \in [Cmds -> Stages] /\ reply \in [Cmds -> Rcodes \cup {"none"}]
      /\ cqCons < cqReg
  BY DEF PlaceInv, KindInv, TypeInv, TypeOK, HostReceive
<1>1. /\ cqCons' = cqCons + 1
      /\ UNCHANGED <<sq, taskQ, reqQ, respQ, svcMsg, msg, pc, wslot, cqProd, cqReg, cqSlot>>
  BY DEF HostReceive, chanVars, taskVars
<1>2. Unread = cqCons..cqReg-1 /\ Unread' = cqCons+1..cqReg-1
  BY <1>1 DEF Unread
<1>3. Unread' = Unread \ {cqCons} /\ cqCons \in Unread
  BY <1>0, <1>2
<1>4. c \in At("cq")
  BY <1>3 DEF PlaceInv, InPlace, PlacedCq
<1>5. c \in Cmds /\ stage[c] = "cq"
  BY <1>4 DEF At
<1>6. reply' = [reply EXCEPT ![c] = e.rcode] /\ stage' = [stage EXCEPT ![c] = "answered"]
  BY <1>5 DEF HostReceive, Told
<1> HIDE DEF e
<1>7. \A q : At(q)' = IF q = "answered" THEN At(q) \cup {c} ELSE At(q) \ {c}
  BY <1>5, <1>6, AtMove
<1>8. \A q : q \notin {"cq", "answered"} => At(q)' = At(q)
  BY <1>5, <1>7 DEF At
<1>9. \A i : Told(i)' = Told(i)
  BY <1>1 DEF Told
<1>10. PlacedCq'
  <2>1. /\ {Told(i).cid : i \in Unread} = At("cq")
        /\ \A i, j \in Unread : Told(i).cid = Told(j).cid => i = j
    BY DEF PlaceInv, InPlace, PlacedCq
  <2>2. \A i \in Unread' : Told(i).cid # c
    BY <1>3, <2>1 DEF e
  <2>3. {Told(i).cid : i \in Unread'} = At("cq")'
    BY <1>3, <1>7, <2>1, <2>2 DEF e
  <2>4. \A i, j \in Unread' : Told(i).cid = Told(j).cid => i = j
    BY <1>3, <2>1
  <2> QED
    BY <1>9, <2>3, <2>4 DEF PlacedCq
<1>11. InWindow'
  <2>1. Outstanding' = Outstanding \ {c} /\ c \in Outstanding
    BY <1>0, <1>5, <1>6 DEF Outstanding, Live
  <2>2. IsFiniteSet(Outstanding)
    BY DispatchAssumption, FS_Subset DEF Outstanding
  <2>3. Cardinality(Outstanding') = Cardinality(Outstanding) - 1 /\ Cardinality(Outstanding) \in Nat
    BY <2>1, <2>2, FS_RemoveElement, FS_CardinalityType
  <2> QED
    BY <2>3, DispatchAssumption DEF PlaceInv, InPlace, InWindow
<1>12. Replied'
  BY <1>0, <1>5, <1>6 DEF PlaceInv, InPlace, Replied
<1>13. Reserved'
  BY <1>1 DEF PlaceInv, Reserved
<1>14. InPlace'
  BY <1>1, <1>8, <1>10, <1>11, <1>12, Stays DEF InPlace
<1> QED
  BY <1>3, <1>5, <1>6, <1>13, <1>14 DEF e

(* A reset empties every place, and the host gives up what was in one.     *)
LEMMA PlaceReboot ==
  ASSUME PlaceInv, Reboot
  PROVE  InPlace' /\ Reserved' /\ Unread' = {}
<1>0. stage \in [Cmds -> Stages]
  BY DEF PlaceInv, KindInv, TypeInv, TypeOK
<1>1. stage' = [c \in Cmds |-> IF stage[c] \in Live THEN "lost" ELSE stage[c]] /\ reply' = reply
  BY DEF Reboot
<1>2. \A q \in Live : At(q)' = {}
  BY <1>0, <1>1 DEF At, Live
<1>3. Outstanding' = {}
  BY <1>0, <1>1 DEF Outstanding, Live
<1>4. InWindow'
  BY <1>3, FS_EmptySet, DispatchAssumption DEF InWindow
<1>5. Replied'
  BY <1>1 DEF PlaceInv, InPlace, Replied, Live
<1>6. Cids(<<>>) = {} /\ Single(<<>>) /\ CidOf(Blank) = {}
  BY CidOfMessage DEF Cids, Single
<1>7. Unread' = {}
  BY DEF Reboot, FirmwareReset, Unread
<1>8. PlacedSq' /\ PlacedRx' /\ PlacedQueued' /\ PlacedHeld'
  BY <1>2, <1>6 DEF Reboot, FirmwareReset, PlacedSq, PlacedRx, PlacedQueued, PlacedHeld, Live, Tasks, Workers
<1>9. PlacedReq' /\ PlacedSvc' /\ PlacedResp'
  BY <1>2, <1>6 DEF Reboot, FirmwareReset, PlacedReq, PlacedSvc, PlacedResp, Live, Services
<1>10. PlacedCq'
  BY <1>2, <1>7 DEF PlacedCq, Live
<1>11. Reserved'
  BY DEF Reboot, FirmwareReset, Reserved, Tasks
<1> QED
  BY <1>4, <1>5, <1>7, <1>8, <1>9, <1>10, <1>11 DEF InPlace

(* Only the completions write the ring, and only the host takes replies.   *)
LEMMA RingUntouched ==
  ASSUME PlaceInv,
         \/ \E c \in Cmds, type \in HostTypes : HostSubmit(c, type)
         \/ RxConsume \/ RxSubmit \/ RxAbort \/ RxNotify
         \/ \E w \in Workers : WorkerRecv(w) \/ WorkerWork(w) \/ ResetStep(w)
         \/ ProgStep
         \/ \E sv \in Services : ServiceStep(sv)
         \/ Quiet
  PROVE  UNCHANGED <<wslot, cqSlot, cqCons, cqReg, reply>> /\ Reserved'
<1>1. /\ UNCHANGED <<lock, cqProd, cqReg, cqCons>>
      /\ \A t \in Tasks : pc'[t] = "publish" <=> pc[t] = "publish"
  BY CqUntouched DEF PlaceInv, KindInv
<1> SUFFICES UNCHANGED <<wslot, cqSlot, reply>>
  BY <1>1 DEF PlaceInv, Reserved
<1> USE DEF cqVars, cmdVars
<1>2. CASE \E c \in Cmds, type \in HostTypes : HostSubmit(c, type)
  BY <1>2 DEF HostSubmit
<1>3. CASE RxConsume \/ RxSubmit \/ RxAbort \/ RxNotify
  BY <1>3 DEF RxConsume, RxSubmit, RxAbort, RxNotify
<1>4. CASE \E w \in Workers : WorkerRecv(w) \/ WorkerWork(w) \/ ResetStep(w)
  BY <1>4 DEF WorkerRecv, WorkerWork, ResetStep, ResetRefused, ServiceStop, Shutdown
<1>5. CASE ProgStep
  BY <1>5 DEF ProgStep, XclbinRefused, ClockStep, ClockOffRequest, ClockOnRequest, ClockRequest,
              ClockOffAnswer, ClockOnAnswer, ClockOffDirect, ClockOnDirect, ProgLoad, ScfwRequest, ScfwAnswer
<1>6. CASE \E sv \in Services : ServiceStep(sv)
  BY <1>6 DEF ServiceStep, ServiceTake, ServiceAnswer
<1>7. CASE Quiet
  BY <1>7 DEF Quiet, vars
<1> QED
  BY <1>2, <1>3, <1>4, <1>5, <1>6, <1>7

(* Every step keeps every command in its place.                            *)
LEMMA PlaceStep ==
  ASSUME Window <= NSlots
  PROVE  PlaceInv /\ [Next]_vars => PlaceInv'
<1> SUFFICES ASSUME PlaceInv, [Next]_vars PROVE PlaceInv'
  OBVIOUS
<1>1. KindInv' /\ LockInv' /\ CqNeverOverrun'
  BY TypeStep, KindStep, CqStep DEF PlaceInv, KindInv, CqInv
<1>2. SUFFICES InPlace' /\ Reserved'
  BY <1>1 DEF PlaceInv
<1>3. ASSUME NEW c \in Cmds, NEW type \in HostTypes, HostSubmit(c, type)
      PROVE  InPlace' /\ Reserved'
  BY <1>3, PlaceSubmit, RingUntouched
<1>4. CASE HostReceive
  BY <1>4, PlaceReceive
<1>5. CASE RxStep
  BY <1>5, PlaceRx, PlaceReserve, PlacePublish, RingUntouched DEF RxStep, Tasks
<1>6. ASSUME NEW w \in Workers, WorkerStep(w) PROVE InPlace' /\ Reserved'
  <2>1. w \in Tasks
    BY DEF Workers, Tasks
  <2> QED
    BY <1>6, <2>1, PlaceWorker, PlaceReserve, PlacePublish, RingUntouched DEF WorkerStep
<1>7. CASE ProgStep
  BY <1>7, PlaceProg, RingUntouched
<1>8. ASSUME NEW sv \in Services, ServiceStep(sv) PROVE InPlace' /\ Reserved'
  BY <1>8, PlaceService, RingUntouched
<1>9. CASE Reboot
  BY <1>9, PlaceReboot
<1>10. CASE Quiet \/ UNCHANGED vars
  <2>1. UNCHANGED <<sq, taskQ, reqQ, respQ, svcMsg, stage, reply, cqSlot, cqCons, cqReg, msg,
                    pc, cqProd, wslot>>
    BY <1>10 DEF Quiet, vars
  <2>2. Reserved'
    BY <2>1 DEF PlaceInv, Reserved
  <2> QED
    BY <2>1, <2>2, NothingMoves
<1> QED
  BY <1>3, <1>4, <1>5, <1>6, <1>7, <1>8, <1>9, <1>10 DEF Next

(* At first every place is empty and every command is to be submitted.     *)
LEMMA PlaceInit == Init => PlaceInv
<1> SUFFICES ASSUME Init PROVE PlaceInv
  OBVIOUS
<1> USE DEF Init
<1>1. KindInv
  BY TypeInit, KindInit DEF KindInv
<1>2. LockInv /\ CqNeverOverrun /\ Reserved
  BY DispatchAssumption DEF LockInv, CqNeverOverrun, Reserved, Tasks, NoTask
<1>3. \A q \in Live : At(q) = {}
  BY DEF At, Live
<1>4. Outstanding = {}
  BY DEF Outstanding, Live
<1>5. InWindow /\ Replied
  BY <1>4, FS_EmptySet, DispatchAssumption DEF InWindow, Replied
<1>6. Cids(<<>>) = {} /\ Single(<<>>) /\ CidOf(Blank) = {}
  BY CidOfMessage DEF Cids, Single
<1>7. PlacedSq /\ PlacedRx /\ PlacedQueued /\ PlacedHeld
  BY <1>3, <1>6 DEF PlacedSq, PlacedRx, PlacedQueued, PlacedHeld, Live, Tasks, Workers
<1>8. PlacedReq /\ PlacedSvc /\ PlacedResp
  BY <1>3, <1>6 DEF PlacedReq, PlacedSvc, PlacedResp, Live, Services
<1>9. PlacedCq
  <2>1. Unread = {}
    BY DEF Unread
  <2> QED
    BY <1>3, <2>1 DEF PlacedCq, Live
<1> QED
  BY <1>1, <1>2, <1>5, <1>7, <1>8, <1>9 DEF PlaceInv, InPlace

(* What the invariant says of a message and of a place is what the host is *)
(* promised.                                                               *)
LEMMA PlaceImplies == PlaceInv => HeldSomewhere /\ AnsweredOnce
<1> SUFFICES ASSUME PlaceInv PROVE HeldSomewhere /\ AnsweredOnce
  OBVIOUS
<1> USE DEF PlaceInv, InPlace
<1>1. \A c \in Cmds, t \in Tasks : c \in CidOf(msg[t]) <=> c = msg[t].cid
  BY DispatchAssumption DEF CidOf
<1>2. \A c \in Cmds : c \in CidOf(svcMsg["sc"]) <=> c = svcMsg["sc"].cid
  BY DispatchAssumption DEF CidOf
<1>3. ASSUME NEW c \in Cmds
      PROVE  /\ stage[c] = "sq"     <=> c \in Cids(sq)
             /\ stage[c] = "rx"     <=> c = msg["rx"].cid
             /\ stage[c] = "queued" <=> \E w \in Workers : c \in Cids(taskQ[w])
             /\ stage[c] = "held"   <=> \E w \in Workers : c = msg[w].cid
  <2>1. \A q : stage[c] = q <=> c \in At(q)
    BY DEF At
  <2>2. stage[c] = "sq" <=> c \in Cids(sq)
    BY <2>1 DEF PlacedSq
  <2>3. stage[c] = "rx" <=> c = msg["rx"].cid
    BY <1>1, <2>1 DEF PlacedRx, Tasks
  <2>4. stage[c] = "queued" <=> \E w \in Workers : c \in Cids(taskQ[w])
    BY <2>1 DEF PlacedQueued, Workers
  <2>5. stage[c] = "held" <=> \E w \in Workers : c = msg[w].cid
    BY <1>1, <2>1 DEF PlacedHeld, Workers, Tasks
  <2> QED
    BY <2>2, <2>3, <2>4, <2>5
<1>4. ASSUME NEW c \in Cmds
      PROVE  /\ stage[c] = "req"  <=> c \in Cids(reqQ["sc"])
             /\ stage[c] = "svc"  <=> c = svcMsg["sc"].cid
             /\ stage[c] = "resp" <=> c \in Cids(respQ["sc"])
             /\ stage[c] = "cq"   <=> \E i \in Unread : c = cqSlot[i % NSlots].cid
  <2>1. \A q : stage[c] = q <=> c \in At(q)
    BY DEF At
  <2>2. /\ stage[c] = "req"  <=> c \in Cids(reqQ["sc"])
        /\ stage[c] = "resp" <=> c \in Cids(respQ["sc"])
    BY <2>1 DEF PlacedReq, PlacedResp
  <2>3. stage[c] = "svc" <=> c = svcMsg["sc"].cid
    BY <1>2, <2>1 DEF PlacedSvc
  <2>4. stage[c] = "cq" <=> \E i \in Unread : c = cqSlot[i % NSlots].cid
    BY <2>1 DEF PlacedCq, Told
  <2> QED
    BY <2>2, <2>3, <2>4
<1>5. HeldSomewhere
  BY <1>3, <1>4 DEF HeldSomewhere
<1>6. AnsweredOnce
  <2> SUFFICES ASSUME NEW i \in Unread
               PROVE  /\ Told(i).cid \in Cmds
                      /\ reply[Told(i).cid] = "none"
                      /\ \A j \in Unread : Told(j).cid = Told(i).cid => i = j
    BY DEF AnsweredOnce, Told
  <2>1. Told(i).cid \in At("cq")
    BY DEF PlacedCq
  <2>2. Told(i).cid \in Cmds /\ stage[Told(i).cid] = "cq"
    BY <2>1 DEF At
  <2> QED
    BY <2>2 DEF PlacedCq, Replied
<1> QED
  BY <1>5, <1>6

(* Every command the host waits for is in the one place its stage names:   *)
(* the receive task, the two queues, the two workers, the SC task and the  *)
(* CQ neither drop nor double a command, as long as the host keeps no more *)
(* in flight than the CQ has slots.                                        *)
THEOREM CommandHeld ==
  ASSUME Window <= NSlots
  PROVE  Spec => []HeldSomewhere
<1>1. PlaceInv /\ [Next]_vars => PlaceInv'
  BY PlaceStep
<1>2. PlaceInv => HeldSomewhere
  BY PlaceImplies
<1> QED
  BY PlaceInit, <1>1, <1>2, PTL DEF Spec

(* cl_msg_handle_complete writes one completion per command: none is in    *)
(* the CQ twice, and none of a command that has its answer.                *)
THEOREM CommandAnsweredOnce ==
  ASSUME Window <= NSlots
  PROVE  Spec => []AnsweredOnce
<1>1. PlaceInv /\ [Next]_vars => PlaceInv'
  BY PlaceStep
<1>2. PlaceInv => AnsweredOnce
  BY PlaceImplies
<1> QED
  BY PlaceInit, <1>1, <1>2, PTL DEF Spec

-----------------------------------------------------------------------------
(* Return codes.  A command that stands in none of the queues from the SC  *)
(* task on may get another outcome without anyone having been told: what   *)
(* is said of other commands stays true.                                   *)
LEMMA TruthElsewhere ==
  ASSUME OutcomeInv, NEW c \in Cmds, stage[c] \in {"queued", "rx", "held", "svc"},
         \A d \in Cmds \ {c} : outcome'[d] = outcome[d],
         UNCHANGED <<cqSlot, cqCons, cqReg, reply>>
  PROVE  /\ TrueTold' /\ ReplyIsOutcome'
         /\ \A i \in DOMAIN respQ["sc"] : respQ["sc"][i].rcode = outcome'[respQ["sc"][i].cid]
         /\ \A t \in Tasks : pc[t] \in {"complete", "publish"} /\ msg[t].cid # c
                               => msg[t].rcode = outcome'[msg[t].cid]
<1> USE DEF OutcomeInv, Truthful, PlaceInv
<1>1. ASSUME NEW i \in Unread PROVE Told(i).rcode = outcome'[Told(i).cid]
  <2>1. Told(i).cid \in At("cq")
    BY DEF InPlace, PlacedCq
  <2>2. Told(i).cid \in Cmds \ {c}
    BY <2>1 DEF At
  <2> QED
    BY <2>2 DEF TrueTold
<1>2. TrueTold'
  BY <1>1 DEF TrueTold, Told, Unread
<1>3. ReplyIsOutcome'
  BY DEF ReplyIsOutcome, InPlace, Replied
<1>4. ASSUME NEW i \in DOMAIN respQ["sc"] PROVE respQ["sc"][i].rcode = outcome'[respQ["sc"][i].cid]
  <2>1. respQ["sc"][i].cid \in At("resp")
    BY DEF InPlace, PlacedResp, Cids
  <2>2. respQ["sc"][i].cid \in Cmds \ {c}
    BY <2>1 DEF At
  <2> QED
    BY <2>2 DEF TrueResps
<1>5. ASSUME NEW t \in Tasks, pc[t] \in {"complete", "publish"}, msg[t].cid # c
      PROVE  msg[t].rcode = outcome'[msg[t].cid]
  <2>1. msg[t] \in Command
    BY <1>5 DEF KindInv, Kinds, RxBusy, WorkerIdle, Tasks, Workers
  <2> QED
    BY <1>5, <2>1, CidOfMessage DEF TrueMsgs
<1> QED
  BY <1>2, <1>3, <1>4, <1>5

(* Where no outcome, no reply and none of the messages that carry one      *)
(* change, all that is said stays true.                                    *)
LEMMA TruthStays ==
  ASSUME OutcomeInv, UNCHANGED <<outcome, cqSlot, cqCons, cqReg, reply>>
  PROVE  /\ TrueTold' /\ ReplyIsOutcome'
         /\ respQ'["sc"] = respQ["sc"] => TrueResps'
         /\ (\A t \in Tasks : pc'[t] \in {"complete", "publish"} =>
               pc[t] \in {"complete", "publish"} /\ msg'[t] = msg[t]) => TrueMsgs'
<1>1. TrueTold' /\ ReplyIsOutcome'
  BY DEF OutcomeInv, Truthful, TrueTold, Told, Unread, ReplyIsOutcome
<1>2. respQ'["sc"] = respQ["sc"] => TrueResps'
  BY DEF OutcomeInv, Truthful, TrueResps
<1>3. (\A t \in Tasks : pc'[t] \in {"complete", "publish"} =>
         pc[t] \in {"complete", "publish"} /\ msg'[t] = msg[t]) => TrueMsgs'
  BY DEF OutcomeInv, Truthful, TrueMsgs
<1> QED
  BY <1>1, <1>2, <1>3

(* The two workers and the receive task have different commands.           *)
LEMMA OwnCommand ==
  ASSUME PlaceInv, NEW t \in Tasks, msg[t] \in Command
  PROVE  /\ msg[t].cid \in Cmds /\ stage[msg[t].cid] \in {"rx", "held"}
         /\ \A u \in Tasks \ {t} : msg[u].cid # msg[t].cid
<1>1. CidOf(msg[t]) = {msg[t].cid} /\ msg[t].cid \in Cmds
  BY CidOfMessage
<1>2. \A u \in Tasks : msg[u].cid = msg[t].cid => msg[t].cid \in CidOf(msg[u])
  BY <1>1 DEF CidOf
<1>3. Tasks = {"rx", "prog", "op"}
  BY DEF Tasks
<1>4. stage[msg[t].cid] \in {"rx", "held"}
  BY <1>1, <1>3 DEF PlaceInv, InPlace, PlacedRx, PlacedHeld, At
<1>5. \A c \in Cmds : ~(c \in At("rx") /\ c \in At("held"))
  BY DEF At
<1>6. \A u \in Tasks \ {t} : msg[u].cid # msg[t].cid
  BY <1>1, <1>2, <1>3, <1>5 DEF PlaceInv, InPlace, PlacedRx, PlacedHeld
<1> QED
  BY <1>1, <1>4, <1>6

(* A handler returns: the message and the outcome agree.                   *)
LEMMA TruthFinish ==
  ASSUME OutcomeInv, NEW w \in Workers, NEW r \in Rcodes, pc[w] \notin WorkerIdle,
         Finish(w, msg[w], r), UNCHANGED <<cqSlot, cqCons, cqReg, reply>>,
         respQ'["sc"] = respQ["sc"]
  PROVE  Truthful'
<1> DEFINE c == msg[w].cid
<1>0. /\ msg \in [Tasks -> Msg] /\ pc \in [Tasks -> Pcs] /\ w \in Tasks
      /\ outcome \in [Cmds -> Rcodes \cup {"none"}]
  BY DEF OutcomeInv, PlaceInv, KindInv, TypeInv, TypeOK, Workers, Tasks
<1>1. msg[w] \in Command
  BY DEF OutcomeInv, PlaceInv, KindInv, Kinds
<1>2. /\ c \in Cmds /\ stage[c] \in {"rx", "held"}
      /\ \A u \in Tasks \ {w} : msg[u].cid # c
  BY <1>0, <1>1, OwnCommand DEF OutcomeInv
<1>3. \A t \in Tasks : t # w => msg'[t] = msg[t] /\ pc'[t] = pc[t]
  BY <1>0 DEF Finish
<1>4. msg'[w].cid = c /\ msg'[w].rcode = r
  BY <1>0, <1>1 DEF Finish, Command
<1>5. outcome'[c] = r /\ \A d \in Cmds \ {c} : outcome'[d] = outcome[d]
  BY <1>0, <1>2 DEF Finish
<1> HIDE DEF c
<1>6. /\ TrueTold' /\ ReplyIsOutcome'
      /\ \A i \in DOMAIN respQ["sc"] : respQ["sc"][i].rcode = outcome'[respQ["sc"][i].cid]
      /\ \A t \in Tasks : pc[t] \in {"complete", "publish"} /\ msg[t].cid # c
                            => msg[t].rcode = outcome'[msg[t].cid]
  BY <1>2, <1>5, TruthElsewhere
<1>7. TrueResps'
  BY <1>6 DEF TrueResps
<1>8. TrueMsgs'
  BY <1>2, <1>3, <1>4, <1>5, <1>6 DEF TrueMsgs
<1> QED
  BY <1>6, <1>7, <1>8 DEF Truthful

(* The receive task completes a command it refuses with an error.          *)
LEMMA TruthRx ==
  ASSUME OutcomeInv, RxConsume \/ RxSubmit \/ RxAbort \/ RxNotify
  PROVE  Truthful'
<1>0. /\ msg \in [Tasks -> Msg] /\ pc \in [Tasks -> Pcs] /\ "rx" \in Tasks
      /\ outcome \in [Cmds -> Rcodes \cup {"none"}]
  BY DEF OutcomeInv, PlaceInv, KindInv, TypeInv, TypeOK, Tasks
<1>1. UNCHANGED <<cqSlot, cqCons, cqReg, reply, respQ>>
  BY DEF RxConsume, RxSubmit, RxAbort, RxNotify, cqVars, cmdVars, chanVars
<1>2. \A t \in Tasks \ {"rx"} : msg'[t] = msg[t] /\ pc'[t] = pc[t]
  BY <1>0 DEF RxConsume, RxSubmit, RxAbort, RxNotify
<1>3. CASE RxConsume \/ RxSubmit \/ RxNotify
  <2>1. outcome' = outcome /\ pc'["rx"] \in {"submit", "notify", "wait"}
    BY <1>0, <1>3 DEF RxConsume, RxSubmit, RxNotify, cmdVars
  <2>2. \A t \in Tasks : pc'[t] \in {"complete", "publish"} =>
               pc[t] \in {"complete", "publish"} /\ msg'[t] = msg[t]
    BY <1>2, <2>1
  <2> QED
    BY <1>1, <2>1, <2>2, TruthStays DEF Truthful
<1>4. CASE RxAbort
  <2> DEFINE c == msg["rx"].cid
  <2>1. msg["rx"] \in Command
    BY <1>4 DEF RxAbort, OutcomeInv, PlaceInv, KindInv, Kinds, RxBusy
  <2>2. /\ c \in Cmds /\ stage[c] \in {"rx", "held"}
        /\ \A u \in Tasks \ {"rx"} : msg[u].cid # c
    BY <1>0, <2>1, OwnCommand DEF OutcomeInv
  <2>3. msg'["rx"].cid = c /\ msg'["rx"].rcode = "err"
    BY <1>0, <1>4 DEF RxAbort
  <2>4. outcome'[c] = "err" /\ \A d \in Cmds \ {c} : outcome'[d] = outcome[d]
    BY <1>0, <1>4, <2>2 DEF RxAbort
  <2> HIDE DEF c
  <2>5. /\ TrueTold' /\ ReplyIsOutcome'
        /\ \A i \in DOMAIN respQ["sc"] : respQ["sc"][i].rcode = outcome'[respQ["sc"][i].cid]
        /\ \A t \in Tasks : pc[t] \in {"complete", "publish"} /\ msg[t].cid # c
                              => msg[t].rcode = outcome'[msg[t].cid]
    BY <1>1, <2>2, <2>4, TruthElsewhere
  <2>6. TrueResps'
    BY <1>1, <2>5 DEF TrueResps
  <2>7. TrueMsgs'
    BY <1>2, <2>2, <2>3, <2>4, <2>5 DEF TrueMsgs
  <2> QED
    BY <2>5, <2>6, <2>7 DEF Truthful
<1> QED
  BY <1>3, <1>4

(* What is published is what the message says; reserving changes nothing.  *)
LEMMA TruthComplete ==
  ASSUME OutcomeInv, NEW t \in Tasks, CompleteReserve(t) \/ CompletePublish(t)
  PROVE  Truthful'
<1>0. msg \in [Tasks -> Msg] /\ pc \in [Tasks -> Pcs]
  BY DEF OutcomeInv, PlaceInv, KindInv, TypeInv, TypeOK
<1>1. CASE CompleteReserve(t)
  <2>1. UNCHANGED <<outcome, cqSlot, cqCons, cqReg, reply, respQ, msg>>
    BY <1>1 DEF CompleteReserve, cmdVars, chanVars
  <2>2. pc[t] = "complete" /\ \A u \in Tasks \ {t} : pc'[u] = pc[u]
    BY <1>0, <1>1 DEF CompleteReserve
  <2> QED
    BY <2>1, <2>2, TruthStays DEF Truthful
<1>2. CASE CompletePublish(t)
  <2>1. UNCHANGED <<outcome, reply, respQ>>
    BY <1>2 DEF CompletePublish, chanVars
  <2>2. /\ Unread' = Unread \cup {cqReg} /\ cqReg \notin Unread
        /\ cqSlot'[cqReg % NSlots] = [cid |-> msg[t].cid, rcode |-> msg[t].rcode]
        /\ \A i \in Unread : Told(i)' = Told(i)
    BY <1>2, PlacePublish DEF OutcomeInv
  <2>3. \A i : i = cqReg => Told(i)' = [cid |-> msg[t].cid, rcode |-> msg[t].rcode]
    BY <2>2 DEF Told
  <2>4. msg[t].rcode = outcome[msg[t].cid]
    BY <1>2 DEF CompletePublish, OutcomeInv, Truthful, TrueMsgs
  <2>5. \A i \in Unread' : Told(i)'.rcode = outcome'[Told(i)'.cid]
    <3>1. \A i \in Unread : Told(i)'.rcode = outcome'[Told(i)'.cid]
      BY <2>1, <2>2 DEF OutcomeInv, Truthful, TrueTold
    <3>2. \A i : i = cqReg => Told(i)'.rcode = outcome'[Told(i)'.cid]
      BY <2>1, <2>3, <2>4
    <3> QED
      BY <2>2, <3>1, <3>2
  <2>6. TrueTold'
    BY <2>5 DEF TrueTold
  <2>7. ReplyIsOutcome' /\ TrueResps'
    BY <2>1 DEF OutcomeInv, Truthful, ReplyIsOutcome, TrueResps
  <2>8. /\ \A u \in Tasks \ {t} : pc'[u] = pc[u] /\ msg'[u] = msg[u]
        /\ pc'[t] \in {"notify", "stop", "recv"}
    BY <1>0, <1>2 DEF CompletePublish
  <2>9. TrueMsgs'
    BY <2>1, <2>8 DEF OutcomeInv, Truthful, TrueMsgs
  <2> QED
    BY <2>6, <2>7, <2>9 DEF Truthful
<1> QED
  BY <1>1, <1>2

(* The host is told the return code in the completion it reads.            *)
LEMMA TruthReceive ==
  ASSUME OutcomeInv, HostReceive
  PROVE  Truthful'
<1>0. reply \in [Cmds -> Rcodes \cup {"none"}]
  BY DEF OutcomeInv, PlaceInv, KindInv, TypeInv, TypeOK
<1>1. UNCHANGED <<outcome, cqSlot, respQ, pc, msg>>
  BY DEF HostReceive, chanVars, taskVars
<1>2. /\ Unread' = Unread \ {cqCons} /\ cqCons \in Unread
      /\ Told(cqCons).cid \in Cmds
      /\ reply' = [reply EXCEPT ![Told(cqCons).cid] = Told(cqCons).rcode]
  BY PlaceReceive DEF OutcomeInv
<1>3. TrueTold'
  <2>1. \A i : Told(i)' = Told(i)
    BY <1>1 DEF Told
  <2> QED
    BY <1>1, <1>2, <2>1 DEF OutcomeInv, Truthful, TrueTold
<1>4. ReplyIsOutcome'
  <2>1. Told(cqCons).rcode = outcome[Told(cqCons).cid]
    BY <1>2 DEF OutcomeInv, Truthful, TrueTold
  <2> QED
    BY <1>0, <1>1, <1>2, <2>1 DEF OutcomeInv, Truthful, ReplyIsOutcome
<1>5. TrueResps' /\ TrueMsgs'
  BY <1>1 DEF OutcomeInv, Truthful, TrueResps, TrueMsgs
<1> QED
  BY <1>3, <1>4, <1>5 DEF Truthful

(* A command completed before its callback is told that it succeeded.      *)
LEMMA TruthWorker ==
  ASSUME OutcomeInv, NEW w \in Workers, WorkerRecv(w) \/ WorkerWork(w) \/ ResetStep(w)
  PROVE  Truthful'
<1>0. /\ msg \in [Tasks -> Msg] /\ pc \in [Tasks -> Pcs] /\ w \in Tasks
      /\ outcome \in [Cmds -> Rcodes \cup {"none"}] /\ taskQ \in [Workers -> Seq(Msg)]
  BY DEF OutcomeInv, PlaceInv, KindInv, TypeInv, TypeOK, Workers, Tasks
<1>1. UNCHANGED <<cqSlot, cqCons, cqReg, reply>>
  BY RingUntouched DEF OutcomeInv
<1>2. CASE WorkerRecv(w)
  <2> DEFINE m == Head(taskQ[w])
             c == m.cid
  <2>1. /\ taskQ[w] # <<>> /\ msg' = [msg EXCEPT ![w] = m]
        /\ pc' = [pc EXCEPT ![w] = FirstStep(m.type)]
        /\ outcome' = IF CompletesFirst(m.type) THEN [outcome EXCEPT ![c] = "ok"] ELSE outcome
        /\ respQ' = respQ
    BY <1>2 DEF WorkerRecv
  <2>2. m \in Accepted
    BY <2>1, HeadTail DEF OutcomeInv, PlaceInv, KindInv, Kinds
  <2>3. c \in Cids(taskQ[w])
    <3>1. Single(taskQ[w])
      BY DEF OutcomeInv, PlaceInv, InPlace, PlacedQueued, Workers
    <3> QED
      BY <1>0, <2>1, <3>1, QueueGives
  <2>4. c \in Cmds /\ stage[c] = "queued"
    BY <2>3 DEF OutcomeInv, PlaceInv, InPlace, PlacedQueued, Workers, At
  <2>5. m.rcode = "ok" /\ m.type \in HostTypes \ {"bad"}
    BY <2>2 DEF Accepted
  <2>6. \A t \in Tasks \ {w} : msg'[t] = msg[t] /\ pc'[t] = pc[t]
    BY <1>0, <2>1
  <2>7. msg'[w] = m /\ pc'[w] = FirstStep(m.type)
    BY <1>0, <2>1
  <2>8. FirstStep(m.type) \in {"complete", "publish"} => CompletesFirst(m.type)
    BY <2>5 DEF FirstStep, CompletesFirst, HostTypes
  <2>9. \A t \in Tasks : msg[t] \in Command => msg[t].cid # c
    BY <2>4, OwnCommand DEF OutcomeInv
  <2>10. \A t \in Tasks : pc[t] \in {"complete", "publish"} => msg[t] \in Command
    BY DEF OutcomeInv, PlaceInv, KindInv, Kinds, RxBusy, WorkerIdle, Tasks, Workers
  <2>11. /\ \A d \in Cmds \ {c} : outcome'[d] = outcome[d]
         /\ CompletesFirst(m.type) => outcome'[c] = "ok"
    BY <1>0, <2>1, <2>4
  <2>12. c = m.cid
    OBVIOUS
  <2> HIDE DEF m, c
  <2>13. /\ TrueTold' /\ ReplyIsOutcome'
         /\ \A i \in DOMAIN respQ["sc"] : respQ["sc"][i].rcode = outcome'[respQ["sc"][i].cid]
         /\ \A t \in Tasks : pc[t] \in {"complete", "publish"} /\ msg[t].cid # c
                               => msg[t].rcode = outcome'[msg[t].cid]
    BY <1>1, <2>4, <2>11, TruthElsewhere
  <2>14. TrueResps'
    BY <2>1, <2>13 DEF TrueResps
  <2>15. TrueMsgs'
    BY <2>5, <2>6, <2>7, <2>8, <2>9, <2>10, <2>11, <2>12, <2>13 DEF TrueMsgs
  <2> QED
    BY <2>13, <2>14, <2>15 DEF Truthful
<1>3. CASE WorkerWork(w)
  <2>1. respQ' = respQ /\ pc[w] \notin WorkerIdle
    BY <1>3 DEF WorkerWork, chanVars, WorkerIdle
  <2>2. PICK r \in Rcodes : Finish(w, msg[w], r)
    BY <1>3 DEF WorkerWork
  <2> QED
    BY <1>1, <2>1, <2>2, TruthFinish
<1>4. CASE ResetStep(w)
  <2>1. UNCHANGED <<outcome, respQ, msg>>
    BY <1>4 DEF ResetStep, ResetRefused, ServiceStop, Shutdown, chanVars, cmdVars
  <2>2. /\ \A t \in Tasks \ {w} : pc'[t] = pc[t]
        /\ pc'[w] \in {"recv", "shutdown", "hang"}
    BY <1>0, <1>4 DEF ResetStep, ResetRefused, ServiceStop, Shutdown
  <2> QED
    BY <1>1, <2>1, <2>2, TruthStays DEF Truthful
<1> QED
  BY <1>2, <1>3, <1>4

(* The message that comes back from the SC task carries its return code.   *)
LEMMA TruthProg ==
  ASSUME OutcomeInv, ProgStep
  PROVE  Truthful'
<1>0. /\ msg \in [Tasks -> Msg] /\ pc \in [Tasks -> Pcs] /\ "prog" \in Workers /\ "prog" \in Tasks
      /\ respQ \in [Services -> Seq(Msg)] /\ "sc" \in Services /\ "err" \in Rcodes
  BY DEF OutcomeInv, PlaceInv, KindInv, TypeInv, TypeOK, Workers, Tasks, Services, Rcodes
<1>1. UNCHANGED <<cqSlot, cqCons, cqReg, reply>>
  BY RingUntouched DEF OutcomeInv
<1>2. CASE ScfwAnswer
  <2> DEFINE m == Head(respQ["sc"])
  <2>1. /\ respQ["sc"] # <<>> /\ respQ' = [respQ EXCEPT !["sc"] = Tail(@)]
        /\ msg' = [msg EXCEPT !["prog"] = m] /\ outcome' = outcome
    BY <1>2 DEF ScfwAnswer
  <2>2. respQ["sc"] \in Seq(Msg) /\ respQ'["sc"] = Tail(respQ["sc"])
    BY <1>0, <2>1
  <2>3. m = respQ["sc"][1] /\ 1 \in DOMAIN respQ["sc"]
    BY <2>1, <2>2
  <2>4. m.rcode = outcome[m.cid]
    BY <2>3 DEF OutcomeInv, Truthful, TrueResps
  <2>5. TrueResps'
    <3>1. \A i \in DOMAIN Tail(respQ["sc"]) : i + 1 \in DOMAIN respQ["sc"] /\ Tail(respQ["sc"])[i] = respQ["sc"][i+1]
      BY <2>1, <2>2
    <3> QED
      BY <2>1, <2>2, <3>1 DEF OutcomeInv, Truthful, TrueResps
  <2>6. msg'["prog"] = m /\ \A t \in Tasks \ {"prog"} : msg'[t] = msg[t] /\ pc'[t] = pc[t]
    BY <1>0, <1>2 DEF ScfwAnswer
  <2> HIDE DEF m
  <2>7. TrueMsgs'
    BY <2>1, <2>4, <2>6 DEF OutcomeInv, Truthful, TrueMsgs
  <2>8. TrueTold' /\ ReplyIsOutcome'
    BY <1>1, <2>1, TruthStays
  <2> QED
    BY <2>5, <2>7, <2>8 DEF Truthful
<1>3. CASE XclbinRefused \/ ClockStep \/ ProgLoad \/ ScfwRequest
  <2>1. respQ'["sc"] = respQ["sc"] /\ pc["prog"] \notin WorkerIdle
    BY <1>0, <1>3 DEF XclbinRefused, ClockStep, ProgLoad, ScfwRequest, ClockOffRequest, ClockOnRequest,
              ClockRequest, ClockOffAnswer, ClockOnAnswer, ClockOffDirect, ClockOnDirect, chanVars, WorkerIdle
  <2>2. \/ Finish("prog", msg["prog"], "err")
        \/ /\ outcome' = outcome
           /\ \E p \in {"load", "section", "clkOn", "clkOnWait", "clkOffWait", "scfwWait"} :
                pc' = [pc EXCEPT !["prog"] = p]
           /\ \/ msg' = msg
              \/ msg' = [msg EXCEPT !["prog"] = Blank]
    BY <1>3 DEF XclbinRefused, ClockStep, ProgLoad, ScfwRequest, ClockOffRequest, ClockOnRequest,
              ClockRequest, ClockOffAnswer, ClockOnAnswer, ClockOffDirect, ClockOnDirect,
              AfterClockOff, AfterClockOn, cmdVars
  <2>3. CASE Finish("prog", msg["prog"], "err")
    BY <1>0, <1>1, <2>1, <2>3, TruthFinish
  <2>4. CASE ~Finish("prog", msg["prog"], "err")
    <3>1. outcome' = outcome
      BY <2>2, <2>4
    <3>2. \A t \in Tasks : pc'[t] \in {"complete", "publish"} =>
               pc[t] \in {"complete", "publish"} /\ msg'[t] = msg[t]
      BY <1>0, <2>2, <2>4
    <3> QED
      BY <1>1, <2>1, <3>1, <3>2, TruthStays DEF Truthful
  <2> QED
    BY <2>3, <2>4
<1> QED
  BY <1>2, <1>3 DEF ProgStep

(* cl_msg_set_rcode: the SC task puts its return code into the message it  *)
(* sends back, and no other message is of that command.                    *)
LEMMA TruthService ==
  ASSUME OutcomeInv, NEW sv \in Services, ServiceStep(sv)
  PROVE  Truthful'
<1>0. /\ outcome \in [Cmds -> Rcodes \cup {"none"}] /\ respQ \in [Services -> Seq(Msg)]
      /\ svcMsg \in [Services -> Msg] /\ "sc" \in Services /\ (sv = "sc" \/ sv = "sensor") /\ "sensor" # "sc"
  BY DEF OutcomeInv, PlaceInv, KindInv, TypeInv, TypeOK, Services
<1>1. UNCHANGED <<cqSlot, cqCons, cqReg, reply>>
  BY RingUntouched DEF OutcomeInv
<1>2. UNCHANGED <<pc, msg>>
  BY DEF ServiceStep, ServiceTake, ServiceAnswer
<1>3. CASE outcome' = outcome /\ respQ'["sc"] = respQ["sc"]
  BY <1>1, <1>2, <1>3, TruthStays DEF Truthful
<1>4. CASE ServiceTake(sv)
  BY <1>3, <1>4 DEF ServiceTake
<1>5. CASE ServiceAnswer(sv) /\ sv = "sensor"
  <2>1. svcMsg[sv].cid \notin Cmds
    BY <1>5, DispatchAssumption DEF ServiceAnswer, OutcomeInv, PlaceInv, KindInv, Kinds, Clock
  <2>2. \E r \in Rcodes : outcome' = [c \in Cmds |-> IF c = svcMsg[sv].cid THEN r ELSE outcome[c]]
    BY <1>5 DEF ServiceAnswer, ServiceRcodes, Rcodes
  <2>3. outcome' = outcome
    BY <1>0, <2>1, <2>2
  <2>4. respQ'["sc"] = respQ["sc"]
    BY <1>0, <1>5 DEF ServiceAnswer
  <2> QED
    BY <1>3, <2>3, <2>4
<1>6. CASE ServiceAnswer(sv) /\ sv = "sc"
  <2> DEFINE m == svcMsg["sc"]
             c == m.cid
  <2>1. PICK r \in Rcodes :
          /\ respQ' = [respQ EXCEPT !["sc"] = Append(@, [m EXCEPT !.rcode = r])]
          /\ outcome' = [d \in Cmds |-> IF d = c THEN r ELSE outcome[d]]
    BY <1>6 DEF ServiceAnswer, ServiceRcodes, Rcodes
  <2>2. m \in Command
    BY <1>6 DEF ServiceAnswer, OutcomeInv, PlaceInv, KindInv, Kinds
  <2>3. c \in Cmds /\ stage[c] = "svc"
    BY <2>2, CidOfMessage DEF OutcomeInv, PlaceInv, InPlace, PlacedSvc, At
  <2>4. outcome'[c] = r /\ \A d \in Cmds \ {c} : outcome'[d] = outcome[d]
    BY <2>1, <2>3
  <2>5. [m EXCEPT !.rcode = r].cid = c /\ [m EXCEPT !.rcode = r].rcode = r
    BY <2>2 DEF Command
  <2>6. \A t \in Tasks : msg[t] \in Command => msg[t].cid # c
    BY <2>3, OwnCommand DEF OutcomeInv
  <2>7. \A t \in Tasks : pc[t] \in {"complete", "publish"} => msg[t] \in Command
    BY DEF OutcomeInv, PlaceInv, KindInv, Kinds, RxBusy, WorkerIdle, Tasks, Workers
  <2> DEFINE a == [m EXCEPT !.rcode = r]
             q == respQ["sc"]
  <2>8. respQ'["sc"] = Append(q, a) /\ q \in Seq(Msg) /\ a.cid = c /\ a.rcode = r
    BY <1>0, <2>1, <2>5
  <2> HIDE DEF m, c, a
  <2>9. /\ TrueTold' /\ ReplyIsOutcome'
        /\ \A i \in DOMAIN q : q[i].rcode = outcome'[q[i].cid]
        /\ \A t \in Tasks : pc[t] \in {"complete", "publish"} /\ msg[t].cid # c
                              => msg[t].rcode = outcome'[msg[t].cid]
    BY <1>1, <2>3, <2>4, TruthElsewhere
  <2>10. TrueMsgs'
    BY <1>2, <2>6, <2>7, <2>9 DEF TrueMsgs
  <2> HIDE DEF q
  <2>11. \A i \in DOMAIN Append(q, a) : (i \in DOMAIN q /\ Append(q, a)[i] = q[i]) \/ Append(q, a)[i] = a
    BY <2>8
  <2>12. TrueResps'
    BY <2>4, <2>8, <2>9, <2>11 DEF TrueResps
  <2> QED
    BY <2>9, <2>10, <2>12 DEF Truthful
<1> QED
  BY <1>0, <1>4, <1>5, <1>6 DEF ServiceStep

(* Every step keeps what is said true.                                     *)
LEMMA OutcomeStep ==
  ASSUME Window <= NSlots
  PROVE  OutcomeInv /\ [Next]_vars => OutcomeInv'
<1> SUFFICES ASSUME OutcomeInv, [Next]_vars PROVE Truthful'
  BY PlaceStep DEF OutcomeInv
<1>1. ASSUME NEW c \in Cmds, NEW type \in HostTypes, HostSubmit(c, type) PROVE Truthful'
  BY <1>1, TruthStays DEF HostSubmit, taskVars, cqVars, Truthful
<1>2. CASE HostReceive
  BY <1>2, TruthReceive
<1>3. CASE RxStep
  BY <1>3, TruthRx, TruthComplete DEF RxStep, Tasks
<1>4. ASSUME NEW w \in Workers, WorkerStep(w) PROVE Truthful'
  BY <1>4, TruthWorker, TruthComplete DEF WorkerStep, Workers, Tasks
<1>5. CASE ProgStep
  BY <1>5, TruthProg
<1>6. ASSUME NEW sv \in Services, ServiceStep(sv) PROVE Truthful'
  BY <1>6, TruthService
<1>7. CASE Reboot
  <2>1. Unread' = {} /\ UNCHANGED <<outcome, reply>> /\ respQ'["sc"] = <<>>
    BY <1>7, PlaceReboot DEF OutcomeInv, Reboot, FirmwareReset, Services
  <2>2. \A t \in Tasks : pc'[t] \notin {"complete", "publish"}
    BY <1>7 DEF Reboot, FirmwareReset
  <2> QED
    BY <2>1, <2>2 DEF OutcomeInv, Truthful, TrueMsgs, TrueResps, TrueTold, ReplyIsOutcome
<1>8. CASE Quiet \/ UNCHANGED vars
  BY <1>8, TruthStays DEF Quiet, vars, Truthful
<1> QED
  BY <1>1, <1>2, <1>3, <1>4, <1>5, <1>6, <1>7, <1>8 DEF Next

(* The return code the host reads is the one the handler of that very      *)
(* command gave, through the queue to the SC task and back and through the *)
(* completion that any of three tasks may write.                           *)
THEOREM ToldTheTruth ==
  ASSUME Window <= NSlots
  PROVE  Spec => []ReplyIsOutcome
<1>1. Init => OutcomeInv
  <2> SUFFICES ASSUME Init PROVE Truthful
    BY PlaceInit DEF OutcomeInv
  <2>1. Unread = {}
    BY DEF Init, Unread
  <2> QED
    BY <2>1 DEF Init, Truthful, TrueMsgs, TrueResps, TrueTold, ReplyIsOutcome, Services, Tasks
<1>2. OutcomeInv /\ [Next]_vars => OutcomeInv'
  BY OutcomeStep
<1>3. OutcomeInv => ReplyIsOutcome
  BY DEF OutcomeInv, Truthful
<1> QED
  BY <1>1, <1>2, <1>3, PTL DEF Spec
=============================================================================
