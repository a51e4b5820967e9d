------------------------------- MODULE ScLink -------------------------------
(***************************************************************************)
(* The link to the satellite controller: the requests the SC comms task    *)
(* goes round with (vmc/vmc_sc_comms.c, with the messages of the VCK5000), *)
(* and the interrupt driven UART below it (common/cl_uart_rtos.c).         *)
(*                                                                         *)
(* A byte is the kind of the answer it belongs to and its place in it.     *)
(* Framing, escaping and the checksum are one question: is what was        *)
(* received exactly one answer, undamaged?  The SC and the UART device     *)
(* with its driver (XUartPsv) are external.                                *)
(***************************************************************************)
EXTENDS Integers, Sequences, FiniteSetsExt

CONSTANTS
  Fifo,       \* bytes in the receive FIFO
  AckLen,     \* MSP432_COMMS_GENERAL_RESP_LEN
  VersionLen, \* length of the answer with the version and the power mode
  SensorLen,  \* the lengths the SC announces for "volt", "power" and "temp"
  BufMax,     \* MAX_VMC_SC_UART_BUF_SIZE
  MaxFaults   \* answers lost, late, broken by a pause or damaged

SensorKinds == {"volt", "power", "temp"}

(* A packet is longer than the two bytes the receiver drops unseen, and    *)
(* fits its buffer.                                                        *)
ASSUME ScLinkAssumption ==
  /\ {Fifo, BufMax} \subseteq Nat \ {0} /\ MaxFaults \in Nat
  /\ {AckLen, VersionLen} \subseteq 2..BufMax
  /\ SensorLen \in [SensorKinds -> 2..BufMax]

(* One round of cl_vmc_sc_tx_rx_data.  "size" is one of the three requests *)
(* of MSP432_COMMS_VMC_GET_RESP_SIZE_REQ.                                  *)
Ask(kind)  == [kind |-> kind, of |-> "none"]
Size(k)    == [kind |-> "size", of |-> k]
Cycle == <<Ask("active"), Ask("version"), Size("volt"), Size("power"), Size("temp"), Ask("board"),
           Ask("volt"), Ask("power"), Ask("temp"), Ask("i2c")>>
Requests == {Cycle[i] : i \in 1..Len(Cycle)}
LastSize  == 5

VARIABLES
  at, pc,     \* where the task is in the round, and in the request
  known,      \* is_SC_active, isPowerModeActive, getSensorRespLen,
              \* is_boardInfo_sentTo_SC and the sensor lengths in sc_vmc_data
  rxSem, irq, \* rxSem is held; the interrupt is enabled
  buf, want,  \* the receive buffer and its size
  event, count,  \* rxEvent and cb_msg.receivedBytes
  fifo, raw, overrun,  \* the FIFO, the raw receive timeout and error interrupts
  wire,       \* bytes on their way from the SC
  sc,         \* requests the SC has not answered yet
  heard,      \* requests the SC has carried out
  faults,     \* faults so far
  last        \* the kind of the answer the last request got, or "miss"

uart   == <<rxSem, irq, buf, want, event, count, fifo, raw, overrun>>
remote == <<wire, sc, heard>>
vars   == <<at, pc, known, uart, remote, faults, last>>

req == Cycle[at]
LenOf(r) == IF r.kind \in SensorKinds THEN SensorLen[r.kind]
            ELSE IF r.kind = "version" THEN VersionLen ELSE AckLen
AnswerTo(r) == [i \in 1..LenOf(r) |-> [kind |-> r.kind, of |-> r.of, i |-> i]]

Init ==
  /\ at = 1 /\ pc = "delay"
  /\ known = [active |-> FALSE, power |-> FALSE, snsr |-> FALSE, board |-> FALSE,
              learned |-> [k \in SensorKinds |-> 0]]
  /\ rxSem = FALSE /\ irq = TRUE /\ buf = <<>> /\ want = 0 /\ event = {} /\ count = 0
  /\ fifo = <<>> /\ raw = FALSE /\ overrun = FALSE
  /\ wire = <<>> /\ sc = <<>> /\ heard = {}
  /\ faults = 0 /\ last = "none"

-----------------------------------------------------------------------------
(* The UART device and its driver. *)

(* What XUartPsv_ReceiveBuffer takes out of the FIFO. *)
Room == want - Len(buf)
Take(s, n) == SubSeq(s, 1, IF n < Len(s) THEN n ELSE Len(s))
Drop(s, n) == SubSeq(s, n + 1, Len(s))
ReceiveBuffer ==
  /\ buf' = buf \o Take(fifo, Room)
  /\ fifo' = Drop(fifo, Room)

(* Between a wake-up and the next wait the task needs no time that counts  *)
(* on the line, unless it is preempted there, which is a fault as well.    *)
Busy == pc \in {"got", "failed", "flush"}
Fault(happens) ==
  IF happens THEN faults < MaxFaults /\ faults' = faults + 1 ELSE UNCHANGED faults

(* The receive interrupt and that of an error preempt the task at once;    *)
(* that of the receive timeout comes some time after the last byte.        *)
HalfFull == 2 * Len(fifo) >= Fifo
IsrDue   == irq /\ (overrun \/ (Room > 0 /\ HalfFull))

(* The receive interrupt at half a FIFO: the application hears of it when  *)
(* its buffer is full.                                                     *)
DataIsr ==
  /\ irq /\ Room > 0 /\ HalfFull
  /\ ReceiveBuffer
  /\ raw' = (raw /\ fifo' # <<>>)
  /\ IF Len(buf') = want THEN event' = event \cup {"complete"} /\ count' = want
     ELSE UNCHANGED <<event, count>>
  /\ UNCHANGED <<at, pc, known, rxSem, irq, want, overrun, remote, faults, last>>

(* The receive timeout: the line is quiet and there are bytes in the FIFO. *)
(* A pause within an answer is a fault.                                    *)
IdleIsr ==
  /\ irq /\ raw
  /\ Fault(wire # <<>> \/ Busy)
  /\ ReceiveBuffer
  /\ raw' = FALSE
  /\ event' = event \cup {"complete"} /\ count' = Len(buf')
  /\ UNCHANGED <<at, pc, known, rxSem, irq, want, overrun, remote, last>>

(* A parity, frame or overrun error. *)
ErrorIsr ==
  /\ irq /\ overrun
  /\ ReceiveBuffer
  /\ raw' = (raw /\ fifo' # <<>>)
  /\ overrun' = FALSE
  /\ event' = event \cup {"error"} /\ count' = Len(buf')
  /\ UNCHANGED <<at, pc, known, rxSem, irq, want, remote, faults, last>>

(* Bytes reach the FIFO, or are lost because it is full.  The interrupt    *)
(* keeps up with the line as long as there is somewhere to put the bytes.  *)
Deliver ==
  \E n \in 1..Len(wire) :
    /\ ~IsrDue /\ ((irq /\ Room > 0) => Len(fifo) + n <= Fifo)
    /\ fifo' = Take(fifo \o SubSeq(wire, 1, n), Fifo)
    /\ wire' = Drop(wire, n)
    /\ overrun' = (overrun \/ Len(fifo) + n > Fifo)
    /\ raw' = TRUE
    /\ Fault(Busy)
    /\ UNCHANGED <<at, pc, known, rxSem, irq, buf, want, event, count, sc, heard, last>>

(* The SC carries out a request; the answer may be lost or damaged. *)
Damaged == [kind |-> "damaged", of |-> "none", i |-> 1]
ScAnswers ==
  /\ sc # <<>>
  /\ sc' = Tail(sc)
  /\ heard' = heard \cup {Head(sc)}
  /\ \E w \in {wire, wire \o AnswerTo(Head(sc)), wire \o [AnswerTo(Head(sc)) EXCEPT ![1] = Damaged]} :
       wire' = w /\ Fault(Busy \/ w # wire \o AnswerTo(Head(sc)))
  /\ UNCHANGED <<at, pc, known, uart, last>>

-----------------------------------------------------------------------------
(* UART_RTOS_Receive_Set_Buffer, with the interrupt disabled around the    *)
(* read of what is in the FIFO already.  The events are not cleared.       *)
SetBuffer(n, then) ==
  /\ ~rxSem /\ rxSem' = TRUE
  /\ irq' = TRUE
  /\ want' = n
  /\ buf' = Take(fifo, n) /\ fifo' = Drop(fifo, n)
  /\ raw' = (raw /\ fifo' # <<>>)
  /\ pc' = then
  /\ UNCHANGED <<event, count, overrun>>

(* UART_RTOS_Receive_Wait in two steps: the event is consumed or the time  *)
(* is up, then the interrupt is disabled and the count read.               *)
(* Seeded fault: the events are not cleared by the task that waited. *)
WakesKeeping(then) ==
  /\ event # {}
  /\ pc' = IF "complete" \in event THEN then ELSE "failed"
  /\ UNCHANGED uart
Wakes(then) ==
  /\ event # {}
  /\ event' = {}
  /\ pc' = IF "complete" \in event THEN then ELSE "failed"
  /\ UNCHANGED <<rxSem, irq, buf, want, count, fifo, raw, overrun>>

Settled == sc = <<>> /\ wire = <<>>
Quiet == Settled /\ ~(irq /\ raw)
TimesOut(then) ==
  /\ event = {}
  /\ pc' = then
  /\ UNCHANGED uart

Leave == rxSem' = FALSE /\ irq' = FALSE

-----------------------------------------------------------------------------
(* The SC comms task. *)

(* Parse_SC_Data: only the answer to this kind of request counts.  After   *)
(* the three "size" requests all lengths may be known.                     *)
IsAnswer(p) == p.kind = req.kind
Learned(p) ==
  CASE p.kind = "active"  -> [known EXCEPT !.active = TRUE]
    [] p.kind = "version" -> [known EXCEPT !.power = TRUE]
    [] p.kind = "board"   -> [known EXCEPT !.board = TRUE]
    [] p.kind = "size"    -> [known EXCEPT !.learned[p.of] = SensorLen[p.of]]
    [] OTHER              -> known
Sized(k) == IF at = LastSize THEN [k EXCEPT !.snsr = \A s \in SensorKinds : k.learned[s] # 0] ELSE k

(* What has been learned is not asked for again, and nothing else is asked *)
(* of an SC that has not said it is active.                                *)
Asks(k, r) ==
  CASE r.kind = "active"  -> ~k.active
    [] r.kind = "version" -> k.active /\ ~k.power
    [] r.kind = "size"    -> k.active /\ ~k.snsr
    [] r.kind = "board"   -> k.active /\ ~k.board
    [] OTHER              -> k.active
InRound(i) == 1 + ((i - 1) % Len(Cycle))
NextAt(k)  == InRound(Min({i \in (at + 1)..(at + Len(Cycle)) : Asks(k, Cycle[InRound(i)])}))

(* The sensor messages are followed by vTaskDelay, and so is the round;    *)
(* the request whether the SC is active comes after one.                   *)
Delayed(r) == r.kind \in SensorKinds \cup {"i2c"}

(* The end of a request, with the packet that was received if there is one. *)
Finish(k, outcome) ==
  /\ known' = Sized(k)
  /\ last' = outcome
  /\ at' = NextAt(Sized(k))
  /\ pc' = IF Delayed(req) \/ Cycle[at'].kind = "active" THEN "delay" ELSE "begin"
(* Seeded fault: any valid packet passes for the answer. *)
FinishWithAny(p) == Finish(Learned([kind |-> req.kind, of |-> req.of]), req.kind)
FinishWith(p) == IF IsAnswer(p) THEN Finish(Learned(p), p.kind) ELSE Finish(known, "miss")

(* The length a request expects: that of a sensor message is the one the   *)
(* SC has announced.                                                       *)
Expected == IF req.kind \in SensorKinds THEN known.learned[req.kind] ELSE LenOf(req)

(* What the SC has to say to earlier requests has been said when a delay   *)
(* ends; otherwise it is late, which is a fault.                           *)
Delay ==
  /\ pc = "delay" /\ pc' = "begin"
  /\ Fault(~Settled)
  /\ UNCHANGED <<at, known, uart, remote, last>>

(* VMC_UART_CMD_Transaction: the buffer is set before the request is sent. *)
Begin ==
  /\ pc = "begin"
  /\ SetBuffer(Expected, "send")
  /\ UNCHANGED <<at, known, remote, faults, last>>

(* UART_RTOS_Send: the task may go on waiting before the SC has it all. *)
Send ==
  /\ pc = "send"
  /\ sc' = Append(sc, req)
  /\ pc' = "wait"
  /\ UNCHANGED <<at, known, uart, wire, heard, faults, last>>

Wait ==
  /\ pc = "wait"
  /\ \/ Wakes("got") /\ UNCHANGED faults
     \/ TimesOut("failed") /\ Fault(~Quiet)
  /\ UNCHANGED <<at, known, remote, last>>

(* VMC_Validate_SC_Packet of the bytes received. *)
Whole(s, n) ==
  /\ n = Len(s)
  /\ \E r \in Requests : s = AnswerTo(r)

(* What Receive_Wait and the transaction make of a wake-up: a packet that  *)
(* is valid is parsed, one that is not makes VMC_Recover_UART flush the    *)
(* line, and nothing is done about one of two bytes or fewer.              *)
TooShort == 1
Got ==
  /\ pc = "got"
  /\ Leave
  /\ \/ count > TooShort /\ Whole(buf, count) /\ FinishWith(buf[1])
     \/ count > TooShort /\ ~Whole(buf, count) /\ pc' = "flush" /\ UNCHANGED <<at, known, last>>
     \/ count <= TooShort /\ Finish(known, "miss")
  /\ UNCHANGED <<buf, want, event, count, fifo, raw, overrun, remote, faults>>

(* Nothing, or an error: the request is over and nothing is flushed. *)
Failed ==
  /\ pc = "failed"
  /\ Leave
  /\ Finish(known, "miss")
  /\ UNCHANGED <<buf, want, event, count, fifo, raw, overrun, remote, faults>>

(* VMC_Recover_UART: receive into a buffer as long as the longest packet   *)
(* for two seconds, or until something has been received.                  *)
(* Seeded fault: an invalid packet is dropped, and the line not flushed. *)
FlushNot ==
  /\ pc = "flush" /\ pc' = "failed"
  /\ UNCHANGED <<at, known, uart, remote, faults, last>>
Flush ==
  /\ pc = "flush"
  /\ SetBuffer(BufMax, "drain")
  /\ UNCHANGED <<at, known, remote, faults, last>>

Drain ==
  /\ pc = "drain"
  /\ \/ Wakes("failed")
     \/ TimesOut("failed") /\ Quiet
  /\ UNCHANGED <<at, known, remote, faults, last>>

Task == ~IsrDue /\ (Delay \/ Begin \/ Send \/ Wait \/ Got \/ Failed \/ Flush \/ Drain)
Isr  == DataIsr \/ IdleIsr \/ ErrorIsr
Next == Task \/ Isr \/ Deliver \/ ScAnswers

(* The task runs, the interrupt is taken, the line delivers, and the SC    *)
(* answers what it has received.                                           *)
Fairness == WF_vars(Task) /\ WF_vars(Isr) /\ WF_vars(Deliver) /\ WF_vars(ScAnswers)
Spec     == Init /\ [][Next]_vars /\ Fairness

-----------------------------------------------------------------------------
Bytes == (UNION {{AnswerTo(r)[i] : i \in 1..LenOf(r)} : r \in Requests}) \cup {Damaged}

(* The types, with the sizes of the buffers: the FIFO and the receive      *)
(* buffer never hold more than they have room for.                         *)
TypeOK ==
  /\ at \in 1..Len(Cycle)
  /\ pc \in {"delay", "begin", "send", "wait", "got", "failed", "flush", "drain"}
  /\ known \in [active : BOOLEAN, power : BOOLEAN, snsr : BOOLEAN, board : BOOLEAN,
                learned : [SensorKinds -> 0..BufMax]]
  /\ {rxSem, irq, raw, overrun} \subseteq BOOLEAN
  /\ buf \in Seq(Bytes) /\ want \in 0..BufMax /\ Len(buf) <= want
  /\ fifo \in Seq(Bytes) /\ Len(fifo) <= Fifo /\ count \in 0..BufMax
  /\ event \subseteq {"complete", "error"}
  /\ faults \in 0..MaxFaults /\ last \in {"none", "miss"} \cup {r.kind : r \in Requests}

(* vmc_sc_comms.c, Parse_SC_Data: bytes of a late answer to an earlier     *)
(* request are read as the answer to the next one, yet the task believes   *)
(* the SC active, or in possession of the board information, only after    *)
(* the SC has carried out that very request.                               *)
BelievesOnlyWhatScDid ==
  /\ known.active => Ask("active") \in heard
  /\ known.board => Ask("board") \in heard
  /\ known.power => Ask("version") \in heard

(* cl_uart_rtos.c: as long as every answer arrives whole and in time, the  *)
(* interrupts, the event group and the bytes taken straight from the FIFO  *)
(* never cost the task an answer: no request fails and no packet is        *)
(* dropped as invalid.                                                     *)
NoAnswerLostByUs ==
  faults = 0 => pc \notin {"failed", "flush", "drain"} /\ last # "miss"

(* vmc_sc_comms.c, VMC_Recover_UART: whatever was lost, late or damaged,   *)
(* the link finds its way back, and every sensor message is stored again   *)
(* and again.                                                              *)
LinkRecovers == \A k \in SensorKinds \cup {"i2c"} : []<>(last = k)
=============================================================================
