----------------------------- MODULE ApuClient -----------------------------
(***************************************************************************)
(* The APU channel (common/cl_xgq_client.c): the main task probes it, the  *)
(* XGQ Program task downloads an xclbin over it in trunks, the XGQ Opcode  *)
(* task asks for the APU's status.  Requests go out on the SQ of one XGQ   *)
(* whose software state all three tasks share; a task polls the CQ for its *)
(* answer and gives up after APU_XGQ_TIMEOUT seconds.  The semaphore       *)
(* semaData covers the shared memory that trunks and log pages go through. *)
(*                                                                         *)
(* All requests carry the same command id, APU_MAGIC_ID: the id a request  *)
(* has here is not seen by the program.                                    *)
(***************************************************************************)
EXTENDS Integers, FiniteSets

CONSTANTS
  Trunks,   \* trunks of an xclbin
  N,        \* slots of the rings
  Ticks,    \* APU_XGQ_TIMEOUT, in polls
  MaxReqs,  \* requests that are sent at most
  Crowd     \* requests that are sent at most once two tasks have overlapped

ASSUME ApuAssumption ==
  /\ {Trunks, N, Ticks, MaxReqs} \subseteq Nat \ {0}
  /\ Crowd \in 0..MaxReqs

Clients    == {"main", "prog", "op"}
TrunkKinds == {"full", "last"}
Kinds      == TrunkKinds \cup {"identify", "info"}
NoOne      == "none"

(* An entry of the SQ, of the CQ (the answer to that request), or a slot   *)
(* whose first word read_completion has cleared.                           *)
Request == [id : 1..MaxReqs, kind : Kinds]
NoReq   == [id |-> 0, kind |-> "none"]

VARIABLES
  ready,   \* xgq_apu_ready
  sema,    \* the holder of semaData
  pc,      \* where each task is
  req,     \* the request it works on
  got,     \* the answer it has read
  ptr,     \* the pointer it has computed a slot address from
  tick,    \* the polls it has made
  left,    \* trunks of the download still to be sent
  batch,   \* the trunks sent for it
  result,  \* what rmgmt_apu_download_xclbin returned last
  sq,      \* SQ: xr_produced, the register, the APU's pointer, the slots
  cq,      \* CQ: xr_consumed, xr_produced, the two registers, the slots
  shm,     \* the request whose data is in the shared memory
  apu,     \* the request the APU works on
  overdue, \* a request has taken longer than APU_XGQ_TIMEOUT
  crowded, \* a task has begun to use the channel while another one did
  handled, \* the requests it has carried out on the data sent with them
  nextId

clientVars == <<ready, sema, left, batch, result>>
vars == <<ready, sema, pc, req, got, ptr, tick, left, batch, result, sq, cq, shm, apu, overdue, crowded, handled, nextId>>

Slots == [0..N-1 -> Request \cup {NoReq}]

Init ==
  /\ ready = FALSE /\ sema = NoOne
  /\ pc = [t \in Clients |-> IF t = "main" THEN "probe" ELSE "idle"]
  /\ req = [t \in Clients |-> NoReq] /\ got = [t \in Clients |-> NoReq]
  /\ ptr = [t \in Clients |-> 0] /\ tick = [t \in Clients |-> 0]
  /\ left = 0 /\ batch = {} /\ result = "none"
  /\ sq = [prod |-> 0, reg |-> 0, cons |-> 0, slot |-> [i \in 0..N-1 |-> NoReq]]
  /\ cq = [cons |-> 0, prod |-> 0, reg |-> 0, ack |-> 0, slot |-> [i \in 0..N-1 |-> NoReq]]
  /\ shm = 0 /\ apu = NoReq /\ overdue = FALSE /\ crowded = FALSE /\ handled = {} /\ nextId = 1

-----------------------------------------------------------------------------
(* The tasks                                                               *)

Goto(t, step) == pc' = [pc EXCEPT ![t] = step]

Alone(t) == \A u \in Clients \ {t} : pc[u] \in {"idle", "gone"}

(* cl_rmgmt_apu_channel_probe: the channel is marked ready as soon as the  *)
(* rings are attached, before the APU has identified itself.               *)
Probe ==
  /\ pc["main"] = "probe"
  /\ ready' = TRUE /\ sema' = "free"
  /\ Goto("main", "prepare")
  /\ UNCHANGED <<req, got, ptr, tick, left, batch, result, sq, cq, shm, apu, overdue, crowded, handled, nextId>>

(* The requests that may be sent, with and without tasks that overlap.     *)
Bound(overlap) == IF overlap THEN Crowd ELSE MaxReqs

(* rmgmt_apu_download_xclbin, and rmgmt_apu_status_query: an identify,     *)
(* then a log page.                                                        *)
Begin(t) ==
  /\ t # "main" /\ ready
  /\ pc[t] = "idle"
  /\ crowded' = (crowded \/ ~Alone(t))
  /\ nextId + (IF t = "prog" THEN Trunks ELSE 2) <= Bound(crowded') + 1
  /\ IF t = "prog"
     THEN Goto(t, "lock") /\ left' = Trunks /\ batch' = {} /\ result' = "none"
     ELSE Goto(t, "prepare") /\ UNCHANGED <<left, batch, result>>
  /\ req' = [req EXCEPT ![t] = NoReq]
  /\ UNCHANGED <<ready, sema, got, ptr, tick, sq, cq, shm, apu, overdue, handled, nextId>>

(* shm_acquire_data.                                                       *)
Acquire(t) ==
  /\ pc[t] = "lock"
  /\ sema = "free"
  /\ sema' = t
  /\ Goto(t, "prepare")
  /\ UNCHANGED <<ready, req, got, ptr, tick, left, batch, result, sq, cq, shm, apu, overdue, crowded, handled, nextId>>

KindNow(t) ==
  CASE t = "prog" -> IF left > 1 THEN "full" ELSE "last"
    [] t = "op" /\ req[t].kind = "identify" -> "info"
    [] OTHER -> "identify"

(* Seeded fault: the trunk is not copied.                                  *)
PrepareNoCopy(t) ==
  /\ pc[t] = "prepare"
  /\ nextId <= Bound(crowded)
  /\ req' = [req EXCEPT ![t] = [id |-> nextId, kind |-> KindNow(t)]]
  /\ nextId' = nextId + 1
  /\ batch' = IF t = "prog" THEN batch \cup {nextId} ELSE batch
  /\ Goto(t, "produce")
  /\ UNCHANGED <<ready, sema, got, ptr, tick, left, result, shm, sq, cq, apu, overdue, crowded, handled>>

(* The request is made up; a trunk is copied to the shared memory.  All    *)
(* but a log page test whether the channel is ready right before.          *)
Prepare(t) ==
  /\ pc[t] = "prepare"
  /\ ready \/ KindNow(t) = "info"
  /\ nextId <= Bound(crowded)
  /\ req' = [req EXCEPT ![t] = [id |-> nextId, kind |-> KindNow(t)]]
  /\ nextId' = nextId + 1
  /\ IF t = "prog"
     THEN shm' = nextId /\ batch' = batch \cup {nextId}
     ELSE UNCHANGED <<shm, batch>>
  /\ Goto(t, "produce")
  /\ UNCHANGED <<ready, sema, got, ptr, tick, left, result, sq, cq, apu, overdue, crowded, handled>>

(* Seeded fault: a task gives back a semaphore it does not hold.           *)
ReleaseAnyones(t) == sema' = IF sema = NoOne THEN NoOne ELSE "free"

Release(t) == sema' = IF sema = t THEN "free" ELSE sema

(* A request ends, well or not: the task goes on to its next one, or is    *)
(* done.  When the probe fails the semaphore is deleted.                   *)
End(t, ok) ==
  CASE t = "main" ->
         /\ Goto(t, "gone")
         /\ IF ok THEN UNCHANGED <<ready, sema>> ELSE ready' = FALSE /\ sema' = NoOne
         /\ UNCHANGED <<left, batch, result>>
    [] t = "prog" ->
         /\ left' = IF ok THEN left - 1 ELSE 0
         /\ IF ok /\ left > 1
            THEN Goto(t, "prepare") /\ UNCHANGED <<sema, result>>
            ELSE Goto(t, "idle") /\ Release(t) /\ result' = IF ok THEN "ok" ELSE "err"
         /\ UNCHANGED <<ready, batch>>
    [] t = "op" ->
         /\ Goto(t, IF req[t].kind = "identify" /\ ready THEN "lock" ELSE "idle")
         /\ Release(t)
         /\ UNCHANGED <<ready, left, batch, result>>

(* The channel is not ready any more: the probe has failed meanwhile.      *)
NotReady(t) ==
  /\ pc[t] = "prepare"
  /\ ~ready /\ KindNow(t) # "info"
  /\ End(t, FALSE)
  /\ UNCHANGED <<req, got, ptr, tick, sq, cq, shm, apu, overdue, crowded, handled, nextId>>

-----------------------------------------------------------------------------
(* xgq_produce, in two steps, the entry and xgq_notify_peer_produced.  The *)
(* pointers are not protected: a task that is preempted between reading    *)
(* and writing one may write what it has read plus 1, or read it again.    *)

ProduceSlot(t) ==
  /\ pc[t] = "produce"
  /\ IF sq.prod - sq.cons >= N
     THEN End(t, FALSE) /\ UNCHANGED ptr
     ELSE /\ ptr' = [ptr EXCEPT ![t] = sq.prod]
          /\ Goto(t, "produced")
          /\ UNCHANGED clientVars
  /\ UNCHANGED <<req, got, tick, sq, cq, shm, apu, overdue, crowded, handled, nextId>>

ProduceBump(t) ==
  /\ pc[t] = "produced"
  /\ \E p \in {ptr[t], sq.prod} : sq' = [sq EXCEPT !.prod = p + 1]
  /\ Goto(t, "fill")
  /\ UNCHANGED <<clientVars, req, got, ptr, tick, cq, shm, apu, overdue, crowded, handled, nextId>>

Fill(t) ==
  /\ pc[t] = "fill"
  /\ sq' = [sq EXCEPT !.slot[ptr[t] % N] = req[t]]
  /\ Goto(t, "notify")
  /\ UNCHANGED <<clientVars, req, got, ptr, tick, cq, shm, apu, overdue, crowded, handled, nextId>>

Notify(t) ==
  /\ pc[t] = "notify"
  /\ sq' = [sq EXCEPT !.reg = sq.prod]
  /\ tick' = [tick EXCEPT ![t] = 0]
  /\ Goto(t, "poll")
  /\ UNCHANGED <<clientVars, req, got, ptr, cq, shm, apu, overdue, crowded, handled, nextId>>

-----------------------------------------------------------------------------
(* The polling loop around xgq_consume, read_completion and the check of   *)
(* the completion.                                                         *)

Fresh == IF cq.prod = cq.cons THEN [cq EXCEPT !.prod = cq.reg] ELSE cq

PollSome(t) ==
  /\ pc[t] = "poll"
  /\ Fresh.prod # Fresh.cons
  /\ cq' = Fresh
  /\ ptr' = [ptr EXCEPT ![t] = cq.cons]
  /\ Goto(t, "consumed")
  /\ UNCHANGED <<clientVars, req, got, tick, sq, shm, apu, overdue, crowded, handled, nextId>>

(* A poll finds nothing: the APU is late when it is the last of Ticks.     *)
NothingYet(t) ==
  /\ pc[t] = "poll"
  /\ Fresh.prod = Fresh.cons
  /\ cq' = Fresh
  /\ overdue' = (overdue \/ tick[t] + 1 >= Ticks)

(* Seeded fault: the loop does not count its polls.                        *)
PollNoneForever(t) ==
  /\ NothingYet(t)
  /\ UNCHANGED <<clientVars, pc, tick, req, got, ptr, sq, shm, apu, crowded, handled, nextId>>

(* Seeded fault: the loop ends a poll early.                               *)
PollNoneGivesUp(t) ==
  /\ NothingYet(t)
  /\ IF tick[t] + 2 < Ticks
     THEN tick' = [tick EXCEPT ![t] = @ + 1] /\ UNCHANGED <<clientVars, pc>>
     ELSE tick' = [tick EXCEPT ![t] = 0] /\ End(t, FALSE)
  /\ UNCHANGED <<req, got, ptr, sq, shm, apu, crowded, handled, nextId>>

PollNone(t) ==
  /\ NothingYet(t)
  /\ IF tick[t] + 1 < Ticks
     THEN tick' = [tick EXCEPT ![t] = @ + 1] /\ UNCHANGED <<clientVars, pc>>
     ELSE tick' = [tick EXCEPT ![t] = 0] /\ End(t, FALSE)
  /\ UNCHANGED <<req, got, ptr, sq, shm, apu, crowded, handled, nextId>>

ConsumeBump(t) ==
  /\ pc[t] = "consumed"
  /\ \E p \in {ptr[t], cq.cons} : cq' = [cq EXCEPT !.cons = p + 1]
  /\ Goto(t, "read")
  /\ UNCHANGED <<clientVars, req, got, ptr, tick, sq, shm, apu, overdue, crowded, handled, nextId>>

ReadCompletion(t) ==
  /\ pc[t] = "read"
  /\ got' = [got EXCEPT ![t] = cq.slot[ptr[t] % N]]
  /\ cq' = [cq EXCEPT !.slot[ptr[t] % N] = NoReq]
  /\ Goto(t, "check")
  /\ UNCHANGED <<clientVars, req, ptr, tick, sq, shm, apu, overdue, crowded, handled, nextId>>

(* cq_cmd_complete_check cannot tell an answer from another; a trunk is    *)
(* also refused when the count in the answer is not its size.  An answer   *)
(* may also carry an error, or a version that is not supported.  Right or  *)
(* wrong, xgq_notify_peer_consumed gives the slot back.                    *)
Accepted(t) ==
  /\ got[t] # NoReq
  /\ req[t].kind \in TrunkKinds => got[t].kind = req[t].kind

Check(t) ==
  /\ pc[t] = "check"
  /\ \E ok \in {Accepted(t), FALSE} : End(t, ok)
  /\ cq' = [cq EXCEPT !.ack = cq.cons]
  /\ UNCHANGED <<req, got, ptr, tick, sq, shm, apu, overdue, crowded, handled, nextId>>

ClientStep(t) ==
  \/ Acquire(t) \/ Prepare(t) \/ NotReady(t)
  \/ ProduceSlot(t) \/ ProduceBump(t) \/ Fill(t) \/ Notify(t)
  \/ PollSome(t) \/ PollNone(t) \/ ConsumeBump(t) \/ ReadCompletion(t) \/ Check(t)

-----------------------------------------------------------------------------
(* The APU, the server of the XGQ                                          *)

ApuTake ==
  /\ apu = NoReq
  /\ sq.cons < sq.reg
  /\ apu' = sq.slot[sq.cons % N]
  /\ sq' = [sq EXCEPT !.cons = @ + 1]
  /\ UNCHANGED <<clientVars, pc, req, got, ptr, tick, cq, shm, overdue, crowded, handled, nextId>>

ApuAnswer ==
  /\ apu # NoReq
  /\ cq.reg - cq.ack < N
  /\ cq' = [cq EXCEPT !.reg = @ + 1, !.slot[cq.reg % N] = apu]
  /\ shm' = IF apu.kind = "info" THEN apu.id ELSE shm
  /\ handled' = IF apu.kind \in TrunkKinds /\ shm # apu.id THEN handled ELSE handled \cup {apu.id}
  /\ apu' = NoReq
  /\ UNCHANGED <<clientVars, pc, req, got, ptr, tick, sq, overdue, crowded, nextId>>

ApuStep == ApuTake \/ ApuAnswer

-----------------------------------------------------------------------------
(* All requests the bound allows have been sent.  A task that has begun    *)
(* while another one used the channel may also be left without a request,  *)
(* or waiting for the semaphore that a failed probe has deleted.           *)
Quiet ==
  /\ \A t \in Clients : pc[t] \in {"idle", "gone"} \cup (IF crowded THEN {"prepare", "lock"} ELSE {})
  /\ UNCHANGED vars

Next ==
  \/ Probe
  \/ \E t \in Clients : Begin(t) \/ ClientStep(t)
  \/ ApuStep
  \/ Quiet

Spec == Init /\ [][Next]_vars

(* The tasks of the firmware run; nothing is known of the APU.             *)
ClientSpec == Spec /\ \A t \in Clients : WF_vars(ClientStep(t))

-----------------------------------------------------------------------------
Pcs == {"probe", "idle", "gone", "lock", "prepare", "produce", "produced", "fill", "notify",
        "poll", "consumed", "read", "check"}

(* The type invariant of the APU channel.                                  *)
TypeOK ==
  /\ ready \in BOOLEAN
  /\ sema \in Clients \cup {"free", NoOne}
  /\ pc \in [Clients -> Pcs]
  /\ req \in [Clients -> Request \cup {NoReq}]
  /\ got \in [Clients -> Request \cup {NoReq}]
  /\ ptr \in [Clients -> Nat]
  /\ tick \in [Clients -> 0..Ticks-1]
  /\ left \in 0..Trunks
  /\ overdue \in BOOLEAN /\ crowded \in BOOLEAN
  /\ batch \subseteq 1..MaxReqs /\ handled \subseteq 1..MaxReqs
  /\ result \in {"none", "ok", "err"}
  /\ sq \in [prod : Nat, reg : Nat, cons : Nat, slot : Slots]
  /\ cq \in [cons : Nat, prod : Nat, reg : Nat, ack : Nat, slot : Slots]
  /\ shm \in 0..MaxReqs
  /\ apu \in Request \cup {NoReq}
  /\ nextId \in 1..MaxReqs + 1

(* No task has used the channel while another one did, and no request has  *)
(* taken longer than APU_XGQ_TIMEOUT.                                      *)
Calm == ~overdue /\ ~crowded

(* As long as the channel is calm, the answer a task accepts is the answer *)
(* to its own request: anything else is an "unknown completion xgq cmd".   *)
AnswerIsOwn ==
  Calm => \A t \in Clients : pc[t] = "check" /\ Accepted(t) => got[t].id = req[t].id

(* The shared memory has one user: between the first trunk and the last of *)
(* a download no log page goes through it, and the other way around, also  *)
(* when requests fail, time out or end with the channel given up.          *)
UsesShm(t) ==
  IF t = "prog" THEN pc[t] \notin {"idle", "lock"}
  ELSE IF pc[t] = "prepare" THEN KindNow(t) = "info"
  ELSE pc[t] # "idle" /\ req[t].kind = "info"
OneUserOfShm == ~(UsesShm("prog") /\ UsesShm("op"))

(* A download that returns 0 has put every trunk of the image through the  *)
(* APU, with the data of that trunk in the shared memory, as long as the   *)
(* channel is calm.                                                        *)
DownloadDelivered ==
  Calm /\ result = "ok" => batch \subseteq handled /\ Cardinality(batch) = Trunks

(* A task that has begun with the channel, and has it for itself, is done  *)
(* with it some day, even when the APU does not answer any more: the polls *)
(* are counted, and the semaphore is given back on every path.             *)
EveryRequestEnds ==
  \A t \in Clients : (pc[t] \notin {"probe", "idle"}) ~> (pc[t] \in {"idle", "gone"} \/ crowded)
=============================================================================
