-------------------------- MODULE ApuClientProofs --------------------------
(***************************************************************************)
(* Theorems about the APU channel, for every number of trunks, slots,      *)
(* polls and requests: the shared memory has one user, and as long as the  *)
(* tasks do not overlap and the APU is not late, an answer is the answer   *)
(* to the request and a download that returns 0 was carried out whole.     *)
(***************************************************************************)
EXTENDS ApuClient, FiniteSetTheorems, TLAPS

-----------------------------------------------------------------------------
(* The invariants                                                          *)

(* A download under way has a trunk left.                                  *)
LeftInv == pc["prog"] # "idle" => left >= 1

(* Nobody begins before the probe has made the semaphore.                  *)
NotBegun ==
  pc["main"] = "probe" =>
    /\ sema = NoOne /\ ~ready
    /\ pc["prog"] = "idle" /\ pc["op"] = "idle"
(* Whoever uses the shared memory holds the semaphore, or held it when a   *)
(* failed probe deleted it: then nobody gets it any more.                  *)
UserHoldsIt ==
  \A t \in {"prog", "op"} : UsesShm(t) => sema = t \/ (sema = NoOne /\ pc["main"] = "gone")
(* The opcode task waits for the semaphore after an identify alone.        *)
LockAfterIdentify == pc["op"] = "lock" => req["op"].kind = "identify"

ShmInv == NotBegun /\ UserHoldsIt /\ LockAfterIdentify /\ OneUserOfShm

Busy(t) == pc[t] \notin {"idle", "gone"}
(* One task at a time is in the channel.                                   *)
OneTask == \A t, u \in Clients : Busy(t) /\ Busy(u) => t = u

(* The rings hold no request and no answer.                                *)
Empty ==
  /\ sq.reg = sq.cons /\ apu = NoReq
  /\ cq.reg = cq.cons
(* The request of task t is in the SQ, with the APU, or answered.          *)
InSq(t)   == sq.reg = sq.cons + 1 /\ sq.slot[sq.cons % N] = req[t] /\ apu = NoReq /\ cq.reg = cq.cons
InApu(t)  == sq.reg = sq.cons /\ apu = req[t] /\ cq.reg = cq.cons
InCq(t)   == sq.reg = sq.cons /\ apu = NoReq /\ cq.reg = cq.cons + 1 /\ cq.slot[cq.cons % N] = req[t]

(* Where a task is, and with it the pointers of the rings and what they    *)
(* lead to.                                                                *)
MidPcs == {"produce", "produced", "fill", "notify", "poll", "consumed", "read", "check"}
At(t) ==
  /\ pc[t] \in MidPcs => req[t] # NoReq
  /\ pc[t] \in {"lock", "prepare", "produce", "probe"} => Empty /\ sq.prod = sq.reg
  /\ pc[t] = "produced" => Empty /\ sq.prod = sq.reg /\ ptr[t] = sq.prod
  /\ pc[t] = "fill"     => Empty /\ sq.prod = sq.reg + 1 /\ ptr[t] = sq.reg
  /\ pc[t] = "notify"   => Empty /\ sq.prod = sq.reg + 1 /\ sq.slot[sq.cons % N] = req[t]
  /\ pc[t] = "poll"     => sq.prod = sq.reg /\ (InSq(t) \/ InApu(t) \/ InCq(t))
  /\ pc[t] = "consumed" => sq.prod = sq.reg /\ InCq(t) /\ ptr[t] = cq.cons /\ cq.prod = cq.reg
  /\ pc[t] = "read"     => Empty /\ sq.prod = sq.reg /\ cq.slot[ptr[t] % N] = req[t]
  /\ pc[t] = "check"    => Empty /\ sq.prod = sq.reg /\ got[t] = req[t]

Calmly ==
  /\ OneTask
  /\ cq.prod \in {cq.cons, cq.reg}
  /\ \A t \in Clients : At(t)
  /\ (\A t \in Clients : ~Busy(t)) => Empty /\ sq.prod = sq.reg

(* The trunks sent so far, the one that is out among them, and what the    *)
(* APU has carried out.                                                    *)
Sent == pc["prog"] \in MidPcs
Delivered ==
  /\ batch \subseteq 1..nextId-1
  /\ pc["prog"] = "lock" => batch = {} /\ left = Trunks
  /\ pc["prog"] = "prepare" => batch \subseteq handled /\ Cardinality(batch) = Trunks - left
  /\ Sent =>
       /\ req["prog"].kind \in TrunkKinds
       /\ req["prog"].id \in batch
       /\ batch \ {req["prog"].id} \subseteq handled
       /\ Cardinality(batch) = Trunks - left + 1
       /\ shm = req["prog"].id
       /\ InCq("prog") \/ pc["prog"] \in {"read", "check"} => req["prog"].id \in handled
  /\ result = "ok" => pc["prog"] = "idle" /\ batch \subseteq handled /\ Cardinality(batch) = Trunks

CalmInv == Calm => Calmly /\ Delivered

-----------------------------------------------------------------------------
(* Type correctness                                                        *)

(* The parameters are numbers.                                             *)
LEMMA Numbers ==
  /\ Trunks \in Nat \ {0} /\ N \in Nat \ {0} /\ Ticks \in Nat \ {0} /\ MaxReqs \in Nat \ {0}
  /\ Crowd \in Nat /\ Crowd <= MaxReqs
BY ApuAssumption

(* A request of the main task ends: it is gone, and when it failed so is   *)
(* the channel.                                                            *)
LEMMA EndMain ==
  ASSUME NEW ok \in BOOLEAN, End("main", ok)
  PROVE  /\ pc' = [pc EXCEPT !["main"] = "gone"] /\ UNCHANGED <<left, batch, result>>
         /\ ok => UNCHANGED <<ready, sema>>
         /\ ~ok => ready' = FALSE /\ sema' = NoOne
BY DEF End, Goto

(* A trunk ends: the download goes on, or it is over.                      *)
LEMMA EndProg ==
  ASSUME NEW ok \in BOOLEAN, End("prog", ok)
  PROVE  /\ batch' = batch /\ ready' = ready
         /\ left' = IF ok THEN left - 1 ELSE 0
         /\ \/ /\ ok /\ left > 1 /\ pc' = [pc EXCEPT !["prog"] = "prepare"]
               /\ UNCHANGED <<sema, result>>
            \/ /\ ~(ok /\ left > 1) /\ pc' = [pc EXCEPT !["prog"] = "idle"]
               /\ Release("prog") /\ result' = IF ok THEN "ok" ELSE "err"
BY DEF End, Goto

(* A request of the opcode task ends: after an identify it waits for the   *)
(* semaphore.                                                              *)
LEMMA EndOp ==
  ASSUME NEW ok \in BOOLEAN, End("op", ok)
  PROVE  /\ UNCHANGED <<ready, left, batch, result>> /\ Release("op")
         /\ \/ pc' = [pc EXCEPT !["op"] = "lock"] /\ req["op"].kind = "identify" /\ ready
            \/ pc' = [pc EXCEPT !["op"] = "idle"]
BY DEF End, Goto

(* The end of a request keeps the types of what it changes.                *)
LEMMA EndType ==
  ASSUME TypeOK, LeftInv, NEW t \in Clients, pc[t] # "idle", NEW ok \in BOOLEAN, End(t, ok)
  PROVE  /\ ready' \in BOOLEAN /\ sema' \in Clients \cup {"free", NoOne}
         /\ pc' \in [Clients -> Pcs] /\ left' \in 0..Trunks
         /\ batch' \subseteq 1..MaxReqs /\ result' \in {"none", "ok", "err"}
         /\ LeftInv'
<1>0. left \in 0..Trunks /\ Trunks \in Nat \ {0} /\ pc \in [Clients -> Pcs] /\ Clients = {"main", "prog", "op"}
  BY ApuAssumption DEF TypeOK, Clients
<1>1. CASE t = "main"
  <2>1. End("main", ok)
    BY <1>1
  <2>2. pc' = [pc EXCEPT !["main"] = "gone"] /\ UNCHANGED <<left, batch, result>>
    BY <2>1, EndMain
  <2>3. ready' \in BOOLEAN /\ sema' \in Clients \cup {"free", NoOne}
    BY <2>1, EndMain DEF TypeOK
  <2>4. LeftInv'
    BY <1>0, <2>2 DEF LeftInv
  <2> QED
    BY <1>0, <2>2, <2>3, <2>4 DEF TypeOK, Pcs
<1>2. CASE t = "prog"
  <2>1. End("prog", ok)
    BY <1>2
  <2>2. left >= 1
    BY <1>2 DEF LeftInv
  <2>3. batch' = batch /\ ready' = ready /\ left' = IF ok THEN left - 1 ELSE 0
    BY <2>1, EndProg
  <2>4. /\ sema' \in Clients \cup {"free", NoOne} /\ result' \in {"none", "ok", "err"}
        /\ pc' \in [Clients -> Pcs]
    <3>1. sema' = sema \/ sema' = "free"
      BY <2>1, EndProg DEF Release
    <3>2. result' = result \/ result' \in {"ok", "err"}
      BY <2>1, EndProg
    <3>3. pc' = [pc EXCEPT !["prog"] = "prepare"] \/ pc' = [pc EXCEPT !["prog"] = "idle"]
      BY <2>1, EndProg
    <3> QED
      BY <1>0, <3>1, <3>2, <3>3 DEF TypeOK, Pcs
  <2>5. LeftInv'
    <3>1. \/ ok /\ left > 1
          \/ pc' = [pc EXCEPT !["prog"] = "idle"]
      BY <2>1, EndProg
    <3> QED
      BY <1>0, <2>3, <3>1 DEF LeftInv
  <2>6. left' \in 0..Trunks
    BY <1>0, <2>2, <2>3
  <2> QED
    BY <2>3, <2>4, <2>5, <2>6 DEF TypeOK
<1>3. CASE t = "op"
  <2>1. End("op", ok)
    BY <1>3
  <2>2. UNCHANGED <<ready, left, batch, result>>
    BY <2>1, EndOp
  <2>3. sema' = sema \/ sema' = "free"
    BY <2>1, EndOp DEF Release
  <2>4. pc' = [pc EXCEPT !["op"] = "lock"] \/ pc' = [pc EXCEPT !["op"] = "idle"]
    BY <2>1, EndOp
  <2>5. LeftInv'
    BY <1>0, <2>2, <2>4 DEF LeftInv
  <2> QED
    BY <1>0, <2>2, <2>3, <2>4, <2>5 DEF TypeOK, Pcs
<1> QED
  BY <1>1, <1>2, <1>3 DEF Clients

(* A task that goes on within its request keeps what a download has left.  *)
LEMMA LeftGoes ==
  ASSUME TypeOK, LeftInv, NEW t \in Clients, pc[t] # "idle", NEW p \in Pcs,
         pc' = [pc EXCEPT ![t] = p], left' = left
  PROVE  pc' \in [Clients -> Pcs] /\ LeftInv'
BY DEF TypeOK, LeftInv

(* The request a task makes up has the id that comes next.                 *)
LEMMA KindType ==
  ASSUME NEW t \in Clients
  PROVE  KindNow(t) \in Kinds
BY DEF KindNow, Kinds, TrunkKinds

(* The steps of a task that begins, waits, or prepares a request.          *)
LEMMA TypePrepare ==
  ASSUME TypeOK, LeftInv, NEW t \in Clients,
         Begin(t) \/ Acquire(t) \/ Prepare(t) \/ NotReady(t)
  PROVE  TypeOK' /\ LeftInv'
<1> USE ApuAssumption DEF Goto
<1>1. CASE Begin(t)
  <2>1. \E p \in {"lock", "prepare"} : pc' = [pc EXCEPT ![t] = p]
    BY <1>1 DEF Begin
  <2>2. pc' \in [Clients -> Pcs]
    BY <2>1 DEF TypeOK, Pcs
  <2>3. left' \in 0..Trunks /\ batch' \subseteq 1..MaxReqs /\ result' \in {"none", "ok", "err"}
    <3>1. \/ left' = left /\ batch' = batch /\ result' = result
          \/ left' = Trunks /\ batch' = {} /\ result' = "none"
      BY <1>1 DEF Begin
    <3>2. Trunks \in 0..Trunks
      BY Numbers
    <3> QED
      BY <3>1, <3>2 DEF TypeOK
  <2>4. LeftInv'
    <3>1. CASE t = "prog"
      BY <1>1, <3>1 DEF Begin, LeftInv
    <3>2. CASE t # "prog"
      BY <1>1, <2>1, <3>2 DEF Begin, LeftInv, TypeOK, Clients
    <3> QED
      BY <3>1, <3>2
  <2>5. req' \in [Clients -> Request \cup {NoReq}] /\ crowded' \in BOOLEAN
    BY <1>1 DEF Begin, TypeOK, Alone
  <2>6. UNCHANGED <<ready, sema, got, ptr, tick, sq, cq, shm, apu, overdue, handled, nextId>>
    BY <1>1 DEF Begin
  <2> QED
    BY <2>2, <2>3, <2>4, <2>5, <2>6 DEF TypeOK
<1>2. CASE Acquire(t)
  <2>1. pc[t] = "lock" /\ pc' = [pc EXCEPT ![t] = "prepare"] /\ left' = left
    BY <1>2 DEF Acquire
  <2>2. pc' \in [Clients -> Pcs] /\ LeftInv'
    BY <2>1, LeftGoes DEF Pcs
  <2> QED
    BY <1>2, <2>2 DEF Acquire, TypeOK
<1>3. CASE Prepare(t)
  <2>1. pc[t] = "prepare" /\ pc' = [pc EXCEPT ![t] = "produce"] /\ left' = left
    BY <1>3 DEF Prepare
  <2>2. pc' \in [Clients -> Pcs] /\ LeftInv'
    BY <2>1, LeftGoes DEF Pcs
  <2>3. nextId \in 1..MaxReqs
    BY <1>3 DEF Prepare, Bound, TypeOK
  <2>4. req' \in [Clients -> Request \cup {NoReq}]
    <3>1. [id |-> nextId, kind |-> KindNow(t)] \in Request
      BY <2>3, KindType DEF Request
    <3> QED
      BY <1>3, <3>1 DEF Prepare, TypeOK
  <2>5. nextId' \in 1..MaxReqs + 1 /\ shm' \in 0..MaxReqs /\ batch' \subseteq 1..MaxReqs
    <3>1. nextId' = nextId + 1 /\ MaxReqs \in Nat
      BY <1>3 DEF Prepare
    <3>2. shm' = nextId \/ shm' = shm
      BY <1>3 DEF Prepare
    <3>3. batch' = batch \cup {nextId} \/ batch' = batch
      BY <1>3 DEF Prepare
    <3>4. shm \in 0..MaxReqs /\ batch \subseteq 1..MaxReqs
      BY DEF TypeOK
    <3>5. nextId' \in 1..MaxReqs + 1
      BY <2>3, <3>1
    <3>6. shm' \in 0..MaxReqs
      BY <2>3, <3>1, <3>2, <3>4
    <3>7. batch' \subseteq 1..MaxReqs
      BY <2>3, <3>3, <3>4
    <3> QED
      BY <3>5, <3>6, <3>7
  <2>6. UNCHANGED <<ready, sema, got, ptr, tick, left, result, sq, cq, apu, overdue, crowded, handled>>
    BY <1>3 DEF Prepare
  <2> QED
    BY <2>2, <2>4, <2>5, <2>6 DEF TypeOK
<1>4. CASE NotReady(t)
  <2>1. pc[t] # "idle" /\ End(t, FALSE)
    BY <1>4 DEF NotReady
  <2>2. UNCHANGED <<req, got, ptr, tick, sq, cq, shm, apu, overdue, crowded, handled, nextId>>
    BY <1>4 DEF NotReady
  <2>3. /\ ready' \in BOOLEAN /\ sema' \in Clients \cup {"free", NoOne}
        /\ pc' \in [Clients -> Pcs] /\ left' \in 0..Trunks
        /\ batch' \subseteq 1..MaxReqs /\ result' \in {"none", "ok", "err"}
        /\ LeftInv'
    BY <2>1, EndType
  <2> QED
    BY <2>2, <2>3 DEF TypeOK
<1> QED
  BY <1>1, <1>2, <1>3, <1>4

(* The slot of a pointer is one of the ring.                               *)
LEMMA SlotType == \A p \in Nat : (p % N) \in 0..N-1
BY ApuAssumption

(* The steps of a task that sends its request.                             *)
LEMMA TypeProduce ==
  ASSUME TypeOK, LeftInv, NEW t \in Clients,
         ProduceSlot(t) \/ ProduceBump(t) \/ Fill(t) \/ Notify(t)
  PROVE  TypeOK' /\ LeftInv'
<1> USE ApuAssumption DEF Goto, clientVars
<1>0. ptr[t] \in Nat /\ sq \in [prod : Nat, reg : Nat, cons : Nat, slot : Slots] /\ req[t] \in Request \cup {NoReq}
  BY DEF TypeOK
<1>1. CASE ProduceSlot(t)
  <2>1. pc[t] = "produce" /\ UNCHANGED <<req, got, tick, sq, cq, shm, apu, overdue, crowded, handled, nextId>>
    BY <1>1 DEF ProduceSlot
  <2>2. CASE End(t, FALSE) /\ UNCHANGED ptr
    <3>1. /\ ready' \in BOOLEAN /\ sema' \in Clients \cup {"free", NoOne}
          /\ pc' \in [Clients -> Pcs] /\ left' \in 0..Trunks
          /\ batch' \subseteq 1..MaxReqs /\ result' \in {"none", "ok", "err"}
          /\ LeftInv'
      BY <2>1, <2>2, EndType
    <3> QED
      BY <2>1, <2>2, <3>1 DEF TypeOK
  <2>3. CASE ptr' = [ptr EXCEPT ![t] = sq.prod] /\ Goto(t, "produced") /\ UNCHANGED clientVars
    <3>1. pc' \in [Clients -> Pcs] /\ LeftInv'
      BY <2>1, <2>3, LeftGoes DEF Pcs
    <3>2. ptr' \in [Clients -> Nat]
      BY <2>3 DEF TypeOK
    <3> QED
      BY <2>1, <2>3, <3>1, <3>2 DEF TypeOK
  <2> QED
    BY <1>1, <2>2, <2>3 DEF ProduceSlot
<1>2. CASE ProduceBump(t)
  <2>1. pc' \in [Clients -> Pcs] /\ LeftInv'
    BY <1>2, LeftGoes DEF Pcs, ProduceBump
  <2>2. sq' \in [prod : Nat, reg : Nat, cons : Nat, slot : Slots]
    BY <1>0, <1>2 DEF ProduceBump
  <2> QED
    BY <1>2, <2>1, <2>2 DEF ProduceBump, TypeOK
<1>3. CASE Fill(t)
  <2>1. pc' \in [Clients -> Pcs] /\ LeftInv'
    BY <1>3, LeftGoes DEF Pcs, Fill
  <2>2. sq' \in [prod : Nat, reg : Nat, cons : Nat, slot : Slots]
    <3>1. [sq.slot EXCEPT ![ptr[t] % N] = req[t]] \in Slots
      BY <1>0 DEF Slots
    <3>2. sq' = [sq EXCEPT !.slot = [sq.slot EXCEPT ![ptr[t] % N] = req[t]]]
      BY <1>0, <1>3 DEF Fill
    <3> QED
      BY <1>0, <3>1, <3>2
  <2> QED
    BY <1>3, <2>1, <2>2 DEF Fill, TypeOK
<1>4. CASE Notify(t)
  <2>1. pc' \in [Clients -> Pcs] /\ LeftInv'
    BY <1>4, LeftGoes DEF Pcs, Notify
  <2>2. sq' \in [prod : Nat, reg : Nat, cons : Nat, slot : Slots]
    BY <1>0, <1>4 DEF Notify
  <2>3. tick' \in [Clients -> 0..Ticks-1]
    BY <1>4 DEF Notify, TypeOK
  <2> QED
    BY <1>4, <2>1, <2>2, <2>3 DEF Notify, TypeOK
<1> QED
  BY <1>1, <1>2, <1>3, <1>4

(* The steps of a task that waits for its answer.                          *)
LEMMA TypePoll ==
  ASSUME TypeOK, LeftInv, NEW t \in Clients,
         PollSome(t) \/ PollNone(t) \/ ConsumeBump(t) \/ ReadCompletion(t) \/ Check(t)
  PROVE  TypeOK' /\ LeftInv'
<1> USE ApuAssumption DEF Goto, clientVars
<1> DEFINE CqType == [cons : Nat, prod : Nat, reg : Nat, ack : Nat, slot : Slots]
<1>0. /\ ptr[t] \in Nat /\ cq \in CqType /\ Fresh \in CqType /\ tick[t] \in 0..Ticks-1
  BY DEF TypeOK, Fresh
<1>1. CASE PollSome(t)
  <2>1. pc' \in [Clients -> Pcs] /\ LeftInv'
    BY <1>1, LeftGoes DEF Pcs, PollSome
  <2>2. cq' \in CqType /\ ptr' \in [Clients -> Nat]
    BY <1>0, <1>1 DEF PollSome, TypeOK
  <2> QED
    BY <1>1, <2>1, <2>2 DEF PollSome, TypeOK
<1>2. CASE PollNone(t)
  <2>1. cq' \in CqType /\ overdue' \in BOOLEAN /\ pc[t] = "poll"
    BY <1>0, <1>2 DEF PollNone, NothingYet, TypeOK
  <2>2. UNCHANGED <<req, got, ptr, sq, shm, apu, crowded, handled, nextId>>
    BY <1>2 DEF PollNone
  <2>3. CASE tick[t] + 1 < Ticks
    <3>1. tick' = [tick EXCEPT ![t] = @ + 1] /\ UNCHANGED <<clientVars, pc>>
      BY <1>2, <2>3 DEF PollNone
    <3>2. tick' \in [Clients -> 0..Ticks-1]
      BY <1>0, <2>3, <3>1 DEF TypeOK
    <3> QED
      BY <2>1, <2>2, <3>1, <3>2 DEF TypeOK, LeftInv
  <2>4. CASE ~(tick[t] + 1 < Ticks)
    <3>1. tick' = [tick EXCEPT ![t] = 0] /\ End(t, FALSE)
      BY <1>2, <2>4 DEF PollNone
    <3>2. tick' \in [Clients -> 0..Ticks-1]
      BY <3>1 DEF TypeOK
    <3>3. /\ ready' \in BOOLEAN /\ sema' \in Clients \cup {"free", NoOne}
          /\ pc' \in [Clients -> Pcs] /\ left' \in 0..Trunks
          /\ batch' \subseteq 1..MaxReqs /\ result' \in {"none", "ok", "err"}
          /\ LeftInv'
      BY <2>1, <3>1, EndType
    <3> QED
      BY <2>1, <2>2, <3>2, <3>3 DEF TypeOK
  <2> QED
    BY <2>3, <2>4
<1>3. CASE ConsumeBump(t)
  <2>1. pc' \in [Clients -> Pcs] /\ LeftInv'
    BY <1>3, LeftGoes DEF Pcs, ConsumeBump
  <2>2. cq' \in CqType
    BY <1>0, <1>3 DEF ConsumeBump
  <2> QED
    BY <1>3, <2>1, <2>2 DEF ConsumeBump, TypeOK
<1>4. CASE ReadCompletion(t)
  <2>1. pc' \in [Clients -> Pcs] /\ LeftInv'
    BY <1>4, LeftGoes DEF Pcs, ReadCompletion
  <2>2. cq.slot[ptr[t] % N] \in Request \cup {NoReq}
    BY <1>0, SlotType DEF Slots
  <2>3. got' \in [Clients -> Request \cup {NoReq}]
    BY <1>4, <2>2 DEF ReadCompletion, TypeOK
  <2>4. cq' \in CqType
    <3>1. [cq.slot EXCEPT ![ptr[t] % N] = NoReq] \in Slots
      BY <1>0 DEF Slots
    <3>2. cq' = [cq EXCEPT !.slot = [cq.slot EXCEPT ![ptr[t] % N] = NoReq]]
      BY <1>0, <1>4 DEF ReadCompletion
    <3> QED
      BY <1>0, <3>1, <3>2
  <2> QED
    BY <1>4, <2>1, <2>3, <2>4 DEF ReadCompletion, TypeOK
<1>5. CASE Check(t)
  <2>1. PICK ok \in BOOLEAN : End(t, ok)
    <3>1. Accepted(t) \in BOOLEAN
      BY DEF Accepted
    <3> QED
      BY <1>5, <3>1 DEF Check
  <2>2. /\ ready' \in BOOLEAN /\ sema' \in Clients \cup {"free", NoOne}
        /\ pc' \in [Clients -> Pcs] /\ left' \in 0..Trunks
        /\ batch' \subseteq 1..MaxReqs /\ result' \in {"none", "ok", "err"}
        /\ LeftInv'
    BY <1>5, <2>1, EndType DEF Check
  <2>3. cq' \in CqType
    BY <1>0, <1>5 DEF Check
  <2> QED
    BY <1>5, <2>2, <2>3 DEF Check, TypeOK
<1> QED
  BY <1>1, <1>2, <1>3, <1>4, <1>5

(* The steps of the probe and of the APU.                                  *)
LEMMA TypeApu ==
  ASSUME TypeOK, LeftInv, Probe \/ ApuTake \/ ApuAnswer
  PROVE  TypeOK' /\ LeftInv'
<1> USE ApuAssumption DEF Goto, clientVars
<1>1. CASE Probe
  BY <1>1, LeftGoes DEF Probe, TypeOK, Pcs, Clients
<1>2. CASE ApuTake
  <2>1. sq \in [prod : Nat, reg : Nat, cons : Nat, slot : Slots]
    BY DEF TypeOK
  <2>2. sq.slot[sq.cons % N] \in Request \cup {NoReq}
    BY <2>1, SlotType DEF Slots
  <2>3. sq' \in [prod : Nat, reg : Nat, cons : Nat, slot : Slots]
    BY <1>2, <2>1 DEF ApuTake
  <2> QED
    BY <1>2, <2>2, <2>3 DEF ApuTake, TypeOK, LeftInv
<1>3. CASE ApuAnswer
  <2>1. /\ cq \in [cons : Nat, prod : Nat, reg : Nat, ack : Nat, slot : Slots]
        /\ apu \in Request
    BY <1>3 DEF ApuAnswer, TypeOK
  <2>2. cq' \in [cons : Nat, prod : Nat, reg : Nat, ack : Nat, slot : Slots]
    <3>1. [cq.slot EXCEPT ![cq.reg % N] = apu] \in Slots
      BY <2>1 DEF Slots
    <3>2. cq' = [cq EXCEPT !.reg = cq.reg + 1, !.slot = [cq.slot EXCEPT ![cq.reg % N] = apu]]
      BY <1>3, <2>1 DEF ApuAnswer
    <3>3. cq.reg + 1 \in Nat
      BY <2>1
    <3>4. ASSUME NEW s \in Slots, NEW n \in Nat
          PROVE  [cq EXCEPT !.reg = n, !.slot = s] \in [cons : Nat, prod : Nat, reg : Nat, ack : Nat, slot : Slots]
      BY <2>1
    <3> HIDE DEF Slots
    <3> QED
      BY <3>1, <3>2, <3>3, <3>4
  <2>3. shm' \in 0..MaxReqs /\ handled' \subseteq 1..MaxReqs /\ apu' = NoReq
    BY <1>3, <2>1 DEF ApuAnswer, TypeOK, Request
  <2>4. UNCHANGED <<clientVars, pc, req, got, ptr, tick, sq, overdue, crowded, nextId>>
    BY <1>3 DEF ApuAnswer
  <2> QED
    BY <2>2, <2>3, <2>4 DEF TypeOK, LeftInv
<1> QED
  BY <1>1, <1>2, <1>3

(* Every step keeps the types.                                             *)
LEMMA TypeStep == TypeOK /\ LeftInv /\ [Next]_vars => TypeOK' /\ LeftInv'
<1> SUFFICES ASSUME TypeOK, LeftInv, [Next]_vars PROVE TypeOK' /\ LeftInv'
  OBVIOUS
<1>1. CASE UNCHANGED vars
  BY <1>1 DEF vars, TypeOK, LeftInv
<1> QED
  BY <1>1, TypePrepare, TypeProduce, TypePoll, TypeApu DEF Next, ClientStep, ApuStep, Quiet

(* The channel before the probe is well typed.                             *)
LEMMA TypeInit == Init => TypeOK /\ LeftInv
<1> SUFFICES ASSUME Init PROVE TypeOK /\ LeftInv
  OBVIOUS
<1> USE Numbers DEF Init
<1>1. /\ ready \in BOOLEAN /\ sema \in Clients \cup {"free", NoOne}
      /\ batch \subseteq 1..MaxReqs /\ handled \subseteq 1..MaxReqs
      /\ overdue \in BOOLEAN /\ crowded \in BOOLEAN
      /\ result \in {"none", "ok", "err"} /\ apu \in Request \cup {NoReq}
  OBVIOUS
<1>6. left \in 0..Trunks /\ shm \in 0..MaxReqs /\ nextId \in 1..MaxReqs + 1
  <2>1. left = 0 /\ shm = 0 /\ nextId = 1
    OBVIOUS
  <2> QED
    BY <2>1, Numbers
<1>2. /\ pc \in [Clients -> Pcs] /\ req \in [Clients -> Request \cup {NoReq}]
      /\ got \in [Clients -> Request \cup {NoReq}] /\ ptr \in [Clients -> Nat]
      /\ tick \in [Clients -> 0..Ticks-1]
  BY DEF Pcs
<1>3. [i \in 0..N-1 |-> NoReq] \in Slots
  BY DEF Slots
<1>4. /\ sq \in [prod : Nat, reg : Nat, cons : Nat, slot : Slots]
      /\ cq \in [cons : Nat, prod : Nat, reg : Nat, ack : Nat, slot : Slots]
  BY <1>3
<1>5. LeftInv
  BY DEF LeftInv, Clients
<1> QED
  BY <1>1, <1>2, <1>4, <1>5, <1>6 DEF TypeOK

-----------------------------------------------------------------------------
(* One user of the shared memory                                           *)

(* The opcode task uses the shared memory from when it has the semaphore   *)
(* until the log page it asks for is there.                                *)
LEMMA UsesOp ==
  UsesShm("op") <=> \/ pc["op"] = "prepare" /\ req["op"].kind = "identify"
                    \/ pc["op"] \notin {"prepare", "idle"} /\ req["op"].kind = "info"
BY DEF UsesShm, KindNow

(* The XGQ Program task uses it for as long as it has the semaphore.       *)
LEMMA UsesProg == UsesShm("prog") <=> pc["prog"] \notin {"idle", "lock"}
BY DEF UsesShm

(* ShmInv in terms of where the tasks are.                                 *)
LEMMA ShmIs ==
  ShmInv <=>
    LET usesProg == pc["prog"] \notin {"idle", "lock"}
        usesOp   == \/ pc["op"] = "prepare" /\ req["op"].kind = "identify"
                    \/ pc["op"] \notin {"prepare", "idle"} /\ req["op"].kind = "info"
        lost     == sema = NoOne /\ pc["main"] = "gone"
    IN /\ pc["main"] = "probe" =>
            sema = NoOne /\ ~ready /\ pc["prog"] = "idle" /\ pc["op"] = "idle"
       /\ usesProg => sema = "prog" \/ lost
       /\ usesOp => sema = "op" \/ lost
       /\ pc["op"] = "lock" => req["op"].kind = "identify"
       /\ ~(usesProg /\ usesOp)
BY UsesOp, UsesProg DEF ShmInv, NotBegun, UserHoldsIt, LockAfterIdentify, OneUserOfShm

(* A step within a request keeps ShmInv.                                   *)
LEMMA ShmGoes ==
  ASSUME TypeOK, ShmInv, NEW t \in Clients, pc[t] \in MidPcs, NEW p \in MidPcs,
         pc' = [pc EXCEPT ![t] = p], UNCHANGED <<req, sema, ready>>
  PROVE  ShmInv'
<1>1. pc \in [Clients -> Pcs] /\ Clients = {"main", "prog", "op"}
  BY DEF TypeOK, Clients
<1> QED
  BY <1>1, ShmIs DEF MidPcs, ShmInv, NotBegun, UserHoldsIt, LockAfterIdentify, OneUserOfShm, UsesShm, KindNow

(* A request that ends gives the semaphore back when it is over, and only  *)
(* when it has it.                                                         *)
LEMMA ShmEnd ==
  ASSUME TypeOK, ShmInv, NEW t \in Clients, pc[t] \in MidPcs \cup {"prepare"},
         NEW ok \in BOOLEAN, End(t, ok), req' = req
  PROVE  ShmInv'
<1> DEFINE usesProg == pc["prog"] \notin {"idle", "lock"}
           usesOp   == \/ pc["op"] = "prepare" /\ req["op"].kind = "identify"
                       \/ pc["op"] \notin {"prepare", "idle"} /\ req["op"].kind = "info"
           lost     == sema = NoOne /\ pc["main"] = "gone"
           Shm == /\ pc["main"] = "probe" =>
                       sema = NoOne /\ ~ready /\ pc["prog"] = "idle" /\ pc["op"] = "idle"
                  /\ usesProg => sema = "prog" \/ lost
                  /\ usesOp => sema = "op" \/ lost
                  /\ pc["op"] = "lock" => req["op"].kind = "identify"
                  /\ ~(usesProg /\ usesOp)
<1>0. pc \in [Clients -> Pcs] /\ Clients = {"main", "prog", "op"}
  BY DEF TypeOK, Clients
<1>1. Shm
  BY ShmIs
<1>2. CASE t = "main"
  <2>1. End("main", ok)
    BY <1>2
  <2>2. pc' = [pc EXCEPT !["main"] = "gone"] /\ (sema' = sema \/ sema' = NoOne)
    BY <2>1, EndMain
  <2>3. pc["main"] \notin {"gone", "probe"}
    BY <1>2 DEF MidPcs
  <2>4. /\ pc'["main"] = "gone" /\ pc'["prog"] = pc["prog"] /\ pc'["op"] = pc["op"]
        /\ req'["op"] = req["op"]
    BY <1>0, <2>2
  <2>5. ASSUME sema' = sema PROVE Shm'
    BY <1>1, <2>3, <2>4, <2>5
  <2>6. ASSUME sema' = NoOne PROVE Shm'
    BY <1>1, <2>3, <2>4, <2>6
  <2>7. Shm'
    BY <2>2, <2>5, <2>6
  <2> QED
    BY <2>7, ShmIs, PTL
<1>3. CASE t = "prog"
  <2>1. End("prog", ok)
    BY <1>3
  <2>2. pc["prog"] \notin {"idle", "lock"}
    BY <1>3 DEF MidPcs
  <2>3. \/ pc' = [pc EXCEPT !["prog"] = "prepare"] /\ sema' = sema
        \/ pc' = [pc EXCEPT !["prog"] = "idle"] /\ sema' = IF sema = "prog" THEN "free" ELSE sema
    BY <2>1, EndProg DEF Release
  <2>4. /\ pc'["main"] = pc["main"] /\ pc'["op"] = pc["op"] /\ req'["op"] = req["op"]
        /\ ready' = ready
    BY <1>0, <2>1, <2>3, EndProg
  <2>5. \/ pc'["prog"] = "prepare" /\ sema' = sema
        \/ pc'["prog"] = "idle" /\ sema' = IF sema = "prog" THEN "free" ELSE sema
    BY <1>0, <2>3
  <2>6. "prog" # NoOne /\ "op" # "prog"
    BY DEF NoOne
  <2>7. Shm'
    BY <1>1, <2>2, <2>4, <2>5, <2>6
  <2> QED
    BY <2>7, ShmIs, PTL
<1>4. CASE t = "op"
  <2>1. End("op", ok)
    BY <1>4
  <2>2. pc["op"] \notin {"idle", "lock"}
    BY <1>4 DEF MidPcs
  <2>3. /\ sema' = IF sema = "op" THEN "free" ELSE sema
        /\ \/ pc' = [pc EXCEPT !["op"] = "lock"] /\ req["op"].kind = "identify"
           \/ pc' = [pc EXCEPT !["op"] = "idle"]
    BY <2>1, EndOp DEF Release
  <2>4. /\ pc'["main"] = pc["main"] /\ pc'["prog"] = pc["prog"] /\ req' = req
        /\ ready' = ready
    BY <1>0, <2>1, <2>3, EndOp
  <2>5. \/ pc'["op"] = "lock" /\ req["op"].kind = "identify"
        \/ pc'["op"] = "idle"
    BY <1>0, <2>3
  <2>6. "op" # NoOne /\ "op" # "prog" /\ "info" # "identify"
    BY DEF NoOne
  <2>7. ~usesOp'
    BY <2>4, <2>5, <2>6
  <2>8. pc["prog"] \notin {"idle", "lock"} => sema' = "prog" \/ (sema' = NoOne /\ pc'["main"] = "gone")
    BY <1>1, <2>3, <2>4, <2>6
  <2>9. pc["main"] # "probe"
    BY <1>1, <2>2
  <2>10. Shm'
    BY <2>4, <2>5, <2>7, <2>8, <2>9
  <2> QED
    BY <2>10, ShmIs, PTL
<1> QED
  BY <1>2, <1>3, <1>4 DEF Clients

(* Every step keeps ShmInv: the semaphore is taken by one task at a time,  *)
(* and once a failed probe has deleted it by none.                         *)
LEMMA ShmStep == TypeOK /\ ShmInv /\ [Next]_vars => ShmInv'
<1> SUFFICES ASSUME TypeOK, ShmInv, [Next]_vars PROVE ShmInv'
  OBVIOUS
<1> DEFINE usesProg == pc["prog"] \notin {"idle", "lock"}
           usesOp   == \/ pc["op"] = "prepare" /\ req["op"].kind = "identify"
                       \/ pc["op"] \notin {"prepare", "idle"} /\ req["op"].kind = "info"
           lost     == sema = NoOne /\ pc["main"] = "gone"
           Shm == /\ pc["main"] = "probe" =>
                       sema = NoOne /\ ~ready /\ pc["prog"] = "idle" /\ pc["op"] = "idle"
                  /\ usesProg => sema = "prog" \/ lost
                  /\ usesOp => sema = "op" \/ lost
                  /\ pc["op"] = "lock" => req["op"].kind = "identify"
                  /\ ~(usesProg /\ usesOp)
<1> USE DEF Goto, clientVars
<1>0. /\ pc \in [Clients -> Pcs] /\ Clients = {"main", "prog", "op"}
      /\ req \in [Clients -> Request \cup {NoReq}]
  BY DEF TypeOK, Clients
<1>00. Shm
  BY ShmIs
<1>1. CASE Probe
  <2>1. Shm'
    BY <1>0, <1>00, <1>1 DEF Probe
  <2> QED
    BY <2>1, ShmIs, PTL
<1>2. ASSUME NEW t \in Clients, Begin(t) PROVE ShmInv'
  <2>1. /\ t # "main" /\ ready /\ pc[t] = "idle" /\ UNCHANGED <<ready, sema>>
        /\ pc' = [pc EXCEPT ![t] = IF t = "prog" THEN "lock" ELSE "prepare"]
        /\ req' = [req EXCEPT ![t] = NoReq]
    BY <1>2 DEF Begin
  <2>2. NoReq.kind = "none"
    BY DEF NoReq
  <2>3. Shm'
    BY <1>0, <1>00, <2>1, <2>2
  <2> QED
    BY <2>3, ShmIs, PTL
<1>3. ASSUME NEW t \in Clients, Acquire(t) PROVE ShmInv'
  <2>1. /\ pc[t] = "lock" /\ sema = "free" /\ sema' = t /\ UNCHANGED <<ready, req>>
        /\ pc' = [pc EXCEPT ![t] = "prepare"]
    BY <1>3 DEF Acquire
  <2>2. "free" # NoOne
    BY DEF NoOne
  <2>3. Shm'
    BY <1>0, <1>00, <2>1, <2>2
  <2> QED
    BY <2>3, ShmIs, PTL
<1>4. ASSUME NEW t \in Clients, Prepare(t) PROVE ShmInv'
  <2>1. /\ pc[t] = "prepare" /\ UNCHANGED <<ready, sema>>
        /\ pc' = [pc EXCEPT ![t] = "produce"]
        /\ req' = [req EXCEPT ![t] = [id |-> nextId, kind |-> KindNow(t)]]
    BY <1>4 DEF Prepare
  <2>2. KindNow("op") = "info" <=> req["op"].kind = "identify"
    BY DEF KindNow
  <2>3. Shm'
    BY <1>0, <1>00, <2>1, <2>2
  <2> QED
    BY <2>3, ShmIs, PTL
<1>5. ASSUME NEW t \in Clients,
             \/ ProduceSlot(t) /\ End(t, FALSE)
             \/ PollNone(t) /\ End(t, FALSE)
             \/ Check(t)
      PROVE  ShmInv'
  <2>1. pc[t] \in MidPcs \cup {"prepare"} /\ req' = req
    BY <1>5 DEF ProduceSlot, PollNone, NothingYet, Check, MidPcs
  <2>2. \E ok \in BOOLEAN : End(t, ok)
    <3>1. Accepted(t) \in BOOLEAN
      BY DEF Accepted
    <3> QED
      BY <1>5, <3>1 DEF Check
  <2> QED
    BY <2>1, <2>2, ShmEnd
<1>6. ASSUME NEW t \in Clients,
             \/ ProduceSlot(t) /\ ~End(t, FALSE)
             \/ ProduceBump(t) \/ Fill(t) \/ Notify(t)
             \/ PollSome(t) \/ ConsumeBump(t) \/ ReadCompletion(t)
      PROVE  ShmInv'
  <2>1. pc[t] \in MidPcs /\ UNCHANGED <<req, sema, ready>>
    BY <1>6 DEF ProduceSlot, ProduceBump, Fill, Notify, PollSome, ConsumeBump, ReadCompletion, MidPcs
  <2>2. \E p \in MidPcs : pc' = [pc EXCEPT ![t] = p]
    BY <1>6 DEF ProduceSlot, ProduceBump, Fill, Notify, PollSome, ConsumeBump, ReadCompletion, MidPcs
  <2> QED
    BY <2>1, <2>2, ShmGoes
<1>7. ASSUME NEW t \in Clients, PollNone(t), ~End(t, FALSE) PROVE ShmInv'
  <2>1. UNCHANGED <<pc, req, sema, ready>>
    BY <1>7 DEF PollNone
  <2>2. Shm'
    BY <1>00, <2>1
  <2> QED
    BY <2>2, ShmIs, PTL
<1>8. CASE ApuStep \/ UNCHANGED vars
  <2>1. UNCHANGED <<pc, req, sema, ready>>
    BY <1>8 DEF ApuStep, ApuTake, ApuAnswer, vars
  <2>2. Shm'
    BY <1>00, <2>1
  <2> QED
    BY <2>2, ShmIs, PTL
<1> HIDE DEF Shm
<1>9. ASSUME NEW t \in Clients, ClientStep(t) PROVE ShmInv'
  <2>1. CASE Acquire(t)
    BY <1>3, <2>1
  <2>2. CASE Prepare(t)
    BY <1>4, <2>2
  <2>3. CASE NotReady(t)
    <3>1. pc[t] = "prepare" /\ req' = req /\ End(t, FALSE)
      BY <2>3 DEF NotReady
    <3> QED
      BY <3>1, ShmEnd
  <2>7. CASE Check(t)
    BY <1>5, <2>7
  <2>4. CASE ProduceSlot(t) \/ ProduceBump(t) \/ Fill(t) \/ Notify(t)
    BY <1>5, <1>6, <2>4
  <2>5. CASE PollSome(t) \/ ConsumeBump(t) \/ ReadCompletion(t)
    BY <1>6, <2>5
  <2>6. CASE PollNone(t)
    BY <1>5, <1>7, <2>6
  <2> QED
    BY <1>9, <2>1, <2>2, <2>3, <2>4, <2>5, <2>6, <2>7 DEF ClientStep
<1>10. CASE Quiet
  <2>1. UNCHANGED vars
    BY <1>10 DEF Quiet
  <2> QED
    BY <1>8, <2>1
<1> QED
  BY <1>1, <1>2, <1>8, <1>9, <1>10 DEF Next

(* Before the probe nobody uses the shared memory.                         *)
LEMMA ShmInit == Init => ShmInv
<1> SUFFICES ASSUME Init PROVE ShmInv
  OBVIOUS
<1>1. /\ pc["main"] = "probe" /\ pc["prog"] = "idle" /\ pc["op"] = "idle"
      /\ sema = NoOne /\ ready = FALSE
  BY DEF Init, Clients
<1> QED
  BY <1>1 DEF ShmInv, NotBegun, UserHoldsIt, LockAfterIdentify, OneUserOfShm, UsesShm, KindNow

(* The variables of common/cl_xgq_client.c and of the rings keep their     *)
(* types through every operation of the tasks and of the APU.              *)
THEOREM TypeCorrect == Spec => []TypeOK
<1>1. Init => TypeOK /\ LeftInv
  BY TypeInit
<1>2. TypeOK /\ LeftInv /\ [Next]_vars => (TypeOK /\ LeftInv)'
  BY TypeStep
<1> QED
  BY <1>1, <1>2, PTL DEF Spec

(* semaData does its work: no log page goes through the shared memory      *)
(* between the first trunk and the last of a download, or the other way    *)
(* around, also when requests fail, time out, or the probe fails and       *)
(* deletes the semaphore while a task holds it.                            *)
THEOREM ShmHasOneUser == Spec => []OneUserOfShm
<1>1. Init => TypeOK /\ LeftInv /\ ShmInv
  BY TypeInit, ShmInit
<1>2. TypeOK /\ LeftInv /\ ShmInv /\ [Next]_vars => (TypeOK /\ LeftInv /\ ShmInv)'
  BY TypeStep, ShmStep
<1>3. ShmInv => OneUserOfShm
  BY DEF ShmInv
<1> QED
  BY <1>1, <1>2, <1>3, PTL DEF Spec

-----------------------------------------------------------------------------
(* The calm channel                                                        *)

(* The types of the pointers of the rings.                                 *)
LEMMA RingTypes ==
  ASSUME TypeOK
  PROVE  /\ sq \in [prod : Nat, reg : Nat, cons : Nat, slot : Slots]
         /\ cq \in [cons : Nat, prod : Nat, reg : Nat, ack : Nat, slot : Slots]
         /\ sq.prod \in Nat /\ sq.reg \in Nat /\ sq.cons \in Nat
         /\ cq.cons \in Nat /\ cq.prod \in Nat /\ cq.reg \in Nat
         /\ N \in Nat \ {0} /\ pc \in [Clients -> Pcs]
         /\ \A p \in Nat : (p % N) \in 0..N-1
BY ApuAssumption DEF TypeOK

(* A task that has the channel for itself moves: the invariant is about    *)
(* where it has moved to.                                                  *)
LEMMA CalmMove ==
  ASSUME TypeOK, OneTask, NEW t \in Clients, Busy(t), NEW p \in Pcs,
         pc' = [pc EXCEPT ![t] = p],
         cq'.prod \in {cq'.cons, cq'.reg}, At(t)',
         p \in {"idle", "gone"} => Empty' /\ sq'.prod = sq'.reg
  PROVE  Calmly'
<1>1. pc \in [Clients -> Pcs]
  BY DEF TypeOK
<1>2. pc'[t] = p /\ \A u \in Clients \ {t} : pc'[u] \in {"idle", "gone"}
  BY <1>1 DEF OneTask, Busy
<1>3. \A u \in Clients \ {t} : At(u)'
  BY <1>2 DEF At, MidPcs
<1>4. OneTask'
  BY <1>2 DEF OneTask, Busy
<1>5. (\A u \in Clients : ~Busy(u))' => (Empty /\ sq.prod = sq.reg)'
  BY <1>2 DEF Busy
<1> QED
  BY <1>3, <1>4, <1>5 DEF Calmly

(* The end of a request leaves a task idle, gone, waiting, or about to     *)
(* make up its next request.                                               *)
LEMMA EndMoves ==
  ASSUME NEW t \in Clients, NEW ok \in BOOLEAN, End(t, ok)
  PROVE  \E p \in {"idle", "gone", "lock", "prepare"} : pc' = [pc EXCEPT ![t] = p]
<1>1. CASE t = "main"
  BY <1>1, EndMain
<1>2. CASE t = "prog"
  BY <1>2, EndProg
<1>3. CASE t = "op"
  BY <1>3, EndOp
<1> QED
  BY <1>1, <1>2, <1>3 DEF Clients

(* A request that ends with the rings empty leaves the channel calm.       *)
LEMMA CalmEnd ==
  ASSUME TypeOK, OneTask, NEW t \in Clients, Busy(t), NEW ok \in BOOLEAN, End(t, ok),
         cq'.prod \in {cq'.cons, cq'.reg}, Empty', sq'.prod = sq'.reg
  PROVE  Calmly'
<1>1. PICK p \in {"idle", "gone", "lock", "prepare"} : pc' = [pc EXCEPT ![t] = p]
  BY EndMoves
<1>2. pc'[t] = p
  BY <1>1 DEF TypeOK
<1>3. At(t)'
  BY <1>2 DEF At, MidPcs
<1> QED
  BY <1>1, <1>3, CalmMove DEF Pcs

(* A task that begins has the channel for itself.                          *)
LEMMA CalmBegin ==
  ASSUME TypeOK, Calmly, NEW t \in Clients, Begin(t), Calm'
  PROVE  Calmly'
<1>0. pc \in [Clients -> Pcs]
  BY DEF TypeOK
<1>1. PICK p \in {"lock", "prepare"} : pc' = [pc EXCEPT ![t] = p]
  BY DEF Begin, Goto
<1>2. Alone(t) /\ pc[t] = "idle" /\ UNCHANGED <<sq, cq, apu>>
  BY DEF Begin, Calm
<1>3. \A u \in Clients : ~Busy(u)
  BY <1>2 DEF Alone, Busy
<1>4. Empty /\ sq.prod = sq.reg /\ cq.prod \in {cq.cons, cq.reg}
  BY <1>3 DEF Calmly
<1>5. Empty' /\ sq'.prod = sq'.reg /\ cq'.prod \in {cq'.cons, cq'.reg}
  BY <1>2, <1>4 DEF Empty
<1>6. pc'[t] = p /\ \A u \in Clients \ {t} : pc'[u] \in {"idle", "gone"}
  BY <1>0, <1>1, <1>2 DEF Alone
<1>7. \A u \in Clients : At(u)'
  BY <1>5, <1>6 DEF At, MidPcs
<1>8. OneTask'
  BY <1>6 DEF OneTask, Busy
<1> QED
  BY <1>5, <1>7, <1>8 DEF Calmly

(* The steps of a task before its request is in the SQ.                    *)
LEMMA CalmPrepare ==
  ASSUME TypeOK, Calmly, NEW t \in Clients,
         Acquire(t) \/ Prepare(t) \/ NotReady(t)
  PROVE  Calmly'
<1>0. pc \in [Clients -> Pcs] /\ OneTask /\ At(t) /\ cq.prod \in {cq.cons, cq.reg}
  BY DEF TypeOK, Calmly
<1>1. pc[t] \in {"lock", "prepare"} /\ UNCHANGED <<sq, cq, apu>>
  BY DEF Acquire, Prepare, NotReady
<1>2. Busy(t) /\ Empty /\ sq.prod = sq.reg
  BY <1>0, <1>1 DEF At, Busy
<1>3. Empty' /\ sq'.prod = sq'.reg /\ cq'.prod \in {cq'.cons, cq'.reg}
  BY <1>0, <1>1, <1>2 DEF Empty
<1>4. CASE Acquire(t)
  <2>1. pc' = [pc EXCEPT ![t] = "prepare"]
    BY <1>4 DEF Acquire, Goto
  <2>2. At(t)'
    BY <1>0, <1>3, <2>1 DEF At, MidPcs
  <2> QED
    BY <1>0, <1>2, <1>3, <2>1, <2>2, CalmMove DEF Pcs
<1>5. CASE Prepare(t)
  <2>1. pc' = [pc EXCEPT ![t] = "produce"]
    BY <1>5 DEF Prepare, Goto
  <2>2. req'[t] = [id |-> nextId, kind |-> KindNow(t)]
    BY <1>5 DEF Prepare, TypeOK
  <2>3. req'[t] # NoReq
    <3>1. nextId # 0
      BY Numbers DEF TypeOK
    <3>2. req'[t].id = nextId /\ NoReq.id = 0
      BY <2>2 DEF NoReq
    <3> QED
      BY <3>1, <3>2
  <2>4. At(t)'
    BY <1>0, <1>3, <2>1, <2>3 DEF At, MidPcs
  <2> QED
    BY <1>0, <1>2, <1>3, <2>1, <2>4, CalmMove DEF Pcs
<1>6. CASE NotReady(t)
  <2>1. End(t, FALSE)
    BY <1>6 DEF NotReady
  <2> QED
    BY <1>0, <1>2, <1>3, <2>1, CalmEnd
<1> QED
  BY <1>4, <1>5, <1>6

(* The steps of a task that puts its request into the SQ: with the ring    *)
(* empty there is room, and the pointer it goes by is nobody else's.       *)
LEMMA CalmProduce ==
  ASSUME TypeOK, Calmly, NEW t \in Clients,
         ProduceSlot(t) \/ ProduceBump(t) \/ Fill(t) \/ Notify(t)
  PROVE  Calmly'
<1>0. pc \in [Clients -> Pcs] /\ OneTask /\ At(t) /\ cq.prod \in {cq.cons, cq.reg}
  BY DEF TypeOK, Calmly
<1>1. pc[t] \in {"produce", "produced", "fill", "notify"} /\ UNCHANGED <<req, cq, apu>>
  BY DEF ProduceSlot, ProduceBump, Fill, Notify
<1>2. Busy(t) /\ Empty /\ req[t] # NoReq
  BY <1>0, <1>1 DEF At, Busy, MidPcs
<1>3. sq.reg = sq.cons /\ apu = NoReq /\ cq.reg = cq.cons
  BY <1>2 DEF Empty
<1>4. cq'.prod \in {cq'.cons, cq'.reg} /\ cq'.reg = cq'.cons /\ apu' = NoReq /\ req'[t] # NoReq
  BY <1>0, <1>1, <1>2, <1>3
<1>5. CASE ProduceSlot(t)
  <2>1. sq.prod = sq.reg /\ sq' = sq
    BY <1>0, <1>5 DEF At, ProduceSlot
  <2>2. ~(sq.prod - sq.cons >= N)
    BY <1>3, <2>1, RingTypes
  <2>3. pc' = [pc EXCEPT ![t] = "produced"] /\ ptr' = [ptr EXCEPT ![t] = sq.prod]
    BY <1>5, <2>2 DEF ProduceSlot, Goto
  <2>4. ptr'[t] = sq.prod /\ pc'[t] = "produced"
    BY <1>0, <2>3 DEF TypeOK
  <2>5. At(t)'
    BY <1>3, <1>4, <2>1, <2>4 DEF At, MidPcs, Empty
  <2> QED
    BY <1>0, <1>2, <1>4, <2>3, <2>5, CalmMove DEF Pcs
<1>6. CASE ProduceBump(t)
  <2>1. sq.prod = sq.reg /\ ptr[t] = sq.prod /\ ptr' = ptr
    BY <1>0, <1>6 DEF At, ProduceBump
  <2>2. sq' = [sq EXCEPT !.prod = sq.prod + 1]
    BY <1>6, <2>1 DEF ProduceBump
  <2>3. sq'.prod = sq'.reg + 1 /\ sq'.reg = sq.reg /\ sq'.cons = sq.cons
    BY <2>1, <2>2, RingTypes
  <2>4. pc' = [pc EXCEPT ![t] = "fill"]
    BY <1>6 DEF ProduceBump, Goto
  <2>5. pc'[t] = "fill"
    BY <1>0, <2>4
  <2>6. At(t)'
    BY <1>3, <1>4, <2>1, <2>3, <2>5 DEF At, MidPcs, Empty
  <2> QED
    BY <1>0, <1>2, <1>4, <2>4, <2>6, CalmMove DEF Pcs
<1>7. CASE Fill(t)
  <2>1. sq.prod = sq.reg + 1 /\ ptr[t] = sq.cons
    BY <1>0, <1>3, <1>7 DEF At, Fill
  <2>2. /\ sq'.prod = sq.prod /\ sq'.reg = sq.reg /\ sq'.cons = sq.cons
        /\ sq'.slot[sq.cons % N] = req[t]
    <3>1. sq' = [sq EXCEPT !.slot = [sq.slot EXCEPT ![sq.cons % N] = req[t]]]
      BY <1>7, <2>1, RingTypes DEF Fill
    <3>2. sq.slot \in Slots /\ (sq.cons % N) \in 0..N-1
      BY RingTypes
    <3>3. sq'.slot = [sq.slot EXCEPT ![sq.cons % N] = req[t]]
      BY <3>1, RingTypes
    <3>4. sq'.slot[sq.cons % N] = req[t]
      BY <3>2, <3>3 DEF Slots
    <3> QED
      BY <3>1, <3>4, RingTypes
  <2>4. pc' = [pc EXCEPT ![t] = "notify"]
    BY <1>7 DEF Fill, Goto
  <2>5. pc'[t] = "notify"
    BY <1>0, <2>4
  <2>6. At(t)'
    BY <1>1, <1>3, <1>4, <2>1, <2>2, <2>5 DEF At, MidPcs, Empty
  <2> QED
    BY <1>0, <1>2, <1>4, <2>4, <2>6, CalmMove DEF Pcs
<1>8. CASE Notify(t)
  <2>1. sq.prod = sq.reg + 1 /\ sq.slot[sq.cons % N] = req[t]
    BY <1>0, <1>8 DEF At, Notify
  <2>2. sq' = [sq EXCEPT !.reg = sq.prod]
    BY <1>8 DEF Notify
  <2>3. /\ sq'.prod = sq'.reg /\ sq'.reg = sq'.cons + 1
        /\ sq'.slot[sq'.cons % N] = req'[t]
    BY <1>1, <1>3, <2>1, <2>2, RingTypes
  <2>4. pc' = [pc EXCEPT ![t] = "poll"]
    BY <1>8 DEF Notify, Goto
  <2>5. pc'[t] = "poll"
    BY <1>0, <2>4
  <2>6. At(t)'
    BY <1>4, <2>3, <2>5 DEF At, MidPcs, InSq
  <2> QED
    BY <1>0, <1>2, <1>4, <2>4, <2>6, CalmMove DEF Pcs
<1> QED
  BY <1>5, <1>6, <1>7, <1>8

(* The steps of a task that waits for its answer: the one there is, is the *)
(* answer to its request.  A task that gives up is not calm.               *)
LEMMA CalmPoll ==
  ASSUME TypeOK, Calmly, NEW t \in Clients, Calm',
         PollSome(t) \/ PollNone(t) \/ ConsumeBump(t) \/ ReadCompletion(t) \/ Check(t)
  PROVE  Calmly'
<1>0. pc \in [Clients -> Pcs] /\ OneTask /\ At(t) /\ cq.prod \in {cq.cons, cq.reg}
  BY DEF TypeOK, Calmly
<1>1. pc[t] \in {"poll", "consumed", "read", "check"} /\ UNCHANGED <<req, sq, apu>>
  BY DEF PollSome, PollNone, NothingYet, ConsumeBump, ReadCompletion, Check
<1>2. Busy(t) /\ sq.prod = sq.reg /\ req[t] # NoReq
  BY <1>0, <1>1 DEF At, Busy, MidPcs
<1>3. CASE PollSome(t) \/ PollNone(t)
  <2>1. /\ pc[t] = "poll" /\ cq' = Fresh
    BY <1>3 DEF PollSome, PollNone, NothingYet
  <2>2. /\ cq'.cons = cq.cons /\ cq'.reg = cq.reg /\ cq'.slot = cq.slot
        /\ cq'.prod \in {cq'.cons, cq'.reg}
        /\ cq'.prod # cq'.cons => cq'.prod = cq'.reg
    BY <1>0, <2>1, RingTypes DEF Fresh
  <2>3. InSq(t) \/ InApu(t) \/ InCq(t)
    BY <1>0, <2>1 DEF At
  <2>4. (InSq(t) \/ InApu(t) \/ InCq(t))' /\ (InCq(t) => InCq(t)')
    BY <1>1, <2>2, <2>3 DEF InSq, InApu, InCq
  <2>5. CASE PollSome(t)
    <3>1. pc' = [pc EXCEPT ![t] = "consumed"] /\ ptr' = [ptr EXCEPT ![t] = cq.cons]
      BY <2>5 DEF PollSome, Goto
    <3>2. pc'[t] = "consumed" /\ ptr'[t] = cq'.cons
      BY <1>0, <2>2, <3>1 DEF TypeOK
    <3>3. cq'.prod # cq'.cons
      BY <2>1, <2>5 DEF PollSome
    <3>4. InCq(t)
      BY <2>2, <2>3, <3>3 DEF InSq, InApu
    <3>5. At(t)'
      BY <1>1, <1>2, <2>2, <2>4, <3>2, <3>3, <3>4 DEF At, MidPcs
    <3> QED
      BY <1>0, <1>2, <2>2, <3>1, <3>5, CalmMove DEF Pcs
  <2>6. CASE PollNone(t)
    <3>1. tick[t] + 1 < Ticks
      <4>1. ~(tick[t] + 1 >= Ticks)
        BY <2>6 DEF PollNone, NothingYet, Calm
      <4>2. tick[t] \in 0..Ticks-1 /\ Ticks \in Nat
        BY Numbers DEF TypeOK
      <4> QED
        BY <4>1, <4>2
    <3>2. pc' = pc
      BY <2>6, <3>1 DEF PollNone
    <3>3. pc' = [pc EXCEPT ![t] = "poll"] /\ pc'[t] = "poll"
      BY <1>0, <2>1, <3>2
    <3>4. At(t)'
      BY <1>1, <1>2, <2>4, <3>3 DEF At, MidPcs
    <3> QED
      BY <1>0, <1>2, <2>2, <3>3, <3>4, CalmMove DEF Pcs
  <2> QED
    BY <1>3, <2>5, <2>6
<1>4. CASE ConsumeBump(t)
  <2>1. /\ InCq(t) /\ ptr[t] = cq.cons /\ cq.prod = cq.reg /\ ptr' = ptr
    BY <1>0, <1>4 DEF At, ConsumeBump
  <2>2. /\ sq.reg = sq.cons /\ apu = NoReq /\ cq.reg = cq.cons + 1
        /\ cq.slot[cq.cons % N] = req[t]
    BY <2>1 DEF InCq
  <2>3. cq' = [cq EXCEPT !.cons = cq.cons + 1]
    BY <1>4, <2>1 DEF ConsumeBump
  <2>4. /\ cq'.cons = cq'.reg /\ cq'.prod = cq'.reg /\ cq'.slot = cq.slot
    BY <2>1, <2>2, <2>3, RingTypes
  <2>5. pc' = [pc EXCEPT ![t] = "read"]
    BY <1>4 DEF ConsumeBump, Goto
  <2>6. pc'[t] = "read"
    BY <1>0, <2>5
  <2>7. At(t)'
    BY <1>1, <1>2, <2>1, <2>2, <2>4, <2>6 DEF At, MidPcs, Empty
  <2> QED
    BY <1>0, <1>2, <2>4, <2>5, <2>7, CalmMove DEF Pcs
<1>5. CASE ReadCompletion(t)
  <2>1. Empty /\ cq.slot[ptr[t] % N] = req[t]
    BY <1>0, <1>5 DEF At, ReadCompletion
  <2>2. got'[t] = req[t]
    BY <1>5, <2>1 DEF ReadCompletion, TypeOK
  <2>3. cq'.cons = cq.cons /\ cq'.reg = cq.reg /\ cq'.prod = cq.prod
    BY <1>5, RingTypes DEF ReadCompletion
  <2>4. pc' = [pc EXCEPT ![t] = "check"]
    BY <1>5 DEF ReadCompletion, Goto
  <2>5. pc'[t] = "check" /\ Empty'
    BY <1>0, <1>1, <2>1, <2>3, <2>4 DEF Empty
  <2>6. At(t)'
    BY <1>1, <1>2, <2>2, <2>5 DEF At, MidPcs
  <2> QED
    BY <1>0, <1>2, <2>3, <2>4, <2>6, CalmMove DEF Pcs
<1>6. CASE Check(t)
  <2>1. Empty
    BY <1>0, <1>6 DEF At, Check
  <2>2. cq'.cons = cq.cons /\ cq'.reg = cq.reg /\ cq'.prod = cq.prod
    BY <1>6, RingTypes DEF Check
  <2>3. Empty' /\ sq'.prod = sq'.reg /\ cq'.prod \in {cq'.cons, cq'.reg}
    BY <1>0, <1>1, <1>2, <2>1, <2>2 DEF Empty
  <2>4. PICK ok \in BOOLEAN : End(t, ok)
    <3>1. Accepted(t) \in BOOLEAN
      BY DEF Accepted
    <3> QED
      BY <1>6, <3>1 DEF Check
  <2> QED
    BY <1>0, <1>2, <2>3, <2>4, CalmEnd
<1> QED
  BY <1>3, <1>4, <1>5, <1>6

(* The probe makes an empty channel; the APU takes the one request there   *)
(* is, and answers it.                                                     *)
LEMMA CalmApu ==
  ASSUME TypeOK, Calmly, Probe \/ ApuTake \/ ApuAnswer
  PROVE  Calmly'
<1>0. pc \in [Clients -> Pcs] /\ OneTask /\ cq.prod \in {cq.cons, cq.reg}
  BY DEF TypeOK, Calmly
<1>1. CASE Probe
  <2>1. /\ pc["main"] = "probe" /\ pc' = [pc EXCEPT !["main"] = "prepare"]
        /\ UNCHANGED <<req, sq, cq, apu, ptr>> /\ "main" \in Clients
    BY <1>1 DEF Probe, Goto, Clients
  <2>2. Busy("main") /\ Empty /\ sq.prod = sq.reg
    BY <2>1 DEF Busy, At, Calmly
  <2>3. Empty' /\ sq'.prod = sq'.reg /\ cq'.prod \in {cq'.cons, cq'.reg}
    BY <1>0, <2>1, <2>2 DEF Empty
  <2>4. At("main")'
    BY <1>0, <2>1, <2>3 DEF At, MidPcs
  <2> QED
    BY <1>0, <2>1, <2>2, <2>3, <2>4, CalmMove DEF Pcs
<1>2. CASE ApuTake
  <2>1. /\ sq.cons < sq.reg /\ apu' = sq.slot[sq.cons % N] /\ UNCHANGED <<pc, req, got, ptr, cq>>
        /\ sq' = [sq EXCEPT !.cons = sq.cons + 1]
    BY <1>2 DEF ApuTake
  <2>2. sq.reg # sq.cons
    BY <2>1, RingTypes
  <2>3. PICK t \in Clients : Busy(t)
    BY <2>2 DEF Calmly, Empty
  <2>4. At(t) /\ pc[t] \in Pcs
    BY <1>0 DEF Calmly
  <2>5. pc[t] = "poll" /\ InSq(t) /\ sq.prod = sq.reg /\ req[t] # NoReq
    BY <2>2, <2>3, <2>4 DEF At, Pcs, Busy, Empty, InApu, InCq, MidPcs
  <2>6. sq'.cons = sq.cons + 1 /\ sq'.reg = sq.reg /\ sq'.prod = sq.prod
    BY <2>1, RingTypes
  <2>7. InApu(t)'
    BY <2>1, <2>5, <2>6 DEF InSq, InApu
  <2>8. pc' = [pc EXCEPT ![t] = "poll"] /\ pc'[t] = "poll"
    BY <1>0, <2>1, <2>5
  <2>9. At(t)'
    BY <2>1, <2>5, <2>6, <2>7, <2>8 DEF At, MidPcs
  <2> QED
    BY <1>0, <2>1, <2>3, <2>8, <2>9, CalmMove DEF Pcs
<1>3. CASE ApuAnswer
  <2>1. /\ apu # NoReq /\ apu' = NoReq /\ UNCHANGED <<pc, req, got, ptr, sq>>
        /\ cq' = [cq EXCEPT !.reg = cq.reg + 1, !.slot = [cq.slot EXCEPT ![cq.reg % N] = apu]]
    BY <1>3, RingTypes DEF ApuAnswer
  <2>2. PICK t \in Clients : Busy(t)
    BY <2>1 DEF Calmly, Empty
  <2>3. At(t) /\ pc[t] \in Pcs
    BY <1>0 DEF Calmly
  <2>4. pc[t] = "poll" /\ InApu(t) /\ sq.prod = sq.reg /\ req[t] # NoReq
    BY <2>1, <2>2, <2>3 DEF At, Pcs, Busy, Empty, InSq, InCq, MidPcs
  <2>5. sq.reg = sq.cons /\ apu = req[t] /\ cq.reg = cq.cons
    BY <2>4 DEF InApu
  <2>6. cq'.cons = cq.cons /\ cq'.reg = cq.reg + 1 /\ cq'.prod = cq.prod
    BY <2>1, RingTypes
  <2>7. cq'.slot[cq.reg % N] = apu
    <3>1. cq.slot \in Slots /\ (cq.reg % N) \in 0..N-1
      BY RingTypes
    <3>2. cq'.slot = [cq.slot EXCEPT ![cq.reg % N] = apu]
      BY <2>1, RingTypes
    <3> QED
      BY <3>1, <3>2 DEF Slots
  <2>8. InCq(t)'
    BY <2>1, <2>5, <2>6, <2>7 DEF InCq
  <2>9. cq'.prod \in {cq'.cons, cq'.reg}
    BY <1>0, <2>5, <2>6
  <2>10. pc' = [pc EXCEPT ![t] = "poll"] /\ pc'[t] = "poll"
    BY <1>0, <2>1, <2>4
  <2>11. At(t)'
    BY <2>1, <2>4, <2>8, <2>10 DEF At, MidPcs
  <2> QED
    BY <1>0, <2>2, <2>9, <2>10, <2>11, CalmMove DEF Pcs
<1> QED
  BY <1>1, <1>2, <1>3

(* As long as the channel is calm, every step leaves it calmly ordered.    *)
LEMMA CalmlyStep ==
  ASSUME TypeOK, Calmly, [Next]_vars, Calm'
  PROVE  Calmly'
<1>1. ASSUME NEW t \in Clients, ClientStep(t) PROVE Calmly'
  <2>1. CASE Acquire(t) \/ Prepare(t) \/ NotReady(t)
    BY <2>1, CalmPrepare
  <2>2. CASE ProduceSlot(t) \/ ProduceBump(t) \/ Fill(t) \/ Notify(t)
    BY <2>2, CalmProduce
  <2>3. CASE PollSome(t) \/ PollNone(t) \/ ConsumeBump(t) \/ ReadCompletion(t) \/ Check(t)
    BY <2>3, CalmPoll
  <2> QED
    BY <1>1, <2>1, <2>2, <2>3 DEF ClientStep
<1>2. CASE UNCHANGED vars
  BY <1>2 DEF vars, Calmly, OneTask, Busy, At, Empty, InSq, InApu, InCq
<1>3. CASE Quiet
  <2>1. UNCHANGED vars
    BY <1>3 DEF Quiet
  <2> QED
    BY <1>2, <2>1
<1> QED
  BY <1>1, <1>2, <1>3, CalmBegin, CalmApu DEF Next, ApuStep

(* Calm is lost for good.                                                  *)
LEMMA CalmBefore ==
  ASSUME [Next]_vars, Calm'
  PROVE  Calm
<1>1. overdue' = overdue \/ (\E t \in Clients : overdue' = (overdue \/ tick[t] + 1 >= Ticks))
  BY DEF Next, ClientStep, ApuStep, ApuTake, ApuAnswer, Quiet, vars, Probe, Begin, Acquire, Prepare,
         NotReady, ProduceSlot, ProduceBump, Fill, Notify, PollSome, PollNone, NothingYet,
         ConsumeBump, ReadCompletion, Check
<1>2. crowded' = crowded \/ (\E t \in Clients : crowded' = (crowded \/ ~Alone(t)))
  BY DEF Next, ClientStep, ApuStep, ApuTake, ApuAnswer, Quiet, vars, Probe, Begin, Acquire, Prepare,
         NotReady, ProduceSlot, ProduceBump, Fill, Notify, PollSome, PollNone, NothingYet,
         ConsumeBump, ReadCompletion, Check
<1>3. ~overdue' /\ ~crowded'
  BY DEF Calm
<1>4. ~overdue
  <2>1. CASE overdue' = overdue
    BY <1>3, <2>1
  <2>2. CASE \E t \in Clients : overdue' = (overdue \/ tick[t] + 1 >= Ticks)
    BY <1>3, <2>2
  <2> QED
    BY <1>1, <2>1, <2>2
<1>5. ~crowded
  <2>1. CASE crowded' = crowded
    BY <1>3, <2>1
  <2>2. CASE \E t \in Clients : crowded' = (crowded \/ ~Alone(t))
    BY <1>3, <2>2
  <2> QED
    BY <1>2, <2>1, <2>2
<1> QED
  BY <1>4, <1>5 DEF Calm

-----------------------------------------------------------------------------
(* The download                                                            *)

(* The trunks sent are as many as can be counted.                          *)
LEMMA BatchFinite ==
  ASSUME TypeOK
  PROVE  IsFiniteSet(batch) /\ Cardinality(batch) \in Nat
<1>1. IsFiniteSet(1..MaxReqs)
  BY FS_Interval, Numbers
<1>2. IsFiniteSet(batch)
  BY <1>1, FS_Subset DEF TypeOK
<1> QED
  BY <1>2, FS_CardinalityType

(* A step outside of a download keeps what the last one has done.          *)
LEMMA DeliveredIdle ==
  ASSUME TypeOK, Delivered, pc'["prog"] \in {"idle", "gone"},
         batch' = batch, handled \subseteq handled', nextId' \in Nat, nextId <= nextId',
         result' = "ok" => result = "ok" /\ pc'["prog"] = "idle"
  PROVE  Delivered'
<1>1. batch' \subseteq 1..nextId'-1
  <2>1. batch \subseteq 1..nextId-1 /\ nextId \in Nat
    BY Numbers DEF Delivered, TypeOK
  <2>2. \A m, n \in Nat : m <= n => 1..m-1 \subseteq 1..n-1
    OBVIOUS
  <2>3. 1..nextId-1 \subseteq 1..nextId'-1
    BY <2>1, <2>2
  <2> QED
    BY <2>1, <2>3
<1> QED
  BY <1>1 DEF Delivered, Sent, MidPcs

(* A step within the request of a trunk keeps what is known of it.         *)
LEMMA DeliveredGoes ==
  ASSUME TypeOK, Delivered, Sent, Sent',
         UNCHANGED <<req, batch, left, result, shm, nextId>>, handled \subseteq handled',
         (InCq("prog") \/ pc["prog"] \in {"read", "check"})' => req["prog"].id \in handled'
  PROVE  Delivered'
<1>1. result # "ok"
  BY DEF Delivered, Sent, MidPcs
<1>2. pc'["prog"] \notin {"lock", "prepare"}
  BY DEF Sent, MidPcs
<1>3. /\ req["prog"].kind \in TrunkKinds /\ req["prog"].id \in batch
      /\ batch \ {req["prog"].id} \subseteq handled
      /\ Cardinality(batch) = Trunks - left + 1 /\ shm = req["prog"].id
      /\ batch \subseteq 1..nextId-1
  BY DEF Delivered
<1> QED
  BY <1>1, <1>2, <1>3 DEF Delivered

(* A request of another task leaves a download alone: while it is under    *)
(* way no download is.                                                     *)
LEMMA DeliveredOther ==
  ASSUME TypeOK, OneTask, Delivered, NEW t \in Clients \ {"prog"}, Busy(t),
         NEW p \in Pcs, pc' = [pc EXCEPT ![t] = p],
         UNCHANGED <<batch, result, handled>>, nextId' \in {nextId, nextId + 1}
  PROVE  Delivered'
<1>1. pc \in [Clients -> Pcs] /\ "prog" \in Clients
  BY DEF TypeOK, Clients
<1>2. pc["prog"] \in {"idle", "gone"} /\ pc'["prog"] = pc["prog"]
  BY <1>1 DEF OneTask, Busy
<1>3. result = "ok" => pc["prog"] = "idle"
  BY DEF Delivered
<1>4. nextId' \in Nat /\ nextId <= nextId'
  BY Numbers DEF TypeOK
<1> QED
  BY <1>2, <1>3, <1>4, DeliveredIdle

(* A download begins, gets the semaphore, and makes up a trunk.            *)
LEMMA DeliveredPrepare ==
  ASSUME TypeOK, LeftInv, Calmly, Delivered, Calm',
         Begin("prog") \/ Acquire("prog") \/ Prepare("prog") \/ NotReady("prog")
  PROVE  Delivered'
<1>0. pc \in [Clients -> Pcs] /\ "prog" \in Clients /\ left \in 0..Trunks /\ Trunks \in Nat
  BY Numbers DEF TypeOK, Clients
<1>1. batch \subseteq 1..nextId-1
  BY DEF Delivered
<1>2. CASE Begin("prog")
  <2>1. pc'["prog"] = "lock" /\ batch' = {} /\ left' = Trunks /\ result' = "none"
    BY <1>0, <1>2 DEF Begin, Goto
  <2> QED
    BY <2>1 DEF Delivered, Sent, MidPcs
<1>3. CASE Acquire("prog")
  <2>1. /\ pc["prog"] = "lock" /\ pc'["prog"] = "prepare"
        /\ UNCHANGED <<batch, left, result, handled, nextId>>
    BY <1>0, <1>3 DEF Acquire, Goto
  <2>2. batch = {} /\ left = Trunks /\ result # "ok"
    BY <2>1 DEF Delivered
  <2>3. Cardinality(batch') = Trunks - left'
    BY <1>0, <2>1, <2>2, FS_EmptySet
  <2> QED
    BY <2>1, <2>2, <2>3 DEF Delivered, Sent, MidPcs
<1>4. CASE Prepare("prog")
  <2>1. /\ pc["prog"] = "prepare" /\ pc'["prog"] = "produce"
        /\ UNCHANGED <<sq, cq, left, result, handled>>
        /\ batch' = batch \cup {nextId} /\ shm' = nextId /\ nextId' = nextId + 1
        /\ req' = [req EXCEPT !["prog"] = [id |-> nextId, kind |-> KindNow("prog")]]
    BY <1>0, <1>4 DEF Prepare, Goto
  <2>2. req'["prog"].id = nextId /\ req'["prog"].kind \in TrunkKinds
    <3>1. KindNow("prog") \in TrunkKinds
      BY DEF KindNow, TrunkKinds
    <3>2. req'["prog"] = [id |-> nextId, kind |-> KindNow("prog")]
      BY <1>0, <2>1 DEF TypeOK
    <3> QED
      BY <3>1, <3>2
  <2>3. batch \subseteq handled /\ Cardinality(batch) = Trunks - left /\ result # "ok"
    BY <2>1 DEF Delivered
  <2>4. nextId \notin batch /\ batch' \subseteq 1..nextId'-1
    <3>1. nextId \in Nat \ {0}
      BY Numbers DEF TypeOK
    <3> QED
      BY <1>1, <2>1, <3>1
  <2>5. Cardinality(batch') = Trunks - left' + 1
    <3>1. Cardinality(batch \cup {nextId}) = Cardinality(batch) + 1
      BY <2>4, BatchFinite, FS_AddElement
    <3> QED
      BY <1>0, <2>1, <2>3, <3>1
  <2>6. Empty
    BY <1>0, <2>1 DEF Calmly, At
  <2>7. ~InCq("prog")'
    <3>1. cq'.reg = cq'.cons /\ cq'.cons \in Nat
      BY <2>1, <2>6, RingTypes DEF Empty
    <3>2. cq'.reg # cq'.cons + 1
      BY <3>1
    <3> QED
      BY <3>2 DEF InCq
  <2> QED
    BY <2>1, <2>2, <2>3, <2>4, <2>5, <2>7 DEF Delivered, Sent, MidPcs
<1>5. CASE NotReady("prog")
  <2>1. End("prog", FALSE) /\ UNCHANGED <<handled, nextId>>
    BY <1>5 DEF NotReady
  <2>2. batch' = batch /\ pc' = [pc EXCEPT !["prog"] = "idle"] /\ result' = "err"
    BY <2>1, EndProg
  <2> QED
    BY <1>0, <1>1, <2>1, <2>2 DEF Delivered, Sent, MidPcs
<1> QED
  BY <1>2, <1>3, <1>4, <1>5

(* The steps of a trunk on its way to the APU and back.                    *)
LEMMA DeliveredProduce ==
  ASSUME TypeOK, Calmly, Delivered,
         ProduceSlot("prog") \/ ProduceBump("prog") \/ Fill("prog") \/ Notify("prog")
  PROVE  Delivered'
<1>0. pc \in [Clients -> Pcs] /\ "prog" \in Clients /\ At("prog")
  BY DEF TypeOK, Clients, Calmly
<1>1. /\ pc["prog"] \in {"produce", "produced", "fill", "notify"}
      /\ UNCHANGED <<req, cq, shm, handled, nextId, batch>>
  BY EndProg DEF ProduceSlot, ProduceBump, Fill, Notify, clientVars
<1>2. Empty
  BY <1>0, <1>1 DEF At
<1>3. ~InCq("prog")'
  <2>1. cq'.reg = cq'.cons /\ cq'.cons \in Nat
    BY <1>1, <1>2, RingTypes DEF Empty
  <2>2. cq'.reg # cq'.cons + 1
    BY <2>1
  <2> QED
    BY <2>2 DEF InCq
<1>4. /\ pc'["prog"] \in {"produced", "fill", "notify", "poll"}
      /\ UNCHANGED <<left, result>>
  <2>1. CASE ProduceSlot("prog")
    <3>1. pc["prog"] = "produce" /\ sq.prod = sq.reg /\ sq.reg = sq.cons
      BY <1>0, <1>2, <2>1 DEF At, ProduceSlot, Empty
    <3>2. ~(sq.prod - sq.cons >= N)
      BY <3>1, RingTypes
    <3>3. pc' = [pc EXCEPT !["prog"] = "produced"] /\ UNCHANGED clientVars
      BY <2>1, <3>2 DEF ProduceSlot, Goto
    <3> QED
      BY <1>0, <3>3 DEF clientVars
  <2>2. CASE ProduceBump("prog") \/ Fill("prog") \/ Notify("prog")
    BY <1>0, <2>2 DEF ProduceBump, Fill, Notify, clientVars, Goto
  <2> QED
    BY <2>1, <2>2
<1>5. Sent /\ Sent'
  BY <1>1, <1>4 DEF Sent, MidPcs
<1> QED
  BY <1>1, <1>3, <1>4, <1>5, DeliveredGoes

(* The steps of a download that waits for the answer to a trunk, up to the *)
(* next trunk, the last, or the end with an error.                         *)
LEMMA DeliveredPoll ==
  ASSUME TypeOK, LeftInv, Calmly, Delivered, Calm',
         PollSome("prog") \/ PollNone("prog") \/ ConsumeBump("prog")
           \/ ReadCompletion("prog") \/ Check("prog")
  PROVE  Delivered'
<1>0. pc \in [Clients -> Pcs] /\ "prog" \in Clients /\ At("prog")
  BY DEF TypeOK, Clients, Calmly
<1>1. /\ pc["prog"] \in {"poll", "consumed", "read", "check"}
      /\ UNCHANGED <<req, sq, apu, shm, handled, nextId>>
  BY DEF PollSome, PollNone, NothingYet, ConsumeBump, ReadCompletion, Check
<1>2. Sent
  BY <1>1 DEF Sent, MidPcs
<1>3. /\ req["prog"].kind \in TrunkKinds /\ req["prog"].id \in batch
      /\ batch \ {req["prog"].id} \subseteq handled
      /\ Cardinality(batch) = Trunks - left + 1
      /\ batch \subseteq 1..nextId-1
      /\ InCq("prog") \/ pc["prog"] \in {"read", "check"} => req["prog"].id \in handled
  BY <1>2 DEF Delivered
<1>4. CASE PollSome("prog") \/ PollNone("prog")
  <2>1. pc["prog"] = "poll" /\ cq' = Fresh
    BY <1>4 DEF PollSome, PollNone, NothingYet
  <2>2. cq'.cons = cq.cons /\ cq'.reg = cq.reg /\ cq'.slot = cq.slot
    BY <2>1, RingTypes DEF Fresh
  <2>3. pc'["prog"] \in {"poll", "consumed"} /\ UNCHANGED <<batch, left, result>>
    <3>1. CASE PollSome("prog")
      BY <1>0, <3>1 DEF PollSome, Goto, clientVars
    <3>2. CASE PollNone("prog")
      <4>1. ~(tick["prog"] + 1 >= Ticks)
        BY <3>2 DEF PollNone, NothingYet, Calm
      <4>2. tick["prog"] \in 0..Ticks-1 /\ Ticks \in Nat
        BY <1>0, Numbers DEF TypeOK
      <4>3. tick["prog"] + 1 < Ticks
        BY <4>1, <4>2
      <4> QED
        BY <2>1, <3>2, <4>3 DEF PollNone, clientVars
    <3> QED
      BY <1>4, <3>1, <3>2
  <2>4. InCq("prog")' => InCq("prog")
    BY <1>1, <2>2 DEF InCq
  <2>5. Sent'
    BY <2>3 DEF Sent, MidPcs
  <2> QED
    BY <1>1, <1>2, <1>3, <2>3, <2>4, <2>5, DeliveredGoes
<1>5. CASE ConsumeBump("prog")
  <2>1. pc["prog"] = "consumed" /\ pc'["prog"] = "read" /\ UNCHANGED <<batch, left, result>>
    BY <1>0, <1>5 DEF ConsumeBump, Goto, clientVars
  <2>2. req["prog"].id \in handled
    BY <1>0, <1>3, <2>1 DEF At
  <2>3. Sent'
    BY <2>1 DEF Sent, MidPcs
  <2> QED
    BY <1>1, <1>2, <2>1, <2>2, <2>3, DeliveredGoes
<1>6. CASE ReadCompletion("prog")
  <2>1. pc["prog"] = "read" /\ pc'["prog"] = "check" /\ UNCHANGED <<batch, left, result>>
    BY <1>0, <1>6 DEF ReadCompletion, Goto, clientVars
  <2>2. req["prog"].id \in handled
    BY <1>3, <2>1
  <2>3. Sent'
    BY <2>1 DEF Sent, MidPcs
  <2> QED
    BY <1>1, <1>2, <2>1, <2>2, <2>3, DeliveredGoes
<1>7. CASE Check("prog")
  <2>1. PICK ok \in BOOLEAN : End("prog", ok)
    <3>1. Accepted("prog") \in BOOLEAN
      BY DEF Accepted
    <3> QED
      BY <1>7, <3>1 DEF Check
  <2>2. req["prog"].id \in handled
    BY <1>3, <1>7 DEF Check
  <2>3. batch \subseteq handled
    BY <1>3, <2>2
  <2>4. left \in Nat /\ left >= 1 /\ Trunks \in Nat
    BY <1>2, Numbers DEF LeftInv, TypeOK, Sent, MidPcs
  <2>5. batch' = batch /\ left' = IF ok THEN left - 1 ELSE 0
    BY <2>1, EndProg
  <2>6. CASE ok /\ left > 1
    <3>1. pc' = [pc EXCEPT !["prog"] = "prepare"] /\ result' = result
      BY <2>1, <2>6, EndProg
    <3>2. pc'["prog"] = "prepare" /\ result' # "ok"
      BY <1>0, <1>2, <3>1 DEF Delivered, Sent, MidPcs
    <3>3. left' = left - 1
      BY <2>5, <2>6
    <3>4. Cardinality(batch) = Trunks - left'
      BY <1>3, <2>4, <3>3
    <3> QED
      BY <1>1, <1>3, <2>3, <2>5, <3>2, <3>4 DEF Delivered, Sent, MidPcs
  <2>7. CASE ~(ok /\ left > 1)
    <3>1. pc' = [pc EXCEPT !["prog"] = "idle"] /\ result' = IF ok THEN "ok" ELSE "err"
      BY <2>1, <2>7, EndProg
    <3>2. pc'["prog"] = "idle" /\ (result' = "ok" => ok)
      BY <1>0, <3>1
    <3>3. ok => left = 1
      BY <2>4, <2>7
    <3>4. ok => Cardinality(batch) = Trunks
      BY <1>3, <2>4, <3>3
    <3> QED
      BY <1>1, <1>3, <2>3, <2>5, <3>2, <3>4 DEF Delivered, Sent, MidPcs
  <2> QED
    BY <2>6, <2>7
<1> QED
  BY <1>4, <1>5, <1>6, <1>7

(* The APU carries out the trunk it has, on the data that is the trunk's:  *)
(* nobody has used the shared memory since.                                *)
LEMMA DeliveredApu ==
  ASSUME TypeOK, Calmly, Delivered, Probe \/ ApuTake \/ ApuAnswer
  PROVE  Delivered'
<1>0. /\ pc \in [Clients -> Pcs] /\ "prog" \in Clients /\ At("prog")
      /\ cq.cons \in Nat /\ nextId \in Nat
  BY Numbers, RingTypes DEF TypeOK, Clients, Calmly
<1>1. /\ pc'["prog"] = pc["prog"] /\ handled \subseteq handled'
      /\ UNCHANGED <<req, batch, left, result, nextId>>
  BY <1>0 DEF Probe, ApuTake, ApuAnswer, Goto, clientVars
<1>2. CASE Sent
  <2>1. Busy("prog") /\ Sent'
    BY <1>1, <1>2 DEF Busy, Sent, MidPcs
  <2>2. /\ req["prog"].kind \in TrunkKinds /\ shm = req["prog"].id
        /\ pc["prog"] \in {"read", "check"} => req["prog"].id \in handled
    BY <1>2 DEF Delivered
  <2>3. CASE Probe
    <3>1. Busy("main") /\ "main" # "prog" /\ "main" \in Clients
      BY <2>3 DEF Probe, Busy, Clients
    <3> QED
      BY <1>0, <2>1, <3>1 DEF Calmly, OneTask
  <2>4. CASE ApuTake
    <3>1. sq.reg # sq.cons /\ UNCHANGED <<cq, shm>>
      BY <2>4, RingTypes DEF ApuTake
    <3>2. InSq("prog") /\ pc["prog"] = "poll"
      BY <1>0, <1>2, <3>1 DEF At, Sent, MidPcs, Empty, InApu, InCq
    <3>3. ~InCq("prog")'
      <4>1. cq'.reg # cq'.cons + 1
        BY <1>0, <3>1, <3>2 DEF InSq
      <4> QED
        BY <4>1 DEF InCq
    <3> QED
      BY <1>1, <1>2, <2>1, <3>1, <3>2, <3>3, DeliveredGoes
  <2>5. CASE ApuAnswer
    <3>1. apu # NoReq
      BY <2>5 DEF ApuAnswer
    <3>2. InApu("prog") /\ pc["prog"] = "poll"
      BY <1>0, <1>2, <3>1 DEF At, Sent, MidPcs, Empty, InSq, InCq
    <3>3. apu = req["prog"]
      BY <3>2 DEF InApu
    <3>4. shm' = shm /\ req["prog"].id \in handled'
      BY <2>2, <2>5, <3>3 DEF ApuAnswer, TrunkKinds
    <3> QED
      BY <1>1, <1>2, <2>1, <3>4, DeliveredGoes
  <2> QED
    BY <2>3, <2>4, <2>5
<1>3. CASE ~Sent
  <2>1. ~Sent'
    BY <1>1, <1>3 DEF Sent
  <2> QED
    BY <1>1, <1>3, <2>1 DEF Delivered
<1> QED
  BY <1>2, <1>3

(* As long as the channel is calm, every step keeps what is known of the   *)
(* download.                                                               *)
LEMMA DeliveredStep ==
  ASSUME TypeOK, LeftInv, Calmly, Delivered, [Next]_vars, Calm'
  PROVE  Delivered'
<1>0. OneTask /\ pc \in [Clients -> Pcs] /\ "prog" \in Clients /\ nextId \in Nat
  BY Numbers DEF Calmly, TypeOK, Clients
<1>1. ASSUME NEW t \in Clients \ {"prog"}, Begin(t) PROVE Delivered'
  <2>1. Alone(t) /\ UNCHANGED <<batch, left, result, handled, nextId>>
    BY <1>1 DEF Begin, Calm
  <2>2. \E p \in {"lock", "prepare"} : pc' = [pc EXCEPT ![t] = p]
    BY <1>1 DEF Begin, Goto
  <2>3. pc["prog"] \in {"idle", "gone"} /\ pc'["prog"] = pc["prog"]
    BY <1>0, <2>1, <2>2 DEF Alone
  <2>4. result' = "ok" => result = "ok" /\ pc'["prog"] = "idle"
    BY <2>1, <2>3 DEF Delivered
  <2>5. nextId' \in Nat /\ nextId <= nextId'
    BY <1>0, <2>1
  <2> QED
    BY <2>1, <2>3, <2>4, <2>5, DeliveredIdle
<1>2. ASSUME NEW t \in Clients \ {"prog"}, ClientStep(t) PROVE Delivered'
  <2>1. Busy(t)
    BY <1>2 DEF ClientStep, Busy, Acquire, Prepare, NotReady, ProduceSlot, ProduceBump, Fill, Notify,
         PollSome, PollNone, NothingYet, ConsumeBump, ReadCompletion, Check
  <2>2. ASSUME NEW ok \in BOOLEAN, End(t, ok)
        PROVE  /\ UNCHANGED <<batch, left, result>>
               /\ \E p \in Pcs : pc' = [pc EXCEPT ![t] = p]
    <3>1. UNCHANGED <<batch, left, result>>
      BY <1>2, <2>2, EndMain, EndOp DEF Clients
    <3>2. \E p \in {"idle", "gone", "lock", "prepare"} : pc' = [pc EXCEPT ![t] = p]
      BY <1>2, <2>2, EndMoves
    <3> QED
      BY <3>1, <3>2 DEF Pcs
  <2>3. /\ UNCHANGED <<batch, left, result, handled>>
        /\ nextId' \in {nextId, nextId + 1}
        /\ \E p \in Pcs : pc' = [pc EXCEPT ![t] = p]
    <3>1. CASE Acquire(t) \/ Prepare(t)
      BY <1>2, <3>1 DEF Acquire, Prepare, Goto, Pcs
    <3>2. CASE NotReady(t)
      BY <2>2, <3>2 DEF NotReady
    <3>3. CASE ProduceSlot(t)
      BY <2>2, <3>3 DEF ProduceSlot, Goto, Pcs, clientVars
    <3>4. CASE ProduceBump(t) \/ Fill(t) \/ Notify(t)
      BY <3>4 DEF ProduceBump, Fill, Notify, Goto, Pcs, clientVars
    <3>5. CASE PollSome(t) \/ ConsumeBump(t) \/ ReadCompletion(t)
      BY <3>5 DEF PollSome, ConsumeBump, ReadCompletion, Goto, Pcs, clientVars
    <3>6. CASE PollNone(t)
      <4>1. UNCHANGED <<handled, nextId>>
        BY <3>6 DEF PollNone
      <4>2. CASE End(t, FALSE)
        BY <2>2, <4>1, <4>2
      <4>3. CASE UNCHANGED <<clientVars, pc>>
        <5>1. pc' = [pc EXCEPT ![t] = pc[t]] /\ pc[t] \in Pcs
          BY <1>0, <4>3
        <5> QED
          BY <4>1, <4>3, <5>1 DEF clientVars
      <4> QED
        BY <3>6, <4>2, <4>3 DEF PollNone
    <3>7. CASE Check(t)
      <4>1. PICK ok \in BOOLEAN : End(t, ok)
        <5>1. Accepted(t) \in BOOLEAN
          BY DEF Accepted
        <5> QED
          BY <3>7, <5>1 DEF Check
      <4>2. UNCHANGED <<handled, nextId>>
        BY <3>7 DEF Check
      <4> QED
        BY <2>2, <4>1, <4>2
    <3> QED
      BY <1>2, <3>1, <3>2, <3>3, <3>4, <3>5, <3>6, <3>7 DEF ClientStep
  <2> QED
    BY <1>0, <2>1, <2>3, DeliveredOther
<1>3. CASE Begin("prog") \/ ClientStep("prog")
  <2>1. CASE Begin("prog") \/ Acquire("prog") \/ Prepare("prog") \/ NotReady("prog")
    BY <2>1, DeliveredPrepare
  <2>2. CASE ProduceSlot("prog") \/ ProduceBump("prog") \/ Fill("prog") \/ Notify("prog")
    BY <2>2, DeliveredProduce
  <2>3. CASE PollSome("prog") \/ PollNone("prog") \/ ConsumeBump("prog")
               \/ ReadCompletion("prog") \/ Check("prog")
    BY <2>3, DeliveredPoll
  <2> QED
    BY <1>3, <2>1, <2>2, <2>3 DEF ClientStep
<1>4. CASE Probe \/ ApuStep
  BY <1>4, DeliveredApu DEF ApuStep
<1>5. CASE UNCHANGED vars
  BY <1>5 DEF vars, Delivered, Sent, InCq
<1>6. CASE Quiet
  <2>1. UNCHANGED vars
    BY <1>6 DEF Quiet
  <2> QED
    BY <1>5, <2>1
<1> QED
  BY <1>1, <1>2, <1>3, <1>4, <1>5, <1>6 DEF Next

(* Every step keeps the invariant of the calm channel.                     *)
LEMMA CalmStep == TypeOK /\ LeftInv /\ CalmInv /\ [Next]_vars => CalmInv'
<1> SUFFICES ASSUME TypeOK, LeftInv, CalmInv, [Next]_vars, Calm' PROVE (Calmly /\ Delivered)'
  BY DEF CalmInv
<1>1. Calmly /\ Delivered
  BY CalmBefore DEF CalmInv
<1> QED
  BY <1>1, CalmlyStep, DeliveredStep

(* The channel is calm before the probe.                                   *)
LEMMA CalmInit == Init => CalmInv
<1> SUFFICES ASSUME Init PROVE Calmly /\ Delivered
  BY DEF CalmInv
<1>1. /\ sq.prod = 0 /\ sq.reg = 0 /\ sq.cons = 0 /\ cq.cons = 0 /\ cq.prod = 0 /\ cq.reg = 0
      /\ apu = NoReq /\ batch = {} /\ result = "none" /\ nextId = 1
  BY DEF Init
<1>2. \A t \in Clients : pc[t] = IF t = "main" THEN "probe" ELSE "idle"
  BY DEF Init
<1>3. Empty
  BY <1>1 DEF Empty
<1>4. Calmly
  <2>1. OneTask
    BY <1>2 DEF OneTask, Busy
  <2>2. \A t \in Clients : At(t)
    BY <1>1, <1>2, <1>3 DEF At, MidPcs
  <2> QED
    BY <1>1, <1>3, <2>1, <2>2 DEF Calmly
<1>5. Delivered
  <2>1. pc["prog"] = "idle"
    BY <1>2 DEF Clients
  <2> QED
    BY <1>1, <2>1 DEF Delivered, Sent, MidPcs
<1> QED
  BY <1>4, <1>5

(* The invariant of the channel holds in every state.                      *)
LEMMA CalmAlways == Spec => [](TypeOK /\ LeftInv /\ CalmInv)
<1>1. Init => TypeOK /\ LeftInv /\ CalmInv
  BY TypeInit, CalmInit
<1>2. TypeOK /\ LeftInv /\ CalmInv /\ [Next]_vars => (TypeOK /\ LeftInv /\ CalmInv)'
  BY TypeStep, CalmStep
<1> QED
  BY <1>1, <1>2, PTL DEF Spec

(* All requests of xgq_client carry the same command id, so nothing in an  *)
(* answer tells whose it is: still the answer a task accepts is the answer *)
(* to its own request, as long as the tasks do not overlap and no request  *)
(* takes longer than APU_XGQ_TIMEOUT.                                      *)
THEOREM AnswersAreOwn == Spec => []AnswerIsOwn
<1>1. TypeOK /\ LeftInv /\ CalmInv => AnswerIsOwn
  BY DEF CalmInv, Calmly, At, AnswerIsOwn
<1> QED
  BY <1>1, CalmAlways, PTL

(* When rmgmt_apu_download_xclbin returns 0, the APU has carried out every *)
(* trunk of the image, each with its own data in the shared memory, as     *)
(* long as the channel is calm.                                            *)
THEOREM DownloadWhole == Spec => []DownloadDelivered
<1>1. TypeOK /\ LeftInv /\ CalmInv => DownloadDelivered
  BY DEF CalmInv, Delivered, DownloadDelivered
<1> QED
  BY <1>1, CalmAlways, PTL
=============================================================================
