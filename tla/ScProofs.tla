---------------------------- MODULE ScProofs --------------------------------
(***************************************************************************)
(* Theorems about the satellite controller.                                *)
(*                                                                         *)
(* The link to it, for answers of any length and a FIFO of any size: what  *)
(* the task believes of the SC is so, whatever is lost, late or damaged,   *)
(* and as long as nothing is, the interrupts and the task between them     *)
(* lose no answer.                                                         *)
(*                                                                         *)
(* The update of its firmware, for an image of any sections and packets of *)
(* any size: an update that reports success has left out nothing but what  *)
(* was lost on the wire, and one on a wire that works succeeds.            *)
(***************************************************************************)
EXTENDS ScLink, ScUpdate, SequenceTheorems, FiniteSetTheorems, WellFoundedInduction, TLAPS

-----------------------------------------------------------------------------
(* The invariants                                                          *)

Known == [active : BOOLEAN, power : BOOLEAN, snsr : BOOLEAN, board : BOOLEAN,
          learned : [SensorKinds -> 0..BufMax]]
TaskTypes ==
  /\ at \in 1..10 /\ pc \in {"delay", "begin", "send", "wait", "got", "failed", "flush", "drain"}
  /\ known \in Known /\ last \in {"none", "miss"} \cup {r.kind : r \in Requests}
UartTypes ==
  /\ rxSem \in BOOLEAN /\ irq \in BOOLEAN /\ raw \in BOOLEAN /\ overrun \in BOOLEAN
  /\ buf \in Seq(Bytes) /\ want \in 0..BufMax /\ Len(buf) <= want
  /\ fifo \in Seq(Bytes) /\ Len(fifo) <= Fifo /\ count \in 0..BufMax
  /\ event \subseteq {"complete", "error"}
RemoteTypes ==
  /\ wire \in Seq(Bytes) /\ sc \in Seq(Requests) /\ heard \subseteq Requests
  /\ faults \in 0..MaxFaults
LinkTypes == TaskTypes /\ UartTypes /\ RemoteTypes

(* Where the bytes come from: the SC has carried out the request they      *)
(* answer, unless they are damaged.                                        *)
HeardOf(h, b) == b = Damaged \/ \E r \in h : b.kind = r.kind /\ b.of = r.of
AllHeard(s)   == \A i \in 1..Len(s) : HeardOf(heard, s[i])
HeardInv == AllHeard(wire) /\ AllHeard(fifo) /\ AllHeard(buf) /\ BelievesOnlyWhatScDid

(* The lengths the SC has announced are its own, and the answer to a       *)
(* sensor message is not asked for with a length that was never learned.   *)
LengthsInv ==
  /\ \A k \in SensorKinds : known.learned[k] \in {0, SensorLen[k]}
  /\ known.snsr => \A k \in SensorKinds : known.learned[k] # 0
  /\ faults = 0 => \A i \in 3..5 : i < at => known.learned[Cycle[i].of] # 0

(* While the link is idle nothing is left of an earlier answer; while the  *)
(* task waits, the answer is somewhere on its way, in order, and the task  *)
(* is told exactly when all of it has come.                                *)
Idle == sc = <<>> /\ wire = <<>> /\ fifo = <<>> /\ event = {}
CalmInv ==
  faults = 0 =>
    /\ ~overrun /\ (raw <=> fifo # <<>>) /\ last # "miss"
    /\ pc \in {"delay", "begin", "send", "wait", "got"}
    /\ pc \in {"delay", "begin"} => Idle
    /\ pc = "send" => Idle /\ buf = <<>> /\ irq /\ want = LenOf(req)
    /\ pc = "wait" =>
         /\ irq /\ want = LenOf(req)
         /\ \/ sc = <<req>> /\ wire = <<>> /\ fifo = <<>> /\ buf = <<>> /\ event = {}
            \/ /\ sc = <<>> /\ buf \o (fifo \o wire) = AnswerTo(req)
               /\ Len(buf) = want => event = {"complete"} /\ count = want
               /\ Len(buf) # want => event = {}
    /\ pc = "got" => Idle /\ buf = AnswerTo(req) /\ count = LenOf(req)


-----------------------------------------------------------------------------
(* The bytes that are taken from the FIFO and those that stay              *)

(* XUartPsv_ReceiveBuffer splits what the FIFO holds in two: nothing is    *)
(* lost, doubled or put out of order.                                      *)
LEMMA Split ==
  ASSUME NEW S, NEW s \in Seq(S), NEW n \in Nat
  PROVE  /\ Take(s, n) \in Seq(S) /\ Drop(s, n) \in Seq(S)
         /\ Take(s, n) \o Drop(s, n) = s
         /\ Len(Take(s, n)) = IF n < Len(s) THEN n ELSE Len(s)
         /\ Len(Drop(s, n)) = IF n < Len(s) THEN Len(s) - n ELSE 0
         /\ \A i \in 1..Len(Take(s, n)) : \E j \in 1..Len(s) : Take(s, n)[i] = s[j]
         /\ \A i \in 1..Len(Drop(s, n)) : \E j \in 1..Len(s) : Drop(s, n)[i] = s[j]
<1> DEFINE L == Len(s)
           t == Take(s, n)
           d == Drop(s, n)
<1>0. L \in Nat /\ \A i \in 1..L : s[i] \in S
  OBVIOUS
<1>1. CASE n < L
  <2>1. t = SubSeq(s, 1, n) /\ d = SubSeq(s, n + 1, L)
    BY <1>1 DEF Take, Drop
  <2>2. t \o d = s
    <3>1. SubSeq(s, 1, n) \o SubSeq(s, n + 1, L) = SubSeq(s, 1, L)
      <4>1. 1 \in 1..Len(s) + 1 /\ n \in (1 - 1)..Len(s) /\ L \in n..Len(s)
        BY <1>0, <1>1
      <4> QED
        BY <4>1, ConcatAdjacentSubSeq
    <3> QED
      BY <2>1, <3>1, SubSeqFull
  <2> HIDE DEF t, d
  <2>3. t \in Seq(S) /\ Len(t) = n /\ \A i \in 1..n : t[i] = s[i]
    BY <1>0, <1>1, <2>1
  <2>4. d \in Seq(S) /\ Len(d) = L - n /\ \A i \in 1..(L - n) : d[i] = s[n + i] /\ n + i \in 1..L
    BY <1>0, <1>1, <2>1
  <2>5. \A i \in 1..Len(t) : \E j \in 1..L : t[i] = s[j]
    BY <1>0, <1>1, <2>3
  <2>6. \A i \in 1..Len(d) : \E j \in 1..L : d[i] = s[j]
    BY <1>0, <1>1, <2>4
  <2> QED
    BY <1>1, <2>2, <2>3, <2>4, <2>5, <2>6 DEF t, d
<1>2. CASE ~(n < L)
  <2>1. t = s
    BY <1>2, SubSeqFull DEF Take
  <2>2. d = <<>>
    BY <1>0, <1>2, SubSeqEmpty DEF Drop
  <2>3. s \o <<>> = s /\ <<>> \in Seq(S) /\ Len(<<>>) = 0
    BY ConcatEmptySeq
  <2> HIDE DEF t, d
  <2>4. \A i \in 1..Len(t) : \E j \in 1..L : t[i] = s[j]
    BY <2>1
  <2>5. \A i \in 1..Len(d) : \E j \in 1..L : d[i] = s[j]
    BY <2>2, <2>3
  <2> QED
    BY <1>2, <2>1, <2>2, <2>3, <2>4, <2>5 DEF t, d
<1> QED
  BY <1>1, <1>2

(* The requests of a round.                                                *)
LEMMA CycleIs ==
  /\ Len(Cycle) = 10
  /\ Cycle[1] = Ask("active") /\ Cycle[2] = Ask("version")
  /\ Cycle[3] = Size("volt") /\ Cycle[4] = Size("power") /\ Cycle[5] = Size("temp")
  /\ Cycle[6] = Ask("board") /\ Cycle[7] = Ask("volt") /\ Cycle[8] = Ask("power")
  /\ Cycle[9] = Ask("temp") /\ Cycle[10] = Ask("i2c")
BY DEF Cycle

(* The same, as a set: of a kind other than "size" there is one request.   *)
LEMMA RequestsAre ==
  ASSUME NEW r \in Requests
  PROVE  /\ \/ /\ r \in {Ask("active"), Ask("version"), Ask("board"), Ask("volt"), Ask("power"), Ask("temp"), Ask("i2c")}
               /\ r = Ask(r.kind) /\ r.kind # "size"
               /\ r.kind \in {"active", "version", "board", "volt", "power", "temp", "i2c"}
            \/ /\ r.kind = "size" /\ r.of \in SensorKinds /\ r = Size(r.of)
         /\ r.kind \notin {"damaged", "miss", "none"}
<1>1. PICK i \in 1..10 : r = Cycle[i]
  BY CycleIs DEF Requests
<1>2. \/ i = 1 \/ i = 2 \/ i = 3 \/ i = 4 \/ i = 5 \/ i = 6 \/ i = 7 \/ i = 8 \/ i = 9 \/ i = 10
  BY <1>1
<1>3. r \in {Ask("active"), Ask("version"), Ask("board"), Ask("volt"), Ask("power"), Ask("temp"), Ask("i2c"),
             Size("volt"), Size("power"), Size("temp")}
  BY <1>1, <1>2, CycleIs
<1> QED
  BY <1>3 DEF Ask, Size, SensorKinds

(* An answer has the length the task expects, more than two bytes' worth,  *)
(* and says which request it answers.                                      *)
LEMMA AnswerIs ==
  ASSUME NEW r \in Requests
  PROVE  /\ LenOf(r) \in 2..BufMax /\ BufMax \in Nat
         /\ AnswerTo(r) \in Seq(Bytes) /\ Len(AnswerTo(r)) = LenOf(r)
         /\ \A i \in 1..LenOf(r) : AnswerTo(r)[i].kind = r.kind /\ AnswerTo(r)[i].of = r.of
<1>1. LenOf(r) \in 2..BufMax /\ BufMax \in Nat
  BY ScLinkAssumption DEF LenOf
<1>2. AnswerTo(r) = [i \in 1..LenOf(r) |-> [kind |-> r.kind, of |-> r.of, i |-> i]]
  BY DEF AnswerTo
<1>3. \A i \in 1..LenOf(r) : AnswerTo(r)[i] \in Bytes
  <2>1. ASSUME NEW i \in 1..LenOf(r) PROVE AnswerTo(r)[i] \in Bytes
    <3> DEFINE B == {AnswerTo(r)[j] : j \in 1..LenOf(r)}
    <3>1. AnswerTo(r)[i] \in B
      OBVIOUS
    <3>2. B \subseteq Bytes
      BY Zenon DEF Bytes
    <3> QED
      BY <3>1, <3>2
  <2> QED
    BY <2>1
<1> HIDE DEF Bytes
<1>4. AnswerTo(r) \in [1..LenOf(r) -> Bytes]
  BY <1>2, <1>3
<1>5. LenOf(r) \in Nat
  BY <1>1
<1>6. AnswerTo(r) \in Seq(Bytes) /\ Len(AnswerTo(r)) = LenOf(r)
  BY <1>4, <1>5
<1> QED
  BY <1>1, <1>2, <1>6

(* A byte that is not damaged belongs to a request of the round.           *)
LEMMA ByteIs ==
  ASSUME NEW b \in Bytes
  PROVE  b = Damaged \/ \E r \in Requests : b.kind = r.kind /\ b.of = r.of
<1>1. b = Damaged \/ \E r \in Requests : b \in {AnswerTo(r)[i] : i \in 1..LenOf(r)}
  BY Zenon DEF Bytes
<1>2. ASSUME NEW r \in Requests, b \in {AnswerTo(r)[i] : i \in 1..LenOf(r)}
      PROVE  b.kind = r.kind /\ b.of = r.of
  <2>1. PICK i \in 1..LenOf(r) : b = AnswerTo(r)[i]
    BY <1>2
  <2> QED
    BY <2>1, AnswerIs
<1> QED
  BY <1>1, <1>2

(* What the SC was asked and what it was made to say.                      *)
LEMMA Answered ==
  ASSUME NEW r \in Requests, NEW w \in Seq(Bytes),
         NEW x \in {w, w \o AnswerTo(r), w \o [AnswerTo(r) EXCEPT ![1] = Damaged]}
  PROVE  /\ x \in Seq(Bytes)
         /\ \A i \in 1..Len(x) : \/ i \in 1..Len(w) /\ x[i] = w[i]
                                 \/ x[i] = Damaged
                                 \/ x[i].kind = r.kind /\ x[i].of = r.of
<1> DEFINE a == AnswerTo(r)
           d == [a EXCEPT ![1] = Damaged]
<1>1. a \in Seq(Bytes) /\ Len(a) \in Nat /\ Damaged \in Bytes
  <2>1. Damaged \in Bytes
    BY Zenon DEF Bytes
  <2>2. a \in Seq(Bytes)
    BY AnswerIs
  <2> QED
    BY <2>1, <2>2
<1>2. \A i \in 1..Len(a) : a[i].kind = r.kind /\ a[i].of = r.of
  BY AnswerIs
<1>3. d \in Seq(Bytes) /\ Len(d) = Len(a) /\ \A i \in 1..Len(d) : d[i] = Damaged \/ d[i] = a[i]
  <2> HIDE DEF a
  <2>1. \A i \in 1..Len(a) : a[i] \in Bytes
    BY <1>1
  <2>2. a = [i \in 1..Len(a) |-> a[i]]
    BY <1>1
  <2>3. d = [i \in 1..Len(a) |-> IF i = 1 THEN Damaged ELSE a[i]]
    BY <2>2
  <2> HIDE DEF d
  <2>4. d \in [1..Len(a) -> Bytes]
    BY <1>1, <2>1, <2>3
  <2>5. d \in Seq(Bytes) /\ Len(d) = Len(a)
    BY <1>1, <2>4
  <2> QED
    BY <2>3, <2>5
<1> HIDE DEF a, d
<1>4. CASE x = w
  BY <1>4
<1>5. ASSUME NEW e \in Seq(Bytes), x = w \o e,
             \A i \in 1..Len(e) : e[i] = Damaged \/ (e[i].kind = r.kind /\ e[i].of = r.of)
      PROVE  /\ x \in Seq(Bytes)
             /\ \A i \in 1..Len(x) : \/ i \in 1..Len(w) /\ x[i] = w[i]
                                     \/ x[i] = Damaged
                                     \/ x[i].kind = r.kind /\ x[i].of = r.of
  <2>1. /\ x \in Seq(Bytes) /\ Len(x) = Len(w) + Len(e)
        /\ \A i \in 1..Len(w) + Len(e) : x[i] = IF i <= Len(w) THEN w[i] ELSE e[i - Len(w)]
    BY <1>5, ConcatProperties
  <2>2. Len(w) \in Nat /\ Len(e) \in Nat
    OBVIOUS
  <2>3. ASSUME NEW i \in 1..Len(x)
        PROVE  \/ i \in 1..Len(w) /\ x[i] = w[i]
               \/ x[i] = Damaged
               \/ x[i].kind = r.kind /\ x[i].of = r.of
    <3>1. CASE i <= Len(w)
      BY <2>1, <2>2, <3>1
    <3>2. CASE ~(i <= Len(w))
      <4>0. i \in 1..Len(w) + Len(e)
        BY <2>1
      <4>1. i - Len(w) \in 1..Len(e) /\ x[i] = e[i - Len(w)]
        <5>1. \A m, k \in Nat : \A z \in 1..m + k : ~(z <= m) => z - m \in 1..k
          OBVIOUS
        <5> QED
          BY <2>1, <2>2, <3>2, <4>0, <5>1
      <4> QED
        BY <1>5, <4>1
    <3> QED
      BY <3>1, <3>2
  <2> QED
    BY <2>1, <2>3
<1>6. x = w \/ x = w \o a \/ x = w \o d
  BY DEF a, d
<1> QED
  BY <1>1, <1>2, <1>3, <1>4, <1>5, <1>6

-----------------------------------------------------------------------------
(* The UART                                                                *)

(* What an interrupt takes out of the FIFO goes to the end of the buffer,  *)
(* as far as there is room.                                                *)
LEMMA Received ==
  ASSUME UartTypes, ReceiveBuffer
  PROVE  /\ buf' \in Seq(Bytes) /\ fifo' \in Seq(Bytes) /\ Len(buf') <= want /\ Len(buf') \in 0..BufMax
         /\ Len(fifo') <= Fifo
         /\ Len(fifo) <= Room => fifo' = <<>> /\ buf' = buf \o fifo
         /\ AllHeard(fifo) /\ AllHeard(buf) => AllHeard(fifo') /\ AllHeard(buf')
<1> DEFINE t == Take(fifo, Room)
           d == Drop(fifo, Room)
<1>0. buf \in Seq(Bytes) /\ fifo \in Seq(Bytes) /\ Len(buf) \in Nat /\ Len(fifo) \in Nat /\ BufMax \in Nat /\ Fifo \in Nat
      /\ want \in 0..BufMax /\ Len(buf) <= want /\ Len(fifo) <= Fifo
  BY ScLinkAssumption DEF UartTypes
<1>1. Room \in Nat /\ Room + Len(buf) = want
  BY <1>0 DEF Room
<1>2. buf' = buf \o t /\ fifo' = d
  BY DEF ReceiveBuffer
<1>3. /\ t \in Seq(Bytes) /\ d \in Seq(Bytes) /\ t \o d = fifo
      /\ Len(t) = (IF Room < Len(fifo) THEN Room ELSE Len(fifo))
      /\ Len(d) = (IF Room < Len(fifo) THEN Len(fifo) - Room ELSE 0)
  BY <1>0, <1>1, Split
<1>4. /\ \A i \in 1..Len(t) : \E j \in 1..Len(fifo) : t[i] = fifo[j]
      /\ \A i \in 1..Len(d) : \E j \in 1..Len(fifo) : d[i] = fifo[j]
  BY <1>0, <1>1, Split
<1> HIDE DEF t, d, Room
<1>5. /\ buf \o t \in Seq(Bytes) /\ Len(buf \o t) = Len(buf) + Len(t)
      /\ \A i \in 1..Len(buf) + Len(t) : (buf \o t)[i] = IF i <= Len(buf) THEN buf[i] ELSE t[i - Len(buf)]
  BY <1>0, <1>3, ConcatProperties
<1>6. Len(buf') <= want /\ Len(buf') \in 0..BufMax /\ Len(fifo') <= Fifo
  <2>1. Len(t) \in Nat /\ Len(d) \in Nat
    BY <1>3
  <2>2. Len(t) <= Room /\ Len(d) <= Len(fifo)
    BY <1>0, <1>1, <1>3, <2>1
  <2>3. Len(buf') = Len(buf) + Len(t) /\ Len(fifo') = Len(d)
    BY <1>2, <1>5
  <2> QED
    BY <1>0, <1>1, <2>1, <2>2, <2>3
<1>7. ASSUME Len(fifo) <= Room PROVE fifo' = <<>> /\ buf' = buf \o fifo
  <2>1. Len(d) = 0
    BY <1>0, <1>1, <1>3, <1>7
  <2>2. d = <<>>
    BY <1>3, <2>1, EmptySeq
  <2>3. t = fifo
    BY <1>3, <2>2, ConcatEmptySeq
  <2> QED
    BY <1>2, <2>2, <2>3
<1>8. ASSUME AllHeard(fifo), AllHeard(buf) PROVE AllHeard(d) /\ AllHeard(buf \o t)
  <2>1. AllHeard(d) /\ AllHeard(t)
    BY <1>4, <1>8 DEF AllHeard
  <2>2. ASSUME NEW i \in 1..Len(buf) + Len(t)
        PROVE  HeardOf(heard, (buf \o t)[i])
    <3>1. CASE i <= Len(buf)
      <4>1. i \in 1..Len(buf)
        BY <1>0, <1>3, <3>1
      <4> QED
        BY <1>5, <1>8, <3>1, <4>1 DEF AllHeard
    <3>2. CASE ~(i <= Len(buf))
      <4>1. i - Len(buf) \in 1..Len(t)
        <5>1. \A m, k \in Nat : \A z \in 1..m + k : ~(z <= m) => z - m \in 1..k
          OBVIOUS
        <5>2. Len(t) \in Nat
          BY <1>3
        <5> QED
          BY <1>0, <3>2, <5>1, <5>2
      <4> QED
        BY <1>5, <2>1, <3>2, <4>1 DEF AllHeard
    <3> QED
      BY <3>1, <3>2
  <2> QED
    BY <1>5, <2>1, <2>2 DEF AllHeard
<1>9. AllHeard(fifo) /\ AllHeard(buf) => AllHeard(fifo') /\ AllHeard(buf')
  BY <1>2, <1>8
<1> QED
  BY <1>2, <1>3, <1>5, <1>6, <1>7, <1>9

(* An interrupt, of any of the three kinds.                                *)
LEMMA IsrSteps ==
  ASSUME Isr, LinkTypes
  PROVE  /\ UartTypes'
         /\ UNCHANGED <<at, pc, known, remote, last, rxSem, irq, want>>
         /\ irq /\ ReceiveBuffer
         /\ faults' \in 0..MaxFaults /\ (faults' = 0 => faults = 0)
         /\ \/ /\ Room > 0 /\ raw' = (raw /\ fifo' # <<>>) /\ overrun' = overrun /\ faults' = faults
               /\ HalfFull
               /\ \/ Len(buf') = want /\ event' = event \cup {"complete"} /\ count' = want
                  \/ Len(buf') # want /\ event' = event /\ count' = count
            \/ /\ raw /\ raw' = FALSE /\ overrun' = overrun /\ event' = event \cup {"complete"} /\ count' = Len(buf')
               /\ faults' = 0 => wire = <<>> /\ ~Busy
            \/ overrun
<1>0. faults \in 0..MaxFaults /\ MaxFaults \in Nat /\ BufMax \in Nat
  BY ScLinkAssumption DEF LinkTypes, RemoteTypes
<1>1. UartTypes
  BY DEF LinkTypes
<1>2. ASSUME ReceiveBuffer, UNCHANGED <<rxSem, irq, want>>, raw' \in BOOLEAN, overrun' \in BOOLEAN,
             event' \subseteq event \cup {"complete", "error"}, count' \in {count, want, Len(buf')}
      PROVE  UartTypes'
  BY <1>1, <1>2, Received DEF UartTypes
<1>3. CASE DataIsr
  <2>1. /\ ReceiveBuffer /\ irq /\ Room > 0 /\ HalfFull
        /\ raw' = (raw /\ fifo' # <<>>)
        /\ UNCHANGED <<at, pc, known, rxSem, irq, want, overrun, remote, faults, last>>
        /\ \/ Len(buf') = want /\ event' = event \cup {"complete"} /\ count' = want
           \/ Len(buf') # want /\ event' = event /\ count' = count
    BY <1>3 DEF DataIsr
  <2>2. raw' \in BOOLEAN /\ overrun' \in BOOLEAN
    BY <1>1, <2>1 DEF UartTypes
  <2>3. UartTypes'
    BY <1>2, <2>1, <2>2
  <2> QED
    BY <1>0, <2>1, <2>3
<1>4. CASE IdleIsr
  <2>1. /\ ReceiveBuffer /\ irq /\ raw /\ raw' = FALSE /\ event' = event \cup {"complete"} /\ count' = Len(buf')
        /\ UNCHANGED <<at, pc, known, rxSem, irq, want, overrun, remote, last>>
        /\ Fault(wire # <<>> \/ Busy)
    BY <1>4 DEF IdleIsr
  <2>2. raw' \in BOOLEAN /\ overrun' \in BOOLEAN
    BY <1>1, <2>1 DEF UartTypes
  <2>3. UartTypes'
    BY <1>2, <2>1, <2>2
  <2>4. /\ faults' \in 0..MaxFaults /\ (faults' = 0 => faults = 0)
        /\ faults' = 0 => wire = <<>> /\ ~Busy
    BY <1>0, <2>1 DEF Fault
  <2> QED
    BY <2>1, <2>3, <2>4
<1>5. CASE ErrorIsr
  <2>1. /\ ReceiveBuffer /\ irq /\ overrun /\ overrun' = FALSE /\ raw' = (raw /\ fifo' # <<>>)
        /\ event' = event \cup {"error"} /\ count' = Len(buf')
        /\ UNCHANGED <<at, pc, known, rxSem, irq, want, remote, faults, last>>
    BY <1>5 DEF ErrorIsr
  <2>2. raw' \in BOOLEAN /\ overrun' \in BOOLEAN
    BY <1>1, <2>1 DEF UartTypes
  <2>3. UartTypes'
    BY <1>2, <2>1, <2>2
  <2> QED
    BY <1>0, <2>1, <2>3
<1> QED
  BY <1>3, <1>4, <1>5 DEF Isr

(* Bytes on their way reach the FIFO in their order, the rest of what does *)
(* not fit is lost.                                                        *)
LEMMA DeliverSteps ==
  ASSUME Deliver, LinkTypes
  PROVE  /\ UartTypes' /\ wire' \in Seq(Bytes)
         /\ UNCHANGED <<at, pc, known, rxSem, irq, buf, want, event, count, sc, heard, last>>
         /\ faults' \in 0..MaxFaults /\ (faults' = 0 => faults = 0 /\ ~Busy)
         /\ AllHeard(wire) /\ AllHeard(fifo) => AllHeard(wire') /\ AllHeard(fifo')
         /\ wire # <<>> /\ raw' = TRUE
         /\ irq /\ Room > 0 => overrun' = overrun /\ fifo' # <<>> /\ fifo' \o wire' = fifo \o wire
<1>0. /\ faults \in 0..MaxFaults /\ MaxFaults \in Nat /\ Fifo \in Nat \ {0}
      /\ fifo \in Seq(Bytes) /\ wire \in Seq(Bytes) /\ Len(fifo) <= Fifo /\ Len(wire) \in Nat /\ Len(fifo) \in Nat
  BY ScLinkAssumption DEF LinkTypes, RemoteTypes, UartTypes
<1>1. PICK n \in 1..Len(wire) :
        /\ (irq /\ Room > 0) => Len(fifo) + n <= Fifo
        /\ fifo' = Take(fifo \o SubSeq(wire, 1, n), Fifo)
        /\ wire' = Drop(wire, n)
        /\ overrun' = (overrun \/ Len(fifo) + n > Fifo)
        /\ raw' = TRUE
        /\ Fault(Busy)
        /\ UNCHANGED <<at, pc, known, rxSem, irq, buf, want, event, count, sc, heard, last>>
  BY DEF Deliver
<1> DEFINE x == SubSeq(wire, 1, n)
           d == Drop(wire, n)
           y == fifo \o x
<1>2. /\ x \in Seq(Bytes) /\ Len(x) = n /\ n \in Nat /\ n >= 1 /\ \A i \in 1..n : x[i] = wire[i] /\ i \in 1..Len(wire)
  BY <1>0
<1>3. /\ d \in Seq(Bytes)
      /\ \A i \in 1..Len(d) : \E j \in 1..Len(wire) : d[i] = wire[j]
  <2>1. n \in Nat /\ wire \in Seq(Bytes)
    BY <1>0
  <2> QED
    BY SMTT(30), <2>1, Split
<1>4. x \o d = wire
  <2>1. 1 \in 1..Len(wire) + 1 /\ n \in (1 - 1)..Len(wire) /\ Len(wire) \in n..Len(wire)
    BY <1>0
  <2>2. SubSeq(wire, 1, n) \o SubSeq(wire, n + 1, Len(wire)) = SubSeq(wire, 1, Len(wire))
    BY <1>0, <2>1, ConcatAdjacentSubSeq
  <2> QED
    BY <1>0, <2>2, SubSeqFull DEF Drop
<1>5. fifo' = Take(y, Fifo) /\ wire' = d
  BY <1>1
<1> HIDE DEF x, d
<1>6. /\ y \in Seq(Bytes) /\ Len(y) = Len(fifo) + n
      /\ \A i \in 1..Len(fifo) + n : y[i] = IF i <= Len(fifo) THEN fifo[i] ELSE x[i - Len(fifo)]
  <2>1. fifo \in Seq(Bytes) /\ x \in Seq(Bytes)
    BY <1>0, <1>2
  <2>2. /\ y \in Seq(Bytes) /\ Len(y) = Len(fifo) + Len(x)
        /\ \A i \in 1..Len(fifo) + Len(x) : y[i] = IF i <= Len(fifo) THEN fifo[i] ELSE x[i - Len(fifo)]
    BY <2>1, ConcatProperties
  <2>3. Len(x) = n
    BY <1>2
  <2> QED
    BY <2>2, <2>3
<1>7. /\ fifo' \in Seq(Bytes) /\ Len(fifo') = (IF Fifo < Len(y) THEN Fifo ELSE Len(y))
      /\ \A i \in 1..Len(fifo') : \E j \in 1..Len(y) : fifo'[i] = y[j]
  <2>1. y \in Seq(Bytes) /\ Fifo \in Nat
    BY <1>0, <1>6
  <2> HIDE DEF y
  <2> QED
    BY <1>5, <2>1, Split
<1>8. Len(fifo') <= Fifo
  BY <1>0, <1>2, <1>6, <1>7
<1>9. overrun' \in BOOLEAN /\ raw' \in BOOLEAN
  <2>1. overrun' = (overrun \/ Len(fifo) + n > Fifo) /\ raw' = TRUE
    BY <1>1
  <2> QED
    BY <2>1
<1>10. UartTypes'
  BY <1>1, <1>7, <1>8, <1>9 DEF LinkTypes, UartTypes
<1>11. faults' \in 0..MaxFaults /\ (faults' = 0 => faults = 0 /\ ~Busy)
  BY <1>0, <1>1 DEF Fault
<1>12. ASSUME AllHeard(wire), AllHeard(fifo) PROVE AllHeard(d) /\ AllHeard(fifo')
  <2>1. AllHeard(d) /\ \A i \in 1..n : HeardOf(heard, x[i])
    BY <1>2, <1>3, <1>12 DEF AllHeard
  <2>2. ASSUME NEW i \in 1..Len(fifo) + n PROVE HeardOf(heard, y[i])
    <3>1. CASE i <= Len(fifo)
      <4>1. i \in 1..Len(fifo)
        BY <1>0, <1>2, <3>1
      <4>2. y[i] = fifo[i]
        BY <1>6, <3>1
      <4> QED
        BY <1>12, <4>1, <4>2 DEF AllHeard
    <3>2. CASE ~(i <= Len(fifo))
      <4>1. i - Len(fifo) \in 1..n
        <5>1. \A m, k \in Nat : \A z \in 1..m + k : ~(z <= m) => z - m \in 1..k
          OBVIOUS
        <5> QED
          BY <1>0, <1>2, <3>2, <5>1
      <4>2. y[i] = x[i - Len(fifo)]
        BY <1>6, <3>2
      <4> QED
        BY <2>1, <4>1, <4>2
    <3> QED
      BY <3>1, <3>2
  <2>3. AllHeard(fifo')
    BY <1>6, <1>7, <2>2 DEF AllHeard
  <2> QED
    BY <2>1, <2>3
<1>13. AllHeard(wire) /\ AllHeard(fifo) => AllHeard(wire') /\ AllHeard(fifo')
  BY <1>5, <1>12
<1>14. wire # <<>>
  BY <1>0, <1>2
<1>15. ASSUME irq, Room > 0 PROVE overrun' = overrun /\ fifo' # <<>> /\ fifo' \o wire' = fifo \o wire
  <2>1. Len(fifo) + n <= Fifo
    BY <1>1, <1>15
  <2>2. ~(Len(fifo) + n > Fifo) /\ ~(Fifo < Len(y))
    BY <1>0, <1>2, <1>6, <2>1
  <2>3. overrun' = (overrun \/ Len(fifo) + n > Fifo)
    BY <1>1
  <2>4. overrun \in BOOLEAN
    BY DEF LinkTypes, UartTypes
  <2>5. overrun' = overrun
    BY <2>2, <2>3, <2>4
  <2>6. fifo' = y
    BY <1>5, <1>6, <2>2, SubSeqFull DEF Take
  <2>7. fifo' # <<>>
    BY <1>0, <1>2, <1>6, <2>6
  <2>8. y \o d = fifo \o (x \o d)
    <3>1. fifo \in Seq(Bytes) /\ x \in Seq(Bytes) /\ d \in Seq(Bytes)
      BY <1>0, <1>2, <1>3
    <3> QED
      BY <3>1, ConcatAssociative
  <2> QED
    BY <1>4, <1>5, <2>5, <2>6, <2>7, <2>8
<1> QED
  BY <1>1, <1>3, <1>5, <1>10, <1>11, <1>13, <1>14, <1>15

(* UART_RTOS_Receive_Set_Buffer: the new buffer begins with what the FIFO  *)
(* holds.                                                                  *)
LEMMA BufferSet ==
  ASSUME UartTypes, NEW n \in 0..BufMax, NEW then, SetBuffer(n, then)
  PROVE  /\ UartTypes'
         /\ irq' /\ want' = n /\ pc' = then /\ UNCHANGED <<event, count, overrun>>
         /\ raw' = (raw /\ fifo' # <<>>)
         /\ fifo = <<>> => buf' = <<>> /\ fifo' = <<>>
         /\ AllHeard(fifo) => AllHeard(fifo') /\ AllHeard(buf')
<1>0. /\ fifo \in Seq(Bytes) /\ n \in Nat /\ BufMax \in Nat /\ Len(fifo) \in Nat /\ Len(fifo) <= Fifo /\ Fifo \in Nat
      /\ raw \in BOOLEAN /\ overrun \in BOOLEAN /\ count \in 0..BufMax /\ event \subseteq {"complete", "error"}
  BY ScLinkAssumption DEF UartTypes
<1>1. /\ buf' = Take(fifo, n) /\ fifo' = Drop(fifo, n) /\ rxSem' = TRUE /\ irq' = TRUE /\ want' = n /\ pc' = then
      /\ raw' = (raw /\ fifo' # <<>>) /\ UNCHANGED <<event, count, overrun>>
  BY DEF SetBuffer
<1>2. /\ buf' \in Seq(Bytes) /\ fifo' \in Seq(Bytes)
      /\ Len(buf') = (IF n < Len(fifo) THEN n ELSE Len(fifo))
      /\ Len(fifo') = (IF n < Len(fifo) THEN Len(fifo) - n ELSE 0)
      /\ \A i \in 1..Len(buf') : \E j \in 1..Len(fifo) : buf'[i] = fifo[j]
      /\ \A i \in 1..Len(fifo') : \E j \in 1..Len(fifo) : fifo'[i] = fifo[j]
  <2> DEFINE t == Take(fifo, n)
             d == Drop(fifo, n)
  <2>1. fifo \in Seq(Bytes) /\ n \in Nat /\ buf' = t /\ fifo' = d
    BY <1>0, <1>1
  <2>2. /\ t \in Seq(Bytes) /\ d \in Seq(Bytes)
        /\ Len(t) = (IF n < Len(fifo) THEN n ELSE Len(fifo))
        /\ Len(d) = (IF n < Len(fifo) THEN Len(fifo) - n ELSE 0)
        /\ \A i \in 1..Len(t) : \E j \in 1..Len(fifo) : t[i] = fifo[j]
        /\ \A i \in 1..Len(d) : \E j \in 1..Len(fifo) : d[i] = fifo[j]
    <3>1. fifo \in Seq(Bytes) /\ n \in Nat
      BY <1>0
    <3> QED
      BY <3>1, Split
  <2> HIDE DEF t, d
  <2> QED
    BY <2>1, <2>2
<1>3. raw' \in BOOLEAN
  BY <1>0, <1>1
<1>4. Len(buf') <= n /\ Len(fifo') <= Fifo
  BY <1>0, <1>2
<1>5. UartTypes'
  BY <1>0, <1>1, <1>2, <1>3, <1>4 DEF UartTypes
<1>6. fifo = <<>> => buf' = <<>> /\ fifo' = <<>>
  <2>1. fifo = <<>> => Len(buf') = 0 /\ Len(fifo') = 0
    BY <1>0, <1>2
  <2> QED
    BY <1>2, <2>1, EmptySeq
<1>7. AllHeard(fifo) => AllHeard(fifo') /\ AllHeard(buf')
  BY <1>2 DEF AllHeard
<1> QED
  BY <1>1, <1>5, <1>6, <1>7

-----------------------------------------------------------------------------
(* The round                                                               *)

(* There is a least number in every set of numbers.                        *)
LEMMA LeastOf ==
  ASSUME NEW S \in SUBSET Nat, S # {}
  PROVE  \E m \in S : \A y \in S : m <= y
<1> DEFINE R == {ss \in Nat \X Nat : ss[1] < ss[2]}
<1>1. IsWellFoundedOn(R, Nat)
  BY NatLessThanWellFounded DEF OpToRel
<1>2. \A m, y \in Nat : ~(<<y, m>> \in R) => m <= y
  OBVIOUS
<1> HIDE DEF R
<1>3. PICK m \in S : \A y \in S : ~(<<y, m>> \in R)
  BY <1>1, WFMin
<1> QED
  BY <1>2, <1>3

(* The task passes over a request only when the answer is known or the SC  *)
(* has not said that it is active.                                         *)
LEMMA NextIs ==
  ASSUME at \in 1..10, NEW k \in Known
  PROVE  LET n == NextAt(k)
         IN /\ n \in 1..10 /\ Asks(k, Cycle[n])
            /\ \A j \in 1..10 : j < n => ~Asks(k, Cycle[j]) \/ (at < n /\ j <= at)
<1> DEFINE S == {i \in (at + 1)..(at + 10) : Asks(k, Cycle[InRound(i)])}
<1>1. \A i \in 2..20 : InRound(i) = IF i <= 10 THEN i ELSE i - 10
  BY CycleIs DEF InRound
<1>2. S # {}
  <2>1. CASE k.active
    <3>1. Asks(k, Cycle[7])
      BY <2>1, CycleIs DEF Asks, Ask
    <3>2. CASE at < 7
      <4>1. InRound(7) = 7
        BY <1>1
      <4>2. 7 \in S
        BY <3>1, <3>2, <4>1
      <4> QED
        BY <4>2
    <3>3. CASE at >= 7
      <4>1. InRound(17) = 7
        BY <1>1
      <4>2. 17 \in S
        BY <3>1, <3>3, <4>1
      <4> QED
        BY <4>2
    <3> QED
      BY <3>2, <3>3
  <2>2. CASE ~k.active
    <3>1. Asks(k, Cycle[1])
      BY <2>2, CycleIs DEF Asks, Ask
    <3>2. InRound(11) = 1
      BY <1>1
    <3>3. 11 \in S
      BY <3>1, <3>2
    <3> QED
      BY <3>3
  <2> QED
    BY <2>1, <2>2
<1>3. S \in SUBSET Nat
  OBVIOUS
<1>4. \E m \in S : \A y \in S : m <= y
  <2> HIDE DEF S
  <2> QED
    BY <1>2, <1>3, LeastOf
<1>5. NextAt(k) = InRound(Min(S))
  BY CycleIs DEF NextAt
<1>6. Min(S) \in S /\ \A y \in S : Min(S) <= y
  <2> HIDE DEF S
  <2> QED
    BY <1>4 DEF Min
<1> DEFINE m == Min(S)
<1>7. m \in (at + 1)..(at + 10) /\ Asks(k, Cycle[InRound(m)])
  BY <1>6
<1>8. \A i \in (at + 1)..(at + 10) : i < m => ~Asks(k, Cycle[InRound(i)])
  BY <1>6
<1> HIDE DEF m, S
<1>9. m \in 2..20
  BY <1>7
<1>10. CASE m <= 10
  <2>1. InRound(m) = m
    BY <1>1, <1>9, <1>10
  <2>2. ASSUME NEW j \in 1..10, j < m, ~(j <= at) PROVE ~Asks(k, Cycle[j])
    <3>1. j \in (at + 1)..(at + 10) /\ InRound(j) = j
      BY <1>1, <2>2
    <3> QED
      BY <1>8, <2>2, <3>1
  <2>3. at < m
    BY <1>7
  <2> QED
    BY <1>5, <1>7, <1>9, <1>10, <2>1, <2>2, <2>3 DEF m
<1>11. CASE m > 10
  <2>1. InRound(m) = m - 10 /\ m - 10 \in 1..10
    BY <1>1, <1>9, <1>11
  <2>2. ASSUME NEW j \in 1..10, j < m - 10 PROVE ~Asks(k, Cycle[j])
    <3>1. CASE j > at
      <4>1. j \in (at + 1)..(at + 10) /\ InRound(j) = j /\ j < m
        BY <1>1, <1>9, <2>2, <3>1
      <4> QED
        BY <1>8, <4>1
    <3>2. CASE j <= at
      <4>1. j + 10 \in (at + 1)..(at + 10) /\ j + 10 \in 2..20 /\ j + 10 < m
        BY <1>9, <2>2, <3>2
      <4>2. InRound(j + 10) = j
        BY <1>1, <4>1
      <4> QED
        BY <1>8, <4>1, <4>2
    <3> QED
      BY <3>1, <3>2
  <2> QED
    BY <1>5, <1>7, <2>1, <2>2 DEF m
<1> QED
  BY <1>9, <1>10, <1>11

(* The end of a request, whatever came of it.                              *)
LEMMA FinishIs ==
  ASSUME LinkTypes, NEW k \in Known, NEW outcome \in {"miss"} \cup {r.kind : r \in Requests},
         Finish(k, outcome)
  PROVE  /\ TaskTypes'
         /\ pc' \in {"delay", "begin"} /\ last' = outcome
         /\ known'.active = k.active /\ known'.power = k.power /\ known'.board = k.board
         /\ known'.learned = k.learned
         /\ known'.snsr = IF at = 5 THEN \A s \in SensorKinds : k.learned[s] # 0 ELSE k.snsr
         /\ at' = NextAt(known')
<1> DEFINE b == \A s \in SensorKinds : k.learned[s] # 0
<1>0. at \in 1..10
  BY DEF LinkTypes, TaskTypes
<1>1. known' = Sized(k) /\ last' = outcome /\ at' = NextAt(Sized(k)) /\ pc' \in {"delay", "begin"}
  BY DEF Finish
<1>2. Sized(k) = IF at = 5 THEN [k EXCEPT !.snsr = b] ELSE k
  BY DEF Sized, LastSize
<1>3. b \in BOOLEAN
  OBVIOUS
<1> HIDE DEF b
<1>4. /\ Sized(k) \in Known
      /\ Sized(k).active = k.active /\ Sized(k).power = k.power /\ Sized(k).board = k.board
      /\ Sized(k).learned = k.learned
      /\ Sized(k).snsr = IF at = 5 THEN b ELSE k.snsr
  BY <1>2, <1>3 DEF Known
<1>5. NextAt(Sized(k)) \in 1..10
  BY <1>0, <1>4, NextIs
<1> QED
  BY <1>1, <1>4, <1>5 DEF TaskTypes, b

(* What a packet teaches the task, when it is of the kind it asked for.    *)
LEMMA LearnedIs ==
  ASSUME LinkTypes, NEW p \in Bytes
  PROVE  /\ Learned(p) \in Known
         /\ Learned(p).active => known.active \/ p.kind = "active"
         /\ Learned(p).power => known.power \/ p.kind = "version"
         /\ Learned(p).board => known.board \/ p.kind = "board"
         /\ Learned(p).snsr = known.snsr
         /\ \A s \in SensorKinds : \/ Learned(p).learned[s] = known.learned[s]
                                   \/ Learned(p).learned[s] = SensorLen[s]
         /\ p.kind = "size" => p.of \in SensorKinds /\ Learned(p).learned[p.of] = SensorLen[p.of]
<1>0. known \in Known /\ \A s \in SensorKinds : SensorLen[s] \in 0..BufMax
  BY ScLinkAssumption DEF LinkTypes, TaskTypes
<1>1. CASE p.kind = "active"
  <2>1. Learned(p) = [known EXCEPT !.active = TRUE]
    BY <1>1 DEF Learned
  <2> QED
    BY <1>0, <1>1, <2>1 DEF Known
<1>2. CASE p.kind = "version"
  <2>1. Learned(p) = [known EXCEPT !.power = TRUE]
    BY <1>2 DEF Learned
  <2> QED
    BY <1>0, <1>2, <2>1 DEF Known
<1>3. CASE p.kind = "board"
  <2>1. Learned(p) = [known EXCEPT !.board = TRUE]
    BY <1>3 DEF Learned
  <2> QED
    BY <1>0, <1>3, <2>1 DEF Known
<1>4. CASE p.kind = "size"
  <2>1. Learned(p) = [known EXCEPT !.learned[p.of] = SensorLen[p.of]]
    BY <1>4 DEF Learned
  <2>2. p.of \in SensorKinds
    <3>1. p = Damaged \/ \E r \in Requests : p.kind = r.kind /\ p.of = r.of
      BY ByteIs
    <3>2. p # Damaged
      BY <1>4 DEF Damaged
    <3> QED
      BY <1>4, <3>1, <3>2, RequestsAre
  <2> DEFINE g == [known.learned EXCEPT ![p.of] = SensorLen[p.of]]
  <2>3. Learned(p) = [known EXCEPT !.learned = g]
    BY <2>1
  <2>4. /\ g \in [SensorKinds -> 0..BufMax] /\ g[p.of] = SensorLen[p.of]
        /\ \A s \in SensorKinds : g[s] = known.learned[s] \/ g[s] = SensorLen[s]
    BY <1>0, <2>2 DEF Known
  <2> HIDE DEF g
  <2>5. Learned(p) \in Known
    BY <1>0, <2>3, <2>4 DEF Known
  <2>6. /\ Learned(p).active = known.active /\ Learned(p).power = known.power /\ Learned(p).board = known.board
        /\ Learned(p).snsr = known.snsr /\ Learned(p).learned = g
    BY <1>0, <2>3 DEF Known
  <2> QED
    BY <1>4, <2>2, <2>4, <2>5, <2>6
<1>5. CASE p.kind \notin {"active", "version", "board", "size"}
  <2>1. Learned(p) = known
    BY <1>5 DEF Learned
  <2> QED
    BY <1>0, <1>5, <2>1
<1> QED
  BY <1>1, <1>2, <1>3, <1>4, <1>5

(* What a step of the SC comms task may do: it goes on in the same         *)
(* request, with its buffer set or not, or ends it with a packet that is   *)
(* an answer to a request of this kind, or with none.                      *)
LEMMA TaskSteps ==
  ASSUME Task, LinkTypes
  PROVE  /\ LinkTypes'
         /\ UNCHANGED <<wire, heard>>
         /\ faults' = 0 => faults = 0
         /\ \/ UNCHANGED <<buf, fifo>>
            \/ AllHeard(fifo) => AllHeard(fifo') /\ AllHeard(buf')
         /\ \/ UNCHANGED <<at, known>>
            \/ \E p \in Bytes : \E i \in 1..Len(buf) :
                 /\ p = buf[i] /\ p.kind = req.kind /\ p \in {AnswerTo(r)[1] : r \in Requests}
                 /\ pc = "got" /\ buf # <<>>
                 /\ Finish(Learned(p), p.kind)
            \/ /\ pc \in {"got", "failed"} /\ Finish(known, "miss")
               /\ pc = "got" => \/ count <= TooShort
                                \/ buf \notin {AnswerTo(r) : r \in Requests}
                                \/ count # Len(buf)
                                \/ buf[1].kind # req.kind
<1>0. /\ faults \in 0..MaxFaults /\ MaxFaults \in Nat /\ BufMax \in Nat /\ at \in 1..10
      /\ TaskTypes /\ UartTypes /\ RemoteTypes /\ known \in Known
  BY ScLinkAssumption DEF LinkTypes, RemoteTypes, TaskTypes
<1>1. req \in Requests /\ LenOf(req) \in 0..BufMax /\ Expected \in 0..BufMax
  <2>1. req \in Requests
    BY <1>0, CycleIs DEF req, Requests
  <2>2. LenOf(req) \in 0..BufMax
    BY <2>1, AnswerIs
  <2> QED
    BY <1>0, <2>1, <2>2 DEF Expected, Known
<1>2. \A c \in BOOLEAN : Fault(c) => faults' \in 0..MaxFaults /\ (faults' = 0 => faults = 0)
  BY <1>0 DEF Fault
<1>3. CASE Delay
  <2>1. /\ pc' = "begin" /\ UNCHANGED <<at, known, uart, remote, last>>
        /\ faults' \in 0..MaxFaults /\ (faults' = 0 => faults = 0)
    BY <1>2, <1>3 DEF Delay
  <2> QED
    BY <1>0, <2>1 DEF uart, remote, LinkTypes, TaskTypes, UartTypes, RemoteTypes
<1>4. CASE Begin
  <2>1. SetBuffer(Expected, "send") /\ UNCHANGED <<at, known, remote, faults, last>>
    BY <1>4 DEF Begin
  <2>2. /\ UartTypes' /\ pc' = "send"
        /\ AllHeard(fifo) => AllHeard(fifo') /\ AllHeard(buf')
    BY <1>0, <1>1, <2>1, BufferSet
  <2> QED
    BY <1>0, <2>1, <2>2 DEF remote, LinkTypes, TaskTypes, RemoteTypes
<1>5. CASE Send
  <2>1. sc' = Append(sc, req) /\ pc' = "wait" /\ UNCHANGED <<at, known, uart, wire, heard, faults, last>>
    BY <1>5 DEF Send
  <2>2. sc' \in Seq(Requests)
    BY <1>0, <1>1, <2>1 DEF RemoteTypes
  <2> QED
    BY <1>0, <2>1, <2>2 DEF uart, LinkTypes, TaskTypes, UartTypes, RemoteTypes
<1>6. CASE Wait
  <2>1. /\ pc' \in {"got", "failed"} /\ event' \subseteq event
        /\ UNCHANGED <<at, known, remote, last, rxSem, irq, buf, want, count, fifo, raw, overrun>>
        /\ faults' \in 0..MaxFaults /\ (faults' = 0 => faults = 0)
    <3>1. CASE Wakes("got") /\ UNCHANGED faults
      BY <1>0, <1>6, <3>1 DEF Wait, Wakes
    <3>2. CASE TimesOut("failed") /\ Fault(~Quiet)
      BY <1>2, <1>6, <3>2 DEF Wait, TimesOut, uart
    <3> QED
      BY <1>6, <3>1, <3>2 DEF Wait
  <2> QED
    BY <1>0, <2>1 DEF remote, LinkTypes, TaskTypes, UartTypes, RemoteTypes
<1>7. CASE Got
  <2>1. /\ pc = "got" /\ rxSem' = FALSE /\ irq' = FALSE
        /\ UNCHANGED <<buf, want, event, count, fifo, raw, overrun, remote, faults>>
    BY <1>7 DEF Got, Leave
  <2>2. UartTypes' /\ RemoteTypes'
    BY <1>0, <2>1 DEF remote, UartTypes, RemoteTypes
  <2>3. CASE pc' = "flush" /\ UNCHANGED <<at, known, last>>
    BY <1>0, <2>1, <2>2, <2>3 DEF remote, LinkTypes, TaskTypes
  <2>4. CASE count > TooShort /\ Whole(buf, count) /\ FinishWith(buf[1])
    <3>1. count = Len(buf) /\ count > 1 /\ \E r \in Requests : buf = AnswerTo(r)
      BY <2>4 DEF Whole, TooShort
    <3>2. buf \in Seq(Bytes) /\ Len(buf) \in Nat
      BY <1>0 DEF UartTypes
    <3>3. 1 \in 1..Len(buf) /\ buf[1] \in Bytes /\ buf # <<>>
      BY <3>1, <3>2
    <3>4. buf[1].kind \in {r.kind : r \in Requests}
      <4>1. PICK r \in Requests : buf = AnswerTo(r)
        BY <3>1
      <4>2. Len(buf) = LenOf(r)
        BY <4>1, AnswerIs
      <4>3. buf[1].kind = r.kind
        BY <3>3, <4>1, <4>2, AnswerIs
      <4> QED
        BY <4>3
    <3>5. CASE IsAnswer(buf[1])
      <4>1. Finish(Learned(buf[1]), buf[1].kind) /\ buf[1].kind = req.kind
        BY <2>4, <3>5 DEF FinishWith, IsAnswer
      <4>2. Learned(buf[1]) \in Known
        BY <3>3, LearnedIs
      <4>3. TaskTypes'
        BY <3>4, <4>1, <4>2, FinishIs
      <4>4. buf[1] \in {AnswerTo(r)[1] : r \in Requests}
        BY <3>1
      <4> QED
        BY <2>1, <2>2, <3>3, <4>1, <4>3, <4>4 DEF remote, LinkTypes
    <3>6. CASE ~IsAnswer(buf[1])
      <4>1. Finish(known, "miss") /\ buf[1].kind # req.kind
        BY <2>4, <3>6 DEF FinishWith, IsAnswer
      <4>2. TaskTypes'
        BY <1>0, <4>1, FinishIs
      <4> QED
        BY <2>1, <2>2, <4>1, <4>2 DEF remote, LinkTypes
    <3> QED
      BY <3>5, <3>6
  <2>5. CASE count <= TooShort /\ Finish(known, "miss")
    <3>1. TaskTypes'
      BY <1>0, <2>5, FinishIs
    <3> QED
      BY <2>1, <2>2, <2>5, <3>1 DEF remote, LinkTypes
  <2> QED
    BY <1>7, <2>3, <2>4, <2>5 DEF Got
<1>8. CASE Failed
  <2>1. /\ pc = "failed" /\ rxSem' = FALSE /\ irq' = FALSE /\ Finish(known, "miss")
        /\ UNCHANGED <<buf, want, event, count, fifo, raw, overrun, remote, faults>>
    BY <1>8 DEF Failed, Leave
  <2>2. TaskTypes'
    BY <1>0, <2>1, FinishIs
  <2>3. UartTypes' /\ RemoteTypes'
    BY <1>0, <2>1 DEF remote, UartTypes, RemoteTypes
  <2> QED
    BY <2>1, <2>2, <2>3 DEF remote, LinkTypes
<1>9. CASE Flush
  <2>1. SetBuffer(BufMax, "drain") /\ UNCHANGED <<at, known, remote, faults, last>>
    BY <1>9 DEF Flush
  <2>2. BufMax \in 0..BufMax
    BY <1>0
  <2>3. /\ UartTypes' /\ pc' = "drain"
        /\ AllHeard(fifo) => AllHeard(fifo') /\ AllHeard(buf')
    BY <1>0, <2>1, <2>2, BufferSet
  <2> QED
    BY <1>0, <2>1, <2>3 DEF remote, LinkTypes, TaskTypes, RemoteTypes
<1>10. CASE Drain
  <2>1. /\ pc' = "failed" /\ event' \subseteq event
        /\ UNCHANGED <<at, known, remote, last, faults, rxSem, irq, buf, want, count, fifo, raw, overrun>>
    <3>1. CASE Wakes("failed")
      BY <1>0, <1>10, <3>1 DEF Drain, Wakes, UartTypes
    <3>2. CASE TimesOut("failed") /\ Quiet
      BY <1>10, <3>2 DEF Drain, TimesOut, uart
    <3> QED
      BY <1>10, <3>1, <3>2 DEF Drain
  <2> QED
    BY <1>0, <2>1 DEF remote, LinkTypes, TaskTypes, UartTypes, RemoteTypes
<1> QED
  BY <1>3, <1>4, <1>5, <1>6, <1>7, <1>8, <1>9, <1>10 DEF Task

(* The SC carries out the first request it has been sent.                  *)
LEMMA AnswerSteps ==
  ASSUME ScAnswers, LinkTypes
  PROVE  /\ LinkTypes'
         /\ UNCHANGED <<at, pc, known, uart, last>>
         /\ sc # <<>> /\ sc' = Tail(sc) /\ Head(sc) \in Requests
         /\ heard' = heard \cup {Head(sc)}
         /\ \A i \in 1..Len(wire') : \/ i \in 1..Len(wire) /\ wire'[i] = wire[i]
                                     \/ wire'[i] = Damaged
                                     \/ wire'[i].kind = Head(sc).kind /\ wire'[i].of = Head(sc).of
         /\ faults' = 0 => faults = 0 /\ ~Busy /\ wire' = wire \o AnswerTo(Head(sc))
<1>0. /\ faults \in 0..MaxFaults /\ MaxFaults \in Nat /\ wire \in Seq(Bytes) /\ sc \in Seq(Requests)
      /\ heard \subseteq Requests
  BY ScLinkAssumption DEF LinkTypes, RemoteTypes
<1>1. sc # <<>> /\ sc' = Tail(sc) /\ heard' = heard \cup {Head(sc)} /\ UNCHANGED <<at, pc, known, uart, last>>
  BY DEF ScAnswers
<1>2. Head(sc) \in Requests /\ Tail(sc) \in Seq(Requests)
  BY <1>0, <1>1, HeadTailProperties
<1>3. /\ wire' \in {wire, wire \o AnswerTo(Head(sc)), wire \o [AnswerTo(Head(sc)) EXCEPT ![1] = Damaged]}
      /\ Fault(Busy \/ wire' # wire \o AnswerTo(Head(sc)))
  BY DEF ScAnswers
<1>4. /\ wire' \in Seq(Bytes)
      /\ \A i \in 1..Len(wire') : \/ i \in 1..Len(wire) /\ wire'[i] = wire[i]
                                  \/ wire'[i] = Damaged
                                  \/ wire'[i].kind = Head(sc).kind /\ wire'[i].of = Head(sc).of
  <2>1. \A r \in Requests :
          \A x \in {wire, wire \o AnswerTo(r), wire \o [AnswerTo(r) EXCEPT ![1] = Damaged]} :
            /\ x \in Seq(Bytes)
            /\ \A i \in 1..Len(x) : \/ i \in 1..Len(wire) /\ x[i] = wire[i]
                                    \/ x[i] = Damaged
                                    \/ x[i].kind = r.kind /\ x[i].of = r.of
    BY <1>0, Answered
  <2> QED
    BY <1>2, <1>3, <2>1, Zenon
<1>5. /\ faults' \in 0..MaxFaults
      /\ faults' = 0 => faults = 0 /\ ~Busy /\ wire' = wire \o AnswerTo(Head(sc))
  BY <1>0, <1>3 DEF Fault
<1>6. LinkTypes'
  BY <1>0, <1>1, <1>2, <1>4, <1>5 DEF LinkTypes, TaskTypes, UartTypes, RemoteTypes, uart
<1> QED
  BY <1>1, <1>2, <1>4, <1>5, <1>6

(* The types, kept by each step.                                           *)
LEMMA TypeStep ==
  ASSUME LinkTypes, [Next]_vars
  PROVE  LinkTypes'
<1>1. CASE Task
  BY <1>1, TaskSteps
<1>2. CASE Isr
  BY <1>2, IsrSteps DEF remote, LinkTypes, TaskTypes, RemoteTypes
<1>3. CASE Deliver
  BY <1>3, DeliverSteps DEF LinkTypes, TaskTypes, RemoteTypes
<1>4. CASE ScAnswers
  BY <1>4, AnswerSteps
<1>5. CASE UNCHANGED vars
  BY <1>5 DEF vars, uart, remote, LinkTypes, TaskTypes, UartTypes, RemoteTypes
<1> QED
  BY <1>1, <1>2, <1>3, <1>4, <1>5 DEF Next

-----------------------------------------------------------------------------
(* What the task believes                                                  *)

(* A request the SC has carried out stays carried out.                     *)
LEMMA HeardGrows ==
  ASSUME heard \subseteq heard', NEW s, AllHeard(s)
  PROVE  \A i \in 1..Len(s) : HeardOf(heard', s[i])
BY DEF AllHeard, HeardOf

(* Bytes that come from the SC come from a request it has carried out, and *)
(* what Parse_SC_Data takes for an answer was one to a request of its kind.*)
LEMMA HeardStep ==
  ASSUME LinkTypes, HeardInv, [Next]_vars
  PROVE  HeardInv'
<1>1. CASE Task
  <2>1. wire' = wire /\ heard' = heard
    BY <1>1, TaskSteps
  <2>2. AllHeard(fifo') /\ AllHeard(buf')
    BY <1>1, TaskSteps DEF HeardInv
  <2>3. AllHeard(wire)' /\ AllHeard(fifo)' /\ AllHeard(buf)'
    BY <2>1, <2>2 DEF HeardInv, AllHeard, HeardOf
  <2>4. CASE UNCHANGED <<at, known>>
    BY <2>1, <2>3, <2>4 DEF HeardInv, BelievesOnlyWhatScDid
  <2>5. ASSUME NEW p \in Bytes, NEW i \in 1..Len(buf), p = buf[i], p.kind = req.kind, Finish(Learned(p), p.kind)
        PROVE  BelievesOnlyWhatScDid'
    <3>1. req \in Requests
      BY CycleIs DEF LinkTypes, TaskTypes, req, Requests
    <3>2. p # Damaged
      BY <2>5, <3>1, RequestsAre DEF Damaged
    <3>3. PICK r \in heard : p.kind = r.kind
      BY <2>5, <3>2 DEF HeardInv, AllHeard, HeardOf
    <3>4. r \in Requests
      BY DEF LinkTypes, RemoteTypes
    <3>5. /\ p.kind = "active" => Ask("active") \in heard
          /\ p.kind = "version" => Ask("version") \in heard
          /\ p.kind = "board" => Ask("board") \in heard
      BY <3>3, <3>4, RequestsAre
    <3>6. p.kind \in {q.kind : q \in Requests} /\ Learned(p) \in Known
      BY <2>5, <3>1, LearnedIs
    <3>7. /\ known'.active = Learned(p).active /\ known'.power = Learned(p).power
          /\ known'.board = Learned(p).board
      BY <2>5, <3>6, FinishIs
    <3>8. /\ Learned(p).active => known.active \/ p.kind = "active"
          /\ Learned(p).power => known.power \/ p.kind = "version"
          /\ Learned(p).board => known.board \/ p.kind = "board"
      BY LearnedIs
    <3> QED
      BY <2>1, <3>5, <3>7, <3>8 DEF HeardInv, BelievesOnlyWhatScDid
  <2>6. ASSUME Finish(known, "miss") PROVE BelievesOnlyWhatScDid'
    <3>1. known \in Known
      BY DEF LinkTypes, TaskTypes
    <3>2. known'.active = known.active /\ known'.power = known.power /\ known'.board = known.board
      BY <2>6, <3>1, FinishIs
    <3> QED
      BY <2>1, <3>2 DEF HeardInv, BelievesOnlyWhatScDid
  <2>7. \/ UNCHANGED <<at, known>>
        \/ \E p \in Bytes : \E i \in 1..Len(buf) : p = buf[i] /\ p.kind = req.kind /\ Finish(Learned(p), p.kind)
        \/ Finish(known, "miss")
    BY <1>1, TaskSteps
  <2> QED
    BY <2>3, <2>4, <2>5, <2>6, <2>7 DEF HeardInv
<1>2. CASE Isr
  <2>1. UNCHANGED <<known, wire, heard>> /\ UartTypes /\ ReceiveBuffer
    BY <1>2, IsrSteps DEF remote, LinkTypes
  <2>2. AllHeard(fifo') /\ AllHeard(buf')
    BY <2>1, Received DEF HeardInv
  <2> QED
    BY <2>1, <2>2 DEF HeardInv, AllHeard, HeardOf, BelievesOnlyWhatScDid
<1>3. CASE Deliver
  <2>1. UNCHANGED <<known, buf, heard>> /\ AllHeard(wire') /\ AllHeard(fifo')
    BY <1>3, DeliverSteps DEF HeardInv
  <2> QED
    BY <2>1 DEF HeardInv, AllHeard, HeardOf, BelievesOnlyWhatScDid
<1>4. CASE ScAnswers
  <2>1. UNCHANGED <<known, buf, fifo>> /\ heard' = heard \cup {Head(sc)}
    BY <1>4, AnswerSteps DEF uart
  <2>2. heard \subseteq heard'
    BY <2>1
  <2>3. AllHeard(buf)' /\ AllHeard(fifo)'
    <3>1. /\ \A i \in 1..Len(buf) : HeardOf(heard', buf[i])
          /\ \A i \in 1..Len(fifo) : HeardOf(heard', fifo[i])
      BY <2>2, HeardGrows DEF HeardInv
    <3> QED
      BY <2>1, <3>1 DEF AllHeard
  <2>4. \A i \in 1..Len(wire) : HeardOf(heard', wire[i])
    BY <2>2, HeardGrows DEF HeardInv
  <2>5. ASSUME NEW i \in 1..Len(wire') PROVE HeardOf(heard', wire'[i])
    <3>1. \/ i \in 1..Len(wire) /\ wire'[i] = wire[i]
          \/ wire'[i] = Damaged
          \/ wire'[i].kind = Head(sc).kind /\ wire'[i].of = Head(sc).of
      BY <1>4, AnswerSteps
    <3>2. CASE i \in 1..Len(wire) /\ wire'[i] = wire[i]
      BY <2>4, <3>2
    <3>3. CASE wire'[i] = Damaged \/ (wire'[i].kind = Head(sc).kind /\ wire'[i].of = Head(sc).of)
      BY <2>1, <3>3 DEF HeardOf
    <3> QED
      BY <3>1, <3>2, <3>3
  <2> QED
    BY <2>1, <2>2, <2>3, <2>5 DEF HeardInv, AllHeard, BelievesOnlyWhatScDid
<1>5. CASE UNCHANGED vars
  BY <1>5 DEF vars, uart, remote, HeardInv, AllHeard, HeardOf, BelievesOnlyWhatScDid
<1> QED
  BY <1>1, <1>2, <1>3, <1>4, <1>5 DEF Next

-----------------------------------------------------------------------------
(* What the task has learned, as long as nothing goes wrong                *)

(* The task is never woken but with the whole answer to its request.       *)
LEMMA WholeAnswer ==
  ASSUME LinkTypes, CalmInv, faults = 0, pc \in {"got", "failed"}
  PROVE  /\ pc = "got" /\ req \in Requests /\ buf = AnswerTo(req)
         /\ ~(count <= TooShort) /\ count = Len(buf) /\ buf[1].kind = req.kind
         /\ \A i \in 1..Len(buf) : buf[i].of = req.of
<1>1. pc = "got" /\ buf = AnswerTo(req) /\ count = LenOf(req)
  BY DEF CalmInv
<1>2. req \in Requests
  BY CycleIs DEF LinkTypes, TaskTypes, req, Requests
<1>3. /\ LenOf(req) \in 2..BufMax /\ Len(AnswerTo(req)) = LenOf(req) /\ BufMax \in Nat
      /\ \A i \in 1..LenOf(req) : AnswerTo(req)[i].kind = req.kind /\ AnswerTo(req)[i].of = req.of
  BY <1>2, AnswerIs
<1>4. 1 \in 1..LenOf(req) /\ ~(LenOf(req) <= TooShort)
  BY <1>3 DEF TooShort
<1> QED
  BY <1>1, <1>2, <1>3, <1>4

(* The requests for the lengths come before those that need them, and are  *)
(* not passed over as long as they have not been answered.                 *)
LEMMA LengthsStep ==
  ASSUME LinkTypes, LengthsInv, CalmInv, [Next]_vars
  PROVE  LengthsInv'
<1>0. /\ \A k \in SensorKinds : SensorLen[k] \in Nat /\ SensorLen[k] # 0
      /\ at \in 1..10 /\ known \in Known /\ SensorKinds = {"volt", "power", "temp"}
  BY ScLinkAssumption DEF LinkTypes, TaskTypes, SensorKinds
<1>1. CASE UNCHANGED <<at, known>> /\ (faults' = 0 => faults = 0)
  BY <1>1 DEF LengthsInv
<1>2. ASSUME NEW k \in Known, NEW outcome \in {"miss"} \cup {r.kind : r \in Requests}, Finish(k, outcome),
             faults' = 0 => faults = 0,
             k.snsr = known.snsr,
             \A s \in SensorKinds : k.learned[s] = known.learned[s] \/ k.learned[s] = SensorLen[s],
             faults = 0 => (req.kind = "size" => k.learned[req.of] = SensorLen[req.of])
      PROVE  LengthsInv'
  <2>1. \A s \in SensorKinds : k.learned[s] \in {0, SensorLen[s]} /\ (known.learned[s] # 0 => k.learned[s] # 0)
    BY <1>0, <1>2 DEF LengthsInv
  <2>2. /\ known'.active = k.active /\ known'.learned = k.learned
        /\ known'.snsr = IF at = 5 THEN \A s \in SensorKinds : k.learned[s] # 0 ELSE k.snsr
        /\ at' = NextAt(known') /\ known' \in Known /\ at' \in 1..10
    BY <1>2, FinishIs DEF TaskTypes
  <2>3. known'.snsr => \A s \in SensorKinds : k.learned[s] # 0
    BY <1>2, <2>1, <2>2 DEF LengthsInv
  <2>4. /\ Asks(known', Cycle[at'])
        /\ \A j \in 1..10 : j < at' => ~Asks(known', Cycle[j]) \/ (at < at' /\ j <= at)
    BY <1>0, <2>2, NextIs
  <2>5. ASSUME faults' = 0, NEW i \in 3..5, i < at' PROVE k.learned[Cycle[i].of] # 0
    <3>1. Cycle[i].kind = "size" /\ Cycle[i].of \in SensorKinds
      <4>1. i = 3 \/ i = 4 \/ i = 5
        OBVIOUS
      <4> QED
        BY <4>1, CycleIs DEF Size, SensorKinds
    <3>2. CASE ~Asks(known', Cycle[i])
      <4>1. ~known'.active \/ known'.snsr
        BY <3>1, <3>2 DEF Asks
      <4>2. known'.active
        <5>1. ASSUME ~known'.active PROVE FALSE
          <6>1. Cycle[at'].kind = "active"
            BY <2>4, <5>1 DEF Asks
          <6>2. at' = 1
            <7>1. at' = 1 \/ at' = 2 \/ at' = 3 \/ at' = 4 \/ at' = 5 \/ at' = 6 \/ at' = 7 \/ at' = 8 \/ at' = 9 \/ at' = 10
              BY <2>2
            <7> QED
              BY <6>1, <7>1, CycleIs DEF Ask, Size
          <6> QED
            BY <2>5, <6>2
        <5> QED
          BY <5>1
      <4> QED
        BY <2>3, <3>1, <4>1, <4>2
    <3>3. CASE i < at
      <4>1. known.learned[Cycle[i].of] # 0
        BY <1>2, <2>5, <3>3 DEF LengthsInv
      <4> QED
        BY <2>1, <3>1, <4>1
    <3>4. CASE i = at
      <4>1. req = Cycle[i]
        BY <3>4 DEF req
      <4>2. k.learned[req.of] = SensorLen[req.of]
        BY <1>2, <2>5, <3>1, <4>1
      <4> QED
        BY <1>0, <3>1, <4>1, <4>2
    <3>5. ~Asks(known', Cycle[i]) \/ i < at \/ i = at
      BY <1>0, <2>2, <2>4, <2>5
    <3> QED
      BY <3>2, <3>3, <3>4, <3>5
  <2> QED
    BY <2>1, <2>2, <2>3, <2>5 DEF LengthsInv
<1>3. CASE Task
  <2>1. faults' = 0 => faults = 0
    BY <1>3, TaskSteps
  <2>2. req \in Requests
    BY CycleIs DEF LinkTypes, TaskTypes, req, Requests
  <2>3. ASSUME NEW p \in Bytes, NEW i \in 1..Len(buf), p = buf[i], p.kind = req.kind, pc = "got",
               Finish(Learned(p), p.kind)
        PROVE  LengthsInv'
    <3>1. /\ Learned(p) \in Known /\ Learned(p).snsr = known.snsr
          /\ \A s \in SensorKinds : \/ Learned(p).learned[s] = known.learned[s]
                                    \/ Learned(p).learned[s] = SensorLen[s]
          /\ p.kind = "size" => Learned(p).learned[p.of] = SensorLen[p.of]
      BY LearnedIs
    <3>2. faults = 0 => p.of = req.of
      BY <2>3, WholeAnswer
    <3>3. p.kind \in {"miss"} \cup {r.kind : r \in Requests}
      BY <2>2, <2>3
    <3>4. faults = 0 => (req.kind = "size" => Learned(p).learned[req.of] = SensorLen[req.of])
      BY <2>3, <3>1, <3>2
    <3> QED
      BY <1>2, <2>1, <2>3, <3>1, <3>3, <3>4
  <2>4. ASSUME pc \in {"got", "failed"}, Finish(known, "miss"),
               pc = "got" => \/ count <= TooShort
                             \/ buf \notin {AnswerTo(r) : r \in Requests}
                             \/ count # Len(buf)
                             \/ buf[1].kind # req.kind
        PROVE  LengthsInv'
    <3>1. faults # 0
      BY <2>4, WholeAnswer
    <3> QED
      BY <1>0, <1>2, <2>1, <2>4, <3>1
  <2>5. \/ UNCHANGED <<at, known>>
        \/ \E p \in Bytes : \E i \in 1..Len(buf) : 
             p = buf[i] /\ p.kind = req.kind /\ pc = "got" /\ Finish(Learned(p), p.kind)
        \/ /\ pc \in {"got", "failed"} /\ Finish(known, "miss")
           /\ pc = "got" => \/ count <= TooShort
                            \/ buf \notin {AnswerTo(r) : r \in Requests}
                            \/ count # Len(buf)
                            \/ buf[1].kind # req.kind
    BY <1>3, TaskSteps
  <2> QED
    BY <1>1, <2>1, <2>3, <2>4, <2>5
<1>4. CASE Isr
  BY <1>1, <1>4, IsrSteps
<1>5. CASE Deliver
  BY <1>1, <1>5, DeliverSteps
<1>6. CASE ScAnswers
  BY <1>1, <1>6, AnswerSteps
<1>7. CASE UNCHANGED vars
  BY <1>1, <1>7 DEF vars
<1> QED
  BY <1>3, <1>4, <1>5, <1>6, <1>7 DEF Next

-----------------------------------------------------------------------------
(* No answer is lost on the way                                            *)

(* The parts of an answer on its way: how much is still to come.           *)
LEMMA Parts ==
  ASSUME UartTypes, wire \in Seq(Bytes), req \in Requests, want = LenOf(req),
         buf \o (fifo \o wire) = AnswerTo(req)
  PROVE  /\ Len(buf) \in Nat /\ Len(fifo) \in Nat /\ Len(wire) \in Nat
         /\ Len(buf) + (Len(fifo) + Len(wire)) = want /\ want \in Nat
         /\ Room = Len(fifo) + Len(wire)
         /\ Len(buf) = want => fifo = <<>> /\ wire = <<>> /\ buf = AnswerTo(req)
         /\ wire = <<>> => Len(fifo) <= Room /\ buf \o fifo = AnswerTo(req)
         /\ fifo = <<>> /\ wire = <<>> => Len(buf) = want
<1>0. buf \in Seq(Bytes) /\ fifo \in Seq(Bytes) /\ wire \in Seq(Bytes)
  BY DEF UartTypes
<1>1. Len(buf) \in Nat /\ Len(fifo) \in Nat /\ Len(wire) \in Nat
  BY <1>0
<1>2. fifo \o wire \in Seq(Bytes) /\ Len(fifo \o wire) = Len(fifo) + Len(wire)
  BY <1>0, ConcatProperties
<1>3. Len(buf \o (fifo \o wire)) = Len(buf) + Len(fifo \o wire)
  BY <1>0, <1>2, ConcatProperties
<1>4. Len(AnswerTo(req)) = LenOf(req) /\ LenOf(req) \in Nat
  BY AnswerIs
<1>5. Len(buf) + (Len(fifo) + Len(wire)) = want /\ want \in Nat
  BY <1>2, <1>3, <1>4
<1>6. Room = Len(fifo) + Len(wire)
  BY <1>1, <1>5 DEF Room
<1>7. \A s \in Seq(Bytes) : (Len(s) = 0 => s = <<>>) /\ s \o <<>> = s
  BY EmptySeq, ConcatEmptySeq
<1>8. Len(<<>>) = 0
  OBVIOUS
<1>9. ASSUME Len(buf) = want PROVE fifo = <<>> /\ wire = <<>> /\ buf = AnswerTo(req)
  <2>1. Len(fifo) = 0 /\ Len(wire) = 0
    BY <1>1, <1>5, <1>9
  <2>2. fifo = <<>> /\ wire = <<>>
    BY <1>0, <1>7, <2>1
  <2>3. fifo \o wire = <<>>
    BY <1>0, <1>7, <2>2
  <2> QED
    BY <1>0, <1>7, <2>2, <2>3
<1>10. wire = <<>> => Len(fifo) <= Room /\ buf \o fifo = AnswerTo(req)
  BY <1>0, <1>1, <1>6, <1>7, <1>8
<1>11. fifo = <<>> /\ wire = <<>> => Len(buf) = want
  BY <1>1, <1>5, <1>8
<1> QED
  BY <1>1, <1>5, <1>6, <1>9, <1>10, <1>11

(* The SC comms task: it waits until all of the answer is there.           *)
LEMMA CalmTask ==
  ASSUME LinkTypes, LengthsInv, CalmInv, Task
  PROVE  CalmInv'
<1>0. /\ faults \in 0..MaxFaults /\ MaxFaults \in Nat /\ BufMax \in Nat /\ at \in 1..10 /\ known \in Known
      /\ UartTypes /\ wire \in Seq(Bytes)
  BY ScLinkAssumption DEF LinkTypes, TaskTypes, RemoteTypes
<1>1. req \in Requests /\ LenOf(req) \in 2..BufMax
  <2>1. req \in Requests
    BY <1>0, CycleIs DEF req, Requests
  <2> QED
    BY <2>1, AnswerIs
<1>2. faults' = 0 => faults = 0
  BY TaskSteps
<1>3. SUFFICES ASSUME faults' = 0, faults = 0
               PROVE  CalmInv'
  BY <1>2 DEF CalmInv
<1>4. /\ ~overrun /\ (raw <=> fifo # <<>>) /\ last # "miss"
      /\ pc \in {"delay", "begin", "send", "wait", "got"}
  BY <1>3 DEF CalmInv
<1>5. CASE Delay
  <2>1. /\ pc = "delay" /\ pc' = "begin" /\ UNCHANGED <<at, known, uart, remote, last>>
    BY <1>5 DEF Delay
  <2> QED
    BY <1>3, <2>1 DEF CalmInv, Idle, uart, remote
<1>6. CASE Begin
  <2>1. pc = "begin" /\ SetBuffer(Expected, "send") /\ UNCHANGED <<at, known, remote, faults, last>>
    BY <1>6 DEF Begin
  <2>2. Expected = LenOf(req)
    <3>1. CASE req.kind \in SensorKinds
      <4>1. at \in 7..9
        <5>1. at = 1 \/ at = 2 \/ at = 3 \/ at = 4 \/ at = 5 \/ at = 6 \/ at = 7 \/ at = 8 \/ at = 9 \/ at = 10
          BY <1>0
        <5>2. req.kind # "active" /\ req.kind # "version" /\ req.kind # "size" /\ req.kind # "board" /\ req.kind # "i2c"
          BY <3>1 DEF SensorKinds
        <5> QED
          BY <5>1, <5>2, CycleIs DEF req, Ask, Size
      <4>2. known.learned["volt"] # 0 /\ known.learned["power"] # 0 /\ known.learned["temp"] # 0
        <5>1. /\ 3 \in 3..5 /\ 4 \in 3..5 /\ 5 \in 3..5 /\ 3 < at /\ 4 < at /\ 5 < at
          BY <4>1
        <5>2. Cycle[3].of = "volt" /\ Cycle[4].of = "power" /\ Cycle[5].of = "temp"
          BY CycleIs DEF Size
        <5> QED
          BY <1>3, <5>1, <5>2 DEF LengthsInv
      <4>3. known.learned[req.kind] = SensorLen[req.kind]
        BY <3>1, <4>2 DEF LengthsInv, SensorKinds
      <4> QED
        BY <3>1, <4>3 DEF Expected, LenOf
    <3>2. CASE req.kind \notin SensorKinds
      BY <3>2 DEF Expected
    <3> QED
      BY <3>1, <3>2
  <2>3. Expected \in 0..BufMax
    BY <1>1, <2>2
  <2>4. /\ irq' /\ want' = Expected /\ pc' = "send" /\ UNCHANGED <<event, count, overrun>>
        /\ raw' = (raw /\ fifo' # <<>>)
        /\ fifo = <<>> => buf' = <<>> /\ fifo' = <<>>
    BY <1>0, <2>1, <2>3, BufferSet
  <2>5. Idle
    BY <1>3, <2>1 DEF CalmInv
  <2>6. buf' = <<>> /\ fifo' = <<>> /\ ~raw' /\ Idle' /\ req' = req
    BY <2>1, <2>4, <2>5 DEF Idle, remote, req
  <2>7. want' = LenOf(req')
    BY <2>2, <2>4, <2>6
  <2> QED
    BY <1>4, <2>1, <2>4, <2>6, <2>7 DEF CalmInv
<1>7. CASE Send
  <2>1. pc = "send" /\ sc' = Append(sc, req) /\ pc' = "wait" /\ UNCHANGED <<at, known, uart, wire, heard, faults, last>>
    BY <1>7 DEF Send
  <2>2. sc = <<>> /\ wire = <<>> /\ fifo = <<>> /\ event = {} /\ buf = <<>> /\ irq /\ want = LenOf(req)
    BY <1>3, <2>1 DEF CalmInv, Idle
  <2>3. sc' = <<req>> /\ req' = req
    BY <2>1, <2>2 DEF req
  <2> QED
    BY <1>4, <2>1, <2>2, <2>3 DEF CalmInv, uart
<1>8. CASE Wait
  <2>1. pc = "wait" /\ UNCHANGED <<at, known, remote, last>>
    BY <1>8 DEF Wait
  <2>2. /\ irq /\ want = LenOf(req)
        /\ \/ sc = <<req>> /\ wire = <<>> /\ fifo = <<>> /\ buf = <<>> /\ event = {}
           \/ /\ sc = <<>> /\ buf \o (fifo \o wire) = AnswerTo(req)
              /\ Len(buf) = want => event = {"complete"} /\ count = want
              /\ Len(buf) # want => event = {}
    BY <1>3, <2>1 DEF CalmInv
  <2>3. CASE Wakes("got")
    <3>1. /\ event # {} /\ event' = {} /\ pc' = (IF "complete" \in event THEN "got" ELSE "failed")
          /\ UNCHANGED <<rxSem, irq, buf, want, count, fifo, raw, overrun>>
      BY <2>3 DEF Wakes
    <3>2. sc = <<>> /\ Len(buf) = want /\ event = {"complete"} /\ count = want /\ buf \o (fifo \o wire) = AnswerTo(req)
      BY <2>2, <3>1
    <3>3. fifo = <<>> /\ wire = <<>> /\ buf = AnswerTo(req)
      BY <1>0, <1>1, <2>2, <3>2, Parts
    <3>4. pc' = "got" /\ Idle' /\ req' = req
      BY <2>1, <3>1, <3>2, <3>3 DEF Idle, remote, req
    <3> QED
      BY <1>4, <2>1, <2>2, <3>1, <3>2, <3>3, <3>4 DEF CalmInv
  <2>4. CASE TimesOut("failed") /\ Fault(~Quiet)
    <3>1. event = {} /\ Quiet
      BY <1>0, <1>3, <2>4 DEF TimesOut, Fault
    <3>2. sc = <<>> /\ wire = <<>> /\ ~(irq /\ raw)
      BY <3>1 DEF Quiet, Settled
    <3>3. fifo = <<>> /\ buf \o (fifo \o wire) = AnswerTo(req)
      BY <1>4, <2>2, <3>2
    <3>4. Len(buf) = want
      BY <1>0, <1>1, <2>2, <3>2, <3>3, Parts
    <3> QED
      BY <2>2, <3>1, <3>2, <3>4
  <2> QED
    BY <1>8, <2>3, <2>4 DEF Wait
<1>9. CASE Got
  <2>1. /\ pc = "got" /\ UNCHANGED <<buf, want, event, count, fifo, raw, overrun, remote, faults>>
    BY <1>9 DEF Got
  <2>2. /\ buf = AnswerTo(req) /\ ~(count <= TooShort) /\ count = Len(buf) /\ buf[1].kind = req.kind
    BY <1>3, <2>1, WholeAnswer
  <2>3. count > TooShort /\ Whole(buf, count) /\ IsAnswer(buf[1])
    <3>1. count \in Nat
      BY <1>0 DEF UartTypes
    <3> QED
      BY <1>1, <2>2, <3>1 DEF Whole, IsAnswer, TooShort
  <2>4. FinishWith(buf[1])
    BY <1>0, <1>9, <2>2, <2>3 DEF Got
  <2>5. Finish(Learned(buf[1]), buf[1].kind)
    BY <2>3, <2>4 DEF FinishWith
  <2>6. last' = req.kind /\ pc' \in {"delay", "begin"}
    BY <2>2, <2>5 DEF Finish
  <2>7. req.kind # "miss"
    BY <1>1, RequestsAre
  <2>8. Idle
    BY <1>3, <2>1 DEF CalmInv
  <2>9. Idle'
    BY <2>1, <2>8 DEF Idle, remote
  <2> QED
    BY <1>4, <2>1, <2>6, <2>7, <2>9 DEF CalmInv
<1>10. CASE Failed \/ Flush \/ Drain
  BY <1>4, <1>10 DEF Failed, Flush, Drain
<1> QED
  BY <1>5, <1>6, <1>7, <1>8, <1>9, <1>10 DEF Task

(* The interrupts, the line and the SC: the answer moves on in one piece,  *)
(* and the task hears of it when the last byte is in its buffer.           *)
LEMMA CalmOthers ==
  ASSUME LinkTypes, CalmInv, Isr \/ Deliver \/ ScAnswers
  PROVE  CalmInv'
<1>0. /\ UartTypes /\ wire \in Seq(Bytes) /\ at \in 1..10 /\ Fifo \in Nat \ {0}
      /\ buf \in Seq(Bytes) /\ fifo \in Seq(Bytes)
  BY ScLinkAssumption DEF LinkTypes, TaskTypes, RemoteTypes, UartTypes
<1>1. req \in Requests /\ LenOf(req) \in 2..BufMax /\ AnswerTo(req) \in Seq(Bytes) /\ Len(AnswerTo(req)) = LenOf(req)
  <2>1. req \in Requests
    BY <1>0, CycleIs DEF req, Requests
  <2> QED
    BY <2>1, AnswerIs
<1>2. faults' = 0 => faults = 0
  BY IsrSteps, DeliverSteps, AnswerSteps
<1>3. SUFFICES ASSUME faults' = 0, faults = 0
               PROVE  CalmInv'
  BY <1>2 DEF CalmInv
<1>4. /\ ~overrun /\ (raw <=> fifo # <<>>) /\ last # "miss"
      /\ pc \in {"delay", "begin", "send", "wait", "got"}
      /\ pc # "wait" => wire = <<>> /\ fifo = <<>> /\ sc = <<>>
  BY <1>3 DEF CalmInv, Idle
<1>5. pc = "wait" =>
        /\ irq /\ want = LenOf(req)
        /\ \/ sc = <<req>> /\ wire = <<>> /\ fifo = <<>> /\ buf = <<>> /\ event = {}
           \/ /\ sc = <<>> /\ buf \o (fifo \o wire) = AnswerTo(req)
              /\ Len(buf) = want => event = {"complete"} /\ count = want
              /\ Len(buf) # want => event = {}
  BY <1>3 DEF CalmInv
<1>6. CASE Isr
  <2>1. /\ UNCHANGED <<at, pc, known, remote, last, rxSem, irq, want>>
        /\ irq /\ ReceiveBuffer
        /\ \/ /\ Room > 0 /\ raw' = (raw /\ fifo' # <<>>) /\ overrun' = overrun
              /\ HalfFull
              /\ \/ Len(buf') = want /\ event' = event \cup {"complete"} /\ count' = want
                 \/ Len(buf') # want /\ event' = event /\ count' = count
           \/ /\ raw /\ raw' = FALSE /\ overrun' = overrun /\ event' = event \cup {"complete"} /\ count' = Len(buf')
              /\ wire = <<>>
    BY <1>3, <1>4, <1>6, IsrSteps
  <2>2. fifo # <<>>
    <3>1. HalfFull => fifo # <<>>
      BY <1>0 DEF HalfFull
    <3> QED
      BY <1>4, <2>1, <3>1
  <2>3. /\ pc = "wait" /\ sc = <<>> /\ buf \o (fifo \o wire) = AnswerTo(req) /\ irq /\ want = LenOf(req)
        /\ Len(buf) = want => event = {"complete"} /\ count = want
        /\ Len(buf) # want => event = {}
    BY <1>4, <1>5, <2>2
  <2>4. /\ Len(fifo) \in Nat /\ Len(wire) \in Nat /\ Room = Len(fifo) + Len(wire) /\ Len(buf) # want
        /\ wire = <<>> => buf \o fifo = AnswerTo(req)
    BY <1>0, <1>1, <2>2, <2>3, Parts
  <2>5. Len(fifo) <= Room
    BY <2>4
  <2>6. fifo' = <<>> /\ buf' = buf \o fifo
    BY <1>0, <2>1, <2>5, Received
  <2>7. event = {} /\ req' = req /\ wire' = wire /\ sc' = <<>> /\ pc' = "wait"
    BY <2>1, <2>3, <2>4 DEF req, remote
  <2>8. buf' \o (fifo' \o wire') = AnswerTo(req')
    <3>1. <<>> \o wire = wire
      BY <1>0, ConcatEmptySeq
    <3>2. (buf \o fifo) \o wire = buf \o (fifo \o wire)
      BY <1>0, ConcatAssociative
    <3> QED
      BY <2>3, <2>6, <2>7, <3>1, <3>2
  <2>9. ~raw' /\ ~overrun'
    <3>1. raw' = (raw /\ fifo' # <<>>) \/ raw' = FALSE
      BY <2>1
    <3>2. overrun' = overrun
      BY <2>1
    <3> QED
      BY <1>4, <2>6, <3>1, <3>2
  <2>10. /\ Len(buf') = want' => event' = {"complete"} /\ count' = want'
         /\ Len(buf') # want' => event' = {}
    <3>1. wire = <<>> => Len(buf') = want
      BY <1>1, <2>3, <2>4, <2>6
    <3> QED
      BY <2>1, <2>7, <3>1
  <2>11. irq' /\ want' = LenOf(req') /\ last' = last
    BY <2>1, <2>3, <2>7
  <2> QED
    BY <1>4, <2>6, <2>7, <2>8, <2>9, <2>10, <2>11 DEF CalmInv
<1>7. CASE Deliver
  <2>1. /\ UNCHANGED <<at, pc, known, rxSem, irq, buf, want, event, count, sc, heard, last>>
        /\ wire # <<>> /\ raw' = TRUE
        /\ irq /\ Room > 0 => overrun' = overrun /\ fifo' # <<>> /\ fifo' \o wire' = fifo \o wire
    BY <1>7, DeliverSteps
  <2>2. /\ pc = "wait" /\ sc = <<>> /\ buf \o (fifo \o wire) = AnswerTo(req) /\ irq /\ want = LenOf(req)
        /\ Len(buf) = want => event = {"complete"} /\ count = want
        /\ Len(buf) # want => event = {}
    BY <1>4, <1>5, <2>1
  <2>3. Room > 0
    <3>1. Len(wire) \in Nat /\ Len(fifo) \in Nat /\ Room = Len(fifo) + Len(wire)
      BY <1>0, <1>1, <2>2, Parts
    <3>2. Len(wire) # 0
      BY <1>0, <2>1, EmptySeq
    <3> QED
      BY <3>1, <3>2
  <2>4. overrun' = overrun /\ fifo' # <<>> /\ fifo' \o wire' = fifo \o wire
    BY <2>1, <2>2, <2>3
  <2>5. req' = req
    BY <2>1 DEF req
  <2>6. buf' \o (fifo' \o wire') = AnswerTo(req')
    BY <2>1, <2>2, <2>4, <2>5
  <2> QED
    BY <1>4, <2>1, <2>2, <2>4, <2>5, <2>6 DEF CalmInv
<1>8. CASE ScAnswers
  <2>1. /\ UNCHANGED <<at, pc, known, uart, last>>
        /\ sc # <<>> /\ sc' = Tail(sc) /\ wire' = wire \o AnswerTo(Head(sc))
    BY <1>3, <1>8, AnswerSteps
  <2>2. pc = "wait" /\ sc = <<req>> /\ wire = <<>> /\ fifo = <<>> /\ buf = <<>> /\ event = {} /\ irq /\ want = LenOf(req)
    BY <1>4, <1>5, <2>1
  <2>3. sc' = <<>> /\ Head(sc) = req
    BY <2>1, <2>2
  <2>4. \A s \in Seq(Bytes) : <<>> \o s = s
    BY ConcatEmptySeq
  <2>5. wire' = AnswerTo(req) /\ req' = req /\ buf' = <<>> /\ fifo' = <<>>
    BY <1>1, <2>1, <2>2, <2>3, <2>4 DEF req, uart
  <2>6. buf' \o (fifo' \o wire') = AnswerTo(req')
    BY <1>1, <2>4, <2>5
  <2>7. Len(buf') # want' /\ want' = want
    BY <1>1, <2>1, <2>2, <2>5 DEF uart
  <2> QED
    BY <1>4, <2>1, <2>2, <2>3, <2>5, <2>6, <2>7 DEF CalmInv, uart
<1> QED
  BY <1>6, <1>7, <1>8

(* A step in which nothing goes wrong keeps the answer on its way whole.   *)
LEMMA CalmStep ==
  ASSUME LinkTypes, LengthsInv, CalmInv, [Next]_vars
  PROVE  CalmInv'
<1>1. CASE UNCHANGED vars
  <2>1. req' = req
    BY <1>1 DEF vars, req
  <2> QED
    BY <1>1, <2>1 DEF vars, uart, remote, CalmInv, Idle
<1> QED
  BY <1>1, CalmTask, CalmOthers DEF Next

-----------------------------------------------------------------------------
(* The theorems                                                            *)

(* The task begins with nothing learned and nothing asked.                 *)
LEMMA InitHolds ==
  ASSUME Init
  PROVE  LinkTypes /\ HeardInv /\ LengthsInv /\ CalmInv
<1>1. \A S : <<>> \in Seq(S)
  OBVIOUS
<1>2. BufMax \in Nat /\ Fifo \in Nat /\ MaxFaults \in Nat
  BY ScLinkAssumption
<1>3. known \in Known
  BY <1>2 DEF Init, Known
<1>4. TaskTypes
  BY <1>3 DEF Init, TaskTypes
<1>5. UartTypes
  <2>1. <<>> \in Seq(Bytes) /\ Len(<<>>) = 0
    BY <1>1
  <2>2. 0 \in 0..BufMax /\ 0 <= Fifo
    BY <1>2
  <2>3. /\ rxSem = FALSE /\ irq = TRUE /\ raw = FALSE /\ overrun = FALSE
        /\ buf = <<>> /\ want = 0 /\ event = {} /\ count = 0 /\ fifo = <<>>
    BY DEF Init
  <2>4. rxSem \in BOOLEAN /\ irq \in BOOLEAN /\ raw \in BOOLEAN /\ overrun \in BOOLEAN
    BY <2>3
  <2>5. buf \in Seq(Bytes) /\ fifo \in Seq(Bytes) /\ Len(buf) = 0 /\ Len(fifo) = 0
    BY <2>1, <2>3
  <2>6. want \in 0..BufMax /\ count \in 0..BufMax /\ Len(buf) <= want /\ Len(fifo) <= Fifo
    BY <2>2, <2>3, <2>5
  <2> QED
    BY <2>3, <2>4, <2>5, <2>6 DEF UartTypes
<1>6. RemoteTypes
  BY <1>1, <1>2 DEF Init, RemoteTypes
<1>7. HeardInv
  <2>1. AllHeard(<<>>)
    BY DEF AllHeard
  <2> QED
    BY <2>1 DEF Init, HeardInv, BelievesOnlyWhatScDid
<1>8. LengthsInv
  BY DEF Init, LengthsInv
<1>9. CalmInv
  BY DEF Init, CalmInv, Idle
<1> QED
  BY <1>4, <1>5, <1>6, <1>7, <1>8, <1>9 DEF LinkTypes

(* The types, where the bytes come from, what was learned, and the answer  *)
(* on its way.                                                             *)
LEMMA Invariants ==
  Spec => [](LinkTypes /\ HeardInv /\ LengthsInv /\ CalmInv)
<1>1. Init => LinkTypes /\ HeardInv /\ LengthsInv /\ CalmInv
  BY InitHolds
<1>2. LinkTypes /\ HeardInv /\ LengthsInv /\ CalmInv /\ [Next]_vars
        => (LinkTypes /\ HeardInv /\ LengthsInv /\ CalmInv)'
  BY TypeStep, HeardStep, LengthsStep, CalmStep
<1> QED
  BY <1>1, <1>2, PTL DEF Spec

(* The types, and the buffers: the FIFO of the UART and the receive buffer *)
(* of the task never hold more than they have room for.                    *)
THEOREM TypeCorrect == Spec => []TypeOK
<1>1. LinkTypes => TypeOK
  BY CycleIs DEF LinkTypes, TaskTypes, UartTypes, RemoteTypes, Known, TypeOK
<1> QED
  BY <1>1, Invariants, PTL

(* Parse_SC_Data: whatever is lost, late or damaged, the task believes the *)
(* SC active, its power mode set, or it in possession of the board         *)
(* information, only after the SC has carried out that very request.       *)
THEOREM BeliefsAreTrue == Spec => []BelievesOnlyWhatScDid
<1>1. HeardInv => BelievesOnlyWhatScDid
  BY DEF HeardInv
<1> QED
  BY <1>1, Invariants, PTL

(* cl_uart_rtos.c with vmc_sc_comms.c: for answers of any length and a     *)
(* FIFO of any size, as long as the answers arrive whole and in time, the  *)
(* two receive interrupts, the event group and the bytes taken straight    *)
(* from the FIFO never cost the task an answer.                            *)
THEOREM EveryAnswerTaken == Spec => []NoAnswerLostByUs
<1>1. CalmInv => NoAnswerLostByUs
  BY DEF CalmInv, NoAnswerLostByUs
<1> QED
  BY <1>1, Invariants, PTL

-----------------------------------------------------------------------------
(* Sequences of sequences                                                  *)

(* FlattenSeq, of the first m of some sequences.                           *)
Glued(b, m, F) == F = [i \in 1..m |-> IF i = 1 THEN b[1] ELSE F[i - 1] \o b[i]]
Flat(b, m) == FlattenSeq([i \in 1..m |-> b[i]])

(* The function FlattenSeq chooses is there, for every number of sequences:*)
(* of those without one there would be a least.                            *)
LEMMA GlueExists ==
  ASSUME NEW b, NEW n \in Nat
  PROVE  \E F : Glued(b, n, F)
<1> DEFINE T == {m \in Nat : ~ \E F : Glued(b, m, F)}
<1>a. SUFFICES ASSUME T # {} PROVE FALSE
  OBVIOUS
<1>1. PICK m \in T : \A k \in T : m <= k
  BY <1>a, LeastOf
<1>2. m \in Nat /\ ~ \E F : Glued(b, m, F)
  BY <1>1
<1>3. CASE m = 0
  <2> DEFINE F == [i \in 1..0 |-> 0]
  <2>1. Glued(b, 0, F)
    BY DEF Glued
  <2> QED
    BY <1>2, <1>3, <2>1
<1>4. CASE m # 0
  <2> DEFINE k == m - 1
  <2>1. k \in Nat /\ m = k + 1 /\ k \notin T
    BY <1>1, <1>2, <1>4
  <2> HIDE DEF k
  <2>2. PICK F : Glued(b, k, F)
    BY <2>1
  <2> DEFINE x == IF m = 1 THEN b[1] ELSE F[k] \o b[m]
             G == [i \in 1..m |-> IF i = m THEN x ELSE F[i]]
  <2>3. ASSUME NEW i \in 1..m PROVE G[i] = IF i = 1 THEN b[1] ELSE G[i - 1] \o b[i]
    <3>1. CASE i = m
      <4>1. G[i] = x
        BY <3>1
      <4>2. i # 1 => G[i - 1] = F[k] /\ k \in 1..m
        BY <2>1, <3>1
      <4> QED
        BY <3>1, <4>1, <4>2
    <3>2. CASE i # m
      <4>1. i \in 1..k /\ (i # 1 => i - 1 \in 1..m /\ i - 1 # m)
        BY <2>1, <3>2
      <4>2. F[i] = IF i = 1 THEN b[1] ELSE F[i - 1] \o b[i]
        BY <2>2, <4>1 DEF Glued
      <4> QED
        BY <3>2, <4>1, <4>2
    <3> QED
      BY <3>1, <3>2
  <2>4. Glued(b, m, G)
    <3> HIDE DEF x
    <3>1. G = [i \in 1..m |-> G[i]]
      OBVIOUS
    <3> HIDE DEF G
    <3> QED
      BY <2>3, <3>1 DEF Glued
  <2> QED
    BY <1>2, <2>4
<1> QED
  BY <1>3, <1>4

(* Two of them agree where both are defined.                               *)
LEMMA GlueAgrees ==
  ASSUME NEW b, NEW n \in Nat, NEW m \in Nat, m <= n, NEW F, NEW G, Glued(b, m, F), Glued(b, n, G), NEW k \in 1..m
  PROVE  F[k] = G[k]
<1> DEFINE T == {i \in 1..m : F[i] # G[i]}
<1>a. SUFFICES ASSUME T # {} PROVE FALSE
  OBVIOUS
<1>1. T \in SUBSET Nat
  OBVIOUS
<1>2. PICK i \in T : \A j \in T : i <= j
  BY <1>1, <1>a, LeastOf
<1>3. i \in 1..m /\ i \in 1..n /\ F[i] # G[i] /\ \A j \in 1..m : j < i => F[j] = G[j]
  BY <1>2
<1>4. F[i] = (IF i = 1 THEN b[1] ELSE F[i - 1] \o b[i]) /\ G[i] = (IF i = 1 THEN b[1] ELSE G[i - 1] \o b[i])
  BY <1>3 DEF Glued
<1>5. i # 1 => i - 1 \in 1..m /\ i - 1 < i
  BY <1>3
<1> QED
  BY <1>3, <1>4, <1>5

(* What FlattenSeq makes of the first m sequences.                         *)
LEMMA FlatIs ==
  ASSUME NEW b, NEW m \in Nat \ {0}
  PROVE  \E F : Glued(b, m, F) /\ Flat(b, m) = F[m]
<1> DEFINE s == [i \in 1..m |-> b[i]]
           F == CHOOSE f : Glued(b, m, f)
<1>1. Len(s) = m
  OBVIOUS
<1>2. FlattenSeq(s) = (CHOOSE f : f = [i \in 1..Len(s) |-> IF i = 1 THEN s[1] ELSE f[i - 1] \o s[i]])[Len(s)]
  BY <1>1 DEF FlattenSeq
<1>3. \A f : f = [i \in 1..Len(s) |-> IF i = 1 THEN s[1] ELSE f[i - 1] \o s[i]] <=> Glued(b, m, f)
  <2> TAKE f
  <2>1. [i \in 1..Len(s) |-> IF i = 1 THEN s[1] ELSE f[i - 1] \o s[i]] = [i \in 1..m |-> IF i = 1 THEN b[1] ELSE f[i - 1] \o b[i]]
    BY <1>1
  <2> QED
    BY <2>1 DEF Glued
<1>4. FlattenSeq(s) = F[m]
  BY <1>1, <1>2, <1>3
<1>5. Glued(b, m, F)
  BY GlueExists
<1> QED
  BY <1>4, <1>5 DEF Flat

(* One more sequence is appended to what is there.                         *)
LEMMA FlatStep ==
  ASSUME NEW S, NEW n \in Nat, NEW b \in [1..n -> Seq(S)]
  PROVE  /\ Flat(b, 0) = <<>>
         /\ \A m \in 1..n : Flat(b, m) = Flat(b, m - 1) \o b[m]
         /\ \A m \in 0..n : Flat(b, m) \in Seq(S)
<1>1. Flat(b, 0) = <<>>
  BY DEF Flat, FlattenSeq
<1>2. ASSUME NEW m \in 1..n PROVE Flat(b, m) = Flat(b, m - 1) \o b[m]
  <2>1. PICK F : Glued(b, m, F) /\ Flat(b, m) = F[m]
    BY FlatIs
  <2>2. F[m] = IF m = 1 THEN b[1] ELSE F[m - 1] \o b[m]
    <3>1. m \in 1..m
      OBVIOUS
    <3> QED
      BY <2>1, <3>1 DEF Glued
  <2>3. CASE m = 1
    <3>1. b[1] \in Seq(S)
      BY <2>3
    <3>2. <<>> \o b[1] = b[1] /\ m - 1 = 0
      BY <2>3, <3>1
    <3> QED
      BY <1>1, <2>1, <2>2, <2>3, <3>2
  <2>4. CASE m # 1
    <3>1. m - 1 \in Nat \ {0} /\ m - 1 <= m /\ m - 1 \in 1..m - 1
      BY <2>4
    <3>2. PICK G : Glued(b, m - 1, G) /\ Flat(b, m - 1) = G[m - 1]
      BY <3>1, FlatIs
    <3>3. G[m - 1] = F[m - 1]
      BY <2>1, <3>1, <3>2, GlueAgrees
    <3> QED
      BY <2>1, <2>2, <2>4, <3>2, <3>3
  <2> QED
    BY <2>3, <2>4
<1>3. \A m \in 0..n : Flat(b, m) \in Seq(S)
  <2> DEFINE T == {m \in 0..n : Flat(b, m) \notin Seq(S)}
  <2>a. SUFFICES ASSUME T # {} PROVE FALSE
    OBVIOUS
  <2>1. T \in SUBSET Nat
    OBVIOUS
  <2>2. PICK m \in T : \A k \in T : m <= k
    BY <2>1, <2>a, LeastOf
  <2>3. m \in 0..n /\ Flat(b, m) \notin Seq(S) /\ \A k \in 0..n : k < m => Flat(b, k) \in Seq(S)
    BY <2>2
  <2>4. m # 0
    <3>1. <<>> \in Seq(S)
      OBVIOUS
    <3> QED
      BY <1>1, <2>3, <3>1
  <2>5. m \in 1..n /\ m - 1 \in 0..n /\ m - 1 < m
    BY <2>3, <2>4
  <2>6. Flat(b, m - 1) \in Seq(S) /\ b[m] \in Seq(S)
    BY <2>3, <2>5
  <2>7. Flat(b, m - 1) \o b[m] \in Seq(S)
    BY <2>6
  <2> QED
    BY <1>2, <2>3, <2>5, <2>7
<1> QED
  BY <1>1, <1>2, <1>3

(* A sequence begins with another one.                                     *)
Begins(f, g) == Len(f) <= Len(g) /\ \A x \in 1..Len(f) : g[x] = f[x]

(* What comes first stays first.                                           *)
LEMMA FlatPrefix ==
  ASSUME NEW S, NEW n \in Nat, NEW b \in [1..n -> Seq(S)], NEW m \in 0..n, NEW k \in m..n
  PROVE  Begins(Flat(b, m), Flat(b, k))
<1> DEFINE f == Flat(b, m)
           P(i) == Len(f) <= Len(Flat(b, i)) /\ \A x \in 1..Len(f) : Flat(b, i)[x] = f[x]
           T == {i \in m..n : ~P(i)}
<1>a. SUFFICES ASSUME T # {} PROVE FALSE
  BY DEF Begins
<1>1. T \in SUBSET Nat
  OBVIOUS
<1>2. PICK i \in T : \A j \in T : i <= j
  BY <1>1, <1>a, LeastOf
<1>3. i \in m..n /\ ~P(i) /\ \A j \in m..n : j < i => P(j)
  BY <1>2
<1>4. f \in Seq(S) /\ Len(f) \in Nat
  <2>1. m \in 0..n
    OBVIOUS
  <2>2. f \in Seq(S)
    BY <2>1, FlatStep
  <2> HIDE DEF f
  <2> QED
    BY <2>2
<1>5. i # m
  <2>1. P(m)
    BY <1>4
  <2> QED
    BY <1>3, <2>1
<1>6. i \in 1..n /\ i - 1 \in m..n /\ i - 1 \in 0..n /\ i - 1 < i
  BY <1>3, <1>5
<1>7. Flat(b, i) = Flat(b, i - 1) \o b[i] /\ Flat(b, i - 1) \in Seq(S) /\ b[i] \in Seq(S)
  BY <1>6, FlatStep
<1>8. P(i - 1)
  BY <1>3, <1>6
<1> HIDE DEF f
<1> DEFINE g == Flat(b, i - 1)
           h == b[i]
<1>9. /\ g \in Seq(S) /\ h \in Seq(S) /\ Flat(b, i) = g \o h /\ Len(f) <= Len(g)
      /\ \A x \in 1..Len(f) : g[x] = f[x]
  BY <1>7, <1>8
<1> HIDE DEF g, h
<1>10. /\ Len(g \o h) = Len(g) + Len(h) /\ Len(g) \in Nat /\ Len(h) \in Nat
       /\ \A x \in 1..Len(g) : (g \o h)[x] = g[x]
  BY <1>9
<1>11. \A x \in 1..Len(f) : x \in 1..Len(g)
  BY <1>4, <1>9, <1>10
<1> QED
  BY <1>3, <1>4, <1>9, <1>10, <1>11

-----------------------------------------------------------------------------
(* The update of the firmware                                              *)

Files == [ptr : Nat, flag : BOOLEAN, addr : Int, prev : Nat, sent : BOOLEAN]
Chips == [mode : {"sc", "bsl", "dead"}, unlocked : BOOLEAN, flash : [Addr -> {"old", "blank", "own", "wrong"}]]
MachineTypes ==
  /\ board \in {"vck5000", "later"} /\ syncLen \in {1, 8} /\ image \in {"whole", "headless", "none"}
  /\ st \in States /\ status \in {"success", "failure", "progress"} /\ {error, rc} \subseteq Errors
  /\ retry \in [Counted -> 0..(MaxRetry - 1)] /\ mode \in 0..(MaxMode - 1) /\ bytes \in {1, 8, 11}
  /\ msp \in Chips
OtherTypes ==
  /\ file \in Files /\ file.ptr <= Len(File)
  /\ pkt.addr \in Int /\ pkt.lines \in Seq(Int) /\ Len(pkt.lines) <= PktLines
  /\ tx \in {"none", "symbol", "parse", "send", "crc", "end"}
  /\ {active, clean, mixed, beyond, busy} \subseteq BOOLEAN
  /\ query \in {"idle", "parse"} /\ lost \subseteq Addr
  /\ started \in 0..MaxUpdates /\ asked \in 0..MaxQueries
UpdateTypes == MachineTypes /\ OtherTypes

(* What lies before a section of the image.                                *)
Count     == Len(Sections)
Blocks    == [s \in 1..Count |-> SectionTokens(s)]
Before(s) == Len(Flat(Blocks, s - 1))

(* The pointers after k lines of section s.                                *)
AtMark(f, s)    == f.flag /\ ~f.sent /\ f.ptr = IF s = 1 THEN 0 ELSE Before(s) + 1
AfterLine(f, s, k) == ~f.flag /\ ~f.sent /\ f.ptr = Before(s) + 2 * k + 1 /\ f.addr + f.prev = Base[s] + k
Within(f, s, k) ==
  /\ s \in 1..Count /\ k \in 0..Sections[s]
  /\ k = 0 => AtMark(f, s)
  /\ k > 0 => AfterLine(f, s, k)
(* The addresses of these lines, that they are all among some addresses,  *)
(* and what has become of them.                                            *)
Span(s, m) == Base[s]..(Base[s] + m - 1)
Done(s, k) == {a \in Addr : (\E t \in 1..Count : t < s /\ a \in Span(t, Sections[t])) \/ a \in Span(s, k)}
UpTo(f, D) ==
  \/ f.sent /\ Addr \subseteq D
  \/ \E s \in 1..Count : \E k \in 0..Sections[s] : Within(f, s, k) /\ Done(s, k) \subseteq D
Proper(p)  == \A a \in Addr : Covers(p, a) => Line(p, a) = a
Covered    == {a \in Addr : Covers(pkt, a)}
Kept       == {a \in Addr : msp.flash[a] = "own"} \cup lost

(* Where the machine is tells the outcome so far.                          *)
ControlInv ==
  /\ ~busy => st = "Idle" /\ tx = "none" /\ error = "none"
  /\ st = "Idle" => status \in {"success", "failure"}
  /\ st # "Idle" /\ tx # "end" => status = "progress"
  /\ st = "Idle" /\ status = "failure" /\ busy => error # "none"
  /\ tx # "none" => st = "DataTx"
  /\ st = "DataTx" => Open
  /\ tx = "end" => status = "progress" \/ (status = "failure" /\ error # "none")
  /\ st = "Reboot" => error # "none"

(* How far the lines have got.                                             *)
DataInv ==
  ~mixed =>
    /\ st = "DataTx" => \A a \in Addr : msp.flash[a] \in {"blank", "own"}
    /\ tx = "symbol" => file.ptr = 0 /\ ~file.sent
    /\ tx = "parse" => ~file.sent /\ UpTo(file, Kept)
    /\ tx \in {"send", "crc"} => Proper(pkt) /\ UpTo(file, Kept \cup Covered)
    /\ tx = "crc" => Covered \subseteq {a \in Addr : msp.flash[a] = "own"}
    /\ tx = "end" /\ status # "failure" => Addr \subseteq Kept
    /\ st = "LoadPc" \/ (st = "Idle" /\ busy /\ error = "none") => Addr \subseteq Kept

(* An undisturbed update of a whole image finds the SC in the state each   *)
(* request needs.                                                          *)
BytesInv == st # "ScBslSync" => bytes \in {8, 11}
CleanInv ==
  image = "whole" /\ clean /\ ~mixed /\ msp.mode # "dead" =>
    /\ lost = {} \/ ~busy
    /\ error = "none"
    /\ st = "ScBslSync" /\ bytes = 1 => InBsl
    /\ st = "EnableBsl" => msp.mode = "sc"
    /\ st \in {"BslSynced", "Unlock"} => InBsl
    /\ st \in {"MassErase", "LoadPc"} => Open
    /\ st = "Idle" /\ busy => Complete /\ msp.mode = "sc"

-----------------------------------------------------------------------------
(* The image                                                               *)

Tokens == [t : {"at", "addr", "line", "nl", "end"}, v : Int]

(* The constants, and the tokens of a section.                             *)
LEMMA Image ==
  /\ Count \in Nat \ {0} /\ PktLines \in Nat \ {0}
  /\ \A s \in 1..Count : /\ Sections[s] \in Nat \ {0} /\ Base[s] \in Nat \ {0}
                         /\ SectionTokens(s) \in Seq(Tokens) /\ Len(SectionTokens(s)) = 2 * Sections[s] + 2
  /\ Blocks \in [1..Count -> Seq(Tokens)]
<1>1. Count \in Nat \ {0} /\ PktLines \in Nat \ {0}
  BY ScUpdateAssumption DEF Count
<1>2. ASSUME NEW s \in 1..Count
      PROVE  Sections[s] \in Nat \ {0} /\ Base[s] \in Nat \ {0}
  BY ScUpdateAssumption DEF Count
<1>3. ASSUME NEW s \in 1..Count
      PROVE  SectionTokens(s) \in Seq(Tokens) /\ Len(SectionTokens(s)) = 2 * Sections[s] + 2
  <2> DEFINE n == 2 * Sections[s] + 2
             T(k) == IF k = 1 THEN Token("at", 0)
                     ELSE IF k = 2 THEN Token("addr", Base[s])
                     ELSE IF k % 2 = 1 THEN Token("line", Base[s] + (k - 3) \div 2)
                     ELSE Token("nl", 0)
  <2>1. n \in Nat
    BY <1>2
  <2>2. ASSUME NEW k \in 1..n PROVE T(k) \in Tokens
    <3>1. Base[s] \in Int /\ k \in Int
      BY <1>2
    <3>2. Base[s] + (k - 3) \div 2 \in Int
      BY <3>1
    <3> QED
      BY <3>1, <3>2 DEF Token, Tokens
  <2>3. SectionTokens(s) = [k \in 1..n |-> T(k)]
    BY DEF SectionTokens
  <2> HIDE DEF n, T
  <2>4. [k \in 1..n |-> T(k)] \in Seq(Tokens) /\ Len([k \in 1..n |-> T(k)]) = n
    BY <2>1, <2>2
  <2> QED
    BY <2>3, <2>4 DEF n
<1>4. Blocks \in [1..Count -> Seq(Tokens)]
  BY <1>3 DEF Blocks
<1> QED
  BY <1>1, <1>2, <1>3, <1>4

(* The sections lie one behind the other, and the image ends behind them.  *)
LEMMA Layout ==
  /\ Before(1) = 0
  /\ \A s \in 1..(Count + 1) : Before(s) \in Nat
  /\ \A s \in 1..Count : Before(s + 1) = Before(s) + 2 * Sections[s] + 2
  /\ \A s \in 1..Count : \A o \in 1..(2 * Sections[s] + 2) : File[Before(s) + o] = SectionTokens(s)[o]
  /\ \A s \in 1..Count : Before(s + 1) <= Before(Count + 1)
  /\ Len(File) = Before(Count + 1) + 1
  /\ File[Len(File)] = Token("end", 0)
  /\ File \in Seq(Tokens)
<1> DEFINE F(m) == Flat(Blocks, m)
<1>0. Count \in Nat \ {0} /\ Blocks \in [1..Count -> Seq(Tokens)] /\ Count \in Nat
  BY Image
<1>1. /\ F(0) = <<>>
      /\ \A m \in 1..Count : F(m) = F(m - 1) \o Blocks[m]
      /\ \A m \in 0..Count : F(m) \in Seq(Tokens)
  BY <1>0, FlatStep
<1>2. \A m \in 0..Count : \A k \in m..Count : Begins(F(m), F(k))
  BY <1>0, FlatPrefix
<1>3. Before(1) = 0
  BY <1>1 DEF Before
<1>4. \A s \in 1..(Count + 1) : Before(s) \in Nat
  BY <1>0, <1>1 DEF Before
<1>5. ASSUME NEW s \in 1..Count
      PROVE  /\ Before(s + 1) = Before(s) + 2 * Sections[s] + 2
             /\ \A o \in 1..(2 * Sections[s] + 2) : F(s)[Before(s) + o] = SectionTokens(s)[o]
             /\ Before(s + 1) <= Before(Count + 1)
             /\ \A x \in 1..Before(s + 1) : F(Count)[x] = F(s)[x]
  <2> DEFINE f == F(s - 1)
             g == SectionTokens(s)
  <2>1. s \in 0..Count /\ s - 1 \in 0..Count /\ Count \in s..Count /\ s + 1 - 1 = s /\ Count + 1 - 1 = Count
    BY <1>0
  <2>2. f \in Seq(Tokens) /\ g \in Seq(Tokens) /\ Len(g) = 2 * Sections[s] + 2 /\ F(s) = f \o g
    <3>1. Blocks[s] = g
      BY DEF Blocks
    <3> QED
      BY <1>1, <2>1, <3>1, Image
  <2>3. Before(s) = Len(f) /\ Before(s + 1) = Len(F(s)) /\ Before(Count + 1) = Len(F(Count))
    BY <2>1 DEF Before
  <2>4. Begins(F(s), F(Count))
    BY <1>2, <2>1
  <2> HIDE DEF f, g, F
  <2>5. Len(f \o g) = Len(f) + Len(g) /\ \A o \in 1..Len(g) : (f \o g)[Len(f) + o] = g[o]
    <3>1. Len(f) \in Nat /\ Len(g) \in Nat
      BY <2>2
    <3>2. Len(f \o g) = Len(f) + Len(g)
      BY <2>2, ConcatProperties
    <3>3. ASSUME NEW o \in 1..Len(g) PROVE (f \o g)[Len(f) + o] = g[o]
      BY <2>2, <3>1
    <3> QED
      BY <3>2, <3>3
  <2>6. Len(f) \in Nat /\ Len(g) \in Nat /\ Sections[s] \in Nat
    BY <2>2, Image
  <2>7. Before(s + 1) = Before(s) + 2 * Sections[s] + 2
    BY <2>2, <2>3, <2>5, <2>6
  <2>8. \A o \in 1..(2 * Sections[s] + 2) : F(s)[Before(s) + o] = g[o]
    BY <2>2, <2>3, <2>5
  <2>9. Before(s + 1) <= Before(Count + 1) /\ \A x \in 1..Before(s + 1) : F(Count)[x] = F(s)[x]
    BY <2>3, <2>4 DEF Begins
  <2> QED
    BY <2>7, <2>8, <2>9 DEF g
<1>6. F(Count) \in Seq(Tokens) /\ Len(F(Count)) = Before(Count + 1)
  <2>1. Count \in 0..Count /\ Count + 1 - 1 = Count
    BY <1>0
  <2> QED
    BY <1>1, <2>1 DEF Before
<1>7. File = F(Count) \o <<Token("end", 0)>>
  <2>1. [s \in 1..Count |-> Blocks[s]] = [s \in 1..Len(Sections) |-> SectionTokens(s)]
    BY DEF Blocks, Count
  <2> QED
    BY <2>1 DEF File, Flat
<1>8. Token("end", 0) \in Tokens
  BY DEF Token, Tokens
<1> HIDE DEF F
<1> DEFINE f == F(Count)
           e == Token("end", 0)
<1>9. f \in Seq(Tokens) /\ e \in Tokens /\ File = f \o <<e>> /\ Len(f) = Before(Count + 1)
  BY <1>6, <1>7, <1>8
<1> HIDE DEF f, e
<1>10. /\ Len(f \o <<e>>) = Len(f) + 1 /\ (f \o <<e>>)[Len(f) + 1] = e
       /\ f \o <<e>> \in Seq(Tokens) /\ Len(f) \in Nat
       /\ \A x \in 1..Len(f) : (f \o <<e>>)[x] = f[x]
  BY <1>9
<1>11. ASSUME NEW s \in 1..Count, NEW o \in 1..(2 * Sections[s] + 2)
       PROVE  File[Before(s) + o] = SectionTokens(s)[o]
  <2>1. F(s)[Before(s) + o] = SectionTokens(s)[o]
    BY <1>5
  <2>2. Before(s) + o \in 1..Before(s + 1)
    <3>1. Before(s) \in Nat /\ Sections[s] \in Nat
      BY <1>4, <1>0, Image
    <3>2. Before(s + 1) = Before(s) + 2 * Sections[s] + 2
      BY <1>5
    <3> QED
      BY <3>1, <3>2
  <2>3. f[Before(s) + o] = F(s)[Before(s) + o]
    BY <1>5, <2>2 DEF f
  <2>4. Before(s) + o \in 1..Len(f)
    <3>1. Before(s + 1) <= Len(f) /\ Before(s + 1) \in Int
      <4>1. s + 1 \in 1..(Count + 1)
        BY <1>0
      <4> QED
        BY <1>4, <1>5, <1>9, <4>1
    <3> QED
      BY <2>2, <3>1, <1>10
  <2> QED
    BY <1>9, <1>10, <2>1, <2>3, <2>4
<1> QED
  BY <1>3, <1>4, <1>5, <1>9, <1>10, <1>11 DEF e

(* What is read at a place of the image, and beyond its end.               *)
LEMMA AtIs ==
  /\ Len(File) \in Nat \ {0}
  /\ \A i \in Nat \ {0} : At(i) \in Tokens /\ (i >= Len(File) => At(i) = Token("end", 0))
  /\ \A i \in 1..Len(File) : At(i) = File[i]
<1>1. File \in Seq(Tokens) /\ Len(File) = Before(Count + 1) + 1 /\ File[Len(File)] = Token("end", 0)
  BY Layout
<1>2. Before(Count + 1) \in Nat
  <2>1. Count + 1 \in 1..(Count + 1)
    BY Image
  <2> QED
    BY <2>1, Layout
<1>3. Len(File) \in Nat \ {0}
  BY <1>1, <1>2
<1>4. \A i \in 1..Len(File) : File[i] \in Tokens
  BY <1>1
<1>5. ASSUME NEW i \in Nat \ {0} PROVE At(i) \in Tokens /\ (i >= Len(File) => At(i) = Token("end", 0))
  BY <1>1, <1>3, <1>4 DEF At
<1>6. \A i \in 1..Len(File) : At(i) = File[i]
  BY <1>3 DEF At
<1> QED
  BY <1>3, <1>5, <1>6

(* The tokens of a section and the one behind them.                        *)
LEMMA SectionIs ==
  ASSUME NEW s \in 1..Count
  PROVE  /\ Before(s) \in Nat /\ Before(s + 1) = Before(s) + 2 * Sections[s] + 2 /\ Before(s + 1) < Len(File)
         /\ At(Before(s) + 1).t = "at"
         /\ At(Before(s) + 2) = Token("addr", Base[s])
         /\ \A q \in 0..(Sections[s] - 1) :
              /\ At(Before(s) + 3 + 2 * q) = Token("line", Base[s] + q)
              /\ At(Before(s) + 4 + 2 * q) = Token("nl", 0)
         /\ At(Before(s + 1) + 1).t = IF s = Count THEN "end" ELSE "at"
<1> DEFINE b(x) == Before(x)
           n(x) == Sections[x]
           N == Len(File)
<1>1. Count \in Nat \ {0} /\ \A x \in 1..Count : n(x) \in Nat \ {0} /\ Base[x] \in Nat \ {0}
  BY Image
<1>2. /\ \A x \in 1..(Count + 1) : b(x) \in Nat
      /\ \A x \in 1..Count : b(x + 1) = b(x) + 2 * n(x) + 2 /\ b(x + 1) <= b(Count + 1)
      /\ N = b(Count + 1) + 1
      /\ \A x \in 1..Count : \A o \in 1..(2 * n(x) + 2) : File[b(x) + o] = SectionTokens(x)[o]
  BY Layout
<1>3. N \in Nat \ {0} /\ \A i \in 1..N : At(i) = File[i]
  BY AtIs
<1>4. ASSUME NEW x \in 1..Count, NEW o \in 1..(2 * n(x) + 2) PROVE At(b(x) + o) = SectionTokens(x)[o]
  <2>1. b(x) \in Nat /\ n(x) \in Nat /\ b(x + 1) \in Nat /\ b(Count + 1) \in Nat
    <3>1. x \in 1..(Count + 1) /\ x + 1 \in 1..(Count + 1) /\ Count + 1 \in 1..(Count + 1)
      BY <1>1
    <3> QED
      BY <1>1, <1>2, <3>1
  <2>2. b(x) + o <= b(x + 1) /\ b(x + 1) < N /\ b(x) + o \in Nat \ {0}
    <3>1. b(x + 1) = b(x) + 2 * n(x) + 2 /\ b(x + 1) <= b(Count + 1) /\ N = b(Count + 1) + 1
      BY <1>2
    <3>2. o \in Nat \ {0} /\ o <= 2 * n(x) + 2
      BY <2>1
    <3> HIDE DEF b, n, N
    <3> QED
      BY <2>1, <3>1, <3>2
  <2>3. b(x) + o \in 1..N
    BY <1>3, <2>1, <2>2
  <2> QED
    BY <1>2, <1>3, <2>3
<1>5. \A x \in 1..Count : At(b(x) + 1).t = "at"
  <2> TAKE x \in 1..Count
  <2>1. 1 \in 1..(2 * n(x) + 2)
    BY <1>1
  <2>2. SectionTokens(x)[1].t = "at"
    BY <2>1 DEF SectionTokens, Token
  <2> QED
    BY <1>4, <2>1, <2>2
<1>6. At(b(s) + 2) = Token("addr", Base[s])
  <2>1. 2 \in 1..(2 * n(s) + 2)
    BY <1>1
  <2>2. SectionTokens(s)[2] = Token("addr", Base[s])
    BY <2>1 DEF SectionTokens
  <2> QED
    BY <1>4, <2>1, <2>2
<1>7. ASSUME NEW q \in 0..(n(s) - 1)
      PROVE  /\ At(b(s) + 3 + 2 * q) = Token("line", Base[s] + q)
             /\ At(b(s) + 4 + 2 * q) = Token("nl", 0)
  <2>1. n(s) \in Nat \ {0} /\ b(s) \in Nat /\ q \in Nat
    <3>1. s \in 1..(Count + 1)
      BY <1>1
    <3> QED
      BY <1>1, <1>2, <3>1
  <2> DEFINE o == 3 + 2 * q
             p == 4 + 2 * q
  <2>2. o \in 1..(2 * n(s) + 2) /\ p \in 1..(2 * n(s) + 2) /\ b(s) + 3 + 2 * q = b(s) + o /\ b(s) + 4 + 2 * q = b(s) + p
    BY <2>1
  <2>3. o # 1 /\ o # 2 /\ o % 2 = 1 /\ (o - 3) \div 2 = q
    BY <2>1
  <2>4. p # 1 /\ p # 2 /\ p % 2 = 0
    BY <2>1
  <2> HIDE DEF o, p
  <2>5. SectionTokens(s)[o] = Token("line", Base[s] + q)
    BY <2>2, <2>3 DEF SectionTokens
  <2>6. SectionTokens(s)[p] = Token("nl", 0)
    BY <2>2, <2>4 DEF SectionTokens
  <2>7. At(b(s) + o) = SectionTokens(s)[o] /\ At(b(s) + p) = SectionTokens(s)[p]
    BY <1>4, <2>2
  <2> QED
    BY <2>2, <2>5, <2>6, <2>7
<1>8. At(b(s + 1) + 1).t = IF s = Count THEN "end" ELSE "at"
  <2>1. CASE s = Count
    <3>1. At(N) = Token("end", 0)
      BY <1>3, AtIs
    <3> QED
      BY <1>2, <2>1, <3>1 DEF Token
  <2>2. CASE s # Count
    <3>1. s + 1 \in 1..Count
      BY <1>1, <2>2
    <3> QED
      BY <1>5, <2>2, <3>1
  <2> QED
    BY <2>1, <2>2
<1>9. b(s) \in Nat /\ b(s + 1) = b(s) + 2 * n(s) + 2 /\ b(s + 1) < N
  <2>1. s \in 1..(Count + 1) /\ s + 1 \in 1..(Count + 1) /\ Count + 1 \in 1..(Count + 1)
    BY <1>1
  <2> QED
    BY <1>2, <2>1
<1>10. At(b(s) + 1).t = "at"
  BY <1>5
<1> QED
  BY <1>6, <1>7, <1>8, <1>9, <1>10

-----------------------------------------------------------------------------
(* Lines of a range of tokens                                              *)

Tally(i, j) == Cardinality(Lines(i, j))

(* Each token that is a line counts.                                       *)
LEMMA TallyStep ==
  ASSUME NEW i \in Nat \ {0}
  PROVE  /\ Tally(i, i - 1) = 0
         /\ \A j \in Nat : j >= i => /\ Tally(i, j) \in Nat /\ Tally(i, j - 1) \in Nat
                                     /\ Tally(i, j) = Tally(i, j - 1) + (IF At(j).t = "line" THEN 1 ELSE 0)
<1>1. Lines(i, i - 1) = {}
  BY DEF Lines
<1>2. Tally(i, i - 1) = 0
  BY <1>1, FS_EmptySet DEF Tally
<1>3. ASSUME NEW j \in Nat PROVE IsFiniteSet(Lines(i, j)) /\ Tally(i, j) \in Nat
  <2>1. IsFiniteSet(i..j)
    BY FS_Interval
  <2>2. Lines(i, j) \subseteq i..j
    BY DEF Lines
  <2>3. IsFiniteSet(Lines(i, j))
    BY <2>1, <2>2, FS_Subset
  <2> QED
    BY <2>3, FS_CardinalityType DEF Tally
<1>4. ASSUME NEW j \in Nat, j >= i
      PROVE  /\ Tally(i, j - 1) \in Nat
             /\ Tally(i, j) = Tally(i, j - 1) + (IF At(j).t = "line" THEN 1 ELSE 0)
  <2>0. j - 1 \in Nat
    BY <1>4
  <2>1. CASE At(j).t = "line"
    <3>1. Lines(i, j) = Lines(i, j - 1) \cup {j} /\ j \notin Lines(i, j - 1)
      BY <1>4, <2>1 DEF Lines
    <3>2. IsFiniteSet(Lines(i, j - 1)) /\ Tally(i, j - 1) \in Nat
      BY <1>3, <2>0
    <3>3. Cardinality(Lines(i, j - 1) \cup {j}) = Cardinality(Lines(i, j - 1)) + 1
      BY <3>1, <3>2, FS_AddElement
    <3> QED
      BY <2>1, <3>1, <3>2, <3>3 DEF Tally
  <2>2. CASE At(j).t # "line"
    <3>1. Lines(i, j) = Lines(i, j - 1)
      BY <1>4, <2>2 DEF Lines
    <3>2. Tally(i, j - 1) \in Nat
      BY <1>3, <2>0
    <3> QED
      BY <2>2, <3>1, <3>2 DEF Tally
  <2> QED
    BY <2>1, <2>2
<1> QED
  BY <1>2, <1>3, <1>4

(* A longer range has no fewer lines.                                      *)
LEMMA TallyGrows ==
  ASSUME NEW i \in Nat \ {0}, NEW x \in Nat, NEW y \in Nat, i <= x, x <= y
  PROVE  Tally(i, x) \in Nat /\ Tally(i, y) \in Nat /\ Tally(i, x) <= Tally(i, y)
<1> DEFINE T == {z \in Nat : x <= z /\ ~(Tally(i, x) <= Tally(i, z))}
<1>1. \A j \in Nat : j >= i => /\ Tally(i, j) \in Nat
                               /\ Tally(i, j) = Tally(i, j - 1) + (IF At(j).t = "line" THEN 1 ELSE 0)
  BY TallyStep
<1>2. Tally(i, x) \in Nat /\ Tally(i, y) \in Nat
  BY <1>1
<1>3. T = {}
  <2> SUFFICES ASSUME T # {} PROVE FALSE
    OBVIOUS
  <2>1. T \in SUBSET Nat
    OBVIOUS
  <2>2. PICK z \in T : \A w \in T : z <= w
    BY <2>1, LeastOf
  <2>3. z \in Nat /\ x <= z /\ ~(Tally(i, x) <= Tally(i, z)) /\ \A w \in Nat : x <= w /\ w < z => Tally(i, x) <= Tally(i, w)
    BY <2>2
  <2>4. z # x
    BY <1>2, <2>3
  <2>5. z - 1 \in Nat /\ x <= z - 1 /\ z - 1 < z /\ i <= z - 1 /\ i <= z
    BY <2>3, <2>4
  <2>6. Tally(i, x) <= Tally(i, z - 1) /\ Tally(i, z - 1) \in Nat
    BY <1>1, <2>3, <2>5
  <2>7. Tally(i, z) \in Nat /\ Tally(i, z) = Tally(i, z - 1) + (IF At(z).t = "line" THEN 1 ELSE 0)
    BY <1>1, <2>3, <2>5
  <2> QED
    BY <1>2, <2>3, <2>6, <2>7
<1> QED
  BY <1>2, <1>3

(* The line with a given number of lines up to it is the only one.         *)
LEMMA NthIs ==
  ASSUME NEW i \in Nat \ {0}, NEW k, NEW x \in Lines(i, i + Len(File)), Tally(i, x) = k
  PROVE  NthLine(i, k) = x
<1>1. \A y \in Lines(i, i + Len(File)) : y \in Nat /\ i <= y /\ At(y).t = "line"
  BY AtIs DEF Lines
<1>2. ASSUME NEW y \in Lines(i, i + Len(File)), NEW z \in Lines(i, i + Len(File)), y < z
      PROVE  Tally(i, y) # Tally(i, z)
  <2>1. y \in Nat /\ z \in Nat /\ i <= y /\ i <= z /\ At(z).t = "line" /\ z - 1 \in Nat /\ y <= z - 1
    BY <1>1, <1>2
  <2>2. Tally(i, z) = Tally(i, z - 1) + 1
    BY <2>1, TallyStep
  <2>3. Tally(i, y) \in Nat /\ Tally(i, z - 1) \in Nat /\ Tally(i, y) <= Tally(i, z - 1)
    BY <2>1, TallyGrows
  <2> QED
    BY <2>2, <2>3
<1>3. ASSUME NEW y \in Lines(i, i + Len(File)), Tally(i, y) = k PROVE y = x
  <2>1. x \in Nat /\ y \in Nat
    BY <1>1
  <2>2. ~(x < y) /\ ~(y < x)
    BY <1>2, <1>3
  <2> QED
    BY <2>1, <2>2
<1> QED
  BY <1>3 DEF NthLine, Tally

(* Where the reading of a packet stops: at the first place that cuts.      *)
LEMMA LastReadIs ==
  ASSUME NEW i \in Nat \ {0}
  PROVE  /\ LastRead(i) \in Nat /\ i <= LastRead(i) /\ LastRead(i) <= i + Len(File)
         /\ CutsAt(i, LastRead(i))
         /\ \A j \in Nat : i <= j /\ j < LastRead(i) => ~CutsAt(i, j)
         /\ \A j \in Nat : i <= j /\ j <= i + Len(File) /\ CutsAt(i, j) => LastRead(i) <= j
<1> DEFINE S == {j \in i..(i + Len(File)) : CutsAt(i, j)}
<1>0. Len(File) \in Nat \ {0}
  BY AtIs
<1>1. i + Len(File) \in S
  <2>1. i + Len(File) \in Nat \ {0} /\ i + Len(File) >= Len(File) /\ i + Len(File) \in i..(i + Len(File))
    BY <1>0
  <2>2. At(i + Len(File)).t = "end"
    BY <2>1, AtIs DEF Token
  <2> QED
    BY <2>1, <2>2 DEF CutsAt
<1>2. S \in SUBSET Nat
  BY <1>0
<1>3. \E x \in S : \A y \in S : x <= y
  BY <1>1, <1>2, LeastOf
<1>4. LastRead(i) = CHOOSE x \in S : \A y \in S : x <= y
  BY DEF LastRead, Min
<1> HIDE DEF S
<1>5. LastRead(i) \in S /\ \A y \in S : LastRead(i) <= y
  BY <1>3, <1>4
<1> USE DEF S
<1>6. LastRead(i) \in i..(i + Len(File)) /\ CutsAt(i, LastRead(i))
  BY <1>5
<1>7. \A j \in Nat : i <= j /\ j <= i + Len(File) /\ CutsAt(i, j) => LastRead(i) <= j
  BY <1>0, <1>5
<1>8. \A j \in Nat : i <= j /\ j < LastRead(i) => ~CutsAt(i, j)
  BY <1>0, <1>6, <1>7
<1> QED
  BY <1>0, <1>6, <1>7, <1>8

(* What a token is made of.                                                *)
LEMMA TokenIs == \A t, v : Token(t, v).t = t /\ Token(t, v).v = v
  BY DEF Token

(* Lines and newlines in turn, up to the mark behind them: so many lines   *)
(* as are left go into a packet, but no more than fit.                     *)
Alternate(i, m, v) ==
  /\ \A q \in 0..(m - 1) : At(i + 2 * q) = Token("line", v + q) /\ At(i + 2 * q + 1) = Token("nl", 0)
  /\ At(i + 2 * m).t \in {"at", "end"}
Taken(m) == IF m < PktLines THEN m ELSE PktLines
StopAt(i, m) == IF m < PktLines THEN i + 2 * m ELSE i + 2 * (PktLines - 1)

LEMMA TallyIs ==
  ASSUME NEW i \in Nat \ {0}, NEW m \in Nat, NEW v \in Int, Alternate(i, m, v)
  PROVE  /\ \A q \in 0..(m - 1) : Tally(i, i + 2 * q) = q + 1 /\ Tally(i, i + 2 * q + 1) = q + 1
         /\ Tally(i, i + 2 * m) = m
<1>1. ASSUME NEW q \in 0..(m - 1)
      PROVE  At(i + 2 * q).t = "line" /\ At(i + 2 * q + 1).t # "line"
  <2>1. At(i + 2 * q) = Token("line", v + q) /\ At(i + 2 * q + 1) = Token("nl", 0)
    BY DEF Alternate
  <2> QED
    BY <2>1, TokenIs
<1>2. At(i + 2 * m).t # "line"
  BY DEF Alternate
<1>3. /\ Tally(i, i - 1) = 0
      /\ \A j \in Nat : j >= i => Tally(i, j) = Tally(i, j - 1) + (IF At(j).t = "line" THEN 1 ELSE 0)
  BY TallyStep
<1> DEFINE U(q) == i + 2 * q - 1
           T == {q \in 0..m : Tally(i, U(q)) # q}
<1>4. ASSUME NEW q \in 0..(m - 1), Tally(i, U(q)) = q
      PROVE  Tally(i, i + 2 * q) = q + 1 /\ Tally(i, i + 2 * q + 1) = q + 1 /\ U(q + 1) = i + 2 * q + 1
  <2> DEFINE x == i + 2 * q
             y == i + 2 * q + 1
  <2>1. q \in Nat /\ x \in Nat /\ x >= i /\ y \in Nat /\ y >= i /\ x - 1 = U(q) /\ y - 1 = x /\ U(q + 1) = y
    OBVIOUS
  <2>2. Tally(i, x) = Tally(i, x - 1) + (IF At(x).t = "line" THEN 1 ELSE 0)
    BY <1>3, <2>1
  <2>3. Tally(i, y) = Tally(i, y - 1) + (IF At(y).t = "line" THEN 1 ELSE 0)
    BY <1>3, <2>1
  <2>4. At(x).t = "line" /\ At(y).t # "line"
    BY <1>1
  <2> HIDE DEF x, y, U
  <2>5. Tally(i, x) = q + 1
    BY <1>4, <2>1, <2>2, <2>4
  <2>6. Tally(i, y) = q + 1
    BY <2>1, <2>3, <2>4, <2>5
  <2> QED
    BY <2>1, <2>5, <2>6 DEF x, y
<1>5. T = {}
  <2> SUFFICES ASSUME T # {} PROVE FALSE
    OBVIOUS
  <2>1. T \in SUBSET Nat
    OBVIOUS
  <2>2. PICK q \in T : \A p \in T : q <= p
    BY <2>1, LeastOf
  <2>3. q \in 0..m /\ Tally(i, U(q)) # q /\ \A p \in 0..m : p < q => Tally(i, U(p)) = p
    BY <2>2
  <2>4. q # 0
    <3>1. U(0) = i - 1
      OBVIOUS
    <3> QED
      BY <1>3, <2>3, <3>1
  <2>5. q - 1 \in 0..(m - 1) /\ q - 1 \in 0..m /\ q - 1 < q /\ q - 1 + 1 = q
    BY <2>3, <2>4
  <2>6. Tally(i, U(q - 1)) = q - 1
    BY <2>3, <2>5
  <2>7. Tally(i, i + 2 * (q - 1) + 1) = q - 1 + 1 /\ U(q - 1 + 1) = i + 2 * (q - 1) + 1
    BY <1>4, <2>5, <2>6
  <2> HIDE DEF U
  <2> QED
    BY <2>3, <2>5, <2>7
<1>6. \A q \in 0..m : Tally(i, U(q)) = q
  BY <1>5
<1>7. ASSUME NEW q \in 0..(m - 1) PROVE Tally(i, i + 2 * q) = q + 1 /\ Tally(i, i + 2 * q + 1) = q + 1
  <2>1. q \in 0..m
    OBVIOUS
  <2> QED
    BY <1>4, <1>6, <2>1
<1>8. Tally(i, i + 2 * m) = m
  <2>1. m \in 0..m /\ i + 2 * m \in Nat /\ i + 2 * m >= i /\ i + 2 * m - 1 = U(m)
    OBVIOUS
  <2>2. Tally(i, i + 2 * m) = Tally(i, i + 2 * m - 1) + (IF At(i + 2 * m).t = "line" THEN 1 ELSE 0)
    BY <1>3, <2>1
  <2>3. Tally(i, U(m)) = m
    BY <1>6, <2>1
  <2> HIDE DEF U
  <2> QED
    BY <1>2, <2>1, <2>2, <2>3
<1> QED
  BY <1>7, <1>8

LEMMA RunIs ==
  ASSUME NEW i \in Nat \ {0}, NEW m \in Nat, NEW v \in Int, Alternate(i, m, v), i + 2 * m <= Len(File)
  PROVE  /\ LastRead(i) = StopAt(i, m) /\ Tally(i, StopAt(i, m)) = Taken(m)
         /\ \A k \in 1..Taken(m) : At(NthLine(i, k)).v = v + k - 1
<1> DEFINE j == StopAt(i, m)
           r == Taken(m)
<1>0. PktLines \in Nat \ {0} /\ Len(File) \in Nat \ {0}
  BY Image, AtIs
<1>1. /\ \A q \in 0..(m - 1) : Tally(i, i + 2 * q) = q + 1 /\ Tally(i, i + 2 * q + 1) = q + 1
      /\ Tally(i, i + 2 * m) = m
  BY TallyIs
<1>2. /\ \A q \in 0..(m - 1) : At(i + 2 * q) = Token("line", v + q) /\ At(i + 2 * q + 1) = Token("nl", 0)
      /\ At(i + 2 * m).t \in {"at", "end"}
  BY DEF Alternate
<1>3. j \in Nat /\ i <= j /\ j <= i + 2 * m /\ j <= i + Len(File) /\ r \in Nat /\ r <= m /\ r <= PktLines
  BY <1>0 DEF StopAt, Taken
<1>4. Tally(i, j) = r /\ CutsAt(i, j)
  <2>1. CASE m < PktLines
    <3>1. j = i + 2 * m /\ r = m
      BY <2>1 DEF StopAt, Taken
    <3> QED
      BY <1>1, <1>2, <3>1 DEF CutsAt
  <2>2. CASE ~(m < PktLines)
    <3>1. j = i + 2 * (PktLines - 1) /\ r = PktLines /\ PktLines - 1 \in 0..(m - 1) /\ PktLines - 1 + 1 = PktLines
      BY <1>0, <2>2 DEF StopAt, Taken
    <3>2. Tally(i, j) = PktLines
      BY <1>1, <3>1
    <3> QED
      BY <3>1, <3>2 DEF CutsAt, Tally
  <2> QED
    BY <2>1, <2>2
<1>5. ASSUME NEW x \in Nat, i <= x, x < j PROVE ~CutsAt(i, x)
  <2> DEFINE q == (x - i) \div 2
  <2>1. q \in Nat /\ (x = i + 2 * q \/ x = i + 2 * q + 1)
    BY <1>5
  <2> HIDE DEF q
  <2>2. q \in 0..(m - 1) /\ q + 1 < PktLines
    BY <1>0, <1>3, <1>5, <2>1 DEF StopAt
  <2>3. Tally(i, x) = q + 1 /\ At(x).t \in {"line", "nl"}
    <3>1. Tally(i, i + 2 * q) = q + 1 /\ Tally(i, i + 2 * q + 1) = q + 1
      BY <1>1, <2>2
    <3>2. At(i + 2 * q).t = "line" /\ At(i + 2 * q + 1).t = "nl"
      BY <1>2, <2>2, TokenIs
    <3> QED
      BY <2>1, <3>1, <3>2
  <2> QED
    BY <1>0, <2>1, <2>2, <2>3 DEF CutsAt, Tally
<1>6. LastRead(i) = j
  <2> HIDE DEF j
  <2>1. LastRead(i) \in Nat /\ i <= LastRead(i) /\ CutsAt(i, LastRead(i)) /\ LastRead(i) <= j
    BY <1>3, <1>4, LastReadIs
  <2> QED
    BY <1>3, <1>5, <2>1
<1>7. ASSUME NEW k \in 1..r PROVE At(NthLine(i, k)).v = v + k - 1
  <2> DEFINE x == i + 2 * (k - 1)
  <2>1. k \in Nat /\ k - 1 \in 0..(m - 1) /\ k - 1 + 1 = k /\ x \in i..(i + Len(File))
    BY <1>0, <1>3
  <2>2. At(x) = Token("line", v + (k - 1)) /\ Tally(i, x) = k
    BY <1>1, <1>2, <2>1
  <2>3. x \in Lines(i, i + Len(File))
    BY <2>1, <2>2 DEF Lines, Token
  <2> HIDE DEF x
  <2>4. NthLine(i, k) = x
    BY <2>2, <2>3, NthIs
  <2> QED
    BY <2>1, <2>2, <2>4 DEF Token
<1> QED
  BY <1>4, <1>6, <1>7

-----------------------------------------------------------------------------
(* Packets                                                                 *)

(* What is cut from a run of lines.                                        *)
LEMMA CutIs ==
  ASSUME NEW i \in Nat \ {0}, NEW m \in Nat, NEW v \in Int, Alternate(i, m, v), i + 2 * m <= Len(File),
         NEW f, NEW a
  PROVE  LET p == ParseData(f, i, a, {})
         IN  /\ p.pkt = [addr |-> a, lines |-> [k \in 1..Taken(m) |-> v + k - 1]]
             /\ p.file = [ptr |-> StopAt(i, m), flag |-> At(StopAt(i, m)).t = "at", addr |-> a,
                          prev |-> Taken(m), sent |-> At(StopAt(i, m)).t = "end"]
<1> DEFINE j == StopAt(i, m)
<1>1. /\ LastRead(i) = j /\ Tally(i, j) = Taken(m)
      /\ \A k \in 1..Taken(m) : At(NthLine(i, k)).v = v + k - 1
  BY RunIs
<1>2. j <= Len(File)
  BY Image, AtIs DEF StopAt
<1>3. [k \in 1..Taken(m) |-> IF k \in {} THEN Garbage ELSE At(NthLine(i, k)).v] = [k \in 1..Taken(m) |-> v + k - 1]
  BY <1>1
<1> HIDE DEF j
<1> QED
  BY <1>1, <1>2, <1>3 DEF ParseData, Tally, j

(* What is parsed after k lines of a section: the lines that are left.     *)
LEMMA ParseStarts ==
  ASSUME NEW f \in Files, NEW s \in 1..Count, NEW k \in 0..Sections[s], Within(f, s, k)
  PROVE  LET i == Before(s) + 2 * k + 3
             m == Sections[s] - k
         IN  /\ i \in Nat \ {0} /\ m \in Nat /\ Base[s] + k \in Int
             /\ Alternate(i, m, Base[s] + k)
             /\ i + 2 * m = Before(s + 1) + 1 /\ i + 2 * m <= Len(File)
             /\ Parse(f) = ParseData(f, i, Base[s] + k, {})
<1> DEFINE b == Before(s)
           n == Sections[s]
           i == b + 2 * k + 3
           m == n - k
           v == Base[s] + k
<1>1. /\ b \in Nat /\ Before(s + 1) = b + 2 * n + 2 /\ Before(s + 1) < Len(File)
      /\ At(b + 1).t = "at" /\ At(b + 2) = Token("addr", Base[s])
      /\ \A q \in 0..(n - 1) : At(b + 3 + 2 * q) = Token("line", Base[s] + q) /\ At(b + 4 + 2 * q) = Token("nl", 0)
      /\ At(Before(s + 1) + 1).t \in {"at", "end"}
  BY SectionIs
<1>2. n \in Nat \ {0} /\ Base[s] \in Nat /\ Len(File) \in Nat \ {0}
  BY Image, AtIs
<1>a. k \in Nat /\ k <= n
  BY <1>2
<1> HIDE DEF b, n
<1>3. i \in Nat \ {0} /\ m \in Nat /\ v \in Int /\ i + 2 * m = Before(s + 1) + 1 /\ i + 2 * m <= Len(File)
  BY <1>1, <1>2, <1>a
<1>4. Alternate(i, m, v)
  <2>1. ASSUME NEW q \in 0..(m - 1) PROVE At(i + 2 * q) = Token("line", v + q) /\ At(i + 2 * q + 1) = Token("nl", 0)
    <3>1. k + q \in 0..(n - 1) /\ q \in Nat
      BY <1>2, <1>a
    <3>2. i + 2 * q = b + 3 + 2 * (k + q) /\ i + 2 * q + 1 = b + 4 + 2 * (k + q) /\ v + q = Base[s] + (k + q)
      BY <1>1, <1>2, <1>a, <3>1
    <3>3. At(b + 3 + 2 * (k + q)) = Token("line", Base[s] + (k + q)) /\ At(b + 4 + 2 * (k + q)) = Token("nl", 0)
      BY <1>1, <3>1
    <3> QED
      BY <3>2, <3>3
  <2>2. At(i + 2 * m).t \in {"at", "end"}
    BY <1>1, <1>3
  <2> HIDE DEF i, m, v
  <2> QED
    BY <2>1, <2>2 DEF Alternate
<1>5. CASE k = 0 /\ s = 1
  <2>1. f.ptr = 0 /\ b = 0
    BY <1>5, Layout DEF Within, AtMark, b
  <2>2. At(f.ptr + 1).t = "at" /\ f.ptr + 2 = 2 /\ At(2) = Token("addr", Base[s]) /\ 2 + 1 = i /\ v = Base[s]
    BY <1>1, <1>2, <1>5, <2>1
  <2>3. At(2).t = "addr" /\ At(2).v = v
    BY <2>2, TokenIs
  <2> HIDE DEF i, v
  <2>4. Parse(f) = ParseData(f, i, v, {})
    BY <2>2, <2>3 DEF Parse
  <2> QED
    BY <1>3, <1>4, <2>4 DEF i, v, b, n
<1>6. CASE k = 0 /\ s # 1
  <2>1. f.ptr = b + 1 /\ f.flag
    BY <1>6 DEF Within, AtMark, b
  <2>2. At(f.ptr + 1) = Token("addr", Base[s]) /\ f.ptr + 1 + 1 = i /\ v = Base[s]
    <3>1. f.ptr + 1 = b + 2
      BY <1>1, <2>1
    <3> QED
      BY <1>1, <1>2, <1>6, <2>1, <3>1
  <2>3. At(f.ptr + 1).t = "addr" /\ At(f.ptr + 1).v = v
    BY <2>2, TokenIs
  <2> HIDE DEF i, v
  <2>4. Parse(f) = ParseData(f, i, v, {})
    BY <2>1, <2>2, <2>3 DEF Parse
  <2> QED
    BY <1>3, <1>4, <2>4 DEF i, v, b, n
<1>7. CASE k # 0
  <2>1. f.ptr = b + 2 * k + 1 /\ ~f.flag /\ f.addr + f.prev = v
    BY <1>7, <1>a DEF Within, AfterLine, b
  <2>2. k - 1 \in 0..(n - 1) /\ f.ptr + 1 = b + 4 + 2 * (k - 1) /\ f.ptr + 1 + 1 = i
    BY <1>1, <1>2, <1>7, <1>a, <2>1
  <2>3. At(f.ptr + 1).t = "nl"
    <3>1. At(b + 4 + 2 * (k - 1)) = Token("nl", 0)
      BY <1>1, <2>2
    <3> QED
      BY <2>2, <3>1, TokenIs
  <2> HIDE DEF i, v
  <2>4. Parse(f) = ParseData(f, i, v, {})
    BY <2>1, <2>2, <2>3 DEF Parse
  <2> QED
    BY <1>3, <1>4, <2>4 DEF i, v, b, n
<1> QED
  BY <1>5, <1>6, <1>7

(* The lines of the packet are the next ones, at the address they are for, *)
(* and the pointers are left behind them.                                  *)
LEMMA ParseUpTo ==
  ASSUME NEW f \in Files, NEW D, ~f.sent, UpTo(f, D)
  PROVE  /\ Proper(Parse(f).pkt)
         /\ UpTo(Parse(f).file, D \cup {a \in Addr : Covers(Parse(f).pkt, a)})
<1>1. PICK s \in 1..Count : \E k \in 0..Sections[s] : Within(f, s, k) /\ Done(s, k) \subseteq D
  BY DEF UpTo
<1>2. PICK k \in 0..Sections[s] : Within(f, s, k) /\ Done(s, k) \subseteq D
  BY <1>1
<1> DEFINE b == Before(s)
           n == Sections[s]
           i == b + 2 * k + 3
           m == n - k
           v == Base[s] + k
           r == Taken(m)
           p == Parse(f)
           C == {a \in Addr : Covers(p.pkt, a)}
<1>3. /\ i \in Nat \ {0} /\ m \in Nat /\ v \in Int /\ Alternate(i, m, v)
      /\ i + 2 * m = Before(s + 1) + 1 /\ i + 2 * m <= Len(File)
      /\ p = ParseData(f, i, v, {})
  BY <1>2, ParseStarts
<1>4. /\ p.pkt = [addr |-> v, lines |-> [x \in 1..r |-> v + x - 1]]
      /\ p.file = [ptr |-> StopAt(i, m), flag |-> At(StopAt(i, m)).t = "at", addr |-> v,
                   prev |-> r, sent |-> At(StopAt(i, m)).t = "end"]
  <2> HIDE DEF i, m, v, r, p
  <2> QED
    BY <1>3, CutIs DEF r
<1> DEFINE j == StopAt(i, m)
<1>d. /\ p.file.ptr = j /\ (p.file.flag <=> At(j).t = "at") /\ (p.file.sent <=> At(j).t = "end")
      /\ p.file.addr = v /\ p.file.prev = r
  <2> HIDE DEF i, m, v, r, p
  <2>1. p.file.ptr = j /\ p.file.addr = v /\ p.file.prev = r
    BY <1>4
  <2>2. p.file.flag = (At(j).t = "at")
    BY <1>4
  <2>3. p.file.sent = (At(j).t = "end")
    BY <1>4
  <2> QED
    BY <2>1, <2>2, <2>3
<1> HIDE DEF j
<1>a. n \in Nat \ {0} /\ Base[s] \in Nat /\ PktLines \in Nat \ {0} /\ Count \in Nat /\ b \in Nat
  BY Image, SectionIs
<1>b. k \in Nat /\ k <= n
  BY <1>a
<1> HIDE DEF b, n, p, C
<1>5. /\ n \in Nat \ {0} /\ Base[s] \in Nat /\ k \in Nat /\ k <= n /\ b \in Nat /\ r \in Nat /\ r <= m /\ PktLines \in Nat \ {0}
      /\ Count \in Nat
  BY <1>a, <1>b DEF Taken
<1> HIDE DEF r
<1>6. ASSUME NEW a \in Int PROVE Covers(p.pkt, a) <=> a - v + 1 \in 1..r
  BY <1>4 DEF Covers
<1>7. ASSUME NEW a \in Int, Covers(p.pkt, a) PROVE Line(p.pkt, a) = a
  <2> HIDE DEF v, r, p
  <2>1. a - v + 1 \in 1..r
    BY <1>6, <1>7
  <2>2. Line(p.pkt, a) = v + (a - v + 1) - 1
    BY <1>4, <2>1 DEF Line
  <2> QED
    BY <1>3, <2>2 DEF v
<1>8. Addr \subseteq Int
  BY Image DEF Addr, Count
<1>9. Proper(p.pkt)
  BY <1>7, <1>8 DEF Proper
<1>10. Span(s, k + r) \cap Addr \subseteq Span(s, k) \cup C
  <2> SUFFICES ASSUME NEW a \in Addr, a \in Span(s, k + r), a \notin Span(s, k) PROVE Covers(p.pkt, a)
    BY DEF C
  <2>1. a \in Int /\ Base[s] <= a /\ a <= Base[s] + (k + r) - 1 /\ ~(a <= Base[s] + k - 1)
    BY <1>5, <1>8 DEF Span
  <2>2. a - v + 1 \in 1..r
    BY <1>5, <2>1
  <2> QED
    BY <1>6, <2>1, <2>2
<1>11. Done(s, k + r) \subseteq D \cup C
  BY <1>2, <1>10 DEF Done
<1>c. SUFFICES UpTo(p.file, D \cup C)
  BY <1>9 DEF p, C
<1>12. CASE m < PktLines
  <2>1. j = Before(s + 1) + 1 /\ r = m /\ k + r = n
    BY <1>3, <1>5, <1>12 DEF StopAt, Taken, r, j
  <2>2. At(Before(s + 1) + 1).t = IF s = Count THEN "end" ELSE "at"
    BY SectionIs
  <2>3. CASE s = Count
    <3>1. p.file.sent
      BY <1>d, <2>1, <2>2, <2>3
    <3>2. Addr \subseteq Done(s, n)
      <4> SUFFICES ASSUME NEW a \in Addr PROVE a \in Done(s, n)
        OBVIOUS
      <4>1. PICK t \in 1..Count : a \in Base[t]..(Base[t] + Sections[t] - 1)
        BY DEF Addr, Count
      <4>2. t < s \/ t = s
        BY <1>5, <2>3
      <4> QED
        BY <4>1, <4>2 DEF Done, Span, n
    <3> QED
      BY <1>11, <2>1, <3>1, <3>2 DEF UpTo
  <2>4. CASE s # Count
    <3>1. s + 1 \in 1..Count /\ s + 1 # 1 /\ 0 \in 0..Sections[s + 1]
      <4>1. s + 1 \in 1..Count
        BY <1>5, <2>4
      <4>2. Sections[s + 1] \in Nat /\ s \in Nat \ {0}
        <5>1. Sections[s + 1] \in Nat \ {0}
          BY <4>1, Image
        <5> QED
          BY <5>1
      <4> QED
        BY <4>1, <4>2
    <3>2. p.file.flag /\ ~p.file.sent /\ p.file.ptr = Before(s + 1) + 1
      BY <1>d, <2>1, <2>2, <2>4
    <3>3. Within(p.file, s + 1, 0)
      BY <3>1, <3>2 DEF Within, AtMark
    <3>4. Done(s + 1, 0) \subseteq Done(s, n)
      <4> SUFFICES ASSUME NEW a \in Addr, a \in Done(s + 1, 0) PROVE a \in Done(s, n)
        BY DEF Done
      <4>1. a \notin Span(s + 1, 0)
        <5>1. Base[s + 1] \in Nat
          BY <3>1, Image
        <5> QED
          BY <5>1 DEF Span
      <4>2. PICK t \in 1..Count : t < s + 1 /\ a \in Span(t, Sections[t])
        BY <4>1 DEF Done
      <4>3. t < s \/ t = s
        BY <4>2
      <4> QED
        BY <4>2, <4>3 DEF Done, n
    <3>5. Done(s + 1, 0) \subseteq D \cup C
      BY <1>11, <2>1, <3>4
    <3> QED
      BY <3>1, <3>3, <3>5 DEF UpTo
  <2> QED
    BY <2>3, <2>4
<1>13. CASE ~(m < PktLines)
  <2> DEFINE q == PktLines - 1
             x == k + q
  <2>1. j = i + 2 * q /\ r = PktLines /\ q \in 0..(m - 1) /\ x \in Nat /\ k + r = x + 1 /\ k + r \in 0..n /\ k + r > 0
    BY <1>3, <1>5, <1>13 DEF StopAt, Taken, r, j
  <2>2. At(i + 2 * q).t = "line"
    <3> HIDE DEF i, m, v, q
    <3>1. At(i + 2 * q) = Token("line", v + q)
      BY <1>3, <2>1 DEF Alternate
    <3> QED
      BY <3>1, TokenIs
  <2>3. i + 2 * q = b + 2 * (k + r) + 1 /\ v + r = Base[s] + (k + r)
    BY <1>5, <2>1
  <2>4. ~p.file.flag /\ ~p.file.sent /\ p.file.ptr = b + 2 * (k + r) + 1 /\ p.file.addr + p.file.prev = Base[s] + (k + r)
    BY <1>d, <2>1, <2>2, <2>3
  <2>5. Within(p.file, s, k + r)
    BY <2>1, <2>4 DEF Within, AfterLine, b, n
  <2> QED
    BY <1>11, <2>1, <2>5 DEF UpTo, n
<1> QED
  BY <1>12, <1>13

(* A packet is never more than full.                                       *)
LEMMA PacketFits ==
  ASSUME NEW i \in Nat \ {0}
  PROVE  Tally(i, LastRead(i)) \in 0..PktLines
<1> DEFINE L == LastRead(i)
           T == {x \in Nat : i <= x /\ x <= L /\ ~(Tally(i, x) <= PktLines)}
<1>0. PktLines \in Nat \ {0}
  BY Image
<1>1. L \in Nat /\ i <= L /\ \A j \in Nat : i <= j /\ j < L => ~CutsAt(i, j)
  BY LastReadIs
<1>2. /\ Tally(i, i - 1) = 0
      /\ \A j \in Nat : j >= i => /\ Tally(i, j) \in Nat /\ Tally(i, j - 1) \in Nat
                                  /\ Tally(i, j) = Tally(i, j - 1) + (IF At(j).t = "line" THEN 1 ELSE 0)
  BY TallyStep
<1> HIDE DEF L
<1>3. T = {}
  <2> SUFFICES ASSUME T # {} PROVE FALSE
    OBVIOUS
  <2>1. T \in SUBSET Nat
    OBVIOUS
  <2>2. PICK x \in T : \A w \in T : x <= w
    BY <2>1, LeastOf
  <2>3. x \in Nat /\ i <= x /\ x <= L /\ ~(Tally(i, x) <= PktLines)
    BY <2>2
  <2>4. Tally(i, x) \in Nat /\ Tally(i, x - 1) \in Nat /\ Tally(i, x) <= Tally(i, x - 1) + 1
    BY <1>2, <2>3
  <2>5. x # i
    BY <1>0, <1>2, <2>3, <2>4
  <2>6. x - 1 \in Nat /\ i <= x - 1 /\ x - 1 < L /\ x - 1 < x
    BY <1>1, <2>3, <2>5
  <2>7. Tally(i, x - 1) # PktLines
    BY <1>1, <2>6 DEF CutsAt, Tally
  <2>8. x - 1 \notin T
    BY <2>2, <2>6
  <2>9. Tally(i, x - 1) <= PktLines
    BY <1>1, <2>6, <2>8
  <2> QED
    BY <1>0, <2>3, <2>4, <2>7, <2>9
<1> QED
  BY <1>0, <1>1, <1>2, <1>3 DEF L

(* Each of its lines is one.                                               *)
LEMMA NthLineIs ==
  ASSUME NEW i \in Nat \ {0}, NEW k \in 1..Tally(i, LastRead(i))
  PROVE  NthLine(i, k) \in Nat \ {0} /\ At(NthLine(i, k)).v \in Int
<1> DEFINE L == LastRead(i)
           T == {x \in Nat : i <= x /\ x <= L /\ k <= Tally(i, x)}
<1>1. L \in Nat /\ i <= L /\ L <= i + Len(File) /\ Len(File) \in Nat
  BY LastReadIs, AtIs
<1>2. /\ Tally(i, i - 1) = 0
      /\ \A j \in Nat : j >= i => /\ Tally(i, j) \in Nat /\ Tally(i, j - 1) \in Nat
                                  /\ Tally(i, j) = Tally(i, j - 1) + (IF At(j).t = "line" THEN 1 ELSE 0)
  BY TallyStep
<1> HIDE DEF L
<1>3. Tally(i, L) \in Nat /\ k \in 1..Tally(i, L)
  BY <1>1, <1>2 DEF L
<1>4. T \in SUBSET Nat /\ L \in T
  BY <1>1, <1>3
<1>5. PICK x \in T : \A w \in T : x <= w
  BY <1>4, LeastOf
<1>6. x \in Nat /\ i <= x /\ x <= L /\ k <= Tally(i, x) /\ k \in Nat \ {0}
  BY <1>3, <1>5
<1>7. Tally(i, x - 1) < k
  <2>1. CASE x = i
    BY <1>2, <1>6, <2>1
  <2>2. CASE x # i
    <3>1. x - 1 \in Nat /\ i <= x - 1 /\ x - 1 <= L /\ x - 1 < x
      BY <1>1, <1>6, <2>2
    <3>2. x - 1 \notin T
      BY <1>5, <3>1
    <3>3. Tally(i, x - 1) \in Nat
      BY <1>2, <3>1
    <3> QED
      BY <1>6, <3>1, <3>2, <3>3
  <2> QED
    BY <2>1, <2>2
<1>8. Tally(i, x) = k /\ At(x).t = "line"
  <2>1. /\ Tally(i, x) \in Nat /\ Tally(i, x - 1) \in Nat
        /\ Tally(i, x) = Tally(i, x - 1) + (IF At(x).t = "line" THEN 1 ELSE 0)
    BY <1>2, <1>6
  <2> QED
    BY <1>6, <1>7, <2>1
<1>9. x \in Lines(i, i + Len(File))
  BY <1>1, <1>6, <1>8 DEF Lines
<1>10. NthLine(i, k) = x
  BY <1>8, <1>9, NthIs
<1>11. x \in Nat \ {0}
  BY <1>6
<1> QED
  BY <1>10, <1>11, AtIs DEF Tokens

(* The packets and pointers have their types, wherever the parsing starts. *)
Cut(p) ==
  /\ p.file \in Files /\ p.file.ptr <= Len(File)
  /\ p.pkt.addr \in Int /\ p.pkt.lines \in Seq(Int) /\ Len(p.pkt.lines) <= PktLines

LEMMA ParseDataTypes ==
  ASSUME NEW f, NEW i \in Nat \ {0}, NEW a \in Int, NEW X
  PROVE  Cut(ParseData(f, i, a, X))
<1> DEFINE j == LastRead(i)
           n == Tally(i, j)
           e(k) == IF k \in X THEN Garbage ELSE At(NthLine(i, k)).v
           q == IF j <= Len(File) THEN j ELSE Len(File)
           p == ParseData(f, i, a, X)
<1>1. p = [pkt  |-> [addr |-> a, lines |-> [k \in 1..n |-> e(k)]],
           file |-> [ptr |-> q, flag |-> At(j).t = "at", addr |-> a, prev |-> n, sent |-> At(j).t = "end"]]
  BY DEF ParseData, Tally
<1>2. n \in 0..PktLines /\ PktLines \in Nat
  BY PacketFits, Image
<1>3. ASSUME NEW k \in 1..n PROVE e(k) \in Int
  BY NthLineIs DEF Garbage
<1>4. q \in Nat /\ q <= Len(File)
  BY LastReadIs, AtIs
<1> HIDE DEF n, e, q, p, j
<1>5. [k \in 1..n |-> e(k)] \in Seq(Int) /\ Len([k \in 1..n |-> e(k)]) = n
  BY <1>2, <1>3
<1>6. p.file \in Files /\ p.file.ptr <= Len(File)
  BY <1>1, <1>2, <1>4 DEF Files
<1>7. p.pkt.addr \in Int /\ p.pkt.lines \in Seq(Int) /\ Len(p.pkt.lines) <= PktLines
  BY <1>1, <1>2, <1>5
<1> QED
  BY <1>6, <1>7 DEF Cut, p

LEMMA ParseTypes ==
  ASSUME NEW f \in Files, f.ptr <= Len(File)
  PROVE  Cut(Parse(f))
<1> DEFINE i == IF At(f.ptr + 1).t = "at" THEN f.ptr + 2 ELSE f.ptr + 1
<1>1. f.ptr \in Nat /\ f.addr \in Int /\ f.prev \in Nat /\ f.addr + f.prev \in Int
  BY DEF Files
<1>2. i \in Nat \ {0} /\ i + 1 \in Nat \ {0}
  <2>1. i = f.ptr + 1 \/ i = f.ptr + 2
    OBVIOUS
  <2> HIDE DEF i
  <2> QED
    BY <1>1, <2>1
<1>3. At(i).v \in Int
  <2>1. At(i) \in Tokens
    BY <1>2, AtIs
  <2> QED
    BY <2>1 DEF Tokens
<1> HIDE DEF i
<1>4. CASE At(i).t = "end"
  <2> DEFINE g == [f EXCEPT !.ptr = Len(File), !.sent = TRUE]
  <2>1. Parse(f) = [pkt |-> NoPkt, file |-> g]
    BY <1>4 DEF Parse, i
  <2>2. g \in Files /\ g.ptr = Len(File) /\ Len(File) \in Nat
    BY AtIs DEF Files
  <2>3. NoPkt.addr \in Int /\ NoPkt.lines \in Seq(Int) /\ Len(NoPkt.lines) <= PktLines
    BY Image DEF NoPkt
  <2> HIDE DEF g
  <2> QED
    BY <2>1, <2>2, <2>3 DEF Cut
<1>5. CASE At(i).t # "end"
  <2> DEFINE a == IF At(i).t = "addr" THEN At(i).v ELSE Garbage
             b == f.addr + f.prev
  <2>1. a \in Int /\ b \in Int
    BY <1>1, <1>3 DEF Garbage
  <2>2. \/ Parse(f) = ParseData(f, i + 1, a, {})
        \/ Parse(f) = ParseData(f, i + 1, b, {})
        \/ Parse(f) = ParseData(f, i, b, {1})
        \/ Parse(f) = ParseData(f, i + 1, b, 1..PktLines)
    BY <1>5 DEF Parse, i
  <2> HIDE DEF a, b
  <2> QED
    BY <1>2, <2>1, <2>2, ParseDataTypes
<1> QED
  BY <1>4, <1>5

-----------------------------------------------------------------------------
(* The SC                                                                  *)

Operations == {"sync", "enable", "bslsync", "unlock", "erase", "data", "crc", "loadpc", "reboot"}

(* What a request does to the SC: only erasing and writing change its      *)
(* flash, and an SC that is dead stays so.                                 *)
LEMMA EffectIs ==
  ASSUME msp \in Chips, NEW op \in Operations, NEW m \in Effect(op) \cup {msp}
  PROVE  /\ m \in Chips
         /\ op \notin {"erase", "data"} => m.flash = msp.flash
         /\ msp.mode = "dead" => m.mode = "dead"
         /\ op \in {"sync", "bslsync", "crc"} => m = msp
         /\ op \in {"sync", "bslsync", "crc", "unlock", "erase", "data"} => m.mode = msp.mode
         /\ op \in {"erase", "data"} => m.unlocked = msp.unlocked
<1>0. /\ msp.mode \in {"sc", "bsl", "dead"} /\ msp.unlocked \in BOOLEAN
      /\ msp.flash \in [Addr -> {"old", "blank", "own", "wrong"}]
      /\ msp = [mode |-> msp.mode, unlocked |-> msp.unlocked, flash |-> msp.flash]
  BY DEF Chips
<1> DEFINE Good == /\ m \in Chips
                   /\ op \notin {"erase", "data"} => m.flash = msp.flash
                   /\ msp.mode = "dead" => m.mode = "dead"
                   /\ op \in {"sync", "bslsync", "crc"} => m = msp
                   /\ op \in {"sync", "bslsync", "crc", "unlock", "erase", "data"} => m.mode = msp.mode
                   /\ op \in {"erase", "data"} => m.unlocked = msp.unlocked
<1>1. CASE m = msp
  BY <1>1
<1>2. CASE m \in Effect(op) /\ m # msp
  <2>1. \/ op = "enable" /\ msp.mode = "sc" /\ m = [msp EXCEPT !.mode = "bsl", !.unlocked = FALSE]
        \/ op = "unlock" /\ InBsl /\ m = [msp EXCEPT !.unlocked = TRUE]
        \/ op = "erase" /\ Open /\ m = [msp EXCEPT !.flash = Erased]
        \/ op = "data" /\ Open /\ m = [msp EXCEPT !.flash = Written(msp.flash, pkt)]
        \/ op = "loadpc" /\ Open /\ m \in {Restart(msp)} \cup {[msp EXCEPT !.mode = x, !.unlocked = FALSE] : x \in {"bsl", "dead"}}
        \/ op = "reboot" /\ InBsl /\ m = Restart(msp)
    BY <1>2 DEF Effect
  <2>2. CASE op = "enable" /\ msp.mode = "sc" /\ m = [msp EXCEPT !.mode = "bsl", !.unlocked = FALSE]
    <3>1. m \in Chips /\ m.flash = msp.flash
      BY <1>0, <2>2 DEF Chips
    <3> QED
      BY <2>2, <3>1
  <2>3. CASE op = "unlock" /\ InBsl /\ m = [msp EXCEPT !.unlocked = TRUE]
    <3>1. m \in Chips /\ m.flash = msp.flash /\ m.mode = msp.mode
      BY <1>0, <2>3 DEF Chips
    <3> QED
      BY <2>3, <3>1
  <2>4. CASE op = "erase" /\ Open /\ m = [msp EXCEPT !.flash = Erased]
    <3>1. m \in Chips /\ m.mode = msp.mode /\ m.unlocked = msp.unlocked
      BY <1>0, <2>4 DEF Chips, Erased
    <3> QED
      BY <2>4, <3>1
  <2>5. CASE op = "data" /\ Open /\ m = [msp EXCEPT !.flash = Written(msp.flash, pkt)]
    <3>1. Written(msp.flash, pkt) \in [Addr -> {"old", "blank", "own", "wrong"}]
      BY <1>0 DEF Written
    <3>2. m \in Chips /\ m.mode = msp.mode /\ m.unlocked = msp.unlocked
      BY <1>0, <2>5, <3>1 DEF Chips
    <3> QED
      BY <2>5, <3>2
  <2>6. CASE op \in {"loadpc", "reboot"} /\ InBsl /\ m = Restart(msp)
    <3>1. m \in Chips /\ m.flash = msp.flash
      BY <1>0, <2>6 DEF Chips, Restart
    <3> QED
      BY <2>6, <3>1 DEF InBsl
  <2>7. CASE op = "loadpc" /\ Open /\ m \in {[msp EXCEPT !.mode = x, !.unlocked = FALSE] : x \in {"bsl", "dead"}}
    <3>1. PICK x \in {"bsl", "dead"} : m = [msp EXCEPT !.mode = x, !.unlocked = FALSE]
      BY <2>7
    <3>2. m \in Chips /\ m.flash = msp.flash
      BY <1>0, <3>1 DEF Chips
    <3> QED
      BY <2>7, <3>2 DEF InBsl, Open
  <2> QED
    BY <2>1, <2>2, <2>3, <2>4, <2>5, <2>6, <2>7 DEF Open
<1> QED
  BY <1>1, <1>2

(* What the wire makes of it.                                              *)
LEMMA OutcomeIs ==
  ASSUME NEW op, NEW n, NEW o \in Outcomes(op, n)
  PROVE  /\ o.msp \in Effect(op) \cup {msp}
         /\ \/ o.ok = TRUE /\ o.ans = Answer(op, n) /\ o.msp \in Effect(op)
            \/ o.ok = FALSE /\ o.ans \in {"none", "junk"}
<1>1. CASE o \in {[msp |-> m, ans |-> Answer(op, n), ok |-> TRUE] : m \in Effect(op)}
  <2>1. PICK m \in Effect(op) : o = [msp |-> m, ans |-> Answer(op, n), ok |-> TRUE]
    BY <1>1
  <2> QED
    BY <2>1
<1>2. CASE o \in {[msp |-> m, ans |-> a, ok |-> FALSE] : m \in Effect(op) \cup {msp}, a \in {"none", "junk"}}
  <2>1. PICK m \in Effect(op) \cup {msp}, a \in {"none", "junk"} : o = [msp |-> m, ans |-> a, ok |-> FALSE]
    BY <1>2
  <2> QED
    BY <2>1
<1> QED
  BY <1>1, <1>2 DEF Outcomes

-----------------------------------------------------------------------------
(* Types                                                                   *)

(* What a request leaves behind.                                           *)
LEMMA HappensTypes ==
  ASSUME UpdateTypes, NEW op \in Operations, NEW n, NEW o \in Outcomes(op, n), Happens(o)
  PROVE  msp' \in Chips /\ clean' \in BOOLEAN
<1>1. o.msp \in Effect(op) \cup {msp} /\ o.ok \in BOOLEAN
  BY OutcomeIs
<1>2. msp \in Chips /\ clean \in BOOLEAN
  BY DEF UpdateTypes, MachineTypes, OtherTypes
<1>3. o.msp \in Chips
  BY <1>1, <1>2, EffectIs
<1> QED
  BY <1>1, <1>2, <1>3 DEF Happens

(* The counters of the handlers.                                           *)
LEMMA CounterTypes ==
  ASSUME UpdateTypes, NEW x \in Counted
  PROVE  /\ [retry EXCEPT ![x] = 0] \in [Counted -> 0..(MaxRetry - 1)]
         /\ retry[x] + 1 < MaxRetry => [retry EXCEPT ![x] = @ + 1] \in [Counted -> 0..(MaxRetry - 1)]
         /\ mode + 1 < MaxMode => mode + 1 \in 0..(MaxMode - 1)
         /\ 0 \in 0..(MaxMode - 1)
         /\ MaxRetry \in Nat /\ MaxMode \in Nat /\ mode \in Nat /\ retry[x] \in Nat
<1>1. MaxRetry \in Nat \ {0} /\ MaxMode \in Nat \ {0}
  BY ScUpdateAssumption
<1>2. retry \in [Counted -> 0..(MaxRetry - 1)] /\ mode \in 0..(MaxMode - 1)
  BY DEF UpdateTypes, MachineTypes
<1>3. retry[x] \in 0..(MaxRetry - 1)
  BY <1>2
<1>4. 0 \in 0..(MaxRetry - 1) /\ (retry[x] + 1 < MaxRetry => retry[x] + 1 \in 0..(MaxRetry - 1))
  BY <1>1, <1>3
<1>5. [retry EXCEPT ![x] = 0] \in [Counted -> 0..(MaxRetry - 1)]
  BY <1>2, <1>4
<1>6. ASSUME retry[x] + 1 < MaxRetry PROVE [retry EXCEPT ![x] = @ + 1] \in [Counted -> 0..(MaxRetry - 1)]
  BY <1>2, <1>4, <1>6
<1> QED
  BY <1>1, <1>2, <1>3, <1>5, <1>6

LEMMA HandlerTypes ==
  ASSUME UpdateTypes, Handlers
  PROVE  UpdateTypes'
<1>1. /\ st \in States /\ status \in {"success", "failure", "progress"} /\ error \in Errors /\ rc \in Errors
      /\ board \in {"vck5000", "later"} /\ syncLen \in {1, 8} /\ image \in {"whole", "headless", "none"}
      /\ retry \in [Counted -> 0..(MaxRetry - 1)] /\ mode \in 0..(MaxMode - 1) /\ bytes \in {1, 8, 11}
  BY DEF UpdateTypes, MachineTypes
<1>2. OtherTypes
  BY DEF UpdateTypes
<1>3. ASSUME UNCHANGED Rest, msp' \in Chips, clean' \in BOOLEAN,
             st' \in States, status' \in {"success", "failure", "progress"}, error' \in Errors,
             retry' \in [Counted -> 0..(MaxRetry - 1)], mode' \in 0..(MaxMode - 1), bytes' \in {1, 8, 11}
      PROVE  UpdateTypes'
  BY <1>1, <1>2, <1>3 DEF UpdateTypes, MachineTypes, OtherTypes, Rest, History, DataVars
<1>4. ASSUME NEW s \in Counted, NEW op \in Operations, NEW n, NEW good, NEW next \in States, NEW e \in Errors,
             Handshake(s, op, n, good, next, e)
      PROVE  UpdateTypes'
  <2>1. PICK o \in Outcomes(op, n) : Happens(o) /\ IF o.ans = good THEN Advance(next) ELSE Retry(e)
    BY <1>4 DEF Handshake
  <2>2. st = s /\ UNCHANGED <<mode, bytes>> /\ UNCHANGED Rest
    BY <1>4 DEF Handshake
  <2>3. msp' \in Chips /\ clean' \in BOOLEAN
    BY <2>1, HappensTypes
  <2>4. retry' \in [Counted -> 0..(MaxRetry - 1)]
    BY <2>1, <2>2, CounterTypes DEF Advance, Retry
  <2>5. st' \in States /\ status' \in {"success", "failure", "progress"} /\ error' \in Errors
    BY <1>1, <2>1 DEF Advance, Retry, Goto, GiveUp, States
  <2>6. mode' \in 0..(MaxMode - 1) /\ bytes' \in {1, 8, 11}
    BY <1>1, <2>2
  <2> QED
    BY <1>3, <2>2, <2>3, <2>4, <2>5, <2>6
<1>5. CASE SyncScBsl
  <2>1. PICK o \in Outcomes("sync", bytes) :
          /\ Happens(o)
          /\ \/ InScMode
             \/ bytes \in {1, 8} /\ SeemsBsl
             \/ \E c \in BOOLEAN : NoSync(c)
    BY <1>5 DEF SyncScBsl
  <2>2. st = "ScBslSync" /\ st \in Counted /\ UNCHANGED Rest
    BY <1>5 DEF SyncScBsl, Counted
  <2>3. msp' \in Chips /\ clean' \in BOOLEAN
    BY <2>1, HappensTypes DEF Operations
  <2>4. CASE InScMode
    <3>1. st' \in States /\ status' = status /\ error' = error /\ bytes' = bytes
      BY <2>4 DEF InScMode, Goto, States
    <3>2. retry' \in [Counted -> 0..(MaxRetry - 1)] /\ mode' \in 0..(MaxMode - 1)
      BY <2>2, <2>4, CounterTypes DEF InScMode
    <3> QED
      BY <1>1, <1>3, <2>2, <2>3, <3>1, <3>2
  <2>5. CASE SeemsBsl
    <3>1. st' \in States /\ status' = status /\ error' = error /\ bytes' \in {1, 8, 11}
      BY <1>1, <2>5 DEF SeemsBsl, Goto, States
    <3>2. retry' \in [Counted -> 0..(MaxRetry - 1)] /\ mode' \in 0..(MaxMode - 1)
      BY <1>1, <2>2, <2>5, CounterTypes DEF SeemsBsl
    <3> QED
      BY <1>1, <1>3, <2>2, <2>3, <3>1, <3>2
  <2>6. CASE \E c \in BOOLEAN : NoSync(c)
    <3>0. PICK c \in BOOLEAN : NoSync(c)
      BY <2>6
    <3>1. st' \in States /\ status' \in {"success", "failure", "progress"} /\ error' \in Errors /\ bytes' \in {1, 8, 11}
      BY <1>1, <3>0 DEF NoSync, Goto, GiveUp, States, Errors
    <3>2. retry' \in [Counted -> 0..(MaxRetry - 1)] /\ mode' \in 0..(MaxMode - 1)
      BY <1>1, <2>2, <3>0, CounterTypes DEF NoSync
    <3> QED
      BY <1>3, <2>2, <2>3, <3>1, <3>2
  <2> QED
    BY <2>1, <2>4, <2>5, <2>6
<1>6. CASE EnableBsl \/ SyncVmcBsl \/ UnlockBsl \/ MassErase
  BY <1>4, <1>6 DEF EnableBsl, SyncVmcBsl, UnlockBsl, MassErase, Counted, Operations, States, Errors
<1>7. CASE LoadPc \/ RebootBsl
  <2>1. /\ st' \in States /\ status' \in {"success", "failure", "progress"} /\ error' = error
        /\ UNCHANGED <<retry, mode, bytes>> /\ UNCHANGED Rest
    BY <1>1, <1>7 DEF LoadPc, RebootBsl, States
  <2>2. \E op \in Operations, n \in Nat : \E o \in Outcomes(op, n) : Happens(o)
    BY <1>7 DEF LoadPc, RebootBsl, Operations
  <2>3. msp' \in Chips /\ clean' \in BOOLEAN
    BY <2>2, HappensTypes
  <2> QED
    BY <1>1, <1>3, <2>1, <2>3
<1> QED
  BY <1>5, <1>6, <1>7 DEF Handlers

LEMMA DataTypes ==
  ASSUME UpdateTypes, DataStep
  PROVE  UpdateTypes'
<1>1. /\ MachineTypes /\ file \in Files /\ file.ptr <= Len(File) /\ msp \in Chips /\ clean \in BOOLEAN /\ lost \subseteq Addr
      /\ Len(File) \in Nat \ {0} /\ error \in Errors /\ OtherTypes
  BY AtIs DEF UpdateTypes, MachineTypes, OtherTypes
<1>2. ASSUME DataStays, st' \in States, status' \in {"success", "failure", "progress"}, error' \in Errors,
             msp' \in Chips, clean' \in BOOLEAN, lost' \subseteq Addr, tx' \in {"none", "symbol", "parse", "send", "crc", "end"},
             file' \in Files, file'.ptr <= Len(File),
             pkt'.addr \in Int, pkt'.lines \in Seq(Int), Len(pkt'.lines) <= PktLines
      PROVE  UpdateTypes'
  BY <1>1, <1>2 DEF UpdateTypes, MachineTypes, OtherTypes, DataStays
<1>3. st \in States /\ status \in {"success", "failure", "progress"}
  BY <1>1 DEF MachineTypes
<1>4. pkt.addr \in Int /\ pkt.lines \in Seq(Int) /\ Len(pkt.lines) <= PktLines
  BY <1>1 DEF OtherTypes
<1>5. /\ file = [ptr |-> file.ptr, flag |-> file.flag, addr |-> file.addr, prev |-> file.prev, sent |-> file.sent]
      /\ file.ptr \in Nat /\ file.flag \in BOOLEAN /\ file.addr \in Int /\ file.prev \in Nat /\ file.sent \in BOOLEAN
  BY <1>1 DEF Files
<1>6. CASE DataBegin \/ DataSymbol
  <2>1. /\ UNCHANGED <<pkt, msp, lost, clean>> /\ DataStays
        /\ \/ /\ UNCHANGED <<st, status, error>> /\ tx' = "symbol"
              /\ file' = [file EXCEPT !.ptr = 0, !.sent = FALSE]
           \/ /\ UNCHANGED <<st, status, error>> /\ tx' = "parse"
              /\ file' = [file EXCEPT !.flag = TRUE]
           \/ /\ st' = "Idle" /\ status' = "failure" /\ error' = "symbol" /\ tx' = "none" /\ UNCHANGED file
    BY <1>6 DEF DataBegin, DataSymbol, GiveUp
  <2>2. file' \in Files /\ file'.ptr <= Len(File)
    <3>1. PICK p \in {0, file.ptr}, b \in BOOLEAN, d \in BOOLEAN :
            file' = [ptr |-> p, flag |-> b, addr |-> file.addr, prev |-> file.prev, sent |-> d]
      BY <1>5, <2>1
    <3>2. file'.ptr <= Len(File)
      BY <1>1, <3>1
    <3>3. file' \in Files
      BY <1>5, <3>1 DEF Files
    <3> QED
      BY <3>2, <3>3
  <2>3. /\ tx' \in {"none", "symbol", "parse", "send", "crc", "end"} /\ st' \in States /\ error' \in Errors
        /\ status' \in {"success", "failure", "progress"}
    BY <1>1, <1>3, <2>1 DEF States, Errors, OtherTypes
  <2> QED
    BY <1>1, <1>2, <1>4, <2>1, <2>2, <2>3
<1>7. CASE DataParse
  <2>1. /\ UNCHANGED <<st, status, error, msp, lost, clean>> /\ DataStays /\ tx' = "send"
        /\ pkt' = Parse(file).pkt /\ file' = Parse(file).file
    BY <1>7 DEF DataParse
  <2>2. Cut(Parse(file))
    BY <1>1, ParseTypes
  <2> QED
    BY <1>1, <1>2, <1>3, <2>1, <2>2 DEF Cut
<1>8. CASE DataSend
  <2>1. PICK o \in Outcomes("data", 8) :
          /\ Happens(o)
          /\ \/ tx' = "crc" /\ UNCHANGED <<status, error>>
             \/ NextPacket
             \/ DataFails("resp")
          /\ lost' \in {lost, lost \cup {a \in Addr : Covers(pkt, a)}}
    BY <1>8 DEF DataSend
  <2>2. UNCHANGED <<st, file, pkt>> /\ DataStays
    BY <1>8 DEF DataSend
  <2>3. msp' \in Chips /\ clean' \in BOOLEAN /\ lost' \subseteq Addr
    BY <1>1, <2>1, HappensTypes DEF Operations
  <2>4. tx' \in {"none", "symbol", "parse", "send", "crc", "end"} /\ status' \in {"success", "failure", "progress"} /\ error' \in Errors
    BY <1>1, <1>3, <2>1 DEF NextPacket, DataFails, Errors
  <2> QED
    BY <1>1, <1>2, <1>3, <1>4, <2>2, <2>3, <2>4
<1>9. CASE DataCrc
  <2>1. PICK o \in Outcomes("crc", 9) : Happens(o) /\ (NextPacket \/ DataFails("crc"))
    BY <1>9 DEF DataCrc
  <2>2. UNCHANGED <<st, file, pkt, lost>> /\ DataStays
    BY <1>9 DEF DataCrc
  <2>3. msp' \in Chips /\ clean' \in BOOLEAN
    BY <2>1, HappensTypes DEF Operations
  <2>4. tx' \in {"none", "symbol", "parse", "send", "crc", "end"} /\ status' \in {"success", "failure", "progress"} /\ error' \in Errors
    BY <1>1, <1>3, <2>1 DEF NextPacket, DataFails, Errors
  <2> QED
    BY <1>1, <1>2, <1>3, <1>4, <2>2, <2>3, <2>4
<1>10. CASE DataDone
  <2>1. /\ UNCHANGED <<error, pkt, msp, lost, clean>> /\ DataStays /\ tx' = "none"
        /\ file' = [file EXCEPT !.ptr = 0, !.flag = FALSE]
        /\ st' \in States /\ status' \in {"success", "failure", "progress"}
    BY <1>3, <1>10 DEF DataDone, States
  <2>2. file' \in Files /\ file'.ptr <= Len(File)
    <3>1. file' = [ptr |-> 0, flag |-> FALSE, addr |-> file.addr, prev |-> file.prev, sent |-> file.sent]
      BY <1>5, <2>1
    <3>2. file'.ptr <= Len(File)
      BY <1>1, <3>1
    <3>3. file' \in Files
      BY <1>5, <3>1 DEF Files
    <3> QED
      BY <3>2, <3>3
  <2> QED
    BY <1>1, <1>2, <1>4, <2>1, <2>2
<1> QED
  BY <1>6, <1>7, <1>8, <1>9, <1>10 DEF DataStep

LEMMA OtherStepTypes ==
  ASSUME UpdateTypes, Start \/ StartRefused \/ FinishUpdate \/ Poll \/ QueryStep \/ UNCHANGED updateVars
  PROVE  UpdateTypes'
<1>1. MachineTypes /\ OtherTypes /\ file \in Files /\ file.ptr <= Len(File)
  BY DEF UpdateTypes, OtherTypes
<1>2. CASE Start
  <2>1. st' \in States /\ status' \in {"success", "failure", "progress"} /\ error' \in Errors
    BY <1>1, <1>2 DEF Start, MachineTypes, States, Errors
  <2>2. started' \in 0..MaxUpdates
    <3>1. MaxUpdates \in Nat /\ started \in 0..MaxUpdates
      BY <1>1, ScUpdateAssumption DEF OtherTypes
    <3> QED
      BY <1>2, <3>1 DEF Start
  <2> QED
    BY <1>1, <1>2, <2>1, <2>2 DEF Start, UpdateTypes, MachineTypes, OtherTypes, DataVars
<1>3. CASE FinishUpdate
  BY <1>1, <1>3 DEF FinishUpdate, UpdateTypes, MachineTypes, OtherTypes, DataVars, Errors
<1>4. CASE Poll
  BY <1>1, <1>4 DEF Poll, fsm, UpdateTypes, MachineTypes, OtherTypes, DataVars
<1>5. CASE QueryBegin
  <2>1. file' \in Files /\ file'.ptr <= Len(File)
    BY <1>1, <1>5, AtIs DEF QueryBegin, Files
  <2>2. asked' \in 0..MaxQueries
    <3>1. MaxQueries \in Nat /\ asked \in 0..MaxQueries
      BY <1>1, ScUpdateAssumption DEF OtherTypes
    <3> QED
      BY <1>5, <3>1 DEF QueryBegin
  <2>3. mixed' \in BOOLEAN
    BY <1>1, <1>5 DEF QueryBegin, OtherTypes
  <2> QED
    BY <1>1, <1>5, <2>1, <2>2, <2>3 DEF QueryBegin, QueryStays, fsm, UpdateTypes, MachineTypes, OtherTypes
<1>6. CASE QueryParse
  <2>1. file' \in Files /\ file'.ptr <= Len(File)
    <3>1. QueryLen \in Nat /\ QueryLen <= Len(File) /\ Len(File) \in Nat /\ Base[Len(Sections)] \in Int
      <4>1. Count \in 1..Count /\ Count = Len(Sections)
        BY Image DEF Count
      <4>2. Base[Count] \in Int
        BY <4>1, Image
      <4> QED
        BY <4>1, <4>2, AtIs, ScUpdateAssumption, QueryAssumption
    <3>2. /\ file = [ptr |-> file.ptr, flag |-> file.flag, addr |-> file.addr, prev |-> file.prev, sent |-> file.sent]
          /\ file.ptr \in Nat /\ file.prev \in Nat /\ file.sent \in BOOLEAN
      BY <1>1 DEF Files
    <3> DEFINE p == IF file.ptr < QueryLen THEN QueryLen ELSE Len(File)
    <3>3. file' = [ptr |-> p, flag |-> FALSE, addr |-> Base[Len(Sections)], prev |-> file.prev, sent |-> file.sent]
      BY <1>6, <3>2 DEF QueryParse
    <3>4. p \in Nat /\ p <= Len(File)
      BY <3>1
    <3> HIDE DEF p
    <3> QED
      BY <3>1, <3>2, <3>3, <3>4 DEF Files
  <2>2. mixed' \in BOOLEAN /\ beyond' \in BOOLEAN
    BY <1>1, <1>6 DEF QueryParse, OtherTypes
  <2> QED
    BY <1>1, <1>6, <2>1, <2>2 DEF QueryParse, QueryStays, fsm, UpdateTypes, MachineTypes, OtherTypes
<1>7. CASE UNCHANGED updateVars
  BY <1>1, <1>7 DEF updateVars, fsm, UpdateTypes, MachineTypes, OtherTypes
<1>8. CASE StartRefused
  <2>1. MaxUpdates \in Nat /\ started \in 0..MaxUpdates
    BY <1>1, ScUpdateAssumption DEF OtherTypes
  <2>2. started' \in 0..MaxUpdates
    BY <1>8, <2>1 DEF StartRefused
  <2> QED
    BY <1>1, <1>8, <2>2 DEF StartRefused, fsm, UpdateTypes, MachineTypes, OtherTypes, DataVars, Errors
<1> QED
  BY <1>2, <1>3, <1>4, <1>5, <1>6, <1>7, <1>8 DEF QueryStep

-----------------------------------------------------------------------------
(* The handshake with the boot loader                                      *)

SafetyInv == ControlInv /\ DataInv /\ BytesInv /\ CleanInv
InHandler == busy /\ status = "progress" /\ tx = "none"

(* A request outside the data state that leaves the flash as it is touches *)
(* nothing of the data.                                                    *)
LEMMA FlashStays ==
  ASSUME UpdateTypes, SafetyInv, InHandler, UNCHANGED Rest, msp'.flash = msp.flash,
         st \notin {"Idle", "DataTx"}, st' # "DataTx", st' = "LoadPc" => st = "LoadPc",
         st' = "Idle" /\ error' = "none" => st = "LoadPc"
  PROVE  DataInv'
<1>1. UNCHANGED <<lost, mixed, image, tx, busy>> /\ tx = "none"
  BY DEF Rest, History, DataVars, InHandler
<1>2. Kept' = Kept
  BY <1>1 DEF Kept
<1>3. DataInv
  BY DEF SafetyInv
<1> QED
  BY <1>1, <1>2, <1>3 DEF DataInv

LEMMA SyncStep ==
  ASSUME UpdateTypes, SafetyInv, InHandler, SyncScBsl
  PROVE  SafetyInv'
<1>1. PICK o \in Outcomes("sync", bytes) :
        /\ Happens(o)
        /\ \/ o.ans = "sc" /\ InScMode
           \/ o.ans = "unknown" /\ bytes = 8 /\ SeemsBsl
           \/ o.ans = "synced" /\ bytes = 1 /\ SeemsBsl
           \/ o.ans = "none" /\ NoSync(FALSE)
           \/ o.ans \in {"junk", "other"} /\ NoSync(TRUE)
  BY DEF SyncScBsl
<1>2. /\ st = "ScBslSync" /\ UNCHANGED Rest /\ UNCHANGED <<lost, mixed, image, tx, busy>> /\ tx = "none" /\ busy /\ status = "progress"
  BY DEF SyncScBsl, Rest, History, DataVars, InHandler
<1>3. msp \in Chips /\ bytes \in {1, 8, 11} /\ syncLen \in {1, 8} /\ msp.mode \in {"sc", "bsl", "dead"} /\ clean \in BOOLEAN
  BY DEF UpdateTypes, MachineTypes, OtherTypes, Chips
<1>4. ControlInv /\ DataInv /\ BytesInv /\ CleanInv
  BY DEF SafetyInv
<1>5. \/ o.ok = TRUE /\ o.ans = Answer("sync", bytes)
      \/ o.ok = FALSE /\ o.ans \in {"none", "junk"}
  BY OutcomeIs
<1>6. msp' = msp /\ clean' = (clean /\ o.ok)
  <2>1. o.msp = msp
    BY <1>3, OutcomeIs, EffectIs DEF Operations
  <2> QED
    BY <1>1, <2>1 DEF Happens
<1>7. Answer("sync", bytes) =
        IF msp.mode = "dead" THEN "none"
        ELSE IF msp.mode = "sc" THEN (IF bytes = 1 THEN "other" ELSE "sc")
        ELSE IF bytes > syncLen THEN "none" ELSE IF bytes = 8 THEN "unknown" ELSE "synced"
  BY <1>3 DEF Answer, AppAnswer, BslAnswer
<1>8. /\ status' \in {"progress", "failure"}
      /\ \/ st' = "EnableBsl" /\ status' = status /\ error' = error /\ bytes' = bytes /\ o.ans = "sc"
         \/ st' = "Unlock" /\ status' = status /\ error' = error /\ bytes' = 11 /\ o.ans \in {"unknown", "synced"}
         \/ st' = st /\ status' = status /\ error' = error /\ bytes' = bytes
         \/ /\ st' = st /\ status' = status /\ error' = error /\ bytes' = (IF bytes = 11 THEN 8 ELSE 1)
            /\ bytes # 1 /\ o.ans \in {"none", "junk", "other"}
         \/ /\ st' = "Idle" /\ status' = "failure" /\ error' = "sync" /\ bytes' = 11
            /\ bytes = 1 /\ o.ans \in {"none", "junk", "other"}
  BY <1>1, <1>2 DEF InScMode, SeemsBsl, NoSync, Goto, GiveUp
<1>9. ControlInv'
  BY <1>2, <1>4, <1>6, <1>8 DEF ControlInv, Open, InBsl
<1>10. DataInv'
  BY <1>2, <1>6, <1>8, FlashStays
<1>11. BytesInv'
  BY <1>2, <1>3, <1>5, <1>7, <1>8 DEF BytesInv
<1>12. CleanInv'
  <2> SUFFICES ASSUME image' = "whole", clean', ~mixed', msp'.mode # "dead"
               PROVE  /\ lost' = {} \/ ~busy'
                      /\ error' = "none"
                      /\ st' = "ScBslSync" /\ bytes' = 1 => InBsl'
                      /\ st' = "EnableBsl" => msp'.mode = "sc"
                      /\ st' \in {"BslSynced", "Unlock"} => InBsl'
                      /\ st' \in {"MassErase", "LoadPc"} => Open'
                      /\ st' = "Idle" /\ busy' => Complete' /\ msp'.mode = "sc"
    BY DEF CleanInv
  <2>1. clean /\ o.ans = Answer("sync", bytes) /\ ~mixed /\ msp.mode # "dead"
    BY <1>2, <1>5, <1>6
  <2>2. (lost = {} \/ ~busy) /\ error = "none" /\ (bytes = 1 => InBsl)
    BY <1>2, <1>4, <2>1 DEF CleanInv
  <2>3. o.ans \in {"none", "junk", "other"} => msp.mode = "bsl" /\ bytes # 1
    BY <1>3, <1>7, <2>1, <2>2 DEF InBsl
  <2>4. o.ans = "sc" => msp.mode = "sc"
    BY <1>3, <1>7, <2>1
  <2>5. o.ans \in {"unknown", "synced"} => msp.mode = "bsl"
    BY <1>3, <1>7, <2>1
  <2> QED
    BY <1>2, <1>6, <1>8, <2>2, <2>3, <2>4, <2>5 DEF InBsl
<1> QED
  BY <1>9, <1>10, <1>11, <1>12 DEF SafetyInv

(* One request of the handshake: the answer that is waited for, or another *)
(* try, or no more.                                                        *)
LEMMA HandshakeIs ==
  ASSUME UpdateTypes, NEW s, NEW op \in Operations, NEW n, NEW good, good \notin {"none", "junk"}, NEW next, NEW e,
         Handshake(s, op, n, good, next, e)
  PROVE  /\ st = s /\ UNCHANGED Rest /\ UNCHANGED bytes
         /\ msp' \in Effect(op) \cup {msp}
         /\ clean' => clean
         /\ \/ /\ st' = next /\ UNCHANGED <<status, error>>
               /\ Answer(op, n) = good /\ msp' \in Effect(op)
            \/ /\ ((st' = s /\ UNCHANGED <<status, error>>) \/ (st' = "Idle" /\ status' = "failure" /\ error' = e))
               /\ clean' => Answer(op, n) # good
<1>1. PICK o \in Outcomes(op, n) : Happens(o) /\ IF o.ans = good THEN Advance(next) ELSE Retry(e)
  BY DEF Handshake
<1>2. /\ o.msp \in Effect(op) \cup {msp}
      /\ \/ o.ok = TRUE /\ o.ans = Answer(op, n) /\ o.msp \in Effect(op)
         \/ o.ok = FALSE /\ o.ans \in {"none", "junk"}
  BY OutcomeIs
<1>3. st = s /\ UNCHANGED Rest /\ UNCHANGED bytes
  BY DEF Handshake
<1>4. msp' = o.msp /\ clean' = (clean /\ o.ok)
  BY <1>1 DEF Happens
<1>5. CASE o.ans = good
  BY <1>1, <1>2, <1>3, <1>4, <1>5 DEF Advance, Goto
<1>6. CASE o.ans # good
  <2>1. (st' = s /\ UNCHANGED <<status, error>>) \/ (st' = "Idle" /\ status' = "failure" /\ error' = e)
    BY <1>1, <1>3, <1>6 DEF Retry, Goto, GiveUp
  <2>2. clean' => Answer(op, n) # good
    BY <1>2, <1>4, <1>6
  <2> QED
    BY <1>2, <1>3, <1>4, <2>1, <2>2
<1> QED
  BY <1>5, <1>6

LEMMA EnableStep ==
  ASSUME UpdateTypes, SafetyInv, InHandler, EnableBsl
  PROVE  SafetyInv'
<1>1. /\ st = "EnableBsl" /\ UNCHANGED Rest /\ UNCHANGED bytes
      /\ msp' \in Effect("enable") \cup {msp}
      /\ clean' => clean
      /\ \/ /\ st' = "BslSynced" /\ UNCHANGED <<status, error>>
            /\ Answer("enable", 11) = "good" /\ msp' \in Effect("enable")
         \/ /\ ((st' = "EnableBsl" /\ UNCHANGED <<status, error>>) \/ (st' = "Idle" /\ status' = "failure" /\ error' = "enable"))
            /\ clean' => Answer("enable", 11) # "good"
  BY HandshakeIs DEF EnableBsl, Operations
<1>2. /\ UNCHANGED <<lost, mixed, image, tx, busy>> /\ tx = "none" /\ busy /\ status = "progress"
  BY <1>1 DEF Rest, History, DataVars, InHandler
<1>3. msp \in Chips /\ msp.mode \in {"sc", "bsl", "dead"}
  BY DEF UpdateTypes, MachineTypes, Chips
<1>4. ControlInv /\ DataInv /\ BytesInv /\ CleanInv
  BY DEF SafetyInv
<1>5. msp'.flash = msp.flash /\ (msp.mode = "dead" => msp'.mode = "dead")
  BY <1>1, <1>3, EffectIs DEF Operations
<1>6. ControlInv'
  BY <1>1, <1>2, <1>4 DEF ControlInv
<1>7. DataInv'
  BY <1>1, <1>5, FlashStays
<1>8. BytesInv'
  BY <1>1, <1>4 DEF BytesInv
<1>9. CleanInv'
  <2> SUFFICES ASSUME image' = "whole", clean', ~mixed', msp'.mode # "dead"
               PROVE  /\ lost' = {} /\ error' = "none"
                      /\ st' = "BslSynced" /\ msp'.mode = "bsl"
    BY <1>2 DEF CleanInv, InBsl
  <2>1. msp.mode = "sc" /\ error = "none" /\ lost = {}
    BY <1>1, <1>2, <1>4, <1>5 DEF CleanInv
  <2>2. Answer("enable", 11) = "good"
    BY <2>1 DEF Answer, AppAnswer
  <2>3. Effect("enable") = {[msp EXCEPT !.mode = "bsl", !.unlocked = FALSE]}
    BY <2>1 DEF Effect
  <2>4. st' = "BslSynced" /\ UNCHANGED error /\ msp' = [msp EXCEPT !.mode = "bsl", !.unlocked = FALSE]
    BY <1>1, <2>2, <2>3
  <2> QED
    BY <1>2, <1>3, <2>1, <2>4 DEF Chips
<1> QED
  BY <1>6, <1>7, <1>8, <1>9 DEF SafetyInv

LEMMA SyncVmcStep ==
  ASSUME UpdateTypes, SafetyInv, InHandler, SyncVmcBsl
  PROVE  SafetyInv'
<1>1. /\ st = "BslSynced" /\ UNCHANGED Rest /\ UNCHANGED bytes
      /\ msp' \in Effect("bslsync") \cup {msp}
      /\ clean' => clean
      /\ \/ st' = "Unlock" /\ UNCHANGED <<status, error>>
         \/ /\ ((st' = "BslSynced" /\ UNCHANGED <<status, error>>) \/ (st' = "Idle" /\ status' = "failure" /\ error' = "bslsync"))
            /\ clean' => Answer("bslsync", 1) # "synced"
  BY HandshakeIs DEF SyncVmcBsl, Operations
<1>2. /\ UNCHANGED <<lost, mixed, image, tx, busy>> /\ tx = "none" /\ busy /\ status = "progress"
  BY <1>1 DEF Rest, History, DataVars, InHandler
<1>3. msp \in Chips
  BY DEF UpdateTypes, MachineTypes
<1>4. ControlInv /\ DataInv /\ BytesInv /\ CleanInv
  BY DEF SafetyInv
<1>5. msp' = msp
  BY <1>1, <1>3, EffectIs DEF Operations
<1>6. ControlInv'
  BY <1>1, <1>2, <1>4 DEF ControlInv
<1>7. DataInv'
  BY <1>1, <1>5, FlashStays
<1>8. BytesInv'
  BY <1>1, <1>4 DEF BytesInv
<1>9. CleanInv'
  <2> SUFFICES ASSUME image' = "whole", clean', ~mixed', msp'.mode # "dead"
               PROVE  lost' = {} /\ error' = "none" /\ st' = "Unlock" /\ msp'.mode = "bsl"
    BY <1>2 DEF CleanInv, InBsl
  <2>1. msp.mode = "bsl" /\ error = "none" /\ lost = {}
    BY <1>1, <1>2, <1>4, <1>5 DEF CleanInv, InBsl
  <2>2. Answer("bslsync", 1) = "synced"
    BY <2>1 DEF Answer, BslAnswer
  <2> QED
    BY <1>1, <1>2, <1>5, <2>1, <2>2
<1> QED
  BY <1>6, <1>7, <1>8, <1>9 DEF SafetyInv

LEMMA UnlockStep ==
  ASSUME UpdateTypes, SafetyInv, InHandler, UnlockBsl
  PROVE  SafetyInv'
<1>1. /\ st = "Unlock" /\ UNCHANGED Rest /\ UNCHANGED bytes
      /\ msp' \in Effect("unlock") \cup {msp}
      /\ clean' => clean
      /\ \/ /\ st' = "MassErase" /\ UNCHANGED <<status, error>>
            /\ msp' \in Effect("unlock")
         \/ /\ ((st' = "Unlock" /\ UNCHANGED <<status, error>>) \/ (st' = "Idle" /\ status' = "failure" /\ error' = "unlock"))
            /\ clean' => Answer("unlock", 8) # "ack"
  BY HandshakeIs DEF UnlockBsl, Operations
<1>2. /\ UNCHANGED <<lost, mixed, image, tx, busy>> /\ tx = "none" /\ busy /\ status = "progress"
  BY <1>1 DEF Rest, History, DataVars, InHandler
<1>3. msp \in Chips
  BY DEF UpdateTypes, MachineTypes
<1>4. ControlInv /\ DataInv /\ BytesInv /\ CleanInv
  BY DEF SafetyInv
<1>5. msp'.flash = msp.flash /\ msp'.mode = msp.mode
  BY <1>1, <1>3, EffectIs DEF Operations
<1>6. ControlInv'
  BY <1>1, <1>2, <1>4 DEF ControlInv
<1>7. DataInv'
  BY <1>1, <1>5, FlashStays
<1>8. BytesInv'
  BY <1>1, <1>4 DEF BytesInv
<1>9. CleanInv'
  <2> SUFFICES ASSUME image' = "whole", clean', ~mixed', msp'.mode # "dead"
               PROVE  lost' = {} /\ error' = "none" /\ st' = "MassErase" /\ msp'.mode = "bsl" /\ msp'.unlocked
    BY <1>2 DEF CleanInv, InBsl, Open
  <2>1. msp.mode = "bsl" /\ error = "none" /\ lost = {}
    BY <1>1, <1>2, <1>4, <1>5 DEF CleanInv, InBsl
  <2>2. Answer("unlock", 8) = "ack"
    BY <2>1 DEF Answer, BslAnswer
  <2>3. Effect("unlock") = {[msp EXCEPT !.unlocked = TRUE]}
    BY <2>1 DEF Effect, InBsl
  <2>4. st' = "MassErase" /\ UNCHANGED error /\ msp' = [msp EXCEPT !.unlocked = TRUE]
    BY <1>1, <2>2, <2>3
  <2> QED
    BY <1>2, <1>3, <1>5, <2>1, <2>4 DEF Chips
<1> QED
  BY <1>6, <1>7, <1>8, <1>9 DEF SafetyInv

LEMMA MassEraseStep ==
  ASSUME UpdateTypes, SafetyInv, InHandler, MassErase
  PROVE  SafetyInv'
<1>1. /\ st = "MassErase" /\ UNCHANGED Rest /\ UNCHANGED bytes
      /\ msp' \in Effect("erase") \cup {msp}
      /\ clean' => clean
      /\ \/ /\ st' = "DataTx" /\ UNCHANGED <<status, error>>
            /\ Answer("erase", 8) = "ack" /\ msp' \in Effect("erase")
         \/ /\ (st' = "MassErase" /\ UNCHANGED <<status, error>>) \/ (st' = "Idle" /\ status' = "failure" /\ error' = "erase")
            /\ clean' => Answer("erase", 8) # "ack"
  BY HandshakeIs DEF MassErase, Operations
<1>2. /\ UNCHANGED <<lost, mixed, image, tx, busy>> /\ tx = "none" /\ busy /\ status = "progress"
  BY <1>1 DEF Rest, History, DataVars, InHandler
<1>3. msp \in Chips /\ msp.mode \in {"sc", "bsl", "dead"}
  BY DEF UpdateTypes, MachineTypes, Chips
<1>4. ControlInv /\ DataInv /\ BytesInv /\ CleanInv
  BY DEF SafetyInv
<1>5. msp'.mode = msp.mode /\ msp'.unlocked = msp.unlocked
  BY <1>1, <1>3, EffectIs DEF Operations
<1>6. st' = "DataTx" => Open /\ Open' /\ \A a \in Addr : msp'.flash[a] = "blank"
  <2> SUFFICES ASSUME st' = "DataTx" PROVE Open /\ Open' /\ \A a \in Addr : msp'.flash[a] = "blank"
    OBVIOUS
  <2>1. Answer("erase", 8) = "ack" /\ msp' \in Effect("erase")
    BY <1>1
  <2>2. msp.mode = "bsl"
    BY <1>3, <2>1 DEF Answer, AppAnswer
  <2>3. Open
    BY <2>1, <2>2 DEF Answer, BslAnswer
  <2>4. Effect("erase") = {[msp EXCEPT !.flash = Erased]}
    BY <2>3 DEF Effect
  <2>5. msp'.flash = Erased
    BY <1>3, <2>1, <2>4 DEF Chips
  <2>6. Open'
    BY <1>5, <2>3 DEF Open, InBsl
  <2> QED
    BY <2>3, <2>5, <2>6 DEF Erased
<1>7. ControlInv'
  BY <1>1, <1>2, <1>4, <1>6 DEF ControlInv
<1>8. DataInv'
  BY <1>1, <1>2, <1>6 DEF DataInv
<1>9. BytesInv'
  BY <1>1, <1>4 DEF BytesInv
<1>10. CleanInv'
  <2> SUFFICES ASSUME image' = "whole", clean', ~mixed', msp'.mode # "dead"
               PROVE  lost' = {} /\ error' = "none" /\ st' = "DataTx"
    BY <1>2 DEF CleanInv
  <2>1. Open /\ error = "none" /\ lost = {}
    BY <1>1, <1>2, <1>4, <1>5 DEF CleanInv
  <2>2. Answer("erase", 8) = "ack"
    BY <2>1 DEF Answer, BslAnswer, Open, InBsl
  <2> QED
    BY <1>1, <1>2, <2>1, <2>2
<1> QED
  BY <1>7, <1>8, <1>9, <1>10 DEF SafetyInv

(* The application is started; an SC that does not say so is asked again.  *)
LEMMA LoadPcStep ==
  ASSUME UpdateTypes, SafetyInv, InHandler, LoadPc
  PROVE  SafetyInv'
<1>1. PICK o \in Outcomes("loadpc", 1) :
        Happens(o) /\ IF o.ans = "started" THEN st' = "Idle" /\ status' = "success" ELSE UNCHANGED <<st, status>>
  BY DEF LoadPc
<1>2. /\ st = "LoadPc" /\ UNCHANGED Rest /\ UNCHANGED <<error, bytes, lost, mixed, image, tx, busy>>
      /\ tx = "none" /\ busy /\ status = "progress"
  BY DEF LoadPc, Rest, History, DataVars, InHandler
<1>3. msp \in Chips
  BY DEF UpdateTypes, MachineTypes
<1>4. ControlInv /\ DataInv /\ BytesInv /\ CleanInv
  BY DEF SafetyInv
<1>5. /\ o.msp \in Effect("loadpc") \cup {msp}
      /\ \/ o.ok = TRUE /\ o.ans = Answer("loadpc", 1) /\ o.msp \in Effect("loadpc")
         \/ o.ok = FALSE /\ o.ans \in {"none", "junk"}
  BY OutcomeIs
<1>6. msp' = o.msp /\ clean' = (clean /\ o.ok)
  BY <1>1 DEF Happens
<1>7. msp'.flash = msp.flash /\ (msp.mode = "dead" => msp'.mode = "dead")
  BY <1>3, <1>5, <1>6, EffectIs DEF Operations
<1>8. (st' = "Idle" /\ status' = "success" /\ o.ans = "started") \/ (st' = "LoadPc" /\ status' = "progress" /\ o.ans # "started")
  BY <1>1, <1>2
<1>9. ControlInv'
  BY <1>2, <1>4, <1>8 DEF ControlInv
<1>10. DataInv'
  BY <1>2, <1>7, <1>8, FlashStays
<1>11. BytesInv'
  BY <1>2, <1>4, <1>8 DEF BytesInv
<1>12. CleanInv'
  <2> SUFFICES ASSUME image' = "whole", clean', ~mixed', msp'.mode # "dead"
               PROVE  lost' = {} /\ error' = "none" /\ st' = "Idle" /\ Complete' /\ msp'.mode = "sc"
    BY <1>2 DEF CleanInv
  <2>1. Open /\ error = "none" /\ lost = {} /\ ~mixed /\ o.ans = Answer("loadpc", 1) /\ o.msp \in Effect("loadpc")
    BY <1>2, <1>4, <1>5, <1>6, <1>7 DEF CleanInv
  <2>2. Answer("loadpc", 1) = "started"
    BY <2>1 DEF Answer, BslAnswer, Open, InBsl
  <2>3. Addr \subseteq Kept
    BY <1>2, <1>4, <2>1 DEF DataInv
  <2>4. \A a \in Addr : msp.flash[a] = "own"
    BY <2>1, <2>3 DEF Kept
  <2>5. Runs(msp.flash)
    BY <2>4 DEF Runs
  <2>6. Effect("loadpc") = {Restart(msp)}
    BY <2>1, <2>5 DEF Effect
  <2>7. msp'.mode = "sc"
    BY <1>3, <1>6, <2>1, <2>5, <2>6 DEF Restart, Chips
  <2> QED
    BY <1>2, <1>7, <1>8, <2>1, <2>2, <2>4, <2>7 DEF Complete
<1> QED
  BY <1>9, <1>10, <1>11, <1>12 DEF SafetyInv

LEMMA RebootStep ==
  ASSUME UpdateTypes, SafetyInv, InHandler, RebootBsl
  PROVE  SafetyInv'
<1>1. PICK o \in Outcomes("reboot", 0) : Happens(o)
  BY DEF RebootBsl
<1>2. /\ st = "Reboot" /\ UNCHANGED Rest /\ UNCHANGED <<error, bytes, lost, mixed, image, tx, busy>>
      /\ tx = "none" /\ busy /\ status = "progress" /\ st' = "Idle" /\ status' = "success"
  BY DEF RebootBsl, Rest, History, DataVars, InHandler
<1>3. msp \in Chips
  BY DEF UpdateTypes, MachineTypes
<1>4. ControlInv /\ DataInv /\ BytesInv /\ CleanInv
  BY DEF SafetyInv
<1>5. msp'.flash = msp.flash /\ (msp.mode = "dead" => msp'.mode = "dead") /\ (clean' => clean)
  <2>1. o.msp \in Effect("reboot") \cup {msp} /\ msp' = o.msp /\ clean' = (clean /\ o.ok)
    BY <1>1, OutcomeIs DEF Happens
  <2> QED
    BY <1>3, <2>1, EffectIs DEF Operations
<1>6. error # "none"
  BY <1>2, <1>4 DEF ControlInv
<1>7. ControlInv'
  BY <1>2, <1>4, <1>6 DEF ControlInv
<1>8. DataInv'
  BY <1>2, <1>5, <1>6, FlashStays
<1>9. BytesInv'
  BY <1>2, <1>4 DEF BytesInv
<1>10. CleanInv'
  BY <1>2, <1>4, <1>5, <1>6 DEF CleanInv
<1> QED
  BY <1>7, <1>8, <1>9, <1>10 DEF SafetyInv

-----------------------------------------------------------------------------
(* The data                                                                *)

(* More lines are not less far; behind the last packet it is all of them;  *)
(* at first there are none.                                                *)
LEMMA UpToIs ==
  ASSUME NEW f, NEW D, UpTo(f, D)
  PROVE  /\ \A E : D \subseteq E => UpTo(f, E)
         /\ f.sent => Addr \subseteq D
<1>1. \A E : D \subseteq E => UpTo(f, E)
  BY DEF UpTo
<1>2. ASSUME f.sent PROVE Addr \subseteq D
  <2>1. ASSUME NEW s \in 1..Count, NEW k \in 0..Sections[s], Within(f, s, k) PROVE FALSE
    <3>1. k \in Nat
      BY Image
    <3>2. k = 0 \/ k > 0
      BY <3>1
    <3> QED
      BY <1>2, <2>1, <3>2 DEF Within, AtMark, AfterLine
  <2> QED
    BY <2>1 DEF UpTo
<1> QED
  BY <1>1, <1>2

LEMMA UpToBegins ==
  ASSUME NEW f, f.ptr = 0, f.flag, ~f.sent, NEW D
  PROVE  UpTo(f, D)
<1>1. 1 \in 1..Count /\ 0 \in 0..Sections[1] /\ Base[1] \in Nat
  <2>1. 1 \in 1..Count
    BY Image
  <2>2. Sections[1] \in Nat \ {0} /\ Base[1] \in Nat \ {0}
    BY <2>1, Image
  <2> QED
    BY <2>1, <2>2
<1>2. Within(f, 1, 0)
  BY <1>1 DEF Within, AtMark
<1>3. Done(1, 0) = {}
  BY <1>1 DEF Done, Span
<1> QED
  BY <1>1, <1>2, <1>3 DEF UpTo

LEMMA BeginStep ==
  ASSUME UpdateTypes, SafetyInv, DataBegin
  PROVE  SafetyInv'
<1>1. /\ st = "DataTx" /\ tx = "none" /\ tx' = "symbol" /\ file' = [file EXCEPT !.ptr = 0, !.sent = FALSE]
      /\ UNCHANGED <<st, status, error, pkt, msp, lost, clean, mixed, image, bytes, busy>>
  BY DEF DataBegin, DataStays
<1>2. ControlInv /\ DataInv /\ BytesInv /\ CleanInv /\ file \in Files
  BY DEF SafetyInv, UpdateTypes, OtherTypes
<1>3. file'.ptr = 0 /\ ~file'.sent
  BY <1>1, <1>2 DEF Files
<1>4. ControlInv'
  BY <1>1, <1>2 DEF ControlInv, Open, InBsl
<1>5. DataInv'
  BY <1>1, <1>2, <1>3 DEF DataInv
<1>6. BytesInv'
  BY <1>1, <1>2 DEF BytesInv
<1>7. CleanInv'
  BY <1>1, <1>2 DEF CleanInv, Open, InBsl, Complete
<1> QED
  BY <1>4, <1>5, <1>6, <1>7 DEF SafetyInv

(* The symbol is there, or it is not and the update is given up.           *)
LEMMA SymbolStep ==
  ASSUME UpdateTypes, SafetyInv, DataSymbol
  PROVE  SafetyInv'
<1>1. /\ tx = "symbol" /\ UNCHANGED <<pkt, msp, lost, clean, mixed, image, bytes, busy>>
      /\ \/ /\ tx' = "parse" /\ file' = [file EXCEPT !.flag = TRUE]
            /\ UNCHANGED <<st, status, error>>
         \/ /\ tx' = "none" /\ image # "whole"
            /\ st' = "Idle" /\ status' = "failure" /\ error' = "symbol"
  BY DEF DataSymbol, DataStays, GiveUp
<1>2. ControlInv /\ DataInv /\ BytesInv /\ CleanInv /\ file \in Files
  BY DEF SafetyInv, UpdateTypes, OtherTypes
<1>3. st = "DataTx" /\ busy /\ (~mixed => file.ptr = 0 /\ ~file.sent)
  BY <1>1, <1>2 DEF ControlInv, DataInv
<1>4. CASE tx' = "parse"
  <2>1. file' = [file EXCEPT !.flag = TRUE] /\ UNCHANGED <<st, status, error>>
    BY <1>1, <1>4
  <2>2. ~mixed => file'.ptr = 0 /\ file'.flag /\ ~file'.sent
    BY <1>2, <1>3, <2>1 DEF Files
  <2>3. ~mixed => UpTo(file', Kept')
    BY <2>2, UpToBegins
  <2>4. ControlInv'
    BY <1>1, <1>2, <1>4, <2>1 DEF ControlInv, Open, InBsl
  <2>5. DataInv'
    <3> SUFFICES ASSUME ~mixed PROVE DataInv'
      BY <1>1 DEF DataInv
    <3>1. ~file'.sent /\ UpTo(file', Kept')
      BY <2>2, <2>3
    <3>2. UpTo(file, Kept)'
      BY <3>1 DEF UpTo, Within, AtMark, AfterLine, Done, Span
    <3> QED
      BY <1>1, <1>2, <1>3, <1>4, <2>1, <3>1, <3>2 DEF DataInv
  <2>6. BytesInv'
    BY <1>1, <1>2, <2>1 DEF BytesInv
  <2>7. CleanInv'
    BY <1>1, <1>2, <2>1 DEF CleanInv, Open, InBsl, Complete
  <2> QED
    BY <2>4, <2>5, <2>6, <2>7 DEF SafetyInv
<1>5. CASE tx' # "parse"
  <2>1. /\ tx' = "none" /\ image' # "whole"
        /\ st' = "Idle" /\ status' = "failure" /\ error' = "symbol"
    BY <1>1, <1>5
  <2> QED
    BY <1>1, <1>2, <1>3, <2>1 DEF SafetyInv, ControlInv, DataInv, BytesInv, CleanInv
<1> QED
  BY <1>4, <1>5

LEMMA ParseStep ==
  ASSUME UpdateTypes, SafetyInv, DataParse
  PROVE  SafetyInv'
<1>1. /\ tx = "parse" /\ tx' = "send" /\ pkt' = Parse(file).pkt /\ file' = Parse(file).file
      /\ UNCHANGED <<st, status, error, msp, lost, clean, mixed, image, bytes, busy>>
  BY DEF DataParse, DataStays
<1>2. ControlInv /\ DataInv /\ BytesInv /\ CleanInv /\ file \in Files
  BY DEF SafetyInv, UpdateTypes, OtherTypes
<1>3. ControlInv'
  BY <1>1, <1>2 DEF ControlInv, Open, InBsl
<1>4. st = "DataTx" /\ status = "progress"
  BY <1>1, <1>2 DEF ControlInv
<1>5. DataInv'
  <2> SUFFICES ASSUME ~mixed PROVE DataInv'
    BY <1>1 DEF DataInv
  <2>1. ~file.sent /\ UpTo(file, Kept)
    BY <1>1, <1>2 DEF DataInv
  <2>2. /\ Proper(Parse(file).pkt)
        /\ UpTo(Parse(file).file, Kept \cup {a \in Addr : Covers(Parse(file).pkt, a)})
    BY <1>2, <2>1, ParseUpTo
  <2>3. Kept' = Kept /\ Covered' = {a \in Addr : Covers(Parse(file).pkt, a)}
    BY <1>1 DEF Kept, Covered, Covers
  <2>4. Proper(pkt)' /\ UpTo(file, Kept \cup Covered)'
    <3>1. Proper(pkt')
      BY <1>1, <2>2
    <3>2. Proper(pkt)'
      BY <3>1 DEF Proper, Covers, Line
    <3>3. UpTo(file', Kept' \cup Covered')
      BY <1>1, <2>2, <2>3
    <3>4. UpTo(file, Kept \cup Covered)'
      BY <3>3 DEF UpTo, Within, AtMark, AfterLine, Done, Span
    <3> QED
      BY <3>2, <3>4
  <2> QED
    BY <1>1, <1>2, <1>4, <2>4 DEF DataInv
<1>6. BytesInv'
  BY <1>1, <1>2 DEF BytesInv
<1>7. CleanInv'
  BY <1>1, <1>2 DEF CleanInv, Open, InBsl, Complete
<1> QED
  BY <1>3, <1>5, <1>6, <1>7 DEF SafetyInv

(* A proper packet that is written is there, and nothing else is disturbed.*)
LEMMA WriteIs ==
  ASSUME UpdateTypes, Open, Proper(pkt), \A a \in Addr : msp.flash[a] \in {"blank", "own"}, NEW m \in Effect("data") \cup {msp}
  PROVE  /\ \A a \in Addr : m.flash[a] \in {"blank", "own"} /\ (msp.flash[a] = "own" => m.flash[a] = "own")
         /\ m \in Effect("data") => \A a \in Covered : m.flash[a] = "own"
<1>1. Effect("data") = {[msp EXCEPT !.flash = Written(msp.flash, pkt)]}
  BY DEF Effect
<1>2. msp \in Chips
  BY DEF UpdateTypes, MachineTypes
<1>3. \A a \in Addr : Written(msp.flash, pkt)[a] = IF Covers(pkt, a) THEN "own" ELSE msp.flash[a]
  BY DEF Written, Proper
<1>4. CASE m = msp /\ m \notin Effect("data")
  BY <1>4
<1>5. CASE m \in Effect("data")
  <2>1. m.flash = Written(msp.flash, pkt)
    BY <1>1, <1>2, <1>5 DEF Chips
  <2> QED
    BY <1>3, <2>1 DEF Covered
<1> QED
  BY <1>4, <1>5

LEMMA SendStep ==
  ASSUME UpdateTypes, SafetyInv, DataSend
  PROVE  SafetyInv'
<1>1. PICK o \in Outcomes("data", 8) :
        /\ Happens(o)
        /\ IF o.ans = "ack" THEN tx' = "crc" /\ UNCHANGED <<status, error>>
           ELSE IF o.ans = "none" THEN NextPacket
           ELSE DataFails("resp")
        /\ lost' = IF o.ans = "none" THEN lost \cup {a \in Addr : Covers(pkt, a)} ELSE lost
  BY DEF DataSend
<1>2. tx = "send" /\ UNCHANGED <<st, file, pkt, mixed, image, bytes, busy>>
  BY DEF DataSend, DataStays
<1>3. ControlInv /\ DataInv /\ BytesInv /\ CleanInv /\ msp \in Chips
  BY DEF SafetyInv, UpdateTypes, MachineTypes
<1>4. st = "DataTx" /\ status = "progress" /\ busy /\ Open
  BY <1>2, <1>3 DEF ControlInv
<1>5. /\ o.msp \in Effect("data") \cup {msp}
      /\ \/ o.ok = TRUE /\ o.ans = Answer("data", 8) /\ o.msp \in Effect("data")
         \/ o.ok = FALSE /\ o.ans \in {"none", "junk"}
  BY OutcomeIs
<1>6. msp' = o.msp /\ clean' = (clean /\ o.ok)
  BY <1>1 DEF Happens
<1>7. Answer("data", 8) = "ack"
  BY <1>4 DEF Answer, BslAnswer, Open, InBsl
<1>8. /\ \/ o.ans = "ack" /\ o.msp \in Effect("data") /\ tx' = "crc" /\ UNCHANGED <<status, error, lost>>
         \/ /\ o.ans = "none" /\ o.ok = FALSE /\ tx' = (IF file.sent THEN "end" ELSE "parse") /\ UNCHANGED <<status, error>>
            /\ lost' = lost \cup Covered
         \/ o.ans = "junk" /\ o.ok = FALSE /\ tx' = "end" /\ status' = "failure" /\ error' = "resp" /\ UNCHANGED lost
  BY <1>1, <1>5, <1>7 DEF NextPacket, DataFails, Covered
<1>9. Open' /\ (msp.mode = "dead" => msp'.mode = "dead")
  <2>1. o.msp.mode = msp.mode /\ o.msp.unlocked = msp.unlocked
    BY <1>3, <1>5, EffectIs DEF Operations
  <2> QED
    BY <1>4, <1>6, <2>1 DEF Open, InBsl
<1>10. ControlInv'
  BY <1>2, <1>3, <1>4, <1>8, <1>9 DEF ControlInv
<1>11. DataInv'
  <2> SUFFICES ASSUME ~mixed PROVE DataInv'
    BY <1>2 DEF DataInv
  <2>1. Proper(pkt) /\ UpTo(file, Kept \cup Covered) /\ \A a \in Addr : msp.flash[a] \in {"blank", "own"}
    BY <1>2, <1>3, <1>4 DEF DataInv
  <2>2. /\ \A a \in Addr : msp'.flash[a] \in {"blank", "own"} /\ (msp.flash[a] = "own" => msp'.flash[a] = "own")
        /\ o.ans = "ack" => \A a \in Covered : msp'.flash[a] = "own"
    BY <1>4, <1>5, <1>6, <1>8, <2>1, WriteIs
  <2>3. Covered' = Covered /\ Proper(pkt)' /\ Covered \subseteq Addr
    BY <1>2, <2>1 DEF Covered, Covers, Proper, Line
  <2>4. Kept \subseteq Kept'
    BY <1>8, <2>2 DEF Kept
  <2>5. CASE o.ans = "ack"
    <3>1. UpTo(file, Kept' \cup Covered)
      BY <2>1, <2>4, UpToIs
    <3>2. UpTo(file, Kept \cup Covered)'
      BY <1>2, <2>3, <3>1 DEF UpTo, Within, AtMark, AfterLine, Done, Span
    <3>3. Covered' \subseteq {a \in Addr : msp'.flash[a] = "own"}
      BY <2>2, <2>3, <2>5
    <3> QED
      BY <1>2, <1>4, <1>8, <2>2, <2>3, <2>5, <3>2, <3>3 DEF DataInv
  <2>6. CASE o.ans = "none"
    <3>1. Kept \cup Covered \subseteq Kept'
      BY <1>8, <2>4, <2>6 DEF Kept
    <3>2. UpTo(file, Kept') /\ (file.sent => Addr \subseteq Kept')
      BY <2>1, <3>1, UpToIs
    <3>3. UpTo(file, Kept)'
      BY <1>2, <3>2 DEF UpTo, Within, AtMark, AfterLine, Done, Span
    <3> QED
      BY <1>2, <1>4, <1>8, <2>2, <2>6, <3>2, <3>3 DEF DataInv
  <2>7. CASE o.ans = "junk"
    BY <1>2, <1>4, <1>8, <2>2, <2>7 DEF DataInv
  <2> QED
    BY <1>8, <2>5, <2>6, <2>7
<1>12. BytesInv'
  BY <1>2, <1>3 DEF BytesInv
<1>13. CleanInv'
  <2> SUFFICES ASSUME image' = "whole", clean', ~mixed', msp'.mode # "dead"
               PROVE  lost' = {} /\ error' = "none"
    BY <1>2, <1>4 DEF CleanInv
  <2>1. lost = {} /\ error = "none" /\ o.ok # FALSE
    BY <1>2, <1>3, <1>4, <1>6, <1>9 DEF CleanInv
  <2> QED
    BY <1>8, <2>1
<1> QED
  BY <1>10, <1>11, <1>12, <1>13 DEF SafetyInv

LEMMA CrcStep ==
  ASSUME UpdateTypes, SafetyInv, DataCrc
  PROVE  SafetyInv'
<1>1. PICK o \in Outcomes("crc", 9) : Happens(o) /\ IF o.ans \in {"crcbad", "nak"} THEN DataFails("crc") ELSE NextPacket
  BY DEF DataCrc
<1>2. tx = "crc" /\ UNCHANGED <<st, file, pkt, lost, mixed, image, bytes, busy>>
  BY DEF DataCrc, DataStays
<1>3. ControlInv /\ DataInv /\ BytesInv /\ CleanInv /\ msp \in Chips
  BY DEF SafetyInv, UpdateTypes, MachineTypes
<1>4. st = "DataTx" /\ status = "progress" /\ busy /\ Open
  BY <1>2, <1>3 DEF ControlInv
<1>5. msp' = msp /\ clean' = (clean /\ o.ok) /\ (o.ok => o.ans = Answer("crc", 9))
  <2>1. \/ o.ok = TRUE /\ o.ans = Answer("crc", 9)
        \/ o.ok = FALSE
    BY OutcomeIs
  <2>2. o.msp = msp
    BY <1>3, OutcomeIs, EffectIs DEF Operations
  <2>3. msp' = msp /\ clean' = (clean /\ o.ok)
    BY <1>1, <2>2 DEF Happens
  <2> QED
    BY <2>1, <2>3
<1>6. \/ tx' = (IF file.sent THEN "end" ELSE "parse") /\ UNCHANGED <<status, error>>
      \/ tx' = "end" /\ status' = "failure" /\ error' = "crc" /\ o.ans \in {"crcbad", "nak"}
  BY <1>1 DEF NextPacket, DataFails
<1>7. ControlInv'
  BY <1>2, <1>3, <1>4, <1>5, <1>6 DEF ControlInv, Open, InBsl
<1>8. ~mixed => Proper(pkt) /\ Covered \subseteq {a \in Addr : msp.flash[a] = "own"} /\ UpTo(file, Kept)
  <2>1. ~mixed => Proper(pkt) /\ Covered \subseteq {a \in Addr : msp.flash[a] = "own"} /\ UpTo(file, Kept \cup Covered)
    BY <1>2, <1>3 DEF DataInv
  <2>2. ~mixed => Kept \cup Covered = Kept
    BY <2>1 DEF Kept
  <2> QED
    BY <2>1, <2>2
<1>9. DataInv'
  <2> SUFFICES ASSUME ~mixed PROVE DataInv'
    BY <1>2 DEF DataInv
  <2>1. UpTo(file, Kept) /\ (file.sent => Addr \subseteq Kept) /\ \A a \in Addr : msp.flash[a] \in {"blank", "own"}
    BY <1>3, <1>4, <1>8, UpToIs DEF DataInv
  <2>2. Kept' = Kept
    BY <1>2, <1>5 DEF Kept
  <2>3. UpTo(file, Kept)'
    BY <1>2, <2>1, <2>2 DEF UpTo, Within, AtMark, AfterLine, Done, Span
  <2> QED
    BY <1>2, <1>4, <1>5, <1>6, <2>1, <2>2, <2>3 DEF DataInv
<1>10. BytesInv'
  BY <1>2, <1>3 DEF BytesInv
<1>11. CleanInv'
  <2> SUFFICES ASSUME image' = "whole", clean', ~mixed', msp'.mode # "dead"
               PROVE  lost' = {} /\ error' = "none"
    BY <1>2, <1>4 DEF CleanInv
  <2>1. lost = {} /\ error = "none" /\ o.ans = Answer("crc", 9)
    BY <1>2, <1>3, <1>4, <1>5 DEF CleanInv
  <2>2. Matches(msp.flash, pkt)
    BY <1>2, <1>8 DEF Matches, Proper, Covered
  <2>3. Answer("crc", 9) = "crcok"
    BY <1>4, <2>2 DEF Answer, BslAnswer, Open, InBsl
  <2> QED
    BY <1>2, <1>6, <2>1, <2>3
<1> QED
  BY <1>7, <1>9, <1>10, <1>11 DEF SafetyInv

LEMMA DoneStep ==
  ASSUME UpdateTypes, SafetyInv, DataDone
  PROVE  SafetyInv'
<1>1. /\ tx = "end" /\ tx' = "none"
      /\ \/ status # "failure" /\ st' = "LoadPc" /\ UNCHANGED status
         \/ status = "failure" /\ st' = "Reboot" /\ status' = "progress"
         \/ status = "failure" /\ st' = "Idle" /\ UNCHANGED status
      /\ UNCHANGED <<error, pkt, msp, lost, clean, mixed, image, bytes, busy>>
  BY DEF DataDone, DataStays
<1>2. ControlInv /\ DataInv /\ BytesInv /\ CleanInv
  BY DEF SafetyInv
<1>3. st = "DataTx" /\ busy /\ Open /\ (status = "failure" => error # "none") /\ status \in {"progress", "failure"}
  BY <1>1, <1>2 DEF ControlInv
<1>4. Kept' = Kept /\ Open' /\ (~mixed /\ status # "failure" => Addr \subseteq Kept)
  BY <1>1, <1>2, <1>3 DEF Kept, Open, InBsl, DataInv
<1>5. ControlInv'
  BY <1>1, <1>3 DEF ControlInv
<1>6. DataInv'
  BY <1>1, <1>3, <1>4 DEF DataInv
<1>7. BytesInv'
  BY <1>1, <1>2, <1>3 DEF BytesInv
<1>8. CleanInv'
  BY <1>1, <1>2, <1>3, <1>4 DEF CleanInv
<1> QED
  BY <1>5, <1>6, <1>7, <1>8 DEF SafetyInv

-----------------------------------------------------------------------------
(* The beginning and the end of an update                                  *)

LEMMA StartStep ==
  ASSUME UpdateTypes, SafetyInv, Start
  PROVE  SafetyInv'
<1>1. ~busy /\ busy' /\ lost' = {} /\ clean' /\ ~mixed' /\ UNCHANGED <<bytes, msp, tx>>
  BY DEF Start, DataVars
<1>2. ControlInv /\ BytesInv
  BY DEF SafetyInv
<1>3. st = "Idle" /\ status \in {"success", "failure"} /\ tx = "none"
  BY <1>1, <1>2 DEF ControlInv
<1>4. st' = "ScBslSync" /\ status' = "progress" /\ error' = "none"
  BY <1>3 DEF Start
<1>5. bytes \in {8, 11}
  BY <1>2, <1>3 DEF BytesInv
<1>6. ControlInv' /\ DataInv' /\ BytesInv' /\ CleanInv'
  BY <1>1, <1>3, <1>4, <1>5 DEF ControlInv, DataInv, BytesInv, CleanInv
<1> QED
  BY <1>6 DEF SafetyInv

LEMMA FinishStep ==
  ASSUME UpdateTypes, SafetyInv, FinishUpdate
  PROVE  SafetyInv'
<1>1. /\ busy /\ status # "progress" /\ tx = "none" /\ ~busy' /\ error' = "none"
      /\ UNCHANGED <<st, status, bytes, lost, clean, mixed, image, msp, tx>>
  BY DEF FinishUpdate, DataVars
<1>2. ControlInv /\ BytesInv
  BY DEF SafetyInv
<1>3. st = "Idle"
  BY <1>1, <1>2 DEF ControlInv
<1>4. ControlInv' /\ DataInv' /\ BytesInv' /\ CleanInv'
  BY <1>1, <1>2, <1>3 DEF ControlInv, DataInv, BytesInv, CleanInv
<1> QED
  BY <1>4 DEF SafetyInv

(* An update that is refused disturbs nothing; nor does a query, or the    *)
(* update counts as mixed with it.                                         *)
LEMMA OtherStep ==
  ASSUME UpdateTypes, SafetyInv, StartRefused \/ Poll \/ QueryStep \/ UNCHANGED updateVars
  PROVE  SafetyInv'
<1>1. /\ UNCHANGED <<st, status, error, bytes, tx, pkt, msp, lost, clean, image, busy>>
      /\ (UNCHANGED <<file, mixed>> \/ mixed' = (mixed \/ tx # "none"))
  <2>1. CASE Poll
    BY <2>1 DEF Poll, fsm, DataVars
  <2>2. CASE QueryStep
    BY <2>2 DEF QueryStep, QueryBegin, QueryParse, QueryStays, fsm
  <2>3. CASE UNCHANGED updateVars
    BY <2>3 DEF updateVars, fsm
  <2>4. CASE StartRefused
    BY <2>4 DEF StartRefused, fsm, DataVars
  <2> QED
    BY <2>1, <2>2, <2>3, <2>4
<1>2. ControlInv /\ DataInv /\ BytesInv /\ CleanInv
  BY DEF SafetyInv
<1>3. Kept' = Kept /\ Covered' = Covered /\ (~mixed' => ~mixed)
  <2>1. Kept' = Kept /\ Covered' = Covered
    BY <1>1 DEF Kept, Covered, Covers
  <2>2. ~mixed' => ~mixed
    BY <1>1
  <2> QED
    BY <2>1, <2>2
<1>4. ControlInv' /\ BytesInv' /\ CleanInv'
  BY <1>1, <1>2, <1>3 DEF ControlInv, BytesInv, CleanInv, Open, InBsl, Complete
<1>5. DataInv'
  <2>1. CASE UNCHANGED <<file, mixed>>
    <3>1. UpTo(file, Kept)' = UpTo(file, Kept) /\ UpTo(file, Kept \cup Covered)' = UpTo(file, Kept \cup Covered)
      BY <1>3, <2>1 DEF UpTo, Within, AtMark, AfterLine, Done, Span
    <3>2. Proper(pkt)' = Proper(pkt)
      BY <1>1 DEF Proper, Covers, Line
    <3> QED
      BY <1>1, <1>2, <1>3, <2>1, <3>1, <3>2 DEF DataInv
  <2>2. CASE mixed' = (mixed \/ tx # "none")
    BY <1>1, <1>2, <1>3, <2>2 DEF DataInv
  <2> QED
    BY <1>1, <2>1, <2>2
<1> QED
  BY <1>2, <1>4, <1>5 DEF SafetyInv

LEMMA UpdateBegins ==
  ASSUME UpdateInit
  PROVE  UpdateTypes /\ SafetyInv
<1>1. MachineTypes
  <2>1. retry \in [Counted -> 0..(MaxRetry - 1)] /\ mode \in 0..(MaxMode - 1)
    BY ScUpdateAssumption DEF UpdateInit
  <2>2. msp \in Chips
    <3>1. [a \in Addr |-> "old"] \in [Addr -> {"old", "blank", "own", "wrong"}]
      OBVIOUS
    <3>2. [a \in Addr |-> "blank"] \in [Addr -> {"old", "blank", "own", "wrong"}]
      OBVIOUS
    <3>3. \/ msp = [mode |-> "sc", unlocked |-> FALSE, flash |-> [a \in Addr |-> "old"]]
          \/ msp = [mode |-> "bsl", unlocked |-> FALSE, flash |-> [a \in Addr |-> "blank"]]
      BY DEF UpdateInit
    <3> DEFINE old == [a \in Addr |-> "old"]
               blank == [a \in Addr |-> "blank"]
    <3> HIDE DEF old, blank
    <3>4. ASSUME NEW f \in [Addr -> {"old", "blank", "own", "wrong"}], NEW x \in {"sc", "bsl"}
          PROVE  [mode |-> x, unlocked |-> FALSE, flash |-> f] \in Chips
      BY DEF Chips
    <3>5. old \in [Addr -> {"old", "blank", "own", "wrong"}] /\ blank \in [Addr -> {"old", "blank", "own", "wrong"}]
      BY <3>1, <3>2 DEF old, blank
    <3>6. msp = [mode |-> "sc", unlocked |-> FALSE, flash |-> old] \/ msp = [mode |-> "bsl", unlocked |-> FALSE, flash |-> blank]
      BY <3>3 DEF old, blank
    <3> QED
      BY <3>4, <3>5, <3>6
  <2> QED
    BY <2>1, <2>2 DEF UpdateInit, MachineTypes, States, Errors
<1>2. OtherTypes
  <2>1. QueryLen \in Nat /\ QueryLen <= Len(File) /\ MaxUpdates \in Nat /\ MaxQueries \in Nat /\ PktLines \in Nat
    BY ScUpdateAssumption, QueryAssumption
  <2>2. Base[Len(Sections)] \in Int
    <3>1. Count \in 1..Count /\ Count = Len(Sections)
      BY Image DEF Count
    <3>2. Base[Count] \in Nat \ {0}
      BY <3>1, Image
    <3> QED
      BY <3>1, <3>2
  <2>3. file \in Files /\ file.ptr <= Len(File)
    <3>1. /\ Len(File) \in Nat
          /\ \A p \in Nat, a \in Int : [ptr |-> p, flag |-> FALSE, addr |-> a, prev |-> 0, sent |-> FALSE] \in Files
      BY AtIs DEF Files
    <3>2. PICK p \in {0, QueryLen}, a \in {0, Base[Len(Sections)]} :
            file = [ptr |-> p, flag |-> FALSE, addr |-> a, prev |-> 0, sent |-> FALSE]
      BY DEF UpdateInit
    <3>3. p \in Nat /\ a \in Int /\ p <= Len(File)
      BY <2>1, <2>2, <3>1
    <3> QED
      BY <3>1, <3>2, <3>3
  <2>4. pkt.addr \in Int /\ pkt.lines \in Seq(Int) /\ Len(pkt.lines) <= PktLines
    BY <2>1 DEF UpdateInit, NoPkt
  <2>5. tx = "none" /\ query = "idle" /\ lost \subseteq Addr /\ {active, clean, mixed, beyond, busy} \subseteq BOOLEAN
    BY DEF UpdateInit
  <2>6. started \in 0..MaxUpdates /\ asked \in 0..MaxQueries
    BY <2>1 DEF UpdateInit
  <2> QED
    BY <2>3, <2>4, <2>5, <2>6 DEF OtherTypes
<1>3. ControlInv /\ DataInv /\ BytesInv /\ CleanInv
  BY DEF UpdateInit, ControlInv, DataInv, BytesInv, CleanInv
<1> QED
  BY <1>1, <1>2, <1>3 DEF UpdateTypes, SafetyInv

LEMMA UpdateSteps ==
  ASSUME UpdateTypes, SafetyInv, [UpdateNext]_updateVars
  PROVE  UpdateTypes' /\ SafetyInv'
<1>1. CASE busy /\ status = "progress" /\ tx = "none" /\ Handlers
  <2>1. InHandler /\ Handlers
    BY <1>1 DEF InHandler
  <2> QED
    BY <2>1, HandlerTypes, SyncStep, EnableStep, SyncVmcStep, UnlockStep, MassEraseStep, LoadPcStep, RebootStep DEF Handlers
<1>2. CASE DataStep
  BY <1>2, DataTypes, BeginStep, SymbolStep, ParseStep, SendStep, CrcStep, DoneStep DEF DataStep
<1>3. CASE Start \/ StartRefused \/ FinishUpdate \/ Poll \/ QueryStep \/ UNCHANGED updateVars
  BY <1>3, OtherStepTypes, StartStep, FinishStep, OtherStep
<1> QED
  BY <1>1, <1>2, <1>3 DEF UpdateNext, TaskStep

LEMMA UpdateInvariants == UpdateSpec => [](UpdateTypes /\ SafetyInv)
<1>1. UpdateInit => UpdateTypes /\ SafetyInv
  BY UpdateBegins
<1>2. (UpdateTypes /\ SafetyInv) /\ [UpdateNext]_updateVars => (UpdateTypes /\ SafetyInv)'
  BY UpdateSteps
<1> QED
  BY <1>1, <1>2, PTL DEF UpdateSpec

(* Every variable of the update keeps its type, a packet is never more     *)
(* than full and the pointer stays inside the image, whatever is parsed    *)
(* from wherever a query leaves it (parse_fpt_sc).                         *)
THEOREM UpdateTypeCorrect == UpdateSpec => []UpdateTypeOK
<1>1. UpdateTypes => UpdateTypeOK
  BY AtIs DEF UpdateTypes, MachineTypes, OtherTypes, Files, Chips, UpdateTypeOK
<1> QED
  BY <1>1, UpdateInvariants, PTL

(* For an image of any sections, packets of any size and any number of     *)
(* retries: an update that reports success has put every line of the image *)
(* at its address, except those of packets whose transaction failed        *)
(* (update_scfw, send_data_to_bsl, parse_fpt_sc).                          *)
THEOREM SuccessIsTrue == UpdateSpec => []SuccessMissesOnlyLost
<1>1. UpdateTypes /\ SafetyInv => SuccessMissesOnlyLost
  <2> SUFFICES ASSUME SafetyInv, Ending, error = "none", ~mixed
               PROVE  \A a \in Addr : msp.flash[a] = "own" \/ a \in lost
    BY DEF SuccessMissesOnlyLost
  <2>1. st = "Idle" /\ busy
    BY DEF Ending, SafetyInv, ControlInv
  <2>2. Addr \subseteq Kept
    BY <2>1 DEF SafetyInv, DataInv
  <2> QED
    BY <2>2 DEF Kept
<1> QED
  BY <1>1, UpdateInvariants, PTL

(* An update of a whole image during which the wire works succeeds,        *)
(* whatever the updates before it left in the static counters of the       *)
(* handlers and in the SC, unless that answers nothing at all (sync_sc_bsl *)
(* to loadpc_bsl).                                                         *)
THEOREM CleanUpdates == UpdateSpec => []CleanUpdateSucceeds
<1>1. UpdateTypes /\ SafetyInv => CleanUpdateSucceeds
  <2> SUFFICES ASSUME SafetyInv, Ending, image = "whole", clean, ~mixed, msp.mode # "dead"
               PROVE  error = "none" /\ Complete /\ msp.mode = "sc"
    BY DEF CleanUpdateSucceeds
  <2>1. st = "Idle" /\ busy
    BY DEF Ending, SafetyInv, ControlInv
  <2> QED
    BY <2>1 DEF SafetyInv, CleanInv
<1> QED
  BY <1>1, UpdateInvariants, PTL

=============================================================================
