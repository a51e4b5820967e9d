--------------------------- MODULE XgqRingProofs ---------------------------
(***************************************************************************)
(* Theorems about one ring of an XGQ, for every number of slots that       *)
(* divides the number of pointer values and whichever peer allocates it:   *)
(* the copies of the pointers stay in order while they wrap, and the ring  *)
(* implements the bounded queue of XgqFifo.                                *)
(***************************************************************************)
EXTENDS XgqRing, SequenceTheorems, TLAPS

-----------------------------------------------------------------------------
(* The arithmetic of pointers that wrap                                    *)

(* The remainder of a number less than a turn away.                        *)
LEMMA ModNear ==
  ASSUME NEW m \in Nat \ {0}, NEW x \in Int, -m <= x, x < 2 * m
  PROVE  (x % m) = IF x < 0 THEN x + m ELSE IF x < m THEN x ELSE x - m
<1> DEFINE q == x \div m
           r == x % m
<1>1. q \in Int /\ r \in 0..m-1 /\ x = m * q + r
  OBVIOUS
<1> HIDE DEF q, r
<1>2. CASE x < 0
  <2>1. q = -1
    <3>1. ~(q >= 0)
      <4> SUFFICES ASSUME q >= 0 PROVE FALSE
        OBVIOUS
      <4>1. m * q >= 0
        BY <1>1
      <4> QED
        BY <1>1, <1>2, <4>1
    <3>2. ~(q <= -2)
      <4> SUFFICES ASSUME q <= -2 PROVE FALSE
        OBVIOUS
      <4>1. m * q <= m * (-2)
        BY <1>1
      <4> QED
        BY <1>1, <1>2, <4>1
    <3> QED
      BY <1>1, <3>1, <3>2
  <2>2. m * q = -m
    BY <2>1
  <2> QED
    BY <1>1, <1>2, <2>2 DEF r
<1>3. CASE x >= 0 /\ x < m
  <2>1. q = 0
    <3>1. ~(q >= 1)
      <4> SUFFICES ASSUME q >= 1 PROVE FALSE
        OBVIOUS
      <4>1. m * q >= m * 1
        BY <1>1
      <4> QED
        BY <1>1, <1>3, <4>1
    <3>2. ~(q <= -1)
      <4> SUFFICES ASSUME q <= -1 PROVE FALSE
        OBVIOUS
      <4>1. m * q <= m * (-1)
        BY <1>1
      <4> QED
        BY <1>1, <1>3, <4>1
    <3> QED
      BY <1>1, <3>1, <3>2
  <2>2. m * q = 0
    BY <2>1
  <2> QED
    BY <1>1, <1>3, <2>2 DEF r
<1>4. CASE x >= m
  <2>1. q = 1
    <3>1. ~(q >= 2)
      <4> SUFFICES ASSUME q >= 2 PROVE FALSE
        OBVIOUS
      <4>1. m * q >= m * 2
        BY <1>1
      <4> QED
        BY <1>1, <1>4, <4>1
    <3>2. ~(q <= 0)
      <4> SUFFICES ASSUME q <= 0 PROVE FALSE
        OBVIOUS
      <4>1. m * q <= m * 0
        BY <1>1
      <4> QED
        BY <1>1, <1>4, <4>1
    <3> QED
      BY <1>1, <3>1, <3>2
  <2>2. m * q = m
    BY <2>1
  <2> QED
    BY <1>1, <1>4, <2>2 DEF r
<1> QED
  BY <1>2, <1>3, <1>4

(* The unsigned difference of two pointers.                                *)
LEMMA DistIs ==
  ASSUME NEW a \in Pointers, NEW b \in Pointers
  PROVE  /\ Dist(a, b) = IF a <= b THEN b - a ELSE b - a + M
         /\ Dist(a, b) \in 0..M-1
         /\ Plus1(a) = IF a = M - 1 THEN 0 ELSE a + 1
         /\ Plus1(a) \in Pointers
<1>1. M \in Nat \ {0} /\ a \in 0..M-1 /\ b \in 0..M-1
  BY RingAssumption DEF Pointers
<1>2. ((b - a) % M) = IF b - a < 0 THEN b - a + M ELSE b - a
  <2> DEFINE x == b - a
  <2>1. x \in Int /\ -M <= x /\ x < M /\ x < 2 * M
    BY <1>1
  <2> HIDE DEF x
  <2>2. (x % M) = IF x < 0 THEN x + M ELSE IF x < M THEN x ELSE x - M
    BY <1>1, <2>1, ModNear
  <2>3. (x % M) = IF x < 0 THEN x + M ELSE x
    BY <2>1, <2>2
  <2> QED
    BY <2>3 DEF x
<1>3. ((a + 1) % M) = IF a + 1 < M THEN a + 1 ELSE a + 1 - M
  <2>0. PICK x \in Int : x = a + 1
    BY <1>1
  <2>1. -M <= x /\ 0 <= x /\ x < 2 * M
    BY <1>1, <2>0
  <2>2. (x % M) = IF x < 0 THEN x + M ELSE IF x < M THEN x ELSE x - M
    BY <1>1, <2>1, ModNear
  <2>3. (x % M) = IF x < M THEN x ELSE x - M
    BY <2>1, <2>2
  <2> QED
    BY <1>1, <2>0, <2>3
<1> QED
  BY <1>1, <1>2, <1>3 DEF Dist, Plus1, Pointers

(* Such a difference is a number.                                          *)
LEMMA DistNat == \A a, b \in Pointers : Dist(a, b) \in Nat
BY DistIs, RingAssumption

(* Differences add up as long as they stay within a turn.                  *)
LEMMA DistAdds ==
  ASSUME NEW a \in Pointers, NEW b \in Pointers, NEW c \in Pointers,
         Dist(a, b) + Dist(b, c) < M
  PROVE  Dist(a, c) = Dist(a, b) + Dist(b, c)
<1>1. /\ Dist(a, b) = IF a <= b THEN b - a ELSE b - a + M
      /\ Dist(b, c) = IF b <= c THEN c - b ELSE c - b + M
      /\ Dist(a, c) = IF a <= c THEN c - a ELSE c - a + M
  BY DistIs
<1>2. M \in Nat \ {0} /\ a \in 0..M-1 /\ b \in 0..M-1 /\ c \in 0..M-1
  BY RingAssumption DEF Pointers
<1> QED
  BY <1>1, <1>2

(* One pointer moves on by one.                                            *)
LEMMA DistPlus ==
  ASSUME NEW a \in Pointers, NEW b \in Pointers
  PROVE  /\ Dist(a, b) < M - 1 => Dist(a, Plus1(b)) = Dist(a, b) + 1
         /\ a # b => Dist(Plus1(a), b) = Dist(a, b) - 1
         /\ Dist(a, b) = 0 <=> a = b
<1>1. /\ Dist(a, b) = IF a <= b THEN b - a ELSE b - a + M
      /\ Plus1(a) = IF a = M - 1 THEN 0 ELSE a + 1
      /\ Plus1(b) = IF b = M - 1 THEN 0 ELSE b + 1
      /\ Plus1(a) \in Pointers /\ Plus1(b) \in Pointers
  BY DistIs
<1>2. /\ Dist(a, Plus1(b)) = IF a <= Plus1(b) THEN Plus1(b) - a ELSE Plus1(b) - a + M
      /\ Dist(Plus1(a), b) = IF Plus1(a) <= b THEN b - Plus1(a) ELSE b - Plus1(a) + M
  BY <1>1, DistIs
<1>3. M \in Nat \ {0} /\ a \in 0..M-1 /\ b \in 0..M-1
  BY RingAssumption DEF Pointers
<1> QED
  BY <1>1, <1>2, <1>3

-----------------------------------------------------------------------------
(* Type correctness                                                        *)

(* A cleared ring is well typed.                                           *)
LEMMA TypeInit == Init => TypeOK
BY RingAssumption DEF Init, TypeOK, Pointers, Peers

(* The pointers a peer reads again are pointers.                           *)
LEMMA RefreshType ==
  ASSUME TypeOK
  PROVE  /\ ForProduce(own["producer"]) \in [prod : Pointers, cons : Pointers]
         /\ ForConsume(own["consumer"]) \in [prod : Pointers, cons : Pointers]
BY DEF ForProduce, ForConsume, TypeOK, Peers

(* Every step of a peer and of the allocation keeps the types.             *)
LEMMA TypeStep == TypeOK /\ [Next]_vars => TypeOK'
<1> SUFFICES ASSUME TypeOK, [Next]_vars PROVE TypeOK'
  OBVIOUS
<1> USE RingAssumption
<1>1. ASSUME NEW x \in Items, XgqProduce(x) PROVE TypeOK'
  <2> DEFINE r == ForProduce(own["producer"])
  <2>1. r \in [prod : Pointers, cons : Pointers]
    BY RefreshType
  <2> HIDE DEF r
  <2>2. Plus1(r.prod) \in Pointers
    BY <2>1, DistIs
  <2>3. own' \in [Peers -> [prod : Pointers, cons : Pointers]]
    <3>1. [r EXCEPT !.prod = Plus1(@)] \in [prod : Pointers, cons : Pointers]
      BY <2>1, <2>2
    <3>2. \/ own' = [own EXCEPT !["producer"] = r]
          \/ own' = [own EXCEPT !["producer"] = [r EXCEPT !.prod = Plus1(@)]]
      BY <1>1 DEF XgqProduce, r
    <3> QED
      BY <2>1, <3>1, <3>2 DEF TypeOK
  <2>4. slot' \in [0..N-1 -> Items \cup {NoItem}]
    BY <1>1 DEF XgqProduce, TypeOK
  <2>5. UNCHANGED <<allocator, reg, mem, magic, attached>>
    BY <1>1 DEF XgqProduce
  <2> QED
    BY <2>3, <2>4, <2>5 DEF TypeOK
<1>2. CASE XgqConsume
  <2> DEFINE r == ForConsume(own["consumer"])
  <2>1. r \in [prod : Pointers, cons : Pointers]
    BY RefreshType
  <2> HIDE DEF r
  <2>2. Plus1(r.cons) \in Pointers
    BY <2>1, DistIs
  <2>3. [r EXCEPT !.cons = Plus1(@)] \in [prod : Pointers, cons : Pointers]
    BY <2>1, <2>2
  <2>4. \/ own' = [own EXCEPT !["consumer"] = r]
        \/ own' = [own EXCEPT !["consumer"] = [r EXCEPT !.cons = Plus1(@)]]
    BY <1>2 DEF XgqConsume, r
  <2>5. UNCHANGED <<allocator, reg, mem, magic, attached, slot>>
    BY <1>2 DEF XgqConsume
  <2> QED
    BY <2>1, <2>3, <2>4, <2>5 DEF TypeOK
<1>3. CASE XgqNotifyPeerProduced
  BY <1>3 DEF XgqNotifyPeerProduced, TypeOK, Peers
<1>4. CASE XgqNotifyPeerConsumed
  BY <1>4 DEF XgqNotifyPeerConsumed, TypeOK, Peers
<1>5. CASE AllocClear
  <2>1. 0 \in Pointers
    BY DEF Pointers
  <2>2. own' \in [Peers -> [prod : Pointers, cons : Pointers]]
    BY <1>5, <2>1 DEF AllocClear, TypeOK
  <2> QED
    BY <1>5, <2>1, <2>2 DEF AllocClear, TypeOK
<1>6. CASE AllocSoftReset
  BY <1>6 DEF AllocSoftReset, TypeOK
<1>7. CASE XgqAttach
  BY <1>7 DEF XgqAttach, TypeOK
<1>8. CASE UNCHANGED vars
  BY <1>8 DEF vars, TypeOK
<1> QED
  BY <1>1, <1>2, <1>3, <1>4, <1>5, <1>6, <1>7, <1>8 DEF Next

-----------------------------------------------------------------------------
(* The order of the pointers                                               *)

(* Pointers in order around the circle, no further apart than the ring has *)
(* slots: the consumer pointer the producer knows, the one in memory, the  *)
(* one of the consumer, the producer pointer the consumer knows, the       *)
(* register, the pointer of the producer.                                  *)
InOrder(a, m, c, d, r, p) ==
  /\ Dist(a, m) + Dist(m, c) + Dist(c, d) + Dist(d, r) + Dist(r, p) = Dist(a, p)
  /\ Dist(a, p) <= N

(* The distances of pointers in order.                                     *)
LEMMA OrderDist ==
  ASSUME NEW a \in Pointers, NEW m \in Pointers, NEW c \in Pointers,
         NEW d \in Pointers, NEW r \in Pointers, NEW p \in Pointers,
         InOrder(a, m, c, d, r, p)
  PROVE  /\ Dist(a, p) = Dist(a, m) + Dist(m, p)
         /\ Dist(m, p) = Dist(m, r) + Dist(r, p)
         /\ Dist(m, r) = Dist(m, c) + Dist(c, r)
         /\ Dist(c, r) = Dist(c, d) + Dist(d, r)
         /\ Dist(m, p) <= N
<1> USE DEF InOrder
<1>1. /\ Dist(a, m) \in Nat /\ Dist(m, c) \in Nat /\ Dist(c, d) \in Nat
      /\ Dist(d, r) \in Nat /\ Dist(r, p) \in Nat /\ Dist(a, p) \in Nat
  BY DistNat
<1>2. N \in Nat /\ M \in Nat /\ N < M
  BY RingAssumption
<1>3. Dist(c, r) = Dist(c, d) + Dist(d, r)
  BY <1>1, <1>2, DistAdds
<1>4. Dist(m, r) = Dist(m, c) + Dist(c, r)
  BY <1>1, <1>2, <1>3, DistAdds
<1>5. Dist(m, p) = Dist(m, r) + Dist(r, p)
  BY <1>1, <1>2, <1>3, <1>4, DistAdds
<1>6. Dist(a, p) = Dist(a, m) + Dist(m, p)
  BY <1>1, <1>3, <1>4, <1>5
<1>7. Dist(m, p) <= N
  <2>1. Dist(m, p) \in Nat /\ Dist(a, p) <= N
    BY DistNat
  <2> QED
    BY <1>1, <1>2, <1>6, <2>1
<1> QED
  BY <1>3, <1>4, <1>5, <1>6, <1>7

(* A peer that reads a pointer again, publishes or gives back keeps the    *)
(* order; a producer moves on when the ring is not full, a consumer when   *)
(* it is not empty.                                                        *)
LEMMA OrderMoves ==
  ASSUME NEW a \in Pointers, NEW m \in Pointers, NEW c \in Pointers,
         NEW d \in Pointers, NEW r \in Pointers, NEW p \in Pointers,
         InOrder(a, m, c, d, r, p)
  PROVE  /\ InOrder(m, m, c, d, r, p)
         /\ InOrder(a, m, c, r, r, p)
         /\ InOrder(a, m, c, d, p, p)
         /\ InOrder(a, c, c, d, r, p)
         /\ Dist(a, p) < N => InOrder(a, m, c, d, r, Plus1(p))
         /\ c # d => InOrder(a, m, Plus1(c), d, r, p)
<1>1. /\ Dist(a, m) \in Nat /\ Dist(m, c) \in Nat /\ Dist(c, d) \in Nat
      /\ Dist(d, r) \in Nat /\ Dist(r, p) \in Nat /\ Dist(a, p) \in Nat
  BY DistNat
<1>2. N \in Nat /\ M \in Nat /\ N < M - 1
  BY RingAssumption
<1>3. /\ Dist(a, p) = Dist(a, m) + Dist(m, p)
      /\ Dist(m, p) = Dist(m, r) + Dist(r, p)
      /\ Dist(m, r) = Dist(m, c) + Dist(c, r)
      /\ Dist(c, r) = Dist(c, d) + Dist(d, r)
      /\ Dist(m, p) <= N
  BY OrderDist
<1>4. Dist(m, m) = 0 /\ Dist(c, c) = 0 /\ Dist(r, r) = 0 /\ Dist(p, p) = 0
  BY DistPlus
<1>5. Dist(a, c) = Dist(a, m) + Dist(m, c)
  BY <1>1, <1>2, <1>3, DistAdds DEF InOrder
<1>6. Dist(d, p) = Dist(d, r) + Dist(r, p)
  BY <1>1, <1>2, <1>3, DistAdds DEF InOrder
<1>7. Dist(a, p) < N => Dist(a, Plus1(p)) = Dist(a, p) + 1 /\ Dist(r, Plus1(p)) = Dist(r, p) + 1
  <2>1. Dist(a, p) < N => Dist(a, p) < M - 1 /\ Dist(r, p) < M - 1
    BY <1>1, <1>2 DEF InOrder
  <2> QED
    BY <2>1, DistPlus
<1>8. c # d => Dist(m, Plus1(c)) = Dist(m, c) + 1 /\ Dist(Plus1(c), d) = Dist(c, d) - 1
  <2>1. Dist(m, c) < M - 1
    BY <1>1, <1>2 DEF InOrder
  <2> QED
    BY <2>1, DistPlus
<1> QED
  BY <1>1, <1>2, <1>3, <1>4, <1>5, <1>6, <1>7, <1>8 DEF InOrder

(* The pointers a peer goes on from, also one that has yet to attach.      *)
Ends(p) == IF Up(p) THEN own[p] ELSE [prod |-> reg, cons |-> mem]

(* The order of the pointers, also before the other peer has attached.     *)
OrderInv ==
  magic => LET p == Ends("producer") c == Ends("consumer")
           IN InOrder(p.cons, mem, c.cons, c.prod, reg, p.prod)

(* The pointers a peer goes on from are pointers.                          *)
LEMMA EndsType ==
  ASSUME TypeOK
  PROVE  /\ Ends("producer").prod \in Pointers /\ Ends("producer").cons \in Pointers
         /\ Ends("consumer").prod \in Pointers /\ Ends("consumer").cons \in Pointers
         /\ reg \in Pointers /\ mem \in Pointers
BY DEF Ends, TypeOK, Peers

-----------------------------------------------------------------------------
(* The slots                                                               *)

(* The slot of the k-th entry from a pointer on.                           *)
At(ptr, k) == SlotOf((ptr + k - 1) % M)

(* Two numbers with the same remainder are a multiple apart.               *)
LEMMA ModSame ==
  ASSUME NEW x \in Int, NEW y \in Int, NEW n \in Nat \ {0}, (x % n) = (y % n)
  PROVE  \E t \in Int : x - y = n * t
<1>1. (x \div n) \in Int /\ x = n * (x \div n) + (x % n)
  OBVIOUS
<1>2. (y \div n) \in Int /\ y = n * (y \div n) + (y % n)
  OBVIOUS
<1>3. (x % n) \in Int /\ (y % n) \in Int
  OBVIOUS
<1>4. PICK u \in Int, v \in Int, w \in Int : x = n * u + w /\ y = n * v + w
  BY <1>1, <1>2, <1>3
<1>5. n * u - n * v = n * (u - v)
  BY <1>4
<1>6. x - y = n * (u - v) /\ u - v \in Int
  BY <1>4, <1>5
<1> QED
  BY <1>6

(* A multiple of n that is less than n away from 0 is 0.                   *)
LEMMA SmallMultiple ==
  ASSUME NEW n \in Nat \ {0}, NEW t \in Int, -n < n * t, n * t < n
  PROVE  n * t = 0
<1>1. ~(t >= 1)
  <2> SUFFICES ASSUME t >= 1 PROVE FALSE
    OBVIOUS
  <2>1. n * t >= n * 1
    OBVIOUS
  <2> QED
    BY <2>1
<1>2. ~(t <= -1)
  <2> SUFFICES ASSUME t <= -1 PROVE FALSE
    OBVIOUS
  <2>1. n * t <= n * (-1)
    OBVIOUS
  <2> QED
    BY <2>1
<1>3. t = 0
  BY <1>1, <1>2
<1> QED
  BY <1>3

(* The pointer of an entry, without the wrap.                              *)
LEMMA PointerOf ==
  ASSUME NEW a \in Pointers, NEW k \in 1..N
  PROVE  /\ (a + k - 1) % M = IF a + k - 1 < M THEN a + k - 1 ELSE a + k - 1 - M
         /\ (a + k - 1) % M \in Pointers
         /\ At(a, k) \in 0..N-1
<1>1. M \in Nat \ {0} /\ N \in Nat \ {0} /\ a \in 0..M-1 /\ k \in Nat /\ k >= 1 /\ k <= M
  BY RingAssumption DEF Pointers
<1>2. PICK x \in Int : x = a + k - 1
  BY <1>1
<1>3. -M <= x /\ 0 <= x /\ x < 2 * M
  BY <1>1, <1>2
<1>4. (x % M) = IF x < 0 THEN x + M ELSE IF x < M THEN x ELSE x - M
  BY <1>1, <1>3, ModNear
<1>5. (x % M) = IF x < M THEN x ELSE x - M
  BY <1>1, <1>3, <1>4
<1>6. (x % M) \in 0..M-1
  BY <1>1, <1>2, <1>3, <1>5
<1>7. PICK y \in 0..M-1 : y = (x % M)
  BY <1>6
<1>8. (y % N) \in 0..N-1
  BY <1>1
<1>9. At(a, k) = (y % N)
  BY <1>2, <1>7 DEF At, SlotOf
<1> QED
  BY <1>1, <1>2, <1>5, <1>6, <1>8, <1>9 DEF Pointers

(* Entries less than a ring apart have slots of their own, also when the   *)
(* pointer wraps between them: N divides M.                                *)
LEMMA SlotsDiffer ==
  ASSUME NEW a \in Pointers, NEW j \in 1..N, NEW k \in 1..N, At(a, j) = At(a, k)
  PROVE  j = k
<1>1. M \in Nat \ {0} /\ N \in Nat \ {0} /\ a \in Int /\ j \in Int /\ k \in Int
  BY RingAssumption DEF Pointers
<1> DEFINE x == (a + j - 1) % M
           y == (a + k - 1) % M
<1>2. /\ x = IF a + j - 1 < M THEN a + j - 1 ELSE a + j - 1 - M
      /\ y = IF a + k - 1 < M THEN a + k - 1 ELSE a + k - 1 - M
  BY PointerOf
<1>3. (x % N) = (y % N)
  BY DEF At, SlotOf
<1> HIDE DEF x, y
<1>4. x \in Int /\ y \in Int
  BY <1>1, <1>2
<1>5. PICK t \in Int : x - y = N * t
  BY <1>1, <1>3, <1>4, ModSame
<1>6. PICK q \in Int : M = N * q
  <2>1. (M % N) = 0
    BY RingAssumption
  <2>2. (M \div N) \in Int /\ M = N * (M \div N) + (M % N)
    BY <1>1
  <2> QED
    BY <1>1, <2>1, <2>2
<1>7. \/ x - y = j - k
      \/ x - y = j - k - M
      \/ x - y = j - k + M
  BY <1>1, <1>2
<1>8. \E s \in Int : j - k = N * s
  <2>1. N * (t + q) = N * t + N * q /\ N * (t - q) = N * t - N * q
    BY <1>1, <1>5, <1>6
  <2>2. j - k = N * t \/ j - k = N * (t + q) \/ j - k = N * (t - q)
    <3>1. N * t \in Int
      BY <1>1, <1>5
    <3> QED
      BY <1>1, <1>4, <1>5, <1>6, <1>7, <2>1, <3>1
  <2> QED
    BY <1>5, <1>6, <2>2
<1>9. PICK s \in Int : j - k = N * s
  BY <1>8
<1>10. N * s = 0
  BY <1>1, <1>9, SmallMultiple
<1> QED
  BY <1>1, <1>9, <1>10

(* The entries from a pointer further on are those that follow.            *)
LEMMA EntryShift ==
  ASSUME NEW a \in Pointers, NEW b \in Pointers, NEW k \in Nat, k >= 1, Dist(a, b) + k <= N
  PROVE  At(b, k) = At(a, Dist(a, b) + k)
<1>1. PICK d \in Nat : d = Dist(a, b)
  BY DistNat
<1>2. d = IF a <= b THEN b - a ELSE b - a + M
  BY <1>1, DistIs
<1>3. M \in Nat \ {0} /\ N \in Nat /\ a \in 0..M-1 /\ b \in 0..M-1 /\ N < M
  BY RingAssumption DEF Pointers
<1>4. k \in 1..N /\ d + k \in 1..N
  BY <1>1, <1>3
<1>5. (b + k - 1) % M = IF b + k - 1 < M THEN b + k - 1 ELSE b + k - 1 - M
  BY <1>4, PointerOf
<1>6. (a + (d + k) - 1) % M = IF a + (d + k) - 1 < M THEN a + (d + k) - 1 ELSE a + (d + k) - 1 - M
  BY <1>4, PointerOf
<1>7. PICK u \in Int, v \in Int : u = (b + k - 1) % M /\ v = (a + (d + k) - 1) % M
  <2>1. (b + k - 1) % M \in Pointers /\ (a + (d + k) - 1) % M \in Pointers
    BY <1>4, PointerOf
  <2>2. Pointers \subseteq Int
    BY <1>3 DEF Pointers
  <2> QED
    BY <2>1, <2>2
<1>8. u = v
  BY <1>2, <1>3, <1>4, <1>5, <1>6, <1>7
<1> QED
  BY <1>1, <1>7, <1>8 DEF At

(* A pointer is where the entries before it end.                           *)
LEMMA EntryAtEnd ==
  ASSUME NEW a \in Pointers, NEW b \in Pointers, Dist(a, b) < N
  PROVE  SlotOf(b) = At(a, Dist(a, b) + 1)
<1>1. Dist(a, b) \in Nat /\ N \in Nat
  BY DistNat, RingAssumption
<1>2. At(b, 1) = At(a, Dist(a, b) + 1)
  BY <1>1, EntryShift
<1>3. 1 \in 1..N /\ b \in 0..M-1 /\ M \in Nat
  BY RingAssumption DEF Pointers
<1>4. (b + 1 - 1) % M = b
  <2>1. (b + 1 - 1) % M = IF b + 1 - 1 < M THEN b + 1 - 1 ELSE b + 1 - 1 - M
    BY <1>3, PointerOf
  <2> QED
    BY <1>3, <2>1
<1> QED
  BY <1>2, <1>4 DEF At

(* The entries between two pointers are a sequence as long as they are     *)
(* apart.                                                                  *)
LEMMA EntriesAre ==
  ASSUME NEW S, NEW a \in Pointers, NEW b \in Pointers,
         \A k \in 1..Dist(a, b) : slot[At(a, k)] \in S
  PROVE  /\ Entries(a, b) \in Seq(S)
         /\ Len(Entries(a, b)) = Dist(a, b)
         /\ \A k \in 1..Dist(a, b) : Entries(a, b)[k] = slot[At(a, k)]
<1> DEFINE n == Dist(a, b)
<1>1. n \in Nat
  BY DistNat
<1>2. Entries(a, b) \in [1..n -> S]
  BY DEF Entries, At
<1>3. Entries(a, b) \in Seq(S) /\ DOMAIN Entries(a, b) = 1..n
  BY <1>1, <1>2, SeqDef
<1>4. Len(Entries(a, b)) = n
  BY <1>1, <1>3, LenProperties
<1> QED
  BY <1>3, <1>4 DEF Entries, At

-----------------------------------------------------------------------------
(* The ring is a bounded queue                                             *)

(* The slots from the consumer pointer in memory up to the pointer of the  *)
(* producer hold what it put there.                                        *)
FilledInv ==
  magic => \A k \in 1..Dist(mem, Ends("producer").prod) : slot[At(mem, k)] \in Items

(* No peer is attached to a ring without its magic.                        *)
AttachInv == ~magic => ~attached

RingInv == OrderInv /\ FilledInv /\ AttachInv

Pending == IF magic THEN Entries(Taken, reg) ELSE <<>>
Held    == IF magic THEN Entries(mem, Taken) ELSE <<>>

(* The two sequences of the queue, slot by slot.                           *)
QueueView ==
  /\ Taken = Ends("consumer").cons
  /\ Held \in Seq(Items) /\ Pending \in Seq(Items)
  /\ Len(Held) = Dist(mem, Taken) /\ Len(Pending) = Dist(Taken, reg)
  /\ \A k \in 1..Len(Held) : Held[k] = slot[At(mem, k)]
  /\ \A k \in 1..Len(Pending) : Pending[k] = slot[At(mem, Len(Held) + k)]
  /\ Len(Held) + Len(Pending) = Dist(mem, reg)
  /\ Dist(mem, reg) + Dist(reg, Ends("producer").prod) = Dist(mem, Ends("producer").prod)
  /\ Dist(mem, Ends("producer").prod) <= N

(* What the entries of a ring are when its pointers are in order.          *)
LEMMA QueueIs == TypeOK /\ RingInv /\ magic => QueueView
<1> SUFFICES ASSUME TypeOK, RingInv, magic PROVE QueueView
  OBVIOUS
<1> DEFINE T == Ends("consumer").cons
           P == Ends("producer").prod
<1>1. Taken = T
  BY DEF Taken, Ends
<1>2. T \in Pointers /\ P \in Pointers /\ mem \in Pointers /\ reg \in Pointers
  BY EndsType
<1>3. /\ Dist(mem, P) = Dist(mem, reg) + Dist(reg, P)
      /\ Dist(mem, reg) = Dist(mem, T) + Dist(T, reg)
      /\ Dist(mem, P) <= N
  BY SMTT(30), EndsType, OrderDist DEF RingInv, OrderInv
<1>4. \A k \in 1..Dist(mem, P) : slot[At(mem, k)] \in Items
  BY DEF RingInv, FilledInv
<1> HIDE DEF T, P
<1>5. /\ Dist(mem, T) \in Nat /\ Dist(T, reg) \in Nat /\ Dist(reg, P) \in Nat
      /\ Dist(mem, reg) \in Nat /\ Dist(mem, P) \in Nat /\ N \in Nat
  BY <1>2, DistNat, RingAssumption
<1>6. \A k \in 1..Dist(mem, T) : slot[At(mem, k)] \in Items
  BY <1>3, <1>4, <1>5
<1>7. ASSUME NEW k \in 1..Dist(T, reg) PROVE At(T, k) = At(mem, Dist(mem, T) + k)
  BY <1>2, <1>3, <1>5, EntryShift
<1>8. \A k \in 1..Dist(T, reg) : slot[At(T, k)] \in Items
  <2> TAKE k \in 1..Dist(T, reg)
  <2>1. Dist(mem, T) + k \in 1..Dist(mem, P)
    BY <1>3, <1>5
  <2> QED
    BY <1>4, <1>7, <2>1
<1>9. /\ Held \in Seq(Items) /\ Len(Held) = Dist(mem, T)
      /\ \A k \in 1..Dist(mem, T) : Held[k] = slot[At(mem, k)]
  BY <1>1, <1>2, <1>6, EntriesAre DEF Held
<1>10. /\ Pending \in Seq(Items) /\ Len(Pending) = Dist(T, reg)
       /\ \A k \in 1..Dist(T, reg) : Pending[k] = slot[At(T, k)]
  BY <1>1, <1>2, <1>8, EntriesAre DEF Pending
<1> QED
  BY <1>1, <1>3, <1>7, <1>9, <1>10 DEF T, P, QueueView

(* A peer that is left alone goes on from the same pointers.               *)
LEMMA EndsSame ==
  ASSUME NEW p, UNCHANGED <<allocator, reg, mem, magic, attached>>, own'[p] = own[p]
  PROVE  Ends(p)' = Ends(p)
BY DEF Ends, Up

(* Where no pointer of the queue and no slot of it changes, nor does it.   *)
LEMMA QueueSame ==
  ASSUME TypeOK, RingInv, TypeOK', RingInv', magic, magic', mem' = mem, reg' = reg,
         Ends("consumer")'.cons = Ends("consumer").cons,
         \A k \in 1..Dist(mem, reg) : slot'[At(mem, k)] = slot[At(mem, k)]
  PROVE  Pending' = Pending /\ Held' = Held
<1>1. QueueView
  BY QueueIs
<1>2. QueueView'
  BY QueueIs, PTL
<1>3. Taken' = Taken
  BY <1>1, <1>2 DEF QueueView
<1>4. Dist(mem', Taken') = Dist(mem, Taken) /\ Dist(Taken', reg') = Dist(Taken, reg)
  BY <1>3
<1>5. Len(Held') = Len(Held) /\ Len(Pending') = Len(Pending)
  BY <1>1, <1>2, <1>4 DEF QueueView
<1>6. Len(Held) \in Nat /\ Len(Pending) \in Nat
  BY <1>1, LenProperties DEF QueueView
<1>7. \A k \in 1..Len(Held) : Held'[k] = Held[k]
  <2> TAKE k \in 1..Len(Held)
  <2>1. k \in 1..Dist(mem, reg)
    BY <1>1, <1>6 DEF QueueView
  <2> QED
    BY <1>1, <1>2, <1>5, <2>1 DEF QueueView
<1>8. \A k \in 1..Len(Pending) : Pending'[k] = Pending[k]
  <2> TAKE k \in 1..Len(Pending)
  <2>1. Len(Held) + k \in 1..Dist(mem, reg)
    BY <1>1, <1>6 DEF QueueView
  <2> QED
    BY <1>1, <1>2, <1>5, <2>1 DEF QueueView
<1>9. Held' \in Seq(Items) /\ Pending' \in Seq(Items)
  BY <1>2 DEF QueueView
<1>10. Held' = Held
  BY <1>1, <1>5, <1>7, <1>9, SeqEqual DEF QueueView
<1>11. Pending' = Pending
  BY <1>1, <1>5, <1>8, <1>9, SeqEqual DEF QueueView
<1> QED
  BY <1>10, <1>11

(* xgq_produce fills a slot outside the queue, or finds the ring full.     *)
LEMMA ProduceStep ==
  ASSUME TypeOK, TypeOK', RingInv, NEW x \in Items, XgqProduce(x)
  PROVE  RingInv' /\ Pending' = Pending /\ Held' = Held
<1> DEFINE r == ForProduce(own["producer"])
           C == Ends("consumer")
<1>1. /\ magic /\ Up("producer") /\ magic' /\ mem' = mem /\ reg' = reg
      /\ UNCHANGED <<allocator, reg, mem, magic, attached>>
  BY DEF XgqProduce, Up
<1>2. Ends("producer") = own["producer"] /\ Ends("producer")' = own'["producer"]
  BY <1>1 DEF Ends, Up
<1>3. C' = C
  <2>1. own'["consumer"] = own["consumer"]
    BY DEF XgqProduce, TypeOK, Peers
  <2> QED
    BY <1>1, <2>1, EndsSame
<1>4. /\ r \in [prod : Pointers, cons : Pointers] /\ r.prod = own["producer"].prod
      /\ C.cons \in Pointers /\ C.prod \in Pointers /\ mem \in Pointers /\ reg \in Pointers
  BY EndsType, RefreshType DEF ForProduce, TypeOK, Peers
<1>5. InOrder(r.cons, mem, C.cons, C.prod, reg, r.prod)
  <2>1. InOrder(own["producer"].cons, mem, C.cons, C.prod, reg, own["producer"].prod)
    BY <1>1, <1>2 DEF RingInv, OrderInv
  <2>2. own["producer"].cons \in Pointers /\ own["producer"].prod \in Pointers
    BY DEF TypeOK, Peers
  <2>3. InOrder(mem, mem, C.cons, C.prod, reg, own["producer"].prod)
    BY <1>4, <2>1, <2>2, OrderMoves
  <2>4. r.cons = own["producer"].cons \/ r.cons = mem
    BY DEF ForProduce, TypeOK, Peers
  <2> QED
    BY <1>4, <2>1, <2>3, <2>4
<1>6. \A k \in 1..Dist(mem, r.prod) : slot[At(mem, k)] \in Items
  BY <1>1, <1>2, <1>4 DEF RingInv, FilledInv
<1>7. AttachInv'
  BY <1>1 DEF AttachInv
<1>8. /\ Dist(r.cons, r.prod) = Dist(r.cons, mem) + Dist(mem, r.prod)
      /\ Dist(mem, r.prod) = Dist(mem, reg) + Dist(reg, r.prod)
      /\ Dist(mem, r.prod) <= N
  BY SMTT(30), <1>4, <1>5, OrderDist
<1>9. /\ Dist(r.cons, r.prod) \in Nat /\ Dist(r.cons, mem) \in Nat /\ Dist(mem, r.prod) \in Nat
      /\ Dist(mem, reg) \in Nat /\ Dist(reg, r.prod) \in Nat
      /\ N \in Nat /\ M \in Nat /\ N < M - 1
  BY <1>4, DistNat, RingAssumption
<1>10. CASE RingFull(r)
  <2>1. own'["producer"] = r /\ slot' = slot
    BY <1>10 DEF XgqProduce, TypeOK, Peers
  <2>2. OrderInv' /\ FilledInv'
    BY <1>1, <1>2, <1>3, <1>5, <1>6, <2>1 DEF OrderInv, FilledInv
  <2>3. RingInv'
    BY <1>7, <2>2 DEF RingInv
  <2> QED
    BY <1>1, <1>3, <2>1, <2>3, QueueSame
<1>11. CASE ~RingFull(r)
  <2> DEFINE D == Dist(mem, r.prod)
             q == SlotOf(r.prod)
  <2>1. Dist(r.cons, r.prod) < N
    BY <1>9, <1>11 DEF RingFull
  <2>2. /\ own'["producer"] = [r EXCEPT !.prod = Plus1(@)]
        /\ slot' = [slot EXCEPT ![q] = x]
    BY <1>11 DEF XgqProduce, TypeOK, Peers
  <2>3. Ends("producer")'.cons = r.cons /\ Ends("producer")'.prod = Plus1(r.prod)
    BY <1>2, <1>4, <2>2
  <2>4. InOrder(r.cons, mem, C.cons, C.prod, reg, Plus1(r.prod))
    BY <1>4, <1>5, <2>1, OrderMoves
  <2>5. OrderInv'
    BY <1>1, <1>3, <2>3, <2>4 DEF OrderInv
  <2>6. D < N /\ D \in Nat
    BY <1>8, <1>9, <2>1
  <2>7. q = At(mem, D + 1)
    BY <1>4, <2>6, EntryAtEnd
  <2>8. Dist(mem, Plus1(r.prod)) = D + 1
    BY <1>4, <1>9, <2>6, DistPlus
  <2>9. \A k \in 1..D + 1 : slot'[At(mem, k)] = IF k = D + 1 THEN x ELSE slot[At(mem, k)]
    <3> TAKE k \in 1..D + 1
    <3>1. k \in 1..N /\ D + 1 \in 1..N
      BY <1>9, <2>6
    <3>2. At(mem, k) \in 0..N-1
      BY <1>4, <3>1, PointerOf
    <3>3. At(mem, k) = q <=> k = D + 1
      BY <1>4, <2>7, <3>1, SlotsDiffer
    <3>4. slot \in [0..N-1 -> Items \cup {NoItem}]
      BY DEF TypeOK
    <3> HIDE DEF D, q
    <3> QED
      BY <2>2, <3>2, <3>3, <3>4
  <2>10. FilledInv'
    <3>1. \A k \in 1..D + 1 : slot'[At(mem, k)] \in Items
      <4> TAKE k \in 1..D + 1
      <4>1. k # D + 1 => k \in 1..D
        BY <2>6
      <4> QED
        BY <1>6, <2>9, <4>1
    <3> QED
      BY <1>1, <2>3, <2>8, <3>1 DEF FilledInv
  <2>11. RingInv'
    BY <1>7, <2>5, <2>10 DEF RingInv
  <2>12. \A k \in 1..Dist(mem, reg) : slot'[At(mem, k)] = slot[At(mem, k)]
    <3> TAKE k \in 1..Dist(mem, reg)
    <3>1. k \in 1..D + 1 /\ k # D + 1
      BY <1>8, <1>9
    <3> QED
      BY <2>9, <3>1
  <2> QED
    BY <1>1, <1>3, <2>11, <2>12, QueueSame
<1> QED
  BY <1>10, <1>11

(* xgq_notify_peer_produced adds the entries filled since to the queue.    *)
LEMMA PublishStep ==
  ASSUME TypeOK, TypeOK', RingInv, XgqNotifyPeerProduced
  PROVE  RingInv' /\ ((Pending' = Pending /\ Held' = Held) \/ Fifo!Publish)
<1> DEFINE P == own["producer"]
           C == Ends("consumer")
<1>1. /\ magic /\ Up("producer") /\ magic' /\ mem' = mem /\ reg' = P.prod
      /\ UNCHANGED <<allocator, own, mem, magic, attached, slot>>
  BY DEF XgqNotifyPeerProduced, Up
<1>2. Ends("producer") = P /\ Ends("producer")' = P
  BY <1>1 DEF Ends, Up
<1>3. C.cons' = C.cons /\ (C.prod' = C.prod \/ C.prod' = P.prod)
  BY <1>1 DEF Ends, Up
<1>4. /\ P.prod \in Pointers /\ P.cons \in Pointers
      /\ C.cons \in Pointers /\ C.prod \in Pointers /\ mem \in Pointers /\ reg \in Pointers
  BY EndsType DEF TypeOK, Peers
<1>5. InOrder(P.cons, mem, C.cons, C.prod, reg, P.prod)
  BY <1>1, <1>2 DEF RingInv, OrderInv
<1>6. RingInv'
  <2>1. InOrder(P.cons, mem, C.cons, C.prod, P.prod, P.prod)
    BY <1>4, <1>5, OrderMoves
  <2>2. InOrder(P.cons, mem, C.cons, P.prod, P.prod, P.prod)
    BY <1>4, <2>1, OrderMoves
  <2>3. OrderInv'
    BY <1>1, <1>2, <1>3, <2>1, <2>2 DEF OrderInv
  <2>4. FilledInv'
    BY <1>1, <1>2 DEF RingInv, FilledInv
  <2> QED
    BY <1>1, <2>3, <2>4 DEF RingInv, AttachInv
<1>7. CASE reg = P.prod
  BY <1>1, <1>3, <1>6, <1>7, QueueSame
<1>8. CASE reg # P.prod
  <2> DEFINE n == Dist(reg, P.prod)
             s == [k \in 1..n |-> slot[At(mem, Len(Held) + Len(Pending) + k)]]
  <2>1. QueueView
    BY <1>1, QueueIs
  <2>2. QueueView'
    BY <1>1, <1>6, QueueIs, PTL
  <2>3. Taken' = Taken
    BY <1>3, <2>1, <2>2 DEF QueueView
  <2>4. Dist(mem', Taken') = Dist(mem, Taken) /\ Dist(mem', reg') = Dist(mem, P.prod)
    BY <1>1, <2>3
  <2>5. Len(Held') = Len(Held) /\ Len(Held') + Len(Pending') = Len(Held) + Len(Pending) + n
    BY <1>2, <2>1, <2>2, <2>4 DEF QueueView
  <2>6. /\ Len(Held) \in Nat /\ Len(Pending) \in Nat /\ Len(Held') \in Nat /\ Len(Pending') \in Nat
        /\ Held \in Seq(Items) /\ Held' \in Seq(Items)
        /\ Pending \in Seq(Items) /\ Pending' \in Seq(Items)
    BY <2>1, <2>2, LenProperties DEF QueueView
  <2>7. n \in 1..N - Len(Pending) - Len(Held)
    <3>1. n \in Nat /\ n # 0 /\ N \in Nat
      BY <1>4, <1>8, DistNat, DistPlus, RingAssumption
    <3>2. Len(Held) + Len(Pending) + n <= N
      BY <1>2, <2>1 DEF QueueView
    <3> QED
      BY <2>6, <3>1, <3>2
  <2>8. s \in [1..n -> Items]
    <3> SUFFICES ASSUME NEW k \in 1..n
                 PROVE  slot[At(mem, Len(Held) + Len(Pending) + k)] \in Items
      OBVIOUS
    <3>1. Len(Held) + Len(Pending) + k \in 1..Dist(mem, P.prod)
      BY <1>2, <2>1, <2>6, <2>7 DEF QueueView
    <3> QED
      BY <1>1, <1>2, <3>1 DEF RingInv, FilledInv
  <2>9. s \in Seq(Items) /\ Len(s) = n
    <3>1. n \in Nat
      BY <1>4, DistNat
    <3>2. s \in Seq(Items) /\ DOMAIN s = 1..n
      BY <2>8, <3>1, SeqDef
    <3> QED
      BY <3>1, <3>2, LenProperties
  <2>n. n \in Nat
    BY <1>4, DistNat
  <2> HIDE DEF n
  <2>10. Len(Pending') = Len(Pending) + n
    BY <2>5, <2>6, <2>n
  <2>11. Held' = Held
    <3>1. \A k \in 1..Len(Held) : Held'[k] = Held[k]
      BY <1>1, <2>1, <2>2, <2>5 DEF QueueView
    <3> HIDE DEF Held
    <3> QED
      BY <2>5, <2>6, <3>1, SeqEqual
  <2>12. Pending' = Pending \o s
    <3>1. /\ Pending \o s \in Seq(Items) /\ Len(Pending \o s) = Len(Pending) + n
          /\ \A k \in 1..Len(Pending) + n : (Pending \o s)[k] =
               IF k <= Len(Pending) THEN Pending[k] ELSE s[k - Len(Pending)]
      <4> HIDE DEF s, Pending
      <4> QED
        BY <2>6, <2>9, ConcatProperties
    <3>2. \A k \in 1..Len(Pending) + n : Pending'[k] = slot[At(mem, Len(Held) + k)]
      BY <1>1, <2>2, <2>5, <2>10 DEF QueueView
    <3>3. ASSUME NEW k \in 1..Len(Pending) + n PROVE Pending'[k] = (Pending \o s)[k]
      <4>1. CASE k <= Len(Pending)
        <5>1. k \in 1..Len(Pending)
          BY <2>6, <4>1
        <5>2. Pending[k] = slot[At(mem, Len(Held) + k)]
          BY <2>1, <5>1 DEF QueueView
        <5> QED
          BY <3>1, <3>2, <4>1, <5>2
      <4>2. CASE ~(k <= Len(Pending))
        <5>1. k - Len(Pending) \in 1..n /\ Len(Held) + Len(Pending) + (k - Len(Pending)) = Len(Held) + k
          BY <2>6, <2>7, <4>2
        <5>2. s[k - Len(Pending)] = slot[At(mem, Len(Held) + k)]
          BY <5>1
        <5> QED
          BY <3>1, <3>2, <4>2, <5>2
      <4> QED
        BY <4>1, <4>2
    <3> HIDE DEF s, Pending
    <3> QED
      BY <2>6, <2>10, <3>1, <3>3, SeqEqual
  <2>13. Fifo!Publish
    <3>1. \E k \in 1..N - Len(Pending) - Len(Held) : \E t \in [1..k -> Items] :
            Pending' = Pending \o t /\ Held' = Held
      BY <2>7, <2>8, <2>11, <2>12
    <3> QED
      BY <3>1 DEF Fifo!Publish, Pending, Held
  <2> QED
    BY <1>6, <2>13
<1> QED
  BY <1>7, <1>8

(* xgq_consume takes the first entry of the queue, or finds the ring empty *)
(* as it knows it.                                                         *)
LEMMA ConsumeStep ==
  ASSUME TypeOK, TypeOK', RingInv, XgqConsume
  PROVE  RingInv' /\ ((Pending' = Pending /\ Held' = Held) \/ Fifo!Take)
<1> DEFINE r == ForConsume(own["consumer"])
           P == Ends("producer")
           T == own["consumer"].cons
<1>1. /\ magic /\ Up("consumer") /\ magic'
      /\ UNCHANGED <<allocator, reg, mem, magic, attached, slot>>
  BY DEF XgqConsume, Up
<1>2. Ends("consumer") = own["consumer"] /\ Ends("consumer")' = own'["consumer"]
  BY <1>1 DEF Ends, Up
<1>3. P' = P
  <2>1. own'["producer"] = own["producer"]
    BY DEF XgqConsume, TypeOK, Peers
  <2> QED
    BY <1>1, <2>1, EndsSame
<1>4. /\ r \in [prod : Pointers, cons : Pointers] /\ r.cons = T
      /\ P.cons \in Pointers /\ P.prod \in Pointers /\ mem \in Pointers /\ reg \in Pointers
      /\ T \in Pointers
  BY EndsType, RefreshType DEF ForConsume, TypeOK, Peers
<1>5. InOrder(P.cons, mem, r.cons, r.prod, reg, P.prod)
  <2>1. InOrder(P.cons, mem, T, own["consumer"].prod, reg, P.prod)
    BY <1>1, <1>2 DEF RingInv, OrderInv
  <2>2. own["consumer"].prod \in Pointers
    BY DEF TypeOK, Peers
  <2>3. InOrder(P.cons, mem, T, reg, reg, P.prod)
    BY <1>4, <2>1, <2>2, OrderMoves
  <2>4. r.prod = own["consumer"].prod \/ r.prod = reg
    BY DEF ForConsume, TypeOK, Peers
  <2> QED
    BY <1>4, <2>1, <2>3, <2>4
<1>6. FilledInv' /\ AttachInv'
  <2>1. FilledInv'
    BY <1>1, <1>3 DEF RingInv, FilledInv
  <2> QED
    BY <1>1, <2>1 DEF AttachInv
<1>7. CASE RingEmpty(r)
  <2>1. own'["consumer"] = r
    BY <1>7 DEF XgqConsume, TypeOK, Peers
  <2>2. OrderInv'
    BY <1>1, <1>2, <1>3, <1>5, <2>1 DEF OrderInv
  <2>3. RingInv'
    BY <1>6, <2>2 DEF RingInv
  <2>4. Ends("consumer")'.cons = Ends("consumer").cons
    BY <1>2, <1>4, <2>1
  <2> QED
    BY <1>1, <2>3, <2>4, QueueSame
<1>8. CASE ~RingEmpty(r)
  <2>1. own'["consumer"] = [r EXCEPT !.cons = Plus1(@)]
    BY <1>8 DEF XgqConsume, TypeOK, Peers
  <2>2. Ends("consumer")'.cons = Plus1(T) /\ Ends("consumer")'.prod = r.prod
    BY <1>2, <1>4, <2>1
  <2>3. r.cons # r.prod
    BY <1>8 DEF RingEmpty
  <2>4. InOrder(P.cons, mem, Plus1(T), r.prod, reg, P.prod)
    BY <1>4, <1>5, <2>3, OrderMoves
  <2>5. OrderInv'
    BY <1>1, <1>3, <2>2, <2>4 DEF OrderInv
  <2>6. RingInv'
    BY <1>6, <2>5 DEF RingInv
  <2>7. QueueView
    BY <1>1, QueueIs
  <2>8. QueueView'
    BY <1>1, <2>6, QueueIs, PTL
  <2>9. Taken = T /\ Taken' = Plus1(T)
    BY <1>2, <2>2, <2>7, <2>8 DEF QueueView
  <2>10. Dist(mem, Plus1(T)) = Dist(mem, T) + 1
    <3>1. Dist(mem, T) <= N
      <4>1. Dist(mem, T) \in Nat /\ Dist(T, reg) \in Nat /\ Dist(reg, P.prod) \in Nat /\ N \in Nat
        BY <1>4, DistNat, RingAssumption
      <4> QED
        BY <2>7, <2>9, <4>1 DEF QueueView
    <3>2. Dist(mem, T) < M - 1
      BY <1>4, <3>1, DistNat, RingAssumption
    <3> QED
      BY <1>4, <3>2, DistPlus
  <2>11. /\ Len(Held') = Len(Held) + 1
         /\ Len(Held') + Len(Pending') = Len(Held) + Len(Pending)
    <3>1. Dist(mem', Taken') = Dist(mem, Taken) + 1 /\ Dist(mem', reg') = Dist(mem, reg)
      BY <1>1, <2>9, <2>10
    <3> QED
      BY <2>7, <2>8, <3>1 DEF QueueView
  <2>12. /\ Len(Held) \in Nat /\ Len(Pending) \in Nat /\ Len(Held') \in Nat /\ Len(Pending') \in Nat
         /\ Held \in Seq(Items) /\ Held' \in Seq(Items)
         /\ Pending \in Seq(Items) /\ Pending' \in Seq(Items)
    BY <2>7, <2>8, LenProperties DEF QueueView
  <2>13. Len(Pending') = Len(Pending) - 1 /\ Len(Pending) >= 1
    BY <2>11, <2>12
  <2>14. /\ \A k \in 1..Len(Held) : Held[k] = slot[At(mem, k)]
         /\ \A k \in 1..Len(Pending) : Pending[k] = slot[At(mem, Len(Held) + k)]
         /\ \A k \in 1..Len(Held) + 1 : Held'[k] = slot[At(mem, k)]
         /\ \A k \in 1..Len(Pending) - 1 : Pending'[k] = slot[At(mem, Len(Held) + 1 + k)]
    BY <1>1, <2>7, <2>8, <2>11, <2>13 DEF QueueView
  <2> HIDE DEF Held, Pending
  <2>15. Pending # <<>>
    BY <2>12, <2>13, EmptySeq
  <2>16. Pending' = Tail(Pending)
    <3>1. /\ Tail(Pending) \in Seq(Items) /\ Len(Tail(Pending)) = Len(Pending) - 1
          /\ \A k \in 1..Len(Tail(Pending)) : Tail(Pending)[k] = Pending[k + 1]
      BY <2>12, <2>15, HeadTailProperties
    <3>2. ASSUME NEW k \in 1..Len(Pending) - 1 PROVE Pending'[k] = Tail(Pending)[k]
      <4>1. k + 1 \in 1..Len(Pending) /\ Len(Held) + 1 + k = Len(Held) + (k + 1)
        BY <2>12, <2>13
      <4> QED
        BY <2>14, <3>1, <4>1
    <3> QED
      BY <2>12, <2>13, <3>1, <3>2, SeqEqual
  <2>17. Held' = Append(Held, Head(Pending))
    <3>1. Head(Pending) = Pending[1] /\ Head(Pending) \in Items
      BY <2>12, <2>15, HeadTailProperties
    <3>2. /\ Append(Held, Head(Pending)) \in Seq(Items)
          /\ Len(Append(Held, Head(Pending))) = Len(Held) + 1
          /\ \A k \in 1..Len(Held) : Append(Held, Head(Pending))[k] = Held[k]
          /\ Append(Held, Head(Pending))[Len(Held) + 1] = Head(Pending)
      BY <2>12, <3>1, AppendProperties
    <3>3. ASSUME NEW k \in 1..Len(Held) + 1 PROVE Held'[k] = Append(Held, Head(Pending))[k]
      <4>1. CASE k = Len(Held) + 1
        <5>1. 1 \in 1..Len(Pending)
          BY <2>12, <2>13
        <5> QED
          BY <2>14, <3>1, <3>2, <4>1, <5>1
      <4>2. CASE k # Len(Held) + 1
        <5>1. k \in 1..Len(Held)
          BY <2>12, <4>2
        <5> QED
          BY <2>14, <3>2, <5>1
      <4> QED
        BY <4>1, <4>2
    <3> QED
      BY <2>11, <2>12, <3>2, <3>3, SeqEqual
  <2>18. Fifo!Take
    BY <2>15, <2>16, <2>17 DEF Fifo!Take, Pending, Held
  <2> QED
    BY <2>6, <2>18
<1> QED
  BY <1>7, <1>8

(* xgq_notify_peer_consumed gives the slots of what was taken back.        *)
LEMMA ReleaseStep ==
  ASSUME TypeOK, TypeOK', RingInv, XgqNotifyPeerConsumed
  PROVE  RingInv' /\ Fifo!Release
<1> DEFINE C == own["consumer"]
           P == Ends("producer")
<1>1. /\ magic /\ Up("consumer") /\ magic' /\ mem' = C.cons /\ reg' = reg
      /\ UNCHANGED <<allocator, own, magic, attached, slot>>
  BY DEF XgqNotifyPeerConsumed, Up
<1>2. Ends("consumer") = C /\ Ends("consumer")' = C
  BY <1>1 DEF Ends, Up
<1>3. P.prod' = P.prod /\ (P.cons' = P.cons \/ P.cons' = C.cons)
  BY <1>1 DEF Ends, Up
<1>4. /\ P.prod \in Pointers /\ P.cons \in Pointers
      /\ C.cons \in Pointers /\ C.prod \in Pointers /\ mem \in Pointers /\ reg \in Pointers
  BY EndsType DEF TypeOK, Peers
<1>5. InOrder(P.cons, mem, C.cons, C.prod, reg, P.prod)
  BY <1>1, <1>2 DEF RingInv, OrderInv
<1>6. OrderInv'
  <2>1. InOrder(P.cons, C.cons, C.cons, C.prod, reg, P.prod)
    BY <1>4, <1>5, OrderMoves
  <2>2. InOrder(C.cons, C.cons, C.cons, C.prod, reg, P.prod)
    <3> HIDE DEF C, P
    <3> QED
      BY <1>4, <2>1, OrderMoves
  <2> QED
    BY <1>1, <1>2, <1>3, <2>1, <2>2 DEF OrderInv
<1>7. /\ Dist(mem, P.prod) = Dist(mem, reg) + Dist(reg, P.prod)
      /\ Dist(mem, reg) = Dist(mem, C.cons) + Dist(C.cons, reg)
      /\ Dist(mem, P.prod) <= N
  <2> HIDE DEF C, P
  <2> QED
    BY SMTT(30), <1>4, <1>5, OrderDist
<1>8. Dist(C.cons, P.prod) = Dist(C.cons, reg) + Dist(reg, P.prod)
  <2>1. InOrder(P.cons, C.cons, C.cons, C.prod, reg, P.prod)
    BY <1>4, <1>5, OrderMoves
  <2> QED
    BY SMTT(30), <1>4, <2>1, OrderDist
<1>9. /\ Dist(mem, C.cons) \in Nat /\ Dist(C.cons, reg) \in Nat /\ Dist(reg, P.prod) \in Nat
      /\ Dist(C.cons, P.prod) \in Nat /\ N \in Nat
  BY <1>4, DistNat, RingAssumption
<1>10. ASSUME NEW k \in 1..Dist(C.cons, P.prod)
       PROVE  At(C.cons, k) = At(mem, Dist(mem, C.cons) + k)
  BY <1>4, <1>7, <1>8, <1>9, EntryShift
<1>11. FilledInv'
  <2>1. ASSUME NEW k \in 1..Dist(C.cons, P.prod) PROVE slot[At(C.cons, k)] \in Items
    <3>1. Dist(mem, C.cons) + k \in 1..Dist(mem, P.prod)
      BY <1>7, <1>8, <1>9
    <3> QED
      BY <1>1, <1>10, <3>1 DEF RingInv, FilledInv
  <2> QED
    BY <1>1, <1>3, <2>1 DEF FilledInv
<1>12. RingInv'
  BY <1>1, <1>6, <1>11 DEF RingInv, AttachInv
<1>13. QueueView
  BY <1>1, QueueIs
<1>14. QueueView'
  BY <1>1, <1>12, QueueIs, PTL
<1>15. Taken = C.cons /\ Taken' = C.cons
  BY <1>2, <1>13, <1>14 DEF QueueView
<1>16. Dist(mem', Taken') = 0 /\ Dist(Taken', reg') = Dist(Taken, reg) /\ Dist(mem, Taken) = Dist(mem, C.cons)
  BY <1>1, <1>4, <1>15, DistPlus
<1>17. /\ Len(Held') = 0 /\ Len(Pending') = Len(Pending) /\ Len(Held) = Dist(mem, C.cons)
       /\ Len(Pending) = Dist(C.cons, reg)
       /\ Held' \in Seq(Items) /\ Pending \in Seq(Items) /\ Pending' \in Seq(Items)
       /\ \A k \in 1..Len(Pending) : Pending[k] = slot[At(mem, Len(Held) + k)]
       /\ \A k \in 1..Len(Pending) : Pending'[k] = slot[At(C.cons, 0 + k)]
  BY <1>1, <1>13, <1>14, <1>15, <1>16 DEF QueueView
<1> HIDE DEF Held, Pending
<1>18. Held' = <<>>
  BY <1>17, EmptySeq
<1>19. ASSUME NEW k \in 1..Len(Pending) PROVE Pending'[k] = Pending[k]
  <2>1. k \in 1..Dist(C.cons, P.prod) /\ 0 + k = k
    BY <1>8, <1>9, <1>17
  <2> QED
    BY <1>10, <1>17, <2>1
<1>20. Pending' = Pending
  BY <1>17, <1>19, SeqEqual
<1> QED
  BY <1>12, <1>18, <1>20 DEF Fifo!Release, Held, Pending

(* xgq_alloc empties the ring: without its magic nobody works on it, and   *)
(* the soft reset starts from the register alone.                          *)
LEMMA AllocStep ==
  ASSUME TypeOK, TypeOK', RingInv, AllocClear \/ AllocSoftReset
  PROVE  RingInv' /\ Fifo!Reset
<1>1. CASE AllocClear
  <2>1. ~magic' /\ ~attached'
    BY <1>1 DEF AllocClear
  <2>2. RingInv'
    BY <2>1 DEF RingInv, OrderInv, FilledInv, AttachInv
  <2>3. Pending' = <<>> /\ Held' = <<>>
    BY <2>1 DEF Pending, Held
  <2> QED
    BY <2>2, <2>3 DEF Fifo!Reset, Pending, Held
<1>2. CASE AllocSoftReset
  <2>1. /\ ~magic /\ magic' /\ ~attached' /\ mem' = reg /\ reg' = reg /\ allocator' = allocator
        /\ own'[allocator] = [prod |-> reg, cons |-> reg]
        /\ reg \in Pointers
    BY <1>2 DEF AllocSoftReset, RingInv, AttachInv, TypeOK
  <2>2. \A p \in Peers : Ends(p)' = [prod |-> reg, cons |-> reg]
    BY <2>1 DEF Ends, Up
  <2>3. Dist(reg, reg) = 0
    BY <2>1, DistPlus
  <2>4. OrderInv'
    <3>1. InOrder(reg, reg, reg, reg, reg, reg)
      BY <2>3, RingAssumption DEF InOrder
    <3> QED
      BY <2>1, <2>2, <3>1 DEF OrderInv, Peers
  <2>5. FilledInv'
    BY <2>1, <2>2, <2>3 DEF FilledInv, Peers
  <2>6. RingInv'
    BY <2>1, <2>4, <2>5 DEF RingInv, AttachInv
  <2>7. QueueView'
    BY <2>1, <2>6, QueueIs, PTL
  <2>8. Taken' = reg
    BY <2>2, <2>7 DEF QueueView, Peers
  <2>9. Len(Held') = 0 /\ Len(Pending') = 0 /\ Held' \in Seq(Items) /\ Pending' \in Seq(Items)
    BY <2>1, <2>3, <2>7, <2>8 DEF QueueView
  <2>10. Pending' = <<>> /\ Held' = <<>>
    <3> HIDE DEF Pending, Held
    <3> QED
      BY <2>9, EmptySeq
  <2> QED
    BY <2>6, <2>10 DEF Fifo!Reset, Pending, Held
<1> QED
  BY <1>1, <1>2

(* xgq_attach starts from the pointers the ring has.                       *)
LEMMA AttachStep ==
  ASSUME TypeOK, TypeOK', RingInv, XgqAttach
  PROVE  RingInv' /\ Pending' = Pending /\ Held' = Held
<1>1. /\ magic /\ ~attached /\ attached' /\ magic'
      /\ own' = [own EXCEPT ![Other] = [prod |-> reg, cons |-> mem]]
      /\ UNCHANGED <<allocator, reg, mem, magic, slot>>
  BY DEF XgqAttach
<1>2. Other \in Peers /\ Other # allocator
  <2>1. \E p \in Peers : p # allocator
    BY DEF Peers
  <2> QED
    BY <2>1 DEF Other
<1>3. ASSUME NEW p \in Peers PROVE Ends(p)' = Ends(p)
  <2>1. CASE p = allocator
    <3>1. Up(p) /\ Up(p)' /\ own'[p] = own[p]
      BY <1>1, <1>2, <2>1 DEF Up, TypeOK
    <3> QED
      BY <3>1 DEF Ends
  <2>2. CASE p # allocator
    <3>1. p = Other
      BY <1>2, <2>2 DEF Peers, TypeOK
    <3>2. ~Up(p) /\ Up(p)' /\ own'[p] = [prod |-> reg, cons |-> mem]
      BY <1>1, <2>2, <3>1 DEF Up, TypeOK
    <3> QED
      BY <3>2 DEF Ends
  <2> QED
    BY <2>1, <2>2
<1>4. Ends("producer")' = Ends("producer") /\ Ends("consumer")' = Ends("consumer")
  BY <1>3 DEF Peers
<1>5. RingInv'
  BY <1>1, <1>4 DEF RingInv, OrderInv, FilledInv, AttachInv
<1> QED
  BY <1>1, <1>4, <1>5, QueueSame

(* Every step keeps RingInv and is a step of the queue, or none.           *)
LEMMA RingStep ==
  TypeOK /\ RingInv /\ [Next]_vars => RingInv' /\ [Fifo!Next]_<<Pending, Held>>
<1> SUFFICES ASSUME TypeOK, RingInv, [Next]_vars
             PROVE  RingInv' /\ [Fifo!Next]_<<Pending, Held>>
  OBVIOUS
<1>0. TypeOK'
  BY TypeStep
<1>1. ASSUME NEW x \in Items, XgqProduce(x)
      PROVE  RingInv' /\ Pending' = Pending /\ Held' = Held
  BY <1>0, <1>1, ProduceStep
<1>2. CASE XgqNotifyPeerProduced
  BY <1>0, <1>2, PublishStep DEF Fifo!Next
<1>3. CASE XgqConsume
  BY <1>0, <1>3, ConsumeStep DEF Fifo!Next
<1>4. CASE XgqNotifyPeerConsumed
  BY <1>0, <1>4, ReleaseStep DEF Fifo!Next
<1>5. CASE AllocClear \/ AllocSoftReset
  BY <1>0, <1>5, AllocStep DEF Fifo!Next
<1>6. CASE XgqAttach
  BY <1>0, <1>6, AttachStep
<1>7. CASE UNCHANGED vars
  <2>1. RingInv'
    BY <1>7 DEF vars, RingInv, OrderInv, FilledInv, AttachInv, Ends, Up
  <2>2. Pending' = Pending /\ Held' = Held
    BY <1>7 DEF vars, Pending, Held, Entries, Taken, Up
  <2> QED
    BY <2>1, <2>2
<1> QED
  BY <1>1, <1>2, <1>3, <1>4, <1>5, <1>6, <1>7 DEF Next

(* The ring as it is when the card starts: all pointers are the register.  *)
LEMMA RingInit == Init => RingInv /\ Pending = <<>> /\ Held = <<>>
<1> SUFFICES ASSUME Init PROVE RingInv /\ Pending = <<>> /\ Held = <<>>
  OBVIOUS
<1>1. /\ magic /\ attached /\ mem = reg /\ reg \in Pointers /\ allocator \in Peers
      /\ own = [p \in Peers |-> [prod |-> reg, cons |-> reg]]
  BY DEF Init, Pointers
<1>2. \A p \in Peers : Ends(p) = [prod |-> reg, cons |-> reg]
  BY <1>1 DEF Ends, Up
<1>3. Dist(reg, reg) = 0
  BY <1>1, DistPlus
<1>4. OrderInv
  <2>1. InOrder(reg, reg, reg, reg, reg, reg)
    BY <1>3, RingAssumption DEF InOrder
  <2> QED
    BY <1>1, <1>2, <2>1 DEF OrderInv, Peers
<1>5. FilledInv
  BY <1>1, <1>2, <1>3 DEF FilledInv, Peers
<1>6. RingInv
  BY <1>1, <1>4, <1>5 DEF RingInv, AttachInv
<1>7. QueueView
  BY <1>1, <1>6, TypeInit, QueueIs
<1>8. Taken = reg
  BY <1>2, <1>7 DEF QueueView, Peers
<1>9. Len(Held) = 0 /\ Len(Pending) = 0 /\ Held \in Seq(Items) /\ Pending \in Seq(Items)
  BY <1>1, <1>3, <1>7, <1>8 DEF QueueView
<1>10. Pending = <<>> /\ Held = <<>>
  <2> HIDE DEF Pending, Held
  <2> QED
    BY <1>9, EmptySeq
<1> QED
  BY <1>6, <1>10

-----------------------------------------------------------------------------
(* The theorems                                                            *)

(* Every variable of a ring keeps its type: the pointers stay 32-bit words.*)
THEOREM TypeCorrect == Spec => []TypeOK
BY TypeInit, TypeStep, PTL DEF Spec

(* The stale copies of the pointers err on the safe side, also when the    *)
(* pointers wrap and when the ring is allocated and attached to again.     *)
THEOREM OrderSafe == Spec => []PointersInOrder
<1>1. Init => RingInv
  BY RingInit
<1>2. TypeOK /\ RingInv /\ [Next]_vars => RingInv'
  BY RingStep
<1>3. TypeOK /\ RingInv => PointersInOrder
  BY DEF RingInv, OrderInv, PointersInOrder, InOrder, Ends, Up
<1> QED
  BY <1>1, <1>2, <1>3, TypeInit, TypeStep, PTL DEF Spec

(* The ring implements the bounded queue: what the producer published is   *)
(* taken once, in order and unaltered, and no slot is written again before *)
(* it was given back.                                                      *)
THEOREM RingImplementsFifo == Spec => RingIsFifo
<1>1. Init => RingInv
  BY RingInit
<1>2. TypeOK /\ RingInv /\ [Next]_vars => RingInv'
  BY RingStep
<1>3. Init => Fifo!Init
  BY RingInit DEF Fifo!Init, Pending, Held
<1>4. TypeOK /\ RingInv /\ [Next]_vars => [Fifo!Next]_<<Pending, Held>>
  BY RingStep
<1> QED
  BY <1>1, <1>2, <1>3, <1>4, TypeInit, TypeStep, PTL
  DEF Spec, RingIsFifo, Fifo!Spec, Pending, Held
=============================================================================
