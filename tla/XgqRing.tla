------------------------------ MODULE XgqRing ------------------------------
(***************************************************************************)
(* One ring of an XGQ (common/xgq_impl.h): a producer and a consumer that  *)
(* share the slots, a register with the producer pointer and a word of     *)
(* memory with the consumer pointer, and keep a copy of both pointers.     *)
(* The pointers run freely and wrap.  One of the peers allocates the ring, *)
(* when its firmware starts; the other one attaches to it.                 *)
(***************************************************************************)
EXTENDS Integers, Sequences

CONSTANTS
  Items,     \* what a slot may be filled with
  NoItem,    \* what a slot holds after the ring was cleared
  N,         \* xr_slot_num
  M          \* 2^32: the values of a pointer

Peers == {"producer", "consumer"}

(* At least XGQ_MIN_NUM_SLOTS slots, a power of two: a divisor of 2^32.    *)
ASSUME RingAssumption ==
  /\ NoItem \notin Items
  /\ M \in Nat /\ N \in Nat /\ N >= 2
  /\ M % N = 0 /\ 2 * N <= M

VARIABLES
  allocator, \* the peer that runs xgq_alloc: the RPU
  own,       \* xr_produced and xr_consumed as each peer has them
  reg,       \* the producer pointer register
  mem,       \* xh_sq_consumed, or xh_cq_consumed
  magic,     \* xh_magic is there
  attached,  \* the other peer has attached since the ring was allocated
  slot       \* the slots

vars == <<allocator, own, reg, mem, magic, attached, slot>>

Other == CHOOSE p \in Peers : p # allocator

(* Pointers are 32-bit words and their difference is unsigned.             *)
Plus1(ptr)     == (ptr + 1) % M
Dist(from, to) == (to - from) % M

Init ==
  /\ allocator \in Peers
  /\ reg \in 0..M-1 /\ mem = reg
  /\ own = [p \in Peers |-> [prod |-> reg, cons |-> reg]]
  /\ magic = TRUE /\ attached = TRUE
  /\ slot = [i \in 0..N-1 |-> NoItem]

-----------------------------------------------------------------------------
(* Seeded fault: one entry too many.                                       *)
RingFullOneMore(r) == Dist(r.cons, r.prod) > N

(* xgq_ring_full, xgq_ring_empty and xgq_ring_slot_ptr_*: n - 1 masks the  *)
(* low bits, as n is a power of two.                                       *)
RingFull(r)  == Dist(r.cons, r.prod) >= N
RingEmpty(r) == r.prod = r.cons

SlotOf(ptr)  == ptr % N

(* xgq_can_produce and xgq_can_consume: the peer's pointer is only read    *)
(* again when the ring looks full, or empty.                               *)
ForProduce(r) == IF RingFull(r) THEN [r EXCEPT !.cons = mem] ELSE r
ForConsume(r) == IF RingEmpty(r) THEN [r EXCEPT !.prod = reg] ELSE r

(* A peer works on the ring: the allocator once it has set the magic, the  *)
(* other one once it has attached.                                         *)
Up(p) == magic /\ (p = allocator \/ attached)

(* xgq_produce and the entry the caller then writes to the slot.           *)
XgqProduce(x) ==
  LET r == ForProduce(own["producer"]) IN
  /\ Up("producer")
  /\ IF RingFull(r)
     THEN own' = [own EXCEPT !["producer"] = r] /\ UNCHANGED slot
     ELSE /\ own' = [own EXCEPT !["producer"] = [r EXCEPT !.prod = Plus1(@)]]
          /\ slot' = [slot EXCEPT ![SlotOf(r.prod)] = x]
  /\ UNCHANGED <<allocator, reg, mem, magic, attached>>

XgqNotifyPeerProduced ==
  /\ Up("producer")
  /\ reg' = own["producer"].prod
  /\ UNCHANGED <<allocator, own, mem, magic, attached, slot>>

XgqConsume ==
  LET r == ForConsume(own["consumer"]) IN
  /\ Up("consumer")
  /\ own' = [own EXCEPT !["consumer"] = IF RingEmpty(r) THEN r ELSE [r EXCEPT !.cons = Plus1(@)]]
  /\ UNCHANGED <<allocator, reg, mem, magic, attached, slot>>

XgqNotifyPeerConsumed ==
  /\ Up("consumer")
  /\ mem' = own["consumer"].cons
  /\ UNCHANGED <<allocator, own, reg, magic, attached, slot>>

-----------------------------------------------------------------------------
(* vmr_xgq_init and xgq_init: the ring is cleared, and with it the         *)
(* consumer pointer, before the header is written without its magic.  Only *)
(* the register keeps its value over a restart.                            *)
AllocClear ==
  /\ slot' = [i \in 0..N-1 |-> NoItem]
  /\ mem' = 0
  /\ own' = [own EXCEPT ![allocator] = [prod |-> 0, cons |-> 0]]
  /\ magic' = FALSE /\ attached' = FALSE
  /\ UNCHANGED <<allocator, reg>>

(* Seeded fault: the consumer pointer is not written back.                 *)
AllocSoftResetLocal ==
  /\ ~magic
  /\ own' = [own EXCEPT ![allocator] = [prod |-> reg, cons |-> reg]]
  /\ magic' = TRUE
  /\ UNCHANGED <<allocator, reg, mem, attached, slot>>

(* xgq_soft_reset, then the magic.                                         *)
AllocSoftReset ==
  /\ ~magic
  /\ own' = [own EXCEPT ![allocator] = [prod |-> reg, cons |-> reg]]
  /\ mem' = reg
  /\ magic' = TRUE
  /\ UNCHANGED <<allocator, reg, attached, slot>>

(* xgq_attach and xgq_fast_forward, refused without the magic.             *)
XgqAttach ==
  /\ magic /\ ~attached
  /\ own' = [own EXCEPT ![Other] = [prod |-> reg, cons |-> mem]]
  /\ attached' = TRUE
  /\ UNCHANGED <<allocator, reg, mem, magic, slot>>

Next ==
  \/ \E x \in Items : XgqProduce(x)
  \/ XgqNotifyPeerProduced
  \/ XgqConsume
  \/ XgqNotifyPeerConsumed
  \/ AllocClear \/ AllocSoftReset \/ XgqAttach

Spec == Init /\ [][Next]_vars

-----------------------------------------------------------------------------
Pointers == 0..M-1

(* The type invariant of a ring.                                           *)
TypeOK ==
  /\ allocator \in Peers
  /\ own \in [Peers -> [prod : Pointers, cons : Pointers]]
  /\ reg \in Pointers /\ mem \in Pointers
  /\ magic \in BOOLEAN /\ attached \in BOOLEAN
  /\ slot \in [0..N-1 -> Items \cup {NoItem}]

(* Around the circle of pointer values come, in this order, the consumer   *)
(* pointer the producer knows, the one in memory, the one of the consumer, *)
(* the producer pointer the consumer knows, the register and the pointer   *)
(* of the producer, no further apart than the ring has slots: a stale copy *)
(* errs on the safe side, also when the pointers wrap.                     *)
PointersInOrder ==
  magic /\ attached =>
    LET p == own["producer"]
        c == own["consumer"]
    IN /\ Dist(p.cons, mem) + Dist(mem, c.cons) + Dist(c.cons, c.prod) + Dist(c.prod, reg)
            + Dist(reg, p.prod) = Dist(p.cons, p.prod)
       /\ Dist(p.cons, p.prod) <= N

(* The entries a ring has between two pointers.                            *)
Entries(from, to) == [k \in 1..Dist(from, to) |-> slot[SlotOf((from + k - 1) % M)]]

(* The consumer pointer as the consumer will go on from it.                *)
Taken == IF Up("consumer") THEN own["consumer"].cons ELSE mem

Fifo == INSTANCE XgqFifo WITH
  pending <- IF magic THEN Entries(Taken, reg) ELSE <<>>,
  held    <- IF magic THEN Entries(mem, Taken) ELSE <<>>

(* The ring is the bounded queue of XgqFifo: what was published is taken   *)
(* once, in order and unaltered, and no slot is written again before it    *)
(* was given back.                                                         *)
RingIsFifo == Fifo!Spec
=============================================================================
