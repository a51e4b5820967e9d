------------------------------ MODULE XgqFifo ------------------------------
(***************************************************************************)
(* What one ring of an XGQ promises its two peers: a bounded queue from    *)
(* which entries are taken in the order they were published, and in which  *)
(* an entry that was taken keeps its slot until the consumer says so.      *)
(***************************************************************************)
EXTENDS Integers, Sequences

CONSTANTS Items, N

VARIABLES pending, held

Init == pending = <<>> /\ held = <<>>

(* xgq_notify_peer_produced makes all entries filled so far visible.       *)
Publish ==
  \E k \in 1..N - Len(pending) - Len(held) : \E s \in [1..k -> Items] :
    pending' = pending \o s /\ UNCHANGED held

(* xgq_consume.                                                            *)
Take ==
  /\ pending # <<>>
  /\ held' = Append(held, Head(pending))
  /\ pending' = Tail(pending)

(* xgq_notify_peer_consumed gives back the slots of all entries taken.     *)
Release == held' = <<>> /\ UNCHANGED pending

(* xgq_alloc forgets what is in the ring.                                  *)
Reset == pending' = <<>> /\ held' = <<>>

Next == Publish \/ Take \/ Release \/ Reset

Spec == Init /\ [][Next]_<<pending, held>>
=============================================================================
