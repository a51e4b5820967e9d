---------------------------- MODULE MCPlControl ----------------------------
EXTENDS PlControl

Sec(kind, size, pad) == [kind |-> kind, size |-> size, pad |-> pad]

(* Both kinds with padding, two sections of a kind that follow each other, *)
(* an empty one; one with a topology, alone.                               *)
MCLayouts == {
  <<Sec("pdi", 1, 1), Sec("other", 0, 1), Sec("ppdi", 2, 0), Sec("ppdi", 1, 0), Sec("topo", 1, 0)>>,
  <<Sec("topo", 1, 0), Sec("pdi", 1, 0)>>,
  <<Sec("pdi", 2, 0)>>}

MCThermal == {-1, 1, 2}
=============================================================================
