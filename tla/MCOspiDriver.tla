---------------------------- MODULE MCOspiDriver ----------------------------
EXTENDS OspiDriver

C(kind, addr, len) == [kind |-> kind, addr |-> addr, len |-> len, tgt |-> 0]

(* Reads that end before, at and behind the end of the first chip, erases  *)
(* within a sector, of one, at the end, across the chips, of everything,   *)
(* writes of a page, of several and of part of one, copies onto what may   *)
(* have been erased before, and safe writes of a page, of more than a      *)
(* sector, and of a page that has the wrong bit in its offset.             *)
MCCalls == {
  C("read", 3, 2), C("read", 5, 3), C("read", 6, 4), C("read", 8, 3),
  C("erase", 4, 2), C("erase", 4, 4), C("erase", 6, 4), C("erase", 12, 2), C("erase", 12, 4), C("erase", 0, 16),
  C("write", 4, 2), C("write", 6, 4), C("write", 12, 3),
  [kind |-> "copy", addr |-> 0, len |-> 2, tgt |-> 4],
  C("safe", 4, 2), C("safe", 4, 6), C("safe", 10, 2)}
=============================================================================
