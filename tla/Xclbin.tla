------------------------------- MODULE Xclbin -------------------------------
(***************************************************************************)
(* The container of an xclbin download (rmgmt/rmgmt_xclbin.c): a header, a *)
(* table with one entry per section, and the data of the sections.  The    *)
(* memory is a sequence of cells, one per table entry; an offset counts    *)
(* the cells before the data.  The field own names the section an entry    *)
(* belongs to, which the program does not see.                             *)
(***************************************************************************)
EXTENDS Integers, Sequences, SequencesExt

Kinds == {"topo", "ppdi", "pdi", "other"}

(* A container with the given sections: each has a kind, a size and some   *)
(* padding after its data.                                                 *)
Packed(layout) ==
  LET n      == Len(layout)
      Block(i) == [k \in 1..layout[i].size |-> i] \o [k \in 1..layout[i].pad |-> 0]
      data   == FlattenSeq([i \in 1..n |-> Block(i)])
      Before(i) == n + Len(FlattenSeq([j \in 1..i-1 |-> Block(j)]))
  IN [secs |-> [i \in 1..n |-> [kind |-> layout[i].kind, off |-> Before(i),
                                size |-> layout[i].size, own |-> i]],
      mem  |-> [i \in 1..n |-> 0] \o data]

-----------------------------------------------------------------------------
(* rmgmt_xclbin_get_section_hdr: the first section of a kind.              *)
Found(f, kind) == \E i \in DOMAIN f.secs : f.secs[i].kind = kind
FirstOf(f, kind) ==
  CHOOSE i \in DOMAIN f.secs :
    f.secs[i].kind = kind /\ \A j \in 1..i-1 : f.secs[j].kind # kind

(* rmgmt_xclbin_section_info succeeds, with a section that is not empty.   *)
HasSection(f, kind) ==
  /\ Found(f, kind)
  /\ LET s == f.secs[FirstOf(f, kind)] IN s.size > 0 /\ s.off + s.size <= Len(f.mem)

(* The offsets of the table entries, after the cells before their data     *)
(* have become fewer.                                                      *)
Shift(secs, cells) == [j \in DOMAIN secs |-> [secs[j] EXCEPT !.off = @ - cells]]

(* Where the data behind a section begins.                                 *)
Behind(f, i) == IF i = Len(f.secs) THEN f.secs[i].off + f.secs[i].size ELSE f.secs[i + 1].off

(* Seeded fault: the offsets behind follow the table entry alone.          *)
RemoveAtKeepsOffsets(f, i) ==
  [secs |-> Shift(RemoveAt(f.secs, i), 1),
   mem  |-> Tail(SubSeq(f.mem, 1, f.secs[i].off) \o SubSeq(f.mem, Behind(f, i) + 1, Len(f.mem)))]

(* One turn of the loop of rmgmt_xclbin_section_remove that finds its      *)
(* kind: the data behind the section, and its table entry, are moved over  *)
(* it, and the offsets follow.  The entry of an only section is cleared    *)
(* and stays in the header.                                                *)
RemoveAtIndex(f, i) ==
  LET n   == Len(f.secs)
      to  == f.secs[i].off
      mem == SubSeq(f.mem, 1, to) \o SubSeq(f.mem, Behind(f, i) + 1, Len(f.mem))
  IN IF n = 1
     THEN [secs |-> <<>>, mem |-> mem]
     ELSE [secs |-> Shift(SubSeq(f.secs, 1, i - 1), 1)
                      \o Shift(SubSeq(f.secs, i + 1, n), 1 + Behind(f, i) - to),
           mem  |-> Tail(mem)]

(* rmgmt_xclbin_section_remove: the index moves on after a removal, so the *)
(* section that has taken the place of a removed one is not looked at.     *)
SectionRemove(f, kind) ==
  LET turn[i \in 0..Len(f.secs)] ==
        IF i = 0 THEN f
        ELSE LET g == turn[i - 1]
             IN IF i <= Len(g.secs) /\ g.secs[i].kind = kind THEN RemoveAtIndex(g, i) ELSE g
  IN turn[Len(f.secs)]

(* Every entry points at the data of its own section.                      *)
Intact(f) ==
  \A i \in DOMAIN f.secs : LET s == f.secs[i] IN
    /\ s.off + s.size <= Len(f.mem)
    /\ \A k \in 1..s.size : f.mem[s.off + k] = s.own
=============================================================================
