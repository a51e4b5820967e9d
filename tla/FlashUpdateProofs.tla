------------------------- MODULE FlashUpdateProofs -------------------------
(***************************************************************************)
(* Theorems about the flash update, for every set of images of whatever    *)
(* lengths, every partition and sector size, and every kind of command,    *)
(* retry and restart.                                                      *)
(***************************************************************************)
EXTENDS FlashUpdate, TLAPS

-----------------------------------------------------------------------------
(* The sectors FlashErase counts hold all of the pages it is asked for.    *)
LEMMA SectorsCover ==
  ASSUME NEW len \in Nat
  PROVE  /\ LastSector(len) \in Nat
         /\ len < (LastSector(len) + 1) * SectorPages
BY FlashAssumption DEF LastSector

(* The sizes of the flash are numbers of pages.                            *)
LEMMA SizesType ==
  /\ FrontPages \in Nat /\ PartPages \in Nat /\ Cap < PartPages
  /\ Base["A"] = FrontPages /\ Base["B"] = FrontPages + PartPages /\ Base["legacy"] = 0
  /\ \A i \in Images : Length[i] \in Nat \ {0}
BY FlashAssumption DEF FrontPages, PartPages, Base

(* What a page holds after it was written is content again.                *)
LEMMA ProgramType ==
  ASSUME NEW old \in Content, NEW new \in Content
  PROVE  Program(old, new) \in Content
BY DEF Program, Content

(* The factory images and an erased partition are made of content.         *)
LEMMA PartType ==
  /\ BlankPart \in [Pages -> Content]
  /\ \A i \in Images : Loaded(i) \in [Pages -> Content]
BY DEF BlankPart, Loaded, Content

-----------------------------------------------------------------------------
(* Type correctness                                                        *)

(* The factory state is well typed.                                        *)
LEMMA TypeInit == Init => TypeOK
<1> SUFFICES ASSUME Init PROVE TypeOK
  OBVIOUS
<1> USE FlashAssumption
<1>1. PICK i \in {j \in Images : Length[j] <= Cap}, full \in {{"A"}, {"A", "B"}} :
        /\ cell = [p \in {"A", "B"} |-> IF p \in full THEN Loaded(i) ELSE BlankPart]
        /\ tag = [p \in Parts |-> p \in full]
        /\ meta = [p \in {"A", "B"} |-> [ok |-> TRUE, size |-> IF p \in full THEN Length[i] ELSE 0]]
        /\ running = i
        /\ cmd = [img |-> i, flag |-> "default"]
  BY DEF Init
<1>2. cell \in [{"A", "B"} -> [Pages -> Content]]
  BY <1>1, PartType
<1>3. meta \in [{"A", "B"} -> Meta]
  BY <1>1 DEF Meta
<1>4. tag \in [Parts -> BOOLEAN]
  BY <1>1
<1>5. front \in [1..FrontPages -> Content]
  BY DEF Init, Content
<1> QED
  BY <1>1, <1>2, <1>3, <1>4, <1>5 DEF Init, TypeOK, Pcs, Parts, NoDbg

(* One sector erased, one page written: the types of the flash.            *)
LEMMA EraseSectorType ==
  ASSUME TypeOK, NEW p \in {"A", "B"}, NEW len \in Nat, NEW step, NEW next \in Pcs,
         step # "bkCopy", EraseSector(p, len, step, next)
  PROVE  /\ cell' \in [{"A", "B"} -> [Pages -> Content]] /\ tag' \in [Parts -> BOOLEAN]
         /\ pc' \in Pcs /\ at' \in Nat
         /\ pc' = "bkCopy" => at' = 1
<1> DEFINE erased == [k \in Pages |-> IF k \in Sector(at) THEN Blank ELSE cell[p][k]]
<1>1. erased \in [Pages -> Content]
  BY DEF TypeOK, Content
<1>2. cell' = [cell EXCEPT ![p] = erased]
  BY DEF EraseSector
<1>3. cell' \in [{"A", "B"} -> [Pages -> Content]]
  BY <1>1, <1>2 DEF TypeOK
<1>4. tag' = [tag EXCEPT ![p] = @ /\ at # 0]
  BY DEF EraseSector
<1>5. tag' \in [Parts -> BOOLEAN]
  BY <1>4 DEF TypeOK
<1>6. pc' \in Pcs /\ at' \in Nat /\ (pc' = "bkCopy" => at' = 1)
  BY DEF EraseSector, TypeOK
<1> QED
  BY <1>3, <1>5, <1>6

(* One page written: the types of the flash, and the pages of the other    *)
(* partitions.                                                             *)
LEMMA WritePageType ==
  ASSUME TypeOK, NEW p \in {"A", "B"}, NEW c, NEW last \in Nat, NEW step, NEW next \in Pcs \ {"bkCopy"},
         at \in Pages => c \in Content, WritePage(p, c, last, step, next)
  PROVE  /\ cell' \in [{"A", "B"} -> [Pages -> Content]]
         /\ \A q \in {"A", "B"} \ {p} : cell'[q] = cell[q]
         /\ pc' \in Pcs /\ at' \in Nat
         /\ pc' = "bkCopy" => at' = at + 1 /\ at < last
<1> DEFINE written == [cell[p] EXCEPT ![at] = Program(@, c)]
<1>1. cell' = [cell EXCEPT ![p] = written]
  BY DEF WritePage
<1>2. written \in [Pages -> Content]
  <2>1. cell[p] \in [Pages -> Content]
    BY DEF TypeOK
  <2>2. at \in Pages => Program(cell[p][at], c) \in Content
    BY <2>1, ProgramType
  <2> QED
    BY <2>1, <2>2
<1>3. /\ cell' \in [{"A", "B"} -> [Pages -> Content]]
      /\ \A q \in {"A", "B"} \ {p} : cell'[q] = cell[q]
  BY <1>1, <1>2 DEF TypeOK
<1>4. pc' \in Pcs /\ at' \in Nat /\ (pc' = "bkCopy" => at' = at + 1 /\ at < last)
  BY DEF WritePage, TypeOK
<1> QED
  BY <1>3, <1>4

(* The steps of rmgmt_flash_rpu_pdi that write the flash keep the types.   *)
LEMMA TypeFlash ==
  ASSUME TypeOK, FlashStep
  PROVE  TypeOK'
<1> USE FlashAssumption DEF flash, session, history
<1>0. cmd.img \in Images /\ Length[cmd.img] \in Nat /\ srcSize \in Nat
  BY DEF TypeOK
<1>1. CASE BackupErase
  <2>1. /\ cell' \in [{"A", "B"} -> [Pages -> Content]] /\ tag' \in [Parts -> BOOLEAN]
        /\ pc' \in Pcs /\ at' \in Nat /\ (pc' = "bkCopy" => at' = 1)
    BY <1>0, <1>1, EraseSectorType DEF BackupErase, Pcs
  <2>2. UNCHANGED <<front, meta, fpt, cmd, srcSize, session, dbg, history>>
    BY <1>1 DEF BackupErase
  <2> QED
    BY <2>1, <2>2 DEF TypeOK
<1>2. CASE BackupCopy
  <2>1. at \in Pages => cell["A"][at] \in Content
    BY DEF TypeOK, Parts
  <2>2. /\ cell' \in [{"A", "B"} -> [Pages -> Content]]
        /\ pc' \in Pcs /\ at' \in Nat /\ (pc' = "bkCopy" => at' = at + 1 /\ at < srcSize + 1)
    <3>1. WritePage("B", cell["A"][at], srcSize + 1, "bkCopy", "bkMetaErase")
      BY <1>2 DEF BackupCopy
    <3>2. srcSize + 1 \in Nat /\ "bkMetaErase" \in Pcs \ {"bkCopy"}
      BY <1>0 DEF Parts, Pcs
    <3> QED
      BY <2>1, <3>1, <3>2, WritePageType
  <2>3. tag' \in [Parts -> BOOLEAN]
    BY <1>2 DEF BackupCopy, TypeOK, Parts
  <2>4. UNCHANGED <<front, meta, fpt, cmd, srcSize, session, dbg, history>>
    BY <1>2 DEF BackupCopy
  <2>5. srcSize' = srcSize /\ (pc' = "bkCopy" => at' \in 1..srcSize + 1)
    BY <1>0, <2>2, <2>4 DEF TypeOK
  <2> QED
    BY <2>2, <2>3, <2>4, <2>5 DEF TypeOK
<1>3. ASSUME NEW p \in {"A", "B"}, NEW step, NEW next \in Pcs \ {"bkCopy"}, MetaErase(p, step, next)
      PROVE  TypeOK'
  <2>1. /\ meta \in [{"A", "B"} -> Meta]
        /\ meta' = [meta EXCEPT ![p].ok = FALSE]
    BY <1>3 DEF MetaErase, TypeOK
  <2>2. [meta[p] EXCEPT !.ok = FALSE] \in Meta
    BY <2>1 DEF Meta
  <2>3. meta' \in [{"A", "B"} -> Meta]
    BY <2>1, <2>2
  <2>4. /\ pc' \in Pcs \ {"bkCopy"}
        /\ UNCHANGED <<front, cell, tag, fpt, cmd, at, srcSize, session, dbg, history>>
    BY <1>3 DEF MetaErase
  <2> QED
    BY <2>3, <2>4 DEF TypeOK
<1>4. CASE BackupMeta
  BY <1>0, <1>4 DEF BackupMeta, TypeOK, Meta, Pcs
<1>5. CASE CheckSize
  BY <1>5 DEF CheckSize, TypeOK, Pcs
<1>6. CASE FlashErase
  <2>1. /\ cell' \in [{"A", "B"} -> [Pages -> Content]] /\ tag' \in [Parts -> BOOLEAN]
        /\ pc' \in Pcs /\ at' \in Nat /\ (pc' = "bkCopy" => at' = 1)
    BY <1>0, <1>6, EraseSectorType DEF FlashErase, Pcs
  <2>2. UNCHANGED <<front, meta, fpt, cmd, srcSize, session, dbg, history>> /\ pc' # "bkCopy"
    BY <1>6 DEF FlashErase, EraseSector
  <2> QED
    BY <2>1, <2>2 DEF TypeOK
<1>7. CASE FlashWrite
  <2>1. /\ cell' \in [{"A", "B"} -> [Pages -> Content]]
        /\ pc' \in Pcs /\ at' \in Nat
    BY <1>0, <1>7, WritePageType DEF FlashWrite, Pcs, Content
  <2>2. UNCHANGED <<front, tag, meta, fpt, cmd, srcSize, session, dbg, history>> /\ pc' # "bkCopy"
    BY <1>7 DEF FlashWrite, WritePage
  <2> QED
    BY <2>1, <2>2 DEF TypeOK
<1>8. CASE FlashTag
  BY <1>8 DEF FlashTag, TypeOK, Pcs, Parts
<1>9. CASE FlashMeta
  BY <1>0, <1>9 DEF FlashMeta, TypeOK, Pcs, Meta
<1>10. CASE LegacyErase
  <2>1. front' \in [1..FrontPages -> Content]
    BY <1>10 DEF LegacyErase, TypeOK, Content
  <2>2. cell' \in [{"A", "B"} -> [Pages -> Content]]
    BY <1>10 DEF LegacyErase, TypeOK, Content
  <2>3. tag' \in [Parts -> BOOLEAN] /\ fpt' \in BOOLEAN
    BY <1>10 DEF LegacyErase, TypeOK
  <2>4. /\ pc' \in Pcs \ {"bkCopy"} /\ at' \in Nat
        /\ UNCHANGED <<meta, cmd, srcSize, session, dbg, history>>
    BY <1>10 DEF LegacyErase, TypeOK, Pcs
  <2> QED
    BY <2>1, <2>2, <2>3, <2>4 DEF TypeOK
<1>11. CASE LegacyWrite
  <2>1. front' \in [1..FrontPages -> Content]
    BY <1>0, <1>11 DEF LegacyWrite, TypeOK, Content, Program
  <2>2. cell' \in [{"A", "B"} -> [Pages -> Content]]
    <3>1. \A p \in {"A", "B"}, k \in Pages : Program(cell[p][k], cmd.img) \in Content
      BY <1>0 DEF TypeOK, Content, Program
    <3> QED
      BY <1>11, <3>1 DEF LegacyWrite, TypeOK
  <2>3. tag' \in [Parts -> BOOLEAN] /\ flashed' \in BOOLEAN
    BY <1>11 DEF LegacyWrite, TypeOK, Parts
  <2>4. /\ pc' \in Pcs \ {"bkCopy"} /\ at' \in Nat
        /\ UNCHANGED <<meta, fpt, cmd, srcSize, bootOn, multiboot, running, dbg, history>>
    BY <1>11 DEF LegacyWrite, TypeOK, Pcs
  <2> QED
    BY <2>1, <2>2, <2>3, <2>4 DEF TypeOK
<1>12. CASE FlashFail
  BY <1>12 DEF FlashFail, TypeOK, Pcs
<1> QED
  BY <1>1, <1>2, <1>3, <1>4, <1>5, <1>6, <1>7, <1>8, <1>9, <1>10, <1>11, <1>12 DEF FlashStep, Pcs

(* A start of the card or of the firmware keeps the types: the partition   *)
(* it runs from is one of the layout.                                      *)
LEMMA TypeBoot ==
  ASSUME TypeOK, NEW first \in Parts, Boot(first)
  PROVE  TypeOK'
<1> USE FlashAssumption DEF flash
<1>1. BootChoice(first) \in Parts \cup {NoPart}
  <2> DEFINE ok == {n \in DOMAIN Layout : Bootable(Layout[n]) /\ \E m \in 1..n : Layout[m] = first}
  <2>1. ok \subseteq 1..3
    BY DEF Layout
  <2>2. CASE ok = {}
    BY <2>2 DEF BootChoice
  <2>3. CASE ok # {}
    <3>1. \E n \in ok : \A m \in ok : n <= m
      BY <2>1, <2>3
    <3>2. (CHOOSE n \in ok : \A m \in ok : n <= m) \in 1..3
      BY <2>1, <3>1
    <3> QED
      BY <2>3, <3>2 DEF BootChoice, Layout, Parts
  <2> QED
    BY <2>2, <2>3
<1>2. BootChoice(first) # NoPart => ImageIn(BootChoice(first)) \in Images
  <2> DEFINE ok == {n \in DOMAIN Layout : Bootable(Layout[n]) /\ \E m \in 1..n : Layout[m] = first}
  <2>1. CASE ok = {}
    BY <2>1 DEF BootChoice
  <2>2. CASE ok # {}
    <3>1. ok \subseteq 1..3
      BY DEF Layout
    <3>2. \E n \in ok : \A m \in ok : n <= m
      BY <2>2, <3>1
    <3>3. Bootable(Layout[CHOOSE n \in ok : \A m \in ok : n <= m])
      BY <3>2
    <3>4. Bootable(BootChoice(first))
      BY <2>2, <3>3 DEF BootChoice
    <3> QED
      BY <3>4 DEF Bootable, ImageIn
  <2> QED
    BY <2>1, <2>2
<1>3. BootOffset("A") \in Parts
  BY DEF BootOffset, Parts
<1>4. /\ bootOn' \in Parts \cup {NoPart} /\ multiboot' \in Parts
      /\ running' \in Images \cup {NoImage}
  BY <1>1, <1>2, <1>3 DEF Boot
<1>5. /\ flashed' = FALSE /\ pc' = "idle" /\ at' = 0 /\ srcSize' = 0
      /\ dbg' = NoDbg
      /\ clean' \in BOOLEAN /\ careful' \in BOOLEAN /\ wayBack' \in BOOLEAN
      /\ UNCHANGED <<flash, cmd>>
  BY DEF Boot
<1> QED
  BY <1>4, <1>5 DEF TypeOK, Pcs, NoDbg

(* Every step keeps the types.                                             *)
LEMMA TypeStep == TypeOK /\ [Next]_vars => TypeOK'
<1> SUFFICES ASSUME TypeOK, [Next]_vars PROVE TypeOK'
  OBVIOUS
<1> USE FlashAssumption DEF flash, session, history
<1>1. CASE PowerCycle
  BY <1>1, TypeBoot DEF PowerCycle, Parts
<1>2. CASE SystemReset
  BY <1>2, TypeBoot DEF SystemReset, TypeOK
<1>3. ASSUME NEW i \in Images, NEW flag \in Flags, FlashStart(i, flag) PROVE TypeOK'
  <2>1. cmd' \in [img : Images, flag : {"default", "no_backup", "legacy"}]
    BY <1>3 DEF FlashStart
  <2>2. pc' \in Pcs \ {"bkCopy"} /\ srcSize' \in Nat /\ at' = 0
    BY <1>3 DEF FlashStart, Pcs, TypeOK, Meta
  <2>3. UNCHANGED <<flash, session, dbg>>
    BY <1>3 DEF FlashStart
  <2>4. clean' \in BOOLEAN /\ careful' \in BOOLEAN /\ wayBack' \in BOOLEAN
    BY <1>3 DEF FlashStart, Record, Bootable, TypeOK
  <2> QED
    BY <2>1, <2>2, <2>3, <2>4 DEF TypeOK
<1>4. CASE FlashStep
  BY <1>4, TypeFlash
<1>5. CASE DebugStep
  <2>1. CASE DebugRead
    BY <2>1 DEF DebugRead, TypeOK, Meta
  <2>2. CASE DebugErase
    BY <2>2 DEF DebugErase, TypeOK, Meta
  <2>3. CASE DebugWrite
    BY <2>3 DEF DebugWrite, TypeOK, Meta, NoDbg
  <2> QED
    BY <1>5, <2>1, <2>2, <2>3 DEF DebugStep
<1>6. ASSUME NEW p \in {"A", "B"}, EnableBoot(p) PROVE TypeOK'
  BY <1>6 DEF EnableBoot, BootOffset, TypeOK, Parts
<1>7. CASE RpuRestart
  BY <1>7 DEF RpuRestart, BootOffset, TypeOK, Parts, NoDbg
<1>8. CASE UNCHANGED vars
  BY <1>8 DEF vars, TypeOK
<1> QED
  BY <1>1, <1>2, <1>3, <1>4, <1>5, <1>6, <1>7, <1>8 DEF Next

(* Every variable keeps its type, and the copy of A to B never runs more   *)
(* than a page past the size it was asked to copy.                         *)
THEOREM TypeCorrect == Spec => []TypeOK
BY TypeInit, TypeStep, PTL DEF Spec

-----------------------------------------------------------------------------
(* The boot tag of A                                                       *)

(* The image is erased from a first sector on and fits the partition.      *)
SizeFits ==
  /\ pc \in {"metaReset", "erase", "write", "tag"} => Length[cmd.img] <= Cap
  /\ pc = "metaReset" => at = 0
(* The sectors up to at have been erased, the one with the tag first.      *)
ErasedSoFar ==
  pc = "erase" =>
    /\ at > 0 => ~tag["A"]
    /\ \A k \in 1..Cap : k <= at * SectorPages => cell["A"][k] = Blank
(* The pages before at hold the image, those from at on are erased.        *)
WrittenSoFar ==
  pc = "write" =>
    /\ ~tag["A"]
    /\ at \in 1..Length[cmd.img]
    /\ \A k \in 1..Length[cmd.img] : cell["A"][k] = IF k < at THEN cmd.img ELSE Blank
(* The tag is written last.                                                *)
ReadyForTag == pc = "tag" => Holds("A", cmd.img)
(* A legacy image takes the tag of A before any of its other pages.        *)
LegacyInOrder ==
  /\ pc = "legacyErase" /\ tag["A"] => at * SectorPages <= FrontPages
  /\ pc = "legacyWrite" => /\ at <= Length[cmd.img]
                           /\ tag["A"] => Length[cmd.img] <= FrontPages

TagInv == SizeFits /\ ErasedSoFar /\ WrittenSoFar /\ ReadyForTag /\ LegacyInOrder /\ TagMeansComplete

(* A step that leaves A alone and is in none of its loops keeps TagInv.    *)
LEMMA TagElsewhere ==
  ASSUME TagInv, cell'["A"] = cell["A"], tag'["A"] = tag["A"],
         pc' \notin {"metaReset", "erase", "write", "tag", "legacyErase", "legacyWrite"}
  PROVE  TagInv'
BY DEF TagInv, SizeFits, ErasedSoFar, WrittenSoFar, ReadyForTag, LegacyInOrder, TagMeansComplete, Holds, PageOf

(* A step that leaves A and the flash command alone keeps TagInv.          *)
LEMMA TagUnchanged ==
  ASSUME TagInv, UNCHANGED <<cell, tag, pc, cmd, at>>
  PROVE  TagInv'
BY DEF TagInv, SizeFits, ErasedSoFar, WrittenSoFar, ReadyForTag, LegacyInOrder, TagMeansComplete, Holds, PageOf

(* An image that A holds is short enough for the pages that matter.        *)
LEMMA TagHeld ==
  ASSUME TypeOK, \A k \in Pages : cell'["A"][k] = cell["A"][k],
         NEW i \in Images, Holds("A", i)
  PROVE  Holds("A", i)'
<1>1. /\ Length[i] \in Nat /\ Length[i] <= Cap
      /\ \A k \in 1..Length[i] : cell["A"][k] = i
  BY SizesType DEF Holds, PageOf
<1>2. \A k \in 1..Length[i] : k \in Pages
  BY <1>1, SizesType, FlashAssumption DEF Pages
<1> QED
  BY <1>1, <1>2 DEF Holds, PageOf

(* Erasing a sector of A takes the tag away first, and after the last one  *)
(* every page of the image to come is erased.                              *)
LEMMA TagErase == TypeOK /\ TagInv /\ FlashErase => TagInv'
<1> SUFFICES ASSUME TypeOK, TagInv, FlashErase PROVE TagInv'
  OBVIOUS
<1> USE FlashAssumption
<1> DEFINE len == Length[cmd.img]
<1>1. /\ pc = "erase" /\ cmd' = cmd
      /\ cell' = [cell EXCEPT !["A"] = [k \in Pages |-> IF k \in Sector(at) THEN Blank ELSE @[k]]]
      /\ tag' = [tag EXCEPT !["A"] = @ /\ at # 0]
      /\ IF at < LastSector(len) THEN pc' = pc /\ at' = at + 1 ELSE pc' = "write" /\ at' = 1
  BY DEF FlashErase, EraseSector
<1>2. /\ at \in Nat /\ cmd.img \in Images /\ len \in Nat \ {0} /\ len <= Cap
      /\ LastSector(len) \in Nat
      /\ SectorPages \in Nat /\ Cap \in Nat
  BY <1>1, SectorsCover, SizesType DEF TypeOK, TagInv, SizeFits
<1>3. ~tag'["A"]
  <2>1. tag'["A"] <=> tag["A"] /\ at # 0
    BY <1>1 DEF TypeOK, Parts
  <2>2. at # 0 => at > 0
    BY <1>2
  <2>3. at > 0 => ~tag["A"]
    BY <1>1 DEF TagInv, ErasedSoFar
  <2> QED
    BY <2>1, <2>2, <2>3
<1>4. ASSUME NEW k \in 1..Cap, k <= (at + 1) * SectorPages PROVE cell'["A"][k] = Blank
  <2>1. k \in Pages
    BY <1>2 DEF Pages, PartPages
  <2>2. cell'["A"][k] = IF k \in Sector(at) THEN Blank ELSE cell["A"][k]
    BY <1>1, <2>1 DEF TypeOK, Parts
  <2>3. CASE k <= at * SectorPages
    BY <1>1, <2>2, <2>3 DEF TagInv, ErasedSoFar
  <2>4. CASE ~(k <= at * SectorPages)
    <3>1. at * SectorPages \in Nat
      BY <1>2
    <3>2. k \in at * SectorPages + 1 .. (at + 1) * SectorPages
      BY <1>4, <2>4, <3>1
    <3> QED
      BY <2>2, <3>2 DEF Sector
  <2> QED
    BY <2>3, <2>4
<1>5. CASE at < LastSector(len)
  <2>1. pc' = "erase" /\ at' = at + 1
    BY <1>1, <1>5
  <2> QED
    BY <1>1, <1>2, <1>3, <1>4, <2>1
    DEF TagInv, SizeFits, ErasedSoFar, WrittenSoFar, ReadyForTag, LegacyInOrder, TagMeansComplete
<1>6. CASE ~(at < LastSector(len))
  <2>1. pc' = "write" /\ at' = 1
    BY <1>1, <1>6
  <2>2. (LastSector(len) + 1) * SectorPages <= (at + 1) * SectorPages
    BY <1>2, <1>6
  <2>3. len < (at + 1) * SectorPages
    BY <1>2, <2>2, SectorsCover
  <2>4. \A k \in 1..len : cell'["A"][k] = Blank
    BY <1>2, <1>4, <2>3
  <2>5. cmd' = cmd
    BY <1>1
  <2>6. WrittenSoFar'
    BY <1>2, <1>3, <2>1, <2>4, <2>5 DEF WrittenSoFar
  <2> QED
    BY <1>2, <1>3, <2>1, <2>5, <2>6
    DEF TagInv, SizeFits, ErasedSoFar, ReadyForTag, LegacyInOrder, TagMeansComplete
<1> QED
  BY <1>5, <1>6

(* Writing a page of A extends the image; after the last page it is whole. *)
LEMMA TagWrite == TypeOK /\ TagInv /\ FlashWrite => TagInv'
<1> SUFFICES ASSUME TypeOK, TagInv, FlashWrite PROVE TagInv'
  OBVIOUS
<1> USE FlashAssumption
<1> DEFINE len == Length[cmd.img]
<1>1. /\ pc = "write" /\ cmd' = cmd /\ tag' = tag
      /\ cell' = [cell EXCEPT !["A"][at] = Program(@, cmd.img)]
      /\ IF at < len THEN pc' = pc /\ at' = at + 1 ELSE pc' = "tag" /\ at' = 0
  BY DEF FlashWrite, WritePage
<1>2. /\ cmd.img \in Images /\ len \in Nat \ {0} /\ len <= Cap /\ at \in 1..len
      /\ SectorPages \in Nat /\ Cap \in Nat
  BY <1>1, SizesType DEF TypeOK, TagInv, SizeFits, WrittenSoFar
<1>3. ~tag'["A"]
  BY <1>1 DEF TagInv, WrittenSoFar
<1>4. cell["A"][at] = Blank
  BY <1>1, <1>2 DEF TagInv, WrittenSoFar
<1>5. Program(cell["A"][at], cmd.img) = cmd.img
  BY <1>2, <1>4 DEF Program
<1>6. 1..len \subseteq Pages
  BY <1>2 DEF Pages, PartPages
<1>7. \A k \in 1..len : cell'["A"][k] = IF k = at THEN cmd.img ELSE cell["A"][k]
  BY <1>1, <1>2, <1>5, <1>6 DEF TypeOK, Parts
<1>8. \A k \in 1..len : cell'["A"][k] = IF k < at + 1 THEN cmd.img ELSE Blank
  BY <1>1, <1>2, <1>7 DEF TagInv, WrittenSoFar
<1>9. CASE at < len
  BY <1>1, <1>2, <1>3, <1>8, <1>9
  DEF TagInv, SizeFits, ErasedSoFar, WrittenSoFar, ReadyForTag, LegacyInOrder, TagMeansComplete
<1>10. CASE ~(at < len)
  BY <1>1, <1>2, <1>3, <1>8, <1>10
  DEF TagInv, SizeFits, ErasedSoFar, WrittenSoFar, ReadyForTag, LegacyInOrder, TagMeansComplete, Holds, PageOf
<1> QED
  BY <1>9, <1>10

(* A legacy erase takes the tag of A with the first page of A, unless it   *)
(* ends in front of it.                                                    *)
LEMMA TagLegacyErase == TypeOK /\ TagInv /\ LegacyErase => TagInv'
<1> SUFFICES ASSUME TypeOK, TagInv, LegacyErase PROVE TagInv'
  OBVIOUS
<1> DEFINE len == Length[cmd.img]
<1>1. /\ pc = "legacyErase" /\ cmd' = cmd
      /\ cell' = [p \in {"A", "B"} |->
                   [k \in Pages |-> IF Base[p] + k \in Sector(at) THEN Blank ELSE cell[p][k]]]
      /\ tag' = [p \in Parts |-> tag[p] /\ Base[p] + 1 \notin Sector(at)]
      /\ IF at < LastSector(len) THEN pc' = pc /\ at' = at + 1 ELSE pc' = "legacyWrite" /\ at' = 1
  BY DEF LegacyErase
<1>2. /\ at \in Nat /\ cmd.img \in Images /\ len \in Nat \ {0} /\ LastSector(len) \in Nat
      /\ SectorPages \in Nat \ {0} /\ Cap \in Nat /\ FrontSectors \in Nat
      /\ FrontPages \in Nat /\ FrontPages = FrontSectors * SectorPages
      /\ Base["A"] = FrontPages
  BY SectorsCover, SizesType, FlashAssumption DEF TypeOK, FrontPages
<1>3. tag'["A"] <=> tag["A"] /\ FrontPages + 1 \notin Sector(at)
  BY <1>1, <1>2 DEF Parts
<1>4. tag["A"] => at * SectorPages <= FrontPages
  BY <1>1 DEF TagInv, LegacyInOrder
<1>5. tag'["A"] => (at + 1) * SectorPages <= FrontPages
  <2> SUFFICES ASSUME tag'["A"] PROVE (at + 1) * SectorPages <= FrontPages
    OBVIOUS
  <2>1. at * SectorPages <= FrontPages /\ FrontPages + 1 \notin at * SectorPages + 1 .. (at + 1) * SectorPages
    BY <1>3, <1>4 DEF Sector
  <2>2. at * SectorPages \in Nat /\ (at + 1) * SectorPages \in Nat
    BY <1>2
  <2> QED
    BY <1>2, <2>1, <2>2
<1>6. ASSUME tag'["A"] PROVE \A k \in Pages : cell'["A"][k] = cell["A"][k]
  <2> TAKE k \in Pages
  <2>1. FrontPages + k \notin at * SectorPages + 1 .. (at + 1) * SectorPages
    <3>1. (at + 1) * SectorPages \in Nat /\ at * SectorPages \in Nat /\ k \in Nat /\ k > 0
      BY <1>2 DEF Pages
    <3> QED
      BY <1>2, <1>5, <1>6, <3>1
  <2> QED
    BY <1>1, <1>2, <2>1 DEF Sector
<1>7. TagMeansComplete'
  <2> SUFFICES ASSUME tag'["A"] PROVE \E i \in Images : Holds("A", i)'
    BY DEF TagMeansComplete
  <2>1. tag["A"]
    BY <1>3
  <2>2. (at + 1) * SectorPages <= FrontPages
    BY <1>5
  <2>3. PICK i \in Images : Holds("A", i)
    BY <2>1 DEF TagInv, TagMeansComplete
  <2> QED
    BY <1>6, <2>3, TagHeld
<1>8. CASE at < LastSector(len)
  <2>1. pc' = "legacyErase" /\ at' = at + 1
    BY <1>1, <1>8
  <2> QED
    BY <1>5, <1>7, <2>1 DEF TagInv, SizeFits, ErasedSoFar, WrittenSoFar, ReadyForTag, LegacyInOrder
<1>9. CASE ~(at < LastSector(len))
  <2>1. pc' = "legacyWrite" /\ at' = 1
    BY <1>1, <1>9
  <2>2. tag'["A"] => len <= FrontPages
    <3>1. (LastSector(len) + 1) * SectorPages <= (at + 1) * SectorPages
      BY <1>2, <1>9
    <3>2. len < (LastSector(len) + 1) * SectorPages
      BY <1>2, SectorsCover
    <3>3. (LastSector(len) + 1) * SectorPages \in Nat /\ (at + 1) * SectorPages \in Nat
      BY <1>2
    <3> QED
      BY <1>2, <1>5, <3>1, <3>2, <3>3
  <2> QED
    BY <1>1, <1>2, <1>7, <2>1, <2>2 DEF TagInv, SizeFits, ErasedSoFar, WrittenSoFar, ReadyForTag, LegacyInOrder
<1> QED
  BY <1>8, <1>9

(* A legacy image is written over A only when the tag of A is gone.        *)
LEMMA TagLegacyWrite == TypeOK /\ TagInv /\ LegacyWrite => TagInv'
<1> SUFFICES ASSUME TypeOK, TagInv, LegacyWrite PROVE TagInv'
  OBVIOUS
<1> DEFINE len == Length[cmd.img]
<1>1. /\ pc = "legacyWrite" /\ cmd' = cmd
      /\ cell' = [p \in {"A", "B"} |->
                   [k \in Pages |-> IF Base[p] + k = at THEN Program(cell[p][k], cmd.img) ELSE cell[p][k]]]
      /\ tag' = [tag EXCEPT !["legacy"] = TRUE]
      /\ IF at < len THEN pc' = pc /\ at' = at + 1 ELSE pc' = "idle" /\ at' = 0
  BY DEF LegacyWrite
<1>2. /\ at \in Nat /\ cmd.img \in Images /\ len \in Nat \ {0}
      /\ FrontPages \in Nat /\ Base["A"] = FrontPages
  BY SizesType DEF TypeOK
<1>3. tag'["A"] = tag["A"]
  BY <1>1 DEF TypeOK, Parts
<1>4. at <= len /\ (tag["A"] => len <= FrontPages)
  BY <1>1 DEF TagInv, LegacyInOrder
<1>5. ASSUME tag["A"] PROVE \A k \in Pages : cell'["A"][k] = cell["A"][k]
  <2> TAKE k \in Pages
  <2>1. FrontPages + k # at
    BY <1>2, <1>4, <1>5 DEF Pages
  <2> QED
    BY <1>1, <1>2, <2>1
<1>6. TagMeansComplete'
  <2> SUFFICES ASSUME tag["A"] PROVE \E i \in Images : Holds("A", i)'
    BY <1>3 DEF TagMeansComplete
  <2>1. PICK i \in Images : Holds("A", i)
    BY DEF TagInv, TagMeansComplete
  <2> QED
    BY <1>5, <2>1, TagHeld
<1>7. pc' = "idle" \/ (pc' = "legacyWrite" /\ at' <= len)
  BY <1>1, <1>2
<1> QED
  BY <1>1, <1>3, <1>4, <1>6, <1>7 DEF TagInv, SizeFits, ErasedSoFar, WrittenSoFar, ReadyForTag, LegacyInOrder

(* Every step of a flash command keeps TagInv.                             *)
LEMMA TagFlash == TypeOK /\ TagInv /\ FlashStep => TagInv'
<1> SUFFICES ASSUME TypeOK, TagInv, FlashStep PROVE TagInv'
  OBVIOUS
<1> USE FlashAssumption DEF flash
<1>1. CASE BackupErase
  <2>1. cell'["A"] = cell["A"] /\ tag'["A"] = tag["A"] /\ pc' \in {"bkErase", "bkCopy"}
    BY <1>1 DEF BackupErase, EraseSector, TypeOK, Parts
  <2> QED
    BY <2>1, TagElsewhere
<1>2. CASE BackupCopy
  <2>1. cell'["A"] = cell["A"] /\ tag'["A"] = tag["A"] /\ pc' \in {"bkCopy", "bkMetaErase"}
    BY <1>2 DEF BackupCopy, WritePage, TypeOK, Parts
  <2> QED
    BY <2>1, TagElsewhere
<1>3. CASE MetaErase("B", "bkMetaErase", "bkMeta") \/ MetaErase("A", "metaErase", "meta")
           \/ BackupMeta \/ FlashMeta \/ FlashFail
  <2>1. UNCHANGED <<cell, tag>> /\ pc' \in {"bkMeta", "size", "meta", "idle"}
    BY <1>3 DEF MetaErase, BackupMeta, FlashMeta, FlashFail
  <2> QED
    BY <2>1, TagElsewhere
<1>4. CASE CheckSize \/ MetaErase("A", "metaReset", "erase")
  <2>1. /\ UNCHANGED <<cell, tag, cmd>> /\ pc' \in {"metaReset", "erase"} /\ at' = 0
        /\ Length[cmd.img] <= Cap
    BY <1>4 DEF CheckSize, MetaErase, TagInv, SizeFits
  <2>2. at' * SectorPages = 0
    BY <2>1
  <2>3. ErasedSoFar'
    BY <2>1, <2>2 DEF ErasedSoFar
  <2> QED
    BY <2>1, <2>3 DEF TagInv, SizeFits, WrittenSoFar, ReadyForTag, LegacyInOrder, TagMeansComplete, Holds, PageOf
<1>5. CASE FlashErase
  BY <1>5, TagErase
<1>6. CASE FlashWrite
  BY <1>6, TagWrite
<1>7. CASE FlashTag
  <2>1. UNCHANGED <<cell, cmd>> /\ pc = "tag" /\ pc' = "metaErase"
    BY <1>7 DEF FlashTag
  <2>2. Holds("A", cmd.img)' /\ cmd'.img \in Images
    BY <2>1 DEF TagInv, ReadyForTag, Holds, PageOf, TypeOK
  <2> QED
    BY <2>1, <2>2 DEF TagInv, SizeFits, ErasedSoFar, WrittenSoFar, ReadyForTag, LegacyInOrder, TagMeansComplete, Holds, PageOf
<1>8. CASE LegacyErase
  BY <1>8, TagLegacyErase
<1>9. CASE LegacyWrite
  BY <1>9, TagLegacyWrite
<1> QED
  BY <1>1, <1>2, <1>3, <1>4, <1>5, <1>6, <1>7, <1>8, <1>9 DEF FlashStep

(* Every step keeps TagInv.                                                *)
LEMMA TagStep == TypeOK /\ TagInv /\ [Next]_vars => TagInv'
<1> SUFFICES ASSUME TypeOK, TagInv, [Next]_vars PROVE TagInv'
  OBVIOUS
<1> USE DEF flash, session
<1>1. CASE PowerCycle \/ SystemReset
  <2>1. UNCHANGED <<cell, tag>> /\ pc' = "idle"
    BY <1>1 DEF PowerCycle, SystemReset, Boot
  <2> QED
    BY <2>1, TagElsewhere
<1>2. ASSUME NEW i \in Images, NEW flag \in Flags, FlashStart(i, flag) PROVE TagInv'
  <2>1. UNCHANGED <<cell, tag>> /\ at' = 0 /\ pc' \in {"legacyErase", "bkErase", "size"}
    BY <1>2 DEF FlashStart
  <2>2. at' * SectorPages <= FrontPages
    BY <2>1, SizesType, FlashAssumption
  <2> QED
    BY <2>1, <2>2 DEF TagInv, SizeFits, ErasedSoFar, WrittenSoFar, ReadyForTag, LegacyInOrder,
                      TagMeansComplete, Holds, PageOf
<1>3. CASE FlashStep
  BY <1>3, TagFlash
<1>4. CASE DebugStep
  <2>1. UNCHANGED <<cell, tag, pc, cmd, at>>
    BY <1>4 DEF DebugStep, DebugRead, DebugErase, DebugWrite
  <2> QED
    BY <2>1, TagUnchanged
<1>5. ASSUME NEW p \in {"A", "B"}, EnableBoot(p) PROVE TagInv'
  BY <1>5, TagUnchanged DEF EnableBoot
<1>6. CASE RpuRestart
  BY <1>6, TagUnchanged DEF RpuRestart
<1>7. CASE UNCHANGED vars
  BY <1>7, TagUnchanged DEF vars
<1> QED
  BY <1>1, <1>2, <1>3, <1>4, <1>5, <1>6, <1>7 DEF Next

(* The factory state: A holds an image, its tag in place.                  *)
LEMMA TagInit == Init => TagInv
<1> SUFFICES ASSUME Init PROVE TagInv
  OBVIOUS
<1>1. PICK i \in {j \in Images : Length[j] <= Cap}, full \in {{"A"}, {"A", "B"}} :
        cell = [p \in {"A", "B"} |-> IF p \in full THEN Loaded(i) ELSE BlankPart]
  BY DEF Init
<1>2. cell["A"] = Loaded(i)
  BY <1>1 DEF Parts
<1>3. pc = "idle"
  BY DEF Init
<1>4. Length[i] \in Nat /\ Length[i] <= Cap /\ Cap \in Nat /\ SectorPages \in Nat
  BY FlashAssumption
<1>5. Holds("A", i)
  BY <1>2, <1>4 DEF Holds, PageOf, Loaded, Pages, PartPages
<1> QED
  BY <1>3, <1>5 DEF TagInv, SizeFits, ErasedSoFar, WrittenSoFar, ReadyForTag, LegacyInOrder, TagMeansComplete

(* Whenever power is lost, whatever failed or was sent again before: when  *)
(* the boot tag of A is there, A holds the whole of an image.              *)
THEOREM TagSafe == Spec => []TagMeansComplete
<1>1. TagInv => TagMeansComplete
  BY DEF TagInv
<1> QED
  BY <1>1, TagInit, TypeInit, TypeStep, TagStep, PTL DEF Spec

-----------------------------------------------------------------------------
(* The sector that follows a partition                                     *)

BackupPcs == {"bkErase", "bkCopy", "bkMetaErase", "bkMeta"}
UpdatePcs == {"size", "metaReset", "erase", "write", "tag", "metaErase", "meta"}
LegacyPcs == {"legacyErase", "legacyWrite"}

(* The loops over the sectors end where FlashErase counts them, and what   *)
(* is copied fits its partition.                                           *)
LoopInv ==
  /\ pc \in BackupPcs => srcSize \in 1..Cap
  /\ pc = "bkErase" => at <= LastSector(srcSize)
  /\ pc = "erase" => at <= LastSector(Length[cmd.img])
  /\ pc = "legacyErase" => at <= LastSector(Length[cmd.img])
  /\ pc # "idle" => (cmd.flag = "legacy" <=> pc \in LegacyPcs)

(* Every step of a flash command keeps LoopInv.                            *)
LEMMA LoopFlash ==
  ASSUME TypeOK, TagInv, LoopInv, FlashStep
  PROVE  LoopInv'
<1> USE DEF BackupPcs, LegacyPcs
<1>0. /\ cmd.img \in Images /\ at \in Nat /\ srcSize \in Nat
      /\ LastSector(Length[cmd.img]) \in Nat /\ LastSector(srcSize) \in Nat
  BY SectorsCover, SizesType DEF TypeOK
<1>1. CASE BackupErase
  BY <1>0, <1>1 DEF BackupErase, EraseSector, LoopInv
<1>2. CASE BackupCopy
  BY <1>2 DEF BackupCopy, WritePage, LoopInv
<1>3. CASE MetaErase("B", "bkMetaErase", "bkMeta") \/ MetaErase("A", "metaErase", "meta") \/ BackupMeta
           \/ FlashTag \/ FlashMeta \/ FlashFail \/ FlashWrite \/ LegacyWrite
  BY <1>3 DEF MetaErase, BackupMeta, FlashTag, FlashMeta, FlashFail, FlashWrite, WritePage, LegacyWrite, LoopInv
<1>4. CASE CheckSize \/ MetaErase("A", "metaReset", "erase")
  <2>1. /\ UNCHANGED cmd /\ pc \in {"size", "metaReset"} /\ pc' \in {"metaReset", "erase"} /\ at' = 0
    BY <1>4 DEF CheckSize, MetaErase, TagInv, SizeFits
  <2> QED
    BY <1>0, <2>1 DEF LoopInv
<1>5. CASE FlashErase
  BY <1>0, <1>5 DEF FlashErase, EraseSector, LoopInv
<1>6. CASE LegacyErase
  BY <1>0, <1>6 DEF LegacyErase, LoopInv
<1> QED
  BY <1>1, <1>2, <1>3, <1>4, <1>5, <1>6 DEF FlashStep

(* Every step keeps LoopInv.                                               *)
LEMMA LoopStep == TypeOK /\ TagInv /\ LoopInv /\ [Next]_vars => LoopInv'
<1> SUFFICES ASSUME TypeOK, TagInv, LoopInv, [Next]_vars PROVE LoopInv'
  OBVIOUS
<1> USE DEF BackupPcs, LegacyPcs
<1>1. CASE PowerCycle \/ SystemReset
  BY <1>1 DEF PowerCycle, SystemReset, Boot, LoopInv
<1>2. ASSUME NEW i \in Images, NEW flag \in Flags, FlashStart(i, flag) PROVE LoopInv'
  <2>1. /\ at' = 0 /\ cmd' = [img |-> i, flag |-> flag] /\ srcSize' = meta["A"].size
        /\ pc' = (CASE flag = "legacy" -> "legacyErase" [] BacksUp(flag) -> "bkErase" [] OTHER -> "size")
        /\ ~Refused(flag)
    BY <1>2 DEF FlashStart
  <2>2. LastSector(Length[i]) \in Nat /\ meta["A"].size \in Nat /\ LastSector(meta["A"].size) \in Nat
    BY SectorsCover, SizesType DEF TypeOK, Meta
  <2>3. CASE flag = "legacy"
    <3>1. pc' = "legacyErase" /\ cmd'.img = i /\ cmd'.flag = "legacy" /\ 0 <= LastSector(Length[i])
      BY <2>1, <2>2, <2>3 DEF BacksUp
    <3> QED
      BY <2>1, <3>1 DEF LoopInv
  <2>4. CASE flag # "legacy" /\ BacksUp(flag)
    <3>1. meta["A"].size \in 1..Cap
      BY <2>1, <2>4 DEF Refused
    <3> QED
      BY <2>1, <2>2, <2>4, <3>1 DEF LoopInv
  <2>5. CASE flag # "legacy" /\ ~BacksUp(flag)
    BY <2>1, <2>5 DEF LoopInv
  <2> QED
    BY <2>3, <2>4, <2>5
<1>3. CASE FlashStep
  BY <1>3, LoopFlash
<1>4. CASE DebugStep \/ (\E p \in {"A", "B"} : EnableBoot(p)) \/ RpuRestart \/ UNCHANGED vars
  <2>1. UNCHANGED <<pc, at, cmd, srcSize>>
    BY <1>4 DEF DebugStep, DebugRead, DebugErase, DebugWrite, EnableBoot, RpuRestart, vars
  <2> QED
    BY <2>1 DEF LoopInv
<1> QED
  BY <1>1, <1>2, <1>3, <1>4 DEF Next

(* The sectors counted for an image that leaves a page free end within the *)
(* partition.                                                              *)
LEMMA SectorsWithin ==
  ASSUME NEW len \in Nat, len < Cap, NEW n \in Nat, n <= LastSector(len)
  PROVE  \A k \in Sector(n) : k <= Cap
<1> USE FlashAssumption
<1> DEFINE m == Cap \div SectorPages
           q == len \div SectorPages
<1>1. m \in Nat /\ q \in Nat /\ SectorPages \in Nat \ {0} /\ Cap \in Nat
  OBVIOUS
<1>2. Cap = m * SectorPages
  OBVIOUS
<1>3. q * SectorPages <= len
  OBVIOUS
<1>4. n <= q
  BY DEF LastSector
<1> HIDE DEF m, q
<1>5. q < m
  <2> SUFFICES ASSUME m <= q PROVE FALSE
    BY <1>1
  <2>1. m * SectorPages <= q * SectorPages
    BY <1>1
  <2> QED
    BY <1>1, <1>2, <1>3, <2>1
<1>6. (n + 1) * SectorPages <= m * SectorPages
  BY <1>1, <1>4, <1>5
<1> QED
  BY <1>1, <1>2, <1>6 DEF Sector

(* The pages of the sectors a legacy erase counts.                         *)
LEMMA LegacyReach ==
  ASSUME NEW len \in Nat, NEW n \in Nat, n <= LastSector(len), NEW a \in Sector(n)
  PROVE  a <= (LastSector(len) + 1) * SectorPages
<1>1. LastSector(len) \in Nat /\ SectorPages \in Nat
  BY SectorsCover, FlashAssumption
<1>2. (n + 1) * SectorPages <= (LastSector(len) + 1) * SectorPages
  BY <1>1
<1>3. (n + 1) * SectorPages \in Nat /\ (LastSector(len) + 1) * SectorPages \in Nat /\ n * SectorPages \in Nat
  BY <1>1
<1> QED
  BY <1>2, <1>3 DEF Sector

(* A step that touches a page behind a partition is one of a command whose *)
(* image, or whose backup, fills the partition.                            *)
LEMMA NeighbourStep ==
  ASSUME TypeOK, TagInv, LoopInv, Next,
         NEW p \in {"A", "B"}, NEW k \in Behind, cell'[p][k] # cell[p][k]
  PROVE  CASE cmd.flag = "legacy" -> Base[p] + k <= (LastSector(Length[cmd.img]) + 1) * SectorPages
           [] cmd.flag # "legacy" /\ p = "A" -> Length[cmd.img] = Cap
           [] OTHER -> srcSize = Cap
<1> DEFINE len == Length[cmd.img]
<1>1. FlashStep
  BY DEF Next, PowerCycle, SystemReset, Boot, FlashStart, DebugStep, DebugRead, DebugErase, DebugWrite,
         EnableBoot, RpuRestart, flash, session
<1>2. /\ k \in Pages /\ k \in Nat /\ Cap \in Nat \ {0} /\ k > Cap
      /\ cmd.img \in Images /\ len \in Nat \ {0} /\ at \in Nat /\ srcSize \in Nat
      /\ SectorPages \in Nat \ {0}
      /\ FrontPages \in Nat /\ PartPages \in Nat /\ Base[p] \in Nat
  BY SizesType, FlashAssumption DEF Behind, Pages, TypeOK
<1>3. BackupErase \/ BackupCopy \/ FlashErase \/ FlashWrite \/ LegacyErase \/ LegacyWrite
  BY <1>1 DEF FlashStep, MetaErase, BackupMeta, CheckSize, FlashTag, FlashMeta, FlashFail, flash
<1>4. CASE BackupErase
  <2>1. pc = "bkErase" /\ cell' = [cell EXCEPT !["B"] = [j \in Pages |-> IF j \in Sector(at) THEN Blank ELSE @[j]]]
    BY <1>4 DEF BackupErase, EraseSector
  <2>2. p = "B" /\ k \in Sector(at)
    BY <1>2, <2>1 DEF TypeOK
  <2>3. srcSize <= Cap /\ at <= LastSector(srcSize) /\ cmd.flag # "legacy"
    BY <2>1 DEF LoopInv, BackupPcs, LegacyPcs
  <2>4. ~(srcSize < Cap)
    BY <1>2, <2>2, <2>3, SectorsWithin
  <2> QED
    BY <1>2, <2>2, <2>3, <2>4
<1>5. CASE BackupCopy
  <2>1. pc = "bkCopy" /\ cell' = [cell EXCEPT !["B"][at] = Program(@, cell["A"][at])]
    BY <1>5 DEF BackupCopy, WritePage
  <2>2. p = "B" /\ k = at
    BY <1>2, <2>1 DEF TypeOK
  <2>3. srcSize <= Cap /\ at <= srcSize + 1 /\ cmd.flag # "legacy"
    BY <2>1 DEF LoopInv, BackupPcs, LegacyPcs, TypeOK
  <2> QED
    BY <1>2, <2>2, <2>3
<1>6. CASE FlashErase
  <2>1. pc = "erase" /\ cell' = [cell EXCEPT !["A"] = [j \in Pages |-> IF j \in Sector(at) THEN Blank ELSE @[j]]]
    BY <1>6 DEF FlashErase, EraseSector
  <2>2. p = "A" /\ k \in Sector(at)
    BY <1>2, <2>1 DEF TypeOK
  <2>3. len <= Cap /\ at <= LastSector(len) /\ cmd.flag # "legacy"
    BY <2>1 DEF LoopInv, LegacyPcs, TagInv, SizeFits
  <2>4. ~(len < Cap)
    BY <1>2, <2>2, <2>3, SectorsWithin
  <2> QED
    BY <1>2, <2>2, <2>3, <2>4
<1>7. ~FlashWrite
  <2> SUFFICES ASSUME FlashWrite PROVE FALSE
    OBVIOUS
  <2>1. pc = "write" /\ cell' = [cell EXCEPT !["A"][at] = Program(@, cmd.img)]
    BY DEF FlashWrite, WritePage
  <2>2. k = at
    BY <1>2, <2>1 DEF TypeOK
  <2>3. len <= Cap /\ at <= len
    BY <2>1 DEF TagInv, SizeFits, WrittenSoFar
  <2> QED
    BY <1>2, <2>2, <2>3
<1>8. CASE LegacyErase
  <2>1. pc = "legacyErase" /\ cell'[p][k] = IF Base[p] + k \in Sector(at) THEN Blank ELSE cell[p][k]
    BY <1>2, <1>8 DEF LegacyErase
  <2>2. cmd.flag = "legacy" /\ at <= LastSector(len)
    BY <2>1 DEF LoopInv, LegacyPcs
  <2>3. Base[p] + k \in Sector(at)
    BY <2>1
  <2> QED
    BY <1>2, <2>2, <2>3, LegacyReach
<1>9. CASE LegacyWrite
  <2>1. pc = "legacyWrite" /\ cell'[p][k] = IF Base[p] + k = at THEN Program(cell[p][k], cmd.img) ELSE cell[p][k]
    BY <1>2, <1>9 DEF LegacyWrite
  <2>2. cmd.flag = "legacy" /\ at <= len
    BY <2>1 DEF LoopInv, LegacyPcs, TagInv, LegacyInOrder
  <2>3. len < (LastSector(len) + 1) * SectorPages /\ (LastSector(len) + 1) * SectorPages \in Nat
    BY <1>2, SectorsCover
  <2>4. Base[p] + k = at
    BY <2>1
  <2> QED
    BY <1>2, <2>2, <2>3, <2>4
<1> QED
  BY <1>3, <1>4, <1>5, <1>6, <1>7, <1>8, <1>9

(* No flash command, failure, retry, restart or debug command ever erases  *)
(* or writes the sector that follows a partition, but for a command whose  *)
(* image fills the partition to its last page, a backup of such an image,  *)
(* and a legacy image that reaches the sector.                             *)
THEOREM NeighbourSafe == Spec => NeighbourOnlyWhenFull
<1>1. Init => TagInv
  BY TagInit
<1>2. Init => LoopInv
  BY DEF Init, LoopInv, BackupPcs
<1>3. TypeOK /\ TagInv /\ LoopInv /\ [Next]_vars =>
        [\A p \in {"A", "B"}, k \in Behind :
           cell'[p][k] # cell[p][k] =>
             CASE cmd.flag = "legacy" -> Base[p] + k <= (LastSector(Length[cmd.img]) + 1) * SectorPages
               [] cmd.flag # "legacy" /\ p = "A" -> Length[cmd.img] = Cap
               [] OTHER -> srcSize = Cap]_vars
  BY NeighbourStep
<1> QED
  BY <1>1, <1>2, <1>3, TypeInit, TypeStep, TagStep, LoopStep, PTL DEF Spec, NeighbourOnlyWhenFull

-----------------------------------------------------------------------------
(* The copy of A to B                                                      *)

(* The sectors of B up to at have been erased, the one with the tag first. *)
BackupErased ==
  pc = "bkErase" =>
    /\ at > 0 => ~tag["B"]
    /\ \A k \in 1..Cap : k <= at * SectorPages => cell["B"][k] = Blank
(* The pages of B before at hold what those of A do, the others are        *)
(* erased.                                                                 *)
BackupCopied ==
  pc = "bkCopy" =>
    /\ tag["B"] <=> at > 1 /\ tag["A"]
    /\ \A k \in 1..srcSize : cell["B"][k] = IF k < at THEN cell["A"][k] ELSE Blank
(* After the last page B is what A is, as far as the size goes.            *)
BackupDone ==
  pc \in {"bkMetaErase", "bkMeta"} =>
    /\ tag["B"] <=> tag["A"]
    /\ \A k \in 1..srcSize : cell["B"][k] = cell["A"][k]

CopyInv == BackupErased /\ BackupCopied /\ BackupDone

(* A step that ends outside the backup keeps CopyInv.                      *)
LEMMA CopyElsewhere ==
  ASSUME pc' \notin {"bkErase", "bkCopy", "bkMetaErase", "bkMeta"}
  PROVE  CopyInv'
BY DEF CopyInv, BackupErased, BackupCopied, BackupDone

(* Erasing B takes its tag away, and after the last sector every page the  *)
(* copy is to write is erased.                                             *)
LEMMA CopyErase == TypeOK /\ LoopInv /\ CopyInv /\ BackupErase => CopyInv'
<1> SUFFICES ASSUME TypeOK, LoopInv, CopyInv, BackupErase PROVE CopyInv'
  OBVIOUS
<1>1. /\ pc = "bkErase" /\ srcSize' = srcSize
      /\ cell' = [cell EXCEPT !["B"] = [k \in Pages |-> IF k \in Sector(at) THEN Blank ELSE @[k]]]
      /\ tag' = [tag EXCEPT !["B"] = @ /\ at # 0]
      /\ IF at < LastSector(srcSize) THEN pc' = pc /\ at' = at + 1 ELSE pc' = "bkCopy" /\ at' = 1
  BY DEF BackupErase, EraseSector
<1>2. /\ at \in Nat /\ srcSize \in Nat /\ srcSize <= Cap /\ LastSector(srcSize) \in Nat
      /\ SectorPages \in Nat \ {0} /\ Cap \in Nat
  BY <1>1, SectorsCover, FlashAssumption DEF TypeOK, LoopInv, BackupPcs
<1>3. ~tag'["B"]
  <2>1. tag'["B"] <=> tag["B"] /\ at # 0
    BY <1>1 DEF TypeOK, Parts
  <2>2. at # 0 => at > 0
    BY <1>2
  <2>3. at > 0 => ~tag["B"]
    BY <1>1 DEF CopyInv, BackupErased
  <2> QED
    BY <2>1, <2>2, <2>3
<1>4. ASSUME NEW k \in 1..Cap, k <= (at + 1) * SectorPages PROVE cell'["B"][k] = Blank
  <2>1. k \in Pages
    BY <1>2 DEF Pages, PartPages
  <2>2. cell'["B"][k] = IF k \in Sector(at) THEN Blank ELSE cell["B"][k]
    BY <1>1, <2>1 DEF TypeOK
  <2>3. CASE k <= at * SectorPages
    BY <1>1, <2>2, <2>3 DEF CopyInv, BackupErased
  <2>4. CASE ~(k <= at * SectorPages)
    <3>1. at * SectorPages \in Nat
      BY <1>2
    <3>2. k \in at * SectorPages + 1 .. (at + 1) * SectorPages
      BY <1>4, <2>4, <3>1
    <3> QED
      BY <2>2, <3>2 DEF Sector
  <2> QED
    BY <2>3, <2>4
<1>5. CASE at < LastSector(srcSize)
  <2>1. pc' = "bkErase" /\ at' = at + 1
    BY <1>1, <1>5
  <2>2. BackupErased'
    BY <1>3, <1>4, <2>1 DEF BackupErased
  <2> QED
    BY <2>1, <2>2 DEF CopyInv, BackupCopied, BackupDone
<1>6. CASE ~(at < LastSector(srcSize))
  <2>1. pc' = "bkCopy" /\ at' = 1
    BY <1>1, <1>6
  <2>2. (LastSector(srcSize) + 1) * SectorPages <= (at + 1) * SectorPages
    BY <1>2, <1>6
  <2>3. srcSize < (LastSector(srcSize) + 1) * SectorPages
    BY <1>2, SectorsCover
  <2>4. (at + 1) * SectorPages \in Nat /\ (LastSector(srcSize) + 1) * SectorPages \in Nat
    BY <1>2
  <2>5. \A k \in 1..srcSize : cell'["B"][k] = Blank
    BY <1>2, <1>4, <2>2, <2>3, <2>4
  <2>6. BackupCopied'
    BY <1>1, <1>3, <2>1, <2>5 DEF BackupCopied
  <2> QED
    BY <2>1, <2>6 DEF CopyInv, BackupErased, BackupDone
<1> QED
  BY <1>5, <1>6

(* Copying a page of A to B, which was erased.                             *)
LEMMA CopyPage == TypeOK /\ LoopInv /\ CopyInv /\ BackupCopy => CopyInv'
<1> SUFFICES ASSUME TypeOK, LoopInv, CopyInv, BackupCopy PROVE CopyInv'
  OBVIOUS
<1>1. /\ pc = "bkCopy" /\ srcSize' = srcSize
      /\ cell' = [cell EXCEPT !["B"][at] = Program(@, cell["A"][at])]
      /\ tag' = [tag EXCEPT !["B"] = IF at = 1 THEN tag["A"] ELSE @]
      /\ IF at < srcSize + 1 THEN pc' = pc /\ at' = at + 1 ELSE pc' = "bkMetaErase" /\ at' = 0
  BY DEF BackupCopy, WritePage
<1>2. srcSize \in Nat /\ srcSize \in 1..Cap /\ at \in 1..srcSize + 1 /\ Cap \in Nat /\ SectorPages \in Nat
  BY <1>1, FlashAssumption DEF TypeOK, LoopInv, BackupPcs
<1>3. cell'["A"] = cell["A"] /\ tag'["A"] = tag["A"]
  BY <1>1 DEF TypeOK, Parts
<1>4. tag'["B"] <=> tag["A"]
  <2>1. tag'["B"] = IF at = 1 THEN tag["A"] ELSE tag["B"]
    BY <1>1 DEF TypeOK, Parts
  <2>2. tag["B"] <=> at > 1 /\ tag["A"]
    BY <1>1 DEF CopyInv, BackupCopied
  <2>3. at = 1 \/ at > 1
    BY <1>2
  <2> QED
    BY <2>1, <2>2, <2>3
<1>5. \A k \in 1..srcSize : cell["B"][k] = IF k < at THEN cell["A"][k] ELSE Blank
  BY <1>1 DEF CopyInv, BackupCopied
<1>6. ASSUME NEW k \in 1..srcSize PROVE cell'["B"][k] = IF k < at + 1 THEN cell["A"][k] ELSE Blank
  <2>1. k \in Pages
    BY <1>2 DEF Pages, PartPages
  <2>2. CASE k = at
    <3>1. cell["B"][at] = Blank
      BY <1>2, <1>5, <2>2
    <3>2. cell["A"][at] \in Content
      BY <2>1, <2>2 DEF TypeOK
    <3>3. Program(cell["B"][at], cell["A"][at]) = cell["A"][at]
      BY <3>1, <3>2 DEF Program
    <3>4. cell'["B"][k] = Program(cell["B"][at], cell["A"][at])
      BY <1>1, <2>1, <2>2 DEF TypeOK
    <3> QED
      BY <1>2, <2>2, <3>3, <3>4
  <2>3. CASE k # at
    <3>1. cell'["B"][k] = cell["B"][k]
      BY <1>1, <2>1, <2>3 DEF TypeOK
    <3> QED
      BY <1>2, <1>5, <2>3, <3>1
  <2> QED
    BY <2>2, <2>3
<1>7. CASE at < srcSize + 1
  <2>1. pc' = "bkCopy" /\ at' = at + 1 /\ at' > 1
    BY <1>1, <1>2, <1>7
  <2>2. BackupCopied'
    BY <1>1, <1>3, <1>4, <1>6, <2>1 DEF BackupCopied
  <2> QED
    BY <2>1, <2>2 DEF CopyInv, BackupErased, BackupDone
<1>8. CASE ~(at < srcSize + 1)
  <2>1. pc' = "bkMetaErase"
    BY <1>1, <1>8
  <2>2. \A k \in 1..srcSize : cell'["B"][k] = cell'["A"][k]
    BY <1>2, <1>3, <1>6, <1>8
  <2>3. BackupDone'
    BY <1>1, <1>3, <1>4, <2>2 DEF BackupDone
  <2> QED
    BY <2>1, <2>3 DEF CopyInv, BackupErased, BackupCopied
<1> QED
  BY <1>7, <1>8

(* Every step keeps CopyInv.                                               *)
LEMMA CopyStep == TypeOK /\ LoopInv /\ CopyInv /\ [Next]_vars => CopyInv'
<1> SUFFICES ASSUME TypeOK, LoopInv, CopyInv, [Next]_vars PROVE CopyInv'
  OBVIOUS
<1>1. CASE PowerCycle \/ SystemReset
  BY <1>1, CopyElsewhere DEF PowerCycle, SystemReset, Boot
<1>2. ASSUME NEW i \in Images, NEW flag \in Flags, FlashStart(i, flag) PROVE CopyInv'
  <2>1. at' = 0 /\ pc' \in {"legacyErase", "bkErase", "size"}
    BY <1>2 DEF FlashStart
  <2>2. at' * SectorPages = 0
    BY <2>1, FlashAssumption
  <2> QED
    BY <2>1, <2>2 DEF CopyInv, BackupErased, BackupCopied, BackupDone
<1>3. CASE BackupErase
  BY <1>3, CopyErase
<1>4. CASE BackupCopy
  BY <1>4, CopyPage
<1>5. CASE MetaErase("B", "bkMetaErase", "bkMeta")
  BY <1>5 DEF MetaErase, CopyInv, BackupErased, BackupCopied, BackupDone
<1>6. CASE \/ BackupMeta \/ CheckSize \/ MetaErase("A", "metaReset", "erase")
           \/ FlashErase \/ FlashWrite \/ FlashTag \/ MetaErase("A", "metaErase", "meta") \/ FlashMeta
           \/ LegacyErase \/ LegacyWrite \/ FlashFail
  <2>1. pc' \notin {"bkErase", "bkCopy", "bkMetaErase", "bkMeta"}
    BY <1>6 DEF BackupMeta, CheckSize, MetaErase, FlashErase, EraseSector, FlashWrite, WritePage, FlashTag,
                FlashMeta, LegacyErase, LegacyWrite, FlashFail
  <2> QED
    BY <2>1, CopyElsewhere
<1>7. CASE DebugStep \/ (\E p \in {"A", "B"} : EnableBoot(p)) \/ RpuRestart \/ UNCHANGED vars
  <2>1. UNCHANGED <<cell, tag, pc, at, srcSize>>
    BY <1>7 DEF DebugStep, DebugRead, DebugErase, DebugWrite, EnableBoot, RpuRestart, vars, flash
  <2> QED
    BY <2>1 DEF CopyInv, BackupErased, BackupCopied, BackupDone
<1> QED
  BY <1>1, <1>2, <1>3, <1>4, <1>5, <1>6, <1>7 DEF Next, FlashStep

(* A backup that is done boots what A does.                                *)
LEMMA BackupBoots ==
  ASSUME TypeOK, LoopInv, CopyInv, pc \in {"bkMetaErase", "bkMeta"},
         NEW i \in Images, tag["A"], Holds("A", i), Length[i] <= srcSize
  PROVE  tag["B"] /\ Holds("B", i)
<1>1. Length[i] \in Nat /\ srcSize \in Nat
  BY SizesType DEF TypeOK
<1>2. tag["B"] /\ \A k \in 1..srcSize : cell["B"][k] = cell["A"][k]
  BY DEF CopyInv, BackupDone
<1>3. \A k \in 1..Length[i] : cell["B"][k] = i
  BY <1>1, <1>2 DEF Holds, PageOf
<1> QED
  BY <1>2, <1>3 DEF Holds, PageOf

(* When rmgmt_copy_default_to_backup has written its last page, B boots    *)
(* the image that A does, whatever was flashed, failed or cut off before,  *)
(* if the metadata of A told a size that image has room in.                *)
THEOREM BackupCopiesDefault == Spec => []BackupIsDefault
<1>1. Init => TagInv /\ LoopInv /\ CopyInv
  BY TagInit DEF Init, LoopInv, BackupPcs, CopyInv, BackupErased, BackupCopied, BackupDone
<1>2. TypeOK /\ LoopInv /\ CopyInv => BackupIsDefault
  BY BackupBoots DEF BackupIsDefault
<1> QED
  BY <1>1, <1>2, TypeInit, TypeStep, TagStep, LoopStep, CopyStep, PTL DEF Spec

-----------------------------------------------------------------------------
(* The images a power cycle can fall back to                               *)

(* A partition that is left alone holds what it held.                      *)
LEMMA HoldsSame ==
  ASSUME NEW p \in {"A", "B"}, cell'[p] = cell[p], NEW i, Holds(p, i)
  PROVE  Holds(p, i)'
BY DEF Holds, PageOf

LEMMA BootableSame ==
  ASSUME NEW p \in {"A", "B"}, cell'[p] = cell[p], tag'[p] = tag[p], Bootable(p)
  PROVE  Bootable(p)'
BY HoldsSame DEF Bootable

(* The image a boot settles on is one that loads.                          *)
LEMMA BootChoiceBoots ==
  ASSUME NEW first
  PROVE  \/ BootChoice(first) = NoPart
         \/ BootChoice(first) \in Parts /\ Bootable(BootChoice(first))
<1> DEFINE ok == {n \in DOMAIN Layout : Bootable(Layout[n]) /\ \E m \in 1..n : Layout[m] = first}
<1>1. CASE ok = {}
  BY <1>1 DEF BootChoice
<1>2. CASE ok # {}
  <2> DEFINE b == CHOOSE n \in ok : \A m \in ok : n <= m
  <2>1. ok \subseteq 1..3
    BY DEF Layout
  <2>2. \E n \in ok : \A m \in ok : n <= m
    BY <1>2, <2>1
  <2>3. b \in ok
    BY <2>2
  <2>4. b \in 1..3 /\ Bootable(Layout[b])
    BY <2>1, <2>3
  <2>5. BootChoice(first) = Layout[b]
    BY <1>2 DEF BootChoice
  <2> HIDE DEF b
  <2>6. Layout[b] \in Parts
    <3>1. b = 1 \/ b = 2 \/ b = 3
      BY <2>4
    <3> QED
      BY <3>1 DEF Layout, Parts
  <2> QED
    BY <2>4, <2>5, <2>6
<1> QED
  BY <1>1, <1>2

(* Which steps of a flash command leave A alone, and which B.              *)
LEMMA BackupLeavesA ==
  ASSUME TypeOK, FlashStep, pc \in BackupPcs
  PROVE  /\ cell'["A"] = cell["A"] /\ tag'["A"] = tag["A"] /\ UNCHANGED <<srcSize, running, careful, wayBack>>
         /\ pc' \in BackupPcs \cup {"size", "idle"}
         /\ pc' = "size" => pc = "bkMeta" /\ cell' = cell /\ tag' = tag
<1> USE DEF BackupPcs, flash, session, history
<1>1. CASE BackupErase
  BY <1>1 DEF BackupErase, EraseSector, TypeOK, Parts
<1>2. CASE BackupCopy
  BY <1>2 DEF BackupCopy, WritePage, TypeOK, Parts
<1>3. CASE MetaErase("B", "bkMetaErase", "bkMeta") \/ BackupMeta \/ FlashFail
  BY <1>3 DEF MetaErase, BackupMeta, FlashFail
<1> QED
  BY <1>1, <1>2, <1>3
  DEF FlashStep, CheckSize, MetaErase, FlashErase, EraseSector, FlashWrite, WritePage, FlashTag, FlashMeta,
      LegacyErase, LegacyWrite

LEMMA UpdateLeavesB ==
  ASSUME TypeOK, FlashStep, pc \in UpdatePcs
  PROVE  /\ cell'["B"] = cell["B"] /\ tag'["B"] = tag["B"] /\ UNCHANGED <<running, careful, wayBack>>
         /\ pc' \in UpdatePcs \cup {"idle"}
<1> USE DEF UpdatePcs, flash, session, history
<1>1. CASE FlashErase
  BY <1>1 DEF FlashErase, EraseSector, TypeOK, Parts
<1>2. CASE FlashWrite
  BY <1>2 DEF FlashWrite, WritePage, TypeOK, Parts
<1>3. CASE FlashTag
  BY <1>3 DEF FlashTag, TypeOK, Parts
<1>4. CASE CheckSize \/ MetaErase("A", "metaReset", "erase") \/ MetaErase("A", "metaErase", "meta") \/ FlashMeta
           \/ FlashFail
  BY <1>4 DEF CheckSize, MetaErase, FlashMeta, FlashFail
<1> QED
  BY <1>1, <1>2, <1>3, <1>4
  DEF FlashStep, BackupErase, BackupCopy, EraseSector, WritePage, MetaErase, BackupMeta, LegacyErase, LegacyWrite

(* A legacy image that ends in front of B leaves B alone.                  *)
ClearOfB == (LastSector(Length[cmd.img]) + 1) * SectorPages <= Base["B"]

LEMMA LegacyLeavesB ==
  ASSUME TypeOK, TagInv, LoopInv, FlashStep, pc \in LegacyPcs, ClearOfB
  PROVE  /\ cell'["B"] = cell["B"] /\ tag'["B"] = tag["B"]
         /\ UNCHANGED <<cmd, running, careful, wayBack>>
         /\ pc' \in LegacyPcs \cup {"idle"}
<1> DEFINE len == Length[cmd.img]
<1>1. /\ at \in Nat /\ cmd.img \in Images /\ len \in Nat \ {0} /\ LastSector(len) \in Nat
      /\ SectorPages \in Nat \ {0} /\ Base["B"] \in Nat
      /\ len < (LastSector(len) + 1) * SectorPages /\ (LastSector(len) + 1) * SectorPages \in Nat
      /\ cell["B"] = [k \in Pages |-> cell["B"][k]]
  <2>1. at \in Nat /\ cmd.img \in Images
    BY DEF TypeOK
  <2>2. len \in Nat \ {0} /\ Base["B"] \in Nat
    BY <2>1, SizesType
  <2>3. LastSector(len) \in Nat /\ len < (LastSector(len) + 1) * SectorPages
    BY <2>2, SectorsCover
  <2>4. SectorPages \in Nat \ {0}
    BY FlashAssumption
  <2>5. (LastSector(len) + 1) * SectorPages \in Nat
    BY <2>3, <2>4
  <2>6. cell["B"] = [k \in Pages |-> cell["B"][k]]
    BY DEF TypeOK
  <2> QED
    BY <2>1, <2>2, <2>3, <2>4, <2>5, <2>6
<1>2. LegacyErase \/ LegacyWrite \/ FlashFail
  BY DEF FlashStep, LegacyPcs, BackupErase, BackupCopy, EraseSector, WritePage, MetaErase, BackupMeta, CheckSize,
         FlashErase, FlashWrite, FlashTag, FlashMeta
<1>3. CASE LegacyErase
  <2>1. /\ pc = "legacyErase"
        /\ cell'["B"] = [k \in Pages |-> IF Base["B"] + k \in Sector(at) THEN Blank ELSE cell["B"][k]]
        /\ tag'["B"] = (tag["B"] /\ Base["B"] + 1 \notin Sector(at))
    BY <1>3 DEF LegacyErase, Parts
  <2>2. at <= LastSector(len)
    BY <2>1 DEF LoopInv
  <2>3. \A a \in Sector(at) : a <= Base["B"]
    <3> TAKE a \in Sector(at)
    <3>1. a <= (LastSector(len) + 1) * SectorPages
      BY <1>1, <2>2, LegacyReach
    <3>2. a \in Nat
      BY <1>1 DEF Sector
    <3> QED
      BY <1>1, <3>1, <3>2 DEF ClearOfB
  <2>4. \A k \in Nat \ {0} : Base["B"] + k \notin Sector(at)
    BY <1>1, <2>3
  <2>5. \A k \in Pages : k \in Nat \ {0}
    BY DEF Pages
  <2>6. cell'["B"] = cell["B"]
    BY <1>1, <2>1, <2>4, <2>5
  <2>7. tag'["B"] = tag["B"]
    BY <2>1, <2>4 DEF TypeOK, Parts
  <2> QED
    BY <1>3, <2>6, <2>7 DEF LegacyErase, LegacyPcs, session, history
<1>4. CASE LegacyWrite
  <2>1. /\ pc = "legacyWrite"
        /\ cell'["B"] = [k \in Pages |-> IF Base["B"] + k = at THEN Program(cell["B"][k], cmd.img) ELSE cell["B"][k]]
        /\ tag' = [tag EXCEPT !["legacy"] = TRUE]
    BY <1>4 DEF LegacyWrite
  <2>2. at <= len
    BY <2>1 DEF TagInv, LegacyInOrder
  <2>3. \A k \in Pages : Base["B"] + k # at
    BY <1>1, <2>2 DEF ClearOfB, Pages
  <2>4. cell'["B"] = cell["B"]
    BY <1>1, <2>1, <2>3
  <2>5. tag'["B"] = tag["B"]
    BY <2>1 DEF TypeOK, Parts
  <2> QED
    BY <1>4, <2>4, <2>5 DEF LegacyWrite, LegacyPcs, history
<1>5. CASE FlashFail
  BY <1>5 DEF FlashFail, flash, session
<1> QED
  BY <1>2, <1>3, <1>4, <1>5

(* Where the image is that wayBack promises.                               *)
WayBackInv ==
  wayBack =>
    /\ pc = "idle" => \E p \in Parts : Bootable(p)
    /\ pc \in BackupPcs => \E i \in Images : tag["A"] /\ Holds("A", i) /\ Length[i] <= srcSize
    /\ pc \in UpdatePcs => Bootable("B")
    /\ pc \in LegacyPcs => Bootable("B") /\ ClearOfB

(* Every step of a flash command keeps WayBackInv.                         *)
LEMMA WayBackFlash ==
  ASSUME TypeOK, TagInv, LoopInv, CopyInv, WayBackInv, FlashStep
  PROVE  WayBackInv'
<1>1. pc # "idle" /\ pc \in BackupPcs \cup UpdatePcs \cup LegacyPcs
  BY DEF FlashStep, BackupErase, BackupCopy, EraseSector, WritePage, MetaErase, BackupMeta, CheckSize, FlashErase,
         FlashWrite, FlashTag, FlashMeta, LegacyErase, LegacyWrite, FlashFail, TypeOK, Pcs,
         BackupPcs, UpdatePcs, LegacyPcs
<1>2. CASE pc \in BackupPcs
  <2> SUFFICES ASSUME wayBack' PROVE WayBackInv'
    BY DEF WayBackInv
  <2>1. /\ cell'["A"] = cell["A"] /\ tag'["A"] = tag["A"] /\ srcSize' = srcSize /\ wayBack' = wayBack
        /\ pc' \in BackupPcs \cup {"size", "idle"}
        /\ pc' = "size" => pc = "bkMeta" /\ cell' = cell /\ tag' = tag
    BY <1>2, BackupLeavesA DEF history
  <2>2. PICK i \in Images : tag["A"] /\ Holds("A", i) /\ Length[i] <= srcSize
    BY <1>2, <2>1 DEF WayBackInv
  <2>3. tag'["A"] /\ Holds("A", i)' /\ Length[i] <= srcSize'
    BY <2>1, <2>2, HoldsSame
  <2>4. CASE pc' \in BackupPcs
    BY <2>3, <2>4 DEF WayBackInv, BackupPcs, UpdatePcs, LegacyPcs
  <2>5. CASE pc' = "idle"
    BY <2>3, <2>5 DEF WayBackInv, Bootable, Parts, BackupPcs, UpdatePcs, LegacyPcs
  <2>6. CASE pc' = "size"
    <3>1. tag["B"] /\ Holds("B", i)
      BY <2>1, <2>2, <2>6, BackupBoots
    <3>2. Bootable("B")
      BY <3>1 DEF Bootable
    <3>3. Bootable("B")'
      BY <2>1, <2>6, <3>2, BootableSame
    <3> QED
      BY <2>6, <3>3 DEF WayBackInv, BackupPcs, UpdatePcs, LegacyPcs
  <2> QED
    BY <2>1, <2>4, <2>5, <2>6
<1>3. CASE pc \in UpdatePcs
  <2>1. /\ cell'["B"] = cell["B"] /\ tag'["B"] = tag["B"] /\ wayBack' = wayBack
        /\ pc' \in UpdatePcs \cup {"idle"}
    BY <1>3, UpdateLeavesB DEF history
  <2>2. wayBack' => Bootable("B")'
    BY <1>3, <2>1, BootableSame DEF WayBackInv
  <2> QED
    BY <2>1, <2>2 DEF WayBackInv, Parts, BackupPcs, UpdatePcs, LegacyPcs
<1>4. CASE pc \in LegacyPcs
  <2> SUFFICES ASSUME wayBack' PROVE WayBackInv'
    BY DEF WayBackInv
  <2>1. wayBack
    BY <1>4 DEF FlashStep, LegacyPcs, LegacyErase, LegacyWrite, FlashFail, BackupErase, BackupCopy, EraseSector,
                WritePage, MetaErase, BackupMeta, CheckSize, FlashErase, FlashWrite, FlashTag, FlashMeta, history
  <2>2. Bootable("B") /\ ClearOfB
    BY <1>4, <2>1 DEF WayBackInv
  <2>3. /\ cell'["B"] = cell["B"] /\ tag'["B"] = tag["B"] /\ cmd' = cmd
        /\ pc' \in LegacyPcs \cup {"idle"}
    BY <1>4, <2>2, LegacyLeavesB
  <2>4. Bootable("B")' /\ ClearOfB'
    BY <2>2, <2>3, BootableSame DEF ClearOfB
  <2> QED
    BY <2>3, <2>4 DEF WayBackInv, Parts, BackupPcs, UpdatePcs, LegacyPcs
<1> QED
  BY <1>1, <1>2, <1>3, <1>4

(* A step that leaves the flash and the command alone.                     *)
LEMMA WayBackUnchanged ==
  ASSUME WayBackInv, UNCHANGED <<front, cell, tag, pc, cmd, srcSize, wayBack>>
  PROVE  WayBackInv'
BY DEF WayBackInv, Bootable, Holds, PageOf, FlashPage, ClearOfB

(* Every step keeps WayBackInv.                                            *)
LEMMA WayBackStep == TypeOK /\ TagInv /\ LoopInv /\ CopyInv /\ WayBackInv /\ [Next]_vars => WayBackInv'
<1> SUFFICES ASSUME TypeOK, TagInv, LoopInv, CopyInv, WayBackInv, [Next]_vars PROVE WayBackInv'
  OBVIOUS
<1>1. ASSUME NEW first, Boot(first) PROVE WayBackInv'
  <2> PICK p : p = BootChoice(first)
    OBVIOUS
  <2>1. /\ pc' = "idle" /\ UNCHANGED <<front, cell, tag>> /\ (wayBack' <=> p # NoPart)
    BY <1>1 DEF Boot, flash
  <2>2. p = NoPart \/ (p \in Parts /\ Bootable(p))
    BY BootChoiceBoots
  <2>3. p \in Parts /\ Bootable(p) => Bootable(p)'
    BY <2>1 DEF Bootable, Holds, PageOf, FlashPage
  <2> QED
    BY <2>1, <2>2, <2>3 DEF WayBackInv, BackupPcs, UpdatePcs, LegacyPcs
<1>2. ASSUME NEW i \in Images, NEW flag \in Flags, FlashStart(i, flag) PROVE WayBackInv'
  <2> SUFFICES ASSUME wayBack' PROVE WayBackInv'
    BY DEF WayBackInv
  <2>1. /\ UNCHANGED <<front, cell, tag>> /\ cmd' = [img |-> i, flag |-> flag] /\ srcSize' = meta["A"].size
        /\ pc' = (CASE flag = "legacy" -> "legacyErase" [] BacksUp(flag) -> "bkErase" [] OTHER -> "size")
    BY <1>2 DEF FlashStart, flash
  <2>2. IF BacksUp(flag) THEN Bootable("A") /\ SizeCovers
        ELSE /\ Bootable("B")
             /\ flag = "legacy" => (LastSector(Length[i]) + 1) * SectorPages <= Base["B"]
    BY <1>2 DEF FlashStart, Record
  <2>3. CASE BacksUp(flag)
    <3>1. pc' = "bkErase"
      BY <2>1, <2>3 DEF BacksUp
    <3>2. PICK j \in Images : tag["A"] /\ Holds("A", j) /\ Length[j] <= meta["A"].size
      BY <2>2, <2>3 DEF Bootable, SizeCovers
    <3>3. tag'["A"] /\ Holds("A", j)' /\ Length[j] <= srcSize'
      BY <2>1, <3>2, HoldsSame
    <3> QED
      BY <3>1, <3>3 DEF WayBackInv, BackupPcs, UpdatePcs, LegacyPcs
  <2>4. CASE ~BacksUp(flag)
    <3>1. Bootable("B")'
      BY <2>1, <2>2, <2>4, BootableSame
    <3>2. CASE flag = "legacy"
      <4>1. pc' = "legacyErase" /\ cmd'.img = i
        BY <2>1, <2>4, <3>2
      <4>2. ClearOfB'
        BY <2>2, <2>4, <3>2, <4>1 DEF ClearOfB
      <4> QED
        BY <3>1, <4>1, <4>2 DEF WayBackInv, BackupPcs, UpdatePcs, LegacyPcs
    <3>3. CASE flag # "legacy"
      <4>1. pc' = "size"
        BY <2>1, <2>4, <3>3
      <4> QED
        BY <3>1, <4>1 DEF WayBackInv, BackupPcs, UpdatePcs, LegacyPcs
    <3> QED
      BY <3>2, <3>3
  <2> QED
    BY <2>3, <2>4
<1>3. CASE FlashStep
  BY <1>3, WayBackFlash
<1>4. CASE DebugStep \/ (\E p \in {"A", "B"} : EnableBoot(p)) \/ RpuRestart \/ UNCHANGED vars
  <2>1. UNCHANGED <<front, cell, tag, pc, cmd, srcSize, wayBack>>
    BY <1>4 DEF DebugStep, DebugRead, DebugErase, DebugWrite, EnableBoot, RpuRestart, vars, flash, history
  <2> QED
    BY <2>1, WayBackUnchanged
<1> QED
  BY <1>1, <1>2, <1>3, <1>4 DEF Next, PowerCycle, SystemReset

(* The factory state: A boots.                                             *)
LEMMA WayBackInit == Init => WayBackInv
<1> SUFFICES ASSUME Init PROVE WayBackInv
  OBVIOUS
<1>1. tag["A"] /\ \E i \in Images : Holds("A", i)
  <2>1. tag["A"]
    BY DEF Init, Parts
  <2> QED
    BY <2>1, TagInit DEF TagInv, TagMeansComplete
<1>2. pc = "idle"
  BY DEF Init
<1> QED
  BY <1>1, <1>2 DEF WayBackInv, Bootable, Parts, BackupPcs, UpdatePcs, LegacyPcs

(* Whenever power is lost during a flash command, of whatever kind and     *)
(* after whatever failed before, or a step of it fails, an image can be    *)
(* booted: unless the host had A backed up when it did not boot or was     *)
(* longer than its metadata said, or erased without a backup when B did    *)
(* not boot.                                                               *)
THEOREM BootableAlways == Spec => []SomeImageBootable
<1>1. Init => TagInv /\ LoopInv /\ CopyInv /\ WayBackInv
  BY TagInit, WayBackInit DEF Init, LoopInv, BackupPcs, CopyInv, BackupErased, BackupCopied, BackupDone
<1>2. TypeOK /\ WayBackInv => SomeImageBootable
  <2> SUFFICES ASSUME TypeOK, WayBackInv, wayBack PROVE \E p \in Parts : Bootable(p)
    BY DEF SomeImageBootable
  <2>1. pc = "idle" \/ pc \in BackupPcs \cup UpdatePcs \cup LegacyPcs
    BY DEF TypeOK, Pcs, BackupPcs, UpdatePcs, LegacyPcs
  <2> QED
    BY <2>1 DEF WayBackInv, Bootable, Parts
<1> QED
  BY <1>1, <1>2, TypeInit, TypeStep, TagStep, LoopStep, CopyStep, WayBackStep, PTL DEF Spec

-----------------------------------------------------------------------------
(* The running image                                                       *)

(* An image written at offset 0 has destroyed the FPT.                     *)
LegacyOverFpt ==
  /\ tag["legacy"] => ~fpt
  /\ pc = "legacyErase" /\ at # 0 => ~fpt
  /\ pc = "legacyWrite" => ~fpt

(* Every step keeps LegacyOverFpt.                                         *)
LEMMA LegacyFptStep == TypeOK /\ LegacyOverFpt /\ [Next]_vars => LegacyOverFpt'
<1> SUFFICES ASSUME TypeOK, LegacyOverFpt, [Next]_vars PROVE LegacyOverFpt'
  OBVIOUS
<1>1. CASE LegacyErase
  <2>1. fpt' = (fpt /\ at # 0) /\ pc = "legacyErase" /\ pc' \in LegacyPcs
        /\ tag' = [p \in Parts |-> tag[p] /\ Base[p] + 1 \notin Sector(at)]
    BY <1>1 DEF LegacyErase, LegacyPcs
  <2>2. ~fpt'
    BY <2>1 DEF LegacyOverFpt
  <2> QED
    BY <2>2 DEF LegacyOverFpt
<1>2. CASE LegacyWrite
  BY <1>2 DEF LegacyWrite, LegacyOverFpt
<1>3. ASSUME NEW i \in Images, NEW flag \in Flags, FlashStart(i, flag) PROVE LegacyOverFpt'
  BY <1>3 DEF FlashStart, flash, LegacyOverFpt
<1>4. CASE PowerCycle \/ SystemReset
  BY <1>4 DEF PowerCycle, SystemReset, Boot, flash, LegacyOverFpt
<1>5. CASE DebugStep \/ (\E p \in {"A", "B"} : EnableBoot(p)) \/ RpuRestart \/ UNCHANGED vars
  <2>1. UNCHANGED <<tag, fpt, pc, at>>
    BY <1>5 DEF DebugStep, DebugRead, DebugErase, DebugWrite, EnableBoot, RpuRestart, vars, flash
  <2> QED
    BY <2>1 DEF LegacyOverFpt
<1>6. CASE FlashStep /\ ~LegacyErase /\ ~LegacyWrite
  <2>1. fpt' = fpt /\ pc' \notin LegacyPcs
    BY <1>6 DEF FlashStep, BackupErase, BackupCopy, EraseSector, WritePage, MetaErase, BackupMeta, CheckSize,
                FlashErase, FlashWrite, FlashTag, FlashMeta, FlashFail, flash, LegacyPcs
  <2>2. tag'["legacy"] = tag["legacy"]
    BY <1>6 DEF FlashStep, BackupErase, BackupCopy, EraseSector, MetaErase, BackupMeta, CheckSize,
                FlashErase, FlashWrite, FlashTag, FlashMeta, FlashFail, flash, TypeOK, Parts
  <2> QED
    BY <2>1, <2>2 DEF LegacyOverFpt, LegacyPcs
<1> QED
  BY <1>1, <1>2, <1>3, <1>4, <1>5, <1>6 DEF Next

(* Partition p boots the running image.                                    *)
Keeps(p) == tag[p] /\ Holds(p, running)

(* Where the running image is that careful promises: where it was booted   *)
(* from before a command, in A while A is copied, then in B.               *)
CarefulInv ==
  /\ clean /\ Up /\ pc = "idle" /\ ~flashed => running \in Images /\ Keeps(bootOn)
  /\ careful /\ running \in Images =>
       /\ pc = "idle" => \E p \in Parts : Keeps(p)
       /\ pc \in BackupPcs => Keeps("A") /\ Length[running] <= srcSize
       /\ pc \in UpdatePcs => Keeps("B")
       /\ pc \notin LegacyPcs

(* A careful command starts from A with the backup, or from B without it:  *)
(* after one that succeeded, rh_already_flashed stops it.                  *)
LEMMA CarefulStart ==
  ASSUME TypeOK, LegacyOverFpt, CarefulInv, Up, NEW i \in Images, NEW flag \in Flags, FlashStart(i, flag)
  PROVE  CarefulInv'
<1>1. /\ UNCHANGED <<front, cell, tag, running>> /\ srcSize' = meta["A"].size
      /\ pc = "idle" /\ ~flashed /\ pc' # "idle"
      /\ pc' = (CASE flag = "legacy" -> "legacyErase" [] BacksUp(flag) -> "bkErase" [] OTHER -> "size")
      /\ flag # "legacy" => fpt
  BY DEF FlashStart, Record, Refused, flash, session
<1>2. careful' = (/\ clean
                  /\ \/ BacksUp(flag) /\ SizeCovers
                     \/ flag # "legacy" /\ bootOn = "B")
  BY DEF FlashStart, Record
<1>3. SUFFICES ASSUME careful', running \in Images
               PROVE  /\ pc' \in BackupPcs => Keeps("A")' /\ Length[running] <= srcSize'
                      /\ pc' \in UpdatePcs => Keeps("B")'
                      /\ pc' \notin LegacyPcs
  BY <1>1 DEF CarefulInv
<1>4. Keeps(bootOn)
  BY <1>1, <1>2, <1>3 DEF CarefulInv
<1>5. CASE BacksUp(flag)
  <2>1. pc' = "bkErase" /\ bootOn # "B" /\ fpt
    BY <1>1, <1>5 DEF BacksUp
  <2>2. bootOn = "A"
    BY <1>4, <2>1 DEF TypeOK, Up, LegacyOverFpt, Keeps, Parts
  <2>3. SizeCovers
    BY <1>2, <1>3, <2>1
  <2>4. tag["A"] /\ Holds("A", running) /\ Length[running] <= meta["A"].size
    BY <1>3, <1>4, <2>2, <2>3 DEF SizeCovers, Keeps
  <2>5. Keeps("A")' /\ Length[running] <= srcSize'
    BY <1>1, <2>4 DEF Keeps, Holds, PageOf
  <2> QED
    BY <2>1, <2>5 DEF BackupPcs, UpdatePcs, LegacyPcs
<1>6. CASE ~BacksUp(flag)
  <2>1. flag # "legacy" /\ bootOn = "B"
    BY <1>2, <1>3, <1>6
  <2>2. pc' = "size"
    BY <1>1, <1>6, <2>1
  <2>3. Keeps("B")'
    BY <1>1, <1>4, <2>1 DEF Keeps, Holds, PageOf
  <2> QED
    BY <2>2, <2>3 DEF BackupPcs, UpdatePcs, LegacyPcs
<1> QED
  BY <1>5, <1>6

(* A boot settles on an image that loads and runs it.                      *)
LEMMA CarefulBoot ==
  ASSUME NEW first, Boot(first)
  PROVE  CarefulInv'
<1> PICK p : p = BootChoice(first)
  OBVIOUS
<1>1. /\ pc' = "idle" /\ UNCHANGED <<front, cell, tag>> /\ bootOn' = p
      /\ running' = IF p = NoPart THEN NoImage ELSE ImageIn(p)
  BY DEF Boot, flash
<1>2. p = NoPart \/ (p \in Parts /\ Bootable(p))
  BY BootChoiceBoots
<1>3. CASE p = NoPart
  <2>1. running' \notin Images
    BY <1>1, <1>3, FlashAssumption DEF NoImage
  <2> QED
    BY <1>1, <1>3, <2>1 DEF CarefulInv, Up
<1>4. CASE p # NoPart
  <2>1. p \in Parts /\ tag[p] /\ \E i \in Images : Holds(p, i)
    BY <1>2, <1>4 DEF Bootable
  <2>2. ImageIn(p) \in Images /\ Holds(p, ImageIn(p))
    BY <2>1 DEF ImageIn
  <2>3. running' \in Images /\ tag'[p] /\ Holds(p, running')
    BY <1>1, <1>4, <2>1, <2>2
  <2>4. Keeps(p)'
    BY <1>1, <2>3 DEF Keeps, Holds, PageOf, FlashPage
  <2> QED
    BY <1>1, <2>1, <2>3, <2>4 DEF CarefulInv, BackupPcs, UpdatePcs, LegacyPcs
<1> QED
  BY <1>3, <1>4

(* Every step of a flash command keeps CarefulInv.                         *)
LEMMA CarefulFlash ==
  ASSUME TypeOK, TagInv, LoopInv, CopyInv, CarefulInv, Up, FlashStep
  PROVE  CarefulInv'
<1>1. /\ pc # "idle" /\ pc \in BackupPcs \cup UpdatePcs \cup LegacyPcs
      /\ UNCHANGED <<running, careful>>
  BY DEF FlashStep, BackupErase, BackupCopy, EraseSector, WritePage, MetaErase, BackupMeta, CheckSize, FlashErase,
         FlashWrite, FlashTag, FlashMeta, LegacyErase, LegacyWrite, FlashFail, TypeOK, Pcs,
         BackupPcs, UpdatePcs, LegacyPcs, session, history
<1>2. pc' = "idle" => ~clean' \/ flashed'
  <2>1. CASE LegacyWrite
    <3>1. at \in Nat /\ Length[cmd.img] \in Nat
      BY SizesType DEF TypeOK
    <3>2. pc = "legacyWrite" /\ (at = Length[cmd.img] => flashed') /\ (pc' = "idle" => ~(at < Length[cmd.img]))
      BY <2>1 DEF LegacyWrite
    <3>3. at <= Length[cmd.img]
      BY <3>2 DEF TagInv, LegacyInOrder
    <3>4. ~(at < Length[cmd.img]) => at = Length[cmd.img]
      BY <3>1, <3>3
    <3> QED
      BY <3>2, <3>4
  <2>2. CASE ~LegacyWrite
    BY <2>2 DEF FlashStep, BackupErase, BackupCopy, EraseSector, WritePage, MetaErase, BackupMeta, CheckSize,
                FlashErase, FlashWrite, FlashTag, FlashMeta, LegacyErase, FlashFail
  <2> QED
    BY <2>1, <2>2
<1>3. SUFFICES ASSUME careful, running \in Images
               PROVE  /\ pc' = "idle" => \E p \in Parts : Keeps(p)'
                      /\ pc' \in BackupPcs => Keeps("A")' /\ Length[running] <= srcSize'
                      /\ pc' \in UpdatePcs => Keeps("B")'
                      /\ pc' \notin LegacyPcs
  BY <1>1, <1>2 DEF CarefulInv
<1>4. pc \notin LegacyPcs
  BY <1>3 DEF CarefulInv
<1>5. CASE pc \in BackupPcs
  <2>1. /\ cell'["A"] = cell["A"] /\ tag'["A"] = tag["A"] /\ srcSize' = srcSize
        /\ pc' \in BackupPcs \cup {"size", "idle"}
        /\ pc' = "size" => pc = "bkMeta" /\ cell' = cell /\ tag' = tag
    BY <1>5, BackupLeavesA
  <2>2. tag["A"] /\ Holds("A", running) /\ Length[running] <= srcSize
    BY <1>3, <1>5 DEF CarefulInv, Keeps
  <2>3. Keeps("A")' /\ Length[running] <= srcSize'
    BY <1>1, <2>1, <2>2 DEF Keeps, Holds, PageOf
  <2>4. CASE pc' \in BackupPcs \cup {"idle"}
    BY <2>3, <2>4 DEF Parts, BackupPcs, UpdatePcs, LegacyPcs
  <2>5. CASE pc' = "size"
    <3>1. tag["B"] /\ Holds("B", running)
      BY <1>3, <2>1, <2>2, <2>5, BackupBoots
    <3>2. Keeps("B")'
      BY <1>1, <2>1, <2>5, <3>1 DEF Keeps, Holds, PageOf
    <3> QED
      BY <2>5, <3>2 DEF BackupPcs, UpdatePcs, LegacyPcs
  <2> QED
    BY <2>1, <2>4, <2>5
<1>6. CASE pc \in UpdatePcs
  <2>1. cell'["B"] = cell["B"] /\ tag'["B"] = tag["B"] /\ pc' \in UpdatePcs \cup {"idle"}
    BY <1>6, UpdateLeavesB
  <2>2. Keeps("B")
    BY <1>3, <1>6 DEF CarefulInv
  <2>3. Keeps("B")'
    BY <1>1, <2>1, <2>2 DEF Keeps, Holds, PageOf
  <2> QED
    BY <2>1, <2>3 DEF Parts, BackupPcs, UpdatePcs, LegacyPcs
<1> QED
  BY <1>1, <1>4, <1>5, <1>6

(* Every step keeps CarefulInv.                                            *)
LEMMA CarefulStep ==
  TypeOK /\ TagInv /\ LoopInv /\ CopyInv /\ LegacyOverFpt /\ CarefulInv /\ [Next]_vars => CarefulInv'
<1> SUFFICES ASSUME TypeOK, TagInv, LoopInv, CopyInv, LegacyOverFpt, CarefulInv, [Next]_vars PROVE CarefulInv'
  OBVIOUS
<1>1. CASE PowerCycle \/ SystemReset
  BY <1>1, CarefulBoot DEF PowerCycle, SystemReset
<1>2. ASSUME Up, NEW i \in Images, NEW flag \in Flags, FlashStart(i, flag) PROVE CarefulInv'
  BY <1>2, CarefulStart
<1>3. CASE Up /\ FlashStep
  BY <1>3, CarefulFlash
<1>4. CASE Up /\ RpuRestart
  <2>1. UNCHANGED <<front, cell, tag, pc, srcSize, running, careful>> /\ ~clean'
    BY <1>4 DEF RpuRestart, flash
  <2> QED
    BY <2>1 DEF CarefulInv, Keeps, Holds, PageOf, FlashPage
<1>5. CASE DebugStep \/ (\E p \in {"A", "B"} : EnableBoot(p)) \/ UNCHANGED vars
  <2>1. UNCHANGED <<front, cell, tag, pc, srcSize, running, bootOn, flashed, clean, careful>>
    BY <1>5 DEF DebugStep, DebugRead, DebugErase, DebugWrite, EnableBoot, vars, flash, session, history
  <2> QED
    BY <2>1 DEF CarefulInv, Keeps, Holds, PageOf, FlashPage, Up
<1> QED
  BY <1>1, <1>2, <1>3, <1>4, <1>5 DEF Next

(* The card leaves the factory running what is in A.                       *)
LEMMA CarefulInit == Init => LegacyOverFpt /\ CarefulInv
<1> SUFFICES ASSUME Init PROVE LegacyOverFpt /\ CarefulInv
  OBVIOUS
<1>1. pc = "idle" /\ bootOn = "A" /\ ~tag["legacy"] /\ tag["A"]
  BY DEF Init, Parts
<1>2. PICK i \in Images : /\ Length[i] <= Cap /\ running = i /\ cell["A"] = Loaded(i)
  BY DEF Init
<1>3. Holds("A", running)
  <2>1. Length[i] \in Nat /\ \A k \in 1..Length[i] : k \in Pages
    BY <1>2, SizesType, FlashAssumption DEF Pages, PartPages
  <2> QED
    BY <1>2, <2>1 DEF Holds, PageOf, Loaded
<1>4. Keeps("A")
  BY <1>1, <1>3 DEF Keeps
<1> QED
  BY <1>1, <1>2, <1>4 DEF LegacyOverFpt, CarefulInv, Parts, BackupPcs, UpdatePcs, LegacyPcs

(* From a boot on, as long as no flash command fails, every command that   *)
(* backs the default image up by metadata that cover it, or that is sent   *)
(* to a card that runs from the backup, leaves the image the card runs in  *)
(* A or in B at each of its steps and after it, and after its failure.     *)
THEOREM RunningKept == Spec => []RunningImageKept
<1>1. Init => TagInv /\ LoopInv /\ CopyInv /\ LegacyOverFpt /\ CarefulInv
  BY TagInit, CarefulInit DEF Init, LoopInv, BackupPcs, CopyInv, BackupErased, BackupCopied, BackupDone
<1>2. TypeOK /\ CarefulInv => RunningImageKept
  <2> SUFFICES ASSUME TypeOK, CarefulInv, careful, running \in Images PROVE \E p \in Parts : Keeps(p)
    BY DEF RunningImageKept, Keeps
  <2>1. pc = "idle" \/ pc \in BackupPcs \cup UpdatePcs \cup LegacyPcs
    BY DEF TypeOK, Pcs, BackupPcs, UpdatePcs, LegacyPcs
  <2> QED
    BY <2>1 DEF CarefulInv, Parts
<1> QED
  BY <1>1, <1>2, TypeInit, TypeStep, TagStep, LoopStep, CopyStep, LegacyFptStep, CarefulStep, PTL DEF Spec
=============================================================================
