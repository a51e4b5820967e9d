---------------------------- MODULE FlashUpdate ----------------------------
(***************************************************************************)
(* The base PDI in the boot flash: rmgmt_flash_rpu_pdi, run by the XGQ     *)
(* Program task, backs the default image (partition A) up to partition B,  *)
(* then erases and writes A, the boot tag last, then its metadata.  Power  *)
(* may be lost and any flash operation may fail between any two steps; the *)
(* opcode task may rewrite the metadata of A at the same time.             *)
(*                                                                         *)
(* Flash is kept by pages.  A sector is erased at a time, a page written   *)
(* at a time.  It begins with the sectors of the FPT, then comes A, then   *)
(* B, each followed by a sector of another owner.  A legacy image is at    *)
(* page 1 and may reach over all of them.  Where the metadata are is up to *)
(* the FPT of a card; here they are out of the reach of every image.       *)
(*                                                                         *)
(* The history variables clean, careful and wayBack record what the host   *)
(* has asked for; no other variable depends on them.                       *)
(***************************************************************************)
EXTENDS Integers, FiniteSets

CONSTANTS
  Images,       \* base PDIs
  Length,       \* the number of pages of each of them
  Cap,          \* pages of a partition
  SectorPages,  \* pages of a sector
  FrontSectors, \* sectors in front of A, the FPT in the first of them
  Blank,        \* content of an erased page
  Junk,         \* content of a page written twice without an erase
  Foreign,      \* content of the sectors that belong to no partition
  Flags,        \* the flash types the host asks for
  Restarts,     \* PROGRAM VMR may restart the firmware alone
  DebugCmds     \* the host may send VMR_DEBUG

FrontPages == FrontSectors * SectorPages
(* A partition and the sector that follows it.                             *)
PartPages  == Cap + SectorPages

ASSUME FlashAssumption ==
  /\ IsFiniteSet(Images)
  /\ Blank \notin Images /\ Junk \notin Images /\ Foreign \notin Images
  /\ Blank # Junk /\ Blank # Foreign /\ Junk # Foreign
  /\ Cap \in Nat \ {0} /\ SectorPages \in Nat \ {0} /\ FrontSectors \in Nat \ {0}
  /\ Cap % SectorPages = 0
  /\ Length \in [Images -> 1..FrontPages + 2 * PartPages]
  /\ Flags \subseteq {"default", "no_backup", "legacy"}
  /\ {Restarts, DebugCmds} \subseteq BOOLEAN

(* A and B, and the image at offset 0 of a card without an FPT.            *)
Parts == {"A", "B", "legacy"}
NoPart == "none"
NoImage == Blank

Pages     == 1..PartPages
Sector(n) == n * SectorPages + 1 .. (n + 1) * SectorPages
Content   == Images \cup {Blank, Junk, Foreign}

(* The pages of the flash in front of a partition.                         *)
Base == [A |-> FrontPages, B |-> FrontPages + PartPages, legacy |-> 0]

(* FlashErase: ByteCount / SectSize + 1 sectors, counted from 0.           *)
LastSector(len) == len \div SectorPages

VARIABLES
  front,     \* the pages in front of A
  cell,      \* the pages of A and of B
  tag,       \* the boot tag in the first page of the partition is intact
  meta,      \* the PDI metadata of A and of B
  fpt,       \* the FPT at offset 0 is valid
  pc,        \* where the flash command is
  cmd,       \* the image and the flash type of the command
  at,        \* the next sector or page of the loop it is in
  srcSize,   \* the size of A read from its metadata
  flashed,   \* rh_already_flashed
  bootOn,    \* rh_boot_on_offset: the partition booted from
  multiboot, \* the multi-boot register: where the next boot looks first
  running,   \* the image booted last
  dbg,       \* VMR_DEBUG: its step and the metadata it has read
  clean,     \* since the boot no command failed nor did the firmware restart
  careful,   \* no command since the boot gives up the running image
  wayBack    \* no command since the boot gives up the only image

flash   == <<front, cell, tag, meta, fpt>>
session == <<flashed, bootOn, multiboot, running>>
history == <<clean, careful, wayBack>>
vars    == <<front, cell, tag, meta, fpt, pc, cmd, at, srcSize,
             flashed, bootOn, multiboot, running, dbg, clean, careful, wayBack>>

(* Page n of the flash, and page k of a partition.                         *)
FlashPage(n) == CASE n <= Base["A"] -> front[n]
                  [] Base["A"] < n /\ n <= Base["B"] -> cell["A"][n - Base["A"]]
                  [] OTHER -> cell["B"][n - Base["B"]]
PageOf(p, k) == IF p = "legacy" THEN FlashPage(k) ELSE cell[p][k]

Holds(p, i)  == /\ p # "legacy" => Length[i] <= Cap
                /\ \A k \in 1..Length[i] : PageOf(p, k) = i
Bootable(p)  == tag[p] /\ \E i \in Images : Holds(p, i)
ImageIn(p)   == CHOOSE i \in Images : Holds(p, i)

BlankPart == [k \in Pages |-> IF k <= Cap THEN Blank ELSE Foreign]
Loaded(i) == [k \in Pages |-> IF k <= Length[i] THEN i ELSE IF k <= Cap THEN Blank ELSE Foreign]
NoDbg     == [step |-> "idle", ok |-> FALSE, size |-> 0]

(* A card as it leaves the factory: an image in A, a copy of it or nothing *)
(* in B.                                                                   *)
Init ==
  /\ \E i \in {j \in Images : Length[j] <= Cap}, full \in {{"A"}, {"A", "B"}} :
       /\ cell = [p \in {"A", "B"} |-> IF p \in full THEN Loaded(i) ELSE BlankPart]
       /\ tag = [p \in Parts |-> p \in full]
       /\ meta = [p \in {"A", "B"} |-> [ok |-> TRUE, size |-> IF p \in full THEN Length[i] ELSE 0]]
       /\ running = i
       /\ cmd = [img |-> i, flag |-> "default"]
  /\ front = [k \in 1..FrontPages |-> Foreign] /\ fpt = TRUE
  /\ pc = "idle" /\ at = 0 /\ srcSize = 0
  /\ flashed = FALSE
  /\ bootOn = "A" /\ multiboot = "A"
  /\ dbg = NoDbg
  /\ clean = TRUE /\ careful = TRUE /\ wayBack = TRUE

-----------------------------------------------------------------------------
(* Loops over the flash                                                    *)

(* What a page holds when it is written: bits only go from 1 to 0.         *)
Program(old, new) == IF new = Blank THEN old ELSE IF old \in {Blank, new} THEN new ELSE Junk

(* One sector of an erase of the first len pages of p.                     *)
EraseSector(p, len, step, next) ==
  /\ pc = step
  /\ cell' = [cell EXCEPT ![p] = [k \in Pages |-> IF k \in Sector(at) THEN Blank ELSE @[k]]]
  /\ tag' = [tag EXCEPT ![p] = @ /\ at # 0]
  /\ IF at < LastSector(len)
     THEN pc' = pc /\ at' = at + 1
     ELSE pc' = next /\ at' = 1

(* Seeded fault: one page more than asked for.                             *)
WritePageOneMore(p, c, last, step, next) ==
  /\ pc = step
  /\ cell' = [cell EXCEPT ![p][at] = Program(@, c)]
  /\ IF at <= last
     THEN pc' = pc /\ at' = at + 1
     ELSE pc' = next /\ at' = 0

(* Page at of p is written with content c, page last being the last one.   *)
WritePage(p, c, last, step, next) ==
  /\ pc = step
  /\ cell' = [cell EXCEPT ![p][at] = Program(@, c)]
  /\ IF at < last
     THEN pc' = pc /\ at' = at + 1
     ELSE pc' = next /\ at' = 0

-----------------------------------------------------------------------------
(* rmgmt_flash_rpu_pdi                                                     *)

(* rmgmt_copy_default_to_backup is called.                                 *)
BacksUp(flag) == flag = "default" /\ bootOn # "B"

(* Seeded fault: a second image is accepted before a reboot.               *)
RefusedTwiceAllowed(flag) ==
  \/ flag # "legacy" /\ ~fpt
  \/ BacksUp(flag) /\ ~(meta["A"].ok /\ meta["A"].size \in 1..Cap)

(* A command that is refused before anything is touched: already flashed,  *)
(* no PDI section, no FPT, or, when A is to be backed up, no valid size in *)
(* its metadata or one that B has no room for.                             *)
Refused(flag) ==
  \/ flashed
  \/ flag # "legacy" /\ ~fpt
  \/ BacksUp(flag) /\ ~(meta["A"].ok /\ meta["A"].size \in 1..Cap)

(* The recorded size of A is not less than what A boots.                   *)
SizeCovers == \A i \in Images : tag["A"] /\ Holds("A", i) => Length[i] <= meta["A"].size

(* What the history is told of a command.  It is careful when none since   *)
(* the boot has failed and it backs up what was booted, or that is in B.   *)
(* It leaves a way back when the image it backs up can be booted, or one   *)
(* in B that it does not reach.                                            *)
Record(i, flag) ==
  /\ clean' = clean
  /\ careful' = (/\ clean
                 /\ \/ BacksUp(flag) /\ SizeCovers
                    \/ flag # "legacy" /\ bootOn = "B")
  /\ wayBack' = IF BacksUp(flag)
                THEN Bootable("A") /\ SizeCovers
                ELSE /\ Bootable("B")
                     /\ flag = "legacy" => (LastSector(Length[i]) + 1) * SectorPages <= Base["B"]

(* Seeded fault: A is not backed up.                                       *)
FlashStartNoBackup(i, flag) ==
  /\ pc = "idle"
  /\ ~Refused(flag)
  /\ cmd' = [img |-> i, flag |-> flag]
  /\ pc' = IF flag = "legacy" THEN "legacyErase" ELSE "size"
  /\ srcSize' = meta["A"].size
  /\ at' = 0
  /\ Record(i, flag)
  /\ UNCHANGED <<flash, session, dbg>>

FlashStart(i, flag) ==
  /\ pc = "idle"
  /\ ~Refused(flag)
  /\ cmd' = [img |-> i, flag |-> flag]
  /\ pc' = CASE flag = "legacy" -> "legacyErase"
             [] BacksUp(flag) -> "bkErase"
             [] OTHER -> "size"
  /\ srcSize' = meta["A"].size
  /\ at' = 0
  /\ Record(i, flag)
  /\ UNCHANGED <<flash, session, dbg>>

(* rmgmt_copy_default_to_backup: erase B, copy A page by page (one page    *)
(* more than the size says), then update the metadata of B.                *)
BackupErase ==
  /\ EraseSector("B", srcSize, "bkErase", "bkCopy")
  /\ UNCHANGED <<front, meta, fpt, cmd, srcSize, session, dbg, history>>

(* Seeded fault: the loop stops before the last page.                      *)
BackupCopyOneShort ==
  /\ WritePage("B", cell["A"][at], srcSize - 1, "bkCopy", "bkMetaErase")
  /\ tag' = [tag EXCEPT !["B"] = IF at = 1 THEN tag["A"] ELSE @]
  /\ UNCHANGED <<front, meta, fpt, cmd, srcSize, session, dbg, history>>

BackupCopy ==
  /\ WritePage("B", cell["A"][at], srcSize + 1, "bkCopy", "bkMetaErase")
  /\ tag' = [tag EXCEPT !["B"] = IF at = 1 THEN tag["A"] ELSE @]
  /\ UNCHANGED <<front, meta, fpt, cmd, srcSize, session, dbg, history>>

(* ospi_flash_safe_write of the metadata erases its sector, then writes it *)
(* back.                                                                   *)
MetaErase(p, step, next) ==
  /\ pc = step
  /\ meta' = [meta EXCEPT ![p].ok = FALSE]
  /\ pc' = next
  /\ UNCHANGED <<front, cell, tag, fpt, cmd, at, srcSize, session, dbg, history>>

BackupMeta ==
  /\ pc = "bkMeta"
  /\ meta' = [meta EXCEPT !["B"] = [ok |-> TRUE, size |-> srcSize]]
  /\ pc' = "size"
  /\ UNCHANGED <<front, cell, tag, fpt, cmd, at, srcSize, session, dbg, history>>

(* Seeded fault: the size is not tested.                                   *)
CheckSizeNot ==
  /\ pc = "size"
  /\ pc' = IF meta["A"].ok THEN "erase" ELSE "metaReset"
  /\ at' = 0
  /\ UNCHANGED <<flash, cmd, srcSize, session, dbg, history>>

(* The size of the new image is tested once B has been written; metadata   *)
(* of A that is not valid are erased before the image is.                  *)
CheckSize ==
  /\ pc = "size"
  /\ Length[cmd.img] <= Cap
  /\ pc' = IF meta["A"].ok THEN "erase" ELSE "metaReset"
  /\ at' = 0
  /\ UNCHANGED <<flash, cmd, srcSize, session, dbg, history>>

FlashErase ==
  /\ EraseSector("A", Length[cmd.img], "erase", "write")
  /\ UNCHANGED <<front, meta, fpt, cmd, srcSize, session, dbg, history>>

(* Seeded fault: the boot tag is not masked.                               *)
FlashWriteTagged ==
  /\ WritePage("A", cmd.img, Length[cmd.img], "write", "tag")
  /\ tag' = [tag EXCEPT !["A"] = TRUE]
  /\ UNCHANGED <<front, meta, fpt, cmd, srcSize, session, dbg, history>>

(* The image goes in with its boot tag masked, as an erased word.          *)
FlashWrite ==
  /\ WritePage("A", cmd.img, Length[cmd.img], "write", "tag")
  /\ UNCHANGED <<front, tag, meta, fpt, cmd, srcSize, session, dbg, history>>

FlashTag ==
  /\ pc = "tag"
  /\ tag' = [tag EXCEPT !["A"] = TRUE]
  /\ pc' = "metaErase"
  /\ UNCHANGED <<front, cell, meta, fpt, cmd, at, srcSize, session, dbg, history>>

FlashMeta ==
  /\ pc = "meta"
  /\ meta' = [meta EXCEPT !["A"] = [ok |-> TRUE, size |-> Length[cmd.img]]]
  /\ flashed' = TRUE
  /\ pc' = "idle"
  /\ UNCHANGED <<front, cell, tag, fpt, cmd, at, srcSize, bootOn, multiboot, running, dbg, history>>

(* flash_to_legacy: the image goes to offset 0, over the FPT and whatever  *)
(* it reaches, its size unchecked, with its tag from the first page on.    *)
LegacyErase ==
  /\ pc = "legacyErase"
  /\ front' = [k \in 1..FrontPages |-> IF k \in Sector(at) THEN Blank ELSE front[k]]
  /\ cell' = [p \in {"A", "B"} |->
                [k \in Pages |-> IF Base[p] + k \in Sector(at) THEN Blank ELSE cell[p][k]]]
  /\ tag' = [p \in Parts |-> tag[p] /\ Base[p] + 1 \notin Sector(at)]
  /\ fpt' = (fpt /\ at # 0)
  /\ IF at < LastSector(Length[cmd.img])
     THEN pc' = pc /\ at' = at + 1
     ELSE pc' = "legacyWrite" /\ at' = 1
  /\ UNCHANGED <<meta, cmd, srcSize, session, dbg, history>>

LegacyWrite ==
  /\ pc = "legacyWrite"
  /\ front' = [k \in 1..FrontPages |-> IF k = at THEN Program(front[k], cmd.img) ELSE front[k]]
  /\ cell' = [p \in {"A", "B"} |->
                [k \in Pages |-> IF Base[p] + k = at THEN Program(cell[p][k], cmd.img) ELSE cell[p][k]]]
  /\ tag' = [tag EXCEPT !["legacy"] = TRUE]
  /\ flashed' = (at = Length[cmd.img])
  /\ IF at < Length[cmd.img]
     THEN pc' = pc /\ at' = at + 1
     ELSE pc' = "idle" /\ at' = 0
  /\ UNCHANGED <<meta, fpt, cmd, srcSize, bootOn, multiboot, running, dbg, history>>

(* An operation on the flash fails, or the new image does not fit: the     *)
(* command ends with an error and leaves what was done so far.             *)
FlashFail ==
  /\ pc # "idle"
  /\ pc' = "idle"
  /\ clean' = FALSE
  /\ UNCHANGED <<flash, cmd, at, srcSize, session, dbg, careful, wayBack>>

FlashStep ==
  \/ BackupErase \/ BackupCopy \/ MetaErase("B", "bkMetaErase", "bkMeta") \/ BackupMeta
  \/ CheckSize \/ MetaErase("A", "metaReset", "erase")
  \/ FlashErase \/ FlashWrite \/ FlashTag \/ MetaErase("A", "metaErase", "meta") \/ FlashMeta
  \/ LegacyErase \/ LegacyWrite
  \/ FlashFail

-----------------------------------------------------------------------------
(* rmgmt_fpt_set_debug_type, run by the opcode task: the metadata of A are *)
(* read, and written back with another debug type.                         *)

DebugRead ==
  /\ DebugCmds /\ fpt
  /\ dbg.step = "idle"
  /\ dbg' = [step |-> "erase", ok |-> meta["A"].ok, size |-> meta["A"].size]
  /\ UNCHANGED <<flash, pc, cmd, at, srcSize, session, history>>

DebugErase ==
  /\ dbg.step = "erase"
  /\ meta' = [meta EXCEPT !["A"].ok = FALSE]
  /\ dbg' = [dbg EXCEPT !.step = "write"]
  /\ UNCHANGED <<front, cell, tag, fpt, pc, cmd, at, srcSize, session, history>>

DebugWrite ==
  /\ dbg.step = "write"
  /\ meta' = [meta EXCEPT !["A"] = [ok |-> dbg.ok, size |-> dbg.size]]
  /\ dbg' = NoDbg
  /\ UNCHANGED <<front, cell, tag, fpt, pc, cmd, at, srcSize, session, history>>

DebugStep == DebugRead \/ DebugErase \/ DebugWrite

-----------------------------------------------------------------------------
(* Boot.  The boot ROM and the PLM start at the multi-boot offset and go   *)
(* on to the next image when one does not load.                            *)
Layout == <<"legacy", "A", "B">>
BootChoice(first) ==
  LET ok == {n \in DOMAIN Layout : Bootable(Layout[n]) /\ \E m \in 1..n : Layout[m] = first}
  IN IF ok = {} THEN NoPart ELSE Layout[CHOOSE n \in ok : \A m \in ok : n <= m]

(* The register value rmgmt_enable_boot_default and _backup write: without *)
(* an FPT the offset of either partition reads as 0.                       *)
BootOffset(p) == IF fpt THEN p ELSE "legacy"

(* The card boots: cl_rmgmt_init keeps the offset it was booted from and   *)
(* has the next boot start from A.                                         *)
Boot(first) ==
  LET p == BootChoice(first) IN
  /\ bootOn' = p
  /\ running' = IF p = NoPart THEN NoImage ELSE ImageIn(p)
  /\ multiboot' = BootOffset("A")
  /\ flashed' = FALSE
  /\ pc' = "idle" /\ at' = 0 /\ srcSize' = 0
  /\ dbg' = NoDbg
  /\ clean' = TRUE /\ careful' = TRUE /\ wayBack' = (p # NoPart)
  /\ UNCHANGED <<flash, cmd>>

(* A power cycle comes at any time; the register comes up as 0.            *)
PowerCycle == Boot("legacy")
(* A reset of the system keeps the register.                               *)
SystemReset == Boot(multiboot)

(* VMR_CONTROL MULTIBOOT_BACKUP and MULTIBOOT_DEFAULT.                     *)
EnableBoot(p) ==
  /\ multiboot' = BootOffset(p)
  /\ UNCHANGED <<flash, pc, cmd, at, srcSize, flashed, bootOn, running, dbg, history>>

(* PROGRAM VMR restarts the firmware alone: rmgmt_init_handler and         *)
(* cl_rmgmt_init run again and read the register, which the last start has *)
(* already pointed at A.                                                   *)
RpuRestart ==
  /\ Restarts
  /\ pc = "idle"
  /\ flashed' = FALSE
  /\ bootOn' = multiboot
  /\ multiboot' = BootOffset("A")
  /\ dbg' = NoDbg
  /\ clean' = FALSE
  /\ UNCHANGED <<flash, pc, cmd, at, srcSize, running, careful, wayBack>>

(* Nothing runs on a card that found no image to boot, until it is power   *)
(* cycled.                                                                 *)
Up == bootOn # NoPart

Next ==
  \/ PowerCycle
  \/ Up /\ \/ \E i \in Images, flag \in Flags : FlashStart(i, flag)
           \/ FlashStep
           \/ DebugStep
           \/ SystemReset
           \/ \E p \in {"A", "B"} : EnableBoot(p)
           \/ RpuRestart

Spec == Init /\ [][Next]_vars

-----------------------------------------------------------------------------
Pcs == {"idle", "bkErase", "bkCopy", "bkMetaErase", "bkMeta", "size", "metaReset", "erase",
        "write", "tag", "metaErase", "meta", "legacyErase", "legacyWrite"}
Meta == [ok : BOOLEAN, size : Nat]

(* The type invariant of the flash update, with the bound of the copy loop.*)
TypeOK ==
  /\ front \in [1..FrontPages -> Content]
  /\ cell \in [{"A", "B"} -> [Pages -> Content]]
  /\ tag \in [Parts -> BOOLEAN]
  /\ meta \in [{"A", "B"} -> Meta]
  /\ fpt \in BOOLEAN
  /\ pc \in Pcs
  /\ cmd \in [img : Images, flag : {"default", "no_backup", "legacy"}]
  /\ at \in Nat
  /\ pc = "bkCopy" => at \in 1..srcSize + 1
  /\ srcSize \in Nat
  /\ flashed \in BOOLEAN
  /\ bootOn \in Parts \cup {NoPart} /\ multiboot \in Parts
  /\ running \in Images \cup {NoImage}
  /\ dbg \in [step : {"idle", "erase", "write"}, ok : BOOLEAN, size : Nat]
  /\ {clean, careful, wayBack} \subseteq BOOLEAN

(* The boot tag of A is only there when the whole image is: whenever power *)
(* is lost, A either boots an image as it was sent or is passed over       *)
(* ("restore back to XLNX to enable boot").                                *)
TagMeansComplete == tag["A"] => \E i \in Images : Holds("A", i)

(* At every moment a power cycle would find an image to boot, unless the   *)
(* host has sent a command that backs up a default image that does not     *)
(* boot or is longer than its metadata say, or one without a backup while  *)
(* B does not boot.                                                        *)
SomeImageBootable == wayBack => \E p \in Parts : Bootable(p)

(* The image the card runs, the last one known to work, stays in the flash *)
(* for as long as no reboot has shown that a newer one works, whatever the *)
(* host sends after a flash that succeeded; unless it flashes without the  *)
(* backup, tries again after a failure without a reboot, or relies on      *)
(* metadata that are out of date.                                          *)
RunningImageKept == careful /\ running \in Images => \E p \in Parts : tag[p] /\ Holds(p, running)

(* "Otherwise backup A to B": when the backup is done, B boots the image   *)
(* that A does, if that is as long as the metadata of A say, or shorter.   *)
BackupIsDefault ==
  pc \in {"bkMetaErase", "bkMeta"} =>
    \A i \in Images : tag["A"] /\ Holds("A", i) /\ Length[i] <= srcSize => tag["B"] /\ Holds("B", i)

(* Nothing is written over B unless A can be booted: a default image that  *)
(* might be corrupted is not copied over the backup.                       *)
BackupOnlyWhileDefaultBoots ==
  [][cell'["B"] # cell["B"] => Bootable("A")]_vars

Behind == Cap + 1 .. PartPages

(* The sector behind a partition is touched only by a command that fills   *)
(* the partition to its last page, or for a legacy image that reaches it.  *)
NeighbourOnlyWhenFull ==
  [][\A p \in {"A", "B"}, k \in Behind :
       cell'[p][k] # cell[p][k] =>
         CASE cmd.flag = "legacy" -> Base[p] + k <= (LastSector(Length[cmd.img]) + 1) * SectorPages
           [] cmd.flag # "legacy" /\ p = "A" -> Length[cmd.img] = Cap
           [] OTHER -> srcSize = Cap]_vars
=============================================================================
