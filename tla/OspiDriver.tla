----------------------------- MODULE OspiDriver -----------------------------
(***************************************************************************)
(* The driver of the boot flash (common/cl_ospi_polled.c), command by      *)
(* command: the flash is one chip, or two stacked chips seen as a line of  *)
(* addresses.  A chip obeys an erase or a program once after each write    *)
(* enable, and nothing but a status read while it is busy.  One caller at  *)
(* a time; a call begins when the chips are at rest.                       *)
(*                                                                         *)
(* Addresses and lengths count cells: a cell is the 8 bytes of one program *)
(* command, which are never programmed in part.                            *)
(***************************************************************************)
EXTENDS Integers, Sequences

CONSTANTS
  Stacked,      \* XOSPIPSV_CONNECTION_MODE_STACKED
  PageCells, SectorCells,
  ChipCells,    \* FlashDeviceSize
  NumDie,
  Calls,        \* calls of the rest of the program: [kind, addr, len, tgt]
  Retries,      \* of pollTransfer
  MaxCalls,     \* calls, at most
  MaxFaults,    \* transfers that fail, at most
  MaxLost       \* programs a chip acknowledges and does not do, at most

ASSUME OspiAssumption ==
  /\ Stacked \in BOOLEAN
  /\ {PageCells, SectorCells, ChipCells, NumDie} \subseteq Nat \ {0}
  /\ SectorCells % PageCells = 0 /\ ChipCells % SectorCells = 0 /\ ChipCells % NumDie = 0
  /\ {Retries, MaxCalls, MaxFaults, MaxLost} \subseteq Nat
  /\ Calls \subseteq [kind : {"read", "erase", "write", "copy", "safe"}, addr : Nat, len : Nat \ {0}, tgt : Nat]

Chips == IF Stacked THEN {0, 1} ELSE {0}
Total == IF Stacked THEN 2 * ChipCells ELSE ChipCells

(* Contents: a cell holds its own address at first, later the number of a  *)
(* cell of the host's buffer.                                              *)
Blank == -1
Junk == -2        \* programmed twice
Beyond == -3      \* what follows a buffer in memory
Garbage == -4     \* read from a chip that is busy
Host(i) == Total + i

VARIABLES
  mem,     \* the cells of each chip
  chip,    \* each chip: write enable latch, busy, 4-byte addresses
  cs,      \* the chip selected
  pc,      \* the transfer that comes next
  call,    \* the call under way, or the last one
  todo,    \* the reads, erases and writes it still has to do
  pos,     \* cells, sectors or dies done of the first of them
  take,    \* BytesToRead
  buf,     \* what was read last
  tries,   \* of pollTransfer
  result,  \* of the last call
  before,  \* mem when the call began
  count    \* what was used of the bounds

chipVars == <<mem, chip>>
callVars == <<call, before>>
vars == <<mem, chip, cs, pc, call, todo, pos, take, buf, tries, result, before, count>>

NoCall == [kind |-> "init", addr |-> 0, len |-> 0, tgt |-> 0]

(* Power on: XOspiPsv_DeviceReset, and the controller set up for chip 0.   *)
Init ==
  /\ mem = [c \in Chips |-> [a \in 0..ChipCells-1 |-> c * ChipCells + a]]
  /\ chip = [c \in Chips |-> [wel |-> FALSE, busy |-> FALSE, four |-> FALSE]]
  /\ cs = 0 /\ pc = "id"
  /\ call = NoCall /\ todo = <<>> /\ pos = 0 /\ take = 0 /\ buf = <<>> /\ tries = 0
  /\ result = "none" /\ before = mem
  /\ count = [call |-> 0, fault |-> 0, lost |-> 0]

-----------------------------------------------------------------------------
(* The chips                                                               *)

(* What a cell holds when it is programmed: bits only go from 1 to 0.      *)
Program(old, new) == IF new = Blank THEN old ELSE IF old \in {Blank, new} THEN new ELSE Junk

(* A command: what to do, where, and with which content.                   *)
Cmd(do, at, data) == [do |-> do, at |-> at % ChipCells, data |-> data]
Plain(do) == Cmd(do, 0, Blank)

(* The cells a command is about.  Of the four bytes of an address, a chip  *)
(* that is not set up for them takes the upper three, which are 0 here.    *)
Cells(c, cmd) ==
  LET at == IF chip[c].four THEN cmd.at ELSE 0
  IN CASE cmd.do = "erase"   -> {a \in 0..ChipCells-1 : a \div SectorCells = at \div SectorCells}
       [] cmd.do = "die"     -> {a \in 0..ChipCells-1 : a \div (ChipCells \div NumDie) = at}
       [] cmd.do = "program" -> {at}
       [] OTHER              -> {}

(* Chip c sees a command, unless it is busy.                               *)
Obey(c, cmd) ==
  IF chip[c].busy THEN UNCHANGED chipVars
  ELSE /\ chip' = [chip EXCEPT ![c] =
            [wel  |-> cmd.do = "wren" \/ (chip[c].wel /\ cmd.do \in {"id", "status", "read"}),
             busy |-> chip[c].wel /\ cmd.do \in {"erase", "die", "program"},
             four |-> chip[c].four \/ (chip[c].wel /\ cmd.do = "enter4")]]
       /\ mem' = IF ~chip[c].wel THEN mem
                 ELSE [mem EXCEPT ![c] = [a \in 0..ChipCells-1 |->
                         IF a \in Cells(c, cmd) THEN IF cmd.do = "program" THEN Program(@[a], cmd.data) ELSE Blank
                                             ELSE @[a]]]

(* A chip has done what it was told.                                       *)
ChipDone(c) ==
  /\ chip[c].busy
  /\ chip' = [chip EXCEPT ![c].busy = FALSE]
  /\ UNCHANGED <<mem, cs, pc, callVars, todo, pos, take, buf, tries, result, count>>

-----------------------------------------------------------------------------
(* Addresses: GetRealAddr selects the chip; what is left of the address    *)
(* wraps round in it.                                                      *)

(* Seeded fault: the second chip is never selected.                        *)
ChipOfFirst(a) == 0

ChipOf(a) == IF Stacked /\ (a \div ChipCells) % 2 = 1 THEN 1 ELSE 0
At(m, a) == m[ChipOf(a)][a % ChipCells]

(* FlashRead: a read that meets the end of the first chip is cut there.    *)
FirstTake(s) ==
  IF Stacked /\ s.addr < ChipCells /\ s.addr + s.len >= ChipCells THEN ChipCells - s.addr ELSE s.len

(* FlashErase: sectors to erase, and one more when the range has another   *)
(* sector at its end than the count says.                                  *)
NumSect(s) ==
  LET n == s.len \div SectorCells + 1
  IN IF (s.addr + s.len) \div SectorCells = (s.addr + n * SectorCells) \div SectorCells THEN n + 1 ELSE n

(* What a write programs: of the host's buffer, of what was read, or of    *)
(* both (ospi_flash_safe_write).                                           *)
Data(s, i) ==
  CASE s.from = "buf"    -> buf[i + 1]
    [] s.from = "host"   -> IF i < s.len THEN Host(i) ELSE Beyond
    [] s.from = "merged" -> IF i < call.len % SectorCells
                            THEN Host(call.len - (call.len % SectorCells) + i) ELSE buf[i + 1]

PageCount(s) == (s.len + PageCells - 1) \div PageCells

-----------------------------------------------------------------------------
(* Calls                                                                   *)

Sub(do, addr, len, from) == [do |-> do, addr |-> addr, len |-> len, from |-> from]

(* Seeded fault: the sector is not written back.                           *)
SafePlanNoWriteBack(c) == <<Sub("erase", c.addr, c.len, "none"), Sub("write", c.addr, c.len, "host")>>

(* ospi_flash_safe_write: a last sector that is not written whole is read, *)
(* and written again with what is new in it, once it has been erased.      *)
SafePlan(c) ==
  LET last  == c.addr + c.len - (c.len % SectorCells)
      erase == Sub("erase", c.addr, c.len, "none")
      write == Sub("write", c.addr, c.len, "host")
  IN IF c.len % SectorCells = 0 THEN <<erase, write>>
     ELSE <<Sub("read", last, SectorCells, "none"), erase, write, Sub("write", last, SectorCells, "merged")>>

(* ospi_flash_copy: page by page, and one page more than asked for.        *)
CopyPlan(c) ==
  [k \in 1..2 * (c.len \div PageCells + 1) |->
     IF k % 2 = 1 THEN Sub("read", c.addr + ((k - 1) \div 2) * PageCells, PageCells, "none")
                  ELSE Sub("write", c.tgt + ((k - 1) \div 2) * PageCells, PageCells, "buf")]

Plan(c) ==
  CASE c.kind = "read"  -> <<Sub("read", c.addr, c.len, "none")>>
    [] c.kind = "erase" -> <<Sub("erase", c.addr, c.len, "none")>>
    [] c.kind = "write" -> <<Sub("write", c.addr, c.len, "host")>>
    [] c.kind = "copy"  -> CopyPlan(c)
    [] c.kind = "safe"  -> SafePlan(c)

(* The first transfer of a part of the call.                               *)
Begin(s) ==
  /\ pos' = 0
  /\ take' = IF s.do = "read" THEN FirstTake(s) ELSE 0
  /\ pc' = CASE s.do = "read"  -> "read"
             [] s.do = "write" -> "wrenWrite"
             [] s.do = "erase" -> IF s.len = Total THEN "wrenDie" ELSE "wrenErase"

End(r) == pc' = "idle" /\ todo' = <<>> /\ pos' = 0 /\ take' = 0 /\ result' = r

(* A part of the call has succeeded.                                       *)
Through ==
  IF Len(todo) > 1
  THEN todo' = Tail(todo) /\ Begin(todo[2]) /\ UNCHANGED result
  ELSE End("ok")

(* The next cell, sector or die of the same part.                          *)
Onward(step, to) == pc' = step /\ pos' = to /\ UNCHANGED <<todo, take, result>>

(* A call; ospi_flash_safe_write tests a bit of the offset, and may find   *)
(* no memory for the sector it has to read back.                           *)
Call(c) ==
  /\ pc = "idle" /\ count.call < MaxCalls
  /\ \A k \in Chips : ~chip[k].busy
  /\ call' = c /\ before' = mem
  /\ count' = [count EXCEPT !.call = @ + 1]
  /\ IF c.kind = "safe" /\ (c.addr \div PageCells) % 2 = 1
     THEN End("failed")
     ELSE \/ todo' = Plan(c) /\ Begin(Plan(c)[1]) /\ result' = "none"
          \/ c.kind = "safe" /\ c.len % SectorCells # 0 /\ End("failed")
  /\ UNCHANGED <<chipVars, cs, buf, tries>>

-----------------------------------------------------------------------------
(* Transfers                                                               *)

(* A transfer of cmd to chip c fails, for good or, when it is one of       *)
(* pollTransfer's with tries left, to be sent again; the chip may have     *)
(* seen it.                                                                *)
Fails(c, cmd, poll, failed) ==
  /\ count.fault < MaxFaults /\ count' = [count EXCEPT !.fault = @ + 1]
  /\ cs' = c
  /\ Obey(c, cmd) \/ UNCHANGED chipVars
  /\ IF poll /\ tries < Retries
     THEN tries' = tries + 1 /\ UNCHANGED <<pc, todo, pos, take, result>>
     ELSE tries' = 0 /\ failed
  /\ UNCHANGED <<callVars, buf>>

(* Transfer step sends cmd to chip c, and next is sent after it.           *)
Send(step, c, cmd, poll, next, failed) ==
  /\ pc = step
  /\ \/ /\ cs' = c /\ Obey(c, cmd) /\ tries' = 0
        /\ Onward(next, pos)
        /\ UNCHANGED <<callVars, buf, count>>
     \/ Fails(c, cmd, poll, failed)

(* Transfer step reads the status until the chip is ready.                 *)
Status(step, poll, ready, failed) ==
  /\ pc = step
  /\ \/ /\ tries' = 0 /\ UNCHANGED <<chipVars, cs, callVars, buf, count>>
        /\ IF chip[cs].busy THEN Onward(pc, pos) ELSE ready
     \/ Fails(cs, Plain("status"), poll, failed)

-----------------------------------------------------------------------------
(* ospi_flash_init: the first chip is identified; each is put into SDR     *)
(* mode, which is read back, and made to take addresses of 4 bytes.  What  *)
(* else may go wrong, an unknown chip say, counts as a transfer that fails.*)
Down == pc' = "down" /\ result' = "failed" /\ UNCHANGED <<todo, pos, take>>

Setup(step, cmd, next) == Send(step, cs, cmd, TRUE, next, Down)

SetUpDone ==
  /\ pc = "select"
  /\ IF Stacked /\ cs = 0 THEN cs' = 1 /\ pc' = "wrenConfig" ELSE cs' = cs /\ pc' = "idle"
  /\ UNCHANGED <<chipVars, callVars, todo, pos, take, buf, tries, result, count>>

FlashReadID == Setup("id", Plain("id"), "wrenConfig")
FlashSetSDRDDRMode ==
  \/ Setup("wrenConfig", Plain("wren"), "config")
  \/ Setup("config", Plain("config"), "readConfig")
  \/ Setup("readConfig", Plain("read"), "wrenFour")
FlashEnter4BAddMode ==
  \/ Setup("wrenFour", Plain("wren"), "enter4")
  \/ Setup("enter4", Plain("enter4"), "statusFour")
  \/ Status("statusFour", TRUE, \E next \in {"disable", "select"} : Onward(next, pos), Down)
  \/ Setup("disable", Plain("wrdi"), "select")   \* only if it is a Micron

-----------------------------------------------------------------------------
Part == Head(todo)

(* FlashErase, by sectors.                                                 *)
SectorAddr == Part.addr + pos * SectorCells
EraseSector ==
  \/ Send("wrenErase", ChipOf(SectorAddr), Plain("wren"), TRUE, "erase", End("failed"))
  \/ Send("erase", cs, Cmd("erase", SectorAddr, Blank), TRUE, "statusErase", End("failed"))
  \/ Status("statusErase", TRUE,
            IF pos + 1 < NumSect(Part) THEN Onward("wrenErase", pos + 1) ELSE Through,
            End("failed"))

(* FlashErase of the whole flash: BulkErase, or DieErase, for each chip;   *)
(* what they return is not looked at.                                      *)
NextChip ==
  LET c == pos \div NumDie + 1
  IN IF c \in Chips THEN Onward("wrenDie", c * NumDie) ELSE Through
EraseDie ==
  \/ Send("wrenDie", pos \div NumDie, Plain("wren"), TRUE, "die", NextChip)
  \/ Send("die", cs, Cmd("die", pos % NumDie, Blank), TRUE, "statusDie", NextChip)
  \/ Status("statusDie", TRUE,
            IF (pos + 1) % NumDie # 0 THEN Onward("wrenDie", pos + 1) ELSE NextChip,
            NextChip)

(* Seeded fault: the count of the bytes left is not brought down.          *)
NextCellStuck == Onward("wrenWrite", pos)

NextCell ==
  IF pos + 1 < PageCount(Part) * PageCells THEN Onward("wrenWrite", pos + 1) ELSE Onward("verify", 0)

(* FlashIoWrite, for every page of ospi_flash_write.  A chip may also      *)
(* acknowledge a program it does not do.                                   *)
FlashIoWrite ==
  \/ Send("wrenWrite", ChipOf(Part.addr + pos), Plain("wren"), FALSE, "program", End("failed"))
  \/ Send("program", cs, Cmd("program", Part.addr + pos, Data(Part, pos)), FALSE, "statusWrite", End("failed"))
  \/ /\ pc = "program" /\ count.lost < MaxLost
     /\ count' = [count EXCEPT !.lost = @ + 1]
     /\ chip' = [chip EXCEPT ![cs].wel = FALSE]
     /\ Onward("statusWrite", pos)
     /\ UNCHANGED <<mem, cs, callVars, buf, tries>>
  \/ Status("statusWrite", FALSE, NextCell, End("failed"))

(* What chip c gives out at address a.                                     *)
Out(c, a) == IF chip[c].busy THEN Garbage ELSE mem[c][a % ChipCells]

(* The read back of ospi_flash_write: the first page, and some of the      *)
(* others.  A page whose first word is not blank is good.  Which others is *)
(* a count modulo a tenth of the pages: with fewer than ten of them it is  *)
(* divided by zero, which takes any of them, none, or traps.               *)
Trap == pc' = "trap" /\ todo' = <<>> /\ pos' = 0 /\ take' = 0 /\ result' = "failed"

Verify ==
  /\ pc = "verify"
  /\ LET a       == Part.addr + pos * PageCells
         c       == ChipOf(a)
         differs == \E i \in 0..PageCells-1 :
                      /\ pos * PageCells + i < Part.len
                      /\ Out(c, a + i) # Data(Part, pos * PageCells + i)
     IN \/ /\ cs' = c
           /\ IF Out(c, a) = Blank /\ differs THEN End("failed")
              ELSE \/ \E p \in pos + 1 .. PageCount(Part) - 1 : Onward("verify", p)
                   \/ Through
                   \/ PageCount(Part) \in 2..9 /\ Trap
           /\ UNCHANGED <<chipVars, callVars, buf, tries, count>>
        \/ Fails(c, Plain("read"), FALSE, End("failed"))

(* FlashRead.                                                              *)
FlashRead ==
  /\ pc = "read"
  /\ LET a == Part.addr + pos
         c == ChipOf(a)
     IN \/ /\ cs' = c
           /\ buf' = (IF pos = 0 THEN <<>> ELSE buf) \o [i \in 1..take |-> Out(c, a + i - 1)]
           /\ IF pos + take = Part.len THEN Through
              ELSE pos' = pos + take /\ take' = Part.len - take /\ UNCHANGED <<pc, todo, result>>
           /\ UNCHANGED <<chipVars, callVars, tries, count>>
        \/ Fails(c, Plain("read"), FALSE, End("failed"))

-----------------------------------------------------------------------------
DriverStep ==
  \/ FlashReadID \/ FlashSetSDRDDRMode \/ FlashEnter4BAddMode \/ SetUpDone
  \/ EraseSector \/ EraseDie \/ FlashIoWrite \/ Verify \/ FlashRead

Next ==
  \/ DriverStep
  \/ \E c \in Calls : Call(c)
  \/ \E c \in Chips : ChipDone(c)

(* The caller's task runs on, and a chip ends what it has begun.           *)
Spec == Init /\ [][Next]_vars /\ WF_vars(DriverStep) /\ \A c \in Chips : WF_vars(ChipDone(c))

-----------------------------------------------------------------------------
(* The type invariant.                                                     *)
TypeOK ==
  /\ chip \in [Chips -> [wel : BOOLEAN, busy : BOOLEAN, four : BOOLEAN]]
  /\ cs \in Chips /\ take >= 0 /\ pos >= 0 /\ tries \in 0..Retries
  /\ result \in {"none", "ok", "failed"}
  /\ pc \in {"idle", "down", "trap"} => todo = <<>>

Span(a, len) == {x % Total : x \in a .. a + len - 1}
SectorsOf(a, len) == {x \in 0..Total-1 : \E y \in Span(a, len) : x \div SectorCells = y \div SectorCells}

(* Where a call may leave its mark: the sectors of what it erases, one     *)
(* more when the range ends at the end of one, the pages of what it        *)
(* writes.                                                                 *)
Reach(c) ==
  CASE c.kind = "read"  -> {}
    [] c.kind \in {"erase", "safe"} -> SectorsOf(c.addr, IF c.len = Total THEN c.len ELSE c.len + 1)
    [] c.kind = "write" -> Span(c.addr, ((c.len + PageCells - 1) \div PageCells) * PageCells)
    [] c.kind = "copy"  -> Span(c.tgt, (c.len \div PageCells + 1) * PageCells)
    [] OTHER            -> {}

(* Whatever a call does, and wherever it fails, it leaves the cells of     *)
(* its neighbours alone.                                                   *)
StaysInReach == \A a \in 0..Total-1 : a \notin Reach(call) => At(mem, a) = At(before, a)

Was(a) == At(before, a % Total)
Is(a)  == At(mem, a % Total)
WasBlank(a, len) == \A x \in Span(a, len) : Was(x) = Blank

(* A call that returns 0 has done what it was asked for, on one chip or    *)
(* across two: what was read is what is there; what was erased is blank,   *)
(* of the whole flash if no transfer failed; what was written or copied    *)
(* onto blank cells is there, and if the chip has not done a program, then *)
(* the first page is not blank at its first cell; a safe write keeps what  *)
(* its sectors held besides ("a reliabe write should read sector back").   *)
OkMeansDone ==
  pc = "idle" /\ result = "ok" =>
    CASE call.kind = "read"  -> buf = [i \in 1..call.len |-> Is(call.addr + i - 1)]
      [] call.kind = "erase" ->
           call.len # Total \/ count.fault = 0 => \A x \in Span(call.addr, call.len) : Is(x) = Blank
      [] call.kind = "write" ->
           WasBlank(call.addr, call.len) =>
             /\ count.lost = 0 => \A i \in 0..call.len-1 : Is(call.addr + i) = Host(i)
             /\ Is(call.addr) # Blank
      [] call.kind = "copy"  ->
           WasBlank(call.tgt, call.len) /\ count.lost = 0 =>
             \A i \in 0..call.len-1 : Is(call.tgt + i) = Was(call.addr + i)
      [] call.kind = "safe"  ->
           count.lost = 0 /\ call.addr % SectorCells = 0 /\ call.len % PageCells = 0 =>
             \A x \in SectorsOf(call.addr, call.len) :
               Is(x) = IF x - call.addr \in 0..call.len-1 THEN Host(x - call.addr) ELSE Was(x)
      [] OTHER -> TRUE

(* Every call ends, as long as the chips get ready (the waits for them     *)
(* have no bound of their own), or its read back traps.                    *)
EveryCallEnds == (pc \notin {"idle", "down", "trap"}) ~> (pc \in {"idle", "down", "trap"})
=============================================================================
