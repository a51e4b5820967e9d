-------------------------- MODULE OspiDriverProofs --------------------------
(***************************************************************************)
(* Theorems about the flash driver, for every geometry of the chips and    *)
(* every set of calls.                                                     *)
(***************************************************************************)
EXTENDS OspiDriver, TLAPS

-----------------------------------------------------------------------------
(* Quotients and remainders.  A quotient is known by its remainder.        *)
LEMMA Quotient ==
  ASSUME NEW n \in Nat \ {0}, NEW q \in Int, NEW r \in 0..n-1
  PROVE  (n * q + r) \div n = q /\ (n * q + r) % n = r
<1> DEFINE x == n * q + r
           d == x \div n
           s == x % n
<1>1. n * q \in Int /\ x \in Int
  OBVIOUS
<1>2. d \in Int /\ s \in 0..n-1 /\ x = n * d + s
  BY <1>1
<1>3. n * (q - d) = n * q - n * d /\ n * q \in Int /\ n * d \in Int
  BY <1>2
<1>4. n * (q - d) = s - r
  BY <1>2, <1>3
<1>5. \A k \in Int : k > 0 => n * k >= n
  OBVIOUS
<1>6. \A k \in Int : k < 0 => n * k <= -n
  OBVIOUS
<1>7. s - r < n /\ s - r > -n
  BY <1>2
<1>8. q - d \in Int
  BY <1>2
<1>9. ~(q - d > 0) /\ ~(q - d < 0)
  <2> HIDE DEF d, s
  <2> QED
    BY <1>2, <1>4, <1>5, <1>6, <1>7, <1>8
<1>10. q = d
  BY <1>2, <1>9
<1>11. s = r
  BY <1>2, <1>4, <1>10
<1> QED
  BY <1>10, <1>11

(* What there is to know of the quotient and the remainder of a number.    *)
LEMMA Divide ==
  ASSUME NEW n \in Nat \ {0}, NEW x \in Int
  PROVE  /\ x \div n \in Int /\ x % n \in 0..n-1
         /\ x = n * (x \div n) + (x % n)
         /\ x >= 0 => x \div n >= 0
<1>1. x \div n \in Int /\ x % n \in 0..n-1 /\ x = n * (x \div n) + (x % n)
  OBVIOUS
<1>2. ASSUME x >= 0, x \div n < 0 PROVE FALSE
  <2> DEFINE d == x \div n
             s == x % n
  <2>1. d \in Int /\ s \in 0..n-1 /\ x = n * d + s /\ d < 0
    BY <1>1, <1>2
  <2>2. \A k \in Int : k < 0 => n * k <= -n
    OBVIOUS
  <2> HIDE DEF d, s
  <2>3. n * d <= -n /\ n * d \in Int
    BY <2>1, <2>2
  <2> QED
    BY <1>2, <2>1, <2>3
<1> QED
  BY <1>1, <1>2

(* A number of n's more moves the quotient by that number, and leaves the  *)
(* remainder.                                                              *)
LEMMA Shift ==
  ASSUME NEW n \in Nat \ {0}, NEW k \in Int, NEW x \in Int
  PROVE  (n * k + x) \div n = k + x \div n /\ (n * k + x) % n = x % n
<1> DEFINE d == x \div n
           s == x % n
<1>1. d \in Int /\ s \in 0..n-1 /\ x = n * d + s
  BY Divide
<1>2. n * (k + d) = n * k + n * d /\ n * k \in Int /\ n * d \in Int /\ k + d \in Int
  BY <1>1
<1> HIDE DEF d, s
<1>3. n * k + x = n * (k + d) + s
  BY <1>1, <1>2
<1>4. (n * (k + d) + s) \div n = k + d /\ (n * (k + d) + s) % n = s
  BY <1>1, <1>2, Quotient
<1> QED
  BY <1>3, <1>4 DEF d, s

-----------------------------------------------------------------------------
(* Addresses.  The flash is a whole number of sectors.                     *)
LEMMA Sizes ==
  /\ PageCells \in Nat \ {0} /\ SectorCells \in Nat \ {0} /\ ChipCells \in Nat \ {0}
  /\ NumDie \in Nat \ {0} /\ Total \in Nat \ {0}
  /\ Total = ChipCells \/ Total = 2 * ChipCells
BY OspiAssumption DEF Total

LEMMA WholeSectors ==
  \E k, t \in Nat \ {0} : ChipCells = SectorCells * k /\ Total = SectorCells * t
<1> DEFINE k == ChipCells \div SectorCells
<1>1. k \in Int /\ k >= 0 /\ ChipCells = SectorCells * k
  <2>1. SectorCells \in Nat \ {0} /\ ChipCells \in Int /\ ChipCells >= 0
    BY Sizes
  <2>2. k \in Int /\ k >= 0 /\ ChipCells = SectorCells * k + (ChipCells % SectorCells)
    BY <2>1, Divide
  <2>3. ChipCells % SectorCells = 0
    BY OspiAssumption
  <2> HIDE DEF k
  <2> QED
    BY <2>1, <2>2, <2>3
<1>2. k # 0
  BY <1>1, Sizes
<1> HIDE DEF k
<1>3. SectorCells * (2 * k) = 2 * (SectorCells * k)
  BY <1>1, Sizes
<1>4. CASE Total = ChipCells
  BY <1>1, <1>2, <1>4
<1>5. CASE Total = 2 * ChipCells
  <2>1. 2 * k \in Nat \ {0} /\ Total = SectorCells * (2 * k)
    BY <1>1, <1>2, <1>3, <1>5
  <2> QED
    BY <1>1, <1>2, <2>1
<1> QED
  BY <1>4, <1>5, Sizes

(* GetRealAddr: the chip and the cell in it say which cell of the flash an *)
(* address means.                                                          *)
LEMMA Located ==
  ASSUME NEW x \in Nat
  PROVE  /\ ChipOf(x) \in Chips /\ x % ChipCells \in 0..ChipCells-1 /\ x % Total \in 0..Total-1
         /\ x % Total = ChipCells * ChipOf(x) + (x % ChipCells)
<1> DEFINE q == x \div ChipCells
           r == x % ChipCells
           b == q % 2
           e == q \div 2
<1>1. q \in Int /\ r \in 0..ChipCells-1 /\ x = ChipCells * q + r /\ x % Total \in 0..Total-1
  BY Sizes, Divide
<1>2. b \in {0, 1} /\ e \in Int /\ q = 2 * e + b
  BY <1>1
<1>3. CASE Stacked
  <2>1. ChipOf(x) = b /\ Total = 2 * ChipCells /\ Chips = {0, 1}
    BY <1>2, <1>3 DEF ChipOf, Total, Chips
  <2> HIDE DEF q, r, b, e
  <2>2. ChipCells * (2 * e + b) = (2 * ChipCells) * e + ChipCells * b
    BY <1>2, Sizes
  <2>3. (2 * ChipCells) * e \in Int /\ ChipCells * b \in Int /\ ChipCells * b + r \in 0..(2 * ChipCells)-1
    BY <1>1, <1>2, Sizes
  <2>4. x = (2 * ChipCells) * e + (ChipCells * b + r)
    BY <1>1, <1>2, <2>2, <2>3
  <2>5. ((2 * ChipCells) * e + (ChipCells * b + r)) % (2 * ChipCells) = ChipCells * b + r
    <3> DEFINE n == 2 * ChipCells
               z == ChipCells * b + r
    <3>1. n \in Nat \ {0} /\ z \in 0..n-1 /\ e \in Int
      BY <1>2, <2>3, Sizes
    <3> HIDE DEF n, z
    <3>2. (n * e + z) % n = z
      BY <3>1, Quotient
    <3> QED
      BY <3>2 DEF n, z
  <2> QED
    BY <1>1, <1>2, <2>1, <2>4, <2>5 DEF r
<1>4. CASE ~Stacked
  <2>1. ChipOf(x) = 0 /\ Total = ChipCells /\ Chips = {0}
    BY <1>4 DEF ChipOf, Total, Chips
  <2>2. ChipCells * 0 + r = r
    BY <1>1, Sizes
  <2> QED
    BY <1>1, <2>1, <2>2
<1> QED
  BY <1>3, <1>4, OspiAssumption

(* A cell of the flash is found by its own address.                        *)
LEMMA Inside ==
  ASSUME NEW a \in 0..Total-1
  PROVE  a \in Nat /\ a % Total = a
<1>1. Total * 0 + a = a /\ 0 \in Int
  BY Sizes
<1>2. (Total * 0 + a) % Total = a
  BY <1>1, Sizes, Quotient
<1> QED
  BY <1>1, <1>2, Sizes

LEMMA SameCell ==
  ASSUME NEW x \in Nat, NEW a \in 0..Total-1, ChipOf(a) = ChipOf(x), a % ChipCells = x % ChipCells
  PROVE  a = x % Total
BY Inside, Located

LEMMA SameSectorOfChip ==
  ASSUME NEW x \in Nat, NEW a \in 0..Total-1, ChipOf(a) = ChipOf(x),
         (a % ChipCells) \div SectorCells = (x % ChipCells) \div SectorCells
  PROVE  a \div SectorCells = (x % Total) \div SectorCells
<1> DEFINE b == ChipOf(x)
           u == a % ChipCells
           v == x % ChipCells
<1>1. PICK k \in Nat : ChipCells = SectorCells * k
  BY WholeSectors
<1>2. a = ChipCells * b + u /\ x % Total = ChipCells * b + v /\ u \in Int /\ v \in Int /\ b \in Nat
  <2>1. a \in Nat /\ a % Total = a
    BY Inside
  <2>2. /\ b \in Nat /\ u \in Int /\ v \in Int
        /\ x % Total = ChipCells * b + v
        /\ a % Total = ChipCells * b + u
    BY <2>1, Located DEF Chips
  <2> HIDE DEF b, u, v
  <2> QED
    BY <2>1, <2>2
<1>3. u \div SectorCells = v \div SectorCells
  OBVIOUS
<1> HIDE DEF b, u, v
<1>4. ChipCells * b = SectorCells * (k * b) /\ k * b \in Int
  BY <1>1, <1>2, Sizes
<1>5. (SectorCells * (k * b) + u) \div SectorCells = k * b + u \div SectorCells
  BY <1>2, <1>4, Sizes, Shift
<1>6. (SectorCells * (k * b) + v) \div SectorCells = k * b + v \div SectorCells
  BY <1>2, <1>4, Sizes, Shift
<1> QED
  BY <1>2, <1>3, <1>4, <1>5, <1>6

(* The sector an address means depends only on the sector it is in, even   *)
(* when it wraps round.                                                    *)
LEMMA SectorWraps ==
  ASSUME NEW x \in Nat, NEW t \in Nat \ {0}, Total = SectorCells * t
  PROVE  (x \div SectorCells) % t = (x % Total) \div SectorCells
<1> DEFINE q == x \div Total
           u == x % Total
           d == u \div SectorCells
<1>1. q \in Int /\ u \in 0..Total-1 /\ x = Total * q + u
  <2>1. Total \in Nat \ {0} /\ x \in Int
    BY Sizes
  <2> QED
    BY <2>1, Divide
<1>2. d \in Int /\ d >= 0 /\ u = SectorCells * d + (u % SectorCells) /\ u % SectorCells \in 0..SectorCells-1
  <2>1. SectorCells \in Nat \ {0} /\ u \in Int /\ u >= 0
    BY <1>1, Sizes
  <2> HIDE DEF u
  <2> QED
    BY <2>1, Divide
<1>3. d < t
  <2> DEFINE s == u % SectorCells
  <2> SUFFICES ASSUME d >= t PROVE FALSE
    BY <1>2
  <2>1. SectorCells * t <= SectorCells * d
    <3>1. \A m \in Nat : \A i, j \in Int : i >= j => m * i >= m * j
      OBVIOUS
    <3> HIDE DEF d
    <3> QED
      BY <1>2, <3>1, Sizes
  <2>2. s \in Nat /\ u = SectorCells * d + s /\ SectorCells * d \in Int
    BY <1>2, Sizes
  <2> HIDE DEF d, s, u
  <2> QED
    BY <1>1, <2>1, <2>2, Sizes
<1>4. x \div SectorCells = t * q + d
  <2> HIDE DEF q, u
  <2>1. Total * q = SectorCells * (t * q) /\ t * q \in Int
    BY <1>1, Sizes
  <2>2. (SectorCells * (t * q) + u) \div SectorCells = t * q + d
    BY <1>1, <2>1, Sizes, Shift
  <2> QED
    BY <1>1, <2>1, <2>2
<1> HIDE DEF q, u, d
<1>5. (t * q + d) % t = d
  BY <1>1, <1>2, <1>3, Quotient
<1> QED
  BY <1>4, <1>5 DEF d, u

LEMMA SameSector ==
  ASSUME NEW x \in Nat, NEW y \in Nat, x \div SectorCells = y \div SectorCells
  PROVE  (x % Total) \div SectorCells = (y % Total) \div SectorCells
<1>1. PICK t \in Nat \ {0} : Total = SectorCells * t
  BY WholeSectors
<1> QED
  BY <1>1, SectorWraps

(* A cell in the sector an address of a range is in belongs to the sectors *)
(* of the range.                                                           *)
LEMMA InSectors ==
  ASSUME NEW x \in Nat, NEW from \in Nat, NEW len \in Nat, NEW y \in from .. from + len - 1,
         x \div SectorCells = y \div SectorCells,
         NEW a \in 0..Total-1, a \div SectorCells = (x % Total) \div SectorCells
  PROVE  a \in SectorsOf(from, len)
<1>1. y \in Nat
  OBVIOUS
<1>2. a \div SectorCells = (y % Total) \div SectorCells
  BY <1>1, SameSector
<1>3. y % Total \in Span(from, len)
  BY DEF Span
<1> QED
  BY <1>2, <1>3 DEF SectorsOf

(* A range as long as the flash is all of it.                              *)
LEMMA AllOfIt ==
  ASSUME NEW from \in Nat, NEW a \in 0..Total-1
  PROVE  a \in Span(from, Total) /\ a \in SectorsOf(from, Total)
<1> DEFINE q == (a - from) \div Total
           r == (a - from) % Total
           x == from + r
<1>1. a - from \in Int /\ q \in Int /\ r \in 0..Total-1 /\ a - from = Total * q + r
  BY Sizes, Divide
<1>2. x \in from .. from + Total - 1
  BY <1>1, Sizes
<1>3. x % Total = a
  <2> HIDE DEF q, r
  <2>1. -q \in Int /\ Total * (-q) = -(Total * q) /\ Total * q \in Int
    BY <1>1, Sizes
  <2>2. x = Total * (-q) + a
    BY <1>1, <2>1, Sizes
  <2>3. (Total * (-q) + a) % Total = a
    BY <2>1, Sizes, Quotient
  <2> HIDE DEF x
  <2> QED
    BY <2>2, <2>3
<1>4. a \in Span(from, Total)
  BY <1>2, <1>3 DEF Span
<1> QED
  BY <1>4 DEF SectorsOf
-----------------------------------------------------------------------------
(* Where the driver is.                                                    *)
SetupPcs == {"id", "wrenConfig", "config", "readConfig", "wrenFour", "enter4", "statusFour", "disable", "select"}
ErasePcs == {"wrenErase", "erase", "statusErase"}
DiePcs   == {"wrenDie", "die", "statusDie"}
WritePcs == {"wrenWrite", "program", "statusWrite"}
Resting  == SetupPcs \cup {"idle", "down", "trap"}

(* A chip takes the addresses it is sent once the driver has set it up:    *)
(* "enter4" is only sent to a chip that is write enabled or has obeyed it  *)
(* before, and nothing is busy till then.                                  *)
FourBytes ==
  /\ pc \in SetupPcs => \A c \in Chips : ~chip[c].busy
  /\ pc \in SetupPcs /\ cs = 1 => chip[0].four
  /\ pc = "enter4" => chip[cs].wel \/ chip[cs].four
  /\ pc \in {"statusFour", "disable", "select"} => chip[cs].four
  /\ pc \notin SetupPcs \cup {"down"} => \A c \in Chips : chip[c].four

(* What the parts of a call c may be.                                      *)
Parts == [do : {"read", "erase", "write"}, addr : Nat, len : Nat \ {0}, from : {"none", "host", "buf", "merged"}]
Fits(c, p) ==
  /\ p.do = "erase" => c.kind \in {"erase", "safe"} /\ p.addr = c.addr /\ p.len = c.len
  /\ p.do = "write" => \A i \in 0..PageCount(p) * PageCells - 1 : (p.addr + i) % Total \in Reach(c)

PlanInv ==
  /\ call \in Calls \cup {NoCall}
  /\ todo \in Seq(Parts)
  /\ \A i \in 1..Len(todo) : Fits(call, todo[i])

(* Each transfer belongs to a part of its kind, has not gone past its end, *)
(* and is addressed to the chip that is selected.                          *)
PlaceInv ==
  /\ pc \in Resting \cup ErasePcs \cup DiePcs \cup WritePcs \cup {"verify", "read"}
  /\ pc \in Resting <=> todo = <<>>
  /\ pc \in ErasePcs => Part.do = "erase" /\ Part.len # Total /\ pos \in 0..NumSect(Part) - 1
  /\ pc \in {"erase", "statusErase"} => cs = ChipOf(SectorAddr)
  /\ pc \in DiePcs => Part.do = "erase" /\ Part.len = Total /\ pos \div NumDie \in Chips
  /\ pc \in WritePcs => Part.do = "write" /\ pos \in 0..PageCount(Part) * PageCells - 1
  /\ pc \in {"program", "statusWrite"} => cs = ChipOf(Part.addr + pos)
  /\ pc = "verify" => Part.do = "write"
  /\ pc = "read" => /\ Part.do = "read" /\ pos + take <= Part.len
                    /\ pos = 0 \/ pos + take = Part.len

Shapes == DOMAIN mem = Chips
DriverInv == TypeOK /\ pos \in Nat /\ take \in Nat /\ Shapes /\ FourBytes /\ PlanInv /\ PlaceInv

-----------------------------------------------------------------------------
(* What a chip does with a command.                                        *)
Destructive == {"erase", "die", "program"}

LEMMA ObeyIs ==
  ASSUME NEW c \in Chips, NEW cmd, Obey(c, cmd), TypeOK, Shapes
  PROVE  /\ chip' \in [Chips -> [wel : BOOLEAN, busy : BOOLEAN, four : BOOLEAN]] /\ Shapes'
         /\ \A k \in Chips : chip[k].four => chip'[k].four
         /\ \A k \in Chips \ {c} : chip'[k] = chip[k]
         /\ cmd.do \notin Destructive /\ ~chip[c].busy => ~chip'[c].busy
         /\ cmd.do = "wren" /\ ~chip[c].busy => chip'[c].wel
         /\ cmd.do = "enter4" /\ ~chip[c].busy /\ chip[c].wel => chip'[c].four
         /\ cmd.do \in {"id", "status", "read"} /\ ~chip[c].busy => chip'[c].wel = chip[c].wel
<1>1. CASE chip[c].busy
  BY <1>1 DEF Obey, chipVars, TypeOK, Shapes
<1>2. CASE ~chip[c].busy
  <2> DEFINE new == [wel  |-> cmd.do = "wren" \/ (chip[c].wel /\ cmd.do \in {"id", "status", "read"}),
                     busy |-> chip[c].wel /\ cmd.do \in {"erase", "die", "program"},
                     four |-> chip[c].four \/ (chip[c].wel /\ cmd.do = "enter4")]
  <2>1. chip' = [chip EXCEPT ![c] = new]
    BY <1>2 DEF Obey
  <2>2. chip \in [Chips -> [wel : BOOLEAN, busy : BOOLEAN, four : BOOLEAN]]
    BY DEF TypeOK
  <2>3. chip[c] \in [wel : BOOLEAN, busy : BOOLEAN, four : BOOLEAN]
    BY <2>2
  <2>4. new \in [wel : BOOLEAN, busy : BOOLEAN, four : BOOLEAN]
    BY <2>3
  <2>5. Shapes'
    BY <1>2 DEF Obey, Shapes
  <2>6. chip' \in [Chips -> [wel : BOOLEAN, busy : BOOLEAN, four : BOOLEAN]]
    <3> HIDE DEF new
    <3> QED
      BY <2>1, <2>2, <2>4
  <2>7. chip'[c] = new /\ \A k \in Chips \ {c} : chip'[k] = chip[k]
    <3> HIDE DEF new
    <3> QED
      BY <2>1, <2>2
  <2>8. /\ new.four = (chip[c].four \/ (chip[c].wel /\ cmd.do = "enter4"))
        /\ new.busy = (chip[c].wel /\ cmd.do \in {"erase", "die", "program"})
        /\ new.wel = (cmd.do = "wren" \/ (chip[c].wel /\ cmd.do \in {"id", "status", "read"}))
    OBVIOUS
  <2> HIDE DEF new
  <2>9. \A k \in Chips : chip[k].four => chip'[k].four
    BY <2>7, <2>8
  <2>10. cmd.do \in {"id", "status", "read"} => chip'[c].wel = chip[c].wel
    BY <2>3, <2>7, <2>8
  <2> QED
    BY <1>2, <2>5, <2>6, <2>7, <2>8, <2>9, <2>10 DEF Destructive
<1> QED
  BY <1>1, <1>2

(* It changes nothing but the cells the command is about.                  *)
LEMMA ObeyCells ==
  ASSUME NEW c \in Chips, NEW cmd, Obey(c, cmd), Shapes, NEW a \in Nat,
         ChipOf(a) # c \/ a % ChipCells \notin Cells(c, cmd)
  PROVE  At(mem', a) = At(mem, a)
<1>1. ChipOf(a) \in Chips /\ a % ChipCells \in 0..ChipCells-1
  BY Located
<1> DEFINE new == [b \in 0..ChipCells-1 |->
                     IF b \in Cells(c, cmd)
                     THEN IF cmd.do = "program" THEN Program(mem[c][b], cmd.data) ELSE Blank
                     ELSE mem[c][b]]
<1>2. mem' = mem \/ mem' = [mem EXCEPT ![c] = new]
  BY DEF Obey, chipVars
<1>3. a % ChipCells \notin Cells(c, cmd) => new[a % ChipCells] = mem[c][a % ChipCells]
  BY <1>1
<1> HIDE DEF new
<1>4. CASE mem' = [mem EXCEPT ![c] = new]
  BY <1>1, <1>3, <1>4 DEF At, Shapes
<1> QED
  BY <1>2, <1>4 DEF At

-----------------------------------------------------------------------------
(* What a call plans to do stays in its reach.                             *)

(* Only the metadata of a partition are written safely, at the base of the *)
(* partition (rmgmt_fpt_pdi_meta_set), where a sector begins.  A call at   *)
(* an odd page is refused.  From the middle of a sector, the sector that   *)
(* is put back would reach into the next one.                              *)
SafeAligned ==
  \A c \in Calls : c.kind = "safe" => c.addr % SectorCells = 0 \/ (c.addr \div PageCells) % 2 = 1

LEMMA CallType ==
  ASSUME NEW c \in Calls
  PROVE  /\ c.kind \in {"read", "erase", "write", "copy", "safe"}
         /\ c.addr \in Nat /\ c.len \in Nat \ {0} /\ c.tgt \in Nat
BY OspiAssumption

(* The pages of a part hold it, and less than a page more.                 *)
LEMMA Pages ==
  ASSUME NEW s, s.len \in Nat \ {0}
  PROVE  /\ PageCount(s) \in Nat \ {0} /\ PageCount(s) * PageCells \in Nat \ {0}
         /\ s.len <= PageCount(s) * PageCells /\ PageCount(s) * PageCells < s.len + PageCells
<1> DEFINE len == s.len
           x == len + PageCells - 1
           n == x \div PageCells
           r == x % PageCells
<1>1. PageCells \in Nat \ {0} /\ x \in Int /\ x >= 0 /\ x >= PageCells
  BY Sizes
<1>2. n \in Int /\ n >= 0 /\ r \in 0..PageCells-1 /\ x = PageCells * n + r
  <2> HIDE DEF x
  <2> QED
    BY <1>1, Divide
<1>3. PageCount(s) = n
  BY DEF PageCount
<1>4. len \in Nat \ {0} /\ x = len + PageCells - 1
  OBVIOUS
<1> HIDE DEF len, x, n, r
<1>5. n # 0
  BY <1>1, <1>2
<1>6. n * PageCells = PageCells * n /\ n * PageCells \in Int
  BY <1>1, <1>2
<1>7. n * PageCells >= len /\ n * PageCells < len + PageCells
  BY <1>1, <1>2, <1>4, <1>6
<1> QED
  BY <1>3, <1>4, <1>5, <1>6, <1>7, <1>2 DEF len

(* A page of a copy, and a sector of a safe write, are written whole.      *)
LEMMA WholePages ==
  ASSUME NEW s, NEW k \in Nat \ {0}, s.len = PageCells * k
  PROVE  PageCount(s) * PageCells = s.len
<1>1. PageCells \in Nat \ {0} /\ PageCells - 1 \in 0..PageCells-1
  BY Sizes
<1>2. (PageCells * k + (PageCells - 1)) \div PageCells = k
  BY <1>1, Quotient
<1>3. s.len + PageCells - 1 = PageCells * k + (PageCells - 1)
  BY <1>1
<1>4. PageCount(s) = k
  BY <1>2, <1>3 DEF PageCount
<1> QED
  BY <1>1, <1>4

LEMMA PlanWrite ==
  ASSUME NEW c \in Calls, c.kind = "write"
  PROVE  /\ Plan(c) \in Seq(Parts) /\ Plan(c) # <<>>
         /\ \A i \in 1..Len(Plan(c)) : Fits(c, Plan(c)[i])
<1> DEFINE p == Sub("write", c.addr, c.len, "host")
<1>1. c.addr \in Nat /\ c.len \in Nat \ {0}
  BY CallType
<1>2. p \in Parts /\ p.do = "write" /\ p.addr = c.addr /\ p.len = c.len
  BY <1>1 DEF Parts, Sub
<1>3. Plan(c) = <<p>>
  BY DEF Plan
<1>4. Fits(c, p)
  <2> DEFINE n == PageCount(p) * PageCells
  <2>1. Reach(c) = Span(c.addr, n)
    BY <1>2 DEF Reach, PageCount
  <2>2. n \in Nat
    BY <1>1, <1>2, Pages
  <2> HIDE DEF n
  <2>3. \A i \in 0..n-1 : c.addr + i \in c.addr .. c.addr + n - 1
    BY <1>1, <2>2
  <2>4. \A i \in 0..n-1 : (c.addr + i) % Total \in Reach(c)
    BY <2>1, <2>3 DEF Span
  <2> QED
    BY <1>2, <2>4 DEF Fits, n
<1> HIDE DEF p
<1> QED
  BY <1>2, <1>3, <1>4

LEMMA PlanCopy ==
  ASSUME NEW c \in Calls, c.kind = "copy"
  PROVE  /\ Plan(c) \in Seq(Parts) /\ Plan(c) # <<>>
         /\ \A i \in 1..Len(Plan(c)) : Fits(c, Plan(c)[i])
<1> DEFINE m == c.len \div PageCells
           j(k) == (k - 1) \div 2
           r(k) == Sub("read", c.addr + j(k) * PageCells, PageCells, "none")
           w(k) == Sub("write", c.tgt + j(k) * PageCells, PageCells, "buf")
<1>1. c.addr \in Nat /\ c.tgt \in Nat /\ PageCells \in Nat \ {0} /\ m \in Nat
  <2>1. c.len \in Int /\ c.len >= 0 /\ PageCells \in Nat \ {0}
    BY CallType, Sizes
  <2>2. m \in Int /\ m >= 0
    BY <2>1, Divide
  <2> QED
    BY <2>1, <2>2, CallType
<1>2. Plan(c) = [k \in 1..2 * (m + 1) |-> IF k % 2 = 1 THEN r(k) ELSE w(k)]
  BY DEF Plan, CopyPlan
<1> HIDE DEF m
<1>3. \A k \in 1..2 * (m + 1) : j(k) \in 0..m
  BY <1>1
<1>4. \A k \in 1..2 * (m + 1) :
        /\ j(k) * PageCells \in Nat
        /\ j(k) * PageCells + PageCells <= (m + 1) * PageCells
  <2> TAKE k \in 1..2 * (m + 1)
  <2> DEFINE i == j(k)
  <2>1. i \in 0..m
    BY <1>3
  <2> HIDE DEF i
  <2>2. i * PageCells \in Nat /\ i * PageCells <= m * PageCells /\ (m + 1) * PageCells = m * PageCells + PageCells
    BY <1>1, <2>1
  <2>3. i * PageCells + PageCells <= (m + 1) * PageCells
    BY <1>1, <2>2
  <2> QED
    BY <2>2, <2>3 DEF i
<1>5. \A k \in 1..2 * (m + 1) : r(k) \in Parts /\ w(k) \in Parts
  <2> HIDE DEF j
  <2> QED
    BY <1>1, <1>4 DEF Parts, Sub
<1>6. \A k \in 1..2 * (m + 1) : Fits(c, r(k))
  BY DEF Fits, Sub
<1>7. \A k \in 1..2 * (m + 1) : Fits(c, w(k))
  <2> TAKE k \in 1..2 * (m + 1)
  <2> DEFINE o == j(k) * PageCells
             p == w(k)
             l == (m + 1) * PageCells
  <2>1. o \in Nat /\ o + PageCells <= l /\ l \in Nat
    BY <1>1, <1>4
  <2>2. p.do = "write" /\ p.addr = c.tgt + o /\ p.len = PageCells * 1
    BY <1>1 DEF Sub
  <2>3. PageCount(p) * PageCells = PageCells
    BY <1>1, <2>2, WholePages
  <2>4. Reach(c) = Span(c.tgt, l)
    BY DEF Reach, m
  <2> HIDE DEF o, l, p
  <2>5. \A i \in 0..PageCells-1 : (c.tgt + o) + i \in c.tgt .. c.tgt + l - 1
    BY <1>1, <2>1
  <2>6. \A i \in 0..PageCells-1 : ((c.tgt + o) + i) % Total \in Reach(c)
    BY <2>4, <2>5 DEF Span
  <2>7. Fits(c, p)
    BY <2>2, <2>3, <2>6 DEF Fits
  <2> QED
    BY <2>7 DEF p
<1> HIDE DEF r, w
<1>8. 2 * (m + 1) \in Nat \ {0}
  BY <1>1
<1> DEFINE n == 2 * (m + 1)
<1> HIDE DEF n
<1>9. Plan(c) = [k \in 1..n |-> IF k % 2 = 1 THEN r(k) ELSE w(k)] /\ n \in Nat \ {0}
  BY <1>2, <1>8 DEF n
<1>10. \A k \in 1..n : r(k) \in Parts /\ w(k) \in Parts /\ Fits(c, r(k)) /\ Fits(c, w(k))
  BY <1>5, <1>6, <1>7 DEF n
<1>11. Plan(c) \in Seq(Parts) /\ Len(Plan(c)) = n
  BY <1>9, <1>10
<1> QED
  BY <1>9, <1>10, <1>11

LEMMA PlanSafe ==
  ASSUME NEW c \in Calls, c.kind = "safe", c.addr % SectorCells = 0
  PROVE  /\ Plan(c) \in Seq(Parts) /\ Plan(c) # <<>>
         /\ \A i \in 1..Len(Plan(c)) : Fits(c, Plan(c)[i])
<1> DEFINE S    == SectorCells
           P    == PageCells
           addr == c.addr
           len  == c.len
           over == len % S
           last == addr + len - over
           lim  == IF len = Total THEN len ELSE len + 1
           e    == Sub("erase", addr, len, "none")
           w    == Sub("write", addr, len, "host")
           r    == Sub("read", last, S, "none")
           m    == Sub("write", last, S, "merged")
<1>1. S \in Nat \ {0} /\ P \in Nat \ {0} /\ addr \in Nat /\ len \in Nat \ {0}
  BY Sizes, CallType
<1>2. PICK u \in Nat \ {0} : S = P * u
  <2> HIDE DEF S, P
  <2>1. S \div P \in Int /\ S \div P >= 0 /\ S = P * (S \div P) + (S % P)
    <3>1. S \in Int /\ S >= 0 /\ P \in Nat \ {0}
      BY <1>1
    <3> QED
      BY <3>1, Divide
  <2>2. S % P = 0
    BY OspiAssumption DEF S, P
  <2>3. S = P * (S \div P)
    <3> DEFINE d == S \div P
    <3>1. d \in Int /\ S = P * d + 0
      BY <2>1, <2>2
    <3> HIDE DEF d
    <3>2. S = P * d
      BY <1>1, <3>1
    <3> QED
      BY <3>2 DEF d
  <2>4. S \div P # 0
    BY <1>1, <2>3
  <2> QED
    BY <2>1, <2>3, <2>4
<1>3. PICK ka \in Nat : addr = S * ka
  <2> HIDE DEF S, addr
  <2> DEFINE d == addr \div S
  <2>1. d \in Int /\ d >= 0 /\ addr = S * d + (addr % S)
    <3>1. addr \in Int /\ addr >= 0 /\ S \in Nat \ {0}
      BY <1>1
    <3> QED
      BY <3>1, Divide
  <2>2. addr % S = 0
    BY DEF addr, S
  <2> HIDE DEF d
  <2>3. addr = S * d
    BY <1>1, <2>1, <2>2
  <2> QED
    BY <2>1, <2>3
<1>4. PICK kl \in Nat : len = S * kl + over /\ over \in 0..S-1
  <2> HIDE DEF S, len
  <2>1. len \div S \in Int /\ len \div S >= 0 /\ len = S * (len \div S) + (len % S) /\ len % S \in 0..S-1
    <3>1. len \in Int /\ len >= 0 /\ S \in Nat \ {0}
      BY <1>1
    <3> QED
      BY <3>1, Divide
  <2> QED
    BY <2>1
<1>5. over # 0 => len # Total
  <2> SUFFICES ASSUME len = Total PROVE over = 0
    OBVIOUS
  <2>1. PICK t \in Nat \ {0} : Total = S * t
    BY WholeSectors
  <2>2. (S * t + 0) % S = 0
    <3>1. S \in Nat \ {0} /\ t \in Int /\ 0 \in 0..S-1
      BY <1>1
    <3> HIDE DEF S
    <3> QED
      BY <3>1, Quotient
  <2>3. S * t + 0 = len
    BY <1>1, <2>1
  <2> QED
    BY <2>2, <2>3
<1>6. Reach(c) = SectorsOf(addr, lim)
  BY DEF Reach
<1>7. lim \in Nat /\ lim >= len /\ (over # 0 => lim = len + 1)
  BY <1>1, <1>5
<1>8. last = addr + S * kl
  <2> HIDE DEF S, addr, len, over
  <2> QED
    BY <1>1, <1>4
<1>9. S * kl \in Nat /\ S * (ka + kl) = S * ka + S * kl /\ ka + kl \in Nat
  BY <1>1
<1>11. Plan(c) = IF over = 0 THEN <<e, w>> ELSE <<r, e, w, m>>
  BY DEF Plan, SafePlan
<1>12. /\ e.do = "erase" /\ e.addr = addr /\ e.len = len
       /\ w.do = "write" /\ w.addr = addr /\ w.len = len
       /\ r.do = "read"
       /\ m.do = "write" /\ m.addr = last /\ m.len = S
  BY DEF Sub
<1>13. last \in Nat
  <2> HIDE DEF S, addr, len, over, last
  <2> QED
    BY <1>1, <1>8, <1>9
<1>14. {e, w, r, m} \subseteq Parts
  <2> HIDE DEF S, addr, len, over, last
  <2> QED
    BY <1>1, <1>13 DEF Parts, Sub
<1>15. PICK nw \in Nat : nw = PageCount(w) * P /\ (over = 0 => nw = len) /\ nw <= S * (kl + 1)
  <2> DEFINE n == PageCount(w)
  <2>1. n \in Nat \ {0} /\ n * P \in Nat /\ n * P < len + P
    BY <1>1, <1>12, Pages
  <2>2. over = 0 => n * P = len
    <3> SUFFICES ASSUME over = 0 PROVE n * P = len
      OBVIOUS
    <3> HIDE DEF S, P, addr, len, over, w
    <3>1. len = P * (u * kl) /\ u * kl \in Nat
      BY <1>1, <1>2, <1>4
    <3>2. u * kl # 0
      BY <1>1, <3>1
    <3>3. w.len = PageCells * (u * kl)
      BY <1>12, <3>1 DEF P
    <3>4. PageCount(w) * PageCells = w.len
      BY <3>1, <3>2, <3>3, WholePages
    <3> QED
      BY <1>12, <3>4 DEF P
  <2>3. n * P <= S * (kl + 1)
    <3> DEFINE big == u * (kl + 1)
    <3> HIDE DEF S, P, addr, len, over, n
    <3>1. S * (kl + 1) = S * kl + S /\ S * kl \in Int
      BY <1>1
    <3>2. len < S * (kl + 1)
      BY <1>1, <1>4, <3>1
    <3>3. S * (kl + 1) = P * big /\ big \in Nat
      BY <1>1, <1>2
    <3> HIDE DEF big
    <3>4. n * P = P * n /\ P * n \in Int /\ P * big \in Int
      BY <1>1, <2>1, <3>3
    <3>5. P * n < P * big + P
      BY <1>1, <2>1, <3>2, <3>3, <3>4
    <3>6. n <= big
      <4> SUFFICES ASSUME n >= big + 1 PROVE FALSE
        BY <2>1, <3>3
      <4>1. \A i, j \in Nat : i >= j => P * i >= P * j
        BY <1>1
      <4>2. P * n >= P * (big + 1)
        BY <2>1, <3>3, <4>1
      <4>3. P * (big + 1) = P * big + P
        BY <1>1, <3>3
      <4> QED
        BY <1>1, <3>4, <3>5, <4>2, <4>3
    <3>7. P * n <= P * big
      <4>1. \A i, j \in Nat : i <= j => P * i <= P * j
        BY <1>1
      <4> QED
        BY <2>1, <3>3, <3>6, <4>1
    <3> QED
      BY <3>3, <3>4, <3>7
  <2> QED
    BY <2>1, <2>2, <2>3
<1>16. Fits(c, w)
  <2> SUFFICES ASSUME NEW i \in 0..nw-1 PROVE (addr + i) % Total \in Reach(c)
    BY <1>12, <1>15 DEF Fits
  <2> DEFINE x == addr + i
             y == IF i < len THEN x ELSE addr + len
  <2>1. x \in Nat /\ x % Total \in 0..Total-1
    BY <1>1, Located
  <2>2. y \in addr .. addr + lim - 1
    <3> HIDE DEF addr, len, lim, over
    <3> QED
      BY <1>1, <1>7, <1>15
  <2>3. x \div S = y \div S
    <3>1. CASE i < len
      BY <3>1
    <3>2. CASE ~(i < len)
      <4> DEFINE q == ka + kl
                 z == i - S * kl
      <4> HIDE DEF S, P, addr, len, over, lim, w
      <4>1. S * (kl + 1) = S * kl + S /\ S * kl \in Int
        BY <1>1
      <4>2. z \in 0..S-1
        BY <1>1, <1>4, <1>15, <3>2, <4>1
      <4>3. x = S * q + z
        BY <1>1, <1>3, <1>9, <4>1
      <4>4. y = S * q + over
        BY <1>1, <1>3, <1>4, <1>9, <3>2
      <4>5. q \in Int
        OBVIOUS
      <4> HIDE DEF x, y, q, z
      <4>6. (S * q + z) \div S = q /\ (S * q + over) \div S = q
        BY <1>1, <1>4, <4>2, <4>5, Quotient
      <4> QED
        BY <4>3, <4>4, <4>6
    <3> QED
      BY <3>1, <3>2
  <2> DEFINE a == x % Total
  <2>4. a \in SectorsOf(addr, lim)
    <3>1. a \in 0..Total-1 /\ a \div SectorCells = (x % Total) \div SectorCells
      BY <2>1
    <3>2. addr \in Nat /\ lim \in Nat
      BY <1>1, <1>7
    <3> HIDE DEF x, y, a, addr, lim
    <3> QED
      BY <2>1, <2>2, <2>3, <3>1, <3>2, InSectors
  <2> QED
    BY <1>6, <2>4
<1>17. over # 0 => Fits(c, m)
  <2> SUFFICES ASSUME over # 0, NEW i \in 0..S-1 PROVE (last + i) % Total \in Reach(c)
    <3>1. m.len = PageCells * u
      BY <1>2, <1>12
    <3>2. PageCount(m) * PageCells = m.len
      BY <3>1, WholePages
    <3> QED
      BY <1>12, <3>2 DEF Fits
  <2> DEFINE x == last + i
             y == addr + len
             q == ka + kl
             a == x % Total
  <2>1. x \in Nat /\ x % Total \in 0..Total-1
    <3>1. x \in Nat
      <4> HIDE DEF last
      <4> QED
        BY <1>13
    <3> HIDE DEF x
    <3> QED
      BY <3>1, Located
  <2>2. y \in addr .. addr + lim - 1
    <3> HIDE DEF addr, len, lim, over
    <3> QED
      BY <1>1, <1>7
  <2>3. x \div S = y \div S
    <3> HIDE DEF S, addr, len, over, lim, last
    <3>1. x = S * q + i
      BY <1>1, <1>3, <1>8, <1>9
    <3>2. y = S * q + over
      BY <1>1, <1>3, <1>4, <1>9
    <3>3. q \in Int
      OBVIOUS
    <3> HIDE DEF x, y, q
    <3>4. (S * q + i) \div S = q /\ (S * q + over) \div S = q
      BY <1>1, <1>4, <3>3, Quotient
    <3> QED
      BY <3>1, <3>2, <3>4
  <2>4. a \in SectorsOf(addr, lim)
    <3>1. a \in 0..Total-1 /\ a \div SectorCells = (x % Total) \div SectorCells
      BY <2>1
    <3>2. addr \in Nat /\ lim \in Nat
      BY <1>1, <1>7
    <3> HIDE DEF x, y, a, addr, lim
    <3> QED
      BY <2>1, <2>2, <2>3, <3>1, <3>2, InSectors
  <2> QED
    BY <1>6, <2>4
<1>18. Fits(c, e) /\ Fits(c, r)
  BY <1>12 DEF Fits
<1> HIDE DEF e, w, r, m, over
<1>19. CASE over = 0
  <2>1. Plan(c) = <<e, w>>
    BY <1>11, <1>19
  <2> QED
    BY <1>14, <1>16, <1>18, <2>1
<1>20. CASE over # 0
  <2>1. Plan(c) = <<r, e, w, m>>
    BY <1>11, <1>20
  <2> QED
    BY <1>14, <1>16, <1>17, <1>18, <1>20, <2>1
<1> QED
  BY <1>19, <1>20

LEMMA PlanFits ==
  ASSUME SafeAligned, NEW c \in Calls, ~(c.kind = "safe" /\ (c.addr \div PageCells) % 2 = 1)
  PROVE  /\ Plan(c) \in Seq(Parts) /\ Plan(c) # <<>>
         /\ \A i \in 1..Len(Plan(c)) : Fits(c, Plan(c)[i])
<1>1. CASE c.kind \in {"read", "erase"}
  <2> DEFINE p == Sub(c.kind, c.addr, c.len, "none")
  <2>1. Plan(c) = <<p>>
    BY <1>1 DEF Plan
  <2>2. p \in Parts
    BY <1>1, CallType DEF Parts, Sub
  <2>3. Fits(c, p)
    BY <1>1 DEF Fits, Sub
  <2> HIDE DEF p
  <2> QED
    BY <2>1, <2>2, <2>3
<1>2. CASE c.kind = "safe"
  BY <1>2, PlanSafe DEF SafeAligned
<1> QED
  BY <1>1, <1>2, CallType, PlanWrite, PlanCopy

-----------------------------------------------------------------------------
(* FlashErase counts its sectors so that each has an address of the range  *)
(* in it, or the one the range ends at.                                    *)
LEMMA SectorsFit ==
  ASSUME NEW s \in Parts
  PROVE  /\ NumSect(s) \in Nat \ {0}
         /\ \A k \in 0..NumSect(s)-1 :
              \E y \in s.addr .. s.addr + s.len : y \div SectorCells = (s.addr + k * SectorCells) \div SectorCells
<1> DEFINE addr == s.addr
           len  == s.len
           q    == len \div SectorCells
           n    == q + 1
           same == (addr + len) \div SectorCells = (addr + n * SectorCells) \div SectorCells
<1>1. addr \in Nat /\ len \in Nat \ {0} /\ SectorCells \in Nat \ {0}
  BY Sizes DEF Parts
<1>2. q \in Nat /\ SectorCells * q <= len
  <2>1. len \in Int /\ len >= 0 /\ SectorCells \in Nat \ {0}
    BY <1>1
  <2>2. q \in Int /\ q >= 0 /\ len % SectorCells \in 0..SectorCells-1 /\ len = SectorCells * q + (len % SectorCells)
    <3> HIDE DEF len
    <3> QED
      BY <2>1, Divide
  <2> DEFINE r == len % SectorCells
  <2>3. r \in Nat /\ len = SectorCells * q + r
    BY <2>2
  <2> HIDE DEF q, r, len
  <2>4. SectorCells * q \in Int
    BY <1>1, <2>2
  <2> QED
    BY <1>1, <2>2, <2>3, <2>4
<1>3. NumSect(s) = IF same THEN n + 1 ELSE n
  BY DEF NumSect
<1> HIDE DEF addr, len, q, same
<1>4. \A k \in 0..q : k * SectorCells \in Nat /\ k * SectorCells <= len
  <2> TAKE k \in 0..q
  <2>1. \A m \in Nat : \A i, j \in Nat : i <= j => i * m <= m * j
    OBVIOUS
  <2>2. k * SectorCells <= SectorCells * q /\ k * SectorCells \in Nat /\ SectorCells * q \in Nat
    BY <1>1, <1>2, <2>1
  <2> QED
    BY <1>1, <1>2, <2>2
<1>5. \A k \in 0..q : addr + k * SectorCells \in addr .. addr + len
  BY <1>1, <1>2, <1>4
<1>6. same => (addr + len) \div SectorCells = (addr + n * SectorCells) \div SectorCells
  BY DEF same
<1>7. addr + len \in addr .. addr + len
  BY <1>1
<1>8. \A k \in 0..NumSect(s)-1 : k \in 0..q \/ (same /\ k = n)
  BY <1>2, <1>3
<1>9. \A k \in 0..NumSect(s)-1 :
        \E y \in addr .. addr + len : y \div SectorCells = (addr + k * SectorCells) \div SectorCells
  <2> HIDE DEF n
  <2> QED
    BY <1>5, <1>6, <1>7, <1>8
<1>10. NumSect(s) \in Nat \ {0}
  BY <1>2, <1>3
<1> QED
  BY <1>9, <1>10 DEF addr, len

(* DieErase counts the dies of all chips in one number.                    *)
LEMMA Dies ==
  ASSUME NEW p \in Nat
  PROVE  /\ (0 \div NumDie) = 0
         /\ p \div NumDie \in Nat
         /\ (p + 1) % NumDie # 0 => (p + 1) \div NumDie = p \div NumDie
         /\ \A c \in Nat : c * NumDie \in Nat /\ (c * NumDie) \div NumDie = c
<1> DEFINE d == p \div NumDie
           r == p % NumDie
<1>1. NumDie \in Nat \ {0} /\ p \in Int /\ p >= 0 /\ 0 \in 0..NumDie-1
  BY Sizes
<1>2. d \in Int /\ d >= 0 /\ r \in 0..NumDie-1 /\ p = NumDie * d + r
  BY <1>1, Divide
<1>3. \A c \in Nat : c * NumDie \in Nat /\ (c * NumDie) \div NumDie = c
  <2> TAKE c \in Nat
  <2>1. (NumDie * c + 0) \div NumDie = c
    BY <1>1, Quotient
  <2>2. NumDie * c + 0 = c * NumDie /\ c * NumDie \in Nat
    BY <1>1
  <2> QED
    BY <2>1, <2>2
<1>4. (0 * NumDie) \div NumDie = 0 /\ 0 * NumDie = 0
  BY <1>1, <1>3
<1>5. ASSUME (p + 1) % NumDie # 0 PROVE (p + 1) \div NumDie = d
  <2> HIDE DEF d, r
  <2>1. NumDie * d \in Int /\ NumDie * (d + 1) = NumDie * d + NumDie
    BY <1>1, <1>2
  <2>2. CASE r + 1 = NumDie
    <3>1. p + 1 = NumDie * (d + 1) + 0 /\ d + 1 \in Int
      BY <1>1, <1>2, <2>1, <2>2
    <3>2. (NumDie * (d + 1) + 0) % NumDie = 0
      BY <1>1, <3>1, Quotient
    <3> QED
      BY <1>5, <3>1, <3>2
  <2>3. CASE r + 1 # NumDie
    <3>1. p + 1 = NumDie * d + (r + 1) /\ r + 1 \in 0..NumDie-1
      BY <1>1, <1>2, <2>1, <2>3
    <3>2. (NumDie * d + (r + 1)) \div NumDie = d
      BY <1>1, <1>2, <3>1, Quotient
    <3> QED
      BY <3>1, <3>2
  <2> QED
    BY <2>2, <2>3
<1> QED
  BY <1>2, <1>3, <1>4, <1>5

-----------------------------------------------------------------------------
(* How a call goes on.                                                     *)
Control == PlanInv /\ PlaceInv /\ pos \in Nat /\ take \in Nat /\ result \in {"none", "ok", "failed"}
Working == pc \notin SetupPcs \cup {"down"}

LEMMA Began ==
  ASSUME NEW s \in Parts, Begin(s), todo' # <<>>, Head(todo') = s
  PROVE  PlaceInv' /\ pos' = 0 /\ take' \in Nat /\ Working'
<1>1. s.addr \in Nat /\ s.len \in Nat \ {0} /\ s.do \in {"read", "erase", "write"}
  BY DEF Parts
<1>2. pos' = 0 /\ Part' = s
  BY DEF Begin, Part
<1>3. FirstTake(s) \in Nat /\ FirstTake(s) <= s.len
  BY <1>1, Sizes DEF FirstTake
<1>4. CASE s.do = "read"
  <2>1. pc' = "read" /\ take' = FirstTake(s)
    BY <1>4 DEF Begin
  <2> QED
    BY <1>1, <1>2, <1>3, <1>4, <2>1
       DEF PlaceInv, Resting, SetupPcs, ErasePcs, DiePcs, WritePcs, Working
<1>5. CASE s.do = "write"
  <2>1. pc' = "wrenWrite" /\ take' = 0
    BY <1>5 DEF Begin
  <2>2. PageCount(s) * PageCells \in Nat \ {0}
    BY <1>1, Pages
  <2>3. 0 \in 0..(PageCount(s) * PageCells) - 1
    BY <2>2
  <2> QED
    BY <1>1, <1>2, <1>5, <2>1, <2>3
       DEF PlaceInv, Resting, SetupPcs, ErasePcs, DiePcs, WritePcs, Working
<1>6. CASE s.do = "erase" /\ s.len = Total
  <2>1. pc' = "wrenDie" /\ take' = 0
    BY <1>6 DEF Begin
  <2>2. 0 \div NumDie = 0 /\ 0 \in Chips
    BY Dies DEF Chips
  <2> QED
    BY <1>1, <1>2, <1>6, <2>1, <2>2
       DEF PlaceInv, Resting, SetupPcs, ErasePcs, DiePcs, WritePcs, Working
<1>7. CASE s.do = "erase" /\ s.len # Total
  <2>1. pc' = "wrenErase" /\ take' = 0
    BY <1>7 DEF Begin
  <2>2. 0 \in 0..NumSect(s) - 1
    BY SectorsFit
  <2> QED
    BY <1>1, <1>2, <1>7, <2>1, <2>2
       DEF PlaceInv, Resting, SetupPcs, ErasePcs, DiePcs, WritePcs, Working
<1> QED
  BY <1>1, <1>4, <1>5, <1>6, <1>7

LEMMA Ended ==
  ASSUME NEW r \in {"ok", "failed"}, End(r), PlanInv, call' = call
  PROVE  Control' /\ Working'
<1>1. pc' = "idle" /\ todo' = <<>> /\ pos' = 0 /\ take' = 0 /\ result' = r
  BY DEF End
<1>2. PlanInv'
  BY <1>1 DEF PlanInv
<1>3. PlaceInv'
  BY <1>1 DEF PlaceInv, Resting, SetupPcs, ErasePcs, DiePcs, WritePcs
<1> QED
  BY <1>1, <1>2, <1>3 DEF Control, Working, SetupPcs

LEMMA WentThrough ==
  ASSUME Control, todo # <<>>, Through, call' = call
  PROVE  Control' /\ Working'
<1>1. CASE Len(todo) > 1
  <2>1. todo' = Tail(todo) /\ Begin(todo[2]) /\ result' = result
    BY <1>1 DEF Through
  <2>2. todo \in Seq(Parts) /\ \A i \in 1..Len(todo) : Fits(call, todo[i])
    BY DEF Control, PlanInv
  <2>3. /\ todo' \in Seq(Parts) /\ todo' # <<>> /\ Head(todo') = todo[2] /\ todo[2] \in Parts
        /\ \A i \in 1..Len(todo') : i + 1 \in 1..Len(todo) /\ todo'[i] = todo[i + 1]
    BY <1>1, <2>1, <2>2
  <2>4. PlaceInv' /\ pos' = 0 /\ take' \in Nat /\ Working'
    BY <2>1, <2>3, Began
  <2>5. PlanInv'
    BY <2>2, <2>3 DEF PlanInv, Control
  <2> QED
    BY <2>1, <2>4, <2>5 DEF Control
<1>2. CASE ~(Len(todo) > 1)
  BY <1>2, Ended DEF Through, Control
<1> QED
  BY <1>1, <1>2

(* A transfer that is to be sent again.                                    *)
LEMMA Stayed ==
  ASSUME Control, UNCHANGED <<pc, todo, pos, take, result, call>>,
         cs' = cs \/ pc \notin {"erase", "statusErase", "program", "statusWrite"}
  PROVE  Control'
<1>1. PlanInv'
  BY DEF Control, PlanInv
<1>2. PlaceInv'
  BY DEF Control, PlaceInv, Part, SectorAddr, Resting, SetupPcs, ErasePcs, DiePcs, WritePcs
<1> QED
  BY <1>1, <1>2 DEF Control

-----------------------------------------------------------------------------
(* What the commands of a call touch.                                      *)
Harmless(c, cmd) ==
  \A a \in 0..Total-1 : ChipOf(a) = c /\ a % ChipCells \in Cells(c, cmd) => a \in Reach(call)

(* Selecting a chip and sending it a command, which may fail or be lost.   *)
Commanded ==
  /\ cs' \in Chips /\ tries' \in 0..Retries /\ call' = call /\ before' = before
  /\ \/ UNCHANGED chipVars
     \/ mem' = mem /\ \E c \in Chips : chip' = [chip EXCEPT ![c].wel = FALSE]
     \/ \E c \in Chips : \E cmd : Obey(c, cmd) /\ Harmless(c, cmd)

LEMMA PlainHarmless ==
  ASSUME NEW do, do \notin Destructive
  PROVE  \A c \in Chips : Harmless(c, Plain(do))
BY DEF Harmless, Cells, Plain, Cmd, Destructive

LEMMA EraseHarmless ==
  ASSUME DriverInv, pc = "erase"
  PROVE  Harmless(cs, Cmd("erase", SectorAddr, Blank))
<1> DEFINE p == Part
           x == p.addr + pos * SectorCells
<1>1. /\ todo # <<>> /\ p.do = "erase" /\ p.len # Total /\ pos \in 0..NumSect(p)-1
      /\ cs = ChipOf(x) /\ chip[cs].four
  BY DEF DriverInv, PlaceInv, ErasePcs, FourBytes, SetupPcs, SectorAddr, TypeOK, Resting
<1>2. p \in Parts /\ Fits(call, p)
  BY <1>1 DEF DriverInv, PlanInv, Part
<1>3. /\ call.kind \in {"erase", "safe"} /\ p.addr = call.addr /\ p.len = call.len
      /\ p.addr \in Nat /\ p.len \in Nat \ {0}
  BY <1>1, <1>2 DEF Fits, Parts
<1>4. Reach(call) = SectorsOf(p.addr, p.len + 1)
  BY <1>1, <1>3 DEF Reach
<1>5. PICK y \in p.addr .. p.addr + p.len : y \div SectorCells = x \div SectorCells
  BY <1>1, <1>2, SectorsFit
<1>6. x \in Nat /\ pos \in Nat
  <2>1. pos \in Nat /\ pos * SectorCells \in Nat
    BY Sizes DEF DriverInv
  <2> QED
    BY <1>3, <2>1
<1> HIDE DEF p, x
<1>7. ASSUME NEW a \in 0..Total-1, ChipOf(a) = cs, a % ChipCells \in Cells(cs, Cmd("erase", x, Blank))
      PROVE  a \in Reach(call)
  <2>1. (a % ChipCells) \div SectorCells = (x % ChipCells) \div SectorCells
    BY <1>1, <1>7 DEF Cells, Cmd
  <2>2. a \div SectorCells = (x % Total) \div SectorCells
    BY <1>1, <1>6, <1>7, <2>1, SameSectorOfChip
  <2>3. y \in p.addr .. p.addr + (p.len + 1) - 1 /\ p.len + 1 \in Nat
    BY <1>3, <1>5
  <2>4. a \in SectorsOf(p.addr, p.len + 1)
    BY <1>3, <1>5, <1>6, <2>2, <2>3, InSectors
  <2> QED
    BY <1>4, <2>4
<1> QED
  BY <1>7 DEF Harmless, SectorAddr, x, p

LEMMA DieHarmless ==
  ASSUME DriverInv, pc = "die", NEW at
  PROVE  Harmless(cs, Cmd("die", at, Blank))
<1> DEFINE p == Part
<1>1. todo # <<>> /\ p.do = "erase" /\ p.len = Total
  BY DEF DriverInv, PlaceInv, DiePcs, SetupPcs, Resting
<1>2. p \in Parts /\ Fits(call, p)
  BY <1>1 DEF DriverInv, PlanInv, Part
<1>3. call.kind \in {"erase", "safe"} /\ call.addr \in Nat /\ call.len = Total
  BY <1>1, <1>2 DEF Fits, Parts
<1>4. Reach(call) = SectorsOf(call.addr, Total)
  BY <1>3 DEF Reach
<1> QED
  BY <1>3, <1>4, AllOfIt DEF Harmless

LEMMA ProgramHarmless ==
  ASSUME DriverInv, pc = "program", NEW data
  PROVE  Harmless(cs, Cmd("program", Part.addr + pos, data))
<1> DEFINE p == Part
           x == p.addr + pos
<1>1. /\ todo # <<>> /\ p.do = "write" /\ pos \in 0..(PageCount(p) * PageCells) - 1
      /\ cs = ChipOf(x) /\ chip[cs].four
  BY DEF DriverInv, PlaceInv, WritePcs, FourBytes, SetupPcs, TypeOK, Resting
<1>2. p \in Parts /\ Fits(call, p)
  BY <1>1 DEF DriverInv, PlanInv, Part
<1>3. p.addr \in Nat /\ pos \in Nat /\ x \in Nat
  BY <1>2 DEF Parts, DriverInv
<1>4. x % Total \in Reach(call)
  BY <1>1, <1>2 DEF Fits
<1> HIDE DEF p, x
<1>5. ASSUME NEW a \in 0..Total-1, ChipOf(a) = cs, a % ChipCells \in Cells(cs, Cmd("program", x, data))
      PROVE  a \in Reach(call)
  <2>1. a % ChipCells = x % ChipCells
    BY <1>1, <1>5 DEF Cells, Cmd
  <2> QED
    BY <1>1, <1>3, <1>4, <1>5, <2>1, SameCell
<1> QED
  BY <1>5 DEF Harmless, x, p

(* A step of a call keeps the chips, and the reach.                        *)
LEMMA CommandedIs ==
  ASSUME DriverInv, StaysInReach, Working, Commanded, Control', Working'
  PROVE  DriverInv' /\ StaysInReach'
<1>1. /\ chip \in [Chips -> [wel : BOOLEAN, busy : BOOLEAN, four : BOOLEAN]] /\ DOMAIN mem = Chips
      /\ \A k \in Chips : chip[k].four
  BY DEF DriverInv, TypeOK, Shapes, FourBytes, Working
<1>2. /\ chip' \in [Chips -> [wel : BOOLEAN, busy : BOOLEAN, four : BOOLEAN]] /\ Shapes'
      /\ \A k \in Chips : chip'[k].four
  <2>1. CASE UNCHANGED chipVars
    BY <1>1, <2>1 DEF chipVars, Shapes
  <2>2. CASE mem' = mem /\ \E c \in Chips : chip' = [chip EXCEPT ![c].wel = FALSE]
    <3>1. PICK c \in Chips : chip' = [chip EXCEPT ![c].wel = FALSE]
      BY <2>2
    <3>2. chip[c] \in [wel : BOOLEAN, busy : BOOLEAN, four : BOOLEAN]
      BY <1>1
    <3> DEFINE new == [chip[c] EXCEPT !.wel = FALSE]
    <3>3. new \in [wel : BOOLEAN, busy : BOOLEAN, four : BOOLEAN] /\ new.four = chip[c].four
      BY <3>2
    <3>4. chip' = [chip EXCEPT ![c] = new]
      BY <3>1
    <3> HIDE DEF new
    <3>5. /\ chip' \in [Chips -> [wel : BOOLEAN, busy : BOOLEAN, four : BOOLEAN]]
          /\ \A k \in Chips : chip'[k].four
      BY <1>1, <3>3, <3>4
    <3> QED
      BY <2>2, <3>5 DEF Shapes, DriverInv
  <2>3. CASE \E c \in Chips : \E cmd : Obey(c, cmd) /\ Harmless(c, cmd)
    BY <1>1, <2>3, ObeyIs DEF DriverInv
  <2> QED
    BY <2>1, <2>2, <2>3 DEF Commanded
<1>3. \A a \in 0..Total-1 : a \notin Reach(call) => At(mem', a) = At(mem, a)
  <2>1. CASE mem' = mem
    BY <2>1
  <2>2. CASE \E c \in Chips : \E cmd : Obey(c, cmd) /\ Harmless(c, cmd)
    <3> TAKE a \in 0..Total-1
    <3> HAVE a \notin Reach(call)
    <3>1. a \in Nat
      BY Inside
    <3>2. PICK c \in Chips : \E cmd : Obey(c, cmd) /\ Harmless(c, cmd)
      BY <2>2
    <3>3. PICK cmd : Obey(c, cmd) /\ Harmless(c, cmd)
      BY <3>2
    <3>4. ChipOf(a) # c \/ a % ChipCells \notin Cells(c, cmd)
      BY <3>3 DEF Harmless
    <3> QED
      BY <3>1, <3>3, <3>4, ObeyCells DEF DriverInv
  <2> QED
    BY <2>1, <2>2 DEF Commanded, chipVars
<1>4. StaysInReach'
  <2>1. call' = call /\ before' = before
    BY DEF Commanded
  <2>2. Reach(call') = Reach(call)
    BY <2>1
  <2>3. \A a \in 0..Total-1 : a \notin Reach(call) => At(mem, a) = At(before, a)
    BY DEF StaysInReach
  <2>4. \A a \in 0..Total-1 : a \notin Reach(call') => At(mem', a) = At(before', a)
    BY <1>3, <2>1, <2>2, <2>3
  <2> QED
    BY <2>4 DEF StaysInReach
<1>5. FourBytes'
  BY <1>2 DEF FourBytes, Working, SetupPcs
<1>6. TypeOK'
  <2>1. pc' \in {"idle", "down", "trap"} => todo' = <<>>
    BY DEF Control, PlaceInv, Resting
  <2> QED
    BY <1>2, <2>1 DEF Control, Commanded, TypeOK
<1> QED
  BY <1>2, <1>4, <1>5, <1>6 DEF DriverInv, Control

-----------------------------------------------------------------------------
(* The transfers of an erase.                                              *)
LEMMA EraseSectorStep ==
  ASSUME DriverInv, EraseSector
  PROVE  Working /\ Commanded /\ Control' /\ Working'
<1>1. pc \in ErasePcs
  BY DEF EraseSector, Send, Status, ErasePcs
<1>2. /\ todo # <<>> /\ Part \in Parts /\ Part.do = "erase" /\ Part.len # Total
      /\ pos \in 0..NumSect(Part)-1 /\ pos \in Nat /\ Control /\ Working
      /\ NumSect(Part) \in Nat /\ Part.addr \in Nat
  <2>1. todo # <<>> /\ todo \in Seq(Parts) /\ Control /\ Working
    BY <1>1 DEF DriverInv, PlaceInv, PlanInv, TypeOK, Control, Working, ErasePcs, SetupPcs, Resting
  <2>2. Part \in Parts
    BY <2>1 DEF Part
  <2> QED
    BY <1>1, <2>1, <2>2, SectorsFit DEF DriverInv, PlaceInv, Parts
<1>3. /\ cs \in Chips /\ tries \in 0..Retries /\ 0 \in 0..Retries /\ (tries < Retries => tries + 1 \in 0..Retries)
      /\ ChipOf(SectorAddr) \in Chips
  <2>1. SectorAddr \in Nat
    <3>1. pos * SectorCells \in Nat
      BY <1>2, Sizes
    <3> QED
      BY <1>2, <3>1 DEF SectorAddr
  <2>2. ChipOf(SectorAddr) \in Chips
    BY <2>1, Located
  <2> QED
    BY <2>2, OspiAssumption DEF DriverInv, TypeOK
<1>4. CASE Send("wrenErase", ChipOf(SectorAddr), Plain("wren"), TRUE, "erase", End("failed"))
  <2>1. pc = "wrenErase" /\ cs' = ChipOf(SectorAddr) /\ call' = call /\ before' = before
    BY <1>4 DEF Send, Fails, callVars
  <2>2. Commanded
    <3>1. tries' \in 0..Retries
      BY <1>3, <1>4 DEF Send, Fails
    <3>2. Obey(ChipOf(SectorAddr), Plain("wren")) \/ UNCHANGED chipVars
      BY <1>4 DEF Send, Fails
    <3>3. Harmless(ChipOf(SectorAddr), Plain("wren"))
      BY <1>3, PlainHarmless DEF Destructive
    <3> QED
      BY <1>3, <2>1, <3>1, <3>2, <3>3 DEF Commanded
  <2>3. \/ pc' = "erase" /\ UNCHANGED <<pos, todo, take, result>>
        \/ UNCHANGED <<pc, todo, pos, take, result>>
        \/ End("failed")
    BY <1>4 DEF Send, Fails, Onward
  <2>4. CASE pc' = "erase" /\ UNCHANGED <<pos, todo, take, result>>
    BY <1>2, <2>1, <2>2, <2>4 DEF Control, PlanInv, PlaceInv, Part, SectorAddr, Working,
                            Resting, SetupPcs, ErasePcs, DiePcs, WritePcs
  <2>5. CASE UNCHANGED <<pc, todo, pos, take, result>>
    BY <1>2, <2>1, <2>2, <2>5, Stayed DEF Working
  <2>6. CASE End("failed")
    BY <1>2, <2>1, <2>2, <2>6, Ended DEF Control
  <2> QED
    BY <1>2, <2>2, <2>3, <2>4, <2>5, <2>6
<1>5. CASE Send("erase", cs, Cmd("erase", SectorAddr, Blank), TRUE, "statusErase", End("failed"))
  <2>1. pc = "erase" /\ cs' = cs /\ call' = call /\ before' = before
    BY <1>5 DEF Send, Fails, callVars
  <2>2. Commanded
    <3>1. tries' \in 0..Retries
      BY <1>3, <1>5 DEF Send, Fails
    <3>2. Obey(cs, Cmd("erase", SectorAddr, Blank)) \/ UNCHANGED chipVars
      BY <1>5 DEF Send, Fails
    <3>3. Harmless(cs, Cmd("erase", SectorAddr, Blank))
      BY <2>1, EraseHarmless
    <3> QED
      BY <1>3, <2>1, <3>1, <3>2, <3>3 DEF Commanded
  <2>3. \/ pc' = "statusErase" /\ UNCHANGED <<pos, todo, take, result>>
        \/ UNCHANGED <<pc, todo, pos, take, result>>
        \/ End("failed")
    BY <1>5 DEF Send, Fails, Onward
  <2>4. CASE pc' = "statusErase" /\ UNCHANGED <<pos, todo, take, result>>
    BY <1>2, <2>1, <2>2, <2>4 DEF Control, PlanInv, PlaceInv, Part, SectorAddr, Working,
                            Resting, SetupPcs, ErasePcs, DiePcs, WritePcs
  <2>5. CASE UNCHANGED <<pc, todo, pos, take, result>>
    BY <1>2, <2>1, <2>2, <2>5, Stayed DEF Working
  <2>6. CASE End("failed")
    BY <1>2, <2>1, <2>2, <2>6, Ended DEF Control
  <2> QED
    BY <1>2, <2>2, <2>3, <2>4, <2>5, <2>6
<1>6. CASE Status("statusErase", TRUE,
                  IF pos + 1 < NumSect(Part) THEN Onward("wrenErase", pos + 1) ELSE Through,
                  End("failed"))
  <2>1. pc = "statusErase" /\ cs' = cs /\ call' = call /\ before' = before
    BY <1>6 DEF Status, Fails, callVars
  <2>2. Commanded
    <3>1. tries' \in 0..Retries
      BY <1>3, <1>6 DEF Status, Fails
    <3>2. Obey(cs, Plain("status")) \/ UNCHANGED chipVars
      BY <1>6 DEF Status, Fails
    <3>3. Harmless(cs, Plain("status"))
      BY <1>3, PlainHarmless DEF Destructive
    <3> QED
      BY <1>3, <2>1, <3>1, <3>2, <3>3 DEF Commanded
  <2>3. \/ UNCHANGED <<pc, todo, pos, take, result>>
        \/ pos + 1 < NumSect(Part) /\ pc' = "wrenErase" /\ pos' = pos + 1 /\ UNCHANGED <<todo, take, result>>
        \/ Through
        \/ End("failed")
    BY <1>6 DEF Status, Fails, Onward
  <2>4. CASE pos + 1 < NumSect(Part) /\ pc' = "wrenErase" /\ pos' = pos + 1 /\ UNCHANGED <<todo, take, result>>
    <3>1. pos' \in 0..NumSect(Part)-1
      BY <1>2, <2>4
    <3> QED
      BY <1>2, <2>1, <2>2, <2>4, <3>1 DEF Control, PlanInv, PlaceInv, Part, SectorAddr, Working,
                                    Resting, SetupPcs, ErasePcs, DiePcs, WritePcs
  <2>5. CASE UNCHANGED <<pc, todo, pos, take, result>>
    BY <1>2, <2>1, <2>2, <2>5, Stayed DEF Working
  <2>6. CASE End("failed")
    BY <1>2, <2>1, <2>2, <2>6, Ended DEF Control
  <2>7. CASE Through
    BY <1>2, <2>1, <2>2, <2>7, WentThrough
  <2> QED
    BY <1>2, <2>2, <2>3, <2>4, <2>5, <2>6, <2>7
<1> QED
  BY <1>4, <1>5, <1>6 DEF EraseSector

(* The transfers of an erase of all chips; NextChip goes on to the first   *)
(* die of the next one.                                                    *)
LEMMA NextChipIs ==
  ASSUME Control, pc \in DiePcs, todo # <<>>, NextChip, call' = call
  PROVE  Control' /\ Working'
<1> DEFINE c == pos \div NumDie + 1
<1>1. pos \in Nat /\ pos \div NumDie \in Nat /\ Part.do = "erase" /\ Part.len = Total
  BY Dies DEF Control, PlaceInv
<1>2. CASE c \in Chips
  <2>1. pc' = "wrenDie" /\ pos' = c * NumDie /\ UNCHANGED <<todo, take, result>>
    BY <1>2 DEF NextChip, Onward
  <2>2. c \in Nat
    BY <1>1
  <2> HIDE DEF c
  <2>3. c * NumDie \in Nat /\ (c * NumDie) \div NumDie = c
    BY <1>1, <2>2, Dies
  <2>4. pos' \in Nat /\ pos' \div NumDie \in Chips
    BY <1>2, <2>1, <2>3
  <2> QED
    BY <1>1, <2>1, <2>4 DEF Control, PlanInv, PlaceInv, Part, Working,
                            Resting, SetupPcs, ErasePcs, DiePcs, WritePcs
<1>3. CASE ~(c \in Chips)
  <2>1. Through
    BY <1>3 DEF NextChip
  <2> QED
    BY <2>1, WentThrough
<1> QED
  BY <1>2, <1>3

LEMMA EraseDieStep ==
  ASSUME DriverInv, EraseDie
  PROVE  Working /\ Commanded /\ Control' /\ Working'
<1>1. pc \in DiePcs
  BY DEF EraseDie, Send, Status, DiePcs
<1>2. /\ todo # <<>> /\ Part.do = "erase" /\ Part.len = Total
      /\ pos \in Nat /\ pos \div NumDie \in Chips /\ Control /\ Working
  BY <1>1 DEF DriverInv, PlaceInv, TypeOK, Control, Working, DiePcs, SetupPcs, Resting
<1>3. /\ cs \in Chips /\ tries \in 0..Retries /\ 0 \in 0..Retries /\ (tries < Retries => tries + 1 \in 0..Retries)
  BY OspiAssumption DEF DriverInv, TypeOK
<1>4. CASE Send("wrenDie", pos \div NumDie, Plain("wren"), TRUE, "die", NextChip)
  <2> DEFINE c == pos \div NumDie
  <2>1. pc = "wrenDie" /\ cs' = c /\ call' = call /\ before' = before
    BY <1>4 DEF Send, Fails, callVars
  <2>2. Commanded
    <3>1. tries' \in 0..Retries
      BY <1>3, <1>4 DEF Send, Fails
    <3>2. Obey(c, Plain("wren")) \/ UNCHANGED chipVars
      BY <1>4 DEF Send, Fails
    <3>3. c \in Chips /\ Harmless(c, Plain("wren"))
      BY <1>2, PlainHarmless DEF Destructive
    <3> QED
      BY <2>1, <3>1, <3>2, <3>3 DEF Commanded
  <2>3. \/ pc' = "die" /\ UNCHANGED <<pos, todo, take, result>>
        \/ UNCHANGED <<pc, todo, pos, take, result>>
        \/ NextChip
    BY <1>4 DEF Send, Fails, Onward
  <2>4. CASE pc' = "die" /\ UNCHANGED <<pos, todo, take, result>>
    BY <1>2, <2>1, <2>2, <2>4 DEF Control, PlanInv, PlaceInv, Part, Working,
                            Resting, SetupPcs, ErasePcs, DiePcs, WritePcs
  <2>5. CASE UNCHANGED <<pc, todo, pos, take, result>>
    BY <1>2, <2>1, <2>2, <2>5, Stayed DEF Working
  <2>6. CASE NextChip
    BY <1>1, <1>2, <2>1, <2>2, <2>6, NextChipIs
  <2> QED
    BY <1>2, <2>2, <2>3, <2>4, <2>5, <2>6
<1>5. CASE Send("die", cs, Cmd("die", pos % NumDie, Blank), TRUE, "statusDie", NextChip)
  <2>1. pc = "die" /\ cs' = cs /\ call' = call /\ before' = before
    BY <1>5 DEF Send, Fails, callVars
  <2>2. Commanded
    <3>1. tries' \in 0..Retries
      BY <1>3, <1>5 DEF Send, Fails
    <3>2. Obey(cs, Cmd("die", pos % NumDie, Blank)) \/ UNCHANGED chipVars
      BY <1>5 DEF Send, Fails
    <3>3. Harmless(cs, Cmd("die", pos % NumDie, Blank))
      BY <2>1, DieHarmless
    <3> QED
      BY <1>3, <2>1, <3>1, <3>2, <3>3 DEF Commanded
  <2>3. \/ pc' = "statusDie" /\ UNCHANGED <<pos, todo, take, result>>
        \/ UNCHANGED <<pc, todo, pos, take, result>>
        \/ NextChip
    BY <1>5 DEF Send, Fails, Onward
  <2>4. CASE pc' = "statusDie" /\ UNCHANGED <<pos, todo, take, result>>
    BY <1>2, <2>1, <2>2, <2>4 DEF Control, PlanInv, PlaceInv, Part, Working,
                            Resting, SetupPcs, ErasePcs, DiePcs, WritePcs
  <2>5. CASE UNCHANGED <<pc, todo, pos, take, result>>
    BY <1>2, <2>1, <2>2, <2>5, Stayed DEF Working
  <2>6. CASE NextChip
    BY <1>1, <1>2, <2>1, <2>2, <2>6, NextChipIs
  <2> QED
    BY <1>2, <2>2, <2>3, <2>4, <2>5, <2>6
<1>6. CASE Status("statusDie", TRUE,
                  IF (pos + 1) % NumDie # 0 THEN Onward("wrenDie", pos + 1) ELSE NextChip,
                  NextChip)
  <2>1. pc = "statusDie" /\ cs' = cs /\ call' = call /\ before' = before
    BY <1>6 DEF Status, Fails, callVars
  <2>2. Commanded
    <3>1. tries' \in 0..Retries
      BY <1>3, <1>6 DEF Status, Fails
    <3>2. Obey(cs, Plain("status")) \/ UNCHANGED chipVars
      BY <1>6 DEF Status, Fails
    <3>3. Harmless(cs, Plain("status"))
      BY <1>3, PlainHarmless DEF Destructive
    <3> QED
      BY <1>3, <2>1, <3>1, <3>2, <3>3 DEF Commanded
  <2>3. \/ UNCHANGED <<pc, todo, pos, take, result>>
        \/ (pos + 1) % NumDie # 0 /\ pc' = "wrenDie" /\ pos' = pos + 1 /\ UNCHANGED <<todo, take, result>>
        \/ NextChip
    BY <1>6 DEF Status, Fails, Onward
  <2>4. CASE (pos + 1) % NumDie # 0 /\ pc' = "wrenDie" /\ pos' = pos + 1 /\ UNCHANGED <<todo, take, result>>
    <3>1. pos' \in Nat /\ pos' \div NumDie \in Chips
      BY <1>2, <2>4, Dies
    <3> QED
      BY <1>2, <2>1, <2>2, <2>4, <3>1 DEF Control, PlanInv, PlaceInv, Part, Working,
                                    Resting, SetupPcs, ErasePcs, DiePcs, WritePcs
  <2>5. CASE UNCHANGED <<pc, todo, pos, take, result>>
    BY <1>2, <2>1, <2>2, <2>5, Stayed DEF Working
  <2>6. CASE NextChip
    BY <1>1, <1>2, <2>1, <2>2, <2>6, NextChipIs
  <2> QED
    BY <1>2, <2>2, <2>3, <2>4, <2>5, <2>6
<1> QED
  BY <1>4, <1>5, <1>6 DEF EraseDie

-----------------------------------------------------------------------------
(* The transfers of a write; none of them is sent again.                   *)
LEMMA FlashIoWriteStep ==
  ASSUME DriverInv, FlashIoWrite
  PROVE  Working /\ Commanded /\ Control' /\ Working'
<1> DEFINE n == PageCount(Part) * PageCells
<1>1. pc \in WritePcs
  BY DEF FlashIoWrite, Send, Status, WritePcs
<1>2. /\ todo # <<>> /\ Part.do = "write" /\ pos \in 0..n-1 /\ n \in Nat \ {0}
      /\ pos \in Nat /\ Control /\ Working /\ Part.addr \in Nat
  <2>1. todo # <<>> /\ todo \in Seq(Parts) /\ Control /\ Working
    BY <1>1 DEF DriverInv, PlaceInv, PlanInv, TypeOK, Control, Working, WritePcs, SetupPcs, Resting
  <2>2. Part \in Parts
    BY <2>1 DEF Part
  <2>3. Part.addr \in Nat /\ Part.len \in Nat \ {0}
    BY <2>2 DEF Parts
  <2> QED
    BY <1>1, <2>1, <2>3, Pages DEF DriverInv, PlaceInv
<1>3. cs \in Chips /\ 0 \in 0..Retries /\ tries \in 0..Retries /\ ChipOf(Part.addr + pos) \in Chips
  <2>1. Part.addr + pos \in Nat
    BY <1>2
  <2>2. ChipOf(Part.addr + pos) \in Chips
    BY <2>1, Located
  <2> QED
    BY <2>2, OspiAssumption DEF DriverInv, TypeOK
<1>4. CASE Send("wrenWrite", ChipOf(Part.addr + pos), Plain("wren"), FALSE, "program", End("failed"))
  <2>1. pc = "wrenWrite" /\ cs' = ChipOf(Part.addr + pos) /\ call' = call /\ before' = before /\ tries' = 0
    BY <1>4 DEF Send, Fails, callVars
  <2>2. Commanded
    <3>1. Obey(ChipOf(Part.addr + pos), Plain("wren")) \/ UNCHANGED chipVars
      BY <1>4 DEF Send, Fails
    <3>2. Harmless(ChipOf(Part.addr + pos), Plain("wren"))
      BY <1>3, PlainHarmless DEF Destructive
    <3> QED
      BY <1>3, <2>1, <3>1, <3>2 DEF Commanded
  <2>3. \/ pc' = "program" /\ UNCHANGED <<pos, todo, take, result>>
        \/ End("failed")
    BY <1>4 DEF Send, Fails, Onward
  <2>4. CASE pc' = "program" /\ UNCHANGED <<pos, todo, take, result>>
    BY <1>2, <2>1, <2>2, <2>4 DEF Control, PlanInv, PlaceInv, Part, Working,
                                  Resting, SetupPcs, ErasePcs, DiePcs, WritePcs
  <2>5. CASE End("failed")
    BY <1>2, <2>1, <2>2, <2>5, Ended DEF Control
  <2> QED
    BY <2>3, <2>4, <2>5
<1>5. CASE Send("program", cs, Cmd("program", Part.addr + pos, Data(Part, pos)), FALSE, "statusWrite", End("failed"))
  <2> DEFINE cmd == Cmd("program", Part.addr + pos, Data(Part, pos))
  <2>1. pc = "program" /\ cs' = cs /\ call' = call /\ before' = before /\ tries' = 0
    BY <1>5 DEF Send, Fails, callVars
  <2>2. Commanded
    <3>1. Obey(cs, cmd) \/ UNCHANGED chipVars
      BY <1>5 DEF Send, Fails
    <3>2. Harmless(cs, cmd)
      BY <2>1, ProgramHarmless
    <3> HIDE DEF cmd
    <3> QED
      BY <1>3, <2>1, <3>1, <3>2 DEF Commanded
  <2>3. \/ pc' = "statusWrite" /\ UNCHANGED <<pos, todo, take, result>>
        \/ End("failed")
    BY <1>5 DEF Send, Fails, Onward
  <2>4. CASE pc' = "statusWrite" /\ UNCHANGED <<pos, todo, take, result>>
    BY <1>2, <2>1, <2>2, <2>4 DEF Control, PlanInv, PlaceInv, Part, Working,
                                  Resting, SetupPcs, ErasePcs, DiePcs, WritePcs
  <2>5. CASE End("failed")
    BY <1>2, <2>1, <2>2, <2>5, Ended DEF Control
  <2> QED
    BY <2>3, <2>4, <2>5
<1>6. CASE /\ pc = "program" /\ count.lost < MaxLost
           /\ count' = [count EXCEPT !.lost = @ + 1]
           /\ chip' = [chip EXCEPT ![cs].wel = FALSE]
           /\ Onward("statusWrite", pos)
           /\ UNCHANGED <<mem, cs, callVars, buf, tries>>
  <2>1. pc = "program" /\ cs' = cs /\ call' = call /\ before' = before /\ tries' = tries
    BY <1>6 DEF callVars
  <2>2. Commanded
    BY <1>3, <1>6, <2>1 DEF Commanded
  <2>3. pc' = "statusWrite" /\ UNCHANGED <<pos, todo, take, result>>
    BY <1>6 DEF Onward
  <2> QED
    BY <1>2, <2>1, <2>2, <2>3 DEF Control, PlanInv, PlaceInv, Part, Working,
                                  Resting, SetupPcs, ErasePcs, DiePcs, WritePcs
<1>7. CASE Status("statusWrite", FALSE, NextCell, End("failed"))
  <2>1. pc = "statusWrite" /\ cs' = cs /\ call' = call /\ before' = before /\ tries' = 0
    BY <1>7 DEF Status, Fails, callVars
  <2>2. Commanded
    <3>1. Obey(cs, Plain("status")) \/ UNCHANGED chipVars
      BY <1>7 DEF Status, Fails
    <3>2. Harmless(cs, Plain("status"))
      BY <1>3, PlainHarmless DEF Destructive
    <3> QED
      BY <1>3, <2>1, <3>1, <3>2 DEF Commanded
  <2>3. \/ UNCHANGED <<pc, todo, pos, take, result>>
        \/ pos + 1 < n /\ pc' = "wrenWrite" /\ pos' = pos + 1 /\ UNCHANGED <<todo, take, result>>
        \/ pc' = "verify" /\ pos' = 0 /\ UNCHANGED <<todo, take, result>>
        \/ End("failed")
    BY <1>7 DEF Status, Fails, Onward, NextCell
  <2>4. CASE pos + 1 < n /\ pc' = "wrenWrite" /\ pos' = pos + 1 /\ UNCHANGED <<todo, take, result>>
    <3>1. pos' \in 0..n-1 /\ Part' = Part
      BY <1>2, <2>4 DEF Part
    <3>2. pos' \in 0..(PageCount(Part') * PageCells) - 1
      BY <3>1
    <3> HIDE DEF n
    <3> QED
      BY <1>2, <2>1, <2>2, <2>4, <3>1, <3>2 DEF Control, PlanInv, PlaceInv, Working,
                                                Resting, SetupPcs, ErasePcs, DiePcs, WritePcs
  <2>5. CASE UNCHANGED <<pc, todo, pos, take, result>>
    BY <1>2, <2>1, <2>2, <2>5, Stayed DEF Working
  <2>6. CASE End("failed")
    BY <1>2, <2>1, <2>2, <2>6, Ended DEF Control
  <2>7. CASE pc' = "verify" /\ pos' = 0 /\ UNCHANGED <<todo, take, result>>
    BY <1>2, <2>1, <2>2, <2>7 DEF Control, PlanInv, PlaceInv, Part, Working,
                                  Resting, SetupPcs, ErasePcs, DiePcs, WritePcs
  <2> QED
    BY <2>3, <2>4, <2>5, <2>6, <2>7
<1> QED
  BY <1>4, <1>5, <1>6, <1>7 DEF FlashIoWrite

(* The read back of a write only reads.                                    *)
LEMMA VerifyStep ==
  ASSUME DriverInv, Verify
  PROVE  Working /\ Commanded /\ Control' /\ Working'
<1> DEFINE c == ChipOf(Part.addr + pos * PageCells)
<1>1. pc = "verify" /\ call' = call /\ before' = before
  BY DEF Verify, Fails, callVars
<1>2. /\ todo # <<>> /\ Part.do = "write" /\ Control /\ Working
      /\ pos \in Nat /\ Part.addr \in Nat /\ Part.len \in Nat \ {0}
  <2>1. todo # <<>> /\ todo \in Seq(Parts) /\ Control /\ Working
    BY <1>1 DEF DriverInv, PlaceInv, PlanInv, TypeOK, Control, Working, SetupPcs, Resting
  <2>2. Part \in Parts
    BY <2>1 DEF Part
  <2> QED
    BY <1>1, <2>1, <2>2 DEF DriverInv, PlaceInv, Parts
<1>3. c \in Chips /\ 0 \in 0..Retries /\ tries \in 0..Retries
  <2>1. pos * PageCells \in Nat
    BY <1>2, Sizes
  <2>2. Part.addr + pos * PageCells \in Nat
    BY <1>2, <2>1
  <2> QED
    BY <2>2, Located, OspiAssumption DEF DriverInv, TypeOK
<1>4. Commanded
  <2>1. tries' \in {tries, 0} /\ cs' = c
    BY DEF Verify, Fails
  <2>2. Obey(c, Plain("read")) \/ UNCHANGED chipVars
    BY DEF Verify, Fails
  <2>3. Harmless(c, Plain("read"))
    BY <1>3, PlainHarmless DEF Destructive
  <2> HIDE DEF c
  <2> QED
    BY <1>1, <1>3, <2>1, <2>2, <2>3 DEF Commanded
<1>5. \/ End("failed")
      \/ Through
      \/ \E p \in pos + 1 .. PageCount(Part) - 1 : Onward("verify", p)
      \/ Trap
  BY DEF Verify, Fails
<1>6. CASE End("failed")
  BY <1>1, <1>2, <1>4, <1>6, Ended DEF Control
<1>7. CASE Through
  BY <1>1, <1>2, <1>4, <1>7, WentThrough
<1>8. CASE \E p \in pos + 1 .. PageCount(Part) - 1 : Onward("verify", p)
  <2>1. PICK p \in pos + 1 .. PageCount(Part) - 1 : Onward("verify", p)
    BY <1>8
  <2>2. pc' = "verify" /\ pos' = p /\ UNCHANGED <<todo, take, result>>
    BY <2>1 DEF Onward
  <2>3. PageCount(Part) \in Nat
    BY <1>2, Pages
  <2>4. pos' \in Nat
    BY <1>2, <2>2, <2>3
  <2> HIDE DEF c
  <2> QED
    BY <1>1, <1>2, <1>4, <2>2, <2>4 DEF Control, PlanInv, PlaceInv, Part, Working,
                                        Resting, SetupPcs, ErasePcs, DiePcs, WritePcs
<1>9. CASE Trap
  <2>1. pc' = "trap" /\ todo' = <<>> /\ pos' = 0 /\ take' = 0 /\ result' = "failed"
    BY <1>9 DEF Trap
  <2> HIDE DEF c
  <2> QED
    BY <1>1, <1>2, <1>4, <2>1 DEF Control, PlanInv, PlaceInv, Working, Resting, SetupPcs, ErasePcs, DiePcs, WritePcs
<1> QED
  BY <1>5, <1>6, <1>7, <1>8, <1>9

(* A read takes what is left of its part in one go, or what the chip has.  *)
LEMMA FlashReadStep ==
  ASSUME DriverInv, FlashRead
  PROVE  Working /\ Commanded /\ Control' /\ Working'
<1> DEFINE c == ChipOf(Part.addr + pos)
<1>1. pc = "read" /\ call' = call /\ before' = before
  BY DEF FlashRead, Fails, callVars
<1>2. /\ todo # <<>> /\ Part.do = "read" /\ Control /\ Working
      /\ pos \in Nat /\ take \in Nat /\ Part.addr \in Nat /\ Part.len \in Nat \ {0}
      /\ pos + take <= Part.len /\ (pos = 0 \/ pos + take = Part.len)
  <2>1. todo # <<>> /\ todo \in Seq(Parts) /\ Control /\ Working
    BY <1>1 DEF DriverInv, PlaceInv, PlanInv, TypeOK, Control, Working, SetupPcs, Resting
  <2>2. Part \in Parts
    BY <2>1 DEF Part
  <2> QED
    BY <1>1, <2>1, <2>2 DEF DriverInv, PlaceInv, Parts
<1>3. c \in Chips /\ 0 \in 0..Retries /\ tries \in 0..Retries
  <2>1. Part.addr + pos \in Nat
    BY <1>2
  <2>2. ChipOf(Part.addr + pos) \in Chips
    BY <2>1, Located
  <2> QED
    BY <2>2, OspiAssumption DEF DriverInv, TypeOK
<1>4. Commanded
  <2>1. tries' \in {tries, 0} /\ cs' = c
    BY DEF FlashRead, Fails
  <2>2. Obey(c, Plain("read")) \/ UNCHANGED chipVars
    BY DEF FlashRead, Fails
  <2>3. Harmless(c, Plain("read"))
    BY <1>3, PlainHarmless DEF Destructive
  <2> HIDE DEF c
  <2> QED
    BY <1>1, <1>3, <2>1, <2>2, <2>3 DEF Commanded
<1>5. \/ End("failed")
      \/ pos + take = Part.len /\ Through
      \/ /\ pos + take # Part.len
         /\ pos' = pos + take /\ take' = Part.len - take /\ UNCHANGED <<pc, todo, result>>
  BY DEF FlashRead, Fails
<1>6. CASE End("failed")
  BY <1>1, <1>2, <1>4, <1>6, Ended DEF Control
<1>7. CASE Through
  BY <1>1, <1>2, <1>4, <1>7, WentThrough
<1>8. CASE /\ pos + take # Part.len
           /\ pos' = pos + take /\ take' = Part.len - take /\ UNCHANGED <<pc, todo, result>>
  <2>1. Part' = Part
    BY <1>8 DEF Part
  <2>2. pos' \in Nat /\ take' \in Nat /\ pos' + take' = Part.len
    BY <1>2, <1>8
  <2>3. pos' + take' <= Part'.len /\ pos' + take' = Part'.len /\ Part'.do = "read"
    BY <1>2, <2>1, <2>2
  <2> HIDE DEF c
  <2> QED
    BY <1>1, <1>2, <1>4, <1>8, <2>2, <2>3 DEF Control, PlanInv, PlaceInv, Working,
                                        Resting, SetupPcs, ErasePcs, DiePcs, WritePcs
<1> QED
  BY <1>5, <1>6, <1>7, <1>8

-----------------------------------------------------------------------------
(* While the driver is set up, the chips are only sent commands that leave *)
(* their cells alone.                                                      *)
LEMMA SettingUp ==
  ASSUME DriverInv, StaysInReach, pc \in SetupPcs,
         NEW do, do \notin Destructive, Obey(cs, Plain(do)) \/ UNCHANGED chipVars,
         cs' \in Chips, tries' \in 0..Retries, result' \in {"none", "ok", "failed"},
         UNCHANGED <<callVars, todo, pos, take>>, pc' \in Resting, FourBytes'
  PROVE  DriverInv' /\ StaysInReach'
<1>1. /\ cs \in Chips /\ todo = <<>>
      /\ chip \in [Chips -> [wel : BOOLEAN, busy : BOOLEAN, four : BOOLEAN]] /\ Shapes
      /\ PlanInv /\ pos \in Nat /\ take \in Nat
  BY DEF DriverInv, TypeOK, PlaceInv, Resting
<1>2. chip' \in [Chips -> [wel : BOOLEAN, busy : BOOLEAN, four : BOOLEAN]] /\ Shapes'
  <2>1. CASE UNCHANGED chipVars
    BY <1>1, <2>1 DEF chipVars, Shapes
  <2>2. CASE Obey(cs, Plain(do))
    BY <1>1, <2>2, ObeyIs DEF DriverInv
  <2> QED
    BY <2>1, <2>2
<1>3. \A a \in 0..Total-1 : At(mem', a) = At(mem, a)
  <2>1. CASE UNCHANGED chipVars
    BY <2>1 DEF chipVars
  <2>2. CASE Obey(cs, Plain(do))
    <3> TAKE a \in 0..Total-1
    <3>1. a \in Nat
      BY Inside
    <3>2. Cells(cs, Plain(do)) = {}
      BY DEF Cells, Plain, Cmd, Destructive
    <3>3. a % ChipCells \notin Cells(cs, Plain(do))
      BY <3>2
    <3> QED
      BY <1>1, <2>2, <3>1, <3>3, ObeyCells
  <2> QED
    BY <2>1, <2>2
<1>4. call' = call /\ before' = before /\ todo' = <<>>
  BY <1>1 DEF callVars
<1>5. StaysInReach'
  <2>1. \A a \in 0..Total-1 : a \notin Reach(call) => At(mem, a) = At(before, a)
    BY DEF StaysInReach
  <2>2. Reach(call') = Reach(call)
    BY <1>4
  <2>3. \A a \in 0..Total-1 : a \notin Reach(call') => At(mem', a) = At(before', a)
    BY <1>3, <1>4, <2>1, <2>2
  <2> QED
    BY <2>3 DEF StaysInReach
<1>6. PlaceInv'
  BY <1>4 DEF PlaceInv, Resting, SetupPcs, ErasePcs, DiePcs, WritePcs
<1>7. PlanInv'
  BY <1>1, <1>4 DEF PlanInv
<1>8. TypeOK'
  BY <1>1, <1>2, <1>4 DEF TypeOK
<1> QED
  BY <1>1, <1>2, <1>5, <1>6, <1>7, <1>8 DEF DriverInv

(* A chip has been told to take four bytes of address before the driver    *)
(* goes on from there.                                                     *)
LEMMA SetupSends ==
  ASSUME DriverInv, StaysInReach, NEW step \in SetupPcs, NEW next \in SetupPcs,
         NEW do, do \notin Destructive, Setup(step, Plain(do), next),
         next = "enter4" => do = "wren",
         step = "enter4" => do = "enter4",
         next \in {"statusFour", "disable", "select"} => step \in {"enter4", "statusFour", "disable"}
  PROVE  DriverInv' /\ StaysInReach'
<1>1. /\ pc = step /\ cs' = cs /\ cs \in Chips
      /\ chip \in [Chips -> [wel : BOOLEAN, busy : BOOLEAN, four : BOOLEAN]]
      /\ FourBytes /\ tries \in 0..Retries /\ result \in {"none", "ok", "failed"}
  BY DEF DriverInv, TypeOK, Setup, Send, Fails
<1>2. UNCHANGED <<callVars, todo, pos, take>>
  BY DEF Setup, Send, Fails, Onward, Down
<1>3. tries' \in 0..Retries /\ result' \in {"none", "ok", "failed"}
  BY <1>1, OspiAssumption DEF Setup, Send, Fails, Onward, Down
<1>4. \/ pc' = next /\ Obey(cs, Plain(do))
      \/ pc' = step /\ (Obey(cs, Plain(do)) \/ UNCHANGED chipVars)
      \/ pc' = "down" /\ (Obey(cs, Plain(do)) \/ UNCHANGED chipVars)
  BY <1>1 DEF Setup, Send, Fails, Onward, Down
<1>5. ~chip[cs].busy /\ (cs = 1 => chip[0].four)
  BY <1>1 DEF FourBytes
<1>6. ASSUME Obey(cs, Plain(do))
      PROVE  /\ \A k \in Chips : chip[k].four => chip'[k].four
             /\ \A k \in Chips : ~chip'[k].busy
             /\ do = "wren" => chip'[cs].wel
             /\ do = "enter4" /\ chip[cs].wel => chip'[cs].four
  <2> DEFINE cmd == Plain(do)
  <2>1. cmd.do = do
    BY DEF Plain, Cmd
  <2> HIDE DEF cmd
  <2>2. Obey(cs, cmd)
    BY <1>6 DEF cmd
  <2>3. /\ \A k \in Chips : chip[k].four => chip'[k].four
        /\ \A k \in Chips \ {cs} : chip'[k] = chip[k]
        /\ ~chip'[cs].busy
        /\ do = "wren" => chip'[cs].wel
        /\ do = "enter4" /\ chip[cs].wel => chip'[cs].four
    BY <1>1, <1>5, <2>1, <2>2, ObeyIs DEF DriverInv
  <2>4. \A k \in Chips : ~chip[k].busy
    BY <1>1 DEF FourBytes
  <2> QED
    BY <2>3, <2>4
<1>7. /\ step = "enter4" => chip[cs].wel \/ chip[cs].four
      /\ step \in {"statusFour", "disable", "select"} => chip[cs].four
      /\ \A c \in Chips : ~chip[c].busy
  BY <1>1 DEF FourBytes
<1>8. CASE pc' = "down"
  <2>1. FourBytes'
    BY <1>8 DEF FourBytes, SetupPcs
  <2>2. pc' \in Resting
    BY <1>8 DEF Resting
  <2> QED
    BY <1>1, <1>2, <1>3, <1>4, <1>8, <2>1, <2>2, SettingUp DEF SetupPcs
<1>9. CASE pc' = next /\ Obey(cs, Plain(do))
  <2>1. 0 \in Chips
    BY DEF Chips
  <2>2. cs = 1 => chip'[0].four
    BY <1>5, <1>6, <1>9, <2>1
  <2>3. next = "enter4" => chip'[cs].wel
    BY <1>6, <1>9
  <2>4. next \in {"statusFour", "disable", "select"} => chip'[cs].four
    BY <1>1, <1>6, <1>7, <1>9
  <2>5. FourBytes'
    BY <1>1, <1>6, <1>9, <2>2, <2>3, <2>4 DEF FourBytes
  <2>6. pc' \in Resting
    BY <1>9 DEF Resting
  <2> QED
    BY <1>1, <1>2, <1>3, <1>9, <2>5, <2>6, SettingUp
<1>10. CASE pc' = step /\ Obey(cs, Plain(do))
  <2>1. 0 \in Chips
    BY DEF Chips
  <2>2. cs = 1 => chip'[0].four
    BY <1>5, <1>6, <1>10, <2>1
  <2>3. step = "enter4" => chip'[cs].four
    BY <1>1, <1>6, <1>7, <1>10
  <2>4. step \in {"statusFour", "disable", "select"} => chip'[cs].four
    BY <1>1, <1>6, <1>7, <1>10
  <2>5. FourBytes'
    BY <1>1, <1>6, <1>10, <2>2, <2>3, <2>4 DEF FourBytes
  <2>6. pc' \in Resting
    BY <1>10 DEF Resting
  <2> QED
    BY <1>1, <1>2, <1>3, <1>10, <2>5, <2>6, SettingUp
<1>11. CASE pc' = step /\ UNCHANGED chipVars
  <2>1. FourBytes'
    BY <1>1, <1>11 DEF FourBytes, chipVars
  <2>2. pc' \in Resting
    BY <1>11 DEF Resting
  <2> QED
    BY <1>1, <1>2, <1>3, <1>11, <2>1, <2>2, SettingUp
<1> QED
  BY <1>4, <1>8, <1>9, <1>10, <1>11

LEMMA SetupStep ==
  ASSUME DriverInv, StaysInReach,
         FlashReadID \/ FlashSetSDRDDRMode \/ FlashEnter4BAddMode \/ SetUpDone
  PROVE  DriverInv' /\ StaysInReach'
<1>1. CASE Setup("id", Plain("id"), "wrenConfig")
  BY <1>1, SetupSends DEF SetupPcs, Destructive
<1>2. CASE Setup("wrenConfig", Plain("wren"), "config")
  BY <1>2, SetupSends DEF SetupPcs, Destructive
<1>3. CASE Setup("config", Plain("config"), "readConfig")
  BY <1>3, SetupSends DEF SetupPcs, Destructive
<1>4. CASE Setup("readConfig", Plain("read"), "wrenFour")
  BY <1>4, SetupSends DEF SetupPcs, Destructive
<1>5. CASE Setup("wrenFour", Plain("wren"), "enter4")
  BY <1>5, SetupSends DEF SetupPcs, Destructive
<1>6. CASE Setup("enter4", Plain("enter4"), "statusFour")
  BY <1>6, SetupSends DEF SetupPcs, Destructive
<1>7. CASE Setup("disable", Plain("wrdi"), "select")
  BY <1>7, SetupSends DEF SetupPcs, Destructive
<1>8. CASE Status("statusFour", TRUE, \E next \in {"disable", "select"} : Onward(next, pos), Down)
  <2>1. pc = "statusFour" /\ pc \in SetupPcs
    BY <1>8 DEF Status, SetupPcs
  <2>2. CASE Setup("statusFour", Plain("status"), "disable")
    BY <2>2, SetupSends DEF SetupPcs, Destructive
  <2>3. CASE /\ tries' = 0 /\ UNCHANGED <<chipVars, cs, callVars, buf, count>>
             /\ \E next \in {"disable", "select"} : Onward(next, pos)
    <3>0. pc' \in {"disable", "select"} /\ UNCHANGED <<todo, pos, take, result>>
      BY <2>3 DEF Onward
    <3>1. FourBytes'
      BY <2>1, <2>3, <3>0 DEF DriverInv, FourBytes, chipVars, SetupPcs
    <3>2. /\ cs' \in Chips /\ tries' \in 0..Retries /\ result' \in {"none", "ok", "failed"}
          /\ UNCHANGED <<callVars, todo, pos, take>> /\ pc' \in Resting
      BY <2>3, <3>0, OspiAssumption DEF DriverInv, TypeOK, Resting, SetupPcs
    <3> QED
      BY <2>1, <2>3, <3>1, <3>2, SettingUp DEF Destructive
  <2>4. Fails(cs, Plain("status"), TRUE, Down) \/ ~chip[cs].busy
    BY <2>1 DEF DriverInv, TypeOK, FourBytes
  <2> QED
    BY <1>8, <2>1, <2>2, <2>3, <2>4 DEF Status, Setup, Send
<1>9. CASE SetUpDone
  <2>1. /\ pc = "select" /\ pc \in SetupPcs /\ UNCHANGED <<chipVars, callVars, todo, pos, take, tries, result>>
        /\ cs \in Chips /\ chip[cs].four /\ (cs = 1 => chip[0].four) /\ \A c \in Chips : ~chip[c].busy
    BY <1>9 DEF SetUpDone, DriverInv, TypeOK, FourBytes, SetupPcs
  <2>2. CASE Stacked /\ cs = 0
    <3>1. cs' = 1 /\ pc' = "wrenConfig" /\ cs' \in Chips
      BY <1>9, <2>2 DEF SetUpDone, Chips
    <3>2. FourBytes'
      BY <2>1, <2>2, <3>1 DEF FourBytes, chipVars, SetupPcs
    <3>3. tries' \in 0..Retries /\ result' \in {"none", "ok", "failed"} /\ pc' \in Resting
      BY <2>1, <3>1 DEF DriverInv, TypeOK, Resting, SetupPcs
    <3> QED
      BY <2>1, <3>1, <3>2, <3>3, SettingUp DEF Destructive
  <2>3. CASE ~(Stacked /\ cs = 0)
    <3>1. cs' = cs /\ pc' = "idle"
      BY <1>9, <2>3 DEF SetUpDone
    <3>2. \A c \in Chips : chip[c].four
      BY <2>1, <2>3, OspiAssumption DEF Chips
    <3>3. FourBytes'
      BY <2>1, <3>1, <3>2 DEF FourBytes, chipVars, SetupPcs
    <3>4. tries' \in 0..Retries /\ result' \in {"none", "ok", "failed"} /\ pc' \in Resting
      BY <2>1, <3>1 DEF DriverInv, TypeOK, Resting, SetupPcs
    <3> QED
      BY <2>1, <3>1, <3>3, <3>4, SettingUp DEF Destructive
  <2> QED
    BY <2>2, <2>3
<1> QED
  BY <1>1, <1>2, <1>3, <1>4, <1>5, <1>6, <1>7, <1>8, <1>9 DEF FlashReadID, FlashSetSDRDDRMode, FlashEnter4BAddMode

-----------------------------------------------------------------------------
(* A new call finds the chips set up, and a plan that stays in its reach.  *)
LEMMA CallStep ==
  ASSUME SafeAligned, DriverInv, NEW c \in Calls, Call(c)
  PROVE  DriverInv' /\ StaysInReach'
<1>1. /\ pc = "idle" /\ call' = c /\ before' = mem
      /\ UNCHANGED <<chipVars, cs, tries>> /\ mem' = mem /\ chip' = chip
  BY DEF Call, chipVars
<1>2. StaysInReach'
  BY <1>1 DEF StaysInReach
<1>3. Control' /\ Working'
  <2>1. CASE End("failed")
    <3>1. pc' = "idle" /\ todo' = <<>> /\ pos' = 0 /\ take' = 0 /\ result' = "failed"
      BY <2>1 DEF End
    <3> QED
      BY <1>1, <3>1 DEF Control, PlanInv, PlaceInv, Working, Resting, SetupPcs, ErasePcs, DiePcs, WritePcs
  <2>2. CASE ~(c.kind = "safe" /\ (c.addr \div PageCells) % 2 = 1) /\ ~End("failed")
    <3> DEFINE plan == Plan(c)
    <3>1. todo' = plan /\ Begin(plan[1]) /\ result' = "none"
      BY <2>2 DEF Call
    <3>2. plan \in Seq(Parts) /\ plan # <<>> /\ \A i \in 1..Len(plan) : Fits(c, plan[i])
      BY <2>2, PlanFits
    <3> HIDE DEF plan
    <3>3. plan[1] \in Parts /\ Head(plan) = plan[1]
      BY <3>2
    <3>4. PlaceInv' /\ pos' = 0 /\ take' \in Nat /\ Working'
      BY <3>1, <3>2, <3>3, Began
    <3>5. PlanInv'
      BY <1>1, <3>1, <3>2 DEF PlanInv
    <3> QED
      BY <3>1, <3>4, <3>5 DEF Control
  <2>3. c.kind = "safe" /\ (c.addr \div PageCells) % 2 = 1 => End("failed")
    BY DEF Call
  <2> QED
    BY <2>1, <2>2, <2>3
<1>4. FourBytes'
  BY <1>1, <1>3 DEF DriverInv, FourBytes, Working, SetupPcs
<1>5. TypeOK'
  <2>1. pc' \in {"idle", "down", "trap"} => todo' = <<>>
    BY <1>3 DEF Control, PlaceInv, Resting
  <2> QED
    BY <1>1, <1>3, <2>1 DEF DriverInv, TypeOK, Control
<1> QED
  BY <1>1, <1>2, <1>3, <1>4, <1>5 DEF DriverInv, Control, Shapes

LEMMA ChipDoneStep ==
  ASSUME DriverInv, StaysInReach, NEW c \in Chips, ChipDone(c)
  PROVE  DriverInv' /\ StaysInReach'
<1> DEFINE new == [chip[c] EXCEPT !.busy = FALSE]
<1>1. UNCHANGED <<mem, cs, pc, call, before, todo, pos, take, tries, result>>
  BY DEF ChipDone, callVars
<1>2. chip[c].busy /\ chip' = [chip EXCEPT ![c] = new]
  BY DEF ChipDone
<1>3. chip \in [Chips -> [wel : BOOLEAN, busy : BOOLEAN, four : BOOLEAN]]
  BY DEF DriverInv, TypeOK
<1>4. new \in [wel : BOOLEAN, busy : BOOLEAN, four : BOOLEAN] /\ new.four = chip[c].four
  BY <1>3
<1> HIDE DEF new
<1>5. /\ chip' \in [Chips -> [wel : BOOLEAN, busy : BOOLEAN, four : BOOLEAN]]
      /\ \A k \in Chips : chip'[k].four = chip[k].four
  BY <1>2, <1>3, <1>4
<1>6. pc \notin SetupPcs
  BY <1>2 DEF DriverInv, FourBytes
<1>7. FourBytes'
  BY <1>1, <1>5, <1>6 DEF DriverInv, FourBytes, SetupPcs
<1>8. TypeOK'
  BY <1>1, <1>5 DEF DriverInv, TypeOK
<1>9. PlanInv' /\ PlaceInv' /\ Shapes'
  BY <1>1 DEF DriverInv, PlanInv, PlaceInv, Shapes, Part, SectorAddr
<1>10. StaysInReach'
  BY <1>1 DEF StaysInReach
<1> QED
  BY <1>1, <1>7, <1>8, <1>9, <1>10 DEF DriverInv

LEMMA InitStep ==
  ASSUME Init
  PROVE  DriverInv /\ StaysInReach
<1>1. 0 \in Chips /\ Chips \subseteq {0, 1}
  BY DEF Chips
<1>2. /\ pc = "id" /\ cs = 0 /\ todo = <<>> /\ pos = 0 /\ take = 0 /\ tries = 0 /\ result = "none"
      /\ call = NoCall /\ before = mem /\ DOMAIN mem = Chips
      /\ chip = [c \in Chips |-> [wel |-> FALSE, busy |-> FALSE, four |-> FALSE]]
  BY DEF Init
<1>3. /\ chip \in [Chips -> [wel : BOOLEAN, busy : BOOLEAN, four : BOOLEAN]]
      /\ \A c \in Chips : ~chip[c].busy
  BY <1>2
<1>4. TypeOK
  BY <1>1, <1>2, <1>3, OspiAssumption DEF TypeOK
<1>5. FourBytes
  BY <1>2, <1>3 DEF FourBytes, SetupPcs
<1>6. PlanInv
  BY <1>2 DEF PlanInv
<1>7. PlaceInv
  BY <1>2 DEF PlaceInv, Resting, SetupPcs, ErasePcs, DiePcs, WritePcs
<1>8. StaysInReach
  BY <1>2 DEF StaysInReach
<1> QED
  BY <1>2, <1>4, <1>5, <1>6, <1>7, <1>8 DEF DriverInv, Shapes

LEMMA NextStep ==
  ASSUME SafeAligned, DriverInv, StaysInReach, [Next]_vars
  PROVE  DriverInv' /\ StaysInReach'
<1>1. CASE FlashReadID \/ FlashSetSDRDDRMode \/ FlashEnter4BAddMode \/ SetUpDone
  BY <1>1, SetupStep
<1>2. CASE EraseSector
  BY <1>2, EraseSectorStep, CommandedIs
<1>3. CASE EraseDie
  BY <1>3, EraseDieStep, CommandedIs
<1>4. CASE FlashIoWrite
  BY <1>4, FlashIoWriteStep, CommandedIs
<1>5. CASE Verify
  BY <1>5, VerifyStep, CommandedIs
<1>6. CASE FlashRead
  BY <1>6, FlashReadStep, CommandedIs
<1>7. CASE \E c \in Calls : Call(c)
  BY <1>7, CallStep
<1>8. CASE \E c \in Chips : ChipDone(c)
  BY <1>8, ChipDoneStep
<1>9. CASE UNCHANGED vars
  <2>1. UNCHANGED <<mem, chip, cs, pc, call, todo, pos, take, tries, result, before>>
    BY <1>9 DEF vars
  <2> QED
    BY <2>1 DEF DriverInv, StaysInReach, TypeOK, FourBytes, PlanInv, PlaceInv, Shapes, Part, SectorAddr
<1> QED
  BY <1>1, <1>2, <1>3, <1>4, <1>5, <1>6, <1>7, <1>8, <1>9 DEF Next, DriverStep

LEMMA Invariance ==
  ASSUME SafeAligned
  PROVE  Spec => [](DriverInv /\ StaysInReach)
<1>1. Init => DriverInv /\ StaysInReach
  BY InitStep
<1>2. DriverInv /\ StaysInReach /\ [Next]_vars => (DriverInv /\ StaysInReach)'
  BY NextStep
<1> QED
  BY <1>1, <1>2, PTL DEF Spec

-----------------------------------------------------------------------------
(* What a command does to the cells it is about                            *)

(* Inside the flash, the chip follows from the address.                    *)
LEMMA OnChip ==
  ASSUME NEW x \in 0..Total-1
  PROVE  /\ x \in Nat /\ x % Total = x /\ ChipOf(x) \in Chips
         /\ ChipOf(x) = (IF Stacked /\ x >= ChipCells THEN 1 ELSE 0)
         /\ x = ChipCells * ChipOf(x) + (x % ChipCells) /\ x % ChipCells \in 0..ChipCells-1
<1> DEFINE b == ChipOf(x)
           r == x % ChipCells
<1>1. x \in Nat /\ x % Total = x
  BY Inside
<1>2. b \in Chips /\ r \in 0..ChipCells-1 /\ x = ChipCells * b + r
  BY <1>1, Located
<1> HIDE DEF b, r
<1>3. CASE Stacked
  <2>1. b \in {0, 1}
    BY <1>2, <1>3 DEF Chips
  <2>2. ChipCells * 0 = 0 /\ ChipCells * 1 = ChipCells
    BY Sizes
  <2>3. b = IF x >= ChipCells THEN 1 ELSE 0
    BY <1>2, <2>1, <2>2, Sizes
  <2> QED
    BY <1>1, <1>2, <1>3, <2>3 DEF b, r
<1>4. CASE ~Stacked
  <2>1. b = 0
    BY <1>2, <1>4 DEF Chips
  <2> QED
    BY <1>1, <1>2, <1>4, <2>1 DEF b, r
<1> QED
  BY <1>3, <1>4, OspiAssumption

(* A chip that is ready and write enabled obeys.                           *)
LEMMA ObeyDoes ==
  ASSUME NEW c \in Chips, NEW cmd, Obey(c, cmd), Shapes, ~chip[c].busy, chip[c].wel,
         NEW a \in 0..Total-1, ChipOf(a) = c, a % ChipCells \in Cells(c, cmd)
  PROVE  At(mem', a) = IF cmd.do = "program" THEN Program(At(mem, a), cmd.data) ELSE Blank
<1>1. a % ChipCells \in 0..ChipCells-1
  BY OnChip
<1> DEFINE new == [b \in 0..ChipCells-1 |->
                     IF b \in Cells(c, cmd)
                     THEN IF cmd.do = "program" THEN Program(mem[c][b], cmd.data) ELSE Blank
                     ELSE mem[c][b]]
<1>2. mem' = [mem EXCEPT ![c] = new]
  BY DEF Obey
<1>3. new[a % ChipCells] = IF cmd.do = "program" THEN Program(mem[c][a % ChipCells], cmd.data) ELSE Blank
  BY <1>1
<1> HIDE DEF new
<1>4. mem'[c] = new
  BY <1>2 DEF Shapes
<1> QED
  BY <1>3, <1>4 DEF At

(* What is erased stays erased unless it is programmed.                    *)
LEMMA BlankStays ==
  ASSUME NEW c \in Chips, NEW cmd, Obey(c, cmd), Shapes, cmd.do # "program",
         NEW a \in 0..Total-1, At(mem, a) = Blank
  PROVE  At(mem', a) = Blank
<1>1. a \in Nat /\ ChipOf(a) \in Chips /\ a % ChipCells \in 0..ChipCells-1
  BY OnChip
<1>2. CASE ChipOf(a) # c \/ a % ChipCells \notin Cells(c, cmd)
  BY <1>1, <1>2, ObeyCells
<1>3. CASE ChipOf(a) = c /\ a % ChipCells \in Cells(c, cmd) /\ ~chip[c].busy /\ chip[c].wel
  BY <1>3, ObeyDoes
<1>4. CASE chip[c].busy \/ ~chip[c].wel
  <2>1. mem' = mem
    BY <1>4 DEF Obey, chipVars
  <2> QED
    BY <2>1
<1> QED
  BY <1>2, <1>3, <1>4

(* The cells of a sector of the flash are the cells of a sector of a chip. *)
LEMMA SectorOnChip ==
  ASSUME NEW x \in Nat, NEW a \in 0..Total-1, a \div SectorCells = (x % Total) \div SectorCells
  PROVE  ChipOf(a) = ChipOf(x) /\ (a % ChipCells) \div SectorCells = (x % ChipCells) \div SectorCells
<1> DEFINE b == ChipOf(x)
           d == ChipOf(a)
           u == a % ChipCells
           v == x % ChipCells
           S == SectorCells
<1>1. PICK k \in Nat \ {0} : ChipCells = S * k
  BY WholeSectors
<1>2. /\ a = ChipCells * d + u /\ x % Total = ChipCells * b + v
      /\ u \in 0..ChipCells-1 /\ v \in 0..ChipCells-1 /\ b \in {0, 1} /\ d \in {0, 1}
  BY OnChip, Located DEF Chips
<1>3. S \in Nat \ {0} /\ ChipCells \in Nat \ {0}
  BY Sizes
<1> DEFINE p == u \div S
           q == v \div S
<1>4. p \in 0..k-1 /\ q \in 0..k-1
  <2>1. \A w \in 0..ChipCells-1 : w \div S \in 0..k-1
    <3> TAKE w \in 0..ChipCells-1
    <3> DEFINE z == w \div S
               r == w % S
    <3>1. w \in Int /\ w >= 0 /\ S \in Nat \ {0}
      BY <1>3
    <3>2. z \in Int /\ z >= 0 /\ r \in 0..S-1 /\ w = S * z + r
      <4> HIDE DEF S
      <4> QED
        BY <3>1, Divide
    <3>3. ~(z >= k)
      <4> SUFFICES ASSUME z >= k PROVE FALSE
        OBVIOUS
      <4> HIDE DEF z, r, S
      <4>1. \A i, j \in Nat : i >= j => S * i >= S * j
        BY <1>3
      <4>2. S * z >= S * k /\ S * z \in Int /\ S * k \in Int
        BY <1>3, <3>2, <4>1
      <4> QED
        BY <1>1, <3>2, <4>2
    <3> HIDE DEF z
    <3>4. z \in 0..k-1
      BY <3>2, <3>3
    <3> QED
      BY <3>4 DEF z
  <2> HIDE DEF S, u, v
  <2> QED
    BY <1>2, <2>1
<1>5. a \div S = k * d + p /\ (x % Total) \div S = k * b + q
  <2> HIDE DEF b, d, u, v, S, p, q
  <2>1. \A e \in {0, 1} : \A w \in Int : (ChipCells * e + w) \div S = k * e + (w \div S)
    <3> TAKE e \in {0, 1}
    <3> TAKE w \in Int
    <3>1. ChipCells * e = S * (k * e) /\ k * e \in Int
      BY <1>1, <1>3
    <3>2. (S * (k * e) + w) \div S = k * e + (w \div S)
      BY <1>3, <3>1, Shift
    <3> QED
      BY <3>1, <3>2
  <2> QED
    BY <1>2, <2>1 DEF p, q
<1>6. k * d + p = k * b + q
  BY <1>5
<1> HIDE DEF b, d, u, v, S, p, q
<1>7. k * 0 = 0 /\ k * 1 = k
  OBVIOUS
<1>8. d = b /\ p = q
  BY <1>2, <1>4, <1>6, <1>7
<1> QED
  BY <1>8 DEF b, d, p, q, u, v, S
-----------------------------------------------------------------------------
(* What a call has done so far                                             *)

(* The calls of the program stay in the flash: what is read, the pages     *)
(* that are written, both sides of a copy with the page ospi_flash_copy    *)
(* does besides, which do not meet, and what is written safely, which is   *)
(* not all of it.  rmgmt_fpt.c and rmgmt_xfer.c address partitions that do *)
(* not overlap, and the copy of an image to its backup is checked to fit.  *)
CopyCells(c) == (c.len \div PageCells + 1) * PageCells
CallsFit ==
  \A c \in Calls :
    /\ c.kind = "read"  => c.addr + c.len <= Total
    /\ c.kind = "write" => c.addr + PageCount(c) * PageCells <= Total
    /\ c.kind = "copy"  => /\ c.addr + CopyCells(c) <= Total /\ c.tgt + CopyCells(c) <= Total
                           /\ (c.addr + CopyCells(c) <= c.tgt \/ c.tgt + CopyCells(c) <= c.addr)
    /\ c.kind = "safe"  => c.addr + c.len <= Total /\ c.len # Total

(* Which part of its plan a call is at.                                    *)
PartNo == Len(Plan(call)) - Len(todo) + 1
Planned ==
  /\ pc \in SetupPcs => call = NoCall
  /\ todo # <<>> =>
       /\ call \in Calls /\ Plan(call) \in Seq(Parts) /\ Len(todo) <= Len(Plan(call))
       /\ call.kind = "safe" => call.addr % SectorCells = 0
       /\ \A i \in 1..Len(todo) : todo[i] = Plan(call)[PartNo + i - 1]

(* A chip is only sent a command that matters while it is not busy, and is *)
(* write enabled for a program.                                            *)
AtRest(cc) == \A c \in Chips : ~cc[c].busy
OthersRest == \A c \in Chips \ {cs} : ~chip[c].busy
Careful == count.fault = 0
Quietly ==
  /\ pc \in {"wrenErase", "wrenWrite", "program", "verify", "read"} => AtRest(chip)
  /\ pc \in {"erase", "statusErase", "statusWrite"} => OthersRest
  /\ pc = "program" => chip[cs].wel
  /\ Careful => /\ pc = "wrenDie" => AtRest(chip)
                /\ pc \in {"die", "statusDie"} => OthersRest /\ cs = pos \div NumDie
                /\ pc = "die" => chip[cs].wel /\ ~chip[cs].busy

(* FlashRead: the end of the first chip cuts a read once.                  *)
ReadSoFar ==
  pc = "read" =>
    /\ pos = 0 => take = FirstTake(Part)
    /\ pos # 0 => /\ Stacked /\ Part.addr + pos = ChipCells
                  /\ buf = [i \in 1..pos |-> At(mem, Part.addr + i - 1)]

(* FlashErase: the sectors, or the dies, before the present one are blank, *)
(* and the present one is if the chip will not see its erase any more.     *)
SectorBlank(k) ==
  \A a \in 0..Total-1 :
    a \div SectorCells = ((Part.addr + k * SectorCells) % Total) \div SectorCells => At(mem, a) = Blank
SectorsErased ==
  pc \in ErasePcs =>
    /\ \A k \in 0..pos-1 : SectorBlank(k)
    /\ pc = "statusErase" => SectorBlank(pos)
    /\ pc = "erase" => SectorBlank(pos) \/ (chip[cs].wel /\ ~chip[cs].busy)
DieOf(a) == ChipOf(a) * NumDie + (a % ChipCells) \div (ChipCells \div NumDie)
DiesErased ==
  pc \in DiePcs /\ Careful =>
    \A a \in 0..Total-1 : DieOf(a) < pos \/ (DieOf(a) = pos /\ pc = "statusDie") => At(mem, a) = Blank

(* The cells of the present part that have been programmed.                *)
Written ==
  CASE pc \in {"wrenWrite", "program"} -> pos
    [] pc = "statusWrite"              -> pos + 1
    [] pc = "verify"                   -> PageCount(Part) * PageCells
    [] OTHER                           -> 0

(* A write onto blank cells has written the first w of them.               *)
WriteSoFar(w) ==
  todo # <<>> /\ call.kind = "write" /\ WasBlank(call.addr, call.len) /\ count.lost = 0 =>
    \A i \in 0..call.len-1 : At(mem, call.addr + i) = IF i < w THEN Host(i) ELSE Blank

(* A copy has copied the pages before the present one, and w cells of it,  *)
(* which is what was read last.                                            *)
Page == (PartNo - 1) \div 2
CopySoFar(w) ==
  todo # <<>> /\ call.kind = "copy" =>
    /\ Part.do = "write" =>
         buf = [i \in 1..PageCells |-> At(before, call.addr + Page * PageCells + i - 1)]
    /\ WasBlank(call.tgt, call.len) /\ count.lost = 0 =>
         \A i \in 0..call.len-1 :
           At(mem, call.tgt + i) = IF i < Page * PageCells + w THEN At(before, call.addr + i) ELSE Blank

(* A safe write has kept what is in its last sector besides, and of its    *)
(* blank sectors it has written w cells, and in the end put back the rest. *)
LastSector == call.addr + call.len - (call.len % SectorCells)
Reached(w) ==
  IF Part.from = "host" THEN call.addr + w
  ELSE IF LastSector + w < call.addr + call.len THEN call.addr + call.len ELSE LastSector + w
Final(x) == IF x - call.addr \in 0..call.len-1 THEN Host(x - call.addr) ELSE At(before, x)
SafeSoFar(w) ==
  todo # <<>> /\ call.kind = "safe" /\ call.addr % SectorCells = 0 =>
    /\ Part.do = "read" => \A a \in 0..Total-1 : At(mem, a) = At(before, a)
    /\ Part.do # "read" /\ call.len % SectorCells # 0 =>
         buf = [i \in 1..SectorCells |-> At(before, LastSector + i - 1)]
    /\ Part.do = "write" /\ call.len % PageCells = 0 /\ count.lost = 0 =>
         \A x \in SectorsOf(call.addr, call.len) : At(mem, x) = IF x < Reached(w) THEN Final(x) ELSE Blank

Contents(w) == WriteSoFar(w) /\ CopySoFar(w) /\ SafeSoFar(w)

(* The read back of the first page has found something there.              *)
FirstSeen ==
  pc = "verify" /\ pos # 0 /\ call.kind = "write" /\ WasBlank(call.addr, call.len) => At(mem, call.addr) # Blank

Counts == [call : Nat, fault : Nat, lost : Nat]
Progress ==
  /\ count \in Counts
  /\ Planned /\ Quietly /\ ReadSoFar /\ SectorsErased /\ DiesErased
  /\ Contents(Written) /\ FirstSeen /\ OkMeansDone

(* The sectors that FlashErase counts are all those of the range.          *)
LEMMA SectorsCover ==
  ASSUME NEW s \in Parts, NEW a \in SectorsOf(s.addr, s.len)
  PROVE  \E k \in 0..NumSect(s)-1 : a \div SectorCells = ((s.addr + k * SectorCells) % Total) \div SectorCells
<1> DEFINE S    == SectorCells
           addr == s.addr
           len  == s.len
           A    == addr \div S
           ra   == addr % S
           q    == len \div S
           rl   == len % S
           n    == q + 1
           same == (addr + len) \div S = (addr + n * S) \div S
<1>1. S \in Nat \ {0} /\ addr \in Nat /\ len \in Nat \ {0}
  BY Sizes DEF Parts
<1>2. A \in Nat /\ ra \in 0..S-1 /\ addr = S * A + ra
  <2>1. addr \in Int /\ addr >= 0 /\ S \in Nat \ {0}
    BY <1>1
  <2> HIDE DEF S, addr
  <2>2. A \in Int /\ A >= 0 /\ ra \in 0..S-1 /\ addr = S * A + ra
    BY <2>1, Divide
  <2> HIDE DEF A
  <2> QED
    BY <2>2
<1>3. q \in Nat /\ rl \in 0..S-1 /\ len = S * q + rl
  <2>1. len \in Int /\ len >= 0 /\ S \in Nat \ {0}
    BY <1>1
  <2> HIDE DEF S, len
  <2>2. q \in Int /\ q >= 0 /\ rl \in 0..S-1 /\ len = S * q + rl
    BY <2>1, Divide
  <2> HIDE DEF q
  <2> QED
    BY <2>2
<1>4. NumSect(s) = IF same THEN n + 1 ELSE n
  BY DEF NumSect
<1>5. PICK y \in addr .. addr + len - 1 : a \div S = (y % Total) \div S
  BY DEF SectorsOf, Span
<1> DEFINE Y == y \div S
           ry == y % S
<1>6. y \in Nat /\ Y \in Nat /\ ry \in 0..S-1 /\ y = S * Y + ry
  <2>1. y \in Nat /\ y \in Int /\ y >= 0 /\ S \in Nat \ {0}
    BY <1>1, <1>5
  <2> HIDE DEF S
  <2>2. Y \in Int /\ Y >= 0 /\ ry \in 0..S-1 /\ y = S * Y + ry
    BY <2>1, Divide
  <2> HIDE DEF Y
  <2> QED
    BY <2>1, <2>2
<1> HIDE DEF S, addr, len, A, ra, q, rl, Y, ry, n, same
<1>7. \A i, j \in Int : S * (i + j) = S * i + S * j
  BY <1>1
<1>8. \A i, j \in Int : S * i < S * j + S => i <= j
  <2> TAKE i, j \in Int
  <2> HAVE S * i < S * j + S
  <2> SUFFICES ASSUME i >= j + 1 PROVE FALSE
    OBVIOUS
  <2>1. \A u, v \in Int : u >= v => S * u >= S * v
    BY <1>1
  <2>2. S * i >= S * (j + 1) /\ S * (j + 1) = S * j + S /\ S * i \in Int /\ S * j \in Int
    BY <1>1, <2>1
  <2> QED
    BY <1>1, <2>2
<1>9. Y >= A
  <2>1. S * A < S * Y + S /\ S * A \in Int /\ S * Y \in Int
    BY <1>1, <1>2, <1>5, <1>6
  <2> QED
    BY <1>2, <1>6, <1>8, <2>1
<1>10. Y <= A + q + 1
  <2>1. S * (A + q + 1) = S * A + S * q + S /\ S * A \in Int /\ S * q \in Int /\ S * Y \in Int
    BY <1>1, <1>2, <1>3, <1>6
  <2>2. S * Y < S * (A + q + 1) + S
    BY <1>1, <1>2, <1>3, <1>5, <1>6, <2>1
  <2> QED
    BY <1>2, <1>3, <1>6, <1>8, <2>2
<1>11. Y = A + q + 1 => same
  <2> SUFFICES ASSUME Y = A + q + 1 PROVE same
    OBVIOUS
  <2>1. S * (A + q + 1) = S * A + S * q + S /\ S * A \in Int /\ S * q \in Int
    BY <1>1, <1>2, <1>3
  <2>2. ra + rl >= S
    BY <1>1, <1>2, <1>3, <1>5, <1>6, <2>1
  <2>3. addr + len = S * (A + q + 1) + (ra + rl - S) /\ ra + rl - S \in 0..S-1
    BY <1>1, <1>2, <1>3, <2>1, <2>2
  <2>4. addr + n * S = S * (A + q + 1) + ra
    <3>1. n * S = S * q + S
      BY <1>1, <1>3 DEF n
    <3> QED
      BY <1>1, <1>2, <2>1, <3>1
  <2>5. A + q + 1 \in Int
    BY <1>2, <1>3
  <2> DEFINE g == A + q + 1
             h == ra + rl - S
  <2>6. g \in Int /\ h \in 0..S-1 /\ ra \in 0..S-1 /\ addr + len = S * g + h /\ addr + n * S = S * g + ra
    BY <1>2, <2>3, <2>4, <2>5
  <2> HIDE DEF g, h
  <2>7. (S * g + h) \div S = g /\ (S * g + ra) \div S = g
    BY <1>1, <2>6, Quotient
  <2> QED
    BY <2>6, <2>7 DEF same
<1> DEFINE k == Y - A
<1>12. k \in 0..NumSect(s)-1
  BY <1>2, <1>3, <1>4, <1>6, <1>9, <1>10, <1>11 DEF n
<1>13. (addr + k * S) \div S = Y
  <2>1. k * S = S * k /\ S * (A + k) = S * A + S * k /\ k \in Int /\ A + k = Y
    BY <1>1, <1>2, <1>6
  <2>2. addr + k * S = S * Y + ra /\ Y \in Int
    BY <1>1, <1>2, <1>6, <2>1
  <2>3. (S * Y + ra) \div S = Y
    BY <1>1, <1>2, <2>2, Quotient
  <2> QED
    BY <2>2, <2>3
<1>14. addr + k * S \in Nat
  <2>1. k \in Nat /\ k * S \in Nat
    BY <1>1, <1>2, <1>6, <1>9
  <2> QED
    BY <1>1, <2>1
<1> HIDE DEF k
<1>15. ((addr + k * S) % Total) \div S = (y % Total) \div S
  BY <1>6, <1>13, <1>14, SameSector DEF S, Y
<1> QED
  BY <1>5, <1>12, <1>15 DEF S, addr

(* Every cell belongs to one die, and a command for die p touches it.      *)
LEMMA DieNumber ==
  ASSUME NEW a \in 0..Total-1
  PROVE  /\ DieOf(a) \in Nat /\ DieOf(a) \div NumDie = ChipOf(a)
         /\ DieOf(a) % NumDie = (a % ChipCells) \div (ChipCells \div NumDie)
         /\ (DieOf(a) % NumDie) % ChipCells = DieOf(a) % NumDie
<1> DEFINE b == ChipOf(a)
           r == a % ChipCells
           q == ChipCells \div NumDie
           d == r \div q
<1>1. b \in Nat /\ r \in 0..ChipCells-1 /\ NumDie \in Nat \ {0} /\ ChipCells \in Nat \ {0}
  BY OnChip, Sizes DEF Chips
<1>2. q \in Nat \ {0} /\ ChipCells = NumDie * q
  <2>1. ChipCells \in Int /\ ChipCells >= 0 /\ NumDie \in Nat \ {0} /\ ChipCells % NumDie = 0
    BY <1>1, OspiAssumption
  <2>2. q \in Int /\ q >= 0 /\ ChipCells = NumDie * q + (ChipCells % NumDie)
    BY <2>1, Divide
  <2> HIDE DEF q
  <2>3. ChipCells = NumDie * q
    BY <2>1, <2>2
  <2>4. q # 0
    BY <1>1, <2>3
  <2> QED
    BY <2>2, <2>3, <2>4
<1>3. d \in Int /\ d >= 0 /\ r % q \in 0..q-1 /\ r = q * d + (r % q)
  <2>1. r \in Int /\ r >= 0
    BY <1>1
  <2> HIDE DEF r, q
  <2> QED
    BY <1>2, <2>1, Divide
<1> DEFINE s == r % q
<1>4. d < NumDie
  <2> SUFFICES ASSUME d >= NumDie PROVE FALSE
    BY <1>1, <1>3
  <2>1. s \in 0..q-1 /\ r = q * d + s
    BY <1>3
  <2> HIDE DEF r, q, d, s
  <2>2. \A i, j \in Int : i >= j => q * i >= q * j
    BY <1>2
  <2>3. q * d >= q * NumDie /\ q * NumDie = NumDie * q /\ q * d \in Int /\ q * NumDie \in Int
    BY <1>1, <1>2, <1>3, <2>2
  <2> QED
    BY <1>1, <1>2, <2>1, <2>3
<1>5. DieOf(a) = NumDie * b + d
  <2>1. DieOf(a) = b * NumDie + d
    BY DEF DieOf
  <2> HIDE DEF b, d
  <2> QED
    BY <1>1, <2>1
<1> HIDE DEF b, r, q, d, s
<1>6. (NumDie * b + d) \div NumDie = b /\ (NumDie * b + d) % NumDie = d
  <2>1. b \in Int /\ d \in 0..NumDie-1
    BY <1>1, <1>3, <1>4
  <2> QED
    BY <1>1, <2>1, Quotient
<1>7. NumDie * b + d \in Nat
  BY <1>1, <1>3
<1>8. d % ChipCells = d
  <2>1. NumDie <= ChipCells
    <3>1. \A i, j \in Nat \ {0} : i <= i * j
      OBVIOUS
    <3> QED
      BY <1>1, <1>2, <3>1
  <2>2. d \in 0..ChipCells-1 /\ 0 \in Int /\ ChipCells * 0 + d = d
    BY <1>1, <1>3, <1>4, <2>1
  <2>3. (ChipCells * 0 + d) % ChipCells = d
    BY <1>1, <2>2, Quotient
  <2> QED
    BY <2>2, <2>3
<1> QED
  BY <1>5, <1>6, <1>7, <1>8 DEF b, r, q, d

(* What is read of a chip that is ready, without going past its end, are   *)
(* the cells of the flash from the address on.                             *)
LEMMA ReadsFlash ==
  ASSUME NEW a \in Nat, NEW n \in Nat, a + n <= Total,
         ~Stacked \/ a + n <= ChipCells \/ a >= ChipCells, AtRest(chip)
  PROVE  \A i \in 1..n : Out(ChipOf(a), a + i - 1) = At(mem, a + i - 1)
<1> TAKE i \in 1..n
<1> DEFINE x == a + i - 1
<1>1. x \in 0..Total-1 /\ a \in 0..Total-1 /\ x >= a /\ (~Stacked \/ x < ChipCells \/ a >= ChipCells)
  BY Sizes
<1> HIDE DEF x
<1>2. /\ ChipOf(x) = (IF Stacked /\ x >= ChipCells THEN 1 ELSE 0) /\ ChipOf(x) \in Chips
      /\ ChipOf(a) = (IF Stacked /\ a >= ChipCells THEN 1 ELSE 0)
  BY <1>1, OnChip
<1>3. ChipOf(x) = ChipOf(a)
  BY <1>1, <1>2, Sizes
<1>4. Out(ChipOf(a), x) = At(mem, x)
  BY <1>2, <1>3 DEF Out, At, AtRest
<1> QED
  BY <1>4 DEF x

-----------------------------------------------------------------------------
(* The calls, and the parts of their plans.                                *)
LEMMA PlanShape ==
  ASSUME NEW c \in Calls
  PROVE  /\ c.kind = "read" => Plan(c) = <<Sub("read", c.addr, c.len, "none")>>
         /\ c.kind = "erase" => Plan(c) = <<Sub("erase", c.addr, c.len, "none")>>
         /\ c.kind = "write" => Plan(c) = <<Sub("write", c.addr, c.len, "host")>>
BY CallType DEF Plan

LEMMA CopyShape ==
  ASSUME NEW c \in Calls, c.kind = "copy"
  PROVE  /\ c.len \div PageCells \in Nat /\ Len(Plan(c)) = 2 * (c.len \div PageCells + 1)
         /\ \A k \in 1..Len(Plan(c)) :
              Plan(c)[k] = IF k % 2 = 1 THEN Sub("read", c.addr + ((k - 1) \div 2) * PageCells, PageCells, "none")
                                        ELSE Sub("write", c.tgt + ((k - 1) \div 2) * PageCells, PageCells, "buf")
<1> DEFINE m == c.len \div PageCells
           n == 2 * (m + 1)
<1>1. m \in Nat
  <2>1. c.len \in Int /\ c.len >= 0 /\ PageCells \in Nat \ {0}
    BY CallType, Sizes
  <2>2. m \in Int /\ m >= 0
    BY <2>1, Divide
  <2> QED
    BY <2>2
<1>2. n \in Nat
  BY <1>1
<1>3. Plan(c) = [k \in 1..n |->
        IF k % 2 = 1 THEN Sub("read", c.addr + ((k - 1) \div 2) * PageCells, PageCells, "none")
                     ELSE Sub("write", c.tgt + ((k - 1) \div 2) * PageCells, PageCells, "buf")]
  BY DEF Plan, CopyPlan
<1>4. Plan(c) \in Seq(Parts)
  BY PlanCopy
<1> HIDE DEF n
<1>5. Len(Plan(c)) = n
  BY <1>2, <1>3, <1>4
<1> QED
  BY <1>1, <1>3, <1>5 DEF n

LEMMA SafeShape ==
  ASSUME NEW c \in Calls, c.kind = "safe"
  PROVE  LET last == c.addr + c.len - (c.len % SectorCells)
             e == Sub("erase", c.addr, c.len, "none")
             w == Sub("write", c.addr, c.len, "host")
         IN /\ c.len % SectorCells = 0 => Plan(c) = <<e, w>>
            /\ c.len % SectorCells # 0 =>
                 Plan(c) = <<Sub("read", last, SectorCells, "none"), e, w, Sub("write", last, SectorCells, "merged")>>
BY DEF Plan, SafePlan

(* The ranges of a call are cells of the flash.                            *)
LEMMA CallRange ==
  ASSUME CallsFit, NEW c \in Calls
  PROVE  /\ c.kind \in {"read", "write"} => \A i \in 0..c.len-1 : c.addr + i \in 0..Total-1
         /\ c.kind = "copy" => /\ CopyCells(c) \in Nat /\ c.len < CopyCells(c)
                               /\ \A i \in 0..CopyCells(c)-1 : c.addr + i \in 0..Total-1 /\ c.tgt + i \in 0..Total-1
<1>1. c.addr \in Nat /\ c.len \in Nat \ {0} /\ c.tgt \in Nat /\ Total \in Nat /\ PageCells \in Nat \ {0}
  BY CallType, Sizes
<1>2. CASE c.kind = "read"
  BY <1>1, <1>2 DEF CallsFit
<1>3. CASE c.kind = "write"
  <2>1. c.len <= PageCount(c) * PageCells /\ PageCount(c) * PageCells \in Nat
    BY <1>1, Pages
  <2>2. c.addr + PageCount(c) * PageCells <= Total
    BY <1>3 DEF CallsFit
  <2> QED
    BY <1>1, <1>3, <2>1, <2>2
<1>4. CASE c.kind = "copy"
  <2> DEFINE len == c.len
             m == len \div PageCells
             r == len % PageCells
             n == CopyCells(c)
  <2>1. len \in Int /\ len >= 0
    BY <1>1
  <2>2. m \in Int /\ m >= 0 /\ r \in 0..PageCells-1 /\ len = PageCells * m + r
    <3> HIDE DEF len
    <3> QED
      BY <1>1, <2>1, Divide
  <2>3. n = (m + 1) * PageCells
    BY DEF CopyCells
  <2> HIDE DEF len, m, r, n
  <2>4. (m + 1) * PageCells = PageCells * m + PageCells /\ PageCells * m \in Nat
    BY <1>1, <2>2
  <2>5. n \in Nat /\ len < n
    BY <1>1, <2>2, <2>3, <2>4
  <2>6. c.addr + n <= Total /\ c.tgt + n <= Total
    BY <1>4 DEF CallsFit, n
  <2>7. \A i \in 0..n-1 : c.addr + i \in 0..Total-1 /\ c.tgt + i \in 0..Total-1
    BY <1>1, <2>5, <2>6
  <2> QED
    BY <1>4, <2>5, <2>7 DEF n, len
<1> QED
  BY <1>2, <1>3, <1>4

LEMMA BlankRange ==
  ASSUME NEW a \in Nat, NEW len \in Nat, WasBlank(a, len), NEW i \in 0..len-1, a + i \in 0..Total-1
  PROVE  At(before, a + i) = Blank
<1>1. a + i \in a .. a + len - 1 /\ (a + i) % Total = a + i
  BY OnChip
<1>2. a + i \in Span(a, len)
  BY <1>1 DEF Span
<1> QED
  BY <1>1, <1>2 DEF WasBlank, Was

(* The sectors of a range that begins with one.                            *)
LEMMA SectorsAre ==
  ASSUME NEW addr \in Nat, NEW len \in Nat \ {0}, addr % SectorCells = 0, addr + len <= Total,
         NEW x \in SectorsOf(addr, len)
  PROVE  /\ x \in 0..Total-1 /\ x >= addr
         /\ len % SectorCells = 0 => x < addr + len
         /\ x < (addr + len - (len % SectorCells)) + SectorCells
<1> DEFINE S == SectorCells
           A == addr \div S
           q == len \div S
           r == len % S
<1>1. S \in Nat \ {0} /\ Total \in Nat \ {0}
  BY Sizes
<1>2. A \in Nat /\ addr = S * A
  <2>1. addr \in Int /\ addr >= 0 /\ S \in Nat \ {0}
    BY <1>1
  <2>2. addr % S = 0
    OBVIOUS
  <2> HIDE DEF S
  <2>3. A \in Int /\ A >= 0 /\ addr = S * A + (addr % S)
    BY <2>1, Divide
  <2> HIDE DEF A
  <2>4. addr = S * A
    BY <2>1, <2>2, <2>3
  <2> QED
    BY <2>3, <2>4
<1>3. q \in Nat /\ r \in 0..S-1 /\ len = S * q + r
  <2>1. len \in Int /\ len >= 0 /\ S \in Nat \ {0}
    BY <1>1
  <2> HIDE DEF S
  <2>2. q \in Int /\ q >= 0 /\ r \in 0..S-1 /\ len = S * q + r
    BY <2>1, Divide
  <2> HIDE DEF q
  <2> QED
    BY <2>2
<1>4. PICK z \in addr .. addr + len - 1 : x \in 0..Total-1 /\ x \div S = (z % Total) \div S
  BY DEF SectorsOf, Span
<1>5. z \in 0..Total-1 /\ z % Total = z
  <2>1. z \in 0..Total-1
    BY <1>1, <1>4
  <2> QED
    BY <2>1, OnChip
<1> DEFINE d == x \div S
           u == x % S
           v == z % S
<1>6. d \in Int /\ u \in 0..S-1 /\ x = S * d + u
  <2>1. x \in Int /\ S \in Nat \ {0}
    BY <1>1, <1>4
  <2> HIDE DEF S
  <2> QED
    BY <2>1, Divide
<1>7. v \in 0..S-1 /\ z = S * d + v
  <2>1. z \in Int /\ S \in Nat \ {0} /\ z \div S = d
    BY <1>1, <1>4, <1>5
  <2> HIDE DEF S, d
  <2>2. v \in 0..S-1 /\ z = S * (z \div S) + v
    BY <2>1, Divide
  <2> QED
    BY <2>1, <2>2
<1> HIDE DEF S, A, q, r, d, u, v
<1>8. \A i, j \in Int : S * i < S * j + S => i <= j
  <2> TAKE i, j \in Int
  <2> HAVE S * i < S * j + S
  <2> SUFFICES ASSUME i >= j + 1 PROVE FALSE
    OBVIOUS
  <2>1. \A e, f \in Int : e >= f => S * e >= S * f
    BY <1>1
  <2>2. S * i >= S * (j + 1) /\ S * (j + 1) = S * j + S /\ S * i \in Int /\ S * j \in Int
    BY <1>1, <2>1
  <2> QED
    BY <1>1, <2>2
<1>9. \A e, f \in Int : e <= f => S * e <= S * f
  BY <1>1
<1>10. A <= d
  <2>1. S * A < S * d + S /\ S * A \in Int /\ S * d \in Int
    BY <1>1, <1>2, <1>4, <1>6, <1>7
  <2> QED
    BY <1>2, <1>6, <1>8, <2>1
<1>11. x >= addr
  <2>1. S * A <= S * d /\ S * A \in Int /\ S * d \in Int
    BY <1>1, <1>2, <1>6, <1>9, <1>10
  <2> QED
    BY <1>2, <1>6, <2>1
<1>12. S * (A + q) = S * A + S * q /\ S * A \in Int /\ S * q \in Int /\ S * d \in Int
  BY <1>1, <1>2, <1>3, <1>6
<1>13. d <= A + q
  <2>1. S * d < S * (A + q) + S
    BY <1>1, <1>2, <1>3, <1>4, <1>7, <1>12
  <2> QED
    BY <1>2, <1>3, <1>6, <1>8, <2>1
<1>14. x < (addr + len - r) + S
  <2>1. S * d <= S * (A + q)
    BY <1>2, <1>3, <1>6, <1>9, <1>13
  <2> QED
    BY <1>1, <1>2, <1>3, <1>6, <1>12, <2>1
<1>15. r = 0 => x < addr + len
  <2> SUFFICES ASSUME r = 0 PROVE x < addr + len
    OBVIOUS
  <2>1. d <= A + q - 1
    <3>1. S * d < S * (A + q - 1) + S
      <4>1. S * (A + q - 1) = S * A + S * q - S
        BY <1>1, <1>2, <1>3
      <4> QED
        BY <1>1, <1>2, <1>3, <1>4, <1>7, <1>12, <4>1
    <3> QED
      BY <1>2, <1>3, <1>6, <1>8, <3>1
  <2>2. S * d <= S * (A + q - 1) /\ S * (A + q - 1) = S * A + S * q - S
    BY <1>1, <1>2, <1>3, <1>6, <1>9, <2>1
  <2> QED
    BY <1>1, <1>2, <1>3, <1>6, <1>12, <2>2
<1> QED
  BY <1>4, <1>11, <1>14, <1>15 DEF r, S

-----------------------------------------------------------------------------
(* How a step of a call is made.                                           *)

(* A command that only asks, or sets the write enable latch, leaves the    *)
(* cells as they are, and every chip as quiet as it was.                   *)
Same == \A a \in Nat : At(mem', a) = At(mem, a)

LEMMA PlainKeeps ==
  ASSUME TypeOK, Shapes, NEW c \in Chips, NEW do, do \notin Destructive,
         Obey(c, Plain(do)) \/ UNCHANGED chipVars
  PROVE  /\ Same
         /\ \A k \in Chips : ~chip[k].busy => ~chip'[k].busy
         /\ \A k \in Chips \ {c} : chip'[k] = chip[k]
         /\ do \in {"status", "read"} /\ ~chip[c].busy => chip'[c].wel = chip[c].wel
<1> DEFINE cmd == Plain(do)
<1>1. cmd.do = do /\ \A k \in Chips : Cells(k, cmd) = {}
  BY DEF Plain, Cmd, Cells, Destructive
<1>2. CASE UNCHANGED chipVars
  BY <1>2 DEF chipVars, Same
<1>3. CASE Obey(c, cmd)
  <2> HIDE DEF cmd
  <2>1. Same
    BY <1>1, <1>3, ObeyCells DEF Same
  <2>2. /\ \A k \in Chips \ {c} : chip'[k] = chip[k]
        /\ ~chip[c].busy => ~chip'[c].busy
        /\ do \in {"status", "read"} /\ ~chip[c].busy => chip'[c].wel = chip[c].wel
    BY <1>1, <1>3, ObeyIs
  <2> QED
    BY <2>1, <2>2
<1> QED
  BY <1>2, <1>3

(* What was done so far, in a number of cells.                             *)
LEMMA WrittenIs ==
  ASSUME NEW w, Contents(w)', Written' = w
  PROVE  Contents(Written)'
BY DEF Contents, WriteSoFar, CopySoFar, SafeSoFar, Reached

(* A call that has failed, or is not under way.                            *)
LEMMA Failed ==
  ASSUME todo' = <<>>, pc' \in {"idle", "down", "trap"}, pc' = "idle" => OkMeansDone', count' \in Counts
  PROVE  Progress'
<1>1. Planned'
  BY DEF Planned, SetupPcs
<1>2. Quietly' /\ ReadSoFar' /\ SectorsErased' /\ DiesErased' /\ FirstSeen'
  BY DEF Quietly, ReadSoFar, SectorsErased, DiesErased, FirstSeen, ErasePcs, DiePcs
<1>3. Contents(Written)'
  BY DEF Contents, WriteSoFar, CopySoFar, SafeSoFar
<1>4. OkMeansDone'
  BY DEF OkMeansDone
<1> QED
  BY <1>1, <1>2, <1>3, <1>4 DEF Progress

LEMMA EndFailed ==
  ASSUME End("failed"), count' \in Counts
  PROVE  Progress'
<1>1. todo' = <<>> /\ pc' = "idle" /\ result' = "failed"
  BY DEF End
<1>2. OkMeansDone'
  BY <1>1 DEF OkMeansDone
<1> QED
  BY <1>1, <1>2, Failed

(* The same part of the call goes on.                                      *)
LEMMA PlanStays ==
  ASSUME Planned, UNCHANGED <<call, todo>>, pc' \notin SetupPcs
  PROVE  Planned' /\ PartNo' = PartNo /\ Part' = Part
BY DEF Planned, PartNo, Part

(* What was done stays done when no cell changes.                          *)
LEMMA ContentsStay ==
  ASSUME NEW w, Contents(w), Planned, call \in Calls, Same, UNCHANGED <<call, before, todo>>,
         todo # <<>>, buf' = buf \/ Part.do = "read", count'.lost = 0 => count.lost = 0
  PROVE  Contents(w)'
<1>1. /\ Part' = Part /\ PartNo' = PartNo /\ Page' = Page /\ LastSector' = LastSector
      /\ WasBlank(call.addr, call.len)' = WasBlank(call.addr, call.len)
      /\ WasBlank(call.tgt, call.len)' = WasBlank(call.tgt, call.len)
      /\ Reached(w)' = Reached(w) /\ \A x : Final(x)' = Final(x)
  BY DEF Part, PartNo, Page, LastSector, WasBlank, Was, Reached, Final
<1>2. call.addr \in Nat /\ call.tgt \in Nat
  BY CallType
<1>3. WriteSoFar(w)'
  <2>1. \A i \in 0..call.len-1 : At(mem', call.addr + i) = At(mem, call.addr + i)
    BY <1>2 DEF Same
  <2> QED
    BY <1>1, <2>1 DEF Contents, WriteSoFar
<1>4. CopySoFar(w)'
  <2>1. \A i \in 0..call.len-1 : At(mem', call.tgt + i) = At(mem, call.tgt + i)
    BY <1>2 DEF Same
  <2>2. CopySoFar(w)
    BY DEF Contents
  <2>3. todo # <<>> /\ call.kind = "copy" =>
          /\ Part.do = "write" => buf' = [i \in 1..PageCells |-> At(before, call.addr + Page * PageCells + i - 1)]
          /\ WasBlank(call.tgt, call.len) /\ count'.lost = 0 =>
               \A i \in 0..call.len-1 :
                 At(mem', call.tgt + i) = IF i < Page * PageCells + w THEN At(before, call.addr + i) ELSE Blank
    BY <2>1, <2>2 DEF CopySoFar
  <2> QED
    BY <1>1, <2>3 DEF CopySoFar
<1>5. SafeSoFar(w)'
  <2>1. \A a \in 0..Total-1 : At(mem', a) = At(mem, a)
    BY DEF Same
  <2>2. \A x \in SectorsOf(call.addr, call.len) : x \in 0..Total-1
    BY DEF SectorsOf
  <2>3. SafeSoFar(w)
    BY DEF Contents
  <2>4. todo # <<>> /\ call.kind = "safe" /\ call.addr % SectorCells = 0 =>
          /\ Part.do = "read" => \A a \in 0..Total-1 : At(mem', a) = At(before, a)
          /\ Part.do # "read" /\ call.len % SectorCells # 0 =>
               buf' = [i \in 1..SectorCells |-> At(before, LastSector + i - 1)]
          /\ Part.do = "write" /\ call.len % PageCells = 0 /\ count'.lost = 0 =>
               \A x \in SectorsOf(call.addr, call.len) : At(mem', x) = IF x < Reached(w) THEN Final(x) ELSE Blank
    BY <2>1, <2>2, <2>3 DEF SafeSoFar
  <2> QED
    BY <1>1, <2>4 DEF SafeSoFar
<1> QED
  BY <1>3, <1>4, <1>5 DEF Contents

(* The next part of a call.                                                *)

LEMMA PlannedNext ==
  ASSUME Planned, todo \in Seq(Parts), Len(todo) > 1, todo' = Tail(todo), call' = call, pc' \notin SetupPcs
  PROVE  /\ Planned' /\ PartNo' = PartNo + 1 /\ Part' = Plan(call)[PartNo + 1] /\ todo' # <<>>
         /\ todo[2] = Plan(call)[PartNo + 1] /\ Head(todo') = todo[2] /\ todo[2] \in Parts
<1> DEFINE p == Plan(call)
           m == Len(Plan(call))
           n == Len(todo)
<1>1. /\ todo # <<>> /\ call \in Calls /\ n <= m /\ p \in Seq(Parts) /\ m \in Nat /\ n \in Nat /\ n > 1
      /\ PartNo = m - n + 1 /\ \A i \in 1..n : todo[i] = p[(m - n + 1) + i - 1]
  BY DEF Planned, PartNo
<1>2. /\ todo' # <<>> /\ Len(todo') = n - 1 /\ \A i \in 1..n-1 : todo'[i] = todo[i + 1]
      /\ Head(todo') = todo[2] /\ todo[2] \in Parts
  <2>1. Tail(todo) \in Seq(Parts) /\ Len(Tail(todo)) = n - 1 /\ \A i \in 1..n-1 : Tail(todo)[i] = todo[i + 1]
    BY <1>1
  <2>2. n - 1 >= 1
    BY <1>1
  <2> QED
    BY <1>1, <2>1, <2>2
<1>3. Plan(call') = p /\ Plan(call)' = p
  OBVIOUS
<1>4. PartNo' = m - (n - 1) + 1
  BY <1>2, <1>3 DEF PartNo
<1> HIDE DEF p, m, n
<1>5. PartNo' = PartNo + 1
  BY <1>1, <1>4
<1>6. \A i \in 1..n-1 : todo'[i] = p[(m - (n - 1) + 1) + i - 1]
  <2> TAKE i \in 1..n-1
  <2>1. todo'[i] = p[(m - n + 1) + (i + 1) - 1] /\ i + 1 \in 1..n
    BY <1>1, <1>2
  <2>2. (m - n + 1) + (i + 1) - 1 = (m - (n - 1) + 1) + i - 1
    BY <1>1
  <2> QED
    BY <2>1, <2>2
<1>7. Planned'
  BY <1>1, <1>2, <1>3, <1>4, <1>6 DEF Planned, p, m, n
<1>8. todo[2] = p[PartNo + 1]
  <2>1. (m - n + 1) + 2 - 1 = PartNo + 1 /\ 2 \in 1..n
    BY <1>1
  <2> QED
    BY <1>1, <2>1
<1> QED
  BY <1>2, <1>5, <1>7, <1>8 DEF Part, p

(* The part that begins.                                                   *)
LEMMA Begins ==
  ASSUME NEW s \in Parts, Begin(s), Head(todo') = s, Planned', AtRest(chip'), Contents(0)', count' \in Counts
  PROVE  Progress'
<1>1. /\ pos' = 0 /\ Part' = s
      /\ s.do = "read" => pc' = "read" /\ take' = FirstTake(s)
      /\ s.do = "write" => pc' = "wrenWrite"
      /\ s.do = "erase" => pc' \in {"wrenDie", "wrenErase"}
      /\ s.do \in {"read", "write", "erase"}
  BY DEF Begin, Part, Parts
<1>2. pc' \in {"read", "wrenWrite", "wrenDie", "wrenErase"}
  BY <1>1
<1>3. Quietly'
  BY <1>2 DEF Quietly, AtRest
<1>4. ReadSoFar'
  BY <1>1 DEF ReadSoFar
<1>5. SectorsErased'
  BY <1>1, <1>2 DEF SectorsErased
<1>6. DiesErased'
  <2>1. \A a \in 0..Total-1 : ~(DieOf(a) < 0)
    BY DieNumber
  <2> QED
    BY <1>1, <1>2, <2>1 DEF DiesErased
<1>7. FirstSeen' /\ OkMeansDone'
  BY <1>2 DEF FirstSeen, OkMeansDone
<1>8. Written' = 0
  BY <1>1, <1>2 DEF Written
<1>9. Contents(Written)'
  BY <1>8, WrittenIs
<1> QED
  BY <1>3, <1>4, <1>5, <1>6, <1>7, <1>9 DEF Progress

-----------------------------------------------------------------------------
(* Erasing                                                                 *)

(* While the erase goes on.                                                *)
LEMMA EraseGoesOn ==
  ASSUME PlanInv, Progress, todo # <<>>, Part.do = "erase", UNCHANGED <<call, before, todo, buf>>,
         count' \in Counts, pc' \in ErasePcs \cup DiePcs, Quietly', SectorsErased', DiesErased'
  PROVE  Progress'
<1>1. Planned' /\ Part' = Part
  BY PlanStays DEF Progress, ErasePcs, DiePcs, SetupPcs
<1>2. call.kind \in {"erase", "safe"}
  <2>1. 1 \in 1..Len(todo) /\ todo[1] = Part
    BY DEF PlanInv, Part
  <2> QED
    BY <2>1 DEF PlanInv, Fits
<1>3. ReadSoFar' /\ FirstSeen' /\ OkMeansDone'
  BY DEF ReadSoFar, FirstSeen, OkMeansDone, ErasePcs, DiePcs
<1>4. WriteSoFar(Written)' /\ CopySoFar(Written)'
  BY <1>2 DEF WriteSoFar, CopySoFar
<1>5. SafeSoFar(Written)'
  BY <1>1 DEF SafeSoFar, Progress, Contents, LastSector
<1> QED
  BY <1>1, <1>3, <1>4, <1>5 DEF Progress, Contents

(* Once everything is erased.                                              *)
LEMMA EraseThrough ==
  ASSUME CallsFit, PlanInv, Progress, todo # <<>>, Part.do = "erase", Through, UNCHANGED <<call, before, buf>>,
         count' \in Counts, Part.len # Total => AtRest(chip'),
         Part.len # Total \/ count'.fault = 0 => \A a \in SectorsOf(call.addr, call.len) : At(mem', a) = Blank
  PROVE  Progress'
<1>1. /\ call.kind \in {"erase", "safe"} /\ Part.addr = call.addr /\ Part.len = call.len
      /\ todo \in Seq(Parts) /\ Part \in Parts
  <2>1. 1 \in 1..Len(todo) /\ todo[1] = Part
    BY DEF PlanInv, Part
  <2> QED
    BY <2>1 DEF PlanInv, Fits
<1>2. /\ call \in Calls /\ Plan(call) \in Seq(Parts) /\ Len(todo) <= Len(Plan(call)) /\ Planned
      /\ Part = Plan(call)[PartNo] /\ PartNo \in 1..Len(Plan(call)) /\ PartNo = Len(Plan(call)) - Len(todo) + 1
      /\ Len(todo) \in Nat \ {0}
  <2>1. Planned
    BY DEF Progress
  <2>2. 1 \in 1..Len(todo) /\ todo[1] = Part /\ Len(todo) \in Nat \ {0}
    BY <1>1 DEF Part
  <2> QED
    BY <2>1, <2>2 DEF Planned, PartNo
<1>3. CASE call.kind = "erase"
  <2>1. Plan(call) = <<Sub("erase", call.addr, call.len, "none")>>
    BY <1>2, <1>3, PlanShape
  <2>2. ~(Len(todo) > 1)
    BY <1>2, <2>1
  <2>3. todo' = <<>> /\ pc' = "idle" /\ result' = "ok"
    BY <2>2 DEF Through, End
  <2>4. \A x \in Span(call.addr, call.len) : x \in SectorsOf(call.addr, call.len) /\ x % Total = x
    <3> TAKE x \in Span(call.addr, call.len)
    <3>1. PICK y \in call.addr .. call.addr + call.len - 1 : x = y % Total
      BY DEF Span
    <3>2. y \in Nat
      <4>1. call.addr \in Nat /\ call.len \in Nat
        BY <1>2, CallType
      <4> QED
        BY <3>1, <4>1
    <3>3. x \in 0..Total-1
      BY <3>1, <3>2, Located
    <3> QED
      BY <3>3, Inside DEF SectorsOf
  <2>5. OkMeansDone'
    <3>1. call.len # Total \/ count'.fault = 0 =>
            \A x \in Span(call.addr, call.len) : At(mem', x % Total) = Blank
      BY <1>1, <2>4
    <3> QED
      BY <1>3, <3>1 DEF OkMeansDone, Is
  <2> QED
    BY <2>3, <2>5, Failed
<1>4. CASE call.kind = "safe"
  <2> DEFINE last == call.addr + call.len - (call.len % SectorCells)
             r == Sub("read", last, SectorCells, "none")
             e == Sub("erase", call.addr, call.len, "none")
             w == Sub("write", call.addr, call.len, "host")
             m == Sub("write", last, SectorCells, "merged")
  <2>1. /\ call.len # Total /\ call.addr + call.len <= Total /\ AtRest(chip')
        /\ \A a \in SectorsOf(call.addr, call.len) : At(mem', a) = Blank
    BY <1>1, <1>2, <1>4 DEF CallsFit
  <2>2. /\ r.do = "read" /\ e.do = "erase" /\ w.do = "write" /\ m.do = "write"
        /\ w.from = "host"
    BY DEF Sub
  <2>3. /\ call.len % SectorCells = 0 => Plan(call) = <<e, w>>
        /\ call.len % SectorCells # 0 => Plan(call) = <<r, e, w, m>>
    BY <1>2, <1>4, SafeShape
  <2> HIDE DEF last, r, e, w, m
  <2>4. Len(todo) > 1 /\ Plan(call)[PartNo + 1] = w
    <3>1. CASE call.len % SectorCells = 0
      <4>1. Len(Plan(call)) = 2 /\ Plan(call)[1] = e /\ Plan(call)[2] = w
        BY <2>3, <3>1
      <4>2. PartNo = 1
        BY <1>2, <2>2, <4>1
      <4> QED
        BY <1>2, <4>1, <4>2
    <3>2. CASE call.len % SectorCells # 0
      <4>1. /\ Len(Plan(call)) = 4 /\ Plan(call)[1] = r /\ Plan(call)[2] = e
            /\ Plan(call)[3] = w /\ Plan(call)[4] = m
        BY <2>3, <3>2
      <4>2. PartNo = 2
        BY <1>2, <2>2, <4>1
      <4> QED
        BY <1>2, <4>1, <4>2
    <3> QED
      BY <3>1, <3>2
  <2>5. todo' = Tail(todo) /\ Begin(todo[2])
    BY <2>4 DEF Through
  <2>6. pc' \notin SetupPcs
    <3>1. todo[2] \in Parts
      BY <1>1, <2>4
    <3> QED
      BY <2>5, <3>1 DEF Begin, SetupPcs, Parts
  <2>7. /\ Planned' /\ Part' = w /\ todo' # <<>> /\ todo[2] = w /\ Head(todo') = w /\ w \in Parts
    BY <1>1, <1>2, <2>4, <2>5, <2>6, PlannedNext
  <2>8. WriteSoFar(0)' /\ CopySoFar(0)'
    BY <1>4 DEF WriteSoFar, CopySoFar
  <2>9. SafeSoFar(0)'
    <3> SUFFICES ASSUME call.addr % SectorCells = 0 PROVE SafeSoFar(0)'
      BY DEF SafeSoFar
    <3>1. \A x \in SectorsOf(call.addr, call.len) : ~(x < call.addr + 0)
      <4>1. call.addr \in Nat /\ call.len \in Nat \ {0}
        BY <1>2, CallType
      <4>2. \A x \in SectorsOf(call.addr, call.len) : x \in 0..Total-1 /\ x >= call.addr
        BY <2>1, <4>1, SectorsAre
      <4> QED
        BY <4>1, <4>2
    <3>2. Reached(0)' = call.addr + 0
      BY <2>2, <2>7 DEF Reached
    <3>3. call.len % SectorCells # 0 => buf' = [i \in 1..SectorCells |-> At(before', LastSector' + i - 1)]
      BY <1>4 DEF Progress, Contents, SafeSoFar, LastSector
    <3> QED
      BY <2>1, <2>2, <2>7, <3>1, <3>2, <3>3 DEF SafeSoFar
  <2> QED
    BY <2>1, <2>5, <2>7, <2>8, <2>9, Begins DEF Contents
<1> QED
  BY <1>1, <1>3, <1>4

(* Sector by sector.                                                       *)
LEMMA EraseSectorKeeps ==
  ASSUME CallsFit, DriverInv, DriverInv', Progress, EraseSector
  PROVE  Progress'
<1> DEFINE B(m, k) ==
      \A a \in 0..Total-1 :
        a \div SectorCells = ((Part.addr + k * SectorCells) % Total) \div SectorCells => At(m, a) = Blank
<1>1. pc \in ErasePcs
  BY DEF EraseSector, Send, Status, ErasePcs
<1>2. /\ todo # <<>> /\ todo \in Seq(Parts) /\ Part \in Parts /\ Part.do = "erase" /\ Part.len # Total
      /\ pos \in 0..NumSect(Part)-1 /\ pos \in Nat /\ cs \in Chips
      /\ NumSect(Part) \in Nat /\ Part.addr \in Nat /\ PlanInv /\ TypeOK /\ Shapes /\ Shapes'
  <2>1. todo # <<>> /\ todo \in Seq(Parts) /\ cs \in Chips /\ PlanInv /\ TypeOK /\ Shapes /\ Shapes'
    BY <1>1 DEF DriverInv, PlaceInv, PlanInv, TypeOK, ErasePcs, SetupPcs, Resting
  <2>2. Part \in Parts
    BY <2>1 DEF Part
  <2> QED
    BY <1>1, <2>1, <2>2, SectorsFit DEF DriverInv, PlaceInv, Parts
<1>3. SectorAddr = Part.addr + pos * SectorCells /\ SectorAddr \in Nat /\ ChipOf(SectorAddr) \in Chips
  <2>1. SectorAddr \in Nat
    <3>1. pos * SectorCells \in Nat
      BY <1>2, Sizes
    <3> QED
      BY <1>2, <3>1 DEF SectorAddr
  <2> QED
    BY <2>1, Located DEF SectorAddr
<1>4. /\ \A k \in 0..pos-1 : B(mem, k)
      /\ pc = "statusErase" => B(mem, pos)
      /\ pc = "erase" => B(mem, pos) \/ (chip[cs].wel /\ ~chip[cs].busy)
  BY <1>1 DEF Progress, SectorsErased, SectorBlank
<1>5. count \in Counts /\ Planned /\ Quietly /\ count.fault \in Nat /\ count.lost \in Nat
  BY DEF Progress, Counts
<1>6. ASSUME NEW k \in Nat, B(mem, k), \A a \in 0..Total-1 : At(mem, a) = Blank => At(mem', a) = Blank
      PROVE  B(mem', k)
  BY <1>6
<1>7. \A a \in 0..Total-1 : a \in Nat
  OBVIOUS
<1>8. ASSUME UNCHANGED <<call, before, todo, buf>>, count' \in Counts, pc' \in ErasePcs, Quietly',
             pos' \in Nat, \A k \in 0..pos'-1 : B(mem', k),
             pc' = "statusErase" => B(mem', pos'),
             pc' = "erase" => B(mem', pos') \/ (chip'[cs'].wel /\ ~chip'[cs'].busy)
      PROVE  Progress'
  <2>1. Part' = Part
    BY <1>8 DEF Part
  <2>2. SectorsErased'
    BY <1>8, <2>1 DEF SectorsErased, SectorBlank
  <2>3. DiesErased'
    BY <1>8 DEF DiesErased, DiePcs, ErasePcs
  <2> QED
    BY <1>2, <1>8, <2>2, <2>3, EraseGoesOn
<1>10. CASE Send("wrenErase", ChipOf(SectorAddr), Plain("wren"), TRUE, "erase", End("failed"))
  <2> DEFINE c == ChipOf(SectorAddr)
  <2>1. /\ pc = "wrenErase" /\ cs' = c /\ UNCHANGED <<call, before, buf>> /\ count' \in Counts
        /\ Obey(c, Plain("wren")) \/ UNCHANGED chipVars
    BY <1>5, <1>10 DEF Send, Fails, callVars, Counts
  <2>2. Same /\ AtRest(chip')
    BY <1>2, <1>3, <1>5, <2>1, PlainKeeps DEF Destructive, Quietly, AtRest
  <2>3. \A k \in 0..pos-1 : B(mem', k)
    <3>1. \A a \in 0..Total-1 : At(mem, a) = Blank => At(mem', a) = Blank
      BY <1>7, <2>2 DEF Same
    <3> HIDE DEF B
    <3> QED
      BY <1>2, <1>4, <1>6, <3>1
  <2>4. \/ pc' = "erase" /\ UNCHANGED <<pos, todo>> /\ Obey(c, Plain("wren"))
        \/ UNCHANGED <<pc, pos, todo>>
        \/ End("failed")
    BY <1>10 DEF Send, Fails, Onward
  <2>5. CASE pc' = "erase" /\ UNCHANGED <<pos, todo>> /\ Obey(c, Plain("wren"))
    <3>1. chip'[c].wel /\ ~chip'[c].busy
      BY <1>2, <1>3, <1>5, <2>1, <2>2, <2>5, ObeyIs DEF Plain, Cmd, Quietly, AtRest
    <3>2. Quietly'
      BY <2>2, <2>5 DEF Quietly, AtRest, OthersRest
    <3> HIDE DEF B
    <3> QED
      BY <1>2, <1>8, <2>1, <2>3, <2>5, <3>1, <3>2 DEF ErasePcs
  <2>6. CASE UNCHANGED <<pc, pos, todo>>
    <3>1. Quietly'
      BY <2>1, <2>2, <2>6 DEF Quietly, AtRest, OthersRest
    <3> HIDE DEF B
    <3> QED
      BY <1>2, <1>8, <2>1, <2>3, <2>6, <3>1 DEF ErasePcs
  <2>7. CASE End("failed")
    BY <2>1, <2>7, EndFailed
  <2> QED
    BY <2>4, <2>5, <2>6, <2>7
<1>11. CASE Send("erase", cs, Cmd("erase", SectorAddr, Blank), TRUE, "statusErase", End("failed"))
  <2> DEFINE cmd == Cmd("erase", SectorAddr, Blank)
  <2>1. /\ pc = "erase" /\ cs' = cs /\ UNCHANGED <<call, before, buf>> /\ count' \in Counts
        /\ Obey(cs, cmd) \/ UNCHANGED chipVars
    BY <1>5, <1>11 DEF Send, Fails, callVars, Counts
  <2>2. cmd.do = "erase" /\ cmd.at = SectorAddr % ChipCells
    BY DEF Cmd
  <2>3. cs = ChipOf(SectorAddr) /\ chip[cs].four
    BY <1>2, <2>1 DEF DriverInv, PlaceInv, FourBytes, SetupPcs
  <2>4. OthersRest'
    <3>1. \A k \in Chips \ {cs} : chip'[k] = chip[k]
      <4> HIDE DEF cmd
      <4> QED
        BY <1>2, <2>1, ObeyIs DEF chipVars
    <3> QED
      BY <1>5, <2>1, <3>1 DEF Quietly, OthersRest
  <2>5. \A a \in 0..Total-1 : At(mem, a) = Blank => At(mem', a) = Blank
    <3> HIDE DEF cmd
    <3> QED
      BY <1>2, <2>1, <2>2, BlankStays DEF chipVars
  <2>6. \A k \in 0..pos-1 : B(mem', k)
    <3> HIDE DEF B
    <3> QED
      BY <1>2, <1>4, <1>6, <2>5
  <2>7. B(mem, pos) => B(mem', pos)
    <3> HIDE DEF B
    <3> QED
      BY <1>2, <1>6, <2>5
  <2>8. Obey(cs, cmd) => B(mem', pos)
    <3> SUFFICES ASSUME Obey(cs, cmd), ~B(mem, pos) PROVE B(mem', pos)
      BY <2>7
    <3>1. chip[cs].wel /\ ~chip[cs].busy
      BY <1>4, <2>1
    <3>2. ASSUME NEW a \in 0..Total-1,
                 a \div SectorCells = ((Part.addr + pos * SectorCells) % Total) \div SectorCells
          PROVE  At(mem', a) = Blank
      <4>1. /\ ChipOf(a) = cs
            /\ (a % ChipCells) \div SectorCells = (SectorAddr % ChipCells) \div SectorCells
        BY <1>3, <2>3, <3>2, SectorOnChip
      <4>2. a % ChipCells \in Cells(cs, cmd)
        BY <2>2, <2>3, <4>1, OnChip DEF Cells
      <4> HIDE DEF cmd
      <4> QED
        BY <1>2, <2>2, <3>1, <4>1, <4>2, ObeyDoes
    <3> QED
      BY <3>2
  <2>9. \/ pc' = "statusErase" /\ UNCHANGED <<pos, todo>> /\ Obey(cs, cmd)
        \/ UNCHANGED <<pc, pos, todo>>
        \/ End("failed")
    BY <1>11 DEF Send, Fails, Onward
  <2>10. CASE pc' = "statusErase" /\ UNCHANGED <<pos, todo>> /\ Obey(cs, cmd)
    <3>1. Quietly'
      BY <2>4, <2>10 DEF Quietly
    <3> HIDE DEF B
    <3> QED
      BY <1>2, <1>8, <2>1, <2>6, <2>8, <2>10, <3>1 DEF ErasePcs
  <2>11. CASE UNCHANGED <<pc, pos, todo>>
    <3>1. Quietly'
      BY <2>1, <2>4, <2>11 DEF Quietly
    <3>2. B(mem', pos) \/ (chip'[cs].wel /\ ~chip'[cs].busy)
      <4> HIDE DEF B, cmd
      <4> QED
        BY <1>4, <2>1, <2>7, <2>8 DEF chipVars
    <3> HIDE DEF B
    <3> QED
      BY <1>2, <1>8, <2>1, <2>6, <2>11, <3>1, <3>2 DEF ErasePcs
  <2>12. CASE End("failed")
    BY <2>1, <2>12, EndFailed
  <2> QED
    BY <2>9, <2>10, <2>11, <2>12
<1>12. CASE Status("statusErase", TRUE,
                  IF pos + 1 < NumSect(Part) THEN Onward("wrenErase", pos + 1) ELSE Through,
                  End("failed"))
  <2>1. /\ pc = "statusErase" /\ cs' = cs /\ UNCHANGED <<call, before, buf>> /\ count' \in Counts
        /\ Obey(cs, Plain("status")) \/ UNCHANGED chipVars
    BY <1>5, <1>12 DEF Status, Fails, callVars, Counts
  <2>2. /\ Same /\ \A k \in Chips : ~chip[k].busy => ~chip'[k].busy
    <3>1. "status" \notin Destructive
      BY DEF Destructive
    <3> QED
      BY <1>2, <2>1, <3>1, PlainKeeps
  <2>3. OthersRest'
    BY <1>5, <2>1, <2>2 DEF Quietly, OthersRest
  <2>4. B(mem', pos) /\ \A k \in 0..pos-1 : B(mem', k)
    <3>1. \A a \in 0..Total-1 : At(mem, a) = Blank => At(mem', a) = Blank
      BY <1>7, <2>2 DEF Same
    <3> HIDE DEF B
    <3> QED
      BY <1>2, <1>4, <1>6, <2>1, <3>1
  <2>5. \/ UNCHANGED <<pc, pos, todo>>
        \/ ~chip[cs].busy /\ pos + 1 < NumSect(Part) /\ pc' = "wrenErase" /\ pos' = pos + 1 /\ UNCHANGED todo
        \/ ~chip[cs].busy /\ ~(pos + 1 < NumSect(Part)) /\ Through
        \/ End("failed")
    BY <1>12 DEF Status, Fails, Onward
  <2>6. CASE UNCHANGED <<pc, pos, todo>>
    <3>1. Quietly'
      BY <2>1, <2>3, <2>6 DEF Quietly
    <3> HIDE DEF B
    <3> QED
      BY <1>2, <1>8, <2>1, <2>4, <2>6, <3>1 DEF ErasePcs
  <2>7. ~chip[cs].busy => AtRest(chip')
    BY <1>5, <2>1, <2>2 DEF Quietly, OthersRest, AtRest
  <2>8. CASE ~chip[cs].busy /\ pos + 1 < NumSect(Part) /\ pc' = "wrenErase" /\ pos' = pos + 1 /\ UNCHANGED todo
    <3>1. Quietly'
      BY <2>7, <2>8 DEF Quietly
    <3>2. \A k \in 0..pos'-1 : B(mem', k)
      <4> HIDE DEF B
      <4> QED
        BY <1>2, <2>4, <2>8
    <3> HIDE DEF B
    <3> QED
      BY <1>2, <1>8, <2>1, <2>8, <3>1, <3>2 DEF ErasePcs
  <2>9. CASE ~chip[cs].busy /\ ~(pos + 1 < NumSect(Part)) /\ Through
    <3>1. \A k \in 0..NumSect(Part)-1 : B(mem', k)
      <4> HIDE DEF B
      <4> QED
        BY <1>2, <2>4, <2>9
    <3>2. \A a \in SectorsOf(Part.addr, Part.len) : At(mem', a) = Blank
      <4> TAKE a \in SectorsOf(Part.addr, Part.len)
      <4>1. PICK k \in 0..NumSect(Part)-1 :
              a \div SectorCells = ((Part.addr + k * SectorCells) % Total) \div SectorCells
        BY <1>2, SectorsCover
      <4>2. a \in 0..Total-1
        BY DEF SectorsOf
      <4> QED
        BY <3>1, <4>1, <4>2
    <3>3. Part.addr = call.addr /\ Part.len = call.len
      <4>1. 1 \in 1..Len(todo) /\ todo[1] = Part
        BY <1>2 DEF Part
      <4> QED
        BY <1>2, <4>1 DEF PlanInv, Fits
    <3> HIDE DEF B
    <3> QED
      BY <1>2, <2>1, <2>7, <2>9, <3>2, <3>3, EraseThrough
  <2>10. CASE End("failed")
    BY <2>1, <2>10, EndFailed
  <2> QED
    BY <2>5, <2>6, <2>8, <2>9, <2>10
<1> QED
  BY <1>10, <1>11, <1>12 DEF EraseSector

(* The last die of a chip, and of the last chip.                           *)
LEMMA LastDie ==
  ASSUME NEW p \in Nat, (p + 1) % NumDie = 0, p \div NumDie \in Chips
  PROVE  LET c == p \div NumDie + 1
         IN c * NumDie = p + 1 /\ (c \notin Chips => \A a \in 0..Total-1 : DieOf(a) < p + 1)
<1> DEFINE n == NumDie
           d == p \div n
           q == (p + 1) \div n
           r == p % n
<1>1. n \in Nat \ {0}
  BY Sizes
<1>2. d \in Int /\ r \in 0..n-1 /\ p = n * d + r
  <2>1. p \in Int
    OBVIOUS
  <2> HIDE DEF n
  <2> QED
    BY <1>1, <2>1, Divide
<1>3. q \in Int /\ p + 1 = n * q
  <2>1. p + 1 \in Int /\ (p + 1) % n = 0
    OBVIOUS
  <2> DEFINE x == p + 1
  <2> HIDE DEF n, x
  <2>2. x \div n \in Int /\ x = n * (x \div n) + (x % n)
    BY <1>1, <2>1, Divide DEF x
  <2> HIDE DEF q
  <2>3. x \div n = q
    BY DEF x, q
  <2>4. n * q \in Int /\ x % n = 0
    BY <1>1, <2>1, <2>2, <2>3 DEF x
  <2> QED
    BY <2>2, <2>3, <2>4 DEF x
<1>4. d \in Nat /\ d \in Chips
  BY DEF Chips
<1> HIDE DEF n, d, q, r
<1>5. q = d + 1
  <2>1. n * (q - d) = n * q - n * d /\ n * q \in Int /\ n * d \in Int
    BY <1>1, <1>2, <1>3
  <2>2. n * (q - d) = r + 1
    BY <1>2, <1>3, <2>1
  <2>3. \A k \in Int : k <= 0 => n * k <= 0
    BY <1>1
  <2>4. \A k \in Int : k >= 2 => n * k >= 2 * n
    BY <1>1
  <2>5. q - d \in Int /\ r + 1 \in 1..n
    BY <1>1, <1>2, <1>3
  <2>6. ~(q - d <= 0) /\ ~(q - d >= 2)
    <3> DEFINE k == q - d
    <3>1. k \in Int /\ n * k = r + 1
      BY <2>2, <2>5
    <3> HIDE DEF k
    <3>2. ~(k <= 0) /\ ~(k >= 2)
      BY <1>1, <2>3, <2>4, <2>5, <3>1
    <3> QED
      BY <3>2 DEF k
  <2> QED
    BY <1>2, <1>3, <2>6
<1>6. (d + 1) * n = p + 1
  BY <1>1, <1>3, <1>4, <1>5
<1>7. d + 1 \notin Chips => \A a \in 0..Total-1 : DieOf(a) < p + 1
  <2> SUFFICES ASSUME d + 1 \notin Chips, NEW a \in 0..Total-1 PROVE DieOf(a) < p + 1
    OBVIOUS
  <2> DEFINE x == DieOf(a)
             b == ChipOf(a)
             s == x % n
  <2>1. x \in Int /\ x \div n = b /\ b \in Chips
    BY DieNumber, OnChip DEF n
  <2>2. s \in 0..n-1 /\ x = n * b + s
    <3> HIDE DEF x, b
    <3> QED
      BY <1>1, <2>1, Divide
  <2>3. b \in Nat /\ b <= d
    BY <1>4, <2>1 DEF Chips
  <2> HIDE DEF x, b, s
  <2>4. n * b <= n * d /\ n * b \in Int /\ n * d \in Int
    <3>1. \A i, j \in Nat : i <= j => n * i <= n * j
      BY <1>1
    <3> QED
      BY <1>1, <1>4, <2>3, <3>1
  <2>5. x < p + 1
    <3>1. n * (d + 1) = n * d + n
      BY <1>1, <1>4
    <3> QED
      BY <1>1, <1>3, <1>5, <2>1, <2>2, <2>4, <3>1
  <2> QED
    BY <2>5 DEF x
<1> QED
  BY <1>6, <1>7 DEF d, n

(* Once a chip is erased, or its erase has failed.                         *)
LEMMA NextChipKeeps ==
  ASSUME CallsFit, PlanInv, Progress, todo # <<>>, Part.do = "erase", Part.len = Total, NextChip,
         UNCHANGED <<call, before, buf>>, count' \in Counts, pos \in Nat, pos \div NumDie \in Chips,
         count'.fault = 0 => /\ AtRest(chip') /\ (pos + 1) % NumDie = 0
                             /\ \A a \in 0..Total-1 : DieOf(a) < pos + 1 => At(mem', a) = Blank
  PROVE  Progress'
<1> DEFINE c == pos \div NumDie + 1
<1>1. CASE c \in Chips
  <2>1. pc' = "wrenDie" /\ pos' = c * NumDie /\ UNCHANGED todo
    BY <1>1 DEF NextChip, Onward
  <2>2. Quietly'
    BY <2>1 DEF Quietly, Careful
  <2>3. SectorsErased'
    BY <2>1 DEF SectorsErased, ErasePcs
  <2>4. count'.fault = 0 => c * NumDie = pos + 1
    BY LastDie
  <2>5. DiesErased'
    BY <2>1, <2>4 DEF DiesErased, Careful
  <2> QED
    BY <2>1, <2>2, <2>3, <2>5, EraseGoesOn DEF DiePcs
<1>2. CASE c \notin Chips
  <2>1. Through
    BY <1>2 DEF NextChip
  <2>2. count'.fault = 0 => \A a \in 0..Total-1 : DieOf(a) < pos + 1
    BY <1>2, LastDie
  <2>3. count'.fault = 0 => \A a \in SectorsOf(call.addr, call.len) : At(mem', a) = Blank
    BY <2>2 DEF SectorsOf
  <2> QED
    BY <2>1, <2>3, EraseThrough
<1> QED
  BY <1>1, <1>2

(* Die by die.                                                             *)
LEMMA EraseDieKeeps ==
  ASSUME CallsFit, DriverInv, Progress, EraseDie
  PROVE  Progress'
<1> DEFINE B(m, n) == \A a \in 0..Total-1 : DieOf(a) < n => At(m, a) = Blank
           dead == count'.fault # 0
<1>1. pc \in DiePcs
  BY DEF EraseDie, Send, Status, DiePcs
<1>2. /\ todo # <<>> /\ Part.do = "erase" /\ Part.len = Total
      /\ pos \in Nat /\ pos \div NumDie \in Chips /\ cs \in Chips /\ PlanInv /\ TypeOK /\ Shapes
  BY <1>1 DEF DriverInv, PlaceInv, TypeOK, DiePcs, SetupPcs, Resting
<1>3. count \in Counts /\ Quietly /\ count.fault \in Nat
  BY DEF Progress, Counts
<1>4. /\ count.fault = 0 => B(mem, pos)
      /\ count.fault = 0 /\ pc = "statusDie" => B(mem, pos + 1)
  <2>1. \A a \in 0..Total-1 : DieOf(a) \in Nat /\ (DieOf(a) < pos + 1 => DieOf(a) < pos \/ DieOf(a) = pos)
    BY <1>2, DieNumber
  <2> QED
    BY <1>1, <2>1 DEF Progress, DiesErased, Careful
<1>5. ASSUME NEW n \in Nat, B(mem, n), \A a \in 0..Total-1 : At(mem, a) = Blank => At(mem', a) = Blank
      PROVE  B(mem', n)
  BY <1>5
<1>6. \A a \in 0..Total-1 : a \in Nat
  OBVIOUS
<1>7. ASSUME UNCHANGED <<call, before, todo, buf>>, count' \in Counts, pc' \in DiePcs, pos' \in Nat,
             dead \/ (Quietly' /\ B(mem', pos') /\ (pc' = "statusDie" => B(mem', pos' + 1)))
      PROVE  Progress'
  <2>1. SectorsErased'
    BY <1>7 DEF SectorsErased, DiePcs, ErasePcs
  <2>2. DiesErased'
    <3>1. \A a \in 0..Total-1 : DieOf(a) \in Nat /\ (DieOf(a) < pos' \/ DieOf(a) = pos' => DieOf(a) < pos' + 1)
      BY <1>7, DieNumber
    <3> QED
      BY <1>7, <3>1 DEF DiesErased, Careful
  <2>3. Quietly'
    BY <1>7 DEF Quietly, Careful, DiePcs
  <2> QED
    BY <1>2, <1>7, <2>1, <2>2, <2>3, EraseGoesOn
<1>8. CASE Send("wrenDie", pos \div NumDie, Plain("wren"), TRUE, "die", NextChip)
  <2> DEFINE c == pos \div NumDie
  <2>1. /\ pc = "wrenDie" /\ cs' = c /\ UNCHANGED <<call, before, buf>> /\ count' \in Counts
        /\ Obey(c, Plain("wren")) \/ UNCHANGED chipVars
    BY <1>3, <1>8 DEF Send, Fails, callVars, Counts
  <2>2. Same /\ (AtRest(chip) => AtRest(chip'))
    BY <1>2, <1>3, <2>1, PlainKeeps DEF Destructive, AtRest
  <2>3. count.fault = 0 => B(mem', pos)
    <3>1. \A a \in 0..Total-1 : At(mem, a) = Blank => At(mem', a) = Blank
      BY <1>6, <2>2 DEF Same
    <3> HIDE DEF B
    <3> QED
      BY <1>2, <1>4, <1>5, <3>1
  <2>4. \/ pc' = "die" /\ UNCHANGED <<pos, todo, count>> /\ Obey(c, Plain("wren"))
        \/ UNCHANGED <<pc, pos, todo>> /\ dead
        \/ NextChip /\ dead
    BY <1>3, <1>8 DEF Send, Fails, Onward, Counts
  <2>5. CASE pc' = "die" /\ UNCHANGED <<pos, todo, count>> /\ Obey(c, Plain("wren"))
    <3>1. count.fault = 0 => AtRest(chip) /\ AtRest(chip')
      BY <1>3, <2>1, <2>2 DEF Quietly, Careful
    <3>2. count.fault = 0 => chip'[c].wel /\ ~chip'[c].busy
      BY <1>2, <2>5, <3>1, ObeyIs DEF Plain, Cmd, AtRest
    <3>3. dead \/ Quietly'
      BY <2>1, <2>5, <3>1, <3>2 DEF Quietly, Careful, AtRest, OthersRest
    <3> HIDE DEF B
    <3> QED
      BY <1>2, <1>7, <2>1, <2>3, <2>5, <3>3 DEF DiePcs
  <2>6. CASE UNCHANGED <<pc, pos, todo>> /\ dead
    <3> HIDE DEF B
    <3> QED
      BY <1>2, <1>7, <2>1, <2>6 DEF DiePcs
  <2>7. CASE NextChip /\ dead
    BY <1>2, <2>1, <2>7, NextChipKeeps
  <2> QED
    BY <2>4, <2>5, <2>6, <2>7
<1>9. CASE Send("die", cs, Cmd("die", pos % NumDie, Blank), TRUE, "statusDie", NextChip)
  <2> DEFINE cmd == Cmd("die", pos % NumDie, Blank)
  <2>1. /\ pc = "die" /\ cs' = cs /\ UNCHANGED <<call, before, buf>> /\ count' \in Counts
        /\ Obey(cs, cmd) \/ UNCHANGED chipVars
    BY <1>3, <1>9 DEF Send, Fails, callVars, Counts
  <2>2. cmd.do = "die" /\ cmd.at = (pos % NumDie) % ChipCells /\ chip[cs].four
    BY <1>2, <2>1 DEF Cmd, DriverInv, FourBytes, SetupPcs
  <2>3. \/ pc' = "statusDie" /\ UNCHANGED <<pos, todo, count>> /\ Obey(cs, cmd)
        \/ UNCHANGED <<pc, pos, todo>> /\ dead
        \/ NextChip /\ dead
    BY <1>3, <1>9 DEF Send, Fails, Onward, Counts
  <2>4. CASE pc' = "statusDie" /\ UNCHANGED <<pos, todo, count>> /\ Obey(cs, cmd)
    <3>1. count.fault = 0 => OthersRest /\ cs = pos \div NumDie /\ chip[cs].wel /\ ~chip[cs].busy
      BY <1>3, <2>1 DEF Quietly, Careful
    <3>2. \A k \in Chips \ {cs} : chip'[k] = chip[k]
      <4> HIDE DEF cmd
      <4> QED
        BY <1>2, <2>4, ObeyIs
    <3>3. dead \/ Quietly'
      BY <2>1, <2>4, <3>1, <3>2 DEF Quietly, Careful, OthersRest
    <3>4. \A a \in 0..Total-1 : At(mem, a) = Blank => At(mem', a) = Blank
      <4> HIDE DEF cmd
      <4> QED
        BY <1>2, <2>2, <2>4, BlankStays
    <3>5. count.fault = 0 => B(mem', pos)
      <4> HIDE DEF B
      <4> QED
        BY <1>2, <1>4, <1>5, <3>4
    <3>6. ASSUME count.fault = 0, NEW a \in 0..Total-1, DieOf(a) = pos PROVE At(mem', a) = Blank
      <4>1. ChipOf(a) = cs /\ (a % ChipCells) \div (ChipCells \div NumDie) = cmd.at
        BY <2>2, <3>1, <3>6, DieNumber
      <4>2. a % ChipCells \in Cells(cs, cmd)
        BY <2>2, <4>1, OnChip DEF Cells
      <4> HIDE DEF cmd
      <4> QED
        BY <1>2, <2>2, <2>4, <3>1, <3>6, <4>1, <4>2, ObeyDoes
    <3>7. count.fault = 0 => B(mem', pos + 1)
      <4>1. \A a \in 0..Total-1 : DieOf(a) < pos + 1 => DieOf(a) < pos \/ DieOf(a) = pos
        BY <1>2, DieNumber
      <4> QED
        BY <3>5, <3>6, <4>1
    <3> HIDE DEF B
    <3> QED
      BY <1>2, <1>7, <2>1, <2>4, <3>3, <3>5, <3>7 DEF DiePcs
  <2>5. CASE UNCHANGED <<pc, pos, todo>> /\ dead
    <3> HIDE DEF B
    <3> QED
      BY <1>2, <1>7, <2>1, <2>5 DEF DiePcs
  <2>6. CASE NextChip /\ dead
    BY <1>2, <2>1, <2>6, NextChipKeeps
  <2> QED
    BY <2>3, <2>4, <2>5, <2>6
<1>10. CASE Status("statusDie", TRUE,
                  IF (pos + 1) % NumDie # 0 THEN Onward("wrenDie", pos + 1) ELSE NextChip,
                  NextChip)
  <2>1. /\ pc = "statusDie" /\ cs' = cs /\ UNCHANGED <<call, before, buf>> /\ count' \in Counts
    BY <1>3, <1>10 DEF Status, Fails, callVars, Counts
  <2>2. \/ UNCHANGED <<mem, chip, pc, pos, todo, count>>
        \/ /\ UNCHANGED <<mem, chip, todo, count>> /\ ~chip[cs].busy
           /\ (pos + 1) % NumDie # 0 /\ pc' = "wrenDie" /\ pos' = pos + 1
        \/ UNCHANGED <<mem, chip, count>> /\ ~chip[cs].busy /\ (pos + 1) % NumDie = 0 /\ NextChip
        \/ UNCHANGED <<pc, pos, todo>> /\ dead
        \/ NextChip /\ dead
    BY <1>3, <1>10 DEF Status, Fails, Onward, Counts, chipVars
  <2>3. count.fault = 0 => OthersRest
    BY <1>3, <2>1 DEF Quietly, Careful
  <2>4. count.fault = 0 => B(mem, pos) /\ B(mem, pos + 1)
    BY <1>4, <2>1
  <2>5. CASE UNCHANGED <<mem, chip, pc, pos, todo, count>>
    <3>1. Quietly'
      BY <1>3, <2>1, <2>5 DEF Quietly, Careful, AtRest, OthersRest
    <3> HIDE DEF B
    <3> QED
      BY <1>2, <1>7, <2>1, <2>4, <2>5, <3>1 DEF DiePcs
  <2>6. CASE /\ UNCHANGED <<mem, chip, todo, count>> /\ ~chip[cs].busy
             /\ (pos + 1) % NumDie # 0 /\ pc' = "wrenDie" /\ pos' = pos + 1
    <3>1. dead \/ Quietly'
      BY <2>1, <2>3, <2>6 DEF Quietly, Careful, AtRest, OthersRest
    <3> HIDE DEF B
    <3> QED
      BY <1>2, <1>7, <2>1, <2>4, <2>6, <3>1 DEF DiePcs
  <2>7. CASE UNCHANGED <<mem, chip, count>> /\ ~chip[cs].busy /\ (pos + 1) % NumDie = 0 /\ NextChip
    <3>1. count.fault = 0 => AtRest(chip')
      BY <2>3, <2>7 DEF AtRest, OthersRest
    <3> QED
      BY <1>2, <2>1, <2>4, <2>7, <3>1, NextChipKeeps
  <2>8. CASE UNCHANGED <<pc, pos, todo>> /\ dead
    <3> HIDE DEF B
    <3> QED
      BY <1>2, <1>7, <2>1, <2>8 DEF DiePcs
  <2>9. CASE NextChip /\ dead
    BY <1>2, <2>1, <2>9, NextChipKeeps
  <2> QED
    BY <2>2, <2>5, <2>6, <2>7, <2>8, <2>9
<1> QED
  BY <1>8, <1>9, <1>10 DEF EraseDie

-----------------------------------------------------------------------------
(* The part of its call the driver is at.                                  *)
LEMMA PartIs ==
  ASSUME Planned, todo \in Seq(Parts), todo # <<>>
  PROVE  /\ call \in Calls /\ Len(todo) \in Nat \ {0} /\ Part \in Parts
         /\ PartNo = Len(Plan(call)) - Len(todo) + 1 /\ PartNo \in 1..Len(Plan(call))
         /\ Part = Plan(call)[PartNo]
<1>1. Part = todo[1] /\ Len(todo) \in Nat \ {0} /\ 1 \in 1..Len(todo) /\ Part \in Parts
  BY DEF Part
<1> QED
  BY <1>1 DEF Planned, PartNo

LEMMA OnlyPart ==
  ASSUME Planned, todo \in Seq(Parts), todo # <<>>
  PROVE  /\ call.kind = "read" => Part = Sub("read", call.addr, call.len, "none") /\ Len(todo) = 1
         /\ call.kind = "erase" => Part = Sub("erase", call.addr, call.len, "none") /\ Len(todo) = 1
         /\ call.kind = "write" => Part = Sub("write", call.addr, call.len, "host") /\ Len(todo) = 1
<1>1. /\ call \in Calls /\ Len(todo) \in Nat \ {0} /\ PartNo = Len(Plan(call)) - Len(todo) + 1
      /\ PartNo \in 1..Len(Plan(call)) /\ Part = Plan(call)[PartNo]
  BY PartIs
<1>2. ASSUME NEW p, Plan(call) = <<p>> PROVE Part = p /\ Len(todo) = 1
  <2>1. Len(Plan(call)) = 1 /\ Plan(call)[1] = p
    BY <1>2
  <2>2. PartNo \in 1..1
    BY <1>1, <2>1
  <2>3. PartNo = 1
    BY <2>2
  <2>4. Part = p
    BY <1>1, <2>1, <2>3
  <2>5. 1 = 1 - Len(todo) + 1
    BY <1>1, <2>1, <2>3
  <2>6. Len(todo) = 1
    <3> DEFINE n == Len(todo)
    <3>1. n \in Nat /\ 1 = 1 - n + 1
      BY <1>1, <2>5
    <3> HIDE DEF n
    <3>2. n = 1
      BY <3>1
    <3> QED
      BY <3>2 DEF n
  <2> QED
    BY <2>4, <2>6
<1> QED
  BY <1>1, <1>2, PlanShape

LEMMA CopyPart ==
  ASSUME Planned, todo \in Seq(Parts), todo # <<>>, call.kind = "copy"
  PROVE  /\ Page \in Nat /\ Page <= call.len \div PageCells /\ call.len \div PageCells \in Nat
         /\ PartNo % 2 = 1 => /\ Part = Sub("read", call.addr + Page * PageCells, PageCells, "none")
                              /\ Len(todo) > 1 /\ (PartNo + 1) % 2 = 0 /\ PartNo \div 2 = Page
                              /\ Plan(call)[PartNo + 1] = Sub("write", call.tgt + Page * PageCells, PageCells, "buf")
         /\ PartNo % 2 = 0 => /\ Part = Sub("write", call.tgt + Page * PageCells, PageCells, "buf")
                              /\ Len(todo) = 1 <=> Page = call.len \div PageCells
                              /\ PartNo \div 2 = Page + 1
                              /\ Len(todo) > 1 => Plan(call)[PartNo + 1].do = "read"
<1> DEFINE m == call.len \div PageCells
           p == Plan(call)
           k == PartNo
           n == Len(todo)
<1>1. /\ call \in Calls /\ n \in Nat \ {0} /\ k = Len(p) - n + 1
      /\ k \in 1..Len(p) /\ Part = p[k]
  BY PartIs
<1>2. /\ m \in Nat /\ Len(p) = 2 * (m + 1)
      /\ \A i \in 1..Len(p) :
           p[i] = IF i % 2 = 1 THEN Sub("read", call.addr + ((i - 1) \div 2) * PageCells, PageCells, "none")
                               ELSE Sub("write", call.tgt + ((i - 1) \div 2) * PageCells, PageCells, "buf")
  BY <1>1, CopyShape
<1>3. Page = (k - 1) \div 2
  BY DEF Page
<1> DEFINE Place ==
      /\ Page \in Nat /\ Page <= m
      /\ k % 2 = 1 => /\ Part = Sub("read", call.addr + Page * PageCells, PageCells, "none")
                      /\ n > 1 /\ (k + 1) % 2 = 0 /\ k \div 2 = Page
                      /\ p[k + 1] = Sub("write", call.tgt + Page * PageCells, PageCells, "buf")
      /\ k % 2 = 0 => /\ Part = Sub("write", call.tgt + Page * PageCells, PageCells, "buf")
                      /\ n = 1 <=> Page = m
                      /\ k \div 2 = Page + 1
                      /\ n > 1 => p[k + 1].do = "read"
<1> HIDE DEF m, p, k, n
<1>4. k \in Nat \ {0} /\ k <= 2 * (m + 1) /\ k % 2 \in {0, 1} /\ n = 2 * (m + 1) + 1 - k
  BY <1>1, <1>2
<1>5. ASSUME k % 2 = 1 PROVE Place
  <2>1. PICK h \in Nat : k = 2 * h + 1 /\ h <= m
    <3>1. k = 2 * (k \div 2) + 1 /\ k \div 2 \in Nat
      BY <1>4, <1>5
    <3> QED
      BY <1>2, <1>4, <3>1
  <2>2. (k - 1) \div 2 = h /\ (k + 1) % 2 = 0 /\ k \div 2 = h /\ (k + 1 - 1) \div 2 = h
    BY <2>1
  <2>3. n > 1 /\ k + 1 \in 1..Len(p)
    BY <1>2, <1>4, <2>1
  <2>4. p[k] = Sub("read", call.addr + h * PageCells, PageCells, "none")
    BY <1>1, <1>2, <1>5, <2>2
  <2>5. p[k + 1] = Sub("write", call.tgt + h * PageCells, PageCells, "buf")
    <3> DEFINE i == k + 1
    <3>1. i \in 1..Len(p)
      BY <2>3
    <3>2. i % 2 # 1 /\ (i - 1) \div 2 = h
      <4> USE <2>1
      <4>1. i = 2 * (h + 1) /\ i - 1 = 2 * h + 1
        OBVIOUS
      <4> HIDE DEF i
      <4> QED
        BY <4>1
    <3> HIDE DEF i
    <3>3. p[i] = Sub("write", call.tgt + h * PageCells, PageCells, "buf")
      BY <1>2, <3>1, <3>2
    <3> QED
      BY <3>3 DEF i
  <2>6. Page = h
    BY <1>3, <2>2
  <2> QED
    BY <1>1, <1>5, <2>1, <2>2, <2>3, <2>4, <2>5, <2>6
<1>6. ASSUME k % 2 = 0 PROVE Place
  <2>1. PICK h \in Nat : k = 2 * h + 2 /\ h <= m
    <3>1. k = 2 * (k \div 2) /\ k \div 2 \in Nat \ {0}
      BY <1>4, <1>6
    <3>2. k = 2 * ((k \div 2) - 1) + 2 /\ (k \div 2) - 1 \in Nat
      BY <3>1
    <3> QED
      <4> DEFINE h == (k \div 2) - 1
      <4>1. h \in Nat /\ k = 2 * h + 2
        BY <3>2
      <4> HIDE DEF h
      <4>2. h <= m
        BY <1>2, <1>4, <4>1
      <4> QED
        BY <4>1, <4>2
  <2>2. (k - 1) \div 2 = h /\ (k + 1) % 2 = 1 /\ k \div 2 = h + 1
    BY <2>1
  <2>3. n = 1 <=> h = m
    BY <1>2, <1>4, <2>1
  <2>4. p[k] = Sub("write", call.tgt + h * PageCells, PageCells, "buf")
    BY <1>1, <1>2, <1>6, <2>2
  <2>5. n > 1 => p[k + 1].do = "read"
    <3> SUFFICES ASSUME n > 1 PROVE p[k + 1].do = "read"
      OBVIOUS
    <3>1. k + 1 \in 1..Len(p)
      BY <1>1, <1>2, <1>4
    <3> QED
      BY <1>2, <2>2, <3>1 DEF Sub
  <2>6. Page = h
    BY <1>3, <2>2
  <2> QED
    BY <1>1, <1>6, <2>1, <2>2, <2>3, <2>4, <2>5, <2>6
<1>7. Place
  BY <1>4, <1>5, <1>6
<1> QED
  BY <1>2, <1>7 DEF m, p, k, n

LEMMA SafePart ==
  ASSUME Planned, todo \in Seq(Parts), todo # <<>>, call.kind = "safe"
  PROVE  LET r == Sub("read", LastSector, SectorCells, "none")
             e == Sub("erase", call.addr, call.len, "none")
             w == Sub("write", call.addr, call.len, "host")
             m == Sub("write", LastSector, SectorCells, "merged")
         IN /\ Part \in {r, e, w, m}
            /\ call.len % SectorCells = 0 => /\ Part \in {e, w}
                                             /\ Part = w => Len(todo) = 1
            /\ call.len % SectorCells # 0 =>
                 /\ Part = r => Len(todo) > 1 /\ Plan(call)[PartNo + 1] = e
                 /\ Part = w => Len(todo) > 1 /\ Plan(call)[PartNo + 1] = m
                 /\ Part = m => Len(todo) = 1
<1> DEFINE r == Sub("read", LastSector, SectorCells, "none")
           e == Sub("erase", call.addr, call.len, "none")
           w == Sub("write", call.addr, call.len, "host")
           m == Sub("write", LastSector, SectorCells, "merged")
<1>1. /\ call \in Calls /\ Len(todo) \in Nat \ {0} /\ PartNo = Len(Plan(call)) - Len(todo) + 1
      /\ PartNo \in 1..Len(Plan(call)) /\ Part = Plan(call)[PartNo]
  BY PartIs
<1>2. /\ call.len % SectorCells = 0 => Plan(call) = <<e, w>>
      /\ call.len % SectorCells # 0 => Plan(call) = <<r, e, w, m>>
  BY <1>1, SafeShape DEF LastSector
<1>3. /\ r.do = "read" /\ e.do = "erase" /\ w.do = "write" /\ m.do = "write"
      /\ w.from = "host" /\ m.from = "merged"
  BY DEF Sub
<1> HIDE DEF r, e, w, m
<1>4. r # e /\ r # w /\ r # m /\ e # w /\ e # m /\ w # m
  BY <1>3
<1>5. CASE call.len % SectorCells = 0
  <2>1. Len(Plan(call)) = 2 /\ Plan(call)[1] = e /\ Plan(call)[2] = w
    BY <1>2, <1>5
  <2>2. PartNo \in 1..2 /\ Len(todo) = 3 - PartNo
    BY <1>1, <2>1
  <2>3. Part \in {r, e, w, m} /\ Part \in {e, w} /\ (Part = w => Len(todo) = 1)
    <3>1. CASE PartNo = 1
      BY <1>1, <1>4, <2>1, <2>2, <3>1
    <3>2. CASE PartNo = 2
      BY <1>1, <1>4, <2>1, <2>2, <3>2
    <3> QED
      BY <2>2, <3>1, <3>2
  <2> QED
    BY <1>5, <2>3 DEF r, e, w, m
<1>6. CASE call.len % SectorCells # 0
  <2>1. /\ Len(Plan(call)) = 4 /\ Plan(call)[1] = r /\ Plan(call)[2] = e
        /\ Plan(call)[3] = w /\ Plan(call)[4] = m
    BY <1>2, <1>6
  <2>2. PartNo \in 1..4 /\ Len(todo) = 5 - PartNo
    BY <1>1, <2>1
  <2>3. /\ Part \in {r, e, w, m}
        /\ Part = r => Len(todo) > 1 /\ Plan(call)[PartNo + 1] = e
        /\ Part = w => Len(todo) > 1 /\ Plan(call)[PartNo + 1] = m
        /\ Part = m => Len(todo) = 1
    <3>1. CASE PartNo = 1
      BY <1>1, <1>4, <2>1, <2>2, <3>1
    <3>2. CASE PartNo = 2
      BY <1>1, <1>4, <2>1, <2>2, <3>2
    <3>3. CASE PartNo = 3
      BY <1>1, <1>4, <2>1, <2>2, <3>3
    <3>4. CASE PartNo = 4
      BY <1>1, <1>4, <2>1, <2>2, <3>4
    <3> QED
      BY <2>2, <3>1, <3>2, <3>3, <3>4
  <2> QED
    BY <1>6, <2>3 DEF r, e, w, m
<1> QED
  BY <1>5, <1>6

-----------------------------------------------------------------------------
(* Writing                                                                 *)

(* A program touches one cell of the flash.                                *)
LEMMA OneCell ==
  ASSUME Shapes, NEW c \in Chips, NEW x \in Nat, c = ChipOf(x), NEW data, Obey(c, Cmd("program", x, data)),
         chip[c].four, chip[c].wel, ~chip[c].busy
  PROVE  \A a \in 0..Total-1 :
           At(mem', a) = IF a = x % Total THEN Program(At(mem, a), data) ELSE At(mem, a)
<1> TAKE a \in 0..Total-1
<1> DEFINE cmd == Cmd("program", x, data)
<1>1. cmd.do = "program" /\ cmd.at = x % ChipCells /\ cmd.data = data /\ Cells(c, cmd) = {x % ChipCells}
  BY DEF Cmd, Cells
<1>2. a \in Nat /\ a % Total = a
  BY OnChip
<1> HIDE DEF cmd
<1>3. CASE a = x % Total
  <2>1. x % Total = a % Total
    BY <1>2, <1>3
  <2>2. ChipOf(a) = c /\ a % ChipCells = x % ChipCells
    <3> DEFINE b == ChipOf(a)
               e == ChipOf(x)
               u == a % ChipCells
               v == x % ChipCells
    <3>1. /\ b \in {0, 1} /\ e \in {0, 1} /\ u \in 0..ChipCells-1 /\ v \in 0..ChipCells-1
          /\ a = ChipCells * b + u /\ a = ChipCells * e + v
      BY <1>2, <1>3, Located DEF Chips
    <3>2. ChipCells * 0 = 0 /\ ChipCells * 1 = ChipCells /\ ChipCells \in Nat \ {0}
      BY Sizes
    <3> HIDE DEF b, e, u, v
    <3>3. b = e /\ u = v
      BY <3>1, <3>2
    <3> QED
      BY <3>3 DEF b, e, u, v
  <2> QED
    BY <1>1, <1>3, <2>2, ObeyDoes DEF cmd
<1>4. CASE a # x % Total
  <2>1. ChipOf(a) # c \/ a % ChipCells \notin Cells(c, cmd)
    BY <1>1, <1>4, SameCell
  <2> QED
    BY <1>2, <1>4, <2>1, ObeyCells DEF cmd
<1> QED
  BY <1>3, <1>4

(* One cell more of what a write has to do is done.                        *)
CellDone(w) ==
  /\ pos = w /\ w < PageCount(Part) * PageCells
  /\ \A a \in 0..Total-1 :
       At(mem', a) = IF a = (Part.addr + w) % Total THEN Program(At(mem, a), Data(Part, w)) ELSE At(mem, a)
  /\ UNCHANGED <<call, before, todo, buf, count>>

LEMMA WriteCell ==
  ASSUME CallsFit, Planned, todo \in Seq(Parts), todo # <<>>, call.kind = "write",
         NEW w \in Nat, CellDone(w), WriteSoFar(w)
  PROVE  WriteSoFar(w + 1)'
<1>1. Part = Sub("write", call.addr, call.len, "host") /\ call \in Calls
  BY OnlyPart, PartIs
<1>2. call.addr \in Nat /\ call.len \in Nat \ {0}
  BY <1>1, CallType
<1>3. call.addr + w \in 0..Total-1 /\ (call.addr + w) % Total = call.addr + w
  <2>1. call.addr + PageCount(call) * PageCells <= Total
    BY <1>1 DEF CallsFit
  <2>2. PageCount(Part) = PageCount(call)
    BY <1>1 DEF PageCount, Sub
  <2>3. PageCount(call) * PageCells \in Nat
    BY <1>2, Pages
  <2>4. call.addr + w \in 0..Total-1
    BY <1>2, <2>1, <2>2, <2>3, Sizes DEF CellDone
  <2> QED
    BY <2>4, OnChip
<1>4. Part.addr = call.addr /\ Data(Part, w) = IF w < call.len THEN Host(w) ELSE Beyond
  BY <1>1 DEF Sub, Data
<1> SUFFICES ASSUME WasBlank(call.addr, call.len), count.lost = 0, NEW i \in 0..call.len-1
             PROVE  At(mem', call.addr + i) = IF i < w + 1 THEN Host(i) ELSE Blank
  <2>1. WasBlank(call.addr, call.len)' = WasBlank(call.addr, call.len) /\ call' = call /\ count' = count
    BY DEF CellDone, WasBlank, Was
  <2> QED
    BY <2>1 DEF WriteSoFar
<1>5. At(mem, call.addr + i) = IF i < w THEN Host(i) ELSE Blank
  BY DEF WriteSoFar
<1>6. call.addr + i \in 0..Total-1
  BY <1>1, CallRange
<1>7. At(mem', call.addr + i) = IF i = w THEN Program(At(mem, call.addr + i), Host(i)) ELSE At(mem, call.addr + i)
  <2>1. call.addr + i = call.addr + w <=> i = w
    BY <1>2
  <2>2. i = w => w < call.len
    BY <1>2
  <2>3. At(mem', call.addr + i) = IF call.addr + i = call.addr + w
                                  THEN Program(At(mem, call.addr + i), Data(Part, w)) ELSE At(mem, call.addr + i)
    BY <1>3, <1>4, <1>6 DEF CellDone
  <2> QED
    BY <1>4, <2>1, <2>2, <2>3
<1>8. Program(Blank, Host(i)) = Host(i)
  BY DEF Program
<1>9. i \in Int /\ w \in Int
  BY <1>2
<1> QED
  BY <1>5, <1>7, <1>8, <1>9

LEMMA CopyCell ==
  ASSUME CallsFit, Planned, todo \in Seq(Parts), todo # <<>>, call.kind = "copy", Part.do = "write",
         NEW w \in Nat, CellDone(w), CopySoFar(w)
  PROVE  CopySoFar(w + 1)'
<1> DEFINE g == Page * PageCells
<1>1. /\ call \in Calls /\ Page \in Nat /\ Page <= call.len \div PageCells /\ call.len \div PageCells \in Nat
      /\ Part = Sub("write", call.tgt + Page * PageCells, PageCells, "buf")
  BY CopyPart, PartIs DEF Sub
<1>2. /\ call.addr \in Nat /\ call.len \in Nat \ {0} /\ call.tgt \in Nat
      /\ PageCells \in Nat \ {0} /\ Total \in Nat \ {0}
  BY <1>1, CallType, Sizes
<1>3. w < PageCells
  <2>1. Part.len = PageCells * 1
    BY <1>1, <1>2 DEF Sub
  <2>2. PageCount(Part) * PageCells = Part.len
    BY <2>1, WholePages
  <2> QED
    BY <1>2, <2>1, <2>2 DEF CellDone
<1>4. g \in Nat /\ g + PageCells <= CopyCells(call)
  <2> DEFINE m == call.len \div PageCells
             p == Page
  <2>1. m \in Nat /\ p \in Nat /\ p <= m
    BY <1>1
  <2>2. CopyCells(call) = (m + 1) * PageCells
    BY DEF CopyCells
  <2>3. \A i, j \in Nat : i <= j => i * PageCells <= j * PageCells /\ i * PageCells \in Nat
    BY <1>2
  <2> HIDE DEF m, p
  <2>4. (p + 1) * PageCells <= (m + 1) * PageCells /\ (p + 1) * PageCells = p * PageCells + PageCells
    BY <1>2, <2>1, <2>3
  <2>5. p * PageCells \in Nat
    BY <2>1, <2>3
  <2> QED
    BY <2>2, <2>4, <2>5 DEF p
<1>5. \A i \in 0..CopyCells(call)-1 : call.tgt + i \in 0..Total-1
  BY <1>1, CallRange
<1>6. CopyCells(call) \in Nat /\ call.len < CopyCells(call)
  BY <1>1, CallRange
<1>7. buf = [i \in 1..PageCells |-> At(before, call.addr + g + i - 1)]
  BY DEF CopySoFar
<1> HIDE DEF g
<1>8. Part.addr = call.tgt + g /\ Data(Part, w) = At(before, call.addr + g + (w + 1) - 1)
  <2>1. Part.addr = call.tgt + g /\ Part.from = "buf"
    BY <1>1 DEF Sub, g
  <2>2. Data(Part, w) = buf[w + 1]
    BY <2>1 DEF Data
  <2>3. w + 1 \in 1..PageCells
    BY <1>2, <1>3
  <2> QED
    BY <1>7, <2>1, <2>2, <2>3
<1>9. call.tgt + g + w \in 0..Total-1 /\ (call.tgt + g + w) % Total = call.tgt + g + w
  <2>1. g + w \in 0..CopyCells(call)-1
    BY <1>2, <1>3, <1>4, <1>6
  <2>2. call.tgt + (g + w) \in 0..Total-1
    BY <1>5, <2>1
  <2>3. call.tgt + (g + w) = call.tgt + g + w
    BY <1>2, <1>4
  <2>4. call.tgt + g + w \in 0..Total-1
    BY <2>2, <2>3
  <2> QED
    BY <2>4, OnChip
<1>10. /\ Page' = Page /\ Part' = Part /\ call' = call /\ before' = before /\ buf' = buf /\ count' = count
       /\ WasBlank(call.tgt, call.len)' = WasBlank(call.tgt, call.len)
  BY DEF CellDone, Page, PartNo, Part, WasBlank, Was
<1>11. ASSUME WasBlank(call.tgt, call.len), count.lost = 0, NEW i \in 0..call.len-1
       PROVE  At(mem', call.tgt + i) = IF i < g + (w + 1) THEN At(before, call.addr + i) ELSE Blank
  <2>1. At(mem, call.tgt + i) = IF i < g + w THEN At(before, call.addr + i) ELSE Blank
    BY <1>11 DEF CopySoFar, g
  <2>2. call.tgt + i \in 0..Total-1
    <3>1. i \in 0..CopyCells(call)-1
      BY <1>2, <1>6
    <3> QED
      BY <1>5, <3>1
  <2>3. At(mem', call.tgt + i) = IF call.tgt + i = call.tgt + g + w
                                 THEN Program(At(mem, call.tgt + i), Data(Part, w)) ELSE At(mem, call.tgt + i)
    BY <1>8, <1>9, <2>2 DEF CellDone
  <2>4. Program(Blank, Data(Part, w)) = Data(Part, w)
    BY DEF Program
  <2>5. CASE i = g + w
    <3>1. call.tgt + i = call.tgt + g + w /\ call.addr + g + (w + 1) - 1 = call.addr + i
      BY <1>2, <1>4, <2>5
    <3>2. ~(i < g + w) /\ i < g + (w + 1)
      BY <1>2, <1>4, <2>5
    <3> QED
      BY <1>8, <2>1, <2>3, <2>4, <3>1, <3>2
  <2>6. CASE i # g + w
    <3>1. call.tgt + i # call.tgt + g + w /\ (i < g + w <=> i < g + (w + 1))
      BY <1>2, <1>4, <2>6
    <3> QED
      BY <2>1, <2>3, <3>1
  <2> QED
    BY <2>5, <2>6
<1> QED
  BY <1>7, <1>10, <1>11 DEF CopySoFar, g

(* The sectors of a safe write.                                            *)
LEMMA SafeRange ==
  ASSUME CallsFit, call \in Calls, call.kind = "safe", call.addr % SectorCells = 0
  PROVE  LET over == call.len % SectorCells
         IN /\ call.addr \in Nat /\ call.len \in Nat \ {0} /\ over \in 0..SectorCells-1
            /\ SectorCells \in Nat \ {0} /\ LastSector \in Nat /\ LastSector = call.addr + call.len - over
            /\ call.addr <= LastSector /\ call.addr + call.len <= Total
            /\ over # 0 => LastSector + SectorCells <= Total
<1> DEFINE S == SectorCells
           A == call.addr \div S
           q == call.len \div S
           over == call.len % S
<1>1. call.addr \in Nat /\ call.len \in Nat \ {0} /\ S \in Nat \ {0} /\ call.addr + call.len <= Total
  BY CallType, Sizes DEF CallsFit
<1>2. A \in Int /\ A >= 0 /\ call.addr = S * A
  <2>1. call.addr \in Int /\ call.addr >= 0 /\ call.addr % S = 0
    BY <1>1
  <2> DEFINE x == call.addr
  <2> HIDE DEF S, x
  <2>2. x \div S \in Int /\ x \div S >= 0 /\ x = S * (x \div S) + (x % S)
    BY <1>1, <2>1, Divide DEF x
  <2>3. x % S = 0
    BY <2>1 DEF x
  <2>4. S * (x \div S) \in Int
    BY <1>1, <2>2
  <2> QED
    BY <2>2, <2>3, <2>4 DEF x
<1>3. q \in Int /\ q >= 0 /\ over \in 0..S-1 /\ call.len = S * q + over
  <2>1. call.len \in Int /\ call.len >= 0
    BY <1>1
  <2> HIDE DEF S
  <2> QED
    BY <1>1, <2>1, Divide
<1>4. PICK t \in Nat \ {0} : Total = S * t
  BY WholeSectors
<1>5. LastSector = call.addr + call.len - over
  BY DEF LastSector
<1> HIDE DEF S, A, q, over
<1>6. S * A \in Nat /\ S * q \in Nat /\ S * (A + q) = S * A + S * q /\ S * t \in Nat
  BY <1>1, <1>2, <1>3, <1>4
<1>7. LastSector = S * (A + q) /\ LastSector \in Nat /\ call.addr <= LastSector
  BY <1>1, <1>2, <1>3, <1>5, <1>6
<1>8. ASSUME over # 0 PROVE LastSector + S <= Total
  <2>1. S * (A + q) < S * t
    BY <1>1, <1>3, <1>4, <1>5, <1>6, <1>7, <1>8
  <2>2. A + q < t
    <3> SUFFICES ASSUME A + q >= t PROVE FALSE
      BY <1>2, <1>3
    <3>1. \A i, j \in Int : i >= j => S * i >= S * j
      BY <1>1
    <3> QED
      BY <1>2, <1>3, <1>6, <2>1, <3>1
  <2>3. S * (A + q + 1) <= S * t
    <3>1. \A i, j \in Int : i <= j => S * i <= S * j
      BY <1>1
    <3> QED
      BY <1>2, <1>3, <2>2, <3>1
  <2>4. S * (A + q + 1) = S * (A + q) + S
    BY <1>1, <1>2, <1>3
  <2> QED
    BY <1>1, <1>4, <1>6, <1>7, <2>3, <2>4
<1> QED
  BY <1>1, <1>3, <1>5, <1>7, <1>8 DEF S, over

LEMMA SafeCell ==
  ASSUME CallsFit, Planned, todo \in Seq(Parts), todo # <<>>, call.kind = "safe", Part.do = "write",
         NEW w \in Nat, CellDone(w), SafeSoFar(w)
  PROVE  SafeSoFar(w + 1)'
<1> DEFINE over == call.len % SectorCells
           host == Sub("write", call.addr, call.len, "host")
           merged == Sub("write", LastSector, SectorCells, "merged")
<1>1. /\ Part' = Part /\ call' = call /\ before' = before /\ buf' = buf /\ count' = count
      /\ LastSector' = LastSector /\ \A x : Final(x)' = Final(x)
  BY DEF CellDone, Part, LastSector, Final
<1>2. call \in Calls /\ Part \in {host, merged} /\ (over = 0 => Part = host)
  <2>1. call \in Calls
    BY PartIs
  <2> QED
    BY <2>1, SafePart DEF Sub
<1>a. SUFFICES ASSUME call.addr % SectorCells = 0
              PROVE  /\ over # 0 => buf = [i \in 1..SectorCells |-> At(before, LastSector + i - 1)]
                    /\ call.len % PageCells = 0 /\ count.lost = 0 =>
                         \A x \in SectorsOf(call.addr, call.len) :
                           At(mem', x) = IF x < Reached(w + 1)' THEN Final(x) ELSE Blank
  BY <1>1 DEF SafeSoFar
<1>3. over # 0 => buf = [i \in 1..SectorCells |-> At(before, LastSector + i - 1)]
  BY <1>a DEF SafeSoFar
<1>4. /\ call.addr \in Nat /\ call.len \in Nat \ {0} /\ over \in 0..SectorCells-1
      /\ SectorCells \in Nat \ {0} /\ LastSector \in Nat /\ LastSector = call.addr + call.len - over
      /\ call.addr <= LastSector /\ call.addr + call.len <= Total
      /\ over # 0 => LastSector + SectorCells <= Total
  BY <1>2, <1>a, SafeRange
<1> HIDE DEF over
<1>b. SUFFICES ASSUME call.len % PageCells = 0, count.lost = 0, NEW x \in SectorsOf(call.addr, call.len)
             PROVE  At(mem', x) = IF x < Reached(w + 1)' THEN Final(x) ELSE Blank
  BY <1>3
<1>5. At(mem, x) = IF x < Reached(w) THEN Final(x) ELSE Blank
  BY <1>a, <1>b DEF SafeSoFar
<1>6. x \in 0..Total-1
  BY <1>b DEF SectorsOf
<1>7. Program(Blank, Data(Part, w)) = Data(Part, w) /\ Program(Data(Part, w), Data(Part, w)) = Data(Part, w)
  BY DEF Program
<1>8. CASE Part = host
  <2>1. /\ Part.addr = call.addr /\ Part.len = call.len /\ Part.from = "host"
        /\ Data(Part, w) = IF w < call.len THEN Host(w) ELSE Beyond
    BY <1>8 DEF Sub, Data
  <2>2. w < call.len
    <3>1. PICK k \in Nat \ {0} : call.len = PageCells * k
      <4> DEFINE z == call.len
                 k == z \div PageCells
      <4>1. z \in Int /\ z >= 0 /\ PageCells \in Nat \ {0} /\ z % PageCells = 0 /\ z # 0
        BY <1>4, <1>b, Sizes
      <4> HIDE DEF z
      <4>2. k \in Int /\ k >= 0 /\ z = PageCells * k + (z % PageCells)
        BY <4>1, Divide
      <4> HIDE DEF k
      <4>3. z = PageCells * k /\ PageCells * 0 = 0
        BY <4>1, <4>2
      <4>4. k \in Nat \ {0}
        BY <4>1, <4>2, <4>3
      <4> QED
        BY <4>3, <4>4 DEF z
    <3>2. PageCount(Part) * PageCells = call.len
      BY <2>1, <3>1, WholePages
    <3> QED
      BY <3>2 DEF CellDone
  <2>3. Reached(w) = call.addr + w /\ Reached(w + 1)' = call.addr + (w + 1)
    BY <1>1, <2>1 DEF Reached
  <2>4. (call.addr + w) % Total = call.addr + w
    <3>1. call.addr + w \in 0..Total-1
      <4> DEFINE A == call.addr
                 n == call.len
      <4>1. A \in Nat /\ n \in Nat /\ A + n <= Total /\ w < n /\ Total \in Nat
        BY <1>4, <2>2, Sizes
      <4> HIDE DEF A, n
      <4>2. A + w \in 0..Total-1
        BY <4>1
      <4> QED
        BY <4>2 DEF A
    <3> QED
      BY <3>1, OnChip
  <2>5. At(mem', x) = IF x = call.addr + w THEN Program(At(mem, x), Data(Part, w)) ELSE At(mem, x)
    BY <1>6, <2>1, <2>4 DEF CellDone
  <2>6. CASE x = call.addr + w
    <3>1. x - call.addr = w /\ w \in 0..call.len-1
      <4> DEFINE A == call.addr
                 n == call.len
      <4>1. A \in Nat /\ n \in Nat /\ w < n /\ x = A + w
        BY <1>4, <2>2, <2>6
      <4> HIDE DEF A, n
      <4>2. x - A = w /\ w \in 0..n-1
        BY <4>1
      <4> QED
        BY <4>2 DEF A, n
    <3>2. Final(x) = Host(w)
      BY <3>1 DEF Final
    <3>3. ~(x < call.addr + w) /\ x < call.addr + (w + 1)
      BY <1>4, <2>6
    <3> QED
      BY <1>5, <1>7, <2>1, <2>2, <2>3, <2>5, <2>6, <3>2, <3>3
  <2>7. CASE x # call.addr + w
    <3>1. x < call.addr + w <=> x < call.addr + (w + 1)
      BY <1>4, <1>6, <2>7
    <3> QED
      BY <1>5, <2>3, <2>5, <2>7, <3>1
  <2> QED
    BY <2>6, <2>7
<1>9. CASE Part = merged /\ over # 0
  <2>1. /\ Part.addr = LastSector /\ Part.len = SectorCells /\ Part.from = "merged"
        /\ Data(Part, w) = IF w < over THEN Host(call.len - over + w) ELSE buf[w + 1]
    <3>1. Part.addr = LastSector /\ Part.len = SectorCells /\ Part.from = "merged"
      BY <1>9 DEF Sub
    <3> QED
      BY <3>1 DEF Data, over
  <2>2. w < SectorCells
    <3>1. PICK k \in Nat \ {0} : SectorCells = PageCells * k
      <4> DEFINE z == SectorCells
                 k == z \div PageCells
      <4>1. z \in Int /\ z >= 0 /\ PageCells \in Nat \ {0} /\ z # 0
        BY <1>4, Sizes
      <4>2. z % PageCells = 0
        BY OspiAssumption
      <4> HIDE DEF z
      <4>3. k \in Int /\ k >= 0 /\ z = PageCells * k + (z % PageCells)
        BY <4>1, Divide
      <4> HIDE DEF k
      <4>4. z = PageCells * k /\ PageCells * 0 = 0
        BY <4>1, <4>2, <4>3
      <4>5. k \in Nat \ {0}
        BY <4>1, <4>3, <4>4
      <4> QED
        BY <4>4, <4>5 DEF z
    <3>2. PageCount(Part) * PageCells = SectorCells
      BY <2>1, <3>1, WholePages
    <3> QED
      BY <3>2 DEF CellDone
  <2> DEFINE L == LastSector
             E == call.addr + call.len
  <2>3. /\ Reached(w) = IF L + w < E THEN E ELSE L + w
        /\ Reached(w + 1)' = IF L + (w + 1) < E THEN E ELSE L + (w + 1)
    BY <1>1, <2>1 DEF Reached
  <2>4. (L + w) % Total = L + w
    <3>1. L + w \in 0..Total-1
      <4> DEFINE N == Total
                 S == SectorCells
      <4>1. L \in Nat /\ S \in Nat /\ N \in Nat /\ L + S <= N /\ w \in Nat /\ w < S
        BY <1>4, <1>9, <2>2, Sizes
      <4> HIDE DEF L, N, S
      <4>2. L + w \in 0..N-1
        BY <4>1
      <4> QED
        BY <4>2 DEF N
    <3> QED
      BY <3>1, OnChip
  <2>5. At(mem', x) = IF x = L + w THEN Program(At(mem, x), Data(Part, w)) ELSE At(mem, x)
    BY <1>6, <2>1, <2>4 DEF CellDone
  <2>6. E = L + over /\ L \in Nat /\ E \in Nat /\ x \in Nat
    BY <1>4, <1>6
  <2>7. CASE x = L + w /\ w < over
    <3>1. x - call.addr = call.len - over + w /\ x - call.addr \in 0..call.len-1
      <4> DEFINE A == call.addr
                 n == call.len
      <4>1. A \in Nat /\ n \in Nat /\ over \in Nat /\ A <= A + n - over /\ w < over /\ x = A + n - over + w
        BY <1>4, <2>7
      <4> HIDE DEF A, n, L, E
      <4>2. x - A = n - over + w /\ x - A \in 0..n-1
        BY <4>1
      <4> QED
        BY <4>2 DEF A, n
    <3>2. Final(x) = Data(Part, w)
      BY <2>1, <2>7, <3>1 DEF Final
    <3> HIDE DEF L, E
    <3>3. L + w < E /\ x < E
      <4>1. over \in Nat /\ x = L + w /\ w < over
        BY <1>4, <2>7
      <4> QED
        BY <2>6, <4>1
    <3>4. x < (IF L + (w + 1) < E THEN E ELSE L + (w + 1))
      BY <2>6, <3>3
    <3>5. At(mem, x) = Final(x)
      BY <1>5, <2>3, <3>3
    <3> QED
      BY <1>7, <2>3, <2>5, <2>7, <3>2, <3>4, <3>5
  <2>8. CASE x = L + w /\ ~(w < over)
    <3>1. ~(x - call.addr \in 0..call.len-1)
      <4> DEFINE A == call.addr
                 n == call.len
      <4>1. A \in Nat /\ n \in Nat /\ over \in Nat /\ ~(w < over) /\ x = A + n - over + w
        BY <1>4, <2>8
      <4> HIDE DEF A, n, L, E
      <4>2. ~(x - A \in 0..n-1)
        BY <4>1
      <4> QED
        BY <4>2 DEF A, n
    <3>2. Final(x) = At(before, x)
      BY <3>1 DEF Final
    <3>3. Data(Part, w) = At(before, x)
      <4>1. w + 1 \in 1..SectorCells /\ LastSector + (w + 1) - 1 = x
        BY <1>4, <2>2, <2>8
      <4> QED
        BY <1>3, <1>9, <2>1, <2>8, <4>1
    <3> HIDE DEF L, E
    <3>4. ~(L + w < E) /\ ~(L + (w + 1) < E) /\ ~(x < L + w) /\ x < L + (w + 1)
      BY <1>4, <2>6, <2>8
    <3> QED
      BY <1>5, <1>7, <2>3, <2>5, <2>8, <3>2, <3>3, <3>4
  <2>9. CASE x # L + w
    <3> HIDE DEF L, E
    <3>1. x < (IF L + w < E THEN E ELSE L + w) <=> x < (IF L + (w + 1) < E THEN E ELSE L + (w + 1))
      BY <1>4, <2>6, <2>9
    <3> QED
      BY <1>5, <2>3, <2>5, <2>9, <3>1
  <2> QED
    BY <2>7, <2>8, <2>9
<1> QED
  BY <1>2, <1>8, <1>9

LEMMA CellKeeps ==
  ASSUME CallsFit, Planned, todo \in Seq(Parts), todo # <<>>, Part.do = "write",
         NEW w \in Nat, CellDone(w), Contents(w)
  PROVE  Contents(w + 1)'
<1>1. call' = call
  BY DEF CellDone
<1>2. WriteSoFar(w + 1)'
  <2>1. CASE call.kind = "write"
    BY <2>1, WriteCell DEF Contents
  <2> QED
    BY <1>1, <2>1 DEF WriteSoFar
<1>3. CopySoFar(w + 1)'
  <2>1. CASE call.kind = "copy"
    BY <2>1, CopyCell DEF Contents
  <2> QED
    BY <1>1, <2>1 DEF CopySoFar
<1>4. SafeSoFar(w + 1)'
  <2>1. CASE call.kind = "safe"
    BY <2>1, SafeCell DEF Contents
  <2> QED
    BY <1>1, <2>1 DEF SafeSoFar
<1> QED
  BY <1>2, <1>3, <1>4 DEF Contents

(* Once a program is lost, nothing is promised of the cells written.       *)
LEMMA CellLost ==
  ASSUME Part.do = "write", NEW w, Contents(w), NEW v, UNCHANGED <<call, before, todo, buf>>, count'.lost # 0
  PROVE  Contents(v)'
<1>1. /\ Part' = Part /\ PartNo' = PartNo /\ Page' = Page /\ LastSector' = LastSector
  BY DEF Part, PartNo, Page, LastSector
<1>2. WriteSoFar(v)'
  BY DEF WriteSoFar
<1>3. CopySoFar(v)'
  BY <1>1 DEF CopySoFar, Contents
<1>4. SafeSoFar(v)'
  BY <1>1 DEF SafeSoFar, Contents
<1> QED
  BY <1>2, <1>3, <1>4 DEF Contents

LEMMA WriteGoesOn ==
  ASSUME Planned, UNCHANGED <<call, todo>>, count' \in Counts, pc' \in WritePcs \cup {"verify"},
         Quietly', FirstSeen', NEW w, Contents(w)', Written' = w
  PROVE  Progress'
<1>1. Planned'
  BY PlanStays DEF WritePcs, SetupPcs
<1>2. ReadSoFar' /\ SectorsErased' /\ DiesErased' /\ OkMeansDone'
  BY DEF ReadSoFar, SectorsErased, DiesErased, OkMeansDone, WritePcs, ErasePcs, DiePcs
<1> QED
  BY <1>1, <1>2, WrittenIs DEF Progress

(* Cell by cell.                                                           *)
LEMMA FlashIoWriteKeeps ==
  ASSUME CallsFit, DriverInv, Progress, FlashIoWrite
  PROVE  Progress'
<1> DEFINE n == PageCount(Part) * PageCells
<1>1. pc \in WritePcs
  BY DEF FlashIoWrite, Send, Status, WritePcs
<1>2. /\ todo # <<>> /\ Part.do = "write" /\ pos \in 0..n-1 /\ n \in Nat \ {0}
      /\ pos \in Nat /\ Part.addr \in Nat /\ Part.addr + pos \in Nat /\ todo \in Seq(Parts)
      /\ TypeOK /\ Shapes /\ cs \in Chips
  <2>1. todo # <<>> /\ todo \in Seq(Parts) /\ TypeOK /\ Shapes /\ cs \in Chips
    BY <1>1 DEF DriverInv, PlaceInv, PlanInv, TypeOK, WritePcs, SetupPcs, Resting
  <2>2. Part \in Parts
    BY <2>1 DEF Part
  <2>3. Part.addr \in Nat /\ Part.len \in Nat \ {0}
    BY <2>2 DEF Parts
  <2>4. n \in Nat \ {0}
    BY <2>3, Pages
  <2>5. Part.do = "write" /\ pos \in 0..n-1
    BY <1>1 DEF DriverInv, PlaceInv
  <2> QED
    BY <2>1, <2>3, <2>4, <2>5
<1>3. ChipOf(Part.addr + pos) \in Chips
  BY <1>2, Located
<1>4. count \in Counts /\ Planned /\ Quietly /\ Contents(Written) /\ count.lost \in Nat /\ call \in Calls
  BY <1>2, PartIs DEF Progress, Counts
<1> PICK w \in Nat : w = pos
  BY <1>2
<1> HIDE DEF n
<1>5. CASE Send("wrenWrite", ChipOf(Part.addr + pos), Plain("wren"), FALSE, "program", End("failed"))
  <2> DEFINE c == ChipOf(Part.addr + pos)
  <2>1. pc = "wrenWrite"
    BY <1>5 DEF Send
  <2>2. \/ /\ cs' = c /\ Obey(c, Plain("wren")) /\ pc' = "program"
           /\ UNCHANGED <<pos, todo, call, before, buf, count>>
        \/ End("failed") /\ count' \in Counts
    BY <1>4, <1>5 DEF Send, Fails, Onward, callVars, Counts
  <2>3. CASE /\ cs' = c /\ Obey(c, Plain("wren")) /\ pc' = "program"
             /\ UNCHANGED <<pos, todo, call, before, buf, count>>
    <3>1. AtRest(chip)
      BY <1>4, <2>1 DEF Quietly
    <3>2. Same /\ AtRest(chip')
      BY <1>2, <1>3, <2>3, <3>1, PlainKeeps DEF Destructive, AtRest
    <3>3. chip'[c].wel
      BY <1>2, <1>3, <2>3, <3>1, ObeyIs DEF Plain, Cmd, AtRest
    <3>4. Quietly' /\ FirstSeen' /\ Written' = w
      BY <2>3, <3>2, <3>3 DEF Quietly, FirstSeen, Written
    <3>5. Contents(w)
      BY <1>4, <2>1 DEF Written
    <3>6. Contents(w)'
      BY <1>2, <1>4, <2>3, <3>2, <3>5, ContentsStay
    <3> QED
      BY <1>4, <2>3, <3>4, <3>6, WriteGoesOn DEF WritePcs
  <2> QED
    BY <2>2, <2>3, EndFailed
<1>6. CASE Send("program", cs, Cmd("program", Part.addr + pos, Data(Part, pos)), FALSE, "statusWrite", End("failed"))
  <2> DEFINE cmd == Cmd("program", Part.addr + pos, Data(Part, pos))
  <2>1. pc = "program"
    BY <1>6 DEF Send
  <2>2. \/ /\ cs' = cs /\ Obey(cs, cmd) /\ pc' = "statusWrite"
           /\ UNCHANGED <<pos, todo, call, before, buf, count>>
        \/ End("failed") /\ count' \in Counts
    BY <1>4, <1>6 DEF Send, Fails, Onward, callVars, Counts
  <2>3. CASE /\ cs' = cs /\ Obey(cs, cmd) /\ pc' = "statusWrite"
             /\ UNCHANGED <<pos, todo, call, before, buf, count>>
    <3>1. AtRest(chip) /\ chip[cs].wel /\ ~chip[cs].busy
      BY <1>2, <1>4, <2>1 DEF Quietly, AtRest
    <3>2. cs = ChipOf(Part.addr + pos) /\ chip[cs].four
      BY <1>2, <2>1 DEF DriverInv, PlaceInv, FourBytes, SetupPcs
    <3>3. \A k \in Chips \ {cs} : chip'[k] = chip[k]
      <4> HIDE DEF cmd
      <4> QED
        BY <1>2, <2>3, ObeyIs
    <3>4. OthersRest'
      BY <2>3, <3>1, <3>3 DEF OthersRest, AtRest
    <3>5. Quietly' /\ FirstSeen' /\ Written' = w + 1
      BY <2>3, <3>4 DEF Quietly, FirstSeen, Written
    <3>6. \A a \in 0..Total-1 :
            At(mem', a) = IF a = (Part.addr + pos) % Total THEN Program(At(mem, a), Data(Part, pos)) ELSE At(mem, a)
      BY <1>2, <2>3, <3>1, <3>2, OneCell
    <3>7. CellDone(w)
      BY <1>2, <2>3, <3>6 DEF CellDone, n
    <3>8. Contents(w)
      BY <1>4, <2>1 DEF Written
    <3>9. Contents(w + 1)'
      BY <1>2, <1>4, <3>7, <3>8, CellKeeps
    <3> QED
      BY <1>4, <2>3, <3>5, <3>9, WriteGoesOn DEF WritePcs
  <2> QED
    BY <2>2, <2>3, EndFailed
<1>7. CASE /\ pc = "program" /\ count.lost < MaxLost
           /\ count' = [count EXCEPT !.lost = @ + 1]
           /\ chip' = [chip EXCEPT ![cs].wel = FALSE]
           /\ Onward("statusWrite", pos)
           /\ UNCHANGED <<mem, cs, callVars, buf, tries>>
  <2>1. pc' = "statusWrite" /\ UNCHANGED <<cs, pos, todo, call, before, buf>>
    BY <1>7 DEF Onward, callVars
  <2>2. count' \in Counts /\ count'.lost # 0
    BY <1>4, <1>7 DEF Counts
  <2>3. OthersRest'
    <3>1. AtRest(chip)
      BY <1>4, <1>7 DEF Quietly
    <3>2. \A k \in Chips \ {cs} : chip'[k] = chip[k]
      BY <1>2, <1>7 DEF TypeOK
    <3> QED
      BY <2>1, <3>1, <3>2 DEF OthersRest, AtRest
  <2>4. Quietly' /\ FirstSeen' /\ Written' = w + 1
    BY <2>1, <2>3 DEF Quietly, FirstSeen, Written
  <2>5. Contents(w)
    BY <1>4, <1>7 DEF Written
  <2>6. Contents(w + 1)'
    BY <1>2, <2>1, <2>2, <2>5, CellLost
  <2> QED
    BY <1>4, <2>1, <2>2, <2>4, <2>6, WriteGoesOn DEF WritePcs
<1>8. CASE Status("statusWrite", FALSE, NextCell, End("failed"))
  <2>1. pc = "statusWrite"
    BY <1>8 DEF Status
  <2>2. \/ /\ UNCHANGED <<mem, chip, cs, todo, call, before, buf, count>>
           /\ \/ UNCHANGED <<pc, pos>>
              \/ ~chip[cs].busy /\ pos + 1 < n /\ pc' = "wrenWrite" /\ pos' = pos + 1
              \/ ~chip[cs].busy /\ ~(pos + 1 < n) /\ pc' = "verify" /\ pos' = 0
        \/ End("failed") /\ count' \in Counts
    BY <1>4, <1>8 DEF Status, NextCell, Fails, Onward, callVars, chipVars, Counts, n
  <2>3. ASSUME UNCHANGED <<mem, chip, cs, todo, call, before, buf, count>>
        PROVE  Same /\ (\A v : Contents(v) => Contents(v)')
    <3>1. Same
      BY <2>3 DEF Same
    <3>2. ASSUME NEW v, Contents(v) PROVE Contents(v)'
      BY <1>2, <1>4, <2>3, <3>1, <3>2, ContentsStay
    <3> QED
      BY <3>1, <3>2
  <2>4. Contents(w + 1)
    BY <1>4, <2>1 DEF Written
  <2>5. OthersRest /\ (~chip[cs].busy => AtRest(chip))
    BY <1>4, <2>1 DEF Quietly, OthersRest, AtRest
  <2>6. CASE UNCHANGED <<mem, chip, cs, todo, call, before, buf, count>> /\ UNCHANGED <<pc, pos>>
    <3>1. Quietly' /\ FirstSeen' /\ Written' = w + 1
      BY <2>1, <2>5, <2>6 DEF Quietly, FirstSeen, Written, OthersRest
    <3>2. Contents(w + 1)'
      BY <2>3, <2>4, <2>6
    <3> QED
      BY <1>4, <2>1, <2>6, <3>1, <3>2, WriteGoesOn DEF WritePcs
  <2>7. CASE /\ UNCHANGED <<mem, chip, cs, todo, call, before, buf, count>>
             /\ ~chip[cs].busy /\ pos + 1 < n /\ pc' = "wrenWrite" /\ pos' = pos + 1
    <3>1. Quietly' /\ FirstSeen' /\ Written' = w + 1
      BY <2>5, <2>7 DEF Quietly, FirstSeen, Written, AtRest
    <3>2. Contents(w + 1)'
      BY <2>3, <2>4, <2>7
    <3> QED
      BY <1>4, <2>7, <3>1, <3>2, WriteGoesOn DEF WritePcs
  <2>8. CASE /\ UNCHANGED <<mem, chip, cs, todo, call, before, buf, count>>
             /\ ~chip[cs].busy /\ ~(pos + 1 < n) /\ pc' = "verify" /\ pos' = 0
    <3>1. n = w + 1
      BY <1>2, <2>8
    <3>2. Written' = w + 1
      BY <2>8, <3>1 DEF Written, Part, n
    <3>3. Quietly' /\ FirstSeen'
      BY <2>5, <2>8 DEF Quietly, FirstSeen, AtRest
    <3>4. Contents(w + 1)'
      BY <2>3, <2>4, <2>8
    <3> QED
      BY <1>4, <2>8, <3>2, <3>3, <3>4, WriteGoesOn
  <2> QED
    BY <2>2, <2>6, <2>7, <2>8, EndFailed
<1> QED
  BY <1>5, <1>6, <1>7, <1>8 DEF FlashIoWrite

-----------------------------------------------------------------------------
(* Reading back what was written                                           *)

(* What the chip gives out is what is there.                               *)
LEMMA OutIs ==
  ASSUME AtRest(chip), NEW x \in Nat
  PROVE  Out(ChipOf(x), x) = At(mem, x)
<1>1. ChipOf(x) \in Chips
  BY Located
<1> QED
  BY <1>1 DEF Out, At, AtRest

(* A write that is verified.                                               *)
LEMMA WriteEnds ==
  ASSUME CallsFit, Planned, todo \in Seq(Parts), todo # <<>>, call.kind = "write", Through,
         UNCHANGED <<call, before, count, mem>>, count \in Counts, NEW w, WriteSoFar(w), w >= call.len, w \in Nat,
         WasBlank(call.addr, call.len) => At(mem, call.addr) # Blank
  PROVE  Progress'
<1>1. Len(todo) = 1 /\ call \in Calls
  BY OnlyPart, PartIs
<1>2. todo' = <<>> /\ pc' = "idle" /\ result' = "ok"
  BY <1>1 DEF Through, End
<1>3. call.addr \in Nat /\ call.len \in Nat \ {0}
  BY <1>1, CallType
<1>4. \A i \in 0..call.len-1 : call.addr + i \in 0..Total-1 /\ (call.addr + i) % Total = call.addr + i
  BY <1>1, CallRange, OnChip
<1>5. call.addr % Total = call.addr
  <2>1. 0 \in 0..call.len-1 /\ call.addr + 0 = call.addr
    BY <1>3
  <2> QED
    BY <1>4, <2>1
<1>6. WasBlank(call.addr, call.len) =>
        /\ count.lost = 0 => \A i \in 0..call.len-1 : At(mem, (call.addr + i) % Total) = Host(i)
        /\ At(mem, call.addr % Total) # Blank
  <2> SUFFICES ASSUME WasBlank(call.addr, call.len), count.lost = 0, NEW i \in 0..call.len-1
               PROVE  At(mem, (call.addr + i) % Total) = Host(i)
    BY <1>5
  <2>1. i < w
    BY <1>3
  <2>2. At(mem, call.addr + i) = Host(i)
    BY <2>1 DEF WriteSoFar
  <2> QED
    BY <1>4, <2>2
<1>7. OkMeansDone'
  <2>1. WasBlank(call.addr, call.len)' = WasBlank(call.addr, call.len)
    BY DEF WasBlank, Was
  <2>2. /\ \A i \in 0..call.len-1 : Is(call.addr + i)' = At(mem, (call.addr + i) % Total)
        /\ Is(call.addr)' = At(mem, call.addr % Total)
    BY DEF Is
  <2> QED
    BY <1>6, <2>1, <2>2 DEF OkMeansDone
<1> QED
  BY <1>2, <1>7, Failed

(* A page of a copy.                                                       *)
LEMMA CopyGoesOn ==
  ASSUME CallsFit, Planned, todo \in Seq(Parts), todo # <<>>, call.kind = "copy", Part.do = "write", Through,
         UNCHANGED <<call, before, count, mem>>, count \in Counts, AtRest(chip'), CopySoFar(PageCells)
  PROVE  Progress'
<1> DEFINE m == call.len \div PageCells
<1>1. /\ call \in Calls /\ PartNo % 2 = 0 /\ Page \in Nat /\ m \in Nat /\ PartNo \div 2 = Page + 1
      /\ (Len(todo) = 1 <=> Page = m) /\ (Len(todo) > 1 => Plan(call)[PartNo + 1].do = "read")
      /\ Len(todo) \in Nat \ {0}
  <2>1. PartNo \in Nat
    BY PartIs
  <2>2. PartNo % 2 \in {0, 1}
    BY <2>1
  <2>3. PartNo % 2 # 1
    BY CopyPart DEF Sub
  <2> QED
    BY <2>2, <2>3, CopyPart, PartIs
<1>2. /\ call.addr \in Nat /\ call.tgt \in Nat /\ call.len \in Nat \ {0} /\ PageCells \in Nat \ {0}
  BY <1>1, CallType, Sizes
<1> HIDE DEF m
<1>3. WasBlank(call.tgt, call.len) /\ count.lost = 0 =>
        \A i \in 0..call.len-1 :
          At(mem, call.tgt + i) = IF i < (Page + 1) * PageCells THEN At(before, call.addr + i) ELSE Blank
  <2>1. (Page + 1) * PageCells = Page * PageCells + PageCells
    BY <1>1, <1>2
  <2> QED
    BY <2>1 DEF CopySoFar
<1>4. CASE Len(todo) = 1
  <2>1. todo' = <<>> /\ pc' = "idle" /\ result' = "ok"
    BY <1>4 DEF Through, End
  <2>2. /\ CopyCells(call) = (Page + 1) * PageCells /\ CopyCells(call) \in Nat /\ call.len < CopyCells(call)
        /\ \A i \in 0..CopyCells(call)-1 : call.addr + i \in 0..Total-1 /\ call.tgt + i \in 0..Total-1
    BY <1>1, <1>4, CallRange DEF CopyCells, m
  <2>3. ASSUME WasBlank(call.tgt, call.len), count.lost = 0, NEW i \in 0..call.len-1
        PROVE  At(mem, (call.tgt + i) % Total) = At(before, (call.addr + i) % Total)
    <3>1. i \in 0..CopyCells(call)-1 /\ i < (Page + 1) * PageCells
      BY <1>2, <2>2
    <3>2. (call.tgt + i) % Total = call.tgt + i /\ (call.addr + i) % Total = call.addr + i
      BY <2>2, <3>1, OnChip
    <3> QED
      BY <1>3, <2>3, <3>1, <3>2
  <2>4. OkMeansDone'
    <3>1. WasBlank(call.tgt, call.len)' = WasBlank(call.tgt, call.len)
      BY DEF WasBlank, Was
    <3>2. \A i \in 0..call.len-1 : /\ Is(call.tgt + i)' = At(mem, (call.tgt + i) % Total)
                                   /\ Was(call.addr + i)' = At(before, (call.addr + i) % Total)
      BY DEF Is, Was
    <3> QED
      BY <2>3, <3>1, <3>2 DEF OkMeansDone
  <2> QED
    BY <2>1, <2>4, Failed
<1>5. CASE Len(todo) > 1
  <2>1. todo' = Tail(todo) /\ Begin(todo[2]) /\ todo[2] \in Parts
    BY <1>5 DEF Through
  <2>2. pc' \notin SetupPcs
    BY <2>1 DEF Begin, SetupPcs, Parts
  <2>3. /\ Planned' /\ PartNo' = PartNo + 1 /\ Part' = Plan(call)[PartNo + 1] /\ todo' # <<>>
        /\ todo[2] = Part' /\ Head(todo') = todo[2]
    BY <1>5, <2>1, <2>2, PlannedNext
  <2>4. Page' = Page + 1
    <3>1. PartNo' - 1 = PartNo
      BY <2>3, PartIs
    <3> QED
      BY <1>1, <3>1 DEF Page
  <2>5. WriteSoFar(0)' /\ SafeSoFar(0)'
    BY DEF WriteSoFar, SafeSoFar
  <2>6. CopySoFar(0)'
    <3>1. WasBlank(call.tgt, call.len)' = WasBlank(call.tgt, call.len)
      BY DEF WasBlank, Was
    <3>2. (Page + 1) * PageCells + 0 = (Page + 1) * PageCells
      BY <1>1, <1>2
    <3> QED
      BY <1>1, <1>3, <1>5, <2>3, <2>4, <3>1, <3>2 DEF CopySoFar
  <2> QED
    BY <2>1, <2>3, <2>5, <2>6, Begins DEF Contents
<1>6. Len(todo) = 1 \/ Len(todo) > 1
  <2> DEFINE n == Len(todo)
  <2>1. n \in Nat \ {0}
    BY <1>1
  <2> HIDE DEF n
  <2>2. n = 1 \/ n > 1
    BY <2>1
  <2> QED
    BY <2>2 DEF n
<1> QED
  BY <1>4, <1>5, <1>6

(* A page of a safe write is never left out of the count.                  *)
LEMMA PagesOf ==
  ASSUME NEW s, s.len \in Nat \ {0}, s.len % PageCells = 0
  PROVE  PageCount(s) * PageCells = s.len
<1> DEFINE z == s.len
           k == z \div PageCells
<1>1. z \in Int /\ z >= 0 /\ PageCells \in Nat \ {0} /\ z % PageCells = 0 /\ z # 0
  BY Sizes
<1> HIDE DEF z
<1>2. k \in Int /\ k >= 0 /\ z = PageCells * k + (z % PageCells)
  BY <1>1, Divide
<1> HIDE DEF k
<1>3. z = PageCells * k /\ PageCells * 0 = 0
  BY <1>1, <1>2
<1>4. k \in Nat \ {0}
  BY <1>1, <1>2, <1>3
<1> QED
  BY <1>3, <1>4, WholePages DEF z

(* The new cells of a safe write, and the old ones of its last sector.     *)
LEMMA SafeGoesOn ==
  ASSUME CallsFit, Planned, todo \in Seq(Parts), todo # <<>>, call.kind = "safe", Part.do = "write", Through,
         UNCHANGED <<call, before, buf, count, mem>>, count \in Counts, AtRest(chip'),
         NEW w \in Nat, SafeSoFar(w), w = PageCount(Part) * PageCells
  PROVE  Progress'
<1> DEFINE over == call.len % SectorCells
           host == Sub("write", call.addr, call.len, "host")
           merged == Sub("write", LastSector, SectorCells, "merged")
           aligned == call.addr % SectorCells = 0
           paged == call.len % PageCells = 0
<1>1. /\ call \in Calls /\ Part \in {host, merged} /\ (over = 0 => Part = host /\ Len(todo) = 1)
      /\ (Part = merged => Len(todo) = 1)
      /\ (over # 0 /\ Part = host => Len(todo) > 1 /\ Plan(call)[PartNo + 1] = merged)
  <2>1. call \in Calls
    BY PartIs
  <2> QED
    BY <2>1, SafePart DEF Sub
<1>2. /\ host.from = "host" /\ host.addr = call.addr /\ host.len = call.len /\ host.do = "write"
      /\ merged.from = "merged" /\ merged.addr = LastSector /\ merged.len = SectorCells /\ merged.do = "write"
  BY DEF Sub
<1>3. aligned =>
        /\ call.addr \in Nat /\ call.len \in Nat \ {0} /\ over \in 0..SectorCells-1
        /\ SectorCells \in Nat \ {0} /\ LastSector \in Nat /\ LastSector = call.addr + call.len - over
        /\ call.addr <= LastSector /\ call.addr + call.len <= Total
        /\ over # 0 => LastSector + SectorCells <= Total
  BY <1>1, SafeRange
<1>4. aligned => \A x \in SectorsOf(call.addr, call.len) :
                   /\ x \in 0..Total-1 /\ x % Total = x
                   /\ over = 0 => x < call.addr + call.len
                   /\ over # 0 => x < LastSector + SectorCells
  <2> SUFFICES ASSUME aligned, NEW x \in SectorsOf(call.addr, call.len)
               PROVE  /\ x \in 0..Total-1 /\ x % Total = x
                      /\ over = 0 => x < call.addr + call.len
                      /\ over # 0 => x < LastSector + SectorCells
    OBVIOUS
  <2>1. /\ x \in 0..Total-1
        /\ over = 0 => x < call.addr + call.len
        /\ x < (call.addr + call.len - over) + SectorCells
    BY <1>3, SectorsAre
  <2> QED
    BY <1>3, <2>1, OnChip
<1>5. Part = host /\ paged /\ aligned => w = call.len
  BY <1>2, <1>3, PagesOf
<1>6. Part = merged => w = SectorCells
  <2>1. SectorCells \in Nat \ {0} /\ SectorCells % PageCells = 0
    BY Sizes, OspiAssumption
  <2> QED
    BY <1>2, <2>1, PagesOf
<1>7. aligned /\ paged /\ count.lost = 0 =>
        \A x \in SectorsOf(call.addr, call.len) : At(mem, x) = IF x < Reached(w) THEN Final(x) ELSE Blank
  BY DEF SafeSoFar
<1>8. aligned /\ over # 0 => buf = [i \in 1..SectorCells |-> At(before, LastSector + i - 1)]
  BY <1>1, <1>2 DEF SafeSoFar
<1>9. /\ LastSector' = LastSector /\ \A x : Final(x)' = Final(x)
  BY DEF LastSector, Final
<1> HIDE DEF over, aligned, paged, host, merged
<1>10. CASE Len(todo) = 1
  <2>1. todo' = <<>> /\ pc' = "idle" /\ result' = "ok"
    BY <1>10 DEF Through, End
  <2>2. ASSUME aligned, paged, count.lost = 0, NEW x \in SectorsOf(call.addr, call.len)
        PROVE  At(mem, x % Total) = Final(x) /\ x % Total = x
    <3>1. x < Reached(w)
      <4>1. CASE Part = host
        <5>1. over = 0
          BY <1>1, <1>10, <4>1
        <5> QED
          BY <1>2, <1>3, <1>4, <1>5, <2>2, <4>1, <5>1 DEF Reached
      <4>2. CASE Part = merged /\ over # 0
        <5>1. ~(LastSector + w < call.addr + call.len) /\ x < LastSector + w
          <6>1. w = SectorCells /\ x < LastSector + SectorCells /\ x \in Int
            BY <1>4, <1>6, <2>2, <4>2
          <6>2. /\ call.addr \in Nat /\ call.len \in Nat /\ over \in 0..SectorCells-1 /\ SectorCells \in Nat
                /\ LastSector \in Nat /\ LastSector = call.addr + call.len - over
            BY <1>3, <2>2
          <6>3. over < SectorCells /\ over \in Int
            BY <6>2
          <6> QED
            BY <6>1, <6>2, <6>3
        <5>2. Reached(w) = LastSector + w
          BY <1>2, <4>2, <5>1 DEF Reached
        <5> QED
          BY <5>1, <5>2
      <4> QED
        BY <1>1, <4>1, <4>2
    <3> QED
      BY <1>4, <1>7, <2>2, <3>1
  <2>3. count.lost = 0 /\ aligned /\ paged =>
          \A x \in SectorsOf(call.addr, call.len) :
            At(mem, x % Total) = IF x - call.addr \in 0..call.len-1 THEN Host(x - call.addr) ELSE At(before, x % Total)
    BY <2>2 DEF Final
  <2>4. OkMeansDone'
    <3>1. \A x \in SectorsOf(call.addr, call.len) :
             Is(x)' = At(mem, x % Total) /\ Was(x)' = At(before, x % Total)
      BY DEF Is, Was
    <3> QED
      BY <2>3, <3>1 DEF OkMeansDone, aligned, paged
  <2> QED
    BY <2>1, <2>4, Failed
<1>11. CASE Len(todo) > 1
  <2>1. Part = host /\ over # 0 /\ Plan(call)[PartNo + 1] = merged
    <3>1. Len(todo) # 1
      <4>1. Len(todo) \in Nat
        BY PartIs
      <4> DEFINE n == Len(todo)
      <4>2. n \in Nat /\ n > 1
        BY <1>11, <4>1
      <4> HIDE DEF n
      <4>3. n # 1
        BY <4>2
      <4> QED
        BY <4>3 DEF n
    <3>2. Part # merged /\ over # 0
      BY <1>1, <3>1
    <3> QED
      BY <1>1, <3>2
  <2>2. todo' = Tail(todo) /\ Begin(todo[2]) /\ todo[2] \in Parts
    BY <1>11 DEF Through
  <2>3. pc' \notin SetupPcs
    BY <2>2 DEF Begin, SetupPcs, Parts
  <2>4. /\ Planned' /\ Part' = merged /\ todo' # <<>> /\ todo[2] = merged /\ Head(todo') = todo[2]
    BY <1>11, <2>1, <2>2, <2>3, PlannedNext
  <2>5. WriteSoFar(0)' /\ CopySoFar(0)'
    BY DEF WriteSoFar, CopySoFar
  <2>6. SafeSoFar(0)'
    <3>1. aligned => Reached(0)' = call.addr + call.len
      <4>1. aligned => LastSector + 0 < call.addr + call.len
        BY <1>3, <2>1
      <4> QED
        BY <1>2, <1>9, <2>4, <4>1 DEF Reached
    <3>2. aligned /\ paged => Reached(w) = call.addr + call.len
      BY <1>2, <1>5, <2>1 DEF Reached
    <3>3. aligned /\ paged /\ count.lost = 0 =>
            \A x \in SectorsOf(call.addr, call.len) : At(mem, x) = IF x < Reached(0)' THEN Final(x) ELSE Blank
      BY <1>7, <3>1, <3>2
    <3> QED
      BY <1>2, <1>8, <1>9, <2>1, <2>4, <3>3 DEF SafeSoFar, aligned, paged, over
  <2> QED
    BY <2>2, <2>4, <2>5, <2>6, Begins DEF Contents
<1> QED
  BY <1>1, <1>10, <1>11

LEMMA VerifyKeeps ==
  ASSUME CallsFit, DriverInv, Progress, Verify
  PROVE  Progress'
<1> DEFINE n == PageCount(Part) * PageCells
           a == Part.addr + pos * PageCells
           c == ChipOf(a)
           differs == \E i \in 0..PageCells-1 :
                        /\ pos * PageCells + i < Part.len
                        /\ Out(c, a + i) # Data(Part, pos * PageCells + i)
<1>1. pc = "verify"
  BY DEF Verify
<1>2. /\ todo # <<>> /\ Part.do = "write" /\ pos \in Nat /\ todo \in Seq(Parts) /\ TypeOK /\ Shapes
      /\ Part.addr \in Nat /\ Part.len \in Nat \ {0} /\ n \in Nat \ {0} /\ Part.len <= n
  <2>1. /\ todo # <<>> /\ todo \in Seq(Parts) /\ TypeOK /\ Shapes /\ Part.do = "write" /\ pos \in Nat
    BY <1>1 DEF DriverInv, PlaceInv, PlanInv, TypeOK, SetupPcs, Resting
  <2>2. Part \in Parts
    BY <2>1 DEF Part
  <2>3. Part.addr \in Nat /\ Part.len \in Nat \ {0}
    BY <2>2 DEF Parts
  <2> QED
    BY <2>1, <2>3, Pages
<1>3. /\ count \in Counts /\ Planned /\ AtRest(chip) /\ Contents(n) /\ FirstSeen /\ call \in Calls
      /\ PageCells \in Nat \ {0}
  BY <1>1, <1>2, PartIs, Sizes DEF Progress, Quietly, Written
<1> HIDE DEF n
<1> PICK w \in Nat : w = n
  BY <1>2
<1>4. CASE Fails(c, Plain("read"), FALSE, End("failed"))
  <2>1. End("failed") /\ count' \in Counts
    BY <1>3, <1>4 DEF Fails, Counts
  <2> QED
    BY <2>1, EndFailed
<1>5. ASSUME ~(Out(c, a) = Blank /\ differs), call.kind = "write", WasBlank(call.addr, call.len)
      PROVE  At(mem, call.addr) # Blank
  <2>1. Part = Sub("write", call.addr, call.len, "host")
    BY <1>2, <1>3, <1>5, OnlyPart
  <2>2. CASE pos # 0
    BY <1>1, <1>3, <1>5, <2>2 DEF FirstSeen
  <2>3. CASE pos = 0
    <3>1. pos * PageCells = 0 /\ a = Part.addr /\ a + 0 = a /\ 0 \in 0..PageCells-1 /\ 0 + 0 = 0 /\ 0 < Part.len
      BY <1>2, <1>3, <2>3
    <3>2. Out(c, a) = At(mem, call.addr)
      BY <1>2, <1>3, <2>1, <3>1, OutIs DEF Sub
    <3>3. Data(Part, 0) = Host(0) /\ Host(0) # Blank
      <4>1. Data(Part, 0) = Host(0)
        BY <1>2, <2>1 DEF Data, Sub
      <4>2. Host(0) # Blank
        BY Sizes DEF Host, Blank
      <4> QED
        BY <4>1, <4>2
    <3> SUFFICES ASSUME Out(c, a) = Blank PROVE FALSE
      BY <3>2
    <3>4. Out(c, a + 0) # Data(Part, 0)
      BY <3>1, <3>3
    <3>5. differs
      <4>1. pos * PageCells + 0 = 0
        BY <3>1
      <4> HIDE DEF a, c
      <4> QED
        BY <3>1, <3>4, <4>1
    <3> QED
      BY <1>5, <3>5
  <2> QED
    BY <2>2, <2>3
<1>6. CASE /\ cs' = c
           /\ IF Out(c, a) = Blank /\ differs THEN End("failed")
              ELSE \/ \E p \in pos + 1 .. PageCount(Part) - 1 : Onward("verify", p)
                   \/ Through
                   \/ PageCount(Part) \in 2..9 /\ Trap
           /\ UNCHANGED <<chipVars, callVars, buf, tries, count>>
  <2>1. UNCHANGED <<mem, chip, call, before, buf, count>> /\ count' \in Counts
    BY <1>3, <1>6 DEF chipVars, callVars
  <2>2. CASE End("failed")
    BY <2>1, <2>2, EndFailed
  <2>3. CASE /\ ~(Out(c, a) = Blank /\ differs)
             /\ \E p \in pos + 1 .. PageCount(Part) - 1 : Onward("verify", p)
    <3>1. pc' = "verify" /\ todo' = todo
      BY <2>3 DEF Onward
    <3>2. Quietly' /\ Written' = w
      BY <1>3, <2>1, <3>1 DEF Quietly, AtRest, Written, Part, n
    <3>3. FirstSeen'
      <4>1. WasBlank(call.addr, call.len)' = WasBlank(call.addr, call.len)
        BY <2>1 DEF WasBlank, Was
      <4> HIDE DEF differs, c, a
      <4> QED
        BY <1>5, <2>1, <2>3, <4>1 DEF FirstSeen
    <3>4. Contents(w)'
      <4>1. Same
        BY <2>1 DEF Same
      <4> QED
        BY <1>2, <1>3, <2>1, <3>1, <4>1, ContentsStay
    <3> QED
      BY <1>3, <2>1, <3>1, <3>2, <3>3, <3>4, WriteGoesOn
  <2>4. CASE ~(Out(c, a) = Blank /\ differs) /\ Through
    <3>1. AtRest(chip')
      BY <1>3, <2>1
    <3>2. CASE call.kind = "write"
      <4>1. WasBlank(call.addr, call.len) => At(mem, call.addr) # Blank
        <5> HIDE DEF differs, c, a
        <5> QED
          BY <1>5, <2>4, <3>2
      <4>2. w >= call.len /\ WriteSoFar(w)
        <5>1. Part.len = call.len
          BY <1>2, <1>3, <3>2, OnlyPart DEF Sub
        <5> QED
          BY <1>2, <1>3, <5>1 DEF Contents
      <4> QED
        BY <1>2, <1>3, <2>1, <2>4, <3>2, <4>1, <4>2, WriteEnds
    <3>3. CASE call.kind = "copy"
      <4>1. n = PageCells
        <5>1. Part = Sub("write", call.tgt + Page * PageCells, PageCells, "buf")
          <6>1. PartNo % 2 \in {0, 1} /\ PartNo % 2 # 1
            BY <1>2, <1>3, <3>3, CopyPart, PartIs DEF Sub
          <6> QED
            BY <1>2, <1>3, <3>3, <6>1, CopyPart
        <5>2. Part.len = PageCells * 1
          BY <1>3, <5>1 DEF Sub
        <5>3. PageCount(Part) * PageCells = Part.len
          BY <5>2, WholePages
        <5> QED
          BY <1>3, <5>2, <5>3 DEF n
      <4>2. CopySoFar(PageCells)
        BY <1>3, <4>1 DEF Contents
      <4> QED
        BY <1>2, <1>3, <2>1, <2>4, <3>1, <3>3, <4>2, CopyGoesOn
    <3>4. CASE call.kind = "safe"
      <4>1. SafeSoFar(w) /\ w = PageCount(Part) * PageCells
        BY <1>3 DEF Contents, n
      <4> QED
        BY <1>2, <1>3, <2>1, <2>4, <3>1, <3>4, <4>1, SafeGoesOn
    <3>5. call.kind \in {"write", "copy", "safe"}
      <4>1. call.kind \in {"read", "erase", "write", "copy", "safe"}
        BY <1>3, CallType
      <4>2. call.kind = "read" => Part.do = "read"
        BY <1>2, <1>3, OnlyPart DEF Sub
      <4>3. call.kind = "erase" => Part.do = "erase"
        BY <1>2, <1>3, OnlyPart DEF Sub
      <4> QED
        BY <1>2, <4>1, <4>2, <4>3
    <3> QED
      BY <3>2, <3>3, <3>4, <3>5
  <2>5. CASE Trap
    <3>1. todo' = <<>> /\ pc' = "trap"
      BY <2>5 DEF Trap
    <3> HIDE DEF differs, c, a
    <3> QED
      BY <2>1, <3>1, Failed
  <2> HIDE DEF differs, c, a
  <2> QED
    BY <1>6, <2>2, <2>3, <2>4, <2>5
<1> HIDE DEF differs
<1> QED
  BY <1>4, <1>6 DEF Verify, differs

-----------------------------------------------------------------------------
(* Reading                                                                 *)

(* One read after another.                                                 *)
LEMMA Joined ==
  ASSUME NEW p \in Nat, NEW t \in Nat, NEW x, NEW y, x = [i \in 1..p |-> x[i]], y = [i \in 1..t |-> y[i]]
  PROVE  /\ <<>> \o y = y
         /\ x \o y = [i \in 1..p + t |-> IF i <= p THEN x[i] ELSE y[i - p]]
<1> DEFINE S == {x[i] : i \in 1..p} \cup {y[i] : i \in 1..t}
<1>1. x \in [1..p -> S] /\ y \in [1..t -> S]
  <2>1. \A i \in 1..p : x[i] \in S
    OBVIOUS
  <2>2. \A i \in 1..t : y[i] \in S
    OBVIOUS
  <2> HIDE DEF S
  <2> QED
    BY <2>1, <2>2
<1> HIDE DEF S
<1>2. x \in Seq(S) /\ y \in Seq(S) /\ Len(x) = p /\ Len(y) = t
  BY <1>1
<1>3. /\ x \o y \in Seq(S) /\ Len(x \o y) = p + t
      /\ \A i \in 1..p + t : (x \o y)[i] = IF i <= p THEN x[i] ELSE y[i - p]
  <2>1. x \o y \in Seq(S)
    BY <1>2
  <2>2. Len(x \o y) = p + t
    BY <1>2
  <2>3. \A i \in 1..Len(x) + Len(y) : (x \o y)[i] = IF i <= Len(x) THEN x[i] ELSE y[i - Len(x)]
    BY <1>2
  <2> QED
    BY <1>2, <2>1, <2>2, <2>3
<1>4. <<>> \o y = y
  BY <1>2
<1>5. x \o y = [i \in 1..p + t |-> (x \o y)[i]]
  BY <1>3
<1> QED
  BY <1>3, <1>4, <1>5

(* What a call reads is in the flash.                                      *)
LEMMA ReadRange ==
  ASSUME CallsFit, Planned, todo \in Seq(Parts), todo # <<>>, Part.do = "read"
  PROVE  /\ call.kind \in {"read", "copy", "safe"} /\ Part.addr + Part.len <= Total
         /\ call.kind = "copy" => /\ PartNo % 2 = 1 /\ Page * PageCells \in Nat
                                  /\ Page * PageCells + PageCells <= CopyCells(call)
<1>1. call \in Calls /\ call.kind \in {"read", "erase", "write", "copy", "safe"}
  BY PartIs, CallType
<1>2. call.kind # "erase" /\ call.kind # "write"
  BY OnlyPart DEF Sub
<1>3. call.addr \in Nat /\ call.len \in Nat \ {0} /\ PageCells \in Nat \ {0} /\ Total \in Nat
  BY <1>1, CallType, Sizes
<1>4. CASE call.kind = "read"
  <2>1. Part.addr = call.addr /\ Part.len = call.len
    BY <1>4, OnlyPart DEF Sub
  <2> QED
    BY <1>1, <1>4, <2>1 DEF CallsFit
<1>5. CASE call.kind = "copy"
  <2> DEFINE m == call.len \div PageCells
             p == Page
  <2>1. PartNo % 2 = 1
    <3>1. PartNo % 2 \in {0, 1}
      BY PartIs
    <3>2. PartNo % 2 # 0
      BY <1>5, CopyPart DEF Sub
    <3> QED
      BY <3>1, <3>2
  <2>2. /\ p \in Nat /\ m \in Nat /\ p <= m /\ Part.addr = call.addr + p * PageCells /\ Part.len = PageCells
    BY <1>5, <2>1, CopyPart DEF Sub
  <2>3. CopyCells(call) = (m + 1) * PageCells /\ call.addr + CopyCells(call) <= Total
    BY <1>1, <1>5 DEF CopyCells, CallsFit
  <2> HIDE DEF m, p
  <2>4. \A i, j \in Nat : i <= j => i * PageCells <= j * PageCells /\ i * PageCells \in Nat
    BY <1>3
  <2>5. (p + 1) * PageCells <= (m + 1) * PageCells /\ (p + 1) * PageCells = p * PageCells + PageCells
    BY <1>3, <2>2, <2>4
  <2>6. p * PageCells \in Nat /\ (m + 1) * PageCells \in Nat
    BY <1>3, <2>2
  <2>7. p * PageCells + PageCells <= CopyCells(call) /\ CopyCells(call) \in Nat
    BY <2>3, <2>5, <2>6
  <2>8. Part.addr + Part.len <= Total
    BY <1>3, <2>2, <2>3, <2>6, <2>7
  <2> QED
    BY <1>5, <2>1, <2>6, <2>7, <2>8 DEF p
<1>6. CASE call.kind = "safe"
  <2>1. call.addr % SectorCells = 0
    BY <1>6 DEF Planned
  <2>2. Part.addr = LastSector /\ Part.len = SectorCells /\ call.len % SectorCells # 0
    <3>1. Part.do # "erase" /\ Part.do # "write"
      OBVIOUS
    <3> QED
      BY <1>6, <3>1, SafePart DEF Sub
  <2> QED
    BY <1>1, <1>6, <2>1, <2>2, SafeRange
<1> QED
  BY <1>1, <1>2, <1>4, <1>5, <1>6

(* Two ranges that do not meet.                                            *)
LEMMA Apart ==
  ASSUME NEW a \in Nat, NEW t \in Nat, NEW n \in Nat, NEW k \in 0..n-1,
         \A i \in 0..n-1 : t + i \in 0..Total-1, a + n <= t \/ t + n <= a
  PROVE  a + k \notin Span(t, n)
<1>a. SUFFICES ASSUME a + k \in Span(t, n) PROVE FALSE
  OBVIOUS
<1>1. PICK y \in t .. t + n - 1 : a + k = y % Total
  BY <1>a DEF Span
<1>2. PICK i \in 0..n-1 : y = t + i
  <2>1. y - t \in 0..n-1 /\ y = t + (y - t)
    OBVIOUS
  <2> QED
    BY <2>1
<1>3. y \in 0..Total-1
  BY <1>2
<1>4. y % Total = y
  BY <1>3, OnChip
<1>5. a + k = y
  BY <1>1, <1>4
<1>6. k >= 0 /\ k < n /\ i >= 0 /\ i < n /\ y = t + i /\ k \in Int /\ i \in Int
  BY <1>2
<1> HIDE DEF Span
<1> QED
  BY <1>5, <1>6

(* Everything has been read.                                               *)
LEMMA ReadThrough ==
  ASSUME CallsFit, StaysInReach, Planned, todo \in Seq(Parts), todo # <<>>, Part.do = "read", Through,
         UNCHANGED <<call, before, count, mem>>, count \in Counts, AtRest(chip'), Contents(0),
         buf' = [i \in 1..Part.len |-> At(mem, Part.addr + i - 1)]
  PROVE  Progress'
<1>1. /\ call \in Calls /\ call.kind \in {"read", "copy", "safe"} /\ Part.addr + Part.len <= Total
      /\ call.addr \in Nat /\ call.len \in Nat \ {0} /\ call.tgt \in Nat
      /\ PageCells \in Nat \ {0} /\ Total \in Nat
  BY ReadRange, PartIs, CallType, Sizes
<1>2. CASE call.kind = "read"
  <2>1. Part.addr = call.addr /\ Part.len = call.len /\ Len(todo) = 1
    BY <1>2, OnlyPart DEF Sub
  <2>2. todo' = <<>> /\ pc' = "idle" /\ result' = "ok"
    BY <2>1 DEF Through, End
  <2>3. \A i \in 1..call.len : (call.addr + i - 1) % Total = call.addr + i - 1
    <3> TAKE i \in 1..call.len
    <3>1. call.addr + i - 1 \in 0..Total-1
      BY <1>1, <2>1
    <3> QED
      BY <3>1, OnChip
  <2>4. buf' = [i \in 1..call.len |-> At(mem, (call.addr + i - 1) % Total)]
    BY <2>1, <2>3
  <2>5. OkMeansDone'
    <3>1. \A i \in 1..call.len : Is(call.addr + i - 1)' = At(mem, (call.addr + i - 1) % Total)
      BY DEF Is
    <3>2. buf' = [i \in 1..call.len |-> Is(call.addr + i - 1)']
      BY <2>4, <3>1
    <3> QED
      BY <1>2, <3>2 DEF OkMeansDone
  <2> QED
    BY <2>2, <2>5, Failed
<1>3. CASE call.kind = "copy"
  <2> DEFINE g == Page * PageCells
             w == Sub("write", call.tgt + g, PageCells, "buf")
  <2>1. PartNo % 2 = 1 /\ g \in Nat /\ g + PageCells <= CopyCells(call)
    BY <1>3, ReadRange
  <2>2. /\ Part = Sub("read", call.addr + g, PageCells, "none")
        /\ Len(todo) > 1 /\ PartNo \div 2 = Page /\ Plan(call)[PartNo + 1] = w
    BY <1>3, <2>1, CopyPart
  <2> HIDE DEF g
  <2>3. Part.addr = call.addr + g /\ Part.len = PageCells /\ w.do = "write"
    BY <2>2 DEF Sub
  <2>4. todo' = Tail(todo) /\ Begin(todo[2]) /\ todo[2] \in Parts
    BY <2>2 DEF Through
  <2>5. pc' \notin SetupPcs
    BY <2>4 DEF Begin, SetupPcs, Parts
  <2>6. /\ Planned' /\ PartNo' = PartNo + 1 /\ Part' = w /\ todo' # <<>> /\ todo[2] = w /\ Head(todo') = todo[2]
    BY <2>2, <2>4, <2>5, PlannedNext
  <2>7. Page' = Page
    <3>1. PartNo' - 1 = PartNo
      BY <2>6, PartIs
    <3> QED
      BY <2>2, <3>1 DEF Page
  <2>8. \A i \in 1..PageCells : At(mem, call.addr + g + i - 1) = At(before, call.addr + g + i - 1)
    <3> TAKE i \in 1..PageCells
    <3> DEFINE x == call.addr + g + i - 1
               N == CopyCells(call)
    <3>1. /\ N \in Nat
          /\ \A k \in 0..N-1 : call.addr + k \in 0..Total-1 /\ call.tgt + k \in 0..Total-1
          /\ call.addr + N <= call.tgt \/ call.tgt + N <= call.addr
      BY <1>1, <1>3, CallRange DEF CallsFit
    <3>2. g + i - 1 \in 0..N-1
      BY <1>1, <2>1, <3>1
    <3>3. x = call.addr + (g + i - 1)
      BY <1>1, <2>1
    <3>4. x \in 0..Total-1
      BY <3>1, <3>2, <3>3
    <3>5. x \notin Span(call.tgt, N)
      <4> DEFINE k == g + i - 1
      <4>1. k \in 0..N-1 /\ x = call.addr + k
        BY <3>2, <3>3
      <4> HIDE DEF k, x, N
      <4> QED
        BY <1>1, <3>1, <4>1, Apart
    <3>6. Reach(call) = Span(call.tgt, N)
      BY <1>3 DEF Reach, CopyCells
    <3> HIDE DEF x
    <3>7. At(mem, x) = At(before, x)
      BY <3>4, <3>5, <3>6 DEF StaysInReach
    <3> QED
      BY <3>7 DEF x
  <2>9. buf' = [i \in 1..PageCells |-> At(before, call.addr + g + i - 1)]
    <3>1. buf' = [i \in 1..PageCells |-> At(mem, call.addr + g + i - 1)]
      BY <2>3
    <3> HIDE DEF w
    <3> QED
      BY <2>8, <3>1
  <2>10. WasBlank(call.tgt, call.len)' = WasBlank(call.tgt, call.len)
    BY DEF WasBlank, Was
  <2>11. CopySoFar(0)'
    BY <2>6, <2>7, <2>9, <2>10 DEF Contents, CopySoFar, g
  <2>12. WriteSoFar(0)' /\ SafeSoFar(0)'
    BY <1>3 DEF WriteSoFar, SafeSoFar
  <2> QED
    BY <2>4, <2>6, <2>11, <2>12, Begins DEF Contents
<1>4. CASE call.kind = "safe"
  <2> DEFINE e == Sub("erase", call.addr, call.len, "none")
  <2>1. call.addr % SectorCells = 0
    BY <1>4 DEF Planned
  <2>2. /\ Part.addr = LastSector /\ Part.len = SectorCells /\ call.len % SectorCells # 0
        /\ Len(todo) > 1 /\ Plan(call)[PartNo + 1] = e
    <3>1. Part.do # "erase" /\ Part.do # "write"
      OBVIOUS
    <3> QED
      BY <1>4, <3>1, SafePart DEF Sub
  <2>3. todo' = Tail(todo) /\ Begin(todo[2]) /\ todo[2] \in Parts
    BY <2>2 DEF Through
  <2>4. pc' \notin SetupPcs
    BY <2>3 DEF Begin, SetupPcs, Parts
  <2>5. /\ Planned' /\ Part' = e /\ todo' # <<>> /\ todo[2] = e /\ Head(todo') = todo[2] /\ e.do = "erase"
    BY <2>2, <2>3, <2>4, PlannedNext DEF Sub
  <2>6. \A a \in 0..Total-1 : At(mem, a) = At(before, a)
    BY <1>4, <2>1 DEF Contents, SafeSoFar
  <2>7. buf' = [i \in 1..SectorCells |-> At(before, LastSector + i - 1)]
    <3>1. LastSector \in Nat /\ LastSector + SectorCells <= Total /\ SectorCells \in Nat
      BY <1>1, <1>4, <2>1, <2>2, SafeRange
    <3>2. \A i \in 1..SectorCells : LastSector + i - 1 \in 0..Total-1
      BY <1>1, <3>1
    <3>3. buf' = [i \in 1..SectorCells |-> At(mem, LastSector + i - 1)]
      BY <2>2
    <3> QED
      BY <2>6, <3>2, <3>3
  <2>8. LastSector' = LastSector
    BY DEF LastSector
  <2>9. SafeSoFar(0)'
    BY <2>5, <2>7, <2>8 DEF SafeSoFar
  <2>10. WriteSoFar(0)' /\ CopySoFar(0)'
    BY <1>4 DEF WriteSoFar, CopySoFar
  <2> QED
    BY <2>3, <2>5, <2>9, <2>10, Begins DEF Contents
<1> QED
  BY <1>1, <1>2, <1>3, <1>4

LEMMA FlashReadKeeps ==
  ASSUME CallsFit, DriverInv, StaysInReach, Progress, FlashRead
  PROVE  Progress'
<1> DEFINE b == Part.addr
           m == Part.len
           a == Part.addr + pos
           c == ChipOf(a)
           got == [i \in 1..take |-> Out(c, a + i - 1)]
<1>1. pc = "read"
  BY DEF FlashRead
<1>2. /\ todo # <<>> /\ Part.do = "read" /\ pos \in Nat /\ take \in Nat /\ todo \in Seq(Parts) /\ TypeOK /\ Shapes
      /\ b \in Nat /\ m \in Nat \ {0} /\ pos + take <= m /\ (pos = 0 \/ pos + take = m)
  <2>1. /\ todo # <<>> /\ todo \in Seq(Parts) /\ TypeOK /\ Shapes /\ Part.do = "read" /\ pos \in Nat /\ take \in Nat
        /\ pos + take <= m /\ (pos = 0 \/ pos + take = m)
    BY <1>1 DEF DriverInv, PlaceInv, PlanInv, TypeOK, SetupPcs, Resting
  <2>2. Part \in Parts
    BY <2>1 DEF Part
  <2>3. Part.addr \in Nat /\ Part.len \in Nat \ {0}
    BY <2>2 DEF Parts
  <2> QED
    BY <2>1, <2>3
<1>3. /\ count \in Counts /\ Planned /\ AtRest(chip) /\ Contents(0) /\ ReadSoFar /\ call \in Calls
      /\ ChipCells \in Nat \ {0}
  BY <1>1, <1>2, PartIs, Sizes DEF Progress, Quietly, Written
<1>4. b + m <= Total
  BY <1>2, <1>3, ReadRange
<1>5. /\ pos = 0 => take = FirstTake(Part)
      /\ pos # 0 => Stacked /\ a = ChipCells /\ buf = [i \in 1..pos |-> At(mem, b + i - 1)]
  BY <1>1, <1>3 DEF ReadSoFar
<1>6. /\ ~Stacked \/ a + take <= ChipCells \/ a >= ChipCells
      /\ pos + take # m => pos = 0 /\ take # 0 /\ Stacked /\ b + take = ChipCells
  <2>1. CASE pos = 0
    <3>1. take = IF Stacked /\ b < ChipCells /\ b + m >= ChipCells THEN ChipCells - b ELSE m
      BY <1>5, <2>1 DEF FirstTake
    <3> HIDE DEF b, m
    <3>2. a = b
      BY <1>2, <2>1 DEF b
    <3> HIDE DEF a
    <3> QED
      BY <1>2, <1>3, <2>1, <3>1, <3>2
  <2>2. CASE pos # 0
    BY <1>2, <1>3, <1>5, <2>2
  <2> QED
    BY <2>1, <2>2
<1>7. /\ \A i \in 1..take : Out(c, a + i - 1) = At(mem, a + i - 1)
  <2>1. a \in Nat /\ a + take <= Total
    <3>1. a = b + pos /\ Total \in Nat
      BY Sizes
    <3> HIDE DEF a, b, m
    <3> QED
      BY <1>2, <1>4, <3>1
  <2> HIDE DEF a
  <2> QED
    BY <1>2, <1>3, <1>6, <2>1, ReadsFlash
<1>8. (IF pos = 0 THEN <<>> ELSE buf) \o got = [i \in 1..pos + take |-> At(mem, b + i - 1)]
  <2>1. got = [i \in 1..take |-> At(mem, a + i - 1)]
    BY <1>7
  <2>2. CASE pos = 0
    <3>1. a = b /\ pos + take = take
      BY <1>2, <2>2
    <3> HIDE DEF a, b, got
    <3>2. got = [i \in 1..take |-> got[i]]
      BY <2>1
    <3>3. <<>> \o got = got
      BY <1>2, <3>2, Joined
    <3> QED
      BY <2>1, <2>2, <3>1, <3>3
  <2>3. CASE pos # 0
    <3> HIDE DEF got
    <3>1. buf = [i \in 1..pos |-> At(mem, b + i - 1)]
      BY <1>5, <2>3
    <3>2. buf = [i \in 1..pos |-> buf[i]] /\ got = [i \in 1..take |-> got[i]]
      BY <2>1, <3>1
    <3>3. buf \o got = [i \in 1..pos + take |-> IF i <= pos THEN buf[i] ELSE got[i - pos]]
      BY <1>2, <3>2, Joined
    <3>4. \A i \in 1..pos + take : (IF i <= pos THEN buf[i] ELSE got[i - pos]) = At(mem, b + i - 1)
      <4> TAKE i \in 1..pos + take
      <4>1. CASE i <= pos
        <5>1. i \in 1..pos
          BY <1>2, <4>1
        <5> QED
          BY <3>1, <4>1, <5>1
      <4>2. CASE ~(i <= pos)
        <5>1. i - pos \in 1..take /\ a + (i - pos) - 1 = b + i - 1
          BY <1>2, <4>2
        <5> HIDE DEF a, b
        <5> QED
          BY <2>1, <4>2, <5>1
      <4> QED
        BY <4>1, <4>2
    <3> HIDE DEF b
    <3> QED
      BY <2>3, <3>3, <3>4
  <2> QED
    BY <2>2, <2>3
<1> HIDE DEF got
<1>9. CASE Fails(c, Plain("read"), FALSE, End("failed"))
  <2>1. End("failed") /\ count' \in Counts
    BY <1>3, <1>9 DEF Fails, Counts
  <2> QED
    BY <2>1, EndFailed
<1>10. CASE /\ buf' = (IF pos = 0 THEN <<>> ELSE buf) \o got
            /\ IF pos + take = m THEN Through
               ELSE pos' = pos + take /\ take' = m - take /\ UNCHANGED <<pc, todo, result>>
            /\ UNCHANGED <<chipVars, callVars, tries, count>>
  <2>1. UNCHANGED <<mem, chip, call, before, count>> /\ count' \in Counts
    BY <1>3, <1>10 DEF chipVars, callVars
  <2>2. AtRest(chip')
    BY <1>3, <2>1
  <2>3. buf' = [i \in 1..pos + take |-> At(mem, b + i - 1)]
    BY <1>8, <1>10
  <2>4. CASE pos + take = m /\ Through
    BY <1>2, <1>3, <2>1, <2>2, <2>3, <2>4, ReadThrough
  <2>5. CASE pos + take # m /\ pos' = pos + take /\ take' = m - take /\ UNCHANGED <<pc, todo, result>>
    <3>1. Planned' /\ Part' = Part
      BY <1>1, <1>3, <2>1, <2>5, PlanStays DEF SetupPcs
    <3>2. Quietly'
      BY <1>1, <2>2, <2>5 DEF Quietly
    <3>3. ReadSoFar'
      <4>1. pos' = take /\ pos' # 0 /\ Stacked /\ b + pos' = ChipCells /\ pos' = pos + take
        BY <1>2, <1>6, <2>5
      <4>2. buf' = [i \in 1..pos' |-> At(mem', b + i - 1)]
        BY <2>1, <2>3, <4>1
      <4> QED
        BY <3>1, <4>1, <4>2 DEF ReadSoFar
    <3>4. SectorsErased' /\ DiesErased' /\ FirstSeen' /\ OkMeansDone'
      BY <1>1, <2>5 DEF SectorsErased, DiesErased, FirstSeen, OkMeansDone, ErasePcs, DiePcs
    <3>5. Contents(0)'
      <4>1. Same
        BY <2>1 DEF Same
      <4> QED
        BY <1>2, <1>3, <2>1, <2>5, <4>1, ContentsStay
    <3>6. Written' = 0
      BY <1>1, <2>5 DEF Written
    <3>7. Contents(Written)'
      BY <3>5, <3>6, WrittenIs
    <3> QED
      BY <2>1, <3>1, <3>2, <3>3, <3>4, <3>7 DEF Progress
  <2> QED
    BY <1>10, <2>4, <2>5
<1> QED
  BY <1>9, <1>10 DEF FlashRead, got

-----------------------------------------------------------------------------
(* Before, between and at the start of calls                               *)

(* No call has been made yet.                                              *)
LEMMA BeforeCalls ==
  ASSUME todo' = <<>>, pc' \in Resting, call' = NoCall, count' \in Counts
  PROVE  Progress'
<1>1. Planned'
  BY DEF Planned
<1>2. Quietly' /\ ReadSoFar' /\ SectorsErased' /\ DiesErased' /\ FirstSeen'
  BY DEF Quietly, ReadSoFar, SectorsErased, DiesErased, FirstSeen, ErasePcs, DiePcs, Resting, SetupPcs
<1>3. Contents(Written)'
  BY DEF Contents, WriteSoFar, CopySoFar, SafeSoFar
<1>4. OkMeansDone'
  BY DEF OkMeansDone, NoCall
<1> QED
  BY <1>1, <1>2, <1>3, <1>4 DEF Progress

LEMMA SetupKeeps ==
  ASSUME DriverInv, Progress, FlashReadID \/ FlashSetSDRDDRMode \/ FlashEnter4BAddMode \/ SetUpDone
  PROVE  Progress'
<1>1. ASSUME pc \in SetupPcs, UNCHANGED <<call, todo>>, pc' \in Resting, count' \in Counts
      PROVE  Progress'
  <2>1. call = NoCall /\ todo = <<>>
    BY <1>1 DEF Progress, Planned, DriverInv, PlaceInv, Resting
  <2> QED
    BY <1>1, <2>1, BeforeCalls
<1>2. ASSUME NEW step \in SetupPcs, NEW next \in SetupPcs, NEW cmd, Setup(step, cmd, next) PROVE Progress'
  <2>1. pc = step /\ UNCHANGED <<call, todo>> /\ pc' \in {step, next, "down"}
    BY <1>2 DEF Setup, Send, Fails, Onward, Down, callVars
  <2>2. count' \in Counts
    BY <1>2 DEF Setup, Send, Fails, Progress, Counts
  <2> QED
    BY <1>1, <1>2, <2>1, <2>2 DEF Resting
<1>3. CASE Status("statusFour", TRUE, \E next \in {"disable", "select"} : Onward(next, pos), Down)
  <2>1. pc = "statusFour" /\ UNCHANGED <<call, todo>> /\ pc' \in {"statusFour", "disable", "select", "down"}
    BY <1>3 DEF Status, Fails, Onward, Down, callVars
  <2>2. count' \in Counts
    BY <1>3 DEF Status, Fails, Progress, Counts
  <2> QED
    BY <1>1, <2>1, <2>2 DEF Resting, SetupPcs
<1>4. CASE SetUpDone
  <2>1. pc = "select" /\ UNCHANGED <<call, todo, count>> /\ pc' \in {"wrenConfig", "idle"}
    BY <1>4 DEF SetUpDone, callVars
  <2> QED
    BY <1>1, <2>1 DEF Resting, SetupPcs, Progress
<1>5. {"id", "wrenConfig", "config", "readConfig", "wrenFour", "enter4", "statusFour", "disable", "select"}
        \subseteq SetupPcs
  BY DEF SetupPcs
<1> QED
  BY <1>2, <1>3, <1>4, <1>5 DEF FlashReadID, FlashSetSDRDDRMode, FlashEnter4BAddMode

(* BlankRange, of the state a step begins a call in.                       *)
LEMMA BlankAtStart ==
  ASSUME NEW a \in Nat, NEW len \in Nat, WasBlank(a, len)', NEW i \in 0..len-1, a + i \in 0..Total-1
  PROVE  At(before', a + i) = Blank
<1>1. a + i \in a .. a + len - 1 /\ (a + i) % Total = a + i
  BY OnChip
<1>2. a + i \in Span(a, len)
  BY <1>1 DEF Span
<1> QED
  BY <1>1, <1>2 DEF WasBlank, Was

(* A call begins: nothing of it is done.                                   *)
LEMMA CallKeeps ==
  ASSUME CallsFit, SafeAligned, Progress, NEW c \in Calls, Call(c)
  PROVE  Progress'
<1>1. /\ pc = "idle" /\ call' = c /\ before' = mem /\ mem' = mem /\ chip' = chip /\ AtRest(chip')
      /\ count' \in Counts
  BY DEF Call, chipVars, Progress, Counts, AtRest
<1>2. CASE End("failed")
  BY <1>1, <1>2, EndFailed
<1>3. CASE ~(c.kind = "safe" /\ (c.addr \div PageCells) % 2 = 1) /\ ~End("failed")
  <2> DEFINE plan == Plan(c)
  <2>1. todo' = plan /\ Begin(plan[1])
    BY <1>3 DEF Call
  <2>2. plan \in Seq(Parts) /\ plan # <<>>
    BY <1>3, PlanFits
  <2>3. c.kind = "safe" => c.addr % SectorCells = 0
    BY <1>3 DEF SafeAligned
  <2>4. Plan(call)' = plan
    BY <1>1
  <2> DEFINE n == Len(plan)
             s == plan[1]
  <2> HIDE DEF plan
  <2>5. n \in Nat \ {0} /\ s \in Parts /\ Head(plan) = s
    BY <2>2
  <2>6. PartNo' = 1 /\ Page' = 0
    <3>1. PartNo' = n - n + 1
      BY <2>1, <2>4 DEF PartNo
    <3> HIDE DEF n
    <3>2. PartNo' = 1
      BY <2>5, <3>1
    <3>3. (1 - 1) \div 2 = 0
      OBVIOUS
    <3> QED
      BY <3>2, <3>3 DEF Page
  <2>7. Planned'
    <3>1. pc' \notin SetupPcs
      BY <2>1, <2>5 DEF Begin, Parts, SetupPcs
    <3>2. \A i \in 1..n : plan[i] = plan[1 + i - 1]
      <4> TAKE i \in 1..n
      <4>1. 1 + i - 1 = i
        OBVIOUS
      <4> QED
        BY <4>1
    <3>3. n <= n
      BY <2>5
    <3> QED
      BY <1>1, <2>1, <2>2, <2>3, <2>4, <2>6, <3>1, <3>2, <3>3 DEF Planned
  <2>8. Part' = s
    BY <2>1, <2>5 DEF Part
  <2>9. c.addr \in Nat /\ c.len \in Nat \ {0} /\ c.tgt \in Nat /\ PageCells \in Nat
    BY CallType, Sizes
  <2>10. WriteSoFar(0)'
    <3> SUFFICES ASSUME c.kind = "write", WasBlank(c.addr, c.len)', NEW i \in 0..c.len-1
                 PROVE  At(mem', c.addr + i) = IF i < 0 THEN Host(i) ELSE Blank
      BY <1>1 DEF WriteSoFar
    <3>1. c.addr + i \in 0..Total-1
      BY CallRange
    <3>2. At(before', c.addr + i) = Blank
      BY <2>9, <3>1, BlankAtStart
    <3> QED
      BY <1>1, <3>2
  <2>11. CopySoFar(0)'
    <3> SUFFICES ASSUME c.kind = "copy"
                 PROVE  /\ s.do # "write"
                        /\ WasBlank(c.tgt, c.len)' =>
                             \A i \in 0..c.len-1 :
                               At(mem', c.tgt + i) = IF i < 0 * PageCells + 0 THEN At(before', c.addr + i) ELSE Blank
      BY <1>1, <2>6, <2>8 DEF CopySoFar
    <3>1. s.do # "write"
      <4>1. 1 % 2 = 1 /\ 1 \in 1..n
        BY <2>5
      <4>2. s = Sub("read", c.addr + ((1 - 1) \div 2) * PageCells, PageCells, "none")
        BY <4>1, CopyShape DEF plan
      <4> QED
        BY <4>2 DEF Sub
    <3>2. ASSUME WasBlank(c.tgt, c.len)', NEW i \in 0..c.len-1
          PROVE  At(mem', c.tgt + i) = Blank /\ ~(i < 0 * PageCells + 0)
      <4>1. CopyCells(c) \in Nat /\ c.len < CopyCells(c)
        BY CallRange
      <4>2. i \in 0..CopyCells(c)-1
        BY <2>9, <4>1
      <4>3. c.tgt + i \in 0..Total-1
        BY <4>2, CallRange
      <4>4. At(before', c.tgt + i) = Blank
        BY <2>9, <3>2, <4>3, BlankAtStart
      <4> QED
        BY <1>1, <2>9, <4>4
    <3> QED
      BY <3>1, <3>2
  <2>12. SafeSoFar(0)'
    <3> SUFFICES ASSUME c.kind = "safe"
                 PROVE  /\ s.do # "write"
                        /\ s.do # "read" => c.len % SectorCells = 0
      BY <1>1, <2>8 DEF SafeSoFar
    <3>1. CASE c.len % SectorCells = 0
      <4>1. s = Sub("erase", c.addr, c.len, "none")
        BY <3>1, SafeShape DEF plan
      <4> QED
        BY <3>1, <4>1 DEF Sub
    <3>2. CASE c.len % SectorCells # 0
      <4>1. s.do = "read"
        BY <3>2, SafeShape DEF plan, Sub
      <4> QED
        BY <4>1
    <3> QED
      BY <3>1, <3>2
  <2> QED
    BY <1>1, <2>1, <2>5, <2>7, <2>10, <2>11, <2>12, Begins DEF Contents
<1>4. c.kind = "safe" /\ (c.addr \div PageCells) % 2 = 1 => End("failed")
  BY DEF Call
<1> QED
  BY <1>2, <1>3, <1>4

(* A chip that gets ready disturbs nothing.                                *)
LEMMA ChipDoneKeeps ==
  ASSUME DriverInv, Progress, NEW c \in Chips, ChipDone(c)
  PROVE  Progress'
<1>1. UNCHANGED <<mem, cs, pc, call, before, todo, pos, take, buf, tries, result, count>>
  BY DEF ChipDone, callVars
<1>2. \A k \in Chips : chip'[k].wel = chip[k].wel /\ (~chip[k].busy => ~chip'[k].busy)
  BY DEF ChipDone, DriverInv, TypeOK
<1>3. cs \in Chips
  BY DEF DriverInv, TypeOK
<1>4. AtRest(chip) => AtRest(chip')
  BY <1>2 DEF AtRest
<1>5. OthersRest => OthersRest'
  BY <1>1, <1>2 DEF OthersRest
<1>6. Quietly'
  <2>1. Careful' = Careful /\ Quietly
    BY <1>1 DEF Careful, Progress
  <2>2. chip'[cs].wel = chip[cs].wel /\ (~chip[cs].busy => ~chip'[cs].busy)
    BY <1>2, <1>3
  <2> HIDE DEF Careful
  <2> QED
    BY <1>1, <1>4, <1>5, <2>1, <2>2 DEF Quietly
<1>7. SectorsErased'
  <2>1. \A k : SectorBlank(k)' = SectorBlank(k)
    BY <1>1 DEF SectorBlank, Part
  <2>2. chip'[cs].wel = chip[cs].wel /\ (~chip[cs].busy => ~chip'[cs].busy)
    BY <1>2, <1>3
  <2> HIDE DEF SectorBlank
  <2>3. SectorsErased
    BY DEF Progress
  <2> QED
    BY <1>1, <2>1, <2>2, <2>3 DEF SectorsErased
<1>8. Planned' /\ ReadSoFar' /\ DiesErased' /\ FirstSeen' /\ OkMeansDone' /\ Contents(Written)' /\ count' \in Counts
  BY <1>1 DEF Progress, Planned, PartNo, ReadSoFar, Part, DiesErased, Careful, FirstSeen, WasBlank, Was, OkMeansDone, Is,
              Contents, WriteSoFar, CopySoFar, SafeSoFar, Written, Page, LastSector, Reached, Final
<1> QED
  BY <1>6, <1>7, <1>8 DEF Progress

LEMMA InitKeeps ==
  ASSUME Init
  PROVE  Progress
<1>1. /\ todo = <<>> /\ pc = "id" /\ call = NoCall /\ count \in Counts
  BY DEF Init, Counts
<1>2. Planned
  BY <1>1 DEF Planned
<1>3. Quietly /\ ReadSoFar /\ SectorsErased /\ DiesErased /\ FirstSeen /\ OkMeansDone
  BY <1>1 DEF Quietly, ReadSoFar, SectorsErased, DiesErased, FirstSeen, ErasePcs, DiePcs, OkMeansDone
<1>4. Contents(Written)
  BY <1>1 DEF Contents, WriteSoFar, CopySoFar, SafeSoFar
<1> QED
  BY <1>1, <1>2, <1>3, <1>4 DEF Progress

LEMMA StutterKeeps ==
  ASSUME Progress, UNCHANGED vars
  PROVE  Progress'
<1>1. UNCHANGED <<mem, chip, cs, pc, call, todo, pos, take, buf, tries, result, before, count>>
  BY DEF vars
<1>2. Contents(Written)'
  BY <1>1 DEF Progress, Contents, WriteSoFar, CopySoFar, SafeSoFar, Written, Page, PartNo, LastSector, Reached, Final,
              Part, WasBlank, Was
<1>3. Planned' /\ ReadSoFar' /\ DiesErased' /\ FirstSeen' /\ OkMeansDone' /\ count' \in Counts
  BY <1>1 DEF Progress, Planned, PartNo, ReadSoFar, Part, DiesErased, Careful, FirstSeen, WasBlank, Was, OkMeansDone, Is
<1>4. Quietly' /\ SectorsErased'
  BY <1>1 DEF Progress, Quietly, AtRest, OthersRest, Careful, SectorsErased, SectorBlank, Part
<1> QED
  BY <1>2, <1>3, <1>4 DEF Progress

LEMMA NextKeeps ==
  ASSUME SafeAligned, CallsFit, DriverInv, StaysInReach, Progress, [Next]_vars
  PROVE  DriverInv' /\ StaysInReach' /\ Progress'
<1>0. DriverInv' /\ StaysInReach'
  BY NextStep
<1>1. CASE FlashReadID \/ FlashSetSDRDDRMode \/ FlashEnter4BAddMode \/ SetUpDone
  BY <1>0, <1>1, SetupKeeps
<1>2. CASE EraseSector
  BY <1>0, <1>2, EraseSectorKeeps
<1>3. CASE EraseDie
  BY <1>0, <1>3, EraseDieKeeps
<1>4. CASE FlashIoWrite
  BY <1>0, <1>4, FlashIoWriteKeeps
<1>5. CASE Verify
  BY <1>0, <1>5, VerifyKeeps
<1>6. CASE FlashRead
  BY <1>0, <1>6, FlashReadKeeps
<1>7. CASE \E c \in Calls : Call(c)
  BY <1>0, <1>7, CallKeeps
<1>8. CASE \E c \in Chips : ChipDone(c)
  BY <1>0, <1>8, ChipDoneKeeps
<1>9. CASE UNCHANGED vars
  BY <1>0, <1>9, StutterKeeps
<1> QED
  BY <1>1, <1>2, <1>3, <1>4, <1>5, <1>6, <1>7, <1>8, <1>9 DEF Next, DriverStep

LEMMA ProgressInvariance ==
  ASSUME SafeAligned, CallsFit
  PROVE  Spec => [](DriverInv /\ StaysInReach /\ Progress)
<1>1. Init => DriverInv /\ StaysInReach /\ Progress
  BY InitStep, InitKeeps
<1>2. DriverInv /\ StaysInReach /\ Progress /\ [Next]_vars => (DriverInv /\ StaysInReach /\ Progress)'
  BY NextKeeps
<1> QED
  BY <1>1, <1>2, PTL DEF Spec

-----------------------------------------------------------------------------
(* What is proved of the driver                                           *)

(* The driver's variables stay in their sets, and nothing is left to do of *)
(* a call once the driver is back: each of the error paths of cl_ospi_     *)
(* polled.c ends the whole call.                                           *)
THEOREM TypeCorrect == ASSUME SafeAligned PROVE Spec => []TypeOK
BY Invariance, PTL DEF DriverInv

(* Whatever the transfers do, the cells outside the sectors a call erases  *)
(* and the pages it writes are as they were when it began: GetRealAddr,    *)
(* the count of the sectors in FlashErase, the pages of ospi_flash_write,  *)
(* and the last sector ospi_flash_safe_write puts back never go past them, *)
(* on one chip or on two, also when an address wraps round.                *)
THEOREM StaysWithin == ASSUME SafeAligned PROVE Spec => []StaysInReach
BY Invariance, PTL

(* A call that returns 0 has done what it was asked for, on one chip or    *)
(* across two, whatever transfers failed and were sent again on the way:   *)
(* FlashRead has read what is there, FlashErase has blanked every sector   *)
(* of the range (BulkErase and DieErase, whose results nobody looks at,    *)
(* all of the flash if no transfer failed), ospi_flash_write and           *)
(* ospi_flash_copy have put on blank cells what they were given, and       *)
(* ospi_flash_safe_write has kept what its last sector held besides.       *)
THEOREM OkIsDone == ASSUME SafeAligned, CallsFit PROVE Spec => []OkMeansDone
BY ProgressInvariance, PTL DEF Progress
=============================================================================
