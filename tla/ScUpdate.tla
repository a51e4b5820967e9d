------------------------------ MODULE ScUpdate ------------------------------
(***************************************************************************)
(* The update of the satellite controller's firmware (vmc/vmc_update_sc.c):*)
(* the state machine the SC comms task runs through in update_scfw, the    *)
(* packets it cuts the TI-TXT image of the FPT into, the boot loader of    *)
(* the SC (the BSL of an MSP432) at the other end of the UART, and the     *)
(* version query of the XGQ Opcode task, which parses the same image with  *)
(* the same static pointers.                                               *)
(*                                                                         *)
(* The unit of data is a line of the image (16 bytes).  Every request of   *)
(* every state can be lost, carried out without its answer arriving, or    *)
(* answered by something unreadable, without a bound.  An answer comes     *)
(* before do_uart_transaction times out or it never comes.                 *)
(***************************************************************************)
EXTENDS Integers, Sequences, SequencesExt, FiniteSetsExt

CONSTANTS
  Sections,    \* the lines of each section of the image
  Base,        \* the address of the first of them
  PktLines,    \* lines in a full packet
  QueryLen,    \* tokens from where the version is looked for to the end
  MaxRetry,    \* SC_UPDATE_MAX_RETRY_COUNT
  MaxMode,     \* MODE_VER_MAX_RETRY_COUNT
  MaxQueries,  \* version queries
  MaxUpdates   \* updates

ASSUME ScUpdateAssumption ==
  /\ Sections \in Seq(Nat \ {0}) /\ Sections # <<>>
  /\ Base \in Seq(Nat \ {0}) /\ Len(Base) = Len(Sections)
  /\ \A s, t \in 1..Len(Sections) :
       s # t => Base[s] + Sections[s] <= Base[t] \/ Base[t] + Sections[t] <= Base[s]
  /\ {PktLines, MaxRetry, MaxMode, MaxUpdates} \subseteq Nat \ {0}
  /\ {QueryLen, MaxQueries} \subseteq Nat

(* The image as it lies in the flash: "@", the address with its newline,   *)
(* lines (with the address they are for), newlines, and the final "q".     *)
Token(t, v) == [t |-> t, v |-> v]
SectionTokens(s) ==
  [k \in 1..(2 * Sections[s] + 2) |->
     IF k = 1 THEN Token("at", 0)
     ELSE IF k = 2 THEN Token("addr", Base[s])
     ELSE IF k % 2 = 1 THEN Token("line", Base[s] + (k - 3) \div 2)
     ELSE Token("nl", 0)]
File == FlattenSeq([s \in 1..Len(Sections) |-> SectionTokens(s)]) \o <<Token("end", 0)>>

(* The version is looked for inside the image.                             *)
ASSUME QueryAssumption == QueryLen <= Len(File)

Addr == UNION {Base[s]..(Base[s] + Sections[s] - 1) : s \in 1..Len(Sections)}

States == {"Idle", "ScBslSync", "EnableBsl", "BslSynced", "Unlock", "MassErase", "DataTx", "LoadPc", "Reboot"}
Errors == {"none", "sync", "enable", "bslsync", "unlock", "erase", "symbol", "crc", "resp", "nofpt"}
Counted == {"ScBslSync", "EnableBsl", "BslSynced", "Unlock", "MassErase"}

VARIABLES
  board,     \* a VCK5000 or a later card
  syncLen,   \* bytes its BSL answers a sync character with
  image,     \* the FPT has an image, one without its first "@", or none
  st, status, error,  \* update_state, update_status, update_error
  rc,        \* what update_scfw returned last
  retry,     \* the static retry_count of each state
  mode,      \* mode_retry_cnt
  bytes,     \* bytes_to_rcv of sync_sc_bsl
  file,      \* data_ptr, addr_flag, parsed_sc_flash_addr, prev_length, all_pkt_sent
  tx,        \* where send_data_to_bsl is
  pkt,       \* the packet it has in hand: address and lines
  msp,       \* the SC: running its application or its BSL, unlocked, its flash
  active,    \* is_SC_active and the flags that are reset with it
  query,     \* the version query of the opcode task
  lost,      \* addresses of this update's packets whose transaction failed
  clean,     \* nothing went wrong on the wire in this update
  mixed,     \* a query has touched the pointers while packets were being sent
  beyond,    \* a query has parsed from beyond the end of the image
  busy,      \* update_scfw is running
  started, asked  \* updates and version queries so far

fsm  == <<st, status, error, retry, mode, bytes>>
updateVars == <<board, syncLen, image, fsm, rc, file, tx, pkt, msp, active, query, lost, clean, mixed, beyond, busy, started, asked>>

NoPkt    == [addr |-> 0, lines |-> <<>>]
Complete == \A a \in Addr : msp.flash[a] = "own"
Runs(f)  == \E v \in {"own", "old"} : \A a \in Addr : f[a] = v

UpdateInit ==
  /\ board \in {"vck5000", "later"} /\ syncLen \in {1, 8} /\ image \in {"whole", "headless", "none"}
  /\ st = "Idle" /\ status = "success" /\ error = "none" /\ rc = "none"
  /\ retry = [s \in Counted |-> 0] /\ mode = 0 /\ bytes = 11
  /\ file = IF image = "none"
            THEN [ptr |-> 0, flag |-> FALSE, addr |-> 0, prev |-> 0, sent |-> FALSE]
            ELSE [ptr |-> QueryLen, flag |-> FALSE, addr |-> Base[Len(Sections)], prev |-> 0, sent |-> FALSE]
  /\ tx = "none" /\ pkt = NoPkt
  /\ \/ msp = [mode |-> "sc", unlocked |-> FALSE, flash |-> [a \in Addr |-> "old"]]
     \/ msp = [mode |-> "bsl", unlocked |-> FALSE, flash |-> [a \in Addr |-> "blank"]]
  /\ active = FALSE /\ query = "idle"
  /\ lost = {} /\ clean = TRUE /\ mixed = FALSE /\ beyond = FALSE
  /\ busy = FALSE /\ started = 0 /\ asked = 0

----------------------------------------------------------------------------
(* The SC.  An answer is what the bytes that arrive show the caller; a     *)
(* caller that waits for more bytes than come gets "none".                 *)

Erased  == [a \in Addr |-> "blank"]
Line(p, a) == p.lines[a - p.addr + 1]
Covers(p, a) == a - p.addr + 1 \in DOMAIN p.lines
Written(f, p) ==
  [a \in Addr |-> IF ~Covers(p, a) THEN f[a]
                  ELSE IF Line(p, a) = a /\ f[a] \in {"blank", "own"} THEN "own" ELSE "wrong"]
Matches(f, p) == \A a \in Addr : Covers(p, a) => f[a] = "own" /\ Line(p, a) = a

(* A BSL that starts runs the application when there is one.               *)
Restart(m) == [m EXCEPT !.mode = IF Runs(m.flash) THEN "sc" ELSE "bsl", !.unlocked = FALSE]

InBsl == msp.mode = "bsl"
Open  == InBsl /\ msp.unlocked
Effect(op) ==
  CASE op = "enable" /\ msp.mode = "sc" -> {[msp EXCEPT !.mode = "bsl", !.unlocked = FALSE]}
    [] op = "unlock" /\ InBsl -> {[msp EXCEPT !.unlocked = TRUE]}
    [] op = "erase" /\ Open   -> {[msp EXCEPT !.flash = Erased]}
    [] op = "data" /\ Open    -> {[msp EXCEPT !.flash = Written(msp.flash, pkt)]}
    [] op = "loadpc" /\ Open  ->
         IF Runs(msp.flash) THEN {Restart(msp)} ELSE {[msp EXCEPT !.mode = m, !.unlocked = FALSE] : m \in {"bsl", "dead"}}
    [] op = "reboot" /\ InBsl -> {Restart(msp)}
    [] OTHER -> {msp}

AppAnswer(op, n) == IF op = "enable" THEN "good" ELSE IF n = 1 THEN "other" ELSE "sc"
BslAnswer(op, n) ==
  CASE op = "sync" -> IF n > syncLen THEN "none" ELSE IF n = 8 THEN "unknown" ELSE "synced"
    [] op = "bslsync" -> "synced"
    [] op = "unlock" \/ (op \in {"erase", "data"} /\ Open) -> "ack"
    [] op = "crc" /\ Open -> IF Matches(msp.flash, pkt) THEN "crcok" ELSE "crcbad"
    [] op = "loadpc" /\ Open -> "started"
    [] OTHER -> "nak"
Answer(op, n) ==
  CASE msp.mode = "dead" -> "none"
    [] msp.mode = "sc"   -> AppAnswer(op, n)
    [] msp.mode = "bsl"  -> BslAnswer(op, n)

(* do_uart_transaction: what may come of a request for n bytes.            *)
Outcomes(op, n) ==
       {[msp |-> m, ans |-> Answer(op, n), ok |-> TRUE] : m \in Effect(op)}
  \cup {[msp |-> m, ans |-> a, ok |-> FALSE] : m \in Effect(op) \cup {msp}, a \in {"none", "junk"}}
Happens(o) == msp' = o.msp /\ clean' = (clean /\ o.ok)

----------------------------------------------------------------------------
(* The states.  Each handler makes one request and either moves on, tries  *)
(* again, or gives up when its retry count is reached.                     *)

History  == <<board, syncLen, image, lost, mixed, beyond, busy, started, asked>>
DataVars == <<file, tx, pkt>>
Rest     == <<rc, active, query, History, DataVars>>

Goto(s)   == st' = s /\ UNCHANGED <<status, error>>
GiveUp(e) == st' = "Idle" /\ status' = "failure" /\ error' = e

Advance(s) == Goto(s) /\ retry' = [retry EXCEPT ![st] = 0]
Retry(e) ==
  IF retry[st] + 1 >= MaxRetry
  THEN retry' = [retry EXCEPT ![st] = 0] /\ GiveUp(e)
  ELSE retry' = [retry EXCEPT ![st] = @ + 1] /\ Goto(st)

(* sync_sc_bsl looks for an answer of 11 bytes, then of 8, then of 1.      *)
InScMode   == Goto("EnableBsl") /\ mode' = 0 /\ retry' = [retry EXCEPT ![st] = 0] /\ UNCHANGED bytes
(* Seeded fault: the next update starts with the size that worked here.    *)
SeemsBslSameSize ==
  IF mode + 1 >= MaxMode
  THEN Goto("Unlock") /\ mode' = 0 /\ UNCHANGED bytes /\ retry' = [retry EXCEPT ![st] = 0]
  ELSE Goto(st) /\ mode' = mode + 1 /\ UNCHANGED <<bytes, retry>>
SeemsBsl   ==
  IF mode + 1 >= MaxMode
  THEN Goto("Unlock") /\ mode' = 0 /\ bytes' = 11 /\ retry' = [retry EXCEPT ![st] = 0]
  ELSE Goto(st) /\ mode' = mode + 1 /\ UNCHANGED <<bytes, retry>>
(* Seeded fault: after the last size the first one is tried again.         *)
NoSyncRoundAgain(cleared) ==
  IF retry[st] + 1 < MaxRetry
  THEN retry' = [retry EXCEPT ![st] = @ + 1] /\ mode' = (IF cleared THEN 0 ELSE mode) /\ Goto(st) /\ UNCHANGED bytes
  ELSE /\ retry' = [retry EXCEPT ![st] = 0] /\ mode' = 0
       /\ Goto(st) /\ bytes' = (CASE bytes = 11 -> 8 [] bytes = 8 -> 1 [] OTHER -> 11)
NoSync(cleared) ==
  IF retry[st] + 1 < MaxRetry
  THEN retry' = [retry EXCEPT ![st] = @ + 1] /\ mode' = (IF cleared THEN 0 ELSE mode) /\ Goto(st) /\ UNCHANGED bytes
  ELSE /\ retry' = [retry EXCEPT ![st] = 0] /\ mode' = 0
       /\ IF bytes = 1 THEN GiveUp("sync") /\ bytes' = 11
                       ELSE Goto(st) /\ bytes' = (IF bytes = 11 THEN 8 ELSE 1)

SyncScBsl ==
  /\ st = "ScBslSync"
  /\ \E o \in Outcomes("sync", bytes) :
       /\ Happens(o)
       /\ \/ o.ans = "sc" /\ InScMode
          \/ o.ans = "unknown" /\ bytes = 8 /\ SeemsBsl
          \/ o.ans = "synced" /\ bytes = 1 /\ SeemsBsl
          \/ o.ans = "none" /\ NoSync(FALSE)
          \/ o.ans \in {"junk", "other"} /\ NoSync(TRUE)
  /\ UNCHANGED Rest

(* enable_sc_bsl, sync_vmc_bsl, unlock_bsl and mass_erase_bsl.             *)
Handshake(s, op, n, good, next, err) ==
  /\ st = s
  /\ \E o \in Outcomes(op, n) :
       Happens(o) /\ IF o.ans = good THEN Advance(next) ELSE Retry(err)
  /\ UNCHANGED <<mode, bytes, Rest>>

EnableBsl  == Handshake("EnableBsl", "enable", 11, "good", "BslSynced", "enable")
SyncVmcBsl == Handshake("BslSynced", "bslsync", 1, "synced", "Unlock", "bslsync")
UnlockBsl  == Handshake("Unlock", "unlock", 8, "ack", "MassErase", "unlock")
MassErase  == Handshake("MassErase", "erase", 8, "ack", "DataTx", "erase")

(* parse_fpt_sc.  The address state reads an address, or the newline before *)
(* the next packet of the section, or the end of the image; the data state *)
(* collects lines until the packet is full or the section ends.            *)
At(i)     == File[IF i <= Len(File) THEN i ELSE Len(File)]
Lines(i, j)  == {k \in i..j : At(k).t = "line"}
CutsAt(i, j) == At(j).t \in {"at", "end"} \/ Cardinality(Lines(i, j)) = PktLines
LastRead(i)  == Min({j \in i..(i + Len(File)) : CutsAt(i, j)})
NthLine(i, n) == CHOOSE k \in Lines(i, i + Len(File)) : Cardinality(Lines(i, k)) = n
Garbage   == 0

ParseData(f, i, addr, spoilt) ==
  LET j == LastRead(i)
      n == Cardinality(Lines(i, j))
  IN  [pkt  |-> [addr  |-> addr,
                 lines |-> [k \in 1..n |-> IF k \in spoilt THEN Garbage ELSE At(NthLine(i, k)).v]],
       file |-> [ptr |-> IF j <= Len(File) THEN j ELSE Len(File), flag |-> At(j).t = "at", addr |-> addr,
                 prev |-> n, sent |-> At(j).t = "end"]]

Parse(f) ==
  LET marked == At(f.ptr + 1).t = "at"
      i      == IF marked THEN f.ptr + 2 ELSE f.ptr + 1
      c      == At(i)
  IN  CASE c.t = "end" -> [pkt |-> NoPkt, file |-> [f EXCEPT !.ptr = Len(File), !.sent = TRUE]]
        [] c.t # "end" /\ (marked \/ f.flag) ->
             ParseData(f, i + 1, IF c.t = "addr" THEN c.v ELSE Garbage, {})
        [] c.t # "end" /\ ~(marked \/ f.flag) ->
             (* Only a newline can be skipped: of a line, a digit is lost.   *)
             LET next == f.addr + f.prev IN
             CASE c.t = "nl"   -> ParseData(f, i + 1, next, {})
               [] c.t = "line" -> ParseData(f, i, next, {1})
               [] OTHER        -> ParseData(f, i + 1, next, 1..PktLines)

(* send_data_to_bsl; that the image starts with an "@" is tested only now, *)
(* the SC being erased.                                                    *)
DataStays == UNCHANGED <<rc, retry, mode, bytes, active, query, board, syncLen, image, mixed, beyond, busy, started, asked>>

DataBegin ==
  /\ st = "DataTx" /\ tx = "none"
  /\ file' = [file EXCEPT !.ptr = 0, !.sent = FALSE] /\ tx' = "symbol"
  /\ UNCHANGED <<st, status, error, pkt, msp, lost, clean>> /\ DataStays

DataSymbol ==
  /\ tx = "symbol"
  /\ IF image = "whole"
     THEN file' = [file EXCEPT !.flag = TRUE] /\ tx' = "parse" /\ UNCHANGED <<st, status, error>>
     ELSE tx' = "none" /\ GiveUp("symbol") /\ UNCHANGED file
  /\ UNCHANGED <<pkt, msp, lost, clean>> /\ DataStays

DataParse ==
  /\ tx = "parse"
  /\ LET p == Parse(file) IN pkt' = p.pkt /\ file' = p.file
  /\ tx' = "send"
  /\ UNCHANGED <<st, status, error, msp, lost, clean>> /\ DataStays

NextPacket == tx' = (IF file.sent THEN "end" ELSE "parse") /\ UNCHANGED <<status, error>>
(* Seeded fault: the loop is left without the update having failed.        *)
DataFailsQuietly(e) == tx' = "end" /\ UNCHANGED <<status, error>>
DataFails(e) == tx' = "end" /\ status' = "failure" /\ error' = e

(* A packet whose transaction fails is not sent again and not checked.     *)
DataSend ==
  /\ tx = "send"
  /\ \E o \in Outcomes("data", 8) :
       /\ Happens(o)
       /\ IF o.ans = "ack" THEN tx' = "crc" /\ UNCHANGED <<status, error>>
          ELSE IF o.ans = "none" THEN NextPacket
          ELSE DataFails("resp")
       /\ lost' = IF o.ans = "none" THEN lost \cup {a \in Addr : Covers(pkt, a)} ELSE lost
  /\ UNCHANGED <<st, file, pkt>> /\ DataStays

(* matchcrc_postwrite: no answer, or one that is not valid, is a success.  *)
DataCrc ==
  /\ tx = "crc"
  /\ \E o \in Outcomes("crc", 9) :
       Happens(o) /\ IF o.ans \in {"crcbad", "nak"} THEN DataFails("crc") ELSE NextPacket
  /\ UNCHANGED <<st, file, pkt, lost>> /\ DataStays

DataDone ==
  /\ tx = "end" /\ tx' = "none"
  /\ file' = [file EXCEPT !.ptr = 0, !.flag = FALSE]
  /\ IF status # "failure" THEN st' = "LoadPc" /\ UNCHANGED status
     ELSE IF board = "vck5000" THEN st' = "Reboot" /\ status' = "progress"
     ELSE st' = "Idle" /\ UNCHANGED status
  /\ UNCHANGED <<error, pkt, msp, lost, clean>> /\ DataStays

LoadPc ==
  /\ st = "LoadPc"
  /\ \E o \in Outcomes("loadpc", 1) :
       /\ Happens(o)
       /\ IF o.ans = "started" THEN st' = "Idle" /\ status' = "success" ELSE UNCHANGED <<st, status>>
  /\ UNCHANGED <<error, retry, mode, bytes>> /\ UNCHANGED Rest

RebootBsl ==
  /\ st = "Reboot"
  /\ \E o \in Outcomes("reboot", 0) : Happens(o)
  /\ st' = "Idle" /\ status' = "success"
  /\ UNCHANGED <<error, retry, mode, bytes>> /\ UNCHANGED Rest

(* start_scfw_update and update_scfw, for a message of the SC comms task.  *)
Start ==
  /\ ~busy /\ started < MaxUpdates
  /\ image # "none"
  /\ busy' = TRUE /\ started' = started + 1 /\ lost' = {} /\ clean' = TRUE /\ mixed' = FALSE
  /\ IF st = "Idle" /\ status \in {"success", "failure"}
     THEN st' = "ScBslSync" /\ status' = "progress" /\ error' = "none"
     ELSE UNCHANGED <<st, status, error>>
  /\ UNCHANGED <<rc, retry, mode, bytes, active, query, board, syncLen, image, beyond, asked, msp, DataVars>>

(* Without a valid header in the FPT (fpt_sc_valid) nothing is done.       *)
StartRefused ==
  /\ ~busy /\ started < MaxUpdates
  /\ image = "none"
  /\ started' = started + 1 /\ rc' = "nofpt"
  /\ UNCHANGED <<fsm, active, query, board, syncLen, image, lost, clean, mixed, beyond, busy, asked, msp, DataVars>>

FinishUpdate ==
  /\ busy /\ status # "progress" /\ tx = "none"
  /\ busy' = FALSE /\ rc' = error /\ error' = "none" /\ active' = FALSE
  /\ UNCHANGED <<st, status, retry, mode, bytes, query, board, syncLen, image, lost, clean, mixed, beyond, started, asked, msp, DataVars>>

(* cl_vmc_sc_active: between updates the SC is asked until it answers.     *)
Poll ==
  /\ ~busy /\ ~active /\ msp.mode = "sc" /\ active' = TRUE
  /\ UNCHANGED <<fsm, rc, query, board, syncLen, image, lost, clean, mixed, beyond, busy, started, asked, msp, DataVars>>

Handlers == SyncScBsl \/ EnableBsl \/ SyncVmcBsl \/ UnlockBsl \/ MassErase \/ LoadPc \/ RebootBsl
DataStep == DataBegin \/ DataSymbol \/ DataParse \/ DataSend \/ DataCrc \/ DataDone
TaskStep == Start \/ StartRefused \/ (busy /\ status = "progress" /\ tx = "none" /\ Handlers) \/ DataStep \/ FinishUpdate \/ Poll

(* get_fpt_sc_version in the opcode task: the pointer is reset, the header *)
(* is read and, if it is valid, the version is parsed in a critical        *)
(* section.                                                                *)
QueryStays == UNCHANGED <<fsm, rc, tx, pkt, msp, active, board, syncLen, image, lost, clean, busy, started>>

QueryBegin ==
  /\ query = "idle" /\ asked < MaxQueries
  /\ query' = (IF image = "none" THEN "idle" ELSE "parse") /\ asked' = asked + 1
  /\ file' = [file EXCEPT !.ptr = 0] /\ mixed' = (mixed \/ tx # "none")
  /\ UNCHANGED beyond /\ QueryStays

QueryParse ==
  /\ query = "parse" /\ query' = "idle"
  /\ file' = [file EXCEPT !.ptr = IF @ < QueryLen THEN QueryLen ELSE Len(File),
                          !.flag = FALSE, !.addr = Base[Len(Sections)]]
  /\ beyond' = (beyond \/ file.ptr >= QueryLen) /\ mixed' = (mixed \/ tx # "none")
  /\ UNCHANGED asked /\ QueryStays

QueryStep == QueryBegin \/ QueryParse
UpdateNext == TaskStep \/ QueryStep
UpdateSpec == UpdateInit /\ [][UpdateNext]_updateVars /\ WF_updateVars(TaskStep) /\ WF_updateVars(QueryParse)

----------------------------------------------------------------------------
(* Every variable has its type.                                            *)
UpdateTypeOK ==
  /\ board \in {"vck5000", "later"} /\ syncLen \in {1, 8} /\ image \in {"whole", "headless", "none"}
  /\ st \in States /\ status \in {"success", "failure", "progress"} /\ {error, rc} \subseteq Errors
  /\ retry \in [Counted -> 0..(MaxRetry - 1)] /\ mode \in 0..(MaxMode - 1) /\ bytes \in {1, 8, 11}
  /\ file.ptr \in 0..Len(File) /\ {file.flag, file.sent, active, clean, mixed, beyond, busy} \subseteq BOOLEAN
  /\ tx \in {"none", "symbol", "parse", "send", "crc", "end"} /\ Len(pkt.lines) \in 0..PktLines
  /\ msp.mode \in {"sc", "bsl", "dead"} /\ msp.unlocked \in BOOLEAN
  /\ msp.flash \in [Addr -> {"old", "blank", "own", "wrong"}]
  /\ query \in {"idle", "parse"} /\ lost \subseteq Addr
  /\ started \in 0..MaxUpdates /\ asked \in 0..MaxQueries

Ending == busy /\ status # "progress" /\ tx = "none"

(* An update that reports success has put every line of the image at its   *)
(* address, except the lines of packets whose transaction failed, which    *)
(* send_data_to_bsl skips; a version query while packets are being sent    *)
(* voids this (vmc_update_sc.c:474).                                       *)
SuccessMissesOnlyLost ==
  Ending /\ error = "none" /\ ~mixed => \A a \in Addr : msp.flash[a] = "own" \/ a \in lost

(* An update from a whole image during which the wire works succeeds, in   *)
(* whatever state the update before it left the SC and the static counters *)
(* of the handlers.                                                        *)
CleanUpdateSucceeds ==
  Ending /\ image = "whole" /\ clean /\ ~mixed /\ msp.mode # "dead" => error = "none" /\ Complete /\ msp.mode = "sc"

(* Every update comes to an end, unless it stays in loadpc_bsl.            *)
UpdateEndsBeforeLoadPc == busy ~> ~busy \/ st = "LoadPc"

=============================================================================
