---------------------------- MODULE MsdcBringUp ----------------------------
(* InitMsdc (MsdcDxe.c with MsdcImplLib.c): every enabled host in turn is  *)
(* clocked, powered, identified and installed, or undone again; later the  *)
(* ExitBootServices callback hands the installed hosts to the OS.  Each    *)
(* card command, regulator write and step of the script is a step here;    *)
(* ClockSetEnable is one (ClockTree).                                      *)
(*                                                                         *)
(* A command may be lost, or obeyed by a card whose answer is lost; a      *)
(* regulator write may fail without effect or, as MT6358 writes that time  *)
(* out waiting for idle, take effect and still report an error.            *)
EXTENDS ClockTree, FiniteSets

CONSTANTS
  NumberOfHosts,  \* gPlatformInfo.NumberOfHosts, PcdMsdcHostMask all ones
  Preserved,      \* hosts of PcdMsdcPreserveBootStateMask
  FullWidth,      \* PcdMsdcEmmcBusWidth, PcdMsdcRemovableBusWidth
  MaxRetry,       \* MSDC_OCR_RETRY_COUNT_EMMC and _SD
  Sel,            \* selectors of the clock tree, which the driver keeps
  HostClocks,     \* HostClocks[h]: what ClockControl switches, in order
  SourceClocks    \* SourceClocks[h]: what SourceClockControl switches

Hosts == 0 .. NumberOfHosts - 1
IsEmmc(h) == h = 0

ASSUME HostsAssumption ==
  /\ NumberOfHosts \in Nat \ {0} /\ MaxRetry \in Nat \ {0}
  /\ Preserved \subseteq Hosts
  /\ FullWidth \in [Hosts -> {1, 4, 8}]
  /\ \A h \in Hosts : ~IsEmmc(h) => FullWidth[h] # 8

(* With the selectors as they are, the way up from a clock never comes     *)
(* back to it: ClockSetEnable returns.                                     *)
ASSUME TreeAssumption ==
  /\ Sel \in [Muxes -> SelValues]
  /\ \A S \in SUBSET Clock :
       S # {} => \E c \in S : Parent(Sel, c) \notin S

VARIABLES
  stage,       \* "init", "ready", "handoff", "over", or "unloaded"
  cur,         \* the host InitMsdc or the callback works on
  at,          \* the next step for that host
  retry,       \* Retry of the OCR loops
  card,        \* card[h]: bus state, width, CMD55 seen, switch error
  width,       \* bus width field of SDC_CFG
  mclk,        \* rate MsdcSetMclk last left running
  rail,        \* card supplies that are on
  reg,         \* clock tree registers
  registered,  \* mMsdcHosts and the installed protocols
  powered,     \* hosts whose identification has begun
  fault,       \* regulator errors met: "error", and "ioOn" for an enable of
               \* the I/O supply that reported one with the supply on
  deaf         \* hosts whose last CMD0 did not reach the card

vars == <<stage, cur, at, retry, card, width, mclk, rail, reg, registered,
          powered, fault, deaf>>
flow == <<stage, cur, at, retry>>

CardStates == {"off", "idle", "ready", "ident", "stby", "tran"}
Card(st, w) == [st |-> st, width |-> w, app |-> FALSE, err |-> FALSE]

Steps ==
  {"PRESENT", "ALLOC", "REGION", "GPIO", "CLOCK", "RESET", "VOLTAGE",
   "ON_VMMC", "ON_VQMMC", "ROLLBACK", "MCLK", "GO_IDLE",
   "IF_COND", "APP_INQUIRE", "INQUIRE", "APP_OP", "OP_COND", "ALL_SEND_CID",
   "SET_RCA", "SELECT", "APP_WIDTH", "SET_WIDTH", "SWITCH_FUNC",
   "SWITCH_WIDTH", "CHECK_WIDTH", "HS_TIMING", "SEND_STATUS",
   "MCLK_FAST", "INSTALL", "OFF_VQMMC", "OFF_VMMC", "OFF_CLOCK",
   "CMD0", "NARROW"}

AllRails(h) == IF IsEmmc(h) THEN {"vmmc"} ELSE {"vmmc", "vqmmc"}

(* LK has trained the eMMC; it may have used the microSD or not.           *)
Init ==
  /\ stage = "init" /\ cur = 0 /\ at = "PRESENT" /\ retry = 0
  /\ \E sd \in {"off", "tran"} :
       /\ card = [h \in Hosts |->
            IF IsEmmc(h) THEN Card("tran", FullWidth[h])
            ELSE Card(sd, IF sd = "tran" THEN FullWidth[h] ELSE 1)]
       /\ width = [h \in Hosts |-> card[h].width]
       /\ rail = [h \in Hosts |->
            IF IsEmmc(h) \/ sd = "tran" THEN AllRails(h) ELSE {}]
  /\ mclk = [h \in Hosts |-> "boot"]
  /\ reg = [c \in Clock |-> OnBits(c)]
  /\ registered = {} /\ powered = {} /\ fault = {} /\ deaf = {}
-----------------------------------------------------------------------------
(* The flow of InitMsdc and of the identification routines.                *)

GoTo(step) == at' = step /\ UNCHANGED <<stage, cur>>

NextHost ==
  /\ at' = "PRESENT" /\ cur' = cur + 1
  /\ stage' = IF cur' = NumberOfHosts THEN "ready" ELSE "init"

(* The script after the card's supplies are on. *)
After(step, h) ==
  CASE step = "GO_IDLE"      -> IF IsEmmc(h) THEN "OP_COND" ELSE "IF_COND"
    [] step = "IF_COND"      -> "APP_INQUIRE"
    [] step = "APP_INQUIRE"  -> "INQUIRE"
    [] step = "INQUIRE"      -> "APP_OP"
    [] step = "APP_OP"       -> "OP_COND"
    [] step = "OP_COND"      -> "ALL_SEND_CID"
    [] step = "ALL_SEND_CID" -> "SET_RCA"
    [] step = "SET_RCA"      -> "SELECT"
    [] step = "SELECT" /\ FullWidth[h] = 1 ->
         IF IsEmmc(h) THEN "HS_TIMING" ELSE "SWITCH_FUNC"
    [] step = "SELECT" /\ FullWidth[h] # 1 ->
         IF IsEmmc(h) THEN "SWITCH_WIDTH" ELSE "APP_WIDTH"
    [] step = "APP_WIDTH"    -> "SET_WIDTH"
    [] step = "SET_WIDTH"    -> "SWITCH_FUNC"
    [] step = "SWITCH_FUNC"  -> "SEND_STATUS"
    [] step = "SWITCH_WIDTH" -> "CHECK_WIDTH"
    [] step = "CHECK_WIDTH"  -> "HS_TIMING"
    [] step = "HS_TIMING"    -> "SEND_STATUS"
    [] step = "SEND_STATUS"  -> "MCLK_FAST"

(* Mutant: the preserve mask is not consulted. *)
UndoAll(h) == GoTo(IF IsEmmc(h) THEN "OFF_VMMC" ELSE "OFF_VQMMC")

(* Mutant: the main supply goes first. *)
UndoMainFirst(h) == IF h \in Preserved THEN NextHost ELSE GoTo("OFF_VMMC")

(* No usable card, or no protocol installed: what was switched on is       *)
(* switched off, except on a host that keeps LK's state.                   *)
Undo(h) ==
  IF h \in Preserved THEN NextHost
  ELSE GoTo(IF IsEmmc(h) THEN "OFF_VMMC" ELSE "OFF_VQMMC")

InitFailed(h) == IF h \in Preserved THEN NextHost ELSE GoTo("OFF_CLOCK")

(* SetEnable on each of the clocks: every stage above them is written.     *)
Stages == [c \in Clock |-> Range(Path(Sel, c))]
Switched(clocks, enable) ==
  [c \in Clock |-> IF \E i \in DOMAIN clocks : c \in Stages[clocks[i]]
                   THEN BitsAfter(c, enable) ELSE reg[c]]

OwnClocks(h) == Range(HostClocks[h]) \cup Range(SourceClocks[h])

(* MsdcImplLib.c: what is switched for a host are gates and mux gates.     *)
(* They and all that is above them have the common sense and selectors in  *)
(* range, and none is on the way from another host's clocks to the root;   *)
(* the hosts share what is above, PLLs and bus clocks.                     *)
ASSUME HostClocksAssumption ==
  /\ HostClocks \in [Hosts -> Seq(Clock)]
  /\ SourceClocks \in [Hosts -> Seq(Clock)]
  /\ \A h \in Hosts : \A c \in OwnClocks(h) :
       /\ Type[c] \in {"MuxGate", "Gate"}
       /\ Stages[c] \cap (Inverted \cup StatusOnly \cup {NoClock}) = {}
  /\ \A h, k \in Hosts : h # k =>
       \A c \in OwnClocks(h), d \in OwnClocks(k) : c \notin Stages[d]

cards  == <<card, deaf>>
power  == <<rail, fault, powered>>
control == <<width, mclk, reg>>

(* Host 0 is soldered; the others have a card detect pin, which may also   *)
(* fail to read.                                                           *)
GetCardPresent(h) ==
  /\ at = "PRESENT"
  /\ \/ GoTo("ALLOC")
     \/ ~IsEmmc(h) /\ NextHost
  /\ retry' = 0
  /\ UNCHANGED <<cards, power, control, registered>>

(* Without memory InitMsdc fails as a whole, and the DXE core unloads a    *)
(* driver whose entry point fails.                                         *)
AllocatePrivate(h) ==
  /\ at = "ALLOC"
  /\ \/ GoTo("REGION")
     \/ stage' = "unloaded" /\ UNCHANGED <<cur, at>>
  /\ UNCHANGED <<retry, cards, power, control, registered>>

LocateRegion(h) ==
  /\ at = "REGION"
  /\ GoTo("GPIO") \/ NextHost
  /\ UNCHANGED <<retry, cards, power, control, registered>>

InitGpio(h) ==
  /\ at = "GPIO"
  /\ \/ GoTo("CLOCK")
     \/ h \notin Preserved /\ InitFailed(h)
  /\ UNCHANGED <<retry, cards, power, control, registered>>

(* ClockControl (TRUE): the selectors of these clocks are in range.        *)
ClockOn(h) ==
  /\ at = "CLOCK" /\ GoTo("RESET")
  /\ reg' = Switched(HostClocks[h], TRUE)
  /\ UNCHANGED <<retry, cards, power, width, mclk, registered>>

(* The rest of MsdcInit; the reset or the FIFO clear may time out.  The    *)
(* host then goes to identification, which starts with PowerControl.       *)
ResetHost(h) ==
  /\ at = "RESET"
  /\ \/ /\ GoTo(IF h \in Preserved THEN "MCLK"
                ELSE IF IsEmmc(h) THEN "ON_VMMC" ELSE "VOLTAGE")
        /\ width' = [width EXCEPT ![h] = 1]
        /\ powered' = powered \cup {h}
     \/ InitFailed(h) /\ UNCHANGED <<width, powered>>
  /\ UNCHANGED <<retry, cards, rail, fault, mclk, reg, registered>>
-----------------------------------------------------------------------------
(* PowerControl.  A card loses everything with its main supply.            *)

SetVoltages(h) ==
  /\ at = "VOLTAGE"
  /\ \/ GoTo("ON_VMMC") /\ UNCHANGED fault
     \/ Undo(h) /\ fault' = fault \cup {"error"}
  /\ UNCHANGED <<retry, cards, rail, powered, control, registered>>

Supplied(h, on) ==
  /\ rail' = [rail EXCEPT ![h] = on]
  /\ card' = [card EXCEPT ![h] =
       IF "vmmc" \notin on THEN Card("off", 1)
       ELSE IF @.st = "off" THEN Card("idle", 1) ELSE @]

RegulatorDone(h, on) == Supplied(h, on) /\ UNCHANGED fault
RegulatorFailed(h, on) ==
  /\ UNCHANGED <<rail, card>> \/ Supplied(h, on)
  /\ fault' = fault \cup {"error"} \cup
       (IF at = "ON_VQMMC" /\ "vqmmc" \in rail'[h] THEN {"ioOn"} ELSE {})

(* The regulator calls of one host: the step, the supply, its new state,   *)
(* what follows success and what follows an error.                         *)
Regulator(h, step, on, done, failed) ==
  /\ at = step
  /\ \/ RegulatorDone(h, on) /\ done
     \/ RegulatorFailed(h, on) /\ failed
  /\ UNCHANGED <<retry, deaf, powered, control, registered>>

EnableVmmc(h) ==
  Regulator(h, "ON_VMMC", rail[h] \cup {"vmmc"},
            GoTo(IF IsEmmc(h) THEN "MCLK" ELSE "ON_VQMMC"), Undo(h))
EnableVqmmc(h) ==
  Regulator(h, "ON_VQMMC", rail[h] \cup {"vqmmc"},
            GoTo("MCLK"), GoTo("ROLLBACK"))
RollbackVmmc(h) ==
  Regulator(h, "ROLLBACK", rail[h] \ {"vmmc"}, Undo(h), Undo(h))
DisableVqmmc(h) ==
  Regulator(h, "OFF_VQMMC", rail[h] \ {"vqmmc"},
            GoTo("OFF_VMMC"), GoTo("OFF_CLOCK"))
DisableVmmc(h) ==
  Regulator(h, "OFF_VMMC", rail[h] \ {"vmmc"},
            GoTo("OFF_CLOCK"), GoTo("OFF_CLOCK"))

PowerControl(h) ==
  \/ SetVoltages(h) \/ EnableVmmc(h) \/ EnableVqmmc(h) \/ RollbackVmmc(h)
  \/ DisableVqmmc(h) \/ DisableVmmc(h)

(* ClockControl (FALSE) walks up to the PLLs. *)
ClockOff(h) ==
  /\ at = "OFF_CLOCK" /\ NextHost
  /\ reg' = Switched(HostClocks[h], FALSE)
  /\ UNCHANGED <<retry, cards, power, width, mclk, registered>>

(* MsdcSetMclk: a clock that does not stabilise is left stopped.           *)
SetMclk(h) ==
  /\ at \in {"MCLK", "MCLK_FAST"}
  /\ reg' = Switched(SourceClocks[h], TRUE)
  /\ \/ /\ mclk' = [mclk EXCEPT ![h] = IF at = "MCLK" THEN "400k" ELSE "fast"]
        /\ GoTo(IF at = "MCLK" THEN "GO_IDLE" ELSE "INSTALL")
     \/ mclk' = [mclk EXCEPT ![h] = "stopped"] /\ Undo(h)
  /\ UNCHANGED <<retry, cards, power, width, registered>>
-----------------------------------------------------------------------------
(* The card: how it takes a command in the state it is in, as the set of   *)
(* its new state and the status bit it answers with (OCR ready, switch     *)
(* error).  The empty set: it does not answer.                             *)

Answer(c, bit) == {[card |-> c, bit |-> bit]}
Plain(c)       == [c EXCEPT !.app = FALSE]
To(c, st)      == [c EXCEPT !.st = st, !.app = FALSE]
InState(c, st, answers) == IF c.st = st THEN answers ELSE {}

Reactions(h, step, c) ==
  CASE step \in {"GO_IDLE", "CMD0"} ->
         IF c.st = "off" THEN {} ELSE Answer(Card("idle", 1), FALSE)
    [] step = "IF_COND" -> InState(c, "idle", Answer(Plain(c), FALSE))
    [] step \in {"APP_INQUIRE", "APP_OP"} ->
         InState(c, "idle", Answer([c EXCEPT !.app = TRUE], FALSE))
    [] step = "INQUIRE" /\ c.app ->
         InState(c, "idle", Answer(Plain(c), FALSE))
    [] step = "OP_COND" /\ (IsEmmc(h) \/ c.app) ->
         InState(c, "idle",
                 Answer(To(c, "ready"), TRUE) \cup Answer(Plain(c), FALSE))
    [] step = "ALL_SEND_CID" ->
         InState(c, "ready", Answer(To(c, "ident"), FALSE))
    [] step = "SET_RCA" -> InState(c, "ident", Answer(To(c, "stby"), FALSE))
    [] step = "SELECT"  -> InState(c, "stby", Answer(To(c, "tran"), FALSE))
    [] step = "APP_WIDTH" ->
         InState(c, "tran", Answer([c EXCEPT !.app = TRUE], FALSE))
    [] step = "SET_WIDTH" /\ c.app ->
         InState(c, "tran",
                 Answer([Plain(c) EXCEPT !.width = FullWidth[h]], FALSE))
    [] step = "SWITCH_FUNC" /\ ~c.app ->
         InState(c, "tran", Answer(c, FALSE))
    [] step = "SWITCH_WIDTH" ->
         InState(c, "tran",
                 Answer([c EXCEPT !.width = FullWidth[h]], FALSE)
                   \cup Answer([c EXCEPT !.err = TRUE], FALSE))
    [] step = "HS_TIMING" ->
         InState(c, "tran", {[card |-> [c EXCEPT !.err = e], bit |-> FALSE] :
                             e \in BOOLEAN})
    [] step \in {"CHECK_WIDTH", "SEND_STATUS"} ->
         InState(c, "tran", Answer([c EXCEPT !.err = FALSE], c.err))
    [] OTHER -> {}

CardCommands ==
  {"GO_IDLE", "IF_COND", "APP_INQUIRE", "INQUIRE", "APP_OP", "OP_COND",
   "ALL_SEND_CID", "SET_RCA", "SELECT", "APP_WIDTH", "SET_WIDTH",
   "SWITCH_FUNC", "SWITCH_WIDTH", "CHECK_WIDTH", "HS_TIMING", "SEND_STATUS"}

(* A data phase needs both ends on the same number of lines.               *)
DataFits(h) == at = "SWITCH_FUNC" => width[h] = card[h].width

(* Mutant: the host widens whatever the card answers. *)
WidthAnsweredAny(h, bit) ==
  IF at \in {"SET_WIDTH", "CHECK_WIDTH"} THEN FullWidth[h] ELSE width[h]

(* MsdcSetBusWidth after the card has agreed to the width, or not.         *)
WidthAnswered(h, bit) ==
  CASE at = "SET_WIDTH"   -> FullWidth[h]
    [] at = "CHECK_WIDTH" -> IF bit THEN 1 ELSE FullWidth[h]
    [] OTHER -> width[h]

(* Mutant: the loop has no bound. *)
RetryLeftAlways(n) == TRUE

RetryLeft(n) == n + 1 < MaxRetry

Proceed(h, bit) ==
  \/ /\ at = "OP_COND" /\ ~bit
     /\ \/ /\ RetryLeft(retry) /\ retry' = (retry + 1) % MaxRetry
           /\ GoTo(IF IsEmmc(h) THEN "OP_COND" ELSE "APP_OP")
        \/ ~RetryLeft(retry) /\ retry' = 0 /\ Undo(h)
  \/ at = "SEND_STATUS" /\ bit /\ Undo(h) /\ UNCHANGED retry
  \/ /\ (at = "OP_COND" => bit) /\ (at = "SEND_STATUS" => ~bit)
     /\ GoTo(After(at, h)) /\ UNCHANGED retry

(* A failed width negotiation keeps one bit and goes on; any other failed  *)
(* command ends the identification.                                        *)
Fail(h) ==
  \/ /\ at \in {"APP_WIDTH", "SET_WIDTH", "SWITCH_WIDTH"}
     /\ GoTo(IF IsEmmc(h) THEN "HS_TIMING" ELSE "SWITCH_FUNC")
     /\ width' = [width EXCEPT ![h] = 1]
  \/ /\ at \notin {"APP_WIDTH", "SET_WIDTH", "SWITCH_WIDTH"}
     /\ Undo(h) /\ UNCHANGED width

CommandAnswered(h) ==
  /\ at \in CardCommands /\ DataFits(h)
  /\ \E r \in Reactions(h, at, card[h]) :
       /\ card' = [card EXCEPT ![h] = r.card]
       /\ width' = [width EXCEPT ![h] = WidthAnswered(h, r.bit)]
       /\ Proceed(h, r.bit)
  /\ deaf' = IF at = "GO_IDLE" THEN deaf \ {h} ELSE deaf
  /\ UNCHANGED <<power, mclk, reg, registered>>

(* The card obeys and its answer is lost; CMD0 has none to lose.           *)
AnswerLost(h) ==
  /\ at \in CardCommands \ {"GO_IDLE"}
  /\ \E r \in Reactions(h, at, card[h]) : card' = [card EXCEPT ![h] = r.card]
  /\ Fail(h)
  /\ UNCHANGED <<retry, deaf, power, mclk, reg, registered>>

(* The command does not reach the card, or reaches it in a state where it  *)
(* does not answer.                                                        *)
CommandLost(h) ==
  /\ at \in CardCommands
  /\ \/ UNCHANGED card
     \/ Reactions(h, at, card[h]) = {}
          /\ card' = [card EXCEPT ![h].app = FALSE]
  /\ Fail(h)
  /\ deaf' = IF at = "GO_IDLE" THEN deaf \cup {h} ELSE deaf
  /\ UNCHANGED <<retry, power, mclk, reg, registered>>

(* CMD0 goes out, is not understood, and nobody notices.                   *)
ResetUnheard(h) ==
  /\ at = "GO_IDLE" /\ GoTo(After(at, h))
  /\ deaf' = deaf \cup {h}
  /\ UNCHANGED <<retry, card, power, control, registered>>

(* InstallMultipleProtocolInterfaces, then mMsdcHosts.                     *)
Install(h) ==
  /\ at = "INSTALL"
  /\ \/ registered' = registered \cup {h} /\ NextHost
     \/ UNCHANGED registered /\ Undo(h)
  /\ UNCHANGED <<retry, cards, power, control>>

InitMsdc ==
  /\ stage = "init"
  /\ \/ GetCardPresent(cur) \/ AllocatePrivate(cur) \/ LocateRegion(cur)
     \/ InitGpio(cur) \/ ClockOn(cur) \/ ResetHost(cur) \/ PowerControl(cur)
     \/ ClockOff(cur) \/ SetMclk(cur) \/ Install(cur)
     \/ CommandAnswered(cur) \/ AnswerLost(cur) \/ CommandLost(cur)
     \/ ResetUnheard(cur)
-----------------------------------------------------------------------------
(* MsdcExitBootServices.                                                   *)

SignalExitBootServices ==
  /\ stage = "ready" /\ stage' = "handoff" /\ cur' = 0 /\ at' = "CMD0"
  /\ UNCHANGED <<retry, cards, power, control, registered>>

NextHandoff ==
  /\ at' = "CMD0" /\ cur' = cur + 1
  /\ stage' = IF cur' = NumberOfHosts THEN "over" ELSE "handoff"

SkipHandoff ==
  /\ stage = "handoff" /\ at = "CMD0" /\ cur \notin registered
  /\ NextHandoff
  /\ UNCHANGED <<retry, cards, power, control, registered>>

(* CardReset: the card may not hear it; success is not required to go on.  *)
HandoffReset ==
  /\ stage = "handoff" /\ at = "CMD0" /\ cur \in registered /\ GoTo("NARROW")
  /\ \/ /\ \E r \in Reactions(cur, "CMD0", card[cur]) :
             card' = [card EXCEPT ![cur] = r.card]
        /\ deaf' = deaf \ {cur}
     \/ deaf' = deaf \cup {cur} /\ UNCHANGED card
  /\ UNCHANGED <<retry, power, control, registered>>

(* Mutant: the host keeps its width. *)
HandoffWidthKept(w, h) == w

HandoffWidth(w, h) == [w EXCEPT ![h] = 1]

HandoffNarrow ==
  /\ stage = "handoff" /\ at = "NARROW" /\ NextHandoff
  /\ width' = HandoffWidth(width, cur)
  /\ mclk' \in {[mclk EXCEPT ![cur] = rate] : rate \in {"400k", "stopped"}}
  /\ reg' = Switched(SourceClocks[cur], TRUE)
  /\ UNCHANGED <<retry, cards, power, registered>>

Next ==
  \/ InitMsdc \/ SignalExitBootServices
  \/ SkipHandoff \/ HandoffReset \/ HandoffNarrow

(* The driver runs to completion; nobody has to call ExitBootServices.     *)
Spec ==
  /\ Init /\ [][Next]_vars
  /\ WF_vars(InitMsdc)
  /\ WF_vars(SkipHandoff \/ HandoffReset \/ HandoffNarrow)
-----------------------------------------------------------------------------
Gated(clocks)    == \E i \in DOMAIN clocks : "gate" \in reg[clocks[i]]
AllGated(clocks) == \A i \in DOMAIN clocks : "gate" \in reg[clocks[i]]
Processed(h)     == stage \notin {"init", "unloaded"} \/ h < cur
InUse            == stage \in {"init", "ready"}

(* Later hosts given up: ClockControl (FALSE) has closed their gates.      *)
GivenUpAfter(h) == {k \in Hosts : h < k /\ Gated(HostClocks[k])}

(* Every stage from the clocks of host h up to the root runs, unless it    *)
(* feeds a later host that was given up: the clock driver counts no        *)
(* references (MsdcDxe.c:1930, ClockDxe.c:207-212).                        *)
Clocked(h) ==
  \A c \in OwnClocks(h) : \A s \in Stages[c] :
    \/ StageOn(reg, s)
    \/ \E k \in GivenUpAfter(h) : \E d \in Range(HostClocks[k]) : s \in Stages[d]

(* An installed host is powered, its card is selected and at least as wide *)
(* as the host, its own gates are open, its clock was last set to the full *)
(* rate and all above the gates runs, whatever commands, regulator writes  *)
(* or resets failed on the way.  Giving up on a later host can stop the    *)
(* PLLs and bus clocks they share, and nothing else of it.                 *)
InstalledReady ==
  InUse => \A h \in registered :
    /\ rail[h] = AllRails(h) /\ ~Gated(HostClocks[h] \o SourceClocks[h])
    /\ card[h].st = "tran" /\ ~card[h].app /\ mclk[h] = "fast"
    /\ width[h] <= card[h].width
    /\ Clocked(h)

(* The I/O supply is never on without the card supply, through power-up,   *)
(* rollback and power-down with failing regulator writes, unless enabling  *)
(* the I/O supply reported an error and left it on: the rollback then      *)
(* removes the card supply under it (MsdcImplLib.c:209-214).  And a host   *)
(* whose identification or installation failed is left unpowered and       *)
(* gated, wherever it failed, if its regulators answered                   *)
(* (MsdcDxe.c:1926-1935).                                                  *)
RailsSafe ==
  /\ "ioOn" \notin fault =>
       \A h \in Hosts : "vqmmc" \in rail[h] => "vmmc" \in rail[h]
  /\ \A h \in powered \ (registered \cup Preserved) :
       Processed(h) /\ fault = {} => rail[h] = {} /\ AllGated(HostClocks[h])

(* A host of the preserve mask loses neither supplies nor gates.           *)
PreservedKept ==
  [][\A h \in Preserved :
       /\ rail'[h] = rail[h]
       /\ ~Gated(HostClocks[h]) => ~Gated(HostClocks[h])']_vars

(* After the callback, card and host of an installed slot agree on one bit *)
(* and the card is back in identification, unless it missed CMD0.          *)
HandoffSafe ==
  stage = "over" => \A h \in registered \ deaf :
    /\ card[h] = Card("idle", 1) /\ width[h] = 1
    /\ mclk[h] \in {"400k", "stopped"}

(* InitMsdc returns, with cards that never get ready or stop answering as  *)
(* well (the retry bound at MsdcDxe.c:1695-1712).                          *)
InitReturns == <>(stage # "init")
-----------------------------------------------------------------------------
(* "Negotiation failure falls back safely to 1-bit" (the handoff notes),   *)
(* which the code does not keep.                                           *)
WidthsAgree ==
  InUse => \A h \in registered : width[h] = card[h].width
=============================================================================
