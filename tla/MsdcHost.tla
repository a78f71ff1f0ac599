------------------------------ MODULE MsdcHost ------------------------------
(***************************************************************************)
(* The MediaTek MSDC command engine of MsdcDxe: MsdcPassThru / MsdcSendCmd *)
(* and the polling loops below them, run against the controller registers. *)
(*                                                                         *)
(* Driver and controller are two processes that share registers.  Every    *)
(* driver action is one register access (or several between which the      *)
(* controller cannot change what they read), so the controller may raise a *)
(* status, fill or drain the FIFO or finish a reset between any two.       *)
(*                                                                         *)
(* Data is measured in units.  A unit, a status bit and a running phase of *)
(* the controller carry the number of the transaction that caused them, so *)
(* that a leftover of an earlier transaction can be told from the current  *)
(* one; the hardware and the driver never look at that number.             *)
(***************************************************************************)
EXTENDS Naturals, Sequences, FiniteSets

CONSTANTS
  Packets,        \* the packets the bus drivers may pass in
  MaxTxn,         \* bound: transactions per behaviour
  FifoUnits,      \* MSDC_FIFO_SIZE, in units
  BlockUnits,     \* BLOCK_SIZE, in units
  MaxBlkUnits,    \* the largest value of the 12-bit block size field
  ControlPolls,   \* polls of a reset or FIFO clear before it is given up
  BusyPolls,      \* polls of SDC_STS
  CommandPolls,   \* polls for the command status
  DataPolls,      \* polls of the data phase
  CardType        \* "sd" or "emmc": SdInfo.CardType of this host

Indexes == {"READ_SINGLE", "WRITE_SINGLE", "READ_MULTIPLE",
            "WRITE_MULTIPLE", "STOP", "OTHER"}
CommandTypes  == {"Bc", "Bcr", "Ac", "Adtc"}
ResponseTypes == {"R1", "R1b", "R2", "R3", "R4", "R5", "R5b", "R6", "R7"}

Packet == [index : Indexes, type : CommandTypes, resp : ResponseTypes,
           inLen : Nat, outLen : Nat]

ASSUME HostAssumption ==
  /\ Packets \subseteq Packet
  /\ MaxTxn \in Nat
  /\ FifoUnits \in Nat \ {0}
  /\ BlockUnits \in Nat \ {0}
  /\ MaxBlkUnits \in Nat
  /\ {ControlPolls, BusyPolls, CommandPolls, DataPolls} \subseteq Nat \ {0}
  /\ CardType \in {"sd", "emmc"}

-----------------------------------------------------------------------------
(* Reading a packet: the local variables MsdcSendCmd derives from it.       *)

TransferLength(p) == IF p.inLen # 0 THEN p.inLen ELSE p.outLen
IsDataTransfer(p) == TransferLength(p) # 0
IsRead(p)         == p.inLen # 0
IsMultiple(p)     == p.index \in {"READ_MULTIPLE", "WRITE_MULTIPLE"}

(* Mutant: only the response type decides whether DAT0 is waited for. *)
WaitR1bOnly(p)  == p.resp \in {"R1b", "R5b"}
WaitDataBusy(p) == IsDataTransfer(p) \/ p.resp \in {"R1b", "R5b"}

BlkSize(p) == IF IsMultiple(p) THEN BlockUnits ELSE TransferLength(p)
Auto12(p)  == IsDataTransfer(p) /\ IsMultiple(p) /\ CardType = "sd"

(* The parameter checks of MsdcSendCmd, in the order of the code. *)
CheckPacket(p) ==
  CASE p.type # "Bc" /\ p.resp = "R5b"               -> "INVALID_PARAMETER"
    [] p.inLen # 0 /\ p.outLen # 0                   -> "INVALID_PARAMETER"
    [] IsDataTransfer(p) # (p.type = "Adtc")         -> "INVALID_PARAMETER"
    [] /\ p.index \in {"READ_SINGLE", "WRITE_SINGLE"}
       /\ TransferLength(p) # BlockUnits             -> "BAD_BUFFER_SIZE"
    [] /\ IsDataTransfer(p) /\ IsMultiple(p)
       /\ TransferLength(p) % BlockUnits # 0         -> "BAD_BUFFER_SIZE"
    [] IsDataTransfer(p) /\ BlkSize(p) > MaxBlkUnits -> "BAD_BUFFER_SIZE"
    [] OTHER                                         -> "SUCCESS"

-----------------------------------------------------------------------------
CmdErr  == {"CMDTMO", "CMDCRCERR"}
AcmdErr == {"ACMDTMO", "ACMDCRCERR"}
DatErr  == {"DATTMO", "DATCRCERR"}
CmdSts  == CmdErr \cup {"CMDRDY"}
AutoSts == AcmdErr \cup {"ACMDRDY"}
DatSts  == DatErr \cup AutoSts \cup {"XFER_COMPL"}
IntBits == CmdSts \cup DatSts

Txn      == 1 .. MaxTxn
Statuses == {"SUCCESS", "TIMEOUT", "CRC_ERROR", "ABORTED",
             "INVALID_PARAMETER", "BAD_BUFFER_SIZE"}
PcValues == {"idle", "waitReady", "fifoCheck", "reset", "clearFifo",
             "clearInt", "issue", "cmdPoll", "cmdAck", "readPoll",
             "readAck", "writePoll", "writeAck"}

VARIABLES
  (* the controller *)
  int,      \* MSDC_INT: the set of <<bit, transaction>> raised
  cmd,      \* transaction whose command is on the line, 0 for none: CMDBUSY
  stop,     \* transaction whose automatic CMD12 runs, 0 for none: CMDBUSY
  data,     \* the data phase armed by a command, txn = 0 for none: SDCBUSY
  left,     \* units that data phase has still to move
  dat0,     \* the card holds DAT0 low: SDCBUSY
  rx, tx,   \* the receive and transmit FIFO: owner of each unit
  rst, clr, \* MSDC_CFG_RST and MSDC_FIFOCS_CLR, self-clearing
  (* the driver *)
  pc,       \* where MsdcSendCmd is
  txn,      \* number of the current, or last, transaction
  pkt,      \* its packet
  poll,     \* Poll of the loop being run
  obs,      \* status sampled by the last read of MSDC_INT
  remain,   \* RemainSize
  complete, \* TransferComplete
  status,   \* Status
  (* history *)
  got,      \* owners of the units copied into the caller's buffer
  sent,     \* owners of the units the card took since the submission
  raised    \* bits the controller raised for the current transaction

hwVars  == <<int, cmd, stop, data, left, dat0, rx, tx, rst, clr>>
drvVars == <<pc, txn, pkt, poll, obs, remain, complete, status, got>>
vars    == <<hwVars, drvVars, sent, raised>>

NoData == [txn |-> 0, read |-> FALSE, auto12 |-> FALSE]

Bits(s) == {b[1] : b \in s}
Raise(bits, t) ==
  /\ int' = int \cup (bits \X {t})
  /\ raised' = IF t = txn THEN raised \cup bits ELSE raised

CmdBusy == cmd # 0 \/ stop # 0
SdcBusy == data.txn # 0 \/ dat0

-----------------------------------------------------------------------------
NoPacket == [index |-> "OTHER", type |-> "Bc", resp |-> "R1",
             inLen |-> 0, outLen |-> 0]

(* MsdcInit has reset the controller, cleared the FIFO and the interrupts. *)
Init ==
  /\ int = {} /\ cmd = 0 /\ stop = 0 /\ data = NoData /\ left = 0
  /\ dat0 = FALSE
  /\ rx = <<>> /\ tx = <<>> /\ rst = FALSE /\ clr = FALSE
  /\ pc = "idle" /\ txn = 0 /\ pkt = NoPacket
  /\ poll = 0 /\ obs = {} /\ remain = 0 /\ complete = FALSE
  /\ status = "ABORTED"
  /\ got = <<>> /\ sent = <<>> /\ raised = {}

-----------------------------------------------------------------------------
(* The controller.                                                          *)

(* The command line goes idle: a response, an error, or both at once.  The   *)
(* card may have acted on a command whose response was lost, so its data     *)
(* phase runs after an error, or does not.                                   *)
HwCommandDone ==
  /\ cmd # 0
  /\ \E bits \in {{"CMDRDY"}, {"CMDTMO"}, {"CMDCRCERR"},
                  {"CMDRDY", "CMDCRCERR"}} :
       /\ Raise(bits, cmd)
       /\ IF data.txn = cmd /\ bits # {"CMDRDY"}
          THEN data' \in {data, NoData}
          ELSE data' = data
  /\ left' = IF data'.txn = 0 THEN 0 ELSE left
  /\ dat0' \in IF cmd = txn /\ pkt.resp # "R1b" THEN {dat0} ELSE BOOLEAN
  /\ cmd' = 0
  /\ UNCHANGED <<stop, rx, tx, rst, clr, drvVars, sent>>

DataRuns == data.txn # 0 /\ cmd # data.txn

HwReceive ==
  /\ DataRuns /\ data.read /\ left > 0
  /\ Len(rx) < FifoUnits /\ ~clr
  /\ rx' = Append(rx, data.txn)
  /\ left' = left - 1
  /\ UNCHANGED <<int, cmd, stop, data, dat0, tx, rst, clr, drvVars, sent,
                 raised>>

HwTransmit ==
  /\ DataRuns /\ ~data.read /\ left > 0
  /\ tx # <<>>
  /\ sent' = Append(sent, Head(tx))
  /\ tx' = Tail(tx)
  /\ left' = left - 1
  /\ UNCHANGED <<int, cmd, stop, data, dat0, rx, rst, clr, drvVars, raised>>

(* The data phase ends: complete, or with an error at any point, or both.   *)
(* A multi-block transfer then runs its automatic CMD12; a card that took   *)
(* data may hold DAT0 while it programs.                                    *)
HwDataDone ==
  /\ DataRuns
  /\ \E bits \in {{"DATTMO"}, {"DATCRCERR"}} \cup
       (IF left = 0 THEN {{"XFER_COMPL"}, {"XFER_COMPL", "DATCRCERR"}}
                         ELSE {}) : Raise(bits, data.txn)
  /\ stop' = IF data.auto12 THEN data.txn ELSE stop
  /\ dat0' \in IF data.read THEN {dat0} ELSE BOOLEAN
  /\ data' = NoData /\ left' = 0
  /\ UNCHANGED <<cmd, rx, tx, rst, clr, drvVars, sent>>

HwStopDone ==
  /\ stop # 0
  /\ \E bit \in AutoSts : Raise({bit}, stop)
  /\ stop' = 0
  /\ UNCHANGED <<cmd, data, left, dat0, rx, tx, rst, clr, drvVars, sent>>

HwDat0Released ==
  /\ dat0
  /\ dat0' = FALSE
  /\ UNCHANGED <<int, cmd, stop, data, left, rx, tx, rst, clr, drvVars, sent,
                 raised>>

(* A reset aborts what the controller runs when it takes effect; until then *)
(* the controller goes on, however long the driver has stopped waiting.     *)
HwResetDone ==
  /\ rst
  /\ rst' = FALSE
  /\ cmd' = 0 /\ stop' = 0 /\ data' = NoData /\ left' = 0
  /\ UNCHANGED <<int, dat0, rx, tx, clr, drvVars, sent, raised>>

(* The FIFO is empty from the write of the CLR bit until the bit falls.     *)
HwClearDone ==
  /\ clr
  /\ clr' = FALSE
  /\ UNCHANGED <<int, cmd, stop, data, left, dat0, rx, tx, rst, drvVars, sent,
                 raised>>

Controller ==
  \/ HwCommandDone \/ HwReceive \/ HwTransmit \/ HwDataDone
  \/ HwStopDone \/ HwDat0Released \/ HwResetDone \/ HwClearDone

-----------------------------------------------------------------------------
(* The driver.                                                              *)

Goto(label)    == pc' = label /\ poll' = 0
Return(s)      == Goto("idle") /\ status' = s
LastPoll(n)    == poll + 1 >= n
Recovering     == status # "SUCCESS"
SetReset       == rst' = TRUE
SetClear       == clr' = TRUE /\ rx' = <<>> /\ tx' = <<>>
Acknowledge    == int' = {b \in int : b[1] \notin Bits(obs)}

(* Mutant: a ready status hides the error raised with it. *)
ReadyWins == IF "CMDRDY" \in Bits(obs) THEN {}
             ELSE Bits(obs) \cap (CmdErr \cup AcmdErr \cup DatErr)
Errors    == Bits(obs) \cap (CmdErr \cup AcmdErr \cup DatErr)

(* Mutant: a polling loop that does not count its polls. *)
PollForever(label) == pc' = label /\ UNCHANGED <<poll, status>>
PollAgain(label)   == pc' = label /\ poll' = poll + 1 /\ UNCHANGED status

(* Every error after SDC_CMD was written: reset, clear FIFO, clear status. *)
Recover(s) == /\ Goto("reset") /\ SetReset
              /\ status' = s

MsdcIntTrackError(bits) ==
  CASE "CMDTMO" \in bits     -> "TIMEOUT"
    [] "CMDCRCERR" \in bits  -> "CRC_ERROR"
    [] "ACMDTMO" \in bits    -> "TIMEOUT"
    [] "ACMDCRCERR" \in bits -> "CRC_ERROR"
    [] "DATTMO" \in bits     -> "TIMEOUT"
    [] OTHER                 -> "CRC_ERROR"

MsdcPassThru(p) ==
  /\ pc = "idle" /\ txn < MaxTxn
  /\ txn' = txn + 1
  /\ pkt' = p
  /\ status' = CheckPacket(p)
  /\ Goto(IF CheckPacket(p) = "SUCCESS" THEN "waitReady" ELSE "idle")
  /\ remain' = TransferLength(p)
  /\ complete' = FALSE
  /\ obs' = {} /\ got' = <<>> /\ sent' = <<>> /\ raised' = {}
  /\ UNCHANGED hwVars

MsdcWaitReady ==
  /\ pc = "waitReady"
  /\ LET isBusy == CmdBusy \/ (WaitDataBusy(pkt) /\ SdcBusy) IN
     \/ ~isBusy /\ Goto("fifoCheck") /\ UNCHANGED status
     \/ isBusy /\ ~LastPoll(BusyPolls)
        /\ PollAgain("waitReady")
     \/ isBusy /\ LastPoll(BusyPolls) /\ Return("TIMEOUT")
  /\ UNCHANGED <<hwVars, txn, pkt, obs, remain, complete, got, sent, raised>>

(* A FIFO that is not empty means the preceding transaction did not retire. *)
(* Mutant: only the transmit side is looked at.                             *)
StaleTransmit == tx # <<>>
StaleFifo == rx # <<>> \/ tx # <<>>

CheckFifo ==
  /\ pc = "fifoCheck"
  /\ IF StaleFifo
     THEN Goto("reset") /\ SetReset
     ELSE Goto("clearInt") /\ UNCHANGED rst
  /\ UNCHANGED <<int, cmd, stop, data, left, dat0, rx, tx, clr, txn, pkt, obs,
                 remain, complete, status, got, sent, raised>>

(* The reset before a command must finish; on the error path its result is  *)
(* ignored and the FIFO is cleared all the same.                            *)
MsdcReset ==
  /\ pc = "reset"
  /\ \/ /\ ~rst \/ (LastPoll(ControlPolls) /\ Recovering)
        /\ Goto("clearFifo") /\ SetClear /\ UNCHANGED status
     \/ /\ rst /\ ~LastPoll(ControlPolls)
        /\ PollAgain("reset") /\ UNCHANGED <<rx, tx, clr>>
     \/ /\ rst /\ LastPoll(ControlPolls) /\ ~Recovering
        /\ Return("TIMEOUT") /\ UNCHANGED <<rx, tx, clr>>
  /\ UNCHANGED <<int, cmd, stop, data, left, dat0, rst, txn, pkt, obs, remain,
                 complete, got, sent, raised>>

MsdcClearFifo ==
  /\ pc = "clearFifo"
  /\ \/ /\ ~clr \/ (LastPoll(ControlPolls) /\ Recovering)
        /\ Goto("clearInt") /\ UNCHANGED status
     \/ /\ clr /\ ~LastPoll(ControlPolls)
        /\ PollAgain("clearFifo")
     \/ /\ clr /\ LastPoll(ControlPolls) /\ ~Recovering
        /\ Return("TIMEOUT")
  /\ UNCHANGED <<hwVars, txn, pkt, obs, remain, complete, got, sent, raised>>

(* MSDC_INT is write-one-to-clear: read it and write back what was read.    *)
(* Mutant: the register is written with zero, which clears nothing.         *)
WrittenZero  == int
WrittenBack  == {}

MsdcClearInterrupts ==
  /\ pc = "clearInt"
  /\ int' = WrittenBack
  /\ Goto(IF Recovering THEN "idle" ELSE "issue")
  /\ UNCHANGED <<cmd, stop, data, left, dat0, rx, tx, rst, clr, txn, pkt, obs,
                 remain, complete, status, got, sent, raised>>

(* Writing SDC_CMD starts the command and arms its data phase. *)
WriteCommand ==
  /\ pc = "issue"
  /\ cmd' = txn
  /\ data' = IF IsDataTransfer(pkt)
             THEN [txn |-> txn, read |-> IsRead(pkt), auto12 |-> Auto12(pkt)]
             ELSE data
  /\ left' = IF IsDataTransfer(pkt) THEN TransferLength(pkt) ELSE left
  /\ Goto("cmdPoll")
  /\ UNCHANGED <<int, stop, dat0, rx, tx, rst, clr, txn, pkt, obs, remain,
                 complete, status, got, sent, raised>>

(* The read of MSDC_INT at the head of each polling loop. *)
Sample(from, bits, to) ==
  /\ pc = from
  /\ obs' = {b \in int : b[1] \in bits}
  /\ pc' = to
  /\ UNCHANGED <<hwVars, txn, pkt, poll, remain, complete, status, got, sent,
                 raised>>

ReadInterrupts ==
  \/ Sample("cmdPoll", CmdSts, "cmdAck")
  \/ Sample("readPoll", DatSts, "readAck")
  \/ Sample("writePoll", DatSts, "writeAck")

AfterCommand == CASE ~IsDataTransfer(pkt) -> "idle"
                  [] IsRead(pkt)          -> "readPoll"
                  [] OTHER                -> "writePoll"

MsdcPollInterrupts ==
  /\ pc = "cmdAck"
  /\ Acknowledge
  /\ \/ /\ Errors # {} /\ Recover(MsdcIntTrackError(Errors))
     \/ /\ Errors = {} /\ "CMDRDY" \in Bits(obs)
        /\ Goto(AfterCommand) /\ UNCHANGED <<status, rst>>
     \/ /\ Bits(obs) = {} /\ ~LastPoll(CommandPolls)
        /\ PollAgain("cmdPoll") /\ UNCHANGED rst
     \/ /\ Bits(obs) = {} /\ LastPoll(CommandPolls) /\ Recover("TIMEOUT")
  /\ obs' = {}
  /\ UNCHANGED <<cmd, stop, data, left, dat0, rx, tx, clr, txn, pkt, remain,
                 complete, got, sent, raised>>

Chunk == IF remain > FifoUnits THEN FifoUnits ELSE remain

ReadDone(xfer, rest) == xfer /\ rest = 0

MsdcPioRead ==
  /\ pc = "readAck"
  /\ LET take == IF Chunk # 0 /\ Len(rx) >= Chunk THEN Chunk ELSE 0 IN
     /\ got' = got \o SubSeq(rx, 1, take)
     /\ rx' = SubSeq(rx, take + 1, Len(rx))
     /\ remain' = remain - take
  /\ Acknowledge
  /\ complete' = (complete \/ (Errors = {} /\ "XFER_COMPL" \in Bits(obs)))
  /\ LET done == ReadDone(complete', remain') IN
     \/ /\ Errors # {} /\ Recover(MsdcIntTrackError(Errors))
     \/ /\ Errors = {} /\ done /\ Return("SUCCESS") /\ UNCHANGED rst
     \/ /\ Errors = {} /\ ~done /\ ~LastPoll(DataPolls)
        /\ PollAgain("readPoll") /\ UNCHANGED rst
     \/ /\ Errors = {} /\ ~done /\ LastPoll(DataPolls) /\ Recover("TIMEOUT")
  /\ obs' = {}
  /\ UNCHANGED <<cmd, stop, data, left, dat0, tx, clr, txn, pkt, sent,
                 raised>>

(* A FIFO held clear drops what is written to it.                           *)
(* Mutant: the room left is not measured. *)
WholeFifo == FifoUnits
TxRoom    == FifoUnits - Len(tx)

FillFifo ==
  LET put == IF TxRoom >= Chunk THEN Chunk ELSE 0 IN
  /\ tx' = IF clr THEN tx ELSE tx \o [i \in 1 .. put |-> txn]
  /\ remain' = remain - put

(* Mutant: a write is over once its last chunk is in the FIFO. *)
AllQueued == remain = 0
WriteDone == "XFER_COMPL" \in Bits(obs)

MsdcPioWrite ==
  /\ pc = "writeAck"
  /\ Acknowledge
  /\ \/ /\ Errors # {} /\ Recover(MsdcIntTrackError(Errors))
        /\ UNCHANGED <<tx, remain, complete>>
     \/ /\ Errors = {} /\ WriteDone /\ remain # 0
        /\ Recover("ABORTED") /\ UNCHANGED <<tx, remain, complete>>
     \/ /\ Errors = {} /\ WriteDone /\ remain = 0
        /\ Return("SUCCESS") /\ complete' = TRUE
        /\ UNCHANGED <<tx, remain, rst>>
     \/ /\ Errors = {} /\ ~WriteDone
        /\ FillFifo /\ UNCHANGED complete
        /\ IF LastPoll(DataPolls)
           THEN Recover("TIMEOUT")
           ELSE PollAgain("writePoll") /\ UNCHANGED rst
  /\ obs' = {}
  /\ UNCHANGED <<cmd, stop, data, left, dat0, rx, clr, txn, pkt, got, sent,
                 raised>>

Driver ==
  \/ MsdcWaitReady \/ CheckFifo \/ MsdcReset \/ MsdcClearFifo
  \/ MsdcClearInterrupts \/ WriteCommand \/ ReadInterrupts
  \/ MsdcPollInterrupts \/ MsdcPioRead \/ MsdcPioWrite

Next == Driver \/ Controller \/ \E p \in Packets : MsdcPassThru(p)

(* The driver runs on the boot processor and never blocks; no fairness is   *)
(* assumed of the controller, the card or the callers.                      *)
Spec == Init /\ [][Next]_vars /\ WF_vars(Driver)

-----------------------------------------------------------------------------
(* Every variable keeps its type; the FIFO never holds more than its size.  *)
HwTypeOK ==
  /\ int \subseteq IntBits \X Txn
  /\ cmd \in Txn \cup {0} /\ stop \in Txn \cup {0}
  /\ data \in [txn : Txn \cup {0}, read : BOOLEAN, auto12 : BOOLEAN]
  /\ left \in Nat
  /\ dat0 \in BOOLEAN /\ rst \in BOOLEAN /\ clr \in BOOLEAN
  /\ rx \in Seq(Txn) /\ Len(rx) <= FifoUnits
  /\ tx \in Seq(Txn) /\ Len(tx) <= FifoUnits

DrvTypeOK ==
  /\ pc \in PcValues /\ (pc # "idle" => txn # 0)
  /\ txn \in Txn \cup {0} /\ pkt \in Packets \cup {NoPacket}
  /\ poll \in Nat /\ obs \subseteq IntBits \X Txn /\ remain \in Nat
  /\ complete \in BOOLEAN /\ status \in Statuses
  /\ got \in Seq(Txn)

TypeOK ==
  /\ HwTypeOK /\ DrvTypeOK
  /\ sent \in Seq(Txn) /\ raised \subseteq IntBits

InCommand == pc \in {"cmdPoll", "cmdAck"}
InData    == pc \in {"readPoll", "readAck", "writePoll", "writeAck"}
Succeeded == pc = "idle" /\ txn # 0 /\ status = "SUCCESS"

(* "Clear every status observed for this operation so a stale success/error *)
(* cannot poison the next command": the status a polling loop acts on was   *)
(* raised by the transaction that is polling, even after a reset that hung  *)
(* or an automatic CMD12 that answered late.                                *)
StatusIsOwn == \A b \in obs : b[2] = txn

(* When SDC_CMD is about to be written no earlier command is on the line;   *)
(* for a data command nothing earlier runs at all (data phase, automatic    *)
(* CMD12), the FIFO holds nothing and no earlier status is raised.          *)
CleanIssue ==
  pc = "issue" =>
    /\ cmd = 0
    /\ IsDataTransfer(pkt) => /\ stop = 0 /\ data.txn = 0 /\ int = {}
                             /\ rx = <<>> /\ tx = <<>>

(* A read that reports success filled the buffer with its own units only,   *)
(* every one of them.                                                       *)
ReadIsOwn ==
  Succeeded /\ IsDataTransfer(pkt) /\ IsRead(pkt) =>
    got = [i \in 1 .. TransferLength(pkt) |-> txn]

(* A write that reports success put its own units on the wire and no        *)
(* leftover of an earlier write, every one of them.                         *)
WriteIsOwn ==
  Succeeded /\ IsDataTransfer(pkt) /\ ~IsRead(pkt) =>
    sent = [i \in 1 .. TransferLength(pkt) |-> txn]

(* "Errors win when hardware reports ready and an error simultaneously": no *)
(* transaction succeeds after the controller raised a command or data error *)
(* for it.                                                                  *)
ErrorsWin == Succeeded => raised \cap (CmdErr \cup DatErr) = {}

(* Whatever the controller and the card do, or stop doing, every call of    *)
(* MsdcPassThru returns: each polling loop is bounded.                      *)
Returns == (pc # "idle") ~> (pc = "idle")

-----------------------------------------------------------------------------
(* The pass-through contract, seen through the history variables.           *)
Own(s) == Cardinality({i \in DOMAIN s : s[i] = txn})

Contract == INSTANCE MsdcTransaction WITH
  busy     <- pc # "idle",
  length   <- TransferLength(pkt),
  moved    <- IF IsRead(pkt) THEN Own(got) ELSE Own(sent),
  result   <- IF pc = "idle" /\ status = "SUCCESS" THEN "success" ELSE "error"

ContractSpec == Contract!Spec
=============================================================================
