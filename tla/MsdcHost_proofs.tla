-------------------------- MODULE MsdcHost_proofs --------------------------
(***************************************************************************)
(* Proofs about the MSDC command engine, for every set of packets, FIFO    *)
(* size, number of transactions and poll budget that HostAssumption allows.*)
(***************************************************************************)
EXTENDS MsdcHost, SequenceTheorems, FiniteSetTheorems, TLAPS

(* A packet that MsdcSendCmd may see has natural lengths. *)
LEMMA PacketFacts ==
  ASSUME NEW p \in Packets \cup {NoPacket}
  PROVE  /\ p.inLen \in Nat /\ p.outLen \in Nat
         /\ TransferLength(p) \in Nat
         /\ IsRead(p) \in BOOLEAN /\ Auto12(p) \in BOOLEAN
BY HostAssumption DEF Packet, NoPacket, TransferLength, IsRead, Auto12,
     IsDataTransfer, IsMultiple

LEMMA FifoFact == FifoUnits \in Nat /\ 0 <= FifoUnits
BY HostAssumption

LEMMA CheckPacketType == \A p : CheckPacket(p) \in Statuses
BY DEF CheckPacket, Statuses

LEMMA TrackErrorType ==
  \A bits : MsdcIntTrackError(bits) \in {"TIMEOUT", "CRC_ERROR"}
BY DEF MsdcIntTrackError

(* Raising a status keeps the types of MSDC_INT and of the history. *)
LEMMA RaiseType ==
  ASSUME TypeOK, NEW bits \in SUBSET IntBits, NEW t \in Txn, Raise(bits, t)
  PROVE  int' \subseteq IntBits \X Txn /\ raised' \subseteq IntBits
BY DEF TypeOK, HwTypeOK, Raise

(* Acknowledging what was sampled only removes status bits. *)
LEMMA AcknowledgeType ==
  ASSUME TypeOK, Acknowledge PROVE int' \subseteq IntBits \X Txn
BY DEF TypeOK, HwTypeOK, Acknowledge

(* A controller step does not touch the driver: its variables keep types.   *)
LEMMA ControllerType ==
  ASSUME TypeOK, Controller PROVE TypeOK'
<1> USE FifoFact DEF TypeOK
<1>1. ASSUME UNCHANGED drvVars PROVE DrvTypeOK'
  BY <1>1 DEF DrvTypeOK, drvVars
<1> USE DEF HwTypeOK
<1>2. CASE HwCommandDone
  <2> USE <1>2
  <2>1. PICK bits \in {{"CMDRDY"}, {"CMDTMO"}, {"CMDCRCERR"},
                       {"CMDRDY", "CMDCRCERR"}} : Raise(bits, cmd)
    BY DEF HwCommandDone
  <2>2. cmd \in Txn /\ bits \in SUBSET IntBits
    BY DEF HwCommandDone, IntBits, CmdSts, CmdErr
  <2>3. int' \subseteq IntBits \X Txn /\ raised' \subseteq IntBits
    BY <2>1, <2>2, RaiseType
  <2>4. NoData \in [txn : Txn \cup {0}, read : BOOLEAN, auto12 : BOOLEAN]
    BY DEF NoData
  <2>5. data' = data \/ data' = NoData BY DEF HwCommandDone
  <2>6. dat0' \in {dat0} \/ dat0' \in BOOLEAN BY DEF HwCommandDone
  <2>7. /\ data' \in [txn : Txn \cup {0}, read : BOOLEAN, auto12 : BOOLEAN]
        /\ dat0' \in BOOLEAN /\ cmd' = 0
    BY <2>4, <2>5, <2>6 DEF HwCommandDone
  <2>8. left' \in Nat BY DEF HwCommandDone
  <2>9. UNCHANGED <<stop, rx, tx, rst, clr, sent>> /\ UNCHANGED drvVars
    BY DEF HwCommandDone
  <2>10. HwTypeOK' BY <2>3, <2>7, <2>8, <2>9
  <2> QED BY <1>1, <2>3, <2>9, <2>10
<1>3. CASE HwReceive
  <2> USE <1>3 DEF HwReceive
  <2>1. data.txn \in Txn BY DEF DataRuns
  <2>2. Append(rx, data.txn) \in Seq(Txn)
        /\ Len(Append(rx, data.txn)) = Len(rx) + 1
    BY <2>1, AppendProperties
  <2>3. Len(rx) \in Nat BY LenProperties
  <2>4. rx' \in Seq(Txn) /\ Len(rx') <= FifoUnits BY <2>2, <2>3
  <2>5. left' \in Nat OBVIOUS
  <2> QED BY <1>1, <2>4, <2>5
<1>4. CASE HwTransmit
  <2> USE <1>4 DEF HwTransmit
  <2>1. /\ Head(tx) \in Txn /\ Tail(tx) \in Seq(Txn)
        /\ Len(Tail(tx)) = Len(tx) - 1
    BY HeadTailProperties
  <2>2. sent' \in Seq(Txn) BY <2>1, AppendProperties
  <2>3. tx' \in Seq(Txn) /\ Len(tx') <= FifoUnits
    BY <2>1, LenProperties
  <2>4. left' \in Nat OBVIOUS
  <2> QED BY <1>1, <2>2, <2>3, <2>4
<1>5. CASE HwDataDone
  <2> USE <1>5
  <2>1. PICK bits \in {{"DATTMO"}, {"DATCRCERR"}, {"XFER_COMPL"},
                       {"XFER_COMPL", "DATCRCERR"}} : Raise(bits, data.txn)
    BY DEF HwDataDone
  <2>2. data.txn \in Txn /\ bits \in SUBSET IntBits
    BY DEF HwDataDone, DataRuns, IntBits, DatSts, DatErr
  <2>3. int' \subseteq IntBits \X Txn /\ raised' \subseteq IntBits
    BY <2>1, <2>2, RaiseType
  <2>4. /\ dat0' \in BOOLEAN /\ stop' \in Txn \cup {0}
        /\ data' = NoData /\ left' = 0
    BY <2>2 DEF HwDataDone
  <2>5. UNCHANGED <<cmd, rx, tx, rst, clr, drvVars, sent>>
    BY DEF HwDataDone
  <2> QED BY <1>1, <2>3, <2>4, <2>5 DEF NoData
<1>6. CASE HwStopDone
  <2>1. PICK bit \in AutoSts : Raise({bit}, stop) BY <1>6 DEF HwStopDone
  <2>2. stop \in Txn /\ {bit} \in SUBSET IntBits
    BY <1>6 DEF HwStopDone, IntBits, DatSts
  <2>3. int' \subseteq IntBits \X Txn /\ raised' \subseteq IntBits
    BY <2>1, <2>2, RaiseType
  <2> QED BY <1>1, <1>6, <2>3 DEF HwStopDone
<1>7. CASE HwDat0Released BY <1>1, <1>7 DEF HwDat0Released
<1>8. CASE HwResetDone BY <1>1, <1>8 DEF HwResetDone, NoData
<1>9. CASE HwClearDone BY <1>1, <1>9 DEF HwClearDone
<1> QED BY <1>2, <1>3, <1>4, <1>5, <1>6, <1>7, <1>8, <1>9 DEF Controller

(* The steps of the driver that leave the FIFOs alone. *)
LEMMA ControlStepType ==
  ASSUME TypeOK,
         \/ MsdcWaitReady \/ CheckFifo \/ MsdcReset \/ MsdcClearFifo
         \/ MsdcClearInterrupts \/ WriteCommand \/ ReadInterrupts
  PROVE  TypeOK'
<1> USE FifoFact DEF TypeOK, HwTypeOK, DrvTypeOK, hwVars, PcValues,
        Statuses, Goto, Return, SetReset, PollAgain
<1>1. CASE MsdcWaitReady BY <1>1 DEF MsdcWaitReady
<1>2. CASE CheckFifo
  <2>1. rst' \in BOOLEAN /\ pc' \in PcValues /\ poll' = 0
    BY <1>2 DEF CheckFifo
  <2> QED BY <1>2, <2>1 DEF CheckFifo
<1>3. CASE MsdcReset
  <2>1. <<>> \in Seq(Txn) /\ Len(<<>>) = 0 BY EmptySeq
  <2>2. clr' \in BOOLEAN /\ status' \in Statuses
    BY <1>3 DEF MsdcReset, SetClear
  <2>3. pc' \in PcValues /\ poll' \in Nat BY <1>3 DEF MsdcReset
  <2>4. /\ rx' \in Seq(Txn) /\ Len(rx') <= FifoUnits
        /\ tx' \in Seq(Txn) /\ Len(tx') <= FifoUnits
    BY <1>3, <2>1 DEF MsdcReset, SetClear
  <2> QED BY <1>3, <2>2, <2>3, <2>4 DEF MsdcReset
<1>4. CASE MsdcClearFifo BY <1>4 DEF MsdcClearFifo
<1>5. CASE MsdcClearInterrupts
  BY <1>5 DEF MsdcClearInterrupts, WrittenBack
<1>6. CASE WriteCommand
  <2>1. /\ data' \in [txn : Txn \cup {0}, read : BOOLEAN, auto12 : BOOLEAN]
        /\ left' \in Nat
    BY <1>6, PacketFacts DEF WriteCommand
  <2> QED BY <1>6, <2>1 DEF WriteCommand
<1>7. CASE ReadInterrupts BY <1>7 DEF ReadInterrupts, Sample
<1> QED BY <1>1, <1>2, <1>3, <1>4, <1>5, <1>6, <1>7

(* How any polling loop may leave the program counter, poll and status. *)
PollOutcome == /\ pc' \in PcValues /\ poll' \in Nat
               /\ status' \in Statuses /\ rst' \in BOOLEAN

LEMMA RecoverOutcome ==
  ASSUME NEW s \in Statuses, Recover(s) PROVE PollOutcome
BY DEF Recover, PollOutcome, Goto, SetReset, PcValues

LEMMA AgainOutcome ==
  ASSUME TypeOK, NEW label \in PcValues, PollAgain(label), UNCHANGED rst
  PROVE  PollOutcome
BY DEF TypeOK, HwTypeOK, DrvTypeOK, PollAgain, PollOutcome

LEMMA DoneOutcome ==
  ASSUME TypeOK, NEW label \in PcValues, Goto(label),
         status' \in Statuses, UNCHANGED rst
  PROVE  PollOutcome
BY DEF TypeOK, HwTypeOK, Goto, PollOutcome

LEMMA StatusFacts ==
  /\ {"SUCCESS", "TIMEOUT", "ABORTED"} \subseteq Statuses
  /\ \A bits : MsdcIntTrackError(bits) \in Statuses
  /\ {"idle", "cmdPoll", "readPoll", "writePoll"} \subseteq PcValues
  /\ AfterCommand \in PcValues
BY TrackErrorType DEF Statuses, PcValues, AfterCommand

LEMMA CommandPollType ==
  ASSUME TypeOK, MsdcPollInterrupts PROVE TypeOK'
<1> USE DEF TypeOK, HwTypeOK, DrvTypeOK, MsdcPollInterrupts
<1>1. int' \subseteq IntBits \X Txn BY AcknowledgeType
<1>2. txn # 0 OBVIOUS
<1>3. PollOutcome
  <2>1. \/ \E s \in Statuses : Recover(s)
        \/ \E l \in PcValues : Goto(l) /\ status' \in Statuses /\ rst' = rst
        \/ \E l \in PcValues : PollAgain(l) /\ rst' = rst
    BY StatusFacts
  <2> QED BY <2>1, RecoverOutcome, DoneOutcome, AgainOutcome
<1>4. /\ UNCHANGED <<cmd, stop, data, left, dat0, rx, tx, clr, txn, pkt>>
      /\ UNCHANGED <<remain, complete, got, sent, raised>> /\ obs' = {}
  OBVIOUS
<1>5. HwTypeOK' BY <1>1, <1>3, <1>4 DEF PollOutcome
<1>6. DrvTypeOK' BY <1>2, <1>3, <1>4 DEF PollOutcome
<1> QED BY <1>4, <1>5, <1>6

LEMMA ReadPollType ==
  ASSUME TypeOK, MsdcPioRead PROVE TypeOK'
<1> USE FifoFact DEF TypeOK, HwTypeOK, DrvTypeOK
<1>1. int' \subseteq IntBits \X Txn BY AcknowledgeType DEF MsdcPioRead
<1>2. txn # 0 BY DEF MsdcPioRead
<1>3. PollOutcome
  <2>1. \/ \E s \in Statuses : Recover(s)
        \/ \E l \in PcValues : Goto(l) /\ status' \in Statuses /\ rst' = rst
        \/ \E l \in PcValues : PollAgain(l) /\ rst' = rst
    BY StatusFacts DEF MsdcPioRead, Return
  <2> QED BY <2>1, RecoverOutcome, DoneOutcome, AgainOutcome
<1> DEFINE take == IF Chunk # 0 /\ Len(rx) >= Chunk THEN Chunk ELSE 0
<1>4. /\ got' = got \o SubSeq(rx, 1, take)
      /\ rx' = SubSeq(rx, take + 1, Len(rx))
      /\ remain' = remain - take
  BY DEF MsdcPioRead
<1>5. Len(rx) \in Nat /\ \A i \in 1 .. Len(rx) : rx[i] \in Txn
  BY LenProperties, ElementOfSeq
<1>6. take \in Nat /\ take <= Len(rx) /\ take <= remain
  BY <1>5 DEF Chunk
<1> HIDE DEF take
<1>7. SubSeq(rx, 1, take) \in Seq(Txn) BY <1>4, <1>5, <1>6, SubSeqProperties
<1>8. /\ SubSeq(rx, take + 1, Len(rx)) \in Seq(Txn)
      /\ Len(SubSeq(rx, take + 1, Len(rx))) = Len(rx) - take
  BY <1>4, <1>5, <1>6, SubSeqProperties
<1>9. got' \in Seq(Txn) /\ rx' \in Seq(Txn) /\ Len(rx') <= FifoUnits
  BY <1>4, <1>5, <1>6, <1>7, <1>8, ConcatProperties
<1>10. complete' \in BOOLEAN BY DEF MsdcPioRead
<1>11. /\ UNCHANGED <<cmd, stop, data, left, dat0, tx, clr, txn, pkt>>
       /\ UNCHANGED <<sent, raised>> /\ obs' = {}
  BY DEF MsdcPioRead
<1>12. HwTypeOK' BY <1>1, <1>3, <1>9, <1>11 DEF PollOutcome
<1>13. remain' \in Nat BY <1>4, <1>6
<1>14. DrvTypeOK' BY <1>2, <1>3, <1>9, <1>10, <1>11, <1>13 DEF PollOutcome
<1> QED BY <1>11, <1>12, <1>14

LEMMA WritePollType ==
  ASSUME TypeOK, MsdcPioWrite PROVE TypeOK'
<1> USE FifoFact DEF TypeOK, HwTypeOK, DrvTypeOK
<1>1. int' \subseteq IntBits \X Txn BY AcknowledgeType DEF MsdcPioWrite
<1>2. txn \in Txn /\ txn # 0 BY DEF MsdcPioWrite
<1>3. PollOutcome
  <2>1. \/ \E s \in Statuses : Recover(s)
        \/ \E l \in PcValues : Goto(l) /\ status' \in Statuses /\ rst' = rst
        \/ \E l \in PcValues : PollAgain(l) /\ rst' = rst
    BY StatusFacts DEF MsdcPioWrite, Return
  <2> QED BY <2>1, RecoverOutcome, DoneOutcome, AgainOutcome
<1>4. tx' \in Seq(Txn) /\ Len(tx') <= FifoUnits /\ remain' \in Nat
  <2>1. CASE UNCHANGED <<tx, remain>> BY <2>1
  <2>2. CASE FillFifo
    <3> DEFINE put == IF TxRoom >= Chunk THEN Chunk ELSE 0
               units == [i \in 1 .. put |-> txn]
    <3>1. Len(tx) \in Nat BY LenProperties
    <3>2. put \in Nat /\ put <= remain /\ Len(tx) + put <= FifoUnits
      BY <3>1 DEF Chunk, TxRoom
    <3>3. tx' = (IF clr THEN tx ELSE tx \o units) /\ remain' = remain - put
      BY <2>2 DEF FillFifo
    <3> HIDE DEF put
    <3>4. units \in Seq(Txn) /\ Len(units) = put
      BY <1>2, <3>2
    <3> HIDE DEF units
    <3>5. tx \o units \in Seq(Txn) /\ Len(tx \o units) = Len(tx) + put
      BY <3>4, ConcatProperties
    <3> QED BY <3>1, <3>2, <3>3, <3>5
  <2> QED BY <2>1, <2>2 DEF MsdcPioWrite
<1>5. complete' \in BOOLEAN BY DEF MsdcPioWrite
<1>6. /\ UNCHANGED <<cmd, stop, data, left, dat0, rx, clr, txn, pkt, got>>
      /\ UNCHANGED <<sent, raised>> /\ obs' = {}
  BY DEF MsdcPioWrite
<1>7. HwTypeOK' BY <1>1, <1>3, <1>4, <1>6 DEF PollOutcome
<1>8. DrvTypeOK' BY <1>2, <1>3, <1>4, <1>5, <1>6 DEF PollOutcome
<1> QED BY <1>6, <1>7, <1>8

LEMMA PassThruType ==
  ASSUME TypeOK, NEW p \in Packets, MsdcPassThru(p) PROVE TypeOK'
<1> USE DEF TypeOK, HwTypeOK, DrvTypeOK, MsdcPassThru
<1>1. txn' \in Txn BY HostAssumption, SMTT(20) DEF Txn
<1>2. UNCHANGED hwVars /\ pkt' = p OBVIOUS
<1>3. HwTypeOK' BY <1>2 DEF hwVars
<1>4. status' \in Statuses /\ remain' \in Nat
  BY CheckPacketType, PacketFacts
<1>5. pc' \in PcValues /\ poll' \in Nat BY DEF Goto, PcValues
<1>6. <<>> \in Seq(Txn) BY EmptySeq
<1>7. obs' = {} /\ got' = <<>> /\ sent' = <<>> /\ raised' = {}
      /\ complete' = FALSE
  OBVIOUS
<1>8. txn' # 0 BY <1>1 DEF Txn
<1>9. DrvTypeOK' BY <1>1, <1>2, <1>4, <1>5, <1>6, <1>7, <1>8
<1> QED BY <1>3, <1>6, <1>7, <1>9

LEMMA InitType == ASSUME Init PROVE TypeOK
<1>1. <<>> \in Seq(Txn) /\ Len(<<>>) = 0 BY EmptySeq
<1>2. NoData \in [txn : Txn \cup {0}, read : BOOLEAN, auto12 : BOOLEAN]
  BY DEF NoData
<1>3. HwTypeOK BY <1>1, <1>2, FifoFact DEF Init, HwTypeOK
<1>4. DrvTypeOK BY <1>1 DEF Init, DrvTypeOK, PcValues, Statuses
<1> QED BY <1>1, <1>3, <1>4 DEF Init, TypeOK

LEMMA StutterType == ASSUME TypeOK, UNCHANGED vars PROVE TypeOK'
BY DEF TypeOK, HwTypeOK, DrvTypeOK, vars, hwVars, drvVars

LEMMA TypeStep == TypeOK /\ [Next]_vars => TypeOK'
BY ControllerType, ControlStepType, CommandPollType, ReadPollType,
   WritePollType, PassThruType, StutterType DEF Next, Driver

(* Every register, FIFO and local variable of the engine keeps its type and *)
(* the FIFOs never hold more than MSDC_FIFO_SIZE, for every set of packets, *)
(* FIFO and block size, poll budget and number of transactions.             *)
THEOREM TypeCorrect == Spec => []TypeOK
<1>1. Init => TypeOK BY InitType
<1>2. TypeOK /\ [Next]_vars => TypeOK'
  BY TypeStep
<1> QED BY <1>1, <1>2, PTL DEF Spec

-----------------------------------------------------------------------------
(* Safety.  The inductive invariant follows a transaction through the       *)
(* engine: what must be quiet, drained or acknowledged at each stage so     *)
(* that no status and no unit of an earlier transaction can be taken for    *)
(* its own.                                                                 *)

OwnStatus(bits) == \A b \in int : b[1] \in bits => b[2] = txn
Own1(t)         == t \in {0, txn}

(* SDC_STS was seen idle and SDC_CMD is not yet written. *)
Issuing == \/ pc \in {"fifoCheck", "issue"}
           \/ pc \in {"reset", "clearFifo", "clearInt"} /\ ~Recovering
(* The FIFO was seen, or made, empty since. *)
Drained == \/ pc = "issue"
           \/ pc \in {"clearFifo", "clearInt"} /\ ~Recovering
Acking  == pc \in {"cmdAck", "readAck", "writeAck"}

QuietInv == Issuing => /\ cmd = 0
                       /\ IsDataTransfer(pkt) => stop = 0 /\ data.txn = 0
DrainInv == Drained /\ IsDataTransfer(pkt) => rx = <<>> /\ tx = <<>>
IssueInv == pc = "issue" => /\ \A b \in int : b[1] \notin CmdSts
                            /\ IsDataTransfer(pkt) => int = {}
OnPathInv == (pc \in {"waitReady", "fifoCheck", "issue"} \/ InCommand
              \/ InData) => ~Recovering
CommandInv == InCommand => Own1(cmd) /\ OwnStatus(CmdSts)
DataInv == (InCommand \/ InData) /\ IsDataTransfer(pkt) =>
             OwnStatus(DatSts) /\ Own1(data.txn) /\ Own1(stop)
SampleInv == /\ InData => IsDataTransfer(pkt)
             /\ ~Acking => obs = {}
             /\ StatusIsOwn

Safe == /\ QuietInv /\ DrainInv /\ IssueInv /\ OnPathInv
        /\ CommandInv /\ DataInv /\ SampleInv
IInv == TypeOK /\ Safe

(* All that a controller step can do, as far as the invariant can tell. *)
NewBit(b) == \/ b[1] \in CmdSts /\ b[2] = cmd /\ cmd # 0
             \/ b[1] \in DatSts /\ b[2] = data.txn /\ data.txn # 0
             \/ b[1] \in DatSts /\ b[2] = stop /\ stop # 0

ControllerEffect ==
  /\ \A b \in int' : b \in int \/ NewBit(b)
  /\ cmd' \in {cmd, 0}
  /\ data'.txn \in {data.txn, 0}
  /\ stop' \in {stop, data.txn, 0}
  /\ data.txn = 0 => rx' = rx /\ tx' = tx

LEMMA RaisedBits ==
  ASSUME NEW bits, NEW t, Raise(bits, t), NEW b \in int', b \notin int
  PROVE  b[1] \in bits /\ b[2] = t
BY DEF Raise

LEMMA StatusSets == CmdSts \cap DatSts = {} /\ AutoSts \subseteq DatSts
BY DEF CmdSts, DatSts, CmdErr, DatErr, AcmdErr, AutoSts

LEMMA ControllerSummary ==
  ASSUME TypeOK, Controller PROVE ControllerEffect /\ UNCHANGED drvVars
<1>1. CASE HwCommandDone
  <2>1. PICK bits \in SUBSET CmdSts : Raise(bits, cmd)
    BY <1>1 DEF HwCommandDone, CmdSts, CmdErr
  <2>2. \A b \in int' : b \in int \/ NewBit(b)
    BY <1>1, <2>1, RaisedBits DEF HwCommandDone, NewBit
  <2>3. data' = data \/ data' = NoData BY <1>1 DEF HwCommandDone
  <2>4. data'.txn \in {data.txn, 0} BY <2>3 DEF NoData
  <2> QED BY <1>1, <2>2, <2>4 DEF HwCommandDone, ControllerEffect
<1>2. CASE HwReceive
  BY <1>2 DEF HwReceive, DataRuns, ControllerEffect
<1>3. CASE HwTransmit
  BY <1>3 DEF HwTransmit, DataRuns, ControllerEffect
<1>4. CASE HwDataDone
  <2>1. PICK bits \in SUBSET DatSts : Raise(bits, data.txn)
    BY <1>4 DEF HwDataDone, DatSts, DatErr
  <2>2. \A b \in int' : b \in int \/ NewBit(b)
    BY <1>4, <2>1, RaisedBits DEF HwDataDone, DataRuns, NewBit
  <2>3. data'.txn = 0 BY <1>4 DEF HwDataDone, NoData
  <2> QED BY <1>4, <2>2, <2>3 DEF HwDataDone, ControllerEffect
<1>5. CASE HwStopDone
  <2>1. PICK bit \in AutoSts : Raise({bit}, stop) BY <1>5 DEF HwStopDone
  <2>2. \A b \in int' : b \in int \/ NewBit(b)
    BY <1>5, <2>1, RaisedBits, StatusSets DEF HwStopDone, NewBit
  <2> QED BY <1>5, <2>2 DEF HwStopDone, ControllerEffect
<1>6. CASE HwDat0Released BY <1>6 DEF HwDat0Released, ControllerEffect
<1>7. CASE HwResetDone BY <1>7 DEF HwResetDone, NoData, ControllerEffect
<1>8. CASE HwClearDone BY <1>8 DEF HwClearDone, ControllerEffect
<1> QED BY <1>1, <1>2, <1>3, <1>4, <1>5, <1>6, <1>7, <1>8 DEF Controller

(* No controller step can disturb what the driver has established. *)
LEMMA ControllerSafe ==
  ASSUME TypeOK, Safe, Controller PROVE Safe'
<1>1. ControllerEffect /\ UNCHANGED <<pc, txn, pkt, obs, status>>
  BY ControllerSummary DEF drvVars
<1> USE <1>1 DEF ControllerEffect, Safe, Issuing, Drained, Acking, InCommand,
          InData, Recovering, Own1
<1>2. QuietInv' BY DEF QuietInv
<1>3. DrainInv' BY DEF DrainInv, QuietInv
<1>4. IssueInv' BY StatusSets DEF IssueInv, QuietInv, NewBit
<1>5. OnPathInv' BY DEF OnPathInv
<1>6. CommandInv' BY StatusSets DEF CommandInv, OwnStatus, NewBit
<1>7. DataInv' BY StatusSets DEF DataInv, OwnStatus, NewBit
<1>8. SampleInv' BY DEF SampleInv, StatusIsOwn
<1> QED BY <1>2, <1>3, <1>4, <1>5, <1>6, <1>7, <1>8

LEMMA AfterCommandFacts ==
  \/ AfterCommand = "idle"
  \/ AfterCommand \in {"readPoll", "writePoll"} /\ IsDataTransfer(pkt)
<1>1. IsRead(pkt) => IsDataTransfer(pkt)
  BY DEF IsRead, IsDataTransfer, TransferLength
<1>2. CASE ~IsDataTransfer(pkt)
  <2>1. ~IsRead(pkt) BY <1>1, <1>2
  <2> QED BY <1>2, <2>1 DEF AfterCommand
<1>3. CASE IsDataTransfer(pkt) /\ IsRead(pkt) BY <1>3 DEF AfterCommand
<1>4. CASE IsDataTransfer(pkt) /\ ~IsRead(pkt) BY <1>4 DEF AfterCommand
<1> QED BY <1>2, <1>3, <1>4

LEMMA ErrorStatus == \A bits : MsdcIntTrackError(bits) # "SUCCESS"
BY TrackErrorType

(* Recovery leaves every promise to the next transaction. *)
LEMMA RecoverSafe ==
  ASSUME Safe, NEW s, s # "SUCCESS", Recover(s), obs' = {}
  PROVE  Safe'
BY DEF Safe, Recover, Goto, QuietInv, DrainInv, IssueInv, OnPathInv,
       CommandInv, DataInv, SampleInv, StatusIsOwn, Issuing, Drained, Acking,
       InCommand, InData, Recovering

(* Returning to the caller promises nothing but an empty sample. *)
LEMMA ReturnSafe ==
  ASSUME pc' = "idle", obs' = {} PROVE Safe'
BY DEF Safe, QuietInv, DrainInv, IssueInv, OnPathInv,
       CommandInv, DataInv, SampleInv, StatusIsOwn, Issuing, Drained, Acking,
       InCommand, InData, Recovering

(* Polling again: the statuses acknowledged are removed, no one is added.   *)
LEMMA PollSafe ==
  ASSUME Safe, Acknowledge, obs' = {}, UNCHANGED <<cmd, stop, data, txn, pkt>>,
         UNCHANGED status,
         \/ pc = "cmdAck" /\ pc' \in {"cmdPoll", "readPoll", "writePoll"}
         \/ pc = "readAck" /\ pc' = "readPoll"
         \/ pc = "writeAck" /\ pc' = "writePoll",
         pc' \in {"readPoll", "writePoll"} => IsDataTransfer(pkt)
  PROVE  Safe'
<1>1. int' \subseteq int BY DEF Acknowledge
<1> USE <1>1 DEF Safe, Issuing, Drained, Acking, InCommand, InData,
          Recovering, Own1
<1>2. QuietInv' BY DEF QuietInv
<1>3. DrainInv' BY DEF DrainInv
<1>4. IssueInv' BY DEF IssueInv
<1>5. OnPathInv' BY DEF OnPathInv
<1>6. CommandInv' BY DEF CommandInv, OwnStatus
<1>7. DataInv' BY DEF DataInv, OwnStatus
<1>8. SampleInv' BY DEF SampleInv, StatusIsOwn
<1> QED BY <1>2, <1>3, <1>4, <1>5, <1>6, <1>7, <1>8

LEMMA DriverSafe ==
  ASSUME TypeOK, Safe, Driver PROVE Safe'
<1>1. CASE MsdcWaitReady
  <2> USE <1>1 DEF MsdcWaitReady, Goto, Return, PollAgain
  <2>1. obs' = {} BY DEF Safe, SampleInv, Acking
  <2>2. CASE pc' = "idle" BY <2>1, <2>2, ReturnSafe
  <2>3. CASE pc' = "waitReady"
    BY <2>1, <2>3 DEF Safe, QuietInv, DrainInv, IssueInv, OnPathInv,
       CommandInv, DataInv, SampleInv, StatusIsOwn, Issuing, Drained, Acking,
       InCommand, InData, Recovering
  <2>4. CASE pc' = "fifoCheck"
    <3>1. /\ cmd' = 0 /\ status' = status /\ pkt' = pkt
          /\ IsDataTransfer(pkt) => stop' = 0 /\ data'.txn = 0
      BY <2>4 DEF hwVars, CmdBusy, WaitDataBusy, SdcBusy
    <3> QED BY <2>1, <2>4, <3>1 DEF Safe, QuietInv, DrainInv, IssueInv,
       OnPathInv, CommandInv, DataInv, SampleInv, StatusIsOwn, Issuing,
       Drained, Acking, InCommand, InData, Recovering
  <2> QED BY <2>2, <2>3, <2>4
<1>2. CASE CheckFifo
  BY <1>2 DEF CheckFifo, Goto, StaleFifo, Safe, QuietInv, DrainInv, IssueInv,
     OnPathInv, CommandInv, DataInv, SampleInv, StatusIsOwn, Issuing,
     Drained, Acking, InCommand, InData, Recovering
<1>3. CASE MsdcReset
  BY <1>3 DEF MsdcReset, Goto, Return, PollAgain, SetClear, Safe, QuietInv,
     DrainInv, IssueInv, OnPathInv, CommandInv, DataInv, SampleInv,
     StatusIsOwn, Issuing, Drained, Acking, InCommand, InData, Recovering
<1>4. CASE MsdcClearFifo
  BY <1>4 DEF MsdcClearFifo, hwVars, Goto, Return, PollAgain, Safe, QuietInv,
     DrainInv, IssueInv, OnPathInv, CommandInv, DataInv, SampleInv,
     StatusIsOwn, Issuing, Drained, Acking, InCommand, InData, Recovering
<1>5. CASE MsdcClearInterrupts
  BY <1>5 DEF MsdcClearInterrupts, WrittenBack, Goto, Safe, QuietInv,
     DrainInv, IssueInv, OnPathInv, CommandInv, DataInv, SampleInv,
     StatusIsOwn, Issuing, Drained, Acking, InCommand, InData, Recovering
<1>6. CASE WriteCommand
  <2>1. /\ pc = "issue" /\ pc' = "cmdPoll" /\ cmd' = txn /\ obs' = {}
        /\ status = "SUCCESS" /\ data'.txn \in {data.txn, txn}
        /\ IsDataTransfer(pkt) => stop' = 0 /\ data'.txn = txn /\ int' = {}
        /\ \A b \in int' : b[1] \notin CmdSts
        /\ UNCHANGED <<txn, pkt, status>>
    BY <1>6 DEF WriteCommand, Goto, Safe, QuietInv, IssueInv, OnPathInv,
       SampleInv, Acking, Issuing, Recovering
  <2> QED BY <2>1 DEF Safe, QuietInv, DrainInv, IssueInv, OnPathInv,
       CommandInv, DataInv, SampleInv, StatusIsOwn, OwnStatus, Own1, Issuing,
       Drained, Acking, InCommand, InData, Recovering
<1>7. CASE ReadInterrupts
  <2>1. \/ Sample("cmdPoll", CmdSts, "cmdAck")
        \/ Sample("readPoll", DatSts, "readAck")
        \/ Sample("writePoll", DatSts, "writeAck")
    BY <1>7 DEF ReadInterrupts
  <2>2. \A b \in obs' : b[2] = txn
    BY <2>1 DEF Sample, Safe, CommandInv, DataInv, SampleInv, OwnStatus,
       InCommand, InData
  <2>3. UNCHANGED <<int, cmd, stop, data, rx, tx, txn, pkt, status>>
    BY <2>1 DEF Sample, hwVars
  <2>4. \/ pc = "cmdPoll" /\ pc' = "cmdAck"
        \/ pc = "readPoll" /\ pc' = "readAck"
        \/ pc = "writePoll" /\ pc' = "writeAck"
    BY <2>1 DEF Sample
  <2> QED BY <2>2, <2>3, <2>4 DEF Safe, QuietInv, DrainInv, IssueInv,
       OnPathInv, CommandInv, DataInv, SampleInv, StatusIsOwn, OwnStatus, Own1,
       Issuing, Drained, Acking, InCommand, InData, Recovering
<1>8. CASE MsdcPollInterrupts
  <2> USE <1>8 DEF MsdcPollInterrupts
  <2>1. CASE \E s \in Statuses \ {"SUCCESS"} : Recover(s)
    BY <2>1, RecoverSafe
  <2>2. CASE pc' = "idle" BY <2>2, ReturnSafe
  <2>3. CASE /\ pc' \in {"cmdPoll", "readPoll", "writePoll"}
             /\ pc' \in {"readPoll", "writePoll"} => IsDataTransfer(pkt)
             /\ UNCHANGED status
    BY <2>3, PollSafe
  <2>4. \/ Recover(MsdcIntTrackError(Errors)) \/ Recover("TIMEOUT")
        \/ Goto(AfterCommand) /\ UNCHANGED status
        \/ PollAgain("cmdPoll")
    OBVIOUS
  <2>5. CASE Goto(AfterCommand) /\ UNCHANGED status
    <3>1. pc' = AfterCommand BY <2>5 DEF Goto
    <3>2. CASE AfterCommand = "idle" BY <2>2, <3>1, <3>2
    <3>3. CASE /\ AfterCommand \in {"readPoll", "writePoll"}
               /\ IsDataTransfer(pkt)
      BY <2>3, <2>5, <3>1, <3>3
    <3> QED BY <3>2, <3>3, AfterCommandFacts
  <2>6. CASE PollAgain("cmdPoll")
    BY <2>3, <2>6 DEF PollAgain
  <2> QED BY <2>1, <2>4, <2>5, <2>6, ErrorStatus, StatusFacts
<1>9. CASE MsdcPioRead
  <2> USE <1>9 DEF MsdcPioRead
  <2>1. CASE \E s \in Statuses \ {"SUCCESS"} : Recover(s)
    BY <2>1, RecoverSafe
  <2>2. CASE pc' = "idle" BY <2>2, ReturnSafe
  <2>3. CASE pc' = "readPoll" /\ UNCHANGED status
    BY <2>3, PollSafe DEF Safe, SampleInv, InData
  <2> QED BY <2>1, <2>2, <2>3, ErrorStatus, StatusFacts
          DEF Goto, Return, PollAgain, Statuses
<1>10. CASE MsdcPioWrite
  <2> USE <1>10 DEF MsdcPioWrite
  <2>1. CASE \E s \in Statuses \ {"SUCCESS"} : Recover(s)
    BY <2>1, RecoverSafe
  <2>2. CASE pc' = "idle" BY <2>2, ReturnSafe
  <2>3. CASE pc' = "writePoll" /\ UNCHANGED status
    BY <2>3, PollSafe DEF Safe, SampleInv, InData
  <2> QED BY <2>1, <2>2, <2>3, ErrorStatus, StatusFacts
          DEF Goto, Return, PollAgain, Statuses
<1> QED BY <1>1, <1>2, <1>3, <1>4, <1>5, <1>6, <1>7, <1>8, <1>9, <1>10
        DEF Driver

LEMMA PassThruSafe ==
  ASSUME TypeOK, Safe, NEW p \in Packets, MsdcPassThru(p) PROVE Safe'
<1>1. pc' = "waitReady" \/ pc' = "idle" BY DEF MsdcPassThru, Goto
<1>2. obs' = {} BY DEF MsdcPassThru
<1>3. pc' = "waitReady" => status' = "SUCCESS" BY DEF MsdcPassThru, Goto
<1> QED BY <1>1, <1>2, <1>3 DEF Safe, QuietInv, DrainInv, IssueInv,
       OnPathInv, CommandInv, DataInv, SampleInv, StatusIsOwn, Issuing,
       Drained, Acking, InCommand, InData, Recovering

LEMMA StutterSafe == ASSUME Safe, UNCHANGED vars PROVE Safe'
BY DEF vars, hwVars, drvVars, Safe, QuietInv, DrainInv, IssueInv, OnPathInv,
       CommandInv, DataInv, SampleInv, StatusIsOwn, OwnStatus, Own1, Issuing,
       Drained, Acking, InCommand, InData, Recovering

THEOREM IInvCorrect == Spec => []IInv
<1>1. Init => IInv
  BY InitType DEF Init, IInv, Safe, QuietInv, DrainInv, IssueInv, OnPathInv,
     CommandInv, DataInv, SampleInv, StatusIsOwn, Issuing, Drained, Acking,
     InCommand, InData, Recovering
<1>2. IInv /\ [Next]_vars => IInv'
  BY TypeStep, ControllerSafe, DriverSafe, PassThruSafe, StutterSafe
     DEF IInv, Next
<1> QED BY <1>1, <1>2, PTL DEF Spec

(* The status a polling loop acts on was raised by the transaction that     *)
(* polls, whatever the controller still has pending of an earlier one.      *)
THEOREM StatusOwned == Spec => []StatusIsOwn
<1>1. IInv => StatusIsOwn BY DEF IInv, Safe, SampleInv
<1> QED BY <1>1, IInvCorrect, PTL

(* When SDC_CMD is written the command line is idle, and for a data command *)
(* the data path is idle, the FIFO empty and every status acknowledged.     *)
THEOREM IssueClean == Spec => []CleanIssue
<1>1. IInv => CleanIssue
  BY DEF IInv, Safe, QuietInv, DrainInv, IssueInv, Issuing, Drained, CleanIssue
<1> QED BY <1>1, IInvCorrect, PTL
-----------------------------------------------------------------------------
(***************************************************************************)
(* What a successful MsdcPassThru promises about its transfer, for every   *)
(* set of packets, FIFO and block size and poll budget: no error was       *)
(* raised for it, a read has all its own units and nothing else, a write   *)
(* has put all its own units and nothing else on the wire; and so the      *)
(* engine implements MsdcTransaction.                                      *)
(***************************************************************************)

EndSts == DatErr \cup {"XFER_COMPL"}
Length == TransferLength(pkt)

(* SDC_CMD has not been written for the current transaction.               *)
Before == pc = "waitReady" \/ Issuing
Active == InCommand \/ InData

(* The controller runs nothing of a later transaction, and what is raised  *)
(* for the current one was raised when its phase ended.                    *)
NumberInv ==
  /\ cmd <= txn /\ stop <= txn /\ data.txn <= txn
  /\ \A b \in int : b[2] <= txn /\ (b[2] = txn => b[1] \in raised)
  /\ cmd # 0 /\ cmd = txn => raised \cap CmdSts = {}
  /\ data.txn # 0 /\ data.txn = txn => raised \cap EndSts = {}

FreshInv ==
  Before => /\ cmd < txn /\ stop < txn /\ data.txn < txn
            /\ raised = {} /\ ~complete

(* An error of the current transaction stays in MSDC_INT until it is seen, *)
(* and is seen with the status that ends its phase.                        *)
PendingInv ==
  Active => \A e \in raised \cap (CmdErr \cup DatErr) : <<e, txn>> \in int

SeenInv ==
  /\ \A b \in obs : b[1] \in raised
  /\ pc = "cmdAck" => /\ \A b \in obs : b[1] \in CmdSts
                      /\ obs # {} => raised \cap CmdErr \subseteq Bits(obs)
  /\ pc \in {"readAck", "writeAck"} /\ "XFER_COMPL" \in Bits(obs)
       => raised \cap DatErr \subseteq Bits(obs)

PhaseInv ==
  /\ InCommand => /\ ~complete
                  /\ ~IsDataTransfer(pkt) => /\ data.txn < txn
                                             /\ raised \cap DatErr = {}
  /\ InData => "CMDRDY" \in raised /\ raised \cap CmdErr = {}
  /\ InData /\ complete => "XFER_COMPL" \in raised /\ raised \cap DatErr = {}

EndInv ==
  Succeeded => /\ ErrorsWin
               /\ cmd # txn /\ data.txn # txn
               /\ IsDataTransfer(pkt) => data.txn = 0

ErrInv == /\ NumberInv /\ FreshInv /\ PendingInv /\ SeenInv /\ PhaseInv
          /\ EndInv

-----------------------------------------------------------------------------
(* What a step of the controller raises, and what it ends when it does.    *)
Ends(bits, t) == bits # {} /\ Raise(bits, t)

CommandEnds ==
  /\ cmd # 0 /\ cmd' = 0 /\ UNCHANGED stop
  /\ \E bits \in SUBSET CmdSts : Ends(bits, cmd)
DataEnds ==
  /\ data.txn # 0 /\ data' = NoData /\ UNCHANGED cmd
  /\ stop' \in {stop, data.txn}
  /\ \E bits \in SUBSET EndSts :
       Ends(bits, data.txn) /\ ("XFER_COMPL" \in bits => left = 0)
StopEnds ==
  /\ stop # 0 /\ stop' = 0 /\ UNCHANGED <<cmd, data>>
  /\ \E bits \in SUBSET AutoSts : Ends(bits, stop)
Unraised ==
  /\ UNCHANGED <<int, raised>>
  /\ cmd' \in {cmd, 0} /\ stop' \in {stop, 0}

LEMMA ControllerEnds ==
  ASSUME Controller
  PROVE  /\ CommandEnds \/ DataEnds \/ StopEnds \/ Unraised
         /\ data' \in {data, NoData} /\ UNCHANGED drvVars
<1>1. CASE HwCommandDone
  <2>1. PICK bits \in SUBSET CmdSts : bits # {} /\ Raise(bits, cmd)
    BY <1>1 DEF HwCommandDone, CmdSts, CmdErr
  <2> QED BY <1>1, <2>1 DEF HwCommandDone, CommandEnds, Ends
<1>2. CASE HwReceive BY <1>2 DEF HwReceive, Unraised
<1>3. CASE HwTransmit BY <1>3 DEF HwTransmit, Unraised
<1>4. CASE HwDataDone
  <2>1. PICK bits \in {{"DATTMO"}, {"DATCRCERR"}} \cup
               (IF left = 0 THEN {{"XFER_COMPL"}, {"XFER_COMPL", "DATCRCERR"}}
                ELSE {}) : Raise(bits, data.txn)
    BY <1>4 DEF HwDataDone
  <2>2. /\ bits \in SUBSET EndSts /\ bits # {}
        /\ "XFER_COMPL" \in bits => left = 0
    BY <2>1 DEF EndSts, DatErr
  <2> QED BY <1>4, <2>1, <2>2 DEF HwDataDone, DataRuns, DataEnds, Ends
<1>5. CASE HwStopDone
  <2>1. PICK bit \in AutoSts : Raise({bit}, stop) BY <1>5 DEF HwStopDone
  <2>2. {bit} \in SUBSET AutoSts /\ {bit} # {} OBVIOUS
  <2> QED BY <1>5, <2>1, <2>2 DEF HwStopDone, StopEnds, Ends
<1>6. CASE HwDat0Released BY <1>6 DEF HwDat0Released, Unraised
<1>7. CASE HwResetDone BY <1>7 DEF HwResetDone, Unraised
<1>8. CASE HwClearDone BY <1>8 DEF HwClearDone, Unraised
<1> QED BY <1>1, <1>2, <1>3, <1>4, <1>5, <1>6, <1>7, <1>8 DEF Controller

LEMMA Kinds ==
  /\ CmdSts \cap EndSts = {} /\ CmdSts \cap AutoSts = {}
  /\ EndSts \cap AutoSts = {} /\ CmdErr \subseteq CmdSts
  /\ DatErr \subseteq EndSts /\ "XFER_COMPL" \in EndSts
  /\ EndSts \subseteq DatSts /\ "XFER_COMPL" \notin DatErr
  /\ "CMDRDY" \in CmdSts /\ "CMDRDY" \notin CmdErr
BY DEF CmdSts, CmdErr, EndSts, DatErr, AutoSts, DatSts, AcmdErr

(* A step of the controller only adds bits, and no bit of a phase to those *)
(* of a phase that has ended.                                              *)
LEMMA RaisedNow ==
  ASSUME NumberInv, Controller
  PROVE  /\ raised \subseteq raised' /\ int \subseteq int'
         /\ \A e \in raised' : e \in raised \/ <<e, txn>> \in int'
         /\ \A b \in int' : \/ b \in int
                            \/ b[2] <= txn /\ (b[2] = txn => b[1] \in raised')
         /\ \A e \in raised' \ raised :
              \/ /\ e \in CmdSts /\ cmd = txn /\ cmd # 0 /\ cmd' = 0
                 /\ raised \cap CmdSts = {}
              \/ /\ e \in EndSts /\ data.txn = txn /\ data.txn # 0
                 /\ data'.txn = 0 /\ raised \cap EndSts = {}
              \/ e \in AutoSts /\ stop = txn
<1>1. CommandEnds \/ DataEnds \/ StopEnds \/ Unraised
  BY ControllerEnds
<1>2. CASE CommandEnds
  <2>1. PICK bits \in SUBSET CmdSts : Raise(bits, cmd)
    BY <1>2 DEF CommandEnds, Ends
  <2> QED BY <1>2, <2>1, Kinds DEF CommandEnds, NumberInv, Raise
<1>3. CASE DataEnds
  <2>1. PICK bits \in SUBSET EndSts : Raise(bits, data.txn)
    BY <1>3 DEF DataEnds, Ends
  <2> QED BY <1>3, <2>1, Kinds DEF DataEnds, NumberInv, Raise, NoData
<1>4. CASE StopEnds
  <2>1. PICK bits \in SUBSET AutoSts : Raise(bits, stop)
    BY <1>4 DEF StopEnds, Ends
  <2> QED BY <1>4, <2>1, Kinds DEF StopEnds, NumberInv, Raise
<1>5. CASE Unraised BY <1>5 DEF Unraised
<1> QED BY <1>1, <1>2, <1>3, <1>4, <1>5

LEMMA ControllerErr ==
  ASSUME IInv, ErrInv, Controller PROVE ErrInv'
<1>1. UNCHANGED <<pc, txn, pkt, obs, complete, status>>
  BY ControllerEnds DEF drvVars
<1>2. cmd' \in {cmd, 0} /\ data'.txn \in {data.txn, 0}
      /\ stop' \in {stop, data.txn, 0}
      /\ {txn, cmd, stop, data.txn} \subseteq Nat
  BY ControllerSummary
  DEF ControllerEffect, IInv, TypeOK, HwTypeOK, DrvTypeOK, Txn
<1>3. NumberInv BY DEF ErrInv
<1>4. NumberInv'
  BY <1>1, <1>2, <1>3, RaisedNow, Kinds DEF NumberInv
<1>5. Before => raised' = raised
  BY <1>2, RaisedNow, <1>3 DEF ErrInv, FreshInv
<1>6. FreshInv'
  BY <1>1, <1>2, <1>5 DEF ErrInv, FreshInv, Before, Issuing, Recovering
<1>7. PendingInv'
  BY <1>1, <1>3, RaisedNow
  DEF ErrInv, PendingInv, Active, InCommand, InData
<1>8. SeenInv'
  BY <1>1, <1>3, RaisedNow, Kinds DEF ErrInv, SeenInv, Bits
<1>9. PhaseInv'
  BY <1>1, <1>2, <1>3, RaisedNow, Kinds
  DEF ErrInv, PhaseInv, InCommand, InData
<1>10. EndInv'
  BY <1>1, <1>2, <1>3, RaisedNow, Kinds
  DEF ErrInv, EndInv, Succeeded, ErrorsWin
<1> QED BY <1>4, <1>6, <1>7, <1>8, <1>9, <1>10 DEF ErrInv

-----------------------------------------------------------------------------
(* Nothing is promised while the engine recovers or after it has failed.   *)
LEMMA AbsentErr ==
  ASSUME NumberInv', ~Before', ~Active', ~Succeeded', obs' = {},
         pc' \notin {"cmdAck", "readAck", "writeAck"}
  PROVE  ErrInv'
BY DEF ErrInv, FreshInv, PendingInv, SeenInv, PhaseInv, EndInv, Active

LEMMA RecoverErr ==
  ASSUME NumberInv', NEW s, s # "SUCCESS", Recover(s), obs' = {}
  PROVE  ErrInv'
BY AbsentErr DEF Recover, Goto, Before, Issuing, Recovering, Active,
   InCommand, InData, Succeeded

LEMMA NumberKept ==
  ASSUME NumberInv, int' \subseteq int, UNCHANGED <<cmd, stop, data>>,
         UNCHANGED <<txn, raised>>
  PROVE  NumberInv'
BY DEF NumberInv

(* Before SDC_CMD is written, and in the recovery.                         *)
LEMMA ControlErr ==
  ASSUME IInv, ErrInv,
         \/ MsdcWaitReady \/ CheckFifo \/ MsdcReset \/ MsdcClearFifo
         \/ MsdcClearInterrupts
  PROVE  ErrInv'
<1>1. /\ UNCHANGED <<cmd, stop, data, txn, raised, complete, obs>>
      /\ int' \subseteq int
  BY DEF MsdcWaitReady, CheckFifo, MsdcReset, MsdcClearFifo,
     MsdcClearInterrupts, WrittenBack, hwVars
<1>2. NumberInv' BY <1>1, NumberKept DEF ErrInv
<1>3. /\ pc' \notin {"cmdPoll", "cmdAck", "readPoll", "readAck",
                     "writePoll", "writeAck"}
      /\ pc' = "idle" => status' # "SUCCESS"
      /\ Before' => Before
  BY DEF MsdcWaitReady, CheckFifo, MsdcReset, MsdcClearFifo,
     MsdcClearInterrupts, Goto, Return, PollAgain, Before, Issuing, Recovering
<1>4. obs' = {}
  BY <1>1 DEF IInv, Safe, SampleInv, Acking, MsdcWaitReady, CheckFifo,
     MsdcReset, MsdcClearFifo, MsdcClearInterrupts
<1>5. ~Active' /\ ~Succeeded' BY <1>3 DEF Active, InCommand, InData, Succeeded
<1>6. FreshInv' BY <1>1, <1>3 DEF ErrInv, FreshInv
<1> QED BY <1>2, <1>3, <1>4, <1>5, <1>6
        DEF ErrInv, PendingInv, SeenInv, PhaseInv, EndInv, Active

LEMMA IssueErr ==
  ASSUME IInv, ErrInv, WriteCommand PROVE ErrInv'
<1>1. /\ pc = "issue" /\ pc' = "cmdPoll" /\ obs' = {}
      /\ cmd' = txn /\ data'.txn \in {data.txn, txn}
      /\ ~IsDataTransfer(pkt) => data' = data
      /\ UNCHANGED <<int, stop, txn, pkt, raised, complete>>
  BY DEF WriteCommand, Goto, IInv, Safe, SampleInv, Acking
<1>2. /\ raised = {} /\ ~complete /\ data.txn < txn /\ stop < txn
      /\ {txn, cmd, stop, data.txn} \subseteq Nat
  BY <1>1
  DEF ErrInv, FreshInv, Before, Issuing, IInv, TypeOK, HwTypeOK, DrvTypeOK, Txn
<1>3. NumberInv' BY <1>1, <1>2 DEF ErrInv, NumberInv
<1>4. FreshInv' BY <1>1 DEF FreshInv, Before, Issuing
<1>5. PhaseInv' BY <1>1, <1>2 DEF PhaseInv, InCommand, InData
<1>6. EndInv' BY <1>1 DEF EndInv, Succeeded
<1>7. PendingInv' /\ SeenInv' BY <1>1, <1>2 DEF PendingInv, SeenInv
<1> QED BY <1>3, <1>4, <1>5, <1>6, <1>7 DEF ErrInv

LEMMA InBits ==
  ASSUME NEW s, NEW t, NEW errors, \A e \in errors : <<e, t>> \in s
  PROVE  errors \subseteq Bits(s)
<1> SUFFICES ASSUME NEW e \in errors PROVE e \in Bits(s)
  OBVIOUS
<1>1. <<e, t>> \in s /\ <<e, t>>[1] = e OBVIOUS
<1> QED BY <1>1, Zenon DEF Bits

(* A loop reads MSDC_INT: it sees all that was raised so far for its phase. *)
LEMMA SampleErr ==
  ASSUME IInv, ErrInv, ReadInterrupts, StatusIsOwn' PROVE ErrInv'
<1>1. \/ Sample("cmdPoll", CmdSts, "cmdAck")
      \/ Sample("readPoll", DatSts, "readAck")
      \/ Sample("writePoll", DatSts, "writeAck")
  BY DEF ReadInterrupts
<1>2. UNCHANGED <<int, cmd, stop, data, txn, pkt, raised, complete, status>>
  BY <1>1 DEF Sample, hwVars
<1>3. /\ pc \in {"cmdPoll", "readPoll", "writePoll"}
      /\ pc = "cmdPoll" => /\ pc' = "cmdAck"
                           /\ obs' = {b \in int : b[1] \in CmdSts}
      /\ pc # "cmdPoll" => /\ pc' \in {"readAck", "writeAck"}
                           /\ obs' = {b \in int : b[1] \in DatSts}
  BY <1>1 DEF Sample
<1>4. NumberInv' BY <1>2, NumberKept DEF ErrInv
<1>5. FreshInv' /\ EndInv'
  BY <1>3 DEF FreshInv, EndInv, Before, Issuing, Succeeded
<1>6. PendingInv' /\ PhaseInv'
  BY <1>2, <1>3 DEF ErrInv, PendingInv, PhaseInv, Active, InCommand, InData
<1>7. SeenInv'
  <2>1. \A b \in obs' : b[1] \in raised'
    BY <1>2, <1>3 DEF StatusIsOwn, ErrInv, NumberInv
  <2>2. CASE pc = "cmdPoll"
    <3>1. \A e \in raised \cap CmdErr : <<e, txn>> \in obs'
      BY <1>3, <2>2, Kinds DEF ErrInv, PendingInv, Active, InCommand
    <3>2. raised' \cap CmdErr \subseteq Bits(obs') BY <1>2, <3>1, InBits
    <3> QED BY <1>3, <2>1, <2>2, <3>2 DEF SeenInv
  <2>3. CASE pc # "cmdPoll"
    <3>1. \A e \in raised \cap DatErr : <<e, txn>> \in obs'
      BY <1>3, <2>3, Kinds DEF ErrInv, PendingInv, Active, InData
    <3>2. raised' \cap DatErr \subseteq Bits(obs') BY <1>2, <3>1, InBits
    <3> QED BY <1>3, <2>1, <2>3, <3>2 DEF SeenInv
  <2> QED BY <2>2, <2>3
<1> QED BY <1>4, <1>5, <1>6, <1>7 DEF ErrInv

(* Polling again without an error seen: what is acknowledged is no error.  *)
LEMMA NoErrorKept ==
  ASSUME IInv, ErrInv, Active, Errors = {}, Acknowledge,
         UNCHANGED <<cmd, stop, data, txn, raised>>
  PROVE  NumberInv' /\ PendingInv'
<1>1. int' \subseteq int BY DEF Acknowledge
<1>2. \A e \in raised \cap (CmdErr \cup DatErr) : <<e, txn>> \in int'
  BY DEF ErrInv, PendingInv, Acknowledge, Errors
<1> QED BY <1>1, <1>2, NumberKept DEF ErrInv, PendingInv

(* A bit that a loop has seen was raised for the current transaction.      *)
LEMMA SeenRaised ==
  ASSUME ErrInv, NEW e \in Bits(obs) PROVE e \in raised
BY DEF ErrInv, SeenInv, Bits

LEMMA NotFresh ==
  ASSUME pc' \in {"idle", "cmdPoll", "readPoll", "writePoll"} PROVE FreshInv'
BY DEF FreshInv, Before, Issuing

LEMMA CommandPollErr ==
  ASSUME IInv, ErrInv, MsdcPollInterrupts PROVE ErrInv'
<1> USE DEF MsdcPollInterrupts
<1>1. /\ obs' = {} /\ Acknowledge
      /\ UNCHANGED <<cmd, stop, data, txn, pkt, raised, complete>>
  OBVIOUS
<1>2. int' \subseteq int BY DEF Acknowledge
<1>3. NumberInv' BY <1>1, <1>2, NumberKept DEF ErrInv
<1>4. CASE \E s \in Statuses \ {"SUCCESS"} : Recover(s)
  BY <1>1, <1>3, <1>4, RecoverErr
<1>5. CASE Errors = {} /\ "CMDRDY" \in Bits(obs) /\ Goto(AfterCommand)
           /\ UNCHANGED status
  <2>1. obs # {} BY <1>5 DEF Bits
  <2>2. raised \cap CmdErr = {}
    BY <1>5, <2>1 DEF ErrInv, SeenInv, Errors
  <2>3. "CMDRDY" \in raised BY <1>5, SeenRaised
  <2>4. PendingInv'
    BY <1>1, <1>5, NoErrorKept DEF Active, InCommand
  <2>5. ~complete
    BY DEF ErrInv, PhaseInv, InCommand
  <2>6. pc' = AfterCommand BY <1>5 DEF Goto
  <2>7. CASE IsDataTransfer(pkt)
    <3>1. pc' \in {"readPoll", "writePoll"}
      BY <2>6, <2>7 DEF AfterCommand
    <3>2. PhaseInv' BY <1>1, <2>2, <2>3, <2>5, <3>1
      DEF PhaseInv, InCommand, InData
    <3> QED BY <1>1, <1>3, <2>4, <3>1, <3>2, NotFresh
      DEF ErrInv, SeenInv, EndInv, Succeeded
  <2>8. CASE ~IsDataTransfer(pkt)
    <3>1. pc' = "idle" BY <2>6, <2>8, AfterCommandFacts
    <3>2. data.txn < txn /\ raised \cap DatErr = {}
      BY <2>8 DEF ErrInv, PhaseInv, InCommand
    <3>3. cmd # txn
      BY <2>3, Kinds DEF ErrInv, NumberInv, IInv, TypeOK, DrvTypeOK
    <3>4. data.txn # txn
      BY <3>2 DEF IInv, TypeOK, HwTypeOK, DrvTypeOK, Txn
    <3>5. EndInv'
      BY <1>1, <2>2, <2>8, <3>2, <3>3, <3>4 DEF EndInv, ErrorsWin
    <3> QED BY <1>1, <1>3, <2>4, <3>1, <3>5, NotFresh
      DEF ErrInv, SeenInv, PhaseInv, InCommand, InData
  <2> QED BY <2>7, <2>8
<1>6. CASE Bits(obs) = {} /\ PollAgain("cmdPoll")
  <2>1. Errors = {} BY <1>6 DEF Errors
  <2>2. PendingInv' BY <1>1, <2>1, NoErrorKept DEF Active, InCommand
  <2>3. PhaseInv' BY <1>1, <1>6
    DEF ErrInv, PhaseInv, InCommand, InData, PollAgain
  <2> QED BY <1>1, <1>3, <1>6, <2>2, <2>3, NotFresh
    DEF ErrInv, SeenInv, EndInv, Succeeded, PollAgain
<1> QED BY <1>4, <1>5, <1>6, ErrorStatus, StatusFacts

(* The end of a data phase, seen without an error.                         *)
LEMMA DataSeen ==
  ASSUME IInv, ErrInv, Errors = {}, "XFER_COMPL" \in Bits(obs),
         pc \in {"readAck", "writeAck"}
  PROVE  "XFER_COMPL" \in raised /\ raised \cap DatErr = {}
BY SeenRaised DEF ErrInv, SeenInv, Errors

LEMMA DataEnd ==
  ASSUME IInv, ErrInv, InData, "XFER_COMPL" \in raised, raised \cap DatErr = {}
  PROVE  /\ raised \cap (CmdErr \cup DatErr) = {}
         /\ cmd # txn /\ data.txn = 0 /\ data.txn # txn
<1>1. "CMDRDY" \in raised /\ raised \cap CmdErr = {} /\ IsDataTransfer(pkt)
  BY DEF ErrInv, PhaseInv, IInv, Safe, SampleInv
<1>2. txn # 0 BY DEF IInv, TypeOK, DrvTypeOK, InData
<1>3. cmd # txn BY <1>1, <1>2, Kinds DEF ErrInv, NumberInv
<1>4. data.txn \in {0, txn} BY <1>1 DEF IInv, Safe, DataInv, Own1
<1>5. data.txn = 0 BY <1>2, <1>4, Kinds DEF ErrInv, NumberInv
<1> QED BY <1>1, <1>2, <1>3, <1>5

LEMMA ReadPollErr ==
  ASSUME IInv, ErrInv, MsdcPioRead PROVE ErrInv'
<1> USE DEF MsdcPioRead
<1>1. /\ obs' = {} /\ Acknowledge /\ InData
      /\ UNCHANGED <<cmd, stop, data, txn, pkt, raised>>
  BY DEF InData
<1>2. int' \subseteq int BY DEF Acknowledge
<1>3. NumberInv' BY <1>1, <1>2, NumberKept DEF ErrInv
<1>4. CASE \E s \in Statuses \ {"SUCCESS"} : Recover(s)
  BY <1>1, <1>3, <1>4, RecoverErr
<1>5. CASE Errors = {} /\ pc' \in {"idle", "readPoll"}
           /\ (pc' = "idle" => complete')
  <2>1. PendingInv' BY <1>1, <1>5, NoErrorKept DEF Active
  <2>2. complete' => "XFER_COMPL" \in raised /\ raised \cap DatErr = {}
    BY <1>5, DataSeen DEF ErrInv, PhaseInv, InData
  <2>3. PhaseInv'
    BY <1>1, <1>5, <2>2 DEF ErrInv, PhaseInv, InCommand, InData
  <2>4. EndInv'
    <3>1. CASE pc' = "idle"
      BY <1>1, <1>5, <2>2, <3>1, DataEnd DEF EndInv, ErrorsWin
    <3>2. CASE pc' = "readPoll" BY <3>2 DEF EndInv, Succeeded
    <3> QED BY <1>5, <3>1, <3>2
  <2> QED BY <1>1, <1>3, <1>5, <2>1, <2>3, <2>4, NotFresh
    DEF ErrInv, SeenInv
<1>6. \/ \E s \in Statuses \ {"SUCCESS"} : Recover(s)
      \/ Errors = {} /\ pc' = "readPoll"
      \/ Errors = {} /\ pc' = "idle" /\ complete'
  BY ErrorStatus, StatusFacts DEF Return, Goto, PollAgain, ReadDone
<1> QED BY <1>4, <1>5, <1>6

LEMMA WritePollErr ==
  ASSUME IInv, ErrInv, MsdcPioWrite PROVE ErrInv'
<1> USE DEF MsdcPioWrite
<1>1. /\ obs' = {} /\ Acknowledge /\ InData
      /\ UNCHANGED <<cmd, stop, data, txn, pkt, raised>>
  BY DEF InData
<1>2. int' \subseteq int BY DEF Acknowledge
<1>3. NumberInv' BY <1>1, <1>2, NumberKept DEF ErrInv
<1>4. CASE \E s \in Statuses \ {"SUCCESS"} : Recover(s)
  BY <1>1, <1>3, <1>4, RecoverErr
<1>5. CASE Errors = {} /\ pc' = "writePoll" /\ complete' = complete
  <2>1. PendingInv' BY <1>1, <1>5, NoErrorKept DEF Active
  <2>2. PhaseInv'
    BY <1>1, <1>5 DEF ErrInv, PhaseInv, InCommand, InData
  <2> QED BY <1>1, <1>3, <1>5, <2>1, <2>2, NotFresh
    DEF ErrInv, SeenInv, EndInv, Succeeded
<1>6. CASE Errors = {} /\ pc' = "idle" /\ WriteDone
  <2>1. "XFER_COMPL" \in raised /\ raised \cap DatErr = {}
    BY <1>6, DataSeen DEF WriteDone
  <2>2. EndInv' BY <1>1, <2>1, DataEnd DEF EndInv, ErrorsWin
  <2> QED BY <1>1, <1>3, <1>6, <2>2, NotFresh
    DEF ErrInv, SeenInv, PendingInv, PhaseInv, Active, InCommand, InData
<1>7. \/ \E s \in Statuses \ {"SUCCESS"} : Recover(s)
      \/ Errors = {} /\ pc' = "writePoll" /\ complete' = complete
      \/ Errors = {} /\ pc' = "idle" /\ WriteDone
  BY ErrorStatus, StatusFacts DEF Return, Goto, PollAgain
<1> QED BY <1>4, <1>5, <1>6, <1>7

LEMMA PassThruErr ==
  ASSUME IInv, ErrInv, NEW p \in Packets, MsdcPassThru(p) PROVE ErrInv'
<1>1. /\ txn' = txn + 1 /\ raised' = {} /\ obs' = {} /\ complete' = FALSE
      /\ pc' \in {"waitReady", "idle"}
      /\ pc' = "idle" => status' # "SUCCESS"
      /\ UNCHANGED <<int, cmd, stop, data>>
  BY DEF MsdcPassThru, Goto, hwVars
<1>2. {txn, cmd, stop, data.txn} \subseteq Nat /\ int \subseteq IntBits \X Txn
  BY DEF IInv, TypeOK, HwTypeOK, DrvTypeOK, Txn
<1>3. \A b \in int : b[2] \in Nat /\ b[2] <= txn
  BY <1>2 DEF ErrInv, NumberInv, Txn
<1>4. NumberInv' BY <1>1, <1>2, <1>3 DEF ErrInv, NumberInv
<1>5. FreshInv' BY <1>1, <1>2 DEF ErrInv, NumberInv, FreshInv
<1> QED BY <1>1, <1>4, <1>5
    DEF ErrInv, PendingInv, SeenInv, PhaseInv, EndInv, Active, InCommand,
        InData, Succeeded

LEMMA StutterErr == ASSUME ErrInv, UNCHANGED vars PROVE ErrInv'
BY DEF vars, hwVars, drvVars, ErrInv, NumberInv, FreshInv, PendingInv,
   SeenInv, PhaseInv, EndInv, Before, Issuing, Recovering, Active, InCommand,
   InData, Succeeded, ErrorsWin

LEMMA ErrStep == IInv /\ IInv' /\ ErrInv /\ [Next]_vars => ErrInv'
<1> SUFFICES ASSUME IInv, IInv', ErrInv, [Next]_vars PROVE ErrInv'
  OBVIOUS
<1>1. StatusIsOwn' BY DEF IInv, Safe, SampleInv
<1> QED
  BY <1>1, ControllerErr, ControlErr, IssueErr, SampleErr, CommandPollErr,
     ReadPollErr, WritePollErr, PassThruErr, StutterErr
  DEF Next, Driver

LEMMA ErrInit == Init => ErrInv
BY DEF Init, ErrInv, NumberInv, FreshInv, PendingInv, SeenInv, PhaseInv,
   EndInv, Before, Issuing, Recovering, Active, InCommand, InData, Succeeded,
   NoData

-----------------------------------------------------------------------------
(* The units of a transfer: those moved, those in the FIFO and those still *)
(* to move add up to its length, and all are its own.                      *)
OwnUnits(s) == \A i \in 1 .. Len(s) : s[i] = txn
Reads       == IsDataTransfer(pkt) /\ IsRead(pkt)
Writes      == IsDataTransfer(pkt) /\ ~IsRead(pkt)

(* A transmit FIFO is left empty by every transaction.                     *)
IdleFifoInv == tx # <<>> => \/ pc \in {"writePoll", "writeAck"}
                            \/ pc = "reset" /\ Recovering

StartInv ==
  Before \/ InCommand => /\ Len(got) = 0 /\ Len(sent) = 0
                         /\ remain = Length

ReadInv ==
  /\ pc \in {"readPoll", "readAck"} => IsRead(pkt)
  /\ Active /\ Reads =>
       OwnUnits(rx) /\ OwnUnits(got) /\ Len(got) + remain = Length

WriteInv ==
  /\ pc \in {"writePoll", "writeAck"} => ~IsRead(pkt)
  /\ Active /\ Writes =>
       /\ data.txn # 0 => ~data.read /\ Len(sent) + left = Length
       /\ OwnUnits(tx) /\ OwnUnits(sent)
       /\ Len(sent) + Len(tx) + remain <= Length
       /\ "XFER_COMPL" \in raised => Len(sent) = Length

UnitInv == /\ IdleFifoInv /\ StartInv /\ ReadInv /\ WriteInv
           /\ ReadIsOwn /\ WriteIsOwn

LEMMA OwnAll ==
  ASSUME NEW n \in Nat, NEW s \in Seq(Txn), Len(s) = n, OwnUnits(s)
  PROVE  s = [i \in 1 .. n |-> txn]
BY LenProperties DEF OwnUnits

(* A step of the controller that moves no unit.                            *)
LEMMA UnmovedUnits ==
  ASSUME UnitInv, UNCHANGED <<drvVars, rx, tx, sent>>,
         data' \in {data, NoData}, data'.txn # 0 => left' = left,
         "XFER_COMPL" \in raised' =>
           "XFER_COMPL" \in raised \/ (data.txn # 0 /\ left = 0),
         NEW n \in Nat, n = Len(sent)
  PROVE  UnitInv'
<1> USE DEF UnitInv, drvVars, NoData
<1>1. IdleFifoInv' BY DEF IdleFifoInv, Recovering
<1>2. StartInv'
  BY DEF StartInv, Length, Before, Issuing, InCommand, Recovering
<1>3. ReadInv'
  BY DEF ReadInv, Reads, OwnUnits, Length, Active, InCommand, InData
<1>4. WriteInv'
  BY DEF WriteInv, Writes, OwnUnits, Length, Active, InCommand, InData
<1>5. ReadIsOwn' /\ WriteIsOwn' BY DEF ReadIsOwn, WriteIsOwn, Succeeded
<1> QED BY <1>1, <1>2, <1>3, <1>4, <1>5

LEMMA SeqLengths ==
  ASSUME IInv
  PROVE  /\ Len(rx) \in Nat /\ Len(tx) \in Nat /\ Len(got) \in Nat
         /\ Len(sent) \in Nat /\ remain \in Nat /\ left \in Nat
         /\ rx \in Seq(Txn) /\ tx \in Seq(Txn) /\ got \in Seq(Txn)
         /\ sent \in Seq(Txn)
BY LenProperties DEF IInv, TypeOK, HwTypeOK, DrvTypeOK

LEMMA ReceiveUnits ==
  ASSUME IInv, ErrInv, UnitInv, HwReceive PROVE UnitInv'
<1> USE DEF UnitInv, drvVars
<1>1. /\ data.txn # 0 /\ data.read /\ left' = left - 1
      /\ rx' = Append(rx, data.txn)
      /\ UNCHANGED <<drvVars, data, tx, sent, raised>>
  BY DEF HwReceive, DataRuns
<1>2. Active /\ Reads => OwnUnits(rx)'
  <2> HAVE Active /\ Reads
  <2>1. data.txn = txn
    BY <1>1 DEF IInv, Safe, DataInv, Own1, Active, Reads
  <2> QED BY <1>1, <2>1, SeqLengths DEF ReadInv, OwnUnits
<1>3. IdleFifoInv' BY <1>1 DEF IdleFifoInv, Recovering
<1>4. StartInv'
  BY <1>1 DEF StartInv, Length, Before, Issuing, InCommand, Recovering
<1>5. ReadInv'
  BY <1>1, <1>2 DEF ReadInv, Reads, OwnUnits, Length, Active, InCommand, InData
<1>6. WriteInv'
  BY <1>1 DEF WriteInv, Writes, OwnUnits, Length, Active, InCommand, InData
<1>7. ReadIsOwn' /\ WriteIsOwn' BY <1>1 DEF ReadIsOwn, WriteIsOwn, Succeeded
<1> QED BY <1>3, <1>4, <1>5, <1>6, <1>7

LEMMA TransmitUnits ==
  ASSUME IInv, ErrInv, UnitInv, HwTransmit PROVE UnitInv'
<1> USE DEF UnitInv, drvVars
<1>1. /\ data.txn # 0 /\ ~data.read /\ left' = left - 1 /\ tx # <<>>
      /\ sent' = Append(sent, Head(tx)) /\ tx' = Tail(tx)
      /\ UNCHANGED <<drvVars, data, rx, raised>>
  BY DEF HwTransmit, DataRuns
<1>2. /\ Len(sent') = Len(sent) + 1 /\ Len(tx') = Len(tx) - 1
      /\ OwnUnits(tx) /\ OwnUnits(sent) => OwnUnits(tx)' /\ OwnUnits(sent)'
  BY <1>1, SeqLengths DEF OwnUnits
<1>3. IdleFifoInv' BY <1>1 DEF IdleFifoInv, Recovering
<1>4. \/ pc \in {"writePoll", "writeAck"}
      \/ pc = "reset" /\ Recovering
  BY <1>1 DEF IdleFifoInv
<1>5. StartInv'
  BY <1>1, <1>4 DEF StartInv, Before, Issuing, InCommand, Recovering
<1>6. ReadInv'
  BY <1>1 DEF ReadInv, Reads, OwnUnits, Length, Active, InCommand, InData
<1>7. Active /\ Writes => "XFER_COMPL" \notin raised
  <2> HAVE Active /\ Writes
  <2>1. data.txn = txn
    BY <1>1 DEF IInv, Safe, DataInv, Own1, Active, Writes
  <2> QED BY <1>1, <2>1, Kinds DEF ErrInv, NumberInv
<1>8. WriteInv'
  BY <1>1, <1>2, <1>7, SeqLengths
  DEF WriteInv, Writes, Length, Active, InCommand, InData
<1>9. ReadIsOwn' /\ WriteIsOwn'
  BY <1>1, <1>4 DEF ReadIsOwn, WriteIsOwn, Succeeded
<1> QED BY <1>3, <1>5, <1>6, <1>8, <1>9

LEMMA ControllerUnits ==
  ASSUME IInv, ErrInv, UnitInv, Controller PROVE UnitInv'
<1>1. data' \in {data, NoData} /\ UNCHANGED drvVars BY ControllerEnds
<1>2. "XFER_COMPL" \in raised' =>
        "XFER_COMPL" \in raised \/ (data.txn # 0 /\ left = 0)
  <2>1. CASE CommandEnds
    BY <2>1, Kinds DEF CommandEnds, Ends, Raise
  <2>2. CASE DataEnds BY <2>2 DEF DataEnds, Ends, Raise
  <2>3. CASE StopEnds BY <2>3, Kinds DEF StopEnds, Ends, Raise
  <2>4. CASE Unraised BY <2>4 DEF Unraised
  <2> QED BY <2>1, <2>2, <2>3, <2>4, ControllerEnds
<1>3. CASE HwReceive BY <1>3, ReceiveUnits
<1>4. CASE HwTransmit BY <1>4, TransmitUnits
<1>5. CASE \/ HwCommandDone \/ HwDataDone \/ HwStopDone \/ HwDat0Released
           \/ HwResetDone \/ HwClearDone
  <2>1. UNCHANGED <<rx, tx, sent>>
    BY <1>5 DEF HwCommandDone, HwDataDone, HwStopDone, HwDat0Released,
       HwResetDone, HwClearDone
  <2>2. data'.txn # 0 => left' = left
    BY <1>5 DEF HwCommandDone, HwDataDone, HwStopDone, HwDat0Released,
       HwResetDone, HwClearDone, NoData
  <2> QED BY <1>1, <1>2, <2>1, <2>2, SeqLengths, UnmovedUnits
<1> QED BY <1>3, <1>4, <1>5 DEF Controller

(* A step of the driver that moves no unit and begins no phase.            *)
LEMMA SameUnits ==
  ASSUME UnitInv, UNCHANGED <<data, left, rx, tx, got, sent>>,
         UNCHANGED <<txn, pkt, raised, remain>>,
         \/ pc' = pc /\ UNCHANGED status
         \/ pc = "cmdPoll" /\ pc' = "cmdAck"
         \/ pc = "cmdAck" /\ pc' = "cmdPoll"
         \/ pc = "readPoll" /\ pc' = "readAck"
         \/ pc = "writePoll" /\ pc' = "writeAck"
  PROVE  UnitInv'
<1> USE DEF UnitInv
<1>1. IdleFifoInv' BY DEF IdleFifoInv, Recovering
<1>2. StartInv'
  BY DEF StartInv, Length, Before, Issuing, InCommand, Recovering
<1>3. ReadInv'
  BY DEF ReadInv, Reads, OwnUnits, Length, Active, InCommand, InData
<1>4. WriteInv'
  BY DEF WriteInv, Writes, OwnUnits, Length, Active, InCommand, InData
<1>5. ReadIsOwn' /\ WriteIsOwn' BY DEF ReadIsOwn, WriteIsOwn, Succeeded
<1> QED BY <1>1, <1>2, <1>3, <1>4, <1>5

(* An engine that recovers or has failed promises an empty FIFO at most.   *)
LEMMA AbsentUnits ==
  ASSUME IdleFifoInv', ~Before', ~Active', ~Succeeded' PROVE UnitInv'
BY DEF UnitInv, StartInv, ReadInv, WriteInv, ReadIsOwn, WriteIsOwn, Active,
   InCommand, InData

LEMMA RecoverUnits ==
  ASSUME NEW s, s # "SUCCESS", Recover(s) PROVE UnitInv'
<1>1. IdleFifoInv' BY DEF Recover, Goto, IdleFifoInv, Recovering
<1> QED BY <1>1, AbsentUnits DEF Recover, Goto, Before, Issuing, Recovering,
           Active, InCommand, InData, Succeeded

LEMMA ControlUnits ==
  ASSUME IInv, UnitInv,
         \/ MsdcWaitReady \/ CheckFifo \/ MsdcReset \/ MsdcClearFifo
         \/ MsdcClearInterrupts
  PROVE  UnitInv'
<1>1. UNCHANGED <<data, left, txn, pkt, raised, remain, got, sent>>
  BY DEF MsdcWaitReady, CheckFifo, MsdcReset, MsdcClearFifo,
     MsdcClearInterrupts, hwVars
<1>2. /\ pc' \notin {"cmdPoll", "cmdAck", "readPoll", "readAck",
                     "writePoll", "writeAck"}
      /\ pc' = "idle" => status' # "SUCCESS"
      /\ Before' => Before
  BY DEF MsdcWaitReady, CheckFifo, MsdcReset, MsdcClearFifo,
     MsdcClearInterrupts, Goto, Return, PollAgain, Before, Issuing, Recovering
<1>3. IdleFifoInv'
  BY DEF MsdcWaitReady, CheckFifo, MsdcReset, MsdcClearFifo, PollAgain,
     MsdcClearInterrupts, UnitInv, IdleFifoInv, hwVars, Goto, Return,
     SetClear, Recovering
<1>4. ~Active' /\ ~Succeeded'
  BY <1>2 DEF Active, InCommand, InData, Succeeded
<1>5. StartInv'
  BY <1>1, <1>2, <1>4 DEF UnitInv, StartInv, Length, Active
<1> QED BY <1>2, <1>3, <1>4, <1>5
        DEF UnitInv, ReadInv, WriteInv, ReadIsOwn, WriteIsOwn

LEMMA IssueUnits ==
  ASSUME IInv, ErrInv, UnitInv, WriteCommand PROVE UnitInv'
<1>1. /\ pc = "issue" /\ pc' = "cmdPoll" /\ raised = {}
      /\ UNCHANGED <<rx, tx, got, sent, remain, txn, pkt, raised>>
      /\ Len(got) = 0 /\ Len(sent) = 0 /\ remain = Length /\ tx = <<>>
  BY DEF WriteCommand, Goto, ErrInv, FreshInv, UnitInv, StartInv,
     IdleFifoInv, Before, Issuing
<1>2. IsDataTransfer(pkt) =>
        /\ data' = [txn |-> txn, read |-> IsRead(pkt), auto12 |-> Auto12(pkt)]
        /\ left' = Length /\ rx = <<>>
  BY <1>1 DEF WriteCommand, Length, IInv, Safe, DrainInv, Drained
<1>3. Len(tx) = 0 /\ (IsDataTransfer(pkt) => Len(rx) = 0)
  BY <1>1, <1>2, EmptySeq
<1>4. Length \in Nat
  BY PacketFacts DEF Length, IInv, TypeOK, DrvTypeOK
<1>5. IdleFifoInv' BY <1>1 DEF IdleFifoInv
<1>6. StartInv' BY <1>1 DEF StartInv, Length
<1>7. ReadInv'
  BY <1>1, <1>3, <1>4 DEF ReadInv, Reads, OwnUnits, Length
<1>8. WriteInv'
  BY <1>1, <1>2, <1>3, <1>4 DEF WriteInv, Writes, OwnUnits, Length
<1>9. ReadIsOwn' /\ WriteIsOwn'
  BY <1>1 DEF ReadIsOwn, WriteIsOwn, Succeeded
<1> QED BY <1>5, <1>6, <1>7, <1>8, <1>9 DEF UnitInv

LEMMA SampleUnits ==
  ASSUME UnitInv, ReadInterrupts PROVE UnitInv'
BY SameUnits DEF ReadInterrupts, Sample, hwVars

LEMMA CommandPollUnits ==
  ASSUME IInv, ErrInv, UnitInv, MsdcPollInterrupts PROVE UnitInv'
<1> USE DEF MsdcPollInterrupts
<1>1. UNCHANGED <<data, left, rx, tx, got, sent, txn, pkt, raised, remain>>
  OBVIOUS
<1>2. CASE \E s \in Statuses \ {"SUCCESS"} : Recover(s)
  BY <1>2, RecoverUnits
<1>3. CASE PollAgain("cmdPoll") BY <1>1, <1>3, SameUnits DEF PollAgain
<1>4. CASE Goto(AfterCommand)
  <2>1. pc' = AfterCommand /\ pc = "cmdAck" BY <1>4 DEF Goto
  <2>2. Active /\ StartInv BY DEF Active, InCommand, UnitInv
  <2>3. tx = <<>> BY DEF UnitInv, IdleFifoInv
  <2>4. IdleFifoInv' BY <1>1, <2>3 DEF IdleFifoInv
  <2>5. CASE IsDataTransfer(pkt)
    <3>1. \/ pc' = "readPoll" /\ IsRead(pkt)
          \/ pc' = "writePoll" /\ ~IsRead(pkt)
      BY <2>1, <2>5 DEF AfterCommand
    <3>2. StartInv' BY <3>1 DEF StartInv, Before, Issuing, InCommand
    <3>3. ReadInv'
      BY <1>1, <2>2, <3>1 DEF UnitInv, ReadInv, Reads, OwnUnits, Length, Active
    <3>4. WriteInv'
      BY <1>1, <2>2, <3>1
      DEF UnitInv, WriteInv, Writes, OwnUnits, Length, Active
    <3>5. ReadIsOwn' /\ WriteIsOwn'
      BY <3>1 DEF ReadIsOwn, WriteIsOwn, Succeeded
    <3> QED BY <2>4, <3>2, <3>3, <3>4, <3>5 DEF UnitInv
  <2>6. CASE ~IsDataTransfer(pkt)
    <3>1. pc' = "idle" BY <2>1, <2>6, AfterCommandFacts
    <3> QED BY <1>1, <2>4, <2>6, <3>1
      DEF UnitInv, StartInv, ReadInv, WriteInv, ReadIsOwn, WriteIsOwn,
          Before, Issuing, Active, InCommand, InData
  <2> QED BY <2>5, <2>6
<1> QED BY <1>2, <1>3, <1>4, ErrorStatus, StatusFacts

LEMMA TakeUnits ==
  ASSUME IInv, NEW n \in Nat, n <= Len(rx)
  PROVE  /\ Len(got \o SubSeq(rx, 1, n)) = Len(got) + n
         /\ \A i \in 1 .. Len(got) : (got \o SubSeq(rx, 1, n))[i] = got[i]
         /\ \A i \in Len(got) + 1 .. Len(got) + n :
              (got \o SubSeq(rx, 1, n))[i] = rx[i - Len(got)]
         /\ Len(SubSeq(rx, n + 1, Len(rx))) = Len(rx) - n
         /\ \A i \in 1 .. Len(rx) - n :
              SubSeq(rx, n + 1, Len(rx))[i] = rx[n + i]
<1>1. \A i \in 1 .. Len(rx) : rx[i] \in Txn BY SeqLengths, ElementOfSeq
<1>2. /\ SubSeq(rx, 1, n) \in Seq(Txn) /\ Len(SubSeq(rx, 1, n)) = n
      /\ \A i \in 1 .. n : SubSeq(rx, 1, n)[i] = rx[i]
  BY <1>1, SeqLengths, SubSeqProperties
<1>3. /\ Len(SubSeq(rx, n + 1, Len(rx))) = Len(rx) - n
      /\ \A i \in 1 .. Len(rx) - n :
           SubSeq(rx, n + 1, Len(rx))[i] = rx[n + i]
  BY <1>1, SeqLengths, SubSeqProperties
<1> QED BY <1>2, <1>3, SeqLengths

LEMMA ReadMoves ==
  ASSUME IInv, UnitInv, MsdcPioRead
  PROVE  /\ Reads /\ Active
         /\ Len(got) <= Len(got') /\ Len(got') + remain' = Length'
         /\ OwnUnits(rx)' /\ OwnUnits(got)'
<1> DEFINE take == IF Chunk # 0 /\ Len(rx) >= Chunk THEN Chunk ELSE 0
<1>1. /\ got' = got \o SubSeq(rx, 1, take)
      /\ rx' = SubSeq(rx, take + 1, Len(rx))
      /\ remain' = remain - take
      /\ pc = "readAck"
      /\ UNCHANGED <<data, left, tx, txn, pkt, sent, raised>>
  BY DEF MsdcPioRead
<1>2. take \in Nat /\ take <= Len(rx) /\ take <= remain
  BY FifoFact, SeqLengths DEF Chunk
<1> HIDE DEF take
<1>3. IsRead(pkt) /\ Reads /\ Active
  BY <1>1
  DEF UnitInv, ReadInv, Reads, IInv, Safe, SampleInv, Active, InData
<1>4. OwnUnits(rx) /\ OwnUnits(got) /\ Len(got) + remain = Length
  BY <1>3 DEF UnitInv, ReadInv
<1>5. /\ Len(got') = Len(got) + take /\ Len(rx') = Len(rx) - take
      /\ OwnUnits(rx)' /\ OwnUnits(got)'
  <2>1. /\ Len(got') = Len(got) + take /\ Len(rx') = Len(rx) - take
        /\ \A i \in 1 .. Len(got) : got'[i] = got[i]
        /\ \A i \in Len(got) + 1 .. Len(got) + take :
             got'[i] = rx[i - Len(got)]
        /\ \A i \in 1 .. Len(rx) - take : rx'[i] = rx[take + i]
    BY <1>1, <1>2, TakeUnits
  <2>2. ASSUME NEW i \in 1 .. Len(rx) - take PROVE rx'[i] = txn
    <3>1. take + i \in 1 .. Len(rx) BY <1>2, SeqLengths
    <3> QED BY <1>4, <2>1, <3>1 DEF OwnUnits
  <2>3. ASSUME NEW i \in 1 .. Len(got) + take PROVE got'[i] = txn
    <3>1. CASE i <= Len(got)
      <4>1. i \in 1 .. Len(got) BY <3>1, SeqLengths
      <4> QED BY <1>4, <2>1, <4>1 DEF OwnUnits
    <3>2. CASE i > Len(got)
      <4>1. i - Len(got) \in 1 .. Len(rx) BY <1>2, <3>2, SeqLengths
      <4>2. i \in Len(got) + 1 .. Len(got) + take
        BY <1>2, <3>2, SeqLengths
      <4> QED BY <1>4, <2>1, <4>1, <4>2 DEF OwnUnits
    <3> QED BY <1>2, <3>1, <3>2, SeqLengths
  <2> QED BY <1>1, <2>1, <2>2, <2>3 DEF OwnUnits
<1>6. Len(got') + remain' = Length'
  BY <1>1, <1>2, <1>4, <1>5, SeqLengths DEF Length
<1> QED BY <1>2, <1>3, <1>5, <1>6, SeqLengths

LEMMA ReadPollUnits ==
  ASSUME IInv, ErrInv, UnitInv, MsdcPioRead PROVE UnitInv'
<1>1. pc = "readAck" /\ UNCHANGED <<data, left, tx, txn, pkt, sent, raised>>
  BY DEF MsdcPioRead
<1>2. /\ Reads /\ Active /\ Len(got') + remain' = Length'
      /\ OwnUnits(rx)' /\ OwnUnits(got)'
  BY ReadMoves
<1>3. tx = <<>> BY <1>1 DEF UnitInv, IdleFifoInv
<1>4. IdleFifoInv' BY <1>1, <1>3 DEF IdleFifoInv
<1>5. CASE pc' \in {"idle", "readPoll"} /\ (pc' = "idle" => remain' = 0)
  <2>1. StartInv' BY <1>5 DEF StartInv, Before, Issuing, InCommand
  <2>2. ReadInv' BY <1>1, <1>2, <1>5 DEF ReadInv, Reads
  <2>3. WriteInv' BY <1>1, <1>2, <1>5 DEF WriteInv, Writes, Reads
  <2>4. ReadIsOwn'
    <3> SUFFICES ASSUME pc' = "idle"
                 PROVE  got' = [i \in 1 .. TransferLength(pkt') |-> txn']
      BY DEF ReadIsOwn, Succeeded
    <3>1. got' \in Seq(Txn) BY ReadPollType DEF IInv, TypeOK, DrvTypeOK
    <3>2. Len(got') = TransferLength(pkt')
      BY <1>2, <1>5, <3>1, LenProperties DEF Length
    <3>3. \A i \in 1 .. Len(got') : got'[i] = txn' BY <1>2 DEF OwnUnits
    <3> QED BY <3>1, <3>2, <3>3, LenProperties
  <2>5. WriteIsOwn' BY <1>1, <1>2 DEF WriteIsOwn, Reads
  <2> QED BY <1>4, <2>1, <2>2, <2>3, <2>4, <2>5 DEF UnitInv
<1>6. \/ \E s \in Statuses \ {"SUCCESS"} : Recover(s)
      \/ pc' \in {"idle", "readPoll"} /\ (pc' = "idle" => remain' = 0)
  BY ErrorStatus, StatusFacts
  DEF MsdcPioRead, Return, Goto, PollAgain, ReadDone
<1> QED BY <1>5, <1>6, RecoverUnits

(* The units put in the FIFO, or dropped by it, are own and were to move.  *)
LEMMA FillUnits ==
  ASSUME IInv, FillFifo, OwnUnits(tx), txn \in Txn, txn' = txn
  PROVE  /\ OwnUnits(tx)' /\ remain' \in Nat
         /\ Len(tx') + remain' <= Len(tx) + remain
<1> DEFINE put == IF TxRoom >= Chunk THEN Chunk ELSE 0
           units == [i \in 1 .. put |-> txn]
<1>1. put \in Nat /\ put <= remain
  BY FifoFact, SeqLengths DEF Chunk
<1>2. tx' = (IF clr THEN tx ELSE tx \o units) /\ remain' = remain - put
  BY DEF FillFifo
<1> HIDE DEF put
<1>3. Len(units) = put /\ \A i \in 1 .. put : units[i] = txn
  BY <1>1, LenProperties
<1>4. units \in Seq(Txn) BY <1>1
<1> HIDE DEF units
<1>5. CASE clr BY <1>1, <1>2, <1>5, SeqLengths DEF OwnUnits
<1>6. CASE ~clr
  <2>1. Len(tx') = Len(tx) + put
    BY <1>2, <1>3, <1>4, <1>6, SeqLengths, ConcatProperties
  <2>2. ASSUME NEW i \in 1 .. Len(tx) + put PROVE tx'[i] = txn
    <3>1. CASE i <= Len(tx)
      BY <1>2, <1>3, <1>4, <1>6, <3>1, SeqLengths DEF OwnUnits
    <3>2. CASE i > Len(tx)
      <4>1. i - Len(tx) \in 1 .. put BY <1>1, <3>2, SeqLengths
      <4>2. tx'[i] = units[i - Len(tx)]
        BY <1>1, <1>2, <1>3, <1>4, <1>6, <3>2, SeqLengths
      <4> QED BY <1>3, <4>1, <4>2
    <3> QED BY <1>1, <3>1, <3>2, SeqLengths
  <2> QED BY <1>1, <1>2, <2>1, <2>2, SeqLengths DEF OwnUnits
<1> QED BY <1>5, <1>6

LEMMA WritePollUnits ==
  ASSUME IInv, ErrInv, UnitInv, MsdcPioWrite PROVE UnitInv'
<1>1. /\ pc = "writeAck"
      /\ UNCHANGED <<data, left, rx, txn, pkt, got, sent, raised>>
  BY DEF MsdcPioWrite
<1>2. Writes /\ Active
  BY <1>1
  DEF UnitInv, WriteInv, Writes, IInv, Safe, SampleInv, Active, InData
<1>3. /\ data.txn # 0 => ~data.read /\ Len(sent) + left = Length
      /\ OwnUnits(tx) /\ OwnUnits(sent)
      /\ Len(sent) + Len(tx) + remain <= Length
      /\ "XFER_COMPL" \in raised => Len(sent) = Length
  BY <1>2 DEF UnitInv, WriteInv
<1>4. CASE pc' = "writePoll" /\ FillFifo
  <2>1. /\ OwnUnits(tx)' /\ remain' \in Nat
        /\ Len(tx') + remain' <= Len(tx) + remain
    <3>1. txn \in Txn BY <1>1 DEF IInv, TypeOK, DrvTypeOK
    <3> QED BY <1>1, <1>3, <1>4, <3>1, FillUnits
  <2>2. Len(tx') \in Nat
    BY WritePollType, LenProperties DEF IInv, TypeOK, HwTypeOK
  <2>3. Length \in Nat
    BY PacketFacts DEF Length, IInv, TypeOK, DrvTypeOK
  <2>4. Len(sent) + Len(tx') + remain' <= Length
    BY <1>3, <2>1, <2>2, <2>3, SeqLengths, SMTT(20)
  <2>5. WriteInv'
    BY <1>1, <1>2, <1>3, <1>4, <2>1, <2>4
    DEF WriteInv, Writes, Length, OwnUnits
  <2>6. IdleFifoInv' /\ StartInv'
    BY <1>4 DEF IdleFifoInv, StartInv, Before, Issuing, InCommand
  <2>7. ReadInv' BY <1>1, <1>2, <1>4 DEF ReadInv, Reads, Writes
  <2>8. ReadIsOwn' /\ WriteIsOwn'
    BY <1>4 DEF ReadIsOwn, WriteIsOwn, Succeeded
  <2> QED BY <2>5, <2>6, <2>7, <2>8 DEF UnitInv
<1>5. CASE pc' = "idle" /\ Errors = {} /\ WriteDone /\ UNCHANGED <<tx, remain>>
  <2>1. "XFER_COMPL" \in raised BY <1>5, SeenRaised DEF WriteDone
  <2>2. Len(sent) = Length BY <1>3, <2>1
  <2>3. Length \in Nat
    BY PacketFacts DEF Length, IInv, TypeOK, DrvTypeOK
  <2>4. Len(tx) = 0 BY <1>3, <2>2, <2>3, SeqLengths
  <2>5. tx = <<>> BY <2>4, EmptySeq, SeqLengths
  <2>6. WriteIsOwn'
    <3>1. sent = [i \in 1 .. Length |-> txn]
      BY <1>3, <2>2, <2>3, OwnAll, SeqLengths
    <3> QED BY <1>1, <3>1 DEF WriteIsOwn, Length
  <2>7. ReadIsOwn' BY <1>1, <1>2 DEF ReadIsOwn, Writes
  <2>8. IdleFifoInv' BY <1>5, <2>5 DEF IdleFifoInv
  <2> QED BY <1>5, <2>6, <2>7, <2>8
      DEF UnitInv, StartInv, ReadInv, WriteInv, Before, Issuing, Active,
          InCommand, InData
<1>6. \/ \E s \in Statuses \ {"SUCCESS"} : Recover(s)
      \/ pc' = "writePoll" /\ FillFifo
      \/ pc' = "idle" /\ Errors = {} /\ WriteDone /\ UNCHANGED <<tx, remain>>
  BY ErrorStatus, StatusFacts DEF MsdcPioWrite, Return, Goto, PollAgain
<1> QED BY <1>4, <1>5, <1>6, RecoverUnits

LEMMA PassThruUnits ==
  ASSUME IInv, UnitInv, NEW p \in Packets, MsdcPassThru(p) PROVE UnitInv'
<1>1. /\ pc = "idle" /\ pc' \in {"waitReady", "idle"}
      /\ pc' = "idle" => status' # "SUCCESS"
      /\ got' = <<>> /\ sent' = <<>> /\ remain' = Length'
      /\ UNCHANGED tx
  BY DEF MsdcPassThru, Goto, hwVars, Length
<1>2. tx = <<>> BY <1>1 DEF UnitInv, IdleFifoInv
<1>3. Len(got') = 0 /\ Len(sent') = 0 BY <1>1, EmptySeq
<1> QED BY <1>1, <1>2, <1>3
    DEF UnitInv, IdleFifoInv, StartInv, ReadInv, WriteInv, ReadIsOwn,
        WriteIsOwn, Active, InCommand, InData, Succeeded

LEMMA StutterUnits == ASSUME UnitInv, UNCHANGED vars PROVE UnitInv'
BY SameUnits DEF vars, hwVars, drvVars

LEMMA UnitInit == Init => UnitInv
<1>1. <<>> \in Seq(Txn) /\ Len(<<>>) = 0 BY EmptySeq
<1> QED BY <1>1
    DEF Init, UnitInv, IdleFifoInv, StartInv, ReadInv, WriteInv, ReadIsOwn,
        WriteIsOwn, Before, Issuing, Active, InCommand, InData, Succeeded,
        Recovering

LEMMA UnitStep == IInv /\ ErrInv /\ UnitInv /\ [Next]_vars => UnitInv'
BY ControllerUnits, ControlUnits, IssueUnits, SampleUnits, CommandPollUnits,
   ReadPollUnits, WritePollUnits, PassThruUnits, StutterUnits
DEF Next, Driver

TransferInv == ErrInv /\ UnitInv

THEOREM TransferCorrect == Spec => []TransferInv
<1>1. Init => TransferInv BY ErrInit, UnitInit DEF TransferInv
<1>2. IInv /\ IInv' /\ TransferInv /\ [Next]_vars => TransferInv'
  BY ErrStep, UnitStep DEF TransferInv
<1> QED BY <1>1, <1>2, IInvCorrect, PTL DEF Spec

(* No transaction reports success after the controller raised an error for *)
(* it, even one raised together with the status that ends a phase          *)
(* (MsdcDxe.c:543-560, 668-690).                                           *)
THEOREM ErrorWins == Spec => []ErrorsWin
<1>1. TransferInv => ErrorsWin
  BY DEF TransferInv, ErrInv, EndInv, ErrorsWin
<1> QED BY <1>1, TransferCorrect, PTL

(* A read that succeeds has filled the buffer with its own units, all of   *)
(* them and no leftover of an earlier one (MsdcDxe.c:647-715).             *)
THEOREM OwnRead == Spec => []ReadIsOwn
<1>1. TransferInv => ReadIsOwn BY DEF TransferInv, UnitInv
<1> QED BY <1>1, TransferCorrect, PTL

(* A write that succeeds has put its own units on the wire, all of them    *)
(* and no leftover of an earlier one (MsdcDxe.c:717-783).                  *)
THEOREM OwnWrite == Spec => []WriteIsOwn
<1>1. TransferInv => WriteIsOwn BY DEF TransferInv, UnitInv
<1> QED BY <1>1, TransferCorrect, PTL

-----------------------------------------------------------------------------
(* The contract.  Outside a transaction too, and while the engine recovers *)
(* from an error, no more than the transfer's own units have moved.        *)
MoveInv ==
  /\ Reads => OwnUnits(got) /\ Len(got) <= Length
  /\ Writes => OwnUnits(tx) /\ OwnUnits(sent) /\ Len(sent) + Len(tx) <= Length
  /\ ~IsDataTransfer(pkt) => Len(sent) = 0
  /\ tx # <<>> => Writes

MoveAll == IInv /\ ErrInv /\ UnitInv /\ MoveInv

LEMMA LengthNat == ASSUME IInv PROVE Length \in Nat
BY PacketFacts DEF Length, IInv, TypeOK, DrvTypeOK

LEMMA UnmovedMove ==
  ASSUME MoveInv, UNCHANGED <<txn, pkt, got, sent, tx>> PROVE MoveInv'
BY DEF MoveInv, Reads, Writes, OwnUnits, Length

LEMMA TransmitMove ==
  ASSUME MoveAll, HwTransmit
  PROVE  MoveInv' /\ Writes /\ Len(sent') = Len(sent) + 1
<1> USE DEF MoveAll
<1>1. /\ tx # <<>> /\ sent' = Append(sent, Head(tx)) /\ tx' = Tail(tx)
      /\ UNCHANGED drvVars
  BY DEF HwTransmit
<1>2. /\ Len(sent') = Len(sent) + 1 /\ Len(tx') = Len(tx) - 1
      /\ OwnUnits(tx) /\ OwnUnits(sent) => OwnUnits(tx)' /\ OwnUnits(sent)'
  BY <1>1, SeqLengths DEF OwnUnits, drvVars
<1>3. Writes BY <1>1 DEF MoveInv
<1> QED BY <1>1, <1>2, <1>3, SeqLengths, LengthNat
        DEF MoveInv, Reads, Writes, OwnUnits, Length, drvVars

LEMMA WriteMoves ==
  ASSUME MoveAll, MsdcPioWrite PROVE MoveInv'
<1> USE DEF MoveAll
<1>1. pc = "writeAck" /\ UNCHANGED <<txn, pkt, got, sent>>
  BY DEF MsdcPioWrite
<1>2. Writes /\ Active
  BY <1>1
  DEF UnitInv, WriteInv, Writes, IInv, Safe, SampleInv, Active, InData
<1>3. OwnUnits(tx) /\ OwnUnits(sent) /\ Len(sent) + Len(tx) + remain <= Length
  BY <1>2 DEF UnitInv, WriteInv
<1>4. CASE UNCHANGED tx BY <1>1, <1>4, UnmovedMove
<1>5. CASE FillFifo
  <2>1. txn \in Txn BY <1>1 DEF IInv, TypeOK, DrvTypeOK
  <2>2. /\ OwnUnits(tx)' /\ remain' \in Nat
        /\ Len(tx') + remain' <= Len(tx) + remain
    BY <1>1, <1>3, <1>5, <2>1, FillUnits
  <2>3. Len(tx') \in Nat
    BY WritePollType, LenProperties DEF IInv, TypeOK, HwTypeOK
  <2>4. Len(sent) + Len(tx') <= Length
    BY <1>3, <2>2, <2>3, SeqLengths, LengthNat, SMTT(20)
  <2> QED BY <1>1, <1>2, <1>3, <2>2, <2>4
          DEF MoveInv, Reads, Writes, OwnUnits, Length
<1> QED BY <1>4, <1>5 DEF MsdcPioWrite

LEMMA ReadKeepsMove ==
  ASSUME MoveAll, MsdcPioRead PROVE MoveInv'
<1> USE DEF MoveAll
<1>1. UNCHANGED <<txn, pkt, sent, tx>> BY DEF MsdcPioRead
<1>2. Reads /\ Len(got') + remain' = Length' /\ OwnUnits(got)'
  BY ReadMoves
<1>3. remain' \in Nat /\ Len(got') \in Nat
  BY ReadPollType, LenProperties DEF IInv, TypeOK, DrvTypeOK
<1> QED BY <1>1, <1>2, <1>3, LengthNat
        DEF MoveInv, Reads, Writes, OwnUnits, Length

LEMMA PassThruMove ==
  ASSUME MoveAll, NEW p \in Packets, MsdcPassThru(p) PROVE MoveInv'
<1>1. /\ pc = "idle" /\ pkt' = p
      /\ got' = <<>> /\ sent' = <<>> /\ UNCHANGED tx
  BY DEF MsdcPassThru, hwVars
<1>2. tx = <<>> BY <1>1 DEF MoveAll, UnitInv, IdleFifoInv
<1>3. Len(got') = 0 /\ Len(sent') = 0 /\ Len(tx') = 0
  BY <1>1, <1>2, EmptySeq
<1>4. Length' \in Nat BY <1>1, PacketFacts DEF Length
<1> QED BY <1>1, <1>2, <1>3, <1>4 DEF MoveInv, OwnUnits

LEMMA ControlMove ==
  ASSUME IInv, MoveInv,
         \/ MsdcWaitReady \/ CheckFifo \/ MsdcReset \/ MsdcClearFifo
         \/ MsdcClearInterrupts \/ WriteCommand \/ ReadInterrupts
         \/ MsdcPollInterrupts
  PROVE  MoveInv'
<1>1. UNCHANGED <<txn, pkt, got, sent>> /\ (tx' = tx \/ tx' = <<>>)
  BY DEF MsdcWaitReady, CheckFifo, MsdcReset, MsdcClearFifo, SetClear,
     MsdcClearInterrupts, WriteCommand, ReadInterrupts, Sample,
     MsdcPollInterrupts, hwVars
<1>2. CASE tx' = tx BY <1>1, <1>2, UnmovedMove
<1>3. CASE tx' = <<>>
  <2>1. Len(tx') = 0 BY <1>3, EmptySeq
  <2>2. Writes => Len(sent) <= Length
    BY SeqLengths, LengthNat DEF MoveInv
  <2> QED BY <1>1, <1>3, <2>1, <2>2, SeqLengths
          DEF MoveInv, Reads, Writes, OwnUnits, Length
<1> QED BY <1>1, <1>2, <1>3

(* The refinement mapping, and what it is of a state of the engine.        *)
Moved  == IF IsRead(pkt) THEN Own(got) ELSE Own(sent)
Result == IF pc = "idle" /\ status = "SUCCESS" THEN "success" ELSE "error"

LEMMA OwnCount ==
  ASSUME NEW s \in Seq(Txn), NEW t, \A i \in 1 .. Len(s) : s[i] = t
  PROVE  Cardinality({i \in DOMAIN s : s[i] = t}) = Len(s)
<1>1. Len(s) \in Nat /\ DOMAIN s = 1 .. Len(s) BY LenProperties
<1>2. {i \in DOMAIN s : s[i] = t} = 1 .. Len(s) BY <1>1
<1>3. Cardinality(1 .. Len(s)) = Len(s) BY <1>1, FS_Interval, SMTT(20)
<1> QED BY <1>2, <1>3

LEMMA ReadIsData == IsRead(pkt) => Reads
BY DEF Reads, IsRead, IsDataTransfer, TransferLength

LEMMA MovedIs ==
  ASSUME IInv, MoveInv
  PROVE  /\ Moved = IF IsRead(pkt) THEN Len(got) ELSE Len(sent)
         /\ Moved \in Nat /\ Moved <= Length
<1>1. CASE IsRead(pkt)
  <2>1. OwnUnits(got) /\ Len(got) <= Length
    BY <1>1, ReadIsData DEF MoveInv
  <2>2. Own(got) = Len(got)
    BY <2>1, OwnCount, SeqLengths DEF Own, OwnUnits
  <2> QED BY <1>1, <2>1, <2>2, SeqLengths DEF Moved
<1>2. CASE ~IsRead(pkt)
  <2>1. OwnUnits(sent) /\ Len(sent) <= Length
    <3>1. CASE IsDataTransfer(pkt)
      BY <1>2, <3>1, SeqLengths, LengthNat DEF MoveInv, Writes
    <3>2. CASE ~IsDataTransfer(pkt)
      <4>1. Len(sent) = 0 BY <3>2 DEF MoveInv
      <4> QED BY <4>1, LengthNat DEF OwnUnits
    <3> QED BY <3>1, <3>2
  <2>2. Own(sent) = Len(sent)
    BY <2>1, OwnCount, SeqLengths DEF Own, OwnUnits
  <2> QED BY <1>2, <2>1, <2>2, SeqLengths DEF Moved
<1> QED BY <1>1, <1>2

MovedFact ==
  /\ Moved = IF IsRead(pkt) THEN Len(got) ELSE Len(sent)
  /\ Moved \in Nat /\ Moved <= Length /\ Length \in Nat

LEMMA MovedAlways == IInv /\ MoveInv => MovedFact
BY MovedIs, LengthNat DEF MovedFact

LEMMA MovedNext == (IInv /\ MoveInv => MovedFact)'
BY MovedAlways, PTL

LEMMA MovedAfter ==
  ASSUME IInv', MoveInv'
  PROVE  /\ Moved' = IF IsRead(pkt') THEN Len(got') ELSE Len(sent')
         /\ Moved' \in Nat /\ Moved' <= Length' /\ Length' \in Nat
BY MovedNext DEF MovedFact

(* Steps of the contract, in the terms of the mapping.                     *)
LEMMA StutterContract ==
  ASSUME UNCHANGED <<txn, pkt, got, sent>>,
         \/ UNCHANGED <<pc, status>>
         \/ pc # "idle" /\ pc' # "idle"
  PROVE  UNCHANGED Contract!absVars
BY DEF Contract!absVars, Own

LEMMA MoveContract ==
  ASSUME MoveAll, IInv', MoveInv', Moved < Moved', UNCHANGED <<txn, pkt>>,
         pc # "idle", pc' # "idle"
  PROVE  Contract!Move
<1>1. Moved' \in Moved + 1 .. Length
  BY MovedIs, MovedAfter, LengthNat DEF MoveAll, Length
<1> QED BY <1>1 DEF Contract!Move, Moved, Length

LEMMA CompleteContract ==
  ASSUME MoveAll, IInv', MoveInv', Moved <= Moved', UNCHANGED <<txn, pkt>>,
         pc # "idle", pc' = "idle",
         status' = "SUCCESS" => Moved' = Length
  PROVE  Contract!Complete
<1>1. Moved' \in Moved .. Length
  BY MovedIs, MovedAfter, LengthNat DEF MoveAll, Length
<1>2. Result' \in {"error"} \cup
                 (IF Moved' = Length THEN {"success"} ELSE {})
  BY DEF Result
<1> QED BY <1>1, <1>2 DEF Contract!Complete, Moved, Length, Result

LEMMA ControllerContract ==
  ASSUME MoveAll, IInv', Controller
  PROVE  MoveInv' /\ (Contract!Next \/ UNCHANGED Contract!absVars)
<1>1. UNCHANGED <<pc, txn, pkt, got, status>>
  BY ControllerEnds DEF drvVars
<1>2. CASE HwTransmit
  <2>1. MoveInv' /\ Writes /\ Len(sent') = Len(sent) + 1
    BY <1>2, TransmitMove
  <2>2. ~IsRead(pkt) BY <2>1 DEF Writes
  <2>3. Moved < Moved'
    BY <1>1, <2>1, <2>2, MovedIs, MovedAfter, SeqLengths DEF MoveAll
  <2>4. pc # "idle"
    BY <1>2 DEF HwTransmit, MoveAll, UnitInv, IdleFifoInv
  <2> QED BY <1>1, <2>1, <2>3, <2>4, MoveContract DEF Contract!Next
<1>3. CASE Controller /\ ~HwTransmit
  <2>1. UNCHANGED <<sent, tx>>
    BY <1>3 DEF Controller, HwCommandDone, HwReceive, HwDataDone, HwStopDone,
       HwDat0Released, HwResetDone, HwClearDone
  <2> QED BY <1>1, <2>1, UnmovedMove, StutterContract DEF MoveAll
<1> QED BY <1>2, <1>3

LEMMA ControlContract ==
  ASSUME MoveAll, IInv',
         \/ MsdcWaitReady \/ CheckFifo \/ MsdcReset \/ MsdcClearFifo
         \/ MsdcClearInterrupts \/ WriteCommand \/ ReadInterrupts
         \/ MsdcPollInterrupts
  PROVE  MoveInv' /\ (Contract!Next \/ UNCHANGED Contract!absVars)
<1>1. UNCHANGED <<txn, pkt, got, sent>> /\ pc # "idle"
  BY DEF MsdcWaitReady, CheckFifo, MsdcReset, MsdcClearFifo,
     MsdcClearInterrupts, WriteCommand, ReadInterrupts, Sample,
     MsdcPollInterrupts
<1>2. MoveInv' BY ControlMove DEF MoveAll
<1>3. CASE pc' # "idle" BY <1>1, <1>2, <1>3, StutterContract
<1>4. CASE pc' = "idle"
  <2>1. Moved' = Moved /\ Moved \in Nat
    BY <1>1, MovedIs DEF MoveAll, Moved, Own
  <2>2. status' = "SUCCESS" => ~IsDataTransfer(pkt)
    <3>1. CASE MsdcPollInterrupts
      <4>1. /\ ~Recover("TIMEOUT") /\ ~PollAgain("cmdPoll")
            /\ \A bits : ~Recover(MsdcIntTrackError(bits))
        BY <1>4 DEF Recover, Goto, PollAgain
      <4>2. pc' = AfterCommand
        BY <3>1, <4>1 DEF MsdcPollInterrupts, Goto
      <4> QED BY <1>4, <4>2, AfterCommandFacts DEF AfterCommand
    <3>2. CASE ~MsdcPollInterrupts
      BY <1>4, <3>2 DEF MsdcWaitReady, CheckFifo, MsdcReset, MsdcClearFifo,
         MsdcClearInterrupts, WriteCommand, ReadInterrupts, Sample, Goto,
         Return, PollAgain, Recovering
    <3> QED BY <3>1, <3>2
  <2>3. status' = "SUCCESS" => Moved' = Length
    BY <2>1, <2>2, MovedIs DEF MoveAll, IsDataTransfer, Length
  <2> QED BY <1>1, <1>2, <1>4, <2>1, <2>3, CompleteContract
          DEF Contract!Next
<1> QED BY <1>3, <1>4

LEMMA ReadContract ==
  ASSUME MoveAll, IInv', UnitInv', MsdcPioRead
  PROVE  MoveInv' /\ (Contract!Next \/ UNCHANGED Contract!absVars)
<1>1. MoveInv' BY ReadKeepsMove
<1>2. pc # "idle" /\ UNCHANGED <<txn, pkt, sent>> BY DEF MsdcPioRead
<1>3. Reads /\ Len(got) <= Len(got')
  BY ReadMoves DEF MoveAll
<1>4. Moved = Len(got) /\ Moved' = Len(got')
  BY <1>1, <1>2, <1>3, MovedIs, MovedAfter DEF MoveAll, Reads
<1>5. CASE pc' = "idle"
  <2>1. status' = "SUCCESS" => Moved' = Length
    <3> HAVE status' = "SUCCESS"
    <3>1. txn # 0 BY <1>2 DEF MoveAll, IInv, TypeOK, DrvTypeOK
    <3>2. got' = [i \in 1 .. Length |-> txn]
      BY <1>2, <1>3, <1>5, <3>1
      DEF UnitInv, ReadIsOwn, Succeeded, Reads, Length
    <3>3. Len(got') = Length
      BY <3>2, LengthNat, LenProperties DEF MoveAll
    <3> QED BY <1>4, <3>3
  <2> QED BY <1>1, <1>2, <1>3, <1>4, <1>5, <2>1, CompleteContract
          DEF Contract!Next
<1>6. CASE pc' # "idle" /\ Len(got) < Len(got')
  BY <1>1, <1>2, <1>4, <1>6, MoveContract DEF Contract!Next
<1>7. CASE pc' # "idle" /\ Len(got) = Len(got')
  <2>1. Moved' = Moved BY <1>4, <1>7
  <2> QED BY <1>1, <1>2, <1>7, <2>1 DEF Contract!absVars, Moved
<1>8. Len(got) \in Nat /\ Len(got') \in Nat
  BY <1>4, MovedIs, MovedAfter, <1>1 DEF MoveAll
<1> QED BY <1>3, <1>5, <1>6, <1>7, <1>8

LEMMA WriteContract ==
  ASSUME MoveAll, IInv', UnitInv', MsdcPioWrite
  PROVE  MoveInv' /\ (Contract!Next \/ UNCHANGED Contract!absVars)
<1>1. MoveInv' BY WriteMoves
<1>2. pc = "writeAck" /\ UNCHANGED <<txn, pkt, got, sent>>
  BY DEF MsdcPioWrite
<1>3. Writes
  BY <1>2 DEF MoveAll, UnitInv, WriteInv, Writes, IInv, Safe, SampleInv, InData
<1>4. CASE pc' # "idle" BY <1>1, <1>2, <1>4, StutterContract
<1>5. CASE pc' = "idle"
  <2>1. Moved' = Moved /\ Moved \in Nat /\ Moved = Len(sent)
    BY <1>2, <1>3, MovedIs DEF MoveAll, Moved, Own, Writes
  <2>2. status' = "SUCCESS" => Moved' = Length
    <3> HAVE status' = "SUCCESS"
    <3>1. txn # 0 BY <1>2 DEF MoveAll, IInv, TypeOK, DrvTypeOK
    <3>2. sent = [i \in 1 .. Length |-> txn]
      BY <1>2, <1>3, <1>5, <3>1
      DEF UnitInv, WriteIsOwn, Succeeded, Writes, Length
    <3>3. Len(sent) = Length
      BY <3>2, LengthNat, LenProperties DEF MoveAll
    <3> QED BY <2>1, <3>3
  <2> QED BY <1>1, <1>2, <1>5, <2>1, <2>2, CompleteContract
          DEF Contract!Next
<1> QED BY <1>4, <1>5

LEMMA PassThruContract ==
  ASSUME MoveAll, IInv', NEW p \in Packets, MsdcPassThru(p)
  PROVE  MoveInv' /\ (Contract!Next \/ UNCHANGED Contract!absVars)
<1>1. MoveInv' BY PassThruMove
<1>2. /\ pc = "idle" /\ got' = <<>> /\ sent' = <<>>
      /\ pc' \in {"waitReady", "idle"}
      /\ pc' = "idle" => status' # "SUCCESS"
  BY DEF MsdcPassThru, Goto
<1>3. Moved' = 0 BY <1>1, <1>2, MovedAfter, EmptySeq
<1>4. Length' \in Nat BY <1>1, MovedAfter
<1>5. Result' = "error" BY <1>2 DEF Result
<1>6. CASE pc' = "waitReady"
  BY <1>1, <1>2, <1>3, <1>4, <1>5, <1>6
  DEF Contract!Submit, Contract!Next, Moved, Length, Result
<1>7. CASE pc' = "idle"
  BY <1>1, <1>2, <1>3, <1>4, <1>5, <1>7
  DEF Contract!Refuse, Contract!Next, Moved, Length, Result
<1> QED BY <1>1, <1>2, <1>6, <1>7

LEMMA ContractStep ==
  MoveAll /\ IInv' /\ UnitInv' /\ [Next]_vars
    => MoveInv' /\ [Contract!Next]_(Contract!absVars)
<1> SUFFICES ASSUME MoveAll, IInv', UnitInv', [Next]_vars
             PROVE  /\ MoveInv'
                    /\ Contract!Next \/ UNCHANGED Contract!absVars
  OBVIOUS
<1>1. CASE UNCHANGED vars
  BY <1>1, UnmovedMove, StutterContract DEF vars, hwVars, drvVars, MoveAll
<1> QED
  BY <1>1, ControllerContract, ControlContract, ReadContract, WriteContract,
     PassThruContract
  DEF Next, Driver

LEMMA ContractInit == Init => MoveInv /\ Contract!Init
<1> SUFFICES ASSUME Init PROVE MoveInv /\ Contract!Init
  OBVIOUS
<1>1. /\ pkt = NoPacket /\ got = <<>> /\ sent = <<>> /\ tx = <<>>
      /\ pc = "idle" /\ status = "ABORTED"
  BY DEF Init
<1>2. /\ TransferLength(NoPacket) = 0 /\ ~IsRead(NoPacket)
      /\ ~IsDataTransfer(NoPacket)
  BY DEF NoPacket, TransferLength, IsRead, IsDataTransfer
<1>3. Len(<<>>) = 0 /\ <<>> \in Seq(Txn) BY EmptySeq
<1>4. MoveInv BY <1>1, <1>2, <1>3 DEF MoveInv, Reads, Writes
<1>5. Own(sent) = 0
  <2>1. \A i \in 1 .. Len(sent) : sent[i] = txn BY <1>1, <1>3
  <2> QED BY <1>1, <1>3, <2>1, OwnCount DEF Own
<1> QED BY <1>1, <1>2, <1>4, <1>5 DEF Contract!Init

(* The command engine implements MsdcTransaction: a request at a time, its *)
(* units each moved at most once, success only when all of them moved      *)
(* (MsdcDxe.c:111-151).                                                    *)
THEOREM ContractTheorem == Spec => ContractSpec
<1>1. Init => MoveInv /\ Contract!Init BY ContractInit
<1>2. MoveAll /\ IInv' /\ UnitInv' /\ [Next]_vars
        => MoveInv' /\ [Contract!Next]_(Contract!absVars)
  BY ContractStep
<1>3. IInv /\ TransferInv /\ MoveInv => MoveAll
  BY DEF TransferInv, MoveAll
<1>4. TransferInv => UnitInv BY DEF TransferInv
<1> QED BY <1>1, <1>2, <1>3, <1>4, IInvCorrect, TransferCorrect, PTL
        DEF Spec, ContractSpec, Contract!Spec
-----------------------------------------------------------------------------
(* Bounded work.  StepsLeft is the number of driver steps a call can still  *)
(* make when every loop runs to its last poll, the command fails there and  *)
(* the recovery times out twice.  It counts down whatever the controller    *)
(* raises, fills, drains or leaves hanging.                                 *)

RecoverSteps  == 2 * ControlPolls + 1
DataSteps     == 2 * DataPolls + RecoverSteps
CommandSteps  == 2 * CommandPolls + DataSteps
PrepareSteps  == 2 * ControlPolls + CommandSteps + 3
CallSteps     == BusyPolls + PrepareSteps

(* What is left once the FIFO is cleared: the command, or nothing more.     *)
AfterClear == IF Recovering THEN 1 ELSE CommandSteps + 2

StepsLeft ==
  CASE pc = "waitReady"                 -> BusyPolls - poll + PrepareSteps
    [] pc = "fifoCheck"                 -> PrepareSteps
    [] pc = "reset"     -> ControlPolls - poll + ControlPolls + AfterClear
    [] pc = "clearFifo"                 -> ControlPolls - poll + AfterClear
    [] pc = "clearInt"                  -> AfterClear
    [] pc = "issue"                     -> CommandSteps + 1
    [] pc = "cmdPoll"      -> 2 * (CommandPolls - poll) + DataSteps
    [] pc = "cmdAck"       -> 2 * (CommandPolls - poll) + DataSteps - 1
    [] pc \in {"readPoll", "writePoll"} ->
         2 * (DataPolls - poll) + RecoverSteps
    [] pc \in {"readAck", "writeAck"}   ->
         2 * (DataPolls - poll) + RecoverSteps - 1
    [] OTHER                            -> 0

(* No loop is entered again after its last poll. *)
PollInv ==
  /\ pc = "waitReady" => poll < BusyPolls
  /\ pc \in {"reset", "clearFifo"} => poll < ControlPolls
  /\ InCommand => poll < CommandPolls
  /\ InData => poll < DataPolls

(* The engine with a count of the driver's steps in the current call.       *)
VARIABLE steps
countVars == <<vars, steps>>

CountInit == Init /\ steps = 0
CountNext ==
  \/ Driver /\ steps' = steps + 1
  \/ Controller /\ UNCHANGED steps
  \/ (\E p \in Packets : MsdcPassThru(p)) /\ steps' = 0
CountSpec == CountInit /\ [][CountNext]_countVars

StepsBounded == steps <= CallSteps

LEMMA BudgetFacts ==
  /\ BusyPolls \in Nat \ {0} /\ ControlPolls \in Nat \ {0}
  /\ CommandPolls \in Nat \ {0} /\ DataPolls \in Nat \ {0}
BY HostAssumption

LEMMA AfterClearFact ==
  AfterClear \in Nat /\ 1 <= AfterClear /\ AfterClear <= CommandSteps + 2
BY BudgetFacts DEF AfterClear, CommandSteps, DataSteps, RecoverSteps

(* What the count is, stage by stage, when a loop is within its budget.     *)
LEMMA StepsRange ==
  ASSUME TypeOK, PollInv
  PROVE  /\ StepsLeft \in Nat /\ StepsLeft <= CallSteps
         /\ StepsLeft = 0 <=> pc = "idle"
<1> DEFINE InRange == /\ StepsLeft \in Nat /\ StepsLeft <= CallSteps
                      /\ StepsLeft # 0
<1>1. poll \in Nat /\ pc \in PcValues BY DEF TypeOK, DrvTypeOK
<1>2. /\ RecoverSteps \in Nat /\ 1 <= RecoverSteps
      /\ DataSteps \in Nat /\ RecoverSteps <= DataSteps
      /\ DataSteps = 2 * DataPolls + RecoverSteps
      /\ CommandSteps \in Nat
      /\ CommandSteps = 2 * CommandPolls + DataSteps
      /\ PrepareSteps \in Nat
      /\ PrepareSteps = 2 * ControlPolls + CommandSteps + 3
      /\ CallSteps \in Nat
      /\ CallSteps = BusyPolls + PrepareSteps
  BY BudgetFacts
     DEF RecoverSteps, DataSteps, CommandSteps, PrepareSteps, CallSteps
<1> USE <1>1, <1>2, BudgetFacts
<1>3. CASE pc = "waitReady"
  <2>1. poll < BusyPolls BY <1>3 DEF PollInv
  <2>2. StepsLeft = BusyPolls - poll + PrepareSteps BY <1>3 DEF StepsLeft
  <2>3. InRange BY <2>1, <2>2
  <2> QED BY <1>3, <2>3
<1>4. CASE pc \in {"reset", "clearFifo"}
  <2>1. poll < ControlPolls BY <1>4 DEF PollInv
  <2>2. \/ StepsLeft = ControlPolls - poll + ControlPolls + AfterClear
        \/ StepsLeft = ControlPolls - poll + AfterClear
    BY <1>4 DEF StepsLeft
  <2>3. InRange BY <2>1, <2>2, AfterClearFact
  <2> QED BY <1>4, <2>3
<1>5. CASE pc \in {"fifoCheck", "clearInt", "issue"}
  <2>1. StepsLeft \in {PrepareSteps, AfterClear, CommandSteps + 1}
    BY <1>5 DEF StepsLeft
  <2>2. InRange BY <2>1, AfterClearFact
  <2> QED BY <1>5, <2>2
<1>6. CASE pc \in {"cmdPoll", "cmdAck"}
  <2>1. poll < CommandPolls BY <1>6 DEF PollInv, InCommand
  <2>2. \/ StepsLeft = 2 * (CommandPolls - poll) + DataSteps
        \/ StepsLeft = 2 * (CommandPolls - poll) + DataSteps - 1
    BY <1>6 DEF StepsLeft
  <2>3. InRange BY <2>1, <2>2
  <2> QED BY <1>6, <2>3
<1>7. CASE pc \in {"readPoll", "writePoll", "readAck", "writeAck"}
  <2>1. poll < DataPolls BY <1>7 DEF PollInv, InData
  <2>2. \/ StepsLeft = 2 * (DataPolls - poll) + RecoverSteps
        \/ StepsLeft = 2 * (DataPolls - poll) + RecoverSteps - 1
    BY <1>7 DEF StepsLeft
  <2>3. InRange BY <2>1, <2>2
  <2> QED BY <1>7, <2>3
<1>8. CASE pc = "idle" BY <1>8 DEF StepsLeft
<1> QED BY <1>1, <1>3, <1>4, <1>5, <1>6, <1>7, <1>8 DEF PcValues

LEMMA StepsRangeNext ==
  (TypeOK /\ PollInv => StepsLeft \in Nat /\ StepsLeft <= CallSteps)'
<1>1. TypeOK /\ PollInv => StepsLeft \in Nat /\ StepsLeft <= CallSteps
  BY StepsRange
<1> QED BY <1>1, PTL

(* One step of the driver: the loop stays within its budget, less is left.  *)
Progress == PollInv' /\ StepsLeft' < StepsLeft

LEMMA IdleProgress ==
  ASSUME TypeOK, PollInv, pc # "idle", pc' = "idle" PROVE Progress
<1>1. StepsLeft \in Nat /\ StepsLeft # 0 BY StepsRange
<1>2. StepsLeft' = 0 BY DEF StepsLeft
<1>3. PollInv' BY DEF PollInv, InCommand, InData
<1> QED BY <1>1, <1>2, <1>3 DEF Progress

(* The recovery that follows a command costs RecoverSteps at most.          *)
LEMMA RecoverProgress ==
  ASSUME TypeOK, PollInv, NEW s, s # "SUCCESS", Recover(s),
         pc \in {"cmdAck", "readAck", "writeAck"}
  PROVE  Progress
<1>1. poll \in Nat BY DEF TypeOK, DrvTypeOK
<1>2. /\ pc' = "reset" /\ poll' = 0 /\ status' # "SUCCESS"
  BY DEF Recover, Goto
<1>3. StepsLeft' = RecoverSteps
  BY <1>2, BudgetFacts DEF StepsLeft, AfterClear, Recovering, RecoverSteps
<1>4. PollInv' BY <1>2, BudgetFacts DEF PollInv, InCommand, InData
<1>5. RecoverSteps < StepsLeft
  BY <1>1, BudgetFacts DEF StepsLeft, PollInv, InCommand, InData,
     DataSteps, RecoverSteps
<1> QED BY <1>3, <1>4, <1>5 DEF Progress

LEMMA WaitProgress ==
  ASSUME TypeOK, PollInv, MsdcWaitReady PROVE Progress
<1> DEFINE isBusy == CmdBusy \/ (WaitDataBusy(pkt) /\ SdcBusy)
<1>1. poll \in Nat /\ pc = "waitReady" BY DEF TypeOK, DrvTypeOK, MsdcWaitReady
<1>2. PrepareSteps \in Nat
  BY BudgetFacts DEF PrepareSteps, CommandSteps, DataSteps, RecoverSteps
<1>3. CASE ~isBusy /\ Goto("fifoCheck")
  BY <1>1, <1>2, <1>3, BudgetFacts
     DEF Progress, StepsLeft, PollInv, InCommand, InData, Goto
<1>4. CASE ~LastPoll(BusyPolls) /\ PollAgain("waitReady")
  BY <1>1, <1>2, <1>4, BudgetFacts
     DEF Progress, StepsLeft, PollInv, InCommand, InData, LastPoll, PollAgain
<1>5. CASE Return("TIMEOUT")
  BY <1>1, <1>5, IdleProgress DEF Return, Goto
<1> QED BY <1>3, <1>4, <1>5 DEF MsdcWaitReady

LEMMA CheckFifoProgress ==
  ASSUME TypeOK, PollInv, CheckFifo PROVE Progress
<1>1. pc = "fifoCheck" /\ status' = status /\ poll' = 0
      /\ pc' \in {"reset", "clearInt"}
  BY DEF CheckFifo, Goto
<1>2. AfterClear' = AfterClear BY <1>1 DEF AfterClear, Recovering
<1>3. PollInv' BY <1>1, BudgetFacts DEF PollInv, InCommand, InData
<1>4. CommandSteps \in Nat
  BY BudgetFacts DEF CommandSteps, DataSteps, RecoverSteps
<1>5. StepsLeft' < StepsLeft
  BY <1>1, <1>2, <1>4, AfterClearFact, BudgetFacts DEF StepsLeft, PrepareSteps
<1> QED BY <1>3, <1>5 DEF Progress

LEMMA ResetProgress ==
  ASSUME TypeOK, PollInv, MsdcReset PROVE Progress
<1>1. poll \in Nat /\ pc = "reset" BY DEF TypeOK, DrvTypeOK, MsdcReset
<1>2. poll < ControlPolls BY <1>1 DEF PollInv
<1>3. CASE Goto("clearFifo") /\ UNCHANGED status
  <2>1. AfterClear' = AfterClear BY <1>3 DEF AfterClear, Recovering
  <2> QED BY <1>1, <1>2, <1>3, <2>1, AfterClearFact, BudgetFacts
          DEF Progress, StepsLeft, PollInv, InCommand, InData, Goto
<1>4. CASE ~LastPoll(ControlPolls) /\ PollAgain("reset")
  <2>1. AfterClear' = AfterClear BY <1>4 DEF AfterClear, Recovering, PollAgain
  <2> QED BY <1>1, <1>2, <1>4, <2>1, AfterClearFact, BudgetFacts
          DEF Progress, StepsLeft, PollInv, InCommand, InData, PollAgain,
              LastPoll
<1>5. CASE Return("TIMEOUT")
  BY <1>1, <1>5, IdleProgress DEF Return, Goto
<1> QED BY <1>3, <1>4, <1>5 DEF MsdcReset

LEMMA ClearFifoProgress ==
  ASSUME TypeOK, PollInv, MsdcClearFifo PROVE Progress
<1>1. poll \in Nat /\ pc = "clearFifo" BY DEF TypeOK, DrvTypeOK, MsdcClearFifo
<1>2. poll < ControlPolls BY <1>1 DEF PollInv
<1>3. CASE Goto("clearInt") /\ UNCHANGED status
  <2>1. AfterClear' = AfterClear BY <1>3 DEF AfterClear, Recovering
  <2> QED BY <1>1, <1>2, <1>3, <2>1, AfterClearFact, BudgetFacts
          DEF Progress, StepsLeft, PollInv, InCommand, InData, Goto
<1>4. CASE ~LastPoll(ControlPolls) /\ PollAgain("clearFifo")
  <2>1. AfterClear' = AfterClear BY <1>4 DEF AfterClear, Recovering, PollAgain
  <2> QED BY <1>1, <1>2, <1>4, <2>1, AfterClearFact, BudgetFacts
          DEF Progress, StepsLeft, PollInv, InCommand, InData, PollAgain,
              LastPoll
<1>5. CASE Return("TIMEOUT")
  BY <1>1, <1>5, IdleProgress DEF Return, Goto
<1> QED BY <1>3, <1>4, <1>5 DEF MsdcClearFifo

LEMMA ClearIntProgress ==
  ASSUME TypeOK, PollInv, MsdcClearInterrupts PROVE Progress
<1>1. pc = "clearInt" BY DEF MsdcClearInterrupts
<1>2. CASE Recovering
  BY <1>1, <1>2, IdleProgress DEF MsdcClearInterrupts, Goto
<1>3. CASE ~Recovering
  <2>1. pc' = "issue" BY <1>3 DEF MsdcClearInterrupts, Goto
  <2>2. CommandSteps \in Nat
    BY BudgetFacts DEF CommandSteps, DataSteps, RecoverSteps
  <2> QED BY <1>1, <1>3, <2>1, <2>2
          DEF Progress, StepsLeft, AfterClear, PollInv, InCommand, InData
<1> QED BY <1>2, <1>3

LEMMA IssueProgress ==
  ASSUME TypeOK, PollInv, WriteCommand PROVE Progress
<1>1. pc = "issue" /\ pc' = "cmdPoll" /\ poll' = 0 BY DEF WriteCommand, Goto
<1>2. DataSteps \in Nat BY BudgetFacts DEF DataSteps, RecoverSteps
<1> QED BY <1>1, <1>2, BudgetFacts
        DEF Progress, StepsLeft, CommandSteps, PollInv, InCommand, InData

LEMMA SampleProgress ==
  ASSUME TypeOK, PollInv, ReadInterrupts PROVE Progress
<1>1. poll \in Nat BY DEF TypeOK, DrvTypeOK
<1>2. DataSteps \in Nat /\ RecoverSteps \in Nat
  BY BudgetFacts DEF DataSteps, RecoverSteps
<1>3. poll' = poll /\ \/ pc = "cmdPoll" /\ pc' = "cmdAck"
                      \/ pc = "readPoll" /\ pc' = "readAck"
                      \/ pc = "writePoll" /\ pc' = "writeAck"
  BY DEF ReadInterrupts, Sample
<1> QED BY <1>1, <1>2, <1>3, BudgetFacts
        DEF Progress, StepsLeft, PollInv, InCommand, InData

LEMMA CommandPollProgress ==
  ASSUME TypeOK, PollInv, MsdcPollInterrupts PROVE Progress
<1>1. poll \in Nat /\ pc = "cmdAck"
  BY DEF TypeOK, DrvTypeOK, MsdcPollInterrupts
<1>2. DataSteps \in Nat BY BudgetFacts DEF DataSteps, RecoverSteps
<1>3. ASSUME NEW s, s # "SUCCESS", Recover(s) PROVE Progress
  BY <1>1, <1>3, RecoverProgress
<1>4. CASE Goto(AfterCommand)
  <2>1. CASE AfterCommand = "idle"
    BY <1>1, <1>4, <2>1, IdleProgress DEF Goto
  <2>2. CASE AfterCommand \in {"readPoll", "writePoll"}
    <3>1. StepsLeft' = DataSteps
      BY <1>4, <2>2, BudgetFacts
         DEF Goto, StepsLeft, DataSteps, RecoverSteps
    <3>2. DataSteps < StepsLeft
      BY <1>1, <1>2, BudgetFacts DEF StepsLeft, PollInv, InCommand
    <3>3. PollInv'
      BY <1>4, <2>2, BudgetFacts DEF Goto, PollInv, InCommand, InData
    <3> QED BY <3>1, <3>2, <3>3 DEF Progress
  <2> QED BY <2>1, <2>2, AfterCommandFacts
<1>5. CASE ~LastPoll(CommandPolls) /\ PollAgain("cmdPoll")
  BY <1>1, <1>2, <1>5, BudgetFacts
     DEF Progress, StepsLeft, PollInv, InCommand, InData, LastPoll, PollAgain
<1> QED BY <1>3, <1>4, <1>5, ErrorStatus DEF MsdcPollInterrupts

LEMMA ReadPollProgress ==
  ASSUME TypeOK, PollInv, MsdcPioRead PROVE Progress
<1>1. poll \in Nat /\ pc = "readAck" BY DEF TypeOK, DrvTypeOK, MsdcPioRead
<1>2. RecoverSteps \in Nat BY BudgetFacts DEF RecoverSteps
<1>3. ASSUME NEW s, s # "SUCCESS", Recover(s) PROVE Progress
  BY <1>1, <1>3, RecoverProgress
<1>4. CASE Return("SUCCESS") BY <1>1, <1>4, IdleProgress DEF Return, Goto
<1>5. CASE ~LastPoll(DataPolls) /\ PollAgain("readPoll")
  BY <1>1, <1>2, <1>5, BudgetFacts
     DEF Progress, StepsLeft, PollInv, InCommand, InData, LastPoll, PollAgain
<1> QED BY <1>3, <1>4, <1>5, ErrorStatus DEF MsdcPioRead

LEMMA WritePollProgress ==
  ASSUME TypeOK, PollInv, MsdcPioWrite PROVE Progress
<1>1. poll \in Nat /\ pc = "writeAck" BY DEF TypeOK, DrvTypeOK, MsdcPioWrite
<1>2. RecoverSteps \in Nat BY BudgetFacts DEF RecoverSteps
<1>3. ASSUME NEW s, s # "SUCCESS", Recover(s) PROVE Progress
  BY <1>1, <1>3, RecoverProgress
<1>4. CASE Return("SUCCESS") BY <1>1, <1>4, IdleProgress DEF Return, Goto
<1>5. CASE ~LastPoll(DataPolls) /\ PollAgain("writePoll")
  BY <1>1, <1>2, <1>5, BudgetFacts
     DEF Progress, StepsLeft, PollInv, InCommand, InData, LastPoll, PollAgain
<1> QED BY <1>3, <1>4, <1>5, ErrorStatus DEF MsdcPioWrite

LEMMA DriverProgress ==
  ASSUME TypeOK, PollInv, Driver PROVE Progress
BY WaitProgress, CheckFifoProgress, ResetProgress, ClearFifoProgress,
   ClearIntProgress, IssueProgress, SampleProgress, CommandPollProgress,
   ReadPollProgress, WritePollProgress DEF Driver

(* The count looks at nothing a controller step can touch. *)
LEMMA StepsKept ==
  ASSUME PollInv, UNCHANGED <<pc, poll, status>>
  PROVE  PollInv' /\ StepsLeft' = StepsLeft
BY DEF PollInv, StepsLeft, InCommand, InData, AfterClear, Recovering

LEMMA ControllerKeeps ==
  ASSUME Controller PROVE UNCHANGED <<pc, poll, status>>
BY DEF Controller, HwCommandDone, HwReceive, HwTransmit, HwDataDone,
   HwStopDone, HwDat0Released, HwResetDone, HwClearDone, drvVars

LEMMA PassThruPolls ==
  ASSUME NEW p \in Packets, MsdcPassThru(p) PROVE PollInv'
BY BudgetFacts DEF MsdcPassThru, Goto, PollInv, InCommand, InData

LEMMA PollStep == TypeOK /\ PollInv /\ [Next]_vars => PollInv'
<1> SUFFICES ASSUME TypeOK, PollInv, [Next]_vars PROVE PollInv'
  OBVIOUS
<1>1. CASE Driver BY <1>1, DriverProgress DEF Progress
<1>2. CASE Controller BY <1>2, ControllerKeeps, StepsKept
<1>3. ASSUME NEW p \in Packets, MsdcPassThru(p) PROVE PollInv'
  BY <1>3, PassThruPolls
<1>4. CASE UNCHANGED vars BY <1>4, StepsKept DEF vars, drvVars
<1> QED BY <1>1, <1>2, <1>3, <1>4 DEF Next

(* Whatever the controller does, every step of the driver brings the call   *)
(* nearer to its return, and no step of the controller takes that back: the *)
(* safety half of Returns (MsdcDxe.c:192-420).                              *)
Converges == /\ Driver => StepsLeft' \in Nat /\ StepsLeft' < StepsLeft
             /\ Controller => StepsLeft' = StepsLeft

THEOREM DriverConverges == Spec => [][Converges]_vars
<1>1. Init => PollInv BY DEF Init, PollInv, InCommand, InData
<1>2. TypeOK /\ PollInv /\ TypeOK' /\ [Next]_vars => [Converges]_vars
  <2> SUFFICES ASSUME TypeOK, PollInv, TypeOK', [Next]_vars PROVE Converges
    OBVIOUS
  <2>1. ASSUME Driver PROVE StepsLeft' \in Nat /\ StepsLeft' < StepsLeft
    <3>1. Progress BY <2>1, DriverProgress
    <3>2. TypeOK' /\ PollInv' BY <3>1 DEF Progress
    <3>3. StepsLeft' \in Nat BY <3>2, StepsRangeNext
    <3> QED BY <3>1, <3>2, <3>3 DEF Progress
  <2>2. ASSUME Controller PROVE StepsLeft' = StepsLeft
    BY <2>2, ControllerKeeps, StepsKept
  <2> QED BY <2>1, <2>2 DEF Converges
<1> QED BY <1>1, <1>2, PollStep, TypeCorrect, PTL DEF Spec

(* The last step of a call is the one that leaves nothing: the call is over *)
(* exactly when the count is used up, and CallSteps is all it ever has.     *)
LEMMA StepSum ==
  ASSUME NEW n \in Nat, NEW l \in Nat, NEW m \in Nat, NEW b \in Nat,
         n + l <= b
  PROVE  /\ n + 1 \in Nat
         /\ m < l => (n + 1) + m <= b
         /\ m <= b => 0 + m <= b
OBVIOUS

LEMMA CountStep ==
  ASSUME TypeOK, PollInv, TypeOK', PollInv', steps \in Nat,
         steps + StepsLeft <= CallSteps, [CountNext]_countVars
  PROVE  steps' \in Nat /\ steps' + StepsLeft' <= CallSteps
<1>1. StepsLeft \in Nat /\ StepsLeft' \in Nat /\ CallSteps \in Nat
  BY StepsRange, StepsRangeNext, BudgetFacts
     DEF CallSteps, PrepareSteps, CommandSteps, DataSteps, RecoverSteps
<1>2. CASE Driver /\ steps' = steps + 1
  <2>1. StepsLeft' < StepsLeft BY <1>2, DriverProgress DEF Progress
  <2>2. steps' = steps + 1 BY <1>2
  <2> QED BY <1>1, <2>1, <2>2, StepSum
<1>3. CASE Controller /\ UNCHANGED steps
  BY <1>3, ControllerKeeps, StepsKept
<1>4. CASE steps' = 0
  <2>1. StepsLeft' <= CallSteps BY StepsRangeNext
  <2> QED BY <1>1, <1>4, <2>1, StepSum
<1>5. CASE UNCHANGED countVars
  BY <1>5, StepsKept DEF countVars, vars, drvVars
<1> QED BY <1>2, <1>3, <1>4, <1>5 DEF CountNext

LEMMA CountIsNext == [CountNext]_countVars => [Next]_vars
BY DEF CountNext, Next, countVars

(* A call of MsdcPassThru makes at most CallSteps register accesses,        *)
(* whatever packets are passed, in whatever state the calls before it left  *)
(* the controller, and whatever the controller does meanwhile.              *)
THEOREM CallBounded == CountSpec => []StepsBounded
<1> DEFINE CountInv == /\ TypeOK /\ PollInv /\ steps \in Nat
                       /\ steps + StepsLeft <= CallSteps
<1>1. CountInit => CountInv
  <2> SUFFICES ASSUME CountInit PROVE CountInv
    OBVIOUS
  <2>1. TypeOK BY InitType DEF CountInit
  <2>2. PollInv BY DEF CountInit, Init, PollInv, InCommand, InData
  <2> QED BY <2>1, <2>2, StepsRange DEF CountInit
<1>2. CountInv /\ [CountNext]_countVars => CountInv'
  <2> SUFFICES ASSUME CountInv, [CountNext]_countVars PROVE CountInv'
    OBVIOUS
  <2>1. TypeOK' /\ PollInv' BY CountIsNext, TypeStep, PollStep
  <2>2. steps' \in Nat /\ steps' + StepsLeft' <= CallSteps
    BY <2>1, CountStep
  <2> QED BY <2>1, <2>2
<1>3. CountInv => StepsBounded
  <2> SUFFICES ASSUME CountInv PROVE StepsBounded
    OBVIOUS
  <2>1. StepsLeft \in Nat BY StepsRange
  <2>2. CallSteps \in Nat
    BY BudgetFacts
       DEF CallSteps, PrepareSteps, CommandSteps, DataSteps, RecoverSteps
  <2> HIDE DEF CallSteps
  <2> QED BY <2>1, <2>2 DEF StepsBounded
<1> QED BY <1>1, <1>2, <1>3, PTL DEF CountSpec
=============================================================================
