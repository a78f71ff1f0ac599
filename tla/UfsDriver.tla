----------------------------- MODULE UfsDriver -----------------------------
(***************************************************************************)
(* The rest of UfsDxe on top of its command engine: the host and the link  *)
(* are brought up, the device is taken out of boot mode, its clock and     *)
(* power mode are set; every enabled logical unit gets a block I/O         *)
(* protocol; and calls of those protocols are split into chunks.           *)
(***************************************************************************)
EXTENDS UfsTransport, Sequences

CONSTANTS
  InitReads,   \* reads of fDeviceInit before bring-up gives up (101)
  MaxCalls     \* block I/O calls the model makes

ASSUME DriverAssumption == InitReads \in Nat \ {0} /\ MaxCalls \in Nat

VARIABLES
  stage,      \* "init", "luns" or "io"
  at,         \* the step of InitSequence
  lun, left,  \* the loops over units and over reads of fDeviceInit
  hwWait,     \* a reset or enable bit the driver waits for
  installed,  \* units with a protocol
  size,       \* what READ_CAPACITY said of each
  doubtful,   \* units whose capacity came after a request was given up, or
              \* with an excused failure
  call, done, status, calls,
  before      \* history: the medium when the call began

drvVars == <<stage, at, lun, left, hwWait, installed, size, doubtful, call,
             done, status, calls, before>>
vars    == <<tVars, drvVars>>

InitSequence ==
  <<"HOST", "RESET", "ENABLE", "LANES", "PRELINK", "LINK", "MAXGEAR",
    "POSTLINK", "TXLANES", "RXLANES", "NOP", "SETINIT", "READINIT",
    "CONNTX", "CONNRX", "SETTX", "SETRX", "READCLK", "WRITECLK", "DEVICE",
    "GEOMETRY", "PREPMC", "RXGEAR", "TXGEAR", "RXACTIVE", "TXACTIVE",
    "RXTERM", "TXTERM", "SERIES", "PMC", "TXLANES", "RXLANES", "POSTPMC",
    "BOOTLUN">>
Step == InitSequence[at]
CalSteps   == {"HOST", "PRELINK", "POSTLINK", "PREPMC", "POSTPMC"}
QuerySteps == {"NOP"} \cup Queries
UicSteps   == {"LANES", "LINK", "MAXGEAR", "TXLANES", "RXLANES", "CONNTX",
               "CONNRX", "SETTX", "SETRX", "RXGEAR", "TXGEAR", "RXACTIVE",
               "TXACTIVE", "RXTERM", "TXTERM", "SERIES", "PMC"}

Medium == [l \in Luns |-> [b \in 0 .. Blocks - 1 |-> Content("medium", b)]]
NoCall == [op |-> "READ", lun |-> 0, lba |-> 0, n |-> 0, tag |-> "blank"]

Init ==
  /\ door = FALSE /\ is \in {{}, {"UTRC", "COMPL"}} /\ run = NoRun
  /\ uic = NoUic /\ pwr = "local"
  /\ \E clk \in BOOLEAN :
       dev = [init |-> "done", clk |-> clk, medium |-> Medium]
  /\ mem = Fresh /\ page = ZeroPage /\ buf = [i \in 1 .. MaxCall |-> Blank]
  /\ pc = "begin" /\ req = Nop /\ poll = 0 /\ tries = 1 /\ ok = TRUE
  /\ got = [flag |-> FALSE, clk |-> FALSE, unit |-> [l \in Luns |-> FALSE]]
  /\ clean = TRUE /\ excused = FALSE /\ fault = 0
  /\ stage = "init" /\ at = 1 /\ lun = 0 /\ left = InitReads
  /\ hwWait = FALSE /\ installed = {} /\ doubtful = {}
  /\ size = [l \in Luns |-> ZeroPage]
  /\ call = NoCall /\ done = 0 /\ status = "NONE" /\ calls = 0
  /\ before = Medium

-----------------------------------------------------------------------------
(* Starting a request: the engine takes over at "zero". *)
Start(r, n) ==
  /\ req' = r /\ tries' = n
  /\ pc' = "zero"
  /\ UNCHANGED <<poll, ok, got>>

Go(place) == pc' = place /\ UNCHANGED <<req, poll, tries, ok, got>>

(* A step that is not the engine's fails. *)
Breaks(place) == Go(place) /\ Faulty

NextStep ==
  /\ Go("begin")
  /\ IF at = Len(InitSequence)
     THEN stage' = "luns" /\ UNCHANGED at
     ELSE /\ at' = at + (IF Step = "READCLK" /\ got.clk THEN 2 ELSE 1)
          /\ UNCHANGED stage

InInit(place) == stage = "init" /\ pc = place
InitUnchanged == UNCHANGED <<lun, installed, size, doubtful, call, done,
                             status, calls, before>>

(* UfsAllocHost, the chip information, UfsBoardInit and UfsInitCal; and    *)
(* the calibration before and after the link and the power mode change.    *)
UfsCalibrate ==
  /\ InInit("begin") /\ Step \in CalSteps
  /\ \/ NextStep /\ UNCHANGED fault
     \/ Breaks("failed") /\ UNCHANGED <<stage, at>>
  /\ InitUnchanged
  /\ UNCHANGED <<hwVars, mem, page, buf, clean, excused, left, hwWait>>

(* UfsPreSetup: the host is reset, then the device, then the host enabled. *)
UfsReset ==
  /\ InInit("begin") /\ Step = "RESET"
  /\ door' = FALSE /\ is' = {} /\ run' = NoRun /\ uic' = NoUic
  /\ hwWait' = TRUE
  /\ Go("wait")
  /\ InitUnchanged
  /\ UNCHANGED <<pwr, dev, mem, page, buf, clean, excused, fault, stage, at,
                 left>>

UfsEnable ==
  /\ InInit("begin") /\ Step = "ENABLE"
  /\ dev' = [dev EXCEPT !.init = "no"]
  /\ hwWait' = TRUE
  /\ Go("wait")
  /\ InitUnchanged
  /\ UNCHANGED <<door, is, run, uic, pwr, mem, page, buf, clean, excused,
                 fault, stage, at, left>>

HwReady ==
  /\ hwWait
  /\ hwWait' = FALSE
  /\ InitUnchanged
  /\ UNCHANGED <<tVars, stage, at, left>>

UfsWaited ==
  /\ InInit("wait") /\ ~hwWait
  /\ NextStep
  /\ mem' = IF Step = "ENABLE" THEN Fresh ELSE mem
  /\ InitUnchanged
  /\ UNCHANGED <<hwVars, page, buf, clean, excused, fault, left, hwWait>>

UfsUic ==
  /\ InInit("begin") /\ Step \in UicSteps
  /\ UfsSendUicCmd(Step)
  /\ InitUnchanged
  /\ UNCHANGED <<door, is, run, pwr, dev, mem, page, buf, req, tries, ok,
                 got, clean, excused, fault, stage, at, left, hwWait>>

UfsInitQuery ==
  /\ InInit("begin") /\ Step \in QuerySteps
  /\ Start(Request(Step, 0), IF Step = "NOP" THEN NopRetry ELSE QueryRetries)
  /\ InitUnchanged
  /\ UNCHANGED <<hwVars, mem, page, buf, clean, excused, fault, stage, at,
                 left, hwWait>>

(* UfsEndBootMode: fDeviceInit is read until the device clears it. *)
UfsReadInitAgain ==
  /\ InInit("return") /\ Step = "READINIT" /\ ok /\ got.flag /\ left > 1
  /\ left' = left - 1
  /\ Go("begin")
  /\ InitUnchanged
  /\ UNCHANGED <<hwVars, mem, page, buf, clean, excused, fault, stage, at,
                 hwWait>>

(* Mutant: after the last read the flag is not looked at any more. *)
StillInitAfter(last) == Step = "READINIT" /\ got.flag /\ ~last
StillInit(last)      == Step = "READINIT" /\ got.flag

UfsInitReturn ==
  /\ InInit("return")
  /\ ~(Step = "READINIT" /\ ok /\ got.flag /\ left > 1)
  /\ \/ /\ Step = "BOOTLUN" \/ ok
        /\ ~StillInit(left = 1)
        /\ NextStep /\ UNCHANGED fault
     \/ /\ (Step # "BOOTLUN" /\ ~ok) \/ (ok /\ StillInit(left = 1))
        /\ Go("failed") /\ UNCHANGED <<stage, at>>
        /\ IF ok THEN GivenUp ELSE UNCHANGED fault
  /\ InitUnchanged
  /\ UNCHANGED <<hwVars, mem, page, buf, clean, excused, left, hwWait>>

-----------------------------------------------------------------------------
(* InitUfsDriver: one logical unit after the other. *)

LunUnchanged == UNCHANGED <<at, left, hwWait, call, done, status, calls,
                            before>>
NextLun == Go("begin") /\ lun' = lun + 1
InLuns(place) == stage = "luns" /\ pc = place

(* The unit's Dev, then its descriptor. *)
UfsLunBegin ==
  /\ InLuns("begin") /\ lun < NLuns
  /\ \/ Start(Request("UNIT", lun), QueryRetries) /\ UNCHANGED fault
     \/ Breaks("failed")
  /\ clean' = SlotIsFree /\ excused' = FALSE
  /\ LunUnchanged
  /\ UNCHANGED <<hwVars, mem, page, buf, stage, lun, installed, size,
                 doubtful>>

(* A descriptor that cannot be read is as one of a unit not enabled. *)
UfsLunUnit ==
  /\ InLuns("return") /\ req.kind = "UNIT"
  /\ IF got.unit[lun] THEN Go("sense") /\ UNCHANGED lun ELSE NextLun
  /\ LunUnchanged
  /\ UNCHANGED <<hwVars, mem, page, buf, clean, excused, fault, stage,
                 installed, size, doubtful>>

UfsRequestSense ==
  /\ InLuns("sense")
  /\ \/ /\ page' = ZeroPage
        /\ Start(Request("SENSE", lun), 1) /\ UNCHANGED fault
     \/ Breaks("capacity") /\ UNCHANGED page
  /\ LunUnchanged
  /\ UNCHANGED <<hwVars, mem, buf, clean, excused, stage, lun, installed,
                 size, doubtful>>

UfsLunSense ==
  /\ InLuns("return") /\ req.kind = "SENSE"
  /\ Go("capacity")
  /\ LunUnchanged
  /\ UNCHANGED <<hwVars, mem, page, buf, clean, excused, fault, stage, lun,
                 installed, size, doubtful>>

UfsReadCapacity ==
  /\ InLuns("capacity")
  /\ \/ /\ page' = ZeroPage
        /\ Start(Request("CAPACITY", lun), 1) /\ UNCHANGED <<fault, lun>>
     \/ NextLun /\ Faulty /\ UNCHANGED page
  /\ LunUnchanged
  /\ UNCHANGED <<hwVars, mem, buf, clean, excused, stage, installed, size,
                 doubtful>>

(* Mutant: the page is used whether READ_CAPACITY succeeded or not. *)
CapacityAny  == TRUE
CapacityRead == ok

(* The device path may not be allocated; installing asserts success. *)
UfsLunInstall ==
  /\ InLuns("return") /\ req.kind = "CAPACITY"
  /\ NextLun
  /\ \/ /\ CapacityRead
        /\ installed' = installed \cup {lun}
        /\ size' = [size EXCEPT ![lun] = page]
        /\ doubtful' = IF clean /\ ~excused THEN doubtful
                       ELSE doubtful \cup {lun}
        /\ UNCHANGED fault
     \/ /\ IF CapacityRead THEN Faulty ELSE UNCHANGED fault
        /\ UNCHANGED <<installed, size, doubtful>>
  /\ LunUnchanged
  /\ UNCHANGED <<hwVars, mem, page, buf, clean, excused, stage>>

UfsLunsDone ==
  /\ InLuns("begin") /\ lun = NLuns
  /\ stage' = "io"
  /\ Go("ready")
  /\ LunUnchanged
  /\ UNCHANGED <<hwVars, mem, page, buf, clean, excused, fault, lun,
                 installed, size, doubtful>>

-----------------------------------------------------------------------------
(* UfsReadBlocks and UfsWriteBlocks, by callers that stay within the unit. *)
IoUnchanged == UNCHANGED <<stage, at, lun, left, hwWait, installed, size,
                           doubtful, calls, before>>

UfsBlocks(op, l, lba, n) ==
  LET tag == IF op = "READ" THEN "blank"
             ELSE IF calls = 0 THEN "first" ELSE "second"
  IN /\ pc = "ready" /\ calls < MaxCalls
     /\ l \in installed /\ size[l] = l /\ lba + n <= Blocks
     /\ calls' = calls + 1
     /\ call' = [op |-> op, lun |-> l, lba |-> lba, n |-> n, tag |-> tag]
     /\ buf' = [i \in DOMAIN buf |->
                  IF op = "WRITE" /\ i <= n THEN Content(tag, i) ELSE Blank]
     /\ done' = 0 /\ status' = "NONE"
     /\ before' = dev.medium
     /\ clean' = SlotIsFree /\ excused' = FALSE
     /\ Go("chunk")
     /\ UNCHANGED <<hwVars, mem, page, fault, stage, at, lun, left, hwWait,
                    installed, size, doubtful>>

(* Mutant: every chunk starts at the first block of the call. *)
ChunkLbaFirst == call.lba
ChunkLba      == call.lba + done
ChunkBlks == IF call.n - done < MaxChunk THEN call.n - done ELSE MaxChunk

UfsChunk ==
  /\ pc = "chunk" /\ done < call.n
  /\ Start([kind |-> call.op, lun |-> call.lun, lba |-> ChunkLba,
            n |-> ChunkBlks, off |-> done, tag |-> call.tag], 1)
  /\ IoUnchanged
  /\ UNCHANGED <<hwVars, mem, page, buf, clean, excused, fault, call, done,
                 status>>

UfsChunkReturn ==
  /\ stage = "io" /\ pc = "return"
  /\ IF ok THEN done' = done + req.n /\ Go("chunk") /\ UNCHANGED status
     ELSE status' = "ERROR" /\ Go("ready") /\ UNCHANGED done
  /\ IoUnchanged
  /\ UNCHANGED <<hwVars, mem, page, buf, clean, excused, fault, call>>

UfsBlocksReturn ==
  /\ pc = "chunk" /\ done = call.n
  /\ status' = "SUCCESS"
  /\ Go("ready")
  /\ IoUnchanged
  /\ UNCHANGED <<hwVars, mem, page, buf, clean, excused, fault, call, done>>

-----------------------------------------------------------------------------
Driver ==
  \/ Engine /\ UNCHANGED drvVars
  \/ UfsCalibrate \/ UfsReset \/ UfsEnable \/ UfsWaited \/ UfsUic
  \/ UfsInitQuery \/ UfsReadInitAgain \/ UfsInitReturn
  \/ UfsLunBegin \/ UfsLunUnit \/ UfsRequestSense \/ UfsLunSense
  \/ UfsReadCapacity \/ UfsLunInstall \/ UfsLunsDone
  \/ UfsChunk \/ UfsChunkReturn \/ UfsBlocksReturn

Calls ==
  \E op \in {"READ", "WRITE"}, l \in Luns, lba \in 0 .. Blocks,
     n \in 1 .. MaxCall : UfsBlocks(op, l, lba, n)

(* Once bring-up has failed nothing looks at the controller any more. *)
Next ==
  \/ Driver \/ Calls \/ HwReady
  \/ pc # "failed" /\ Controller /\ UNCHANGED drvVars

(* The driver runs; a reset or enable bit changes in the end.  Nothing is  *)
(* asked of how the controller carries out requests.                       *)
Spec == Init /\ [][Next]_vars /\ WF_vars(Driver) /\ WF_vars(HwReady)

-----------------------------------------------------------------------------
(* As long as no request has been given up, the one slot is the driver's   *)
(* alone when it rings the doorbell: the controller has let go of the      *)
(* request before, though it reports its end in two steps.                 *)
SlotFree == pc = "ring" /\ clean => ~door /\ run.todo = {}

(* Past UfsEndBootMode the device has left its initialisation, unless a    *)
(* query that failed was taken for one that succeeded.                     *)
PastBootMode == stage = "init" /\ Step \in
  {"CONNTX", "CONNRX", "SETTX", "SETRX", "READCLK", "WRITECLK", "DEVICE"}
InitFinished == PastBootMode /\ clean => dev.init = "done" \/ excused

(* A protocol is installed only for a unit that is enabled, whatever       *)
(* requests were given up and answered late: descriptors are kept by the   *)
(* index in the answer.                                                    *)
InstalledIsEnabled == installed \subseteq EnabledLuns

(* An installed unit has its own size, unless its capacity was read after  *)
(* a request was given up or a failure taken for a success                 *)
(* (UfsDxe.c:1185-1220).                                                   *)
SizeIsOwn == \A l \in installed \ doubtful : size[l] = l

(* A call that succeeds has moved the blocks it was asked for, chunk by    *)
(* chunk, and no other, provided no request was given up since the slot    *)
(* was free and no failure taken for a success (UfsDxe.c:1222-1373).       *)
Span == call.lba .. call.lba + call.n - 1
TransferIsOwn ==
  status = "SUCCESS" /\ pc = "ready" /\ clean /\ ~excused =>
    /\ \A l \in Luns, b \in 0 .. Blocks - 1 :
         dev.medium[l][b] =
           IF call.op = "WRITE" /\ l = call.lun /\ b \in Span
           THEN Content(call.tag, b - call.lba + 1) ELSE before[l][b]
    /\ call.op = "READ" =>
         \A i \in 1 .. call.n :
           buf[i] = dev.medium[call.lun][call.lba + i - 1]

(* What the driver hands on is what it asked for.                          *)
DataIsOwn == SizeIsOwn /\ TransferIsOwn

(* The driver gives up on the host, or on a unit, only when something else *)
(* has failed: not for the OCS of a NOP, for link errors during startup,   *)
(* or because it looked before a power mode change had ended.              *)
CleanBringUp ==
  fault = 0 => pc # "failed" /\ (stage = "io" => installed = EnabledLuns)

(* Bring-up and calls come to an end whatever the controller does with the *)
(* requests.                                                               *)
Returns == []<>(pc \in {"ready", "failed"})
=============================================================================
