---------------------------- MODULE UfsTransport ----------------------------
(***************************************************************************)
(* The command engine of UfsDxe: one UTP transfer request in the one slot  *)
(* the driver uses, and UIC commands, against a UFS host controller that   *)
(* fetches, carries out and ends a request in steps of its own.            *)
(*                                                                         *)
(* The descriptors are memory that driver and controller share.  A request *)
(* the driver has given up on stays in the slot: nothing aborts it, and    *)
(* the controller may carry it out and write its result while the driver   *)
(* is preparing, or waiting for, another one.                              *)
(***************************************************************************)
EXTENDS Naturals

CONSTANTS
  NLuns,         \* logical units the driver looks at
  EnabledLuns,   \* those with bLUEnable set in their unit descriptor
  Blocks,        \* blocks of an enabled unit
  MaxChunk,      \* UFS_MAX_XFER_LEN / BlkSize
  MaxCall,       \* the longest transfer callers ask for, in blocks
  Timeout,       \* polls of the interrupt status
  NopRetry,      \* NOP_OUT_RETRY
  QueryRetries,  \* QUERY_REQ_RETRIES
  MaxFaults      \* bound: failures of the controller, device or memory

Luns == 0 .. NLuns - 1

ASSUME TransportAssumption ==
  /\ NLuns \in Nat \ {0} /\ EnabledLuns \subseteq Luns
  /\ Blocks \in Nat /\ MaxChunk \in Nat \ {0} /\ MaxCall \in Nat
  /\ Timeout \in Nat /\ NopRetry \in Nat \ {0}
  /\ QueryRetries \in Nat \ {0} /\ MaxFaults \in Nat \ {0}

Queries == {"SETINIT", "READINIT", "READCLK", "WRITECLK", "DEVICE",
            "GEOMETRY", "BOOTLUN", "UNIT"}
ScsiOps == {"SENSE", "CAPACITY", "READ", "WRITE"}
Kinds   == {"NOP"} \cup Queries \cup ScsiOps

Tags     == {"blank", "medium", "first", "second"}
Contents == [tag : Tags, at : Nat]
Content(tag, at) == [tag |-> tag, at |-> at]
Blank == Content("blank", 0)

(* off is where in the caller's buffer a chunk starts, tag whose data.      *)
Requests == [kind : Kinds, lun : Luns, lba : Nat, n : Nat, off : Nat,
             tag : Tags]
Request(kind, lun) == [kind |-> kind, lun |-> lun, lba |-> 0, n |-> 0,
                       off |-> 0, tag |-> "blank"]
Nop == Request("NOP", 0)

(* Bytes of a page where READ_CAPACITY leaves its answer: a unit's size,   *)
(* the zeroes of a fresh page, or something else.                          *)
ZeroPage == NLuns
Garbage  == NLuns + 1

NoAnswer == [kind |-> "NOP", lun |-> 0, val |-> FALSE]
Answers  == [kind : Kinds, lun : Luns, val : BOOLEAN]

VARIABLES
  (* controller and device *)
  door,     \* bit 0 of UTP_TRANSFER_REQ_DOOR_BELL
  is,       \* INTERRUPT_STATUS
  run,      \* the request being carried out and what is left of that
  uic,      \* the UIC command being carried out, and its result
  pwr,      \* UPMCRS
  dev,      \* device: fDeviceInit, reference clock, contents of the units
  (* memory *)
  mem,      \* command descriptor, UTRD status and response UPIU
  page,     \* the page allocated for REQUEST_SENSE or READ_CAPACITY
  buf,      \* the buffer of the block I/O caller
  (* the driver *)
  pc, req, poll, tries, ok,
  got,      \* Flags, Attributes and UnitDesc as the queries filled them
  (* history *)
  clean,    \* no request was given up since the slot was last seen free
  excused,  \* a request other than a NOP failed and was reported done
  fault     \* what has failed that is not the driver's doing: counted up to
            \* MaxFaults, a request or command given up as one at least

hwVars  == <<door, is, run, uic, pwr, dev>>
engVars == <<pc, req, poll, tries, ok, got>>
tVars   == <<hwVars, mem, page, buf, engVars, clean, excused, fault>>

NoRun == [todo |-> {}, req |-> Nop, own |-> FALSE]
Ends  == {"door", "UTRC"}
Fresh == [req |-> Nop, ocs |-> TRUE, response |-> FALSE, check |-> FALSE,
          answer |-> NoAnswer]
NoUic == [cmd |-> "none", busy |-> FALSE, failed |-> FALSE]

Faulty  == fault < MaxFaults /\ fault' = fault + 1
GivenUp == fault' = IF fault = 0 THEN 1 ELSE fault

SlotIsFree == ~door /\ run.todo = {} /\ "UTRC" \notin is
IsScsi(r) == r.kind \in ScsiOps

-----------------------------------------------------------------------------
(* The controller and the device. *)

HwFetch ==
  /\ door
  /\ run.todo = {}
  /\ run' = [todo |-> {"exec"} \cup Ends, req |-> mem.req,
             own |-> mem.req = req]
  /\ UNCHANGED <<door, is, uic, pwr, dev, mem, page, buf, engVars, clean,
                 excused, fault>>

Executable(r) ==
  /\ IsScsi(r) => r.lun \in EnabledLuns
  /\ r.lba + r.n <= Blocks

Answer(r) ==
  [kind |-> r.kind, lun |-> r.lun,
   val |-> CASE r.kind = "READINIT" -> dev.init = "running"
             [] r.kind = "READCLK"  -> dev.clk
             [] r.kind = "UNIT"     -> r.lun \in EnabledLuns
             [] OTHER               -> FALSE]

DeviceAfter(r) ==
  CASE r.kind = "SETINIT"  -> [dev EXCEPT !.init = "running"]
    [] r.kind = "WRITECLK" -> [dev EXCEPT !.clk = TRUE]
    [] r.kind = "WRITE"    ->
         [dev EXCEPT !.medium[r.lun] = [b \in DOMAIN @ |->
            IF b \in r.lba .. r.lba + r.n - 1
            THEN Content(r.tag, r.off + b - r.lba + 1) ELSE @[b]]]
    [] OTHER -> dev

(* Data in.  The buffer of a request given up on may have been freed and   *)
(* be the current one again.                                               *)
DataIn(r, reused) ==
  /\ page' = CASE ~reused -> page
               [] r.kind = "CAPACITY" -> r.lun
               [] r.kind = "SENSE" /\ ~run.own -> Garbage
               [] OTHER -> page
  /\ buf' = IF r.kind = "READ" /\ reused
            THEN [i \in DOMAIN buf |->
                    IF i \in r.off + 1 .. r.off + r.n
                    THEN dev.medium[r.lun][r.lba + i - r.off - 1]
                    ELSE buf[i]]
            ELSE buf

(* A request ends well; with a SCSI status; with a query response code; or *)
(* with an OCS other than SUCCESS, and a response that says so or none.    *)
(* A NOP is known to end with OCS 01 while "UFS works as normal".          *)
HwExecute(result) ==
  /\ "exec" \in run.todo
  /\ result = "check" => IsScsi(run.req)
  /\ result = "refused" => run.req.kind \in Queries
  /\ result = "good" => Executable(run.req)
  /\ run' = [run EXCEPT !.todo = @ \ {"exec"}]
  /\ mem' = [mem EXCEPT
               !.ocs = result \in {"good", "check", "refused"},
               !.response = CASE result = "silent" -> @
                              [] OTHER -> result \in {"refused", "error"},
               !.check = IF result = "silent" THEN @ ELSE result = "check",
               !.answer = IF result = "good" THEN Answer(run.req) ELSE @]
  /\ IF result = "good"
     THEN /\ dev' = DeviceAfter(run.req)
          /\ \E reused \in {run.own, TRUE} : DataIn(run.req, reused)
     ELSE UNCHANGED <<dev, page, buf>>
  /\ IF result = "good" \/ (result = "silent" /\ run.req.kind = "NOP")
     THEN UNCHANGED fault ELSE Faulty
  /\ UNCHANGED <<door, is, uic, pwr, engVars, clean, excused>>

(* The doorbell bit clears and UTP_TRANSFER_REQ_COMPL is raised, in either *)
(* order.                                                                  *)
HwEnd(what) ==
  /\ what \in run.todo /\ "exec" \notin run.todo
  /\ door' = IF what = "door" THEN FALSE ELSE door
  /\ is' = IF what = "UTRC" THEN is \cup {"UTRC"} ELSE is
  /\ run' = IF run.todo = {what} THEN NoRun
            ELSE [run EXCEPT !.todo = @ \ {what}]
  /\ UNCHANGED <<uic, pwr, dev, mem, page, buf, engVars, clean, excused,
                 fault>>

HwFatal ==
  /\ run.todo # {} \/ uic.busy
  /\ "FATAL" \notin is
  /\ is' = is \cup {"FATAL"}
  /\ Faulty
  /\ UNCHANGED <<door, run, uic, pwr, dev, mem, page, buf, engVars, clean,
                 excused>>

HwDeviceInit ==
  /\ dev.init = "running"
  /\ dev' = [dev EXCEPT !.init = "done"]
  /\ UNCHANGED <<door, is, run, uic, pwr, mem, page, buf, engVars, clean,
                 excused, fault>>

(* A UIC command ends.  After the power mode command the change itself is  *)
(* reported by UIC_POWER_MODE.                                             *)
HwUicEnd(failed) ==
  /\ uic.busy
  /\ uic' = [uic EXCEPT !.busy = FALSE, !.failed = failed]
  /\ is' = is \cup {"COMPL"}
  /\ pwr' = IF uic.cmd = "PMC" /\ ~failed THEN "changing" ELSE pwr
  /\ IF failed THEN Faulty ELSE UNCHANGED fault
  /\ UNCHANGED <<door, run, dev, mem, page, buf, engVars, clean, excused>>

HwPowerMode(result) ==
  /\ pwr = "changing"
  /\ pwr' = result
  /\ is' = is \cup {"PWR"}
  /\ IF result = "failed" THEN Faulty ELSE UNCHANGED fault
  /\ UNCHANGED <<door, run, uic, dev, mem, page, buf, engVars, clean,
                 excused>>

(* UIC_ERROR: expected while the link starts up, a fault at other times.   *)
HwUicError ==
  /\ uic.busy
  /\ "ERR" \notin is
  /\ is' = is \cup {"ERR"}
  /\ IF uic.cmd = "LINK" THEN UNCHANGED fault ELSE Faulty
  /\ UNCHANGED <<door, run, uic, pwr, dev, mem, page, buf, engVars, clean,
                 excused>>

Controller ==
  \/ HwFetch \/ HwFatal \/ HwDeviceInit \/ HwUicError
  \/ \E result \in {"good", "check", "refused", "error", "silent"} :
       HwExecute(result)
  \/ \E what \in Ends : HwEnd(what)
  \/ \E failed \in BOOLEAN : HwUicEnd(failed)
  \/ \E result \in {"local", "failed"} : HwPowerMode(result)

-----------------------------------------------------------------------------
(* A UTP request.  UfsUtpInit zeroes both descriptors; what is there then  *)
(* reads as a NOP OUT.                                                     *)
UfsUtpInit ==
  /\ pc = "zero"
  /\ mem' = Fresh
  /\ run' = [run EXCEPT !.own = FALSE]
  /\ pc' = IF req.kind = "NOP" THEN "ring" ELSE "fill"
  /\ UNCHANGED <<door, is, uic, pwr, dev, page, buf, req, poll, tries, ok,
                 got, clean, excused, fault>>

(* UfsWriteCmdUcd or UfsWriteQueryUcd, UfsMapSg and UfsWriteUtrd: OCS is   *)
(* set to INVALID_COMMAND_STATUS.                                          *)
UfsWriteRequest ==
  /\ pc = "fill"
  /\ mem' = [mem EXCEPT !.req = req, !.ocs = FALSE]
  /\ pc' = "ring"
  /\ UNCHANGED <<hwVars, page, buf, req, poll, tries, ok, got, clean,
                 excused, fault>>

UfsUtpSend ==
  /\ pc = "ring"
  /\ door' = TRUE
  /\ poll' = Timeout
  /\ pc' = "poll"
  /\ UNCHANGED <<is, run, uic, pwr, dev, mem, page, buf, req, tries, ok,
                 got, clean, excused, fault>>

(* Mutant: the doorbell is not looked at. *)
UfsHandleUtpIntOnly == "UTRC" \in is
UfsHandleUtpInt == "UTRC" \in is /\ ~door

(* Mutant: the wait starts over instead of timing out. *)
PollAgainForever == pc' = "poll" /\ poll' = Timeout
(* One more read of the status, after the count has reached zero as well.  *)
PollAgain ==
  IF poll = 0 THEN pc' = "ackBad" /\ UNCHANGED poll
  ELSE pc' = "poll" /\ poll' = poll - 1

(* One pass of the loop in UfsUtpWaitResponse: UfsHandleInt. *)
UfsUtpWaitResponse ==
  /\ pc = "poll"
  /\ IF "FATAL" \in is THEN pc' = "ackBad" /\ UNCHANGED poll
     ELSE IF UfsHandleUtpInt THEN pc' = "ackOk" /\ UNCHANGED poll
     ELSE PollAgain
  /\ UNCHANGED <<hwVars, mem, page, buf, req, tries, ok, got, clean,
                 excused, fault>>

(* The outcome of one attempt: NOPs and queries are tried again. *)
Attempt(success) ==
  /\ ok' = success
  /\ IF success \/ tries = 1
     THEN pc' = "return" /\ UNCHANGED tries
     ELSE pc' = "zero" /\ tries' = tries - 1

(* Mutant: an OCS other than SUCCESS is an error for a NOP as well. *)
UfsUtpCheckOcs == mem.ocs /\ ~(IsScsi(req) /\ mem.check)
UfsUtpCheckResult ==
  IF mem.ocs THEN ~(IsScsi(req) /\ mem.check) ELSE ~mem.response

(* Mutant: a unit descriptor is stored for the unit that was asked for. *)
UnitOfRequest(answer) == req.lun
UnitOfAnswer(answer) == answer.lun

(* UfsQueryGetData: flags and attributes are taken from where this query   *)
(* has them in the response, a unit descriptor is stored by the index in   *)
(* the response.  A response of zeroes has a descriptor of length 0.       *)
UfsQueryGetData ==
  LET answer == mem.answer
  IN CASE req.kind = "READINIT" -> got' = [got EXCEPT !.flag = answer.val]
       [] req.kind = "READCLK"  -> got' = [got EXCEPT !.clk = answer.val]
       [] req.kind = "UNIT" /\ answer.kind = "UNIT" ->
            got' = [got EXCEPT !.unit[UnitOfAnswer(answer)] = answer.val]
       [] OTHER -> UNCHANGED got

(* The status is written back and the result looked at. *)
UfsUtpResponse ==
  /\ pc = "ackOk"
  /\ is' = {}
  /\ Attempt(UfsUtpCheckResult)
  /\ IF UfsUtpCheckResult THEN UfsQueryGetData ELSE UNCHANGED got
  /\ excused' = (excused \/ /\ UfsUtpCheckResult
                            /\ req.kind # "NOP"
                            /\ ~mem.ocs \/ mem.response)
  /\ UNCHANGED <<door, run, uic, pwr, dev, mem, page, buf, req, poll,
                 clean, fault>>

(* Time is up, or a fatal error: the request stays in the slot. *)
UfsUtpGiveUp ==
  /\ pc = "ackBad"
  /\ is' = {}
  /\ Attempt(FALSE)
  /\ clean' = FALSE
  /\ GivenUp
  /\ UNCHANGED <<door, run, uic, pwr, dev, mem, page, buf, req, poll, got,
                 excused>>

-----------------------------------------------------------------------------
(* UfsSendUicCmd. *)
UfsSendUicCmd(cmd) ==
  /\ uic' = [cmd |-> cmd, busy |-> TRUE, failed |-> FALSE]
  /\ poll' = Timeout
  /\ pc' = "uicPoll"

(* Mutant: the end of the power mode change is not waited for. *)
UicComplete == "COMPL" \in is
UfsHandleUicInt == "COMPL" \in is /\ (uic.cmd = "PMC" => "PWR" \in is)
UicError == "ERR" \in is /\ uic.cmd # "LINK"

UicPoll ==
  /\ pc = "uicPoll"
  /\ IF UicError \/ "FATAL" \in is THEN pc' = "uicBad" /\ UNCHANGED poll
     ELSE IF UfsHandleUicInt THEN pc' = "uicOk" /\ UNCHANGED poll
     ELSE IF poll = 0 THEN pc' = "uicBad" /\ UNCHANGED poll
     ELSE pc' = "uicPoll" /\ poll' = poll - 1
  /\ UNCHANGED <<hwVars, mem, page, buf, req, tries, ok, got, clean,
                 excused, fault>>

(* Status written back; the result code and, for the power mode, UPMCRS.   *)
UicResult ==
  /\ pc \in {"uicOk", "uicBad"}
  /\ is' = {}
  /\ ok' = (pc = "uicOk" /\ ~uic.failed /\ (uic.cmd = "PMC" => pwr = "local"))
  /\ IF pc = "uicBad" THEN GivenUp ELSE UNCHANGED fault
  /\ pc' = "return"
  /\ UNCHANGED <<door, run, uic, pwr, dev, mem, page, buf, req, poll, tries,
                 got, clean, excused>>

Engine ==
  \/ UfsUtpInit \/ UfsWriteRequest \/ UfsUtpSend \/ UfsUtpWaitResponse
  \/ UfsUtpResponse \/ UfsUtpGiveUp \/ UicPoll \/ UicResult
=============================================================================
