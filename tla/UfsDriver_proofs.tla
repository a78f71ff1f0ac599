-------------------------- MODULE UfsDriver_proofs --------------------------
(***************************************************************************)
(* For any units, sizes, budgets and failures: a protocol is installed     *)
(* only for a unit that is enabled, and a doorbell is rung only when the   *)
(* slot is the driver's; the device has left its initialisation when       *)
(* bring-up goes on; calls move the blocks they are asked for; only        *)
(* failures elsewhere make the driver give up; and bring-up and calls are  *)
(* over after so many steps of the driver.                                 *)
(***************************************************************************)
EXTENDS UfsDriver, TLAPS

(* Only what names a unit has a type here: a request, the copies of it in  *)
(* memory and in the controller, an answer, and the caller's call.         *)
Addressed ==
  /\ req.lun \in Luns /\ lun \in Nat
  /\ call.lun \in Luns /\ call.op \in {"READ", "WRITE"}
  /\ mem = [req |-> mem.req, ocs |-> mem.ocs, response |-> mem.response,
            check |-> mem.check, answer |-> mem.answer]
  /\ mem.req.lun \in Luns /\ mem.answer.lun \in Luns
  /\ run = [todo |-> run.todo, req |-> run.req, own |-> run.own]
  /\ run.req.lun \in Luns
  /\ got = [flag |-> got.flag, clk |-> got.clk, unit |-> got.unit]
  /\ got.unit = [l \in Luns |-> got.unit[l]]

(* A unit descriptor says of a unit what is true of it, whichever request  *)
(* it answers, and so does what was kept of the descriptors.               *)
Tells(answer) ==
  answer.kind = "UNIT" /\ answer.val => answer.lun \in EnabledLuns
Truthful ==
  /\ Tells(mem.answer)
  /\ \A l \in Luns : got.unit[l] => l \in EnabledLuns

(* Where the loop over the units has seen that this one is enabled.        *)
AtUnit ==
  stage = "luns" /\ pc \notin {"begin", "failed"} =>
    /\ lun \in Luns
    /\ pc \in {"sense", "capacity"} \/ req.kind \in {"SENSE", "CAPACITY"}
         => lun \in EnabledLuns

UnitInv == Addressed /\ Truthful /\ AtUnit /\ InstalledIsEnabled

LEMMA LunFacts ==
  NLuns \in Nat \ {0} /\ 0 \in Luns /\ Luns \subseteq Nat
BY TransportAssumption DEF Luns

LEMMA RequestFacts ==
  ASSUME NEW kind, NEW l
  PROVE Request(kind, l).kind = kind /\ Request(kind, l).lun = l
BY DEF Request

LEMMA UnitInit == Init => UnitInv
<1> SUFFICES ASSUME Init PROVE UnitInv
  OBVIOUS
<1>1. Nop.lun = 0 /\ NoAnswer.lun = 0 /\ NoAnswer.kind = "NOP"
  BY RequestFacts DEF Nop, NoAnswer
<1>2. /\ mem = Fresh /\ run = NoRun /\ req = Nop /\ call = NoCall
      /\ lun = 0 /\ stage = "init" /\ installed = {}
      /\ got = [flag |-> FALSE, clk |-> FALSE,
                unit |-> [l \in Luns |-> FALSE]]
  BY DEF Init
<1>3. Addressed
  BY <1>1, <1>2, LunFacts DEF Addressed, Fresh, NoRun, NoCall
<1>4. Truthful BY <1>1, <1>2 DEF Truthful, Tells, Fresh
<1> QED BY <1>2, <1>3, <1>4 DEF UnitInv, AtUnit, InstalledIsEnabled

-----------------------------------------------------------------------------
LEMMA AnswerTells ==
  ASSUME NEW r
  PROVE Tells(Answer(r)) /\ Answer(r).lun = r.lun
<1>1. Answer(r).kind = r.kind /\ Answer(r).lun = r.lun BY DEF Answer
<1>2. ASSUME r.kind = "UNIT", Answer(r).val PROVE r.lun \in EnabledLuns
  BY <1>2 DEF Answer
<1> QED BY <1>1, <1>2 DEF Tells

(* The controller: a copy of the request in memory, and the answer to the  *)
(* one it has.                                                             *)
LEMMA ControllerUnit ==
  ASSUME UnitInv, Controller, UNCHANGED drvVars PROVE UnitInv'
<1> USE DEF UnitInv
<1>1. UNCHANGED <<pc, req, got, lun, stage, installed, call>>
  BY DEF Controller, HwFetch, HwFatal, HwDeviceInit, HwUicError, HwExecute,
         HwEnd, HwUicEnd, HwPowerMode, engVars, drvVars
<1>2. AtUnit' /\ InstalledIsEnabled'
  BY <1>1 DEF AtUnit, InstalledIsEnabled
<1>3. CASE HwFetch
  BY <1>1, <1>2, <1>3 DEF HwFetch, Addressed, Truthful, Tells
<1>4. CASE HwFatal \/ HwDeviceInit \/ HwUicError
           \/ (\E failed \in BOOLEAN : HwUicEnd(failed))
           \/ (\E result \in {"local", "failed"} : HwPowerMode(result))
  BY <1>1, <1>2, <1>4
  DEF HwFatal, HwDeviceInit, HwUicError, HwUicEnd, HwPowerMode, Addressed,
      Truthful, Tells
<1>5. ASSUME NEW result \in {"good", "check", "refused", "error", "silent"},
             HwExecute(result)
      PROVE UnitInv'
  <2>1. run' = [run EXCEPT !.todo = @ \ {"exec"}] BY <1>5 DEF HwExecute
  <2>2. /\ mem' = [req |-> mem'.req, ocs |-> mem'.ocs,
                   response |-> mem'.response, check |-> mem'.check,
                   answer |-> mem'.answer]
        /\ mem'.req = mem.req
        /\ mem'.answer = IF result = "good" THEN Answer(run.req)
                         ELSE mem.answer
    BY <1>5 DEF HwExecute, Addressed
  <2>3. mem'.answer.lun \in Luns /\ Tells(mem'.answer)
    BY <2>2, AnswerTells DEF Addressed, Truthful
  <2>4. Addressed' BY <1>1, <2>1, <2>2, <2>3 DEF Addressed
  <2>5. Truthful' BY <1>1, <2>3 DEF Truthful, Tells
  <2> QED BY <1>2, <2>4, <2>5
<1>6. ASSUME NEW what \in Ends, HwEnd(what) PROVE UnitInv'
  <2>1. NoRun.req.lun \in Luns /\ NoRun = [todo |-> NoRun.todo,
          req |-> NoRun.req, own |-> NoRun.own]
    BY RequestFacts, LunFacts DEF NoRun, Nop
  <2>2. run' = NoRun \/ run' = [run EXCEPT !.todo = @ \ {what}]
    BY <1>6 DEF HwEnd
  <2>3. UNCHANGED mem BY <1>6 DEF HwEnd
  <2>4. Addressed' BY <1>1, <2>1, <2>2, <2>3 DEF Addressed
  <2> QED BY <1>1, <1>2, <2>3, <2>4 DEF Truthful, Tells
<1> QED BY <1>3, <1>4, <1>5, <1>6 DEF Controller

-----------------------------------------------------------------------------
(* The command engine keeps what a response says, by the index in it.      *)
LEMMA EngineUnit ==
  ASSUME UnitInv, Engine, UNCHANGED drvVars PROVE UnitInv'
<1> USE DEF UnitInv
<1>1. UNCHANGED <<req, lun, stage, installed, call>>
  BY DEF Engine, UfsUtpInit, UfsWriteRequest, UfsUtpSend,
         UfsUtpWaitResponse, UfsUtpResponse, UfsUtpGiveUp, UicPoll,
         UicResult, drvVars
<1>2. pc \notin {"begin", "failed"}
  BY DEF Engine, UfsUtpInit, UfsWriteRequest, UfsUtpSend,
         UfsUtpWaitResponse, UfsUtpResponse, UfsUtpGiveUp, UicPoll,
         UicResult
<1>3. pc' \notin {"sense", "capacity"}
  BY DEF Engine, UfsUtpInit, UfsWriteRequest, UfsUtpSend,
         UfsUtpWaitResponse, PollAgain, UfsUtpResponse, UfsUtpGiveUp,
         Attempt, UicPoll, UicResult
<1>4. AtUnit' /\ InstalledIsEnabled'
  BY <1>1, <1>2, <1>3 DEF AtUnit, InstalledIsEnabled
<1>5. CASE UfsUtpInit
  <2>1. /\ Fresh.req.lun \in Luns /\ Fresh.answer.lun \in Luns
        /\ Tells(Fresh.answer)
        /\ Fresh = [req |-> Fresh.req, ocs |-> Fresh.ocs,
                    response |-> Fresh.response, check |-> Fresh.check,
                    answer |-> Fresh.answer]
    BY RequestFacts, LunFacts DEF Fresh, Nop, NoAnswer, Tells
  <2>2. mem' = Fresh /\ run' = [run EXCEPT !.own = FALSE] /\ UNCHANGED got
    BY <1>5 DEF UfsUtpInit
  <2>3. Addressed' BY <1>1, <2>1, <2>2 DEF Addressed
  <2> QED BY <1>4, <2>1, <2>2, <2>3 DEF Truthful, Tells
<1>6. CASE UfsWriteRequest
  <2>1. mem' = [mem EXCEPT !.req = req, !.ocs = FALSE]
        /\ UNCHANGED <<got, run>>
    BY <1>6 DEF UfsWriteRequest, hwVars
  <2>2. Addressed' BY <1>1, <2>1 DEF Addressed
  <2> QED BY <1>4, <2>1, <2>2 DEF Truthful, Tells, Addressed
<1>7. CASE UfsUtpSend \/ UfsUtpWaitResponse \/ UfsUtpGiveUp \/ UicPoll
           \/ UicResult
  <2>1. UNCHANGED <<mem, run, got>>
    BY <1>7 DEF UfsUtpSend, UfsUtpWaitResponse, UfsUtpGiveUp, UicPoll,
                UicResult, hwVars
  <2> QED BY <1>1, <1>4, <2>1 DEF Addressed, Truthful, Tells
<1>8. CASE UfsUtpResponse
  <2>1. UNCHANGED <<mem, run>> BY <1>8 DEF UfsUtpResponse
  <2>2. \/ UNCHANGED got
        \/ got' = [got EXCEPT !.flag = mem.answer.val]
        \/ got' = [got EXCEPT !.clk = mem.answer.val]
        \/ /\ mem.answer.kind = "UNIT"
           /\ got' = [got EXCEPT !.unit[mem.answer.lun] = mem.answer.val]
    BY <1>8 DEF UfsUtpResponse, UfsQueryGetData, UnitOfAnswer
  <2>3. /\ got' = [flag |-> got'.flag, clk |-> got'.clk,
                   unit |-> got'.unit]
        /\ got'.unit = [l \in Luns |-> got'.unit[l]]
        /\ \A l \in Luns : got'.unit[l] => l \in EnabledLuns
    BY <2>2 DEF Addressed, Truthful, Tells
  <2> QED BY <1>1, <1>4, <2>1, <2>3 DEF Addressed, Truthful, Tells
<1> QED BY <1>5, <1>6, <1>7, <1>8 DEF Engine

-----------------------------------------------------------------------------
(* What none of the driver's own steps changes, but for the memory that is *)
(* cleared once the host is enabled and the run that its reset ends.       *)
LEMMA Starts ==
  ASSUME NEW r, NEW n, Start(r, n)
  PROVE req' = r /\ pc' = "zero" /\ UNCHANGED got
BY DEF Start

LEMMA Goes ==
  ASSUME NEW place, Go(place) \/ Breaks(place)
  PROVE pc' = place /\ UNCHANGED <<req, got>>
BY DEF Go, Breaks

LEMMA Kept ==
  ASSUME UnitInv, UNCHANGED <<mem, run, got>>,
         req'.lun \in Luns, lun' \in Nat,
         call'.lun \in Luns, call'.op \in {"READ", "WRITE"}
  PROVE Addressed' /\ Truthful'
BY DEF UnitInv, Addressed, Truthful, Tells

LEMMA InitUnit ==
  ASSUME UnitInv,
         UfsCalibrate \/ UfsReset \/ UfsEnable \/ UfsWaited \/ UfsUic
         \/ UfsInitQuery \/ UfsReadInitAgain \/ UfsInitReturn
  PROVE UnitInv'
<1> USE DEF UnitInv
<1>1. UNCHANGED <<lun, installed, call>> /\ stage = "init"
  BY DEF UfsCalibrate, UfsReset, UfsEnable, UfsWaited, UfsUic, UfsInitQuery,
         UfsReadInitAgain, UfsInitReturn, InInit, InitUnchanged
<1>2. AtUnit'
  <2>1. NextStep => pc' = "begin" BY DEF NextStep, Go
  <2>2. NextStep \/ UNCHANGED stage
    BY DEF UfsCalibrate, UfsReset, UfsEnable, UfsWaited, UfsUic,
           UfsInitQuery, UfsReadInitAgain, UfsInitReturn
  <2> QED BY <1>1, <2>1, <2>2 DEF AtUnit
<1>3. UNCHANGED got
  BY DEF UfsCalibrate, UfsReset, UfsEnable, UfsWaited, UfsUic, UfsInitQuery,
         UfsReadInitAgain, UfsInitReturn, NextStep, Breaks, Go, Start
<1>4. req'.lun \in Luns
  <2>1. UNCHANGED req \/ UfsInitQuery
    BY DEF UfsCalibrate, UfsReset, UfsEnable, UfsWaited, UfsUic,
           UfsReadInitAgain, UfsInitReturn, NextStep, Breaks, Go
  <2>2. UfsInitQuery => req'.lun = 0
    BY Starts, RequestFacts DEF UfsInitQuery
  <2> QED BY <2>1, <2>2, LunFacts DEF Addressed
<1>5. /\ mem' = mem \/ mem' = Fresh
      /\ run' = run \/ run' = NoRun
  BY DEF UfsCalibrate, UfsReset, UfsEnable, UfsWaited, UfsUic, UfsInitQuery,
         UfsReadInitAgain, UfsInitReturn, hwVars
<1>6. /\ Fresh.req.lun \in Luns /\ Fresh.answer.lun \in Luns
      /\ Tells(Fresh.answer)
      /\ Fresh = [req |-> Fresh.req, ocs |-> Fresh.ocs,
                  response |-> Fresh.response, check |-> Fresh.check,
                  answer |-> Fresh.answer]
      /\ NoRun.req.lun \in Luns
      /\ NoRun = [todo |-> NoRun.todo, req |-> NoRun.req,
                  own |-> NoRun.own]
  BY RequestFacts, LunFacts DEF Fresh, NoRun, Nop, NoAnswer, Tells
<1>7. Addressed' BY <1>1, <1>3, <1>4, <1>5, <1>6 DEF Addressed
<1>8. Truthful' BY <1>3, <1>5, <1>6 DEF Truthful, Tells
<1> QED BY <1>1, <1>2, <1>7, <1>8 DEF InstalledIsEnabled

-----------------------------------------------------------------------------
(* The loop over the units.  Only UfsLunInstall adds to installed, for a   *)
(* unit whose descriptor has been looked at.                               *)
LEMMA LoopUnit ==
  ASSUME UnitInv,
         UfsLunBegin \/ UfsLunUnit \/ UfsRequestSense \/ UfsLunSense
         \/ UfsReadCapacity \/ UfsLunInstall \/ UfsLunsDone
  PROVE UnitInv'
<1> USE DEF UnitInv
<1>1. UNCHANGED <<mem, run, call>>
  BY DEF UfsLunBegin, UfsLunUnit, UfsRequestSense, UfsLunSense,
         UfsReadCapacity, UfsLunInstall, UfsLunsDone, hwVars, LunUnchanged
<1>2. /\ lun \in Nat /\ lun + 1 \in Nat /\ req.lun \in Luns
      /\ call.lun \in Luns /\ call.op \in {"READ", "WRITE"}
  BY DEF Addressed
<1>3. stage = "luns"
  BY DEF UfsLunBegin, UfsLunUnit, UfsRequestSense, UfsLunSense,
         UfsReadCapacity, UfsLunInstall, UfsLunsDone, InLuns
<1>4. CASE UfsLunBegin
  <2>1. lun \in Luns /\ UNCHANGED <<lun, installed>> /\ pc = "begin"
    BY <1>2, <1>4, LunFacts DEF UfsLunBegin, Luns, InLuns
  <2>2. UNCHANGED got /\ \/ req' = Request("UNIT", lun) /\ pc' = "zero"
                         \/ UNCHANGED req /\ pc' = "failed"
    BY <1>4, Starts, Goes DEF UfsLunBegin
  <2>3. req'.lun \in Luns BY <1>2, <2>1, <2>2, RequestFacts
  <2>4. AtUnit' BY <2>1, <2>2, RequestFacts DEF AtUnit
  <2>5. Addressed' /\ Truthful' BY <1>1, <1>2, <2>1, <2>2, <2>3, Kept
  <2> QED BY <2>1, <2>4, <2>5 DEF InstalledIsEnabled
<1>5. CASE UfsLunUnit
  <2>1. /\ UNCHANGED <<got, req, installed, stage>> /\ pc = "return"
        /\ \/ got.unit[lun] /\ pc' = "sense" /\ UNCHANGED lun
           \/ pc' = "begin" /\ lun' = lun + 1
    BY <1>5, Goes DEF UfsLunUnit, NextLun, InLuns
  <2>2. lun \in Luns /\ (got.unit[lun] => lun \in EnabledLuns)
    BY <1>3, <2>1 DEF AtUnit, Truthful
  <2>3. AtUnit' BY <2>1, <2>2 DEF AtUnit
  <2>4. Addressed' /\ Truthful' BY <1>1, <1>2, <2>1, Kept
  <2> QED BY <2>1, <2>3, <2>4 DEF InstalledIsEnabled
<1>6. CASE UfsRequestSense
  <2>1. /\ UNCHANGED <<got, lun, installed>> /\ pc = "sense"
        /\ \/ req' = Request("SENSE", lun)
           \/ UNCHANGED req
    BY <1>6, Starts, Goes DEF UfsRequestSense, InLuns
  <2>2. lun \in Luns /\ lun \in EnabledLuns
    BY <1>3, <2>1 DEF AtUnit
  <2>3. AtUnit' BY <2>1, <2>2 DEF AtUnit
  <2>4. req'.lun \in Luns BY <1>2, <2>1, <2>2, RequestFacts
  <2>5. Addressed' /\ Truthful' BY <1>1, <1>2, <2>1, <2>4, Kept
  <2> QED BY <2>1, <2>3, <2>5 DEF InstalledIsEnabled
<1>7. CASE UfsLunSense
  <2>1. /\ UNCHANGED <<got, req, lun, installed>> /\ pc = "return"
        /\ req.kind = "SENSE"
    BY <1>7, Goes DEF UfsLunSense, InLuns
  <2>2. lun \in Luns /\ lun \in EnabledLuns
    BY <1>3, <2>1 DEF AtUnit
  <2>3. AtUnit' BY <2>1, <2>2 DEF AtUnit
  <2>4. Addressed' /\ Truthful' BY <1>1, <1>2, <2>1, Kept
  <2> QED BY <2>1, <2>3, <2>4 DEF InstalledIsEnabled
<1>8. CASE UfsReadCapacity
  <2>1. /\ UNCHANGED <<got, installed>> /\ pc = "capacity"
        /\ \/ req' = Request("CAPACITY", lun) /\ UNCHANGED lun
           \/ UNCHANGED req /\ lun' = lun + 1 /\ pc' = "begin"
    BY <1>8, Starts, Goes DEF UfsReadCapacity, NextLun, InLuns
  <2>2. lun \in Luns /\ lun \in EnabledLuns
    BY <1>3, <2>1 DEF AtUnit
  <2>3. AtUnit' BY <2>1, <2>2 DEF AtUnit
  <2>4. req'.lun \in Luns BY <1>2, <2>1, <2>2, RequestFacts
  <2>5. Addressed' /\ Truthful' BY <1>1, <1>2, <2>1, <2>4, Kept
  <2> QED BY <2>1, <2>3, <2>5 DEF InstalledIsEnabled
<1>9. CASE UfsLunInstall
  <2>1. /\ UNCHANGED <<got, req>> /\ pc = "return" /\ pc' = "begin"
        /\ req.kind = "CAPACITY" /\ lun' = lun + 1
        /\ installed' = installed \/ installed' = installed \cup {lun}
    BY <1>9, Goes DEF UfsLunInstall, NextLun, InLuns
  <2>2. lun \in EnabledLuns BY <1>3, <2>1 DEF AtUnit
  <2>3. InstalledIsEnabled' BY <2>1, <2>2 DEF InstalledIsEnabled
  <2>4. AtUnit' BY <2>1 DEF AtUnit
  <2>5. Addressed' /\ Truthful' BY <1>1, <1>2, <2>1, Kept
  <2> QED BY <2>3, <2>4, <2>5
<1>10. CASE UfsLunsDone
  <2>1. UNCHANGED <<got, req, lun, installed>> /\ stage' = "io"
    BY <1>10, Goes DEF UfsLunsDone
  <2>2. Addressed' /\ Truthful' BY <1>1, <1>2, <2>1, Kept
  <2> QED BY <2>1, <2>2 DEF AtUnit, InstalledIsEnabled
<1> QED BY <1>4, <1>5, <1>6, <1>7, <1>8, <1>9, <1>10

-----------------------------------------------------------------------------
(* Calls of the protocols install none.                                    *)
LEMMA IoUnit ==
  ASSUME UnitInv, Calls \/ UfsChunk \/ UfsChunkReturn \/ UfsBlocksReturn
  PROVE UnitInv'
<1> USE DEF UnitInv
<1>1. UNCHANGED <<mem, run, got, stage, lun, installed>>
  BY DEF Calls, UfsBlocks, UfsChunk, UfsChunkReturn, UfsBlocksReturn, Go,
         Start, hwVars, IoUnchanged
<1>2. /\ req'.lun \in Luns
      /\ call'.lun \in Luns /\ call'.op \in {"READ", "WRITE"}
  BY DEF Calls, UfsBlocks, UfsChunk, UfsChunkReturn, UfsBlocksReturn, Go,
         Start, Addressed
<1>3. /\ stage = "io" \/ pc \notin {"begin", "failed"}
      /\ stage = "io" \/ pc' \notin {"sense", "capacity"}
      /\ UNCHANGED req \/ req'.kind \in {"READ", "WRITE"}
  BY DEF Calls, UfsBlocks, UfsChunk, UfsChunkReturn, UfsBlocksReturn, Go,
         Start, Addressed
<1>4. Addressed' /\ Truthful' BY <1>1, <1>2, Kept DEF Addressed
<1> QED BY <1>1, <1>3, <1>4 DEF AtUnit, InstalledIsEnabled

LEMMA UnitStep == UnitInv /\ [Next]_vars => UnitInv'
<1> SUFFICES ASSUME UnitInv, [Next]_vars PROVE UnitInv'
  OBVIOUS
<1>1. CASE Engine /\ UNCHANGED drvVars BY <1>1, EngineUnit
<1>2. CASE Controller /\ UNCHANGED drvVars BY <1>2, ControllerUnit
<1>3. CASE HwReady
  BY <1>3
  DEF HwReady, InitUnchanged, tVars, hwVars, engVars, UnitInv, Addressed,
      Truthful, Tells, AtUnit, InstalledIsEnabled
<1>4. CASE UNCHANGED vars
  BY <1>4
  DEF vars, tVars, hwVars, engVars, drvVars, UnitInv, Addressed, Truthful,
      Tells, AtUnit, InstalledIsEnabled
<1> QED
  BY <1>1, <1>2, <1>3, <1>4, InitUnit, LoopUnit, IoUnit DEF Next, Driver

(* Whatever requests are given up, carried out late or answered in each    *)
(* other's place, a unit that gets a block I/O protocol is one the device  *)
(* says is enabled (UfsDxe.c:1429-1475, the descriptor kept by the index   *)
(* in the response).                                                       *)
THEOREM UnitsEnabled == Spec => []InstalledIsEnabled
<1>1. Init => UnitInv BY UnitInit
<1>2. UnitInv /\ [Next]_vars => UnitInv' BY UnitStep
<1>3. UnitInv => InstalledIsEnabled BY DEF UnitInv
<1> QED BY <1>1, <1>2, <1>3, PTL DEF Spec

-----------------------------------------------------------------------------
(* The slot.  It is taken from the doorbell to the end of the wait; in     *)
(* between the doorbell bit and UTP_TRANSFER_REQ_COMPL together say how    *)
(* far the controller is, because the status was clear of the bit when the *)
(* doorbell was rung.  What is in the status before the host is reset was  *)
(* left by the boot loader.                                                *)
BeforeReset == stage = "init" /\ at <= 2 /\ pc = "begin"
SlotTaken   == pc \in {"poll", "ackBad"}
StatusRead  == pc \notin {"poll", "ackOk", "ackBad", "failed"}
Slot ==
  /\ run.todo \subseteq {"exec"} \cup Ends
  /\ run.todo # {} => (door <=> "door" \in run.todo)
  /\ "exec" \in run.todo => Ends \subseteq run.todo
  /\ "UTRC" \in is => (door => run.todo # {}) /\ "UTRC" \notin run.todo
  /\ ~SlotTaken => ~door /\ run.todo = {}
  /\ StatusRead /\ "UTRC" \in is => BeforeReset

SlotInv ==
  /\ at \in Nat \ {0}
  /\ clean => Slot

LEMMA SlotInit == Init => SlotInv
BY DEF Init, SlotInv, Slot, NoRun, BeforeReset, SlotTaken, Ends

LEMMA FreeSlot ==
  ASSUME SlotIsFree, UNCHANGED <<run, door, is>>
  PROVE Slot'
BY DEF SlotIsFree, Slot, SlotTaken, StatusRead

(* Steps that leave the controller alone, and the driver away from its     *)
(* wait.                                                                   *)
LEMMA SlotKept ==
  ASSUME SlotInv, UNCHANGED <<run.todo, door, is, clean>>, at' \in Nat \ {0},
         ~SlotTaken, StatusRead,
         BeforeReset => BeforeReset' \/ pc' = "failed"
  PROVE SlotInv'
BY DEF SlotInv, Slot, SlotTaken, StatusRead

(* The controller takes a request up once, and ends it once.               *)
LEMMA SlotController ==
  ASSUME UnitInv, SlotInv, Controller, UNCHANGED drvVars PROVE SlotInv'
<1>1. UNCHANGED <<pc, clean, stage, at>>
  BY DEF Controller, HwFetch, HwFatal, HwDeviceInit, HwUicError, HwExecute,
         HwEnd, HwUicEnd, HwPowerMode, engVars, drvVars
<1>2. /\ at' \in Nat \ {0} /\ clean' = clean
      /\ SlotTaken' = SlotTaken /\ StatusRead' = StatusRead
      /\ BeforeReset' = BeforeReset
  BY <1>1 DEF SlotInv, SlotTaken, StatusRead, BeforeReset
<1>3. SUFFICES ASSUME clean PROVE Slot'
  BY <1>2 DEF SlotInv
<1>4. Slot BY <1>3 DEF SlotInv
<1>5. CASE HwFetch
  BY <1>2, <1>4, <1>5 DEF HwFetch, Slot, SlotTaken, StatusRead, Ends
<1>6. CASE HwFatal \/ HwDeviceInit \/ HwUicError
           \/ (\E failed \in BOOLEAN : HwUicEnd(failed))
           \/ (\E result \in {"local", "failed"} : HwPowerMode(result))
  <2>1. UNCHANGED <<door, run>> /\ ("UTRC" \in is' => "UTRC" \in is)
    BY <1>6 DEF HwFatal, HwDeviceInit, HwUicError, HwUicEnd, HwPowerMode
  <2> QED BY <1>2, <1>4, <2>1 DEF Slot
<1>7. ASSUME NEW result \in {"good", "check", "refused", "error", "silent"},
             HwExecute(result)
      PROVE Slot'
  <2>1. /\ UNCHANGED <<door, is>>
        /\ "exec" \in run.todo /\ run'.todo = run.todo \ {"exec"}
    BY <1>7 DEF HwExecute, UnitInv, Addressed
  <2> QED BY <1>2, <1>4, <2>1 DEF Slot, Ends
<1>8. ASSUME NEW what \in Ends, HwEnd(what) PROVE Slot'
  <2>1. /\ what \in run.todo /\ "exec" \notin run.todo
        /\ run'.todo = run.todo \ {what}
    BY <1>8 DEF HwEnd, NoRun, UnitInv, Addressed
  <2>2. /\ what = "door" => door' = FALSE /\ is' = is
        /\ what = "UTRC" => door' = door /\ is' = is \cup {"UTRC"}
    BY <1>8 DEF HwEnd
  <2> QED BY <1>2, <1>4, <2>1, <2>2 DEF Slot, Ends, SlotTaken, StatusRead
<1> QED BY <1>5, <1>6, <1>7, <1>8 DEF Controller

(* The engine waits until the slot is free again, or gives the request up. *)
LEMMA SlotEngine ==
  ASSUME UnitInv, SlotInv, Engine, UNCHANGED drvVars PROVE SlotInv'
<1>1. UNCHANGED <<stage, at>> BY DEF drvVars
<1>2. CASE UfsUtpInit \/ UfsWriteRequest
  <2>1. /\ pc \in {"zero", "fill"}
        /\ run'.todo = run.todo /\ UNCHANGED <<door, is, clean>>
    BY <1>2 DEF UfsUtpInit, UfsWriteRequest, hwVars, UnitInv, Addressed
  <2> QED
    BY <1>1, <2>1, SlotKept DEF SlotTaken, StatusRead, BeforeReset, SlotInv
<1>3. CASE UfsUtpSend
  BY <1>1, <1>3
  DEF UfsUtpSend, SlotInv, Slot, SlotTaken, StatusRead, BeforeReset, Ends
<1>4. CASE UfsUtpWaitResponse
  <2>1. pc = "poll" /\ UNCHANGED <<run, door, is, clean>>
    BY <1>4 DEF UfsUtpWaitResponse, hwVars
  <2>2. \/ pc' \in {"poll", "ackBad"}
        \/ pc' = "ackOk" /\ "UTRC" \in is /\ ~door
    BY <1>4 DEF UfsUtpWaitResponse, UfsHandleUtpInt, PollAgain
  <2>3. clean /\ "UTRC" \in is /\ ~door => run.todo = {}
    BY DEF SlotInv, Slot, Ends
  <2> QED BY <1>1, <2>1, <2>2, <2>3 DEF SlotInv, Slot, SlotTaken, StatusRead
<1>5. CASE UfsUtpResponse
  BY <1>1, <1>5 DEF UfsUtpResponse, SlotInv, Slot, SlotTaken
<1>6. CASE UfsUtpGiveUp
  BY <1>1, <1>6 DEF UfsUtpGiveUp, SlotInv
<1>7. CASE UicPoll
  <2>1. pc = "uicPoll" /\ UNCHANGED <<run, door, is, clean>>
    BY <1>7 DEF UicPoll, hwVars
  <2> QED
    BY <1>1, <2>1, SlotKept DEF SlotTaken, StatusRead, BeforeReset, SlotInv
<1>8. CASE UicResult
  BY <1>1, <1>8 DEF UicResult, SlotInv, Slot, SlotTaken
<1> QED BY <1>2, <1>3, <1>4, <1>5, <1>6, <1>7, <1>8 DEF Engine

-----------------------------------------------------------------------------
(* Up to the reset the driver sends nothing to the controller.             *)
LEMMA FirstSteps ==
  ASSUME SlotInv, BeforeReset PROVE Step \in {"HOST", "RESET"}
<1>1. at = 1 \/ at = 2 BY DEF SlotInv, BeforeReset
<1> QED BY <1>1 DEF Step, InitSequence

LEMMA InitSlot ==
  ASSUME UnitInv, SlotInv,
         UfsCalibrate \/ UfsReset \/ UfsEnable \/ UfsWaited \/ UfsUic
         \/ UfsInitQuery \/ UfsReadInitAgain \/ UfsInitReturn
  PROVE SlotInv'
<1>1. /\ UNCHANGED clean /\ at' \in Nat \ {0}
      /\ pc \in {"begin", "wait", "return"}
  BY DEF UfsCalibrate, UfsReset, UfsEnable, UfsWaited, UfsUic, UfsInitQuery,
         UfsReadInitAgain, UfsInitReturn, InInit, NextStep, SlotInv
<1>2. CASE UfsReset
  BY <1>1, <1>2 DEF UfsReset, NoRun, SlotInv, Slot
<1>3. CASE UfsCalibrate
  <2>1. UNCHANGED <<run, door, is>> BY <1>3 DEF UfsCalibrate, hwVars
  <2>2. ASSUME BeforeReset PROVE BeforeReset' \/ pc' = "failed"
    <3>1. Step = "HOST"
      BY <1>3, <2>2, FirstSteps DEF UfsCalibrate, CalSteps
    <3>2. at = 1
      BY <2>2, <3>1 DEF SlotInv, BeforeReset, Step, InitSequence
    <3>3. ASSUME NextStep PROVE BeforeReset'
      BY <1>3, <2>2, <3>1, <3>2, <3>3
      DEF NextStep, Go, BeforeReset, InitSequence
    <3> QED BY <1>3, <3>3 DEF UfsCalibrate, Breaks, Go
  <2> QED BY <1>1, <2>1, <2>2, SlotKept DEF SlotTaken, StatusRead
<1>4. CASE UfsEnable \/ UfsWaited \/ UfsUic \/ UfsInitQuery
           \/ UfsReadInitAgain \/ UfsInitReturn
  <2>1. UNCHANGED <<run, door, is>>
    BY <1>4 DEF UfsEnable, UfsWaited, UfsUic, UfsInitQuery,
                UfsReadInitAgain, UfsInitReturn, hwVars
  <2>2. ~BeforeReset
    <3>1. pc = "begin" => Step \notin {"HOST", "RESET"}
      BY <1>4 DEF UfsEnable, UfsWaited, UfsUic, UfsInitQuery,
                  UfsReadInitAgain, UfsInitReturn, InInit, UicSteps,
                  QuerySteps, Queries
    <3> QED BY <3>1, FirstSteps DEF BeforeReset
  <2> QED BY <1>1, <2>1, <2>2, SlotKept DEF SlotTaken, StatusRead
<1> QED BY <1>2, <1>3, <1>4

(* The loop and the calls: each starts over with what it finds in the      *)
(* slot.                                                                   *)
LEMMA LaterSlot ==
  ASSUME SlotInv,
         UfsLunBegin \/ UfsLunUnit \/ UfsRequestSense \/ UfsLunSense
         \/ UfsReadCapacity \/ UfsLunInstall \/ UfsLunsDone
         \/ Calls \/ UfsChunk \/ UfsChunkReturn \/ UfsBlocksReturn
  PROVE SlotInv'
<1>1. UNCHANGED <<run, door, is, at>>
  BY DEF UfsLunBegin, UfsLunUnit, UfsRequestSense, UfsLunSense,
         UfsReadCapacity, UfsLunInstall, UfsLunsDone, Calls, UfsBlocks,
         UfsChunk, UfsChunkReturn, UfsBlocksReturn, hwVars, LunUnchanged,
         IoUnchanged
<1>2. CASE UfsLunBegin \/ Calls
  <2>1. clean' = SlotIsFree BY <1>2 DEF UfsLunBegin, Calls, UfsBlocks
  <2> QED BY <1>1, <2>1, FreeSlot DEF SlotInv
<1>3. CASE UfsLunUnit \/ UfsRequestSense \/ UfsLunSense \/ UfsReadCapacity
           \/ UfsLunInstall \/ UfsLunsDone
           \/ UfsChunk \/ UfsChunkReturn \/ UfsBlocksReturn
  <2>1. UNCHANGED clean
    BY <1>3 DEF UfsLunUnit, UfsRequestSense, UfsLunSense, UfsReadCapacity,
                UfsLunInstall, UfsLunsDone, UfsChunk, UfsChunkReturn,
                UfsBlocksReturn, IoUnchanged
  <2>2. stage = "luns" \/ pc # "begin"
    BY <1>3 DEF UfsLunUnit, UfsRequestSense, UfsLunSense, UfsReadCapacity,
                UfsLunInstall, UfsLunsDone, InLuns, UfsChunk,
                UfsChunkReturn, UfsBlocksReturn
  <2>3. pc \in {"begin", "return", "sense", "capacity", "chunk"}
    BY <1>3 DEF UfsLunUnit, UfsRequestSense, UfsLunSense, UfsReadCapacity,
                UfsLunInstall, UfsLunsDone, InLuns, UfsChunk,
                UfsChunkReturn, UfsBlocksReturn
  <2> QED
    BY <1>1, <2>1, <2>2, <2>3, SlotKept
    DEF SlotInv, SlotTaken, StatusRead, BeforeReset
<1> QED BY <1>2, <1>3

LEMMA SlotStep == UnitInv /\ SlotInv /\ [Next]_vars => SlotInv'
<1> SUFFICES ASSUME UnitInv, SlotInv, [Next]_vars PROVE SlotInv'
  OBVIOUS
<1>1. CASE Engine /\ UNCHANGED drvVars BY <1>1, SlotEngine
<1>2. CASE Controller /\ UNCHANGED drvVars BY <1>2, SlotController
<1>3. CASE HwReady \/ UNCHANGED vars
  <2>1. UNCHANGED <<run, door, is, clean, pc, at, stage>>
    BY <1>3 DEF HwReady, InitUnchanged, vars, tVars, hwVars, engVars,
                drvVars
  <2> QED
    BY <2>1 DEF SlotInv, Slot, SlotTaken, StatusRead, BeforeReset
<1> QED BY <1>1, <1>2, <1>3, InitSlot, LaterSlot DEF Next, Driver

(* When the driver rings the doorbell the controller has let go of the one *)
(* slot, in whichever order the doorbell bit and the interrupt status      *)
(* reported the end of the request before, as long as none has been given  *)
(* up since the slot was seen free (UfsDxe.c:129-141, UfsHandleUtpInt, and *)
(* 361-386, UfsUtpWaitResponse).                                           *)
THEOREM SlotIsTheDrivers == Spec => []SlotFree
<1>1. Init => UnitInv /\ SlotInv BY UnitInit, SlotInit
<1>2. UnitInv /\ SlotInv /\ [Next]_vars => (UnitInv /\ SlotInv)'
  BY UnitStep, SlotStep
<1>3. SlotInv => SlotFree BY DEF SlotInv, Slot, SlotFree, SlotTaken
<1> QED BY <1>1, <1>2, <1>3, PTL DEF Spec

-----------------------------------------------------------------------------
(* Where the driver is, and the request it has made there.                 *)
Requesting == {"zero", "fill", "ring", "poll", "ackOk", "ackBad"}
Linking    == {"uicPoll", "uicOk", "uicBad"}
Waiting    == {"poll", "ackOk", "ackBad"}

InitPlaces ==
  stage = "init" =>
    /\ pc \in {"begin", "wait", "return", "failed"} \cup Requesting
              \cup Linking
    /\ pc \in Requesting => Step \in QuerySteps
    /\ pc \in Linking => Step \in UicSteps /\ uic.cmd = Step
    /\ pc = "wait" => Step \in {"RESET", "ENABLE"}
    /\ pc = "return" => Step \in QuerySteps \cup UicSteps
    /\ pc \in Requesting \cup {"return"} /\ Step \in QuerySteps
         => req = Request(Step, 0)
LunPlaces ==
  stage = "luns" =>
    /\ pc \in {"begin", "sense", "capacity", "return", "failed"}
              \cup Requesting
    /\ pc \in Requesting \cup {"return"} =>
         \E kind \in {"UNIT", "SENSE", "CAPACITY"} : req = Request(kind, lun)
IoPlaces ==
  stage = "io" =>
    /\ pc \in {"ready", "chunk", "return"} \cup Requesting
    /\ pc \in Requesting \cup {"return"} =>
         /\ done < call.n
         /\ tries = 1
         /\ req = [kind |-> call.op, lun |-> call.lun,
                   lba |-> call.lba + done, n |-> ChunkBlks, off |-> done,
                   tag |-> call.tag]
Places ==
  /\ stage \in {"init", "luns", "io"}
  /\ at \in 1 .. Len(InitSequence)
  /\ fault \in Nat
  /\ uic = [cmd |-> uic.cmd, busy |-> uic.busy, failed |-> uic.failed]
  /\ InitPlaces /\ LunPlaces /\ IoPlaces

LEMMA StepFacts ==
  /\ Len(InitSequence) = 34
  /\ \A i \in 1 .. 34 :
       /\ InitSequence[i] = "HOST" <=> i = 1
       /\ InitSequence[i] = "RESET" <=> i = 2
       /\ InitSequence[i] = "ENABLE" <=> i = 3
       /\ InitSequence[i] = "SETINIT" <=> i = 12
       /\ InitSequence[i] = "READINIT" <=> i = 13
       /\ InitSequence[i] \in {"CONNTX", "CONNRX", "SETTX", "SETRX",
                               "READCLK", "WRITECLK", "DEVICE"}
            <=> i \in 14 .. 20
       /\ InitSequence[i] = "READCLK" <=> i = 18
       /\ InitSequence[i] = "BOOTLUN" <=> i = 34
<1>1. Len(InitSequence) = 34 BY DEF InitSequence
<1>2. ASSUME NEW i \in 1 .. 34
      PROVE \/ i = 1 \/ i = 2 \/ i = 3 \/ i = 4 \/ i = 5 \/ i = 6 \/ i = 7
            \/ i = 8 \/ i = 9 \/ i = 10 \/ i = 11 \/ i = 12 \/ i = 13
            \/ i = 14 \/ i = 15 \/ i = 16 \/ i = 17 \/ i = 18 \/ i = 19
            \/ i = 20 \/ i = 21 \/ i = 22 \/ i = 23 \/ i = 24 \/ i = 25
            \/ i = 26 \/ i = 27 \/ i = 28 \/ i = 29 \/ i = 30 \/ i = 31
            \/ i = 32 \/ i = 33 \/ i = 34
  OBVIOUS
<1> QED BY <1>1, <1>2, SMTT(60) DEF InitSequence

LEMMA PlacesInit == Init => Places
BY StepFacts DEF Init, Places, InitPlaces, LunPlaces, IoPlaces, NoUic,
  Requesting, Linking

-----------------------------------------------------------------------------
LEMMA EngineMoves ==
  ASSUME Engine
  PROVE /\ UNCHANGED <<req, uic, pwr, dev, page, buf>>
        /\ \/ pc \in Requesting /\ pc' \in Requesting \cup {"return"}
           \/ pc \in Linking /\ pc' \in Linking \cup {"return"}
        /\ tries = 1 => tries' = 1
        /\ fault' = fault \/ fault' = 1
<1> USE DEF hwVars, Requesting, Linking
<1>1. CASE UfsUtpInit BY <1>1 DEF UfsUtpInit
<1>2. CASE UfsWriteRequest BY <1>2 DEF UfsWriteRequest
<1>3. CASE UfsUtpSend BY <1>3 DEF UfsUtpSend
<1>4. CASE UfsUtpWaitResponse BY <1>4 DEF UfsUtpWaitResponse, PollAgain
<1>5. CASE UfsUtpResponse BY <1>5 DEF UfsUtpResponse, Attempt
<1>6. CASE UfsUtpGiveUp BY <1>6 DEF UfsUtpGiveUp, Attempt, GivenUp
<1>7. CASE UicPoll BY <1>7 DEF UicPoll
<1>8. CASE UicResult BY <1>8 DEF UicResult, GivenUp
<1> QED BY <1>1, <1>2, <1>3, <1>4, <1>5, <1>6, <1>7, <1>8 DEF Engine

LEMMA FaultyCounts == ASSUME fault \in Nat, Faulty PROVE fault' = fault + 1
BY DEF Faulty

LEMMA ControllerMoves ==
  ASSUME Controller, Places
  PROVE /\ UNCHANGED <<pc, req, poll, tries, ok, got, clean, excused>>
        /\ fault' = fault \/ fault' = fault + 1
        /\ uic' = [cmd |-> uic.cmd, busy |-> uic'.busy,
                   failed |-> uic'.failed]
<1> USE DEF Places, Faulty, engVars
<1>1. CASE HwFetch BY <1>1 DEF HwFetch
<1>2. CASE HwFatal BY <1>2 DEF HwFatal
<1>3. CASE HwDeviceInit BY <1>3 DEF HwDeviceInit
<1>4. CASE HwUicError BY <1>4 DEF HwUicError
<1>5. ASSUME NEW result \in {"good", "check", "refused", "error", "silent"},
             HwExecute(result)
      PROVE /\ UNCHANGED <<pc, req, poll, tries, ok, got, clean, excused>>
            /\ fault' = fault \/ fault' = fault + 1
            /\ UNCHANGED uic
  BY <1>5 DEF HwExecute
<1>6. ASSUME NEW what \in Ends, HwEnd(what)
      PROVE UNCHANGED <<pc, req, poll, tries, ok, got, clean, excused, fault,
                        uic>>
  BY <1>6 DEF HwEnd
<1>7. ASSUME NEW failed \in BOOLEAN, HwUicEnd(failed)
      PROVE /\ UNCHANGED <<pc, req, poll, tries, ok, got, clean, excused>>
            /\ fault' = fault \/ fault' = fault + 1
            /\ uic' = [cmd |-> uic.cmd, busy |-> FALSE, failed |-> failed]
  BY <1>7 DEF HwUicEnd
<1>8. ASSUME NEW result \in {"local", "failed"}, HwPowerMode(result)
      PROVE /\ UNCHANGED <<pc, req, poll, tries, ok, got, clean, excused>>
            /\ fault' = fault \/ fault' = fault + 1
            /\ UNCHANGED uic
  BY <1>8 DEF HwPowerMode
<1> QED BY <1>1, <1>2, <1>3, <1>4, <1>5, <1>6, <1>7, <1>8 DEF Controller

LEMMA PlacesEngine ==
  ASSUME Places, Engine, UNCHANGED drvVars PROVE Places'
<1>1. UNCHANGED <<req, uic, stage, at, lun, call, done>>
  BY EngineMoves DEF drvVars
<1>2. Step' = Step /\ ChunkBlks' = ChunkBlks
  BY <1>1 DEF Step, ChunkBlks
<1>3. fault' \in Nat BY EngineMoves DEF Places
<1>4. \/ pc \in Requesting /\ pc' \in Requesting \cup {"return"}
      \/ pc \in Linking /\ pc' \in Linking \cup {"return"}
  BY EngineMoves
<1>5. tries = 1 => tries' = 1 BY EngineMoves
<1>6. InitPlaces'
  <2>1. \A s \in UicSteps : s \notin QuerySteps
    BY DEF UicSteps, QuerySteps, Queries
  <2> QED
    BY <1>1, <1>2, <1>4, <2>1
    DEF Places, InitPlaces, Requesting, Linking
<1>7. LunPlaces'
  BY <1>1, <1>4 DEF Places, LunPlaces, Requesting, Linking
<1>8. IoPlaces'
  BY <1>1, <1>2, <1>4, <1>5 DEF Places, IoPlaces, Requesting, Linking
<1> QED BY <1>1, <1>3, <1>6, <1>7, <1>8 DEF Places

LEMMA PlacesController ==
  ASSUME Places, Controller, UNCHANGED drvVars PROVE Places'
<1>1. UNCHANGED <<pc, req, tries, stage, at, lun, call, done>>
  BY ControllerMoves DEF drvVars
<1>2. Step' = Step /\ ChunkBlks' = ChunkBlks
  BY <1>1 DEF Step, ChunkBlks
<1>3. fault' \in Nat BY ControllerMoves DEF Places
<1>4. /\ uic'.cmd = uic.cmd
      /\ uic' = [cmd |-> uic'.cmd, busy |-> uic'.busy,
                 failed |-> uic'.failed]
  BY ControllerMoves
<1>5. InitPlaces' BY <1>1, <1>2, <1>4 DEF Places, InitPlaces
<1>6. LunPlaces' BY <1>1 DEF Places, LunPlaces
<1>7. IoPlaces' BY <1>1, <1>2 DEF Places, IoPlaces
<1> QED BY <1>1, <1>3, <1>4, <1>5, <1>6, <1>7 DEF Places

-----------------------------------------------------------------------------
(* What a step of bring-up does to the driver's place.                     *)
LEMMA NextPlace ==
  ASSUME Places, stage = "init", NextStep
  PROVE /\ pc' = "begin" /\ UNCHANGED <<req, poll, tries, ok, got>>
        /\ \/ stage' = "luns" /\ at' = at
           \/ stage' = "init" /\ at' \in 1 .. 34 /\ at' = at + 1
           \/ stage' = "init" /\ at = 18 /\ at' = 20
<1>1. at \in 1 .. 34 /\ Len(InitSequence) = 34
  BY StepFacts DEF Places
<1>2. Step = "READCLK" => at = 18 BY <1>1, StepFacts DEF Step
<1>3. /\ Go("begin")
      /\ \/ at = 34 /\ stage' = "luns" /\ at' = at
         \/ at # 34 /\ stage' = stage /\ at' = at + 1
         \/ stage' = stage /\ at = 18 /\ at' = 20
  BY <1>1, <1>2 DEF NextStep
<1> QED BY <1>1, <1>3 DEF Go

LEMMA PlacesBring ==
  ASSUME Places,
         UfsCalibrate \/ UfsReset \/ UfsEnable \/ UfsWaited \/ UfsUic
         \/ UfsInitQuery \/ UfsReadInitAgain \/ UfsInitReturn
  PROVE Places'
<1>1. /\ stage = "init" /\ UNCHANGED lun
      /\ at \in 1 .. Len(InitSequence)
      /\ uic = [cmd |-> uic.cmd, busy |-> uic.busy, failed |-> uic.failed]
  BY DEF UfsCalibrate, UfsReset, UfsEnable, UfsWaited, UfsUic, UfsInitQuery,
         UfsReadInitAgain, UfsInitReturn, InInit, InitUnchanged, Places
<1>2. fault' \in Nat
  BY DEF UfsCalibrate, UfsReset, UfsEnable, UfsWaited, UfsUic, UfsInitQuery,
         UfsReadInitAgain, UfsInitReturn, Breaks, Faulty, GivenUp, Places
<1>3. uic' = [cmd |-> uic'.cmd, busy |-> uic'.busy, failed |-> uic'.failed]
  BY <1>1
  DEF UfsCalibrate, UfsReset, UfsEnable, UfsWaited, UfsUic, UfsInitQuery,
      UfsReadInitAgain, UfsInitReturn, UfsSendUicCmd, NoUic, hwVars
<1>4. ASSUME NextStep PROVE Places'
  <2>1. /\ pc' = "begin" /\ at' \in 1 .. Len(InitSequence)
        /\ stage' \in {"init", "luns"}
    BY <1>1, <1>4, NextPlace, StepFacts
  <2> QED
    BY <1>2, <1>3, <2>1
    DEF Places, InitPlaces, LunPlaces, IoPlaces, Requesting, Linking
<1>5. ASSUME UNCHANGED <<stage, at>>, pc' \in {"begin", "failed"}
      PROVE Places'
  BY <1>1, <1>2, <1>3, <1>5
  DEF Places, InitPlaces, LunPlaces, IoPlaces, Requesting, Linking
<1>6. CASE UfsCalibrate
  BY <1>4, <1>5, <1>6 DEF UfsCalibrate, Breaks, Go
<1>7. CASE UfsReset \/ UfsEnable
  <2>1. UNCHANGED <<stage, at>> /\ pc' = "wait"
        /\ Step \in {"RESET", "ENABLE"}
    BY <1>7 DEF UfsReset, UfsEnable, Go
  <2>2. Step' = Step BY <2>1 DEF Step
  <2> QED
    BY <1>1, <1>2, <1>3, <2>1, <2>2
    DEF Places, InitPlaces, LunPlaces, IoPlaces, Requesting, Linking
<1>8. CASE UfsWaited BY <1>4, <1>8 DEF UfsWaited
<1>9. CASE UfsUic
  <2>1. UNCHANGED <<stage, at>> /\ pc' = "uicPoll" /\ Step \in UicSteps
        /\ uic'.cmd = Step
    BY <1>9 DEF UfsUic, UfsSendUicCmd
  <2>2. Step' = Step BY <2>1 DEF Step
  <2> QED
    BY <1>1, <1>2, <1>3, <2>1, <2>2
    DEF Places, InitPlaces, LunPlaces, IoPlaces, Requesting, Linking
<1>10. CASE UfsInitQuery
  <2>1. UNCHANGED <<stage, at>> /\ pc' = "zero" /\ Step \in QuerySteps
        /\ req' = Request(Step, 0)
    BY <1>10 DEF UfsInitQuery, Start
  <2>2. Step' = Step BY <2>1 DEF Step
  <2> QED
    BY <1>1, <1>2, <1>3, <2>1, <2>2
    DEF Places, InitPlaces, LunPlaces, IoPlaces, Requesting, Linking
<1>11. CASE UfsReadInitAgain BY <1>5, <1>11 DEF UfsReadInitAgain, Go
<1>12. CASE UfsInitReturn BY <1>4, <1>5, <1>12 DEF UfsInitReturn, Go
<1> QED BY <1>6, <1>7, <1>8, <1>9, <1>10, <1>11, <1>12

LEMMA PlacesLoop ==
  ASSUME Places,
         UfsLunBegin \/ UfsLunUnit \/ UfsRequestSense \/ UfsLunSense
         \/ UfsReadCapacity \/ UfsLunInstall \/ UfsLunsDone
  PROVE Places'
<1>1. /\ stage = "luns" /\ UNCHANGED <<at, uic>>
  BY DEF UfsLunBegin, UfsLunUnit, UfsRequestSense, UfsLunSense,
         UfsReadCapacity, UfsLunInstall, UfsLunsDone, InLuns, LunUnchanged,
         hwVars
<1>2. fault' \in Nat
  BY DEF UfsLunBegin, UfsLunUnit, UfsRequestSense, UfsLunSense,
         UfsReadCapacity, UfsLunInstall, UfsLunsDone, Breaks, Faulty, Places
<1>3. \/ UNCHANGED <<stage, lun>>
         /\ pc' \in {"begin", "sense", "capacity", "failed"}
      \/ UNCHANGED stage /\ pc' = "begin"
      \/ UNCHANGED <<stage, lun>> /\ pc' = "zero"
         /\ \E kind \in {"UNIT", "SENSE", "CAPACITY"} :
              req' = Request(kind, lun)
      \/ stage' = "io" /\ pc' = "ready"
  BY DEF UfsLunBegin, UfsLunUnit, UfsRequestSense, UfsLunSense,
         UfsReadCapacity, UfsLunInstall, UfsLunsDone, Breaks, Go, Start,
         NextLun
<1>4. LunPlaces' BY <1>1, <1>3 DEF LunPlaces, Requesting
<1>5. InitPlaces' /\ IoPlaces'
  BY <1>1, <1>3 DEF InitPlaces, IoPlaces, Requesting
<1> QED BY <1>1, <1>2, <1>3, <1>4, <1>5 DEF Places

LEMMA PlacesIo ==
  ASSUME Places, Calls \/ UfsChunk \/ UfsChunkReturn \/ UfsBlocksReturn
  PROVE Places'
<1>1. stage = "io" /\ UNCHANGED <<stage, at, uic, fault>>
  BY DEF Calls, UfsBlocks, UfsChunk, UfsChunkReturn, UfsBlocksReturn,
         IoUnchanged, hwVars, Places, InitPlaces, LunPlaces, Requesting,
         Linking
<1>2. ASSUME pc' \in {"ready", "chunk"} PROVE Places'
  BY <1>1, <1>2 DEF Places, InitPlaces, LunPlaces, IoPlaces, Requesting
<1>3. CASE Calls \/ UfsChunkReturn \/ UfsBlocksReturn
  BY <1>2, <1>3 DEF Calls, UfsBlocks, UfsChunkReturn, UfsBlocksReturn, Go
<1>4. CASE UfsChunk
  <2>1. /\ pc' = "zero" /\ tries' = 1 /\ UNCHANGED <<call, done>>
        /\ done < call.n
        /\ req' = [kind |-> call.op, lun |-> call.lun,
                   lba |-> call.lba + done, n |-> ChunkBlks, off |-> done,
                   tag |-> call.tag]
    BY <1>4 DEF UfsChunk, Start, ChunkLba
  <2>2. ChunkBlks' = ChunkBlks BY <2>1 DEF ChunkBlks
  <2> QED
    BY <1>1, <2>1, <2>2 DEF Places, InitPlaces, LunPlaces, IoPlaces,
                            Requesting
<1> QED BY <1>3, <1>4

LEMMA PlacesStep == Places /\ [Next]_vars => Places'
<1> SUFFICES ASSUME Places, [Next]_vars PROVE Places'
  OBVIOUS
<1>1. CASE Engine /\ UNCHANGED drvVars BY <1>1, PlacesEngine
<1>2. CASE Controller /\ UNCHANGED drvVars BY <1>2, PlacesController
<1>3. CASE HwReady \/ UNCHANGED vars
  <2>1. UNCHANGED <<stage, at, lun, pc, req, tries, uic, fault, call, done>>
    BY <1>3 DEF HwReady, InitUnchanged, vars, tVars, hwVars, engVars,
                drvVars
  <2>2. Step' = Step /\ ChunkBlks' = ChunkBlks
    BY <2>1 DEF Step, ChunkBlks
  <2> QED BY <2>1, <2>2 DEF Places, InitPlaces, LunPlaces, IoPlaces
<1> QED
  BY <1>1, <1>2, <1>3, PlacesBring, PlacesLoop, PlacesIo DEF Next, Driver

-----------------------------------------------------------------------------
(* The request in memory is the driver's from when it is written until the *)
(* controller carries it out.  Then, a NOP apart, either its result is     *)
(* good, or it cannot be taken for one that is.                            *)
Written ==
  /\ mem.req = req /\ (mem.ocs <=> req.kind = "NOP")
  /\ ~mem.response /\ ~mem.check /\ mem.answer = NoAnswer
Pending == (door /\ run.todo = {}) \/ "exec" \in run.todo
Good    == mem.ocs /\ ~mem.response /\ ~mem.check
Wait ==
  /\ pc = "fill" => mem = Fresh /\ req.kind # "NOP"
  /\ pc = "ring" => Written
  /\ pc \in Waiting =>
       /\ Pending => Written
       /\ "exec" \in run.todo => run.req = req /\ run.own
       /\ ~Pending /\ mem.check => IsScsi(req)
WaitInv == clean => Wait
Base == UnitInv /\ SlotInv /\ Places /\ WaitInv

LEMMA NopIsNop ==
  ASSUME UnitInv, Places, pc \in Requesting, req.kind = "NOP"
  PROVE req = Nop
<1>1. CASE stage = "init"
  <2>1. req = Request(Step, 0)
    BY <1>1 DEF Places, InitPlaces, Requesting
  <2> QED BY <2>1, RequestFacts DEF Nop
<1>2. CASE stage = "luns"
  BY <1>2, RequestFacts DEF Places, LunPlaces, Requesting
<1>3. CASE stage = "io"
  <2>1. req.kind = call.op BY <1>3 DEF Places, IoPlaces, Requesting
  <2> QED BY <2>1 DEF UnitInv, Addressed
<1> QED BY <1>1, <1>2, <1>3 DEF Places

(* The controller carries a request out only while the driver waits, and   *)
(* the one it waits for.                                                   *)
LEMMA Outcome ==
  ASSUME Base, clean, Controller, NEW result, HwExecute(result),
         result \in {"good", "check", "refused", "error", "silent"}
  PROVE /\ pc \in Waiting /\ Pending /\ ~Pending' /\ Written
        /\ run.req = req /\ run.own
        /\ Good' <=> result = "good"
        /\ mem'.check => IsScsi(req)
        /\ result = "silent" => ~mem'.response
        /\ mem'.answer = IF result = "good" THEN Answer(req) ELSE NoAnswer
<1>1. Slot /\ Wait BY DEF Base, SlotInv, WaitInv
<1>2. "exec" \in run.todo /\ run' = [run EXCEPT !.todo = @ \ {"exec"}]
      /\ UNCHANGED door
  BY DEF HwExecute
<1>3. SlotTaken BY <1>1, <1>2 DEF Slot
<1>4. pc \in Waiting /\ Pending /\ Written /\ run.req = req /\ run.own
  BY <1>1, <1>2, <1>3 DEF SlotTaken, Waiting, Pending, Wait
<1>5. ~Pending'
  <2>1. run'.todo = run.todo \ {"exec"}
    BY <1>2 DEF Base, UnitInv, Addressed
  <2> QED BY <1>1, <1>2, <2>1 DEF Slot, Ends, Pending
<1>6. mem = [req |-> mem.req, ocs |-> mem.ocs, response |-> mem.response,
             check |-> mem.check, answer |-> mem.answer]
  BY DEF Base, UnitInv, Addressed
<1>7. mem' = [mem EXCEPT
               !.ocs = result \in {"good", "check", "refused"},
               !.response = CASE result = "silent" -> @
                              [] OTHER -> result \in {"refused", "error"},
               !.check = IF result = "silent" THEN @ ELSE result = "check",
               !.answer = IF result = "good" THEN Answer(run.req) ELSE @]
  BY DEF HwExecute
<1>8. /\ mem'.ocs = (result \in {"good", "check", "refused"})
      /\ mem'.response = IF result = "silent" THEN mem.response
                         ELSE result \in {"refused", "error"}
      /\ mem'.check = IF result = "silent" THEN mem.check
                      ELSE result = "check"
      /\ mem'.answer = IF result = "good" THEN Answer(run.req)
                       ELSE mem.answer
  BY <1>6, <1>7
<1>9. result = "check" => IsScsi(run.req) BY DEF HwExecute
<1> QED BY <1>4, <1>5, <1>8, <1>9 DEF Written, Good

(* Its other steps leave memory alone, and do not change how far it is.    *)
Quiet ==
  HwFetch \/ HwFatal \/ HwDeviceInit \/ HwUicError
  \/ (\E what \in Ends : HwEnd(what))
  \/ (\E failed \in BOOLEAN : HwUicEnd(failed))
  \/ (\E result \in {"local", "failed"} : HwPowerMode(result))
LEMMA QuietSteps ==
  ASSUME Base, clean, Quiet
  PROVE /\ UNCHANGED <<mem, page, buf, pc, req, clean>>
        /\ Pending' <=> Pending
        /\ "exec" \in run'.todo => /\ pc \in Waiting
                                   /\ run'.req = req /\ run'.own
        /\ dev' = dev \/ dev' = [dev EXCEPT !.init = "done"]
<1>1. Slot /\ Wait BY DEF Base, SlotInv, WaitInv
<1>0. "exec" \in run.todo => /\ pc \in Waiting
                             /\ run.req = req /\ run.own
  BY <1>1 DEF Slot, Wait, SlotTaken, Waiting
<1>2. CASE HwFetch
  <2>1. pc \in Waiting /\ Pending
    BY <1>1, <1>2 DEF HwFetch, Slot, SlotTaken, Waiting, Pending
  <2>2. mem.req = req BY <1>1, <2>1 DEF Wait, Written
  <2>3. /\ run'.todo = {"exec"} \cup Ends /\ run'.req = req /\ run'.own
        /\ UNCHANGED <<mem, page, buf, pc, req, clean, dev>>
    BY <1>2, <2>2 DEF HwFetch, engVars
  <2> QED BY <2>1, <2>3 DEF Pending
<1>3. CASE HwFatal \/ HwDeviceInit \/ HwUicError
           \/ (\E failed \in BOOLEAN : HwUicEnd(failed))
           \/ (\E result \in {"local", "failed"} : HwPowerMode(result))
  <2>1. /\ UNCHANGED <<mem, page, buf, pc, req, clean, run, door>>
        /\ dev' = dev \/ dev' = [dev EXCEPT !.init = "done"]
    BY <1>3 DEF HwFatal, HwDeviceInit, HwUicError, HwUicEnd, HwPowerMode,
                engVars
  <2> QED BY <1>0, <2>1 DEF Pending
<1>4. ASSUME NEW what \in Ends, HwEnd(what)
      PROVE /\ UNCHANGED <<mem, page, buf, pc, req, clean, dev>>
            /\ ~Pending /\ ~Pending' /\ "exec" \notin run'.todo
  <2>1. /\ what \in run.todo /\ "exec" \notin run.todo
        /\ run'.todo = run.todo \ {what}
    BY <1>4 DEF HwEnd, NoRun, Base, UnitInv, Addressed
  <2>2. /\ UNCHANGED <<mem, page, buf, pc, req, clean, dev>>
        /\ door' = IF what = "door" THEN FALSE ELSE door
    BY <1>4 DEF HwEnd, engVars
  <2> QED BY <1>1, <2>1, <2>2 DEF Slot, Ends, Pending
<1> QED BY <1>2, <1>3, <1>4 DEF Quiet

LEMMA ControllerSplit ==
  ASSUME Controller
  PROVE \/ Quiet
        \/ \E result \in {"good", "check", "refused", "error", "silent"} :
             HwExecute(result)
BY DEF Controller, Quiet

LEMMA WaitController ==
  ASSUME Base, Controller, UNCHANGED drvVars PROVE WaitInv'
<1>1. clean' = clean /\ UNCHANGED <<pc, req>>
  BY ControllerMoves DEF Base
<1>2. SUFFICES ASSUME clean PROVE Wait'
  BY <1>1 DEF WaitInv
<1>3. Slot /\ Wait BY <1>2 DEF Base, SlotInv, WaitInv
<1>4. CASE Quiet
  <2>1. /\ UNCHANGED <<mem, pc, req>> /\ (Pending' <=> Pending)
        /\ "exec" \in run'.todo => run'.req = req /\ run'.own
    BY <1>2, <1>4, QuietSteps
  <2>2. Written' <=> Written BY <2>1 DEF Written
  <2> QED BY <1>3, <2>1, <2>2 DEF Wait, IsScsi
<1>5. ASSUME NEW result \in {"good", "check", "refused", "error", "silent"},
             HwExecute(result)
      PROVE Wait'
  <2>1. /\ pc \in Waiting /\ ~Pending'
        /\ mem'.check => IsScsi(req)
    BY <1>2, <1>5, Outcome
  <2>2. "exec" \notin run'.todo BY <2>1 DEF Pending
  <2> QED BY <1>1, <2>1, <2>2 DEF Wait, IsScsi, Waiting
<1> QED BY <1>4, <1>5, ControllerSplit

LEMMA WaitEngine ==
  ASSUME Base, Engine, UNCHANGED drvVars PROVE WaitInv'
<1>1. UNCHANGED req BY EngineMoves
<1>2. ASSUME pc' \notin {"fill", "ring"} \cup Waiting PROVE WaitInv'
  BY <1>2 DEF WaitInv, Wait
<1>3. CASE UfsUtpInit
  <2>1. /\ pc = "zero" /\ mem' = Fresh
        /\ pc' = IF req.kind = "NOP" THEN "ring" ELSE "fill"
    BY <1>3 DEF UfsUtpInit
  <2>2. req.kind = "NOP" => req = Nop
    BY <2>1, NopIsNop DEF Base, Requesting
  <2> QED
    BY <1>1, <2>1, <2>2 DEF WaitInv, Wait, Written, Fresh, Waiting
<1>4. CASE UfsWriteRequest
  <2>1. /\ pc = "fill" /\ pc' = "ring" /\ UNCHANGED clean
        /\ mem' = [mem EXCEPT !.req = req, !.ocs = FALSE]
    BY <1>4 DEF UfsWriteRequest
  <2>2. clean => mem = Fresh /\ req.kind # "NOP"
    BY <2>1 DEF Base, WaitInv, Wait
  <2>3. mem = Fresh => /\ mem'.req = req /\ mem'.ocs = FALSE
                       /\ ~mem'.response /\ ~mem'.check
                       /\ mem'.answer = NoAnswer
    BY <2>1 DEF Fresh
  <2> QED
    BY <1>1, <2>1, <2>2, <2>3 DEF WaitInv, Wait, Written, Waiting
<1>5. CASE UfsUtpSend
  <2>1. /\ pc = "ring" /\ pc' = "poll" /\ UNCHANGED <<clean, mem, run>>
    BY <1>5 DEF UfsUtpSend
  <2>2. clean => Written /\ run.todo = {}
    BY <2>1 DEF Base, WaitInv, Wait, SlotInv, Slot, SlotTaken
  <2>3. Written' <=> Written BY <1>1, <2>1 DEF Written
  <2>4. clean => Pending' BY <1>5, <2>2 DEF UfsUtpSend, Pending
  <2> QED BY <2>1, <2>2, <2>3, <2>4 DEF WaitInv, Wait
<1>6. CASE UfsUtpWaitResponse
  <2>1. /\ pc = "poll" /\ pc' \in Waiting
        /\ UNCHANGED <<clean, mem, run, door>>
    BY <1>6 DEF UfsUtpWaitResponse, PollAgain, hwVars, Waiting
  <2>2. (Written' <=> Written) /\ (Pending' <=> Pending)
    BY <1>1, <2>1 DEF Written, Pending
  <2> QED BY <1>1, <2>1, <2>2 DEF Base, WaitInv, Wait, IsScsi, Waiting
<1>7. CASE UfsUtpResponse \/ UfsUtpGiveUp \/ UicPoll \/ UicResult
  <2>1. pc' \in {"zero", "return"} \cup Linking
    BY <1>7 DEF UfsUtpResponse, UfsUtpGiveUp, Attempt, UicPoll, UicResult,
                Linking
  <2> QED BY <1>2, <2>1 DEF Waiting, Linking
<1> QED BY <1>3, <1>4, <1>5, <1>6, <1>7 DEF Engine

(* The driver's own steps, between its requests. *)
Steps ==
  \/ UfsCalibrate \/ UfsReset \/ UfsEnable \/ UfsWaited \/ UfsUic
  \/ UfsInitQuery \/ UfsReadInitAgain \/ UfsInitReturn
  \/ UfsLunBegin \/ UfsLunUnit \/ UfsRequestSense \/ UfsLunSense
  \/ UfsReadCapacity \/ UfsLunInstall \/ UfsLunsDone
  \/ Calls \/ UfsChunk \/ UfsChunkReturn \/ UfsBlocksReturn
LEMMA Away ==
  ASSUME Steps
  PROVE pc' \notin {"fill", "ring", "return"} \cup Waiting
BY DEF Steps, UfsCalibrate, UfsReset, UfsEnable, UfsWaited, UfsUic,
       UfsSendUicCmd, UfsInitQuery, UfsReadInitAgain, UfsInitReturn,
       UfsLunBegin, UfsLunUnit, UfsRequestSense, UfsLunSense,
       UfsReadCapacity, UfsLunInstall, UfsLunsDone, Calls, UfsBlocks,
       UfsChunk, UfsChunkReturn, UfsBlocksReturn, NextStep, NextLun, Breaks,
       Go, Start, Waiting

LEMMA NextSplit ==
  ASSUME [Next]_vars
  PROVE \/ Engine /\ UNCHANGED drvVars
        \/ Controller /\ UNCHANGED drvVars
        \/ HwReady \/ UNCHANGED vars
        \/ Steps
BY DEF Next, Driver, Steps

LEMMA WaitStep == Base /\ [Next]_vars => WaitInv'
<1> SUFFICES ASSUME Base, [Next]_vars PROVE WaitInv'
  OBVIOUS
<1>1. CASE Engine /\ UNCHANGED drvVars BY <1>1, WaitEngine
<1>2. CASE Controller /\ UNCHANGED drvVars BY <1>2, WaitController
<1>3. CASE HwReady \/ UNCHANGED vars
  BY <1>3
  DEF HwReady, InitUnchanged, vars, tVars, hwVars, engVars, drvVars, Base,
      WaitInv, Wait, Written, Pending, IsScsi
<1>4. CASE Steps BY <1>4, Away DEF WaitInv, Wait
<1> QED BY <1>1, <1>2, <1>3, <1>4, NextSplit

LEMMA BaseInit == Init => Base
<1> SUFFICES ASSUME Init PROVE Base
  OBVIOUS
<1>1. WaitInv BY DEF Init, WaitInv, Wait, Waiting
<1> QED BY <1>1, UnitInit, SlotInit, PlacesInit DEF Base

LEMMA BaseStep == Base /\ [Next]_vars => Base'
BY UnitStep, SlotStep, PlacesStep, WaitStep DEF Base

-----------------------------------------------------------------------------
(* The device, and the steps around a wait.                                *)
Device ==
  /\ dev = [init |-> dev.init, clk |-> dev.clk, medium |-> dev.medium]
  /\ dev.medium = [l \in Luns |->
                     [b \in 0 .. Blocks - 1 |-> dev.medium[l][b]]]

LEMMA DeviceInit == Init => Device
BY DEF Init, Device, Medium

LEMMA AfterRequest ==
  ASSUME Device, NEW r, r.lun \in Luns
  PROVE LET after == DeviceAfter(r)
            moved == r.lba .. r.lba + r.n - 1
        IN /\ after = [init |-> after.init, clk |-> after.clk,
                       medium |-> after.medium]
           /\ after.init = IF r.kind = "SETINIT" THEN "running"
                           ELSE dev.init
           /\ after.medium = [l \in Luns |->
                [b \in 0 .. Blocks - 1 |-> after.medium[l][b]]]
           /\ \A l \in Luns, b \in 0 .. Blocks - 1 :
                after.medium[l][b] =
                  IF r.kind = "WRITE" /\ l = r.lun /\ b \in moved
                  THEN Content(r.tag, r.off + b - r.lba + 1)
                  ELSE dev.medium[l][b]
           /\ r.kind # "WRITE" => after.medium = dev.medium
<1> DEFINE after == DeviceAfter(r)
           moved == r.lba .. r.lba + r.n - 1
<1>1. CASE r.kind = "SETINIT"
  BY <1>1 DEF Device, DeviceAfter
<1>2. CASE r.kind = "WRITECLK"
  BY <1>2 DEF Device, DeviceAfter
<1>3. CASE r.kind = "WRITE"
  <2> DEFINE row == [b \in 0 .. Blocks - 1 |->
                       IF b \in moved
                       THEN Content(r.tag, r.off + b - r.lba + 1)
                       ELSE dev.medium[r.lun][b]]
  <2>1. DOMAIN (dev.medium[r.lun]) = 0 .. Blocks - 1 BY DEF Device
  <2>2. after = [dev EXCEPT !.medium[r.lun] = row]
    BY <1>3, <2>1 DEF DeviceAfter
  <2>3. /\ after.init = dev.init
        /\ after = [init |-> after.init, clk |-> after.clk,
                    medium |-> after.medium]
        /\ after.medium = [dev.medium EXCEPT ![r.lun] = row]
    BY <2>2 DEF Device
  <2>4. after.medium = [l \in Luns |->
          IF l = r.lun THEN row ELSE dev.medium[l]]
    BY <2>3 DEF Device
  <2>5. \A l \in Luns : dev.medium[l] = [b \in 0 .. Blocks - 1 |->
                                           dev.medium[l][b]]
    BY DEF Device
  <2>6. ASSUME NEW l \in Luns
        PROVE /\ after.medium[l] = [b \in 0 .. Blocks - 1 |->
                                      after.medium[l][b]]
              /\ \A b \in 0 .. Blocks - 1 :
                   after.medium[l][b] =
                     IF l = r.lun /\ b \in moved
                     THEN Content(r.tag, r.off + b - r.lba + 1)
                     ELSE dev.medium[l][b]
    <3>1. CASE l = r.lun
      <4>1. after.medium[l] = row BY <2>4, <3>1
      <4> QED BY <3>1, <4>1
    <3>2. CASE l # r.lun
      <4>1. after.medium[l] = dev.medium[l] BY <2>4, <3>2
      <4> HIDE DEF after
      <4> QED BY <2>5, <3>2, <4>1
    <3> QED BY <3>1, <3>2
  <2>7. after.medium = [l \in Luns |-> after.medium[l]] BY <2>4
  <2> HIDE DEF after, row
  <2>8. after.medium = [l \in Luns |-> [b \in 0 .. Blocks - 1 |->
                                         after.medium[l][b]]]
    BY <2>6, <2>7
  <2> QED BY <1>3, <2>3, <2>6, <2>8 DEF after
<1>4. CASE r.kind \notin {"SETINIT", "WRITECLK", "WRITE"}
  BY <1>4 DEF Device, DeviceAfter
<1> QED BY <1>1, <1>2, <1>3, <1>4

LEMMA DeviceSteps ==
  ASSUME UnitInv, Device, [Next]_vars
  PROVE \/ dev' = dev
        \/ dev' = [dev EXCEPT !.init = "done"]
        \/ dev' = [dev EXCEPT !.init = "no"]
        \/ dev' = DeviceAfter(run.req)
<1>1. CASE Controller /\ UNCHANGED drvVars
  BY <1>1 DEF Controller, HwFetch, HwFatal, HwDeviceInit, HwUicError,
              HwExecute, HwEnd, HwUicEnd, HwPowerMode
<1>2. CASE Engine /\ UNCHANGED drvVars BY <1>2, EngineMoves
<1>3. CASE HwReady \/ UNCHANGED vars
  BY <1>3 DEF HwReady, vars, tVars, hwVars
<1>4. CASE Steps
  BY <1>4
  DEF Steps, UfsCalibrate, UfsReset, UfsEnable, UfsWaited, UfsUic,
      UfsInitQuery, UfsReadInitAgain, UfsInitReturn, UfsLunBegin, UfsLunUnit,
      UfsRequestSense, UfsLunSense, UfsReadCapacity, UfsLunInstall,
      UfsLunsDone, Calls, UfsBlocks, UfsChunk, UfsChunkReturn,
      UfsBlocksReturn, hwVars
<1> QED BY <1>1, <1>2, <1>3, <1>4, NextSplit

LEMMA DeviceStep == UnitInv /\ Device /\ [Next]_vars => Device'
<1> SUFFICES ASSUME UnitInv, Device, [Next]_vars PROVE Device'
  OBVIOUS
<1>1. run.req.lun \in Luns BY DEF UnitInv, Addressed
<1>2. CASE dev' = DeviceAfter(run.req)
  <2>1. /\ dev' = [init |-> dev'.init, clk |-> dev'.clk,
                   medium |-> dev'.medium]
        /\ dev'.medium = [l \in Luns |->
             [b \in 0 .. Blocks - 1 |-> dev'.medium[l][b]]]
    BY <1>1, <1>2, AfterRequest
  <2> QED BY <2>1 DEF Device
<1>3. CASE \/ dev' = dev
           \/ dev' = [dev EXCEPT !.init = "done"]
           \/ dev' = [dev EXCEPT !.init = "no"]
  BY <1>3 DEF Device
<1> QED BY <1>2, <1>3, DeviceSteps

(* What the driver makes of the end of a request. *)
LEMMA Response ==
  ASSUME Base, clean, UfsUtpResponse
  PROVE /\ pc = "ackOk" /\ ~Pending
        /\ UNCHANGED <<mem, dev, page, buf, req, clean, uic, pwr, door,
                       run>>
        /\ is' = {}
        /\ ok' <=> UfsUtpCheckResult
        /\ IF ok' THEN pc' = "return" /\ UfsQueryGetData
           ELSE pc' \in {"zero", "return"} /\ UNCHANGED got
        /\ tries = 1 => pc' = "return"
        /\ ok' /\ ~excused' /\ req.kind # "NOP" => Good /\ ~excused
        /\ ~excused' => ~excused
<1>1. /\ pc = "ackOk" /\ is' = {} /\ (ok' = UfsUtpCheckResult)
      /\ UNCHANGED <<mem, dev, page, buf, req, clean, uic, pwr, door, run>>
      /\ IF UfsUtpCheckResult THEN pc' = "return" /\ UfsQueryGetData
         ELSE pc' \in {"zero", "return"} /\ UNCHANGED got
      /\ tries = 1 => pc' = "return"
      /\ excused' <=> \/ excused
                      \/ /\ UfsUtpCheckResult /\ req.kind # "NOP"
                         /\ ~mem.ocs \/ mem.response
  BY DEF UfsUtpResponse, Attempt
<1>2. Slot /\ Wait BY DEF Base, SlotInv, WaitInv
<1>3. ~door /\ run.todo = {} BY <1>1, <1>2 DEF Slot, SlotTaken
<1>4. ~Pending BY <1>3 DEF Pending
<1>5. mem.check => IsScsi(req) BY <1>1, <1>2, <1>4 DEF Wait, Waiting
<1>6. UfsUtpCheckResult /\ mem.ocs => ~mem.check
  BY <1>5 DEF UfsUtpCheckResult
<1> QED BY <1>1, <1>4, <1>6 DEF Good

(* The doorbell, and the wait: nothing has been carried out in between.    *)
LEMMA Rung ==
  ASSUME Base, clean, UfsUtpSend
  PROVE /\ pc = "ring" /\ pc' = "poll" /\ Pending'
        /\ UNCHANGED <<is, run, uic, pwr, dev, mem, page, buf, req, tries,
                       ok, got, clean, excused, fault>>
<1>1. pc = "ring" /\ pc' = "poll" /\ door' /\ UNCHANGED run
  BY DEF UfsUtpSend
<1>2. run.todo = {} BY <1>1 DEF Base, SlotInv, Slot, SlotTaken
<1> QED BY <1>1, <1>2 DEF UfsUtpSend, Pending

LEMMA Waited ==
  ASSUME UfsUtpWaitResponse
  PROVE /\ pc = "poll" /\ pc' \in Waiting
        /\ (Pending' <=> Pending) /\ (Good' <=> Good)
        /\ UNCHANGED <<hwVars, mem, page, buf, req, tries, ok, got, clean,
                       excused, fault>>
<1>1. /\ pc = "poll" /\ pc' \in Waiting
      /\ UNCHANGED <<hwVars, mem, page, buf, req, tries, ok, got, clean,
                       excused, fault>>
  BY DEF UfsUtpWaitResponse, PollAgain, Waiting
<1> QED BY <1>1 DEF Pending, Good, hwVars

-----------------------------------------------------------------------------
(* The device leaves its initialisation: SETINIT starts it, or it is over  *)
(* already, and READINIT tells when it is.                                 *)
Boot ==
  /\ at > 12 => dev.init \in {"running", "done"}
  /\ at > 13 => dev.init = "done"
  /\ pc \in Waiting /\ ~Pending /\ Good =>
       /\ at = 12 => dev.init \in {"running", "done"}
       /\ at = 13 => mem.answer.val \/ dev.init = "done"
  /\ pc = "return" /\ ok =>
       /\ at = 12 => dev.init \in {"running", "done"}
       /\ at = 13 => got.flag \/ dev.init = "done"
BootInv == stage = "init" /\ clean /\ ~excused => Boot

LEMMA AtFacts ==
  ASSUME Base
  PROVE /\ at \in 1 .. 34
        /\ Step = "RESET" <=> at = 2
        /\ Step = "ENABLE" <=> at = 3
        /\ Step = "SETINIT" <=> at = 12
        /\ Step = "READINIT" <=> at = 13
        /\ Step = "BOOTLUN" <=> at = 34
        /\ stage = "init" /\ PastBootMode => at > 13
BY StepFacts DEF Base, Places, Step, PastBootMode

LEMMA BootRequest ==
  ASSUME Base, stage = "init", pc \in Requesting
  PROVE req.kind = Step
<1>1. req = Request(Step, 0)
  BY DEF Base, Places, InitPlaces, Requesting
<1> QED BY <1>1, RequestFacts

LEMMA BootController ==
  ASSUME Base, Device, BootInv, Controller, UNCHANGED drvVars PROVE BootInv'
<1>1. /\ clean' = clean /\ excused' = excused
      /\ UNCHANGED <<pc, req, ok, got, stage, at>>
  BY ControllerMoves DEF Base, drvVars
<1>2. SUFFICES ASSUME stage = "init", clean, ~excused PROVE Boot'
  BY <1>1 DEF BootInv
<1>3. Boot /\ at \in 1 .. 34 BY <1>2, AtFacts DEF BootInv
<1>4. CASE Quiet
  <2>1. /\ UNCHANGED mem /\ (Pending' <=> Pending)
        /\ dev' = dev \/ dev' = [dev EXCEPT !.init = "done"]
    BY <1>2, <1>4, QuietSteps
  <2>2. dev'.init = dev.init \/ dev'.init = "done"
    BY <2>1 DEF Device
  <2>3. Good' <=> Good BY <2>1 DEF Good
  <2> QED BY <1>1, <1>3, <2>1, <2>2, <2>3 DEF Boot
<1>5. ASSUME NEW result \in {"good", "check", "refused", "error", "silent"},
             HwExecute(result)
      PROVE Boot'
  <2>1. /\ pc \in Waiting /\ run.req = req
        /\ Good' => result = "good"
        /\ mem'.answer = IF result = "good" THEN Answer(req) ELSE NoAnswer
    BY <1>2, <1>5, Outcome
  <2>2. req.kind = Step BY <1>2, <2>1, BootRequest DEF Waiting, Requesting
  <2>3. /\ result = "good" => dev' = DeviceAfter(req)
        /\ result # "good" => dev' = dev
    BY <1>5, <2>1 DEF HwExecute
  <2>4. dev'.init = IF result = "good" /\ req.kind = "SETINIT"
                    THEN "running" ELSE dev.init
    <3>1. req.lun \in Luns BY DEF Base, UnitInv, Addressed
    <3>2. DeviceAfter(req).init = IF req.kind = "SETINIT" THEN "running"
                                  ELSE dev.init
      BY <3>1, AfterRequest
    <3> QED BY <2>3, <3>2
  <2>5. at = 12 <=> req.kind = "SETINIT" BY <2>2, AtFacts
  <2>6. at = 13 /\ dev.init = "running" => Answer(req).val
    BY <2>2, AtFacts DEF Answer
  <2>7. Good' /\ at = 13 => mem'.answer.val \/ dev'.init = "done"
    <3>1. SUFFICES ASSUME Good', at = 13, dev.init = "running"
                   PROVE mem'.answer.val
      BY <1>3, <2>4, <2>5 DEF Boot
    <3>2. mem'.answer = Answer(req) BY <2>1, <3>1
    <3> QED BY <2>6, <3>1, <3>2
  <2>8. Good' /\ at = 12 => dev'.init = "running"
    BY <2>1, <2>4, <2>5
  <2>9. pc' # "return" BY <1>1, <2>1 DEF Waiting
  <2>10. at > 12 => dev'.init = dev.init BY <1>3, <2>4, <2>5
  <2> QED BY <1>1, <1>3, <2>7, <2>8, <2>9, <2>10 DEF Boot
<1> QED BY <1>4, <1>5, ControllerSplit

LEMMA History ==
  ASSUME Engine
  PROVE /\ clean' => clean
        /\ ~excused' => ~excused
<1>1. CASE UfsUtpResponse
  <2>1. clean' = clean BY <1>1 DEF UfsUtpResponse
  <2>2. excused => excused' BY <1>1, Zenon DEF UfsUtpResponse
  <2> QED BY <2>1, <2>2
<1>2. CASE UfsUtpGiveUp BY <1>2 DEF UfsUtpGiveUp
<1>3. CASE UfsUtpInit \/ UfsWriteRequest \/ UfsUtpSend
           \/ UfsUtpWaitResponse \/ UicPoll \/ UicResult
  BY <1>3 DEF UfsUtpInit, UfsWriteRequest, UfsUtpSend, UfsUtpWaitResponse,
              UicPoll, UicResult
<1> QED BY <1>1, <1>2, <1>3 DEF Engine

LEMMA BootEngine ==
  ASSUME Base, Device, BootInv, Engine, UNCHANGED drvVars PROVE BootInv'
<1>1. UNCHANGED <<stage, at, req, dev>> BY EngineMoves DEF drvVars
<1>2. SUFFICES ASSUME stage = "init", clean', ~excused' PROVE Boot'
  BY <1>1 DEF BootInv
<1>3. clean /\ ~excused
  BY <1>2, History
<1>4. Boot BY <1>2, <1>3 DEF BootInv
<1>5. ASSUME pc' \notin Waiting \cup {"return"} PROVE Boot'
  BY <1>1, <1>4, <1>5 DEF Boot
<1>6. CASE UfsUtpInit \/ UfsWriteRequest
  BY <1>5, <1>6 DEF UfsUtpInit, UfsWriteRequest, Waiting
<1>7. CASE UfsUtpSend
  BY <1>1, <1>3, <1>4, <1>7, Rung DEF Boot
<1>8. CASE UfsUtpWaitResponse
  <2>1. /\ pc \in Waiting /\ pc' \in Waiting /\ UNCHANGED <<mem, ok, got>>
        /\ (Pending' <=> Pending) /\ (Good' <=> Good)
    BY <1>8, Waited DEF Waiting
  <2> QED BY <1>1, <1>4, <2>1 DEF Boot, Waiting
<1>9. CASE UfsUtpResponse
  <2>1. /\ pc = "ackOk" /\ ~Pending /\ pc' \in {"zero", "return"}
        /\ ok' => UfsQueryGetData
        /\ ok' /\ req.kind # "NOP" => Good
    BY <1>2, <1>3, <1>9, Response
  <2>2. req.kind = Step BY <1>2, <2>1, BootRequest DEF Requesting
  <2>3. /\ at = 12 => req.kind = "SETINIT"
        /\ at = 13 => req.kind = "READINIT"
    BY <2>2, AtFacts
  <2>4. ASSUME at = 13, ok' PROVE got'.flag = mem.answer.val
    <3>1. got' = [got EXCEPT !.flag = mem.answer.val]
      BY <2>1, <2>3, <2>4 DEF UfsQueryGetData
    <3> QED BY <3>1 DEF Base, UnitInv, Addressed
  <2> QED
    BY <1>1, <1>4, <2>1, <2>3, <2>4 DEF Boot, Waiting
<1>10. CASE UfsUtpGiveUp BY <1>2, <1>10 DEF UfsUtpGiveUp
<1>11. CASE UicPoll \/ UicResult
  <2>1. pc \in Linking /\ pc' \in Linking \cup {"return"}
    BY <1>11 DEF UicPoll, UicResult, Linking
  <2>2. Step \in UicSteps
    BY <1>2, <2>1 DEF Base, Places, InitPlaces
  <2>3. at # 12 /\ at # 13 BY <2>2, AtFacts DEF UicSteps
  <2> QED BY <1>1, <1>4, <2>1, <2>3 DEF Boot, Waiting, Linking
<1> QED BY <1>6, <1>7, <1>8, <1>9, <1>10, <1>11 DEF Engine

LEMMA BootBring ==
  ASSUME Base, BootInv,
         UfsCalibrate \/ UfsReset \/ UfsEnable \/ UfsWaited \/ UfsUic
         \/ UfsInitQuery \/ UfsReadInitAgain \/ UfsInitReturn
  PROVE BootInv'
<1>1. stage = "init" /\ UNCHANGED <<clean, excused>> /\ at \in 1 .. 34
  BY AtFacts
  DEF UfsCalibrate, UfsReset, UfsEnable, UfsWaited, UfsUic, UfsInitQuery,
      UfsReadInitAgain, UfsInitReturn, InInit
<1>2. SUFFICES ASSUME clean, ~excused, stage' = "init" PROVE Boot'
  BY <1>1 DEF BootInv
<1>3. Boot BY <1>1, <1>2 DEF BootInv
<1>4. pc' \notin Waiting \cup {"return"}
  BY DEF UfsCalibrate, UfsReset, UfsEnable, UfsWaited, UfsUic,
         UfsSendUicCmd, UfsInitQuery, UfsReadInitAgain, UfsInitReturn,
         NextStep, Breaks, Go, Start, Waiting
<1>5. CASE UfsEnable
  <2>1. UNCHANGED at /\ at = 3 BY <1>5, AtFacts DEF UfsEnable
  <2> QED BY <1>4, <2>1 DEF Boot
<1>6. ASSUME UNCHANGED <<at, dev>> PROVE Boot'
  BY <1>3, <1>4, <1>6 DEF Boot
<1>7. ASSUME UNCHANGED dev, NextStep, at # 12 /\ at # 13 PROVE Boot'
  <2>1. \/ at' = at + 1
        \/ at = 18 /\ at' = 20
    <3>1. Places BY DEF Base
    <3> QED BY <1>1, <1>2, <1>7, <3>1, NextPlace
  <2> QED BY <1>1, <1>3, <1>4, <1>7, <2>1 DEF Boot
<1>8. CASE UfsCalibrate
  <2>1. UNCHANGED dev /\ at # 12 /\ at # 13
    BY <1>8, AtFacts DEF UfsCalibrate, CalSteps, hwVars
  <2> QED BY <1>6, <1>7, <1>8, <2>1 DEF UfsCalibrate
<1>9. CASE UfsReset \/ UfsUic \/ UfsInitQuery \/ UfsReadInitAgain
  BY <1>6, <1>9
  DEF UfsReset, UfsUic, UfsInitQuery, UfsReadInitAgain, hwVars
<1>10. CASE UfsWaited
  <2>1. UNCHANGED dev /\ NextStep /\ pc = "wait"
    BY <1>10 DEF UfsWaited, hwVars, InInit
  <2>2. Step \in {"RESET", "ENABLE"}
    BY <1>1, <2>1 DEF Base, Places, InitPlaces
  <2> QED BY <1>7, <2>1, <2>2, AtFacts
<1>11. CASE UfsInitReturn
  <2>1. UNCHANGED dev /\ pc = "return"
    BY <1>11 DEF UfsInitReturn, hwVars, InInit
  <2>2. CASE UNCHANGED at BY <1>6, <2>1, <2>2
  <2>3. CASE NextStep /\ (Step = "BOOTLUN" \/ ok) /\ ~StillInit(left = 1)
    <3>1. at = 12 \/ at = 13 => ok BY <2>3, AtFacts
    <3>2. at = 13 => ~got.flag BY <2>3, AtFacts DEF StillInit
    <3>3. /\ at = 12 => dev.init \in {"running", "done"}
          /\ at = 13 => dev.init = "done"
      BY <1>3, <2>1, <3>1, <3>2 DEF Boot
    <3>4. CASE at \in {12, 13}
      <4>1. Places BY DEF Base
      <4>2. at' = at + 1 BY <1>1, <1>2, <2>3, <3>4, <4>1, NextPlace
      <4> QED BY <1>3, <1>4, <2>1, <3>3, <3>4, <4>2 DEF Boot
    <3> QED BY <1>7, <2>1, <2>3, <3>4
  <2> QED BY <1>11, <2>2, <2>3 DEF UfsInitReturn
<1> QED BY <1>5, <1>8, <1>9, <1>10, <1>11

LEMMA BootStep == Base /\ Device /\ BootInv /\ [Next]_vars => BootInv'
<1> SUFFICES ASSUME Base, Device, BootInv, [Next]_vars PROVE BootInv'
  OBVIOUS
<1>1. CASE Engine /\ UNCHANGED drvVars BY <1>1, BootEngine
<1>2. CASE Controller /\ UNCHANGED drvVars BY <1>2, BootController
<1>3. CASE HwReady \/ UNCHANGED vars
  BY <1>3
  DEF HwReady, InitUnchanged, vars, tVars, hwVars, engVars, drvVars,
      BootInv, Boot, Pending, Good
<1>4. CASE \/ UfsLunBegin \/ UfsLunUnit \/ UfsRequestSense \/ UfsLunSense
           \/ UfsReadCapacity \/ UfsLunInstall \/ UfsLunsDone
           \/ Calls \/ UfsChunk \/ UfsChunkReturn \/ UfsBlocksReturn
  <2>1. stage # "init" /\ stage' # "init"
    BY <1>4
    DEF UfsLunBegin, UfsLunUnit, UfsRequestSense, UfsLunSense,
        UfsReadCapacity, UfsLunInstall, UfsLunsDone, InLuns, Calls,
        UfsBlocks, UfsChunk, UfsChunkReturn, UfsBlocksReturn, IoUnchanged,
        Base, Places, InitPlaces, Requesting, Linking
  <2> QED BY <2>1 DEF BootInv
<1> QED BY <1>1, <1>2, <1>3, <1>4, BootBring DEF Next, Driver

LEMMA BootStarts == Init => BootInv
BY DEF Init, BootInv, Boot, Waiting

(* Past UfsEndBootMode the device has left its initialisation, unless a    *)
(* request was given up or a query that failed taken for one that          *)
(* succeeded: for any budgets, and whatever answers come late              *)
(* (UfsDxe.c:671-711, and 388-415 for what counts as a success).           *)
THEOREM BootIsOver == Spec => []InitFinished
<1>1. Init => Base /\ Device /\ BootInv
  BY BaseInit, DeviceInit, BootStarts
<1>2. Base /\ Device /\ BootInv /\ [Next]_vars => (Base /\ Device /\ BootInv)'
  BY BaseStep, DeviceStep, BootStep DEF Base
<1>3. Base /\ BootInv => InitFinished
  <2> SUFFICES ASSUME Base, BootInv, PastBootMode, clean, ~excused
               PROVE dev.init = "done"
    BY DEF InitFinished
  <2>1. stage = "init" BY DEF PastBootMode
  <2> QED BY <2>1, AtFacts DEF BootInv, Boot
<1> QED BY <1>1, <1>2, <1>3, PTL DEF Spec

-----------------------------------------------------------------------------
(* READ_CAPACITY leaves the size of the unit the loop is at in the page.   *)
Sized ==
  /\ pc \in Waiting /\ ~Pending /\ Good => page = lun
  /\ pc = "return" /\ ok => page = lun
AtCapacity == stage = "luns" /\ req.kind = "CAPACITY" /\ clean /\ ~excused
SizeInv ==
  /\ size = [l \in Luns |-> size[l]]
  /\ AtCapacity => Sized
  /\ SizeIsOwn

LEMMA SizeInit == Init => SizeInv
BY DEF Init, SizeInv, AtCapacity, SizeIsOwn

LEMMA ExecutesGood ==
  ASSUME HwExecute("good")
  PROVE dev' = DeviceAfter(run.req)
        /\ \E reused \in {run.own, TRUE} : DataIn(run.req, reused)
BY DEF HwExecute

LEMMA ExecutesBadly ==
  ASSUME NEW result, result # "good", HwExecute(result)
  PROVE UNCHANGED <<dev, page, buf>>
BY DEF HwExecute

LEMMA OwnData ==
  ASSUME Base, clean, Controller, HwExecute("good")
  PROVE dev' = DeviceAfter(req) /\ DataIn(req, TRUE)
<1>1. run.req = req /\ run.own BY Outcome
<1>2. PICK reused \in {run.own, TRUE} : DataIn(run.req, reused)
  BY ExecutesGood
<1>3. reused BY <1>1, <1>2
<1>4. DataIn(req, TRUE)
  BY <1>1, <1>2, <1>3 DEF DataIn
<1> QED BY <1>1, <1>4, ExecutesGood

LEMMA SizeController ==
  ASSUME Base, SizeInv, Controller, UNCHANGED drvVars PROVE SizeInv'
<1>1. /\ clean' = clean /\ excused' = excused
      /\ UNCHANGED <<pc, req, ok, stage, lun, installed, size, doubtful>>
  BY ControllerMoves DEF Base, drvVars
<1>2. SUFFICES ASSUME AtCapacity PROVE Sized'
  BY <1>1 DEF SizeInv, SizeIsOwn, AtCapacity
<1>3. Sized BY <1>2 DEF SizeInv
<1>4. CASE Quiet
  <2>1. UNCHANGED <<mem, page>> /\ (Pending' <=> Pending)
    BY <1>2, <1>4, QuietSteps DEF AtCapacity
  <2>2. Good' <=> Good BY <2>1 DEF Good
  <2> QED BY <1>1, <1>3, <2>1, <2>2 DEF Sized
<1>5. ASSUME NEW result \in {"good", "check", "refused", "error", "silent"},
             HwExecute(result)
      PROVE Sized'
  <2>1. pc \in Waiting /\ (Good' => result = "good")
    BY <1>2, <1>5, Outcome DEF AtCapacity
  <2>2. req.lun = lun
    BY <1>2, <2>1, RequestFacts
    DEF Base, Places, LunPlaces, AtCapacity, Requesting, Waiting
  <2>3. ASSUME result = "good" PROVE page' = lun
    <3>1. DataIn(req, TRUE) BY <1>2, <1>5, <2>3, OwnData DEF AtCapacity
    <3> QED BY <1>2, <2>2, <3>1 DEF DataIn, AtCapacity
  <2> QED BY <1>1, <2>1, <2>3 DEF Sized, Waiting
<1> QED BY <1>4, <1>5, ControllerSplit

LEMMA SizeEngine ==
  ASSUME Base, SizeInv, Engine, UNCHANGED drvVars PROVE SizeInv'
<1>1. UNCHANGED <<stage, lun, req, page, installed, size, doubtful>>
  BY EngineMoves DEF drvVars
<1>2. SUFFICES ASSUME stage = "luns", req.kind = "CAPACITY", clean', ~excused'
               PROVE Sized'
  BY <1>1 DEF SizeInv, SizeIsOwn, AtCapacity
<1>3. clean /\ ~excused BY <1>2, History
<1>4. Sized BY <1>2, <1>3 DEF SizeInv, AtCapacity
<1>5. CASE UfsUtpInit \/ UfsWriteRequest
  BY <1>5 DEF UfsUtpInit, UfsWriteRequest, Waiting, Sized
<1>6. CASE UfsUtpSend BY <1>3, <1>6, Rung DEF Sized
<1>7. CASE UfsUtpWaitResponse
  BY <1>1, <1>4, <1>7, Waited DEF Sized, Waiting
<1>8. CASE UfsUtpResponse
  <2>1. /\ pc = "ackOk" /\ ~Pending /\ pc' \in {"zero", "return"}
        /\ ok' => Good
    BY <1>2, <1>3, <1>8, Response
  <2> QED BY <1>1, <1>4, <2>1 DEF Sized, Waiting
<1>9. CASE UfsUtpGiveUp BY <1>2, <1>9 DEF UfsUtpGiveUp
<1>10. CASE UicPoll \/ UicResult
  BY <1>2, <1>10
  DEF UicPoll, UicResult, Base, Places, LunPlaces, Requesting
<1> QED BY <1>5, <1>6, <1>7, <1>8, <1>9, <1>10 DEF Engine

LEMMA SizeStep == Base /\ SizeInv /\ [Next]_vars => SizeInv'
<1> SUFFICES ASSUME Base, SizeInv, [Next]_vars PROVE SizeInv'
  OBVIOUS
<1>1. CASE Engine /\ UNCHANGED drvVars BY <1>1, SizeEngine
<1>2. CASE Controller /\ UNCHANGED drvVars BY <1>2, SizeController
<1>3. CASE HwReady \/ UNCHANGED vars
  BY <1>3
  DEF HwReady, InitUnchanged, vars, tVars, hwVars, engVars, drvVars,
      SizeInv, Sized, SizeIsOwn, AtCapacity, Pending, Good
<1>4. CASE Steps
  <2>1. Sized' BY <1>4, Away DEF Sized
  <2>2. CASE UfsLunInstall
    <3>1. pc = "return" /\ req.kind = "CAPACITY" /\ stage = "luns"
      BY <2>2 DEF UfsLunInstall, InLuns
    <3>2. CASE UNCHANGED <<installed, size, doubtful>>
      BY <2>1, <3>2 DEF SizeInv, SizeIsOwn
    <3>3. CASE /\ ok /\ installed' = installed \cup {lun}
               /\ size' = [size EXCEPT ![lun] = page]
               /\ doubtful' = IF clean /\ ~excused THEN doubtful
                              ELSE doubtful \cup {lun}
      <4>1. lun \in Luns BY <3>1 DEF Base, UnitInv, AtUnit
      <4>2. clean /\ ~excused => page = lun
        BY <3>1, <3>3 DEF SizeInv, AtCapacity, Sized
      <4>3. /\ size' = [l \in Luns |-> size'[l]]
            /\ \A l \in Luns : size'[l] = IF l = lun THEN page ELSE size[l]
        BY <3>3, <4>1 DEF SizeInv
      <4>4. installed \subseteq Luns
        BY TransportAssumption DEF Base, UnitInv, InstalledIsEnabled
      <4> QED BY <2>1, <3>3, <4>1, <4>2, <4>3, <4>4 DEF SizeInv, SizeIsOwn
    <3> QED BY <2>2, <3>2, <3>3 DEF UfsLunInstall, CapacityRead
  <2>3. ASSUME ~UfsLunInstall PROVE UNCHANGED <<installed, size, doubtful>>
    BY <1>4, <2>3
    DEF Steps, UfsCalibrate, UfsReset, UfsEnable, UfsWaited, UfsUic,
        UfsInitQuery, UfsReadInitAgain, UfsInitReturn, UfsLunBegin,
        UfsLunUnit, UfsRequestSense, UfsLunSense, UfsReadCapacity,
        UfsLunsDone, Calls, UfsBlocks, UfsChunk, UfsChunkReturn,
        UfsBlocksReturn, InitUnchanged, IoUnchanged
  <2> QED BY <2>1, <2>2, <2>3 DEF SizeInv, SizeIsOwn
<1> QED BY <1>1, <1>2, <1>3, <1>4, NextSplit

-----------------------------------------------------------------------------
(* The first k blocks of the call have been moved, and no other.           *)
MovedTo(k) ==
  /\ \A l \in Luns, b \in 0 .. Blocks - 1 :
       dev.medium[l][b] =
         IF /\ call.op = "WRITE" /\ l = call.lun
            /\ b \in call.lba .. call.lba + k - 1
         THEN Content(call.tag, b - call.lba + 1) ELSE before[l][b]
  /\ call.op = "READ" =>
       \A i \in 1 .. k : buf[i] = dev.medium[call.lun][call.lba + i - 1]
Moved ==
  /\ pc \in {"chunk", "zero", "fill", "ring"} => MovedTo(done)
  /\ pc \in Waiting /\ Pending => MovedTo(done)
  /\ pc \in Waiting /\ ~Pending /\ Good => MovedTo(done + req.n)
  /\ pc = "return" /\ ok => MovedTo(done + req.n)
  /\ pc = "ready" /\ status = "SUCCESS" => MovedTo(call.n)
Called ==
  /\ call.n \in 0 .. MaxCall /\ call.lba \in Nat /\ done \in 0 .. call.n
  /\ call.lba + call.n <= Blocks
  /\ buf = [i \in 1 .. MaxCall |-> buf[i]]
  /\ stage # "io" => status = "NONE"
MoveInv == Called /\ (stage = "io" /\ clean /\ ~excused => Moved)

LEMMA MoveInit == Init => MoveInv
BY TransportAssumption DEF Init, MoveInv, Called, NoCall

(* What is left of the call bounds a chunk. *)
LEMMA ChunkFits ==
  ASSUME Base, Called, stage = "io", pc \in Requesting \cup {"return"}
  PROVE /\ req.kind = call.op /\ req.lun = call.lun
        /\ req.lba = call.lba + done /\ req.off = done
        /\ req.tag = call.tag
        /\ req.n \in Nat /\ req.n > 0 /\ done + req.n <= call.n
        /\ tries = 1
<1>1. /\ done < call.n /\ tries = 1
      /\ req = [kind |-> call.op, lun |-> call.lun,
                lba |-> call.lba + done, n |-> ChunkBlks, off |-> done,
                tag |-> call.tag]
  BY DEF Base, Places, IoPlaces
<1>2. /\ ChunkBlks \in Nat /\ ChunkBlks > 0 /\ done + ChunkBlks <= call.n
  <2>1. /\ call.n \in Nat /\ done \in Nat /\ MaxChunk \in Nat
        /\ MaxChunk > 0
    BY TransportAssumption DEF Called
  <2> QED BY <1>1, <2>1 DEF ChunkBlks
<1> QED BY <1>1, <1>2

(* A chunk carried out moves its blocks on top of those before. *)
LEMMA ChunkMoves ==
  ASSUME Base, Device, Called, stage = "io", pc \in Requesting,
         dev' = DeviceAfter(req), DataIn(req, TRUE), MovedTo(done),
         UNCHANGED <<call, before, done, req>>
  PROVE MovedTo(done + req.n)'
<1> DEFINE k == done + req.n
<1>1. /\ req.kind = call.op /\ req.lun = call.lun
      /\ req.lba = call.lba + done /\ req.off = done
      /\ req.tag = call.tag
      /\ req.n \in Nat /\ req.n > 0 /\ done + req.n <= call.n
  BY ChunkFits
<1>2. /\ call.lun \in Luns /\ call.op \in {"READ", "WRITE"}
      /\ done \in Nat /\ call.lba \in Nat /\ call.n \in Nat
      /\ call.n <= MaxCall /\ call.lba + call.n <= Blocks
      /\ MaxCall \in Nat /\ Blocks \in Nat
  BY TransportAssumption DEF Base, UnitInv, Addressed, Called
<1>3. \A l \in Luns, b \in 0 .. Blocks - 1 :
        dev'.medium[l][b] =
          IF /\ call.op = "WRITE" /\ l = call.lun
             /\ b \in call.lba + done .. call.lba + done + req.n - 1
          THEN Content(call.tag, done + b - (call.lba + done) + 1)
          ELSE dev.medium[l][b]
  <2>1. \A l \in Luns, b \in 0 .. Blocks - 1 :
          dev'.medium[l][b] =
            IF /\ req.kind = "WRITE" /\ l = req.lun
               /\ b \in req.lba .. req.lba + req.n - 1
            THEN Content(req.tag, req.off + b - req.lba + 1)
            ELSE dev.medium[l][b]
    <3>1. req.lun \in Luns BY <1>1, <1>2
    <3> QED BY <3>1, AfterRequest
  <2> QED BY <1>1, <2>1
<1>4. \A b \in 0 .. Blocks - 1 :
        done + b - (call.lba + done) + 1 = b - call.lba + 1
  BY <1>2
<1>5. \A l \in Luns, b \in 0 .. Blocks - 1 :
        dev'.medium[l][b] =
          IF /\ call.op = "WRITE" /\ l = call.lun
             /\ b \in call.lba .. call.lba + k - 1
          THEN Content(call.tag, b - call.lba + 1) ELSE before[l][b]
  <2>1. TAKE l \in Luns, b \in 0 .. Blocks - 1
  <2>2. dev.medium[l][b] =
          IF /\ call.op = "WRITE" /\ l = call.lun
             /\ b \in call.lba .. call.lba + done - 1
          THEN Content(call.tag, b - call.lba + 1) ELSE before[l][b]
    BY DEF MovedTo
  <2>3. /\ b \in Nat
        /\ b \in call.lba .. call.lba + k - 1 <=>
             \/ b \in call.lba .. call.lba + done - 1
             \/ b \in call.lba + done .. call.lba + done + req.n - 1
    BY <1>1, <1>2
  <2> HIDE DEF k
  <2> QED BY <1>3, <1>4, <2>2, <2>3
<1>6. ASSUME call.op = "READ"
      PROVE \A i \in 1 .. k :
              buf'[i] = dev'.medium[call.lun][call.lba + i - 1]
  <2>1. dev'.medium = dev.medium
    BY <1>1, <1>2, <1>6, AfterRequest
  <2>2. \A i \in 1 .. done : buf[i] = dev.medium[call.lun][call.lba + i - 1]
    BY <1>6 DEF MovedTo
  <2>3. buf' = [i \in 1 .. MaxCall |->
                  IF i \in done + 1 .. done + req.n
                  THEN dev.medium[call.lun][call.lba + done + i - done - 1]
                  ELSE buf[i]]
    <3>1. DOMAIN buf = 1 .. MaxCall BY DEF Called
    <3> QED BY <1>1, <1>6, <3>1 DEF DataIn
  <2>4. ASSUME NEW i \in 1 .. k
        PROVE buf'[i] = dev'.medium[call.lun][call.lba + i - 1]
    <3>1. i \in 1 .. MaxCall BY <1>1, <1>2
    <3>2. CASE i \in done + 1 .. done + req.n
      <4>1. call.lba + done + i - done - 1 = call.lba + i - 1
        BY <1>2, <3>2
      <4> QED BY <2>1, <2>3, <3>1, <3>2, <4>1
    <3>3. CASE i \notin done + 1 .. done + req.n
      <4>1. i \in 1 .. done BY <1>1, <1>2, <3>3
      <4> QED BY <2>1, <2>2, <2>3, <3>1, <3>3, <4>1
    <3> QED BY <3>2, <3>3
  <2> QED BY <2>4
<1> QED BY <1>5, <1>6 DEF MovedTo

LEMMA MoveController ==
  ASSUME Base, Device, MoveInv, Controller, UNCHANGED drvVars PROVE MoveInv'
<1>1. /\ clean' = clean /\ excused' = excused
      /\ UNCHANGED <<pc, req, ok, stage, call, done, status, before>>
  BY ControllerMoves DEF Base, drvVars
<1>2. Called'
  <2>1. ASSUME NEW r, NEW reused, DataIn(r, reused)
        PROVE buf' = [i \in 1 .. MaxCall |-> buf'[i]]
    BY <2>1 DEF DataIn, MoveInv, Called
  <2>2. buf' = buf \/ \E reused \in {run.own, TRUE} : DataIn(run.req, reused)
    BY DEF Controller, HwFetch, HwFatal, HwDeviceInit, HwUicError,
           HwExecute, HwEnd, HwUicEnd, HwPowerMode
  <2>3. buf' = [i \in 1 .. MaxCall |-> buf'[i]]
    BY <2>1, <2>2 DEF MoveInv, Called
  <2> QED BY <1>1, <2>3 DEF MoveInv, Called
<1>3. SUFFICES ASSUME stage = "io", clean, ~excused PROVE Moved'
  BY <1>1, <1>2 DEF MoveInv
<1>4. Moved BY <1>3 DEF MoveInv
<1>5. CASE Quiet
  <2>1. /\ UNCHANGED <<mem, buf>> /\ (Pending' <=> Pending)
        /\ dev' = dev \/ dev' = [dev EXCEPT !.init = "done"]
    BY <1>3, <1>5, QuietSteps
  <2>2. dev'.medium = dev.medium BY <2>1 DEF Device
  <2>3. Good' <=> Good BY <2>1 DEF Good
  <2>4. \A k : MovedTo(k)' <=> MovedTo(k)
    BY <1>1, <2>1, <2>2 DEF MovedTo
  <2> QED BY <1>1, <1>4, <2>1, <2>3, <2>4 DEF Moved
<1>6. ASSUME NEW result \in {"good", "check", "refused", "error", "silent"},
             HwExecute(result)
      PROVE Moved'
  <2>1. pc \in Waiting /\ Pending /\ ~Pending' /\ (Good' => result = "good")
    BY <1>3, <1>6, Outcome
  <2>2. ASSUME result = "good" PROVE MovedTo(done + req.n)'
    <3>1. dev' = DeviceAfter(req) /\ DataIn(req, TRUE)
      BY <1>3, <1>6, <2>2, OwnData
    <3>2. MovedTo(done) BY <1>4, <2>1 DEF Moved
    <3>3. pc \in Requesting BY <2>1 DEF Waiting, Requesting
    <3> QED BY <1>1, <1>3, <3>1, <3>2, <3>3, ChunkMoves DEF MoveInv
  <2> QED BY <1>1, <2>1, <2>2 DEF Moved, Waiting
<1> QED BY <1>5, <1>6, ControllerSplit

LEMMA MoveEngine ==
  ASSUME Base, MoveInv, Engine, UNCHANGED drvVars PROVE MoveInv'
<1>1. UNCHANGED <<stage, call, done, status, before, req, dev, buf>>
  BY EngineMoves DEF drvVars
<1>2. Called' BY <1>1 DEF MoveInv, Called
<1>3. SUFFICES ASSUME stage = "io", clean', ~excused' PROVE Moved'
  BY <1>1, <1>2 DEF MoveInv
<1>4. clean /\ ~excused BY <1>3, History
<1>5. Moved BY <1>3, <1>4 DEF MoveInv
<1>6. \A k : MovedTo(k)' <=> MovedTo(k) BY <1>1 DEF MovedTo
<1>7. CASE UfsUtpInit \/ UfsWriteRequest
  <2>1. pc \in {"zero", "fill"} /\ pc' \in {"fill", "ring"}
    BY <1>7 DEF UfsUtpInit, UfsWriteRequest
  <2> QED BY <1>1, <1>5, <1>6, <2>1 DEF Moved, Waiting
<1>8. CASE UfsUtpSend
  <2>1. pc = "ring" /\ pc' = "poll" /\ Pending'
    BY <1>4, <1>8, Rung
  <2> QED BY <1>1, <1>5, <1>6, <2>1 DEF Moved, Waiting
<1>9. CASE UfsUtpWaitResponse
  <2>1. /\ pc \in Waiting /\ pc' \in Waiting
        /\ (Pending' <=> Pending) /\ (Good' <=> Good)
    BY <1>9, Waited DEF Waiting
  <2> QED BY <1>1, <1>5, <1>6, <2>1 DEF Moved, Waiting
<1>10. CASE UfsUtpResponse
  <2>1. /\ pc = "ackOk" /\ ~Pending
        /\ tries = 1 => pc' = "return"
        /\ ok' /\ req.kind # "NOP" => Good
    BY <1>3, <1>4, <1>10, Response
  <2>2. pc \in Requesting BY <2>1 DEF Requesting
  <2>3. tries = 1 /\ req.kind = call.op
    BY <1>3, <2>2, ChunkFits DEF MoveInv
  <2>4. req.kind # "NOP" BY <2>3 DEF Base, UnitInv, Addressed
  <2> QED BY <1>1, <1>5, <1>6, <2>1, <2>3, <2>4 DEF Moved, Waiting
<1>11. CASE UfsUtpGiveUp BY <1>3, <1>11 DEF UfsUtpGiveUp
<1>12. CASE UicPoll \/ UicResult
  BY <1>3, <1>12
  DEF UicPoll, UicResult, Base, Places, IoPlaces, Requesting
<1> QED BY <1>7, <1>8, <1>9, <1>10, <1>11, <1>12 DEF Engine

LEMMA MoveIo ==
  ASSUME Base, MoveInv, Calls \/ UfsChunk \/ UfsChunkReturn \/ UfsBlocksReturn
  PROVE MoveInv'
<1>1. stage = "io" /\ stage' = "io" /\ UNCHANGED dev
  BY DEF Calls, UfsBlocks, UfsChunk, UfsChunkReturn, UfsBlocksReturn,
         IoUnchanged, hwVars, Base, Places, InitPlaces, LunPlaces,
         Requesting, Linking
<1>2. MaxCall \in Nat /\ Blocks \in Nat BY TransportAssumption
<1>3. ASSUME NEW op \in {"READ", "WRITE"}, NEW l \in Luns,
             NEW lba \in 0 .. Blocks, NEW n \in 1 .. MaxCall,
             UfsBlocks(op, l, lba, n)
      PROVE MoveInv'
  <2>1. /\ call'.n = n /\ call'.lba = lba /\ done' = 0 /\ before' = dev.medium
        /\ lba + n <= Blocks /\ pc' = "chunk" /\ DOMAIN buf' = DOMAIN buf
        /\ buf' = [i \in DOMAIN buf |-> buf'[i]]
    BY <1>3 DEF UfsBlocks, Go
  <2>2. Called' BY <1>1, <1>2, <2>1 DEF MoveInv, Called
  <2>3. MovedTo(0)' BY <1>1, <1>2, <2>1 DEF MovedTo
  <2> QED BY <2>1, <2>2, <2>3 DEF MoveInv, Moved, Waiting
<1>4. CASE UfsChunk
  <2>1. /\ pc = "chunk" /\ pc' = "zero"
        /\ UNCHANGED <<call, done, before, buf, clean, excused>>
    BY <1>4 DEF UfsChunk, Start, IoUnchanged
  <2>2. MovedTo(done)' <=> MovedTo(done) BY <1>1, <2>1 DEF MovedTo
  <2>3. Called' BY <1>1, <2>1 DEF MoveInv, Called
  <2> QED BY <1>1, <2>1, <2>2, <2>3 DEF MoveInv, Moved, Waiting
<1>5. CASE UfsChunkReturn
  <2>1. /\ pc = "return" /\ UNCHANGED <<call, before, buf, clean, excused>>
        /\ \/ ok /\ done' = done + req.n /\ pc' = "chunk"
           \/ status' = "ERROR" /\ pc' = "ready" /\ UNCHANGED done
    BY <1>5 DEF UfsChunkReturn, Go, IoUnchanged
  <2>2. \A k : MovedTo(k)' <=> MovedTo(k) BY <1>1, <2>1 DEF MovedTo
  <2>3. req.n \in Nat /\ done + req.n <= call.n
    BY <1>1, <2>1, ChunkFits DEF MoveInv
  <2>4. Called' BY <1>1, <1>2, <2>1, <2>3 DEF MoveInv, Called
  <2> QED BY <1>1, <2>1, <2>2, <2>4 DEF MoveInv, Moved, Waiting
<1>6. CASE UfsBlocksReturn
  <2>1. /\ pc = "chunk" /\ done = call.n /\ pc' = "ready"
        /\ UNCHANGED <<call, done, before, buf, clean, excused>>
    BY <1>6 DEF UfsBlocksReturn, Go, IoUnchanged
  <2>2. \A k : MovedTo(k)' <=> MovedTo(k) BY <1>1, <2>1 DEF MovedTo
  <2>3. Called' BY <1>1, <2>1 DEF MoveInv, Called
  <2> QED BY <1>1, <2>1, <2>2, <2>3 DEF MoveInv, Moved, Waiting
<1> QED BY <1>3, <1>4, <1>5, <1>6 DEF Calls

LEMMA MoveStep == Base /\ Device /\ MoveInv /\ [Next]_vars => MoveInv'
<1> SUFFICES ASSUME Base, Device, MoveInv, [Next]_vars PROVE MoveInv'
  OBVIOUS
<1>1. CASE Engine /\ UNCHANGED drvVars BY <1>1, MoveEngine
<1>2. CASE Controller /\ UNCHANGED drvVars BY <1>2, MoveController
<1>3. CASE HwReady \/ UNCHANGED vars
  <2>1. UNCHANGED <<stage, call, done, status, before, pc, req, ok, clean,
                    excused, dev, buf, mem, run, door>>
    BY <1>3 DEF HwReady, InitUnchanged, vars, tVars, hwVars, engVars,
                drvVars
  <2>2. \A k : MovedTo(k)' <=> MovedTo(k) BY <2>1 DEF MovedTo
  <2>3. (Pending' <=> Pending) /\ (Good' <=> Good)
    BY <2>1 DEF Pending, Good
  <2> QED BY <2>1, <2>2, <2>3 DEF MoveInv, Called, Moved
<1>4. CASE \/ UfsCalibrate \/ UfsReset \/ UfsEnable \/ UfsWaited \/ UfsUic
           \/ UfsInitQuery \/ UfsReadInitAgain \/ UfsInitReturn
           \/ UfsLunBegin \/ UfsLunUnit \/ UfsRequestSense \/ UfsLunSense
           \/ UfsReadCapacity \/ UfsLunInstall \/ UfsLunsDone
  <2>1. /\ stage # "io" /\ UNCHANGED <<call, done, status, buf>>
        /\ stage' = "io" => pc' = "ready"
    BY <1>4
    DEF UfsCalibrate, UfsReset, UfsEnable, UfsWaited, UfsUic, UfsInitQuery,
        UfsReadInitAgain, UfsInitReturn, InInit, InitUnchanged, NextStep,
        UfsLunBegin, UfsLunUnit, UfsRequestSense, UfsLunSense,
        UfsReadCapacity, UfsLunInstall, UfsLunsDone, InLuns, LunUnchanged,
        Go
  <2>2. Called' BY <2>1 DEF MoveInv, Called
  <2> QED BY <2>1, <2>2 DEF MoveInv, Called, Moved, Waiting
<1> QED BY <1>1, <1>2, <1>3, <1>4, MoveIo, NextSplit DEF Steps

(* A unit's size and the blocks of a call are those of the unit and call   *)
(* themselves, for any units, sizes of units, chunks and calls, unless a   *)
(* request was given up or a failure taken for a success                   *)
(* (UfsDxe.c:1185-1220, UfsReadCapacity, and 1222-1373, UfsReadBlocks and  *)
(* UfsWriteBlocks).                                                        *)
THEOREM DataIsMoved == Spec => []DataIsOwn
<1> DEFINE Inv == Base /\ Device /\ SizeInv /\ MoveInv
<1>1. Init => Inv BY BaseInit, DeviceInit, SizeInit, MoveInit
<1>2. Inv /\ [Next]_vars => Inv'
  BY BaseStep, DeviceStep, SizeStep, MoveStep DEF Base
<1>3. Inv => DataIsOwn
  <2>1. ASSUME Base, MoveInv, status = "SUCCESS", pc = "ready", clean,
               ~excused
        PROVE MovedTo(call.n)
    <3>1. stage = "io"
      BY <2>1 DEF Base, Places, InitPlaces, LunPlaces, Requesting, Linking
    <3> QED BY <2>1, <3>1 DEF MoveInv, Moved
  <2>2. Base /\ MoveInv => TransferIsOwn
    BY <2>1 DEF TransferIsOwn, MovedTo, Span
  <2> QED BY <2>2 DEF SizeInv, DataIsOwn
<1> QED BY <1>1, <1>2, <1>3, PTL DEF Spec

-----------------------------------------------------------------------------
(* Nothing but slowness so far.  Every wait ends with the result it is     *)
(* for, or by giving up, which counts as a failure.                        *)
Smooth == clean /\ ~excused /\ pc # "failed" /\ "FATAL" \notin is
LinkIdle ==
  /\ ~uic.busy /\ pwr = "local"
  /\ BeforeReset \/ is \cap {"COMPL", "ERR", "PWR"} = {}
LinkBusy ==
  /\ ~uic.failed
  /\ uic.busy => pwr = "local" /\ "COMPL" \notin is /\ "PWR" \notin is
  /\ pwr # "local" => /\ pwr = "changing" /\ uic.cmd = "PMC"
                      /\ "PWR" \notin is
  /\ "ERR" \in is => uic.cmd = "LINK"
Linked ==
  /\ pc \notin Linking => LinkIdle
  /\ pc \in {"uicPoll", "uicOk"} => LinkBusy
  /\ pc = "uicOk" => ~uic.busy /\ pwr = "local"
Answered ==
  /\ pc \in Waiting /\ ~Pending =>
       /\ ~mem.response
       /\ req.kind = "NOP" \/ Good
       /\ req.kind = "UNIT" =>
            /\ mem.answer.kind = "UNIT" /\ mem.answer.lun = req.lun
            /\ mem.answer.val <=> req.lun \in EnabledLuns
  /\ pc = "return" =>
       /\ ok
       /\ stage = "luns" /\ req.kind = "UNIT" =>
            (got.unit[lun] <=> lun \in EnabledLuns)
Looped ==
  /\ stage = "init" => installed = {} /\ lun = 0
  /\ stage = "luns" => /\ installed = {l \in EnabledLuns : l < lun}
                       /\ lun \in 0 .. NLuns
  /\ stage = "io" => installed = EnabledLuns
Calm == Smooth /\ Linked /\ Answered /\ Looped
CalmInv == fault = 0 => Calm

LEMMA CalmInit == Init => CalmInv
BY DEF Init, CalmInv, Calm, Smooth, Linked, LinkIdle, Answered, Looped,
       NoUic, BeforeReset, Linking, Waiting

LEMMA FaultsStay ==
  ASSUME Base, [Next]_vars, fault' = 0 PROVE fault = 0 /\ ~Faulty /\ ~GivenUp
<1>1. fault \in Nat BY DEF Base, Places
<1>2. ~Faulty BY <1>1 DEF Faulty
<1>3. ~GivenUp BY <1>1 DEF GivenUp
<1> SUFFICES fault = 0 BY <1>2, <1>3
<1>4. CASE Engine /\ UNCHANGED drvVars BY <1>4, EngineMoves
<1>5. CASE Controller /\ UNCHANGED drvVars
  <2>1. Places BY DEF Base
  <2> QED BY <1>1, <1>5, <2>1, ControllerMoves
<1>6. CASE HwReady \/ UNCHANGED vars
  BY <1>6 DEF HwReady, vars, tVars
<1>7. CASE Steps
  BY <1>1, <1>2, <1>3, <1>7
  DEF Steps, UfsCalibrate, UfsReset, UfsEnable, UfsWaited, UfsUic,
      UfsInitQuery, UfsReadInitAgain, UfsInitReturn, UfsLunBegin, UfsLunUnit,
      UfsRequestSense, UfsLunSense, UfsReadCapacity, UfsLunInstall,
      UfsLunsDone, Calls, UfsBlocks, UfsChunk, UfsChunkReturn,
      UfsBlocksReturn, Breaks, IoUnchanged
<1> QED BY <1>4, <1>5, <1>6, <1>7, NextSplit

LEMMA CalmController ==
  ASSUME Base, Calm, Controller, UNCHANGED drvVars, fault = 0, fault' = 0
  PROVE Calm'
<1>1. /\ UNCHANGED <<pc, req, ok, got, clean, excused, stage, lun,
                     installed, at>>
      /\ uic'.cmd = uic.cmd
  <2>1. Places BY DEF Base
  <2> QED BY <2>1, ControllerMoves DEF drvVars
<1>2. ~Faulty BY DEF Faulty
<1>3. /\ clean /\ (BeforeReset' <=> BeforeReset)
      /\ uic = [cmd |-> uic.cmd, busy |-> uic.busy, failed |-> uic.failed]
  BY <1>1 DEF Calm, Smooth, BeforeReset, Base, Places
<1>4. Looped' BY <1>1 DEF Calm, Looped
<1>5. ASSUME "FATAL" \notin is' PROVE Smooth'
  BY <1>1, <1>5 DEF Calm, Smooth
<1>6. ASSUME Quiet PROVE Answered'
  <2>1. UNCHANGED mem /\ (Pending' <=> Pending)
    BY <1>3, <1>6, QuietSteps
  <2>2. Good' <=> Good BY <2>1 DEF Good
  <2> QED BY <1>1, <2>1, <2>2 DEF Calm, Answered
<1>7. CASE HwFetch \/ HwDeviceInit
  <2>1. UNCHANGED <<is, uic, pwr>> BY <1>7 DEF HwFetch, HwDeviceInit
  <2>2. Linked' BY <1>1, <1>3, <2>1 DEF Calm, Linked, LinkIdle, LinkBusy
  <2> QED
    BY <1>4, <1>5, <1>6, <1>7, <2>1, <2>2 DEF Calm, Smooth, Quiet
<1>8. CASE HwFatal BY <1>2, <1>8 DEF HwFatal
<1>9. CASE HwUicError
  <2>1. /\ uic.busy /\ is' = is \cup {"ERR"} /\ UNCHANGED <<uic, pwr>>
        /\ uic.cmd = "LINK"
    BY <1>2, <1>9 DEF HwUicError
  <2>2. Linked' BY <1>1, <2>1 DEF Calm, Linked, LinkIdle, LinkBusy
  <2> QED
    BY <1>4, <1>5, <1>6, <1>9, <2>1, <2>2 DEF Calm, Smooth, Quiet
<1>10. ASSUME NEW what \in Ends, HwEnd(what) PROVE Calm'
  <2>1. is' \subseteq is \cup {"UTRC"} /\ UNCHANGED <<uic, pwr>>
    BY <1>10 DEF HwEnd
  <2>2. Linked'
    BY <1>1, <1>3, <2>1 DEF Calm, Linked, LinkIdle, LinkBusy
  <2> QED
    BY <1>4, <1>5, <1>6, <1>10, <2>1, <2>2 DEF Calm, Smooth, Quiet
<1>11. ASSUME NEW failed \in BOOLEAN, HwUicEnd(failed) PROVE Calm'
  <2>1. /\ uic.busy /\ ~failed /\ is' = is \cup {"COMPL"}
        /\ uic' = [uic EXCEPT !.busy = FALSE, !.failed = failed]
        /\ pwr' = IF uic.cmd = "PMC" /\ ~failed THEN "changing" ELSE pwr
    BY <1>2, <1>11 DEF HwUicEnd
  <2>2. ~uic'.busy /\ ~uic'.failed BY <1>3, <2>1
  <2>3. Linked'
    BY <1>1, <2>1, <2>2 DEF Calm, Linked, LinkIdle, LinkBusy
  <2> QED
    BY <1>4, <1>5, <1>6, <1>11, <2>1, <2>3 DEF Calm, Smooth, Quiet
<1>12. ASSUME NEW result \in {"local", "failed"}, HwPowerMode(result)
       PROVE Calm'
  <2>1. /\ pwr = "changing" /\ pwr' = "local" /\ is' = is \cup {"PWR"}
        /\ UNCHANGED uic
    BY <1>2, <1>12 DEF HwPowerMode
  <2>2. Linked'
    BY <1>1, <2>1 DEF Calm, Linked, LinkIdle, LinkBusy
  <2> QED
    BY <1>4, <1>5, <1>6, <1>12, <2>1, <2>2 DEF Calm, Smooth, Quiet
<1>13. ASSUME NEW result \in {"good", "check", "refused", "error", "silent"},
              HwExecute(result)
       PROVE Calm'
  <2>1. UNCHANGED <<is, uic, pwr>> BY <1>13 DEF HwExecute
  <2>2. Linked' BY <1>1, <1>3, <2>1 DEF Calm, Linked, LinkIdle, LinkBusy
  <2>3. /\ pc \in Waiting /\ run.req = req
        /\ Good' <=> result = "good"
        /\ result = "silent" => ~mem'.response
        /\ mem'.answer = IF result = "good" THEN Answer(req) ELSE NoAnswer
    BY <1>3, <1>13, Outcome
  <2>4. result = "good" \/ (result = "silent" /\ req.kind = "NOP")
    BY <1>2, <1>13, <2>3 DEF HwExecute
  <2>5. req.kind = "UNIT" =>
          /\ Answer(req).kind = "UNIT" /\ Answer(req).lun = req.lun
          /\ Answer(req).val <=> req.lun \in EnabledLuns
    BY DEF Answer
  <2>6. Answered'
    BY <1>1, <2>3, <2>4, <2>5 DEF Answered, Good, Waiting
  <2> QED BY <1>4, <1>5, <2>1, <2>2, <2>6 DEF Calm, Smooth
<1> QED
  BY <1>7, <1>8, <1>9, <1>10, <1>11, <1>12, <1>13 DEF Controller

LEMMA CalmEngine ==
  ASSUME Base, Calm, Engine, UNCHANGED drvVars, fault = 0, fault' = 0
  PROVE Calm'
<1>1. UNCHANGED <<stage, at, lun, installed, req, uic, pwr>>
  BY EngineMoves DEF drvVars
<1>2. ~GivenUp BY DEF GivenUp
<1>3. Looped' BY <1>1 DEF Calm, Looped
<1>4. clean BY DEF Calm, Smooth
<1>5. CASE UfsUtpInit \/ UfsWriteRequest
  <2>1. /\ pc \in {"zero", "fill"} /\ pc' \in {"fill", "ring"}
        /\ UNCHANGED <<is, clean, excused>>
    BY <1>5 DEF UfsUtpInit, UfsWriteRequest, hwVars
  <2> QED
    BY <1>1, <1>3, <2>1
    DEF Calm, Smooth, Linked, LinkIdle, Answered, BeforeReset, Linking,
        Waiting
<1>6. CASE UfsUtpSend
  <2>1. /\ pc = "ring" /\ pc' = "poll" /\ Pending'
        /\ UNCHANGED <<is, clean, excused>>
    BY <1>4, <1>6, Rung
  <2> QED
    BY <1>1, <1>3, <2>1
    DEF Calm, Smooth, Linked, LinkIdle, Answered, BeforeReset, Linking,
        Waiting
<1>7. CASE UfsUtpWaitResponse
  <2>1. /\ pc = "poll" /\ pc' \in Waiting
        /\ UNCHANGED <<is, clean, excused, mem, ok, got>>
        /\ (Pending' <=> Pending) /\ (Good' <=> Good)
    BY <1>7, Waited DEF hwVars
  <2>2. pc \in Waiting /\ pc' \notin Linking /\ pc \notin Linking
    BY <2>1 DEF Waiting, Linking
  <2>3. Answered' BY <1>1, <2>1, <2>2 DEF Calm, Answered, Waiting
  <2>4. Linked'
    BY <1>1, <2>1, <2>2
    DEF Calm, Linked, LinkIdle, BeforeReset, Linking, Waiting
  <2> QED BY <1>3, <2>1, <2>3, <2>4 DEF Calm, Smooth, Waiting
<1>8. CASE UfsUtpResponse
  <2>1. /\ pc = "ackOk" /\ ~Pending /\ is' = {} /\ UNCHANGED clean
        /\ ok' <=> UfsUtpCheckResult
        /\ IF ok' THEN pc' = "return" /\ UfsQueryGetData
           ELSE pc' \in {"zero", "return"} /\ UNCHANGED got
    BY <1>4, <1>8, Response
  <2>2. /\ ~mem.response
        /\ req.kind = "NOP" \/ Good
        /\ req.kind = "UNIT" =>
             /\ mem.answer.kind = "UNIT" /\ mem.answer.lun = req.lun
             /\ mem.answer.val <=> req.lun \in EnabledLuns
    BY <2>1 DEF Calm, Answered, Waiting
  <2>3. UfsUtpCheckResult
    BY <2>2 DEF UfsUtpCheckResult, Good, IsScsi, ScsiOps
  <2>4. ok' /\ pc' = "return" /\ UfsQueryGetData BY <2>1, <2>3
  <2>5. excused' <=> \/ excused
                     \/ /\ UfsUtpCheckResult /\ req.kind # "NOP"
                        /\ ~mem.ocs \/ mem.response
    BY <1>8 DEF UfsUtpResponse
  <2>6. ~excused' BY <2>2, <2>5 DEF Calm, Smooth, Good
  <2>7. ASSUME stage = "luns", req.kind = "UNIT"
        PROVE got'.unit[lun] <=> lun \in EnabledLuns
    <3>1. \E kind \in {"UNIT", "SENSE", "CAPACITY"} :
            req = Request(kind, lun)
      BY <2>1, <2>7 DEF Base, Places, LunPlaces, Requesting
    <3>2. req.lun = lun /\ lun \in Luns
      BY <3>1, RequestFacts DEF Base, UnitInv, Addressed
    <3>3. got' = [got EXCEPT !.unit[lun] = mem.answer.val]
      BY <2>2, <2>4, <2>7, <3>2 DEF UfsQueryGetData, UnitOfAnswer
    <3>4. got'.unit[lun] = mem.answer.val
      BY <3>2, <3>3 DEF Base, UnitInv, Addressed
    <3> QED BY <2>2, <2>7, <3>2, <3>4
  <2>8. Answered' BY <1>1, <2>4, <2>7 DEF Answered, Waiting
  <2>9. Linked'
    BY <1>1, <2>1, <2>4 DEF Calm, Linked, LinkIdle, Linking
  <2> QED
    BY <1>3, <2>1, <2>4, <2>6, <2>8, <2>9 DEF Calm, Smooth
<1>9. CASE UfsUtpGiveUp BY <1>2, <1>9 DEF UfsUtpGiveUp
<1>10. CASE UicPoll
  <2>1. /\ pc = "uicPoll" /\ pc' \in Linking
        /\ pc' = "uicOk" => UfsHandleUicInt
        /\ UNCHANGED <<is, clean, excused>>
    BY <1>10 DEF UicPoll, hwVars, Linking
  <2>2. LinkBusy BY <2>1 DEF Calm, Linked
  <2>3. LinkBusy' BY <1>1, <2>1, <2>2 DEF LinkBusy
  <2>4. pc' = "uicOk" => ~uic'.busy /\ pwr' = "local"
    BY <1>1, <2>1, <2>2 DEF LinkBusy, UfsHandleUicInt
  <2>5. Linked' BY <2>1, <2>3, <2>4 DEF Linked
  <2> QED
    BY <1>3, <2>1, <2>5 DEF Calm, Smooth, Answered, Waiting, Linking
<1>11. CASE UicResult
  <2>1. /\ pc = "uicOk" /\ pc' = "return" /\ is' = {}
        /\ ok' <=> ~uic.failed /\ (uic.cmd = "PMC" => pwr = "local")
        /\ UNCHANGED <<clean, excused>>
    BY <1>2, <1>11 DEF UicResult
  <2>2. stage = "init"
    BY <2>1 DEF Base, Places, LunPlaces, IoPlaces, Requesting
  <2>3. ~uic.failed /\ ~uic.busy /\ pwr = "local"
    BY <2>1 DEF Calm, Linked, LinkBusy
  <2> QED
    BY <1>1, <1>3, <2>1, <2>2, <2>3
    DEF Calm, Smooth, Linked, LinkIdle, Answered, Linking, Waiting
<1> QED BY <1>5, <1>6, <1>7, <1>8, <1>9, <1>10, <1>11 DEF Engine

-----------------------------------------------------------------------------
LEMMA CalmBring ==
  ASSUME Base, Calm, fault = 0, ~Faulty, ~GivenUp,
         UfsCalibrate \/ UfsReset \/ UfsEnable \/ UfsWaited \/ UfsUic
         \/ UfsInitQuery \/ UfsReadInitAgain \/ UfsInitReturn
  PROVE Calm'
<1>1. /\ stage = "init" /\ UNCHANGED <<clean, excused, installed, lun>>
      /\ pc \in {"begin", "wait", "return"}
  BY DEF UfsCalibrate, UfsReset, UfsEnable, UfsWaited, UfsUic, UfsInitQuery,
         UfsReadInitAgain, UfsInitReturn, InInit, InitUnchanged
<1>2. /\ LinkIdle /\ installed = {} /\ lun = 0 /\ clean /\ ~excused
      /\ "FATAL" \notin is
  BY <1>1 DEF Calm, Smooth, Linked, Looped, Linking
<1>3. Places BY DEF Base
<1>4. stage' \in {"init", "luns"}
  <2>1. NextStep \/ stage' = stage
    BY DEF UfsCalibrate, UfsReset, UfsEnable, UfsWaited, UfsUic,
           UfsInitQuery, UfsReadInitAgain, UfsInitReturn
  <2> QED BY <1>1, <1>3, <2>1, NextPlace
<1>5. Looped'
  <2>1. NLuns \in Nat /\ \A l \in EnabledLuns : ~(l < 0)
    BY LunFacts, TransportAssumption
  <2> QED BY <1>1, <1>2, <1>4, <2>1 DEF Looped
<1>6. Answered'
  BY Away DEF Steps, Answered
<1>7. /\ pc' # "failed"
  <2>1. NextStep => pc' = "begin" BY DEF NextStep, Go
  <2>2. ~(pc = "return" /\ ~ok) BY DEF Calm, Answered
  <2> QED
    BY <2>1, <2>2
    DEF UfsCalibrate, UfsReset, UfsEnable, UfsWaited, UfsUic, UfsSendUicCmd,
        UfsInitQuery, UfsReadInitAgain, UfsInitReturn, InInit, Breaks, Go,
        Start
<1>8. CASE UfsReset
  <2>1. is' = {} /\ uic' = NoUic /\ UNCHANGED pwr /\ pc' = "wait"
    BY <1>8 DEF UfsReset, Go
  <2>2. Linked' BY <1>2, <2>1 DEF Linked, LinkIdle, NoUic, Linking
  <2> QED BY <1>1, <1>2, <1>5, <1>6, <1>7, <2>1, <2>2 DEF Calm, Smooth
<1>9. CASE UfsUic
  <2>1. /\ pc = "begin" /\ pc' = "uicPoll" /\ UNCHANGED <<is, pwr>>
        /\ uic' = [cmd |-> Step, busy |-> TRUE, failed |-> FALSE]
        /\ Step \in UicSteps
    BY <1>9 DEF UfsUic, UfsSendUicCmd, InInit
  <2>2. ~BeforeReset
    BY <2>1, FirstSteps DEF Base, UicSteps
  <2>3. is \cap {"COMPL", "ERR", "PWR"} = {}
    BY <1>2, <2>2 DEF LinkIdle
  <2>4. LinkBusy' BY <1>2, <2>1, <2>3 DEF LinkBusy, LinkIdle
  <2>5. Linked' BY <2>1, <2>4 DEF Linked, Linking
  <2> QED BY <1>1, <1>2, <1>5, <1>6, <1>7, <2>1, <2>5 DEF Calm, Smooth
<1>10. CASE \/ UfsCalibrate \/ UfsEnable \/ UfsWaited \/ UfsInitQuery
            \/ UfsReadInitAgain \/ UfsInitReturn
  <2>1. UNCHANGED <<is, uic, pwr>> /\ pc' \notin Linking
    BY <1>10 DEF UfsCalibrate, UfsEnable, UfsWaited, UfsInitQuery,
                 UfsReadInitAgain, UfsInitReturn, NextStep, Breaks, Go,
                 Start, hwVars, Linking
  <2>2. ASSUME BeforeReset PROVE BeforeReset'
    <3>1. Step \in {"HOST", "RESET"} /\ pc = "begin"
      BY <2>2, FirstSteps DEF Base, BeforeReset
    <3>2. UfsCalibrate
      BY <1>10, <3>1
      DEF UfsEnable, UfsWaited, UfsInitQuery, UfsReadInitAgain,
          UfsInitReturn, InInit, QuerySteps, Queries
    <3>3. Step = "HOST" BY <3>1, <3>2 DEF UfsCalibrate, CalSteps
    <3>4. at = 1 /\ Len(InitSequence) = 34
      BY <3>3, <1>3, StepFacts DEF Places, Step
    <3>5. NextStep BY <1>7, <3>2 DEF UfsCalibrate, Breaks, Go
    <3>6. stage' = "init" /\ at' = 2 /\ pc' = "begin"
      BY <1>1, <3>3, <3>4, <3>5 DEF NextStep, Go
    <3> QED BY <3>6 DEF BeforeReset
  <2>3. Linked' BY <1>2, <2>1, <2>2 DEF Linked, LinkIdle, Linking
  <2> QED BY <1>1, <1>2, <1>5, <1>6, <1>7, <2>1, <2>3 DEF Calm, Smooth
<1> QED BY <1>8, <1>9, <1>10

(* Later the slot is free whenever the driver starts over. *)
LEMMA StartsFree ==
  ASSUME Base, Calm, stage # "init", pc \in {"begin", "ready"}
  PROVE SlotIsFree
<1>1. Slot BY DEF Base, SlotInv, Calm, Smooth
<1> QED
  BY <1>1 DEF Slot, SlotIsFree, SlotTaken, StatusRead, BeforeReset

LEMMA CalmLater ==
  ASSUME Base, Calm, fault = 0, ~Faulty, ~GivenUp,
         UfsLunBegin \/ UfsLunUnit \/ UfsRequestSense \/ UfsLunSense
         \/ UfsReadCapacity \/ UfsLunInstall \/ UfsLunsDone
         \/ Calls \/ UfsChunk \/ UfsChunkReturn \/ UfsBlocksReturn
  PROVE Calm'
<1>1. /\ stage # "init" /\ stage' # "init" /\ UNCHANGED <<is, uic, pwr>>
      /\ pc \notin Linking /\ pc' \notin Linking
  BY DEF UfsLunBegin, UfsLunUnit, UfsRequestSense, UfsLunSense,
         UfsReadCapacity, UfsLunInstall, UfsLunsDone, InLuns, NextLun,
         Calls, UfsBlocks, UfsChunk, UfsChunkReturn, UfsBlocksReturn,
         Breaks, Go, Start, hwVars, IoUnchanged, Linking, Base, Places,
         InitPlaces, Requesting
<1>2. Linked'
  BY <1>1 DEF Calm, Linked, LinkIdle, BeforeReset, Linking
<1>3. Answered' BY Away DEF Steps, Answered
<1>4. pc' # "failed"
  BY DEF UfsLunBegin, UfsLunUnit, UfsRequestSense, UfsLunSense,
         UfsReadCapacity, UfsLunInstall, UfsLunsDone, NextLun, Calls,
         UfsBlocks, UfsChunk, UfsChunkReturn, UfsBlocksReturn, Breaks, Go,
         Start
<1>5. clean' /\ ~excused'
  <2>1. CASE UfsLunBegin \/ Calls
    <3>1. pc \in {"begin", "ready"} /\ clean' = SlotIsFree
          /\ excused' = FALSE
      BY <2>1 DEF UfsLunBegin, InLuns, Calls, UfsBlocks
    <3> QED BY <1>1, <3>1, StartsFree
  <2>2. CASE UNCHANGED <<clean, excused>> BY <2>2 DEF Calm, Smooth
  <2> QED
    BY <2>1, <2>2
    DEF UfsLunUnit, UfsRequestSense, UfsLunSense, UfsReadCapacity,
        UfsLunInstall, UfsLunsDone, UfsChunk, UfsChunkReturn,
        UfsBlocksReturn, IoUnchanged
<1>6. Smooth' BY <1>1, <1>4, <1>5 DEF Calm, Smooth
<1>7. NLuns \in Nat /\ EnabledLuns \subseteq 0 .. NLuns - 1
  BY TransportAssumption DEF Luns
<1>8. Looped'
  <2>1. CASE Calls \/ UfsChunk \/ UfsChunkReturn \/ UfsBlocksReturn
    <3>1. UNCHANGED <<stage, installed>>
      BY <2>1 DEF Calls, UfsBlocks, UfsChunk, UfsChunkReturn,
                  UfsBlocksReturn, IoUnchanged
    <3>2. stage = "io"
      BY <2>1
      DEF Calls, UfsBlocks, UfsChunk, UfsChunkReturn, UfsBlocksReturn, Base,
          Places, InitPlaces, LunPlaces, Requesting, Linking
    <3> QED BY <3>1, <3>2 DEF Calm, Looped
  <2>2. CASE UfsLunBegin \/ UfsRequestSense \/ UfsLunSense
             \/ UfsReadCapacity
    <3>1. UNCHANGED <<stage, lun, installed>>
      BY <2>2 DEF UfsLunBegin, UfsRequestSense, UfsLunSense,
                  UfsReadCapacity
    <3> QED BY <3>1 DEF Calm, Looped
  <2>3. CASE UfsLunUnit
    <3>1. /\ pc = "return" /\ req.kind = "UNIT" /\ stage = "luns"
          /\ UNCHANGED <<stage, installed>>
          /\ IF got.unit[lun] THEN UNCHANGED lun ELSE lun' = lun + 1
      BY <2>3 DEF UfsLunUnit, InLuns, NextLun
    <3>2. /\ got.unit[lun] <=> lun \in EnabledLuns
          /\ installed = {l \in EnabledLuns : l < lun}
      BY <3>1 DEF Calm, Answered, Looped
    <3>3. lun \in 0 .. NLuns - 1
      BY <3>1 DEF Base, UnitInv, AtUnit, Luns
    <3>4. CASE lun \in EnabledLuns
      BY <3>1, <3>2, <3>3, <3>4 DEF Calm, Looped
    <3>5. CASE lun \notin EnabledLuns
      <4>1. lun' = lun + 1 BY <3>1, <3>2, <3>5
      <4>2. \A l \in EnabledLuns : l < lun <=> l < lun + 1
        BY <1>7, <3>3, <3>5
      <4>3. installed' = {l \in EnabledLuns : l < lun'}
        BY <3>1, <3>2, <4>1, <4>2
      <4> QED BY <1>7, <3>1, <3>3, <4>1, <4>3 DEF Looped
    <3> QED BY <3>4, <3>5
  <2>4. CASE UfsLunInstall
    <3>1. /\ pc = "return" /\ req.kind = "CAPACITY" /\ stage = "luns"
          /\ UNCHANGED stage /\ lun' = lun + 1
      BY <2>4 DEF UfsLunInstall, InLuns, NextLun
    <3>2. ok /\ installed = {l \in EnabledLuns : l < lun}
      BY <3>1 DEF Calm, Answered, Looped
    <3>3. installed' = installed \cup {lun}
      BY <2>4, <3>2 DEF UfsLunInstall, CapacityRead
    <3>4. lun \in 0 .. NLuns - 1 /\ lun \in EnabledLuns
      BY <3>1 DEF Base, UnitInv, AtUnit, Luns
    <3>5. \A l \in EnabledLuns : l < lun + 1 <=> l < lun \/ l = lun
      BY <1>7, <3>4
    <3>6. installed' = {l \in EnabledLuns : l < lun'}
      BY <3>1, <3>2, <3>3, <3>4, <3>5
    <3> QED BY <1>7, <3>1, <3>4, <3>6 DEF Looped
  <2>5. CASE UfsLunsDone
    <3>1. /\ stage = "luns" /\ lun = NLuns /\ stage' = "io"
          /\ UNCHANGED installed
      BY <2>5 DEF UfsLunsDone, InLuns
    <3>2. installed = {l \in EnabledLuns : l < lun}
      BY <3>1 DEF Calm, Looped
    <3>3. \A l \in EnabledLuns : l < NLuns BY <1>7
    <3> QED BY <3>1, <3>2, <3>3 DEF Looped
  <2> QED BY <2>1, <2>2, <2>3, <2>4, <2>5
<1> QED BY <1>2, <1>3, <1>6, <1>8 DEF Calm

LEMMA CalmStep == Base /\ CalmInv /\ [Next]_vars => CalmInv'
<1> SUFFICES ASSUME Base, CalmInv, [Next]_vars, fault' = 0 PROVE Calm'
  BY DEF CalmInv
<1>1. fault = 0 /\ ~Faulty /\ ~GivenUp BY FaultsStay
<1>2. Calm BY <1>1 DEF CalmInv
<1>3. CASE Engine /\ UNCHANGED drvVars BY <1>1, <1>2, <1>3, CalmEngine
<1>4. CASE Controller /\ UNCHANGED drvVars
  BY <1>1, <1>2, <1>4, CalmController
<1>5. CASE HwReady \/ UNCHANGED vars
  <2>1. UNCHANGED <<stage, at, lun, installed, pc, req, ok, got, clean,
                    excused, is, uic, pwr, mem, run, door>>
    BY <1>5 DEF HwReady, InitUnchanged, vars, tVars, hwVars, engVars,
                drvVars
  <2>2. /\ (Pending' <=> Pending) /\ (Good' <=> Good)
        /\ (BeforeReset' <=> BeforeReset)
    BY <2>1 DEF Pending, Good, BeforeReset
  <2> QED
    BY <1>2, <2>1, <2>2
    DEF Calm, Smooth, Linked, LinkIdle, LinkBusy, Answered, Looped
<1>6. CASE Steps
  BY <1>1, <1>2, <1>6, CalmBring, CalmLater DEF Steps
<1> QED BY <1>3, <1>4, <1>5, <1>6, NextSplit

(* If nothing fails but the answers are slow, and not too slow, bring-up   *)
(* ends with a protocol for every enabled unit (UfsDxe.c:102-127,          *)
(* UfsHandleUicInt, and 388-415, UfsUtpCheckResult; 1408-1520,             *)
(* InitUfsDriver).                                                         *)
THEOREM CleanBringsUp == Spec => []CleanBringUp
<1>1. Init => Base /\ CalmInv BY BaseInit, CalmInit
<1>2. Base /\ CalmInv /\ [Next]_vars => (Base /\ CalmInv)'
  BY BaseStep, CalmStep
<1>3. CalmInv => CleanBringUp
  BY DEF CalmInv, Calm, Smooth, Looped, CleanBringUp
<1> QED BY <1>1, <1>2, <1>3, PTL DEF Spec
-----------------------------------------------------------------------------
(* Bounded work.  WorkLeft is the number of steps the driver can still make *)
(* before bring-up is over, or the call it serves, when every request is    *)
(* tried as often as the driver tries it and every try times out.           *)

AttemptSteps == Timeout + 5
Tries        == IF NopRetry > QueryRetries THEN NopRetry ELSE QueryRetries
StepSteps    == Tries * AttemptSteps + 2
UnitSteps    == QueryRetries * AttemptSteps + 2 * AttemptSteps + 6
LunsSteps    == NLuns * UnitSteps + 1
BringUpSteps == (34 + InitReads - 1) * StepSteps + LunsSteps

Chunks(n)    == (n + MaxChunk - 1) \div MaxChunk
ChunkSteps   == AttemptSteps + 2
CallSteps(n) == Chunks(n) * ChunkSteps + 1

(* What is left of a request or UIC command. *)
RequestLeft ==
  CASE pc = "zero"                -> tries * AttemptSteps
    [] pc = "fill"                -> (tries - 1) * AttemptSteps + Timeout + 4
    [] pc = "ring"                -> (tries - 1) * AttemptSteps + Timeout + 3
    [] pc = "poll"                -> (tries - 1) * AttemptSteps + poll + 2
    [] pc \in {"ackOk", "ackBad"} -> (tries - 1) * AttemptSteps + 1
    [] pc = "uicPoll"             -> poll + 2
    [] pc \in {"uicOk", "uicBad"} -> 1
    [] OTHER                      -> 0

(* Every read of fDeviceInit that is repeated counts as a step more. *)
StepsAfter == 34 - at + left - 1
InitLeft   == StepsAfter * StepSteps
                + IF pc = "begin" THEN StepSteps ELSE RequestLeft + 1

UnitLeft ==
  CASE pc = "sense"        -> 2 * AttemptSteps + 4
    [] pc = "capacity"     -> AttemptSteps + 2
    [] pc \notin {"sense", "capacity"} /\ req.kind = "UNIT" ->
         RequestLeft + 2 * AttemptSteps + 5
    [] pc \notin {"sense", "capacity"} /\ req.kind = "SENSE" ->
         RequestLeft + AttemptSteps + 3
    [] OTHER               -> RequestLeft + 1
LunLeft ==
  IF pc = "begin" THEN (NLuns - lun) * UnitSteps + 1
  ELSE (NLuns - lun - 1) * UnitSteps + 1 + UnitLeft

IoLeft ==
  CASE pc = "ready" -> 0
    [] pc = "chunk" -> Chunks(call.n - done) * ChunkSteps + 1
    [] OTHER -> Chunks(call.n - done - req.n) * ChunkSteps + RequestLeft + 2

WorkLeft ==
  CASE pc = "failed"                    -> 0
    [] pc # "failed" /\ stage = "init"  -> InitLeft + LunsSteps
    [] pc # "failed" /\ stage = "luns"  -> LunLeft
    [] OTHER                            -> IoLeft

(* The driver with a count of its steps in bring-up, then in each call.     *)
VARIABLE steps
countVars == <<vars, steps>>

Others == HwReady \/ (pc # "failed" /\ Controller /\ UNCHANGED drvVars)
CountInit == Init /\ steps = 0
CountNext ==
  \/ Driver /\ steps' = steps + 1
  \/ Others /\ UNCHANGED steps
  \/ Calls /\ steps' = 0
CountSpec == CountInit /\ [][CountNext]_countVars

Budget == IF calls = 0 THEN BringUpSteps ELSE CallSteps(call.n)
StepsBounded == steps <= Budget

(* Counting adds nothing to what can happen.                                *)
LEMMA CountIsNext == [CountNext]_countVars => [Next]_vars
BY DEF CountNext, Others, Next, countVars

(* What the loops count, and where they are.                               *)
Counters ==
  /\ poll \in Nat /\ tries \in Nat \ {0} /\ left \in Nat \ {0}
  /\ calls \in Nat
  /\ lun \in 0 .. NLuns
  /\ stage = "init" => lun = 0

LEMMA CountersInit == Init => Counters
BY TransportAssumption, DriverAssumption DEF Init, Counters

LEMMA CountersEngine ==
  ASSUME Counters, Engine, UNCHANGED drvVars PROVE Counters'
<1> USE TransportAssumption
<1>1. UNCHANGED <<left, calls, lun, stage>> BY DEF drvVars
<1>2. poll' \in Nat /\ tries' \in Nat \ {0}
  <2> USE DEF Counters
  <2>1. CASE UfsUtpInit BY <2>1 DEF UfsUtpInit
  <2>2. CASE UfsWriteRequest BY <2>2 DEF UfsWriteRequest
  <2>3. CASE UfsUtpSend BY <2>3 DEF UfsUtpSend
  <2>4. CASE UfsUtpWaitResponse BY <2>4 DEF UfsUtpWaitResponse, PollAgain
  <2>5. CASE UfsUtpResponse BY <2>5 DEF UfsUtpResponse, Attempt
  <2>6. CASE UfsUtpGiveUp BY <2>6 DEF UfsUtpGiveUp, Attempt
  <2>7. CASE UicPoll BY <2>7 DEF UicPoll
  <2>8. CASE UicResult BY <2>8 DEF UicResult
  <2> QED
    BY <2>1, <2>2, <2>3, <2>4, <2>5, <2>6, <2>7, <2>8 DEF Engine
<1> QED BY <1>1, <1>2 DEF Counters

LEMMA CountersBring ==
  ASSUME Counters,
         UfsCalibrate \/ UfsReset \/ UfsEnable \/ UfsWaited \/ UfsUic
         \/ UfsInitQuery \/ UfsReadInitAgain \/ UfsInitReturn
  PROVE Counters'
<1>1. UNCHANGED <<lun, calls>> /\ stage = "init"
  BY DEF UfsCalibrate, UfsReset, UfsEnable, UfsWaited, UfsUic, UfsInitQuery,
         UfsReadInitAgain, UfsInitReturn, InInit, InitUnchanged
<1>2. left' \in Nat \ {0}
  BY DEF UfsCalibrate, UfsReset, UfsEnable, UfsWaited, UfsUic, UfsInitQuery,
         UfsReadInitAgain, UfsInitReturn, Counters
<1>3. \/ UNCHANGED <<poll, tries>>
      \/ poll' = Timeout /\ UNCHANGED tries
      \/ tries' \in {NopRetry, QueryRetries} /\ UNCHANGED poll
  BY DEF UfsCalibrate, UfsReset, UfsEnable, UfsWaited, UfsUic, UfsInitQuery,
         UfsReadInitAgain, UfsInitReturn, UfsSendUicCmd, NextStep, Breaks,
         Go, Start
<1> QED BY <1>1, <1>2, <1>3, TransportAssumption DEF Counters

LEMMA CountersLater ==
  ASSUME Base, Counters,
         \/ UfsLunBegin \/ UfsLunUnit \/ UfsRequestSense \/ UfsLunSense
         \/ UfsReadCapacity \/ UfsLunInstall \/ UfsLunsDone
         \/ Calls \/ UfsChunk \/ UfsChunkReturn \/ UfsBlocksReturn
  PROVE Counters'
<1>1. UNCHANGED <<left, poll>> /\ calls' \in Nat
      /\ tries' \in {tries, QueryRetries, 1}
  BY DEF UfsLunBegin, UfsLunUnit, UfsRequestSense, UfsLunSense,
         UfsReadCapacity, UfsLunInstall, UfsLunsDone, Calls, UfsBlocks,
         UfsChunk, UfsChunkReturn, UfsBlocksReturn, NextLun, Breaks, Go,
         Start, LunUnchanged, IoUnchanged, Counters
<1>2. stage # "init" /\ stage' # "init"
  BY DEF UfsLunBegin, UfsLunUnit, UfsRequestSense, UfsLunSense,
         UfsReadCapacity, UfsLunInstall, UfsLunsDone, InLuns, Calls,
         UfsBlocks, UfsChunk, UfsChunkReturn, UfsBlocksReturn, IoUnchanged,
         Base, Places, InitPlaces, Requesting, Linking
<1>3. \/ UNCHANGED lun
      \/ lun' = lun + 1 /\ stage = "luns" /\ pc \notin {"begin", "failed"}
  BY DEF UfsLunBegin, UfsLunUnit, UfsRequestSense, UfsLunSense,
         UfsReadCapacity, UfsLunInstall, UfsLunsDone, InLuns, Calls,
         UfsBlocks, UfsChunk, UfsChunkReturn, UfsBlocksReturn, IoUnchanged,
         NextLun
<1>4. stage = "luns" /\ pc \notin {"begin", "failed"} => lun \in Luns
  BY DEF Base, UnitInv, AtUnit
<1>5. lun' \in 0 .. NLuns
  BY <1>3, <1>4, TransportAssumption DEF Counters, Luns
<1> QED BY <1>1, <1>2, <1>5, TransportAssumption DEF Counters

LEMMA CountersStep == Base /\ Counters /\ [Next]_vars => Counters'
<1> SUFFICES ASSUME Base, Counters, [Next]_vars PROVE Counters'
  OBVIOUS
<1>1. CASE Engine /\ UNCHANGED drvVars BY <1>1, CountersEngine
<1>2. CASE Controller /\ UNCHANGED drvVars
  BY <1>2, ControllerMoves DEF Counters, drvVars, Base
<1>3. CASE HwReady \/ UNCHANGED vars
  BY <1>3 DEF HwReady, InitUnchanged, vars, tVars, engVars, drvVars,
              Counters
<1>4. CASE Steps BY <1>4, CountersBring, CountersLater DEF Steps
<1> QED BY <1>1, <1>2, <1>3, <1>4, NextSplit

-----------------------------------------------------------------------------
(* Arithmetic: one try, step, unit or chunk less.                          *)
LEMMA OneLess ==
  ASSUME NEW k \in Nat \ {0}, NEW s \in Nat
  PROVE (k - 1) * s \in Nat /\ k * s = (k - 1) * s + s
OBVIOUS

LEMMA FewerCostLess ==
  ASSUME NEW k \in Nat, NEW l \in Nat, k <= l, NEW s \in Nat
  PROVE k * s \in Nat /\ l * s \in Nat /\ k * s <= l * s
<1>1. PICK d \in Nat : l = k + d OBVIOUS
<1>2. k * s \in Nat /\ d * s \in Nat /\ l * s = k * s + d * s BY <1>1
<1> QED BY <1>2

LEMMA RoundsUp ==
  ASSUME NEW x \in Nat
  PROVE LET c == Chunks(x)
        IN /\ c \in Nat /\ MaxChunk * c >= x
           /\ MaxChunk * c < x + MaxChunk
<1> DEFINE c == Chunks(x)
           a == x + MaxChunk - 1
<1>1. MaxChunk \in Nat /\ MaxChunk > 0 BY TransportAssumption
<1>2. a \in Nat BY <1>1
<1> HIDE DEF a
<1>3. /\ a \div MaxChunk \in Nat /\ MaxChunk * (a \div MaxChunk) <= a
      /\ a < MaxChunk * (a \div MaxChunk) + MaxChunk
  BY <1>1, <1>2
<1>4. c = a \div MaxChunk BY DEF Chunks, a
<1> HIDE DEF c
<1>5. MaxChunk * c \in Nat BY <1>1, <1>3, <1>4
<1> QED BY <1>1, <1>3, <1>4, <1>5 DEF a, c

LEMMA MultiplesApart ==
  ASSUME NEW b \in Nat, NEW m \in Nat, NEW n \in Nat, m < n
  PROVE b * m \in Nat /\ b * n \in Nat /\ b * m + b <= b * n
<1>1. PICK k \in Nat : n = m + 1 + k OBVIOUS
<1>2. b * m \in Nat /\ b * k \in Nat /\ b * n = b * m + b + b * k BY <1>1
<1> QED BY <1>2

(* A chunk more or less is one more or less of them. *)
LEMMA OneChunkLess ==
  ASSUME NEW x \in Nat, NEW r \in Nat, 0 < x,
         r = IF x < MaxChunk THEN x ELSE MaxChunk
  PROVE Chunks(x - r) \in Nat /\ Chunks(x) = Chunks(x - r) + 1
<1> DEFINE m == Chunks(x)
           n == Chunks(x - r)
<1>1. MaxChunk \in Nat /\ MaxChunk > 0 BY TransportAssumption
<1>2. x - r \in Nat BY <1>1
<1>3. m \in Nat /\ MaxChunk * m >= x /\ MaxChunk * m < x + MaxChunk
  BY RoundsUp
<1>4. /\ n \in Nat /\ MaxChunk * n >= x - r
      /\ MaxChunk * n < x - r + MaxChunk
  BY <1>2, RoundsUp
<1> HIDE DEF m, n
<1>5. MaxChunk * (n + 1) = MaxChunk * n + MaxChunk
  BY <1>1, <1>4
<1>6. MaxChunk * m \in Nat /\ MaxChunk * n \in Nat BY <1>1, <1>3, <1>4
<1>7. n + 1 \in Nat BY <1>4
<1>8. m < n + 1 => MaxChunk * m + MaxChunk <= MaxChunk * (n + 1)
  BY <1>1, <1>3, <1>7, MultiplesApart
<1>9. n + 1 < m => MaxChunk * (n + 1) + MaxChunk <= MaxChunk * m
  BY <1>1, <1>3, <1>7, MultiplesApart
<1>10. CASE x < MaxChunk
  <2>1. MaxChunk * n < MaxChunk BY <1>1, <1>4, <1>6, <1>10
  <2>2. ~(m < n + 1)
    BY <1>1, <1>2, <1>3, <1>4, <1>5, <1>6, <1>8, <1>10
  <2>3. n = 0
    <3>1. 0 < n => MaxChunk * 0 + MaxChunk <= MaxChunk * n
      BY <1>1, <1>4, MultiplesApart
    <3> QED BY <1>1, <1>4, <1>6, <2>1, <3>1
  <2>4. MaxChunk * m < MaxChunk + MaxChunk BY <1>1, <1>3, <1>6, <1>10
  <2>5. MaxChunk * n = 0 BY <1>1, <2>3
  <2>6. ~(n + 1 < m) BY <1>1, <1>5, <1>6, <1>9, <2>4, <2>5
  <2> QED BY <1>3, <1>4, <2>2, <2>6 DEF m, n
<1>11. CASE ~(x < MaxChunk)
  <2>1. r = MaxChunk BY <1>11
  <2>2. ~(m < n + 1) BY <1>1, <1>3, <1>4, <1>5, <1>6, <1>8, <2>1
  <2>3. ~(n + 1 < m) BY <1>1, <1>3, <1>4, <1>5, <1>6, <1>9, <2>1
  <2> QED BY <1>3, <1>4, <2>2, <2>3 DEF m, n
<1> QED BY <1>10, <1>11

(* What the parts cost. *)
LEMMA Costs ==
  /\ AttemptSteps \in Nat /\ AttemptSteps = Timeout + 5 /\ Timeout \in Nat
  /\ Tries \in Nat \ {0} /\ NopRetry <= Tries /\ QueryRetries <= Tries
  /\ StepSteps \in Nat /\ StepSteps = Tries * AttemptSteps + 2
  /\ StepSteps >= AttemptSteps + 2
  /\ QueryRetries * AttemptSteps \in Nat
  /\ UnitSteps \in Nat
  /\ UnitSteps = QueryRetries * AttemptSteps + 2 * AttemptSteps + 6
  /\ LunsSteps \in Nat /\ LunsSteps = NLuns * UnitSteps + 1
  /\ ChunkSteps \in Nat /\ ChunkSteps = AttemptSteps + 2
<1>1. /\ Timeout \in Nat /\ NopRetry \in Nat \ {0} /\ NLuns \in Nat
      /\ QueryRetries \in Nat \ {0}
  BY TransportAssumption
<1>2. /\ Tries \in Nat \ {0} /\ NopRetry <= Tries /\ QueryRetries <= Tries
  BY <1>1 DEF Tries
<1>3. AttemptSteps \in Nat /\ AttemptSteps = Timeout + 5
  BY <1>1 DEF AttemptSteps
<1>4. /\ (Tries - 1) * AttemptSteps \in Nat
      /\ Tries * AttemptSteps = (Tries - 1) * AttemptSteps + AttemptSteps
  BY <1>2, <1>3, OneLess
<1>5. /\ StepSteps \in Nat /\ StepSteps = Tries * AttemptSteps + 2
      /\ StepSteps >= AttemptSteps + 2
  BY <1>3, <1>4 DEF StepSteps
<1>6. QueryRetries * AttemptSteps \in Nat BY <1>1, <1>3
<1>7. /\ UnitSteps \in Nat
      /\ UnitSteps = QueryRetries * AttemptSteps + 2 * AttemptSteps + 6
  BY <1>3, <1>6 DEF UnitSteps
<1>8. LunsSteps \in Nat /\ LunsSteps = NLuns * UnitSteps + 1
  <2>1. NLuns * UnitSteps \in Nat BY <1>1, <1>7
  <2> QED BY <2>1 DEF LunsSteps
<1>9. ChunkSteps \in Nat /\ ChunkSteps = AttemptSteps + 2
  BY <1>3 DEF ChunkSteps
<1> QED BY <1>1, <1>2, <1>3, <1>5, <1>6, <1>7, <1>8, <1>9

-----------------------------------------------------------------------------
(* A request: every step of the engine leaves it less to do.               *)
LEMMA RequestRange ==
  ASSUME Counters
  PROVE /\ RequestLeft \in Nat
        /\ pc \in Requesting \cup Linking => RequestLeft >= 1
        /\ pc \notin Requesting \cup Linking => RequestLeft = 0
<1>1. /\ (tries - 1) * AttemptSteps \in Nat
      /\ tries * AttemptSteps = (tries - 1) * AttemptSteps + AttemptSteps
  BY Costs, OneLess DEF Counters
<1>2. poll \in Nat BY DEF Counters
<1> DEFINE rest == (tries - 1) * AttemptSteps
           all  == tries * AttemptSteps
<1>3. RequestLeft =
        CASE pc = "zero"                -> all
          [] pc = "fill"                -> rest + Timeout + 4
          [] pc = "ring"                -> rest + Timeout + 3
          [] pc = "poll"                -> rest + poll + 2
          [] pc \in {"ackOk", "ackBad"} -> rest + 1
          [] pc = "uicPoll"             -> poll + 2
          [] pc \in {"uicOk", "uicBad"} -> 1
          [] OTHER                      -> 0
  BY DEF RequestLeft
<1>4. rest \in Nat /\ all = rest + AttemptSteps BY <1>1
<1> HIDE DEF rest, all
<1> QED BY <1>2, <1>3, <1>4, Costs DEF Requesting, Linking

LEMMA RequestRangeNext ==
  (Counters => RequestLeft \in Nat)'
<1>1. Counters => RequestLeft \in Nat BY RequestRange
<1> QED BY <1>1, PTL

LEMMA EngineCounts ==
  ASSUME Engine
  PROVE \/ /\ pc = "zero" /\ pc' \in {"fill", "ring"}
           /\ UNCHANGED <<poll, tries>>
        \/ pc = "fill" /\ pc' = "ring" /\ UNCHANGED <<poll, tries>>
        \/ pc = "ring" /\ pc' = "poll" /\ poll' = Timeout /\ tries' = tries
        \/ /\ pc = "poll" /\ tries' = tries
           /\ \/ pc' \in {"ackOk", "ackBad"}
              \/ pc' = "poll" /\ poll # 0 /\ poll' = poll - 1
        \/ /\ pc \in {"ackOk", "ackBad"}
           /\ \/ pc' = "return"
              \/ pc' = "zero" /\ tries # 1 /\ tries' = tries - 1
        \/ /\ pc = "uicPoll"
           /\ \/ pc' \in {"uicOk", "uicBad"}
              \/ pc' = "uicPoll" /\ poll # 0 /\ poll' = poll - 1
        \/ pc \in {"uicOk", "uicBad"} /\ pc' = "return"
BY DEF Engine, UfsUtpInit, UfsWriteRequest, UfsUtpSend, UfsUtpWaitResponse,
       PollAgain, UfsUtpResponse, UfsUtpGiveUp, Attempt, UicPoll, UicResult

LEMMA EngineShrinks ==
  ASSUME Counters, Engine, UNCHANGED drvVars
  PROVE RequestLeft' \in Nat /\ RequestLeft' + 1 <= RequestLeft
<1> DEFINE rest(n) == (n - 1) * AttemptSteps
<1>1. Counters' BY CountersEngine
<1>2. RequestLeft' \in Nat BY <1>1, RequestRangeNext
<1>3. /\ poll \in Nat /\ tries \in Nat \ {0}
      /\ poll' \in Nat /\ tries' \in Nat \ {0}
  BY <1>1 DEF Counters
<1>4. /\ rest(tries) \in Nat /\ rest(tries') \in Nat
      /\ tries * AttemptSteps = rest(tries) + AttemptSteps
      /\ tries' * AttemptSteps = rest(tries') + AttemptSteps
  BY <1>3, Costs, OneLess
<1>5. tries' = tries - 1 => tries' * AttemptSteps = rest(tries) OBVIOUS
<1>6. Timeout \in Nat /\ AttemptSteps = Timeout + 5 BY Costs
<1>7. AttemptSteps' = AttemptSteps BY DEF AttemptSteps
<1> DEFINE a == rest(tries)
           b == rest(tries')
           all == tries' * AttemptSteps
<1>8. /\ RequestLeft =
           CASE pc = "zero"                -> a + AttemptSteps
             [] pc = "fill"                -> a + Timeout + 4
             [] pc = "ring"                -> a + Timeout + 3
             [] pc = "poll"                -> a + poll + 2
             [] pc \in {"ackOk", "ackBad"} -> a + 1
             [] pc = "uicPoll"             -> poll + 2
             [] pc \in {"uicOk", "uicBad"} -> 1
             [] OTHER                      -> 0
  BY <1>4 DEF RequestLeft
<1>9. RequestLeft' =
        CASE pc' = "zero"                -> all
          [] pc' = "fill"                -> b + Timeout + 4
          [] pc' = "ring"                -> b + Timeout + 3
          [] pc' = "poll"                -> b + poll' + 2
          [] pc' \in {"ackOk", "ackBad"} -> b + 1
          [] pc' = "uicPoll"             -> poll' + 2
          [] pc' \in {"uicOk", "uicBad"} -> 1
          [] OTHER                       -> 0
  BY <1>7 DEF RequestLeft
<1>10. tries' = tries => b = a OBVIOUS
<1>11. a \in Nat /\ b \in Nat BY <1>4
<1>12. tries' = tries - 1 => all = a BY <1>5
<1> HIDE DEF a, b, all, rest
<1>13. CASE pc = "zero" /\ pc' \in {"fill", "ring"}
            /\ UNCHANGED <<poll, tries>>
  BY <1>3, <1>6, <1>8, <1>9, <1>10, <1>11, <1>13
<1>14. CASE pc = "fill" /\ pc' = "ring" /\ UNCHANGED <<poll, tries>>
  BY <1>3, <1>6, <1>8, <1>9, <1>10, <1>11, <1>14
<1>15. CASE pc = "ring" /\ pc' = "poll" /\ poll' = Timeout
            /\ tries' = tries
  BY <1>3, <1>6, <1>8, <1>9, <1>10, <1>11, <1>15
<1>16. CASE /\ pc = "poll" /\ tries' = tries
            /\ \/ pc' \in {"ackOk", "ackBad"}
               \/ pc' = "poll" /\ poll # 0 /\ poll' = poll - 1
  BY <1>3, <1>6, <1>8, <1>9, <1>10, <1>11, <1>16
<1>17. CASE /\ pc \in {"ackOk", "ackBad"}
            /\ \/ pc' = "return"
               \/ pc' = "zero" /\ tries # 1 /\ tries' = tries - 1
  BY <1>8, <1>9, <1>11, <1>12, <1>17
<1>18. CASE /\ pc = "uicPoll"
            /\ \/ pc' \in {"uicOk", "uicBad"}
               \/ pc' = "uicPoll" /\ poll # 0 /\ poll' = poll - 1
  BY <1>3, <1>8, <1>9, <1>18
<1>19. CASE pc \in {"uicOk", "uicBad"} /\ pc' = "return"
  BY <1>8, <1>9, <1>19
<1> QED
  BY <1>2, <1>13, <1>14, <1>15, <1>16, <1>17, <1>18, <1>19, EngineCounts

-----------------------------------------------------------------------------
(* What is left in each stage.                                             *)
LEMMA SameCosts ==
  /\ AttemptSteps' = AttemptSteps /\ StepSteps' = StepSteps
  /\ UnitSteps' = UnitSteps /\ LunsSteps' = LunsSteps
  /\ ChunkSteps' = ChunkSteps
BY DEF AttemptSteps, Tries, StepSteps, UnitSteps, LunsSteps, ChunkSteps

LEMMA InitRange ==
  ASSUME Base, Counters, stage = "init", pc # "failed"
  PROVE /\ StepsAfter \in Nat /\ StepsAfter * StepSteps \in Nat
        /\ pc = "begin" =>
             WorkLeft = StepsAfter * StepSteps + StepSteps + LunsSteps
        /\ pc # "begin" =>
             WorkLeft = StepsAfter * StepSteps + RequestLeft + 1 + LunsSteps
        /\ WorkLeft \in Nat
<1>1. at \in 1 .. 34 BY AtFacts
<1>2. StepsAfter \in Nat BY <1>1 DEF StepsAfter, Counters
<1>3. StepsAfter * StepSteps \in Nat BY <1>2, Costs
<1>4. WorkLeft = InitLeft + LunsSteps BY DEF WorkLeft
<1> DEFINE after == StepsAfter * StepSteps
<1>5. /\ pc = "begin" => InitLeft = after + StepSteps
      /\ pc # "begin" => InitLeft = after + (RequestLeft + 1)
  BY DEF InitLeft
<1> HIDE DEF after
<1>6. after \in Nat /\ RequestLeft \in Nat /\ StepSteps \in Nat
      /\ LunsSteps \in Nat
  BY <1>3, RequestRange, Costs DEF after
<1>7. /\ pc = "begin" => WorkLeft = after + StepSteps + LunsSteps
      /\ pc # "begin" => WorkLeft = after + RequestLeft + 1 + LunsSteps
      /\ WorkLeft \in Nat
  BY <1>4, <1>5, <1>6
<1> QED BY <1>2, <1>3, <1>7 DEF after

LEMMA UnitRange ==
  ASSUME Counters
  PROVE UnitLeft \in Nat
BY RequestRange, Costs DEF UnitLeft

LEMMA LunRange ==
  ASSUME Base, Counters, stage = "luns", pc # "failed"
  PROVE /\ pc = "begin" => /\ NLuns - lun \in Nat
                           /\ (NLuns - lun) * UnitSteps \in Nat
                           /\ WorkLeft = (NLuns - lun) * UnitSteps + 1
        /\ pc # "begin" =>
             /\ NLuns - lun - 1 \in Nat
             /\ (NLuns - lun - 1) * UnitSteps \in Nat
             /\ WorkLeft = (NLuns - lun - 1) * UnitSteps + 1 + UnitLeft
        /\ WorkLeft \in Nat
<1>1. NLuns \in Nat /\ lun \in 0 .. NLuns
  BY TransportAssumption DEF Counters
<1>2. WorkLeft = LunLeft BY DEF WorkLeft
<1>3. CASE pc = "begin"
  <2>1. NLuns - lun \in Nat BY <1>1
  <2>2. (NLuns - lun) * UnitSteps \in Nat BY <2>1, Costs
  <2>3. LunLeft = (NLuns - lun) * UnitSteps + 1 BY <1>3 DEF LunLeft
  <2> QED BY <1>2, <1>3, <2>1, <2>2, <2>3
<1>4. CASE pc # "begin"
  <2>1. lun \in Luns BY <1>4 DEF Base, UnitInv, AtUnit
  <2>2. NLuns - lun - 1 \in Nat BY <1>1, <2>1 DEF Luns
  <2>3. (NLuns - lun - 1) * UnitSteps \in Nat BY <2>2, Costs
  <2>4. LunLeft = (NLuns - lun - 1) * UnitSteps + 1 + UnitLeft
    BY <1>4 DEF LunLeft
  <2> QED BY <1>2, <1>4, <2>2, <2>3, <2>4, UnitRange
<1> QED BY <1>3, <1>4

LEMMA ChunksRange ==
  ASSUME NEW x \in Nat
  PROVE Chunks(x) \in Nat /\ Chunks(x) * ChunkSteps \in Nat
<1>1. Chunks(x) \in Nat BY RoundsUp
<1> QED BY <1>1, Costs

LEMMA IoRange ==
  ASSUME Base, Counters, Called, stage = "io"
  PROVE /\ pc = "ready" => WorkLeft = 0
        /\ pc = "chunk" =>
             WorkLeft = Chunks(call.n - done) * ChunkSteps + 1
        /\ pc \notin {"ready", "chunk"} =>
             WorkLeft = Chunks(call.n - done - req.n) * ChunkSteps
                          + RequestLeft + 2
        /\ WorkLeft \in Nat
<1>1. pc # "failed" /\ pc \in {"ready", "chunk", "return"} \cup Requesting
  BY DEF Base, Places, IoPlaces, Requesting
<1>2. WorkLeft = IoLeft BY <1>1 DEF WorkLeft
<1>3. call.n \in Nat /\ done \in 0 .. call.n
  BY TransportAssumption DEF Called
<1>4. CASE pc = "ready" BY <1>2, <1>4 DEF IoLeft
<1>5. CASE pc = "chunk"
  <2>1. call.n - done \in Nat BY <1>3
  <2> DEFINE c == Chunks(call.n - done) * ChunkSteps
  <2>2. c \in Nat BY <2>1, ChunksRange
  <2>3. IoLeft = c + 1 BY <1>5 DEF IoLeft
  <2> HIDE DEF c
  <2>4. WorkLeft = c + 1 /\ WorkLeft \in Nat BY <1>2, <2>2, <2>3
  <2> QED BY <1>5, <2>4 DEF c
<1>6. CASE pc \in Requesting \cup {"return"}
  <2>1. req.n \in Nat /\ done + req.n <= call.n BY <1>6, ChunkFits
  <2>2. call.n - done - req.n \in Nat BY <1>3, <2>1
  <2> DEFINE c == Chunks(call.n - done - req.n) * ChunkSteps
  <2>3. c \in Nat BY <2>2, ChunksRange
  <2>4. pc \notin {"ready", "chunk"} BY <1>6 DEF Requesting
  <2>5. IoLeft = c + RequestLeft + 2 BY <2>4 DEF IoLeft
  <2> HIDE DEF c
  <2>6. WorkLeft = c + RequestLeft + 2 /\ WorkLeft \in Nat
    BY <1>2, <2>3, <2>5, RequestRange
  <2> QED BY <2>4, <2>6 DEF c
<1> QED BY <1>1, <1>4, <1>5, <1>6

LEMMA WorkRange ==
  ASSUME Base, Counters, Called
  PROVE WorkLeft \in Nat
<1>1. stage \in {"init", "luns", "io"} BY DEF Base, Places
<1>2. CASE pc = "failed" BY <1>2 DEF WorkLeft
<1> QED BY <1>1, <1>2, InitRange, LunRange, IoRange

LEMMA InitRangeNext ==
  (Base /\ Counters /\ stage = "init" /\ pc # "failed" =>
     /\ StepsAfter \in Nat /\ StepsAfter * StepSteps \in Nat
     /\ pc = "begin" =>
          WorkLeft = StepsAfter * StepSteps + StepSteps + LunsSteps
     /\ pc # "begin" =>
          WorkLeft = StepsAfter * StepSteps + RequestLeft + 1 + LunsSteps)'
<1>1. Base /\ Counters /\ stage = "init" /\ pc # "failed" =>
        /\ StepsAfter \in Nat /\ StepsAfter * StepSteps \in Nat
        /\ pc = "begin" =>
             WorkLeft = StepsAfter * StepSteps + StepSteps + LunsSteps
        /\ pc # "begin" =>
             WorkLeft = StepsAfter * StepSteps + RequestLeft + 1 + LunsSteps
  BY InitRange
<1> QED BY <1>1, PTL

LEMMA LunRangeNext ==
  (Base /\ Counters /\ stage = "luns" /\ pc # "failed" =>
     /\ pc = "begin" => WorkLeft = (NLuns - lun) * UnitSteps + 1
     /\ pc # "begin" =>
          WorkLeft = (NLuns - lun - 1) * UnitSteps + 1 + UnitLeft)'
<1>1. Base /\ Counters /\ stage = "luns" /\ pc # "failed" =>
        /\ pc = "begin" => WorkLeft = (NLuns - lun) * UnitSteps + 1
        /\ pc # "begin" =>
             WorkLeft = (NLuns - lun - 1) * UnitSteps + 1 + UnitLeft
  BY LunRange
<1> QED BY <1>1, PTL

LEMMA UnitRangeNext == (Counters => UnitLeft \in Nat)'
<1>1. Counters => UnitLeft \in Nat BY UnitRange
<1> QED BY <1>1, PTL

LEMMA IoRangeNext ==
  (Base /\ Counters /\ Called /\ stage = "io" =>
     /\ pc = "ready" => WorkLeft = 0
     /\ pc = "chunk" => WorkLeft = Chunks(call.n - done) * ChunkSteps + 1
     /\ pc \notin {"ready", "chunk"} =>
          WorkLeft = Chunks(call.n - done - req.n) * ChunkSteps
                       + RequestLeft + 2)'
<1>1. Base /\ Counters /\ Called /\ stage = "io" =>
        /\ pc = "ready" => WorkLeft = 0
        /\ pc = "chunk" =>
             WorkLeft = Chunks(call.n - done) * ChunkSteps + 1
        /\ pc \notin {"ready", "chunk"} =>
             WorkLeft = Chunks(call.n - done - req.n) * ChunkSteps
                          + RequestLeft + 2
  BY IoRange
<1> QED BY <1>1, PTL

LEMMA WorkRangeNext == (Base /\ Counters /\ Called => WorkLeft \in Nat)'
<1>1. Base /\ Counters /\ Called => WorkLeft \in Nat BY WorkRange
<1> QED BY <1>1, PTL

Ranged == Base /\ Counters /\ Called

LEMMA RestIsNat ==
  ASSUME NEW n \in Nat, NEW d \in Nat, NEW r \in Nat, d + r <= n
  PROVE n - d - r \in Nat
OBVIOUS

LEMMA SumLess ==
  ASSUME NEW a \in Nat, NEW b \in Nat, NEW x \in Nat, NEW y \in Nat,
         y + 1 <= x
  PROVE /\ a + y + 1 + b + 1 <= a + x + 1 + b
        /\ a + y + 2 + 1 <= a + x + 2
        /\ a + 1 + y + 1 <= a + 1 + x
        /\ y + b + 5 + 1 <= x + b + 5
        /\ y + b + 3 + 1 <= x + b + 3
        /\ y + 1 + 1 <= x + 1
OBVIOUS

LEMMA SumFits ==
  ASSUME NEW a \in Nat, NEW b \in Nat, NEW x \in Nat, NEW y \in Nat,
         y + 2 <= x
  PROVE a + y + 1 + b + 1 <= a + x + b
OBVIOUS

LEMMA OneMore ==
  ASSUME NEW k \in Nat, NEW s \in Nat
  PROVE k + 1 \in Nat /\ k * s \in Nat /\ (k + 1) * s = k * s + s
OBVIOUS

-----------------------------------------------------------------------------
(* Each step of the driver leaves it less to do.  The engine first.        *)
LEMMA EngineWork ==
  ASSUME Ranged, Ranged', Engine, UNCHANGED drvVars
  PROVE WorkLeft' + 1 <= WorkLeft
<1> USE DEF Ranged
<1>1. /\ UNCHANGED <<stage, at, left, lun, call, done, req>>
      /\ pc \in Requesting \cup Linking
      /\ pc' \in Requesting \cup Linking \cup {"return"}
  BY EngineMoves DEF drvVars
<1>2. /\ pc \notin {"failed", "begin", "ready", "chunk", "sense", "capacity"}
      /\ pc' \notin {"failed", "begin", "ready", "chunk", "sense",
                     "capacity"}
  BY <1>1 DEF Requesting, Linking
<1>3. /\ RequestLeft' \in Nat /\ RequestLeft \in Nat
      /\ RequestLeft' + 1 <= RequestLeft
  BY EngineShrinks, RequestRange
<1>4. StepsAfter' = StepsAfter BY <1>1 DEF StepsAfter
<1>5. CASE stage = "init"
  <2> DEFINE a == StepsAfter * StepSteps
  <2>1. a \in Nat /\ WorkLeft = a + RequestLeft + 1 + LunsSteps
    BY <1>2, <1>5, InitRange
  <2>2. WorkLeft' = a + RequestLeft' + 1 + LunsSteps
    BY <1>1, <1>2, <1>4, <1>5, InitRangeNext, SameCosts
  <2> HIDE DEF a
  <2>3. a + RequestLeft' + 1 + LunsSteps + 1
          <= a + RequestLeft + 1 + LunsSteps
    BY <1>3, <2>1, Costs, SumLess
  <2> QED BY <2>1, <2>2, <2>3
<1>6. CASE stage = "luns"
  <2> DEFINE a == (NLuns - lun - 1) * UnitSteps
  <2>1. a \in Nat /\ WorkLeft = a + 1 + UnitLeft
    BY <1>2, <1>6, LunRange
  <2>2. WorkLeft' = a + 1 + UnitLeft'
    BY <1>1, <1>2, <1>6, LunRangeNext, SameCosts
  <2> HIDE DEF a
  <2>3. UnitLeft = IF req.kind = "UNIT"
                   THEN RequestLeft + 2 * AttemptSteps + 5
                   ELSE IF req.kind = "SENSE"
                        THEN RequestLeft + AttemptSteps + 3
                        ELSE RequestLeft + 1
    BY <1>2 DEF UnitLeft
  <2>4. UnitLeft' = IF req.kind = "UNIT"
                    THEN RequestLeft' + 2 * AttemptSteps + 5
                    ELSE IF req.kind = "SENSE"
                         THEN RequestLeft' + AttemptSteps + 3
                         ELSE RequestLeft' + 1
    BY <1>1, <1>2, SameCosts DEF UnitLeft
  <2>5. 2 * AttemptSteps \in Nat BY Costs
  <2>6. UnitLeft' + 1 <= UnitLeft
    BY <1>3, <2>3, <2>4, <2>5, Costs, SumLess
  <2>7. UnitLeft \in Nat /\ UnitLeft' \in Nat
    BY UnitRange, UnitRangeNext
  <2>8. a + 1 + UnitLeft' + 1 <= a + 1 + UnitLeft
    BY <2>1, <2>6, <2>7, SumLess
  <2> QED BY <2>1, <2>2, <2>8
<1>7. CASE stage = "io"
  <2> DEFINE a == Chunks(call.n - done - req.n) * ChunkSteps
  <2>1. WorkLeft = a + RequestLeft + 2
    BY <1>2, <1>7, IoRange
  <2>2. a \in Nat
    <3>1. pc \in Requesting
      BY <1>1, <1>7 DEF Base, Places, IoPlaces, Requesting, Linking
    <3>2. req.n \in Nat /\ done + req.n <= call.n BY <1>7, <3>1, ChunkFits
    <3>3. call.n \in Nat /\ done \in Nat BY TransportAssumption DEF Called
    <3>4. call.n - done - req.n \in Nat BY <3>2, <3>3, RestIsNat
    <3> QED BY <3>4, ChunksRange
  <2>3. (Chunks(call.n - done - req.n) * ChunkSteps)' = a
    BY <1>1, SameCosts DEF Chunks
  <2>4. WorkLeft' = a + RequestLeft' + 2
    BY <1>1, <1>2, <1>7, <2>3, IoRangeNext
  <2> HIDE DEF a
  <2>5. a + RequestLeft' + 2 + 1 <= a + RequestLeft + 2
    BY <1>3, <2>2, SumLess
  <2> QED BY <2>1, <2>4, <2>5
<1> QED BY <1>5, <1>6, <1>7 DEF Base, Places

(* The steps of bring-up.  One that goes on to the next leaves what comes  *)
(* after this one.                                                         *)
LEMMA InitNext ==
  ASSUME Ranged, Ranged', stage = "init", NextStep, UNCHANGED <<lun, left>>
  PROVE WorkLeft' <= StepsAfter * StepSteps + LunsSteps
<1> USE DEF Ranged
<1> DEFINE a == StepsAfter * StepSteps
<1>1. /\ pc' = "begin"
      /\ \/ stage' = "luns" /\ at' = at
         \/ stage' = "init" /\ at' \in 1 .. 34 /\ at' = at + 1
         \/ stage' = "init" /\ at = 18 /\ at' = 20
  BY NextPlace DEF Base
<1>2. /\ at \in 1 .. 34 /\ left \in Nat \ {0} /\ lun = 0
  BY AtFacts DEF Counters
<1>3. StepsAfter \in Nat BY <1>2 DEF StepsAfter
<1>4. a \in Nat BY <1>3, Costs
<1>5. CASE stage' = "luns"
  <2>1. WorkLeft' = (NLuns - lun') * UnitSteps + 1
    BY <1>1, <1>5, LunRangeNext, SameCosts
  <2>2. NLuns - lun' = NLuns BY <1>2, TransportAssumption
  <2>3. WorkLeft' = LunsSteps BY <2>1, <2>2, Costs
  <2> HIDE DEF a
  <2>4. LunsSteps <= a + LunsSteps BY <1>4, Costs
  <2> QED BY <2>3, <2>4 DEF a
<1>6. CASE stage' = "init"
  <2>1. StepsAfter' \in Nat /\ StepsAfter' + 1 <= StepsAfter
    BY <1>1, <1>2, <1>6 DEF StepsAfter
  <2> DEFINE b == StepsAfter' * StepSteps
  <2>2. b \in Nat /\ WorkLeft' = b + StepSteps + LunsSteps
    BY <1>1, <1>6, <2>1, InitRangeNext, SameCosts, Costs
  <2>3. (StepsAfter' + 1) * StepSteps = b + StepSteps
    BY <2>1, Costs, OneMore
  <2>4. (StepsAfter' + 1) * StepSteps <= a
    <3>1. StepsAfter' + 1 \in Nat BY <2>1, OneMore
    <3>2. StepSteps \in Nat BY Costs
    <3> QED BY <1>3, <2>1, <3>1, <3>2, FewerCostLess
  <2> HIDE DEF a, b
  <2>5. b + StepSteps + LunsSteps <= a + LunsSteps
    BY <1>4, <2>2, <2>3, <2>4, Costs
  <2> QED BY <2>2, <2>5 DEF a
<1> QED BY <1>1, <1>5, <1>6

LEMMA BringWork ==
  ASSUME Ranged, Ranged',
         UfsCalibrate \/ UfsReset \/ UfsEnable \/ UfsWaited \/ UfsUic
         \/ UfsInitQuery \/ UfsReadInitAgain \/ UfsInitReturn
  PROVE WorkLeft' + 1 <= WorkLeft
<1> USE DEF Ranged
<1>1. /\ stage = "init" /\ UNCHANGED lun
      /\ pc \in {"begin", "wait", "return"}
  BY DEF UfsCalibrate, UfsReset, UfsEnable, UfsWaited, UfsUic, UfsInitQuery,
         UfsReadInitAgain, UfsInitReturn, InInit, InitUnchanged
<1> DEFINE a == StepsAfter * StepSteps
<1>2. /\ StepsAfter \in Nat /\ a \in Nat
      /\ pc = "begin" => WorkLeft = a + StepSteps + LunsSteps
      /\ pc # "begin" => WorkLeft = a + 1 + LunsSteps
  <2>1. pc # "begin" => RequestLeft = 0
    BY <1>1, RequestRange DEF Requesting, Linking
  <2> QED BY <1>1, <2>1, InitRange, Costs
<1>3. /\ StepSteps \in Nat /\ LunsSteps \in Nat /\ Timeout \in Nat
      /\ AttemptSteps = Timeout + 5 /\ StepSteps >= AttemptSteps + 2
  BY Costs
<1>4. ASSUME WorkLeft' <= a + LunsSteps, WorkLeft' \in Nat
      PROVE WorkLeft' + 1 <= WorkLeft
  <2> HIDE DEF a
  <2> QED BY <1>2, <1>3, <1>4
<1>5. WorkLeft' \in Nat BY WorkRangeNext
<1>6. ASSUME NextStep, UNCHANGED left PROVE WorkLeft' + 1 <= WorkLeft
  BY <1>1, <1>4, <1>5, <1>6, InitNext
<1>7. ASSUME pc' = "failed" PROVE WorkLeft' + 1 <= WorkLeft
  <2>1. WorkLeft' = 0 BY <1>7 DEF WorkLeft
  <2>2. 0 <= a + LunsSteps BY <1>2, <1>3
  <2> QED BY <1>4, <2>1, <2>2
<1>8. ASSUME pc = "begin", pc' \notin {"begin", "failed"},
             UNCHANGED <<stage, at, left>>,
             RequestLeft' + 2 <= StepSteps
      PROVE WorkLeft' + 1 <= WorkLeft
  <2>1. StepsAfter' = StepsAfter BY <1>8 DEF StepsAfter
  <2>2. WorkLeft' = a + RequestLeft' + 1 + LunsSteps
    BY <1>1, <1>8, <2>1, InitRangeNext, SameCosts
  <2>3. RequestLeft' \in Nat BY RequestRangeNext
  <2> HIDE DEF a
  <2>4. a + RequestLeft' + 1 + LunsSteps + 1 <= a + StepSteps + LunsSteps
    BY <1>2, <1>3, <1>8, <2>3, SumFits
  <2> QED BY <1>2, <1>8, <2>2, <2>4
<1>9. CASE UfsCalibrate
  BY <1>6, <1>7, <1>9 DEF UfsCalibrate, Breaks, Go
<1>10. CASE UfsReset \/ UfsEnable
  <2>1. /\ pc = "begin" /\ pc' = "wait" /\ UNCHANGED <<stage, at, left>>
    BY <1>10 DEF UfsReset, UfsEnable, Go, InInit
  <2>2. RequestLeft' = 0 BY <2>1 DEF RequestLeft
  <2>3. RequestLeft' + 2 <= StepSteps BY <1>3, <2>2
  <2> QED BY <1>8, <2>1, <2>3
<1>11. CASE UfsWaited BY <1>6, <1>11 DEF UfsWaited
<1>12. CASE UfsUic
  <2>1. /\ pc = "begin" /\ pc' = "uicPoll" /\ poll' = Timeout
        /\ UNCHANGED <<stage, at, left>>
    BY <1>12 DEF UfsUic, UfsSendUicCmd, InInit
  <2>2. RequestLeft' = Timeout + 2 BY <2>1 DEF RequestLeft
  <2>3. RequestLeft' + 2 <= StepSteps BY <1>3, <2>2
  <2> QED BY <1>8, <2>1, <2>3
<1>13. CASE UfsInitQuery
  <2>1. /\ pc = "begin" /\ pc' = "zero" /\ UNCHANGED <<stage, at, left>>
        /\ tries' \in {NopRetry, QueryRetries}
    BY <1>13 DEF UfsInitQuery, Start, InInit
  <2>2. RequestLeft' = tries' * AttemptSteps
    BY <2>1, SameCosts DEF RequestLeft
  <2>3. /\ tries' \in Nat /\ tries' <= Tries /\ Tries \in Nat
        /\ AttemptSteps \in Nat
    BY <2>1, Costs, TransportAssumption
  <2>4. /\ tries' * AttemptSteps \in Nat /\ Tries * AttemptSteps \in Nat
        /\ tries' * AttemptSteps <= Tries * AttemptSteps
    BY <2>3, FewerCostLess
  <2>5. RequestLeft' + 2 <= StepSteps BY <2>2, <2>4, Costs
  <2> QED BY <1>8, <2>1, <2>5
<1>14. CASE UfsReadInitAgain
  <2>1. /\ pc = "return" /\ pc' = "begin" /\ UNCHANGED <<stage, at>>
        /\ left > 1 /\ left' = left - 1
    BY <1>14 DEF UfsReadInitAgain, Go, InInit
  <2>2. at \in 1 .. 34 /\ left \in Nat BY AtFacts DEF Counters
  <2>3. StepsAfter' \in Nat /\ StepsAfter = StepsAfter' + 1
    BY <2>1, <2>2 DEF StepsAfter
  <2> DEFINE b == StepsAfter' * StepSteps
  <2>4. b \in Nat /\ a = b + StepSteps
    <3>1. b \in Nat /\ (StepsAfter' + 1) * StepSteps = b + StepSteps
      BY <1>3, <2>3, OneMore
    <3> QED BY <2>3, <3>1
  <2>5. WorkLeft' = b + StepSteps + LunsSteps
    BY <1>1, <2>1, InitRangeNext, SameCosts
  <2>6. WorkLeft' = a + LunsSteps BY <2>4, <2>5
  <2> HIDE DEF a, b
  <2>7. a + LunsSteps \in Nat BY <1>2, <1>3
  <2> QED BY <1>4, <2>6, <2>7
<1>15. CASE UfsInitReturn
  BY <1>6, <1>7, <1>15 DEF UfsInitReturn, Go
<1> QED
  BY <1>9, <1>10, <1>11, <1>12, <1>13, <1>14, <1>15

(* The steps of the loop over the units.                                   *)
LEMMA UnitCosts ==
  ASSUME Counters, pc \notin Requesting \cup Linking
  PROVE /\ pc = "sense" => UnitLeft = 2 * AttemptSteps + 4
        /\ pc = "capacity" => UnitLeft = AttemptSteps + 2
        /\ pc \notin {"sense", "capacity"} =>
             /\ req.kind = "UNIT" => UnitLeft = 2 * AttemptSteps + 5
             /\ req.kind = "SENSE" => UnitLeft = AttemptSteps + 3
             /\ req.kind \notin {"UNIT", "SENSE"} => UnitLeft = 1
<1>1. RequestLeft = 0 BY RequestRange
<1> QED BY <1>1, Costs DEF UnitLeft

LEMMA UnitCostsNext ==
  ASSUME pc' = "zero" \/ pc' \in {"sense", "capacity"}
  PROVE /\ pc' = "sense" => UnitLeft' = 2 * AttemptSteps + 4
        /\ pc' = "capacity" => UnitLeft' = AttemptSteps + 2
        /\ pc' = "zero" =>
             UnitLeft' = IF req'.kind = "UNIT"
                         THEN tries' * AttemptSteps + 2 * AttemptSteps + 5
                         ELSE IF req'.kind = "SENSE"
                              THEN tries' * AttemptSteps + AttemptSteps + 3
                              ELSE tries' * AttemptSteps + 1
<1>1. pc' = "zero" => RequestLeft' = tries' * AttemptSteps
  BY SameCosts DEF RequestLeft
<1> QED BY <1>1, SameCosts DEF UnitLeft

LEMMA LoopWork ==
  ASSUME Ranged, Ranged',
         UfsLunBegin \/ UfsLunUnit \/ UfsRequestSense \/ UfsLunSense
         \/ UfsReadCapacity \/ UfsLunInstall \/ UfsLunsDone
  PROVE WorkLeft' + 1 <= WorkLeft
<1> USE DEF Ranged
<1>1. stage = "luns" /\ pc \in {"begin", "return", "sense", "capacity"}
  BY DEF UfsLunBegin, UfsLunUnit, UfsRequestSense, UfsLunSense,
         UfsReadCapacity, UfsLunInstall, UfsLunsDone, InLuns
<1>2. pc \notin Requesting \cup Linking BY <1>1 DEF Requesting, Linking
<1> DEFINE rest == (NLuns - lun - 1) * UnitSteps
<1>3. ASSUME pc # "begin"
      PROVE /\ rest \in Nat /\ WorkLeft = rest + 1 + UnitLeft
            /\ UnitLeft \in Nat
  BY <1>1, <1>3, LunRange, UnitRange
<1>4. AttemptSteps \in Nat /\ 2 * AttemptSteps \in Nat
  BY Costs
(* A step to the next request, or place, of the same unit. *)
<1>5. ASSUME pc # "begin", UNCHANGED <<stage, lun>>,
             pc' \notin {"begin", "failed"}, UnitLeft' + 1 <= UnitLeft
      PROVE WorkLeft' + 1 <= WorkLeft
  <2>1. rest \in Nat /\ WorkLeft = rest + 1 + UnitLeft BY <1>3, <1>5
  <2>2. WorkLeft' = rest + 1 + UnitLeft'
    BY <1>1, <1>5, LunRangeNext, SameCosts
  <2>3. UnitLeft \in Nat /\ UnitLeft' \in Nat
    BY UnitRange, UnitRangeNext
  <2> HIDE DEF rest
  <2>4. rest + 1 + UnitLeft' + 1 <= rest + 1 + UnitLeft
    BY <1>5, <2>1, <2>3, SumLess
  <2> QED BY <2>1, <2>2, <2>4
(* A step to the next unit. *)
<1>6. ASSUME pc # "begin", stage' = stage, lun' = lun + 1, pc' = "begin",
             UnitLeft >= 1
      PROVE WorkLeft' + 1 <= WorkLeft
  <2>1. rest \in Nat /\ WorkLeft = rest + 1 + UnitLeft BY <1>3, <1>6
  <2>2. NLuns - lun' = NLuns - lun - 1
    BY <1>6, TransportAssumption DEF Counters
  <2>3. WorkLeft' = rest + 1
    BY <1>1, <1>6, <2>2, LunRangeNext, SameCosts
  <2>4. UnitLeft \in Nat BY UnitRange
  <2> HIDE DEF rest
  <2>5. rest + 1 + 1 <= rest + 1 + UnitLeft BY <1>6, <2>1, <2>4
  <2> QED BY <2>1, <2>3, <2>5
<1>7. CASE UfsLunBegin
  <2>1. pc = "begin" /\ lun < NLuns
    BY <1>7 DEF UfsLunBegin, InLuns
  <2>2. /\ NLuns - lun \in Nat /\ NLuns - lun - 1 \in Nat
        /\ NLuns - lun - 1 + 1 = NLuns - lun
    BY <2>1, TransportAssumption DEF Counters
  <2>3. rest \in Nat /\ (NLuns - lun) * UnitSteps = rest + UnitSteps
    <3>1. /\ rest \in Nat
          /\ (NLuns - lun - 1 + 1) * UnitSteps = rest + UnitSteps
      BY <2>2, Costs, OneMore
    <3> QED BY <2>2, <3>1
  <2>4. WorkLeft = rest + UnitSteps + 1 BY <1>1, <2>1, <2>3, LunRange
  <2>5. CASE pc' = "failed"
    <3>1. WorkLeft' = 0 BY <2>5 DEF WorkLeft
    <3> HIDE DEF rest
    <3> QED BY <2>3, <2>4, <3>1, Costs
  <2>6. CASE Start(Request("UNIT", lun), QueryRetries)
    <3>1. /\ pc' = "zero" /\ UNCHANGED <<stage, lun>>
          /\ req'.kind = "UNIT" /\ tries' = QueryRetries
      BY <1>7, <2>6, RequestFacts DEF UfsLunBegin, Start
    <3> DEFINE q == QueryRetries * AttemptSteps
    <3>2. UnitLeft' = q + 2 * AttemptSteps + 5
      BY <3>1, UnitCostsNext
    <3>3. WorkLeft' = rest + 1 + UnitLeft'
      BY <1>1, <3>1, LunRangeNext, SameCosts
    <3>4. q \in Nat /\ UnitSteps = q + 2 * AttemptSteps + 6 BY Costs
    <3> HIDE DEF rest, q
    <3> QED BY <1>4, <2>3, <2>4, <3>2, <3>3, <3>4
  <2> QED BY <1>7, <2>5, <2>6 DEF UfsLunBegin, Breaks, Go
<1>8. CASE UfsLunUnit
  <2>1. /\ pc = "return" /\ req.kind = "UNIT" /\ stage' = stage
        /\ \/ pc' = "sense" /\ UNCHANGED lun
           \/ pc' = "begin" /\ lun' = lun + 1
    BY <1>8 DEF UfsLunUnit, NextLun, Go, InLuns
  <2>2. UnitLeft = 2 * AttemptSteps + 5 BY <1>2, <2>1, UnitCosts
  <2>3. pc' = "sense" => UnitLeft' = 2 * AttemptSteps + 4
    BY UnitCostsNext
  <2>4. UnitLeft >= 1 /\ (pc' = "sense" => UnitLeft' + 1 <= UnitLeft)
    BY <1>4, <2>2, <2>3
  <2> QED BY <1>5, <1>6, <2>1, <2>4
<1>9. CASE UfsRequestSense
  <2>1. /\ pc = "sense" /\ UNCHANGED <<stage, lun>>
        /\ \/ pc' = "capacity"
           \/ pc' = "zero" /\ tries' = 1 /\ req'.kind = "SENSE"
    BY <1>9, RequestFacts DEF UfsRequestSense, Breaks, Go, Start, InLuns
  <2>2. UnitLeft = 2 * AttemptSteps + 4 BY <1>2, <2>1, UnitCosts
  <2>3. /\ pc' = "capacity" => UnitLeft' = AttemptSteps + 2
        /\ pc' = "zero" => UnitLeft' = AttemptSteps + AttemptSteps + 3
    BY <1>4, <2>1, UnitCostsNext
  <2>4. UnitLeft' + 1 <= UnitLeft BY <1>4, <2>1, <2>2, <2>3
  <2> QED BY <1>5, <2>1, <2>4
<1>10. CASE UfsLunSense
  <2>1. /\ pc = "return" /\ req.kind = "SENSE" /\ UNCHANGED <<stage, lun>>
        /\ pc' = "capacity"
    BY <1>10 DEF UfsLunSense, Go, InLuns
  <2>2. UnitLeft = AttemptSteps + 3 BY <1>2, <2>1, UnitCosts
  <2>3. UnitLeft' = AttemptSteps + 2 BY <2>1, UnitCostsNext
  <2>4. UnitLeft' + 1 <= UnitLeft BY <1>4, <2>2, <2>3
  <2> QED BY <1>5, <2>1, <2>4
<1>11. CASE UfsReadCapacity
  <2>1. /\ pc = "capacity" /\ stage' = stage
        /\ \/ pc' = "begin" /\ lun' = lun + 1
           \/ /\ pc' = "zero" /\ tries' = 1 /\ req'.kind = "CAPACITY"
              /\ UNCHANGED lun
    BY <1>11, RequestFacts DEF UfsReadCapacity, NextLun, Go, Start, InLuns
  <2>2. UnitLeft = AttemptSteps + 2 BY <1>2, <2>1, UnitCosts
  <2>3. pc' = "zero" => UnitLeft' = AttemptSteps + 1
    BY <1>4, <2>1, UnitCostsNext
  <2>4. /\ UnitLeft >= 1 /\ (pc' = "zero" => UnitLeft' + 1 <= UnitLeft)
    BY <1>4, <2>2, <2>3
  <2> QED BY <1>5, <1>6, <2>1, <2>4
<1>12. CASE UfsLunInstall
  <2>1. /\ pc = "return" /\ req.kind = "CAPACITY" /\ stage' = stage
        /\ pc' = "begin" /\ lun' = lun + 1
    BY <1>12 DEF UfsLunInstall, NextLun, Go, InLuns
  <2>2. UnitLeft = 1 BY <1>2, <2>1, UnitCosts
  <2> QED BY <1>6, <2>1, <2>2
<1>13. CASE UfsLunsDone
  <2>1. pc = "begin" /\ stage' = "io" /\ pc' = "ready"
    BY <1>13 DEF UfsLunsDone, Go, InLuns
  <2>2. WorkLeft' = 0 BY <2>1, IoRangeNext
  <2>3. /\ (NLuns - lun) * UnitSteps \in Nat
        /\ WorkLeft = (NLuns - lun) * UnitSteps + 1
    BY <1>1, <2>1, LunRange
  <2> QED BY <2>2, <2>3
<1> QED BY <1>7, <1>8, <1>9, <1>10, <1>11, <1>12, <1>13

(* The steps of a call.                                                    *)
LEMMA CallWork ==
  ASSUME Ranged, Ranged', UfsChunk \/ UfsChunkReturn \/ UfsBlocksReturn
  PROVE WorkLeft' + 1 <= WorkLeft
<1> USE DEF Ranged
<1>1. stage = "io" /\ stage' = "io"
  BY DEF UfsChunk, UfsChunkReturn, UfsBlocksReturn, IoUnchanged, Base,
         Places, InitPlaces, LunPlaces, Requesting, Linking
<1>2. /\ call.n \in Nat /\ done \in 0 .. call.n
      /\ MaxChunk \in Nat /\ MaxChunk > 0
  <2>1. MaxCall \in Nat /\ MaxChunk \in Nat /\ MaxChunk > 0
    BY TransportAssumption
  <2>2. call.n \in 0 .. MaxCall /\ done \in 0 .. call.n BY DEF Called
  <2> QED BY <2>1, <2>2
<1>3. CASE UfsChunk
  <2>1. /\ pc = "chunk" /\ pc' = "zero" /\ tries' = 1 /\ done < call.n
        /\ UNCHANGED <<call, done>> /\ req'.n = ChunkBlks
    BY <1>3 DEF UfsChunk, Start
  <2> DEFINE x == call.n - done
             c == Chunks(x - ChunkBlks)
  <2>2. x \in Nat /\ 0 < x BY <1>2, <2>1
  <2>3. ChunkBlks = IF x < MaxChunk THEN x ELSE MaxChunk BY DEF ChunkBlks
  <2>4. ChunkBlks \in Nat BY <1>2, <2>2, <2>3
  <2>5. c \in Nat /\ Chunks(x) = c + 1
    <3> HIDE DEF x
    <3> QED BY <2>2, <2>3, <2>4, OneChunkLess
  <2>6. WorkLeft = Chunks(x) * ChunkSteps + 1
    BY <1>1, <2>1, IoRange
  <2>7. RequestLeft' = AttemptSteps
    BY <2>1, SameCosts, Costs DEF RequestLeft
  <2>8. (Chunks(call.n - done - req.n) * ChunkSteps)' = c * ChunkSteps
    BY <2>1, SameCosts DEF Chunks
  <2>9. WorkLeft' = c * ChunkSteps + AttemptSteps + 2
    BY <1>1, <2>1, <2>7, <2>8, IoRangeNext
  <2>10. /\ c * ChunkSteps \in Nat
         /\ Chunks(x) * ChunkSteps = c * ChunkSteps + ChunkSteps
    <3> HIDE DEF c
    <3> QED BY <2>5, Costs, OneMore
  <2> DEFINE k == c * ChunkSteps
  <2>11. /\ k \in Nat /\ WorkLeft = k + ChunkSteps + 1
         /\ WorkLeft' = k + AttemptSteps + 2
    BY <2>6, <2>9, <2>10
  <2> HIDE DEF x, c, k
  <2> QED BY <2>11, Costs
<1>4. CASE UfsChunkReturn
  <2>1. /\ pc = "return" /\ UNCHANGED call
        /\ \/ pc' = "chunk" /\ done' = done + req.n
           \/ pc' = "ready"
    BY <1>4 DEF UfsChunkReturn, Go, IoUnchanged
  <2>2. req.n \in Nat /\ done + req.n <= call.n
    BY <1>1, <2>1, ChunkFits
  <2> DEFINE k == Chunks(call.n - done - req.n) * ChunkSteps
  <2>3. call.n - done - req.n \in Nat BY <1>2, <2>2
  <2>4. k \in Nat BY <2>3, ChunksRange
  <2>5. RequestLeft = 0 BY <2>1, RequestRange DEF Requesting, Linking
  <2>6. WorkLeft = k + 2 BY <1>1, <2>1, <2>4, <2>5, IoRange
  <2>7. pc' = "ready" => WorkLeft' = 0 BY <1>1, IoRangeNext
  <2>8. ASSUME pc' = "chunk" PROVE WorkLeft' = k + 1
    <3>1. call.n - (done + req.n) = call.n - done - req.n BY <1>2, <2>2
    <3>2. (Chunks(call.n - done) * ChunkSteps)'
            = Chunks(call.n - (done + req.n)) * ChunkSteps
      BY <2>1, <2>8, SameCosts DEF Chunks
    <3>3. (Chunks(call.n - done) * ChunkSteps)' = k BY <3>1, <3>2
    <3>4. WorkLeft' = (Chunks(call.n - done) * ChunkSteps)' + 1
      BY <1>1, <2>8, IoRangeNext
    <3> QED BY <3>3, <3>4
  <2> HIDE DEF k
  <2> QED BY <2>1, <2>4, <2>6, <2>7, <2>8
<1>5. CASE UfsBlocksReturn
  <2>1. pc = "chunk" /\ pc' = "ready" BY <1>5 DEF UfsBlocksReturn, Go
  <2> DEFINE k == Chunks(call.n - done) * ChunkSteps
  <2>2. call.n - done \in Nat BY <1>2
  <2>3. k \in Nat /\ WorkLeft = k + 1
    BY <1>1, <2>1, <2>2, ChunksRange, IoRange
  <2>4. WorkLeft' = 0 BY <1>1, <2>1, IoRangeNext
  <2> HIDE DEF k
  <2> QED BY <2>3, <2>4
<1> QED BY <1>3, <1>4, <1>5

LEMMA DriverShrinks ==
  ASSUME Ranged, Ranged', Driver
  PROVE WorkLeft' + 1 <= WorkLeft /\ UNCHANGED <<calls, call>>
<1>1. WorkLeft' + 1 <= WorkLeft
  BY EngineWork, BringWork, LoopWork, CallWork DEF Driver
<1>2. UNCHANGED <<calls, call>>
  BY DEF Driver, drvVars, UfsCalibrate, UfsReset, UfsEnable, UfsWaited,
         UfsUic, UfsInitQuery, UfsReadInitAgain, UfsInitReturn,
         InitUnchanged, UfsLunBegin, UfsLunUnit, UfsRequestSense,
         UfsLunSense, UfsReadCapacity, UfsLunInstall, UfsLunsDone,
         LunUnchanged, UfsChunk, UfsChunkReturn, UfsBlocksReturn,
         IoUnchanged
<1> QED BY <1>1, <1>2

(* What the others do does not make the driver's work longer. *)
LEMMA OthersKeep ==
  ASSUME Ranged, Others \/ UNCHANGED vars
  PROVE WorkLeft' = WorkLeft /\ UNCHANGED <<calls, call>>
<1>1. UNCHANGED <<pc, req, poll, tries, stage, at, lun, left, call, done,
                  calls>>
  <2>1. CASE HwReady \/ UNCHANGED vars
    BY <2>1 DEF HwReady, InitUnchanged, vars, tVars, engVars, drvVars
  <2>2. CASE Controller /\ UNCHANGED drvVars
    BY <2>2, ControllerMoves DEF drvVars, Ranged, Base
  <2> QED BY <2>1, <2>2 DEF Others
<1>2. RequestLeft' = RequestLeft BY <1>1, SameCosts DEF RequestLeft
<1>3. StepsAfter' = StepsAfter BY <1>1 DEF StepsAfter
<1>4. InitLeft' = InitLeft BY <1>1, <1>2, <1>3, SameCosts DEF InitLeft
<1>5. UnitLeft' = UnitLeft BY <1>1, <1>2, SameCosts DEF UnitLeft
<1>6. LunLeft' = LunLeft BY <1>1, <1>5, SameCosts DEF LunLeft
<1>7. IoLeft' = IoLeft BY <1>1, <1>2, SameCosts DEF IoLeft, Chunks
<1> QED BY <1>1, <1>4, <1>6, <1>7, SameCosts DEF WorkLeft

(* A call begins with its own budget. *)
LEMMA CallsBudget ==
  ASSUME Ranged, Ranged', Calls
  PROVE WorkLeft' = Budget'
<1>1. /\ pc = "ready" /\ pc' = "chunk" /\ stage' = stage /\ done' = 0
      /\ calls' = calls + 1
  BY DEF Calls, UfsBlocks, Go
<1>2. stage = "io" /\ calls' # 0
  <2>1. stage = "io"
    BY <1>1 DEF Ranged, Base, Places, InitPlaces, LunPlaces, Requesting,
                Linking
  <2>2. calls \in Nat BY DEF Ranged, Counters
  <2> QED BY <1>1, <2>1, <2>2
<1>3. (Chunks(call.n - done) * ChunkSteps)' = (Chunks(call.n) * ChunkSteps)'
  <2>1. call'.n \in Nat BY TransportAssumption DEF Ranged, Called
  <2>2. call'.n - done' = call'.n BY <1>1, <2>1
  <2> QED BY <2>2 DEF Chunks
<1>4. WorkLeft' = (Chunks(call.n) * ChunkSteps)' + 1
  BY <1>1, <1>2, <1>3, IoRangeNext DEF Ranged
<1> QED BY <1>2, <1>4 DEF Budget, CallSteps

LEMMA InitBudget ==
  ASSUME Init PROVE WorkLeft = Budget
<1>1. /\ stage = "init" /\ pc = "begin" /\ at = 1 /\ left = InitReads
      /\ lun = 0 /\ calls = 0
  BY DEF Init
<1>2. Base /\ Counters BY BaseInit, CountersInit
<1>3. InitReads \in Nat \ {0} BY DriverAssumption
<1>4. WorkLeft = StepsAfter * StepSteps + StepSteps + LunsSteps
  BY <1>1, <1>2, InitRange
<1>5. /\ StepsAfter \in Nat /\ StepsAfter + 1 = 34 + InitReads - 1
  BY <1>1, <1>3 DEF StepsAfter
<1>6. (StepsAfter + 1) * StepSteps = StepsAfter * StepSteps + StepSteps
  BY <1>5, Costs, OneMore
<1>7. (34 + InitReads - 1) * StepSteps = StepsAfter * StepSteps + StepSteps
  BY <1>5, <1>6
<1> QED BY <1>1, <1>4, <1>7 DEF Budget, BringUpSteps

LEMMA BudgetRange ==
  ASSUME Called PROVE Budget \in Nat
<1>1. BringUpSteps \in Nat
  <2>1. 34 + InitReads - 1 \in Nat BY DriverAssumption
  <2>2. (34 + InitReads - 1) * StepSteps \in Nat BY <2>1, Costs
  <2> QED BY <2>2, Costs DEF BringUpSteps
<1>2. CallSteps(call.n) \in Nat
  <2>1. call.n \in Nat BY TransportAssumption DEF Called
  <2> QED BY <2>1, ChunksRange DEF CallSteps
<1> QED BY <1>1, <1>2 DEF Budget

LEMMA BudgetRangeNext == (Called => Budget \in Nat)'
<1>1. Called => Budget \in Nat BY BudgetRange
<1> QED BY <1>1, PTL

LEMMA StepCounted ==
  ASSUME NEW n \in Nat, NEW w \in Nat, NEW v \in Nat, NEW b \in Nat,
         n + w <= b
  PROVE /\ n <= b
        /\ v + 1 <= w => n + 1 \in Nat /\ n + 1 + v <= b
OBVIOUS

LEMMA NoneCounted == ASSUME NEW w \in Nat PROVE 0 + w <= w
OBVIOUS

(* Bring-up is over after at most BringUpSteps steps of the driver, and a  *)
(* call of n blocks after at most CallSteps(n), whatever the controller    *)
(* and the device do in between and whichever requests are given up: the   *)
(* loops over steps, reads of fDeviceInit, units, chunks, retries and      *)
(* polls (UfsDxe.c:129-151, 388-462, 1222-1373, 1408-1520) nest without    *)
(* starting each other over.                                               *)
THEOREM CallsBounded == CountSpec => []StepsBounded
<1> DEFINE Inv == Base /\ Device /\ MoveInv /\ Counters
           Inv2 == Inv /\ steps \in Nat /\ steps + WorkLeft <= Budget
<1>1. Inv => Ranged BY DEF Ranged, MoveInv
<1>2. (Inv => Ranged)' BY <1>1, PTL
<1>3. Inv /\ [Next]_vars => Inv'
  BY BaseStep, DeviceStep, MoveStep, CountersStep DEF Base
<1>4. CountInit => Inv2
  <2>1. ASSUME CountInit PROVE Inv2
    <3>1. Init /\ steps = 0 BY <2>1 DEF CountInit
    <3>2. Inv BY <3>1, BaseInit, DeviceInit, MoveInit, CountersInit
    <3>3. WorkLeft \in Nat BY <1>1, <3>2, WorkRange DEF Ranged
    <3>4. WorkLeft = Budget BY <3>1, InitBudget
    <3> QED BY <3>1, <3>2, <3>3, <3>4
  <2> QED BY <2>1
<1>5. Inv2 /\ [CountNext]_countVars => Inv2'
  <2> SUFFICES ASSUME Inv2, [CountNext]_countVars PROVE Inv2'
    OBVIOUS
  <2>1. [Next]_vars
    BY DEF CountNext, countVars, Others, Next
  <2>2. Inv' BY <1>3, <2>1
  <2>3. Ranged /\ Ranged' BY <1>1, <1>2, <2>2
  <2>4. WorkLeft \in Nat /\ WorkLeft' \in Nat
    BY <2>3, WorkRange, WorkRangeNext DEF Ranged
  <2>5. Budget \in Nat /\ Budget' \in Nat
    BY <2>3, BudgetRange, BudgetRangeNext DEF Ranged
  <2> HIDE DEF Inv
  <2>6. CASE Driver /\ steps' = steps + 1
    <3>1. WorkLeft' + 1 <= WorkLeft /\ UNCHANGED <<calls, call>>
      BY <2>3, <2>6, DriverShrinks
    <3>2. Budget' = Budget
      BY <3>1, SameCosts DEF Budget, BringUpSteps, CallSteps, Chunks
    <3>3. steps + 1 \in Nat /\ steps + 1 + WorkLeft' <= Budget
      BY <2>4, <2>5, <3>1, StepCounted
    <3> QED BY <2>2, <2>6, <3>2, <3>3
  <2>7. CASE (Others \/ UNCHANGED vars) /\ UNCHANGED steps
    <3>1. WorkLeft' = WorkLeft /\ UNCHANGED <<calls, call>>
      BY <2>3, <2>7, OthersKeep
    <3>2. Budget' = Budget
      BY <3>1, SameCosts DEF Budget, BringUpSteps, CallSteps, Chunks
    <3> QED BY <2>2, <2>7, <3>1, <3>2
  <2>8. CASE Calls /\ steps' = 0
    <3>1. WorkLeft' = Budget' BY <2>3, <2>8, CallsBudget
    <3>2. 0 + WorkLeft' <= WorkLeft' BY <2>4, NoneCounted
    <3>3. steps' \in Nat /\ steps' + WorkLeft' <= Budget'
      BY <2>8, <3>1, <3>2
    <3> QED BY <2>2, <3>3
  <2> QED BY <2>6, <2>7, <2>8 DEF CountNext, countVars
<1>6. Inv2 => StepsBounded
  <2>1. Inv => WorkLeft \in Nat /\ Budget \in Nat
    BY <1>1, WorkRange, BudgetRange DEF Ranged
  <2> HIDE DEF Inv
  <2> QED BY <2>1, StepCounted DEF StepsBounded
<1> QED BY <1>4, <1>5, <1>6, PTL DEF CountSpec
=============================================================================
