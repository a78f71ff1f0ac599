-------------------------- MODULE Mt6358Regulator --------------------------
(***************************************************************************)
(* MT6358PmicDxe over the PMIC wrapper: RegulatorSetEnable and             *)
(* RegulatorIsEnabled of the card supply ldo_vmch_eint_low, each a         *)
(* sequence of wrapper calls at level 1.  The rail is enabled in its CON0  *)
(* register and gated by VMCH_EINT_CON0.  The keypad timer reads TOPSTATUS *)
(* at level 2: between two wrapper calls of level 1, or, when Nested, in   *)
(* the middle of one, which nothing in the code prevents.                  *)
(***************************************************************************)
EXTENDS PmicWrapper, Sequences

CONSTANT Nested   \* whether the timer may preempt a wrapper call

VARIABLE job   \* the regulator call in progress at level 1

regVars == <<vars, job>>

(* BIT0 enables the rail, or arms the gate; the other bit is one of CON0   *)
(* the driver has to leave alone, or the polarity of the gate.             *)
Enable == "BIT0"
Polarity == "BIT2"
Registers == {"CON0", "EINT", "TOPSTATUS"}

(* A register holds any set of bits, those two among them. *)
ASSUME RegulatorAssumption ==
  /\ Registers \subseteq Regs
  /\ {Enable, Polarity} \in Values
  /\ Values = SUBSET UNION Values
  /\ Nested \in BOOLEAN

Update(addr, bit, value) == [addr |-> addr, mask |-> {bit}, value |-> value]

Arm == Update("EINT", Enable, {Enable})
RailOff == Update("CON0", Enable, {})

EnableUpdatesArmFirst ==
  <<Update("EINT", Polarity, {}), Arm, Update("CON0", Enable, {Enable})>>
EnableUpdates ==
  <<Update("EINT", Polarity, {}), Update("CON0", Enable, {Enable}), Arm>>

DisableUpdates == <<RailOff, Update("EINT", Enable, {})>>

(* op: the call; todo: the PmicUpdateBits left; set: what the last         *)
(* SetEnable achieved; enabled: what IsEnabled answered.                   *)
RegInit ==
  /\ Init
  /\ job = [op |-> "none", todo |-> <<>>, set |-> "unknown", enabled |-> {}]

ReadOf(addr) == [write |-> FALSE, addr |-> addr, data |-> AnyValue]

WriteOfAll(u, value) == [write |-> TRUE, addr |-> u.addr, data |-> u.value]

(* PmicUpdateBits: read the register, then write it with the masked bits   *)
(* replaced.                                                               *)
WriteOf(u, value) ==
  [write |-> TRUE, addr |-> u.addr,
   data |-> (value \ u.mask) \cup (u.value \cap u.mask)]

Finished(status) == job.op # "none" /\ call[1].pc = status /\ Running(1)

End(set) ==
  /\ job' = [job EXCEPT !.op = "none", !.todo = <<>>, !.set = set]
  /\ UNCHANGED vars

Start(op, todo, addr) ==
  /\ job.op = "none"
  /\ Begin(1, ReadOf(addr))
  /\ job' = [op |-> op, todo |-> todo, enabled |-> {},
             set |-> IF op = "query" THEN job.set ELSE "unknown"]

RegulatorSetEnable ==
  \/ Start("on", EnableUpdates, Head(EnableUpdates).addr)
  \/ Start("off", DisableUpdates, Head(DisableUpdates).addr)

RegulatorIsEnabled == Start("query", <<>>, "CON0")

(* The read of an update succeeded: write. *)
UpdateWrite ==
  /\ Finished("SUCCESS")
  /\ job.todo # <<>>
  /\ ~call[1].cmd.write
  /\ Begin(1, WriteOf(Head(job.todo), call[1].value))
  /\ UNCHANGED job

(* The write succeeded: the next update, or the end of the call.  A call   *)
(* that had to be rolled back reports its own error.                       *)
UpdateNext ==
  /\ Finished("SUCCESS")
  /\ call[1].cmd.write
  /\ IF Len(job.todo) > 1
     THEN /\ Begin(1, ReadOf(job.todo[2].addr))
          /\ job' = [job EXCEPT !.todo = Tail(job.todo)]
     ELSE End(IF job.op = "rollback" THEN "unknown" ELSE job.op)

Rollback == job.op = "on" /\ job.todo = <<Arm>>

(* An update failed.  The rail is switched off again when the last step of *)
(* enabling it failed; how that ends is not looked at.                     *)
UpdateFail ==
  /\ Finished("TIMEOUT")
  /\ IF Rollback
     THEN /\ Begin(1, ReadOf("CON0"))
          /\ job' = [job EXCEPT !.op = "rollback", !.todo = <<RailOff>>]
     ELSE End(IF job.op = "query" THEN job.set ELSE "unknown")

(* IsEnabled: the rail is off, or the gate says. *)
QueryRead ==
  /\ Finished("SUCCESS")
  /\ job.op = "query"
  /\ IF call[1].cmd.addr = "CON0" /\ Enable \in call[1].value
     THEN /\ Begin(1, ReadOf("EINT"))
          /\ UNCHANGED job
     ELSE /\ job' = [job EXCEPT !.op = "none",
                                !.enabled = {Enable \in call[1].value}]
          /\ UNCHANGED vars

(* KeypadTimerHandler: the PMIC keys are read from TOPSTATUS. *)
ButtonPressed ==
  /\ 2 \in Levels
  /\ Nested \/ call[1].pc \in Over
  /\ Begin(2, ReadOf("TOPSTATUS"))
  /\ UNCHANGED job

Continue == UpdateWrite \/ UpdateNext \/ UpdateFail \/ QueryRead

RegNext ==
  \/ Answer /\ UNCHANGED job
  \/ \E l \in Levels : Step(l) /\ UNCHANGED job
  \/ Continue
  \/ RegulatorSetEnable
  \/ RegulatorIsEnabled
  \/ ButtonPressed

(* A channel that is not slow answers, and code that the timer interrupts  *)
(* over and over goes on between two of its ticks: the callback returns,   *)
(* its own polls being bounded.                                            *)
RegFairness ==
  /\ SF_regVars(Continue)
  /\ \A l \in Levels : SF_regVars(Step(l) /\ UNCHANGED job)
  /\ WF_regVars(Answer /\ ~bus.slow /\ UNCHANGED job)

RegSpec == RegInit /\ [][RegNext]_regVars /\ RegFairness

-----------------------------------------------------------------------------
On == Enable \in regs["CON0"] /\ Enable \in regs["EINT"]
Off == Enable \notin regs["CON0"] /\ Enable \notin regs["EINT"]

(* A SetEnable that succeeded stays in force until the next one begins: no *)
(* write that an earlier call gave up on lands after it                    *)
(* (MT6358PmicDxe.c:635-672, PmicWrapperDxe.c:163-165).                    *)
SuccessSticks ==
  /\ job.set = "on" => On /\ Polarity \notin regs["EINT"]
  /\ job.set = "off" => Off

(* Read-modify-write keeps the bits of CON0 that are not masked, whatever  *)
(* calls failed or were late (MT6358PmicDxe.c:618).                        *)
OnlyItsBits ==
  [][regs'["CON0"] \ {Enable} = regs["CON0"] \ {Enable}]_regs

(* The gate is armed only over an enabled rail with the polarity selected, *)
(* and disarmed only over a rail that is off, late writes included         *)
(* (MT6358PmicDxe.c:633-634, 665-671).                                     *)
GateFollowsRail ==
  [][ /\ Enable \in regs'["EINT"] \ regs["EINT"] =>
           Enable \in regs["CON0"] /\ Polarity \notin regs["EINT"]
      /\ Enable \in regs["EINT"] \ regs'["EINT"] =>
           Enable \notin regs["CON0"] ]_regs

(* IsEnabled with success: TRUE if the regulator is enabled, FALSE if it   *)
(* is disabled (MtkPmic.h:37).                                             *)
EnabledIsTrue == job.enabled # {} => job.enabled = {On}

(* Every regulator call returns (PmicWrapperDxe.c:64-74). *)
JobsReturn == job.op # "none" ~> job.op = "none"
=============================================================================
