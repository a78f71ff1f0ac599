---------------------------- MODULE PmicWrapper ----------------------------
(***************************************************************************)
(* PmicWrapperDxe: the calls Read and Write of the PMIC wrapper protocol,  *)
(* one register access of the WACS2 channel at a time, against the state   *)
(* machine of that channel.  A caller polls for 10 ms and gives up; the    *)
(* command it gave up on may still be answered.  Nothing raises the TPL,   *)
(* so a timer callback may start a call of its own in the middle of        *)
(* another one: Levels are the priorities calls are made at.               *)
(***************************************************************************)
EXTENDS Naturals

CONSTANTS
  Regs,     \* the registers behind the wrapper
  Values,   \* what a register may hold
  Levels    \* {1}: calls are serial; {1, 2}: level 2 preempts level 1

ASSUME PmicAssumption ==
  /\ Regs # {}
  /\ Values # {}
  /\ Levels \in {{1}, {1, 2}}

VARIABLES
  fsm,      \* the FSM field of WACS2_RDATA
  bus,      \* the last command accepted, and the level that waits for it
  rdata,    \* the data field of WACS2_RDATA
  regs,     \* the registers of the PMIC
  call      \* per level, the call in progress or the last one

vars == <<fsm, bus, rdata, regs, call>>

Over == {"SUCCESS", "TIMEOUT"}
Steps == {"check", "clear", "idle", "issue", "valid", "data", "ack", "drain"}
Commands == [write : BOOLEAN, addr : Regs, data : Values]

(* The command a level waits for; done, seen: whether the hardware has     *)
(* carried it out, and the value it found; clean: the channel owed no      *)
(* answer when the call began.                                             *)
Calls == [pc : Steps \cup Over, cmd : Commands, value : Values,
          done : BOOLEAN, seen : Values, clean : BOOLEAN]

TypeOK ==
  /\ fsm \in {"idle", "busy", "wfvldclr"}
  /\ bus \in [cmd : Commands, from : Levels \cup {0}, slow : BOOLEAN]
  /\ rdata \in Values
  /\ regs \in [Regs -> Values]
  /\ call \in [Levels -> Calls]

AnyValue == CHOOSE v \in Values : TRUE
NoCommand == [write |-> FALSE, addr |-> CHOOSE r \in Regs : TRUE,
              data |-> AnyValue]
NoCall == [pc |-> "SUCCESS", cmd |-> NoCommand, value |-> AnyValue,
           done |-> TRUE, seen |-> AnyValue, clean |-> TRUE]

Init ==
  /\ fsm = "idle"
  /\ bus = [cmd |-> NoCommand, from |-> 0, slow |-> FALSE]
  /\ rdata = AnyValue
  /\ regs \in [Regs -> Values]
  /\ call = [l \in Levels |-> NoCall]

-----------------------------------------------------------------------------
(* The channel carries out the command it holds. *)
Answer ==
  /\ fsm = "busy"
  /\ IF bus.cmd.write
     THEN /\ fsm' = "idle"
          /\ regs' = [regs EXCEPT ![bus.cmd.addr] = bus.cmd.data]
          /\ UNCHANGED rdata
     ELSE /\ fsm' = "wfvldclr"
          /\ rdata' = regs[bus.cmd.addr]
          /\ UNCHANGED regs
  /\ call' = [l \in Levels |->
                IF l = bus.from
                THEN [call[l] EXCEPT !.done = TRUE,
                                     !.seen = regs[bus.cmd.addr]]
                ELSE call[l]]
  /\ UNCHANGED bus

(* A level runs while no higher one is in a call. *)
Running(l) == \A k \in Levels : k > l => call[k].pc \in Over

At(l, pc) == Running(l) /\ call[l].pc = pc

Goto(l, pc) == call' = [call EXCEPT ![l].pc = pc]

(* The call returns; an answer that comes later is nobody's. *)
Return(l, status) ==
  /\ Goto(l, status)
  /\ bus' = IF bus.from = l THEN [bus EXCEPT !.from = 0] ELSE bus
  /\ UNCHANGED <<fsm, rdata, regs>>

Begin(l, cmd) ==
  /\ Running(l)
  /\ call[l].pc \in Over
  /\ call' = [call EXCEPT ![l] =
       [NoCall EXCEPT !.pc = "check", !.cmd = cmd, !.done = FALSE,
                      !.clean = (fsm # "busy")]]
  /\ UNCHANGED <<fsm, bus, rdata, regs>>

CheckNothing(l) ==
  /\ At(l, "check")
  /\ Goto(l, "idle")
  /\ UNCHANGED <<fsm, bus, rdata, regs>>

(* WacsCommand: clear the result of a read that was given up. *)
Check(l) ==
  /\ At(l, "check")
  /\ Goto(l, IF fsm = "wfvldclr" THEN "clear" ELSE "idle")
  /\ UNCHANGED <<fsm, bus, rdata, regs>>

(* A write to VLDCLR lets the channel go back to idle. *)
ClearTo(l, pc) ==
  /\ Goto(l, pc)
  /\ fsm' = IF fsm = "wfvldclr" THEN "idle" ELSE fsm
  /\ UNCHANGED <<bus, rdata, regs>>

Clear(l) == At(l, "clear") /\ ClearTo(l, "idle")

SeeIdleAlways(l) ==
  /\ At(l, "idle")
  /\ Goto(l, "issue")
  /\ UNCHANGED <<fsm, bus, rdata, regs>>

(* WacsWaitFor (WacsFsmIdle), then the write to WACS2_CMD. *)
SeeIdle(l) ==
  /\ At(l, "idle")
  /\ fsm = "idle"
  /\ Goto(l, "issue")
  /\ UNCHANGED <<fsm, bus, rdata, regs>>

(* The channel takes the command.  A command written while it holds        *)
(* another one, which only a preempted caller can do, may be ignored.      *)
Issue(l) ==
  /\ At(l, "issue")
  /\ Goto(l, IF call[l].cmd.write THEN "drain" ELSE "valid")
  /\ \E taken \in IF fsm = "idle" THEN {TRUE} ELSE BOOLEAN,
        slow \in BOOLEAN :
       /\ fsm' = IF taken THEN "busy" ELSE fsm
       /\ bus' = IF taken
                 THEN [cmd |-> call[l].cmd, from |-> l, slow |-> slow]
                 ELSE bus
  /\ UNCHANGED <<rdata, regs>>

(* PmicWrapperImplRead: wait for the answer, take it, acknowledge it. *)
SeeValid(l) ==
  /\ At(l, "valid")
  /\ fsm = "wfvldclr"
  /\ Goto(l, "data")
  /\ UNCHANGED <<fsm, bus, rdata, regs>>

ReadData(l) ==
  /\ At(l, "data")
  /\ call' = [call EXCEPT ![l].pc = "ack", ![l].value = rdata]
  /\ UNCHANGED <<fsm, bus, rdata, regs>>

Ack(l) == At(l, "ack") /\ ClearTo(l, "drain")

SeeDoneAlways(l) ==
  /\ At(l, "drain")
  /\ Return(l, "SUCCESS")

(* The last wait of Read and of Write. *)
SeeDone(l) ==
  /\ At(l, "drain")
  /\ fsm = "idle"
  /\ Return(l, "SUCCESS")

Wanted == [idle |-> "idle", valid |-> "wfvldclr", drain |-> "idle"]

GiveUpNever(l) ==
  /\ FALSE
  /\ Return(l, "TIMEOUT")

(* 10 ms of polling end without the state waited for.  A channel that is   *)
(* not slow answers well before that.                                      *)
GiveUp(l) ==
  /\ Running(l)
  /\ call[l].pc \in DOMAIN Wanted
  /\ fsm # Wanted[call[l].pc]
  /\ fsm = "busy" => bus.slow
  /\ Return(l, "TIMEOUT")

Step(l) ==
  \/ Check(l) \/ Clear(l) \/ SeeIdle(l) \/ Issue(l) \/ SeeValid(l)
  \/ ReadData(l) \/ Ack(l) \/ SeeDone(l) \/ GiveUp(l)

Next ==
  \/ Answer
  \/ \E l \in Levels : Step(l) \/ \E cmd \in Commands : Begin(l, cmd)

(* The processor runs; a channel that is not slow answers.  A slow one     *)
(* may never do.                                                           *)
Fairness ==
  /\ WF_vars(\E l \in Levels : Step(l))
  /\ WF_vars(Answer /\ ~bus.slow)

Spec == Init /\ [][Next]_vars /\ Fairness

-----------------------------------------------------------------------------
(* When calls are serial, one that reports success has been carried out:   *)
(* the register has been written, or the value returned is the one it held *)
(* then, never what an earlier call left in WACS2_RDATA                    *)
(* (PmicWrapperDxe.c:129-146, 163-165).                                    *)
SuccessIsOwn ==
  \A l \in Levels :
    call[l].pc = "SUCCESS" =>
      /\ call[l].done
      /\ call[l].cmd.write \/ call[l].value = call[l].seen

(* A call on a channel that owes no answer succeeds when its own command   *)
(* is answered in time: the result left by a read that was given up does   *)
(* not make it fail (PmicWrapperDxe.c:87-91).                              *)
CleanSucceeds ==
  [][\A l \in Levels :
       GiveUp(l) => ~call[l].clean \/ (bus.from = l /\ bus.slow)]_vars

(* The contract, for serial calls.  A call takes effect when the channel   *)
(* carries it out; the write a caller gave up on is the orphan.            *)
StateOf(c) ==
  IF c.pc \in Over THEN c.pc ELSE IF c.done THEN "done" ELSE "called"

BusOp ==
  [state |-> StateOf(call[1]), cmd |-> call[1].cmd,
   value |-> IF call[1].done /\ ~call[1].cmd.write THEN call[1].seen
             ELSE call[1].value]

Orphan ==
  IF fsm = "busy" /\ bus.from = 0 /\ bus.cmd.write THEN {bus.cmd} ELSE {}

Bus == INSTANCE RegisterBus WITH op <- BusOp, orphan <- Orphan

BusSpec == Bus!Spec
=============================================================================
