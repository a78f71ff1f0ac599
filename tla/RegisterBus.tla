---------------------------- MODULE RegisterBus ----------------------------
(***************************************************************************)
(* What the PMIC wrapper driver (PmicWrapperDxe.c) promises to the drivers *)
(* above it: registers read and written one at a time.  A call that        *)
(* succeeds took effect once, between its start and its end.  A call that  *)
(* fails may have taken effect, or its write may land later, but it has    *)
(* landed before any later call takes effect.                              *)
(***************************************************************************)
CONSTANTS Regs, Values

VARIABLES
  regs,    \* what the registers of the PMIC hold
  op,      \* the call in progress, or the last one
  orphan   \* the write of a failed call that may still land, in a set

vars == <<regs, op, orphan>>

Commands == [write : BOOLEAN, addr : Regs, data : Values]

Init ==
  /\ regs \in [Regs -> Values]
  /\ op \in [state : {"SUCCESS"}, cmd : Commands, value : Values]
  /\ orphan = {}

Begin ==
  /\ op.state \in {"SUCCESS", "TIMEOUT"}
  /\ \E c \in Commands, v \in Values :
       op' = [state |-> "called", cmd |-> c, value |-> v]
  /\ UNCHANGED <<regs, orphan>>

(* The call takes effect: no earlier write can land after it. *)
Execute ==
  /\ op.state = "called"
  /\ orphan = {}
  /\ IF op.cmd.write
     THEN /\ regs' = [regs EXCEPT ![op.cmd.addr] = op.cmd.data]
          /\ op' = [op EXCEPT !.state = "done"]
     ELSE /\ op' = [state |-> "done", cmd |-> op.cmd,
                    value |-> regs[op.cmd.addr]]
          /\ UNCHANGED regs
  /\ UNCHANGED orphan

Succeed ==
  /\ op.state = "done"
  /\ op' = [op EXCEPT !.state = "SUCCESS"]
  /\ UNCHANGED <<regs, orphan>>

(* A call fails: before it was accepted, after it took effect, or in       *)
(* between, when a write is left behind.                                   *)
Fail ==
  /\ op.state \in {"called", "done"}
  /\ op' = [op EXCEPT !.state = "TIMEOUT"]
  /\ \/ UNCHANGED orphan
     \/ /\ op.state = "called"
        /\ op.cmd.write
        /\ orphan = {}
        /\ orphan' = {op.cmd}
  /\ UNCHANGED regs

Land ==
  /\ \E c \in orphan : regs' = [regs EXCEPT ![c.addr] = c.data]
  /\ orphan' = {}
  /\ UNCHANGED op

Next == Begin \/ Execute \/ Succeed \/ Fail \/ Land

Spec == Init /\ [][Next]_vars
=============================================================================
