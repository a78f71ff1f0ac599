----------------------- MODULE Mt6358Regulator_proofs -----------------------
(***************************************************************************)
(* First the wrapper, for every set of registers and values: serial calls  *)
(* implement the abstract register bus, and a call that succeeds is        *)
(* answered by its own command.  Calls are serial when there is one level, *)
(* or when no call begins in the middle of another one.                    *)
(*                                                                         *)
(* Then the regulator calls over such a wrapper: what a SetEnable that     *)
(* succeeded has achieved stays, no write touches a bit of another rail,   *)
(* the gate follows the rail, and IsEnabled tells the truth.  The argument *)
(* is about the register bus that the wrapper implements: its registers,   *)
(* its call and its orphan.                                                *)
(*                                                                         *)
(* Last, how many steps a regulator call and a key read can take, whoever  *)
(* preempts whom.                                                          *)
(***************************************************************************)
EXTENDS Mt6358Regulator, TLAPS

(* No other level is in a call. *)
Alone(l) == \A k \in Levels \ {l} : call[k].pc \in Over

(* What is called serial: a call begins when no other level is in one, and *)
(* the callback of level 2 only reads.                                     *)
SerialBegin(l, cmd) ==
  /\ Alone(l)
  /\ l = 1 \/ ~cmd.write
  /\ Begin(l, cmd)

SerialNext ==
  \/ Answer
  \/ \E l \in Levels : Step(l) \/ \E cmd \in Commands : SerialBegin(l, cmd)

(* Where the answer to the command of a call can be, at each step of it. *)
Reading(l) == ~call[l].cmd.write
Answered(l) == call[l].done /\ (Reading(l) => rdata = call[l].seen)
Taken(l) == call[l].done /\ (Reading(l) => call[l].value = call[l].seen)
Mine(l) == bus.from = l /\ bus.cmd = call[l].cmd
Pending(l) == fsm = "busy" /\ ~call[l].done

PhaseOf(l) ==
  /\ call[l].pc \in {"check", "clear", "idle", "issue"} =>
       bus.from # l /\ ~call[l].done
  /\ call[l].pc \in Over => bus.from # l
  /\ call[l].pc = "clear" => fsm = "wfvldclr"
  /\ call[l].pc = "issue" => fsm = "idle"
  /\ call[l].pc = "valid" =>
       /\ Mine(l) /\ Reading(l)
       /\ Pending(l) \/ (fsm = "wfvldclr" /\ Answered(l))
  /\ call[l].pc = "data" =>
       Mine(l) /\ Reading(l) /\ fsm = "wfvldclr" /\ Answered(l)
  /\ call[l].pc = "ack" =>
       Mine(l) /\ Reading(l) /\ fsm = "wfvldclr" /\ Taken(l)
  /\ call[l].pc = "drain" =>
       /\ Mine(l)
       /\ (Pending(l) /\ ~Reading(l)) \/ (fsm = "idle" /\ Taken(l))
  /\ call[l].pc = "SUCCESS" => Taken(l)
  /\ call[l].clean /\ call[l].pc = "check" => fsm # "busy"
  /\ call[l].clean /\ call[l].pc = "idle" => fsm = "idle"
  /\ l = 1 \/ Reading(l)

Phase == \A l \in Levels : PhaseOf(l)

OneCall == \A l \in Levels : call[l].pc \in Over \/ Alone(l)

IInv == TypeOK /\ OneCall /\ Phase

LEMMA Types ==
  /\ AnyValue \in Values
  /\ NoCommand \in Commands
  /\ NoCall \in Calls
BY PmicAssumption DEF AnyValue, NoCommand, NoCall, Calls, Commands, Over

LEMMA LevelNumbers == 1 \in Levels /\ 0 \notin Levels
BY PmicAssumption

LEMMA InitInv == ASSUME Init PROVE IInv
<1>1. TypeOK
  BY Types DEF Init, TypeOK
<1>2. ASSUME NEW l \in Levels PROVE PhaseOf(l)
  <2>1. call[l] = NoCall /\ bus.from = 0 BY DEF Init
  <2> QED BY <2>1, LevelNumbers
          DEF PhaseOf, Over, Taken, NoCall, Reading, NoCommand
<1>3. OneCall BY DEF Init, OneCall, Alone, NoCall, Over
<1> QED BY <1>1, <1>2, <1>3 DEF IInv, Phase

LEMMA NextType == ASSUME TypeOK, [Next]_vars PROVE TypeOK'
<1> USE DEF TypeOK
<1>1. CASE Answer
  <2>0. regs[bus.cmd.addr] \in Values BY DEF Commands
  <2>1. call' \in [Levels -> Calls]
    <3>1. ASSUME NEW l \in Levels
          PROVE [call[l] EXCEPT !.done = TRUE,
                                !.seen = regs[bus.cmd.addr]] \in Calls
      BY <2>0 DEF Calls
    <3> QED BY <1>1, <3>1 DEF Answer
  <2>2. regs' \in [Regs -> Values] /\ rdata' \in Values
    BY <1>1 DEF Answer, Commands
  <2> QED BY <1>1, <2>1, <2>2 DEF Answer
<1>2. ASSUME NEW l \in Levels, NEW cmd \in Commands, Begin(l, cmd)
      PROVE TypeOK'
  BY <1>2, Types DEF Begin, Calls, Steps
<1>3. ASSUME NEW l \in Levels, Step(l) PROVE TypeOK'
  <2> USE DEF At, Goto, Calls, Steps, Over
  <2>1. CASE Check(l) BY <2>1 DEF Check
  <2>2. CASE Clear(l) BY <2>2 DEF Clear, ClearTo
  <2>3. CASE SeeIdle(l) BY <2>3 DEF SeeIdle
  <2>4. CASE Issue(l)
    <3>1. call[l].cmd \in Commands OBVIOUS
    <3>2. bus' \in [cmd : Commands, from : Levels \cup {0}, slow : BOOLEAN]
      BY <2>4, <3>1 DEF Issue
    <3>3. call' \in [Levels -> Calls] BY <2>4 DEF Issue
    <3> QED BY <2>4, <3>2, <3>3 DEF Issue
  <2>5. CASE SeeValid(l) BY <2>5 DEF SeeValid
  <2>6. CASE ReadData(l)
    <3>1. call[l] \in Calls /\ rdata \in Values OBVIOUS
    <3>2. [call[l] EXCEPT !.pc = "ack", !.value = rdata] \in Calls
      BY <3>1
    <3>3. call' = [call EXCEPT ![l] = [call[l] EXCEPT !.pc = "ack",
                                                      !.value = rdata]]
      BY <2>6 DEF ReadData
    <3>4. call' \in [Levels -> Calls] BY <3>2, <3>3
    <3> QED BY <2>6, <3>4 DEF ReadData
  <2>7. CASE Ack(l) BY <2>7 DEF Ack, ClearTo
  <2>8. CASE SeeDone(l) BY <2>8 DEF SeeDone, Return
  <2>9. CASE GiveUp(l) BY <2>9 DEF GiveUp, Return
  <2> QED BY <1>3, <2>1, <2>2, <2>3, <2>4, <2>5, <2>6, <2>7, <2>8, <2>9
        DEF Step
<1>4. CASE UNCHANGED vars BY <1>4 DEF vars
<1> QED BY <1>1, <1>2, <1>3, <1>4 DEF Next

-----------------------------------------------------------------------------
(* What an answer does: it goes to the level that waits for it, or to      *)
(* nobody.                                                                 *)
LEMMA AnswerTo ==
  ASSUME IInv, Answer
  PROVE /\ fsm = "busy" /\ fsm' # "busy" /\ bus' = bus
        /\ \A l \in Levels \ {bus.from} : call'[l] = call[l]
        /\ \A l \in Levels :
             /\ call'[l].pc = call[l].pc
             /\ call'[l].cmd = call[l].cmd
             /\ l = bus.from =>
                  /\ call[l].pc \in {"valid", "drain"}
                  /\ Mine(l) /\ Pending(l)
                  /\ call'[l].value = call[l].value
                  /\ call'[l].done
                  /\ call'[l].clean = call[l].clean
                  /\ call'[l].seen = regs[bus.cmd.addr]
<1>1. fsm = "busy" /\ fsm' # "busy" /\ bus' = bus BY DEF Answer
<1>2. \A l \in Levels \ {bus.from} : call'[l] = call[l] BY DEF Answer
<1>3. ASSUME NEW l \in Levels, l = bus.from
      PROVE /\ call'[l].pc = call[l].pc
            /\ call'[l].cmd = call[l].cmd
            /\ call[l].pc \in {"valid", "drain"}
            /\ Mine(l) /\ Pending(l)
            /\ call'[l].value = call[l].value
            /\ call'[l].done
            /\ call'[l].clean = call[l].clean
            /\ call'[l].seen = regs[bus.cmd.addr]
  <2>1. call[l] \in Calls /\ l # 0
    BY <1>3, LevelNumbers DEF IInv, TypeOK
  <2>2. call'[l] = [call[l] EXCEPT !.done = TRUE,
                                   !.seen = regs[bus.cmd.addr]]
    BY <1>3, <2>1 DEF Answer
  <2>3. PhaseOf(l) BY <2>1 DEF IInv, Phase
  <2>4. /\ call[l].pc \in {"valid", "drain"}
        /\ Mine(l) /\ Pending(l)
    BY <1>1, <1>3, <2>1, <2>3
       DEF PhaseOf, Calls, Steps, Over, Mine, Pending
  <2> QED BY <2>1, <2>2, <2>4 DEF Calls
<1> QED BY <1>1, <1>2, <1>3

(* A step of a level: the other levels are out of their calls. *)
LEMMA StepAlone ==
  ASSUME IInv, NEW l \in Levels, Step(l)
  PROVE /\ call[l].pc \in Steps
        /\ Alone(l)
        /\ \A k \in Levels \ {l} : call'[k] = call[k]
        /\ call' = [call EXCEPT ![l] = call'[l]]
<1> USE DEF IInv, TypeOK
<1>1. call[l].pc \in Steps
  BY DEF Step, Check, Clear, SeeIdle, Issue, SeeValid, ReadData, Ack,
         SeeDone, GiveUp, At, Wanted, Steps
<1>2. call[l].pc \notin Over BY <1>1 DEF Steps, Over
<1>3. Alone(l) BY <1>2 DEF OneCall
<1>4. PICK c : call' = [call EXCEPT ![l] = c]
  BY DEF Step, Check, Clear, SeeIdle, Issue, SeeValid, ReadData, Ack,
         SeeDone, GiveUp, Goto, Return, ClearTo
<1>5. call'[l] = c BY <1>4
<1> QED BY <1>1, <1>3, <1>4, <1>5

LEMMA NextOne ==
  ASSUME IInv, [SerialNext]_vars PROVE OneCall'
<1> USE DEF IInv
<1>1. CASE Answer
  <2>1. \A l \in Levels : call'[l].pc = call[l].pc BY <1>1, AnswerTo
  <2> QED BY <2>1 DEF OneCall, Alone
<1>2. ASSUME NEW l \in Levels, NEW cmd \in Commands, SerialBegin(l, cmd)
      PROVE OneCall'
  <2>1. \A k \in Levels \ {l} : call'[k] = call[k] /\ call[k].pc \in Over
    BY <1>2 DEF SerialBegin, Begin, Alone, TypeOK
  <2> QED BY <2>1 DEF OneCall, Alone
<1>3. ASSUME NEW l \in Levels, Step(l) PROVE OneCall'
  <2>1. \A k \in Levels \ {l} : call'[k] = call[k] /\ call[k].pc \in Over
    BY <1>3, StepAlone DEF Alone
  <2> QED BY <2>1 DEF OneCall, Alone
<1>4. CASE UNCHANGED vars BY <1>4 DEF vars, OneCall, Alone
<1> QED BY <1>1, <1>2, <1>3, <1>4 DEF SerialNext

LEMMA NextPhase ==
  ASSUME IInv, [SerialNext]_vars, NEW l \in Levels PROVE PhaseOf(l)'
<1> USE DEF Reading, Answered, Taken, Mine, Pending
<1>0. TypeOK /\ PhaseOf(l) /\ l # 0 BY LevelNumbers DEF IInv, Phase
<1>c. call[l] \in Calls BY <1>0 DEF TypeOK
<1>1. CASE Answer
  <2>1. fsm = "busy" /\ fsm' # "busy" /\ bus' = bus BY <1>1, AnswerTo
  <2>2. CASE bus.from # l
    <3>1. call'[l] = call[l] BY <1>1, <2>2, AnswerTo
    <3>2. call[l].pc \notin {"valid", "data", "ack", "drain"}
      BY <1>0, <2>2 DEF PhaseOf
    <3>3. /\ call[l].pc \notin {"clear", "issue"}
          /\ call[l].clean => call[l].pc \notin {"check", "idle"}
      BY <1>0, <2>1 DEF PhaseOf
    <3> QED BY <1>0, <2>1, <2>2, <3>1, <3>2, <3>3 DEF PhaseOf, Over
  <2>3. CASE bus.from = l
    <3>1. /\ call'[l].pc = call[l].pc
          /\ call'[l].cmd = call[l].cmd
          /\ call[l].pc \in {"valid", "drain"}
          /\ Mine(l) /\ Pending(l)
          /\ call'[l].done
          /\ call'[l].seen = regs[bus.cmd.addr]
      BY <1>1, <2>3, AnswerTo
    <3> QED BY <1>0, <1>1, <2>1, <2>3, <3>1 DEF Answer, PhaseOf, Over
  <2> QED BY <2>2, <2>3
<1>2. ASSUME NEW k \in Levels, NEW cmd \in Commands, SerialBegin(k, cmd)
      PROVE PhaseOf(l)'
  <2>0. UNCHANGED <<fsm, bus, rdata, regs>> /\ call[k].pc \in Over
    BY <1>2 DEF SerialBegin, Begin
  <2>1. CASE k = l
    <3>1. call'[l] = [NoCall EXCEPT !.pc = "check", !.cmd = cmd,
                        !.done = FALSE, !.clean = (fsm # "busy")]
      BY <1>2, <2>1, <1>0 DEF SerialBegin, Begin, TypeOK
    <3>2. /\ call'[l].pc = "check" /\ ~call'[l].done
          /\ call'[l].clean = (fsm # "busy") /\ call'[l].cmd = cmd
      BY <3>1 DEF NoCall
    <3>3. bus.from # l BY <1>0, <2>0, <2>1 DEF PhaseOf
    <3>4. l = 1 \/ ~cmd.write BY <1>2, <2>1 DEF SerialBegin
    <3> QED BY <2>0, <3>2, <3>3, <3>4 DEF PhaseOf, Over
  <2>2. CASE k # l
    <3>1. call'[l] = call[l]
      BY <1>2, <2>2, <1>0 DEF SerialBegin, Begin, TypeOK
    <3> QED BY <2>0, <3>1, <1>0 DEF PhaseOf
  <2> QED BY <2>1, <2>2
<1>3. ASSUME NEW k \in Levels, Step(k), k # l PROVE PhaseOf(l)'
  <2>1. call'[l] = call[l] /\ call[l].pc \in Over /\ call[l].pc \notin Steps
    BY <1>3, StepAlone DEF Alone, Over, Steps
  <2>2. bus'.from # l
    <3>1. bus.from # l BY <1>0, <2>1 DEF PhaseOf
    <3>2. CASE Issue(k)
      <4>1. PICK taken \in BOOLEAN, slow \in BOOLEAN :
              bus' = IF taken
                     THEN [cmd |-> call[k].cmd, from |-> k, slow |-> slow]
                     ELSE bus
        BY <3>2 DEF Issue
      <4> QED BY <4>1, <3>1, <1>3
    <3>3. CASE bus' = bus BY <3>1, <3>3
    <3>4. ASSUME NEW status, Return(k, status) PROVE bus'.from # l
      BY <1>0, <3>1, <3>4 DEF Return, TypeOK
    <3> QED BY <1>3, <3>2, <3>3, <3>4
            DEF Step, Check, Clear, SeeIdle, SeeValid, ReadData, Ack,
                SeeDone, GiveUp, ClearTo
  <2> QED BY <1>0, <2>1, <2>2 DEF PhaseOf, Steps, Over
<1>4. ASSUME Step(l) PROVE PhaseOf(l)'
  <2> USE <1>0 DEF At, Goto, PhaseOf, Over
  <2>k. ASSUME NEW pc, Goto(l, pc)
        PROVE /\ call'[l].pc = pc
              /\ call'[l].cmd = call[l].cmd
              /\ call'[l].done = call[l].done
              /\ call'[l].value = call[l].value
              /\ call'[l].seen = call[l].seen
              /\ call'[l].clean = call[l].clean
    BY <2>k, <1>c DEF Calls, TypeOK
  <2>1. CASE Check(l)
    <3>1. fsm \in {"idle", "busy", "wfvldclr"} BY <1>0 DEF TypeOK
    <3> QED BY <2>1, <2>k, <3>1 DEF Check
  <2>2. CASE Clear(l) BY <2>2, <2>k DEF Clear, ClearTo
  <2>3. CASE SeeIdle(l) BY <2>3, <2>k DEF SeeIdle
  <2>4. CASE Issue(l)
    <3>1. fsm = "idle" /\ ~call[l].done BY <2>4 DEF Issue
    <3>2. fsm' = "busy" /\ bus'.from = l /\ bus'.cmd = call[l].cmd
      BY <2>4, <3>1 DEF Issue
    <3>3. Goto(l, IF call[l].cmd.write THEN "drain" ELSE "valid")
      BY <2>4 DEF Issue
    <3>4. /\ call'[l].pc = IF call[l].cmd.write THEN "drain" ELSE "valid"
          /\ call'[l].cmd = call[l].cmd
          /\ call'[l].done = call[l].done
      BY <3>3, <2>k, ZenonT(30)
    <3> QED BY <3>1, <3>2, <3>4
  <2>5. CASE SeeValid(l) BY <2>5, <2>k DEF SeeValid
  <2>6. CASE ReadData(l)
    <3>1. /\ call'[l].pc = "ack"
          /\ call'[l].cmd = call[l].cmd
          /\ call'[l].done = call[l].done
          /\ call'[l].value = rdata
          /\ call'[l].seen = call[l].seen
      BY <2>6, <1>c DEF ReadData, Calls, TypeOK
    <3> QED BY <2>6, <3>1 DEF ReadData
  <2>7. CASE Ack(l) BY <2>7, <2>k, ZenonT(30) DEF Ack, ClearTo
  <2>8. CASE SeeDone(l)
    <3>1. bus'.from = 0 BY <2>8, <1>0 DEF SeeDone, Return, TypeOK
    <3>2. Goto(l, "SUCCESS") /\ Taken(l)
      BY <2>8, <1>0 DEF SeeDone, Return
    <3>3. Taken(l)' /\ call'[l].pc = "SUCCESS" BY <3>2, <2>k
    <3>4. call'[l].cmd = call[l].cmd BY <3>2, <2>k
    <3> QED BY <3>1, <3>3, <3>4
  <2>9. CASE GiveUp(l)
    <3>1. bus'.from # l BY <2>9, <1>0 DEF GiveUp, Return, TypeOK
    <3>2. Goto(l, "TIMEOUT") BY <2>9 DEF GiveUp, Return
    <3>3. call'[l].pc = "TIMEOUT" /\ call'[l].cmd = call[l].cmd
      BY <3>2, <2>k
    <3> QED BY <3>1, <3>3
  <2> QED BY <1>4, <2>1, <2>2, <2>3, <2>4, <2>5, <2>6, <2>7, <2>8, <2>9
        DEF Step
<1>5. CASE UNCHANGED vars BY <1>0, <1>5 DEF vars, PhaseOf
<1> QED BY <1>1, <1>2, <1>3, <1>4, <1>5 DEF SerialNext

LEMMA NextInv == ASSUME IInv, [SerialNext]_vars PROVE IInv'
<1>0. [Next]_vars BY DEF SerialNext, SerialBegin, Next
<1>1. TypeOK' BY <1>0, NextType DEF IInv
<1>2. OneCall' BY NextOne
<1>3. \A l \in Levels : PhaseOf(l)' BY NextPhase
<1> QED BY <1>1, <1>2, <1>3 DEF IInv, Phase

(* With one level every step is serial. *)
LEMMA OneLevel ==
  ASSUME Levels = {1}, [Next]_vars PROVE [SerialNext]_vars
BY DEF Next, SerialNext, SerialBegin, Alone

THEOREM Inductive == ASSUME Levels = {1} PROVE Spec => []IInv
<1>1. Init => IInv BY InitInv
<1>2. IInv /\ [Next]_vars => IInv' BY NextInv, OneLevel
<1> QED BY <1>1, <1>2, PTL DEF Spec

LEMMA Success == ASSUME IInv PROVE TypeOK /\ SuccessIsOwn
BY DEF IInv, Phase, PhaseOf, SuccessIsOwn, Taken, Reading

(* A call that succeeds was carried out, and a read returns what its own   *)
(* command found (PmicWrapperDxe.c:129-146, 163-165).                      *)
THEOREM SuccessTheorem ==
  ASSUME Levels = {1} PROVE Spec => [](TypeOK /\ SuccessIsOwn)
<1>1. IInv => TypeOK /\ SuccessIsOwn BY Success
<1> QED BY <1>1, Inductive, PTL

LEMMA Clean ==
  ASSUME IInv, NEW l \in Levels, GiveUp(l)
  PROVE ~call[l].clean \/ (bus.from = l /\ bus.slow)
BY DEF IInv, Phase, PhaseOf, GiveUp, Wanted, Mine, Pending

(* A call on a channel that owes no answer fails only for want of its own  *)
(* answer (PmicWrapperDxe.c:87-91).                                        *)
THEOREM CleanTheorem == ASSUME Levels = {1} PROVE Spec => CleanSucceeds
<1>1. IInv /\ [Next]_vars =>
        [\A l \in Levels :
           GiveUp(l) => ~call[l].clean \/ (bus.from = l /\ bus.slow)]_vars
  BY Clean
<1> QED BY <1>1, Inductive, PTL DEF Spec, CleanSucceeds

-----------------------------------------------------------------------------
LEMMA InitBus == ASSUME Init PROVE Bus!Init
<1>1. call[1] = NoCall BY LevelNumbers DEF Init
<1>2. BusOp = [state |-> "SUCCESS", cmd |-> NoCommand, value |-> AnyValue]
  BY <1>1 DEF BusOp, StateOf, NoCall, NoCommand, Over
<1>3. Orphan = {} BY DEF Init, Orphan
<1> QED BY <1>2, <1>3, Types DEF Init, Bus!Init, Bus!Commands, Commands

(* The steps of the register bus other than the beginning of a call.       *)
BusStep ==
  \/ Bus!Execute \/ Bus!Succeed \/ Bus!Fail \/ Bus!Land
  \/ UNCHANGED <<regs, BusOp, Orphan>>

LEMMA AnswerBus == ASSUME IInv, Answer PROVE BusStep
<1>0. call[1] \in Calls /\ 1 \in Levels
  BY LevelNumbers DEF IInv, TypeOK
<1>1. fsm = "busy" /\ fsm' # "busy" /\ bus' = bus BY AnswerTo
<1>2. Orphan' = {} BY <1>1 DEF Orphan
<1>3. CASE bus.from # 1
  <2>1. BusOp' = BusOp
    <3>1. call'[1] = call[1] BY <1>0, <1>3, AnswerTo
    <3> QED BY <3>1 DEF BusOp, StateOf
  <2>2. CASE bus.cmd.write
    <3>1. bus.from = 0
      <4>1. ASSUME NEW l \in Levels, l = bus.from PROVE FALSE
        <5>1. Mine(l) BY <4>1, AnswerTo
        <5>2. Reading(l) BY <1>3, <4>1 DEF IInv, Phase, PhaseOf
        <5> QED BY <2>2, <5>1, <5>2 DEF Mine, Reading
      <4> QED BY <4>1 DEF IInv, TypeOK
    <3>2. Orphan = {bus.cmd} BY <1>1, <2>2, <3>1 DEF Orphan
    <3>3. regs' = [regs EXCEPT ![bus.cmd.addr] = bus.cmd.data]
      BY <2>2 DEF Answer
    <3> QED BY <1>2, <2>1, <3>2, <3>3 DEF BusStep, Bus!Land
  <2>3. CASE ~bus.cmd.write
    <3>1. Orphan = {} /\ regs' = regs BY <2>3 DEF Orphan, Answer
    <3> QED BY <1>2, <2>1, <3>1 DEF BusStep
  <2> QED BY <2>2, <2>3
<1>4. CASE bus.from = 1
  <2>1. /\ call'[1].pc = call[1].pc
        /\ call'[1].cmd = call[1].cmd
        /\ call[1].pc \in {"valid", "drain"}
        /\ Mine(1) /\ Pending(1)
        /\ call'[1].value = call[1].value
        /\ call'[1].done
        /\ call'[1].seen = regs[bus.cmd.addr]
    BY <1>0, <1>4, AnswerTo
  <2>2. Orphan = {} BY <1>4 DEF Orphan
  <2>3. bus.cmd = call[1].cmd /\ ~call[1].done BY <2>1 DEF Mine, Pending
  <2>4. BusOp = [state |-> "called", cmd |-> call[1].cmd,
                 value |-> call[1].value]
    BY <2>1, <2>3 DEF BusOp, StateOf, Over
  <2>5. BusOp' = [state |-> "done", cmd |-> call[1].cmd,
                  value |-> IF call[1].cmd.write THEN call[1].value
                            ELSE regs[bus.cmd.addr]]
    BY <2>1 DEF BusOp, StateOf, Over
  <2>6. regs' = IF call[1].cmd.write
                THEN [regs EXCEPT ![bus.cmd.addr] = bus.cmd.data]
                ELSE regs
    BY <2>3 DEF Answer
  <2>7. CASE call[1].cmd.write
    <3>1. BusOp' = [BusOp EXCEPT !.state = "done"] BY <2>4, <2>5, <2>7
    <3> QED BY <1>2, <2>2, <2>3, <2>4, <2>6, <2>7, <3>1
            DEF BusStep, Bus!Execute
  <2>8. CASE ~call[1].cmd.write
    <3>1. BusOp' = [state |-> "done", cmd |-> call[1].cmd,
                    value |-> regs[BusOp.cmd.addr]]
      <4>1. BusOp.cmd.addr = bus.cmd.addr BY <2>3, <2>4
      <4> QED BY <2>5, <2>8, <4>1
    <3> QED BY <1>2, <2>2, <2>3, <2>4, <2>6, <2>8, <3>1
            DEF BusStep, Bus!Execute
  <2> QED BY <2>7, <2>8
<1> QED BY <1>3, <1>4

(* The callback's own steps change nothing of the contract, for it has no  *)
(* write that could be left behind.                                        *)
LEMMA CallbackBus ==
  ASSUME IInv, NEW l \in Levels, l # 1, Step(l)
  PROVE UNCHANGED <<regs, BusOp, Orphan>>
<1> USE DEF At
<1>1. BusOp' = BusOp
  <2>1. call'[1] = call[1] BY LevelNumbers, StepAlone
  <2> QED BY <2>1 DEF BusOp, StateOf
<1>2. regs' = regs
  BY DEF Step, Check, Clear, SeeIdle, Issue, SeeValid, ReadData, Ack,
         SeeDone, GiveUp, Return, ClearTo
<1>3. PhaseOf(l) /\ TypeOK /\ l # 0 BY LevelNumbers DEF IInv, Phase
<1>4. Orphan' = Orphan
  <2>1. CASE Issue(l)
    <3>1. fsm = "idle" BY <1>3, <2>1 DEF Issue, PhaseOf
    <3>2. bus'.from = l BY <2>1, <3>1 DEF Issue
    <3> QED BY <1>3, <3>1, <3>2 DEF Orphan
  <2>2. ASSUME NEW status, Return(l, status) PROVE Orphan' = Orphan
    <3>1. CASE bus.from = l
      <4>1. call[l].pc \in Steps BY StepAlone
      <4>2. Mine(l) /\ Reading(l)
        BY <1>3, <3>1, <4>1 DEF PhaseOf, Steps, Over
      <4>3. ~bus.cmd.write /\ bus'.cmd = bus.cmd
        BY <1>3, <2>2, <3>1, <4>2 DEF Mine, Reading, Return, TypeOK
      <4> QED BY <4>3 DEF Orphan
    <3>2. CASE bus.from # l BY <2>2, <3>2 DEF Return, Orphan
    <3> QED BY <3>1, <3>2
  <2>3. ASSUME NEW pc, ClearTo(l, pc) PROVE Orphan' = Orphan
    BY <2>3 DEF ClearTo, Orphan
  <2>4. CASE UNCHANGED <<fsm, bus>> BY <2>4 DEF Orphan
  <2> QED BY <2>1, <2>2, <2>3, <2>4
          DEF Step, Check, Clear, SeeIdle, SeeValid, ReadData, Ack, SeeDone,
              GiveUp
<1> QED BY <1>1, <1>2, <1>4

LEMMA CallerBus == ASSUME IInv, Step(1) PROVE BusStep
<1> USE DEF Reading, Answered, Taken, Mine, Pending, At
<1>0. TypeOK /\ PhaseOf(1) /\ 1 \in Levels
  BY LevelNumbers DEF IInv, Phase
<1>c. call[1] \in Calls BY <1>0 DEF TypeOK
<1> USE <1>0
<1>k. ASSUME NEW pc, Goto(1, pc)
      PROVE /\ call'[1].pc = pc
            /\ call'[1].cmd = call[1].cmd
            /\ call'[1].done = call[1].done
            /\ call'[1].value = call[1].value
            /\ call'[1].seen = call[1].seen
  BY <1>k, <1>c DEF Calls, Goto, TypeOK
<1>s. ASSUME NEW pc \in Steps, Goto(1, pc), call[1].pc \in Steps
      PROVE BusOp' = BusOp
  <2>1. call'[1].pc = pc BY <1>s, <1>k
  <2>2. pc \notin Over /\ call[1].pc \notin Over
    BY <1>s DEF Steps, Over
  <2> QED BY <1>s, <1>k, <2>1, <2>2 DEF BusOp, StateOf
<1>1. CASE Check(1)
  <2>1. BusOp' = BusOp BY <1>1, <1>s DEF Check, Steps
  <2> QED BY <1>1, <2>1 DEF BusStep, Check, Orphan
<1>2. CASE Clear(1)
  <2>1. BusOp' = BusOp BY <1>2, <1>s DEF Clear, ClearTo, Steps
  <2>2. fsm # "busy" /\ fsm' # "busy" BY <1>2 DEF Clear, ClearTo, PhaseOf
  <2> QED BY <1>2, <2>1, <2>2 DEF BusStep, Clear, ClearTo, Orphan
<1>3. CASE SeeIdle(1)
  <2>1. BusOp' = BusOp BY <1>3, <1>s DEF SeeIdle, Steps
  <2> QED BY <1>3, <2>1 DEF BusStep, SeeIdle, Orphan
<1>4. CASE Issue(1)
  <2>1. BusOp' = BusOp BY <1>4, <1>s DEF Issue, Steps
  <2>2. fsm = "idle" BY <1>4 DEF Issue, PhaseOf
  <2>3. bus'.from = 1 BY <1>4, <2>2 DEF Issue
  <2>4. Orphan = {} /\ Orphan' = {} BY <2>2, <2>3 DEF Orphan
  <2> QED BY <1>4, <2>1, <2>4 DEF BusStep, Issue
<1>5. CASE SeeValid(1)
  <2>1. BusOp' = BusOp BY <1>5, <1>s DEF SeeValid, Steps
  <2> QED BY <1>5, <2>1 DEF BusStep, SeeValid, Orphan
<1>6. CASE ReadData(1)
  <2>1. /\ call'[1].pc = "ack"
        /\ call'[1].cmd = call[1].cmd
        /\ call'[1].done = call[1].done
        /\ call'[1].seen = call[1].seen
    BY <1>6, <1>c DEF ReadData, Calls, TypeOK
  <2>2. call[1].done /\ ~call[1].cmd.write BY <1>6 DEF ReadData, PhaseOf
  <2>3. BusOp' = BusOp
    BY <1>6, <2>1, <2>2 DEF ReadData, BusOp, StateOf, Over
  <2> QED BY <1>6, <2>3 DEF BusStep, ReadData, Orphan
<1>7. CASE Ack(1)
  <2>1. BusOp' = BusOp BY <1>7, <1>s DEF Ack, ClearTo, Steps
  <2>2. fsm # "busy" /\ fsm' # "busy" BY <1>7 DEF Ack, ClearTo, PhaseOf
  <2> QED BY <1>7, <2>1, <2>2 DEF BusStep, Ack, ClearTo, Orphan
<1>8. CASE SeeDone(1)
  <2>1. fsm = "idle" /\ call[1].done /\ call[1].pc = "drain"
    BY <1>8 DEF SeeDone, PhaseOf
  <2>2. Orphan = {} /\ Orphan' = {}
    BY <1>8, <2>1 DEF Orphan, SeeDone, Return
  <2>v. PICK v : v = IF call[1].cmd.write THEN call[1].value
                     ELSE call[1].seen
    OBVIOUS
  <2>3. BusOp = [state |-> "done", cmd |-> call[1].cmd, value |-> v]
    BY <2>1, <2>v DEF BusOp, StateOf, Over
  <2>4. BusOp' = [state |-> "SUCCESS", cmd |-> call[1].cmd, value |-> v]
    <3>1. Goto(1, "SUCCESS") BY <1>8 DEF SeeDone, Return
    <3> QED BY <3>1, <1>k, <2>1, <2>v DEF BusOp, StateOf, Over
  <2>5. Bus!Succeed
    BY <1>8, <2>2, <2>3, <2>4 DEF Bus!Succeed, SeeDone, Return
  <2> QED BY <2>5 DEF BusStep
<1>9. CASE GiveUp(1)
  <2>1. /\ ~call[1].done
        /\ call[1].pc \in {"idle", "valid", "drain"}
    BY <1>9 DEF GiveUp, Wanted, PhaseOf
  <2>2. BusOp.state = "called" /\ BusOp.cmd = call[1].cmd
    BY <2>1 DEF BusOp, StateOf, Over
  <2>3. BusOp' = [BusOp EXCEPT !.state = "TIMEOUT"]
    BY <1>9, <1>k, <2>1 DEF GiveUp, Return, BusOp, StateOf, Over
  <2>4. regs' = regs /\ fsm' = fsm BY <1>9 DEF GiveUp, Return
  <2>5. CASE call[1].pc = "idle"
    <3>1. bus' = bus BY <1>9, <2>5 DEF GiveUp, Return, PhaseOf
    <3>2. Orphan' = Orphan BY <3>1, <2>4 DEF Orphan
    <3> QED BY <2>2, <2>3, <2>4, <3>2 DEF Bus!Fail, BusStep
  <2>6. CASE call[1].pc \in {"valid", "drain"}
    <3>1. bus.from = 1 /\ bus.cmd = call[1].cmd /\ fsm = "busy"
      BY <2>6, <2>1 DEF PhaseOf
    <3>2. bus'.from = 0 /\ bus'.cmd = bus.cmd
      BY <1>9, <3>1 DEF GiveUp, Return, TypeOK
    <3>3. Orphan = {} BY <3>1 DEF Orphan
    <3>4. Orphan' = IF call[1].cmd.write THEN {call[1].cmd} ELSE {}
      BY <3>1, <3>2, <2>4 DEF Orphan
    <3>5. Bus!Fail
      BY <2>2, <2>3, <2>4, <3>3, <3>4 DEF Bus!Fail
    <3> QED BY <3>5 DEF BusStep
  <2> QED BY <2>1, <2>5, <2>6
<1> QED BY <1>1, <1>2, <1>3, <1>4, <1>5, <1>6, <1>7, <1>8, <1>9 DEF Step

LEMMA CallBegins ==
  ASSUME IInv, NEW cmd \in Commands, SerialBegin(1, cmd)
  PROVE /\ BusOp.state \in Over
        /\ BusOp' = [state |-> "called", cmd |-> cmd, value |-> AnyValue]
        /\ UNCHANGED <<regs, Orphan>>
<1>1. call'[1] = [NoCall EXCEPT !.pc = "check", !.cmd = cmd,
                    !.done = FALSE, !.clean = (fsm # "busy")]
  BY LevelNumbers DEF SerialBegin, Begin, IInv, TypeOK
<1>2. BusOp' = [state |-> "called", cmd |-> cmd, value |-> AnyValue]
  BY <1>1 DEF BusOp, StateOf, NoCall, Over
<1>3. BusOp.state \in Over
  BY DEF SerialBegin, Begin, BusOp, StateOf
<1>4. UNCHANGED <<regs, Orphan>> BY DEF SerialBegin, Begin, Orphan
<1> QED BY <1>2, <1>3, <1>4

LEMMA CallbackBegins ==
  ASSUME IInv, NEW l \in Levels, l # 1, NEW cmd, Begin(l, cmd)
  PROVE UNCHANGED <<regs, BusOp, Orphan>>
<1>1. call'[1] = call[1] BY LevelNumbers DEF Begin, IInv, TypeOK
<1> QED BY <1>1 DEF Begin, BusOp, StateOf, Orphan

LEMMA NextBus ==
  ASSUME IInv, [SerialNext]_vars PROVE [Bus!Next]_(Bus!vars)
<1>1. ASSUME BusStep PROVE [Bus!Next]_(Bus!vars)
  BY <1>1 DEF BusStep, Bus!Next, Bus!vars
<1>2. CASE Answer BY <1>1, <1>2, AnswerBus
<1>3. ASSUME NEW l \in Levels, Step(l) PROVE [Bus!Next]_(Bus!vars)
  <2>1. CASE l = 1 BY <1>1, <1>3, <2>1, CallerBus
  <2>2. CASE l # 1 BY <1>1, <1>3, <2>2, CallbackBus DEF BusStep
  <2> QED BY <2>1, <2>2
<1>4. ASSUME NEW l \in Levels, NEW cmd \in Commands, SerialBegin(l, cmd)
      PROVE [Bus!Next]_(Bus!vars)
  <2>1. CASE l = 1
    <3>1. /\ BusOp.state \in Over
          /\ BusOp' = [state |-> "called", cmd |-> cmd, value |-> AnyValue]
          /\ UNCHANGED <<regs, Orphan>>
      BY <1>4, <2>1, CallBegins
    <3> QED BY <3>1, Types
            DEF Bus!Next, Bus!Begin, Bus!Commands, Commands, Over
  <2>2. CASE l # 1
    BY <1>1, <1>4, <2>2, CallbackBegins DEF SerialBegin, BusStep
  <2> QED BY <2>1, <2>2
<1>5. CASE UNCHANGED vars
  BY <1>1, <1>5 DEF vars, BusStep, BusOp, StateOf, Orphan
<1> QED BY <1>2, <1>3, <1>4, <1>5 DEF SerialNext

(* Serial calls of the wrapper implement the register bus: atomic calls,   *)
(* and a failed write that lands before any later call takes effect.       *)
THEOREM BusTheorem == ASSUME Levels = {1} PROVE Spec => BusSpec
<1>1. Init => Bus!Init BY InitBus
<1>2. IInv /\ [Next]_vars => [Bus!Next]_(Bus!vars) BY NextBus, OneLevel
<1> QED BY <1>1, <1>2, Inductive, PTL DEF Spec, BusSpec, Bus!Spec
-----------------------------------------------------------------------------
(* The regulator calls. *)

(* The timer does not preempt a wrapper call: what pmic_nested shows to be *)
(* needed.                                                                 *)
Separate == ~Nested \/ Levels = {1}

(* The updates the calls are made of. *)
ClearPolarity == Update("EINT", Polarity, {})
RailOn == Update("CON0", Enable, {Enable})
Disarm == Update("EINT", Enable, {})
Updates == {ClearPolarity, RailOn, Arm, RailOff, Disarm}

(* When an update may be written, and what shows that it has been.         *)
Wise(u) ==
  /\ u = Arm => Enable \in regs["CON0"] /\ Polarity \notin regs["EINT"]
  /\ u = Disarm => Enable \notin regs["CON0"]

Applied(u) == regs[u.addr] \cap u.mask = u.value

(* A write that can still land is an update of what its register holds.    *)
Carries(w) ==
  \E u \in Updates : w = WriteOf(u, regs[u.addr]) /\ Wise(u)

Jobs ==
  [op : {"none", "query", "on", "off", "rollback"},
   todo : {<<>>, EnableUpdates, <<RailOn, Arm>>, <<Arm>>, DisableUpdates,
           <<Disarm>>, <<RailOff>>},
   set : {"unknown", "on", "off"},
   enabled : SUBSET BOOLEAN]

(* Which updates and which command each call can be at. *)
Script ==
  /\ job.op = "none" => job.todo = <<>> /\ BusOp.state \in Over
  /\ job.op = "query" =>
       job.todo = <<>> /\ BusOp.cmd \in {ReadOf("CON0"), ReadOf("EINT")}
  /\ job.op = "on" =>
       job.todo \in {EnableUpdates, <<RailOn, Arm>>, <<Arm>>}
  /\ job.op = "off" => job.todo \in {DisableUpdates, <<Disarm>>}
  /\ job.op = "rollback" => job.todo = <<RailOff>>

Command ==
  job.todo # <<>> =>
    \/ BusOp.cmd = ReadOf(Head(job.todo).addr)
    \/ /\ BusOp.cmd.write
       /\ BusOp.state = "called" =>
            /\ Orphan = {}
            /\ BusOp.cmd = WriteOf(Head(job.todo), regs[Head(job.todo).addr])
       /\ BusOp.state \in {"done", "SUCCESS"} => Applied(Head(job.todo))

(* What the earlier commands of the call have achieved. *)
Begun ==
  \/ job.op = "on" /\ job.todo # EnableUpdates
  \/ job.op = "off" /\ job.todo # DisableUpdates
  \/ job.op = "query" /\ BusOp.cmd.addr = "EINT"

Reached ==
  /\ job.op = "on" /\ job.todo # EnableUpdates => Polarity \notin regs["EINT"]
  /\ job.op = "on" /\ job.todo = <<Arm>> => Enable \in regs["CON0"]
  /\ job.op = "off" /\ job.todo = <<Disarm>> => Enable \notin regs["CON0"]
  /\ job.op = "query" /\ BusOp.cmd.addr = "EINT" => Enable \in regs["CON0"]

Progress == BusOp.state # "TIMEOUT" /\ Begun => Orphan = {} /\ Reached

(* After a command has taken effect nothing earlier can. *)
Settled ==
  BusOp.state \in {"done", "SUCCESS"} =>
    /\ Orphan = {}
    /\ job.op # "none" /\ ~BusOp.cmd.write =>
         BusOp.value = regs[BusOp.cmd.addr]

(* What a call that succeeded has achieved, and what an answer says. *)
Kept ==
  /\ job.set # "unknown" => job.op \in {"none", "query"} /\ Orphan = {}
  /\ job.enabled # {} => job.op = "none" /\ Orphan = {}
  /\ SuccessSticks
  /\ EnabledIsTrue

Left == \A w \in Orphan : Carries(w)

JobInv ==
  job \in Jobs /\ Script /\ Command /\ Left /\ Progress /\ Settled /\ Kept

RegInv == IInv /\ JobInv

-----------------------------------------------------------------------------
LEMMA Bits ==
  /\ Enable # Polarity
  /\ {} \in Values /\ {Enable} \in Values
  /\ {Enable, Polarity} \subseteq UNION Values
  /\ \A x : x \subseteq UNION Values => x \in Values
  /\ "CON0" \in Regs /\ "EINT" \in Regs /\ "TOPSTATUS" \in Regs
<1>1. {Enable, Polarity} \subseteq UNION Values BY RegulatorAssumption
<1>2. ASSUME NEW x, x \subseteq UNION Values PROVE x \in Values
  BY <1>2, RegulatorAssumption
<1>3. Enable # Polarity BY DEF Enable, Polarity
<1>4. "CON0" \in Regs /\ "EINT" \in Regs /\ "TOPSTATUS" \in Regs
  BY RegulatorAssumption DEF Registers
<1>5. {} \in Values /\ {Enable} \in Values BY <1>1, <1>2
<1> QED BY <1>1, <1>2, <1>3, <1>4, <1>5

LEMMA UpdateFields ==
  /\ \A u \in Updates :
       /\ u.addr \in {"CON0", "EINT"}
       /\ u.mask \in {{Enable}, {Polarity}}
       /\ u.value \subseteq u.mask
       /\ u.addr = "CON0" => u.mask = {Enable}
  /\ Head(EnableUpdates) = ClearPolarity
  /\ Head(DisableUpdates) = RailOff
BY DEF Updates, ClearPolarity, RailOn, Arm, RailOff, Disarm, Update,
       EnableUpdates, DisableUpdates

LEMMA Distinct ==
  /\ ClearPolarity # Arm /\ ClearPolarity # Disarm
  /\ RailOn # Arm /\ RailOn # Disarm
  /\ RailOff # Arm /\ RailOff # Disarm
  /\ Arm # Disarm
BY Bits DEF ClearPolarity, RailOn, Arm, RailOff, Disarm, Update

(* What a write of an update leaves in its register. *)
LEMMA Writes ==
  ASSUME NEW u \in Updates, NEW v \in Values
  PROVE /\ WriteOf(u, v) \in Commands
        /\ WriteOf(u, v).write
        /\ WriteOf(u, v).addr = u.addr
        /\ WriteOf(u, v).data \ u.mask = v \ u.mask
        /\ WriteOf(u, v).data \cap u.mask = u.value
<1>1. /\ u.addr \in {"CON0", "EINT"}
      /\ u.mask \in {{Enable}, {Polarity}}
      /\ u.value \subseteq u.mask
  BY UpdateFields
<1> DEFINE d == (v \ u.mask) \cup (u.value \cap u.mask)
<1>2. d \in Values
  <2>1. d \subseteq UNION Values BY <1>1, Bits
  <2> QED BY <2>1, Bits
<1>3. d \ u.mask = v \ u.mask /\ d \cap u.mask = u.value BY <1>1
<1>4. WriteOf(u, v) = [write |-> TRUE, addr |-> u.addr, data |-> d]
  BY DEF WriteOf
<1> HIDE DEF d
<1>5. u.addr \in Regs BY <1>1, Bits
<1> QED BY <1>2, <1>3, <1>4, <1>5 DEF Commands

LEMMA Reads ==
  ASSUME NEW a \in Regs
  PROVE /\ ReadOf(a) \in Commands
        /\ ~ReadOf(a).write
        /\ ReadOf(a).addr = a
BY Types DEF ReadOf, Commands

(* The place of a call in its list of updates. *)
LEMMA Places ==
  /\ EnableUpdates # <<>> /\ DisableUpdates # <<>>
  /\ <<RailOn, Arm>> # <<>> /\ <<Arm>> # <<>>
  /\ <<Disarm>> # <<>> /\ <<RailOff>> # <<>>
  /\ Head(<<RailOn, Arm>>) = RailOn
  /\ Head(<<Arm>>) = Arm
  /\ Head(<<Disarm>>) = Disarm
  /\ Head(<<RailOff>>) = RailOff
  /\ EnableUpdates # <<RailOn, Arm>> /\ EnableUpdates # <<Arm>>
  /\ <<RailOn, Arm>> # <<Arm>>
  /\ DisableUpdates # <<Disarm>>
  /\ Tail(EnableUpdates) = <<RailOn, Arm>>
  /\ Tail(<<RailOn, Arm>>) = <<Arm>>
  /\ Tail(DisableUpdates) = <<Disarm>>
  /\ EnableUpdates[2] = RailOn
  /\ <<RailOn, Arm>>[2] = Arm
  /\ DisableUpdates[2] = Disarm
  /\ Len(EnableUpdates) > 1 /\ Len(DisableUpdates) > 1
  /\ Len(<<RailOn, Arm>>) > 1
  /\ ~(Len(<<Arm>>) > 1) /\ ~(Len(<<Disarm>>) > 1)
  /\ ~(Len(<<RailOff>>) > 1)
<1>1. EnableUpdates = <<ClearPolarity, RailOn, Arm>>
  BY DEF EnableUpdates, ClearPolarity, RailOn
<1>2. DisableUpdates = <<RailOff, Disarm>>
  BY DEF DisableUpdates, Disarm
<1> QED BY <1>1, <1>2

(* The update at hand. *)
LEMMA AtHand ==
  ASSUME job \in Jobs, Script, job.todo # <<>>
  PROVE /\ job.op \in {"on", "off", "rollback"}
        /\ Head(job.todo) \in Updates
        /\ job.todo = EnableUpdates => Head(job.todo) = ClearPolarity
        /\ Head(job.todo) = Arm => job.op = "on" /\ job.todo = <<Arm>>
        /\ Head(job.todo) = Disarm => job.op = "off" /\ job.todo = <<Disarm>>
<1>1. job.op \in {"on", "off", "rollback"} BY DEF Jobs, Script
<1> QED BY <1>1, Places, UpdateFields, Distinct DEF Script, Updates

-----------------------------------------------------------------------------
LEMMA OpFields ==
  BusOp = [state |-> BusOp.state, cmd |-> BusOp.cmd, value |-> BusOp.value]
BY DEF BusOp

(* A call in progress that is not a read writes the update at hand. *)
LEMMA CalledWrite ==
  ASSUME JobInv, BusOp.state = "called", BusOp.cmd.write
  PROVE /\ job.todo # <<>>
        /\ Orphan = {}
        /\ Head(job.todo) \in Updates
        /\ BusOp.cmd = WriteOf(Head(job.todo), regs[Head(job.todo).addr])
        /\ Wise(Head(job.todo))
<1>1. job \in Jobs /\ Script /\ Command /\ Progress BY DEF JobInv
<1>2. \A a \in {"CON0", "EINT"} : ~ReadOf(a).write BY DEF ReadOf
<1>3. job.op # "none" BY <1>1 DEF Script, Over
<1>4. job.op # "query" BY <1>1, <1>2 DEF Script
<1>5. job.todo # <<>>
  BY <1>1, <1>3, <1>4, Places DEF Jobs, Script
<1>6. /\ Head(job.todo) \in Updates
      /\ Head(job.todo) = Arm => job.op = "on" /\ job.todo = <<Arm>>
      /\ Head(job.todo) = Disarm => job.op = "off" /\ job.todo = <<Disarm>>
  BY <1>1, <1>5, AtHand
<1>7. Head(job.todo).addr \in {"CON0", "EINT"} BY <1>6, UpdateFields
<1>8. /\ Orphan = {}
      /\ BusOp.cmd = WriteOf(Head(job.todo), regs[Head(job.todo).addr])
  BY <1>1, <1>2, <1>5, <1>7 DEF Command
<1>9. Wise(Head(job.todo))
  BY <1>1, <1>6, Places DEF Wise, Progress, Begun, Reached
<1> QED BY <1>5, <1>6, <1>8, <1>9

(* What a write of an update does to the registers. *)
LEMMA WriteLands ==
  ASSUME regs \in [Regs -> Values], NEW u \in Updates, Wise(u),
         regs' = [regs EXCEPT ![u.addr] = WriteOf(u, regs[u.addr]).data]
  PROVE /\ Applied(u)'
        /\ \A a \in Regs \ {u.addr} : regs'[a] = regs[a]
        /\ regs'[u.addr] \ u.mask = regs[u.addr] \ u.mask
        /\ regs'["CON0"] \ {Enable} = regs["CON0"] \ {Enable}
        /\ Enable \in regs'["EINT"] \ regs["EINT"] =>
             Enable \in regs["CON0"] /\ Polarity \notin regs["EINT"]
        /\ Enable \in regs["EINT"] \ regs'["EINT"] =>
             Enable \notin regs["CON0"]
<1>1. /\ u.addr \in {"CON0", "EINT"}
      /\ u.mask \in {{Enable}, {Polarity}}
      /\ u.addr = "CON0" => u.mask = {Enable}
  BY UpdateFields
<1>2. u.addr \in Regs /\ regs[u.addr] \in Values BY <1>1, Bits
<1> DEFINE w == WriteOf(u, regs[u.addr])
<1>3. /\ w \in Commands /\ w.addr = u.addr
      /\ w.data \ u.mask = regs[u.addr] \ u.mask
      /\ w.data \cap u.mask = u.value
  BY <1>2, Writes
<1> HIDE DEF w
<1>4. regs' = [regs EXCEPT ![u.addr] = w.data] BY DEF w
<1>5. regs'[u.addr] = w.data BY <1>2, <1>4
<1>6. Applied(u)' BY <1>3, <1>5 DEF Applied
<1>7. \A a \in Regs \ {u.addr} : regs'[a] = regs[a] BY <1>4
<1>8. regs'[u.addr] \ u.mask = regs[u.addr] \ u.mask BY <1>3, <1>5
<1>9. regs'["CON0"] \ {Enable} = regs["CON0"] \ {Enable}
  BY <1>1, <1>7, <1>8, Bits
<1>10. /\ Enable \in regs'["EINT"] \ regs["EINT"] => u = Arm
       /\ Enable \in regs["EINT"] \ regs'["EINT"] => u = Disarm
  <2>1. CASE u.addr = "CON0" BY <1>7, <2>1, Bits
  <2>2. CASE u.addr = "EINT" /\ u.mask = {Polarity}
    BY <1>8, <2>2, Bits
  <2>3. CASE u.addr = "EINT" /\ u.mask = {Enable}
    <3>1. u \in {Arm, Disarm}
      BY <2>3, Bits
         DEF Updates, ClearPolarity, RailOn, Arm, RailOff, Disarm, Update
    <3>2. Arm.value = {Enable} /\ Disarm.value = {}
      BY DEF Arm, Disarm, Update
    <3> QED BY <1>3, <1>5, <2>3, <3>1, <3>2
  <2> QED BY <1>1, <2>1, <2>2, <2>3
<1> QED BY <1>6, <1>7, <1>8, <1>9, <1>10 DEF Wise

-----------------------------------------------------------------------------
(* The register bus takes a step in the middle of a call. *)
LEMMA LandStep ==
  ASSUME JobInv, Bus!Land, UNCHANGED job PROVE JobInv'
<1>1. /\ job \in Jobs /\ Script /\ Command /\ Progress /\ Settled /\ Kept
  BY DEF JobInv
<1>2. Orphan # {} /\ Orphan' = {} /\ BusOp' = BusOp BY DEF Bus!Land
<1>3. BusOp.state \notin {"done", "SUCCESS"} BY <1>1, <1>2 DEF Settled
<1>4. Command'
  BY <1>1, <1>2, <1>3 DEF Command
<1>5. Script' BY <1>1, <1>2 DEF Script
<1>6. Progress' BY <1>1, <1>2 DEF Progress, Begun
<1>7. Settled' BY <1>2, <1>3 DEF Settled
<1>8. job.set = "unknown" /\ job.enabled = {} BY <1>1, <1>2 DEF Kept, Jobs
<1>9. Kept' BY <1>8 DEF Kept, SuccessSticks, EnabledIsTrue
<1> QED BY <1>1, <1>2, <1>4, <1>5, <1>6, <1>7, <1>9 DEF JobInv, Left

LEMMA SucceedStep ==
  ASSUME JobInv, Bus!Succeed, UNCHANGED job PROVE JobInv'
<1>1. /\ job \in Jobs /\ Script /\ Command /\ Left /\ Progress /\ Settled
      /\ Kept
  BY DEF JobInv
<1>2. /\ BusOp.state = "done" /\ BusOp'.state = "SUCCESS"
      /\ BusOp'.cmd = BusOp.cmd /\ BusOp'.value = BusOp.value
      /\ UNCHANGED <<regs, Orphan>>
  BY OpFields DEF Bus!Succeed
<1>3. Script' BY <1>1, <1>2 DEF Script, Over
<1>4. Command' BY <1>1, <1>2 DEF Command, Applied
<1>5. Left' BY <1>1, <1>2 DEF Left, Carries, Wise
<1>6. Progress' BY <1>1, <1>2 DEF Progress, Begun, Reached
<1>7. Settled' BY <1>1, <1>2 DEF Settled
<1>8. Kept' BY <1>1, <1>2 DEF Kept, SuccessSticks, EnabledIsTrue, On, Off
<1> QED BY <1>1, <1>3, <1>4, <1>5, <1>6, <1>7, <1>8 DEF JobInv

LEMMA FailStep ==
  ASSUME JobInv, Bus!Fail, UNCHANGED job PROVE JobInv'
<1>1. /\ job \in Jobs /\ Script /\ Command /\ Left /\ Progress /\ Settled
      /\ Kept
  BY DEF JobInv
<1>2. /\ BusOp.state \in {"called", "done"} /\ BusOp'.state = "TIMEOUT"
      /\ BusOp'.cmd = BusOp.cmd
      /\ regs' = regs
  BY OpFields DEF Bus!Fail
<1>3. \/ Orphan' = Orphan
      \/ /\ BusOp.state = "called" /\ BusOp.cmd.write
         /\ Orphan' = {BusOp.cmd}
  BY DEF Bus!Fail
<1>4. Script' BY <1>1, <1>2 DEF Script, Over
<1>5. Command' BY <1>1, <1>2 DEF Command
<1>6. Left'
  <2>1. CASE Orphan' = Orphan BY <1>1, <1>2, <2>1 DEF Left, Carries, Wise
  <2>2. CASE /\ BusOp.state = "called" /\ BusOp.cmd.write
             /\ Orphan' = {BusOp.cmd}
    <3>1. Carries(BusOp.cmd) BY <2>2, CalledWrite DEF Carries
    <3>2. Carries(BusOp.cmd)' BY <1>2, <3>1 DEF Carries, Wise
    <3>3. BusOp.cmd' = BusOp.cmd BY <1>2
    <3>4. \A w \in Orphan' : Carries(w)'
      BY <1>2, <2>2, <3>1 DEF Carries, Wise
    <3> QED BY <3>4 DEF Left
  <2> QED BY <1>3, <2>1, <2>2
<1>7. Progress' BY <1>2 DEF Progress
<1>8. Settled' BY <1>2 DEF Settled
<1>9. Kept'
  <2>1. job.op # "none" BY <1>1, <1>2 DEF Script, Over
  <2>2. job.set # "unknown" => Orphan' = Orphan
    <3>1. ASSUME job.set # "unknown" PROVE ~BusOp.cmd.write
      BY <1>1, <2>1, <3>1 DEF Kept, Script, ReadOf
    <3> QED BY <1>3, <3>1
  <2> QED BY <1>1, <1>2, <2>1, <2>2
          DEF Kept, SuccessSticks, EnabledIsTrue, On, Off
<1> QED BY <1>1, <1>4, <1>5, <1>6, <1>7, <1>8, <1>9 DEF JobInv

LEMMA ExecuteStep ==
  ASSUME JobInv, regs \in [Regs -> Values], BusOp.cmd \in Commands,
         Bus!Execute, UNCHANGED job
  PROVE JobInv'
<1>1. /\ job \in Jobs /\ Script /\ Command /\ Left /\ Progress /\ Settled
      /\ Kept
  BY DEF JobInv
<1>2. /\ BusOp.state = "called" /\ BusOp'.state = "done"
      /\ BusOp'.cmd = BusOp.cmd
      /\ Orphan = {} /\ Orphan' = {}
  BY OpFields DEF Bus!Execute
<1>3. Script' BY <1>1, <1>2 DEF Script, Over
<1>4. Left' BY <1>2 DEF Left
<1>5. job.op # "none" BY <1>1, <1>2 DEF Script, Over
<1>6. CASE ~BusOp.cmd.write
  <2>1. regs' = regs /\ BusOp'.value = regs[BusOp.cmd.addr]
    BY <1>6 DEF Bus!Execute
  <2>2. Command' BY <1>1, <1>2, <1>6 DEF Command
  <2>3. Progress' BY <1>1, <1>2, <2>1 DEF Progress, Begun, Reached
  <2>4. Settled' BY <1>2, <2>1 DEF Settled
  <2>5. Kept'
    BY <1>1, <1>2, <2>1 DEF Kept, SuccessSticks, EnabledIsTrue, On, Off
  <2> QED BY <1>1, <1>3, <1>4, <2>2, <2>3, <2>4, <2>5 DEF JobInv
<1>7. CASE BusOp.cmd.write
  <2>0. PICK u \in Updates : u = Head(job.todo)
    BY <1>2, <1>7, CalledWrite
  <2>1. /\ job.todo # <<>> /\ Wise(u)
        /\ BusOp.cmd = WriteOf(u, regs[u.addr])
    BY <1>2, <1>7, <2>0, CalledWrite
  <2>2. regs' = [regs EXCEPT ![BusOp.cmd.addr] = BusOp.cmd.data]
    BY <1>7 DEF Bus!Execute
  <2>3. /\ Applied(u)'
        /\ \A a \in Regs \ {u.addr} : regs'[a] = regs[a]
        /\ regs'[u.addr] \ u.mask = regs[u.addr] \ u.mask
    <3>1. BusOp.cmd.addr = u.addr BY <2>1 DEF WriteOf
    <3>2. regs' = [regs EXCEPT ![u.addr] = WriteOf(u, regs[u.addr]).data]
      BY <2>1, <2>2, <3>1
    <3> QED BY <2>1, <3>2, WriteLands
  <2>4. u = Head(job'.todo) BY <2>0
  <2>5. Command'
    <3>1. Applied(Head(job.todo))' BY <2>3, <2>4 DEF Applied
    <3> QED BY <1>2, <1>7, <3>1 DEF Command
  <2>6. job.op \in {"on", "off", "rollback"} BY <1>1, <2>1, AtHand
  <2>7. Progress'
    <3>1. CASE job.op = "on" /\ job.todo # EnableUpdates
      <4>1. Reached BY <1>1, <1>2, <3>1 DEF Progress, Begun
      <4>2. u \in {RailOn, Arm}
        BY <1>1, <2>0, <3>1, Places DEF Script
      <4>3. /\ u = RailOn => u.addr = "CON0" /\ u.mask = {Enable}
            /\ u = Arm => u.addr = "EINT" /\ u.mask = {Enable}
        BY DEF RailOn, Arm, Update
      <4>4. Polarity \notin regs'["EINT"]
        BY <2>3, <3>1, <4>1, <4>2, <4>3, Bits DEF Reached
      <4>5. job.todo = <<Arm>> => Enable \in regs'["CON0"]
        <5>1. job.todo = <<Arm>> => u = Arm BY <2>0, Places
        <5> QED BY <2>3, <3>1, <4>1, <4>3, <5>1, Bits DEF Reached
      <4> QED BY <1>2, <3>1, <4>4, <4>5 DEF Progress, Reached
    <3>2. CASE job.op = "off" /\ job.todo # DisableUpdates
      <4>1. Reached /\ job.todo = <<Disarm>>
        BY <1>1, <1>2, <3>2 DEF Progress, Begun, Script
      <4>2. u = Disarm /\ u.addr = "EINT"
        BY <2>0, <4>1, Places DEF Disarm, Update
      <4>3. Enable \notin regs'["CON0"]
        BY <2>3, <3>2, <4>1, <4>2, Bits DEF Reached
      <4> QED BY <1>2, <3>2, <4>3 DEF Progress, Reached
    <3>3. CASE ~Begun'
      BY <3>3 DEF Progress
    <3> QED BY <2>6, <3>1, <3>2, <3>3 DEF Begun
  <2>8. Settled' BY <1>2, <1>7 DEF Settled
  <2>9. Kept'
    BY <1>1, <2>6 DEF Kept, SuccessSticks, EnabledIsTrue, Jobs
  <2> QED BY <1>1, <1>3, <1>4, <2>5, <2>7, <2>8, <2>9 DEF JobInv
<1>8. BusOp.cmd.write \in BOOLEAN BY DEF Commands
<1> QED BY <1>6, <1>7, <1>8

LEMMA BusStepKeeps ==
  ASSUME RegInv, BusStep, UNCHANGED job PROVE JobInv'
<1>1. regs \in [Regs -> Values] /\ BusOp.cmd \in Commands
  BY LevelNumbers DEF RegInv, IInv, TypeOK, BusOp, Calls
<1>2. CASE UNCHANGED <<regs, BusOp, Orphan>>
  BY <1>2 DEF RegInv, JobInv, Script, Command, Left, Carries, Wise, Progress,
              Begun, Reached, Settled, Kept, SuccessSticks, EnabledIsTrue,
              On, Off, Applied
<1> QED BY <1>1, <1>2, LandStep, SucceedStep, FailStep, ExecuteStep
        DEF RegInv, BusStep

-----------------------------------------------------------------------------
(* A call at level 1 begins: the level runs, so no callback is in a call.  *)
LEMMA CallerBegins ==
  ASSUME IInv, NEW cmd \in Commands, Begin(1, cmd)
  PROVE /\ SerialBegin(1, cmd)
        /\ BusOp.state \in Over
        /\ BusOp'.state = "called" /\ BusOp'.cmd = cmd
        /\ UNCHANGED <<regs, Orphan>>
<1>1. Alone(1) BY PmicAssumption DEF Begin, Running, Alone
<1>2. SerialBegin(1, cmd) BY <1>1 DEF SerialBegin
<1> QED BY <1>2, CallBegins

(* What the driver sees of a call that is over is what the contract says.  *)
LEMMA Finishes ==
  ASSUME IInv, NEW status \in Over, Finished(status)
  PROVE /\ job.op # "none"
        /\ BusOp.state = status
        /\ BusOp.cmd = call[1].cmd
        /\ status = "SUCCESS" /\ ~call[1].cmd.write =>
             BusOp.value = call[1].value
<1>1. job.op # "none" /\ call[1].pc = status BY DEF Finished
<1>2. BusOp.state = status /\ BusOp.cmd = call[1].cmd
  BY <1>1 DEF BusOp, StateOf
<1>3. PhaseOf(1) BY LevelNumbers DEF IInv, Phase
<1>4. status = "SUCCESS" => Taken(1) BY <1>1, <1>3 DEF PhaseOf
<1> QED BY <1>1, <1>2, <1>4 DEF Taken, Reading, BusOp

LEMMA StartKeeps ==
  ASSUME RegInv, RegulatorSetEnable \/ RegulatorIsEnabled
  PROVE JobInv' /\ \E cmd \in Commands : SerialBegin(1, cmd)
<1>1. PICK op, todo, addr :
        /\ op \in {"on", "off", "query"}
        /\ Start(op, todo, addr)
        /\ op = "on" => todo = EnableUpdates /\ addr = Head(todo).addr
        /\ op = "off" => todo = DisableUpdates /\ addr = Head(todo).addr
        /\ op = "query" => todo = <<>> /\ addr = "CON0"
  BY DEF RegulatorSetEnable, RegulatorIsEnabled
<1>2. addr \in {"CON0", "EINT"}
  <2>1. Head(EnableUpdates) \in Updates /\ Head(DisableUpdates) \in Updates
    BY UpdateFields DEF Updates
  <2> QED BY <1>1, <2>1, UpdateFields
<1>3. ReadOf(addr) \in Commands /\ ~ReadOf(addr).write
      /\ ReadOf(addr).addr = addr
  BY <1>2, Reads, Bits
<1>4. Begin(1, ReadOf(addr)) BY <1>1 DEF Start
<1>5. /\ SerialBegin(1, ReadOf(addr))
      /\ BusOp'.state = "called" /\ BusOp'.cmd = ReadOf(addr)
      /\ UNCHANGED <<regs, Orphan>>
  BY <1>3, <1>4, CallerBegins DEF RegInv
<1>6. /\ job.op = "none"
      /\ job'.op = op /\ job'.todo = todo /\ job'.enabled = {}
      /\ job'.set = IF op = "query" THEN job.set ELSE "unknown"
  BY <1>1 DEF Start
<1>7. /\ job \in Jobs /\ Script /\ Left /\ Kept BY DEF RegInv, JobInv
<1>8. job' \in Jobs
  <2>1. job' = [op |-> op, todo |-> todo, enabled |-> {},
                set |-> IF op = "query" THEN job.set ELSE "unknown"]
    BY <1>1 DEF Start
  <2> QED BY <1>1, <1>7, <2>1 DEF Jobs
<1>9. Script' BY <1>1, <1>5, <1>6 DEF Script
<1>10. Command' BY <1>1, <1>5, <1>6 DEF Command
<1>11. Left' BY <1>5, <1>7 DEF Left, Carries, Wise
<1>12. Progress' BY <1>1, <1>3, <1>5, <1>6 DEF Progress, Begun
<1>13. Settled' BY <1>5 DEF Settled
<1>14. Kept'
  BY <1>5, <1>6, <1>7 DEF Kept, SuccessSticks, EnabledIsTrue, On, Off
<1> QED BY <1>3, <1>5, <1>8, <1>9, <1>10, <1>11, <1>12, <1>13, <1>14
        DEF JobInv

LEMMA WriteKeeps ==
  ASSUME RegInv, UpdateWrite
  PROVE JobInv' /\ \E cmd \in Commands : SerialBegin(1, cmd)
<1>1. /\ job.todo # <<>> /\ ~call[1].cmd.write
      /\ Begin(1, WriteOf(Head(job.todo), call[1].value))
      /\ job' = job
  BY DEF UpdateWrite
<1>2. /\ BusOp.state = "SUCCESS" /\ ~BusOp.cmd.write
      /\ BusOp.value = call[1].value /\ job.op # "none"
  BY <1>1, Finishes DEF UpdateWrite, RegInv, Over
<1>3. /\ job \in Jobs /\ Script /\ Command /\ Left /\ Progress /\ Settled
      /\ Kept
  BY DEF RegInv, JobInv
<1>4. PICK u \in Updates : u = Head(job.todo) BY <1>1, <1>3, AtHand
<1>5. BusOp.cmd = ReadOf(u.addr) BY <1>1, <1>2, <1>3, <1>4 DEF Command
<1>6. u.addr \in Regs BY UpdateFields, Bits
<1>7. call[1].value = regs[u.addr] /\ Orphan = {}
  BY <1>2, <1>3, <1>5, <1>6, Reads DEF Settled
<1>8. regs[u.addr] \in Values BY <1>6 DEF RegInv, IInv, TypeOK
<1>9. WriteOf(u, regs[u.addr]) \in Commands
      /\ WriteOf(u, regs[u.addr]).write
  BY <1>8, Writes
<1>10. /\ SerialBegin(1, WriteOf(u, regs[u.addr]))
       /\ BusOp'.state = "called" /\ BusOp'.cmd = WriteOf(u, regs[u.addr])
       /\ UNCHANGED <<regs, Orphan>>
  BY <1>1, <1>4, <1>7, <1>9, CallerBegins DEF RegInv
<1>11. job.op \in {"on", "off", "rollback"} BY <1>1, <1>3, AtHand
<1>12. Script' BY <1>1, <1>3, <1>11 DEF Script
<1>13. Command' BY <1>1, <1>4, <1>7, <1>9, <1>10 DEF Command
<1>14. Left' BY <1>7, <1>10 DEF Left
<1>15. Progress'
  BY <1>1, <1>2, <1>3, <1>7, <1>10, <1>11 DEF Progress, Begun, Reached
<1>16. Settled' BY <1>10 DEF Settled
<1>17. Kept'
  BY <1>1, <1>3, <1>11 DEF Kept, SuccessSticks, EnabledIsTrue, Jobs
<1> QED BY <1>1, <1>3, <1>9, <1>10, <1>12, <1>13, <1>14, <1>15, <1>16, <1>17
        DEF JobInv

(* A call ends without another command. *)
LEMMA EndKeeps ==
  ASSUME RegInv, NEW status \in Over, Finished(status), UNCHANGED vars,
         job' \in Jobs, job'.op = "none", job'.todo = <<>>,
         job'.set # "unknown" => Orphan = {},
         job'.set = "on" => On /\ Polarity \notin regs["EINT"],
         job'.set = "off" => Off,
         job'.enabled # {} => Orphan = {} /\ job'.enabled = {On}
  PROVE JobInv'
<1>1. UNCHANGED <<regs, BusOp, Orphan>> BY DEF vars, BusOp, StateOf, Orphan
<1>2. BusOp.state \in Over BY Finishes DEF RegInv
<1>3. Left /\ Settled BY DEF RegInv, JobInv
<1>4. Script' BY <1>1, <1>2 DEF Script
<1>5. Command' BY DEF Command
<1>6. Left' BY <1>1, <1>3 DEF Left, Carries, Wise
<1>7. Progress' BY DEF Progress, Begun
<1>8. Settled' BY <1>1, <1>3 DEF Settled
<1>9. Kept' BY <1>1 DEF Kept, SuccessSticks, EnabledIsTrue, On, Off
<1> QED BY <1>4, <1>5, <1>6, <1>7, <1>8, <1>9 DEF JobInv

LEMMA NextKeeps ==
  ASSUME RegInv, UpdateNext
  PROVE /\ JobInv'
        /\ UNCHANGED vars \/ \E cmd \in Commands : SerialBegin(1, cmd)
<1>1. Finished("SUCCESS") /\ call[1].cmd.write BY DEF UpdateNext
<1>2. /\ BusOp.state = "SUCCESS" /\ BusOp.cmd.write /\ job.op # "none"
  BY <1>1, Finishes DEF RegInv, Over
<1>3. /\ job \in Jobs /\ Script /\ Command /\ Left /\ Progress /\ Settled
      /\ Kept
  BY DEF RegInv, JobInv
<1>4. job.op \in {"on", "off", "rollback"} /\ job.todo # <<>>
  <2>1. \A a \in {"CON0", "EINT"} : ~ReadOf(a).write BY DEF ReadOf
  <2>2. job.op # "query" BY <1>2, <1>3, <2>1 DEF Script
  <2> QED BY <1>2, <1>3, <2>2, Places DEF Jobs, Script
<1>5. Orphan = {} BY <1>2, <1>3 DEF Settled
<1>6. Applied(Head(job.todo))
  <2>1. Head(job.todo) \in Updates BY <1>3, <1>4, AtHand
  <2>2. ~ReadOf(Head(job.todo).addr).write BY DEF ReadOf
  <2> QED BY <1>2, <1>3, <1>4, <2>2 DEF Command
<1>7. Begun => Reached BY <1>2, <1>3 DEF Progress
<1>8. job.set = "unknown" /\ job.enabled = {}
  BY <1>3, <1>4 DEF Kept, Jobs
<1>9. CASE Len(job.todo) > 1
  <2>1. /\ Begin(1, ReadOf(job.todo[2].addr))
        /\ job' = [job EXCEPT !.todo = Tail(job.todo)]
    BY <1>9 DEF UpdateNext
  <2>2. \/ job.op = "on" /\ job.todo = EnableUpdates
        \/ job.op = "on" /\ job.todo = <<RailOn, Arm>>
        \/ job.op = "off" /\ job.todo = DisableUpdates
    BY <1>3, <1>4, <1>9, Places DEF Script
  <2>3. /\ job'.op = job.op /\ job'.set = job.set
        /\ job'.enabled = job.enabled
        /\ job'.todo \in {<<RailOn, Arm>>, <<Arm>>, <<Disarm>>}
        /\ job.todo = EnableUpdates => job'.todo = <<RailOn, Arm>>
        /\ job.todo = <<RailOn, Arm>> => job'.todo = <<Arm>>
        /\ job.todo = DisableUpdates => job'.todo = <<Disarm>>
        /\ job' \in Jobs
        /\ job.todo[2] = Head(job'.todo)
        /\ job.todo[2] \in Updates
    BY <1>3, <2>1, <2>2, Places DEF Jobs, Updates
  <2>4. ReadOf(job.todo[2].addr) \in Commands
    BY <2>3, UpdateFields, Bits, Reads
  <2>5. /\ SerialBegin(1, ReadOf(job.todo[2].addr))
        /\ BusOp'.state = "called"
        /\ BusOp'.cmd = ReadOf(job.todo[2].addr)
        /\ UNCHANGED <<regs, Orphan>>
    BY <2>1, <2>4, CallerBegins DEF RegInv
  <2>6. Script' BY <2>2, <2>3, Places DEF Script
  <2>7. Command' BY <2>3, <2>5 DEF Command
  <2>8. Reached'
    <3>1. CASE job.op = "on" /\ job.todo = EnableUpdates
      <4>1. Polarity \notin regs["EINT"]
        BY <1>6, <3>1, UpdateFields DEF Applied, ClearPolarity, Update
      <4> QED BY <2>3, <2>5, <3>1, <4>1, Places DEF Reached
    <3>2. CASE job.op = "on" /\ job.todo = <<RailOn, Arm>>
      <4>1. Enable \in regs["CON0"]
        BY <1>6, <3>2, Places DEF Applied, RailOn, Update
      <4>2. Polarity \notin regs["EINT"]
        BY <1>7, <3>2, Places DEF Begun, Reached
      <4> QED BY <2>3, <2>5, <3>2, <4>1, <4>2, Places DEF Reached
    <3>3. CASE job.op = "off" /\ job.todo = DisableUpdates
      <4>1. Enable \notin regs["CON0"]
        BY <1>6, <3>3, UpdateFields DEF Applied, RailOff, Update
      <4> QED BY <2>3, <2>5, <3>3, <4>1, Places DEF Reached
    <3> QED BY <2>2, <3>1, <3>2, <3>3
  <2>9. Progress' BY <1>5, <2>5, <2>8 DEF Progress
  <2>10. Settled' BY <2>5 DEF Settled
  <2>11. Left' BY <1>5, <2>5 DEF Left
  <2>12. Kept' BY <1>8, <2>3 DEF Kept, SuccessSticks, EnabledIsTrue
  <2> QED BY <2>3, <2>4, <2>5, <2>6, <2>7, <2>9, <2>10, <2>11, <2>12
          DEF JobInv
<1>10. CASE ~(Len(job.todo) > 1)
  <2>1. End(IF job.op = "rollback" THEN "unknown" ELSE job.op)
    BY <1>10 DEF UpdateNext
  <2>2. \/ job.op = "on" /\ job.todo = <<Arm>>
        \/ job.op = "off" /\ job.todo = <<Disarm>>
        \/ job.op = "rollback"
    BY <1>3, <1>4, <1>10, Places DEF Script
  <2>3. /\ UNCHANGED vars
        /\ job'.op = "none" /\ job'.todo = <<>>
        /\ job'.set = IF job.op = "rollback" THEN "unknown" ELSE job.op
        /\ job'.enabled = {}
    BY <1>3, <1>8, <2>1 DEF End, Jobs
  <2>4. job' \in Jobs
    <3>1. job' = [job EXCEPT !.op = "none", !.todo = <<>>,
                             !.set = IF job.op = "rollback" THEN "unknown"
                                     ELSE job.op]
      BY <2>1 DEF End
    <3>2. (IF job.op = "rollback" THEN "unknown" ELSE job.op)
            \in {"unknown", "on", "off"}
      BY <2>2
    <3> QED BY <1>3, <3>1, <3>2 DEF Jobs
  <2>5. job.op = "on" => On /\ Polarity \notin regs["EINT"]
    <3>1. ASSUME job.op = "on"
          PROVE On /\ Polarity \notin regs["EINT"]
      <4>1. job.todo = <<Arm>> BY <2>2, <3>1
      <4>2. Enable \in regs["EINT"]
        BY <1>6, <4>1, Places DEF Applied, Arm, Update
      <4>3. Enable \in regs["CON0"] /\ Polarity \notin regs["EINT"]
        BY <1>7, <3>1, <4>1, Places DEF Begun, Reached
      <4> QED BY <4>2, <4>3 DEF On
    <3> QED BY <3>1
  <2>6. job.op = "off" => Off
    <3>1. ASSUME job.op = "off" PROVE Off
      <4>1. job.todo = <<Disarm>> BY <2>2, <3>1
      <4>2. Enable \notin regs["EINT"]
        BY <1>6, <4>1, Places DEF Applied, Disarm, Update
      <4>3. Enable \notin regs["CON0"]
        BY <1>7, <3>1, <4>1, Places DEF Begun, Reached
      <4> QED BY <4>2, <4>3 DEF Off
    <3> QED BY <3>1
  <2> QED BY <1>1, <1>5, <2>3, <2>4, <2>5, <2>6, EndKeeps DEF Over
<1> QED BY <1>9, <1>10

LEMMA FailKeeps ==
  ASSUME RegInv, UpdateFail
  PROVE /\ JobInv'
        /\ UNCHANGED vars \/ \E cmd \in Commands : SerialBegin(1, cmd)
<1>1. Finished("TIMEOUT") BY DEF UpdateFail
<1>2. job.op # "none" BY <1>1 DEF Finished
<1>3. job \in Jobs /\ Left /\ Kept BY DEF RegInv, JobInv
<1>4. CASE Rollback
  <2>1. /\ Begin(1, ReadOf("CON0"))
        /\ job' = [job EXCEPT !.op = "rollback", !.todo = <<RailOff>>]
    BY <1>4 DEF UpdateFail
  <2>2. ReadOf("CON0") \in Commands /\ RailOff.addr = "CON0"
    BY Bits, Reads DEF RailOff, Update
  <2>3. /\ SerialBegin(1, ReadOf("CON0"))
        /\ BusOp'.state = "called" /\ BusOp'.cmd = ReadOf("CON0")
        /\ UNCHANGED <<regs, Orphan>>
    BY <2>1, <2>2, CallerBegins DEF RegInv
  <2>4. /\ job'.op = "rollback" /\ job'.todo = <<RailOff>>
        /\ job'.set = job.set /\ job'.enabled = job.enabled
        /\ job' \in Jobs
    BY <1>3, <2>1 DEF Jobs
  <2>5. job.set = "unknown" /\ job.enabled = {}
    BY <1>3, <1>4 DEF Kept, Rollback, Jobs
  <2>6. Script' BY <2>4 DEF Script
  <2>7. Command' BY <2>2, <2>3, <2>4, Places DEF Command
  <2>8. Left' BY <1>3, <2>3 DEF Left, Carries, Wise
  <2>9. Progress' BY <2>4 DEF Progress, Begun
  <2>10. Settled' BY <2>3 DEF Settled
  <2>11. Kept' BY <2>4, <2>5 DEF Kept, SuccessSticks, EnabledIsTrue
  <2> QED BY <2>2, <2>3, <2>4, <2>6, <2>7, <2>8, <2>9, <2>10, <2>11
          DEF JobInv
<1>5. CASE ~Rollback
  <2>1. End(IF job.op = "query" THEN job.set ELSE "unknown")
    BY <1>5 DEF UpdateFail
  <2>2. /\ UNCHANGED vars
        /\ job'.op = "none" /\ job'.todo = <<>>
        /\ job'.set = IF job.op = "query" THEN job.set ELSE "unknown"
        /\ job'.enabled = job.enabled
        /\ job' \in Jobs
    BY <1>3, <2>1 DEF End, Jobs
  <2>3. job.enabled = {} BY <1>2, <1>3 DEF Kept
  <2> QED BY <1>1, <1>3, <2>2, <2>3, EndKeeps
          DEF Over, Kept, SuccessSticks
<1> QED BY <1>4, <1>5

LEMMA QueryKeeps ==
  ASSUME RegInv, QueryRead
  PROVE /\ JobInv'
        /\ UNCHANGED vars \/ \E cmd \in Commands : SerialBegin(1, cmd)
<1>1. Finished("SUCCESS") /\ job.op = "query" BY DEF QueryRead
<1>2. /\ job \in Jobs /\ Script /\ Left /\ Progress /\ Settled /\ Kept
  BY DEF RegInv, JobInv
<1>3. BusOp.state = "SUCCESS" /\ BusOp.cmd = call[1].cmd
  BY <1>1, Finishes DEF RegInv, Over
<1>4. /\ BusOp.cmd \in {ReadOf("CON0"), ReadOf("EINT")}
      /\ job.todo = <<>>
  BY <1>1, <1>2 DEF Script
<1>5. ~BusOp.cmd.write /\ BusOp.cmd.addr \in {"CON0", "EINT"}
  BY <1>4 DEF ReadOf
<1>6. BusOp.value = call[1].value
  BY <1>1, <1>3, <1>5, Finishes DEF RegInv, Over
<1>7. call[1].value = regs[BusOp.cmd.addr] /\ Orphan = {}
  BY <1>1, <1>2, <1>3, <1>5, <1>6 DEF Settled
<1>8. job.enabled = {} BY <1>1, <1>2 DEF Kept
<1>9. CASE call[1].cmd.addr = "CON0" /\ Enable \in call[1].value
  <2>1. Begin(1, ReadOf("EINT")) /\ job' = job BY <1>9 DEF QueryRead
  <2>2. /\ ReadOf("EINT") \in Commands /\ ReadOf("EINT").addr = "EINT"
    BY Bits, Reads
  <2>3. /\ SerialBegin(1, ReadOf("EINT"))
        /\ BusOp'.state = "called" /\ BusOp'.cmd = ReadOf("EINT")
        /\ UNCHANGED <<regs, Orphan>>
    BY <2>1, <2>2, CallerBegins DEF RegInv
  <2>4. Enable \in regs["CON0"] BY <1>3, <1>7, <1>9
  <2>5. Script' BY <1>1, <1>4, <2>1, <2>3 DEF Script
  <2>6. Command' BY <1>4, <2>1 DEF Command
  <2>7. Left' BY <1>7, <2>3 DEF Left
  <2>8. Progress' BY <1>1, <1>7, <2>1, <2>3, <2>4 DEF Progress, Reached
  <2>9. Settled' BY <2>3 DEF Settled
  <2>10. Kept'
    BY <1>2, <1>8, <2>1, <2>3
       DEF Kept, SuccessSticks, EnabledIsTrue, On, Off
  <2> QED BY <1>2, <2>1, <2>2, <2>3, <2>5, <2>6, <2>7, <2>8, <2>9, <2>10
          DEF JobInv
<1>10. CASE ~(call[1].cmd.addr = "CON0" /\ Enable \in call[1].value)
  <2>1. /\ job' = [job EXCEPT !.op = "none",
                              !.enabled = {Enable \in call[1].value}]
        /\ UNCHANGED vars
    BY <1>10 DEF QueryRead
  <2>2. /\ job'.op = "none" /\ job'.todo = <<>> /\ job'.set = job.set
        /\ job'.enabled = {Enable \in call[1].value}
        /\ job' \in Jobs
    BY <1>2, <1>4, <2>1 DEF Jobs
  <2>3. On <=> Enable \in call[1].value
    <3>1. CASE BusOp.cmd.addr = "CON0"
      BY <1>3, <1>7, <1>10, <3>1 DEF On
    <3>2. CASE BusOp.cmd.addr = "EINT"
      <4>1. Enable \in regs["CON0"]
        BY <1>1, <1>2, <1>3, <3>2 DEF Progress, Begun, Reached
      <4> QED BY <1>7, <3>2, <4>1 DEF On
    <3> QED BY <1>5, <3>1, <3>2
  <2>4. On = (Enable \in call[1].value)
    <3>1. On \in BOOLEAN /\ (Enable \in call[1].value) \in BOOLEAN
      BY DEF On
    <3> HIDE DEF On
    <3> QED BY <2>3, <3>1
  <2> QED BY <1>1, <1>2, <1>7, <2>1, <2>2, <2>4, EndKeeps
          DEF Over, Kept, SuccessSticks
<1> QED BY <1>9, <1>10

-----------------------------------------------------------------------------
(* While the callback keeps out of wrapper calls, every step of the driver *)
(* makes serial calls and keeps the invariant.                             *)
LEMMA RegStep ==
  ASSUME Separate, RegInv, [RegNext]_regVars
  PROVE [SerialNext]_vars /\ JobInv'
<1>0. IInv /\ 1 \in Levels BY LevelNumbers DEF RegInv
<1>1. ASSUME JobInv', UNCHANGED vars \/ \E cmd \in Commands :
                                         SerialBegin(1, cmd)
      PROVE [SerialNext]_vars /\ JobInv'
  BY <1>0, <1>1 DEF SerialNext
<1>2. CASE Answer /\ UNCHANGED job
  BY <1>0, <1>2, AnswerBus, BusStepKeeps DEF SerialNext
<1>3. ASSUME NEW l \in Levels, Step(l), UNCHANGED job
      PROVE [SerialNext]_vars /\ JobInv'
  <2>1. BusStep
    <3>1. CASE l = 1 BY <1>0, <1>3, <3>1, CallerBus
    <3>2. CASE l # 1 BY <1>0, <1>3, <3>2, CallbackBus DEF BusStep
    <3> QED BY <3>1, <3>2
  <2> QED BY <1>3, <2>1, BusStepKeeps DEF SerialNext
<1>4. CASE Continue
  BY <1>1, <1>4, WriteKeeps, NextKeeps, FailKeeps, QueryKeeps DEF Continue
<1>5. CASE RegulatorSetEnable \/ RegulatorIsEnabled
  BY <1>1, <1>5, StartKeeps
<1>6. CASE ButtonPressed
  <2>1. 2 \in Levels /\ Begin(2, ReadOf("TOPSTATUS")) /\ UNCHANGED job
    BY <1>6 DEF ButtonPressed
  <2>2. call[1].pc \in Over
    BY <1>6, <2>1 DEF ButtonPressed, Separate
  <2>3. Alone(2) BY <2>1, <2>2, PmicAssumption DEF Alone
  <2>4. ReadOf("TOPSTATUS") \in Commands /\ ~ReadOf("TOPSTATUS").write
    BY Bits, Reads
  <2>5. SerialBegin(2, ReadOf("TOPSTATUS"))
    BY <2>1, <2>3, <2>4 DEF SerialBegin
  <2>6. BusStep BY <1>0, <2>1, CallbackBegins DEF BusStep
  <2> QED BY <2>1, <2>4, <2>5, <2>6, BusStepKeeps DEF SerialNext
<1>7. CASE UNCHANGED regVars
  <2>1. UNCHANGED vars /\ UNCHANGED job BY <1>7 DEF regVars
  <2>2. BusStep BY <2>1 DEF vars, BusStep, BusOp, StateOf, Orphan
  <2> QED BY <2>1, <2>2, BusStepKeeps
<1> QED BY <1>2, <1>3, <1>4, <1>5, <1>6, <1>7 DEF RegNext

LEMMA RegStart == ASSUME RegInit PROVE RegInv
<1>1. Init /\ IInv BY InitInv DEF RegInit
<1>2. job = [op |-> "none", todo |-> <<>>, set |-> "unknown",
             enabled |-> {}]
  BY DEF RegInit
<1>3. call[1].pc = "SUCCESS" /\ Orphan = {}
  BY <1>1, LevelNumbers DEF Init, NoCall, Orphan
<1>4. BusOp.state = "SUCCESS" BY <1>3 DEF BusOp, StateOf, Over
<1>5. job \in Jobs BY <1>2 DEF Jobs
<1>6. Script BY <1>2, <1>4 DEF Script, Over
<1>7. Command /\ Left BY <1>2, <1>3 DEF Command, Left
<1>8. Progress /\ Settled BY <1>2, <1>3 DEF Progress, Begun, Settled
<1>9. Kept BY <1>2 DEF Kept, SuccessSticks, EnabledIsTrue
<1> QED BY <1>1, <1>5, <1>6, <1>7, <1>8, <1>9 DEF RegInv, JobInv

LEMMA RegInductive == ASSUME Separate PROVE RegSpec => []RegInv
<1>1. RegInit => RegInv BY RegStart
<1>2. RegInv /\ [RegNext]_regVars => RegInv'
  <2> SUFFICES ASSUME RegInv, [RegNext]_regVars PROVE RegInv' OBVIOUS
  <2>1. [SerialNext]_vars /\ JobInv' BY RegStep
  <2>2. IInv' BY <2>1, NextInv DEF RegInv
  <2> QED BY <2>1, <2>2 DEF RegInv
<1> QED BY <1>1, <1>2, PTL DEF RegSpec

(* A SetEnable that succeeded stays in force until the next one begins, no *)
(* matter what earlier calls gave up on (MT6358PmicDxe.c:635-672).         *)
THEOREM SuccessIsFinal ==
  ASSUME Separate PROVE RegSpec => []SuccessSticks
<1>1. RegInv => SuccessSticks BY DEF RegInv, JobInv, Kept
<1> QED BY <1>1, RegInductive, PTL

(* IsEnabled, when it succeeds, says what is so.  Without Separate it need *)
(* not (MT6358PmicDxe.c:784-819, MtkPmic.h:37).                            *)
THEOREM AnswerIsTrue ==
  ASSUME Separate PROVE RegSpec => []EnabledIsTrue
<1>1. RegInv => EnabledIsTrue BY DEF RegInv, JobInv, Kept
<1> QED BY <1>1, RegInductive, PTL

(* The wrapper's own guarantees, when the regulator calls and the key      *)
(* reads share it (PmicWrapperDxe.c:87-91, 129-165).                       *)
THEOREM SharedSuccess ==
  ASSUME Separate PROVE RegSpec => []SuccessIsOwn
<1>1. RegInv => SuccessIsOwn BY Success DEF RegInv
<1> QED BY <1>1, RegInductive, PTL

THEOREM SharedClean == ASSUME Separate PROVE RegSpec => CleanSucceeds
<1>1. RegInv /\ [RegNext]_regVars =>
        [\A l \in Levels :
           GiveUp(l) => ~call[l].clean \/ (bus.from = l /\ bus.slow)]_vars
  BY Clean DEF RegInv
<1> QED BY <1>1, RegInductive, PTL DEF RegSpec, CleanSucceeds

THEOREM SharedBus == ASSUME Separate PROVE RegSpec => BusSpec
<1>1. RegInit => Bus!Init BY InitBus DEF RegInit
<1>2. RegInv /\ [RegNext]_regVars => [Bus!Next]_(Bus!vars)
  BY RegStep, NextBus DEF RegInv
<1> QED BY <1>1, <1>2, RegInductive, PTL DEF RegSpec, BusSpec, Bus!Spec

(* The registers change when a write of the driver is carried out. *)
LEMMA RegsChange ==
  ASSUME Separate, RegInv, [RegNext]_regVars, regs' # regs
  PROVE \E u \in Updates :
          Wise(u) /\ regs' = [regs EXCEPT ![u.addr] =
                                 WriteOf(u, regs[u.addr]).data]
<1>1. [Bus!Next]_(Bus!vars) BY RegStep, NextBus DEF RegInv
<1>2. \/ BusOp.state = "called" /\ BusOp.cmd.write
         /\ regs' = [regs EXCEPT ![BusOp.cmd.addr] = BusOp.cmd.data]
      \/ \E w \in Orphan : regs' = [regs EXCEPT ![w.addr] = w.data]
  BY <1>1 DEF Bus!Next, Bus!Begin, Bus!Execute, Bus!Succeed, Bus!Fail,
              Bus!Land, Bus!vars
<1>3. PICK w : Carries(w) /\ regs' = [regs EXCEPT ![w.addr] = w.data]
  <2>1. CASE BusOp.state = "called" /\ BusOp.cmd.write
    <3>1. Carries(BusOp.cmd) BY <2>1, CalledWrite DEF RegInv, Carries
    <3> QED BY <1>2, <2>1, <3>1 DEF RegInv, JobInv, Left
  <2>2. ASSUME NEW w \in Orphan, regs' = [regs EXCEPT ![w.addr] = w.data]
        PROVE Carries(w)
    BY DEF RegInv, JobInv, Left
  <2> QED BY <1>2, <2>1, <2>2
<1>4. PICK u \in Updates : w = WriteOf(u, regs[u.addr]) /\ Wise(u)
  BY <1>3 DEF Carries
<1>5. w.addr = u.addr BY <1>4 DEF WriteOf
<1> QED BY <1>3, <1>4, <1>5

(* Read-modify-write keeps the bits of CON0 that are not masked, for any   *)
(* number of bits and whatever is late (MT6358PmicDxe.c:618).              *)
THEOREM BitsAreKept == ASSUME Separate PROVE RegSpec => OnlyItsBits
<1>1. RegInv /\ [RegNext]_regVars =>
        [regs'["CON0"] \ {Enable} = regs["CON0"] \ {Enable}]_regs
  <2> SUFFICES ASSUME RegInv, [RegNext]_regVars, regs' # regs
               PROVE regs'["CON0"] \ {Enable} = regs["CON0"] \ {Enable}
    OBVIOUS
  <2>1. PICK u \in Updates :
          Wise(u) /\ regs' = [regs EXCEPT ![u.addr] =
                                 WriteOf(u, regs[u.addr]).data]
    BY RegsChange
  <2>2. regs \in [Regs -> Values] BY DEF RegInv, IInv, TypeOK
  <2> QED BY <2>1, <2>2, WriteLands
<1> QED BY <1>1, RegInductive, PTL DEF RegSpec, OnlyItsBits

(* The gate is armed only over an enabled rail with the polarity selected, *)
(* and disarmed only over a rail that is off (MT6358PmicDxe.c:633-634,     *)
(* 665-671).                                                               *)
THEOREM GateIsSequenced == ASSUME Separate PROVE RegSpec => GateFollowsRail
<1> DEFINE A == /\ Enable \in regs'["EINT"] \ regs["EINT"] =>
                     Enable \in regs["CON0"] /\ Polarity \notin regs["EINT"]
                /\ Enable \in regs["EINT"] \ regs'["EINT"] =>
                     Enable \notin regs["CON0"]
<1>1. RegInv /\ [RegNext]_regVars => [A]_regs
  <2> SUFFICES ASSUME RegInv, [RegNext]_regVars, regs' # regs PROVE A
    OBVIOUS
  <2>1. PICK u \in Updates :
          Wise(u) /\ regs' = [regs EXCEPT ![u.addr] =
                                 WriteOf(u, regs[u.addr]).data]
    BY RegsChange
  <2>2. regs \in [Regs -> Values] BY DEF RegInv, IInv, TypeOK
  <2> QED BY <2>1, <2>2, WriteLands
<1> QED BY <1>1, RegInductive, PTL DEF RegSpec, GateFollowsRail

-----------------------------------------------------------------------------
(* Bounded work.  A wrapper call takes eight steps to read and five to     *)
(* write.  What a level has left is what its call has; level 1 also has    *)
(* the updates that follow, and the rollback when the last one may fail.   *)
ReadSteps   == 8
WriteSteps  == 5
UpdateSteps == ReadSteps + 1 + WriteSteps + 1
JobSteps    == 4 * UpdateSteps

CommandLeft(write) == IF write THEN WriteSteps ELSE ReadSteps
CallLeft(l) ==
  CASE call[l].pc = "check" -> CommandLeft(call[l].cmd.write)
    [] call[l].pc = "clear" -> CommandLeft(call[l].cmd.write) - 1
    [] call[l].pc = "idle"  -> CommandLeft(call[l].cmd.write) - 2
    [] call[l].pc = "issue" -> CommandLeft(call[l].cmd.write) - 3
    [] call[l].pc = "valid" -> 4
    [] call[l].pc = "data"  -> 3
    [] call[l].pc = "ack"   -> 2
    [] call[l].pc = "drain" -> 1
    [] OTHER                -> 0

AfterCall ==
  CASE job.op = "none"  -> 0
    [] job.op = "query" -> IF call[1].cmd.addr = "CON0" THEN ReadSteps + 2
                           ELSE 1
    [] OTHER            -> IF call[1].cmd.write THEN 1 ELSE 1 + WriteSteps + 1
UpdatesLeft ==
  (IF Len(job.todo) > 1 THEN (Len(job.todo) - 1) * UpdateSteps ELSE 0)
  + IF job.op = "on" THEN UpdateSteps ELSE 0
WorkLeft == CallLeft(1) + AfterCall + UpdatesLeft

(* The steps of a level since its call, of the regulator or of the         *)
(* wrapper, began.                                                         *)
VARIABLE steps
countVars == <<regVars, steps>>

Counts(l) == steps' = [steps EXCEPT ![l] = @ + 1]
Resets(l) == steps' = [steps EXCEPT ![l] = 0]

CountInit == RegInit /\ steps = [l \in Levels |-> 0]
CountNext ==
  \/ Answer /\ UNCHANGED <<job, steps>>
  \/ \E l \in Levels : Step(l) /\ UNCHANGED job /\ Counts(l)
  \/ Continue /\ Counts(1)
  \/ (RegulatorSetEnable \/ RegulatorIsEnabled) /\ Resets(1)
  \/ ButtonPressed /\ Resets(2)
CountSpec == CountInit /\ [][CountNext]_countVars

(* Counting adds nothing to what can happen. *)
LEMMA CountIsNext ==
  /\ CountInit => RegInit
  /\ [CountNext]_countVars => [RegNext]_regVars
BY DEF CountInit, CountNext, RegNext, countVars

StepsBounded ==
  steps[1] <= JobSteps /\ (2 \in Levels => steps[2] <= ReadSteps)

(* What each call can be at, whoever preempts it. *)
Shape ==
  /\ job \in Jobs
  /\ job.op = "none" => job.todo = <<>> /\ call[1].pc \in Over
  /\ job.op = "query" => job.todo = <<>> /\ ~call[1].cmd.write
  /\ job.op = "on" =>
       job.todo \in {EnableUpdates, <<RailOn, Arm>>, <<Arm>>}
  /\ job.op = "off" => job.todo \in {DisableUpdates, <<Disarm>>}
  /\ job.op = "rollback" => job.todo = <<RailOff>>
Typed == TypeOK /\ Shape

LEMMA CallRange ==
  ASSUME TypeOK, NEW l \in Levels
  PROVE /\ CallLeft(l) \in Nat
        /\ call[l].pc \in Over => CallLeft(l) = 0
BY DEF TypeOK, Calls, Over, CallLeft, CommandLeft, ReadSteps, WriteSteps

(* A call begins with all of its steps left, and every step takes one. *)
LEMMA BeginsCall ==
  ASSUME TypeOK, NEW l \in Levels, NEW cmd, Begin(l, cmd)
  PROVE /\ call'[l].pc = "check" /\ call'[l].cmd = cmd
        /\ CallLeft(l)' = CommandLeft(cmd.write)
        /\ \A k \in Levels \ {l} : call'[k] = call[k]
<1>1. call'[l] = [NoCall EXCEPT !.pc = "check", !.cmd = cmd,
                    !.done = FALSE, !.clean = (fsm # "busy")]
  BY DEF Begin, TypeOK
<1>2. call'[l].pc = "check" /\ call'[l].cmd = cmd BY <1>1 DEF NoCall
<1>3. \A k \in Levels \ {l} : call'[k] = call[k] BY DEF Begin, TypeOK
<1>4. CallLeft(l)' = CommandLeft(cmd.write)
  BY <1>2 DEF CallLeft, CommandLeft, ReadSteps, WriteSteps
<1> QED BY <1>2, <1>3, <1>4

LEMMA StepShrinks ==
  ASSUME TypeOK, NEW l \in Levels, Step(l)
  PROVE /\ CallLeft(l)' + 1 <= CallLeft(l)
        /\ call'[l].cmd = call[l].cmd /\ call[l].pc \notin Over
        /\ \A k \in Levels \ {l} : call'[k] = call[k]
<1> USE DEF At, Goto, Over
<1>1. call[l] \in Calls BY DEF TypeOK
<1>2. ASSUME NEW place, Goto(l, place)
      PROVE /\ call'[l].pc = place /\ call'[l].cmd = call[l].cmd
            /\ \A k \in Levels \ {l} : call'[k] = call[k]
  BY <1>1, <1>2 DEF TypeOK, Calls
<1>3. ReadData(l) => /\ call'[l].pc = "ack" /\ call'[l].cmd = call[l].cmd
                     /\ \A k \in Levels \ {l} : call'[k] = call[k]
  BY <1>1 DEF ReadData, TypeOK, Calls
<1>4. /\ call'[l].cmd = call[l].cmd
      /\ \A k \in Levels \ {l} : call'[k] = call[k]
      /\ \/ call[l].pc = "check" /\ call'[l].pc \in {"clear", "idle"}
         \/ call[l].pc = "clear" /\ call'[l].pc = "idle"
         \/ call[l].pc = "idle" /\ call'[l].pc = "issue"
         \/ /\ call[l].pc = "issue"
            /\ call'[l].pc = IF call[l].cmd.write THEN "drain" ELSE "valid"
         \/ call[l].pc = "valid" /\ call'[l].pc = "data"
         \/ call[l].pc = "data" /\ call'[l].pc = "ack"
         \/ call[l].pc = "ack" /\ call'[l].pc = "drain"
         \/ call[l].pc = "drain" /\ call'[l].pc = "SUCCESS"
         \/ call[l].pc \in {"idle", "valid", "drain"}
            /\ call'[l].pc = "TIMEOUT"
  <2> HIDE DEF Goto
  <2>1. CASE Check(l) BY <1>2, <2>1 DEF Check
  <2>2. CASE Clear(l) BY <1>2, <2>2 DEF Clear, ClearTo
  <2>3. CASE SeeIdle(l) BY <1>2, <2>3 DEF SeeIdle
  <2>4. CASE Issue(l) BY <1>2, <2>4 DEF Issue
  <2>5. CASE SeeValid(l) BY <1>2, <2>5 DEF SeeValid
  <2>6. CASE ReadData(l) BY <1>3, <2>6 DEF ReadData
  <2>7. CASE Ack(l) BY <1>2, <2>7 DEF Ack, ClearTo
  <2>8. CASE SeeDone(l) BY <1>2, <2>8 DEF SeeDone, Return
  <2>9. CASE GiveUp(l) BY <1>2, <2>9 DEF GiveUp, Return, Wanted
  <2> QED
    BY <2>1, <2>2, <2>3, <2>4, <2>5, <2>6, <2>7, <2>8, <2>9 DEF Step
<1>5. CallLeft(l)' + 1 <= CallLeft(l)
  BY <1>4 DEF CallLeft, CommandLeft, ReadSteps, WriteSteps
<1> QED BY <1>4, <1>5

LEMMA AnswerKeeps ==
  ASSUME TypeOK, Answer, NEW l \in Levels
  PROVE call'[l].pc = call[l].pc /\ call'[l].cmd = call[l].cmd
BY DEF Answer, TypeOK, Calls

(* The places in the lists of updates, in numbers. *)
LEMMA Lengths ==
  /\ Len(EnableUpdates) = 3 /\ Len(<<RailOn, Arm>>) = 2
  /\ Len(<<Arm>>) = 1 /\ Len(DisableUpdates) = 2 /\ Len(<<Disarm>>) = 1
  /\ Len(<<RailOff>>) = 1 /\ Len(<<>>) = 0
<1>1. EnableUpdates = <<ClearPolarity, RailOn, Arm>>
  BY DEF EnableUpdates, ClearPolarity, RailOn
<1>2. DisableUpdates = <<RailOff, Disarm>> BY DEF DisableUpdates, Disarm
<1> QED BY <1>1, <1>2

LEMMA UpdatesRange ==
  ASSUME Shape
  PROVE /\ job.op \in {"none", "query", "rollback"} => UpdatesLeft = 0
        /\ job.op = "on" /\ job.todo = EnableUpdates => UpdatesLeft = 45
        /\ job.op = "on" /\ job.todo = <<RailOn, Arm>> => UpdatesLeft = 30
        /\ job.op = "on" /\ job.todo = <<Arm>> => UpdatesLeft = 15
        /\ job.op = "off" /\ job.todo = DisableUpdates => UpdatesLeft = 15
        /\ job.op = "off" /\ job.todo = <<Disarm>> => UpdatesLeft = 0
        /\ UpdatesLeft \in 0 .. 45
<1>1. UpdateSteps = 15 BY DEF UpdateSteps, ReadSteps, WriteSteps
<1> DEFINE long == Len(job.todo)
<1>2. long \in {0, 1, 2, 3} =>
        UpdatesLeft = (IF long > 1 THEN (long - 1) * 15 ELSE 0)
                      + IF job.op = "on" THEN 15 ELSE 0
  BY <1>1 DEF UpdatesLeft
<1>3. /\ job.todo = EnableUpdates => long = 3
      /\ job.todo = <<RailOn, Arm>> => long = 2
      /\ job.todo = <<Arm>> => long = 1
      /\ job.todo = DisableUpdates => long = 2
      /\ job.todo = <<Disarm>> => long = 1
      /\ job.todo = <<RailOff>> => long = 1
      /\ job.todo = <<>> => long = 0
  BY Lengths
<1> HIDE DEF long
<1>4. /\ long = 3 => (long - 1) * 15 = 30
      /\ long = 2 => (long - 1) * 15 = 15
  OBVIOUS
<1>5. /\ job.op \in {"none", "query", "on", "off", "rollback"}
      /\ job.op \in {"none", "query"} => long = 0
      /\ job.op = "rollback" => long = 1
      /\ job.op = "on" => long \in {1, 2, 3}
      /\ job.op = "off" => long \in {1, 2}
  BY <1>3 DEF Shape, Jobs
<1>6. /\ long \in {0, 1} =>
           UpdatesLeft = IF job.op = "on" THEN 15 ELSE 0
      /\ long = 2 => UpdatesLeft = IF job.op = "on" THEN 30 ELSE 15
      /\ long = 3 => UpdatesLeft = IF job.op = "on" THEN 45 ELSE 30
  BY <1>2, <1>4
<1> HIDE DEF UpdatesLeft
<1>7. CASE job.op \in {"none", "query", "rollback"}
  <2>1. UpdatesLeft = 0 BY <1>5, <1>6, <1>7
  <2> QED BY <1>7, <2>1
<1>8. CASE job.op = "on"
  <2>1. /\ long = 3 => UpdatesLeft = 45
        /\ long = 2 => UpdatesLeft = 30
        /\ long = 1 => UpdatesLeft = 15
    BY <1>6, <1>8
  <2>2. UpdatesLeft \in {15, 30, 45} BY <1>5, <1>8, <2>1
  <2>3. UpdatesLeft \in 0 .. 45 BY <2>2
  <2> QED BY <1>3, <1>8, <2>1, <2>3
<1>9. CASE job.op = "off"
  <2>1. /\ long = 2 => UpdatesLeft = 15
        /\ long = 1 => UpdatesLeft = 0
    BY <1>6, <1>9
  <2>2. UpdatesLeft \in {0, 15} BY <1>5, <1>9, <2>1
  <2>3. UpdatesLeft \in 0 .. 45 BY <2>2
  <2> QED BY <1>3, <1>9, <2>1, <2>3
<1> QED BY <1>5, <1>7, <1>8, <1>9

LEMMA AfterRange ==
  /\ AfterCall \in 0 .. 10
  /\ job.op = "none" => AfterCall = 0
  /\ job.op = "query" =>
       AfterCall = IF call[1].cmd.addr = "CON0" THEN 10 ELSE 1
  /\ job.op \notin {"none", "query"} =>
       AfterCall = IF call[1].cmd.write THEN 1 ELSE 7
BY DEF AfterCall, ReadSteps, WriteSteps

LEMMA UpdatesRangeNext ==
  (Shape =>
     /\ job.op \in {"none", "query", "rollback"} => UpdatesLeft = 0
     /\ job.op = "on" /\ job.todo = <<RailOn, Arm>> => UpdatesLeft = 30
     /\ job.op = "on" /\ job.todo = <<Arm>> => UpdatesLeft = 15
     /\ job.op = "off" /\ job.todo = <<Disarm>> => UpdatesLeft = 0
     /\ UpdatesLeft \in 0 .. 45)'
<1>1. Shape =>
        /\ job.op \in {"none", "query", "rollback"} => UpdatesLeft = 0
        /\ job.op = "on" /\ job.todo = <<RailOn, Arm>> => UpdatesLeft = 30
        /\ job.op = "on" /\ job.todo = <<Arm>> => UpdatesLeft = 15
        /\ job.op = "off" /\ job.todo = <<Disarm>> => UpdatesLeft = 0
        /\ UpdatesLeft \in 0 .. 45
  BY UpdatesRange
<1> QED BY <1>1, PTL

LEMMA AfterRangeNext ==
  (/\ AfterCall \in 0 .. 10
   /\ job.op = "none" => AfterCall = 0
   /\ job.op = "query" =>
        AfterCall = IF call[1].cmd.addr = "CON0" THEN 10 ELSE 1
   /\ job.op \notin {"none", "query"} =>
        AfterCall = IF call[1].cmd.write THEN 1 ELSE 7)'
BY AfterRange, PTL

LEMMA WorkRange == Typed => WorkLeft \in Nat
<1> SUFFICES ASSUME Typed PROVE WorkLeft \in Nat
  OBVIOUS
<1>1. CallLeft(1) \in Nat BY CallRange, LevelNumbers DEF Typed
<1>2. UpdatesLeft \in 0 .. 45 BY UpdatesRange DEF Typed
<1> QED BY <1>1, <1>2, AfterRange DEF WorkLeft

-----------------------------------------------------------------------------
(* The regulator calls: each step of level 1 leaves it less to do, and     *)
(* what other levels and the channel do leaves it the same.                *)
LEMMA CallBegun ==
  ASSUME Typed, NEW cmd \in Commands, Begin(1, cmd)
  PROVE /\ [Next]_vars
        /\ call'[1].cmd = cmd
        /\ CallLeft(1)' = IF cmd.write THEN 5 ELSE 8
        /\ \A l \in Levels \ {1} : call'[l] = call[l]
<1>1. [Next]_vars BY LevelNumbers DEF Next
<1> QED
  BY <1>1, BeginsCall, LevelNumbers
  DEF Typed, CommandLeft, ReadSteps, WriteSteps

LEMMA Sixty == ASSUME NEW a \in 0 .. 45 PROVE 8 + 7 + a <= 60
OBVIOUS

LEMMA StartWork ==
  ASSUME Typed, RegulatorSetEnable \/ RegulatorIsEnabled
  PROVE /\ [Next]_vars /\ Shape' /\ WorkLeft' <= JobSteps
        /\ \A l \in Levels \ {1} : call'[l] = call[l]
<1>1. PICK op, todo, addr :
        /\ op \in {"on", "off", "query"}
        /\ Start(op, todo, addr)
        /\ op = "on" => todo = EnableUpdates /\ addr = Head(todo).addr
        /\ op = "off" => todo = DisableUpdates /\ addr = Head(todo).addr
        /\ op = "query" => todo = <<>> /\ addr = "CON0"
  BY DEF RegulatorSetEnable, RegulatorIsEnabled
<1>2. addr \in Regs
  <2>1. Head(EnableUpdates) \in Updates /\ Head(DisableUpdates) \in Updates
    BY UpdateFields DEF Updates
  <2> QED BY <1>1, <2>1, UpdateFields, Bits
<1>3. /\ ReadOf(addr) \in Commands /\ ~ReadOf(addr).write
      /\ ReadOf(addr).addr = addr
  BY <1>2, Reads
<1>4. /\ [Next]_vars /\ call'[1].cmd = ReadOf(addr) /\ CallLeft(1)' = 8
      /\ \A l \in Levels \ {1} : call'[l] = call[l]
  <2>1. Begin(1, ReadOf(addr)) BY <1>1 DEF Start
  <2> QED BY <1>3, <2>1, CallBegun
<1>5. job' = [op |-> op, todo |-> todo, enabled |-> {},
              set |-> IF op = "query" THEN job.set ELSE "unknown"]
  BY <1>1 DEF Start
<1>6. Shape' BY <1>1, <1>3, <1>4, <1>5 DEF Typed, Shape, Jobs
<1>7. UpdatesLeft' \in 0 .. 45 /\ (op = "query" => UpdatesLeft' = 0)
  BY <1>5, <1>6, UpdatesRangeNext
<1>8. AfterCall' = IF op = "query" THEN 10 ELSE 7
  BY <1>1, <1>3, <1>4, <1>5, AfterRangeNext
<1>9. WorkLeft' = 8 + AfterCall' + UpdatesLeft'
  BY <1>4 DEF WorkLeft
<1>10. JobSteps = 60 BY DEF JobSteps, UpdateSteps, ReadSteps, WriteSteps
<1>11. op \in {"on", "off", "query"} BY <1>1
<1>12. WorkLeft' <= JobSteps
  <2>1. CASE op = "query"
    <3>1. AfterCall' = 10 /\ UpdatesLeft' = 0 BY <1>7, <1>8, <2>1
    <3> QED BY <1>9, <1>10, <3>1
  <2>2. CASE op # "query"
    <3>1. AfterCall' = 7 BY <1>8, <2>2
    <3> QED BY <1>7, <1>9, <1>10, <3>1, Sixty
  <2> QED BY <2>1, <2>2
<1> QED BY <1>4, <1>6, <1>12

(* A regulator call that has ended has nothing left. *)
LEMMA EndWork ==
  ASSUME Typed, job.op # "none", call[1].pc \in Over, UNCHANGED vars,
         job'.op = "none", job'.todo = <<>>, job' \in Jobs
  PROVE /\ [Next]_vars /\ Shape' /\ WorkLeft' + 1 <= WorkLeft
        /\ \A l \in Levels \ {1} : call'[l] = call[l]
<1>1. call' = call /\ [Next]_vars BY DEF vars
<1>2. Shape' BY <1>1 DEF Shape
<1>3. CallLeft(1) = 0 /\ CallLeft(1)' = 0
  <2>1. CallLeft(1) = 0 BY CallRange, LevelNumbers DEF Typed
  <2>2. CallLeft(1)' = CallLeft(1) BY <1>1 DEF CallLeft
  <2> QED BY <2>1, <2>2
<1>4. AfterCall' = 0 /\ UpdatesLeft' = 0
  BY <1>2, AfterRangeNext, UpdatesRangeNext
<1>5. AfterCall \in 1 .. 10
  <2>1. CASE job.op = "query" BY <2>1, AfterRange
  <2>2. CASE job.op # "query" BY <2>2, AfterRange
  <2> QED BY <2>1, <2>2
<1>6. UpdatesLeft \in 0 .. 45 BY UpdatesRange DEF Typed
<1>7. WorkLeft' = 0 BY <1>3, <1>4 DEF WorkLeft
<1>8. WorkLeft \in Nat /\ WorkLeft >= 1 BY <1>3, <1>5, <1>6 DEF WorkLeft
<1> QED BY <1>1, <1>2, <1>7, <1>8

LEMMA WriteWork ==
  ASSUME Typed, UpdateWrite
  PROVE /\ [Next]_vars /\ Shape' /\ WorkLeft' + 1 <= WorkLeft
        /\ \A l \in Levels \ {1} : call'[l] = call[l]
<1>1. /\ Finished("SUCCESS") /\ job.todo # <<>> /\ ~call[1].cmd.write
      /\ Begin(1, WriteOf(Head(job.todo), call[1].value))
      /\ job' = job
  BY DEF UpdateWrite
<1>2. call[1].pc \in Over /\ job.op \in {"on", "off", "rollback"}
  BY <1>1 DEF Finished, Over, Typed, Shape, Jobs
<1>3. Head(job.todo) \in Updates
  BY <1>2, Places, UpdateFields DEF Typed, Shape, Updates
<1>4. call[1].value \in Values
  BY LevelNumbers DEF Typed, TypeOK, Calls
<1>5. /\ [Next]_vars /\ call'[1].cmd.write /\ CallLeft(1)' = 5
      /\ \A l \in Levels \ {1} : call'[l] = call[l]
  <2>1. /\ WriteOf(Head(job.todo), call[1].value) \in Commands
        /\ WriteOf(Head(job.todo), call[1].value).write
    BY <1>3, <1>4, Writes
  <2> QED BY <1>1, <2>1, CallBegun
<1>6. Shape' BY <1>1, <1>2 DEF Typed, Shape
<1>7. CallLeft(1) = 0 BY <1>2, CallRange, LevelNumbers DEF Typed
<1>8. AfterCall = 7 /\ AfterCall' = 1
  BY <1>1, <1>2, <1>5, AfterRange, AfterRangeNext
<1>9. UpdatesLeft \in 0 .. 45 /\ UpdatesLeft' = UpdatesLeft
  BY <1>1, UpdatesRange DEF UpdatesLeft, Typed
<1>10. WorkLeft = 7 + UpdatesLeft /\ WorkLeft' = 5 + 1 + UpdatesLeft
  BY <1>5, <1>7, <1>8, <1>9 DEF WorkLeft
<1>11. WorkLeft' + 1 <= WorkLeft BY <1>9, <1>10
<1> QED BY <1>5, <1>6, <1>11

LEMMA NextWork ==
  ASSUME Typed, UpdateNext
  PROVE /\ [Next]_vars /\ Shape' /\ WorkLeft' + 1 <= WorkLeft
        /\ \A l \in Levels \ {1} : call'[l] = call[l]
<1>1. Finished("SUCCESS") /\ call[1].cmd.write BY DEF UpdateNext
<1>2. job.op # "none" /\ call[1].pc \in Over BY <1>1 DEF Finished, Over
<1>3. job \in Jobs BY DEF Typed, Shape
<1>4. job.op \in {"on", "off", "rollback"}
  <2>1. job.op # "query"
    <3>1. job.op = "query" => ~call[1].cmd.write BY DEF Typed, Shape
    <3> QED BY <1>1, <3>1
  <2>2. job.op \in {"none", "query", "on", "off", "rollback"}
    BY <1>3 DEF Jobs
  <2> QED BY <1>2, <2>1, <2>2
<1>5. CASE Len(job.todo) > 1
  <2>1. /\ Begin(1, ReadOf(job.todo[2].addr))
        /\ job' = [job EXCEPT !.todo = Tail(job.todo)]
    BY <1>5 DEF UpdateNext
  <2>2. \/ job.op = "on" /\ job.todo = EnableUpdates
        \/ job.op = "on" /\ job.todo = <<RailOn, Arm>>
        \/ job.op = "off" /\ job.todo = DisableUpdates
    <3>1. ~(1 > 1) OBVIOUS
    <3>2. /\ job.todo # <<RailOff>> /\ job.todo # <<Arm>>
          /\ job.todo # <<Disarm>>
      BY <1>5, <3>1, Lengths, Zenon
    <3>3. CASE job.op = "on" BY <3>2, <3>3 DEF Typed, Shape
    <3>4. CASE job.op = "off" BY <3>2, <3>4 DEF Typed, Shape
    <3>5. CASE job.op = "rollback" BY <3>2, <3>5 DEF Typed, Shape
    <3> QED BY <1>4, <3>3, <3>4, <3>5
  <2>3. /\ job'.op = job.op /\ job'.todo = Tail(job.todo)
        /\ job' \in Jobs
    BY <1>3, <2>1, <2>2, Places DEF Jobs
  <2>4. Shape' BY <2>2, <2>3, Places DEF Shape
  <2>5. job.todo[2].addr \in Regs
    BY <2>2, Places, UpdateFields, Bits DEF Updates
  <2>6. /\ [Next]_vars /\ ~call'[1].cmd.write /\ CallLeft(1)' = 8
        /\ \A l \in Levels \ {1} : call'[l] = call[l]
    <3>1. /\ ReadOf(job.todo[2].addr) \in Commands
          /\ ~ReadOf(job.todo[2].addr).write
      BY <2>5, Reads
    <3> QED BY <2>1, <3>1, CallBegun
  <2>7. CallLeft(1) = 0 BY <1>2, CallRange, LevelNumbers DEF Typed
  <2>8. AfterCall = 1 /\ AfterCall' = 7
    BY <1>1, <2>2, <2>3, <2>6, AfterRange, AfterRangeNext
  <2>9. \/ UpdatesLeft = 45 /\ UpdatesLeft' = 30
        \/ UpdatesLeft = 30 /\ UpdatesLeft' = 15
        \/ UpdatesLeft = 15 /\ UpdatesLeft' = 0
    <3>1. CASE job.op = "on" /\ job.todo = EnableUpdates
      BY <2>3, <2>4, <3>1, Places, UpdatesRange, UpdatesRangeNext DEF Typed
    <3>2. CASE job.op = "on" /\ job.todo = <<RailOn, Arm>>
      BY <2>3, <2>4, <3>2, Places, UpdatesRange, UpdatesRangeNext DEF Typed
    <3>3. CASE job.op = "off" /\ job.todo = DisableUpdates
      BY <2>3, <2>4, <3>3, Places, UpdatesRange, UpdatesRangeNext DEF Typed
    <3> QED BY <2>2, <3>1, <3>2, <3>3
  <2>10. /\ WorkLeft = 0 + 1 + UpdatesLeft
         /\ WorkLeft' = 8 + 7 + UpdatesLeft'
    BY <2>6, <2>7, <2>8 DEF WorkLeft
  <2>11. WorkLeft' + 1 <= WorkLeft BY <2>9, <2>10
  <2> QED BY <2>4, <2>6, <2>11
<1>6. CASE ~(Len(job.todo) > 1)
  <2>1. End(IF job.op = "rollback" THEN "unknown" ELSE job.op)
    BY <1>6 DEF UpdateNext
  <2>2. (IF job.op = "rollback" THEN "unknown" ELSE job.op)
          \in {"unknown", "on", "off"}
    BY <1>4
  <2>3. /\ UNCHANGED vars /\ job'.op = "none" /\ job'.todo = <<>>
        /\ job' \in Jobs
    BY <1>3, <2>1, <2>2 DEF End, Jobs
  <2> QED BY <1>2, <2>3, EndWork
<1> QED BY <1>5, <1>6

LEMMA FailWork ==
  ASSUME Typed, UpdateFail
  PROVE /\ [Next]_vars /\ Shape' /\ WorkLeft' + 1 <= WorkLeft
        /\ \A l \in Levels \ {1} : call'[l] = call[l]
<1>1. job.op # "none" /\ call[1].pc \in Over
  BY DEF UpdateFail, Finished, Over
<1>2. job \in Jobs BY DEF Typed, Shape
<1>3. CASE Rollback
  <2>1. /\ Begin(1, ReadOf("CON0"))
        /\ job' = [job EXCEPT !.op = "rollback", !.todo = <<RailOff>>]
    BY <1>3 DEF UpdateFail
  <2>2. /\ job'.op = "rollback" /\ job'.todo = <<RailOff>>
        /\ job' \in Jobs
    BY <1>2, <2>1 DEF Jobs
  <2>3. Shape' BY <2>2 DEF Shape
  <2>4. /\ [Next]_vars /\ ~call'[1].cmd.write /\ CallLeft(1)' = 8
        /\ \A l \in Levels \ {1} : call'[l] = call[l]
    <3>1. ReadOf("CON0") \in Commands /\ ~ReadOf("CON0").write
      BY Bits, Reads
    <3> QED BY <2>1, <3>1, CallBegun
  <2>5. CallLeft(1) = 0 BY <1>1, CallRange, LevelNumbers DEF Typed
  <2>6. AfterCall \in {1, 7} /\ AfterCall' = 7
    BY <1>3, <2>2, <2>4, AfterRange, AfterRangeNext DEF Rollback
  <2>7. UpdatesLeft = 15 /\ UpdatesLeft' = 0
    BY <1>3, <2>2, <2>3, UpdatesRange, UpdatesRangeNext DEF Rollback, Typed
  <2>8. WorkLeft = 0 + AfterCall + 15 /\ WorkLeft' = 15
    BY <2>4, <2>5, <2>6, <2>7 DEF WorkLeft
  <2>9. WorkLeft' + 1 <= WorkLeft BY <2>6, <2>8
  <2> QED BY <2>3, <2>4, <2>9
<1>4. CASE ~Rollback
  <2>1. End(IF job.op = "query" THEN job.set ELSE "unknown")
    BY <1>4 DEF UpdateFail
  <2>2. /\ UNCHANGED vars /\ job'.op = "none" /\ job'.todo = <<>>
        /\ job' \in Jobs
    BY <1>2, <2>1 DEF End, Jobs
  <2> QED BY <1>1, <2>2, EndWork
<1> QED BY <1>3, <1>4

LEMMA QueryWork ==
  ASSUME Typed, QueryRead
  PROVE /\ [Next]_vars /\ Shape' /\ WorkLeft' + 1 <= WorkLeft
        /\ \A l \in Levels \ {1} : call'[l] = call[l]
<1>1. job.op = "query" /\ call[1].pc \in Over
  BY DEF QueryRead, Finished, Over
<1>2. job \in Jobs /\ job.todo = <<>> BY <1>1 DEF Typed, Shape
<1>3. CASE call[1].cmd.addr = "CON0" /\ Enable \in call[1].value
  <2>1. Begin(1, ReadOf("EINT")) /\ job' = job BY <1>3 DEF QueryRead
  <2>2. /\ ReadOf("EINT") \in Commands /\ ~ReadOf("EINT").write
        /\ ReadOf("EINT").addr = "EINT"
    BY Bits, Reads
  <2>3. /\ [Next]_vars /\ call'[1].cmd = ReadOf("EINT")
        /\ CallLeft(1)' = 8
        /\ \A l \in Levels \ {1} : call'[l] = call[l]
    BY <2>1, <2>2, CallBegun
  <2>4. Shape' BY <1>1, <1>2, <2>1, <2>2, <2>3 DEF Shape
  <2>5. CallLeft(1) = 0 BY <1>1, CallRange, LevelNumbers DEF Typed
  <2>6. AfterCall = 10 BY <1>1, <1>3, AfterRange
  <2>7. AfterCall' = 1 BY <1>1, <2>1, <2>2, <2>3, AfterRangeNext
  <2>8. UpdatesLeft = 0 /\ UpdatesLeft' = 0
    BY <1>1, <2>1, <2>4, UpdatesRange, UpdatesRangeNext DEF Typed
  <2>9. WorkLeft = 10 /\ WorkLeft' = 9
    BY <2>3, <2>5, <2>6, <2>7, <2>8 DEF WorkLeft
  <2>10. WorkLeft' + 1 <= WorkLeft BY <2>9
  <2> QED BY <2>3, <2>4, <2>10
<1>4. CASE ~(call[1].cmd.addr = "CON0" /\ Enable \in call[1].value)
  <2>1. /\ job' = [job EXCEPT !.op = "none",
                              !.enabled = {Enable \in call[1].value}]
        /\ UNCHANGED vars
    BY <1>4 DEF QueryRead
  <2>2. (Enable \in call[1].value) \in BOOLEAN OBVIOUS
  <2>3. job'.op = "none" /\ job'.todo = <<>> /\ job' \in Jobs
    BY <1>2, <2>1, <2>2 DEF Jobs
  <2> QED BY <1>1, <2>1, <2>3, EndWork
<1> QED BY <1>3, <1>4

LEMMA ContinueWork ==
  ASSUME Typed, Continue
  PROVE /\ [Next]_vars /\ Shape' /\ WorkLeft' + 1 <= WorkLeft
        /\ \A l \in Levels \ {1} : call'[l] = call[l]
BY WriteWork, NextWork, FailWork, QueryWork DEF Continue

(* What level 1 has left when its own call is where it was. *)
LEMMA SameWork ==
  ASSUME Typed, job' = job, call'[1].pc = call[1].pc,
         call'[1].cmd = call[1].cmd
  PROVE Shape' /\ WorkLeft' = WorkLeft
<1>1. Shape' BY DEF Typed, Shape
<1>2. /\ CallLeft(1)' = CallLeft(1) /\ AfterCall' = AfterCall
      /\ UpdatesLeft' = UpdatesLeft
  BY DEF CallLeft, CommandLeft, AfterCall, UpdatesLeft
<1> QED BY <1>1, <1>2 DEF WorkLeft

LEMMA CallRangeNext == (TypeOK => \A l \in Levels : CallLeft(l) \in Nat)'
<1>1. TypeOK => \A l \in Levels : CallLeft(l) \in Nat BY CallRange
<1> QED BY <1>1, PTL

(* A step of the call of level 1. *)
LEMMA StepWork ==
  ASSUME Typed, Step(1), job' = job
  PROVE Shape' /\ WorkLeft' + 1 <= WorkLeft
<1>1. /\ CallLeft(1)' + 1 <= CallLeft(1)
      /\ call'[1].cmd = call[1].cmd /\ call[1].pc \notin Over
  BY StepShrinks, LevelNumbers DEF Typed
<1>2. Shape' BY <1>1 DEF Typed, Shape
<1>3. /\ AfterCall' = AfterCall /\ AfterCall \in 0 .. 10
      /\ UpdatesLeft' = UpdatesLeft /\ UpdatesLeft \in 0 .. 45
  BY <1>1, AfterRange, UpdatesRange DEF Typed, AfterCall, UpdatesLeft
<1>4. CallLeft(1) \in Nat /\ CallLeft(1)' \in Nat
  <2>1. CallLeft(1) \in Nat BY CallRange, LevelNumbers DEF Typed
  <2>2. TypeOK' BY LevelNumbers, NextType DEF Typed, Next
  <2> QED BY <2>1, <2>2, CallRangeNext, LevelNumbers
<1>5. WorkLeft' + 1 <= WorkLeft BY <1>1, <1>3, <1>4 DEF WorkLeft
<1> QED BY <1>2, <1>5

(* What each level has done and what it has left. *)
Counted ==
  /\ Typed
  /\ steps \in [Levels -> Nat]
  /\ steps[1] + WorkLeft <= JobSteps
  /\ 2 \in Levels => steps[2] + CallLeft(2) <= ReadSteps

LEMMA WorkRangeNext == (Typed => WorkLeft \in Nat)'
BY WorkRange, PTL

LEMMA Spend ==
  ASSUME NEW s \in Nat, NEW a \in Nat, NEW b \in Nat, NEW most \in Nat,
         NEW t, t = s + 1, s + a <= most, b + 1 <= a
  PROVE t + b <= most
OBVIOUS

LEMMA Afresh ==
  ASSUME NEW s, NEW a \in Nat, NEW most \in Nat, s = 0, a <= most
  PROVE s + a <= most
OBVIOUS

LEMMA CountStarts == ASSUME CountInit PROVE Counted
<1>1. TypeOK /\ \A l \in Levels : call[l] = NoCall
  BY InitInv DEF CountInit, RegInit, Init, IInv
<1>2. job = [op |-> "none", todo |-> <<>>, set |-> "unknown",
             enabled |-> {}]
  BY DEF CountInit, RegInit
<1>3. Shape
  BY <1>1, <1>2, LevelNumbers DEF Shape, Jobs, NoCall, Over
<1>4. \A l \in Levels : CallLeft(l) = 0
  BY <1>1, CallRange DEF NoCall, Over
<1>5. WorkLeft = 0
  <2>1. AfterCall = 0 /\ UpdatesLeft = 0
    BY <1>2, <1>3, AfterRange, UpdatesRange
  <2> QED BY <1>4, <2>1, LevelNumbers DEF WorkLeft
<1>6. steps \in [Levels -> Nat] /\ \A l \in Levels : steps[l] = 0
  BY DEF CountInit
<1> QED
  BY <1>1, <1>3, <1>4, <1>5, <1>6, LevelNumbers
  DEF Counted, Typed, JobSteps, UpdateSteps, ReadSteps, WriteSteps

LEMMA CountKeeps == ASSUME Counted, [CountNext]_countVars PROVE Counted'
<1>1. /\ Typed /\ TypeOK /\ WorkLeft \in Nat /\ steps \in [Levels -> Nat]
      /\ \A l \in Levels : CallLeft(l) \in Nat
  BY WorkRange, CallRange DEF Counted, Typed
<1>2. /\ JobSteps = 60 /\ ReadSteps = 8
      /\ 1 \in Levels /\ Levels \in {{1}, {1, 2}}
  BY PmicAssumption DEF JobSteps, UpdateSteps, ReadSteps, WriteSteps
<1>3. /\ JobSteps \in Nat /\ ReadSteps \in Nat /\ steps[1] \in Nat
      /\ steps[1] + WorkLeft <= JobSteps
  BY <1>1, <1>2 DEF Counted
<1> HIDE DEF JobSteps, ReadSteps
<1>4. ASSUME [Next]_vars, Shape', steps' \in [Levels -> Nat],
             WorkLeft' \in Nat => steps'[1] + WorkLeft' <= JobSteps,
             2 \in Levels => steps'[2] + CallLeft(2)' <= ReadSteps
      PROVE Counted'
  <2>1. TypeOK' BY <1>1, <1>4, NextType
  <2>2. Typed' BY <1>4, <2>1 DEF Typed
  <2>3. WorkLeft' \in Nat BY <2>2, WorkRangeNext
  <2> QED BY <1>4, <2>2, <2>3 DEF Counted
<1>5. ASSUME \A l \in Levels \ {1} : call'[l] = call[l]
      PROVE 2 \in Levels => CallLeft(2)' = CallLeft(2)
  BY <1>5 DEF CallLeft, CommandLeft
<1>6. CASE Answer /\ UNCHANGED <<job, steps>>
  <2>1. \A l \in Levels : call'[l].pc = call[l].pc
                            /\ call'[l].cmd = call[l].cmd
    BY <1>1, <1>6, AnswerKeeps
  <2>2. Shape' /\ WorkLeft' = WorkLeft BY <1>1, <1>2, <1>6, <2>1, SameWork
  <2>3. 2 \in Levels => CallLeft(2)' = CallLeft(2)
    BY <2>1 DEF CallLeft, CommandLeft
  <2>4. [Next]_vars BY <1>6 DEF Next
  <2> QED BY <1>1, <1>4, <1>6, <2>2, <2>3, <2>4 DEF Counted
<1>7. CASE Step(1) /\ UNCHANGED job /\ Counts(1)
  <2>1. Shape' /\ WorkLeft' + 1 <= WorkLeft BY <1>1, <1>7, StepWork
  <2>2. 2 \in Levels => CallLeft(2)' = CallLeft(2)
    BY <1>1, <1>2, <1>5, <1>7, StepShrinks
  <2>3. /\ steps' \in [Levels -> Nat] /\ steps'[1] = steps[1] + 1
        /\ 2 \in Levels => steps'[2] = steps[2]
    BY <1>1, <1>2, <1>7 DEF Counts
  <2>4. [Next]_vars BY <1>2, <1>7 DEF Next
  <2>5. WorkLeft' \in Nat => steps'[1] + WorkLeft' <= JobSteps
    BY <1>1, <1>3, <2>1, <2>3, Spend
  <2> QED BY <1>4, <2>1, <2>2, <2>3, <2>4, <2>5 DEF Counted
<1>8. CASE 2 \in Levels /\ Step(2) /\ UNCHANGED job /\ Counts(2)
  <2>1. CallLeft(2)' + 1 <= CallLeft(2) /\ call'[1] = call[1]
    BY <1>1, <1>2, <1>8, StepShrinks
  <2>2. Shape' /\ WorkLeft' = WorkLeft BY <1>1, <1>8, <2>1, SameWork
  <2>3. /\ steps' \in [Levels -> Nat] /\ steps'[2] = steps[2] + 1
        /\ steps'[1] = steps[1]
    BY <1>1, <1>2, <1>8 DEF Counts
  <2>4. [Next]_vars BY <1>8 DEF Next
  <2>5. CallLeft(2)' \in Nat
    <3>1. TypeOK' BY <1>1, <2>4, NextType
    <3> QED BY <1>8, <3>1, CallRangeNext
  <2>6. steps'[2] + CallLeft(2)' <= ReadSteps
    <3>1. steps[2] \in Nat /\ CallLeft(2) \in Nat BY <1>1, <1>8
    <3>2. steps[2] + CallLeft(2) <= ReadSteps BY <1>8 DEF Counted
    <3> QED BY <1>3, <2>1, <2>3, <2>5, <3>1, <3>2, Spend
  <2> QED BY <1>4, <2>2, <2>3, <2>4, <2>6 DEF Counted
<1>9. CASE Continue /\ Counts(1)
  <2>1. /\ [Next]_vars /\ Shape' /\ WorkLeft' + 1 <= WorkLeft
        /\ 2 \in Levels => CallLeft(2)' = CallLeft(2)
    BY <1>1, <1>5, <1>9, ContinueWork
  <2>2. /\ steps' \in [Levels -> Nat] /\ steps'[1] = steps[1] + 1
        /\ 2 \in Levels => steps'[2] = steps[2]
    BY <1>1, <1>2, <1>9 DEF Counts
  <2>3. WorkLeft' \in Nat => steps'[1] + WorkLeft' <= JobSteps
    BY <1>1, <1>3, <2>1, <2>2, Spend
  <2> QED BY <1>4, <2>1, <2>2, <2>3 DEF Counted
<1>10. CASE (RegulatorSetEnable \/ RegulatorIsEnabled) /\ Resets(1)
  <2>1. /\ [Next]_vars /\ Shape' /\ WorkLeft' <= JobSteps
        /\ 2 \in Levels => CallLeft(2)' = CallLeft(2)
    BY <1>1, <1>5, <1>10, StartWork
  <2>2. /\ steps' \in [Levels -> Nat] /\ steps'[1] = 0
        /\ 2 \in Levels => steps'[2] = steps[2]
    BY <1>1, <1>2, <1>10 DEF Resets
  <2>3. WorkLeft' \in Nat => steps'[1] + WorkLeft' <= JobSteps
    BY <1>2, <2>1, <2>2, Afresh
  <2> QED BY <1>4, <2>1, <2>2, <2>3 DEF Counted
<1>11. CASE ButtonPressed /\ Resets(2)
  <2>1. 2 \in Levels /\ Begin(2, ReadOf("TOPSTATUS")) /\ job' = job
    BY <1>11 DEF ButtonPressed
  <2>2. ReadOf("TOPSTATUS") \in Commands /\ ~ReadOf("TOPSTATUS").write
    BY Bits, Reads
  <2>3. [Next]_vars BY <2>1, <2>2 DEF Next
  <2>4. CallLeft(2)' = ReadSteps /\ call'[1] = call[1]
    BY <1>1, <1>2, <2>1, <2>2, BeginsCall DEF CommandLeft
  <2>5. Shape' /\ WorkLeft' = WorkLeft BY <1>1, <2>1, <2>4, SameWork
  <2>6. /\ steps' \in [Levels -> Nat] /\ steps'[2] = 0
        /\ steps'[1] = steps[1]
    BY <1>1, <1>2, <1>11, <2>1 DEF Resets
  <2>7. steps'[2] + CallLeft(2)' <= ReadSteps BY <1>2, <2>4, <2>6
  <2> QED BY <1>4, <2>3, <2>5, <2>6, <2>7 DEF Counted
<1>12. CASE UNCHANGED countVars
  <2>1. UNCHANGED vars /\ job' = job /\ steps' = steps
    BY <1>12 DEF countVars, regVars
  <2>2. call' = call /\ [Next]_vars BY <2>1 DEF vars
  <2>3. Shape' /\ WorkLeft' = WorkLeft BY <1>1, <2>1, <2>2, SameWork
  <2>4. CallLeft(2)' = CallLeft(2) BY <2>2 DEF CallLeft
  <2> QED BY <1>1, <1>4, <2>1, <2>2, <2>3, <2>4 DEF Counted
<1>13. CASE \E l \in Levels : Step(l) /\ UNCHANGED job /\ Counts(l)
  <2>1. PICK l \in Levels : Step(l) /\ UNCHANGED job /\ Counts(l)
    BY <1>13
  <2>2. l = 1 \/ (l = 2 /\ 2 \in Levels) BY <1>2
  <2> QED BY <1>7, <1>8, <2>1, <2>2
<1> QED
  BY <1>6, <1>9, <1>10, <1>11, <1>12, <1>13 DEF CountNext

(* Every regulator call is over within sixty steps of its own, in wrapper  *)
(* calls that succeed or give up, and a key read within eight, whoever     *)
(* preempts whom (PmicWrapperDxe.c:64-74, MT6358PmicDxe.c:616-819).        *)
THEOREM JobsBounded == CountSpec => []StepsBounded
<1>1. CountInit => Counted BY CountStarts
<1>2. Counted /\ [CountNext]_countVars => Counted' BY CountKeeps
<1>3. Counted => StepsBounded
  <2> SUFFICES ASSUME Counted PROVE StepsBounded OBVIOUS
  <2>1. /\ WorkLeft \in Nat /\ steps \in [Levels -> Nat] /\ 1 \in Levels
        /\ \A l \in Levels : CallLeft(l) \in Nat
    BY WorkRange, CallRange, LevelNumbers DEF Counted, Typed
  <2>2. JobSteps = 60 /\ ReadSteps = 8
    BY DEF JobSteps, UpdateSteps, ReadSteps, WriteSteps
  <2>3. steps[1] <= JobSteps
    <3>1. steps[1] \in Nat BY <2>1
    <3> QED BY <2>1, <2>2, <3>1 DEF Counted
  <2>4. 2 \in Levels => steps[2] <= ReadSteps
    <3> SUFFICES ASSUME 2 \in Levels PROVE steps[2] <= ReadSteps OBVIOUS
    <3>1. steps[2] \in Nat /\ CallLeft(2) \in Nat BY <2>1
    <3> QED BY <2>2, <3>1 DEF Counted
  <2> QED BY <2>3, <2>4 DEF StepsBounded
<1> QED BY <1>1, <1>2, <1>3, PTL DEF CountSpec
=============================================================================
