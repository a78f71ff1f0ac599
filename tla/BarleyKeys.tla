----------------------------- MODULE BarleyKeys -----------------------------
(***************************************************************************)
(* The keys of barley (KeypadDeviceLib.c) polled into the key queue of     *)
(* KeypadDxe: a poll reads one button after the other and turns levels     *)
(* into keys, the console reads and resets, and the user presses buttons   *)
(* at any time, between two reads of one poll too.                         *)
(*                                                                         *)
(* Time passes between polls, in ticks; a poll is short against a tick.    *)
(***************************************************************************)
EXTENDS KeyRing, FiniteSets

CONSTANTS
  Scan,        \* the buttons, in the order GetKeys reads them
  KeyOf,       \* the key of each button
  Long,        \* the buttons whose long press is Escape
  Escape,      \* SCAN_ESC
  Fallible,    \* the buttons that are read over the PMIC wrapper
  Threshold,   \* 500 ms in ticks
  MaxSpoils    \* bound: resets and failed reads during one press

Buttons == {Scan[i] : i \in DOMAIN Scan}

ASSUME BarleyAssumption ==
  /\ Scan \in Seq(Buttons)
  /\ \A i, j \in DOMAIN Scan : Scan[i] = Scan[j] => i = j
  /\ KeyOf \in [Buttons -> Keys] /\ Escape \in Keys
  /\ Long \subseteq Buttons /\ Fallible \subseteq Buttons
  /\ Threshold \in Nat \ {0} /\ MaxSpoils \in Nat

VARIABLES
  context,   \* KEY_CONTEXT of each button: State, Time, Longpress
  todo,      \* buttons the running poll has still to read
  pop,       \* the poll is that of ReadKeyStroke, which then pops a key
  elapsed,   \* ticks since the counter was read, Threshold at the most
  delta,     \* Delta of the running poll
  down,      \* the buttons that are held down
  press      \* history: the latest press of each button

ringVars == <<head, tail, buffer, last>>
pollVars == <<todo, pop, delta>>
keysVars == <<ringVars, context, pollVars, elapsed, down, press>>

Sum(a, b) == IF a + b < Threshold THEN a + b ELSE Threshold

Released == [pressed |-> FALSE, time |-> 0, long |-> FALSE]

(* held: for how long by now; keys: how many were reported; early: one was *)
(* Escape before its time; seen: a poll read the button as pressed;        *)
(* spoils: resets and failed reads after that; whole: the release before   *)
(* it was seen.                                                            *)
NewPress(whole) == [held |-> 0, keys |-> 0, early |-> FALSE, seen |-> FALSE,
                    spoils |-> 0, whole |-> whole]

(* Start resets the device; Last is then (UINT64)-1.                       *)
KeysInit ==
  /\ Init
  /\ context = [b \in Buttons |-> Released]
  /\ todo = <<>> /\ pop = FALSE
  /\ elapsed = Threshold /\ delta = 0
  /\ down \in SUBSET Buttons
  /\ press = [b \in Buttons |-> NewPress(TRUE)]

-----------------------------------------------------------------------------
(* The user. *)
Press(b) ==
  /\ b \notin down
  /\ down' = down \cup {b}
  /\ press' = [press EXCEPT ![b] = NewPress(~context[b].pressed)]
  /\ UNCHANGED <<ringVars, context, pollVars, elapsed>>

Release(b) ==
  /\ b \in down
  /\ down' = down \ {b}
  /\ press' = [press EXCEPT ![b].held = 0]
  /\ UNCHANGED <<ringVars, context, pollVars, elapsed>>

NoPoll == todo = <<>> /\ ~pop

Tick ==
  /\ NoPoll
  /\ elapsed' = Sum(elapsed, 1)
  /\ press' = [b \in Buttons |-> [press[b] EXCEPT
                 !.held = IF b \in down THEN Sum(@, 1) ELSE @]]
  /\ UNCHANGED <<ringVars, context, pollVars, down>>

-----------------------------------------------------------------------------
(* KeypadTimerHandler, from the timer or from ReadKeyStroke.               *)
KeypadTimerHandler(read) ==
  /\ NoPoll
  /\ delta' = elapsed /\ elapsed' = 0
  /\ todo' = Scan /\ pop' = read
  /\ UNCHANGED <<ringVars, context, down, press>>

Button == Head(todo)

(* UpdateKey pushes a key, of the press that has just been read.           *)
Push(key, early, spoils) ==
  /\ PushEfikeyBufTail(key)
  /\ press' = [press EXCEPT ![Button].keys = @ + 1,
                            ![Button].early = @ \/ early,
                            ![Button].spoils = @ + spoils]

NextButton ==
  /\ todo' = Tail(todo)
  /\ delta' = IF todo' = <<>> THEN 0 ELSE delta
  /\ UNCHANGED <<pop, elapsed, down>>

SeesPress ==
  /\ todo # <<>> /\ Button \in down /\ ~context[Button].pressed
  /\ context' = [context EXCEPT ![Button].pressed = TRUE,
                                ![Button].time = 0]
  /\ press' = [press EXCEPT ![Button].seen = TRUE]
  /\ UNCHANGED ringVars
  /\ NextButton

SeesHeld ==
  /\ todo # <<>> /\ Button \in down /\ context[Button].pressed
  /\ LET time == Sum(context[Button].time, delta)
         long == /\ Button \in Long /\ ~context[Button].long
                 /\ time >= Threshold
     IN /\ context' = [context EXCEPT ![Button].time = time,
                                      ![Button].long = @ \/ long]
        /\ IF long
           THEN Push(Escape, press[Button].held < Threshold, 0)
           ELSE UNCHANGED <<ringVars, press>>
  /\ NextButton

(* Mutant: a long press is reported when it ends as well. *)
ReportReleaseAlways(b) == TRUE
ReportRelease(b) == ~context[b].long

(* The button is up: read as up, or not read.                              *)
Up ==
  /\ context' = [context EXCEPT ![Button] = Released]
  /\ NextButton

SeesRelease ==
  /\ todo # <<>> /\ Button \notin down
  /\ IF context[Button].pressed /\ ReportRelease(Button)
     THEN Push(KeyOf[Button], FALSE, 0) ELSE UNCHANGED <<ringVars, press>>
  /\ Up

(* A PMIC read that fails leaves the button FALSE, which is released.      *)
ReadFails ==
  /\ todo # <<>> /\ Button \in Fallible /\ Button \in down
  /\ IF context[Button].pressed
     THEN /\ press[Button].spoils < MaxSpoils
          /\ IF ReportRelease(Button)
             THEN Push(KeyOf[Button], FALSE, 1)
             ELSE /\ press' = [press EXCEPT ![Button].spoils = @ + 1]
                  /\ UNCHANGED ringVars
     ELSE UNCHANGED <<ringVars, press>>
  /\ Up

-----------------------------------------------------------------------------
(* KeypadReadKeyStrokeWorker, after its poll.                              *)
ReadKeyStroke ==
  /\ todo = <<>> /\ pop
  /\ PopEfikeyBufHead
  /\ pop' = FALSE
  /\ UNCHANGED <<context, todo, delta, elapsed, down, press>>

(* InitKeypad: the device is reset and the queue cleared.                  *)
InitKeypad ==
  /\ NoPoll
  /\ \A b \in Buttons : context[b].pressed => press[b].spoils < MaxSpoils
  /\ Clear
  /\ context' = [b \in Buttons |-> Released]
  /\ press' = [b \in Buttons |-> [press[b] EXCEPT
                 !.spoils = IF context[b].pressed THEN @ + 1 ELSE @]]
  /\ UNCHANGED <<pollVars, elapsed, down>>

KeysNext ==
  \/ \E b \in Buttons : Press(b) \/ Release(b)
  \/ Tick
  \/ \E read \in BOOLEAN : KeypadTimerHandler(read)
  \/ SeesPress \/ SeesHeld \/ SeesRelease \/ ReadFails
  \/ ReadKeyStroke \/ InitKeypad

KeysSpec == KeysInit /\ [][KeysNext]_keysVars

-----------------------------------------------------------------------------
(* One press of a button is one key.  A press whose beginning and end the  *)
(* polls have seen is reported exactly once, as Escape only if the button  *)
(* was held for 500 ms; a reset or a failed read in the middle of it costs *)
(* one more key at the most.  A release between two polls joins the        *)
(* presses around it (KeypadDeviceLib.c:60-90, KeypadController.c:64-68).  *)
EachPressOnce ==
  \A b \in Buttons : press[b].whole =>
    /\ press[b].keys <= 1 + press[b].spoils
    /\ press[b].seen /\ ~context[b].pressed /\ press[b].spoils = 0
         => press[b].keys = 1
    /\ ~press[b].early
=============================================================================
