-------------------------- MODULE KeypadLifecycle --------------------------
(***************************************************************************)
(* KeypadControllerDriverStart and Stop: the private data, the events that *)
(* point to it and the protocols, when any of the boot services fails on   *)
(* the way.                                                                *)
(***************************************************************************)
EXTENDS Naturals, Sequences

CONSTANT Consoles   \* the allocations of KEYPAD_CONSOLE_IN_DEV

None == "none"
Events == {"WaitForKey", "WaitForKeyEx", "TimerEvent", "KeyNotify"}

(* What Start creates, in its order. *)
Creates == <<"WaitForKey", "WaitForKeyEx", "TimerEvent", "SetTimer",
             "KeyNotify">>

ASSUME LifecycleAssumption == None \notin Consoles

VARIABLES
  step,        \* where Start is
  current,     \* ConsoleIn of that Start
  memory,      \* "unused", "live" or "freed"
  field,       \* the event fields of a console that are not NULL
  exist,       \* the events that exist: <<console, event>>
  named,       \* the consoles with a ControllerNameTable
  installed,   \* the console whose protocols are installed
  opened,      \* KEYPAD_DEVICE_PROTOCOL is open by this driver
  halted       \* history, read by no action: the consoles a Stop has
               \* failed on, after it had closed their timer

data == <<memory, field, exist, named>>
lifeVars == <<step, current, data, installed, opened, halted>>

Steps == {Creates[i] : i \in DOMAIN Creates}

LifeInit ==
  /\ step = "idle"
  /\ current = None
  /\ memory = [c \in Consoles |-> "unused"]
  /\ field = [c \in Consoles |-> {}]
  /\ exist = {}
  /\ named = {}
  /\ installed = None
  /\ opened = FALSE
  /\ halted = {}

-----------------------------------------------------------------------------
(* The device protocol is opened BY_DRIVER, which fails while it is open. *)
Start ==
  /\ step = "idle"
  /\ ~opened
  /\ opened' = TRUE
  /\ step' = "allocate"
  /\ UNCHANGED <<current, data, installed, halted>>

Allocate(c) ==
  /\ step = "allocate"
  /\ memory[c] = "unused"
  /\ memory' = [memory EXCEPT ![c] = "live"]
  /\ current' = c
  /\ step' = Creates[1]
  /\ UNCHANGED <<field, exist, named, installed, opened, halted>>

(* CleanUp without a ConsoleIn: the list it frees is at an offset of NULL. *)
AllocateFails ==
  /\ step = "allocate"
  /\ opened' = FALSE
  /\ step' = "idle"
  /\ UNCHANGED <<current, data, installed, halted>>

(* CreateEvent and SetTimer. *)
Create(i) ==
  /\ step = Creates[i]
  /\ IF step = "SetTimer"
     THEN UNCHANGED <<field, exist>>
     ELSE /\ exist' = exist \cup {<<current, step>>}
          /\ field' = [field EXCEPT ![current] = @ \cup {step}]
  /\ step' = IF i = Len(Creates) THEN "names" ELSE Creates[i + 1]
  /\ UNCHANGED <<current, memory, named, installed, opened, halted>>

(* Reset does not fail; what AddUnicodeString2 returns is not looked at. *)
Name ==
  /\ step = "names"
  /\ \/ named' = named \cup {current}
     \/ UNCHANGED named
  /\ step' = "install"
  /\ UNCHANGED <<current, memory, field, exist, installed, opened, halted>>

InstallFallsThrough ==
  /\ step = "install"
  /\ installed' = current
  /\ step' = "idle"
  /\ current' = None
  /\ memory' = [memory EXCEPT ![current] = "freed"]
  /\ UNCHANGED <<field, exist, named, opened, halted>>

Install ==
  /\ step = "install"
  /\ installed' = current
  /\ step' = "idle"
  /\ current' = None
  /\ UNCHANGED <<data, opened, halted>>

(* The one event that CleanUp closes: the first field that is not NULL. *)
CleanUpOrder == <<"WaitForKey", "TimerEvent", "WaitForKeyEx", "KeyNotify">>

FirstField(c, order) ==
  {order[i] : i \in {j \in DOMAIN order :
     /\ order[j] \in field[c]
     /\ \A k \in 1 .. j - 1 : order[k] \notin field[c]}}

(* A step fails.  The data is freed unless there is a name table. *)
CleanUp ==
  /\ step \in Steps \cup {"install"}
  /\ exist' = exist \ ({current} \X FirstField(current, CleanUpOrder))
  /\ IF current \in named
     THEN UNCHANGED memory
     ELSE memory' = [memory EXCEPT ![current] = "freed"]
  /\ step' = "idle"
  /\ current' = None
  /\ opened' = FALSE
  /\ UNCHANGED <<field, named, installed, halted>>

-----------------------------------------------------------------------------
StopOrder == <<"WaitForKey", "WaitForKeyEx", "KeyNotify">>

CloseTimerKeepField(c) ==
  /\ exist' = exist \ {<<c, "TimerEvent">>}
  /\ UNCHANGED field

CloseTimer(c) ==
  /\ exist' = exist \ {<<c, "TimerEvent">>}
  /\ field' = [field EXCEPT ![c] = @ \ {"TimerEvent"}]

(* The protocols can not be uninstalled: Stop ends with the timer closed. *)
StopFails(c) ==
  /\ step = "idle"
  /\ installed = c
  /\ CloseTimer(c)
  /\ halted' = halted \cup {c}
  /\ UNCHANGED <<step, current, memory, named, installed, opened>>

(* Stop goes on and closes one of the events that are left. *)
Stop(c) ==
  /\ step = "idle"
  /\ installed = c
  /\ exist' = exist \ ({c} \X ({"TimerEvent"} \cup FirstField(c, StopOrder)))
  /\ field' = [field EXCEPT ![c] = @ \ ({"TimerEvent"} \cup
                                        FirstField(c, StopOrder))]
  /\ installed' = None
  /\ opened' = FALSE
  /\ memory' = [memory EXCEPT ![c] = "freed"]
  /\ named' = named \ {c}
  /\ UNCHANGED <<step, current, halted>>

LifeNext ==
  \/ Start \/ AllocateFails \/ Name \/ Install \/ CleanUp
  \/ \E i \in DOMAIN Creates : Create(i)
  \/ \E c \in Consoles : Allocate(c) \/ StopFails(c) \/ Stop(c)

LifeSpec == LifeInit /\ [][LifeNext]_lifeVars

-----------------------------------------------------------------------------
(* A console whose protocols are installed can serve them: its memory is   *)
(* live and the events its users wait for and its handlers signal exist    *)
(* (KeypadDxe.c:306), after a Stop that failed as well.  So does its       *)
(* timer, until a Stop closes it and then fails (KeypadDxe.c:381-393).     *)
InstalledWorks ==
  \A c \in Consoles : installed = c =>
    /\ memory[c] = "live"
    /\ {c} \X (Events \ {"TimerEvent"}) \subseteq exist
    /\ c \notin halted => <<c, "TimerEvent">> \in exist

(* What a Stop or a Start that is tried again relies on: the fields of a   *)
(* console in use name events that exist, so that none is closed twice,    *)
(* and between calls the device is held only for an installed console      *)
(* (KeypadDxe.c:333, 381-384, 395).                                        *)
CanRetry ==
  /\ \A c \in Consoles : installed = c => {c} \X field[c] \subseteq exist
  /\ step = "idle" => (opened <=> installed # None)
=============================================================================
