--------------------------- MODULE KeypadConsole ---------------------------
(***************************************************************************)
(* KeypadDxe as a console: the timer that polls the keys, the queue the    *)
(* text input protocols read, and the queue and list of the key notify     *)
(* functions.  Everything that touches the queues or the list runs at      *)
(* TPL_NOTIFY and is one step here, except the handler that calls the      *)
(* notify functions: it walks the list at TPL_CALLBACK, and what it calls  *)
(* may use the console again in the middle of the walk.                    *)
(***************************************************************************)
EXTENDS Naturals, Sequences, FiniteSets, SequencesExt

CONSTANTS
  Inputs,     \* the keys the device reports: [code, shift]
  Bookings,   \* the keys and functions that get registered: [key, fn]
  Capacity,   \* the keys a queue can hold: N - 1 of KeyRing
  PollSize,   \* the keys one poll of the device can report
  Nodes,      \* the notify entries that can be allocated
  States,     \* the toggle states that get set
  FnCalls     \* what a notify function calls itself

Null == "end of list"
AnyShift == "any"

(* The key that can not be converted: SCAN_NULL and CHAR_NULL. *)
NoKey == [code |-> "null", shift |-> "none"]

ASSUME ConsoleAssumption ==
  /\ Capacity \in Nat \ {0}
  /\ PollSize \in Nat
  /\ Null \notin Nodes
  /\ \A k \in Inputs : k.shift # AnyShift
  /\ FnCalls \subseteq
       {"read", "wait", "reset", "state", "register", "unregister"}

VARIABLES
  keys,      \* EfiKeyQueue
  presses,   \* EfiKeyQueueForNotify
  list,      \* NotifyList
  node,      \* what the entries hold, after they are freed as well
  toggles,   \* the flags that are on; "exposed": IsSupportPartialKey
  event,     \* KeyNotifyProcessEvent is signalled
  walk,      \* KeyNotifyProcessHandler: [pc, key, link]
  told,      \* the functions called for the key being processed
  ready      \* WaitForKey was signalled and its key not read

vars == <<keys, presses, list, node, toggles, event, walk, told, ready>>
queues == <<keys, presses, event, ready>>
entries == <<list, node>>
handler == <<walk, told>>

Fns == {b.fn : b \in Bookings}
OnList == {list[i] : i \in DOMAIN list}

Init ==
  /\ keys = <<>>
  /\ presses = <<>>
  /\ list = <<>>
  /\ node = [n \in Nodes |-> [book |-> CHOOSE b \in Bookings : TRUE,
                              live |-> FALSE, next |-> Null]]
  /\ toggles = {}
  /\ event = FALSE
  /\ walk = [pc |-> "off", link |-> Null,
             key |-> CHOOSE k \in Inputs : TRUE]
  /\ told = {}
  /\ ready = FALSE

-----------------------------------------------------------------------------
(* Applications and other callbacks use the console while the handler does *)
(* not run.  It preempts an application and comes after the callbacks that *)
(* were signalled before it.  A function it calls makes calls of its own.  *)
Idle == walk.pc = "off"
Caller(call) == Idle \/ (walk.pc = "calling" /\ call \in FnCalls)

(* IsKeyRegistered: a shift state of 0 stands for any. *)
Registered(booked, key) ==
  /\ booked.code = key.code
  /\ booked.shift \in {AnyShift, key.shift}

Matching(key) ==
  {i \in DOMAIN list : Registered(node[list[i]].book.key, key)}

(* What a queue of KeyQueue keeps of the keys pushed to it. *)
Latest(q) ==
  SubSeq(q, IF Len(q) > Capacity THEN Len(q) - Capacity + 1 ELSE 1, Len(q))

(* The keys one poll of the device reports; one that can not be converted  *)
(* is taken only if partial keys are asked for.                            *)
Polls ==
  BoundedSeq({k \in Inputs : k # NoKey \/ "exposed" \in toggles}, PollSize)

(* The key goes to the notify queue once for every entry it matches. *)
Copies(key) == [i \in 1 .. Cardinality(Matching(key)) |-> key]

(* KeypadReturnApiPushEfikeyBufTail for the keys of one poll. *)
Poll(poll) ==
  LET copies == FoldLeft(LAMBDA q, key : q \o Copies(key), <<>>, poll) IN
  /\ presses' = Latest(presses \o copies)
  /\ event' = (event \/ copies # <<>>)

Overflow(poll) == Len(keys \o poll) > Capacity

(* KeypadTimerHandler. *)
TimerHandler ==
  /\ Idle
  /\ \E poll \in Polls :
       /\ Poll(poll)
       /\ keys' = Latest(keys \o poll)
       /\ ready' = (ready /\ ~Overflow(poll))
  /\ UNCHANGED <<entries, toggles, handler>>

(* KeypadReadKeyStrokeWorker: poll, then pop.  ReadKeyStroke repeats this  *)
(* until the key is not a partial one.                                     *)
ReadKeyStroke ==
  /\ Caller("read")
  /\ \E poll \in Polls :
       LET q == Latest(keys \o poll) IN
       /\ Poll(poll)
       /\ keys' = IF q = <<>> THEN q ELSE Tail(q)
       /\ ready' = (ready /\ ~Overflow(poll) /\ q # <<>> /\ Head(q) = NoKey)
  /\ UNCHANGED <<entries, toggles, handler>>

Drop(q, n) == SubSeq(q, n + 1, Len(q))
FullKeys(q) == {i \in DOMAIN q : q[i] # NoKey}

(* The event is signalled when a key is left after the partial keys at the *)
(* head are dropped.                                                       *)
WaitForKey ==
  /\ Caller("wait")
  /\ \E poll \in Polls :
       LET q == Latest(keys \o poll) IN
       /\ Poll(poll)
       /\ IF FullKeys(q) = {}
          THEN keys' = <<>>
          ELSE \E i \in FullKeys(q) :
                 /\ \A j \in FullKeys(q) : i <= j
                 /\ keys' = Drop(q, i - 1)
       /\ ready' = (keys' # <<>>)
  /\ UNCHANGED <<entries, toggles, handler>>

(* KeypadEfiReset, InitKeypad. *)
Reset ==
  /\ Caller("reset")
  /\ keys' = <<>>
  /\ presses' = <<>>
  /\ toggles' = {}
  /\ ready' = FALSE
  /\ UNCHANGED <<entries, event, handler>>

(* The flags that are looked at, in the order of the tests. *)
FirstOf(state) ==
  CASE "scroll" \in state -> {"scroll"}
    [] "scroll" \notin state /\ "num" \in state -> {"num"}
    [] state \cap {"scroll", "num"} = {} /\ "caps" \in state -> {"caps"}
    [] OTHER -> state

SetState(state) ==
  /\ Caller("state")
  /\ toggles' = FirstOf(state)
  /\ UNCHANGED <<queues, entries, handler>>

Booked(b) ==
  \E n \in OnList :
    Registered(node[n].book.key, b.key) /\ node[n].book.fn = b.fn

(* A key and function that are registered are not registered again. *)
RegisterKeyNotify(b) ==
  /\ Caller("register")
  /\ ~Booked(b)
  /\ \E n \in {m \in Nodes : ~node[m].live} :
       /\ node' = [node EXCEPT ![n] = [book |-> b, live |-> TRUE,
                                        next |-> @.next]]
       /\ list' = Append(list, n)
  /\ UNCHANGED <<queues, toggles, handler>>

Successor(n) ==
  LET after == {i \in DOMAIN list : i > 1 /\ list[i - 1] = n}
  IN  IF after = {} THEN Null ELSE list[CHOOSE i \in after : TRUE]

(* The entry leaves the list and its memory is freed; the link in it still *)
(* says what followed.                                                     *)
UnregisterKeyNotify(n) ==
  /\ Caller("unregister")
  /\ node' = [node EXCEPT ![n] = [book |-> @.book, live |-> FALSE,
                                   next |-> Successor(n)]]
  /\ \E i \in DOMAIN list : list[i] = n /\ list' = RemoveAt(list, i)
  /\ UNCHANGED <<queues, toggles, handler>>

-----------------------------------------------------------------------------
(* KeyNotifyProcessHandler starts: its event is no longer signalled. *)
Dispatch ==
  /\ event
  /\ walk.pc = "off"
  /\ event' = FALSE
  /\ walk' = [walk EXCEPT !.pc = "pop"]
  /\ UNCHANGED <<keys, presses, ready, entries, toggles, told>>

First == IF list = <<>> THEN Null ELSE list[1]

PopPress ==
  /\ walk.pc = "pop"
  /\ IF presses = <<>>
     THEN /\ walk' = [walk EXCEPT !.pc = "off"]
          /\ UNCHANGED presses
     ELSE /\ walk' = [pc |-> "at", key |-> Head(presses), link |-> First]
          /\ presses' = Tail(presses)
  /\ told' = {}
  /\ UNCHANGED <<keys, event, ready, entries, toggles>>

Match == Registered(node[walk.link].book.key, walk.key)

(* What GetNextNode reads: the list, or the memory of a freed entry. *)
NextNode(n) == IF n \in OnList THEN Successor(n) ELSE node[n].next

EndOfListOff ==
  /\ walk.pc = "at" /\ walk.link = Null
  /\ walk' = [walk EXCEPT !.pc = "off"]
  /\ UNCHANGED <<queues, entries, toggles, told>>

(* The walk of one key is over: go back for the next one. *)
EndOfList ==
  /\ walk.pc = "at" /\ walk.link = Null
  /\ walk' = [walk EXCEPT !.pc = "pop"]
  /\ UNCHANGED <<queues, entries, toggles, told>>

SkipNodeStay ==
  /\ walk.pc = "at" /\ walk.link # Null
  /\ ~Match
  /\ UNCHANGED vars

SkipNode ==
  /\ walk.pc = "at" /\ walk.link # Null
  /\ ~Match
  /\ walk' = [walk EXCEPT !.link = NextNode(walk.link)]
  /\ UNCHANGED <<queues, entries, toggles, told>>

CallNode ==
  /\ walk.pc = "at" /\ walk.link # Null
  /\ Match
  /\ walk' = [walk EXCEPT !.pc = "calling"]
  /\ told' = told \cup {node[walk.link].book.fn}
  /\ UNCHANGED <<queues, entries, toggles>>

FnReturnFirst ==
  /\ walk.pc = "calling"
  /\ walk' = [walk EXCEPT !.pc = "at", !.link = Null]
  /\ UNCHANGED <<queues, entries, toggles, told>>

(* The function returns, and only now is the next entry looked up. *)
FnReturn ==
  /\ walk.pc = "calling"
  /\ walk' = [walk EXCEPT !.pc = "at", !.link = NextNode(walk.link)]
  /\ UNCHANGED <<queues, entries, toggles, told>>

HandlerStep ==
  Dispatch \/ PopPress \/ EndOfList \/ SkipNode \/ CallNode \/ FnReturn

Calls ==
  \/ ReadKeyStroke
  \/ WaitForKey
  \/ Reset
  \/ \E state \in States : SetState(state)
  \/ \E b \in Bookings : RegisterKeyNotify(b)
  \/ \E n \in Nodes : UnregisterKeyNotify(n)

Next == TimerHandler \/ Calls \/ HandlerStep

(* Callbacks are dispatched and notify functions return. *)
Spec == Init /\ [][Next]_vars /\ WF_vars(HandlerStep)

-----------------------------------------------------------------------------
(* Signals and queues agree.  A key that waits for its notify functions is *)
(* never forgotten although signals merge: the handler is running or its   *)
(* event is signalled (KeypadDxe.c:178-179, KeypadTextIn.c:653-666).  And  *)
(* WaitForKey signals a key that ReadKeyStroke then finds, unless the      *)
(* queue overflows in between (KeypadTextIn.c:305-324).                    *)
SignalsAgree ==
  /\ presses # <<>> => event \/ walk.pc # "off"
  /\ ready => FullKeys(keys) # {}

(* When the walk for a key ends, every function then registered for it has *)
(* been called, those registered or read from in the middle of the walk    *)
(* included (KeypadTextIn.c:668-673).                                      *)
NotifiedAll ==
  walk.pc = "at" /\ walk.link = Null =>
    \A i \in Matching(walk.key) : node[list[i]].book.fn \in told

(* A function that was unregistered is not called (KeypadTextIn.c:566).    *)
UnregisteredSilent == [][ CallNode => node[walk.link].live ]_vars

(* Keys that wait for their functions get them, or give way to a reset.    *)
PressesServed == presses # <<>> ~> presses = <<>> \/ walk.pc = "calling"
=============================================================================
