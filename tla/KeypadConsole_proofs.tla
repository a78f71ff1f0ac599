------------------------ MODULE KeypadConsole_proofs ------------------------
(***************************************************************************)
(* For any keys, capacity, poll size, registrations and functions: a key   *)
(* that waits for its notify functions has a signal, and a signalled       *)
(* WaitForKey has its key; and if no function unregisters, a key is told   *)
(* to all that are registered for it.  For any number of starts and stops, *)
(* and any failures of their steps: an installed console works, and the    *)
(* driver can be started again.                                            *)
(***************************************************************************)
EXTENDS KeypadConsole, KeypadLifecycle, SequenceTheorems, TLAPS

All == Inputs \cup {NoKey}

SignalInv ==
  /\ keys \in Seq(All) /\ event \in BOOLEAN /\ ready \in BOOLEAN
  /\ walk = [pc |-> walk.pc, link |-> walk.link, key |-> walk.key]
  /\ SignalsAgree

LEMMA CapacityNat == Capacity \in Nat \ {0}
BY ConsoleAssumption

-----------------------------------------------------------------------------
(* What is left of a queue when keys are pushed to it, dropped or popped.  *)
LEMMA PollSeq == ASSUME NEW poll \in Polls PROVE poll \in Seq(All)
BY ConsoleAssumption DEF Polls, BoundedSeq, SeqOf, All

LEMMA LatestSeq ==
  ASSUME NEW S, NEW q \in Seq(S)
  PROVE /\ Latest(q) \in Seq(S)
        /\ Len(q) <= Capacity => Latest(q) = q
<1> DEFINE m == IF Len(q) > Capacity THEN Len(q) - Capacity + 1 ELSE 1
<1>1. Len(q) \in Nat /\ \A i \in 1 .. Len(q) : q[i] \in S
  BY LenProperties, ElementOfSeq
<1>2. m \in Nat /\ m >= 1 BY <1>1, CapacityNat
<1>3. \A i \in m .. Len(q) : q[i] \in S BY <1>1, <1>2
<1>4. SubSeq(q, m, Len(q)) \in Seq(S)
  <2> HIDE DEF m
  <2> QED BY <1>1, <1>2, <1>3, SubSeqProperties
<1>5. ASSUME Len(q) <= Capacity PROVE SubSeq(q, m, Len(q)) = q
  <2>1. m = 1 BY <1>1, <1>5, CapacityNat
  <2> QED BY <2>1, SubSeqFull
<1> QED BY <1>4, <1>5 DEF Latest

LEMMA LatestEmpty == Latest(<<>> \o <<>>) = <<>>
<1>1. <<>> \in Seq(All) /\ Len(<<>>) = 0 BY EmptySeq, Zenon
<1>2. 0 <= Capacity BY CapacityNat
<1>3. Len(<<>>) <= Capacity BY <1>1, <1>2, Zenon
<1>4. <<>> \o <<>> = <<>> BY <1>1, ConcatEmptySeq
<1> QED BY <1>1, <1>3, <1>4, LatestSeq

LEMMA TailKeeps ==
  ASSUME NEW q \in Seq(All), q # <<>>, Head(q) = NoKey, FullKeys(q) # {}
  PROVE Tail(q) \in Seq(All) /\ FullKeys(Tail(q)) # {}
<1>1. PICK i \in FullKeys(q) : TRUE OBVIOUS
<1>2. i \in 2 .. Len(q) /\ q[i] # NoKey BY <1>1 DEF FullKeys
<1>3. i - 1 \in 1 .. Len(Tail(q)) /\ Tail(q)[i - 1] = q[i] BY <1>2
<1>4. i - 1 \in FullKeys(Tail(q)) BY <1>2, <1>3 DEF FullKeys
<1> QED BY <1>4

LEMMA AppendKeeps ==
  ASSUME NEW q \in Seq(All), NEW p \in Seq(All), FullKeys(q) # {}
  PROVE FullKeys(q \o p) # {}
<1>1. PICK i \in FullKeys(q) : TRUE OBVIOUS
<1>2. i \in FullKeys(q \o p) BY <1>1 DEF FullKeys
<1> QED BY <1>2

LEMMA DropKeeps ==
  ASSUME NEW q \in Seq(All), NEW i \in FullKeys(q)
  PROVE Drop(q, i - 1) \in Seq(All) /\ FullKeys(Drop(q, i - 1)) # {}
<1>1. i \in 1 .. Len(q) /\ q[i] # NoKey BY DEF FullKeys
<1>2. /\ Drop(q, i - 1) \in Seq(All)
      /\ 1 \in 1 .. Len(Drop(q, i - 1)) /\ Drop(q, i - 1)[1] = q[i]
  BY <1>1 DEF Drop
<1>3. 1 \in FullKeys(Drop(q, i - 1)) BY <1>1, <1>2 DEF FullKeys
<1> QED BY <1>2, <1>3

-----------------------------------------------------------------------------
(* A poll leaves the notify queue empty or its event signalled, as it was. *)
LEMMA PollSignals ==
  ASSUME NEW poll, Poll(poll), event \in BOOLEAN
  PROVE /\ event' \in BOOLEAN /\ (event => event')
        /\ presses = <<>> => presses' = <<>> \/ event'
<1> DEFINE copies == FoldLeft(LAMBDA q, key : q \o Copies(key), <<>>, poll)
           some == copies # <<>>
<1>1. presses' = Latest(presses \o copies) /\ event' = (event \/ some)
  BY DEF Poll
<1>2. some \in BOOLEAN BY Zenon DEF some
<1>3. ~some /\ presses = <<>> => presses' = <<>>
  <2> HAVE ~some /\ presses = <<>>
  <2>1. presses' = Latest(<<>> \o <<>>) BY <1>1 DEF some
  <2> QED BY <2>1, LatestEmpty
<1> HIDE DEF some
<1> QED BY <1>1, <1>2, <1>3

(* The handler is running, or is not and stays as it is.                   *)
LEMMA PollAgrees ==
  ASSUME SignalInv, NEW poll, Poll(poll), UNCHANGED walk
  PROVE event' \in BOOLEAN
        /\ (presses' # <<>> => event' \/ walk'.pc # "off")
BY PollSignals DEF SignalInv, SignalsAgree

LEMMA TimerSignals == ASSUME SignalInv, TimerHandler PROVE SignalInv'
<1>1. PICK poll \in Polls : /\ Poll(poll)
                            /\ keys' = Latest(keys \o poll)
                            /\ ready' = (ready /\ ~Overflow(poll))
                            /\ UNCHANGED walk
  BY DEF TimerHandler, handler
<1> DEFINE q == keys \o poll
<1>2. keys \in Seq(All) /\ q \in Seq(All) BY PollSeq DEF SignalInv
<1>3. keys' \in Seq(All) BY <1>1, <1>2, LatestSeq
<1>4. Overflow(poll) <=> Len(q) > Capacity BY DEF Overflow
<1>5. ready' \in BOOLEAN BY <1>1, Zenon
<1>6. ready' => ready /\ FullKeys(keys') # {}
  <2> HAVE ready'
  <2>1. ready /\ Len(q) <= Capacity
    <3>1. ready /\ ~Overflow(poll) BY <1>1
    <3>2. Len(q) \in Nat BY <1>2, LenProperties
    <3> QED BY <3>1, <3>2, <1>4, CapacityNat
  <2>2. keys' = q BY <1>1, <1>2, <2>1, LatestSeq
  <2>3. FullKeys(keys) # {} BY <2>1 DEF SignalInv, SignalsAgree
  <2> QED BY <1>2, <2>1, <2>2, <2>3, AppendKeeps, PollSeq
<1> QED BY <1>1, <1>3, <1>5, <1>6, PollAgrees DEF SignalInv, SignalsAgree

LEMMA ReadSignals == ASSUME SignalInv, ReadKeyStroke PROVE SignalInv'
<1>1. PICK poll \in Polls :
        /\ Poll(poll)
        /\ keys' = IF Latest(keys \o poll) = <<>> THEN <<>>
                   ELSE Tail(Latest(keys \o poll))
        /\ ready' = (/\ ready /\ ~Overflow(poll)
                     /\ Latest(keys \o poll) # <<>>
                     /\ Head(Latest(keys \o poll)) = NoKey)
        /\ UNCHANGED walk
  BY DEF ReadKeyStroke, handler
<1> DEFINE q == Latest(keys \o poll)
<1>2. keys \in Seq(All) /\ keys \o poll \in Seq(All) /\ q \in Seq(All)
  BY PollSeq, LatestSeq, ConcatProperties DEF SignalInv
<1>3. keys' \in Seq(All)
  <2>1. CASE q = <<>> BY <1>1, <2>1, EmptySeq
  <2>2. CASE q # <<>> BY <1>1, <1>2, <2>2, HeadTailProperties
  <2> QED BY <2>1, <2>2
<1>4. ready' \in BOOLEAN BY <1>1, Zenon
<1>5. ready' => FullKeys(keys') # {}
  <2> HAVE ready'
  <2>1. /\ ready /\ ~Overflow(poll) /\ q # <<>> /\ Head(q) = NoKey
        /\ keys' = Tail(q)
    BY <1>1
  <2>2. Len(keys \o poll) <= Capacity
    <3>1. Len(keys \o poll) \in Nat BY <1>2, LenProperties
    <3> QED BY <2>1, <3>1, CapacityNat DEF Overflow
  <2>3. q = keys \o poll BY <1>2, <2>2, LatestSeq
  <2>4. FullKeys(keys) # {} BY <2>1 DEF SignalInv, SignalsAgree
  <2>5. FullKeys(q) # {} BY <1>2, <2>3, <2>4, AppendKeeps, PollSeq
  <2> HIDE DEF q
  <2> QED BY <1>2, <2>1, <2>5, TailKeeps
<1> QED BY <1>1, <1>3, <1>4, <1>5, PollAgrees DEF SignalInv, SignalsAgree

LEMMA WaitSignals == ASSUME SignalInv, WaitForKey PROVE SignalInv'
<1>1. PICK poll \in Polls :
        LET q == Latest(keys \o poll)
        IN  /\ Poll(poll)
            /\ \/ FullKeys(q) = {} /\ keys' = <<>>
               \/ \E i \in FullKeys(q) : keys' = Drop(q, i - 1)
            /\ ready' = (keys' # <<>>)
            /\ UNCHANGED walk
  BY DEF WaitForKey, handler
<1> DEFINE q == Latest(keys \o poll)
<1>2. q \in Seq(All)
  BY PollSeq, LatestSeq, ConcatProperties DEF SignalInv
<1>3. \/ keys' = <<>>
      \/ keys' \in Seq(All) /\ FullKeys(keys') # {}
  <2> HIDE DEF q
  <2>1. \/ FullKeys(q) = {} /\ keys' = <<>>
        \/ \E i \in FullKeys(q) : keys' = Drop(q, i - 1)
    BY <1>1 DEF q
  <2> QED BY <1>2, <2>1, DropKeeps
<1>4. keys' \in Seq(All) BY <1>3, EmptySeq
<1>5. ready' \in BOOLEAN /\ (ready' <=> keys' # <<>>) BY <1>1, Zenon
<1> QED BY <1>1, <1>3, <1>4, <1>5, PollAgrees DEF SignalInv, SignalsAgree

-----------------------------------------------------------------------------
LEMMA SignalInit == Init => SignalInv
<1> SUFFICES ASSUME Init PROVE SignalInv
  OBVIOUS
<1>1. /\ keys = <<>> /\ presses = <<>> /\ event = FALSE /\ ready = FALSE
      /\ walk = [pc |-> walk.pc, link |-> walk.link, key |-> walk.key]
  BY DEF Init
<1> QED BY <1>1, EmptySeq DEF SignalInv, SignalsAgree

LEMMA ResetSignals == ASSUME SignalInv, Reset PROVE SignalInv'
BY EmptySeq DEF Reset, SignalInv, SignalsAgree, handler

(* The handler ends only with an empty queue.                              *)
LEMMA HandlerSignals == ASSUME SignalInv, HandlerStep PROVE SignalInv'
<1>1. UNCHANGED <<keys, ready>> /\ event' \in BOOLEAN
  BY DEF HandlerStep, Dispatch, PopPress, EndOfList, SkipNode, CallNode,
         FnReturn, queues, SignalInv
<1>2. walk' = [pc |-> walk'.pc, link |-> walk'.link, key |-> walk'.key]
  <2>1. CASE PopPress BY <2>1 DEF PopPress, SignalInv
  <2>2. CASE Dispatch \/ EndOfList \/ SkipNode \/ CallNode \/ FnReturn
    BY <2>2 DEF Dispatch, EndOfList, SkipNode, CallNode, FnReturn, SignalInv
  <2> QED BY <2>1, <2>2 DEF HandlerStep
<1>3. presses' # <<>> => event' \/ walk'.pc # "off"
  <2>1. CASE Dispatch BY <2>1 DEF Dispatch, SignalInv
  <2>2. CASE PopPress BY <2>2 DEF PopPress, SignalInv
  <2>3. CASE EndOfList \/ SkipNode \/ CallNode \/ FnReturn
    <3>1. walk'.pc \in {"pop", "at", "calling"}
      BY <2>3 DEF EndOfList, SkipNode, CallNode, FnReturn, SignalInv
    <3> QED BY <3>1
  <2> QED BY <2>1, <2>2, <2>3 DEF HandlerStep
<1> QED BY <1>1, <1>2, <1>3 DEF SignalInv, SignalsAgree

LEMMA SignalStep == SignalInv /\ [Next]_vars => SignalInv'
<1> SUFFICES ASSUME SignalInv, [Next]_vars PROVE SignalInv'
  OBVIOUS
<1>1. ASSUME \/ \E state \in States : SetState(state)
             \/ \E b \in Bookings : RegisterKeyNotify(b)
             \/ \E n \in Nodes : UnregisterKeyNotify(n)
             \/ UNCHANGED vars
      PROVE SignalInv'
  <2>1. UNCHANGED <<keys, presses, event, ready, walk>>
    BY <1>1 DEF SetState, RegisterKeyNotify, UnregisterKeyNotify, queues,
                handler, vars
  <2> QED BY <2>1 DEF SignalInv, SignalsAgree
<1> QED
  BY <1>1, TimerSignals, ReadSignals, WaitSignals, ResetSignals,
     HandlerSignals
  DEF Next, Calls

(* Signals merge, partial keys are dropped and queues overflow, and still  *)
(* no key waits unsignalled and no signal is without its key               *)
(* (KeypadDxe.c:166-181, KeypadTextIn.c:285-331, 633-676).                 *)
THEOREM Signals == Spec => []SignalsAgree
<1>1. SignalInv => SignalsAgree BY DEF SignalInv
<1> QED BY <1>1, SignalInit, SignalStep, PTL DEF Spec

-----------------------------------------------------------------------------
(* The walk: the functions of the matching entries before the one it is at *)
(* have been called.                                                       *)
ToldUpTo(p) ==
  \A i \in 1 .. p :
    Registered(node[list[i]].book.key, walk.key)
      => node[list[i]].book.fn \in told

ListInv ==
  /\ list \in Seq(Nodes)
  /\ \A i, j \in 1 .. Len(list) : list[i] = list[j] => i = j
  /\ \A i \in 1 .. Len(list) : node[list[i]].live
  /\ node = [n \in Nodes |-> node[n]]
  /\ walk = [pc |-> walk.pc, link |-> walk.link, key |-> walk.key]

At(p) == p \in 1 .. Len(list) /\ walk.link = list[p] /\ ToldUpTo(p - 1)
Ended == walk.link = Null /\ ToldUpTo(Len(list))

WalkInv ==
  /\ ListInv
  /\ walk.pc = "at" => Ended \/ \E p \in Nat : At(p)
  /\ walk.pc = "calling" =>
       \E p \in Nat : At(p) /\ node[list[p]].book.fn \in told

LEMMA WalkInit == Init => WalkInv
<1> SUFFICES ASSUME Init PROVE WalkInv
  OBVIOUS
<1>1. list = <<>> /\ walk.pc = "off" BY DEF Init
<1>2. list \in Seq(Nodes) /\ Len(list) = 0 BY <1>1, EmptySeq, Zenon
<1>3. node = [n \in Nodes |-> node[n]]
      /\ walk = [pc |-> walk.pc, link |-> walk.link, key |-> walk.key]
  BY DEF Init
<1> QED BY <1>1, <1>2, <1>3 DEF WalkInv, ListInv

LEMMA WalkStays ==
  ASSUME WalkInv, UNCHANGED <<entries, handler>> PROVE WalkInv'
BY DEF WalkInv, ListInv, At, Ended, ToldUpTo, entries, handler

(* The entry after one of the list, or its end.                            *)
LEMMA NextOf ==
  ASSUME ListInv, NEW p \in 1 .. Len(list)
  PROVE NextNode(list[p]) = IF p = Len(list) THEN Null ELSE list[p + 1]
<1> DEFINE after == {i \in DOMAIN list : i > 1 /\ list[i - 1] = list[p]}
<1>n. Len(list) \in Nat BY LenProperties DEF ListInv
<1>1. DOMAIN list = 1 .. Len(list) BY LenProperties DEF ListInv
<1>2. \A i \in after : i = p + 1
  <2>1. TAKE i \in after
  <2>2. i - 1 \in 1 .. Len(list) /\ list[i - 1] = list[p]
      BY <1>1, <1>n
  <2>3. i - 1 = p BY <2>2 DEF ListInv
  <2> QED BY <1>n, <2>3
<1>3. p # Len(list) => p + 1 \in after
  <2> HAVE p # Len(list)
  <2> DEFINE j == p + 1
  <2>1. j \in 1 .. Len(list) /\ j > 1 /\ j - 1 = p BY <1>n
  <2> HIDE DEF j
  <2>2. j \in after BY <1>1, <2>1
  <2> QED BY <2>2 DEF j
<1>4. p = Len(list) => after = {} BY <1>1, <1>2
<1>5. NextNode(list[p]) = Successor(list[p])
  BY <1>1 DEF NextNode, OnList
<1>6. Successor(list[p]) =
        IF after = {} THEN Null ELSE list[CHOOSE i \in after : TRUE]
  BY Zenon DEF Successor
<1>7. after # {} => (CHOOSE i \in after : TRUE) = p + 1
  <2> HIDE DEF after
  <2> QED BY <1>2
<1> HIDE DEF after
<1> QED BY <1>3, <1>4, <1>5, <1>6, <1>7

(* One entry further, when the one it was at needs no call any more.       *)
LEMMA Advance ==
  ASSUME WalkInv, NEW p \in Nat, At(p),
         Registered(node[list[p]].book.key, walk.key)
           => node[list[p]].book.fn \in told,
         walk' = [walk EXCEPT !.pc = "at", !.link = NextNode(walk.link)],
         UNCHANGED <<entries, told>>
  PROVE WalkInv'
<1>1. p \in 1 .. Len(list) /\ walk.link = list[p] /\ ToldUpTo(p)
  BY DEF At, ToldUpTo
<1>2. Len(list) \in Nat BY LenProperties DEF WalkInv, ListInv
<1>3. /\ walk'.pc = "at" /\ walk'.key = walk.key
      /\ walk'.link = IF p = Len(list) THEN Null ELSE list[p + 1]
  BY <1>1, NextOf DEF WalkInv, ListInv
<1>4. ListInv' BY DEF WalkInv, ListInv, entries
<1>5. CASE p = Len(list)
  <2>1. Ended' BY <1>1, <1>3, <1>5 DEF Ended, ToldUpTo, entries
  <2> QED BY <1>3, <1>4, <2>1 DEF WalkInv
<1>6. CASE p # Len(list)
  <2>1. At(p + 1)'
    BY <1>1, <1>2, <1>3, <1>6 DEF At, ToldUpTo, entries
  <2> QED BY <1>2, <1>3, <1>4, <2>1 DEF WalkInv
<1> QED BY <1>5, <1>6

LEMMA HandlerWalks == ASSUME WalkInv, HandlerStep PROVE WalkInv'
<1>1. Len(list) \in Nat BY LenProperties DEF WalkInv, ListInv
<1>2. CASE Dispatch \/ EndOfList
  <2>1. UNCHANGED entries /\ walk' = [walk EXCEPT !.pc = "pop"]
    BY <1>2 DEF Dispatch, EndOfList
  <2> QED BY <2>1 DEF WalkInv, ListInv, entries
<1>3. CASE PopPress
  <2>1. /\ UNCHANGED entries
        /\ \/ walk' = [walk EXCEPT !.pc = "off"]
           \/ walk' = [pc |-> "at", key |-> Head(presses), link |-> First]
    BY <1>3 DEF PopPress
  <2>2. ListInv' BY <2>1 DEF WalkInv, ListInv, entries
  <2>3. CASE walk' = [walk EXCEPT !.pc = "off"]
    BY <2>2, <2>3 DEF WalkInv, ListInv
  <2>4. CASE walk'.pc = "at" /\ walk'.link = First
    <3>1. CASE list = <<>>
      BY <2>1, <2>2, <2>4, <3>1 DEF WalkInv, Ended, First, ToldUpTo, entries
    <3>2. CASE list # <<>>
      <4>1. 1 \in 1 .. Len(list) /\ First = list[1]
        BY <3>2, <1>1, EmptySeq DEF First, WalkInv, ListInv
      <4>2. At(1)' BY <2>1, <2>4, <4>1 DEF At, ToldUpTo, entries
      <4> QED BY <2>2, <2>4, <4>2 DEF WalkInv
    <3> QED BY <3>1, <3>2
  <2> QED BY <2>1, <2>3, <2>4
<1>4. CASE SkipNode
  <2>1. PICK p \in Nat : At(p) BY <1>4 DEF SkipNode, WalkInv, Ended
  <2>2. ~Registered(node[list[p]].book.key, walk.key)
    BY <1>4, <2>1 DEF SkipNode, Match, At
  <2>3. /\ walk' = [walk EXCEPT !.pc = "at", !.link = NextNode(walk.link)]
        /\ UNCHANGED <<entries, told>>
    BY <1>4 DEF SkipNode, WalkInv, ListInv
  <2> QED BY <2>1, <2>2, <2>3, Advance
<1>5. CASE FnReturn
  <2>1. PICK p \in Nat : At(p) /\ node[list[p]].book.fn \in told
    BY <1>5 DEF FnReturn, WalkInv
  <2>2. /\ walk' = [walk EXCEPT !.pc = "at", !.link = NextNode(walk.link)]
        /\ UNCHANGED <<entries, told>>
    BY <1>5 DEF FnReturn
  <2> QED BY <2>1, <2>2, Advance
<1>6. CASE CallNode
  <2>1. PICK p \in Nat : At(p) BY <1>6 DEF CallNode, WalkInv, Ended
  <2>2. /\ walk' = [walk EXCEPT !.pc = "calling"] /\ UNCHANGED entries
        /\ told' = told \cup {node[list[p]].book.fn}
    BY <1>6, <2>1 DEF CallNode, At
  <2>3. ListInv' BY <2>2 DEF WalkInv, ListInv, entries
  <2>4. At(p)' /\ node'[list'[p]].book.fn \in told'
    BY <2>1, <2>2 DEF At, ToldUpTo, entries, WalkInv, ListInv
  <2>5. walk'.pc = "calling" BY <2>2 DEF WalkInv, ListInv
  <2> QED BY <2>3, <2>4, <2>5 DEF WalkInv
<1> QED BY <1>2, <1>3, <1>4, <1>5, <1>6 DEF HandlerStep

(* A new entry is put at the end, whichever entry the walk is at.          *)
LEMMA RegisterWalks ==
  ASSUME WalkInv, NEW b \in Bookings, RegisterKeyNotify(b)
  PROVE WalkInv'
<1>1. Len(list) \in Nat BY LenProperties DEF WalkInv, ListInv
<1>2. PICK n \in Nodes :
        /\ ~node[n].live
        /\ node' = [node EXCEPT ![n] = [book |-> b, live |-> TRUE,
                                        next |-> node[n].next]]
        /\ list' = Append(list, n)
        /\ UNCHANGED handler
  BY DEF RegisterKeyNotify
<1>3. /\ list' \in Seq(Nodes) /\ Len(list') = Len(list) + 1
      /\ \A i \in 1 .. Len(list) : list'[i] = list[i] /\ list[i] # n
      /\ list'[Len(list) + 1] = n
  BY <1>1, <1>2 DEF WalkInv, ListInv
<1>4. /\ node'[n].live
      /\ \A i \in 1 .. Len(list) : node'[list[i]] = node[list[i]]
      /\ node' = [m \in Nodes |-> node'[m]]
  <2> DEFINE r == [book |-> b, live |-> TRUE, next |-> node[n].next]
  <2>1. r.live OBVIOUS
  <2>2. node' = [node EXCEPT ![n] = r] BY <1>2
  <2> HIDE DEF r
  <2>3. \A i \in 1 .. Len(list) : list[i] \in Nodes /\ list[i] # n
    BY <1>3, ElementOfSeq DEF WalkInv, ListInv
  <2> QED BY <2>1, <2>2, <2>3 DEF WalkInv, ListInv
<1>5. ListInv' BY <1>1, <1>2, <1>3, <1>4 DEF WalkInv, ListInv, handler
<1>6. \A p \in Nat : At(p) => At(p)'
  BY <1>1, <1>2, <1>3, <1>4 DEF At, ToldUpTo, handler
<1>7. walk.pc # "at" BY DEF RegisterKeyNotify, Caller, Idle
<1>8. \A p \in Nat : At(p) => node'[list'[p]] = node[list[p]]
  BY <1>3, <1>4 DEF At
<1>9. walk.pc = "calling" =>
        \E p \in Nat : At(p)' /\ node'[list'[p]].book.fn \in told
  BY <1>6, <1>8 DEF WalkInv
<1> QED BY <1>2, <1>5, <1>7, <1>9 DEF WalkInv, handler

LEMMA UnregisterWalks ==
  ASSUME WalkInv, "unregister" \notin FnCalls, NEW n \in Nodes,
         UnregisterKeyNotify(n)
  PROVE WalkInv'
<1>1. Len(list) \in Nat BY LenProperties DEF WalkInv, ListInv
<1>2. PICK k \in 1 .. Len(list) :
        /\ list[k] = n /\ list' = RemoveAt(list, k)
        /\ UNCHANGED handler
  BY LenProperties DEF UnregisterKeyNotify, WalkInv, ListInv
<1>n. node' = [node EXCEPT ![n] = [book |-> node[n].book, live |-> FALSE,
                                   next |-> Successor(n)]]
  BY DEF UnregisterKeyNotify
<1>3. /\ list' \in Seq(Nodes) /\ Len(list') = Len(list) - 1
      /\ \A i \in 1 .. Len(list) - 1 :
           list'[i] = IF i < k THEN list[i] ELSE list[i + 1]
  <2> DEFINE a == SubSeq(list, 1, k - 1)
             c == SubSeq(list, k + 1, Len(list))
  <2>1. \A i \in 1 .. Len(list) : list[i] \in Nodes
    BY ElementOfSeq DEF WalkInv, ListInv
  <2>2. a \in Seq(Nodes) /\ Len(a) = k - 1
        /\ \A i \in 1 .. k - 1 : a[i] = list[i]
    <3>1. \A i \in 1 .. k - 1 : list[i] \in Nodes BY <1>1, <2>1
    <3>2. 1 \in Int /\ k - 1 \in Int BY <1>1
    <3> QED BY <1>1, <3>1, <3>2, SubSeqProperties
  <2>3. c \in Seq(Nodes) /\ Len(c) = Len(list) - k
        /\ \A i \in 1 .. Len(list) - k : c[i] = list[k + i]
    <3>1. \A i \in k + 1 .. Len(list) : list[i] \in Nodes BY <1>1, <2>1
    <3>2. k + 1 \in Int /\ Len(list) \in Int BY <1>1
    <3> QED BY <1>1, <3>1, <3>2, SubSeqProperties
  <2>4. list' = a \o c BY <1>2 DEF RemoveAt
  <2> HIDE DEF a, c
  <2>5. /\ list' \in Seq(Nodes) /\ Len(list') = Len(list) - 1
        /\ \A i \in 1 .. Len(list) - 1 :
             list'[i] = IF i <= k - 1 THEN a[i] ELSE c[i - (k - 1)]
    <3>1. a \o c \in Seq(Nodes) /\ Len(a \o c) = Len(a) + Len(c)
          /\ \A i \in 1 .. Len(a) + Len(c) :
               (a \o c)[i] = IF i <= Len(a) THEN a[i] ELSE c[i - Len(a)]
      BY <2>2, <2>3, ConcatProperties
    <3>2. Len(a) = k - 1 /\ Len(a) + Len(c) = Len(list) - 1
      BY <1>1, <2>2, <2>3
    <3> QED BY <2>4, <3>1, <3>2
  <2>6. \A i \in 1 .. Len(list) - 1 :
          i > k - 1 => c[i - (k - 1)] = list[i + 1]
    <3>1. TAKE i \in 1 .. Len(list) - 1
    <3>2. HAVE i > k - 1
    <3>3. i - (k - 1) \in 1 .. Len(list) - k /\ k + (i - (k - 1)) = i + 1
      BY <1>1, <3>2
    <3> QED BY <2>3, <3>3
  <2>7. ASSUME NEW i \in 1 .. Len(list) - 1
        PROVE list'[i] = IF i < k THEN list[i] ELSE list[i + 1]
    <3>1. CASE i < k
      <4>1. i <= k - 1 /\ i \in 1 .. k - 1 BY <1>1, <3>1
      <4> QED BY <2>2, <2>5, <3>1, <4>1
    <3>2. CASE ~(i < k)
      <4>1. i > k - 1 /\ ~(i <= k - 1) BY <1>1, <3>2
      <4> QED BY <2>5, <2>6, <3>2, <4>1
    <3> QED BY <3>1, <3>2
  <2> QED BY <2>5, <2>7
<1>4. \A i, j \in 1 .. Len(list') : list'[i] = list'[j] => i = j
  <2>1. TAKE i, j \in 1 .. Len(list')
  <2> DEFINE at(x) == IF x < k THEN x ELSE x + 1
  <2>2. i \in 1 .. Len(list) - 1 /\ j \in 1 .. Len(list) - 1 BY <1>3
  <2>3. at(i) \in 1 .. Len(list) /\ at(j) \in 1 .. Len(list)
    BY <1>1, <2>2
  <2>4. list'[i] = list[at(i)] /\ list'[j] = list[at(j)] BY <1>3, <2>2
  <2>5. list[at(i)] = list[at(j)] => at(i) = at(j)
    BY <2>3, Zenon DEF WalkInv, ListInv
  <2>6. at(i) = at(j) => i = j BY <1>1, <2>2
  <2> QED BY <2>4, <2>5, <2>6
<1>5. \A i \in 1 .. Len(list') : list'[i] # n /\ node[list'[i]].live
  <2>1. TAKE i \in 1 .. Len(list')
  <2>2. i \in 1 .. Len(list) - 1 BY <1>3
  <2>3. PICK j \in 1 .. Len(list) : j # k /\ list'[i] = list[j]
    <3>1. CASE i < k BY <1>1, <1>3, <2>2, <3>1
    <3>2. CASE ~(i < k)
      <4>1. i + 1 \in 1 .. Len(list) /\ i + 1 # k BY <1>1, <2>2, <3>2
      <4> QED BY <1>3, <2>2, <3>2, <4>1
    <3> QED BY <3>1, <3>2
  <2>4. list[j] # n BY <1>2, <2>3 DEF WalkInv, ListInv
  <2> QED BY <2>3, <2>4 DEF WalkInv, ListInv
<1>6. /\ node' = [m \in Nodes |-> node'[m]]
      /\ \A m \in Nodes : m # n => node'[m] = node[m]
  BY <1>n DEF WalkInv, ListInv
<1>7. \A i \in 1 .. Len(list') : list'[i] \in Nodes
  BY <1>3, ElementOfSeq
<1>8. ListInv'
  BY <1>2, <1>3, <1>4, <1>5, <1>6, <1>7 DEF WalkInv, ListInv, handler
<1>9. walk.pc = "off"
  BY DEF UnregisterKeyNotify, Caller, Idle
<1> QED BY <1>2, <1>8, <1>9 DEF WalkInv, handler

LEMMA WalkStep ==
  ASSUME "unregister" \notin FnCalls
  PROVE WalkInv /\ [Next]_vars => WalkInv'
<1> SUFFICES ASSUME WalkInv, [Next]_vars PROVE WalkInv'
  OBVIOUS
<1>1. ASSUME \/ TimerHandler \/ ReadKeyStroke \/ WaitForKey \/ Reset
             \/ \E state \in States : SetState(state)
             \/ UNCHANGED vars
      PROVE WalkInv'
  <2>1. UNCHANGED <<entries, handler>>
    BY <1>1 DEF TimerHandler, ReadKeyStroke, WaitForKey, Reset, SetState,
                vars, entries, handler
  <2> QED BY <2>1, WalkStays
<1> QED
  BY <1>1, RegisterWalks, UnregisterWalks, HandlerWalks DEF Next, Calls

(* If no notify function unregisters, the walk calls every function that   *)
(* is registered for the key when the walk ends, whatever the functions    *)
(* register or read themselves (KeypadTextIn.c:668-673).                   *)
THEOREM AllNotified ==
  ASSUME "unregister" \notin FnCalls
  PROVE Spec => []NotifiedAll
<1>1. WalkInv => NotifiedAll
  <2> SUFFICES ASSUME WalkInv, walk.pc = "at", walk.link = Null
               PROVE \A i \in Matching(walk.key) :
                       node[list[i]].book.fn \in told
    BY DEF NotifiedAll
  <2>1. list \in Seq(Nodes) /\ DOMAIN list = 1 .. Len(list)
    BY LenProperties DEF WalkInv, ListInv
  <2>2. \A p \in 1 .. Len(list) : list[p] # Null
    BY <2>1, ElementOfSeq, ConsoleAssumption
  <2>3. Ended BY <2>2 DEF WalkInv, At
  <2> QED BY <2>1, <2>3 DEF Ended, ToldUpTo, Matching
<1> QED BY <1>1, WalkInit, WalkStep, PTL DEF Spec
-----------------------------------------------------------------------------
(* Start and Stop. *)

USE LifecycleAssumption

(* The fields that are set when Start has come to a step.                  *)
Made(s) ==
  CASE s = "WaitForKey"   -> {}
    [] s = "WaitForKeyEx" -> {"WaitForKey"}
    [] s = "TimerEvent"   -> {"WaitForKey", "WaitForKeyEx"}
    [] s \in {"SetTimer", "KeyNotify"} ->
         {"WaitForKey", "WaitForKeyEx", "TimerEvent"}
    [] OTHER -> Events

Building == step \in Steps \cup {"names", "install"}

LifeType ==
  /\ step \in Steps \cup {"idle", "allocate", "names", "install"}
  /\ current \in Consoles \cup {None}
  /\ installed \in Consoles \cup {None}
  /\ opened \in BOOLEAN
  /\ memory \in [Consoles -> {"unused", "live", "freed"}]
  /\ field \in [Consoles -> SUBSET Events]
  /\ exist \subseteq Consoles \X Events
  /\ named \subseteq Consoles

(* While Start runs nothing is installed, and what it has made so far is   *)
(* in the fields of the console it fills.                                  *)
LifeInv ==
  /\ LifeType
  /\ step \in {"idle", "allocate"} => current = None
  /\ step = "idle" => (opened <=> installed # None)
  /\ step # "idle" => opened /\ installed = None
  /\ Building => /\ current \in Consoles
                 /\ memory[current] = "live"
                 /\ field[current] = Made(step)
                 /\ {current} \X field[current] \subseteq exist
  /\ \A c \in Consoles : memory[c] = "unused" => field[c] = {}
  /\ \A c \in Consoles : installed = c =>
       /\ memory[c] = "live"
       /\ {c} \X field[c] \subseteq exist
       /\ Events \ {"TimerEvent"} \subseteq field[c]
       /\ c \notin halted => "TimerEvent" \in field[c]

LEMMA CreatesFacts ==
  /\ Creates[1] = "WaitForKey" /\ Creates[2] = "WaitForKeyEx"
  /\ Creates[3] = "TimerEvent" /\ Creates[4] = "SetTimer"
  /\ Creates[5] = "KeyNotify"
  /\ DOMAIN Creates = 1 .. 5 /\ Len(Creates) = 5
  /\ Steps = {"WaitForKey", "WaitForKeyEx", "TimerEvent", "SetTimer",
              "KeyNotify"}
<1>1. /\ DOMAIN Creates = 1 .. 5 /\ Len(Creates) = 5
      /\ Creates[1] = "WaitForKey" /\ Creates[2] = "WaitForKeyEx"
      /\ Creates[3] = "TimerEvent" /\ Creates[4] = "SetTimer"
      /\ Creates[5] = "KeyNotify"
  BY DEF Creates
<1>2. Steps = {Creates[1], Creates[2], Creates[3], Creates[4], Creates[5]}
  BY <1>1 DEF Steps
<1> QED BY <1>1, <1>2

LEMMA LifeInitInv == LifeInit => LifeInv
BY CreatesFacts DEF LifeInit, LifeInv, LifeType, Building

LEMMA StartInv ==
  ASSUME LifeInv, Start \/ AllocateFails \/ Name \/ Install
  PROVE LifeInv'
<1> USE CreatesFacts DEF LifeInv, LifeType, Building, data
<1>1. CASE Start BY <1>1 DEF Start
<1>2. CASE AllocateFails BY <1>2 DEF AllocateFails
<1>3. CASE Name BY <1>3 DEF Name, Made
<1>4. CASE Install
  <2>1. field[current] = Events BY <1>4 DEF Install, Made
  <2>2. "TimerEvent" \in Events BY DEF Events
  <2> QED BY <1>4, <2>1, <2>2 DEF Install
<1> QED BY <1>1, <1>2, <1>3, <1>4

LEMMA AllocateInv ==
  ASSUME LifeInv, NEW c \in Consoles, Allocate(c)
  PROVE LifeInv'
<1>1. step' = "WaitForKey" /\ current' = c /\ field[c] = {}
  BY CreatesFacts DEF Allocate, LifeInv
<1>2. LifeType' BY <1>1, CreatesFacts DEF Allocate, LifeInv, LifeType
<1>3. Made(step') = {} BY <1>1 DEF Made
<1> QED
  BY <1>1, <1>2, <1>3, CreatesFacts
  DEF Allocate, LifeInv, LifeType, Building

LEMMA CreateInv ==
  ASSUME LifeInv, NEW i \in DOMAIN Creates, Create(i)
  PROVE LifeInv'
<1>1. /\ step \in Steps /\ step = Creates[i] /\ Building
      /\ current \in Consoles
      /\ current' = current /\ memory' = memory /\ named' = named
      /\ installed' = installed /\ opened' = opened
  BY CreatesFacts DEF Create, Building, LifeInv
<1>2. step' \in Steps \cup {"names"} /\ Building'
  BY CreatesFacts DEF Create, Building
<1>3. /\ field' \in [Consoles -> SUBSET Events]
      /\ \A c \in Consoles \ {current} : field'[c] = field[c]
      /\ exist \subseteq exist' /\ exist' \subseteq Consoles \X Events
      /\ field'[current] = IF step = "SetTimer" THEN field[current]
                           ELSE field[current] \cup {step}
      /\ step # "SetTimer" => <<current, step>> \in exist'
  <2>1. /\ field \in [Consoles -> SUBSET Events]
        /\ exist \subseteq Consoles \X Events
    BY DEF LifeInv, LifeType
  <2>2. CASE step = "SetTimer"
    BY <1>1, <2>1, <2>2 DEF Create
  <2>3. CASE step # "SetTimer"
    <3>1. step \in Events BY <1>1, <2>3, CreatesFacts DEF Events
    <3>2. /\ exist' = exist \cup {<<current, step>>}
          /\ field' = [field EXCEPT ![current] = @ \cup {step}]
      BY <2>3 DEF Create
    <3> QED BY <1>1, <2>1, <2>3, <3>1, <3>2
  <2> QED BY <2>2, <2>3
<1>4. Made(step') = IF step = "SetTimer" THEN Made(step)
                    ELSE Made(step) \cup {step}
  <2>1. \/ step = "WaitForKey" /\ step' = "WaitForKeyEx"
        \/ step = "WaitForKeyEx" /\ step' = "TimerEvent"
        \/ step = "TimerEvent" /\ step' = "SetTimer"
        \/ step = "SetTimer" /\ step' = "KeyNotify"
        \/ step = "KeyNotify" /\ step' = "names"
    BY CreatesFacts DEF Create
  <2> QED BY <2>1 DEF Made, Events
<1>5. LifeType' BY <1>1, <1>2, <1>3 DEF LifeInv, LifeType
<1>6. /\ field'[current'] = Made(step')
      /\ {current'} \X field'[current'] \subseteq exist'
  <2>1. /\ field[current] = Made(step)
        /\ {current} \X field[current] \subseteq exist
    BY <1>1 DEF LifeInv
  <2>2. field'[current] = Made(step') BY <1>3, <1>4, <2>1
  <2>3. {current} \X field'[current] \subseteq exist'
    <3> SUFFICES ASSUME NEW e \in field'[current]
                 PROVE <<current, e>> \in exist'
      OBVIOUS
    <3>1. e \in field[current] => <<current, e>> \in exist' BY <1>3, <2>1
    <3> QED BY <1>3, <3>1
  <2> QED BY <1>1, <2>2, <2>3
<1>7. /\ step # "idle" /\ step' # "idle" /\ opened' /\ installed' = None
      /\ memory'[current'] = "live"
      /\ \A c \in Consoles : memory'[c] = "unused" => field'[c] = {}
  BY <1>1, <1>2, <1>3, CreatesFacts DEF LifeInv
<1>8. step' \notin {"idle", "allocate"} BY <1>2, CreatesFacts
<1> QED BY <1>1, <1>2, <1>5, <1>6, <1>7, <1>8 DEF LifeInv

LEMMA CleanUpInv == LifeInv /\ CleanUp => LifeInv'
<1> SUFFICES ASSUME LifeInv, CleanUp PROVE LifeInv'
  OBVIOUS
<1>1. current \in Consoles /\ installed = None /\ step # "idle"
  BY CreatesFacts DEF CleanUp, LifeInv, Building
<1>2. /\ step' = "idle" /\ current' = None /\ ~opened' /\ field' = field
      /\ installed' = None /\ named' = named /\ exist' \subseteq exist
  BY <1>1 DEF CleanUp
<1>3. /\ memory' \in [Consoles -> {"unused", "live", "freed"}]
      /\ \A c \in Consoles : memory'[c] = "unused" => memory[c] = "unused"
  BY <1>1 DEF CleanUp, LifeInv, LifeType
<1>4. LifeType' BY <1>2, <1>3 DEF LifeInv, LifeType, CleanUp
<1> QED
  BY <1>2, <1>3, <1>4, CreatesFacts DEF LifeInv, Building

LEMMA StopInv ==
  ASSUME LifeInv, NEW c \in Consoles, StopFails(c) \/ Stop(c)
  PROVE LifeInv'
<1>1. CASE StopFails(c)
  <2>1. /\ step = "idle" /\ step' = step /\ installed = c
        /\ installed' = installed /\ opened' = opened /\ current' = current
        /\ memory' = memory /\ named' = named
        /\ exist' = exist \ {<<c, "TimerEvent">>}
        /\ field' = [field EXCEPT ![c] = @ \ {"TimerEvent"}]
        /\ c \in halted'
    BY <1>1 DEF StopFails, CloseTimer
  <2>2. /\ field' \in [Consoles -> SUBSET Events]
        /\ field'[c] = field[c] \ {"TimerEvent"}
        /\ \A d \in Consoles \ {c} : field'[d] = field[d]
    BY <2>1 DEF LifeInv, LifeType
  <2>3. LifeType' BY <2>1, <2>2 DEF LifeInv, LifeType
  <2>4. /\ {c} \X field'[c] \subseteq exist'
        /\ Events \ {"TimerEvent"} \subseteq field'[c]
    BY <2>1, <2>2 DEF LifeInv
  <2>5. \A d \in Consoles : memory'[d] = "unused" => field'[d] = {}
    BY <2>1, <2>2 DEF LifeInv
  <2>6. ~Building' BY <2>1, CreatesFacts DEF Building
  <2> QED BY <2>1, <2>3, <2>4, <2>5, <2>6 DEF LifeInv
<1>2. CASE Stop(c)
  <2>1. /\ step = "idle" /\ step' = step /\ installed' = None
        /\ opened' = FALSE
        /\ current' = current /\ exist' \subseteq exist
        /\ named' \subseteq named
    BY <1>2 DEF Stop
  <2>2. /\ field' \in [Consoles -> SUBSET Events]
        /\ \A d \in Consoles : field'[d] \subseteq field[d]
        /\ memory' \in [Consoles -> {"unused", "live", "freed"}]
        /\ \A d \in Consoles :
             memory'[d] = "unused" => memory[d] = "unused"
    BY <1>2 DEF Stop, LifeInv, LifeType
  <2>3. LifeType' BY <2>1, <2>2 DEF LifeInv, LifeType
  <2>4. \A d \in Consoles : memory'[d] = "unused" => field'[d] = {}
    BY <2>2 DEF LifeInv
  <2>5. ~Building' BY <2>1, CreatesFacts DEF Building
  <2> QED BY <2>1, <2>3, <2>4, <2>5 DEF LifeInv
<1> QED BY <1>1, <1>2

LEMMA LifeNextInv == LifeInv /\ [LifeNext]_lifeVars => LifeInv'
<1> SUFFICES ASSUME LifeInv, [LifeNext]_lifeVars PROVE LifeInv'
  OBVIOUS
<1>1. CASE UNCHANGED lifeVars
  BY <1>1 DEF lifeVars, data, LifeInv, LifeType, Building
<1> QED
  BY <1>1, StartInv, AllocateInv, CreateInv, CleanUpInv, StopInv DEF LifeNext

(* What is installed has its memory and its events, its timer included     *)
(* unless a Stop failed on it, after any number of starts, stops and       *)
(* failures (KeypadDxe.c:303-336, 364-417).                                *)
THEOREM Works == LifeSpec => []InstalledWorks
<1>1. LifeInv => InstalledWorks BY DEF LifeInv, InstalledWorks
<1> QED BY <1>1, LifeInitInv, LifeNextInv, PTL DEF LifeSpec

(* A Start or Stop finds fields that name events that exist, and the       *)
(* device held only for an installed console.                              *)
THEOREM Retry == LifeSpec => []CanRetry
<1>1. LifeInv => CanRetry BY DEF LifeInv, CanRetry
<1> QED BY <1>1, LifeInitInv, LifeNextInv, PTL DEF LifeSpec
=============================================================================
