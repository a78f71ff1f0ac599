-------------------------- MODULE BarleyKeys_proofs --------------------------
(***************************************************************************)
(* For every size of the ring: it is a first-in first-out queue of N - 1   *)
(* keys that gives up the oldest one when it is full.  For any buttons,    *)
(* keys, ring and threshold: each press is one key, and the ring with the  *)
(* polls in front of it is still that queue.                               *)
(***************************************************************************)
EXTENDS BarleyKeys, SequenceTheorems, TLAPS

(* The ring alone. *)
USE RingAssumption

LEMMA AfterSlot ==
  ASSUME NEW s \in Slots
  PROVE /\ After(s) \in Slots
        /\ After(s) = IF s + 1 = N THEN 0 ELSE s + 1
<1>1. CASE s + 1 = N BY <1>1 DEF After, Slots
<1>2. CASE s + 1 # N
  <2>1. s + 1 \in 0 .. N - 1 BY <1>2 DEF Slots
  <2>2. (s + 1) % N = s + 1 BY <2>1
  <2> QED BY <1>2, <2>1, <2>2 DEF After, Slots
<1> QED BY <1>1, <1>2

LEMMA InitType == Init => TypeOK
BY DEF Init, TypeOK, Slots

LEMMA NextType == TypeOK /\ [Next]_vars => TypeOK'
<1> SUFFICES ASSUME TypeOK, [Next]_vars PROVE TypeOK'
  OBVIOUS
<1> USE DEF TypeOK
<1>1. CASE PopEfikeyBufHead BY <1>1, AfterSlot DEF PopEfikeyBufHead
<1>2. CASE Clear BY <1>2 DEF Clear, Slots
<1>3. ASSUME NEW key \in Keys, PushEfikeyBufTail(key) PROVE TypeOK'
  BY <1>3, AfterSlot DEF PushEfikeyBufTail
<1>4. CASE UNCHANGED vars BY <1>4 DEF vars
<1> QED BY <1>1, <1>2, <1>3, <1>4 DEF Next

(* Every index and slot the ring uses exists (KeypadTextIn.c:45-85).       *)
THEOREM TypeCorrect == Spec => []TypeOK
BY InitType, NextType, PTL DEF Spec

-----------------------------------------------------------------------------
(* Where the keys are: Size of them from head on, tail the next slot.      *)
LEMMA SizeFacts ==
  ASSUME TypeOK
  PROVE /\ Size \in 0 .. N - 1
        /\ IsEfikeyBufEmpty <=> Size = 0
        /\ Full <=> Size = N - 1
<1>1. head \in Slots /\ tail \in Slots BY DEF TypeOK
<1>2. After(tail) = IF tail + 1 = N THEN 0 ELSE tail + 1
  BY <1>1, AfterSlot
<1> QED BY <1>1, <1>2 DEF Size, Slots, IsEfikeyBufEmpty, Full

LEMMA SlotFacts ==
  ASSUME TypeOK
  PROVE /\ \A i \in 1 .. Size : SlotOf(i) \in Slots /\ SlotOf(i) # tail
        /\ Size > 0 => SlotOf(1) = head
        /\ SlotOf(Size + 1) = tail
BY SizeFacts DEF TypeOK, Size, Slots, SlotOf

LEMMA ContentsSeq ==
  ASSUME TypeOK
  PROVE /\ Contents \in Seq(Keys)
        /\ Len(Contents) = Size
        /\ \A i \in 1 .. Size : Contents[i] = buffer[SlotOf(i)]
<1>1. \A i \in 1 .. Size : buffer[SlotOf(i)] \in Keys
  BY SlotFacts DEF TypeOK
<1>2. Size \in Nat BY SizeFacts
<1> QED BY <1>1, <1>2 DEF Contents

(* Dropping the head moves every key one place forward.                    *)
LEMMA HeadMoves ==
  ASSUME TypeOK, Size > 0, head' = After(head), tail' = tail
  PROVE /\ Size' = Size - 1
        /\ \A i \in 1 .. Size : SlotOf(i)' = SlotOf(i + 1)
<1>1. head \in Slots /\ tail \in Slots BY DEF TypeOK
<1>2. head' = IF head + 1 = N THEN 0 ELSE head + 1 BY <1>1, AfterSlot
<1>3. Size' = Size - 1 BY <1>1, <1>2 DEF Size, Slots
<1>4. ASSUME NEW i \in 1 .. Size PROVE SlotOf(i)' = SlotOf(i + 1)
  BY <1>1, <1>2, <1>4, SizeFacts DEF SlotOf, Slots
<1> QED BY <1>3, <1>4

LEMMA InitQueue == Init => Queue!Init
<1> SUFFICES ASSUME Init PROVE Queue!Init
  OBVIOUS
<1>1. Size = 0 BY DEF Init, Size
<1>2. Contents = <<>> BY <1>1 DEF Contents
<1> QED BY <1>2 DEF Init, Queue!Init

LEMMA PopQueue == ASSUME TypeOK, PopEfikeyBufHead PROVE Queue!Pop
<1>1. CASE IsEfikeyBufEmpty
  <2>1. UNCHANGED <<head, tail, buffer>> /\ last' = <<"pop">>
    BY <1>1 DEF PopEfikeyBufHead
  <2>2. Contents = <<>> BY <1>1, SizeFacts DEF Contents
  <2>3. Contents' = Contents BY <2>1 DEF Contents, Size, SlotOf
  <2> QED BY <2>1, <2>2, <2>3 DEF Queue!Pop
<1>2. CASE ~IsEfikeyBufEmpty
  <2>1. /\ last' = <<"pop", buffer[head]>>
        /\ head' = After(head)
        /\ UNCHANGED <<tail, buffer>>
    BY <1>2 DEF PopEfikeyBufHead
  <2>2. Size \in 1 .. N - 1 BY <1>2, SizeFacts
  <2>3. TypeOK' BY NextType DEF Next
  <2>4. Size' = Size - 1 /\ \A i \in 1 .. Size : SlotOf(i)' = SlotOf(i + 1)
    BY <2>1, <2>2, HeadMoves
  <2>5. Contents # <<>> /\ Head(Contents) = buffer[head]
    BY <2>2, ContentsSeq, SlotFacts
  <2>6. Contents' = Tail(Contents)
    <3>1. /\ Contents' \in Seq(Keys)
          /\ Len(Contents') = Size'
          /\ \A i \in 1 .. Size' : Contents'[i] = buffer'[SlotOf(i)']
      <4>1. Size' \in Nat BY <2>2, <2>4
      <4>2. \A i \in 1 .. Size' : SlotOf(i)' \in Slots
        BY <2>2, <2>4, SlotFacts
      <4>3. \A i \in 1 .. Size' : buffer'[SlotOf(i)'] \in Keys
        BY <2>3, <4>2 DEF TypeOK
      <4> QED BY <4>1, <4>3 DEF Contents
    <3>2. /\ Tail(Contents) \in Seq(Keys)
          /\ Len(Tail(Contents)) = Size - 1
          /\ \A i \in 1 .. Size - 1 : Tail(Contents)[i] = Contents[i + 1]
      BY <2>2, <2>5, ContentsSeq
    <3>3. \A i \in 1 .. Size - 1 : Contents[i + 1] = buffer[SlotOf(i + 1)]
      BY <2>2, ContentsSeq
    <3>4. \A i \in 1 .. Size - 1 : Contents'[i] = Tail(Contents)[i]
      BY <2>1, <2>2, <2>4, <3>1, <3>2, <3>3
    <3> QED BY <2>4, <3>1, <3>2, <3>4, SeqEqual
  <2> QED BY <2>1, <2>5, <2>6 DEF Queue!Pop
<1> QED BY <1>1, <1>2

LEMMA PushQueue ==
  ASSUME TypeOK, NEW key \in Keys, PushEfikeyBufTail(key)
  PROVE Queue!Push(key)
<1> DEFINE Kept == IF Full THEN Tail(Contents) ELSE Contents
<1>0. /\ head' = IF Full THEN After(head) ELSE head
      /\ buffer' = [buffer EXCEPT ![tail] = key]
      /\ tail' = After(tail)
      /\ last' = <<"push", key>>
  BY DEF PushEfikeyBufTail
<1>t. TypeOK' BY NextType DEF Next
<1>s. head \in Slots /\ tail \in Slots BY DEF TypeOK
<1>n. /\ After(head) = IF head + 1 = N THEN 0 ELSE head + 1
      /\ After(tail) = IF tail + 1 = N THEN 0 ELSE tail + 1
  BY <1>s, AfterSlot
<1>z. Size \in 0 .. N - 1 /\ (Full <=> Size = N - 1) BY SizeFacts
<1>1. Size' = IF Full THEN Size ELSE Size + 1
  BY <1>0, <1>s, <1>n, <1>z DEF Size, Slots
<1>2. \A i \in 1 .. Size' : SlotOf(i)' = SlotOf(IF Full THEN i + 1 ELSE i)
  BY <1>0, <1>1, <1>s, <1>n, <1>z DEF SlotOf, Slots
<1>3. /\ Kept \in Seq(Keys)
      /\ Len(Kept) = Size' - 1
      /\ \A i \in 1 .. Size' - 1 :
            Kept[i] = Contents[IF Full THEN i + 1 ELSE i]
  <2>1. CASE Full
    <3>1. Size \in 1 .. N - 1 BY <1>z, <2>1
    <3>2. Contents # <<>> BY <3>1, ContentsSeq
    <3> QED BY <1>1, <2>1, <3>1, <3>2, ContentsSeq
  <2>2. CASE ~Full BY <1>1, <1>z, <2>2, ContentsSeq
  <2> QED BY <2>1, <2>2
<1>4. Contents' = Append(Kept, key)
  <2>1. /\ Contents' \in Seq(Keys)
        /\ Len(Contents') = Size'
        /\ \A i \in 1 .. Size' : Contents'[i] = buffer'[SlotOf(i)']
    <3>1. Size' \in Nat BY <1>1, <1>z
    <3>2. \A i \in 1 .. Size' : SlotOf(i)' \in Slots
      BY <1>1, <1>2, <1>s, <1>z, SlotFacts
    <3>3. \A i \in 1 .. Size' : buffer'[SlotOf(i)'] \in Keys
      BY <1>t, <3>2 DEF TypeOK
    <3> QED BY <3>1, <3>3 DEF Contents
  <2>2. /\ Append(Kept, key) \in Seq(Keys)
        /\ Len(Append(Kept, key)) = Size'
        /\ \A i \in 1 .. Size' - 1 : Append(Kept, key)[i] = Kept[i]
        /\ Append(Kept, key)[Size'] = key
    BY <1>1, <1>3, <1>z
  <2>3. ASSUME NEW i \in 1 .. Size' - 1 PROVE Contents'[i] = Kept[i]
    <3> DEFINE j == IF Full THEN i + 1 ELSE i
    <3>1. j \in 1 .. Size BY <1>1, <1>z
    <3>2. Kept[i] = buffer[SlotOf(j)] BY <1>3, <3>1, ContentsSeq
    <3>3. SlotOf(j) \in Slots /\ SlotOf(j) # tail BY <3>1, SlotFacts
    <3>4. buffer'[SlotOf(j)] = buffer[SlotOf(j)]
      BY <1>0, <3>3 DEF TypeOK
    <3>5. Contents'[i] = buffer'[SlotOf(j)]
      BY <1>1, <1>2, <1>z, <2>1
    <3> QED BY <3>2, <3>4, <3>5
  <2>4. Contents'[Size'] = key
    <3>1. (IF Full THEN Size' + 1 ELSE Size') = Size + 1
      BY <1>1, <1>z
    <3>2. \A i \in 1 .. Size' : i = Size' => SlotOf(i)' = tail
      BY <1>2, <3>1, SlotFacts
    <3>3. \A i \in 1 .. Size' : i = Size' => Contents'[i] = buffer'[tail]
      BY <2>1, <3>2
    <3>4. Contents'[Size'] = buffer'[tail] BY <1>1, <1>z, <3>3
    <3> QED BY <1>0, <1>s, <3>4 DEF TypeOK
  <2>5. \A i \in 1 .. Size' : Contents'[i] = Append(Kept, key)[i]
    BY <1>1, <1>z, <2>2, <2>3, <2>4
  <2> QED BY <2>1, <2>2, <2>5, SeqEqual
<1>5. Contents' = Queue!Pushed(Contents, key)
  BY <1>4, <1>z, ContentsSeq DEF Queue!Pushed
<1> QED BY <1>0, <1>5 DEF Queue!Push

LEMMA ClearQueue == ASSUME Clear PROVE Queue!Clear
<1>1. Size' = 0 BY DEF Clear, Size
<1>2. Contents' = <<>> BY <1>1 DEF Contents
<1> QED BY <1>2 DEF Clear, Queue!Clear

(* The ring implements the queue, whatever its size and the keys           *)
(* (KeypadTextIn.c:76-84).                                                 *)
THEOREM QueueTheorem == Spec => QueueSpec
<1>1. TypeOK /\ [Next]_vars => [Queue!Next]_(Queue!vars)
  <2> SUFFICES ASSUME TypeOK, [Next]_vars PROVE [Queue!Next]_(Queue!vars)
    OBVIOUS
  <2>1. CASE PopEfikeyBufHead BY <2>1, PopQueue DEF Queue!Next
  <2>2. CASE Clear BY <2>2, ClearQueue DEF Queue!Next
  <2>3. ASSUME NEW key \in Keys, PushEfikeyBufTail(key)
        PROVE Queue!Next
    BY <2>3, PushQueue DEF Queue!Next
  <2>4. CASE UNCHANGED vars
    BY <2>4 DEF vars, Queue!vars, Contents, Size, SlotOf
  <2> QED BY <2>1, <2>2, <2>3, <2>4 DEF Next
<1> QED BY <1>1, InitQueue, TypeCorrect, PTL
        DEF Spec, QueueSpec, Queue!Spec

-----------------------------------------------------------------------------
(* The buttons in front of it. *)
HIDE RingAssumption

Contexts == [pressed : BOOLEAN, time : 0 .. Threshold, long : BOOLEAN]
Presses  == [held : 0 .. Threshold, keys : Nat, early : BOOLEAN,
             seen : BOOLEAN, spoils : Nat, whole : BOOLEAN]

(* A context, and the press it has followed, of a button that is down or   *)
(* not.                                                                    *)
Reported(c, p, isDown) ==
  /\ c.long => c.pressed
  /\ p.whole =>
       /\ c.pressed => p.seen
       /\ p.keys <= IF c.long \/ (~c.pressed /\ ~isDown)
                    THEN 1 + p.spoils ELSE p.spoils
       /\ p.spoils = 0 /\ c.pressed => p.keys = IF c.long THEN 1 ELSE 0
       /\ p.spoils = 0 /\ ~c.pressed =>
            IF p.seen THEN p.keys = 1 /\ ~isDown ELSE p.keys = 0
       /\ ~p.early

(* The time in a context, with what is still to be added to it, is no more *)
(* than the button has been held.                                          *)
InTime(c, p, isDown, pending) ==
  p.whole /\ c.pressed /\ isDown =>
    IF c.time + pending <= Threshold
    THEN c.time + pending <= p.held ELSE p.held = Threshold

ToRead == {todo[i] : i \in DOMAIN todo}
Pending(b) == IF b \in ToRead THEN delta ELSE elapsed

KeysType ==
  /\ context \in [Buttons -> Contexts]
  /\ press \in [Buttons -> Presses]
  /\ elapsed \in 0 .. Threshold /\ delta \in 0 .. Threshold
  /\ todo \in Seq(Buttons)
  /\ down \subseteq Buttons
  /\ \A i, j \in DOMAIN todo : todo[i] = todo[j] => i = j
  /\ todo # <<>> => elapsed = 0

Follows ==
  \A b \in Buttons : /\ Reported(context[b], press[b], b \in down)
                     /\ InTime(context[b], press[b], b \in down, Pending(b))

KeysInv == KeysType /\ Follows

LEMMA ThresholdNat == Threshold \in Nat /\ Threshold > 0
BY BarleyAssumption

USE ThresholdNat

-----------------------------------------------------------------------------
LEMMA KeysInitInv == KeysInit => KeysInv
<1> SUFFICES ASSUME KeysInit PROVE KeysInv
  OBVIOUS
<1>1. Released \in Contexts BY DEF Released, Contexts
<1>2. NewPress(TRUE) \in Presses BY DEF NewPress, Presses
<1>3. <<>> \in Seq(Buttons) OBVIOUS
<1>4. /\ context \in [Buttons -> Contexts] /\ press \in [Buttons -> Presses]
      /\ todo = <<>> /\ down \subseteq Buttons
  BY <1>1, <1>2 DEF KeysInit
<1>5. elapsed \in 0 .. Threshold /\ delta \in 0 .. Threshold
  BY DEF KeysInit
<1>6. DOMAIN <<>> = {} OBVIOUS
<1>7. KeysType BY <1>3, <1>4, <1>5, <1>6 DEF KeysType
<1>8. Follows
  BY DEF KeysInit, Follows, Reported, InTime, Released, NewPress
<1> QED BY <1>7, <1>8 DEF KeysInv

(* What the next button of a poll leaves behind in the list of the rest.   *)
LEMMA NextButtonFacts ==
  ASSUME KeysType, todo # <<>>, NextButton
  PROVE /\ Button \in Buttons
        /\ todo' \in Seq(Buttons)
        /\ \A i, j \in DOMAIN todo' : todo'[i] = todo'[j] => i = j
        /\ ToRead' \subseteq ToRead /\ Button \notin ToRead'
        /\ \A b \in Buttons : b # Button /\ b \in ToRead => b \in ToRead'
        /\ elapsed = 0 /\ elapsed' = 0 /\ down' = down
        /\ delta' \in 0 .. Threshold
        /\ \A b \in Buttons : b # Button => Pending(b)' = Pending(b)
        /\ \A b : b = Button => Pending(b) = delta /\ Pending(b)' = 0
<1> USE DEF KeysType
<1>1. /\ Len(todo) \in Nat \ {0} /\ DOMAIN todo = 1 .. Len(todo)
      /\ \A i \in 1 .. Len(todo) : todo[i] \in Buttons
  OBVIOUS
<1>2. /\ todo' = Tail(todo) /\ elapsed' = elapsed /\ down' = down
      /\ delta' = IF todo' = <<>> THEN 0 ELSE delta
  BY DEF NextButton
<1>3. /\ todo' \in Seq(Buttons) /\ Len(todo') = Len(todo) - 1
      /\ DOMAIN todo' = 1 .. Len(todo) - 1
      /\ \A i \in 1 .. Len(todo) - 1 : todo'[i] = todo[i + 1]
  BY <1>1, <1>2
<1>4. Button = todo[1] /\ Button \in Buttons BY <1>1 DEF Button
<1>5. \A i, j \in DOMAIN todo' : todo'[i] = todo'[j] => i = j
  <2> SUFFICES ASSUME NEW i \in 1 .. Len(todo) - 1,
                      NEW j \in 1 .. Len(todo) - 1, todo'[i] = todo'[j]
               PROVE i = j
    BY <1>3
  <2>1. i + 1 \in DOMAIN todo /\ j + 1 \in DOMAIN todo BY <1>1
  <2>2. todo[i + 1] = todo[j + 1] BY <1>3
  <2> QED BY <2>1, <2>2
<1>6. ToRead' \subseteq ToRead
  <2> SUFFICES ASSUME NEW i \in 1 .. Len(todo) - 1
               PROVE todo'[i] \in ToRead
    BY <1>3 DEF ToRead
  <2>1. i + 1 \in DOMAIN todo BY <1>1
  <2> QED BY <1>3, <2>1 DEF ToRead
<1>7. Button \notin ToRead'
  <2> SUFFICES ASSUME NEW i \in 1 .. Len(todo) - 1, todo'[i] = Button
               PROVE FALSE
    BY <1>3 DEF ToRead
  <2>1. i + 1 \in DOMAIN todo /\ 1 \in DOMAIN todo BY <1>1
  <2>2. todo[i + 1] = todo[1] BY <1>3, <1>4
  <2>3. i + 1 = 1 BY <2>1, <2>2
  <2> QED BY <2>3
<1>8. \A b \in Buttons : b # Button /\ b \in ToRead => b \in ToRead'
  <2> SUFFICES ASSUME NEW i \in 1 .. Len(todo), todo[i] # Button
               PROVE todo[i] \in ToRead'
    BY <1>1 DEF ToRead
  <2>1. i - 1 \in 1 .. Len(todo) - 1 BY <1>1, <1>4
  <2>2. todo'[i - 1] = todo[i] BY <1>3, <2>1
  <2> QED BY <1>3, <2>1, <2>2 DEF ToRead
<1>9. Button \in ToRead BY <1>1, <1>4 DEF ToRead
<1>10. ASSUME NEW b \in Buttons, b # Button
       PROVE Pending(b)' = Pending(b)
  <2>1. b \in ToRead' <=> b \in ToRead BY <1>6, <1>8, <1>10
  <2>2. b \in ToRead' => todo' # <<>> BY <1>3 DEF ToRead
  <2> QED BY <1>2, <2>1, <2>2 DEF Pending
<1>11. elapsed = 0 /\ elapsed' = 0 /\ delta' \in 0 .. Threshold
  BY <1>2
<1>12. \A b : b = Button => Pending(b) = delta BY <1>9 DEF Pending
<1>13. \A b : b = Button => Pending(b)' = 0 BY <1>7, <1>11 DEF Pending
<1>14. (\A b \in Buttons : b # Button => Pending(b)' = Pending(b))
  BY <1>10
<1> QED
  BY <1>2, <1>3, <1>4, <1>5, <1>6, <1>7, <1>8, <1>9, <1>11, <1>12, <1>13,
     <1>14

LEMMA NextButtonReads ==
  ASSUME KeysType, todo # <<>>, NextButton
  PROVE Button \in ToRead /\ Pending(Button) = delta
<1>1. Button = todo[1] /\ 1 \in DOMAIN todo BY DEF KeysType, Button
<1>2. Button \in ToRead BY <1>1 DEF ToRead
<1> QED BY <1>2 DEF Pending

(* A poll's step for one button is as good as what it does to that button. *)
LEMMA OneButton ==
  ASSUME KeysInv, todo # <<>>, NextButton,
         context' \in [Buttons -> Contexts], press' \in [Buttons -> Presses],
         \A b \in Buttons \ {Button} :
           context'[b] = context[b] /\ press'[b] = press[b],
         Reported(context'[Button], press'[Button], Button \in down),
         InTime(context'[Button], press'[Button], Button \in down, 0)
  PROVE KeysInv'
<1>1. KeysType BY DEF KeysInv
<1>2. KeysType'
  BY <1>1, NextButtonFacts DEF KeysType
<1>3. ASSUME NEW b \in Buttons
      PROVE /\ Reported(context'[b], press'[b], b \in down')
            /\ InTime(context'[b], press'[b], b \in down', Pending(b)')
  <2>1. CASE b = Button BY <1>1, <2>1, NextButtonFacts
  <2>2. CASE b # Button
    BY <1>1, <2>2, NextButtonFacts DEF KeysInv, Follows
  <2> QED BY <2>1, <2>2
<1> QED BY <1>2, <1>3 DEF KeysInv, Follows

-----------------------------------------------------------------------------
LEMMA NewPressFacts ==
  ASSUME NEW whole \in BOOLEAN
  PROVE /\ NewPress(whole) \in Presses
        /\ NewPress(whole).whole = whole
        /\ NewPress(whole).keys = 0 /\ NewPress(whole).spoils = 0
        /\ NewPress(whole).seen = FALSE /\ NewPress(whole).early = FALSE
BY DEF NewPress, Presses

LEMMA UserInv ==
  ASSUME KeysInv, NEW b \in Buttons, Press(b) \/ Release(b)
  PROVE KeysInv'
<1> DEFINE c == context[b]
           p == press[b]
<1>1. KeysType /\ c \in Contexts /\ p \in Presses
  BY DEF KeysInv, KeysType
<1>2. /\ context' = context /\ todo' = todo /\ delta' = delta
      /\ elapsed' = elapsed
  BY DEF Press, Release, pollVars
<1>3. \A x \in Buttons : Pending(x)' = Pending(x)
  BY <1>2 DEF Pending, ToRead
<1>4. ASSUME NEW x \in Buttons, x # b
      PROVE press'[x] = press[x] /\ (x \in down' <=> x \in down)
  BY <1>1, <1>4 DEF Press, Release, KeysType
<1>5. /\ press' \in [Buttons -> Presses]
      /\ Reported(c, press'[b], b \in down')
      /\ InTime(c, press'[b], b \in down', Pending(b))
  <2>1. CASE Press(b)
    <3> DEFINE whole == ~c.pressed
               q == NewPress(whole)
    <3>1. whole \in BOOLEAN OBVIOUS
    <3>2. press' = [press EXCEPT ![b] = q] /\ b \in down'
      BY <2>1 DEF Press
    <3>3. c.long => c.pressed BY DEF KeysInv, Follows, Reported
    <3> HIDE DEF whole
    <3>4. /\ q \in Presses /\ q.whole = whole /\ q.keys = 0 /\ q.spoils = 0
          /\ ~q.seen /\ ~q.early
      BY <3>1, NewPressFacts
    <3> HIDE DEF q
    <3>5. press'[b] = q /\ press' \in [Buttons -> Presses]
      BY <1>1, <3>2, <3>4 DEF KeysType
    <3>6. q.whole => ~c.pressed BY <3>4 DEF whole
    <3>7. Reported(c, q, TRUE) BY <3>3, <3>4, <3>6 DEF Reported
    <3>8. InTime(c, q, TRUE, Pending(b)) BY <3>6 DEF InTime
    <3> QED BY <3>2, <3>5, <3>7, <3>8
  <2>2. CASE Release(b)
    <3>1. /\ press' = [press EXCEPT ![b] = [p EXCEPT !.held = 0]]
          /\ b \in down /\ b \notin down'
      BY <2>2 DEF Release
    <3>2. [p EXCEPT !.held = 0] \in Presses BY <1>1 DEF Presses
    <3>3. press' \in [Buttons -> Presses]
      BY <1>1, <3>1, <3>2 DEF KeysType
    <3>4. press'[b] = [p EXCEPT !.held = 0]
      BY <1>1, <3>1 DEF KeysType
    <3> QED
      BY <1>1, <3>1, <3>2, <3>3, <3>4
      DEF KeysInv, Follows, Reported, InTime, Presses, Contexts
  <2> QED BY <2>1, <2>2
<1>6. down' \subseteq Buttons BY <1>1 DEF Press, Release, KeysType
<1>7. KeysType' BY <1>1, <1>2, <1>5, <1>6 DEF KeysType
<1>8. Follows'
  BY <1>2, <1>3, <1>4, <1>5 DEF KeysInv, Follows
<1> QED BY <1>7, <1>8 DEF KeysInv

LEMMA TickInv == KeysInv /\ Tick => KeysInv'
<1> SUFFICES ASSUME KeysInv, Tick PROVE KeysInv'
  OBVIOUS
<1> DEFINE aged(b) == [press[b] EXCEPT
                        !.held = IF b \in down THEN Sum(@, 1) ELSE @]
<1>1. KeysType BY DEF KeysInv
<1>2. /\ todo = <<>> /\ todo' = todo /\ delta' = delta /\ down' = down
      /\ context' = context /\ elapsed' = Sum(elapsed, 1)
      /\ press' = [b \in Buttons |-> aged(b)]
  BY DEF Tick, NoPoll, pollVars
<1>3. ToRead = {} /\ ToRead' = {} BY <1>2 DEF ToRead
<1>4. elapsed' \in 0 .. Threshold BY <1>1, <1>2 DEF KeysType, Sum
<1>5. ASSUME NEW b \in Buttons
      PROVE /\ aged(b) \in Presses
            /\ Reported(context'[b], press'[b], b \in down')
            /\ InTime(context'[b], press'[b], b \in down', Pending(b)')
  <2>1. context[b] \in Contexts /\ press[b] \in Presses
    BY <1>1 DEF KeysType
  <2>2. /\ aged(b) \in Presses
        /\ aged(b).held = IF b \in down THEN Sum(press[b].held, 1)
                          ELSE press[b].held
        /\ aged(b).keys = press[b].keys /\ aged(b).seen = press[b].seen
        /\ aged(b).early = press[b].early
        /\ aged(b).spoils = press[b].spoils
        /\ aged(b).whole = press[b].whole
    BY <2>1 DEF Presses, Sum
  <2>3. press'[b] = aged(b) BY <1>2
  <2>4. Reported(context'[b], press'[b], b \in down')
    BY <1>2, <2>2, <2>3 DEF KeysInv, Follows, Reported
  <2>5. InTime(context'[b], press'[b], b \in down', Sum(elapsed, 1))
    <3>1. InTime(context[b], press[b], b \in down, elapsed)
      BY <1>3 DEF KeysInv, Follows, Pending
    <3>2. /\ context[b].time \in Nat /\ press[b].held \in 0 .. Threshold
          /\ elapsed \in 0 .. Threshold
      BY <1>1, <2>1 DEF KeysType, Contexts, Presses
    <3>3. /\ context'[b] = context[b] /\ down' = down
          /\ press'[b].whole = press[b].whole
          /\ b \in down => press'[b].held = Sum(press[b].held, 1)
      BY <1>2, <2>2, <2>3
    <3> QED BY <3>1, <3>2, <3>3 DEF InTime, Sum
  <2> QED BY <1>2, <1>3, <2>2, <2>4, <2>5 DEF Pending
<1>6. press' \in [Buttons -> Presses] BY <1>2, <1>5
<1>7. KeysType' BY <1>1, <1>2, <1>4, <1>6 DEF KeysType
<1> QED BY <1>5, <1>7 DEF KeysInv, Follows

LEMMA HandlerInv ==
  ASSUME KeysInv, NEW read \in BOOLEAN, KeypadTimerHandler(read)
  PROVE KeysInv'
<1>1. KeysType BY DEF KeysInv
<1>2. /\ todo = <<>> /\ todo' = Scan /\ delta' = elapsed /\ elapsed' = 0
      /\ context' = context /\ press' = press /\ down' = down
  BY DEF KeypadTimerHandler, NoPoll
<1>3. ToRead = {} /\ ToRead' = Buttons BY <1>2 DEF ToRead, Buttons
<1>4. KeysType' BY <1>1, <1>2, BarleyAssumption DEF KeysType
<1>5. \A b \in Buttons : Pending(b)' = Pending(b)
  BY <1>2, <1>3 DEF Pending
<1> QED BY <1>2, <1>4, <1>5 DEF KeysInv, Follows

-----------------------------------------------------------------------------
(* One button of a poll.                                                   *)
LEMMA SeesPressInv == KeysInv /\ SeesPress => KeysInv'
<1> SUFFICES ASSUME KeysInv, SeesPress PROVE KeysInv'
  OBVIOUS
<1> DEFINE c == context[Button]
           p == press[Button]
           c1 == [c EXCEPT !.pressed = TRUE]
           cc == [c1 EXCEPT !.time = 0]
           pp == [p EXCEPT !.seen = TRUE]
<1>1. /\ KeysType /\ todo # <<>> /\ NextButton
      /\ Button \in down /\ ~c.pressed
  BY DEF KeysInv, SeesPress
<1>2. Button \in Buttons BY <1>1, NextButtonFacts
<1>3. c \in Contexts /\ p \in Presses BY <1>1, <1>2 DEF KeysType
<1>a. c1 \in Contexts /\ c1.pressed /\ c1.long = c.long
  BY <1>3 DEF Contexts
<1>b. /\ cc \in Contexts /\ cc.pressed = c1.pressed /\ cc.time = 0
      /\ cc.long = c1.long
  <2> HIDE DEF c1
  <2>1. 0 \in 0 .. Threshold OBVIOUS
  <2> QED BY <1>a, <2>1 DEF Contexts
<1>4. /\ cc \in Contexts /\ cc.pressed /\ cc.time = 0 /\ cc.long = c.long
      /\ pp \in Presses /\ pp.seen /\ pp.held = p.held /\ pp.keys = p.keys
      /\ pp.early = p.early /\ pp.spoils = p.spoils /\ pp.whole = p.whole
  BY <1>3, <1>a, <1>b DEF Presses
<1>5. context' = [context EXCEPT ![Button] = cc]
  BY <1>1, <1>2 DEF SeesPress, KeysType
<1>6. press' = [press EXCEPT ![Button] = pp]
  BY <1>1, <1>2 DEF SeesPress, KeysType
<1>7. /\ context' \in [Buttons -> Contexts]
      /\ press' \in [Buttons -> Presses]
      /\ context'[Button] = cc /\ press'[Button] = pp
      /\ \A b \in Buttons \ {Button} :
           context'[b] = context[b] /\ press'[b] = press[b]
  BY <1>1, <1>2, <1>4, <1>5, <1>6 DEF KeysType
<1>8. Reported(c, p, TRUE) BY <1>1, <1>2 DEF KeysInv, Follows
<1>9. Reported(cc, pp, TRUE)
  BY <1>1, <1>3, <1>4, <1>8 DEF Reported, Contexts, Presses
<1>10. InTime(cc, pp, TRUE, 0)
  BY <1>4 DEF InTime, Presses
<1> QED BY <1>1, <1>7, <1>9, <1>10, OneButton

LEMMA PushFacts ==
  ASSUME KeysType, Button \in Buttons, NEW key, NEW early \in BOOLEAN,
         NEW spoils \in Nat, Push(key, early, spoils)
  PROVE /\ press' \in [Buttons -> Presses]
        /\ \A b \in Buttons \ {Button} : press'[b] = press[b]
        /\ press'[Button].keys = press[Button].keys + 1
        /\ press'[Button].early = (press[Button].early \/ early)
        /\ press'[Button].spoils = press[Button].spoils + spoils
        /\ press'[Button].held = press[Button].held
        /\ press'[Button].seen = press[Button].seen
        /\ press'[Button].whole = press[Button].whole
<1> DEFINE B == Button
           f1 == [press EXCEPT ![B].keys = @ + 1]
           f2 == [f1 EXCEPT ![B].early = @ \/ early]
           f3 == [f2 EXCEPT ![B].spoils = @ + spoils]
<1>1. press \in [Buttons -> Presses] /\ B \in Buttons BY DEF KeysType
<1>2. press' = f3 BY DEF Push
<1> HIDE DEF B
<1>3. /\ f1 \in [Buttons -> Presses]
      /\ \A b \in Buttons \ {B} : f1[b] = press[b]
      /\ f1[B].keys = press[B].keys + 1 /\ f1[B].early = press[B].early
      /\ f1[B].spoils = press[B].spoils /\ f1[B].held = press[B].held
      /\ f1[B].seen = press[B].seen /\ f1[B].whole = press[B].whole
  BY <1>1 DEF Presses
<1> HIDE DEF f1
<1>4. /\ f2 \in [Buttons -> Presses]
      /\ \A b \in Buttons \ {B} : f2[b] = f1[b]
      /\ f2[B].keys = f1[B].keys
      /\ f2[B].early = (f1[B].early \/ early)
      /\ f2[B].spoils = f1[B].spoils /\ f2[B].held = f1[B].held
      /\ f2[B].seen = f1[B].seen /\ f2[B].whole = f1[B].whole
  BY <1>1, <1>3 DEF Presses
<1> HIDE DEF f2
<1>5. /\ f3 \in [Buttons -> Presses]
      /\ \A b \in Buttons \ {B} : f3[b] = f2[b]
      /\ f3[B].keys = f2[B].keys /\ f3[B].early = f2[B].early
      /\ f3[B].spoils = f2[B].spoils + spoils
      /\ f3[B].held = f2[B].held
      /\ f3[B].seen = f2[B].seen /\ f3[B].whole = f2[B].whole
  BY <1>1, <1>4 DEF Presses
<1> HIDE DEF f3
<1>6. press'[B].early = (press[B].early \/ early)
  BY <1>2, <1>3, <1>4, <1>5
<1>7. /\ press' \in [Buttons -> Presses]
      /\ \A b \in Buttons \ {B} : press'[b] = press[b]
      /\ press'[B].keys = press[B].keys + 1
      /\ press'[B].spoils = press[B].spoils + spoils
      /\ press'[B].held = press[B].held
      /\ press'[B].seen = press[B].seen
      /\ press'[B].whole = press[B].whole
  BY <1>2, <1>3, <1>4, <1>5
<1> QED BY <1>6, <1>7 DEF B

LEMMA SeesHeldInv == KeysInv /\ SeesHeld => KeysInv'
<1> SUFFICES ASSUME KeysInv, SeesHeld PROVE KeysInv'
  OBVIOUS
<1> DEFINE c == context[Button]
           p == press[Button]
           q == press'[Button]
           time == Sum(c.time, delta)
           long == Button \in Long /\ ~c.long /\ time >= Threshold
           f1 == [context EXCEPT ![Button].time = time]
           f2 == [f1 EXCEPT ![Button].long = @ \/ long]
<1>1. /\ KeysType /\ todo # <<>> /\ NextButton
      /\ Button \in down /\ c.pressed
  BY DEF KeysInv, SeesHeld
<1>2. Button \in Buttons /\ Button \in ToRead /\ Pending(Button) = delta
  BY <1>1, NextButtonFacts, NextButtonReads
<1>3. c \in Contexts /\ p \in Presses /\ delta \in 0 .. Threshold
  BY <1>1, <1>2 DEF KeysType
<1>4. time \in 0 .. Threshold BY <1>3 DEF Sum, Contexts
<1>5. context' = f2 BY DEF SeesHeld
<1>6. /\ f1 \in [Buttons -> Contexts]
      /\ \A b \in Buttons \ {Button} : f1[b] = context[b]
      /\ f1[Button].time = time /\ f1[Button].pressed = c.pressed
      /\ f1[Button].long = c.long
  <2> HIDE DEF time
  <2> QED BY <1>1, <1>2, <1>3, <1>4 DEF KeysType, Contexts
<1>7. /\ f2 \in [Buttons -> Contexts]
      /\ \A b \in Buttons \ {Button} : f2[b] = f1[b]
      /\ f2[Button].time = f1[Button].time
      /\ f2[Button].pressed = f1[Button].pressed
      /\ f2[Button].long = (f1[Button].long \/ long)
  <2> HIDE DEF f1, long
  <2>1. long \in BOOLEAN BY DEF long
  <2> QED BY <1>2, <1>6, <2>1 DEF Contexts
<1>8. /\ context' \in [Buttons -> Contexts]
      /\ \A b \in Buttons \ {Button} : context'[b] = context[b]
      /\ context'[Button].time = time /\ context'[Button].pressed
      /\ context'[Button].long <=> c.long \/ long
  <2> HIDE DEF f1, f2, time, long
  <2> QED BY <1>1, <1>5, <1>6, <1>7
<1>9. Reported(c, p, TRUE) /\ InTime(c, p, TRUE, delta)
  BY <1>1, <1>2 DEF KeysInv, Follows
<1>10. p.whole => time <= p.held
  BY <1>1, <1>3, <1>9 DEF InTime, Sum, Contexts, Presses
<1>11. CASE long
  <2>1. Push(Escape, p.held < Threshold, 0) BY <1>11 DEF SeesHeld
  <2> DEFINE early == p.held < Threshold
  <2>a. early \in BOOLEAN /\ Push(Escape, early, 0) BY <2>1
  <2>b. p.spoils + 0 = p.spoils BY <1>3 DEF Presses
  <2> HIDE DEF early
  <2>c. /\ press' \in [Buttons -> Presses]
        /\ \A b \in Buttons \ {Button} : press'[b] = press[b]
        /\ q.keys = p.keys + 1 /\ q.spoils = p.spoils + 0
        /\ q.held = p.held /\ q.seen = p.seen /\ q.whole = p.whole
        /\ q.early = (p.early \/ early)
    BY <1>1, <1>2, <2>a, PushFacts
  <2>2. /\ press' \in [Buttons -> Presses]
        /\ \A b \in Buttons \ {Button} : press'[b] = press[b]
        /\ q.keys = p.keys + 1 /\ q.spoils = p.spoils /\ q.held = p.held
        /\ q.seen = p.seen /\ q.whole = p.whole
        /\ q.early <=> (p.early \/ p.held < Threshold)
    BY <2>b, <2>c DEF early
  <2>3. p.whole => ~(p.held < Threshold)
    BY <1>3, <1>4, <1>10, <1>11 DEF Presses
  <2>4. ~c.long /\ context'[Button].long BY <1>8, <1>11
  <2>5. Reported(context'[Button], q, TRUE)
    <3> HIDE DEF q, c, p
    <3> QED BY <1>1, <1>3, <1>8, <1>9, <2>2, <2>3, <2>4 DEF Reported, Presses
  <2>6. InTime(context'[Button], q, TRUE, 0)
    <3> HIDE DEF q, c, p, time
    <3> QED BY <1>3, <1>4, <1>8, <1>10, <2>2 DEF InTime, Presses
  <2> QED BY <1>1, <1>8, <2>2, <2>5, <2>6, OneButton
<1>12. CASE ~long
  <2>1. press' = press BY <1>12 DEF SeesHeld
  <2>2. context'[Button].long <=> c.long BY <1>8, <1>12
  <2>3. Reported(context'[Button], q, TRUE)
    BY <1>1, <1>8, <1>9, <2>1, <2>2 DEF Reported
  <2>4. InTime(context'[Button], q, TRUE, 0)
    <3> HIDE DEF time
    <3> QED BY <1>3, <1>4, <1>8, <1>10, <2>1 DEF InTime, Presses
  <2>5. press' \in [Buttons -> Presses] BY <1>1, <2>1 DEF KeysType
  <2> QED BY <1>1, <1>8, <2>1, <2>3, <2>4, <2>5, OneButton
<1> QED BY <1>11, <1>12

(* The button is up or was not read: its context is released.              *)
LEMMA UpFacts ==
  ASSUME KeysType, Button \in Buttons, Up
  PROVE /\ context' \in [Buttons -> Contexts]
        /\ \A b \in Buttons \ {Button} : context'[b] = context[b]
        /\ ~context'[Button].pressed /\ ~context'[Button].long
<1>1. Released \in Contexts BY DEF Released, Contexts
<1>2. context' = [context EXCEPT ![Button] = Released] BY DEF Up
<1>3. ~Released.pressed /\ ~Released.long BY DEF Released
<1> QED BY <1>1, <1>2, <1>3 DEF KeysType

LEMMA SeesReleaseInv == KeysInv /\ SeesRelease => KeysInv'
<1> SUFFICES ASSUME KeysInv, SeesRelease PROVE KeysInv'
  OBVIOUS
<1> DEFINE c == context[Button]
           p == press[Button]
           q == press'[Button]
<1>1. /\ KeysType /\ todo # <<>> /\ NextButton /\ Up /\ Button \notin down
  BY DEF KeysInv, SeesRelease, Up
<1>2. Button \in Buttons BY <1>1, NextButtonFacts
<1>3. /\ c.pressed \in BOOLEAN /\ c.long \in BOOLEAN
      /\ p.keys \in Nat /\ p.spoils \in Nat
  BY <1>1, <1>2 DEF KeysType, Contexts, Presses
<1>4. Reported(c, p, Button \in down) BY <1>2 DEF KeysInv, Follows
<1>5. InTime(context'[Button], q, Button \in down, 0) BY <1>1 DEF InTime
<1>6. CASE c.pressed /\ ReportRelease(Button)
  <2>1. Push(KeyOf[Button], FALSE, 0) /\ ~c.long
    BY <1>6 DEF SeesRelease, ReportRelease
  <2>2. /\ press' \in [Buttons -> Presses]
        /\ \A b \in Buttons \ {Button} : press'[b] = press[b]
        /\ q.keys = p.keys + 1 /\ q.spoils = p.spoils + 0
        /\ q.seen = p.seen /\ q.whole = p.whole
        /\ q.early = (p.early \/ FALSE)
    BY <1>1, <1>2, <2>1, PushFacts
  <2>3. Reported(context'[Button], q, Button \in down)
    <3> HIDE DEF c, p, q
    <3>1. ~context'[Button].pressed /\ ~context'[Button].long
      BY <1>1, <1>2, UpFacts
    <3> QED BY <1>1, <1>3, <1>4, <1>6, <2>1, <2>2, <3>1 DEF Reported
  <2> QED BY <1>1, <1>2, <1>5, <2>2, <2>3, OneButton, UpFacts
<1>7. CASE ~(c.pressed /\ ReportRelease(Button))
  <2>1. press' = press /\ (c.pressed => c.long)
    BY <1>7 DEF SeesRelease, ReportRelease
  <2>2. Reported(context'[Button], p, Button \in down)
    <3> HIDE DEF c, p, q
    <3>1. ~context'[Button].pressed /\ ~context'[Button].long
      BY <1>1, <1>2, UpFacts
    <3> QED BY <1>1, <1>3, <1>4, <2>1, <3>1 DEF Reported
  <2>3. press' \in [Buttons -> Presses] BY <1>1, <2>1 DEF KeysType
  <2> QED BY <1>1, <1>2, <1>5, <2>1, <2>2, <2>3, OneButton, UpFacts
<1> QED BY <1>6, <1>7

LEMMA ReadFailsInv == KeysInv /\ ReadFails => KeysInv'
<1> SUFFICES ASSUME KeysInv, ReadFails PROVE KeysInv'
  OBVIOUS
<1> DEFINE c == context[Button]
           p == press[Button]
           q == press'[Button]
<1>1. /\ KeysType /\ todo # <<>> /\ NextButton /\ Up /\ Button \in down
  BY DEF KeysInv, ReadFails, Up
<1>2. Button \in Buttons BY <1>1, NextButtonFacts
<1>3. /\ c.pressed \in BOOLEAN /\ c.long \in BOOLEAN
      /\ p.keys \in Nat /\ p.spoils \in Nat /\ p \in Presses
  BY <1>1, <1>2 DEF KeysType, Contexts, Presses
<1>4. Reported(c, p, TRUE) BY <1>1, <1>2 DEF KeysInv, Follows
<1>5. ~context'[Button].pressed /\ ~context'[Button].long
  BY <1>1, <1>2, UpFacts
<1>6. InTime(context'[Button], q, Button \in down, 0) BY <1>5 DEF InTime
<1>7. CASE c.pressed /\ ReportRelease(Button)
  <2>1. Push(KeyOf[Button], FALSE, 1) /\ ~c.long
    BY <1>7 DEF ReadFails, ReportRelease
  <2>2. /\ press' \in [Buttons -> Presses]
        /\ \A b \in Buttons \ {Button} : press'[b] = press[b]
        /\ q.keys = p.keys + 1 /\ q.spoils = p.spoils + 1
        /\ q.seen = p.seen /\ q.whole = p.whole
        /\ q.early = (p.early \/ FALSE)
    BY <1>1, <1>2, <2>1, PushFacts
  <2>3. Reported(context'[Button], q, TRUE)
    <3> HIDE DEF c, p, q
    <3> QED BY <1>3, <1>4, <1>5, <1>7, <2>1, <2>2 DEF Reported
  <2> QED BY <1>1, <1>2, <1>6, <2>2, <2>3, OneButton, UpFacts
<1>8. CASE c.pressed /\ ~ReportRelease(Button)
  <2> DEFINE s == [p EXCEPT !.spoils = @ + 1]
  <2>1. press' = [press EXCEPT ![Button] = s] /\ c.long
    BY <1>8 DEF ReadFails, ReportRelease
  <2>2. /\ s \in Presses /\ s.keys = p.keys /\ s.spoils = p.spoils + 1
        /\ s.seen = p.seen /\ s.whole = p.whole /\ s.early = p.early
    BY <1>3 DEF Presses
  <2>3. /\ press' \in [Buttons -> Presses] /\ q = s
        /\ \A b \in Buttons \ {Button} : press'[b] = press[b]
    BY <1>1, <1>2, <2>1, <2>2 DEF KeysType
  <2>4. Reported(context'[Button], s, TRUE)
    <3> HIDE DEF c, p, s
    <3> QED BY <1>3, <1>4, <1>5, <1>8, <2>1, <2>2 DEF Reported
  <2> QED BY <1>1, <1>2, <1>6, <2>3, <2>4, OneButton, UpFacts
<1>9. CASE ~c.pressed
  <2>1. press' = press BY <1>9 DEF ReadFails
  <2>2. Reported(context'[Button], p, TRUE)
    BY <1>4, <1>5, <1>9 DEF Reported
  <2>3. press' \in [Buttons -> Presses] BY <1>1, <2>1 DEF KeysType
  <2> QED BY <1>1, <1>2, <1>6, <2>1, <2>2, <2>3, OneButton, UpFacts
<1> QED BY <1>7, <1>8, <1>9

LEMMA ReadInv == KeysInv /\ ReadKeyStroke => KeysInv'
<1> SUFFICES ASSUME KeysInv, ReadKeyStroke PROVE KeysInv'
  OBVIOUS
<1>1. /\ context' = context /\ todo' = todo /\ delta' = delta
      /\ elapsed' = elapsed /\ down' = down /\ press' = press
  BY DEF ReadKeyStroke
<1> QED
  BY <1>1 DEF KeysInv, KeysType, Follows, Pending, ToRead

LEMMA ResetInv == KeysInv /\ InitKeypad => KeysInv'
<1> SUFFICES ASSUME KeysInv, InitKeypad PROVE KeysInv'
  OBVIOUS
<1> DEFINE s(b) == [press[b] EXCEPT
                     !.spoils = IF context[b].pressed THEN @ + 1 ELSE @]
<1>1. KeysType BY DEF KeysInv
<1>2. /\ todo' = todo /\ delta' = delta /\ down' = down
      /\ elapsed' = elapsed
      /\ context' = [b \in Buttons |-> Released]
      /\ press' = [b \in Buttons |-> s(b)]
  BY DEF InitKeypad, pollVars
<1>3. Released \in Contexts /\ ~Released.pressed /\ ~Released.long
  BY DEF Released, Contexts
<1>4. ASSUME NEW b \in Buttons
      PROVE /\ s(b) \in Presses
            /\ Reported(context'[b], press'[b], b \in down')
            /\ InTime(context'[b], press'[b], b \in down', Pending(b)')
  <2> DEFINE c == context[b]
             p == press[b]
             q == s(b)
  <2>1. c \in Contexts /\ p \in Presses BY <1>1 DEF KeysType
  <2>2. /\ q \in Presses
        /\ q.keys = p.keys /\ q.seen = p.seen
        /\ q.spoils = IF c.pressed THEN p.spoils + 1 ELSE p.spoils
        /\ q.whole = p.whole /\ q.early = p.early
    BY <2>1 DEF Presses
  <2>3. context'[b] = Released /\ press'[b] = q /\ down' = down
    BY <1>2
  <2>4. Reported(c, p, b \in down) BY DEF KeysInv, Follows
  <2>5. /\ c.pressed \in BOOLEAN /\ c.long \in BOOLEAN
        /\ p.keys \in Nat /\ p.spoils \in Nat
    BY <2>1 DEF Contexts, Presses
  <2> HIDE DEF c, p, q
  <2>6. Reported(Released, q, b \in down)
    BY <1>3, <2>2, <2>4, <2>5 DEF Reported
  <2>7. InTime(Released, q, b \in down, Pending(b)')
    BY <1>3 DEF InTime
  <2> QED BY <2>2, <2>3, <2>6, <2>7 DEF q
<1>5. KeysType'
  <2>1. press' \in [Buttons -> Presses] BY <1>2, <1>4
  <2>2. context' \in [Buttons -> Contexts] BY <1>2, <1>3
  <2> QED BY <1>1, <1>2, <2>1, <2>2 DEF KeysType
<1> QED BY <1>4, <1>5 DEF KeysInv, Follows

LEMMA KeysNextInv == KeysInv /\ [KeysNext]_keysVars => KeysInv'
<1> SUFFICES ASSUME KeysInv, [KeysNext]_keysVars PROVE KeysInv'
  OBVIOUS
<1>1. CASE UNCHANGED keysVars
  BY <1>1
  DEF keysVars, pollVars, KeysInv, KeysType, Follows, Pending, ToRead
<1> QED
  BY <1>1, UserInv, TickInv, HandlerInv, SeesPressInv, SeesHeldInv,
     SeesReleaseInv, ReadFailsInv, ReadInv, ResetInv DEF KeysNext

LEMMA KeysInvImplies == KeysInv => EachPressOnce
<1> SUFFICES ASSUME KeysInv, NEW b \in Buttons, press[b].whole
             PROVE /\ press[b].keys <= 1 + press[b].spoils
                   /\ press[b].seen /\ ~context[b].pressed
                        /\ press[b].spoils = 0 => press[b].keys = 1
                   /\ ~press[b].early
  BY DEF EachPressOnce
<1> DEFINE c == context[b]
           p == press[b]
<1>1. c \in Contexts /\ p \in Presses BY DEF KeysInv, KeysType
<1>2. Reported(c, p, b \in down) BY DEF KeysInv, Follows
<1> HIDE DEF c, p
<1>3. p.whole => /\ p.keys <= 1 + p.spoils
                 /\ p.seen /\ ~c.pressed /\ p.spoils = 0 => p.keys = 1
                 /\ ~p.early
  BY <1>1, <1>2 DEF Reported, Presses, Contexts
<1> QED BY <1>3 DEF c, p

(* Each press of a button is reported once, for any buttons, threshold and *)
(* size of the ring, wherever presses, ticks, reads and resets fall        *)
(* (KeypadDeviceLib.c:60-90).                                              *)
THEOREM PressOnce == KeysSpec => []EachPressOnce
BY KeysInitInv, KeysNextInv, KeysInvImplies, PTL DEF KeysSpec

-----------------------------------------------------------------------------
(* A step of the keys pushes, pops or clears, or leaves the ring alone.    *)
LEMMA KeysStep ==
  ASSUME KeysInv, [KeysNext]_keysVars
  PROVE [Next]_vars
<1>1. ASSUME NEW key \in Keys, NEW early, NEW spoils,
             Push(key, early, spoils)
      PROVE [Next]_vars
  BY <1>1 DEF Push, Next
<1>2. ASSUME UNCHANGED ringVars PROVE [Next]_vars
  BY <1>2 DEF ringVars, vars
<1>3. ASSUME todo # <<>> PROVE KeyOf[Button] \in Keys
  <2>1. Button \in Buttons BY <1>3 DEF KeysInv, KeysType, Button
  <2> QED BY <2>1, BarleyAssumption
<1>4. Escape \in Keys BY BarleyAssumption
<1>5. ASSUME NEW b \in Buttons, Press(b) \/ Release(b) PROVE [Next]_vars
  BY <1>2, <1>5 DEF Press, Release
<1>6. CASE Tick BY <1>2, <1>6 DEF Tick
<1>7. ASSUME NEW read \in BOOLEAN, KeypadTimerHandler(read)
      PROVE [Next]_vars
  BY <1>2, <1>7 DEF KeypadTimerHandler
<1>8. CASE SeesPress BY <1>2, <1>8 DEF SeesPress
<1>9. CASE SeesHeld BY <1>1, <1>2, <1>4, <1>9 DEF SeesHeld
<1>10. CASE SeesRelease BY <1>1, <1>2, <1>3, <1>10 DEF SeesRelease
<1>11. CASE ReadFails BY <1>1, <1>2, <1>3, <1>11 DEF ReadFails
<1>12. CASE ReadKeyStroke BY <1>12 DEF ReadKeyStroke, Next
<1>13. CASE InitKeypad BY <1>13 DEF InitKeypad, Next
<1>14. CASE UNCHANGED keysVars BY <1>2, <1>14 DEF keysVars
<1> QED
  BY <1>5, <1>6, <1>7, <1>8, <1>9, <1>10, <1>11, <1>12, <1>13, <1>14
  DEF KeysNext

(* With the polls as its producer the ring is still the queue of KeyQueue: *)
(* keys are read in the order in which presses were reported.              *)
THEOREM PollsQueue == KeysSpec => QueueSpec
<1>1. KeysInit => Init BY DEF KeysInit
<1>2. KeysSpec => Spec
  BY <1>1, KeysInitInv, KeysNextInv, KeysStep, PTL DEF KeysSpec, Spec
<1> QED BY <1>2, QueueTheorem
=============================================================================
