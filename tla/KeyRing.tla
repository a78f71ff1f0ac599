------------------------------ MODULE KeyRing ------------------------------
(***************************************************************************)
(* EFI_KEY_QUEUE of KeypadDxe as it is stored: a ring of N slots of which  *)
(* one is always unused, with the indices Head and Tail                    *)
(* (KeypadTextIn.c:30-85).                                                 *)
(***************************************************************************)
EXTENDS Naturals, Sequences

CONSTANTS
  Keys,      \* what a slot may hold
  NullKey,   \* the zeroed EFI_KEY_DATA
  N          \* KEYPAD_EFI_KEY_MAX_COUNT

ASSUME RingAssumption == N \in Nat /\ N > 1 /\ NullKey \in Keys

VARIABLES
  head,    \* the slot popped next
  tail,    \* the slot pushed to next
  buffer,  \* the key each slot holds
  last     \* the last call, as in KeyQueue

vars == <<head, tail, buffer, last>>

Slots == 0 .. N - 1

TypeOK ==
  /\ head \in Slots
  /\ tail \in Slots
  /\ buffer \in [Slots -> Keys]
  /\ last \in {<<"clear">>, <<"pop">>} \cup ({"push", "pop"} \X Keys)

Init ==
  /\ head = 0
  /\ tail = 0
  /\ buffer = [s \in Slots |-> NullKey]
  /\ last = <<"clear">>

After(slot) == (slot + 1) % N

IsEfikeyBufEmpty == head = tail

FullNever == FALSE
Full == After(tail) = head

(* A key pushed to a full ring pops the one at the head first. *)
PushEfikeyBufTail(key) ==
  /\ head' = IF Full THEN After(head) ELSE head
  /\ buffer' = [buffer EXCEPT ![tail] = key]
  /\ tail' = After(tail)
  /\ last' = <<"push", key>>

PopEfikeyBufHead ==
  /\ IF IsEfikeyBufEmpty
     THEN /\ last' = <<"pop">>
          /\ UNCHANGED head
     ELSE /\ last' = <<"pop", buffer[head]>>
          /\ head' = After(head)
  /\ UNCHANGED <<tail, buffer>>

(* InitKeypad: both indices start again, the slots keep what they hold. *)
Clear ==
  /\ head' = 0
  /\ tail' = 0
  /\ last' = <<"clear">>
  /\ UNCHANGED buffer

Next ==
  PopEfikeyBufHead \/ Clear \/ \E key \in Keys : PushEfikeyBufTail(key)

Spec == Init /\ [][Next]_vars

-----------------------------------------------------------------------------
Size == IF tail >= head THEN tail - head ELSE tail + N - head

(* The slot of the i-th key waiting. *)
SlotOf(i) == IF head + i - 1 < N THEN head + i - 1 ELSE head + i - 1 - N

Contents == [i \in 1 .. Size |-> buffer[SlotOf(i)]]

Queue == INSTANCE KeyQueue WITH queue <- Contents, Capacity <- N - 1

(* The ring is a first-in first-out queue of N - 1 keys that gives up the  *)
(* oldest key when it is full (KeypadTextIn.c:76-84).                      *)
QueueSpec == Queue!Spec
=============================================================================
