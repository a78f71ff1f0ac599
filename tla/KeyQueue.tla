------------------------------ MODULE KeyQueue ------------------------------
(***************************************************************************)
(* What EFI_KEY_QUEUE of KeypadDxe promises: keys come out in the order    *)
(* they went in, and a key pushed to a full queue costs the oldest one.    *)
(***************************************************************************)
EXTENDS Naturals, Sequences

CONSTANTS Keys, Capacity

VARIABLES
  queue,   \* the keys waiting, the oldest first
  last     \* the last call: a clear, the key pushed, the key popped if any

vars == <<queue, last>>

Init == queue = <<>> /\ last = <<"clear">>

(* The queue after a key is pushed. *)
Pushed(q, key) ==
  Append(IF Len(q) = Capacity THEN Tail(q) ELSE q, key)

Push(key) ==
  /\ queue' = Pushed(queue, key)
  /\ last' = <<"push", key>>

Pop ==
  \/ /\ queue = <<>>
     /\ last' = <<"pop">>
     /\ UNCHANGED queue
  \/ /\ queue # <<>>
     /\ last' = <<"pop", Head(queue)>>
     /\ queue' = Tail(queue)

Clear ==
  /\ queue' = <<>>
  /\ last' = <<"clear">>

Next == Pop \/ Clear \/ \E key \in Keys : Push(key)

Spec == Init /\ [][Next]_vars
=============================================================================
