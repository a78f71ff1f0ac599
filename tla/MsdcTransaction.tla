-------------------------- MODULE MsdcTransaction --------------------------
(***************************************************************************)
(* What EFI_SD_MMC_PASS_THRU promises the bus drivers stacked on MsdcDxe:  *)
(* one request at a time; the units of a transfer move in order, each at   *)
(* most once; and a request reports success only when all of them moved.   *)
(* A request that reports an error promises nothing about how many units   *)
(* moved, and what its data phase had already handed to the wire may still *)
(* arrive after the error was returned.                                    *)
(*                                                                         *)
(* MsdcHost, the register-level command engine, is checked to implement    *)
(* this specification.                                                     *)
(***************************************************************************)
EXTENDS Naturals

VARIABLES
  busy,      \* is a request inside MsdcPassThru?
  length,    \* units the current (or last) request transfers
  moved,     \* how many of them moved so far
  result     \* "success" or "error" of the last completed request

absVars == <<busy, length, moved, result>>

Init ==
  /\ busy = FALSE
  /\ length = 0
  /\ moved = 0
  /\ result = "error"

Submit ==
  /\ ~busy
  /\ busy' = TRUE
  /\ length' \in Nat
  /\ moved' = 0
  /\ result' = "error"

(* A malformed packet is refused before anything moves. *)
Refuse ==
  /\ ~busy
  /\ length' \in Nat
  /\ moved' = 0
  /\ result' = "error"
  /\ UNCHANGED busy

Move ==
  /\ busy \/ result = "error"
  /\ moved' \in (moved + 1) .. length
  /\ UNCHANGED <<busy, length, result>>

(* The last units may move in the step that completes the request. *)
Complete ==
  /\ busy
  /\ busy' = FALSE
  /\ moved' \in moved .. length
  /\ result' \in {"error"} \cup (IF moved' = length THEN {"success"} ELSE {})
  /\ UNCHANGED length

Next == Submit \/ Refuse \/ Move \/ Complete

Spec == Init /\ [][Next]_absVars
=============================================================================
