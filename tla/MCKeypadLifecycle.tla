------------------------- MODULE MCKeypadLifecycle -------------------------
(* Three starts, each of which may fail at any step. *)
EXTENDS KeypadLifecycle
=============================================================================
