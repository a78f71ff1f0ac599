---------------------------- MODULE MCUfsDriver ----------------------------
(* Two units of which the first is enabled, two blocks, one-block chunks. *)
EXTENDS UfsDriver

MCEnabledLuns == {0}
=============================================================================
