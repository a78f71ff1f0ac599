---------------------------- MODULE MCBarleyKeys ----------------------------
(* The power button, over a ring of four slots: every position of Head and *)
(* Tail, full and empty, wrapped and not.                                  *)
EXTENDS BarleyKeys

MCScan == <<"power">>
MCKeyOf == [b \in Buttons |-> "CR"]
=============================================================================
