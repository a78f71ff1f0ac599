------------------------- MODULE MCMt6358Regulator -------------------------
(* Every content of the two registers of the supply.  TOPSTATUS is only    *)
(* read: one content, which no write to the supply leaves, stands for all. *)
EXTENDS Mt6358Regulator

MCValues == SUBSET {"BIT0", "BIT2"}

MCInit == RegInit /\ regs["TOPSTATUS"] = {"BIT0", "BIT2"}

MCSpec == MCInit /\ [][RegNext]_regVars /\ RegFairness
=============================================================================
