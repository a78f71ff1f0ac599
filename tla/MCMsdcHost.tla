---------------------------- MODULE MCMsdcHost ----------------------------
(* Small instance of MsdcHost: one packet of each class the engine treats  *)
(* differently.  A block is two FIFO fills, SD CMD6 less than one.         *)
EXTENDS MsdcHost

Pkt(index, type, resp, inLen, outLen) ==
  [index |-> index, type |-> type, resp |-> resp,
   inLen |-> inLen, outLen |-> outLen]

SendStatus == Pkt("OTHER", "Ac", "R1", 0, 0)
SwitchEmmc == Pkt("OTHER", "Ac", "R1b", 0, 0)
SwitchSd   == Pkt("OTHER", "Adtc", "R1", 1, 0)
ReadBlock  == Pkt("READ_SINGLE", "Adtc", "R1", 3, 0)
WriteBlock == Pkt("WRITE_SINGLE", "Adtc", "R1", 0, 3)
ReadMany   == Pkt("READ_MULTIPLE", "Adtc", "R1", 3, 0)
WriteMany  == Pkt("WRITE_MULTIPLE", "Adtc", "R1", 0, 3)
BadLength  == Pkt("WRITE_SINGLE", "Adtc", "R1", 0, 1)

MCPackets ==
  {SendStatus, SwitchEmmc, SwitchSd, ReadBlock, WriteBlock, ReadMany,
   WriteMany, BadLength}
=============================================================================
