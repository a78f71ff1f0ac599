----------------------------- MODULE MCMtkClock -----------------------------
(* A cut of the MT6768 table: the MSDC, AES-FDE and AXI branches with      *)
(* their PLLs, and one gate that has only a status register.  Fixed-factor *)
(* stages between two clocks are cut and a mux keeps its first inputs.     *)
(* TOP_AES_FDE_SEL has six inputs for its three bit selector, here one     *)
(* input fewer than selector values.                                       *)
EXTENDS MtkClock

Entry(type, parents) == [type |-> type, parents |-> parents]

Table ==
  [CLK26M          |-> Entry("Fixed", <<>>),
   AP_MSDCPLL      |-> Entry("Pll", <<"CLK26M">>),
   AP_MAINPLL      |-> Entry("Pll", <<"CLK26M">>),
   TOP_MSDCPLL     |-> Entry("Factors", <<"AP_MSDCPLL">>),
   TOP_MSDC30_1_SEL |-> Entry("MuxGate",
                              <<"CLK26M", "TOP_MSDCPLL", "AP_MAINPLL">>),
   TOP_AES_FDE_SEL |-> Entry("MuxGate", <<"CLK26M", "TOP_MSDCPLL">>),
   INFRA_MSDC1_SRC |-> Entry("Gate", <<"TOP_MSDC30_1_SEL">>),
   INFRA_FAES_FDE  |-> Entry("Gate", <<"TOP_AES_FDE_SEL">>),
   INFRA_TOPAXI_DISABLE |-> Entry("Gate", <<"AP_MAINPLL">>)]

MCClock    == DOMAIN Table
MCType     == [c \in MCClock |-> Table[c].type]
MCParents  == [c \in MCClock |-> Table[c].parents]
=============================================================================
