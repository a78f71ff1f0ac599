--------------------------- MODULE MCMsdcBringUp ---------------------------
(* The two hosts of the Lenovo barley: eMMC on host 0, microSD on host 1,  *)
(* over the part of the MT6768 clock tree they run from.  Fixed-factor     *)
(* stages are cut and a mux keeps one input besides the oscillator.        *)
EXTENDS MsdcBringUp

Entry(type, parents) == [type |-> type, parents |-> parents]
Mux(pll) == Entry("MuxGate", <<"CLK26M", pll>>)

Table ==
  [CLK26M               |-> Entry("Fixed", <<>>),
   AP_MSDCPLL           |-> Entry("Pll", <<"CLK26M">>),
   AP_MAINPLL           |-> Entry("Pll", <<"CLK26M">>),
   TOP_AXI_SEL          |-> Mux("AP_MAINPLL"),
   TOP_MSDC50_0_HCLK_SEL |-> Mux("AP_MAINPLL"),
   TOP_MSDC50_0_SEL     |-> Mux("AP_MSDCPLL"),
   TOP_MSDC30_1_SEL     |-> Mux("AP_MSDCPLL"),
   TOP_AES_FDE_SEL      |-> Mux("AP_MSDCPLL"),
   INFRA_MSDC0          |-> Entry("Gate", <<"TOP_MSDC50_0_HCLK_SEL">>),
   INFRA_MSDC1          |-> Entry("Gate", <<"TOP_AXI_SEL">>),
   INFRA_MSDC0_SRC      |-> Entry("Gate", <<"TOP_MSDC50_0_SEL">>),
   INFRA_MSDC1_SRC      |-> Entry("Gate", <<"TOP_MSDC30_1_SEL">>),
   INFRA_FAES_FDE       |-> Entry("Gate", <<"TOP_AES_FDE_SEL">>)]

MCClock   == DOMAIN Table
MCType    == [c \in MCClock |-> Table[c].type]
MCParents == [c \in MCClock |-> Table[c].parents]
MCSel     == [c \in {x \in MCClock : Table[x].type = "MuxGate"} |-> 1]
MCHostClocks ==
  [h \in {0, 1} |-> IF h = 0 THEN <<"TOP_MSDC50_0_SEL", "INFRA_MSDC0">>
                    ELSE <<"TOP_MSDC30_1_SEL", "INFRA_MSDC1">>]
MCSourceClocks ==
  [h \in {0, 1} |-> IF h = 0 THEN <<"INFRA_FAES_FDE", "INFRA_MSDC0_SRC">>
                    ELSE <<"INFRA_MSDC1_SRC">>]
MCFullWidth == [h \in {0, 1} |-> IF h = 0 THEN 8 ELSE 4]
=============================================================================
