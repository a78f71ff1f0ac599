---------------------------- MODULE Mt6768Clocks ----------------------------
(* gClocks of the MT6768 ClockImplLib: its 215 clocks, in the order and    *)
(* groups of the source; gates are grouped by their registers.  A field an *)
(* entry leaves out is zero, and the clock with id 0 is TOP_F_FRTC.        *)
EXTENDS ClockEntries, TLC

Inputs1 ==
  [TopAxiSelParents |->
     <<"TOP_CLK26M", "TOP_SYSPLL_D7", "TOP_SYSPLL1_D4", "TOP_SYSPLL3_D2">>,
   TopMemSelParents |->
     <<"TOP_CLK26M", "TOP_DMPLL", "TOP_APLL1">>,
   TopMmSelParents |->
     <<"TOP_CLK26M", "TOP_MMPLL", "TOP_SYSPLL1_D2", "TOP_SYSPLL_D5",
       "TOP_SYSPLL1_D4", "TOP_UNIVPLL_D5", "TOP_UNIVPLL1_D2",
       "TOP_MMPLL_D2">>,
   TopScpSelParents |->
     <<"TOP_CLK26M", "TOP_SYSPLL4_D2", "TOP_UNIVPLL2_D2", "TOP_SYSPLL1_D2",
       "TOP_UNIVPLL1_D2", "TOP_SYSPLL_D3", "TOP_UNIVPLL_D3">>,
   TopMfgSelParents |->
     <<"TOP_CLK26M", "TOP_MFGPLL", "TOP_SYSPLL_D3", "TOP_UNIVPLL_D3">>,
   TopAtbSelParents |->
     <<"TOP_CLK26M", "TOP_SYSPLL1_D4", "TOP_SYSPLL1_D2">>,
   TopCamTgSelParents |->
     <<"TOP_CLK26M", "TOP_USB20_192M_D8", "TOP_UNIVPLL2_D8",
       "TOP_USB20_192M_D4", "TOP_UNIVPLL2_D32", "TOP_USB20_192M_D16",
       "TOP_USB20_192M_D32">>,
   TopUartSelParents |->
     <<"TOP_CLK26M", "TOP_UNIVPLL2_D8">>,
   TopSpiSelParents |->
     <<"TOP_CLK26M", "TOP_SYSPLL3_D2", "TOP_SYSPLL4_D2", "TOP_SYSPLL2_D4">>,
   TopMsdc50HclkSelParents |->
     <<"TOP_CLK26M", "TOP_SYSPLL1_D2", "TOP_UNIVPLL1_D4", "TOP_SYSPLL2_D2">>,
   TopMsdc50SelParents |->
     <<"TOP_CLK26M", "TOP_MSDCPLL", "TOP_SYSPLL2_D2", "TOP_SYSPLL4_D2",
       "TOP_UNIVPLL1_D2", "TOP_SYSPLL1_D2", "TOP_UNIVPLL_D5",
       "TOP_UNIVPLL1_D4">>,
   TopMsdc30SelParents |->
     <<"TOP_CLK26M", "TOP_MSDCPLL_D2", "TOP_UNIVPLL2_D2", "TOP_SYSPLL2_D2",
       "TOP_SYSPLL1_D4", "TOP_UNIVPLL1_D4", "TOP_USB20_192M_D4",
       "TOP_SYSPLL2_D4">>,
   TopAudioSelParents |->
     <<"TOP_CLK26M", "TOP_SYSPLL3_D4", "TOP_SYSPLL4_D4", "TOP_SYSPLL1_D16">>,
   TopAudIntBusSelParents |->
     <<"TOP_CLK26M", "TOP_SYSPLL1_D4", "TOP_SYSPLL4_D2">>,
   TopAud1SelParents |->
     <<"TOP_CLK26M", "TOP_APLL1">>,
   TopAudEngEn1SelParents |->
     <<"TOP_CLK26M", "TOP_APLL1_D2", "TOP_APLL1_D4", "TOP_APLL1_D8">>,
   TopSSPMSelParents |->
     <<"TOP_CLK26M", "TOP_SYSPLL1_D2", "TOP_SYSPLL_D3">>,
   TopDXCCSelParents |->
     <<"TOP_CLK26M", "TOP_SYSPLL1_D2", "TOP_SYSPLL1_D4", "TOP_SYSPLL1_D8">>,
   TopUSBTopSelParents |->
     <<"TOP_CLK26M", "TOP_UNIVPLL3_D4">>,
   TopSpmSelParents |->
     <<"TOP_CLK26M", "TOP_SYSPLL1_D8">>]

Inputs2 ==
  [TopI2CSelParents |->
     <<"TOP_CLK26M", "TOP_UNIVPLL3_D4", "TOP_UNIVPLL3_D2",
       "TOP_SYSPLL1_D8", "TOP_SYSPLL2_D8">>,
   TopPwmSelParents |->
     <<"TOP_CLK26M", "TOP_UNIVPLL3_D4", "TOP_SYSPLL1_D8">>,
   TopSeninfSelParents |->
     <<"TOP_CLK26M", "TOP_UNIVPLL1_D4", "TOP_UNIVPLL1_D2",
       "TOP_UNIVPLL2_D2">>,
   TopAesFdeSelParents |->
     <<"TOP_CLK26M", "TOP_MSDCPLL", "TOP_UNIVPLL_D3", "TOP_UNIVPLL2_D2",
       "TOP_UNIVPLL1_D2", "TOP_SYSPLL1_D2">>,
   TopCamTmSelParents |->
     <<"TOP_CLK26M", "TOP_UNIVPLL1_D4", "TOP_UNIVPLL1_D2",
       "TOP_UNIVPLL2_D2">>,
   TopVencSelParents |->
     <<"TOP_CLK26M", "TOP_MMPLL", "TOP_SYSPLL1_D2", "TOP_SYSPLL_D5",
       "TOP_SYSPLL1_D4", "TOP_SYSPLL_D3", "TOP_UNIVPLL_D3",
       "TOP_UNIVPLL1_D2">>,
   TopCamSelParents |->
     <<"TOP_CLK26M", "TOP_SYSPLL_D2", "TOP_SYSPLL1_D2", "TOP_SYSPLL_D5",
       "TOP_MMPLL", "TOP_UNIVPLL_D5", "TOP_UNIVPLL1_D2", "TOP_MMPLL_D2">>]

Inputs == Inputs1 @@ Inputs2

Selects(t) ==
  [c \in DOMAIN t |-> Mux(t[c][1], t[c][2], t[c][3], t[c][4], t[c][5],
                          t[c][6], Inputs[t[c][7]])]

(* Mutant: the RTC clock has a parent, the zero an entry may leave out. *)
FixedClocksFed ==
  [TOP_F_FRTC |-> Factor("TOP_F_FRTC", 1, 1),
   TOP_CLK26M |-> Fixed,
   TOP_DMPLL |-> Fixed]

FixedClocks ==
  [TOP_F_FRTC |-> Fixed,
   TOP_CLK26M |-> Fixed,
   TOP_DMPLL |-> Fixed]

Plls1 ==
  [AP_ARMPLL |->
     Pll(\h208, \h214, FALSE, \h20C, \h20C, 22, 8, "TOP_CLK26M"),
   AP_ARMPLL_L |->
     Pll(\h218, \h224, FALSE, \h21C, \h21C, 22, 8, "TOP_CLK26M"),
   AP_CCIPLL |->
     Pll(\h228, \h234, FALSE, \h22C, \h22C, 22, 8, "TOP_CLK26M"),
   AP_UNIV2PLL |->
     Pll(\h238, \h244, TRUE, \h23C, \h23C, 22, 8, "TOP_CLK26M"),
   AP_MFGPLL |->
     Pll(\h248, \h254, TRUE, \h24C, \h24C, 22, 8, "TOP_CLK26M"),
   AP_MAINPLL |->
     Pll(\h258, \h264, FALSE, \h25C, \h25C, 22, 8, "TOP_CLK26M")]

Plls2 ==
  [AP_APLL1 |->
     Pll(\h308, \h318, TRUE, \h30C, \h310, 32, 0, "TOP_F_FRTC"),
   AP_MMPLL |->
     Pll(\h31C, \h328, TRUE, \h320, \h320, 22, 8, "TOP_CLK26M"),
   AP_MPLL |->
     Pll(\h32C, \h338, FALSE, \h330, \h330, 22, 8, "TOP_CLK26M"),
   AP_MSDCPLL |->
     Pll(\h33C, \h348, TRUE, \h340, \h340, 22, 8, "TOP_CLK26M")]

Muxes40 ==
  Selects(
  [TOP_AXI_SEL |->
     <<\h40, 0, 2, 7, \h4, 0, "TopAxiSelParents">>,
   TOP_MEM_SEL |->
     <<\h40, 8, 2, 15, \h4, 1, "TopMemSelParents">>,
   TOP_MM_SEL |->
     <<\h40, 16, 3, 23, \h4, 2, "TopMmSelParents">>,
   TOP_SCP_SEL |->
     <<\h40, 24, 3, 31, \h4, 3, "TopScpSelParents">>,
   TOP_MFG_SEL |->
     <<\h50, 0, 2, 7, \h4, 4, "TopMfgSelParents">>,
   TOP_ATB_SEL |->
     <<\h50, 8, 2, 15, \h4, 5, "TopAtbSelParents">>,
   TOP_CAMTG_SEL |->
     <<\h50, 16, 3, 23, \h4, 6, "TopCamTgSelParents">>])

Muxes50 ==
  Selects(
  [TOP_CAMTG1_SEL |->
     <<\h50, 24, 3, 31, \h4, 7, "TopCamTgSelParents">>,
   TOP_CAMTG2_SEL |->
     <<\h60, 0, 3, 7, \h4, 8, "TopCamTgSelParents">>,
   TOP_CAMTG3_SEL |->
     <<\h60, 8, 3, 15, \h4, 9, "TopCamTgSelParents">>,
   TOP_UART_SEL |->
     <<\h60, 16, 1, 23, \h4, 10, "TopUartSelParents">>,
   TOP_SPI_SEL |->
     <<\h60, 24, 2, 31, \h4, 11, "TopSpiSelParents">>])

Muxes70 ==
  Selects(
  [TOP_MSDC50_0_HCLK_SEL |->
     <<\h70, 0, 2, 7, \h4, 12, "TopMsdc50HclkSelParents">>,
   TOP_MSDC50_0_SEL |->
     <<\h70, 8, 3, 15, \h4, 13, "TopMsdc50SelParents">>,
   TOP_MSDC30_1_SEL |->
     <<\h70, 16, 3, 23, \h4, 14, "TopMsdc30SelParents">>,
   TOP_AUDIO_SEL |->
     <<\h70, 24, 2, 31, \h4, 15, "TopAudioSelParents">>,
   TOP_AUD_INTBUS_SEL |->
     <<\h80, 0, 2, 7, \h4, 16, "TopAudIntBusSelParents">>,
   TOP_AUD_1_SEL |->
     <<\h80, 8, 1, 15, \h4, 17, "TopAud1SelParents">>,
   TOP_AUD_ENGEN1_SEL |->
     <<\h80, 16, 2, 23, \h4, 18, "TopAudEngEn1SelParents">>])

Muxes90 ==
  Selects(
  [TOP_SSPM_SEL |->
     <<\h90, 0, 2, 7, \h4, 20, "TopSSPMSelParents">>,
   TOP_DXCC_SEL |->
     <<\h90, 8, 2, 15, \h4, 21, "TopDXCCSelParents">>,
   TOP_USB_TOP_SEL |->
     <<\h90, 16, 1, 23, \h4, 22, "TopUSBTopSelParents">>,
   TOP_SPM_SEL |->
     <<\h90, 24, 1, 31, \h4, 23, "TopSpmSelParents">>,
   TOP_I2C_SEL |->
     <<\hA0, 0, 3, 7, \h4, 24, "TopI2CSelParents">>,
   TOP_PWM_SEL |->
     <<\hA0, 8, 2, 15, \h4, 25, "TopPwmSelParents">>,
   TOP_SENINF_SEL |->
     <<\hA0, 16, 2, 23, \h4, 26, "TopSeninfSelParents">>])

MuxesA0 ==
  Selects(
  [TOP_AES_FDE_SEL |->
     <<\hA0, 24, 3, 31, \h4, 27, "TopAesFdeSelParents">>,
   TOP_CAMTM_SEL |->
     <<\hB0, 8, 2, 15, \h4, 29, "TopCamTmSelParents">>,
   TOP_VENC_SEL |->
     <<\hB0, 16, 3, 23, \h4, 30, "TopVencSelParents">>,
   TOP_CAM_SEL |->
     <<\hB0, 24, 3, 31, \h4, 31, "TopCamSelParents">>])

Factors1 ==
  [TOP_CLK13M |-> Factor("TOP_CLK26M", 1, 2),
   TOP_SYSPLL |-> Factor("AP_MAINPLL", 1, 1),
   TOP_SYSPLL_D2 |-> Factor("AP_MAINPLL", 1, 2),
   TOP_SYSPLL1_D2 |-> Factor("TOP_SYSPLL_D2", 1, 2),
   TOP_SYSPLL1_D4 |-> Factor("TOP_SYSPLL_D2", 1, 4),
   TOP_SYSPLL1_D8 |-> Factor("TOP_SYSPLL_D2", 1, 8),
   TOP_SYSPLL1_D16 |-> Factor("TOP_SYSPLL_D2", 1, 16),
   TOP_SYSPLL_D3 |-> Factor("AP_MAINPLL", 1, 3),
   TOP_SYSPLL2_D2 |-> Factor("TOP_SYSPLL_D3", 1, 2),
   TOP_SYSPLL2_D4 |-> Factor("TOP_SYSPLL_D3", 1, 4),
   TOP_SYSPLL2_D8 |-> Factor("TOP_SYSPLL_D3", 1, 8),
   TOP_SYSPLL_D5 |-> Factor("AP_MAINPLL", 1, 5),
   TOP_SYSPLL3_D2 |-> Factor("TOP_SYSPLL_D5", 1, 2)]

Factors2 ==
  [TOP_SYSPLL3_D4 |-> Factor("TOP_SYSPLL_D5", 1, 4),
   TOP_SYSPLL_D7 |-> Factor("AP_MAINPLL", 1, 7),
   TOP_SYSPLL4_D2 |-> Factor("TOP_SYSPLL_D7", 1, 2),
   TOP_SYSPLL4_D4 |-> Factor("TOP_SYSPLL_D7", 1, 4),
   TOP_USB20_192M |-> Factor("TOP_UNIVPLL", 2, 13),
   TOP_USB20_192M_D4 |-> Factor("TOP_USB20_192M", 1, 4),
   TOP_USB20_192M_D8 |-> Factor("TOP_USB20_192M", 1, 8),
   TOP_USB20_192M_D16 |-> Factor("TOP_USB20_192M", 1, 16),
   TOP_USB20_192M_D32 |-> Factor("TOP_USB20_192M", 1, 32),
   TOP_UNIVPLL |-> Factor("AP_UNIV2PLL", 1, 2),
   TOP_UNIVPLL_D2 |-> Factor("TOP_UNIVPLL", 1, 2),
   TOP_UNIVPLL1_D2 |-> Factor("TOP_UNIVPLL_D2", 1, 2),
   TOP_UNIVPLL1_D4 |-> Factor("TOP_UNIVPLL_D2", 1, 4)]

Factors3 ==
  [TOP_UNIVPLL_D3 |-> Factor("TOP_UNIVPLL", 1, 3),
   TOP_UNIVPLL2_D2 |-> Factor("TOP_UNIVPLL_D3", 1, 2),
   TOP_UNIVPLL2_D4 |-> Factor("TOP_UNIVPLL_D3", 1, 4),
   TOP_UNIVPLL2_D8 |-> Factor("TOP_UNIVPLL_D3", 1, 8),
   TOP_UNIVPLL2_D32 |-> Factor("TOP_UNIVPLL_D3", 1, 32),
   TOP_UNIVPLL_D5 |-> Factor("TOP_UNIVPLL", 1, 5),
   TOP_UNIVPLL3_D2 |-> Factor("TOP_UNIVPLL_D5", 1, 2),
   TOP_UNIVPLL3_D4 |-> Factor("TOP_UNIVPLL_D5", 1, 4),
   TOP_MMPLL |-> Factor("AP_MMPLL", 1, 1),
   TOP_MMPLL_D2 |-> Factor("TOP_MMPLL", 1, 2),
   TOP_MPLL |-> Factor("AP_MPLL", 1, 1),
   TOP_DA_MPLL_104M_DIV |-> Factor("TOP_MPLL", 1, 2),
   TOP_DA_MPLL_52M_DIV |-> Factor("TOP_MPLL", 1, 4)]

Factors4 ==
  [TOP_MFGPLL |-> Factor("AP_MFGPLL", 1, 1),
   TOP_MSDCPLL |-> Factor("AP_MSDCPLL", 1, 1),
   TOP_MSDCPLL_D2 |-> Factor("TOP_MSDCPLL", 1, 2),
   TOP_APLL1 |-> Factor("AP_APLL1", 1, 1),
   TOP_APLL1_D2 |-> Factor("TOP_APLL1", 1, 2),
   TOP_APLL1_D4 |-> Factor("TOP_APLL1", 1, 4),
   TOP_APLL1_D8 |-> Factor("TOP_APLL1", 1, 8),
   TOP_F_F26M |-> Factor("TOP_CLK26M", 1, 1),
   TOP_AXI |-> Factor("TOP_AXI_SEL", 1, 1),
   TOP_MM |-> Factor("TOP_MM_SEL", 1, 1),
   TOP_SCP |-> Factor("TOP_SCP_SEL", 1, 1),
   TOP_MFG |-> Factor("TOP_MFG_SEL", 1, 1),
   TOP_F_FUART |-> Factor("TOP_UART_SEL", 1, 1)]

Factors5 ==
  [TOP_SPI |-> Factor("TOP_SPI_SEL", 1, 1),
   TOP_MSDC50_0_HCLK |-> Factor("TOP_MSDC50_0_HCLK_SEL", 1, 1),
   TOP_MSDC50_0 |-> Factor("TOP_MSDC50_0_SEL", 1, 1),
   TOP_MSDC30_1 |-> Factor("TOP_MSDC30_1_SEL", 1, 1),
   TOP_AUDIO |-> Factor("TOP_AUDIO_SEL", 1, 1),
   TOP_AUD_1 |-> Factor("TOP_AUD_1_SEL", 1, 1),
   TOP_AUD_ENGEN1 |-> Factor("TOP_AUD_ENGEN1_SEL", 1, 1),
   TOP_SSPM |-> Factor("TOP_SSPM_SEL", 1, 1),
   TOP_DXCC |-> Factor("TOP_DXCC_SEL", 1, 1),
   TOP_I2C |-> Factor("TOP_I2C_SEL", 1, 1),
   TOP_F_FPWM |-> Factor("TOP_PWM_SEL", 1, 1),
   TOP_F_FSENINF |-> Factor("TOP_SENINF_SEL", 1, 1),
   TOP_AES_FDE |-> Factor("TOP_AES_FDE_SEL", 1, 1)]

Factors6 ==
  [TOP_VENC |-> Factor("TOP_VENC_SEL", 1, 1),
   TOP_CAM |-> Factor("TOP_CAM_SEL", 1, 1),
   TOP_F_BIST2FPC |-> Factor("TOP_UNIVPLL2_D2", 1, 1),
   TOP_ARMPLL_DIVIDER_PLL0 |-> Factor("TOP_SYSPLL_D2", 1, 1),
   TOP_ARMPLL_DIVIDER_PLL1 |-> Factor("TOP_SYSPLL", 1, 1),
   TOP_ARMPLL_DIVIDER_PLL2 |-> Factor("TOP_UNIVPLL_D2", 1, 1),
   TOP_DA_USB20_48M_DIV |-> Factor("TOP_USB20_192M_D4", 1, 1),
   TOP_DA_UNIV_48M_DIV |-> Factor("TOP_USB20_192M_D4", 1, 1)]

TopGates0 ==
  Gates("TopCkGen", \h0, \h0, \h0, FALSE,
  [TOP_MD_32K |-> <<8, "TOP_F_FRTC">>,
   TOP_MD_26M |-> <<9, "TOP_F_F26M">>,
   TOP_MD2_32K |-> <<10, "TOP_F_FRTC">>,
   TOP_MD2_26M |-> <<11, "TOP_F_F26M">>])

TopGates104 ==
  Gates("TopCkGen", \h104, \h104, \h104, TRUE,
  [TOP_ARMPLL_DIVIDER_PLL0_EN |-> <<3, "TOP_ARMPLL_DIVIDER_PLL0">>,
   TOP_ARMPLL_DIVIDER_PLL1_EN |-> <<4, "TOP_ARMPLL_DIVIDER_PLL1">>,
   TOP_ARMPLL_DIVIDER_PLL2_EN |-> <<5, "TOP_ARMPLL_DIVIDER_PLL2">>,
   TOP_FMEM_OCC_DRC_EN |-> <<6, "TOP_UNIVPLL2_D2">>,
   TOP_USB20_48M_EN |-> <<8, "TOP_DA_USB20_48M_DIV">>,
   TOP_UNIVPLL_48M_EN |-> <<9, "TOP_DA_UNIV_48M_DIV">>,
   TOP_MPLL_104M_EN |-> <<10, "TOP_DA_MPLL_104M_DIV">>,
   TOP_MPLL_52M_EN |-> <<11, "TOP_DA_MPLL_52M_DIV">>,
   TOP_F_UFS_MP_SAP_CFG_EN |-> <<12, "TOP_F_F26M">>,
   TOP_F_BIST2FPC_EN |-> <<16, "TOP_F_BIST2FPC">>])

InfraGates200 ==
  Gates("InfraCfgAo", \h200, \h200, \h200, TRUE,
  [INFRA_TOPAXI_DISABLE |-> <<31, "TOP_AXI">>])

InfraGates74 ==
  Gates("InfraCfgAo", \h74, \h74, \h74, FALSE,
  [INFRA_PERI_DCM_RG_FORCE_CLKOFF |-> <<2, "TOP_AXI">>])

InfraGates80 ==
  Gates("InfraCfgAo", \h80, \h84, \h90, FALSE,
  [INFRA_PMIC_TMR |-> <<0, "TOP_F_F26M">>,
   INFRA_PMIC_AP |-> <<1, "TOP_F_F26M">>,
   INFRA_PMIC_MD |-> <<2, "TOP_F_F26M">>,
   INFRA_PMIC_CONN |-> <<3, "TOP_F_F26M">>,
   INFRA_SCP_CORE |-> <<4, "TOP_SCP">>,
   INFRA_SEJ |-> <<5, "TOP_AXI">>,
   INFRA_APXGPT |-> <<6, "TOP_AXI">>,
   INFRA_ICUSB |-> <<8, "TOP_AXI">>,
   INFRA_GCE |-> <<9, "TOP_AXI">>,
   INFRA_THERM |-> <<10, "TOP_AXI">>])

InfraGates80b ==
  Gates("InfraCfgAo", \h80, \h84, \h90, FALSE,
  [INFRA_I2C_AP |-> <<11, "TOP_I2C">>,
   INFRA_I2C_CCU |-> <<12, "TOP_I2C">>,
   INFRA_I2C_SSPM |-> <<13, "TOP_I2C">>,
   INFRA_I2C_RSV |-> <<14, "TOP_I2C">>,
   INFRA_PWM_HCLK |-> <<15, "TOP_AXI">>,
   INFRA_PWM1 |-> <<16, "TOP_F_FPWM">>,
   INFRA_PWM2 |-> <<17, "TOP_F_FPWM">>,
   INFRA_PWM3 |-> <<18, "TOP_F_FPWM">>,
   INFRA_PWM4 |-> <<19, "TOP_F_FPWM">>,
   INFRA_PWM5 |-> <<20, "TOP_F_FPWM">>])

InfraGates80c ==
  Gates("InfraCfgAo", \h80, \h84, \h90, FALSE,
  [INFRA_PWM |-> <<21, "TOP_F_FPWM">>,
   INFRA_UART0 |-> <<22, "TOP_F_FUART">>,
   INFRA_UART1 |-> <<23, "TOP_F_FUART">>,
   INFRA_GCE_26M |-> <<27, "TOP_F_F26M">>,
   INFRA_CQ_DMA_FPC |-> <<28, "TOP_AXI">>,
   INFRA_BTIF |-> <<31, "TOP_AXI">>])

InfraGates88 ==
  Gates("InfraCfgAo", \h88, \h8C, \h94, FALSE,
  [INFRA_SPI0 |-> <<1, "TOP_SPI">>,
   INFRA_MSDC0 |-> <<2, "TOP_MSDC50_0_HCLK">>,
   INFRA_MSDC1 |-> <<4, "TOP_AXI">>,
   INFRA_DVFSRC |-> <<7, "TOP_F_F26M">>,
   INFRA_GCPU |-> <<8, "TOP_AXI">>,
   INFRA_TRNG |-> <<9, "TOP_AXI">>,
   INFRA_AUXADC |-> <<10, "TOP_F_F26M">>,
   INFRA_CPUM |-> <<11, "TOP_AXI">>,
   INFRA_CCIF1_AP |-> <<12, "TOP_AXI">>,
   INFRA_CCIF1_MD |-> <<13, "TOP_AXI">>])

InfraGates88b ==
  Gates("InfraCfgAo", \h88, \h8C, \h94, FALSE,
  [INFRA_AUXADC_MD |-> <<14, "TOP_F_F26M">>,
   INFRA_AP_DMA |-> <<18, "TOP_AXI">>,
   INFRA_XIU |-> <<19, "TOP_AXI">>,
   INFRA_DEVICE_APC |-> <<20, "TOP_AXI">>,
   INFRA_CCIF_AP |-> <<23, "TOP_AXI">>,
   INFRA_DEBUGTOP |-> <<24, "TOP_AXI">>,
   INFRA_AUDIO |-> <<25, "TOP_AXI">>,
   INFRA_CCIF_MD |-> <<26, "TOP_AXI">>,
   INFRA_DXCC_SEC_CORE |-> <<27, "TOP_DXCC">>,
   INFRA_DXCC_AO |-> <<28, "TOP_DXCC">>])

InfraGates88c ==
  Gates("InfraCfgAo", \h88, \h8C, \h94, FALSE,
  [INFRA_DRAMC_F26M |-> <<31, "TOP_F_F26M">>])

InfraGatesA4 ==
  Gates("InfraCfgAo", \hA4, \hA8, \hAC, FALSE,
  [INFRA_RG_PWM_FBCLK6 |-> <<0, "TOP_F_F26M">>,
   INFRA_CLDMA_BCLK |-> <<3, "TOP_AXI">>,
   INFRA_AUDIO_26M_BCLK |-> <<4, "TOP_F_F26M">>,
   INFRA_SPI1 |-> <<6, "TOP_SPI">>,
   INFRA_I2C4 |-> <<7, "TOP_I2C">>,
   INFRA_MODEM_TEMP_SHARE |-> <<8, "TOP_F_F26M">>,
   INFRA_SPI2 |-> <<9, "TOP_SPI">>,
   INFRA_SPI3 |-> <<10, "TOP_SPI">>,
   INFRA_SSPM |-> <<15, "TOP_SSPM">>,
   INFRA_I2C5 |-> <<18, "TOP_I2C">>])

InfraGatesA4b ==
  Gates("InfraCfgAo", \hA4, \hA8, \hAC, FALSE,
  [INFRA_I2C5_ARBITER |-> <<19, "TOP_I2C">>,
   INFRA_I2C5_IMM |-> <<20, "TOP_I2C">>,
   INFRA_I2C1_ARBITER |-> <<21, "TOP_I2C">>,
   INFRA_I2C1_IMM |-> <<22, "TOP_I2C">>,
   INFRA_I2C2_ARBITER |-> <<23, "TOP_I2C">>,
   INFRA_I2C2_IMM |-> <<24, "TOP_I2C">>,
   INFRA_SPI4 |-> <<25, "TOP_SPI">>,
   INFRA_SPI5 |-> <<26, "TOP_SPI">>,
   INFRA_CQ_DMA |-> <<27, "TOP_AXI">>,
   INFRA_FAES_FDE |-> <<29, "TOP_AES_FDE">>])

InfraGatesC0 ==
  Gates("InfraCfgAo", \hC0, \hC4, \hC8, FALSE,
  [INFRA_MSDC0_SELF |-> <<0, "TOP_MSDC50_0">>,
   INFRA_MSDC1_SELF |-> <<1, "TOP_MSDC50_0">>,
   INFRA_SSPM_26M_SELF |-> <<3, "TOP_F_F26M">>,
   INFRA_SSPM_32K_SELF |-> <<4, "TOP_F_FRTC">>,
   INFRA_I2C6 |-> <<6, "TOP_I2C">>,
   INFRA_AP_MSDC0 |-> <<7, "TOP_MSDC50_0">>,
   INFRA_MD_MSDC0 |-> <<8, "TOP_MSDC50_0">>,
   INFRA_MSDC0_SRC |-> <<9, "TOP_MSDC50_0">>,
   INFRA_MSDC1_SRC |-> <<10, "TOP_MSDC30_1">>,
   INFRA_SEJ_F13M |-> <<15, "TOP_F_F26M">>])

InfraGatesC0b ==
  Gates("InfraCfgAo", \hC0, \hC4, \hC8, FALSE,
  [INFRA_AES_TOP0_BCLK |-> <<16, "TOP_AXI">>,
   INFRA_MCU_PM_BCLK |-> <<17, "TOP_AXI">>,
   INFRA_CCIF2_AP |-> <<18, "TOP_AXI">>,
   INFRA_CCIF2_MD |-> <<19, "TOP_AXI">>,
   INFRA_CCIF3_AP |-> <<20, "TOP_AXI">>,
   INFRA_CCIF3_MD |-> <<21, "TOP_AXI">>])

Clocks ==
  FixedClocks @@ Plls1 @@ Plls2 @@ Muxes40 @@ Muxes50 @@ Muxes70 @@
  Muxes90 @@ MuxesA0 @@ Factors1 @@ Factors2 @@ Factors3 @@ Factors4 @@
  Factors5 @@ Factors6 @@ TopGates0 @@ TopGates104 @@ InfraGates200 @@
  InfraGates74 @@ InfraGates80 @@ InfraGates80b @@ InfraGates80c @@
  InfraGates88 @@ InfraGates88b @@ InfraGates88c @@ InfraGatesA4 @@
  InfraGatesA4b @@ InfraGatesC0 @@ InfraGatesC0b
=============================================================================
