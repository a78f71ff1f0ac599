---------------------------- MODULE Mt6789Clocks ----------------------------
(* gClocks of the MT6789 ClockImplLib: its 226 clocks, grouped like those  *)
(* of Mt6768Clocks.  TOP_CLK32K has id 0.                                  *)
EXTENDS ClockEntries, TLC

Inputs1 ==
  [TopAxiSelParents |->
     <<"TOP_TCK_26M_MX9", "TOP_MAINPLL_D4_D4", "TOP_MAINPLL_D7_D2",
       "TOP_MAINPLL_D4_D2", "TOP_MAINPLL_D5_D2", "TOP_MAINPLL_D6_D2",
       "TOP_OSC_D4">>,
   TopSpmSelParents |->
     <<"TOP_TCK_26M_MX9", "TOP_OSC_D10", "TOP_MAINPLL_D7_D4", "TOP_CLKRTC">>,
   TopScpSelParents |->
     <<"TOP_TCK_26M_MX9", "TOP_UNIVPLL_D4", "TOP_NPUPLL", "TOP_MAINPLL_D6",
       "TOP_UNIVPLL_D6", "TOP_MAINPLL_D4_D2", "TOP_MAINPLL_D4",
       "TOP_MAINPLL_D7">>,
   TopBusAximemSelParents |->
     <<"TOP_TCK_26M_MX9", "TOP_MAINPLL_D7_D2", "TOP_MAINPLL_D4_D2",
       "TOP_MAINPLL_D5_D2", "TOP_MAINPLL_D6">>,
   TopDispSelParents |->
     <<"TOP_TCK_26M_MX9", "TOP_UNIVPLL_D6_D2", "TOP_MAINPLL_D5_D2",
       "TOP_MMPLL_D6_D2", "TOP_UNIVPLL_D5_D2", "TOP_UNIVPLL_D4_D2",
       "TOP_MMPLL_D7", "TOP_UNIVPLL_D6", "TOP_MAINPLL_D4",
       "TOP_MMPLL_D5_D2">>,
   TopMdpSelParents |->
     <<"TOP_TCK_26M_MX9", "TOP_MAINPLL_D5_D2", "TOP_MMPLL_D6_D2",
       "TOP_MAINPLL_D4_D2", "TOP_MMPLL_D4_D2", "TOP_MAINPLL_D6",
       "TOP_MAINPLL_D5", "TOP_MAINPLL_D4", "TOP_TVDPLL", "TOP_UNIVPLL_D4",
       "TOP_MMPLL_D5_D2">>,
   TopImg1SelParents |->
     <<"TOP_TCK_26M_MX9", "TOP_UNIVPLL_D4", "TOP_TVDPLL", "TOP_MAINPLL_D4",
       "TOP_UNIVPLL_D5", "TOP_MMPLL_D6", "TOP_UNIVPLL_D6",
       "TOP_MAINPLL_D6", "TOP_MMPLL_D4_D2", "TOP_MAINPLL_D4_D2",
       "TOP_MMPLL_D6_D2", "TOP_MMPLL_D5_D2">>,
   TopIpeSelParents |->
     <<"TOP_TCK_26M_MX9", "TOP_MAINPLL_D4", "TOP_MMPLL_D6",
       "TOP_UNIVPLL_D6", "TOP_MAINPLL_D6", "TOP_UNIVPLL_D4_D2",
       "TOP_MAINPLL_D4_D2", "TOP_MMPLL_D6_D2", "TOP_MMPLL_D5_D2">>,
   TopCamSelParents |->
     <<"TOP_TCK_26M_MX9", "TOP_MAINPLL_D4", "TOP_MMPLL_D6",
       "TOP_UNIVPLL_D4", "TOP_UNIVPLL_D5", "TOP_UNIVPLL_D6",
       "TOP_MMPLL_D7", "TOP_UNIVPLL_D4_D2", "TOP_MAINPLL_D4_D2",
       "TOP_NPUPLL">>,
   TopMfgRefSelParents |->
     <<"TOP_TCK_26M_MX9", "TOP_MAINPLL_D6_D2", "TOP_MAINPLL_D6",
       "TOP_MAINPLL_D5_D2">>,
   TopMfgPllSelParents |->
     <<"TOP_MFG_REF", "TOP_MFGPLL">>,
   TopCamtgSelParents |->
     <<"TOP_TCK_26M_MX9", "TOP_UNIVPLL_192M_D8", "TOP_UNIVPLL_D6_D8",
       "TOP_UNIVPLL_192M_D4", "TOP_UNIVPLL_D6_D16", "TOP_F26M_CK_D2",
       "TOP_UNIVPLL_192M_D16", "TOP_UNIVPLL_192M_D32">>,
   TopCamtg2SelParents |->
     <<"TOP_TCK_26M_MX9", "TOP_UNIVPLL_192M_D8", "TOP_UNIVPLL_D6_D8",
       "TOP_UNIVPLL_192M_D4", "TOP_UNIVPLL_D6_D16", "TOP_F26M_CK_D2",
       "TOP_UNIVPLL_192M_D16", "TOP_UNIVPLL_192M_D32">>,
   TopCamtg3SelParents |->
     <<"TOP_TCK_26M_MX9", "TOP_UNIVPLL_192M_D8", "TOP_UNIVPLL_D6_D8",
       "TOP_UNIVPLL_192M_D4", "TOP_UNIVPLL_D6_D16", "TOP_F26M_CK_D2",
       "TOP_UNIVPLL_192M_D16", "TOP_UNIVPLL_192M_D32">>]

Inputs2 ==
  [TopCamtg4SelParents |->
     <<"TOP_TCK_26M_MX9", "TOP_UNIVPLL_192M_D8", "TOP_UNIVPLL_D6_D8",
       "TOP_UNIVPLL_192M_D4", "TOP_UNIVPLL_D6_D16", "TOP_F26M_CK_D2",
       "TOP_UNIVPLL_192M_D16", "TOP_UNIVPLL_192M_D32">>,
   TopCamtg5SelParents |->
     <<"TOP_TCK_26M_MX9", "TOP_UNIVPLL_192M_D8", "TOP_UNIVPLL_D6_D8",
       "TOP_UNIVPLL_192M_D4", "TOP_UNIVPLL_D6_D16", "TOP_F26M_CK_D2",
       "TOP_UNIVPLL_192M_D16", "TOP_UNIVPLL_192M_D32">>,
   TopCamtg6SelParents |->
     <<"TOP_TCK_26M_MX9", "TOP_UNIVPLL_192M_D8", "TOP_UNIVPLL_D6_D8",
       "TOP_UNIVPLL_192M_D4", "TOP_UNIVPLL_D6_D16", "TOP_F26M_CK_D2",
       "TOP_UNIVPLL_192M_D16", "TOP_UNIVPLL_192M_D32">>,
   TopUartSelParents |->
     <<"TOP_TCK_26M_MX9", "TOP_UNIVPLL_D6_D8">>,
   TopSpiSelParents |->
     <<"TOP_TCK_26M_MX9", "TOP_MAINPLL_D5_D4", "TOP_MAINPLL_D6_D4",
       "TOP_MSDCPLL_D4", "TOP_MSDCPLL_D2", "TOP_MAINPLL_D6_D2",
       "TOP_MAINPLL_D4_D4", "TOP_UNIVPLL_D5_D4">>,
   TopMsdc50HclkSelParents |->
     <<"TOP_TCK_26M_MX9", "TOP_MAINPLL_D4_D2", "TOP_MAINPLL_D6_D2">>,
   TopMsdc50SelParents |->
     <<"TOP_TCK_26M_MX9", "TOP_MSDCPLL", "TOP_MSDCPLL_D2",
       "TOP_UNIVPLL_D4_D4", "TOP_MAINPLL_D6_D2", "TOP_UNIVPLL_D4_D2">>,
   TopMsdc30SelParents |->
     <<"TOP_TCK_26M_MX9", "TOP_UNIVPLL_D6_D2", "TOP_MAINPLL_D6_D2",
       "TOP_MAINPLL_D7_D2", "TOP_MSDCPLL_D2">>,
   TopAudioSelParents |->
     <<"TOP_TCK_26M_MX9", "TOP_MAINPLL_D5_D8", "TOP_MAINPLL_D7_D8",
       "TOP_MAINPLL_D4_D16">>,
   TopAudIntbusSelParents |->
     <<"TOP_TCK_26M_MX9", "TOP_MAINPLL_D4_D4", "TOP_MAINPLL_D7_D4">>,
   TopPwrapUlposcSelParents |->
     <<"TOP_OSC_D10", "TOP_TCK_26M_MX9", "TOP_OSC_D4", "TOP_OSC_D8",
       "TOP_OSC_D16">>,
   TopAtbSelParents |->
     <<"TOP_TCK_26M_MX9", "TOP_MAINPLL_D4_D2", "TOP_MAINPLL_D5_D2">>,
   TopSspmSelParents |->
     <<"TOP_TCK_26M_MX9", "TOP_MAINPLL_D7_D2", "TOP_MAINPLL_D6_D2",
       "TOP_MAINPLL_D5_D2", "TOP_MAINPLL_D9", "TOP_MAINPLL_D4_D2">>,
   TopScamSelParents |->
     <<"TOP_TCK_26M_MX9", "TOP_MAINPLL_D5_D4">>,
   TopDispPwmSelParents |->
     <<"TOP_TCK_26M_MX9", "TOP_UNIVPLL_D6_D4", "TOP_OSC_D2", "TOP_OSC_D4",
       "TOP_OSC_D16">>,
   TopUsbSelParents |->
     <<"TOP_TCK_26M_MX9", "TOP_UNIVPLL_D5_D4", "TOP_UNIVPLL_D6_D4",
       "TOP_UNIVPLL_D5_D2">>,
   TopI2cSelParents |->
     <<"TOP_TCK_26M_MX9", "TOP_MAINPLL_D4_D8", "TOP_UNIVPLL_D5_D4">>,
   TopSeninfSelParents |->
     <<"TOP_TCK_26M_MX9", "TOP_UNIVPLL_D4_D4", "TOP_UNIVPLL_D6_D2",
       "TOP_UNIVPLL_D4_D2", "TOP_NPUPLL", "TOP_MMPLL_D7", "TOP_MMPLL_D6",
       "TOP_UNIVPLL_D5">>]

Inputs3 ==
  [TopSeninf1SelParents |->
     <<"TOP_TCK_26M_MX9", "TOP_UNIVPLL_D4_D4", "TOP_UNIVPLL_D6_D2",
       "TOP_UNIVPLL_D4_D2", "TOP_NPUPLL", "TOP_MMPLL_D7", "TOP_MMPLL_D6",
       "TOP_UNIVPLL_D5">>,
   TopSeninf2SelParents |->
     <<"TOP_TCK_26M_MX9", "TOP_UNIVPLL_D4_D4", "TOP_UNIVPLL_D6_D2",
       "TOP_UNIVPLL_D4_D2", "TOP_NPUPLL", "TOP_MMPLL_D7", "TOP_MMPLL_D6",
       "TOP_UNIVPLL_D5">>,
   TopSeninf3SelParents |->
     <<"TOP_TCK_26M_MX9", "TOP_UNIVPLL_D4_D4", "TOP_UNIVPLL_D6_D2",
       "TOP_UNIVPLL_D4_D2", "TOP_NPUPLL", "TOP_MMPLL_D7", "TOP_MMPLL_D6",
       "TOP_UNIVPLL_D5">>,
   TopDxccSelParents |->
     <<"TOP_TCK_26M_MX9", "TOP_MAINPLL_D4_D2", "TOP_MAINPLL_D4_D4",
       "TOP_MAINPLL_D4_D8">>,
   TopAudEngen1SelParents |->
     <<"TOP_TCK_26M_MX9", "TOP_APLL1_D2", "TOP_APLL1_D4", "TOP_APLL1_D8">>,
   TopAudEngen2SelParents |->
     <<"TOP_TCK_26M_MX9", "TOP_APLL2_D2", "TOP_APLL2_D4", "TOP_APLL2_D8">>,
   TopAesUfsfdeSelParents |->
     <<"TOP_TCK_26M_MX9", "TOP_MAINPLL_D4", "TOP_MAINPLL_D4_D2",
       "TOP_MAINPLL_D6", "TOP_MAINPLL_D4_D4", "TOP_UNIVPLL_D4_D2",
       "TOP_UNIVPLL_D6">>,
   TopUfsSelParents |->
     <<"TOP_TCK_26M_MX9", "TOP_MAINPLL_D4_D4", "TOP_MAINPLL_D4_D8",
       "TOP_UNIVPLL_D4_D4", "TOP_MAINPLL_D6_D2", "TOP_MAINPLL_D5_D2",
       "TOP_MSDCPLL_D2">>,
   TopAud1SelParents |->
     <<"TOP_TCK_26M_MX9", "TOP_APLL1">>,
   TopAud2SelParents |->
     <<"TOP_TCK_26M_MX9", "TOP_APLL2">>,
   TopDpmaifMainSelParents |->
     <<"TOP_TCK_26M_MX9", "TOP_UNIVPLL_D4_D4", "TOP_MAINPLL_D6",
       "TOP_MAINPLL_D4_D2", "TOP_UNIVPLL_D4_D2">>,
   TopVencSelParents |->
     <<"TOP_TCK_26M_MX9", "TOP_MMPLL_D7", "TOP_MAINPLL_D6",
       "TOP_UNIVPLL_D4_D2", "TOP_MAINPLL_D4_D2", "TOP_UNIVPLL_D6",
       "TOP_MMPLL_D6", "TOP_MAINPLL_D5_D2", "TOP_MAINPLL_D6_D2",
       "TOP_MMPLL_D9", "TOP_UNIVPLL_D4_D4", "TOP_MAINPLL_D4",
       "TOP_UNIVPLL_D4", "TOP_UNIVPLL_D5", "TOP_UNIVPLL_D5_D2",
       "TOP_MAINPLL_D5">>,
   TopVdecSelParents |->
     <<"TOP_TCK_26M_MX9", "TOP_UNIVPLL_192M_D2", "TOP_UNIVPLL_D5_D4",
       "TOP_MAINPLL_D5", "TOP_MAINPLL_D5_D2", "TOP_MMPLL_D6_D2",
       "TOP_UNIVPLL_D5_D2", "TOP_MAINPLL_D4_D2", "TOP_UNIVPLL_D4_D2",
       "TOP_UNIVPLL_D7", "TOP_MMPLL_D7", "TOP_MMPLL_D6", "TOP_UNIVPLL_D5",
       "TOP_MAINPLL_D4", "TOP_UNIVPLL_D4", "TOP_UNIVPLL_D6">>,
   TopCamtmSelParents |->
     <<"TOP_TCK_26M_MX9", "TOP_UNIVPLL_D7", "TOP_UNIVPLL_D6_D2",
       "TOP_UNIVPLL_D4_D2">>,
   TopPwmSelParents |->
     <<"TOP_TCK_26M_MX9", "TOP_UNIVPLL_D4_D8">>,
   TopAudioHSelParents |->
     <<"TOP_TCK_26M_MX9", "TOP_UNIVPLL_D7", "TOP_APLL1", "TOP_APLL2">>]

Inputs4 ==
  [TopSpmiMstSelParents |->
     <<"TOP_TCK_26M_MX9", "TOP_F26M_CK_D2", "TOP_OSC_D8", "TOP_OSC_D10",
       "TOP_OSC_D16", "TOP_OSC_D20", "TOP_CLKRTC">>,
   TopDvfsrcSelParents |->
     <<"TOP_TCK_26M_MX9", "TOP_OSC_D10">>,
   TopAesMsdcfdeSelParents |->
     <<"TOP_TCK_26M_MX9", "TOP_MAINPLL_D4_D2", "TOP_MAINPLL_D6",
       "TOP_MAINPLL_D4_D4", "TOP_UNIVPLL_D4_D2", "TOP_UNIVPLL_D6">>,
   TopMcupmSelParents |->
     <<"TOP_TCK_26M_MX9", "TOP_MAINPLL_D6_D4", "TOP_MAINPLL_D6_D2">>,
   TopDsiOccSelParents |->
     <<"TOP_TCK_26M_MX9", "TOP_MAINPLL_D6_D2", "TOP_UNIVPLL_D5_D2",
       "TOP_UNIVPLL_D4_D2">>,
   TopApllI2s0MckSelParents |->
     <<"TOP_AUD_1_SEL", "TOP_AUD_2_SEL">>,
   TopApllI2s1MckSelParents |->
     <<"TOP_AUD_1_SEL", "TOP_AUD_2_SEL">>,
   TopApllI2s2MckSelParents |->
     <<"TOP_AUD_1_SEL", "TOP_AUD_2_SEL">>,
   TopApllI2s3MckSelParents |->
     <<"TOP_AUD_1_SEL", "TOP_AUD_2_SEL">>,
   TopApllI2s4MckSelParents |->
     <<"TOP_AUD_1_SEL", "TOP_AUD_2_SEL">>,
   TopApllI2s5MckSelParents |->
     <<"TOP_AUD_1_SEL", "TOP_AUD_2_SEL">>,
   TopApllI2s6MckSelParents |->
     <<"TOP_AUD_1_SEL", "TOP_AUD_2_SEL">>,
   TopApllI2s7MckSelParents |->
     <<"TOP_AUD_1_SEL", "TOP_AUD_2_SEL">>,
   TopApllI2s8MckSelParents |->
     <<"TOP_AUD_1_SEL", "TOP_AUD_2_SEL">>,
   TopApllI2s9MckSelParents |->
     <<"TOP_AUD_1_SEL", "TOP_AUD_2_SEL">>]

Inputs == Inputs1 @@ Inputs2 @@ Inputs3 @@ Inputs4

Selects(t) ==
  [c \in DOMAIN t |-> Mux(t[c][1], t[c][2], t[c][3], t[c][4], t[c][5],
                          t[c][6], Inputs[t[c][7]])]

FixedClocks ==
  [TOP_CLK32K |-> Fixed,
   TOP_CLK26M |-> Fixed,
   TOP_ULPOSC |-> Fixed]

Plls1 ==
  [APMIXED_ARMPLL_LL |->
     Pll(\h208, \h214, FALSE, \h20C, \h20C, 22, 8, "TOP_CLK26M"),
   APMIXED_ARMPLL_BL0 |->
     Pll(\h218, \h224, FALSE, \h21C, \h21C, 22, 8, "TOP_CLK26M"),
   APMIXED_CCIPLL |->
     Pll(\h258, \h264, FALSE, \h25C, \h25C, 22, 8, "TOP_CLK26M"),
   APMIXED_MPLL |->
     Pll(\h390, \h39C, FALSE, \h394, \h394, 22, 8, "TOP_CLK26M"),
   APMIXED_MAINPLL |->
     Pll(\h340, \h34C, TRUE, \h344, \h344, 22, 8, "TOP_CLK26M"),
   APMIXED_UNIVPLL |->
     Pll(\h308, \h314, TRUE, \h30C, \h30C, 22, 8, "TOP_CLK26M")]

Plls2 ==
  [APMIXED_MSDCPLL |->
     Pll(\h350, \h35C, FALSE, \h354, \h354, 22, 8, "TOP_CLK26M"),
   APMIXED_MMPLL |->
     Pll(\h360, \h36C, TRUE, \h364, \h364, 22, 8, "TOP_CLK26M"),
   APMIXED_NPUPLL |->
     Pll(\h3B4, \h3C0, FALSE, \h3B8, \h3B8, 22, 8, "TOP_CLK26M"),
   APMIXED_MFGPLL |->
     Pll(\h268, \h274, FALSE, \h26C, \h26C, 22, 8, "TOP_CLK26M"),
   APMIXED_TVDPLL |->
     Pll(\h380, \h38C, FALSE, \h384, \h384, 22, 8, "TOP_CLK26M"),
   APMIXED_APLL1 |->
     Pll(\h318, \h328, FALSE, \h31C, \h320, 32, 8, "TOP_CLK26M")]

Plls3 ==
  [APMIXED_APLL2 |->
     Pll(\h32C, \h33C, FALSE, \h330, \h334, 32, 8, "TOP_CLK26M"),
   APMIXED_USBPLL |->
     Pll(\h3C4, \h3CC, TRUE, \h3C4, \h3C4, 22, 8, "TOP_CLK26M")]

Muxes10 ==
  Selects(
  [TOP_AXI_SEL |->
     <<\h10, 0, 3, NoGate, \h4, 0, "TopAxiSelParents">>,
   TOP_SPM_SEL |->
     <<\h10, 8, 2, NoGate, \h4, 1, "TopSpmSelParents">>,
   TOP_SCP_SEL |->
     <<\h10, 16, 3, 23, \h4, 2, "TopScpSelParents">>,
   TOP_BUS_AXIMEM_SEL |->
     <<\h10, 24, 3, NoGate, \h4, 3, "TopBusAximemSelParents">>,
   TOP_DISP_SEL |->
     <<\h20, 0, 4, 7, \h4, 4, "TopDispSelParents">>,
   TOP_MDP_SEL |->
     <<\h20, 8, 4, 15, \h4, 5, "TopMdpSelParents">>,
   TOP_IMG1_SEL |->
     <<\h20, 16, 4, 23, \h4, 6, "TopImg1SelParents">>])

Muxes30 ==
  Selects(
  [TOP_IPE_SEL |->
     <<\h30, 0, 4, 7, \h4, 8, "TopIpeSelParents">>,
   TOP_CAM_SEL |->
     <<\h30, 16, 4, 23, \h4, 10, "TopCamSelParents">>,
   TOP_MFG_REF_SEL |->
     <<\h50, 16, 2, 23, \h4, 18, "TopMfgRefSelParents">>,
   TOP_MFG_PLL_SEL |->
     <<\h50, 18, 1, NoGate, Beyond, 255, "TopMfgPllSelParents">>,
   TOP_CAMTG_SEL |->
     <<\h50, 24, 3, 31, \h4, 19, "TopCamtgSelParents">>,
   TOP_CAMTG2_SEL |->
     <<\h60, 0, 3, 7, \h4, 20, "TopCamtg2SelParents">>,
   TOP_CAMTG3_SEL |->
     <<\h60, 8, 3, 15, \h4, 21, "TopCamtg3SelParents">>])

Muxes60 ==
  Selects(
  [TOP_CAMTG4_SEL |->
     <<\h60, 16, 3, 23, \h4, 22, "TopCamtg4SelParents">>,
   TOP_CAMTG5_SEL |->
     <<\h60, 24, 3, 31, \h4, 23, "TopCamtg5SelParents">>,
   TOP_CAMTG6_SEL |->
     <<\h70, 0, 3, 7, \h4, 24, "TopCamtg6SelParents">>,
   TOP_UART_SEL |->
     <<\h70, 8, 1, 15, \h4, 25, "TopUartSelParents">>,
   TOP_SPI_SEL |->
     <<\h70, 16, 3, 23, \h4, 26, "TopSpiSelParents">>,
   TOP_MSDC50_0_HCLK_SEL |->
     <<\h70, 24, 2, 31, \h4, 27, "TopMsdc50HclkSelParents">>])

Muxes80 ==
  Selects(
  [TOP_MSDC50_0_SEL |->
     <<\h80, 0, 3, 7, \h4, 28, "TopMsdc50SelParents">>,
   TOP_MSDC30_1_SEL |->
     <<\h80, 8, 3, 15, \h4, 29, "TopMsdc30SelParents">>,
   TOP_AUDIO_SEL |->
     <<\h80, 24, 2, 31, \h8, 0, "TopAudioSelParents">>,
   TOP_AUD_INTBUS_SEL |->
     <<\h90, 0, 2, 7, \h8, 1, "TopAudIntbusSelParents">>,
   TOP_PWRAP_ULPOSC_SEL |->
     <<\h90, 8, 3, 15, \h8, 2, "TopPwrapUlposcSelParents">>,
   TOP_ATB_SEL |->
     <<\h90, 16, 2, 23, \h8, 3, "TopAtbSelParents">>,
   TOP_SSPM_SEL |->
     <<\h90, 24, 3, NoGate, \h8, 4, "TopSspmSelParents">>])

MuxesA0 ==
  Selects(
  [TOP_SCAM_SEL |->
     <<\hA0, 8, 1, 15, \h8, 6, "TopScamSelParents">>,
   TOP_DISP_PWM_SEL |->
     <<\hA0, 16, 3, 23, \h8, 7, "TopDispPwmSelParents">>,
   TOP_USB_SEL |->
     <<\hA0, 24, 2, 31, \h8, 8, "TopUsbSelParents">>,
   TOP_I2C_SEL |->
     <<\hB0, 8, 2, 15, \h8, 10, "TopI2cSelParents">>,
   TOP_SENINF_SEL |->
     <<\hB0, 16, 3, 23, \h8, 11, "TopSeninfSelParents">>,
   TOP_SENINF1_SEL |->
     <<\hB0, 24, 3, 31, \h8, 12, "TopSeninf1SelParents">>])

MuxesC0 ==
  Selects(
  [TOP_SENINF2_SEL |->
     <<\hC0, 0, 3, 7, \h8, 13, "TopSeninf2SelParents">>,
   TOP_SENINF3_SEL |->
     <<\hC0, 8, 3, 15, \h8, 14, "TopSeninf3SelParents">>,
   TOP_DXCC_SEL |->
     <<\hC0, 24, 2, NoGate, \h8, 16, "TopDxccSelParents">>,
   TOP_AUD_ENGEN1_SEL |->
     <<\hD0, 0, 2, 7, \h8, 17, "TopAudEngen1SelParents">>,
   TOP_AUD_ENGEN2_SEL |->
     <<\hD0, 8, 2, 15, \h8, 18, "TopAudEngen2SelParents">>,
   TOP_AES_UFSFDE_SEL |->
     <<\hD0, 16, 3, 23, \h8, 19, "TopAesUfsfdeSelParents">>,
   TOP_UFS_SEL |->
     <<\hD0, 24, 3, 31, \h8, 20, "TopUfsSelParents">>])

MuxesE0 ==
  Selects(
  [TOP_AUD_1_SEL |->
     <<\hE0, 0, 1, 7, \h8, 21, "TopAud1SelParents">>,
   TOP_AUD_2_SEL |->
     <<\hE0, 8, 1, 15, \h8, 22, "TopAud2SelParents">>,
   TOP_DPMAIF_MAIN_SEL |->
     <<\hE0, 24, 3, 31, \h8, 24, "TopDpmaifMainSelParents">>,
   TOP_VENC_SEL |->
     <<\hF0, 0, 4, 7, \h8, 25, "TopVencSelParents">>,
   TOP_VDEC_SEL |->
     <<\hF0, 8, 4, 15, \h8, 26, "TopVdecSelParents">>,
   TOP_CAMTM_SEL |->
     <<\hF0, 16, 2, 23, \h8, 27, "TopCamtmSelParents">>,
   TOP_PWM_SEL |->
     <<\hF0, 24, 1, 31, \h8, 28, "TopPwmSelParents">>])

Muxes100 ==
  Selects(
  [TOP_AUDIO_H_SEL |->
     <<\h100, 0, 2, 7, \h8, 29, "TopAudioHSelParents">>,
   TOP_SPMI_MST_SEL |->
     <<\h100, 8, 3, NoGate, \h8, 30, "TopSpmiMstSelParents">>,
   TOP_DVFSRC_SEL |->
     <<\h100, 16, 1, NoGate, \hC, 0, "TopDvfsrcSelParents">>,
   TOP_AES_MSDCFDE_SEL |->
     <<\h100, 24, 3, 31, \hC, 1, "TopAesMsdcfdeSelParents">>,
   TOP_MCUPM_SEL |->
     <<\h110, 0, 2, NoGate, \hC, 2, "TopMcupmSelParents">>,
   TOP_DSI_OCC_SEL |->
     <<\h110, 16, 2, 23, \hC, 4, "TopDsiOccSelParents">>])

Factors1 ==
  [TOP_MFGPLL |-> Factor("APMIXED_MFGPLL", 1, 1),
   TOP_MAINPLL_D4 |-> Factor("APMIXED_MAINPLL", 1, 4),
   TOP_MAINPLL_D4_D2 |-> Factor("APMIXED_MAINPLL", 1, 8),
   TOP_MAINPLL_D4_D4 |-> Factor("APMIXED_MAINPLL", 1, 16),
   TOP_MAINPLL_D4_D8 |-> Factor("APMIXED_MAINPLL", 1, 32),
   TOP_MAINPLL_D4_D16 |-> Factor("APMIXED_MAINPLL", 1, 64),
   TOP_MAINPLL_D5 |-> Factor("APMIXED_MAINPLL", 1, 5),
   TOP_MAINPLL_D5_D2 |-> Factor("APMIXED_MAINPLL", 1, 10),
   TOP_MAINPLL_D5_D4 |-> Factor("APMIXED_MAINPLL", 1, 20),
   TOP_MAINPLL_D5_D8 |-> Factor("APMIXED_MAINPLL", 1, 40),
   TOP_MAINPLL_D6 |-> Factor("APMIXED_MAINPLL", 1, 6),
   TOP_MAINPLL_D6_D2 |-> Factor("APMIXED_MAINPLL", 1, 12),
   TOP_MAINPLL_D6_D4 |-> Factor("APMIXED_MAINPLL", 1, 24)]

Factors2 ==
  [TOP_MAINPLL_D7 |-> Factor("APMIXED_MAINPLL", 1, 7),
   TOP_MAINPLL_D7_D2 |-> Factor("APMIXED_MAINPLL", 1, 14),
   TOP_MAINPLL_D7_D4 |-> Factor("APMIXED_MAINPLL", 1, 28),
   TOP_MAINPLL_D7_D8 |-> Factor("APMIXED_MAINPLL", 1, 56),
   TOP_MAINPLL_D9 |-> Factor("APMIXED_MAINPLL", 1, 9),
   TOP_UNIVPLL_D4 |-> Factor("APMIXED_UNIVPLL", 1, 4),
   TOP_UNIVPLL_D4_D2 |-> Factor("APMIXED_UNIVPLL", 1, 8),
   TOP_UNIVPLL_D4_D4 |-> Factor("APMIXED_UNIVPLL", 1, 16),
   TOP_UNIVPLL_D4_D8 |-> Factor("APMIXED_UNIVPLL", 1, 32),
   TOP_UNIVPLL_D5 |-> Factor("APMIXED_UNIVPLL", 1, 5),
   TOP_UNIVPLL_D5_D2 |-> Factor("APMIXED_UNIVPLL", 1, 10),
   TOP_UNIVPLL_D5_D4 |-> Factor("APMIXED_UNIVPLL", 1, 20),
   TOP_UNIVPLL_D6 |-> Factor("APMIXED_UNIVPLL", 1, 6)]

Factors3 ==
  [TOP_UNIVPLL_D6_D2 |-> Factor("APMIXED_UNIVPLL", 1, 12),
   TOP_UNIVPLL_D6_D4 |-> Factor("APMIXED_UNIVPLL", 1, 24),
   TOP_UNIVPLL_D6_D8 |-> Factor("APMIXED_UNIVPLL", 1, 48),
   TOP_UNIVPLL_D6_D16 |-> Factor("APMIXED_UNIVPLL", 1, 96),
   TOP_UNIVPLL_D7 |-> Factor("APMIXED_UNIVPLL", 1, 7),
   TOP_UNIVPLL_192M_D2 |-> Factor("APMIXED_UNIVPLL", 1, 26),
   TOP_UNIVPLL_192M_D4 |-> Factor("APMIXED_UNIVPLL", 1, 52),
   TOP_UNIVPLL_192M_D8 |-> Factor("APMIXED_UNIVPLL", 1, 104),
   TOP_UNIVPLL_192M_D16 |-> Factor("APMIXED_UNIVPLL", 1, 208),
   TOP_UNIVPLL_192M_D32 |-> Factor("APMIXED_UNIVPLL", 1, 416),
   TOP_APLL1 |-> Factor("APMIXED_APLL1", 1, 1),
   TOP_APLL1_D2 |-> Factor("APMIXED_APLL1", 1, 2),
   TOP_APLL1_D4 |-> Factor("APMIXED_APLL1", 1, 4)]

Factors4 ==
  [TOP_APLL1_D8 |-> Factor("APMIXED_APLL1", 1, 8),
   TOP_APLL2 |-> Factor("APMIXED_APLL2", 1, 1),
   TOP_APLL2_D2 |-> Factor("APMIXED_APLL2", 1, 2),
   TOP_APLL2_D4 |-> Factor("APMIXED_APLL2", 1, 4),
   TOP_APLL2_D8 |-> Factor("APMIXED_APLL2", 1, 8),
   TOP_MMPLL_D4_D2 |-> Factor("APMIXED_MMPLL", 1, 8),
   TOP_MMPLL_D5_D2 |-> Factor("APMIXED_MMPLL", 1, 12),
   TOP_MMPLL_D6 |-> Factor("APMIXED_MMPLL", 1, 6),
   TOP_MMPLL_D6_D2 |-> Factor("APMIXED_MMPLL", 1, 12),
   TOP_MMPLL_D7 |-> Factor("APMIXED_MMPLL", 1, 7),
   TOP_MMPLL_D9 |-> Factor("APMIXED_MMPLL", 1, 9),
   TOP_NPUPLL |-> Factor("APMIXED_NPUPLL", 1, 1),
   TOP_TVDPLL |-> Factor("APMIXED_TVDPLL", 1, 1)]

Factors5 ==
  [TOP_MSDCPLL |-> Factor("APMIXED_MSDCPLL", 1, 1),
   TOP_MSDCPLL_D2 |-> Factor("APMIXED_MSDCPLL", 1, 2),
   TOP_MSDCPLL_D4 |-> Factor("APMIXED_MSDCPLL", 1, 4),
   TOP_CLKRTC |-> Factor("TOP_CLK32K", 1, 1),
   TOP_TCK_26M_MX9 |-> Factor("TOP_CLK26M", 1, 1),
   TOP_F26M_CK_D2 |-> Factor("TOP_CLK26M", 1, 2),
   TOP_OSC_D2 |-> Factor("TOP_ULPOSC", 1, 2),
   TOP_OSC_D4 |-> Factor("TOP_ULPOSC", 1, 4),
   TOP_OSC_D8 |-> Factor("TOP_ULPOSC", 1, 8),
   TOP_OSC_D16 |-> Factor("TOP_ULPOSC", 1, 16),
   TOP_OSC_D10 |-> Factor("TOP_ULPOSC", 1, 10),
   TOP_OSC_D20 |-> Factor("TOP_ULPOSC", 1, 20),
   TOP_F26M |-> Factor("TOP_CLK26M", 1, 1)]

Factors6 ==
  [TOP_AXI |-> Factor("TOP_AXI_SEL", 1, 1),
   TOP_DISP |-> Factor("TOP_DISP_SEL", 1, 1),
   TOP_MDP |-> Factor("TOP_MDP_SEL", 1, 1),
   TOP_IMG1 |-> Factor("TOP_IMG1_SEL", 1, 1),
   TOP_IPE |-> Factor("TOP_IPE_SEL", 1, 1),
   TOP_CAM |-> Factor("TOP_CAM_SEL", 1, 1),
   TOP_MFG_REF |-> Factor("TOP_MFG_REF_SEL", 1, 1),
   TOP_MFG_PLL |-> Factor("TOP_MFG_PLL_SEL", 1, 1),
   TOP_UART |-> Factor("TOP_UART_SEL", 1, 1),
   TOP_SPI |-> Factor("TOP_SPI_SEL", 1, 1),
   TOP_MSDC50_0 |-> Factor("TOP_MSDC50_0_SEL", 1, 1),
   TOP_MSDC30_1 |-> Factor("TOP_MSDC30_1_SEL", 1, 1),
   TOP_AUDIO |-> Factor("TOP_AUDIO_SEL", 1, 1)]

Factors7 ==
  [TOP_PWRAP_ULPOSC |-> Factor("TOP_PWRAP_ULPOSC_SEL", 1, 1),
   TOP_DISP_PWM |-> Factor("TOP_DISP_PWM_SEL", 1, 1),
   TOP_USB |-> Factor("TOP_USB_SEL", 1, 1),
   TOP_I2C |-> Factor("TOP_I2C_SEL", 1, 1),
   TOP_AUD_ENGEN1 |-> Factor("TOP_AUD_ENGEN1_SEL", 1, 1),
   TOP_AUD_ENGEN2 |-> Factor("TOP_AUD_ENGEN2_SEL", 1, 1),
   TOP_AES_UFSFDE |-> Factor("TOP_AES_UFSFDE_SEL", 1, 1),
   TOP_UFS |-> Factor("TOP_UFS_SEL", 1, 1),
   TOP_DPMAIF_MAIN |-> Factor("TOP_DPMAIF_MAIN_SEL", 1, 1),
   TOP_VENC |-> Factor("TOP_VENC_SEL", 1, 1),
   TOP_VDEC |-> Factor("TOP_VDEC_SEL", 1, 1),
   TOP_CAMTM |-> Factor("TOP_CAMTM_SEL", 1, 1),
   TOP_PWM |-> Factor("TOP_PWM_SEL", 1, 1)]

Factors8 ==
  [TOP_AUDIO_H |-> Factor("TOP_AUDIO_H_SEL", 1, 1),
   TOP_DSI_OCC |-> Factor("TOP_DSI_OCC_SEL", 1, 1),
   TOP_I2C_PSEUDO |-> Factor("IFRAO_I2C_PSEUDO", 1, 1),
   TOP_APDMA |-> Factor("IFRAO_APDMA_PSEUDO", 1, 1)]

InfraGates80 ==
  Gates("InfraCfgAo", \h80, \h84, \h90, FALSE,
  [IFRAO_PMIC_TMR |-> <<0, "TOP_PWRAP_ULPOSC">>,
   IFRAO_PMIC_AP |-> <<1, "TOP_PWRAP_ULPOSC">>,
   IFRAO_GCE |-> <<8, "TOP_AXI">>,
   IFRAO_GCE2 |-> <<9, "TOP_AXI">>,
   IFRAO_THERM |-> <<10, "TOP_AXI">>,
   IFRAO_I2C_PSEUDO |-> <<11, "TOP_I2C">>,
   IFRAO_APDMA_PSEUDO |-> <<12, "TOP_AXI">>,
   IFRAO_PWM_HCLK |-> <<15, "TOP_AXI">>,
   IFRAO_PWM1 |-> <<16, "TOP_PWM">>,
   IFRAO_PWM2 |-> <<17, "TOP_PWM">>])

InfraGates80b ==
  Gates("InfraCfgAo", \h80, \h84, \h90, FALSE,
  [IFRAO_PWM3 |-> <<18, "TOP_PWM">>,
   IFRAO_PWM4 |-> <<19, "TOP_PWM">>,
   IFRAO_PWM |-> <<21, "TOP_PWM">>,
   IFRAO_UART0 |-> <<22, "TOP_UART">>,
   IFRAO_UART1 |-> <<23, "TOP_UART">>,
   IFRAO_UART2 |-> <<24, "TOP_UART">>,
   IFRAO_UART3 |-> <<25, "TOP_UART">>,
   IFRAO_GCE_26M |-> <<27, "TOP_AXI">>,
   IFRAO_BTIF |-> <<31, "TOP_AXI">>])

InfraGates88 ==
  Gates("InfraCfgAo", \h88, \h8C, \h94, FALSE,
  [IFRAO_SPI0 |-> <<1, "TOP_SPI">>,
   IFRAO_MSDC0 |-> <<2, "TOP_AXI">>,
   IFRAO_MSDC1 |-> <<4, "TOP_AXI">>,
   IFRAO_MSDC0_SRC |-> <<6, "TOP_MSDC50_0">>,
   IFRAO_AUXADC |-> <<10, "TOP_F26M">>,
   IFRAO_CPUM |-> <<11, "TOP_AXI">>,
   IFRAO_CCIF1_AP |-> <<12, "TOP_AXI">>,
   IFRAO_CCIF1_MD |-> <<13, "TOP_AXI">>,
   IFRAO_AUXADC_MD |-> <<14, "TOP_F26M">>,
   IFRAO_MSDC1_SRC |-> <<16, "TOP_MSDC30_1">>])

InfraGates88b ==
  Gates("InfraCfgAo", \h88, \h8C, \h94, FALSE,
  [IFRAO_MSDC0_AES |-> <<17, "TOP_MSDC50_0">>,
   IFRAO_CCIF_AP |-> <<23, "TOP_AXI">>,
   IFRAO_DEBUGSYS |-> <<24, "TOP_AXI">>,
   IFRAO_AUDIO |-> <<25, "TOP_AXI">>,
   IFRAO_CCIF_MD |-> <<26, "TOP_AXI">>])

InfraGatesA4 ==
  Gates("InfraCfgAo", \hA4, \hA8, \hAC, FALSE,
  [IFRAO_SSUSB |-> <<1, "TOP_USB">>,
   IFRAO_CLDMA_BCLK |-> <<3, "TOP_AXI">>,
   IFRAO_AUDIO_26M_BCLK |-> <<4, "TOP_F26M">>,
   IFRAO_SPI1 |-> <<6, "TOP_SPI">>,
   IFRAO_SPI2 |-> <<9, "TOP_SPI">>,
   IFRAO_SPI3 |-> <<10, "TOP_SPI">>,
   IFRAO_UNIPRO_SYSCLK |-> <<11, "TOP_UFS">>,
   IFRAO_UNIPRO_TICK |-> <<12, "TOP_F26M">>,
   IFRAO_UFS_SAP_BCLK |-> <<13, "TOP_F26M">>,
   IFRAO_SPI4 |-> <<25, "TOP_SPI">>])

InfraGatesA4b ==
  Gates("InfraCfgAo", \hA4, \hA8, \hAC, FALSE,
  [IFRAO_SPI5 |-> <<26, "TOP_SPI">>,
   IFRAO_CQ_DMA |-> <<27, "TOP_AXI">>,
   IFRAO_UFS |-> <<28, "TOP_UFS">>,
   IFRAO_UFS_AES |-> <<29, "TOP_AES_UFSFDE">>])

InfraGatesC0 ==
  Gates("InfraCfgAo", \hC0, \hC4, \hC8, FALSE,
  [IFRAO_AP_MSDC0 |-> <<7, "TOP_MSDC50_0">>,
   IFRAO_MD_MSDC0 |-> <<8, "TOP_MSDC50_0">>,
   IFRAO_CCIF5_MD |-> <<10, "TOP_AXI">>,
   IFRAO_CCIF2_AP |-> <<16, "TOP_AXI">>,
   IFRAO_CCIF2_MD |-> <<17, "TOP_AXI">>,
   IFRAO_FBIST2FPC |-> <<24, "TOP_MSDC50_0">>,
   IFRAO_DPMAIF_MAIN |-> <<26, "TOP_DPMAIF_MAIN">>,
   IFRAO_CCIF4_AP |-> <<28, "TOP_AXI">>,
   IFRAO_CCIF4_MD |-> <<29, "TOP_AXI">>,
   IFRAO_SPI6_CK |-> <<30, "TOP_SPI">>])

InfraGatesC0b ==
  Gates("InfraCfgAo", \hC0, \hC4, \hC8, FALSE,
  [IFRAO_SPI7_CK |-> <<31, "TOP_SPI">>])

InfraGatesE0 ==
  Gates("InfraCfgAo", \hE0, \hE4, \hE8, FALSE,
  [IFRAO_66MP_BUS_MCLK_CKP |-> <<2, "TOP_AXI">>])

(* Mutant: the register bank of the gates above, copied. *)
InfraGatesD0Copied ==
  Gates("InfraCfgAo", \hC0, \hC4, \hC8, FALSE,
  [IFRAO_AP_DMA |-> <<31, "TOP_APDMA">>])

InfraGatesD0 ==
  Gates("InfraCfgAo", \hD0, \hD4, \hD8, FALSE,
  [IFRAO_AP_DMA |-> <<31, "TOP_APDMA">>])

Clocks ==
  FixedClocks @@ Plls1 @@ Plls2 @@ Plls3 @@ Muxes10 @@ Muxes30 @@ Muxes60 @@
  Muxes80 @@ MuxesA0 @@ MuxesC0 @@ MuxesE0 @@ Muxes100 @@ Factors1 @@
  Factors2 @@ Factors3 @@ Factors4 @@ Factors5 @@ Factors6 @@ Factors7 @@
  Factors8 @@ InfraGates80 @@ InfraGates80b @@ InfraGates88 @@
  InfraGates88b @@ InfraGatesA4 @@ InfraGatesA4b @@ InfraGatesC0 @@
  InfraGatesC0b @@ InfraGatesE0 @@ InfraGatesD0
=============================================================================
