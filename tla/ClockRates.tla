---------------------------- MODULE ClockRates ----------------------------
(* The arithmetic behind the clock frequencies: PllCalcValues and          *)
(* ClockGetFrequency of ClockDxe, and the divider and timeout MsdcSetMclk  *)
(* programs, and the walks over the clock tables.  PLL frequencies are in  *)
(* units of 100 kHz, MSDC rates in Hz.  A call writes whole fields and     *)
(* depends on none before it: a behaviour is one call.                     *)
EXTENDS ClockTables

CONSTANTS
  PllRequests,     \* PLL output frequencies asked for, x 100 kHz
  FMin, FMax,      \* VCO limits, x 100 kHz
  ParentRate,      \* the PLL's input, x 100 kHz
  FractionBits,    \* PcwBits - PcwiBits
  PcwBits,
  SourceRates,     \* MSDC source clock rates, Hz
  CardRates        \* rates MsdcSetMclk is called with, Hz

ASSUME RateAssumption ==
  /\ FMin \in Nat \ {0} /\ FMax \in Nat /\ FMax >= FMin
  /\ ParentRate \in Nat \ {0} /\ FractionBits \in Nat /\ PcwBits \in Nat
  /\ PllRequests \subseteq Nat /\ SourceRates \subseteq Nat \ {0}
  /\ CardRates \subseteq Nat \ {0}

(* The VCO range spans an octave, so that a post-divider fits; the         *)
(* fraction of the multiplier is fine enough for the rounding and its      *)
(* field wide enough for FMax.                                             *)
ASSUME VcoAssumption ==
  /\ 2 * FMin <= FMax + 1
  /\ 3 * ParentRate <= 2^FractionBits
  /\ FMax * 2^FractionBits < ParentRate * 2^PcwBits

(* The divider fits its 12 bits, and Sclk is from 1 Hz, below which        *)
(* MsdcSetTimeout refuses, to 1 GHz, above which the clock period in ns it *)
(* divides by is zero.                                                     *)
ASSUME CardAssumption ==
  /\ \A source \in SourceRates : source >= 8 /\ source <= 1000000000
  /\ 1 \notin CardRates
  /\ \A source \in SourceRates, hz \in CardRates : source \div (4 * hz) < 4095

VARIABLES
  con1,   \* PLL register: pcw and the exponent in the post-divider field
  asked,  \* the last PLL request
  mclk    \* MSDC_CFG divider, SDC_CFG timeout, the rate asked and Sclk

vars == <<con1, asked, mclk, soc, walk>>

Idle == asked = 0 /\ mclk.source = 0 /\ walk = <<>>

CeilDiv(a, b) == (a + b - 1) \div b
Smaller(a, b) == IF a < b THEN a ELSE b

(* ---- PllCalcValues ---- *)

(* The loop over the five post-dividers, and the value left when none      *)
(* lifts the VCO above its minimum: the loop counter then is one past the  *)
(* divider.                                                                *)
PostDivShift(f) ==
  IF \E v \in 0 .. 4 : f * 2^v >= FMin
  THEN CHOOSE v \in 0 .. 4 : /\ f * 2^v >= FMin
                             /\ \A u \in 0 .. v - 1 : f * 2^u < FMin
  ELSE 5

PostDivField(f) == Smaller(PostDivShift(f), 4)

Pcw(f) == (f * 2^PostDivShift(f) * 2^FractionBits) \div ParentRate

(* The request is capped at FMax. *)
Requested(f) == Smaller(f, FMax)

ClockSetFrequency(f) ==
  /\ Idle
  /\ con1' = [postdiv |-> PostDivField(Requested(f)),
              pcw |-> Pcw(Requested(f)) % 2^PcwBits]
  /\ asked' = f /\ UNCHANGED <<mclk, soc, walk>>

(* ---- ClockGetFrequency ----  Vco = 26 MHz * pcw >> FractionBits in Hz,  *)
(* split into hundreds of kHz and the rest to stay within TLC's integers.  *)
VcoUnits == (ParentRate * con1.pcw) \div 2^FractionBits
VcoRest  == (((ParentRate * con1.pcw) % 2^FractionBits) * 100000)
              \div 2^FractionBits

(* Mutant: the output is rounded down. *)
ClockGetFrequencyDown == VcoUnits \div 2^con1.postdiv

ClockGetFrequency ==
  LET div   == 2^con1.postdiv
      units == VcoUnits \div div
      rest  == CeilDiv((VcoUnits % div) * 100000 + VcoRest, div)
  IN  units + (rest + 50000) \div 100000

(* ---- MsdcSetMclk ---- *)

(* Mutant: the division is rounded down. *)
DividerDown(source, hz) == source \div (hz * 4)

Divider(source, hz) == CeilDiv(source, hz * 4)

Mclk(source, hz) ==
  IF hz >= source
  THEN [mode |-> "NO_DIV", div |-> 0, sclk |-> source]
  ELSE IF hz >= source \div 2
  THEN [mode |-> "DIV", div |-> 0, sclk |-> source \div 2]
  ELSE [mode |-> "DIV", div |-> Divider(source, hz),
        sclk |-> (source \div 4) \div Divider(source, hz)]

(* MsdcSetTimeout: 100 ms and three units of 2^20 clocks, in those units.  *)
CyclesOf(sclk) == CeilDiv(100000000, 1000000000 \div sclk) + 3 * 2^20
TimeoutUnits(cycles) ==
  LET units == CeilDiv(cycles, 2^20)
  IN  Smaller(IF units > 1 THEN units - 1 ELSE 0, 255)

MsdcSetMclk(source, hz) ==
  LET m == Mclk(source, hz)
  IN  /\ Idle
      /\ mclk' = [mode |-> m.mode, div |-> m.div, sclk |-> m.sclk,
                  timeout |-> TimeoutUnits(CyclesOf(m.sclk)),
                  hz |-> hz, source |-> source]
      /\ UNCHANGED <<con1, asked, soc, walk>>

Init ==
  /\ con1 = [postdiv |-> 0, pcw |-> 0] /\ asked = 0
  /\ mclk = [mode |-> "NO_DIV", div |-> 0, sclk |-> 0, timeout |-> 0,
             hz |-> 0, source |-> 0]
  /\ soc \in DOMAIN Table /\ walk = <<>>

(* SetEnable, IsEnabled and GetFrequency: a clock and then its parents.    *)
ClockWalk ==
  /\ asked = 0 /\ mclk.source = 0
  /\ (\E c \in DOMAIN Clocks : ClockGetById(c)) \/ ClockGetParent
  /\ UNCHANGED <<con1, asked, mclk>>

Next ==
  \/ \E f \in PllRequests : ClockSetFrequency(f)
  \/ \E source \in SourceRates, hz \in CardRates : MsdcSetMclk(source, hz)
  \/ ClockWalk

Spec == Init /\ [][Next]_vars
-----------------------------------------------------------------------------
(* What a PLL was set to is what ClockGetFrequency reads back, to the      *)
(* 100 kHz it rounds to, and its VCO runs within its limits, although      *)
(* PllCalcValues picks the divider for the VCO and not for the output;     *)
(* below FMin / 16 the loop counter and the divider programmed disagree    *)
(* (ClockDxe.c:121-146, 400-425).                                          *)
PllRateKept ==
  asked * 16 >= FMin =>
    /\ ClockGetFrequency = Smaller(asked, FMax)
    /\ VcoUnits \in FMin - 1 .. FMax

(* The card clock never runs faster than asked; Sclk, from which the       *)
(* timeouts are derived, is no slower than the clock the divider makes;    *)
(* and the controller gives up on data no earlier than the timeout asked   *)
(* for, unless the field saturates (MsdcDxe.c:327-331, 392-407).           *)
CardRateKept ==
  mclk.source > 0 =>
    LET by == IF mclk.mode = "NO_DIV" THEN 1
              ELSE IF mclk.div = 0 THEN 2 ELSE 4 * mclk.div
    IN  /\ mclk.source \div by <= mclk.hz
        /\ mclk.sclk = mclk.source \div by
        /\ \/ mclk.timeout = 255
           \/ (mclk.timeout + 1) * 2^20 >= CyclesOf(mclk.sclk)
=============================================================================
