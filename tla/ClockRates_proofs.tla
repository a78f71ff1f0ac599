------------------------- MODULE ClockRates_proofs -------------------------
(* Proofs about ClockRates: for every PLL, request, source clock and card  *)
(* rate within the limits that LimitAssumption states, a PLL reads back as *)
(* it was set, and the card clock and the data timeout are within bounds.  *)
EXTENDS ClockRates, FiniteSetTheorems, TLAPS

LEMMA PowerOfTwo == ASSUME NEW n \in Nat PROVE 2^n \in Nat \ {0}
<1> DEFINE S == 1 .. n
<1>1. IsFiniteSet(S) /\ Cardinality(S) = n BY FS_Interval
<1>2. IsFiniteSet(SUBSET S) /\ Cardinality(SUBSET S) = 2^Cardinality(S)
  BY <1>1, FS_SUBSET
<1>3. Cardinality(SUBSET S) \in Nat /\ Cardinality(SUBSET S) # 0
  <2>1. SUBSET S # {} OBVIOUS
  <2> QED BY <1>2, <2>1, FS_CardinalityType, FS_EmptySet
<1> QED BY <1>1, <1>2, <1>3

LEMMA Division ==
  ASSUME NEW a \in Nat, NEW b \in Nat \ {0}
  PROVE /\ a \div b \in Nat /\ a % b \in 0 .. b - 1
        /\ b * (a \div b) <= a /\ a < b * (a \div b) + b
        /\ a = b * (a \div b) + (a % b)
OBVIOUS

LEMMA Multiples ==
  ASSUME NEW b \in Nat, NEW m \in Nat, NEW n \in Nat, m < n
  PROVE b * m + b <= b * n
<1>1. PICK k \in Nat : n = m + 1 + k OBVIOUS
<1>2. b * k \in Nat /\ b * n = b * m + b + b * k BY <1>1
<1> QED BY <1>2

LEMMA QuotientIn ==
  ASSUME NEW a \in Nat, NEW b \in Nat \ {0}, NEW lo \in Nat, NEW hi \in Nat,
         b * lo <= a, a < b * hi
  PROVE a \div b \in Nat /\ a \div b >= lo /\ a \div b < hi
<1> DEFINE d == a \div b
<1>1. d \in Nat /\ b * d <= a /\ a < b * d + b BY Division
<1> HIDE DEF d
<1>2. d < lo => b * d + b <= b * lo BY <1>1, Multiples
<1>3. hi < d => b * hi + b <= b * d BY <1>1, Multiples
<1>4. b * d \in Nat /\ b * lo \in Nat /\ b * hi \in Nat BY <1>1
<1>5. d >= lo /\ d <= hi BY <1>1, <1>2, <1>3, <1>4
<1>6. d # hi BY <1>1, <1>4
<1> QED BY <1>1, <1>5, <1>6 DEF d

LEMMA QuotientIs ==
  ASSUME NEW a \in Nat, NEW b \in Nat \ {0}, NEW q \in Nat,
         b * q <= a, a < b * q + b
  PROVE a \div b = q /\ a % b = a - b * q
<1>1. b * (q + 1) = b * q + b OBVIOUS
<1>2. a \div b \in Nat /\ a \div b >= q /\ a \div b < q + 1
  BY <1>1, QuotientIn
<1>3. a \div b = q BY <1>2
<1>4. a = b * (a \div b) + (a % b) /\ a % b \in Nat BY Division
<1> QED BY <1>3, <1>4

LEMMA CeilDivIs ==
  ASSUME NEW a \in Nat, NEW b \in Nat \ {0}
  PROVE /\ CeilDiv(a, b) \in Nat /\ b * CeilDiv(a, b) >= a
        /\ \A k \in Nat : a <= b * k => CeilDiv(a, b) <= k
BY DEF CeilDiv
-----------------------------------------------------------------------------
(* The PLL. *)

Octaves == {1, 2, 4, 8, 16}

LEMMA Powers == 2^0 = 1 /\ 2^1 = 2 /\ 2^2 = 4 /\ 2^3 = 8 /\ 2^4 = 16
OBVIOUS

LEMMA PostDivIs ==
  ASSUME NEW f \in Nat, f * 16 >= FMin
  PROVE /\ PostDivShift(f) \in 0 .. 4
        /\ f * 2^PostDivShift(f) >= FMin
        /\ PostDivShift(f) = 0 \/ f * 2^PostDivShift(f) < 2 * FMin
<1> DEFINE Fits(v) == /\ f * 2^v >= FMin
                      /\ \A u \in 0 .. v - 1 : f * 2^u < FMin
<1>1. \E v \in 0 .. 4 : Fits(v)
  BY RateAssumption
<1>2. \E v \in 0 .. 4 : f * 2^v >= FMin
  BY <1>1
<1>3. PostDivShift(f) = CHOOSE v \in 0 .. 4 : Fits(v)
  BY <1>2 DEF PostDivShift
<1>4. PostDivShift(f) \in 0 .. 4 /\ Fits(PostDivShift(f))
  BY <1>1, <1>3
<1>5. PICK v \in 0 .. 4 : v = PostDivShift(f) /\ Fits(v)
  BY <1>4
<1>6. v = 0 \/ f * 2^v < 2 * FMin
  <2>1. v # 0 => f * 2^(v - 1) < FMin BY <1>5
  <2>2. v = 0 \/ v = 1 \/ v = 2 \/ v = 3 \/ v = 4 OBVIOUS
  <2>3. v # 0 => f * 2^v = 2 * (f * 2^(v - 1)) /\ f * 2^(v - 1) \in Nat
    <3>1. CASE v = 1 BY <3>1, Powers
    <3>2. CASE v = 2 BY <3>2, Powers
    <3>3. CASE v = 3 BY <3>3, Powers
    <3>4. CASE v = 4 BY <3>4, Powers
    <3> QED BY <2>2, <3>1, <3>2, <3>3, <3>4
  <2> QED BY <2>1, <2>3, RateAssumption
<1> QED BY <1>5, <1>6

LEMMA OctaveIs ==
  ASSUME NEW v \in 0 .. 4 PROVE 2^v \in Octaves
<1>1. v = 0 \/ v = 1 \/ v = 2 \/ v = 3 \/ v = 4 OBVIOUS
<1> QED BY <1>1, Powers DEF Octaves

(* ClockGetFrequency of a VCO at q / B, divided by D.                      *)
ReadBack(q, B, D) ==
  LET U == q \div B
      R == ((q % B) * 100000) \div B
  IN  U \div D + (CeilDiv((U % D) * 100000 + R, D) + 50000) \div 100000

(* What the multiplier rounds away: less than a unit of the VCO, and little *)
(* enough for the result to round back to what was asked.                  *)
LEMMA RoundTrip ==
  ASSUME NEW f \in Nat, NEW D \in Octaves, NEW B \in Nat \ {0},
         NEW P \in Nat \ {0}, 3 * P <= B,
         NEW q \in Nat, q <= f * D * B, f * D * B < q + P
  PROVE q \div B \in f * D - 1 .. f * D /\ ReadBack(q, B, D) = f
<1> DEFINE x == f * D
           U == q \div B
           r == q % B
           R == (r * 100000) \div B
           T == (U % D) * 100000 + R
<1>0. /\ D \in Nat \ {0} /\ x \in Nat
      /\ x * B = B * x /\ B * x \in Nat
      /\ q <= B * x /\ B * x < q + P
  BY DEF Octaves
<1>1. CASE q = B * x
  <2>1. U = x /\ r = 0
    <3> HIDE DEF x
    <3>1. B * x <= q /\ q < B * x + B /\ q - B * x = 0
      BY <1>0, <1>1
    <3> QED BY <1>0, <3>1, QuotientIs
  <2>2. R = 0 BY <2>1
  <2>3. U \div D = f /\ U % D = 0
    <3>1. D * f <= x /\ x < D * f + D /\ x - D * f = 0 BY <1>0
    <3> HIDE DEF x
    <3>2. x \div D = f /\ x % D = 0 BY <1>0, <3>1, QuotientIs
    <3> HIDE DEF U
    <3> QED BY <2>1, <3>2
  <2>4. CeilDiv(T, D) = 0
    <3>1. T = 0 BY <2>2, <2>3
    <3> HIDE DEF T
    <3> QED BY <3>1 DEF CeilDiv, Octaves
  <2>5. (CeilDiv(T, D) + 50000) \div 100000 = 0
    <3> HIDE DEF T
    <3> QED BY <2>4
  <2> HIDE DEF x, r, R, U
  <2>6. U \in x - 1 .. x BY <1>0, <2>1
  <2> QED BY <2>3, <2>5, <2>6 DEF x, r, R, U, ReadBack
<1>2. CASE q < B * x
  <2>1. PICK y \in Nat : x = y + 1
    <3> HIDE DEF x
    <3>1. x # 0 BY <1>0, <1>2
    <3> QED BY <1>0, <3>1
  <2>2. B * x = B * y + B /\ B * y \in Nat
    <3> HIDE DEF x
    <3> QED BY <2>1
  <2>3. U = y /\ r = q - B * y
    <3> HIDE DEF x
    <3>1. B * y <= q /\ q < B * y + B BY <1>0, <1>2, <2>2
    <3> QED BY <2>1, <3>1, QuotientIs
  <2>4. r \in Nat /\ r < B /\ 3 * r >= 2 * B
    <3> HIDE DEF x, r
    <3> QED BY <1>0, <1>2, <2>2, <2>3
  <2>5. R \in Nat /\ R >= 66666 /\ R < 100000
    <3> HIDE DEF r
    <3>1. r * 100000 \in Nat /\ B * 66666 <= r * 100000
          /\ r * 100000 < B * 100000
      BY <2>4
    <3> QED BY <3>1, QuotientIn
  <2>6. f >= 1 /\ U \div D = f - 1 /\ U % D = D - 1
    <3>1. f # 0 BY <1>0, <2>1 DEF Octaves
    <3>2. PICK g \in Nat : f = g + 1 BY <3>1
    <3>3. x = D * g + D BY <1>0, <3>2
    <3> HIDE DEF x
    <3>4. D * g \in Nat /\ y = D * g + D - 1 BY <1>0, <2>1, <3>2, <3>3
    <3>5. D * g <= y /\ y < D * g + D BY <1>0, <3>4
    <3>6. y \div D = g /\ y % D = y - D * g
      BY <1>0, <2>1, <3>2, <3>5, QuotientIs
    <3> QED BY <1>0, <2>3, <3>2, <3>4, <3>6
  <2> HIDE DEF U, R, x
  <2>7. T \in Nat /\ T >= 66666 * D /\ T <= 100000 * D
    BY <1>0, <2>5, <2>6
  <2>8. CeilDiv(T, D) \in Nat /\ CeilDiv(T, D) >= 66666
        /\ CeilDiv(T, D) <= 100000
    <3> HIDE DEF T
    <3>1. CeilDiv(T, D) \in Nat /\ D * CeilDiv(T, D) >= T
          /\ \A k \in Nat : T <= D * k => CeilDiv(T, D) <= k
      BY <1>0, <2>7, CeilDivIs
    <3> QED BY <2>7, <3>1 DEF Octaves
  <2>9. (CeilDiv(T, D) + 50000) \div 100000 = 1
    <3> HIDE DEF T
    <3> QED BY <2>8
  <2>10. U \in x - 1 .. x BY <2>1, <2>3
  <2> QED BY <2>6, <2>9, <2>10 DEF U, R, x, ReadBack
<1> QED BY <1>0, <1>1, <1>2

LEMMA PllIs ==
  ASSUME NEW f \in Nat, f * 16 >= FMin,
         con1 = [postdiv |-> PostDivField(Requested(f)),
                 pcw |-> Pcw(Requested(f)) % 2^PcwBits]
  PROVE /\ ClockGetFrequency = Smaller(f, FMax)
        /\ VcoUnits \in FMin - 1 .. FMax
<1> DEFINE g == Requested(f)
           v == PostDivShift(g)
           D == 2^v
           B == 2^FractionBits
           W == 2^PcwBits
           P == ParentRate
           p == Pcw(g)
<1>1. g \in Nat /\ g * 16 >= FMin /\ g <= FMax /\ g = Smaller(f, FMax)
  BY RateAssumption DEF Requested, Smaller
<1>2. v \in 0 .. 4 /\ g * D >= FMin /\ (v = 0 \/ g * D < 2 * FMin)
  <2> HIDE DEF g
  <2> QED BY <1>1, PostDivIs
<1>3. D \in Octaves /\ (v = 0 => D = 1)
  <2> HIDE DEF v
  <2> QED BY <1>2, OctaveIs, Powers
<1>4. B \in Nat \ {0} /\ W \in Nat \ {0} /\ P \in Nat \ {0}
      /\ 3 * P <= B /\ FMax * B < P * W
  <2>1. B \in Nat \ {0} /\ W \in Nat \ {0} BY PowerOfTwo, RateAssumption
  <2> QED BY <2>1, RateAssumption, VcoAssumption
<1>5. PostDivField(g) = v
  <2> HIDE DEF g
  <2> QED BY <1>2 DEF PostDivField, Smaller
<1>6. p = (g * D * B) \div P BY DEF Pcw
<1> HIDE DEF g, v, D, B, W, P, p
<1>7. g * D \in Nat /\ g * D <= FMax
  BY <1>1, <1>2, <1>3, VcoAssumption, RateAssumption DEF Octaves
<1>8. p \in Nat /\ P * p <= g * D * B /\ g * D * B < P * p + P
  <2>1. g * D * B \in Nat BY <1>4, <1>7
  <2> QED BY <1>4, <1>6, <2>1, Division
<1>9. p < W
  <2>1. g * D * B <= FMax * B BY <1>4, <1>7, RateAssumption
  <2>2. P * p < P * W BY <1>4, <1>7, <1>8, <2>1, RateAssumption
  <2> QED BY <1>4, <1>8, <2>2
<1>10. con1.pcw = p /\ con1.postdiv = v
  <2>1. p % W = p BY <1>4, <1>8, <1>9
  <2> QED BY <1>5, <2>1 DEF g, p, W
<1> DEFINE q == P * p
           U == q \div B
           R == ((q % B) * 100000) \div B
<1>11. VcoUnits = U /\ VcoRest = R
  BY <1>10 DEF VcoUnits, VcoRest, P, B
<1>12. U \in g * D - 1 .. g * D /\ ReadBack(q, B, D) = g
  <2>1. q \in Nat /\ q <= g * D * B /\ g * D * B < q + P BY <1>4, <1>8
  <2> HIDE DEF q
  <2> QED BY <1>1, <1>3, <1>4, <2>1, RoundTrip
<1>13. ClockGetFrequency = g
  <2>1. 2^con1.postdiv = D BY <1>10 DEF D
  <2> HIDE DEF U, R
  <2> QED BY <1>11, <1>12, <2>1 DEF ClockGetFrequency, ReadBack, U, R
<1>14. VcoUnits \in FMin - 1 .. FMax
  BY <1>2, <1>7, <1>11, <1>12, RateAssumption
<1> QED BY <1>1, <1>13, <1>14
-----------------------------------------------------------------------------
(* The card clock. *)

LEMMA TwoTo20 == 2^20 = 1048576
OBVIOUS

LEMMA Quarters ==
  ASSUME NEW a \in Nat, NEW d \in Nat \ {0}
  PROVE (a \div 4) \div d = a \div (4 * d)
OBVIOUS

(* No less than asked, in units of 2^20 clocks, unless the field is full.  *)
LEMMA TimeoutIs ==
  ASSUME NEW n \in Nat
  PROVE /\ TimeoutUnits(n) \in 0 .. 255
        /\ TimeoutUnits(n) = 255 \/ (TimeoutUnits(n) + 1) * 2^20 >= n
<1> DEFINE units == CeilDiv(n, 1048576)
<1>1. units \in Nat /\ 1048576 * units >= n BY CeilDivIs
<1>2. TimeoutUnits(n) = Smaller(IF units > 1 THEN units - 1 ELSE 0, 255)
  BY TwoTo20 DEF TimeoutUnits
<1> HIDE DEF units
<1> QED BY <1>1, <1>2, TwoTo20 DEF Smaller

LEMMA CyclesIs ==
  ASSUME NEW sclk \in Nat \ {0}, sclk <= 1000000000
  PROVE CyclesOf(sclk) \in Nat
<1> DEFINE period == 1000000000 \div sclk
           c == CeilDiv(100000000, period)
<1>1. period \in Nat \ {0}
  <2>1. sclk \in Nat \ {0} /\ sclk * 1 <= 1000000000 OBVIOUS
  <2>2. 1000000000 < sclk * 1000000001 BY <2>1
  <2> QED BY <2>1, <2>2, QuotientIn
<1>2. c \in Nat
  <2> HIDE DEF period
  <2> QED BY <1>1, CeilDivIs
<1>3. CyclesOf(sclk) = c + 3 * 2^20 BY DEF CyclesOf
<1> HIDE DEF c
<1>4. 3 * 2^20 \in Nat BY TwoTo20
<1> QED BY <1>2, <1>3, <1>4

MclkSet(source, hz) ==
  [mode |-> Mclk(source, hz).mode, div |-> Mclk(source, hz).div,
   sclk |-> Mclk(source, hz).sclk,
   timeout |-> TimeoutUnits(CyclesOf(Mclk(source, hz).sclk)),
   hz |-> hz, source |-> source]

LEMMA MclkIs ==
  ASSUME NEW source \in SourceRates, NEW hz \in CardRates
  PROVE LET m  == Mclk(source, hz)
            by == IF m.mode = "NO_DIV" THEN 1
                  ELSE IF m.div = 0 THEN 2 ELSE 4 * m.div
        IN  /\ source \div by <= hz
            /\ m.sclk = source \div by
            /\ m.sclk \in Nat \ {0} /\ m.sclk <= 1000000000
<1>1. /\ source \in Nat /\ source >= 8 /\ source <= 1000000000
      /\ hz \in Nat /\ hz >= 2
  BY RateAssumption, CardAssumption
<1>2. CASE hz >= source
  BY <1>1, <1>2 DEF Mclk
<1>3. CASE hz < source /\ hz >= source \div 2
  BY <1>1, <1>3 DEF Mclk
<1>4. CASE hz < source /\ hz < source \div 2
  <2> DEFINE d == Divider(source, hz)
  <2>1. d \in Nat /\ hz * 4 * d >= source
        /\ \A k \in Nat : source <= hz * 4 * k => d <= k
    BY <1>1, CeilDivIs DEF Divider
  <2>2. d >= 1 BY <1>1, <2>1
  <2>3. Mclk(source, hz) = [mode |-> "DIV", div |-> d,
                            sclk |-> (source \div 4) \div d]
    BY <1>1, <1>4 DEF Mclk
  <2> HIDE DEF d
  <2>4. (source \div 4) \div d = source \div (4 * d)
    <3>1. source \in Nat /\ d \in Nat \ {0} BY <1>1, <2>1, <2>2
    <3> QED BY <3>1, Quarters
  <2> DEFINE D == 4 * d
             n == source \div D
  <2>5. D \in Nat \ {0} /\ D * hz >= source /\ D <= source
    <3>1. PICK k \in Nat : k >= 2 /\ 4 * k <= source /\ source <= 4 * k + 3
      <4>1. /\ source \div 4 \in Nat /\ 4 * (source \div 4) <= source
            /\ source < 4 * (source \div 4) + 4
        BY <1>1
      <4> QED BY <1>1, <4>1
    <3>2. source <= hz * 4 * k
      <4>1. 8 * k <= hz * 4 * k BY <1>1, <3>1
      <4> QED BY <1>1, <3>1, <4>1
    <3>3. d <= k BY <2>1, <3>1, <3>2
    <3> QED BY <1>1, <2>1, <2>2, <3>1, <3>3
  <2>6. source < D * (hz + 1)
    <3>1. D * (hz + 1) = D * hz + D
      <4> HIDE DEF D
      <4> QED BY <1>1, <2>5
    <3> QED BY <1>1, <2>5, <3>1
  <2>7. n \in Nat /\ n >= 1 /\ n < hz + 1
    <3> HIDE DEF D
    <3>1. D * 1 <= source /\ source \in Nat /\ hz + 1 \in Nat
      BY <1>1, <2>5
    <3> QED BY <2>5, <2>6, <3>1, QuotientIn
  <2>8. n <= source
    <3> HIDE DEF D
    <3>1. D * n <= source BY <1>1, <2>5, Division
    <3> HIDE DEF n
    <3>2. n <= D * n BY <2>5, <2>7
    <3> QED BY <1>1, <2>5, <2>7, <3>1, <3>2
  <2> HIDE DEF n
  <2>9. n \in Nat \ {0} /\ n <= hz /\ n <= 1000000000
    BY <1>1, <2>7, <2>8
  <2> QED BY <2>2, <2>3, <2>4, <2>9 DEF n
<1>5. hz \in Nat /\ source \in Nat /\ source \div 2 \in Nat BY <1>1
<1> QED BY <1>2, <1>3, <1>4, <1>5
-----------------------------------------------------------------------------
(* A call programs all its fields, so that what was asked last is what is  *)
(* programmed.                                                             *)
RatesInv ==
  /\ asked \in Nat
  /\ asked # 0 =>
       con1 = [postdiv |-> PostDivField(Requested(asked)),
               pcw |-> Pcw(Requested(asked)) % 2^PcwBits]
  /\ \/ mclk.source = 0
     \/ \E source \in SourceRates, hz \in CardRates :
          mclk = MclkSet(source, hz)

LEMMA RatesInitInv == Init => RatesInv
BY DEF Init, RatesInv

LEMMA RatesNextInv == RatesInv /\ [Next]_vars => RatesInv'
<1> SUFFICES ASSUME RatesInv, [Next]_vars PROVE RatesInv'
  OBVIOUS
<1>1. ASSUME NEW f \in PllRequests, ClockSetFrequency(f) PROVE RatesInv'
  BY <1>1, RateAssumption
  DEF ClockSetFrequency, RatesInv, MclkSet, PostDivField, PostDivShift,
      Requested, Pcw, Mclk, Divider, CyclesOf
<1>2. ASSUME NEW source \in SourceRates, NEW hz \in CardRates,
             MsdcSetMclk(source, hz)
      PROVE RatesInv'
  <2>1. mclk' = MclkSet(source, hz) BY <1>2 DEF MsdcSetMclk, MclkSet
  <2> QED BY <1>2, <2>1 DEF MsdcSetMclk, RatesInv
<1>3. CASE ClockWalk \/ UNCHANGED vars
  <2>1. con1' = con1 /\ asked' = asked /\ mclk' = mclk
    BY <1>3 DEF ClockWalk, vars
  <2> QED BY <2>1 DEF RatesInv
<1> QED BY <1>1, <1>2, <1>3 DEF Next

LEMMA PllCase ==
  ASSUME RatesInv, asked * 16 >= FMin
  PROVE /\ ClockGetFrequency = Smaller(asked, FMax)
        /\ VcoUnits \in FMin - 1 .. FMax
<1>1. asked \in Nat /\ asked # 0 BY RateAssumption DEF RatesInv
<1>2. con1 = [postdiv |-> PostDivField(Requested(asked)),
              pcw |-> Pcw(Requested(asked)) % 2^PcwBits]
  BY <1>1 DEF RatesInv
<1> QED BY <1>1, <1>2, PllIs

LEMMA CardCase == RatesInv => CardRateKept
<1> SUFFICES ASSUME RatesInv, mclk.source > 0 PROVE CardRateKept
  BY DEF CardRateKept
<1>1. PICK source \in SourceRates, hz \in CardRates :
        mclk = MclkSet(source, hz)
  BY DEF RatesInv
<1> DEFINE m  == Mclk(source, hz)
           by == IF m.mode = "NO_DIV" THEN 1
                 ELSE IF m.div = 0 THEN 2 ELSE 4 * m.div
<1>2. /\ source \div by <= hz /\ m.sclk = source \div by
      /\ m.sclk \in Nat \ {0} /\ m.sclk <= 1000000000
  BY MclkIs
<1>3. /\ mclk.mode = m.mode /\ mclk.div = m.div /\ mclk.sclk = m.sclk
      /\ mclk.hz = hz /\ mclk.source = source
      /\ mclk.timeout = TimeoutUnits(CyclesOf(m.sclk))
  BY <1>1 DEF MclkSet
<1>4. /\ mclk.timeout \in 0 .. 255
      /\ \/ mclk.timeout = 255
         \/ (mclk.timeout + 1) * 2^20 >= CyclesOf(mclk.sclk)
  <2> HIDE DEF m
  <2> QED BY <1>2, <1>3, CyclesIs, TimeoutIs
<1> HIDE DEF m
<1> QED BY <1>2, <1>3, <1>4 DEF CardRateKept

(* A PLL reads back as the frequency it was set to, capped, and its VCO    *)
(* runs within its limits, for every request, limit and field width        *)
(* (ClockDxe.c:105-167, 400-425).                                          *)
THEOREM PllReadsBack == Spec => []PllRateKept
<1>1. RatesInv => PllRateKept BY PllCase DEF PllRateKept
<1> QED BY <1>1, RatesInitInv, RatesNextInv, PTL DEF Spec

(* The card clock is no faster than asked, and the data timeout no shorter *)
(* than asked unless its field is full (MsdcDxe.c:327-331, 392-407).       *)
THEOREM CardRateIsKept == Spec => []CardRateKept
<1> QED BY CardCase, RatesInitInv, RatesNextInv, PTL DEF Spec
=============================================================================
