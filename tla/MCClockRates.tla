---------------------------- MODULE MCClockRates ----------------------------
(* The limits of the MT6768 PLLs; the frequencies the post-divider changes *)
(* at with their neighbours, and a sweep; the three rates the MSDC driver  *)
(* asks for against source clocks up to 416 MHz.  50 MHz is below what the *)
(* post-dividers cover.                                                    *)
EXTENDS ClockRates

Edges == UNION {{(15000 \div 2^v) - 1, 15000 \div 2^v, (15000 \div 2^v) + 1} :
                v \in 0 .. 4} \cup {37999, 38000, 38001, 42000}

MCPllRequests ==
  {f \in 938 .. 42000 : f % 199 = 7} \cup (Edges \ {936, 937}) \cup {500}
MCSourceRates == {26000000 * k + 130001 * j : k \in 1 .. 16, j \in {0, 1}}
MCCardRates   == {400000, 25000000, 50000000}
=============================================================================
