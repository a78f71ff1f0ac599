----------------------------- MODULE ClockTree -----------------------------
(* The clock tree of ClockDxe (ClockDxe.c over the table of ClockImplLib)  *)
(* as pure operators: which clock feeds which, and which register writes   *)
(* ClockSetEnable makes for one call.                                      *)
(*                                                                         *)
(* reg[c] is the set of register bits of clock c that read 1: "gate" of a  *)
(* gate or mux gate, "pwr", "iso", "en" and "rstb" of a PLL.  sel[c] is    *)
(* the selector value of a mux.                                            *)
EXTENDS Naturals, SequencesExt

CONSTANTS
  Clock,        \* the entries of gClocks
  Type,         \* Type[c]: MTK_CLOCK_TYPE
  Parents,      \* Parents[c]: the inputs, in selector order for a mux
  Inverted,     \* gates whose status bit is 1 when open
  StatusOnly,   \* gates without set and clear registers
  ResetBar,     \* PLLs with a ResetBarMask
  SelValues,    \* values a selector field can hold
  NoClock       \* the answer for a selector beyond ParentCount

ASSUME ClockAssumption ==
  /\ Type \in [Clock -> {"Fixed", "Pll", "Mux", "MuxGate", "Factors", "Gate"}]
  /\ \A c \in Clock : Parents[c] \in Seq(Clock)
  /\ \A c \in Clock : Type[c] \in {"Pll", "Factors", "Gate"} =>
                        Len(Parents[c]) = 1
  /\ Inverted \subseteq Clock /\ StatusOnly \subseteq Clock
  /\ ResetBar \subseteq Clock /\ SelValues \subseteq Nat
  /\ NoClock \notin Clock

IsMux(c) == Type[c] \in {"Mux", "MuxGate"}
Muxes    == {c \in Clock : IsMux(c)}
Plls     == {c \in Clock : Type[c] = "Pll"}

(* ClockGetParent for a mux, the descriptor's Parent for the others. *)
Parent(sel, c) ==
  CASE Type[c] = "Fixed" -> NoClock
    [] IsMux(c) -> IF sel[c] < Len(Parents[c]) THEN Parents[c][sel[c] + 1]
                   ELSE NoClock
    [] OTHER -> Parents[c][1]

(* The clocks ClockSetEnable(c) visits, the root first: the recursion      *)
(* reaches the parent before it writes a register of its own.              *)
Path(sel, c) ==
  LET path[x \in Clock \cup {NoClock}] ==
        IF x = NoClock THEN <<NoClock>>
        ELSE IF Type[x] = "Fixed" THEN <<x>>
        ELSE Append(path[Parent(sel, x)], x)
  IN path[c]

(* The recursion succeeds unless a selector on the way is out of range.    *)
Reachable(sel, c) == Head(Path(sel, c)) # NoClock

Write(c, bit, value) == [clock |-> c, bit |-> bit, value |-> value]

(* Mutant: isolation is lifted last. *)
PllOnIsolated(c) ==
  <<Write(c, "pwr", TRUE), Write(c, "en", TRUE), Write(c, "iso", FALSE)>>
    \o (IF c \in ResetBar THEN <<Write(c, "rstb", TRUE)>> ELSE <<>>)

(* Mutant: an enable starts with a reset of the PLL. *)
PllOnReset(c) ==
  <<Write(c, "rstb", FALSE), Write(c, "pwr", TRUE), Write(c, "iso", FALSE),
    Write(c, "en", TRUE), Write(c, "rstb", TRUE)>>

PllOn(c) ==
  <<Write(c, "pwr", TRUE), Write(c, "iso", FALSE), Write(c, "en", TRUE)>>
    \o (IF c \in ResetBar THEN <<Write(c, "rstb", TRUE)>> ELSE <<>>)

PllOff(c) ==
  (IF c \in ResetBar THEN <<Write(c, "rstb", FALSE)>> ELSE <<>>)
    \o <<Write(c, "en", FALSE), Write(c, "iso", TRUE), Write(c, "pwr", FALSE)>>

(* A gate's bit is 1 when closed, the other way round when Inverted.  A    *)
(* gate with only a status register is written with the bit set to open.   *)
GateBit(c, enable) ==
  LET open == enable # (c \in Inverted)
  IN  IF c \in StatusOnly THEN open ELSE ~open

OwnWrites(c, enable) ==
  CASE Type[c] = "Pll"     -> IF enable THEN PllOn(c) ELSE PllOff(c)
    [] Type[c] = "MuxGate" -> <<Write(c, "gate", ~enable)>>
    [] Type[c] = "Gate"    -> <<Write(c, "gate", GateBit(c, enable))>>
    [] OTHER               -> <<>>

(* Mutant: a mux or a gate leaves its parent alone. *)
EnableWritesOwn(sel, c, enable) == OwnWrites(c, enable)

(* The register writes of a whole ClockSetEnable call, in order: those for *)
(* the parent, then the clock's own.                                       *)
EnableWrites(sel, c, enable) ==
  LET writes[x \in Clock \cup {NoClock}] ==
        IF x = NoClock THEN <<>>
        ELSE writes[Parent(sel, x)] \o OwnWrites(x, enable)
  IN writes[c]

Written(reg, w) ==
  [reg EXCEPT ![w.clock] = IF w.value THEN @ \cup {w.bit} ELSE @ \ {w.bit}]

(* Registers of one clock after ClockSetEnable has passed through it.      *)
BitsAfter(c, enable) ==
  CASE Type[c] = "Pll" /\ enable ->
         {"pwr", "en"} \cup (IF c \in ResetBar THEN {"rstb"} ELSE {})
    [] Type[c] = "Pll" /\ ~enable -> {"iso"}
    [] Type[c] = "MuxGate" -> IF enable THEN {} ELSE {"gate"}
    [] Type[c] = "Gate" -> IF GateBit(c, enable) THEN {"gate"} ELSE {}
    [] OTHER -> {}

(* The clock signal: a clock ticks when every stage of its path does.      *)
StageOn(reg, c) ==
  CASE Type[c] = "Pll" -> /\ {"pwr", "en"} \subseteq reg[c]
                          /\ "iso" \notin reg[c]
                          /\ c \in ResetBar => "rstb" \in reg[c]
    [] Type[c] \in {"MuxGate", "Gate"} ->
         ("gate" \notin reg[c]) # (c \in Inverted)
    [] OTHER -> TRUE

Ticks(reg, sel, c) ==
  /\ Reachable(sel, c)
  /\ \A i \in DOMAIN Path(sel, c) : StageOn(reg, Path(sel, c)[i])

(* Power-on values: every stage off, or on as LK leaves it.                *)
OffBits(c) == CASE Type[c] = "Pll" -> {"iso"}
                [] Type[c] \in {"MuxGate", "Gate"} ->
                     IF c \in Inverted THEN {} ELSE {"gate"}
                [] OTHER -> {}
OnBits(c) == CASE Type[c] = "Pll" -> BitsAfter(c, TRUE)
               [] c \in Inverted -> {"gate"}
               [] OTHER -> {}
=============================================================================
