---------------------------- MODULE ClockEntries ----------------------------
(* The entries of gClocks: MTK_CLOCK_DESC without name and id, and the     *)
(* register bits an entry gives its clock.  SetOffset and ClearOffset of a *)
(* mux are MuxOffset + 4 and + 8 in every entry, so a mux is placed by     *)
(* MuxOffset alone.                                                        *)
EXTENDS Integers

NoGate == -1   \* ClockTypeMux: a mux without a gate bit
Beyond == -1   \* UpdateOffset = -1: as a UINT32, 4 GB past the base

Fixed == [type |-> "Fixed", inputs |-> <<>>]

(* PcwShift is 0 and PostDivShift 24 in every entry, FMin and FMax are     *)
(* 1.5 and 3.8 GHz.                                                        *)
Pll(base, power, resetBar, postDiv, pcw, pcwBits, pcwiBits, parent) ==
  [type |-> "Pll", base |-> base, power |-> power, resetBar |-> resetBar,
   postDiv |-> postDiv, pcw |-> pcw, pcwBits |-> pcwBits,
   pcwiBits |-> pcwiBits, inputs |-> <<parent>>]

Mux(offset, shift, width, gate, update, updateShift, parents) ==
  [type |-> IF gate = NoGate THEN "Mux" ELSE "MuxGate", offset |-> offset,
   shift |-> shift, width |-> width, gate |-> gate, update |-> update,
   updateShift |-> updateShift, inputs |-> parents]

Factor(parent, mult, div) ==
  [type |-> "Factors", mult |-> mult, div |-> div, inputs |-> <<parent>>]

(* The gates of one set of registers: a bit and a parent for each.         *)
Gates(controller, set, clear, status, inverted, t) ==
  [c \in DOMAIN t |->
     [type |-> "Gate", controller |-> controller, set |-> set,
      clear |-> clear, status |-> status, inverted |-> inverted,
      shift |-> t[c][1], inputs |-> <<t[c][2]>>]]

Field(controller, register, first, width) ==
  {<<controller, register, b>> : b \in first .. first + width - 1}

(* The control fields of an entry: what ClockDxe writes for this clock.    *)
PllFields(e) ==
  <<Field("ApMixed", e.base, 0, 1),
    IF e.resetBar THEN Field("ApMixed", e.base, 23, 1) ELSE {},
    Field("ApMixed", e.power, 0, 2),
    Field("ApMixed", e.postDiv, 24, 3),
    Field("ApMixed", e.pcw, 0, e.pcwBits)>>

MuxFields(e) ==
  <<Field("TopCkGen", e.offset, e.shift, e.width),
    IF e.gate = NoGate THEN {} ELSE Field("TopCkGen", e.offset, e.gate, 1),
    IF e.update = 0 THEN {}
    ELSE Field("TopCkGen", e.update, e.updateShift, 1)>>

GateFields(e) ==
  <<UNION {Field(e.controller, r, e.shift, 1) :
             r \in {e.set, e.clear, e.status}}>>

Fields(e) ==
  CASE e.type = "Pll" -> PllFields(e)
    [] e.type \in {"Mux", "MuxGate"} -> MuxFields(e)
    [] e.type = "Gate" -> GateFields(e)
    [] OTHER -> <<>>

Bits(e) == UNION {Fields(e)[i] : i \in DOMAIN Fields(e)}
=============================================================================
