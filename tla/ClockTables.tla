---------------------------- MODULE ClockTables ----------------------------
(* The tables of both SoCs as ClockDxe walks them: ClockSetEnable,         *)
(* ClockGetFrequency and ClockIsEnabled all go from a clock to its parent  *)
(* until they reach a fixed clock, over whatever the selectors say.        *)
EXTENDS ClockEntries, Sequences, FiniteSets

M68 == INSTANCE Mt6768Clocks
M89 == INSTANCE Mt6789Clocks

VARIABLES
  soc,   \* the SoC the firmware is built for
  walk   \* the clocks visited so far, the one asked for first

Table  == [mt6768 |-> M68!Clocks, mt6789 |-> M89!Clocks]
Clocks == Table[soc]
Here   == walk[Len(walk)]

(* ClockGetById of a client's clock.                                       *)
ClockGetById(c) == walk = <<>> /\ walk' = <<c>> /\ UNCHANGED soc

(* ClockGetParent of a mux with a selector below ParentCount; Parent of    *)
(* the other entries.                                                      *)
ClockGetParent ==
  /\ walk # <<>> /\ Here \in DOMAIN Clocks
  /\ \E i \in DOMAIN Clocks[Here].inputs :
       walk' = Append(walk, Clocks[Here].inputs[i])
  /\ UNCHANGED soc

-----------------------------------------------------------------------------
(* Two clocks of the MT6789 are excluded by name.  The base, power and   *)
(* multiplier registers of its USB PLL are one word, so a new multiplier   *)
(* overwrites the bits that power and enable it (ClockImplLib.c:1118); the *)
(* mux of the MFG PLL has the update register -1, which ClockSetParent     *)
(* takes for a register (ClockImplLib.c:1342, ClockDxe.c:601).             *)
FieldsOverlap == {"APMIXED_USBPLL"}
NoUpdate      == {"TOP_MFG_PLL_SEL"}

(* A walk visits no clock twice and meets only clocks of the table, from   *)
(* every clock and whatever the selectors say, so the recursions of        *)
(* ClockSetEnable, ClockIsEnabled and ClockGetFrequency end at a fixed     *)
(* clock (ClockDxe.c:188-425).                                             *)
WalkEnds ==
  /\ \A i, j \in DOMAIN walk : i # j => walk[i] # walk[j]
  /\ \A i \in DOMAIN walk : walk[i] \in DOMAIN Clocks
  /\ walk # <<>> /\ Clocks[Here].inputs = <<>> => Clocks[Here].type = "Fixed"

(* No bit a clock is controlled by belongs to another clock or to another  *)
(* field of its own, it lies in the registers of its controller, and a     *)
(* selector holds every parent: otherwise a call for one clock would       *)
(* change another (ClockDxe.c:188-322, 551-607).                           *)
OwnBits ==
  Len(walk) = 1 /\ Here \in DOMAIN Clocks =>
    LET e == Clocks[Here]
    IN  /\ \A c \in DOMAIN Clocks \ {Here} : Bits(e) \cap Bits(Clocks[c]) = {}
        /\ Here \notin FieldsOverlap =>
             \A i, j \in DOMAIN Fields(e) :
               i < j => Fields(e)[i] \cap Fields(e)[j] = {}
        /\ Here \notin NoUpdate =>
             \A b \in Bits(e) : b[2] \in 0 .. \hFFC /\ b[3] \in 0 .. 31
        /\ e.type \in {"Mux", "MuxGate"} => Len(e.inputs) <= 2^e.width

(* The tables ClockDxe is built with are sound, in both ways.              *)
TablesSound == WalkEnds /\ OwnBits
=============================================================================
