------------------------------ MODULE MtkClock ------------------------------
(* MTK_CLOCK_PROTOCOL (ClockDxe.c) one register write at a time: the       *)
(* clients call SetEnable and SetParent in any order, and between two      *)
(* writes the tree is what the hardware sees.                              *)
EXTENDS ClockTree

(* No clock is derived from itself, whatever the selectors say (TablesSound *)
(* of ClockTables has that for the real tables); only gates have a sense    *)
(* and set and clear registers, only PLLs a ResetBarMask.                   *)
ASSUME TableAssumption ==
  /\ \A S \in SUBSET Clock :
       S # {} =>
         \E c \in S : \A i \in DOMAIN Parents[c] : Parents[c][i] \notin S
  /\ Inverted \cup StatusOnly \subseteq {c \in Clock : Type[c] = "Gate"}
  /\ ResetBar \subseteq Plls

VARIABLES
  reg,    \* register bits, see ClockTree
  sel,    \* selector fields as the CPU reads them
  live,   \* selectors the muxes act on: latched by UpdateOffset
  todo,   \* register writes the running call still has to make
  call    \* the last call: operation, clock, argument, result

vars == <<reg, sel, live, todo, call>>

Call(op, c, arg, ok) == [op |-> op, clock |-> c, arg |-> arg, ok |-> ok]

(* LK leaves each PLL on or off, every other stage on and the selectors    *)
(* anywhere; the calls then reach what else the bits can be.               *)
Init ==
  /\ \E on \in SUBSET Plls : reg = [c \in Clock |->
       IF Type[c] = "Pll" /\ c \notin on THEN OffBits(c) ELSE OnBits(c)]
  /\ sel \in [Muxes -> SelValues]
  /\ live = sel /\ todo = <<>>
  /\ call = Call("none", NoClock, NoClock, TRUE)

Idle == todo = <<>>

ClockSetEnable(c, enable) ==
  /\ Idle
  /\ todo' = IF Reachable(sel, c) THEN EnableWrites(sel, c, enable) ELSE <<>>
  /\ call' = Call("enable", c, enable, Reachable(sel, c))
  /\ UNCHANGED <<reg, sel, live>>

(* Mutant: the update strobe comes before the new value. *)
ParentWritesEarly(c, index) ==
  <<Write(c, "clear", 0), Write(c, "update", 0), Write(c, "set", index)>>

(* ClockSetParent: the selector field is cleared, set and then latched.    *)
ParentWrites(c, index) ==
  <<Write(c, "clear", 0), Write(c, "set", index), Write(c, "update", 0)>>

ClockSetParent(c, p) ==
  /\ Idle /\ IsMux(c)
  /\ \E index \in 0 .. Len(Parents[c]) - 1 :
       /\ Parents[c][index + 1] = p
       /\ \A j \in 1 .. index : Parents[c][j] # p
       /\ todo' = IF sel[c] = index THEN <<>> ELSE ParentWrites(c, index)
       /\ call' = Call("parent", c, p, TRUE)
  /\ UNCHANGED <<reg, sel, live>>

(* Unknown parent, or not a mux: refused before any access.                *)
ClockSetParentRefused(c, p) ==
  /\ Idle
  /\ ~IsMux(c) \/ p \notin Range(Parents[c])
  /\ call' = Call("parent", c, p, FALSE)
  /\ UNCHANGED <<reg, sel, live, todo>>

ClockWriteBit(w) ==
  /\ w.bit \in {"gate", "pwr", "iso", "en", "rstb"}
  /\ reg' = Written(reg, w) /\ UNCHANGED <<sel, live>>

(* Set and clear registers only turn bits on or off, so the set write adds *)
(* to what the clear write left.                                           *)
ClockWriteSelector(w) ==
  /\ w.bit \in {"clear", "set"}
  /\ sel' = [sel EXCEPT ![w.clock] = w.value] /\ UNCHANGED <<reg, live>>

ClockWriteUpdate(w) ==
  /\ w.bit = "update"
  /\ live' = [live EXCEPT ![w.clock] = sel[w.clock]] /\ UNCHANGED <<reg, sel>>

ClockWrite ==
  /\ ~Idle
  /\ \/ ClockWriteBit(Head(todo))
     \/ ClockWriteSelector(Head(todo))
     \/ ClockWriteUpdate(Head(todo))
  /\ todo' = Tail(todo) /\ UNCHANGED call

Next ==
  \/ \E c \in Clock, enable \in BOOLEAN : ClockSetEnable(c, enable)
  \/ \E c, p \in Clock : ClockSetParent(c, p) \/ ClockSetParentRefused(c, p)
  \/ ClockWrite

Spec == Init /\ [][Next]_vars
-----------------------------------------------------------------------------
Done(op) == Idle /\ call.op = op /\ call.ok

ThroughStatusOnly(c) == Range(Path(live, c)) \cap StatusOnly # {}

(* A PLL is enabled only while powered and out of isolation, and out of    *)
(* reset only while enabled, at every register write of any sequence of    *)
(* calls (the sequence of ClockSetEnable's ClockTypePll case).             *)
PllSequenced ==
  \A c \in Plls : /\ "en" \in reg[c] => "pwr" \in reg[c] /\ "iso" \notin reg[c]
                  /\ "rstb" \in reg[c] => "en" \in reg[c]
                  /\ "iso" \notin reg[c] => "pwr" \in reg[c]

(* A successful SetEnable(TRUE) starts the clock whatever the state of the *)
(* PLLs, muxes and gates it is derived from.  The exception is a gate with *)
(* only a status register: the code writes where there is nothing to write.*)
(* Every clock on the path ends with BitsAfter, which is how MsdcBringUp   *)
(* models the call.                                                        *)
EnabledTicks ==
  Done("enable") =>
    /\ call.arg = TRUE /\ ~ThroughStatusOnly(call.clock)
         => Ticks(reg, live, call.clock)
    /\ \A c \in Range(Path(sel, call.clock)) :
         reg[c] = BitsAfter(c, call.arg)

(* Enabling a clock stops no other clock, at any of its writes.            *)
EnableOnlyStarts ==
  [][call.op = "enable" /\ call.arg = TRUE /\ ~Idle =>
       \A c \in Clock : Ticks(reg, live, c) /\ ~ThroughStatusOnly(c)
                          => Ticks(reg, live, c)']_vars

(* A mux is never switched to an input nobody asked for: the cleared       *)
(* selector of ClockSetParent is not latched.                              *)
SwitchesOnce ==
  [][\A m \in Muxes : live'[m] # live[m] =>
       call.op = "parent" /\ Parents[m][live'[m] + 1] = call.arg]_vars
=============================================================================
