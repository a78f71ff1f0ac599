-------------------------- MODULE MtkClock_proofs --------------------------
(* Proofs about MtkClock: for every clock table without a cycle, the PLLs  *)
(* are sequenced at every register write of any sequence of calls, a clock *)
(* that was enabled ticks, an enable stops no other clock, and a mux is    *)
(* switched only to the input that was asked for.                          *)
EXTENDS MtkClock, SequenceTheorems, TLAPS

Nodes == Clock \cup {NoClock}
Selectors == [Muxes -> Nat]

LEMMA ParentIsNode ==
  ASSUME NEW s \in Selectors, NEW c \in Clock
  PROVE Parent(s, c) = NoClock \/
          \E i \in DOMAIN Parents[c] : Parent(s, c) = Parents[c][i]
<1>1. CASE Type[c] = "Fixed" BY <1>1 DEF Parent, IsMux
<1>2. CASE IsMux(c)
  <2>1. s[c] \in Nat /\ Parents[c] \in Seq(Clock)
    BY <1>2, ClockAssumption DEF Muxes, Selectors
  <2>2. s[c] < Len(Parents[c]) => s[c] + 1 \in DOMAIN Parents[c]
    BY <2>1
  <2> QED BY <1>2, <2>2 DEF Parent, IsMux
<1>3. CASE Type[c] # "Fixed" /\ ~IsMux(c)
  <2>1. Type[c] \in {"Pll", "Factors", "Gate"}
    BY <1>3, ClockAssumption DEF IsMux
  <2>2. 1 \in DOMAIN Parents[c]
    BY <2>1, ClockAssumption
  <2> QED BY <1>3, <2>2 DEF Parent, IsMux
<1> QED BY <1>1, <1>2, <1>3

LEMMA ParentInNodes ==
  ASSUME NEW s \in Selectors, NEW c \in Clock
  PROVE Parent(s, c) \in Nodes
<1>1. Parents[c] \in Seq(Clock) BY ClockAssumption
<1>2. \A i \in DOMAIN Parents[c] : Parents[c][i] \in Clock BY <1>1
<1> QED BY <1>2, ParentIsNode DEF Nodes

(* What the walks over the tree rest on instead of induction: a nonempty   *)
(* set of clocks has one whose parent is outside.                          *)
LEMMA Rootward ==
  ASSUME NEW s \in Selectors, NEW S \in SUBSET Clock, S # {}
  PROVE \E c \in S : Parent(s, c) \notin S
<1>1. PICK c \in S : \A i \in DOMAIN Parents[c] : Parents[c][i] \notin S
  BY TableAssumption
<1>2. NoClock \notin S BY ClockAssumption
<1> QED BY <1>1, <1>2, ParentIsNode

(* A recursion over the tree, tabulated for a set of clocks that has their *)
(* parents as well.                                                        *)
Tabulates(s, base, step, V, p, D) ==
  /\ p \in [Nodes -> V] /\ p[NoClock] = base /\ D \subseteq Clock
  /\ \A x \in D : /\ Parent(s, x) \in D \cup {NoClock}
                  /\ p[x] = step[<<x, p[Parent(s, x)]>>]

LEMMA SameTable ==
  ASSUME NEW s \in Selectors, NEW base, NEW step, NEW V,
         NEW p, NEW D, Tabulates(s, base, step, V, p, D),
         NEW q, NEW E, Tabulates(s, base, step, V, q, E),
         NEW c \in D, c \in E
  PROVE p[c] = q[c]
<1> DEFINE S == {x \in Clock : x \in D /\ x \in E /\ p[x] # q[x]}
<1>1. SUFFICES ASSUME S # {} PROVE FALSE
  BY DEF Tabulates
<1>2. PICK x \in S : Parent(s, x) \notin S
  BY <1>1, Rootward
<1>3. /\ p[x] = step[<<x, p[Parent(s, x)]>>]
      /\ q[x] = step[<<x, q[Parent(s, x)]>>]
  BY DEF Tabulates
<1>4. p[Parent(s, x)] = q[Parent(s, x)]
  BY <1>2 DEF Tabulates
<1> QED BY <1>3, <1>4

LEMMA SomeTable ==
  ASSUME NEW s \in Selectors, NEW V, NEW base \in V,
         NEW step \in [Clock \X V -> V], NEW c \in Clock
  PROVE \E p, D : Tabulates(s, base, step, V, p, D) /\ c \in D
<1> DEFINE T(p, D) == Tabulates(s, base, step, V, p, D)
           S == {x \in Clock : ~ \E p, D : T(p, D) /\ x \in D}
<1>1. SUFFICES ASSUME S # {} PROVE FALSE
  OBVIOUS
<1>2. PICK x \in S : Parent(s, x) \notin S
  BY <1>1, Rootward
<1>3. PICK p, D : T(p, D) /\ Parent(s, x) \in D \cup {NoClock}
  <2>1. T([y \in Nodes |-> base], {})
    BY DEF Tabulates, Nodes
  <2>2. Parent(s, x) \in Nodes BY ParentInNodes
  <2> QED BY <1>2, <2>1, <2>2 DEF Nodes
<1> DEFINE v == step[<<x, p[Parent(s, x)]>>]
           q == [y \in Nodes |-> IF y = x THEN v ELSE p[y]]
<1>4. x \notin D BY <1>3
<1>5. x # NoClock /\ x \in Nodes /\ Parent(s, x) # x /\ Parent(s, x) \in Nodes
  BY <1>3, <1>4, ClockAssumption, ParentInNodes DEF Nodes
<1>6. T(q, D \cup {x})
  <2>1. v \in V BY <1>3, <1>5 DEF Tabulates
  <2> HIDE DEF v
  <2>2. q \in [Nodes -> V] /\ q[NoClock] = base
    BY <1>3, <1>5, <2>1 DEF Tabulates, Nodes
  <2>3. \A y \in Nodes : y # x => q[y] = p[y] OBVIOUS
  <2>4. q[x] = v BY <1>5
  <2> HIDE DEF q
  <2>5. ASSUME NEW y \in D
        PROVE Parent(s, y) \in D \cup {NoClock}
              /\ q[y] = step[<<y, q[Parent(s, y)]>>]
    <3>1. Parent(s, y) \in D \cup {NoClock}
          /\ p[y] = step[<<y, p[Parent(s, y)]>>] /\ y \in Nodes /\ y # x
      BY <1>3, <1>4 DEF Tabulates, Nodes
    <3>2. Parent(s, y) \in Nodes /\ Parent(s, y) # x
      BY <1>3, <1>4, <1>5, <3>1 DEF Tabulates, Nodes
    <3> QED BY <2>3, <3>1, <3>2
  <2>6. q[Parent(s, x)] = p[Parent(s, x)] BY <1>5, <2>3
  <2>7. q[x] = step[<<x, q[Parent(s, x)]>>] BY <2>4, <2>6 DEF v
  <2> QED BY <1>3, <2>2, <2>5, <2>7 DEF Tabulates
<1> QED BY <1>6

Unrolls(s, base, step, V, f) ==
  /\ f \in [Nodes -> V] /\ f[NoClock] = base
  /\ \A x \in Clock : f[x] = step[<<x, f[Parent(s, x)]>>]

LEMMA TreeRecursion ==
  ASSUME NEW s \in Selectors, NEW V, NEW base \in V,
         NEW step \in [Clock \X V -> V]
  PROVE \E f : Unrolls(s, base, step, V, f)
<1> DEFINE T(p, D) == Tabulates(s, base, step, V, p, D)
           f == [x \in Nodes |->
                   IF x = NoClock THEN base
                   ELSE CHOOSE v : \E p, D : T(p, D) /\ x \in D /\ v = p[x]]
<1>1. ASSUME NEW p, NEW D, T(p, D), NEW c \in D PROVE f[c] = p[c]
  <2>1. c \in Nodes /\ c # NoClock
    BY <1>1, ClockAssumption DEF Tabulates, Nodes
  <2>2. \E v : \E q, E : T(q, E) /\ c \in E /\ v = q[c]
    BY <1>1
  <2>3. PICK q, E : T(q, E) /\ c \in E /\ f[c] = q[c]
    BY <2>1, <2>2
  <2> QED BY <1>1, <2>3, SameTable
<1>2. f[NoClock] = base BY DEF Nodes
<1>3. DOMAIN f = Nodes /\ f = [x \in Nodes |-> f[x]] OBVIOUS
<1> HIDE DEF f
<1>4. ASSUME NEW x \in Clock
      PROVE f[x] \in V /\ f[x] = step[<<x, f[Parent(s, x)]>>]
  <2>1. PICK p, D : T(p, D) /\ x \in D BY SomeTable
  <2>2. p \in [Nodes -> V] /\ p[NoClock] = base
        /\ Parent(s, x) \in D \cup {NoClock}
        /\ p[x] = step[<<x, p[Parent(s, x)]>>]
    BY <2>1 DEF Tabulates
  <2>3. f[x] = p[x] BY <2>1, <1>1
  <2>4. f[Parent(s, x)] = p[Parent(s, x)]
    <3>1. Parent(s, x) \in D => f[Parent(s, x)] = p[Parent(s, x)]
      BY <2>1, <1>1
    <3> QED BY <3>1, <2>2, <1>2
  <2> QED BY <2>2, <2>3, <2>4 DEF Nodes
<1>5. \A x \in Nodes : f[x] \in V BY <1>2, <1>4 DEF Nodes
<1>6. f \in [Nodes -> V] BY <1>3, <1>5
<1> QED BY <1>2, <1>4, <1>6 DEF Unrolls

LEMMA PathIs ==
  ASSUME NEW s \in Selectors
  PROVE /\ Path(s, NoClock) = <<NoClock>>
        /\ \A c \in Clock :
             /\ Path(s, c) \in Seq(Nodes)
             /\ Path(s, c) = IF Type[c] = "Fixed" THEN <<c>>
                             ELSE Append(Path(s, Parent(s, c)), c)
<1> DEFINE V == Seq(Nodes)
           step == [a \in Clock \X V |-> IF Type[a[1]] = "Fixed" THEN <<a[1]>>
                                         ELSE Append(a[2], a[1])]
           Up(p, x) == IF x = NoClock THEN <<NoClock>>
                       ELSE IF Type[x] = "Fixed" THEN <<x>>
                       ELSE Append(p[Parent(s, x)], x)
<1>1. step \in [Clock \X V -> V] /\ <<NoClock>> \in V
  <2>1. ASSUME NEW a \in Clock \X V
        PROVE <<a[1]>> \in V /\ Append(a[2], a[1]) \in V
    BY AppendProperties DEF Nodes
  <2> QED BY <2>1 DEF Nodes
<1>2. \A x \in Clock, v \in V :
        step[<<x, v>>] = IF Type[x] = "Fixed" THEN <<x>> ELSE Append(v, x)
  OBVIOUS
<1> HIDE DEF V, step
<1>3. PICK f : Unrolls(s, <<NoClock>>, step, V, f)
  BY <1>1, TreeRecursion
<1>4. \A x \in Nodes : f[x] = Up(f, x)
  BY <1>2, <1>3, ParentInNodes, ClockAssumption DEF Unrolls, Nodes
<1>5. f = [x \in Nodes |-> f[x]] BY <1>3 DEF Unrolls
<1>6. f = [x \in Nodes |-> Up(f, x)] BY <1>4, <1>5, Zenon
<1> DEFINE P == CHOOSE path : path = [x \in Nodes |-> Up(path, x)]
<1>7. P = [x \in Nodes |-> Up(P, x)] BY <1>6
<1>8. \A x \in Nodes : Path(s, x) = P[x]
  BY DEF Path, Nodes
<1> HIDE DEF P
<1>9. \A x \in Nodes : P[x] = Up(P, x) BY <1>7
<1>10. \A x \in Clock : P[x] \in V
  <2> DEFINE S == {x \in Clock : P[x] \notin V}
  <2>1. SUFFICES ASSUME S # {} PROVE FALSE
    OBVIOUS
  <2>2. PICK x \in S : Parent(s, x) \notin S
    BY <2>1, Rootward
  <2>3. P[NoClock] \in V BY <1>9, <1>1 DEF Nodes
  <2>4. P[Parent(s, x)] \in V BY <2>2, <2>3, ParentInNodes DEF Nodes
  <2>5. P[x] = IF Type[x] = "Fixed" THEN <<x>> ELSE Append(P[Parent(s, x)], x)
    BY <1>9, ClockAssumption DEF Nodes
  <2>6. x \in Nodes BY DEF Nodes
  <2>7. <<x>> \in V /\ Append(P[Parent(s, x)], x) \in V
    BY <2>4, <2>6, AppendProperties DEF V
  <2>8. P[x] \in V BY <2>5, <2>7
  <2> QED BY <2>8
<1> QED BY <1>8, <1>9, <1>10, ParentInNodes, ClockAssumption DEF V, Nodes

(* What holds of the parent's path and of the clock holds of the path.     *)
LEMMA OnPath ==
  ASSUME NEW s \in Selectors, NEW c \in Clock
  PROVE /\ Type[c] = "Fixed" => Range(Path(s, c)) = {c}
        /\ Type[c] # "Fixed" =>
             Range(Path(s, c)) = Range(Path(s, Parent(s, c))) \cup {c}
<1>1. CASE Type[c] = "Fixed"
  <2>1. Path(s, c) = <<c>> BY <1>1, PathIs
  <2> QED BY <1>1, <2>1 DEF Range
<1>2. CASE Type[c] # "Fixed"
  <2>1. Path(s, c) = Append(Path(s, Parent(s, c)), c) BY <1>2, PathIs
  <2>2. Path(s, NoClock) \in Seq(Nodes)
    <3>1. NoClock \in Nodes BY DEF Nodes
    <3>2. Path(s, NoClock) = <<NoClock>> BY PathIs
    <3> QED BY <3>1, <3>2
  <2>3. Path(s, Parent(s, c)) \in Seq(Nodes)
    BY <2>2, PathIs, ParentInNodes DEF Nodes
  <2> DEFINE p == Path(s, Parent(s, c))
  <2> HIDE DEF p
  <2>4. \A i \in DOMAIN Append(p, c) : Append(p, c)[i] \in Range(p) \cup {c}
    BY <2>3, AppendProperties DEF p, Range, Nodes
  <2>5. \A i \in DOMAIN p : i \in DOMAIN Append(p, c) /\ Append(p, c)[i] = p[i]
    BY <2>3, AppendProperties DEF p, Nodes
  <2>6. Len(p) + 1 \in DOMAIN Append(p, c) /\ Append(p, c)[Len(p) + 1] = c
    BY <2>3, AppendProperties DEF p, Nodes
  <2>7. Range(Append(p, c)) = Range(p) \cup {c}
    BY <2>4, <2>5, <2>6 DEF Range
  <2> QED BY <1>2, <2>1, <2>7 DEF p
<1> QED BY <1>1, <1>2

(* The path of a reachable clock has clocks only.                          *)
LEMMA PathOfReachable ==
  ASSUME NEW s \in Selectors, NEW c \in Clock, Reachable(s, c)
  PROVE Range(Path(s, c)) \subseteq Clock
<1> DEFINE S == {x \in Clock : /\ Head(Path(s, x)) # NoClock
                               /\ ~(Range(Path(s, x)) \subseteq Clock)}
<1>1. SUFFICES ASSUME S # {} PROVE FALSE
  BY DEF Reachable
<1>2. PICK x \in S : Parent(s, x) \notin S
  BY <1>1, Rootward
<1>3. Type[x] # "Fixed" BY <1>2, OnPath
<1> DEFINE p == Path(s, Parent(s, x))
<1>4. p \in Seq(Nodes) /\ p # <<>>
  <2>1. Path(s, NoClock) \in Seq(Nodes) /\ Path(s, NoClock) # <<>>
    <3>1. NoClock \in Nodes BY DEF Nodes
    <3>2. Path(s, NoClock) = <<NoClock>> BY PathIs
    <3> QED BY <3>1, <3>2
  <2>2. ASSUME NEW y \in Clock PROVE Path(s, y) # <<>>
    <3>1. y \in Range(Path(s, y)) BY OnPath
    <3> QED BY <3>1 DEF Range
  <2> QED BY <2>1, <2>2, PathIs, ParentInNodes DEF Nodes
<1>5. Path(s, x) = Append(p, x) BY <1>3, PathIs
<1> HIDE DEF p
<1>6. Head(Append(p, x)) = Head(p)
  <2>1. Len(p) \in Nat /\ Len(p) > 0 BY <1>4, EmptySeq
  <2>2. Append(p, x)[1] = p[1]
    BY <1>4, <2>1, AppendProperties DEF Nodes
  <2> QED BY <2>2
<1>7. Head(p) # NoClock BY <1>2, <1>5, <1>6
<1>8. Parent(s, x) \in Clock
  BY <1>7, PathIs, ParentInNodes DEF p, Nodes
<1>9. Range(p) \subseteq Clock BY <1>2, <1>7, <1>8 DEF p
<1> QED BY <1>2, <1>3, <1>9, OnPath DEF p
-----------------------------------------------------------------------------
(* The writes of one call.                                                 *)

Bits == {"gate", "pwr", "iso", "en", "rstb"}

(* The bits a clock has, and where a call with that argument takes them.   *)
BitsOf(c) ==
  CASE Type[c] = "Pll" ->
         {"pwr", "iso", "en"} \cup (IF c \in ResetBar THEN {"rstb"} ELSE {})
    [] Type[c] \in {"MuxGate", "Gate"} -> {"gate"}
    [] OTHER -> {}

Target(c, b, e) ==
  CASE b = "iso"  -> ~e
    [] b = "gate" -> IF Type[c] = "Gate" THEN GateBit(c, e) ELSE ~e
    [] OTHER      -> e

Moves(e) ==
  {w \in [clock : Clock, bit : Bits, value : BOOLEAN] :
     w.bit \in BitsOf(w.clock) /\ w.value = Target(w.clock, w.bit, e)}

(* The bits of a PLL that must have moved before another one does.         *)
Before(c, b, e) ==
  BitsOf(c) \cap
    (CASE b = "iso"  -> IF e THEN {"pwr"} ELSE {"en"}
       [] b = "en"   -> IF e THEN {"iso"} ELSE {"rstb"}
       [] b = "rstb" -> IF e THEN {"en"} ELSE {}
       [] b = "pwr"  -> IF e THEN {} ELSE {"iso"}
       [] OTHER      -> {})

(* The writes come in an order that the bits allow, when those in M[c] are *)
(* the bits of c that have moved already.                                  *)
InOrder(s, M, e) ==
  \A i \in 1 .. Len(s) : \A b \in Before(s[i].clock, s[i].bit, e) :
    \/ b \in M[s[i].clock]
    \/ \E j \in 1 .. i - 1 : s[j].clock = s[i].clock /\ s[j].bit = b

Covers(s, c, b) == \E i \in 1 .. Len(s) : s[i].clock = c /\ s[i].bit = b

Unmoved == [c \in Clock |-> {}]

LEMMA GateBitType == \A c, e : GateBit(c, e) \in BOOLEAN
BY Zenon DEF GateBit

LEMMA TargetType ==
  ASSUME NEW c, NEW b, NEW e \in BOOLEAN PROVE Target(c, b, e) \in BOOLEAN
<1>1. GateBit(c, e) \in BOOLEAN BY GateBitType
<1>2. (~e) \in BOOLEAN OBVIOUS
<1> QED BY <1>1, <1>2 DEF Target

LEMMA MoveIs ==
  ASSUME NEW e \in BOOLEAN, NEW c \in Clock, NEW b \in BitsOf(c)
  PROVE Write(c, b, Target(c, b, e)) \in Moves(e)
<1>1. b \in Bits BY DEF BitsOf, Bits
<1>2. Target(c, b, e) \in BOOLEAN BY TargetType
<1> DEFINE t == Target(c, b, e)
           w == Write(c, b, t)
<1>3. w.clock = c /\ w.bit = b /\ w.value = t
      /\ w \in [clock : Clock, bit : Bits, value : BOOLEAN]
  <2> HIDE DEF t
  <2> QED BY <1>1, <1>2 DEF Write, t
<1> HIDE DEF w
<1>4. w \in Moves(e) BY <1>1, <1>3 DEF Moves, t
<1> QED BY <1>4 DEF w, t

LEMMA ConcatIs ==
  ASSUME NEW S, NEW s \in Seq(S), NEW t \in Seq(S), NEW u \in Seq(S),
         Len(u) = Len(s) + Len(t), \A i \in 1 .. Len(s) : u[i] = s[i],
         \A i \in 1 .. Len(t) : u[Len(s) + i] = t[i]
  PROVE s \o t = u
<1>1. /\ s \o t \in Seq(S) /\ Len(s \o t) = Len(u)
      /\ \A i \in 1 .. Len(s) + Len(t) : (s \o t)[i] =
            IF i <= Len(s) THEN s[i] ELSE t[i - Len(s)]
  BY ConcatProperties
<1>2. ASSUME NEW i \in 1 .. Len(s \o t) PROVE (s \o t)[i] = u[i]
  <2>1. CASE i <= Len(s) BY <1>1, <2>1
  <2>2. CASE i > Len(s)
    <3>1. i - Len(s) \in 1 .. Len(t) /\ i = Len(s) + (i - Len(s))
      BY <1>1, <2>2
    <3> QED BY <1>1, <2>2, <3>1
  <2> QED BY <2>1, <2>2
<1> QED BY <1>1, <1>2, SeqEqual

LEMMA FourAreThreeAndOne ==
  ASSUME NEW a, NEW b, NEW c, NEW d
  PROVE /\ <<a, b, c>> \o <<d>> = <<a, b, c, d>>
        /\ <<d>> \o <<a, b, c>> = <<d, a, b, c>>
        /\ <<a, b, c>> \o <<>> = <<a, b, c>>
        /\ <<>> \o <<a, b, c>> = <<a, b, c>>
<1>1. PICK S, three, one, front, back :
        /\ S = {a, b, c, d} /\ three = <<a, b, c>> /\ one = <<d>>
        /\ front = <<a, b, c, d>> /\ back = <<d, a, b, c>>
  OBVIOUS
<1>2. three \in Seq(S) /\ one \in Seq(S) /\ front \in Seq(S) /\ back \in Seq(S)
  BY <1>1
<1>3. /\ Len(three) = 3 /\ Len(one) = 1 /\ Len(front) = 4 /\ Len(back) = 4
      /\ three[1] = a /\ three[2] = b /\ three[3] = c /\ one[1] = d
      /\ front[1] = a /\ front[2] = b /\ front[3] = c /\ front[4] = d
      /\ back[1] = d /\ back[2] = a /\ back[3] = b /\ back[4] = c
  BY <1>1
<1>4. three \o one = front
  <2>1. /\ Len(front) = Len(three) + Len(one)
        /\ \A i \in 1 .. Len(three) : front[i] = three[i]
        /\ \A i \in 1 .. Len(one) : front[Len(three) + i] = one[i]
    BY <1>3
  <2> QED BY <1>2, <2>1, ConcatIs
<1>5. one \o three = back
  <2>1. /\ Len(back) = Len(one) + Len(three)
        /\ \A i \in 1 .. Len(one) : back[i] = one[i]
        /\ \A i \in 1 .. Len(three) : back[Len(one) + i] = three[i]
    BY <1>3
  <2> QED BY <1>2, <2>1, ConcatIs
<1>6. three \o <<>> = three /\ <<>> \o three = three
  BY <1>2, ConcatEmptySeq
<1> QED BY <1>1, <1>4, <1>5, <1>6

LEMMA OwnWritesAre ==
  ASSUME NEW c \in Clock, NEW e \in BOOLEAN
  PROVE /\ OwnWrites(c, e) \in Seq(Moves(e))
        /\ InOrder(OwnWrites(c, e), Unmoved, e)
        /\ \A b \in BitsOf(c) : Covers(OwnWrites(c, e), c, b)
<1> DEFINE W(b) == Write(c, b, Target(c, b, e))
           s == OwnWrites(c, e)
<1>0. \A b : W(b).clock = c /\ W(b).bit = b BY DEF Write
<1>1. \A b \in BitsOf(c) : W(b) \in Moves(e) BY MoveIs
<1>2. CASE Type[c] = "Pll"
  <2>1. /\ Target(c, "pwr", e) = e /\ Target(c, "iso", e) = ~e
        /\ Target(c, "en", e) = e /\ Target(c, "rstb", e) = e
    BY DEF Target
  <2>2. CASE e = TRUE
    <3>1. PllOn(c) = IF c \in ResetBar
                     THEN <<W("pwr"), W("iso"), W("en"), W("rstb")>>
                     ELSE <<W("pwr"), W("iso"), W("en")>>
      <4>1. /\ Write(c, "pwr", TRUE) = W("pwr")
            /\ Write(c, "iso", FALSE) = W("iso")
            /\ Write(c, "en", TRUE) = W("en")
            /\ Write(c, "rstb", TRUE) = W("rstb")
        BY <2>1, <2>2
      <4> HIDE DEF W
      <4>2. /\ <<W("pwr"), W("iso"), W("en")>> \o <<W("rstb")>> =
                 <<W("pwr"), W("iso"), W("en"), W("rstb")>>
            /\ <<W("pwr"), W("iso"), W("en")>> \o <<>> =
                 <<W("pwr"), W("iso"), W("en")>>
        BY FourAreThreeAndOne
      <4> QED BY <4>1, <4>2, Zenon DEF PllOn
    <3>2. s = PllOn(c) BY <1>2, <2>2 DEF OwnWrites
    <3> HIDE DEF s, W
    <3>3. CASE c \in ResetBar
      <4>1. BitsOf(c) = {"pwr", "iso", "en", "rstb"}
        BY <1>2, <3>3 DEF BitsOf
      <4>2. s = <<W("pwr"), W("iso"), W("en"), W("rstb")>>
        BY <3>1, <3>2, <3>3
      <4>3. s \in Seq(Moves(e)) BY <1>1, <4>1, <4>2
      <4>4. /\ Len(s) = 4 /\ s[1] = W("pwr") /\ s[2] = W("iso")
            /\ s[3] = W("en") /\ s[4] = W("rstb")
        BY <4>2
      <4>5. InOrder(s, Unmoved, e)
        BY <4>1, <4>4, <1>0, <2>2 DEF InOrder, Before
      <4>6. \A b \in BitsOf(c) : Covers(s, c, b)
        BY <4>1, <4>4, <1>0 DEF Covers
      <4> QED BY <4>3, <4>5, <4>6 DEF s
    <3>4. CASE c \notin ResetBar
      <4>1. BitsOf(c) = {"pwr", "iso", "en"}
        BY <1>2, <3>4 DEF BitsOf
      <4>2. s = <<W("pwr"), W("iso"), W("en")>>
        BY <3>1, <3>2, <3>4
      <4>3. s \in Seq(Moves(e)) BY <1>1, <4>1, <4>2
      <4>4. Len(s) = 3 /\ s[1] = W("pwr") /\ s[2] = W("iso") /\ s[3] = W("en")
        BY <4>2
      <4>5. InOrder(s, Unmoved, e)
        BY <4>1, <4>4, <1>0, <2>2 DEF InOrder, Before
      <4>6. \A b \in BitsOf(c) : Covers(s, c, b)
        BY <4>1, <4>4, <1>0 DEF Covers
      <4> QED BY <4>3, <4>5, <4>6 DEF s
    <3> QED BY <3>3, <3>4
  <2>3. CASE e = FALSE
    <3>1. PllOff(c) = IF c \in ResetBar
                      THEN <<W("rstb"), W("en"), W("iso"), W("pwr")>>
                      ELSE <<W("en"), W("iso"), W("pwr")>>
      <4>1. /\ Write(c, "pwr", FALSE) = W("pwr")
            /\ Write(c, "iso", TRUE) = W("iso")
            /\ Write(c, "en", FALSE) = W("en")
            /\ Write(c, "rstb", FALSE) = W("rstb")
        BY <2>1, <2>3
      <4> HIDE DEF W
      <4>2. /\ <<W("rstb")>> \o <<W("en"), W("iso"), W("pwr")>> =
                 <<W("rstb"), W("en"), W("iso"), W("pwr")>>
            /\ <<>> \o <<W("en"), W("iso"), W("pwr")>> =
                 <<W("en"), W("iso"), W("pwr")>>
        BY FourAreThreeAndOne
      <4> QED BY <4>1, <4>2, Zenon DEF PllOff
    <3>2. s = PllOff(c) BY <1>2, <2>3 DEF OwnWrites
    <3> HIDE DEF s, W
    <3>3. CASE c \in ResetBar
      <4>1. BitsOf(c) = {"pwr", "iso", "en", "rstb"}
        BY <1>2, <3>3 DEF BitsOf
      <4>2. s = <<W("rstb"), W("en"), W("iso"), W("pwr")>>
        BY <3>1, <3>2, <3>3
      <4>3. s \in Seq(Moves(e)) BY <1>1, <4>1, <4>2
      <4>4. /\ Len(s) = 4 /\ s[1] = W("rstb") /\ s[2] = W("en")
            /\ s[3] = W("iso") /\ s[4] = W("pwr")
        BY <4>2
      <4>5. InOrder(s, Unmoved, e)
        BY <4>1, <4>4, <1>0, <2>3 DEF InOrder, Before
      <4>6. \A b \in BitsOf(c) : Covers(s, c, b)
        BY <4>1, <4>4, <1>0 DEF Covers
      <4> QED BY <4>3, <4>5, <4>6 DEF s
    <3>4. CASE c \notin ResetBar
      <4>1. BitsOf(c) = {"pwr", "iso", "en"}
        BY <1>2, <3>4 DEF BitsOf
      <4>2. s = <<W("en"), W("iso"), W("pwr")>>
        BY <3>1, <3>2, <3>4
      <4>3. s \in Seq(Moves(e)) BY <1>1, <4>1, <4>2
      <4>4. Len(s) = 3 /\ s[1] = W("en") /\ s[2] = W("iso") /\ s[3] = W("pwr")
        BY <4>2
      <4>5. InOrder(s, Unmoved, e)
        BY <4>1, <4>4, <1>0, <2>3 DEF InOrder, Before
      <4>6. \A b \in BitsOf(c) : Covers(s, c, b)
        BY <4>1, <4>4, <1>0 DEF Covers
      <4> QED BY <4>3, <4>5, <4>6 DEF s
    <3> QED BY <3>3, <3>4
  <2> QED BY <2>2, <2>3
<1>3. CASE Type[c] \in {"MuxGate", "Gate"}
  <2>1. BitsOf(c) = {"gate"} BY <1>3 DEF BitsOf
  <2>2. s = <<W("gate")>> BY <1>3 DEF OwnWrites, Target
  <2> HIDE DEF s, W
  <2>3. s \in Seq(Moves(e)) /\ Len(s) = 1 /\ s[1] = W("gate")
    BY <1>1, <2>1, <2>2
  <2>4. InOrder(s, Unmoved, e) BY <1>0, <2>3 DEF InOrder, Before
  <2>5. \A b \in BitsOf(c) : Covers(s, c, b)
    BY <1>0, <2>1, <2>3 DEF Covers
  <2> QED BY <2>3, <2>4, <2>5 DEF s
<1>4. CASE Type[c] \notin {"Pll", "MuxGate", "Gate"}
  <2>1. BitsOf(c) = {} BY <1>4 DEF BitsOf
  <2>2. s = <<>> BY <1>4 DEF OwnWrites
  <2> HIDE DEF s, W
  <2>3. s \in Seq(Moves(e)) /\ Len(s) = 0 BY <2>2
  <2>4. InOrder(s, Unmoved, e) BY <2>3 DEF InOrder
  <2> QED BY <2>1, <2>3, <2>4 DEF s
<1> QED BY <1>2, <1>3, <1>4

LEMMA EnableWritesIs ==
  ASSUME NEW s \in Selectors, NEW e \in BOOLEAN
  PROVE /\ EnableWrites(s, NoClock, e) = <<>>
        /\ \A c \in Clock :
             /\ EnableWrites(s, c, e) \in Seq(Moves(e))
             /\ EnableWrites(s, c, e) =
                  EnableWrites(s, Parent(s, c), e) \o OwnWrites(c, e)
<1> DEFINE V == Seq(Moves(e))
           step == [a \in Clock \X V |-> a[2] \o OwnWrites(a[1], e)]
           Up(p, x) == IF x = NoClock THEN <<>>
                       ELSE p[Parent(s, x)] \o OwnWrites(x, e)
<1>0. \A x \in Clock : OwnWrites(x, e) \in V BY OwnWritesAre
<1>1. step \in [Clock \X V -> V] /\ <<>> \in V
  <2>1. ASSUME NEW a \in Clock \X V PROVE a[2] \o OwnWrites(a[1], e) \in V
    <3>1. a[1] \in Clock /\ a[2] \in V OBVIOUS
    <3> QED BY <1>0, <3>1, ConcatProperties
  <2> QED BY <2>1
<1>2. \A x \in Clock, v \in V : step[<<x, v>>] = v \o OwnWrites(x, e)
  OBVIOUS
<1> HIDE DEF V, step
<1>3. PICK f : Unrolls(s, <<>>, step, V, f)
  BY <1>1, TreeRecursion
<1>4. \A x \in Nodes : f[x] = Up(f, x)
  BY <1>2, <1>3, ParentInNodes, ClockAssumption DEF Unrolls, Nodes
<1>5. f = [x \in Nodes |-> f[x]] BY <1>3 DEF Unrolls
<1>6. f = [x \in Nodes |-> Up(f, x)] BY <1>4, <1>5, Zenon
<1> DEFINE P == CHOOSE writes : writes = [x \in Nodes |-> Up(writes, x)]
<1>7. P = [x \in Nodes |-> Up(P, x)] BY <1>6
<1>8. \A x \in Nodes : EnableWrites(s, x, e) = P[x]
  BY DEF EnableWrites, Nodes
<1> HIDE DEF P
<1>9. \A x \in Nodes : P[x] = Up(P, x) BY <1>7
<1>10. \A x \in Clock : P[x] \in V
  <2> DEFINE S == {x \in Clock : P[x] \notin V}
  <2>1. SUFFICES ASSUME S # {} PROVE FALSE
    OBVIOUS
  <2>2. PICK x \in S : Parent(s, x) \notin S
    BY <2>1, Rootward
  <2>3. P[NoClock] \in V BY <1>9, <1>1 DEF Nodes
  <2>4. P[Parent(s, x)] \in V BY <2>2, <2>3, ParentInNodes DEF Nodes
  <2>5. P[x] = P[Parent(s, x)] \o OwnWrites(x, e)
    BY <1>9, ClockAssumption DEF Nodes
  <2>6. P[Parent(s, x)] \o OwnWrites(x, e) \in V
    BY <2>4, <1>0, ConcatProperties DEF V
  <2> QED BY <2>5, <2>6
<1> QED BY <1>8, <1>9, <1>10, ParentInNodes, ClockAssumption DEF V, Nodes

LEMMA OrderOfConcat ==
  ASSUME NEW e \in BOOLEAN, NEW s \in Seq(Moves(e)), NEW t \in Seq(Moves(e)),
         InOrder(s, Unmoved, e), InOrder(t, Unmoved, e)
  PROVE /\ InOrder(s \o t, Unmoved, e)
        /\ \A c, b : Covers(s \o t, c, b) <=> Covers(s, c, b) \/ Covers(t, c, b)
<1>0. PICK u : u = s \o t OBVIOUS
<1>1. /\ u \in Seq(Moves(e)) /\ Len(u) = Len(s) + Len(t)
      /\ \A i \in 1 .. Len(s) + Len(t) :
            u[i] = IF i <= Len(s) THEN s[i] ELSE t[i - Len(s)]
  BY <1>0, ConcatProperties
<1>2. \A i \in 1 .. Len(s) : i \in 1 .. Len(u) /\ u[i] = s[i]
  BY <1>1
<1>3. \A i \in 1 .. Len(t) : Len(s) + i \in 1 .. Len(u) /\ u[Len(s) + i] = t[i]
  <2>1. TAKE i \in 1 .. Len(t)
  <2>2. Len(s) + i \in 1 .. Len(s) + Len(t) /\ ~(Len(s) + i <= Len(s))
        /\ Len(s) + i - Len(s) = i
    OBVIOUS
  <2> QED BY <1>1, <2>2
<1>4. ASSUME NEW i \in 1 .. Len(u)
      PROVE i \in 1 .. Len(s) \/ \E k \in 1 .. Len(t) : i = Len(s) + k
  <2>1. CASE i <= Len(s) BY <2>1
  <2>2. CASE i > Len(s)
    <3>1. i - Len(s) \in 1 .. Len(t) /\ i = Len(s) + (i - Len(s))
      BY <1>1, <2>2
    <3> QED BY <3>1
  <2> QED BY <2>1, <2>2
<1>5. InOrder(u, Unmoved, e)
  <2>1. ASSUME NEW i \in 1 .. Len(u), NEW b \in Before(u[i].clock, u[i].bit, e)
        PROVE \/ b \in Unmoved[u[i].clock]
              \/ \E j \in 1 .. i - 1 : u[j].clock = u[i].clock /\ u[j].bit = b
    <3>1. CASE i \in 1 .. Len(s)
      <4>1. u[i] = s[i] BY <3>1, <1>2
      <4>2. b \in Unmoved[s[i].clock] \/
              \E j \in 1 .. i - 1 : s[j].clock = s[i].clock /\ s[j].bit = b
        BY <2>1, <3>1, <4>1 DEF InOrder
      <4>3. \A j \in 1 .. i - 1 : u[j] = s[j] BY <3>1, <1>2
      <4> QED BY <4>1, <4>2, <4>3
    <3>2. CASE \E k \in 1 .. Len(t) : i = Len(s) + k
      <4>1. PICK k \in 1 .. Len(t) : i = Len(s) + k BY <3>2
      <4>2. u[i] = t[k] BY <4>1, <1>3
      <4>3. b \in Unmoved[t[k].clock] \/
              \E j \in 1 .. k - 1 : t[j].clock = t[k].clock /\ t[j].bit = b
        BY <2>1, <4>2 DEF InOrder
      <4>4. \A j \in 1 .. k - 1 :
              Len(s) + j \in 1 .. i - 1 /\ u[Len(s) + j] = t[j]
        BY <4>1, <1>3
      <4> QED BY <4>2, <4>3, <4>4
    <3> QED BY <1>4, <3>1, <3>2
  <2> QED BY <2>1 DEF InOrder
<1>6. \A c, b : Covers(u, c, b) <=> Covers(s, c, b) \/ Covers(t, c, b)
  <2>1. ASSUME NEW c, NEW b, Covers(u, c, b)
        PROVE Covers(s, c, b) \/ Covers(t, c, b)
    <3>1. PICK i \in 1 .. Len(u) : u[i].clock = c /\ u[i].bit = b
      BY <2>1 DEF Covers
    <3>2. i \in 1 .. Len(s) => u[i] = s[i] BY <1>2
    <3>3. \A k \in 1 .. Len(t) : i = Len(s) + k => u[i] = t[k] BY <1>3
    <3> QED BY <3>1, <3>2, <3>3, <1>4 DEF Covers
  <2>2. ASSUME NEW c, NEW b, Covers(s, c, b) PROVE Covers(u, c, b)
    BY <2>2, <1>2 DEF Covers
  <2>3. ASSUME NEW c, NEW b, Covers(t, c, b) PROVE Covers(u, c, b)
    <3>1. PICK k \in 1 .. Len(t) : t[k].clock = c /\ t[k].bit = b
      BY <2>3 DEF Covers
    <3>2. Len(s) + k \in 1 .. Len(u) /\ u[Len(s) + k] = t[k] BY <1>3
    <3> QED BY <3>1, <3>2 DEF Covers
  <2> QED BY <2>1, <2>2, <2>3
<1> QED BY <1>0, <1>5, <1>6

(* The writes of a call keep the order of every PLL and reach every bit of *)
(* every clock on the path.                                                *)
LEMMA EnableWritesAre ==
  ASSUME NEW s \in Selectors, NEW e \in BOOLEAN, NEW c \in Clock
  PROVE /\ InOrder(EnableWrites(s, c, e), Unmoved, e)
        /\ \A x \in Range(Path(s, c)) : x \in Clock =>
             \A b \in BitsOf(x) : Covers(EnableWrites(s, c, e), x, b)
<1> DEFINE W(x) == EnableWrites(s, x, e)
           Good(x) == /\ InOrder(W(x), Unmoved, e)
                      /\ \A y \in Range(Path(s, x)) : y \in Clock =>
                           \A b \in BitsOf(y) : Covers(W(x), y, b)
           S == {x \in Clock : ~Good(x)}
<1>1. SUFFICES ASSUME S # {} PROVE FALSE
  OBVIOUS
<1>2. PICK x \in S : Parent(s, x) \notin S
  BY <1>1, Rootward
<1> DEFINE p == Parent(s, x)
<1>3. p \in Nodes BY ParentInNodes
<1>4. W(x) = W(p) \o OwnWrites(x, e) BY EnableWritesIs
<1>5. W(NoClock) = <<>> /\ Path(s, NoClock) = <<NoClock>>
  BY EnableWritesIs, PathIs
<1>6. W(p) \in Seq(Moves(e)) /\ InOrder(W(p), Unmoved, e)
      /\ \A y \in Range(Path(s, p)) : y \in Clock =>
           \A b \in BitsOf(y) : Covers(W(p), y, b)
  <2>1. CASE p = NoClock
    <3> HIDE DEF p, W
    <3>1. W(p) \in Seq(Moves(e)) /\ Len(W(p)) = 0 BY <1>5, <2>1
    <3>2. \A y \in Range(Path(s, p)) : y \notin Clock
      BY <1>5, <2>1, ClockAssumption DEF Range
    <3>3. InOrder(W(p), Unmoved, e) BY <3>1 DEF InOrder
    <3> QED BY <3>1, <3>2, <3>3
  <2>2. CASE p \in Clock
    <3>1. Good(p) BY <1>2, <2>2
    <3>2. W(p) \in Seq(Moves(e)) BY <2>2, EnableWritesIs
    <3> QED BY <3>1, <3>2
  <2> QED BY <1>3, <2>1, <2>2 DEF Nodes
<1>7. /\ OwnWrites(x, e) \in Seq(Moves(e))
      /\ InOrder(OwnWrites(x, e), Unmoved, e)
      /\ \A b \in BitsOf(x) : Covers(OwnWrites(x, e), x, b)
  BY OwnWritesAre
<1> HIDE DEF W
<1>8. /\ InOrder(W(x), Unmoved, e)
      /\ \A y, b : Covers(W(x), y, b) <=>
                     Covers(W(p), y, b) \/ Covers(OwnWrites(x, e), y, b)
  <2>1. PICK u, v : u = W(p) /\ v = OwnWrites(x, e) OBVIOUS
  <2>2. u \in Seq(Moves(e)) /\ v \in Seq(Moves(e))
        /\ InOrder(u, Unmoved, e) /\ InOrder(v, Unmoved, e)
    BY <1>6, <1>7, <2>1
  <2>3. /\ InOrder(u \o v, Unmoved, e)
        /\ \A y, b : Covers(u \o v, y, b) <=> Covers(u, y, b) \/ Covers(v, y, b)
    BY <2>2, OrderOfConcat
  <2> QED BY <1>4, <2>1, <2>3
<1>9. \A y \in Range(Path(s, x)) : y = x \/ y \in Range(Path(s, p))
  BY OnPath
<1>10. Good(x) BY <1>6, <1>7, <1>8, <1>9
<1> QED BY <1>2, <1>10
-----------------------------------------------------------------------------
(* What one write of a call does to the registers.                         *)

RegType(r) ==
  r \in [Clock -> SUBSET Bits] /\ \A c \in Clock : r[c] \subseteq BitsOf(c)

(* The bits that stand where a call with argument e takes them.            *)
Moved(r, c, e) == {b \in BitsOf(c) : (b \in r[c]) <=> Target(c, b, e)}

Sequenced(r) ==
  \A c \in Plls : /\ "en" \in r[c] => "pwr" \in r[c] /\ "iso" \notin r[c]
                  /\ "rstb" \in r[c] => "en" \in r[c]
                  /\ "iso" \notin r[c] => "pwr" \in r[c]

LEMMA MoveFields ==
  ASSUME NEW e, NEW w \in Moves(e)
  PROVE /\ w.clock \in Clock /\ w.bit \in BitsOf(w.clock) /\ w.bit \in Bits
        /\ w.value \in BOOLEAN /\ w.value = Target(w.clock, w.bit, e)
BY DEF Moves

OneMove(r, q, w, e) ==
  /\ RegType(q)
  /\ \A c \in Clock : Moved(q, c, e) =
       IF c = w.clock THEN Moved(r, c, e) \cup {w.bit} ELSE Moved(r, c, e)
  /\ \A c \in Clock \ {w.clock} : q[c] = r[c]
  /\ q[w.clock] = IF w.value THEN r[w.clock] \cup {w.bit}
                  ELSE r[w.clock] \ {w.bit}

LEMMA WrittenIs ==
  ASSUME NEW r, RegType(r), NEW e, NEW w \in Moves(e)
  PROVE OneMove(r, Written(r, w), w, e)
<1>1. /\ w.clock \in Clock /\ w.bit \in BitsOf(w.clock) /\ w.bit \in Bits
      /\ w.value \in BOOLEAN /\ w.value = Target(w.clock, w.bit, e)
  BY MoveFields
<1> DEFINE q == Written(r, w)
<1>2. /\ DOMAIN q = Clock
      /\ \A c \in Clock \ {w.clock} : q[c] = r[c]
      /\ q[w.clock] = IF w.value THEN r[w.clock] \cup {w.bit}
                      ELSE r[w.clock] \ {w.bit}
      /\ q = [c \in Clock |-> q[c]]
  BY <1>1 DEF Written, RegType
<1> HIDE DEF q
<1>3. \A c \in Clock : q[c] \subseteq BitsOf(c) /\ q[c] \in SUBSET Bits
  BY <1>1, <1>2 DEF RegType
<1>4. RegType(q) BY <1>2, <1>3 DEF RegType
<1>5. \A c \in Clock \ {w.clock} : Moved(q, c, e) = Moved(r, c, e)
  BY <1>2 DEF Moved
<1>6. Moved(q, w.clock, e) = Moved(r, w.clock, e) \cup {w.bit}
  <2>1. (w.bit \in q[w.clock]) <=> w.value BY <1>1, <1>2
  <2>2. \A b : b # w.bit => (b \in q[w.clock] <=> b \in r[w.clock])
    BY <1>1, <1>2
  <2> QED BY <1>1, <2>1, <2>2 DEF Moved
<1> QED BY <1>1, <1>2, <1>4, <1>5, <1>6 DEF q, OneMove

LEMMA WriteKeepsSequence ==
  ASSUME NEW r, RegType(r), Sequenced(r), NEW e, NEW w \in Moves(e),
         Before(w.clock, w.bit, e) \subseteq Moved(r, w.clock, e)
  PROVE Sequenced(Written(r, w))
<1> DEFINE q == Written(r, w)
<1>1. /\ \A c \in Clock \ {w.clock} : q[c] = r[c]
      /\ q[w.clock] = IF w.value THEN r[w.clock] \cup {w.bit}
                      ELSE r[w.clock] \ {w.bit}
  <2>1. RegType(r) OBVIOUS
  <2>2. OneMove(r, q, w, e) BY <2>1, WrittenIs
  <2> HIDE DEF q
  <2> QED BY <2>2 DEF OneMove
<1>2. /\ w.clock \in Clock /\ w.bit \in BitsOf(w.clock) /\ w.bit \in Bits
      /\ w.value \in BOOLEAN /\ w.value = Target(w.clock, w.bit, e)
  BY MoveFields
<1> HIDE DEF q
<1> SUFFICES ASSUME NEW c \in Plls
             PROVE /\ "en" \in q[c] => "pwr" \in q[c] /\ "iso" \notin q[c]
                   /\ "rstb" \in q[c] => "en" \in q[c]
                   /\ "iso" \notin q[c] => "pwr" \in q[c]
  BY DEF Sequenced, q
<1>3. /\ "en" \in r[c] => "pwr" \in r[c] /\ "iso" \notin r[c]
      /\ "rstb" \in r[c] => "en" \in r[c]
      /\ "iso" \notin r[c] => "pwr" \in r[c]
  BY DEF Sequenced
<1>4. CASE c # w.clock BY <1>1, <1>3, <1>4 DEF Plls
<1>5. CASE c = w.clock
  <2>1. Type[c] = "Pll" /\ c \in Clock BY DEF Plls
  <2>2. {"pwr", "iso", "en"} \subseteq BitsOf(c) /\ "gate" \notin BitsOf(c)
    BY <2>1 DEF BitsOf
  <2>3. /\ Target(c, "pwr", e) = e /\ Target(c, "iso", e) = ~e
        /\ Target(c, "en", e) = e /\ Target(c, "rstb", e) = e
    BY DEF Target
  <2>4. \A b \in Before(c, w.bit, e) : (b \in r[c]) <=> Target(c, b, e)
    BY <1>5 DEF Moved
  <2>5. w.bit \in {"pwr", "iso", "en", "rstb"} BY <1>2, <1>5, <2>2 DEF Bits
  <2>6. "rstb" \notin BitsOf(c) => "rstb" \notin r[c]
    BY <2>1 DEF RegType
  <2>7. CASE w.bit = "pwr"
    <3>1. ~e => "iso" \in r[c] BY <2>2, <2>3, <2>4, <2>7 DEF Before
    <3> QED BY <1>1, <1>2, <1>3, <1>5, <2>3, <2>7, <3>1
  <2>8. CASE w.bit = "iso"
    <3>1. (e => "pwr" \in r[c]) /\ (~e => "en" \notin r[c])
      BY <2>2, <2>3, <2>4, <2>8 DEF Before
    <3> QED BY <1>1, <1>2, <1>3, <1>5, <2>3, <2>8, <3>1
  <2>9. CASE w.bit = "en"
    <3>1. (e => "iso" \notin r[c]) /\ (~e => "rstb" \notin r[c])
      BY <2>2, <2>3, <2>4, <2>6, <2>9 DEF Before
    <3> QED BY <1>1, <1>2, <1>3, <1>5, <2>3, <2>9, <3>1
  <2>10. CASE w.bit = "rstb"
    <3>1. e => "en" \in r[c] BY <2>2, <2>3, <2>4, <2>10 DEF Before
    <3> QED BY <1>1, <1>2, <1>3, <1>5, <2>3, <2>10, <3>1
  <2> QED BY <2>5, <2>7, <2>8, <2>9, <2>10
<1> QED BY <1>4, <1>5

(* The rest of a call is in order once its first write has been made.      *)
LEMMA RestInOrder ==
  ASSUME NEW e \in BOOLEAN, NEW s \in Seq(Moves(e)), s # <<>>, NEW M, NEW N,
         InOrder(s, M, e),
         \A c \in Clock : M[c] \subseteq N[c],
         Head(s).bit \in N[Head(s).clock]
  PROVE /\ InOrder(Tail(s), N, e)
        /\ Before(Head(s).clock, Head(s).bit, e) \subseteq M[Head(s).clock]
        /\ \A c, b : Covers(s, c, b) <=> \/ Covers(Tail(s), c, b)
                                         \/ Head(s).clock = c /\ Head(s).bit = b
<1>1. /\ Tail(s) \in Seq(Moves(e)) /\ Len(Tail(s)) = Len(s) - 1
      /\ \A i \in 1 .. Len(Tail(s)) : Tail(s)[i] = s[i + 1]
  BY HeadTailProperties
<1>2. Len(s) \in Nat \ {0} /\ Head(s) = s[1] BY EmptySeq
<1> DEFINE t == Tail(s)
           h == Head(s)
<1> HIDE DEF t, h
<1>3. \A i \in 1 .. Len(t) : i + 1 \in 1 .. Len(s) /\ t[i] = s[i + 1]
  BY <1>1, <1>2 DEF t
<1>4. ASSUME NEW i \in 1 .. Len(s)
      PROVE i = 1 \/ (i - 1 \in 1 .. Len(t) /\ s[i] = t[i - 1])
  <2>1. CASE i # 1
    <3>1. i - 1 \in 1 .. Len(t) /\ (i - 1) + 1 = i BY <1>1, <1>2, <2>1 DEF t
    <3> QED BY <3>1, <1>3
  <2> QED BY <2>1
<1>5. InOrder(t, N, e)
  <2>1. ASSUME NEW i \in 1 .. Len(t), NEW b \in Before(t[i].clock, t[i].bit, e)
        PROVE \/ b \in N[t[i].clock]
              \/ \E j \in 1 .. i - 1 : t[j].clock = t[i].clock /\ t[j].bit = b
    <3>1. i + 1 \in 1 .. Len(s) /\ t[i] = s[i + 1] BY <1>3
    <3>2. \/ b \in M[t[i].clock]
          \/ \E j \in 1 .. i : s[j].clock = t[i].clock /\ s[j].bit = b
      <4>1. \/ b \in M[s[i + 1].clock]
            \/ \E j \in 1 .. (i + 1) - 1 :
                 s[j].clock = s[i + 1].clock /\ s[j].bit = b
        BY <2>1, <3>1 DEF InOrder
      <4>2. (i + 1) - 1 = i BY <1>1
      <4> QED BY <3>1, <4>1, <4>2
    <3>3. t[i].clock \in Clock
      <4>1. t[i] \in Moves(e) BY <1>1 DEF t
      <4> QED BY <4>1, MoveFields
    <3>4. CASE b \in M[t[i].clock] BY <3>3, <3>4
    <3>5. CASE \E j \in 1 .. i : s[j].clock = t[i].clock /\ s[j].bit = b
      <4>1. PICK j \in 1 .. i : s[j].clock = t[i].clock /\ s[j].bit = b
        BY <3>5
      <4>2. CASE j = 1 BY <4>1, <4>2, <1>2 DEF h
      <4>3. CASE j # 1
        <5>1. j \in 1 .. Len(s) /\ j - 1 \in 1 .. i - 1
          BY <4>1, <4>3, <3>1
        <5> QED BY <4>1, <4>3, <5>1, <1>4
      <4> QED BY <4>2, <4>3
    <3> QED BY <3>2, <3>4, <3>5
  <2> QED BY <2>1 DEF InOrder
<1>6. Before(h.clock, h.bit, e) \subseteq M[h.clock]
  <2>1. 1 \in 1 .. Len(s) /\ s[1] = h /\ 1 .. (1 - 1) = {}
    BY <1>2 DEF h
  <2> QED BY <2>1 DEF InOrder
<1>7. ASSUME NEW c, NEW b
      PROVE Covers(s, c, b) <=> Covers(t, c, b) \/ (h.clock = c /\ h.bit = b)
  <2>1. ASSUME Covers(s, c, b) PROVE Covers(t, c, b) \/ (h.clock = c /\ h.bit = b)
    <3>1. PICK i \in 1 .. Len(s) : s[i].clock = c /\ s[i].bit = b
      BY <2>1 DEF Covers
    <3> QED BY <3>1, <1>2, <1>4 DEF Covers, h
  <2>2. ASSUME Covers(t, c, b) PROVE Covers(s, c, b)
    BY <2>2, <1>3 DEF Covers
  <2>3. ASSUME h.clock = c, h.bit = b PROVE Covers(s, c, b)
    <3>1. 1 \in 1 .. Len(s) /\ s[1] = h BY <1>2 DEF h
    <3> QED BY <2>3, <3>1 DEF Covers
  <2> QED BY <2>1, <2>2, <2>3
<1> QED BY <1>5, <1>6, <1>7 DEF t, h

LEMMA OrderWithMoved ==
  ASSUME NEW e \in BOOLEAN, NEW s \in Seq(Moves(e)), InOrder(s, Unmoved, e), NEW M
  PROVE InOrder(s, M, e)
<1>1. ASSUME NEW i \in 1 .. Len(s) PROVE s[i].clock \in Clock
  <2>1. s[i] \in Moves(e) OBVIOUS
  <2> QED BY <2>1, MoveFields
<1> QED BY <1>1 DEF InOrder, Unmoved

LEMMA AllMoved ==
  ASSUME NEW r, RegType(r), NEW c \in Clock, NEW e \in BOOLEAN,
         BitsOf(c) \subseteq Moved(r, c, e)
  PROVE r[c] = BitsAfter(c, e)
<1>1. r[c] \subseteq BitsOf(c)
      /\ \A b \in BitsOf(c) : (b \in r[c]) <=> Target(c, b, e)
  BY DEF RegType, Moved
<1>2. CASE Type[c] = "Pll"
  <2>1. /\ Target(c, "pwr", e) <=> e
        /\ Target(c, "iso", e) <=> ~e
        /\ Target(c, "en", e) <=> e
        /\ Target(c, "rstb", e) <=> e
    BY DEF Target
  <2>2. BitsOf(c) = IF c \in ResetBar THEN {"pwr", "iso", "en", "rstb"}
                    ELSE {"pwr", "iso", "en"}
    BY <1>2 DEF BitsOf
  <2>3. BitsAfter(c, e) =
          IF e THEN IF c \in ResetBar THEN {"pwr", "en", "rstb"}
                    ELSE {"pwr", "en"}
          ELSE {"iso"}
    BY <1>2 DEF BitsAfter
  <2> QED BY <1>1, <2>1, <2>2, <2>3
<1>3. CASE Type[c] = "MuxGate"
  <2>1. Target(c, "gate", e) <=> ~e BY <1>3 DEF Target
  <2>2. BitsOf(c) = {"gate"} BY <1>3 DEF BitsOf
  <2>3. BitsAfter(c, e) = IF e THEN {} ELSE {"gate"} BY <1>3 DEF BitsAfter
  <2> QED BY <1>1, <2>1, <2>2, <2>3
<1>4. CASE Type[c] = "Gate"
  <2>1. Target(c, "gate", e) <=> GateBit(c, e) BY <1>4, GateBitType DEF Target
  <2>2. BitsOf(c) = {"gate"} BY <1>4 DEF BitsOf
  <2>3. BitsAfter(c, e) = IF GateBit(c, e) THEN {"gate"} ELSE {}
    BY <1>4 DEF BitsAfter
  <2> QED BY <1>1, <2>1, <2>2, <2>3
<1>5. CASE Type[c] \notin {"Pll", "MuxGate", "Gate"}
  BY <1>1, <1>5 DEF BitsOf, BitsAfter
<1> QED BY <1>2, <1>3, <1>4, <1>5

(* Where an enable takes the bits of a stage, the stage is on.             *)
LEMMA StageIs ==
  ASSUME NEW r, RegType(r), NEW c \in Clock, c \notin StatusOnly
  PROVE StageOn(r, c) <=> BitsOf(c) \subseteq Moved(r, c, TRUE)
<1>1. BitsOf(c) \subseteq Moved(r, c, TRUE) <=>
        \A b \in BitsOf(c) : (b \in r[c]) <=> Target(c, b, TRUE)
  BY DEF Moved
<1>2. c \in Inverted => Type[c] = "Gate" BY TableAssumption
<1>3. CASE Type[c] = "Pll"
  <2>1. /\ Target(c, "pwr", TRUE) <=> TRUE
        /\ Target(c, "iso", TRUE) <=> FALSE
        /\ Target(c, "en", TRUE) <=> TRUE
        /\ Target(c, "rstb", TRUE) <=> TRUE
    BY DEF Target
  <2>2. BitsOf(c) = IF c \in ResetBar THEN {"pwr", "iso", "en", "rstb"}
                    ELSE {"pwr", "iso", "en"}
    BY <1>3 DEF BitsOf
  <2>3. StageOn(r, c) <=> /\ {"pwr", "en"} \subseteq r[c]
                          /\ "iso" \notin r[c]
                          /\ c \in ResetBar => "rstb" \in r[c]
    BY <1>3 DEF StageOn
  <2> QED BY <1>1, <2>1, <2>2, <2>3
<1>4. CASE Type[c] = "MuxGate"
  <2>1. Target(c, "gate", TRUE) <=> FALSE BY <1>4 DEF Target
  <2>2. BitsOf(c) = {"gate"} BY <1>4 DEF BitsOf
  <2>3. StageOn(r, c) <=> "gate" \notin r[c]
    <3>1. c \notin Inverted BY <1>2, <1>4
    <3>2. StageOn(r, c) <=> (("gate" \notin r[c]) # (c \in Inverted))
      BY <1>4 DEF StageOn
    <3> QED BY <3>1, <3>2
  <2> QED BY <1>1, <2>1, <2>2, <2>3
<1>5. CASE Type[c] = "Gate"
  <2>1. Target(c, "gate", TRUE) <=> c \in Inverted
    <3>1. Target(c, "gate", TRUE) = GateBit(c, TRUE) BY <1>5 DEF Target
    <3>2. GateBit(c, TRUE) <=> c \in Inverted
      BY Zenon DEF GateBit
    <3> QED BY <3>1, <3>2
  <2>2. BitsOf(c) = {"gate"} BY <1>5 DEF BitsOf
  <2>3. StageOn(r, c) <=> ("gate" \in r[c] <=> c \in Inverted)
    <3>1. StageOn(r, c) <=> (("gate" \notin r[c]) # (c \in Inverted))
      BY <1>5 DEF StageOn
    <3> QED BY <3>1
  <2> QED BY <1>1, <2>1, <2>2, <2>3
<1>6. CASE Type[c] \notin {"Pll", "MuxGate", "Gate"}
  BY <1>1, <1>6 DEF BitsOf, StageOn
<1> QED BY <1>3, <1>4, <1>5, <1>6
-----------------------------------------------------------------------------
(* The inductive invariant.                                                *)

Types ==
  RegType(reg) /\ sel \in Selectors /\ live \in Selectors

(* A selector and its latch differ only while ClockSetParent is about.     *)
Latched ==
  \A m \in Muxes :
    \/ sel[m] = live[m]
    \/ todo # <<>> /\ call.op = "parent" /\ m = call.clock

(* The writes an enable has left come in order after those it has made,    *)
(* and together they reach every bit of the clock's path.                  *)
Enabling ==
  call.op = "enable" =>
    /\ call.clock \in Clock /\ call.arg \in BOOLEAN
    /\ todo \in Seq(Moves(call.arg))
    /\ InOrder(todo, [c \in Clock |-> Moved(reg, c, call.arg)], call.arg)
    /\ call.ok =>
         /\ Reachable(sel, call.clock)
         /\ \A c \in Range(Path(sel, call.clock)) :
              \A b \in BitsOf(c) : \/ b \in Moved(reg, c, call.arg)
                                   \/ Covers(todo, c, b)

(* What is left of ClockSetParent, and what the selector reads then.       *)
Switching ==
  call.op # "enable" /\ todo # <<>> =>
    /\ call.op = "parent" /\ call.clock \in Muxes
    /\ \E index \in 0 .. Len(Parents[call.clock]) - 1 :
         /\ Parents[call.clock][index + 1] = call.arg
         /\ \/ todo = ParentWrites(call.clock, index)
            \/ todo = <<Write(call.clock, "set", index),
                        Write(call.clock, "update", 0)>>
            \/ /\ todo = <<Write(call.clock, "update", 0)>>
               /\ sel[call.clock] = index

ClockInv == Types /\ Sequenced(reg) /\ Latched /\ Enabling /\ Switching

LEMMA InitInv == Init => ClockInv
<1> SUFFICES ASSUME Init PROVE ClockInv
  OBVIOUS
<1>1. PICK on \in SUBSET Plls : reg = [c \in Clock |->
        IF Type[c] = "Pll" /\ c \notin on THEN OffBits(c) ELSE OnBits(c)]
  BY DEF Init
<1>2. ASSUME NEW c \in Clock
      PROVE reg[c] \subseteq BitsOf(c) /\ BitsOf(c) \subseteq Bits
  <2>1. BitsOf(c) \subseteq Bits BY DEF BitsOf, Bits
  <2>2. CASE Type[c] = "Pll"
    <3>1. BitsAfter(c, TRUE) \subseteq BitsOf(c)
      BY <2>2 DEF BitsAfter, BitsOf
    <3>2. OnBits(c) \subseteq BitsOf(c) /\ OffBits(c) \subseteq BitsOf(c)
      <4>1. OnBits(c) = BitsAfter(c, TRUE)
        <5>1. c \notin Inverted BY <2>2, TableAssumption
        <5> QED BY <2>2, <5>1 DEF OnBits
      <4>2. OffBits(c) = {"iso"} BY <2>2 DEF OffBits
      <4>3. "iso" \in BitsOf(c) BY <2>2 DEF BitsOf
      <4> QED BY <3>1, <4>1, <4>2, <4>3
    <3> QED BY <1>1, <2>1, <3>2
  <2>3. CASE Type[c] # "Pll"
    <3>1. c \in Inverted => Type[c] = "Gate" BY TableAssumption
    <3>2. OnBits(c) = IF c \in Inverted THEN {"gate"} ELSE {}
      BY <2>3 DEF OnBits
    <3>3. OnBits(c) \subseteq BitsOf(c) BY <3>1, <3>2 DEF BitsOf
    <3> QED BY <1>1, <2>1, <2>3, <3>3
  <2> QED BY <2>2, <2>3
<1>3. RegType(reg)
  <2>1. reg = [c \in Clock |-> reg[c]] BY <1>1
  <2> QED BY <2>1, <1>2 DEF RegType
<1>4. sel \in Selectors /\ live \in Selectors
  BY ClockAssumption DEF Init, Selectors
<1>5. Sequenced(reg)
  <2>1. SUFFICES ASSUME NEW c \in Plls
                 PROVE reg[c] = {"iso"} \/ reg[c] = {"pwr", "en"} \/
                         reg[c] = {"pwr", "en", "rstb"}
    BY DEF Sequenced
  <2>2. c \in Clock /\ Type[c] = "Pll" BY DEF Plls
  <2>3. OffBits(c) = {"iso"} BY <2>2 DEF OffBits
  <2>4. BitsAfter(c, TRUE) = IF c \in ResetBar THEN {"pwr", "en", "rstb"}
                             ELSE {"pwr", "en"}
    BY <2>2 DEF BitsAfter
  <2>5. OnBits(c) = BitsAfter(c, TRUE)
    <3>1. c \notin Inverted BY <2>2, TableAssumption
    <3> QED BY <2>2, <3>1 DEF OnBits
  <2> QED BY <1>1, <2>2, <2>3, <2>4, <2>5
<1>6. call.op = "none" /\ todo = <<>> /\ live = sel BY DEF Init, Call
<1> QED BY <1>3, <1>4, <1>5, <1>6
        DEF ClockInv, Types, Latched, Enabling, Switching

LEMMA EnableStep ==
  ASSUME ClockInv, NEW c \in Clock, NEW enable \in BOOLEAN,
         ClockSetEnable(c, enable)
  PROVE ClockInv'
<1>1. /\ todo = <<>> /\ reg' = reg /\ sel' = sel /\ live' = live
      /\ todo' = IF Reachable(sel, c) THEN EnableWrites(sel, c, enable) ELSE <<>>
      /\ call' = Call("enable", c, enable, Reachable(sel, c))
  BY DEF ClockSetEnable, Idle
<1>2. /\ call'.op = "enable" /\ call'.clock = c /\ call'.arg = enable
      /\ call'.ok => Reachable(sel, c)
  BY <1>1, Zenon DEF Call
<1>3. RegType(reg) /\ sel \in Selectors /\ live \in Selectors
  BY DEF ClockInv, Types
<1> DEFINE s == EnableWrites(sel, c, enable)
           M == [x \in Clock |-> Moved(reg, x, enable)]
<1>4. s \in Seq(Moves(enable)) BY <1>3, EnableWritesIs
<1>5. /\ InOrder(s, Unmoved, enable)
      /\ \A x \in Range(Path(sel, c)) : x \in Clock =>
           \A b \in BitsOf(x) : Covers(s, x, b)
  BY <1>3, EnableWritesAre
<1>6. InOrder(s, M, enable)
  <2> HIDE DEF s, M
  <2> QED BY <1>4, <1>5, OrderWithMoved
<1>7. Reachable(sel, c) => Range(Path(sel, c)) \subseteq Clock
  BY <1>3, PathOfReachable
<1> HIDE DEF s
<1>8. todo' = s \/ (todo' = <<>> /\ ~Reachable(sel, c)) BY <1>1 DEF s
<1>9. /\ todo' \in Seq(Moves(enable))
      /\ InOrder(todo', M, enable)
      /\ Reachable(sel, c) => \A x \in Range(Path(sel, c)) :
           \A b \in BitsOf(x) : Covers(todo', x, b)
  <2> HIDE DEF M
  <2>1. CASE todo' = s BY <2>1, <1>4, <1>5, <1>6, <1>7
  <2>2. CASE todo' = <<>> /\ ~Reachable(sel, c)
    <3>1. todo' \in Seq(Moves(enable)) /\ Len(todo') = 0 BY <2>2
    <3>2. InOrder(todo', M, enable) BY <3>1 DEF InOrder
    <3> QED BY <2>2, <3>1, <3>2
  <2> QED BY <1>8, <2>1, <2>2
<1>10. Enabling' BY <1>1, <1>2, <1>9 DEF Enabling
<1>11. Switching' BY <1>2 DEF Switching
<1>12. Latched' BY <1>1 DEF ClockInv, Latched
<1>13. Types' /\ Sequenced(reg)' BY <1>1 DEF ClockInv, Types
<1> QED BY <1>10, <1>11, <1>12, <1>13 DEF ClockInv

LEMMA ParentStep ==
  ASSUME ClockInv, NEW c \in Clock, NEW p \in Clock, ClockSetParent(c, p)
  PROVE ClockInv'
<1>1. /\ todo = <<>> /\ reg' = reg /\ sel' = sel /\ live' = live /\ IsMux(c)
  BY DEF ClockSetParent, Idle
<1>2. PICK index \in 0 .. Len(Parents[c]) - 1 :
        /\ Parents[c][index + 1] = p
        /\ todo' = IF sel[c] = index THEN <<>> ELSE ParentWrites(c, index)
        /\ call' = Call("parent", c, p, TRUE)
  BY DEF ClockSetParent
<1>3. call'.op = "parent" /\ call'.clock = c /\ call'.arg = p
  BY <1>2 DEF Call
<1>4. c \in Muxes BY <1>1 DEF Muxes
<1>5. todo' # <<>> => todo' = ParentWrites(c, index) BY <1>2
<1>6. Switching' BY <1>2, <1>3, <1>4, <1>5 DEF Switching
<1>7. Enabling' BY <1>3 DEF Enabling
<1>8. Latched' BY <1>1 DEF ClockInv, Latched
<1>9. Types' /\ Sequenced(reg)' BY <1>1 DEF ClockInv, Types
<1> QED BY <1>6, <1>7, <1>8, <1>9 DEF ClockInv

LEMMA RefusedStep ==
  ASSUME ClockInv, NEW c \in Clock, NEW p \in Clock, ClockSetParentRefused(c, p)
  PROVE ClockInv'
<1>1. /\ todo = <<>> /\ reg' = reg /\ sel' = sel /\ live' = live /\ todo' = <<>>
      /\ call'.op = "parent"
  BY DEF ClockSetParentRefused, Idle, Call
<1>2. Switching' /\ Enabling' BY <1>1 DEF Switching, Enabling
<1>3. Latched' BY <1>1 DEF ClockInv, Latched
<1>4. Types' /\ Sequenced(reg)' BY <1>1 DEF ClockInv, Types
<1> QED BY <1>2, <1>3, <1>4 DEF ClockInv

(* A write of an enable moves one bit, as its turn is.                     *)
LEMMA EnableWrite ==
  ASSUME ClockInv, ClockWrite, call.op = "enable"
  PROVE /\ Head(todo) \in Moves(call.arg)
        /\ todo \in Seq(Moves(call.arg)) /\ todo # <<>>
        /\ reg' = Written(reg, Head(todo)) /\ UNCHANGED <<sel, live, call>>
        /\ todo' = Tail(todo)
<1>1. todo \in Seq(Moves(call.arg)) /\ todo # <<>>
  BY DEF ClockInv, Enabling, ClockWrite, Idle
<1> DEFINE h == Head(todo)
<1>2. h \in Moves(call.arg) BY <1>1, HeadTailProperties
<1> HIDE DEF h
<1>3. h.bit \in Bits BY <1>2 DEF Moves
<1>4. ~ClockWriteSelector(h) /\ ~ClockWriteUpdate(h)
  BY <1>3 DEF Bits, ClockWriteSelector, ClockWriteUpdate
<1>5. ClockWriteBit(h) BY <1>4 DEF ClockWrite, h
<1> QED BY <1>1, <1>2, <1>5 DEF ClockWrite, ClockWriteBit, h

LEMMA EnableWriteStep ==
  ASSUME ClockInv, ClockWrite, call.op = "enable"
  PROVE ClockInv'
<1> DEFINE h == Head(todo)
           e == call.arg
           M(r) == [c \in Clock |-> Moved(r, c, e)]
<1>1. /\ h \in Moves(e)
      /\ todo \in Seq(Moves(e)) /\ todo # <<>>
      /\ reg' = Written(reg, h) /\ sel' = sel /\ live' = live /\ call' = call
      /\ todo' = Tail(todo)
  BY EnableWrite
<1>2. /\ call.clock \in Clock /\ e \in BOOLEAN
      /\ InOrder(todo, M(reg), e)
      /\ call.ok => /\ Reachable(sel, call.clock)
                    /\ \A c \in Range(Path(sel, call.clock)) :
                         \A b \in BitsOf(c) : \/ b \in Moved(reg, c, e)
                                              \/ Covers(todo, c, b)
  BY DEF ClockInv, Enabling
<1>3. RegType(reg) /\ Sequenced(reg) /\ sel \in Selectors /\ live \in Selectors
  BY DEF ClockInv, Types
<1> HIDE DEF h, e
<1>4. /\ h.clock \in Clock /\ h.bit \in BitsOf(h.clock) BY <1>1, MoveFields
<1>5. OneMove(reg, reg', h, e) BY <1>1, <1>3, WrittenIs
<1>6. /\ RegType(reg')
      /\ \A c \in Clock : Moved(reg', c, e) =
           IF c = h.clock THEN Moved(reg, c, e) \cup {h.bit} ELSE Moved(reg, c, e)
  BY <1>5 DEF OneMove
<1>7. /\ InOrder(todo', M(reg'), e)
      /\ Before(h.clock, h.bit, e) \subseteq M(reg)[h.clock]
      /\ \A c, b : Covers(todo, c, b) <=> \/ Covers(todo', c, b)
                                          \/ h.clock = c /\ h.bit = b
  <2>1. PICK t, S, N, f : t = todo /\ S = M(reg) /\ N = M(reg') /\ f = e
    OBVIOUS
  <2>2. \A c \in Clock : S[c] \subseteq N[c] BY <1>6, <2>1
  <2>3. Head(t).bit \in N[Head(t).clock] BY <1>4, <1>6, <2>1 DEF h
  <2>4. t \in Seq(Moves(f)) /\ t # <<>> /\ InOrder(t, S, f) /\ f \in BOOLEAN
    BY <1>1, <1>2, <2>1
  <2>5. /\ InOrder(Tail(t), N, f)
        /\ Before(Head(t).clock, Head(t).bit, f) \subseteq S[Head(t).clock]
        /\ \A c, b : Covers(t, c, b) <=> \/ Covers(Tail(t), c, b)
                                         \/ Head(t).clock = c /\ Head(t).bit = b
    BY <2>2, <2>3, <2>4, RestInOrder
  <2> QED BY <2>1, <2>5, <1>1 DEF h
<1>8. Sequenced(reg')
  <2>1. Before(h.clock, h.bit, e) \subseteq Moved(reg, h.clock, e)
    BY <1>4, <1>7
  <2> QED BY <1>1, <1>3, <2>1, WriteKeepsSequence
<1>9. todo' \in Seq(Moves(e)) BY <1>1, HeadTailProperties
<1>10. call.ok => \A c \in Range(Path(sel, call.clock)) :
         \A b \in BitsOf(c) : b \in Moved(reg', c, e) \/ Covers(todo', c, b)
  <2>1. SUFFICES ASSUME call.ok, NEW c \in Range(Path(sel, call.clock)),
                        NEW b \in BitsOf(c)
                 PROVE b \in Moved(reg', c, e) \/ Covers(todo', c, b)
    OBVIOUS
  <2>2. b \in Moved(reg, c, e) \/ Covers(todo, c, b) BY <1>2, <2>1
  <2>3. c \in Clock BY <1>2, <1>3, <2>1, PathOfReachable
  <2> QED BY <1>6, <1>7, <2>2, <2>3
<1>11. Enabling' BY <1>1, <1>2, <1>7, <1>9, <1>10 DEF Enabling, e
<1>12. Switching' BY <1>1 DEF Switching
<1>13. Latched'
  <2>1. \A m \in Muxes : sel[m] = live[m] BY DEF ClockInv, Latched
  <2> QED BY <1>1, <2>1 DEF Latched
<1>14. Types' BY <1>1, <1>3, <1>6 DEF Types
<1> QED BY <1>8, <1>11, <1>12, <1>13, <1>14 DEF ClockInv

(* ClockSetParent, one write after the other.                              *)
LEMMA SwitchWrite ==
  ASSUME ClockInv, ClockWrite, call.op # "enable"
  PROVE /\ call.op = "parent" /\ call.clock \in Muxes /\ UNCHANGED <<reg, call>>
        /\ \E index \in 0 .. Len(Parents[call.clock]) - 1 :
             /\ Parents[call.clock][index + 1] = call.arg
             /\ \/ /\ todo' = <<Write(call.clock, "set", index),
                                Write(call.clock, "update", 0)>>
                   /\ sel' = [sel EXCEPT ![call.clock] = 0] /\ live' = live
                \/ /\ todo' = <<Write(call.clock, "update", 0)>>
                   /\ sel' = [sel EXCEPT ![call.clock] = index] /\ live' = live
                \/ /\ todo' = <<>> /\ sel' = sel /\ sel[call.clock] = index
                   /\ live' = [live EXCEPT ![call.clock] = index]
<1>1. todo # <<>> /\ todo' = Tail(todo) /\ call' = call
  BY DEF ClockWrite, Idle
<1> DEFINE c == call.clock
<1>2. /\ call.op = "parent" /\ c \in Muxes
      /\ \E index \in 0 .. Len(Parents[c]) - 1 :
           /\ Parents[c][index + 1] = call.arg
           /\ \/ todo = ParentWrites(c, index)
              \/ todo = <<Write(c, "set", index), Write(c, "update", 0)>>
              \/ todo = <<Write(c, "update", 0)>> /\ sel[c] = index
  BY <1>1 DEF ClockInv, Switching
<1>3. PICK index \in 0 .. Len(Parents[c]) - 1 :
        /\ Parents[c][index + 1] = call.arg
        /\ \/ todo = ParentWrites(c, index)
           \/ todo = <<Write(c, "set", index), Write(c, "update", 0)>>
           \/ todo = <<Write(c, "update", 0)>> /\ sel[c] = index
  BY <1>2
<1> HIDE DEF c
<1>4. \A b, v : /\ Write(c, b, v).clock = c /\ Write(c, b, v).bit = b
                /\ Write(c, b, v).value = v
  BY DEF Write
<1>5. CASE todo = ParentWrites(c, index)
  <2>1. Head(todo) = Write(c, "clear", 0)
        /\ Tail(todo) = <<Write(c, "set", index), Write(c, "update", 0)>>
    BY <1>5 DEF ParentWrites
  <2>2. sel' = [sel EXCEPT ![c] = 0] /\ live' = live /\ reg' = reg
    BY <1>4, <2>1
       DEF ClockWrite, ClockWriteBit, ClockWriteSelector, ClockWriteUpdate
  <2> QED BY <1>1, <1>2, <1>3, <2>1, <2>2 DEF c
<1>6. CASE todo = <<Write(c, "set", index), Write(c, "update", 0)>>
  <2>1. Head(todo) = Write(c, "set", index)
        /\ Tail(todo) = <<Write(c, "update", 0)>>
    BY <1>6
  <2>2. sel' = [sel EXCEPT ![c] = index] /\ live' = live /\ reg' = reg
    BY <1>4, <2>1
       DEF ClockWrite, ClockWriteBit, ClockWriteSelector, ClockWriteUpdate
  <2> QED BY <1>1, <1>2, <1>3, <2>1, <2>2 DEF c
<1>7. CASE todo = <<Write(c, "update", 0)>> /\ sel[c] = index
  <2>1. Head(todo) = Write(c, "update", 0) /\ Tail(todo) = <<>>
    BY <1>7
  <2>2. live' = [live EXCEPT ![c] = index] /\ sel' = sel /\ reg' = reg
    BY <1>4, <1>7, <2>1
       DEF ClockWrite, ClockWriteBit, ClockWriteSelector, ClockWriteUpdate
  <2> QED BY <1>1, <1>2, <1>3, <1>7, <2>1, <2>2 DEF c
<1> QED BY <1>3, <1>5, <1>6, <1>7

LEMMA SwitchStep ==
  ASSUME ClockInv, ClockWrite, call.op # "enable"
  PROVE ClockInv'
<1> DEFINE c == call.clock
<1>1. /\ call.op = "parent" /\ c \in Muxes /\ reg' = reg /\ call' = call
      /\ \E index \in 0 .. Len(Parents[c]) - 1 :
           /\ Parents[c][index + 1] = call.arg
           /\ \/ /\ todo' = <<Write(c, "set", index), Write(c, "update", 0)>>
                 /\ sel' = [sel EXCEPT ![c] = 0] /\ live' = live
              \/ /\ todo' = <<Write(c, "update", 0)>>
                 /\ sel' = [sel EXCEPT ![c] = index] /\ live' = live
              \/ /\ todo' = <<>> /\ sel' = sel /\ sel[c] = index
                 /\ live' = [live EXCEPT ![c] = index]
  BY SwitchWrite
<1>2. PICK index \in 0 .. Len(Parents[c]) - 1 :
        /\ Parents[c][index + 1] = call.arg
        /\ \/ /\ todo' = <<Write(c, "set", index), Write(c, "update", 0)>>
              /\ sel' = [sel EXCEPT ![c] = 0] /\ live' = live
           \/ /\ todo' = <<Write(c, "update", 0)>>
              /\ sel' = [sel EXCEPT ![c] = index] /\ live' = live
           \/ /\ todo' = <<>> /\ sel' = sel /\ sel[c] = index
              /\ live' = [live EXCEPT ![c] = index]
  BY <1>1
<1>3. /\ RegType(reg) /\ Sequenced(reg) /\ sel \in Selectors /\ live \in Selectors
      /\ \A m \in Muxes \ {c} : sel[m] = live[m]
  BY DEF ClockInv, Types, Latched
<1>4. index \in Nat OBVIOUS
<1>5. call'.op = "parent" /\ call'.clock = c /\ call'.arg = call.arg
  BY <1>1
<1> HIDE DEF c
<1>6. Enabling' BY <1>5 DEF Enabling
<1>7. CASE /\ todo' = <<Write(c, "set", index), Write(c, "update", 0)>>
           /\ sel' = [sel EXCEPT ![c] = 0] /\ live' = live
  <2>1. sel' \in Selectors /\ \A m \in Muxes \ {c} : sel'[m] = sel[m]
    BY <1>3, <1>7 DEF Selectors
  <2>2. Types' /\ Sequenced(reg)' BY <1>1, <1>3, <1>7, <2>1 DEF Types
  <2>3. Latched' BY <1>3, <1>5, <1>7, <2>1 DEF Latched
  <2>4. Switching' BY <1>1, <1>2, <1>5, <1>7 DEF Switching
  <2> QED BY <1>6, <2>2, <2>3, <2>4 DEF ClockInv
<1>8. CASE /\ todo' = <<Write(c, "update", 0)>>
           /\ sel' = [sel EXCEPT ![c] = index] /\ live' = live
  <2>1. /\ sel' \in Selectors /\ \A m \in Muxes \ {c} : sel'[m] = sel[m]
        /\ sel'[c] = index
    BY <1>1, <1>3, <1>4, <1>8 DEF Selectors
  <2>2. Types' /\ Sequenced(reg)' BY <1>1, <1>3, <1>8, <2>1 DEF Types
  <2>3. Latched' BY <1>3, <1>5, <1>8, <2>1 DEF Latched
  <2>4. Switching' BY <1>1, <1>2, <1>5, <1>8, <2>1 DEF Switching
  <2> QED BY <1>6, <2>2, <2>3, <2>4 DEF ClockInv
<1>9. CASE /\ todo' = <<>> /\ sel' = sel /\ sel[c] = index
           /\ live' = [live EXCEPT ![c] = index]
  <2>1. /\ live' \in Selectors /\ \A m \in Muxes \ {c} : live'[m] = live[m]
        /\ live'[c] = index
    BY <1>1, <1>3, <1>4, <1>9 DEF Selectors
  <2>2. Types' /\ Sequenced(reg)' BY <1>1, <1>3, <1>9, <2>1 DEF Types
  <2>3. Latched' BY <1>3, <1>9, <2>1 DEF Latched
  <2>4. Switching' BY <1>9 DEF Switching
  <2> QED BY <1>6, <2>2, <2>3, <2>4 DEF ClockInv
<1> QED BY <1>2, <1>7, <1>8, <1>9

LEMMA NextInv == ClockInv /\ [Next]_vars => ClockInv'
<1> SUFFICES ASSUME ClockInv, [Next]_vars PROVE ClockInv'
  OBVIOUS
<1>0. ClockInv OBVIOUS
<1>1. ASSUME NEW c \in Clock, NEW enable \in BOOLEAN, ClockSetEnable(c, enable)
      PROVE ClockInv'
  BY <1>0, <1>1, EnableStep
<1>2. ASSUME NEW c \in Clock, NEW p \in Clock, ClockSetParent(c, p)
      PROVE ClockInv'
  BY <1>0, <1>2, ParentStep
<1>3. ASSUME NEW c \in Clock, NEW p \in Clock, ClockSetParentRefused(c, p)
      PROVE ClockInv'
  BY <1>0, <1>3, RefusedStep
<1>4. CASE ClockWrite BY <1>0, <1>4, EnableWriteStep, SwitchStep
<1>5. CASE UNCHANGED vars
  BY <1>0, <1>5 DEF vars, ClockInv, Types, Latched, Enabling, Switching
<1> QED BY <1>1, <1>2, <1>3, <1>4, <1>5 DEF Next

THEOREM Inductive == Spec => []ClockInv
<1>1. Init => ClockInv BY InitInv
<1>2. ClockInv /\ [Next]_vars => ClockInv' BY NextInv
<1> QED BY <1>1, <1>2, PTL DEF Spec
-----------------------------------------------------------------------------
(* A PLL is enabled only while powered and out of isolation, and out of    *)
(* reset only while enabled, at every register write of any sequence of    *)
(* calls: the power sequences of ClockSetEnable's ClockTypePll case.       *)
THEOREM PllsAreSequenced == Spec => []PllSequenced
<1>1. ClockInv => PllSequenced BY DEF ClockInv, Sequenced, PllSequenced
<1> QED BY <1>1, Inductive, PTL

(* A SetEnable(TRUE) that succeeded leaves the clock ticking, whatever the *)
(* state of the stages it is derived from, and any SetEnable leaves every  *)
(* stage of the path the way BitsAfter says.                               *)
THEOREM EnabledClockTicks == Spec => []EnabledTicks
<1>1. ASSUME ClockInv, Done("enable")
      PROVE /\ call.arg = TRUE /\ ~ThroughStatusOnly(call.clock)
                 => Ticks(reg, live, call.clock)
            /\ \A c \in Range(Path(sel, call.clock)) :
                 reg[c] = BitsAfter(c, call.arg)
  <2>1. todo = <<>> /\ call.op = "enable" /\ call.ok
    BY <1>1 DEF Done, Idle
  <2>2. RegType(reg) /\ sel \in Selectors /\ live \in Selectors
    BY <1>1 DEF ClockInv, Types
  <2>3. live = sel
    BY <1>1, <2>1, <2>2 DEF ClockInv, Latched, Selectors
  <2>4. /\ call.clock \in Clock /\ call.arg \in BOOLEAN
        /\ Reachable(sel, call.clock)
        /\ \A c \in Range(Path(sel, call.clock)) :
             \A b \in BitsOf(c) : \/ b \in Moved(reg, c, call.arg)
                                  \/ Covers(todo, c, b)
    BY <1>1, <2>1 DEF ClockInv, Enabling
  <2>5. Range(Path(sel, call.clock)) \subseteq Clock
    BY <2>2, <2>4, PathOfReachable
  <2>6. ASSUME NEW c \in Range(Path(sel, call.clock))
        PROVE c \in Clock /\ BitsOf(c) \subseteq Moved(reg, c, call.arg)
    <3>1. \A b : ~Covers(todo, c, b) BY <2>1 DEF Covers
    <3> QED BY <2>4, <2>5, <3>1
  <2>7. ASSUME NEW c \in Range(Path(sel, call.clock))
        PROVE reg[c] = BitsAfter(c, call.arg)
    <3>1. PICK e : e = call.arg OBVIOUS
    <3>2. c \in Clock /\ e \in BOOLEAN /\ BitsOf(c) \subseteq Moved(reg, c, e)
      BY <2>4, <2>6, <3>1
    <3>3. reg[c] = BitsAfter(c, e) BY <2>2, <3>2, AllMoved
    <3> QED BY <3>1, <3>3
  <2>8. ASSUME call.arg = TRUE, ~ThroughStatusOnly(call.clock)
        PROVE Ticks(reg, live, call.clock)
    <3>1. ASSUME NEW c \in Range(Path(sel, call.clock)) PROVE StageOn(reg, c)
      <4>1. c \notin StatusOnly BY <2>3, <2>8 DEF ThroughStatusOnly
      <4>2. c \in Clock /\ BitsOf(c) \subseteq Moved(reg, c, TRUE)
        BY <2>6, <2>8
      <4> QED BY <2>2, <4>1, <4>2, StageIs
    <3> QED BY <2>3, <2>4, <3>1 DEF Ticks, Range
  <2> QED BY <2>7, <2>8
<1>2. ClockInv => EnabledTicks BY <1>1 DEF EnabledTicks
<1> QED BY <1>2, Inductive, PTL

(* Enabling a clock stops no other clock, at any of its writes: the PLLs   *)
(* and gates two clocks share are never taken through an off state.        *)
THEOREM EnableStopsNothing == Spec => EnableOnlyStarts
<1> DEFINE A == call.op = "enable" /\ call.arg = TRUE /\ ~Idle =>
                  \A c \in Clock :
                    Ticks(reg, live, c) /\ ~ThroughStatusOnly(c)
                      => Ticks(reg, live, c)'
<1>1. ASSUME ClockInv, [Next]_vars PROVE [A]_vars
  <2>1. SUFFICES ASSUME Next, call.op = "enable", call.arg = TRUE, ~Idle,
                        NEW c \in Clock, Ticks(reg, live, c),
                        ~ThroughStatusOnly(c)
                 PROVE Ticks(reg, live, c)'
    BY <1>1
  <2>2. ClockWrite
    BY <2>1 DEF Next, ClockSetEnable, ClockSetParent, ClockSetParentRefused
  <2>3. /\ Head(todo) \in Moves(TRUE) /\ live' = live
        /\ reg' = Written(reg, Head(todo))
    BY <1>1, <2>1, <2>2, EnableWrite
  <2>4. RegType(reg) /\ live \in Selectors
    BY <1>1 DEF ClockInv, Types
  <2>5. OneMove(reg, reg', Head(todo), TRUE)
    BY <2>3, <2>4, WrittenIs
  <2>6. Reachable(live, c) /\ Range(Path(live, c)) \subseteq Clock
    BY <2>1, <2>4, PathOfReachable DEF Ticks
  <2>7. ASSUME NEW x \in Range(Path(live, c)) PROVE StageOn(reg', x)
    <3>1. x \in Clock /\ x \notin StatusOnly
      BY <2>1, <2>6 DEF ThroughStatusOnly
    <3>2. StageOn(reg, x) BY <2>1 DEF Ticks, Range
    <3>3. BitsOf(x) \subseteq Moved(reg, x, TRUE)
      BY <2>4, <3>1, <3>2, StageIs
    <3>4. RegType(reg') /\ BitsOf(x) \subseteq Moved(reg', x, TRUE)
      BY <2>5, <3>1, <3>3 DEF OneMove
    <3> QED BY <3>1, <3>4, StageIs
  <2>8. Reachable(live', c)
        /\ \A i \in DOMAIN Path(live', c) : StageOn(reg', Path(live', c)[i])
    BY <2>3, <2>6, <2>7 DEF Range
  <2> QED BY <2>8 DEF Ticks
<1> QED BY <1>1, Inductive, PTL DEF Spec, EnableOnlyStarts

(* A mux is never switched to an input nobody asked for: ClockSetParent    *)
(* clears the selector field first, and that zero is not latched.          *)
THEOREM SwitchesAsAsked == Spec => SwitchesOnce
<1> DEFINE A == \A m \in Muxes : live'[m] # live[m] =>
                  call.op = "parent" /\ Parents[m][live'[m] + 1] = call.arg
<1>1. ASSUME ClockInv, [Next]_vars PROVE [A]_vars
  <2>1. SUFFICES ASSUME Next, NEW m \in Muxes, live'[m] # live[m]
                 PROVE call.op = "parent" /\ Parents[m][live'[m] + 1] = call.arg
    BY <1>1
  <2>2. ClockWrite
    BY <2>1 DEF Next, ClockSetEnable, ClockSetParent, ClockSetParentRefused
  <2>3. call.op # "enable" BY <1>1, <2>1, <2>2, EnableWrite
  <2>4. PICK index \in 0 .. Len(Parents[call.clock]) - 1 :
          /\ Parents[call.clock][index + 1] = call.arg
          /\ live' = live \/ live' = [live EXCEPT ![call.clock] = index]
    BY <1>1, <2>2, <2>3, SwitchWrite
  <2>5. call.op = "parent" BY <1>1, <2>2, <2>3, SwitchWrite
  <2>6. live \in Selectors /\ index \in Nat BY <1>1 DEF ClockInv, Types
  <2>7. m = call.clock /\ live'[m] = index
    BY <2>1, <2>4, <2>6 DEF Selectors
  <2> QED BY <2>4, <2>5, <2>7
<1> QED BY <1>1, Inductive, PTL DEF Spec, SwitchesOnce
=============================================================================
