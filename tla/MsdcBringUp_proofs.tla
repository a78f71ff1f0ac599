------------------------- MODULE MsdcBringUp_proofs -------------------------
(* Proofs about MsdcBringUp: for every number of hosts, clock tree, width, *)
(* preserve mask and retry count, an installed host is ready for use, the  *)
(* card supplies never stand the wrong way round, a preserved host is left *)
(* alone, and the handoff leaves card and host agreeing on one bit.        *)
EXTENDS MsdcBringUp, SequenceTheorems, TLAPS

LEMMA PairIsAppend == \A a, b : Append(<<a>>, b) = <<a, b>>
<1> SUFFICES ASSUME NEW a, NEW b PROVE Append(<<a>>, b) = <<a, b>>
  OBVIOUS
<1> DEFINE S == {a, b}
<1>1. <<a>> \in Seq(S) /\ <<a, b>> \in Seq(S) /\ Len(<<a>>) = 1 /\ Len(<<a, b>>) = 2
  OBVIOUS
<1>2. b \in S OBVIOUS
<1> HIDE DEF S
<1>3. Append(<<a>>, b) \in Seq(S) /\ Len(Append(<<a>>, b)) = 2 
  BY <1>1, <1>2, AppendProperties
<1>4. Append(<<a>>, b)[1] = a /\ Append(<<a>>, b)[2] = b
  BY <1>1, <1>2, AppendProperties
<1>5. <<a, b>>[1] = a /\ <<a, b>>[2] = b OBVIOUS
<1>6. \A i \in 1 .. Len(Append(<<a>>, b)) : Append(<<a>>, b)[i] = <<a, b>>[i]
  BY <1>3, <1>4, <1>5
<1> QED BY <1>1, <1>3, <1>6, SeqEqual, Zenon

Up(p, x) ==
  IF x = NoClock THEN <<NoClock>>
  ELSE IF Type[x] = "Fixed" THEN <<x>>
  ELSE Append(p[Parent(Sel, x)], x)
Nodes == Clock \cup {NoClock}

LEMMA ParentIsClock == \A c \in Clock : Parent(Sel, c) \in Nodes
<1> SUFFICES ASSUME NEW c \in Clock PROVE Parent(Sel, c) \in Nodes
  OBVIOUS
<1>1. CASE Type[c] = "Fixed" BY <1>1 DEF Parent, Nodes, IsMux
<1>2. CASE IsMux(c)
  <2>1. Sel[c] \in Nat
    BY <1>2, TreeAssumption, ClockAssumption DEF Muxes
  <2>2. Sel[c] < Len(Parents[c]) => Parents[c][Sel[c] + 1] \in Clock
    BY <2>1, ClockAssumption, ElementOfSeq
  <2> QED BY <1>2, <2>2 DEF Parent, Nodes, IsMux
<1>3. CASE Type[c] # "Fixed" /\ ~IsMux(c)
  <2>1. Type[c] \in {"Pll", "Factors", "Gate"}
    BY <1>3, ClockAssumption DEF IsMux
  <2>2. Parents[c][1] \in Clock
    BY <2>1, ClockAssumption, ElementOfSeq
  <2> QED BY <1>3, <2>2 DEF Parent, Nodes, IsMux
<1> QED BY <1>1, <1>2, <1>3

(* A table of paths for a set of clocks that has their parents as well.    *)
HasPaths(p, D) ==
  /\ D \subseteq Clock /\ p[NoClock] = <<NoClock>>
  /\ \A c \in D : Parent(Sel, c) \in D \cup {NoClock} /\ p[c] = Up(p, c)

LEMMA SamePath ==
  ASSUME NEW p, NEW D, HasPaths(p, D), NEW q, NEW E, HasPaths(q, E),
         NEW c \in D, c \in E
  PROVE p[c] = q[c]
<1> DEFINE S == {x \in Clock : x \in D /\ x \in E /\ p[x] # q[x]}
<1>1. SUFFICES ASSUME S # {} PROVE FALSE
  BY DEF HasPaths
<1>2. PICK x \in S : Parent(Sel, x) \notin S
  BY <1>1, TreeAssumption
<1>3. p[x] = Up(p, x) /\ q[x] = Up(q, x) /\ x # NoClock
  BY ClockAssumption DEF HasPaths
<1>4. p[Parent(Sel, x)] = q[Parent(Sel, x)]
  BY <1>2 DEF HasPaths
<1> QED BY <1>3, <1>4 DEF Up

LEMMA SomePath ==
  ASSUME NEW c \in Clock PROVE \E p, D : HasPaths(p, D) /\ c \in D
<1> DEFINE S == {x \in Clock : ~ \E p, D : HasPaths(p, D) /\ x \in D}
<1>1. SUFFICES ASSUME S # {} PROVE FALSE
  OBVIOUS
<1>2. PICK x \in S : Parent(Sel, x) \notin S
  BY <1>1, TreeAssumption
<1>3. PICK p, D : HasPaths(p, D) /\ Parent(Sel, x) \in D \cup {NoClock}
  <2>1. HasPaths([y \in Nodes |-> <<NoClock>>], {})
    BY DEF HasPaths, Nodes
  <2>2. Parent(Sel, x) \in Nodes BY ParentIsClock
  <2> QED BY <1>2, <2>1, <2>2 DEF Nodes
<1> DEFINE q == [y \in Nodes |-> IF y = x THEN Up(p, x) ELSE p[y]]
<1>4. x \notin D BY <1>3
<1>5. x # NoClock /\ NoClock \notin D /\ Parent(Sel, x) # x
  BY <1>3, <1>4, ClockAssumption DEF HasPaths
<1>6. HasPaths(q, D \cup {x})
  <2>1. q[NoClock] = <<NoClock>> BY <1>3, <1>5 DEF HasPaths, Nodes
  <2>2. ASSUME NEW y \in D \cup {x}
        PROVE Parent(Sel, y) \in D \cup {x, NoClock} /\ q[y] = Up(q, y)
    <3>1. Parent(Sel, y) \in D \cup {NoClock}
      BY <1>3 DEF HasPaths
    <3>2. q[y] = Up(p, y) BY <1>3, <1>4 DEF HasPaths, Nodes
    <3>3. q[Parent(Sel, y)] = p[Parent(Sel, y)]
      BY <3>1, <1>3, <1>4, <1>5 DEF HasPaths, Nodes
    <3> QED BY <3>1, <3>2, <3>3 DEF Up
  <2> QED BY <1>3, <2>1, <2>2 DEF HasPaths
<1> QED BY <1>6

LEMMA PathFunction == \E path : path = [x \in Nodes |-> Up(path, x)]
<1> DEFINE f == [x \in Nodes |->
       IF x = NoClock THEN <<NoClock>>
       ELSE CHOOSE v : \E p, D : HasPaths(p, D) /\ x \in D /\ v = p[x]]
<1>1. ASSUME NEW p, NEW D, HasPaths(p, D), NEW c \in D PROVE f[c] = p[c]
  <2>1. c \in Clock /\ c # NoClock BY <1>1, ClockAssumption DEF HasPaths
  <2>2. \E v : \E q, E : HasPaths(q, E) /\ c \in E /\ v = q[c]
    BY <1>1
  <2>3. PICK q, E : HasPaths(q, E) /\ c \in E /\ f[c] = q[c]
    BY <2>1, <2>2 DEF Nodes
  <2> QED BY <1>1, <2>3, SamePath
<1>2. ASSUME NEW x \in Nodes PROVE f[x] = Up(f, x)
  <2>1. f[NoClock] = <<NoClock>> BY DEF Nodes
  <2>2. CASE x = NoClock BY <2>1, <2>2 DEF Up
  <2>3. CASE x \in Clock
    <3>1. PICK p, D : HasPaths(p, D) /\ x \in D BY <2>3, SomePath
    <3> HIDE DEF f
    <3>2. f[x] = p[x] /\ p[x] = Up(p, x)
      <4>1. f[x] = p[x] BY <3>1, <1>1
      <4> QED BY <3>1, <4>1 DEF HasPaths
    <3>3. f[Parent(Sel, x)] = p[Parent(Sel, x)]
      <4>1. \A c \in D : f[c] = p[c] BY <3>1, <1>1
      <4>2. Parent(Sel, x) \in D \cup {NoClock} /\ p[NoClock] = <<NoClock>>
        BY <3>1 DEF HasPaths
      <4> QED BY <4>1, <4>2, <2>1
    <3> QED BY <3>2, <3>3 DEF Up
  <2> QED BY <2>2, <2>3 DEF Nodes
<1>3. f = [x \in Nodes |-> f[x]] OBVIOUS
<1>4. f = [x \in Nodes |-> Up(f, x)] BY <1>2, <1>3, Zenon
<1> HIDE DEF f
<1> QED BY <1>4

LEMMA PathIs ==
  ASSUME NEW c \in Clock
  PROVE /\ Path(Sel, c) \in Seq(Nodes)
        /\ Path(Sel, c) = IF Type[c] = "Fixed" THEN <<c>>
                          ELSE IF Parent(Sel, c) = NoClock
                          THEN <<NoClock, c>>
                          ELSE Append(Path(Sel, Parent(Sel, c)), c)
<1> DEFINE P == CHOOSE path : path = [x \in Nodes |-> Up(path, x)]
<1>1. P = [x \in Nodes |-> Up(P, x)] BY PathFunction
<1>2. \A x \in Clock : Path(Sel, x) = P[x]
  BY DEF Path, Up, Nodes
<1> HIDE DEF P
<1>3. \A x \in Nodes : P[x] = Up(P, x) BY <1>1
<1>4. P[NoClock] = <<NoClock>> BY <1>3 DEF Nodes, Up
<1>5. \A x \in Clock : P[x] \in Seq(Nodes)
  <2> DEFINE S == {x \in Clock : P[x] \notin Seq(Nodes)}
  <2>1. SUFFICES ASSUME S # {} PROVE FALSE
    OBVIOUS
  <2>2. PICK x \in S : Parent(Sel, x) \notin S
    BY <2>1, TreeAssumption
  <2>3. P[Parent(Sel, x)] \in Seq(Nodes)
    <3>1. <<NoClock>> \in Seq(Nodes) BY DEF Nodes
    <3> QED BY <2>2, <3>1, <1>4, ParentIsClock DEF Nodes
  <2>4. Up(P, x) \in Seq(Nodes)
    <3>1. x \in Nodes /\ <<x>> \in Seq(Nodes) /\ <<NoClock>> \in Seq(Nodes)
      BY DEF Nodes
    <3> QED BY <2>3, <3>1, AppendProperties DEF Up
  <2> QED BY <1>3, <2>4 DEF Nodes
<1>6. P[c] = Up(P, c) /\ c # NoClock /\ Parent(Sel, c) \in Nodes
  BY <1>3, ClockAssumption, ParentIsClock DEF Nodes
<1>7. Parent(Sel, c) = NoClock => Append(P[Parent(Sel, c)], c) = <<NoClock, c>>
  BY <1>4, PairIsAppend, Zenon
<1> QED BY <1>2, <1>5, <1>6, <1>7 DEF Up, Nodes

LEMMA OnOwnPath == ASSUME NEW c \in Clock PROVE c \in Stages[c]
<1>1. Path(Sel, c) \in Seq(Nodes) BY PathIs
<1>2. \E i \in DOMAIN Path(Sel, c) : Path(Sel, c)[i] = c
  <2>1. CASE Type[c] = "Fixed"
     BY <2>1, PathIs
  <2>2. CASE Type[c] # "Fixed" /\ Parent(Sel, c) = NoClock
    <3>1. Path(Sel, c) = <<NoClock, c>> BY <2>2, PathIs
    <3> QED BY <3>1
  <2>3. CASE Type[c] # "Fixed" /\ Parent(Sel, c) # NoClock
    <3>1. Parent(Sel, c) \in Clock BY <2>3, ParentIsClock DEF Nodes
    <3> DEFINE s == Path(Sel, Parent(Sel, c))
    <3>2. s \in Seq(Nodes) /\ c \in Nodes BY <3>1, PathIs DEF Nodes
    <3>3. Path(Sel, c) = Append(s, c) BY <2>3, PathIs
    <3> HIDE DEF s
    <3>4. Len(s) + 1 \in DOMAIN Append(s, c) /\ Append(s, c)[Len(s) + 1] = c
      BY <3>2, AppendProperties
    <3> QED BY <3>3, <3>4
  <2> QED BY <2>1, <2>2, <2>3
<1> QED BY <1>2 DEF Stages, Range
-----------------------------------------------------------------------------
(* What SetEnable on the clocks of one host does to the gates of a host.   *)

LEMMA OwnGateBits ==
  ASSUME NEW h \in Hosts, NEW c \in OwnClocks(h)
  PROVE /\ c \in Clock
        /\ "gate" \notin BitsAfter(c, TRUE) /\ "gate" \in BitsAfter(c, FALSE)
<1>1. c \in Clock
  BY HostClocksAssumption DEF OwnClocks, Range
<1>2. Type[c] \in {"MuxGate", "Gate"} /\ c \notin Inverted \cup StatusOnly
  BY <1>1, OnOwnPath, HostClocksAssumption
<1>3. ~GateBit(c, TRUE) /\ GateBit(c, FALSE)
  <2>1. (c \in Inverted) = FALSE /\ c \notin StatusOnly BY <1>2
  <2> QED BY <2>1, Zenon DEF GateBit
<1> QED BY <1>1, <1>2, <1>3 DEF BitsAfter

ClocksOf(h) == {HostClocks[h], SourceClocks[h]}

LEMMA OwnClock ==
  ASSUME NEW h \in Hosts, NEW clocks \in ClocksOf(h), NEW i \in DOMAIN clocks
  PROVE clocks[i] \in OwnClocks(h)
BY DEF ClocksOf, OwnClocks, Range

LEMMA SwitchedOwn ==
  ASSUME NEW h \in Hosts, NEW clocks \in ClocksOf(h), NEW i \in DOMAIN clocks,
         NEW enable \in BOOLEAN
  PROVE Switched(clocks, enable)[clocks[i]] = BitsAfter(clocks[i], enable)
<1>1. clocks[i] \in Clock BY OwnClock, OwnGateBits
<1>2. clocks[i] \in Stages[clocks[i]] BY <1>1, OnOwnPath
<1> QED BY <1>1, <1>2 DEF Switched

LEMMA SwitchedOpens ==
  ASSUME NEW h \in Hosts, NEW c \in OwnClocks(h), NEW clocks,
         "gate" \notin reg[c]
  PROVE "gate" \notin Switched(clocks, TRUE)[c]
BY OwnGateBits DEF Switched

LEMMA SwitchedOther ==
  ASSUME NEW h \in Hosts, NEW k \in Hosts, h # k, NEW clocks \in ClocksOf(h),
         NEW enable, NEW c \in OwnClocks(k)
  PROVE Switched(clocks, enable)[c] = reg[c]
<1>1. c \in Clock BY OwnGateBits
<1>2. \A i \in DOMAIN clocks : c \notin Stages[clocks[i]]
  BY OwnClock, HostClocksAssumption
<1> QED BY <1>1, <1>2 DEF Switched

LEMMA GatedParts ==
  ASSUME NEW h \in Hosts
  PROVE Gated(HostClocks[h] \o SourceClocks[h]) <=>
          \E c \in OwnClocks(h) : "gate" \in reg[c]
<1> DEFINE s == HostClocks[h]
           t == SourceClocks[h]
<1>1. s \in Seq(Clock) /\ t \in Seq(Clock) BY HostClocksAssumption
<1> HIDE DEF s, t
<1>2. /\ DOMAIN s = 1 .. Len(s) /\ DOMAIN t = 1 .. Len(t)
      /\ DOMAIN (s \o t) = 1 .. Len(s) + Len(t)
      /\ Len(s) \in Nat /\ Len(t) \in Nat
      /\ \A i \in 1 .. Len(s) + Len(t) :
           (s \o t)[i] = IF i <= Len(s) THEN s[i] ELSE t[i - Len(s)]
  BY <1>1, ConcatProperties
<1>3. \A i \in 1 .. Len(t) : (s \o t)[i + Len(s)] = t[i]
  BY <1>2
<1>4. Range(s \o t) = Range(s) \cup Range(t)
  <2>1. Range(s \o t) \subseteq Range(s) \cup Range(t)
    BY <1>2 DEF Range
  <2>2. Range(s) \subseteq Range(s \o t)
    BY <1>2 DEF Range
  <2>3. Range(t) \subseteq Range(s \o t)
    <3> SUFFICES ASSUME NEW i \in 1 .. Len(t) PROVE t[i] \in Range(s \o t)
      BY <1>2 DEF Range
    <3>1. i + Len(s) \in 1 .. Len(s) + Len(t) BY <1>2
    <3> QED BY <1>2, <1>3, <3>1 DEF Range
  <2> QED BY <2>1, <2>2, <2>3
<1>5. Gated(s \o t) <=> \E c \in Range(s \o t) : "gate" \in reg[c]
  BY DEF Gated, Range
<1> QED BY <1>4, <1>5 DEF s, t, OwnClocks
-----------------------------------------------------------------------------
(* The inductive invariant.                                                *)

Unclocked  == {"PRESENT", "ALLOC", "REGION", "GPIO", "CLOCK"}
PowerSteps == {"VOLTAGE", "ON_VMMC", "ON_VQMMC", "ROLLBACK"}
OffSteps   == {"OFF_VQMMC", "OFF_VMMC", "OFF_CLOCK"}
Selected   == {"APP_WIDTH", "SET_WIDTH", "SWITCH_FUNC", "SWITCH_WIDTH",
               "CHECK_WIDTH", "HS_TIMING", "SEND_STATUS", "MCLK_FAST",
               "INSTALL"}
Narrow     == {"MCLK", "GO_IDLE", "IF_COND", "APP_INQUIRE", "INQUIRE",
               "APP_OP", "OP_COND", "ALL_SEND_CID", "SET_RCA", "SELECT",
               "APP_WIDTH", "SET_WIDTH", "SWITCH_WIDTH", "CHECK_WIDTH"}
EmmcOnly   == {"SWITCH_WIDTH", "CHECK_WIDTH", "HS_TIMING"}
SdOnly     == {"VOLTAGE", "ON_VQMMC", "ROLLBACK", "OFF_VQMMC", "IF_COND",
               "APP_INQUIRE", "INQUIRE", "APP_OP", "APP_WIDTH", "SET_WIDTH",
               "SWITCH_FUNC"}
Widths     == {1, 4, 8}
AnyCard    == [st : CardStates, width : Widths, app : BOOLEAN, err : BOOLEAN]

Types ==
  /\ stage \in {"init", "ready", "handoff", "over", "unloaded"}
  /\ stage \in {"init", "handoff"} => cur \in Hosts
  /\ stage = "init" => at \in Steps \ {"CMD0", "NARROW"}
  /\ stage = "handoff" => at \in {"CMD0", "NARROW"}
  /\ card \in [Hosts -> AnyCard] /\ width \in [Hosts -> Widths]
  /\ mclk \in [Hosts -> {"boot", "400k", "fast", "stopped"}]
  /\ rail \in [Hosts -> SUBSET {"vmmc", "vqmmc"}]
  /\ registered \subseteq Hosts /\ powered \subseteq Hosts

(* A card is off exactly while its main supply is; only the microSD is     *)
(* ever told that an application command follows; and a preserved host has *)
(* all its supplies or none.                                               *)
Cards ==
  \A h \in Hosts :
    /\ card[h].st = "off" <=> "vmmc" \notin rail[h]
    /\ rail[h] \subseteq AllRails(h)
    /\ IsEmmc(h) => ~card[h].app
    /\ h \in Preserved => rail[h] \in {{}, AllRails(h)}

(* Hosts are taken in order, each through the steps of its kind.           *)
Order ==
  stage = "init" =>
    /\ \A h \in registered : h < cur
    /\ \A h \in powered :
         h <= cur /\ (h = cur => at \notin Unclocked \cup {"RESET"})
    /\ at \in PowerSteps \cup OffSteps => cur \notin Preserved
    /\ at \in SdOnly => ~IsEmmc(cur)
    /\ at \in EmmcOnly => IsEmmc(cur)

(* The supplies of the host at hand, step by step.                         *)
Supply ==
  stage = "init" =>
    /\ at = "ON_VQMMC" => "vmmc" \in rail[cur]
    /\ at = "ROLLBACK" => "vqmmc" \notin rail[cur] \/ "ioOn" \in fault
    /\ at = "OFF_VMMC" => "vqmmc" \notin rail[cur]
    /\ at \in Narrow \cup Selected =>
         \/ rail[cur] = AllRails(cur)
         \/ cur \in Preserved /\ card[cur].st = "off"
    /\ at = "OFF_CLOCK" /\ cur \in powered /\ fault = {} => rail[cur] = {}

(* What the identification has reached when it is at a step.               *)
Script ==
  stage = "init" =>
    /\ at \in Selected => card[cur].st = "tran" /\ width[cur] <= card[cur].width
    /\ at \in Selected \ {"SET_WIDTH", "SWITCH_FUNC"} => ~card[cur].app
    /\ at \in Narrow \cup PowerSteps => width[cur] = 1
    /\ at = "CHECK_WIDTH" /\ ~card[cur].err =>
         card[cur].width = FullWidth[cur]
    /\ at = "INSTALL" => mclk[cur] = "fast"

(* The gates of the host at hand.                                          *)
Gates ==
  stage = "init" =>
    /\ at \notin Unclocked \cup OffSteps => ~Gated(HostClocks[cur])
    /\ at = "INSTALL" => ~Gated(SourceClocks[cur])

HostReady(h) ==
  /\ rail[h] = AllRails(h) /\ \A c \in OwnClocks(h) : "gate" \notin reg[c]
  /\ card[h].st = "tran" /\ ~card[h].app /\ mclk[h] = "fast"
  /\ width[h] <= card[h].width

Ready == InUse => \A h \in registered : HostReady(h)

Handed(h) ==
  card[h] = Card("idle", 1) /\ width[h] = 1 /\ mclk[h] \in {"400k", "stopped"}

Handoff ==
  /\ stage = "handoff" /\ at = "NARROW" =>
       cur \in registered /\ (cur \in deaf \/ card[cur] = Card("idle", 1))
  /\ stage \in {"handoff", "over"} =>
       \A h \in registered \ deaf : stage = "over" \/ h < cur => Handed(h)

IInv ==
  /\ Types /\ Cards /\ Order /\ Supply /\ Script /\ Gates /\ Ready
  /\ RailsSafe /\ Handoff
-----------------------------------------------------------------------------
(* The changes a command makes to a card, field by field.                  *)
LEMMA CardFields ==
  ASSUME NEW st \in CardStates, NEW w \in Widths
  PROVE /\ Card(st, w) \in AnyCard
        /\ Card(st, w).st = st /\ Card(st, w).width = w /\ ~Card(st, w).app
BY DEF Card, AnyCard

LEMMA ToFields ==
  ASSUME NEW c \in AnyCard, NEW st \in CardStates
  PROVE /\ To(c, st) \in AnyCard
        /\ To(c, st).st = st /\ To(c, st).width = c.width /\ ~To(c, st).app
BY DEF To, AnyCard

LEMMA PlainFields ==
  ASSUME NEW c \in AnyCard
  PROVE /\ Plain(c) \in AnyCard
        /\ Plain(c).st = c.st /\ Plain(c).width = c.width /\ ~Plain(c).app
BY DEF Plain, AnyCard

LEMMA AppFields ==
  ASSUME NEW c \in AnyCard
  PROVE /\ [c EXCEPT !.app = TRUE] \in AnyCard
        /\ [c EXCEPT !.app = TRUE].st = c.st
        /\ [c EXCEPT !.app = TRUE].width = c.width
BY DEF AnyCard

LEMMA ErrFields ==
  ASSUME NEW c \in AnyCard, NEW e \in BOOLEAN
  PROVE /\ [c EXCEPT !.err = e] \in AnyCard
        /\ [c EXCEPT !.err = e].st = c.st /\ [c EXCEPT !.err = e].app = c.app
        /\ [c EXCEPT !.err = e].width = c.width /\ [c EXCEPT !.err = e].err = e
BY DEF AnyCard

LEMMA WidthFields ==
  ASSUME NEW c \in AnyCard, NEW w \in Widths
  PROVE /\ [c EXCEPT !.width = w] \in AnyCard
        /\ [c EXCEPT !.width = w].st = c.st
        /\ [c EXCEPT !.width = w].app = c.app
        /\ [c EXCEPT !.width = w].width = w
BY DEF AnyCard

(* What a command does to a card: a card without supply never reacts, and  *)
(* one that does stays within its states.                                  *)
LEMMA Reacted ==
  ASSUME NEW h \in Hosts, NEW step, NEW c \in AnyCard,
         NEW r \in Reactions(h, step, c)
  PROVE /\ c.st # "off" /\ r.bit \in BOOLEAN
        /\ r.card \in AnyCard /\ r.card.st # "off"
        /\ r.card.app => step \in {"APP_INQUIRE", "APP_OP", "APP_WIDTH"} \/ c.app
<1> USE DEF Answer, InState, IsEmmc
<1>0. /\ c.st \in CardStates /\ c.app \in BOOLEAN /\ c.err \in BOOLEAN
      /\ 1 \in Widths /\ FullWidth[h] \in Widths
      /\ {"off", "idle", "ready", "ident", "stby", "tran"} = CardStates
  BY HostsAssumption DEF AnyCard, Widths, CardStates
<1>1. CASE step \in {"GO_IDLE", "CMD0"}
  <2>1. r = [card |-> Card("idle", 1), bit |-> FALSE] /\ c.st # "off"
    BY <1>1 DEF Reactions
  <2> QED BY <1>0, <2>1, CardFields
<1>2. CASE step \in {"IF_COND", "INQUIRE"}
  <2>1. r = [card |-> Plain(c), bit |-> FALSE] /\ c.st # "off"
    BY <1>2 DEF Reactions
  <2> QED BY <1>0, <2>1, PlainFields
<1>3. CASE step \in {"APP_INQUIRE", "APP_OP", "APP_WIDTH"}
  <2>1. r = [card |-> [c EXCEPT !.app = TRUE], bit |-> FALSE] /\ c.st # "off"
    BY <1>3 DEF Reactions
  <2> QED BY <1>0, <1>3, <2>1, AppFields
<1>4. CASE step = "OP_COND"
  <2>1. \E b \in BOOLEAN :
          r = [card |-> IF b THEN To(c, "ready") ELSE Plain(c), bit |-> b]
    BY <1>4 DEF Reactions
  <2>2. c.st = "idle"
    BY <1>4 DEF Reactions
  <2> QED BY <1>0, <2>1, <2>2, ToFields, PlainFields
<1>5. CASE step \in {"ALL_SEND_CID", "SET_RCA", "SELECT"}
  <2>1. PICK st \in {"ident", "stby", "tran"} :
          r = [card |-> To(c, st), bit |-> FALSE] /\ c.st # "off"
    BY <1>5 DEF Reactions
  <2> QED BY <1>0, <2>1, ToFields
<1>6. CASE step = "SET_WIDTH"
  <2>1. /\ r = [card |-> [Plain(c) EXCEPT !.width = FullWidth[h]],
                bit |-> FALSE]
        /\ c.st # "off"
    BY <1>6 DEF Reactions
  <2>2. Plain(c) \in AnyCard /\ Plain(c).st = c.st /\ ~Plain(c).app
    BY <1>0, PlainFields
  <2> QED BY <1>0, <2>1, <2>2, WidthFields
<1>7. CASE step = "SWITCH_FUNC"
  <2>1. r = [card |-> c, bit |-> FALSE] /\ c.st # "off"
    BY <1>7 DEF Reactions
  <2> QED BY <1>0, <2>1
<1>8. CASE step = "SWITCH_WIDTH"
  <2> DEFINE wide == [c EXCEPT !.width = FullWidth[h]]
             err  == [c EXCEPT !.err = TRUE]
  <2>1. \/ r = [card |-> wide, bit |-> FALSE]
        \/ r = [card |-> err, bit |-> FALSE]
    BY <1>8 DEF Reactions
  <2>2. c.st = "tran"
    BY <1>8 DEF Reactions
  <2>3. wide \in AnyCard /\ wide.st = c.st /\ (wide.app => c.app)
    BY <1>0, WidthFields
  <2>4. err \in AnyCard /\ err.st = c.st /\ (err.app => c.app)
    BY ErrFields
  <2> HIDE DEF wide, err
  <2>5. (r.card = wide \/ r.card = err) /\ r.bit = FALSE
    BY <2>1
  <2> QED BY <2>2, <2>3, <2>4, <2>5
<1>9. CASE step \in {"HS_TIMING", "CHECK_WIDTH", "SEND_STATUS"}
  <2>1. PICK e \in BOOLEAN, b \in BOOLEAN :
          r = [card |-> [c EXCEPT !.err = e], bit |-> b]
    BY <1>0, <1>9 DEF Reactions
  <2>2. c.st = "tran"
    BY <1>9 DEF Reactions
  <2> QED BY <1>0, <2>1, <2>2, ErrFields
<1>10. CASE step \notin CardCommands \cup {"CMD0"}
  BY <1>10 DEF Reactions, CardCommands
<1> QED
  BY <1>1, <1>2, <1>3, <1>4, <1>5, <1>6, <1>7, <1>8, <1>9, <1>10
  DEF CardCommands

(* What the steps from the selection on leave of the card.                 *)
LEMMA ReactedSelected ==
  ASSUME NEW h \in Hosts, NEW step \in Selected \cup {"SELECT"},
         NEW c \in AnyCard, NEW r \in Reactions(h, step, c)
  PROVE /\ r.card.st = "tran"
        /\ r.card.width \in {c.width, FullWidth[h]}
        /\ step = "SET_WIDTH" => r.card.width = FullWidth[h] /\ ~r.card.app
        /\ step \notin {"SET_WIDTH", "SWITCH_WIDTH"} =>
             r.card.width = c.width
        /\ step = "SWITCH_WIDTH" => r.card.err \/ r.card.width = FullWidth[h]
        /\ step \in {"SELECT", "SWITCH_FUNC"} => ~r.card.app
        /\ step = "CHECK_WIDTH" => r.bit = c.err
<1> USE DEF Answer, InState, IsEmmc
<1>0. /\ c.err \in BOOLEAN /\ c.app \in BOOLEAN /\ FullWidth[h] \in Widths
      /\ "tran" \in CardStates
  BY HostsAssumption DEF AnyCard, Widths, CardStates
<1>1. CASE step = "SELECT"
  <2>1. r.card = To(c, "tran")
    BY <1>1 DEF Reactions
  <2> QED BY <1>0, <1>1, <2>1, ToFields
<1>2. CASE step = "APP_WIDTH"
  <2>1. r = [card |-> [c EXCEPT !.app = TRUE], bit |-> FALSE] /\ c.st = "tran"
    BY <1>2 DEF Reactions
  <2> QED BY <1>0, <1>2, <2>1, AppFields
<1>3. CASE step = "SWITCH_FUNC"
  <2>1. r.card = c /\ c.st = "tran" /\ ~c.app
    BY <1>3 DEF Reactions
  <2> QED BY <1>0, <1>3, <2>1
<1>4. CASE step = "SET_WIDTH"
  <2>1. r.card = [Plain(c) EXCEPT !.width = FullWidth[h]] /\ c.st = "tran"
    BY <1>4 DEF Reactions
  <2>2. Plain(c) \in AnyCard /\ Plain(c).st = c.st /\ ~Plain(c).app
    BY <1>0, PlainFields
  <2> QED BY <1>0, <1>4, <2>1, <2>2, WidthFields
<1>5. CASE step = "SWITCH_WIDTH"
  <2> DEFINE wide == [c EXCEPT !.width = FullWidth[h]]
             err  == [c EXCEPT !.err = TRUE]
  <2>1. \/ r = [card |-> wide, bit |-> FALSE]
        \/ r = [card |-> err, bit |-> FALSE]
    BY <1>5 DEF Reactions
  <2>2. c.st = "tran"
    BY <1>5 DEF Reactions
  <2>3. wide.st = c.st /\ wide.width = FullWidth[h]
    BY <1>0, WidthFields
  <2>4. err.st = c.st /\ err.width = c.width /\ err.err
    BY ErrFields
  <2> HIDE DEF wide, err
  <2> QED BY <1>5, <2>1, <2>2, <2>3, <2>4
<1>6. CASE step \in {"HS_TIMING", "CHECK_WIDTH", "SEND_STATUS"}
  <2>1. PICK e \in BOOLEAN, b \in BOOLEAN :
          r = [card |-> [c EXCEPT !.err = e], bit |-> b]
    BY <1>0, <1>6 DEF Reactions
  <2>2. c.st = "tran" /\ (step = "CHECK_WIDTH" => r.bit = c.err)
    BY <1>6 DEF Reactions
  <2> QED BY <1>0, <1>6, <2>1, <2>2, ErrFields
<1>7. CASE step \in {"MCLK_FAST", "INSTALL"}
  BY <1>7 DEF Reactions
<1> QED BY <1>1, <1>2, <1>3, <1>4, <1>5, <1>6, <1>7 DEF Selected

-----------------------------------------------------------------------------
LEMMA HostFacts ==
  /\ Hosts \subseteq Nat /\ 0 \in Hosts /\ Preserved \subseteq Hosts
  /\ \A h \in Hosts : FullWidth[h] \in Widths /\ h < NumberOfHosts
  /\ \A h \in Hosts : h + 1 = NumberOfHosts \/ h + 1 \in Hosts
BY HostsAssumption DEF Hosts, Widths

LEMMA InitInv == Init => IInv
<1> SUFFICES ASSUME Init PROVE IInv
  OBVIOUS
<1>1. PICK sd \in {"off", "tran"} :
        /\ card = [h \in Hosts |->
             IF IsEmmc(h) THEN Card("tran", FullWidth[h])
             ELSE Card(sd, IF sd = "tran" THEN FullWidth[h] ELSE 1)]
        /\ width = [h \in Hosts |-> card[h].width]
        /\ rail = [h \in Hosts |->
             IF IsEmmc(h) \/ sd = "tran" THEN AllRails(h) ELSE {}]
  BY DEF Init
<1>2. /\ stage = "init" /\ cur = 0 /\ at = "PRESENT"
      /\ registered = {} /\ powered = {} /\ fault = {}
      /\ mclk = [h \in Hosts |-> "boot"]
  BY DEF Init
<1>3. /\ sd \in CardStates /\ "tran" \in CardStates /\ 1 \in Widths
      /\ \A h \in Hosts : FullWidth[h] \in Widths
  BY HostFacts DEF CardStates, Widths
<1>4. \A h \in Hosts :
        /\ card[h] \in AnyCard /\ ~card[h].app /\ card[h].width \in Widths
        /\ card[h].st = IF IsEmmc(h) THEN "tran" ELSE sd
  <2> SUFFICES ASSUME NEW h \in Hosts
      PROVE /\ card[h] \in AnyCard /\ ~card[h].app /\ card[h].width \in Widths
            /\ card[h].st = IF IsEmmc(h) THEN "tran" ELSE sd
    OBVIOUS
  <2> DEFINE st == IF IsEmmc(h) THEN "tran" ELSE sd
             w  == IF IsEmmc(h) \/ sd = "tran" THEN FullWidth[h] ELSE 1
  <2>1. st \in CardStates /\ w \in Widths BY <1>3
  <2>2. card[h] = Card(st, w) BY <1>1
  <2> HIDE DEF st, w
  <2>3. card[h] \in AnyCard /\ ~card[h].app /\ card[h].width = w
        /\ card[h].st = st
    BY <2>1, <2>2, CardFields
  <2> QED BY <2>1, <2>3 DEF st
<1>5. Types
  BY <1>1, <1>2, <1>4, HostFacts DEF Types, Steps, AllRails
<1>6. Cards
  BY <1>1, <1>2, <1>4 DEF Cards, AllRails
<1>7. Order /\ Supply /\ Script /\ Gates /\ Ready /\ Handoff
  BY <1>2
  DEF Order, Supply, Script, Gates, Ready, Handoff, Unclocked, PowerSteps,
      OffSteps, SdOnly, EmmcOnly, Narrow, Selected
<1>8. RailsSafe
  BY <1>1, <1>2 DEF RailsSafe, AllRails
<1> QED BY <1>5, <1>6, <1>7, <1>8 DEF IInv

(* The actions of InitMsdc that neither send a command nor switch a supply. *)
Quiet ==
  \/ GetCardPresent(cur) \/ AllocatePrivate(cur) \/ LocateRegion(cur)
  \/ InitGpio(cur) \/ ClockOn(cur) \/ ResetHost(cur) \/ SetVoltages(cur)
  \/ ClockOff(cur) \/ SetMclk(cur) \/ Install(cur) \/ ResetUnheard(cur)

Regulators ==
  \/ EnableVmmc(cur) \/ EnableVqmmc(cur) \/ RollbackVmmc(cur)
  \/ DisableVqmmc(cur) \/ DisableVmmc(cur)

Commands == CommandAnswered(cur) \/ AnswerLost(cur) \/ CommandLost(cur)

LEMMA InitSteps == InitMsdc => stage = "init" /\ (Quiet \/ Regulators \/ Commands)
BY Zenon DEF InitMsdc, PowerControl, Quiet, Regulators, Commands

LEMMA QuietKeeps ==
  ASSUME Quiet PROVE UNCHANGED <<card, rail>>
BY DEF Quiet, GetCardPresent, AllocatePrivate, LocateRegion, InitGpio, ClockOn,
       ResetHost, SetVoltages, ClockOff, SetMclk, Install, ResetUnheard,
       cards, power

LEMMA RegulatorKeeps ==
  ASSUME Regulators
  PROVE /\ UNCHANGED <<width, mclk, reg, registered, powered, deaf, retry>>
        /\ at \in {"ON_VMMC", "ON_VQMMC", "ROLLBACK", "OFF_VQMMC", "OFF_VMMC"}
        /\ \/ UNCHANGED <<rail, card>>
           \/ at = "ON_VMMC" /\ Supplied(cur, rail[cur] \cup {"vmmc"})
           \/ at = "ON_VQMMC" /\ Supplied(cur, rail[cur] \cup {"vqmmc"})
           \/ at \in {"ROLLBACK", "OFF_VMMC"}
                /\ Supplied(cur, rail[cur] \ {"vmmc"})
           \/ at = "OFF_VQMMC" /\ Supplied(cur, rail[cur] \ {"vqmmc"})
BY DEF Regulators, EnableVmmc, EnableVqmmc, RollbackVmmc, DisableVqmmc,
       DisableVmmc, Regulator, RegulatorDone, RegulatorFailed, control

(* A regulator write and the card's own supply.                            *)
LEMMA SuppliedFacts ==
  ASSUME Types, Cards, cur \in Hosts, NEW on \in SUBSET {"vmmc", "vqmmc"},
         Supplied(cur, on)
  PROVE /\ rail' = [rail EXCEPT ![cur] = on] /\ rail'[cur] = on
        /\ card' \in [Hosts -> AnyCard]
        /\ card'[cur].st = "off" <=> "vmmc" \notin on
        /\ card'[cur].app => card[cur].app
        /\ \A h \in Hosts : h # cur => card'[h] = card[h] /\ rail'[h] = rail[h]
<1>1. /\ card \in [Hosts -> AnyCard] /\ card[cur] \in AnyCard
      /\ rail \in [Hosts -> SUBSET {"vmmc", "vqmmc"}]
  BY DEF Types
<1>2. /\ Card("off", 1) \in AnyCard /\ Card("off", 1).st = "off"
      /\ ~Card("off", 1).app
      /\ Card("idle", 1) \in AnyCard /\ Card("idle", 1).st = "idle"
      /\ ~Card("idle", 1).app
  BY CardFields DEF CardStates, Widths
<1> QED BY <1>1, <1>2 DEF Supplied

LEMMA CommandKeeps ==
  ASSUME Types, Commands, cur \in Hosts
  PROVE /\ at \in CardCommands
        /\ UNCHANGED <<rail, fault, powered, mclk, reg, registered>>
        /\ card' \in [Hosts -> AnyCard]
        /\ card'[cur].st = "off" <=> card[cur].st = "off"
        /\ card'[cur].app =>
             at \in {"APP_INQUIRE", "APP_OP", "APP_WIDTH"} \/ card[cur].app
        /\ \A h \in Hosts : h # cur => card'[h] = card[h] /\ width'[h] = width[h]
<1> USE DEF power
<1>0. card \in [Hosts -> AnyCard] /\ card[cur] \in AnyCard
      /\ width \in [Hosts -> Widths]
  BY DEF Types
<1>1. ASSUME NEW r \in Reactions(cur, at, card[cur]),
             card' = [card EXCEPT ![cur] = r.card]
      PROVE /\ card' \in [Hosts -> AnyCard]
            /\ card'[cur].st = "off" <=> card[cur].st = "off"
            /\ card'[cur].app =>
                 at \in {"APP_INQUIRE", "APP_OP", "APP_WIDTH"} \/ card[cur].app
            /\ \A h \in Hosts : h # cur => card'[h] = card[h]
  <2>1. /\ card[cur].st # "off" /\ r.card \in AnyCard /\ r.card.st # "off"
        /\ r.card.app =>
             at \in {"APP_INQUIRE", "APP_OP", "APP_WIDTH"} \/ card[cur].app
    BY <1>0, Reacted
  <2> QED BY <1>0, <1>1, <2>1
<1>2. CASE CommandAnswered(cur)
  BY <1>0, <1>1, <1>2 DEF CommandAnswered
<1>3. ASSUME Fail(cur)
      PROVE \A h \in Hosts : h # cur => width'[h] = width[h]
  BY <1>0, <1>3 DEF Fail
<1>4. CASE AnswerLost(cur)
  BY <1>0, <1>1, <1>3, <1>4 DEF AnswerLost
<1>5. CASE CommandLost(cur)
  <2>1. at \in CardCommands /\ Fail(cur)
        /\ UNCHANGED <<rail, fault, powered, mclk, reg, registered>>
    BY <1>5 DEF CommandLost
  <2>2. card' = card \/ card' = [card EXCEPT ![cur].app = FALSE]
    BY <1>5 DEF CommandLost
  <2>3. [card[cur] EXCEPT !.app = FALSE] \in AnyCard
        /\ [card[cur] EXCEPT !.app = FALSE].st = card[cur].st
        /\ ~[card[cur] EXCEPT !.app = FALSE].app
    BY <1>0 DEF AnyCard
  <2> QED BY <1>0, <1>3, <2>1, <2>2, <2>3
<1> QED BY <1>2, <1>4, <1>5 DEF Commands

-----------------------------------------------------------------------------
(* Where a step of InitMsdc goes: on to a step of the same host, to the    *)
(* next host, or out of the driver.                                        *)
LEMMA FlowFacts ==
  ASSUME Types, InitMsdc
  PROVE /\ cur \in Hosts /\ stage = "init"
        /\ stage' \in {"init", "ready", "unloaded"}
        /\ stage' = "init" => cur' \in Hosts /\ at' \in Steps \ {"CMD0", "NARROW"}
        /\ \/ cur' = cur /\ stage' \in {"init", "unloaded"}
           \/ cur' = cur + 1 /\ at' = "PRESENT" /\ stage' \in {"init", "ready"}
        /\ stage' = "unloaded" => cur' = cur
        /\ registered' \in {registered, registered \cup {cur}}
        /\ powered' \in {powered, powered \cup {cur}}
<1>1. stage = "init" /\ cur \in Hosts /\ at \in Steps \ {"CMD0", "NARROW"}
      /\ (Quiet \/ Regulators \/ Commands)
  BY InitSteps DEF Types
<1> DEFINE Goes ==
      /\ stage' \in {"init", "ready", "unloaded"}
      /\ stage' = "init" => cur' \in Hosts /\ at' \in Steps \ {"CMD0", "NARROW"}
      /\ \/ cur' = cur /\ stage' \in {"init", "unloaded"}
         \/ cur' = cur + 1 /\ at' = "PRESENT" /\ stage' \in {"init", "ready"}
      /\ stage' = "unloaded" => cur' = cur
<1>2. NextHost => Goes
  BY <1>1, HostFacts DEF NextHost, Steps
<1>3. ASSUME NEW s \in Steps \ {"CMD0", "NARROW"}, GoTo(s) PROVE Goes
  BY <1>1, <1>3 DEF GoTo
<1>4. Undo(cur) => Goes
  BY <1>2, <1>3 DEF Undo, Steps
<1>5. InitFailed(cur) => Goes
  BY <1>2, <1>3 DEF InitFailed, Steps
<1>6. at \in CardCommands => After(at, cur) \in Steps \ {"CMD0", "NARROW"}
      \/ at = "MCLK_FAST"
  BY <1>1, HostFacts DEF CardCommands, After, Steps, IsEmmc
<1>7. CASE Quiet
  <2> SUFFICES /\ Goes
               /\ registered' \in {registered, registered \cup {cur}}
               /\ powered' \in {powered, powered \cup {cur}}
    BY <1>1
  <2> HIDE DEF Goes
  <2>1. CASE GetCardPresent(cur)
    BY <1>1, <1>2, <1>3, <2>1 DEF GetCardPresent, power, Steps
  <2>2. CASE AllocatePrivate(cur)
    <3>1. \/ GoTo("REGION") 
          \/ stage' = "unloaded" /\ cur' = cur
      BY <2>2 DEF AllocatePrivate
    <3>2. Goes BY <1>3, <3>1 DEF Goes, Steps
    <3> QED BY <2>2, <3>2 DEF AllocatePrivate, power
  <2>3. CASE LocateRegion(cur)
    BY <1>1, <1>2, <1>3, <2>3 DEF LocateRegion, power, Steps
  <2>4. CASE InitGpio(cur)
    BY <1>1, <1>3, <1>5, <2>4 DEF InitGpio, power, Steps
  <2>5. CASE ClockOn(cur)
    BY <1>1, <1>3, <2>5 DEF ClockOn, power, Steps
  <2>6. CASE ResetHost(cur)
    BY <1>1, <1>3, <1>5, <2>6 DEF ResetHost, Steps
  <2>7. CASE SetVoltages(cur)
    BY <1>1, <1>3, <1>4, <2>7 DEF SetVoltages, Steps
  <2>8. CASE ClockOff(cur)
    BY <1>1, <1>2, <2>8 DEF ClockOff, power
  <2>9. CASE SetMclk(cur)
    BY <1>1, <1>3, <1>4, <2>9 DEF SetMclk, power, Steps
  <2>10. CASE Install(cur)
    BY <1>1, <1>2, <1>4, <2>10 DEF Install, power
  <2>11. CASE ResetUnheard(cur)
    BY <1>1, <1>3, <1>6, <2>11 DEF ResetUnheard, power, CardCommands
  <2> QED
    BY <1>7, <2>1, <2>2, <2>3, <2>4, <2>5, <2>6, <2>7, <2>8, <2>9, <2>10,
       <2>11 DEF Quiet
<1>8. CASE Regulators
  <2>1. Goes
    BY <1>3, <1>4, <1>8
    DEF Regulators, EnableVmmc, EnableVqmmc, RollbackVmmc, DisableVqmmc,
        DisableVmmc, Regulator, Steps
  <2> QED BY <1>1, <1>8, <2>1, RegulatorKeeps DEF Goes
<1>9. CASE Commands
  <2>1. Fail(cur) => Goes
    BY <1>3, <1>4 DEF Fail, Steps
  <2>2. ASSUME NEW b, at \in CardCommands, Proceed(cur, b) PROVE Goes
    BY <1>3, <1>4, <1>6, <2>2 DEF Proceed, Steps, CardCommands
  <2>3. Goes
    BY <1>9, <2>1, <2>2 DEF Commands, CommandAnswered, AnswerLost, CommandLost
  <2> QED BY <1>1, <1>9, <2>3, CommandKeeps DEF Goes
<1> QED BY <1>1, <1>7, <1>8, <1>9

LEMMA TypesStep == ASSUME IInv, InitMsdc PROVE Types'
<1>1. Types /\ Cards BY DEF IInv
<1>2. /\ width \in [Hosts -> Widths] /\ card \in [Hosts -> AnyCard]
      /\ mclk \in [Hosts -> {"boot", "400k", "fast", "stopped"}]
      /\ rail \in [Hosts -> SUBSET {"vmmc", "vqmmc"}]
  BY <1>1 DEF Types
<1>3. /\ FullWidth[cur] \in Widths /\ 1 \in Widths /\ cur \in Hosts
  BY <1>1, FlowFacts, HostFacts DEF Widths
<1>4. /\ width' \in [Hosts -> Widths] /\ card' \in [Hosts -> AnyCard]
      /\ mclk' \in [Hosts -> {"boot", "400k", "fast", "stopped"}]
      /\ rail' \in [Hosts -> SUBSET {"vmmc", "vqmmc"}]
  <2>1. CASE Quiet
    <3>1. width' = width \/ width' = [width EXCEPT ![cur] = 1]
      BY <2>1
      DEF Quiet, GetCardPresent, AllocatePrivate, LocateRegion, InitGpio,
          ClockOn, ResetHost, SetVoltages, ClockOff, SetMclk, Install,
          ResetUnheard, control
    <3>2. mclk' = mclk \/ \E rate \in {"400k", "fast", "stopped"} :
                            mclk' = [mclk EXCEPT ![cur] = rate]
      BY <2>1
      DEF Quiet, GetCardPresent, AllocatePrivate, LocateRegion, InitGpio,
          ClockOn, ResetHost, SetVoltages, ClockOff, SetMclk, Install,
          ResetUnheard, control
    <3> QED BY <1>2, <1>3, <2>1, <3>1, <3>2, QuietKeeps
  <2>2. CASE Regulators
    BY <1>1, <1>2, <1>3, <2>2, RegulatorKeeps, SuppliedFacts
  <2>3. CASE Commands
    <3>1. width' \in [Hosts -> Widths]
      <4>1. Fail(cur) => width' \in [Hosts -> Widths]
        BY <1>2, <1>3 DEF Fail
      <4>2. ASSUME NEW b, at \in CardCommands
            PROVE WidthAnswered(cur, b) \in Widths
        BY <1>2, <1>3, <4>2 DEF WidthAnswered
      <4> QED
        BY <1>2, <1>3, <2>3, <4>1, <4>2
        DEF Commands, CommandAnswered, AnswerLost, CommandLost
    <3> QED BY <1>1, <1>2, <1>3, <2>3, <3>1, CommandKeeps
  <2> QED BY <2>1, <2>2, <2>3, InitSteps
<1> QED BY <1>1, <1>3, <1>4, FlowFacts DEF Types

LEMMA CardsStep == ASSUME IInv, InitMsdc PROVE Cards'
<1>1. /\ Types /\ Cards /\ Order /\ stage = "init" /\ cur \in Hosts
      /\ card[cur] \in AnyCard
      /\ rail \in [Hosts -> SUBSET {"vmmc", "vqmmc"}]
  BY FlowFacts DEF IInv, Types
<1>2. CASE Quiet
  BY <1>1, <1>2, QuietKeeps DEF Cards
<1>3. CASE Regulators
  <2>1. cur \notin Preserved /\ (at \in {"ON_VQMMC", "OFF_VQMMC", "ROLLBACK"} =>
                                   ~IsEmmc(cur))
    BY <1>1, <1>3, RegulatorKeeps DEF Order, PowerSteps, OffSteps, SdOnly
  <2>2. CASE UNCHANGED <<rail, card>>
    BY <1>1, <2>2 DEF Cards
  <2>3. ASSUME NEW on \in SUBSET {"vmmc", "vqmmc"}, Supplied(cur, on),
               on \subseteq AllRails(cur)
        PROVE Cards'
    <3>1. /\ rail'[cur] = on /\ (card'[cur].st = "off" <=> "vmmc" \notin on)
          /\ card'[cur].app => card[cur].app
          /\ \A h \in Hosts : h # cur =>
               card'[h] = card[h] /\ rail'[h] = rail[h]
      BY <1>1, <2>3, SuppliedFacts
    <3> QED BY <1>1, <2>1, <2>3, <3>1 DEF Cards
  <2>4. /\ rail[cur] \subseteq AllRails(cur)
        /\ "vmmc" \in AllRails(cur)
        /\ at = "ON_VQMMC" => "vqmmc" \in AllRails(cur)
    BY <1>1, <2>1 DEF Cards, AllRails
  <2>5. rail[cur] \subseteq {"vmmc", "vqmmc"} BY <1>1
  <2> QED BY <1>3, <2>2, <2>3, <2>4, <2>5, RegulatorKeeps
<1>4. CASE Commands
  <2>1. IsEmmc(cur) => at \notin {"APP_INQUIRE", "APP_OP", "APP_WIDTH"}
    BY <1>1 DEF Order, SdOnly
  <2> QED BY <1>1, <1>4, <2>1, CommandKeeps DEF Cards
<1> QED BY <1>2, <1>3, <1>4, InitSteps

(* What is known of the host at hand, when the script goes to another      *)
(* step, to the next host, or gives up on it.                              *)
Progress == Order /\ Supply /\ Script /\ Gates

LEMMA NextProgress == ASSUME IInv, InitMsdc, NextHost PROVE Progress'
<1>1. /\ Types /\ Order /\ cur' = cur + 1 /\ at' = "PRESENT" /\ cur \in Nat
      /\ registered' \subseteq registered \cup {cur}
      /\ powered' \subseteq powered \cup {cur} /\ stage = "init"
      /\ registered \subseteq Nat /\ powered \subseteq Nat
  BY FlowFacts, HostFacts DEF IInv, NextHost, Types
<1>2. Order'
  BY <1>1 DEF Order, PowerSteps, OffSteps, SdOnly, EmmcOnly
<1>3. Supply' /\ Script' /\ Gates'
  BY <1>1
  DEF Supply, Script, Gates, Narrow, Selected, Unclocked, PowerSteps,
      OffSteps
<1> QED BY <1>2, <1>3 DEF Progress

LEMMA OrderGoTo ==
  ASSUME IInv, InitMsdc, NEW s \in Steps, GoTo(s), registered' = registered,
         s \in PowerSteps \cup OffSteps => cur \notin Preserved,
         s \in SdOnly => ~IsEmmc(cur), s \in EmmcOnly => IsEmmc(cur),
         s \in Unclocked \cup {"RESET"} => cur \notin powered'
  PROVE Order'
<1>1. /\ cur' = cur /\ at' = s /\ stage = "init" /\ Order
      /\ powered' \in {powered, powered \cup {cur}}
      /\ cur \in Nat /\ registered \subseteq Nat /\ powered \subseteq Nat
  BY FlowFacts, HostFacts DEF IInv, GoTo, Types
<1>2. \A h \in powered' :
        h <= cur /\ (h = cur => s \notin Unclocked \cup {"RESET"})
  BY <1>1 DEF Order
<1> QED BY <1>1, <1>2 DEF Order

LEMMA UndoProgress ==
  ASSUME IInv, InitMsdc, Undo(cur), registered' = registered
  PROVE Progress'
<1>1. CASE cur \in Preserved
  BY <1>1, NextProgress DEF Undo
<1>2. CASE cur \notin Preserved
  <2>1. PICK s \in {"OFF_VMMC", "OFF_VQMMC"} :
          /\ GoTo(s) /\ (s = "OFF_VMMC" <=> IsEmmc(cur))
    BY <1>2 DEF Undo
  <2>2. Order'
    BY <1>2, <2>1, OrderGoTo
    DEF PowerSteps, OffSteps, SdOnly, EmmcOnly, Unclocked, Steps
  <2>3. cur' = cur /\ cur \in Hosts /\ at' = s
    BY <2>1, FlowFacts DEF GoTo, IInv
  <2>4. Supply'
    <3>1. rail'[cur] \subseteq AllRails(cur) BY <2>3, CardsStep DEF Cards
    <3> QED BY <2>1, <2>3, <3>1 DEF Supply, AllRails, Narrow, Selected
  <2>5. Script' /\ Gates'
    BY <2>3 DEF Script, Gates, Narrow, Selected, PowerSteps, OffSteps
  <2> QED BY <2>2, <2>4, <2>5 DEF Progress
<1> QED BY <1>1, <1>2

LEMMA InitFailedProgress ==
  ASSUME IInv, InitMsdc, InitFailed(cur), registered' = registered,
         cur \notin powered'
  PROVE Progress'
<1>1. CASE cur \in Preserved
  BY <1>1, NextProgress DEF InitFailed
<1>2. CASE cur \notin Preserved
  <2>1. GoTo("OFF_CLOCK") BY <1>2 DEF InitFailed
  <2>2. Order'
    BY <1>2, <2>1, OrderGoTo
    DEF PowerSteps, OffSteps, SdOnly, EmmcOnly, Unclocked, Steps
  <2>3. Supply' /\ Script' /\ Gates'
    BY <2>1
    DEF Supply, Script, Gates, Narrow, Selected, Unclocked, PowerSteps,
        OffSteps, GoTo
  <2> QED BY <2>2, <2>3 DEF Progress
<1> QED BY <1>1, <1>2

(* ClockControl and MsdcSetMclk open the gates they name and close none.   *)
LEMMA OpenedOwn ==
  ASSUME NEW h \in Hosts, NEW clocks \in ClocksOf(h),
         reg' = Switched(clocks, TRUE)
  PROVE ~Gated(clocks)'
<1> SUFFICES ASSUME NEW i \in DOMAIN clocks
    PROVE "gate" \notin reg'[clocks[i]]
  BY DEF Gated
<1> QED BY SwitchedOwn, OwnClock, OwnGateBits, ZenonT(30)

LEMMA StaysOpen ==
  ASSUME NEW h \in Hosts, NEW clocks \in ClocksOf(h), NEW switched,
         reg' = Switched(switched, TRUE), ~Gated(clocks)
  PROVE ~Gated(clocks)'
<1> SUFFICES ASSUME NEW i \in DOMAIN clocks
    PROVE "gate" \notin reg'[clocks[i]]
  BY DEF Gated
<1> QED BY OwnClock, SwitchedOpens DEF Gated

LEMMA QuietProgress == ASSUME IInv, InitMsdc, Quiet PROVE Progress'
<1>1. /\ Types /\ Cards /\ Order /\ Supply /\ Script /\ Gates
      /\ stage = "init" /\ cur \in Hosts
      /\ UNCHANGED <<card, rail>>
  BY FlowFacts, QuietKeeps DEF IInv
<1>2. at \in Unclocked \cup {"RESET"} => cur \notin powered
  BY <1>1, HostFacts DEF Order
<1> USE DEF PowerSteps, OffSteps, SdOnly, EmmcOnly, Unclocked, Steps
<1>3. ASSUME NEW s \in {"ALLOC", "REGION", "GPIO", "CLOCK"}, GoTo(s),
             at \in Unclocked, UNCHANGED <<registered, powered>>
      PROVE Progress'
  <2>1. Order' BY <1>2, <1>3, OrderGoTo
  <2>2. Supply' /\ Script' /\ Gates'
    BY <1>3 DEF Supply, Script, Gates, Narrow, Selected, GoTo
  <2> QED BY <2>1, <2>2 DEF Progress
<1>4. CASE GetCardPresent(cur)
  BY <1>3, <1>4, NextProgress DEF GetCardPresent, power
<1>5. CASE AllocatePrivate(cur)
  <2>1. stage' = "unloaded" => Progress'
    BY DEF Progress, Order, Supply, Script, Gates
  <2> QED BY <1>3, <1>5, <2>1 DEF AllocatePrivate, power
<1>6. CASE LocateRegion(cur)
  BY <1>3, <1>6, NextProgress DEF LocateRegion, power
<1>7. CASE InitGpio(cur)
  BY <1>2, <1>3, <1>7, InitFailedProgress DEF InitGpio, power
<1>8. CASE ClockOn(cur)
  <2>1. at = "CLOCK" /\ GoTo("RESET") /\ reg' = Switched(HostClocks[cur], TRUE)
        /\ UNCHANGED <<registered, powered>>
    BY <1>8 DEF ClockOn, power
  <2>2. Order' BY <1>2, <2>1, OrderGoTo
  <2>3. ~Gated(HostClocks[cur])'
    <3>1. \A clocks \in ClocksOf(cur) :
            reg' = Switched(clocks, TRUE) => ~Gated(clocks)'
      BY <1>1, OpenedOwn
    <3>2. cur' = cur BY <2>1 DEF GoTo
    <3> QED BY <2>1, <3>1, <3>2 DEF ClocksOf, Gated
  <2>4. Supply' /\ Script' /\ Gates'
    BY <2>1, <2>3 DEF Supply, Script, Gates, Narrow, Selected, GoTo
  <2> QED BY <2>2, <2>4 DEF Progress
<1>9. CASE ResetHost(cur)
  <2>1. CASE InitFailed(cur) /\ UNCHANGED powered
    BY <1>2, <1>9, <2>1, InitFailedProgress DEF ResetHost
  <2>2. CASE /\ GoTo(IF cur \in Preserved THEN "MCLK"
                     ELSE IF IsEmmc(cur) THEN "ON_VMMC" ELSE "VOLTAGE")
             /\ width' = [width EXCEPT ![cur] = 1]
             /\ powered' = powered \cup {cur}
    <3>1. Order' BY <1>9, <2>2, OrderGoTo DEF ResetHost
    <3>2. cur' = cur /\ width'[cur] = 1 /\ at = "RESET" /\ reg' = reg
      BY <1>1, <1>9, <2>2 DEF ResetHost, GoTo, Types
    <3>3. cur \in Preserved =>
            rail[cur] = AllRails(cur) \/ card[cur].st = "off"
      BY <1>1 DEF Cards
    <3>4. ~Gated(HostClocks[cur])
      BY <1>1, <3>2 DEF Gates
    <3>5. Supply' /\ Script' /\ Gates'
      BY <1>1, <2>2, <3>2, <3>3, <3>4
      DEF Supply, Script, Gates, Narrow, Selected, GoTo, Gated
    <3> QED BY <3>1, <3>5 DEF Progress
  <2> QED BY <1>9, <2>1, <2>2 DEF ResetHost
<1>10. CASE SetVoltages(cur)
  <2>1. CASE Undo(cur)
    BY <1>10, <2>1, UndoProgress DEF SetVoltages, control
  <2>2. CASE GoTo("ON_VMMC") /\ UNCHANGED fault
    <3>1. Order'
      BY <1>1, <1>10, <2>2, OrderGoTo DEF SetVoltages, Order
    <3>2. Supply' /\ Script' /\ Gates'
      BY <1>1, <1>10, <2>2
      DEF Supply, Script, Gates, Narrow, Selected, GoTo, Gated, SetVoltages,
          control
    <3> QED BY <3>1, <3>2 DEF Progress
  <2> QED BY <1>10, <2>1, <2>2 DEF SetVoltages
<1>11. CASE ClockOff(cur)
  BY <1>11, NextProgress DEF ClockOff
<1>12. CASE SetMclk(cur)
  <2>1. CASE Undo(cur)
    BY <1>12, <2>1, UndoProgress DEF SetMclk
  <2>2. CASE /\ mclk' = [mclk EXCEPT ![cur] = IF at = "MCLK" THEN "400k"
                                              ELSE "fast"]
             /\ GoTo(IF at = "MCLK" THEN "GO_IDLE" ELSE "INSTALL")
    <3>1. Order'
      BY <1>12, <2>2, OrderGoTo DEF SetMclk
    <3>2. /\ cur' = cur /\ reg' = Switched(SourceClocks[cur], TRUE)
          /\ at \in {"MCLK", "MCLK_FAST"} /\ UNCHANGED <<width, fault>>
          /\ at' = (IF at = "MCLK" THEN "GO_IDLE" ELSE "INSTALL")
          /\ at = "MCLK_FAST" => mclk'[cur] = "fast"
      BY <1>1, <1>12, <2>2 DEF SetMclk, GoTo, power, Types
    <3>3. ~Gated(HostClocks[cur])
      BY <1>1, <3>2 DEF Gates
    <3>4. \A clocks \in ClocksOf(cur) : ~Gated(clocks) => ~Gated(clocks)'
      BY <1>1, <3>2, StaysOpen
    <3>5. ~Gated(SourceClocks[cur])'
      <4>1. \A clocks \in ClocksOf(cur) :
              reg' = Switched(clocks, TRUE) => ~Gated(clocks)'
        BY <1>1, OpenedOwn
      <4> QED BY <3>2, <4>1 DEF ClocksOf, Gated
    <3>6. ~Gated(HostClocks[cur])'
      BY <3>2, <3>3, <3>4 DEF ClocksOf, Gated
    <3>7. Gates'
      BY <3>5, <3>6 DEF Gates
    <3>8. Supply' /\ Script'
      BY <1>1, <3>2 DEF Supply, Script, Narrow, Selected
    <3> QED BY <3>1, <3>7, <3>8 DEF Progress
  <2> QED BY <1>12, <2>1, <2>2 DEF SetMclk
<1>13. CASE Install(cur)
  BY <1>13, NextProgress, UndoProgress DEF Install
<1>14. CASE ResetUnheard(cur)
  <2>1. /\ GoTo(IF IsEmmc(cur) THEN "OP_COND" ELSE "IF_COND")
        /\ UNCHANGED <<registered, powered, width, reg, fault>>
        /\ at = "GO_IDLE"
    BY <1>14 DEF ResetUnheard, After, power, control, IsEmmc
  <2>2. Order' BY <2>1, OrderGoTo
  <2>3. Supply' /\ Script' /\ Gates'
    BY <1>1, <2>1 DEF Supply, Script, Gates, Narrow, Selected, GoTo, Gated
  <2> QED BY <2>2, <2>3 DEF Progress
<1> QED
  BY <1>4, <1>5, <1>6, <1>7, <1>8, <1>9, <1>10, <1>11, <1>12, <1>13, <1>14
  DEF Quiet

LEMMA RegulatorProgress == ASSUME IInv, InitMsdc, Regulators PROVE Progress'
<1>1. /\ Types /\ Cards /\ Order /\ Supply /\ Script /\ Gates
      /\ stage = "init" /\ cur \in Hosts
      /\ rail[cur] \subseteq AllRails(cur)
      /\ rail \in [Hosts -> SUBSET {"vmmc", "vqmmc"}]
      /\ UNCHANGED <<width, mclk, reg, registered, powered>>
  BY FlowFacts, RegulatorKeeps DEF IInv, Types, Cards
<1>2. Undo(cur) => Progress'
  BY <1>1, UndoProgress
<1> USE DEF PowerSteps, OffSteps, SdOnly, EmmcOnly, Unclocked, Steps
<1>3. \A on : RegulatorDone(cur, on) => rail'[cur] = on
  BY <1>1 DEF RegulatorDone, Supplied
<1>4. CASE EnableVmmc(cur)
  <2>1. at = "ON_VMMC" BY <1>4 DEF EnableVmmc, Regulator
  <2>2. CASE Undo(cur) BY <1>2, <2>2
  <2>3. CASE /\ GoTo(IF IsEmmc(cur) THEN "MCLK" ELSE "ON_VQMMC")
             /\ RegulatorDone(cur, rail[cur] \cup {"vmmc"})
    <3>1. Order' BY <1>1, <2>1, <2>3, OrderGoTo DEF Order
    <3>2. rail'[cur] = rail[cur] \cup {"vmmc"} BY <1>3, <2>3
    <3>3. Supply'
      BY <1>1, <2>3, <3>2 DEF Supply, GoTo, Narrow, Selected, AllRails
    <3>4. Script' /\ Gates'
      BY <1>1, <2>1, <2>3 DEF Script, Gates, GoTo, Narrow, Selected, Gated
    <3> QED BY <3>1, <3>3, <3>4 DEF Progress
  <2> QED BY <1>4, <2>2, <2>3 DEF EnableVmmc, Regulator
<1>5. CASE EnableVqmmc(cur)
  <2>1. at = "ON_VQMMC" BY <1>5 DEF EnableVqmmc, Regulator
  <2>2. CASE GoTo("MCLK") /\ RegulatorDone(cur, rail[cur] \cup {"vqmmc"})
    <3>1. Order' BY <1>1, <2>1, <2>2, OrderGoTo DEF Order
    <3>2. rail'[cur] = rail[cur] \cup {"vqmmc"} /\ "vmmc" \in rail[cur]
      BY <1>1, <1>3, <2>1, <2>2 DEF Supply
    <3>3. ~IsEmmc(cur) BY <1>1, <2>1 DEF Order
    <3>4. Supply'
      BY <1>1, <2>2, <3>2, <3>3 DEF Supply, GoTo, Narrow, Selected, AllRails
    <3>5. Script' /\ Gates'
      BY <1>1, <2>1, <2>2 DEF Script, Gates, GoTo, Narrow, Selected, Gated
    <3> QED BY <3>1, <3>4, <3>5 DEF Progress
  <2>3. CASE /\ GoTo("ROLLBACK")
             /\ RegulatorFailed(cur, rail[cur] \cup {"vqmmc"})
    <3>1. Order' BY <1>1, <2>1, <2>3, OrderGoTo DEF Order
    <3>2. "vqmmc" \notin rail'[cur] \/ "ioOn" \in fault'
      BY <2>1, <2>3 DEF RegulatorFailed
    <3>3. Supply'
      BY <1>1, <2>3, <3>2 DEF Supply, GoTo, Narrow, Selected
    <3>4. Script' /\ Gates'
      BY <1>1, <2>1, <2>3 DEF Script, Gates, GoTo, Narrow, Selected, Gated
    <3> QED BY <3>1, <3>3, <3>4 DEF Progress
  <2> QED BY <1>5, <2>2, <2>3 DEF EnableVqmmc, Regulator
<1>6. CASE RollbackVmmc(cur)
  BY <1>2, <1>6 DEF RollbackVmmc, Regulator
<1>7. CASE DisableVqmmc(cur)
  <2>1. at = "OFF_VQMMC" BY <1>7 DEF DisableVqmmc, Regulator
  <2>2. CASE GoTo("OFF_VMMC") /\ RegulatorDone(cur, rail[cur] \ {"vqmmc"})
    <3>1. Order' BY <1>1, <2>1, <2>2, OrderGoTo DEF Order
    <3>2. "vqmmc" \notin rail'[cur] BY <1>3, <2>2
    <3>3. Supply' /\ Script' /\ Gates'
      BY <2>2, <3>2 DEF Supply, Script, Gates, GoTo, Narrow, Selected
    <3> QED BY <3>1, <3>3 DEF Progress
  <2>3. CASE /\ GoTo("OFF_CLOCK")
             /\ RegulatorFailed(cur, rail[cur] \ {"vqmmc"})
    <3>1. Order' BY <1>1, <2>1, <2>3, OrderGoTo DEF Order
    <3>2. fault' # {} BY <2>3 DEF RegulatorFailed
    <3>3. Supply' /\ Script' /\ Gates'
      BY <2>3, <3>2 DEF Supply, Script, Gates, GoTo, Narrow, Selected
    <3> QED BY <3>1, <3>3 DEF Progress
  <2> QED BY <1>7, <2>2, <2>3 DEF DisableVqmmc, Regulator
<1>8. CASE DisableVmmc(cur)
  <2>1. at = "OFF_VMMC" BY <1>8 DEF DisableVmmc, Regulator
  <2>2. GoTo("OFF_CLOCK") BY <1>8 DEF DisableVmmc, Regulator
  <2>3. Order' BY <1>1, <2>1, <2>2, OrderGoTo DEF Order
  <2>4. fault' = {} => rail'[cur] = {}
    <3>1. RegulatorDone(cur, rail[cur] \ {"vmmc"}) \/ fault' # {}
      BY <1>8 DEF DisableVmmc, Regulator, RegulatorFailed
    <3>2. "vqmmc" \notin rail[cur] BY <1>1, <2>1 DEF Supply
    <3> QED BY <1>1, <1>3, <3>1, <3>2
  <2>5. Supply' /\ Script' /\ Gates'
    BY <2>2, <2>4 DEF Supply, Script, Gates, GoTo, Narrow, Selected
  <2> QED BY <2>3, <2>5 DEF Progress
<1> QED BY <1>4, <1>5, <1>6, <1>7, <1>8 DEF Regulators

(* The widths a host and its card may end up with.                         *)
LEMMA AnsweredProgress ==
  ASSUME IInv, InitMsdc, CommandAnswered(cur) PROVE Progress'
<1>1. /\ Types /\ Cards /\ Order /\ Supply /\ Script /\ Gates
      /\ stage = "init" /\ cur \in Hosts /\ at \in CardCommands
      /\ card[cur] \in AnyCard /\ width[cur] \in Widths
      /\ FullWidth[cur] \in Widths
      /\ UNCHANGED <<rail, fault, mclk, reg, registered, powered>>
      /\ (card'[cur].st = "off" <=> card[cur].st = "off")
  BY FlowFacts, CommandKeeps, HostFacts DEF IInv, Types, Commands
<1>2. PICK r \in Reactions(cur, at, card[cur]) :
        /\ card' = [card EXCEPT ![cur] = r.card]
        /\ width' = [width EXCEPT ![cur] = WidthAnswered(cur, r.bit)]
        /\ Proceed(cur, r.bit)
  BY DEF CommandAnswered
<1>3. /\ card'[cur] = r.card /\ width'[cur] = WidthAnswered(cur, r.bit)
  BY <1>1, <1>2 DEF Types
<1>4. r.card \in AnyCard /\ r.card.width \in Widths /\ r.bit \in BOOLEAN
      /\ (r.card.app => at \in {"APP_INQUIRE", "APP_OP", "APP_WIDTH"}
                          \/ card[cur].app)
  BY <1>1, Reacted DEF AnyCard
<1> USE DEF PowerSteps, OffSteps, SdOnly, EmmcOnly, Unclocked, Steps
<1>5. ASSUME NEW s \in Steps, GoTo(s), Order', Script', s # "INSTALL",
             s \in Narrow \cup Selected
      PROVE Progress'
  <2>1. cur' = cur /\ at' = s BY <1>5 DEF GoTo
  <2>2. at \in Narrow \cup Selected /\ ~Gated(HostClocks[cur])
    BY <1>1 DEF CardCommands, Narrow, Selected, Gates
  <2>3. Supply' /\ Gates'
    BY <1>1, <1>5, <2>1, <2>2
    DEF Supply, Gates, Gated, Narrow, Selected
  <2> QED BY <1>5, <2>3 DEF Progress
<1>6. CASE at \notin Selected \cup {"SELECT"}
  <2>1. \/ Undo(cur)
        \/ \E s \in Narrow \ (Selected \cup {"MCLK", "GO_IDLE"}) :
             /\ GoTo(s) /\ (s \in SdOnly => ~IsEmmc(cur))
    BY <1>1, <1>2, <1>6
    DEF Proceed, After, Narrow, Selected, CardCommands, Order, IsEmmc
  <2>2. ASSUME NEW s \in Narrow \ (Selected \cup {"MCLK", "GO_IDLE"}),
               GoTo(s), s \in SdOnly => ~IsEmmc(cur)
        PROVE Progress'
    <3>1. Order' BY <1>1, <2>2, OrderGoTo DEF Narrow, Selected
    <3>2. width'[cur] = 1
      BY <1>1, <1>3, <1>6
      DEF WidthAnswered, CardCommands, Script, Narrow, Selected
    <3>3. Script' BY <2>2, <3>2 DEF Script, GoTo, Narrow, Selected
    <3> QED BY <1>5, <2>2, <3>1, <3>3 DEF Narrow, Selected
  <2> QED BY <1>1, <2>1, <2>2, UndoProgress
<1>7. CASE at \in Selected \cup {"SELECT"}
  <2>1. /\ r.card.st = "tran" /\ r.card.width \in {card[cur].width, FullWidth[cur]}
        /\ at = "SET_WIDTH" => r.card.width = FullWidth[cur] /\ ~r.card.app
        /\ at \notin {"SET_WIDTH", "SWITCH_WIDTH"} =>
             r.card.width = card[cur].width
        /\ at = "SWITCH_WIDTH" => r.card.err \/ r.card.width = FullWidth[cur]
        /\ at \in {"SELECT", "SWITCH_FUNC"} => ~r.card.app
        /\ at = "CHECK_WIDTH" => r.bit = card[cur].err
    BY <1>1, <1>7, ReactedSelected
  <2>2. \/ Undo(cur) \/ GoTo(After(at, cur))
    BY <1>1, <1>2, <1>7 DEF Proceed, Selected
  <2>3. ASSUME NEW s, GoTo(s),
               s \in Selected \ {"MCLK_FAST", "INSTALL"} \/ s = "MCLK_FAST",
               s \in SdOnly => ~IsEmmc(cur), s \in EmmcOnly => IsEmmc(cur),
               width'[cur] <= r.card.width,
               s \in {"SET_WIDTH", "SWITCH_FUNC"} \/ ~r.card.app,
               s \in Narrow => width'[cur] = 1,
               s = "CHECK_WIDTH" => r.card.err \/ r.card.width = FullWidth[cur]
        PROVE Progress'
    <3>1. Order' BY <1>1, <2>3, OrderGoTo DEF Narrow, Selected
    <3>2. Script'
      BY <1>3, <2>1, <2>3 DEF Script, GoTo, Narrow, Selected
    <3> QED BY <1>5, <2>3, <3>1, <3>2 DEF Selected
  <2>4. /\ IsEmmc(cur) => ~r.card.app
        /\ at \in SdOnly => ~IsEmmc(cur)
        /\ at \in EmmcOnly => IsEmmc(cur)
        /\ at \in Narrow => width[cur] = 1
        /\ at \in Selected => width[cur] <= card[cur].width
        /\ at \in Selected \ {"SET_WIDTH", "SWITCH_FUNC"} => ~card[cur].app
        /\ 1 <= r.card.width
    BY <1>1, <1>4 DEF Cards, Order, Script, Widths
  <2>5. CASE Undo(cur) BY <1>1, <2>5, UndoProgress
  <2>6. CASE GoTo(After(at, cur)) /\ at = "SELECT"
    <3>1. width'[cur] = 1 /\ ~r.card.app
      BY <1>3, <2>1, <2>4, <2>6 DEF WidthAnswered, Narrow
    <3>2. After(at, cur) \in
            IF IsEmmc(cur) THEN {"HS_TIMING", "SWITCH_WIDTH"}
            ELSE {"SWITCH_FUNC", "APP_WIDTH"}
      BY <2>6 DEF After, IsEmmc
    <3> QED BY <2>3, <2>4, <2>6, <3>1, <3>2 DEF Selected
  <2>7. CASE GoTo(After(at, cur)) /\ at = "APP_WIDTH"
    <3>1. width'[cur] = 1
      BY <1>3, <2>4, <2>7 DEF WidthAnswered, Narrow
    <3>2. After(at, cur) = "SET_WIDTH" BY <2>7 DEF After, IsEmmc
    <3> QED BY <2>3, <2>4, <2>7, <3>1, <3>2 DEF Selected
  <2>8. CASE GoTo(After(at, cur)) /\ at = "SET_WIDTH"
    <3>1. width'[cur] = r.card.width
      BY <1>3, <2>1, <2>8 DEF WidthAnswered
    <3>2. After(at, cur) = "SWITCH_FUNC" BY <2>8 DEF After, IsEmmc
    <3> QED BY <1>4, <2>3, <2>4, <2>8, <3>1, <3>2 DEF Selected, Narrow, Widths
  <2>9. CASE GoTo(After(at, cur)) /\ at = "SWITCH_WIDTH"
    <3>1. width'[cur] = 1
      BY <1>3, <2>4, <2>9 DEF WidthAnswered, Narrow
    <3>2. After(at, cur) = "CHECK_WIDTH" BY <2>9 DEF After, IsEmmc
    <3> QED BY <2>1, <2>3, <2>4, <2>9, <3>1, <3>2 DEF Selected
  <2>10. CASE GoTo(After(at, cur)) /\ at = "CHECK_WIDTH"
    <3>1. width'[cur] <= r.card.width
      BY <1>1, <1>3, <1>4, <2>1, <2>4, <2>10
      DEF WidthAnswered, Script, Widths, AnyCard
    <3>2. After(at, cur) = "HS_TIMING" BY <2>10 DEF After, IsEmmc
    <3> QED BY <2>3, <2>4, <2>10, <3>1, <3>2 DEF Selected, Narrow
  <2>11. CASE GoTo(After(at, cur)) /\ at \in {"SWITCH_FUNC", "HS_TIMING"}
    <3>1. width'[cur] <= r.card.width
      BY <1>3, <2>1, <2>4, <2>11 DEF WidthAnswered, Selected
    <3>2. After(at, cur) = "SEND_STATUS" BY <2>11 DEF After, IsEmmc
    <3> QED BY <2>1, <2>3, <2>4, <2>11, <3>1, <3>2 DEF Selected, Narrow
  <2>12. CASE GoTo(After(at, cur)) /\ at = "SEND_STATUS"
    <3>1. width'[cur] <= r.card.width
      BY <1>3, <2>1, <2>4, <2>12 DEF WidthAnswered, Selected
    <3>2. After(at, cur) = "MCLK_FAST" BY <2>12 DEF After, IsEmmc
    <3>3. ~r.card.app BY <1>4, <2>4, <2>12 DEF Selected
    <3> QED BY <2>3, <2>12, <3>1, <3>2, <3>3 DEF Selected, Narrow
  <2> QED
    BY <1>1, <1>7, <2>2, <2>5, <2>6, <2>7, <2>8, <2>9, <2>10, <2>11, <2>12
    DEF Selected, CardCommands
<1> QED BY <1>6, <1>7

LEMMA FailedProgress ==
  ASSUME IInv, InitMsdc, AnswerLost(cur) \/ CommandLost(cur) PROVE Progress'
<1>1. /\ Types /\ Cards /\ Order /\ Supply /\ Script /\ Gates
      /\ stage = "init" /\ cur \in Hosts /\ at \in CardCommands
      /\ card \in [Hosts -> AnyCard] /\ card[cur] \in AnyCard
      /\ width \in [Hosts -> Widths]
      /\ UNCHANGED <<rail, fault, mclk, reg, registered, powered>>
      /\ (card'[cur].st = "off" <=> card[cur].st = "off")
  BY FlowFacts, CommandKeeps DEF IInv, Types, Commands
<1>2. Fail(cur)
  BY DEF AnswerLost, CommandLost
<1> USE DEF PowerSteps, OffSteps, SdOnly, EmmcOnly, Unclocked, Steps
<1>3. CASE Undo(cur) BY <1>1, <1>3, UndoProgress
<1>4. CASE /\ at \in {"APP_WIDTH", "SET_WIDTH", "SWITCH_WIDTH"}
           /\ GoTo(IF IsEmmc(cur) THEN "HS_TIMING" ELSE "SWITCH_FUNC")
           /\ width' = [width EXCEPT ![cur] = 1]
  <2>1. Order' BY <1>1, <1>4, OrderGoTo
  <2>2. width'[cur] = 1 /\ cur' = cur /\ card[cur].st = "tran"
    BY <1>1, <1>4 DEF GoTo, Script, Selected
  <2>3. card'[cur].st = "tran" /\ card'[cur].width \in Widths
    <3>1. card' \in [Hosts -> AnyCard]
      BY <1>1, CommandKeeps DEF Commands
    <3>2. CASE AnswerLost(cur)
      <4>1. PICK r \in Reactions(cur, at, card[cur]) :
              card' = [card EXCEPT ![cur] = r.card]
        BY <3>2 DEF AnswerLost
      <4>2. r.card.st = "tran"
        BY <1>1, <1>4, ReactedSelected DEF Selected
      <4> QED BY <1>1, <3>1, <4>1, <4>2 DEF AnyCard
    <3>3. CASE CommandLost(cur)
      <4>1. card' = card \/ card' = [card EXCEPT ![cur].app = FALSE]
        BY <3>3 DEF CommandLost
      <4>2. [card[cur] EXCEPT !.app = FALSE].st = card[cur].st
        BY <1>1 DEF AnyCard
      <4> QED BY <1>1, <2>2, <3>1, <4>1, <4>2 DEF AnyCard
    <3> QED BY <3>2, <3>3
  <2>4. IsEmmc(cur) => ~card'[cur].app
    BY <1>1, CardsStep DEF Cards
  <2>5. Script'
    BY <1>4, <2>2, <2>3, <2>4 DEF Script, GoTo, Narrow, Selected, Widths
  <2>6. at \in Narrow \cup Selected /\ ~Gated(HostClocks[cur])
    BY <1>1, <1>4 DEF Narrow, Selected, Gates
  <2>7. Supply' /\ Gates'
    BY <1>1, <1>4, <2>2, <2>6 DEF Supply, Gates, Gated, Narrow, Selected, GoTo
  <2> QED BY <2>1, <2>5, <2>7 DEF Progress
<1> QED BY <1>2, <1>3, <1>4 DEF Fail

LEMMA ProgressStep == ASSUME IInv, InitMsdc PROVE Progress'
BY InitSteps, QuietProgress, RegulatorProgress, AnsweredProgress,
   FailedProgress DEF Commands

-----------------------------------------------------------------------------
(* A step of InitMsdc leaves the other hosts alone: their cards, supplies, *)
(* widths and rates, and the gates of their own clocks.                    *)
Kept(h) ==
  /\ card'[h] = card[h] /\ width'[h] = width[h] /\ mclk'[h] = mclk[h]
  /\ rail'[h] = rail[h]
  /\ \A c \in OwnClocks(h) : reg'[c] = reg[c]

RegKept(h) == \A c \in OwnClocks(h) : reg'[c] = reg[c]

LEMMA OthersGatesKept ==
  ASSUME NEW h \in Hosts, NEW k \in Hosts, h # k,
         NEW clocks \in ClocksOf(h), NEW enable, reg' = Switched(clocks, enable)
  PROVE RegKept(k)
BY SwitchedOther DEF RegKept

LEMMA OthersKept ==
  ASSUME IInv, InitMsdc, NEW h \in Hosts, h # cur PROVE Kept(h)
<1>1. /\ Types /\ Cards /\ cur \in Hosts
      /\ card \in [Hosts -> AnyCard] /\ width \in [Hosts -> Widths]
      /\ mclk \in [Hosts -> {"boot", "400k", "fast", "stopped"}]
  BY FlowFacts DEF IInv, Types
<1>2. \A clocks \in ClocksOf(cur), enable \in BOOLEAN :
        reg' = Switched(clocks, enable) => RegKept(h)
  BY <1>1, OthersGatesKept
<1>3. CASE Quiet
  <2>1. reg' = reg \/ \E clocks \in ClocksOf(cur), enable \in BOOLEAN :
                        reg' = Switched(clocks, enable)
    BY <1>3
    DEF Quiet, GetCardPresent, AllocatePrivate, LocateRegion, InitGpio,
        ClockOn, ResetHost, SetVoltages, ClockOff, SetMclk, Install,
        ResetUnheard, control, ClocksOf
  <2>2. width'[h] = width[h] /\ mclk'[h] = mclk[h]
    BY <1>1, <1>3
    DEF Quiet, GetCardPresent, AllocatePrivate, LocateRegion, InitGpio,
        ClockOn, ResetHost, SetVoltages, ClockOff, SetMclk, Install,
        ResetUnheard, control
  <2> QED BY <1>2, <1>3, <2>1, <2>2, QuietKeeps DEF Kept, RegKept
<1>4. CASE Regulators
  <2>1. rail[cur] \subseteq {"vmmc", "vqmmc"} BY <1>1 DEF Types
  <2> QED BY <1>1, <1>4, <2>1, RegulatorKeeps, SuppliedFacts DEF Kept
<1>5. CASE Commands
  BY <1>1, <1>5, CommandKeeps DEF Kept
<1> QED BY <1>3, <1>4, <1>5, InitSteps

LEMMA KeptReady ==
  ASSUME NEW h \in Hosts, Kept(h), HostReady(h) PROVE HostReady(h)'
BY DEF Kept, HostReady

LEMMA NewlyInstalled ==
  ASSUME IInv, InitMsdc, registered' # registered PROVE Install(cur)
<1>1. Types /\ cur \in Hosts BY FlowFacts DEF IInv
<1>2. Quiet \/ Regulators \/ Commands BY InitSteps
<1> QED
  BY <1>1, <1>2, RegulatorKeeps, CommandKeeps
  DEF Quiet, GetCardPresent, AllocatePrivate, LocateRegion, InitGpio, ClockOn,
      ResetHost, SetVoltages, ClockOff, SetMclk, Install, ResetUnheard

LEMMA ReadyStep == ASSUME IInv, InitMsdc PROVE Ready'
<1>1. /\ Types /\ Cards /\ Order /\ Supply /\ Script /\ Gates /\ Ready
      /\ stage = "init" /\ cur \in Hosts
      /\ \A h \in registered : h \in Hosts /\ h # cur
  BY FlowFacts, HostFacts DEF IInv, Types, Order
<1>2. \A h \in registered : HostReady(h)'
  BY <1>1, OthersKept, KeptReady DEF Ready, InUse
<1>3. CASE registered' = registered
  BY <1>2, <1>3 DEF Ready
<1>4. CASE registered' # registered
  <2>1. Install(cur) BY <1>4, NewlyInstalled
  <2>2. /\ at = "INSTALL" /\ registered' = registered \cup {cur}
        /\ UNCHANGED <<card, rail, width, mclk, reg>>
    BY <1>4, <2>1 DEF Install, cards, power, control
  <2>3. HostReady(cur)
    <3>1. /\ card[cur].st = "tran" /\ ~card[cur].app /\ mclk[cur] = "fast"
          /\ width[cur] <= card[cur].width
          /\ rail[cur] = AllRails(cur)
      BY <1>1, <2>2 DEF Script, Supply, Narrow, Selected
    <3>2. ~Gated(HostClocks[cur]) /\ ~Gated(SourceClocks[cur])
      BY <1>1, <2>2 DEF Gates, Unclocked, OffSteps
    <3> QED BY <3>1, <3>2 DEF HostReady, Gated, OwnClocks, Range
  <2>4. \A h \in registered' : HostReady(h)'
    <3>1. \A h \in {cur} : HostReady(h)'
      <4>1. \A h : HostReady(h) => HostReady(h)'
        BY <2>2 DEF HostReady
      <4> QED BY <2>3, <4>1
    <3> QED BY <1>2, <2>2, <3>1
  <2> QED BY <2>4 DEF Ready
<1> QED BY <1>3, <1>4

(* A host that was given up on stays as it was left.                       *)
Off(h) == rail[h] = {} /\ \A i \in DOMAIN HostClocks[h] :
                            "gate" \in reg[HostClocks[h][i]]

LEMMA KeptOff ==
  ASSUME NEW h \in Hosts, Kept(h), Off(h) PROVE Off(h)'
BY DEF Kept, Off, OwnClocks, Range

(* How a host outside the preserve mask is left behind. *)
LEMMA LeftBy ==
  ASSUME IInv, InitMsdc, cur' # cur, cur \notin Preserved
  PROVE \/ at \in Unclocked /\ powered' = powered
        \/ ClockOff(cur)
        \/ cur \in registered'
<1>1. cur \in Hosts BY FlowFacts DEF IInv
<1>2. ~Undo(cur) /\ ~InitFailed(cur) /\ \A s : ~GoTo(s)
  BY DEF Undo, InitFailed, GoTo
<1>3. CASE Quiet
  BY <1>2, <1>3
  DEF Quiet, GetCardPresent, AllocatePrivate, LocateRegion, InitGpio, ClockOn,
      ResetHost, SetVoltages, SetMclk, Install, ResetUnheard, Unclocked, power
<1>4. ~Regulators
  BY <1>2
  DEF Regulators, EnableVmmc, EnableVqmmc, RollbackVmmc, DisableVqmmc,
      DisableVmmc, Regulator
<1>5. ~Commands
  BY <1>2
  DEF Commands, CommandAnswered, AnswerLost, CommandLost, Fail, Proceed
<1> QED BY <1>3, <1>4, <1>5, InitSteps

LEMMA FaultsAddUp == ASSUME InitMsdc, Types PROVE fault \subseteq fault'
<1>1. CASE Quiet
  BY <1>1
  DEF Quiet, GetCardPresent, AllocatePrivate, LocateRegion, InitGpio, ClockOn,
      ResetHost, SetVoltages, ClockOff, SetMclk, Install, ResetUnheard, power
<1>2. CASE Regulators
  BY <1>2
  DEF Regulators, EnableVmmc, EnableVqmmc, RollbackVmmc, DisableVqmmc,
      DisableVmmc, Regulator, RegulatorDone, RegulatorFailed
<1>3. CASE Commands
  BY <1>3, FlowFacts, CommandKeeps
<1> QED BY <1>1, <1>2, <1>3, InitSteps

LEMMA RailsStep == ASSUME IInv, InitMsdc PROVE RailsSafe'
<1>1. /\ Types /\ Cards /\ Order /\ Supply /\ Script /\ RailsSafe
      /\ stage = "init" /\ cur \in Hosts
      /\ rail \in [Hosts -> SUBSET {"vmmc", "vqmmc"}]
  <2>1. Types BY DEF IInv
  <2> QED BY <2>1, FlowFacts DEF IInv, Types
<1>2. fault \subseteq fault'
  BY <1>1, FaultsAddUp
<1>3. ASSUME "ioOn" \notin fault', NEW h \in Hosts, "vqmmc" \in rail'[h]
      PROVE "vmmc" \in rail'[h]
  <2>1. "ioOn" \notin fault BY <1>2, <1>3
  <2>2. CASE rail'[h] = rail[h]
    BY <1>1, <1>3, <2>1, <2>2 DEF RailsSafe
  <2>3. CASE rail'[h] # rail[h]
    <3>1. h = cur BY <2>3, OthersKept DEF Kept
    <3>2. Regulators
      BY <1>1, <2>3, InitSteps, QuietKeeps, CommandKeeps
    <3>3. \A on : Supplied(cur, on) => rail'[cur] = on
      BY <1>1 DEF Supplied
    <3>4. /\ at = "ON_VQMMC" => "vmmc" \in rail[cur]
          /\ at = "ROLLBACK" => "vqmmc" \notin rail[cur]
          /\ at = "OFF_VMMC" => "vqmmc" \notin rail[cur]
      BY <1>1, <2>1 DEF Supply
    <3>5. "vqmmc" \in rail[cur] => "vmmc" \in rail[cur]
      BY <1>1, <2>1 DEF RailsSafe
    <3> QED BY <1>3, <2>3, <3>1, <3>2, <3>3, <3>4, <3>5, RegulatorKeeps
  <2> QED BY <2>2, <2>3
<1>4. ASSUME NEW h \in powered' \ (registered' \cup Preserved),
             Processed(h)', fault' = {}
      PROVE Off(h)'
  <2>1. h \in Hosts /\ fault = {}
    BY <1>1, <1>2, <1>4, TypesStep DEF Types
  <2>2. CASE h # cur
    <3>1. h \in powered /\ h \notin registered
      BY <1>1, <1>4, <2>2, FlowFacts
    <3>2. h < cur
      BY <1>1, <2>1, <2>2, <3>1, HostFacts DEF Order
    <3>3. Off(h)
      BY <1>1, <1>4, <2>1, <3>1, <3>2
      DEF RailsSafe, Processed, Off, AllGated
    <3>4. Kept(h) BY <2>1, <2>2, OthersKept
    <3> QED BY <2>1, <3>3, <3>4, KeptOff
  <2>3. CASE h = cur
    <3>1. cur' # cur
      <4>1. stage' \in {"init", "unloaded"} => h < cur'
        BY <1>4 DEF Processed
      <4> QED BY <1>1, <2>3, <4>1, FlowFacts, HostFacts
    <3>2. ClockOff(cur)
      <4>1. at \in Unclocked => cur \notin powered
        BY <1>1, HostFacts DEF Order
      <4> QED BY <1>4, <2>3, <3>1, <4>1, LeftBy
    <3>3. /\ at = "OFF_CLOCK" /\ UNCHANGED <<rail, powered>>
          /\ reg' = Switched(HostClocks[cur], FALSE)
      BY <3>2 DEF ClockOff, power
    <3>4. rail[cur] = {}
      BY <1>1, <1>4, <2>1, <2>3, <3>3 DEF Supply
    <3>5. \A i \in DOMAIN HostClocks[cur] :
            "gate" \in Switched(HostClocks[cur], FALSE)[HostClocks[cur][i]]
      <4>1. HostClocks[cur] \in ClocksOf(cur) BY DEF ClocksOf
      <4> SUFFICES ASSUME NEW i \in DOMAIN HostClocks[cur]
          PROVE "gate" \in Switched(HostClocks[cur], FALSE)[HostClocks[cur][i]]
        OBVIOUS
      <4>2. Switched(HostClocks[cur], FALSE)[HostClocks[cur][i]]
              = BitsAfter(HostClocks[cur][i], FALSE)
        BY <1>1, <4>1, SwitchedOwn
      <4>3. HostClocks[cur][i] \in OwnClocks(cur)
        BY <1>1, <4>1, OwnClock
      <4> QED BY <1>1, <4>2, <4>3, OwnGateBits
    <3> QED BY <2>3, <3>3, <3>4, <3>5 DEF Off
  <2> QED BY <2>2, <2>3
<1> QED BY <1>3, <1>4 DEF RailsSafe, Off, AllGated

LEMMA BringUpStep == ASSUME IInv, InitMsdc PROVE IInv'
<1>1. Handoff'
  BY FlowFacts DEF Handoff, IInv
<1> QED
  BY <1>1, TypesStep, CardsStep, ProgressStep, ReadyStep, RailsStep
  DEF IInv, Progress
-----------------------------------------------------------------------------
(* The steps of the callback.                                              *)

LEMMA SignalStep == ASSUME IInv, SignalExitBootServices PROVE IInv'
<1>1. /\ stage = "ready" /\ stage' = "handoff" /\ cur' = 0 /\ at' = "CMD0"
      /\ UNCHANGED <<card, deaf, width, mclk, reg, rail, fault, powered,
                     registered>>
  BY DEF SignalExitBootServices, cards, power, control
<1>2. Types' BY <1>1, HostFacts DEF IInv, Types
<1>3. Cards' BY <1>1 DEF IInv, Cards
<1>4. Order' /\ Supply' /\ Script' /\ Gates' /\ Ready'
  BY <1>1 DEF Order, Supply, Script, Gates, Ready, InUse
<1>5. RailsSafe'
  BY <1>1 DEF IInv, RailsSafe, Processed, AllGated
<1>6. Handoff'
  BY <1>1, HostFacts DEF IInv, Types, Handoff
<1> QED BY <1>2, <1>3, <1>4, <1>5, <1>6 DEF IInv

(* In the handoff no host is powered up or down any more. *)
LEMMA HandoffFrame ==
  ASSUME IInv, stage = "handoff", stage' \in {"handoff", "over"}
  PROVE Order' /\ Supply' /\ Script' /\ Gates' /\ Ready'
BY DEF Order, Supply, Script, Gates, Ready, InUse

LEMMA NextHandoffTypes ==
  ASSUME IInv, NextHandoff, stage = "handoff"
  PROVE /\ stage' \in {"handoff", "over"} /\ at' = "CMD0" /\ cur' = cur + 1
        /\ stage' = "handoff" => cur' \in Hosts
        /\ \A h \in Hosts : stage' = "over" \/ h < cur' => h <= cur
<1>1. cur \in Hosts BY DEF IInv, Types
<1>2. /\ at' = "CMD0" /\ cur' = cur + 1
      /\ stage' = IF cur' = NumberOfHosts THEN "over" ELSE "handoff"
  BY DEF NextHandoff
<1> QED BY <1>1, <1>2, HostFacts

LEMMA SkipStep == ASSUME IInv, SkipHandoff PROVE IInv'
<1>1. /\ stage = "handoff" /\ at = "CMD0" /\ cur \notin registered
      /\ NextHandoff
      /\ UNCHANGED <<card, deaf, width, mclk, reg, rail, fault, powered,
                     registered>>
  BY DEF SkipHandoff, cards, power, control
<1>2. /\ stage' \in {"handoff", "over"} /\ at' = "CMD0"
      /\ stage' = "handoff" => cur' \in Hosts
      /\ \A h \in Hosts : stage' = "over" \/ h < cur' => h <= cur
  BY <1>1, NextHandoffTypes
<1>3. Types' BY <1>1, <1>2 DEF IInv, Types
<1>4. Cards' BY <1>1 DEF IInv, Cards
<1>5. RailsSafe'
  BY <1>1, <1>2 DEF IInv, RailsSafe, Processed, AllGated
<1>6. Handoff'
  <2>1. ASSUME NEW h \in registered \ deaf, h <= cur PROVE Handed(h)
    <3>1. h \in Nat /\ cur \in Nat /\ h # cur
      BY <1>1, <2>1, HostFacts DEF IInv, Types
    <3>2. h < cur BY <2>1, <3>1
    <3> QED BY <1>1, <2>1, <3>2 DEF IInv, Handoff
  <2>2. \A h \in registered \ deaf :
          stage' = "over" \/ h < cur' => Handed(h)
    BY <1>2, <2>1 DEF IInv, Types
  <2> QED BY <1>1, <1>2, <2>2 DEF Handoff, Handed
<1> QED BY <1>1, <1>2, <1>3, <1>4, <1>5, <1>6, HandoffFrame DEF IInv

LEMMA ResetStep == ASSUME IInv, HandoffReset PROVE IInv'
<1>1. /\ stage = "handoff" /\ at = "CMD0" /\ cur \in registered
      /\ stage' = stage /\ cur' = cur /\ at' = "NARROW"
      /\ UNCHANGED <<width, mclk, reg, rail, fault, powered, registered>>
  BY DEF HandoffReset, GoTo, power, control
<1>2. /\ Types /\ Cards /\ RailsSafe /\ Handoff
      /\ cur \in Hosts /\ card \in [Hosts -> AnyCard] /\ card[cur] \in AnyCard
  BY <1>1 DEF IInv, Types
<1>3. \/ /\ card' = [card EXCEPT ![cur] = Card("idle", 1)]
         /\ deaf' = deaf \ {cur} /\ card[cur].st # "off"
      \/ card' = card /\ deaf' = deaf \cup {cur}
  <2>1. ASSUME NEW r \in Reactions(cur, "CMD0", card[cur])
        PROVE r.card = Card("idle", 1) /\ card[cur].st # "off"
    BY DEF Reactions, Answer, IsEmmc
  <2>2. CASE /\ \E r \in Reactions(cur, "CMD0", card[cur]) :
                  card' = [card EXCEPT ![cur] = r.card]
             /\ deaf' = deaf \ {cur}
    BY <2>1, <2>2
  <2> QED BY <2>2 DEF HandoffReset
<1>4. /\ Card("idle", 1) \in AnyCard /\ Card("idle", 1).st = "idle"
      /\ ~Card("idle", 1).app
  BY CardFields DEF CardStates, Widths
<1>5. /\ card' \in [Hosts -> AnyCard]
      /\ \A h \in Hosts : h # cur => card'[h] = card[h]
      /\ \/ card'[cur] = card[cur]
         \/ card'[cur] = Card("idle", 1) /\ card[cur].st # "off"
      /\ cur \in deaf' \/ card'[cur] = Card("idle", 1)
      /\ \A h \in Hosts : h # cur => (h \in deaf' <=> h \in deaf)
  <2>1. CASE /\ card' = [card EXCEPT ![cur] = Card("idle", 1)]
             /\ deaf' = deaf \ {cur} /\ card[cur].st # "off"
    <3> DEFINE c == Card("idle", 1)
    <3>1. c \in AnyCard BY <1>4
    <3> HIDE DEF c
    <3>2. card' = [card EXCEPT ![cur] = c] BY <2>1 DEF c
    <3>3. card' \in [Hosts -> AnyCard] /\ card'[cur] = c
          /\ \A h \in Hosts : h # cur => card'[h] = card[h]
      BY <1>2, <3>1, <3>2
    <3> QED BY <2>1, <3>3 DEF c
  <2>2. CASE card' = card /\ deaf' = deaf \cup {cur}
    <3>1. card' \in [Hosts -> AnyCard] BY <1>2, <2>2, Zenon
    <3>2. cur \in deaf' /\ \A h : h # cur => (h \in deaf' <=> h \in deaf)
      BY <2>2
    <3>3. \A h : card'[h] = card[h] BY <2>2
    <3> QED BY <3>1, <3>2, <3>3
  <2> QED BY <1>3, <2>1, <2>2
<1>6. Types' BY <1>1, <1>2, <1>5 DEF Types
<1>7. Cards' BY <1>1, <1>2, <1>4, <1>5 DEF Cards
<1>8. RailsSafe'
  BY <1>1, <1>2 DEF RailsSafe, Processed, AllGated
<1>9. Handoff'
  <2>1. \A h \in registered \ deaf' : h < cur => Handed(h)'
    <3>1. \A h \in Hosts : h < cur => h # cur
      BY <1>2, HostFacts
    <3> QED BY <1>1, <1>2, <1>5, <3>1 DEF Handoff, Handed, Types
  <2> QED BY <1>1, <1>5, <2>1 DEF Handoff
<1> QED BY <1>1, <1>6, <1>7, <1>8, <1>9, HandoffFrame DEF IInv

LEMMA NarrowStep == ASSUME IInv, HandoffNarrow PROVE IInv'
<1>1. /\ stage = "handoff" /\ at = "NARROW" /\ NextHandoff
      /\ width' = [width EXCEPT ![cur] = 1]
      /\ \E rate \in {"400k", "stopped"} : mclk' = [mclk EXCEPT ![cur] = rate]
      /\ reg' = Switched(SourceClocks[cur], TRUE)
      /\ UNCHANGED <<card, deaf, rail, fault, powered, registered>>
  BY DEF HandoffNarrow, HandoffWidth, cards, power
<1>2. /\ stage' \in {"handoff", "over"} /\ at' = "CMD0"
      /\ stage' = "handoff" => cur' \in Hosts
      /\ \A h \in Hosts : stage' = "over" \/ h < cur' => h <= cur
  BY <1>1, NextHandoffTypes
<1>3. /\ Types /\ Cards /\ RailsSafe /\ Handoff /\ cur \in Hosts
      /\ cur \in registered /\ (cur \in deaf \/ card[cur] = Card("idle", 1))
      /\ width \in [Hosts -> Widths] /\ 1 \in Widths
      /\ mclk \in [Hosts -> {"boot", "400k", "fast", "stopped"}]
      /\ registered \subseteq Hosts /\ powered \subseteq Hosts
  BY <1>1 DEF IInv, Types, Handoff, Widths
<1>4. /\ width' \in [Hosts -> Widths] /\ width'[cur] = 1
      /\ mclk' \in [Hosts -> {"boot", "400k", "fast", "stopped"}]
      /\ mclk'[cur] \in {"400k", "stopped"}
      /\ \A h \in Hosts : h # cur => width'[h] = width[h] /\ mclk'[h] = mclk[h]
  BY <1>1, <1>3
<1>5. Types' BY <1>1, <1>2, <1>3, <1>4 DEF Types
<1>6. Cards' BY <1>1, <1>3 DEF Cards
<1>7. RailsSafe'
  <2>1. \A h \in Hosts : h # cur => RegKept(h)
    <3>1. \A h \in Hosts, clocks \in ClocksOf(cur), enable \in BOOLEAN :
            h # cur /\ reg' = Switched(clocks, enable) => RegKept(h)
      BY <1>3, OthersGatesKept
    <3> QED BY <1>1, <3>1 DEF ClocksOf
  <2>2. ASSUME NEW h \in powered \ (registered \cup Preserved), fault = {}
        PROVE Off(h)'
    <3>1. h # cur /\ h \in Hosts BY <1>3
    <3>2. Off(h)
      BY <1>1, <1>3, <2>2 DEF RailsSafe, Processed, Off, AllGated
    <3>3. RegKept(h) /\ rail'[h] = rail[h] BY <1>1, <2>1, <3>1
    <3> QED BY <3>2, <3>3 DEF Off, RegKept, OwnClocks, Range
  <2>3. "ioOn" \notin fault =>
          \A h \in Hosts : "vqmmc" \in rail[h] => "vmmc" \in rail[h]
    BY <1>3 DEF RailsSafe
  <2> QED BY <1>1, <2>2, <2>3 DEF RailsSafe, Off, AllGated
<1>8. Handoff'
  <2>1. ASSUME NEW h \in registered \ deaf, h <= cur PROVE Handed(h)'
    <3>1. CASE h = cur BY <1>1, <1>3, <1>4, <2>1, <3>1 DEF Handed
    <3>2. CASE h # cur
      <4>1. h < cur BY <1>3, <2>1, <3>2, HostFacts
      <4>2. Handed(h) BY <1>1, <1>3, <2>1, <4>1 DEF Handoff
      <4> QED BY <1>1, <1>3, <1>4, <2>1, <3>2, <4>2 DEF Handed
    <3> QED BY <3>1, <3>2
  <2> QED BY <1>1, <1>2, <1>3, <2>1 DEF Handoff
<1> QED BY <1>1, <1>2, <1>5, <1>6, <1>7, <1>8, HandoffFrame DEF IInv

LEMMA Step == IInv /\ [Next]_vars => IInv'
<1> SUFFICES ASSUME IInv, [Next]_vars PROVE IInv'
  OBVIOUS
<1>1. CASE UNCHANGED vars
  BY <1>1
  DEF vars, IInv, Types, Cards, Order, Supply, Script, Gates, Ready, HostReady,
      RailsSafe, Handoff, Handed, InUse, Processed, Gated, AllGated
<1> QED
  BY <1>1, BringUpStep, SignalStep, SkipStep, ResetStep, NarrowStep DEF Next

LEMMA IInvHolds == Spec => []IInv
<1>1. Init => IInv BY InitInv
<1>2. IInv /\ [Next]_vars => IInv' BY Step
<1> QED BY <1>1, <1>2, PTL DEF Spec

-----------------------------------------------------------------------------
(* The clocks.  ClockControl and MsdcSetMclk start every stage of the      *)
(* clocks they name and stop none; giving up on a host stops the stages it *)
(* shares, and leaves its own gates closed as a trace of that.             *)

LEMMA OwnStage ==
  ASSUME NEW h \in Hosts, NEW c \in OwnClocks(h), NEW s \in Stages[c]
  PROVE  s \in Clock /\ s \notin Inverted \cup StatusOnly
<1>1. c \in Clock BY OwnGateBits
<1>2. Stages[c] = Range(Path(Sel, c)) /\ Path(Sel, c) \in Seq(Nodes)
  BY <1>1, PathIs DEF Stages
<1>3. s \in Nodes BY <1>2, ElementOfSeq DEF Range
<1>4. s \notin Inverted \cup StatusOnly \cup {NoClock}
  BY HostClocksAssumption
<1> QED BY <1>3, <1>4 DEF Nodes

LEMMA StartedStage ==
  ASSUME NEW s \in Clock, s \notin Inverted \cup StatusOnly, NEW r,
         r[s] = BitsAfter(s, TRUE)
  PROVE  StageOn(r, s)
<1>1. CASE Type[s] = "Pll"
  <2>1. r[s] = {"pwr", "en"} \cup (IF s \in ResetBar THEN {"rstb"} ELSE {})
    BY <1>1 DEF BitsAfter
  <2> QED BY <1>1, <2>1 DEF StageOn
<1>2. CASE Type[s] = "MuxGate" BY <1>2 DEF StageOn, BitsAfter
<1>3. CASE Type[s] = "Gate"
  <2>1. (s \in Inverted) = FALSE /\ s \notin StatusOnly OBVIOUS
  <2>2. ~GateBit(s, TRUE) BY <2>1, Zenon DEF GateBit
  <2> QED BY <1>3, <2>1, <2>2 DEF StageOn, BitsAfter
<1>4. CASE Type[s] \notin {"Pll", "MuxGate", "Gate"} BY <1>4 DEF StageOn
<1> QED BY <1>1, <1>2, <1>3, <1>4

(* The stages of a sequence of clocks all run. *)
Running(clocks) ==
  \A i \in DOMAIN clocks : \A s \in Stages[clocks[i]] : StageOn(reg, s)

LEMMA SwitchedRuns ==
  ASSUME NEW h \in Hosts, NEW c \in OwnClocks(h), NEW s \in Stages[c],
         NEW clocks, reg' = Switched(clocks, TRUE), StageOn(reg, s)
  PROVE  StageOn(reg', s)
<1>1. s \in Clock /\ s \notin Inverted \cup StatusOnly BY OwnStage
<1>2. CASE reg'[s] = BitsAfter(s, TRUE) BY <1>1, <1>2, StartedStage
<1>3. CASE reg'[s] = reg[s] BY <1>3 DEF StageOn
<1> QED BY <1>1, <1>2, <1>3 DEF Switched

LEMMA SwitchedStarts ==
  ASSUME NEW h \in Hosts, NEW clocks \in ClocksOf(h),
         reg' = Switched(clocks, TRUE)
  PROVE  Running(clocks)'
<1> SUFFICES ASSUME NEW i \in DOMAIN clocks, NEW s \in Stages[clocks[i]]
             PROVE  StageOn(reg', s)
  BY DEF Running
<1>1. clocks[i] \in OwnClocks(h) BY OwnClock
<1>2. s \in Clock /\ s \notin Inverted \cup StatusOnly BY <1>1, OwnStage
<1>3. reg'[s] = BitsAfter(s, TRUE) BY <1>2 DEF Switched
<1> QED BY <1>2, <1>3, StartedStage

LEMMA KeepsRunning ==
  ASSUME NEW h \in Hosts, NEW clocks \in ClocksOf(h), NEW switched,
         reg' = reg \/ reg' = Switched(switched, TRUE), Running(clocks)
  PROVE  Running(clocks)'
<1> SUFFICES ASSUME NEW i \in DOMAIN clocks, NEW s \in Stages[clocks[i]]
             PROVE  StageOn(reg', s)
  BY DEF Running
<1>1. clocks[i] \in OwnClocks(h) /\ StageOn(reg, s)
  BY OwnClock DEF Running
<1> QED BY <1>1, SwitchedRuns

(* The gates of the host at hand and of those after it have not been       *)
(* closed, its clocks run once ClockControl has been called, and its       *)
(* source clocks when it is installed.                                     *)
ClockInv ==
  /\ InUse => \A h \in registered : Clocked(h)
  /\ stage = "init" =>
       /\ \A k \in Hosts : cur <= k => ~Gated(HostClocks[k])
       /\ at \notin Unclocked \cup OffSteps => Running(HostClocks[cur])
       /\ at = "INSTALL" => Running(SourceClocks[cur])

LEMMA ClockInit == Init => ClockInv
<1> SUFFICES ASSUME Init PROVE ClockInv
  OBVIOUS
<1>1. /\ registered = {} /\ at = "PRESENT" /\ reg = [c \in Clock |-> OnBits(c)]
  BY DEF Init
<1>2. ASSUME NEW k \in Hosts PROVE ~Gated(HostClocks[k])
  <2> SUFFICES ASSUME NEW i \in DOMAIN HostClocks[k]
               PROVE  "gate" \notin reg[HostClocks[k][i]]
    BY DEF Gated
  <2> DEFINE c == HostClocks[k][i]
  <2>1. c \in OwnClocks(k) BY OwnClock DEF ClocksOf
  <2> HIDE DEF c
  <2>2. c \in Clock /\ c \notin Inverted
    BY <2>1, OwnGateBits, OnOwnPath, OwnStage
  <2>3. OnBits(c) = {} BY <2>1, <2>2, HostClocksAssumption DEF OnBits
  <2> QED BY <1>1, <2>2, <2>3 DEF c
<1> QED BY <1>1, <1>2 DEF ClockInv, Unclocked

(* What a step of InitMsdc does to the clocks. *)
LEMMA ClockSteps ==
  ASSUME IInv, InitMsdc
  PROVE  \/ ClockOff(cur)
         \/ reg' = reg
         \/ ClockOn(cur) /\ reg' = Switched(HostClocks[cur], TRUE)
         \/ SetMclk(cur) /\ reg' = Switched(SourceClocks[cur], TRUE)
<1>1. CASE Quiet
  BY <1>1
  DEF Quiet, GetCardPresent, AllocatePrivate, LocateRegion, InitGpio, ClockOn,
      ResetHost, SetVoltages, SetMclk, Install, ResetUnheard, control
<1>2. CASE Regulators BY <1>2, RegulatorKeeps
<1>3. CASE Commands BY <1>3, FlowFacts, CommandKeeps DEF IInv
<1> QED BY <1>1, <1>2, <1>3, InitSteps

(* Where a host has come to after its clocks are on. *)
LEMMA StaysClocked ==
  ASSUME IInv, InitMsdc, stage' = "init", at' \notin Unclocked \cup OffSteps
  PROVE  /\ cur' = cur
         /\ ClockOn(cur) \/ at \notin Unclocked \cup OffSteps
         /\ at' = "INSTALL" => SetMclk(cur)
<1>1. cur' = cur BY FlowFacts DEF IInv, Unclocked
<1>2. ~NextHost /\ ~Undo(cur) /\ ~InitFailed(cur)
      /\ \A s \in Unclocked \cup OffSteps : ~GoTo(s)
  BY DEF NextHost, Undo, InitFailed, GoTo, Unclocked, OffSteps
<1>3. CASE Quiet
  <2>1. ~GetCardPresent(cur)
    BY <1>2 DEF GetCardPresent, Unclocked
  <2>2. ~AllocatePrivate(cur)
    BY <1>2 DEF AllocatePrivate, Unclocked
  <2>3. ~LocateRegion(cur) /\ ~InitGpio(cur)
    BY <1>2 DEF LocateRegion, InitGpio, Unclocked
  <2>4. ~ClockOff(cur) /\ ~Install(cur)
    BY <1>2 DEF ClockOff, Install
  <2>5. ClockOn(cur) => at' # "INSTALL"
    BY DEF ClockOn, GoTo
  <2>6. ResetHost(cur) => at' # "INSTALL" /\ at = "RESET"
    BY <1>2 DEF ResetHost, GoTo
  <2>7. SetVoltages(cur) => at' # "INSTALL" /\ at = "VOLTAGE"
    BY <1>2 DEF SetVoltages, GoTo
  <2>8. SetMclk(cur) => at \in {"MCLK", "MCLK_FAST"}
    BY DEF SetMclk
  <2>9. ResetUnheard(cur) => at' # "INSTALL" /\ at = "GO_IDLE"
    BY DEF ResetUnheard, GoTo, After, IsEmmc
  <2> QED
    BY <1>1, <1>3, <2>1, <2>2, <2>3, <2>4, <2>5, <2>6, <2>7, <2>8, <2>9
    DEF Quiet, Unclocked, OffSteps
<1>4. CASE Regulators
  <2>1. at \in {"ON_VMMC", "ON_VQMMC"} /\ at' # "INSTALL"
    BY <1>2, <1>4
    DEF Regulators, EnableVmmc, EnableVqmmc, RollbackVmmc, DisableVqmmc,
        DisableVmmc, Regulator, GoTo, OffSteps
  <2> QED BY <1>1, <2>1 DEF Unclocked, OffSteps
<1>5. CASE Commands
  <2>1. at \in CardCommands
    BY <1>5 DEF Commands, CommandAnswered, AnswerLost, CommandLost
  <2>2. Fail(cur) => at' # "INSTALL" BY <1>2 DEF Fail, GoTo
  <2>3. ASSUME NEW bit, Proceed(cur, bit) PROVE at' # "INSTALL"
    <3>1. After(at, cur) # "INSTALL"
      BY <2>1 DEF After, CardCommands, IsEmmc
    <3> QED BY <1>2, <2>3, <3>1 DEF Proceed, GoTo
  <2>4. at' # "INSTALL"
    BY <1>5, <2>2, <2>3 DEF Commands, CommandAnswered, AnswerLost, CommandLost
  <2> QED BY <1>1, <2>1, <2>4 DEF CardCommands, Unclocked, OffSteps
<1> QED BY <1>3, <1>4, <1>5, InitSteps

(* A host that was given up keeps its gates closed. *)
LEMMA StaysGivenUp ==
  ASSUME IInv, ClockInv, InitMsdc, NEW k \in Hosts, Gated(HostClocks[k])
  PROVE  Gated(HostClocks[k])'
<1>1. k # cur
  BY FlowFacts, HostFacts DEF ClockInv, IInv
<1>2. Kept(k) BY <1>1, OthersKept
<1> QED BY <1>2 DEF Kept, Gated, OwnClocks, Range

LEMMA ClockOffGates ==
  ASSUME NEW k \in Hosts, reg' = Switched(HostClocks[k], FALSE),
         NEW i \in DOMAIN HostClocks[k]
  PROVE  Gated(HostClocks[k])'
<1>1. HostClocks[k] \in ClocksOf(k) BY DEF ClocksOf
<1>2. Switched(HostClocks[k], FALSE)[HostClocks[k][i]]
        = BitsAfter(HostClocks[k][i], FALSE)
  BY <1>1, SwitchedOwn
<1>3. HostClocks[k][i] \in OwnClocks(k) BY <1>1, OwnClock
<1>4. "gate" \in reg'[HostClocks[k][i]] BY <1>2, <1>3, OwnGateBits
<1> QED BY <1>4 DEF Gated

LEMMA ClockedStep ==
  ASSUME IInv, ClockInv, InitMsdc, NEW h \in registered
  PROVE  Clocked(h)'
<1>1. h \in Hosts /\ cur \in Hosts /\ h < cur /\ Clocked(h)
  BY FlowFacts DEF IInv, Types, Order, ClockInv, InUse
<1> SUFFICES ASSUME NEW c \in OwnClocks(h), NEW s \in Stages[c]
             PROVE  \/ StageOn(reg', s)
                    \/ \E k \in Hosts : /\ h < k /\ Gated(HostClocks[k])'
                                        /\ \E d \in Range(HostClocks[k]) :
                                             s \in Stages[d]
  BY DEF Clocked, GivenUpAfter
<1>2. CASE \E k \in GivenUpAfter(h) : \E d \in Range(HostClocks[k]) :
             s \in Stages[d]
  BY <1>2, StaysGivenUp DEF GivenUpAfter
<1>3. CASE StageOn(reg, s)
  <2>1. ASSUME NEW clocks, reg' = reg \/ reg' = Switched(clocks, TRUE)
        PROVE  StageOn(reg', s)
    BY <1>1, <1>3, <2>1, SwitchedRuns
  <2>2. CASE ClockOff(cur)
    <3>1. reg' = Switched(HostClocks[cur], FALSE) BY <2>2 DEF ClockOff
    <3>2. CASE \E i \in DOMAIN HostClocks[cur] : s \in Stages[HostClocks[cur][i]]
      <4>1. PICK i \in DOMAIN HostClocks[cur] : s \in Stages[HostClocks[cur][i]]
        BY <3>2
      <4>2. \A k \in Hosts : k = cur => Gated(HostClocks[k])'
        BY <3>1, <4>1, ClockOffGates
      <4>3. \E d \in Range(HostClocks[cur]) : s \in Stages[d]
        BY <4>1 DEF Range
      <4> QED BY <1>1, <4>2, <4>3
    <3>3. CASE ~ \E i \in DOMAIN HostClocks[cur] :
                     s \in Stages[HostClocks[cur][i]]
      <4>1. s \in Clock BY <1>1, OwnStage
      <4>2. reg'[s] = reg[s] BY <3>1, <3>3, <4>1 DEF Switched
      <4> QED BY <1>3, <4>2 DEF StageOn
    <3> QED BY <3>2, <3>3
  <2> QED BY <2>1, <2>2, ClockSteps
<1> QED BY <1>1, <1>2, <1>3 DEF Clocked

LEMMA ClockStep == ASSUME IInv, ClockInv, InitMsdc PROVE ClockInv'
<1>1. /\ cur \in Hosts /\ stage = "init" /\ Hosts \subseteq Nat
      /\ registered' \in {registered, registered \cup {cur}}
      /\ \/ cur' = cur
         \/ cur' = cur + 1 /\ at' = "PRESENT"
      /\ HostClocks[cur] \in ClocksOf(cur) /\ SourceClocks[cur] \in ClocksOf(cur)
  BY FlowFacts, HostFacts DEF IInv, ClocksOf
<1>2. ASSUME NEW h \in registered' PROVE Clocked(h)'
  <2>1. CASE h \in registered BY <2>1, ClockedStep
  <2>2. CASE h \notin registered
    <3>1. h = cur /\ Install(cur)
      BY <1>1, <1>2, <2>2, NewlyInstalled
    <3>2. at = "INSTALL" /\ reg' = reg BY <3>1 DEF Install, control
    <3>3. Running(HostClocks[cur]) /\ Running(SourceClocks[cur])
      BY <1>1, <3>2 DEF ClockInv, Unclocked, OffSteps
    <3>4. \A c \in OwnClocks(cur) : \A s \in Stages[c] : StageOn(reg', s)
      BY <3>2, <3>3 DEF OwnClocks, Range, Running
    <3> QED BY <3>1, <3>4 DEF Clocked
  <2> QED BY <2>1, <2>2
<1>3. ASSUME stage' = "init", NEW k \in Hosts, cur' <= k
      PROVE  ~Gated(HostClocks[k])'
  <2>1. cur <= k /\ ~Gated(HostClocks[k])
    BY <1>1, <1>3 DEF ClockInv
  <2>2. CASE k # cur
    <3>1. Kept(k) BY <2>2, OthersKept
    <3> QED BY <2>1, <3>1 DEF Kept, Gated, OwnClocks, Range
  <2>3. CASE k = cur
    <3>1. ~ClockOff(cur)
      <4>1. cur' # cur + 1 BY <1>1, <1>3, <2>3
      <4> QED BY <4>1 DEF ClockOff, NextHost
    <3>2. reg' = reg => ~Gated(HostClocks[k])' BY <2>1 DEF Gated
    <3>3. ASSUME NEW clocks, reg' = Switched(clocks, TRUE)
          PROVE  ~Gated(HostClocks[k])'
      <4>1. HostClocks[k] \in ClocksOf(k) BY DEF ClocksOf
      <4>2. \A x \in ClocksOf(k) : ~Gated(x) => ~Gated(x)'
        BY <3>3, StaysOpen
      <4> QED BY <2>1, <4>1, <4>2 DEF Gated
    <3> QED BY <3>1, <3>2, <3>3, ClockSteps
  <2> QED BY <2>2, <2>3
<1>4. ASSUME stage' = "init", at' \notin Unclocked \cup OffSteps
      PROVE  Running(HostClocks[cur])'
  <2>4. cur' = cur BY <1>4, StaysClocked
  <2>1. ClockOn(cur) \/ at \notin Unclocked \cup OffSteps
    BY <1>4, StaysClocked
  <2>2. CASE ClockOn(cur)
    <3>1. reg' = Switched(HostClocks[cur], TRUE) BY <2>2 DEF ClockOn
    <3>2. \A clocks \in ClocksOf(cur) :
            reg' = Switched(clocks, TRUE) => Running(clocks)'
      BY <1>1, SwitchedStarts
    <3> QED BY <1>1, <2>4, <3>1, <3>2 DEF Running
  <2>3. CASE at \notin Unclocked \cup OffSteps
    <3>1. Running(HostClocks[cur]) BY <1>1, <2>3 DEF ClockInv
    <3>2. ~ClockOff(cur) BY <2>3 DEF ClockOff, OffSteps
    <3>3. \E clocks : reg' = reg \/ reg' = Switched(clocks, TRUE)
      BY <3>2, ClockSteps
    <3>4. \A clocks \in ClocksOf(cur) : Running(clocks) => Running(clocks)'
      BY <1>1, <3>3, KeepsRunning
    <3> QED BY <1>1, <2>4, <3>1, <3>4 DEF Running
  <2> QED BY <2>1, <2>2, <2>3
<1>5. ASSUME stage' = "init", at' = "INSTALL"
      PROVE  Running(SourceClocks[cur])'
  <2>1. SetMclk(cur) /\ cur' = cur
    BY <1>5, StaysClocked DEF Unclocked, OffSteps
  <2>2. reg' = Switched(SourceClocks[cur], TRUE) BY <2>1 DEF SetMclk
  <2>3. \A clocks \in ClocksOf(cur) :
          reg' = Switched(clocks, TRUE) => Running(clocks)'
    BY <1>1, SwitchedStarts
  <2> QED BY <1>1, <2>1, <2>2, <2>3 DEF Running
<1> QED BY <1>2, <1>3, <1>4, <1>5 DEF ClockInv

LEMMA ClockNext == IInv /\ ClockInv /\ [Next]_vars => ClockInv'
<1> SUFFICES ASSUME IInv, ClockInv, [Next]_vars PROVE ClockInv'
  OBVIOUS
<1>1. CASE UNCHANGED vars
  BY <1>1 DEF vars, ClockInv, InUse, Clocked, GivenUpAfter, Gated, Running
<1>2. CASE SignalExitBootServices \/ SkipHandoff \/ HandoffReset \/ HandoffNarrow
  <2>1. stage' \notin {"init", "ready"}
    BY <1>2
    DEF SignalExitBootServices, SkipHandoff, HandoffReset, HandoffNarrow,
        NextHandoff, GoTo
  <2> QED BY <2>1 DEF ClockInv, InUse
<1> QED BY <1>1, <1>2, ClockStep DEF Next

(* InstalledReady, for every number of hosts, clock tree, width and        *)
(* preserve mask: whatever failed on the way, an installed host is powered *)
(* and selected, its card is at least as wide as the host, and every stage *)
(* of its clocks runs but those that feed a later host that was given up   *)
(* (MsdcDxe.c:1926-1935).                                                  *)
THEOREM InstalledHostIsReady == Spec => []InstalledReady
<1>1. IInv /\ ClockInv => InstalledReady
  <2> SUFFICES ASSUME Types, Ready, ClockInv PROVE InstalledReady
    BY DEF IInv
  <2> QED BY GatedParts DEF InstalledReady, Ready, HostReady, Types, ClockInv
<1> QED BY <1>1, ClockInit, ClockNext, IInvHolds, PTL DEF Spec

(* RailsSafe: the I/O supply never outlives the card supply, and a failed  *)
(* host is left without supplies and clocks if its regulators answered.    *)
THEOREM RailsAreSafe == Spec => []RailsSafe
<1>1. IInv => RailsSafe BY DEF IInv
<1> QED BY <1>1, IInvHolds, PTL

(* HandoffSafe: after MsdcExitBootServices card and host agree on one bit, *)
(* unless the card did not hear CMD0.                                      *)
THEOREM HandoffIsSafe == Spec => []HandoffSafe
<1>1. IInv => HandoffSafe
  BY DEF IInv, Handoff, HandoffSafe, Handed
<1> QED BY <1>1, IInvHolds, PTL

(* PreservedKept: no step of the driver takes a supply from a host in the  *)
(* preserve mask or closes one of its gates, those for other hosts         *)
(* included.                                                               *)
THEOREM PreservedIsKept == Spec => PreservedKept
<1>1. ASSUME IInv, Next, NEW h \in Preserved
      PROVE /\ rail'[h] = rail[h]
            /\ ~Gated(HostClocks[h]) => ~Gated(HostClocks[h])'
  <2>1. h \in Hosts BY HostFacts
  <2>2. \A switched :
          reg' = Switched(switched, TRUE) /\ ~Gated(HostClocks[h])
            => ~Gated(HostClocks[h])'
    BY <2>1, StaysOpen DEF ClocksOf
  <2>3. reg' = reg /\ ~Gated(HostClocks[h]) => ~Gated(HostClocks[h])'
    BY DEF Gated
  <2>4. CASE InitMsdc
    <3>1. Order /\ stage = "init" /\ cur \in Hosts
      BY <1>1, <2>4, FlowFacts DEF IInv
    <3>2. CASE h # cur
      BY <1>1, <2>1, <2>4, <3>2, OthersKept
      DEF Kept, Gated, OwnClocks, Range
    <3>3. CASE h = cur
      <4>1. at \notin PowerSteps \cup OffSteps BY <3>1, <3>3 DEF Order
      <4>2. ~Regulators
        BY <4>1, RegulatorKeeps DEF PowerSteps, OffSteps
      <4>3. CASE Commands
        BY <1>1, <2>3, <3>1, <4>3, CommandKeeps DEF IInv
      <4>4. CASE Quiet
        <5>1. reg' = reg \/ \E clocks : reg' = Switched(clocks, TRUE)
          BY <4>1, <4>4
          DEF Quiet, GetCardPresent, AllocatePrivate, LocateRegion, InitGpio,
              ClockOn, ResetHost, SetVoltages, ClockOff, SetMclk, Install,
              ResetUnheard, control, OffSteps
        <5> QED BY <2>2, <2>3, <4>4, <5>1, QuietKeeps
      <4> QED BY <2>4, <4>2, <4>3, <4>4, InitSteps
    <3> QED BY <3>2, <3>3
  <2>5. CASE SignalExitBootServices \/ SkipHandoff \/ HandoffReset
    BY <2>3, <2>5
    DEF SignalExitBootServices, SkipHandoff, HandoffReset, power, control
  <2>6. CASE HandoffNarrow
    BY <2>2, <2>6 DEF HandoffNarrow, power
  <2> QED BY <1>1, <2>4, <2>5, <2>6 DEF Next
<1>2. IInv /\ [Next]_vars =>
        [\A h \in Preserved :
           /\ rail'[h] = rail[h]
           /\ ~Gated(HostClocks[h]) => ~Gated(HostClocks[h])']_vars
  BY <1>1
<1> QED BY <1>2, IInvHolds, PTL DEF Spec, PreservedKept
-----------------------------------------------------------------------------
(* Bounded work.  WorkLeft is the number of steps that are left for the     *)
(* whole of InitMsdc and the callback when every host goes through all of   *)
(* its script, its card answers "busy" to the last retry of the OCR loop    *)
(* but one, and its installation fails and is undone.                       *)

(* The longest way from a step to the next host, the OCR retries aside.     *)
Rank(step) ==
  CASE step = "OFF_CLOCK"                       -> 1
    [] step = "OFF_VMMC"                        -> 2
    [] step = "OFF_VQMMC"                       -> 3
    [] step \in {"INSTALL", "ROLLBACK"}         -> 4
    [] step = "MCLK_FAST"                       -> 5
    [] step = "SEND_STATUS"                     -> 6
    [] step \in {"SWITCH_FUNC", "HS_TIMING"}    -> 7
    [] step \in {"SET_WIDTH", "CHECK_WIDTH"}    -> 8
    [] step \in {"APP_WIDTH", "SWITCH_WIDTH"}   -> 9
    [] step = "SELECT"                          -> 10
    [] step = "SET_RCA"                         -> 11
    [] step = "ALL_SEND_CID"                    -> 12
    [] step = "OP_COND"                         -> 13
    [] step = "APP_OP"                          -> 14
    [] step = "INQUIRE"                         -> 15
    [] step = "APP_INQUIRE"                     -> 16
    [] step = "IF_COND"                         -> 17
    [] step = "GO_IDLE"                         -> 18
    [] step = "MCLK"                            -> 19
    [] step = "ON_VQMMC"                        -> 20
    [] step = "ON_VMMC"                         -> 21
    [] step = "VOLTAGE"                         -> 22
    [] step = "RESET"                           -> 23
    [] step = "CLOCK"                           -> 24
    [] step = "GPIO"                            -> 25
    [] step = "REGION"                          -> 26
    [] step = "ALLOC"                           -> 27
    [] OTHER                                    -> 28

(* A retry costs CMD55 and ACMD41; the first step of a host resets Retry.   *)
Retried  == IF at = "PRESENT" THEN 0 ELSE retry
HostLeft == Rank(at) + IF Rank(at) < 13 THEN 0
                       ELSE 2 * (MaxRetry - 1 - Retried)

HostSteps    == 2 * MaxRetry + 26
HandoffSteps == 2 * NumberOfHosts
BringUpSteps == NumberOfHosts * HostSteps + HandoffSteps + 1

WorkLeft ==
  CASE stage = "init"    -> (NumberOfHosts - 1 - cur) * HostSteps + HostLeft
                              + HandoffSteps + 1
    [] stage = "ready"   -> HandoffSteps + 1
    [] stage = "handoff" ->
         2 * (NumberOfHosts - cur) - IF at = "NARROW" THEN 1 ELSE 0
    [] OTHER             -> 0

(* The driver with a count of all its steps. *)
VARIABLE steps
countVars == <<vars, steps>>

CountInit == Init /\ steps = 0
CountSpec == CountInit /\ [][Next /\ steps' = steps + 1]_countVars

RetryInv == retry \in 0 .. MaxRetry - 1
StepsBounded == steps <= BringUpSteps

LEMMA RankRange ==
  /\ \A s : Rank(s) \in 1 .. 28
  /\ \A s \in Steps \ {"CMD0", "NARROW"} : Rank(s) = 28 => s = "PRESENT"
BY DEF Rank, Steps

LEMMA WorkFacts ==
  /\ NumberOfHosts \in Nat /\ MaxRetry \in Nat /\ 1 <= MaxRetry
  /\ HostSteps \in Nat /\ HandoffSteps \in Nat
  /\ HostSteps = 2 * MaxRetry + 26
BY HostsAssumption DEF HostSteps, HandoffSteps

(* Turns left for the OCR loop of the host at hand. *)
LEMMA TurnsLeft ==
  ASSUME NEW r \in 0 .. MaxRetry - 1 PROVE MaxRetry - 1 - r \in Nat
BY WorkFacts

LEMMA RetriedRange ==
  ASSUME RetryInv
  PROVE  Retried \in Nat /\ MaxRetry - 1 - Retried \in Nat
BY WorkFacts DEF RetryInv, Retried

LEMMA HostLeftRange ==
  ASSUME RetryInv
  PROVE  HostLeft \in Nat /\ 1 <= HostLeft /\ HostLeft <= HostSteps
<1>1. Rank(at) \in 1 .. 28 BY RankRange
<1>2. MaxRetry - 1 - Retried \in Nat /\ Retried \in Nat BY RetriedRange
<1>3. CASE Rank(at) < 13
  <2>1. HostLeft = Rank(at) + 0 BY <1>3 DEF HostLeft
  <2> QED BY <1>1, <1>3, <2>1, WorkFacts
<1>4. CASE ~(Rank(at) < 13)
  <2>1. HostLeft = Rank(at) + 2 * (MaxRetry - 1 - Retried)
    BY <1>4 DEF HostLeft
  <2> QED BY <1>1, <1>2, <2>1, WorkFacts
<1> QED BY <1>3, <1>4

(* One host less: the product loses one HostSteps. *)
LEMMA OneHostLess ==
  ASSUME NEW n \in Int, NEW k \in Int
  PROVE  /\ n * k \in Int
         /\ (n - 1) * k = n * k - k
         /\ n \in Nat /\ k \in Nat => 0 <= n * k
OBVIOUS

LEMMA MoreHosts ==
  ASSUME NEW m \in Nat, NEW n \in Nat, NEW k \in Nat, m <= n
  PROVE  m * k <= n * k
OBVIOUS

HostsAfter == NumberOfHosts - 1 - cur

LEMMA WorkOfHost ==
  ASSUME Types, RetryInv, stage = "init"
  PROVE  /\ HostsAfter \in Nat /\ HostsAfter * HostSteps \in Nat
         /\ WorkLeft = HostsAfter * HostSteps + HostLeft + HandoffSteps + 1
<1>1. cur \in 0 .. NumberOfHosts - 1 BY DEF Types, Hosts
<1>2. HostsAfter \in Nat BY <1>1, WorkFacts DEF HostsAfter
<1>3. HostsAfter * HostSteps \in Nat BY <1>2, WorkFacts, OneHostLess
<1>4. WorkLeft = HostsAfter * HostSteps + HostLeft + HandoffSteps + 1
  BY DEF WorkLeft, HostsAfter
<1> QED BY <1>2, <1>3, <1>4

LEMMA WorkRange ==
  ASSUME Types, RetryInv
  PROVE  WorkLeft \in Nat /\ WorkLeft <= BringUpSteps
<1>1. /\ NumberOfHosts * HostSteps \in Nat /\ 0 <= NumberOfHosts * HostSteps
      /\ HandoffSteps = 2 * NumberOfHosts
      /\ BringUpSteps = NumberOfHosts * HostSteps + HandoffSteps + 1
  BY WorkFacts, OneHostLess DEF HandoffSteps, BringUpSteps
<1>2. CASE stage = "init"
  <2>1. HostsAfter + 1 <= NumberOfHosts /\ HostsAfter \in Nat
    BY <1>2, WorkFacts, WorkOfHost DEF Types, Hosts, HostsAfter
  <2>2. (HostsAfter + 1) * HostSteps <= NumberOfHosts * HostSteps
    BY <2>1, WorkFacts, MoreHosts
  <2>3. (HostsAfter + 1) * HostSteps = HostsAfter * HostSteps + HostSteps
    <3>1. HostsAfter + 1 \in Int /\ (HostsAfter + 1) - 1 = HostsAfter
          /\ HostsAfter * HostSteps \in Int
      BY <2>1, WorkFacts, OneHostLess
    <3>2. ((HostsAfter + 1) - 1) * HostSteps
            = (HostsAfter + 1) * HostSteps - HostSteps
          /\ (HostsAfter + 1) * HostSteps \in Int
      BY <3>1, WorkFacts, OneHostLess
    <3> QED BY <3>1, <3>2, WorkFacts
  <2>4. /\ HostsAfter * HostSteps \in Nat
        /\ WorkLeft = HostsAfter * HostSteps + HostLeft + HandoffSteps + 1
    BY <1>2, WorkOfHost
  <2>5. HostLeft \in Nat /\ HostLeft <= HostSteps BY HostLeftRange
  <2> QED BY <1>1, <2>2, <2>3, <2>4, <2>5, WorkFacts
<1>3. CASE stage = "ready"
  <2>1. WorkLeft = HandoffSteps + 1 BY <1>3 DEF WorkLeft
  <2> QED BY <1>1, <2>1, WorkFacts
<1>4. CASE stage = "handoff"
  <2>1. cur \in 0 .. NumberOfHosts - 1 BY <1>4 DEF Types, Hosts
  <2>2. WorkLeft = 2 * (NumberOfHosts - cur) - 1
        \/ WorkLeft = 2 * (NumberOfHosts - cur) - 0
    BY <1>4 DEF WorkLeft
  <2> QED BY <1>1, <2>1, <2>2, WorkFacts
<1>5. CASE stage \in {"over", "unloaded"}
  <2>1. WorkLeft = 0 BY <1>5 DEF WorkLeft
  <2> QED BY <1>1, <2>1, WorkFacts
<1> QED BY <1>2, <1>3, <1>4, <1>5 DEF Types

LEMMA WorkRangeNext ==
  (Types /\ RetryInv => WorkLeft \in Nat /\ WorkLeft <= BringUpSteps)'
<1>1. Types /\ RetryInv => WorkLeft \in Nat /\ WorkLeft <= BringUpSteps
  BY WorkRange
<1> QED BY <1>1, PTL

(* A step nearer to the end of the host's script: a step of lower rank, or  *)
(* another turn of the OCR loop.                                            *)
Onward(s) ==
  /\ GoTo(s) /\ s # "PRESENT" /\ Rank(s) < Rank(at)
  /\ \/ retry' = retry /\ at # "PRESENT"
     \/ retry' = 0 /\ (at = "PRESENT" \/ Rank(s) < 13)
Again ==
  /\ at = "OP_COND" /\ retry' = retry + 1 /\ retry + 1 < MaxRetry
  /\ GoTo("OP_COND") \/ GoTo("APP_OP")

Nearer ==
  \/ NextHost /\ (UNCHANGED retry \/ retry' = 0)
  \/ stage' = "unloaded" /\ UNCHANGED retry
  \/ \E s : Onward(s)
  \/ Again

Shrinks == RetryInv' /\ WorkLeft' < WorkLeft

LEMMA OnwardShrinks ==
  ASSUME Types, RetryInv, stage = "init", NEW s, Onward(s)
  PROVE  Shrinks
<1>1. /\ at' = s /\ cur' = cur /\ stage' = "init"
      /\ Rank(s) \in 1 .. 28 /\ Rank(at) \in 1 .. 28 /\ Rank(s) < Rank(at)
  BY RankRange DEF Onward, GoTo
<1>2. RetryInv' BY WorkFacts DEF Onward, RetryInv
<1>3. /\ Retried \in Nat /\ MaxRetry - 1 - Retried \in Nat
  BY RetriedRange
<1>4. HostLeft' < HostLeft
  <2>1. HostLeft \in Nat /\ Rank(at) <= HostLeft
    <3>1. HostLeft = Rank(at) + 0
          \/ HostLeft = Rank(at) + 2 * (MaxRetry - 1 - Retried)
      BY DEF HostLeft
    <3> QED BY <1>1, <1>3, <3>1, WorkFacts
  <2>2. CASE Rank(s) < 13
    <3>1. HostLeft' = Rank(s) + 0 BY <1>1, <2>2 DEF HostLeft
    <3> QED BY <1>1, <2>1, <3>1
  <2>3. CASE ~(Rank(s) < 13)
    <3>1. Retried' = Retried
      <4>1. s # "PRESENT" /\ \/ retry' = retry /\ at # "PRESENT"
                             \/ retry' = 0 /\ at = "PRESENT"
        BY <2>3 DEF Onward
      <4>2. Retried' = retry' BY <1>1, <4>1 DEF Retried
      <4> QED BY <4>1, <4>2 DEF Retried
    <3>2. HostLeft' = Rank(s) + 2 * (MaxRetry - 1 - Retried)
      BY <1>1, <2>3, <3>1 DEF HostLeft
    <3>3. HostLeft = Rank(at) + 2 * (MaxRetry - 1 - Retried)
      BY <1>1, <2>3 DEF HostLeft
    <3> QED BY <1>1, <1>3, <3>2, <3>3, WorkFacts
  <2> QED BY <2>2, <2>3
<1>5. WorkLeft' = HostsAfter * HostSteps + HostLeft' + HandoffSteps + 1
  BY <1>1 DEF WorkLeft, HostsAfter
<1>6. HostLeft' \in Nat
  <2>1. HostLeft' = Rank(s) + 0
        \/ HostLeft' = Rank(s) + 2 * (MaxRetry - 1 - Retried')
    BY <1>1 DEF HostLeft
  <2>2. Retried' = retry'
    BY <1>1 DEF Onward, Retried
  <2>3. retry' \in 0 .. MaxRetry - 1 BY <1>2 DEF RetryInv
  <2>4. MaxRetry - 1 - retry' \in Nat
    BY <2>3, TurnsLeft
  <2> QED BY <1>1, <2>1, <2>2, <2>4
<1> QED BY <1>2, <1>4, <1>5, <1>6, WorkOfHost, HostLeftRange, WorkFacts
        DEF Shrinks

LEMMA AgainShrinks ==
  ASSUME Types, RetryInv, stage = "init", Again
  PROVE  Shrinks
<1>1. /\ at = "OP_COND" /\ at' \in {"OP_COND", "APP_OP"} /\ cur' = cur
      /\ stage' = "init" /\ retry' = retry + 1 /\ retry + 1 < MaxRetry
      /\ retry \in Nat
  BY DEF Again, GoTo, RetryInv
<1>2. RetryInv' BY <1>1, WorkFacts DEF RetryInv
<1>3. HostLeft = 13 + 2 * (MaxRetry - 1 - retry)
  BY <1>1 DEF HostLeft, Rank, Retried
<1>4. \/ HostLeft' = 13 + 2 * (MaxRetry - 1 - (retry + 1))
      \/ HostLeft' = 14 + 2 * (MaxRetry - 1 - (retry + 1))
  BY <1>1 DEF HostLeft, Rank, Retried
<1>5. HostLeft' \in Nat /\ HostLeft \in Nat /\ HostLeft' < HostLeft
  BY <1>1, <1>3, <1>4, WorkFacts
<1>6. WorkLeft' = HostsAfter * HostSteps + HostLeft' + HandoffSteps + 1
  BY <1>1 DEF WorkLeft, HostsAfter
<1> QED BY <1>2, <1>5, <1>6, WorkOfHost, WorkFacts DEF Shrinks

LEMMA NextHostShrinks ==
  ASSUME Types, RetryInv, stage = "init", NextHost, retry' \in {retry, 0}
  PROVE  Shrinks
<1>1. /\ at' = "PRESENT" /\ cur' = cur + 1
      /\ stage' = IF cur' = NumberOfHosts THEN "ready" ELSE "init"
      /\ cur \in 0 .. NumberOfHosts - 1
  BY DEF NextHost, Types, Hosts
<1>2. RetryInv' BY WorkFacts DEF RetryInv
<1>3. /\ HostLeft \in Nat /\ 1 <= HostLeft
      /\ HostsAfter \in Nat /\ HostsAfter * HostSteps \in Nat
      /\ WorkLeft = HostsAfter * HostSteps + HostLeft + HandoffSteps + 1
  BY HostLeftRange, WorkOfHost
<1>4. CASE cur' = NumberOfHosts
  <2>1. WorkLeft' = HandoffSteps + 1 BY <1>1, <1>4 DEF WorkLeft
  <2> QED BY <1>2, <1>3, <2>1, WorkFacts DEF Shrinks
<1>5. CASE cur' # NumberOfHosts
  <2>1. Rank("PRESENT") = 28 BY DEF Rank
  <2>2. HostLeft' = HostSteps
    <3>1. HostLeft' = 28 + 2 * (MaxRetry - 1 - 0)
      BY <1>1, <2>1 DEF HostLeft, Retried
    <3> QED BY <3>1, WorkFacts
  <2>3. WorkLeft' = (HostsAfter - 1) * HostSteps + HostLeft' + HandoffSteps + 1
    <3>1. NumberOfHosts - 1 - (cur + 1) = HostsAfter - 1
      BY <1>1, WorkFacts DEF HostsAfter
    <3> QED BY <1>1, <1>5, <3>1 DEF WorkLeft
  <2>4. (HostsAfter - 1) * HostSteps = HostsAfter * HostSteps - HostSteps
    BY <1>3, WorkFacts, OneHostLess
  <2> QED BY <1>2, <1>3, <2>2, <2>3, <2>4, WorkFacts DEF Shrinks
<1> QED BY <1>4, <1>5

LEMMA NearerShrinks ==
  ASSUME Types, RetryInv, stage = "init", Nearer
  PROVE  Shrinks
<1>1. CASE stage' = "unloaded" /\ retry' = retry
  <2>1. WorkLeft' = 0 /\ RetryInv' BY <1>1 DEF WorkLeft, RetryInv
  <2>2. /\ HostLeft \in Nat /\ 1 <= HostLeft
        /\ HostsAfter * HostSteps \in Nat
        /\ WorkLeft = HostsAfter * HostSteps + HostLeft + HandoffSteps + 1
    BY HostLeftRange, WorkOfHost
  <2> QED BY <2>1, <2>2, WorkFacts DEF Shrinks
<1> QED BY <1>1, OnwardShrinks, AgainShrinks, NextHostShrinks DEF Nearer

(* Where Undo and InitFailed go is near the end. *)
LEMMA UndoNearer ==
  ASSUME Undo(cur), 3 < Rank(at), at # "PRESENT", retry' \in {retry, 0}
  PROVE  Nearer
<1>1. /\ Rank("OFF_VMMC") = 2 /\ Rank("OFF_VQMMC") = 3
      /\ Rank(at) \in 1 .. 28
  BY RankRange DEF Rank
<1>2. ASSUME NEW s \in {"OFF_VMMC", "OFF_VQMMC"}, GoTo(s) PROVE Nearer
  <2>1. Onward(s) BY <1>1, <1>2 DEF Onward
  <2> QED BY <2>1 DEF Nearer
<1> QED BY <1>2 DEF Undo, Nearer

LEMMA InitFailedNearer ==
  ASSUME InitFailed(cur), 1 < Rank(at), at # "PRESENT", UNCHANGED retry
  PROVE  Nearer
<1>1. Rank("OFF_CLOCK") = 1 /\ Rank(at) \in 1 .. 28 BY RankRange DEF Rank
<1>2. CASE GoTo("OFF_CLOCK")
  <2>1. Onward("OFF_CLOCK") BY <1>1, <1>2 DEF Onward
  <2> QED BY <2>1 DEF Nearer
<1> QED BY <1>2 DEF InitFailed, Nearer

LEMMA GoToNearer ==
  ASSUME NEW s \in Steps \ {"PRESENT"}, GoTo(s), Rank(s) < Rank(at),
         at # "PRESENT", UNCHANGED retry
  PROVE  Nearer
BY DEF Nearer, Onward

LEMMA NextHostNearer ==
  ASSUME NextHost, retry' \in {retry, 0} PROVE Nearer
BY DEF Nearer

(* The script only goes on to steps of lower rank. *)
LEMMA AfterRank ==
  ASSUME at \in CardCommands
  PROVE  /\ After(at, cur) \in Steps \ {"PRESENT"}
         /\ Rank(After(at, cur)) < Rank(at)
         /\ 3 < Rank(at) /\ at # "PRESENT"
<1>1. at # "PRESENT" /\ 3 < Rank(at) BY DEF CardCommands, Rank
<1>2. CASE at = "GO_IDLE"
  <2>1. After(at, cur) \in {"OP_COND", "IF_COND"} BY <1>2 DEF After
  <2> QED BY <1>1, <1>2, <2>1 DEF Rank, Steps
<1>3. CASE at \in {"IF_COND", "APP_INQUIRE", "INQUIRE", "APP_OP"}
  <2>1. \/ at = "IF_COND" /\ After(at, cur) = "APP_INQUIRE"
        \/ at = "APP_INQUIRE" /\ After(at, cur) = "INQUIRE"
        \/ at = "INQUIRE" /\ After(at, cur) = "APP_OP"
        \/ at = "APP_OP" /\ After(at, cur) = "OP_COND"
    BY <1>3 DEF After
  <2> QED BY <1>1, <2>1 DEF Rank, Steps
<1>4. CASE at \in {"OP_COND", "ALL_SEND_CID", "SET_RCA"}
  <2>1. \/ at = "OP_COND" /\ After(at, cur) = "ALL_SEND_CID"
        \/ at = "ALL_SEND_CID" /\ After(at, cur) = "SET_RCA"
        \/ at = "SET_RCA" /\ After(at, cur) = "SELECT"
    BY <1>4 DEF After
  <2> QED BY <1>1, <2>1 DEF Rank, Steps
<1>5. CASE at = "SELECT"
  <2>1. After(at, cur) \in {"HS_TIMING", "SWITCH_FUNC", "SWITCH_WIDTH",
                            "APP_WIDTH"}
    BY <1>5 DEF After
  <2> QED BY <1>1, <1>5, <2>1 DEF Rank, Steps
<1>6. CASE at \in {"APP_WIDTH", "SET_WIDTH", "SWITCH_FUNC"}
  <2>1. \/ at = "APP_WIDTH" /\ After(at, cur) = "SET_WIDTH"
        \/ at = "SET_WIDTH" /\ After(at, cur) = "SWITCH_FUNC"
        \/ at = "SWITCH_FUNC" /\ After(at, cur) = "SEND_STATUS"
    BY <1>6 DEF After
  <2> QED BY <1>1, <2>1 DEF Rank, Steps
<1>7. CASE at \in {"SWITCH_WIDTH", "CHECK_WIDTH", "HS_TIMING", "SEND_STATUS"}
  <2>1. \/ at = "SWITCH_WIDTH" /\ After(at, cur) = "CHECK_WIDTH"
        \/ at = "CHECK_WIDTH" /\ After(at, cur) = "HS_TIMING"
        \/ at = "HS_TIMING" /\ After(at, cur) = "SEND_STATUS"
        \/ at = "SEND_STATUS" /\ After(at, cur) = "MCLK_FAST"
    BY <1>7 DEF After
  <2> QED BY <1>1, <2>1 DEF Rank, Steps
<1> QED BY <1>2, <1>3, <1>4, <1>5, <1>6, <1>7 DEF CardCommands

LEMMA QuietNearer ==
  ASSUME Quiet PROVE Nearer
<1>1. CASE GetCardPresent(cur)
  <2>1. at = "PRESENT" /\ retry' = 0 /\ (GoTo("ALLOC") \/ NextHost)
    BY <1>1 DEF GetCardPresent
  <2>2. GoTo("ALLOC") => Onward("ALLOC") BY <2>1 DEF Onward, Rank
  <2> QED BY <2>1, <2>2 DEF Nearer
<1>2. CASE AllocatePrivate(cur)
  <2>1. /\ at = "ALLOC" /\ retry' = retry
        /\ GoTo("REGION") \/ stage' = "unloaded"
    BY <1>2 DEF AllocatePrivate
  <2>2. GoTo("REGION") => Onward("REGION") BY <2>1 DEF Onward, Rank
  <2> QED BY <2>1, <2>2 DEF Nearer
<1>3. CASE LocateRegion(cur)
  <2>1. at = "REGION" /\ retry' = retry /\ (GoTo("GPIO") \/ NextHost)
    BY <1>3 DEF LocateRegion
  <2>2. GoTo("GPIO") => Onward("GPIO") BY <2>1 DEF Onward, Rank
  <2> QED BY <2>1, <2>2 DEF Nearer
<1>4. CASE InitGpio(cur)
  <2>1. at = "GPIO" /\ retry' = retry /\ (GoTo("CLOCK") \/ InitFailed(cur))
    BY <1>4 DEF InitGpio
  <2>2. GoTo("CLOCK") => Onward("CLOCK") BY <2>1 DEF Onward, Rank
  <2>3. 1 < Rank(at) BY <2>1 DEF Rank
  <2> QED BY <2>1, <2>2, <2>3, InitFailedNearer DEF Nearer
<1>5. CASE ClockOn(cur)
  <2>1. at = "CLOCK" /\ retry' = retry /\ GoTo("RESET") BY <1>5 DEF ClockOn
  <2>2. Onward("RESET") BY <2>1 DEF Onward, Rank
  <2> QED BY <2>2 DEF Nearer
<1>6. CASE ResetHost(cur)
  <2>1. /\ at = "RESET" /\ retry' = retry
        /\ \/ GoTo("MCLK") \/ GoTo("ON_VMMC") \/ GoTo("VOLTAGE")
           \/ InitFailed(cur)
    BY <1>6 DEF ResetHost
  <2>2. \A s \in {"MCLK", "ON_VMMC", "VOLTAGE"} : GoTo(s) => Onward(s)
    BY <2>1 DEF Onward, Rank
  <2>3. 1 < Rank(at) BY <2>1 DEF Rank
  <2> QED BY <2>1, <2>2, <2>3, InitFailedNearer DEF Nearer
<1>7. CASE SetVoltages(cur)
  <2>1. at = "VOLTAGE" /\ retry' = retry /\ (GoTo("ON_VMMC") \/ Undo(cur))
    BY <1>7 DEF SetVoltages
  <2>2. GoTo("ON_VMMC") => Onward("ON_VMMC") BY <2>1 DEF Onward, Rank
  <2>3. 3 < Rank(at) BY <2>1 DEF Rank
  <2> QED BY <2>1, <2>2, <2>3, UndoNearer DEF Nearer
<1>8. CASE ClockOff(cur)
  BY <1>8, NextHostNearer DEF ClockOff
<1>9. CASE SetMclk(cur)
  <2>1. /\ at \in {"MCLK", "MCLK_FAST"} /\ retry' = retry
        /\ \/ GoTo(IF at = "MCLK" THEN "GO_IDLE" ELSE "INSTALL")
           \/ Undo(cur)
    BY <1>9 DEF SetMclk
  <2>2. ASSUME NEW s, GoTo(s), s = IF at = "MCLK" THEN "GO_IDLE" ELSE "INSTALL"
        PROVE  Onward(s)
    BY <2>1, <2>2 DEF Onward, Rank
  <2>3. 3 < Rank(at) BY <2>1 DEF Rank
  <2> QED BY <2>1, <2>2, <2>3, UndoNearer DEF Nearer
<1>10. CASE Install(cur)
  <2>1. at = "INSTALL" /\ retry' = retry /\ (NextHost \/ Undo(cur))
    BY <1>10 DEF Install
  <2>2. 3 < Rank(at) BY <2>1 DEF Rank
  <2> QED BY <2>1, <2>2, UndoNearer DEF Nearer
<1>11. CASE ResetUnheard(cur)
  <2>1. at = "GO_IDLE" /\ retry' = retry /\ GoTo(After(at, cur))
    BY <1>11 DEF ResetUnheard
  <2>2. at \in CardCommands BY <2>1 DEF CardCommands
  <2> QED BY <2>1, <2>2, AfterRank, GoToNearer
<1> QED BY <1>1, <1>2, <1>3, <1>4, <1>5, <1>6, <1>7, <1>8, <1>9, <1>10, <1>11
        DEF Quiet

LEMMA RegulatorNearer ==
  ASSUME Regulators PROVE Nearer
<1>1. retry' = retry BY RegulatorKeeps
<1>2. CASE EnableVmmc(cur)
  <2>1. at = "ON_VMMC" /\ \/ GoTo("MCLK") \/ GoTo("ON_VQMMC") \/ Undo(cur)
    BY <1>2 DEF EnableVmmc, Regulator
  <2>2. \A s \in {"MCLK", "ON_VQMMC"} : GoTo(s) => Onward(s)
    BY <1>1, <2>1 DEF Onward, Rank
  <2>3. 3 < Rank(at) BY <2>1 DEF Rank
  <2> QED BY <1>1, <2>1, <2>2, <2>3, UndoNearer DEF Nearer
<1>3. CASE EnableVqmmc(cur)
  <2>1. at = "ON_VQMMC" /\ (GoTo("MCLK") \/ GoTo("ROLLBACK"))
    BY <1>3 DEF EnableVqmmc, Regulator
  <2>2. \A s \in {"MCLK", "ROLLBACK"} : GoTo(s) => Onward(s)
    BY <1>1, <2>1 DEF Onward, Rank
  <2> QED BY <2>1, <2>2 DEF Nearer
<1>4. CASE RollbackVmmc(cur)
  <2>1. at = "ROLLBACK" /\ Undo(cur) BY <1>4 DEF RollbackVmmc, Regulator
  <2>2. 3 < Rank(at) BY <2>1 DEF Rank
  <2> QED BY <1>1, <2>1, <2>2, UndoNearer
<1>5. CASE DisableVqmmc(cur)
  <2>1. at = "OFF_VQMMC" /\ (GoTo("OFF_VMMC") \/ GoTo("OFF_CLOCK"))
    BY <1>5 DEF DisableVqmmc, Regulator
  <2>2. \A s \in {"OFF_VMMC", "OFF_CLOCK"} : GoTo(s) => Onward(s)
    BY <1>1, <2>1 DEF Onward, Rank
  <2> QED BY <2>1, <2>2 DEF Nearer
<1>6. CASE DisableVmmc(cur)
  <2>1. at = "OFF_VMMC" /\ GoTo("OFF_CLOCK")
    BY <1>6 DEF DisableVmmc, Regulator
  <2>2. Onward("OFF_CLOCK") BY <1>1, <2>1 DEF Onward, Rank
  <2> QED BY <2>2 DEF Nearer
<1> QED BY <1>2, <1>3, <1>4, <1>5, <1>6 DEF Regulators

LEMMA FailNearer ==
  ASSUME at \in CardCommands, Fail(cur), UNCHANGED retry PROVE Nearer
<1>1. 3 < Rank(at) /\ at # "PRESENT" BY AfterRank
<1>2. CASE at \in {"APP_WIDTH", "SET_WIDTH", "SWITCH_WIDTH"}
  <2>1. GoTo("HS_TIMING") \/ GoTo("SWITCH_FUNC") BY <1>2 DEF Fail
  <2>2. \A s \in {"HS_TIMING", "SWITCH_FUNC"} : GoTo(s) => Onward(s)
    BY <1>2 DEF Onward, Rank
  <2> QED BY <2>1, <2>2 DEF Nearer
<1>3. CASE at \notin {"APP_WIDTH", "SET_WIDTH", "SWITCH_WIDTH"}
  BY <1>1, <1>3, UndoNearer DEF Fail
<1> QED BY <1>2, <1>3

LEMMA ProceedNearer ==
  ASSUME RetryInv, at \in CardCommands, NEW bit, Proceed(cur, bit)
  PROVE  Nearer
<1>1. 3 < Rank(at) /\ at # "PRESENT" BY AfterRank
<1>2. CASE /\ at = "OP_COND" /\ RetryLeft(retry)
           /\ retry' = (retry + 1) % MaxRetry
           /\ GoTo(IF IsEmmc(cur) THEN "OP_COND" ELSE "APP_OP")
  <2>1. retry + 1 < MaxRetry /\ retry + 1 \in Nat
    BY <1>2, WorkFacts DEF RetryLeft, RetryInv
  <2>2. retry' = retry + 1 BY <1>2, <2>1, WorkFacts
  <2> QED BY <1>2, <2>1, <2>2 DEF Nearer, Again
<1>3. CASE retry' = 0 /\ Undo(cur) BY <1>1, <1>3, UndoNearer
<1>4. CASE Undo(cur) /\ UNCHANGED retry BY <1>1, <1>4, UndoNearer
<1>5. CASE GoTo(After(at, cur)) /\ UNCHANGED retry
  BY <1>5, AfterRank, GoToNearer
<1> QED BY <1>2, <1>3, <1>4, <1>5 DEF Proceed

LEMMA CommandNearer ==
  ASSUME RetryInv, Commands PROVE Nearer
<1>1. CASE CommandAnswered(cur)
  BY <1>1, ProceedNearer DEF CommandAnswered
<1>2. CASE AnswerLost(cur)
  BY <1>2, FailNearer DEF AnswerLost
<1>3. CASE CommandLost(cur)
  BY <1>3, FailNearer DEF CommandLost
<1> QED BY <1>1, <1>2, <1>3 DEF Commands

LEMMA InitShrinks ==
  ASSUME Types, RetryInv, InitMsdc PROVE Shrinks
BY InitSteps, QuietNearer, RegulatorNearer, CommandNearer, NearerShrinks

LEMMA HandoffShrinks ==
  ASSUME Types, RetryInv, SkipHandoff \/ HandoffReset \/ HandoffNarrow
  PROVE  Shrinks
<1>1. /\ stage = "handoff" /\ retry' = retry /\ cur \in 0 .. NumberOfHosts - 1
      /\ \/ at = "CMD0" /\ at' = "NARROW" /\ cur' = cur /\ stage' = "handoff"
         \/ /\ at \in {"CMD0", "NARROW"} /\ at' = "CMD0" /\ cur' = cur + 1
            /\ stage' = IF cur' = NumberOfHosts THEN "over" ELSE "handoff"
  BY DEF SkipHandoff, HandoffReset, HandoffNarrow, NextHandoff, GoTo, Types,
         Hosts
<1>2. RetryInv' BY <1>1 DEF RetryInv
<1>3. \/ at = "CMD0" /\ WorkLeft = 2 * (NumberOfHosts - cur) - 0
      \/ at = "NARROW" /\ WorkLeft = 2 * (NumberOfHosts - cur) - 1
  BY <1>1 DEF WorkLeft
<1>4. CASE at' = "NARROW"
  <2>1. WorkLeft' = 2 * (NumberOfHosts - cur) - 1 /\ at = "CMD0"
    BY <1>1, <1>4 DEF WorkLeft
  <2> QED BY <1>1, <1>2, <1>3, <2>1, WorkFacts DEF Shrinks
<1>5. CASE at' = "CMD0"
  <2>1. \/ WorkLeft' = 2 * (NumberOfHosts - (cur + 1)) - 0
        \/ WorkLeft' = 0 /\ cur + 1 = NumberOfHosts
    BY <1>1, <1>5 DEF WorkLeft
  <2> QED BY <1>1, <1>2, <1>3, <2>1, WorkFacts DEF Shrinks
<1> QED BY <1>1, <1>4, <1>5

LEMMA SignalShrinks ==
  ASSUME RetryInv, SignalExitBootServices PROVE Shrinks
<1>1. /\ stage = "ready" /\ stage' = "handoff" /\ cur' = 0 /\ at' = "CMD0"
      /\ retry' = retry
  BY DEF SignalExitBootServices
<1>2. WorkLeft = HandoffSteps + 1 BY <1>1 DEF WorkLeft
<1>3. WorkLeft' = 2 * (NumberOfHosts - 0) - 0 BY <1>1 DEF WorkLeft
<1>4. RetryInv' BY <1>1 DEF RetryInv
<1> QED BY <1>2, <1>3, <1>4, WorkFacts DEF Shrinks, HandoffSteps

LEMMA NextShrinks ==
  ASSUME Types, RetryInv, Next PROVE Shrinks
BY InitShrinks, SignalShrinks, HandoffShrinks DEF Next

LEMMA BringUpSum ==
  ASSUME NEW n \in Nat, NEW l \in Nat, NEW m \in Nat, NEW b,
         n + l <= b, b \in Nat, m < l
  PROVE  n + 1 \in Nat /\ (n + 1) + m <= b
OBVIOUS

(* InitMsdc and the ExitBootServices callback together make at most         *)
(* BringUpSteps steps, 2 * MaxRetry + 26 for a host and two more to hand it *)
(* over, whatever cards, regulators and clocks do: the retry loop is the    *)
(* only one, and nothing that fails sends a host back (the safety half of   *)
(* InitReturns; MsdcDxe.c:1695-1712, 1801-1945).                            *)
THEOREM BringUpBounded == CountSpec => []StepsBounded
<1> DEFINE CountInv == /\ IInv /\ RetryInv /\ steps \in Nat
                       /\ steps + WorkLeft <= BringUpSteps
<1>1. CountInit => CountInv
  <2> SUFFICES ASSUME CountInit PROVE CountInv
    OBVIOUS
  <2>1. IInv /\ Types BY InitInv DEF CountInit, IInv
  <2>2. RetryInv BY WorkFacts DEF CountInit, Init, RetryInv
  <2>3. WorkLeft \in Nat /\ WorkLeft <= BringUpSteps BY <2>1, <2>2, WorkRange
  <2> QED BY <2>1, <2>2, <2>3 DEF CountInit
<1>2. CountInv /\ [Next /\ steps' = steps + 1]_countVars => CountInv'
  <2> SUFFICES ASSUME CountInv, [Next /\ steps' = steps + 1]_countVars
               PROVE  CountInv'
    OBVIOUS
  <2>1. IInv' /\ Types' BY Step DEF countVars, IInv
  <2>2. CASE UNCHANGED countVars
    <3>1. WorkLeft' = WorkLeft /\ RetryInv'
      BY <2>2 DEF countVars, vars, WorkLeft, HostLeft, Retried, RetryInv
    <3> QED BY <2>1, <2>2, <3>1 DEF countVars
  <2>3. CASE Next /\ steps' = steps + 1
    <3>1. Types BY DEF IInv
    <3>2. RetryInv' /\ WorkLeft' < WorkLeft
      BY <2>3, <3>1, NextShrinks DEF Shrinks
    <3>3. WorkLeft \in Nat /\ WorkLeft' \in Nat /\ BringUpSteps \in Nat
      BY <2>1, <3>1, <3>2, WorkRange, WorkRangeNext, WorkFacts, OneHostLess
         DEF BringUpSteps
    <3>4. steps' = steps + 1 BY <2>3
    <3>5. steps' \in Nat /\ steps' + WorkLeft' <= BringUpSteps
      BY <3>2, <3>3, <3>4, BringUpSum
    <3> QED BY <2>1, <3>2, <3>5
  <2> QED BY <2>2, <2>3
<1>3. CountInv => StepsBounded
  <2> SUFFICES ASSUME CountInv PROVE StepsBounded
    OBVIOUS
  <2>1. WorkLeft \in Nat /\ BringUpSteps \in Nat
    BY WorkRange, WorkFacts, OneHostLess DEF IInv, BringUpSteps
  <2> QED BY <2>1 DEF StepsBounded
<1> QED BY <1>1, <1>2, <1>3, PTL DEF CountSpec
=============================================================================
