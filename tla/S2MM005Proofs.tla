---------------------------- MODULE S2MM005Proofs ---------------------------
(***************************************************************************)
(* What holds of the USB-C controller's driver for any connector, any      *)
(* sources, and any number of events and failures.                         *)
(***************************************************************************)
EXTENDS S2MM005, SequenceTheorems, WellFoundedInduction, TLAPS

-----------------------------------------------------------------------------
(* Types *)

Offers   == Sources \union {<<>>}
PdoType  == [fixed : BOOLEAN, mv : Nat, ma : Nat]
Attached == {"none", "sink", "source"}
Policies == {"OTHER", "REQUEST", "SNK_READY", "WAIT_CAPS", "PRS_SRC_SNK_OFF",
             "PRS_SNK_SRC_ON"}
FuncType == [att : Attached, pe : Policies, dfp : BOOLEAN, ma : Nat, reset : BOOLEAN]
RdoType  == [pos : Nat, ma : Nat]
CapsType == [id : Nat, pdo : Offers]
SType    == [vbus : BOOLEAN, role : {"NONE", "HOST", "DEVICE"},
             caps_header : [id : Nat, cnt : Nat], partner : {"none", "pd", "typec"},
             attached : BOOLEAN, pd : BOOLEAN, mv : Nat, ma : Nat]
FwType   == [func : FuncType, dpm : BOOLEAN, want : Nat, rdo : RdoType, caps : CapsType]
PdType   == [offer : Offers, volts : Nat, slow : BOOLEAN, refused : SUBSET Nat,
             plain : BOOLEAN]

Reading  == {"vbus_on", "role", "vbus_off", "request", "caps", "publish"}
UpdatePc == {"func", "reset"} \union Reading
WorkPc   == {"select_func", "request", "caps", "select", "next_state"}

Ops      == {"none", "probe", "irq", "work", "unbind"}
Steps    == {"none", "probe_clear", "probe_dpm", "clear", "unbind_vbus"}
            \union UpdatePc \union WorkPc

HType == [op : Ops, pc : Steps, func : FuncType, rdo : RdoType, caps : CapsType]

TypeOK ==
    /\ s \in SType /\ timer \in Int /\ waiting \in BOOLEAN /\ h \in HType
    /\ fw \in FwType /\ irq \in BOOLEAN /\ pd \in PdType
    /\ events \in Nat /\ faults \in Nat

-----------------------------------------------------------------------------
(* The inductive invariant *)

updating == h.op \in {"irq", "probe"}

\* Who holds the lock is at a step of its own.
Locked ==
    /\ h.op = "none" <=> h.pc = "none"
    /\ h.op = "work" => h.pc \in WorkPc
    /\ h.op = "unbind" <=> h.pc = "unbind_vbus"
    /\ updating => h.pc \in {"probe_clear", "probe_dpm", "clear"} \union UpdatePc

\* A request is under way only with a source that has offered something.
Negotiating ==
    /\ fw.func.pe \in {"REQUEST", "SNK_READY", "WAIT_CAPS"} => fw.func.att = "sink"
    /\ fw.func.pe = "REQUEST" => pd.offer # <<>>

\* The two registers say the same, but for the reset flag.
Same(f, g) == f.att = g.att /\ f.pe = g.pe /\ f.dfp = g.dfp /\ f.ma = g.ma

\* What the driver shows is what the registers say.
Applied ==
    LET now == Supply(fw.func, fw.rdo, fw.caps)
    IN  /\ s.attached = now.attached /\ s.pd = now.pd /\ s.mv = now.mv /\ s.ma = now.ma
        /\ s.role = role(fw.func) /\ s.vbus = vbus(fw.func)
        /\ s.partner = IF ~connected(fw.func) THEN "none" ELSE IF now.pd THEN "pd" ELSE "typec"

\* While nothing has failed, an update has done what it read so far asks for.
Doing ==
    faults = 0 /\ updating =>
        /\ h.pc \in {"role", "vbus_off"} => (vbus(h.func) => s.vbus)
        /\ h.pc \in {"vbus_off", "request", "caps", "publish"} => s.role = role(h.func)
        /\ h.pc \in {"request", "caps", "publish"} => s.vbus = vbus(h.func)

\* While nothing has failed and no interrupt tells of a change, what the update
\* has read is what the registers say, and at its end it has been applied; a
\* firmware that is about to negotiate again is told of first.
Fresh ==
    faults = 0 /\ ~irq =>
        /\ updating /\ h.pc \in Reading \union {"reset"} => Same(h.func, fw.func)
        /\ updating /\ h.pc = "caps" => h.rdo = fw.rdo
        /\ updating /\ h.pc = "publish" /\ attached(h.func) /\ h.func.pe = "SNK_READY" =>
            h.rdo = fw.rdo /\ h.caps = fw.caps
        /\ h.op \in {"none", "work"} /\ fw.func.pe # "WAIT_CAPS" => Applied

\* The partner is registered as what the supply says it is; a driver being
\* unbound has stopped the host.
Partner ==
    /\ s.partner # "none" => s.partner = IF s.pd THEN "pd" ELSE "typec"
    /\ h.pc = "unbind_vbus" => s.role = "NONE"

IInv == TypeOK /\ Locked /\ Negotiating /\ Doing /\ Fresh /\ Partner

\* A position that may be requested: past the offer, the first is taken.
AllowedPos(w, c) == w \in 1..Len(c) => c[w].mv \in SinkVolts \union {5000}

\* A source that came by cable and keeps its offer is asked for allowed
\* voltages only, and the work looks at the offer it is in; without a partner
\* the position is the first, and the work finds nothing to do.
Allowed ==
    /\ pd.plain =>
        /\ pd.volts \in SinkVolts \union {5000}
        /\ fw.func.att = "sink" =>
            /\ AllowedPos(fw.want, pd.offer)
            /\ fw.func.pe # "OTHER" => fw.caps.pdo = pd.offer
            /\ h.op = "work" /\ h.pc \in {"request", "caps"} => fw.func.pe # "OTHER"
            /\ h.pc = "select" => AllowedPos(h.rdo.pos, pd.offer)
    /\ fw.func.att = "none" =>
        /\ fw.want = 1 /\ fw.func.pe = "OTHER"
        /\ h.op = "work" => h.pc = "select_func"

-----------------------------------------------------------------------------
(* s2mm005_best_pdo(): what its loop ends with *)

\* Induction over the natural numbers, for a set.
LEMMA NatSetInduction ==
    ASSUME NEW P, 0 \in P, \A n \in Nat : n \in P => n + 1 \in P
    PROVE  Nat \subseteq P
<1> DEFINE R == OpToRel(<, Nat)
           T == Nat \ P
<1>0. \A a, b \in Nat : a < b => <<a, b>> \in R
  BY DEF OpToRel
<1> HIDE DEF R
<1>1. SUFFICES ASSUME T # {} PROVE FALSE
  OBVIOUS
<1>2. PICK x \in T : \A y \in T : <<y, x>> \notin R
  <2>1. IsWellFoundedOn(R, Nat)
    BY NatLessThanWellFounded DEF R
  <2>2. T \subseteq Nat
    OBVIOUS
  <2> HIDE DEF T
  <2> QED BY <1>1, <2>1, <2>2, WFMin
<1>3. x # 0 /\ x - 1 \in Nat /\ x - 1 < x
  BY <1>2
<1>4. x - 1 \notin T
  BY <1>0, <1>2, <1>3
<1> QED BY <1>3, <1>4, <1>2

\* One turn of the loop, which so far has chosen b.
Step(c, b, i) ==
    LET none == [fixed |-> TRUE, mv |-> 0, ma |-> 0]
    IN  IF usable(c[i]) /\ better(c[i], IF b = 0 THEN none ELSE c[b]) THEN i ELSE b

\* It can be followed for as long as the message has objects.
LEMMA Searchable ==
    ASSUME NEW c, NEW n \in Nat
    PROVE  \E f : f = [i \in 0..n |-> IF i = 0 THEN 0 ELSE Step(c, f[i - 1], i)]
<1> DEFINE P == {m \in Nat : \E f : f = [i \in 0..m |-> IF i = 0 THEN 0 ELSE Step(c, f[i - 1], i)]}
<1>1. 0 \in P
  <2> DEFINE f == [i \in 0..0 |-> 0]
  <2>1. f = [i \in 0..0 |-> IF i = 0 THEN 0 ELSE Step(c, f[i - 1], i)]
    OBVIOUS
  <2> HIDE DEF f
  <2> QED BY <2>1
<1>2. ASSUME NEW m \in Nat, m \in P PROVE m + 1 \in P
  <2>1. PICK f : f = [i \in 0..m |-> IF i = 0 THEN 0 ELSE Step(c, f[i - 1], i)]
    BY <1>2
  <2> DEFINE g == [i \in 0..(m + 1) |-> IF i = m + 1 THEN Step(c, f[m], m + 1) ELSE f[i]]
  <2>2. \A i \in 0..m : g[i] = f[i]
    OBVIOUS
  <2>3. ASSUME NEW i \in 0..(m + 1)
        PROVE  g[i] = IF i = 0 THEN 0 ELSE Step(c, g[i - 1], i)
    <3>1. CASE i = m + 1
      <4>1. m \in 0..m /\ i - 1 = m /\ i # 0
        BY <3>1
      <4>2. g[i] = Step(c, f[m], i) /\ g[i - 1] = f[m]
        BY <2>2, <3>1, <4>1
      <4> HIDE DEF g
      <4> QED BY <4>1, <4>2
    <3>2. CASE i # m + 1
      <4>1. i \in 0..m /\ (i # 0 => i - 1 \in 0..m)
        BY <3>2
      <4>2. f[i] = IF i = 0 THEN 0 ELSE Step(c, f[i - 1], i)
        BY <2>1, <4>1
      <4>3. g[i] = f[i] /\ (i # 0 => g[i - 1] = f[i - 1])
        BY <2>2, <4>1
      <4> HIDE DEF g
      <4> QED BY <4>1, <4>2, <4>3
    <3> QED BY <3>1, <3>2
  <2>4. g = [i \in 0..(m + 1) |-> g[i]]
    OBVIOUS
  <2>5. g = [i \in 0..(m + 1) |-> IF i = 0 THEN 0 ELSE Step(c, g[i - 1], i)]
    <3> HIDE DEF g
    <3> QED BY <2>3, <2>4
  <2> HIDE DEF g
  <2> QED BY <2>5
<1> HIDE DEF P
<1>3. Nat \subseteq P
  BY <1>1, <1>2, NatSetInduction
<1> QED BY <1>3 DEF P

\* Its result is that of the search over all objects.
LEMMA SearchResult ==
    ASSUME NEW c, Len(c) \in Nat
    PROVE  \E f : /\ best_pdo(c) = f[Len(c)] /\ f[0] = 0
                  /\ \A i \in 1..Len(c) : f[i] = Step(c, f[i - 1], i)
<1> DEFINE Search(f) == f = [i \in 0..Len(c) |-> IF i = 0 THEN 0 ELSE Step(c, f[i - 1], i)]
           best == CHOOSE f : Search(f)
<1>1. \E f : Search(f)
  BY Searchable
<1>2. Search(best)
  <2> HIDE DEF Search
  <2> QED BY <1>1
<1>3. best_pdo(c) = best[Len(c)]
  BY DEF best_pdo, Step
<1>4. best[0] = 0 /\ \A i \in 1..Len(c) : best[i] = Step(c, best[i - 1], i)
  <2> HIDE DEF best
  <2>1. \A i \in 0..Len(c) : best[i] = IF i = 0 THEN 0 ELSE Step(c, best[i - 1], i)
    BY <1>2
  <2>2. 0 \in 0..Len(c)
    OBVIOUS
  <2> QED BY <2>1, <2>2
<1> HIDE DEF best
<1> QED BY <1>3, <1>4

\* Powers are natural numbers, and what is better has more power, or the same at
\* a higher voltage.
LEMMA BetterOrder ==
    ASSUME NEW p \in PdoType, NEW q \in PdoType, NEW r \in PdoType
    PROVE  /\ mw(p) \in Nat
           /\ ~better(p, p)
           /\ better(p, q) /\ better(q, r) => better(p, r)
           /\ better(p, q) /\ ~better(r, q) => better(p, r)
           /\ ~better(p, q) /\ better(r, q) => better(r, p)
<1>1. \A x \in PdoType : mw(x) \in Nat
  <2> SUFFICES ASSUME NEW x \in PdoType PROVE mw(x) \in Nat
    OBVIOUS
  <2>1. x.mv \in Nat /\ x.ma \in Nat
    BY DEF PdoType
  <2>2. x.mv * x.ma \in Nat
    BY <2>1
  <2>3. \A n \in Nat : n \div 1000 \in Nat
    OBVIOUS
  <2> QED BY <2>2, <2>3 DEF mw
<1>2. p.mv \in Nat /\ q.mv \in Nat /\ r.mv \in Nat
  BY DEF PdoType
<1>3. mw(p) \in Nat /\ mw(q) \in Nat /\ mw(r) \in Nat
  BY <1>1
<1> QED BY <1>2, <1>3 DEF better

\* s2mm005_best_pdo() returns the position of an object at a voltage the
\* connector takes, or 0.  It is 0 only if there is no such object (with a
\* voltage); else no such object is better, and it is the first of the best.
THEOREM BestPdoCorrect ==
    ASSUME NEW c \in Seq(PdoType)
    PROVE  LET b == best_pdo(c)
           IN  /\ b \in 0..Len(c)
               /\ b # 0 => usable(c[b])
               /\ \A j \in 1..Len(c) : usable(c[j]) /\ c[j].mv > 0 =>
                     /\ b # 0 /\ ~better(c[j], c[b])
                     /\ j < b => better(c[b], c[j])
<1> DEFINE none == [fixed |-> TRUE, mv |-> 0, ma |-> 0]
           Best(f, i) == /\ f[i] \in 0..i
                         /\ f[i] # 0 => usable(c[f[i]]) /\ better(c[f[i]], none)
                         /\ \A j \in 1..i : usable(c[j]) /\ c[j].mv > 0 =>
                               /\ f[i] # 0 /\ ~better(c[j], c[f[i]])
                               /\ j < f[i] => better(c[f[i]], c[j])
<1>1. PICK f : /\ best_pdo(c) = f[Len(c)] /\ f[0] = 0
               /\ \A i \in 1..Len(c) : f[i] = Step(c, f[i - 1], i)
  BY SearchResult
<1>2. Len(c) \in Nat /\ \A i \in 1..Len(c) : c[i] \in PdoType
  OBVIOUS
<1>3. none \in PdoType /\ none.mv = 0 /\ mw(none) = 0
  BY DEF PdoType, mw
<1>4. \A p \in PdoType : p.mv > 0 => better(p, none)
  BY <1>3, BetterOrder DEF better, PdoType
<1> DEFINE P == {i \in Nat : i <= Len(c) => Best(f, i)}
<1> HIDE DEF none
<1>5. 0 \in P
  BY <1>1
<1>6. ASSUME NEW n \in Nat, n \in P, n + 1 <= Len(c) PROVE Best(f, n + 1)
  <2> DEFINE i == n + 1
             b == f[n]
             q == IF b = 0 THEN none ELSE c[b]
  <2>1. i \in 1..Len(c) /\ i - 1 = n /\ Best(f, n) /\ c[i] \in PdoType
    BY <1>2, <1>6
  <2>2. f[i] = IF usable(c[i]) /\ better(c[i], q) THEN i ELSE b
    BY <1>1, <2>1 DEF Step, none
  <2>3. b \in 0..n /\ (b # 0 => c[b] \in PdoType) /\ q \in PdoType
    BY <1>2, <1>3, <2>1
  <2>4. CASE usable(c[i]) /\ better(c[i], q)
    <3>1. f[i] = i /\ i # 0
      BY <2>1, <2>2, <2>4
    <3>2. better(c[i], none)
      BY <2>1, <2>3, <2>4, <1>3, BetterOrder
    <3>3. ASSUME NEW j \in 1..n, usable(c[j]), c[j].mv > 0
          PROVE  better(c[i], c[j]) /\ ~better(c[j], c[i])
      <4>1. b # 0 /\ ~better(c[j], c[b]) /\ c[j] \in PdoType /\ q = c[b]
        BY <1>2, <1>6, <2>1, <3>3
      <4>2. better(c[i], c[b])
        BY <2>4, <4>1
      <4>3. better(c[i], c[j])
        BY <2>1, <2>3, <4>1, <4>2, BetterOrder
      <4>4. ~better(c[j], c[i])
        BY <2>1, <4>1, <4>3, BetterOrder
      <4> QED BY <4>3, <4>4
    <3>4. ~better(c[i], c[i])
      BY <2>1, BetterOrder
    <3> QED BY <2>1, <2>4, <3>1, <3>2, <3>3, <3>4
  <2>5. CASE ~(usable(c[i]) /\ better(c[i], q))
    <3>1. f[i] = b
      BY <2>2, <2>5
    <3>2. usable(c[i]) /\ c[i].mv > 0 => b # 0 /\ ~better(c[i], c[b])
      BY <1>4, <2>1, <2>5
    <3> QED BY <2>1, <2>3, <3>1, <3>2
  <2> QED BY <2>4, <2>5
<1>7. \A n \in Nat : n \in P => n + 1 \in P
  BY <1>2, <1>6
<1> HIDE DEF P
<1>8. Nat \subseteq P
  BY <1>5, <1>7, NatSetInduction
<1>9. Best(f, Len(c))
  BY <1>2, <1>8 DEF P
<1> QED BY <1>1, <1>9

-----------------------------------------------------------------------------
(* Helpers *)

\* What sources offer are sequences of objects.
LEMMA OfferType ==
    ASSUME NEW c \in Offers
    PROVE  /\ c \in Seq(PdoType) /\ Len(c) \in Nat
           /\ \A i \in 1..Len(c) : /\ c[i] \in PdoType /\ c[i].fixed \in BOOLEAN
                                   /\ c[i].mv \in Nat /\ c[i].ma \in Nat
           /\ c # <<>> => Len(c) > 0
<1>1. c \in Seq(PdoType)
  <2>1. CASE c \in Sources
    BY <2>1, PortAssumption DEF PdoType
  <2>2. CASE c = <<>>
    BY <2>2
  <2> QED BY <2>1, <2>2 DEF Offers
<1>2. Len(c) \in Nat /\ \A i \in 1..Len(c) : c[i] \in PdoType
  BY <1>1
<1>3. c # <<>> => Len(c) > 0
  BY <1>1
<1> QED BY <1>1, <1>2, <1>3 DEF PdoType

\* A call changes nothing but the number of failures, and counts its own.
LEMMA CallFaults ==
    ASSUME TypeOK, NEW ok, Call(ok)
    PROVE  /\ ok \in BOOLEAN /\ faults' \in Nat /\ (faults' = 0 => faults = 0 /\ ok)
           /\ (ok => faults' = faults)
  BY DEF TypeOK, Call

\* The values everything begins with.
LEMMA InitialTypes ==
    /\ Func0 \in FuncType /\ NoCaps \in CapsType /\ NoRequest \in RdoType
    /\ Firmware0 \in FwType /\ NoPartner \in PdType /\ ZeroS \in SType /\ Unlocked \in HType
    /\ NoHeader \in [id : Nat, cnt : Nat]
<1>1. Func0 \in FuncType /\ NoCaps \in CapsType /\ NoRequest \in RdoType
      /\ NoHeader \in [id : Nat, cnt : Nat]
  BY 
     DEF Func0, FuncType, Attached, Policies, NoCaps, CapsType, NoRequest, RdoType, NoHeader,
         Offers, 
         S2MM005_DEFAULT_MA
<1>2. Firmware0 \in FwType
  BY <1>1 DEF Firmware0, FwType
<1>3. NoPartner \in PdType
  BY DEF NoPartner, PdType, Offers
<1>4. ZeroS \in SType
  BY <1>1 DEF ZeroS, SType
<1>5. Unlocked \in HType
  BY <1>1 DEF Unlocked, HType, Ops, Steps
<1> QED BY <1>1, <1>2, <1>3, <1>4, <1>5

\* Nobody holds the lock.
LEMMA UnlockedType ==
    Unlocked \in HType /\ Unlocked.op = "none" /\ Unlocked.pc = "none"
  BY InitialTypes DEF Unlocked

\* What an update makes of a state it has read.
LEMMA StateTypes ==
    ASSUME NEW f \in FuncType
    PROVE  /\ source(f) \in BOOLEAN /\ attached(f) \in BOOLEAN /\ connected(f) \in BOOLEAN
           /\ vbus(f) \in BOOLEAN /\ role(f) \in {"NONE", "HOST", "DEVICE"}
<1>1. source(f) \in BOOLEAN /\ attached(f) \in BOOLEAN
  BY PortAssumption DEF source, attached
<1>2. connected(f) \in BOOLEAN /\ vbus(f) \in BOOLEAN
  BY PortAssumption DEF connected, source, attached, vbus
<1>3. role(f) \in {"NONE", "HOST", "DEVICE"}
  BY DEF role
<1> QED BY <1>1, <1>2, <1>3

\* What it makes of the contract.
LEMMA SupplyTypes ==
    ASSUME NEW f \in FuncType, NEW r \in RdoType, NEW c \in CapsType
    PROVE  LET now == Supply(f, r, c)
           IN  /\ now.attached = attached(f) /\ now.attached \in BOOLEAN
               /\ now.pd \in BOOLEAN /\ now.mv \in Nat /\ now.ma \in Nat
               /\ now.pd => attached(f)
<1>1. c.pdo \in Offers /\ r.pos \in Nat /\ r.ma \in Nat /\ f.ma \in Nat
  BY DEF CapsType, RdoType, FuncType
<1>2. \A i \in 1..Len(c.pdo) : c.pdo[i].mv \in Nat
  BY <1>1, OfferType
<1>3. attached(f) \in BOOLEAN
  BY StateTypes
<1>4. contract(r, c) \in BOOLEAN
  BY DEF contract
<1> DEFINE is == attached(f) /\ f.pe = "SNK_READY" /\ contract(r, c)
           mv == IF is THEN c.pdo[r.pos].mv ELSE 5000
           ma == IF is THEN r.ma ELSE IF attached(f) THEN f.ma ELSE S2MM005_DEFAULT_MA
<1>5. is \in BOOLEAN /\ (is => attached(f))
  BY <1>3, <1>4
<1>6. mv \in Nat /\ ma \in Nat
  BY <1>1, <1>2 DEF contract, S2MM005_DEFAULT_MA
<1>7. Supply(f, r, c) = [attached |-> attached(f), pd |-> is, mv |-> mv, ma |-> ma]
  BY DEF Supply
<1> HIDE DEF is, mv, ma
<1> QED BY <1>3, <1>5, <1>6, <1>7

\* The reset flag makes no difference, nor does a contract that is not looked at.
LEMMA SameState ==
    ASSUME NEW f, NEW g, Same(f, g)
    PROVE  /\ source(f) = source(g) /\ attached(f) = attached(g)
           /\ connected(f) = connected(g) /\ vbus(f) = vbus(g) /\ role(f) = role(g)
           /\ \A r, c : Supply(f, r, c) = Supply(g, r, c)
  BY DEF Same, source, attached, connected, vbus, role, Supply

\* Without a contract the supply does not depend on request and capabilities.
LEMMA NoContract ==
    ASSUME NEW f, ~(attached(f) /\ f.pe = "SNK_READY")
    PROVE  \A r, c, q, d : Supply(f, r, c) = Supply(f, q, d)
  BY DEF Supply

\* What is shown and what the registers say stay as they are.
LEMMA SameApplied ==
    ASSUME s' = s, fw'.func = fw.func, fw'.rdo = fw.rdo, fw'.caps = fw.caps
    PROVE  Applied' <=> Applied
<1>1. /\ Supply(fw'.func, fw'.rdo, fw'.caps) = Supply(fw.func, fw.rdo, fw.caps)
      /\ role(fw'.func) = role(fw.func) /\ vbus(fw'.func) = vbus(fw.func)
      /\ connected(fw'.func) = connected(fw.func)
  OBVIOUS
<1> QED BY <1>1 DEF Applied

\* Changes that keep the types.
LEMMA HUpdates ==
    ASSUME NEW x \in HType, NEW pc \in Steps
    PROVE  /\ [x EXCEPT !.pc = pc] \in HType
           /\ \A op \in Ops : [x EXCEPT !.op = op, !.pc = pc] \in HType
           /\ \A f \in FuncType : [x EXCEPT !.func = f, !.pc = pc] \in HType
           /\ \A r \in RdoType : [x EXCEPT !.rdo = r, !.pc = pc] \in HType
           /\ \A c \in CapsType : [x EXCEPT !.caps = c, !.pc = pc] \in HType
           /\ \A n \in Nat : [x EXCEPT !.rdo.pos = n, !.pc = pc] \in HType
<1> USE DEF HType
<1>1. [x EXCEPT !.pc = pc] \in HType /\ \A op \in Ops : [x EXCEPT !.op = op, !.pc = pc] \in HType
  OBVIOUS
<1>2. \A f \in FuncType : [x EXCEPT !.func = f, !.pc = pc] \in HType
  OBVIOUS
<1>3. \A r \in RdoType : [x EXCEPT !.rdo = r, !.pc = pc] \in HType
  OBVIOUS
<1>4. \A c \in CapsType : [x EXCEPT !.caps = c, !.pc = pc] \in HType
  OBVIOUS
<1>5. \A n \in Nat : [x EXCEPT !.rdo.pos = n, !.pc = pc] \in HType
  BY DEF RdoType
<1> QED BY <1>1, <1>2, <1>3, <1>4, <1>5

\* The driver's state keeps its type under the updates of its fields.
LEMMA SUpdates ==
    ASSUME NEW x \in SType
    PROVE  /\ \A b \in BOOLEAN : [x EXCEPT !.vbus = b] \in SType
           /\ \A r \in {"NONE", "HOST", "DEVICE"} : [x EXCEPT !.role = r] \in SType
           /\ \A k \in [id : Nat, cnt : Nat] :
                 /\ [x EXCEPT !.caps_header = k] \in SType
                 /\ \A b \in BOOLEAN : [x EXCEPT !.vbus = b, !.caps_header = k] \in SType
           /\ \A b, d \in BOOLEAN, mv, ma \in Nat, p \in {"none", "pd", "typec"} :
                 [x EXCEPT !.attached = b, !.pd = d, !.mv = mv, !.ma = ma, !.partner = p] \in SType
<1> USE DEF SType
<1>1. \A b \in BOOLEAN : [x EXCEPT !.vbus = b] \in SType
  OBVIOUS
<1>2. \A r \in {"NONE", "HOST", "DEVICE"} : [x EXCEPT !.role = r] \in SType
  OBVIOUS
<1>3. \A k \in [id : Nat, cnt : Nat] : [x EXCEPT !.caps_header = k] \in SType
  OBVIOUS
<1>4. ASSUME NEW k \in [id : Nat, cnt : Nat], NEW b \in BOOLEAN
      PROVE  [x EXCEPT !.vbus = b, !.caps_header = k] \in SType
  OBVIOUS
<1>5. ASSUME NEW b \in BOOLEAN, NEW d \in BOOLEAN, NEW mv \in Nat, NEW ma \in Nat,
             NEW p \in {"none", "pd", "typec"}
      PROVE  [x EXCEPT !.attached = b, !.pd = d, !.mv = mv, !.ma = ma, !.partner = p] \in SType
  OBVIOUS
<1> HIDE DEF SType
<1> QED BY <1>1, <1>2, <1>3, <1>4, <1>5

\* So does the firmware's,
LEMMA FwUpdates ==
    ASSUME NEW x \in FwType
    PROVE  /\ \A b, d \in BOOLEAN : [x EXCEPT !.dpm = b, !.func.reset = d] \in FwType
           /\ \A n \in Nat : [x EXCEPT !.want = n] \in FwType
           /\ \A pe \in Policies : /\ [x EXCEPT !.func.pe = pe] \in FwType
                                   /\ \A c \in CapsType :
                                         [x EXCEPT !.func.pe = pe, !.caps = c] \in FwType
                                   /\ \A r \in RdoType :
                                         [x EXCEPT !.rdo = r, !.func.pe = pe] \in FwType
           /\ \A b \in BOOLEAN : [x EXCEPT !.func.dfp = b] \in FwType
           /\ \A att \in Attached, ma \in Nat :
                 [x EXCEPT !.func.att = att, !.func.ma = ma] \in FwType
           /\ \A att \in Attached, pe \in Policies, ma \in Nat :
                 [x EXCEPT !.func.att = att, !.func.pe = pe, !.func.ma = ma] \in FwType
           /\ \A att \in Attached, pe \in Policies :
                 [x EXCEPT !.func.att = att, !.func.pe = pe] \in FwType
           /\ \A att \in Attached, b \in BOOLEAN :
                 [x EXCEPT !.func.att = att, !.func.dfp = b] \in FwType
           /\ \A f \in FuncType, b \in BOOLEAN, n \in Nat :
                 [x EXCEPT !.func = f, !.dpm = b, !.want = n] \in FwType
<1> USE DEF FwType, FuncType
<1>1. ASSUME NEW b \in BOOLEAN, NEW d \in BOOLEAN
      PROVE  [x EXCEPT !.dpm = b, !.func.reset = d] \in FwType
  OBVIOUS
<1>2. \A n \in Nat : [x EXCEPT !.want = n] \in FwType
  OBVIOUS
<1>3. ASSUME NEW pe \in Policies PROVE [x EXCEPT !.func.pe = pe] \in FwType
  OBVIOUS
<1>4. ASSUME NEW pe \in Policies, NEW c \in CapsType
      PROVE  [x EXCEPT !.func.pe = pe, !.caps = c] \in FwType
  OBVIOUS
<1>5. ASSUME NEW pe \in Policies, NEW r \in RdoType
      PROVE  [x EXCEPT !.rdo = r, !.func.pe = pe] \in FwType
  OBVIOUS
<1>6. \A b \in BOOLEAN : [x EXCEPT !.func.dfp = b] \in FwType
  OBVIOUS
<1>7. ASSUME NEW att \in Attached, NEW ma \in Nat
      PROVE  [x EXCEPT !.func.att = att, !.func.ma = ma] \in FwType
  OBVIOUS
<1>8. ASSUME NEW att \in Attached, NEW pe \in Policies, NEW ma \in Nat
      PROVE  [x EXCEPT !.func.att = att, !.func.pe = pe, !.func.ma = ma] \in FwType
  OBVIOUS
<1>9. ASSUME NEW att \in Attached, NEW pe \in Policies
      PROVE  [x EXCEPT !.func.att = att, !.func.pe = pe] \in FwType
  OBVIOUS
<1>10. ASSUME NEW att \in Attached, NEW b \in BOOLEAN
       PROVE  [x EXCEPT !.func.att = att, !.func.dfp = b] \in FwType
  OBVIOUS
<1>11. ASSUME NEW f \in FuncType, NEW b \in BOOLEAN, NEW n \in Nat
       PROVE  [x EXCEPT !.func = f, !.dpm = b, !.want = n] \in FwType
  OBVIOUS
<1> HIDE DEF FwType, FuncType
<1> QED BY <1>1, <1>2, <1>3, <1>4, <1>5, <1>6, <1>7, <1>8, <1>9, <1>10, <1>11

\* and so does the partner's.
LEMMA PdUpdates ==
    ASSUME NEW x \in PdType
    PROVE  /\ \A c \in Offers : /\ [x EXCEPT !.offer = c] \in PdType
                                /\ \A b \in BOOLEAN : [x EXCEPT !.offer = c, !.plain = b] \in PdType
           /\ \A c \in Offers, R \in SUBSET Nat, b \in BOOLEAN :
                 [x EXCEPT !.offer = c, !.refused = R, !.plain = b] \in PdType
           /\ \A mv \in Nat, b \in BOOLEAN : [x EXCEPT !.volts = mv, !.slow = b] \in PdType
           /\ \A R \in SUBSET Nat, b \in BOOLEAN : [x EXCEPT !.refused = R, !.slow = b] \in PdType
           /\ \A b \in BOOLEAN : [x EXCEPT !.slow = b] \in PdType
<1> USE DEF PdType
<1>1. \A c \in Offers : [x EXCEPT !.offer = c] \in PdType
  OBVIOUS
<1>2. ASSUME NEW c \in Offers, NEW b \in BOOLEAN
      PROVE  [x EXCEPT !.offer = c, !.plain = b] \in PdType
  OBVIOUS
<1>3. ASSUME NEW c \in Offers, NEW R \in SUBSET Nat, NEW b \in BOOLEAN
      PROVE  [x EXCEPT !.offer = c, !.refused = R, !.plain = b] \in PdType
  OBVIOUS
<1>4. ASSUME NEW mv \in Nat, NEW b \in BOOLEAN PROVE [x EXCEPT !.volts = mv, !.slow = b] \in PdType
  OBVIOUS
<1>5. ASSUME NEW R \in SUBSET Nat, NEW b \in BOOLEAN
      PROVE  [x EXCEPT !.refused = R, !.slow = b] \in PdType
  OBVIOUS
<1>6. \A b \in BOOLEAN : [x EXCEPT !.slow = b] \in PdType
  OBVIOUS
<1> HIDE DEF PdType
<1> QED BY <1>1, <1>2, <1>3, <1>4, <1>5, <1>6

\* The driver begins with nothing, in probe(), and perhaps with a source.
LEMMA InvInit == Init => IInv
<1> SUFFICES ASSUME Init PROVE IInv
  OBVIOUS
<1>1. h = Probing /\ h.op = "probe" /\ h.pc = "probe_clear" /\ h \in HType
  <2>1. h = [Unlocked EXCEPT !.op = "probe", !.pc = "probe_clear"]
    BY DEF Init, Probing
  <2> QED BY <2>1, UnlockedType DEF Init, HType, Ops, Steps
<1>2. s \in SType /\ s.partner = "none" /\ s.role = "NONE"
  BY InitialTypes DEF Init, ZeroS
<1>3. fw \in FwType /\ pd \in PdType /\ fw.func.pe = "OTHER"
  <2>1. Firmware0 \in FwType /\ Firmware0.func.pe = "OTHER"
    BY InitialTypes DEF Firmware0, Func0
  <2>2. CASE fw = Firmware0 /\ pd = NoPartner
    BY <2>1, <2>2, InitialTypes
  <2>3. ASSUME NEW ma \in RpLevels, NEW c \in Sources,
               fw = [Firmware0 EXCEPT !.func.att = "sink", !.func.ma = ma],
               pd = [NoPartner EXCEPT !.offer = c]
        PROVE  fw \in FwType /\ pd \in PdType /\ fw.func.pe = "OTHER"
    <3>1. ma \in Nat /\ c \in Offers
      BY PortAssumption DEF Offers
    <3>2. fw \in FwType /\ fw.func.pe = "OTHER"
      BY <2>1, <2>3, <3>1 DEF FwType, FuncType, Attached
    <3>3. pd \in PdType
      BY <2>3, <3>1, InitialTypes DEF PdType
    <3> QED BY <3>2, <3>3
  <2> QED BY <2>2, <2>3 DEF Init
<1>4. TypeOK
  <2>1. waiting \in BOOLEAN /\ irq \in BOOLEAN
    BY Zenon DEF Init
  <2>2. timer = -1 /\ events = 0 /\ faults = 0
    BY Zenon DEF Init
  <2> QED BY <1>1, <1>2, <1>3, <2>1, <2>2 DEF TypeOK
<1>5. Locked /\ Negotiating /\ Partner
  BY <1>1, <1>2, <1>3 DEF Locked, updating, Negotiating, Partner, WorkPc
<1>6. Doing /\ Fresh
  BY <1>1 DEF Doing, Fresh, updating, Reading
<1> QED BY <1>4, <1>5, <1>6 DEF IInv

-----------------------------------------------------------------------------
(* Every action keeps the invariant *)

\* The interrupt is cleared, before the state is read.
LEMMA Inv_probe_clear ==
    ASSUME IInv, probe_clear
    PROVE  IInv'
<1>1. TypeOK'
  <2>1. h' \in HType
    BY HUpdates DEF IInv, TypeOK, Goto, Steps, UpdatePc, Reading, WorkPc, probe_clear
  <2>2. irq' \in BOOLEAN
    BY CallFaults DEF IInv, TypeOK, probe_clear
  <2> QED BY <2>1, <2>2, CallFaults DEF IInv, TypeOK, probe_clear
<1>2. Locked'
  BY CallFaults, UnlockedType DEF IInv, TypeOK, HType, Locked, updating, UpdatePc, Reading,
     WorkPc, probe_clear, Goto
<1>3. Negotiating'
  BY CallFaults, UnlockedType DEF IInv, TypeOK, FwType, FuncType, PdType, Negotiating,
     probe_clear, Goto
<1>4. Partner'
  BY CallFaults, UnlockedType DEF IInv, TypeOK, SType, Locked, updating, Partner,
     probe_clear, Goto
<1>5. Doing'
  BY CallFaults, UnlockedType DEF IInv, TypeOK, SType, HType, Locked, updating, UpdatePc,
     WorkPc, Reading, Doing, probe_clear, Goto
<1>6. Fresh'
  BY CallFaults, UnlockedType DEF IInv, TypeOK, SType, HType, FwType, FuncType, Locked,
     updating, UpdatePc, WorkPc, Reading, Fresh, Same, Doing, Partner, probe_clear, Goto
<1> QED BY <1>1, <1>2, <1>3, <1>4, <1>5, <1>6 DEF IInv

\* The policy manager is started.
LEMMA Inv_probe_dpm ==
    ASSUME IInv, probe_dpm
    PROVE  IInv'
<1>1. TypeOK'
  <2>1. h' \in HType
    BY HUpdates DEF IInv, TypeOK, Goto, Steps, UpdatePc, Reading, WorkPc, probe_dpm
  <2>2. fw.func \in FuncType /\ fw.rdo \in RdoType /\ fw.caps \in CapsType /\ fw.dpm \in BOOLEAN
    BY  DEF IInv, TypeOK, FwType, probe_dpm
  <2>3. fw \in FwType /\ CanSource \in BOOLEAN
    BY PortAssumption DEF IInv, TypeOK
  <2>4. PICK ok \in BOOLEAN : start_dpm(ok)
    BY DEF probe_dpm, Call
  <2>5. PICK reset \in BOOLEAN :
              fw' = [fw EXCEPT !.dpm = @ \/ (ok /\ CanSource), !.func.reset = reset]
    BY <2>4 DEF start_dpm
  <2>6. fw.dpm \/ (ok /\ CanSource) \in BOOLEAN
    BY <2>2, <2>3
  <2>7. fw' \in FwType
    BY <2>3, <2>5, <2>6, FwUpdates, Zenon
  <2> QED BY <2>1, <2>7, CallFaults DEF IInv, TypeOK, probe_dpm
<1>2. Locked'
  BY CallFaults, UnlockedType DEF IInv, TypeOK, HType, Locked, updating, UpdatePc, Reading,
     WorkPc, probe_dpm, start_dpm, Goto
<1>3. Negotiating'
  BY CallFaults, UnlockedType DEF IInv, TypeOK, FwType, FuncType, PdType, Negotiating,
     probe_dpm, start_dpm, Goto
<1>4. Partner'
  BY CallFaults, UnlockedType DEF IInv, TypeOK, SType, Locked, updating, Partner, probe_dpm,
     start_dpm, Goto
<1>5. Doing'
  BY CallFaults, UnlockedType DEF IInv, TypeOK, SType, HType, Locked, updating, UpdatePc,
     WorkPc, Reading, Doing, probe_dpm, start_dpm, Goto
<1>6. Fresh'
  BY CallFaults, UnlockedType DEF IInv, TypeOK, SType, HType, FwType, FuncType, Locked,
     updating, UpdatePc, WorkPc, Reading, Fresh, Same, Doing, Partner, probe_dpm, start_dpm,
     Goto
<1> QED BY <1>1, <1>2, <1>3, <1>4, <1>5, <1>6 DEF IInv

\* The state is read.
LEMMA Inv_update_func ==
    ASSUME IInv, update_func
    PROVE  IInv'
<1>1. TypeOK'
  <2>1. fw.func \in FuncType /\ h \in HType /\ "reset" \in Steps /\ "vbus_on" \in Steps
    BY DEF IInv, TypeOK, FwType, Steps, UpdatePc, Reading
  <2>2. \/ h' = Unlocked
        \/ h' = [h EXCEPT !.func = fw.func, !.pc = "reset"]
        \/ h' = [h EXCEPT !.func = fw.func, !.pc = "vbus_on"]
    BY DEF update_func
  <2>3. /\ [h EXCEPT !.func = fw.func, !.pc = "reset"] \in HType
        /\ [h EXCEPT !.func = fw.func, !.pc = "vbus_on"] \in HType
    BY <2>1, HUpdates, Zenon
  <2>4. h' \in HType
    BY <2>2, <2>3, UnlockedType, Zenon
  <2> QED BY <2>4, CallFaults DEF IInv, TypeOK, update_func
<1>2. Locked'
  BY CallFaults, UnlockedType DEF IInv, TypeOK, HType, Locked, updating, UpdatePc, Reading,
     WorkPc, update_func, Unlocked
<1>3. Negotiating'
  BY CallFaults, UnlockedType DEF IInv, TypeOK, FwType, FuncType, PdType, Negotiating,
     update_func, Unlocked
<1>4. Partner'
  BY CallFaults, UnlockedType DEF IInv, TypeOK, SType, Locked, updating, Partner,
     update_func, Unlocked
<1>5. Doing'
  BY CallFaults, UnlockedType DEF IInv, TypeOK, SType, HType, Locked, updating, UpdatePc,
     WorkPc, Reading, Doing, update_func, Unlocked
<1>6. Fresh'
  BY CallFaults, UnlockedType DEF IInv, TypeOK, SType, HType, FwType, FuncType, Locked,
     updating, UpdatePc, WorkPc, Reading, Fresh, Same, Doing, Partner, update_func, Unlocked
<1> QED BY <1>1, <1>2, <1>3, <1>4, <1>5, <1>6 DEF IInv

\* The firmware had restarted: the policy manager again.
LEMMA Inv_update_reset ==
    ASSUME IInv, update_reset
    PROVE  IInv'
<1>1. TypeOK'
  <2>1. h' \in HType
    BY HUpdates DEF IInv, TypeOK, Goto, Steps, UpdatePc, Reading, WorkPc, update_reset
  <2>2. fw.func \in FuncType /\ fw.rdo \in RdoType /\ fw.caps \in CapsType /\ fw.dpm \in BOOLEAN
    BY  DEF IInv, TypeOK, FwType, update_reset
  <2>3. fw \in FwType /\ CanSource \in BOOLEAN
    BY PortAssumption DEF IInv, TypeOK
  <2>4. PICK ok \in BOOLEAN : start_dpm(ok)
    BY DEF update_reset, Call
  <2>5. PICK reset \in BOOLEAN :
              fw' = [fw EXCEPT !.dpm = @ \/ (ok /\ CanSource), !.func.reset = reset]
    BY <2>4 DEF start_dpm
  <2>6. fw.dpm \/ (ok /\ CanSource) \in BOOLEAN
    BY <2>2, <2>3
  <2>7. fw' \in FwType
    BY <2>3, <2>5, <2>6, FwUpdates, Zenon
  <2> QED BY <2>1, <2>7, CallFaults DEF IInv, TypeOK, update_reset
<1>2. Locked'
  BY CallFaults, UnlockedType DEF IInv, TypeOK, HType, Locked, updating, UpdatePc, Reading,
     WorkPc, update_reset, start_dpm, Goto
<1>3. Negotiating'
  BY CallFaults, UnlockedType DEF IInv, TypeOK, FwType, FuncType, PdType, Negotiating,
     update_reset, start_dpm, Goto
<1>4. Partner'
  BY CallFaults, UnlockedType DEF IInv, TypeOK, SType, Locked, updating, Partner,
     update_reset, start_dpm, Goto
<1>5. Doing'
  BY CallFaults, UnlockedType DEF IInv, TypeOK, SType, HType, Locked, updating, UpdatePc,
     WorkPc, Reading, Doing, update_reset, start_dpm, Goto
<1>6. Fresh'
  BY CallFaults, UnlockedType DEF IInv, TypeOK, SType, HType, FwType, FuncType, Locked,
     updating, UpdatePc, WorkPc, Reading, Fresh, Same, Doing, Partner, update_reset,
     start_dpm, Goto
<1> QED BY <1>1, <1>2, <1>3, <1>4, <1>5, <1>6 DEF IInv

\* VBUS on, where it is due.
LEMMA Inv_update_vbus_on ==
    ASSUME IInv, update_vbus_on
    PROVE  IInv'
<1>1. TypeOK'
  <2>1. h' \in HType
    BY HUpdates DEF IInv, TypeOK, Goto, Steps, UpdatePc, Reading, WorkPc, update_vbus_on
  <2>2. h.func \in FuncType /\ h.rdo \in RdoType /\ h.caps \in CapsType /\ h.rdo.pos \in Nat
    BY  DEF IInv, TypeOK, HType, RdoType, update_vbus_on
  <2>3. s.vbus \in BOOLEAN /\ vbus(h.func) \in BOOLEAN
    BY <2>2, StateTypes DEF IInv, TypeOK, SType, update_vbus_on
  <2>4. s' \in SType
    BY <2>2, <2>3, SUpdates, CallFaults DEF IInv, TypeOK, update_vbus_on
  <2> QED BY <2>1, <2>2, <2>3, <2>4, CallFaults DEF IInv, TypeOK, update_vbus_on
<1>2. Locked'
  BY CallFaults, UnlockedType DEF IInv, TypeOK, HType, Locked, updating, UpdatePc, Reading,
     WorkPc, update_vbus_on, Goto
<1>3. Negotiating'
  BY CallFaults, UnlockedType DEF IInv, TypeOK, FwType, FuncType, PdType, Negotiating,
     update_vbus_on, Goto
<1>4. Partner'
  BY CallFaults, UnlockedType DEF IInv, TypeOK, SType, Locked, updating, Partner,
     update_vbus_on, Goto
<1>5. Doing'
  BY CallFaults, UnlockedType DEF IInv, TypeOK, SType, HType, Locked, updating, UpdatePc,
     WorkPc, Reading, Doing, update_vbus_on, Goto
<1>6. Fresh'
  BY CallFaults, UnlockedType DEF IInv, TypeOK, SType, HType, FwType, FuncType, Locked,
     updating, UpdatePc, WorkPc, Reading, Fresh, Same, Doing, Partner, update_vbus_on, Goto
<1> QED BY <1>1, <1>2, <1>3, <1>4, <1>5, <1>6 DEF IInv

\* The data role.
LEMMA Inv_update_role ==
    ASSUME IInv, update_role
    PROVE  IInv'
<1>1. TypeOK'
  <2>1. h' \in HType
    BY HUpdates DEF IInv, TypeOK, Goto, Steps, UpdatePc, Reading, WorkPc, update_role
  <2>2. h.func \in FuncType /\ h.rdo \in RdoType /\ h.caps \in CapsType /\ h.rdo.pos \in Nat
    BY  DEF IInv, TypeOK, HType, RdoType, update_role
  <2>3. role(h.func) \in {"NONE", "HOST", "DEVICE"}
    BY <2>2, StateTypes DEF IInv, TypeOK, update_role
  <2>4. s' \in SType
    BY <2>2, <2>3, SUpdates, CallFaults DEF IInv, TypeOK, update_role
  <2> QED BY <2>1, <2>2, <2>3, <2>4, CallFaults DEF IInv, TypeOK, update_role
<1>2. Locked'
  BY CallFaults, UnlockedType DEF IInv, TypeOK, HType, Locked, updating, UpdatePc, Reading,
     WorkPc, update_role, Goto
<1>3. Negotiating'
  BY CallFaults, UnlockedType DEF IInv, TypeOK, FwType, FuncType, PdType, Negotiating,
     update_role, Goto
<1>4. Partner'
  BY CallFaults, UnlockedType DEF IInv, TypeOK, SType, Locked, updating, Partner,
     update_role, Goto
<1>5. Doing'
  BY CallFaults, UnlockedType DEF IInv, TypeOK, SType, HType, Locked, updating, UpdatePc,
     WorkPc, Reading, Doing, update_role, Goto
<1>6. Fresh'
  BY CallFaults, UnlockedType DEF IInv, TypeOK, SType, HType, FwType, FuncType, Locked,
     updating, UpdatePc, WorkPc, Reading, Fresh, Same, Doing, Partner, update_role, Goto
<1> QED BY <1>1, <1>2, <1>3, <1>4, <1>5, <1>6 DEF IInv

\* VBUS off, where it is not due.
LEMMA Inv_update_vbus_off ==
    ASSUME IInv, update_vbus_off
    PROVE  IInv'
<1>1. TypeOK'
  <2>1. h \in HType /\ h.func \in FuncType /\ s \in SType /\ s.vbus \in BOOLEAN
        /\ s.caps_header \in [id : Nat, cnt : Nat] /\ "request" \in Steps /\ "publish" \in Steps
    BY DEF IInv, TypeOK, HType, SType, Steps, UpdatePc, Reading
  <2>2. PICK ok \in BOOLEAN :
           s' = [s EXCEPT !.vbus = @ /\ (vbus(h.func) \/ ~ok),
                          !.caps_header = IF attached(h.func) THEN @ ELSE NoHeader]
    BY DEF update_vbus_off
  <2> DEFINE b == s.vbus /\ (vbus(h.func) \/ ~ok)
             k == IF attached(h.func) THEN s.caps_header ELSE NoHeader
  <2>3. s' = [s EXCEPT !.vbus = b, !.caps_header = k]
    BY <2>2
  <2>4. b \in BOOLEAN /\ k \in [id : Nat, cnt : Nat]
    BY <2>1, StateTypes, InitialTypes
  <2> HIDE DEF b, k
  <2>5. s' \in SType
    BY <2>1, <2>3, <2>4, SUpdates, Zenon
  <2>6. h' = [h EXCEPT !.pc = "request"] \/ h' = [h EXCEPT !.pc = "publish"]
    BY DEF update_vbus_off, Goto
  <2>7. h' \in HType
    <3>1. [h EXCEPT !.pc = "request"] \in HType /\ [h EXCEPT !.pc = "publish"] \in HType
      BY <2>1, HUpdates, Zenon
    <3> QED BY <2>6, <3>1, Zenon
  <2>8. timer' \in Int
    BY DEF IInv, TypeOK, update_vbus_off
  <2> QED BY <2>5, <2>7, <2>8, CallFaults DEF IInv, TypeOK, update_vbus_off
<1>2. Locked'
  BY CallFaults, UnlockedType DEF IInv, TypeOK, HType, Locked, updating, UpdatePc, Reading,
     WorkPc, update_vbus_off, Goto
<1>3. Negotiating'
  BY CallFaults, UnlockedType DEF IInv, TypeOK, FwType, FuncType, PdType, Negotiating,
     update_vbus_off, Goto
<1>4. Partner'
  BY CallFaults, UnlockedType DEF IInv, TypeOK, SType, Locked, updating, Partner,
     update_vbus_off, Goto
<1>5. Doing'
  <2>1. PICK ok \in BOOLEAN :
           /\ Call(ok)
           /\ s' = [s EXCEPT !.vbus = @ /\ (vbus(h.func) \/ ~ok),
                             !.caps_header = IF attached(h.func) THEN @ ELSE NoHeader]
    BY DEF update_vbus_off
  <2>2. /\ h.pc = "vbus_off" /\ h'.op = h.op /\ h'.func = h.func /\ s'.role = s.role
        /\ h'.pc \in {"request", "publish"}
    BY <2>1 DEF IInv, TypeOK, HType, SType, update_vbus_off, Goto
  <2>3. /\ s.vbus \in BOOLEAN /\ vbus(h.func) \in BOOLEAN /\ (faults' = 0 => faults = 0 /\ ok)
        /\ s'.vbus = (s.vbus /\ (vbus(h.func) \/ ~ok))
    <3>1. s \in SType /\ h.func \in FuncType
      BY DEF IInv, TypeOK, HType
    <3> QED BY <2>1, <3>1, StateTypes, CallFaults DEF IInv, SType
  <2>4. ASSUME faults' = 0, updating'
        PROVE  s.role = role(h.func) /\ (vbus(h.func) => s.vbus)
    BY <2>2, <2>3, <2>4 DEF IInv, Doing, updating
  <2>5. vbus(h'.func) = vbus(h.func) /\ role(h'.func) = role(h.func)
    BY <2>2
  <2> QED BY <2>2, <2>3, <2>4, <2>5 DEF Doing
<1>6. Fresh'
  BY CallFaults, UnlockedType DEF IInv, TypeOK, SType, HType, FwType, FuncType, Locked,
     updating, UpdatePc, WorkPc, Reading, Fresh, Same, Doing, Partner, update_vbus_off, Goto
<1> QED BY <1>1, <1>2, <1>3, <1>4, <1>5, <1>6 DEF IInv

\* The request is read, by an update or the work.
LEMMA Inv_read_caps_request ==
    ASSUME IInv, read_caps_request
    PROVE  IInv'
<1>1. TypeOK'
  <2>1. fw.rdo \in RdoType /\ h \in HType /\ "caps" \in Steps /\ "publish" \in Steps
    BY DEF IInv, TypeOK, FwType, Steps, UpdatePc, Reading
  <2>2. \/ h' = Unlocked
        \/ h' = [h EXCEPT !.rdo = fw.rdo, !.pc = "caps"]
        \/ h' = [h EXCEPT !.pc = "publish"]
    BY DEF read_caps_request
  <2>3. [h EXCEPT !.rdo = fw.rdo, !.pc = "caps"] \in HType /\ [h EXCEPT !.pc = "publish"] \in HType
    BY <2>1, HUpdates, Zenon
  <2>4. h' \in HType
    BY <2>2, <2>3, UnlockedType, Zenon
  <2> QED BY <2>4, CallFaults DEF IInv, TypeOK, read_caps_request
<1>2. Locked'
  BY CallFaults, UnlockedType DEF IInv, TypeOK, HType, Locked, updating, UpdatePc, Reading,
     WorkPc, read_caps_request, Unlocked
<1>3. Negotiating'
  BY CallFaults, UnlockedType DEF IInv, TypeOK, FwType, FuncType, PdType, Negotiating,
     read_caps_request, Unlocked
<1>4. Partner'
  BY CallFaults, UnlockedType DEF IInv, TypeOK, SType, Locked, updating, Partner,
     read_caps_request, Unlocked
<1>5. Doing'
  BY CallFaults, UnlockedType DEF IInv, TypeOK, SType, HType, Locked, updating, UpdatePc,
     WorkPc, Reading, Doing, read_caps_request, Unlocked
<1>6. Fresh'
  <2>1. Applied' <=> Applied
    BY SameApplied DEF read_caps_request
  <2> QED BY <2>1, CallFaults, UnlockedType DEF IInv, TypeOK, HType, Locked, updating,
         UpdatePc, WorkPc, Reading, Fresh, Same, read_caps_request, Unlocked
<1> QED BY <1>1, <1>2, <1>3, <1>4, <1>5, <1>6 DEF IInv

\* An update reads the capabilities.
LEMMA Inv_update_caps ==
    ASSUME IInv, update_caps
    PROVE  IInv'
<1>1. TypeOK'
  <2>1. fw.caps \in CapsType /\ NoCaps \in CapsType /\ h \in HType
        /\ s \in SType /\ "publish" \in Steps
    BY InitialTypes DEF IInv, TypeOK, FwType, Steps, UpdatePc, Reading
  <2>2. \/ h' = [h EXCEPT !.caps = NoCaps, !.pc = "publish"]
        \/ h' = [h EXCEPT !.caps = fw.caps, !.pc = "publish"]
    BY DEF update_caps
  <2>3. /\ [h EXCEPT !.caps = NoCaps, !.pc = "publish"] \in HType
        /\ [h EXCEPT !.caps = fw.caps, !.pc = "publish"] \in HType
    BY <2>1, HUpdates, Zenon
  <2>4. h' \in HType
    BY <2>2, <2>3, Zenon
  <2>5. header(fw.caps) \in [id : Nat, cnt : Nat]
    BY <2>1, OfferType DEF header, CapsType
  <2>6. s' = s \/ s' = [s EXCEPT !.caps_header = header(fw.caps)]
    BY DEF update_caps
  <2>7. s' \in SType
    BY <2>1, <2>5, <2>6, SUpdates, Zenon
  <2>8. timer' \in Int
    BY DEF IInv, TypeOK, update_caps, S2MM005_SELECT_DELAY
  <2> QED BY <2>4, <2>7, <2>8, CallFaults DEF IInv, TypeOK, update_caps
<1>2. Locked'
  BY CallFaults, UnlockedType DEF IInv, TypeOK, HType, Locked, updating, UpdatePc, Reading,
     WorkPc, update_caps
<1>3. Negotiating'
  BY CallFaults, UnlockedType DEF IInv, TypeOK, FwType, FuncType, PdType, Negotiating,
     update_caps
<1>4. Partner'
  BY CallFaults, UnlockedType DEF IInv, TypeOK, SType, Locked, updating, Partner,
     update_caps
<1>5. Doing'
  BY CallFaults, UnlockedType DEF IInv, TypeOK, SType, HType, Locked, updating, UpdatePc,
     WorkPc, Reading, Doing, update_caps
<1>6. Fresh'
  BY CallFaults, UnlockedType DEF IInv, TypeOK, SType, HType, FwType, FuncType, Locked,
     updating, UpdatePc, WorkPc, Reading, Fresh, Same, Doing, Partner, update_caps
<1> QED BY <1>1, <1>2, <1>3, <1>4, <1>5, <1>6 DEF IInv

\* An update ends, with partner and supply.
LEMMA Inv_update_publish ==
    ASSUME IInv, update_publish
    PROVE  IInv'
<1>1. TypeOK'
  <2>1. h.func \in FuncType /\ h.rdo \in RdoType /\ h.caps \in CapsType /\ s \in SType
        /\ s.partner \in {"none", "pd", "typec"}
    BY DEF IInv, TypeOK, HType, SType
  <2> DEFINE now == Supply(h.func, h.rdo, h.caps)
             keep == s.partner # "none" /\ now.pd = s.pd
  <2>2. now.attached \in BOOLEAN /\ now.pd \in BOOLEAN /\ now.mv \in Nat /\ now.ma \in Nat
    BY <2>1, SupplyTypes
  <2>3. PICK ok \in BOOLEAN :
           s' = [s EXCEPT !.attached = now.attached, !.pd = now.pd, !.mv = now.mv,
                          !.ma = now.ma,
                          !.partner = IF ~connected(h.func) \/ ~ok THEN "none"
                                      ELSE IF keep THEN @
                                      ELSE IF now.pd THEN "pd" ELSE "typec"]
    BY DEF update_publish
  <2> DEFINE p == IF ~connected(h.func) \/ ~ok THEN "none" ELSE IF keep THEN s.partner
                  ELSE IF now.pd THEN "pd" ELSE "typec"
  <2>4. p \in {"none", "pd", "typec"}
    BY <2>1
  <2>5. s' = [s EXCEPT !.attached = now.attached, !.pd = now.pd, !.mv = now.mv,
                       !.ma = now.ma, !.partner = p]
    BY <2>3
  <2> HIDE DEF p, now
  <2>6. s' \in SType
    BY <2>1, <2>2, <2>4, <2>5 DEF SType
  <2> QED BY <2>6, UnlockedType, CallFaults DEF IInv, TypeOK, update_publish
<1>2. Locked'
  BY CallFaults, UnlockedType DEF IInv, TypeOK, HType, Locked, updating, UpdatePc, Reading,
     WorkPc, update_publish, Unlocked
<1>3. Negotiating'
  BY CallFaults, UnlockedType DEF IInv, TypeOK, FwType, FuncType, PdType, Negotiating,
     update_publish, Unlocked
<1>4. Partner'
  BY CallFaults, UnlockedType DEF IInv, TypeOK, SType, Locked, updating, Partner,
     update_publish, Unlocked
<1>5. Doing'
  BY CallFaults, UnlockedType DEF IInv, TypeOK, SType, HType, Locked, updating, UpdatePc,
     WorkPc, Reading, Doing, update_publish, Unlocked
<1>6. Fresh'
  <2> SUFFICES ASSUME faults' = 0, ~irq' PROVE Applied'
    BY UnlockedType DEF update_publish, Fresh, updating
  <2> DEFINE now == Supply(h.func, h.rdo, h.caps)
             keep == s.partner # "none" /\ now.pd = s.pd
  <2>1. PICK ok \in BOOLEAN :
           /\ Call(ok)
           /\ s' = [s EXCEPT !.attached = now.attached, !.pd = now.pd, !.mv = now.mv,
                             !.ma = now.ma,
                             !.partner = IF ~connected(h.func) \/ ~ok THEN "none"
                                         ELSE IF keep THEN @
                                         ELSE IF now.pd THEN "pd" ELSE "typec"]
    BY DEF update_publish
  <2>2. ok /\ faults = 0 /\ ~irq /\ fw' = fw /\ h.pc = "publish"
    BY <2>1, CallFaults DEF IInv, update_publish
  <2>3. updating
    BY <2>2 DEF IInv, TypeOK, HType, Ops, Locked, updating, WorkPc
  <2>4. s.role = role(h.func) /\ s.vbus = vbus(h.func)
    BY <2>2, <2>3 DEF IInv, Doing
  <2>5. /\ Same(h.func, fw.func)
        /\ attached(h.func) /\ h.func.pe = "SNK_READY" => h.rdo = fw.rdo /\ h.caps = fw.caps
    BY <2>2, <2>3 DEF IInv, Fresh, Reading
  <2>6. now = Supply(h.func, fw.rdo, fw.caps)
    BY <2>5, NoContract
  <2>7. now = Supply(fw.func, fw.rdo, fw.caps)
    BY <2>5, <2>6, SameState
  <2>8. role(h.func) = role(fw.func) /\ vbus(h.func) = vbus(fw.func)
        /\ connected(h.func) = connected(fw.func)
    BY <2>5, SameState
  <2> HIDE DEF now
  <2>9. /\ s'.attached = now.attached /\ s'.pd = now.pd /\ s'.mv = now.mv /\ s'.ma = now.ma
        /\ s'.role = s.role /\ s'.vbus = s.vbus
        /\ s'.partner = IF ~connected(h.func) THEN "none"
                        ELSE IF keep THEN s.partner ELSE IF now.pd THEN "pd" ELSE "typec"
    BY <2>1, <2>2 DEF IInv, TypeOK, SType
  <2>10. s'.partner = IF ~connected(fw.func) THEN "none" ELSE IF now.pd THEN "pd" ELSE "typec"
    BY <2>8, <2>9 DEF IInv, Partner
  <2> QED BY <2>2, <2>4, <2>7, <2>8, <2>9, <2>10 DEF Applied
<1> QED BY <1>1, <1>2, <1>3, <1>4, <1>5, <1>6 DEF IInv

\* The interrupt thread gets the lock.
LEMMA Inv_irq_status ==
    ASSUME IInv, irq_status
    PROVE  IInv'
<1>1. TypeOK'
  <2>1. Unlocked \in HType /\ "irq" \in Ops /\ "clear" \in Steps /\ h \in HType
    BY UnlockedType DEF IInv, TypeOK, Ops, Steps
  <2>2. h' = h \/ h' = [Unlocked EXCEPT !.op = "irq", !.pc = "clear"]
    BY DEF irq_status
  <2>3. [Unlocked EXCEPT !.op = "irq", !.pc = "clear"] \in HType
    BY <2>1, HUpdates, Zenon
  <2>4. h' \in HType
    BY <2>1, <2>2, <2>3, Zenon
  <2> QED BY <2>4, CallFaults DEF IInv, TypeOK, irq_status
<1>2. Locked'
  BY CallFaults, UnlockedType DEF IInv, TypeOK, HType, Locked, updating, UpdatePc, Reading,
     WorkPc, irq_status, Unlocked
<1>3. Negotiating'
  BY CallFaults, UnlockedType DEF IInv, TypeOK, FwType, FuncType, PdType, Negotiating,
     irq_status, Unlocked
<1>4. Partner'
  BY CallFaults, UnlockedType DEF IInv, TypeOK, SType, Locked, updating, Partner,
     irq_status, Unlocked
<1>5. Doing'
  BY CallFaults, UnlockedType DEF IInv, TypeOK, SType, HType, Locked, updating, UpdatePc,
     WorkPc, Reading, Doing, irq_status, Unlocked
<1>6. Fresh'
  BY CallFaults, UnlockedType DEF IInv, TypeOK, SType, HType, FwType, FuncType, Locked,
     updating, UpdatePc, WorkPc, Reading, Fresh, Same, Doing, Partner, irq_status, Unlocked
<1> QED BY <1>1, <1>2, <1>3, <1>4, <1>5, <1>6 DEF IInv

\* The interrupt is cleared, before the state is read.
LEMMA Inv_irq_clear ==
    ASSUME IInv, irq_clear
    PROVE  IInv'
<1>1. TypeOK'
  <2>1. h' \in HType
    BY HUpdates DEF IInv, TypeOK, Goto, Steps, UpdatePc, Reading, WorkPc, irq_clear
  <2>2. irq' \in BOOLEAN
    BY CallFaults DEF IInv, TypeOK, irq_clear
  <2> QED BY <2>1, <2>2, CallFaults DEF IInv, TypeOK, irq_clear
<1>2. Locked'
  BY CallFaults, UnlockedType DEF IInv, TypeOK, HType, Locked, updating, UpdatePc, Reading,
     WorkPc, irq_clear, Goto
<1>3. Negotiating'
  BY CallFaults, UnlockedType DEF IInv, TypeOK, FwType, FuncType, PdType, Negotiating,
     irq_clear, Goto
<1>4. Partner'
  BY CallFaults, UnlockedType DEF IInv, TypeOK, SType, Locked, updating, Partner, irq_clear,
     Goto
<1>5. Doing'
  BY CallFaults, UnlockedType DEF IInv, TypeOK, SType, HType, Locked, updating, UpdatePc,
     WorkPc, Reading, Doing, irq_clear, Goto
<1>6. Fresh'
  BY CallFaults, UnlockedType DEF IInv, TypeOK, SType, HType, FwType, FuncType, Locked,
     updating, UpdatePc, WorkPc, Reading, Fresh, Same, Doing, Partner, irq_clear, Goto
<1> QED BY <1>1, <1>2, <1>3, <1>4, <1>5, <1>6 DEF IInv

\* The work is due.
LEMMA Inv_select_run ==
    ASSUME IInv, select_run
    PROVE  IInv'
<1>1. TypeOK'
  BY UnlockedType DEF IInv, TypeOK, HType, select_run
<1>2. Locked'
  BY UnlockedType DEF IInv, TypeOK, HType, Locked, updating, UpdatePc, Reading, WorkPc,
     select_run
<1>3. Negotiating'
  BY UnlockedType DEF IInv, TypeOK, FwType, FuncType, PdType, Negotiating, select_run
<1>4. Partner'
  BY UnlockedType DEF IInv, TypeOK, SType, Locked, updating, Partner, select_run
<1>5. Doing'
  BY UnlockedType DEF IInv, TypeOK, SType, HType, Locked, updating, UpdatePc, WorkPc,
     Reading, Doing, select_run
<1>6. Fresh'
  <2>1. Applied' <=> Applied
    BY SameApplied DEF select_run
  <2> QED BY <2>1, UnlockedType DEF IInv, TypeOK, HType, Locked, updating,
         UpdatePc, WorkPc, Reading, Fresh, Same, select_run, Unlocked
<1> QED BY <1>1, <1>2, <1>3, <1>4, <1>5, <1>6 DEF IInv

\* The work gets the lock.
LEMMA Inv_select_lock ==
    ASSUME IInv, select_lock
    PROVE  IInv'
<1>1. TypeOK'
  <2>1. h' \in HType
    BY HUpdates, UnlockedType DEF IInv, TypeOK, Ops, Steps, UpdatePc, Reading, WorkPc,
       select_lock
  <2> QED BY <2>1 DEF IInv, TypeOK, select_lock
<1>2. Locked'
  BY UnlockedType DEF IInv, TypeOK, HType, Locked, updating, UpdatePc, Reading, WorkPc,
     select_lock, Unlocked
<1>3. Negotiating'
  BY UnlockedType DEF IInv, TypeOK, FwType, FuncType, PdType, Negotiating, select_lock,
     Unlocked
<1>4. Partner'
  BY UnlockedType DEF IInv, TypeOK, SType, Locked, updating, Partner, select_lock, Unlocked
<1>5. Doing'
  BY UnlockedType DEF IInv, TypeOK, SType, HType, Locked, updating, UpdatePc, WorkPc,
     Reading, Doing, select_lock, Unlocked
<1>6. Fresh'
  <2>1. Applied' <=> Applied
    BY SameApplied DEF select_lock
  <2> QED BY <2>1, UnlockedType DEF IInv, TypeOK, HType, Locked, updating,
         UpdatePc, WorkPc, Reading, Fresh, Same, select_lock, Unlocked
<1> QED BY <1>1, <1>2, <1>3, <1>4, <1>5, <1>6 DEF IInv

\* The work reads the state.
LEMMA Inv_select_func ==
    ASSUME IInv, select_func
    PROVE  IInv'
<1>1. TypeOK'
  <2>1. h' = Unlocked \/ h' = [h EXCEPT !.pc = "request"]
    BY  DEF IInv, select_func
  <2>2. h' \in HType
    <3>1. h \in HType /\ "request" \in Steps
      BY DEF IInv, TypeOK, Steps, WorkPc
    <3>2. [h EXCEPT !.pc = "request"] \in HType
      BY <3>1, HUpdates
    <3> QED BY <2>1, <3>2, UnlockedType
  <2> QED BY <2>1, <2>2, CallFaults DEF IInv, TypeOK, select_func
<1>2. Locked'
  BY CallFaults, UnlockedType DEF IInv, TypeOK, HType, Locked, updating, UpdatePc, Reading,
     WorkPc, select_func, Unlocked
<1>3. Negotiating'
  BY CallFaults, UnlockedType DEF IInv, TypeOK, FwType, FuncType, PdType, Negotiating,
     select_func, Unlocked
<1>4. Partner'
  BY CallFaults, UnlockedType DEF IInv, TypeOK, SType, Locked, updating, Partner,
     select_func, Unlocked
<1>5. Doing'
  BY CallFaults, UnlockedType DEF IInv, TypeOK, SType, HType, Locked, updating, UpdatePc,
     WorkPc, Reading, Doing, select_func, Unlocked
<1>6. Fresh'
  <2>1. h.op = "work" /\ h'.op \in {"none", "work"} /\ UNCHANGED <<s, fw, irq>>
    BY UnlockedType DEF IInv, TypeOK, HType, Ops, Locked, updating, UpdatePc, Reading, select_func
  <2>2. Applied' <=> Applied
    BY <2>1, SameApplied
  <2> QED BY <2>1, <2>2, CallFaults DEF IInv, Fresh, updating, select_func
<1> QED BY <1>1, <1>2, <1>3, <1>4, <1>5, <1>6 DEF IInv

\* The work reads the capabilities and chooses.
LEMMA Inv_select_caps ==
    ASSUME IInv, select_caps
    PROVE  IInv'
<1>1. TypeOK'
  <2>1. h \in HType /\ fw.caps.pdo \in Offers /\ "select" \in Steps
    BY DEF IInv, TypeOK, FwType, CapsType, Steps, WorkPc
  <2>2. best_pdo(fw.caps.pdo) \in Nat
    BY <2>1, OfferType, BestPdoCorrect
  <2>3. h' = Unlocked \/ h' = [h EXCEPT !.rdo.pos = best_pdo(fw.caps.pdo), !.pc = "select"]
    BY DEF select_caps
  <2>4. [h EXCEPT !.rdo.pos = best_pdo(fw.caps.pdo), !.pc = "select"] \in HType
    BY <2>1, <2>2, HUpdates, Zenon
  <2>5. h' \in HType
    BY <2>3, <2>4, UnlockedType, Zenon
  <2> QED BY <2>5, CallFaults DEF IInv, TypeOK, select_caps
<1>2. Locked'
  BY CallFaults, UnlockedType DEF IInv, TypeOK, HType, Locked, updating, UpdatePc, Reading,
     WorkPc, select_caps, Unlocked
<1>3. Negotiating'
  BY CallFaults, UnlockedType DEF IInv, TypeOK, FwType, FuncType, PdType, Negotiating,
     select_caps, Unlocked
<1>4. Partner'
  BY CallFaults, UnlockedType DEF IInv, TypeOK, SType, Locked, updating, Partner,
     select_caps, Unlocked
<1>5. Doing'
  BY CallFaults, UnlockedType DEF IInv, TypeOK, SType, HType, Locked, updating, UpdatePc,
     WorkPc, Reading, Doing, select_caps, Unlocked
<1>6. Fresh'
  <2>1. Applied' <=> Applied
    BY SameApplied DEF select_caps
  <2> QED BY <2>1, CallFaults, UnlockedType DEF IInv, TypeOK, HType, Locked, updating,
         UpdatePc, WorkPc, Reading, Fresh, Same, select_caps, Unlocked
<1> QED BY <1>1, <1>2, <1>3, <1>4, <1>5, <1>6 DEF IInv

\* The work sets the position.
LEMMA Inv_select_pdo ==
    ASSUME IInv, select_pdo
    PROVE  IInv'
<1>1. TypeOK'
  <2>1. h' \in HType
    BY HUpdates DEF IInv, TypeOK, Goto, Steps, UpdatePc, Reading, WorkPc, select_pdo
  <2>2. h.func \in FuncType /\ h.rdo \in RdoType /\ h.caps \in CapsType /\ h.rdo.pos \in Nat
    BY  DEF IInv, TypeOK, HType, RdoType, select_pdo
  <2>3. fw' \in FwType
    <3>1. fw \in FwType /\ (fw' = fw \/ fw' = [fw EXCEPT !.want = h.rdo.pos])
      BY DEF IInv, TypeOK, select_pdo
    <3>2. [fw EXCEPT !.want = h.rdo.pos] \in FwType
      BY <2>2, <3>1, FwUpdates, Zenon
    <3> QED BY <3>1, <3>2
  <2> QED BY <2>1, <2>2, <2>3, CallFaults DEF IInv, TypeOK, select_pdo
<1>2. Locked'
  BY CallFaults, UnlockedType DEF IInv, TypeOK, HType, Locked, updating, UpdatePc, Reading,
     WorkPc, select_pdo, Goto
<1>3. Negotiating'
  BY CallFaults, UnlockedType DEF IInv, TypeOK, FwType, FuncType, PdType, Negotiating,
     select_pdo, Goto
<1>4. Partner'
  BY CallFaults, UnlockedType DEF IInv, TypeOK, SType, Locked, updating, Partner,
     select_pdo, Goto
<1>5. Doing'
  BY CallFaults, UnlockedType DEF IInv, TypeOK, SType, HType, Locked, updating, UpdatePc,
     WorkPc, Reading, Doing, select_pdo, Goto
<1>6. Fresh'
  <2>1. /\ fw'.func = fw.func /\ fw'.rdo = fw.rdo /\ fw'.caps = fw.caps
        /\ UNCHANGED <<s, irq>> /\ h.op = "work" /\ h'.op = "work"
    BY DEF IInv, TypeOK, HType, Ops, FwType, Locked, updating, UpdatePc, Reading, select_pdo, Goto
  <2>2. Applied' <=> Applied
    BY <2>1, SameApplied
  <2> QED BY <2>1, <2>2, CallFaults DEF IInv, Fresh, updating, select_pdo
<1> QED BY <1>1, <1>2, <1>3, <1>4, <1>5, <1>6 DEF IInv

\* The work sends the firmware back for capabilities.
LEMMA Inv_select_next_state ==
    ASSUME IInv, select_next_state
    PROVE  IInv'
<1>1. TypeOK'
  <2>1. h' \in HType
    BY UnlockedType DEF IInv, TypeOK, select_next_state
  <2>2. fw' \in FwType
    BY FwUpdates DEF IInv, TypeOK, Policies, select_next_state
  <2> QED BY <2>1, <2>2, CallFaults DEF IInv, TypeOK, select_next_state
<1>2. Locked'
  BY CallFaults, UnlockedType DEF IInv, TypeOK, HType, Locked, updating, UpdatePc, Reading,
     WorkPc, select_next_state, Unlocked
<1>3. Negotiating'
  BY CallFaults, UnlockedType DEF IInv, TypeOK, FwType, FuncType, PdType, Negotiating,
     select_next_state, Unlocked
<1>4. Partner'
  BY CallFaults, UnlockedType DEF IInv, TypeOK, SType, Locked, updating, Partner,
     select_next_state, Unlocked
<1>5. Doing'
  BY CallFaults, UnlockedType DEF IInv, TypeOK, SType, HType, Locked, updating, UpdatePc,
     WorkPc, Reading, Doing, select_next_state, Unlocked
<1>6. Fresh'
  <2>1. fw' = fw \/ fw'.func.pe = "WAIT_CAPS"
    BY DEF IInv, TypeOK, FwType, FuncType, select_next_state
  <2>2. h.op = "work" /\ h'.op = "none" /\ UNCHANGED <<s, irq>>
    BY UnlockedType
       DEF IInv, TypeOK, HType, Ops, Locked, updating, UpdatePc, Reading, select_next_state
  <2>3. fw' = fw => (Applied' <=> Applied)
    BY <2>2, SameApplied
  <2> QED BY <2>1, <2>2, <2>3, CallFaults DEF IInv, Fresh, updating, select_next_state
<1> QED BY <1>1, <1>2, <1>3, <1>4, <1>5, <1>6 DEF IInv

\* Unbinding stops the host.
LEMMA Inv_unbind ==
    ASSUME IInv, unbind
    PROVE  IInv'
<1>1. TypeOK'
  <2>1. h' \in HType
    BY HUpdates, UnlockedType DEF IInv, TypeOK, Ops, Steps, UpdatePc, Reading, WorkPc,
       unbind
  <2>2. s' \in SType
    BY SUpdates DEF IInv, TypeOK, unbind
  <2> QED BY <2>1, <2>2 DEF IInv, TypeOK, unbind
<1>2. Locked'
  BY UnlockedType DEF IInv, TypeOK, HType, Locked, updating, UpdatePc, Reading, WorkPc,
     unbind, Unlocked
<1>3. Negotiating'
  BY UnlockedType DEF IInv, TypeOK, FwType, FuncType, PdType, Negotiating, unbind, Unlocked
<1>4. Partner'
  BY UnlockedType DEF IInv, TypeOK, SType, Locked, updating, Partner, unbind, Unlocked
<1>5. Doing'
  BY UnlockedType DEF IInv, TypeOK, SType, HType, Locked, updating, UpdatePc, WorkPc,
     Reading, Doing, unbind, Unlocked
<1>6. Fresh'
  BY UnlockedType DEF IInv, TypeOK, SType, HType, FwType, FuncType, Locked, updating,
     UpdatePc, WorkPc, Reading, Fresh, Same, Doing, Partner, unbind, Unlocked
<1> QED BY <1>1, <1>2, <1>3, <1>4, <1>5, <1>6 DEF IInv

\* Unbinding turns VBUS off; probe() comes next.
LEMMA Inv_unbind_vbus ==
    ASSUME IInv, unbind_vbus
    PROVE  IInv'
<1>1. TypeOK'
  <2>1. h' \in HType
    BY HUpdates, UnlockedType DEF IInv, TypeOK, Probing, Ops, Steps, UpdatePc, Reading,
       WorkPc, unbind_vbus
  <2>2. s' \in SType
    BY InitialTypes DEF IInv, TypeOK, unbind_vbus
  <2> QED BY <2>1, <2>2 DEF IInv, TypeOK, unbind_vbus
<1>2. Locked'
  BY UnlockedType DEF IInv, TypeOK, HType, Locked, updating, UpdatePc, Reading, WorkPc,
     unbind_vbus, Probing, ZeroS
<1>3. Negotiating'
  BY UnlockedType DEF IInv, TypeOK, FwType, FuncType, PdType, Negotiating, unbind_vbus,
     Probing, ZeroS
<1>4. Partner'
  BY UnlockedType DEF IInv, TypeOK, SType, Locked, updating, Partner, unbind_vbus, Probing,
     ZeroS
<1>5. Doing'
  BY UnlockedType DEF IInv, TypeOK, SType, HType, Locked, updating, UpdatePc, WorkPc,
     Reading, Doing, unbind_vbus, Probing, ZeroS
<1>6. Fresh'
  BY UnlockedType DEF IInv, TypeOK, SType, HType, FwType, FuncType, Locked, updating,
     UpdatePc, WorkPc, Reading, Fresh, Same, Doing, Partner, unbind_vbus, Probing, ZeroS
<1> QED BY <1>1, <1>2, <1>3, <1>4, <1>5, <1>6 DEF IInv

\* A partner comes.
LEMMA Inv_attach ==
    ASSUME IInv, attach
    PROVE  IInv'

<1>a. /\ UNCHANGED <<s, timer, waiting, h, faults>> /\ irq' = TRUE
      /\ fw.func.att = "none" /\ events' = events + 1
  BY DEF attach, Event, driver
<1>b. fw \in FwType /\ fw.func.pe \notin {"REQUEST", "SNK_READY", "WAIT_CAPS"}
  BY <1>a DEF IInv, TypeOK, Negotiating
<1>c. fw' \in FwType /\ pd' \in PdType /\ fw'.func.pe = fw.func.pe
  <2>1. ASSUME NEW ma \in RpLevels, NEW c \in Sources,
               fw' = [fw EXCEPT !.func.att = "sink", !.func.ma = ma],
               pd' = [NoPartner EXCEPT !.offer = c]
        PROVE  fw' \in FwType /\ pd' \in PdType /\ fw'.func.pe = fw.func.pe
    <3>1. ma \in Nat /\ c \in Offers /\ "sink" \in Attached /\ NoPartner \in PdType
      BY PortAssumption, InitialTypes DEF Offers, Attached
    <3>2. fw' \in FwType
      BY <1>b, <2>1, <3>1, FwUpdates, Zenon
    <3>3. pd' \in PdType
      BY <2>1, <3>1, PdUpdates, Zenon
    <3>4. fw'.func.pe = fw.func.pe
      BY <1>b, <2>1 DEF FwType, FuncType
    <3> QED BY <3>2, <3>3, <3>4
  <2>2. CASE fw' = [fw EXCEPT !.func.att = "source", !.func.dfp = TRUE] /\ pd' = NoPartner
    <3>1. "source" \in Attached /\ TRUE \in BOOLEAN /\ NoPartner \in PdType
      BY InitialTypes DEF Attached
    <3>2. fw' \in FwType
      BY <1>b, <2>2, <3>1, FwUpdates, Zenon
    <3>3. fw'.func.pe = fw.func.pe
      BY <1>b, <2>2 DEF FwType, FuncType
    <3> QED BY <2>2, <3>1, <3>2, <3>3
  <2> QED BY <2>1, <2>2, Zenon DEF attach
<1>1. TypeOK'
  BY <1>a, <1>c DEF IInv, TypeOK
<1>2. Locked'
  BY <1>a DEF IInv, Locked, updating
<1>3. Negotiating'
  BY <1>b, <1>c DEF Negotiating
<1>4. Partner'
  BY <1>a DEF IInv, Partner
<1>5. Doing'
  BY <1>a DEF IInv, Doing, updating
<1>6. Fresh'
  BY <1>a DEF Fresh
<1> QED BY <1>1, <1>2, <1>3, <1>4, <1>5, <1>6 DEF IInv

\* A partner goes, or the firmware restarts.
LEMMA Inv_detach ==
    ASSUME IInv, detach
    PROVE  IInv'
<1>1. TypeOK'
  <2>1. fw \in FwType /\ fw.func.reset \in BOOLEAN /\ fw.dpm \in BOOLEAN /\ 1 \in Nat
    BY DEF IInv, TypeOK, FwType, FuncType
  <2>2. PICK restart \in BOOLEAN :
           fw' = [fw EXCEPT !.func = [Func0 EXCEPT !.reset = restart \/ fw.func.reset],
                            !.dpm = @ /\ ~restart, !.want = 1]
    BY DEF detach
  <2> DEFINE f == [Func0 EXCEPT !.reset = restart \/ fw.func.reset]
             b == fw.dpm /\ ~restart
  <2>3. f \in FuncType /\ b \in BOOLEAN
    BY <2>1, InitialTypes DEF FuncType
  <2>4. fw' = [fw EXCEPT !.func = f, !.dpm = b, !.want = 1]
    BY <2>2
  <2> HIDE DEF f, b
  <2>5. fw' \in FwType
    BY <2>1, <2>3, <2>4, FwUpdates, Zenon
  <2> QED BY <2>5, InitialTypes DEF IInv, TypeOK, detach, Event, driver
<1>2. Locked'
  BY UnlockedType DEF IInv, TypeOK, HType, Locked, updating, UpdatePc, Reading, WorkPc,
     detach, NoPartner, Event, driver
<1>3. Negotiating'
  <2>1. fw'.func.pe = "OTHER"
    BY InitialTypes DEF IInv, TypeOK, FwType, FuncType, Func0, detach
  <2> QED BY <2>1 DEF Negotiating
<1>4. Partner'
  BY UnlockedType DEF IInv, TypeOK, SType, Locked, updating, Partner, detach, NoPartner,
     Event, driver
<1>5. Doing'
  BY UnlockedType DEF IInv, TypeOK, SType, HType, Locked, updating, UpdatePc, WorkPc,
     Reading, Doing, detach, NoPartner, Event, driver
<1>6. Fresh'
  BY UnlockedType DEF IInv, TypeOK, SType, HType, FwType, FuncType, Locked, updating,
     UpdatePc, WorkPc, Reading, Fresh, Same, Doing, Partner, detach, NoPartner, Event,
     driver
<1> QED BY <1>1, <1>2, <1>3, <1>4, <1>5, <1>6 DEF IInv

\* The capabilities that are due.
LEMMA Inv_source_caps_due ==
    ASSUME IInv, source_caps_due
    PROVE  IInv'
<1>1. TypeOK'
  <2>1. fw.func \in FuncType /\ fw.rdo \in RdoType /\ fw.caps \in CapsType /\ fw.dpm \in BOOLEAN
    BY  DEF IInv, TypeOK, FwType, source_caps_due
  <2>2. pd.offer \in Offers
    BY <2>1 DEF IInv, TypeOK, PdType, source_caps_due
  <2>3. \A c \in Offers :
           [id |-> IF fw.func.pe = "OTHER" THEN 0 ELSE (fw.caps.id + 1) % MaxId, pdo |-> c]
              \in CapsType
    BY <2>1, <2>2 DEF IInv, CapsType, MaxId, source_caps_due
  <2>4. fw' \in FwType
    BY <2>1, <2>2, <2>3, FwUpdates DEF IInv, TypeOK, source_caps, Policies, source_caps_due
  <2> QED BY <2>1, <2>2, <2>3, <2>4 DEF IInv, TypeOK, source_caps_due, source_caps, driver
<1>2. Locked'
  BY UnlockedType DEF IInv, TypeOK, HType, Locked, updating, UpdatePc, Reading, WorkPc,
     source_caps_due, source_caps, driver
<1>3. Negotiating'
  BY UnlockedType DEF IInv, TypeOK, FwType, FuncType, PdType, Negotiating, source_caps_due,
     source_caps, driver
<1>4. Partner'
  BY UnlockedType DEF IInv, TypeOK, SType, Locked, updating, Partner, source_caps_due,
     source_caps, driver
<1>5. Doing'
  BY UnlockedType DEF IInv, TypeOK, SType, HType, Locked, updating, UpdatePc, WorkPc,
     Reading, Doing, source_caps_due, source_caps, driver
<1>6. Fresh'
  BY UnlockedType DEF IInv, TypeOK, SType, HType, FwType, FuncType, Locked, updating,
     UpdatePc, WorkPc, Reading, Fresh, Same, Doing, Partner, source_caps_due, source_caps,
     driver
<1> QED BY <1>1, <1>2, <1>3, <1>4, <1>5, <1>6 DEF IInv

\* New capabilities.
LEMMA Inv_source_caps_new ==
    ASSUME IInv, source_caps_new
    PROVE  IInv'
<1>1. TypeOK'
  <2>1. PICK c \in Sources :
           /\ fw' = [fw EXCEPT !.func.pe = "REQUEST",
                               !.caps = [id |-> IF fw.func.pe = "OTHER" THEN 0
                                                ELSE (fw.caps.id + 1) % MaxId,
                                         pdo |-> c]]
           /\ pd' = [pd EXCEPT !.offer = c, !.refused = {}, !.plain = FALSE]
    BY DEF source_caps_new, source_caps
  <2> DEFINE m == [id |-> IF fw.func.pe = "OTHER" THEN 0 ELSE (fw.caps.id + 1) % MaxId, pdo |-> c]
  <2>2. fw \in FwType /\ pd \in PdType /\ c \in Offers /\ {} \in SUBSET Nat
        /\ FALSE \in BOOLEAN /\ "REQUEST" \in Policies
    BY DEF IInv, TypeOK, Offers, Policies
  <2>3. m \in CapsType
    BY <2>2 DEF FwType, CapsType, MaxId
  <2>4. fw' = [fw EXCEPT !.func.pe = "REQUEST", !.caps = m]
    BY <2>1
  <2> HIDE DEF m
  <2>5. fw' \in FwType
    BY <2>2, <2>3, <2>4, FwUpdates, Zenon
  <2>6. pd' \in PdType
    BY <2>1, <2>2, PdUpdates, Zenon
  <2> QED BY <2>5, <2>6 DEF IInv, TypeOK, source_caps_new, source_caps, driver, Event
<1>2. Locked'
  BY UnlockedType DEF IInv, TypeOK, HType, Locked, updating, UpdatePc, Reading, WorkPc,
     source_caps_new, source_caps, Event, driver
<1>3. Negotiating'
  BY UnlockedType DEF IInv, TypeOK, FwType, FuncType, PdType, Negotiating, source_caps_new,
     source_caps, Event, driver
<1>4. Partner'
  BY UnlockedType DEF IInv, TypeOK, SType, Locked, updating, Partner, source_caps_new,
     source_caps, Event, driver
<1>5. Doing'
  BY UnlockedType DEF IInv, TypeOK, SType, HType, Locked, updating, UpdatePc, WorkPc,
     Reading, Doing, source_caps_new, source_caps, Event, driver
<1>6. Fresh'
  BY UnlockedType DEF IInv, TypeOK, SType, HType, FwType, FuncType, Locked, updating,
     UpdatePc, WorkPc, Reading, Fresh, Same, Doing, Partner, source_caps_new, source_caps,
     Event, driver
<1> QED BY <1>1, <1>2, <1>3, <1>4, <1>5, <1>6 DEF IInv

\* The firmware's request is answered.
LEMMA Inv_request ==
    ASSUME IInv, request
    PROVE  IInv'

<1>a. /\ UNCHANGED <<s, timer, waiting, h, events, faults>> /\ irq' = TRUE
      /\ fw.func.pe = "REQUEST"
  BY DEF request, driver
<1>b. fw \in FwType /\ pd \in PdType /\ pd.offer \in Offers /\ pd.offer # <<>>
      /\ pd.refused \in SUBSET Nat /\ FALSE \in BOOLEAN /\ "SNK_READY" \in Policies
  BY <1>a DEF IInv, TypeOK, Negotiating, PdType, Policies
<1> DEFINE pos == IF fw.want \in 1..Len(pd.offer) THEN fw.want ELSE 1
           pdo == pd.offer[pos]
           r   == [pos |-> pos, ma |-> pdo.ma]
           R   == pd.refused \union {pos}
<1>c. /\ fw' = [fw EXCEPT !.rdo = r, !.func.pe = "SNK_READY"]
      /\ \/ pd' = [pd EXCEPT !.volts = pdo.mv, !.slow = FALSE]
         \/ pd' = [pd EXCEPT !.refused = R, !.slow = FALSE]
  BY DEF request
<1>d. pos \in Nat /\ r \in RdoType /\ pdo.mv \in Nat /\ R \in SUBSET Nat
  BY <1>b, OfferType DEF RdoType
<1>1. TypeOK'
  <2> HIDE DEF r, R, pdo
  <2>1. fw' \in FwType /\ pd' \in PdType
    BY <1>b, <1>c, <1>d, FwUpdates, PdUpdates, Zenon
  <2> QED BY <1>a, <2>1 DEF IInv, TypeOK
<1>2. Locked'
  BY UnlockedType DEF IInv, TypeOK, HType, Locked, updating, UpdatePc, Reading, WorkPc,
     request, driver
<1>3. Negotiating'
  BY UnlockedType DEF IInv, TypeOK, FwType, FuncType, PdType, Negotiating, request, driver
<1>4. Partner'
  BY UnlockedType DEF IInv, TypeOK, SType, Locked, updating, Partner, request, driver
<1>5. Doing'
  BY UnlockedType DEF IInv, TypeOK, SType, HType, Locked, updating, UpdatePc, WorkPc,
     Reading, Doing, request, driver
<1>6. Fresh'
  BY UnlockedType DEF IInv, TypeOK, SType, HType, FwType, FuncType, Locked, updating,
     UpdatePc, WorkPc, Reading, Fresh, Same, Doing, Partner, request, driver
<1> QED BY <1>1, <1>2, <1>3, <1>4, <1>5, <1>6 DEF IInv

\* Roles are swapped.
LEMMA Inv_swap ==
    ASSUME IInv, swap
    PROVE  IInv'
<1>1. TypeOK'
  <2>1. fw.func.dfp \in BOOLEAN
    BY  DEF IInv, TypeOK, FwType, FuncType, swap
  <2>2. fw' \in FwType
    BY <2>1, FwUpdates DEF IInv, TypeOK, Policies, swap
  <2> QED BY <2>1, <2>2 DEF IInv, TypeOK, swap, Event, driver
<1>2. Locked'
  BY UnlockedType DEF IInv, TypeOK, HType, Locked, updating, UpdatePc, Reading, WorkPc,
     swap, Event, driver
<1>3. Negotiating'
  BY UnlockedType DEF IInv, TypeOK, FwType, FuncType, PdType, Negotiating, swap, Event,
     driver
<1>4. Partner'
  BY UnlockedType DEF IInv, TypeOK, SType, Locked, updating, Partner, swap, Event, driver
<1>5. Doing'
  BY UnlockedType DEF IInv, TypeOK, SType, HType, Locked, updating, UpdatePc, WorkPc,
     Reading, Doing, swap, Event, driver
<1>6. Fresh'
  BY UnlockedType DEF IInv, TypeOK, SType, HType, FwType, FuncType, Locked, updating,
     UpdatePc, WorkPc, Reading, Fresh, Same, Doing, Partner, swap, Event, driver
<1> QED BY <1>1, <1>2, <1>3, <1>4, <1>5, <1>6 DEF IInv

\* A swap ends.
LEMMA Inv_swap_done ==
    ASSUME IInv, swap_done
    PROVE  IInv'

<1>a. UNCHANGED <<s, timer, waiting, h, events, faults>> /\ irq' = TRUE
  BY DEF swap_done, driver
<1>b. fw \in FwType /\ "OTHER" \in Policies /\ "sink" \in Attached /\ "source" \in Attached
      /\ NoPartner \in PdType /\ FALSE \in BOOLEAN
  BY InitialTypes DEF IInv, TypeOK, Policies, Attached
<1>c. fw' \in FwType /\ pd' \in PdType /\ fw'.func.pe = "OTHER"
  <2>1. ASSUME NEW ma \in RpLevels, NEW c \in Sources,
               fw' = [fw EXCEPT !.func.att = "sink", !.func.pe = "OTHER", !.func.ma = ma],
               pd' = [NoPartner EXCEPT !.offer = c, !.plain = FALSE]
        PROVE  fw' \in FwType /\ pd' \in PdType /\ fw'.func.pe = "OTHER"
    <3>1. ma \in Nat /\ c \in Offers
      BY PortAssumption DEF Offers
    <3>2. fw' \in FwType
      BY <1>b, <2>1, <3>1, FwUpdates, Zenon
    <3>3. pd' \in PdType
      BY <1>b, <2>1, <3>1, PdUpdates, Zenon
    <3>4. fw'.func.pe = "OTHER"
      BY <1>b, <2>1 DEF FwType, FuncType
    <3> QED BY <3>2, <3>3, <3>4
  <2>2. CASE fw' = [fw EXCEPT !.func.att = "source", !.func.pe = "OTHER"] /\ pd' = NoPartner
    <3>1. fw' \in FwType
      BY <1>b, <2>2, FwUpdates, Zenon
    <3>2. fw'.func.pe = "OTHER"
      BY <1>b, <2>2 DEF FwType, FuncType
    <3> QED BY <1>b, <2>2, <3>1, <3>2
  <2> QED BY <2>1, <2>2, Zenon DEF swap_done
<1>1. TypeOK'
  BY <1>a, <1>c DEF IInv, TypeOK
<1>2. Locked'
  BY <1>a DEF IInv, Locked, updating
<1>3. Negotiating'
  BY <1>c DEF Negotiating
<1>4. Partner'
  BY <1>a DEF IInv, Partner
<1>5. Doing'
  BY <1>a DEF IInv, Doing, updating
<1>6. Fresh'
  BY <1>a DEF Fresh
<1> QED BY <1>1, <1>2, <1>3, <1>4, <1>5, <1>6 DEF IInv

\* Time passes.
LEMMA Inv_tick ==
    ASSUME IInv, tick
    PROVE  IInv'
<1>1. TypeOK'
  <2>1. pd' \in PdType
    BY PdUpdates DEF IInv, TypeOK, tick
  <2> QED BY <2>1 DEF IInv, TypeOK, tick
<1>2. Locked'
  BY UnlockedType DEF IInv, TypeOK, HType, Locked, updating, UpdatePc, Reading, WorkPc, tick
<1>3. Negotiating'
  BY UnlockedType DEF IInv, TypeOK, FwType, FuncType, PdType, Negotiating, tick
<1>4. Partner'
  BY UnlockedType DEF IInv, TypeOK, SType, Locked, updating, Partner, tick
<1>5. Doing'
  BY UnlockedType DEF IInv, TypeOK, SType, HType, Locked, updating, UpdatePc, WorkPc,
     Reading, Doing, tick
<1>6. Fresh'
  <2>1. Applied' <=> Applied
    BY SameApplied DEF tick
  <2> QED BY <2>1, UnlockedType DEF IInv, TypeOK, HType, Locked, updating,
         UpdatePc, WorkPc, Reading, Fresh, Same, tick, Unlocked
<1> QED BY <1>1, <1>2, <1>3, <1>4, <1>5, <1>6 DEF IInv

-----------------------------------------------------------------------------
(* Allowed voltages *)

\* USB PD: the first capability of every source is 5 V.
FirstIs5V == \A c \in Sources : c # <<>> => c[1].mv = 5000

\* A step that leaves offer, contract, state and wanted position alone.
LEMMA AllowedStays ==
    ASSUME Allowed, pd'.plain = pd.plain, pd'.volts = pd.volts, pd'.offer = pd.offer,
           fw'.func.att = fw.func.att, fw'.func.pe = fw.func.pe, fw'.want = fw.want,
           fw'.caps = fw.caps,
           h'.op = "work" /\ h'.pc \in {"request", "caps"} =>
               (h.op = "work" /\ h.pc \in {"request", "caps"}) \/ fw.func.pe # "OTHER",
           h'.pc = "select" => h.pc = "select" /\ h'.rdo.pos = h.rdo.pos,
           fw.func.att = "none" /\ h'.op = "work" =>
               (h.op = "work" /\ h'.pc = h.pc) \/ h'.pc = "select_func"
    PROVE  Allowed'
<1>2. ASSUME pd.plain
      PROVE  /\ pd.volts \in SinkVolts \union {5000}
             /\ fw.func.att = "sink" =>
                  /\ AllowedPos(fw.want, pd.offer)
                  /\ fw.func.pe # "OTHER" => fw.caps.pdo = pd.offer
                  /\ h.op = "work" /\ h.pc \in {"request", "caps"} => fw.func.pe # "OTHER"
                  /\ h.pc = "select" => AllowedPos(h.rdo.pos, pd.offer)
  BY <1>2 DEF Allowed
<1>3. fw.func.att = "none" => fw.want = 1 /\ fw.func.pe = "OTHER"
                             /\ (h.op = "work" => h.pc = "select_func")
  BY DEF Allowed
<1> QED BY <1>2, <1>3 DEF Allowed

\* Starting the policy manager leaves them alone.
LEMMA StartDpm ==
    ASSUME fw \in FwType, NEW ok \in BOOLEAN, start_dpm(ok)
    PROVE  /\ fw'.func.att = fw.func.att /\ fw'.func.pe = fw.func.pe
           /\ fw'.want = fw.want /\ fw'.caps = fw.caps
<1>1. PICK reset \in BOOLEAN :
         fw' = [fw EXCEPT !.dpm = @ \/ (ok /\ CanSource), !.func.reset = reset]
  BY DEF start_dpm
<1>2. \A b, d \in BOOLEAN : LET x == [fw EXCEPT !.dpm = b, !.func.reset = d]
                            IN  /\ x.func.att = fw.func.att /\ x.func.pe = fw.func.pe
                                /\ x.want = fw.want /\ x.caps = fw.caps
  BY DEF FwType, FuncType
<1>3. fw.dpm \/ (ok /\ CanSource) \in BOOLEAN
  BY DEF FwType
<1> QED BY <1>1, <1>2, <1>3

\* While a detach waits for the work, every step keeps to allowed voltages.
LEMMA AllowedKept ==
    ASSUME ~LateDetach, FirstIs5V, IInv, Allowed, Next
    PROVE  Allowed'
<1>1. /\ s \in SType /\ h \in HType /\ fw \in FwType /\ pd \in PdType
      /\ fw.func \in FuncType /\ h.op \in Ops /\ pd.offer \in Offers
  BY DEF IInv, TypeOK, HType, FwType, PdType
<1>2. 5000 \in SinkVolts \union {5000}
  OBVIOUS
<1>3. \A c \in Offers : 1 \in 1..Len(c) => c[1].mv = 5000
  <2> SUFFICES ASSUME NEW c \in Offers, 1 \in 1..Len(c) PROVE c[1].mv = 5000
    OBVIOUS
  <2>1. CASE c \in Sources
    <3>1. c # <<>>
      OBVIOUS
    <3> QED BY <2>1, <3>1 DEF FirstIs5V
  <2> QED BY <2>1 DEF Offers
<1>4. Locked
  BY DEF IInv
<1>5. CASE probe_clear \/ probe_dpm \/ irq_clear
  <2>1. h'.pc \in {"probe_dpm", "func"} /\ h'.op = h.op /\ h.op # "work"
    BY <1>1, <1>4, <1>5 DEF Locked, WorkPc, HType, probe_clear, probe_dpm, irq_clear, Goto
  <2>2. /\ pd' = pd /\ fw'.func.att = fw.func.att /\ fw'.func.pe = fw.func.pe
        /\ fw'.want = fw.want /\ fw'.caps = fw.caps
    BY <1>1, <1>5, StartDpm DEF probe_clear, probe_dpm, irq_clear
  <2> QED BY <2>1, <2>2, AllowedStays
<1>6. CASE update_func \/ update_reset \/ update_vbus_on \/ update_role \/ update_vbus_off
           \/ update_caps \/ update_publish
  <2>1. h.op # "work" /\ h'.op # "work" /\ h'.pc # "select"
    BY <1>1, <1>4, <1>6, UnlockedType DEF Locked, WorkPc, HType, update_func, update_reset,
       update_vbus_on, update_role, update_vbus_off, update_caps, update_publish, Goto
  <2>2. /\ pd' = pd /\ fw'.func.att = fw.func.att /\ fw'.func.pe = fw.func.pe
        /\ fw'.want = fw.want /\ fw'.caps = fw.caps
    BY <1>1, <1>6, StartDpm
       DEF update_func, update_reset, update_vbus_on, update_role, update_vbus_off, update_caps,
           update_publish
  <2> QED BY <2>1, <2>2, AllowedStays
<1>7. CASE read_caps_request
  <2>1. /\ h.pc = "request" /\ pd' = pd /\ fw' = fw /\ h'.op \in {"none", h.op}
        /\ h'.op = "work" => h'.pc = "caps"
        /\ h'.pc # "select"
    BY <1>1, <1>7, UnlockedType DEF HType, read_caps_request
  <2>2. fw.func.att = "none" => h.op # "work"
    BY <2>1 DEF Allowed
  <2> QED BY <2>1, <2>2, AllowedStays
<1>8. CASE irq_status \/ select_run \/ select_lock \/ unbind \/ unbind_vbus
  <2>1. /\ pd' = pd /\ fw' = fw
        /\ \/ h' = h \/ h'.pc = "select_func"
           \/ h'.pc \in {"clear", "unbind_vbus", "probe_clear"} /\ h'.op # "work"
    BY <1>8, UnlockedType DEF irq_status, select_run, select_lock, unbind, unbind_vbus, Probing,
       HType
  <2> QED BY <2>1, AllowedStays
<1>9. CASE select_func
  <2>1. /\ pd' = pd /\ fw' = fw
        /\ h' = Unlocked \/ (h'.pc = "request" /\ fw.func.att = "sink" /\ fw.func.pe = "SNK_READY")
    BY <1>1, <1>9 DEF HType, select_func
  <2> QED BY <2>1, UnlockedType, AllowedStays
<1>10. CASE select_caps
  <2>1. /\ h.pc = "caps" /\ h.op = "work" /\ pd' = pd /\ fw' = fw
        /\ \/ h' = Unlocked
           \/ /\ h'.pc = "select" /\ h'.op = "work" /\ h'.rdo.pos = best_pdo(fw.caps.pdo)
              /\ best_pdo(fw.caps.pdo) # 0
    BY <1>1, <1>10 DEF HType, RdoType, select_caps
  <2>2. CASE h' = Unlocked
    BY <2>1, <2>2, UnlockedType, AllowedStays
  <2>3. CASE h'.pc = "select" /\ h'.op = "work" /\ h'.rdo.pos = best_pdo(fw.caps.pdo)
             /\ best_pdo(fw.caps.pdo) # 0
    <3>1. fw.func.att # "none"
      BY <2>1 DEF Allowed
    <3>2. ASSUME pd.plain, fw.func.att = "sink"
          PROVE  /\ fw.func.pe # "OTHER"
                 /\ AllowedPos(h'.rdo.pos, pd.offer) /\ AllowedPos(fw.want, pd.offer)
      <4>1. fw.caps.pdo = pd.offer /\ fw.func.pe # "OTHER" /\ AllowedPos(fw.want, pd.offer)
        BY <2>1, <3>2 DEF Allowed
      <4>2. usable(pd.offer[best_pdo(pd.offer)])
        BY <1>1, <2>3, <4>1, OfferType, BestPdoCorrect
      <4> QED BY <2>3, <4>1, <4>2 DEF AllowedPos, usable
    <3>5. AllowedPos(fw.want, pd.offer)' <=> AllowedPos(fw.want, pd.offer)
      BY <2>1 DEF AllowedPos
    <3> QED BY <2>1, <2>3, <3>1, <3>2 DEF Allowed
  <2> QED BY <2>1, <2>2, <2>3
<1>11. CASE select_pdo
  <2>1. h.op = "work" /\ h.pc = "select" /\ h'.pc = "next_state" /\ h'.op = "work"
        /\ pd' = pd /\ fw'.func = fw.func /\ fw'.caps = fw.caps
        /\ fw'.want \in {fw.want, h.rdo.pos}
    BY <1>1, <1>4, <1>11
       DEF Locked, HType, FwType, Ops, updating, UpdatePc, Reading, select_pdo, Goto
  <2>2. fw.func.att # "none"
    BY <2>1 DEF Allowed
  <2>3. ASSUME pd.plain, fw.func.att = "sink"
        PROVE  AllowedPos(fw'.want, pd'.offer)
    <3>1. AllowedPos(fw.want, pd.offer) /\ AllowedPos(h.rdo.pos, pd.offer)
      BY <2>1, <2>3 DEF Allowed
    <3> QED BY <2>1, <3>1 DEF AllowedPos
  <2> QED BY <2>1, <2>2, <2>3 DEF Allowed
<1>12. CASE select_next_state
  <2>1. /\ h' = Unlocked /\ pd' = pd /\ fw'.want = fw.want /\ fw'.caps = fw.caps
        /\ fw'.func.att = fw.func.att
        /\ fw'.func.pe = fw.func.pe \/ fw.func.pe = "SNK_READY"
    BY <1>1, <1>12 DEF FwType, FuncType, select_next_state
  <2> QED BY <2>1, UnlockedType DEF Allowed
<1>13. CASE attach
  <2>1. h' = h /\ h.op = "none" /\ h.pc = "none" /\ fw.func.att = "none"
    BY <1>4, <1>13 DEF Locked, attach, driver
  <2>2. fw.want = 1
    BY <2>1 DEF Allowed
  <2>3. ASSUME NEW ma \in RpLevels, NEW c \in Sources,
               fw' = [fw EXCEPT !.func.att = "sink", !.func.ma = ma],
               pd' = [NoPartner EXCEPT !.offer = c]
        PROVE  Allowed'
    <3>1. /\ pd'.volts = 5000 /\ pd'.offer = c /\ fw'.want = 1 /\ fw'.func.att = "sink"
          /\ fw'.func.pe = fw.func.pe /\ c \in Offers
      <4>1. pd'.volts = 5000 /\ pd'.offer = c /\ c \in Offers
        BY <2>3 DEF NoPartner, Offers
      <4>2. fw'.want = 1 /\ fw'.func.att = "sink" /\ fw'.func.pe = fw.func.pe
        BY <1>1, <2>2, <2>3 DEF FwType, FuncType
      <4> QED BY <4>1, <4>2
    <3>2. fw.func.pe = "OTHER"
      BY <2>1 DEF Allowed
    <3> QED BY <1>2, <1>3, <2>1, <3>1, <3>2 DEF Allowed, AllowedPos
  <2>4. CASE fw' = [fw EXCEPT !.func.att = "source", !.func.dfp = TRUE] /\ pd' = NoPartner
    <3>1. pd'.volts = 5000 /\ fw'.func.att = "source"
      <4>1. pd'.volts = 5000
        BY <2>4 DEF NoPartner
      <4>2. fw'.func.att = "source"
        BY <1>1, <2>4 DEF FwType, FuncType
      <4> QED BY <4>1, <4>2
    <3> QED BY <1>2, <3>1 DEF Allowed
  <2> QED BY <1>13, <2>3, <2>4, Zenon DEF attach
<1>14. CASE detach
  <2>1. /\ h' = h /\ h.op # "work" /\ pd' = NoPartner /\ fw'.want = 1 /\ fw'.func.att = "none"
        /\ fw'.func.pe = "OTHER"
    BY <1>1, <1>14 DEF detach, driver, FwType, FuncType, Func0
  <2> QED BY <1>2, <2>1 DEF Allowed, NoPartner
<1>15. CASE source_caps_due
  <2>1. /\ h' = h /\ pd' = pd /\ fw.func.att = "sink" /\ fw'.func.att = "sink"
        /\ fw'.func.pe = "REQUEST" /\ fw'.want = fw.want /\ fw'.caps.pdo = pd.offer
    BY <1>1, <1>15 DEF source_caps_due, source_caps, driver, FwType, FuncType
  <2> QED BY <2>1 DEF Allowed
<1>16. CASE source_caps_new \/ swap_done
  <2>1. CASE source_caps_new
    <3>1. fw'.func.att = "sink" /\ ~pd'.plain
      BY <1>1, <2>1 DEF source_caps_new, source_caps, FwType, FuncType, PdType
    <3> QED BY <3>1 DEF Allowed
  <2>2. ASSUME NEW ma \in RpLevels, NEW c \in Sources,
               fw' = [fw EXCEPT !.func.att = "sink", !.func.pe = "OTHER", !.func.ma = ma],
               pd' = [NoPartner EXCEPT !.offer = c, !.plain = FALSE]
        PROVE  Allowed'
    <3>1. ~pd'.plain
      BY <2>2 DEF NoPartner
    <3>2. fw'.func.att = "sink"
      BY <1>1, <2>2 DEF FwType, FuncType
    <3> QED BY <3>1, <3>2 DEF Allowed
  <2>3. CASE fw' = [fw EXCEPT !.func.att = "source", !.func.pe = "OTHER"] /\ pd' = NoPartner
    <3>1. pd'.volts = 5000
      BY <2>3 DEF NoPartner
    <3>2. fw'.func.att = "source"
      BY <1>1, <2>3 DEF FwType, FuncType
    <3> QED BY <1>2, <3>1, <3>2 DEF Allowed
  <2> QED BY <1>16, <2>1, <2>2, <2>3, Zenon DEF swap_done
<1>17. CASE request
  <2> DEFINE pos == IF fw.want \in 1..Len(pd.offer) THEN fw.want ELSE 1
  <2>1. /\ h' = h /\ fw.func.pe = "REQUEST" /\ fw'.func.att = fw.func.att
        /\ fw'.func.pe = "SNK_READY" /\ fw'.want = fw.want /\ fw'.caps = fw.caps
        /\ pd'.plain = pd.plain /\ pd'.offer = pd.offer
        /\ pd'.volts = pd.offer[pos].mv \/ pd'.volts = pd.volts
    <3>1. \/ pd' = [pd EXCEPT !.volts = pd.offer[pos].mv, !.slow = FALSE]
          \/ pd' = [pd EXCEPT !.refused = @ \union {pos}, !.slow = FALSE]
      BY <1>17 DEF request
    <3>2. pd'.plain = pd.plain /\ pd'.offer = pd.offer
          /\ (pd'.volts = pd.offer[pos].mv \/ pd'.volts = pd.volts)
      <4> HIDE DEF pos
      <4> QED BY <1>1, <3>1 DEF PdType
    <3> QED BY <1>1, <1>17, <3>2 DEF request, driver, FwType, FuncType
  <2>2. fw.func.att = "sink" /\ pd.offer # <<>> /\ Len(pd.offer) > 0 /\ Len(pd.offer) \in Nat
    BY <1>1, <2>1, OfferType DEF IInv, Negotiating
  <2>3. ASSUME pd.plain
        PROVE  pd'.volts \in SinkVolts \union {5000}
    <3>1. AllowedPos(fw.want, pd.offer) /\ pd.volts \in SinkVolts \union {5000}
      BY <2>2, <2>3 DEF Allowed
    <3>2. pd.offer[pos].mv \in SinkVolts \union {5000}
      BY <1>1, <1>2, <1>3, <2>2, <3>1 DEF AllowedPos
    <3> HIDE DEF pos
    <3> QED BY <2>1, <3>1, <3>2
  <2> HIDE DEF pos
  <2> QED BY <2>1, <2>2, <2>3 DEF Allowed
<1>18. CASE swap
  <2>1. /\ h' = h /\ pd' = pd /\ fw'.func.att = fw.func.att /\ fw.func.att # "none"
        /\ fw'.want = fw.want /\ fw'.caps = fw.caps
        /\ fw.func.att = "sink" =>
             fw'.func.pe = fw.func.pe \/ (fw.func.pe = "SNK_READY" /\ fw'.func.pe # "OTHER")
    BY <1>1, <1>18 DEF swap, driver, FwType, FuncType
  <2> QED BY <2>1 DEF Allowed
<1>19. CASE tick
  <2>1. /\ h' = h /\ fw' = fw /\ pd'.offer = pd.offer /\ pd'.volts = pd.volts
        /\ pd'.plain = pd.plain
    BY <1>1, <1>19 DEF tick, PdType
  <2> QED BY <2>1, AllowedStays
<1> QED BY <1>5, <1>6, <1>7, <1>8, <1>9, <1>10, <1>11, <1>12, <1>13, <1>14, <1>15, <1>16,
           <1>17, <1>18, <1>19 DEF Next, update, select_work

-----------------------------------------------------------------------------
(* Theorems *)

\* The invariant holds in every state of every behaviour.
LEMMA Invariant == Spec => []IInv
<1>1. IInv /\ [Next]_vars => IInv'
  <2> SUFFICES ASSUME IInv, [Next]_vars PROVE IInv'
    OBVIOUS
  <2>1. CASE Next
    BY <2>1, Inv_probe_clear, Inv_probe_dpm, Inv_update_func, Inv_update_reset,
       Inv_update_vbus_on, Inv_update_role, Inv_update_vbus_off, Inv_read_caps_request,
       Inv_update_caps, Inv_update_publish, Inv_irq_status, Inv_irq_clear, Inv_select_run,
       Inv_select_lock, Inv_select_func, Inv_select_caps, Inv_select_pdo,
       Inv_select_next_state, Inv_unbind, Inv_unbind_vbus, Inv_attach, Inv_detach,
       Inv_source_caps_due, Inv_source_caps_new, Inv_request, Inv_swap, Inv_swap_done, Inv_tick
       DEF Next, update, select_work
  <2>2. CASE UNCHANGED vars
    <3>1. UNCHANGED <<s, timer, waiting, h, fw, irq, pd, events, faults>>
      BY <2>2 DEF vars
    <3>2. TypeOK' /\ Locked' /\ Negotiating' /\ Partner'
      BY <3>1 DEF IInv, TypeOK, Locked, updating, Negotiating, Partner
    <3>3. Doing'
      BY <3>1 DEF IInv, Doing, updating
    <3>4. Fresh'
      BY <3>1, SameApplied DEF IInv, Fresh, updating
    <3> QED BY <3>2, <3>3, <3>4 DEF IInv
  <2> QED BY <2>1, <2>2
<1> QED BY InvInit, <1>1, PTL DEF Spec

\* s2mm005_update(): once it has nothing left to do, and nothing has failed,
\* the supply, the partner, the data role and VBUS are those of the registers as
\* they are now.
THEOREM PortAppliedAlways == Spec => []PortApplied
<1>1. IInv => PortApplied
  <2> SUFFICES ASSUME IInv, Quiet, faults = 0, fw.func.pe # "WAIT_CAPS" PROVE PortApplied
    BY DEF PortApplied
  <2> DEFINE now == Supply(fw.func, fw.rdo, fw.caps)
  <2>1. Applied
    BY DEF IInv, Fresh, Quiet
  <2>2. /\ s.attached = now.attached /\ s.pd = now.pd /\ s.mv = now.mv /\ s.ma = now.ma
        /\ s.role = role(fw.func) /\ s.vbus = vbus(fw.func)
        /\ s.partner = IF ~connected(fw.func) THEN "none"
                       ELSE IF now.pd THEN "pd" ELSE "typec"
    BY <2>1 DEF Applied
  <2> HIDE DEF now
  <2>3. get_property = [online |-> now.attached, usb_type |-> IF now.pd THEN "PD" ELSE "C",
                        voltage_now |-> IF now.attached THEN now.mv ELSE 0,
                        current_max |-> IF now.attached THEN now.ma ELSE 0]
    BY <2>2, Zenon DEF get_property
  <2> QED BY <2>2, <2>3 DEF PortApplied, now
<1> QED BY <1>1, Invariant, PTL

\* s2mm005_select_work(): whatever fails, however often partners come and go,
\* every contract of a source that keeps its offer is at a voltage of the
\* connector's sink-pdos or at 5 V, if no detach falls inside the work.
THEOREM ContractAllowedAlways ==
    ASSUME ~LateDetach, FirstIs5V
    PROVE  Spec => []ContractAllowed
<1>1. Init => Allowed
  <2> SUFFICES ASSUME Init PROVE Allowed
    OBVIOUS
  <2>1. Firmware0 \in FwType /\ Firmware0.want = 1 /\ Firmware0.func.pe = "OTHER"
        /\ Firmware0.func.att = "none"
    BY InitialTypes DEF Firmware0, Func0
  <2>2. pd.volts = 5000 /\ h.op = "probe" /\ h.pc = "probe_clear"
    <3>1. h.op = "probe" /\ h.pc = "probe_clear"
      BY UnlockedType DEF Init, Probing, HType
    <3>2. pd = NoPartner \/ \E c : pd = [NoPartner EXCEPT !.offer = c]
      BY Zenon DEF Init
    <3>3. pd.volts = 5000
      BY <3>2 DEF NoPartner
    <3> QED BY <3>1, <3>3
  <2>3. CASE fw = Firmware0 /\ pd = NoPartner
    BY <2>1, <2>2, <2>3 DEF Allowed
  <2>4. ASSUME NEW ma \in RpLevels, NEW c \in Sources,
               fw = [Firmware0 EXCEPT !.func.att = "sink", !.func.ma = ma],
               pd = [NoPartner EXCEPT !.offer = c]
        PROVE  Allowed
    <3>1. fw.want = 1 /\ fw.func.pe = "OTHER" /\ fw.func.att = "sink" /\ pd.offer = c
      <4>1. pd.offer = c
        BY <2>4 DEF NoPartner
      <4>2. fw.want = 1 /\ fw.func.pe = "OTHER" /\ fw.func.att = "sink"
        BY <2>1, <2>4 DEF FwType, FuncType
      <4> QED BY <4>1, <4>2
    <3>2. 1 \in 1..Len(c) => c # <<>>
      OBVIOUS
    <3> QED BY <2>2, <3>1, <3>2 DEF Allowed, AllowedPos, FirstIs5V
  <2> QED BY <2>3, <2>4, Zenon DEF Init
<1>2. IInv /\ Allowed /\ [Next]_vars => Allowed'
  <2>1. ASSUME IInv, Allowed, Next PROVE Allowed'
    BY <2>1, AllowedKept
  <2>2. ASSUME Allowed, UNCHANGED vars PROVE Allowed'
    BY <2>2 DEF vars, Allowed, AllowedPos
  <2> QED BY <2>1, <2>2
<1>3. Allowed => ContractAllowed
  BY DEF Allowed, ContractAllowed
<1> QED BY <1>1, <1>2, <1>3, Invariant, PTL DEF Spec

\* s2mm005_set_vbus() and s2mm005_set_role(): as long as nothing has failed,
\* VBUS is on before the host starts on it and goes after the host has stopped.
THEOREM HostHasVbusAlways == Spec => HostHasVbus
<1> DEFINE Start == s'.role = "HOST" /\ s.role # "HOST" /\ vbus(h.func) /\ faults' = 0 => s.vbus
           Stop  == s.vbus /\ ~s'.vbus /\ s.role = "HOST" /\ faults' = 0 => connected(h.func)
<1>1. IInv /\ [Next]_vars => [Start /\ Stop]_vars
  <2> SUFFICES ASSUME IInv, Next PROVE Start /\ Stop
    OBVIOUS
  <2>1. s \in SType /\ h \in HType
    BY DEF IInv, TypeOK
  <2>2. CASE update_role
    <3>1. h.pc = "role" /\ s'.vbus = s.vbus /\ (faults' = 0 => faults = 0)
      BY <2>1, <2>2, CallFaults DEF IInv, SType, update_role
    <3>2. updating
      BY <2>1, <3>1 DEF IInv, HType, Ops, Locked, updating, WorkPc
    <3> QED BY <3>1, <3>2 DEF IInv, Doing
  <2>3. CASE update_vbus_off
    <3>1. h.pc = "vbus_off" /\ s'.role = s.role /\ (faults' = 0 => faults = 0)
      BY <2>1, <2>3, CallFaults DEF IInv, SType, update_vbus_off
    <3>2. updating
      BY <2>1, <3>1 DEF IInv, HType, Ops, Locked, updating, WorkPc
    <3>3. s.role = "HOST" /\ faults' = 0 => connected(h.func)
      BY <3>1, <3>2 DEF IInv, Doing, role
    <3> QED BY <3>1, <3>3
  <2>4. CASE update_vbus_on
    <3>1. s'.role = s.role /\ (s.vbus => s'.vbus)
      BY <2>1, <2>4 DEF SType, update_vbus_on
    <3> QED BY <3>1
  <2>5. CASE unbind \/ unbind_vbus
    <3>1. s'.role = "NONE" /\ (s'.vbus = s.vbus \/ s.role = "NONE")
      BY <2>1, <2>5 DEF IInv, Partner, SType, unbind, unbind_vbus, ZeroS
    <3> QED BY <3>1
  <2>6. CASE update_caps \/ update_publish
    <3>1. s'.role = s.role /\ s'.vbus = s.vbus
      BY <2>1, <2>6 DEF SType, update_caps, update_publish
    <3> QED BY <3>1
  <2>7. CASE s' = s
    BY <2>7
  <2>8. \/ s' = s \/ update_role \/ update_vbus_off \/ update_vbus_on \/ unbind \/ unbind_vbus
        \/ update_caps \/ update_publish
    BY DEF Next, update, select_work, probe_clear, probe_dpm, update_func, update_reset,
           read_caps_request, irq_status, irq_clear, select_run, select_lock, select_func,
           select_caps, select_pdo, select_next_state, attach, detach, source_caps_due,
           source_caps_new, source_caps, request, swap, swap_done, tick, driver
  <2> QED BY <2>2, <2>3, <2>4, <2>5, <2>6, <2>7, <2>8
<1> QED BY <1>1, Invariant, PTL DEF Spec, HostHasVbus
=============================================================================
