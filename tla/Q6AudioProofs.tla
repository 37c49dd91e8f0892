---------------------------- MODULE Q6AudioProofs ----------------------------
(***************************************************************************)
(* Proofs about sound: bit clocks, COPPs, the amplifier's power sequences  *)
(* and its boost mode, for any streams, ports and interfaces.              *)
(***************************************************************************)
EXTENDS Q6Audio, FiniteSetTheorems, TLAPS

-----------------------------------------------------------------------------
(* Induction, and operations on one port after the other                   *)

\* Induction over the natural numbers, for a set.
LEMMA NatSetInduction ==
    ASSUME NEW P, 0 \in P, \A n \in Nat : n \in P => n + 1 \in P
    PROVE  Nat \subseteq P
<1> DEFINE R == OpToRel(<, Nat)
           T == Nat \ P
<1>1. \A a, b \in Nat : a < b => <<a, b>> \in R
  BY DEF OpToRel
<1> HIDE DEF R
<1>2. SUFFICES ASSUME T # {} PROVE FALSE
  OBVIOUS
<1>3. PICK x \in T : \A y \in T : <<y, x>> \notin R
  <2>1. IsWellFoundedOn(R, Nat) /\ T \subseteq Nat
    BY NatLessThanWellFounded DEF R
  <2> HIDE DEF T
  <2> QED BY <1>2, <2>1, WFMin
<1>4. x # 0 /\ x - 1 \in Nat /\ x - 1 < x
  BY <1>3
<1>5. x - 1 \notin T
  BY <1>1, <1>3, <1>4
<1> QED BY <1>3, <1>4, <1>5

\* What starts in the first of a row of sets, and goes from each to the next,
\* ends in the last.
LEMMA RowInduction ==
    ASSUME NEW N \in Nat, NEW f, NEW W, f[0] \in W[0],
           \A n \in 1..N : f[n - 1] \in W[n - 1] => f[n] \in W[n]
    PROVE  f[N] \in W[N]
<1> DEFINE P == {n \in Nat : n <= N => f[n] \in W[n]}
<1>1. 0 \in P
  OBVIOUS
<1>2. ASSUME NEW n \in Nat, n \in P PROVE n + 1 \in P
  <2> SUFFICES ASSUME n + 1 <= N PROVE f[n + 1] \in W[n + 1]
    OBVIOUS
  <2>1. n + 1 \in 1..N /\ (n + 1) - 1 = n
    OBVIOUS
  <2>2. f[n] \in W[n]
    BY <1>2
  <2> QED BY <2>1, <2>2
<1> HIDE DEF P
<1>3. Nat \subseteq P
  BY <1>1, <1>2, NatSetInduction
<1> QED BY <1>3 DEF P

\* The operations that are done on one port after the other, for a stream s.
Do(op, s, w, p) ==
    CASE op = "find"    -> q6afe_port_get_from_id(w, p)
      [] op = "put"     -> q6afe_port_put(w, p)
      [] op = "start"   -> be_startup(w, p)
      [] op = "stop"    -> be_shutdown(w, p)
      [] op = "params"  -> be_hw_params(w, p)
      [] op = "prepare" -> be_prepare(w, p)
      [] op = "open"    -> adm_open(w, s, p)

\* What the first N of the ports in order leave, of w.
Chain(f, op, s, w, order, N) ==
    f = [n \in 0..N |-> IF n = 0 THEN w ELSE Do(op, s, f[n - 1], order[n])]

LEMMA Chained ==
    ASSUME NEW op, NEW s, NEW w, NEW order, NEW N \in Nat
    PROVE  \E f : Chain(f, op, s, w, order, N)
<1> DEFINE P == {n \in Nat : \E f : Chain(f, op, s, w, order, n)}
<1>1. 0 \in P
  <2>1. Chain([n \in 0..0 |-> w], op, s, w, order, 0)
    BY DEF Chain
  <2> QED BY <2>1
<1>2. ASSUME NEW n \in Nat, n \in P PROVE n + 1 \in P
  <2>1. PICK f : Chain(f, op, s, w, order, n)
    BY <1>2
  <2> DEFINE g == [m \in 0..n + 1 |-> IF m = n + 1 THEN Do(op, s, f[n], order[m]) ELSE f[m]]
  <2>2. \A m \in 0..n + 1 : g[m] = IF m = 0 THEN w ELSE Do(op, s, g[m - 1], order[m])
    <3> SUFFICES ASSUME NEW m \in 0..n + 1
                 PROVE  g[m] = IF m = 0 THEN w ELSE Do(op, s, g[m - 1], order[m])
      OBVIOUS
    <3>1. CASE m = n + 1
      BY <3>1
    <3>2. CASE m # n + 1
      <4>1. m \in 0..n /\ g[m] = f[m]
        BY <3>2
      <4>2. f[m] = IF m = 0 THEN w ELSE Do(op, s, f[m - 1], order[m])
        BY <2>1, <4>1 DEF Chain
      <4>3. m # 0 => m - 1 \in 0..n + 1 /\ m - 1 # n + 1
        BY <4>1
      <4> QED BY <4>1, <4>2, <4>3
    <3> QED BY <3>1, <3>2
  <2>3. Chain(g, op, s, w, order, n + 1)
    BY <2>2 DEF Chain
  <2> QED BY <2>3
<1> HIDE DEF P
<1>3. Nat \subseteq P
  BY <1>1, <1>2, NatSetInduction
<1> QED BY <1>3 DEF P

\* A finite set is put in order: each of its elements once.
LEMMA Order ==
    ASSUME NEW S, IsFiniteSet(S)
    PROVE  /\ Cardinality(S) \in Nat /\ Len(SetToSeq(S)) = Cardinality(S)
           /\ \A n \in 1..Cardinality(S) : SetToSeq(S)[n] \in S
           /\ \A m, n \in 1..Cardinality(S) : SetToSeq(S)[m] = SetToSeq(S)[n] => m = n
           /\ \A p \in S : \E n \in 1..Cardinality(S) : SetToSeq(S)[n] = p
<1> DEFINE N == Cardinality(S)
           q == SetToSeq(S)
<1>1. N \in Nat /\ ExistsBijection(1..N, S)
  BY FS_CardinalityType
<1>2. PICK f \in Bijection(1..N, S) : TRUE
  BY <1>1 DEF ExistsBijection
<1>3. f \in [1..N -> S] /\ IsInjective(f)
  BY <1>2 DEF Bijection, Injection
<1>4. q \in [1..N -> S] /\ IsInjective(q)
  BY <1>3 DEF SetToSeq
<1> HIDE DEF q, N
<1>5. \A p \in S : \E n \in 1..N : q[n] = p
  <2> DEFINE I == {q[n] : n \in 1..N}
  <2>1. q \in Surjection(1..N, I)
    BY <1>4 DEF Surjection
  <2>2. q \in Bijection(1..N, I)
    BY <1>4, <2>1 DEF Bijection, Injection
  <2>3. ExistsBijection(1..N, I)
    BY <2>2 DEF ExistsBijection
  <2>4. Cardinality(I) = N
    <3> HIDE DEF I
    <3> QED BY <1>1, <2>3, FS_CountingElements
  <2>5. I \subseteq S
    BY <1>4
  <2>6. I = S
    <3> HIDE DEF I
    <3> QED BY <2>4, <2>5, FS_Subset DEF N
  <2> QED BY <2>6
<1>6. Len(q) = N
  BY <1>1, <1>4
<1> QED BY <1>1, <1>4, <1>5, <1>6 DEF q, N, IsInjective

\* f follows op over the elements of S.
Row(f, op, s, w, S) ==
    /\ f[0] = w
    /\ \A n \in 1..Cardinality(S) : f[n] = Do(op, s, f[n - 1], SetToSeq(S)[n])

\* A function that meets the equation of a row is one.
LEMMA RowOfChain ==
    ASSUME NEW op, NEW s, NEW w, NEW S, IsFiniteSet(S),
           NEW f, Chain(f, op, s, w, SetToSeq(S), Len(SetToSeq(S)))
    PROVE  Row(f, op, s, w, S) /\ f[Len(SetToSeq(S))] = f[Cardinality(S)]
<1> DEFINE N == Cardinality(S)
<1>1. N \in Nat /\ Len(SetToSeq(S)) = N
  BY Order
<1>2. \A n \in 0..N : f[n] = IF n = 0 THEN w ELSE Do(op, s, f[n - 1], SetToSeq(S)[n])
  BY <1>1 DEF Chain
<1> HIDE DEF N
<1>3. 0 \in 0..N /\ \A n \in 1..N : n \in 0..N /\ n # 0
  BY <1>1
<1>4. f[0] = w /\ \A n \in 1..N : f[n] = Do(op, s, f[n - 1], SetToSeq(S)[n])
  BY <1>2, <1>3
<1> QED BY <1>1, <1>4 DEF Row, N

\* What Each() computes is the last of a row; an operator at a time, as they
\* cannot be a lemma's parameter.
LEMMA EachFind ==
    ASSUME NEW w, NEW S, IsFiniteSet(S)
    PROVE  \E f : Row(f, "find", {}, w, S) /\ Each(w, S, q6afe_port_get_from_id) = f[Cardinality(S)]
<1> DEFINE order == SetToSeq(S)
           F(f) == f = [n \in 0..Len(order) |-> IF n = 0 THEN w ELSE q6afe_port_get_from_id(f[n - 1], order[n])]
           after == CHOOSE f : F(f)
<1>1. \A f : F(f) <=> Chain(f, "find", {}, w, order, Len(order))
  BY DEF Chain, Do
<1>2. \E f : F(f)
  <2>1. Len(order) \in Nat
    BY Order
  <2> HIDE DEF F, order
  <2> QED BY <1>1, <2>1, Chained
<1>3. F(after)
  <2> HIDE DEF F
  <2> QED BY <1>2
<1>4. Row(after, "find", {}, w, S) /\ after[Len(order)] = after[Cardinality(S)]
  <2>1. Chain(after, "find", {}, w, order, Len(order))
    BY <1>1, <1>3
  <2> HIDE DEF after
  <2> QED BY <2>1, RowOfChain
<1> QED BY <1>4 DEF Each

LEMMA EachPut ==
    ASSUME NEW w, NEW S, IsFiniteSet(S)
    PROVE  \E f : Row(f, "put", {}, w, S) /\ Each(w, S, q6afe_port_put) = f[Cardinality(S)]
<1> DEFINE order == SetToSeq(S)
           F(f) == f = [n \in 0..Len(order) |-> IF n = 0 THEN w ELSE q6afe_port_put(f[n - 1], order[n])]
           after == CHOOSE f : F(f)
<1>1. \A f : F(f) <=> Chain(f, "put", {}, w, order, Len(order))
  BY DEF Chain, Do
<1>2. \E f : F(f)
  <2>1. Len(order) \in Nat
    BY Order
  <2> HIDE DEF F, order
  <2> QED BY <1>1, <2>1, Chained
<1>3. F(after)
  <2> HIDE DEF F
  <2> QED BY <1>2
<1>4. Row(after, "put", {}, w, S) /\ after[Len(order)] = after[Cardinality(S)]
  <2>1. Chain(after, "put", {}, w, order, Len(order))
    BY <1>1, <1>3
  <2> HIDE DEF after
  <2> QED BY <2>1, RowOfChain
<1> QED BY <1>4 DEF Each

LEMMA EachStart ==
    ASSUME NEW w, NEW S, IsFiniteSet(S)
    PROVE  \E f : Row(f, "start", {}, w, S) /\ Each(w, S, be_startup) = f[Cardinality(S)]
<1> DEFINE order == SetToSeq(S)
           F(f) == f = [n \in 0..Len(order) |-> IF n = 0 THEN w ELSE be_startup(f[n - 1], order[n])]
           after == CHOOSE f : F(f)
<1>1. \A f : F(f) <=> Chain(f, "start", {}, w, order, Len(order))
  BY DEF Chain, Do
<1>2. \E f : F(f)
  <2>1. Len(order) \in Nat
    BY Order
  <2> HIDE DEF F, order
  <2> QED BY <1>1, <2>1, Chained
<1>3. F(after)
  <2> HIDE DEF F
  <2> QED BY <1>2
<1>4. Row(after, "start", {}, w, S) /\ after[Len(order)] = after[Cardinality(S)]
  <2>1. Chain(after, "start", {}, w, order, Len(order))
    BY <1>1, <1>3
  <2> HIDE DEF after
  <2> QED BY <2>1, RowOfChain
<1> QED BY <1>4 DEF Each

LEMMA EachStop ==
    ASSUME NEW w, NEW S, IsFiniteSet(S)
    PROVE  \E f : Row(f, "stop", {}, w, S) /\ Each(w, S, be_shutdown) = f[Cardinality(S)]
<1> DEFINE order == SetToSeq(S)
           F(f) == f = [n \in 0..Len(order) |-> IF n = 0 THEN w ELSE be_shutdown(f[n - 1], order[n])]
           after == CHOOSE f : F(f)
<1>1. \A f : F(f) <=> Chain(f, "stop", {}, w, order, Len(order))
  BY DEF Chain, Do
<1>2. \E f : F(f)
  <2>1. Len(order) \in Nat
    BY Order
  <2> HIDE DEF F, order
  <2> QED BY <1>1, <2>1, Chained
<1>3. F(after)
  <2> HIDE DEF F
  <2> QED BY <1>2
<1>4. Row(after, "stop", {}, w, S) /\ after[Len(order)] = after[Cardinality(S)]
  <2>1. Chain(after, "stop", {}, w, order, Len(order))
    BY <1>1, <1>3
  <2> HIDE DEF after
  <2> QED BY <2>1, RowOfChain
<1> QED BY <1>4 DEF Each

LEMMA EachParams ==
    ASSUME NEW w, NEW S, IsFiniteSet(S)
    PROVE  \E f : Row(f, "params", {}, w, S) /\ Each(w, S, be_hw_params) = f[Cardinality(S)]
<1> DEFINE order == SetToSeq(S)
           F(f) == f = [n \in 0..Len(order) |-> IF n = 0 THEN w ELSE be_hw_params(f[n - 1], order[n])]
           after == CHOOSE f : F(f)
<1>1. \A f : F(f) <=> Chain(f, "params", {}, w, order, Len(order))
  BY DEF Chain, Do
<1>2. \E f : F(f)
  <2>1. Len(order) \in Nat
    BY Order
  <2> HIDE DEF F, order
  <2> QED BY <1>1, <2>1, Chained
<1>3. F(after)
  <2> HIDE DEF F
  <2> QED BY <1>2
<1>4. Row(after, "params", {}, w, S) /\ after[Len(order)] = after[Cardinality(S)]
  <2>1. Chain(after, "params", {}, w, order, Len(order))
    BY <1>1, <1>3
  <2> HIDE DEF after
  <2> QED BY <2>1, RowOfChain
<1> QED BY <1>4 DEF Each

LEMMA EachPrepare ==
    ASSUME NEW w, NEW S, IsFiniteSet(S)
    PROVE  \E f : Row(f, "prepare", {}, w, S) /\ Each(w, S, be_prepare) = f[Cardinality(S)]
<1> DEFINE order == SetToSeq(S)
           F(f) == f = [n \in 0..Len(order) |-> IF n = 0 THEN w ELSE be_prepare(f[n - 1], order[n])]
           after == CHOOSE f : F(f)
<1>1. \A f : F(f) <=> Chain(f, "prepare", {}, w, order, Len(order))
  BY DEF Chain, Do
<1>2. \E f : F(f)
  <2>1. Len(order) \in Nat
    BY Order
  <2> HIDE DEF F, order
  <2> QED BY <1>1, <2>1, Chained
<1>3. F(after)
  <2> HIDE DEF F
  <2> QED BY <1>2
<1>4. Row(after, "prepare", {}, w, S) /\ after[Len(order)] = after[Cardinality(S)]
  <2>1. Chain(after, "prepare", {}, w, order, Len(order))
    BY <1>1, <1>3
  <2> HIDE DEF after
  <2> QED BY <2>1, RowOfChain
<1> QED BY <1>4 DEF Each

-----------------------------------------------------------------------------
(* Transfers to the amplifier                                              *)

\* The values of each register and of each field of rt5508_priv.
RegType == [mode_store |-> {"boost", "bypass", "low", "pump"},
            tdm |-> BOOLEAN, chip_on |-> BOOLEAN,
            chipen |-> SUBSET {"PD", "AMP", "TRI"},
            bst |-> {"boost", "bypass", "low", "pump"},
            bias |-> BOOLEAN, clk |-> BOOLEAN, pll |-> Nat, prot |-> BOOLEAN,
            fmt |-> BOOLEAN, slots |-> BOOLEAN]
Regs == {"mode_store", "tdm", "chip_on", "chipen", "bst", "bias", "clk", "pll", "prot",
         "fmt", "slots"}

AmpType == [mode_store : {"boost", "bypass", "low", "pump"},
            tdm : BOOLEAN, chip_on : BOOLEAN, chipen : SUBSET {"PD", "AMP", "TRI"},
            bst : {"boost", "bypass", "low", "pump"},
            bias : BOOLEAN, clk : BOOLEAN, pll : Nat, prot : BOOLEAN,
            fmt : BOOLEAN, slots : BOOLEAN]

CardType == [ports : SUBSET Ports, port_cfg : SUBSET Ports,
             clk_count : [Interfaces -> Int], started : SUBSET Ports,
             slots : SUBSET Ports, tdm : SUBSET Ports, port_data : SUBSET Ports,
             port_map : [Streams -> SUBSET Ports], copps : [Streams -> SUBSET Ports]]
DspType  == [clk : SUBSET Interfaces, running : SUBSET Ports, adm : [Ports -> Int]]
Answers  == [token : Ports, opcode : {"svc_set_param", "set_param_v2", "start", "stop"},
             ok : BOOLEAN]
WorldType == [card : CardType, dsp : DspType, amp : AmpType, late : SUBSET Answers,
              ok : BOOLEAN, at : Nat, how : Hows]

\* What a transfer leaves alone.
SameCard(v, w) == v.card = w.card /\ v.dsp = w.dsp /\ v.late = w.late /\ v.how = w.how

\* Nothing is left to fail, and stays so.
Steady(v, w) == /\ v.ok => w.ok
                /\ w.at = 0 => v.at = 0
                /\ w.at = 0 /\ w.ok => v.ok

LEMMA Transfer ==
    ASSUME NEW w \in WorldType, NEW x, x[1] \in Regs, x[2] \in RegType[x[1]]
    PROVE  LET v == transfer(w, x)
           IN  /\ v \in WorldType /\ SameCard(v, w) /\ Steady(v, w)
               /\ v.amp = w.amp \/ v.amp = [w.amp EXCEPT ![x[1]] = x[2]]
               /\ v.ok => v.amp = [w.amp EXCEPT ![x[1]] = x[2]]
<1> DEFINE amp1 == [w.amp EXCEPT ![x[1]] = x[2]]
           v == transfer(w, x)
<1>1. amp1 \in AmpType
  BY DEF WorldType, AmpType, RegType, Regs
<1>2. CASE ~w.ok
  BY <1>2 DEF transfer, SameCard, Steady
<1>3. CASE w.ok /\ w.at = 1
  <2>1. v = [w EXCEPT !.ok = FALSE, !.at = 0]
    BY <1>3 DEF transfer
  <2> HIDE DEF amp1, v
  <2>2. v \in WorldType /\ v.amp = w.amp /\ ~v.ok /\ v.at = 0 /\ SameCard(v, w)
    BY <2>1 DEF WorldType, SameCard
  <2> QED BY <1>3, <2>2 DEF Steady, v
<1>4. CASE w.ok /\ w.at # 1
  <2>1. v = [w EXCEPT !.at = IF w.at = 0 THEN 0 ELSE w.at - 1, !.amp = amp1]
    BY <1>4 DEF transfer, WorldType
  <2>2. (IF w.at = 0 THEN 0 ELSE w.at - 1) \in Nat
    BY DEF WorldType
  <2> HIDE DEF amp1, v
  <2>3. /\ v \in WorldType /\ v.amp = amp1 /\ v.ok /\ SameCard(v, w)
        /\ v.at = IF w.at = 0 THEN 0 ELSE w.at - 1
    BY <1>1, <1>4, <2>1, <2>2 DEF WorldType, SameCard
  <2> QED BY <1>4, <2>3 DEF Steady, v, amp1
<1> QED BY <1>2, <1>3, <1>4

\* The transfers of seq one after the other.
LEMMA TransferRow ==
    ASSUME NEW w, NEW seq, Len(seq) \in Nat
    PROVE  \E f : /\ f[0] = w /\ transfers(w, seq) = f[Len(seq)]
                  /\ \A n \in 1..Len(seq) : f[n] = transfer(f[n - 1], seq[n])
<1> DEFINE F(f, N) == f = [n \in 0..N |-> IF n = 0 THEN w ELSE transfer(f[n - 1], seq[n])]
           P == {n \in Nat : \E f : F(f, n)}
           after == CHOOSE f : F(f, Len(seq))
<1>1. 0 \in P
  <2>1. F([n \in 0..0 |-> w], 0)
    OBVIOUS
  <2> QED BY <2>1
<1>2. ASSUME NEW N \in Nat, N \in P PROVE N + 1 \in P
  <2>1. PICK f : F(f, N)
    BY <1>2
  <2> DEFINE g == [m \in 0..N + 1 |-> IF m = N + 1 THEN transfer(f[N], seq[m]) ELSE f[m]]
  <2>2. \A m \in 0..N + 1 : g[m] = IF m = 0 THEN w ELSE transfer(g[m - 1], seq[m])
    <3> SUFFICES ASSUME NEW m \in 0..N + 1
                 PROVE  g[m] = IF m = 0 THEN w ELSE transfer(g[m - 1], seq[m])
      OBVIOUS
    <3>1. CASE m = N + 1
      BY <3>1
    <3>2. CASE m # N + 1
      <4>1. m \in 0..N /\ g[m] = f[m]
        BY <3>2
      <4>2. f[m] = IF m = 0 THEN w ELSE transfer(f[m - 1], seq[m])
        BY <2>1, <4>1
      <4>3. m # 0 => m - 1 \in 0..N + 1 /\ m - 1 # N + 1
        BY <4>1
      <4> QED BY <4>1, <4>2, <4>3
    <3> QED BY <3>1, <3>2
  <2>3. F(g, N + 1)
    BY <2>2
  <2> HIDE DEF g, F
  <2>4. \E h : F(h, N + 1)
    BY <2>3
  <2> QED BY <2>4
<1>3. \E f : F(f, Len(seq))
  <2> HIDE DEF P
  <2>1. Nat \subseteq P
    BY <1>1, <1>2, NatSetInduction
  <2> QED BY <2>1 DEF P
<1>4. F(after, Len(seq))
  <2> HIDE DEF F
  <2> QED BY <1>3
<1>5. transfers(w, seq) = after[Len(seq)]
  BY DEF transfers
<1> HIDE DEF after
<1>6. \A n \in 0..Len(seq) : after[n] = IF n = 0 THEN w ELSE transfer(after[n - 1], seq[n])
  BY <1>4
<1>7. 0 \in 0..Len(seq) /\ \A n \in 1..Len(seq) : n \in 0..Len(seq) /\ n # 0
  OBVIOUS
<1>8. after[0] = w /\ \A n \in 1..Len(seq) : after[n] = transfer(after[n - 1], seq[n])
  BY <1>6, <1>7
<1> QED BY <1>5, <1>8

\* v is what operations on the amplifier alone leave of w.
OnAmp(v, w) == v \in WorldType /\ SameCard(v, w) /\ Steady(v, w)

\* After the first N transfers of seq a register keeps its value or has one that
\* they write, even when one fails; when none does, it has what was written last.
Wrote(v, w, seq, N) ==
    /\ \A r \in Regs :
           \/ v.amp[r] = w.amp[r]
           \/ \E n \in 1..N : seq[n][1] = r /\ v.amp[r] = seq[n][2]
    /\ v.ok => \A n \in 1..N :
           (\A m \in n + 1..N : seq[m][1] # seq[n][1]) => v.amp[seq[n][1]] = seq[n][2]

LEMMA Transfers ==
    ASSUME NEW w \in WorldType, NEW seq, Len(seq) \in Nat,
           \A n \in 1..Len(seq) : seq[n][1] \in Regs /\ seq[n][2] \in RegType[seq[n][1]]
    PROVE  OnAmp(transfers(w, seq), w) /\ Wrote(transfers(w, seq), w, seq, Len(seq))
<1>1. PICK f : /\ f[0] = w /\ transfers(w, seq) = f[Len(seq)]
               /\ \A n \in 1..Len(seq) : f[n] = transfer(f[n - 1], seq[n])
  BY TransferRow
<1> DEFINE Good(v, k) == OnAmp(v, w) /\ Wrote(v, w, seq, k)
           W == [k \in 0..Len(seq) |-> {v \in WorldType : Good(v, k)}]
<1>2. f[0] \in W[0]
  BY <1>1 DEF OnAmp, Wrote, SameCard, Steady
<1>3. ASSUME NEW k \in 1..Len(seq), f[k - 1] \in W[k - 1] PROVE f[k] \in W[k]
  <2> DEFINE u == f[k - 1]
             v == f[k]
             x == seq[k]
  <2> HIDE DEF Good
  <2>1. k - 1 \in 0..Len(seq) /\ k \in 0..Len(seq) /\ u \in WorldType /\ Good(u, k - 1)
    <3>1. k - 1 \in 0..Len(seq) /\ k \in 0..Len(seq)
      OBVIOUS
    <3>2. W[k - 1] = {y \in WorldType : Good(y, k - 1)}
      BY <3>1
    <3>3. u \in {y \in WorldType : Good(y, k - 1)}
      BY <1>3, <3>2
    <3> QED BY <3>1, <3>3
  <2>2. x[1] \in Regs /\ x[2] \in RegType[x[1]] /\ v = transfer(u, x)
    BY <1>1
  <2> HIDE DEF u, v, x, W
  <2>3. /\ v \in WorldType /\ SameCard(v, u) /\ Steady(v, u)
        /\ v.amp = u.amp \/ v.amp = [u.amp EXCEPT ![x[1]] = x[2]]
        /\ v.ok => v.amp = [u.amp EXCEPT ![x[1]] = x[2]]
    BY <2>1, <2>2, Transfer
  <2>4. \A r \in Regs : u.amp[r] = u.amp[r] /\ r \in DOMAIN u.amp
    BY <2>1 DEF WorldType, AmpType, Regs
  <2>5. \A r \in Regs : r # x[1] => v.amp[r] = u.amp[r]
    BY <2>3, <2>4
  <2>6. v.ok => v.amp[x[1]] = x[2]
    BY <2>2, <2>3, <2>4
  <2>7. SameCard(v, w) /\ Steady(v, w)
    BY <2>1, <2>3 DEF Good, OnAmp, SameCard, Steady
  <2>8. ASSUME NEW r \in Regs
        PROVE  v.amp[r] = w.amp[r] \/ \E n \in 1..k : seq[n][1] = r /\ v.amp[r] = seq[n][2]
    <3>1. CASE v.amp[r] = u.amp[r]
      <4>1. u.amp[r] = w.amp[r] \/ \E n \in 1..k - 1 : seq[n][1] = r /\ u.amp[r] = seq[n][2]
        BY <2>1 DEF Good, Wrote
      <4>2. \A n \in 1..k - 1 : n \in 1..k
        OBVIOUS
      <4> QED BY <3>1, <4>1, <4>2
    <3>2. CASE v.amp[r] # u.amp[r]
      <4>1. r = x[1] /\ v.amp[r] = x[2]
        BY <2>3, <2>4, <2>5, <3>2
      <4> QED BY <4>1 DEF x
    <3> QED BY <3>1, <3>2
  <2>9. ASSUME v.ok, NEW n \in 1..k, \A m \in n + 1..k : seq[m][1] # seq[n][1]
        PROVE  v.amp[seq[n][1]] = seq[n][2]
    <3>1. CASE n = k
      BY <2>6, <2>9, <3>1 DEF x
    <3>2. CASE n # k
      <4>1. n \in 1..k - 1 /\ k \in n + 1..k /\ u.ok
        BY <2>3, <2>9, <3>2 DEF Steady
      <4>2. \A m \in n + 1..k - 1 : m \in n + 1..k
        BY <4>1
      <4>3. u.amp[seq[n][1]] = seq[n][2]
        BY <2>1, <2>9, <4>1, <4>2 DEF Good, Wrote
      <4>4. seq[n][1] \in Regs /\ seq[n][1] # x[1]
        BY <2>9, <4>1 DEF x
      <4> QED BY <2>5, <4>3, <4>4
    <3> QED BY <3>1, <3>2
  <2>10. Good(v, k)
    BY <2>3, <2>7, <2>8, <2>9 DEF Good, OnAmp, Wrote
  <2> QED BY <2>1, <2>3, <2>10 DEF W, v
<1>4. f[Len(seq)] \in W[Len(seq)]
  <2> HIDE DEF W
  <2> QED BY <1>2, <1>3, RowInduction
<1> QED BY <1>1, <1>4

-----------------------------------------------------------------------------
(* The amplifier's operations                                              *)

LEMMA OnAmpTrans ==
    ASSUME NEW u, NEW v, NEW w, OnAmp(v, u), OnAmp(u, w)
    PROVE  OnAmp(v, w)
BY DEF OnAmp, SameCard, Steady

\* v and w agree on the registers of R.
Agree(v, w, R) == \A r \in R : v.amp[r] = w.amp[r]

LEMMA PowerOn ==
    ASSUME NEW w \in WorldType
    PROVE  LET v == power_on(w)
           IN  /\ OnAmp(v, w)
               /\ Agree(v, w, Regs \ {"chipen", "bst"})
               /\ v.ok => v.amp.bst = w.amp.mode_store
<1> DEFINE seq == << <<"chipen", w.amp.chipen \ {"PD"}>>, <<"bst", w.amp.mode_store>>,
                    <<"bias", w.amp.bias>> >>
           v == power_on(w)
<1>1. Len(seq) = 3 /\ seq[1] = <<"chipen", w.amp.chipen \ {"PD"}>>
      /\ seq[2] = <<"bst", w.amp.mode_store>> /\ seq[3] = <<"bias", w.amp.bias>>
  OBVIOUS
<1>2. v = transfers(w, seq)
  BY DEF power_on
<1> HIDE DEF seq, v
<1>3. \A n \in 1..Len(seq) : seq[n][1] \in Regs /\ seq[n][2] \in RegType[seq[n][1]]
  BY <1>1 DEF Regs, RegType, WorldType, AmpType
<1>4. OnAmp(v, w) /\ Wrote(v, w, seq, 3)
  <2>1. Len(seq) \in Nat
    BY <1>1
  <2>2. OnAmp(transfers(w, seq), w) /\ Wrote(transfers(w, seq), w, seq, Len(seq))
    BY <1>3, <2>1, Transfers, Zenon
  <2> QED BY <1>1, <1>2, <2>2
<1>5. v.ok => v.amp.bst = w.amp.mode_store
  BY <1>1, <1>4 DEF Wrote
<1>6. Agree(v, w, Regs \ {"chipen", "bst"})
  BY <1>1, <1>4 DEF Agree, Wrote
<1> QED BY <1>4, <1>5, <1>6 DEF v

LEMMA PowerOff ==
    ASSUME NEW w \in WorldType
    PROVE  LET v == power_off(w)
           IN  /\ OnAmp(v, w)
               /\ Agree(v, w, Regs \ {"chipen", "bst", "mode_store"})
               /\ v.ok => v.amp.mode_store = w.amp.bst
<1> DEFINE seq == << <<"bias", w.amp.bias>>, <<"mode_store", w.amp.bst>>, <<"bst", "low">>,
                    <<"chipen", w.amp.chipen \union {"PD"}>> >>
           v == power_off(w)
<1>1. Len(seq) = 4 /\ seq[1] = <<"bias", w.amp.bias>> /\ seq[2] = <<"mode_store", w.amp.bst>>
      /\ seq[3] = <<"bst", "low">> /\ seq[4] = <<"chipen", w.amp.chipen \union {"PD"}>>
  OBVIOUS
<1>2. v = transfers(w, seq)
  BY DEF power_off
<1> HIDE DEF seq, v
<1>3. \A n \in 1..Len(seq) : seq[n][1] \in Regs /\ seq[n][2] \in RegType[seq[n][1]]
  BY <1>1 DEF Regs, RegType, WorldType, AmpType
<1>4. OnAmp(v, w) /\ Wrote(v, w, seq, 4)
  <2>1. Len(seq) \in Nat
    BY <1>1
  <2>2. OnAmp(transfers(w, seq), w) /\ Wrote(transfers(w, seq), w, seq, Len(seq))
    BY <1>3, <2>1, Transfers, Zenon
  <2> QED BY <1>1, <1>2, <2>2
<1>5. v.ok => v.amp.mode_store = w.amp.bst
  BY <1>1, <1>4 DEF Wrote
<1>6. Agree(v, w, Regs \ {"chipen", "bst", "mode_store"})
  BY <1>1, <1>4 DEF Agree, Wrote
<1> QED BY <1>4, <1>5, <1>6 DEF v

\* One transfer, and two.
LEMMA One ==
    ASSUME NEW w \in WorldType, NEW r \in Regs, NEW a \in RegType[r]
    PROVE  LET v == transfers(w, << <<r, a>> >>)
           IN  /\ OnAmp(v, w) /\ Agree(v, w, Regs \ {r})
               /\ v.ok => v.amp[r] = a
<1> DEFINE seq == << <<r, a>> >>
           v == transfers(w, seq)
<1>1. Len(seq) = 1 /\ seq[1] = <<r, a>>
  OBVIOUS
<1> HIDE DEF seq
<1>2. Len(seq) \in Nat /\ \A n \in 1..Len(seq) : seq[n][1] \in Regs /\ seq[n][2] \in RegType[seq[n][1]]
  BY <1>1
<1>3. OnAmp(v, w) /\ Wrote(v, w, seq, Len(seq))
  BY <1>2, Transfers, Zenon
<1> HIDE DEF v
<1>4. Wrote(v, w, seq, 1)
  BY <1>1, <1>3
<1>5. Agree(v, w, Regs \ {r}) /\ (v.ok => v.amp[r] = a)
  BY <1>1, <1>4 DEF Agree, Wrote
<1> QED BY <1>3, <1>5 DEF v, seq

LEMMA Two ==
    ASSUME NEW w \in WorldType, NEW r \in Regs, NEW a \in RegType[r],
           NEW s \in Regs, NEW b \in RegType[s]
    PROVE  LET v == transfers(w, << <<r, a>>, <<s, b>> >>)
           IN  /\ OnAmp(v, w) /\ Agree(v, w, Regs \ {r, s})
               /\ v.ok => v.amp[s] = b /\ (r # s => v.amp[r] = a)
               /\ r = s /\ a = b => v.amp[r] \in {w.amp[r], a}
<1> DEFINE seq == << <<r, a>>, <<s, b>> >>
           v == transfers(w, seq)
<1>1. Len(seq) = 2 /\ seq[1] = <<r, a>> /\ seq[2] = <<s, b>>
  OBVIOUS
<1> HIDE DEF seq
<1>2. Len(seq) \in Nat /\ \A n \in 1..Len(seq) : seq[n][1] \in Regs /\ seq[n][2] \in RegType[seq[n][1]]
  BY <1>1
<1>3. OnAmp(v, w) /\ Wrote(v, w, seq, Len(seq))
  BY <1>2, Transfers, Zenon
<1> HIDE DEF v
<1>4. Wrote(v, w, seq, 2)
  BY <1>1, <1>3
<1>5. Agree(v, w, Regs \ {r, s}) /\ (r = s /\ a = b => v.amp[r] \in {w.amp[r], a})
  BY <1>1, <1>4 DEF Agree, Wrote
<1>6. v.ok => v.amp[s] = b /\ (r # s => v.amp[r] = a)
  BY <1>1, <1>4 DEF Wrote
<1> QED BY <1>3, <1>5, <1>6 DEF v, seq

\* What a control leaves of the amplifier, whether or not it is powered.
Kept(v, w) ==
    /\ Agree(v, w, {"chip_on", "clk", "prot", "bias"})
    /\ w.amp.chip_on => Agree(v, w, {"chipen", "bst", "mode_store"})
    /\ v.ok => Agree(v, w, {"mode_store"})
Gentle(v, w) == OnAmp(v, w) /\ Kept(v, w)

LEMMA GentleTrans ==
    ASSUME NEW u, NEW v, NEW w, Gentle(v, u), Gentle(u, w)
    PROVE  Gentle(v, w)
<1>1. OnAmp(v, w)
  BY OnAmpTrans DEF Gentle, Kept
<1>2. v.ok => u.ok
  BY DEF Gentle, Kept, OnAmp, Steady
<1> QED BY <1>1, <1>2 DEF Gentle, Kept, Agree

\* The transfers that a control makes.
Controls(w, seq, N) ==
    \A n \in 1..N :
        /\ seq[n][1] \in {"fmt", "slots", "pll", "chip_on"}
        /\ seq[n][2] \in RegType[seq[n][1]]
        /\ seq[n][1] = "chip_on" => seq[n][2] = w.amp.chip_on

\* What they write to its registers.
Controlled(v, w, seq, N) ==
    /\ Gentle(v, w) /\ Agree(v, w, {"tdm"})
    /\ w.ok \/ Agree(v, w, {"fmt", "slots", "pll"})
    /\ \A r \in {"fmt", "slots", "pll"} :
          \/ v.amp[r] = w.amp[r]
          \/ \E n \in 1..N : seq[n][1] = r /\ v.amp[r] = seq[n][2]
    /\ v.ok => \A n \in 1..N :
           /\ seq[n][1] # "chip_on"
           /\ \A m \in n + 1..N : seq[m][1] # seq[n][1]
           => v.amp[seq[n][1]] = seq[n][2]

LEMMA Awake ==
    ASSUME NEW w \in WorldType, NEW seq, Len(seq) \in Nat, Controls(w, seq, Len(seq))
    PROVE  Controlled(awake(w, seq), w, seq, Len(seq))
<1> DEFINE a == wake(w)
           b == transfers(a, seq)
           d == [b EXCEPT !.ok = TRUE]
           c == sleep(d)
           v == awake(w, seq)
<1>1. v = IF a.ok THEN [c EXCEPT !.ok = c.ok /\ b.ok] ELSE a
  BY DEF awake
<1>2. /\ OnAmp(a, w) /\ Agree(a, w, Regs \ {"chipen", "bst"})
      /\ w.amp.chip_on => a = w
      /\ ~w.amp.chip_on /\ a.ok => a.amp.bst = w.amp.mode_store
  <2>1. CASE w.amp.chip_on
    BY <2>1 DEF wake, OnAmp, SameCard, Steady, Agree
  <2>2. CASE ~w.amp.chip_on
    BY <2>2, PowerOn DEF wake
  <2> QED BY <2>1, <2>2
<1>3. \A n \in 1..Len(seq) : seq[n][1] \in Regs /\ seq[n][2] \in RegType[seq[n][1]]
  BY DEF Regs, Controls
<1>4. OnAmp(b, a) /\ Wrote(b, a, seq, Len(seq))
  <2>1. a \in WorldType
    BY <1>2 DEF OnAmp
  <2> HIDE DEF a
  <2> QED BY <1>3, <2>1, Transfers
<1> HIDE DEF a, b
<1>5. Agree(b, a, Regs \ {"fmt", "slots", "pll"})
  <2> SUFFICES ASSUME NEW r \in Regs \ {"fmt", "slots", "pll"} PROVE b.amp[r] = a.amp[r]
    BY DEF Agree
  <2>1. a.amp.chip_on = w.amp.chip_on
    BY <1>2 DEF Agree, Regs
  <2> QED BY <1>4, <2>1 DEF Wrote, Controls
<1>6. d \in WorldType /\ SameCard(d, b) /\ d.amp = b.amp /\ d.ok /\ d.at = b.at
  BY <1>4 DEF OnAmp, WorldType, SameCard
<1> HIDE DEF d
<1>7. /\ OnAmp(c, d) /\ Agree(c, d, Regs \ {"chipen", "bst", "mode_store"})
      /\ d.amp.chip_on => c = d
      /\ ~d.amp.chip_on /\ c.ok => c.amp.mode_store = d.amp.bst
  <2>1. CASE d.amp.chip_on
    BY <1>6, <2>1 DEF sleep, OnAmp, SameCard, Steady, Agree
  <2>2. CASE ~d.amp.chip_on
    BY <1>6, <2>2, PowerOff DEF sleep
  <2> QED BY <2>1, <2>2
<1> HIDE DEF c
<1>8. CASE ~a.ok
  <2>1. v = a
    BY <1>1, <1>8
  <2> HIDE DEF v
  <2>2. Gentle(v, w)
    BY <1>2, <1>8, <2>1 DEF Gentle, Kept, Agree, Regs
  <2> QED BY <1>2, <1>8, <2>1, <2>2 DEF Agree, Regs, Controlled, v
<1>9. CASE a.ok
  <2>1. v = [c EXCEPT !.ok = c.ok /\ b.ok]
    BY <1>1, <1>9
  <2>2. /\ v \in WorldType /\ v.amp = c.amp /\ (v.ok <=> c.ok /\ b.ok) /\ v.at = c.at
        /\ SameCard(v, c)
    BY <1>4, <1>7, <2>1 DEF OnAmp, WorldType, SameCard
  <2> HIDE DEF v
  <2>3. OnAmp(v, w)
    BY <1>2, <1>4, <1>6, <1>7, <2>2 DEF OnAmp, SameCard, Steady
  <2>4. Agree(v, w, {"chip_on", "clk", "prot", "bias", "tdm"})
    BY <1>2, <1>5, <1>6, <1>7, <2>2 DEF Agree, Regs
  <2>5. d.amp.chip_on = w.amp.chip_on /\ Agree(d, a, {"chipen", "bst", "mode_store"})
    BY <1>2, <1>5, <1>6 DEF Agree, Regs
  <2>6. w.amp.chip_on => Agree(v, w, {"chipen", "bst", "mode_store"})
    BY <1>2, <1>7, <2>2, <2>5 DEF Agree
  <2>7. v.ok => v.amp.mode_store = w.amp.mode_store
    BY <1>2, <1>7, <1>9, <2>2, <2>5, <2>6 DEF Agree, Regs
  <2>8. \A r \in {"fmt", "slots", "pll"} : v.amp[r] = b.amp[r] /\ a.amp[r] = w.amp[r]
    BY <1>2, <1>6, <1>7, <2>2 DEF Agree, Regs
  <2>9. Gentle(v, w)
    BY <2>3, <2>4, <2>6, <2>7 DEF Gentle, Kept, Agree
  <2>10. \A r \in {"fmt", "slots", "pll"} :
             \/ v.amp[r] = w.amp[r]
             \/ \E n \in 1..Len(seq) : seq[n][1] = r /\ v.amp[r] = seq[n][2]
    BY <1>4, <2>8 DEF Wrote, Regs
  <2>11. ASSUME v.ok, NEW n \in 1..Len(seq), seq[n][1] # "chip_on",
                \A m \in n + 1..Len(seq) : seq[m][1] # seq[n][1]
         PROVE  v.amp[seq[n][1]] = seq[n][2]
    <3>1. b.amp[seq[n][1]] = seq[n][2]
      BY <1>4, <2>2, <2>11 DEF Wrote
    <3>2. seq[n][1] \in {"fmt", "slots", "pll"}
      BY <2>11 DEF Controls
    <3> QED BY <2>8, <3>1, <3>2
  <2>12. w.ok
    BY <1>2, <1>9 DEF OnAmp, Steady
  <2> QED BY <2>4, <2>9, <2>10, <2>11, <2>12 DEF Agree, Controlled, v
<1> QED BY <1>8, <1>9

\* The divisor that goes with the bit clock of the ports.
Divisor == rate_pll(slot_pll(SlotWidth), Rate) \div 2

LEMMA DivisorValue ==
    /\ Divisor = 524288 /\ Divisor \in Nat /\ Divisor # 0
    /\ rate_pll(slot_pll(SlotWidth), Rate) \in Nat
<1>1. slot_pll(SlotWidth) = 1048576
  BY SMT DEF slot_pll, SlotWidth
<1>2. rate_pll(1048576, Rate) = 1048576
  BY SMT DEF rate_pll, Rate
<1> QED BY <1>1, <1>2, SMT DEF Divisor

\* The divisor is set in TDM mode, where the slots are.
Tuned(a) == /\ a.tdm => a.slots
            /\ a.pll \in {0, Divisor}
            /\ a.pll # 0 => a.tdm

LEMMA PutVolsw ==
    ASSUME NEW w \in WorldType
    PROVE  Gentle(put_volsw(w), w) /\ Agree(put_volsw(w), w, {"tdm", "slots", "pll"})
<1> DEFINE seq == << <<"chip_on", w.amp.chip_on>> >>
           v == awake(w, seq)
<1>1. Len(seq) = 1 /\ seq[1] = <<"chip_on", w.amp.chip_on>>
  OBVIOUS
<1>2. w.amp.chip_on \in RegType["chip_on"]
  BY DEF RegType, WorldType, AmpType
<1> HIDE DEF seq
<1>3. Len(seq) \in Nat /\ Controls(w, seq, Len(seq))
  BY <1>1, <1>2 DEF Controls
<1>4. Controlled(v, w, seq, 1)
  <2>1. Controlled(v, w, seq, Len(seq))
    BY <1>3, Awake, Zenon
  <2> QED BY <1>1, <2>1
<1> HIDE DEF v
<1>5. Agree(v, w, {"tdm", "slots", "pll"})
  BY <1>1, <1>4 DEF Agree, Controlled
<1> QED BY <1>4, <1>5 DEF Controlled, put_volsw, v, seq

LEMMA SetFmt ==
    ASSUME NEW w \in WorldType
    PROVE  Gentle(set_fmt(w), w) /\ Agree(set_fmt(w), w, {"tdm", "slots", "pll"})
<1> DEFINE seq == << <<"fmt", w.amp.fmt>> >>
           v == awake(w, seq)
<1>1. Len(seq) = 1 /\ seq[1] = <<"fmt", w.amp.fmt>>
  OBVIOUS
<1>2. w.amp.fmt \in RegType["fmt"]
  BY DEF RegType, WorldType, AmpType
<1> HIDE DEF seq
<1>3. Len(seq) \in Nat /\ Controls(w, seq, Len(seq))
  BY <1>1, <1>2 DEF Controls
<1>4. Controlled(v, w, seq, 1)
  <2>1. Controlled(v, w, seq, Len(seq))
    BY <1>3, Awake, Zenon
  <2> QED BY <1>1, <2>1
<1> HIDE DEF v
<1>5. Agree(v, w, {"tdm", "slots", "pll"})
  BY <1>1, <1>4 DEF Agree, Controlled
<1> QED BY <1>4, <1>5 DEF Controlled, set_fmt, v, seq

\* TDM mode, with its slots; a failure leaves the mode as it was.
LEMMA SetTdmSlot ==
    ASSUME NEW w \in WorldType, Tuned(w.amp)
    PROVE  LET v == set_tdm_slot(w)
           IN  /\ Gentle(v, w) /\ Tuned(v.amp) /\ Agree(v, w, {"pll"})
               /\ v.ok => v.amp.tdm
<1> DEFINE yes == TRUE
           seq == << <<"slots", yes>>, <<"slots", yes>> >>
           r == awake(w, seq)
           v == IF r.ok THEN [r EXCEPT !.amp.tdm = TRUE] ELSE r
<1>1. yes \in RegType["slots"]
  BY DEF RegType
<1> HIDE DEF yes
<1>2. Len(seq) = 2 /\ seq[1] = <<"slots", yes>> /\ seq[2] = <<"slots", yes>>
  OBVIOUS
<1> HIDE DEF seq
<1>3. Len(seq) \in Nat /\ Controls(w, seq, Len(seq))
  BY <1>2, <1>1 DEF Controls
<1>4. Controlled(r, w, seq, 2)
  <2>1. Controlled(r, w, seq, Len(seq))
    BY <1>3, Awake, Zenon
  <2> QED BY <1>2, <2>1
<1> HIDE DEF r
<1>5. Agree(r, w, {"tdm", "pll"}) /\ r.amp.slots \in {w.amp.slots, yes}
  BY <1>2, <1>4 DEF Agree, Controlled
<1>6. r.ok => r.amp.slots = yes
  BY <1>2, <1>4 DEF Controlled
<1>7. r \in WorldType
  BY <1>4 DEF Gentle, Kept, OnAmp, Controlled
<1>8. CASE ~r.ok
  <2>1. v = r
    BY <1>8
  <2> HIDE DEF v
  <2>2. Gentle(v, w) /\ Tuned(v.amp) /\ Agree(v, w, {"pll"}) /\ ~v.ok
    BY <1>4, <1>5, <1>7, <1>8, <2>1 DEF Controlled, Tuned, Agree, WorldType, AmpType, yes
  <2> QED BY <2>2 DEF v, set_tdm_slot, r, seq, yes
<1>9. CASE r.ok
  <2>1. v = [r EXCEPT !.amp.tdm = TRUE]
    BY <1>9
  <2> HIDE DEF v
  <2>2. /\ v \in WorldType /\ v.amp = [r.amp EXCEPT !.tdm = TRUE] /\ v.ok = r.ok /\ v.at = r.at
        /\ SameCard(v, r)
    BY <1>7, <2>1 DEF WorldType, AmpType, SameCard
  <2>3. v.amp.tdm /\ Agree(v, r, Regs \ {"tdm"})
    BY <1>7, <2>2 DEF WorldType, AmpType, Agree, Regs
  <2>4. Gentle(v, w)
    BY <1>4, <2>2, <2>3 DEF Controlled, Gentle, Kept, OnAmp, Agree, Regs, SameCard, Steady
  <2>5. Tuned(v.amp) /\ Agree(v, w, {"pll"})
    BY <1>5, <1>6, <1>9, <2>3 DEF Tuned, Agree, Regs, yes
  <2> QED BY <2>3, <2>4, <2>5 DEF v, set_tdm_slot, r, seq, yes
<1> QED BY <1>8, <1>9

LEMMA HwParams ==
    ASSUME NEW w \in WorldType, Tuned(w.amp), w.ok => w.amp.tdm
    PROVE  LET v == hw_params(w, SlotWidth, Rate)
           IN  /\ Gentle(v, w) /\ Tuned(v.amp)
               /\ w.amp.pll # 0 => v.amp.pll # 0
               /\ v.ok => v.amp.pll # 0
<1> DEFINE pll == rate_pll(slot_pll(SlotWidth), Rate)
           N == IF w.amp.tdm THEN pll \div 2 ELSE pll
           yes == TRUE
           seq == << <<"fmt", w.amp.fmt>>, <<"fmt", yes>>, <<"pll", N>> >>
           v == awake(w, seq)
<1>1. N \in Nat /\ (w.amp.tdm => N = Divisor) /\ Divisor # 0
  BY DivisorValue DEF Divisor, WorldType, AmpType
<1> HIDE DEF pll, N
<1>2. w.amp.fmt \in RegType["fmt"] /\ yes \in RegType["fmt"] /\ N \in RegType["pll"]
  BY <1>1 DEF RegType, WorldType, AmpType
<1> HIDE DEF yes
<1>3. Len(seq) = 3 /\ seq[1] = <<"fmt", w.amp.fmt>> /\ seq[2] = <<"fmt", yes>> /\ seq[3] = <<"pll", N>>
  OBVIOUS
<1> HIDE DEF seq
<1>4. Len(seq) \in Nat /\ Controls(w, seq, Len(seq))
  BY <1>3, <1>2 DEF Controls
<1>5. Controlled(v, w, seq, 3)
  <2>1. Controlled(v, w, seq, Len(seq))
    BY <1>4, Awake, Zenon
  <2> QED BY <1>3, <2>1
<1> HIDE DEF v
<1>6. Agree(v, w, {"tdm", "slots"}) /\ v.amp.pll \in {w.amp.pll, N}
  BY <1>3, <1>5 DEF Agree, Controlled
<1>7. v.ok => v.amp.pll = N
  BY <1>3, <1>5 DEF Controlled
<1>8. (v.ok => w.ok) /\ (~w.ok => v.amp.pll = w.amp.pll)
  BY <1>5 DEF Gentle, Kept, OnAmp, Steady, Agree, Controlled
<1>9. /\ Tuned(v.amp) /\ (w.amp.pll # 0 => v.amp.pll # 0) /\ (v.ok => v.amp.pll # 0)
  BY <1>1, <1>6, <1>7, <1>8 DEF Tuned, Agree
<1>10. v = hw_params(w, SlotWidth, Rate)
  BY DEF hw_params, v, seq, N, pll, yes
<1> QED BY <1>5, <1>9, <1>10 DEF Controlled

CardFields == {"ports", "port_cfg", "clk_count", "started", "slots", "tdm", "port_data",
               "port_map", "copps"}
\* The drivers' state but for the fields of F.
SameBut(v, w, F) == \A k \in CardFields \ F : v.card[k] = w.card[k]

\* What hw_params leaves of w.
Params(v, w) ==
    /\ v \in WorldType /\ Steady(v, w)
    /\ v.dsp = w.dsp /\ v.late = w.late /\ v.how = w.how
    /\ SameBut(v, w, {"slots", "tdm", "port_data"})
    /\ w.card.slots \subseteq v.card.slots /\ w.card.tdm \subseteq v.card.tdm
    /\ Kept(v, w)
    /\ Tuned(v.amp) /\ (w.amp.pll # 0 => v.amp.pll # 0)

LEMMA ParamsTrans ==
    ASSUME NEW u, NEW v, NEW w, Params(v, u), Params(u, w)
    PROVE  Params(v, w)
<1>1. v.ok => u.ok
  BY DEF Params, Steady
<1>2. Kept(v, w)
  BY <1>1 DEF Params, Kept, Agree
<1>3. SameBut(v, w, {"slots", "tdm", "port_data"})
  BY DEF Params, SameBut
<1> QED BY <1>2, <1>3 DEF Params, Steady

LEMMA BeHwParams ==
    ASSUME NEW w \in WorldType, NEW p \in Ports, Tuned(w.amp)
    PROVE  LET v == be_hw_params(w, p)
           IN  /\ Params(v, w)
               /\ v.ok => p \in v.card.slots /\ p \in v.card.tdm /\ (p = Speaker => v.amp.pll # 0)
<1> DEFINE a == IF p = Speaker THEN set_tdm_slot(set_fmt(w)) ELSE w
           m == q6tdm_set_tdm_slot(a, p)
           c == IF p = Speaker THEN hw_params(m, SlotWidth, Rate) ELSE m
           d == q6tdm_hw_params(c, p)
           v == routing_hw_params(d, p)
<1>1. v = be_hw_params(w, p)
  BY DEF be_hw_params, tdm_hw_params
<1>2. /\ Gentle(a, w) /\ Tuned(a.amp)
      /\ w.amp.pll # 0 => a.amp.pll # 0
      /\ p = Speaker /\ a.ok => a.amp.tdm
  <2>1. CASE p # Speaker
    BY <2>1 DEF Gentle, Kept, OnAmp, SameCard, Steady, Agree
  <2>2. CASE p = Speaker
    <3> DEFINE e == set_fmt(w)
    <3>1. Gentle(e, w) /\ Agree(e, w, {"tdm", "slots", "pll"})
      BY SetFmt
    <3>2. a = set_tdm_slot(e)
      BY <2>2
    <3> HIDE DEF e, a
    <3>3. e \in WorldType /\ Tuned(e.amp) /\ e.amp.pll = w.amp.pll
      BY <3>1 DEF Gentle, OnAmp, Agree, Tuned
    <3>4. Gentle(a, e) /\ Tuned(a.amp) /\ Agree(a, e, {"pll"}) /\ (a.ok => a.amp.tdm)
      BY <3>2, <3>3, SetTdmSlot
    <3>5. Gentle(a, w)
      BY <3>1, <3>4, GentleTrans
    <3> QED BY <3>3, <3>4, <3>5 DEF Agree
  <2> QED BY <2>1, <2>2
<1> HIDE DEF a
<1>3. /\ m \in WorldType /\ m.amp = a.amp /\ m.ok = a.ok /\ m.at = a.at /\ m.dsp = a.dsp
      /\ m.late = a.late /\ m.how = a.how /\ SameBut(m, a, {"slots"})
      /\ a.card.slots \subseteq m.card.slots /\ (m.ok => p \in m.card.slots)
  BY <1>2 DEF q6tdm_set_tdm_slot, Gentle, OnAmp, WorldType, CardType, SameBut, CardFields
<1>4. Params(m, w)
  <2>1. Kept(m, w)
    BY <1>2, <1>3 DEF Gentle, Kept, Agree
  <2>2. a.card = w.card /\ a.dsp = w.dsp /\ a.late = w.late /\ a.how = w.how /\ Steady(m, w)
    BY <1>2, <1>3 DEF Gentle, OnAmp, SameCard, Steady
  <2>3. SameBut(m, w, {"slots", "tdm", "port_data"}) /\ m.card.tdm = w.card.tdm
    BY <1>3, <2>2 DEF SameBut, CardFields
  <2> QED BY <1>2, <1>3, <2>1, <2>2, <2>3 DEF Params
<1> HIDE DEF m
<1>5. /\ OnAmp(c, m) /\ Kept(c, m) /\ Tuned(c.amp) /\ (m.amp.pll # 0 => c.amp.pll # 0)
      /\ p = Speaker /\ c.ok => c.amp.pll # 0
  <2>1. CASE p # Speaker
    BY <1>3, <1>4, <2>1 DEF Kept, OnAmp, SameCard, Steady, Agree, Params
  <2>2. CASE p = Speaker
    <3>1. m.ok => m.amp.tdm
      BY <1>2, <1>3, <2>2
    <3>2. Tuned(m.amp)
      BY <1>4 DEF Params
    <3>3. c = hw_params(m, SlotWidth, Rate)
      BY <2>2
    <3> HIDE DEF c
    <3> QED BY <1>3, <3>1, <3>2, <3>3, HwParams DEF Gentle
  <2> QED BY <2>1, <2>2
<1> HIDE DEF c
<1>6. /\ Params(c, m) /\ (c.ok => m.ok) /\ c.card = m.card
  BY <1>5 DEF Params, OnAmp, SameCard, Steady, SameBut
<1>7. /\ d \in WorldType /\ d.amp = c.amp /\ d.ok = c.ok /\ d.at = c.at /\ d.dsp = c.dsp
      /\ d.late = c.late /\ d.how = c.how /\ SameBut(d, c, {"tdm"})
      /\ c.card.tdm \subseteq d.card.tdm /\ (d.ok => p \in d.card.tdm)
  BY <1>6 DEF q6tdm_hw_params, Params, WorldType, CardType, SameBut, CardFields
<1> HIDE DEF d
<1>8. /\ v \in WorldType /\ v.amp = d.amp /\ v.ok = d.ok /\ v.at = d.at /\ v.dsp = d.dsp
      /\ v.late = d.late /\ v.how = d.how /\ SameBut(v, d, {"port_data"})
  BY <1>7 DEF routing_hw_params, WorldType, CardType, SameBut, CardFields
<1> HIDE DEF v
<1>9. Params(v, c)
  <2>1. /\ v.card.slots = c.card.slots /\ c.card.tdm \subseteq v.card.tdm
        /\ SameBut(v, c, {"slots", "tdm", "port_data"})
    BY <1>7, <1>8 DEF SameBut, CardFields
  <2>2. Kept(v, c)
    BY <1>7, <1>8 DEF Kept, Agree
  <2> QED BY <1>6, <1>7, <1>8, <2>1, <2>2 DEF Params, Steady
<1>10. Params(v, w)
  BY <1>4, <1>6, <1>9, ParamsTrans
<1>11. ASSUME v.ok PROVE p \in v.card.slots /\ p \in v.card.tdm /\ (p = Speaker => v.amp.pll # 0)
  <2>1. d.ok /\ c.ok /\ m.ok
    BY <1>6, <1>7, <1>8, <1>11
  <2>2. v.card.tdm = d.card.tdm /\ v.card.slots = m.card.slots /\ v.amp = c.amp
    BY <1>6, <1>7, <1>8 DEF SameBut, CardFields
  <2> QED BY <1>3, <1>5, <1>7, <2>1, <2>2
<1> QED BY <1>1, <1>10, <1>11

LEMMA FinitePorts ==
    ASSUME NEW S \in SUBSET Ports
    PROVE  IsFiniteSet(S)
BY Q6AudioAssumption, FS_Subset

\* All back ends of a stream.
LEMMA ParamsAll ==
    ASSUME NEW w \in WorldType, NEW S \in SUBSET Ports, Tuned(w.amp)
    PROVE  LET v == Each(w, S, be_hw_params)
           IN  /\ Params(v, w)
               /\ v.ok => /\ S \subseteq v.card.slots /\ S \subseteq v.card.tdm
                          /\ Speaker \in S => v.amp.pll # 0
<1> DEFINE q == SetToSeq(S)
           N == Cardinality(S)
           Did(x, p) == p \in x.card.slots /\ p \in x.card.tdm /\ (p = Speaker => x.amp.pll # 0)
           W == [n \in 0..N |-> {x \in WorldType : Params(x, w) /\ (x.ok => \A k \in 1..n : Did(x, q[k]))}]
<1>1. IsFiniteSet(S)
  BY FinitePorts
<1>2. PICK f : Row(f, "params", {}, w, S) /\ Each(w, S, be_hw_params) = f[N]
  BY <1>1, EachParams
<1>3. /\ N \in Nat /\ \A n \in 1..N : q[n] \in S
      /\ \A p \in S : \E n \in 1..N : q[n] = p
  BY <1>1, Order
<1> HIDE DEF q, N
<1>4. f[0] = w /\ \A n \in 1..N : f[n] = be_hw_params(f[n - 1], q[n])
  BY <1>2 DEF Row, Do, q, N
<1>5. f[0] \in W[0]
  <2>1. Params(w, w)
    BY DEF Params, Steady, SameBut, Kept, Agree
  <2> QED BY <1>3, <1>4, <2>1
<1>6. ASSUME NEW n \in 1..N, f[n - 1] \in W[n - 1] PROVE f[n] \in W[n]
  <2> DEFINE u == f[n - 1]
             v == f[n]
             p == q[n]
  <2>1. n - 1 \in 0..N /\ n \in 0..N
    BY <1>3
  <2>2. u \in WorldType /\ Params(u, w) /\ (u.ok => \A k \in 1..n - 1 : Did(u, q[k]))
    BY <1>6, <2>1
  <2>3. p \in Ports /\ v = be_hw_params(u, p)
    BY <1>3, <1>4
  <2> HIDE DEF W, u, v, p
  <2>4. Params(v, u) /\ (v.ok => Did(v, p))
    BY <2>2, <2>3, BeHwParams DEF Params
  <2> HIDE DEF Did
  <2>5. Params(v, w)
    BY <2>2, <2>4, ParamsTrans
  <2>6. ASSUME v.ok, NEW k \in 1..n PROVE Did(v, q[k])
    <3>1. CASE k = n
      BY <2>4, <2>6, <3>1 DEF p
    <3>2. CASE k # n
      <4>1. k \in 1..n - 1 /\ u.ok
        BY <2>4, <2>6, <3>2 DEF Params, Steady
      <4>2. Did(u, q[k])
        BY <2>2, <4>1
      <4> QED BY <2>4, <4>2 DEF Did, Params
    <3> QED BY <3>1, <3>2
  <2>7. v \in WorldType
    BY <2>5 DEF Params
  <2>8. W[n] = {x \in WorldType : Params(x, w) /\ (x.ok => \A k \in 1..n : Did(x, q[k]))}
    BY <2>1 DEF W
  <2>9. v \in W[n]
    BY <2>5, <2>6, <2>7, <2>8
  <2> QED BY <2>9 DEF v
<1>7. f[N] \in W[N]
  <2> HIDE DEF W
  <2> QED BY <1>3, <1>5, <1>6, RowInduction
<1>8. Params(f[N], w) /\ (f[N].ok => \A k \in 1..N : Did(f[N], q[k]))
  BY <1>3, <1>7
<1>9. ASSUME f[N].ok PROVE \A p \in S : Did(f[N], p)
  <2> HIDE DEF Did
  <2> QED BY <1>3, <1>8, <1>9
<1>10. Params(f[N], w) /\ (f[N].ok => \A p \in S : Did(f[N], p))
  BY <1>8, <1>9
<1> QED BY <1>2, <1>10

-----------------------------------------------------------------------------
(* The steps of its power sequence                                         *)

BB == {"boost", "bypass"}

LEMMA Standby ==
    ASSUME NEW w \in WorldType
    PROVE  LET v == set_bias_standby(w)
           IN  /\ OnAmp(v, w) /\ Agree(v, w, {"tdm", "slots", "pll", "mode_store"})
               /\ v.ok => v.amp.chip_on
               /\ w.amp.chip_on => v = w
               /\ v.ok /\ ~w.amp.chip_on => v.amp.bst = w.amp.mode_store
<1> DEFINE r == power_on(w)
           v == [r EXCEPT !.amp.chip_on = r.ok]
<1>1. CASE w.amp.chip_on
  BY <1>1 DEF set_bias_standby, OnAmp, SameCard, Steady, Agree
<1>2. CASE ~w.amp.chip_on
  <2>1. v = set_bias_standby(w)
    BY <1>2 DEF set_bias_standby
  <2>2. /\ OnAmp(r, w) /\ Agree(r, w, Regs \ {"chipen", "bst"})
        /\ r.ok => r.amp.bst = w.amp.mode_store
    BY PowerOn
  <2> HIDE DEF r
  <2>3. /\ v \in WorldType /\ SameCard(v, r) /\ v.ok = r.ok /\ v.at = r.at
        /\ v.amp.chip_on = r.ok /\ Agree(v, r, Regs \ {"chip_on"})
    BY <2>2 DEF OnAmp, WorldType, AmpType, SameCard, Agree, Regs
  <2> HIDE DEF v
  <2>4. OnAmp(v, w)
    BY <2>2, <2>3 DEF OnAmp, SameCard, Steady
  <2> QED BY <1>2, <2>1, <2>2, <2>3, <2>4 DEF Agree, Regs
<1> QED BY <1>1, <1>2

LEMMA Off ==
    ASSUME NEW w \in WorldType
    PROVE  LET v == set_bias_off(w)
           IN  /\ OnAmp(v, w) /\ Agree(v, w, {"tdm", "slots", "pll"}) /\ ~v.amp.chip_on
               /\ v.ok /\ w.amp.chip_on => v.amp.mode_store = w.amp.bst
               /\ ~w.amp.chip_on => v = w
<1> DEFINE r == power_off(w)
           v == [r EXCEPT !.amp.chip_on = FALSE]
<1>1. CASE ~w.amp.chip_on
  BY <1>1 DEF set_bias_off, OnAmp, SameCard, Steady, Agree
<1>2. CASE w.amp.chip_on
  <2>1. v = set_bias_off(w)
    BY <1>2 DEF set_bias_off
  <2>2. /\ OnAmp(r, w) /\ Agree(r, w, Regs \ {"chipen", "bst", "mode_store"})
        /\ r.ok => r.amp.mode_store = w.amp.bst
    BY PowerOff
  <2> HIDE DEF r
  <2>3. /\ v \in WorldType /\ SameCard(v, r) /\ v.ok = r.ok /\ v.at = r.at
        /\ ~v.amp.chip_on /\ Agree(v, r, Regs \ {"chip_on"})
    BY <2>2 DEF OnAmp, WorldType, AmpType, SameCard, Agree, Regs
  <2> HIDE DEF v
  <2>4. OnAmp(v, w)
    BY <2>2, <2>3 DEF OnAmp, SameCard, Steady
  <2> QED BY <1>2, <2>1, <2>2, <2>3, <2>4 DEF Agree, Regs
<1> QED BY <1>1, <1>2

LEMMA ClkEvent ==
    ASSUME NEW w \in WorldType
    PROVE  /\ OnAmp(clk_event_up(w), w) /\ Agree(clk_event_up(w), w, Regs \ {"clk"})
           /\ clk_event_up(w).ok => clk_event_up(w).amp.clk
           /\ OnAmp(clk_event_down(w), w) /\ Agree(clk_event_down(w), w, Regs \ {"clk"})
<1> DEFINE was == w.amp.clk
           yes == TRUE
           no  == FALSE
           v == transfers(w, << <<"clk", was>>, <<"clk", yes>> >>)
           u == transfers(w, << <<"clk", was>>, <<"clk", no>> >>)
<1>1. "clk" \in Regs /\ was \in RegType["clk"] /\ yes \in RegType["clk"] /\ no \in RegType["clk"]
  BY DEF Regs, RegType, WorldType, AmpType
<1> HIDE DEF was, yes, no
<1>2. OnAmp(v, w) /\ Agree(v, w, Regs \ {"clk", "clk"}) /\ (v.ok => v.amp["clk"] = yes)
  BY <1>1, Two
<1>3. OnAmp(u, w) /\ Agree(u, w, Regs \ {"clk", "clk"})
  BY <1>1, Two
<1>4. v = clk_event_up(w) /\ u = clk_event_down(w)
  BY DEF clk_event_up, clk_event_down, was, yes, no
<1> HIDE DEF u, v
<1>5. Agree(v, w, Regs \ {"clk"}) /\ Agree(u, w, Regs \ {"clk"}) /\ (v.ok => v.amp.clk)
  BY <1>2, <1>3 DEF Agree, yes
<1> QED BY <1>2, <1>3, <1>4, <1>5

LEMMA SaveMode ==
    ASSUME NEW w \in WorldType
    PROVE  LET v == save_mode(w)
           IN  /\ OnAmp(v, w) /\ Agree(v, w, Regs \ {"mode_store"})
               /\ v.ok => v.amp.mode_store = w.amp.bst
<1> DEFINE was == w.amp.bst
           v == transfers(w, << <<"mode_store", was>> >>)
<1>1. "mode_store" \in Regs /\ was \in RegType["mode_store"]
  BY DEF Regs, RegType, WorldType, AmpType
<1> HIDE DEF was
<1>2. OnAmp(v, w) /\ Agree(v, w, Regs \ {"mode_store"}) /\ (v.ok => v.amp["mode_store"] = was)
  BY <1>1, One
<1>3. v = save_mode(w)
  BY DEF save_mode, was
<1> HIDE DEF v
<1> QED BY <1>2, <1>3 DEF was

LEMMA PrePmu ==
    ASSUME NEW w \in WorldType
    PROVE  LET v == amp_pre_pmu(w)
           IN  /\ OnAmp(v, w)
               /\ Agree(v, w, Regs \ {"mode_store", "bst", "bias", "prot", "chipen"})
               /\ v.ok => /\ v.amp.mode_store = w.amp.bst /\ v.amp.bias /\ v.amp.prot
                         /\ v.amp.chipen = {"TRI"}
<1> DEFINE yes == TRUE
           tri == {"TRI"}
           a == save_mode(w)
           b == transfers(a, << <<"bst", "pump">>, <<"bias", yes>> >>)
           v == transfers(b, << <<"prot", yes>>, <<"chipen", tri>> >>)
<1>1. /\ "bst" \in Regs /\ "bias" \in Regs /\ "prot" \in Regs /\ "chipen" \in Regs
      /\ "pump" \in RegType["bst"] /\ yes \in RegType["bias"] /\ yes \in RegType["prot"]
      /\ tri \in RegType["chipen"] /\ "bst" # "bias" /\ "prot" # "chipen"
  BY DEF Regs, RegType
<1>2. v = amp_pre_pmu(w)
  BY DEF amp_pre_pmu, pre_pmu
<1> HIDE DEF yes, tri
<1>3. OnAmp(a, w) /\ Agree(a, w, Regs \ {"mode_store"}) /\ (a.ok => a.amp.mode_store = w.amp.bst)
  BY SaveMode
<1>4. a \in WorldType
  BY <1>3 DEF OnAmp
<1> HIDE DEF a
<1>5. OnAmp(b, a) /\ Agree(b, a, Regs \ {"bst", "bias"}) /\ (b.ok => b.amp["bias"] = yes)
  BY <1>1, <1>4, Two
<1>6. b \in WorldType
  BY <1>5 DEF OnAmp
<1> HIDE DEF b
<1>7. /\ OnAmp(v, b) /\ Agree(v, b, Regs \ {"prot", "chipen"})
      /\ v.ok => v.amp["chipen"] = tri /\ v.amp["prot"] = yes
  BY <1>1, <1>6, Two
<1> HIDE DEF v
<1>8. OnAmp(v, w)
  BY <1>3, <1>5, <1>7, OnAmpTrans
<1>9. v.ok => b.ok /\ a.ok
  BY <1>5, <1>7 DEF OnAmp, Steady
<1>10. Agree(v, w, Regs \ {"mode_store", "bst", "bias", "prot", "chipen"})
  BY <1>3, <1>5, <1>7 DEF Agree
<1>11. ASSUME v.ok
       PROVE  v.amp.mode_store = w.amp.bst /\ v.amp.bias /\ v.amp.prot /\ v.amp.chipen = {"TRI"}
  <2>1. v.amp.mode_store = b.amp.mode_store /\ b.amp.mode_store = a.amp.mode_store
        /\ v.amp.bias = b.amp.bias
    BY <1>5, <1>7 DEF Agree, Regs
  <2> QED BY <1>3, <1>5, <1>7, <1>9, <1>11, <2>1 DEF yes, tri
<1> QED BY <1>2, <1>8, <1>10, <1>11

LEMMA EnableDisable ==
    ASSUME NEW w \in WorldType
    PROVE  /\ OnAmp(amp_enable(w), w) /\ Agree(amp_enable(w), w, Regs \ {"chipen"})
           /\ amp_enable(w).ok => amp_enable(w).amp.chipen = w.amp.chipen \union {"AMP"}
           /\ OnAmp(amp_disable(w), w) /\ Agree(amp_disable(w), w, Regs \ {"chipen"})
<1> DEFINE on == w.amp.chipen \union {"AMP"}
           off == w.amp.chipen \ {"AMP"}
           v == transfers(w, << <<"chipen", on>> >>)
           u == transfers(w, << <<"chipen", off>> >>)
<1>1. "chipen" \in Regs /\ on \in RegType["chipen"] /\ off \in RegType["chipen"]
  BY DEF Regs, RegType, WorldType, AmpType
<1>2. v = amp_enable(w) /\ u = amp_disable(w)
  BY DEF amp_enable, amp_disable
<1> HIDE DEF on, off
<1>3. OnAmp(v, w) /\ Agree(v, w, Regs \ {"chipen"}) /\ (v.ok => v.amp["chipen"] = on)
  BY <1>1, One
<1>4. OnAmp(u, w) /\ Agree(u, w, Regs \ {"chipen"})
  BY <1>1, One
<1> HIDE DEF u, v
<1> QED BY <1>2, <1>3, <1>4 DEF on

LEMMA PostPmu ==
    ASSUME NEW w \in WorldType
    PROVE  LET v == amp_post_pmu(w)
           IN  /\ OnAmp(v, w) /\ Agree(v, w, Regs \ {"clk", "bst"})
               /\ v.ok => v.amp.clk /\ v.amp.bst = w.amp.mode_store
<1> DEFINE yes == TRUE
           mode == w.amp.mode_store
           v == transfers(w, << <<"clk", yes>>, <<"bst", mode>> >>)
<1>1. "clk" \in Regs /\ "bst" \in Regs /\ yes \in RegType["clk"] /\ mode \in RegType["bst"] /\ "clk" # "bst"
  BY DEF Regs, RegType, WorldType, AmpType
<1>2. v = amp_post_pmu(w)
  BY DEF amp_post_pmu
<1> HIDE DEF yes, mode
<1>3. /\ OnAmp(v, w) /\ Agree(v, w, Regs \ {"clk", "bst"})
      /\ v.ok => v.amp["bst"] = mode /\ v.amp["clk"] = yes
  BY <1>1, Two
<1> HIDE DEF v
<1> QED BY <1>2, <1>3 DEF yes, mode

LEMMA PrePmd ==
    ASSUME NEW w \in WorldType
    PROVE  LET v == amp_pre_pmd(w)
           IN  /\ OnAmp(v, w) /\ Agree(v, w, Regs \ {"mode_store", "bst", "prot"})
               /\ v.ok => v.amp.mode_store = w.amp.bst
<1> DEFINE no == FALSE
           a == save_mode(w)
           v == transfers(a, << <<"bst", "pump">>, <<"prot", no>> >>)
<1>1. /\ "bst" \in Regs /\ "prot" \in Regs /\ "pump" \in RegType["bst"] /\ no \in RegType["prot"]
  BY DEF Regs, RegType
<1>2. v = amp_pre_pmd(w)
  BY DEF amp_pre_pmd, pre_pmd
<1> HIDE DEF no
<1>3. OnAmp(a, w) /\ Agree(a, w, Regs \ {"mode_store"}) /\ (a.ok => a.amp.mode_store = w.amp.bst)
  BY SaveMode
<1>4. a \in WorldType
  BY <1>3 DEF OnAmp
<1> HIDE DEF a
<1>5. OnAmp(v, a) /\ Agree(v, a, Regs \ {"bst", "prot"})
  BY <1>1, <1>4, Two
<1> HIDE DEF v
<1>6. OnAmp(v, w) /\ (v.ok => a.ok)
  BY <1>3, <1>5, OnAmpTrans DEF OnAmp, Steady
<1>7. Agree(v, w, Regs \ {"mode_store", "bst", "prot"}) /\ v.amp.mode_store = a.amp.mode_store
  BY <1>3, <1>5 DEF Agree, Regs
<1> QED BY <1>2, <1>3, <1>6, <1>7

LEMMA PostPmd ==
    ASSUME NEW w \in WorldType
    PROVE  LET v == amp_post_pmd(w)
           IN  /\ OnAmp(v, w) /\ Agree(v, w, Regs \ {"chipen", "bias", "bst"})
               /\ v.ok => v.amp.bst = w.amp.mode_store
<1> DEFINE no == FALSE
           none == {}
           mode == w.amp.mode_store
           a == transfers(w, << <<"chipen", none>>, <<"bias", no>> >>)
           v == transfers(a, << <<"bst", mode>> >>)
<1>1. /\ "chipen" \in Regs /\ "bias" \in Regs /\ "bst" \in Regs /\ none \in RegType["chipen"]
      /\ no \in RegType["bias"] /\ mode \in RegType["bst"]
  BY DEF Regs, RegType, WorldType, AmpType
<1>2. v = amp_post_pmd(w)
  BY DEF amp_post_pmd, post_pmd
<1> HIDE DEF no, none, mode
<1>3. OnAmp(a, w) /\ Agree(a, w, Regs \ {"chipen", "bias"})
  BY <1>1, Two
<1>4. a \in WorldType
  BY <1>3 DEF OnAmp
<1> HIDE DEF a
<1>5. OnAmp(v, a) /\ Agree(v, a, Regs \ {"bst"}) /\ (v.ok => v.amp["bst"] = mode)
  BY <1>1, <1>4, One
<1> HIDE DEF v
<1>6. OnAmp(v, w)
  BY <1>3, <1>5, OnAmpTrans
<1>7. Agree(v, w, Regs \ {"chipen", "bias", "bst"})
  BY <1>3, <1>5 DEF Agree
<1> QED BY <1>2, <1>5, <1>6, <1>7 DEF mode

\* The chip after its reset, before TDM is set up.
LEMMA Swreset ==
    ASSUME NEW w \in WorldType
    PROVE  OnAmp(swreset(w), w) /\ Agree(swreset(w), w, Regs \ {"chipen"})
<1> DEFINE none == {}
           pd == {"PD"}
           seq == << <<"chipen", none>>, <<"chipen", pd>>, <<"chipen", none>> >>
           v == transfers(w, seq)
<1>1. none \in RegType["chipen"] /\ pd \in RegType["chipen"] /\ v = swreset(w)
  BY DEF RegType, swreset
<1> HIDE DEF none, pd
<1>2. Len(seq) = 3 /\ seq[1] = <<"chipen", none>> /\ seq[2] = <<"chipen", pd>> /\ seq[3] = <<"chipen", none>>
  OBVIOUS
<1> HIDE DEF seq
<1>3. Len(seq) \in Nat /\ \A n \in 1..Len(seq) : seq[n][1] \in Regs /\ seq[n][2] \in RegType[seq[n][1]]
  BY <1>1, <1>2 DEF Regs
<1>4. OnAmp(v, w) /\ Wrote(v, w, seq, Len(seq))
  BY <1>3, Transfers, Zenon
<1> HIDE DEF v
<1>5. Wrote(v, w, seq, 3)
  BY <1>2, <1>4
<1>6. Agree(v, w, Regs \ {"chipen"})
  BY <1>2, <1>5 DEF Agree, Wrote
<1> QED BY <1>1, <1>4, <1>6

LEMMA CheckVbat ==
    ASSUME NEW w \in WorldType, NEW high \in BOOLEAN
    PROVE  LET v == check_vbat(w, high)
           IN  /\ OnAmp(v, w) /\ Agree(v, w, Regs \ {"bias", "bst"})
               /\ v.ok /\ w.amp.bst \in BB => v.amp.bst \in BB
<1> DEFINE yes == TRUE
           no  == FALSE
           r == transfers(w, << <<"bias", yes>> >>)
           b == transfers(r, << <<"bst", "bypass">> >>)
           m == IF high THEN b ELSE r
           v == transfers(m, << <<"bias", no>> >>)
<1>1. /\ "bias" \in Regs /\ "bst" \in Regs /\ yes \in RegType["bias"] /\ no \in RegType["bias"]
      /\ "bypass" \in RegType["bst"] /\ v = check_vbat(w, high)
  BY DEF Regs, RegType, check_vbat
<1> HIDE DEF yes, no
<1>2. OnAmp(r, w) /\ Agree(r, w, Regs \ {"bias"})
  BY <1>1, One
<1>3. r \in WorldType
  BY <1>2 DEF OnAmp
<1> HIDE DEF r
<1>4. OnAmp(b, r) /\ Agree(b, r, Regs \ {"bst"}) /\ (b.ok => b.amp["bst"] = "bypass")
  BY <1>1, <1>3, One
<1> HIDE DEF b
<1>5. OnAmp(m, r) /\ Agree(m, r, Regs \ {"bst"}) /\ (m.ok => m.amp.bst \in {r.amp.bst, "bypass"})
  BY <1>3, <1>4 DEF OnAmp, SameCard, Steady, Agree
<1>6. m \in WorldType
  BY <1>5 DEF OnAmp
<1> HIDE DEF m
<1>7. OnAmp(v, m) /\ Agree(v, m, Regs \ {"bias"})
  BY <1>1, <1>6, One
<1> HIDE DEF v
<1>8. OnAmp(v, w)
  BY <1>2, <1>5, <1>7, OnAmpTrans
<1>9. Agree(v, w, Regs \ {"bias", "bst"})
  BY <1>2, <1>5, <1>7 DEF Agree
<1>10. v.ok /\ w.amp.bst \in BB => v.amp.bst \in BB
  <2>1. v.amp.bst = m.amp.bst /\ r.amp.bst = w.amp.bst /\ (v.ok => m.ok)
    BY <1>2, <1>7 DEF Agree, Regs, OnAmp, Steady
  <2> QED BY <1>5, <2>1 DEF BB
<1> QED BY <1>1, <1>8, <1>9, <1>10

LEMMA ChipInit ==
    ASSUME NEW w \in WorldType, NEW high \in BOOLEAN
    PROVE  LET v == chip_init(w, high)
           IN  /\ OnAmp(v, w) /\ Agree(v, w, {"tdm", "pll", "chip_on"})
               /\ v.ok => v.amp.mode_store \in BB
<1> DEFINE no == FALSE
           R == {"tdm", "pll", "chip_on"}
           a == swreset(w)
           b == transfers(a, << <<"clk", no>>, <<"bst", "boost">> >>)
           c == transfers(b, << <<"slots", no>> >>)
           d == transfers(c, << <<"prot", no>> >>)
           e == check_vbat(d, high)
           v == power_off(e)
<1>1. /\ "clk" \in Regs /\ "bst" \in Regs /\ "slots" \in Regs /\ "prot" \in Regs
      /\ no \in RegType["clk"] /\ no \in RegType["slots"] /\ no \in RegType["prot"]
      /\ "boost" \in RegType["bst"] /\ v = chip_init(w, high)
  BY DEF Regs, RegType, chip_init, tables, tcsense_fix
<1> HIDE DEF no
<1>2. OnAmp(a, w) /\ Agree(a, w, Regs \ {"chipen"})
  BY Swreset
<1>3. a \in WorldType
  BY <1>2 DEF OnAmp
<1> HIDE DEF a
<1>4. OnAmp(b, a) /\ Agree(b, a, Regs \ {"clk", "bst"}) /\ (b.ok => b.amp["bst"] = "boost")
  BY <1>1, <1>3, Two
<1>5. b \in WorldType
  BY <1>4 DEF OnAmp
<1> HIDE DEF b
<1>6. OnAmp(c, b) /\ Agree(c, b, Regs \ {"slots"})
  BY <1>1, <1>5, One
<1>7. c \in WorldType
  BY <1>6 DEF OnAmp
<1> HIDE DEF c
<1>8. OnAmp(d, c) /\ Agree(d, c, Regs \ {"prot"})
  BY <1>1, <1>7, One
<1>9. d \in WorldType
  BY <1>8 DEF OnAmp
<1> HIDE DEF d
<1>10. /\ OnAmp(e, d) /\ Agree(e, d, Regs \ {"bias", "bst"})
       /\ e.ok /\ d.amp.bst \in BB => e.amp.bst \in BB
  BY <1>9, CheckVbat
<1>11. e \in WorldType
  BY <1>10 DEF OnAmp
<1> HIDE DEF e
<1>12. /\ OnAmp(v, e) /\ Agree(v, e, Regs \ {"chipen", "bst", "mode_store"})
       /\ v.ok => v.amp.mode_store = e.amp.bst
  BY <1>11, PowerOff
<1> HIDE DEF v
<1>13. OnAmp(v, w)
  BY <1>2, <1>4, <1>6, <1>8, <1>10, <1>12, OnAmpTrans
<1>14. Agree(v, w, {"tdm", "pll", "chip_on"})
  BY <1>2, <1>4, <1>6, <1>8, <1>10, <1>12 DEF Agree, Regs
<1>15. v.ok => v.amp.mode_store \in BB
  <2>1. v.ok => e.ok /\ d.ok /\ c.ok /\ b.ok
    BY <1>6, <1>8, <1>10, <1>12 DEF OnAmp, Steady
  <2>2. d.amp.bst = c.amp.bst /\ c.amp.bst = b.amp.bst
    BY <1>6, <1>8 DEF Agree, Regs
  <2> QED BY <1>4, <1>10, <1>12, <2>1, <2>2 DEF BB
<1> QED BY <1>1, <1>13, <1>14, <1>15

LEMMA Probe ==
    ASSUME NEW w \in WorldType, NEW high \in BOOLEAN
    PROVE  LET v == i2c_probe(w, high)
           IN  /\ OnAmp(v, w) /\ Tuned(v.amp)
               /\ v.ok => v.amp.mode_store \in BB /\ ~v.amp.chip_on
<1> DEFINE a == [w EXCEPT !.amp = Amp0]
           r == chip_init(a, high)
           v == IF r.ok THEN r ELSE [r EXCEPT !.amp.chipen = @ \union {"PD"}]
<1>1. v = i2c_probe(w, high)
  BY DEF i2c_probe
<1>2. /\ a \in WorldType /\ SameCard(a, w) /\ a.ok = w.ok /\ a.at = w.at
      /\ ~a.amp.tdm /\ a.amp.pll = 0 /\ ~a.amp.chip_on
  BY DEF Amp0, WorldType, AmpType, SameCard
<1> HIDE DEF a
<1>3. /\ OnAmp(r, a) /\ Agree(r, a, {"tdm", "pll", "chip_on"})
      /\ r.ok => r.amp.mode_store \in BB
  BY <1>2, ChipInit
<1> HIDE DEF r
<1>4. /\ OnAmp(r, w) /\ ~r.amp.tdm /\ r.amp.pll = 0 /\ ~r.amp.chip_on
  BY <1>2, <1>3 DEF OnAmp, SameCard, Steady, Agree
<1>5. CASE r.ok
  <2>1. v = r
    BY <1>5
  <2> HIDE DEF v
  <2> QED BY <1>1, <1>3, <1>4, <2>1 DEF Tuned
<1>6. CASE ~r.ok
  <2>1. v = [r EXCEPT !.amp.chipen = @ \union {"PD"}]
    BY <1>6
  <2> HIDE DEF v
  <2>2. /\ v \in WorldType /\ SameCard(v, r) /\ v.ok = r.ok /\ v.at = r.at
        /\ v.amp.tdm = r.amp.tdm /\ v.amp.pll = r.amp.pll
    BY <1>4, <2>1 DEF OnAmp, WorldType, AmpType, SameCard
  <2>3. OnAmp(v, w) /\ ~v.ok
    BY <1>4, <1>6, <2>2 DEF OnAmp, SameCard, Steady
  <2> QED BY <1>1, <1>4, <2>2, <2>3 DEF Tuned
<1> QED BY <1>5, <1>6

-----------------------------------------------------------------------------
(* Commands to the DSP                                                     *)

Opcodes == {"svc_set_param", "set_param_v2", "start", "stop"}

\* A command that may still fail finds no answer to an earlier one.
Trust(w) == w.at # 0 => w.late = {}
\* Nothing has failed and nothing will.
Quiet(w) == w.at = 0 /\ w.late = {}

\* v is what commands leave of w: the amplifier and the COPPs are not theirs.
OnDsp(v, w) ==
    /\ v \in WorldType /\ v.amp = w.amp /\ v.how = w.how /\ v.dsp.adm = w.dsp.adm
    /\ w.at = 0 => v.at = 0
    /\ Trust(w) => Trust(v)
    /\ Quiet(w) => Quiet(v)

LEMMA OnDspTrans ==
    ASSUME NEW u, NEW v, NEW w, OnDsp(v, u), OnDsp(u, w)
    PROVE  OnDsp(v, w)
BY DEF OnDsp

\* w after a command that is answered with good, answers being on their way.
Answered(w, at, dsp1, good, answers) ==
    [[w EXCEPT !.at = at, !.dsp = dsp1] EXCEPT !.ok = good, !.late = answers]

IsAnswered(v, w, at, dsp1, good, answers) ==
    /\ v \in WorldType /\ v.card = w.card /\ v.amp = w.amp /\ v.how = w.how
    /\ v.dsp = dsp1 /\ v.at = at /\ v.ok = good /\ v.late = answers

LEMMA AnsweredFields ==
    ASSUME NEW w \in WorldType, NEW at \in Nat, NEW dsp1 \in DspType, NEW good \in BOOLEAN,
           NEW answers \in SUBSET Answers
    PROVE  IsAnswered(Answered(w, at, dsp1, good, answers), w, at, dsp1, good, answers)
BY DEF Answered, IsAnswered, WorldType

\* Without a late answer in the way a command that is answered well was done.
LEMMA Send ==
    ASSUME NEW w \in WorldType, NEW p \in Ports, NEW opcode \in Opcodes, NEW done \in DspType,
           done.adm = w.dsp.adm
    PROVE  LET v == afe_apr_send_pkt(w, p, opcode, done)
           IN  /\ OnDsp(v, w) /\ v.card = w.card /\ (v.ok => w.ok)
               /\ v.dsp \in {w.dsp, done}
               /\ v.ok /\ Trust(w) => v.dsp = done
<1> DEFINE how   == IF w.at = 1 THEN w.how ELSE "ok"
           good  == how \in {"ok", "late"}
           own   == [token |-> p, opcode |-> opcode, ok |-> good]
           stale == {a \in w.late : a.token = p /\ a.opcode = opcode}
           dsp1  == IF good THEN done ELSE w.dsp
           at1   == IF w.at = 0 THEN 0 ELSE w.at - 1
           v == afe_apr_send_pkt(w, p, opcode, done)
<1>1. /\ w.at \in Nat /\ w.late \in SUBSET Answers /\ w.how \in Hows /\ own \in Answers
      /\ at1 \in Nat /\ dsp1 \in DspType /\ dsp1.adm = w.dsp.adm
  BY DEF WorldType, Answers, Opcodes
<1>2. CASE ~w.ok
  <2>1. v = w
    BY <1>2 DEF afe_apr_send_pkt
  <2> QED BY <1>2, <2>1 DEF OnDsp
<1>3. CASE w.ok /\ stale # {}
  <2> DEFINE ok1   == (CHOOSE a \in stale : TRUE).ok
             late1 == IF how = "lost" THEN {} ELSE {own}
  <2>1. v = Answered(w, at1, dsp1, ok1, late1)
    BY <1>3 DEF afe_apr_send_pkt, Answered
  <2>2. ok1 \in BOOLEAN
    <3>1. (CHOOSE a \in stale : TRUE) \in Answers
      BY <1>1, <1>3
    <3> QED BY <3>1 DEF Answers
  <2>3. late1 \in SUBSET Answers
    BY <1>1
  <2>4. w.late # {}
    BY <1>3
  <2>5. Trust(w) => w.at = 0 /\ dsp1 = done
    BY <2>4 DEF Trust
  <2>6. /\ v \in WorldType /\ v.card = w.card /\ v.amp = w.amp /\ v.how = w.how /\ v.dsp = dsp1
        /\ v.at = at1
    <3> HIDE DEF ok1, late1, at1, dsp1, v
    <3>1. IsAnswered(Answered(w, at1, dsp1, ok1, late1), w, at1, dsp1, ok1, late1)
      BY <1>1, <2>2, <2>3, AnsweredFields, Zenon
    <3>2. IsAnswered(v, w, at1, dsp1, ok1, late1)
      BY <2>1, <3>1, Zenon
    <3> QED BY <3>2 DEF IsAnswered
  <2> HIDE DEF v, ok1, late1, own, stale
  <2> QED BY <1>1, <1>3, <2>4, <2>5, <2>6 DEF OnDsp, Trust, Quiet, v
<1>4. CASE w.ok /\ stale = {}
  <2> DEFINE ok1   == how \in {"ok", "refused"} /\ good
             late1 == CASE how \in {"ok", "refused"} -> {}
                        [] how = "lost" -> w.late
                        [] OTHER -> w.late \union {own}
  <2>1. how \in {"ok", "refused", "lost", "late", "late refused"}
    BY <1>1 DEF Hows
  <2>2. v = Answered(w, at1, dsp1, ok1, late1)
    <3>1. CASE how \in {"ok", "refused"}
      <4>1. v = Answered(w, at1, dsp1, own.ok, {})
        BY <1>4, <3>1 DEF afe_apr_send_pkt, Answered
      <4>2. own.ok = ok1 /\ late1 = {}
        BY <3>1
      <4> QED BY <4>1, <4>2, Zenon
    <3>2. CASE how = "lost"
      <4>1. v = Answered(w, at1, dsp1, FALSE, w.late)
        BY <1>4, <3>2 DEF afe_apr_send_pkt, Answered
      <4>2. ok1 = FALSE /\ late1 = w.late
        BY <3>2
      <4> QED BY <4>1, <4>2, Zenon
    <3>3. CASE how \in {"late", "late refused"}
      <4>1. v = Answered(w, at1, dsp1, FALSE, w.late \union {own})
        BY <1>4, <3>3 DEF afe_apr_send_pkt, Answered
      <4>2. ok1 = FALSE /\ late1 = w.late \union {own}
        BY <3>3
      <4> QED BY <4>1, <4>2, Zenon
    <3> QED BY <2>1, <3>1, <3>2, <3>3
  <2>3. ok1 \in BOOLEAN /\ late1 \in SUBSET Answers
    BY <1>1, <2>1
  <2>4. w.at # 1 => how = "ok" /\ ok1 /\ late1 = {} /\ dsp1 = done
    OBVIOUS
  <2>5. w.at # 0 => (w.at = 1 /\ at1 = 0) \/ (w.at # 1 /\ late1 = {})
    BY <1>1, <2>4
  <2>6. ok1 => dsp1 = done
    OBVIOUS
  <2>7. /\ v \in WorldType /\ v.card = w.card /\ v.amp = w.amp /\ v.how = w.how /\ v.dsp = dsp1
        /\ v.at = at1 /\ v.ok = ok1 /\ v.late = late1
    <3> HIDE DEF ok1, late1, at1, dsp1, v
    <3>1. IsAnswered(Answered(w, at1, dsp1, ok1, late1), w, at1, dsp1, ok1, late1)
      BY <1>1, <2>3, AnsweredFields, Zenon
    <3>2. IsAnswered(v, w, at1, dsp1, ok1, late1)
      BY <2>2, <3>1, Zenon
    <3> QED BY <3>2 DEF IsAnswered
  <2>8. (w.at = 0 => at1 = 0) /\ dsp1 \in {w.dsp, done}
    OBVIOUS
  <2> HIDE DEF v, ok1, late1, own, stale, dsp1, at1, how
  <2>9. Trust(v) /\ (Quiet(w) => Quiet(v))
    BY <1>1, <2>4, <2>5, <2>7, <2>8 DEF Trust, Quiet
  <2> QED BY <1>1, <1>4, <2>6, <2>7, <2>8, <2>9 DEF OnDsp, v
<1> QED BY <1>2, <1>3, <1>4

LEMMA PortStop ==
    ASSUME NEW w \in WorldType, NEW p \in Ports
    PROVE  LET v == port_stop(w, p)
           IN  OnDsp(v, w) /\ v.card = w.card /\ v.dsp.clk = w.dsp.clk /\ (v.ok => w.ok)
<1> DEFINE done == [w.dsp EXCEPT !.running = @ \ {p}]
           v == port_stop(w, p)
<1>1. done \in DspType /\ done.adm = w.dsp.adm /\ done.clk = w.dsp.clk
  BY DEF WorldType, DspType
<1>2. v = afe_apr_send_pkt(w, p, "stop", done)
  BY DEF port_stop
<1>3. "stop" \in Opcodes
  BY DEF Opcodes
<1> HIDE DEF done, v
<1>4. OnDsp(v, w) /\ v.card = w.card /\ (v.ok => w.ok) /\ v.dsp \in {w.dsp, done}
  BY <1>1, <1>2, <1>3, Send
<1> QED BY <1>1, <1>4 DEF v

LEMMA PortStart ==
    ASSUME NEW w \in WorldType, NEW p \in Ports
    PROVE  LET v == port_start(w, p)
           IN  OnDsp(v, w) /\ v.card = w.card /\ v.dsp.clk = w.dsp.clk /\ (v.ok => w.ok)
<1> DEFINE c == set_param_v2(w, p, w.dsp)
           done == [c.dsp EXCEPT !.running = @ \union {p}]
           v == port_start(w, p)
<1>1. "start" \in Opcodes /\ "set_param_v2" \in Opcodes /\ w.dsp \in DspType
  BY DEF Opcodes, WorldType
<1>2. OnDsp(c, w) /\ c.card = w.card /\ (c.ok => w.ok) /\ c.dsp = w.dsp
  BY <1>1, Send DEF set_param_v2
<1>3. v = afe_apr_send_pkt(c, p, "start", done)
  BY DEF port_start
<1> HIDE DEF c, v
<1>4. done \in DspType /\ done.adm = c.dsp.adm /\ done.clk = c.dsp.clk /\ c \in WorldType
  BY <1>1, <1>2 DEF DspType, OnDsp
<1> HIDE DEF done
<1>5. OnDsp(v, c) /\ v.card = c.card /\ (v.ok => c.ok) /\ v.dsp \in {c.dsp, done}
  BY <1>1, <1>3, <1>4, Send
<1>6. OnDsp(v, w)
  BY <1>2, <1>5, OnDspTrans
<1> QED BY <1>2, <1>4, <1>5, <1>6 DEF v

LEMMA SetSysclk ==
    ASSUME NEW w \in WorldType, NEW p \in Ports, NEW freq
    PROVE  LET v == set_sysclk(w, p, freq)
               clk == IF freq # 0 THEN w.dsp.clk \union {Tdm[p]} ELSE w.dsp.clk \ {Tdm[p]}
           IN  /\ OnDsp(v, w) /\ v.card = w.card /\ (v.ok => w.ok)
               /\ v.dsp.clk \in {w.dsp.clk, clk}
               /\ v.ok /\ Trust(w) => v.dsp.clk = clk
<1> DEFINE clk == IF freq # 0 THEN w.dsp.clk \union {Tdm[p]} ELSE w.dsp.clk \ {Tdm[p]}
           done == [w.dsp EXCEPT !.clk = clk]
           v == set_sysclk(w, p, freq)
<1>1. done \in DspType /\ done.adm = w.dsp.adm /\ done.clk = clk
  BY DEF WorldType, DspType, Interfaces
<1>2. v = afe_apr_send_pkt(w, p, "svc_set_param", done)
  BY DEF set_sysclk, q6afe_port_set_sysclk, set_param, WorldType, DspType
<1>3. "svc_set_param" \in Opcodes
  BY DEF Opcodes
<1> HIDE DEF done, v
<1>4. /\ OnDsp(v, w) /\ v.card = w.card /\ (v.ok => w.ok) /\ v.dsp \in {w.dsp, done}
      /\ v.ok /\ Trust(w) => v.dsp = done
  BY <1>1, <1>2, <1>3, Send
<1> QED BY <1>1, <1>4 DEF v

-----------------------------------------------------------------------------
(* Bit clocks                                                              *)

\* The ports of E on interface i.
On(E, i) == {q \in E : Tdm[q] = i}

\* In w the ports of E are in use: they are counted and their bit clocks run,
\* and a port that was started is one of them.
Covered(w, E) ==
    /\ \A i \in Interfaces : w.card.clk_count[i] = Cardinality(On(E, i))
    /\ w.card.started \subseteq E /\ w.card.started \subseteq w.card.port_cfg
    /\ \A p \in E : Tdm[p] \in w.dsp.clk

LEMMA OnCount ==
    ASSUME NEW E \in SUBSET Ports, NEW i
    PROVE  /\ IsFiniteSet(On(E, i)) /\ Cardinality(On(E, i)) \in Nat
           /\ Cardinality(On(E, i)) = 0 <=> On(E, i) = {}
<1>1. On(E, i) \in SUBSET Ports
  BY DEF On
<1>2. IsFiniteSet(On(E, i))
  BY <1>1, FinitePorts
<1> QED BY <1>2, FS_CardinalityType, FS_EmptySet

LEMMA OnAdd ==
    ASSUME NEW E \in SUBSET Ports, NEW p \in Ports \ E, NEW i
    PROVE  Cardinality(On(E \union {p}, i)) =
               IF i = Tdm[p] THEN Cardinality(On(E, i)) + 1 ELSE Cardinality(On(E, i))
<1>1. CASE i = Tdm[p]
  <2>1. On(E \union {p}, i) = On(E, i) \union {p} /\ p \notin On(E, i)
    BY <1>1 DEF On
  <2>2. IsFiniteSet(On(E, i))
    BY OnCount
  <2>3. Cardinality(On(E, i) \union {p}) = Cardinality(On(E, i)) + 1
    BY <2>1, <2>2, FS_AddElement
  <2> QED BY <1>1, <2>1, <2>3
<1>2. CASE i # Tdm[p]
  <2>1. On(E \union {p}, i) = On(E, i)
    BY <1>2 DEF On
  <2> QED BY <1>2, <2>1
<1> QED BY <1>1, <1>2

LEMMA OnRemove ==
    ASSUME NEW E \in SUBSET Ports, NEW p \in E, NEW i
    PROVE  Cardinality(On(E \ {p}, i)) =
               IF i = Tdm[p] THEN Cardinality(On(E, i)) - 1 ELSE Cardinality(On(E, i))
<1>1. (E \ {p}) \union {p} = E /\ p \in Ports \ (E \ {p}) /\ E \ {p} \in SUBSET Ports
  OBVIOUS
<1>2. Cardinality(On(E, i)) = IF i = Tdm[p] THEN Cardinality(On(E \ {p}, i)) + 1
                              ELSE Cardinality(On(E \ {p}, i))
  <2> DEFINE F == E \ {p}
  <2>1. F \in SUBSET Ports /\ p \in Ports \ F /\ F \union {p} = E
    BY <1>1
  <2> HIDE DEF F
  <2>2. Cardinality(On(E, i)) = IF i = Tdm[p] THEN Cardinality(On(F, i)) + 1 ELSE Cardinality(On(F, i))
    BY <2>1, OnAdd
  <2> QED BY <2>2 DEF F
<1>3. Cardinality(On(E \ {p}, i)) \in Nat
  BY <1>1, OnCount
<1> QED BY <1>2, <1>3

LEMMA BclkRuns == BCLK # 0
BY SMT DEF BCLK, TDM_SLOTS, SlotWidth, Rate

\* A counter of the bit clock of p moved by k.
Counted(v, w, p, k) ==
    /\ v \in WorldType /\ v.amp = w.amp /\ v.dsp = w.dsp /\ v.late = w.late
    /\ v.ok = w.ok /\ v.at = w.at /\ v.how = w.how
    /\ SameBut(v, w, {"clk_count"})
    /\ \A i \in Interfaces :
           v.card.clk_count[i] = IF i = Tdm[p] THEN w.card.clk_count[i] + k ELSE w.card.clk_count[i]

LEMMA Counting ==
    ASSUME NEW w \in WorldType, NEW p \in Ports, NEW k \in Int, NEW c \in Int,
           c = w.card.clk_count[Tdm[p]] + k
    PROVE  Counted([w EXCEPT !.card.clk_count[Tdm[p]] = c], w, p, k)
<1> DEFINE counts == [w.card.clk_count EXCEPT ![Tdm[p]] = c]
           card1 == [w.card EXCEPT !.clk_count = counts]
           v == [w EXCEPT !.card = card1]
<1>1. counts \in [Interfaces -> Int] /\ w.card \in CardType
      /\ \A i \in Interfaces : counts[i] = IF i = Tdm[p] THEN w.card.clk_count[i] + k
                                            ELSE w.card.clk_count[i]
  BY DEF WorldType, CardType, Interfaces
<1>2. v = [w EXCEPT !.card.clk_count[Tdm[p]] = c]
  BY DEF WorldType, CardType
<1> HIDE DEF counts
<1>3. card1 \in CardType /\ card1.clk_count = counts
      /\ \A f \in CardFields \ {"clk_count"} : card1[f] = w.card[f]
  BY <1>1 DEF CardType, CardFields
<1> HIDE DEF card1
<1>4. /\ v \in WorldType /\ v.card = card1 /\ v.amp = w.amp /\ v.dsp = w.dsp /\ v.late = w.late
      /\ v.ok = w.ok /\ v.at = w.at /\ v.how = w.how
  BY <1>3 DEF WorldType
<1> HIDE DEF v
<1>5. Counted(v, w, p, k)
  BY <1>1, <1>3, <1>4 DEF Counted, SameBut
<1> QED BY <1>2, <1>5

LEMMA CountingOne ==
    ASSUME NEW w \in WorldType, NEW p \in Ports
    PROVE  /\ Counted([w EXCEPT !.card.clk_count[Tdm[p]] = @ + 1], w, p, 1)
           /\ Counted([w EXCEPT !.card.clk_count[Tdm[p]] = @ - 1], w, p, -1)
<1> DEFINE c == w.card.clk_count[Tdm[p]]
           up == c + 1
           down == c - 1
<1>1. /\ up \in Int /\ down \in Int /\ up = c + 1 /\ down = c + -1
  BY DEF WorldType, CardType, Interfaces
<1> HIDE DEF up, down
<1>2. Counted([w EXCEPT !.card.clk_count[Tdm[p]] = up], w, p, 1)
  BY <1>1, Counting
<1>3. Counted([w EXCEPT !.card.clk_count[Tdm[p]] = down], w, p, -1)
  BY <1>1, Counting
<1> QED BY <1>2, <1>3 DEF up, down

LEMMA CountedOnDsp ==
    ASSUME NEW v, NEW w, NEW p, NEW k, Counted(v, w, p, k)
    PROVE  OnDsp(v, w)
BY DEF Counted, OnDsp, Trust, Quiet

\* What the machine driver's startup leaves of w: its counter and the clock.
LEMMA Startup ==
    ASSUME NEW w \in WorldType, NEW p \in Ports
    PROVE  LET v == startup(w, p)
           IN  /\ OnDsp(v, w) /\ SameBut(v, w, {"clk_count"}) /\ (v.ok => w.ok)
               /\ \A E \in SUBSET Ports :
                      p \notin E /\ Trust(w) /\ Covered(w, E) =>
                          Covered(v, IF v.ok THEN E \union {p} ELSE E)
<1> DEFINE i == Tdm[p]
           n == [w EXCEPT !.card.clk_count[Tdm[p]] = @ + 1]
           r == set_sysclk(n, p, BCLK)
           back == [r EXCEPT !.card.clk_count[Tdm[p]] = @ - 1]
           v == startup(w, p)
<1>1. i \in Interfaces /\ count(w, p) = w.card.clk_count[i]
  BY DEF Interfaces, count
<1>2. v = IF ~w.ok THEN w ELSE IF count(w, p) > 0 THEN n ELSE IF r.ok THEN r ELSE back
  BY DEF startup
<1>3. Counted(n, w, p, 1) /\ OnDsp(n, w)
  BY CountingOne, CountedOnDsp
<1>4. n \in WorldType
  BY <1>3 DEF Counted
<1> HIDE DEF n
<1>5. /\ OnDsp(r, n) /\ r.card = n.card /\ (r.ok => n.ok)
      /\ r.dsp.clk \in {n.dsp.clk, n.dsp.clk \union {i}}
      /\ r.ok /\ Trust(n) => r.dsp.clk = n.dsp.clk \union {i}
  <2>1. LET clk == IF BCLK # 0 THEN n.dsp.clk \union {Tdm[p]} ELSE n.dsp.clk \ {Tdm[p]}
        IN  /\ OnDsp(r, n) /\ r.card = n.card /\ (r.ok => n.ok)
            /\ r.dsp.clk \in {n.dsp.clk, clk}
            /\ r.ok /\ Trust(n) => r.dsp.clk = clk
    BY <1>4, SetSysclk
  <2> HIDE DEF r
  <2> QED BY <2>1, BclkRuns
<1>6. r \in WorldType
  BY <1>5 DEF OnDsp
<1> HIDE DEF r
<1>7. Counted(back, r, p, -1) /\ OnDsp(back, r)
  BY <1>6, CountingOne, CountedOnDsp
<1> HIDE DEF back, v, i
<1>8. CASE ~w.ok
  <2>1. v = w /\ ~v.ok
    BY <1>2, <1>8
  <2> QED BY <1>8, <2>1 DEF OnDsp, SameBut, v
<1>9. CASE w.ok /\ count(w, p) > 0
  <2>1. v = n /\ v.ok
    BY <1>2, <1>3, <1>9 DEF Counted
  <2>2. ASSUME NEW E \in SUBSET Ports, p \notin E, Covered(w, E)
        PROVE  Covered(v, E \union {p})
    <3>1. Cardinality(On(E, i)) > 0
      BY <1>1, <1>9, <2>2 DEF Covered
    <3>2. PICK q \in E : Tdm[q] = i
      BY <3>1, OnCount DEF On
    <3>3. v.card.started = w.card.started /\ v.card.port_cfg = w.card.port_cfg /\ v.dsp = w.dsp
      BY <1>3, <2>1 DEF Counted, SameBut, CardFields
    <3>4. \A j \in Interfaces : v.card.clk_count[j] = Cardinality(On(E \union {p}, j))
      BY <1>3, <2>1, <2>2, OnAdd DEF Counted, Covered
    <3> QED BY <2>2, <3>2, <3>3, <3>4 DEF Covered, i
  <2> QED BY <1>3, <1>9, <2>1, <2>2 DEF Counted, v
<1>10. CASE w.ok /\ ~(count(w, p) > 0) /\ r.ok
  <2>1. v = r /\ v.ok
    BY <1>2, <1>10
  <2>2. OnDsp(v, w) /\ SameBut(v, w, {"clk_count"})
    BY <1>3, <1>5, <2>1, OnDspTrans DEF Counted, SameBut
  <2>3. ASSUME NEW E \in SUBSET Ports, p \notin E, Trust(w), Covered(w, E)
        PROVE  Covered(v, E \union {p})
    <3>1. v.dsp.clk = w.dsp.clk \union {i}
      BY <1>3, <1>5, <2>1, <2>3 DEF Counted, Trust
    <3>2. v.card.started = w.card.started /\ v.card.port_cfg = w.card.port_cfg
      BY <2>2 DEF SameBut, CardFields
    <3>3. \A j \in Interfaces : v.card.clk_count[j] = Cardinality(On(E \union {p}, j))
      BY <1>3, <1>5, <2>1, <2>3, OnAdd DEF Counted, Covered
    <3> QED BY <2>3, <3>1, <3>2, <3>3 DEF Covered, i
  <2> QED BY <1>10, <2>1, <2>2, <2>3 DEF v
<1>11. CASE w.ok /\ ~(count(w, p) > 0) /\ ~r.ok
  <2>1. v = back /\ ~v.ok
    BY <1>2, <1>7, <1>11 DEF Counted
  <2>2. OnDsp(v, w) /\ SameBut(v, w, {"clk_count"})
    BY <1>3, <1>5, <1>7, <2>1, OnDspTrans DEF Counted, SameBut
  <2>3. ASSUME NEW E \in SUBSET Ports, Covered(w, E)
        PROVE  Covered(v, E)
    <3>1. w.dsp.clk \subseteq v.dsp.clk
      BY <1>3, <1>5, <1>7, <2>1 DEF Counted
    <3>2. v.card.started = w.card.started /\ v.card.port_cfg = w.card.port_cfg
      BY <2>2 DEF SameBut, CardFields
    <3>3. \A j \in Interfaces : v.card.clk_count[j] = w.card.clk_count[j]
      <4> SUFFICES ASSUME NEW j \in Interfaces PROVE v.card.clk_count[j] = w.card.clk_count[j]
        OBVIOUS
      <4>1. w.card.clk_count[j] \in Int
        BY DEF WorldType, CardType
      <4> QED BY <1>3, <1>5, <1>7, <2>1, <4>1 DEF Counted
    <3> QED BY <2>3, <3>1, <3>2, <3>3 DEF Covered
  <2> QED BY <1>11, <2>1, <2>2, <2>3 DEF v
<1> QED BY <1>8, <1>9, <1>10, <1>11

LEMMA DaiShutdown ==
    ASSUME NEW w \in WorldType, NEW p \in Ports
    PROVE  LET v == dai_shutdown(w, p)
           IN  /\ OnDsp(v, w) /\ SameBut(v, w, {"started"}) /\ (w.ok => v.ok)
               /\ v.card.started = w.card.started \ {p} /\ v.dsp.clk = w.dsp.clk
<1> DEFINE r == port_stop(w, p)
           v == [r EXCEPT !.card.started = @ \ {p}, !.ok = TRUE]
<1>1. CASE p \notin w.card.started
  BY <1>1 DEF dai_shutdown, OnDsp, SameBut
<1>2. CASE p \in w.card.started
  <2>1. v = dai_shutdown(w, p)
    BY <1>2 DEF dai_shutdown
  <2>2. OnDsp(r, w) /\ r.card = w.card /\ r.dsp.clk = w.dsp.clk
    BY PortStop
  <2> HIDE DEF r
  <2>3. /\ OnDsp(v, r) /\ SameBut(v, r, {"started"}) /\ v.ok /\ v.card.started = r.card.started \ {p}
        /\ v.dsp.clk = r.dsp.clk
    BY <2>2 DEF OnDsp, WorldType, CardType, SameBut, CardFields, Trust, Quiet
  <2> HIDE DEF v
  <2>4. OnDsp(v, w)
    BY <2>2, <2>3, OnDspTrans
  <2> QED BY <2>1, <2>2, <2>3, <2>4 DEF SameBut
<1> QED BY <1>1, <1>2

\* What the machine driver's shutdown leaves: the last port stops the clock.
LEMMA Shutdown ==
    ASSUME NEW w \in WorldType, NEW p \in Ports
    PROVE  LET v == shutdown(w, p)
           IN  /\ OnDsp(v, w) /\ SameBut(v, w, {"clk_count"}) /\ (w.ok => v.ok)
               /\ \A i \in Interfaces :
                      v.card.clk_count[i] = IF i = Tdm[p] THEN w.card.clk_count[i] - 1
                                            ELSE w.card.clk_count[i]
               /\ w.dsp.clk \subseteq v.dsp.clk \union {Tdm[p]}
               /\ w.card.clk_count[Tdm[p]] # 1 => v.dsp.clk = w.dsp.clk
<1> DEFINE i == Tdm[p]
           n == [w EXCEPT !.card.clk_count[Tdm[p]] = @ - 1]
           r == set_sysclk(n, p, 0)
           v == IF count(n, p) # 0 THEN n ELSE [r EXCEPT !.ok = TRUE]
<1>1. i \in Interfaces /\ v = shutdown(w, p)
  BY DEF Interfaces, shutdown
<1>2. Counted(n, w, p, -1) /\ OnDsp(n, w)
  BY CountingOne, CountedOnDsp
<1>3. n \in WorldType /\ count(n, p) = w.card.clk_count[i] - 1 /\ w.card.clk_count[i] \in Int
  <2> HIDE DEF n
  <2> QED BY <1>1, <1>2 DEF Counted, count, WorldType, CardType
<1> HIDE DEF n
<1>4. /\ OnDsp(r, n) /\ r.card = n.card
      /\ r.dsp.clk \in {n.dsp.clk, n.dsp.clk \ {i}}
  BY <1>3, SetSysclk
<1> HIDE DEF r
<1>5. \A j \in Interfaces :
          w.card.clk_count[j] + -1 = w.card.clk_count[j] - 1
  BY DEF WorldType, CardType
<1>6. CASE count(n, p) # 0
  <2>1. v = n
    BY <1>6
  <2> HIDE DEF v
  <2> QED BY <1>1, <1>2, <1>5, <2>1 DEF Counted
<1>7. CASE count(n, p) = 0
  <2>1. v = [r EXCEPT !.ok = TRUE]
    BY <1>7
  <2> HIDE DEF v
  <2>2. OnDsp(v, r) /\ v.card = r.card /\ v.dsp = r.dsp /\ v.ok
    BY <1>4, <2>1 DEF OnDsp, WorldType, Trust, Quiet
  <2>3. OnDsp(v, w)
    BY <1>2, <1>4, <2>2, OnDspTrans
  <2>4. /\ SameBut(v, w, {"clk_count"}) /\ v.card.clk_count = n.card.clk_count
        /\ w.dsp.clk \subseteq v.dsp.clk \union {i}
    BY <1>2, <1>4, <2>2 DEF Counted, SameBut
  <2>5. \A j \in Interfaces :
            v.card.clk_count[j] = IF j = i THEN w.card.clk_count[j] - 1 ELSE w.card.clk_count[j]
    BY <1>2, <1>5, <2>4 DEF Counted
  <2>6. w.card.clk_count[i] = 1
    BY <1>3, <1>7
  <2> HIDE DEF v
  <2> QED BY <1>1, <2>2, <2>3, <2>4, <2>5, <2>6
<1> QED BY <1>6, <1>7

LEMMA BeShutdown ==
    ASSUME NEW w \in WorldType, NEW p \in Ports
    PROVE  LET v == be_shutdown(w, p)
           IN  /\ OnDsp(v, w) /\ SameBut(v, w, {"clk_count", "started"}) /\ (w.ok => v.ok)
               /\ v.card.started = w.card.started \ {p}
               /\ \A E \in SUBSET Ports : p \in E /\ Covered(w, E) => Covered(v, E \ {p})
<1> DEFINE a == dai_shutdown(w, p)
           v == shutdown(a, p)
           i == Tdm[p]
<1>1. /\ OnDsp(a, w) /\ SameBut(a, w, {"started"}) /\ (w.ok => a.ok)
      /\ a.card.started = w.card.started \ {p} /\ a.dsp.clk = w.dsp.clk
  BY DaiShutdown
<1>2. a \in WorldType
  BY <1>1 DEF OnDsp
<1>3. v = be_shutdown(w, p)
  BY DEF be_shutdown
<1> HIDE DEF a
<1>4. /\ OnDsp(v, a) /\ SameBut(v, a, {"clk_count"}) /\ (a.ok => v.ok)
      /\ \A j \in Interfaces :
             v.card.clk_count[j] = IF j = i THEN a.card.clk_count[j] - 1 ELSE a.card.clk_count[j]
      /\ a.dsp.clk \subseteq v.dsp.clk \union {i}
      /\ a.card.clk_count[i] # 1 => v.dsp.clk = a.dsp.clk
  BY <1>2, Shutdown
<1> HIDE DEF v
<1>5. OnDsp(v, w) /\ SameBut(v, w, {"clk_count", "started"})
  BY <1>1, <1>4, OnDspTrans DEF SameBut
<1>6. v.card.started = w.card.started \ {p} /\ a.card.clk_count = w.card.clk_count
      /\ v.card.port_cfg = w.card.port_cfg
  BY <1>1, <1>4 DEF SameBut, CardFields
<1>7. ASSUME NEW E \in SUBSET Ports, p \in E, Covered(w, E)
      PROVE  Covered(v, E \ {p})
  <2>1. i \in Interfaces
    BY DEF Interfaces
  <2>2. \A j \in Interfaces : v.card.clk_count[j] = Cardinality(On(E \ {p}, j))
    BY <1>4, <1>6, <1>7, OnRemove DEF Covered
  <2>3. ASSUME NEW q \in E \ {p} PROVE Tdm[q] \in v.dsp.clk
    <3>1. Tdm[q] \in a.dsp.clk
      BY <1>1, <1>7, <2>3 DEF Covered
    <3>2. CASE Tdm[q] # i
      BY <1>4, <3>1, <3>2
    <3>3. CASE Tdm[q] = i
      <4>1. Cardinality(On(E \ {p}, i)) # 0
        BY <2>3, <3>3, OnCount DEF On
      <4>2. v.card.clk_count[i] # 0 /\ v.card.clk_count[i] = a.card.clk_count[i] - 1
        BY <1>4, <2>1, <2>2, <4>1
      <4>3. a.card.clk_count[i] # 1
        BY <4>2
      <4> QED BY <1>4, <3>1, <4>3
    <3> QED BY <3>2, <3>3
  <2> QED BY <1>6, <1>7, <2>2, <2>3 DEF Covered
<1> QED BY <1>1, <1>3, <1>4, <1>5, <1>6, <1>7

LEMMA DaiPrepare ==
    ASSUME NEW w \in WorldType, NEW p \in Ports
    PROVE  LET v == dai_prepare(w, p)
           IN  /\ OnDsp(v, w) /\ SameBut(v, w, {"started", "port_cfg"}) /\ (v.ok => w.ok)
               /\ \A E \in SUBSET Ports :
                      p \in E /\ p \in w.card.slots /\ p \in w.card.tdm /\ Covered(w, E) => Covered(v, E)
<1> DEFINE a == IF p \in w.card.started THEN port_stop(w, p) ELSE w
           c == q6afe_tdm_port_prepare(a, p)
           b == port_start(c, p)
           v == IF b.ok THEN [b EXCEPT !.card.started = @ \union {p}] ELSE b
<1>1. OnDsp(a, w) /\ a.card = w.card /\ a.dsp.clk = w.dsp.clk /\ (a.ok => w.ok)
  BY PortStop DEF OnDsp
<1>2. v = dai_prepare(w, p)
  BY DEF dai_prepare
<1> HIDE DEF a
<1>3. /\ OnDsp(c, a) /\ SameBut(c, a, {"port_cfg"}) /\ c.dsp = a.dsp /\ c.ok = a.ok
      /\ a.card.port_cfg \subseteq c.card.port_cfg
      /\ a.ok /\ p \in a.card.slots /\ p \in a.card.tdm => p \in c.card.port_cfg
  <2>1. a \in WorldType
    BY <1>1 DEF OnDsp
  <2> QED BY <2>1 DEF q6afe_tdm_port_prepare, OnDsp, WorldType, CardType, SameBut, CardFields, Trust, Quiet
<1>4. c \in WorldType
  BY <1>3 DEF OnDsp
<1> HIDE DEF c
<1>5. OnDsp(b, c) /\ b.card = c.card /\ b.dsp.clk = c.dsp.clk /\ (b.ok => c.ok)
  BY <1>4, PortStart
<1> HIDE DEF b
<1>6. /\ OnDsp(v, b) /\ SameBut(v, b, {"started"}) /\ v.dsp = b.dsp /\ v.ok = b.ok
      /\ v.card.started = IF b.ok THEN b.card.started \union {p} ELSE b.card.started
  <2>1. b \in WorldType
    BY <1>5 DEF OnDsp
  <2> QED BY <2>1 DEF OnDsp, WorldType, CardType, SameBut, CardFields, Trust, Quiet
<1> HIDE DEF v
<1>7. OnDsp(v, w)
  BY <1>1, <1>3, <1>5, <1>6, OnDspTrans
<1>8. SameBut(v, w, {"started", "port_cfg"}) /\ (v.ok => w.ok)
  BY <1>1, <1>3, <1>5, <1>6 DEF SameBut
<1>9. ASSUME NEW E \in SUBSET Ports, p \in E, p \in w.card.slots, p \in w.card.tdm, Covered(w, E)
      PROVE  Covered(v, E)
  <2>1. v.card.clk_count = w.card.clk_count /\ v.dsp.clk = w.dsp.clk
    BY <1>1, <1>3, <1>5, <1>6, <1>8 DEF SameBut, CardFields
  <2>2. v.card.port_cfg = c.card.port_cfg /\ b.card.started = w.card.started
    BY <1>1, <1>3, <1>5, <1>6 DEF SameBut, CardFields
  <2>3. v.card.started \subseteq E /\ v.card.started \subseteq v.card.port_cfg
    BY <1>1, <1>3, <1>5, <1>6, <1>9, <2>2 DEF Covered
  <2> QED BY <1>9, <2>1, <2>3 DEF Covered
<1> QED BY <1>2, <1>7, <1>8, <1>9

-----------------------------------------------------------------------------
(* COPPs                                                                   *)

\* The streams with a COPP of port p.
Users(w, p) == {t \in Streams : p \in w.card.copps[t]}
\* The DSP counts them.
Balanced(w) == \A p \in Ports : w.dsp.adm[p] = Cardinality(Users(w, p))

\* v is what work on the COPPs of stream s leaves of w.
OnAdm(v, w, s) ==
    /\ v \in WorldType /\ v.amp = w.amp /\ v.how = w.how /\ v.late = w.late
    /\ v.dsp.clk = w.dsp.clk /\ SameBut(v, w, {"copps"})
    /\ \A t \in Streams \ {s} : v.card.copps[t] = w.card.copps[t]
    /\ w.at = 0 => v.at = 0
    /\ Balanced(w) => Balanced(v)

LEMMA OnAdmTrans ==
    ASSUME NEW s, NEW u, NEW v, NEW w, OnAdm(v, u, s), OnAdm(u, w, s)
    PROVE  OnAdm(v, w, s)
BY DEF OnAdm, SameBut

LEMMA UsersFinite ==
    ASSUME NEW w, NEW p
    PROVE  IsFiniteSet(Users(w, p)) /\ Cardinality(Users(w, p)) \in Nat
<1>1. Users(w, p) \subseteq Streams
  BY DEF Users
<1> QED BY <1>1, Q6AudioAssumption, FS_Subset, FS_CardinalityType

LEMMA CloseCopps ==
    ASSUME NEW w \in WorldType, NEW s \in Streams
    PROVE  LET v == close_copps(w, s)
           IN  OnAdm(v, w, s) /\ v.card.copps[s] = {} /\ v.ok = w.ok
<1> DEFINE adm1 == [p \in Ports |-> IF p \in w.card.copps[s] THEN w.dsp.adm[p] - 1 ELSE w.dsp.adm[p]]
           copps1 == [w.card.copps EXCEPT ![s] = {}]
           card1 == [w.card EXCEPT !.copps = copps1]
           dsp1 == [w.dsp EXCEPT !.adm = adm1]
           v == [w EXCEPT !.card = card1, !.dsp = dsp1]
<1>1. /\ adm1 \in [Ports -> Int] /\ copps1 \in [Streams -> SUBSET Ports]
      /\ w.card \in CardType /\ w.dsp \in DspType
      /\ copps1[s] = {} /\ \A t \in Streams \ {s} : copps1[t] = w.card.copps[t]
  BY DEF WorldType, CardType, DspType
<1>2. \A p \in Ports :
          adm1[p] = IF p \in w.card.copps[s] THEN w.dsp.adm[p] - 1 ELSE w.dsp.adm[p]
  OBVIOUS
<1>3. v = close_copps(w, s)
  <2>1. close_copps(w, s) = [w EXCEPT !.card.copps[s] = {}, !.dsp.adm = adm1]
    BY DEF close_copps
  <2> HIDE DEF adm1
  <2> QED BY <2>1 DEF WorldType, CardType, DspType
<1> HIDE DEF adm1, copps1
<1>4. /\ card1 \in CardType /\ card1.copps = copps1 /\ dsp1 \in DspType /\ dsp1.adm = adm1
      /\ dsp1.clk = w.dsp.clk /\ \A f \in CardFields \ {"copps"} : card1[f] = w.card[f]
  BY <1>1 DEF CardType, DspType, CardFields
<1> HIDE DEF card1, dsp1
<1>5. /\ v \in WorldType /\ v.card = card1 /\ v.dsp = dsp1 /\ v.amp = w.amp /\ v.late = w.late
      /\ v.ok = w.ok /\ v.at = w.at /\ v.how = w.how
  BY <1>4 DEF WorldType
<1> HIDE DEF v
<1>6. ASSUME Balanced(w), NEW p \in Ports PROVE v.dsp.adm[p] = Cardinality(Users(v, p))
  <2>1. CASE p \notin w.card.copps[s]
    <3>1. Users(v, p) = Users(w, p)
      BY <1>1, <1>4, <1>5, <2>1 DEF Users
    <3> QED BY <1>2, <1>4, <1>5, <1>6, <2>1, <3>1 DEF Balanced
  <2>2. CASE p \in w.card.copps[s]
    <3>1. s \in Users(w, p) /\ Users(v, p) = Users(w, p) \ {s}
      BY <1>1, <1>4, <1>5, <2>2 DEF Users
    <3>2. Cardinality(Users(v, p)) = Cardinality(Users(w, p)) - 1
      <4> DEFINE U == Users(w, p)
      <4>1. IsFiniteSet(U)
        BY UsersFinite
      <4>2. s \in U /\ Users(v, p) = U \ {s}
        BY <3>1
      <4> HIDE DEF U
      <4>3. Cardinality(U \ {s}) = Cardinality(U) - 1
        BY <4>1, <4>2, FS_RemoveElement
      <4> QED BY <4>2, <4>3 DEF U
    <3> QED BY <1>2, <1>4, <1>5, <1>6, <2>2, <3>2 DEF Balanced
  <2> QED BY <2>1, <2>2
<1>7. OnAdm(v, w, s)
  BY <1>1, <1>4, <1>5, <1>6 DEF OnAdm, Balanced, SameBut
<1> QED BY <1>1, <1>3, <1>4, <1>5, <1>7

LEMMA AdmOpen ==
    ASSUME NEW w \in WorldType, NEW s \in Streams, NEW p \in Ports, p \notin w.card.copps[s]
    PROVE  LET v == adm_open(w, s, p)
           IN  /\ OnAdm(v, w, s) /\ (v.ok => w.ok)
               /\ v.card.copps[s] \subseteq w.card.copps[s] \union {p}
<1> DEFINE at1 == IF w.at = 0 THEN 0 ELSE w.at - 1
           adm1 == [w.dsp.adm EXCEPT ![p] = @ + 1]
           copps1 == [w.card.copps EXCEPT ![s] = @ \union {p}]
           card1 == [w.card EXCEPT !.copps = copps1]
           dsp1 == [w.dsp EXCEPT !.adm = adm1]
           v == [w EXCEPT !.at = at1, !.card = card1, !.dsp = dsp1]
<1>1. CASE ~w.ok
  BY <1>1 DEF adm_open, OnAdm, SameBut
<1>2. CASE w.ok /\ w.at = 1
  <2> DEFINE u == [w EXCEPT !.at = 0, !.ok = FALSE]
  <2>1. u = adm_open(w, s, p)
    BY <1>2 DEF adm_open
  <2>2. u \in WorldType /\ u.card = w.card /\ u.dsp = w.dsp /\ u.amp = w.amp /\ u.late = w.late
        /\ u.how = w.how /\ ~u.ok
    BY DEF WorldType
  <2> HIDE DEF u
  <2>3. Balanced(w) => Balanced(u)
    BY <2>2 DEF Balanced, Users
  <2> QED BY <1>2, <2>1, <2>2, <2>3 DEF OnAdm, SameBut
<1>3. CASE w.ok /\ w.at # 1
  <2>1. /\ adm1 \in [Ports -> Int] /\ copps1 \in [Streams -> SUBSET Ports]
        /\ w.card \in CardType /\ w.dsp \in DspType /\ at1 \in Nat /\ (w.at = 0 => at1 = 0)
        /\ copps1[s] = w.card.copps[s] \union {p}
        /\ \A t \in Streams \ {s} : copps1[t] = w.card.copps[t]
        /\ \A q \in Ports : adm1[q] = IF q = p THEN w.dsp.adm[q] + 1 ELSE w.dsp.adm[q]
    BY DEF WorldType, CardType, DspType
  <2>2. v = adm_open(w, s, p)
    <3>1. adm_open(w, s, p) = [w EXCEPT !.at = at1, !.dsp.adm[p] = @ + 1, !.card.copps[s] = @ \union {p}]
      BY <1>3 DEF adm_open
    <3> HIDE DEF at1
    <3> QED BY <3>1 DEF WorldType, CardType, DspType
  <2> HIDE DEF adm1, copps1, at1
  <2>3. /\ card1 \in CardType /\ card1.copps = copps1 /\ dsp1 \in DspType /\ dsp1.adm = adm1
        /\ dsp1.clk = w.dsp.clk /\ \A f \in CardFields \ {"copps"} : card1[f] = w.card[f]
    BY <2>1 DEF CardType, DspType, CardFields
  <2> HIDE DEF card1, dsp1
  <2>4. /\ v \in WorldType /\ v.card = card1 /\ v.dsp = dsp1 /\ v.amp = w.amp /\ v.late = w.late
        /\ v.ok = w.ok /\ v.at = at1 /\ v.how = w.how
    BY <2>1, <2>3 DEF WorldType
  <2> HIDE DEF v
  <2>5. ASSUME Balanced(w), NEW q \in Ports PROVE v.dsp.adm[q] = Cardinality(Users(v, q))
    <3>1. CASE q # p
      <4>1. Users(v, q) = Users(w, q)
        BY <2>1, <2>3, <2>4, <3>1 DEF Users
      <4> QED BY <2>1, <2>3, <2>4, <2>5, <3>1, <4>1 DEF Balanced
    <3>2. CASE q = p
      <4>1. s \notin Users(w, q) /\ Users(v, q) = Users(w, q) \union {s}
        BY <2>1, <2>3, <2>4, <3>2 DEF Users
      <4>2. Cardinality(Users(v, q)) = Cardinality(Users(w, q)) + 1
        BY <4>1, UsersFinite, FS_AddElement
      <4> QED BY <2>1, <2>3, <2>4, <2>5, <3>2, <4>2 DEF Balanced
    <3> QED BY <3>1, <3>2
  <2>6. OnAdm(v, w, s)
    BY <2>1, <2>3, <2>4, <2>5 DEF OnAdm, Balanced, SameBut
  <2> QED BY <1>3, <2>1, <2>2, <2>3, <2>4, <2>6
<1> QED BY <1>1, <1>2, <1>3

LEMMA StreamOpen ==
    ASSUME NEW w \in WorldType, NEW s \in Streams
    PROVE  LET v == stream_open(w, s)
           IN  OnAdm(v, w, s) /\ (v.ok => w.ok)
<1> DEFINE opened(x, p) == adm_open(x, s, p)
           S == w.card.port_map[s]
           c == close_copps(w, s)
           q == SetToSeq(S)
           N == Cardinality(S)
           r == Each(c, S, opened)
           W == [n \in 0..N |-> {x \in WorldType :
                   OnAdm(x, c, s) /\ (x.ok => c.ok) /\ x.card.copps[s] \subseteq {q[k] : k \in 1..n}}]
<1>1. stream_open(w, s) = IF r.ok THEN r ELSE close_copps(r, s)
  BY DEF stream_open
<1>2. OnAdm(c, w, s) /\ c.card.copps[s] = {} /\ c.ok = w.ok
  BY CloseCopps
<1>3. c \in WorldType
  BY <1>2 DEF OnAdm
<1>4. S \in SUBSET Ports /\ IsFiniteSet(S)
  <2>1. S \in SUBSET Ports
    BY DEF WorldType, CardType
  <2> HIDE DEF S
  <2> QED BY <2>1, FinitePorts
<1> HIDE DEF c, S
<1>5. PICK f : Row(f, "open", s, c, S) /\ r = f[N]
  <2> DEFINE F(f) == f = [n \in 0..Len(q) |-> IF n = 0 THEN c ELSE adm_open(f[n - 1], s, q[n])]
             after == CHOOSE f : F(f)
  <2>1. \A f : F(f) <=> Chain(f, "open", s, c, q, Len(q))
    BY DEF Chain, Do
  <2>2. \E f : F(f)
    <3>1. Len(q) \in Nat
      BY <1>4, Order
    <3> HIDE DEF F, q
    <3> QED BY <2>1, <3>1, Chained
  <2>3. F(after)
    <3> HIDE DEF F
    <3> QED BY <2>2
  <2>4. Row(after, "open", s, c, S) /\ after[Len(q)] = after[N]
    <3>1. Chain(after, "open", s, c, q, Len(q))
      BY <2>1, <2>3
    <3> HIDE DEF after
    <3> QED BY <1>4, <3>1, RowOfChain
  <2>5. r = after[Len(q)]
    BY DEF Each
  <2> HIDE DEF after
  <2> QED BY <2>4, <2>5
<1>6. /\ N \in Nat /\ \A n \in 1..N : q[n] \in S
      /\ \A m, n \in 1..N : q[m] = q[n] => m = n
  BY <1>4, Order
<1> HIDE DEF q, N, r
<1>7. f[0] = c /\ \A n \in 1..N : f[n] = adm_open(f[n - 1], s, q[n])
  BY <1>5 DEF Row, Do, q, N
<1>8. f[0] \in W[0]
  <2>1. OnAdm(c, c, s)
    BY <1>3 DEF OnAdm, SameBut
  <2> QED BY <1>2, <1>3, <1>6, <1>7, <2>1
<1>9. ASSUME NEW n \in 1..N, f[n - 1] \in W[n - 1] PROVE f[n] \in W[n]
  <2> DEFINE u == f[n - 1]
             v == f[n]
             p == q[n]
  <2>1. n - 1 \in 0..N /\ n \in 0..N
    BY <1>6
  <2>2. /\ u \in WorldType /\ OnAdm(u, c, s) /\ (u.ok => c.ok)
        /\ u.card.copps[s] \subseteq {q[k] : k \in 1..n - 1}
    BY <1>9, <2>1
  <2>3. p \in Ports /\ v = adm_open(u, s, p)
    BY <1>4, <1>6, <1>7
  <2>4. p \notin u.card.copps[s]
    <3>1. \A k \in 1..n - 1 : k \in 1..N /\ k # n
      BY <1>6
    <3>2. p \notin {q[k] : k \in 1..n - 1}
      BY <1>6, <3>1
    <3> QED BY <2>2, <3>2
  <2> HIDE DEF W, u, v, p
  <2>5. OnAdm(v, u, s) /\ (v.ok => u.ok) /\ v.card.copps[s] \subseteq u.card.copps[s] \union {p}
    BY <2>2, <2>3, <2>4, AdmOpen
  <2>6. OnAdm(v, c, s) /\ (v.ok => c.ok)
    BY <2>2, <2>5, OnAdmTrans
  <2>7. v.card.copps[s] \subseteq {q[k] : k \in 1..n}
    <3>1. p \in {q[k] : k \in 1..n} /\ {q[k] : k \in 1..n - 1} \subseteq {q[k] : k \in 1..n}
      BY DEF p
    <3> QED BY <2>2, <2>5, <3>1
  <2>8. v \in WorldType
    BY <2>6 DEF OnAdm
  <2>9. v \in W[n]
    BY <2>1, <2>6, <2>7, <2>8 DEF W
  <2> QED BY <2>9 DEF v
<1>10. f[N] \in W[N]
  <2> HIDE DEF W
  <2> QED BY <1>6, <1>8, <1>9, RowInduction
<1>11. OnAdm(r, c, s) /\ (r.ok => c.ok)
  BY <1>5, <1>6, <1>10
<1>12. OnAdm(r, w, s) /\ (r.ok => w.ok)
  BY <1>2, <1>11, OnAdmTrans
<1>13. r \in WorldType
  BY <1>11 DEF OnAdm
<1>14. CASE r.ok
  BY <1>1, <1>12, <1>14
<1>15. CASE ~r.ok
  <2>1. OnAdm(close_copps(r, s), r, s) /\ close_copps(r, s).ok = r.ok
    BY <1>13, CloseCopps
  <2>2. OnAdm(close_copps(r, s), w, s)
    BY <1>12, <2>1, OnAdmTrans
  <2> QED BY <1>1, <1>15, <2>1, <2>2
<1> QED BY <1>14, <1>15

-----------------------------------------------------------------------------
(* All back ends of a stream                                               *)

\* Only the ports' structs come and go.
OnPorts(v, w) ==
    /\ v \in WorldType /\ SameBut(v, w, {"ports"}) /\ v.dsp = w.dsp /\ v.amp = w.amp
    /\ v.late = w.late /\ v.ok = w.ok /\ v.at = w.at /\ v.how = w.how

LEMMA PortsAll ==
    ASSUME NEW w \in WorldType, NEW S \in SUBSET Ports
    PROVE  OnPorts(Each(w, S, q6afe_port_get_from_id), w) /\ OnPorts(Each(w, S, q6afe_port_put), w)
<1> DEFINE q == SetToSeq(S)
           N == Cardinality(S)
           W == [n \in 0..N |-> {x \in WorldType : OnPorts(x, w)}]
<1>1. IsFiniteSet(S)
  BY FinitePorts
<1>2. N \in Nat /\ \A n \in 1..N : q[n] \in S
  BY <1>1, Order
<1>3. PICK f : Row(f, "find", {}, w, S) /\ Each(w, S, q6afe_port_get_from_id) = f[N]
  BY <1>1, EachFind
<1>4. PICK g : Row(g, "put", {}, w, S) /\ Each(w, S, q6afe_port_put) = g[N]
  BY <1>1, EachPut
<1> HIDE DEF q, N
<1>5. f[0] = w /\ \A n \in 1..N : f[n] = q6afe_port_get_from_id(f[n - 1], q[n])
  BY <1>3 DEF Row, Do, q, N
<1>6. g[0] = w /\ \A n \in 1..N : g[n] = q6afe_port_put(g[n - 1], q[n])
  BY <1>4 DEF Row, Do, q, N
<1>7. OnPorts(w, w)
  BY DEF OnPorts, SameBut
<1>8. ASSUME NEW u \in WorldType, OnPorts(u, w), NEW p \in S
      PROVE  OnPorts(q6afe_port_get_from_id(u, p), w) /\ OnPorts(q6afe_port_put(u, p), w)
  <2>1. OnPorts(q6afe_port_get_from_id(u, p), u)
    BY <1>8 DEF q6afe_port_get_from_id, OnPorts, WorldType, CardType, SameBut, CardFields
  <2>2. OnPorts(q6afe_port_put(u, p), u)
    BY <1>8 DEF q6afe_port_put, OnPorts, WorldType, CardType, SameBut, CardFields
  <2> QED BY <1>8, <2>1, <2>2 DEF OnPorts, SameBut
<1>9. \A n \in 0..N : W[n] = {x \in WorldType : OnPorts(x, w)}
  OBVIOUS
<1>10. \A n \in 1..N : n \in 0..N /\ n - 1 \in 0..N
  BY <1>2
<1> HIDE DEF W
<1>11. \A n \in 1..N : f[n - 1] \in W[n - 1] => f[n] \in W[n]
  BY <1>2, <1>5, <1>8, <1>9, <1>10 DEF OnPorts
<1>12. \A n \in 1..N : g[n - 1] \in W[n - 1] => g[n] \in W[n]
  BY <1>2, <1>6, <1>8, <1>9, <1>10 DEF OnPorts
<1>13. f[0] \in W[0] /\ g[0] \in W[0]
  BY <1>2, <1>5, <1>6, <1>7, <1>9
<1>14. f[N] \in W[N]
  BY <1>2, <1>11, <1>13, RowInduction
<1>15. g[N] \in W[N]
  BY <1>2, <1>12, <1>13, RowInduction
<1> QED BY <1>2, <1>3, <1>4, <1>9, <1>14, <1>15 DEF N

\* Those of done have started up, and when nothing failed all have.
LEMMA StartAll ==
    ASSUME NEW w \in WorldType, NEW S \in SUBSET Ports
    PROVE  LET r == Each([w |-> w, done |-> {}], S, be_startup)
           IN  /\ OnDsp(r.w, w) /\ SameBut(r.w, w, {"clk_count"}) /\ r.done \subseteq S
               /\ r.w.ok => w.ok /\ r.done = S
               /\ \A E \in SUBSET Ports :
                      E \intersect S = {} /\ Trust(w) /\ Covered(w, E) => Covered(r.w, E \union r.done)
<1> DEFINE q == SetToSeq(S)
           N == Cardinality(S)
           r0 == [w |-> w, done |-> {}]
           T(n) == {q[k] : k \in 1..n}
           Good(y, n) ==
             /\ OnDsp(y.w, w) /\ SameBut(y.w, w, {"clk_count"}) /\ y.done \subseteq T(n)
             /\ y.w.ok => w.ok /\ y.done = T(n)
             /\ \A E \in SUBSET Ports :
                    E \intersect S = {} /\ Trust(w) /\ Covered(w, E) => Covered(y.w, E \union y.done)
           W == [n \in 0..N |-> {y \in [w : WorldType, done : SUBSET Ports] : Good(y, n)}]
<1>1. IsFiniteSet(S)
  BY FinitePorts
<1>2. /\ N \in Nat /\ \A n \in 1..N : q[n] \in S
      /\ \A m, n \in 1..N : q[m] = q[n] => m = n
      /\ \A p \in S : \E n \in 1..N : q[n] = p
  BY <1>1, Order
<1>3. PICK f : Row(f, "start", {}, r0, S) /\ Each(r0, S, be_startup) = f[N]
  BY <1>1, EachStart
<1> HIDE DEF q, N
<1>4. f[0] = r0 /\ \A n \in 1..N : f[n] = be_startup(f[n - 1], q[n])
  BY <1>3 DEF Row, Do, q, N
<1>5. f[0] \in W[0]
  <2>1. OnDsp(w, w) /\ SameBut(w, w, {"clk_count"}) /\ T(0) = {}
    BY DEF OnDsp, SameBut
  <2>2. \A E \in SUBSET Ports : E \union {} = E
    OBVIOUS
  <2>3. r0 \in [w : WorldType, done : SUBSET Ports] /\ r0.w = w /\ r0.done = {}
    OBVIOUS
  <2> HIDE DEF T, r0
  <2>4. Good(r0, 0)
    BY <2>1, <2>2, <2>3
  <2> HIDE DEF Good
  <2> QED BY <1>2, <1>4, <2>3, <2>4
<1>6. ASSUME NEW n \in 1..N, f[n - 1] \in W[n - 1] PROVE f[n] \in W[n]
  <2> DEFINE u == f[n - 1]
             v == f[n]
             p == q[n]
             x == startup(u.w, p)
             done1 == IF x.ok THEN u.done \union {p} ELSE u.done
  <2>1. n - 1 \in 0..N /\ n \in 0..N
    BY <1>2
  <2>2. u \in [w : WorldType, done : SUBSET Ports] /\ Good(u, n - 1)
    <3> HIDE DEF Good
    <3> QED BY <1>6, <2>1
  <2>3. p \in Ports /\ p \in S
    BY <1>2
  <2>4. v = [w |-> x, done |-> done1]
    BY <1>4 DEF be_startup
  <2>5. /\ T(n) = T(n - 1) \union {p} /\ p \notin T(n - 1)
    <3>1. \A k \in 1..n - 1 : k \in 1..n /\ k \in 1..N /\ k # n
      BY <1>2
    <3>2. \A k \in 1..n : k = n \/ k \in 1..n - 1
      OBVIOUS
    <3>3. p \notin T(n - 1)
      BY <1>2, <3>1
    <3> QED BY <3>1, <3>2, <3>3
  <2> HIDE DEF T, u
  <2>6. /\ OnDsp(x, u.w) /\ SameBut(x, u.w, {"clk_count"}) /\ (x.ok => u.w.ok)
        /\ \A E \in SUBSET Ports :
               p \notin E /\ Trust(u.w) /\ Covered(u.w, E) => Covered(x, IF x.ok THEN E \union {p} ELSE E)
    BY <2>2, <2>3, Startup
  <2> HIDE DEF x, p
  <2>7. /\ v \in [w : WorldType, done : SUBSET Ports] /\ v.w = x /\ v.done = done1
    BY <2>2, <2>3, <2>4, <2>6 DEF OnDsp
  <2>8. OnDsp(x, w) /\ SameBut(x, w, {"clk_count"}) /\ (x.ok => w.ok)
    BY <2>2, <2>6, OnDspTrans DEF SameBut
  <2>9. done1 \subseteq T(n) /\ (x.ok => done1 = T(n))
    BY <2>2, <2>5, <2>6
  <2>10. ASSUME NEW E \in SUBSET Ports, E \intersect S = {}, Trust(w), Covered(w, E)
         PROVE  Covered(x, E \union done1)
    <3> DEFINE D == E \union u.done
    <3>1. Trust(u.w) /\ Covered(u.w, D)
      BY <2>2, <2>10 DEF OnDsp
    <3>2. D \in SUBSET Ports /\ p \notin D
      BY <2>2, <2>3, <2>5, <2>10
    <3> HIDE DEF D
    <3>3. Covered(x, IF x.ok THEN D \union {p} ELSE D)
      BY <2>6, <3>1, <3>2
    <3>4. E \union done1 = IF x.ok THEN D \union {p} ELSE D
      BY DEF D
    <3> QED BY <3>3, <3>4
  <2> HIDE DEF done1, v
  <2>11. Good(v, n)
    BY <2>7, <2>8, <2>9, <2>10
  <2> HIDE DEF Good
  <2>12. v \in W[n]
    BY <2>1, <2>7, <2>11
  <2> QED BY <2>12 DEF v
<1> HIDE DEF Good
<1>7. f[N] \in W[N]
  <2> HIDE DEF W
  <2> QED BY <1>2, <1>5, <1>6, RowInduction
<1>8. Good(f[N], N)
  BY <1>2, <1>7
<1>9. T(N) = S
  BY <1>2
<1>10. Each([w |-> w, done |-> {}], S, be_startup) = f[N]
  BY <1>3
<1> HIDE DEF T, W
<1> QED BY <1>8, <1>9, <1>10 DEF Good

LEMMA StopAll ==
    ASSUME NEW w \in WorldType, NEW S \in SUBSET Ports
    PROVE  LET v == Each(w, S, be_shutdown)
           IN  /\ OnDsp(v, w) /\ SameBut(v, w, {"clk_count", "started"}) /\ (w.ok => v.ok)
               /\ \A E \in SUBSET Ports : S \subseteq E /\ Covered(w, E) => Covered(v, E \ S)
<1> DEFINE q == SetToSeq(S)
           N == Cardinality(S)
           T(n) == {q[k] : k \in 1..n}
           Good(y, n) ==
             /\ OnDsp(y, w) /\ SameBut(y, w, {"clk_count", "started"}) /\ (w.ok => y.ok)
             /\ \A E \in SUBSET Ports : S \subseteq E /\ Covered(w, E) => Covered(y, E \ T(n))
           W == [n \in 0..N |-> {y \in WorldType : Good(y, n)}]
<1>1. IsFiniteSet(S)
  BY FinitePorts
<1>2. /\ N \in Nat /\ \A n \in 1..N : q[n] \in S
      /\ \A m, n \in 1..N : q[m] = q[n] => m = n
      /\ \A p \in S : \E n \in 1..N : q[n] = p
  BY <1>1, Order
<1>3. PICK f : Row(f, "stop", {}, w, S) /\ Each(w, S, be_shutdown) = f[N]
  BY <1>1, EachStop
<1> HIDE DEF q, N
<1>4. f[0] = w /\ \A n \in 1..N : f[n] = be_shutdown(f[n - 1], q[n])
  BY <1>3 DEF Row, Do, q, N
<1>5. f[0] \in W[0]
  <2>1. OnDsp(w, w) /\ SameBut(w, w, {"clk_count", "started"}) /\ T(0) = {}
    BY DEF OnDsp, SameBut
  <2>2. \A E \in SUBSET Ports : E \ {} = E
    OBVIOUS
  <2> HIDE DEF T
  <2>3. Good(w, 0)
    BY <2>1, <2>2
  <2> HIDE DEF Good
  <2> QED BY <1>2, <1>4, <2>3
<1>6. ASSUME NEW n \in 1..N, f[n - 1] \in W[n - 1] PROVE f[n] \in W[n]
  <2> DEFINE u == f[n - 1]
             v == f[n]
             p == q[n]
  <2>1. n - 1 \in 0..N /\ n \in 0..N
    BY <1>2
  <2>2. u \in WorldType /\ Good(u, n - 1)
    <3> HIDE DEF Good
    <3> QED BY <1>6, <2>1
  <2>3. p \in Ports /\ p \in S /\ v = be_shutdown(u, p)
    BY <1>2, <1>4
  <2>4. /\ T(n) = T(n - 1) \union {p} /\ p \notin T(n - 1)
    <3>1. \A k \in 1..n - 1 : k \in 1..n /\ k \in 1..N /\ k # n
      BY <1>2
    <3>2. \A k \in 1..n : k = n \/ k \in 1..n - 1
      OBVIOUS
    <3>3. p \notin T(n - 1)
      BY <1>2, <3>1
    <3> QED BY <3>1, <3>2, <3>3
  <2> HIDE DEF T, u, v, p
  <2>5. /\ OnDsp(v, u) /\ SameBut(v, u, {"clk_count", "started"}) /\ (u.ok => v.ok)
        /\ \A E \in SUBSET Ports : p \in E /\ Covered(u, E) => Covered(v, E \ {p})
    BY <2>2, <2>3, BeShutdown
  <2>6. OnDsp(v, w) /\ SameBut(v, w, {"clk_count", "started"}) /\ (w.ok => v.ok)
    BY <2>2, <2>5, OnDspTrans DEF SameBut
  <2>7. ASSUME NEW E \in SUBSET Ports, S \subseteq E, Covered(w, E)
        PROVE  Covered(v, E \ T(n))
    <3> DEFINE D == E \ T(n - 1)
    <3>1. Covered(u, D)
      BY <2>2, <2>7
    <3>2. D \in SUBSET Ports /\ p \in D /\ E \ T(n) = D \ {p}
      BY <2>3, <2>4, <2>7
    <3> HIDE DEF D
    <3> QED BY <2>5, <3>1, <3>2
  <2>8. Good(v, n) /\ v \in WorldType
    BY <2>6, <2>7 DEF OnDsp
  <2> HIDE DEF Good
  <2>9. v \in W[n]
    BY <2>1, <2>8
  <2> QED BY <2>9 DEF v
<1> HIDE DEF Good
<1>7. f[N] \in W[N]
  <2> HIDE DEF W
  <2> QED BY <1>2, <1>5, <1>6, RowInduction
<1>8. Good(f[N], N)
  BY <1>2, <1>7
<1>9. T(N) = S
  BY <1>2
<1> HIDE DEF T, W
<1> QED BY <1>3, <1>8, <1>9 DEF Good

\* Those of done are prepared.
LEMMA PrepareAll ==
    ASSUME NEW w \in WorldType, NEW S \in SUBSET Ports
    PROVE  LET r == Each([w |-> w, done |-> {}], S, be_prepare)
           IN  /\ OnDsp(r.w, w) /\ SameBut(r.w, w, {"started", "port_cfg"}) /\ r.done \subseteq S
               /\ \A E \in SUBSET Ports :
                      S \subseteq E /\ S \subseteq w.card.slots /\ S \subseteq w.card.tdm /\ Covered(w, E)
                          => Covered(r.w, E)
<1> DEFINE q == SetToSeq(S)
           N == Cardinality(S)
           r0 == [w |-> w, done |-> {}]
           Good(y) ==
             /\ OnDsp(y.w, w) /\ SameBut(y.w, w, {"started", "port_cfg"}) /\ y.done \subseteq S
             /\ \A E \in SUBSET Ports :
                      S \subseteq E /\ S \subseteq w.card.slots /\ S \subseteq w.card.tdm /\ Covered(w, E)
                          => Covered(y.w, E)
           W == [n \in 0..N |-> {y \in [w : WorldType, done : SUBSET Ports] : Good(y)}]
<1>1. IsFiniteSet(S)
  BY FinitePorts
<1>2. N \in Nat /\ \A n \in 1..N : q[n] \in S
  BY <1>1, Order
<1>3. PICK f : Row(f, "prepare", {}, r0, S) /\ Each(r0, S, be_prepare) = f[N]
  BY <1>1, EachPrepare
<1> HIDE DEF q, N
<1>4. f[0] = r0 /\ \A n \in 1..N : f[n] = be_prepare(f[n - 1], q[n])
  BY <1>3 DEF Row, Do, q, N
<1>5. f[0] \in W[0]
  <2>1. OnDsp(w, w) /\ SameBut(w, w, {"started", "port_cfg"})
    BY DEF OnDsp, SameBut
  <2>2. r0 \in [w : WorldType, done : SUBSET Ports] /\ r0.w = w /\ r0.done = {}
    OBVIOUS
  <2> HIDE DEF r0
  <2>3. Good(r0)
    BY <2>1, <2>2
  <2> HIDE DEF Good
  <2> QED BY <1>2, <1>4, <2>2, <2>3
<1>6. ASSUME NEW n \in 1..N, f[n - 1] \in W[n - 1] PROVE f[n] \in W[n]
  <2> DEFINE u == f[n - 1]
             v == f[n]
             p == q[n]
             x == dai_prepare(u.w, p)
             done1 == IF x.ok THEN u.done \union {p} ELSE u.done
  <2>1. n - 1 \in 0..N /\ n \in 0..N
    BY <1>2
  <2>2. u \in [w : WorldType, done : SUBSET Ports] /\ Good(u)
    <3> HIDE DEF Good
    <3> QED BY <1>6, <2>1
  <2>3. p \in Ports /\ p \in S
    BY <1>2
  <2>4. v = [w |-> x, done |-> done1]
    BY <1>4 DEF be_prepare
  <2> HIDE DEF u
  <2>5. /\ OnDsp(x, u.w) /\ SameBut(x, u.w, {"started", "port_cfg"})
        /\ \A E \in SUBSET Ports :
               p \in E /\ p \in u.w.card.slots /\ p \in u.w.card.tdm /\ Covered(u.w, E) => Covered(x, E)
    BY <2>2, <2>3, DaiPrepare
  <2> HIDE DEF x, p
  <2>6. v \in [w : WorldType, done : SUBSET Ports] /\ v.w = x /\ v.done \subseteq S
    BY <2>2, <2>3, <2>4, <2>5 DEF OnDsp
  <2>7. OnDsp(x, w) /\ SameBut(x, w, {"started", "port_cfg"})
    BY <2>2, <2>5, OnDspTrans DEF SameBut
  <2>8. u.w.card.slots = w.card.slots /\ u.w.card.tdm = w.card.tdm
    BY <2>2 DEF SameBut, CardFields
  <2> HIDE DEF done1, v
  <2>9. Good(v)
    BY <2>2, <2>3, <2>5, <2>6, <2>7, <2>8
  <2> HIDE DEF Good
  <2>10. v \in W[n]
    BY <2>1, <2>6, <2>9
  <2> QED BY <2>10 DEF v
<1> HIDE DEF Good
<1>7. f[N] \in W[N]
  <2> HIDE DEF W
  <2> QED BY <1>2, <1>5, <1>6, RowInduction
<1>8. Good(f[N])
  BY <1>2, <1>7
<1>9. Each([w |-> w, done |-> {}], S, be_prepare) = f[N]
  BY <1>3
<1> HIDE DEF W
<1> QED BY <1>8, <1>9 DEF Good

\* The bit clocks of the ports in use depend on these alone.
LEMMA CoveredFrame ==
    ASSUME NEW v, NEW w, SameBut(v, w, CardFields \ {"clk_count", "started", "port_cfg"}),
           v.dsp.clk = w.dsp.clk, NEW E, Covered(w, E)
    PROVE  Covered(v, E)
<1>1. v.card["clk_count"] = w.card["clk_count"] /\ v.card["started"] = w.card["started"]
      /\ v.card["port_cfg"] = w.card["port_cfg"]
  BY DEF SameBut, CardFields
<1>2. v.card.clk_count = w.card.clk_count /\ v.card.started = w.card.started
      /\ v.card.port_cfg = w.card.port_cfg
  BY <1>1
<1> QED BY <1>2 DEF Covered

\* The drivers' fields when only those of F change.
LEMMA SameButSub ==
    ASSUME NEW v, NEW w, NEW F, SameBut(v, w, F), NEW G, F \subseteq G
    PROVE  SameBut(v, w, G)
BY DEF SameBut

LEMMA SameButTrans ==
    ASSUME NEW u, NEW v, NEW w, NEW F, SameBut(v, u, F), SameBut(u, w, F)
    PROVE  SameBut(v, w, F)
BY DEF SameBut

\* v is what an operation on the back ends, on the COPPs or on a control leaves of w:
\* the amplifier's power state is as it was, and so is its mode if nothing can fail.
Calm(v, w) ==
    /\ Agree(v, w, {"chip_on", "clk", "prot", "bias"})
    /\ w.amp.chip_on => Agree(v, w, {"chipen", "bst", "mode_store"})
    /\ w.at = 0 => Agree(v, w, {"mode_store"})
    /\ Tuned(w.amp) => Tuned(v.amp) /\ (w.amp.pll # 0 => v.amp.pll # 0)
Work(v, w) ==
    /\ v \in WorldType /\ Calm(v, w)
    /\ v.card.ports = w.card.ports /\ v.card.port_map = w.card.port_map
    /\ w.card.slots \subseteq v.card.slots /\ w.card.tdm \subseteq v.card.tdm
    /\ w.at = 0 => v.at = 0
    /\ Trust(w) => Trust(v)
    /\ Quiet(w) => Quiet(v)

LEMMA WorkTrans ==
    ASSUME NEW u, NEW v, NEW w, Work(v, u), Work(u, w)
    PROVE  Work(v, w)
<1>1. w.at = 0 => u.at = 0
  BY DEF Work
<1>2. Calm(v, u) /\ Calm(u, w)
  BY DEF Work
<1>3. Calm(v, w)
  BY <1>1, <1>2, Zenon DEF Calm, Agree
<1> QED BY <1>3 DEF Work

\* The fields that commands and COPPs change.
DspFields == {"port_cfg", "clk_count", "started", "port_data", "copps"}

LEMMA SameWork ==
    ASSUME NEW v, NEW w, v \in WorldType, v.amp = w.amp, SameBut(v, w, DspFields)
    PROVE  /\ Calm(v, w)
           /\ v.card.ports = w.card.ports /\ v.card.port_map = w.card.port_map
           /\ v.card.slots = w.card.slots /\ v.card.tdm = w.card.tdm
<1>1. /\ v.card["ports"] = w.card["ports"] /\ v.card["port_map"] = w.card["port_map"]
      /\ v.card["slots"] = w.card["slots"] /\ v.card["tdm"] = w.card["tdm"]
  BY DEF SameBut, CardFields, DspFields
<1>2. Calm(v, w)
  BY DEF Calm, Agree
<1> QED BY <1>1, <1>2

LEMMA DspWork ==
    ASSUME NEW v, NEW w, OnDsp(v, w), SameBut(v, w, DspFields)
    PROVE  Work(v, w)
<1>1. v \in WorldType /\ v.amp = w.amp
  BY DEF OnDsp
<1> QED BY <1>1, SameWork DEF Work, OnDsp

LEMMA AdmWork ==
    ASSUME NEW v, NEW w, NEW s, OnAdm(v, w, s)
    PROVE  Work(v, w)
<1>1. v \in WorldType /\ v.amp = w.amp /\ SameBut(v, w, DspFields)
  BY SameButSub DEF OnAdm, DspFields
<1>2. v.late = w.late /\ (w.at = 0 => v.at = 0)
  BY DEF OnAdm
<1> QED BY <1>1, <1>2, SameWork DEF Work, Trust, Quiet

LEMMA ParamsWork ==
    ASSUME NEW v, NEW w, Params(v, w), w.ok
    PROVE  Work(v, w)
<1>1. /\ v.card["ports"] = w.card["ports"] /\ v.card["port_map"] = w.card["port_map"]
  BY DEF Params, SameBut, CardFields
<1>2. w.at = 0 => v.at = 0 /\ v.ok
  BY DEF Params, Steady
<1>3. Calm(v, w)
  <2>1. Kept(v, w) /\ Tuned(v.amp) /\ (w.amp.pll # 0 => v.amp.pll # 0)
    BY DEF Params
  <2> QED BY <1>2, <2>1 DEF Calm, Kept
<1> QED BY <1>1, <1>2, <1>3 DEF Work, Params, Trust, Quiet

LEMMA VolswWork ==
    ASSUME NEW w \in WorldType, w.ok
    PROVE  LET v == put_volsw(w)
           IN  Work(v, w) /\ v.card = w.card /\ v.dsp = w.dsp
<1> DEFINE v == put_volsw(w)
<1>1. Gentle(v, w) /\ Agree(v, w, {"tdm", "slots", "pll"})
  BY PutVolsw
<1> HIDE DEF v
<1>2. v \in WorldType /\ SameCard(v, w) /\ Steady(v, w) /\ Kept(v, w)
  BY <1>1 DEF Gentle, OnAmp
<1>3. v.amp.tdm = w.amp.tdm /\ v.amp.slots = w.amp.slots /\ v.amp.pll = w.amp.pll
  BY <1>1 DEF Agree
<1>4. Tuned(w.amp) => Tuned(v.amp) /\ (w.amp.pll # 0 => v.amp.pll # 0)
  BY <1>3, Zenon DEF Tuned
<1>5. w.at = 0 => v.at = 0 /\ v.ok
  BY <1>2 DEF Steady
<1>6. Calm(v, w)
  BY <1>2, <1>4, <1>5, Zenon DEF Calm, Kept
<1>7. Work(v, w)
  BY <1>2, <1>5, <1>6 DEF Work, SameCard, Trust, Quiet
<1> QED BY <1>2, <1>7 DEF v, SameCard

-----------------------------------------------------------------------------
(* A back end that joins a stream                                          *)

LEMMA SetOk ==
    ASSUME NEW w \in WorldType, NEW good \in BOOLEAN
    PROVE  LET v == [w EXCEPT !.ok = good]
           IN  OnDsp(v, w) /\ v.card = w.card /\ v.dsp = w.dsp /\ v.ok = good
BY DEF WorldType, OnDsp, Trust, Quiet

\* A back end that is not ready is left alone by prepare.
LEMMA DaiPrepareFailed ==
    ASSUME NEW w, NEW p, ~w.ok
    PROVE  dai_prepare(w, p) = w
<1>1. \A q, o, d : afe_apr_send_pkt(w, q, o, d) = w
  BY DEF afe_apr_send_pkt
<1>2. port_stop(w, p) = w /\ port_start(w, p) = w
  BY <1>1 DEF port_stop, port_start, set_param_v2
<1>3. q6afe_tdm_port_prepare(w, p) = w
  BY DEF q6afe_tdm_port_prepare
<1>4. dai_prepare(w, p) =
        LET b == port_start(q6afe_tdm_port_prepare(w, p), p)
        IN  IF b.ok THEN [b EXCEPT !.card.started = @ \union {p}] ELSE b
  BY <1>2 DEF dai_prepare
<1> QED BY <1>2, <1>3, <1>4

LEMMA BeUnwind ==
    ASSUME NEW w \in WorldType, NEW p \in Ports
    PROVE  LET v == be_unwind(w, p)
           IN  /\ OnDsp(v, w) /\ SameBut(v, w, {"clk_count", "started"}) /\ v.ok = w.ok
               /\ \A E \in SUBSET Ports :
                      p \in E /\ Covered(w, E) => Covered(v, IF v.ok THEN E ELSE E \ {p})
<1> DEFINE v == be_unwind(w, p)
           a == [w EXCEPT !.ok = TRUE]
           b == be_shutdown(a, p)
           c == [b EXCEPT !.ok = FALSE]
<1>1. CASE w.ok
  <2>1. v = w
    BY <1>1 DEF be_unwind
  <2> HIDE DEF v
  <2> QED BY <1>1, <2>1 DEF v, OnDsp, SameBut
<1>2. CASE ~w.ok
  <2>1. v = c
    BY <1>2 DEF be_unwind
  <2>2. w.ok = FALSE
    BY <1>2 DEF WorldType
  <2>3. OnDsp(a, w) /\ a.card = w.card /\ a.dsp = w.dsp
    BY SetOk
  <2>4. a \in WorldType
    BY <2>3 DEF OnDsp
  <2> HIDE DEF a
  <2>5. /\ OnDsp(b, a) /\ SameBut(b, a, {"clk_count", "started"})
        /\ \A E \in SUBSET Ports : p \in E /\ Covered(a, E) => Covered(b, E \ {p})
    BY <2>4, BeShutdown
  <2>6. b \in WorldType
    BY <2>5 DEF OnDsp
  <2> HIDE DEF b
  <2>7. OnDsp(c, b) /\ c.card = b.card /\ c.dsp = b.dsp /\ c.ok = FALSE
    BY <2>6, SetOk
  <2> HIDE DEF c, v
  <2>8. OnDsp(v, w)
    BY <2>1, <2>3, <2>5, <2>7, OnDspTrans
  <2>9. SameBut(v, w, {"clk_count", "started"})
    BY <2>1, <2>3, <2>5, <2>7 DEF SameBut
  <2>10. \A E \in SUBSET Ports : p \in E /\ Covered(w, E) => Covered(v, E \ {p})
    <3>1. ASSUME NEW E \in SUBSET Ports, p \in E, Covered(w, E)
          PROVE  Covered(v, E \ {p})
      <4>1. Covered(a, E)
        BY <2>3, <3>1 DEF Covered
      <4>2. Covered(b, E \ {p})
        BY <2>5, <3>1, <4>1
      <4> QED BY <2>1, <2>7, <4>2 DEF Covered
    <3> QED BY <3>1
  <2> QED BY <2>1, <2>2, <2>7, <2>8, <2>9, <2>10 DEF v
<1> QED BY <1>1, <1>2

\* What a back end that joins leaves of the drivers.
JoinFields == {"port_cfg", "clk_count", "started", "slots", "tdm", "port_data"}
Joined(v, w) == /\ Work(v, w) /\ SameBut(v, w, JoinFields) /\ v.dsp.adm = w.dsp.adm
                /\ v.ok => w.ok

LEMMA JoinedTrans ==
    ASSUME NEW u, NEW v, NEW w, Joined(v, u), Joined(u, w)
    PROVE  Joined(v, w)
BY WorkTrans DEF Joined, SameBut

LEMMA DspJoined ==
    ASSUME NEW v, NEW w, OnDsp(v, w), SameBut(v, w, {"port_cfg", "clk_count", "started"}),
           v.ok => w.ok
    PROVE  Joined(v, w)
<1>1. SameBut(v, w, DspFields) /\ SameBut(v, w, JoinFields)
  BY DEF SameBut, DspFields, JoinFields
<1> QED BY <1>1, DspWork DEF Joined, OnDsp

\* What is set up for a port in w.
Fitted(w, p) == p \in w.card.slots /\ p \in w.card.tdm /\ (p = Speaker => w.amp.pll # 0)

LEMMA FittedKept ==
    ASSUME NEW v, NEW w, NEW p, OnDsp(v, w), SameBut(v, w, {"port_cfg", "clk_count", "started"}),
           Fitted(w, p)
    PROVE  Fitted(v, p)
<1>1. v.card["slots"] = w.card["slots"] /\ v.card["tdm"] = w.card["tdm"] /\ v.amp = w.amp
  BY DEF SameBut, CardFields, OnDsp
<1> QED BY <1>1 DEF Fitted

\* A back end in use that is set up, and prepared, as far as a stream has come.
LEMMA BeCatchUp ==
    ASSUME NEW w \in WorldType, NEW p \in Ports, w.ok, Tuned(w.amp),
           NEW stage \in {"open", "params", "prepared"}
    PROVE  LET v == be_catch_up(w, p, stage)
           IN  /\ Joined(v, w)
               /\ v.ok /\ stage # "open" => Fitted(v, p)
               /\ \A E \in SUBSET Ports : p \in E /\ Covered(w, E) => Covered(v, E)
<1> DEFINE v == be_catch_up(w, p, stage)
           b == be_hw_params(w, p)
           c == dai_prepare(b, p)
<1>1. /\ stage = "open" => v = w
      /\ stage # "open" => v = IF stage = "params" THEN b ELSE c
  BY DEF be_catch_up
<1>2. OnDsp(w, w) /\ SameBut(w, w, {"port_cfg", "clk_count", "started"})
  BY DEF OnDsp, SameBut
<1>3. CASE stage = "open"
  <2>1. Joined(w, w)
    BY <1>2, DspJoined
  <2> HIDE DEF v
  <2> QED BY <1>1, <1>3, <2>1 DEF v
<1>4. CASE stage # "open"
  <2> HIDE DEF v
  <2>1. Params(b, w) /\ (b.ok => Fitted(b, p))
    BY BeHwParams DEF Fitted
  <2> HIDE DEF b
  <2>2. b \in WorldType /\ b.dsp = w.dsp
    BY <2>1 DEF Params
  <2>3. SameBut(b, w, JoinFields) /\ SameBut(b, w, CardFields \ {"clk_count", "started", "port_cfg"})
    BY <2>1 DEF Params, SameBut, CardFields, JoinFields
  <2>4. Joined(b, w)
    BY <2>1, <2>2, <2>3, ParamsWork DEF Joined
  <2>5. \A E \in SUBSET Ports : Covered(w, E) => Covered(b, E)
    BY <2>2, <2>3, CoveredFrame
  <2>6. /\ OnDsp(c, b) /\ SameBut(c, b, {"started", "port_cfg"}) /\ (c.ok => b.ok)
        /\ \A E \in SUBSET Ports : p \in E /\ Fitted(b, p) /\ Covered(b, E) => Covered(c, E)
    BY <2>2, DaiPrepare DEF Fitted
  <2>7. ~b.ok => c = b
    BY DaiPrepareFailed
  <2> HIDE DEF c
  <2>8. SameBut(c, b, {"port_cfg", "clk_count", "started"})
    BY <2>6 DEF SameBut
  <2>9. Joined(c, w)
    BY <2>4, <2>6, <2>8, DspJoined, JoinedTrans
  <2>10. c.ok => Fitted(c, p)
    BY <2>1, <2>6, <2>8, FittedKept
  <2>11. \A E \in SUBSET Ports : p \in E /\ Covered(w, E) => Covered(c, E)
    BY <2>1, <2>5, <2>6, <2>7
  <2>12. v = b \/ v = c
    BY <1>1, <1>4
  <2> QED BY <2>1, <2>4, <2>5, <2>9, <2>10, <2>11, <2>12 DEF v
<1> QED BY <1>3, <1>4

\* One that no stream has used yet.
LEMMA BeJoin ==
    ASSUME NEW w \in WorldType, NEW p \in Ports, w.ok, Tuned(w.amp),
           NEW stage \in {"open", "params", "prepared"}
    PROVE  LET v == be_join(w, p, stage)
           IN  /\ Joined(v, w)
               /\ v.ok /\ stage # "open" => Fitted(v, p)
               /\ \A E \in SUBSET Ports :
                      p \notin E /\ Trust(w) /\ Covered(w, E) =>
                          Covered(v, IF v.ok THEN E \union {p} ELSE E)
<1> DEFINE v == be_join(w, p, stage)
           a == startup(w, p)
           d == be_catch_up(a, p, stage)
           e == be_unwind(d, p)
<1>1. v = IF a.ok THEN e ELSE a
  BY DEF be_join
<1>2. /\ OnDsp(a, w) /\ SameBut(a, w, {"clk_count"}) /\ (a.ok => w.ok)
      /\ \A E \in SUBSET Ports :
             p \notin E /\ Trust(w) /\ Covered(w, E) =>
                 Covered(a, IF a.ok THEN E \union {p} ELSE E)
  BY Startup
<1> HIDE DEF a, v
<1>3. a \in WorldType /\ Tuned(a.amp)
  BY <1>2 DEF OnDsp
<1>4. SameBut(a, w, {"port_cfg", "clk_count", "started"})
  BY <1>2 DEF SameBut
<1>5. Joined(a, w)
  BY <1>2, <1>4, DspJoined
<1>6. CASE ~a.ok
  <2>1. v = a
    BY <1>1, <1>6
  <2> QED BY <1>2, <1>5, <1>6, <2>1 DEF v
<1>7. CASE a.ok
  <2>1. v = e
    BY <1>1, <1>7
  <2>2. /\ Joined(d, a) /\ (d.ok /\ stage # "open" => Fitted(d, p))
        /\ \A E \in SUBSET Ports : p \in E /\ Covered(a, E) => Covered(d, E)
    BY <1>3, <1>7, BeCatchUp
  <2> HIDE DEF d
  <2>3. d \in WorldType
    BY <2>2 DEF Joined, Work
  <2>4. /\ OnDsp(e, d) /\ SameBut(e, d, {"clk_count", "started"}) /\ e.ok = d.ok
        /\ \A E \in SUBSET Ports :
               p \in E /\ Covered(d, E) => Covered(e, IF e.ok THEN E ELSE E \ {p})
    BY <2>3, BeUnwind
  <2> HIDE DEF e
  <2>5. SameBut(e, d, {"port_cfg", "clk_count", "started"})
    BY <2>4 DEF SameBut
  <2>6. Joined(e, w)
    BY <1>5, <2>2, <2>4, <2>5, DspJoined, JoinedTrans
  <2>7. e.ok /\ stage # "open" => Fitted(e, p)
    BY <2>2, <2>4, <2>5, FittedKept
  <2>8. ASSUME NEW E \in SUBSET Ports, p \notin E, Trust(w), Covered(w, E)
        PROVE  Covered(e, IF e.ok THEN E \union {p} ELSE E)
    <3> DEFINE F == E \union {p}
    <3>1. F \in SUBSET Ports /\ p \in F /\ F \ {p} = E
      BY <2>8
    <3>2. Covered(a, F)
      BY <1>2, <1>7, <2>8
    <3> HIDE DEF F
    <3>3. Covered(d, F)
      BY <2>2, <3>1, <3>2
    <3> QED BY <2>4, <3>1, <3>3 DEF F
  <2> QED BY <2>1, <2>6, <2>7, <2>8 DEF v
<1> QED BY <1>6, <1>7

\* One that another stream uses; what that has prepared is set up.
LEMMA BeShare ==
    ASSUME NEW w \in WorldType, NEW p \in Ports, w.ok, Tuned(w.amp),
           p \in prepared => Fitted(w, p),
           NEW stage \in {"open", "params", "prepared"}, NEW again \in BOOLEAN
    PROVE  LET v == be_share(w, p, stage, again)
           IN  /\ Joined(v, w)
               /\ v.ok /\ stage # "open" => Fitted(v, p)
               /\ \A E \in SUBSET Ports : p \in E /\ Covered(w, E) => Covered(v, E)
<1> DEFINE v == be_share(w, p, stage, again)
           c == dai_prepare(w, p)
<1>1. CASE p \notin prepared
  <2>1. v = be_catch_up(w, p, stage)
    BY <1>1 DEF be_share
  <2> HIDE DEF v
  <2> QED BY <2>1, BeCatchUp DEF v
<1>2. CASE p \in prepared
  <2>1. v = w \/ v = c
    BY <1>2 DEF be_share
  <2> HIDE DEF v
  <2>2. Fitted(w, p)
    BY <1>2
  <2>3. /\ OnDsp(c, w) /\ SameBut(c, w, {"started", "port_cfg"}) /\ (c.ok => w.ok)
        /\ \A E \in SUBSET Ports : p \in E /\ Covered(w, E) => Covered(c, E)
    BY <2>2, DaiPrepare DEF Fitted
  <2> HIDE DEF c
  <2>4. SameBut(c, w, {"port_cfg", "clk_count", "started"})
    BY <2>3 DEF SameBut
  <2>5. OnDsp(w, w) /\ SameBut(w, w, {"port_cfg", "clk_count", "started"})
    BY DEF OnDsp, SameBut
  <2>6. Joined(c, w) /\ Joined(w, w)
    BY <2>3, <2>4, <2>5, DspJoined
  <2>7. Fitted(c, p)
    BY <2>2, <2>3, <2>4, FittedKept
  <2> QED BY <2>1, <2>2, <2>3, <2>6, <2>7 DEF v
<1> QED BY <1>1, <1>2

-----------------------------------------------------------------------------
(* The inductive invariant                                                 *)

Steps == {"idle", "check", "open"} \union DOMAIN next_step
Rest  == {"idle", "check", "open"}
Downs == {"idle", "pre_pmd", "disable", "post_pmd", "clk_off", "off"}

FeType  == [stage : Stages, route : SUBSET Ports, be : SUBSET Ports, on : BOOLEAN]
PutType == [s : Streams, p : Ports, on : BOOLEAN]

\* Type correctness.
TypeOK ==
    /\ card \in CardType /\ dsp \in DspType /\ amp \in AmpType /\ late \in SUBSET Answers
    /\ fe \in [Streams -> FeType] /\ prepared \in SUBSET Ports
    /\ put \in {None} \union PutType
    /\ pc \in Steps /\ stream \in Streams \union {"none"}
    /\ dapm \in BOOLEAN /\ clean \in BOOLEAN /\ faults \in Nat

\* Without a card nothing is open, and a closed stream has no back ends; a stream in
\* prepare() stays where it is, and there is none while the amplifier powers down.
Shape ==
    /\ ~bound => /\ pc = "idle" /\ put = None /\ ~dapm
                 /\ \A s \in Streams : fe[s].stage = "closed"
    /\ \A s \in Streams : fe[s].stage = "closed" => fe[s].be = {}
    /\ pc \in Downs => stream = "none"
    /\ pc \in {"check", "open"} \/ stream # "none" =>
           stream \in Streams /\ fe[stream].stage = "params"

\* Before the first failure no answer is late.
Punctual == faults = 0 => late = {}

\* The back ends of a stream with parameters have their slots and widths, and so do
\* those that are prepared.
WithParams == {"params", "prepared"}
Slotted == /\ \A s \in Streams : fe[s].stage \in WithParams =>
                  fe[s].be \subseteq card.slots /\ fe[s].be \subseteq card.tdm
           /\ prepared \subseteq card.slots /\ prepared \subseteq card.tdm

\* The amplifier's divisor is set when a stream with parameters plays on it, or its
\* port is prepared, and from then on.
Divided ==
    /\ Tuned(amp)
    /\ \A s \in Streams : fe[s].stage \in WithParams /\ Speaker \in fe[s].be => amp.pll # 0
    /\ Speaker \in prepared => amp.pll # 0
    /\ dapm \/ pc \notin Rest => amp.pll # 0

\* What step c of a power-up finds of amplifier a, when no transfer failed so far.
Powered(c, up, good, a) ==
    good => /\ c \in {"clk", "pre_pmu", "enable", "post_pmu"} \/ (c \in Rest /\ up) => a.chip_on
            /\ c \in {"pre_pmu", "enable", "post_pmu"} \/ (c \in Rest /\ up) => a.clk
            /\ c \in {"enable", "post_pmu"} \/ (c \in Rest /\ up) => a.bias /\ a.prot
            /\ c = "enable" => a.chipen = {"TRI"}
            /\ c = "post_pmu" \/ (c \in Rest /\ up) => a.chipen = {"TRI", "AMP"}

\* Where the mode is at step c when nothing failed: in the register, or saved.
Moded(c, up, a) ==
    /\ c \notin {"enable", "post_pmu", "disable", "post_pmd"} =>
           (IF a.chip_on THEN a.bst ELSE a.mode_store) \in BB
    /\ c \in {"enable", "post_pmu", "disable", "post_pmd"} => a.mode_store \in BB
    /\ c \notin Rest \union {"standby", "off"} \/ (c \in Rest /\ up) => a.chip_on

InStep ==
    /\ Powered(pc, dapm, clean, amp)
    /\ faults = 0 /\ bound => Moded(pc, dapm, amp)

\* The drivers and the DSP as the operations find them.
Now == [card |-> card, dsp |-> dsp]
\* The ports in use.
Used(f) == UNION {f[s].be : s \in Streams}
\* Those that other streams than s use.
Others(s) == UNION {fe[t].be : t \in Streams \ {s}}

Clocked == faults <= 1 => Covered(Now, Used(fe))
Counts  == /\ Balanced(Now)
           /\ \A s \in Streams : fe[s].stage = "closed" => card.copps[s] = {}

IndInv == TypeOK /\ Shape /\ Punctual /\ Slotted /\ Divided /\ InStep /\ Clocked /\ Counts

-----------------------------------------------------------------------------
(* An operation in a state                                                 *)

\* The worlds that an operation may meet.
LEMMA WorldsMet ==
    ASSUME TypeOK, NEW x \in Worlds, Count(x)
    PROVE  /\ x \in WorldType /\ x.card = card /\ x.dsp = dsp /\ x.amp = amp /\ x.late = late
           /\ x.ok /\ faults' \in Nat
           /\ faults' = 0 => faults = 0 /\ x.at = 0
           /\ faults' <= 1 => faults <= 1 /\ (x.at = 0 \/ faults = 0)
<1>1. World \in WorldType
  BY DEF World, WorldType, TypeOK, Hows
<1>2. /\ x \in WorldType /\ x.card = card /\ x.dsp = dsp /\ x.amp = amp /\ x.late = late
      /\ x.ok = TRUE
  <2>1. CASE x = World
    <3>1. /\ World.card = card /\ World.dsp = dsp /\ World.amp = amp /\ World.late = late
          /\ World.ok = TRUE
      BY DEF World
    <3> QED BY <1>1, <2>1, <3>1
  <2>2. CASE x # World
    <3>1. PICK n \in 1..MaxCommands, h \in Hows : x = Failing(n, h)
      BY <2>2 DEF Worlds
    <3>2. n \in Nat
      BY Q6AudioAssumption
    <3>3. x \in WorldType
      BY <1>1, <3>1, <3>2 DEF WorldType, Failing
    <3>4. /\ x.card = World.card /\ x.dsp = World.dsp /\ x.amp = World.amp
          /\ x.late = World.late /\ x.ok = World.ok
      BY <1>1, <3>1 DEF WorldType, Failing
    <3> QED BY <3>3, <3>4 DEF World
  <2> QED BY <2>1, <2>2
<1>3. x.at \in Nat /\ faults \in Nat
  BY <1>2 DEF WorldType, TypeOK
<1>4. faults' = IF x.at = 0 THEN faults ELSE faults + 1
  BY DEF Count
<1> QED BY <1>2, <1>3, <1>4

LEMMA WorldsTrust ==
    ASSUME TypeOK, Punctual, NEW x \in Worlds, Count(x)
    PROVE  (faults' <= 1 => Trust(x)) /\ (faults' = 0 => Quiet(x))
<1>1. /\ x.late = late
      /\ faults' = 0 => faults = 0 /\ x.at = 0
      /\ faults' <= 1 => faults <= 1 /\ (x.at = 0 \/ faults = 0)
  BY WorldsMet
<1> QED BY <1>1 DEF Punctual, Trust, Quiet

\* What an operation keeps is well-typed.
LEMMA KeepType ==
    ASSUME NEW w \in WorldType, Keep(w)
    PROVE  /\ card' \in CardType /\ dsp' \in DspType /\ amp' \in AmpType
           /\ late' \in SUBSET Answers
           /\ card' = w.card /\ dsp' = w.dsp /\ amp' = w.amp /\ late' = w.late
BY DEF Keep, WorldType

\* The amplifier is as calm work leaves it.
LEMMA CalmPowered ==
    ASSUME NEW v, NEW w, Calm(v, w), NEW c, NEW up, NEW good, Powered(c, up, good, w.amp)
    PROVE  Powered(c, up, good, v.amp)
<1>1. /\ v.amp.chip_on = w.amp.chip_on /\ v.amp.clk = w.amp.clk /\ v.amp.prot = w.amp.prot
      /\ v.amp.bias = w.amp.bias
      /\ w.amp.chip_on => v.amp.chipen = w.amp.chipen
  BY DEF Calm, Agree
<1> QED BY <1>1 DEF Powered

LEMMA CalmModed ==
    ASSUME NEW v, NEW w, Calm(v, w), w.at = 0, NEW c, NEW up, Moded(c, up, w.amp)
    PROVE  Moded(c, up, v.amp)
<1>1. /\ v.amp.chip_on = w.amp.chip_on /\ v.amp.mode_store = w.amp.mode_store
      /\ w.amp.chip_on => v.amp.bst = w.amp.bst
  BY DEF Calm, Agree
<1>2. (IF v.amp.chip_on THEN v.amp.bst ELSE v.amp.mode_store) =
      (IF w.amp.chip_on THEN w.amp.bst ELSE w.amp.mode_store)
  BY <1>1
<1> QED BY <1>1, <1>2 DEF Moded

\* From rest the sequence may begin.
LEMMA RestPowered ==
    ASSUME NEW c \in Rest, NEW d \in Rest \union {"standby"}, NEW up, NEW good, NEW a,
           d \in Rest \/ ~up
    PROVE  /\ Powered(c, up, good, a) => Powered(d, up, good, a)
           /\ Moded(c, up, a) => Moded(d, up, a)
<1>1. Powered(c, up, good, a) => Powered(d, up, good, a)
  BY DEF Powered, Rest
<1>2. Moded(c, up, a) => Moded(d, up, a)
  <2>1. /\ c \notin {"enable", "post_pmu", "disable", "post_pmd"}
        /\ d \notin {"enable", "post_pmu", "disable", "post_pmd"}
    BY DEF Rest
  <2>2. d \in Rest \/ d = "standby"
    OBVIOUS
  <2> QED BY <2>1, <2>2 DEF Moded
<1> QED BY <1>1, <1>2

\* What work on the card leaves of the state.
LEMMA WorkStep ==
    ASSUME TypeOK, Punctual, NEW x \in Worlds, Count(x), NEW w, Work(w, x), Keep(w)
    PROVE  /\ card' \in CardType /\ dsp' \in DspType /\ amp' \in AmpType
           /\ late' \in SUBSET Answers /\ faults' \in Nat
           /\ Punctual'
           /\ card' = w.card /\ dsp' = w.dsp /\ amp' = w.amp
           /\ card'.ports = card.ports /\ card'.port_map = card.port_map /\ (bound' <=> bound)
           /\ card.slots \subseteq card'.slots /\ card.tdm \subseteq card'.tdm
           /\ Tuned(amp) => Tuned(amp') /\ (amp.pll # 0 => amp'.pll # 0)
<1>1. /\ x \in WorldType /\ x.card = card /\ x.dsp = dsp /\ x.amp = amp /\ x.late = late
      /\ faults' \in Nat /\ (faults' = 0 => Quiet(x))
  BY WorldsMet, WorldsTrust
<1>2. w \in WorldType
  BY DEF Work
<1>3. /\ card' \in CardType /\ dsp' \in DspType /\ amp' \in AmpType
      /\ late' \in SUBSET Answers
      /\ card' = w.card /\ dsp' = w.dsp /\ amp' = w.amp /\ late' = w.late
  BY <1>2, KeepType
<1>4. Punctual'
  BY <1>1, <1>3 DEF Punctual, Work, Quiet
<1>5. /\ card'.ports = card.ports /\ card'.port_map = card.port_map
      /\ card.slots \subseteq card'.slots /\ card.tdm \subseteq card'.tdm
  BY <1>1, <1>3 DEF Work
<1>6. Tuned(amp) => Tuned(amp') /\ (amp.pll # 0 => amp'.pll # 0)
  BY <1>1, <1>3 DEF Work, Calm
<1>7. bound' <=> bound
  BY <1>5 DEF bound
<1> QED BY <1>1, <1>3, <1>4, <1>5, <1>6, <1>7

\* The power sequence is where it was, or at rest, or begins.
LEMMA WorkInStep ==
    ASSUME TypeOK, Punctual, InStep, NEW x \in Worlds, Count(x), NEW w, Work(w, x), Keep(w),
           dapm' = dapm, clean' = clean,
           \/ pc' = pc
           \/ pc \in Rest /\ pc' \in Rest
           \/ pc \in Rest /\ pc' = "standby" /\ ~dapm
    PROVE  InStep'
<1>1. x.amp = amp /\ (faults' = 0 => faults = 0 /\ x.at = 0)
  BY WorldsMet
<1>2. amp' = w.amp /\ (bound' <=> bound)
  BY WorkStep
<1>3. Calm(w, x)
  BY DEF Work
<1>4. /\ Powered(pc, dapm, clean, amp) => Powered(pc', dapm, clean, amp)
      /\ Moded(pc, dapm, amp) => Moded(pc', dapm, amp)
  <2>1. CASE pc' = pc
    BY <2>1
  <2>2. CASE pc' # pc
    <3>1. pc \in Rest /\ pc' \in Rest \union {"standby"} /\ (pc' \in Rest \/ ~dapm)
      BY <2>2
    <3> QED BY <3>1, RestPowered
  <2> QED BY <2>1, <2>2
<1>5. Powered(pc', dapm, clean, amp')
  BY <1>1, <1>2, <1>3, <1>4, CalmPowered DEF InStep
<1>6. faults' = 0 /\ bound' => Moded(pc', dapm, amp')
  BY <1>1, <1>2, <1>3, <1>4, CalmModed DEF InStep
<1> QED BY <1>5, <1>6 DEF InStep

\* The divisor stays set for who needs it.
LEMMA WorkDivided ==
    ASSUME TypeOK, Punctual, Divided, NEW x \in Worlds, Count(x), NEW w, Work(w, x), Keep(w),
           dapm' = dapm,
           pc' \in Rest \/ pc \notin Rest \/ amp'.pll # 0,
           \A s \in Streams : fe'[s].stage \in WithParams /\ Speaker \in fe'[s].be =>
               \/ fe[s].stage \in WithParams /\ Speaker \in fe[s].be
               \/ amp'.pll # 0,
           Speaker \in prepared' => Speaker \in prepared \/ amp'.pll # 0
    PROVE  Divided'
<1>1. Tuned(amp') /\ (amp.pll # 0 => amp'.pll # 0)
  BY WorkStep DEF Divided
<1> QED BY <1>1 DEF Divided

-----------------------------------------------------------------------------
(* The ports in use                                                        *)

LEMMA UsedPorts ==
    ASSUME NEW f \in [Streams -> FeType]
    PROVE  Used(f) \in SUBSET Ports
BY DEF Used, FeType

\* A stream's back ends come and go, those of the others stay; the ones it does not
\* share are its own.
LEMMA UsedSplit ==
    ASSUME fe \in [Streams -> FeType], fe' \in [Streams -> FeType], NEW s \in Streams,
           \A t \in Streams \ {s} : fe'[t].be = fe[t].be
    PROVE  /\ Others(s) \in SUBSET Ports
           /\ Used(fe) = Others(s) \union fe[s].be /\ Used(fe') = Others(s) \union fe'[s].be
           /\ sole(s) = fe[s].be \ Others(s)
           /\ \A p \in Ports : users(p) = {} <=> p \notin Used(fe)
<1>1. Others(s) \in SUBSET Ports
  BY DEF Others, FeType
<1>2. Used(fe) = Others(s) \union fe[s].be
  BY DEF Used, Others
<1>3. Used(fe') = Others(s) \union fe'[s].be
  <2>1. Others(s) = UNION {fe'[t].be : t \in Streams \ {s}}
    BY DEF Others
  <2> QED BY <2>1 DEF Used
<1>4. sole(s) = fe[s].be \ Others(s)
  <2>1. ASSUME NEW p \in fe[s].be
        PROVE  users(p) = {s} <=> p \notin Others(s)
    BY <2>1 DEF users, Others
  <2> QED BY <2>1 DEF sole
<1>5. \A p \in Ports : users(p) = {} <=> p \notin Used(fe)
  BY DEF users, Used
<1> QED BY <1>1, <1>2, <1>3, <1>4, <1>5

\* A stream s that comes to stage c with the back ends B.
FeSet(g, f, s, c, B) ==
    /\ g \in [Streams -> FeType] /\ g[s].stage = c /\ g[s].be = B /\ g[s].route = f[s].route
    /\ \A t \in Streams \ {s} : g[t] = f[t]

LEMMA FeChange ==
    ASSUME NEW f \in [Streams -> FeType], NEW s \in Streams, NEW c \in Stages,
           NEW B \in SUBSET Ports, NEW g, g = [f EXCEPT ![s].stage = c, ![s].be = B]
    PROVE  FeSet(g, f, s, c, B)
BY DEF FeType, FeSet

\* And that asks for the amplifier's power, or no longer does.
LEMMA FeTurn ==
    ASSUME NEW f \in [Streams -> FeType], NEW s \in Streams, NEW c \in Stages,
           NEW B \in SUBSET Ports, NEW good \in BOOLEAN,
           NEW g, g = [f EXCEPT ![s].stage = c, ![s].be = B, ![s].on = good]
    PROVE  FeSet(g, f, s, c, B)
BY DEF FeType, FeSet

LEMMA FeStage ==
    ASSUME NEW f \in [Streams -> FeType], NEW s \in Streams, NEW c \in Stages,
           NEW g, g = [f EXCEPT ![s].stage = c]
    PROVE  FeSet(g, f, s, c, f[s].be)
BY DEF FeType, FeSet

\* The bit clocks of the ports in use, as an operation finds and leaves them.
LEMMA ClocksMet ==
    ASSUME TypeOK, Punctual, Clocked, NEW x \in Worlds, Count(x), faults' <= 1
    PROVE  Trust(x) /\ Covered(x, Used(fe))
<1>1. x.card = card /\ x.dsp = dsp /\ faults <= 1 /\ Trust(x)
  BY WorldsMet, WorldsTrust
<1>2. Covered(Now, Used(fe))
  BY <1>1 DEF Clocked
<1>3. Now.card = card /\ Now.dsp = dsp
  BY DEF Now
<1> QED BY <1>1, <1>2, <1>3 DEF Covered

LEMMA ClocksLeft ==
    ASSUME NEW w, card' = w.card, dsp' = w.dsp, faults' <= 1 => Covered(w, Used(fe'))
    PROVE  Clocked'
<1>1. Now'.card = w.card /\ Now'.dsp = w.dsp
  BY DEF Now
<1>2. faults' <= 1 => Covered(Now', Used(fe'))
  BY <1>1 DEF Covered
<1> QED BY <1>2 DEF Clocked

\* And the COPPs.
LEMMA CoppsMet ==
    ASSUME TypeOK, Counts, NEW x \in Worlds, Count(x)
    PROVE  Balanced(x)
<1>1. x.card = card /\ x.dsp = dsp
  BY WorldsMet
<1>2. Now.card = card /\ Now.dsp = dsp
  BY DEF Now
<1> QED BY <1>1, <1>2 DEF Counts, Balanced, Users

LEMMA CoppsLeft ==
    ASSUME NEW w, card' = w.card, dsp' = w.dsp, Balanced(w),
           \A s \in Streams : fe'[s].stage = "closed" => w.card.copps[s] = {}
    PROVE  Counts'
<1>1. Now'.card = w.card /\ Now'.dsp = w.dsp
  BY DEF Now
<1>2. Balanced(Now')
  BY <1>1 DEF Balanced, Users
<1> QED BY <1>2 DEF Counts

\* The COPPs depend on these alone.
LEMMA BalancedFrame ==
    ASSUME NEW v, NEW w, v.card["copps"] = w.card["copps"], v.dsp.adm = w.dsp.adm, Balanced(w)
    PROVE  Balanced(v)
BY DEF Balanced, Users

-----------------------------------------------------------------------------
(* Every action keeps the inductive invariant                              *)

\* An operation whose work, streams and ports in use are known.
LEMMA Finish ==
    ASSUME IndInv, NEW x \in Worlds, Count(x), NEW w, Work(w, x), Keep(w),
           fe' \in [Streams -> FeType], put' \in {None} \union PutType, pc' \in Steps,
           stream' \in Streams \union {"none"}, dapm' = dapm, clean' = clean,
           prepared' \in SUBSET Ports, \A p \in prepared' : p \in prepared \/ Fitted(w, p),
           \/ pc' = pc
           \/ pc \in Rest /\ pc' \in Rest
           \/ pc \in Rest /\ pc' = "standby" /\ ~dapm /\ w.amp.pll # 0,
           Shape',
           \A s \in Streams : fe'[s].stage \in WithParams =>
               /\ fe'[s].be \subseteq w.card.slots /\ fe'[s].be \subseteq w.card.tdm
               /\ Speaker \in fe'[s].be =>
                      \/ fe[s].stage \in WithParams /\ Speaker \in fe[s].be
                      \/ w.amp.pll # 0,
           faults' <= 1 => Covered(w, Used(fe')),
           Balanced(w), \A s \in Streams : fe'[s].stage = "closed" => w.card.copps[s] = {}
    PROVE  IndInv'
<1> USE DEF IndInv
<1>1. /\ card' \in CardType /\ dsp' \in DspType /\ amp' \in AmpType
      /\ late' \in SUBSET Answers /\ faults' \in Nat
      /\ Punctual'
      /\ card' = w.card /\ dsp' = w.dsp /\ amp' = w.amp
  BY WorkStep
<1>2. TypeOK'
  BY <1>1 DEF TypeOK
<1>3. Slotted'
  <2>1. card.slots \subseteq card'.slots /\ card.tdm \subseteq card'.tdm
    BY WorkStep
  <2>2. prepared' \subseteq card'.slots /\ prepared' \subseteq card'.tdm
    BY <1>1, <2>1 DEF Slotted, Fitted
  <2> QED BY <1>1, <2>2 DEF Slotted
<1>4. Divided'
  <2>1. pc' \in Rest \/ pc \notin Rest \/ amp'.pll # 0
    BY <1>1
  <2>2. \A s \in Streams : fe'[s].stage \in WithParams /\ Speaker \in fe'[s].be =>
            (fe[s].stage \in WithParams /\ Speaker \in fe[s].be) \/ amp'.pll # 0
    BY <1>1
  <2>3. Speaker \in prepared' => Speaker \in prepared \/ amp'.pll # 0
    BY <1>1 DEF Fitted
  <2> QED BY <2>1, <2>2, <2>3, WorkDivided
<1>5. InStep'
  BY WorkInStep
<1>6. Clocked'
  BY <1>1, ClocksLeft
<1>7. Counts'
  BY <1>1, CoppsLeft
<1> QED BY <1>1, <1>2, <1>3, <1>4, <1>5, <1>6, <1>7

LEMMA OpenStep ==
    ASSUME IndInv, NEW s \in Streams, open(s)
    PROVE  IndInv'
<1> USE DEF IndInv
<1> DEFINE R == fe[s].route
           S == {p \in R : users(p) = {}}
<1>1. PICK x \in Worlds :
        /\ Ready(s, {"closed"}) /\ Count(x)
        /\ LET r == Each([w |-> x, done |-> {}], S, be_startup)
               undo == Each([r.w EXCEPT !.ok = TRUE], r.done, be_shutdown)
           IN  IF r.w.ok
               THEN Keep(r.w) /\ fe' = [fe EXCEPT ![s].stage = "open", ![s].be = R]
               ELSE Keep(undo) /\ UNCHANGED fe
        /\ UNCHANGED <<prepared, put, pc, stream, dapm, clean>>
  BY DEF open
<1> DEFINE r == Each([w |-> x, done |-> {}], S, be_startup)
           a == [r.w EXCEPT !.ok = TRUE]
           undo == Each(a, r.done, be_shutdown)
           w == IF r.w.ok THEN r.w ELSE undo
<1>2. /\ x \in WorldType /\ x.card = card /\ x.amp = amp /\ x.ok
  BY <1>1, WorldsMet
<1>3. /\ fe \in [Streams -> FeType] /\ fe[s] \in FeType /\ R \in SUBSET Ports /\ S \in SUBSET Ports
      /\ fe[s].stage = "closed" /\ fe[s].be = {}
      /\ card.ports # {} /\ pc = "idle"
  BY <1>1 DEF TypeOK, FeType, Ready, Shape, bound
<1>4. /\ OnDsp(r.w, x) /\ SameBut(r.w, x, {"clk_count"}) /\ r.done \subseteq S
      /\ r.w.ok => r.done = S
      /\ \A E \in SUBSET Ports :
             E \intersect S = {} /\ Trust(x) /\ Covered(x, E) => Covered(r.w, E \union r.done)
  BY <1>2, <1>3, StartAll
<1>5. /\ Keep(w)
      /\ r.w.ok => fe' = [fe EXCEPT ![s].stage = "open", ![s].be = R]
      /\ ~r.w.ok => fe' = fe
      /\ prepared' = prepared /\ put' = put /\ pc' = pc /\ stream' = stream /\ dapm' = dapm /\ clean' = clean
  BY <1>1
<1>6. /\ OnDsp(w, x) /\ SameBut(w, x, {"clk_count", "started"})
      /\ ~r.w.ok => \A E \in SUBSET Ports :
             E \intersect S = {} /\ Trust(x) /\ Covered(x, E) => Covered(w, E)
  <2> HIDE DEF r
  <2>1. r.w \in WorldType
    BY <1>4 DEF OnDsp
  <2>2. OnDsp(a, r.w) /\ a.card = r.w.card /\ a.dsp = r.w.dsp
    BY <2>1, SetOk
  <2>3. a \in WorldType /\ r.done \in SUBSET Ports
    BY <1>3, <1>4, <2>2 DEF OnDsp
  <2> HIDE DEF a
  <2>4. /\ OnDsp(undo, a) /\ SameBut(undo, a, {"clk_count", "started"})
        /\ \A E \in SUBSET Ports : r.done \subseteq E /\ Covered(a, E) => Covered(undo, E \ r.done)
    BY <2>3, StopAll
  <2> HIDE DEF undo
  <2>5. CASE r.w.ok
    BY <1>4, <2>5 DEF SameBut
  <2>6. CASE ~r.w.ok
    <3>1. OnDsp(undo, x)
      BY <1>4, <2>2, <2>4, OnDspTrans
    <3>2. SameBut(undo, x, {"clk_count", "started"})
      BY <1>4, <2>2, <2>4 DEF SameBut
    <3>3. ASSUME NEW E \in SUBSET Ports, E \intersect S = {}, Trust(x), Covered(x, E)
          PROVE  Covered(undo, E)
      <4> DEFINE F == E \union r.done
      <4>1. F \in SUBSET Ports /\ r.done \subseteq F /\ F \ r.done = E
        BY <1>4, <2>3, <3>3
      <4>2. Covered(r.w, F)
        BY <1>4, <3>3
      <4> HIDE DEF F
      <4>3. Covered(a, F)
        BY <2>2, <4>2 DEF Covered
      <4> QED BY <2>4, <4>1, <4>3
    <3> QED BY <2>6, <3>1, <3>2, <3>3
  <2> QED BY <2>5, <2>6
<1> HIDE DEF r, undo
<1>7. /\ fe' \in [Streams -> FeType] /\ fe'[s].be = (IF r.w.ok THEN R ELSE {})
      /\ fe'[s].stage = (IF r.w.ok THEN "open" ELSE "closed") /\ fe'[s].route = R
      /\ \A t \in Streams \ {s} : fe'[t] = fe[t]
  <2>1. CASE r.w.ok
    <3>1. fe' = [fe EXCEPT ![s].stage = "open", ![s].be = R]
      BY <1>5, <2>1
    <3>2. "open" \in Stages
      BY DEF Stages
    <3> HIDE DEF R
    <3>3. FeSet(fe', fe, s, "open", R)
      BY <1>3, <3>1, <3>2, FeChange
    <3> QED BY <2>1, <3>3 DEF FeSet, R
  <2>2. CASE ~r.w.ok
    BY <1>3, <1>5, <2>2
  <2> QED BY <2>1, <2>2
<1>8. Work(w, x) /\ w.dsp.adm = x.dsp.adm /\ w.card.copps = x.card.copps
  <2>1. SameBut(w, x, DspFields) /\ w.card["copps"] = x.card["copps"]
    BY <1>6 DEF SameBut, DspFields, CardFields
  <2> QED BY <1>6, <2>1, DspWork DEF OnDsp
<1> DEFINE E == Others(s)
<1>9. /\ E \in SUBSET Ports /\ E \intersect S = {} /\ E \union S = E \union R
      /\ Used(fe) = E /\ Used(fe') = E \union fe'[s].be
  <2>1. \A t \in Streams \ {s} : fe'[t].be = fe[t].be
    BY <1>7
  <2>2. /\ E \in SUBSET Ports /\ Used(fe) = E \union fe[s].be /\ Used(fe') = E \union fe'[s].be
        /\ \A p \in Ports : users(p) = {} <=> p \notin Used(fe)
    BY <1>3, <1>7, <2>1, UsedSplit
  <2>3. Used(fe) = E
    BY <1>3, <2>2
  <2>4. \A p \in R : p \in S <=> p \notin E
    BY <1>3, <2>2, <2>3
  <2> QED BY <2>2, <2>3, <2>4
<1> HIDE DEF E
<1>10. faults' <= 1 => Covered(w, Used(fe'))
  <2> SUFFICES ASSUME faults' <= 1
               PROVE  Covered(w, Used(fe'))
    OBVIOUS
  <2>1. Trust(x) /\ Covered(x, E)
    BY <1>1, <1>9, ClocksMet
  <2>2. CASE r.w.ok
    <3>1. Covered(r.w, E \union S)
      BY <1>4, <1>9, <2>1, <2>2
    <3> QED BY <1>7, <1>9, <2>2, <3>1
  <2>3. CASE ~r.w.ok
    <3>1. Used(fe') = E
      BY <1>7, <1>9, <2>3
    <3> QED BY <1>6, <1>9, <2>1, <2>3, <3>1
  <2> QED BY <2>2, <2>3
<1> HIDE DEF w
<1>11. card'.ports = card.ports /\ card' = w.card
  BY <1>1, <1>5, <1>8, WorkStep
<1>12. Shape'
  BY <1>1, <1>3, <1>5, <1>7, <1>11 DEF Shape, Downs, bound
<1>13. \A t \in Streams : fe'[t].stage \in WithParams =>
           /\ fe'[t].be \subseteq w.card.slots /\ fe'[t].be \subseteq w.card.tdm
           /\ Speaker \in fe'[t].be => fe[t].stage \in WithParams /\ Speaker \in fe[t].be
  <2>1. x.card.slots \subseteq w.card.slots /\ x.card.tdm \subseteq w.card.tdm
    BY <1>8 DEF Work
  <2> QED BY <1>2, <1>3, <1>7, <2>1 DEF Slotted, WithParams
<1>14. Balanced(w)
  <2>1. w.card["copps"] = x.card["copps"]
    BY <1>8
  <2> QED BY <1>1, <1>8, <2>1, CoppsMet, BalancedFrame
<1>15. \A t \in Streams : fe'[t].stage = "closed" => w.card.copps[t] = {}
  BY <1>2, <1>3, <1>7, <1>8 DEF Counts
<1>16. prepared' = prepared /\ prepared \in SUBSET Ports
  BY <1>5 DEF TypeOK
<1>17. put' \in {None} \union PutType /\ pc' \in Steps /\ stream' \in Streams \union {"none"}
  BY <1>5 DEF TypeOK
<1> QED BY <1>1, <1>5, <1>7, <1>8, <1>10, <1>12, <1>13, <1>14, <1>15, <1>16, <1>17, Finish


\* The ports in use stay the same.
LEMMA UsedSame ==
    ASSUME NEW f, NEW g, \A t \in Streams : g[t].be = f[t].be
    PROVE  Used(g) = Used(f)
BY DEF Used

LEMMA SetParamsStep ==
    ASSUME IndInv, NEW s \in Streams, set_params(s)
    PROVE  IndInv'
<1> USE DEF IndInv
<1> DEFINE S == fe[s].be \ prepared
<1>1. PICK x \in Worlds :
        /\ Ready(s, {"open", "params"}) /\ Count(x)
        /\ LET w == Each(x, S, be_hw_params)
           IN  Keep(w) /\ fe' = [fe EXCEPT ![s].stage = IF w.ok THEN "params" ELSE "open"]
        /\ UNCHANGED <<prepared, put, pc, stream, dapm, clean>>
  BY DEF set_params
<1> DEFINE w == Each(x, S, be_hw_params)
           c == IF w.ok THEN "params" ELSE "open"
<1>2. x \in WorldType /\ x.card = card /\ x.amp = amp /\ x.ok
  BY <1>1, WorldsMet
<1>3. /\ fe \in [Streams -> FeType] /\ S \in SUBSET Ports /\ card.ports # {} /\ pc = "idle"
      /\ fe[s].stage # "closed" /\ Tuned(x.amp)
  BY <1>1, <1>2 DEF TypeOK, FeType, Ready, bound, Divided
<1>4. Params(w, x) /\ (w.ok => /\ S \subseteq w.card.slots /\ S \subseteq w.card.tdm
                               /\ Speaker \in S => w.amp.pll # 0)
  <2> HIDE DEF S
  <2> QED BY <1>2, <1>3, ParamsAll
<1>5. /\ Keep(w) /\ fe' = [fe EXCEPT ![s].stage = c]
      /\ prepared' = prepared /\ put' = put /\ pc' = pc /\ stream' = stream /\ dapm' = dapm /\ clean' = clean
  BY <1>1
<1> HIDE DEF w
<1>6. c \in Stages
  BY DEF Stages
<1>7. FeSet(fe', fe, s, c, fe[s].be)
  <2> HIDE DEF c
  <2> QED BY <1>3, <1>5, <1>6, FeStage
<1>8. /\ Work(w, x) /\ w.dsp = x.dsp /\ w.card["copps"] = x.card["copps"]
      /\ SameBut(w, x, CardFields \ {"clk_count", "started", "port_cfg"})
  BY <1>2, <1>4, ParamsWork DEF Params, SameBut, CardFields
<1>9. \A t \in Streams : fe'[t].be = fe[t].be
  BY <1>7 DEF FeSet
<1>10. faults' <= 1 => Covered(w, Used(fe'))
  <2>1. Used(fe') = Used(fe)
    BY <1>9, UsedSame
  <2>2. faults' <= 1 => Covered(x, Used(fe))
    BY <1>1, ClocksMet
  <2>3. w.dsp.clk = x.dsp.clk
    BY <1>8
  <2> QED BY <1>8, <2>1, <2>2, <2>3, CoveredFrame
<1>11. card'.ports = card.ports
  BY <1>1, <1>5, <1>8, WorkStep
<1>12. Shape'
  BY <1>3, <1>5, <1>7, <1>11 DEF Shape, Downs, bound, FeSet
<1>13. \A t \in Streams : fe'[t].stage \in WithParams =>
           /\ fe'[t].be \subseteq w.card.slots /\ fe'[t].be \subseteq w.card.tdm
           /\ Speaker \in fe'[t].be =>
                  (fe[t].stage \in WithParams /\ Speaker \in fe[t].be) \/ w.amp.pll # 0
  <2>1. x.card.slots \subseteq w.card.slots /\ x.card.tdm \subseteq w.card.tdm
        /\ (x.amp.pll # 0 => w.amp.pll # 0)
    BY <1>2, <1>3, <1>8 DEF Work, Calm
  <2>2. w.ok => /\ fe[s].be \subseteq w.card.slots /\ fe[s].be \subseteq w.card.tdm
                /\ Speaker \in fe[s].be => w.amp.pll # 0
    BY <1>2, <1>4, <2>1 DEF Slotted, Divided
  <2> QED BY <1>2, <1>7, <2>1, <2>2 DEF Slotted, WithParams, FeSet
<1>14. Balanced(w)
  BY <1>1, <1>8, CoppsMet, BalancedFrame
<1>15. \A t \in Streams : fe'[t].stage = "closed" => w.card.copps[t] = {}
  BY <1>2, <1>3, <1>7, <1>8 DEF Counts, FeSet
<1>16. put' \in {None} \union PutType /\ pc' \in Steps /\ stream' \in Streams \union {"none"}
  BY <1>5 DEF TypeOK
<1>17. fe' \in [Streams -> FeType] /\ prepared' = prepared /\ prepared \in SUBSET Ports
  BY <1>5, <1>7 DEF FeSet, TypeOK
<1> QED BY <1>1, <1>5, <1>8, <1>10, <1>12, <1>13, <1>14, <1>15, <1>16, <1>17, Finish

LEMMA PrepareStep ==
    ASSUME IndInv, NEW s \in Streams, prepare(s)
    PROVE  IndInv'
<1> USE DEF IndInv
<1> DEFINE B == fe[s].be
<1>1. PICK x \in Worlds, again \in SUBSET (B \intersect prepared) :
        /\ Ready(s, {"params", "prepared"}) /\ Count(x)
        /\ LET r == Each([w |-> x, done |-> {}], (B \ prepared) \union again, be_prepare)
               powers == /\ Speaker \in B \intersect r.w.card.started
                         /\ r.w.ok \/ Speaker \in r.done
           IN  /\ Keep(r.w)
               /\ fe' = [fe EXCEPT ![s].stage = "params", ![s].on = @ \/ powers]
               /\ prepared' = prepared \union r.done
               /\ stream' = IF r.w.ok THEN s ELSE "none"
               /\ pc' = IF ~dapm /\ powers THEN "standby"
                        ELSE IF r.w.ok THEN "check" ELSE "idle"
        /\ UNCHANGED <<put, dapm, clean>>
  BY DEF prepare
<1> DEFINE S == (B \ prepared) \union again
           r == Each([w |-> x, done |-> {}], S, be_prepare)
           w == r.w
           powers == /\ Speaker \in B \intersect w.card.started
                     /\ w.ok \/ Speaker \in r.done
<1>2. x \in WorldType /\ x.card = card /\ x.amp = amp /\ x.ok
  BY <1>1, WorldsMet
<1>3. /\ fe \in [Streams -> FeType] /\ B \in SUBSET Ports /\ S \subseteq B /\ S \in SUBSET Ports
      /\ card.ports # {} /\ pc = "idle" /\ fe[s].stage \in WithParams /\ prepared \in SUBSET Ports
  BY <1>1 DEF TypeOK, FeType, Ready, bound, WithParams
<1>4. B \subseteq x.card.slots /\ B \subseteq x.card.tdm
  BY <1>2, <1>3 DEF Slotted
<1>5. /\ OnDsp(w, x) /\ SameBut(w, x, {"started", "port_cfg"}) /\ r.done \subseteq S
      /\ \A E \in SUBSET Ports : S \subseteq E /\ Covered(x, E) => Covered(w, E)
  <2>1. S \subseteq x.card.slots /\ S \subseteq x.card.tdm
    BY <1>3, <1>4
  <2> HIDE DEF S
  <2> QED BY <1>2, <1>3, <2>1, PrepareAll
<1>6. /\ Keep(w) /\ fe' = [fe EXCEPT ![s].stage = "params", ![s].on = @ \/ powers]
      /\ prepared' = prepared \union r.done
      /\ put' = put /\ dapm' = dapm /\ clean' = clean
      /\ stream' = (IF w.ok THEN s ELSE "none")
      /\ pc' = IF ~dapm /\ powers THEN "standby" ELSE IF w.ok THEN "check" ELSE "idle"
  BY <1>1
<1>0. powers \in BOOLEAN /\ (powers => Speaker \in B)
  OBVIOUS
<1> HIDE DEF r, powers, S
<1>7. FeSet(fe', fe, s, "params", fe[s].be)
  <2>1. "params" \in Stages
    BY DEF Stages
  <2>2. (fe[s].on \/ powers) \in BOOLEAN
    OBVIOUS
  <2>3. fe' = [fe EXCEPT ![s].stage = "params", ![s].be = fe[s].be, ![s].on = (fe[s].on \/ powers)]
    BY <1>3, <1>6 DEF FeType
  <2> QED BY <1>3, <2>1, <2>2, <2>3, FeTurn
<1>8. Work(w, x) /\ w.card["copps"] = x.card["copps"] /\ w.dsp.adm = x.dsp.adm
  <2>1. SameBut(w, x, DspFields) /\ w.card["copps"] = x.card["copps"]
    BY <1>5 DEF SameBut, DspFields, CardFields
  <2> QED BY <1>5, <2>1, DspWork DEF OnDsp
<1>9. \A t \in Streams : fe'[t].be = fe[t].be
  BY <1>7 DEF FeSet
<1>10. faults' <= 1 => Covered(w, Used(fe'))
  <2>1. Used(fe) \in SUBSET Ports /\ S \subseteq Used(fe)
    BY <1>3, UsedPorts DEF Used
  <2>2. Used(fe') = Used(fe)
    BY <1>9, UsedSame
  <2> QED BY <1>1, <1>5, <2>1, <2>2, ClocksMet
<1>11. card'.ports = card.ports
  BY <1>1, <1>6, <1>8, WorkStep
<1>12. Shape'
  <2>1. pc' = "idle" => stream' = "none"
    BY <1>6
  <2>2. stream' # "none" \/ pc' \in {"check", "open"} => stream' = s
    BY <1>6
  <2> QED BY <1>3, <1>6, <1>7, <1>11, <2>1, <2>2 DEF Shape, Downs, bound, FeSet
<1>13. \A t \in Streams : fe'[t].stage \in WithParams =>
           /\ fe'[t].be \subseteq w.card.slots /\ fe'[t].be \subseteq w.card.tdm
           /\ Speaker \in fe'[t].be => fe[t].stage \in WithParams /\ Speaker \in fe[t].be
  <2>1. x.card.slots \subseteq w.card.slots /\ x.card.tdm \subseteq w.card.tdm
    BY <1>8 DEF Work
  <2> QED BY <1>2, <1>3, <1>7, <2>1 DEF Slotted, FeSet
<1>14. Balanced(w)
  BY <1>1, <1>8, CoppsMet, BalancedFrame
<1>15. \A t \in Streams : fe'[t].stage = "closed" => w.card.copps[t] = {}
  BY <1>2, <1>7, <1>8 DEF Counts, FeSet
<1>16. /\ put' \in {None} \union PutType /\ pc' \in Steps
       /\ stream' \in Streams \union {"none"}
  BY <1>6 DEF TypeOK, Steps, next_step
<1>17. fe' \in [Streams -> FeType]
  BY <1>7 DEF FeSet
<1>18. \/ pc \in Rest /\ pc' \in Rest
       \/ pc \in Rest /\ pc' = "standby" /\ ~dapm /\ w.amp.pll # 0
  <2>1. powers => amp.pll # 0
    BY <1>0, <1>3 DEF Divided
  <2>2. w.amp = amp
    BY <1>2, <1>5 DEF OnDsp
  <2> QED BY <1>3, <1>6, <2>1, <2>2 DEF Rest
<1>19. prepared' \in SUBSET Ports /\ \A p \in prepared' : p \in prepared \/ Fitted(w, p)
  <2>1. w.card["slots"] = x.card["slots"] /\ w.card["tdm"] = x.card["tdm"] /\ w.amp = amp
    BY <1>2, <1>5 DEF SameBut, CardFields, OnDsp
  <2>2. \A p \in B : Fitted(w, p)
    BY <1>3, <1>4, <2>1 DEF Fitted, Divided
  <2> QED BY <1>3, <1>5, <1>6, <2>2
<1> QED BY <1>1, <1>6, <1>8, <1>10, <1>12, <1>13, <1>14, <1>15, <1>16, <1>17, <1>18, <1>19,
           Finish


LEMMA CloseStep ==
    ASSUME IndInv, NEW s \in Streams, close(s)
    PROVE  IndInv'
<1> USE DEF IndInv
<1> DEFINE S == sole(s)
<1>1. PICK x \in Worlds :
        /\ Ready(s, Stages \ {"closed"}) /\ Count(x)
        /\ Keep(close_copps(Each(x, S, be_shutdown), s))
        /\ fe' = [fe EXCEPT ![s].stage = "closed", ![s].be = {}, ![s].on = FALSE]
        /\ prepared' = prepared \ S
        /\ UNCHANGED <<put, pc, stream, dapm, clean>>
  BY DEF close
<1> DEFINE a == Each(x, S, be_shutdown)
           w == close_copps(a, s)
<1>2. x \in WorldType /\ x.card = card /\ x.amp = amp /\ x.ok
  BY <1>1, WorldsMet
<1>3. /\ fe \in [Streams -> FeType] /\ S \in SUBSET Ports /\ card.ports # {} /\ pc = "idle"
      /\ stream = "none" /\ prepared \in SUBSET Ports
  BY <1>1 DEF TypeOK, FeType, Ready, bound, Shape, Downs, sole
<1>4. /\ Keep(w) /\ prepared' = prepared \ S /\ put' = put /\ pc' = pc /\ stream' = stream /\ dapm' = dapm /\ clean' = clean
  BY <1>1
<1>5. /\ OnDsp(a, x) /\ SameBut(a, x, {"clk_count", "started"})
      /\ \A E \in SUBSET Ports : S \subseteq E /\ Covered(x, E) => Covered(a, E \ S)
  BY <1>2, <1>3, StopAll
<1> HIDE DEF a
<1>6. OnAdm(w, a, s) /\ w.card.copps[s] = {}
  BY <1>5, CloseCopps DEF OnDsp
<1> HIDE DEF w
<1>7. FeSet(fe', fe, s, "closed", {})
  <2>1. "closed" \in Stages
    BY DEF Stages
  <2> QED BY <1>1, <1>3, <2>1, FeTurn
<1>8. Work(w, x)
  <2>1. SameBut(a, x, DspFields)
    BY <1>5 DEF SameBut, DspFields
  <2> QED BY <1>5, <1>6, <2>1, DspWork, AdmWork, WorkTrans
<1> DEFINE F == Used(fe)
<1>9. F \in SUBSET Ports /\ S \subseteq F /\ Used(fe') = F \ S
  <2>1. fe' \in [Streams -> FeType] /\ fe'[s].be = {} /\ \A t \in Streams \ {s} : fe'[t].be = fe[t].be
    BY <1>7 DEF FeSet
  <2>2. /\ Others(s) \in SUBSET Ports /\ S = fe[s].be \ Others(s)
        /\ F = Others(s) \union fe[s].be /\ Used(fe') = Others(s) \union fe'[s].be
    BY <1>3, <2>1, UsedSplit
  <2>3. F \in SUBSET Ports
    BY <1>3, UsedPorts
  <2> HIDE DEF F, S
  <2> QED BY <2>1, <2>2, <2>3
<1> HIDE DEF F
<1>10. faults' <= 1 => Covered(w, Used(fe'))
  <2> SUFFICES ASSUME faults' <= 1
               PROVE  Covered(w, Used(fe'))
    OBVIOUS
  <2>1. Covered(x, F)
    BY <1>1, ClocksMet DEF F
  <2>2. Covered(a, F \ S)
    BY <1>5, <1>9, <2>1
  <2>3. w.dsp.clk = a.dsp.clk /\ SameBut(w, a, CardFields \ {"clk_count", "started", "port_cfg"})
    BY <1>6 DEF OnAdm, SameBut, CardFields
  <2> QED BY <1>9, <2>2, <2>3, CoveredFrame
<1>11. card'.ports = card.ports
  BY <1>1, <1>4, <1>8, WorkStep
<1>12. Shape'
  BY <1>3, <1>4, <1>7, <1>11 DEF Shape, Downs, bound, FeSet
<1>13. \A t \in Streams : fe'[t].stage \in WithParams =>
           /\ fe'[t].be \subseteq w.card.slots /\ fe'[t].be \subseteq w.card.tdm
           /\ Speaker \in fe'[t].be => fe[t].stage \in WithParams /\ Speaker \in fe[t].be
  <2>1. x.card.slots \subseteq w.card.slots /\ x.card.tdm \subseteq w.card.tdm
    BY <1>8 DEF Work
  <2> QED BY <1>2, <1>7, <2>1 DEF Slotted, WithParams, FeSet
<1>14. a.card["copps"] = x.card["copps"] /\ a.dsp.adm = x.dsp.adm
  BY <1>5 DEF OnDsp, SameBut, CardFields
<1>15. Balanced(w)
  BY <1>1, <1>6, <1>14, CoppsMet, BalancedFrame DEF OnAdm
<1>16. \A t \in Streams : fe'[t].stage = "closed" => w.card.copps[t] = {}
  BY <1>2, <1>6, <1>7, <1>14 DEF Counts, FeSet, OnAdm
<1>17. put' \in {None} \union PutType /\ pc' \in Steps /\ stream' \in Streams \union {"none"}
  BY <1>4 DEF TypeOK
<1>18. fe' \in [Streams -> FeType] /\ prepared' \in SUBSET Ports /\ prepared' \subseteq prepared
  BY <1>3, <1>4, <1>7 DEF FeSet
<1> QED BY <1>1, <1>4, <1>8, <1>10, <1>12, <1>13, <1>15, <1>16, <1>17, <1>18, Finish

LEMMA StreamOpenStep ==
    ASSUME IndInv, q6routing_stream_open
    PROVE  IndInv'
<1> USE DEF IndInv
<1>1. PICK x \in Worlds :
        /\ pc = "open" /\ Count(x)
        /\ LET w == stream_open(x, stream)
           IN  /\ Keep(w)
               /\ fe' = [fe EXCEPT ![stream].stage = IF w.ok THEN "prepared" ELSE @]
        /\ pc' = "idle" /\ stream' = "none"
        /\ UNCHANGED <<prepared, put, dapm, clean>>
  BY DEF q6routing_stream_open
<1> DEFINE w == stream_open(x, stream)
           c == IF w.ok THEN "prepared" ELSE fe[stream].stage
<1>2. x \in WorldType /\ x.card = card /\ x.dsp = dsp /\ x.amp = amp
  BY <1>1, WorldsMet
<1>3. /\ fe \in [Streams -> FeType] /\ stream \in Streams /\ fe[stream].stage = "params"
      /\ card.ports # {}
  BY <1>1 DEF TypeOK, Shape, bound
<1>4. /\ Keep(w) /\ fe' = [fe EXCEPT ![stream].stage = c]
      /\ prepared' = prepared /\ put' = put /\ pc' = "idle" /\ stream' = "none" /\ dapm' = dapm /\ clean' = clean
  BY <1>1
<1>5. OnAdm(w, x, stream)
  BY <1>2, <1>3, StreamOpen
<1> HIDE DEF w
<1>6. c \in WithParams /\ c \in Stages
  BY <1>3 DEF WithParams, Stages
<1>7. FeSet(fe', fe, stream, c, fe[stream].be)
  <2> HIDE DEF c
  <2> QED BY <1>3, <1>4, <1>6, FeStage
<1>8. Work(w, x)
  BY <1>5, AdmWork
<1> HIDE DEF c
<1>9. \A t \in Streams : fe'[t].be = fe[t].be
  BY <1>7 DEF FeSet
<1>10. faults' <= 1 => Covered(w, Used(fe'))
  <2>1. Used(fe') = Used(fe)
    BY <1>9, UsedSame
  <2>2. faults' <= 1 => Covered(x, Used(fe))
    BY <1>1, ClocksMet
  <2>3. w.dsp.clk = x.dsp.clk /\ SameBut(w, x, CardFields \ {"clk_count", "started", "port_cfg"})
    BY <1>5 DEF OnAdm, SameBut, CardFields
  <2> QED BY <2>1, <2>2, <2>3, CoveredFrame
<1>11. card'.ports = card.ports
  BY <1>1, <1>4, <1>8, WorkStep
<1>12. Shape'
  BY <1>3, <1>4, <1>6, <1>7, <1>11 DEF Shape, Downs, bound, FeSet, WithParams
<1>13. \A t \in Streams : fe'[t].stage \in WithParams =>
           /\ fe'[t].be \subseteq w.card.slots /\ fe'[t].be \subseteq w.card.tdm
           /\ Speaker \in fe'[t].be => fe[t].stage \in WithParams /\ Speaker \in fe[t].be
  <2>1. x.card.slots \subseteq w.card.slots /\ x.card.tdm \subseteq w.card.tdm
    BY <1>8 DEF Work
  <2>2. fe[stream].stage \in WithParams
    BY <1>3 DEF WithParams
  <2> QED BY <1>2, <1>3, <1>7, <2>1, <2>2 DEF Slotted, FeSet
<1>14. Balanced(w)
  BY <1>1, <1>5, CoppsMet DEF OnAdm
<1>15. \A t \in Streams : fe'[t].stage = "closed" => w.card.copps[t] = {}
  BY <1>2, <1>5, <1>6, <1>7 DEF Counts, FeSet, OnAdm, WithParams
<1>16. put' \in {None} \union PutType /\ pc' \in Steps /\ stream' \in Streams \union {"none"}
  BY <1>4 DEF TypeOK, Steps
<1>17. /\ fe' \in [Streams -> FeType] /\ pc \in Rest /\ pc' \in Rest
       /\ prepared' = prepared /\ prepared \in SUBSET Ports
  BY <1>1, <1>4, <1>7 DEF FeSet, Rest, TypeOK
<1> QED BY <1>1, <1>4, <1>8, <1>10, <1>12, <1>13, <1>14, <1>15, <1>16, <1>17, Finish

LEMMA SetVolumeStep ==
    ASSUME IndInv, set_volume
    PROVE  IndInv'
<1> USE DEF IndInv
<1>1. PICK x \in Worlds :
        /\ bound /\ Count(x) /\ Keep(put_volsw(x))
        /\ UNCHANGED <<pcm, pc, clean>>
  BY DEF set_volume
<1> DEFINE w == put_volsw(x)
<1>2. x \in WorldType /\ x.card = card /\ x.dsp = dsp /\ x.ok
  BY <1>1, WorldsMet
<1>3. Work(w, x) /\ w.card = x.card /\ w.dsp = x.dsp
  BY <1>2, VolswWork
<1>4. Keep(w)
  BY <1>1
<1> HIDE DEF w
<1>5. /\ fe' = fe /\ prepared' = prepared /\ put' = put /\ pc' = pc /\ stream' = stream /\ dapm' = dapm
      /\ clean' = clean
  BY <1>1 DEF pcm
<1>6. faults' <= 1 => Covered(w, Used(fe'))
  BY <1>1, <1>3, <1>5, ClocksMet DEF Covered
<1>7. card' = card
  BY <1>2, <1>3, <1>4 DEF Keep
<1>8. Shape'
  BY <1>5, <1>7 DEF Shape, Downs, bound
<1>9. \A t \in Streams : fe'[t].stage \in WithParams =>
          /\ fe'[t].be \subseteq w.card.slots /\ fe'[t].be \subseteq w.card.tdm
          /\ Speaker \in fe'[t].be => fe[t].stage \in WithParams /\ Speaker \in fe[t].be
  BY <1>2, <1>3, <1>5 DEF Slotted
<1>10. Balanced(w)
  BY <1>1, <1>3, CoppsMet DEF Balanced, Users
<1>11. \A t \in Streams : fe'[t].stage = "closed" => w.card.copps[t] = {}
  BY <1>2, <1>3, <1>5 DEF Counts
<1>12. /\ put' \in {None} \union PutType /\ pc' \in Steps /\ stream' \in Streams \union {"none"}
       /\ fe' \in [Streams -> FeType] /\ prepared \in SUBSET Ports
  BY <1>5 DEF TypeOK
<1> QED BY <1>1, <1>3, <1>4, <1>5, <1>6, <1>8, <1>9, <1>10, <1>11, <1>12, Finish


LEMMA MixerStep ==
    ASSUME IndInv, mixer_update_power
    PROVE  IndInv'
<1> USE DEF IndInv
<1> DEFINE s == put.s
           p == put.p
           B == fe[s].be
           joins  == put.on /\ fe[s].stage # "closed" /\ p \notin B
           leaves == ~put.on /\ p \in B
           Result(x, again) == IF joins THEN IF users(p) = {} THEN be_join(x, p, fe[s].stage)
                                             ELSE be_share(x, p, fe[s].stage, again)
                               ELSE IF leaves /\ p \in sole(s) THEN be_shutdown(x, p) ELSE x
           Route == IF put.on THEN fe[s].route \union {p} ELSE fe[s].route \ {p}
           Plays(v) == joins /\ v.ok /\ fe[s].stage = "prepared"
           Prepared(v) == IF Plays(v) THEN prepared \union {p}
                          ELSE IF leaves THEN prepared \ (sole(s) \intersect {p}) ELSE prepared
           Ends(v) == IF joins /\ v.ok THEN B \union {p} ELSE IF leaves THEN B \ {p} ELSE B
<1>1. PICK x \in Worlds, again \in BOOLEAN :
        /\ pc = "idle" /\ put # None /\ put' = None /\ Count(x)
        /\ \E v \in {Result(x, again)} :
               /\ Keep(v)
               /\ fe' = [fe EXCEPT ![s].route = IF put.on THEN @ \union {p} ELSE @ \ {p},
                                   ![s].be = IF joins /\ v.ok THEN @ \union {p}
                                             ELSE IF leaves THEN @ \ {p} ELSE @,
                                   ![s].on = @ \/ (Plays(v) /\ p = Speaker)]
               /\ prepared' = Prepared(v)
               /\ pc' = IF Plays(v) /\ p = Speaker /\ ~dapm THEN "standby" ELSE "idle"
        /\ UNCHANGED <<stream, dapm, clean>>
  BY Zenon DEF mixer_update_power
<1> DEFINE w == Result(x, again)
           Turn == fe[s].on \/ (Plays(w) /\ p = Speaker)
<1>2. w = Result(x, again)
  OBVIOUS
<1> HIDE DEF w
<1>3. /\ x \in WorldType /\ x.card = card /\ x.dsp = dsp /\ x.amp = amp /\ x.ok
  BY <1>1, WorldsMet
<1>4. put \in PutType
  BY <1>1 DEF TypeOK
<1>5. /\ s \in Streams /\ p \in Ports /\ put.on \in BOOLEAN
  BY <1>4 DEF PutType
<1>6. /\ fe \in [Streams -> FeType] /\ B \in SUBSET Ports /\ fe[s].route \in SUBSET Ports
      /\ fe[s].stage \in Stages /\ fe[s].on \in BOOLEAN /\ prepared \in SUBSET Ports
  BY <1>5 DEF TypeOK, FeType
<1>7. /\ fe[s].stage = "closed" => B = {}
      /\ card.ports # {} /\ stream = "none" /\ Tuned(x.amp)
  BY <1>1, <1>3, <1>5 DEF Shape, Downs, bound, Divided
<1> HIDE DEF Result
<1>8. /\ fe' \in [Streams -> FeType] /\ fe'[s].stage = fe[s].stage
      /\ fe'[s].route = Route /\ fe'[s].be = Ends(w)
      /\ \A t \in Streams \ {s} : fe'[t] = fe[t]
  <2>1. fe' = [fe EXCEPT ![s].route = Route, ![s].be = Ends(w), ![s].on = Turn]
    <3>1. fe' = [fe EXCEPT ![s].route = IF put.on THEN @ \union {p} ELSE @ \ {p},
                           ![s].be = IF joins /\ w.ok THEN @ \union {p}
                                     ELSE IF leaves THEN @ \ {p} ELSE @,
                           ![s].on = @ \/ (Plays(w) /\ p = Speaker)]
      BY <1>1 DEF w
    <3> HIDE DEF joins, leaves, Plays
    <3> QED BY <1>5, <1>6, <3>1 DEF FeType
  <2>2. Route \in SUBSET Ports /\ Ends(w) \in SUBSET Ports
    BY <1>5, <1>6
  <2>3. Turn \in BOOLEAN
    OBVIOUS
  <2> HIDE DEF Route, Ends, Turn
  <2> QED BY <1>5, <1>6, <2>1, <2>2, <2>3 DEF FeType
<1> DEFINE F == Used(fe)
<1>9. /\ F \in SUBSET Ports /\ B \subseteq F
      /\ joins => Used(fe') = IF w.ok THEN F \union {p} ELSE F
      /\ users(p) = {} <=> p \notin F
      /\ leaves /\ p \in sole(s) => p \in F /\ Used(fe') = F \ {p}
      /\ ~joins /\ ~(leaves /\ p \in sole(s)) => Used(fe') = F
  <2> DEFINE O == Others(s)
             C == fe'[s].be
  <2>1. \A t \in Streams \ {s} : fe'[t].be = fe[t].be
    BY <1>8
  <2>2. /\ O \in SUBSET Ports /\ F = O \union B /\ Used(fe') = O \union C
        /\ sole(s) = B \ O /\ (users(p) = {} <=> p \notin F)
    <3> HIDE DEF s, p, Ends, Route
    <3> QED BY <1>5, <1>6, <1>8, <2>1, UsedSplit
  <2>3. C = Ends(w)
    BY <1>8
  <2> HIDE DEF O, C, F, s, p, B
  <2>4. joins => Used(fe') = IF w.ok THEN F \union {p} ELSE F
    BY <2>2, <2>3
  <2>5. leaves /\ p \in sole(s) => p \in F /\ Used(fe') = F \ {p}
    BY <2>2, <2>3
  <2>6. ~joins /\ ~(leaves /\ p \in sole(s)) => Used(fe') = F
    BY <2>2, <2>3
  <2>7. F \in SUBSET Ports /\ B \subseteq F
    BY <1>6, <2>2
  <2> QED BY <2>2, <2>4, <2>5, <2>6, <2>7
<1> HIDE DEF F
<1>10. /\ Work(w, x) /\ w.dsp.adm = x.dsp.adm /\ w.card["copps"] = x.card["copps"]
       /\ joins /\ w.ok /\ fe[s].stage # "open" => Fitted(w, p)
       /\ Trust(x) /\ Covered(x, F) => Covered(w, Used(fe'))
  <2>1. CASE joins
    <3>1. w = IF users(p) = {} THEN be_join(x, p, fe[s].stage)
              ELSE be_share(x, p, fe[s].stage, again)
      BY <1>2, <2>1 DEF Result
    <3>2. fe[s].stage \in {"open", "params", "prepared"}
      BY <1>6, <2>1 DEF Stages
    <3>3. p \in prepared => Fitted(x, p)
      BY <1>3 DEF Slotted, Divided, Fitted
    <3> HIDE DEF p, joins
    <3>4. /\ Joined(w, x)
          /\ w.ok /\ fe[s].stage # "open" => Fitted(w, p)
          /\ Trust(x) /\ Covered(x, F) => Covered(w, IF w.ok THEN F \union {p} ELSE F)
      <4>1. CASE users(p) = {}
        <5>1. p \notin F /\ w = be_join(x, p, fe[s].stage)
          BY <1>9, <3>1, <4>1
        <5> QED BY <1>3, <1>5, <1>7, <1>9, <3>2, <5>1, BeJoin
      <4>2. CASE users(p) # {}
        <5>1. p \in F /\ w = be_share(x, p, fe[s].stage, again)
          BY <1>9, <3>1, <4>2
        <5>2. F \union {p} = F
          BY <5>1
        <5>3. /\ Joined(w, x) /\ (w.ok /\ fe[s].stage # "open" => Fitted(w, p))
              /\ \A E \in SUBSET Ports : p \in E /\ Covered(x, E) => Covered(w, E)
          BY <1>3, <1>5, <1>7, <3>2, <3>3, <5>1, BeShare
        <5> QED BY <1>9, <5>1, <5>2, <5>3
      <4> QED BY <4>1, <4>2
    <3>5. Work(w, x) /\ w.dsp.adm = x.dsp.adm /\ w.card["copps"] = x.card["copps"]
      BY <3>4 DEF Joined, SameBut, JoinFields, CardFields
    <3> QED BY <1>9, <2>1, <3>4, <3>5
  <2>2. CASE ~joins /\ leaves /\ p \in sole(s)
    <3>1. w = be_shutdown(x, p)
      BY <1>2, <2>2 DEF Result
    <3>2. p \in F /\ Used(fe') = F \ {p}
      BY <1>9, <2>2
    <3> HIDE DEF p, joins
    <3>3. /\ OnDsp(w, x) /\ SameBut(w, x, {"clk_count", "started"})
          /\ Covered(x, F) => Covered(w, F \ {p})
      BY <1>3, <1>5, <1>9, <3>1, <3>2, BeShutdown
    <3>4. SameBut(w, x, DspFields) /\ w.card["copps"] = x.card["copps"]
      BY <3>3 DEF SameBut, DspFields, CardFields
    <3>5. Work(w, x) /\ w.dsp.adm = x.dsp.adm
      BY <3>3, <3>4, DspWork DEF OnDsp
    <3> QED BY <2>2, <3>2, <3>3, <3>4, <3>5
  <2>3. CASE ~joins /\ ~(leaves /\ p \in sole(s))
    <3>1. w = x
      BY <1>2, <2>3 DEF Result
    <3>2. OnDsp(x, x) /\ SameBut(x, x, DspFields)
      BY <1>3 DEF OnDsp, SameBut
    <3>3. Used(fe') = F
      BY <1>9, <2>3
    <3> HIDE DEF joins
    <3> QED BY <2>3, <3>1, <3>2, <3>3, DspWork
  <2> QED BY <2>1, <2>2, <2>3
<1>11. /\ Keep(w) /\ put' = None /\ stream' = stream /\ dapm' = dapm /\ clean' = clean
       /\ prepared' = Prepared(w) /\ pc' \in {"idle", "standby"}
       /\ pc' = "standby" => joins /\ w.ok /\ fe[s].stage = "prepared" /\ p = Speaker /\ ~dapm
  BY <1>1 DEF w
<1>12. faults' <= 1 => Covered(w, Used(fe'))
  BY <1>1, <1>10, ClocksMet DEF F
<1>13. card'.ports = card.ports
  BY <1>1, <1>10, <1>11, WorkStep
<1>14. Shape'
  <2>1. put' = None /\ stream' = "none" /\ dapm' = dapm /\ pc' \in {"idle", "standby"}
    BY <1>7, <1>11
  <2>2. fe'[s].stage = "closed" => fe'[s].be = {}
    BY <1>7, <1>8
  <2> HIDE DEF s, Route, Ends
  <2> QED BY <1>7, <1>8, <1>13, <2>1, <2>2 DEF Shape, Downs, bound
<1>15. \A t \in Streams : fe'[t].stage \in WithParams =>
           /\ fe'[t].be \subseteq w.card.slots /\ fe'[t].be \subseteq w.card.tdm
           /\ Speaker \in fe'[t].be =>
                  (fe[t].stage \in WithParams /\ Speaker \in fe[t].be) \/ w.amp.pll # 0
  <2>1. x.card.slots \subseteq w.card.slots /\ x.card.tdm \subseteq w.card.tdm
    BY <1>10 DEF Work
  <2>2. ASSUME fe[s].stage \in WithParams
        PROVE  /\ Ends(w) \subseteq w.card.slots /\ Ends(w) \subseteq w.card.tdm
               /\ Speaker \in Ends(w) => Speaker \in B \/ w.amp.pll # 0
    <3>1. B \subseteq w.card.slots /\ B \subseteq w.card.tdm
      BY <1>3, <1>5, <2>1, <2>2 DEF Slotted
    <3>2. joins /\ w.ok => Fitted(w, p)
      BY <1>10, <2>2 DEF WithParams
    <3> QED BY <3>1, <3>2 DEF Fitted
  <2> HIDE DEF s, Ends
  <2> QED BY <1>3, <1>8, <2>1, <2>2 DEF Slotted, B
<1>16. Balanced(w)
  BY <1>1, <1>10, CoppsMet, BalancedFrame
<1>17. \A t \in Streams : fe'[t].stage = "closed" => w.card.copps[t] = {}
  BY <1>3, <1>8, <1>10 DEF Counts
<1>18. put' \in {None} \union PutType /\ pc' \in Steps /\ stream' \in Streams \union {"none"}
  BY <1>7, <1>11 DEF Steps, next_step
<1>19. \/ pc \in Rest /\ pc' \in Rest
       \/ pc \in Rest /\ pc' = "standby" /\ ~dapm /\ w.amp.pll # 0
  <2>1. pc' = "standby" => ~dapm /\ w.amp.pll # 0
    BY <1>10, <1>11 DEF Fitted
  <2> QED BY <1>1, <1>11, <2>1 DEF Rest
<1>20. prepared' \in SUBSET Ports /\ \A q \in prepared' : q \in prepared \/ Fitted(w, q)
  <2>1. Plays(w) => Fitted(w, p)
    BY <1>10
  <2>2. prepared' \subseteq prepared \/ (Plays(w) /\ prepared' = prepared \union {p})
    BY <1>11
  <2> HIDE DEF p, Plays, Prepared
  <2> QED BY <1>5, <1>6, <2>1, <2>2
<1> QED BY <1>1, <1>8, <1>10, <1>11, <1>12, <1>14, <1>15, <1>16, <1>17, <1>18, <1>19,
           <1>20, Finish


\* The world in which nothing fails, when an action has none.
LEMMA NoWorld ==
    ASSUME TypeOK, faults' = faults
    PROVE  /\ World \in Worlds /\ Count(World) /\ World.at = 0
           /\ UNCHANGED <<card, dsp, amp, late>> => Keep(World) /\ Work(World, World)
<1>1. World \in Worlds
  BY DEF Worlds
<1>2. World.at = 0 /\ World.late = late /\ World.card = card /\ World.dsp = dsp /\ World.amp = amp
  BY DEF World
<1>3. Count(World)
  BY <1>2 DEF Count
<1>4. World \in WorldType
  BY <1>1, <1>3, WorldsMet
<1>5. Work(World, World)
  <2>1. OnDsp(World, World) /\ SameBut(World, World, DspFields)
    BY <1>4 DEF OnDsp, SameBut
  <2> QED BY <2>1, DspWork
<1>6. UNCHANGED <<card, dsp, amp, late>> => Keep(World)
  BY <1>2 DEF Keep
<1> QED BY <1>1, <1>2, <1>3, <1>5, <1>6

LEMMA HwFreeStep ==
    ASSUME IndInv, NEW s \in Streams, hw_free(s)
    PROVE  IndInv'
<1> USE DEF IndInv
<1>1. /\ fe' = [fe EXCEPT ![s].stage = "open"] /\ Ready(s, {"params", "prepared"})
      /\ card' = card /\ dsp' = dsp /\ amp' = amp /\ late' = late /\ put' = put /\ pc' = pc
      /\ stream' = stream /\ dapm' = dapm /\ clean' = clean /\ faults' = faults
      /\ prepared' = prepared \ sole(s)
  BY DEF hw_free
<1>2. World \in Worlds /\ Count(World) /\ Keep(World) /\ Work(World, World)
  BY <1>1, NoWorld
<1>3. World.card = card /\ World.dsp = dsp
  BY DEF World
<1>4. /\ fe \in [Streams -> FeType] /\ fe[s].stage # "closed" /\ pc = "idle" /\ card.ports # {}
  BY <1>1 DEF TypeOK, Ready, bound
<1>5. FeSet(fe', fe, s, "open", fe[s].be)
  BY <1>1, <1>4, FeStage DEF Stages
<1>6. Shape'
  BY <1>1, <1>4, <1>5 DEF Shape, Downs, bound, FeSet
<1>7. \A t \in Streams : fe'[t].stage \in WithParams =>
          /\ fe'[t].be \subseteq World.card.slots /\ fe'[t].be \subseteq World.card.tdm
          /\ Speaker \in fe'[t].be => fe[t].stage \in WithParams /\ Speaker \in fe[t].be
  BY <1>3, <1>5 DEF Slotted, FeSet, WithParams
<1>8. faults' <= 1 => Covered(World, Used(fe'))
  <2>1. Used(fe') = Used(fe)
    BY <1>5, UsedSame DEF FeSet
  <2> QED BY <1>2, <2>1, ClocksMet
<1>9. Balanced(World)
  BY <1>2, CoppsMet
<1>10. \A t \in Streams : fe'[t].stage = "closed" => World.card.copps[t] = {}
  BY <1>3, <1>5 DEF Counts, FeSet
<1>11. /\ put' \in {None} \union PutType /\ pc' \in Steps /\ stream' \in Streams \union {"none"}
       /\ fe' \in [Streams -> FeType] /\ prepared' \in SUBSET Ports /\ prepared' \subseteq prepared
  BY <1>1, <1>5 DEF TypeOK, FeSet
<1> QED BY <1>1, <1>2, <1>6, <1>7, <1>8, <1>9, <1>10, <1>11, Finish

LEMMA CheckStep ==
    ASSUME IndInv, check_port_map
    PROVE  IndInv'
<1> USE DEF IndInv
<1>1. /\ pc = "check"
      /\ \/ pc' = "idle" /\ stream' = "none"
         \/ pc' = "open" /\ stream' = stream
      /\ card' = card /\ dsp' = dsp /\ amp' = amp /\ late' = late /\ put' = put /\ fe' = fe
      /\ dapm' = dapm /\ clean' = clean /\ faults' = faults /\ prepared' = prepared
  BY DEF check_port_map
<1>2. World \in Worlds /\ Count(World) /\ Keep(World) /\ Work(World, World)
  BY <1>1, NoWorld
<1>3. World.card = card /\ World.dsp = dsp
  BY DEF World
<1>4. Shape'
  BY <1>1 DEF Shape, Downs, bound
<1>5. \A t \in Streams : fe'[t].stage \in WithParams =>
          /\ fe'[t].be \subseteq World.card.slots /\ fe'[t].be \subseteq World.card.tdm
          /\ Speaker \in fe'[t].be => fe[t].stage \in WithParams /\ Speaker \in fe[t].be
  BY <1>1, <1>3 DEF Slotted
<1>6. faults' <= 1 => Covered(World, Used(fe'))
  BY <1>1, <1>2, ClocksMet
<1>7. Balanced(World)
  BY <1>2, CoppsMet
<1>8. \A t \in Streams : fe'[t].stage = "closed" => World.card.copps[t] = {}
  BY <1>1, <1>3 DEF Counts
<1>9. /\ put' \in {None} \union PutType /\ pc' \in Steps /\ stream' \in Streams \union {"none"}
      /\ fe' \in [Streams -> FeType] /\ pc \in Rest /\ pc' \in Rest
      /\ prepared' \in SUBSET Ports
  BY <1>1 DEF TypeOK, Steps, Rest
<1> QED BY <1>1, <1>2, <1>4, <1>5, <1>6, <1>7, <1>8, <1>9, Finish

LEMMA CallbackStep ==
    ASSUME IndInv, q6afe_callback
    PROVE  IndInv'
<1> USE DEF IndInv
<1>1. /\ card' = card /\ dsp' = dsp /\ amp' = amp /\ late' = {} /\ put' = put /\ pc' = pc
      /\ fe' = fe /\ stream' = stream /\ dapm' = dapm /\ clean' = clean /\ faults' = faults
      /\ prepared' = prepared
  BY DEF q6afe_callback, pcm
<1>2. TypeOK' /\ Punctual'
  BY <1>1 DEF TypeOK, Punctual
<1>3. Shape' /\ Slotted' /\ Divided' /\ InStep'
  BY <1>1 DEF Shape, Slotted, Divided, InStep, bound
<1>4. Clocked' /\ Counts'
  BY <1>1 DEF Clocked, Counts, Now
<1> QED BY <1>2, <1>3, <1>4

LEMMA StutterStep ==
    ASSUME IndInv, UNCHANGED vars
    PROVE  IndInv'
<1> USE DEF IndInv
<1>1. /\ card' = card /\ dsp' = dsp /\ amp' = amp /\ late' = late /\ put' = put /\ pc' = pc
      /\ fe' = fe /\ stream' = stream /\ dapm' = dapm /\ clean' = clean /\ faults' = faults
      /\ prepared' = prepared
  BY DEF vars, pcm
<1>2. TypeOK' /\ Punctual'
  BY <1>1 DEF TypeOK, Punctual
<1>3. Shape' /\ Slotted' /\ Divided' /\ InStep'
  BY <1>1 DEF Shape, Slotted, Divided, InStep, bound
<1>4. Clocked' /\ Counts'
  BY <1>1 DEF Clocked, Counts, Now
<1> QED BY <1>2, <1>3, <1>4

\* The amplifier had its power, and so its divisor, which stays set.
LEMMA PmdownStep ==
    ASSUME IndInv, pmdown
    PROVE  IndInv'
<1> USE DEF IndInv
<1>1. /\ card' = card /\ dsp' = dsp /\ amp' = amp /\ late' = late /\ put' = put
      /\ fe' = fe /\ stream' = stream /\ dapm' = dapm /\ clean' = clean /\ faults' = faults
      /\ prepared' = prepared
      /\ pc = "idle" /\ pc' = "pre_pmd" /\ dapm
  BY DEF pmdown, pcm
<1>2. TypeOK' /\ Punctual'
  BY <1>1 DEF TypeOK, Punctual, Steps, next_step
<1>3. Shape' /\ Slotted' /\ Divided'
  BY <1>1 DEF Shape, Downs, Slotted, Divided, bound
<1>4. InStep'
  <2>1. Powered(pc', dapm, clean, amp)
    BY <1>1 DEF Powered, Rest
  <2>2. Moded(pc, dapm, amp) => Moded(pc', dapm, amp)
    BY <1>1 DEF Moded, Rest
  <2> QED BY <1>1, <2>1, <2>2 DEF InStep, bound
<1>5. Clocked' /\ Counts'
  BY <1>1 DEF Clocked, Counts, Now
<1> QED BY <1>2, <1>3, <1>4, <1>5

LEMMA PutMixerStep ==
    ASSUME IndInv, NEW s \in Streams, NEW p \in Ports, put_audio_mixer(s, p)
    PROVE  IndInv'
<1> USE DEF IndInv
<1> DEFINE on == p \notin card.port_map[s]
           P == IF on THEN card.port_map[s] \union {p} ELSE card.port_map[s] \ {p}
<1>1. /\ bound
      /\ card' = [card EXCEPT !.port_map[s] = P]
      /\ put' = [s |-> s, p |-> p, on |-> on]
      /\ dsp' = dsp /\ amp' = amp /\ late' = late /\ pc' = pc
      /\ fe' = fe /\ stream' = stream /\ dapm' = dapm /\ clean' = clean /\ faults' = faults
      /\ prepared' = prepared
  <2>1. /\ bound
        /\ card' = [card EXCEPT !.port_map[s] = IF on THEN @ \union {p} ELSE @ \ {p}]
        /\ put' = [s |-> s, p |-> p, on |-> on]
        /\ UNCHANGED <<dsp, amp, late, fe, prepared, pc, stream, dapm, clean, faults>>
    BY Zenon DEF put_audio_mixer
  <2>2. card \in CardType
    BY DEF TypeOK
  <2> HIDE DEF on
  <2> QED BY <2>1, <2>2 DEF CardType
<1>2. card \in CardType /\ P \in SUBSET Ports
  BY DEF TypeOK, CardType
<1> HIDE DEF P, on
<1>3. /\ card' \in CardType /\ card'.ports = card.ports /\ card'.clk_count = card.clk_count
      /\ card'.started = card.started /\ card'.port_cfg = card.port_cfg
      /\ card'.slots = card.slots /\ card'.tdm = card.tdm /\ card'.copps = card.copps
  BY <1>1, <1>2 DEF CardType
<1>4. put' \in PutType /\ put'.p = p /\ put'.s = s
  BY <1>1 DEF PutType, on
<1>5. TypeOK' /\ Punctual'
  BY <1>1, <1>3, <1>4 DEF TypeOK, Punctual
<1>6. Shape' /\ Slotted' /\ Divided' /\ InStep'
  BY <1>1, <1>3, <1>4 DEF Shape, Slotted, Divided, InStep, bound
<1>7. Clocked' /\ Counts'
  <2>1. Clocked /\ Counts
    OBVIOUS
  <2> HIDE DEF IndInv
  <2>2. Clocked'
    BY <1>1, <1>3, <2>1 DEF Clocked, Now, Covered
  <2>3. Balanced(Now)'
    BY <1>1, <1>3, <2>1 DEF Counts, Now, Balanced, Users
  <2> QED BY <1>1, <1>3, <2>1, <2>2, <2>3 DEF Counts
<1> QED BY <1>5, <1>6, <1>7


LEMMA RemoveStep ==
    ASSUME IndInv, dai_remove
    PROVE  IndInv'
<1> USE DEF IndInv
<1> DEFINE w == Each(World, Ports, q6afe_port_put)
<1>1. /\ Keep(w) /\ bound /\ pc = "idle" /\ put = None /\ ~dapm
      /\ \A s \in Streams : fe[s].stage = "closed"
      /\ put' = put /\ pc' = pc /\ fe' = fe /\ stream' = stream /\ dapm' = dapm
      /\ clean' = clean /\ faults' = faults /\ prepared' = prepared
  BY DEF dai_remove, pcm
<1>2. World \in WorldType /\ World.card = card /\ World.dsp = dsp /\ World.amp = amp /\ World.late = late
  <2>1. World \in Worlds /\ Count(World)
    BY <1>1, NoWorld
  <2> QED BY <2>1, WorldsMet
<1>3. OnPorts(w, World)
  BY <1>2, PortsAll
<1> HIDE DEF w
<1>4. w \in WorldType /\ w.dsp = dsp /\ w.amp = amp /\ w.late = late
  BY <1>2, <1>3 DEF OnPorts
<1>5. /\ card' \in CardType /\ dsp' = dsp /\ amp' = amp /\ late' = late /\ card' = w.card
  BY <1>1, <1>4, KeepType
<1>6. /\ w.card["clk_count"] = World.card["clk_count"] /\ w.card["started"] = World.card["started"]
      /\ w.card["port_cfg"] = World.card["port_cfg"] /\ w.card["slots"] = World.card["slots"]
      /\ w.card["tdm"] = World.card["tdm"] /\ w.card["copps"] = World.card["copps"]
  BY <1>3 DEF OnPorts, SameBut, CardFields
<1>7. /\ card'.clk_count = card.clk_count /\ card'.started = card.started
      /\ card'.port_cfg = card.port_cfg /\ card'.slots = card.slots /\ card'.tdm = card.tdm
      /\ card'.copps = card.copps
  BY <1>2, <1>5, <1>6
<1>8. TypeOK' /\ Punctual'
  BY <1>1, <1>5 DEF TypeOK, Punctual
<1>9. Shape' /\ Slotted' /\ Divided' /\ InStep'
  BY <1>1, <1>5, <1>7 DEF Shape, Slotted, Divided, InStep, bound
<1>10. Clocked' /\ Counts'
  BY <1>1, <1>5, <1>7 DEF Clocked, Counts, Now, Covered, Balanced, Users
<1> QED BY <1>8, <1>9, <1>10

\* No port in use, and no COPP.
LEMMA NothingUsed ==
    ASSUME NEW w, w.card.clk_count = [i \in Interfaces |-> 0], w.card.started = {},
           w.card.copps = [s \in Streams |-> {}], \A p \in Ports : w.dsp.adm[p] = 0
    PROVE  Covered(w, {}) /\ Balanced(w)
<1>1. \A i \in Interfaces : Cardinality(On({}, i)) = 0
  BY FS_EmptySet DEF On
<1>2. \A p \in Ports : Users(w, p) = {}
  BY DEF Users
<1>3. Balanced(w)
  BY <1>2, FS_EmptySet DEF Balanced
<1>4. Covered(w, {})
  BY <1>1 DEF Covered
<1> QED BY <1>3, <1>4

LEMMA ClosedUsed ==
    ASSUME NEW f, \A s \in Streams : f[s].be = {}
    PROVE  Used(f) = {}
BY DEF Used

LEMMA ProbeStep ==
    ASSUME IndInv, NEW high \in BOOLEAN, dai_probe(high)
    PROVE  IndInv'
<1> USE DEF IndInv
<1>1. PICK x \in Worlds :
        /\ ~bound /\ Count(x)
        /\ LET w == i2c_probe([x EXCEPT !.card = Card0], high)
           IN  Keep(IF w.ok THEN Each(w, Ports, q6afe_port_get_from_id) ELSE w)
        /\ fe' = [s \in Streams |-> Closed] /\ prepared' = {}
        /\ UNCHANGED <<put, pc, stream, dapm, clean>>
  BY DEF dai_probe
<1> DEFINE y == [x EXCEPT !.card = Card0]
           a == i2c_probe(y, high)
           w == IF a.ok THEN Each(a, Ports, q6afe_port_get_from_id) ELSE a
<1>2. /\ x \in WorldType /\ x.dsp = dsp /\ x.late = late /\ x.ok /\ faults' \in Nat
      /\ faults' = 0 => faults = 0 /\ x.at = 0
  BY <1>1, WorldsMet
<1>3. Card0 \in CardType
  BY DEF Card0, CardType
<1>4. /\ y \in WorldType /\ y.card = Card0 /\ y.dsp = x.dsp /\ y.late = x.late /\ y.ok = x.ok
      /\ y.at = x.at
  BY <1>2, <1>3 DEF WorldType
<1>5. Keep(w)
  BY <1>1
<1> HIDE DEF y
<1>6. /\ OnAmp(a, y) /\ Tuned(a.amp) /\ (a.ok => a.amp.mode_store \in BB /\ ~a.amp.chip_on)
  BY <1>4, Probe
<1> HIDE DEF a
<1>7. OnPorts(w, a)
  <2>1. a \in WorldType
    BY <1>6 DEF OnAmp
  <2>2. OnPorts(a, a)
    BY <2>1 DEF OnPorts, SameBut
  <2>3. OnPorts(Each(a, Ports, q6afe_port_get_from_id), a)
    BY <2>1, PortsAll
  <2> QED BY <2>2, <2>3
<1> HIDE DEF w
<1>8. w \in WorldType /\ w.dsp = dsp /\ w.amp = a.amp /\ w.late = late
  BY <1>2, <1>4, <1>6, <1>7 DEF OnPorts, OnAmp, SameCard
<1>9. /\ card' \in CardType /\ dsp' \in DspType /\ amp' \in AmpType /\ late' \in SUBSET Answers
      /\ card' = w.card /\ dsp' = dsp /\ amp' = a.amp /\ late' = late
  BY <1>5, <1>8, KeepType
<1>10. /\ w.card["clk_count"] = Card0.clk_count /\ w.card["started"] = Card0.started
       /\ w.card["copps"] = Card0.copps
  BY <1>4, <1>6, <1>7 DEF OnPorts, OnAmp, SameCard, SameBut, CardFields
<1>11. /\ card'.clk_count = [i \in Interfaces |-> 0] /\ card'.started = {}
       /\ card'.copps = [s \in Streams |-> {}]
  BY <1>9, <1>10 DEF Card0
<1>12. /\ pc = "idle" /\ put = None /\ ~dapm /\ stream = "none"
       /\ \A s \in Streams : fe[s].stage = "closed"
  BY <1>1 DEF Shape, Downs
<1>13. /\ put' = put /\ pc' = pc /\ stream' = stream /\ dapm' = dapm /\ clean' = clean
       /\ fe' = [s \in Streams |-> Closed] /\ prepared' = {}
  BY <1>1
<1>14. /\ fe' \in [Streams -> FeType]
       /\ \A s \in Streams : fe'[s].stage = "closed" /\ fe'[s].be = {} /\ fe'[s].route = {}
  BY <1>13 DEF FeType, Closed, Stages
<1>15. TypeOK' /\ Punctual'
  BY <1>2, <1>9, <1>13, <1>14 DEF TypeOK, Punctual
<1>16. Shape'
  BY <1>12, <1>13, <1>14 DEF Shape, Downs
<1>17. Slotted' /\ Divided'
  BY <1>6, <1>9, <1>12, <1>13, <1>14 DEF Slotted, Divided, WithParams, Rest
<1>18. InStep'
  <2>1. Powered("idle", FALSE, clean', amp')
    BY DEF Powered
  <2>2. faults' = 0 => a.ok
    BY <1>2, <1>4, <1>6 DEF OnAmp, Steady
  <2>3. faults' = 0 => Moded("idle", FALSE, amp')
    BY <1>6, <1>9, <2>2 DEF Moded, Rest
  <2>4. pc' = "idle" /\ dapm' = FALSE
    BY <1>12, <1>13 DEF TypeOK
  <2> QED BY <2>1, <2>3, <2>4 DEF InStep
<1>19. \A p \in Ports : dsp.adm[p] = 0
  <2>1. \A p \in Ports : Users(Now, p) = {}
    BY <1>12 DEF Users, Now, Counts
  <2>2. \A p \in Ports : dsp.adm[p] = Cardinality(Users(Now, p))
    BY DEF Counts, Balanced, Now
  <2> QED BY <2>1, <2>2, FS_EmptySet
<1>20. Covered(w, {}) /\ Balanced(w)
  BY <1>8, <1>9, <1>11, <1>19, NothingUsed
<1>21. Clocked'
  <2>1. Used(fe') = {}
    BY <1>14, ClosedUsed
  <2> QED BY <1>8, <1>9, <1>20, <2>1, ClocksLeft
<1>22. Counts'
  BY <1>8, <1>9, <1>11, <1>20, CoppsLeft
<1> QED BY <1>15, <1>16, <1>17, <1>18, <1>21, <1>22


-----------------------------------------------------------------------------
(* A step of the power sequence *)

\* The step that c leads to, with a stream to go on with or not.
After(c, waits) == IF next_step[c] # "up" THEN next_step[c]
                   ELSE IF waits THEN "check" ELSE "idle"
\* Whether DAPM has the amplifier powered after it.
UpAfter(c, up) == IF c = "post_pmu" THEN TRUE ELSE IF c = "off" THEN FALSE ELSE up

\* What step c finds in w it leaves for the next one in v.
Handed(c, v, w) ==
    \A up, waits \in BOOLEAN :
        /\ Powered(c, up, TRUE, w.amp) \/ c = "standby" =>
               Powered(After(c, waits), UpAfter(c, up), v.ok, v.amp)
        /\ w.at = 0 /\ Moded(c, up, w.amp) => Moded(After(c, waits), UpAfter(c, up), v.amp)
Stepped(c, v, w) == OnAmp(v, w) /\ Agree(v, w, {"tdm", "slots", "pll"}) /\ Handed(c, v, w)

LEMMA AgreeThese ==
    ASSUME NEW v, NEW w, NEW R, Agree(v, w, R), {"tdm", "slots", "pll"} \subseteq R
    PROVE  Agree(v, w, {"tdm", "slots", "pll"})
BY DEF Agree

LEMMA StandbyStep ==
    ASSUME NEW w \in WorldType, w.ok
    PROVE  Stepped("standby", set_bias_standby(w), w)
<1> DEFINE v == set_bias_standby(w)
<1>1. /\ OnAmp(v, w) /\ Agree(v, w, {"tdm", "slots", "pll", "mode_store"})
      /\ v.ok => v.amp.chip_on
      /\ w.amp.chip_on => v = w
      /\ v.ok /\ ~w.amp.chip_on => v.amp.bst = w.amp.mode_store
  BY Standby
<1> HIDE DEF v
<1>2. w.at = 0 => v.ok
  BY <1>1 DEF OnAmp, Steady
<1>3. \A waits : After("standby", waits) = "clk"
  BY DEF After, next_step
<1>4. \A up : UpAfter("standby", up) = up
  BY DEF UpAfter
<1>5. Handed("standby", v, w)
  <2> SUFFICES ASSUME NEW up \in BOOLEAN
               PROVE  /\ Powered("clk", up, v.ok, v.amp)
                      /\ w.at = 0 /\ Moded("standby", up, w.amp) => Moded("clk", up, v.amp)
    BY <1>3, <1>4 DEF Handed
  <2>1. Powered("clk", up, v.ok, v.amp)
    BY <1>1 DEF Powered, Rest
  <2>2. ASSUME w.at = 0, Moded("standby", up, w.amp)
        PROVE  Moded("clk", up, v.amp)
    <3>1. (IF w.amp.chip_on THEN w.amp.bst ELSE w.amp.mode_store) \in BB
      BY <2>2 DEF Moded
    <3>2. v.amp.chip_on /\ v.amp.bst \in BB
      BY <1>1, <1>2, <2>2, <3>1
    <3> QED BY <3>2 DEF Moded, Rest
  <2> QED BY <2>1, <2>2
<1> QED BY <1>1, <1>5 DEF Stepped, Agree, v

LEMMA ClkStep ==
    ASSUME NEW w \in WorldType, w.ok
    PROVE  Stepped("clk", clk_event_up(w), w)
<1> DEFINE v == clk_event_up(w)
<1>1. OnAmp(v, w) /\ Agree(v, w, Regs \ {"clk"}) /\ (v.ok => v.amp.clk)
  BY ClkEvent
<1> HIDE DEF v
<1>2. /\ v.amp.chip_on = w.amp.chip_on /\ v.amp.bst = w.amp.bst
      /\ v.amp.mode_store = w.amp.mode_store
  BY <1>1 DEF Agree, Regs
<1>3. \A waits : After("clk", waits) = "pre_pmu"
  BY DEF After, next_step
<1>4. \A up : UpAfter("clk", up) = up
  BY DEF UpAfter
<1>5. Handed("clk", v, w)
  <2> SUFFICES ASSUME NEW up \in BOOLEAN
               PROVE  /\ Powered("clk", up, TRUE, w.amp) => Powered("pre_pmu", up, v.ok, v.amp)
                      /\ Moded("clk", up, w.amp) => Moded("pre_pmu", up, v.amp)
    BY <1>3, <1>4 DEF Handed
  <2>1. Powered("clk", up, TRUE, w.amp) => Powered("pre_pmu", up, v.ok, v.amp)
    BY <1>1, <1>2 DEF Powered, Rest
  <2>2. Moded("clk", up, w.amp) => Moded("pre_pmu", up, v.amp)
    BY <1>2 DEF Moded, Rest
  <2> QED BY <2>1, <2>2
<1>6. Agree(v, w, {"tdm", "slots", "pll"})
  BY <1>1, AgreeThese DEF Regs
<1> QED BY <1>1, <1>5, <1>6 DEF Stepped, v

LEMMA PrePmuStep ==
    ASSUME NEW w \in WorldType, w.ok
    PROVE  Stepped("pre_pmu", amp_pre_pmu(w), w)
<1> DEFINE v == amp_pre_pmu(w)
<1>1. /\ OnAmp(v, w)
      /\ Agree(v, w, Regs \ {"mode_store", "bst", "bias", "prot", "chipen"})
      /\ v.ok => /\ v.amp.mode_store = w.amp.bst /\ v.amp.bias /\ v.amp.prot
                 /\ v.amp.chipen = {"TRI"}
  BY PrePmu
<1> HIDE DEF v
<1>2. v.amp.chip_on = w.amp.chip_on /\ v.amp.clk = w.amp.clk /\ (w.at = 0 => v.ok)
  BY <1>1 DEF Agree, Regs, OnAmp, Steady
<1>3. \A waits : After("pre_pmu", waits) = "enable"
  BY DEF After, next_step
<1>4. \A up : UpAfter("pre_pmu", up) = up
  BY DEF UpAfter
<1>5. Handed("pre_pmu", v, w)
  <2> SUFFICES ASSUME NEW up \in BOOLEAN
               PROVE  /\ Powered("pre_pmu", up, TRUE, w.amp) => Powered("enable", up, v.ok, v.amp)
                      /\ w.at = 0 /\ Moded("pre_pmu", up, w.amp) => Moded("enable", up, v.amp)
    BY <1>3, <1>4 DEF Handed
  <2>1. Powered("pre_pmu", up, TRUE, w.amp) => Powered("enable", up, v.ok, v.amp)
    BY <1>1, <1>2 DEF Powered, Rest
  <2>2. ASSUME w.at = 0, Moded("pre_pmu", up, w.amp)
        PROVE  Moded("enable", up, v.amp)
    <3>1. w.amp.chip_on /\ w.amp.bst \in BB
      BY <2>2 DEF Moded, Rest
    <3> QED BY <1>1, <1>2, <2>2, <3>1 DEF Moded, Rest
  <2> QED BY <2>1, <2>2
<1>6. Agree(v, w, {"tdm", "slots", "pll"})
  BY <1>1, AgreeThese DEF Regs
<1> QED BY <1>1, <1>5, <1>6 DEF Stepped, v

LEMMA EnableStep ==
    ASSUME NEW w \in WorldType, w.ok
    PROVE  Stepped("enable", amp_enable(w), w)
<1> DEFINE v == amp_enable(w)
<1>1. /\ OnAmp(v, w) /\ Agree(v, w, Regs \ {"chipen"})
      /\ v.ok => v.amp.chipen = w.amp.chipen \union {"AMP"}
  BY EnableDisable
<1> HIDE DEF v
<1>2. /\ v.amp.chip_on = w.amp.chip_on /\ v.amp.clk = w.amp.clk /\ v.amp.bias = w.amp.bias
      /\ v.amp.prot = w.amp.prot /\ v.amp.mode_store = w.amp.mode_store
  BY <1>1 DEF Agree, Regs
<1>3. \A waits : After("enable", waits) = "post_pmu"
  BY DEF After, next_step
<1>4. \A up : UpAfter("enable", up) = up
  BY DEF UpAfter
<1>5. Handed("enable", v, w)
  <2> SUFFICES ASSUME NEW up \in BOOLEAN
               PROVE  /\ Powered("enable", up, TRUE, w.amp) => Powered("post_pmu", up, v.ok, v.amp)
                      /\ Moded("enable", up, w.amp) => Moded("post_pmu", up, v.amp)
    BY <1>3, <1>4 DEF Handed
  <2>1. ASSUME Powered("enable", up, TRUE, w.amp)
        PROVE  Powered("post_pmu", up, v.ok, v.amp)
    <3>1. /\ w.amp.chip_on /\ w.amp.clk /\ w.amp.bias /\ w.amp.prot /\ w.amp.chipen = {"TRI"}
      BY <2>1 DEF Powered, Rest
    <3>2. v.ok => v.amp.chipen = {"TRI", "AMP"}
      BY <1>1, <3>1
    <3> QED BY <1>2, <3>1, <3>2 DEF Powered, Rest
  <2>2. Moded("enable", up, w.amp) => Moded("post_pmu", up, v.amp)
    BY <1>2 DEF Moded, Rest
  <2> QED BY <2>1, <2>2
<1>6. Agree(v, w, {"tdm", "slots", "pll"})
  BY <1>1, AgreeThese DEF Regs
<1> QED BY <1>1, <1>5, <1>6 DEF Stepped, v

LEMMA PostPmuStep ==
    ASSUME NEW w \in WorldType, w.ok
    PROVE  Stepped("post_pmu", amp_post_pmu(w), w)
<1> DEFINE v == amp_post_pmu(w)
<1>1. /\ OnAmp(v, w) /\ Agree(v, w, Regs \ {"clk", "bst"})
      /\ v.ok => v.amp.clk /\ v.amp.bst = w.amp.mode_store
  BY PostPmu
<1> HIDE DEF v
<1>2. /\ v.amp.chip_on = w.amp.chip_on /\ v.amp.bias = w.amp.bias /\ v.amp.prot = w.amp.prot
      /\ v.amp.chipen = w.amp.chipen /\ v.amp.mode_store = w.amp.mode_store
      /\ w.at = 0 => v.ok
  BY <1>1 DEF Agree, Regs, OnAmp, Steady
<1>3. \A waits : After("post_pmu", waits) \in Rest
  BY DEF After, next_step, Rest
<1>4. \A up : UpAfter("post_pmu", up) = TRUE
  BY DEF UpAfter
<1>5. Handed("post_pmu", v, w)
  <2> SUFFICES ASSUME NEW up \in BOOLEAN, NEW c \in Rest
               PROVE  /\ Powered("post_pmu", up, TRUE, w.amp) => Powered(c, TRUE, v.ok, v.amp)
                      /\ w.at = 0 /\ Moded("post_pmu", up, w.amp) => Moded(c, TRUE, v.amp)
    BY <1>3, <1>4 DEF Handed
  <2>1. ASSUME Powered("post_pmu", up, TRUE, w.amp)
        PROVE  Powered(c, TRUE, v.ok, v.amp)
    <3>1. /\ w.amp.chip_on /\ w.amp.clk /\ w.amp.bias /\ w.amp.prot
          /\ w.amp.chipen = {"TRI", "AMP"}
      BY <2>1 DEF Powered, Rest
    <3> QED BY <1>1, <1>2, <3>1 DEF Powered, Rest
  <2>2. ASSUME w.at = 0, Moded("post_pmu", up, w.amp)
        PROVE  Moded(c, TRUE, v.amp)
    <3>1. w.amp.chip_on /\ w.amp.mode_store \in BB
      BY <2>2 DEF Moded, Rest
    <3> QED BY <1>1, <1>2, <2>2, <3>1 DEF Moded, Rest
  <2> QED BY <2>1, <2>2
<1>6. Agree(v, w, {"tdm", "slots", "pll"})
  BY <1>1, AgreeThese DEF Regs
<1> QED BY <1>1, <1>5, <1>6 DEF Stepped, v

\* On the way down nothing but the mode matters.
LEMMA DownPowered ==
    ASSUME NEW c \in {"disable", "post_pmd", "clk_off", "off"}, NEW up, NEW good, NEW a
    PROVE  Powered(c, up, good, a) /\ Powered("idle", FALSE, good, a)
BY DEF Powered, Rest

LEMMA PrePmdStep ==
    ASSUME NEW w \in WorldType, w.ok
    PROVE  Stepped("pre_pmd", amp_pre_pmd(w), w)
<1> DEFINE v == amp_pre_pmd(w)
<1>1. /\ OnAmp(v, w) /\ Agree(v, w, Regs \ {"mode_store", "bst", "prot"})
      /\ v.ok => v.amp.mode_store = w.amp.bst
  BY PrePmd
<1> HIDE DEF v
<1>2. v.amp.chip_on = w.amp.chip_on /\ (w.at = 0 => v.ok)
  BY <1>1 DEF Agree, Regs, OnAmp, Steady
<1>3. \A waits : After("pre_pmd", waits) = "disable"
  BY DEF After, next_step
<1>4. \A up : UpAfter("pre_pmd", up) = up
  BY DEF UpAfter
<1>5. Handed("pre_pmd", v, w)
  <2> SUFFICES ASSUME NEW up \in BOOLEAN
               PROVE  w.at = 0 /\ Moded("pre_pmd", up, w.amp) => Moded("disable", up, v.amp)
    BY <1>3, <1>4, DownPowered DEF Handed
  <2>1. ASSUME w.at = 0, Moded("pre_pmd", up, w.amp)
        PROVE  Moded("disable", up, v.amp)
    <3>1. w.amp.chip_on /\ w.amp.bst \in BB
      BY <2>1 DEF Moded, Rest
    <3> QED BY <1>1, <1>2, <2>1, <3>1 DEF Moded, Rest
  <2> QED BY <2>1
<1>6. Agree(v, w, {"tdm", "slots", "pll"})
  BY <1>1, AgreeThese DEF Regs
<1> QED BY <1>1, <1>5, <1>6 DEF Stepped, v

LEMMA DisableStep ==
    ASSUME NEW w \in WorldType, w.ok
    PROVE  Stepped("disable", amp_disable(w), w)
<1> DEFINE v == amp_disable(w)
<1>1. OnAmp(v, w) /\ Agree(v, w, Regs \ {"chipen"})
  BY EnableDisable
<1> HIDE DEF v
<1>2. v.amp.chip_on = w.amp.chip_on /\ v.amp.mode_store = w.amp.mode_store
  BY <1>1 DEF Agree, Regs
<1>3. \A waits : After("disable", waits) = "post_pmd"
  BY DEF After, next_step
<1>4. \A up : UpAfter("disable", up) = up
  BY DEF UpAfter
<1>5. Handed("disable", v, w)
  <2> SUFFICES ASSUME NEW up \in BOOLEAN
               PROVE  Moded("disable", up, w.amp) => Moded("post_pmd", up, v.amp)
    BY <1>3, <1>4, DownPowered DEF Handed
  <2> QED BY <1>2 DEF Moded, Rest
<1>6. Agree(v, w, {"tdm", "slots", "pll"})
  BY <1>1, AgreeThese DEF Regs
<1> QED BY <1>1, <1>5, <1>6 DEF Stepped, v

LEMMA PostPmdStep ==
    ASSUME NEW w \in WorldType, w.ok
    PROVE  Stepped("post_pmd", amp_post_pmd(w), w)
<1> DEFINE v == amp_post_pmd(w)
<1>1. /\ OnAmp(v, w) /\ Agree(v, w, Regs \ {"chipen", "bias", "bst"})
      /\ v.ok => v.amp.bst = w.amp.mode_store
  BY PostPmd
<1> HIDE DEF v
<1>2. /\ v.amp.chip_on = w.amp.chip_on /\ v.amp.mode_store = w.amp.mode_store
      /\ w.at = 0 => v.ok
  BY <1>1 DEF Agree, Regs, OnAmp, Steady
<1>3. \A waits : After("post_pmd", waits) = "clk_off"
  BY DEF After, next_step
<1>4. \A up : UpAfter("post_pmd", up) = up
  BY DEF UpAfter
<1>5. Handed("post_pmd", v, w)
  <2> SUFFICES ASSUME NEW up \in BOOLEAN
               PROVE  w.at = 0 /\ Moded("post_pmd", up, w.amp) => Moded("clk_off", up, v.amp)
    BY <1>3, <1>4, DownPowered DEF Handed
  <2>1. ASSUME w.at = 0, Moded("post_pmd", up, w.amp)
        PROVE  Moded("clk_off", up, v.amp)
    <3>1. w.amp.chip_on /\ w.amp.mode_store \in BB
      BY <2>1 DEF Moded, Rest
    <3> QED BY <1>1, <1>2, <2>1, <3>1 DEF Moded, Rest
  <2> QED BY <2>1
<1>6. Agree(v, w, {"tdm", "slots", "pll"})
  BY <1>1, AgreeThese DEF Regs
<1> QED BY <1>1, <1>5, <1>6 DEF Stepped, v

LEMMA ClkOffStep ==
    ASSUME NEW w \in WorldType, w.ok
    PROVE  Stepped("clk_off", clk_event_down(w), w)
<1> DEFINE v == clk_event_down(w)
<1>1. OnAmp(v, w) /\ Agree(v, w, Regs \ {"clk"})
  BY ClkEvent
<1> HIDE DEF v
<1>2. /\ v.amp.chip_on = w.amp.chip_on /\ v.amp.mode_store = w.amp.mode_store
      /\ v.amp.bst = w.amp.bst
  BY <1>1 DEF Agree, Regs
<1>3. \A waits : After("clk_off", waits) = "off"
  BY DEF After, next_step
<1>4. \A up : UpAfter("clk_off", up) = up
  BY DEF UpAfter
<1>5. Handed("clk_off", v, w)
  <2> SUFFICES ASSUME NEW up \in BOOLEAN
               PROVE  Moded("clk_off", up, w.amp) => Moded("off", up, v.amp)
    BY <1>3, <1>4, DownPowered DEF Handed
  <2> QED BY <1>2 DEF Moded, Rest
<1>6. Agree(v, w, {"tdm", "slots", "pll"})
  BY <1>1, AgreeThese DEF Regs
<1> QED BY <1>1, <1>5, <1>6 DEF Stepped, v

LEMMA OffStep ==
    ASSUME NEW w \in WorldType, w.ok
    PROVE  Stepped("off", set_bias_off([set_bias_standby(w) EXCEPT !.ok = TRUE]), w)
<1> DEFINE a == set_bias_standby(w)
           b == [a EXCEPT !.ok = TRUE]
           v == set_bias_off(b)
<1>1. /\ OnAmp(a, w) /\ Agree(a, w, {"tdm", "slots", "pll", "mode_store"})
      /\ a.ok => a.amp.chip_on
      /\ w.amp.chip_on => a = w
      /\ a.ok /\ ~w.amp.chip_on => a.amp.bst = w.amp.mode_store
  BY Standby
<1> HIDE DEF a
<1>2. a \in WorldType
  BY <1>1 DEF OnAmp
<1>3. /\ b \in WorldType /\ b.amp = a.amp /\ b.ok = TRUE /\ b.at = a.at /\ b.card = a.card
      /\ b.dsp = a.dsp /\ b.late = a.late /\ b.how = a.how
  BY <1>2 DEF WorldType
<1> HIDE DEF b
<1>4. /\ OnAmp(v, b) /\ Agree(v, b, {"tdm", "slots", "pll"}) /\ ~v.amp.chip_on
      /\ v.ok /\ b.amp.chip_on => v.amp.mode_store = b.amp.bst
  BY <1>3, Off
<1> HIDE DEF v
<1>5. OnAmp(v, w)
  <2>1. SameCard(v, w)
    BY <1>1, <1>3, <1>4 DEF OnAmp, SameCard
  <2>2. Steady(v, w)
    BY <1>1, <1>3, <1>4 DEF OnAmp, Steady
  <2> QED BY <1>4, <2>1, <2>2 DEF OnAmp
<1>6. Agree(v, w, {"tdm", "slots", "pll"})
  BY <1>1, <1>3, <1>4 DEF Agree
<1>7. w.at = 0 => v.ok /\ a.ok
  BY <1>1, <1>5 DEF OnAmp, Steady
<1>8. \A waits : After("off", waits) = "idle"
  BY DEF After, next_step
<1>9. \A up : UpAfter("off", up) = FALSE
  BY DEF UpAfter
<1>10. Handed("off", v, w)
  <2> SUFFICES ASSUME NEW up \in BOOLEAN
               PROVE  w.at = 0 /\ Moded("off", up, w.amp) => Moded("idle", FALSE, v.amp)
    BY <1>8, <1>9, DownPowered DEF Handed
  <2>1. ASSUME w.at = 0, Moded("off", up, w.amp)
        PROVE  Moded("idle", FALSE, v.amp)
    <3>1. (IF w.amp.chip_on THEN w.amp.bst ELSE w.amp.mode_store) \in BB
      BY <2>1 DEF Moded
    <3>2. a.amp.chip_on /\ a.amp.bst \in BB
      BY <1>1, <1>7, <2>1, <3>1
    <3>3. v.amp.mode_store \in BB
      BY <1>3, <1>4, <1>7, <2>1, <3>2
    <3> QED BY <1>4, <3>3 DEF Moded, Rest
  <2> QED BY <2>1
<1> QED BY <1>5, <1>6, <1>10 DEF Stepped, v, b, a


LEMMA PowerStep ==
    ASSUME NEW w \in WorldType, w.ok, pc \in DOMAIN next_step
    PROVE  Stepped(pc, power_step(w), w)
<1>1. pc \in {"standby", "clk", "pre_pmu", "enable", "post_pmu", "pre_pmd", "disable",
              "post_pmd", "clk_off", "off"}
  BY DEF next_step
<1>2. CASE pc = "standby"
  BY <1>2, StandbyStep DEF power_step
<1>3. CASE pc = "clk"
  BY <1>3, ClkStep DEF power_step
<1>4. CASE pc = "pre_pmu"
  BY <1>4, PrePmuStep DEF power_step
<1>5. CASE pc = "enable"
  BY <1>5, EnableStep DEF power_step
<1>6. CASE pc = "post_pmu"
  BY <1>6, PostPmuStep DEF power_step
<1>7. CASE pc = "pre_pmd"
  BY <1>7, PrePmdStep DEF power_step
<1>8. CASE pc = "disable"
  BY <1>8, DisableStep DEF power_step
<1>9. CASE pc = "post_pmd"
  BY <1>9, PostPmdStep DEF power_step
<1>10. CASE pc = "clk_off"
  BY <1>10, ClkOffStep DEF power_step
<1>11. CASE pc = "off"
  BY <1>11, OffStep DEF power_step
<1> QED BY <1>1, <1>2, <1>3, <1>4, <1>5, <1>6, <1>7, <1>8, <1>9, <1>10, <1>11

LEMMA DapmStep ==
    ASSUME IndInv, dapm_step
    PROVE  IndInv'
<1> USE DEF IndInv
<1>1. PICK x \in Worlds :
        /\ pc \in DOMAIN next_step /\ Count(x)
        /\ LET w == power_step(x)
           IN  Keep(w) /\ clean' = (w.ok /\ (pc = "standby" \/ clean))
        /\ pc' = IF next_step[pc] # "up" THEN next_step[pc]
                 ELSE IF stream = "none" THEN "idle" ELSE "check"
        /\ dapm' = IF pc = "post_pmu" THEN TRUE ELSE IF pc = "off" THEN FALSE ELSE dapm
        /\ UNCHANGED <<fe, prepared, put, stream>>
  BY DEF dapm_step
<1> DEFINE w == power_step(x)
           waits == stream # "none"
<1>2. /\ x \in WorldType /\ x.card = card /\ x.dsp = dsp /\ x.amp = amp /\ x.late = late /\ x.ok
      /\ faults' \in Nat
      /\ faults' = 0 => faults = 0 /\ x.at = 0
      /\ faults' <= 1 => faults <= 1
  BY <1>1, WorldsMet
<1>3. Stepped(pc, w, x)
  BY <1>1, <1>2, PowerStep
<1>4. /\ Keep(w) /\ clean' = (w.ok /\ (pc = "standby" \/ clean))
      /\ pc' = After(pc, waits) /\ dapm' = UpAfter(pc, dapm)
      /\ fe' = fe /\ prepared' = prepared /\ put' = put /\ stream' = stream
  BY <1>1 DEF After, UpAfter
<1> HIDE DEF w
<1>5. OnAmp(w, x) /\ Agree(w, x, {"tdm", "slots", "pll"})
  BY <1>3 DEF Stepped
<1>6. /\ amp' \in AmpType /\ amp' = w.amp /\ card' = card /\ dsp' = dsp /\ late' = late
  BY <1>2, <1>4, <1>5, KeepType DEF OnAmp, SameCard
<1>7. pc \in {"standby", "clk", "pre_pmu", "enable", "post_pmu", "pre_pmd", "disable",
              "post_pmd", "clk_off", "off"}
  BY <1>1 DEF next_step
<1>8. /\ pc' \in Steps
      /\ pc' \in Downs => pc \in Downs \/ stream = "none"
      /\ pc' \in {"check", "open"} => stream # "none"
      /\ dapm' => dapm \/ pc \notin Rest
      /\ pc \notin Rest
  BY <1>4, <1>7 DEF After, UpAfter, next_step, Steps, Downs, Rest
<1>9. w.ok \in BOOLEAN /\ dapm' \in BOOLEAN
  BY <1>4, <1>5 DEF OnAmp, WorldType, UpAfter, TypeOK
<1>10. TypeOK'
  BY <1>2, <1>4, <1>6, <1>8, <1>9 DEF TypeOK
<1>11. Punctual' /\ Slotted'
  BY <1>2, <1>4, <1>6 DEF Punctual, Slotted
<1>12. Shape'
  <2>1. card.ports # {}
    BY <1>7 DEF Shape, bound
  <2>2. /\ \A s \in Streams : fe[s].stage = "closed" => fe[s].be = {}
        /\ pc \in Downs => stream = "none"
        /\ stream # "none" => stream \in Streams /\ fe[stream].stage = "params"
    BY DEF Shape
  <2> QED BY <1>4, <1>6, <1>8, <2>1, <2>2 DEF Shape, bound
<1>13. Divided'
  <2>1. amp'.tdm = amp.tdm /\ amp'.slots = amp.slots /\ amp'.pll = amp.pll
    BY <1>2, <1>5, <1>6 DEF Agree
  <2> QED BY <1>4, <1>8, <2>1 DEF Divided, Tuned
<1>14. InStep'
  <2>1. /\ Powered(pc, dapm, TRUE, amp) \/ pc = "standby" => Powered(pc', dapm', w.ok, amp')
        /\ x.at = 0 /\ Moded(pc, dapm, amp) => Moded(pc', dapm', amp')
    <3>1. dapm \in BOOLEAN /\ waits \in BOOLEAN
      BY DEF TypeOK
    <3> HIDE DEF waits
    <3> QED BY <1>2, <1>3, <1>4, <1>6, <3>1 DEF Stepped, Handed
  <2>2. Powered(pc', dapm', clean', amp')
    <3>1. CASE clean'
      <4>1. w.ok /\ (pc = "standby" \/ clean)
        BY <1>4, <3>1
      <4>2. clean => Powered(pc, dapm, TRUE, amp)
        BY DEF InStep, Powered
      <4>3. Powered(pc', dapm', w.ok, amp')
        BY <2>1, <4>1, <4>2
      <4> QED BY <4>1, <4>3 DEF Powered
    <3>2. CASE ~clean'
      BY <3>2 DEF Powered
    <3> QED BY <3>1, <3>2
  <2>3. faults' = 0 /\ bound' => Moded(pc', dapm', amp')
    BY <1>2, <1>6, <2>1 DEF InStep, bound
  <2> QED BY <2>2, <2>3 DEF InStep
<1>15. Clocked' /\ Counts'
  BY <1>2, <1>4, <1>6 DEF Clocked, Counts, Now
<1> QED BY <1>10, <1>11, <1>12, <1>13, <1>14, <1>15

-----------------------------------------------------------------------------
(* The theorems                                                            *)

LEMMA InitInv == Init => IndInv
<1> SUFFICES ASSUME Init
             PROVE  IndInv
  OBVIOUS
<1>1. /\ card = Card0 /\ amp = Amp0 /\ late = {} /\ pc = "idle" /\ put = None
      /\ dsp = [clk |-> {}, running |-> {}, adm |-> [p \in Ports |-> 0]]
      /\ fe = [s \in Streams |-> Closed] /\ prepared = {} /\ stream = "none" /\ dapm = FALSE
      /\ clean = TRUE /\ faults = 0
  BY DEF Init
<1>2. Card0 \in CardType
  BY DEF Card0, CardType
<1>3. Amp0 \in AmpType
  BY DEF Amp0, AmpType
<1>4. dsp \in DspType
  BY <1>1 DEF DspType
<1>5. /\ fe \in [Streams -> FeType]
      /\ \A s \in Streams : fe[s].stage = "closed" /\ fe[s].be = {} /\ fe[s].route = {}
  BY <1>1 DEF FeType, Closed, Stages
<1>6. TypeOK
  BY <1>1, <1>2, <1>3, <1>4, <1>5 DEF TypeOK, Steps
<1>7. Shape /\ Punctual /\ Slotted
  BY <1>1, <1>5 DEF Shape, Downs, Punctual, Slotted, WithParams
<1>8. Divided
  BY <1>1, <1>5 DEF Divided, Tuned, Amp0, WithParams, Rest
<1>9. InStep
  <2>1. Powered("idle", FALSE, TRUE, amp)
    BY DEF Powered
  <2>2. ~bound
    BY <1>1 DEF bound, Card0
  <2> QED BY <1>1, <2>1, <2>2 DEF InStep
<1>10. Covered(Now, {}) /\ Balanced(Now)
  BY <1>1, NothingUsed DEF Now, Card0
<1>11. Clocked
  <2>1. Used(fe) = {}
    BY <1>5, ClosedUsed
  <2> QED BY <1>10, <2>1 DEF Clocked
<1>12. Counts
  BY <1>1, <1>10 DEF Counts, Card0
<1> QED BY <1>6, <1>7, <1>8, <1>9, <1>11, <1>12 DEF IndInv

LEMMA StepInv == IndInv /\ [Next]_vars => IndInv'
<1> SUFFICES ASSUME IndInv, [Next]_vars
             PROVE  IndInv'
  OBVIOUS
<1>1. ASSUME NEW high \in BOOLEAN, dai_probe(high)
      PROVE  IndInv'
  BY <1>1, ProbeStep
<1>2. CASE dai_remove
  BY <1>2, RemoveStep
<1>3. CASE q6afe_callback
  BY <1>3, CallbackStep
<1>4. ASSUME NEW s \in Streams, open(s)
      PROVE  IndInv'
  BY <1>4, OpenStep
<1>5. ASSUME NEW s \in Streams, set_params(s)
      PROVE  IndInv'
  BY <1>5, SetParamsStep
<1>6. ASSUME NEW s \in Streams, hw_free(s)
      PROVE  IndInv'
  BY <1>6, HwFreeStep
<1>7. ASSUME NEW s \in Streams, prepare(s)
      PROVE  IndInv'
  BY <1>7, PrepareStep
<1>8. ASSUME NEW s \in Streams, close(s)
      PROVE  IndInv'
  BY <1>8, CloseStep
<1>9. CASE check_port_map
  BY <1>9, CheckStep
<1>10. CASE q6routing_stream_open
  BY <1>10, StreamOpenStep
<1>11. ASSUME NEW s \in Streams, NEW p \in Ports, put_audio_mixer(s, p)
       PROVE  IndInv'
  BY <1>11, PutMixerStep
<1>12. CASE mixer_update_power
  BY <1>12, MixerStep
<1>13. CASE set_volume
  BY <1>13, SetVolumeStep
<1>14. CASE dapm_step
  BY <1>14, DapmStep
<1>15. CASE pmdown
  BY <1>15, PmdownStep
<1>16. CASE UNCHANGED vars
  BY <1>16, StutterStep
<1> QED BY <1>1, <1>2, <1>3, <1>4, <1>5, <1>6, <1>7, <1>8, <1>9, <1>10, <1>11, <1>12, <1>13,
           <1>14, <1>15, <1>16 DEF Next

\* The state has its type and the parts of the invariant hold, for any streams,
\* ports and interfaces, and any number of streams on a port (the operations of apq8096.c, q6afe-dai.c, q6afe.c,
\* q6routing.c and rt5508.c).
THEOREM AudioInvariant == Spec => []IndInv
<1>1. Init => IndInv
  BY InitInv
<1>2. IndInv /\ [Next]_vars => IndInv'
  BY StepInv
<1> QED BY <1>1, <1>2, PTL DEF Spec

\* While at most one command or transfer has failed, a port that the driver has
\* started was configured and the bit clock of its interface runs, whoever shares
\* the interface or the port (startup() and shutdown() of apq8096.c).  A second failure may meet the late
\* answer to the first: it is taken for the command's own.
THEOREM ClockCoversAlways == Spec => [](faults <= 1 => ClockCovers)
<1>1. IndInv => (faults <= 1 => ClockCovers)
  <2> SUFFICES ASSUME Covered(Now, Used(fe))
               PROVE  ClockCovers
    BY DEF IndInv, Clocked
  <2> QED BY DEF ClockCovers, Covered, Now
<1> QED BY <1>1, AudioInvariant, PTL

\* The DSP holds one reference to a COPP for each stream that opened it, of any
\* number that share its port, and none for a closed stream, whatever fails and however mixers and restarts
\* interleave (q6routing_stream_open() and q6routing_stream_close()).
THEOREM CoppsBalancedAlways == Spec => []CoppsBalanced
<1>1. IndInv => CoppsBalanced
  <2> SUFFICES ASSUME Counts
               PROVE  CoppsBalanced
    BY DEF IndInv
  <2>1. \A p \in Ports : Users(Now, p) = {s \in Streams : p \in card.copps[s]}
    BY DEF Users, Now
  <2>2. \A p \in Ports : dsp.adm[p] = Cardinality(Users(Now, p))
    BY DEF Counts, Balanced, Now
  <2> QED BY <2>1, <2>2 DEF Counts, CoppsBalanced
<1> QED BY <1>1, AudioInvariant, PTL

\* After a power-up without a failed transfer the amplifier plays, with the divisor
\* for the bit clock of its port, although a volume control may wake it and put it
\* to sleep at any point (rt5508_set_bias_level() to the speaker's POST_PMU).
THEOREM PlayReadyAlways == Spec => []PlayReady
<1>1. IndInv => PlayReady
  <2> SUFFICES ASSUME IndInv, pc = "idle", dapm, clean
               PROVE  /\ amp.chipen = {"TRI", "AMP"} /\ amp.bias /\ amp.clk /\ amp.prot
                      /\ amp.slots /\ amp.pll * (BCLK \div 1000) = 524288 * 3072
    BY DEF PlayReady
  <2>1. amp.chipen = {"TRI", "AMP"} /\ amp.bias /\ amp.clk /\ amp.prot
    BY DEF IndInv, InStep, Powered, Rest
  <2>2. amp.slots /\ amp.pll = Divisor
    BY DEF IndInv, Divided, Tuned
  <2>3. amp.pll * (BCLK \div 1000) = 524288 * 3072
    <3>1. BCLK \div 1000 = 3072
      BY SMT DEF BCLK, TDM_SLOTS, SlotWidth, Rate
    <3>2. amp.pll = 524288
      BY <2>2, DivisorValue, SMT
    <3> QED BY <3>1, <3>2, SMT
  <2> QED BY <2>1, <2>2, <2>3
<1> QED BY <1>1, AudioInvariant, PTL

\* Without a failed transfer the boost mode that the initialisation chose survives
\* every power sequence and control (mode_store and BST_MODE in rt5508.c).
THEOREM ModeKeptAlways == Spec => []ModeKept
<1>1. IndInv => ModeKept
  BY DEF IndInv, InStep, Moded, ModeKept, BB
<1> QED BY <1>1, AudioInvariant, PTL
==============================================================================
