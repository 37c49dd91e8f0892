----------------------------- MODULE Mdp5Proofs -----------------------------
(***************************************************************************)
(* Proofs about the MDP5 driver on two bonded links: both halves of the    *)
(* panel show the same frame, through a pair of mixers that is set up, and *)
(* the links are never cut under a frame that is in time, for every number *)
(* of commits, late frames and clock failures.  The invariant follows a    *)
(* commit: what it is checked against (Checked), how far its tail is       *)
(* (Applied), what has power (Powered), what both CTLs were told (Sent)    *)
(* and when a frame is under way (Timely).                                 *)
(***************************************************************************)
EXTENDS Mdp5, TLAPS

-----------------------------------------------------------------------------
(* The invariant *)

Bits == {"lm", "ctl", "intf"}
TailPc == {"idle", "deps", "before", "stage", "flush", "pending", "enable", "wait"}

StateType == [enable : BOOLEAN, active : BOOLEAN, frame : Nat, event : Nat, ctl : BOOLEAN,
              defer : BOOLEAN, mixer : {Free, 0, 2}, r_mixer : {Free, 1, 5}]
OwnerType == [Mixers -> Crtcs \cup {Free}]
CrtcType  == [enabled : BOOLEAN, event : Nat, vblank : BOOLEAN, done : BOOLEAN]
EncType   == [enabled : BOOLEAN, encoder_enabled : BOOLEAN, flush_mask : SUBSET Bits,
              trigger : BOOLEAN]
Shot      == [lm : Mixers \cup {Free}, frame : Nat]
HwType    == [shadow : [Sides -> Shot], flush : [Sides -> SUBSET Bits],
              active : [Sides -> Shot], op : BOOLEAN, size : SUBSET Mixers,
              tear : SUBSET Mixers, busy : Nat]
UserType  == [new : [Crtcs -> StateType], owner : OwnerType, crtcs : SUBSET Crtcs,
              modeset : BOOLEAN]
TailType  == [pc : TailPc, crtcs : SUBSET Crtcs, left : SUBSET Crtcs, modeset : BOOLEAN,
              old : Crtcs \cup {Free}, starts : Nat]

Types ==
    /\ state \in [Crtcs -> StateType] /\ owner \in OwnerType /\ crtc \in [Crtcs -> CrtcType]
    /\ enc \in EncType /\ hw \in HwType /\ user \in UserType /\ tail \in TailType
    /\ commits \in Nat /\ late \in Nat

\* A pair of mixers has the owner whose state names it.
Paired(st, own) ==
    /\ \A c \in Crtcs :
          st[c].r_mixer = IF st[c].mixer = Free THEN Free ELSE right_pair[st[c].mixer]
    /\ \A m \in {0, 2} : own[right_pair[m]] = own[m]
    /\ \A m \in {0, 2} : \A c \in Crtcs : own[m] = c <=> st[c].mixer = m

\* The panel is on one CRTC at most, which has mixers.
OnePanel(st) ==
    /\ \A c \in Crtcs : /\ st[c].active => st[c].enable
                        /\ st[c].enable => st[c].mixer # Free
    /\ ~(st[0].enable /\ st[1].enable)

Panel(st, own) == Paired(st, own) /\ OnePanel(st)

\* A commit of these CRTCs, with or without a modeset, to state st; the tail takes the
\* CRTC that has the panel last, unless that moved down.
Scope(st, crtcs, modeset) ==
    /\ \A c \in crtcs : st[c].mixer # Free
    /\ \A a \in Crtcs : st[a].enable => a \in crtcs /\ (~MoveDown => \A e \in crtcs : e <= a)
    /\ ~modeset => \E c \in Crtcs : crtcs = {c} /\ st[c].enable

\* The state that the user's commit is going to swap in; it takes no mixers away.
swapped == [c \in Crtcs |-> IF c \in user.crtcs THEN user.new[c] ELSE state[c]]

Checked ==
    user # NoCommit =>
        /\ Panel(swapped, user.owner) /\ Scope(swapped, user.crtcs, user.modeset)
        /\ \A c \in Crtcs : state[c].mixer # Free => swapped[c].mixer = state[c].mixer
        /\ ~user.modeset => \A c \in Crtcs : state[c].enable => swapped[c].enable

\* The tail of a commit: a modeset switches off first what was on.
Dark == tail.modeset /\ tail.pc \in {"stage", "flush", "pending", "enable"}
Applied ==
    /\ tail.pc # "idle" =>
         /\ Scope(state, tail.crtcs, tail.modeset)
         /\ tail.pc \in {"deps", "before"} => \A c \in Crtcs : crtc[c].enabled <=> c = tail.old
    /\ tail.left \subseteq tail.crtcs
    /\ tail.pc \in {"flush", "pending"} => tail.left # {}
    /\ ~MoveDown /\ tail.pc \in {"stage", "flush", "pending"} /\ tail.left # {} =>
         \A a \in Crtcs : state[a].enable => a \in tail.left
    /\ tail.pc = "flush" => enc.trigger
    /\ Dark => ~enc.enabled /\ (tail.pc # "enable" => \A c \in Crtcs : ~crtc[c].enabled)
    /\ tail.pc = "enable" => tail.modeset
    /\ ~(crtc[0].enabled /\ crtc[1].enabled)
    /\ \A c \in Crtcs : crtc[c].enabled =>
         \/ state[c].enable
         \/ tail.modeset /\ tail.pc \in {"deps", "before"} /\ state[c].mixer # Free

Lms(c) == {state[c].mixer, state[c].r_mixer}

Powered ==
    /\ enc.encoder_enabled = enc.enabled
    /\ hw.tear # {} => enc.enabled \/ tail.pc = "enable"
    /\ enc.enabled \/ tail.pc = "enable" =>
         \E c \in Crtcs : crtc[c].enabled /\ hw.tear = Lms(c) /\ hw.op /\ Lms(c) \subseteq hw.size

\* Both halves get the same.
Halves(shot) ==
    /\ shot["left"].frame = shot["right"].frame
    /\ shot["left"].lm = Free \/ (shot["left"].lm \in {0, 2}
                                  /\ shot["right"].lm = right_pair[shot["left"].lm])

\* The tail has flushed CRTC a.
Flushed(a) ==
    a \notin tail.left \/ (tail.pc = "pending" /\ flushing = a) \/ tail.pc = "enable"

\* The frame of CRTC a is staged, and what is flushed with the next START has it.
Staged(a) ==
    /\ hw.shadow["left"].lm = state[a].mixer
    /\ {"lm", "ctl"} \subseteq enc.flush_mask \cup hw.flush["left"]

Sent ==
    /\ hw.flush["left"] = hw.flush["right"] /\ Halves(hw.shadow) /\ Halves(hw.active)
    /\ ~MoveDown /\ hw.busy > 0 =>
         /\ hw.active["left"].lm # Free /\ hw.op
         /\ {hw.active["left"].lm, hw.active["right"].lm} \subseteq hw.size
    /\ tail.pc = "flush" /\ state[flushing].enable =>
         hw.shadow["left"].lm = state[flushing].mixer
    /\ ~MoveDown /\ Dark => \A a \in Crtcs : state[a].enable /\ Flushed(a) => Staged(a)

Timely ==
    late = 0 =>
      /\ hw.busy \in {0, 1}
      /\ hw.busy > 0 =>
           /\ enc.enabled
           /\ tail.pc = "pending" \/ (tail.pc = "stage" /\ tail.left = {}) \/ tail.pc = "wait"
           /\ \A c \in Crtcs : crtc[c].enabled =>
                ~crtc[c].done /\ (tail.pc = "wait" => c \in tail.left)
      /\ tail.pc = "flush" => ~crtc[flushing].done
      /\ Dark => \A a \in Crtcs : state[a].enable /\ Flushed(a) => ~crtc[a].done

IInv ==
    Types /\ Panel(state, owner) /\ Checked /\ Applied /\ Powered /\ Sent /\ Timely

-----------------------------------------------------------------------------
(* Choices *)

\* The CRTC whose state has the connector.
LEMMA Attached ==
    ASSUME NEW st \in [Crtcs -> StateType], OnePanel(st)
    PROVE  attached(st) \in Crtcs \cup {Free}
           /\ \A c \in Crtcs : st[c].enable <=> c = attached(st)
<1>1. CASE \E c \in Crtcs : st[c].enable
  <2>1. PICK a \in Crtcs : st[a].enable
    BY <1>1
  <2>2. attached(st) = CHOOSE c \in Crtcs : st[c].enable
    BY <1>1 DEF attached
  <2>3. attached(st) \in Crtcs /\ st[attached(st)].enable
    BY <2>1, <2>2
  <2> QED BY <2>3 DEF OnePanel, Crtcs
<1>2. CASE ~\E c \in Crtcs : st[c].enable
  BY <1>2 DEF attached, Crtcs, Free
<1> QED BY <1>1, <1>2

\* The tail flushes the CRTC of lowest index.
LEMMA Flushing ==
    ASSUME tail \in TailType, tail.left # {}
    PROVE  flushing \in tail.left /\ flushing \in Crtcs /\ \A d \in tail.left : flushing <= d
<1>1. tail.left \subseteq {0, 1}
  BY DEF TailType, Crtcs
<1>2. \E c \in tail.left : \A d \in tail.left : c <= d
  <2>1. CASE 0 \in tail.left
    BY <1>1, <2>1
  <2>2. CASE 0 \notin tail.left
    BY <1>1, <2>2
  <2> QED BY <2>1, <2>2
<1>3. flushing \in tail.left /\ \A d \in tail.left : flushing <= d
  BY <1>2 DEF flushing
<1> QED BY <1>1, <1>3 DEF Crtcs

\* A CRTC without mixers gets a pair that nobody owns.
LEMMA Assign ==
    ASSUME NEW st \in [Crtcs -> StateType], NEW own \in OwnerType, Paired(st, own),
           NEW d \in Crtcs, st[d].mixer = Free
    PROVE  \E m \in {0, 2} : own[m] = Free /\ mixer_assign(own, d) = <<m, right_pair[m]>>
<1>1. right_pair[0] = 1 /\ right_pair[2] = 5 /\ DOMAIN right_pair = {0, 2}
  BY DEF right_pair
<1>2. own[0] \in {0, 1, Free} /\ own[2] \in {0, 1, Free} /\ own[0] # d /\ own[2] # d
  BY DEF OwnerType, Mixers, Crtcs, Paired, Free
<1>3. own[0] = Free \/ own[2] = Free
  <2>1. SUFFICES ASSUME own[0] # Free, own[2] # Free  PROVE FALSE
    OBVIOUS
  <2>2. own[0] = own[2] /\ own[0] \in Crtcs
    BY <1>2, <2>1 DEF Crtcs
  <2>3. st[own[0]].mixer = 0 /\ st[own[0]].mixer = 2
    BY <2>2 DEF Paired
  <2> QED BY <2>3
<1>4. \A m \in {0, 2} : m \in candidates(own, d) <=> own[m] = Free
  BY <1>1, <1>2 DEF candidates, Paired
<1>5. candidates(own, d) \subseteq {0, 2}
  BY <1>1 DEF candidates
<1>6. \E m \in candidates(own, d) : \A n \in candidates(own, d) : m <= n
  <2>1. CASE 0 \in candidates(own, d)
    BY <1>5, <2>1
  <2>2. CASE 0 \notin candidates(own, d)
    BY <1>3, <1>4, <1>5, <2>2
  <2> QED BY <2>1, <2>2
<1> DEFINE left == CHOOSE m \in candidates(own, d) : \A n \in candidates(own, d) : m <= n
<1>7. left \in candidates(own, d)
  BY <1>6
<1>8. mixer_assign(own, d) = <<left, right_pair[left]>>
  BY DEF mixer_assign
<1> HIDE DEF left
<1> QED BY <1>4, <1>5, <1>7, <1>8

\* mdp5_crtc_atomic_check() of d in state st: it has a pair then, what else its state
\* says is kept, and so are the mixers it had.
LEMMA Pipeline ==
    ASSUME NEW st \in [Crtcs -> StateType], NEW own \in OwnerType, Paired(st, own),
           NEW d \in Crtcs, st[d].frame # 0
    PROVE  LET r == crtc_check(st[d], own, d)
           IN  /\ r[1] \in StateType /\ r[2] \in OwnerType
               /\ Paired([st EXCEPT ![d] = r[1]], r[2])
               /\ r[1].mixer # Free /\ (st[d].mixer # Free => r[1].mixer = st[d].mixer)
               /\ r[1].enable = st[d].enable /\ r[1].active = st[d].active
<1>1. CASE st[d].mixer # Free
  <2>1. crtc_check(st[d], own, d) = <<st[d], own>>
    BY <1>1 DEF crtc_check, setup_pipeline
  <2>2. crtc_check(st[d], own, d)[1] = st[d] /\ crtc_check(st[d], own, d)[2] = own
    BY <2>1
  <2>3. [st EXCEPT ![d] = st[d]] = st /\ st[d] \in StateType
    OBVIOUS
  <2>4. Paired([st EXCEPT ![d] = st[d]], own)
    BY <2>3
  <2> HIDE DEF crtc_check
  <2> QED BY <1>1, <2>2, <2>3, <2>4
<1>2. CASE st[d].mixer = Free
  <2>1. PICK m \in {0, 2} : own[m] = Free /\ mixer_assign(own, d) = <<m, right_pair[m]>>
    BY <1>2, Assign
  <2> DEFINE new == [st[d] EXCEPT !.mixer = m, !.r_mixer = right_pair[m]]
             got == [own EXCEPT ![m] = d, ![right_pair[m]] = d]
  <2>2. crtc_check(st[d], own, d) = <<new, got>>
    BY <1>2, <2>1 DEF crtc_check, setup_pipeline
  <2>3. right_pair[0] = 1 /\ right_pair[2] = 5
    BY DEF right_pair
  <2>4. /\ new \in StateType /\ new.mixer = m /\ new.r_mixer = right_pair[m]
        /\ new.enable = st[d].enable /\ new.active = st[d].active
    BY <2>1, <2>3 DEF StateType
  <2>5. /\ got \in OwnerType /\ got[m] = d /\ got[right_pair[m]] = d
        /\ \A n \in {0, 2} \ {m} : got[n] = own[n] /\ got[right_pair[n]] = own[right_pair[n]]
    BY <2>1, <2>3 DEF OwnerType, Mixers
  <2> HIDE DEF new, got
  <2>6. Paired([st EXCEPT ![d] = new], got)
    <3>1. own[m] = own[right_pair[m]] /\ \A n \in {0, 2} : own[right_pair[n]] = own[n]
      BY <2>1 DEF Paired
    <3>2. \A c \in Crtcs \ {d} : [st EXCEPT ![d] = new][c] = st[c]
      OBVIOUS
    <3>3. [st EXCEPT ![d] = new][d] = new
      OBVIOUS
    <3>4. \A c \in Crtcs \ {d} : st[c].mixer # m
      BY <2>1 DEF Paired, Crtcs, Free
    <3>5. \A n \in {0, 2} \ {m} : own[n] # d
      BY <1>2 DEF Paired, Free
    <3>6. \A n \in {0, 2} : got[right_pair[n]] = got[n]
      BY <2>1, <2>5, <3>1
    <3>7. \A n \in {0, 2} : \A c \in Crtcs : got[n] = c <=> [st EXCEPT ![d] = new][c].mixer = n
      <4> SUFFICES ASSUME NEW n \in {0, 2}, NEW c \in Crtcs
                   PROVE  got[n] = c <=> [st EXCEPT ![d] = new][c].mixer = n
        OBVIOUS
      <4>1. CASE n = m
        BY <2>4, <2>5, <3>2, <3>3, <3>4, <4>1
      <4>2. CASE n # m
        BY <2>4, <2>5, <3>2, <3>3, <3>5, <4>2 DEF Paired
      <4> QED BY <4>1, <4>2
    <3>8. \A c \in Crtcs : LET s == [st EXCEPT ![d] = new][c]
                            IN  s.r_mixer = IF s.mixer = Free THEN Free ELSE right_pair[s.mixer]
      BY <2>1, <2>4, <3>2, <3>3 DEF Paired, Free
    <3> QED BY <3>6, <3>7, <3>8 DEF Paired
  <2>7. m # Free
    BY DEF Free
  <2> QED BY <1>2, <2>2, <2>4, <2>5, <2>6, <2>7
<1> QED BY <1>1, <1>2

-----------------------------------------------------------------------------
(* A commit is checked *)

\* Pairs of mixers are what the states say of them.
LEMMA PairedSame ==
    ASSUME NEW st, NEW new, NEW own, Paired(st, own),
           \A c \in Crtcs : new[c].mixer = st[c].mixer /\ new[c].r_mixer = st[c].r_mixer
    PROVE  Paired(new, own)
  BY DEF Paired

\* mdp5_encoder_atomic_check(), mdp5_crtc_atomic_check() and the core's own part: what
\* the commit is going to swap in is a panel on one CRTC, with a pair of mixers that
\* nobody else has.
LEMMA CheckStep ==
    ASSUME IInv, NEW d \in Crtcs \cup {Free}, NEW active \in BOOLEAN,
           NEW mode \in BOOLEAN, check(d, active, mode)
    PROVE  user' \in UserType /\ Checked'
<1> DEFINE c     == attached(state)
           needs == d # c \/ (d # Free /\ active # state[d].active) \/ mode
           n     == commits + 1
           Told(st, c1) == IF st.active \/ state[c1].active THEN [st EXCEPT !.event = n] ELSE st
           lost  == [State0 EXCEPT !.ctl = state[c].ctl, !.defer = state[c].defer,
                                   !.mixer = state[c].mixer, !.r_mixer = state[c].r_mixer]
           old   == IF d = c \/ c = Free THEN state ELSE [state EXCEPT ![c] = Told(lost, c)]
           shown == encoder_check([state[d] EXCEPT !.enable = TRUE, !.active = active,
                                                   !.frame = n], needs)
           set   == Told(shown, d)
           r     == crtc_check(set, owner, d)
<1>0. /\ state \in [Crtcs -> StateType] /\ owner \in OwnerType /\ commits \in Nat
      /\ Paired(state, owner) /\ OnePanel(state) /\ Free \notin Crtcs
  BY DEF IInv, Types, Panel, Crtcs, Free
<1>1. c \in Crtcs \cup {Free} /\ \A e \in Crtcs : state[e].enable <=> e = c
  BY <1>0, Attached
<1>2. n \in Nat /\ n # 0
  BY <1>0
<1>3. /\ {c, d} # {Free} /\ (d < c /\ d # Free => MoveDown)
      /\ (d = Free => ~active) /\ state' = state
  BY DEF check
<1>4. user' = IF d = Free
              THEN [new |-> old, owner |-> owner, crtcs |-> {c}, modeset |-> TRUE]
              ELSE [new |-> [old EXCEPT ![d] = r[1]], owner |-> r[2],
                    crtcs |-> {c, d} \ {Free}, modeset |-> needs]
  BY DEF check
<1> HIDE DEF n, c
<1>5. ASSUME NEW s \in StateType, NEW c1
      PROVE  /\ Told(s, c1) \in StateType /\ Told(s, c1).enable = s.enable
             /\ Told(s, c1).active = s.active /\ Told(s, c1).mixer = s.mixer
             /\ Told(s, c1).r_mixer = s.r_mixer /\ Told(s, c1).frame = s.frame
  BY <1>2 DEF StateType
<1> HIDE DEF Told
<1>6. /\ old \in [Crtcs -> StateType]
      /\ \A e \in Crtcs : /\ old[e].mixer = state[e].mixer /\ old[e].r_mixer = state[e].r_mixer
                          /\ (e = d \/ e # c) => old[e] = state[e]
                          /\ (e # d => ~old[e].enable /\ ~old[e].active)
  <2>1. CASE d = c \/ c = Free
    BY <1>0, <1>1, <2>1 DEF OnePanel
  <2>2. CASE d # c /\ c # Free
    <3>1. c \in Crtcs /\ state[c] \in StateType
      BY <1>0, <1>1, <2>2
    <3>2. lost \in StateType /\ lost.enable = FALSE /\ lost.active = FALSE
          /\ lost.mixer = state[c].mixer /\ lost.r_mixer = state[c].r_mixer
      BY <3>1 DEF State0, StateType
    <3>3. old = [state EXCEPT ![c] = Told(lost, c)]
      BY <2>2
    <3>4. /\ Told(lost, c) \in StateType /\ Told(lost, c).enable = FALSE
          /\ Told(lost, c).active = FALSE /\ Told(lost, c).mixer = state[c].mixer
          /\ Told(lost, c).r_mixer = state[c].r_mixer
      BY <1>5, <3>2
    <3> HIDE DEF lost, old
    <3> QED BY <1>0, <1>1, <2>2, <3>1, <3>3, <3>4 DEF OnePanel
  <2> QED BY <2>1, <2>2
<1> HIDE DEF old
<1>7. CASE d = Free
  <2>1. c \in Crtcs /\ d \notin Crtcs
    BY <1>0, <1>1, <1>3, <1>7
  <2>2. user' = [new |-> old, owner |-> owner, crtcs |-> {c}, modeset |-> TRUE]
    BY <1>4, <1>7
  <2>3. user' \in UserType
    BY <1>0, <1>6, <2>1, <2>2 DEF UserType
  <2>4. /\ user'.new = old /\ user'.owner = owner /\ user'.crtcs = {c}
        /\ user'.modeset = TRUE
    BY <2>2
  <2>5. swapped' = old
    BY <1>3, <1>6, <2>1, <2>4 DEF swapped
  <2>6. Paired(old, owner)
    BY <1>0, <1>6, PairedSame
  <2>7. OnePanel(old) /\ Scope(old, {c}, TRUE)
    <3>1. \A e \in Crtcs : ~old[e].enable /\ ~old[e].active
      BY <1>6, <2>1
    <3>2. old[c].mixer # Free
      BY <1>0, <1>1, <1>6, <2>1 DEF OnePanel
    <3> QED BY <3>1, <3>2 DEF OnePanel, Scope, Crtcs
  <2> HIDE DEF needs, r
  <2> QED BY <1>3, <1>6, <2>3, <2>4, <2>5, <2>6, <2>7 DEF Checked, Panel
<1>8. CASE d # Free
  <2>0. d \in Crtcs /\ state[d] \in StateType
    BY <1>0, <1>8
  <2>1. /\ shown \in StateType /\ shown.enable = TRUE /\ shown.active = active
        /\ shown.frame = n /\ shown.mixer = state[d].mixer /\ shown.r_mixer = state[d].r_mixer
    <3> DEFINE lit0 == [state[d] EXCEPT !.enable = TRUE, !.active = active, !.frame = n]
    <3>1. /\ lit0 \in StateType /\ lit0.enable = TRUE /\ lit0.active = active
          /\ lit0.frame = n /\ lit0.mixer = state[d].mixer /\ lit0.r_mixer = state[d].r_mixer
      BY <1>2, <2>0 DEF StateType
    <3>2. shown = lit0 \/ shown = [lit0 EXCEPT !.ctl = TRUE, !.defer = TRUE]
      BY DEF encoder_check
    <3> HIDE DEF lit0, shown
    <3> QED BY <3>1, <3>2 DEF StateType
  <2> HIDE DEF shown
  <2>2. /\ set \in StateType /\ set.enable = TRUE /\ set.active = active
        /\ set.frame = n /\ set.mixer = state[d].mixer /\ set.r_mixer = state[d].r_mixer
    BY <1>5, <2>1
  <2> HIDE DEF set
  <2> DEFINE st  == [old EXCEPT ![d] = set]
             new == [old EXCEPT ![d] = r[1]]
  <2>3. /\ st \in [Crtcs -> StateType] /\ st[d] = set
        /\ new = [st EXCEPT ![d] = r[1]]
        /\ \A e \in Crtcs : st[e].mixer = state[e].mixer /\ st[e].r_mixer = state[e].r_mixer
    BY <1>6, <2>0, <2>2
  <2>4. Paired(st, owner)
    <3>1. \A e \in Crtcs : st[e].mixer = state[e].mixer /\ st[e].r_mixer = state[e].r_mixer
      BY <2>3
    <3> HIDE DEF st
    <3> QED BY <1>0, <3>1, PairedSame
  <2>5. st[d].frame # 0
    BY <1>2, <2>2, <2>3
  <2> HIDE DEF st
  <2>6. /\ r[1] \in StateType /\ r[2] \in OwnerType
        /\ Paired([st EXCEPT ![d] = r[1]], r[2])
        /\ r[1].mixer # Free /\ (st[d].mixer # Free => r[1].mixer = st[d].mixer)
        /\ r[1].enable = st[d].enable /\ r[1].active = st[d].active
    <3>1. crtc_check(st[d], owner, d) = r
      BY <2>3
    <3> HIDE DEF r, new
    <3>2. /\ st \in [Crtcs -> StateType] /\ owner \in OwnerType /\ Paired(st, owner)
          /\ d \in Crtcs /\ st[d].frame # 0
      BY <1>0, <2>0, <2>3, <2>4, <2>5
    <3>3. LET q == crtc_check(st[d], owner, d)
          IN  /\ q[1] \in StateType /\ q[2] \in OwnerType
              /\ Paired([st EXCEPT ![d] = q[1]], q[2])
              /\ q[1].mixer # Free /\ (st[d].mixer # Free => q[1].mixer = st[d].mixer)
              /\ q[1].enable = st[d].enable /\ q[1].active = st[d].active
      BY <3>2, Pipeline, Zenon
    <3> QED BY <3>1, <3>3
  <2> HIDE DEF r
  <2>7. /\ new \in [Crtcs -> StateType] /\ new[d] = r[1]
        /\ \A e \in Crtcs \ {d} : new[e] = old[e]
    BY <1>6, <2>0, <2>6
  <2>8. Paired(new, r[2])
    BY <2>3, <2>6
  <2> DEFINE both == {c, d} \ {Free}
  <2>9. both \subseteq Crtcs /\ d \in both /\ \A e \in both : e = d \/ (e = c /\ e \in Crtcs)
    BY <1>0, <1>1, <2>0
  <2>10. needs \in BOOLEAN
    OBVIOUS
  <2>11. user' = [new |-> new, owner |-> r[2], crtcs |-> both, modeset |-> needs]
    BY <1>4, <1>8
  <2>12. ~needs => d = c
    OBVIOUS
  <2>13. \A e \in Crtcs : e \notin both => e # d /\ e # c
    BY <1>0, <2>0
  <2> HIDE DEF new, needs, both
  <2>14. user' \in UserType
    BY <2>6, <2>7, <2>9, <2>10, <2>11 DEF UserType
  <2>15. /\ user'.new = new /\ user'.owner = r[2] /\ user'.crtcs = both
         /\ user'.modeset = needs
    BY <2>11
  <2>16. swapped' = new
    <3>1. \A e \in Crtcs : e \notin both => new[e] = state[e]
      BY <1>6, <2>7, <2>13
    <3> QED BY <1>3, <2>7, <2>15, <3>1 DEF swapped
  <2>17. \A e \in Crtcs : state[e].mixer # Free => new[e].mixer = state[e].mixer
    BY <1>6, <2>3, <2>6, <2>7
  <2>18. new[d].enable /\ new[d].mixer # Free
         /\ \A e \in Crtcs \ {d} : ~new[e].enable /\ ~new[e].active
    BY <1>6, <2>2, <2>3, <2>6, <2>7
  <2>19. OnePanel(new)
    BY <2>0, <2>18 DEF OnePanel, Crtcs
  <2>20. Scope(new, both, needs)
    <3>1. \A e \in both : new[e].mixer # Free
      <4> SUFFICES ASSUME NEW e \in both, e # d  PROVE new[e].mixer # Free
        BY <2>18
      <4>1. e = c /\ e \in Crtcs
        BY <2>9
      <4>2. state[e].mixer # Free
        BY <1>0, <1>1, <4>1 DEF OnePanel
      <4> QED BY <2>17, <4>1, <4>2
    <3>2. ~MoveDown => \A e \in both : e <= d
      <4> SUFFICES ASSUME ~MoveDown, NEW e \in both, e # d  PROVE e <= d
        BY <2>0 DEF Crtcs
      <4>1. e = c /\ e \in Crtcs
        BY <2>9
      <4> QED BY <1>3, <1>8, <2>0, <4>1 DEF Crtcs
    <3>3. ~needs => both = {d}
      BY <2>9, <2>12
    <3> QED BY <2>0, <2>9, <2>18, <3>1, <3>2, <3>3 DEF Scope
  <2>21. ~needs => \A e \in Crtcs : state[e].enable => new[e].enable
    BY <1>1, <2>12, <2>18
  <2> QED BY <1>3, <2>8, <2>14, <2>15, <2>16, <2>17, <2>19, <2>20, <2>21 DEF Checked, Panel
<1> QED BY <1>7, <1>8

-----------------------------------------------------------------------------
(* The registers *)

\* A CRTC's state keeps what the panel and the mixers are.
SameUse(new, old) ==
    /\ new.enable = old.enable /\ new.active = old.active
    /\ new.mixer = old.mixer /\ new.r_mixer = old.r_mixer

\* Then the checks of commits still hold, and so does what the tail was to do.
LEMMA UseKept ==
    ASSUME IInv, user' = user, owner' = owner, \A c \in Crtcs : SameUse(state'[c], state[c])
    PROVE  /\ Panel(state, owner)' /\ Checked' /\ (\A c \in Crtcs : Lms(c)' = Lms(c))
           /\ Scope(state, tail.crtcs, tail.modeset) => Scope(state', tail.crtcs, tail.modeset)
<1>1. Panel(state', owner)
  BY DEF IInv, Panel, Paired, OnePanel, SameUse, Crtcs
<1>2. Checked'
  <2>1. SUFFICES ASSUME user # NoCommit  PROVE Checked'
    BY DEF Checked
  <2>2. \A c \in Crtcs : SameUse(swapped'[c], swapped[c])
    BY DEF swapped, SameUse
  <2>3. Panel(swapped', user.owner)
    BY <2>1, <2>2 DEF IInv, Checked, Panel, Paired, OnePanel, SameUse, Crtcs
  <2>4. Scope(swapped', user.crtcs, user.modeset)
    <3>1. user.crtcs \subseteq Crtcs
      BY DEF IInv, Types, UserType
    <3> QED BY <2>1, <2>2, <3>1 DEF IInv, Checked, Scope, SameUse
  <2> QED BY <2>1, <2>2, <2>3, <2>4 DEF IInv, Checked, SameUse
<1>3. Scope(state, tail.crtcs, tail.modeset) => Scope(state', tail.crtcs, tail.modeset)
  <2>1. tail.crtcs \subseteq Crtcs
    BY DEF IInv, Types, TailType
  <2> QED BY <2>1 DEF Scope, SameUse
<1> QED BY <1>1, <1>2, <1>3 DEF Lms, SameUse

\* A flush goes to both CTLs.
LEMMA FlushBoth ==
    ASSUME NEW h \in HwType, NEW mask \in SUBSET Bits
    PROVE  LET n == flush_both(h, mask)
           IN  /\ n \in HwType /\ n.shadow = h.shadow /\ n.active = h.active /\ n.op = h.op
               /\ n.size = h.size /\ n.tear = h.tear /\ n.busy = h.busy
               /\ \A s \in Sides : n.flush[s] = h.flush[s] \cup mask
<1>1. [s \in Sides |-> h.flush[s] \cup mask] \in [Sides -> SUBSET Bits]
  BY DEF HwType
<1>2. flush_both(h, mask) = [h EXCEPT !.flush = [s \in Sides |-> h.flush[s] \cup mask]]
  BY DEF flush_both
<1> QED BY <1>1, <1>2 DEF HwType

\* START sends what both CTLs have flushed, or again what they show.
LEMMA Start ==
    ASSUME NEW h \in HwType, h.flush["left"] = h.flush["right"], Halves(h.shadow),
           Halves(h.active)
    PROVE  LET n == start(h)
           IN  /\ n \in HwType /\ n.shadow = h.shadow /\ n.op = h.op /\ n.size = h.size
               /\ n.tear = h.tear /\ n.busy = h.busy + 1 /\ Halves(n.active)
               /\ n.flush["left"] = {} /\ n.flush["right"] = {}
               /\ {"lm", "ctl"} \subseteq h.flush["left"] =>
                    /\ n.active["left"] = h.shadow["left"]
                    /\ n.active["right"] = h.shadow["right"]
<1> DEFINE act == [s \in Sides |-> IF {"lm", "ctl"} \subseteq h.flush[s]
                                   THEN h.shadow[s] ELSE h.active[s]]
           none == [s \in Sides |-> {}]
<1>1. start(h) = [h EXCEPT !.active = act, !.flush = none, !.busy = h.busy + 1]
  BY DEF start
<1>2. act \in [Sides -> Shot] /\ none \in [Sides -> SUBSET Bits] /\ h.busy + 1 \in Nat
  BY DEF HwType
<1>3. \/ act["left"] = h.shadow["left"] /\ act["right"] = h.shadow["right"]
      \/ act["left"] = h.active["left"] /\ act["right"] = h.active["right"]
  BY DEF Sides
<1>4. Halves(act)
  BY <1>3 DEF Halves
<1>5. {"lm", "ctl"} \subseteq h.flush["left"] =>
         act["left"] = h.shadow["left"] /\ act["right"] = h.shadow["right"]
  BY DEF Sides
<1>6. none["left"] = {} /\ none["right"] = {}
  BY DEF Sides
<1> HIDE DEF act, none
<1> QED BY <1>1, <1>2, <1>4, <1>5, <1>6 DEF HwType

\* A CRTC with mixers stages the same frame in both.
LEMMA Blend ==
    ASSUME IInv, NEW c \in Crtcs, state[c].mixer # Free, NEW frame \in Nat, blend(c, frame)
    PROVE  /\ hw' \in HwType /\ Halves(hw'.shadow) /\ hw'.shadow["left"].lm = state[c].mixer
           /\ hw'.active = hw.active /\ hw'.flush = hw.flush /\ hw'.op = hw.op
           /\ hw'.size = hw.size /\ hw'.tear = hw.tear /\ hw'.busy = hw.busy
           /\ enc' \in EncType /\ enc'.trigger /\ enc'.flush_mask = enc.flush_mask
           /\ enc'.enabled = enc.enabled /\ enc'.encoder_enabled = enc.encoder_enabled
<1> DEFINE new == [s \in Sides |-> [lm |-> IF s = "left" THEN state[c].mixer ELSE state[c].r_mixer,
                                    frame |-> frame]]
<1>0. /\ hw \in HwType /\ enc \in EncType /\ state[c].mixer \in {0, 2}
      /\ state[c].r_mixer = right_pair[state[c].mixer]
  BY DEF IInv, Types, StateType, Panel, Paired
<1>1. right_pair[0] = 1 /\ right_pair[2] = 5
  BY DEF right_pair
<1>2. state[c].mixer \in Mixers /\ state[c].r_mixer \in Mixers
  BY <1>0, <1>1 DEF Mixers
<1>3. /\ new["left"] = [lm |-> state[c].mixer, frame |-> frame]
      /\ new["right"] = [lm |-> state[c].r_mixer, frame |-> frame]
  BY DEF Sides
<1>4. new \in [Sides -> Shot]
  <2> SUFFICES ASSUME NEW s \in Sides
               PROVE  [lm |-> IF s = "left" THEN state[c].mixer ELSE state[c].r_mixer,
                       frame |-> frame] \in Shot
    OBVIOUS
  <2>1. (IF s = "left" THEN state[c].mixer ELSE state[c].r_mixer) \in Mixers
    BY <1>2
  <2> QED BY <2>1 DEF Shot
<1>5. Halves(new)
  BY <1>0, <1>3 DEF Halves
<1>6. hw' = [hw EXCEPT !.shadow = new] /\ enc' = [enc EXCEPT !.trigger = TRUE]
  BY DEF blend
<1> HIDE DEF new
<1>7. new["left"].lm = state[c].mixer
  BY <1>3
<1> QED BY <1>0, <1>4, <1>5, <1>6, <1>7 DEF HwType, EncType

-----------------------------------------------------------------------------
(* Every step keeps the invariant: commits and their tail *)

\* The state and who has which mixers stay.
LEMMA SameState ==
    ASSUME IInv, state' = state, owner' = owner, user' = user
    PROVE  Panel(state, owner)' /\ Checked' /\ \A c \in Crtcs : Lms(c)' = Lms(c)
  BY UseKept DEF SameUse

\* A check only proposes a state.
LEMMA CheckKeeps ==
    ASSUME IInv, NEW d \in Crtcs \cup {Free}, NEW active \in BOOLEAN,
           NEW mode \in BOOLEAN, check(d, active, mode)
    PROVE  IInv'
<1>1. user' \in UserType /\ Checked'
  BY CheckStep
<1>2. UNCHANGED <<state, owner, crtc, enc, hw, tail, late, faults>> /\ commits' = commits + 1
  BY DEF check
<1>3. Types'
  BY <1>1, <1>2 DEF IInv, Types
<1>4. Panel(state, owner)'
  BY <1>2 DEF IInv, Panel, Paired, OnePanel
<1>5. flushing' = flushing /\ \A c \in Crtcs : Lms(c)' = Lms(c)
  BY <1>2 DEF flushing, Lms
<1>6. Applied' /\ Powered'
  BY <1>2, <1>5 DEF IInv, Applied, Powered, Dark
<1>7. Sent' /\ Timely'
  BY <1>2, <1>5 DEF IInv, Sent, Timely, Dark, Staged, Flushed
<1> QED BY <1>1, <1>3, <1>4, <1>6, <1>7 DEF IInv

\* What was checked becomes the state.
LEMMA SwapKeeps ==
    ASSUME IInv, swap
    PROVE  IInv'
<1>0. /\ user # NoCommit /\ tail.pc = "idle" /\ user \in UserType
      /\ state \in [Crtcs -> StateType] /\ crtc \in [Crtcs -> CrtcType] /\ tail \in TailType
  BY DEF swap, IInv, Types
<1> DEFINE old == IF \E c \in Crtcs : crtc[c].enabled
                  THEN CHOOSE c \in Crtcs : crtc[c].enabled ELSE Free
<1>1. /\ state' = swapped /\ owner' = user.owner /\ user' = NoCommit
      /\ UNCHANGED <<crtc, enc, hw, commits, late>>
      /\ tail' = [Idle EXCEPT !.pc = "deps", !.crtcs = user.crtcs, !.modeset = user.modeset,
                              !.old = old]
  BY DEF swap, swapped
<1>2. old \in Crtcs \cup {Free} /\ \A c \in Crtcs : crtc[c].enabled <=> c = old
  <2>1. CASE \E c \in Crtcs : crtc[c].enabled
    <3>1. old \in Crtcs /\ crtc[old].enabled
      BY <2>1
    <3> HIDE DEF old
    <3> QED BY <3>1 DEF IInv, Applied, Crtcs
  <2>2. CASE ~\E c \in Crtcs : crtc[c].enabled
    BY <2>2 DEF Crtcs, Free
  <2> QED BY <2>1, <2>2
<1> HIDE DEF old
<1>3. /\ tail' \in TailType /\ tail'.pc = "deps" /\ tail'.crtcs = user.crtcs /\ tail'.left = {}
      /\ tail'.modeset = user.modeset /\ tail'.old = old
  BY <1>0, <1>1, <1>2 DEF Idle, TailType, TailPc, UserType
<1>4. swapped \in [Crtcs -> StateType]
  BY <1>0 DEF swapped, UserType
<1>5. NoCommit \in UserType
  <2>1. State0 \in StateType
    BY DEF State0, StateType, Free
  <2> QED BY <2>1 DEF NoCommit, UserType, OwnerType
<1>6. Types'
  BY <1>0, <1>1, <1>3, <1>4, <1>5 DEF IInv, Types, UserType
<1>7. Panel(state, owner)' /\ Checked'
  BY <1>0, <1>1 DEF IInv, Checked
<1>8. /\ Scope(swapped, user.crtcs, user.modeset)
      /\ \A c \in Crtcs : state[c].mixer # Free => swapped[c].mixer = state[c].mixer
      /\ ~user.modeset => \A c \in Crtcs : state[c].enable => swapped[c].enable
      /\ Panel(swapped, user.owner)
  BY <1>0 DEF IInv, Checked
<1>9. \A c \in Crtcs : crtc[c].enabled => state[c].enable /\ state[c].mixer # Free
  BY <1>0 DEF IInv, Applied, Panel, OnePanel
<1>10. Applied'
  BY <1>0, <1>1, <1>2, <1>3, <1>8, <1>9 DEF IInv, Applied, Dark
<1>11. \A c \in Crtcs : crtc[c].enabled => Lms(c)' = Lms(c)
  <2> SUFFICES ASSUME NEW c \in Crtcs, crtc[c].enabled  PROVE Lms(c)' = Lms(c)
    OBVIOUS
  <2>1. swapped[c].mixer = state[c].mixer /\ state[c].mixer # Free
    BY <1>8, <1>9
  <2>2. swapped[c].r_mixer = state[c].r_mixer
    BY <1>8, <2>1 DEF IInv, Panel, Paired
  <2> QED BY <1>1, <2>1, <2>2 DEF Lms
<1>12. Powered'
  BY <1>0, <1>1, <1>3, <1>11 DEF IInv, Powered
<1>13. Sent'
  BY <1>0, <1>1, <1>3 DEF IInv, Sent, Dark
<1>14. Timely'
  BY <1>0, <1>1, <1>3 DEF IInv, Timely, Dark
<1> QED BY <1>6, <1>7, <1>10, <1>12, <1>13, <1>14 DEF IInv

\* The wait for the flips before.
LEMMA DepsKeeps ==
    ASSUME IInv, deps
    PROVE  IInv'
<1>0. tail \in TailType /\ tail.pc = "deps"
  BY DEF deps, IInv, Types
<1>1. /\ tail' = [tail EXCEPT !.pc = "before", !.left = tail.crtcs]
      /\ UNCHANGED <<state, owner, crtc, enc, hw, user, commits, late, faults>>
  BY DEF deps, Goto
<1>2. /\ tail' \in TailType /\ tail'.pc = "before" /\ tail'.crtcs = tail.crtcs
      /\ tail'.left = tail.crtcs /\ tail'.modeset = tail.modeset /\ tail'.old = tail.old
  BY <1>0, <1>1 DEF TailType, TailPc
<1>3. Types'
  BY <1>1, <1>2 DEF IInv, Types
<1>4. Panel(state, owner)' /\ Checked' /\ \A c \in Crtcs : Lms(c)' = Lms(c)
  BY <1>1, SameState
<1>5. Applied'
  BY <1>0, <1>1, <1>2 DEF IInv, Applied, Dark
<1>6. Powered'
  BY <1>0, <1>1, <1>2, <1>4 DEF IInv, Powered
<1>7. Sent' /\ Timely'
  BY <1>0, <1>1, <1>2 DEF IInv, Sent, Timely, Dark
<1> QED BY <1>3, <1>4, <1>5, <1>6, <1>7 DEF IInv

\* The wait for a frame: it is sent, or late.
LEMMA WaitKeeps ==
    ASSUME IInv, NEW c \in Crtcs, wait_for_commit_done(c)
    PROVE  IInv'
<1>0. tail \in TailType /\ tail.pc \in {"before", "wait"} /\ c \in tail.left /\ late \in Nat
  BY DEF wait_for_commit_done, IInv, Types
<1>1. /\ tail' = [tail EXCEPT !.left = tail.left \ {c}]
      /\ UNCHANGED <<state, owner, crtc, enc, hw, user, commits, faults>>
      /\ late' = late \/ late' = late + 1
      /\ crtc[c].enabled /\ late' = late => crtc[c].done \/ hw.busy = 0
  BY <1>0 DEF wait_for_commit_done, wait_for_pp_done
<1>2. /\ tail' \in TailType /\ tail'.pc = tail.pc /\ tail'.crtcs = tail.crtcs
      /\ tail'.left = tail.left \ {c} /\ tail'.modeset = tail.modeset /\ tail'.old = tail.old
  BY <1>0, <1>1 DEF TailType, TailPc
<1>3. Types'
  BY <1>0, <1>1, <1>2 DEF IInv, Types
<1>4. Panel(state, owner)' /\ Checked' /\ \A e \in Crtcs : Lms(e)' = Lms(e)
  BY <1>1, SameState
<1>5. Applied'
  BY <1>0, <1>1, <1>2 DEF IInv, Applied, Dark
<1>6. Powered'
  BY <1>0, <1>1, <1>2, <1>4 DEF IInv, Powered
<1>7. Sent'
  BY <1>0, <1>1, <1>2 DEF IInv, Sent, Dark
<1>8. Timely'
  <2>1. SUFFICES ASSUME late' = 0  PROVE Timely'
    BY DEF Timely
  <2>2. late = 0 /\ late' = late
    BY <1>0, <1>1, <2>1
  <2>3. hw.busy > 0 => ~crtc[c].enabled
    BY <1>1, <2>2 DEF IInv, Timely
  <2> QED BY <1>0, <1>1, <1>2, <2>2, <2>3 DEF IInv, Timely, Dark
<1> QED BY <1>3, <1>4, <1>5, <1>6, <1>7, <1>8 DEF IInv

\* A modeset switches off what was on; the frames that were in time are sent by then.
LEMMA DisablesKeep ==
    ASSUME IInv, modeset_disables
    PROVE  IInv'
<1>0. /\ tail \in TailType /\ tail.pc = "before" /\ enc \in EncType /\ hw \in HwType
      /\ state \in [Crtcs -> StateType] /\ crtc \in [Crtcs -> CrtcType]
  BY DEF modeset_disables, IInv, Types
<1>1. /\ tail' = [tail EXCEPT !.pc = "stage", !.left = tail.crtcs]
      /\ UNCHANGED <<owner, user, commits, late>>
  BY DEF modeset_disables, Goto
<1>2. /\ tail' \in TailType /\ tail'.pc = "stage" /\ tail'.crtcs = tail.crtcs
      /\ tail'.left = tail.crtcs /\ tail'.modeset = tail.modeset
  BY <1>0, <1>1 DEF TailType, TailPc
<1>3. /\ \A c \in Crtcs : SameUse(state'[c], state[c])
      /\ state' \in [Crtcs -> StateType] /\ crtc' \in [Crtcs -> CrtcType]
      /\ \A c \in Crtcs : crtc'[c].done = crtc[c].done
      /\ \A c \in Crtcs : crtc'[c].enabled => crtc[c].enabled
      /\ tail.modeset => \A c \in Crtcs : ~crtc'[c].enabled
      /\ ~tail.modeset => crtc' = crtc
  <2>0. \A c \in Crtcs : crtc[c].enabled <=> c = tail.old
    BY <1>0 DEF IInv, Applied
  <2>1. CASE tail.modeset /\ tail.old # Free
    <3>1. tail.old \in Crtcs /\ crtc_atomic_disable(tail.old)
      BY <1>0, <2>1 DEF modeset_disables, TailType
    <3> DEFINE o == tail.old
    <3>2. crtc' = [crtc EXCEPT ![o].enabled = FALSE]
          /\ (state' = state \/ state' = [state EXCEPT ![o].event = 0])
      BY <3>1 DEF crtc_atomic_disable
    <3>3. o \in Crtcs /\ \A c \in Crtcs : crtc[c].enabled <=> c = o
      BY <2>0, <3>1
    <3> HIDE DEF o
    <3>4. /\ \A c \in Crtcs : SameUse(state'[c], state[c])
          /\ state' \in [Crtcs -> StateType]
      <4> DEFINE quiet == [state[o] EXCEPT !.event = 0]
      <4>1. state' = state \/ state' = [state EXCEPT ![o] = quiet]
        BY <3>2
      <4>2. quiet \in StateType /\ SameUse(quiet, state[o])
        BY <1>0, <3>3 DEF SameUse, StateType
      <4> HIDE DEF quiet
      <4> QED BY <1>0, <3>3, <4>1, <4>2 DEF SameUse
    <3>5. crtc' = [crtc EXCEPT ![o] = [crtc[o] EXCEPT !.enabled = FALSE]]
      BY <3>2
    <3>6. [crtc[o] EXCEPT !.enabled = FALSE] \in CrtcType
      BY <1>0, <3>3 DEF CrtcType
    <3>7. crtc' \in [Crtcs -> CrtcType]
      BY <1>0, <3>5, <3>6
    <3>8. /\ \A c \in Crtcs \ {o} : crtc'[c] = crtc[c]
          /\ ~crtc'[o].enabled /\ crtc'[o].done = crtc[o].done
      BY <1>0, <3>3, <3>5 DEF CrtcType
    <3> QED BY <2>1, <3>3, <3>4, <3>7, <3>8
  <2>2. CASE ~(tail.modeset /\ tail.old # Free)
    <3>1. state' = state /\ crtc' = crtc
      BY <2>2 DEF modeset_disables
    <3> QED BY <1>0, <2>0, <2>2, <3>1 DEF SameUse, Crtcs, Free
  <2> QED BY <2>1, <2>2
<1>4. /\ hw' \in HwType /\ enc' \in EncType /\ hw'.shadow = hw.shadow /\ hw'.active = hw.active
      /\ hw'.flush["left"] = hw'.flush["right"] /\ hw'.op = hw.op /\ hw'.size = hw.size
      /\ hw'.busy = hw.busy /\ enc'.encoder_enabled = enc'.enabled
      /\ (hw'.tear # {} => enc'.enabled) /\ (tail.modeset => ~enc'.enabled)
      /\ (enc'.enabled => enc' = enc /\ hw' = hw)
  <2>1. CASE tail.modeset /\ tail.old # Free /\ enc.enabled
    <3> DEFINE mask == {"intf"} \cup enc.flush_mask
               dark == [hw EXCEPT !.tear = {}]
    <3>1. enc' = [enc EXCEPT !.enabled = FALSE, !.encoder_enabled = FALSE, !.flush_mask = {}]
          /\ hw' = flush_both(dark, mask)
      BY <2>1 DEF modeset_disables, cmd_encoder_disable, tearcheck_disable
    <3>2. mask \in SUBSET Bits
      BY <1>0 DEF EncType, Bits
    <3>3. /\ dark \in HwType /\ dark.shadow = hw.shadow /\ dark.active = hw.active
          /\ dark.op = hw.op /\ dark.size = hw.size /\ dark.tear = {} /\ dark.busy = hw.busy
          /\ dark.flush = hw.flush
      BY <1>0 DEF HwType
    <3> HIDE DEF mask, dark
    <3>4. /\ hw' \in HwType /\ hw'.shadow = dark.shadow /\ hw'.active = dark.active
          /\ hw'.op = dark.op /\ hw'.size = dark.size /\ hw'.tear = dark.tear
          /\ hw'.busy = dark.busy /\ \A s \in Sides : hw'.flush[s] = dark.flush[s] \cup mask
      BY <3>1, <3>2, <3>3, FlushBoth
    <3>5. hw'.flush["left"] = hw'.flush["right"]
      BY <3>3, <3>4 DEF IInv, Sent, Sides
    <3>6. enc' \in EncType /\ ~enc'.enabled /\ ~enc'.encoder_enabled
          /\ enc'.encoder_enabled = enc'.enabled
      BY <1>0, <3>1 DEF EncType
    <3> QED BY <3>3, <3>4, <3>5, <3>6
  <2>2. CASE ~(tail.modeset /\ tail.old # Free /\ enc.enabled)
    <3>1. hw' = hw /\ enc' = enc
      BY <2>2 DEF modeset_disables, cmd_encoder_disable
    <3>2. enc.enabled => \E c \in Crtcs : crtc[c].enabled
      BY DEF IInv, Powered
    <3>3. tail.modeset => ~enc.enabled
      BY <1>0, <2>2, <3>2 DEF IInv, Applied, Crtcs, Free
    <3> QED BY <1>0, <3>1, <3>3 DEF IInv, Powered, Sent
  <2> QED BY <2>1, <2>2
<1>5. Types'
  BY <1>1, <1>2, <1>3, <1>4 DEF IInv, Types
<1>6. Panel(state, owner)' /\ Checked' /\ (\A c \in Crtcs : Lms(c)' = Lms(c))
      /\ Scope(state', tail.crtcs, tail.modeset)
  BY <1>0, <1>1, <1>3, UseKept DEF IInv, Applied
<1>7. Applied'
  <2>1. \A c \in Crtcs : crtc'[c].enabled => state'[c].enable
    BY <1>0, <1>3 DEF IInv, Applied, SameUse
  <2>2. ~(crtc'[0].enabled /\ crtc'[1].enabled)
    BY <1>3 DEF IInv, Applied, Crtcs
  <2>3. \A a \in Crtcs : state'[a].enable => a \in tail'.left
    BY <1>2, <1>6 DEF Scope
  <2> QED BY <1>2, <1>3, <1>4, <1>6, <2>1, <2>2, <2>3 DEF Applied, Dark
<1>8. Powered'
  <2>1. CASE enc'.enabled
    <3>1. ~tail.modeset /\ enc' = enc /\ hw' = hw
      BY <1>4, <2>1
    <3> QED BY <1>2, <1>3, <1>4, <1>6, <3>1 DEF IInv, Powered
  <2>2. CASE ~enc'.enabled
    BY <1>2, <1>4, <2>2 DEF Powered
  <2> QED BY <2>1, <2>2
<1>9. Sent'
  <2>1. \A a \in Crtcs : state'[a].enable => a \in tail'.left
    BY <1>2, <1>6 DEF Scope
  <2> QED BY <1>2, <1>4, <2>1 DEF IInv, Sent, Dark, Flushed
<1>10. Timely'
  <2>1. \A a \in Crtcs : state'[a].enable => a \in tail'.left
    BY <1>2, <1>6 DEF Scope
  <2>2. late = 0 => hw'.busy = 0
    BY <1>0, <1>4 DEF IInv, Timely, HwType
  <2> QED BY <1>1, <1>2, <2>1, <2>2 DEF Timely, Dark, Flushed
<1> QED BY <1>5, <1>6, <1>7, <1>8, <1>9, <1>10 DEF IInv

\* The tail's next CRTC is the same as long as the same are left.
LEMMA FlushingSame ==
    ASSUME tail'.left = tail.left
    PROVE  flushing' = flushing
  BY DEF flushing

\* A CRTC's planes are staged, with its event and without the frame done.
LEMMA StageKeeps ==
    ASSUME IInv, stage
    PROVE  IInv'
<1> DEFINE c == flushing
<1>0. /\ tail \in TailType /\ tail.pc = "stage" /\ tail.left # {} /\ c \in tail.left
      /\ c \in Crtcs /\ state \in [Crtcs -> StateType] /\ crtc \in [Crtcs -> CrtcType]
  BY Flushing DEF stage, IInv, Types
<1>1. /\ crtc' = [crtc EXCEPT ![c].event = state[c].event, ![c].done = FALSE]
      /\ state' = [state EXCEPT ![c].event = 0]
      /\ blend(c, state[c].frame)
      /\ tail' = [tail EXCEPT !.pc = "flush"]
      /\ UNCHANGED <<owner, user, commits, late>>
  BY DEF stage, blend_setup
<1>2. /\ tail' \in TailType /\ tail'.pc = "flush" /\ tail'.crtcs = tail.crtcs
      /\ tail'.left = tail.left /\ tail'.modeset = tail.modeset
  BY <1>0, <1>1 DEF TailType, TailPc
<1>3. flushing' = c
  BY <1>2, FlushingSame
<1> HIDE DEF c
<1>4. Scope(state, tail.crtcs, tail.modeset) /\ state[c].mixer # Free
      /\ state[c].frame \in Nat /\ state[c].event \in Nat
  BY <1>0 DEF IInv, Applied, Scope, StateType
<1>5. /\ hw' \in HwType /\ Halves(hw'.shadow) /\ hw'.shadow["left"].lm = state[c].mixer
      /\ hw'.active = hw.active /\ hw'.flush = hw.flush /\ hw'.op = hw.op
      /\ hw'.size = hw.size /\ hw'.tear = hw.tear /\ hw'.busy = hw.busy
      /\ enc' \in EncType /\ enc'.trigger /\ enc'.flush_mask = enc.flush_mask
      /\ enc'.enabled = enc.enabled /\ enc'.encoder_enabled = enc.encoder_enabled
  BY <1>0, <1>1, <1>4, Blend
<1>6. /\ \A e \in Crtcs : SameUse(state'[e], state[e])
      /\ state' \in [Crtcs -> StateType]
  BY <1>0, <1>1 DEF SameUse, StateType
<1>7. /\ crtc' \in [Crtcs -> CrtcType] /\ ~crtc'[c].done
      /\ \A e \in Crtcs : crtc'[e].enabled = crtc[e].enabled
      /\ \A e \in Crtcs \ {c} : crtc'[e].done = crtc[e].done
  <2> DEFINE new == [crtc[c] EXCEPT !.event = state[c].event, !.done = FALSE]
  <2>1. crtc' = [crtc EXCEPT ![c] = new]
    BY <1>0, <1>1
  <2>2. new \in CrtcType /\ ~new.done /\ new.enabled = crtc[c].enabled
    BY <1>0, <1>4 DEF CrtcType
  <2> HIDE DEF new
  <2> QED BY <1>0, <2>1, <2>2
<1>8. Types'
  BY <1>1, <1>2, <1>5, <1>6, <1>7 DEF IInv, Types
<1>9. Panel(state, owner)' /\ Checked' /\ (\A e \in Crtcs : Lms(e)' = Lms(e))
      /\ Scope(state', tail.crtcs, tail.modeset)
  BY <1>1, <1>4, <1>6, UseKept
<1>10. Applied'
  BY <1>0, <1>2, <1>5, <1>6, <1>7, <1>9 DEF IInv, Applied, Dark, SameUse, Crtcs
<1>11. Powered'
  BY <1>0, <1>2, <1>5, <1>7, <1>9 DEF IInv, Powered
<1>12. Sent'
  <2>1. ASSUME ~MoveDown, NEW a \in Crtcs, state'[a].enable  PROVE ~Flushed(a)'
    <3>1. a \in tail.left
      BY <1>0, <1>6, <2>1 DEF IInv, Applied, SameUse
    <3> QED BY <1>2, <3>1 DEF Flushed
  <2> QED BY <1>0, <1>2, <1>3, <1>5, <1>6, <2>1 DEF IInv, Sent, Dark, SameUse
<1>13. Timely'
  <2>1. late = 0 => hw'.busy = 0
    BY <1>0, <1>5 DEF IInv, Timely, Types, HwType
  <2>2. ASSUME NEW a \in Crtcs, tail.modeset, state'[a].enable, a \notin tail.left, late = 0
        PROVE  ~crtc'[a].done
    <3>1. Dark /\ state[a].enable /\ Flushed(a)
      BY <1>0, <1>6, <2>2 DEF Dark, SameUse, Flushed
    <3>2. a # c
      BY <1>0, <2>2
    <3> QED BY <1>7, <2>2, <3>1, <3>2 DEF IInv, Timely
  <2> QED BY <1>1, <1>2, <1>3, <1>7, <2>1, <2>2 DEF Timely, Dark, Flushed
<1> QED BY <1>8, <1>9, <1>10, <1>11, <1>12, <1>13 DEF IInv

\* What is staged is flushed to both CTLs, with START while the encoder is on.
LEMMA FlushKeeps ==
    ASSUME IInv, flush
    PROVE  IInv'
<1> DEFINE c    == flushing
           go   == ~state[c].defer
           all  == {"lm", "ctl"} \cup enc.flush_mask
           told == flush_both(hw, all)
<1>0. /\ tail \in TailType /\ tail.pc = "flush" /\ tail.left # {} /\ c \in tail.left
      /\ c \in Crtcs /\ \A e \in tail.left : c <= e
      /\ state \in [Crtcs -> StateType] /\ crtc \in [Crtcs -> CrtcType]
      /\ enc \in EncType /\ hw \in HwType /\ enc.trigger
  BY Flushing DEF flush, IInv, Types, Applied
<1>1. /\ state' = [state EXCEPT ![c].defer = FALSE]
      /\ UNCHANGED <<owner, crtc, user, commits, late>>
  BY DEF flush
<1>2. /\ tail' \in TailType /\ tail'.pc = "pending" /\ tail'.crtcs = tail.crtcs
      /\ tail'.left = tail.left /\ tail'.modeset = tail.modeset
  <2>1. PICK k \in {0, 1} : tail' = [tail EXCEPT !.pc = "pending", !.starts = @ + k]
    BY DEF flush, ctl_commit
  <2>2. tail.starts + k \in Nat
    BY <1>0 DEF TailType
  <2> QED BY <1>0, <2>1, <2>2 DEF TailType, TailPc
<1>3. /\ enc' = [enc EXCEPT !.trigger = FALSE,
                            !.flush_mask = IF go THEN {} ELSE enc.flush_mask \cup {"lm", "ctl"}]
      /\ hw' = IF ~go THEN hw ELSE IF enc.encoder_enabled THEN start(told) ELSE told
  <2>1. full_mask(enc, {"lm"}) = {"lm", "ctl"}
    BY <1>0 DEF full_mask
  <2>2. (enc.trigger /\ "lm" \notin {"lm"}) = FALSE
    OBVIOUS
  <2> QED BY <2>1, <2>2 DEF flush, ctl_commit
<1> HIDE DEF c
<1>4. all \in SUBSET Bits /\ state[c].defer \in BOOLEAN
  BY <1>0 DEF EncType, Bits, StateType
<1> HIDE DEF all
<1>5. /\ told \in HwType /\ told.shadow = hw.shadow /\ told.active = hw.active
      /\ told.op = hw.op /\ told.size = hw.size /\ told.tear = hw.tear /\ told.busy = hw.busy
      /\ \A s \in Sides : told.flush[s] = hw.flush[s] \cup all
  BY <1>0, <1>4, FlushBoth
<1> HIDE DEF told
<1>6. /\ told.flush["left"] = told.flush["right"] /\ Halves(told.shadow) /\ Halves(told.active)
      /\ {"lm", "ctl"} \subseteq told.flush["left"]
  BY <1>5 DEF IInv, Sent, Sides, all
<1>7. /\ start(told) \in HwType /\ start(told).shadow = told.shadow
      /\ start(told).op = told.op /\ start(told).size = told.size
      /\ start(told).tear = told.tear /\ start(told).busy = told.busy + 1
      /\ Halves(start(told).active)
      /\ start(told).flush["left"] = {} /\ start(told).flush["right"] = {}
      /\ start(told).active["left"] = told.shadow["left"]
      /\ start(told).active["right"] = told.shadow["right"]
  BY <1>5, <1>6, Start
<1>8. /\ \A e \in Crtcs : SameUse(state'[e], state[e])
      /\ state' \in [Crtcs -> StateType]
  <2> DEFINE new == [state[c] EXCEPT !.defer = FALSE]
  <2>1. state' = [state EXCEPT ![c] = new]
    BY <1>1
  <2>2. new \in StateType /\ SameUse(new, state[c])
    BY <1>0 DEF SameUse, StateType
  <2> HIDE DEF new
  <2> QED BY <1>0, <2>1, <2>2 DEF SameUse
<1>9. /\ enc' \in EncType /\ enc'.enabled = enc.enabled
      /\ enc'.encoder_enabled = enc.encoder_enabled
      /\ ~go => {"lm", "ctl"} \subseteq enc'.flush_mask
  BY <1>0, <1>3 DEF EncType, Bits
<1> DEFINE go1 == go /\ enc.encoder_enabled
<1>10. CASE ~go1
  <2>1. /\ hw' = hw \/ hw' = told
        /\ {"lm", "ctl"} \subseteq enc'.flush_mask \cup hw'.flush["left"]
    BY <1>3, <1>6, <1>9, <1>10
  <2>2. /\ hw' \in HwType /\ hw'.shadow = hw.shadow /\ hw'.active = hw.active
        /\ hw'.op = hw.op /\ hw'.size = hw.size /\ hw'.tear = hw.tear /\ hw'.busy = hw.busy
        /\ hw'.flush["left"] = hw'.flush["right"]
    BY <1>0, <1>5, <1>6, <2>1 DEF IInv, Sent
  <2> HIDE DEF go1, go
  <2>3. Types'
    BY <1>1, <1>2, <1>8, <1>9, <2>2 DEF IInv, Types
  <2>4. Panel(state, owner)' /\ Checked' /\ (\A e \in Crtcs : Lms(e)' = Lms(e))
        /\ Scope(state', tail.crtcs, tail.modeset)
    BY <1>0, <1>1, <1>8, UseKept DEF IInv, Applied
  <2>5. Applied'
    BY <1>0, <1>1, <1>2, <1>8, <1>9, <2>4 DEF IInv, Applied, Dark, SameUse, Crtcs
  <2>6. Powered'
    BY <1>0, <1>1, <1>2, <1>9, <2>2, <2>4 DEF IInv, Powered
  <2>7. Sent'
    <3>1. ASSUME ~MoveDown, NEW a \in Crtcs, state'[a].enable, Flushed(a)'
          PROVE  Staged(a)'
      <4>0. state[a].enable /\ a \in tail.left
        BY <1>0, <1>8, <3>1 DEF IInv, Applied, SameUse
      <4>1. a = c /\ state[c].enable
        BY <1>2, <3>1, <4>0, FlushingSame DEF Flushed, c
      <4>2. hw.shadow["left"].lm = state[c].mixer
        BY <1>0, <4>1 DEF IInv, Sent, c
      <4> QED BY <1>0, <1>8, <2>1, <2>2, <4>1, <4>2 DEF Staged, SameUse
    <3> QED BY <1>2, <2>2, <3>1 DEF IInv, Sent, Dark
  <2>8. Timely'
    <3>1. late = 0 => hw'.busy = 0 /\ ~crtc[c].done
      BY <1>0, <2>2 DEF IInv, Timely, Types, HwType, c
    <3>2. ASSUME NEW a \in Crtcs, Dark', state'[a].enable, Flushed(a)', late = 0
          PROVE  ~crtc[a].done
      <4>1. a = c \/ a \notin tail.left
        BY <1>2, <3>2, FlushingSame DEF Flushed, c
      <4>2. CASE a \notin tail.left
        <5>1. Dark /\ state[a].enable /\ Flushed(a)
          BY <1>0, <1>2, <1>8, <3>2, <4>2 DEF Dark, SameUse, Flushed
        <5> QED BY <3>2, <5>1 DEF IInv, Timely
      <4> QED BY <3>1, <3>2, <4>1, <4>2
    <3> QED BY <1>0, <1>1, <1>2, <3>1, <3>2 DEF Timely
  <2> QED BY <2>3, <2>4, <2>5, <2>6, <2>7, <2>8 DEF IInv
<1>11. CASE go1
  <2>1. hw' = start(told) /\ enc.enabled /\ ~tail.modeset
    BY <1>0, <1>3, <1>11 DEF IInv, Powered, Applied, Dark
  <2> HIDE DEF go1, go
  <2>2. /\ hw' \in HwType /\ hw'.shadow = hw.shadow /\ hw'.op = hw.op /\ hw'.size = hw.size
        /\ hw'.tear = hw.tear /\ hw'.busy = hw.busy + 1 /\ Halves(hw'.active)
        /\ hw'.flush["left"] = hw'.flush["right"]
        /\ hw'.active["left"] = hw.shadow["left"] /\ hw'.active["right"] = hw.shadow["right"]
    BY <1>5, <1>7, <2>1
  <2>3. Types'
    BY <1>1, <1>2, <1>8, <1>9, <2>2 DEF IInv, Types
  <2>4. Panel(state, owner)' /\ Checked' /\ (\A e \in Crtcs : Lms(e)' = Lms(e))
        /\ Scope(state, tail.crtcs, tail.modeset)
        /\ Scope(state', tail.crtcs, tail.modeset)
    BY <1>0, <1>1, <1>8, UseKept DEF IInv, Applied
  <2>5. Applied'
    BY <1>0, <1>1, <1>2, <1>8, <1>9, <2>4 DEF IInv, Applied, Dark, SameUse, Crtcs
  <2>6. Powered'
    BY <1>0, <1>1, <1>2, <1>9, <2>2, <2>4 DEF IInv, Powered
  <2>7. /\ state[c].enable /\ \A e \in Crtcs : crtc[e].enabled => e = c
    <3>1. PICK x \in Crtcs : tail.crtcs = {x} /\ state[x].enable
      BY <2>1, <2>4 DEF Scope
    <3>2. c = x
      BY <1>0, <3>1 DEF IInv, Applied
    <3>3. \A e \in Crtcs : crtc[e].enabled => state[e].enable
      BY <1>0 DEF IInv, Applied
    <3> QED BY <3>1, <3>2, <3>3 DEF IInv, Panel, OnePanel, Crtcs
  <2>8. Sent'
    <3>1. hw.op /\ Lms(c) \subseteq hw.size
      BY <2>1, <2>7 DEF IInv, Powered
    <3>2. hw.shadow["left"].lm = state[c].mixer /\ state[c].mixer \in {0, 2}
          /\ state[c].r_mixer = right_pair[state[c].mixer]
      BY <1>0, <2>7 DEF IInv, Sent, c, Panel, Paired, OnePanel, StateType
    <3>3. hw.shadow["right"].lm = state[c].r_mixer
      BY <3>2 DEF IInv, Sent, Halves, Free
    <3>4. state[c].mixer # Free
      BY <3>2 DEF Free
    <3> QED BY <1>2, <2>1, <2>2, <3>1, <3>2, <3>3, <3>4 DEF IInv, Sent, Dark, Lms
  <2>9. Timely'
    <3>1. late = 0 => hw'.busy = 1 /\ ~crtc[c].done
      BY <1>0, <2>2 DEF IInv, Timely, Types, HwType, c
    <3> QED BY <1>0, <1>1, <1>2, <1>9, <2>1, <2>7, <3>1 DEF Timely, Dark
  <2> QED BY <2>3, <2>4, <2>5, <2>6, <2>8, <2>9 DEF IInv
<1> QED BY <1>10, <1>11

\* The flip asks for its vblank.
LEMMA PendingKeeps ==
    ASSUME IInv, pending
    PROVE  IInv'
<1> DEFINE c == flushing
<1>0. /\ tail \in TailType /\ tail.pc = "pending" /\ tail.left # {} /\ c \in tail.left
      /\ c = flushing /\ c \in Crtcs /\ (\A e \in tail.left : c <= e)
      /\ crtc \in [Crtcs -> CrtcType]
      /\ tail.left \subseteq Crtcs /\ Scope(state, tail.crtcs, tail.modeset)
      /\ tail.left \subseteq tail.crtcs
  BY Flushing DEF pending, IInv, Types, TailType, Applied
<1>1. /\ crtc' = [crtc EXCEPT ![c].vblank = TRUE]
      /\ tail' = [tail EXCEPT !.pc = "stage", !.left = tail.left \ {c}]
      /\ UNCHANGED <<state, owner, enc, hw, user, commits, late>>
  BY DEF pending
<1> HIDE DEF c
<1>2. /\ tail' \in TailType /\ tail'.pc = "stage" /\ tail'.crtcs = tail.crtcs
      /\ tail'.left = tail.left \ {c} /\ tail'.modeset = tail.modeset
  BY <1>0, <1>1 DEF TailType, TailPc
<1>3. /\ crtc' \in [Crtcs -> CrtcType]
      /\ \A e \in Crtcs : crtc'[e].enabled = crtc[e].enabled /\ crtc'[e].done = crtc[e].done
  BY <1>0, <1>1 DEF CrtcType
<1>4. Types'
  BY <1>1, <1>2, <1>3 DEF IInv, Types
<1>5. Panel(state, owner)' /\ Checked' /\ \A e \in Crtcs : Lms(e)' = Lms(e)
  BY <1>1, SameState
<1>6. ~MoveDown => \A a \in Crtcs : state[a].enable =>
         IF tail'.left = {} THEN tail.left = {a} ELSE a \in tail'.left
  <2> SUFFICES ASSUME ~MoveDown, NEW a \in Crtcs, state[a].enable
               PROVE  IF tail'.left = {} THEN tail.left = {a} ELSE a \in tail'.left
    OBVIOUS
  <2>1. a \in tail.left /\ \A e \in tail.crtcs : e <= a
    BY <1>0 DEF IInv, Applied, Scope
  <2>2. a = c => tail.left = {c}
    BY <1>0, <2>1 DEF Crtcs
  <2> QED BY <1>0, <1>2, <2>1, <2>2
<1>7. Applied'
  BY <1>0, <1>1, <1>2, <1>3, <1>6 DEF IInv, Applied, Dark, Crtcs
<1>8. Powered'
  BY <1>0, <1>1, <1>2, <1>3, <1>5 DEF IInv, Powered
<1>9. \A a \in Crtcs : Flushed(a)' => Flushed(a)
  BY <1>0, <1>2 DEF Flushed
<1>10. Sent'
  <2>1. \A a \in Crtcs : Staged(a)' = Staged(a)
    BY <1>1 DEF Staged
  <2> QED BY <1>0, <1>1, <1>2, <1>9, <2>1 DEF IInv, Sent, Dark
<1>11. Timely'
  <2>1. hw.busy > 0 /\ late = 0 => tail'.left = {}
    <3> SUFFICES ASSUME hw.busy > 0, late = 0  PROVE tail'.left = {}
      OBVIOUS
    <3>1. enc.enabled /\ ~tail.modeset
      BY <1>0 DEF IInv, Timely, Applied, Dark
    <3> QED BY <1>0, <1>2, <3>1 DEF Scope
  <2> QED BY <1>0, <1>1, <1>2, <1>3, <1>9, <2>1 DEF IInv, Timely, Dark
<1> QED BY <1>4, <1>5, <1>7, <1>8, <1>10, <1>11 DEF IInv

-----------------------------------------------------------------------------
(* Every step keeps the invariant: enabling, and the interrupts *)

\* The CRTC that is lit gets its size, routing and tear check, which can fail.
LEMMA EnablesKeep ==
    ASSUME IInv, NEW ok \in BOOLEAN, modeset_enables(ok)
    PROVE  IInv'
<1> DEFINE c   == attached(state)
           lms == {state[c].mixer, state[c].r_mixer}
<1>0. /\ tail \in TailType /\ tail.pc = "stage" /\ tail.left = {}
      /\ state \in [Crtcs -> StateType] /\ crtc \in [Crtcs -> CrtcType] /\ hw \in HwType
      /\ Panel(state, owner) /\ Scope(state, tail.crtcs, tail.modeset)
  BY DEF modeset_enables, IInv, Types, Applied
<1>1. UNCHANGED <<state, owner, enc, user, commits, late>>
  BY DEF modeset_enables
<1>2. Panel(state, owner)' /\ Checked' /\ \A e \in Crtcs : Lms(e)' = Lms(e)
  BY <1>1, SameState
<1>3. CASE tail.modeset /\ lit
  <2> DEFINE new == [crtc[c] EXCEPT !.enabled = TRUE]
             set == [hw EXCEPT !.size = hw.size \cup lms, !.op = TRUE]
             on  == [set EXCEPT !.tear = lms]
             pc  == IF ok THEN "enable" ELSE "wait"
  <2>1. /\ crtc' = [crtc EXCEPT ![c].enabled = TRUE]
        /\ hw' = IF ok THEN on ELSE set
        /\ tail' = [tail EXCEPT !.pc = pc, !.left = tail.crtcs]
    BY <1>3 DEF modeset_enables, crtc_atomic_enable, set_ctl_op, mode_set_nofb,
                tearcheck_enable, Goto
  <2>2. c \in Crtcs /\ state[c].enable /\ \A e \in Crtcs : state[e].enable <=> e = c
    <3>1. PICK e \in tail.crtcs : state[e].active
      BY <1>3 DEF lit
    <3>2. e \in Crtcs /\ state[e].enable
      BY <1>0, <3>1 DEF TailType, Panel, OnePanel
    <3> QED BY <1>0, <3>2, Attached DEF Panel
  <2> HIDE DEF c
  <2>3. state[c].mixer \in {0, 2} /\ state[c].r_mixer = right_pair[state[c].mixer]
    BY <1>0, <2>2 DEF Panel, OnePanel, Paired, StateType, Free
  <2>4. lms \subseteq Mixers /\ lms = Lms(c)
    BY <2>3 DEF Lms, Mixers, right_pair
  <2> HIDE DEF lms
  <2>5. /\ set \in HwType /\ set.shadow = hw.shadow /\ set.flush = hw.flush
        /\ set.active = hw.active /\ set.op = TRUE /\ set.size = hw.size \cup lms
        /\ set.tear = hw.tear /\ set.busy = hw.busy
    BY <1>0, <2>4 DEF HwType
  <2> HIDE DEF set
  <2>6. /\ hw' \in HwType /\ hw'.shadow = hw.shadow /\ hw'.flush = hw.flush
        /\ hw'.active = hw.active /\ hw'.op /\ hw'.size = hw.size \cup lms
        /\ hw'.tear = (IF ok THEN lms ELSE hw.tear) /\ hw'.busy = hw.busy
    BY <2>1, <2>4, <2>5 DEF HwType
  <2>7. /\ crtc' \in [Crtcs -> CrtcType] /\ crtc'[c].enabled
        /\ \A e \in Crtcs : crtc'[e].done = crtc[e].done
        /\ \A e \in Crtcs \ {c} : crtc'[e] = crtc[e]
    <3>1. crtc' = [crtc EXCEPT ![c] = new]
      BY <2>1
    <3>2. new \in CrtcType /\ new.enabled /\ new.done = crtc[c].done
      BY <1>0, <2>2 DEF CrtcType
    <3> HIDE DEF new
    <3> QED BY <1>0, <2>2, <3>1, <3>2
  <2>8. /\ tail' \in TailType /\ tail'.pc = pc /\ tail'.crtcs = tail.crtcs
        /\ tail'.left = tail.crtcs /\ tail'.modeset = tail.modeset
    BY <1>0, <2>1 DEF TailType, TailPc
  <2> HIDE DEF on, new
  <2>9. ~enc.enabled /\ hw.tear = {} /\ \A e \in Crtcs : ~crtc[e].enabled
    BY <1>0, <1>3 DEF IInv, Applied, Powered, Dark
  <2>10. \A e \in Crtcs : crtc'[e].enabled <=> e = c
    BY <2>7, <2>9
  <2>11. Types'
    BY <1>1, <2>6, <2>7, <2>8 DEF IInv, Types
  <2>12. Applied'
    <3>1. tail'.pc \in {"enable", "wait"}
      BY <2>8
    <3>2. Scope(state', tail'.crtcs, tail'.modeset) /\ tail'.left \subseteq tail'.crtcs
      BY <1>0, <1>1, <2>8
    <3>3. /\ ~enc'.enabled /\ tail'.modeset /\ ~(crtc'[0].enabled /\ crtc'[1].enabled)
          /\ \A e \in Crtcs : crtc'[e].enabled => state'[e].enable
      BY <1>1, <1>3, <2>2, <2>8, <2>9, <2>10 DEF Crtcs
    <3> HIDE DEF pc
    <3> QED BY <3>1, <3>2, <3>3 DEF Applied, Dark
  <2>13. Powered'
    BY <1>1, <1>2, <2>2, <2>4, <2>6, <2>8, <2>9, <2>10 DEF IInv, Powered
  <2>14. Sent'
    <3>1. ASSUME ~MoveDown, NEW a \in Crtcs, state[a].enable  PROVE Staged(a)'
      <4>1. Staged(a)
        BY <1>0, <1>3, <3>1 DEF IInv, Sent, Dark, Flushed
      <4> QED BY <1>1, <2>6, <4>1 DEF Staged
    <3> QED BY <1>0, <1>1, <2>6, <2>8, <3>1 DEF IInv, Sent, Dark
  <2>15. Timely'
    <3>1. late = 0 => hw'.busy = 0
      BY <1>0, <2>6, <2>9 DEF IInv, Timely, HwType
    <3>2. ASSUME NEW a \in Crtcs, state[a].enable, late = 0  PROVE ~crtc[a].done
      BY <1>0, <1>3, <3>2 DEF IInv, Timely, Dark, Flushed
    <3> QED BY <1>1, <2>7, <2>8, <3>1, <3>2 DEF Timely, Dark
  <2> QED BY <1>2, <2>11, <2>12, <2>13, <2>14, <2>15 DEF IInv
<1>4. CASE ~(tail.modeset /\ lit)
  <2>1. /\ UNCHANGED <<crtc, hw>>
        /\ tail' = [tail EXCEPT !.pc = "wait", !.left = tail.crtcs]
    BY <1>4 DEF modeset_enables, Goto
  <2>2. /\ tail' \in TailType /\ tail'.pc = "wait" /\ tail'.crtcs = tail.crtcs
        /\ tail'.left = tail.crtcs /\ tail'.modeset = tail.modeset
    BY <1>0, <2>1 DEF TailType, TailPc
  <2>3. Types'
    BY <1>1, <2>1, <2>2 DEF IInv, Types
  <2>4. Applied'
    BY <1>0, <1>1, <2>1, <2>2 DEF IInv, Applied, Dark
  <2>5. Powered'
    BY <1>0, <1>1, <1>2, <2>1, <2>2 DEF IInv, Powered
  <2>6. Sent'
    BY <1>0, <1>1, <2>1, <2>2 DEF IInv, Sent, Dark
  <2>7. Timely'
    <3>1. \A e \in Crtcs : crtc[e].enabled => e \in tail.crtcs
      BY <1>0 DEF IInv, Applied, Scope
    <3> QED BY <1>0, <1>1, <2>1, <2>2, <3>1 DEF IInv, Timely, Dark
  <2> QED BY <1>2, <2>3, <2>4, <2>5, <2>6, <2>7 DEF IInv
<1> QED BY <1>3, <1>4

\* The encoder is switched on: what was staged and flushed is sent.
LEMMA EncoderKeeps ==
    ASSUME IInv, encoder_enable
    PROVE  IInv'
<1> DEFINE all  == {"intf"} \cup enc.flush_mask
           told == flush_both(hw, all)
<1>0. /\ tail \in TailType /\ tail.pc = "enable" /\ enc \in EncType /\ hw \in HwType
      /\ tail.modeset /\ ~enc.enabled /\ ~enc.encoder_enabled
      /\ Scope(state, tail.crtcs, tail.modeset) /\ Panel(state, owner)
  BY DEF encoder_enable, IInv, Types, Applied, Powered, Dark
<1>1. UNCHANGED <<state, owner, crtc, user, commits, late>>
  BY DEF encoder_enable
<1>2. /\ hw' = start(told)
      /\ enc' = [enc EXCEPT !.trigger = enc.trigger /\ "lm" \notin {"intf"}, !.flush_mask = {},
                            !.encoder_enabled = TRUE, !.enabled = TRUE]
  <2>1. full_mask(enc, {"intf"}) = {"intf"}
    BY DEF full_mask
  <2> QED BY <1>0, <2>1 DEF encoder_enable, ctl_commit
<1>3. all \in SUBSET Bits
  BY <1>0 DEF EncType, Bits
<1>4. /\ told \in HwType /\ told.shadow = hw.shadow /\ told.active = hw.active
      /\ told.op = hw.op /\ told.size = hw.size /\ told.tear = hw.tear /\ told.busy = hw.busy
      /\ \A s \in Sides : told.flush[s] = hw.flush[s] \cup all
  BY <1>0, <1>3, FlushBoth
<1> HIDE DEF told
<1>5. PICK c \in Crtcs : crtc[c].enabled /\ hw.tear = Lms(c) /\ hw.op /\ Lms(c) \subseteq hw.size
  BY <1>0 DEF IInv, Powered
<1>6. /\ state[c].enable /\ \A e \in Crtcs : crtc[e].enabled => e = c
      /\ ~MoveDown => Staged(c)
  BY <1>0, <1>5 DEF IInv, Applied, Sent, Dark, Crtcs, Flushed
<1>7. /\ told.flush["left"] = told.flush["right"] /\ Halves(told.shadow) /\ Halves(told.active)
      /\ ~MoveDown => {"lm", "ctl"} \subseteq told.flush["left"]
  BY <1>4, <1>6 DEF IInv, Sent, Sides, Staged
<1>8. /\ hw' \in HwType /\ hw'.shadow = hw.shadow /\ hw'.op = hw.op /\ hw'.size = hw.size
      /\ hw'.tear = hw.tear /\ hw'.busy = hw.busy + 1 /\ Halves(hw'.active)
      /\ hw'.flush["left"] = hw'.flush["right"]
      /\ ~MoveDown => /\ hw'.active["left"] = hw.shadow["left"]
                      /\ hw'.active["right"] = hw.shadow["right"]
  <2>1. /\ start(told) \in HwType /\ start(told).shadow = told.shadow
        /\ start(told).op = told.op /\ start(told).size = told.size
        /\ start(told).tear = told.tear /\ start(told).busy = told.busy + 1
        /\ Halves(start(told).active)
        /\ start(told).flush["left"] = {} /\ start(told).flush["right"] = {}
        /\ ~MoveDown => /\ start(told).active["left"] = told.shadow["left"]
                        /\ start(told).active["right"] = told.shadow["right"]
    BY <1>4, <1>7, Start
  <2> QED BY <1>2, <1>4, <2>1
<1>9. enc' \in EncType /\ enc'.enabled = TRUE /\ enc'.encoder_enabled = TRUE
  <2>1. (enc.trigger /\ "lm" \notin {"intf"}) \in BOOLEAN
    OBVIOUS
  <2> QED BY <1>0, <1>2, <2>1 DEF EncType
<1>10. /\ tail' \in TailType /\ tail'.pc = "wait" /\ tail'.crtcs = tail.crtcs
       /\ tail'.left = tail.crtcs /\ tail'.modeset = tail.modeset
  <2>1. tail.starts + 1 \in Nat
    BY <1>0 DEF TailType
  <2>2. tail' = [tail EXCEPT !.pc = "wait", !.left = tail.crtcs, !.starts = tail.starts + 1]
    BY DEF encoder_enable
  <2> QED BY <1>0, <2>1, <2>2 DEF TailType, TailPc
<1>11. Types'
  BY <1>1, <1>8, <1>9, <1>10 DEF IInv, Types
<1>12. Panel(state, owner)' /\ Checked' /\ \A e \in Crtcs : Lms(e)' = Lms(e)
  BY <1>1, SameState
<1>13. Applied'
  BY <1>0, <1>1, <1>10 DEF IInv, Applied, Dark
<1>14. Powered'
  BY <1>1, <1>5, <1>8, <1>9, <1>10, <1>12 DEF Powered
<1>15. Sent'
  <2> SUFFICES ASSUME ~MoveDown  PROVE Sent'
    BY <1>0, <1>8, <1>10 DEF IInv, Sent
  <2>1. hw.shadow["left"].lm = state[c].mixer /\ state[c].mixer \in {0, 2}
        /\ state[c].r_mixer = right_pair[state[c].mixer]
    BY <1>0, <1>6 DEF IInv, Staged, Panel, Paired, OnePanel, StateType, Types
  <2>2. hw.shadow["right"].lm = state[c].r_mixer /\ state[c].mixer # Free
    BY <2>1 DEF IInv, Sent, Halves, Free
  <2> QED BY <1>5, <1>8, <1>10, <2>1, <2>2 DEF IInv, Sent, Dark, Lms
<1>16. Timely'
  <2>1. late = 0 => hw'.busy = 1 /\ ~crtc[c].done
    BY <1>0, <1>6, <1>8 DEF IInv, Timely, Dark, HwType, Flushed
  <2>2. c \in tail.crtcs
    BY <1>0, <1>6 DEF Scope
  <2> QED BY <1>1, <1>6, <1>9, <1>10, <2>1, <2>2 DEF Timely, Dark
<1> QED BY <1>11, <1>12, <1>13, <1>14, <1>15, <1>16 DEF IInv

\* The commit ends, and the power with it if nothing is on.
LEMMA HwDoneKeeps ==
    ASSUME IInv, hw_done
    PROVE  IInv'
<1>0. tail.pc = "wait" /\ tail.left = {} /\ hw \in HwType
  BY DEF hw_done, IInv, Types
<1>1. /\ UNCHANGED <<state, owner, crtc, enc, user, commits, late>> /\ tail' = Idle
      /\ hw' = IF \E c \in Crtcs : crtc[c].enabled THEN hw ELSE Off
  BY DEF hw_done
<1>2. Idle \in TailType /\ Idle.pc = "idle" /\ Idle.left = {} /\ Idle.crtcs = {}
      /\ Idle.modeset = FALSE
  BY DEF Idle, TailType, TailPc, Free, Crtcs
<1>3. /\ Off \in HwType /\ Off.busy = 0 /\ Off.tear = {} /\ Halves(Off.shadow)
      /\ Halves(Off.active) /\ Off.flush["left"] = Off.flush["right"]
  <2>1. Blank \in Shot
    BY DEF Blank, Shot
  <2> QED BY <2>1 DEF Off, HwType, Halves, Blank, Sides
<1>4. Types'
  BY <1>1, <1>2, <1>3 DEF IInv, Types
<1>5. Panel(state, owner)' /\ Checked' /\ \A e \in Crtcs : Lms(e)' = Lms(e)
  BY <1>1, SameState
<1>6. Applied'
  BY <1>0, <1>1, <1>2 DEF IInv, Applied, Dark
<1>7. Powered'
  BY <1>0, <1>1, <1>2, <1>3, <1>5 DEF IInv, Powered
<1>8. Sent'
  BY <1>0, <1>1, <1>2, <1>3 DEF IInv, Sent, Dark
<1>9. Timely'
  <2>1. late = 0 => hw.busy = 0
    <3>1. enc.enabled => \E c \in Crtcs : crtc[c].enabled
      BY DEF IInv, Powered
    <3> QED BY <1>0, <3>1 DEF IInv, Timely, HwType
  <2> QED BY <1>1, <1>2, <1>3, <2>1 DEF Timely, Dark
<1> QED BY <1>4, <1>5, <1>6, <1>7, <1>8, <1>9 DEF IInv

\* A frame was sent: who shows it is told.
LEMMA PpDoneKeeps ==
    ASSUME IInv, pp_done
    PROVE  IInv'
<1>0. hw.busy > 0 /\ hw \in HwType /\ crtc \in [Crtcs -> CrtcType]
  BY DEF pp_done, IInv, Types
<1>1. /\ UNCHANGED <<state, owner, enc, user, tail, commits, late>>
      /\ hw' = [hw EXCEPT !.busy = hw.busy - 1]
      /\ crtc' = [c \in Crtcs |->
                    IF crtc[c].enabled /\ state[c].mixer = hw.active["left"].lm
                    THEN [crtc[c] EXCEPT !.done = TRUE] ELSE crtc[c]]
  BY DEF pp_done
<1>2. /\ hw' \in HwType /\ hw'.shadow = hw.shadow /\ hw'.flush = hw.flush
      /\ hw'.active = hw.active /\ hw'.op = hw.op /\ hw'.size = hw.size /\ hw'.tear = hw.tear
      /\ hw'.busy = hw.busy - 1
  <2>1. hw.busy - 1 \in Nat
    BY <1>0 DEF HwType
  <2> QED BY <1>0, <1>1, <2>1 DEF HwType
<1>3. crtc' \in [Crtcs -> CrtcType] /\ \A c \in Crtcs : crtc'[c].enabled = crtc[c].enabled
  <2>1. \A c \in Crtcs : /\ [crtc[c] EXCEPT !.done = TRUE] \in CrtcType
                         /\ [crtc[c] EXCEPT !.done = TRUE].enabled = crtc[c].enabled
    BY <1>0 DEF CrtcType
  <2> QED BY <1>0, <1>1, <2>1
<1>4. Types'
  BY <1>1, <1>2, <1>3 DEF IInv, Types
<1>5. Panel(state, owner)' /\ Checked' /\ \A e \in Crtcs : Lms(e)' = Lms(e)
  BY <1>1, SameState
<1>6. flushing' = flushing
  BY <1>1, FlushingSame
<1>7. Applied'
  BY <1>1, <1>3 DEF IInv, Applied, Dark, Crtcs
<1>8. Powered'
  BY <1>1, <1>2, <1>3, <1>5 DEF IInv, Powered
<1>9. Sent'
  BY <1>0, <1>1, <1>2, <1>6 DEF IInv, Sent, Dark, Staged, Flushed
<1>10. Timely'
  <2>1. late = 0 => hw'.busy = 0 /\ tail.pc \in {"pending", "stage", "wait"} /\ ~Dark
    BY <1>0, <1>2 DEF IInv, Timely, Applied, HwType
  <2> QED BY <1>1, <2>1 DEF Timely, Dark
<1> QED BY <1>4, <1>5, <1>7, <1>8, <1>9, <1>10 DEF IInv

\* A vblank completes the flip; a CRTC that is being switched off is blanked.
LEMMA VblankKeeps ==
    ASSUME IInv, NEW c \in Crtcs, vblank_irq(c)
    PROVE  IInv'
<1>0. /\ state[c].mixer \in hw.tear /\ crtc \in [Crtcs -> CrtcType] /\ hw \in HwType
      /\ enc \in EncType /\ state \in [Crtcs -> StateType] /\ Panel(state, owner)
  BY DEF vblank_irq, IInv, Types
<1>1. /\ UNCHANGED <<state, owner, user, tail, commits, late>>
      /\ crtc' = [crtc EXCEPT ![c].vblank = FALSE, ![c].event = 0]
      /\ IF state[c].ctl /\ ~state[c].enable THEN blend(c, 0) ELSE UNCHANGED <<hw, enc>>
  BY DEF vblank_irq, complete_flip
<1>2. /\ crtc' \in [Crtcs -> CrtcType]
      /\ \A e \in Crtcs : crtc'[e].enabled = crtc[e].enabled /\ crtc'[e].done = crtc[e].done
  <2> DEFINE new == [crtc[c] EXCEPT !.vblank = FALSE, !.event = 0]
  <2>1. crtc' = [crtc EXCEPT ![c] = new]
    BY <1>0, <1>1
  <2>2. new \in CrtcType /\ new.enabled = crtc[c].enabled /\ new.done = crtc[c].done
    BY <1>0 DEF CrtcType
  <2> HIDE DEF new
  <2> QED BY <1>0, <2>1, <2>2
<1>3. Panel(state, owner)' /\ Checked' /\ \A e \in Crtcs : Lms(e)' = Lms(e)
  BY <1>1, SameState
<1>4. flushing' = flushing
  BY <1>1, FlushingSame
<1>5. /\ hw' \in HwType /\ enc' \in EncType /\ Halves(hw'.shadow)
      /\ hw'.active = hw.active /\ hw'.flush = hw.flush /\ hw'.op = hw.op
      /\ hw'.size = hw.size /\ hw'.tear = hw.tear /\ hw'.busy = hw.busy
      /\ (enc.trigger => enc'.trigger) /\ enc'.flush_mask = enc.flush_mask
      /\ enc'.enabled = enc.enabled /\ enc'.encoder_enabled = enc.encoder_enabled
      /\ hw'.shadow = hw.shadow \/ tail.pc \in {"deps", "before"}
  <2>1. CASE state[c].ctl /\ ~state[c].enable
    <3>1. PICK e \in Crtcs : crtc[e].enabled /\ hw.tear = Lms(e)
      BY <1>0 DEF IInv, Powered
    <3>2. state[e].mixer # Free /\ state[e].r_mixer \in {1, 5} /\ state[e].mixer \in {0, 2}
          /\ (state[e].enable \/ tail.pc \in {"deps", "before"})
      <4>1. state[e].mixer # Free /\ (state[e].enable \/ tail.pc \in {"deps", "before"})
        BY <1>0, <3>1 DEF IInv, Applied, Panel, OnePanel
      <4> QED BY <1>0, <4>1 DEF Panel, Paired, StateType, right_pair
    <3>3. c = e
      <4>1. state[c].mixer \in {Free, 0, 2} /\ state[c].mixer \in Lms(e)
        BY <1>0, <3>1 DEF StateType
      <4>2. state[c].mixer = state[e].mixer
        BY <3>2, <4>1 DEF Lms, Free
      <4> QED BY <1>0, <3>2, <4>2 DEF Panel, Paired
    <3>4. blend(c, 0) /\ state[c].mixer # Free /\ tail.pc \in {"deps", "before"}
      BY <1>1, <2>1, <3>2, <3>3
    <3> QED BY <3>4, Blend
  <2>2. CASE ~(state[c].ctl /\ ~state[c].enable)
    BY <1>0, <1>1, <2>2 DEF IInv, Sent
  <2> QED BY <2>1, <2>2
<1>6. Types'
  BY <1>1, <1>2, <1>5 DEF IInv, Types
<1>7. Applied'
  BY <1>1, <1>2, <1>5 DEF IInv, Applied, Dark, Crtcs
<1>8. Powered'
  BY <1>1, <1>2, <1>3, <1>5 DEF IInv, Powered
<1>9. Sent'
  BY <1>1, <1>4, <1>5 DEF IInv, Sent, Dark, Staged, Flushed
<1>10. Timely'
  <2>1. tail.pc = "flush" => flushing \in Crtcs
    BY Flushing DEF IInv, Types, Applied
  <2> QED BY <1>1, <1>2, <1>4, <1>5, <2>1 DEF IInv, Timely, Dark, Flushed
<1> QED BY <1>3, <1>6, <1>7, <1>8, <1>9, <1>10 DEF IInv

-----------------------------------------------------------------------------
(* The theorems *)

\* The board starts dark, without a commit and without an owner of any mixer.
LEMMA InitInvariant == Init => IInv
<1> SUFFICES ASSUME Init  PROVE IInv
  OBVIOUS
<1>1. Off \in HwType /\ Idle \in TailType /\ State0 \in StateType
  <2>1. Blank \in Shot
    BY DEF Blank, Shot
  <2>2. Off \in HwType
    BY <2>1 DEF Off, HwType, Sides
  <2>3. Idle \in TailType
    BY DEF Idle, TailType, TailPc, Free, Crtcs
  <2> QED BY <2>2, <2>3 DEF State0, StateType, Free
<1>2. \A c \in Crtcs : /\ state[c] = State0 /\ ~crtc[c].enabled
                       /\ crtc[c] \in CrtcType
  BY DEF Init, CrtcType
<1>3. \A c \in Crtcs : state[c].mixer = Free /\ state[c].r_mixer = Free
                       /\ ~state[c].enable /\ ~state[c].active
  BY <1>2 DEF State0
<1>4. NoCommit \in UserType /\ owner \in OwnerType /\ \A m \in Mixers : owner[m] = Free
  <2>1. [m \in Mixers |-> Free] \in OwnerType
    BY DEF OwnerType
  <2>2. [c \in Crtcs |-> State0] \in [Crtcs -> StateType]
    BY <1>1
  <2> QED BY <2>1, <2>2 DEF Init, NoCommit, UserType
<1>5. Types
  <2>1. state \in [Crtcs -> StateType] /\ crtc \in [Crtcs -> CrtcType]
    BY <1>1, <1>2 DEF Init
  <2>2. enc \in EncType
    BY DEF Init, EncType
  <2> QED BY <1>1, <1>4, <2>1, <2>2 DEF Init, Types
<1>6. Panel(state, owner)
  <2>1. right_pair[0] \in Mixers /\ right_pair[2] \in Mixers /\ 0 \in Mixers /\ 2 \in Mixers
    BY DEF right_pair, Mixers
  <2>2. Free \notin Crtcs /\ Free \notin {0, 2}
    BY DEF Free, Crtcs
  <2>3. Paired(state, owner)
    BY <1>3, <1>4, <2>1, <2>2 DEF Paired
  <2> QED BY <1>3, <2>3 DEF Panel, OnePanel, Crtcs
<1>7. Checked
  BY DEF Init, Checked
<1>8. Applied
  BY <1>2, <1>3 DEF Init, Applied, Idle, Dark, Crtcs
<1>9. Powered
  BY DEF Init, Powered, Idle, Off
<1>10. Sent
  BY DEF Init, Sent, Idle, Off, Halves, Blank, Dark, Sides
<1>11. Timely
  BY DEF Init, Timely, Idle, Off, Dark
<1> QED BY <1>5, <1>6, <1>7, <1>8, <1>9, <1>10, <1>11 DEF IInv

\* Every step of a commit, of its tail and of the interrupts keeps the invariant.
LEMMA Step == IInv /\ [Next]_vars => IInv'
<1> SUFFICES ASSUME IInv, [Next]_vars  PROVE IInv'
  OBVIOUS
<1>1. CASE UNCHANGED vars
  <2>1. /\ UNCHANGED <<state, owner, crtc, enc, hw>>
        /\ UNCHANGED <<user, tail, commits, late>>
    BY <1>1 DEF vars
  <2>2. flushing' = flushing
    BY <2>1 DEF flushing
  <2>3. Types' /\ Panel(state, owner)' /\ Checked'
    BY <2>1 DEF IInv, Types, Panel, Paired, OnePanel, Checked, swapped, Scope
  <2>4. Applied' /\ Powered'
    BY <2>1 DEF IInv, Applied, Powered, Dark, Scope, Lms
  <2>5. Sent' /\ Timely'
    BY <2>1, <2>2 DEF IInv, Sent, Timely, Dark, Halves, Staged, Flushed
  <2> QED BY <2>3, <2>4, <2>5 DEF IInv
<1>2. CASE \E d \in Crtcs \cup {Free}, active, mode \in BOOLEAN : check(d, active, mode)
  BY <1>2, CheckKeeps
<1>3. CASE swap
  BY <1>3, SwapKeeps
<1>4. CASE deps
  BY <1>4, DepsKeeps
<1>5. CASE \E c \in Crtcs : wait_for_commit_done(c)
  BY <1>5, WaitKeeps
<1>6. CASE modeset_disables
  BY <1>6, DisablesKeep
<1>7. CASE stage
  BY <1>7, StageKeeps
<1>8. CASE flush
  BY <1>8, FlushKeeps
<1>9. CASE pending
  BY <1>9, PendingKeeps
<1>10. CASE \E ok \in BOOLEAN : modeset_enables(ok)
  BY <1>10, EnablesKeep
<1>11. CASE encoder_enable
  BY <1>11, EncoderKeeps
<1>12. CASE hw_done
  BY <1>12, HwDoneKeeps
<1>13. CASE pp_done
  BY <1>13, PpDoneKeeps
<1>14. CASE \E c \in Crtcs : vblank_irq(c)
  BY <1>14, VblankKeeps
<1> QED BY <1>1, <1>2, <1>3, <1>4, <1>5, <1>6, <1>7, <1>8, <1>9, <1>10, <1>11, <1>12, <1>13,
           <1>14 DEF Next, Tail

\* Both halves of the panel always get the same frame, from a pair of mixers that is
\* sized and routed: what blend_setup() stages goes to both CTLs before START.  A commit
\* that moves the panel to a CRTC of lower index is excluded: the one that lost it is
\* flushed last then, over what the other has staged.
THEOREM HalvesInStepAlways == ASSUME ~MoveDown PROVE Spec => []HalvesInStep
<1>1. ~MoveDown /\ IInv => HalvesInStep
  BY DEF IInv, Sent, HalvesInStep, Halves, Free
<1>2. IInv /\ [Next]_vars => IInv'
  BY Step
<1> QED BY <1>1, <1>2, InitInvariant, PTL DEF Spec

\* The links are never cut under a frame that is in time: mdp5_cmd_encoder_disable()
\* comes after the wait for it, whatever else was committed in between.
THEOREM FrameNotCutAlways == Spec => []FrameNotCut
<1>1. IInv => FrameNotCut
  <2>1. IInv /\ enc.enabled => hw.tear # {}
    BY DEF IInv, Powered, Lms
  <2> QED BY <2>1 DEF IInv, Timely, FrameNotCut
<1>2. IInv /\ [Next]_vars => IInv'
  BY Step
<1> QED BY <1>1, <1>2, InitInvariant, PTL DEF Spec
=============================================================================
