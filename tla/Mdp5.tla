-------------------------------- MODULE Mdp5 --------------------------------
(***************************************************************************)
(* The MDP5 display controller driver on this board: a command mode panel  *)
(* on two bonded DSI links, so that a CRTC drives two layer mixers, each   *)
(* through a CTL and an interface of its own (mdp5_crtc, mdp5_mixer,       *)
(* mdp5_ctl, mdp5_encoder, mdp5_cmd_encoder).  A commit is checked against *)
(* the current state, swapped in and applied by its tail, beside the       *)
(* interrupts of the ping-pong blocks.  The hardware, the order in which   *)
(* msm_atomic_commit_tail() and the DRM core call the driver, and the user *)
(* are external.                                                           *)
(***************************************************************************)
EXTENDS Integers

CONSTANTS
    MaxCommits,  \* bound: the commits
    MaxLate,     \* bound: the frames that take longer than the driver waits
    MaxFaults,   \* bound: failures of the tear check's clock
    Racing,      \* whether a blocking flip is checked while a tail runs
    MoveDown     \* whether one commit moves the panel to a CRTC of lower index

ASSUME Mdp5Assumption ==
    /\ MaxCommits \in Nat /\ MaxLate \in Nat /\ MaxFaults \in Nat
    /\ Racing \in BOOLEAN /\ MoveDown \in BOOLEAN

VARIABLES
    state,   \* crtc->state of each CRTC
    owner,   \* hwmixer_to_crtc of the global state
    crtc,    \* struct mdp5_crtc
    enc,     \* the master encoder and its CTL
    hw,      \* the registers of both halves and the frames being sent
    user,    \* the commit that is checked and not swapped in, if any
    tail,    \* the commit that is being applied
    commits, late, faults

vars == <<state, owner, crtc, enc, hw, user, tail, commits, late, faults>>

-----------------------------------------------------------------------------
(* State *)

Crtcs == {0, 1}
Sides == {"left", "right"}
Free  == -1   \* no mixer, no CRTC, no owner

\* The layer mixers that drive a display, and lm_right_pair[].
Mixers == {0, 1, 2, 5}
right_pair == [m \in {0, 2} |-> IF m = 0 THEN 1 ELSE 5]

\* What a CTL stages or shows: a mixer with a commit's frame; 0 is the border.
Blank  == [lm |-> Free, frame |-> 0]

\* After a power collapse.
Off == [shadow |-> [s \in Sides |-> Blank], flush |-> [s \in Sides |-> {}],
        active |-> [s \in Sides |-> Blank],
        op |-> FALSE, size |-> {}, tear |-> {}, busy |-> 0]

State0 == [enable |-> FALSE, active |-> FALSE, frame |-> 0, event |-> 0, ctl |-> FALSE,
           defer |-> FALSE, mixer |-> Free, r_mixer |-> Free]

NoCommit == [new |-> [c \in Crtcs |-> State0], owner |-> [m \in Mixers |-> Free],
             crtcs |-> {}, modeset |-> FALSE]

Idle == [pc |-> "idle", crtcs |-> {}, left |-> {}, modeset |-> FALSE, old |-> Free,
         starts |-> 0]

Init ==
    /\ state = [c \in Crtcs |-> State0]
    /\ owner = [m \in Mixers |-> Free]
    /\ crtc = [c \in Crtcs |->
                 [enabled |-> FALSE, event |-> 0, vblank |-> FALSE, done |-> FALSE]]
    /\ enc = [enabled |-> FALSE, encoder_enabled |-> FALSE, flush_mask |-> {}, trigger |-> FALSE]
    /\ hw = Off
    /\ user = NoCommit /\ tail = Idle
    /\ commits = 0 /\ late = 0 /\ faults = 0

\* The CRTC whose state has the connector.
attached(st) == IF \E c \in Crtcs : st[c].enable THEN CHOOSE c \in Crtcs : st[c].enable ELSE Free

-----------------------------------------------------------------------------
(* Checking a commit *)

\* The left mixers that mdp5_mixer_assign() can give to c with their pair.
candidates(own, c) ==
    {m \in DOMAIN right_pair : own[m] \in {Free, c} /\ own[right_pair[m]] = Free}

\* mdp5_mixer_assign() of a pair, to a CRTC that has no mixer yet: the first
\* pairable one.
mixer_assign(own, c) ==
    LET left == CHOOSE m \in candidates(own, c) : \A n \in candidates(own, c) : m <= n
    IN  <<left, right_pair[left]>>

\* mdp5_encoder_atomic_check() of a state with the connector: ctl and pipeline,
\* and START is left to the encoder's enable.
encoder_check(st, needs_modeset) ==
    IF ~needs_modeset THEN st ELSE [st EXCEPT !.ctl = TRUE, !.defer = TRUE]

\* mdp5_crtc_setup_pipeline(): two mixers, once.
setup_pipeline(st, own, c) ==
    IF st.mixer # Free THEN <<st, own>>
    ELSE LET pair == mixer_assign(own, c)
         IN  <<[st EXCEPT !.mixer = pair[1], !.r_mixer = pair[2]],
               [own EXCEPT ![pair[1]] = c, ![pair[2]] = c]>>

\* mdp5_crtc_atomic_check(): for a state with a visible plane.
crtc_check(st, own, c) == IF st.frame = 0 THEN <<st, own>> ELSE setup_pipeline(st, own, c)

\* A commit: the panel on CRTC d (or on none), lit or not, with a frame; mode
\* asks for a modeset that changes neither; the core gives a CRTC that is or gets
\* active an event.  With Racing, a blocking flip gets as far as this while the
\* tail of a nonblocking commit runs.
check(d, active, mode) ==
    LET c     == attached(state)
        needs == d # c \/ (d # Free /\ active # state[d].active) \/ mode
        n     == commits + 1
        Told(st, c1) == IF st.active \/ state[c1].active THEN [st EXCEPT !.event = n] ELSE st
        lost  == [State0 EXCEPT !.ctl = state[c].ctl, !.defer = state[c].defer,
                                !.mixer = state[c].mixer, !.r_mixer = state[c].r_mixer]
        old   == IF d = c \/ c = Free THEN state ELSE [state EXCEPT ![c] = Told(lost, c)]
        shown == encoder_check([state[d] EXCEPT !.enable = TRUE, !.active = active,
                                                !.frame = n], needs)
        both  == crtc_check(Told(shown, d), owner, d)
    IN  /\ user = NoCommit /\ commits < MaxCommits
        /\ tail.pc = "idle" \/ (Racing /\ ~needs)
        /\ {c, d} # {Free} /\ (active \/ needs)
        /\ d < c /\ d # Free => MoveDown
        /\ d # Free /\ mode => state[d].active /\ active
        /\ d = Free => ~active /\ ~mode
        /\ commits' = n
        /\ user' = IF d = Free
                   THEN [new |-> old, owner |-> owner, crtcs |-> {c}, modeset |-> TRUE]
                   ELSE [new |-> [old EXCEPT ![d] = both[1]], owner |-> both[2],
                         crtcs |-> {c, d} \ {Free}, modeset |-> needs]
        /\ UNCHANGED <<state, owner, crtc, enc, hw, tail, late, faults>>

\* drm_atomic_helper_swap_state(), once the tail before it has signalled
\* hw_done, and the start of the tail.
swap ==
    /\ user # NoCommit /\ tail.pc = "idle"
    /\ state' = [c \in Crtcs |-> IF c \in user.crtcs THEN user.new[c] ELSE state[c]]
    /\ owner' = user.owner
    /\ tail' = [Idle EXCEPT !.pc = "deps", !.crtcs = user.crtcs, !.modeset = user.modeset,
                            !.old = IF \E c \in Crtcs : crtc[c].enabled
                                    THEN CHOOSE c \in Crtcs : crtc[c].enabled ELSE Free]
    /\ user' = NoCommit
    /\ UNCHANGED <<crtc, enc, hw, commits, late, faults>>

-----------------------------------------------------------------------------
(* The tail of a commit *)

Goto(pc) == tail' = [tail EXCEPT !.pc = pc, !.left = tail.crtcs]

\* The tail waits for the flips before it; a flip whose interrupt is off times
\* out.
deps ==
    /\ tail.pc = "deps"
    /\ \A c \in tail.crtcs : crtc[c].event = 0 \/ state[c].mixer \notin hw.tear
    /\ Goto("before")
    /\ UNCHANGED <<state, owner, crtc, enc, hw, user, commits, late, faults>>

\* mdp5_crtc_wait_for_pp_done(): 50 ms, for a frame that is late or one that was
\* never sent.
wait_for_pp_done(c) ==
    \/ (crtc[c].done \/ hw.busy = 0) /\ UNCHANGED late
    \/ ~crtc[c].done /\ hw.busy > 0 /\ late < MaxLate /\ late' = late + 1

\* mdp5_crtc_wait_for_commit_done(): an enabled CRTC waits for its frame.
wait_for_commit_done(c) ==
    /\ tail.pc \in {"before", "wait"} /\ c \in tail.left
    /\ IF crtc[c].enabled THEN wait_for_pp_done(c) ELSE UNCHANGED late
    /\ tail' = [tail EXCEPT !.left = @ \ {c}]
    /\ UNCHANGED <<state, owner, crtc, enc, hw, user, commits, faults>>

\* What mdp5_ctl_commit() adds to a mask: "ctl" when the staged layers go with it.
full_mask(e, mask) == IF e.trigger /\ "lm" \in mask THEN mask \cup {"ctl"} ELSE mask

\* Mutant: the slave CTL waits for the master's single flush, as in video mode.
flush_master(h, mask) == [h EXCEPT !.flush["left"] = @ \cup mask]

\* The writes to the FLUSH registers of both CTLs.
flush_both(h, mask) == [h EXCEPT !.flush = [s \in Sides |-> @[s] \cup mask]]

\* START: what was flushed becomes active and the frame is sent; the slave
\* interface follows the master's trigger.
start(h) ==
    [h EXCEPT !.active = [s \in Sides |-> IF {"lm", "ctl"} \subseteq h.flush[s]
                                          THEN h.shadow[s] ELSE @[s]],
              !.flush = [s \in Sides |-> {}],
              !.busy = @ + 1]

\* mdp5_ctl_commit(): without start the mask is kept for the next one.
ctl_commit(mask, go) ==
    LET full    == full_mask(enc, mask)
        flushed == flush_both(hw, full \cup enc.flush_mask)
    IN  [enc |-> [enc EXCEPT !.trigger = @ /\ "lm" \notin mask,
                             !.flush_mask = IF go THEN {} ELSE @ \cup full],
         hw  |-> IF ~go THEN hw ELSE IF enc.encoder_enabled THEN start(flushed) ELSE flushed,
         starts |-> IF go /\ enc.encoder_enabled THEN 1 ELSE 0]

\* pingpong_tearcheck_disable()
tearcheck_disable(h) == [h EXCEPT !.tear = {}]

\* mdp5_cmd_encoder_disable(): the flush goes without START.
cmd_encoder_disable ==
    IF ~enc.enabled THEN UNCHANGED <<enc, hw>>
    ELSE /\ enc' = [enc EXCEPT !.enabled = FALSE, !.encoder_enabled = FALSE, !.flush_mask = {}]
         /\ hw' = flush_both(tearcheck_disable(hw), {"intf"} \cup enc.flush_mask)

\* mdp5_crtc_atomic_disable(): the event of a CRTC that stays dark is sent.
crtc_atomic_disable(c) ==
    /\ crtc' = [crtc EXCEPT ![c].enabled = FALSE]
    /\ state' = IF state[c].active THEN state ELSE [state EXCEPT ![c].event = 0]

\* drm_atomic_helper_commit_modeset_disables()
modeset_disables ==
    /\ tail.pc = "before" /\ tail.left = {}
    /\ IF tail.modeset /\ tail.old # Free
       THEN cmd_encoder_disable /\ crtc_atomic_disable(tail.old)
       ELSE UNCHANGED <<enc, hw, crtc, state>>
    /\ Goto("stage")
    /\ UNCHANGED <<owner, user, commits, late, faults>>

\* mdp5_ctl_blend() with the planes of c, or with none.
blend(c, frame) ==
    /\ hw' = [hw EXCEPT !.shadow = [s \in Sides |->
                 [lm |-> IF s = "left" THEN state[c].mixer ELSE state[c].r_mixer,
                  frame |-> frame]]]
    /\ enc' = [enc EXCEPT !.trigger = TRUE]

\* blend_setup(): the planes of c.
blend_setup(c) == blend(c, state[c].frame)

\* The CRTC whose atomic_flush() runs: the tail takes them by index.
flushing == CHOOSE c \in tail.left : \A d \in tail.left : c <= d

\* Mutant: request_pp_done_pending() is left out.
stage_done ==
    LET c == flushing
    IN  /\ tail.pc = "stage" /\ tail.left # {}
        /\ crtc' = [crtc EXCEPT ![c].event = state[c].event]
        /\ state' = [state EXCEPT ![c].event = 0]
        /\ blend_setup(c)
        /\ tail' = [tail EXCEPT !.pc = "flush"]
        /\ UNCHANGED <<owner, user, commits, late, faults>>

\* mdp5_crtc_atomic_flush() up to the flush: the event, blend_setup() and
\* request_pp_done_pending().
stage ==
    LET c == flushing
    IN  /\ tail.pc = "stage" /\ tail.left # {}
        /\ crtc' = [crtc EXCEPT ![c].event = state[c].event, ![c].done = FALSE]
        /\ state' = [state EXCEPT ![c].event = 0]
        /\ blend_setup(c)
        /\ tail' = [tail EXCEPT !.pc = "flush"]
        /\ UNCHANGED <<owner, user, commits, late, faults>>

\* crtc_flush_all(): START now, unless the encoder's enable is to send it.
flush ==
    LET c == flushing
        r == ctl_commit({"lm"}, ~state[c].defer)
    IN  /\ tail.pc = "flush"
        /\ enc' = r.enc /\ hw' = r.hw
        /\ state' = [state EXCEPT ![c].defer = FALSE]
        /\ tail' = [tail EXCEPT !.pc = "pending", !.starts = @ + r.starts]
        /\ UNCHANGED <<owner, crtc, user, commits, late, faults>>

\* Mutant: a CRTC that is not enabled yet asks for no vblank.
pending_enabled ==
    LET c == flushing
    IN  /\ tail.pc = "pending"
        /\ crtc' = [crtc EXCEPT ![c].vblank = @ \/ crtc[c].enabled]
        /\ tail' = [tail EXCEPT !.pc = "stage", !.left = @ \ {c}]
        /\ UNCHANGED <<state, owner, enc, hw, user, commits, late, faults>>

\* request_pending(PENDING_FLIP)
pending ==
    LET c == flushing
    IN  /\ tail.pc = "pending"
        /\ crtc' = [crtc EXCEPT ![c].vblank = TRUE]
        /\ tail' = [tail EXCEPT !.pc = "stage", !.left = @ \ {c}]
        /\ UNCHANGED <<state, owner, enc, hw, user, commits, late, faults>>

lit == \E c \in tail.crtcs : state[c].active

\* mdp5_crtc_mode_set_nofb(): the mixers' size.
mode_set_nofb(h, lms) == [h EXCEPT !.size = @ \cup lms]

\* set_ctl_op_split(), of mdp5_ctl_set_pipeline().
set_ctl_op(h) == [h EXCEPT !.op = TRUE]

\* pingpong_tearcheck_enable()
tearcheck_enable(h, lms) == [h EXCEPT !.tear = lms]

\* mdp5_crtc_atomic_enable()
crtc_atomic_enable(c) == crtc' = [crtc EXCEPT ![c].enabled = TRUE]

\* drm_atomic_helper_commit_modeset_enables() up to the tear check, which fails
\* with its clock.
modeset_enables(ok) ==
    LET c   == attached(state)
        lms == {state[c].mixer, state[c].r_mixer}
    IN  /\ tail.pc = "stage" /\ tail.left = {}
        /\ IF tail.modeset /\ lit
           THEN /\ ok \/ faults < MaxFaults
                /\ faults' = IF ok THEN faults ELSE faults + 1
                /\ crtc_atomic_enable(c)
                /\ LET set == set_ctl_op(mode_set_nofb(hw, lms))
                   IN  hw' = IF ok THEN tearcheck_enable(set, lms) ELSE set
                /\ Goto(IF ok THEN "enable" ELSE "wait")
           ELSE ok /\ UNCHANGED <<crtc, hw, faults>> /\ Goto("wait")
        /\ UNCHANGED <<state, owner, enc, user, commits, late>>

\* The rest of mdp5_cmd_encoder_enable(): everything accumulated is flushed,
\* then mdp5_ctl_set_encoder_state() sends START.
encoder_enable ==
    LET r == ctl_commit({"intf"}, TRUE)
    IN  /\ tail.pc = "enable"
        /\ hw' = start(r.hw)
        /\ enc' = [r.enc EXCEPT !.encoder_enabled = TRUE, !.enabled = TRUE]
        /\ tail' = [tail EXCEPT !.pc = "wait", !.left = tail.crtcs, !.starts = @ + 1]
        /\ UNCHANGED <<state, owner, crtc, user, commits, late, faults>>

\* hw_done; without an enabled CRTC the power goes with the end of the commit.
hw_done ==
    /\ tail.pc = "wait" /\ tail.left = {}
    /\ tail' = Idle
    /\ hw' = IF \E c \in Crtcs : crtc[c].enabled THEN hw ELSE Off
    /\ UNCHANGED <<state, owner, crtc, enc, user, commits, late, faults>>

-----------------------------------------------------------------------------
(* The interrupts *)

\* mdp5_crtc_pp_done_irq(): the left half of a frame was sent.
pp_done ==
    /\ hw.busy > 0
    /\ hw' = [hw EXCEPT !.busy = @ - 1]
    /\ crtc' = [c \in Crtcs |->
                  IF crtc[c].enabled /\ state[c].mixer = hw.active["left"].lm
                  THEN [crtc[c] EXCEPT !.done = TRUE] ELSE crtc[c]]
    /\ UNCHANGED <<state, owner, enc, user, tail, commits, late, faults>>

\* complete_flip(): the event is sent; a state without a connector unstages.
complete_flip(c) ==
    /\ crtc' = [crtc EXCEPT ![c].vblank = FALSE, ![c].event = 0]
    /\ IF state[c].ctl /\ ~state[c].enable THEN blend(c, 0) ELSE UNCHANGED <<hw, enc>>

\* mdp5_crtc_vblank_irq(), at the tear check's read pointer.
vblank_irq(c) ==
    /\ crtc[c].vblank /\ state[c].mixer \in hw.tear
    /\ complete_flip(c)
    /\ UNCHANGED <<state, owner, user, tail, commits, late, faults>>

-----------------------------------------------------------------------------
(* The specification *)

Tail ==
    \/ swap \/ deps \/ modeset_disables \/ stage \/ flush \/ pending \/ encoder_enable \/ hw_done
    \/ \E c \in Crtcs : wait_for_commit_done(c)
    \/ \E ok \in BOOLEAN : modeset_enables(ok)

Next ==
    \/ \E d \in Crtcs \cup {Free}, active, mode \in BOOLEAN : check(d, active, mode)
    \/ Tail \/ pp_done \/ \E c \in Crtcs : vblank_irq(c)

Spec == Init /\ [][Next]_vars

\* A tail goes on, a frame that was started is sent, the read pointer comes.
FairSpec ==
    Spec /\ WF_vars(Tail) /\ WF_vars(pp_done) /\ \A c \in Crtcs : WF_vars(vblank_irq(c))

-----------------------------------------------------------------------------
(* Properties *)

\* Both halves of the panel always get the same frame, from a pair of mixers,
\* with sizes and routing programmed since the last power collapse.
HalvesInStep ==
    /\ hw.active["left"].frame = hw.active["right"].frame
    /\ hw.busy > 0 =>
        /\ hw.active["right"].lm = right_pair[hw.active["left"].lm]
        /\ hw.op /\ {hw.active["left"].lm, hw.active["right"].lm} \subseteq hw.size

\* The panel's links are never cut under a frame, unless one was late.
FrameNotCut == late = 0 /\ hw.busy > 0 => enc.enabled /\ hw.tear # {}

\* Commits end, whatever the hardware does not answer, and the events of a
\* display that works are all sent.
EventSent ==
    []<>(/\ tail.pc = "idle" /\ user = NoCommit
         /\ \A c \in Crtcs : enc.enabled => crtc[c].event = 0)

\* What mdp5_encoder_atomic_check() says of an update without a modeset: START
\* is sent from atomic_flush().  It does not hold: README, section 4.
FlipStarts ==
    tail.pc = "wait" /\ ~tail.modeset /\ lit /\ enc.encoder_enabled => tail.starts = 1

\* What mdp5_crtc_atomic_flush() says of a CRTC whose state is disabled:
\* nothing else needs to be done, so that a frame another CRTC staged stays.
\* It does not hold: README, section 4.
StagedStays ==
    [][tail.pc = "stage" /\ tail.left # {} /\ ~state[flushing].enable
       /\ (\E c \in tail.crtcs \ tail.left : state[c].active) => hw'.shadow = hw.shadow]_vars
=============================================================================
