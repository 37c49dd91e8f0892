------------------------------ MODULE Q6Audio ------------------------------
(***************************************************************************)
(* Sound over the DSP's TDM ports: the machine driver's bit clocks         *)
(* (apq8096.c), the AFE ports (q6afe-dai.c, q6afe.c) with the commands     *)
(* that may be refused, lost, or answered after the driver gave up, the    *)
(* streams' routes and COPPs (q6routing.c), and one of the amplifiers      *)
(* (RT5508).  The mutex of the sound card serialises the PCM operations;   *)
(* a mixer control sets its bit, and a volume control runs, outside it,    *)
(* between the steps of a prepare and of the amplifier's power sequence.   *)
(* External: the PCM and DAPM cores (which back ends a stream has, the     *)
(* unwinding of a failed open, the power sequence), the DSP and q6adm.     *)
(***************************************************************************)
EXTENDS Integers, FiniteSets, SequencesExt, RT5508

CONSTANTS
    Streams,   \* front ends
    Ports,     \* TDM ports
    Routable,  \* the ports that each stream has mixer controls for
    Tdm,       \* the interface of each port
    Speaker,   \* the port of the amplifier
    MaxFaults, \* bound: commands and transfers that fail
    MaxCommands \* bound: the command of an operation that may fail is one of the first

ASSUME Q6AudioAssumption ==
    /\ IsFiniteSet(Streams) /\ IsFiniteSet(Ports)
    /\ Routable \in [Streams -> SUBSET Ports] /\ Speaker \in Ports
    /\ MaxFaults \in Nat /\ MaxCommands \in Nat
    /\ DOMAIN Tdm = Ports

Interfaces == {Tdm[p] : p \in Ports}
Stages     == {"closed", "open", "params", "prepared"}
TDM_SLOTS  == 4
SlotWidth  == 16
Rate       == 48000
BCLK       == TDM_SLOTS * SlotWidth * Rate   \* TDM_BCLK_RATE

VARIABLES
    card,     \* drivers: ports (with a struct), port_cfg, clk_count, started, slots, tdm,
              \* port_data, port_map, copps
    dsp,      \* the DSP: clk, running, adm (references to the COPP of a port)
    amp,      \* the amplifier
    late,     \* answers on their way to a command that nobody waits for any more
    fe,       \* of each stream: stage, connected mixers, back ends, the amplifier's power asked for
    prepared, \* the back ends that some stream has prepared, until it frees or leaves them
    put,      \* mixer control between its bit and DAPM: [s, p, on]
    pc,       \* step of a prepare or of the power sequence, or "idle"
    stream,   \* the stream in prepare(), or "none"
    dapm,     \* DAPM has the amplifier powered
    clean,    \* history: no transfer of the last power-up failed
    faults

pcm  == <<fe, prepared, put, stream, dapm>>
vars == <<card, dsp, amp, late, pcm, pc, clean, faults>>
-----------------------------------------------------------------------------
None    == [s |-> "none"]
Closed  == [stage |-> "closed", route |-> {}, be |-> {}, on |-> FALSE]
Card0   == [ports |-> {}, port_cfg |-> {}, clk_count |-> [i \in Interfaces |-> 0],
            started |-> {}, slots |-> {}, tdm |-> {}, port_data |-> {}, port_map |-> [s \in Streams |-> {}],
            copps |-> [s \in Streams |-> {}]]

Init == /\ card = Card0 /\ amp = Amp0 /\ late = {}
        /\ dsp = [clk |-> {}, running |-> {}, adm |-> [p \in Ports |-> 0]]
        /\ fe = [s \in Streams |-> Closed] /\ prepared = {} /\ put = None /\ pc = "idle"
        /\ stream = "none" /\ dapm = FALSE /\ clean = TRUE /\ faults = 0

(* A world: what an operation does, command by command, until the one       *)
(* number at fails, in the way how says.                                   *)
Hows  == {"refused", "lost", "late", "late refused"}
World == [card |-> card, dsp |-> dsp, amp |-> amp, late |-> late,
          ok |-> TRUE, at |-> 0, how |-> "refused"]
Keep(w) == /\ w.at = 0
           /\ card' = w.card /\ dsp' = w.dsp /\ amp' = w.amp /\ late' = w.late
\* The worlds of an operation: nothing fails, or one thing does.
Failing(n, h) == [World EXCEPT !.at = n, !.how = h]
Worlds == {World} \union (IF faults = MaxFaults THEN {}
                          ELSE {Failing(n, h) : n \in 1..MaxCommands, h \in Hows})
Count(x) == faults' = IF x.at = 0 THEN faults ELSE faults + 1
\* The ports of S in order, each handled by Do unless one before failed.
Each(w, S, Do(_, _)) ==
    LET order == SetToSeq(S)
        after[n \in 0..Len(order)] == IF n = 0 THEN w ELSE Do(after[n - 1], order[n])
    IN  after[Len(order)]

(* A command to the DSP, and its answer.  The DSP answers in order, so an   *)
(* answer that is its own means that no earlier one is still on its way;   *)
(* a late one for the same token and opcode is taken as the command's own. *)
afe_apr_send_pkt(w, token, opcode, done) ==
    LET how   == IF w.at = 1 THEN w.how ELSE "ok"
        own   == [token |-> token, opcode |-> opcode, ok |-> how \in {"ok", "late"}]
        stale == {a \in w.late : a.token = token /\ a.opcode = opcode}
        sent  == [w EXCEPT !.at = IF @ = 0 THEN 0 ELSE @ - 1,
                           !.dsp = IF own.ok THEN done ELSE @]
        answered(good, answers) == [sent EXCEPT !.ok = good, !.late = answers]
    IN  IF ~w.ok THEN w
        ELSE IF stale # {} THEN answered((CHOOSE a \in stale : TRUE).ok,
                                         IF how = "lost" THEN {} ELSE {own})
        ELSE CASE how \in {"ok", "refused"} -> answered(own.ok, {})
               [] how = "lost"              -> answered(FALSE, w.late)
               [] OTHER                     -> answered(FALSE, w.late \union {own})

(* AFE *)
set_param(w, p, done)    == afe_apr_send_pkt(w, p, "svc_set_param", done)
set_param_v2(w, p, done) == afe_apr_send_pkt(w, p, "set_param_v2", done)
port_stop(w, p)  == afe_apr_send_pkt(w, p, "stop", [w.dsp EXCEPT !.running = @ \ {p}])
port_start(w, p) == LET c == set_param_v2(w, p, w.dsp)
                    IN  afe_apr_send_pkt(c, p, "start", [c.dsp EXCEPT !.running = @ \union {p}])
q6afe_port_set_sysclk(w, p, freq) ==
    set_param(w, p, [w.dsp EXCEPT !.clk = IF freq # 0 THEN @ \union {Tdm[p]} ELSE @ \ {Tdm[p]}])
set_sysclk(w, p, freq) == q6afe_port_set_sysclk(w, p, freq)
\* The port's struct, found by its token or allocated, and given back.
q6afe_find_port(w, p) == p \in w.card.ports
q6afe_port_get_from_id(w, p) ==
    IF ~w.ok \/ q6afe_find_port(w, p) THEN w ELSE [w EXCEPT !.card.ports = @ \union {p}]
q6afe_port_put(w, p) == [w EXCEPT !.card.ports = @ \ {p}]
bound == card.ports # {}
dai_shutdown(w, p) ==
    IF p \notin w.card.started THEN w
    ELSE [port_stop(w, p) EXCEPT !.card.started = @ \ {p}, !.ok = TRUE]
q6afe_tdm_port_prepare(w, p) ==
    IF w.ok /\ p \in w.card.slots \intersect w.card.tdm
    THEN [w EXCEPT !.card.port_cfg = @ \union {p}] ELSE w
dai_prepare(w, p) ==
    LET a == IF p \in w.card.started THEN port_stop(w, p) ELSE w
        b == port_start(q6afe_tdm_port_prepare(a, p), p)
    IN  IF b.ok THEN [b EXCEPT !.card.started = @ \union {p}] ELSE b

q6tdm_set_tdm_slot(w, p) == IF w.ok THEN [w EXCEPT !.card.slots = @ \union {p}] ELSE w
q6tdm_hw_params(w, p)    == IF w.ok THEN [w EXCEPT !.card.tdm = @ \union {p}] ELSE w

(* Machine driver *)
count(w, p) == w.card.clk_count[Tdm[p]]
\* Mutant: only the stream that turns the clock on is counted.
startup_first(w, p) ==
    LET r == set_sysclk(w, p, BCLK)
    IN  IF ~w.ok \/ count(w, p) > 0 THEN w
        ELSE IF r.ok THEN [r EXCEPT !.card.clk_count[Tdm[p]] = 1] ELSE r
startup(w, p) ==
    LET n == [w EXCEPT !.card.clk_count[Tdm[p]] = @ + 1]
        r == set_sysclk(n, p, BCLK)
    IN  IF ~w.ok THEN w
        ELSE IF count(w, p) > 0 THEN n
        ELSE IF r.ok THEN r ELSE [r EXCEPT !.card.clk_count[Tdm[p]] = @ - 1]
shutdown(w, p) ==
    LET n == [w EXCEPT !.card.clk_count[Tdm[p]] = @ - 1]
    IN  IF count(n, p) # 0 THEN n ELSE [set_sysclk(n, p, 0) EXCEPT !.ok = TRUE]
tdm_hw_params(w, p) ==
    q6tdm_set_tdm_slot(IF p = Speaker THEN set_tdm_slot(set_fmt(w)) ELSE w, p)

(* Routing *)
routing_hw_params(w, p) == IF w.ok THEN [w EXCEPT !.card.port_data = @ \union {p}] ELSE w
\* Mutant: a COPP is closed for all its streams at once.
close_copps_all(w, s) ==
    [w EXCEPT !.card.copps[s] = {},
              !.dsp.adm = [p \in Ports |-> IF p \in w.card.copps[s] THEN 0 ELSE @[p]]]
close_copps(w, s) ==
    [w EXCEPT !.card.copps[s] = {},
              !.dsp.adm = [p \in Ports |-> IF p \in w.card.copps[s] THEN @[p] - 1 ELSE @[p]]]
adm_open(w, s, p) ==
    IF ~w.ok THEN w
    ELSE IF w.at = 1 THEN [w EXCEPT !.at = 0, !.ok = FALSE]
    ELSE [w EXCEPT !.at = IF @ = 0 THEN 0 ELSE @ - 1, !.dsp.adm[p] = @ + 1,
                   !.card.copps[s] = @ \union {p}]
\* Mutant: the COPPs of the last open are forgotten.
stream_open_again(w, s) ==
    LET open(x, p) == adm_open(x, s, p)
        r == Each([w EXCEPT !.card.copps[s] = {}], w.card.port_map[s], open)
    IN  IF r.ok THEN r ELSE close_copps(r, s)
stream_open(w, s) ==
    LET open(x, p) == adm_open(x, s, p)
        r == Each(close_copps(w, s), w.card.port_map[s], open)
    IN  IF r.ok THEN r ELSE close_copps(r, s)

(* A back end, in the order of the PCM core: the first stream that uses it *)
(* starts it up, the last one shuts it down.                               *)
users(p) == {s \in Streams : p \in fe[s].be}
sole(s)   == {p \in fe[s].be : users(p) = {s}}
be_hw_params(w, p) ==
    LET m == tdm_hw_params(w, p)
        c == IF p = Speaker THEN hw_params(m, SlotWidth, Rate) ELSE m
    IN  routing_hw_params(q6tdm_hw_params(c, p), p)
\* With the back ends that have started up, for open() to undo.
be_startup(r, p) ==
    LET n == startup(r.w, p)
    IN  [w |-> n, done |-> IF n.ok THEN r.done \union {p} ELSE r.done]
be_shutdown(w, p) == shutdown(dai_shutdown(w, p), p)
be_prepare(r, p) ==
    LET n == dai_prepare(r.w, p)
    IN  [w |-> n, done |-> IF n.ok THEN r.done \union {p} ELSE r.done]
\* A back end that starts up but does not get as far as stage is shut down again.
be_unwind(w, p) ==
    IF w.ok THEN w ELSE [be_shutdown([w EXCEPT !.ok = TRUE], p) EXCEPT !.ok = FALSE]
be_catch_up(w, p, stage) ==
    LET r == be_hw_params(w, p)
    IN  IF ~w.ok \/ stage = "open" THEN w
        ELSE IF stage = "params" THEN r ELSE dai_prepare(r, p)
be_join(w, p, stage) ==
    LET r == startup(w, p) IN IF r.ok THEN be_unwind(be_catch_up(r, p, stage), p) ELSE r
\* One that another stream has started; if that has prepared it, it may be prepared
\* again once it has been stopped.
be_share(w, p, stage, again) ==
    IF p \notin prepared THEN be_catch_up(w, p, stage)
    ELSE IF stage = "prepared" /\ again THEN dai_prepare(w, p) ELSE w
-----------------------------------------------------------------------------
(* The card.  i2c_probe() of the amplifier, then the ports.                *)
dai_probe(high) ==
    \E x \in Worlds :
        /\ ~bound /\ Count(x)
        /\ LET w == i2c_probe([x EXCEPT !.card = Card0], high)
           IN  Keep(IF w.ok THEN Each(w, Ports, q6afe_port_get_from_id) ELSE w)
        /\ fe' = [s \in Streams |-> Closed] /\ prepared' = {}
        /\ UNCHANGED <<put, pc, stream, dapm, clean>>
dai_remove == /\ bound /\ pc = "idle" /\ put = None /\ ~dapm
              /\ \A s \in Streams : fe[s].stage = "closed"
              /\ Keep(Each(World, Ports, q6afe_port_put))
              /\ UNCHANGED <<pcm, pc, clean, faults>>
\* Answers that come while nobody waits.
q6afe_callback == /\ late # {} /\ late' = {}
                  /\ UNCHANGED <<card, dsp, amp, pcm, pc, clean, faults>>

(* PCM operations *)
Ready(s, stages) == bound /\ pc = "idle" /\ fe[s].stage \in stages
open(s) ==
    \E x \in Worlds :
        /\ Ready(s, {"closed"}) /\ fe[s].route # {} /\ Count(x)
        /\ LET fresh == {p \in fe[s].route : users(p) = {}}
               r == Each([w |-> x, done |-> {}], fresh, be_startup)
               undo == Each([r.w EXCEPT !.ok = TRUE], r.done, be_shutdown)
           IN  IF r.w.ok
               THEN Keep(r.w) /\ fe' = [fe EXCEPT ![s].stage = "open", ![s].be = fe[s].route]
               ELSE Keep(undo) /\ UNCHANGED fe
        /\ UNCHANGED <<prepared, put, pc, stream, dapm, clean>>
\* One that is prepared stays as it is.
set_params(s) ==
    \E x \in Worlds :
        /\ Ready(s, {"open", "params"}) /\ Count(x)
        /\ LET w == Each(x, fe[s].be \ prepared, be_hw_params)
           IN  Keep(w) /\ fe' = [fe EXCEPT ![s].stage = IF w.ok THEN "params" ELSE "open"]
        /\ UNCHANGED <<prepared, put, pc, stream, dapm, clean>>
hw_free(s) == /\ Ready(s, {"params", "prepared"}) /\ fe' = [fe EXCEPT ![s].stage = "open"]
              /\ prepared' = prepared \ sole(s)
              /\ UNCHANGED <<card, dsp, amp, late, put, pc, stream, dapm, clean, faults>>
\* The back ends, those that have been stopped again; DAPM powers the amplifier up;
\* then the stream's own COPPs.
prepare(s) ==
    \E x \in Worlds, again \in SUBSET (fe[s].be \intersect prepared) :
        /\ Ready(s, {"params", "prepared"}) /\ Count(x)
        /\ LET r == Each([w |-> x, done |-> {}], (fe[s].be \ prepared) \union again, be_prepare)
               powers == /\ Speaker \in fe[s].be \intersect r.w.card.started
                         /\ r.w.ok \/ Speaker \in r.done
           IN  /\ Keep(r.w)
               /\ fe' = [fe EXCEPT ![s].stage = "params", ![s].on = @ \/ powers]
               /\ prepared' = prepared \union r.done
               /\ stream' = IF r.w.ok THEN s ELSE "none"
               /\ pc' = IF ~dapm /\ powers THEN "standby"
                        ELSE IF r.w.ok THEN "check" ELSE "idle"
        /\ UNCHANGED <<put, dapm, clean>>
\* Without routing_data->lock.
check_port_map ==
    /\ pc = "check"
    /\ IF card.port_map[stream] = {} THEN pc' = "idle" /\ stream' = "none"
       ELSE pc' = "open" /\ UNCHANGED stream
    /\ UNCHANGED <<card, dsp, amp, late, fe, prepared, put, dapm, clean, faults>>
q6routing_stream_open ==
    \E x \in Worlds :
        /\ pc = "open" /\ Count(x)
        /\ LET w == stream_open(x, stream)
           IN  /\ Keep(w)
               /\ fe' = [fe EXCEPT ![stream].stage = IF w.ok THEN "prepared" ELSE @]
        /\ pc' = "idle" /\ stream' = "none"
        /\ UNCHANGED <<prepared, put, dapm, clean>>
\* Mutant: closing a stream shuts down the back ends that another one uses, too.
close_shared(s) ==
    \E x \in Worlds :
        /\ Ready(s, Stages \ {"closed"}) /\ Count(x)
        /\ Keep(close_copps(Each(x, fe[s].be, be_shutdown), s))
        /\ fe' = [fe EXCEPT ![s].stage = "closed", ![s].be = {}, ![s].on = FALSE]
        /\ prepared' = prepared \ sole(s)
        /\ UNCHANGED <<put, pc, stream, dapm, clean>>
close(s) ==
    \E x \in Worlds :
        /\ Ready(s, Stages \ {"closed"}) /\ Count(x)
        /\ Keep(close_copps(Each(x, sole(s), be_shutdown), s))
        /\ fe' = [fe EXCEPT ![s].stage = "closed", ![s].be = {}, ![s].on = FALSE]
        /\ prepared' = prepared \ sole(s)
        /\ UNCHANGED <<put, pc, stream, dapm, clean>>

(* Controls *)
put_audio_mixer(s, p) ==
    /\ bound /\ put = None /\ p \in Routable[s]
    /\ LET on == p \notin card.port_map[s]
       IN  /\ card' = [card EXCEPT !.port_map[s] = IF on THEN @ \union {p} ELSE @ \ {p}]
           /\ put' = [s |-> s, p |-> p, on |-> on]
    /\ UNCHANGED <<dsp, amp, late, fe, prepared, pc, stream, dapm, clean, faults>>
\* The path, and the back end of a stream that is open.
mixer_update_power ==
    \E x \in Worlds, again \in BOOLEAN :
        /\ pc = "idle" /\ put # None /\ put' = None /\ Count(x)
        /\ LET f == fe[put.s]
               joins  == put.on /\ f.stage # "closed" /\ put.p \notin f.be
               leaves == ~put.on /\ put.p \in f.be
           IN  \E w \in {IF joins THEN IF users(put.p) = {} THEN be_join(x, put.p, f.stage)
                                      ELSE be_share(x, put.p, f.stage, again)
                        ELSE IF leaves /\ put.p \in sole(put.s) THEN be_shutdown(x, put.p)
                        ELSE x} :
               LET joined == joins /\ w.ok
                   plays  == joined /\ f.stage = "prepared"
               IN  /\ Keep(w)
                   /\ fe' = [fe EXCEPT ![put.s].route = IF put.on THEN @ \union {put.p}
                                                        ELSE @ \ {put.p},
                                       ![put.s].be = IF joined THEN @ \union {put.p}
                                                     ELSE IF leaves THEN @ \ {put.p} ELSE @,
                                       ![put.s].on = @ \/ (plays /\ put.p = Speaker)]
                   /\ prepared' = IF plays THEN prepared \union {put.p}
                                  ELSE IF leaves THEN prepared \ (sole(put.s) \intersect {put.p})
                                  ELSE prepared
                   /\ pc' = IF plays /\ put.p = Speaker /\ ~dapm THEN "standby" ELSE "idle"
        /\ UNCHANGED <<stream, dapm, clean>>
set_volume ==
    \E x \in Worlds :
        /\ bound /\ Count(x) /\ Keep(put_volsw(x))
        /\ UNCHANGED <<pcm, pc, clean>>

(* DAPM powers the amplifier up, and down a while after its stream.        *)
next_step == [standby |-> "clk", clk |-> "pre_pmu", pre_pmu |-> "enable", enable |-> "post_pmu",
              post_pmu |-> "up", pre_pmd |-> "disable", disable |-> "post_pmd",
              post_pmd |-> "clk_off", clk_off |-> "off", off |-> "idle"]
power_step(x) == CASE pc = "standby"  -> set_bias_standby(x) [] pc = "clk"     -> clk_event_up(x)
                   [] pc = "pre_pmu"  -> amp_pre_pmu(x)      [] pc = "enable"  -> amp_enable(x)
                   [] pc = "post_pmu" -> amp_post_pmu(x)     [] pc = "pre_pmd" -> amp_pre_pmd(x)
                   [] pc = "disable"  -> amp_disable(x)      [] pc = "post_pmd" -> amp_post_pmd(x)
                   [] pc = "clk_off"  -> clk_event_down(x)
                   [] pc = "off" -> set_bias_off([set_bias_standby(x) EXCEPT !.ok = TRUE])
dapm_step ==
    \E x \in Worlds :
        /\ pc \in DOMAIN next_step /\ Count(x)
        /\ LET w == power_step(x)
           IN  Keep(w) /\ clean' = (w.ok /\ (pc = "standby" \/ clean))
        /\ pc' = IF next_step[pc] # "up" THEN next_step[pc]
                 ELSE IF stream = "none" THEN "idle" ELSE "check"
        /\ dapm' = IF pc = "post_pmu" THEN TRUE ELSE IF pc = "off" THEN FALSE ELSE dapm
        /\ UNCHANGED <<fe, prepared, put, stream>>
pmdown == /\ pc = "idle" /\ dapm /\ \A s \in Streams : ~(fe[s].on /\ Speaker \in fe[s].be)
          /\ pc' = "pre_pmd"
          /\ UNCHANGED <<card, dsp, amp, late, pcm, clean, faults>>

Next == \/ \E high \in BOOLEAN : dai_probe(high)
        \/ dai_remove \/ q6afe_callback
        \/ \E s \in Streams : open(s) \/ set_params(s) \/ hw_free(s) \/ prepare(s) \/ close(s)
        \/ check_port_map \/ q6routing_stream_open
        \/ \E s \in Streams, p \in Ports : put_audio_mixer(s, p)
        \/ mixer_update_power \/ set_volume \/ dapm_step \/ pmdown
Spec == Init /\ [][Next]_vars
-----------------------------------------------------------------------------
(* A port that the driver has started was given its slots and widths, and  *)
(* the bit clock of its interface runs as long: playback and capture share *)
(* it, and either may be closed, or fail to open, first.                   *)
ClockCovers == \A p \in card.started : Tdm[p] \in dsp.clk /\ p \in card.port_cfg

(* The DSP holds one reference to a COPP for each port that an open stream *)
(* was routed to, and none for a closed one, over restarts without a close *)
(* ("a stream may be opened again without a close in between"), a COPP that *)
(* cannot be opened, and mixers that change on the way.                    *)
CoppsBalanced ==
    /\ \A p \in Ports : dsp.adm[p] = Cardinality({s \in Streams : p \in card.copps[s]})
    /\ \A s \in Streams : fe[s].stage = "closed" => card.copps[s] = {}

(* After a power-up without a failed transfer the amplifier plays: out of  *)
(* power-down, enabled, clocked, in TDM mode with the divisor for the bit  *)
(* clock of its port (BCLK * PLL is constant), whatever failed before and  *)
(* although the volume may change at any point.                            *)
PlayReady ==
    pc = "idle" /\ dapm /\ clean =>
        /\ amp.chipen = {"TRI", "AMP"} /\ amp.bias /\ amp.clk /\ amp.prot
        /\ amp.slots /\ amp.pll * (BCLK \div 1000) = 524288 * 3072

(* Without a failed transfer the boost converter's mode, "across power     *)
(* sequences", is the one of the initialisation, never that of a sequence. *)
ModeKept ==
    faults = 0 /\ pc = "idle" /\ bound =>
        (IF amp.chip_on THEN amp.bst ELSE amp.mode_store) \in {"boost", "bypass"}
=============================================================================
