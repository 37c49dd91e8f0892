------------------------------- MODULE S5K5E3 -------------------------------
(***************************************************************************)
(* The front camera's sensor (drivers/media/i2c/s5k5e3.c): its controls,   *)
(* their limits, the active format, runtime PM with a one second           *)
(* autosuspend, and the registers of the chip, which forget everything     *)
(* without power.  Every V4L2 operation holds the state lock, so each is   *)
(* one action; a transfer, a supply or the clock may fail within it.       *)
(* External: the control framework (clamps to the limits and calls         *)
(* s_ctrl() only for a new value), runtime PM, the stream bookkeeping of   *)
(* v4l2_subdev_{enable,disable}_streams(), and camss, which starts and     *)
(* stops the sensor and ignores a stop that fails.  Gains and the test     *)
(* pattern are one control, gain: they share a path.                       *)
(***************************************************************************)
EXTENDS Integers

CONSTANTS
    Vblanks,    \* vertical blankings asked for
    Exposures,  \* exposures asked for
    Gains,      \* gains asked for
    FaultyCtrl, \* the transfer of a control changed while streaming may fail
    MaxFaults   \* bound: failing transfers, supplies and clocks

ASSUME S5K5E3Assumption ==
    /\ Vblanks \subseteq Nat /\ Exposures \subseteq Nat /\ Gains \subseteq Nat
    /\ FaultyCtrl \in BOOLEAN /\ MaxFaults \in Nat

s5k5e3_modes == <<[height |-> 1932, vts_def |-> 2025, vts_min |-> 1998],
                  [height |-> 960,  vts_def |-> 2025, vts_min |-> 992],
                  [height |-> 480,  vts_def |-> 2025, vts_min |-> 506]>>
Modes           == DOMAIN s5k5e3_modes
VTS_MAX         == 65535
EXPOSURE_MIN    == 3
EXPOSURE_MARGIN == 8
s5k5e3_supply_names == <<"vdda", "vddd", "vddio">>    \* switched on in this order
Supplies == {s5k5e3_supply_names[i] : i \in 1..3}
Flips    == {"hflip", "vflip"}
Ids      == {"exposure", "vblank", "gain"} \union Flips

VARIABLES
    phase,    \* unbound, bound
    chip,     \* supplies on, reset asserted, clock running
    reg,      \* the sensor's registers
    pm,       \* runtime PM: usage count, powered
    ctl,      \* [val, min, max] of each control
    grabbed,  \* the flips are grabbed
    fmt,      \* active format: mode, and the flips its media bus code is for
    enabled,  \* the V4L2 core has the stream as enabled
    wanted,   \* camss wants frames
    faults

vars == <<phase, chip, reg, pm, ctl, grabbed, fmt, enabled, wanted, faults>>
-----------------------------------------------------------------------------
Off   == [on |-> {}, reset |-> TRUE, clk |-> FALSE]
On    == [on |-> Supplies, reset |-> FALSE, clk |-> TRUE]
Blank == [setup |-> "none", mode |-> 0, stream |-> FALSE, exposure |-> 0, hflip |-> 0,
          vflip |-> 0, vblank |-> 0, gain |-> 0]
\* The tables of registers: the analog setup, the common one, the mode's own.
init_regs(r)    == [r EXCEPT !.setup = "init"]
common_regs(r)  == [r EXCEPT !.setup = "common"]
mode_regs(r, m) == [r EXCEPT !.mode = m]
vts_def(m)   == s5k5e3_modes[m].vts_def - s5k5e3_modes[m].height
vts_range(m) == [val |-> vts_def(m), max |-> VTS_MAX - s5k5e3_modes[m].height,
                 min |-> s5k5e3_modes[m].vts_min - s5k5e3_modes[m].height]
init_controls ==
    LET max == s5k5e3_modes[1].vts_def - EXPOSURE_MARGIN
        flip == [val |-> 0, min |-> 0, max |-> 1]
    IN  [vblank |-> vts_range(1), hflip |-> flip, vflip |-> flip,
         exposure |-> [val |-> max, min |-> EXPOSURE_MIN, max |-> max],
         gain |-> [val |-> 32, min |-> 32, max |-> 512]]
mbus_code == [f \in Flips |-> ctl[f].val]

Init == /\ phase = "unbound" /\ chip = Off /\ reg = Blank
        /\ pm = [count |-> 0, powered |-> FALSE] /\ ctl = init_controls
        /\ grabbed = FALSE /\ fmt = [mode |-> 1, code |-> [f \in Flips |-> 0]]
        /\ enabled = FALSE /\ wanted = FALSE /\ faults = 0

\* What fails in this operation, of the things in S, or nothing.
Fails(f, S) == /\ f \in S \union {"nothing"}
               /\ f # "nothing" => faults < MaxFaults
               /\ faults' = IF f = "nothing" THEN faults ELSE faults + 1
-----------------------------------------------------------------------------
(* Power.  A supply that fails leaves those before it to be switched off.  *)
\* The supplies before number i of the list.
before(i) == {s5k5e3_supply_names[j] : j \in 1..(i - 1)}
unwind(i) == before(i)
power_on(f) ==
    LET failed(i) == [Off EXCEPT !.on = before(i) \ unwind(i)]
    IN  IF f \in Supplies
        THEN failed(CHOOSE i \in 1..3 : s5k5e3_supply_names[i] = f)
        ELSE IF f = "clk" THEN failed(4) ELSE On
PowerFaults == Supplies \union {"clk"}

(* s_ctrl() and the framework's calls on it, on w = [ctl, reg, ok]; f is   *)
(* what fails, use says that runtime PM has the sensor in use.             *)
clamp(v, c) == IF v < c.min THEN c.min ELSE IF v > c.max THEN c.max ELSE v
write(w, id, v, m, f, use) ==
    IF ~use THEN [w EXCEPT !.ctl[id].val = v]
    ELSE IF f = id THEN [w EXCEPT !.ok = FALSE]
    ELSE [w EXCEPT !.ctl[id].val = v,
             !.reg[id] = IF id = "vblank" THEN s5k5e3_modes[m].height + v ELSE v]
\* Mutant: the limit is that of the largest mode.
exposure_range_largest(w, v, m, f, use) ==
    LET max == s5k5e3_modes[1].height + v - EXPOSURE_MARGIN
        r   == [w EXCEPT !.ctl.exposure.max = max]
        new == clamp(r.ctl.exposure.val, r.ctl.exposure)
    IN  IF new = r.ctl.exposure.val THEN r ELSE write(r, "exposure", new, m, f, use)
exposure_range(w, v, m, f, use) ==
    LET max == s5k5e3_modes[m].height + v - EXPOSURE_MARGIN
        r   == [w EXCEPT !.ctl.exposure.max = max]
        new == clamp(r.ctl.exposure.val, r.ctl.exposure)
    IN  IF new = r.ctl.exposure.val THEN r ELSE write(r, "exposure", new, m, f, use)
set_ctrl(w, id, v, m, f, use) ==
    LET r == IF id = "vblank" THEN exposure_range(w, v, m, f, use) ELSE w
    IN  IF r.ok THEN write(r, id, v, m, f, use) ELSE r
\* __v4l2_ctrl_s_ctrl(): the same value does not reach the driver.
s_ctrl(w, id, v, m, f, use) ==
    LET new == clamp(v, w.ctl[id])
    IN  IF ~w.ok \/ new = w.ctl[id].val THEN w ELSE set_ctrl(w, id, new, m, f, use)
set_up(w, id, f) ==
    IF w.ok THEN set_ctrl(w, id, w.ctl[id].val, fmt.mode, f, TRUE) ELSE w
\* Mutant: the flips wait for their next change.
setup_unflipped(w, f) ==
    LET r == set_up(set_up(w, "exposure", f), "vblank", f) IN set_up(r, "gain", f)
\* __v4l2_ctrl_handler_setup(): every control, in the order of their ids, up to
\* the first failure.
handler_setup(w, f) ==
    LET r == set_up(set_up(set_up(w, "exposure", f), "hflip", f), "vflip", f)
    IN  set_up(set_up(r, "vblank", f), "gain", f)

World     == [ctl |-> ctl, reg |-> reg, ok |-> TRUE]
Keep(w)    == ctl' = w.ctl /\ reg' = w.reg
in_use     == pm.count > 0
-----------------------------------------------------------------------------
probe(f) == /\ phase = "unbound" /\ Fails(f, PowerFaults \union {"id"})
            /\ IF f = "nothing"
               THEN /\ phase' = "bound" /\ chip' = On
                    /\ pm' = [count |-> 0, powered |-> TRUE]
                    /\ ctl' = init_controls /\ grabbed' = FALSE
                    /\ fmt' = [mode |-> 1, code |-> [x \in Flips |-> 0]]
               ELSE /\ chip' = IF f = "id" THEN Off ELSE power_on(f)
                    /\ UNCHANGED <<phase, pm, ctl, grabbed, fmt>>
            /\ UNCHANGED <<reg, enabled, wanted>>
remove == /\ phase = "bound" /\ ~wanted
          /\ phase' = "unbound" /\ chip' = Off /\ reg' = Blank
          /\ pm' = [pm EXCEPT !.powered = FALSE] /\ enabled' = FALSE
          /\ UNCHANGED <<ctl, grabbed, fmt, wanted, faults>>

user_ctrl(id, v, f) ==
    /\ phase = "bound" /\ ~(id \in Flips /\ grabbed)
    /\ Fails(f, IF in_use /\ FaultyCtrl THEN {id, "exposure"} ELSE {})
    /\ LET w == s_ctrl(World, id, v, fmt.mode, f, in_use)
       IN  Keep(w) /\ (f # "nothing" => ~w.ok)
    /\ UNCHANGED <<phase, chip, pm, grabbed, fmt, enabled, wanted>>

set_pad_format(m) ==
    /\ phase = "bound" /\ ~enabled
    /\ fmt' = [mode |-> m, code |-> mbus_code]
    /\ LET new == vts_range(m)
           r == [World EXCEPT !.ctl.vblank.min = new.min, !.ctl.vblank.max = new.max]
           w == s_ctrl(r, "vblank", r.ctl.vblank.val, m, "nothing", in_use)
       IN  Keep(s_ctrl(w, "vblank", new.val, m, "nothing", in_use))
    /\ UNCHANGED <<phase, chip, pm, grabbed, enabled, wanted, faults>>

\* Mutant: a start that fails keeps the sensor in use.
enable_failed_kept == /\ pm' = [count |-> 1, powered |-> TRUE]
                      /\ UNCHANGED <<grabbed, enabled, wanted>>
\* err_rpm_put
enable_failed == /\ pm' = [count |-> 0, powered |-> TRUE]
                 /\ UNCHANGED <<grabbed, enabled, wanted>>
\* The registers when the tables are written up to the one that fails.
tables(f) == CASE f = "init"   -> reg
               [] f = "common" -> init_regs(reg)
               [] f = "mode"   -> common_regs(init_regs(reg))
               [] OTHER        -> mode_regs(common_regs(init_regs(reg)), fmt.mode)
\* The tables, the controls, then the stream.
enable_streams(f) ==
    /\ phase = "bound" /\ ~wanted /\ ~enabled
    /\ Fails(f, Ids \union {"init", "common", "mode", "stream"}
                \union (IF pm.powered THEN {} ELSE PowerFaults))
    /\ chip' = IF pm.powered THEN chip ELSE power_on(f)
    /\ IF f \in PowerFaults
       THEN UNCHANGED <<reg, pm, ctl, grabbed, enabled, wanted>>
       ELSE LET t == [World EXCEPT !.reg = tables(f)]
                w == IF f \in {"init", "common", "mode"} THEN [t EXCEPT !.ok = FALSE]
                     ELSE handler_setup(t, f)
                ok == w.ok /\ f # "stream"
            IN  /\ ctl' = w.ctl /\ reg' = [w.reg EXCEPT !.stream = ok]
                /\ IF ok THEN /\ pm' = [count |-> 1, powered |-> TRUE]
                              /\ grabbed' = TRUE /\ enabled' = TRUE /\ wanted' = TRUE
                   ELSE enable_failed
    /\ UNCHANGED <<phase, fmt>>
\* The core keeps the stream enabled when the sensor's stop fails; camss goes on.
disable_streams(f) ==
    /\ wanted /\ Fails(f, {"stream"})
    /\ reg' = [reg EXCEPT !.stream = @ /\ f = "stream"]
    /\ grabbed' = FALSE /\ pm' = [pm EXCEPT !.count = 0]
    /\ enabled' = (f = "stream") /\ wanted' = FALSE
    /\ UNCHANGED <<phase, chip, ctl, fmt>>

power_off == chip' = Off /\ reg' = Blank
autosuspend == /\ phase = "bound" /\ pm = [count |-> 0, powered |-> TRUE]
               /\ power_off /\ pm' = [pm EXCEPT !.powered = FALSE]
               /\ UNCHANGED <<phase, ctl, grabbed, fmt, enabled, wanted, faults>>
\* pm_runtime_force_suspend() and pm_runtime_force_resume().
system_sleep == /\ phase = "bound" /\ pm.powered
                /\ reg' = Blank /\ chip' = IF in_use THEN On ELSE Off
                /\ pm' = [pm EXCEPT !.powered = in_use]
                /\ UNCHANGED <<phase, ctl, grabbed, fmt, enabled, wanted, faults>>

Operations(f) ==
    \/ probe(f) \/ enable_streams(f) \/ disable_streams(f)
    \/ \E v \in Vblanks : user_ctrl("vblank", v, f)
    \/ \E v \in Exposures : user_ctrl("exposure", v, f)
    \/ \E v \in Gains : user_ctrl("gain", v, f)
    \/ \E x \in Flips, v \in {0, 1} : user_ctrl(x, v, f)
Next == \/ \E f \in Ids \union PowerFaults
                    \union {"nothing", "id", "init", "common", "mode", "stream"} : Operations(f)
        \/ \E m \in Modes : set_pad_format(m)
        \/ remove \/ autosuspend \/ system_sleep
Spec == Init /\ [][Next]_vars
\* The autosuspend timer fires.
FairSpec == Spec /\ WF_vars(autosuspend)
-----------------------------------------------------------------------------

(* A sensor that streams exposes a line for at most the frame's length less *)
(* the margin, whatever the order of format, blanking and exposure changes *)
(* and of starts (set_ctrl, "Keep the exposure within the new frame length"). *)
ExposureFits == reg.stream => reg.exposure <= reg.vblank - EXPOSURE_MARGIN

(* While the sensor is in use its registers hold the mode of the format and *)
(* the last value of every control, although controls set while it is      *)
(* idle, or in the second before it loses power, are not written.          *)
RegsMatch ==
    in_use /\ reg.stream =>
        /\ reg.setup = "common" /\ reg.mode = fmt.mode
        /\ reg.vblank = s5k5e3_modes[fmt.mode].height + ctl.vblank.val
        /\ \A id \in Ids \ {"vblank"} : reg[id] = ctl[id].val

(* A sensor that nobody wants loses power, however its start or its stop   *)
(* failed: no path keeps a runtime PM reference.                           *)
StoppedPowersDown == ~wanted ~> (wanted \/ ~pm.powered)

(* Not so: the media bus code of the active format is the Bayer order of   *)
(* the frames; a flip changes it only at the next set_fmt (README, section 4). *)
BayerAnnounced == reg.stream => \A x \in Flips : fmt.code[x] = reg[x]

(* Not so: a stop that fails does not keep the next start from working     *)
(* (README, section 4).                                                    *)
Restartable == ~wanted /\ ~pm.powered => ~enabled
=============================================================================
