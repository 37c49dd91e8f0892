------------------------------- MODULE Panel -------------------------------
(***************************************************************************)
(* The AMS968HH01 panel driver on its DSI links: the display thread that   *)
(* switches it on and off (in the order of the DRM bridge chain with       *)
(* prepare_prev_first), the user's brightness and HBM settings, the        *)
(* temperature work, runtime PM and the error worker of the DSI host.  A   *)
(* command holds the host's cmd_mutex, an update of the backlight its      *)
(* update_lock.  The DDI, the DRM and backlight cores are external.        *)
(***************************************************************************)
EXTENDS DsiLink

CONSTANTS
    MaxOps,     \* bound: what the user writes to the backlight
    MaxSwitch,  \* bound: how often the display is switched on
    MaxTemps,   \* bound: the changes of the temperature
    MaxFaults,  \* bound: the calls that fail
    Allowed     \* what else the user does: switch the display on within 200 ms ("quick"),
                \* write bl_power while it is off ("bl_power")

ASSUME PanelAssumption ==
    /\ MaxOps \in Nat /\ MaxSwitch \in Nat /\ MaxTemps \in Nat /\ MaxFaults \in Nat
    /\ Allowed \subseteq {"quick", "bl_power"}

VARIABLES
    link,    \* the DSI links
    at,      \* where each thread is
    lock,    \* the holder of the backlight's update_lock
    xfer,    \* the holder of cmd_mutex, whose command is being sent
    job,     \* the level and HBM step that brightness() read
    panel,   \* struct ams968hh01, and drm_panel's flags
    bl,      \* the backlight's properties
    chip,    \* the DDI
    reset,   \* dsi_sw_reset() of the error worker, torn by a command that began in it
    cold,    \* the temperature band of the sensor
    ops, switches, temps, faults

vars == <<link, at, lock, xfer, job, panel, bl, chip, reset, cold, ops, switches, temps, faults>>

-----------------------------------------------------------------------------
(* State *)

Threads == {"kms", "user", "temp"}
Free    == "free"

\* at: where the display, the user's setting and the temperature's work are.
\* Where brightness() and its update are called, and all stages with commands.
Updates == {"update", "bl_on", "bl_off"}
Sends   == Updates \cup {"mtp", "init", "display_on", "display_off"}

MaxLevel == 1   \* AMS968HH01_MAX_LEVEL
Levels   == 0..MaxLevel
Steps    == 0..1   \* ctx->hbm: off, or one of the steps
Bands    == 0..1

\* What the DDI shows, after its reset and while it is off; and what of the last
\* updates it missed ("nothing", "elvss70", "all").
Default == [level |-> MaxLevel, hbm |-> 0, band |-> 0]
Reset   == [released |-> FALSE, shown |-> Default, elvss70 |-> "normal",
            on |-> FALSE, missed |-> "nothing"]

Init ==
    /\ link = Link0
    /\ at = [kms |-> "off", user |-> "idle", temp |-> "idle"]
    /\ lock = Free /\ xfer = Free
    /\ job = [level |-> 0, hbm |-> 0]
    /\ panel = [prepared |-> FALSE, enabled |-> FALSE, mtp_valid |-> FALSE, hbm_valid |-> FALSE,
                hbm_on |-> FALSE, hbm |-> 0, temp_band |-> 0]
    /\ bl = [level |-> MaxLevel, power |-> FALSE]
    /\ chip = Reset
    /\ reset = [busy |-> FALSE, ctrl |-> {}, torn |-> FALSE]
    /\ cold = 0
    /\ ops = 0 /\ switches = 0 /\ temps = 0 /\ faults = 0

\* A call that fails, within the bound.
fails == faults < MaxFaults /\ faults' = faults + 1
works == UNCHANGED faults

-----------------------------------------------------------------------------
(* The panel *)

\* brightness() of what it read takes the HBM path.
in_hbm(j) == j.level = MaxLevel /\ j.hbm # 0 /\ panel.hbm_valid

\* What it has the DDI show, and ELVSS register 70 with it.
image(j) == [level |-> j.level, hbm |-> IF in_hbm(j) THEN j.hbm ELSE 0, band |-> panel.temp_band]

\* Mutant: register 70 keeps the HBM value.
elvss70_kept(j) == IF in_hbm(j) THEN "hbm" ELSE chip.elvss70

elvss70(j) ==
    IF in_hbm(j) THEN "hbm" ELSE IF panel.hbm_on THEN "normal" ELSE chip.elvss70

\* The DDI after all commands of brightness(): an update that was lost is made up
\* for, but for ELVSS 70, which not every update writes.
told(j) == [chip EXCEPT !.shown = image(j), !.elvss70 = elvss70(j),
                        !.missed = IF in_hbm(j) \/ panel.hbm_on \/ @ = "nothing" THEN "nothing"
                                   ELSE "elvss70"]

\* The commands of brightness(): all of them, or those before the one that
\* fails. A DDI in reset takes none.
brightness(j, ok) ==
    /\ panel' = [panel EXCEPT !.hbm_on = in_hbm(j)]
    /\ IF ~chip.released THEN UNCHANGED chip
       ELSE IF ok THEN chip' = told(j)
       ELSE \E r \in {chip.elvss70, elvss70(j)} :
                chip' = [chip EXCEPT !.elvss70 = r, !.missed = "all"]

\* ams968hh01_power_off().
power_off(p) == [p EXCEPT !.prepared = FALSE, !.hbm_on = FALSE]

\* ams968hh01_temp_band(): a sensor that cannot be read counts as warm.
temp_band(b) == (b = cold /\ works) \/ (b = 0 /\ fails)

go(t, stage) == at' = [at EXCEPT ![t] = stage]

-----------------------------------------------------------------------------
(* The display thread *)

\* The bridge chain is switched on: dsi_mgr_bridge_pre_enable() comes first, up to
\* its power-on, and what fails there does not stop the rest.
TurnOn ==
    /\ at.kms = "off" /\ switches < MaxSwitch
    /\ "quick" \in Allowed \/ ~link.active
    /\ \E o \in pre_enable(link) :
         /\ link' = o.link
         /\ IF o.ok THEN works /\ go("kms", "hosts") ELSE fails /\ go("kms", "prepare")
    /\ switches' = switches + 1
    /\ UNCHANGED <<lock, xfer, job, panel, bl, chip, reset, cold, ops, temps>>

\* Its end enables the controllers; a command may have begun since the power-on.
enable_hosts ==
    /\ at.kms = "hosts"
    /\ link' = hosts_enable(link)
    /\ reset' = [reset EXCEPT !.torn = reset.busy]
    /\ go("kms", "prepare")
    /\ UNCHANGED <<lock, xfer, job, panel, bl, chip, cold, ops, switches, temps, faults>>

\* ams968hh01_prepare() up to the wait for LP-11.
prepare ==
    /\ at.kms = "prepare"
    /\ \E b \in Bands :
         /\ panel' = [panel EXCEPT !.temp_band = b]
         /\ \/ temp_band(b) /\ go("kms", "release")
            \/ b = cold /\ fails /\ go("kms", "enable")
    /\ UNCHANGED <<link, lock, xfer, job, bl, chip, reset, cold, ops, switches, temps>>

\* The reset is released.
release ==
    /\ at.kms = "release"
    /\ chip' = [chip EXCEPT !.released = TRUE]
    /\ go("kms", "mtp")
    /\ UNCHANGED <<link, lock, xfer, job, panel, bl, reset, cold, ops, switches, temps, faults>>

\* dsi_mgr_bridge_enable(); drm_panel_enable() does nothing for a panel that
\* counts as enabled.
enable ==
    /\ at.kms = "enable"
    /\ link' = start_deferred_hs_clk(link)
    /\ go("kms", IF panel.enabled THEN "on" ELSE "display_on")
    /\ UNCHANGED <<lock, xfer, job, panel, bl, chip, reset, cold, ops, switches, temps, faults>>

\* drm_panel_disable() and its backlight_disable().
TurnOff ==
    /\ at.kms = "on"
    /\ IF panel.enabled THEN go("kms", "bl_off") /\ bl' = [bl EXCEPT !.power = FALSE]
       ELSE go("kms", "unprepare") /\ UNCHANGED bl
    /\ UNCHANGED <<link, lock, xfer, job, panel, chip, reset, cold, ops, switches, temps, faults>>

\* cancel_delayed_work_sync() of ams968hh01_disable(): it waits for a work that
\* runs.
cancel ==
    /\ at.kms = "cancel" /\ at.temp # "update"
    /\ at' = [at EXCEPT !.kms = "display_off", !.temp = "idle"]
    /\ UNCHANGED <<link, lock, xfer, job, panel, bl, chip, reset, cold, ops, switches, temps, faults>>

\* drm_panel_unprepare().
unprepare ==
    /\ at.kms = "unprepare"
    /\ IF panel.prepared THEN panel' = power_off(panel) /\ chip' = Reset
       ELSE UNCHANGED <<panel, chip>>
    /\ go("kms", "post_disable")
    /\ UNCHANGED <<link, lock, xfer, job, bl, reset, cold, ops, switches, temps, faults>>

disable_bridge ==
    /\ at.kms = "post_disable"
    /\ link' = post_disable(link)
    /\ go("kms", "off")
    /\ UNCHANGED <<lock, xfer, job, panel, bl, chip, reset, cold, ops, switches, temps, faults>>

-----------------------------------------------------------------------------
(* Commands and updates *)

\* What the thread does when its commands are sent.
done(t, ok) ==
    CASE at[t] = "mtp"         -> at' = [at EXCEPT !.kms = "init"]
      [] at[t] = "init"        -> at' = [at EXCEPT !.kms = "enable"]
      [] at[t] = "display_on"  ->
           at' = [at EXCEPT !.kms = IF ok THEN "bl_on" ELSE "on",
                            !.temp = IF ok THEN "queued" ELSE @]
      [] at[t] = "bl_on"       -> at' = [at EXCEPT !.kms = "on"]
      [] at[t] = "bl_off"      -> at' = [at EXCEPT !.kms = "cancel"]
      [] at[t] = "display_off" -> at' = [at EXCEPT !.kms = "unprepare"]
      [] OTHER -> at' = [at EXCEPT ![t] = IF t = "user" THEN "idle" ELSE "queued"]

\* What they do to the driver and the DDI. An init that fails switches the panel
\* off; mtp_valid is set before the HBM data are read.
effect(t, j, ok) ==
    CASE at[t] = "mtp" ->
           /\ panel' \in IF panel.mtp_valid THEN {panel}
                         ELSE IF ok THEN {[panel EXCEPT !.mtp_valid = TRUE, !.hbm_valid = TRUE]}
                         ELSE {panel, [panel EXCEPT !.mtp_valid = TRUE]}
           /\ UNCHANGED <<chip, bl>>
      [] at[t] = "init" ->
           /\ IF ok THEN /\ panel' = [panel EXCEPT !.prepared = TRUE, !.hbm_on = in_hbm(j)]
                         /\ chip' = told(j)
              ELSE panel' = power_off(panel) /\ chip' = Reset
           /\ UNCHANGED bl
      [] at[t] = "display_on" ->
           /\ panel' = [panel EXCEPT !.enabled = ok]
           /\ bl' = [bl EXCEPT !.power = IF ok THEN TRUE ELSE @]
           /\ chip' = [chip EXCEPT !.on = ok /\ chip.released]
      [] at[t] = "display_off" ->
           /\ panel' = [panel EXCEPT !.enabled = ~ok]
           /\ chip' = [chip EXCEPT !.on = FALSE]
           /\ UNCHANGED bl
      [] OTHER -> brightness(j, ok) /\ UNCHANGED bl

update(t) ==
    /\ at[t] \in Updates /\ lock = Free
    /\ IF bl.power THEN lock' = t /\ UNCHANGED at ELSE done(t, TRUE) /\ UNCHANGED lock
    /\ UNCHANGED <<link, xfer, job, panel, bl, chip, reset, cold, ops, switches, temps, faults>>

\* Mutant: an update that fails keeps the lock.
unlocked_ok(t, ok) == IF lock = t /\ ok THEN Free ELSE lock

unlocked(t, ok) == IF lock = t THEN Free ELSE lock

\* The commands of a stage, as one transfer: it begins, and ends or times out.
begin(t) ==
    LET j == [level |-> bl.level, hbm |-> panel.hbm]
    IN  /\ at[t] \in Sends /\ xfer = Free
        /\ at[t] \in Updates => lock = t
        /\ \E o \in xfer_prepare(link) :
             /\ link' = o.link
             /\ \/ o.ok /\ xfer' = t /\ job' = j /\ works /\ UNCHANGED <<at, lock, panel, bl, chip>>
                \/ /\ ~o.ok /\ (IF link.mode THEN fails ELSE works)
                   /\ done(t, FALSE) /\ effect(t, j, FALSE)
                   /\ lock' = unlocked(t, FALSE)
                   /\ UNCHANGED <<xfer, job>>
        /\ reset' = [reset EXCEPT !.torn = @ \/ reset.busy]
        /\ UNCHANGED <<cold, ops, switches, temps>>

end(t) ==
    /\ xfer = t
    /\ \E ok \in BOOLEAN :
         /\ IF ok THEN works ELSE fails
         /\ done(t, ok) /\ effect(t, job, ok)
         /\ lock' = unlocked(t, ok)
    /\ link' = xfer_restore(link)
    /\ xfer' = Free
    /\ job' = [level |-> 0, hbm |-> 0]
    /\ UNCHANGED <<reset, cold, ops, switches, temps>>

temp_work ==
    /\ at.temp = "queued"
    /\ \E b \in Bands \ {panel.temp_band} : temp_band(b) /\ panel' = [panel EXCEPT !.temp_band = b]
    /\ go("temp", "update")
    /\ UNCHANGED <<link, lock, xfer, job, bl, chip, reset, cold, ops, switches, temps>>

-----------------------------------------------------------------------------
(* Users, the sensor, runtime PM and the error worker *)

\* brightness_store(), hbm_store() and bl_power_store().
store ==
    /\ at.user = "idle" /\ ops < MaxOps
    /\ ops' = ops + 1
    /\ \/ \E v \in Levels : bl' = [bl EXCEPT !.level = v] /\ UNCHANGED panel
       \/ \E h \in Steps : panel' = [panel EXCEPT !.hbm = h] /\ UNCHANGED bl
       \/ /\ (at.kms = "on" /\ panel.enabled) \/ "bl_power" \in Allowed
          /\ bl' = [bl EXCEPT !.power = ~@] /\ UNCHANGED panel
    /\ go("user", "update")
    /\ UNCHANGED <<link, lock, xfer, job, chip, reset, cold, switches, temps, faults>>

\* The sensor crosses 0 C.
Temperature ==
    /\ temps < MaxTemps /\ temps' = temps + 1
    /\ cold' = 1 - cold
    /\ UNCHANGED <<link, at, lock, xfer, job, panel, bl, chip, reset, ops, switches, faults>>

\* msm_dsi_runtime_suspend() of links that nobody has used for 200 ms.
autosuspend ==
    /\ link.active /\ link.usage = 0
    /\ link' = suspend(link)
    /\ UNCHANGED <<at, lock, xfer, job, panel, bl, chip, reset, cold, ops, switches, temps, faults>>

\* dsi_err_worker() after a FIFO underflow: dsi_sw_reset() of the master takes
\* 20 ms, in which anyone may write DSI_CTRL.
err_worker ==
    /\ ~reset.busy /\ at.kms = "on" /\ link.is_powered
    /\ reset' = [reset EXCEPT !.busy = TRUE, !.ctrl = link.host[Master].ctrl]
    /\ link' = [link EXCEPT !.host[Master].ctrl = @ \ {"ENABLE"}]
    /\ UNCHANGED <<at, lock, xfer, job, panel, bl, chip, cold, ops, switches, temps, faults>>

err_worker_end ==
    /\ reset.busy
    /\ reset' = [reset EXCEPT !.busy = FALSE, !.ctrl = {}]
    /\ link' = IF "ENABLE" \in reset.ctrl THEN [link EXCEPT !.host[Master].ctrl = reset.ctrl]
               ELSE link
    /\ UNCHANGED <<at, lock, xfer, job, panel, bl, chip, cold, ops, switches, temps, faults>>

-----------------------------------------------------------------------------
Display == enable_hosts \/ prepare \/ release \/ enable \/ cancel \/ unprepare \/ disable_bridge
Commands(t) == update(t) \/ begin(t) \/ end(t)

Next ==
    \/ TurnOn \/ TurnOff \/ Display
    \/ \E t \in Threads : Commands(t)
    \/ temp_work \/ store \/ Temperature \/ autosuspend \/ err_worker \/ err_worker_end

Spec == Init /\ [][Next]_vars

\* The kernel's threads, its works and the controllers go on (the work without a
\* failure, which need not come); user, temperature and faults owe nothing.
FairSpec ==
    /\ Spec
    /\ WF_vars(Display) /\ WF_vars(temp_work /\ works) /\ WF_vars(err_worker_end)
    /\ \A t \in Threads : WF_vars(Commands(t))

-----------------------------------------------------------------------------
(* Properties *)

\* The panel's reset is released while no clock lane runs in HS: the DDI ignores
\* everything when the clock runs through its reset.
ResetInLP11 ==
    [][chip'.released /\ ~chip.released => \A i \in Hosts : ~clock_in_hs(link, i)]_vars

\* While the display is on over links that are powered, both clock lanes run in HS
\* and both controllers are enabled in command mode, whatever command is being sent
\* or has come between. Only the master may be disabled: in the error worker's
\* reset, and by the end of a command that began in it (reset.torn).
LinkReady ==
    at.kms \in {"display_on", "bl_on", "on"} /\ link.is_powered =>
        \A i \in Hosts :
          /\ clock_in_hs(link, i)
          /\ link.host[i].ctrl = Modes \/ (i = Master /\ (reset.busy \/ reset.torn))

\* Does not hold: the error worker leaves both controllers enabled. A command that
\* began in its reset saved DSI_CTRL without ENABLE and restores that after it.
EnabledAfterReset ==
    at.kms = "on" /\ link.is_powered /\ ~reset.busy /\ xfer = Free =>
        \A i \in Hosts : link.host[i].ctrl = Modes

\* A panel that shows an image shows the level, the HBM step and the temperature
\* band that are set, once nobody updates them and unless the last update was lost;
\* and ELVSS 70 matches, unless one was lost and none has written it since.
ShowsSetting ==
    /\ at.kms = "on" /\ at.user = "idle" /\ at.temp # "update"
    /\ bl.power /\ chip.on /\ chip.missed # "all"
    => LET hbm == IF bl.level = MaxLevel /\ panel.hbm_valid THEN panel.hbm ELSE 0
       IN  /\ chip.shown = [level |-> bl.level, hbm |-> hbm, band |-> panel.temp_band]
           /\ chip.missed = "nothing" => chip.elvss70 = IF hbm # 0 THEN "hbm" ELSE "normal"

\* Switching the display on or off comes to its end: neither the update lock nor
\* the cancelled work holds it up.
SwitchEnds == at.kms \notin {"off", "on"} ~> at.kms \in {"off", "on"}
=============================================================================
