# Verification of the Galaxy Tab S3 mainline drivers

TLA+ models, TLC runs and TLAPS proofs for the drivers that
`gts3lwifi-mainline` adds to the Linux kernel for Samsung's Galaxy Tab S3.
The repository is an out-of-tree kernel port: most of its behaviour is a set
of concurrent C drivers (`src/kernel/`), each a handful of work items,
interrupt threads, sysfs callbacks and locks around registers that survive a
crash. That is what is modelled here; device trees, packaging and image
scripts are not.

## 1. Inventory

| Component | State it keeps | Operations | Hard behaviour |
|---|---|---|---|
| **SM5705 charger** (`power/supply/sm5705_charger.c`) | `struct sm5705_chg` (cable type, fast/high-voltage flags, 5 V hold, torch, OTG, temperature zone, configured limits), charger registers (mode, BSTOUT, limits) | `cable_work`, `temp_work`, `set_property`, `torch_set`, OTG regulator `enable`/`disable`, `irq`, `probe`, `shutdown` | five handlers share one mode register; half of what they decide is read without the lock; transfers fail; registers survive a crash, the struct does not |
| **SM5705 MUIC** (`extcon/extcon-sm5705.c`) | AFC / QC 2.0 negotiation, 5 V hold, extcon cables | interrupt thread, `hold_5v` | negotiation by interrupts that can be overtaken by unplugging, a hold, or a timeout |
| **S2MM005 USB-C controller** (`usb/typec/s2mm005.c`) | attachment, role, PD contract, VBUS supply in use | interrupt thread, delayed `select_work`, supply properties | the firmware's status moves on while it is read; the delayed PDO request races new capabilities |
| **Keyboard cover** (`i2c/muxes/i2c-hotplug-gpio.c`, `mfd/stmpe.c`, `input/keyboard/stmpe-keypad.c`) | adapter present, interrupt set-up, keypad present, the chip's FIFO and status | hot plug work, health poll, interrupt thread, set-up and removal | the device loses power between any two transfers and forgets everything; three threads share it |
| **S-Pen** (`input/touchscreen/wacom_w9000.*`) | supply and interrupt state, pen proximity, what the input device shows | open, close, inhibit, suspend, resume, unbind, interrupt thread | a last packet against the end of use; a regulator that fails on any of the paths |
| **MDP5** (`gpu/drm/msm/disp/mdp5/`) | CRTC states and mixers, CTL flush masks, pending events | atomic check, commit tail, ping-pong and vblank interrupts | two halves of one frame through two CTLs; frames later than the wait for them; checks against a state whose tail still runs |
| **DSI host and manager** (`gpu/drm/msm/dsi/`) | power, clock lanes, `DSI_CTRL`, runtime PM | bridge callbacks, transfers, error worker | a command saves and restores a register that the error worker changes meanwhile |
| **Panel** (`gpu/drm/panel/panel-samsung-ams968hh01.c`) | prepared/enabled, HBM, temperature band | prepare, enable, disable, unprepare, brightness, `hbm`, temperature work | work and sysfs against power; a reset that must come in LP-11 |
| **Front camera** (`media/i2c/s5k5e3.c`) | controls and their limits, format, streaming, runtime PM | streams, controls, format, suspend | limits that depend on one another; registers lost with power; failures half way |
| **RT5508 amplifiers** (`sound/soc/codecs/rt5508.c`) | out of power-down, stored boost mode, registers | DAPM events, DAI callbacks, volume | a boost mode that is read back and restored around each power sequence |
| **DSP audio** (`sound/soc/qcom/...`) | AFE ports, bit clock users, COPPs of streams, mixers | PCM operations, mixers, answers of the DSP | commands refused, lost or answered late; streams that share a port or its clock; mixers that change within a prepare |
| **Fuel gauge** (`power/supply/sm5705_fuel_gauge.c`) | what its poll last told user space | 30 s poll, properties | decoding only |
| **Clocks, touchscreen** (`clk/qcom/gcc-msm8996.c`, `input/rmi4/`) | upstream code with local changes | | tables; a stateless attention handler |

How they meet: the MUIC and the USB-C controller tell the charger of cables
(extcon notifier and power-supply change, both of which only queue
`cable_work`); the charger asks the MUIC to hold VBUS at 5 V
(`sm5705_muic_hold_5v`, called with `chg->lock` held, so the lock order is
charger then MUIC); the USB-C controller turns VBUS on through the charger's
OTG regulator; the gauge's temperature drives the charger's guard; the MUIC's
dock cable activates the keyboard's I2C bus, behind which the MFD and its
keypad are probed; an MDP5 commit switches the DSI bridges, which power the
links before the panel's `prepare` and take every command of the panel; the
machine driver's bit clock drives the DSP's ports and the amplifiers behind
them. Within a module below, what meets is composed; between modules, each
side is the other's environment, with what it may do taken from how it is
called.

`PROJECT.json` lists every component with its status, and under `hazards`
what is hard to test in the modelled code, each with the properties that
would catch it, or with the reason why none does.

## 2. Modules

| Module | Models |
|---|---|
| `SM5705Limits` | the charger's pure functions: register encodings of currents and voltages and their inverses, accepted ranges, the temperature zones with hysteresis, the mode a zone and its users ask for, and what a cable allows |
| `SM5705Charger` | the charger driver: one variable per piece of state, one action per step between two points where another actor can run or a transfer can fail |
| `MCSM5705Charger` | the constants of the charger's runs |
| `SM5705Muic` | the MUIC driver: cable detection, AFC and QC 2.0, the 5 V hold |
| `S2MM005` | the USB-C controller driver: supply, partner, data role, VBUS, and the delayed request for a better contract |
| `MCS2MM005` | the sources of the USB-C runs |
| `KeyQueue` | what the keyboard promises: a bounded queue of key events on a link that is up, stalled or down |
| `BookCover` | the keyboard's chain of drivers: hot plug, MFD, keypad; implements `KeyQueue` |
| `SPen` | the digitizer driver against the input core, the system and its interrupt |
| `Mdp5` | atomic commits of the split command mode display and the interrupts beside them |
| `DsiLink` | the two DSI links: what bridge callbacks, a command and runtime PM do to them, as operators on their state |
| `Panel` | the panel driver on those links, with its users, works, runtime PM and the error worker |
| `S5K5E3` | the camera sensor: controls, format, streams, runtime PM, and the chip's registers |
| `RT5508` | an amplifier: what each callback transfers and in which order, as operators |
| `Q6Audio` | the machine driver, the DSP's ports and routing, and one amplifier from `RT5508` |
| `MCQ6Audio` | the ports and streams of the `audio` run and its state constraint |
| `SM5705ChargerProofs`, `SM5705MuicProofs`, `S2MM005Proofs`, `BookCoverProofs`, `SensorProofs` (digitizer and camera), `Mdp5Proofs`, `PanelProofs`, `Q6AudioProofs` (with `RT5508`) | theorems about these modules and their proofs (section 5) |

### `SM5705Charger`: state and actions

`chg` is `struct sm5705_chg`, `reg` the registers, `cs` the holder of
`chg->lock` with its program counter and the result of the last
`apply_zone()`; `cw`, `pend`, `tw` and `sp` are the local state of
`cable_work`, its queued bit, `temp_work`'s temperature and the value
`set_property` has checked. `phase` follows `probe()` and `shutdown()`.

* `sm5705_chg_apply_zone()` is three actions (voltage, current, mode) run for
  whichever handler holds the lock: every caller goes through it, and each
  step may fail. Its check of a limit and the write of it are one step: in
  `apply_zone` `chg->bat` is the only other thing read, and `probe()` sets it
  before the limits.
* `cable_work` reads each extcon state and each property of the Type-C supply
  in a step of its own and without the lock (`cable_work_extcon`,
  `typec_limit_read`), writes the input limit without the lock
  (`cable_work_limit`), then runs its locked section.
* `set_property` of a charge limit is a check and a write, so that probe's
  unlocked writes can come in between; every other register access is one step
  with its check.
* `probe()` is seven steps, from the registration of the power supply (when
  `sysfs` and `cable_work` start) to the first `cable_work`; `probe_fail`
  stands for every error return after that: the supply is unregistered and
  its work cancelled. Error returns before it change nothing.
* `reboot` is a reset at any step: registers stay, memory goes.
* `muic_hold_5v`, `regulator_already_on`, `vbus_change`, `extcon_change` and
  `supply_change` are the environment, modelled from how the driver uses them.
  `owed` says that VBUS moved and neither the MUIC nor the USB-C controller
  has reported it yet: a source that comes or goes is always reported, later.

Left out of it: `STATUS`, `HEALTH`, `ONLINE` and the other read-only
properties; the torch's brightness steps; log messages; a battery node without
limits (the board always has one).

Bounds: `MaxFaults` failing transfers, `MaxReboots` resets. Everything else is
finite by itself.

### `SM5705Muic`: state and actions

`muic` is `struct sm5705_muic`; `h` is the holder of `muic->lock`, where it is
and what it has read; `extcon` the cables reported; `cntl`, `txd9`, `vst9` and
`ints` the registers; `port` the connector, its charger and VBUS.

* `sm5705_muic_detect()`, which ends every handler, is three reads
  (`detect_read`), the state they change with the rerun of charger detection
  (`detect_state`), and one step per `extcon_set_state_sync()` (`detect_set`).
* `sm5705_muic_irq()` is `irq_read`, `afc` (the VBUS check and the early return
  while held) and one action per AFC event, in the order of the code.
* `sm5705_muic_hold_5v()` is `hold_5v`, then `afc_drop` .. `afc_drop_poll` or
  `release`. `ret` is whether it returned 0 last time.
* A read whose result the code ignores gives any value when it fails.

Assumed of the hardware, from how the driver uses it: VBUS_READ measures VBUS
and raises VBUS_UPDATE; a charger answers within the driver's 100 ms sleep, and
only once VBUS has followed an earlier D+ reset; one that agreed is at 9 V
after at most `MaxSlow` measurements; an AFC charger keeps 9 V with ENAFC
clear, a QC 2.0 charger only while ENQC20 is set; taking the keyboard cover off
starts the detection it held back. Two constants say how fast users are:
without `QuickRelease`, a hold is released only after the interrupt of its own
measurement was handled (its thread has been waiting for the lock); without
`Replug`, a detach is handled before the next attach. Section 4 says what
happens when either is lifted. Lost writes inside `accepted`, `vbus_update`,
`error` and the D+ reset are not modelled.

`HoldWithdrawsFast` is what the charger module assumes of `muic_hold_5v`.

### `S2MM005`: state and actions

`s` is `struct s2mm005`, `timer` and `waiting` its delayed work (pending, or
running and waiting for `update_lock`), `h` the holder of the lock and what it
has read, `fw` the firmware's registers and wanted position, `pd` the partner.

* `s2mm005_update()` is one action per register read and per call that can
  fail, in the order of the code, ending with the section under `s->lock`
  (`update_publish`). `read_caps_request` is shared with `select_work`.
* `select_work` is `select_run` (the worker starts and the work is no longer
  pending), `select_lock`, three reads and the two commands.
* `probe_clear`, `probe_dpm` and an update are probe(); `unbind` and
  `unbind_vbus` the devm actions, after which the driver is bound again.

The firmware, from `src/docs/usb.md`, section "How the S2MM005 firmware needs
to be driven": it requests the stored position, which a detach puts back to 1;
NEXT_STATE makes it fetch the capabilities and request again; the request
buffer holds the last request sent, whether or not the source accepted it. A
power role swap is two steps: the partner begins it (`swap`), and the firmware
ends it (`swap_done`) once the driver's VBUS is off, or on. Further: a
negotiation takes less than half a second, the interrupt line is level
triggered and every change asserts it, an attach is debounced long enough for
the driver to have handled the detach. One constant, `CanSource`, stands for
the source and the host role; the board's connector has both. Of a PD message
header, its ID and number of objects are kept. `pd.plain` marks a partner that
came by cable and has sent no new capabilities by itself; `EndsAtBest` and the
theorem `ContractAllowedAlways` are about those, section 4 about the others.

### `KeyQueue` and `BookCover`: state and actions

`cover` and `dock` are the pins and what the MUIC says of them; `hp`, `st` and
`kp` the three drivers' structs; `chip` the STMPE1801, which a move of the
cover resets; `pc` where the hot plug work and the health poll are; `irqt` the
interrupt thread. A transfer is one action, as it is under `stmpe->lock`, and
never works without power.

* `extcon_work` reads the dock state and starts an activation (`add_adapter`,
  then the MFD's probe: `vcc`, `chip_init`, `irq_init`, and the keypad's:
  `keypad_chip_init`, `request`, `register`, `start`) or a removal (`remove`,
  `cancel_health`, `stop_scan`, `keypad_disable`, `free`, `release`), which a
  failed probe joins where its cleanup does.
* `poll`, `canary`, `restore_irq_setup` and the same set-up steps are the
  health poll; `irq_read`, `drain`, `irq_end` the interrupt thread, one read of
  the FIFO at a time.
* `move`, `detect`, `press` are cover, MUIC and keys; `unbind` the removal of
  the hot plug driver.

`KeysQueued` is the refinement: under `queue <- chip.fifo` and a `link` derived
from what the chip is set up to do, `BookCover` implements `KeyQueue`, its
fairness included. Left out: the GPIO path of the hot plug driver (other boards;
it calls the same two functions), other STMPE variants and cells, key codes,
ghost and debounce settings, system sleep.

### `SPen`: state and actions

`power` and `prox` are the driver's, `shown` what the input device last
reported, `op` the operation that holds the input mutex, `in` what input and
driver core say of the device, `hw` supply and reset, `irqt` the interrupt
thread. Each operation (`open`, `close`, `inhibit`, `uninhibit`, `suspend`,
`resume`, `unbind`, and probe's query) starts where its preconditions put it
and runs through `supply_on`, `reset_off`, `irq_on` or `irq_off`, `release`,
`reset_on`, `supply_off`, `cleanup`. `irq_off` waits for the handler, as
`disable_irq()` does. `coord_read` and `coord_report` are the two halves of
the handler; of a packet, what its range checks tell apart.
`PenInit`, `PenNext`, `PenSpec` and `failures` are not named as in the other
modules: one proof module extends this one and the camera's.

### `Mdp5`: state and actions

`state`, `owner` and `crtc` are the atomic states, the mixers' owners and
`struct mdp5_crtc`; `enc` the master encoder with its CTL; `hw` the registers
and the frame being sent, left and right apart; `user` a checked commit and
`tail` the running one.

* `check` is the atomic check of a commit (connector on either CRTC or none,
  lit or not, with or without a modeset); `swap` puts it in place.
* The tail is `deps`, `wait_for_commit_done`, `modeset_disables`, then per CRTC
  `stage`, `flush`, `pending` (`atomic_flush()` in its three parts), then
  `modeset_enables`, `encoder_enable`, the wait again and `hw_done`. The order
  is `msm_atomic_commit_tail()`'s.
* `pp_done` and `vblank_irq` are the interrupts. A wait may time out
  (`MaxLate`).

Left out: planes (a commit's planes are one frame number), SMP and cursors,
video mode, writeback, single-interface panels.

### `DsiLink` and `Panel`: state and actions

`DsiLink` gives, for each call into manager and host, what it makes of the
links: powered, clock lanes in HS or LP-11, `DSI_CTRL`, runtime PM count; a
call that can fail gives the set of its outcomes, each with what was already
on. `Panel` runs three threads on it: the display (`TurnOn` .. `disable_bridge`
in the order of the bridge chain with `prepare_prev_first`), the user's
backlight, `hbm` and `bl_power` writes (`store`), and the temperature work.
`TurnOn` is the bridge's `pre_enable` up to the end of its power-on, `enable_hosts`
the two `msm_dsi_host_enable()` after it, so that a command can begin in between.
`update` takes the backlight's `update_lock`, `begin` and `end` are one
transfer under `cmd_mutex`, between which anyone else may act. `autosuspend` is
runtime PM after 200 ms, `err_worker` and `err_worker_end` the 20 ms of
`dsi_sw_reset()`.

`Allowed` says what else users do: switch the display on again within 200 ms
("quick", section 4), write `bl_power` while it is off ("bl_power"). `chip.missed`
says what the DDI lost of the last updates: nothing, ELVSS 70 (which not every
update writes again), or all of the last one. A stage's
commands are one transfer. Left out: gamma arithmetic, mDNIe, debugging
parameters, PHY and PLL programming, DSC, video mode.

### `S5K5E3`: state and actions

`ctl` is the controls with their limits, `fmt` the active format, `pm` runtime
PM, `reg` the sensor's registers, `enabled` and `wanted` what the V4L2 core and
camss think of the stream. Every operation holds the state lock and is one
action: `probe`, `remove`, `user_ctrl`, `set_pad_format`, `enable_streams`,
`disable_streams`, `autosuspend`, `system_sleep`; `f` is what fails in it, and
the action ends as the code's error path does. Gains and the test pattern are
one control, as they share a path.

### `RT5508` and `Q6Audio`: state and actions

An operation of either is an operator on a *world*: drivers, DSP, amplifier,
late answers, and the number of the command or transfer that fails. So each
callback is its transfers in order, and the failing one is any of them. Under
the card's mutex a PCM operation (`open`, `set_params`, `prepare`, `hw_free`,
`close`) is one action, except that `prepare` is cut where a mixer can change
unseen: `check_port_map`, outside `routing_data->lock`, and
`q6routing_stream_open`. A mixer control is `put_audio_mixer` (the bit) and
`mixer_update_power` (the path, under the mutex); `set_volume` runs anywhere,
also between the steps of the amplifier's power sequence (`dapm_step`,
`pmdown`). `late` holds answers of the DSP to commands that the driver gave up
on; one with the same token and opcode is taken as a later command's own. What an
operation does for each of a set of ports (`Each`) ends at the first that fails;
`open` then shuts down the back ends that had started (`be_startup`).

Every stream may have controls for every port, so a back end may have several
streams (`users`). As the DPCM core (external) has it, the first to use it starts
it up and the last shuts it down (`sole`); it is given its parameters and prepared
by the stream that comes first, later ones find it so (`prepared`, `be_share`),
but may prepare it again once it was stopped (`again`); one that joins while others
play catches up with its stream. `fe[s].on` is that the stream's start has asked
DAPM for the amplifier; only when none does is it powered down.

Left out: other port types than TDM, which the board does not use; the ASM
side of a stream; ADM's own retries (external).

## 3. Runs

| Run | Instance | Shows |
|---|---|---|
| `charger_guard` | 5 temperatures, sysfs limits at and above what the guard allows, OTG, 1 reset; 0.73 M states | between handlers the registers obey the temperature guard and the battery's voltage, and OTG mode belongs to a supply that is on; charging starts only with its limits already written; the boost is off VBUS as `shutdown()` returns and only a new `enable()` brings it back; a battery that every poll finds hot stops charging although sysfs users and the OTG supply may always take the lock first |
| `charger_faults` | torch and OTG, 2 failing transfers, 1 reset; 1.6 M | the boost never drives VBUS at the LED's voltage, and a supply that counts as on is on |
| `charger_cable` | cables and a USB-C source that change while they are read, the torch; 4.9 M | once nothing is queued the driver's state is that of the cable there, a lit torch has a supply, and 5 V is held exactly for the torch or a source |
| `muic_hold` | DCP, AFC and QC 2.0 chargers that agree after up to 5 measurements, refuse or leave; 0.8 M | a hold that returned 0 keeps VBUS at 5 V and withdraws FAST, FAST is reported exactly at 9 V, an AFC charger that refuses nothing returns to 9 V after a hold |
| `muic_cables` | 3 cables and the cover in every order, 1 failing transfer, 1 rebind; 5.7 M | on a working bus each cable ends up reported as what it is; on any, the cables reported at the end of a handler do not contradict each other |
| `port` | 3 events, 1 failing call, refusals, new capabilities, swaps; 1.1 M | on a working bus the port ends up as the firmware is and a host only runs on VBUS; a source that came by cable and turns nothing down ends at the best contract |
| `book_cover` | 2 detaches and reattaches, 3 key events, a FIFO of 2, 1 failing transfer; 0.4 M | what is released is released in order; no key event waits without its interrupt; the keyboard of a cover that stays comes to work; the chain implements `KeyQueue` |
| `spen` | 6 operations, 3 moves, 3 failures (all tries of the query); 67 k | no pen is shown by a digitizer that is off, power follows use, a pen that rests is shown where it is |
| `mdp5` | 7 commits, 2 late frames, 2 clock failures; 0.1 M | both halves of the panel show the same commit, the links are not cut under a frame, commits end and events are sent |
| `panel` | 2 settings, 2 switches, 1 temperature change, 1 failure; 0.26 M | the panel leaves its reset in LP-11, both clock lanes stay in HS and both controllers enabled (the master's reset by the error worker, and what a command that begins in it leaves, apart), the panel shows what is set unless the last update was lost, every switch ends |
| `camera` | a blanking and an exposure that need clamping, 1 failure; 0.1 M | the exposure fits the frame, the registers of a streaming sensor hold what is set, a sensor nobody wants loses power |
| `audio` | a front end that captures and one that captures on the same port or plays on the other one of the bus, 1 failing command or transfer among an operation's first 12; 1.7 M | a started port has clock and slots, whichever stream starts, sets up, prepares or leaves it or its interface first, COPP references balance, an amplifier that was powered up without a failure plays, its boost mode survives the power sequences |

**Why the bounds are enough.** The handlers are short and meet at one lock, so
what matters is which step of one falls between two steps of another; every
order of those is explored. Two faults let the charger's error paths
themselves fail; elsewhere one is explored at every step, with everything that
can follow it. One reset covers every step once; the second boot runs to rest.
Temperatures are one per zone plus one in a hysteresis band. The user's charge
voltage is the battery's, above what the warm zone allows, the current above
every zone's. `charger_cable` uses cables that differ in type, rate and hold,
one of them a set that is only there while the MUIC changes it, and a 15 W
USB-C source. For the MUIC, `MaxSlow = 5` is the largest value the driver's
five retries outlast (with 6, FAST is not reported for a charger that does
reach 9 V). For the USB-C port, three events (attach, detach, swap, restart,
new capabilities, rebind) on top of a source plugged in at boot are a complete
change of partner plus one; the sources have a tie in power, a higher voltage
that is not taken, and a variable supply with the most power. For the cover,
four moves are two absences, so that one can fall into the set-up after the
other; a FIFO of two can be empty, partly filled and full. Six operations take
the digitizer through a suspend with its resume inside an open and a close.
Seven commits move the panel to the other CRTC, switch it off and on, and flip
in between; two late frames in a row leave two frames on their way. Two
switches are an off that a following on meets. For audio, `mm1` shares the
capture port with `mm2`, or plays, so that playback and capture share the clock;
the state constraint `CapturesFirst` keeps it from capturing once it has set up the
speaker's port, which only combines the two. The theorems need neither. Twelve
commands are all of an operation's while the amplifier is awake. While it sleeps,
each of its callbacks wakes it and puts it back to sleep, so that setting a
stream's parameters takes 27: of these, failures of the format and of the wake-up
for the slots are explored, the rest only with the amplifier awake.

**Deadlock** is not checked for `port`, `book_cover`, `spen`, `mdp5` and
`panel`: once the bounded events are used up and everything is handled, these
really are at rest. What must still happen then is stated by their liveness
properties.

**Fairness.** Weak fairness for what a kernel worker, an interrupt thread or a
lock holder does next: the kernel schedules them. Strong fairness only for
those that wait for a mutex others take over and over (the two works waiting for
`chg->lock`; interrupt thread and work at the USB-C `update_lock`): a kernel
mutex hands off to a waiter that has been kept waiting. Besides:

* MUIC: its detection and a charger's answer; USB-C: the firmware's
  negotiation, the end of a swap, and time.
* Cover: the hot plug work, the health timer, the interrupt thread, and the
  MUIC's detection of a cover that stays.
* S-Pen: an operation that has begun, and the interrupt thread of an asserted
  line.
* MDP5: the tail, a frame that was started, the read pointer's interrupt.
* Panel: the display thread, each thread's commands, the error worker's end,
  and the temperature work when it does not fail.
* Camera: the autosuspend timer.

Users, cables, covers, pens, partners, faults and resets have none.

## 4. Where the code does not do what it says

Each of these is a property the modules define, that a comment, a document or
the code's own intent states, and that the code does not have. The runs above
exclude the case by a constant, or do not list the property. It is reproduced by
changing one configuration as said and checking that property alone.

| Property | Configuration | What TLC finds |
|---|---|---|
| `TorchNever9V` | `ChargerCable.cfg`, `Supplies <- PdSupplies` | under a 9 V PD contract the 5 V hold is already noted, so `sm5705_chg_hold_5v()` returns 0 without doing anything (line 575) and the torch runs at 9 V; the comment at line 679 says "Samsung's firmware never runs the flash LED from 9 V" |
| `TorchSupplied` | `ChargerCable.cfg`, `Otg = TRUE` | ending OTG with the torch lit reads the boost's own VBUS as a source (line 780) and leaves the torch without a supply; the comment at line 774: "otherwise the torch runs from VBUS while charging, else from the battery" |
| `HotStopsCharging` | `ChargerGuard.cfg`, `MaxFaults = 1` | one failing transfer as the battery becomes hot leaves charging on: the zone counts as applied (line 858); the comment at line 111: "no charging outside the battery's alert range" |
| `NoVbusAtReset` | `ChargerGuard.cfg` | nothing refuses an `enable()` after `shutdown()`, and the boost drives VBUS at the reset; the comment at line 977: "the bootloader does not expect VBUS from the boost". Whether it happens is up to the supply's user, the USB-C controller |
| `UserCurrentIsBound` | `ChargerCable.cfg`, `UserCurrents = {1000000}` | a 15 W source charges at 2.7 A (line 733); `docs/battery.md` line 159: "Limits written to sysfs stay the upper bound." |
| `VoltageWithinMax` | `ChargerGuard.cfg`, `EarlyWrites = TRUE`, `UserVoltages = {4620000}` | a sysfs write checked before `probe()` sets `chg->bat` lands after the battery's limit, as `probe()` does not take the lock (line 1062) |
| `DefaultCurrent` | `ChargerCable.cfg` | `cable_work` applies 2.7 A while `probe()` reads the default current back (line 1089) |
| `FastIs9V`, `HoldIs5V` | `MuicHold.cfg`, `QuickRelease = TRUE` | a hold released before the interrupt of its own measurement takes that for the new negotiation's, which costs it a retry: a slow charger outlasts them, switches once AFC is given up, and a later hold finds nothing to drop; the comment at line 359 has it "ignored while held" |
| `FastIs9V`, `HoldIs5V` | `MuicHold.cfg`, `Replug = TRUE` | a detach and an attach in one interrupt leave `afc_9v` of the old charger (line 178 looks at VBUS only), and FAST is reported at 5 V; the comment at line 431: "also on detach, to drop AFC/QC 2.0 mode with VBUS" |
| `CableReported` | `MuicCables.cfg`, `Replug = TRUE` | the same leaves `chgdet_rerun`, and under the cover the new charger is never detected (line 128) |
| `HoldIs5V`, `FastIs9V` | `MuicHold.cfg`, `MaxRebinds = 1` | a rebind forgets `afc_9v` while the charger stays at 9 V, and `afc_drop()` finds nothing to do (line 342) |
| `HoldIs5V`, `FastIs9V` | `MuicHold.cfg`, `MaxFaults = 1` | VBUS that cannot be read ends AFC after the charger has agreed (line 315); it switches to 9 V unnoticed, and `afc_drop()` finds nothing to do (line 342) |
| `HoldIs5V`, `FastIs9V` | `MuicHold.cfg`, `MaxSlow = 6` | a charger slower than the retries switches after AFC was given up (line 275), with the same end |
| `MeasuredAt9V` (an action property) | `MuicHold.cfg`, `MaxFaults = 1` | `afc_vbus_update()` compares values it failed to read (line 260) |
| `ContractReported` | `Port.cfg` | a request the source turned down is reported as the contract (`s2mm005.c` line 411) |
| `ContractAllowed` | `Port.cfg`, `LateDetach = TRUE`, `Sources <- TwoSources` | a detach inside `select_work` leaves the position for the next source (line 270) |
| `ContractAllowed` without `pd.plain` | `Port.cfg`, `Sources <- TwoSources` | capabilities a source sends by itself are asked for the position chosen from the old ones (line 269) |
| `EndsAtBest` without `pd.plain` | `Port.cfg` | capabilities that arrive between two of the reads count as looked at (line 420) and the best contract is never asked for; `docs/usb.md` line 33 says the driver asks "once per capabilities message" |
| `ReinitRetried` (an action property) | `BookCover.cfg` | a set-up cut short after it has written the canary register looks done to the next poll; the comment at `stmpe-keypad.c` line 642: "Leave present false; the next poll retries." |
| `FlipStarts` | `Mdp5.cfg`, `Racing = TRUE` | a flip checked while the tail of a modeset runs duplicates its `defer_start`, and nobody sends START; the comment at `mdp5_encoder.c` line 235 says that without a modeset "this is done from crtc->atomic_flush()" |
| `StagedStays` (an action property) | `Mdp5.cfg`, `MoveDown = TRUE` | the flush of the CRTC that lost the panel blends its own planes onto the CTL the other has just staged; the comment at `mdp5_crtc.c` line 839: "nothing else needs to be done" (`complete_flip()` at 161 leaves the same question open) |
| `ResetInLP11` (an action property) | `Panel.cfg`, `Allowed = {"quick"}`, `SPECIFICATION Spec` | switched on again within the 200 ms of autosuspend (`dsi_host.c` line 2052), the host is "already on" (2539) and its clock lane still in HS; the comment at line 1027 of the panel driver: "The DSI lanes are already in LP11 here"; `Allowed = {"bl_power"}` breaks it too: a write of `bl_power` while the display is off updates the panel as it comes on |
| `LinkReady` | `Panel.cfg`, `Allowed = {"bl_power"}`, `SPECIFICATION Spec` | a write of `bl_power` while the display is off sends a command as the bridge comes on: one that begins between `dsi_mgr_power_on()` and `msm_dsi_host_enable()` saved `DSI_CTRL` (`dsi_host.c` line 2235) before command mode was set and restores it (2251) after, and the host stays without command mode for as long as the display is on |
| `EnabledAfterReset` | `Panel.cfg` | a command that begins in the error worker's reset saves `DSI_CTRL` without ENABLE and restores that after the worker has enabled the controller (`dsi_host.c` line 1174: "make sure dsi controller enabled again"); no later command or reset sets it again |
| `BayerAnnounced` | `S5K5E3.cfg` | a flip set after the format changes the Bayer order of the frames and not the active format's code (`s5k5e3.c` lines 546, 604) |
| `Restartable` | `S5K5E3.cfg` | a stop that fails leaves the stream enabled in the V4L2 core, and every later start is refused (line 625) |
| `ExposureFits` | `S5K5E3.cfg`, `FaultyCtrl = TRUE` | an exposure whose write fails leaves the sensor beyond a frame length that is then written (lines 411-423) |
| `ClockCovers` | `Q6Audio.cfg`, `MaxFaults = 2` | a request to stop the clock that is answered after its time-out leaves the answer on its way; the request of the next opening takes that answer for its own (`q6afe.c` line 1099 compares opcodes only), is refused by the DSP, and the stream starts without a bit clock |

Seen while reading or modelling, and not stated as properties:

* **MDP5**: a `pp_done` that comes after its wait timed out completes the next
  frame's; `mdp5_mixer_assign()` with an existing left mixer never assigns the
  right one; the mixers of a disabled CRTC are never released; `CTL_STAT_BOOKED`
  is never set; only the left ping-pong is waited for; a tear check whose clock
  fails leaves a display without events.
* **Panel**: a failed write of ELVSS 70 still clears `hbm_on`; HBM data that
  could not be read are never read again (`mtp_valid` is set before); a failed
  `prepare` is followed by display-on; a failed display-off leaves the DRM panel
  "enabled".
* **Camera**: the exposure limit is not updated by a format change whose default
  blanking equals the current one (line 411); a stream does not come back
  after system sleep.
* **Audio**: a restart that fails in `prepare` leaves `is_port_started` set
  (`q6afe-dai.c` lines 392-454); the port map can empty between its check and the lock
  (`q6routing.c` lines 413-419); COPPs are opened with the parameters of an
  earlier stream; an amplifier's boost mode is lost when a power sequence fails
  half way (`rt5508.c` lines 406-419, 505-541).
* **USB-C**: VBUS that fails to come on is not tried again before the next
  interrupt (line 316), and a state that cannot be read after its interrupt was
  cleared stays unseen (line 357).

## 5. Proofs

Each proof module has one inductive invariant, or a few that are proved one after
the other, in named parts; a lemma for each action (or for a group of actions
that leave a part alone) that it keeps them; and the theorems, which follow from
the invariant and temporal logic. TLC has checked every invariant on the runs'
instances before it was proved. The bounds of section 3 (events, faults, moves,
commits) are arbitrary naturals here, and so are the battery, the ranges, FIFO
sizes, sources and inputs, within the `ASSUME` of each module.

| Module | Theorem | Under |
|---|---|---|
| `SM5705ChargerProofs` | `TypeCorrect`, `BoostVoltageSafe`, `OtgNotLost` | nothing more |
| | `GuardHoldsAlways` | `~EarlyWrites`, no fault so far |
| | `OtgModeOwnedAlways` | no fault so far |
| | `LimitsComeFirst` | `~EarlyWrites`, `MaxFaults = 0` |
| | `ShutdownEndsOtgAlways` | `MaxFaults = 0` |
| | `CableAppliedAlways` | `PdOnly`, `UserLimits = {}`, no fault so far |
| | `TorchSuppliedAlways` | `~Otg`, no fault so far |
| | `LimitsNotExceeded`, `ZoneStable`, `ZoneGuards` | pure functions, every argument |
| `SM5705MuicProofs` | `CablesCoherentAlways` | nothing more |
| | `HoldWithdrawsFastAlways` | no fault so far |
| | `CableReportedAlways` | `~Replug` |
| | `HoldIs5VAlways`, `FastIs9VAlways` | `Timely`, no fault and no rebind so far |
| `S2MM005Proofs` | `BestPdoCorrect` | pure function, every sequence of objects |
| | `PortAppliedAlways`, `HostHasVbusAlways` | nothing more |
| | `ContractAllowedAlways` (proved only, no run) | `~LateDetach`, `FirstIs5V`; of sources that send no new capabilities by themselves (`pd.plain`) |
| `BookCoverProofs` | `ReleasedInOrderAlways`, `NoStrandedKeysAlways`, `QueueImplemented` | nothing more |
| `SensorProofs` | `NoGhostPenAlways`, `PowerFollowsUseAlways` | nothing more |
| `Mdp5Proofs` | `FrameNotCutAlways` | nothing more |
| | `HalvesInStepAlways` | `~MoveDown` |
| `PanelProofs` | `ShowsSettingAlways` | nothing more |
| | `LinkReadyAlways` | `bl_power` not in `Allowed` |
| | `ResetInLP11Always` | neither of them in `Allowed` |
| `SensorProofs` | `ExposureFitsAlways`, `RegsMatchAlways` | `~FaultyCtrl`, or no fault so far |
| `Q6AudioProofs` | `CoppsBalancedAlways`, `PlayReadyAlways`, `ModeKeptAlways` | nothing more |
| | `ClockCoversAlways` | at most one fault so far |

A property that names `faults` itself (`PortApplied`, `HostHasVbus`,
`CableReported`, `NoStrandedKeys`, `PowerFollowsUse`, `ModeKept`) says what it claims of a
failing bus; for the others the last column does. "No fault so far" means the
theorem has `faults = 0` beside the property, for any `MaxFaults`. `Timely` is
`~QuickRelease`, `~Replug` and `MaxSlow` within the driver's retries. Those
restrictions are the ones without which TLC finds the property violated
(section 4), but for these:

* `PdOnly`: a Type-C supply above 5.5 V is a PD one. `s2mm005_psy_get_property()`
  reports more than 5 V for a PD contract only.
* `UserLimits = {}`: a user who writes the input limit overrides the cable's,
  which is what the attribute is for.
* `FirstIs5V`: the first capability of a source is 5 V (USB PD says so). Until
  something is selected, the contract is at the first.

### What the invariants say

* **Charger.** `TypeInv` adds `CheckedValue` to the types: what `set_property`
  has still to write was checked. `OtgInv`: that ending OTG may restore BSTOUT
  depends on `apply_zone` having left OTG mode, which only its result says, and
  that a failed `enable` may clear `otg_on` depends on the boost not having
  started; for each handler inside the lock it says both. `GuardInv`: the mode
  is one that `apply_zone` may leave and, outside of it, one the zone, the torch
  and OTG ask for (`Moded`); what is written to the limits while it runs is
  within the zone's, register by register (`Bounded`), and the configured
  limits are within the battery's from the moment `probe` has read them
  (`Limits`, `Late`). `CableInv`: what `cable_work` has read of cables and supply
  is there still, or it is queued again (`Read`); what it decided is what the
  struct holds (`Decided`); the hold is that of torch and source, except in
  the handler that is changing one of them (`HoldKept`). `TorchInv`: the torch
  is without a supply only until the mode is picked again.
* **MUIC.** `Coherent` follows the reported cables one by one: while
  `sm5705_muic_detect()` goes through them, those already passed are right and
  the others are what they were. `Held`: under a hold no AFC
  interrupt is being handled, `afc_9v` is clear after the drop, and FAST is
  reported only until the drop's own detection has passed it. `Connected`
  ties charger, type and detection of the port; `Current`: unless an interrupt
  is pending, what has been read is what is there. `Volts` follows a negotiation
  from the charger's ping to its ramp: it is at one stage, one interrupt stands
  for what the charger does next (`Pinged`, `Stages`), and what a charger that
  agreed has still to raise is within the retries that are left; `Ended`: what
  was negotiated before a hold has ended when it has reset the charger;
  `Supplied` and `Reported` tie agreement, voltage, `afc_9v` and FAST. This
  part holds only until a fault or a rebind, which forget what was agreed.
* **USB-C.** `Fresh`: unless an interrupt is pending, what the handler has read
  so far equals the firmware's registers, and what it has applied is theirs.
  `Doing`: VBUS before role when the host starts and role before VBUS when it
  stops, stage by stage. `Allowed`: the position that is asked for belongs to
  the offer it was chosen from. `BestPdoCorrect` is proved of the recursive
  function over the objects: that it exists and unfolds, then, position by
  position, that it holds the first of the best so far (`NatSetInduction`).
* **Cover.** `Holding` says what MFD and keypad hold at each stage of the hot
  plug work; `Drained` and `Scanned`, that a key event has its interrupt
  pending or is within what the drain will still read. `QueueImplemented` maps
  initial states and every step to `KeyQueue`.
* **S-Pen.** `Course` says which steps belong to which operation, and what the
  operation will leave; `Heard`, that an enabled interrupt means a digitizer with
  power and out of reset; `Packet`, that a packet is on its way only while the
  interrupt is enabled, which is what `disable_irq()`'s wait is for.
* **MDP5.** `Checked`: what a commit is going to swap in is a panel on one CRTC,
  with a pair of mixers of its own, though its check may have read a state
  whose tail still runs. `Applied` and `Powered` follow the tail; `Sent`: flush
  bits and staged layers of both CTLs agree at every step, and what a
  modeset has staged when the encoder comes on is the CRTC's that has the
  panel; `Timely`: when a frame can still be on its way.
* **Panel.** `Holders` says who can hold the locks at which stage, `Links`, what
  the links owe who uses them, `Enabled`, what DSI_CTRL holds or gets back
  from a transfer or the error worker, `Told`, what the DDI was last told, what of
  it was lost, and what an update on its way has read. Without writes of `bl_power`
  nobody sends a command before `enable_hosts` is through.
* **Camera.** `Controlled`: limits follow format and blanking before the values
  do, and every register of a streaming sensor has its control's value; the
  lemmas say what each transfer of `__v4l2_ctrl_handler_setup()` leaves.
* **Audio.** Streams, ports, which of them share an interface and which ports a
  stream has controls for are arbitrary (all streams may share all ports, as the
  controls of `q6routing.c` allow), and so is the number of failures; the one
  that fails within an operation is any of its commands. An operation goes
  through its transfers, or through a set of ports, by a recursive function. That it
  keeps a property is proved once, by an induction over the natural numbers that is
  stated for a set (`NatSetInduction`, `RowInduction`); from there each callback
  has a lemma about what it leaves, whichever transfer fails (`Transfers`,
  `Awake`, `PowerOn` ...), each command too (`Send`, `SetSysclk`), and `StartAll`,
  `StopAll`, `PrepareAll` and `ParamsAll` say it for all back ends of a stream.
  Of the invariant, `Covered` relates three things that only agree together: the
  users counted for an interface are the ports in use on it, however many streams
  use each (`Used`, `Others`), each of them has its clock running, and what is
  started is in use. It holds while at most one
  command failed, since only then no stale answer can meet a command that is
  refused (`Trust`). `Balanced` is the same for COPPs, with no bound on failures.
  `Powered` and `Moded` say what each step of the power sequence finds: which
  registers are set so far, and where the boost mode is kept meanwhile. A
  volume control between two steps leaves that alone (`Calm`) because the
  amplifier is awake by then or asleep on both sides. `Divided`: the PLL divisor
  is set from the first stream with parameters on, for the TDM mode that is set.

### Only model-checked

* Liveness (`HotStopsCharging`, `ReturnsTo9V`, `EndsAtBest`, `KeyboardReturns`,
  `PenShown`, `EventSent`, `SwitchEnds`, `StoppedPowersDown`, and the fairness
  part of `KeysQueued`): fairness and ENABLED are outside the prover.

Every invariant that a run checks has a theorem.

## 6. Not modelled

* **Fuel gauge**: every property decodes registers on demand, and the poll only
  compares with what it told last. No other actor touches that state; what is
  worth checking are its conversions, as pure operators (section 7).
* **Touchscreen, clock tables**: a stateless attention handler and tables.
* **Device trees, image scripts, packaging, debugging tools, tests**: data and
  one-shot tools.
* Within the modelled files: what the sections above call left out. The largest
  are planes, SMP and video mode in MDP5; PHY, PLL, DSC and video timing in the
  DSI code; the port types and STMPE variants other boards use. Upstream
  code these drivers share with others is modelled as this board drives it.

## 7. Plan

Done: charger, MUIC, USB-C port, keyboard cover with its refinement, S-Pen,
display pipeline and panel, camera, audio, and the proofs of their invariants.
Next:

1. `PowerPath`: charger, MUIC and USB-C controller together, at the interfaces
   the charger's environment actions stand for; an abstract specification of
   who may drive VBUS and at which voltage, which it implements.
2. The fuel gauge's decoding against reference definitions; planes in `Mdp5`.
