---------------------------- MODULE SM5705Charger ---------------------------
(***************************************************************************)
(* The SM5705 charger driver: its cable work, temperature work, sysfs      *)
(* limits, torch LED, USB OTG supply, interrupt, probe and shutdown, as    *)
(* they interleave around chg->lock.  Every register access is a step of   *)
(* its own, may fail (up to MaxFaults times), and can be the last one      *)
(* before a crash: registers survive a reboot, struct sm5705_chg does not. *)
(*                                                                         *)
(* The MUIC's extcon state and 5 V hold, the Type-C supply, VBUS, the      *)
(* regulator core and the fuel gauge's temperature are the environment.    *)
(***************************************************************************)
EXTENDS SM5705Limits, FiniteSets

CONSTANTS
    BatVoltageMaxUv, \* constant_charge_voltage_max_uv of the battery node
    BatCurrentMaxUa, \* constant_charge_current_max_ua, 0 if not given
    BatTermUa,       \* charge_term_current_ua
    TempMin, TempMax,\* alert-celsius, in tenths of a degree
    Temps,           \* temperatures the fuel gauge reports
    UserVoltages,    \* values written to constant_charge_voltage
    UserCurrents,    \* values written to constant_charge_current
    UserLimits,      \* values written to input_current_limit
    UserTerms,       \* values written to charge_term_current
    EarlyWrites,     \* sysfs is written while probe() still runs (BOOLEAN)
    ExtconStates,    \* sets of charger cables the MUIC may report
    Supplies,        \* states of the Type-C controller's power supply
    Vin,             \* values of "a source drives VBUS"
    Torch, Otg,      \* the torch and the OTG supply are in use (BOOLEAN)
    MaxFaults,       \* bound: failing I2C transfers
    MaxReboots       \* bound: reboots, with or without shutdown

OfflineSupply == [online |-> FALSE, uv |-> 0, ua |-> 0, pd |-> FALSE]
\* As the bootloader leaves the charger: BSTOUT 4.5 V, 1.5 A, 4.38 V.
FlashBoost      == 5
BOOT_LIMIT_UA   == 1500000
BOOT_VOLTAGE_UV == 4380000

ASSUME BatteryAssumption ==
    /\ BatVoltageMaxUv \in BATREG_MIN_UV..BATREG_MAX_UV
    /\ BatCurrentMaxUa \in Int
    /\ BatCurrentMaxUa > 0 => BatCurrentMaxUa >= MIN_CHARGE_UA
    /\ BatTermUa \in Int /\ term_current_ok(BatTermUa)
    /\ TempMin \in Int /\ TempMax \in Int
ASSUME InputAssumption ==
    /\ Temps \subseteq Int /\ UserVoltages \subseteq Int
    /\ UserCurrents \subseteq Int /\ UserLimits \subseteq Int
    /\ UserTerms \subseteq Int /\ EarlyWrites \in BOOLEAN
    /\ ExtconStates \subseteq SUBSET {"FAST", "DCP", "CDP", "SDP"}
    /\ Supplies \subseteq [online : BOOLEAN, uv : Nat, ua : Nat, pd : BOOLEAN]
    /\ Vin \subseteq BOOLEAN /\ Torch \in BOOLEAN /\ Otg \in BOOLEAN
ASSUME BoundAssumption == MaxFaults \in Nat /\ MaxReboots \in Nat

VARIABLES
    phase,   \* unbound, then the steps of probe(), bound, halting, halted
    chg,     \* struct sm5705_chg
    reg,     \* the charger's registers
    cs,      \* the holder of chg->lock and where it is
    cw,      \* cable_work: where it is and what it has read
    pend,    \* cable_work is queued
    tw,      \* temp_work: <<>> or <<temp>>, the temperature it has read
    sp,      \* set_property: the value it has checked, to be written
    extcon,  \* charger cables the MUIC reports
    supply,  \* the Type-C controller's power supply
    notify,  \* its changed_work is queued
    vin,     \* a source drives VBUS
    owed,    \* VBUS changed and neither MUIC nor Type-C reported it yet
    otg_use, \* the regulator core's use count of the OTG supply
    faults, reboots

drv  == <<phase, chg, reg, cs>>
env  == <<extcon, supply, notify, vin, owed, otg_use>>
vars == <<phase, chg, reg, cs, cw, pend, tw, sp, env, faults, reboots>>

-----------------------------------------------------------------------------
(* State *)

ZeroChg ==
    [usb_type |-> "UNKNOWN", fast |-> FALSE, hv |-> FALSE, usb_c |-> FALSE,
     hold_5v |-> FALSE, torch_on |-> FALSE, otg_on |-> FALSE,
     bstout |-> FlashBoost, zone |-> "NORMAL", bat |-> FALSE,
     cfg_voltage |-> 0, cfg_current |-> 0]

Unlocked == [op |-> "none", pc |-> "none", ok |-> TRUE]
NoWrite  == [psp |-> "none", val |-> 0]
Idle     == [pc |-> "idle", bc |-> "NONE", s |-> OfflineSupply]

\* As the bootloader leaves the hardware: charging at 4.38 V, torch off.
Init ==
    /\ phase = "unbound" /\ chg = ZeroChg
    /\ reg = [mode |-> MODE_CHG_ON, bstout |-> FlashBoost, movie |-> FALSE,
              limit |-> input_limit_code(BOOT_LIMIT_UA),
              vreg |-> charge_voltage_code(BOOT_VOLTAGE_UV),
              ireg |-> charge_current_code(DEFAULT_CHARGE_UA),
              term |-> term_current_code(BatTermUa)]
    /\ cs = Unlocked /\ cw = Idle /\ pend = FALSE /\ tw = <<>> /\ sp = NoWrite
    /\ extcon \in ExtconStates /\ supply \in Supplies
    /\ vin \in Vin /\ (vin = FALSE => extcon = {} /\ supply = OfflineSupply)
    /\ notify = FALSE /\ owed = FALSE /\ otg_use = FALSE
    /\ faults = 0 /\ reboots = 0

Running == phase # "unbound"                          \* the supply exists
Probing == {"registered", "set_current", "get_voltage", "get_current", "limits",
            "apply"}
Probed  == phase \in {"bound", "halting", "halted"}   \* probe() is done

\* VBUSPOK: VBUS is good, whoever drives it.
vbus_pok == vin \/ reg.mode = MODE_USB_OTG

\* An I2C transfer: it works, or it fails and changes nothing.
Transfer(ok) ==
    /\ ok \in BOOLEAN
    /\ ok \/ faults < MaxFaults
    /\ faults' = IF ok THEN faults ELSE faults + 1

\* Inside the locked section of op: go to pc.
Goto(op, pc) == cs' = [op |-> op, pc |-> pc, ok |-> TRUE]
At(op, pc)   == cs.op = op /\ cs.pc = pc

-----------------------------------------------------------------------------
(* sm5705_chg_apply_zone(), with chg->lock held by any handler: the limits, *)
(* then the mode; cs.ok is its result.                                      *)

\* Mutant: the current limit is left as it was.
apply_zone_no_current ==
    LET uv == zone_voltage(chg.zone, chg.cfg_voltage)
        max == IF chg.bat THEN BatVoltageMaxUv ELSE 0
    IN  /\ cs.pc = "apply_zone"
        /\ reg' = IF uv > 0 /\ charge_voltage_ok(uv, max)
                  THEN [reg EXCEPT !.vreg = charge_voltage_code(uv)] ELSE reg
        /\ Goto(cs.op, "az_mode")
        /\ UNCHANGED <<phase, chg, cw, pend, tw, sp, env, faults, reboots>>

apply_zone_voltage ==
    LET uv == zone_voltage(chg.zone, chg.cfg_voltage)
        max == IF chg.bat THEN BatVoltageMaxUv ELSE 0
    IN  /\ cs.pc = "apply_zone"
        /\ \E ok \in BOOLEAN :
              /\ Transfer(ok)
              /\ reg' = IF ok /\ uv > 0 /\ charge_voltage_ok(uv, max)
                        THEN [reg EXCEPT !.vreg = charge_voltage_code(uv)]
                        ELSE reg
        /\ Goto(cs.op, "az_current")
        /\ UNCHANGED <<phase, chg, cw, pend, tw, sp, env, reboots>>

apply_zone_current ==
    LET ua == zone_current(chg.zone, chg.cfg_current, chg.fast)
        max == IF chg.bat THEN BatCurrentMaxUa ELSE 0
    IN  /\ cs.pc = "az_current"
        /\ \E ok \in BOOLEAN :
              /\ Transfer(ok)
              /\ reg' = IF ok /\ ua > 0 /\ charge_current_ok(ua, max)
                        THEN [reg EXCEPT !.ireg = charge_current_code(ua)]
                        ELSE reg
        /\ Goto(cs.op, "az_mode")
        /\ UNCHANGED <<phase, chg, cw, pend, tw, sp, env, reboots>>

\* Reads CNTL, and STATUS1 if the torch needs it, then writes the mode.  A
\* failing STATUS1 read counts as no VBUS.
apply_zone_mode ==
    /\ cs.pc = "az_mode"
    /\ \E ok \in BOOLEAN, vbus_read \in BOOLEAN :
          /\ Transfer(ok /\ vbus_read)
          /\ ok \/ vbus_read
          /\ LET done == ok /\ reg.mode \in SwitchedModes
             IN  /\ reg' = IF done
                           THEN [reg EXCEPT !.mode =
                                    zone_mode(chg.zone, chg.torch_on,
                                              chg.otg_on, vbus_read /\ vbus_pok)]
                           ELSE reg
                 /\ cs' = [cs EXCEPT !.pc = "applied", !.ok = done]
    /\ UNCHANGED <<phase, chg, cw, pend, tw, sp, env, reboots>>

apply_zone == apply_zone_voltage \/ apply_zone_current \/ apply_zone_mode

\* Handlers that ignore the result and unlock.
apply_zone_unlock ==
    /\ cs.pc = "applied" /\ cs.op \in {"set_property", "temp_work", "torch_on",
                                       "probe"}
    /\ cs' = Unlocked
    /\ UNCHANGED <<phase, chg, reg, cw, pend, tw, sp, env, faults, reboots>>

-----------------------------------------------------------------------------
(* sm5705_chg_hold_5v(), with chg->lock held by op: nothing to do if the    *)
(* wish is not new, else it is noted and the MUIC asked.                    *)

hold_5v(op, c, hold) ==
    IF hold = c.hold_5v
    THEN chg' = c /\ Goto(op, "held")
    ELSE chg' = [c EXCEPT !.hold_5v = hold] /\ Goto(op, "muic")

\* External: the MUIC's answer.  Holding takes 9 V back to 5 V and withdraws
\* FAST whether or not VBUS came down in time.
muic_hold_5v ==
    /\ cs.pc = "muic"
    /\ \E ok \in IF chg.hold_5v THEN BOOLEAN ELSE {TRUE} :
          cs' = [cs EXCEPT !.pc = "held", !.ok = ok]
    /\ extcon' = IF chg.hold_5v THEN extcon \ {"FAST"} ELSE extcon
    /\ pend' = (pend \/ extcon' # extcon)
    /\ UNCHANGED <<phase, chg, reg, cw, tw, sp, supply, notify, vin, owed, otg_use,
                   faults, reboots>>

-----------------------------------------------------------------------------
(* cable_work: each extcon state and each property of the Type-C supply is *)
(* read on its own, without chg->lock.                                     *)

cable_work_start ==
    /\ Running /\ pend /\ cw.pc = "idle"
    /\ pend' = FALSE
    /\ cw' = [Idle EXCEPT !.pc = "FAST"]
    /\ UNCHANGED <<drv, tw, sp, env, faults, reboots>>

NextCable == [FAST |-> "DCP", DCP |-> "CDP", CDP |-> "SDP", SDP |-> "online"]

cable_work_extcon ==
    /\ cw.pc \in DOMAIN NextCable
    /\ cw' = IF cw.pc \in extcon
             THEN [cw EXCEPT !.bc = cw.pc, !.pc = "online"]
             ELSE [cw EXCEPT !.pc = NextCable[cw.pc]]
    /\ UNCHANGED <<drv, pend, tw, sp, env, faults, reboots>>

\* The supply reports 0 V and 0 A while no source is attached.
typec_limit_read ==
    /\ \/ /\ cw.pc = "online"
          /\ cw' = [cw EXCEPT !.s.online = supply.online,
                              !.pc = IF supply.online THEN "voltage" ELSE "limit"]
       \/ /\ cw.pc = "voltage"
          /\ cw' = [cw EXCEPT !.s.uv = supply.uv, !.pc = "current"]
       \/ /\ cw.pc = "current"
          /\ cw' = [cw EXCEPT !.s.ua = supply.ua, !.pc = "type"]
       \/ /\ cw.pc = "type"
          /\ cw' = [cw EXCEPT !.s.pd = supply.pd, !.pc = "limit"]
    /\ UNCHANGED <<drv, pend, tw, sp, env, faults, reboots>>

Decision == cable_limit(cw.bc, cw.s)

\* Nothing attached: keep the limit for the next cable.
cable_work_limit ==
    /\ cw.pc = "limit"
    /\ \E ok \in BOOLEAN :
          /\ Transfer(ok)
          /\ reg' = IF ok /\ Decision.limit # 0 /\ input_limit_ok(Decision.limit)
                    THEN [reg EXCEPT !.limit = input_limit_code(Decision.limit)]
                    ELSE reg
    /\ chg' = [chg EXCEPT !.usb_type = Decision.type]
    /\ cw' = [cw EXCEPT !.pc = "lock"]
    /\ UNCHANGED <<phase, cs, pend, tw, sp, env, reboots>>

cable_work_lock ==
    /\ cw.pc = "lock" /\ cs.op = "none"
    /\ hold_5v("cable_work", [chg EXCEPT !.usb_c = Decision.usb_c],
               Decision.usb_c \/ chg.torch_on)
    /\ cw' = [cw EXCEPT !.pc = "locked"]
    /\ UNCHANGED <<phase, reg, pend, tw, sp, env, faults, reboots>>

\* Mutant: the mode is not picked again for the torch without VBUS.
cable_work_held_unlock ==
    /\ At("cable_work", "held")
    /\ LET off == Decision.hv /\ chg.torch_on
       IN  /\ chg' = [chg EXCEPT !.hv = Decision.hv, !.fast = Decision.fast,
                                 !.torch_on = @ /\ ~off]
           /\ reg' = IF off THEN [reg EXCEPT !.movie = FALSE] ELSE reg
    /\ Goto("cable_work", "applied")
    /\ UNCHANGED <<phase, cw, pend, tw, sp, env, faults, reboots>>

\* The torch goes off above 5 V; torch_on is cleared even if the write fails.
cable_work_held ==
    /\ At("cable_work", "held")
    /\ LET off == Decision.hv /\ chg.torch_on
       IN  /\ chg' = [chg EXCEPT !.hv = Decision.hv, !.fast = Decision.fast,
                                 !.torch_on = @ /\ ~off]
           /\ \E ok \in BOOLEAN :
                 /\ Transfer(ok) /\ (ok \/ off)
                 /\ reg' = IF ok /\ off THEN [reg EXCEPT !.movie = FALSE] ELSE reg
    /\ Goto("cable_work", "apply_zone")
    /\ UNCHANGED <<phase, cw, pend, tw, sp, env, reboots>>

\* Mutant: what was queued while the work ran is forgotten.
cable_work_unlock_all ==
    /\ At("cable_work", "applied")
    /\ cs' = Unlocked /\ cw' = Idle /\ pend' = FALSE
    /\ UNCHANGED <<phase, chg, reg, tw, sp, env, faults, reboots>>

cable_work_unlock ==
    /\ At("cable_work", "applied")
    /\ cs' = Unlocked /\ cw' = Idle
    /\ UNCHANGED <<phase, chg, reg, pend, tw, sp, env, faults, reboots>>

cable_work ==
    \/ cable_work_start \/ cable_work_extcon \/ typec_limit_read
    \/ cable_work_limit \/ cable_work_lock \/ cable_work_held
    \/ cable_work_unlock

\* external_power_changed(), from the Type-C supply's changed_work.
external_power_changed ==
    /\ notify /\ Running
    /\ notify' = FALSE /\ pend' = TRUE
    /\ UNCHANGED <<drv, cw, tw, sp, extcon, supply, vin, owed, otg_use, faults,
                   reboots>>

-----------------------------------------------------------------------------
(* temp_work: the temperature is read without the lock, every 30 s. *)

temp_work_read ==
    /\ Probed /\ tw = <<>>
    /\ \E temp \in Temps : tw' = <<temp>>
    /\ UNCHANGED <<drv, cw, pend, sp, env, faults, reboots>>

\* Mutant: the zone is noted but not applied.
temp_work_noted ==
    /\ tw # <<>> /\ cs.op = "none"
    /\ chg' = [chg EXCEPT !.zone = temp_zone(@, tw[1], TempMin, TempMax)]
    /\ tw' = <<>>
    /\ UNCHANGED <<phase, reg, cs, cw, pend, sp, env, faults, reboots>>

temp_work ==
    /\ tw # <<>> /\ cs.op = "none"
    /\ LET zone == temp_zone(chg.zone, tw[1], TempMin, TempMax)
       IN  IF zone # chg.zone
           THEN /\ chg' = [chg EXCEPT !.zone = zone]
                /\ Goto("temp_work", "apply_zone")
           ELSE UNCHANGED <<chg, cs>>
    /\ tw' = <<>>
    /\ UNCHANGED <<phase, reg, cw, pend, sp, env, faults, reboots>>

-----------------------------------------------------------------------------
(* sm5705_chg_set_property(); a rejected value changes nothing.  Charge     *)
(* voltage and current are checked against the battery, then written: both  *)
(* with chg->lock held, but probe() sets chg->bat without it.               *)

Writable == IF EarlyWrites THEN Running ELSE Probed

set_property_input_limit(ua) ==
    /\ Writable /\ input_limit_ok(ua)
    /\ reg' = [reg EXCEPT !.limit = input_limit_code(ua)]
    /\ UNCHANGED <<phase, chg, cs, cw, pend, tw, sp, env, faults, reboots>>

set_property_term(ua) ==
    /\ Writable /\ term_current_ok(ua)
    /\ reg' = [reg EXCEPT !.term = term_current_code(ua)]
    /\ UNCHANGED <<phase, chg, cs, cw, pend, tw, sp, env, faults, reboots>>

set_property_current(ua) ==
    /\ Writable /\ cs.op = "none"
    /\ charge_current_ok(ua, IF chg.bat THEN BatCurrentMaxUa ELSE 0)
    /\ sp' = [psp |-> "current", val |-> ua]
    /\ Goto("set_property", "write")
    /\ UNCHANGED <<phase, chg, reg, cw, pend, tw, env, faults, reboots>>

set_property_voltage(uv) ==
    /\ Writable /\ cs.op = "none"
    /\ charge_voltage_ok(uv, IF chg.bat THEN BatVoltageMaxUv ELSE 0)
    /\ sp' = [psp |-> "voltage", val |-> uv]
    /\ Goto("set_property", "write")
    /\ UNCHANGED <<phase, chg, reg, cw, pend, tw, env, faults, reboots>>

\* Mutant: the guard is not applied after a write.
set_property_write_raw ==
    /\ At("set_property", "write")
    /\ reg' = IF sp.psp = "current"
              THEN [reg EXCEPT !.ireg = charge_current_code(sp.val)]
              ELSE [reg EXCEPT !.vreg = charge_voltage_code(sp.val)]
    /\ cs' = Unlocked /\ sp' = NoWrite
    /\ UNCHANGED <<phase, chg, cw, pend, tw, env, faults, reboots>>

\* A written value is also the configured one, and the guard is applied.
set_property_write ==
    /\ At("set_property", "write")
    /\ \E ok \in BOOLEAN :
          /\ Transfer(ok)
          /\ IF ~ok
             THEN cs' = Unlocked /\ UNCHANGED <<chg, reg>>
             ELSE /\ IF sp.psp = "current"
                     THEN /\ reg' = [reg EXCEPT !.ireg = charge_current_code(sp.val)]
                          /\ chg' = [chg EXCEPT !.cfg_current = sp.val]
                     ELSE /\ reg' = [reg EXCEPT !.vreg = charge_voltage_code(sp.val)]
                          /\ chg' = [chg EXCEPT !.cfg_voltage = sp.val]
                  /\ Goto("set_property", "apply_zone")
    /\ sp' = NoWrite
    /\ UNCHANGED <<phase, cw, pend, tw, env, reboots>>

set_property ==
    \/ \E ua \in UserLimits : set_property_input_limit(ua)
    \/ \E ua \in UserTerms : set_property_term(ua)
    \/ \E ua \in UserCurrents : set_property_current(ua)
    \/ \E uv \in UserVoltages : set_property_voltage(uv)
    \/ set_property_write

-----------------------------------------------------------------------------
(* sm5705_torch_set(), off and on *)

torch_set_off ==
    /\ Torch /\ Probed /\ cs.op = "none"
    /\ \E ok \in BOOLEAN :
          /\ Transfer(ok)
          /\ reg' = IF ok THEN [reg EXCEPT !.movie = FALSE] ELSE reg
    /\ chg' = [chg EXCEPT !.torch_on = FALSE]
    /\ Goto("torch_off", "apply_zone")
    /\ UNCHANGED <<phase, cw, pend, tw, sp, env, reboots>>

\* 9 V again, unless a USB-C source keeps it at 5 V.
torch_off_release ==
    /\ At("torch_off", "applied")
    /\ hold_5v("torch_off", chg, chg.usb_c)
    /\ UNCHANGED <<phase, reg, cw, pend, tw, sp, env, faults, reboots>>

torch_off_unlock ==
    /\ At("torch_off", "held")
    /\ cs' = Unlocked
    /\ UNCHANGED <<phase, chg, reg, cw, pend, tw, sp, env, faults, reboots>>

torch_set_on ==
    /\ Torch /\ Probed /\ cs.op = "none"
    /\ hold_5v("torch_on", chg, TRUE)
    /\ UNCHANGED <<phase, reg, cw, pend, tw, sp, env, faults, reboots>>

\* -EBUSY while hv: the hold failed.
torch_set_held ==
    /\ At("torch_on", "held")
    /\ chg' = [chg EXCEPT !.hv = @ /\ ~cs.ok]
    /\ IF chg'.hv THEN cs' = Unlocked ELSE Goto("torch_on", "movie")
    /\ UNCHANGED <<phase, reg, cw, pend, tw, sp, env, faults, reboots>>

torch_set_movie ==
    /\ At("torch_on", "movie")
    /\ \E ok \in BOOLEAN :
          /\ Transfer(ok)
          /\ IF ok THEN /\ reg' = [reg EXCEPT !.movie = TRUE]
                        /\ chg' = [chg EXCEPT !.torch_on = TRUE]
                        /\ Goto("torch_on", "apply_zone")
                   ELSE cs' = Unlocked /\ UNCHANGED <<chg, reg>>
    /\ UNCHANGED <<phase, cw, pend, tw, sp, env, reboots>>

torch_set ==
    \/ torch_set_off \/ torch_off_release \/ torch_off_unlock
    \/ torch_set_on \/ torch_set_held \/ torch_set_movie

-----------------------------------------------------------------------------
(* The USB OTG supply, used through the regulator core: enable() only while *)
(* unused and not already on, disable() only while used.                    *)

otg_is_enabled == reg.mode = MODE_USB_OTG

otg_enable ==
    /\ Otg /\ Probed /\ ~otg_use /\ ~otg_is_enabled /\ cs.op = "none"
    /\ \E ok \in BOOLEAN :
          /\ Transfer(ok)
          /\ IF ok THEN /\ reg' = [reg EXCEPT !.bstout = BSTOUT_OTG]
                        /\ chg' = [chg EXCEPT !.otg_on = TRUE]
                        /\ Goto("otg_enable", "apply_zone")
                   ELSE UNCHANGED <<reg, chg, cs>>
    /\ UNCHANGED <<phase, cw, pend, tw, sp, env, reboots>>

\* External: the regulator core takes a supply that is on already as it is; its
\* own lock keeps it from another enable().
regulator_already_on ==
    /\ Otg /\ Probed /\ ~otg_use /\ otg_is_enabled /\ cs.op # "otg_enable"
    /\ otg_use' = TRUE
    /\ UNCHANGED <<drv, cw, pend, tw, sp, extcon, supply, notify, vin, owed, faults,
                   reboots>>

\* Mutant: otg_on survives a failed enable.
otg_enable_done_on ==
    /\ At("otg_enable", "applied")
    /\ reg' = IF ~cs.ok THEN [reg EXCEPT !.bstout = chg.bstout] ELSE reg
    /\ otg_use' = cs.ok
    /\ cs' = Unlocked
    /\ UNCHANGED <<phase, chg, cw, pend, tw, sp, extcon, supply, notify, vin,
                   owed, faults, reboots>>

otg_enable_done ==
    /\ At("otg_enable", "applied")
    /\ \E ok \in BOOLEAN :
          /\ Transfer(ok) /\ (cs.ok => ok)
          /\ reg' = IF ok /\ ~cs.ok THEN [reg EXCEPT !.bstout = chg.bstout] ELSE reg
    /\ chg' = [chg EXCEPT !.otg_on = cs.ok]
    /\ otg_use' = cs.ok
    /\ cs' = Unlocked
    /\ UNCHANGED <<phase, cw, pend, tw, sp, extcon, supply, notify, vin, owed, reboots>>

\* sm5705_chg_otg_off(), for op; the mode leaves OTG before BSTOUT changes.
otg_off(op) ==
    /\ cs.op = "none"
    /\ chg' = [chg EXCEPT !.otg_on = FALSE]
    /\ Goto(op, "apply_zone")

otg_disable ==
    /\ Probed /\ otg_use /\ otg_off("otg_disable")
    /\ UNCHANGED <<phase, reg, cw, pend, tw, sp, env, faults, reboots>>

\* The OTGFAIL interrupt: the boost could not hold VBUS.
otg_fail ==
    /\ Probed /\ chg.otg_on /\ otg_off("otg_fail")
    /\ UNCHANGED <<phase, reg, cw, pend, tw, sp, env, faults, reboots>>

\* Mutant: BSTOUT is restored although the mode did not change.
otg_off_done_always ==
    /\ cs.op \in {"otg_disable", "otg_fail", "shutdown"} /\ cs.pc = "applied"
    /\ reg' = [reg EXCEPT !.bstout = chg.bstout]
    /\ otg_use' = IF cs.op = "otg_disable" THEN ~cs.ok ELSE otg_use
    /\ phase' = IF cs.op = "shutdown" THEN "halted" ELSE phase
    /\ cs' = Unlocked
    /\ UNCHANGED <<chg, cw, pend, tw, sp, extcon, supply, notify, vin, owed,
                   faults, reboots>>

\* regulator_disable() keeps the use count when the driver returns an error.
otg_off_done ==
    /\ cs.op \in {"otg_disable", "otg_fail", "shutdown"} /\ cs.pc = "applied"
    /\ \E ok \in BOOLEAN :
          /\ Transfer(ok) /\ (cs.ok \/ ok)
          /\ reg' = IF ok /\ cs.ok THEN [reg EXCEPT !.bstout = chg.bstout] ELSE reg
          /\ otg_use' = IF cs.op = "otg_disable" THEN ~(ok /\ cs.ok) ELSE otg_use
    /\ phase' = IF cs.op = "shutdown" THEN "halted" ELSE phase
    /\ cs' = Unlocked
    /\ UNCHANGED <<chg, cw, pend, tw, sp, extcon, supply, notify, vin, owed, reboots>>

otg == otg_enable \/ regulator_already_on \/ otg_enable_done
       \/ otg_disable \/ otg_fail \/ otg_off_done

-----------------------------------------------------------------------------
(* Probe, shutdown, and what the environment does *)

\* Up to the registration of the power supply: from here on its properties
\* can be written and cable_work can run.
probe_register ==
    /\ phase = "unbound"
    /\ phase' = "registered"
    /\ chg' = [ZeroChg EXCEPT !.bstout = reg.bstout]
    /\ UNCHANGED <<reg, cs, cw, pend, tw, sp, env, faults, reboots>>

\* The battery's limits are written, then the configured ones read back, each
\* without chg->lock.
probe_voltage ==
    /\ phase = "registered"
    /\ phase' = "set_current"
    /\ chg' = [chg EXCEPT !.bat = TRUE]
    /\ reg' = [reg EXCEPT !.vreg = charge_voltage_code(BatVoltageMaxUv)]
    /\ UNCHANGED <<cs, cw, pend, tw, sp, env, faults, reboots>>

probe_current ==
    /\ phase = "set_current"
    /\ phase' = "get_voltage"
    /\ reg' = [reg EXCEPT
                  !.ireg = charge_current_code(IF BatCurrentMaxUa > 0
                                               THEN BatCurrentMaxUa
                                               ELSE DEFAULT_CHARGE_UA),
                  !.term = term_current_code(BatTermUa)]
    /\ UNCHANGED <<chg, cs, cw, pend, tw, sp, env, faults, reboots>>

probe_get_voltage ==
    /\ phase = "get_voltage"
    /\ phase' = "get_current"
    /\ chg' = [chg EXCEPT !.cfg_voltage = get_charge_voltage(reg.vreg)]
    /\ UNCHANGED <<reg, cs, cw, pend, tw, sp, env, faults, reboots>>

probe_get_current ==
    /\ phase = "get_current"
    /\ phase' = "limits"
    /\ chg' = [chg EXCEPT !.cfg_current = get_charge_current(reg.ireg)]
    /\ UNCHANGED <<reg, cs, cw, pend, tw, sp, env, faults, reboots>>

\* Mutant: the mode is left as an earlier run left it.
probe_apply_zone_none ==
    /\ phase = "limits" /\ cs.op = "none"
    /\ phase' = "apply"
    /\ UNCHANGED <<chg, reg, cs, cw, pend, tw, sp, env, faults, reboots>>

\* Start from the normal zone, whatever an earlier run left.
probe_apply_zone ==
    /\ phase = "limits" /\ cs.op = "none"
    /\ phase' = "apply"
    /\ Goto("probe", "apply_zone")
    /\ UNCHANGED <<chg, reg, cw, pend, tw, sp, env, faults, reboots>>

\* Torch off, OTG supply, interrupt, extcon notifier, and a first cable_work.
probe_done ==
    /\ phase = "apply" /\ cs.op # "probe"
    /\ phase' = "bound" /\ pend' = TRUE
    /\ reg' = [reg EXCEPT !.movie = FALSE]
    /\ UNCHANGED <<chg, cs, cw, tw, sp, env, faults, reboots>>

\* probe() fails once the supply exists: the supply goes and cable_work is
\* cancelled, once whoever runs has finished.
probe_fail ==
    /\ phase \in Probing /\ cs.op = "none" /\ cw.pc = "idle"
    /\ Transfer(FALSE)
    /\ phase' = "unbound" /\ chg' = ZeroChg /\ pend' = FALSE /\ notify' = FALSE
    /\ UNCHANGED <<reg, cs, cw, tw, sp, extcon, supply, vin, owed, otg_use, reboots>>

\* The torch goes off without the lock, then OTG with it.
shutdown_torch ==
    /\ phase = "bound" /\ reboots < MaxReboots
    /\ \E ok \in BOOLEAN :
          /\ Transfer(ok)
          /\ reg' = IF ok THEN [reg EXCEPT !.movie = FALSE] ELSE reg
    /\ phase' = "halting"
    /\ UNCHANGED <<chg, cs, cw, pend, tw, sp, env, reboots>>

\* Mutant: OTG stays on through shutdown.
shutdown_keeps_otg ==
    /\ phase = "halting" /\ cs.op = "none"
    /\ phase' = "halted"
    /\ UNCHANGED <<chg, reg, cs, cw, pend, tw, sp, env, faults, reboots>>

shutdown_otg ==
    /\ phase = "halting" /\ cs.op = "none"
    /\ IF chg.otg_on THEN otg_off("shutdown") /\ UNCHANGED phase
                     ELSE phase' = "halted" /\ UNCHANGED <<chg, cs>>
    /\ UNCHANGED <<reg, cw, pend, tw, sp, env, faults, reboots>>

\* A reset, at any moment: only the registers survive.
reboot ==
    /\ phase # "unbound" /\ reboots < MaxReboots
    /\ reboots' = reboots + 1
    /\ phase' = "unbound" /\ chg' = ZeroChg /\ cs' = Unlocked /\ cw' = Idle
    /\ pend' = FALSE /\ tw' = <<>> /\ sp' = NoWrite /\ notify' = FALSE /\ otg_use' = FALSE
    /\ extcon' = extcon \ {"FAST"}
    /\ UNCHANGED <<reg, supply, vin, owed, faults>>

lifecycle == probe_register \/ probe_voltage \/ probe_current
             \/ probe_get_voltage \/ probe_get_current \/ probe_apply_zone
             \/ probe_done \/ probe_fail \/ shutdown_torch \/ shutdown_otg \/ reboot

\* External: a source comes or goes; the MUIC or the Type-C controller
\* report it later.
vbus_change ==
    /\ ~owed /\ vin' \in Vin \ {vin}
    /\ owed' = TRUE
    /\ UNCHANGED <<drv, cw, pend, tw, sp, extcon, supply, notify, otg_use, faults,
                   reboots>>

\* External: the MUIC reports another set of cables; no 9 V while it holds 5 V.
extcon_change ==
    /\ extcon' \in ExtconStates \ {extcon}
    /\ extcon' # {} => vin
    /\ "FAST" \in extcon' => ~chg.hold_5v \/ cs.pc = "muic"
    /\ pend' = (pend \/ Probed) /\ owed' = FALSE
    /\ UNCHANGED <<drv, cw, tw, sp, supply, notify, vin, otg_use, faults, reboots>>

\* External: the Type-C controller attaches, detaches or has a new contract.
supply_change ==
    /\ supply' \in Supplies \ {supply}
    /\ supply'.online => vin
    /\ notify' = Running /\ owed' = FALSE
    /\ UNCHANGED <<drv, cw, pend, tw, sp, extcon, vin, otg_use, faults, reboots>>

environment == vbus_change \/ extcon_change \/ supply_change

Next == \/ apply_zone \/ apply_zone_unlock \/ muic_hold_5v
        \/ cable_work \/ external_power_changed
        \/ temp_work_read \/ temp_work \/ set_property \/ torch_set \/ otg
        \/ lifecycle \/ environment

Spec == Init /\ [][Next]_vars

\* Workers, the interrupt thread and lock holders run; users, cables, faults
\* and resets owe nothing.  Strong fairness for the two works that wait for
\* chg->lock: a mutex hands off to a waiter it has kept waiting.
Fairness ==
    /\ WF_vars(apply_zone \/ apply_zone_unlock \/ muic_hold_5v)
    /\ WF_vars(cable_work_held \/ cable_work_unlock \/ torch_off_release
               \/ torch_off_unlock \/ torch_set_held \/ torch_set_movie
               \/ otg_enable_done \/ otg_off_done \/ set_property_write)
    /\ WF_vars(probe_done)
    /\ WF_vars(cable_work_start) /\ WF_vars(external_power_changed)
    /\ WF_vars(cable_work_extcon \/ typec_limit_read \/ cable_work_limit)
    /\ SF_vars(cable_work_lock) /\ WF_vars(temp_work_read) /\ SF_vars(temp_work)

FairSpec == Spec /\ Fairness

-----------------------------------------------------------------------------
(* Properties *)

SupplyType == [online : BOOLEAN, uv : Nat, ua : Nat, pd : BOOLEAN]
ChgType ==
    [usb_type : {"UNKNOWN", "SDP", "DCP", "CDP", "C", "PD"}, fast : BOOLEAN,
     hv : BOOLEAN, usb_c : BOOLEAN, hold_5v : BOOLEAN, torch_on : BOOLEAN,
     otg_on : BOOLEAN, bstout : 0..15, zone : Zones, bat : BOOLEAN,
     cfg_voltage : Int, cfg_current : Int]
RegType ==
    [mode : AllModes, bstout : 0..15, movie : BOOLEAN, limit : 0..127,
     vreg : 0..63, ireg : 0..63, term : 0..15]
CsType ==
    [op : {"none", "set_property", "temp_work", "cable_work", "torch_off",
           "torch_on", "otg_enable", "otg_disable", "otg_fail", "probe",
           "shutdown"},
     pc : {"none", "write", "muic", "held", "movie", "apply_zone", "az_current",
           "az_mode", "applied"},
     ok : BOOLEAN]
CwType ==
    [pc : {"idle", "FAST", "DCP", "CDP", "SDP", "online", "voltage", "current",
           "type", "limit", "lock", "locked"},
     bc : {"FAST", "DCP", "CDP", "SDP", "NONE"}, s : SupplyType]
SpType == [psp : {"none", "current", "voltage"}, val : Int]

\* Every field of struct sm5705_chg and of the registers stays in its range:
\* no encoding spills over the register field it is masked into.
TypeOK ==
    /\ phase \in Probing \union {"unbound", "bound", "halting", "halted"}
    /\ chg \in ChgType /\ reg \in RegType /\ cs \in CsType /\ cw \in CwType
    /\ sp \in SpType /\ pend \in BOOLEAN
    /\ tw = <<>> \/ \E temp \in Temps : tw = <<temp>>
    /\ extcon \subseteq {"FAST", "DCP", "CDP", "SDP"} /\ supply \in SupplyType
    /\ notify \in BOOLEAN /\ vin \in BOOLEAN /\ owed \in BOOLEAN
    /\ otg_use \in BOOLEAN /\ faults \in Nat /\ reboots \in Nat

\* What set_property still has to write fits the register.
CheckedValue ==
    /\ cs.pc = "write" => sp.psp # "none"
    /\ sp.psp = "voltage" => charge_voltage_ok(sp.val, 0)
    /\ sp.psp = "current" => charge_current_ok(sp.val, 0)

AtRest == Probed /\ cs.op = "none"

\* No cable event waits to be applied.
Settled == AtRest /\ cw.pc = "idle" /\ ~pend /\ ~notify /\ ~owed

\* Whatever transfer fails and whenever the system crashes, the boost drives
\* VBUS only at the 5.1 V of USB OTG, never at the flash LED's voltage:
\* sm5705_otg_enable() and sm5705_chg_otg_off() order their writes for it.
OtgBoostVoltage == reg.mode = MODE_USB_OTG => reg.bstout = BSTOUT_OTG

\* Between handlers, an OTG supply that counts as on is on, and in use: no
\* cable, temperature, torch or limit change takes its mode away, even one
\* whose register accesses fail.
OtgStaysOn == cs.op = "none" /\ chg.otg_on => reg.mode = MODE_USB_OTG /\ otg_use

\* The same inside the handlers, as an inductive invariant: enable() prepares
\* BSTOUT before it touches the mode and knows from apply_zone's result whether
\* the boost runs; the handlers that end OTG restore BSTOUT only once it does
\* not; every other handler leaves a supply that is on alone.
OtgInv ==
    /\ OtgBoostVoltage
    /\ chg.otg_on /\ cs.op # "otg_enable" => reg.mode = MODE_USB_OTG /\ otg_use
    /\ cs.op = "otg_enable" =>
          /\ phase # "unbound" /\ chg.otg_on /\ ~otg_use
          /\ reg.bstout = BSTOUT_OTG
          /\ reg.mode = MODE_USB_OTG <=> cs.pc = "applied" /\ cs.ok
    /\ cs.op \in {"otg_disable", "otg_fail", "shutdown"} =>
          /\ ~chg.otg_on
          /\ cs.pc = "applied" /\ cs.ok => reg.mode # MODE_USB_OTG

\* Between handlers, with a working bus, the registers obey the temperature
\* guard and the battery's maximum voltage, however cable, user, torch and
\* OTG changes interleaved, and after a crash in any of them.
GuardHolds ==
    AtRest =>
      /\ ~zone_charges(chg.zone) => reg.mode # MODE_CHG_ON
      /\ get_charge_voltage(reg.vreg) <= BatVoltageMaxUv
      /\ chg.zone = "WARM" => /\ get_charge_voltage(reg.vreg) <= WARM_VOLTAGE_UV
                              /\ get_charge_current(reg.ireg) <= WARM_CURRENT_UA
      /\ chg.zone = "COOL" => get_charge_current(reg.ireg) <= COOL_CURRENT_UA

\* Charging is switched on only once the zone's limits are in the registers.
LimitsBeforeCharging ==
    [][Probed /\ reg.mode # MODE_CHG_ON /\ reg'.mode = MODE_CHG_ON =>
         /\ get_charge_voltage(reg.vreg) <= zone_voltage(chg.zone, chg.cfg_voltage)
         /\ get_charge_current(reg.ireg)
              <= zone_current(chg.zone, chg.cfg_current, chg.fast)]_reg

\* The one of the cables e that cable_work settles on: the first it asks for.
first_cable(e) == CHOOSE c \in {"FAST", "DCP", "CDP", "SDP", "NONE"} :
                     /\ c = "NONE" \/ c \in e
                     /\ \A k \in e : bc12_rank[c] <= bc12_rank[k]

\* Once no event waits, type, input limit, charge rate and the 5 V hold are
\* those of the cable that is there now, although cable_work reads it piece by
\* piece while it changes.  A limit below the charger's least is refused.
CableApplied ==
    Settled =>
      LET d == cable_limit(first_cable(extcon), supply)
      IN  /\ chg.usb_type = d.type /\ chg.fast = d.fast /\ chg.usb_c = d.usb_c
          /\ input_limit_ok(d.limit) => reg.limit = input_limit_code(d.limit)
          /\ chg.hold_5v = (d.usb_c \/ chg.torch_on)

\* Once no event waits, a lit torch has a supply (VBUS, or the flash boost)
\* and the boost runs only for a lit torch or OTG.
TorchSupplied ==
    Settled /\ phase = "bound" =>
      /\ reg.movie = chg.torch_on
      /\ reg.movie => vin \/ reg.mode \in {MODE_FLASH_BOOST, MODE_USB_OTG}
      /\ reg.mode = MODE_FLASH_BOOST => reg.movie

\* When shutdown() returns, the boost is off VBUS, and until the reset no handler
\* that still runs puts it back: only enable(), called anew, does.
ShutdownEndsOtg ==
    [][phase' = "halted" /\ reg'.mode = MODE_USB_OTG =>
         phase = "halted" /\ (reg.mode = MODE_USB_OTG \/ cs.op = "otg_enable")]_<<phase, reg>>

\* The boost is found off VBUS at the reset.  shutdown() is written for it: "the
\* bootloader does not expect VBUS from the boost".
\* It does not hold: README, section 4.
NoVbusAtReset == phase = "halted" => reg.mode # MODE_USB_OTG

\* Between handlers of a probed driver, the charger is in OTG mode only for an
\* OTG supply that is on: probe() ends what a crash has left, and nothing that
\* overlaps the end of OTG brings it back.
OtgModeOwned == AtRest /\ reg.mode = MODE_USB_OTG => chg.otg_on

\* A battery that is found hot whenever temp_work reads it stops charging, however
\* often the users of sysfs and of the OTG supply take chg->lock before temp_work.
HotStopsCharging ==
    <>[](phase = "bound" /\ \A i \in DOMAIN tw : tw[i] >= TempMax)
      => <>[](reg.mode # MODE_CHG_ON)

\* docs/battery.md: limits written to sysfs stay the upper bound.
\* It does not hold: README, section 4.
UserCurrentIsBound == AtRest => get_charge_current(reg.ireg) <= chg.cfg_current

\* docs/battery.md: the driver refuses writes above the battery's maximums.
\* It does not hold: README, section 4.
VoltageWithinMax == AtRest => get_charge_voltage(reg.vreg) <= BatVoltageMaxUv

\* docs/battery.md: 2.0 A unless a source of about 15 W is attached.
\* It does not hold: README, section 4.
DefaultCurrent ==
    Settled /\ ~chg.fast => get_charge_current(reg.ireg) <= DEFAULT_CHARGE_UA

\* The flash LED never runs from a source above 5 V.
\* It does not hold: README, section 4.
TorchNever9V == Settled /\ reg.movie => supply.uv <= HV_MIN_UV
=============================================================================
