------------------------ MODULE SM5705ChargerProofs -------------------------
(***************************************************************************)
(* What holds of the charger driver for every battery, temperature, cable, *)
(* user input and number of failing transfers and crashes.                 *)
(***************************************************************************)
EXTENDS SM5705Charger, TLAPS

-----------------------------------------------------------------------------
(* Register encodings *)

\* A limit the driver accepts fits the 7 bits of VBUSCNTL.
LEMMA InputLimitFits ==
    ASSUME NEW ua \in Int, input_limit_ok(ua)
    PROVE  input_limit_code(ua) \in 0..127
  BY DEF input_limit_ok, input_limit_code, Least

\* A termination current the driver accepts fits the 4 bits of its field.
LEMMA TermCurrentFits ==
    ASSUME NEW ua \in Int, term_current_ok(ua)
    PROVE  term_current_code(ua) \in 0..15
  BY DEF term_current_ok, term_current_code, Least

\* The code of any charge current fits 6 bits: large ones saturate.
LEMMA ChargeCurrentFits ==
    ASSUME NEW ua \in Int, ua >= MIN_CHARGE_UA
    PROVE  charge_current_code(ua) \in 0..63
  BY SMT DEF charge_current_code, MIN_CHARGE_UA, Least

\* A voltage in the charger's range fits the 6 bits of CHGCNTL3.
LEMMA ChargeVoltageFits ==
    ASSUME NEW uv \in Int, uv >= BATREG_MIN_UV, uv <= BATREG_MAX_UV
    PROVE  charge_voltage_code(uv) \in 0..63
  BY DEF charge_voltage_code, BATREG_MIN_UV, BATREG_MAX_UV

\* A register never allows more than was asked for; a voltage is short of it by
\* less than a step.
THEOREM LimitsNotExceeded ==
    /\ \A ua \in Int : input_limit_ok(ua) =>
          get_input_limit(input_limit_code(ua)) <= ua
    /\ \A ua \in Int : term_current_ok(ua) =>
          get_term_current(term_current_code(ua)) <= ua
    /\ \A ua \in Int : charge_current_ok(ua, 0) =>
          get_charge_current(charge_current_code(ua)) <= ua
    /\ \A uv \in Int : charge_voltage_ok(uv, 0) =>
          /\ get_charge_voltage(charge_voltage_code(uv)) <= uv
          /\ uv - get_charge_voltage(charge_voltage_code(uv)) < 10000
<1>1. ASSUME NEW ua \in Int, input_limit_ok(ua)
      PROVE  get_input_limit(input_limit_code(ua)) <= ua
  BY <1>1, SMT DEF input_limit_ok, input_limit_code, get_input_limit, Least
<1>t. ASSUME NEW ua \in Int, term_current_ok(ua)
      PROVE  get_term_current(term_current_code(ua)) <= ua
  BY <1>t, SMT DEF term_current_ok, term_current_code, get_term_current, Least
<1>2. ASSUME NEW ua \in Int, charge_current_ok(ua, 0)
      PROVE  get_charge_current(charge_current_code(ua)) <= ua
  BY <1>2, SMT DEF charge_current_ok, charge_current_code, MIN_CHARGE_UA,
                 get_charge_current, Least
<1>3. ASSUME NEW uv \in Int, charge_voltage_ok(uv, 0)
      PROVE  /\ get_charge_voltage(charge_voltage_code(uv)) <= uv
             /\ uv - get_charge_voltage(charge_voltage_code(uv)) < 10000
  BY <1>3, SMT DEF charge_voltage_ok, charge_voltage_code, get_charge_voltage,
              BATREG_MIN_UV, BATREG_MAX_UV
<1> QED BY <1>1, <1>t, <1>2, <1>3

-----------------------------------------------------------------------------
(* Temperature zones *)

\* sm5705_chg_temp_work() always finds one of the six zones.
LEMMA ZoneType ==
    ASSUME NEW zone, NEW temp, NEW tmin, NEW tmax
    PROVE  temp_zone(zone, temp, tmin, tmax) \in Zones
  BY DEF temp_zone, Zones

\* A second look at the same temperature finds the same zone: temp_work has
\* nothing to do until the battery's temperature changes.
THEOREM ZoneStable ==
    ASSUME NEW zone \in Zones, NEW temp \in Int, NEW tmin \in Int, NEW tmax \in Int
    PROVE  LET z == temp_zone(zone, temp, tmin, tmax)
           IN  temp_zone(z, temp, tmin, tmax) = z
  BY DEF temp_zone, Zones, TEMP_ALERT_HYST, TEMP_WARM, TEMP_WARM_HYST,
         TEMP_COOL, TEMP_COOL_HYST

\* Outside the alert range the battery never charges, whatever zone it was in.
THEOREM ZoneGuards ==
    ASSUME NEW zone \in Zones, NEW temp \in Int, NEW tmin \in Int, NEW tmax \in Int,
           temp >= tmax \/ temp < tmin
    PROVE  ~zone_charges(temp_zone(zone, temp, tmin, tmax))
  BY DEF temp_zone, zone_charges
-----------------------------------------------------------------------------
(* Type correctness *)

\* sm5705_chg_cable_work() decides on a known type and a limit the charger
\* accepts, whatever the cable and the Type-C supply report.
LEMMA CableType ==
    ASSUME NEW bc \in {"FAST", "DCP", "CDP", "SDP", "NONE"},
           NEW s \in SupplyType
    PROVE  cable_limit(bc, s) \in
               [limit : Int, type : {"UNKNOWN", "SDP", "DCP", "CDP", "C", "PD"},
                fast : BOOLEAN, hv : BOOLEAN, usb_c : BOOLEAN]
<1>1. typec_limit(s) \in
          [limit : Int, type : {"UNKNOWN", "SDP", "DCP", "CDP", "C", "PD"},
           fast : BOOLEAN, hv : BOOLEAN, usb_c : BOOLEAN]
  BY SMT DEF SupplyType, typec_limit, Least, FAST_INPUT_LIMIT_UA, TYPEC_INPUT_LIMIT_UA
<1>2. bc12_limit[bc] \in Int /\ bc12_type[bc] \in {"UNKNOWN", "SDP", "DCP", "CDP"}
  BY SMT DEF bc12_limit, bc12_type, FAST_INPUT_LIMIT_UA, DCP_INPUT_LIMIT_UA,
         CDP_INPUT_LIMIT_UA, SDP_INPUT_LIMIT_UA
<1> QED BY <1>1, <1>2, SMT DEF cable_limit

\* The mode apply_zone() picks is one of those it may switch between.
LEMMA ModeType ==
    ASSUME NEW zone, NEW torch_on, NEW otg_on, NEW vbus_ok
    PROVE  zone_mode(zone, torch_on, otg_on, vbus_ok) \in SwitchedModes
  BY DEF zone_mode, SwitchedModes

TypeInv == TypeOK /\ CheckedValue

\* The hardware as the bootloader leaves it is well typed.
LEMMA TypeInit == Init => TypeInv
<1> SUFFICES ASSUME Init PROVE TypeInv
  OBVIOUS
<1>1. input_limit_code(BOOT_LIMIT_UA) \in 0..127
  BY SMT DEF input_limit_code, BOOT_LIMIT_UA, Least
<1>a. charge_voltage_code(BOOT_VOLTAGE_UV) \in 0..63
  BY SMT DEF charge_voltage_code, BATREG_MIN_UV, BOOT_VOLTAGE_UV
<1>b. charge_current_code(DEFAULT_CHARGE_UA) \in 0..63
  BY SMT DEF charge_current_code, DEFAULT_CHARGE_UA, Least
<1>c. term_current_code(BatTermUa) \in 0..15
  BY TermCurrentFits, BatteryAssumption
<1>2. reg \in RegType
  BY <1>1, <1>a, <1>b, <1>c, SMT DEF Init, RegType, AllModes, MODE_CHG_ON, FlashBoost
<1>3. chg \in ChgType
  BY SMT DEF Init, ChgType, ZeroChg, FlashBoost, Zones
<1>4. cs = Unlocked /\ cw = Idle /\ sp = NoWrite /\ tw = <<>> /\ phase = "unbound"
  BY DEF Init
<1>5. CheckedValue
  BY <1>4 DEF CheckedValue, Unlocked, NoWrite
<1>6. /\ pend \in BOOLEAN /\ notify \in BOOLEAN /\ vin \in BOOLEAN
      /\ owed \in BOOLEAN /\ otg_use \in BOOLEAN /\ faults \in Nat /\ reboots \in Nat
      /\ extcon \subseteq {"FAST", "DCP", "CDP", "SDP"}
      /\ supply \in SupplyType
  <2>1. /\ pend = FALSE /\ notify = FALSE /\ owed = FALSE /\ otg_use = FALSE
        /\ faults = 0 /\ reboots = 0
        /\ vin \in Vin /\ extcon \in ExtconStates /\ supply \in Supplies
    BY Zenon DEF Init
  <2> QED BY <2>1, InputAssumption DEF SupplyType
<1> QED BY <1>2, <1>3, <1>4, <1>5, <1>6
        DEF TypeInv, TypeOK, CsType, CwType, SpType, SupplyType, Unlocked, Idle,
            NoWrite, OfflineSupply

\* Writing a value in range keeps the registers typed.
LEMMA RegWrite ==
    ASSUME NEW r \in RegType, NEW v
    PROVE  /\ v \in 0..63 => [r EXCEPT !.vreg = v] \in RegType
           /\ v \in 0..63 => [r EXCEPT !.ireg = v] \in RegType
           /\ v \in 0..127 => [r EXCEPT !.limit = v] \in RegType
           /\ v \in 0..15 => [r EXCEPT !.term = v] \in RegType
           /\ v \in 0..15 => [r EXCEPT !.bstout = v] \in RegType
           /\ v \in BOOLEAN => [r EXCEPT !.movie = v] \in RegType
           /\ v \in SwitchedModes => [r EXCEPT !.mode = v] \in RegType
<1>1. SwitchedModes \subseteq AllModes
  BY DEF SwitchedModes, AllModes, MODE_CHG_OFF, MODE_CHG_ON, MODE_FLASH_BOOST,
         MODE_USB_OTG
<1> QED BY <1>1 DEF RegType

\* Writing a value in range keeps struct sm5705_chg typed.
LEMMA ChgWrite ==
    ASSUME NEW c \in ChgType, NEW v
    PROVE  /\ v \in BOOLEAN => /\ [c EXCEPT !.otg_on = v] \in ChgType
                               /\ [c EXCEPT !.torch_on = v] \in ChgType
                               /\ [c EXCEPT !.hold_5v = v] \in ChgType
                               /\ [c EXCEPT !.usb_c = v] \in ChgType
                               /\ [c EXCEPT !.hv = v] \in ChgType
                               /\ [c EXCEPT !.fast = v] \in ChgType
                               /\ [c EXCEPT !.bat = v] \in ChgType
           /\ v \in Int => /\ [c EXCEPT !.cfg_voltage = v] \in ChgType
                           /\ [c EXCEPT !.cfg_current = v] \in ChgType
           /\ v \in Zones => [c EXCEPT !.zone = v] \in ChgType
  BY DEF ChgType

\* sm5705_chg_apply_zone() writes only values it has checked.
LEMMA TypeApplyZone ==
    ASSUME TypeInv, apply_zone PROVE TypeInv'
<1>0. reg \in RegType /\ chg \in ChgType /\ cs \in CsType
  BY DEF TypeInv, TypeOK
<1>1. CASE apply_zone_voltage
  <2> DEFINE uv == zone_voltage(chg.zone, chg.cfg_voltage)
  <2>1. uv \in Int
    BY <1>0, SMT DEF zone_voltage, ChgType, Least, WARM_VOLTAGE_UV
  <2>2. ASSUME NEW max, charge_voltage_ok(uv, max)
        PROVE  charge_voltage_code(uv) \in 0..63
    BY <2>1, <2>2, ChargeVoltageFits DEF charge_voltage_ok
  <2>3. reg' = reg \/ \E v \in 0..63 : reg' = [reg EXCEPT !.vreg = v]
    BY <1>1, <2>2 DEF apply_zone_voltage
  <2>4. reg' \in RegType
    BY <1>0, <2>3, RegWrite
  <2> QED BY <1>1, <1>0, <2>4
          DEF apply_zone_voltage, env, TypeInv, TypeOK, CheckedValue, CsType, Goto, Transfer
<1>2. CASE apply_zone_current
  <2> DEFINE ua == zone_current(chg.zone, chg.cfg_current, chg.fast)
  <2>1. ua \in Int
    BY <1>0, SMT DEF zone_current, ChgType, Least, FAST_CHARGE_UA, WARM_CURRENT_UA,
               COOL_CURRENT_UA
  <2>2. ASSUME NEW max, charge_current_ok(ua, max)
        PROVE  charge_current_code(ua) \in 0..63
    BY <2>1, <2>2, ChargeCurrentFits DEF charge_current_ok
  <2>3. reg' = reg \/ \E v \in 0..63 : reg' = [reg EXCEPT !.ireg = v]
    BY <1>2, <2>2 DEF apply_zone_current
  <2>4. reg' \in RegType
    BY <1>0, <2>3, RegWrite
  <2> QED BY <1>2, <1>0, <2>4
          DEF apply_zone_current, env, TypeInv, TypeOK, CheckedValue, CsType, Goto, Transfer
<1>3. CASE apply_zone_mode
  <2>0. reg' = reg \/ \E m \in SwitchedModes : reg' = [reg EXCEPT !.mode = m]
    BY <1>3, ModeType DEF apply_zone_mode
  <2>1. reg' \in RegType
    BY <1>0, <2>0, RegWrite
  <2>2. cs' \in CsType /\ cs'.pc # "write"
    BY <1>0, <1>3 DEF apply_zone_mode, CsType
  <2> QED BY <1>3, <2>1, <2>2
          DEF apply_zone_mode, env, TypeInv, TypeOK, CheckedValue, Transfer
<1> QED BY <1>1, <1>2, <1>3 DEF apply_zone

Ops == {"none", "set_property", "temp_work", "cable_work", "torch_off",
        "torch_on", "otg_enable", "otg_disable", "otg_fail", "probe", "shutdown"}
LockPcs == {"muic", "held", "movie", "apply_zone", "applied"}

\* Moving on inside a locked section keeps the lock's state typed.
LEMMA GotoType ==
    ASSUME NEW op \in Ops, NEW pc \in LockPcs, Goto(op, pc)
    PROVE  cs' \in CsType /\ cs'.pc # "write"
  BY DEF Goto, CsType, Ops, LockPcs

\* ... and so does giving the lock back.
LEMMA UnlockedType == Unlocked \in CsType /\ Unlocked.pc # "write"
  BY DEF Unlocked, CsType

\* sm5705_chg_hold_5v() changes one flag and goes to one of two places.
LEMMA HoldType ==
    ASSUME NEW op \in Ops, NEW c \in ChgType, NEW hold \in BOOLEAN,
           hold_5v(op, c, hold)
    PROVE  chg' \in ChgType /\ cs' \in CsType /\ cs'.pc # "write"
<1>1. chg' \in ChgType
  BY ChgWrite DEF hold_5v
<1>2. Goto(op, "held") \/ Goto(op, "muic")
  BY Zenon DEF hold_5v
<1>3. cs' \in CsType /\ cs'.pc # "write"
  BY <1>2, GotoType DEF LockPcs
<1> QED BY <1>1, <1>3

\* Waiting for the MUIC, or giving the lock back, keeps the types.
LEMMA TypeHold ==
    ASSUME TypeInv, apply_zone_unlock \/ muic_hold_5v PROVE TypeInv'
<1>1. CASE apply_zone_unlock
  BY <1>1, UnlockedType
  DEF apply_zone_unlock, env, TypeInv, TypeOK, CheckedValue
<1>2. CASE muic_hold_5v
  <2>1. cs' \in CsType /\ cs'.pc # "write"
    BY <1>2 DEF muic_hold_5v, TypeInv, TypeOK, CsType
  <2>2. extcon' \subseteq {"FAST", "DCP", "CDP", "SDP"} /\ pend' \in BOOLEAN
    BY <1>2 DEF muic_hold_5v, TypeInv, TypeOK
  <2> QED BY <1>2, <2>1, <2>2 DEF muic_hold_5v, env, TypeInv, TypeOK, CheckedValue
<1> QED BY <1>1, <1>2

\* Each step of sm5705_chg_cable_work() keeps the types.
LEMMA TypeCable ==
    ASSUME TypeInv, cable_work \/ external_power_changed PROVE TypeInv'
<1>0. /\ reg \in RegType /\ chg \in ChgType /\ cs \in CsType /\ cw \in CwType
      /\ supply \in SupplyType
  BY DEF TypeInv, TypeOK
<1>d. Decision \in
          [limit : Int, type : {"UNKNOWN", "SDP", "DCP", "CDP", "C", "PD"},
           fast : BOOLEAN, hv : BOOLEAN, usb_c : BOOLEAN]
  BY <1>0, CableType DEF Decision, CwType
<1>i. Idle \in CwType
  BY DEF Idle, CwType, OfflineSupply, SupplyType
<1>1. CASE cable_work_start
  <2>1. cw' \in CwType
    BY <1>1, <1>i DEF cable_work_start, CwType
  <2> QED BY <1>1, <2>1
          DEF cable_work_start, drv, env, TypeInv, TypeOK, CheckedValue
<1>2. CASE cable_work_extcon
  <2>a. /\ cw.pc \in {"FAST", "DCP", "CDP", "SDP"}
        /\ NextCable[cw.pc] \in {"DCP", "CDP", "SDP", "online"}
    BY <1>2, SMT DEF cable_work_extcon, NextCable
  <2>b. \/ cw' = [cw EXCEPT !.bc = cw.pc, !.pc = "online"]
        \/ cw' = [cw EXCEPT !.pc = NextCable[cw.pc]]
    BY <1>2, Zenon DEF cable_work_extcon
  <2>1. cw' \in CwType
    BY <2>a, <2>b, <1>0 DEF CwType
  <2> QED BY <1>2, <2>1
          DEF cable_work_extcon, drv, env, TypeInv, TypeOK, CheckedValue
<1>3. CASE typec_limit_read
  <2>a. \A t \in SupplyType :
           /\ [t EXCEPT !.online = supply.online] \in SupplyType
           /\ [t EXCEPT !.uv = supply.uv] \in SupplyType
           /\ [t EXCEPT !.ua = supply.ua] \in SupplyType
           /\ [t EXCEPT !.pd = supply.pd] \in SupplyType
    BY <1>0 DEF SupplyType
  <2>b. \E t \in SupplyType, pc \in {"voltage", "current", "type", "limit"} :
           cw' = [cw EXCEPT !.s = t, !.pc = pc]
    <3>1. cw.s \in SupplyType
      BY <1>0 DEF CwType
    <3>2. CASE cw.pc = "online"
      BY <3>1, <3>2, <2>a, <1>3, <1>0 DEF typec_limit_read, CwType
    <3>3. CASE cw.pc = "voltage"
      BY <3>1, <3>3, <2>a, <1>3, <1>0 DEF typec_limit_read, CwType
    <3>4. CASE cw.pc = "current"
      BY <3>1, <3>4, <2>a, <1>3, <1>0 DEF typec_limit_read, CwType
    <3>5. CASE cw.pc = "type"
      BY <3>1, <3>5, <2>a, <1>3, <1>0 DEF typec_limit_read, CwType
    <3> QED BY <3>2, <3>3, <3>4, <3>5, <1>3, Zenon DEF typec_limit_read
  <2>1. cw' \in CwType
    BY <2>b, <1>0 DEF CwType
  <2> QED BY <1>3, <2>1
          DEF typec_limit_read, drv, env, TypeInv, TypeOK, CheckedValue
<1>4. CASE cable_work_limit
  <2>1. reg' = reg \/ \E v \in 0..127 : reg' = [reg EXCEPT !.limit = v]
    BY <1>4, <1>d, InputLimitFits DEF cable_work_limit
  <2>2. reg' \in RegType
    BY <2>1, <1>0, RegWrite
  <2>3. chg' \in ChgType
    BY <1>4, <1>0, <1>d DEF cable_work_limit, ChgType
  <2>4. cw' \in CwType
    BY <1>4, <1>0 DEF cable_work_limit, CwType
  <2> QED BY <1>4, <2>2, <2>3, <2>4
          DEF cable_work_limit, env, Transfer, TypeInv, TypeOK, CheckedValue
<1>5. CASE cable_work_lock
  <2>1. [chg EXCEPT !.usb_c = Decision.usb_c] \in ChgType
    BY <1>0, <1>d, ChgWrite
  <2>2. (Decision.usb_c \/ chg.torch_on) \in BOOLEAN
    OBVIOUS
  <2>3. chg' \in ChgType /\ cs' \in CsType /\ cs'.pc # "write"
    BY <1>5, <2>1, <2>2, HoldType DEF cable_work_lock, Ops
  <2>4. cw' \in CwType
    BY <1>5, <1>0 DEF cable_work_lock, CwType
  <2> QED BY <1>5, <2>3, <2>4
          DEF cable_work_lock, env, TypeInv, TypeOK, CheckedValue
<1>6. CASE cable_work_held
  <2>1. chg' \in ChgType
    BY <1>6, <1>0, <1>d DEF cable_work_held, ChgType
  <2>2. reg' \in RegType
    BY <1>6, <1>0, RegWrite DEF cable_work_held
  <2>3. cs' \in CsType /\ cs'.pc # "write"
    BY <1>6, GotoType DEF cable_work_held, Ops, LockPcs
  <2> QED BY <1>6, <2>1, <2>2, <2>3
          DEF cable_work_held, env, Transfer, TypeInv, TypeOK, CheckedValue
<1>7. CASE cable_work_unlock
  BY <1>7, <1>i, UnlockedType
  DEF cable_work_unlock, env, TypeInv, TypeOK, CheckedValue
<1>8. CASE external_power_changed
  BY <1>8 DEF external_power_changed, drv, env, TypeInv, TypeOK, CheckedValue
<1> QED BY <1>1, <1>2, <1>3, <1>4, <1>5, <1>6, <1>7, <1>8 DEF cable_work

\* Each step of sm5705_chg_temp_work() keeps the types.
LEMMA TypeTemp ==
    ASSUME TypeInv, temp_work_read \/ temp_work PROVE TypeInv'
<1>0. chg \in ChgType /\ cs \in CsType
  BY DEF TypeInv, TypeOK
<1>1. CASE temp_work_read
  BY <1>1 DEF temp_work_read, drv, env, TypeInv, TypeOK, CheckedValue
<1>2. CASE temp_work
  <2>1. \/ chg' = chg /\ cs' = cs
        \/ /\ \E z \in Zones : chg' = [chg EXCEPT !.zone = z]
           /\ Goto("temp_work", "apply_zone")
    BY <1>2, ZoneType DEF temp_work
  <2>2. chg' \in ChgType
    BY <2>1, <1>0, ChgWrite
  <2>3. cs' \in CsType /\ (cs'.pc = "write" => cs.pc = "write")
    BY <2>1, <1>0, GotoType DEF Ops, LockPcs
  <2> QED BY <1>2, <2>2, <2>3 DEF temp_work, env, TypeInv, TypeOK, CheckedValue
<1> QED BY <1>1, <1>2

\* sm5705_chg_set_property() checks what it will write; what a checked value
\* is encoded as fits the register.
LEMMA TypeSetProperty ==
    ASSUME TypeInv, set_property PROVE TypeInv'
<1>0. reg \in RegType /\ chg \in ChgType /\ cs \in CsType /\ sp \in SpType
  BY DEF TypeInv, TypeOK
<1>1. ASSUME NEW ua \in UserLimits, set_property_input_limit(ua) PROVE TypeInv'
  <2>1. reg' \in RegType
    BY <1>0, <1>1, InputLimitFits, RegWrite, InputAssumption
    DEF set_property_input_limit
  <2> QED BY <1>1, <2>1
          DEF set_property_input_limit, env, TypeInv, TypeOK, CheckedValue
<1>2. ASSUME NEW ua \in UserTerms, set_property_term(ua) PROVE TypeInv'
  <2>1. reg' \in RegType
    BY <1>0, <1>2, TermCurrentFits, RegWrite, InputAssumption
    DEF set_property_term
  <2> QED BY <1>2, <2>1
          DEF set_property_term, env, TypeInv, TypeOK, CheckedValue
<1>3. ASSUME NEW ua \in UserCurrents, set_property_current(ua) PROVE TypeInv'
  <2>1. sp' \in SpType /\ sp'.psp = "current" /\ sp'.val = ua
    BY <1>3, InputAssumption DEF set_property_current, SpType
  <2>2. charge_current_ok(ua, 0)
    BY <1>3, InputAssumption, SMT
    DEF set_property_current, charge_current_ok, MIN_CHARGE_UA
  <2>3. cs' \in CsType
    BY <1>3 DEF set_property_current, Goto, CsType
  <2> QED BY <1>3, <2>1, <2>2, <2>3
          DEF set_property_current, env, TypeInv, TypeOK, CheckedValue
<1>4. ASSUME NEW uv \in UserVoltages, set_property_voltage(uv) PROVE TypeInv'
  <2>1. sp' \in SpType /\ sp'.psp = "voltage" /\ sp'.val = uv
    BY <1>4, InputAssumption DEF set_property_voltage, SpType
  <2>2. charge_voltage_ok(uv, 0)
    BY <1>4, InputAssumption, SMT
    DEF set_property_voltage, charge_voltage_ok, BATREG_MIN_UV, BATREG_MAX_UV
  <2>3. cs' \in CsType
    BY <1>4 DEF set_property_voltage, Goto, CsType
  <2> QED BY <1>4, <2>1, <2>2, <2>3
          DEF set_property_voltage, env, TypeInv, TypeOK, CheckedValue
<1>5. CASE set_property_write
  <2>1. /\ sp.psp \in {"current", "voltage"} /\ sp.val \in Int
        /\ sp.psp = "current" => charge_current_code(sp.val) \in 0..63
        /\ sp.psp = "voltage" => charge_voltage_code(sp.val) \in 0..63
    BY <1>0, <1>5, ChargeCurrentFits, ChargeVoltageFits
    DEF set_property_write, At, TypeInv, CheckedValue, SpType,
        charge_current_ok, charge_voltage_ok
  <2>2. reg' \in RegType
    BY <1>0, <1>5, <2>1, RegWrite DEF set_property_write
  <2>a. \/ chg' = chg
        \/ chg' = [chg EXCEPT !.cfg_current = sp.val]
        \/ chg' = [chg EXCEPT !.cfg_voltage = sp.val]
    BY <1>5, Zenon DEF set_property_write
  <2>3. chg' \in ChgType
    BY <1>0, <2>1, <2>a, ChgWrite
  <2>4. cs' \in CsType /\ cs'.pc # "write"
    BY <1>5, UnlockedType, GotoType DEF set_property_write, Ops, LockPcs
  <2>5. sp' \in SpType /\ sp'.psp = "none"
    BY <1>5 DEF set_property_write, NoWrite, SpType
  <2> QED BY <1>5, <2>2, <2>3, <2>4, <2>5
          DEF set_property_write, env, Transfer, TypeInv, TypeOK, CheckedValue
<1> QED BY <1>1, <1>2, <1>3, <1>4, <1>5 DEF set_property

\* Each step of sm5705_chg_torch_set() keeps the types.
LEMMA TypeTorch ==
    ASSUME TypeInv, torch_set PROVE TypeInv'
<1>0. reg \in RegType /\ chg \in ChgType /\ cs \in CsType
  BY DEF TypeInv, TypeOK
<1>1. CASE torch_set_off
  <2>1. reg' \in RegType /\ chg' \in ChgType
    BY <1>0, <1>1, RegWrite, ChgWrite DEF torch_set_off
  <2>2. cs' \in CsType /\ cs'.pc # "write"
    BY <1>1, GotoType DEF torch_set_off, Ops, LockPcs
  <2> QED BY <1>1, <2>1, <2>2
          DEF torch_set_off, env, Transfer, TypeInv, TypeOK, CheckedValue
<1>2. CASE torch_off_release
  <2>1. chg' \in ChgType /\ cs' \in CsType /\ cs'.pc # "write"
    BY <1>0, <1>2, HoldType DEF torch_off_release, Ops, ChgType
  <2> QED BY <1>2, <2>1 DEF torch_off_release, env, TypeInv, TypeOK, CheckedValue
<1>3. CASE torch_off_unlock
  BY <1>3, UnlockedType DEF torch_off_unlock, env, TypeInv, TypeOK, CheckedValue
<1>4. CASE torch_set_on
  <2>1. chg' \in ChgType /\ cs' \in CsType /\ cs'.pc # "write"
    BY <1>0, <1>4, HoldType DEF torch_set_on, Ops
  <2> QED BY <1>4, <2>1 DEF torch_set_on, env, TypeInv, TypeOK, CheckedValue
<1>5. CASE torch_set_held
  <2>1. chg' \in ChgType
    <3>1. chg' = [chg EXCEPT !.hv = chg.hv /\ ~cs.ok]
      BY <1>5 DEF torch_set_held
    <3>2. (chg.hv /\ ~cs.ok) \in BOOLEAN
      OBVIOUS
    <3> QED BY <1>0, <3>1, <3>2, ChgWrite
  <2>2. cs' \in CsType /\ cs'.pc # "write"
    BY <1>5, UnlockedType, GotoType DEF torch_set_held, Ops, LockPcs
  <2> QED BY <1>5, <2>1, <2>2 DEF torch_set_held, env, TypeInv, TypeOK, CheckedValue
<1>6. CASE torch_set_movie
  <2>1. reg' \in RegType /\ chg' \in ChgType
    BY <1>0, <1>6, RegWrite, ChgWrite DEF torch_set_movie
  <2>2. cs' \in CsType /\ cs'.pc # "write"
    BY <1>6, UnlockedType, GotoType DEF torch_set_movie, Ops, LockPcs
  <2> QED BY <1>6, <2>1, <2>2
          DEF torch_set_movie, env, Transfer, TypeInv, TypeOK, CheckedValue
<1> QED BY <1>1, <1>2, <1>3, <1>4, <1>5, <1>6 DEF torch_set

\* Each step of the OTG supply's enable, disable and fault keeps the types.
LEMMA TypeOtg ==
    ASSUME TypeInv, otg PROVE TypeInv'
<1>0. reg \in RegType /\ chg \in ChgType /\ cs \in CsType
      /\ chg.bstout \in 0..15 /\ cs.ok \in BOOLEAN /\ BSTOUT_OTG \in 0..15
  BY DEF TypeInv, TypeOK, ChgType, CsType, BSTOUT_OTG
<1>1. CASE otg_enable
  <2>1. reg' \in RegType /\ chg' \in ChgType
    BY <1>0, <1>1, RegWrite, ChgWrite DEF otg_enable
  <2>2. cs' \in CsType /\ (cs'.pc = "write" => cs.pc = "write")
    BY <1>0, <1>1, GotoType DEF otg_enable, Ops, LockPcs
  <2> QED BY <1>1, <2>1, <2>2
          DEF otg_enable, env, Transfer, TypeInv, TypeOK, CheckedValue
<1>2. CASE regulator_already_on
  BY <1>2 DEF regulator_already_on, drv, env, TypeInv, TypeOK, CheckedValue
<1>3. CASE otg_enable_done
  <2>1. reg' \in RegType /\ chg' \in ChgType
    BY <1>0, <1>3, RegWrite, ChgWrite DEF otg_enable_done
  <2> QED BY <1>0, <1>3, <2>1, UnlockedType
          DEF otg_enable_done, env, Transfer, TypeInv, TypeOK, CheckedValue
<1>4. ASSUME otg_disable \/ otg_fail PROVE TypeInv'
  <2>1. chg' \in ChgType
    BY <1>0, <1>4, ChgWrite DEF otg_disable, otg_fail, otg_off
  <2>2. cs' \in CsType /\ cs'.pc # "write"
    BY <1>4, GotoType DEF otg_disable, otg_fail, otg_off, Ops, LockPcs
  <2> QED BY <1>4, <2>1, <2>2
          DEF otg_disable, otg_fail, env, TypeInv, TypeOK, CheckedValue
<1>5. CASE otg_off_done
  <2>1. reg' \in RegType
    BY <1>0, <1>5, RegWrite DEF otg_off_done
  <2>2. otg_use' \in BOOLEAN
    BY <1>5 DEF otg_off_done, TypeInv, TypeOK
  <2>3. phase' \in Probing \union {"unbound", "bound", "halting", "halted"}
    BY <1>5 DEF otg_off_done, TypeInv, TypeOK
  <2> QED BY <1>5, <2>1, <2>2, <2>3, UnlockedType
          DEF otg_off_done, env, Transfer, TypeInv, TypeOK, CheckedValue
<1> QED BY <1>1, <1>2, <1>3, <1>4, <1>5 DEF otg

\* Each step of probe(), shutdown() and a reboot keeps the types.
LEMMA TypeLifecycle ==
    ASSUME TypeInv, lifecycle PROVE TypeInv'
<1>0. reg \in RegType /\ chg \in ChgType /\ cs \in CsType /\ reg.bstout \in 0..15
  BY DEF TypeInv, TypeOK, RegType
<1>z. ZeroChg \in ChgType
  BY DEF ZeroChg, ChgType, FlashBoost, Zones
<1>1. CASE probe_register
  <2>1. chg' \in ChgType
    BY <1>0, <1>z, <1>1 DEF probe_register, ChgType
  <2> QED BY <1>1, <2>1
          DEF probe_register, env, TypeInv, TypeOK, CheckedValue, Probing
<1>2. CASE probe_voltage
  <2>1. charge_voltage_code(BatVoltageMaxUv) \in 0..63
    <3>1. /\ BatVoltageMaxUv \in Int
          /\ BatVoltageMaxUv >= BATREG_MIN_UV /\ BatVoltageMaxUv <= BATREG_MAX_UV
      <4>1. BATREG_MIN_UV \in Int /\ BATREG_MAX_UV \in Int
        BY SMT DEF BATREG_MIN_UV, BATREG_MAX_UV
      <4> QED BY <4>1, BatteryAssumption
    <3> QED BY <3>1, ChargeVoltageFits
  <2>2. reg' \in RegType /\ chg' \in ChgType
    BY <1>0, <1>2, <2>1, RegWrite, ChgWrite DEF probe_voltage
  <2> QED BY <1>2, <2>2
          DEF probe_voltage, env, TypeInv, TypeOK, CheckedValue, Probing
<1>3. CASE probe_current
  <2>1. charge_current_code(IF BatCurrentMaxUa > 0 THEN BatCurrentMaxUa
                                                   ELSE DEFAULT_CHARGE_UA) \in 0..63
    BY BatteryAssumption, ChargeCurrentFits, SMT DEF DEFAULT_CHARGE_UA, MIN_CHARGE_UA
  <2>2. term_current_code(BatTermUa) \in 0..15
    BY BatteryAssumption, TermCurrentFits
  <2>a. PICK i \in 0..63, t \in 0..15 : reg' = [reg EXCEPT !.ireg = i, !.term = t]
    BY <1>3, <2>1, <2>2 DEF probe_current
  <2>b. [reg EXCEPT !.ireg = i] \in RegType
    BY <1>0, RegWrite
  <2>c. reg' = [[reg EXCEPT !.ireg = i] EXCEPT !.term = t]
    BY <1>0, <2>a DEF RegType
  <2>3. reg' \in RegType
    BY <2>b, <2>c, RegWrite
  <2> QED BY <1>3, <2>3
          DEF probe_current, env, TypeInv, TypeOK, CheckedValue, Probing
<1>4. CASE probe_get_voltage
  <2>1. get_charge_voltage(reg.vreg) \in Int
    BY <1>0, SMT DEF get_charge_voltage, RegType, BATREG_MIN_UV
  <2>2. chg' \in ChgType
    BY <1>0, <1>4, <2>1, ChgWrite DEF probe_get_voltage
  <2> QED BY <1>4, <2>2
          DEF probe_get_voltage, env, TypeInv, TypeOK, CheckedValue, Probing
<1>5. CASE probe_get_current
  <2>1. get_charge_current(reg.ireg) \in Int
    BY <1>0, SMT DEF get_charge_current, RegType
  <2>2. chg' \in ChgType
    BY <1>0, <1>5, <2>1, ChgWrite DEF probe_get_current
  <2> QED BY <1>5, <2>2
          DEF probe_get_current, env, TypeInv, TypeOK, CheckedValue, Probing
<1>6. CASE probe_apply_zone
  <2>1. cs' \in CsType /\ cs'.pc # "write"
    BY <1>6, GotoType DEF probe_apply_zone, Ops, LockPcs
  <2> QED BY <1>6, <2>1
          DEF probe_apply_zone, env, TypeInv, TypeOK, CheckedValue, Probing
<1>7. CASE probe_done
  <2>1. reg' \in RegType
    BY <1>0, <1>7, RegWrite DEF probe_done
  <2> QED BY <1>7, <2>1 DEF probe_done, env, TypeInv, TypeOK, CheckedValue
<1>8. CASE probe_fail
  <2>1. faults' \in Nat /\ chg' = ZeroChg /\ phase' = "unbound"
    BY <1>8 DEF probe_fail, Transfer, TypeInv, TypeOK
  <2> QED BY <1>8, <1>z, <2>1 DEF probe_fail, TypeInv, TypeOK, CheckedValue
<1>9. CASE shutdown_torch
  <2>1. reg' \in RegType
    BY <1>0, <1>9, RegWrite DEF shutdown_torch
  <2> QED BY <1>9, <2>1
          DEF shutdown_torch, env, Transfer, TypeInv, TypeOK, CheckedValue
<1>10. CASE shutdown_otg
  <2>1. chg' \in ChgType
    BY <1>0, <1>10, ChgWrite DEF shutdown_otg, otg_off
  <2>2. cs' \in CsType /\ (cs'.pc = "write" => cs.pc = "write")
    BY <1>0, <1>10, GotoType DEF shutdown_otg, otg_off, Ops, LockPcs
  <2>3. phase' \in Probing \union {"unbound", "bound", "halting", "halted"}
    BY <1>10 DEF shutdown_otg, TypeInv, TypeOK
  <2> QED BY <1>10, <2>1, <2>2, <2>3
          DEF shutdown_otg, env, TypeInv, TypeOK, CheckedValue
<1>11. CASE reboot
  <2>1. Idle \in CwType /\ NoWrite \in SpType /\ NoWrite.psp = "none"
    BY DEF Idle, CwType, OfflineSupply, SupplyType, NoWrite, SpType
  <2>2. reboots' \in Nat /\ extcon' \subseteq {"FAST", "DCP", "CDP", "SDP"}
    BY <1>11 DEF reboot, TypeInv, TypeOK
  <2>3. cs'.pc # "write" /\ sp'.psp = "none"
    BY <1>11, <2>1, UnlockedType DEF reboot
  <2> QED BY <1>11, <1>z, <2>1, <2>2, <2>3, UnlockedType
          DEF reboot, TypeInv, TypeOK, CheckedValue
<1> QED BY <1>1, <1>2, <1>3, <1>4, <1>5, <1>6, <1>7, <1>8, <1>9, <1>10, <1>11
        DEF lifecycle

\* Cables and Type-C sources that come and go keep the types.
LEMMA TypeEnvironment ==
    ASSUME TypeInv, environment PROVE TypeInv'
<1>1. CASE vbus_change
  BY <1>1, InputAssumption
  DEF vbus_change, drv, TypeInv, TypeOK, CheckedValue
<1>2. CASE extcon_change
  BY <1>2, InputAssumption
  DEF extcon_change, drv, TypeInv, TypeOK, CheckedValue
<1>3. CASE supply_change
  <2>1. supply' \in SupplyType /\ notify' \in BOOLEAN
    BY <1>3, InputAssumption DEF supply_change, SupplyType, Running
  <2> QED BY <1>3, <2>1 DEF supply_change, drv, TypeInv, TypeOK, CheckedValue
<1> QED BY <1>1, <1>2, <1>3 DEF environment

\* Every step of the driver and its environment keeps the types.
LEMMA TypeStep ==
    TypeInv /\ [Next]_vars => TypeInv'
<1>1. ASSUME TypeInv, UNCHANGED vars PROVE TypeInv'
  BY <1>1 DEF vars, env, TypeInv, TypeOK, CheckedValue
<1> QED BY <1>1, TypeApplyZone, TypeHold, TypeCable, TypeTemp, TypeSetProperty,
           TypeTorch, TypeOtg, TypeLifecycle, TypeEnvironment
        DEF Next

\* Every value the driver computes fits the register field it is masked into,
\* for every battery, user input, cable, temperature, failure and crash.
THEOREM TypeCorrect == Spec => []TypeOK
<1>1. TypeInv => TypeOK
  BY DEF TypeInv
<1> QED BY <1>1, TypeInit, TypeStep, PTL DEF Spec
-----------------------------------------------------------------------------
(* USB OTG *)

OtgOps == {"otg_enable", "otg_disable", "otg_fail", "shutdown"}

\* A step that leaves the mode, the boost voltage and the supply's state alone.
OtgSame == /\ reg'.mode = reg.mode /\ reg'.bstout = reg.bstout
           /\ chg'.otg_on = chg.otg_on /\ otg_use' = otg_use

\* ... in the same locked section, or outside of any,
LEMMA OtgKeep ==
    ASSUME OtgInv, OtgSame, cs' = cs, phase' = phase \/ phase' # "unbound"
    PROVE  OtgInv'
  BY DEF OtgInv, OtgSame, OtgBoostVoltage

\* ... and by handlers that have nothing to do with OTG.
LEMMA OtgNeutral ==
    ASSUME OtgInv, OtgSame, cs.op \notin OtgOps, cs'.op \notin OtgOps
    PROVE  OtgInv'
  BY DEF OtgInv, OtgSame, OtgBoostVoltage, OtgOps

\* Writing another field leaves the mode and the boost voltage alone.
OtherField ==
    \/ reg' = reg
    \/ \E v : \/ reg' = [reg EXCEPT !.vreg = v]  \/ reg' = [reg EXCEPT !.ireg = v]
             \/ reg' = [reg EXCEPT !.limit = v] \/ reg' = [reg EXCEPT !.term = v]
             \/ reg' = [reg EXCEPT !.movie = v]

\* A write to any other register leaves mode and BSTOUT alone.
LEMMA RegOther ==
    ASSUME reg \in RegType, OtherField
    PROVE  reg'.mode = reg.mode /\ reg'.bstout = reg.bstout
  BY DEF RegType, OtherField

\* Nobody holds the lock once it is given back.
LEMMA UnlockedOp == Unlocked.op = "none"
  BY DEF Unlocked

\* Moving on stays inside the handler that holds the lock.
LEMMA GotoOp ==
    ASSUME NEW op, NEW pc, Goto(op, pc)
    PROVE  cs'.op = op /\ cs'.pc = pc
  BY DEF Goto

\* sm5705_chg_hold_5v() leaves the OTG flags and the lock's holder alone.
LEMMA HoldOp ==
    ASSUME NEW op, NEW c \in ChgType, NEW hold, hold_5v(op, c, hold)
    PROVE  cs'.op = op /\ chg'.otg_on = c.otg_on
<1>1. CASE hold = c.hold_5v
  BY <1>1, GotoOp DEF hold_5v
<1>2. CASE hold # c.hold_5v
  BY <1>2, GotoOp DEF hold_5v, ChgType
<1> QED BY <1>1, <1>2

\* apply_zone() leaves OTG mode only when otg_on is clear, and its result says
\* whether it wrote the mode.
LEMMA OtgApplyZone ==
    ASSUME TypeInv, OtgInv, apply_zone PROVE OtgInv'
<1>0. reg \in RegType /\ cs \in CsType
  BY DEF TypeInv, TypeOK
<1>1. ASSUME apply_zone_voltage \/ apply_zone_current PROVE OtgInv'
  <2>a. OtherField
    BY <1>1, Zenon DEF apply_zone_voltage, apply_zone_current, OtherField
  <2>b. chg' = chg /\ otg_use' = otg_use /\ phase' = phase
    BY <1>1 DEF apply_zone_voltage, apply_zone_current, env
  <2>1. OtgSame /\ phase' = phase
    BY <1>0, <2>a, <2>b, RegOther DEF OtgSame
  <2>2. /\ cs'.op = cs.op /\ cs'.pc # "applied" /\ cs.pc # "applied"
    BY <1>1, GotoOp DEF apply_zone_voltage, apply_zone_current
  <2> QED BY <2>1, <2>2 DEF OtgInv, OtgSame, OtgBoostVoltage
<1>2. CASE apply_zone_mode
  <2>1. /\ cs'.op = cs.op /\ cs'.pc = "applied" /\ cs.pc = "az_mode"
        /\ chg' = chg /\ otg_use' = otg_use /\ phase' = phase
        /\ reg'.bstout = reg.bstout
    BY <1>0, <1>2 DEF apply_zone_mode, env, CsType, RegType
  <2>2. \/ ~cs'.ok /\ reg'.mode = reg.mode
        \/ cs'.ok /\ (reg'.mode = MODE_USB_OTG <=> chg.otg_on)
    <3>1. \A vbus : zone_mode(chg.zone, chg.torch_on, chg.otg_on, vbus)
                       = MODE_USB_OTG <=> chg.otg_on
      BY DEF zone_mode, MODE_USB_OTG, MODE_FLASH_BOOST, MODE_CHG_ON, MODE_CHG_OFF
    <3>2. PICK ok \in BOOLEAN, vbus \in BOOLEAN :
             LET done == ok /\ reg.mode \in SwitchedModes
             IN  /\ reg' = IF done
                           THEN [reg EXCEPT !.mode =
                                    zone_mode(chg.zone, chg.torch_on,
                                              chg.otg_on, vbus /\ vbus_pok)]
                           ELSE reg
                 /\ cs' = [cs EXCEPT !.pc = "applied", !.ok = done]
      BY <1>2, Zenon DEF apply_zone_mode
    <3>3. CASE ok /\ reg.mode \in SwitchedModes
      <4>1. reg'.mode = zone_mode(chg.zone, chg.torch_on, chg.otg_on, vbus /\ vbus_pok)
        BY <1>0, <3>2, <3>3 DEF RegType
      <4>2. cs'.ok
        BY <1>0, <3>2, <3>3 DEF CsType
      <4> QED BY <3>1, <4>1, <4>2
    <3>4. CASE ~(ok /\ reg.mode \in SwitchedModes)
      <4>1. reg' = reg
        BY <3>2, <3>4
      <4>2. ~cs'.ok
        BY <1>0, <3>2, <3>4 DEF CsType
      <4> QED BY <4>1, <4>2
    <3> QED BY <3>3, <3>4
  <2> QED BY <2>1, <2>2 DEF OtgInv, OtgBoostVoltage
<1> QED BY <1>1, <1>2 DEF apply_zone

\* The MUIC's 5 V hold leaves the OTG supply alone.
LEMMA OtgHold ==
    ASSUME TypeInv, OtgInv, apply_zone_unlock \/ muic_hold_5v PROVE OtgInv'
<1>0. cs \in CsType
  BY DEF TypeInv, TypeOK
<1>1. CASE apply_zone_unlock
  <2>1. cs.op \notin OtgOps /\ cs'.op \notin OtgOps /\ OtgSame
    BY <1>1, UnlockedOp DEF apply_zone_unlock, OtgSame, OtgOps, env
  <2> QED BY <2>1, OtgNeutral
<1>2. CASE muic_hold_5v
  <2>1. cs'.op = cs.op /\ cs'.pc # "applied" /\ cs.pc # "applied" /\ OtgSame
        /\ phase' = phase
    BY <1>0, <1>2 DEF muic_hold_5v, OtgSame, CsType
  <2> QED BY <2>1 DEF OtgInv, OtgSame, OtgBoostVoltage
<1> QED BY <1>1, <1>2

\* sm5705_chg_cable_work() leaves the OTG supply alone.
LEMMA OtgCable ==
    ASSUME TypeInv, OtgInv, cable_work \/ external_power_changed PROVE OtgInv'
<1>0. reg \in RegType /\ chg \in ChgType
  BY DEF TypeInv, TypeOK
<1>1. ASSUME \/ cable_work_start \/ cable_work_extcon \/ typec_limit_read
             \/ external_power_changed
      PROVE  OtgInv'
  <2>1. cs' = cs /\ phase' = phase /\ OtgSame
    BY <1>1 DEF cable_work_start, cable_work_extcon, typec_limit_read,
                external_power_changed, drv, env, OtgSame
  <2> QED BY <2>1, OtgKeep
<1>2. CASE cable_work_limit
  <2>1. OtherField
    BY <1>2, Zenon DEF cable_work_limit, OtherField
  <2>2. cs' = cs /\ phase' = phase /\ otg_use' = otg_use /\ chg'.otg_on = chg.otg_on
    BY <1>0, <1>2 DEF cable_work_limit, env, ChgType
  <2> QED BY <1>0, <2>1, <2>2, RegOther, OtgKeep DEF OtgSame
<1>3. CASE cable_work_lock
  <2>1. [chg EXCEPT !.usb_c = Decision.usb_c].otg_on = chg.otg_on
    BY <1>0 DEF ChgType
  <2>2. Decision.usb_c \in BOOLEAN
    BY CableType DEF Decision, TypeInv, TypeOK, CwType
  <2>3. [chg EXCEPT !.usb_c = Decision.usb_c] \in ChgType
    BY <1>0, <2>2, ChgWrite
  <2>4. cs'.op = "cable_work" /\ chg'.otg_on = chg.otg_on
    BY <1>3, <2>1, <2>3, HoldOp DEF cable_work_lock
  <2> QED BY <1>3, <2>4, OtgNeutral DEF cable_work_lock, OtgSame, OtgOps, env
<1>4. CASE cable_work_held
  <2>1. OtherField
    BY <1>4, Zenon DEF cable_work_held, OtherField
  <2>2. chg'.otg_on = chg.otg_on
    BY <1>0, <1>4 DEF cable_work_held, ChgType
  <2>3. cs.op = "cable_work" /\ cs'.op = "cable_work" /\ otg_use' = otg_use
    BY <1>4, GotoOp DEF cable_work_held, At, env
  <2> QED BY <1>0, <2>1, <2>2, <2>3, RegOther, OtgNeutral DEF OtgSame, OtgOps
<1>5. CASE cable_work_unlock
  <2>1. cs.op = "cable_work" /\ cs'.op = "none" /\ OtgSame
    BY <1>5, UnlockedOp DEF cable_work_unlock, At, OtgSame, env
  <2> QED BY <2>1, OtgNeutral DEF OtgOps
<1> QED BY <1>1, <1>2, <1>3, <1>4, <1>5 DEF cable_work

\* Temperature polls and sysfs writes leave the OTG supply alone.
LEMMA OtgTempAndUser ==
    ASSUME TypeInv, OtgInv, temp_work_read \/ temp_work \/ set_property
    PROVE  OtgInv'
<1>0. reg \in RegType /\ chg \in ChgType
  BY DEF TypeInv, TypeOK
<1>1. CASE temp_work_read
  <2>1. cs' = cs /\ phase' = phase /\ OtgSame
    BY <1>1 DEF temp_work_read, drv, env, OtgSame
  <2> QED BY <2>1, OtgKeep
<1>2. CASE temp_work
  <2>1. chg'.otg_on = chg.otg_on
    BY <1>0, <1>2 DEF temp_work, ChgType
  <2>2. cs.op = "none" /\ cs'.op \in {"none", "temp_work"}
    BY <1>2, GotoOp DEF temp_work
  <2> QED BY <1>2, <2>1, <2>2, OtgNeutral DEF temp_work, OtgSame, OtgOps, env
<1>3. ASSUME NEW v, set_property_input_limit(v) \/ set_property_term(v)
      PROVE  OtgInv'
  <2>1. OtherField
    BY <1>3, Zenon DEF set_property_input_limit, set_property_term, OtherField
  <2>2. cs' = cs /\ phase' = phase /\ otg_use' = otg_use /\ chg' = chg
    BY <1>3 DEF set_property_input_limit, set_property_term, env
  <2> QED BY <1>0, <2>1, <2>2, RegOther, OtgKeep DEF OtgSame
<1>4. ASSUME NEW v, set_property_current(v) \/ set_property_voltage(v)
      PROVE  OtgInv'
  <2>1. cs.op = "none" /\ cs'.op = "set_property" /\ OtgSame
    BY <1>4, GotoOp DEF set_property_current, set_property_voltage, OtgSame, env
  <2> QED BY <2>1, OtgNeutral DEF OtgOps
<1>5. CASE set_property_write
  <2>1. OtherField
    BY <1>5, Zenon DEF set_property_write, OtherField
  <2>a. \/ chg' = chg
        \/ chg' = [chg EXCEPT !.cfg_current = sp.val]
        \/ chg' = [chg EXCEPT !.cfg_voltage = sp.val]
    BY <1>5, Zenon DEF set_property_write
  <2>2. chg'.otg_on = chg.otg_on
    BY <1>0, <2>a DEF ChgType
  <2>3. cs.op = "set_property" /\ cs'.op \in {"none", "set_property"}
        /\ otg_use' = otg_use
    BY <1>5, GotoOp, UnlockedOp DEF set_property_write, At, env
  <2> QED BY <1>0, <2>1, <2>2, <2>3, RegOther, OtgNeutral DEF OtgSame, OtgOps
<1> QED BY <1>1, <1>2, <1>3, <1>4, <1>5 DEF set_property

\* sm5705_chg_torch_set() leaves the OTG supply alone.
LEMMA OtgTorch ==
    ASSUME TypeInv, OtgInv, torch_set PROVE OtgInv'
<1>0. reg \in RegType /\ chg \in ChgType
  BY DEF TypeInv, TypeOK
<1>1. OtherField
  BY Zenon DEF torch_set, torch_set_off, torch_off_release, torch_off_unlock,
           torch_set_on, torch_set_held, torch_set_movie, OtherField
<1>2. chg'.otg_on = chg.otg_on
  <2>1. CASE torch_set_off
    BY <1>0, <2>1 DEF torch_set_off, ChgType
  <2>2. CASE torch_off_release
    BY <1>0, <2>2, HoldOp DEF torch_off_release
  <2>3. CASE torch_set_on
    BY <1>0, <2>3, HoldOp DEF torch_set_on
  <2>4. CASE torch_set_held
    BY <1>0, <2>4 DEF torch_set_held, ChgType
  <2>5. CASE torch_set_movie
    BY <1>0, <2>5 DEF torch_set_movie, ChgType
  <2>6. CASE torch_off_unlock
    BY <2>6 DEF torch_off_unlock
  <2> QED BY <2>1, <2>2, <2>3, <2>4, <2>5, <2>6 DEF torch_set
<1>3. cs.op \in {"none", "torch_off", "torch_on"}
  BY DEF torch_set, torch_set_off, torch_off_release, torch_off_unlock,
         torch_set_on, torch_set_held, torch_set_movie, At
<1>4. cs'.op \in {"none", "torch_off", "torch_on"}
  <2>1. CASE torch_set_off
    BY <2>1, GotoOp DEF torch_set_off
  <2>2. CASE torch_off_release
    BY <1>0, <2>2, HoldOp DEF torch_off_release
  <2>3. CASE torch_set_on
    BY <1>0, <2>3, HoldOp DEF torch_set_on
  <2>4. CASE torch_set_held
    BY <2>4, GotoOp, UnlockedOp DEF torch_set_held
  <2>5. CASE torch_set_movie
    BY <2>5, GotoOp, UnlockedOp DEF torch_set_movie
  <2>6. CASE torch_off_unlock
    BY <2>6, UnlockedOp DEF torch_off_unlock
  <2> QED BY <2>1, <2>2, <2>3, <2>4, <2>5, <2>6 DEF torch_set
<1>5. otg_use' = otg_use
  BY DEF torch_set, torch_set_off, torch_off_release, torch_off_unlock,
         torch_set_on, torch_set_held, torch_set_movie, env
<1> QED BY <1>0, <1>1, <1>2, <1>3, <1>4, <1>5, RegOther, OtgNeutral
        DEF OtgSame, OtgOps

\* The handlers of the supply itself.
LEMMA OtgSupply ==
    ASSUME TypeInv, OtgInv, otg PROVE OtgInv'
<1>0. reg \in RegType /\ chg \in ChgType /\ otg_use \in BOOLEAN
      /\ cs.ok \in BOOLEAN /\ BSTOUT_OTG \in 0..15
  BY DEF TypeInv, TypeOK, CsType, BSTOUT_OTG
\* BSTOUT is written while the mode is another one.
<1>1. CASE otg_enable
  <2>1. CASE reg' = reg /\ chg' = chg /\ cs' = cs
    <3>1. phase' = phase /\ otg_use' = otg_use
      BY <1>1 DEF otg_enable, env
    <3> QED BY <2>1, <3>1, OtgKeep DEF OtgSame
  <2>2. CASE /\ reg' = [reg EXCEPT !.bstout = BSTOUT_OTG]
             /\ chg' = [chg EXCEPT !.otg_on = TRUE]
             /\ Goto("otg_enable", "apply_zone")
    <3>1. /\ reg'.mode = reg.mode /\ reg'.bstout = BSTOUT_OTG /\ chg'.otg_on = TRUE
      BY <1>0, <2>2 DEF RegType, ChgType
    <3>2. cs'.op = "otg_enable" /\ cs'.pc = "apply_zone"
      BY <2>2, GotoOp
    <3>3. /\ phase' # "unbound" /\ ~otg_use' /\ reg.mode # MODE_USB_OTG
      BY <1>1 DEF otg_enable, Probed, otg_is_enabled, env
    <3> QED BY <3>1, <3>2, <3>3 DEF OtgInv, OtgBoostVoltage
  <2> QED BY <1>1, <2>1, <2>2, Zenon DEF otg_enable
<1>2. CASE regulator_already_on
  <2>1. cs' = cs /\ phase' = phase /\ chg' = chg /\ reg' = reg /\ otg_use' = TRUE
        /\ cs.op # "otg_enable"
    BY <1>2 DEF regulator_already_on, drv
  <2> QED BY <2>1 DEF OtgInv, OtgBoostVoltage
\* A failed enable() left the mode alone, so BSTOUT may go back.
<1>3. CASE otg_enable_done
  <2>1. cs.op = "otg_enable" /\ cs.pc = "applied" /\ cs'.op = "none"
        /\ otg_use' = cs.ok
    BY <1>3, UnlockedOp DEF otg_enable_done, At
  <2>2. chg'.otg_on = cs.ok
    BY <1>0, <1>3 DEF otg_enable_done, ChgType
  <2>3. reg' = reg \/ (~cs.ok /\ reg' = [reg EXCEPT !.bstout = chg.bstout])
    BY <1>3, Zenon DEF otg_enable_done
  <2>4. reg'.mode = reg.mode /\ (cs.ok => reg' = reg)
    BY <1>0, <2>3 DEF RegType
  <2> QED BY <1>0, <2>1, <2>2, <2>4 DEF OtgInv, OtgBoostVoltage
<1>4. ASSUME otg_disable \/ otg_fail PROVE OtgInv'
  <2>1. cs'.op \in {"otg_disable", "otg_fail"} /\ cs'.pc = "apply_zone"
        /\ reg' = reg
    BY <1>4, GotoOp DEF otg_disable, otg_fail, otg_off
  <2>2. ~chg'.otg_on
    BY <1>0, <1>4 DEF otg_disable, otg_fail, otg_off, ChgType
  <2> QED BY <2>1, <2>2 DEF OtgInv, OtgBoostVoltage
\* BSTOUT goes back only once the mode is another one.
<1>5. CASE otg_off_done
  <2>1. /\ cs.op \in {"otg_disable", "otg_fail", "shutdown"} /\ cs.pc = "applied"
        /\ cs'.op = "none" /\ chg' = chg
    BY <1>5, UnlockedOp DEF otg_off_done
  <2>2. reg' = reg \/ (cs.ok /\ reg' = [reg EXCEPT !.bstout = chg.bstout])
    BY <1>5, Zenon DEF otg_off_done
  <2>3. reg'.mode = reg.mode /\ (~cs.ok => reg' = reg)
    BY <1>0, <2>2 DEF RegType
  <2> QED BY <1>0, <2>1, <2>2, <2>3 DEF OtgInv, OtgBoostVoltage
<1> QED BY <1>1, <1>2, <1>3, <1>4, <1>5 DEF otg

\* A crash or a new probe() forgets otg_on and leaves the registers as they are.
LEMMA OtgLifecycle ==
    ASSUME TypeInv, OtgInv, lifecycle PROVE OtgInv'
<1>0. reg \in RegType /\ chg \in ChgType /\ ~ZeroChg.otg_on
  BY DEF TypeInv, TypeOK, ZeroChg
<1>1. CASE probe_register
  <2>1. ~chg'.otg_on /\ reg' = reg /\ cs' = cs /\ phase = "unbound"
    BY <1>0, <1>1 DEF probe_register, ZeroChg
  <2> QED BY <2>1 DEF OtgInv, OtgBoostVoltage
<1>2. ASSUME probe_voltage \/ probe_get_voltage \/ probe_get_current
      PROVE  OtgInv'
  <2>1. OtherField
    BY <1>2, Zenon DEF probe_voltage, probe_get_voltage, probe_get_current, OtherField
  <2>2. chg'.otg_on = chg.otg_on /\ cs' = cs /\ phase' # "unbound" /\ otg_use' = otg_use
    BY <1>0, <1>2 DEF probe_voltage, probe_get_voltage, probe_get_current, ChgType, env
  <2> QED BY <1>0, <2>1, <2>2, RegOther, OtgKeep DEF OtgSame
<1>3. CASE probe_current
  <2>1. reg'.mode = reg.mode /\ reg'.bstout = reg.bstout
    BY <1>0, <1>3 DEF probe_current, RegType
  <2>2. chg' = chg /\ cs' = cs /\ phase' # "unbound" /\ otg_use' = otg_use
    BY <1>3 DEF probe_current, env
  <2> QED BY <2>1, <2>2, OtgKeep DEF OtgSame
<1>4. CASE probe_apply_zone
  <2>1. cs.op = "none" /\ cs'.op = "probe" /\ OtgSame
    BY <1>4, GotoOp DEF probe_apply_zone, OtgSame, env
  <2> QED BY <2>1, OtgNeutral DEF OtgOps
<1>5. ASSUME probe_done \/ shutdown_torch PROVE OtgInv'
  <2>1. OtherField
    BY <1>5, Zenon DEF probe_done, shutdown_torch, OtherField
  <2>2. chg' = chg /\ cs' = cs /\ phase' # "unbound" /\ otg_use' = otg_use
    BY <1>5 DEF probe_done, shutdown_torch, env
  <2> QED BY <1>0, <2>1, <2>2, RegOther, OtgKeep DEF OtgSame
<1>6. CASE probe_fail
  <2>1. ~chg'.otg_on /\ reg' = reg /\ cs'.op = "none"
    BY <1>0, <1>6 DEF probe_fail
  <2> QED BY <2>1 DEF OtgInv, OtgBoostVoltage
<1>7. CASE shutdown_otg
  <2>1. CASE chg' = chg /\ cs' = cs /\ phase' = "halted"
    <3>1. OtgSame
      BY <1>7, <2>1 DEF shutdown_otg, OtgSame, env
    <3> QED BY <2>1, <3>1, OtgKeep
  <2>2. CASE otg_off("shutdown")
    <3>1. ~chg'.otg_on /\ cs'.op = "shutdown" /\ cs'.pc = "apply_zone"
      BY <1>0, <2>2, GotoOp DEF otg_off, ChgType
    <3>2. reg' = reg
      BY <1>7 DEF shutdown_otg
    <3> QED BY <3>1, <3>2 DEF OtgInv, OtgBoostVoltage
  <2> QED BY <1>7, <2>1, <2>2, Zenon DEF shutdown_otg
<1>8. CASE reboot
  <2>1. ~chg'.otg_on /\ reg' = reg /\ cs'.op = "none"
    BY <1>0, <1>8, UnlockedOp DEF reboot
  <2> QED BY <2>1 DEF OtgInv, OtgBoostVoltage
<1> QED BY <1>1, <1>2, <1>3, <1>4, <1>5, <1>6, <1>7, <1>8 DEF lifecycle

\* Cables and Type-C sources leave the OTG supply alone.
LEMMA OtgEnvironment ==
    ASSUME OtgInv, environment \/ UNCHANGED vars PROVE OtgInv'
<1>1. cs' = cs /\ phase' = phase /\ OtgSame
  BY DEF environment, vbus_change, extcon_change, supply_change, vars, drv, env,
         OtgSame
<1> QED BY <1>1, OtgKeep

\* The inductive invariant of the OTG supply, whatever transfer fails and
\* whenever the system crashes.
THEOREM OtgInvariant == Spec => []OtgInv
<1>1. Init => OtgInv
  <2> SUFFICES ASSUME Init PROVE OtgInv
    OBVIOUS
  <2>1. reg.mode = MODE_CHG_ON /\ chg.otg_on = FALSE /\ cs.op = "none"
    BY DEF Init, ZeroChg, Unlocked
  <2> QED BY <2>1 DEF OtgInv, OtgBoostVoltage, MODE_CHG_ON, MODE_USB_OTG
<1>2. TypeInv /\ OtgInv /\ [Next]_vars => OtgInv'
  BY OtgApplyZone, OtgHold, OtgCable, OtgTempAndUser, OtgTorch, OtgSupply,
     OtgLifecycle, OtgEnvironment
  DEF Next
<1> QED BY <1>1, <1>2, TypeInit, TypeStep, PTL DEF Spec

\* The boost never drives VBUS at the flash LED's voltage.
THEOREM BoostVoltageSafe == Spec => []OtgBoostVoltage
<1>1. OtgInv => OtgBoostVoltage
  BY DEF OtgInv
<1> QED BY <1>1, OtgInvariant, PTL

\* Between handlers, an OTG supply that counts as on drives VBUS.
THEOREM OtgNotLost == Spec => []OtgStaysOn
<1>1. OtgInv => OtgStaysOn
  BY DEF OtgInv, OtgStaysOn
<1> QED BY <1>1, OtgInvariant, PTL

-----------------------------------------------------------------------------
(* The temperature guard *)

\* Where apply_zone() is at work.
Applying == {"apply_zone", "az_current", "az_mode"}

\* probe() is done, or applies its first zone.
Ready == phase = "apply" \/ Probed

\* The torch, the OTG supply, temp_work and shutdown() run only once probe() is
\* done.
LateOps == {"torch_on", "torch_off", "otg_enable", "otg_disable", "otg_fail",
            "shutdown"}
Late == /\ cs.op \in LateOps => Probed
        /\ chg.torch_on \/ tw # <<>> => Probed

\* The battery's limits, the configured ones and the registers, as probe() fills
\* them step by step and as the checks of later writes leave them.
Limits ==
    /\ phase \notin {"unbound", "registered"} =>
          chg.bat /\ get_charge_voltage(reg.vreg) <= BatVoltageMaxUv
    /\ phase \in {"registered", "set_current", "get_voltage"} => chg.cfg_voltage = 0
    /\ phase \in {"set_current", "get_voltage"} => reg.vreg >= 2
    /\ phase \notin {"unbound", "registered", "set_current", "get_voltage"} =>
          chg.cfg_voltage >= BATREG_MIN_UV /\ chg.cfg_voltage <= BatVoltageMaxUv
    /\ phase \notin {"unbound", "registered", "set_current"} =>
          /\ reg.ireg >= 2
          /\ BatCurrentMaxUa > 0 => get_charge_current(reg.ireg) <= BatCurrentMaxUa
    /\ phase = "limits" \/ Ready => chg.cfg_current >= MIN_CHARGE_UA
    /\ sp.psp # "none" => Probed
    /\ sp.psp = "voltage" => sp.val <= BatVoltageMaxUv
    /\ sp.psp = "current" /\ BatCurrentMaxUa > 0 => sp.val <= BatCurrentMaxUa

\* The mode is one apply_zone() may leave and, outside of it and while nothing
\* has failed, one the zone, the torch and the OTG supply ask for.
Moded ==
    /\ cs.op = "none" <=> cs.pc = "none"
    /\ reg.mode \in SwitchedModes
    /\ faults = 0 /\ cs.pc = "applied" => cs.ok
    /\ faults = 0 /\ Ready /\ cs.pc \notin Applying =>
          /\ ~zone_charges(chg.zone) => reg.mode # MODE_CHG_ON
          /\ reg.mode = MODE_USB_OTG => chg.otg_on
          /\ reg.mode = MODE_FLASH_BOOST => chg.torch_on

\* While nothing has failed, what apply_zone() has written so far is within the
\* zone's limits, and outside of it all of it is.
Bounded ==
    faults = 0 /\ Ready =>
      /\ cs.pc \in {"az_current", "az_mode"} =>
            get_charge_voltage(reg.vreg) <= zone_voltage(chg.zone, chg.cfg_voltage)
      /\ cs.pc = "az_mode" =>
            get_charge_current(reg.ireg)
               <= zone_current(chg.zone, chg.cfg_current, chg.fast)
      /\ chg.zone = "WARM" /\ cs.pc # "apply_zone" =>
            get_charge_voltage(reg.vreg) <= WARM_VOLTAGE_UV
      /\ cs.pc \notin {"apply_zone", "az_current"} =>
            /\ chg.zone = "WARM" => get_charge_current(reg.ireg) <= WARM_CURRENT_UA
            /\ chg.zone = "COOL" => get_charge_current(reg.ireg) <= COOL_CURRENT_UA

\* A step that leaves the limits and the charge registers alone.
LimitsSame == /\ chg'.bat = chg.bat /\ chg'.cfg_voltage = chg.cfg_voltage
              /\ chg'.cfg_current = chg.cfg_current
              /\ reg'.vreg = reg.vreg /\ reg'.ireg = reg.ireg

\* ... and one that leaves alone what apply_zone() reads and writes.
ZoneSame == /\ LimitsSame /\ chg'.zone = chg.zone /\ chg'.fast = chg.fast
            /\ chg'.torch_on = chg.torch_on /\ chg'.otg_on = chg.otg_on
            /\ reg'.mode = reg.mode

\* A step of another place in the locked section than apply_zone()'s.
Elsewhere == /\ cs'.op = "none" <=> cs'.pc = "none"
             /\ \/ cs' = cs
                \/ cs.pc \notin Applying /\ cs'.pc \notin Applying \union {"applied"}

\* A write to a register the limits and the mode are not in.
OtherLimit == \/ reg' = reg
              \/ \E v : \/ reg' = [reg EXCEPT !.limit = v]
                       \/ reg' = [reg EXCEPT !.term = v]
                       \/ reg' = [reg EXCEPT !.bstout = v]
                       \/ reg' = [reg EXCEPT !.movie = v]

\* ... leaves them alone.
LEMMA OtherLimitSame ==
    ASSUME reg \in RegType, OtherLimit
    PROVE  reg'.vreg = reg.vreg /\ reg'.ireg = reg.ireg /\ reg'.mode = reg.mode
  BY DEF OtherLimit, RegType

\* Failures are counted, never forgotten.
LEMMA FaultsGrow ==
    ASSUME faults \in Nat, faults' = faults \/ \E ok \in BOOLEAN : Transfer(ok)
    PROVE  faults' = 0 => faults = 0
  BY DEF Transfer

\* Steps that leave the limits alone keep them in order,
LEMMA LimitsKept ==
    ASSUME Limits, LimitsSame, phase' = phase, sp' = sp \/ sp' = NoWrite
    PROVE  Limits'
  BY DEF Limits, LimitsSame, NoWrite, Probed, Ready

\* ... steps elsewhere in the locked section keep the guard,
LEMMA GuardKept ==
    ASSUME Moded, ZoneSame, Elsewhere, Ready' => Ready, faults' = 0 => faults = 0
    PROVE  Moded' /\ (Bounded => Bounded')
<1>1. Moded'
  BY DEF Moded, ZoneSame, Elsewhere, Applying
<1>2. ASSUME Bounded PROVE Bounded'
  BY <1>2 DEF Bounded, ZoneSame, LimitsSame, Elsewhere, Applying
<1> QED BY <1>1, <1>2

\* ... and handing over to apply_zone() leaves it to it.
LEMMA GuardHandedOver ==
    ASSUME Moded, reg'.mode = reg.mode, cs'.op # "none", cs'.pc = "apply_zone"
    PROVE  Moded' /\ Bounded'
  BY DEF Moded, Bounded, Applying

\* What every step keeps: the mode, the limits unless sysfs is written while
\* probe() runs, and, with these, what apply_zone() has written.
GuardStep == /\ Moded'
             /\ ~EarlyWrites /\ Limits => Limits'
             /\ Limits /\ Bounded => Bounded'

\* A step that leaves alone what apply_zone() reads and writes.
LEMMA GuardSame ==
    ASSUME TypeInv, Moded, ZoneSame, Elsewhere, phase' = phase,
           sp' = sp \/ sp' = NoWrite, faults' = 0 => faults = 0
    PROVE  GuardStep
<1>1. Ready' => Ready
  BY DEF Ready, Probed
<1>2. LimitsSame
  BY DEF ZoneSame
<1> QED BY <1>1, <1>2, LimitsKept, GuardKept DEF GuardStep

\* ... also as probe() or shutdown() goes on.
LEMMA GuardReady ==
    ASSUME TypeInv, Moded, ZoneSame, Elsewhere, Ready, Probed',
           phase' \in {"bound", "halting", "halted"}, sp' = sp,
           faults' = 0 => faults = 0
    PROVE  GuardStep
<1>1. Limits => Limits'
  BY DEF Limits, ZoneSame, LimitsSame, Ready, Probed
<1> QED BY <1>1, GuardKept DEF GuardStep

\* A step that hands over to apply_zone().
LEMMA GuardHandover ==
    ASSUME TypeInv, Moded, LimitsSame, reg'.mode = reg.mode, phase' = phase,
           sp' = sp \/ sp' = NoWrite, cs'.op # "none", cs'.pc = "apply_zone"
    PROVE  GuardStep
  BY LimitsKept, GuardHandedOver DEF GuardStep

\* What the battery node gives is in the charger's range.
LEMMA BatteryFacts ==
    /\ BatVoltageMaxUv \in Int /\ BatVoltageMaxUv > 0
    /\ BatVoltageMaxUv >= BATREG_MIN_UV /\ BatVoltageMaxUv <= BATREG_MAX_UV
    /\ BatCurrentMaxUa \in Int
<1>1. BATREG_MIN_UV \in Int /\ BATREG_MAX_UV \in Int /\ BATREG_MIN_UV > 0
  BY DEF BATREG_MIN_UV, BATREG_MAX_UV
<1> QED BY <1>1, BatteryAssumption

\* An accepted voltage is not exceeded by what the register then allows,
LEMMA VoltageWritten ==
    ASSUME NEW uv \in Int, NEW max, charge_voltage_ok(uv, max)
    PROVE  /\ charge_voltage_code(uv) \in 0..63 /\ charge_voltage_code(uv) >= 2
           /\ get_charge_voltage(charge_voltage_code(uv)) <= uv
<1>1. uv >= BATREG_MIN_UV /\ uv <= BATREG_MAX_UV
  BY DEF charge_voltage_ok
<1>2. charge_voltage_ok(uv, 0)
  BY <1>1 DEF charge_voltage_ok
<1>3. charge_voltage_code(uv) >= 2
  BY <1>1 DEF charge_voltage_code, BATREG_MIN_UV, BATREG_MAX_UV
<1> QED BY <1>1, <1>2, <1>3, LimitsNotExceeded, ChargeVoltageFits

\* ... nor is an accepted current.
LEMMA CurrentWritten ==
    ASSUME NEW ua \in Int, NEW max, charge_current_ok(ua, max)
    PROVE  /\ charge_current_code(ua) \in 0..63 /\ charge_current_code(ua) >= 2
           /\ get_charge_current(charge_current_code(ua)) <= ua
<1>1. ua >= MIN_CHARGE_UA
  BY DEF charge_current_ok
<1>2. charge_current_ok(ua, 0)
  BY <1>1 DEF charge_current_ok
<1>3. charge_current_code(ua) >= 2
  BY <1>1 DEF charge_current_code, MIN_CHARGE_UA, Least
<1> QED BY <1>1, <1>2, <1>3, LimitsNotExceeded, ChargeCurrentFits

\* What probe() reads back from a register is a value it could have written.
LEMMA ReadBack ==
    ASSUME NEW code \in 0..63, code >= 2
    PROVE  /\ get_charge_voltage(code) >= BATREG_MIN_UV
           /\ get_charge_current(code) >= MIN_CHARGE_UA
  BY DEF get_charge_voltage, get_charge_current, BATREG_MIN_UV, MIN_CHARGE_UA

\* What a zone asks for.
LEMMA ZoneLimits ==
    ASSUME NEW zone \in Zones, NEW uv \in Int, NEW ua \in Int, NEW fast \in BOOLEAN
    PROVE  /\ zone_voltage(zone, uv) \in Int /\ zone_voltage(zone, uv) <= uv
           /\ zone_current(zone, ua, fast) \in Int
           /\ zone = "WARM" => /\ zone_voltage(zone, uv) <= WARM_VOLTAGE_UV
                               /\ zone_current(zone, ua, fast) <= WARM_CURRENT_UA
           /\ zone = "COOL" => zone_current(zone, ua, fast) <= COOL_CURRENT_UA
           /\ uv >= BATREG_MIN_UV => zone_voltage(zone, uv) >= BATREG_MIN_UV
           /\ ua >= MIN_CHARGE_UA => zone_current(zone, ua, fast) >= MIN_CHARGE_UA
<1>1. zone_current(zone, ua, fast) =
         LET a == IF fast THEN FAST_CHARGE_UA ELSE ua
         IN  IF zone = "WARM" THEN Least(a, WARM_CURRENT_UA)
             ELSE IF zone = "COOL" THEN Least(a, COOL_CURRENT_UA) ELSE a
  BY DEF zone_current, Zones
<1>2. /\ zone_current(zone, ua, fast) \in Int
      /\ zone = "WARM" => zone_current(zone, ua, fast) <= WARM_CURRENT_UA
      /\ zone = "COOL" => zone_current(zone, ua, fast) <= COOL_CURRENT_UA
      /\ ua >= MIN_CHARGE_UA => zone_current(zone, ua, fast) >= MIN_CHARGE_UA
  BY <1>1, SMT DEF Least, FAST_CHARGE_UA, WARM_CURRENT_UA, COOL_CURRENT_UA, MIN_CHARGE_UA
<1>3. /\ zone_voltage(zone, uv) \in Int /\ zone_voltage(zone, uv) <= uv
      /\ zone = "WARM" => zone_voltage(zone, uv) <= WARM_VOLTAGE_UV
      /\ uv >= BATREG_MIN_UV => zone_voltage(zone, uv) >= BATREG_MIN_UV
  BY SMT DEF zone_voltage, Least, WARM_VOLTAGE_UV, BATREG_MIN_UV
<1> QED BY <1>2, <1>3

\* Where apply_zone() is.
LEMMA ApplyingOp ==
    ASSUME TypeInv, Moded, cs.pc \in Applying PROVE cs.op # "none"
  BY DEF Moded, Applying

\* sm5705_chg_apply_zone() first writes the zone's voltage,
LEMMA GuardVoltage ==
    ASSUME TypeInv, Moded, apply_zone_voltage PROVE GuardStep
<1>0. /\ reg \in RegType /\ chg.zone \in Zones /\ chg.cfg_voltage \in Int
      /\ chg.cfg_current \in Int /\ chg.fast \in BOOLEAN /\ chg.bat \in BOOLEAN
      /\ faults \in Nat /\ reg.vreg \in 0..63
  BY DEF TypeInv, TypeOK, ChgType, RegType
<1> DEFINE uv == zone_voltage(chg.zone, chg.cfg_voltage)
           max == IF chg.bat THEN BatVoltageMaxUv ELSE 0
<1>1. PICK ok \in BOOLEAN :
         /\ Transfer(ok)
         /\ reg' = IF ok /\ uv > 0 /\ charge_voltage_ok(uv, max)
                   THEN [reg EXCEPT !.vreg = charge_voltage_code(uv)] ELSE reg
  BY Zenon DEF apply_zone_voltage
<1>2. /\ chg' = chg /\ phase' = phase /\ sp' = sp /\ cs.pc = "apply_zone"
      /\ cs'.op = cs.op /\ cs'.pc = "az_current" /\ cs.op # "none"
  BY GotoOp, ApplyingOp DEF apply_zone_voltage, Applying
<1>3. /\ uv \in Int /\ uv <= chg.cfg_voltage
      /\ chg.zone = "WARM" => uv <= WARM_VOLTAGE_UV
      /\ chg.cfg_voltage >= BATREG_MIN_UV => uv >= BATREG_MIN_UV
  BY <1>0, ZoneLimits
<1> HIDE DEF uv
<1>4. reg'.ireg = reg.ireg /\ reg'.mode = reg.mode
  BY <1>0, <1>1 DEF RegType
<1>m. Moded'
  BY <1>2, <1>4 DEF Moded, Applying
<1> SUFFICES ASSUME Limits PROVE Limits' /\ Bounded'
  BY <1>m DEF GuardStep
<1>5. CASE ok /\ uv > 0 /\ charge_voltage_ok(uv, max)
  <2>1. reg'.vreg = charge_voltage_code(uv)
    BY <1>0, <1>1, <1>5 DEF RegType
  <2>2. reg'.vreg >= 2 /\ get_charge_voltage(reg'.vreg) <= uv
    BY <1>3, <1>5, <2>1, VoltageWritten
  <2>3. phase \notin {"unbound", "registered"} => uv <= BatVoltageMaxUv
    <3>1. phase \notin {"unbound", "registered"} => max = BatVoltageMaxUv
      BY DEF Limits
    <3> QED BY <1>5, <3>1, BatteryFacts DEF charge_voltage_ok
  <2>4. phase \notin {"unbound", "registered"}
           => get_charge_voltage(reg'.vreg) <= BatVoltageMaxUv
    <3>1. get_charge_voltage(reg'.vreg) \in Int
      BY <1>3, <1>5, <2>1, VoltageWritten, SMT DEF get_charge_voltage, BATREG_MIN_UV
    <3> QED BY <1>3, <2>2, <2>3, <3>1, BatteryFacts, SMT
  <2>5. Limits'
    BY <1>2, <1>4, <2>2, <2>4 DEF Limits, Probed, Ready
  <2>7. chg.zone = "WARM" => get_charge_voltage(reg'.vreg) <= WARM_VOLTAGE_UV
    <3>1. get_charge_voltage(reg'.vreg) \in Int
      BY <1>3, <1>5, <2>1, VoltageWritten, SMT DEF get_charge_voltage, BATREG_MIN_UV
    <3> QED BY <1>3, <2>2, <3>1, SMT DEF WARM_VOLTAGE_UV
  <2>8. Bounded'
    BY <1>2, <2>2, <2>7 DEF Bounded, uv
  <2> QED BY <2>5, <2>8
<1>6. CASE ~(ok /\ uv > 0 /\ charge_voltage_ok(uv, max))
  <2>1. reg' = reg
    BY <1>1, <1>6
  <2>2. Limits'
    BY <1>2, <2>1 DEF Limits, Probed, Ready
  <2>4. faults' = 0 => ok
    BY <1>0, <1>1 DEF Transfer
  <2>5. Ready => uv > 0 /\ charge_voltage_ok(uv, max)
    <3>1. ASSUME Ready
          PROVE  /\ chg.bat /\ chg.cfg_voltage >= BATREG_MIN_UV
                 /\ chg.cfg_voltage <= BatVoltageMaxUv
      BY <3>1 DEF Limits, Ready, Probed
    <3>2. Ready => uv > 0 /\ uv <= BatVoltageMaxUv /\ uv <= BATREG_MAX_UV
                   /\ uv >= BATREG_MIN_UV
      BY <1>0, <1>3, <3>1, BatteryFacts, SMT DEF BATREG_MIN_UV, BATREG_MAX_UV
    <3> QED BY <3>1, <3>2 DEF charge_voltage_ok
  <2>6. Bounded'
    BY <1>2, <1>6, <2>4, <2>5 DEF Bounded, Ready, Probed
  <2> QED BY <2>2, <2>6
<1> QED BY <1>5, <1>6

\* ... then its current: one the battery's maximum refuses leaves a lower one,
LEMMA GuardCurrent ==
    ASSUME TypeInv, Moded, apply_zone_current PROVE GuardStep
<1>0. /\ reg \in RegType /\ chg.zone \in Zones /\ chg.cfg_voltage \in Int
      /\ chg.cfg_current \in Int /\ chg.fast \in BOOLEAN /\ chg.bat \in BOOLEAN
      /\ faults \in Nat /\ reg.ireg \in 0..63
  BY DEF TypeInv, TypeOK, ChgType, RegType
<1> DEFINE ua == zone_current(chg.zone, chg.cfg_current, chg.fast)
           max == IF chg.bat THEN BatCurrentMaxUa ELSE 0
<1>1. PICK ok \in BOOLEAN :
         /\ Transfer(ok)
         /\ reg' = IF ok /\ ua > 0 /\ charge_current_ok(ua, max)
                   THEN [reg EXCEPT !.ireg = charge_current_code(ua)] ELSE reg
  BY Zenon DEF apply_zone_current
<1>2. /\ chg' = chg /\ phase' = phase /\ sp' = sp /\ cs.pc = "az_current"
      /\ cs'.op = cs.op /\ cs'.pc = "az_mode" /\ cs.op # "none"
  BY GotoOp, ApplyingOp DEF apply_zone_current, Applying
<1>3. /\ ua \in Int
      /\ chg.zone = "WARM" => ua <= WARM_CURRENT_UA
      /\ chg.zone = "COOL" => ua <= COOL_CURRENT_UA
      /\ chg.cfg_current >= MIN_CHARGE_UA => ua >= MIN_CHARGE_UA
  BY <1>0, ZoneLimits
<1> HIDE DEF ua
<1>4. /\ reg'.vreg = reg.vreg /\ reg'.mode = reg.mode
      /\ get_charge_current(reg'.ireg) \in Int
  <2>1. reg'.vreg = reg.vreg /\ reg'.mode = reg.mode
    BY <1>0, <1>1 DEF RegType
  <2>2. reg' = reg \/ reg'.ireg \in 0..63
    BY <1>0, <1>1, <1>3, CurrentWritten DEF RegType
  <2> QED BY <1>0, <2>1, <2>2, SMT DEF get_charge_current
<1>c. WARM_CURRENT_UA \in Int /\ COOL_CURRENT_UA \in Int
  BY DEF WARM_CURRENT_UA, COOL_CURRENT_UA
<1>m. Moded'
  BY <1>2, <1>4 DEF Moded, Applying
<1> SUFFICES ASSUME Limits PROVE Limits' /\ (Bounded => Bounded')
  BY <1>m DEF GuardStep
<1>5. CASE ok /\ ua > 0 /\ charge_current_ok(ua, max)
  <2>1. reg'.ireg = charge_current_code(ua)
    BY <1>0, <1>1, <1>5 DEF RegType
  <2>2. reg'.ireg >= 2 /\ get_charge_current(reg'.ireg) <= ua
    BY <1>3, <1>5, <2>1, CurrentWritten
  <2>3. phase \notin {"unbound", "registered"} /\ BatCurrentMaxUa > 0
           => get_charge_current(reg'.ireg) <= BatCurrentMaxUa
    <3>1. phase \notin {"unbound", "registered"} /\ BatCurrentMaxUa > 0
             => ua <= BatCurrentMaxUa
      BY <1>5 DEF Limits, charge_current_ok
    <3> QED BY <1>3, <1>4, <2>2, <3>1, BatteryFacts, SMT
  <2>4. Limits'
    BY <1>2, <1>4, <2>2, <2>3 DEF Limits, Probed, Ready
  <2>6. /\ chg.zone = "WARM" => get_charge_current(reg'.ireg) <= WARM_CURRENT_UA
        /\ chg.zone = "COOL" => get_charge_current(reg'.ireg) <= COOL_CURRENT_UA
    BY <1>3, <1>4, <1>c, <2>2, SMT
  <2>7. faults' = 0 => faults = 0
    BY <1>0, <1>1, FaultsGrow
  <2>8. Bounded => Bounded'
    BY <1>2, <1>4, <2>2, <2>6, <2>7 DEF Bounded, Ready, Probed, ua
  <2> QED BY <2>4, <2>8
<1>6. CASE ~(ok /\ ua > 0 /\ charge_current_ok(ua, max))
  <2>1. reg' = reg
    BY <1>1, <1>6
  <2>2. Limits'
    BY <1>2, <2>1 DEF Limits, Probed, Ready
  <2>4. faults' = 0 => ok /\ faults = 0
    BY <1>0, <1>1 DEF Transfer
  <2>5. faults' = 0 /\ Ready => get_charge_current(reg.ireg) <= ua
    <3>1. ASSUME Ready
          PROVE  /\ chg.bat /\ chg.cfg_current >= MIN_CHARGE_UA
                 /\ BatCurrentMaxUa > 0
                       => get_charge_current(reg.ireg) <= BatCurrentMaxUa
      BY <3>1 DEF Limits, Ready, Probed
    <3>2. Ready => ua > 0
      BY <1>0, <1>3, <3>1, SMT DEF MIN_CHARGE_UA
    <3>3. faults' = 0 /\ Ready => BatCurrentMaxUa > 0 /\ ua > BatCurrentMaxUa
      BY <1>0, <1>3, <1>6, <2>4, <3>1, <3>2, BatteryFacts, SMT
      DEF charge_current_ok
    <3>4. get_charge_current(reg.ireg) \in Int
      BY <1>0, SMT DEF get_charge_current
    <3> QED BY <1>3, <3>1, <3>3, <3>4, BatteryFacts, SMT
  <2>6. faults' = 0 /\ Ready =>
           /\ chg.zone = "WARM" => get_charge_current(reg.ireg) <= WARM_CURRENT_UA
           /\ chg.zone = "COOL" => get_charge_current(reg.ireg) <= COOL_CURRENT_UA
    BY <1>3, <1>4, <1>c, <2>1, <2>5, SMT
  <2>7. Bounded => Bounded'
    BY <1>2, <2>1, <2>4, <2>5, <2>6 DEF Bounded, Ready, Probed, ua
  <2> QED BY <2>2, <2>7
<1> QED BY <1>5, <1>6

\* ... then the mode.
LEMMA GuardMode ==
    ASSUME TypeInv, Moded, apply_zone_mode PROVE GuardStep
<1>0. reg \in RegType /\ cs \in CsType /\ faults \in Nat
  BY DEF TypeInv, TypeOK
<1>1. PICK ok \in BOOLEAN, vbus \in BOOLEAN :
         LET done == ok /\ reg.mode \in SwitchedModes
         IN  /\ Transfer(ok /\ vbus)
             /\ reg' = IF done
                       THEN [reg EXCEPT !.mode =
                                zone_mode(chg.zone, chg.torch_on, chg.otg_on,
                                          vbus /\ vbus_pok)]
                       ELSE reg
             /\ cs' = [cs EXCEPT !.pc = "applied", !.ok = done]
  BY Zenon DEF apply_zone_mode
<1>2. /\ chg' = chg /\ phase' = phase /\ sp' = sp /\ cs.pc = "az_mode"
  BY DEF apply_zone_mode
<1>3. /\ cs.op # "none" /\ cs'.op = cs.op /\ cs'.pc = "applied"
      /\ cs'.ok = (ok /\ reg.mode \in SwitchedModes)
  BY <1>0, <1>1, <1>2, ApplyingOp DEF CsType, Applying
<1>4. reg'.vreg = reg.vreg /\ reg'.ireg = reg.ireg
  BY <1>0, <1>1 DEF RegType
<1>5. faults' = 0 => ok /\ faults = 0
  BY <1>0, <1>1 DEF Transfer
<1>6. Limits => Limits'
  BY <1>2, <1>4, LimitsKept DEF LimitsSame
<1>7. Moded'
  <2> DEFINE mode == zone_mode(chg.zone, chg.torch_on, chg.otg_on, vbus /\ vbus_pok)
  <2>1. mode \in SwitchedModes
    BY ModeType
  <2>2. /\ ~zone_charges(chg.zone) => mode # MODE_CHG_ON
        /\ mode = MODE_USB_OTG => chg.otg_on
        /\ mode = MODE_FLASH_BOOST => chg.torch_on
    BY DEF zone_mode, MODE_USB_OTG, MODE_FLASH_BOOST, MODE_CHG_ON, MODE_CHG_OFF
  <2> HIDE DEF mode
  <2>3. ok /\ reg.mode \in SwitchedModes => reg'.mode = mode
    BY <1>0, <1>1 DEF RegType, mode
  <2>4. ~(ok /\ reg.mode \in SwitchedModes) => reg' = reg
    BY <1>1
  <2> QED BY <1>2, <1>3, <1>5, <2>1, <2>2, <2>3, <2>4 DEF Moded
<1>8. ASSUME Bounded PROVE Bounded'
  <2>1. faults' = 0 /\ Ready =>
           /\ chg.zone = "WARM" =>
                 /\ get_charge_voltage(reg.vreg) <= WARM_VOLTAGE_UV
                 /\ get_charge_current(reg.ireg) <= WARM_CURRENT_UA
           /\ chg.zone = "COOL" => get_charge_current(reg.ireg) <= COOL_CURRENT_UA
    BY <1>2, <1>5, <1>8 DEF Bounded
  <2> QED BY <1>2, <1>3, <1>4, <2>1 DEF Bounded, Ready, Probed
<1> QED BY <1>6, <1>7, <1>8 DEF GuardStep

\* Giving the lock back, or moving on inside a locked section, is not
\* apply_zone()'s.
LEMMA UnlockedElsewhere ==
    ASSUME cs' = Unlocked, cs.pc \notin Applying PROVE Elsewhere
  BY DEF Unlocked, Elsewhere, Applying

\* ... nor is going on to another place,
LEMMA GotoElsewhere ==
    ASSUME NEW op, op # "none", NEW pc, pc \notin Applying \union {"none", "applied"},
           Goto(op, pc), cs.pc \notin Applying
    PROVE  Elsewhere
  BY DEF Goto, Elsewhere, Applying

\* ... nor is asking for the 5 V hold, which changes one flag.
LEMMA HoldElsewhere ==
    ASSUME NEW op, op # "none", NEW c \in ChgType, NEW hold, hold_5v(op, c, hold),
           cs.pc \notin Applying
    PROVE  /\ Elsewhere /\ chg'.zone = c.zone /\ chg'.fast = c.fast
           /\ chg'.torch_on = c.torch_on /\ chg'.otg_on = c.otg_on
           /\ chg'.bat = c.bat /\ chg'.cfg_voltage = c.cfg_voltage
           /\ chg'.cfg_current = c.cfg_current
<1>1. chg' = c \/ chg' = [c EXCEPT !.hold_5v = hold]
  BY Zenon DEF hold_5v
<1>2. Goto(op, "held") \/ Goto(op, "muic")
  BY Zenon DEF hold_5v
<1>3. Elsewhere
  BY <1>2, GotoElsewhere DEF Applying
<1> QED BY <1>1, <1>3 DEF ChgType

\* Nobody is in apply_zone() while nobody holds the lock.
LEMMA FreeElsewhere ==
    ASSUME Moded, cs.op = "none" PROVE cs.pc = "none" /\ cs.pc \notin Applying
  BY DEF Moded, Applying

\* Waiting for the MUIC, or giving the lock back.
LEMMA GuardHold ==
    ASSUME TypeInv, Moded, apply_zone_unlock \/ muic_hold_5v PROVE GuardStep
<1>0. cs \in CsType
  BY DEF TypeInv, TypeOK
<1>1. ZoneSame /\ phase' = phase /\ sp' = sp /\ faults' = faults
  BY DEF apply_zone_unlock, muic_hold_5v, env, ZoneSame, LimitsSame
<1>2. CASE apply_zone_unlock
  <2>1. cs' = Unlocked /\ cs.pc = "applied"
    BY <1>2 DEF apply_zone_unlock
  <2> QED BY <1>1, <2>1, UnlockedElsewhere, GuardSame DEF Applying
<1>3. CASE muic_hold_5v
  <2>1. cs'.op = cs.op /\ cs'.pc = "held" /\ cs.pc = "muic"
    BY <1>0, <1>3 DEF muic_hold_5v, CsType
  <2>2. Elsewhere
    BY <2>1 DEF Elsewhere, Applying, Moded
  <2> QED BY <1>1, <2>2, GuardSame
<1> QED BY <1>2, <1>3

\* cable_work changes the charge rate and the torch only on its way to
\* apply_zone().
LEMMA GuardCable ==
    ASSUME TypeInv, Moded, cable_work \/ external_power_changed PROVE GuardStep
<1>0. reg \in RegType /\ chg \in ChgType /\ cs \in CsType /\ faults \in Nat
  BY DEF TypeInv, TypeOK
<1>c. ASSUME cs' = cs PROVE Elsewhere
  BY <1>c DEF Elsewhere, Moded
<1>1. ASSUME \/ cable_work_start \/ cable_work_extcon \/ typec_limit_read
             \/ external_power_changed
      PROVE  GuardStep
  <2>1. ZoneSame /\ cs' = cs /\ phase' = phase /\ sp' = sp /\ faults' = faults
    BY <1>1 DEF cable_work_start, cable_work_extcon, typec_limit_read,
                external_power_changed, drv, env, ZoneSame, LimitsSame
  <2> QED BY <1>c, <2>1, GuardSame
<1>2. CASE cable_work_limit
  <2>1. OtherLimit
    BY <1>2, Zenon DEF cable_work_limit, OtherLimit
  <2>2. chg' = [chg EXCEPT !.usb_type = Decision.type]
    BY <1>2 DEF cable_work_limit
  <2>3. ZoneSame
    BY <1>0, <2>1, <2>2, OtherLimitSame DEF ZoneSame, LimitsSame, ChgType
  <2>4. cs' = cs /\ phase' = phase /\ sp' = sp
    BY <1>2 DEF cable_work_limit
  <2>5. faults' = 0 => faults = 0
    BY <1>0, <1>2, FaultsGrow DEF cable_work_limit
  <2> QED BY <1>c, <2>3, <2>4, <2>5, GuardSame
<1>3. CASE cable_work_lock
  <2> DEFINE c == [chg EXCEPT !.usb_c = Decision.usb_c]
  <2>1. c \in ChgType
    <3>1. Decision.usb_c \in BOOLEAN
      BY CableType DEF Decision, TypeInv, TypeOK, CwType
    <3> QED BY <1>0, <3>1, ChgWrite
  <2>2. /\ c.zone = chg.zone /\ c.fast = chg.fast /\ c.torch_on = chg.torch_on
        /\ c.otg_on = chg.otg_on /\ c.bat = chg.bat
        /\ c.cfg_voltage = chg.cfg_voltage /\ c.cfg_current = chg.cfg_current
    BY <1>0 DEF ChgType
  <2>3. hold_5v("cable_work", c, Decision.usb_c \/ chg.torch_on) /\ cs.op = "none"
    BY <1>3 DEF cable_work_lock
  <2> HIDE DEF c
  <2>4. Elsewhere /\ ZoneSame
    <3>1. reg' = reg
      BY <1>3 DEF cable_work_lock
    <3> QED BY <2>1, <2>2, <2>3, <3>1, FreeElsewhere, HoldElsewhere
            DEF ZoneSame, LimitsSame
  <2> QED BY <1>3, <2>4, GuardSame DEF cable_work_lock
<1>4. CASE cable_work_held
  <2>1. OtherLimit
    BY <1>4, Zenon DEF cable_work_held, OtherLimit
  <2>2. LimitsSame
    BY <1>0, <1>4, <2>1, OtherLimitSame DEF cable_work_held, LimitsSame, ChgType
  <2>3. cs'.op = "cable_work" /\ cs'.pc = "apply_zone" /\ phase' = phase /\ sp' = sp
    BY <1>4, GotoOp DEF cable_work_held
  <2> QED BY <1>0, <2>1, <2>2, <2>3, OtherLimitSame, GuardHandover
<1>5. CASE cable_work_unlock
  <2>1. /\ cs.pc = "applied" /\ cs' = Unlocked /\ ZoneSame /\ phase' = phase
        /\ sp' = sp /\ faults' = faults
    BY <1>5 DEF cable_work_unlock, At, ZoneSame, LimitsSame
  <2> QED BY <2>1, UnlockedElsewhere, GuardSame DEF Applying
<1> QED BY <1>1, <1>2, <1>3, <1>4, <1>5 DEF cable_work

\* temp_work changes the zone only on its way to apply_zone().
LEMMA GuardTemp ==
    ASSUME TypeInv, Moded, temp_work_read \/ temp_work PROVE GuardStep
<1>0. chg \in ChgType
  BY DEF TypeInv, TypeOK
<1>1. reg' = reg /\ phase' = phase /\ sp' = sp /\ faults' = faults
  BY DEF temp_work_read, temp_work, drv
<1>2. CASE chg' = chg /\ cs' = cs
  <2>1. ZoneSame /\ Elsewhere
    BY <1>1, <1>2 DEF ZoneSame, LimitsSame, Elsewhere, Moded
  <2> QED BY <1>1, <2>1, GuardSame
<1>3. CASE /\ \E z : chg' = [chg EXCEPT !.zone = z]
           /\ Goto("temp_work", "apply_zone")
  <2>1. LimitsSame
    BY <1>0, <1>1, <1>3 DEF LimitsSame, ChgType
  <2>2. cs'.op = "temp_work" /\ cs'.pc = "apply_zone"
    BY <1>3, GotoOp
  <2> QED BY <1>1, <2>1, <2>2, GuardHandover
<1> QED BY <1>2, <1>3, Zenon DEF temp_work_read, temp_work, drv

\* sm5705_chg_set_property() writes only values within the battery's limits,
\* and hands over to apply_zone().
LEMMA GuardSetProperty ==
    ASSUME TypeInv, Moded, set_property PROVE GuardStep
<1>0. reg \in RegType /\ chg \in ChgType /\ cs \in CsType /\ sp \in SpType
      /\ faults \in Nat
  BY DEF TypeInv, TypeOK
<1>1. ASSUME NEW v, set_property_input_limit(v) \/ set_property_term(v)
      PROVE  GuardStep
  <2>1. OtherLimit
    BY <1>1, Zenon DEF set_property_input_limit, set_property_term, OtherLimit
  <2>2. cs' = cs /\ phase' = phase /\ chg' = chg /\ sp' = sp /\ faults' = faults
    BY <1>1 DEF set_property_input_limit, set_property_term
  <2>3. ZoneSame /\ Elsewhere
    BY <1>0, <2>1, <2>2, OtherLimitSame DEF ZoneSame, LimitsSame, Elsewhere, Moded
  <2> QED BY <2>2, <2>3, GuardSame
<1>2. ASSUME NEW v \in Int, set_property_current(v) \/ set_property_voltage(v)
      PROVE  GuardStep
  <2>1. /\ ZoneSame /\ phase' = phase /\ chg' = chg /\ reg' = reg /\ faults' = faults
        /\ cs.op = "none" /\ Writable /\ Goto("set_property", "write")
    BY <1>2 DEF set_property_current, set_property_voltage, ZoneSame, LimitsSame
  <2>2. Elsewhere
    BY <2>1, GotoElsewhere, FreeElsewhere DEF Applying
  <2>3. ASSUME ~EarlyWrites, Limits PROVE Limits'
    <3>1. Probed
      BY <2>1, <2>3 DEF Writable
    <3>2. chg.bat
      BY <2>3, <3>1 DEF Limits, Probed
    <3>3. /\ sp'.psp = "voltage" => sp'.val <= BatVoltageMaxUv
          /\ sp'.psp = "current" /\ BatCurrentMaxUa > 0 => sp'.val <= BatCurrentMaxUa
      BY <1>2, <3>2, BatteryFacts
      DEF set_property_current, set_property_voltage, charge_current_ok,
          charge_voltage_ok
    <3> QED BY <2>1, <2>3, <3>1, <3>3 DEF Limits, Probed, Ready
  <2>4. Moded' /\ (Bounded => Bounded')
    BY <2>1, <2>2, GuardKept DEF Ready, Probed
  <2> QED BY <2>3, <2>4 DEF GuardStep
<1>3. CASE set_property_write
  <2>0. /\ cs.op = "set_property" /\ cs.pc = "write" /\ phase' = phase
        /\ sp' = NoWrite /\ sp.psp # "none"
        /\ sp.psp = "voltage" => charge_voltage_ok(sp.val, 0)
        /\ sp.psp = "current" => charge_current_ok(sp.val, 0)
    BY <1>3 DEF set_property_write, At, TypeInv, CheckedValue
  <2>1. PICK ok \in BOOLEAN :
           /\ Transfer(ok)
           /\ IF ~ok
              THEN cs' = Unlocked /\ UNCHANGED <<chg, reg>>
              ELSE /\ IF sp.psp = "current"
                      THEN /\ reg' = [reg EXCEPT !.ireg = charge_current_code(sp.val)]
                           /\ chg' = [chg EXCEPT !.cfg_current = sp.val]
                      ELSE /\ reg' = [reg EXCEPT !.vreg = charge_voltage_code(sp.val)]
                           /\ chg' = [chg EXCEPT !.cfg_voltage = sp.val]
                   /\ Goto("set_property", "apply_zone")
    BY <1>3, Zenon DEF set_property_write
  <2>2. CASE ~ok
    <3>1. ZoneSame /\ cs' = Unlocked
      BY <2>1, <2>2 DEF ZoneSame, LimitsSame
    <3>2. faults' = 0 => faults = 0
      BY <1>0, <2>1, FaultsGrow
    <3> QED BY <2>0, <3>1, <3>2, UnlockedElsewhere, GuardSame DEF Applying
  <2>3. CASE ok
    <3>1. cs'.op = "set_property" /\ cs'.pc = "apply_zone" /\ reg'.mode = reg.mode
      BY <1>0, <2>1, <2>3, GotoOp DEF RegType
    <3>2. Moded' /\ Bounded'
      BY <3>1, GuardHandedOver
    <3>3. ASSUME Limits PROVE Limits'
      <4>0. Probed /\ sp'.psp = "none"
        BY <2>0, <3>3 DEF Limits, NoWrite
      <4>1. CASE sp.psp = "current"
        <5>1. /\ reg'.ireg = charge_current_code(sp.val) /\ reg'.vreg = reg.vreg
              /\ chg'.cfg_current = sp.val /\ chg'.cfg_voltage = chg.cfg_voltage
              /\ chg'.bat = chg.bat
          BY <1>0, <2>1, <2>3, <4>1 DEF RegType, ChgType
        <5>2. /\ sp.val \in Int /\ sp.val >= MIN_CHARGE_UA
              /\ charge_current_ok(sp.val, 0)
              /\ BatCurrentMaxUa > 0 => sp.val <= BatCurrentMaxUa
          BY <1>0, <2>0, <3>3, <4>1 DEF SpType, charge_current_ok, Limits
        <5>3. reg'.ireg \in 0..63 /\ reg'.ireg >= 2
              /\ get_charge_current(reg'.ireg) <= sp.val
          BY <5>1, <5>2, CurrentWritten
        <5>4. BatCurrentMaxUa > 0 => get_charge_current(reg'.ireg) <= BatCurrentMaxUa
          <6>1. get_charge_current(reg'.ireg) \in Int
            BY <5>3, SMT DEF get_charge_current
          <6> QED BY <5>2, <5>3, <6>1, BatteryFacts, SMT
        <5> QED BY <2>0, <3>3, <4>0, <5>1, <5>2, <5>3, <5>4 DEF Limits, Probed, Ready
      <4>2. CASE sp.psp = "voltage"
        <5>1. /\ reg'.vreg = charge_voltage_code(sp.val) /\ reg'.ireg = reg.ireg
              /\ chg'.cfg_voltage = sp.val /\ chg'.cfg_current = chg.cfg_current
              /\ chg'.bat = chg.bat
          BY <1>0, <2>1, <2>3, <4>2 DEF RegType, ChgType
        <5>2. /\ sp.val \in Int /\ charge_voltage_ok(sp.val, 0)
              /\ sp.val <= BatVoltageMaxUv /\ sp.val >= BATREG_MIN_UV
          BY <1>0, <2>0, <3>3, <4>2 DEF SpType, Limits, charge_voltage_ok
        <5>3. reg'.vreg \in 0..63 /\ reg'.vreg >= 2
              /\ get_charge_voltage(reg'.vreg) <= sp.val
          BY <5>1, <5>2, VoltageWritten
        <5>4. get_charge_voltage(reg'.vreg) <= BatVoltageMaxUv
          <6>1. get_charge_voltage(reg'.vreg) \in Int
            BY <5>3, SMT DEF get_charge_voltage, BATREG_MIN_UV
          <6> QED BY <5>2, <5>3, <6>1, BatteryFacts, SMT
        <5> QED BY <2>0, <3>3, <4>0, <5>1, <5>2, <5>3, <5>4 DEF Limits, Probed, Ready
      <4> QED BY <1>0, <2>0, <4>1, <4>2 DEF SpType
    <3> QED BY <3>2, <3>3 DEF GuardStep
  <2> QED BY <2>2, <2>3
<1> QED BY <1>1, <1>2, <1>3, InputAssumption, Zenon DEF set_property

\* sm5705_chg_torch_set() changes torch_on only on its way to apply_zone().
LEMMA GuardTorch ==
    ASSUME TypeInv, Moded, torch_set PROVE GuardStep
<1>0. reg \in RegType /\ chg \in ChgType /\ faults \in Nat
  BY DEF TypeInv, TypeOK
<1>p. phase' = phase /\ sp' = sp
  BY DEF torch_set, torch_set_off, torch_off_release, torch_off_unlock,
         torch_set_on, torch_set_held, torch_set_movie
<1>r. OtherLimit
  BY Zenon DEF torch_set, torch_set_off, torch_off_release, torch_off_unlock,
           torch_set_on, torch_set_held, torch_set_movie, OtherLimit
<1>s. reg'.vreg = reg.vreg /\ reg'.ireg = reg.ireg /\ reg'.mode = reg.mode
  BY <1>0, <1>r, OtherLimitSame
<1>f. faults' = 0 => faults = 0
  BY <1>0, FaultsGrow
  DEF torch_set, torch_set_off, torch_off_release, torch_off_unlock,
      torch_set_on, torch_set_held, torch_set_movie
<1>1. CASE torch_set_off
  <2>1. LimitsSame /\ cs'.op = "torch_off" /\ cs'.pc = "apply_zone"
    BY <1>0, <1>s, <1>1, GotoOp DEF torch_set_off, LimitsSame, ChgType
  <2> QED BY <1>p, <1>s, <2>1, GuardHandover
<1>2. ASSUME torch_off_release \/ torch_set_on PROVE GuardStep
  <2>1. \/ cs.pc = "applied" /\ hold_5v("torch_off", chg, chg.usb_c)
        \/ cs.op = "none" /\ hold_5v("torch_on", chg, TRUE)
    BY <1>2 DEF torch_off_release, torch_set_on, At
  <2>2. cs.pc \notin Applying
    BY <2>1, FreeElsewhere DEF Applying
  <2>3. Elsewhere /\ ZoneSame
    BY <1>0, <1>s, <2>1, <2>2, HoldElsewhere DEF ZoneSame, LimitsSame
  <2> QED BY <1>p, <1>f, <2>3, GuardSame
<1>3. CASE torch_off_unlock
  <2>1. ZoneSame /\ Elsewhere
    BY <1>s, <1>3, UnlockedElsewhere
    DEF torch_off_unlock, At, ZoneSame, LimitsSame, Applying
  <2> QED BY <1>p, <1>f, <2>1, GuardSame
<1>4. CASE torch_set_held
  <2>1. chg' = [chg EXCEPT !.hv = chg.hv /\ ~cs.ok]
    BY <1>4 DEF torch_set_held
  <2>2. ZoneSame
    BY <1>0, <1>s, <2>1 DEF ZoneSame, LimitsSame, ChgType
  <2>3. cs' = Unlocked \/ Goto("torch_on", "movie")
    BY <1>4 DEF torch_set_held
  <2>4. Elsewhere
    BY <1>4, <2>3, UnlockedElsewhere, GotoElsewhere DEF torch_set_held, At, Applying
  <2> QED BY <1>p, <1>f, <2>2, <2>4, GuardSame
<1>5. CASE torch_set_movie
  <2>1. CASE cs' = Unlocked /\ chg' = chg
    <3>1. ZoneSame /\ Elsewhere
      BY <1>s, <1>5, <2>1, UnlockedElsewhere
      DEF torch_set_movie, At, ZoneSame, LimitsSame, Applying
    <3> QED BY <1>p, <1>f, <3>1, GuardSame
  <2>2. CASE chg' = [chg EXCEPT !.torch_on = TRUE] /\ Goto("torch_on", "apply_zone")
    <3>1. LimitsSame /\ cs'.op = "torch_on" /\ cs'.pc = "apply_zone"
      BY <1>0, <1>s, <2>2, GotoOp DEF LimitsSame, ChgType
    <3> QED BY <1>p, <1>s, <3>1, GuardHandover
  <2> QED BY <1>5, <2>1, <2>2, Zenon DEF torch_set_movie
<1> QED BY <1>1, <1>2, <1>3, <1>4, <1>5 DEF torch_set

\* The handlers of the OTG supply change otg_on only on their way to
\* apply_zone(), or to what it has made of the mode.
LEMMA GuardOtg ==
    ASSUME TypeInv, Late, Moded, otg PROVE GuardStep
<1>0. reg \in RegType /\ chg \in ChgType /\ faults \in Nat /\ cs.ok \in BOOLEAN
  BY DEF TypeInv, TypeOK, CsType
<1>r. OtherLimit
  BY Zenon DEF otg, otg_enable, regulator_already_on, otg_enable_done, otg_disable,
           otg_fail, otg_off_done, drv, OtherLimit
<1>s. reg'.vreg = reg.vreg /\ reg'.ireg = reg.ireg /\ reg'.mode = reg.mode
  BY <1>0, <1>r, OtherLimitSame
<1>p. sp' = sp
  BY DEF otg, otg_enable, regulator_already_on, otg_enable_done, otg_disable,
         otg_fail, otg_off_done
<1>f. faults' = 0 => faults = 0
  BY <1>0, FaultsGrow
  DEF otg, otg_enable, regulator_already_on, otg_enable_done, otg_disable,
      otg_fail, otg_off_done
<1>1. CASE otg_enable
  <2>p. phase' = phase
    BY <1>1 DEF otg_enable
  <2>1. CASE chg' = chg /\ cs' = cs
    <3>1. ZoneSame /\ Elsewhere
      BY <1>s, <2>1 DEF ZoneSame, LimitsSame, Elsewhere, Moded
    <3> QED BY <1>p, <1>f, <2>p, <3>1, GuardSame
  <2>2. CASE chg' = [chg EXCEPT !.otg_on = TRUE] /\ Goto("otg_enable", "apply_zone")
    <3>1. LimitsSame /\ cs'.op = "otg_enable" /\ cs'.pc = "apply_zone"
      BY <1>0, <1>s, <2>2, GotoOp DEF LimitsSame, ChgType
    <3> QED BY <1>p, <1>s, <2>p, <3>1, GuardHandover
  <2> QED BY <1>1, <2>1, <2>2, Zenon DEF otg_enable
<1>2. CASE regulator_already_on
  <2>1. ZoneSame /\ Elsewhere /\ phase' = phase
    BY <1>s, <1>2 DEF regulator_already_on, drv, ZoneSame, LimitsSame, Elsewhere, Moded
  <2> QED BY <1>p, <1>f, <2>1, GuardSame
<1>3. CASE otg_enable_done
  <2>1. /\ cs.pc = "applied" /\ cs' = Unlocked /\ phase' = phase
        /\ chg' = [chg EXCEPT !.otg_on = cs.ok]
    BY <1>3 DEF otg_enable_done, At
  <2>2. LimitsSame /\ chg'.otg_on = cs.ok /\ chg'.zone = chg.zone
        /\ chg'.torch_on = chg.torch_on /\ chg'.fast = chg.fast
    BY <1>0, <1>s, <2>1 DEF LimitsSame, ChgType
  <2>3. Elsewhere /\ cs'.pc = "none" /\ cs'.op = "none"
    BY <2>1, UnlockedElsewhere DEF Applying, Unlocked
  <2>4. faults' = 0 => cs.ok
    BY <1>f, <2>1 DEF Moded
  <2>5. Moded'
    BY <1>s, <1>f, <2>1, <2>2, <2>3, <2>4 DEF Moded, Applying, Ready, Probed
  <2>6. Bounded => Bounded'
    BY <1>f, <2>1, <2>2, <2>3 DEF Bounded, LimitsSame, Applying, Ready, Probed
  <2>7. Limits => Limits'
    BY <1>p, <2>1, <2>2, LimitsKept
  <2> QED BY <2>5, <2>6, <2>7 DEF GuardStep
<1>4. ASSUME otg_disable \/ otg_fail PROVE GuardStep
  <2>1. chg' = [chg EXCEPT !.otg_on = FALSE] /\ phase' = phase
        /\ cs'.op # "none" /\ cs'.pc = "apply_zone"
    BY <1>4, GotoOp DEF otg_disable, otg_fail, otg_off
  <2>2. LimitsSame
    BY <1>0, <1>s, <2>1 DEF LimitsSame, ChgType
  <2> QED BY <1>p, <1>s, <2>1, <2>2, GuardHandover
<1>5. CASE otg_off_done
  <2>1. /\ cs.pc = "applied" /\ cs' = Unlocked /\ chg' = chg
        /\ phase' = phase \/ (cs.op = "shutdown" /\ phase' = "halted")
    BY <1>5 DEF otg_off_done
  <2>2. ZoneSame /\ Elsewhere
    BY <1>s, <2>1, UnlockedElsewhere DEF ZoneSame, LimitsSame, Applying
  <2>3. CASE phase' = phase
    BY <1>p, <1>f, <2>2, <2>3, GuardSame
  <2>4. CASE Probed /\ phase' = "halted"
    BY <1>p, <1>f, <2>2, <2>4, GuardReady DEF Ready, Probed
  <2>5. cs.op = "shutdown" => Probed
    BY DEF Late, LateOps
  <2> QED BY <2>1, <2>3, <2>4, <2>5
<1> QED BY <1>1, <1>2, <1>3, <1>4, <1>5 DEF otg

\* probe(), shutdown() and a crash: what probe() fills in step by step.
LEMMA GuardLifecycle ==
    ASSUME TypeInv, Late, Moded, lifecycle PROVE GuardStep
<1>0. /\ reg \in RegType /\ chg \in ChgType /\ faults \in Nat
      /\ reg.vreg \in 0..63 /\ reg.ireg \in 0..63
  BY DEF TypeInv, TypeOK, RegType
<1>c. ASSUME cs' = cs PROVE Elsewhere
  BY <1>c DEF Elsewhere, Moded
\* Until probe() applies its first zone, Moded and Bounded say little.
<1>e. ASSUME ~Ready', Elsewhere, reg'.mode = reg.mode, faults' = faults,
             ~EarlyWrites /\ Limits => Limits'
      PROVE  GuardStep
  BY <1>e DEF GuardStep, Moded, Bounded, Elsewhere, Applying
<1>1. CASE probe_register
  <2>1. /\ reg' = reg /\ cs' = cs /\ phase' = "registered" /\ chg'.cfg_voltage = 0
        /\ sp' = sp /\ phase = "unbound" /\ faults' = faults
    BY <1>1 DEF probe_register, ZeroChg
  <2>2. ~EarlyWrites /\ Limits => Limits'
    BY <2>1 DEF Limits, Ready, Probed
  <2> QED BY <1>c, <1>e, <2>1, <2>2 DEF Ready, Probed
<1>2. CASE probe_voltage
  <2>1. /\ reg'.vreg = charge_voltage_code(BatVoltageMaxUv) /\ reg'.ireg = reg.ireg
        /\ reg'.mode = reg.mode
        /\ chg'.bat = TRUE /\ chg'.cfg_voltage = chg.cfg_voltage
        /\ cs' = cs /\ phase' = "set_current" /\ sp' = sp /\ phase = "registered"
        /\ faults' = faults
    BY <1>0, <1>2 DEF probe_voltage, ChgType, RegType
  <2>2. /\ charge_voltage_code(BatVoltageMaxUv) >= 2
        /\ get_charge_voltage(charge_voltage_code(BatVoltageMaxUv)) <= BatVoltageMaxUv
    <3>1. charge_voltage_ok(BatVoltageMaxUv, 0)
      BY BatteryFacts DEF charge_voltage_ok
    <3> QED BY <3>1, BatteryFacts, VoltageWritten
  <2>3. ~EarlyWrites /\ Limits => Limits'
    BY <2>1, <2>2 DEF Limits, Ready, Probed
  <2> QED BY <1>c, <1>e, <2>1, <2>3 DEF Ready, Probed
<1>3. CASE probe_current
  <2> DEFINE ua == IF BatCurrentMaxUa > 0 THEN BatCurrentMaxUa ELSE DEFAULT_CHARGE_UA
  <2>1. /\ reg'.ireg = charge_current_code(ua) /\ reg'.vreg = reg.vreg
        /\ reg'.mode = reg.mode /\ chg' = chg
        /\ cs' = cs /\ phase' = "get_voltage" /\ sp' = sp /\ phase = "set_current"
        /\ faults' = faults
    BY <1>0, <1>3 DEF probe_current, RegType
  <2>2. /\ charge_current_code(ua) >= 2
        /\ BatCurrentMaxUa > 0
              => get_charge_current(charge_current_code(ua)) <= BatCurrentMaxUa
    <3>1. ua \in Int /\ charge_current_ok(ua, 0)
      BY BatteryAssumption, SMT DEF charge_current_ok, MIN_CHARGE_UA, DEFAULT_CHARGE_UA
    <3> QED BY <3>1, CurrentWritten
  <2>3. ~EarlyWrites /\ Limits => Limits'
    BY <2>1, <2>2 DEF Limits, Ready, Probed
  <2> QED BY <1>c, <1>e, <2>1, <2>3 DEF Ready, Probed
<1>4. CASE probe_get_voltage
  <2>1. /\ chg'.cfg_voltage = get_charge_voltage(reg.vreg) /\ chg'.bat = chg.bat
        /\ reg' = reg /\ cs' = cs /\ phase' = "get_current" /\ sp' = sp
        /\ phase = "get_voltage" /\ faults' = faults
    BY <1>0, <1>4 DEF probe_get_voltage, ChgType
  <2>2. Limits => reg.vreg >= 2 /\ get_charge_voltage(reg.vreg) <= BatVoltageMaxUv
    BY <2>1 DEF Limits
  <2>3. ~EarlyWrites /\ Limits => Limits'
    BY <1>0, <2>1, <2>2, ReadBack DEF Limits, Ready, Probed
  <2> QED BY <1>c, <1>e, <2>1, <2>3 DEF Ready, Probed
<1>5. CASE probe_get_current
  <2>1. /\ chg'.cfg_current = get_charge_current(reg.ireg) /\ chg'.bat = chg.bat
        /\ chg'.cfg_voltage = chg.cfg_voltage
        /\ reg' = reg /\ cs' = cs /\ phase' = "limits" /\ sp' = sp
        /\ phase = "get_current" /\ faults' = faults
    BY <1>0, <1>5 DEF probe_get_current, ChgType
  <2>2. Limits => reg.ireg >= 2
    BY <2>1 DEF Limits
  <2>3. ~EarlyWrites /\ Limits => Limits'
    BY <1>0, <2>1, <2>2, ReadBack DEF Limits, Ready, Probed
  <2> QED BY <1>c, <1>e, <2>1, <2>3 DEF Ready, Probed
<1>6. CASE probe_apply_zone
  <2>1. /\ cs'.op = "probe" /\ cs'.pc = "apply_zone" /\ reg' = reg /\ chg' = chg
        /\ phase = "limits" /\ phase' = "apply" /\ sp' = sp
    BY <1>6, GotoOp DEF probe_apply_zone
  <2>2. Moded' /\ Bounded'
    BY <2>1, GuardHandedOver
  <2>3. Limits => Limits'
    BY <2>1 DEF Limits, Ready, Probed
  <2> QED BY <2>2, <2>3 DEF GuardStep
<1>7. CASE probe_done \/ shutdown_torch
  <2>1. OtherLimit
    BY <1>7, Zenon DEF probe_done, shutdown_torch, OtherLimit
  <2>2. /\ chg' = chg /\ cs' = cs /\ sp' = sp /\ Ready /\ Probed' /\ Ready'
        /\ phase' \in {"bound", "halting"}
    BY <1>7 DEF probe_done, shutdown_torch, Ready, Probed
  <2>3. faults' = 0 => faults = 0
    BY <1>0, <1>7, FaultsGrow DEF probe_done, shutdown_torch
  <2>4. ZoneSame /\ Elsewhere
    BY <1>0, <1>c, <2>1, <2>2, OtherLimitSame DEF ZoneSame, LimitsSame
  <2> QED BY <2>2, <2>3, <2>4, GuardReady
<1>8. CASE probe_fail \/ reboot
  <2>1. /\ reg' = reg /\ phase' = "unbound"
        /\ cs'.op = "none" /\ cs'.pc = "none"
        /\ \/ sp' = sp /\ phase \in Probing
           \/ sp' = NoWrite
    <3>1. CASE probe_fail
      BY <3>1, FreeElsewhere DEF probe_fail
    <3>2. CASE reboot
      BY <3>2 DEF reboot, Unlocked
    <3> QED BY <1>8, <3>1, <3>2
  <2>2. ~EarlyWrites /\ Limits => Limits'
    BY <2>1 DEF Limits, Ready, Probed, Probing, NoWrite
  <2>3. Moded' /\ Bounded'
    BY <2>1 DEF Moded, Bounded, Ready, Probed
  <2> QED BY <2>2, <2>3 DEF GuardStep
<1>9. CASE shutdown_otg
  <2>1. reg' = reg /\ sp' = sp /\ faults' = faults /\ phase = "halting" /\ cs.op = "none"
    BY <1>9 DEF shutdown_otg
  <2>2. CASE phase' = "halted" /\ chg' = chg /\ cs' = cs
    <3>1. ZoneSame
      BY <2>1, <2>2 DEF ZoneSame, LimitsSame
    <3> QED BY <1>c, <2>1, <2>2, <3>1, GuardReady DEF Ready, Probed
  <2>3. CASE phase' = phase /\ chg' = [chg EXCEPT !.otg_on = FALSE]
             /\ Goto("shutdown", "apply_zone")
    <3>1. LimitsSame
      BY <1>0, <2>1, <2>3 DEF LimitsSame, ChgType
    <3> QED BY <2>1, <2>3, <3>1, GotoOp, GuardHandover
  <2> QED BY <1>9, <2>2, <2>3, Zenon DEF shutdown_otg, otg_off
<1> QED BY <1>1, <1>2, <1>3, <1>4, <1>5, <1>6, <1>7, <1>8, <1>9 DEF lifecycle

\* Cables and Type-C sources leave the guard alone.
LEMMA GuardEnvironment ==
    ASSUME TypeInv, Moded, environment \/ UNCHANGED vars PROVE GuardStep
<1>1. cs' = cs /\ phase' = phase /\ ZoneSame /\ sp' = sp /\ faults' = faults
  BY DEF environment, vbus_change, extcon_change, supply_change, vars, drv,
         ZoneSame, LimitsSame
<1>2. Elsewhere
  BY <1>1 DEF Elsewhere, Moded
<1> QED BY <1>1, <1>2, GuardSame

\* Every step of the driver and its environment keeps the guard.
LEMMA GuardNext ==
    ASSUME TypeInv, Late, Moded, [Next]_vars PROVE GuardStep
<1>1. ASSUME apply_zone PROVE GuardStep
  BY <1>1, GuardVoltage, GuardCurrent, GuardMode DEF apply_zone
<1> QED BY <1>1, GuardHold, GuardCable, GuardTemp, GuardSetProperty, GuardTorch,
           GuardOtg, GuardLifecycle, GuardEnvironment
        DEF Next

\* Only temp_work_read polls the temperature.
LEMMA TempPolled ==
    ASSUME [Next]_vars PROVE tw' = tw \/ tw' = <<>> \/ (Probed /\ phase' = phase)
<1>1. CASE apply_zone \/ apply_zone_unlock \/ muic_hold_5v \/ cable_work
           \/ external_power_changed \/ temp_work_read \/ temp_work
  BY <1>1
  DEF apply_zone, apply_zone_voltage, apply_zone_current, apply_zone_mode,
      apply_zone_unlock, muic_hold_5v, cable_work, cable_work_start,
      cable_work_extcon, typec_limit_read, cable_work_limit, cable_work_lock,
      cable_work_held, cable_work_unlock, external_power_changed, temp_work_read,
      temp_work, drv
<1>2. CASE set_property \/ torch_set \/ otg
  BY <1>2
  DEF set_property, set_property_input_limit, set_property_term,
      set_property_current, set_property_voltage, set_property_write, torch_set,
      torch_set_off, torch_off_release, torch_off_unlock, torch_set_on,
      torch_set_held, torch_set_movie, otg, otg_enable, regulator_already_on,
      otg_enable_done, otg_disable, otg_fail, otg_off_done
<1>3. CASE lifecycle \/ environment \/ UNCHANGED vars
  BY <1>3
  DEF lifecycle, probe_register, probe_voltage, probe_current, probe_get_voltage,
      probe_get_current, probe_apply_zone, probe_done, probe_fail, shutdown_torch,
      shutdown_otg, reboot, environment, vbus_change, extcon_change, supply_change,
      vars
<1> QED BY <1>1, <1>2, <1>3 DEF Next

\* The torch, the OTG supply and shutdown() run only once probe() is done.
LEMMA LateStep ==
    ASSUME TypeInv, Late, [Next]_vars PROVE Late'
<1>0. chg \in ChgType /\ cs \in CsType
  BY DEF TypeInv, TypeOK
<1>w. tw' = tw \/ tw' = <<>> \/ (Probed /\ phase' = phase)
  BY TempPolled
<1>1. ASSUME \/ apply_zone \/ apply_zone_unlock \/ muic_hold_5v
             \/ cable_work_start \/ cable_work_extcon \/ typec_limit_read
             \/ external_power_changed \/ temp_work_read \/ environment
             \/ UNCHANGED vars \/ regulator_already_on \/ cable_work_unlock
      PROVE  Late'
  <2>1. phase' = phase /\ chg' = chg /\ cs'.op \in {cs.op, "none"}
    BY <1>0, <1>1, GotoOp, UnlockedOp
    DEF apply_zone, apply_zone_voltage, apply_zone_current, apply_zone_mode,
        apply_zone_unlock, muic_hold_5v, cable_work_start, cable_work_extcon,
        typec_limit_read, external_power_changed, temp_work_read, environment,
        vbus_change, extcon_change, supply_change, vars, drv, regulator_already_on,
        cable_work_unlock, CsType
  <2> QED BY <1>w, <2>1 DEF Late, LateOps, Probed
<1>2. ASSUME cable_work_limit \/ cable_work_lock \/ cable_work_held
      PROVE  Late'
  <2>1. phase' = phase
    BY <1>2 DEF cable_work_limit, cable_work_lock, cable_work_held
  <2>2. cs'.op \in {cs.op, "cable_work"} /\ (chg'.torch_on => chg.torch_on)
    <3>1. CASE cable_work_limit
      BY <1>0, <3>1 DEF cable_work_limit, ChgType
    <3>2. CASE cable_work_lock
      <4> DEFINE c == [chg EXCEPT !.usb_c = Decision.usb_c]
      <4>1. c.torch_on = chg.torch_on
        BY <1>0 DEF ChgType
      <4>2. /\ hold_5v("cable_work", c, Decision.usb_c \/ chg.torch_on)
            /\ c \in ChgType
        <5>1. Decision.usb_c \in BOOLEAN
          BY CableType DEF Decision, TypeInv, TypeOK, CwType
        <5> QED BY <1>0, <3>2, <5>1, ChgWrite DEF cable_work_lock
      <4>3. chg' = c \/ chg' = [c EXCEPT !.hold_5v = Decision.usb_c \/ chg.torch_on]
        BY <4>2, Zenon DEF hold_5v
      <4>4. chg'.torch_on = c.torch_on
        BY <4>2, <4>3 DEF ChgType
      <4> QED BY <4>1, <4>2, <4>4, HoldOp
    <3>3. CASE cable_work_held
      BY <1>0, <3>3, GotoOp DEF cable_work_held, ChgType
    <3> QED BY <1>2, <3>1, <3>2, <3>3
  <2> QED BY <1>w, <2>1, <2>2 DEF Late, LateOps, Probed
<1>3. ASSUME temp_work \/ set_property PROVE Late'
  <2>1. phase' = phase
    BY <1>3
    DEF temp_work, set_property, set_property_input_limit, set_property_term,
        set_property_current, set_property_voltage, set_property_write
  <2>2. cs'.op \in {cs.op, "none", "temp_work", "set_property"}
    BY <1>3, GotoOp, UnlockedOp
    DEF temp_work, set_property, set_property_input_limit, set_property_term,
        set_property_current, set_property_voltage, set_property_write
  <2>3. \/ chg' = chg
        \/ \E v : \/ chg' = [chg EXCEPT !.zone = v]
                 \/ chg' = [chg EXCEPT !.cfg_current = v]
                 \/ chg' = [chg EXCEPT !.cfg_voltage = v]
    BY <1>3, Zenon
    DEF temp_work, set_property, set_property_input_limit, set_property_term,
        set_property_current, set_property_voltage, set_property_write
  <2>4. chg'.torch_on = chg.torch_on
    BY <1>0, <2>3 DEF ChgType
  <2> QED BY <1>w, <2>1, <2>2, <2>4 DEF Late, LateOps, Probed
<1>4. ASSUME torch_set \/ otg_enable \/ otg_disable \/ otg_fail
             \/ otg_enable_done \/ otg_off_done
      PROVE  Late'
  <2>1. Probed /\ Probed'
    BY <1>4
    DEF torch_set, torch_set_off, torch_off_release, torch_off_unlock,
        torch_set_on, torch_set_held, torch_set_movie, otg_enable, otg_disable,
        otg_fail, otg_enable_done, otg_off_done, At, Late, LateOps, Probed
  <2> QED BY <2>1 DEF Late
<1>5. CASE lifecycle
  <2>1. CASE Probed'
    BY <2>1 DEF Late
  <2>2. ASSUME probe_register \/ probe_fail \/ reboot PROVE Late'
    <3>1. CASE probe_register
      <4>1. chg'.torch_on = FALSE /\ cs' = cs /\ ~Probed
        BY <3>1 DEF probe_register, ZeroChg, Probed
      <4> QED BY <1>w, <4>1 DEF Late
    <3>2. CASE probe_fail
      BY <1>w, <3>2 DEF probe_fail, ZeroChg, Late, LateOps, Probed, Probing
    <3>3. CASE reboot
      BY <3>3, UnlockedOp DEF reboot, ZeroChg, Late, LateOps
    <3> QED BY <2>2, <3>1, <3>2, <3>3
  <2>3. ASSUME \/ probe_voltage \/ probe_current \/ probe_get_voltage
               \/ probe_get_current \/ probe_apply_zone
        PROVE  Late'
    <3>1. ~Probed /\ cs'.op \in {cs.op, "probe"} /\ chg'.torch_on = chg.torch_on
      BY <1>0, <2>3, GotoOp
      DEF probe_voltage, probe_current, probe_get_voltage, probe_get_current,
          probe_apply_zone, Probed, ChgType
    <3> QED BY <1>w, <3>1 DEF Late, LateOps
  <2>4. ASSUME probe_done \/ shutdown_torch \/ shutdown_otg PROVE Probed'
    BY <2>4 DEF probe_done, shutdown_torch, shutdown_otg, otg_off, Probed
  <2> QED BY <1>5, <2>1, <2>2, <2>3, <2>4 DEF lifecycle
<1> QED BY <1>1, <1>2, <1>3, <1>4, <1>5 DEF Next, cable_work, otg

\* What the guard rests on, as an inductive invariant.
GuardInv == TypeInv /\ Late /\ Moded

\* The hardware as the bootloader leaves it keeps the guard.
LEMMA GuardInit == Init => GuardInv /\ Limits /\ Bounded
<1> SUFFICES ASSUME Init PROVE Late /\ Moded /\ Limits /\ Bounded
  BY TypeInit DEF GuardInv
<1>1. /\ phase = "unbound" /\ chg = ZeroChg /\ reg.mode = MODE_CHG_ON
      /\ cs = Unlocked /\ sp = NoWrite /\ tw = <<>>
  BY DEF Init
<1> QED BY <1>1
        DEF Late, LateOps, Moded, Limits, Bounded, ZeroChg, Unlocked, NoWrite, Ready,
            Probed, MODE_CHG_ON, SwitchedModes

\* Its mode part holds whatever is written while probe() runs,
THEOREM GuardInvariant == Spec => []GuardInv
<1>1. GuardInv /\ [Next]_vars => GuardInv'
  BY TypeStep, LateStep, GuardNext DEF GuardInv, GuardStep
<1> QED BY <1>1, GuardInit, PTL DEF Spec

\* ... and its limits if nothing is.
LEMMA LimitsInvariant ==
    ASSUME ~EarlyWrites PROVE Spec => [](GuardInv /\ Limits /\ Bounded)
<1>1. GuardInv /\ Limits /\ Bounded /\ [Next]_vars
         => (GuardInv /\ Limits /\ Bounded)'
  BY TypeStep, LateStep, GuardNext DEF GuardInv, GuardStep
<1> QED BY <1>1, GuardInit, PTL DEF Spec

\* While no transfer has failed, the registers obey the temperature guard and
\* the battery's maximum voltage whenever chg->lock is free: for every battery,
\* temperature, cable, user input and crash, if sysfs is not written before
\* probe() has finished.
THEOREM GuardHoldsAlways ==
    ASSUME ~EarlyWrites PROVE Spec => [](faults = 0 => GuardHolds)
<1>1. GuardInv /\ Limits /\ Bounded => (faults = 0 => GuardHolds)
  <2> SUFFICES ASSUME GuardInv, Limits, Bounded, faults = 0, AtRest PROVE GuardHolds
    BY DEF GuardHolds
  <2>1. Ready /\ Probed /\ cs.pc = "none" /\ cs.pc \notin Applying
    BY FreeElsewhere DEF AtRest, Ready, GuardInv
  <2> QED BY <2>1 DEF GuardHolds, GuardInv, Moded, Limits, Bounded, Applying, Probed
<1> QED BY <1>1, LimitsInvariant, PTL

\* A step makes at most one transfer that counts.
LEMMA OneTransfer ==
    ASSUME [Next]_vars PROVE faults' = faults \/ \E ok \in BOOLEAN : Transfer(ok)
<1>1. ASSUME apply_zone \/ apply_zone_unlock \/ muic_hold_5v
      PROVE  faults' = faults \/ \E ok \in BOOLEAN : Transfer(ok)
  <2>1. CASE apply_zone_mode
    <3>1. PICK ok \in BOOLEAN, vbus \in BOOLEAN : Transfer(ok /\ vbus)
      BY <2>1, Zenon DEF apply_zone_mode
    <3>2. (ok /\ vbus) \in BOOLEAN
      OBVIOUS
    <3> QED BY <3>1, <3>2
  <2>2. CASE \/ apply_zone_voltage \/ apply_zone_current \/ apply_zone_unlock
             \/ muic_hold_5v
    BY <2>2 DEF apply_zone_voltage, apply_zone_current, apply_zone_unlock,
                muic_hold_5v
  <2> QED BY <1>1, <2>1, <2>2 DEF apply_zone
<1>2. ASSUME cable_work \/ external_power_changed \/ temp_work_read \/ temp_work
      PROVE  faults' = faults \/ \E ok \in BOOLEAN : Transfer(ok)
  BY <1>2
  DEF cable_work, cable_work_start, cable_work_extcon, typec_limit_read,
      cable_work_limit, cable_work_lock, cable_work_held, cable_work_unlock,
      external_power_changed, temp_work_read, temp_work
<1>3. ASSUME set_property \/ torch_set \/ otg
      PROVE  faults' = faults \/ \E ok \in BOOLEAN : Transfer(ok)
  BY <1>3
  DEF set_property, set_property_input_limit, set_property_term,
      set_property_current, set_property_voltage, set_property_write, torch_set,
      torch_set_off, torch_off_release, torch_off_unlock, torch_set_on,
      torch_set_held, torch_set_movie, otg, otg_enable, regulator_already_on,
      otg_enable_done, otg_disable, otg_fail, otg_off_done
<1>4. ASSUME lifecycle \/ environment \/ UNCHANGED vars
      PROVE  faults' = faults \/ \E ok \in BOOLEAN : Transfer(ok)
  BY <1>4
  DEF lifecycle, probe_register, probe_voltage, probe_current, probe_get_voltage,
      probe_get_current, probe_apply_zone, probe_done, probe_fail, shutdown_torch,
      shutdown_otg, reboot, environment, vbus_change, extcon_change, supply_change,
      vars
<1> QED BY <1>1, <1>2, <1>3, <1>4 DEF Next

\* Only apply_zone() writes the operation mode.
LEMMA ModeWriter ==
    ASSUME TypeInv, [Next]_vars PROVE reg'.mode = reg.mode \/ apply_zone_mode
<1>0. reg \in RegType
  BY DEF TypeInv, TypeOK
<1>r. ASSUME \E v : \/ reg' = [reg EXCEPT !.vreg = v] \/ reg' = [reg EXCEPT !.ireg = v]
      PROVE  reg'.mode = reg.mode
  BY <1>0, <1>r DEF RegType
<1>1. ASSUME apply_zone \/ apply_zone_unlock \/ muic_hold_5v
      PROVE  reg'.mode = reg.mode \/ apply_zone_mode
  BY <1>1, <1>r, Zenon
  DEF apply_zone, apply_zone_voltage, apply_zone_current, apply_zone_unlock,
      muic_hold_5v
<1>2. ASSUME cable_work \/ external_power_changed \/ temp_work_read \/ temp_work
      PROVE  OtherLimit
  BY <1>2, Zenon
  DEF cable_work, cable_work_start, cable_work_extcon, typec_limit_read,
      cable_work_limit, cable_work_lock, cable_work_held, cable_work_unlock,
      external_power_changed, temp_work_read, temp_work, drv, OtherLimit
<1>3. ASSUME set_property PROVE reg'.mode = reg.mode
  <2>1. CASE set_property_write
    BY <1>r, <2>1, Zenon DEF set_property_write
  <2>2. CASE ~set_property_write
    <3>1. OtherLimit
      BY <1>3, <2>2, Zenon
      DEF set_property, set_property_input_limit, set_property_term,
          set_property_current, set_property_voltage, OtherLimit
    <3> QED BY <1>0, <3>1, OtherLimitSame
  <2> QED BY <2>1, <2>2
<1>4. ASSUME torch_set \/ otg PROVE OtherLimit
  BY <1>4, Zenon
  DEF torch_set, torch_set_off, torch_off_release, torch_off_unlock, torch_set_on,
      torch_set_held, torch_set_movie, otg, otg_enable, regulator_already_on,
      otg_enable_done, otg_disable, otg_fail, otg_off_done, drv, OtherLimit
<1>5. ASSUME lifecycle PROVE reg'.mode = reg.mode
  <2>1. CASE probe_voltage \/ probe_current
    BY <1>0, <2>1 DEF probe_voltage, probe_current, RegType
  <2>2. CASE ~(probe_voltage \/ probe_current)
    <3>1. OtherLimit
      BY <1>5, <2>2, Zenon
      DEF lifecycle, probe_register, probe_get_voltage, probe_get_current,
          probe_apply_zone, probe_done, probe_fail, shutdown_torch, shutdown_otg,
          reboot, OtherLimit
    <3> QED BY <1>0, <3>1, OtherLimitSame
  <2> QED BY <2>1, <2>2
<1>6. ASSUME environment \/ UNCHANGED vars PROVE reg' = reg
  BY <1>6 DEF environment, vbus_change, extcon_change, supply_change, vars, drv
<1> QED BY <1>0, <1>1, <1>2, <1>3, <1>4, <1>5, <1>6, OtherLimitSame DEF Next

\* shutdown() returns in one of two steps.
LEMMA Halts ==
    ASSUME [Next]_vars, phase # "halted", phase' = "halted"
    PROVE  shutdown_otg \/ (otg_off_done /\ cs.op = "shutdown")
<1>1. ~(apply_zone \/ apply_zone_unlock \/ muic_hold_5v)
  BY DEF apply_zone, apply_zone_voltage, apply_zone_current, apply_zone_mode,
         apply_zone_unlock, muic_hold_5v
<1>2. ~(cable_work \/ external_power_changed \/ temp_work_read \/ temp_work)
  BY DEF cable_work, cable_work_start, cable_work_extcon, typec_limit_read,
         cable_work_limit, cable_work_lock, cable_work_held, cable_work_unlock,
         external_power_changed, temp_work_read, temp_work, drv
<1>3. ~(set_property \/ torch_set)
  BY DEF set_property, set_property_input_limit, set_property_term,
         set_property_current, set_property_voltage, set_property_write, torch_set,
         torch_set_off, torch_off_release, torch_off_unlock, torch_set_on,
         torch_set_held, torch_set_movie
<1>4. otg => otg_off_done /\ cs.op = "shutdown"
  BY DEF otg, otg_enable, regulator_already_on, otg_enable_done, otg_disable,
         otg_fail, otg_off_done, drv
<1>5. lifecycle => shutdown_otg
  BY DEF lifecycle, probe_register, probe_voltage, probe_current, probe_get_voltage,
         probe_get_current, probe_apply_zone, probe_done, probe_fail, shutdown_torch,
         reboot
<1>6. ~(environment \/ UNCHANGED vars)
  BY DEF environment, vbus_change, extcon_change, supply_change, vars, drv
<1> QED BY <1>1, <1>2, <1>3, <1>4, <1>5, <1>6 DEF Next

\* On a bus that never fails, nothing does.
LEMMA NoFaults ==
    ASSUME MaxFaults = 0 PROVE Spec => [](faults = 0)
<1>1. Init => faults = 0
  BY DEF Init
<1>2. faults = 0 /\ [Next]_vars => (faults = 0)'
  <2> SUFFICES ASSUME faults = 0, [Next]_vars PROVE faults' = 0
    OBVIOUS
  <2>1. \A ok \in BOOLEAN : Transfer(ok) => faults' = 0
    BY DEF Transfer
  <2>2. faults' = faults \/ \E ok \in BOOLEAN : Transfer(ok)
    BY OneTransfer
  <2> QED BY <2>1, <2>2
<1> QED BY <1>1, <1>2, PTL DEF Spec

\* On a working bus, charging is switched on only once the zone's limits are in
\* the registers, for every battery, temperature and charge rate.
THEOREM LimitsComeFirst ==
    ASSUME MaxFaults = 0, ~EarlyWrites PROVE Spec => LimitsBeforeCharging
<1> DEFINE First ==
        Probed /\ reg.mode # MODE_CHG_ON /\ reg'.mode = MODE_CHG_ON =>
          /\ get_charge_voltage(reg.vreg) <= zone_voltage(chg.zone, chg.cfg_voltage)
          /\ get_charge_current(reg.ireg)
               <= zone_current(chg.zone, chg.cfg_current, chg.fast)
<1>1. ASSUME GuardInv, Bounded, faults = 0, [Next]_vars PROVE [First]_reg
  <2>1. reg'.mode = reg.mode \/ apply_zone_mode
    BY <1>1, ModeWriter DEF GuardInv
  <2>2. CASE apply_zone_mode
    BY <1>1, <2>2 DEF apply_zone_mode, Bounded, Ready
  <2> QED BY <2>1, <2>2
<1> QED BY <1>1, LimitsInvariant, NoFaults, PTL DEF Spec, LimitsBeforeCharging

\* The mode becomes OTG only inside enable().
LEMMA BoostStarts ==
    ASSUME TypeInv, OtgInv, [Next]_vars, reg'.mode = MODE_USB_OTG, reg.mode # MODE_USB_OTG
    PROVE  cs.op = "otg_enable"
<1>1. apply_zone_mode
  BY ModeWriter
<1>2. PICK v : reg' = [reg EXCEPT !.mode = zone_mode(chg.zone, chg.torch_on, chg.otg_on, v)]
  BY <1>1 DEF apply_zone_mode
<1>3. reg'.mode = zone_mode(chg.zone, chg.torch_on, chg.otg_on, v)
  BY <1>2 DEF TypeInv, TypeOK, RegType
<1>4. chg.otg_on
  BY <1>3 DEF zone_mode, MODE_USB_OTG, MODE_FLASH_BOOST, MODE_CHG_ON, MODE_CHG_OFF
<1> QED BY <1>4 DEF OtgInv

\* On a working bus, the boost is off VBUS when shutdown() returns, and only an
\* enable() called after that puts it back before the reset.
THEOREM ShutdownEndsOtgAlways ==
    ASSUME MaxFaults = 0 PROVE Spec => ShutdownEndsOtg
<1> DEFINE Ends ==
        phase' = "halted" /\ reg'.mode = MODE_USB_OTG =>
          phase = "halted" /\ (reg.mode = MODE_USB_OTG \/ cs.op = "otg_enable")
<1>1. ASSUME GuardInv, OtgInv, faults = 0, [Next]_vars PROVE [Ends]_<<phase, reg>>
  <2> SUFFICES ASSUME phase' = "halted", reg'.mode = MODE_USB_OTG
               PROVE  phase = "halted" /\ (reg.mode = MODE_USB_OTG \/ cs.op = "otg_enable")
    OBVIOUS
  <2>1. reg.mode = MODE_USB_OTG \/ cs.op = "otg_enable"
    BY <1>1, BoostStarts DEF GuardInv
  <2>2. ASSUME phase # "halted" PROVE FALSE
    <3>1. shutdown_otg \/ (otg_off_done /\ cs.op = "shutdown")
      BY <1>1, <2>2, Halts
    <3>2. CASE shutdown_otg
      <4>1. cs.op = "none" /\ ~chg.otg_on /\ reg' = reg /\ Ready
        BY <2>2, <3>2 DEF shutdown_otg, otg_off, Ready, Probed
      <4>2. cs.pc \notin Applying
        BY <1>1, <4>1, FreeElsewhere DEF GuardInv
      <4> QED BY <1>1, <4>1, <4>2 DEF GuardInv, Moded
    <3>3. CASE otg_off_done /\ cs.op = "shutdown"
      <4>1. cs.pc = "applied" /\ cs.ok
        BY <1>1, <3>3 DEF otg_off_done, GuardInv, Moded
      <4>2. reg.mode # MODE_USB_OTG
        BY <1>1, <3>3, <4>1 DEF OtgInv
      <4>3. reg'.mode = reg.mode
        BY <1>1, <3>3 DEF otg_off_done, GuardInv, TypeInv, TypeOK, RegType
      <4> QED BY <4>2, <4>3
    <3> QED BY <3>1, <3>2, <3>3
  <2> QED BY <2>1, <2>2
<1> QED BY <1>1, GuardInvariant, OtgInvariant, NoFaults, PTL DEF Spec, ShutdownEndsOtg

\* While no transfer has failed, a probed charger is in OTG mode between handlers
\* only for an OTG supply that is on, after a crash at any step too.
THEOREM OtgModeOwnedAlways == Spec => [](faults = 0 => OtgModeOwned)
<1>1. GuardInv => (faults = 0 => OtgModeOwned)
  <2> SUFFICES ASSUME GuardInv, faults = 0, AtRest PROVE reg.mode = MODE_USB_OTG => chg.otg_on
    BY DEF OtgModeOwned
  <2>1. Ready /\ cs.pc \notin Applying
    BY FreeElsewhere DEF AtRest, Ready, GuardInv
  <2> QED BY <2>1 DEF GuardInv, Moded
<1> QED BY <1>1, GuardInvariant, PTL

-----------------------------------------------------------------------------
(* What cable_work applies *)

\* Only USB PD takes VBUS above 5 V, as s2mm005_psy_get_property() reports it.
PdOnly == \A s \in Supplies : s.online /\ s.uv > HV_MIN_UV => s.pd

\* The cables are those cable_work will be told of; so is the Type-C supply.
Known == Probed /\ ~pend
Told  == Known /\ ~notify

\* Where apply_zone() is or has been, and who asks for the 5 V hold.
Applied == Applying \union {"applied"}
HoldOps == {"cable_work", "torch_on", "torch_off"}

\* cable_work holds the lock where it should; probe() starts from nothing.
Locks ==
    /\ cs.op = "cable_work" <=> cw.pc = "locked"
    /\ phase = "unbound" => cs.op = "none" /\ cw.pc = "idle"
    /\ cs.pc = "muic" => cs.op \in HoldOps
    /\ supply \in Supplies

\* What cable_work has read is there still, unless it is queued again.
Read ==
    /\ cw.pc \in {"idle", "FAST", "DCP", "CDP", "SDP"} => cw.bc = "NONE"
    /\ Known =>
         /\ cw.pc \in {"DCP", "CDP", "SDP"} => "FAST" \notin extcon
         /\ cw.pc \in {"CDP", "SDP"} => "DCP" \notin extcon
         /\ cw.pc = "SDP" => "CDP" \notin extcon
         /\ cw.pc \notin {"idle", "FAST", "DCP", "CDP", "SDP"}
               => cw.bc = first_cable(extcon)
    /\ cw.pc \in {"voltage", "current", "type"} => cw.s.online
    /\ Told =>
         /\ cw.pc \in {"voltage", "current", "type"} => supply.online
         /\ cw.pc \in {"current", "type"} => cw.s.uv = supply.uv
         /\ cw.pc = "type" => cw.s.ua = supply.ua
         /\ cw.pc \in {"limit", "lock", "locked"} =>
              /\ cw.s.online = supply.online
              /\ supply.online => /\ cw.s.uv = supply.uv /\ cw.s.ua = supply.ua
                                  /\ cw.s.pd = supply.pd
    /\ cw.pc \in {"idle", "FAST", "DCP", "CDP", "SDP", "online"} => ~cw.s.online

\* The cable is known and so is the supply: what cable_work decides for them.
Cable == cable_limit(first_cable(extcon), supply)

\* Type and limit are those of d.
Limited(d) ==
    /\ chg.usb_type = d.type
    /\ input_limit_ok(d.limit) => reg.limit = input_limit_code(d.limit)

\* What cable_work decides is what struct sm5705_chg holds, and what it last
\* decided is right still, unless it is queued.
Decided ==
    /\ faults = 0 /\ cw.pc \in {"lock", "locked"} => Limited(Decision)
    /\ cw.pc = "locked" => chg.usb_c = Decision.usb_c
    /\ cw.pc = "locked" /\ cs.pc \in Applied =>
          chg.fast = Decision.fast /\ chg.hv = Decision.hv
    /\ faults = 0 /\ Told /\ cw.pc = "idle" =>
          /\ Limited(Cable) /\ chg.fast = Cable.fast /\ chg.usb_c = Cable.usb_c
          /\ chg.hv => Cable.hv

\* 5 V is held for a USB-C source and for the torch, outside the handlers that
\* are about to change one of them.
HoldKept ==
    /\ chg.hold_5v /\ cs.pc # "muic" => "FAST" \notin extcon
    /\ cs.op = "cable_work" /\ cs.pc \in {"muic", "held"} =>
          chg.hold_5v = (chg.usb_c \/ chg.torch_on)
    /\ cs.op = "torch_on" => chg.hold_5v
    /\ cs.op = "torch_on" /\ cs.pc \in Applied => chg.torch_on
    /\ cs.op = "torch_off" => ~chg.torch_on
    /\ cs.op = "torch_off" /\ cs.pc \in {"muic", "held"} => chg.hold_5v = chg.usb_c
    /\ faults = 0 /\ Told
         /\ \/ cw.pc = "idle" /\ cs.op \notin {"torch_on", "torch_off"}
            \/ cw.pc = "locked" /\ cs.pc \in Applied
         => chg.hold_5v = (chg.usb_c \/ chg.torch_on)

CableInv == Locks /\ Read /\ Decided /\ HoldKept

\* The cable's fields of struct sm5705_chg, with the input limit's register.
FieldsSame == /\ chg'.usb_type = chg.usb_type /\ chg'.fast = chg.fast
              /\ chg'.hv = chg.hv /\ chg'.usb_c = chg.usb_c
              /\ chg'.hold_5v = chg.hold_5v /\ chg'.torch_on = chg.torch_on
              /\ reg'.limit = reg.limit
\* What cable_work and those who ask for it work on.
WorkSame == cw' = cw /\ pend' = pend /\ notify' = notify
CablesSame == extcon' = extcon /\ supply' = supply

\* Others hold the lock, or apply_zone() goes on.
LockSame == \/ cs' = cs
            \/ /\ cs.op \notin HoldOps /\ cs'.op \notin HoldOps
               /\ cs'.pc # "muic" /\ phase' # "unbound"
            \/ cs'.op = cs.op /\ cs.pc \in Applied /\ cs'.pc \in Applied

\* probe() and shutdown() go on.
PhaseSame == phase' = phase \/ (phase' # "unbound" /\ (Probed' => Probed))

\* first_cable() is the one with the least rank.
LEMMA FirstCable ==
    ASSUME NEW e \in SUBSET {"FAST", "DCP", "CDP", "SDP"}
    PROVE  first_cable(e) = IF "FAST" \in e THEN "FAST" ELSE IF "DCP" \in e THEN "DCP"
                            ELSE IF "CDP" \in e THEN "CDP"
                            ELSE IF "SDP" \in e THEN "SDP" ELSE "NONE"
<1> DEFINE all == {"FAST", "DCP", "CDP", "SDP", "NONE"}
           P(c) == /\ c = "NONE" \/ c \in e
                   /\ \A k \in e : bc12_rank[c] <= bc12_rank[k]
           f == IF "FAST" \in e THEN "FAST" ELSE IF "DCP" \in e THEN "DCP"
                ELSE IF "CDP" \in e THEN "CDP" ELSE IF "SDP" \in e THEN "SDP" ELSE "NONE"
<1>r. /\ bc12_rank["FAST"] = 1 /\ bc12_rank["DCP"] = 2 /\ bc12_rank["CDP"] = 3
      /\ bc12_rank["SDP"] = 4 /\ bc12_rank["NONE"] = 5
  BY DEF bc12_rank
<1>1. f \in all /\ P(f)
  BY <1>r
<1>2. \A c \in all : P(c) => c = f
  BY <1>r
<1>3. (CHOOSE c \in all : P(c)) = f
  <2> HIDE DEF P, f, all
  <2> QED BY <1>1, <1>2
<1> QED BY <1>3 DEF first_cable

\* An offline supply is like any other.
LEMMA SameCable ==
    ASSUME NEW bc, NEW s, NEW t, s.online = t.online,
           t.online => s.uv = t.uv /\ s.ua = t.ua /\ s.pd = t.pd
    PROVE  cable_limit(bc, s) = cable_limit(bc, t)
<1>1. typec_limit(s) = typec_limit(t)
  BY DEF typec_limit
<1> QED BY <1>1 DEF cable_limit

\* A cable without 9 V from the MUIC is above 5 V only if USB PD is.
LEMMA HvIsUsbC ==
    ASSUME NEW bc \in {"FAST", "DCP", "CDP", "SDP", "NONE"}, bc # "FAST",
           NEW s, s.online /\ s.uv > HV_MIN_UV => s.pd, cable_limit(bc, s).hv
    PROVE  cable_limit(bc, s).usb_c
<1>1. typec_limit(s).hv => typec_limit(s).usb_c
  BY DEF typec_limit
<1>2. cable_limit(bc, s).usb_c = typec_limit(s).usb_c
  BY DEF cable_limit
<1>3. cable_limit(bc, s).hv => typec_limit(s).hv
  BY DEF cable_limit
<1> QED BY <1>1, <1>2, <1>3

\* Steps that have nothing to do with cables,
LEMMA CableKept ==
    ASSUME CableInv, FieldsSame, WorkSame, CablesSame, LockSame, PhaseSame,
           faults' = 0 => faults = 0
    PROVE  CableInv'
<1>t. Told' => Told
  BY DEF Told, Known, WorkSame, PhaseSame, Probed
<1>k. Known' => Known
  BY DEF Known, WorkSame, PhaseSame, Probed
<1>1. Locks'
  BY DEF CableInv, Locks, LockSame, WorkSame, CablesSame, PhaseSame, HoldOps, Applied,
         Applying
<1>2. Read'
  BY <1>t, <1>k DEF CableInv, Read, WorkSame, CablesSame
<1>3. Decision' = Decision /\ Cable' = Cable
  BY DEF Decision, Cable, WorkSame, CablesSame
<1>4. \A d : Limited(d) => Limited(d)'
  BY DEF Limited, FieldsSame
<1>5. Decided'
  <2>1. faults' = 0 /\ cw'.pc \in {"lock", "locked"} => Limited(Decision)'
    BY <1>3 DEF CableInv, Decided, WorkSame, Limited, FieldsSame
  <2>2. /\ cw'.pc = "locked" => chg'.usb_c = Decision'.usb_c
        /\ cw'.pc = "locked" /\ cs'.pc \in Applied =>
              chg'.fast = Decision'.fast /\ chg'.hv = Decision'.hv
    BY <1>3 DEF CableInv, Decided, Locks, LockSame, WorkSame, FieldsSame, HoldOps
  <2>3. faults' = 0 /\ Told' /\ cw'.pc = "idle" =>
          /\ Limited(Cable)' /\ chg'.fast = Cable'.fast /\ chg'.usb_c = Cable'.usb_c
          /\ chg'.hv => Cable'.hv
    BY <1>3, <1>t DEF CableInv, Decided, WorkSame, Limited, FieldsSame
  <2> QED BY <2>1, <2>2, <2>3 DEF Decided
<1>6. HoldKept'
  BY <1>t DEF CableInv, HoldKept, Locks, LockSame, WorkSame, CablesSame, FieldsSame,
              HoldOps, Applied, Applying
<1> QED BY <1>1, <1>2, <1>5, <1>6 DEF CableInv

\* ... and steps that start from nothing.
LEMMA CableReset ==
    ASSUME ~Probed', cs'.op = "none", cs'.pc # "muic", cw'.pc = "idle", cw'.bc = "NONE",
           ~cw'.s.online, ~chg'.hold_5v, supply' \in Supplies
    PROVE  CableInv'
<1>1. ~Told' /\ ~Known'
  BY DEF Told, Known
<1> QED BY <1>1 DEF CableInv, Locks, Read, Decided, HoldKept, HoldOps

\* A write to a register that is not the input limit's.
NotLimit ==
    \/ reg' = reg
    \/ \E v : \/ reg' = [reg EXCEPT !.vreg = v]   \/ reg' = [reg EXCEPT !.ireg = v]
             \/ reg' = [reg EXCEPT !.mode = v]   \/ reg' = [reg EXCEPT !.term = v]
             \/ reg' = [reg EXCEPT !.bstout = v] \/ reg' = [reg EXCEPT !.movie = v]

\* A write to a field of struct sm5705_chg that is not the cable's.
NotCable ==
    \/ chg' = chg
    \/ \E v : \/ chg' = [chg EXCEPT !.zone = v] \/ chg' = [chg EXCEPT !.otg_on = v]
             \/ chg' = [chg EXCEPT !.bat = v]
             \/ chg' = [chg EXCEPT !.cfg_voltage = v]
             \/ chg' = [chg EXCEPT !.cfg_current = v]

\* ... leave the cable's fields alone.
LEMMA OtherFieldsSame ==
    ASSUME reg \in RegType, chg \in ChgType, NotLimit, NotCable
    PROVE  FieldsSame
<1>1. reg'.limit = reg.limit
  BY DEF NotLimit, RegType
<1>2. /\ chg'.usb_type = chg.usb_type /\ chg'.fast = chg.fast
      /\ chg'.hv = chg.hv /\ chg'.usb_c = chg.usb_c
      /\ chg'.hold_5v = chg.hold_5v /\ chg'.torch_on = chg.torch_on
  BY DEF NotCable, ChgType
<1> QED BY <1>1, <1>2 DEF FieldsSame

\* apply_zone() leaves the cable's fields alone.
LEMMA CableApplyZone ==
    ASSUME TypeInv, CableInv, apply_zone PROVE CableInv'
<1>0. reg \in RegType /\ chg \in ChgType /\ cs \in CsType /\ faults \in Nat
  BY DEF TypeInv, TypeOK
<1>1. NotLimit /\ NotCable
  BY Zenon DEF apply_zone, apply_zone_voltage, apply_zone_current, apply_zone_mode,
               NotLimit, NotCable
<1>2. WorkSame /\ CablesSame /\ phase' = phase /\ cs'.op = cs.op
      /\ cs.pc \in Applied /\ cs'.pc \in Applied
  BY <1>0, GotoOp DEF apply_zone, apply_zone_voltage, apply_zone_current,
                      apply_zone_mode, env, WorkSame, CablesSame, Applied, Applying, CsType
<1>3. faults' = 0 => faults = 0
  BY <1>0, FaultsGrow, OneTransfer DEF Next
<1> QED BY <1>0, <1>1, <1>2, <1>3, OtherFieldsSame, CableKept DEF LockSame, PhaseSame

\* Giving the lock back, or waiting for the MUIC, which withdraws 9 V.
LEMMA CableHold ==
    ASSUME TypeInv, CableInv, apply_zone_unlock \/ muic_hold_5v PROVE CableInv'
<1>0. cs \in CsType /\ extcon \in SUBSET {"FAST", "DCP", "CDP", "SDP"}
  BY DEF TypeInv, TypeOK
<1>1. CASE apply_zone_unlock
  <2>0. /\ phase' = phase /\ FieldsSame /\ WorkSame /\ CablesSame /\ faults' = faults
        /\ cs.pc = "applied" /\ cs'.op = "none" /\ cs'.pc = "none"
        /\ cs.op \in {"set_property", "temp_work", "torch_on", "probe"}
    BY <1>1 DEF apply_zone_unlock, env, FieldsSame, WorkSame, CablesSame, Unlocked
  <2>1. CASE cs.op # "torch_on"
    <3>1. LockSame
      BY <2>0, <2>1 DEF LockSame, HoldOps, CableInv, Locks
    <3> QED BY <2>0, <3>1, CableKept DEF PhaseSame
  \* The torch is on, so 5 V is held.
  <2>2. CASE cs.op = "torch_on"
    <3>1. chg.hold_5v /\ chg.torch_on /\ "FAST" \notin extcon
      BY <2>0, <2>2 DEF CableInv, HoldKept, Applied, Applying
    <3>2. cw.pc # "locked"
      BY <2>2 DEF CableInv, Locks
    <3>3. Locks'
      BY <2>0, <2>2 DEF CableInv, Locks, WorkSame, CablesSame
    <3>4. Read'
      BY <2>0 DEF CableInv, Read, WorkSame, CablesSame, Told, Known, Probed
    <3>5. Decided'
      <4>1. Decision' = Decision /\ Cable' = Cable
        BY <2>0 DEF Decision, Cable, WorkSame, CablesSame
      <4>2. Limited(Decision)' = Limited(Decision) /\ Limited(Cable)' = Limited(Cable)
        BY <2>0, <4>1 DEF Limited, FieldsSame
      <4> QED BY <2>0, <3>2, <4>1, <4>2
              DEF CableInv, Decided, WorkSame, FieldsSame, Told, Known, Probed
    <3>6. HoldKept'
      BY <2>0, <3>1, <3>2 DEF HoldKept, FieldsSame, WorkSame, CablesSame
    <3> QED BY <3>3, <3>4, <3>5, <3>6 DEF CableInv
  <2> QED BY <2>1, <2>2
<1>2. CASE muic_hold_5v
  <2>0. /\ cs.pc = "muic" /\ cs'.op = cs.op /\ cs'.pc = "held"
        /\ chg' = chg /\ reg' = reg /\ cw' = cw /\ notify' = notify /\ phase' = phase
        /\ supply' = supply /\ faults' = faults
        /\ chg.hold_5v => "FAST" \notin extcon'
        /\ extcon' = extcon \/ pend' = TRUE
        /\ pend => pend'
        /\ cs.op \in HoldOps
    BY <1>0, <1>2 DEF muic_hold_5v, CsType, CableInv, Locks
  <2>t. /\ Known' => Known /\ extcon' = extcon
        /\ Told' => Told /\ extcon' = extcon
    BY <2>0 DEF Told, Known, Probed
  <2>1. Locks'
    BY <2>0 DEF CableInv, Locks
  <2>2. Read'
    BY <2>0, <2>t DEF CableInv, Read
  <2>3. Decided'
    <3>1. Decision' = Decision /\ (extcon' = extcon => Cable' = Cable)
      BY <2>0 DEF Decision, Cable
    <3>2. /\ Limited(Decision)' = Limited(Decision)
          /\ extcon' = extcon => Limited(Cable)' = Limited(Cable)
      BY <2>0, <3>1 DEF Limited
    <3> QED BY <2>0, <2>t, <3>1, <3>2 DEF CableInv, Decided, Applied, Applying
  <2>4. HoldKept'
    BY <2>0, <2>t DEF CableInv, HoldKept, HoldOps, Locks, Applied, Applying
  <2> QED BY <2>1, <2>2, <2>3, <2>4 DEF CableInv
<1> QED BY <1>1, <1>2

\* cable_work reads the cables and the supply one by one.
LEMMA CableReads ==
    ASSUME TypeInv, CableInv,
           cable_work_start \/ cable_work_extcon \/ typec_limit_read
    PROVE  CableInv'
<1>0. cw \in CwType /\ cw.s \in SupplyType
      /\ extcon \in SUBSET {"FAST", "DCP", "CDP", "SDP"}
  BY DEF TypeInv, TypeOK, CwType
<1>1. /\ chg' = chg /\ reg' = reg /\ cs' = cs /\ phase' = phase /\ faults' = faults
      /\ extcon' = extcon /\ supply' = supply /\ notify' = notify
      /\ cw.pc \in {"idle", "FAST", "DCP", "CDP", "SDP", "online", "voltage", "current",
                    "type"}
  BY DEF cable_work_start, cable_work_extcon, typec_limit_read, drv, env, NextCable
<1>2. cs.op # "cable_work"
  BY <1>1 DEF CableInv, Locks
<1>3. ASSUME cw'.pc \notin {"idle", "lock", "locked"}, phase # "unbound", Read'
      PROVE  CableInv'
  <2>1. Locks'
    BY <1>1, <1>2, <1>3 DEF CableInv, Locks
  <2>2. Decided'
    BY <1>3 DEF Decided
  <2>3. HoldKept'
    BY <1>1, <1>2, <1>3 DEF CableInv, HoldKept
  <2> QED BY <1>3, <2>1, <2>2 , <2>3 DEF CableInv
<1>4. CASE cable_work_start
  <2>1. cw'.pc = "FAST" /\ cw'.bc = "NONE" /\ ~cw'.s.online /\ phase # "unbound"
    BY <1>4 DEF cable_work_start, Idle, OfflineSupply, Running
  <2>2. Read'
    BY <2>1 DEF Read
  <2> QED BY <1>3, <2>1, <2>2
<1>5. CASE cable_work_extcon
  <2>0. phase # "unbound" /\ pend' = pend /\ cw.pc \in {"FAST", "DCP", "CDP", "SDP"}
    BY <1>5 DEF cable_work_extcon, CableInv, Locks, NextCable
  <2>1. CASE cw.pc \in extcon
    <3>1. cw'.bc = cw.pc /\ cw'.pc = "online" /\ cw'.s = cw.s
      BY <1>0, <1>5, <2>1 DEF cable_work_extcon, CwType
    <3>2. Known => cw.pc = first_cable(extcon)
      BY <1>0, <2>0, <2>1, FirstCable DEF CableInv, Read
    <3>3. Read'
      BY <1>1, <2>0, <3>1, <3>2 DEF CableInv, Read, Known, Probed
    <3> QED BY <1>3, <2>0, <3>1, <3>3
  <2>2. CASE cw.pc \notin extcon
    <3>1. cw'.bc = cw.bc /\ cw'.pc = NextCable[cw.pc] /\ cw'.s = cw.s
      BY <1>0, <1>5, <2>2 DEF cable_work_extcon, CwType
    <3>2. /\ cw.pc = "FAST" => cw'.pc = "DCP"
          /\ cw.pc = "DCP" => cw'.pc = "CDP"
          /\ cw.pc = "CDP" => cw'.pc = "SDP"
          /\ cw.pc = "SDP" => cw'.pc = "online"
      BY <3>1 DEF NextCable
    <3>3. Known /\ cw.pc = "SDP" => cw.bc = first_cable(extcon)
      BY <1>0, <2>2, FirstCable DEF CableInv, Read
    <3>4. Known' => Known
      BY <1>1, <2>0 DEF Known, Probed
    <3>5. Read'
      BY <1>1, <2>0, <2>2, <3>1, <3>2, <3>3, <3>4 DEF CableInv, Read
    <3> QED BY <1>3, <2>0, <3>2, <3>5
  <2> QED BY <2>1, <2>2
<1>6. CASE typec_limit_read
  <2>0. /\ phase # "unbound" /\ pend' = pend
        /\ cw.pc \in {"online", "voltage", "current", "type"}
    BY <1>6 DEF typec_limit_read, CableInv, Locks
  <2>t. (Known' <=> Known) /\ (Told' <=> Told)
    BY <1>1, <2>0 DEF Told, Known, Probed
  <2>1. CASE cw.pc = "online"
    <3>1. /\ cw'.bc = cw.bc /\ cw'.s.online = supply.online
          /\ cw'.pc = IF supply.online THEN "voltage" ELSE "limit"
      <4>1. cw' = [cw EXCEPT !.s.online = supply.online,
                             !.pc = IF supply.online THEN "voltage" ELSE "limit"]
        BY <1>6, <2>1 DEF typec_limit_read
      <4> QED BY <1>0, <4>1 DEF CwType, SupplyType
    <3>2. Read'
      BY <1>1, <2>1, <2>t, <3>1 DEF CableInv, Read
    <3> QED BY <1>3, <2>0, <3>1, <3>2
  <2>2. CASE cw.pc = "voltage"
    <3>1. /\ cw'.bc = cw.bc /\ cw'.s.online = cw.s.online
          /\ cw'.s.uv = supply.uv /\ cw'.pc = "current"
      <4>1. cw' = [cw EXCEPT !.s.uv = supply.uv, !.pc = "current"]
        BY <1>6, <2>2 DEF typec_limit_read
      <4> QED BY <1>0, <4>1 DEF CwType, SupplyType
    <3>2. Read'
      BY <1>1, <2>2, <2>t, <3>1 DEF CableInv, Read
    <3> QED BY <1>3, <2>0, <3>1, <3>2
  <2>3. CASE cw.pc = "current"
    <3>1. /\ cw'.bc = cw.bc /\ cw'.s.online = cw.s.online
          /\ cw'.s.uv = cw.s.uv /\ cw'.s.ua = supply.ua /\ cw'.pc = "type"
      <4>1. cw' = [cw EXCEPT !.s.ua = supply.ua, !.pc = "type"]
        BY <1>6, <2>3 DEF typec_limit_read
      <4> QED BY <1>0, <4>1 DEF CwType, SupplyType
    <3>2. Read'
      BY <1>1, <2>3, <2>t, <3>1 DEF CableInv, Read
    <3> QED BY <1>3, <2>0, <3>1, <3>2
  <2>4. CASE cw.pc = "type"
    <3>1. /\ cw'.bc = cw.bc /\ cw'.s.online = cw.s.online /\ cw'.s.uv = cw.s.uv
          /\ cw'.s.ua = cw.s.ua /\ cw'.s.pd = supply.pd /\ cw'.pc = "limit"
      <4>1. cw' = [cw EXCEPT !.s.pd = supply.pd, !.pc = "limit"]
        BY <1>6, <2>4 DEF typec_limit_read
      <4> QED BY <1>0, <4>1 DEF CwType, SupplyType
    <3>2. Read'
      BY <1>1, <2>4, <2>t, <3>1 DEF CableInv, Read
    <3> QED BY <1>3, <2>0, <3>1, <3>2
  <2> QED BY <2>0, <2>1, <2>2, <2>3, <2>4
<1> QED BY <1>4, <1>5, <1>6

\* While cable_work has read the cable that is there, that is what it decides on.
LEMMA DecisionIsCable ==
    ASSUME CableInv, Told, cw.pc \in {"limit", "lock", "locked"}
    PROVE  Decision = Cable
<1>1. cw.bc = first_cable(extcon)
  BY DEF CableInv, Read, Told
<1>2. /\ cw.s.online = supply.online
      /\ supply.online => cw.s.uv = supply.uv /\ cw.s.ua = supply.ua /\ cw.s.pd = supply.pd
  BY DEF CableInv, Read
<1>3. cable_limit(cw.bc, cw.s) = cable_limit(cw.bc, supply)
  BY <1>2, SameCable
<1> QED BY <1>1, <1>3 DEF Decision, Cable

\* While 5 V is held, only USB PD is above it.
LEMMA HeldHvIsUsbC ==
    ASSUME TypeInv, PdOnly, supply \in Supplies, "FAST" \notin extcon, Cable.hv
    PROVE  Cable.usb_c
<1>1. /\ first_cable(extcon) \in {"FAST", "DCP", "CDP", "SDP", "NONE"}
      /\ first_cable(extcon) # "FAST"
  BY FirstCable DEF TypeInv, TypeOK
<1>2. supply.online /\ supply.uv > HV_MIN_UV => supply.pd
  BY DEF PdOnly
<1> QED BY <1>1, <1>2, HvIsUsbC DEF Cable

\* sm5705_chg_hold_5v() notes the wish, and asks the MUIC if it is new.
LEMMA HoldNoted ==
    ASSUME NEW op, NEW c \in ChgType, NEW hold \in BOOLEAN, hold_5v(op, c, hold)
    PROVE  /\ chg' \in ChgType /\ chg'.hold_5v = hold
           /\ chg'.usb_type = c.usb_type /\ chg'.fast = c.fast /\ chg'.hv = c.hv
           /\ chg'.usb_c = c.usb_c /\ chg'.torch_on = c.torch_on
           /\ cs'.op = op /\ cs'.pc \in {"muic", "held"}
           /\ cs'.pc = "held" => c.hold_5v = hold
<1>1. CASE hold = c.hold_5v
  BY <1>1, GotoOp DEF hold_5v
<1>2. CASE hold # c.hold_5v
  <2>1. chg' = [c EXCEPT !.hold_5v = hold] /\ Goto(op, "muic")
    BY <1>2 DEF hold_5v
  <2> QED BY <2>1, GotoOp DEF ChgType
<1> QED BY <1>1, <1>2

\* ... applies what it has read,
LEMMA CableApplies ==
    ASSUME TypeInv, PdOnly, CableInv,
           cable_work_limit \/ cable_work_lock \/ cable_work_held \/ cable_work_unlock
    PROVE  CableInv'
<1>0. /\ reg \in RegType /\ chg \in ChgType /\ cs \in CsType /\ cw \in CwType
      /\ faults \in Nat /\ extcon \in SUBSET {"FAST", "DCP", "CDP", "SDP"}
      /\ chg.torch_on \in BOOLEAN /\ chg.usb_c \in BOOLEAN /\ chg.hold_5v \in BOOLEAN
  BY DEF TypeInv, TypeOK, ChgType
<1>d. Decision \in
          [limit : Int, type : {"UNKNOWN", "SDP", "DCP", "CDP", "C", "PD"},
           fast : BOOLEAN, hv : BOOLEAN, usb_c : BOOLEAN]
  BY <1>0, CableType DEF Decision, CwType
<1>1. /\ phase' = phase /\ pend' = pend /\ notify' = notify /\ extcon' = extcon
      /\ supply' = supply
      /\ faults' = 0 => faults = 0
  <2>1. faults' = 0 => faults = 0
    BY <1>0, FaultsGrow
    DEF cable_work_limit, cable_work_lock, cable_work_held, cable_work_unlock
  <2> QED BY <2>1
          DEF cable_work_limit, cable_work_lock, cable_work_held, cable_work_unlock, env
<1>t. Known' = Known /\ Told' = Told
  BY <1>1 DEF Told, Known, Probed
<1>2. CASE cable_work_limit
  <2>0. cw.pc = "limit" /\ cs' = cs /\ phase # "unbound" /\ cs.op # "cable_work"
    BY <1>2 DEF cable_work_limit, CableInv, Locks
  <2>1. cw'.pc = "lock" /\ cw'.bc = cw.bc /\ cw'.s = cw.s
    BY <1>0, <1>2 DEF cable_work_limit, CwType
  <2>2. /\ chg'.usb_type = Decision.type /\ chg'.hold_5v = chg.hold_5v
        /\ chg'.usb_c = chg.usb_c /\ chg'.torch_on = chg.torch_on
    BY <1>0, <1>2 DEF cable_work_limit, ChgType
  <2>3. faults' = 0 /\ input_limit_ok(Decision.limit)
           => reg'.limit = input_limit_code(Decision.limit)
    <3>1. PICK ok \in BOOLEAN :
             /\ Transfer(ok)
             /\ reg' = IF ok /\ Decision.limit # 0 /\ input_limit_ok(Decision.limit)
                       THEN [reg EXCEPT !.limit = input_limit_code(Decision.limit)]
                       ELSE reg
      BY <1>2, Zenon DEF cable_work_limit
    <3>2. faults' = 0 => ok
      BY <1>0, <3>1 DEF Transfer
    <3>3. input_limit_ok(Decision.limit) => Decision.limit # 0
      BY <1>d DEF input_limit_ok
    <3> QED BY <1>0, <3>1, <3>2, <3>3 DEF RegType
  <2>4. Decision' = Decision
    BY <2>1 DEF Decision
  <2>5. Locks'
    BY <1>1, <2>0, <2>1 DEF CableInv, Locks
  <2>6. Read'
    BY <1>1, <1>t, <2>0, <2>1 DEF CableInv, Read
  <2>7. Decided'
    BY <2>1, <2>2, <2>3, <2>4 DEF Decided, Limited
  <2>8. HoldKept'
    BY <1>1, <2>0, <2>1, <2>2 DEF CableInv, HoldKept
  <2> QED BY <2>5, <2>6, <2>7, <2>8 DEF CableInv
<1>3. CASE cable_work_lock
  <2> DEFINE c == [chg EXCEPT !.usb_c = Decision.usb_c]
             hold == Decision.usb_c \/ chg.torch_on
  <2>0. cw.pc = "lock" /\ cs.op = "none" /\ phase # "unbound" /\ reg' = reg
    BY <1>3 DEF cable_work_lock, CableInv, Locks
  <2>1. cw'.pc = "locked" /\ cw'.bc = cw.bc /\ cw'.s = cw.s
    BY <1>0, <1>3 DEF cable_work_lock, CwType
  <2>2. /\ c \in ChgType /\ c.usb_type = chg.usb_type /\ c.usb_c = Decision.usb_c
        /\ c.torch_on = chg.torch_on /\ c.hold_5v = chg.hold_5v
    <3>1. Decision.usb_c \in BOOLEAN
      BY <1>d
    <3>2. c \in ChgType
      BY <1>0, <3>1, ChgWrite
    <3> QED BY <1>0, <3>2 DEF ChgType
  <2>3. hold \in BOOLEAN
    BY <1>0, <1>d
  <2>4. hold_5v("cable_work", c, hold)
    BY <1>3 DEF cable_work_lock
  <2> HIDE DEF c, hold
  <2>5. /\ chg'.hold_5v = hold /\ chg'.usb_type = chg.usb_type
        /\ chg'.usb_c = Decision.usb_c /\ chg'.torch_on = chg.torch_on
        /\ cs'.op = "cable_work" /\ cs'.pc \in {"muic", "held"}
        /\ cs'.pc = "held" => chg.hold_5v = hold
    BY <2>2, <2>3, <2>4, HoldNoted
  <2>6. cs.pc # "muic"
    BY <2>0 DEF CableInv, Locks, HoldOps
  <2>7. Decision' = Decision
    BY <2>1 DEF Decision
  <2>8. Locks'
    BY <1>1, <2>0, <2>1, <2>5 DEF CableInv, Locks, HoldOps
  <2>9. Read'
    BY <1>1, <1>t, <2>0, <2>1 DEF CableInv, Read
  <2>10. Decided'
    BY <1>1, <2>0, <2>1, <2>5, <2>7 DEF CableInv, Decided, Limited, Applied, Applying
  <2>11. HoldKept'
    BY <1>1, <2>0, <2>1, <2>5, <2>6 DEF CableInv, HoldKept, Applied, Applying, hold
  <2> QED BY <2>8, <2>9, <2>10, <2>11 DEF CableInv
<1>4. CASE cable_work_held
  <2> DEFINE off == Decision.hv /\ chg.torch_on
  <2>0. /\ cw.pc = "locked" /\ cs.op = "cable_work" /\ cs.pc = "held" /\ cw' = cw
        /\ cs'.op = "cable_work" /\ cs'.pc = "apply_zone" /\ phase # "unbound"
    BY <1>4, GotoOp DEF cable_work_held, At, CableInv, Locks
  <2>1. reg'.limit = reg.limit
    <3>1. reg' = reg \/ reg' = [reg EXCEPT !.movie = FALSE]
      BY <1>4, Zenon DEF cable_work_held
    <3> QED BY <1>0, <3>1 DEF RegType
  <2>2. /\ chg'.hv = Decision.hv /\ chg'.fast = Decision.fast
        /\ chg'.torch_on = (chg.torch_on /\ ~off) /\ chg'.usb_type = chg.usb_type
        /\ chg'.usb_c = chg.usb_c /\ chg'.hold_5v = chg.hold_5v
    BY <1>0, <1>4 DEF cable_work_held, ChgType
  <2>3. Decision' = Decision
    BY <2>0 DEF Decision
  <2>4. Locks'
    BY <1>1, <2>0 DEF CableInv, Locks
  <2>5. Read'
    BY <1>1, <1>t, <2>0 DEF CableInv, Read
  <2>6. Decided'
    BY <1>1, <2>0, <2>1, <2>2, <2>3 DEF CableInv, Decided, Limited
  \* A torch that goes off above 5 V does so for a USB PD source, and 5 V stays
  \* held for it.
  <2>7. Told /\ off => chg.usb_c
    <3>1. SUFFICES ASSUME Told, off PROVE chg.usb_c
      OBVIOUS
    <3>2. chg.hold_5v /\ "FAST" \notin extcon
      BY <2>0, <3>1 DEF CableInv, HoldKept
    <3>3. Decision = Cable
      BY <2>0, <3>1, DecisionIsCable
    <3> QED BY <2>0, <3>1, <3>2, <3>3, HeldHvIsUsbC DEF CableInv, Locks, Decided
  <2>8. chg.hold_5v = (chg.usb_c \/ chg.torch_on)
    BY <2>0 DEF CableInv, HoldKept
  <2>9. Told' => chg'.hold_5v = (chg'.usb_c \/ chg'.torch_on)
    BY <1>0, <1>t, <2>2, <2>7, <2>8
  <2>10. HoldKept'
    BY <1>1, <2>0, <2>2, <2>9 DEF CableInv, HoldKept
  <2> QED BY <2>4, <2>5, <2>6, <2>10 DEF CableInv
<1>5. CASE cable_work_unlock
  <2>0. /\ cw.pc = "locked" /\ cs.op = "cable_work" /\ cs.pc = "applied"
        /\ cw' = Idle /\ cs' = Unlocked /\ chg' = chg /\ reg' = reg /\ phase # "unbound"
    BY <1>5 DEF cable_work_unlock, At, CableInv, Locks
  <2>1. /\ cw'.pc = "idle" /\ cw'.bc = "NONE" /\ ~cw'.s.online
        /\ cs'.op = "none" /\ cs'.pc = "none"
    BY <2>0 DEF Idle, OfflineSupply, Unlocked
  <2>2. Locks'
    BY <1>1, <2>0, <2>1 DEF CableInv, Locks
  <2>3. Read'
    BY <2>1 DEF Read
  <2>4. Told' => Decision = Cable
    BY <1>t, <2>0, DecisionIsCable
  <2>5. Cable' = Cable
    BY <1>1 DEF Cable
  <2>6. Decided'
    BY <1>1, <1>t, <2>0, <2>1, <2>4, <2>5 DEF CableInv, Decided, Limited, Applied
  <2>7. HoldKept'
    BY <1>1, <1>t, <2>0, <2>1 DEF CableInv, HoldKept, Applied
  <2> QED BY <2>2, <2>3, <2>6, <2>7 DEF CableInv
<1> QED BY <1>2, <1>3, <1>4, <1>5

\* The torch asks for the 5 V hold, and gives it back unless a source keeps it.
LEMMA CableTorch ==
    ASSUME TypeInv, PdOnly, CableInv, torch_set PROVE CableInv'
<1>0. /\ reg \in RegType /\ chg \in ChgType /\ cs \in CsType /\ faults \in Nat
      /\ extcon \in SUBSET {"FAST", "DCP", "CDP", "SDP"}
      /\ chg.torch_on \in BOOLEAN /\ chg.usb_c \in BOOLEAN /\ chg.hold_5v \in BOOLEAN
  BY DEF TypeInv, TypeOK, ChgType
<1>1. /\ phase' = phase /\ WorkSame /\ CablesSame
      /\ cs.op \in {"none", "torch_on", "torch_off"}
      /\ Told' = Told /\ Known' = Known
  <2>1. WorkSame /\ CablesSame
    BY DEF torch_set, torch_set_off, torch_off_release, torch_off_unlock,
           torch_set_on, torch_set_held, torch_set_movie, env, WorkSame, CablesSame
  <2>2. phase' = phase
    BY DEF torch_set, torch_set_off, torch_off_release, torch_off_unlock,
           torch_set_on, torch_set_held, torch_set_movie
  <2>3. cs.op \in {"none", "torch_on", "torch_off"}
    BY DEF torch_set, torch_set_off, torch_off_release, torch_off_unlock,
           torch_set_on, torch_set_held, torch_set_movie, At
  <2>4. Told' = Told /\ Known' = Known
    BY <2>1, <2>2 DEF Told, Known, Probed, WorkSame, CablesSame
  <2> QED BY <2>1, <2>2, <2>3, <2>4
<1>2. faults' = 0 => faults = 0
  BY <1>0, FaultsGrow
  DEF torch_set, torch_set_off, torch_off_release, torch_off_unlock,
      torch_set_on, torch_set_held, torch_set_movie
<1>3. phase # "unbound" /\ cw.pc # "locked"
  <2>1. cs.op # "none" => phase # "unbound"
    BY DEF CableInv, Locks
  <2>2. cs.op = "none" => Probed
    BY DEF torch_set, torch_set_off, torch_off_release, torch_off_unlock,
           torch_set_on, torch_set_held, torch_set_movie, At
  <2>3. cw.pc # "locked"
    BY <1>1 DEF CableInv, Locks
  <2> QED BY <2>1, <2>2, <2>3 DEF Probed
<1>r. reg'.limit = reg.limit
  <2>1. reg' = reg \/ \E v : reg' = [reg EXCEPT !.movie = v]
    BY Zenon DEF torch_set, torch_set_off, torch_off_release, torch_off_unlock,
                 torch_set_on, torch_set_held, torch_set_movie
  <2> QED BY <1>0, <2>1 DEF RegType
\* Only the torch and the hold change, and hv may go.
<1>4. ASSUME cs'.op \in {"none", "torch_on", "torch_off"},
             cs'.op = "none" => cs'.pc = "none",
             chg'.usb_type = chg.usb_type, chg'.fast = chg.fast,
             chg'.usb_c = chg.usb_c, chg'.hv => chg.hv, HoldKept'
      PROVE  CableInv'
  <2>1. Locks'
    BY <1>1, <1>3, <1>4 DEF CableInv, Locks, WorkSame, CablesSame, HoldOps
  <2>2. Read'
    BY <1>1 DEF CableInv, Read, WorkSame, CablesSame
  <2>3. Decision' = Decision /\ Cable' = Cable
    BY <1>1 DEF Decision, Cable, WorkSame, CablesSame
  <2>4. Limited(Decision)' = Limited(Decision) /\ Limited(Cable)' = Limited(Cable)
    BY <1>4, <1>r, <2>3 DEF Limited
  <2>5. Decided'
    BY <1>1, <1>2, <1>3, <1>4, <2>3, <2>4 DEF CableInv, Decided, WorkSame
  <2> QED BY <1>4, <2>1, <2>2, <2>5 DEF CableInv
<1>5. CASE torch_set_off
  <2>1. /\ cs.op = "none" /\ cs'.op = "torch_off" /\ cs'.pc = "apply_zone"
    BY <1>5, GotoOp DEF torch_set_off
  <2>2. /\ chg'.usb_type = chg.usb_type /\ chg'.fast = chg.fast /\ chg'.hv = chg.hv
        /\ chg'.usb_c = chg.usb_c /\ chg'.hold_5v = chg.hold_5v /\ ~chg'.torch_on
    BY <1>0, <1>5 DEF torch_set_off, ChgType
  <2>3. cs.pc # "muic"
    BY <2>1 DEF CableInv, Locks, HoldOps
  <2>4. HoldKept'
    BY <1>1, <1>3, <2>1, <2>2, <2>3 DEF CableInv, HoldKept, WorkSame, CablesSame
  <2> QED BY <1>4, <2>1, <2>2, <2>4
<1>6. CASE torch_off_release
  <2>1. cs.op = "torch_off" /\ cs.pc = "applied" /\ hold_5v("torch_off", chg, chg.usb_c)
    BY <1>6 DEF torch_off_release, At
  <2>2. /\ chg'.hold_5v = chg.usb_c /\ chg'.usb_type = chg.usb_type
        /\ chg'.fast = chg.fast /\ chg'.hv = chg.hv /\ chg'.usb_c = chg.usb_c
        /\ chg'.torch_on = chg.torch_on /\ cs'.op = "torch_off"
        /\ cs'.pc \in {"muic", "held"} /\ (cs'.pc = "held" => chg.hold_5v = chg.usb_c)
    BY <1>0, <2>1, HoldNoted
  <2>3. HoldKept'
    BY <1>1, <1>3, <2>1, <2>2 DEF CableInv, HoldKept, WorkSame, CablesSame, Applied,
                                  Applying
  <2> QED BY <1>4, <2>2, <2>3
<1>7. CASE torch_off_unlock
  <2>1. /\ cs.op = "torch_off" /\ cs.pc = "held" /\ cs'.op = "none" /\ cs'.pc = "none"
        /\ chg' = chg
    BY <1>7 DEF torch_off_unlock, At, Unlocked
  <2>2. HoldKept'
    BY <1>0, <1>1, <1>3, <2>1 DEF CableInv, HoldKept, WorkSame, CablesSame
  <2> QED BY <1>4, <2>1, <2>2
<1>8. CASE torch_set_on
  <2>1. cs.op = "none" /\ hold_5v("torch_on", chg, TRUE)
    BY <1>8 DEF torch_set_on
  <2>2. /\ chg'.hold_5v = TRUE /\ chg'.usb_type = chg.usb_type
        /\ chg'.fast = chg.fast /\ chg'.hv = chg.hv /\ chg'.usb_c = chg.usb_c
        /\ chg'.torch_on = chg.torch_on /\ cs'.op = "torch_on"
        /\ cs'.pc \in {"muic", "held"} /\ (cs'.pc = "held" => chg.hold_5v = TRUE)
    BY <1>0, <2>1, HoldNoted
  <2>3. cs.pc # "muic"
    BY <2>1 DEF CableInv, Locks, HoldOps
  <2>4. HoldKept'
    BY <1>1, <1>3, <2>1, <2>2, <2>3
    DEF CableInv, HoldKept, WorkSame, CablesSame, Applied, Applying
  <2> QED BY <1>4, <2>2, <2>4
<1>9. CASE torch_set_held
  <2>1. /\ cs.op = "torch_on" /\ cs.pc = "held"
        /\ chg' = [chg EXCEPT !.hv = chg.hv /\ ~cs.ok]
        /\ IF chg'.hv THEN cs' = Unlocked ELSE Goto("torch_on", "movie")
    BY <1>9 DEF torch_set_held, At
  <2>2. /\ chg'.usb_type = chg.usb_type /\ chg'.fast = chg.fast /\ (chg'.hv => chg.hv)
        /\ chg'.usb_c = chg.usb_c /\ chg'.hold_5v = chg.hold_5v
        /\ chg'.torch_on = chg.torch_on
    BY <1>0, <2>1 DEF ChgType
  <2>3. chg.hold_5v /\ "FAST" \notin extcon
    BY <2>1 DEF CableInv, HoldKept
  <2>4. CASE chg'.hv
    <3>1. cs'.op = "none" /\ cs'.pc = "none"
      BY <2>1, <2>4 DEF Unlocked
    \* VBUS is above 5 V still: a USB PD source, which keeps the hold.
    <3>2. faults = 0 /\ Told /\ cw.pc = "idle" => chg.usb_c
      BY <2>2, <2>3, <2>4, HeldHvIsUsbC DEF CableInv, Locks, Decided
    <3>3. HoldKept'
      BY <1>0, <1>1, <1>2, <1>3, <2>2, <2>3, <3>1, <3>2
      DEF CableInv, HoldKept, WorkSame, CablesSame
    <3> QED BY <1>4, <2>2, <3>1, <3>3
  <2>5. CASE ~chg'.hv
    <3>1. cs'.op = "torch_on" /\ cs'.pc = "movie"
      BY <2>1, <2>5, GotoOp
    <3>2. HoldKept'
      BY <1>1, <1>3, <2>2, <2>3, <3>1
      DEF HoldKept, WorkSame, CablesSame, Applied, Applying
    <3> QED BY <1>4, <2>2, <3>1, <3>2
  <2> QED BY <2>4, <2>5
<1>10. CASE torch_set_movie
  <2>1. /\ cs.op = "torch_on" /\ cs.pc = "movie"
        /\ \/ cs' = Unlocked /\ chg' = chg /\ faults' # 0
           \/ chg' = [chg EXCEPT !.torch_on = TRUE] /\ Goto("torch_on", "apply_zone")
    BY <1>0, <1>10 DEF torch_set_movie, At, Transfer
  <2>2. /\ chg'.usb_type = chg.usb_type /\ chg'.fast = chg.fast /\ chg'.hv = chg.hv
        /\ chg'.usb_c = chg.usb_c /\ chg'.hold_5v = chg.hold_5v
    BY <1>0, <2>1 DEF ChgType
  <2>3. chg.hold_5v /\ "FAST" \notin extcon
    BY <2>1 DEF CableInv, HoldKept
  <2>4. CASE cs' = Unlocked /\ chg' = chg /\ faults' # 0
    <3>1. cs'.op = "none" /\ cs'.pc = "none"
      BY <2>4 DEF Unlocked
    <3>2. HoldKept'
      BY <1>1, <2>3, <2>4, <3>1 DEF HoldKept, WorkSame, CablesSame
    <3> QED BY <1>4, <2>2, <3>1, <3>2
  <2>5. CASE chg' = [chg EXCEPT !.torch_on = TRUE] /\ Goto("torch_on", "apply_zone")
    <3>1. cs'.op = "torch_on" /\ cs'.pc = "apply_zone"
      BY <2>5, GotoOp
    <3>2. chg'.torch_on = TRUE
      BY <1>0, <2>5 DEF ChgType
    <3>3. HoldKept'
      BY <1>1, <1>3, <2>2, <2>3, <3>1, <3>2 DEF HoldKept, WorkSame, CablesSame
    <3> QED BY <1>4, <2>2, <3>1, <3>3
  <2> QED BY <2>1, <2>4, <2>5
<1> QED BY <1>5, <1>6, <1>7, <1>8, <1>9, <1>10 DEF torch_set

\* Temperature, limits and the OTG supply have nothing to do with cables.
LEMMA CableOthers ==
    ASSUME TypeInv, Late, CableInv, UserLimits = {},
           temp_work_read \/ temp_work \/ set_property \/ otg
    PROVE  CableInv'
<1>0. reg \in RegType /\ chg \in ChgType /\ cs \in CsType /\ faults \in Nat
  BY DEF TypeInv, TypeOK
<1>1. WorkSame /\ CablesSame
  BY DEF temp_work_read, temp_work, set_property, set_property_input_limit,
      set_property_term, set_property_current, set_property_voltage,
      set_property_write, otg, otg_enable, regulator_already_on, otg_enable_done,
      otg_disable, otg_fail, otg_off, otg_off_done, drv, env, WorkSame, CablesSame
<1>2. NotLimit
  BY Zenon
  DEF temp_work_read, temp_work, set_property, set_property_input_limit,
      set_property_term, set_property_current, set_property_voltage,
      set_property_write, otg, otg_enable, regulator_already_on, otg_enable_done,
      otg_disable, otg_fail, otg_off, otg_off_done, drv, NotLimit
<1>3. NotCable
  BY Zenon
  DEF temp_work_read, temp_work, set_property, set_property_input_limit,
      set_property_term, set_property_current, set_property_voltage,
      set_property_write, otg, otg_enable, regulator_already_on, otg_enable_done,
      otg_disable, otg_fail, otg_off, otg_off_done, drv, NotCable
<1>4. faults' = 0 => faults = 0
  BY <1>0, FaultsGrow, OneTransfer DEF Next
<1>5. phase' = phase \/ (Probed /\ Probed')
  BY DEF temp_work_read, temp_work, set_property, set_property_input_limit,
      set_property_term, set_property_current, set_property_voltage,
      set_property_write, otg, otg_enable, regulator_already_on, otg_enable_done,
      otg_disable, otg_fail, otg_off, otg_off_done, drv, Late, LateOps, Probed
<1>6. LockSame
  <2> DEFINE other == {"none", "temp_work", "set_property", "otg_enable",
                       "otg_disable", "otg_fail", "shutdown"}
  <2>1. CASE cs' = cs
    BY <2>1 DEF LockSame
  <2>2. ASSUME NEW op \in other \ {"none"}, NEW pc \in {"write", "apply_zone"},
               cs.op \in other, phase # "unbound", phase' = phase, Goto(op, pc)
        PROVE  LockSame
    BY <2>2, GotoOp DEF LockSame, HoldOps
  <2>3. ASSUME cs' = Unlocked, cs.op \in other \ {"none"} PROVE LockSame
    <3>1. phase' # "unbound"
      BY <1>5, <2>3 DEF CableInv, Locks, Probed
    <3> QED BY <2>3, <3>1 DEF LockSame, HoldOps, Unlocked
  <2>4. CASE temp_work_read \/ temp_work
    BY <2>1, <2>2, <2>4 DEF temp_work_read, temp_work, drv, Late, Probed
  <2>5. CASE set_property
    <3>1. ASSUME NEW v, set_property_input_limit(v) \/ set_property_term(v)
          PROVE  cs' = cs
      BY <3>1 DEF set_property_input_limit, set_property_term
    <3>2. ASSUME NEW v, set_property_current(v) \/ set_property_voltage(v)
          PROVE  LockSame
      BY <2>2, <3>2 DEF set_property_current, set_property_voltage, Writable, Running,
                        Probed
    <3>3. CASE set_property_write
      BY <2>2, <2>3, <3>3 DEF set_property_write, At, CableInv, Locks
    <3> QED BY <2>1, <2>5, <3>1, <3>2, <3>3, Zenon DEF set_property
  <2>6. CASE otg
    BY <2>1, <2>2, <2>3, <2>6
    DEF otg, otg_enable, regulator_already_on, otg_enable_done, otg_disable, otg_fail,
        otg_off, otg_off_done, At, drv, Probed
  <2> QED BY <2>4, <2>5, <2>6
<1> QED BY <1>0, <1>1, <1>2, <1>3, <1>4, <1>5, <1>6, OtherFieldsSame, CableKept
        DEF PhaseSame, Probed

\* Cables and sources that come and go queue cable_work, at once or by way of
\* the Type-C supply's changed_work.
LEMMA CableEvents ==
    ASSUME TypeInv, CableInv, environment \/ external_power_changed \/ UNCHANGED vars
    PROVE  CableInv'
<1>1. /\ chg' = chg /\ reg' = reg /\ cs' = cs /\ cw' = cw /\ phase' = phase
      /\ faults' = faults
  BY DEF environment, vbus_change, extcon_change, supply_change,
         external_power_changed, vars, drv, env
<1>2. CASE vbus_change \/ UNCHANGED vars
  <2>1. FieldsSame /\ WorkSame /\ CablesSame /\ LockSame
    BY <1>1, <1>2 DEF vbus_change, vars, env, FieldsSame, WorkSame, CablesSame, LockSame
  <2> QED BY <1>1, <2>1, CableKept DEF PhaseSame
<1>3. CASE external_power_changed \/ extcon_change \/ supply_change
  <2>1. /\ Known' => Known /\ extcon' = extcon
        /\ ~Told'
        /\ "FAST" \in extcon' => "FAST" \in extcon \/ ~chg.hold_5v \/ cs.pc = "muic"
        /\ supply' \in Supplies
    <3>1. CASE external_power_changed
      BY <3>1 DEF external_power_changed, env, Told, Known, Probed, CableInv, Locks
    <3>2. CASE extcon_change
      BY <3>2 DEF extcon_change, drv, Told, Known, Probed, CableInv, Locks
    <3>3. CASE supply_change
      <4>1. ~Told'
        BY <1>1, <3>3 DEF supply_change, Told, Known, Probed, Running
      <4> QED BY <4>1, <3>3 DEF supply_change, drv, Known, Probed
    <3> QED BY <1>3, <3>1, <3>2, <3>3
  <2>2. Locks'
    BY <1>1, <2>1 DEF CableInv, Locks
  <2>3. Read'
    BY <1>1, <2>1 DEF CableInv, Read
  <2>4. Decided'
    <3>1. Decision' = Decision
      BY <1>1 DEF Decision
    <3>2. Limited(Decision)' = Limited(Decision)
      BY <1>1, <3>1 DEF Limited
    <3> QED BY <1>1, <2>1, <3>1, <3>2 DEF CableInv, Decided
  <2>5. HoldKept'
    BY <1>1, <2>1 DEF CableInv, HoldKept
  <2> QED BY <2>2, <2>3, <2>4, <2>5 DEF CableInv
<1> QED BY <1>2, <1>3 DEF environment

\* probe() queues a first cable_work once it is done; a crash forgets all.
LEMMA CableLifecycle ==
    ASSUME TypeInv, Moded, CableInv, lifecycle PROVE CableInv'
<1>0. reg \in RegType /\ chg \in ChgType /\ cs \in CsType /\ faults \in Nat
  BY DEF TypeInv, TypeOK
<1>1. CASE probe_register \/ probe_fail
  <2>1. /\ ~Probed' /\ cw' = cw /\ cs' = cs /\ supply' = supply /\ ~chg'.hold_5v
        /\ cw.pc = "idle" /\ cs.op = "none"
    <3>1. /\ cw' = cw /\ cs' = cs /\ supply' = supply
          /\ phase' \in {"unbound", "registered"}
      BY <1>1 DEF probe_register, probe_fail, env
    <3>2. ~chg'.hold_5v
      <4>1. ~ZeroChg.hold_5v
        BY DEF ZeroChg
      <4>2. ZeroChg \in ChgType
        BY DEF ZeroChg, ChgType, FlashBoost, Zones
      <4>3. chg' = ZeroChg \/ chg' = [ZeroChg EXCEPT !.bstout = reg.bstout]
        BY <1>1 DEF probe_register, probe_fail
      <4> QED BY <4>1, <4>2, <4>3 DEF ChgType
    <3>3. cw.pc = "idle" /\ cs.op = "none"
      <4>1. CASE probe_register
        BY <4>1 DEF probe_register, CableInv, Locks
      <4>2. CASE probe_fail
        BY <4>2 DEF probe_fail, Idle
      <4> QED BY <1>1, <4>1, <4>2
    <3> QED BY <3>1, <3>2, <3>3 DEF Probed
  <2>2. cs.pc # "muic" /\ cw.bc = "NONE" /\ ~cw.s.online /\ supply \in Supplies
    BY <2>1 DEF CableInv, Locks, Read, HoldOps
  <2> QED BY <2>1, <2>2, CableReset
<1>2. CASE reboot
  <2>1. /\ ~Probed' /\ cs'.op = "none" /\ cs'.pc # "muic" /\ cw'.pc = "idle"
        /\ cw'.bc = "NONE" /\ ~cw'.s.online /\ ~chg'.hold_5v /\ supply' = supply
    BY <1>2 DEF reboot, Probed, ZeroChg, Unlocked, Idle, OfflineSupply
  <2> QED BY <2>1, CableReset DEF CableInv, Locks
<1>3. ASSUME \/ probe_voltage \/ probe_current \/ probe_get_voltage
             \/ probe_get_current \/ probe_apply_zone \/ shutdown_torch \/ shutdown_otg
      PROVE  CableInv'
  <2>1. NotCable
    BY <1>3, Zenon
    DEF probe_voltage, probe_current, probe_get_voltage, probe_get_current,
        probe_apply_zone, shutdown_torch, shutdown_otg, otg_off, NotCable
  <2>2. reg'.limit = reg.limit
    BY <1>0, <1>3
    DEF probe_voltage, probe_current, probe_get_voltage, probe_get_current,
        probe_apply_zone, shutdown_torch, shutdown_otg, RegType
  <2>3. FieldsSame
    <3>1. /\ chg'.usb_type = chg.usb_type /\ chg'.fast = chg.fast
          /\ chg'.hv = chg.hv /\ chg'.usb_c = chg.usb_c
          /\ chg'.hold_5v = chg.hold_5v /\ chg'.torch_on = chg.torch_on
      BY <1>0, <2>1 DEF NotCable, ChgType
    <3> QED BY <2>2, <3>1 DEF FieldsSame
  <2>4. WorkSame /\ CablesSame /\ PhaseSame
    BY <1>3
    DEF probe_voltage, probe_current, probe_get_voltage, probe_get_current,
        probe_apply_zone, shutdown_torch, shutdown_otg, env, WorkSame, CablesSame,
        PhaseSame, Probed
  <2>5. \/ cs' = cs
        \/ cs.op = "none" /\ cs'.op \in {"probe", "shutdown"} /\ cs'.pc = "apply_zone"
    BY <1>3, GotoOp
    DEF probe_voltage, probe_current, probe_get_voltage, probe_get_current,
        probe_apply_zone, shutdown_torch, shutdown_otg, otg_off
  <2>6. phase' # "unbound"
    BY <1>3
    DEF probe_voltage, probe_current, probe_get_voltage, probe_get_current,
        probe_apply_zone, shutdown_torch, shutdown_otg
  <2>7. LockSame
    BY <2>5, <2>6 DEF LockSame, HoldOps
  <2>8. faults' = 0 => faults = 0
    BY <1>0, <1>3, FaultsGrow, OneTransfer DEF Next, lifecycle
  <2> QED BY <2>3, <2>4, <2>7, <2>8, CableKept
<1>4. CASE probe_done
  <2>1. /\ chg' = chg /\ cs' = cs /\ cw' = cw /\ faults' = faults /\ extcon' = extcon
        /\ supply' = supply /\ phase' = "bound" /\ pend'
        /\ reg' = [reg EXCEPT !.movie = FALSE]
    BY <1>4 DEF probe_done, env
  <2>2. ~Known' /\ ~Told' /\ reg'.limit = reg.limit
    BY <1>0, <2>1 DEF Told, Known, RegType
  <2>3. Locks'
    BY <2>1 DEF CableInv, Locks
  <2>4. Read'
    BY <2>1, <2>2 DEF CableInv, Read
  <2>5. Decided'
    <3>1. Decision' = Decision
      BY <2>1 DEF Decision
    <3>2. Limited(Decision)' = Limited(Decision)
      BY <2>1, <2>2, <3>1 DEF Limited
    <3> QED BY <2>1, <2>2, <3>1, <3>2 DEF CableInv, Decided
  <2>6. HoldKept'
    BY <2>1, <2>2 DEF CableInv, HoldKept
  <2> QED BY <2>3, <2>4, <2>5, <2>6 DEF CableInv
<1> QED BY <1>1, <1>2, <1>3, <1>4 DEF lifecycle

\* The inductive invariant of cable_work, for every order in which cables and
\* Type-C sources come and go while it reads them.
LEMMA CableInvariant ==
    ASSUME PdOnly, UserLimits = {} PROVE Spec => [](TypeInv /\ CableInv)
<1>1. Init => CableInv
  <2> SUFFICES ASSUME Init PROVE CableInv
    OBVIOUS
  <2>1. /\ phase = "unbound" /\ chg = ZeroChg /\ cs = Unlocked /\ cw = Idle
        /\ supply \in Supplies
    BY DEF Init
  <2>2. ~Told /\ ~Known
    BY <2>1 DEF Told, Known, Probed
  <2> QED BY <2>1, <2>2
          DEF CableInv, Locks, Read, Decided, HoldKept, ZeroChg, Unlocked, Idle,
              OfflineSupply, HoldOps
<1>2. GuardInv /\ CableInv /\ [Next]_vars => CableInv'
  <2> SUFFICES ASSUME GuardInv, CableInv, [Next]_vars PROVE CableInv'
    OBVIOUS
  <2>1. TypeInv /\ Late /\ Moded
    BY DEF GuardInv
  <2>2. CASE apply_zone \/ apply_zone_unlock \/ muic_hold_5v \/ cable_work
    BY <2>1, <2>2, CableApplyZone, CableHold, CableReads, CableApplies DEF cable_work
  <2>3. CASE \/ external_power_changed \/ environment \/ UNCHANGED vars
             \/ temp_work_read \/ temp_work \/ set_property \/ torch_set \/ otg
             \/ lifecycle
    BY <2>1, <2>3, CableEvents, CableOthers, CableTorch, CableLifecycle
  <2> QED BY <2>2, <2>3 DEF Next
<1>3. GuardInv => TypeInv
  BY DEF GuardInv
<1> QED BY <1>1, <1>2, <1>3, GuardInvariant, PTL DEF Spec

\* Until a transfer fails, once no event waits, type, input limit, charge rate
\* and 5 V hold are those of the cable and the Type-C source that are there: for
\* every set of cables and sources and every order of their events, if only USB
\* PD goes above 5 V and no user writes the input limit.
THEOREM CableAppliedAlways ==
    ASSUME PdOnly, UserLimits = {} PROVE Spec => [](faults = 0 => CableApplied)
<1>1. TypeInv /\ CableInv => (faults = 0 => CableApplied)
  <2> SUFFICES ASSUME TypeInv, CableInv, faults = 0, Settled PROVE CableApplied
    BY DEF CableApplied
  <2>1. Told /\ cw.pc = "idle" /\ cs.op = "none"
    BY DEF Settled, AtRest, Told, Known
  <2>2. Limited(Cable) /\ chg.fast = Cable.fast /\ chg.usb_c = Cable.usb_c
    BY <2>1 DEF CableInv, Decided
  <2>3. chg.hold_5v = (chg.usb_c \/ chg.torch_on)
    BY <2>1 DEF CableInv, HoldKept
  <2> QED BY <2>2, <2>3 DEF CableApplied, Cable, Limited
<1> QED BY <1>1, CableInvariant, PTL

-----------------------------------------------------------------------------
(* The torch's supply, on a system that never powers USB devices *)

\* Something is on its way that has the mode picked again.
Coming == \/ owed \/ pend \/ notify \/ cs.pc \in Applying
          \/ cw.pc \notin {"idle", "locked"}
          \/ cs.op = "cable_work" /\ cs.pc \in {"muic", "held"}

\* A lit torch that nothing supplies.
Unsupplied == Probed /\ chg.torch_on /\ ~vin /\ reg.mode # MODE_FLASH_BOOST

\* The boost never drives VBUS, so VBUSPOK tells of a source; the torch is lit as
\* torch_on says, and it is without a supply only until the mode is picked again.
TorchInv ==
    /\ ~chg.otg_on /\ reg.mode # MODE_USB_OTG
    /\ cs.op = "cable_work" => cw.pc = "locked"
    /\ faults = 0 /\ phase = "bound" => reg.movie = chg.torch_on
    /\ faults = 0 /\ Unsupplied => Coming

\* The torch's and the boost's fields, in struct sm5705_chg and in the registers.
TorchSame == /\ chg'.torch_on = chg.torch_on /\ chg'.otg_on = chg.otg_on
             /\ reg'.movie = reg.movie /\ reg'.mode = reg.mode

\* A step that leaves them alone keeps the torch supplied if what was on its way
\* still is,
LEMMA TorchKept ==
    ASSUME TorchInv, TorchSame, vin' = vin, faults' = 0 => faults = 0,
           cs'.op = "cable_work" => cw'.pc = "locked",
           phase' = "bound" => phase = "bound", Probed' => Probed,
           Coming => Coming'
    PROVE  TorchInv'
  BY DEF TorchInv, TorchSame, Unsupplied

\* ... or if something now is.
LEMMA TorchAwaited ==
    ASSUME TorchInv, TorchSame, faults' = 0 => faults = 0,
           cs'.op = "cable_work" => cw'.pc = "locked",
           phase' = "bound" => phase = "bound", Coming'
    PROVE  TorchInv'
  BY DEF TorchInv, TorchSame, Unsupplied

\* A write to a register that is neither the torch's nor the mode's, and to a
\* field of struct sm5705_chg that is neither the torch's nor the OTG supply's.
NotTorch ==
    /\ \/ reg' = reg
       \/ \E v : \/ reg' = [reg EXCEPT !.vreg = v]  \/ reg' = [reg EXCEPT !.ireg = v]
                \/ reg' = [reg EXCEPT !.limit = v] \/ reg' = [reg EXCEPT !.term = v]
                \/ reg' = [reg EXCEPT !.bstout = v]
    /\ \/ chg' = chg
       \/ \E v : \/ chg' = [chg EXCEPT !.zone = v] \/ chg' = [chg EXCEPT !.usb_type = v]
                \/ chg' = [chg EXCEPT !.bat = v]  \/ chg' = [chg EXCEPT !.hold_5v = v]
                \/ chg' = [chg EXCEPT !.usb_c = v] \/ chg' = [chg EXCEPT !.hv = v]
                \/ chg' = [chg EXCEPT !.cfg_voltage = v]
                \/ chg' = [chg EXCEPT !.cfg_current = v]
                \/ \E w : chg' = [chg EXCEPT !.usb_c = v, !.hold_5v = w]

\* ... leaves the torch's fields alone.
LEMMA NotTorchSame ==
    ASSUME reg \in RegType, chg \in ChgType, NotTorch PROVE TorchSame
<1>1. reg'.movie = reg.movie /\ reg'.mode = reg.mode
  BY DEF NotTorch, RegType
<1>2. chg'.torch_on = chg.torch_on /\ chg'.otg_on = chg.otg_on
  BY DEF NotTorch, ChgType
<1> QED BY <1>1, <1>2 DEF TorchSame

\* Without OTG, the mode apply_zone() picks supplies a lit torch.
LEMMA TorchApplyZone ==
    ASSUME TypeInv, Moded, TorchInv, apply_zone PROVE TorchInv'
<1>0. /\ reg \in RegType /\ chg \in ChgType /\ cs \in CsType /\ faults \in Nat
      /\ vin \in BOOLEAN /\ chg.torch_on \in BOOLEAN
  BY DEF TypeInv, TypeOK, ChgType
<1>1. faults' = 0 => faults = 0
  BY <1>0, FaultsGrow, OneTransfer DEF Next
<1>2. CASE apply_zone_voltage \/ apply_zone_current
  <2>1. NotTorch
    BY <1>2, Zenon DEF apply_zone_voltage, apply_zone_current, NotTorch
  <2>2. cs'.op = cs.op /\ cs'.pc \in Applying /\ cw' = cw /\ phase' = phase
    BY <1>2, GotoOp DEF apply_zone_voltage, apply_zone_current, Applying
  <2> QED BY <1>0, <1>1, <2>1, <2>2, NotTorchSame, TorchAwaited DEF Coming, TorchInv
<1>3. CASE apply_zone_mode
  <2>1. PICK ok \in BOOLEAN, vbus \in BOOLEAN :
          /\ Transfer(ok /\ vbus)
          /\ reg' = IF ok /\ reg.mode \in SwitchedModes
                    THEN [reg EXCEPT !.mode = zone_mode(chg.zone, chg.torch_on,
                                                        chg.otg_on, vbus /\ vbus_pok)]
                    ELSE reg
          /\ cs' = [cs EXCEPT !.pc = "applied", !.ok = ok /\ reg.mode \in SwitchedModes]
    BY <1>3, Zenon DEF apply_zone_mode
  <2>2. /\ phase' = phase /\ chg' = chg /\ cw' = cw /\ vin' = vin
    BY <1>3 DEF apply_zone_mode, env
  <2>3. cs'.op = cs.op
    BY <1>0, <2>1 DEF CsType
  <2>4. reg'.movie = reg.movie
    BY <1>0, <2>1 DEF RegType
  <2>5. reg'.mode # MODE_USB_OTG
    <3>1. CASE ok /\ reg.mode \in SwitchedModes
      <4>1. reg'.mode = zone_mode(chg.zone, chg.torch_on, chg.otg_on, vbus /\ vbus_pok)
        BY <1>0, <2>1, <3>1 DEF RegType
      <4> QED BY <4>1 DEF TorchInv, zone_mode, MODE_USB_OTG, MODE_FLASH_BOOST,
                      MODE_CHG_ON, MODE_CHG_OFF
    <3>2. CASE ~(ok /\ reg.mode \in SwitchedModes)
      BY <2>1, <3>2 DEF TorchInv
    <3> QED BY <3>1, <3>2
  <2>6. ASSUME faults' = 0, Unsupplied' PROVE FALSE
    <3>1. ok /\ vbus
      <4>1. (ok /\ vbus) \in BOOLEAN
        OBVIOUS
      <4> QED BY <1>0, <2>1, <2>6, <4>1 DEF Transfer
    <3>2. ~vin /\ chg.torch_on /\ ~vbus_pok /\ ~chg.otg_on
      BY <2>2, <2>6 DEF Unsupplied, vbus_pok, TorchInv
    <3>3. reg'.mode = zone_mode(chg.zone, chg.torch_on, chg.otg_on, vbus /\ vbus_pok)
      BY <1>0, <2>1, <3>1 DEF RegType, Moded
    <3>4. reg'.mode = MODE_FLASH_BOOST
      BY <3>2, <3>3 DEF zone_mode
    <3> QED BY <2>6, <3>4 DEF Unsupplied
  <2> QED BY <1>1, <2>2, <2>3, <2>4, <2>5, <2>6 DEF TorchInv
<1> QED BY <1>2, <1>3 DEF apply_zone

\* cable_work and those who wake it hand over from one to the next, up to
\* apply_zone().
LEMMA TorchCable ==
    ASSUME TypeInv, TorchInv,
           \/ apply_zone_unlock \/ muic_hold_5v \/ cable_work
           \/ external_power_changed
    PROVE  TorchInv'
<1>0. /\ reg \in RegType /\ chg \in ChgType /\ cs \in CsType /\ cw \in CwType
      /\ faults \in Nat /\ pend \in BOOLEAN
  BY DEF TypeInv, TypeOK
<1>1. faults' = 0 => faults = 0
  BY <1>0, FaultsGrow, OneTransfer DEF Next
<1>2. CASE apply_zone_unlock
  <2>1. TorchSame /\ phase' = phase /\ vin' = vin /\ cs'.op = "none" /\ Probed' = Probed
    BY <1>2 DEF apply_zone_unlock, TorchSame, env, Unlocked, Probed
  <2>2. Coming => Coming'
    BY <1>2 DEF apply_zone_unlock, Coming, env, Applying
  <2> QED BY <1>1, <2>1, <2>2, TorchKept
<1>3. CASE muic_hold_5v
  <2>1. TorchSame /\ phase' = phase /\ vin' = vin /\ cw' = cw /\ Probed' = Probed
    BY <1>3 DEF muic_hold_5v, TorchSame, Probed
  <2>2. cs.pc = "muic" /\ cs'.op = cs.op /\ cs'.pc = "held"
    BY <1>0, <1>3 DEF muic_hold_5v, CsType
  <2>3. Coming => Coming'
    <3>1. (pend => pend') /\ owed' = owed /\ notify' = notify
      BY <1>3 DEF muic_hold_5v
    <3> QED BY <2>1, <2>2, <3>1 DEF Coming, Applying
  <2> QED BY <1>1, <2>1, <2>2, <2>3, TorchKept DEF TorchInv
<1>4. CASE cable_work_start \/ cable_work_extcon \/ typec_limit_read
  <2>1. TorchSame /\ phase' = phase /\ cs' = cs
    BY <1>4 DEF cable_work_start, cable_work_extcon, typec_limit_read, drv, TorchSame
  <2>2. cw.pc # "locked" /\ cw'.pc \notin {"idle", "locked"}
    <3>1. CASE cable_work_start
      BY <3>1 DEF cable_work_start, Idle
    <3>2. CASE cable_work_extcon
      BY <1>0, <3>2 DEF cable_work_extcon, NextCable, CwType
    <3>3. CASE typec_limit_read
      BY <1>0, <3>3 DEF typec_limit_read, CwType
    <3> QED BY <1>4, <3>1, <3>2, <3>3
  <2> QED BY <1>1, <2>1, <2>2, TorchAwaited DEF Coming, TorchInv
<1>5. CASE cable_work_limit
  <2>1. NotTorch
    BY <1>5, Zenon DEF cable_work_limit, NotTorch
  <2>2. cw.pc = "limit" /\ cw'.pc = "lock" /\ cs' = cs /\ phase' = phase
    BY <1>0, <1>5 DEF cable_work_limit, CwType
  <2> QED BY <1>0, <1>1, <2>1, <2>2, NotTorchSame, TorchAwaited DEF Coming, TorchInv
<1>6. CASE cable_work_lock
  <2> DEFINE c == [chg EXCEPT !.usb_c = Decision.usb_c]
             h == Decision.usb_c \/ chg.torch_on
  <2>1. /\ hold_5v("cable_work", c, h) /\ reg' = reg /\ phase' = phase
        /\ cw' = [cw EXCEPT !.pc = "locked"]
    BY <1>6 DEF cable_work_lock
  <2>2. /\ chg' = c \/ chg' = [c EXCEPT !.hold_5v = h]
        /\ Goto("cable_work", "held") \/ Goto("cable_work", "muic")
    BY <2>1, Zenon DEF hold_5v
  <2>3. chg'.torch_on = chg.torch_on /\ chg'.otg_on = chg.otg_on
    BY <1>0, <2>2 DEF ChgType
  <2>4. cs'.op = "cable_work" /\ cs'.pc \in {"muic", "held"}
    BY <2>2, GotoOp
  <2>5. cw'.pc = "locked"
    BY <1>0, <2>1 DEF CwType
  <2>6. TorchSame
    BY <2>1, <2>3 DEF TorchSame
  <2> QED BY <1>1, <2>1, <2>4, <2>5, <2>6, TorchAwaited DEF Coming
<1>7. CASE cable_work_held
  <2>1. PICK ok \in BOOLEAN :
          /\ Transfer(ok)
          /\ reg' = IF ok /\ Decision.hv /\ chg.torch_on
                    THEN [reg EXCEPT !.movie = FALSE] ELSE reg
    BY <1>7, Zenon DEF cable_work_held
  <2>2. /\ cs.op = "cable_work" /\ Goto("cable_work", "apply_zone")
        /\ phase' = phase /\ cw' = cw
        /\ chg' = [chg EXCEPT !.hv = Decision.hv, !.fast = Decision.fast,
                              !.torch_on = @ /\ ~(Decision.hv /\ chg.torch_on)]
    BY <1>7, Zenon DEF cable_work_held, At
  <2>3. /\ chg'.otg_on = chg.otg_on
        /\ chg'.torch_on = (chg.torch_on /\ ~(Decision.hv /\ chg.torch_on))
    BY <1>0, <2>2 DEF ChgType
  <2>4. reg'.mode = reg.mode
    BY <1>0, <2>1 DEF RegType
  <2>5. reg'.movie = IF ok /\ Decision.hv /\ chg.torch_on THEN FALSE ELSE reg.movie
    BY <1>0, <2>1 DEF RegType
  <2>6. cs'.op = "cable_work" /\ cs'.pc = "apply_zone"
    BY <2>2, GotoOp
  <2>7. faults' = 0 => ok
    BY <1>0, <2>1 DEF Transfer
  <2>8. chg.torch_on \in BOOLEAN /\ reg.movie \in BOOLEAN
    BY <1>0 DEF ChgType, RegType
  <2>9. faults' = 0 /\ phase' = "bound" => reg'.movie = chg'.torch_on
    BY <1>1, <2>2, <2>3, <2>5, <2>7, <2>8 DEF TorchInv
  <2>10. Coming'
    BY <2>6 DEF Coming, Applying
  <2> QED BY <2>2, <2>3, <2>4, <2>6, <2>9, <2>10 DEF TorchInv
<1>8. CASE cable_work_unlock
  <2>1. TorchSame /\ phase' = phase /\ vin' = vin /\ cs'.op = "none" /\ Probed' = Probed
    BY <1>8 DEF cable_work_unlock, TorchSame, env, Unlocked, Probed
  <2>2. cw.pc = "locked" /\ cs.pc = "applied"
    BY <1>8 DEF cable_work_unlock, At, TorchInv
  <2>3. Coming => Coming'
    <3>1. pend' = pend /\ owed' = owed /\ notify' = notify
      BY <1>8 DEF cable_work_unlock, env
    <3> QED BY <2>2, <3>1 DEF Coming, Applying
  <2> QED BY <1>1, <2>1, <2>3, TorchKept
<1>9. CASE external_power_changed
  <2>1. TorchSame /\ phase' = phase /\ cw' = cw /\ cs' = cs /\ pend'
    BY <1>9 DEF external_power_changed, drv, TorchSame
  <2> QED BY <1>1, <2>1, TorchAwaited DEF Coming, TorchInv
<1> QED BY <1>2, <1>3, <1>4, <1>5, <1>6, <1>7, <1>8, <1>9 DEF cable_work

\* The temperature and the user: whoever takes the lock goes through apply_zone().
LEMMA TorchTempAndUser ==
    ASSUME TypeInv, Moded, TorchInv, temp_work_read \/ temp_work \/ set_property
    PROVE  TorchInv'
<1>0. /\ reg \in RegType /\ chg \in ChgType /\ faults \in Nat
  BY DEF TypeInv, TypeOK
<1>1. faults' = 0 => faults = 0
  BY <1>0, FaultsGrow, OneTransfer DEF Next
<1>2. /\ cw' = cw /\ pend' = pend /\ vin' = vin /\ owed' = owed /\ notify' = notify
      /\ phase' = phase /\ Probed' = Probed
  BY DEF temp_work_read, temp_work, set_property, set_property_input_limit,
         set_property_term, set_property_current, set_property_voltage,
         set_property_write, env, drv, Probed
<1>3. TorchSame
  <2>1. CASE ~set_property_write
    <3>1. NotTorch
      BY <2>1, Zenon
      DEF temp_work_read, temp_work, set_property, set_property_input_limit,
          set_property_term, set_property_current, set_property_voltage, drv, NotTorch
    <3> QED BY <1>0, <3>1, NotTorchSame
  <2>2. CASE set_property_write
    <3>1. NotTorch
      BY <2>2, Zenon DEF set_property_write, NotTorch
    <3> QED BY <1>0, <3>1, NotTorchSame
  <2> QED BY <2>1, <2>2
<1>4. \/ cs' = cs
      \/ cs'.op \in {"none", "temp_work", "set_property"} /\ cs.op # "cable_work"
           /\ (cs.pc \in Applying => cs'.pc \in Applying)
  <2>1. CASE temp_work_read
    BY <2>1 DEF temp_work_read, drv
  <2>2. CASE temp_work
    BY <2>2, GotoOp DEF temp_work, Applying
  <2>3. CASE set_property
    <3>1. CASE set_property_write
      <4>1. cs.op = "set_property" /\ cs.pc = "write"
        BY <3>1 DEF set_property_write, At
      <4>2. cs' = Unlocked \/ Goto("set_property", "apply_zone")
        BY <3>1, Zenon DEF set_property_write
      <4> QED BY <4>1, <4>2, GotoOp, UnlockedOp DEF Applying
    <3>2. CASE \E ua \in UserCurrents : set_property_current(ua)
      BY <3>2, GotoOp, FreeElsewhere DEF set_property_current
    <3>3. CASE \E uv \in UserVoltages : set_property_voltage(uv)
      BY <3>3, GotoOp, FreeElsewhere DEF set_property_voltage
    <3>4. CASE \/ \E ua \in UserLimits : set_property_input_limit(ua)
               \/ \E ua \in UserTerms : set_property_term(ua)
      BY <3>4 DEF set_property_input_limit, set_property_term
    <3> QED BY <2>3, <3>1, <3>2, <3>3, <3>4 DEF set_property
  <2> QED BY <2>1, <2>2, <2>3
<1>5. Coming => Coming'
  BY <1>2, <1>4 DEF Coming
<1>6. cs'.op = "cable_work" => cw'.pc = "locked"
  BY <1>2, <1>4 DEF TorchInv
<1> QED BY <1>1, <1>2, <1>3, <1>5, <1>6, TorchKept

\* sm5705_chg_hold_5v() leaves the torch alone.
LEMMA HoldTorch ==
    ASSUME reg' = reg, chg \in ChgType, NEW op, NEW hold, hold_5v(op, chg, hold)
    PROVE  cs'.op = op /\ TorchSame
<1>1. /\ chg' = chg \/ chg' = [chg EXCEPT !.hold_5v = hold]
      /\ Goto(op, "held") \/ Goto(op, "muic")
  BY Zenon DEF hold_5v
<1> QED BY <1>1, GotoOp DEF ChgType, TorchSame

\* torch_set() lights the torch, and has the mode picked; it goes off with
\* torch_on.
LEMMA TorchSet ==
    ASSUME TypeInv, Moded, TorchInv, torch_set PROVE TorchInv'
<1>0. /\ reg \in RegType /\ chg \in ChgType /\ cs \in CsType /\ faults \in Nat
      /\ chg.torch_on \in BOOLEAN
  BY DEF TypeInv, TypeOK, ChgType
<1>1. faults' = 0 => faults = 0
  BY <1>0, FaultsGrow, OneTransfer DEF Next
<1>2. /\ cw' = cw /\ pend' = pend /\ vin' = vin /\ owed' = owed /\ notify' = notify
      /\ phase' = phase /\ Probed' = Probed
  BY DEF torch_set, torch_set_off, torch_off_release, torch_off_unlock, torch_set_on,
         torch_set_held, torch_set_movie, env, Probed
<1>3. ASSUME TorchSame, cs.op # "cable_work", cs.pc \notin Applying,
             cs'.op # "cable_work"
      PROVE  TorchInv'
  <2>1. Coming => Coming'
    BY <1>2, <1>3 DEF Coming
  <2> QED BY <1>1, <1>2, <1>3, <2>1, TorchKept
<1>4. CASE torch_set_off
  <2>1. /\ Probed /\ cs'.op = "torch_off" /\ cs'.pc = "apply_zone"
        /\ chg' = [chg EXCEPT !.torch_on = FALSE]
    BY <1>4, GotoOp DEF torch_set_off
  <2>2. PICK ok \in BOOLEAN :
          /\ Transfer(ok)
          /\ reg' = IF ok THEN [reg EXCEPT !.movie = FALSE] ELSE reg
    BY <1>4, Zenon DEF torch_set_off
  <2>3. chg'.torch_on = FALSE /\ chg'.otg_on = chg.otg_on
    BY <1>0, <2>1 DEF ChgType
  <2>4. reg'.mode = reg.mode /\ (ok => reg'.movie = FALSE)
    BY <1>0, <2>2 DEF RegType
  <2>5. faults' = 0 => ok
    BY <1>0, <2>2 DEF Transfer
  <2> QED BY <1>2, <2>1, <2>3, <2>4, <2>5 DEF TorchInv, Unsupplied
<1>5. CASE torch_off_release
  <2>1. /\ cs.op = "torch_off" /\ cs.pc = "applied" /\ reg' = reg
        /\ hold_5v("torch_off", chg, chg.usb_c)
    BY <1>5 DEF torch_off_release, At
  <2>2. cs'.op = "torch_off" /\ TorchSame
    BY <1>0, <2>1, HoldTorch
  <2> QED BY <1>3, <2>1, <2>2 DEF Applying
<1>6. CASE torch_off_unlock
  <2>1. /\ cs.op = "torch_off" /\ cs.pc = "held" /\ cs'.op = "none" /\ TorchSame
    BY <1>6 DEF torch_off_unlock, At, Unlocked, TorchSame
  <2> QED BY <1>3, <2>1 DEF Applying
<1>7. CASE torch_set_on
  <2>1. cs.op = "none" /\ reg' = reg /\ hold_5v("torch_on", chg, TRUE)
    BY <1>7 DEF torch_set_on
  <2>2. cs'.op = "torch_on" /\ TorchSame
    BY <1>0, <2>1, HoldTorch
  <2> QED BY <1>3, <2>1, <2>2, FreeElsewhere
<1>8. CASE torch_set_held
  <2>1. /\ cs.op = "torch_on" /\ cs.pc = "held" /\ reg' = reg
        /\ chg' = [chg EXCEPT !.hv = @ /\ ~cs.ok]
        /\ cs' = Unlocked \/ Goto("torch_on", "movie")
    BY <1>8, Zenon DEF torch_set_held, At
  <2>2. TorchSame
    BY <1>0, <2>1 DEF TorchSame, ChgType
  <2>3. cs'.op # "cable_work"
    BY <2>1, GotoOp, UnlockedOp
  <2> QED BY <1>3, <2>1, <2>2, <2>3 DEF Applying
<1>9. CASE torch_set_movie
  <2>1. PICK ok \in BOOLEAN :
          /\ Transfer(ok)
          /\ IF ok THEN /\ reg' = [reg EXCEPT !.movie = TRUE]
                        /\ chg' = [chg EXCEPT !.torch_on = TRUE]
                        /\ Goto("torch_on", "apply_zone")
                   ELSE cs' = Unlocked /\ UNCHANGED <<chg, reg>>
    BY <1>9, Zenon DEF torch_set_movie
  <2>2. cs.op = "torch_on" /\ cs.pc = "movie"
    BY <1>9 DEF torch_set_movie, At
  <2>3. CASE ok
    <3>1. /\ cs'.op = "torch_on" /\ cs'.pc = "apply_zone"
          /\ chg'.torch_on = TRUE /\ chg'.otg_on = chg.otg_on /\ reg'.mode = reg.mode
          /\ reg'.movie = TRUE
      BY <1>0, <2>1, <2>3, GotoOp DEF ChgType, RegType
    <3> QED BY <1>2, <3>1 DEF TorchInv, Coming, Applying
  <2>4. CASE ~ok
    <3>1. TorchSame /\ cs'.op = "none"
      BY <2>1, <2>4, UnlockedOp DEF TorchSame
    <3> QED BY <1>3, <2>2, <3>1 DEF Applying
  <2> QED BY <2>3, <2>4
<1> QED BY <1>4, <1>5, <1>6, <1>7, <1>8, <1>9 DEF torch_set

\* The OTG supply is never on; what shutdown() ends, it ends before.
LEMMA TorchOtg ==
    ASSUME TypeInv, Late, OtgInv, ~Otg, TorchInv, otg PROVE TorchInv'
<1>0. /\ reg \in RegType /\ chg \in ChgType /\ cs \in CsType /\ faults \in Nat
  BY DEF TypeInv, TypeOK
<1>1. faults' = 0 => faults = 0
  BY <1>0, FaultsGrow, OneTransfer DEF Next
<1>2. ~otg_enable /\ ~regulator_already_on /\ ~otg_fail /\ ~otg_enable_done
  BY DEF otg_enable, regulator_already_on, otg_fail, otg_enable_done, At, TorchInv,
         OtgInv
<1>3. CASE otg_off_done
  <2>1. \/ reg' = reg
        \/ reg' = [reg EXCEPT !.bstout = chg.bstout]
    BY <1>3, Zenon DEF otg_off_done
  <2>2. chg' = chg /\ cs' = Unlocked /\ cs.op # "cable_work" /\ cs.pc = "applied"
        /\ phase' = IF cs.op = "shutdown" THEN "halted" ELSE phase
    BY <1>3 DEF otg_off_done
  <2>3. cw' = cw /\ pend' = pend /\ notify' = notify /\ vin' = vin /\ owed' = owed
    BY <1>3 DEF otg_off_done
  <2>4. TorchSame
    BY <1>0, <2>1, <2>2 DEF TorchSame, RegType
  <2>5. Coming => Coming'
    BY <2>2, <2>3 DEF Coming, Applying
  <2>6. cs'.op = "none" /\ (phase' = "bound" => phase = "bound")
    BY <2>2, UnlockedOp
  <2>7. faults' = 0 /\ Unsupplied' => Coming'
    <3>1. CASE cs.op = "shutdown"
      <4>1. Probed
        BY <3>1 DEF Late, LateOps
      <4> QED BY <1>1, <2>2, <2>3, <2>4, <2>5, <4>1 DEF TorchInv, TorchSame, Unsupplied
    <3>2. CASE cs.op # "shutdown"
      BY <1>1, <2>2, <2>3, <2>4, <2>5, <3>2 DEF TorchInv, TorchSame, Unsupplied, Probed
    <3> QED BY <3>1, <3>2
  <2> QED BY <1>1, <2>4, <2>6, <2>7 DEF TorchInv, TorchSame
<1>4. CASE otg_disable
  <2>1. /\ phase' = phase /\ reg' = reg /\ chg' = [chg EXCEPT !.otg_on = FALSE]
        /\ cs'.op = "otg_disable" /\ cs'.pc = "apply_zone"
    BY <1>4, GotoOp DEF otg_disable, otg_off
  <2>2. ~chg.otg_on /\ ~chg'.otg_on /\ chg'.torch_on = chg.torch_on
    BY <1>0, <2>1 DEF ChgType, TorchInv
  <2> QED BY <1>1, <2>1, <2>2 DEF TorchInv, Coming, Applying
<1> QED BY <1>2, <1>3, <1>4 DEF otg

\* probe() starts with the torch off; a reset forgets torch_on.
LEMMA TorchLifecycle ==
    ASSUME TypeInv, Late, TorchInv, lifecycle PROVE TorchInv'
<1>0. /\ reg \in RegType /\ chg \in ChgType /\ cs \in CsType /\ faults \in Nat
      /\ chg.torch_on \in BOOLEAN
  BY DEF TypeInv, TypeOK, ChgType
<1>1. faults' = 0 => faults = 0
  BY <1>0, FaultsGrow, OneTransfer DEF Next
<1>2. CASE probe_register \/ probe_fail \/ reboot
  <2>1. ~Probed' /\ phase' # "bound" /\ reg' = reg
    BY <1>2 DEF probe_register, probe_fail, reboot, Probed
  <2>2. ~chg'.otg_on
    <3>1. ~ZeroChg.otg_on /\ ZeroChg \in ChgType
      BY DEF ZeroChg, ChgType, FlashBoost, Zones
    <3>2. chg' = ZeroChg \/ chg' = [ZeroChg EXCEPT !.bstout = reg.bstout]
      BY <1>2 DEF probe_register, probe_fail, reboot
    <3> QED BY <3>1, <3>2 DEF ChgType
  <2>3. cs'.op = "cable_work" => cw'.pc = "locked"
    <3>1. (cs' = cs /\ cw' = cw) \/ cs' = Unlocked
      BY <1>2 DEF probe_register, probe_fail, reboot
    <3> QED BY <3>1, UnlockedOp DEF TorchInv
  <2> QED BY <2>1, <2>2, <2>3 DEF TorchInv, Unsupplied
<1>3. CASE probe_voltage \/ probe_current \/ probe_get_voltage \/ probe_get_current
           \/ probe_apply_zone
  <2>1. ~Probed' /\ phase' # "bound" /\ cw' = cw
    BY <1>3 DEF probe_voltage, probe_current, probe_get_voltage, probe_get_current,
                probe_apply_zone, Probed
  <2>2. cs' = cs \/ cs'.op = "probe"
    BY <1>3, GotoOp DEF probe_voltage, probe_current, probe_get_voltage,
                        probe_get_current, probe_apply_zone
  <2>3. reg'.mode = reg.mode
    BY <1>0, <1>3 DEF probe_voltage, probe_current, probe_get_voltage,
                      probe_get_current, probe_apply_zone, RegType
  <2>4. ~chg'.otg_on
    BY <1>0, <1>3 DEF probe_voltage, probe_current, probe_get_voltage,
                      probe_get_current, probe_apply_zone, ChgType, TorchInv
  <2> QED BY <2>1, <2>2, <2>3, <2>4 DEF TorchInv, Unsupplied
<1>4. CASE probe_done
  <2>1. /\ phase = "apply" /\ pend' = TRUE /\ reg' = [reg EXCEPT !.movie = FALSE]
        /\ chg' = chg /\ cs' = cs /\ cw' = cw
    BY <1>4 DEF probe_done
  <2>2. chg.torch_on = FALSE
    BY <1>0, <2>1 DEF Late, Probed
  <2>3. reg'.movie = FALSE /\ reg'.mode = reg.mode
    BY <1>0, <2>1 DEF RegType
  <2> QED BY <2>1, <2>2, <2>3 DEF TorchInv, Unsupplied
<1>5. CASE shutdown_torch
  <2>1. /\ phase = "bound" /\ phase' = "halting" /\ chg' = chg /\ cs' = cs
        /\ cw' = cw /\ UNCHANGED <<pend, env>>
        /\ reg' = reg \/ reg' = [reg EXCEPT !.movie = FALSE]
    BY <1>5, Zenon DEF shutdown_torch
  <2>2. reg'.mode = reg.mode
    BY <1>0, <2>1 DEF RegType
  <2>3. Coming' = Coming /\ Probed
    BY <2>1 DEF Coming, env, Probed
  <2> QED BY <1>1, <2>1, <2>2, <2>3 DEF TorchInv, Unsupplied, env
<1>6. CASE shutdown_otg
  <2>1. /\ phase = "halting" /\ phase' = "halted" /\ cs.op = "none" /\ cs' = cs
        /\ chg' = chg /\ cw' = cw /\ reg' = reg /\ UNCHANGED <<pend, env>>
    BY <1>6 DEF shutdown_otg, TorchInv
  <2>2. Coming' = Coming /\ Probed
    BY <2>1 DEF Coming, env, Probed
  <2> QED BY <1>1, <2>1, <2>2 DEF TorchInv, Unsupplied, env
<1> QED BY <1>2, <1>3, <1>4, <1>5, <1>6 DEF lifecycle

\* A source that comes or goes is reported; the report queues cable_work.
LEMMA TorchEnvironment ==
    ASSUME TypeInv, TorchInv, environment PROVE TorchInv'
<1>1. reg' = reg /\ chg' = chg /\ cs' = cs /\ cw' = cw /\ phase' = phase /\ faults' = faults
  BY DEF environment, vbus_change, extcon_change, supply_change, drv
<1>2. TorchSame
  BY <1>1 DEF TorchSame
<1>3. CASE Probed
  <2>1. Coming'
    BY <1>3 DEF environment, vbus_change, extcon_change, supply_change, Coming, Running,
                Probed
  <2> QED BY <1>1, <1>2, <2>1, TorchAwaited DEF TorchInv
<1>4. CASE ~Probed
  <2>1. ~Probed'
    BY <1>1, <1>4 DEF Probed
  <2> QED BY <1>1, <2>1 DEF TorchInv, Unsupplied, Probed
<1> QED BY <1>3, <1>4

\* The torch's part of the invariant, on a system that never powers USB devices.
LEMMA TorchInvariant ==
    ASSUME ~Otg PROVE Spec => [](GuardInv /\ TorchInv)
<1>1. Init => TorchInv
  <2> SUFFICES ASSUME Init PROVE TorchInv
    OBVIOUS
  <2>1. /\ phase = "unbound" /\ chg = ZeroChg /\ cs = Unlocked
        /\ reg.mode = MODE_CHG_ON
    BY DEF Init
  <2> QED BY <2>1 DEF TorchInv, Unsupplied, Probed, ZeroChg, Unlocked, MODE_CHG_ON,
                      MODE_USB_OTG
<1>2. GuardInv /\ OtgInv /\ TorchInv /\ [Next]_vars => TorchInv'
  <2> SUFFICES ASSUME GuardInv, OtgInv, TorchInv, [Next]_vars PROVE TorchInv'
    OBVIOUS
  <2>1. TypeInv /\ Late /\ Moded
    BY DEF GuardInv
  <2>2. CASE Next
    BY <2>1, <2>2, TorchApplyZone, TorchCable, TorchTempAndUser, TorchSet, TorchOtg,
       TorchLifecycle, TorchEnvironment DEF Next
  <2>3. CASE UNCHANGED vars
    <3>1. TorchSame /\ Coming' = Coming /\ vin' = vin /\ faults' = faults
          /\ phase' = phase /\ cs' = cs /\ cw' = cw /\ Probed' = Probed
      BY <2>3 DEF vars, env, TorchSame, Coming, Probed
    <3> QED BY <3>1, TorchKept DEF TorchInv
  <2> QED BY <2>2, <2>3
<1> QED BY <1>1, <1>2, GuardInvariant, OtgInvariant, PTL DEF Spec

\* Until a transfer fails, once no event waits, a lit torch has VBUS or the flash
\* boost, MOVIE is on exactly while torch_on is set, and the flash boost runs only
\* for it: for every battery, temperature, cable, user input and crash, without
\* OTG, whose VBUS would be taken for a source.
THEOREM TorchSuppliedAlways ==
    ASSUME ~Otg PROVE Spec => [](faults = 0 => TorchSupplied)
<1>1. GuardInv /\ TorchInv => (faults = 0 => TorchSupplied)
  <2> SUFFICES ASSUME GuardInv, TorchInv, faults = 0, Settled, phase = "bound"
               PROVE  /\ reg.movie = chg.torch_on
                      /\ reg.movie => vin \/ reg.mode \in {MODE_FLASH_BOOST, MODE_USB_OTG}
                      /\ reg.mode = MODE_FLASH_BOOST => reg.movie
    BY DEF TorchSupplied
  <2>1. Probed /\ Ready /\ cs.op = "none" /\ cs.pc = "none" /\ cs.pc \notin Applying
    BY FreeElsewhere DEF Settled, AtRest, Ready, GuardInv
  <2>2. ~Coming
    BY <2>1 DEF Settled, Coming
  <2>3. reg.movie = chg.torch_on /\ ~Unsupplied
    BY <2>2 DEF TorchInv
  <2>4. reg.mode = MODE_FLASH_BOOST => chg.torch_on
    BY <2>1 DEF GuardInv, Moded
  <2> QED BY <2>1, <2>3, <2>4 DEF Unsupplied
<1> QED BY <1>1, TorchInvariant, PTL
=============================================================================
