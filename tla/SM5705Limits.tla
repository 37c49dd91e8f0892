---------------------------- MODULE SM5705Limits ----------------------------
(***************************************************************************)
(* The arithmetic of the SM5705 charger driver: register encodings, the    *)
(* input limit of a cable, the battery temperature zones and the limits    *)
(* and operation mode that follow from a zone.  Everything here is a pure  *)
(* operator; SM5705Charger interleaves the driver's handlers around it.    *)
(* Currents are in uA, voltages in uV, temperatures in tenths of a degree, *)
(* as in the driver.                                                       *)
(***************************************************************************)
EXTENDS Integers

Least(a, b) == IF a <= b THEN a ELSE b

-----------------------------------------------------------------------------
(* Register fields *)

MODE_CHG_OFF     == 4
MODE_CHG_ON      == 5
MODE_FLASH_BOOST == 6
MODE_USB_OTG     == 7

\* The operation modes sm5705_chg_apply_zone() switches between.
SwitchedModes == {MODE_CHG_OFF, MODE_CHG_ON, MODE_FLASH_BOOST, MODE_USB_OTG}
AllModes      == 0..7

BSTOUT_OTG == 11

\* VBUSCNTL: 100 mA + 25 mA steps.
input_limit_ok(ua)    == ua >= 100000
input_limit_code(ua)  == Least((ua - 100000) \div 25000, 127)
get_input_limit(code) == 100000 + code * 25000

\* CHGCNTL2: 100 mA + 50 mA steps, at least 200 mA, at most the battery's
\* maximum (0: the battery node gives none).
MIN_CHARGE_UA == 200000
charge_current_ok(ua, max) == (max > 0 => ua <= max) /\ ua >= MIN_CHARGE_UA
\* Mutant: the value is not limited to the field's mask.
charge_current_code_unmasked(ua) == (ua - 100000) \div 50000
charge_current_code(ua)    == Least((ua - 100000) \div 50000, 63)
get_charge_current(code)   == 100000 + code * 50000

BATREG_MIN_UV == 4010000
BATREG_MAX_UV == 4620000

\* CHGCNTL4: 0 is 3.8 V, 1 is 4.0 V, then 4.01 V in 10 mV steps.
charge_voltage_ok(uv, max) ==
    (max > 0 => uv <= max) /\ uv >= BATREG_MIN_UV /\ uv <= BATREG_MAX_UV
charge_voltage_code(uv)  == (uv - BATREG_MIN_UV) \div 10000 + 2
get_charge_voltage(code) ==
    IF code = 0 THEN 3800000
    ELSE IF code = 1 THEN 4000000 ELSE BATREG_MIN_UV + (code - 2) * 10000

\* CHGCNTL5: 100 mA + 25 mA steps.
term_current_ok(ua)    == ua >= 100000
term_current_code(ua)  == Least((ua - 100000) \div 25000, 15)
get_term_current(code) == 100000 + code * 25000

-----------------------------------------------------------------------------
(* What a cable allows *)

SDP_INPUT_LIMIT_UA   == 500000
CDP_INPUT_LIMIT_UA   == 1500000
DCP_INPUT_LIMIT_UA   == 1800000
FAST_INPUT_LIMIT_UA  == 1650000
TYPEC_INPUT_LIMIT_UA == 3000000
HV_MIN_UV            == 5500000
FAST_SOURCE_MW       == 14000
FAST_CHARGE_UA       == 2700000
DEFAULT_CHARGE_UA    == 2000000

\* The input limit of the BC1.2 charger type the MUIC found.
bc12_limit == [FAST |-> FAST_INPUT_LIMIT_UA, DCP |-> DCP_INPUT_LIMIT_UA,
               CDP  |-> CDP_INPUT_LIMIT_UA,  SDP |-> SDP_INPUT_LIMIT_UA,
               NONE |-> 0]

bc12_type == [FAST |-> "DCP", DCP |-> "DCP", CDP |-> "CDP", SDP |-> "SDP",
              NONE |-> "UNKNOWN"]

\* The order in which cable_work asks for the cables.
bc12_rank == [FAST |-> 1, DCP |-> 2, CDP |-> 3, SDP |-> 4, NONE |-> 5]

\* What a USB-C source allows; an offline supply leaves the caller's values.
typec_limit(s) ==
    LET limit == Least(s.ua, IF s.uv > HV_MIN_UV THEN FAST_INPUT_LIMIT_UA
                                                 ELSE TYPEC_INPUT_LIMIT_UA)
    IN  IF s.online
        THEN [limit |-> limit,
              type  |-> IF s.pd THEN "PD" ELSE "C",
              fast  |-> ((s.uv \div 1000) * (limit \div 1000)) \div 1000
                            >= FAST_SOURCE_MW,
              hv    |-> s.uv > HV_MIN_UV,
              usb_c |-> s.pd \/ s.ua > SDP_INPUT_LIMIT_UA]
        ELSE [limit |-> 0, type |-> "UNKNOWN", fast |-> FALSE, hv |-> FALSE,
              usb_c |-> FALSE]

\* The USB-C source decides when it allows more, or supplies more than 5 V.
cable_limit(bc, s) ==
    LET tc == typec_limit(s)
    IN  IF tc.limit > bc12_limit[bc] \/ tc.hv
        THEN tc
        ELSE [limit |-> bc12_limit[bc], type |-> bc12_type[bc],
              fast |-> bc = "FAST", hv |-> bc = "FAST", usb_c |-> tc.usb_c]

-----------------------------------------------------------------------------
(* Battery temperature guard *)

Zones == {"NORMAL", "COOL", "WARM", "COLD", "HOT"}

TEMP_ALERT_HYST == 50
TEMP_WARM       == 410
TEMP_WARM_HYST  == 20
TEMP_COOL       == 150
TEMP_COOL_HYST  == 50
WARM_VOLTAGE_UV == 4100000
WARM_CURRENT_UA == 1350000
COOL_CURRENT_UA == 900000

\* The zone for a temperature, left only past its recovery point.
temp_zone(zone, temp, tmin, tmax) ==
    IF \/ temp >= tmax
       \/ zone = "HOT" /\ temp >= tmax - TEMP_ALERT_HYST
    THEN "HOT"
    ELSE IF \/ temp < tmin
            \/ zone = "COLD" /\ temp <= tmin + TEMP_ALERT_HYST
    THEN "COLD"
    ELSE IF \/ temp >= TEMP_WARM
            \/ zone \in {"WARM", "HOT"} /\ temp >= TEMP_WARM - TEMP_WARM_HYST
    THEN "WARM"
    ELSE IF \/ temp < TEMP_COOL
            \/ zone \in {"COOL", "COLD"} /\ temp <= TEMP_COOL + TEMP_COOL_HYST
    THEN "COOL"
    ELSE "NORMAL"

\* The limits sm5705_chg_apply_zone() asks for.
zone_voltage(zone, cfg) ==
    IF zone = "WARM" THEN Least(cfg, WARM_VOLTAGE_UV) ELSE cfg

zone_current(zone, cfg, fast) ==
    LET ua == IF fast THEN FAST_CHARGE_UA ELSE cfg
    IN  CASE zone = "WARM" -> Least(ua, WARM_CURRENT_UA)
          [] zone = "COOL" -> Least(ua, COOL_CURRENT_UA)
          [] OTHER         -> ua

zone_charges(zone) == zone \notin {"HOT", "COLD"}

\* The operation mode for a zone, the torch and the USB OTG supply.
zone_mode(zone, torch_on, otg_on, vbus_ok) ==
    IF otg_on THEN MODE_USB_OTG
    ELSE IF torch_on /\ (~zone_charges(zone) \/ ~vbus_ok) THEN MODE_FLASH_BOOST
    ELSE IF zone_charges(zone) THEN MODE_CHG_ON ELSE MODE_CHG_OFF
=============================================================================
