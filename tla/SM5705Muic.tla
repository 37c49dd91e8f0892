------------------------------ MODULE SM5705Muic ----------------------------
(***************************************************************************)
(* The SM5705 MUIC driver: cable detection, the AFC / QC 2.0 negotiation   *)
(* of 9 V, and the 5 V hold the charger driver asks for.  Interrupt thread *)
(* and hold exclude each other (muic->lock), but both sleep and both read  *)
(* hardware that moves on: cables come and go and chargers answer between  *)
(* any two of their steps.                                                 *)
(*                                                                         *)
(* The MUIC and the charger at the other end of the cable are external.    *)
(***************************************************************************)
EXTENDS Integers, FiniteSets

CONSTANTS
    Afc,         \* the module parameter (BOOLEAN)
    Chargers,    \* what may be plugged in: a subset of Kinds
    BootChargers,\* what may be plugged in before probe(), "none" for nothing
    Docks,       \* the keyboard cover may be on (set of BOOLEAN)
    Holds,       \* the charger driver asks for 5 V (BOOLEAN)
    Refusals,    \* some chargers may answer with an error or stay at 5 V (BOOLEAN)
    QuickRelease,\* a release may overtake the interrupt that follows the drop
    MaxSlow,     \* bound: measurements until a charger that agreed is at 9 V
    Replug,      \* a new cable may come before the old one's detach is handled
    MaxFaults,   \* bound: failing I2C transfers
    MaxRebinds   \* bound: driver unbound and bound again

SM5705_MUIC_AFC_RETRIES == 5
Kinds    == {"SDP", "CDP", "DCP", "AFC", "QC20"}
Types    == Kinds \union {"none"}          \* CHG_TYPE
Int3     == {"AFC_TA_ATTACHED", "AFC_ACCEPTED", "VBUS_UPDATE", "AFC_ERROR"}
int3_rank == [AFC_TA_ATTACHED |-> 1, AFC_ACCEPTED |-> 2, VBUS_UPDATE |-> 3,
              AFC_ERROR |-> 4]
\* All retries are used; a counter need not go on beyond that.
spent(n)  == n >= SM5705_MUIC_AFC_RETRIES
Capped(n) == IF n > SM5705_MUIC_AFC_RETRIES THEN SM5705_MUIC_AFC_RETRIES + 1 ELSE n

ASSUME MuicAssumption ==
    /\ Afc \in BOOLEAN /\ Holds \in BOOLEAN /\ Refusals \in BOOLEAN
    /\ QuickRelease \in BOOLEAN /\ Replug \in BOOLEAN /\ Docks \subseteq BOOLEAN
    /\ Chargers \subseteq Kinds
    /\ BootChargers \subseteq Types /\ "none" \in BootChargers
    /\ MaxSlow \in Nat /\ MaxFaults \in Nat /\ MaxRebinds \in Nat

VARIABLES
    phase,   \* unbound, probing (interrupt on, first detection due), bound
    muic,    \* struct sm5705_muic
    h,       \* who holds muic->lock, where, and what it has read
    extcon,  \* cables reported
    ret,     \* hold_5v() returned 0 last time
    cntl,    \* AFC_CNTL: ENAFC and ENQC20
    txd9,    \* AFC_TXD asks for 9 V
    vst9,    \* VBUS_STATUS: the last measurement saw 9 V
    ints,    \* INT1..3: "CABLE" (attach, detach, VBUS, ADC) and Int3
    port,    \* the connector: charger, VBUS, keyboard cover
    faults, rebinds

vars == <<phase, muic, h, extcon, ret, cntl, txd9, vst9, ints, port, faults,
          rebinds>>

-----------------------------------------------------------------------------
(* State *)

ZeroMuic == [afc_9v |-> FALSE, qc20 |-> FALSE, afc_ta |-> FALSE, hold_5v |-> FALSE,
             chgdet_rerun |-> FALSE, afc_retries |-> 0, vbus_retries |-> 0]
Unlocked == [op |-> "none", pc |-> "none", int3 |-> {}, ok |-> TRUE,
             vbus |-> FALSE, type |-> "none", dock |-> FALSE]

\* External: what is plugged in.  refuses: it may turn requests down; ta: it has
\* yet to answer the AFC ping; detecting: its type is being detected; asked: an
\* AFC request is under way; agreed: it will supply 9 V, at the latest once
\* measured slow more times.
Plugged(kind, dock) ==
    [charger : {kind}, vbus : {kind # "none"}, dock : {dock}, type : {"none"},
     refuses : IF Refusals /\ kind \in {"AFC", "QC20"} THEN BOOLEAN ELSE {FALSE},
     detecting : {kind # "none" /\ ~dock}, ta : {Afc /\ kind \in {"AFC", "QC20"}},
     asked : {FALSE}, agreed : {FALSE}, slow : {0}, volt : {5}]

Init ==
    /\ phase = "unbound" /\ muic = ZeroMuic /\ h = Unlocked /\ extcon = {}
    /\ ret = TRUE /\ cntl = {} /\ txd9 = FALSE /\ vst9 = FALSE /\ ints = {}
    /\ \E kind \in BootChargers, dock \in Docks :
          port \in Plugged(kind, dock)
    /\ faults = 0 /\ rebinds = 0

\* An I2C transfer: it works, or it fails and changes nothing.
Transfer(ok) ==
    /\ ok \in BOOLEAN
    /\ ok \/ faults < MaxFaults
    /\ faults' = IF ok THEN faults ELSE faults + 1

\* External: interrupts that are not masked; AFC's are only unmasked with Afc.
Raised(i) == ints \union (IF Afc THEN i ELSE i \ Int3)

\* External: the charger when ENAFC and ENQC20 are cleared: a request under
\* way ends, QC 2.0 holds 9 V only while ENQC20 stays set.
Stopped(p) ==
    [p EXCEPT !.asked = FALSE,
              !.agreed = @ /\ "ENQC20" \notin cntl,
              !.volt = IF "ENQC20" \in cntl THEN 5 ELSE @]

\* External: a charger's answer, and how long it takes to follow it.
Answered(p, a, s) == [p EXCEPT !.agreed = a, !.slow = s]

\* External: a charger agrees to 9 V, sooner or later, or it stays at 5 V; one
\* that has agreed supplies it already.
Agreed(p) ==
    IF p.agreed THEN {p} ELSE
    {Answered(p, a \/ ~p.refuses, s) : a \in BOOLEAN, s \in 0..MaxSlow}

\* External: VBUS_READ measures VBUS, and an interrupt follows.
Settling(p) ==
    IF p.agreed /\ p.slow = 0 THEN [p EXCEPT !.volt = 9]
    ELSE [p EXCEPT !.slow = IF @ > 0 THEN @ - 1 ELSE 0]
Measure(p) ==
    /\ port' = Settling(p)
    /\ vst9' = (port'.volt = 9)
    /\ ints' = Raised({"VBUS_UPDATE"})

-----------------------------------------------------------------------------
(* sm5705_muic_detect(), at the end of every handler *)

\* The handler ends: give the lock back; hold_5v() returns what it has.
Return(ok) ==
    /\ h' = Unlocked
    /\ ret' = IF h.op = "hold" THEN h.ok ELSE ret
    /\ phase' = IF h.op # "probe" THEN phase ELSE IF ok THEN "bound" ELSE "unbound"

\* VBUS, charger type and ID pin are read one after the other.
detect_read ==
    /\ h.pc \in {"vbus", "type", "adc"}
    /\ \E ok \in BOOLEAN :
          /\ Transfer(ok)
          /\ IF ~ok THEN Return(FALSE)
             ELSE /\ h' = CASE h.pc = "vbus" -> [h EXCEPT !.vbus = port.vbus, !.pc = "type"]
                            [] h.pc = "type" -> [h EXCEPT !.type = port.type, !.pc = "adc"]
                            [] h.pc = "adc" -> [h EXCEPT !.dock = port.dock, !.pc = "DOCK"]
                  /\ UNCHANGED <<ret, phase>>
    /\ UNCHANGED <<muic, extcon, cntl, txd9, vst9, ints, port, rebinds>>

Rescan == h.vbus /\ h.dock /\ h.type = "none" /\ ~muic.chgdet_rerun

\* Mutant: detection is not rerun.
detect_state_no_rerun ==
    /\ h.pc = "DOCK"
    /\ muic' = [muic EXCEPT !.afc_9v = @ /\ h.vbus, !.afc_ta = @ /\ h.vbus]
    /\ extcon' = IF h.dock THEN extcon \union {"DOCK"} ELSE extcon \ {"DOCK"}
    /\ h' = [h EXCEPT !.pc = "FAST"]
    /\ UNCHANGED <<phase, ret, cntl, txd9, vst9, ints, port, faults, rebinds>>

\* Mutant: 9 V outlives the charger.
detect_state_keeps_9v ==
    /\ h.pc = "DOCK"
    /\ muic' = [muic EXCEPT !.afc_ta = @ /\ h.vbus]
    /\ extcon' = IF h.dock THEN extcon \union {"DOCK"} ELSE extcon \ {"DOCK"}
    /\ h' = [h EXCEPT !.pc = "FAST"]
    /\ UNCHANGED <<phase, ret, cntl, txd9, vst9, ints, port, faults, rebinds>>

\* Without VBUS there is no 9 V charger.  sm5705_muic_rerun_chgdet(): once per
\* charger, as the MUIC does not detect it by itself with the cover on.
detect_state ==
    /\ h.pc = "DOCK"
    /\ muic' = [muic EXCEPT !.afc_9v = @ /\ h.vbus, !.afc_ta = @ /\ h.vbus,
                            !.chgdet_rerun = (@ /\ h.vbus /\ h.dock) \/ Rescan]
    /\ \E ok \in BOOLEAN :
          /\ Transfer(ok) /\ (ok \/ Rescan)
          /\ port' = IF ok /\ Rescan THEN [port EXCEPT !.detecting = port.vbus] ELSE port
    /\ extcon' = IF h.dock THEN extcon \union {"DOCK"} ELSE extcon \ {"DOCK"}
    /\ h' = [h EXCEPT !.pc = "FAST"]
    /\ UNCHANGED <<phase, ret, cntl, txd9, vst9, ints, rebinds>>

NextCable == [FAST |-> "SDP", SDP |-> "DCP", DCP |-> "CDP", CDP |-> "USB"]
Detected ==
    LET dcp == h.type \in {"DCP", "AFC", "QC20"}
    IN  IF ~h.vbus THEN {}
        ELSE (IF dcp THEN {"DCP"} ELSE {})
             \union (IF dcp /\ muic.afc_9v THEN {"FAST"} ELSE {})
             \union (IF h.type \in {"SDP", "CDP"} THEN {h.type, "USB"} ELSE {})

\* Mutant: without VBUS the rest is left as it was.
detect_set_no_detach ==
    /\ h.pc \in {"FAST", "SDP", "DCP", "CDP", "USB"}
    /\ extcon' = (extcon \ {h.pc}) \union ({h.pc} \intersect Detected)
    /\ IF h.pc = "USB" \/ (h.pc = "CDP" /\ ~h.vbus) THEN Return(TRUE)
       ELSE h' = [h EXCEPT !.pc = NextCable[h.pc]] /\ UNCHANGED <<phase, ret>>
    /\ UNCHANGED <<muic, cntl, txd9, vst9, ints, port, faults, rebinds>>

\* The charger type first, so consumers of EXTCON_USB see it.
detect_set ==
    /\ h.pc \in {"FAST", "SDP", "DCP", "CDP", "USB"}
    /\ extcon' = (extcon \ {h.pc}) \union ({h.pc} \intersect Detected)
    /\ IF h.pc = "USB" THEN Return(TRUE)
       ELSE h' = [h EXCEPT !.pc = NextCable[h.pc]] /\ UNCHANGED <<phase, ret>>
    /\ UNCHANGED <<muic, cntl, txd9, vst9, ints, port, faults, rebinds>>

detect == detect_read \/ detect_state \/ detect_set

-----------------------------------------------------------------------------
(* sm5705_muic_irq() *)

\* Reading the interrupt registers clears them; a failed read leaves them.
irq_read ==
    /\ phase # "unbound" /\ h.op = "none" /\ ints # {}
    /\ \E ok \in BOOLEAN :
          /\ Transfer(ok)
          /\ h' = IF ~ok THEN h
                  ELSE [Unlocked EXCEPT !.op = "irq", !.int3 = ints \intersect Int3,
                                        !.pc = IF Afc THEN "afc" ELSE "vbus"]
          /\ ints' = IF ok THEN {} ELSE ints
    /\ UNCHANGED <<phase, muic, extcon, ret, cntl, txd9, vst9, port, rebinds>>

\* Clears ENAFC and ENQC20; a write that fails leaves the bits.
afc_stop(m) ==
    /\ muic' = [m EXCEPT !.qc20 = FALSE]
    /\ \E ok \in BOOLEAN :
          /\ Transfer(ok)
          /\ cntl' = IF ok THEN {} ELSE cntl
          /\ port' = IF ok THEN Stopped(port) ELSE port

\* Mutant: a charger that answers while 5 V is held is forgotten.
afc_forgets ==
    /\ h.pc = "afc"
    /\ IF ~port.vbus
       THEN /\ muic' = [muic EXCEPT !.qc20 = FALSE] /\ cntl' = {}
            /\ port' = Stopped(port) /\ h' = [h EXCEPT !.pc = "vbus"]
       ELSE /\ muic' = [muic EXCEPT !.afc_ta = @ \/ (~muic.hold_5v
                                               /\ "AFC_TA_ATTACHED" \in h.int3)]
            /\ h' = [h EXCEPT !.pc = IF muic.hold_5v THEN "vbus" ELSE "int3"]
            /\ UNCHANGED <<cntl, port>>
    /\ UNCHANGED <<phase, extcon, ret, txd9, vst9, ints, faults, rebinds>>

\* sm5705_muic_afc(): without VBUS, or if it cannot be read, AFC ends; while
\* 5 V is held a charger that answers is only remembered.
afc ==
    /\ h.pc = "afc"
    /\ \/ /\ ~port.vbus /\ afc_stop(muic)
          /\ h' = [h EXCEPT !.pc = "vbus"]
       \/ /\ port.vbus /\ Transfer(FALSE)
          /\ muic' = [muic EXCEPT !.qc20 = FALSE] /\ cntl' = {} /\ port' = Stopped(port)
          /\ h' = [h EXCEPT !.pc = "vbus"]
       \/ /\ port.vbus
          /\ muic' = [muic EXCEPT !.afc_ta = @ \/ "AFC_TA_ATTACHED" \in h.int3]
          /\ h' = [h EXCEPT !.pc = IF muic.hold_5v THEN "vbus" ELSE "int3"]
          /\ UNCHANGED <<cntl, port, faults>>
    /\ UNCHANGED <<phase, extcon, ret, txd9, vst9, ints, rebinds>>

\* The events of one interrupt, in the order the handler looks at them.
Event(i) ==
    /\ h.pc = "int3" /\ i \in h.int3
    /\ \A e \in h.int3 : int3_rank[i] <= int3_rank[e]
    /\ h' = [h EXCEPT !.int3 = @ \ {i}]

int3_done ==
    /\ h.pc = "int3" /\ h.int3 = {}
    /\ h' = [h EXCEPT !.pc = "vbus"]
    /\ UNCHANGED <<phase, muic, extcon, ret, cntl, txd9, vst9, ints, port, faults,
                   rebinds>>

\* sm5705_muic_afc_start(): AFC_TXD, then ENAFC.
start_9v ==
    /\ muic' = [muic EXCEPT !.afc_retries = 0, !.vbus_retries = 0, !.qc20 = FALSE]
    /\ \E lost \in {{}, {"txd"}, {"cntl"}} :
          /\ Transfer(lost = {})
          /\ txd9' = (txd9 \/ "txd" \notin lost)
          /\ cntl' = IF "cntl" \in lost THEN cntl ELSE cntl \union {"ENAFC"}
          /\ port' = [port EXCEPT !.asked = port.vbus /\ "ENAFC" \in cntl']

afc_start ==
    /\ Event("AFC_TA_ATTACHED") /\ start_9v
    /\ UNCHANGED <<phase, extcon, ret, vst9, ints, rebinds>>

\* A type that cannot be read is whatever the stack held.
afc_accepted ==
    /\ Event("AFC_ACCEPTED")
    /\ \E ok \in BOOLEAN, is_afc \in BOOLEAN :
          /\ Transfer(ok) /\ (ok => is_afc = (port.type = "AFC"))
          /\ IF is_afc THEN Measure(port) /\ UNCHANGED cntl
             ELSE /\ cntl' = cntl \ {"ENAFC"}
                  /\ port' = [port EXCEPT !.asked = FALSE]
                  /\ UNCHANGED <<vst9, ints>>
    /\ UNCHANGED <<phase, muic, extcon, ret, txd9, rebinds>>

\* VBUS_STATUS or AFC_TXD that cannot be read is whatever the stack held.  The
\* driver sleeps 100 ms between measurements: a request is answered by then.
afc_vbus_update ==
    /\ Event("VBUS_UPDATE")
    /\ \E ok \in BOOLEAN, near \in BOOLEAN :
          /\ Transfer(ok) /\ (ok => near = (vst9 = txd9))
          /\ \/ /\ near
                /\ muic' = [muic EXCEPT !.afc_9v = TRUE]
                /\ cntl' = cntl \ {"ENAFC"}
                /\ port' = [port EXCEPT !.asked = FALSE]
                /\ UNCHANGED <<vst9, ints>>
             \/ /\ ~near /\ ~spent(muic.vbus_retries)
                /\ ~port.asked
                /\ muic' = [muic EXCEPT !.vbus_retries = Capped(@ + 1)]
                /\ Measure(port)
                /\ UNCHANGED cntl
             \/ /\ ~near /\ spent(muic.vbus_retries)
                /\ muic' = [muic EXCEPT !.vbus_retries = Capped(@ + 1), !.qc20 = FALSE]
                /\ cntl' = {} /\ port' = Stopped(port)
                /\ UNCHANGED <<vst9, ints>>
    /\ UNCHANGED <<phase, extcon, ret, txd9, rebinds>>

\* Give up, or QC 2.0, or AFC once more.
afc_error ==
    /\ Event("AFC_ERROR")
    /\ \E ok \in BOOLEAN, is_qc20 \in BOOLEAN :
          /\ Transfer(ok) /\ (ok => is_qc20 = (port.type = "QC20"))
          /\ \/ /\ spent(muic.afc_retries)
                /\ muic' = [muic EXCEPT !.afc_retries = Capped(@ + 1), !.qc20 = FALSE]
                /\ cntl' = {} /\ port' = Stopped(port)
                /\ UNCHANGED <<vst9, ints>>
             \/ /\ ~spent(muic.afc_retries) /\ is_qc20
                /\ muic' = [muic EXCEPT !.afc_retries = Capped(@ + 1), !.qc20 = TRUE]
                /\ cntl' = {"ENQC20"}
                /\ \E p \in IF "ENQC20" \in cntl THEN {port}
                             ELSE Agreed([port EXCEPT !.asked = FALSE]) : Measure(p)
             \/ /\ ~spent(muic.afc_retries) /\ ~is_qc20
                /\ muic' = [muic EXCEPT !.afc_retries = Capped(@ + 1)]
                /\ cntl' = cntl \union {"ENAFC"}
                /\ port' = [port EXCEPT !.asked = port.vbus]
                /\ UNCHANGED <<vst9, ints>>
    /\ UNCHANGED <<phase, extcon, ret, txd9, rebinds>>

irq == irq_read \/ afc \/ afc_start \/ afc_accepted \/ afc_vbus_update
       \/ afc_error \/ int3_done

-----------------------------------------------------------------------------
(* sm5705_muic_hold_5v() *)

hold_5v(hold) ==
    /\ Holds /\ phase # "unbound" /\ h.op = "none" /\ hold # muic.hold_5v
    /\ hold \/ QuickRelease \/ "VBUS_UPDATE" \notin ints
    /\ muic' = [muic EXCEPT !.hold_5v = hold]
    /\ h' = [Unlocked EXCEPT !.op = "hold",
                             !.pc = IF ~Afc THEN "vbus" ELSE IF hold THEN "drop"
                                    ELSE "release"]
    /\ UNCHANGED <<phase, extcon, ret, cntl, txd9, vst9, ints, port, faults, rebinds>>

\* Allowed again: ask a charger that has answered, if it is still there.
release ==
    /\ h.pc = "release"
    /\ \/ /\ muic.afc_ta /\ port.vbus /\ start_9v
       \/ /\ ~muic.afc_ta \/ ~port.vbus
          /\ UNCHANGED <<muic, cntl, txd9, port, faults>>
       \/ /\ muic.afc_ta /\ port.vbus /\ Transfer(FALSE)
          /\ UNCHANGED <<muic, cntl, txd9, port>>
    /\ h' = [h EXCEPT !.pc = "vbus"]
    /\ UNCHANGED <<phase, extcon, ret, vst9, ints, rebinds>>

\* Mutant: only a charger known to be at 9 V is brought back.
afc_drop_known ==
    /\ h.pc = "drop"
    /\ h' = [h EXCEPT !.pc = IF muic.afc_9v THEN "reset" ELSE "vbus"]
    /\ UNCHANGED <<phase, muic, extcon, ret, cntl, txd9, vst9, ints, port, faults,
                   rebinds>>

\* sm5705_muic_afc_drop(): -EIO, or nothing to do, or a reset.
afc_drop ==
    /\ h.pc = "drop"
    /\ \E ok \in BOOLEAN :
          /\ Transfer(ok)
          /\ h' = [h EXCEPT !.ok = ok,
                            !.pc = IF ok /\ (muic.afc_9v \/ cntl # {}) THEN "reset"
                                   ELSE "vbus"]
    /\ UNCHANGED <<phase, muic, extcon, ret, cntl, txd9, vst9, ints, port, rebinds>>

\* The D+ reset; a charger may be slow to follow it.
afc_drop_reset ==
    /\ h.pc = "reset"
    /\ \E fallen \in BOOLEAN :
          Measure([port EXCEPT !.asked = FALSE, !.agreed = FALSE,
                               !.volt = IF fallen THEN 5 ELSE @])
    /\ cntl' = {}
    /\ muic' = [muic EXCEPT !.afc_9v = FALSE, !.qc20 = FALSE]
    /\ h' = [h EXCEPT !.pc = "poll"]
    /\ UNCHANGED <<phase, extcon, ret, txd9, faults, rebinds>>

\* Mutant: hold_5v() returns without looking at the cable again.
afc_drop_poll_returns ==
    /\ h.pc = "poll"
    /\ h' = Unlocked /\ ret' = ~vst9
    /\ UNCHANGED <<phase, muic, extcon, cntl, txd9, vst9, ints, port, faults, rebinds>>

\* VBUS_STATUS at 5 V, or -ETIMEDOUT.
afc_drop_poll ==
    /\ h.pc = "poll"
    /\ h' = [h EXCEPT !.pc = "vbus", !.ok = ~vst9]
    /\ UNCHANGED <<phase, muic, extcon, ret, cntl, txd9, vst9, ints, port, faults,
                   rebinds>>

hold == (\E b \in BOOLEAN : hold_5v(b)) \/ release \/ afc_drop \/ afc_drop_reset
        \/ afc_drop_poll

-----------------------------------------------------------------------------
(* Probe and unbind: there is no remove(), so a 9 V charger stays as it is. *)

\* Clears what the bootloader left, then unmasks and requests the interrupt.
probe ==
    /\ phase = "unbound"
    /\ phase' = "probing" /\ muic' = ZeroMuic /\ ints' = {}
    /\ UNCHANGED <<h, extcon, ret, cntl, txd9, vst9, port, faults, rebinds>>

probe_detect ==
    /\ phase = "probing" /\ h.op = "none"
    /\ h' = [Unlocked EXCEPT !.op = "probe", !.pc = "vbus"]
    /\ UNCHANGED <<phase, muic, extcon, ret, cntl, txd9, vst9, ints, port, faults,
                   rebinds>>

unbind ==
    /\ phase = "bound" /\ h.op = "none" /\ rebinds < MaxRebinds
    /\ rebinds' = rebinds + 1
    /\ phase' = "unbound" /\ muic' = ZeroMuic /\ extcon' = {}
    /\ UNCHANGED <<h, ret, cntl, txd9, vst9, ints, port, faults>>

-----------------------------------------------------------------------------
(* External: the connector *)

\* Without Replug the detach of the last cable has been handled.
attach ==
    /\ ~port.vbus
    /\ Replug \/ phase = "unbound" \/ (h.op = "none" /\ ints = {})
    /\ \E kind \in IF phase = "unbound" THEN BootChargers \ {"none"} ELSE Chargers :
          port' \in Plugged(kind, port.dock)
    /\ ints' = Raised({"CABLE"})
    /\ UNCHANGED <<phase, muic, h, extcon, ret, cntl, txd9, vst9, faults, rebinds>>

detach ==
    /\ port.vbus
    /\ port' \in Plugged("none", port.dock)
    /\ ints' = Raised({"CABLE"})
    /\ UNCHANGED <<phase, muic, h, extcon, ret, cntl, txd9, vst9, faults, rebinds>>

\* The detection the cover held back starts once it is gone.
dock ==
    /\ \E d \in Docks \ {port.dock} :
          port' = [port EXCEPT !.dock = d,
                               !.detecting = @ \/ (~d /\ port.vbus /\ port.type = "none")]
    /\ ints' = Raised({"CABLE"})
    /\ UNCHANGED <<phase, muic, h, extcon, ret, cntl, txd9, vst9, faults, rebinds>>

\* AFC and QC 2.0 chargers are DCPs until they answer the ping.
charger_detected ==
    /\ port.detecting
    /\ port' = [port EXCEPT !.detecting = FALSE,
                            !.type = IF @ # "none" THEN @
                                     ELSE IF port.charger \in {"AFC", "QC20"} THEN "DCP"
                                     ELSE port.charger]
    /\ ints' = Raised({"CABLE"})
    /\ UNCHANGED <<phase, muic, h, extcon, ret, cntl, txd9, vst9, faults, rebinds>>

ta_attached ==
    /\ port.ta /\ port.type = "DCP"
    /\ port' = [port EXCEPT !.ta = FALSE, !.type = port.charger]
    /\ ints' = Raised({"AFC_TA_ATTACHED"})
    /\ UNCHANGED <<phase, muic, h, extcon, ret, cntl, txd9, vst9, faults, rebinds>>

\* A charger answers once its VBUS has followed an earlier D+ reset.
charger_answer ==
    /\ port.asked /\ (port.volt = 9 => port.agreed)
    /\ \/ /\ port.charger = "AFC"
          /\ port' \in Agreed([port EXCEPT !.asked = FALSE])
          /\ ints' = Raised({"AFC_ACCEPTED"})
       \/ /\ port.charger # "AFC" \/ port.refuses
          /\ port' = [port EXCEPT !.asked = FALSE]
          /\ ints' = Raised({"AFC_ERROR"})
    /\ UNCHANGED <<phase, muic, h, extcon, ret, cntl, txd9, vst9, faults, rebinds>>

\* VBUS follows what the charger agreed to, up or down.
charger_ramp ==
    /\ port.agreed # (port.volt = 9)
    /\ port' = [port EXCEPT !.volt = IF port.agreed THEN 9 ELSE 5]
    /\ UNCHANGED <<phase, muic, h, extcon, ret, cntl, txd9, vst9, ints, faults,
                   rebinds>>

connector == attach \/ detach \/ dock \/ charger_detected \/ ta_attached
             \/ charger_answer \/ charger_ramp

Next == detect \/ irq \/ hold \/ probe \/ probe_detect \/ unbind \/ connector

Spec == Init /\ [][Next]_vars

\* The interrupt thread and lock holders run, the MUIC detects and a charger
\* answers; users and cables owe nothing.
Fairness ==
    /\ WF_vars(detect) /\ WF_vars(irq) /\ WF_vars(probe) /\ WF_vars(probe_detect)
    /\ WF_vars(release \/ afc_drop \/ afc_drop_reset \/ afc_drop_poll)
    /\ WF_vars(charger_detected) /\ WF_vars(ta_attached) /\ WF_vars(charger_answer)
    /\ WF_vars(charger_ramp)

FairSpec == Spec /\ Fairness

-----------------------------------------------------------------------------
(* Properties *)

AtRest == phase = "bound" /\ h.op = "none"

\* Nothing is left to handle, and the connector is at rest.
Quiet == /\ AtRest /\ ints = {}
         /\ ~port.asked /\ ~port.detecting /\ (port.ta => port.type # "DCP")
         /\ port.agreed = (port.volt = 9)

\* A hold that returned 0 keeps VBUS at 5 V until it is released, whatever
\* chargers come, answer or were about to switch: sm5705_muic_hold_5v().
HoldIs5V == AtRest /\ muic.hold_5v /\ ret => port.volt = 5 /\ cntl = {}

\* What the charger driver relies on: once hold_5v() is back FAST is withdrawn
\* and stays so, even if VBUS did not come down in time.
HoldWithdrawsFast == AtRest /\ muic.hold_5v => "FAST" \notin extcon

\* FAST is reported exactly while the charger supplies 9 V; the mode is
\* dropped with its charger.
FastIs9V == Quiet => ("FAST" \in extcon <=> port.volt = 9)

\* On a working bus, once nothing is left to handle, every cable is reported as
\* what it is, with the keyboard cover on too, after a rebind too, although its
\* registers are read one by one.
CableReported ==
    Quiet /\ faults = 0 =>
      extcon \ {"FAST"} =
        (IF port.dock THEN {"DOCK"} ELSE {})
        \union (IF port.charger \in {"SDP", "CDP"} THEN {port.charger, "USB"} ELSE {})
        \union (IF port.charger \in {"DCP", "AFC", "QC20"} THEN {"DCP"} ELSE {})

\* Whatever fails, and however cables change while they are read, a charger is
\* never reported as two kinds: USB comes with exactly one of SDP and CDP, FAST
\* only with DCP, and DCP without USB.
CablesCoherent ==
    h.op = "none" =>
      /\ Cardinality(extcon \intersect {"SDP", "CDP", "DCP"}) <= 1
      /\ "USB" \in extcon <=> extcon \intersect {"SDP", "CDP"} # {}
      /\ "FAST" \in extcon => "DCP" \in extcon

\* A charger counts as being at 9 V only if VBUS was measured there.
\* It does not hold: README, section 4.
MeasuredAt9V == [][muic'.afc_9v /\ ~muic.afc_9v => vst9]_muic

\* An AFC charger that refuses nothing and stays, no longer held, ends at 9 V,
\* also if it came or answered while 5 V was held.
ReturnsTo9V ==
    <>[](port.charger = "AFC" /\ ~port.refuses /\ ~muic.hold_5v /\ phase = "bound")
      => <>[]("FAST" \in extcon)
=============================================================================
