-------------------------------- MODULE S2MM005 -----------------------------
(***************************************************************************)
(* The S2MM005 USB-C controller driver: what it makes of the firmware's    *)
(* state (power supply, partner, data role, VBUS), and its delayed request *)
(* for a better PD contract.  Interrupt thread and work exclude each other *)
(* (s->update_lock), but each register is read on its own while firmware   *)
(* and partner move on.                                                    *)
(*                                                                         *)
(* The firmware, the partner and the VBUS regulator are external.  Time is *)
(* counted in half seconds, only as far as the select delay needs it.      *)
(***************************************************************************)
EXTENDS Integers, Sequences, FiniteSets

CONSTANTS
    SinkVolts,   \* voltages of the connector's sink-pdos, in mV
    Sources,     \* what sources offer: sequences of [fixed, mv, ma],
                 \* empty for one that does not speak PD
    RpLevels,    \* currents sources allow without PD, in mA
    CanSource,   \* the connector has the source and host role (BOOLEAN)
    Swaps,       \* partners swap power and data roles (BOOLEAN)
    Refuses,     \* sources may turn a request down (BOOLEAN)
    NewCaps,     \* sources send new capabilities by themselves (BOOLEAN)
    LateDetach,  \* a detach may fall inside select_work's locked section
    MaxEvents,   \* bound: attaches, detaches, swaps, resets, new capabilities
    MaxFaults    \* bound: failing transfers and calls

S2MM005_SELECT_DELAY == 2       \* 1 s
S2MM005_DEFAULT_MA   == 500
MaxId                == 8       \* message IDs have 3 bits

ASSUME PortAssumption ==
    /\ SinkVolts \subseteq Nat /\ RpLevels \subseteq Nat
    /\ \A c \in Sources : c \in Seq([fixed : BOOLEAN, mv : Nat, ma : Nat])
    /\ CanSource \in BOOLEAN /\ Swaps \in BOOLEAN /\ Refuses \in BOOLEAN
    /\ NewCaps \in BOOLEAN /\ LateDetach \in BOOLEAN
    /\ MaxEvents \in Nat /\ MaxFaults \in Nat

VARIABLES
    s,       \* struct s2mm005
    timer,   \* its select_work: half seconds left, -1 if not pending
    waiting, \* select_work runs and waits for update_lock
    h,       \* who holds update_lock, where, and what it has read
    fw,      \* the firmware: what its registers say
    irq,     \* its interrupt line is asserted
    pd,      \* the partner: what it offers, the contract, since when
    events, faults

driver == <<s, timer, waiting, h>>
vars   == <<s, timer, waiting, h, fw, irq, pd, events, faults>>

-----------------------------------------------------------------------------
(* State *)

NoCaps    == [id |-> 0, pdo |-> <<>>]
NoRequest == [pos |-> 0, ma |-> 0]
NoHeader  == [id |-> 0, cnt |-> 0]

\* FUNC_STATE: att is "none", "sink" (a source powers us) or "source"; pe is
\* the policy engine's state; ma what the source's pull-up allows.
Func0 == [att |-> "none", pe |-> "OTHER", dfp |-> FALSE, ma |-> S2MM005_DEFAULT_MA,
          reset |-> FALSE]

\* dpm: the policy manager was started; want: the object position to request;
\* rdo and caps: the buffers with the last Request and Source_Capabilities.
Firmware0 == [func |-> Func0, dpm |-> FALSE, want |-> 1, rdo |-> NoRequest,
              caps |-> NoCaps]

\* volts: VBUS as agreed (5 V without PD); slow: a half second began in a
\* negotiation; refused: positions it has turned down; plain: it came by cable
\* and has sent no capabilities but those it is asked for.
NoPartner == [offer |-> <<>>, volts |-> 5000, slow |-> FALSE, refused |-> {},
              plain |-> TRUE]

Unlocked == [op |-> "none", pc |-> "none", func |-> Func0, rdo |-> NoRequest,
             caps |-> NoCaps]
ZeroS    == [vbus |-> FALSE, role |-> "NONE", caps_header |-> NoHeader,
             partner |-> "none", attached |-> FALSE, pd |-> FALSE, mv |-> 0, ma |-> 0]

Probing == [Unlocked EXCEPT !.op = "probe", !.pc = "probe_clear"]

\* A source plugged in before probe() has no contract yet.
Init ==
    /\ s = ZeroS /\ timer = -1 /\ waiting = FALSE /\ irq = FALSE
    /\ h = Probing
    /\ \/ fw = Firmware0 /\ pd = NoPartner
       \/ \E ma \in RpLevels, c \in Sources :
             /\ fw = [Firmware0 EXCEPT !.func.att = "sink", !.func.ma = ma]
             /\ pd = [NoPartner EXCEPT !.offer = c]
    /\ events = 0 /\ faults = 0

\* A transfer or another call that works or fails.
Call(ok) ==
    /\ ok \in BOOLEAN
    /\ ok \/ faults < MaxFaults
    /\ faults' = IF ok THEN faults ELSE faults + 1

Goto(pc) == h' = [h EXCEPT !.pc = pc]

\* s2mm005_read_caps(): only a request for a fixed supply is a contract.
contract(rdo, caps) == rdo.pos \in 1..Len(caps.pdo) /\ caps.pdo[rdo.pos].fixed

\* Header of a Source_Capabilities message: its ID and number of objects.
header(caps) == [id |-> caps.id, cnt |-> Len(caps.pdo)]

-----------------------------------------------------------------------------
(* s2mm005_best_pdo() *)

mw(pdo) == (pdo.mv * pdo.ma) \div 1000

usable(pdo) == pdo.fixed /\ pdo.mv \in SinkVolts

\* Mutant: at the same power the first one stays.
better_first(p, q) == mw(p) > mw(q)

better(p, q) == mw(p) > mw(q) \/ (mw(p) = mw(q) /\ p.mv > q.mv)

\* The position the loop ends with, 0 if none is usable.
best_pdo(c) ==
    LET none == [fixed |-> TRUE, mv |-> 0, ma |-> 0]
        best[i \in 0..Len(c)] ==
          IF i = 0 THEN 0
          ELSE LET b == best[i - 1]
               IN  IF usable(c[i]) /\ better(c[i], IF b = 0 THEN none ELSE c[b])
                   THEN i ELSE b
    IN  best[Len(c)]

-----------------------------------------------------------------------------
(* s2mm005_update() *)

source(f)    == f.att = "source" /\ CanSource
attached(f)  == f.att = "sink"
connected(f) == source(f) \/ attached(f)
\* Across a power role swap too: ours off first, or the partner's.
vbus(f) == CanSource /\ ((source(f) /\ f.pe # "PRS_SRC_SNK_OFF")
                         \/ f.pe = "PRS_SNK_SRC_ON")
role(f) == IF ~connected(f) THEN "NONE"
           ELSE IF CanSource /\ f.dfp THEN "HOST" ELSE "DEVICE"

\* s2mm005_start_dpm(), in probe() and after a restart of the firmware, which
\* shows its reset flag until then or longer.
start_dpm(ok) ==
    \E reset \in BOOLEAN :
       /\ reset => fw.func.reset
       /\ fw' = [fw EXCEPT !.dpm = @ \/ (ok /\ CanSource), !.func.reset = reset]

\* probe() clears the interrupt, starts the policy manager and looks.
probe_clear ==
    /\ h.pc = "probe_clear"
    /\ \E ok \in BOOLEAN : Call(ok) /\ irq' = (irq /\ ~ok)
    /\ Goto("probe_dpm")
    /\ UNCHANGED <<waiting, s, timer, fw, pd, events>>

probe_dpm ==
    /\ h.pc = "probe_dpm"
    /\ \E ok \in BOOLEAN : Call(ok) /\ start_dpm(ok)
    /\ Goto("func")
    /\ UNCHANGED <<waiting, s, timer, irq, pd, events>>

\* A failing read ends the update.
update_func ==
    /\ h.pc = "func"
    /\ \E ok \in BOOLEAN :
          /\ Call(ok)
          /\ h' = IF ~ok THEN Unlocked
                  ELSE [h EXCEPT !.func = fw.func,
                                 !.pc = IF fw.func.reset THEN "reset" ELSE "vbus_on"]
    /\ UNCHANGED <<waiting, s, timer, fw, irq, pd, events>>

update_reset ==
    /\ h.pc = "reset"
    /\ \E ok \in BOOLEAN : Call(ok) /\ start_dpm(ok)
    /\ Goto("vbus_on")
    /\ UNCHANGED <<waiting, s, timer, irq, pd, events>>

\* Mutant: the host is started before VBUS is there.
update_vbus_later ==
    /\ h.pc = "vbus_on"
    /\ Goto("role")
    /\ UNCHANGED <<waiting, s, timer, fw, irq, pd, events, faults>>

\* s2mm005_set_vbus(true)
update_vbus_on ==
    /\ h.pc = "vbus_on"
    /\ \E ok \in BOOLEAN :
          /\ Call(ok) /\ (ok \/ (vbus(h.func) /\ ~s.vbus))
          /\ s' = [s EXCEPT !.vbus = @ \/ (ok /\ vbus(h.func))]
    /\ Goto("role")
    /\ UNCHANGED <<waiting, timer, fw, irq, pd, events>>

\* s2mm005_set_role()
update_role ==
    /\ h.pc = "role"
    /\ \E ok \in BOOLEAN :
          /\ Call(ok) /\ (ok \/ role(h.func) # s.role)
          /\ s' = IF ok THEN [s EXCEPT !.role = role(h.func)] ELSE s
    /\ Goto("vbus_off")
    /\ UNCHANGED <<waiting, timer, fw, irq, pd, events>>

\* s2mm005_set_vbus(false); without a source its capabilities are forgotten.
update_vbus_off ==
    /\ h.pc = "vbus_off"
    /\ \E ok \in BOOLEAN :
          /\ Call(ok) /\ (ok \/ (~vbus(h.func) /\ s.vbus))
          /\ s' = [s EXCEPT !.vbus = @ /\ (vbus(h.func) \/ ~ok),
                            !.caps_header = IF attached(h.func) THEN @ ELSE NoHeader]
    /\ timer' = IF attached(h.func) THEN timer ELSE -1
    /\ Goto(IF attached(h.func) /\ h.func.pe = "SNK_READY" THEN "request" ELSE "publish")
    /\ UNCHANGED <<waiting, fw, irq, pd, events>>

\* s2mm005_read_caps(), for update() and select_work: the request, then the
\* capabilities.  A failing read is no contract.
read_caps_request ==
    /\ h.pc = "request"
    /\ \E ok \in BOOLEAN :
          /\ Call(ok)
          /\ h' = IF ok THEN [h EXCEPT !.rdo = fw.rdo, !.pc = "caps"]
                  ELSE IF h.op = "work" THEN Unlocked ELSE [h EXCEPT !.pc = "publish"]
    /\ UNCHANGED <<waiting, s, timer, fw, irq, pd, events>>

\* A message not looked at yet schedules the work, unless it is scheduled.
update_caps ==
    /\ h.pc = "caps" /\ h.op # "work"
    /\ \E ok \in BOOLEAN :
          /\ Call(ok)
          /\ h' = [h EXCEPT !.caps = IF ok THEN fw.caps ELSE NoCaps, !.pc = "publish"]
          /\ IF /\ ok /\ contract(h.rdo, fw.caps) /\ SinkVolts # {}
                /\ header(fw.caps) # s.caps_header
             THEN /\ s' = [s EXCEPT !.caps_header = header(fw.caps)]
                  /\ timer' = IF timer = -1 THEN S2MM005_SELECT_DELAY ELSE timer
             ELSE UNCHANGED <<s, timer>>
    /\ UNCHANGED <<waiting, fw, irq, pd, events>>

\* The supply's properties: the contract, else what the pull-up allows.
Supply(f, rdo, caps) ==
    LET is_pd == attached(f) /\ f.pe = "SNK_READY" /\ contract(rdo, caps)
    IN  [attached |-> attached(f), pd |-> is_pd,
         mv |-> IF is_pd THEN caps.pdo[rdo.pos].mv ELSE 5000,
         ma |-> IF is_pd THEN rdo.ma
                ELSE IF attached(f) THEN f.ma ELSE S2MM005_DEFAULT_MA]

\* s2mm005_psy_get_property(): without a source there is neither voltage nor
\* current.
get_property ==
    [online |-> s.attached, usb_type |-> IF s.pd THEN "PD" ELSE "C",
     voltage_now |-> IF s.attached THEN s.mv ELSE 0,
     current_max |-> IF s.attached THEN s.ma ELSE 0]

\* Mutant: the partner is registered once and keeps its first description.
update_publish_once ==
    /\ h.pc = "publish"
    /\ LET now == Supply(h.func, h.rdo, h.caps)
       IN  s' = [s EXCEPT !.attached = now.attached, !.pd = now.pd, !.mv = now.mv,
                          !.ma = now.ma,
                          !.partner = IF ~connected(h.func) THEN "none"
                                      ELSE IF @ # "none" THEN @
                                      ELSE IF now.pd THEN "pd" ELSE "typec"]
    /\ h' = Unlocked
    /\ UNCHANGED <<waiting, timer, fw, irq, pd, events, faults>>

\* Under s->lock: partner and supply change together.  The contract usually
\* follows the attach: the partner is then registered again.
update_publish ==
    /\ h.pc = "publish"
    /\ LET now  == Supply(h.func, h.rdo, h.caps)
           keep == s.partner # "none" /\ now.pd = s.pd
       IN  \E ok \in BOOLEAN :
             /\ Call(ok) /\ (ok \/ (connected(h.func) /\ ~keep))
             /\ s' = [s EXCEPT !.attached = now.attached, !.pd = now.pd, !.mv = now.mv,
                               !.ma = now.ma,
                               !.partner = IF ~connected(h.func) \/ ~ok THEN "none"
                                           ELSE IF keep THEN @
                                           ELSE IF now.pd THEN "pd" ELSE "typec"]
    /\ h' = Unlocked
    /\ UNCHANGED <<waiting, timer, fw, irq, pd, events>>

update == update_func \/ update_reset \/ update_vbus_on \/ update_role
          \/ update_vbus_off \/ read_caps_request \/ update_caps \/ update_publish

\* s2mm005_irq(): a failing status read handles nothing.
irq_status ==
    /\ irq /\ h.op = "none"
    /\ \E ok \in BOOLEAN :
          /\ Call(ok)
          /\ h' = IF ok THEN [Unlocked EXCEPT !.op = "irq", !.pc = "clear"] ELSE h
    /\ UNCHANGED <<waiting, s, timer, fw, irq, pd, events>>

\* Cleared before the state is read; if that fails, the line stays asserted.
irq_clear ==
    /\ h.pc = "clear"
    /\ \E ok \in BOOLEAN : Call(ok) /\ irq' = ~ok
    /\ Goto("func")
    /\ UNCHANGED <<waiting, s, timer, fw, pd, events>>

-----------------------------------------------------------------------------
(* s2mm005_select_work() *)

select_run ==
    /\ timer = 0 /\ ~waiting /\ h.op # "work"
    /\ timer' = -1 /\ waiting' = TRUE
    /\ UNCHANGED <<s, h, fw, irq, pd, events, faults>>

select_lock ==
    /\ waiting /\ h.op = "none"
    /\ waiting' = FALSE
    /\ h' = [Unlocked EXCEPT !.op = "work", !.pc = "select_func"]
    /\ UNCHANGED <<s, timer, fw, irq, pd, events, faults>>

\* Still the contract that scheduled us?
select_func ==
    /\ h.pc = "select_func"
    /\ \E ok \in BOOLEAN :
          /\ Call(ok)
          /\ h' = IF ok /\ fw.func.att = "sink" /\ fw.func.pe = "SNK_READY"
                  THEN [h EXCEPT !.pc = "request"] ELSE Unlocked
    /\ UNCHANGED <<waiting, s, timer, fw, irq, pd, events>>

select_caps ==
    /\ h.pc = "caps" /\ h.op = "work"
    /\ \E ok \in BOOLEAN, best \in {best_pdo(fw.caps.pdo)} :
          /\ Call(ok)
          /\ h' = IF /\ ok /\ contract(h.rdo, fw.caps)
                     /\ header(fw.caps) = s.caps_header
                     /\ best # 0 /\ best # h.rdo.pos
                  THEN [h EXCEPT !.rdo.pos = best, !.pc = "select"]
                  ELSE Unlocked
    /\ UNCHANGED <<waiting, s, timer, fw, irq, pd, events>>

\* s2mm005_select_pdo(): the position, then back to waiting for capabilities.
select_pdo ==
    /\ h.pc = "select"
    /\ \E ok \in BOOLEAN :
          Call(ok) /\ fw' = IF ok THEN [fw EXCEPT !.want = h.rdo.pos] ELSE fw
    /\ Goto("next_state")
    /\ UNCHANGED <<waiting, s, timer, irq, pd, events>>

\* The firmware fetches the capabilities again, if PD still powers it.
select_next_state ==
    /\ h.pc = "next_state"
    /\ \E ok \in BOOLEAN :
          /\ Call(ok)
          /\ fw' = IF ok /\ fw.func.att = "sink" /\ fw.func.pe = "SNK_READY"
                   THEN [fw EXCEPT !.func.pe = "WAIT_CAPS"] ELSE fw
    /\ h' = Unlocked
    /\ UNCHANGED <<waiting, s, timer, irq, pd, events>>

\* Unbinding frees the interrupt, cancels the work and puts the port down
\* (s2mm005_unregister_port()); the driver is then bound again.
unbind ==
    /\ h.op = "none" /\ ~waiting /\ events < MaxEvents /\ events' = events + 1
    /\ timer' = -1 /\ s' = [s EXCEPT !.role = "NONE"]
    /\ h' = [Unlocked EXCEPT !.op = "unbind", !.pc = "unbind_vbus"]
    /\ UNCHANGED <<waiting, fw, irq, pd, faults>>

unbind_vbus ==
    /\ h.pc = "unbind_vbus"
    /\ s' = ZeroS /\ h' = Probing
    /\ UNCHANGED <<waiting, timer, fw, irq, pd, events, faults>>

select_work == select_run \/ select_lock \/ select_func \/ select_caps
               \/ select_pdo \/ select_next_state

-----------------------------------------------------------------------------
(* External: firmware, partner, time *)

Event == events < MaxEvents /\ events' = events + 1

\* The firmware debounces: whoever waits for the lock at a detach has had it
\* before the next attach.
attach ==
    /\ fw.func.att = "none" /\ h.op = "none" /\ ~irq /\ ~waiting /\ Event
    /\ \/ \E ma \in RpLevels, c \in Sources :
             /\ fw' = [fw EXCEPT !.func.att = "sink", !.func.ma = ma]
             /\ pd' = [NoPartner EXCEPT !.offer = c]
       \/ /\ fw' = [fw EXCEPT !.func.att = "source", !.func.dfp = TRUE]
          /\ pd' = NoPartner
    /\ irq' = TRUE
    /\ UNCHANGED <<driver, faults>>

\* A detach puts the position back to 1, and so does a restart of the firmware,
\* which also forgets the policy manager.
detach ==
    /\ fw.func.att # "none" /\ Event
    /\ LateDetach \/ h.op # "work"
    /\ \E restart \in BOOLEAN :
          fw' = [fw EXCEPT !.func = [Func0 EXCEPT !.reset = restart \/ fw.func.reset],
                           !.dpm = @ /\ ~restart, !.want = 1]
    /\ pd' = NoPartner /\ irq' = TRUE
    /\ UNCHANGED <<driver, faults>>

\* Source_Capabilities: the first after the attach, one fetched again, or one
\* the source sends by itself, perhaps with another offer.
source_caps(offer) ==
    /\ fw.func.att = "sink" /\ offer # <<>>
    /\ fw' = [fw EXCEPT !.func.pe = "REQUEST",
                        !.caps = [id  |-> IF fw.func.pe = "OTHER" THEN 0
                                          ELSE (fw.caps.id + 1) % MaxId,
                                  pdo |-> offer]]
    /\ irq' = TRUE
    /\ UNCHANGED <<driver, faults>>

source_caps_due ==
    /\ fw.func.pe \in {"OTHER", "WAIT_CAPS"}
    /\ source_caps(pd.offer)
    /\ UNCHANGED <<pd, events>>

source_caps_new ==
    /\ NewCaps /\ fw.func.pe = "SNK_READY" /\ Event
    /\ \E c \in Sources :
          /\ source_caps(c)
          /\ pd' = [pd EXCEPT !.offer = c, !.refused = {}, !.plain = FALSE]

\* The firmware's request, for the wanted position (the first, if there are
\* fewer): accepted, or turned down for another one than before.
request ==
    /\ fw.func.pe = "REQUEST"
    /\ LET pos == IF fw.want \in 1..Len(pd.offer) THEN fw.want ELSE 1
           pdo == pd.offer[pos]
       IN  /\ fw' = [fw EXCEPT !.rdo = [pos |-> pos, ma |-> pdo.ma],
                               !.func.pe = "SNK_READY"]
           /\ \/ pd' = [pd EXCEPT !.volts = pdo.mv, !.slow = FALSE]
              \/ /\ Refuses /\ pos # 1
                 /\ pd' = [pd EXCEPT !.refused = @ \union {pos}, !.slow = FALSE]
    /\ irq' = TRUE
    /\ UNCHANGED <<driver, events, faults>>

\* Data role swaps, and power role swaps, which the partner begins ...
swap ==
    /\ Swaps /\ fw.func.att # "none" /\ fw.func.pe \in {"OTHER", "SNK_READY"} /\ Event
    /\ \/ fw' = [fw EXCEPT !.func.dfp = ~@]
       \/ /\ fw.func.att = "source"
          /\ fw' = [fw EXCEPT !.func.pe = "PRS_SRC_SNK_OFF"]
       \/ /\ CanSource /\ fw.func.pe = "SNK_READY"
          /\ fw' = [fw EXCEPT !.func.pe = "PRS_SNK_SRC_ON"]
    /\ irq' = TRUE
    /\ UNCHANGED <<driver, pd, faults>>

\* ... and the firmware ends once the driver's VBUS is off or on.
swap_done ==
    /\ \/ /\ fw.func.pe = "PRS_SRC_SNK_OFF" /\ ~s.vbus
          /\ \E ma \in RpLevels, c \in Sources :
                /\ fw' = [fw EXCEPT !.func.att = "sink", !.func.pe = "OTHER", !.func.ma = ma]
                /\ pd' = [NoPartner EXCEPT !.offer = c, !.plain = FALSE]
       \/ /\ fw.func.pe = "PRS_SNK_SRC_ON" /\ s.vbus
          /\ fw' = [fw EXCEPT !.func.att = "source", !.func.pe = "OTHER"]
          /\ pd' = NoPartner
    /\ irq' = TRUE
    /\ UNCHANGED <<driver, events, faults>>

\* Time passes for the work.  One that is due runs, and the partner answers a
\* request within half a second.
tick ==
    /\ timer > 0 /\ ~(pd.slow /\ fw.func.pe = "REQUEST")
    /\ timer' = timer - 1
    /\ pd' = [pd EXCEPT !.slow = (fw.func.pe = "REQUEST")]
    /\ UNCHANGED <<waiting, s, h, fw, irq, events, faults>>

Next == \/ probe_clear \/ probe_dpm \/ update \/ irq_status \/ irq_clear \/ select_work
        \/ unbind \/ unbind_vbus
        \/ attach \/ detach \/ source_caps_due \/ source_caps_new \/ request \/ swap \/ swap_done
        \/ tick

Spec == Init /\ [][Next]_vars

\* Lock holders run, the interrupt thread and the work get the lock, time
\* passes and the firmware negotiates; partners owe nothing.
Fairness ==
    /\ WF_vars(probe_clear \/ probe_dpm \/ unbind_vbus \/ update \/ irq_clear)
    /\ WF_vars(select_func \/ select_caps \/ select_pdo \/ select_next_state)
    /\ SF_vars(irq_status) /\ WF_vars(select_run) /\ SF_vars(select_lock)
    /\ WF_vars(tick) /\ WF_vars(source_caps_due) /\ WF_vars(request)
    /\ WF_vars(swap_done)

FairSpec == Spec /\ Fairness

-----------------------------------------------------------------------------
(* Properties *)

Quiet == h.op = "none" /\ ~irq

\* On a working bus, once no interrupt waits and the firmware is not about to negotiate again,
\* supply, partner, data role and VBUS are those of the registers as they are
\* now, although the firmware moved on while s2mm005_update() read them one by
\* one.
PortApplied ==
    Quiet /\ faults = 0 /\ fw.func.pe # "WAIT_CAPS" =>
      LET now == Supply(fw.func, fw.rdo, fw.caps)
      IN  /\ get_property = [online |-> now.attached, usb_type |-> IF now.pd THEN "PD" ELSE "C",
                             voltage_now |-> IF now.attached THEN now.mv ELSE 0,
                             current_max |-> IF now.attached THEN now.ma ELSE 0]
          /\ s.role = role(fw.func) /\ s.vbus = vbus(fw.func)
          /\ s.partner = IF ~connected(fw.func) THEN "none"
                         ELSE IF now.pd THEN "pd" ELSE "typec"

\* As long as no call failed, s2mm005_update() has VBUS on before the host
\* starts on it, and stops the host before VBUS goes, unless a role swap leaves
\* the host to the partner's.
HostHasVbus ==
    [][/\ s'.role = "HOST" /\ s.role # "HOST" /\ vbus(h.func) /\ faults' = 0 => s.vbus
       /\ s.vbus /\ ~s'.vbus /\ s.role = "HOST" /\ faults' = 0 => connected(h.func)]_vars

\* Whatever fails, every contract is at one of the connector's sink-pdos
\* voltages, or at the 5 V of the first capability, unless the source changes
\* what it offers by itself (README, section 4).
ContractAllowed == pd.plain => pd.volts \in SinkVolts \union {5000}

\* On a working bus, whatever was there before and however roles are swapped, a
\* source that came by cable, turns nothing down and keeps its offer ends at a
\* contract for the most power at an allowed voltage, at the higher voltage of
\* two with the same power.
EndsAtBest ==
    LET power(p)  == (p.mv * p.ma) \div 1000
        good      == {i \in 1..Len(pd.offer) : /\ pd.offer[i].fixed
                                              /\ pd.offer[i].mv \in SinkVolts}
        loses(i)  == \E j \in good : LET p == pd.offer[i] q == pd.offer[j]
                                    IN  \/ power(q) > power(p)
                                        \/ power(q) = power(p) /\ q.mv > p.mv
    IN  <>[](good # {} /\ faults = 0 /\ pd.refused = {} /\ pd.plain =>
               /\ fw.func.pe = "SNK_READY"
               /\ fw.rdo.pos \in good /\ ~loses(fw.rdo.pos))

\* The voltage the supply reports under PD is the contract's.
\* It does not hold: README, section 4.
ContractReported ==
    Quiet /\ get_property.usb_type = "PD" => get_property.voltage_now = pd.volts
=============================================================================
