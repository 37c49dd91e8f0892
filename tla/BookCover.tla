----------------------------- MODULE BookCover ------------------------------
(***************************************************************************)
(* The Book Cover keyboard: an STMPE1801 behind an I2C bus that is added   *)
(* and removed as the MUIC reports the cover (EXTCON_DOCK).  Three threads *)
(* share the controller: the hot plug work, which probes and removes the   *)
(* MFD and the keypad, the keypad's health poll, and the interrupt thread. *)
(* A transfer is one step (stmpe->lock); between two of them the cover may *)
(* lose its power, and with it every register, without anyone noticing.    *)
(***************************************************************************)
EXTENDS Naturals, FiniteSets

CONSTANTS
    Depth,      \* the keypad's FIFO and the reads of one drain (10 in the code)
    MaxMoves,   \* bound: the cover goes or comes
    MaxKeys,    \* bound: key events
    MaxFaults   \* bound: failing transfers of a powered chip, failing calls

ASSUME CoverAssumption ==
    /\ Depth \in Nat \ {0}
    /\ MaxMoves \in Nat /\ MaxKeys \in Nat /\ MaxFaults \in Nat

VARIABLES
    cover,    \* the cover is on the pogo pins
    dock,     \* the MUIC's EXTCON_DOCK
    hp,       \* struct i2c_hotplug_priv: its work queued, algo_data, unbound
    st,       \* struct stmpe, its supply, IRQ domain and interrupt
    kp,       \* struct stmpe_keypad
    chip,     \* the STMPE1801
    pc,       \* where the hot plug work and the health poll are
    irqt,     \* the interrupt thread
    torn,     \* history: a set-up was cut short since the bus was last removed
    moves, keys, faults

vars == <<cover, dock, hp, st, kp, chip, pc, irqt, torn, moves, keys, faults>>

-----------------------------------------------------------------------------
(* State *)

Lines  == {"key", "over"}        \* STMPE1801_IRQ_KEYPAD, ..._KEYPAD_OVER
Config == {"cols_lsb", "cols_msb", "rows", "scan_count", "debounce"}

\* icr: ICR written; ier: interrupt enables; regs: keypad registers that hold
\* the driver's values; isr: interrupt status; fifo: key events.
Chip0  == [icr |-> FALSE, ier |-> {}, regs |-> {}, scan |-> FALSE, isr |-> {}, fifo |-> 0]

\* l6: the supply is enabled; domain, irq: IRQ domain, interrupt requested;
\* ier, oldier: the software's enables.
Stmpe0 == [bound |-> FALSE, l6 |-> FALSE, domain |-> FALSE, irq |-> FALSE,
           ier |-> {}, oldier |-> {}]

\* irqs: the keypad's interrupts requested; input: its input device.
Keypad0 == [bound |-> FALSE, irqs |-> {}, input |-> FALSE, present |-> FALSE]

Irq0 == [pc |-> "idle", lines |-> {}, n |-> 0]

powered == cover /\ st.l6

\* The probe finds the cover on or off; notifier and work are set up.
Init ==
    /\ cover \in BOOLEAN /\ dock = cover
    /\ hp = [work |-> TRUE, bus |-> FALSE, gone |-> FALSE]
    /\ st = Stmpe0 /\ kp = Keypad0 /\ chip = Chip0
    /\ pc = [hotplug |-> "idle", health |-> "off"]
    /\ irqt = Irq0 /\ torn = FALSE
    /\ moves = 0 /\ keys = 0 /\ faults = 0

Goto(p, s) == pc' = [pc EXCEPT ![p] = s]

\* A call outside the chip that works or fails.
Call(ok) ==
    /\ ok \in BOOLEAN
    /\ ok \/ faults < MaxFaults
    /\ faults' = IF ok THEN faults ELSE faults + 1

\* A transfer: never works without power, may fail with it.
Xfer(ok) ==
    IF powered THEN Call(ok) ELSE ok = FALSE /\ UNCHANGED faults

setting_up ==
    pc.hotplug \notin {"idle", "adc", "cancel", "scan_off", "disable", "free", "release"}
    \/ pc.health \notin {"off", "idle", "canary"}

env  == <<cover, dock, moves, keys>>

-----------------------------------------------------------------------------
(* i2c-hotplug-gpio.c *)

\* Mutant: a change while the work runs is taken as seen.
notify_idle(state) == hp' = [hp EXCEPT !.work = ~hp.gone /\ pc.hotplug = "idle"]

\* i2c_hotplug_extcon_notify(): schedule_work() only.
notify(state) == hp' = [hp EXCEPT !.work = ~hp.gone]

\* i2c_hotplug_extcon_work(): the state is the one it reads now.
\* i2c_hotplug_activate() and _deactivate() do nothing twice.
extcon_work ==
    /\ hp.work /\ pc.hotplug = "idle"
    /\ hp' = [hp EXCEPT !.work = FALSE]
    /\ Goto("hotplug", IF dock = hp.bus THEN "idle"
                       ELSE IF dock THEN "add"
                       ELSE IF st.bound THEN "adc" ELSE "release")
    /\ UNCHANGED <<st, kp, chip, irqt, torn, faults, env>>

\* i2c_add_adapter(): registers the adapter, then probes its devices.
add_adapter(ok) ==
    /\ pc.hotplug = "add" /\ Call(ok)
    /\ Goto("hotplug", IF ok THEN "vcc" ELSE "idle")
    /\ torn' = (torn \/ ~ok)
    /\ UNCHANGED <<hp, st, kp, chip, irqt, env>>

\* The driver is unbound: notifier off, work cancelled (a running one ends
\* first), then the adapter goes.
unbind ==
    /\ ~hp.gone /\ pc.hotplug = "idle"
    /\ hp' = [hp EXCEPT !.gone = TRUE, !.work = FALSE]
    /\ Goto("hotplug", IF ~hp.bus THEN "idle" ELSE IF st.bound THEN "adc" ELSE "release")
    /\ UNCHANGED <<st, kp, chip, irqt, torn, faults, env>>

-----------------------------------------------------------------------------
(* stmpe.c, probe *)

\* The adapter stays, with or without a driver bound to its device.
added == Goto("hotplug", "idle") /\ hp' = [hp EXCEPT !.bus = TRUE]

\* A failing regulator_enable() is only warned about.
vcc(ok) ==
    /\ pc.hotplug = "vcc" /\ Call(ok)
    /\ st' = [st EXCEPT !.l6 = ok]
    /\ chip' = Chip0
    /\ torn' = (torn \/ ~ok)
    /\ Goto("hotplug", "id")
    /\ UNCHANGED <<hp, kp, irqt, env>>

\* stmpe_chip_init(): identify, disable every block, reset, write ICR.  A
\* failed probe releases what it has.
chip_init(ok) ==
    LET next == [id |-> "disable_all", disable_all |-> "reset", reset |-> "icr",
                 icr |-> "irq_init"]
    IN  /\ pc.hotplug \in DOMAIN next /\ Xfer(ok)
        /\ chip' = IF ~ok THEN chip
                   ELSE IF pc.hotplug = "disable_all" THEN [chip EXCEPT !.ier = @ \ {"key"}]
                   ELSE IF pc.hotplug = "reset" THEN Chip0
                   ELSE IF pc.hotplug = "icr" THEN [chip EXCEPT !.icr = TRUE]
                   ELSE chip
        /\ Goto("hotplug", IF ok THEN next[pc.hotplug] ELSE "release")
        /\ torn' = (torn \/ ~ok)
        /\ UNCHANGED <<hp, st, kp, irqt, env>>

\* stmpe_irq_init(), the interrupt, stmpe_devices_init().
irq_init(ok) ==
    /\ pc.hotplug = "irq_init" /\ Call(ok)
    /\ st' = IF ok THEN [st EXCEPT !.bound = TRUE, !.domain = TRUE, !.irq = TRUE] ELSE st
    /\ torn' = (torn \/ ~ok)
    /\ Goto("hotplug", IF ok THEN "enable" ELSE "release")
    /\ UNCHANGED <<hp, kp, chip, irqt, env>>

\* devres of the MFD: interrupt, then domain, then supply.  After a failed
\* probe the adapter stays; otherwise i2c_del_adapter() ends here.
release ==
    /\ pc.hotplug = "release" /\ irqt.pc = "idle"
    /\ st' = Stmpe0 /\ chip' = Chip0
    /\ hp' = [hp EXCEPT !.bus = ~hp.bus]
    /\ torn' = (torn /\ ~hp.bus)
    /\ Goto("hotplug", "idle")
    /\ UNCHANGED <<kp, irqt, faults, env>>

-----------------------------------------------------------------------------
(* stmpe.c, interrupts *)

line == powered /\ chip.icr /\ chip.isr \cap chip.ier # {}

\* stmpe_irq(): reading the status clears it; lines that are not enabled in
\* the software are dropped.  A failed read: IRQ_NONE, the line stays.
irq_read(ok) ==
    /\ irqt.pc = "idle" /\ st.irq /\ line /\ Xfer(ok)
    /\ chip' = IF ok THEN [chip EXCEPT !.isr = {}] ELSE chip
    /\ irqt' = IF ok THEN [pc |-> "drain", lines |-> chip.isr \cap st.ier, n |-> 0] ELSE irqt
    /\ UNCHANGED <<hp, st, kp, pc, torn, env>>

\* The next line with a handler, or the end.
irq_next(lines) ==
    IF lines = {} THEN Irq0 ELSE [pc |-> "drain", lines |-> lines, n |-> 0]

\* Mutant: one entry per interrupt is enough.
drain_one(ok) ==
    LET l == CHOOSE x \in irqt.lines : TRUE
    IN  /\ irqt.pc = "drain" /\ irqt.lines # {} /\ Xfer(ok)
        /\ chip' = IF ok /\ chip.fifo > 0 THEN [chip EXCEPT !.fifo = @ - 1] ELSE chip
        /\ irqt' = irq_next(irqt.lines \ {l})
        /\ UNCHANGED <<hp, st, kp, pc, torn, env>>

\* Mutant: a read that is too long takes the next entry too.
drain_two(ok) ==
    LET l == CHOOSE x \in irqt.lines : TRUE
    IN  /\ irqt.pc = "drain" /\ irqt.lines # {} /\ Xfer(ok)
        /\ IF ok /\ chip.fifo > 0
           THEN /\ chip' = [chip EXCEPT !.fifo = IF @ > 1 THEN @ - 2 ELSE 0]
                /\ irqt' = IF irqt.n + 1 < Depth THEN [irqt EXCEPT !.n = @ + 1]
                           ELSE irq_next(irqt.lines \ {l})
           ELSE UNCHANGED chip /\ irqt' = irq_next(irqt.lines \ {l})
        /\ UNCHANGED <<hp, st, kp, pc, torn, env>>

\* stmpe_keypad_drain_fifo() for one line, one read: up to Depth entries,
\* until the chip reports none.  A failed read leaves the rest.
drain(ok) ==
    LET l == CHOOSE x \in irqt.lines : TRUE
    IN  /\ irqt.pc = "drain" /\ irqt.lines # {} /\ Xfer(ok)
        /\ IF ok /\ chip.fifo > 0
           THEN /\ chip' = [chip EXCEPT !.fifo = @ - 1]
                /\ irqt' = IF irqt.n + 1 < Depth THEN [irqt EXCEPT !.n = @ + 1]
                           ELSE irq_next(irqt.lines \ {l})
           ELSE UNCHANGED chip /\ irqt' = irq_next(irqt.lines \ {l})
        /\ UNCHANGED <<hp, st, kp, pc, torn, env>>

\* A line without a handler: handle_nested_irq() does nothing.
irq_end ==
    /\ irqt.pc = "drain" /\ irqt.lines = {}
    /\ irqt' = Irq0
    /\ UNCHANGED <<hp, st, kp, chip, pc, torn, faults, env>>

\* stmpe_irq_mask() or _unmask() and stmpe_irq_sync_unlock(): oldier follows
\* before the write, whose result is not looked at.
sync(ier, ok) ==
    /\ Xfer(ok)
    /\ st' = [st EXCEPT !.ier = ier, !.oldier = ier]
    /\ chip' = IF ok /\ ier # st.oldier THEN [chip EXCEPT !.ier = ier] ELSE chip

-----------------------------------------------------------------------------
(* stmpe-keypad.c: set-up, by the probe and by the health poll *)

after == [enable |-> "cols_lsb", cols_lsb |-> "cols_msb", cols_msb |-> "rows",
          rows |-> "scan_count", scan_count |-> "debounce"]

\* stmpe_keypad_chip_init(): enable the block and write its registers; what
\* fails after that disables it again.  (The STMPE1801 has no altfunc.)
keypad_chip_init(p, ok) ==
    LET op == pc[p]
    IN  /\ op \in Config \cup {"enable"} /\ Xfer(ok)
        /\ chip' = IF ~ok THEN chip
                   ELSE IF op = "enable" THEN [chip EXCEPT !.ier = @ \cup {"key"}]
                   ELSE [chip EXCEPT !.regs = @ \cup {op}]
        /\ IF ok THEN Goto(p, IF op \in DOMAIN after THEN after[op]
                              ELSE IF p = "health" THEN "scan" ELSE "request")
                      /\ UNCHANGED <<hp, kp>>
           ELSE IF op # "enable" THEN Goto(p, "disable") /\ UNCHANGED <<hp, kp>>
           ELSE IF p = "health"
           THEN /\ Goto(p, "idle") /\ UNCHANGED hp
                /\ kp' = [kp EXCEPT !.present = FALSE]
           ELSE added /\ UNCHANGED kp
        /\ torn' = (torn \/ ~ok)
        /\ UNCHANGED <<st, irqt, env>>

\* probe(): both interrupts.
request(ok) ==
    /\ pc.hotplug \in {"request", "request_over"}
    /\ LET over == pc.hotplug = "request_over"
           l    == IF over THEN "over" ELSE "key"
       IN  /\ sync(st.ier \cup {l}, ok)
           /\ kp' = [kp EXCEPT !.irqs = @ \cup {l}]
           /\ Goto("hotplug", IF over THEN "register" ELSE "request_over")
    /\ torn' = (torn \/ ~ok)
    /\ UNCHANGED <<hp, irqt, env>>

\* probe(): the input device, or one of the two requests, may be refused.
register(ok) ==
    /\ pc.hotplug = "register" /\ Call(ok)
    /\ kp' = [kp EXCEPT !.input = ok]
    /\ Goto("hotplug", IF ok THEN "scan" ELSE "disable")
    /\ torn' = (torn \/ ~ok)
    /\ UNCHANGED <<hp, st, chip, irqt, env>>

\* stmpe_keypad_start(), the last step of both; then the poll is scheduled.
start(p, ok) ==
    /\ pc[p] = "scan" /\ Xfer(ok)
    /\ chip' = IF ok THEN [chip EXCEPT !.scan = TRUE] ELSE chip
    /\ IF ~ok THEN Goto(p, "scan_off") /\ UNCHANGED <<hp, kp>>
       ELSE /\ kp' = [kp EXCEPT !.bound = TRUE, !.present = TRUE]
            /\ pc' = [hotplug |-> IF p = "hotplug" THEN "idle" ELSE pc.hotplug,
                      health  |-> "idle"]
            /\ hp' = [hp EXCEPT !.bus = TRUE]
    /\ torn' = (torn \/ ~ok)
    /\ UNCHANGED <<st, irqt, env>>

\* stmpe_keypad_stop(), and the clean-up of stmpe_keypad_start(): the results
\* are only reported.
stop_scan(p, ok) ==
    /\ pc[p] = "scan_off" /\ Xfer(ok)
    /\ chip' = IF ok THEN [chip EXCEPT !.scan = FALSE] ELSE chip
    /\ Goto(p, "disable")
    /\ UNCHANGED <<hp, st, kp, irqt, torn, env>>

\* stmpe_keypad_disable(): the block's interrupt enable, in the chip only.
keypad_disable(p, ok) ==
    /\ pc[p] = "disable" /\ Xfer(ok)
    /\ chip' = IF ok THEN [chip EXCEPT !.ier = @ \ {"key"}] ELSE chip
    /\ IF p = "health"
       THEN Goto(p, "idle") /\ kp' = [kp EXCEPT !.present = FALSE]
       ELSE Goto(p, "free") /\ UNCHANGED kp
    /\ UNCHANGED <<hp, st, irqt, torn, env>>

\* devres of the keypad, after its removal or a failed probe: input device,
\* then the interrupts in reverse (free_irq() waits for their handlers).
free(ok) ==
    /\ pc.hotplug = "free" /\ irqt.pc = "idle"
    /\ IF kp.irqs # {}
       THEN LET l == IF "over" \in kp.irqs THEN "over" ELSE "key"
            IN  /\ sync(st.ier \ {l}, ok)
                /\ kp' = [kp EXCEPT !.irqs = @ \ {l}, !.input = FALSE]
                /\ UNCHANGED <<hp, pc>>
       ELSE /\ ok /\ kp' = Keypad0
            /\ UNCHANGED <<st, chip, faults>>
            /\ IF hp.bus THEN Goto("hotplug", "release") /\ UNCHANGED hp ELSE added
    /\ UNCHANGED <<irqt, torn, env>>

\* Mutant: the domain goes before the children, as in mainline 57bf2a312ab2.
remove_domain(ok) ==
    /\ pc.hotplug = "adc" /\ Xfer(ok)
    /\ st' = [st EXCEPT !.domain = FALSE]
    /\ Goto("hotplug", IF kp.bound THEN "cancel" ELSE "release")
    /\ UNCHANGED <<hp, kp, chip, irqt, torn, env>>

\* stmpe_remove(): __stmpe_disable() of a block the STMPE1801 has not, which
\* writes back what it read; then the keypad, if its probe worked.
remove(ok) ==
    /\ pc.hotplug = "adc" /\ Xfer(ok)
    /\ Goto("hotplug", IF kp.bound THEN "cancel" ELSE "release")
    /\ UNCHANGED <<hp, st, kp, chip, irqt, torn, env>>

\* stmpe_keypad_remove(): cancel_delayed_work_sync() waits for a running poll.
cancel_health ==
    /\ pc.hotplug = "cancel" /\ pc.health = "idle"
    /\ pc' = [hotplug |-> "scan_off", health |-> "off"]
    /\ UNCHANGED <<hp, st, kp, chip, irqt, torn, faults, env>>

-----------------------------------------------------------------------------
(* stmpe-keypad.c: stmpe_keypad_health_work(); "idle" is scheduled *)

poll ==
    /\ pc.health = "idle" /\ pc.hotplug # "cancel"
    /\ Goto("health", "canary")
    /\ UNCHANGED <<hp, st, kp, chip, irqt, torn, faults, env>>

\* The low column register tells a power cycle.
canary(ok) ==
    /\ pc.health = "canary" /\ Xfer(ok)
    /\ Goto("health", IF ok /\ "cols_lsb" \notin chip.regs THEN "icr" ELSE "idle")
    /\ kp' = [kp EXCEPT !.present = IF ~ok THEN FALSE
                                    ELSE IF "cols_lsb" \in chip.regs THEN TRUE ELSE @]
    /\ UNCHANGED <<hp, st, chip, irqt, torn, env>>

\* stmpe_restore_irq_setup(): ICR, then IER.
restore_irq_setup(ok) ==
    /\ pc.health \in {"icr", "ier"} /\ Xfer(ok)
    /\ chip' = IF ~ok THEN chip
               ELSE IF pc.health = "icr" THEN [chip EXCEPT !.icr = TRUE]
               ELSE [chip EXCEPT !.ier = st.ier]
    /\ st' = IF pc.health = "ier" THEN [st EXCEPT !.oldier = st.ier] ELSE st
    /\ IF ok THEN Goto("health", IF pc.health = "icr" THEN "ier" ELSE "enable") /\ UNCHANGED kp
             ELSE Goto("health", "idle") /\ kp' = [kp EXCEPT !.present = FALSE]
    /\ torn' = (torn \/ ~ok)
    /\ UNCHANGED <<hp, irqt, env>>

-----------------------------------------------------------------------------
(* The cover, its keys and the MUIC *)

\* The cover goes or comes: what the chip knew is gone.
move ==
    /\ moves < MaxMoves /\ moves' = moves + 1
    /\ cover' = ~cover /\ chip' = Chip0
    /\ torn' = (torn \/ setting_up)
    /\ UNCHANGED <<dock, hp, st, kp, pc, irqt, keys, faults>>

\* The MUIC's detection, some time later: a short absence is not seen.
detect ==
    /\ dock # cover /\ dock' = cover
    /\ notify(dock')
    /\ UNCHANGED <<cover, st, kp, chip, pc, irqt, torn, moves, keys, faults>>

\* A key goes down or up while the matrix is scanned.
press ==
    /\ keys < MaxKeys /\ keys' = keys + 1
    /\ powered /\ chip.scan /\ {"cols_lsb", "rows"} \subseteq chip.regs
    /\ chip' = IF chip.fifo < Depth THEN [chip EXCEPT !.fifo = @ + 1, !.isr = @ \cup {"key"}]
                                    ELSE [chip EXCEPT !.isr = @ \cup {"over"}]
    /\ UNCHANGED <<cover, dock, hp, st, kp, pc, irqt, torn, moves, faults>>

-----------------------------------------------------------------------------
(* The specification *)

HotplugStep ==
    \/ extcon_work \/ release \/ cancel_health
    \/ \E ok \in BOOLEAN :
        \/ add_adapter(ok) \/ vcc(ok) \/ chip_init(ok) \/ irq_init(ok)
        \/ keypad_chip_init("hotplug", ok) \/ request(ok) \/ register(ok)
        \/ start("hotplug", ok) \/ stop_scan("hotplug", ok)
        \/ keypad_disable("hotplug", ok) \/ free(ok) \/ remove(ok)

HealthStep ==
    \/ poll
    \/ \E ok \in BOOLEAN :
        \/ canary(ok) \/ restore_irq_setup(ok) \/ keypad_chip_init("health", ok)
        \/ start("health", ok) \/ stop_scan("health", ok) \/ keypad_disable("health", ok)

IrqStep == irq_end \/ \E ok \in BOOLEAN : irq_read(ok) \/ drain(ok)

Next == HotplugStep \/ HealthStep \/ IrqStep \/ unbind \/ move \/ detect \/ press

Spec == Init /\ [][Next]_vars

\* The work queues run what is queued, the health timer expires, an asserted
\* interrupt gets its thread, and the MUIC sees a cover that stays.
FairSpec == Spec /\ WF_vars(HotplugStep) /\ WF_vars(HealthStep)
                 /\ WF_vars(IrqStep) /\ WF_vars(detect)

-----------------------------------------------------------------------------
(* Properties *)

\* The controller has power and every setting it needs to deliver keys.
ready ==
    /\ powered /\ st.irq /\ kp.irqs = Lines
    /\ chip.icr /\ Lines \subseteq chip.ier
    /\ Config \subseteq chip.regs /\ chip.scan

\* What the drivers hold is released, whatever failed on the way: interrupts
\* live no longer than their domain (patch 0120); without the MFD bound there
\* is no supply (patch 0075), interrupt, input device or poll; an unbound hot
\* plug driver leaves no adapter and no work.
ReleasedInOrder ==
    /\ st.irq \/ kp.irqs # {} => st.domain
    /\ pc.health # "off" => kp.bound /\ kp.input
    /\ pc.hotplug = "idle" /\ ~st.bound => st = Stmpe0 /\ kp = Keypad0
    /\ pc.hotplug = "idle" /\ hp.gone => ~hp.bus /\ ~hp.work

\* As long as no transfer fails, a key event in the FIFO of a keypad that is
\* set up has its interrupt pending: the status is read, and so cleared,
\* before the FIFO is drained, and scanning starts after both are requested.
NoStrandedKeys ==
    faults = 0 /\ ready /\ chip.fifo > 0 /\ irqt.pc = "idle" => line

\* The keyboard of a cover that stays comes to work, and the bus of one that
\* is gone goes, however often and quickly it was detached before, unless a
\* set-up was cut short: the dock state covers long absences, the health poll
\* short ones.
KeyboardReturns ==
    <>[](\/ hp.gone
         \/ dock = cover /\ (torn \/ (hp.bus = cover /\ (cover => ready))))

stalled == chip.fifo > 0 /\ irqt.pc = "idle" /\ ~line

Keys == INSTANCE KeyQueue WITH
    queue <- chip.fifo,
    link  <- IF ~ready THEN "down" ELSE IF stalled THEN "stalled" ELSE "up"

\* The chain implements the queue of key events: none is invented or read
\* twice, power takes all of them, and as long as the keypad is set up one
\* that waits is delivered, after a failed transfer with the next event.
KeysQueued == Keys!Spec

\* The comment in stmpe_keypad_health_work(): "Leave present false; the next
\* poll retries." A keypad found again after a failed set-up scans its matrix.
\* It does not hold: README, section 4.
ReinitRetried ==
    [][pc.health = "canary" /\ ~kp.present /\ kp'.present => chip'.scan]_vars
=============================================================================
