-------------------------------- MODULE SPen --------------------------------
(***************************************************************************)
(* The S-Pen digitizer driver (wacom_w9000, variant W9019).  The input     *)
(* core's open and close and the system's suspend and resume exclude each  *)
(* other (input_dev->mutex) and each is a sequence of hardware operations; *)
(* the interrupt thread runs beside them, unless its interrupt is          *)
(* disabled, which waits for it.  Digitizer, pen, regulator and input core *)
(* are external.                                                           *)
(***************************************************************************)
EXTENDS Integers

CONSTANTS
    MaxX, MaxPressure,  \* what the query says of the digitizer's ranges
    Retries,            \* tries of the query (3 for the W9019)
    MaxOps,             \* bound: opens, closes, inhibits, suspends, unbinds
    MaxMoves,           \* bound: the pen moves
    MaxFailures         \* bound: failing transfers and regulator calls

ASSUME PenAssumption ==
    /\ MaxX \in Nat \ {0} /\ MaxPressure \in Nat \ {0} /\ Retries \in Nat \ {0}
    /\ MaxOps \in Nat /\ MaxMoves \in Nat /\ MaxFailures \in Nat

VARIABLES
    power,   \* struct wacom_w9000_power_state
    prox,    \* input_state.pen_proximity
    shown,   \* what the input device has last reported
    op,      \* who holds the mutex, where it is, its tries and its result
    in,      \* the input core and the driver core
    hw,      \* supply and reset line
    pen,     \* where the pen is, and whether the digitizer has not told yet
    irqt,    \* the interrupt thread and the packet it read
    ops, moves, failures

pen_vars == <<power, prox, shown, op, in, hw, pen, irqt, ops, moves, failures>>

-----------------------------------------------------------------------------
(* State *)

Away   == [near |-> FALSE, special |-> FALSE, x |-> 0, pressure |-> 0]

\* Where a pen can be, as packets (in range of the digitizer, special, position,
\* pressure): the edges, one past them, and a special one.
Pens == {Away,
         [Away EXCEPT !.near = TRUE, !.x = MaxX, !.pressure = MaxPressure],
         [Away EXCEPT !.near = TRUE, !.x = MaxX + 1],
         [Away EXCEPT !.near = TRUE, !.pressure = MaxPressure + 1],
         [Away EXCEPT !.near = TRUE, !.special = TRUE]}

\* What is reported: tool and touch, position, pressure.
Gone  == [tool |-> FALSE, x |-> 0, pressure |-> 0]

None  == [name |-> "none", pc |-> "done", tries |-> 0, restore |-> FALSE]
Idle  == [pc |-> "idle", data |-> Away]

\* probe() has its resources; the supply is off and reset asserted.
PenInit ==
    /\ power = [supply |-> FALSE, irq |-> FALSE]
    /\ prox = FALSE /\ shown = Gone
    /\ op = [None EXCEPT !.name = "probe", !.pc = "supply_on"]
    /\ in = [bound |-> FALSE, open |-> FALSE, inhibited |-> FALSE, asleep |-> FALSE]
    /\ hw = [supply |-> FALSE, reset |-> TRUE]
    /\ pen = [at |-> Away, told |-> TRUE]
    /\ irqt = Idle
    /\ ops = 0 /\ moves = 0 /\ failures = 0

\* A transfer or a regulator call that works or fails.
Call(ok) ==
    /\ ok \in BOOLEAN
    /\ ok \/ failures < MaxFailures
    /\ failures' = IF ok THEN failures ELSE failures + 1

Goto(pc) == op' = [op EXCEPT !.pc = pc]

\* input_device_enabled()
device_enabled(i) == i.open /\ ~i.inhibited

\* The end of an operation: its effect on the input and the driver core.  An
\* open that fails leaves the device closed, a suspend that fails ends.
result(ok) ==
    CASE op.name = "probe"     -> [in EXCEPT !.bound = ok]
      [] op.name = "open"      -> [in EXCEPT !.open = ok]
      [] op.name = "close"     -> [in EXCEPT !.open = FALSE]
      [] op.name = "inhibit"   -> [in EXCEPT !.inhibited = TRUE]
      [] op.name = "uninhibit" -> [in EXCEPT !.inhibited = ~ok]
      [] op.name = "suspend"   -> [in EXCEPT !.asleep = ok]
      [] op.name = "resume"    -> [in EXCEPT !.asleep = FALSE]
      [] op.name = "unbind"    -> [in EXCEPT !.bound = FALSE, !.open = FALSE]

Finish(ok) == in' = result(ok) /\ op' = None

-----------------------------------------------------------------------------
(* The operations and where they start *)

Start(name, pc, restore) ==
    /\ op.name = "none" /\ in.bound /\ ops < MaxOps
    /\ ops' = ops + 1
    /\ op' = [None EXCEPT !.name = name, !.pc = pc, !.restore = restore]
    /\ UNCHANGED <<power, prox, shown, in, hw, pen, irqt, moves, failures>>

\* wacom_w9000_power_off_transition() starts with the interrupt.
off == IF power.irq THEN "irq_off" ELSE "release"

\* wacom_w9000_power_on_transition() starts with the supply.
on == IF power.supply THEN "reset_off" ELSE "supply_on"

open      == ~in.asleep /\ ~in.open /\ Start("open", IF in.inhibited THEN "end" ELSE on, FALSE)
close     == ~in.asleep /\ in.open /\ Start("close", IF in.inhibited THEN "end" ELSE off, FALSE)
inhibit   == ~in.asleep /\ ~in.inhibited /\ Start("inhibit", IF in.open THEN off ELSE "end", FALSE)
uninhibit == ~in.asleep /\ in.inhibited /\ Start("uninhibit", IF in.open THEN on ELSE "end", FALSE)

suspend ==
    /\ ~in.asleep
    /\ Start("suspend", IF device_enabled(in) \/ power.supply THEN off ELSE "end", device_enabled(in))
resume == in.asleep /\ Start("resume", IF device_enabled(in) THEN on ELSE "end", FALSE)

\* The input core closes an open device; devres frees the interrupt, then
\* wacom_w9000_disable_regulator().
unbind == ~in.asleep /\ Start("unbind", IF device_enabled(in) THEN off ELSE "cleanup", FALSE)

-----------------------------------------------------------------------------
(* Their steps *)

\* wacom_w9000_supply_enable() and the start-up delay.
supply_on(ok) ==
    /\ op.pc = "supply_on" /\ Call(ok)
    /\ IF ok THEN /\ hw' = [hw EXCEPT !.supply = TRUE]
                  /\ power' = [power EXCEPT !.supply = TRUE]
                  /\ Goto("reset_off") /\ UNCHANGED in
       ELSE UNCHANGED <<hw, power>> /\ Finish(FALSE)
    /\ UNCHANGED <<prox, shown, pen, irqt, ops, moves>>

\* Out of reset, the digitizer tells of a pen that is near.
reset_off ==
    /\ op.pc = "reset_off"
    /\ hw' = [hw EXCEPT !.reset = FALSE]
    /\ pen' = [pen EXCEPT !.told = ~pen.at.near]
    /\ Goto(IF op.name = "probe" THEN "query" ELSE "irq_on")
    /\ UNCHANGED <<power, prox, shown, in, irqt, ops, moves, failures>>

\* The last step of power_on_transition(), and of a suspend that is undone.
irq_on ==
    /\ op.pc = "irq_on"
    /\ power' = [power EXCEPT !.irq = TRUE]
    /\ Finish(~op.restore)
    /\ UNCHANGED <<prox, shown, hw, pen, irqt, ops, moves, failures>>

\* wacom_w9000_run_query(): one try, a transfer that fails or a response that
\* does not say what it must.
query(ok) ==
    /\ op.pc = "query" /\ Call(ok)
    /\ op' = IF ok THEN [op EXCEPT !.pc = "reset_on"]
             ELSE [op EXCEPT !.tries = @ + 1,
                             !.pc = IF op.tries + 1 < Retries THEN "query" ELSE "reset_on"]
    /\ UNCHANGED <<power, prox, shown, in, hw, pen, irqt, ops, moves>>

\* Mutant: the interrupt is masked and its handler not waited for.
irq_off_nosync ==
    /\ op.pc = "irq_off"
    /\ power' = [power EXCEPT !.irq = FALSE]
    /\ Goto("release")
    /\ UNCHANGED <<prox, shown, in, hw, pen, irqt, ops, moves, failures>>

\* disable_irq() waits for the handler.
irq_off ==
    /\ op.pc = "irq_off" /\ irqt.pc = "idle"
    /\ power' = [power EXCEPT !.irq = FALSE]
    /\ Goto("release")
    /\ UNCHANGED <<prox, shown, in, hw, pen, irqt, ops, moves, failures>>

\* wacom_w9000_release_input()
release_input ==
    /\ prox' = FALSE
    /\ shown' = IF prox THEN [shown EXCEPT !.tool = FALSE, !.pressure = 0] ELSE shown

release ==
    /\ op.pc = "release"
    /\ release_input
    /\ Goto("reset_on")
    /\ UNCHANGED <<power, in, hw, pen, irqt, ops, moves, failures>>

reset_on ==
    /\ op.pc = "reset_on"
    /\ hw' = [hw EXCEPT !.reset = TRUE]
    /\ IF power.supply THEN Goto("supply_off") /\ UNCHANGED in
       ELSE IF op.name = "unbind" THEN Goto("cleanup") /\ UNCHANGED in ELSE Finish(TRUE)
    /\ UNCHANGED <<power, prox, shown, pen, irqt, ops, moves, failures>>

\* Mutant: the supply is taken for off whatever the regulator says.
supply_off_assumed(ok) ==
    /\ op.pc = "supply_off" /\ Call(ok)
    /\ hw' = IF ok THEN [hw EXCEPT !.supply = FALSE] ELSE hw
    /\ power' = [power EXCEPT !.supply = FALSE]
    /\ IF ~ok /\ op.restore THEN Goto("reset_off") /\ UNCHANGED in
       ELSE IF op.name = "unbind" \/ (op.name = "probe" /\ (~ok \/ op.tries = Retries))
       THEN Goto("cleanup") /\ UNCHANGED in
       ELSE Finish(ok)
    /\ UNCHANGED <<prox, shown, pen, irqt, ops, moves>>

\* wacom_w9000_supply_off(); only a suspend goes back on failure, and an
\* operation of the input core that fails here is done all the same.
supply_off(ok) ==
    /\ op.pc = "supply_off" /\ Call(ok)
    /\ hw' = IF ok THEN [hw EXCEPT !.supply = FALSE] ELSE hw
    /\ power' = IF ok THEN [power EXCEPT !.supply = FALSE] ELSE power
    /\ IF ~ok /\ op.restore THEN Goto("reset_off") /\ UNCHANGED in
       ELSE IF op.name = "unbind" \/ (op.name = "probe" /\ (~ok \/ op.tries = Retries))
       THEN Goto("cleanup") /\ UNCHANGED in
       ELSE Finish(ok)
    /\ UNCHANGED <<prox, shown, pen, irqt, ops, moves>>

\* wacom_w9000_disable_regulator(), of a failed probe too.
cleanup(ok) ==
    /\ op.pc = "cleanup"
    /\ IF power.supply
       THEN /\ Call(ok)
            /\ hw' = IF ok THEN [hw EXCEPT !.supply = FALSE] ELSE hw
            /\ power' = IF ok THEN [power EXCEPT !.supply = FALSE] ELSE power
       ELSE ok /\ UNCHANGED <<hw, power, failures>>
    /\ Finish(FALSE)
    /\ UNCHANGED <<prox, shown, pen, irqt, ops, moves>>

end ==
    /\ op.pc = "end" /\ Finish(TRUE)
    /\ UNCHANGED <<power, prox, shown, hw, pen, irqt, ops, moves, failures>>

-----------------------------------------------------------------------------
(* The interrupt thread and the digitizer *)

awake == hw.supply /\ ~hw.reset

\* The level interrupt of a packet that was not read.
irq == power.irq /\ awake /\ ~pen.told

\* wacom_w9000_coord(): read the packet; a failed read is only logged.
coord_read(ok) ==
    /\ irq /\ irqt.pc = "idle" /\ Call(ok)
    /\ irqt' = IF ok THEN [pc |-> "report", data |-> pen.at] ELSE irqt
    /\ pen' = [pen EXCEPT !.told = ok]
    /\ UNCHANGED <<power, prox, shown, op, in, hw, ops, moves>>

\* Mutant: the largest values are refused too.
valid_below(d) == d.x < MaxX /\ d.pressure < MaxPressure

valid(d) == d.x <= MaxX /\ d.pressure <= MaxPressure

\* wacom_w9000_parse_report() and _report_input(): a packet out of range or
\* a special one takes the pen away, one with values past the ranges is
\* dropped, any other is reported.
coord_report ==
    LET d == irqt.data
    IN  /\ irqt.pc = "report" /\ irqt' = Idle
        /\ IF ~d.near \/ d.special THEN release_input
           ELSE IF ~valid(d) THEN UNCHANGED <<prox, shown>>
           ELSE /\ prox' = TRUE
                /\ shown' = [tool |-> TRUE, x |-> d.x, pressure |-> d.pressure]
        /\ UNCHANGED <<power, op, in, hw, pen, ops, moves, failures>>

\* The pen moves; a digitizer that is off does not tell.
move(p) ==
    /\ moves < MaxMoves /\ moves' = moves + 1
    /\ p # pen.at
    /\ pen' = [at |-> p, told |-> ~awake]
    /\ UNCHANGED <<power, prox, shown, op, in, hw, irqt, ops, failures>>

-----------------------------------------------------------------------------
(* The specification *)

OpStep ==
    \/ reset_off \/ irq_on \/ irq_off \/ release \/ reset_on \/ end
    \/ \E ok \in BOOLEAN : supply_on(ok) \/ query(ok) \/ supply_off(ok) \/ cleanup(ok)

IrqStep == coord_report \/ \E ok \in BOOLEAN : coord_read(ok)

PenNext ==
    \/ open \/ close \/ inhibit \/ uninhibit \/ suspend \/ resume \/ unbind
    \/ OpStep \/ IrqStep \/ \E p \in Pens : move(p)

PenSpec == PenInit /\ [][PenNext]_pen_vars

\* An operation goes on, an asserted interrupt gets its thread.
PenFairSpec == PenSpec /\ WF_pen_vars(OpStep) /\ WF_pen_vars(IrqStep)

-----------------------------------------------------------------------------
(* Properties *)

\* A digitizer at rest that gives no interrupts shows no pen, in any order of
\* a last packet and the end of its use.
NoGhostPen == op.name = "none" /\ ~power.irq => ~shown.tool /\ ~prox

\* Between operations that did not fail, the digitizer is powered, out of
\* reset and heard exactly while it is in use and the system awake; whatever
\* failed, the driver knows the state of its supply and an interrupt is only
\* heard from a digitizer with power.
PowerFollowsUse ==
    /\ power.supply = hw.supply
    /\ power.irq => hw.supply
    /\ op.name = "none" =>
        /\ hw.reset = ~power.irq
        /\ failures = 0 =>
            LET used == in.bound /\ device_enabled(in) /\ ~in.asleep
            IN  hw.supply = used /\ power.irq = used

\* A pen that rests is shown where it is, one that has left is not, however
\* the digitizer was switched and whatever packet was dropped meanwhile.
PenShown ==
    <>[](power.irq /\ op.name = "none" =>
            IF ~pen.at.near \/ pen.at.special THEN ~shown.tool
            ELSE pen.at.x <= MaxX /\ pen.at.pressure <= MaxPressure =>
                shown = [tool |-> TRUE, x |-> pen.at.x, pressure |-> pen.at.pressure])
=============================================================================
