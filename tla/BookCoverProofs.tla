-------------------------- MODULE BookCoverProofs ---------------------------
(***************************************************************************)
(* What holds of the Book Cover's drivers for every size of the FIFO, and  *)
(* for any number of detaches, key events and failures.                    *)
(***************************************************************************)
EXTENDS BookCover, TLAPS

-----------------------------------------------------------------------------
(* The inductive invariant *)

\* Where the hot plug work is: before the MFD is bound, setting the keypad up,
\* taking it down.
Probing  == {"add", "vcc", "id", "disable_all", "reset", "icr", "irq_init"}
Requests == {"request", "request_over", "register"}
SetUp    == {"enable", "scan"} \cup Config \cup Requests
TearDown == {"scan_off", "disable", "free"}

HotplugPc == {"idle", "adc", "cancel", "release"} \cup Probing \cup SetUp \cup TearDown
HealthPc  == {"off", "idle", "canary", "icr", "ier", "enable", "scan", "scan_off", "disable"}
             \cup Config

StType   == [bound : BOOLEAN, l6 : BOOLEAN, domain : BOOLEAN, irq : BOOLEAN,
             ier : SUBSET Lines, oldier : SUBSET Lines]
KpType   == [bound : BOOLEAN, irqs : SUBSET Lines, input : BOOLEAN, present : BOOLEAN]
ChipType == [icr : BOOLEAN, ier : SUBSET Lines, regs : SUBSET Config, scan : BOOLEAN,
             isr : SUBSET Lines, fifo : 0..Depth]

TypeOK ==
    /\ cover \in BOOLEAN /\ dock \in BOOLEAN
    /\ hp \in [work : BOOLEAN, bus : BOOLEAN, gone : BOOLEAN]
    /\ st \in StType /\ kp \in KpType /\ chip \in ChipType
    /\ pc \in [hotplug : HotplugPc, health : HealthPc]
    /\ irqt \in [pc : {"idle", "drain"}, lines : SUBSET Lines, n : 0..(Depth - 1)]
    /\ torn \in BOOLEAN /\ moves \in Nat /\ keys \in Nat /\ faults \in Nat

\* What the drivers hold at each step of the hot plug work.
Holding ==
    /\ st.bound => st.domain /\ st.irq
    /\ ~st.bound => kp = Keypad0 /\ ~st.domain /\ ~st.irq
    /\ st.ier = kp.irqs
    /\ pc.hotplug \in Probing => ~st.bound /\ ~hp.bus
    /\ pc.hotplug \in SetUp => st.bound /\ ~hp.bus /\ ~kp.bound
    /\ pc.hotplug \in {"enable", "request"} \cup Config => kp = Keypad0
    /\ pc.hotplug = "request_over" => kp.irqs = {"key"}
    /\ pc.hotplug \in {"register", "scan"} => kp.irqs = Lines
    /\ pc.hotplug = "scan" => kp.input
    /\ pc.hotplug \in {"adc", "cancel"} => st.bound /\ hp.bus
    /\ pc.hotplug \in TearDown => st.bound
    /\ pc.hotplug = "release" => kp = Keypad0 /\ (st.bound => hp.bus)
    /\ pc.hotplug \in {"idle", "adc"} => kp.bound \/ kp = Keypad0
    /\ pc.hotplug = "add" => st = Stmpe0
    /\ pc.hotplug = "idle" => IF st.bound THEN hp.bus ELSE st = Stmpe0
    /\ pc.health # "off" => /\ pc.hotplug \in {"idle", "adc", "cancel"}
                            /\ kp.bound /\ kp.input /\ kp.irqs = Lines

\* A removed hot plug driver has no work, and an adapter only while it is
\* being removed.
Unbound ==
    hp.gone => /\ ~hp.work /\ pc.hotplug \notin Probing \cup SetUp
               /\ hp.bus <=> pc.hotplug # "idle"

\* A chip without power knows nothing.
Unpowered == powered \/ chip = Chip0

\* A drain reads whatever was in the FIFO when it began; more than that has
\* its interrupt pending.
Drained ==
    irqt.pc = "drain" /\ irqt.lines # {} /\ chip.isr = {} => chip.fifo + irqt.n <= Depth

\* While nothing has failed, the matrix is scanned only with both interrupts
\* requested, and what it puts into the FIFO has its interrupt pending or is
\* being read.
Scanned ==
    faults = 0 =>
        /\ chip.scan => kp.irqs = Lines
        /\ chip.scan => pc.hotplug \notin {"disable", "free", "release"}
        /\ chip.scan /\ pc.hotplug = "scan_off" => hp.bus
        /\ chip.scan => pc.health \notin {"scan_off", "disable"}
        /\ ~chip.scan /\ chip.fifo > 0 =>
            hp.bus /\ pc.hotplug \in {"disable", "free", "release"}
        /\ chip.scan /\ chip.fifo > 0 /\ chip.isr = {} =>
            irqt.pc = "drain" /\ irqt.lines # {}

IInv == TypeOK /\ Holding /\ Unbound /\ Unpowered /\ Drained /\ Scanned

-----------------------------------------------------------------------------
(* Helpers *)

\* What is there before anything is set up.
LEMMA Zeros ==
    /\ Chip0 \in ChipType /\ Stmpe0 \in StType /\ Keypad0 \in KpType
    /\ ~Chip0.icr /\ Chip0.ier = {} /\ Chip0.regs = {} /\ ~Chip0.scan
    /\ Chip0.isr = {} /\ Chip0.fifo = 0
    /\ ~Stmpe0.bound /\ ~Stmpe0.l6 /\ ~Stmpe0.domain /\ ~Stmpe0.irq /\ Stmpe0.ier = {}
    /\ ~Keypad0.bound /\ Keypad0.irqs = {} /\ ~Keypad0.input
  BY CoverAssumption DEF Chip0, Stmpe0, Keypad0, ChipType, StType, KpType

\* The next step of the hot plug work.
LEMMA GotoHotplug ==
    ASSUME TypeOK, NEW s, Goto("hotplug", s)
    PROVE  pc'.hotplug = s /\ pc'.health = pc.health
           /\ (s \in HotplugPc => pc' \in [hotplug : HotplugPc, health : HealthPc])
  BY DEF TypeOK, Goto

\* The next step of the health poll.
LEMMA GotoHealth ==
    ASSUME TypeOK, NEW s, Goto("health", s)
    PROVE  pc'.health = s /\ pc'.hotplug = pc.hotplug
           /\ (s \in HealthPc => pc' \in [hotplug : HotplugPc, health : HealthPc])
  BY DEF TypeOK, Goto

\* A call counts its own failure and no other.
LEMMA CallFacts ==
    ASSUME TypeOK, NEW ok, Call(ok)
    PROVE  ok \in BOOLEAN /\ faults' \in Nat /\ (faults' = 0 => faults = 0 /\ ok)
  BY DEF TypeOK, Call

\* A transfer works only with power, and with power fails only by a fault.
LEMMA XferFacts ==
    ASSUME TypeOK, NEW ok, Xfer(ok)
    PROVE  /\ ok \in BOOLEAN /\ faults' \in Nat /\ (ok => powered)
           /\ (faults' = 0 => faults = 0 /\ (ok \/ ~powered))
<1>1. CASE powered
  BY <1>1, CallFacts DEF Xfer
<1>2. CASE ~powered
  BY <1>2 DEF TypeOK, Xfer
<1> QED BY <1>1, <1>2

\* stmpe_keypad_start() done.
LEMMA KeypadStarted ==
    ASSUME TypeOK, kp' = [kp EXCEPT !.bound = TRUE, !.present = TRUE]
    PROVE  kp' \in KpType /\ kp'.bound /\ kp'.irqs = kp.irqs /\ kp'.input = kp.input
<1>1. ASSUME NEW k \in KpType, NEW a \in BOOLEAN, NEW b \in BOOLEAN
      PROVE  /\ [k EXCEPT !.bound = a, !.present = b] \in KpType
             /\ [k EXCEPT !.bound = a, !.present = b].bound = a
             /\ [k EXCEPT !.bound = a, !.present = b].irqs = k.irqs
             /\ [k EXCEPT !.bound = a, !.present = b].input = k.input
  BY DEF KpType
<1>2. kp \in KpType /\ TRUE \in BOOLEAN
  BY DEF TypeOK
<1>3. kp' \in KpType /\ kp'.bound = TRUE /\ kp'.irqs = kp.irqs /\ kp'.input = kp.input
  BY <1>1, <1>2, Zenon
<1> QED BY <1>3

\* An interrupt of the keypad freed.
LEMMA KeypadFreed ==
    ASSUME TypeOK, NEW i \in SUBSET Lines, kp' = [kp EXCEPT !.irqs = i, !.input = FALSE]
    PROVE  kp' \in KpType /\ kp'.irqs = i /\ kp'.bound = kp.bound
<1>1. ASSUME NEW k \in KpType, NEW b \in BOOLEAN
      PROVE  /\ [k EXCEPT !.irqs = i, !.input = b] \in KpType
             /\ [k EXCEPT !.irqs = i, !.input = b].irqs = i
             /\ [k EXCEPT !.irqs = i, !.input = b].bound = k.bound
  BY DEF KpType
<1>2. kp \in KpType /\ FALSE \in BOOLEAN
  BY DEF TypeOK
<1> QED BY <1>1, <1>2, Zenon

\* Writing the interrupt enables changes nothing else.
LEMMA SyncFacts ==
    ASSUME TypeOK, NEW ier \in SUBSET Lines, NEW ok, sync(ier, ok)
    PROVE  /\ Xfer(ok) /\ (~ok => chip' = chip)
           /\ st' \in StType /\ st'.ier = ier /\ st'.l6 = st.l6
           /\ st'.bound = st.bound /\ st'.domain = st.domain /\ st'.irq = st.irq
           /\ chip' \in ChipType /\ chip'.scan = chip.scan /\ chip'.isr = chip.isr
           /\ chip'.fifo = chip.fifo
<1>1. st \in StType /\ chip \in ChipType
  BY DEF TypeOK
<1>2. st' = [st EXCEPT !.ier = ier, !.oldier = ier]
  BY DEF sync
<1>3. chip' = chip \/ chip' = [chip EXCEPT !.ier = ier]
  BY DEF sync
<1>4. /\ st' \in StType /\ st'.ier = ier /\ st'.l6 = st.l6
      /\ st'.bound = st.bound /\ st'.domain = st.domain /\ st'.irq = st.irq
  BY <1>1, <1>2 DEF StType
<1>5. /\ chip' \in ChipType /\ chip'.scan = chip.scan /\ chip'.isr = chip.isr
      /\ chip'.fifo = chip.fifo
  BY <1>1, <1>3 DEF ChipType
<1> QED BY <1>4, <1>5 DEF sync

-----------------------------------------------------------------------------
(* Every step keeps the invariant *)

\* The hot plug work looks at the dock.
LEMMA InvExtconWork == ASSUME IInv, extcon_work PROVE IInv'
<1>1. TypeOK'
  <2>1. pc' \in [hotplug : HotplugPc, health : HealthPc]
    BY GotoHotplug, Zeros
       DEF IInv, TypeOK, Lines, HotplugPc, Probing, SetUp, Requests, TearDown, Config, HealthPc,
           extcon_work
  <2>2. hp' \in [work : BOOLEAN, bus : BOOLEAN, gone : BOOLEAN]
    BY Zeros DEF IInv, TypeOK, extcon_work
  <2> QED BY <2>1, <2>2 DEF IInv, TypeOK, extcon_work, env
<1>2. Holding'
  BY GotoHotplug, Zeros
     DEF IInv, TypeOK, Holding, Lines, HotplugPc, Probing, SetUp, Requests, TearDown, Config,
         HealthPc, extcon_work, env
<1>3. Unbound'
  BY GotoHotplug, Zeros
     DEF IInv, TypeOK, Unbound, Holding, Lines, HotplugPc, Probing, SetUp, Requests, TearDown,
         Config, HealthPc, extcon_work, env
<1>4. Unpowered'
  BY GotoHotplug, Zeros DEF IInv, TypeOK, Unpowered, powered, extcon_work, env
<1>5. Drained'
  BY GotoHotplug, Zeros DEF IInv, TypeOK, Drained, ChipType, extcon_work, env
<1>6. Scanned'
  BY GotoHotplug, Zeros
     DEF IInv, TypeOK, Scanned, Holding, Unpowered, ChipType, Lines, HotplugPc, Probing, SetUp,
         Requests, TearDown, Config, HealthPc, extcon_work, env
<1> QED BY <1>1, <1>2, <1>3, <1>4, <1>5, <1>6 DEF IInv

\* The adapter is registered.
LEMMA InvAddAdapter == ASSUME IInv, NEW ok, add_adapter(ok) PROVE IInv'
<1>1. TypeOK'
  BY GotoHotplug, CallFacts, Zeros
     DEF IInv, TypeOK, StType, KpType, ChipType, Lines, HotplugPc, Probing, SetUp, Requests,
         TearDown, Config, HealthPc, add_adapter, env
<1>2. Holding'
  BY GotoHotplug, CallFacts, Zeros
     DEF IInv, TypeOK, Holding, Lines, HotplugPc, Probing, SetUp, Requests, TearDown, Config,
         HealthPc, add_adapter, env
<1>3. Unbound'
  BY GotoHotplug, CallFacts, Zeros
     DEF IInv, TypeOK, Unbound, Holding, Lines, HotplugPc, Probing, SetUp, Requests, TearDown,
         Config, HealthPc, add_adapter, env
<1>4. Unpowered'
  BY GotoHotplug, CallFacts, Zeros DEF IInv, TypeOK, Unpowered, powered, add_adapter, env
<1>5. Drained'
  BY GotoHotplug, CallFacts, Zeros DEF IInv, TypeOK, Drained, ChipType, add_adapter, env
<1>6. Scanned'
  BY GotoHotplug, CallFacts, Zeros
     DEF IInv, TypeOK, Scanned, Holding, Unpowered, ChipType, Lines, HotplugPc, Probing, SetUp,
         Requests, TearDown, Config, HealthPc, add_adapter, env
<1> QED BY <1>1, <1>2, <1>3, <1>4, <1>5, <1>6 DEF IInv

\* The hot plug driver is unbound.
LEMMA InvUnbind == ASSUME IInv, unbind PROVE IInv'
<1>1. TypeOK'
  <2>1. pc' \in [hotplug : HotplugPc, health : HealthPc]
    BY GotoHotplug, Zeros
       DEF IInv, TypeOK, Lines, HotplugPc, Probing, SetUp, Requests, TearDown, Config, HealthPc,
           unbind
  <2>2. hp' \in [work : BOOLEAN, bus : BOOLEAN, gone : BOOLEAN]
    BY Zeros DEF IInv, TypeOK, unbind
  <2> QED BY <2>1, <2>2 DEF IInv, TypeOK, unbind, env
<1>2. Holding'
  BY GotoHotplug, Zeros
     DEF IInv, TypeOK, Holding, Lines, HotplugPc, Probing, SetUp, Requests, TearDown, Config,
         HealthPc, unbind, env
<1>3. Unbound'
  BY GotoHotplug, Zeros
     DEF IInv, TypeOK, Unbound, Holding, Lines, HotplugPc, Probing, SetUp, Requests, TearDown,
         Config, HealthPc, unbind, env
<1>4. Unpowered'
  BY GotoHotplug, Zeros DEF IInv, TypeOK, Unpowered, powered, unbind, env
<1>5. Drained'
  BY GotoHotplug, Zeros DEF IInv, TypeOK, Drained, ChipType, unbind, env
<1>6. Scanned'
  BY GotoHotplug, Zeros
     DEF IInv, TypeOK, Scanned, Holding, Unpowered, ChipType, Lines, HotplugPc, Probing, SetUp,
         Requests, TearDown, Config, HealthPc, unbind, env
<1> QED BY <1>1, <1>2, <1>3, <1>4, <1>5, <1>6 DEF IInv

\* The supply of the MFD.
LEMMA InvVcc == ASSUME IInv, NEW ok, vcc(ok) PROVE IInv'
<1>1. TypeOK'
  BY GotoHotplug, CallFacts, Zeros
     DEF IInv, TypeOK, StType, KpType, ChipType, Lines, HotplugPc, Probing, SetUp, Requests,
         TearDown, Config, HealthPc, vcc, env
<1>2. Holding'
  BY GotoHotplug, CallFacts, Zeros
     DEF IInv, TypeOK, Holding, Lines, HotplugPc, Probing, SetUp, Requests, TearDown, Config,
         HealthPc, vcc, env
<1>3. Unbound'
  BY GotoHotplug, CallFacts, Zeros
     DEF IInv, TypeOK, Unbound, Holding, Lines, HotplugPc, Probing, SetUp, Requests, TearDown,
         Config, HealthPc, vcc, env
<1>4. Unpowered'
  BY GotoHotplug, CallFacts, Zeros DEF IInv, TypeOK, Unpowered, powered, vcc, env
<1>5. Drained'
  <2>1. irqt' = irqt /\ irqt.n \in 0..(Depth - 1) /\ irqt.n <= Depth /\ chip \in ChipType
    BY CoverAssumption DEF IInv, TypeOK, vcc
  <2>2. chip' = Chip0 \/ (chip'.isr = chip.isr /\ chip'.fifo = chip.fifo)
    BY <2>1 DEF vcc, ChipType
  <2> QED BY <2>1, <2>2, Zeros DEF IInv, Drained
<1>6. Scanned'
  BY GotoHotplug, CallFacts, Zeros
     DEF IInv, TypeOK, Scanned, Holding, Unpowered, ChipType, Lines, HotplugPc, Probing, SetUp,
         Requests, TearDown, Config, HealthPc, vcc, env
<1> QED BY <1>1, <1>2, <1>3, <1>4, <1>5, <1>6 DEF IInv

\* A step of stmpe_chip_init().
LEMMA InvChipInit == ASSUME IInv, NEW ok, chip_init(ok) PROVE IInv'
<1>1. TypeOK'
  <2>1. pc' \in [hotplug : HotplugPc, health : HealthPc]
    BY GotoHotplug, XferFacts, Zeros
       DEF IInv, TypeOK, Lines, HotplugPc, Probing, SetUp, Requests, TearDown, Config, HealthPc,
           chip_init
  <2>2. chip' \in ChipType
    BY XferFacts, Zeros
       DEF IInv, TypeOK, ChipType, StType, Config, Lines, SetUp, Requests, chip_init
  <2> QED BY <2>1, <2>2, XferFacts DEF IInv, TypeOK, chip_init, env
<1>2. Holding'
  BY GotoHotplug, XferFacts, Zeros
     DEF IInv, TypeOK, Holding, Lines, HotplugPc, Probing, SetUp, Requests, TearDown, Config,
         HealthPc, chip_init, env
<1>3. Unbound'
  BY GotoHotplug, XferFacts, Zeros
     DEF IInv, TypeOK, Unbound, Holding, Lines, HotplugPc, Probing, SetUp, Requests, TearDown,
         Config, HealthPc, chip_init, env
<1>4. Unpowered'
  BY GotoHotplug, XferFacts, Zeros DEF IInv, TypeOK, Unpowered, powered, chip_init, env
<1>5. Drained'
  <2>1. irqt' = irqt /\ irqt.n \in 0..(Depth - 1) /\ irqt.n <= Depth /\ chip \in ChipType
    BY CoverAssumption DEF IInv, TypeOK, chip_init
  <2>2. chip' = Chip0 \/ (chip'.isr = chip.isr /\ chip'.fifo = chip.fifo)
    BY <2>1 DEF chip_init, ChipType
  <2> QED BY <2>1, <2>2, Zeros DEF IInv, Drained
<1>6. Scanned'
  BY GotoHotplug, XferFacts, Zeros
     DEF IInv, TypeOK, Scanned, Holding, Unpowered, ChipType, Lines, HotplugPc, Probing, SetUp,
         Requests, TearDown, Config, HealthPc, chip_init, env
<1> QED BY <1>1, <1>2, <1>3, <1>4, <1>5, <1>6 DEF IInv

\* Domain and interrupt; the MFD is bound.
LEMMA InvIrqInit == ASSUME IInv, NEW ok, irq_init(ok) PROVE IInv'
<1>1. TypeOK'
  <2>1. pc' \in [hotplug : HotplugPc, health : HealthPc]
    BY GotoHotplug, CallFacts, Zeros
       DEF IInv, TypeOK, Lines, HotplugPc, Probing, SetUp, Requests, TearDown, Config, HealthPc,
           irq_init
  <2>2. st' \in StType
    BY CallFacts, Zeros DEF IInv, TypeOK, StType, KpType, Lines, irq_init
  <2> QED BY <2>1, <2>2, CallFacts DEF IInv, TypeOK, irq_init, env
<1>2. Holding'
  BY GotoHotplug, CallFacts, Zeros
     DEF IInv, TypeOK, Holding, Lines, HotplugPc, Probing, SetUp, Requests, TearDown, Config,
         HealthPc, irq_init, env
<1>3. Unbound'
  BY GotoHotplug, CallFacts, Zeros
     DEF IInv, TypeOK, Unbound, Holding, Lines, HotplugPc, Probing, SetUp, Requests, TearDown,
         Config, HealthPc, irq_init, env
<1>4. Unpowered'
  BY GotoHotplug, CallFacts, Zeros DEF IInv, TypeOK, Unpowered, powered, irq_init, env
<1>5. Drained'
  BY GotoHotplug, CallFacts, Zeros DEF IInv, TypeOK, Drained, ChipType, irq_init, env
<1>6. Scanned'
  BY GotoHotplug, CallFacts, Zeros
     DEF IInv, TypeOK, Scanned, Holding, Unpowered, ChipType, Lines, HotplugPc, Probing, SetUp,
         Requests, TearDown, Config, HealthPc, irq_init, env
<1> QED BY <1>1, <1>2, <1>3, <1>4, <1>5, <1>6 DEF IInv

\* devres of the MFD.
LEMMA InvRelease == ASSUME IInv, release PROVE IInv'
<1>1. TypeOK'
  BY GotoHotplug, Zeros
     DEF IInv, TypeOK, StType, KpType, ChipType, Lines, HotplugPc, Probing, SetUp, Requests,
         TearDown, Config, HealthPc, release, env
<1>2. Holding'
  BY GotoHotplug, Zeros
     DEF IInv, TypeOK, Holding, Lines, HotplugPc, Probing, SetUp, Requests, TearDown, Config,
         HealthPc, release, env
<1>3. Unbound'
  BY GotoHotplug, Zeros
     DEF IInv, TypeOK, Unbound, Holding, Lines, HotplugPc, Probing, SetUp, Requests, TearDown,
         Config, HealthPc, release, env
<1>4. Unpowered'
  BY GotoHotplug, Zeros DEF IInv, TypeOK, Unpowered, powered, release, env
<1>5. Drained'
  BY GotoHotplug, Zeros DEF IInv, TypeOK, Drained, ChipType, release, env
<1>6. Scanned'
  BY GotoHotplug, Zeros
     DEF IInv, TypeOK, Scanned, Holding, Unpowered, ChipType, Lines, HotplugPc, Probing, SetUp,
         Requests, TearDown, Config, HealthPc, release, env
<1> QED BY <1>1, <1>2, <1>3, <1>4, <1>5, <1>6 DEF IInv

\* The status is read.
LEMMA InvIrqRead == ASSUME IInv, NEW ok, irq_read(ok) PROVE IInv'
<1>1. TypeOK'
  <2>1. chip' \in ChipType
    BY XferFacts, Zeros DEF IInv, TypeOK, ChipType, StType, Config, Lines, SetUp, Requests, irq_read
  <2>2. irqt' \in [pc : {"idle", "drain"}, lines : SUBSET Lines, n : 0..(Depth - 1)]
    BY XferFacts, Zeros, CoverAssumption DEF IInv, TypeOK, ChipType, StType, irq_read
  <2> QED BY <2>1, <2>2, XferFacts DEF IInv, TypeOK, irq_read, env
<1>2. Holding'
  BY XferFacts, Zeros
     DEF IInv, TypeOK, Holding, Lines, HotplugPc, Probing, SetUp, Requests, TearDown, Config,
         HealthPc, irq_read, env
<1>3. Unbound'
  BY XferFacts, Zeros
     DEF IInv, TypeOK, Unbound, Holding, Lines, HotplugPc, Probing, SetUp, Requests, TearDown,
         Config, HealthPc, irq_read, env
<1>4. Unpowered'
  BY XferFacts, Zeros DEF IInv, TypeOK, Unpowered, powered, irq_read, env
<1>5. Drained'
  BY XferFacts, Zeros DEF IInv, TypeOK, Drained, ChipType, irq_read, env
<1>6. Scanned'
  BY XferFacts, Zeros
     DEF IInv, TypeOK, Scanned, Holding, Unpowered, ChipType, Lines, HotplugPc, Probing, SetUp,
         Requests, TearDown, Config, HealthPc, irq_read, env
<1> QED BY <1>1, <1>2, <1>3, <1>4, <1>5, <1>6 DEF IInv

\* An entry of the FIFO is read.
LEMMA InvDrain == ASSUME IInv, NEW ok, drain(ok) PROVE IInv'
<1> DEFINE l == CHOOSE x \in irqt.lines : TRUE
<1>a. /\ irqt.pc = "drain" /\ irqt.lines # {} /\ irqt.n \in 0..(Depth - 1) /\ chip \in ChipType
      /\ chip.fifo \in Nat /\ Depth \in Nat /\ Xfer(ok) /\ UNCHANGED <<hp, st, kp, pc, torn, env>>
  BY CoverAssumption DEF IInv, TypeOK, ChipType, drain
<1>b. CASE ok /\ chip.fifo > 0
  <2>1. chip' = [chip EXCEPT !.fifo = @ - 1] /\ chip.fifo - 1 \in 0..Depth
    BY <1>a, <1>b DEF drain, ChipType
  <2>2. /\ chip' \in ChipType /\ chip'.scan = chip.scan /\ chip'.isr = chip.isr
        /\ chip'.fifo = chip.fifo - 1
    BY <1>a, <2>1 DEF ChipType
  <2>3. \/ irqt' = [irqt EXCEPT !.n = @ + 1] /\ irqt.n + 1 \in 0..(Depth - 1)
        \/ irqt' = irq_next(irqt.lines \ {l}) /\ irqt.n + 1 = Depth
    BY <1>a, <1>b, CoverAssumption DEF drain
  <2>4. TypeOK'
    <3>1. irqt' \in [pc : {"idle", "drain"}, lines : SUBSET Lines, n : 0..(Depth - 1)]
      BY <2>3, CoverAssumption DEF IInv, TypeOK, irq_next, Irq0
    <3> QED BY <1>a, <2>2, <3>1, XferFacts DEF IInv, TypeOK, env
  <2>5. Drained'
    BY <1>a, <2>2, <2>3, CoverAssumption DEF IInv, TypeOK, Drained, irq_next, Irq0
  <2>6. chip.isr = {} => chip.fifo + irqt.n <= Depth
    BY <1>a DEF IInv, Drained
  <2>7. chip.isr = {} /\ chip'.fifo > 0 => irqt'.pc = "drain" /\ irqt'.lines # {}
    BY <1>a, <2>2, <2>3, <2>6, CoverAssumption DEF IInv, TypeOK
  <2>8. Scanned'
    BY <1>a, <2>2, <2>7, XferFacts DEF IInv, Scanned
  <2> QED BY <1>a, <1>b, <2>2, <2>4, <2>5, <2>8, XferFacts
             DEF IInv, Holding, Unbound, Unpowered, powered, env
<1>c. CASE ~(ok /\ chip.fifo > 0)
  <2>1. chip' = chip /\ irqt' = irq_next(irqt.lines \ {l}) /\ (faults' = 0 => chip.fifo = 0)
    BY <1>a, <1>c, XferFacts, Zeros DEF IInv, TypeOK, Unpowered, drain
  <2>4. TypeOK'
    <3>1. irqt' \in [pc : {"idle", "drain"}, lines : SUBSET Lines, n : 0..(Depth - 1)]
      BY <2>1, CoverAssumption DEF IInv, TypeOK, irq_next, Irq0
    <3> QED BY <1>a, <2>1, <3>1, XferFacts DEF IInv, TypeOK, env
  <2>5. Drained'
    BY <1>a, <2>1, CoverAssumption DEF IInv, TypeOK, Drained, irq_next, Irq0, ChipType
  <2>8. Scanned'
    BY <1>a, <2>1, XferFacts DEF IInv, Scanned
  <2> QED BY <1>a, <2>1, <2>4, <2>5, <2>8 DEF IInv, Holding, Unbound, Unpowered, powered, env
<1> QED BY <1>b, <1>c

\* Nothing left to handle.
LEMMA InvIrqEnd == ASSUME IInv, irq_end PROVE IInv'
<1>1. TypeOK'
  <2>1. irqt' \in [pc : {"idle", "drain"}, lines : SUBSET Lines, n : 0..(Depth - 1)]
    BY Zeros, CoverAssumption DEF IInv, TypeOK, ChipType, StType, irq_end, Irq0
  <2> QED BY <2>1 DEF IInv, TypeOK, irq_end, env
<1>2. Holding'
  BY Zeros
     DEF IInv, TypeOK, Holding, Lines, HotplugPc, Probing, SetUp, Requests, TearDown, Config,
         HealthPc, irq_end, Irq0, env
<1>3. Unbound'
  BY Zeros
     DEF IInv, TypeOK, Unbound, Holding, Lines, HotplugPc, Probing, SetUp, Requests, TearDown,
         Config, HealthPc, irq_end, Irq0, env
<1>4. Unpowered'
  BY Zeros DEF IInv, TypeOK, Unpowered, powered, irq_end, Irq0, env
<1>5. Drained'
  BY Zeros DEF IInv, TypeOK, Drained, ChipType, irq_end, Irq0, env
<1>6. Scanned'
  BY Zeros
     DEF IInv, TypeOK, Scanned, Holding, Unpowered, ChipType, Lines, HotplugPc, Probing, SetUp,
         Requests, TearDown, Config, HealthPc, irq_end, Irq0, env
<1> QED BY <1>1, <1>2, <1>3, <1>4, <1>5, <1>6 DEF IInv

\* A step of stmpe_keypad_chip_init(), by the probe.
LEMMA InvHotplugInit == ASSUME IInv, NEW ok, keypad_chip_init("hotplug", ok) PROVE IInv'
<1>1. TypeOK'
  <2>1. pc' \in [hotplug : HotplugPc, health : HealthPc]
    BY GotoHotplug, XferFacts, Zeros
       DEF IInv, TypeOK, Lines, HotplugPc, Probing, SetUp, Requests, TearDown, Config, HealthPc,
           keypad_chip_init, added, after
  <2>2. chip' \in ChipType
    BY XferFacts, Zeros
       DEF IInv, TypeOK, ChipType, StType, Config, Lines, SetUp, Requests, keypad_chip_init,
           added, after
  <2>3. hp' \in [work : BOOLEAN, bus : BOOLEAN, gone : BOOLEAN]
    BY XferFacts, Zeros DEF IInv, TypeOK, keypad_chip_init, added, after
  <2>4. kp' \in KpType
    BY XferFacts, Zeros DEF IInv, TypeOK, KpType, Lines, keypad_chip_init, added, after
  <2> QED BY <2>1, <2>2, <2>3, <2>4, XferFacts DEF IInv, TypeOK, keypad_chip_init, env
<1>2. Holding'
  BY GotoHotplug, XferFacts, Zeros
     DEF IInv, TypeOK, Holding, Lines, HotplugPc, Probing, SetUp, Requests, TearDown, Config,
         HealthPc, keypad_chip_init, added, after, env
<1>3. Unbound'
  BY GotoHotplug, XferFacts, Zeros
     DEF IInv, TypeOK, Unbound, Holding, Lines, HotplugPc, Probing, SetUp, Requests, TearDown,
         Config, HealthPc, keypad_chip_init, added, after, env
<1>4. Unpowered'
  BY GotoHotplug, XferFacts, Zeros
     DEF IInv, TypeOK, Unpowered, powered, keypad_chip_init, added, after, env
<1>5. Drained'
  BY GotoHotplug, XferFacts, Zeros
     DEF IInv, TypeOK, Drained, ChipType, keypad_chip_init, added, after, env
<1>6. Scanned'
  BY GotoHotplug, XferFacts, Zeros
     DEF IInv, TypeOK, Scanned, Holding, Unpowered, ChipType, Lines, HotplugPc, Probing, SetUp,
         Requests, TearDown, Config, HealthPc, keypad_chip_init, added, after, env
<1> QED BY <1>1, <1>2, <1>3, <1>4, <1>5, <1>6 DEF IInv

\* A step of it, by the health poll.
LEMMA InvHealthInit == ASSUME IInv, NEW ok, keypad_chip_init("health", ok) PROVE IInv'
<1>1. TypeOK'
  <2>1. pc' \in [hotplug : HotplugPc, health : HealthPc]
    BY GotoHealth, XferFacts, Zeros
       DEF IInv, TypeOK, Lines, HotplugPc, Probing, SetUp, Requests, TearDown, Config, HealthPc,
           keypad_chip_init, after
  <2>2. chip' \in ChipType
    BY XferFacts, Zeros
       DEF IInv, TypeOK, ChipType, StType, Config, Lines, SetUp, Requests, keypad_chip_init, after
  <2>3. kp' \in KpType
    <3>1. kp \in KpType /\ (kp' = kp \/ kp' = [kp EXCEPT !.present = FALSE])
      BY DEF IInv, TypeOK, keypad_chip_init
    <3> QED BY <3>1 DEF KpType
  <2> QED BY <2>1, <2>2, <2>3, XferFacts DEF IInv, TypeOK, keypad_chip_init, env
<1>2. Holding'
  <2>1. /\ st' = st /\ hp' = hp /\ pc'.hotplug = pc.hotplug
        /\ pc.hotplug \in {"idle", "adc", "cancel"} /\ kp.bound /\ kp.input
        /\ kp.irqs = Lines /\ st.bound /\ st.ier = kp.irqs /\ st.domain /\ st.irq
    <3>1. st' = st /\ hp' = hp /\ pc["health"] \in Config \cup {"enable"}
      BY DEF keypad_chip_init
    <3>2. \E x : Goto("health", x)
      BY DEF keypad_chip_init
    <3>3. hp' = hp
      BY <3>1 DEF keypad_chip_init, Config
    <3>4. pc.health # "off" /\ pc'.hotplug = pc.hotplug
      BY <3>1, <3>2, GotoHealth DEF IInv, Config
    <3> QED BY <3>1, <3>3, <3>4, Zeros DEF IInv, Holding
  <2>2. kp'.bound = kp.bound /\ kp'.irqs = kp.irqs /\ kp'.input = kp.input
    BY <2>1 DEF IInv, TypeOK, KpType, keypad_chip_init
  <2> QED BY <2>1, <2>2, Zeros DEF IInv, Holding, Probing, SetUp, Requests, TearDown, Config
<1>3. Unbound'
  BY GotoHealth, XferFacts, Zeros
     DEF IInv, TypeOK, Unbound, Holding, Lines, HotplugPc, Probing, SetUp, Requests, TearDown,
         Config, HealthPc, keypad_chip_init, after, env
<1>4. Unpowered'
  BY GotoHealth, XferFacts, Zeros DEF IInv, TypeOK, Unpowered, powered, keypad_chip_init, after, env
<1>5. Drained'
  BY GotoHealth, XferFacts, Zeros DEF IInv, TypeOK, Drained, ChipType, keypad_chip_init, after, env
<1>6. Scanned'
  BY GotoHealth, XferFacts, Zeros
     DEF IInv, TypeOK, Scanned, Holding, Unpowered, ChipType, Lines, HotplugPc, Probing, SetUp,
         Requests, TearDown, Config, HealthPc, keypad_chip_init, after, env
<1> QED BY <1>1, <1>2, <1>3, <1>4, <1>5, <1>6 DEF IInv

\* An interrupt is requested.
LEMMA InvRequest == ASSUME IInv, NEW ok, request(ok) PROVE IInv'
<1>1. TypeOK'
  <2>1. pc' \in [hotplug : HotplugPc, health : HealthPc]
    BY GotoHotplug, XferFacts, Zeros
       DEF IInv, TypeOK, Lines, HotplugPc, Probing, SetUp, Requests, TearDown, Config, HealthPc,
           request, sync
  <2>2. st' \in StType
    BY XferFacts, Zeros DEF IInv, TypeOK, StType, KpType, Lines, request, sync
  <2>3. kp' \in KpType
    BY XferFacts, Zeros DEF IInv, TypeOK, KpType, Lines, request, sync
  <2>4. chip' \in ChipType
    BY XferFacts, Zeros
       DEF IInv, TypeOK, ChipType, StType, Config, Lines, SetUp, Requests, request, sync
  <2> QED BY <2>1, <2>2, <2>3, <2>4, XferFacts DEF IInv, TypeOK, request, sync, env
<1>2. Holding'
  BY GotoHotplug, XferFacts, Zeros
     DEF IInv, TypeOK, Holding, Lines, HotplugPc, Probing, SetUp, Requests, TearDown, Config,
         HealthPc, request, sync, env
<1>3. Unbound'
  BY GotoHotplug, XferFacts, Zeros
     DEF IInv, TypeOK, Unbound, Holding, Lines, HotplugPc, Probing, SetUp, Requests, TearDown,
         Config, HealthPc, request, sync, env
<1>4. Unpowered'
  BY GotoHotplug, XferFacts, Zeros DEF IInv, TypeOK, Unpowered, powered, request, sync, env
<1>5. Drained'
  BY GotoHotplug, XferFacts, Zeros DEF IInv, TypeOK, Drained, ChipType, request, sync, env
<1>6. Scanned'
  BY GotoHotplug, XferFacts, Zeros
     DEF IInv, TypeOK, Scanned, Holding, Unpowered, ChipType, Lines, HotplugPc, Probing, SetUp,
         Requests, TearDown, Config, HealthPc, request, sync, env
<1> QED BY <1>1, <1>2, <1>3, <1>4, <1>5, <1>6 DEF IInv

\* The input device is registered.
LEMMA InvRegister == ASSUME IInv, NEW ok, register(ok) PROVE IInv'
<1>1. TypeOK'
  BY GotoHotplug, CallFacts, Zeros
     DEF IInv, TypeOK, StType, KpType, ChipType, Lines, HotplugPc, Probing, SetUp, Requests,
         TearDown, Config, HealthPc, register, env
<1>2. Holding'
  BY GotoHotplug, CallFacts, Zeros
     DEF IInv, TypeOK, Holding, Lines, HotplugPc, Probing, SetUp, Requests, TearDown, Config,
         HealthPc, register, env
<1>3. Unbound'
  BY GotoHotplug, CallFacts, Zeros
     DEF IInv, TypeOK, Unbound, Holding, Lines, HotplugPc, Probing, SetUp, Requests, TearDown,
         Config, HealthPc, register, env
<1>4. Unpowered'
  BY GotoHotplug, CallFacts, Zeros DEF IInv, TypeOK, Unpowered, powered, register, env
<1>5. Drained'
  BY GotoHotplug, CallFacts, Zeros DEF IInv, TypeOK, Drained, ChipType, register, env
<1>6. Scanned'
  BY GotoHotplug, CallFacts, Zeros
     DEF IInv, TypeOK, Scanned, Holding, Unpowered, ChipType, Lines, HotplugPc, Probing, SetUp,
         Requests, TearDown, Config, HealthPc, register, env
<1> QED BY <1>1, <1>2, <1>3, <1>4, <1>5, <1>6 DEF IInv

\* Scanning starts, at the end of the probe.
LEMMA InvHotplugStart == ASSUME IInv, NEW ok, start("hotplug", ok) PROVE IInv'
<1>a. /\ pc.hotplug = "scan" /\ pc.health = "off" /\ ~hp.bus /\ ~hp.gone
      /\ st.bound /\ kp.irqs = Lines
      /\ kp.input /\ st' = st /\ irqt' = irqt /\ cover' = cover /\ Xfer(ok) /\ st.ier = kp.irqs
      /\ chip \in ChipType
  BY 
     DEF IInv, TypeOK, Holding, Unbound, start, env, HotplugPc, Probing, SetUp, Requests,
         TearDown, Config
<1>b. CASE ok
  <2>1. kp' \in KpType /\ kp'.bound /\ kp'.irqs = kp.irqs /\ kp'.input = kp.input
    BY <1>b, KeypadStarted DEF IInv, start
  <2>2. /\ chip' \in ChipType /\ chip'.scan /\ chip'.isr = chip.isr /\ chip'.fifo = chip.fifo
    BY <1>a, <1>b DEF start, ChipType
  <2>3. pc' = [hotplug |-> "idle", health |-> "idle"] /\ hp' = [hp EXCEPT !.bus = TRUE]
    BY <1>b DEF start
  <2>4. hp' \in [work : BOOLEAN, bus : BOOLEAN, gone : BOOLEAN] /\ hp'.bus /\ hp'.gone = hp.gone
    BY <2>3 DEF IInv, TypeOK
  <2>5. TypeOK'
    BY <1>a, <2>1, <2>2, <2>3, <2>4, XferFacts DEF IInv, TypeOK, start, env, HotplugPc, HealthPc
  <2>6. Holding' /\ Unbound'
    BY <1>a, <2>1, <2>3, <2>4 DEF IInv, Holding, Unbound, Probing, SetUp, Requests, TearDown, Config
  <2>7. Scanned'
    BY <1>a, <2>1, <2>2, <2>3, XferFacts DEF IInv, TypeOK, Scanned, ChipType
  <2>8. Drained' /\ Unpowered'
    BY <1>a, <1>b, <2>2, XferFacts DEF IInv, Drained, Unpowered, powered
  <2> QED BY <2>5, <2>6, <2>7, <2>8 DEF IInv
<1>c. CASE ~ok
  <2>1. Goto("hotplug", "scan_off") /\ UNCHANGED <<hp, kp>> /\ chip' = chip
    BY <1>c DEF start
  <2>2. pc'.hotplug = "scan_off" /\ pc'.health = "off"
        /\ pc' \in [hotplug : HotplugPc, health : HealthPc]
    BY <1>a, <2>1, GotoHotplug DEF IInv, HotplugPc, TearDown
  <2>3. TypeOK'
    BY <1>a, <2>1, <2>2, XferFacts DEF IInv, TypeOK, start, env
  <2>4. Holding' /\ Unbound'
    BY <1>a, <2>1, <2>2 DEF IInv, Holding, Unbound, Probing, SetUp, Requests, TearDown, Config
  <2>5. faults' = 0 => faults = 0 /\ ~chip.scan /\ chip.fifo = 0
    BY <1>a, <1>c, XferFacts, Zeros DEF IInv, Unpowered
  <2>6. Scanned'
    BY <1>a, <2>1, <2>2, <2>5 DEF IInv, Scanned
  <2>7. Drained' /\ Unpowered'
    BY <1>a, <2>1 DEF IInv, Drained, Unpowered, powered
  <2> QED BY <2>3, <2>4, <2>6, <2>7 DEF IInv
<1> QED BY <1>a, <1>b, <1>c, XferFacts DEF IInv

\* Scanning starts again.
LEMMA InvHealthStart == ASSUME IInv, NEW ok, start("health", ok) PROVE IInv'
<1>a. /\ pc.health = "scan" /\ pc.hotplug \in {"idle", "adc", "cancel"} /\ hp.bus /\ st.bound
      /\ kp.bound /\ kp.input /\ st' = st /\ irqt' = irqt /\ cover' = cover /\ Xfer(ok)
      /\ chip \in ChipType /\ pc \in [hotplug : HotplugPc, health : HealthPc]
  <2>1. pc.health = "scan" /\ st' = st /\ irqt' = irqt /\ cover' = cover /\ Xfer(ok)
    BY DEF start, env
  <2>2. pc.hotplug \in {"idle", "adc", "cancel"} /\ kp.bound /\ kp.input
    BY <2>1 DEF IInv, Holding
  <2>3. st.bound /\ hp.bus
    BY <2>2, Zeros DEF IInv, Holding
  <2> QED BY <2>1, <2>2, <2>3 DEF IInv, TypeOK
<1>b. CASE ok
  <2>1. kp' \in KpType /\ kp'.bound /\ kp'.irqs = kp.irqs /\ kp'.input = kp.input
    BY <1>b, KeypadStarted DEF IInv, start
  <2>2. /\ chip' \in ChipType /\ chip'.scan /\ chip'.isr = chip.isr /\ chip'.fifo = chip.fifo
    BY <1>a, <1>b DEF start, ChipType
  <2>3. pc' = [hotplug |-> pc.hotplug, health |-> "idle"] /\ hp' = [hp EXCEPT !.bus = TRUE]
    BY <1>b DEF start
  <2>4. hp' \in [work : BOOLEAN, bus : BOOLEAN, gone : BOOLEAN] /\ hp'.bus /\ hp'.gone = hp.gone
        /\ hp'.work = hp.work
    BY <2>3 DEF IInv, TypeOK
  <2>5. TypeOK'
    BY <1>a, <2>1, <2>2, <2>3, <2>4, XferFacts DEF IInv, TypeOK, start, env, HotplugPc, HealthPc
  <2>6. Holding' /\ Unbound'
    BY <1>a, <2>1, <2>3, <2>4 DEF IInv, Holding, Unbound, Probing, SetUp, Requests, TearDown, Config
  <2>f. faults' = 0 => faults = 0
    BY <1>a, XferFacts DEF IInv
  <2>i. faults = 0 => kp.irqs = Lines
    BY <1>a DEF IInv, Holding
  <2>7. Scanned'
    BY <1>a, <2>1, <2>2, <2>3, <2>f, <2>i DEF IInv, TypeOK, Scanned, ChipType
  <2>8. Drained' /\ Unpowered'
    BY <1>a, <1>b, <2>2, XferFacts DEF IInv, Drained, Unpowered, powered
  <2> QED BY <2>5, <2>6, <2>7, <2>8 DEF IInv
<1>c. CASE ~ok
  <2>1. Goto("health", "scan_off") /\ UNCHANGED <<hp, kp>> /\ chip' = chip
    BY <1>c DEF start
  <2>2. /\ pc'.health = "scan_off" /\ pc'.hotplug = pc.hotplug
        /\ pc' \in [hotplug : HotplugPc, health : HealthPc]
    BY <1>a, <2>1, GotoHealth DEF IInv, HealthPc
  <2>3. TypeOK'
    BY <1>a, <2>1, <2>2, XferFacts DEF IInv, TypeOK, start, env
  <2>4. Holding' /\ Unbound'
    BY <1>a, <2>1, <2>2 DEF IInv, Holding, Unbound, Probing, SetUp, Requests, TearDown, Config
  <2>5. faults' = 0 => faults = 0 /\ ~chip.scan /\ chip.fifo = 0
    BY <1>a, <1>c, XferFacts, Zeros DEF IInv, Unpowered
  <2>6. Scanned'
    BY <1>a, <2>1, <2>2, <2>5 DEF IInv, Scanned
  <2>7. Drained' /\ Unpowered'
    BY <1>a, <2>1 DEF IInv, Drained, Unpowered, powered
  <2> QED BY <2>3, <2>4, <2>6, <2>7 DEF IInv
<1> QED BY <1>a, <1>b, <1>c, XferFacts DEF IInv

\* Scanning stops.
LEMMA InvHotplugStop == ASSUME IInv, NEW ok, stop_scan("hotplug", ok) PROVE IInv'
<1>1. TypeOK'
  <2>1. pc' \in [hotplug : HotplugPc, health : HealthPc]
    BY GotoHotplug, XferFacts, Zeros
       DEF IInv, TypeOK, Lines, HotplugPc, Probing, SetUp, Requests, TearDown, Config, HealthPc,
           stop_scan
  <2>2. chip' \in ChipType
    BY XferFacts, Zeros
       DEF IInv, TypeOK, ChipType, StType, Config, Lines, SetUp, Requests, stop_scan
  <2> QED BY <2>1, <2>2, XferFacts DEF IInv, TypeOK, stop_scan, env
<1>2. Holding'
  BY GotoHotplug, XferFacts, Zeros
     DEF IInv, TypeOK, Holding, Lines, HotplugPc, Probing, SetUp, Requests, TearDown, Config,
         HealthPc, stop_scan, env
<1>3. Unbound'
  BY GotoHotplug, XferFacts, Zeros
     DEF IInv, TypeOK, Unbound, Holding, Lines, HotplugPc, Probing, SetUp, Requests, TearDown,
         Config, HealthPc, stop_scan, env
<1>4. Unpowered'
  BY GotoHotplug, XferFacts, Zeros DEF IInv, TypeOK, Unpowered, powered, stop_scan, env
<1>5. Drained'
  BY GotoHotplug, XferFacts, Zeros DEF IInv, TypeOK, Drained, ChipType, stop_scan, env
<1>6. Scanned'
  BY GotoHotplug, XferFacts, Zeros
     DEF IInv, TypeOK, Scanned, Holding, Unpowered, ChipType, Lines, HotplugPc, Probing, SetUp,
         Requests, TearDown, Config, HealthPc, stop_scan, env
<1> QED BY <1>1, <1>2, <1>3, <1>4, <1>5, <1>6 DEF IInv

\* Scanning stops after it did not start again.
LEMMA InvHealthStop == ASSUME IInv, NEW ok, stop_scan("health", ok) PROVE IInv'
<1>1. TypeOK'
  <2>1. pc' \in [hotplug : HotplugPc, health : HealthPc]
    BY GotoHealth, XferFacts, Zeros
       DEF IInv, TypeOK, Lines, HotplugPc, Probing, SetUp, Requests, TearDown, Config, HealthPc,
           stop_scan
  <2>2. chip' \in ChipType
    BY XferFacts, Zeros
       DEF IInv, TypeOK, ChipType, StType, Config, Lines, SetUp, Requests, stop_scan
  <2> QED BY <2>1, <2>2, XferFacts DEF IInv, TypeOK, stop_scan, env
<1>2. Holding'
  BY GotoHealth, XferFacts, Zeros
     DEF IInv, TypeOK, Holding, Lines, HotplugPc, Probing, SetUp, Requests, TearDown, Config,
         HealthPc, stop_scan, env
<1>3. Unbound'
  BY GotoHealth, XferFacts, Zeros
     DEF IInv, TypeOK, Unbound, Holding, Lines, HotplugPc, Probing, SetUp, Requests, TearDown,
         Config, HealthPc, stop_scan, env
<1>4. Unpowered'
  BY GotoHealth, XferFacts, Zeros DEF IInv, TypeOK, Unpowered, powered, stop_scan, env
<1>5. Drained'
  BY GotoHealth, XferFacts, Zeros DEF IInv, TypeOK, Drained, ChipType, stop_scan, env
<1>6. Scanned'
  BY GotoHealth, XferFacts, Zeros
     DEF IInv, TypeOK, Scanned, Holding, Unpowered, ChipType, Lines, HotplugPc, Probing, SetUp,
         Requests, TearDown, Config, HealthPc, stop_scan, env
<1> QED BY <1>1, <1>2, <1>3, <1>4, <1>5, <1>6 DEF IInv

\* The keypad's block is disabled.
LEMMA InvHotplugDisable == ASSUME IInv, NEW ok, keypad_disable("hotplug", ok) PROVE IInv'
<1>1. TypeOK'
  BY GotoHotplug, XferFacts, Zeros
     DEF IInv, TypeOK, StType, KpType, ChipType, Lines, HotplugPc, Probing, SetUp, Requests,
         TearDown, Config, HealthPc, keypad_disable, env
<1>2. Holding'
  BY GotoHotplug, XferFacts, Zeros
     DEF IInv, TypeOK, Holding, Lines, HotplugPc, Probing, SetUp, Requests, TearDown, Config,
         HealthPc, keypad_disable, env
<1>3. Unbound'
  BY GotoHotplug, XferFacts, Zeros
     DEF IInv, TypeOK, Unbound, Holding, Lines, HotplugPc, Probing, SetUp, Requests, TearDown,
         Config, HealthPc, keypad_disable, env
<1>4. Unpowered'
  BY GotoHotplug, XferFacts, Zeros DEF IInv, TypeOK, Unpowered, powered, keypad_disable, env
<1>5. Drained'
  BY GotoHotplug, XferFacts, Zeros DEF IInv, TypeOK, Drained, ChipType, keypad_disable, env
<1>6. Scanned'
  BY GotoHotplug, XferFacts, Zeros
     DEF IInv, TypeOK, Scanned, Holding, Unpowered, ChipType, Lines, HotplugPc, Probing, SetUp,
         Requests, TearDown, Config, HealthPc, keypad_disable, env
<1> QED BY <1>1, <1>2, <1>3, <1>4, <1>5, <1>6 DEF IInv

\* The block is disabled after a set-up that failed.
LEMMA InvHealthDisable == ASSUME IInv, NEW ok, keypad_disable("health", ok) PROVE IInv'
<1>1. TypeOK'
  <2>1. pc' \in [hotplug : HotplugPc, health : HealthPc]
    BY GotoHealth, XferFacts, Zeros
       DEF IInv, TypeOK, Lines, HotplugPc, Probing, SetUp, Requests, TearDown, Config, HealthPc,
           keypad_disable
  <2>2. chip' \in ChipType
    BY XferFacts, Zeros
       DEF IInv, TypeOK, ChipType, StType, Config, Lines, SetUp, Requests, keypad_disable
  <2>3. kp' \in KpType
    <3>1. kp \in KpType /\ (kp' = kp \/ kp' = [kp EXCEPT !.present = FALSE])
      BY DEF IInv, TypeOK, keypad_disable
    <3> QED BY <3>1 DEF KpType
  <2> QED BY <2>1, <2>2, <2>3, XferFacts DEF IInv, TypeOK, keypad_disable, env
<1>2. Holding'
  <2>1. /\ st' = st /\ hp' = hp /\ pc'.hotplug = pc.hotplug
        /\ pc.hotplug \in {"idle", "adc", "cancel"} /\ kp.bound /\ kp.input
        /\ kp.irqs = Lines /\ st.bound /\ st.ier = kp.irqs /\ st.domain /\ st.irq
    BY GotoHealth, XferFacts, Zeros DEF IInv, TypeOK, Holding, keypad_disable
  <2>2. kp'.bound = kp.bound /\ kp'.irqs = kp.irqs /\ kp'.input = kp.input
    BY <2>1 DEF IInv, TypeOK, KpType, keypad_disable
  <2> QED BY <2>1, <2>2, Zeros DEF IInv, Holding, Probing, SetUp, Requests, TearDown, Config
<1>3. Unbound'
  BY GotoHealth, XferFacts, Zeros
     DEF IInv, TypeOK, Unbound, Holding, Lines, HotplugPc, Probing, SetUp, Requests, TearDown,
         Config, HealthPc, keypad_disable, env
<1>4. Unpowered'
  BY GotoHealth, XferFacts, Zeros DEF IInv, TypeOK, Unpowered, powered, keypad_disable, env
<1>5. Drained'
  BY GotoHealth, XferFacts, Zeros DEF IInv, TypeOK, Drained, ChipType, keypad_disable, env
<1>6. Scanned'
  BY GotoHealth, XferFacts, Zeros
     DEF IInv, TypeOK, Scanned, Holding, Unpowered, ChipType, Lines, HotplugPc, Probing, SetUp,
         Requests, TearDown, Config, HealthPc, keypad_disable, env
<1> QED BY <1>1, <1>2, <1>3, <1>4, <1>5, <1>6 DEF IInv

\* devres of the keypad.
LEMMA InvFree == ASSUME IInv, NEW ok, free(ok) PROVE IInv'
<1>a. /\ pc.hotplug = "free" /\ pc.health = "off" /\ st.bound /\ irqt.pc = "idle" /\ irqt' = irqt
      /\ st.ier = kp.irqs /\ (hp.gone => hp.bus /\ ~hp.work) /\ torn' = torn /\ UNCHANGED env
      /\ pc \in [hotplug : HotplugPc, health : HealthPc] /\ kp.irqs \subseteq Lines
      /\ st.domain /\ st.irq
  BY DEF IInv, TypeOK, Holding, Unbound, KpType, free, TearDown
<1>b. CASE kp.irqs # {}
  <2> DEFINE l == IF "over" \in kp.irqs THEN "over" ELSE "key"
  <2>1. /\ sync(st.ier \ {l}, ok) /\ kp' = [kp EXCEPT !.irqs = kp.irqs \ {l}, !.input = FALSE]
        /\ hp' = hp /\ pc' = pc
    BY <1>b DEF free
  <2>2. st.ier \ {l} \in SUBSET Lines /\ kp.irqs \ {l} \in SUBSET Lines
    BY <1>a
  <2> HIDE DEF l
  <2>3. kp' \in KpType /\ kp'.irqs = kp.irqs \ {l} /\ kp'.bound = kp.bound
    BY <2>1, <2>2, KeypadFreed DEF IInv
  <2>4. /\ Xfer(ok) /\ (~ok => chip' = chip)
        /\ st' \in StType /\ st'.ier = st.ier \ {l} /\ st'.l6 = st.l6
        /\ st'.bound = st.bound /\ st'.domain = st.domain /\ st'.irq = st.irq
        /\ chip' \in ChipType /\ chip'.scan = chip.scan /\ chip'.isr = chip.isr
        /\ chip'.fifo = chip.fifo
    BY <2>1, <2>2, SyncFacts DEF IInv
  <2>5. TypeOK'
    BY <1>a, <2>1, <2>3, <2>4, XferFacts DEF IInv, TypeOK, env
  <2>6. Holding' /\ Unbound'
    BY <1>a, <2>1, <2>3, <2>4 DEF IInv, Holding, Unbound, Probing, SetUp, Requests, TearDown, Config
  <2>7. Unpowered'
    BY <1>a, <2>4, XferFacts DEF IInv, Unpowered, powered, env
  <2>8. Drained' /\ Scanned'
    BY <1>a, <2>1, <2>4, XferFacts DEF IInv, Drained, Scanned
  <2> QED BY <2>5, <2>6, <2>7, <2>8 DEF IInv
<1>c. CASE kp.irqs = {}
  <2>1. kp' = Keypad0 /\ st' = st /\ chip' = chip /\ faults' = faults
    BY <1>c DEF free
  <2>2. IF hp.bus THEN pc'.hotplug = "release" /\ hp' = hp
                  ELSE pc'.hotplug = "idle" /\ hp' = [hp EXCEPT !.bus = TRUE]
    BY <1>c, GotoHotplug DEF IInv, free, added
  <2>3. pc'.health = "off" /\ pc' \in [hotplug : HotplugPc, health : HealthPc]
    BY <1>a, <1>c, GotoHotplug DEF IInv, free, added, HotplugPc
  <2>4. /\ hp' \in [work : BOOLEAN, bus : BOOLEAN, gone : BOOLEAN] /\ hp'.gone = hp.gone
        /\ hp'.work = hp.work /\ hp'.bus
    BY <2>2 DEF IInv, TypeOK
  <2>5. TypeOK'
    BY <1>a, <2>1, <2>3, <2>4, Zeros DEF IInv, TypeOK, env
  <2>6. Holding' /\ Unbound'
    BY <1>a, <1>c, <2>1, <2>2, <2>3, <2>4, Zeros
       DEF IInv, Holding, Unbound, Probing, SetUp, Requests, 
       TearDown, Config
  <2>7. Unpowered' /\ Drained'
    BY <1>a, <2>1 DEF IInv, Unpowered, Drained, powered, env
  <2>8. Scanned'
    BY <1>a, <1>c, <2>1, <2>2, <2>3, <2>4 DEF IInv, Scanned
  <2> QED BY <2>5, <2>6, <2>7, <2>8 DEF IInv
<1> QED BY <1>b, <1>c

\* stmpe_remove().
LEMMA InvRemove == ASSUME IInv, NEW ok, remove(ok) PROVE IInv'
<1>1. TypeOK'
  BY GotoHotplug, XferFacts, Zeros
     DEF IInv, TypeOK, StType, KpType, ChipType, Lines, HotplugPc, Probing, SetUp, Requests,
         TearDown, Config, HealthPc, remove, env
<1>2. Holding'
  BY GotoHotplug, XferFacts, Zeros
     DEF IInv, TypeOK, Holding, Lines, HotplugPc, Probing, SetUp, Requests, TearDown, Config,
         HealthPc, remove, env
<1>3. Unbound'
  BY GotoHotplug, XferFacts, Zeros
     DEF IInv, TypeOK, Unbound, Holding, Lines, HotplugPc, Probing, SetUp, Requests, TearDown,
         Config, HealthPc, remove, env
<1>4. Unpowered'
  BY GotoHotplug, XferFacts, Zeros DEF IInv, TypeOK, Unpowered, powered, remove, env
<1>5. Drained'
  BY GotoHotplug, XferFacts, Zeros DEF IInv, TypeOK, Drained, ChipType, remove, env
<1>6. Scanned'
  BY GotoHotplug, XferFacts, Zeros
     DEF IInv, TypeOK, Scanned, Holding, Unpowered, ChipType, Lines, HotplugPc, Probing, SetUp,
         Requests, TearDown, Config, HealthPc, remove, env
<1> QED BY <1>1, <1>2, <1>3, <1>4, <1>5, <1>6 DEF IInv

\* The poll is cancelled.
LEMMA InvCancelHealth == ASSUME IInv, cancel_health PROVE IInv'
<1>1. TypeOK'
  BY Zeros
     DEF IInv, TypeOK, StType, KpType, ChipType, Lines, HotplugPc, Probing, SetUp, Requests,
         TearDown, Config, HealthPc, cancel_health, env
<1>2. Holding'
  BY Zeros
     DEF IInv, TypeOK, Holding, Lines, HotplugPc, Probing, SetUp, Requests, TearDown, Config,
         HealthPc, cancel_health, env
<1>3. Unbound'
  BY Zeros
     DEF IInv, TypeOK, Unbound, Holding, Lines, HotplugPc, Probing, SetUp, Requests, TearDown,
         Config, HealthPc, cancel_health, env
<1>4. Unpowered'
  BY Zeros DEF IInv, TypeOK, Unpowered, powered, cancel_health, env
<1>5. Drained'
  BY Zeros DEF IInv, TypeOK, Drained, ChipType, cancel_health, env
<1>6. Scanned'
  BY Zeros
     DEF IInv, TypeOK, Scanned, Holding, Unpowered, ChipType, Lines, HotplugPc, Probing, SetUp,
         Requests, TearDown, Config, HealthPc, cancel_health, env
<1> QED BY <1>1, <1>2, <1>3, <1>4, <1>5, <1>6 DEF IInv

\* The poll begins.
LEMMA InvPoll == ASSUME IInv, poll PROVE IInv'
<1>1. TypeOK'
  BY GotoHealth, Zeros
     DEF IInv, TypeOK, StType, KpType, ChipType, Lines, HotplugPc, Probing, SetUp, Requests,
         TearDown, Config, HealthPc, poll, env
<1>2. Holding'
  BY GotoHealth, Zeros
     DEF IInv, TypeOK, Holding, Lines, HotplugPc, Probing, SetUp, Requests, TearDown, Config,
         HealthPc, poll, env
<1>3. Unbound'
  BY GotoHealth, Zeros
     DEF IInv, TypeOK, Unbound, Holding, Lines, HotplugPc, Probing, SetUp, Requests, TearDown,
         Config, HealthPc, poll, env
<1>4. Unpowered'
  BY GotoHealth, Zeros DEF IInv, TypeOK, Unpowered, powered, poll, env
<1>5. Drained'
  BY GotoHealth, Zeros DEF IInv, TypeOK, Drained, ChipType, poll, env
<1>6. Scanned'
  BY GotoHealth, Zeros
     DEF IInv, TypeOK, Scanned, Holding, Unpowered, ChipType, Lines, HotplugPc, Probing, SetUp,
         Requests, TearDown, Config, HealthPc, poll, env
<1> QED BY <1>1, <1>2, <1>3, <1>4, <1>5, <1>6 DEF IInv

\* The canary register is read.
LEMMA InvCanary == ASSUME IInv, NEW ok, canary(ok) PROVE IInv'
<1>1. TypeOK'
  <2>1. pc' \in [hotplug : HotplugPc, health : HealthPc]
    BY GotoHealth, XferFacts, Zeros
       DEF IInv, TypeOK, Lines, HotplugPc, Probing, SetUp, Requests, TearDown, Config, HealthPc,
           canary
  <2>2. kp' \in KpType
    BY XferFacts, Zeros DEF IInv, TypeOK, KpType, Lines, canary
  <2> QED BY <2>1, <2>2, XferFacts DEF IInv, TypeOK, canary, env
<1>2. Holding'
  <2>1. /\ st' = st /\ hp' = hp /\ pc'.hotplug = pc.hotplug
        /\ pc.hotplug \in {"idle", "adc", "cancel"} /\ kp.bound /\ kp.input
        /\ kp.irqs = Lines /\ st.bound /\ st.ier = kp.irqs /\ st.domain /\ st.irq
    BY GotoHealth, XferFacts, Zeros DEF IInv, TypeOK, Holding, canary
  <2>2. kp'.bound = kp.bound /\ kp'.irqs = kp.irqs /\ kp'.input = kp.input
    BY <2>1 DEF IInv, TypeOK, KpType, canary
  <2> QED BY <2>1, <2>2, Zeros DEF IInv, Holding, Probing, SetUp, Requests, TearDown, Config
<1>3. Unbound'
  BY GotoHealth, XferFacts, Zeros
     DEF IInv, TypeOK, Unbound, Holding, Lines, HotplugPc, Probing, SetUp, Requests, TearDown,
         Config, HealthPc, canary, env
<1>4. Unpowered'
  BY GotoHealth, XferFacts, Zeros DEF IInv, TypeOK, Unpowered, powered, canary, env
<1>5. Drained'
  BY GotoHealth, XferFacts, Zeros DEF IInv, TypeOK, Drained, ChipType, canary, env
<1>6. Scanned'
  BY GotoHealth, XferFacts, Zeros
     DEF IInv, TypeOK, Scanned, Holding, Unpowered, ChipType, Lines, HotplugPc, Probing, SetUp,
         Requests, TearDown, Config, HealthPc, canary, env
<1> QED BY <1>1, <1>2, <1>3, <1>4, <1>5, <1>6 DEF IInv

\* ICR and IER are written again.
LEMMA InvRestore == ASSUME IInv, NEW ok, restore_irq_setup(ok) PROVE IInv'
<1>1. TypeOK'
  <2>1. pc' \in [hotplug : HotplugPc, health : HealthPc]
    BY GotoHealth, XferFacts, Zeros
       DEF IInv, TypeOK, Lines, HotplugPc, Probing, SetUp, Requests, TearDown, Config, HealthPc,
           restore_irq_setup
  <2>2. chip' \in ChipType
    BY XferFacts, Zeros
       DEF IInv, TypeOK, ChipType, StType, Config, Lines, SetUp, Requests, restore_irq_setup
  <2>3. st' \in StType
    BY XferFacts, Zeros DEF IInv, TypeOK, StType, KpType, Lines, restore_irq_setup
  <2>4. kp' \in KpType
    <3>1. kp \in KpType /\ (kp' = kp \/ kp' = [kp EXCEPT !.present = FALSE])
      BY DEF IInv, TypeOK, restore_irq_setup
    <3> QED BY <3>1 DEF KpType
  <2> QED BY <2>1, <2>2, <2>3, <2>4, XferFacts DEF IInv, TypeOK, restore_irq_setup, env
<1>2. Holding'
  <2>1. /\ st'.bound = st.bound /\ st'.domain = st.domain /\ st'.irq = st.irq
        /\ st'.ier = st.ier /\ hp' = hp /\ pc'.hotplug = pc.hotplug
        /\ pc.hotplug \in {"idle", "adc", "cancel"} /\ kp.bound /\ kp.input
        /\ kp.irqs = Lines /\ st.bound /\ st.ier = kp.irqs /\ st.domain /\ st.irq
    BY GotoHealth, XferFacts, Zeros DEF IInv, TypeOK, Holding, StType, restore_irq_setup
  <2>2. kp'.bound = kp.bound /\ kp'.irqs = kp.irqs /\ kp'.input = kp.input
    BY <2>1 DEF IInv, TypeOK, KpType, restore_irq_setup
  <2> QED BY <2>1, <2>2, Zeros DEF IInv, Holding, Probing, SetUp, Requests, TearDown, Config
<1>3. Unbound'
  BY GotoHealth, XferFacts, Zeros
     DEF IInv, TypeOK, Unbound, Holding, Lines, HotplugPc, Probing, SetUp, Requests, TearDown,
         Config, HealthPc, restore_irq_setup, env
<1>4. Unpowered'
  BY GotoHealth, XferFacts, Zeros DEF IInv, TypeOK, Unpowered, powered, restore_irq_setup, env
<1>5. Drained'
  BY GotoHealth, XferFacts, Zeros DEF IInv, TypeOK, Drained, ChipType, restore_irq_setup, env
<1>6. Scanned'
  BY GotoHealth, XferFacts, Zeros
     DEF IInv, TypeOK, Scanned, Holding, Unpowered, ChipType, Lines, HotplugPc, Probing, SetUp,
         Requests, TearDown, Config, HealthPc, restore_irq_setup, env
<1> QED BY <1>1, <1>2, <1>3, <1>4, <1>5, <1>6 DEF IInv

\* The cover goes or comes.
LEMMA InvMove == ASSUME IInv, move PROVE IInv'
<1>1. TypeOK'
  BY Zeros
     DEF IInv, TypeOK, StType, KpType, ChipType, Lines, HotplugPc, Probing, SetUp, Requests,
         TearDown, Config, HealthPc, move, env
<1>2. Holding'
  BY Zeros
     DEF IInv, TypeOK, Holding, Lines, HotplugPc, Probing, SetUp, Requests, TearDown, Config,
         HealthPc, move, env
<1>3. Unbound'
  BY Zeros
     DEF IInv, TypeOK, Unbound, Holding, Lines, HotplugPc, Probing, SetUp, Requests, TearDown,
         Config, HealthPc, move, env
<1>4. Unpowered'
  BY Zeros DEF IInv, TypeOK, Unpowered, powered, move, env
<1>5. Drained'
  <2>1. irqt' = irqt /\ irqt.n \in 0..(Depth - 1) /\ irqt.n <= Depth /\ chip \in ChipType
    BY CoverAssumption DEF IInv, TypeOK, move
  <2>2. chip' = Chip0 \/ (chip'.isr = chip.isr /\ chip'.fifo = chip.fifo)
    BY <2>1 DEF move, ChipType
  <2> QED BY <2>1, <2>2, Zeros DEF IInv, Drained
<1>6. Scanned'
  BY Zeros
     DEF IInv, TypeOK, Scanned, Holding, Unpowered, ChipType, Lines, HotplugPc, Probing, SetUp,
         Requests, TearDown, Config, HealthPc, move, env
<1> QED BY <1>1, <1>2, <1>3, <1>4, <1>5, <1>6 DEF IInv

\* The MUIC sees it.
LEMMA InvDetect == ASSUME IInv, detect PROVE IInv'
<1>1. TypeOK'
  BY Zeros
     DEF IInv, TypeOK, StType, KpType, ChipType, Lines, HotplugPc, Probing, SetUp, Requests,
         TearDown, Config, HealthPc, detect, notify, env
<1>2. Holding'
  BY Zeros
     DEF IInv, TypeOK, Holding, Lines, HotplugPc, Probing, SetUp, Requests, TearDown, Config,
         HealthPc, detect, notify, env
<1>3. Unbound'
  BY Zeros
     DEF IInv, TypeOK, Unbound, Holding, Lines, HotplugPc, Probing, SetUp, Requests, TearDown,
         Config, HealthPc, detect, notify, env
<1>4. Unpowered'
  BY Zeros DEF IInv, TypeOK, Unpowered, powered, detect, notify, env
<1>5. Drained'
  BY Zeros DEF IInv, TypeOK, Drained, ChipType, detect, notify, env
<1>6. Scanned'
  BY Zeros
     DEF IInv, TypeOK, Scanned, Holding, Unpowered, ChipType, Lines, HotplugPc, Probing, SetUp,
         Requests, TearDown, Config, HealthPc, detect, notify, env
<1> QED BY <1>1, <1>2, <1>3, <1>4, <1>5, <1>6 DEF IInv

\* A key event.
LEMMA InvPress == ASSUME IInv, press PROVE IInv'
<1>1. TypeOK'
  <2>1. chip \in ChipType /\ chip.fifo \in 0..Depth /\ Depth \in Nat
        /\ "key" \in Lines /\ "over" \in Lines
    BY CoverAssumption DEF IInv, TypeOK, ChipType, Lines
  <2>2. CASE chip.fifo < Depth
    <3>1. chip.fifo + 1 \in 0..Depth /\ chip.isr \cup {"key"} \in SUBSET Lines
      BY <2>1, <2>2 DEF ChipType
    <3>2. chip' = [chip EXCEPT !.fifo = chip.fifo + 1, !.isr = chip.isr \cup {"key"}]
      BY <2>2 DEF press
    <3>3. chip' \in ChipType
      BY <2>1, <3>1, <3>2 DEF ChipType
    <3> QED BY <3>3 DEF IInv, TypeOK, press
  <2>3. CASE ~(chip.fifo < Depth)
    <3>1. chip.isr \cup {"over"} \in SUBSET Lines
      BY <2>1 DEF ChipType
    <3>2. chip' = [chip EXCEPT !.isr = chip.isr \cup {"over"}]
      BY <2>3 DEF press
    <3>3. chip' \in ChipType
      BY <2>1, <3>1, <3>2 DEF ChipType
    <3> QED BY <3>3 DEF IInv, TypeOK, press
  <2> QED BY <2>2, <2>3
<1>2. Holding'
  BY Zeros
     DEF IInv, TypeOK, Holding, Lines, HotplugPc, Probing, SetUp, Requests, TearDown, Config,
         HealthPc, press, env
<1>3. Unbound'
  BY Zeros
     DEF IInv, TypeOK, Unbound, Holding, Lines, HotplugPc, Probing, SetUp, Requests, TearDown,
         Config, HealthPc, press, env
<1>4. Unpowered'
  BY Zeros DEF IInv, TypeOK, Unpowered, powered, press, env
<1>5. Drained'
  BY Zeros DEF IInv, TypeOK, Drained, ChipType, press, env
<1>6. Scanned'
  BY Zeros
     DEF IInv, TypeOK, Scanned, Holding, Unpowered, ChipType, Lines, HotplugPc, Probing, SetUp,
         Requests, TearDown, Config, HealthPc, press, env
<1> QED BY <1>1, <1>2, <1>3, <1>4, <1>5, <1>6 DEF IInv

\* The driver starts with nothing held.
LEMMA InvInit == Init => IInv
<1> SUFFICES ASSUME Init PROVE IInv
  OBVIOUS
<1>1. TypeOK
  <2>1. irqt \in [pc : {"idle", "drain"}, lines : SUBSET Lines, n : 0..(Depth - 1)]
    BY CoverAssumption DEF Init, Irq0
  <2>2. pc \in [hotplug : HotplugPc, health : HealthPc]
    BY DEF Init, HotplugPc, HealthPc
  <2>3. hp \in [work : BOOLEAN, bus : BOOLEAN, gone : BOOLEAN]
    BY DEF Init
  <2> QED BY <2>1, <2>2, <2>3, Zeros DEF Init, TypeOK
<1>2. Holding /\ Unbound
  BY Zeros DEF Init, Holding, Unbound, Probing, SetUp, Requests, TearDown, Config
<1>3. Unpowered /\ Drained /\ Scanned
  BY Zeros DEF Init, Unpowered, Drained, Scanned, Irq0
<1> QED BY <1>1, <1>2, <1>3 DEF IInv

\* Every step of the three threads, the cover and the MUIC keeps the invariant.
LEMMA InvNext == IInv /\ [Next]_vars => IInv'
<1> SUFFICES ASSUME IInv, [Next]_vars PROVE IInv'
  OBVIOUS
<1>1. CASE HotplugStep
  BY <1>1, InvExtconWork, InvRelease, InvCancelHealth, InvAddAdapter, InvVcc, InvChipInit,
     InvIrqInit, InvHotplugInit, InvRequest, InvRegister, InvHotplugStart, InvHotplugStop,
     InvHotplugDisable, InvFree, InvRemove DEF HotplugStep
<1>2. CASE HealthStep
  BY <1>2, InvPoll, InvCanary, InvRestore, InvHealthInit, InvHealthStart, InvHealthStop,
     InvHealthDisable DEF HealthStep
<1>3. CASE IrqStep
  BY <1>3, InvIrqEnd, InvIrqRead, InvDrain DEF IrqStep
<1>4. CASE unbind \/ move \/ detect \/ press
  BY <1>4, InvUnbind, InvMove, InvDetect, InvPress
<1>5. CASE UNCHANGED vars
  BY <1>5 DEF IInv, TypeOK, Holding, Unbound, Unpowered, Drained, Scanned, vars, powered
<1> QED BY <1>1, <1>2, <1>3, <1>4, <1>5 DEF Next

\* The inductive invariant holds of every behaviour of the drivers.
LEMMA InvAlways == Spec => []IInv
  BY InvInit, InvNext, PTL DEF Spec

-----------------------------------------------------------------------------
(* The theorems *)

\* What the drivers hold is released in order, whatever failed on the way and
\* whenever the cover went: interrupts before their domain, the input device
\* and the poll before the MFD, adapter and work before the hot plug driver.
THEOREM ReleasedInOrderAlways == Spec => []ReleasedInOrder
<1>1. IInv => ReleasedInOrder
  BY Zeros DEF IInv, TypeOK, Holding, Unbound, ReleasedInOrder, StType
<1> QED BY <1>1, InvAlways, PTL

\* As long as no transfer fails, a key event in the FIFO of a keypad that is
\* set up has its interrupt pending, unless it is being read.
THEOREM NoStrandedKeysAlways == Spec => []NoStrandedKeys
<1>1. IInv => NoStrandedKeys
  <2> SUFFICES ASSUME IInv, faults = 0, ready, chip.fifo > 0, irqt.pc = "idle" PROVE line
    BY DEF NoStrandedKeys
  <2>1. chip.isr # {} /\ chip.isr \subseteq Lines
    BY DEF IInv, TypeOK, ChipType, Scanned, ready
  <2> QED BY <2>1 DEF ready, line
<1> QED BY <1>1, InvAlways, PTL

-----------------------------------------------------------------------------
(* The chain of drivers implements the queue of key events *)

\* Without a change of the FIFO, the status or the interrupt thread, the link
\* goes up or down, or stays.
LEMMA QuietStep ==
    ASSUME TypeOK, TypeOK', chip'.fifo = chip.fifo, chip'.isr = chip.isr, irqt' = irqt
    PROVE  [Keys!Next]_(Keys!vars)
<1>1. chip.isr \subseteq Lines /\ chip'.isr \subseteq Lines /\ chip.fifo \in 0..Depth
  BY DEF TypeOK, ChipType
<1>2. ready /\ ready' => (line' <=> line)
  BY <1>1 DEF ready, line
<1>3. ready /\ ready' => (stalled' <=> stalled)
  BY <1>2 DEF stalled
<1>4. (stalled => chip.fifo > 0) /\ (stalled' => chip'.fifo > 0)
  BY DEF stalled
<1> QED BY <1>3, <1>4 DEF Keys!Next, Keys!Connect, Keys!Disconnect, Keys!vars

\* A chip that forgets everything loses its queue.
LEMMA LostStep ==
    ASSUME chip' = Chip0
    PROVE  Keys!Next
<1>1. ~ready' /\ chip'.fifo = 0
  BY Zeros DEF ready
<1> QED BY <1>1 DEF Keys!Next, Keys!PowerLost

\* Reading the status hides what is waiting from the line, but only while it
\* is about to be read.
LEMMA ReadStep ==
    ASSUME IInv, IInv', NEW ok, irq_read(ok)
    PROVE  [Keys!Next]_(Keys!vars)
<1>1. CASE ok
  <2>1. /\ chip'.fifo = chip.fifo /\ chip'.icr = chip.icr /\ chip'.ier = chip.ier
        /\ chip'.regs = chip.regs /\ chip'.scan = chip.scan
        /\ UNCHANGED <<st, kp, cover>> /\ line /\ irqt'.pc = "drain"
    BY <1>1 DEF IInv, TypeOK, ChipType, irq_read, env
  <2>2. (ready' <=> ready) /\ ~stalled /\ ~stalled'
    BY <2>1 DEF ready, stalled, powered
  <2> QED BY <2>1, <2>2 DEF Keys!vars
<1>2. CASE ~ok
  BY <1>2, QuietStep DEF IInv, irq_read
<1> QED BY <1>1, <1>2

\* What the interrupt thread leaves stays until the next event.
LEMMA EndStep ==
    ASSUME IInv, IInv', irq_end
    PROVE  [Keys!Next]_(Keys!vars)
<1>1. chip' = chip /\ UNCHANGED <<st, kp, cover>> /\ irqt.pc = "drain"
  BY DEF irq_end, env
<1>2. (ready' <=> ready) /\ ~stalled /\ (stalled' => chip.fifo > 0)
  BY <1>1 DEF ready, stalled, powered
<1> QED BY <1>1, <1>2 DEF Keys!Next, Keys!Stall, Keys!vars

\* An entry that is read is delivered, and none is left behind when a drain
\* ends; only a read that fails may stall the queue.
LEMMA DrainStep ==
    ASSUME IInv, IInv', NEW ok, drain(ok)
    PROVE  [Keys!Next]_(Keys!vars)
<1>1. /\ irqt.pc = "drain" /\ irqt.lines # {} /\ UNCHANGED <<st, kp, cover>>
      /\ irqt.n \in 0..(Depth - 1) /\ chip.fifo \in 0..Depth /\ Depth \in Nat
  BY CoverAssumption DEF IInv, TypeOK, ChipType, drain, env
<1>2. ~stalled
  BY <1>1 DEF stalled
<1>3. CASE ok /\ chip.fifo > 0
  <2>1. /\ chip'.fifo = chip.fifo - 1 /\ chip'.icr = chip.icr /\ chip'.ier = chip.ier
        /\ chip'.regs = chip.regs /\ chip'.scan = chip.scan /\ chip'.isr = chip.isr
    BY <1>3 DEF IInv, TypeOK, ChipType, drain
  <2>2. ready' <=> ready
    BY <1>1, <2>1 DEF ready, powered
  <2>3. chip.isr = {} => chip.fifo + irqt.n <= Depth
    BY <1>1 DEF IInv, Drained
  <2>4. chip'.isr = {} /\ irqt'.pc = "idle" => chip'.fifo = 0
    <3>1. CASE irqt.n + 1 < Depth
      BY <1>1, <1>3, <3>1 DEF IInv, TypeOK, drain
    <3>2. CASE ~(irqt.n + 1 < Depth)
      BY <1>1, <1>3, <2>1, <2>3, <3>2
    <3> QED BY <3>1, <3>2
  <2>5. ready' => (line' <=> chip'.isr # {})
    BY DEF ready, line, IInv, TypeOK, ChipType
  <2>6. ready' => ~stalled'
    BY <2>4, <2>5 DEF stalled
  <2> QED BY <1>1, <1>2, <1>3, <2>1, <2>2, <2>6 DEF Keys!Next, Keys!Deliver
<1>4. CASE ~(ok /\ chip.fifo > 0)
  <2>1. chip' = chip
    BY <1>4 DEF drain
  <2>2. (ready' <=> ready) /\ (stalled' => chip.fifo > 0)
    BY <1>1, <2>1 DEF ready, stalled, powered
  <2> QED BY <1>2, <2>1, <2>2 DEF Keys!Next, Keys!Stall, Keys!vars
<1> QED BY <1>3, <1>4

\* A key event joins the queue or finds it full; either way its interrupt ends
\* a stall.
LEMMA PressStep ==
    ASSUME IInv, IInv', press
    PROVE  [Keys!Next]_(Keys!vars)
<1>1. chip \in ChipType /\ chip.fifo \in 0..Depth /\ Depth \in Nat
  BY CoverAssumption DEF IInv, TypeOK, ChipType
<1>2. /\ chip'.icr = chip.icr /\ chip'.ier = chip.ier /\ chip'.regs = chip.regs
      /\ chip'.scan = chip.scan /\ chip'.isr # {} /\ UNCHANGED <<st, kp, cover, irqt>>
      /\ IF chip.fifo < Depth THEN chip'.fifo = chip.fifo + 1 ELSE chip'.fifo = chip.fifo
  <2>1. CASE chip.fifo < Depth
    BY <1>1, <2>1 DEF press, ChipType
  <2>2. CASE ~(chip.fifo < Depth)
    BY <1>1, <2>2 DEF press, ChipType
  <2> QED BY <2>1, <2>2
<1>3. ready' <=> ready
  BY <1>2 DEF ready, powered
<1>4. ready' => (line' <=> chip'.isr # {})
  BY DEF ready, line, IInv, TypeOK, ChipType
<1>5. ready' => ~stalled'
  BY <1>2, <1>4 DEF stalled
<1>6. CASE chip.fifo < Depth
  BY <1>2, <1>3, <1>5, <1>6 DEF Keys!Next, Keys!Press
<1>7. CASE ~(chip.fifo < Depth)
  <2>1. chip.fifo = Depth
    BY <1>1, <1>7
  <2> QED BY <1>2, <1>3, <1>5, <1>7, <2>1 DEF Keys!Next, Keys!Overflow, Keys!vars
<1> QED BY <1>6, <1>7

\* Every other step leaves the queue alone or loses all of it.
LEMMA OtherStep ==
    ASSUME IInv, IInv', irqt' = irqt,
           chip' = Chip0 \/ (chip'.fifo = chip.fifo /\ chip'.isr = chip.isr)
    PROVE  [Keys!Next]_(Keys!vars)
  BY LostStep, QuietStep DEF IInv

\* The steps of the hot plug work and of the health poll are of that kind.
LEMMA ThreadStep ==
    ASSUME IInv, HotplugStep \/ HealthStep
    PROVE  irqt' = irqt /\ (chip' = Chip0 \/ (chip'.fifo = chip.fifo /\ chip'.isr = chip.isr))
<1>1. chip \in ChipType /\ TypeOK
  BY DEF IInv, TypeOK
<1>2. CASE extcon_work \/ release \/ cancel_health \/ poll
  BY <1>2 DEF extcon_work, release, cancel_health, poll
<1>3. ASSUME NEW ok,
             \/ add_adapter(ok) \/ vcc(ok) \/ irq_init(ok)
             \/ register(ok) \/ remove(ok) \/ canary(ok)
      PROVE  irqt' = irqt /\ (chip' = chip \/ chip' = Chip0)
  BY <1>3 DEF add_adapter, vcc, irq_init, register, remove, canary
<1>4. ASSUME NEW ok, chip_init(ok) \/ restore_irq_setup(ok)
      PROVE  irqt' = irqt /\ (chip' = Chip0 \/ (chip'.fifo = chip.fifo /\ chip'.isr = chip.isr))
  BY <1>1, <1>4 DEF chip_init, restore_irq_setup, ChipType
<1>5. ASSUME NEW ok, NEW p, keypad_chip_init(p, ok) \/ start(p, ok) \/ stop_scan(p, ok)
                            \/ keypad_disable(p, ok)
      PROVE  irqt' = irqt /\ chip'.fifo = chip.fifo /\ chip'.isr = chip.isr
  BY <1>1, <1>5 DEF keypad_chip_init, start, stop_scan, keypad_disable, ChipType
<1>6. ASSUME NEW ok, request(ok) \/ free(ok)
      PROVE  irqt' = irqt /\ chip'.fifo = chip.fifo /\ chip'.isr = chip.isr
  BY <1>1, <1>6 DEF request, free, sync, ChipType
<1>7. CASE HotplugStep
  BY <1>2, <1>3, <1>4, <1>5, <1>6, <1>7 DEF HotplugStep
<1>8. CASE HealthStep
  BY <1>2, <1>3, <1>4, <1>5, <1>8 DEF HealthStep
<1> QED BY <1>7, <1>8

\* The chain of drivers implements the queue of key events: none is invented
\* or read twice, power takes all of them, and the queue stalls only when a
\* transfer fails. (That a waiting event is delivered is fairness: the rest of
\* KeysQueued, which the model checker looks at.)
THEOREM QueueImplemented == Spec => Keys!Init /\ [][Keys!Next]_(Keys!vars)
<1>1. Init => Keys!Init
  BY Zeros DEF Init, Keys!Init, ready
<1>2. IInv /\ IInv' /\ [Next]_vars => [Keys!Next]_(Keys!vars)
  <2> SUFFICES ASSUME IInv, IInv', [Next]_vars PROVE [Keys!Next]_(Keys!vars)
    OBVIOUS
  <2>1. CASE HotplugStep \/ HealthStep
    BY <2>1, ThreadStep, OtherStep
  <2>2. CASE IrqStep
    BY <2>2, ReadStep, EndStep, DrainStep DEF IrqStep
  <2>3. CASE press
    BY <2>3, PressStep
  <2>4. CASE unbind \/ move \/ detect \/ UNCHANGED vars
    <3>1. irqt' = irqt /\ (chip' = chip \/ chip' = Chip0)
      BY <2>4 DEF unbind, move, detect, vars
    <3> QED BY <3>1, OtherStep
  <2> QED BY <2>1, <2>2, <2>3, <2>4 DEF Next
<1> QED BY <1>1, <1>2, InvAlways, PTL DEF Spec

=============================================================================
