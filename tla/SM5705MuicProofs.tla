--------------------------- MODULE SM5705MuicProofs -------------------------
(***************************************************************************)
(* What holds of the MUIC driver for any chargers and cables: what it      *)
(* reports, after any number of failing transfers and rebinds, and the     *)
(* voltage it negotiates, before the first of either.                      *)
(***************************************************************************)
EXTENDS SM5705Muic, FiniteSetTheorems, TLAPS

-----------------------------------------------------------------------------
(* Types *)

Cables   == {"DOCK", "FAST", "SDP", "DCP", "CDP", "USB"}
DetectPc == {"vbus", "type", "adc", "DOCK", "FAST", "SDP", "DCP", "CDP", "USB"}
Ops      == {"none", "probe", "irq", "hold"}
Steps    == {"none", "afc", "int3", "drop", "release", "reset", "poll"} \union DetectPc

MuicType == [afc_9v : BOOLEAN, qc20 : BOOLEAN, afc_ta : BOOLEAN, hold_5v : BOOLEAN,
             chgdet_rerun : BOOLEAN, afc_retries : Nat, vbus_retries : Nat]
HType    == [op : Ops, pc : Steps, int3 : SUBSET Int3, ok : BOOLEAN, vbus : BOOLEAN,
             type : Types, dock : BOOLEAN]
PortType == [charger : Types, vbus : BOOLEAN, dock : BOOLEAN, type : Types,
             refuses : BOOLEAN, detecting : BOOLEAN, ta : BOOLEAN, asked : BOOLEAN,
             agreed : BOOLEAN, slow : Nat, volt : {5, 9}]

TypeOK ==
    /\ phase \in {"unbound", "probing", "bound"} /\ muic \in MuicType /\ h \in HType
    /\ extcon \subseteq Cables /\ ret \in BOOLEAN /\ cntl \subseteq {"ENAFC", "ENQC20"}
    /\ txd9 \in BOOLEAN /\ vst9 \in BOOLEAN /\ ints \subseteq Int3 \union {"CABLE"}
    /\ port \in PortType /\ faults \in Nat /\ rebinds \in Nat

-----------------------------------------------------------------------------
(* The inductive invariant *)

\* Who holds the lock is at a step of its own; nobody does while unbound.
Locked ==
    /\ h.op = "none" <=> h.pc = "none"
    /\ h.op = "probe" => h.pc \in DetectPc /\ phase = "probing"
    /\ h.op = "irq" => h.pc \in {"afc", "int3"} \union DetectPc
    /\ h.op = "hold" => h.pc \in {"drop", "release", "reset", "poll"} \union DetectPc
    /\ phase = "unbound" => h.op = "none"
    /\ ~Afc => h.pc \notin {"afc", "int3", "drop", "release", "reset", "poll"}

\* One charger at most, and the cables that come with it.
OneCharger ==
    /\ ~({"SDP", "CDP"} \subseteq extcon) /\ ~({"SDP", "DCP"} \subseteq extcon)
    /\ ~({"CDP", "DCP"} \subseteq extcon)
    /\ "USB" \in extcon <=> "SDP" \in extcon \/ "CDP" \in extcon
    /\ "FAST" \in extcon => "DCP" \in extcon

\* Between the first and the last cable set, those set so far are the ones
\* detected; otherwise they fit together.
Coherent ==
    /\ h.pc \in {"SDP", "DCP", "CDP", "USB"} => ("FAST" \in extcon <=> "FAST" \in Detected)
    /\ h.pc \in {"DCP", "CDP", "USB"} => ("SDP" \in extcon <=> "SDP" \in Detected)
    /\ h.pc \in {"CDP", "USB"} => ("DCP" \in extcon <=> "DCP" \in Detected)
    /\ h.pc = "USB" => ("CDP" \in extcon <=> "CDP" \in Detected)
    /\ h.pc \notin {"SDP", "DCP", "CDP", "USB"} => OneCharger

\* While nothing has failed, a charger that is held is not at 9 V for the driver
\* once hold_5v() has reset it, and not reported once it has looked again.
Held ==
    /\ ~Afc => ~muic.afc_9v
    /\ muic.hold_5v => h.pc # "int3"
    /\ faults = 0 /\ muic.hold_5v /\ h.pc \notin {"drop", "reset"} => ~muic.afc_9v
    /\ faults = 0 /\ muic.hold_5v
         /\ ~(h.op = "hold" /\ h.pc \in {"drop", "reset", "poll", "vbus", "type", "adc",
                                         "DOCK", "FAST"})
         => "FAST" \notin extcon

\* AFC and QC 2.0 chargers are reported as DCPs.
Class(type) == IF type \in {"AFC", "QC20"} THEN "DCP" ELSE type

\* What the connector can show: a charger with a voltage, its type once detected,
\* which begins unless the cover is on.
Connected ==
    /\ port.vbus <=> port.charger # "none"
    /\ port.type # "none" => Class(port.type) = Class(port.charger)
    /\ port.vbus /\ ~port.dock => port.detecting \/ port.type # "none"
    /\ port.detecting => port.vbus

IInv == TypeOK /\ Locked /\ Coherent /\ Held /\ Connected

\* The charger type and the ID pin are read after VBUS.
ReadVbus == {"type", "adc", "DOCK", "FAST", "SDP", "DCP", "CDP", "USB"}
ReadType == ReadVbus \ {"type"}
ReadDock == ReadType \ {"adc"}
SetDock  == ReadDock \ {"DOCK"}

\* The cables of what is in the registers.
Shown(vbus, type, dk) ==
    (IF dk THEN {"DOCK"} ELSE {})
    \union (IF vbus /\ type = "DCP" THEN {"DCP"} ELSE {})
    \union (IF vbus /\ type \in {"SDP", "CDP"} THEN {type, "USB"} ELSE {})

\* While nothing has failed, and no interrupt tells of a change, what has been
\* read is in the registers still, and in the end it is what is reported; a
\* charger held back by the cover has its detection rerun, once per charger.
Current ==
    faults = 0 =>
      /\ phase = "unbound" => muic = ZeroMuic
      /\ h.pc \in SetDock => ("DOCK" \in extcon <=> h.dock)
      /\ muic.chgdet_rerun /\ port.vbus /\ port.type = "none" => port.detecting
      /\ muic.chgdet_rerun /\ ~port.vbus /\ "CABLE" \notin ints =>
            h.op # "none" /\ h.pc \notin SetDock
      /\ "CABLE" \notin ints =>
           /\ h.pc \in ReadVbus => h.vbus = port.vbus
           /\ h.pc \in ReadType => Class(h.type) = Class(port.type)
           /\ h.pc \in ReadDock => h.dock = port.dock
           /\ h.pc \in SetDock /\ h.vbus /\ h.dock /\ h.type = "none" => muic.chgdet_rerun
           /\ phase = "bound" /\ h.op = "none" =>
                /\ extcon \ {"FAST"} = Shown(port.vbus, Class(port.type), port.dock)
                /\ port.vbus /\ port.dock /\ port.type = "none" => muic.chgdet_rerun

-----------------------------------------------------------------------------
(* Helpers *)

\* A transfer changes nothing but the number of failures, and counts its own.
LEMMA TransferFaults ==
    ASSUME TypeOK, NEW ok, Transfer(ok)
    PROVE  /\ ok \in BOOLEAN /\ faults' \in Nat /\ (faults' = 0 => faults = 0 /\ ok)
           /\ (ok => faults' = faults)
  BY DEF TypeOK, Transfer

\* Changes of struct sm5705_muic that keep its type.
LEMMA MuicUpdates ==
    ASSUME NEW x \in MuicType
    PROVE  /\ \A b \in BOOLEAN : /\ [x EXCEPT !.afc_9v = b] \in MuicType
                                 /\ [x EXCEPT !.qc20 = b] \in MuicType
                                 /\ [x EXCEPT !.afc_ta = b] \in MuicType
                                 /\ [x EXCEPT !.hold_5v = b] \in MuicType
           /\ \A b, d \in BOOLEAN : [x EXCEPT !.afc_9v = b, !.qc20 = d] \in MuicType
           /\ \A b, d, e \in BOOLEAN :
                 [x EXCEPT !.afc_9v = b, !.afc_ta = d, !.chgdet_rerun = e] \in MuicType
           /\ \A n \in Nat : /\ [x EXCEPT !.afc_retries = n] \in MuicType
                             /\ [x EXCEPT !.vbus_retries = n] \in MuicType
           /\ \A n \in Nat, b \in BOOLEAN :
                 /\ [x EXCEPT !.afc_retries = n, !.qc20 = b] \in MuicType
                 /\ [x EXCEPT !.vbus_retries = n, !.qc20 = b] \in MuicType
           /\ \A n, m \in Nat, b \in BOOLEAN :
                 [x EXCEPT !.afc_retries = n, !.vbus_retries = m, !.qc20 = b] \in MuicType
<1> USE DEF MuicType
<1>1. ASSUME NEW b \in BOOLEAN
      PROVE  /\ [x EXCEPT !.afc_9v = b] \in MuicType /\ [x EXCEPT !.qc20 = b] \in MuicType
             /\ [x EXCEPT !.afc_ta = b] \in MuicType /\ [x EXCEPT !.hold_5v = b] \in MuicType
  OBVIOUS
<1>2. ASSUME NEW b \in BOOLEAN, NEW d \in BOOLEAN, NEW e \in BOOLEAN
      PROVE  /\ [x EXCEPT !.afc_9v = b, !.qc20 = d] \in MuicType
             /\ [x EXCEPT !.afc_9v = b, !.afc_ta = d, !.chgdet_rerun = e] \in MuicType
  OBVIOUS
<1>3. ASSUME NEW n \in Nat
      PROVE  /\ [x EXCEPT !.afc_retries = n] \in MuicType
             /\ [x EXCEPT !.vbus_retries = n] \in MuicType
  OBVIOUS
<1>4. ASSUME NEW n \in Nat, NEW m \in Nat, NEW b \in BOOLEAN
      PROVE  /\ [x EXCEPT !.afc_retries = n, !.qc20 = b] \in MuicType
             /\ [x EXCEPT !.vbus_retries = n, !.qc20 = b] \in MuicType
             /\ [x EXCEPT !.afc_retries = n, !.vbus_retries = m, !.qc20 = b] \in MuicType
  OBVIOUS
<1> HIDE DEF MuicType
<1> QED BY <1>1, <1>2, <1>3, <1>4

\* Changes of what the lock holder has read and where it is.
LEMMA HUpdates ==
    ASSUME NEW x \in HType
    PROVE  /\ \A c \in Steps : [x EXCEPT !.pc = c] \in HType
           /\ \A c \in Steps, b \in BOOLEAN :
                 /\ [x EXCEPT !.vbus = b, !.pc = c] \in HType
                 /\ [x EXCEPT !.dock = b, !.pc = c] \in HType
                 /\ [x EXCEPT !.ok = b, !.pc = c] \in HType
           /\ \A c \in Steps, t \in Types : [x EXCEPT !.type = t, !.pc = c] \in HType
           /\ \A o \in Ops, c \in Steps : [x EXCEPT !.op = o, !.pc = c] \in HType
           /\ \A i \in SUBSET Int3 : [x EXCEPT !.int3 = i] \in HType
           /\ \A o \in Ops, c \in Steps, i \in SUBSET Int3 :
                 [x EXCEPT !.op = o, !.int3 = i, !.pc = c] \in HType
<1> USE DEF HType
<1>4. /\ \A c \in Steps : [x EXCEPT !.pc = c] \in HType
      /\ \A i \in SUBSET Int3 : [x EXCEPT !.int3 = i] \in HType
  OBVIOUS
<1>1. ASSUME NEW c \in Steps, NEW b \in BOOLEAN
      PROVE  /\ [x EXCEPT !.vbus = b, !.pc = c] \in HType
             /\ [x EXCEPT !.dock = b, !.pc = c] \in HType
             /\ [x EXCEPT !.ok = b, !.pc = c] \in HType
  OBVIOUS
<1>2. ASSUME NEW c \in Steps, NEW t \in Types
      PROVE  [x EXCEPT !.type = t, !.pc = c] \in HType
  OBVIOUS
<1>3. ASSUME NEW o \in Ops, NEW c \in Steps, NEW i \in SUBSET Int3
      PROVE  /\ [x EXCEPT !.op = o, !.pc = c] \in HType
             /\ [x EXCEPT !.op = o, !.int3 = i, !.pc = c] \in HType
  OBVIOUS
<1> HIDE DEF HType
<1> QED BY <1>1, <1>2, <1>3, <1>4

\* Changes of the connector that keep its type.
LEMMA PortUpdates ==
    ASSUME NEW x \in PortType
    PROVE  /\ \A b \in BOOLEAN : /\ [x EXCEPT !.asked = b] \in PortType
                                 /\ [x EXCEPT !.detecting = b] \in PortType
           /\ \A v \in {5, 9} : [x EXCEPT !.volt = v] \in PortType
           /\ \A n \in Nat : [x EXCEPT !.slow = n] \in PortType
           /\ \A b \in BOOLEAN, n \in Nat : [x EXCEPT !.agreed = b, !.slow = n] \in PortType
           /\ \A b, d \in BOOLEAN : [x EXCEPT !.dock = b, !.detecting = d] \in PortType
           /\ \A b \in BOOLEAN, t \in Types :
                 /\ [x EXCEPT !.detecting = b, !.type = t] \in PortType
                 /\ [x EXCEPT !.ta = b, !.type = t] \in PortType
           /\ \A b, d \in BOOLEAN, v \in {5, 9} :
                 [x EXCEPT !.asked = b, !.agreed = d, !.volt = v] \in PortType
<1> USE DEF PortType
<1>1. ASSUME NEW b \in BOOLEAN
      PROVE  [x EXCEPT !.asked = b] \in PortType /\ [x EXCEPT !.detecting = b] \in PortType
  OBVIOUS
<1>2. \A v \in {5, 9} : [x EXCEPT !.volt = v] \in PortType
  OBVIOUS
<1>3. \A n \in Nat : [x EXCEPT !.slow = n] \in PortType
  OBVIOUS
<1>4. ASSUME NEW b \in BOOLEAN, NEW n \in Nat
      PROVE  [x EXCEPT !.agreed = b, !.slow = n] \in PortType
  OBVIOUS
<1>5. ASSUME NEW b \in BOOLEAN, NEW d \in BOOLEAN
      PROVE  [x EXCEPT !.dock = b, !.detecting = d] \in PortType
  OBVIOUS
<1>6. ASSUME NEW b \in BOOLEAN, NEW t \in Types
      PROVE  /\ [x EXCEPT !.detecting = b, !.type = t] \in PortType
             /\ [x EXCEPT !.ta = b, !.type = t] \in PortType
  OBVIOUS
<1>7. ASSUME NEW b \in BOOLEAN, NEW d \in BOOLEAN, NEW v \in {5, 9}
      PROVE  [x EXCEPT !.asked = b, !.agreed = d, !.volt = v] \in PortType
  OBVIOUS
<1> HIDE DEF PortType
<1> QED BY <1>1, <1>2, <1>3, <1>4, <1>5, <1>6, <1>7

\* The cable and what is known of it are the same.
SameCable(p, q) ==
    /\ p.charger = q.charger /\ p.vbus = q.vbus /\ p.dock = q.dock /\ p.type = q.type
    /\ p.detecting = q.detecting

\* AFC leaves them alone: a request that ends ...
LEMMA StoppedPort ==
    ASSUME NEW p \in PortType
    PROVE  Stopped(p) \in PortType /\ SameCable(Stopped(p), p)
<1>1. \A b, d \in BOOLEAN, v \in {5, 9} :
         SameCable([p EXCEPT !.asked = b, !.agreed = d, !.volt = v], p)
  BY DEF SameCable, PortType
<1> DEFINE d == p.agreed /\ "ENQC20" \notin cntl
           v == IF "ENQC20" \in cntl THEN 5 ELSE p.volt
<1>2. d \in BOOLEAN /\ v \in {5, 9} /\ FALSE \in BOOLEAN
  BY DEF PortType
<1>3. Stopped(p) = [p EXCEPT !.asked = FALSE, !.agreed = d, !.volt = v]
  BY DEF Stopped
<1> HIDE DEF d, v
<1>4. [p EXCEPT !.asked = FALSE, !.agreed = d, !.volt = v] \in PortType
  BY <1>2, PortUpdates, Zenon
<1>5. SameCable([p EXCEPT !.asked = FALSE, !.agreed = d, !.volt = v], p)
  BY <1>1, <1>2, Zenon
<1> QED BY <1>3, <1>4, <1>5

\* ... a charger that agrees ...
LEMMA AgreedPort ==
    ASSUME NEW p \in PortType, NEW q \in Agreed(p)
    PROVE  q \in PortType /\ SameCable(q, p)
<1>1. \A b \in BOOLEAN, n \in Nat : SameCable([p EXCEPT !.agreed = b, !.slow = n], p)
  BY DEF SameCable, PortType
<1>2. \A b \in BOOLEAN, n \in Nat : [p EXCEPT !.agreed = b, !.slow = n] \in PortType
  BY PortUpdates, Zenon
<1>3. CASE p.agreed
  BY <1>3 DEF Agreed, SameCable
<1>4. CASE ~p.agreed
  <2>1. PICK a \in BOOLEAN, n \in 0..MaxSlow : q = Answered(p, a \/ ~p.refuses, n)
    BY <1>4 DEF Agreed
  <2>2. PICK b \in BOOLEAN : b = (a \/ ~p.refuses)
    OBVIOUS
  <2>4. n \in Nat
    BY MuicAssumption
  <2>3. q = [p EXCEPT !.agreed = b, !.slow = n]
    BY <2>1, <2>2 DEF Answered
  <2> QED BY <1>1, <1>2, <2>3, <2>4, Zenon
<1> QED BY <1>3, <1>4

\* ... and a measurement, which raises an interrupt of its own.
LEMMA RaisedInts ==
    ASSUME TypeOK, NEW i \in SUBSET (Int3 \union {"CABLE"})
    PROVE  /\ Raised(i) \subseteq Int3 \union {"CABLE"}
           /\ "CABLE" \in Raised(i) <=> "CABLE" \in ints \/ "CABLE" \in i
           /\ ints \subseteq Raised(i)
  BY DEF TypeOK, Raised, Int3

\* A measurement keeps the cable; the charger may settle and its update come.
LEMMA MeasuredPort ==
    ASSUME TypeOK, NEW p \in PortType, Measure(p)
    PROVE  /\ port' \in PortType /\ SameCable(port', p) /\ vst9' \in BOOLEAN
           /\ ints' \subseteq Int3 \union {"CABLE"} /\ ("CABLE" \in ints' <=> "CABLE" \in ints)
<1>1. Settling(p) = [p EXCEPT !.volt = 9]
      \/ \E n \in Nat : Settling(p) = [p EXCEPT !.slow = n]
  BY DEF Settling, PortType
<1>2. SameCable([p EXCEPT !.volt = 9], p) /\ \A n \in Nat : SameCable([p EXCEPT !.slow = n], p)
  BY DEF SameCable, PortType
<1>3. port' \in PortType /\ SameCable(port', p)
  BY <1>1, <1>2, PortUpdates DEF Measure
<1>4. {"VBUS_UPDATE"} \in SUBSET (Int3 \union {"CABLE"}) /\ "CABLE" \notin {"VBUS_UPDATE"}
  BY DEF Int3
<1> QED BY <1>3, <1>4, RaisedInts DEF Measure

\* Plugging in, and pulling out.
LEMMA PluggedPort ==
    ASSUME NEW kind \in Types, NEW d \in BOOLEAN, NEW q \in Plugged(kind, d)
    PROVE  /\ q \in PortType /\ q.charger = kind /\ (q.vbus <=> kind # "none") /\ q.dock = d
           /\ q.type = "none" /\ (q.detecting <=> kind # "none" /\ ~d)
           /\ ~q.asked /\ ~q.agreed /\ q.volt = 5
<1> DEFINE R == IF Refusals /\ kind \in {"AFC", "QC20"} THEN BOOLEAN ELSE {FALSE}
           b == kind # "none"
           d1 == kind # "none" /\ ~d
           t == Afc /\ kind \in {"AFC", "QC20"}
<1>1. R \subseteq BOOLEAN /\ b \in BOOLEAN /\ d1 \in BOOLEAN /\ t \in BOOLEAN
  BY MuicAssumption
<1>2. q \in [charger : {kind}, vbus : {b}, dock : {d}, type : {"none"}, refuses : R,
            detecting : {d1}, ta : {t}, asked : {FALSE}, agreed : {FALSE}, slow : {0},
            volt : {5}]
  BY DEF Plugged
<1> HIDE DEF R, t
<1>3. "none" \in Types
  BY DEF Types
<1>4. q \in PortType
  <2> HIDE DEF b, d1
  <2>1. {b} \subseteq BOOLEAN /\ {d1} \subseteq BOOLEAN /\ {t} \subseteq BOOLEAN
        /\ {kind} \subseteq Types
        /\ {"none"} \subseteq Types /\ {0} \subseteq Nat
        /\ {5} \subseteq {5, 9} /\ {FALSE} \subseteq BOOLEAN
        /\ {d} \subseteq BOOLEAN
    BY <1>1, <1>3
  <2> QED BY <1>1, <1>2, <2>1, Zenon DEF PortType
<1>5. /\ q.charger = kind /\ q.vbus = b /\ q.dock = d /\ q.type = "none" /\ q.detecting = d1
      /\ ~q.asked /\ ~q.agreed /\ q.volt = 5
  BY <1>2
<1> QED BY <1>4, <1>5

\* What may be plugged in is a charger.
LEMMA KindType == Chargers \subseteq Types \ {"none"} /\ BootChargers \subseteq Types
  BY MuicAssumption DEF Types, Kinds

\* Nobody holds the lock.
LEMMA UnlockedType ==
    Unlocked \in HType /\ Unlocked.op = "none" /\ Unlocked.pc = "none" /\ Unlocked.int3 = {}
  BY DEF Unlocked, HType, Ops, Steps, Types

\* Connected only depends on the cable.
LEMMA SameConnected ==
    ASSUME Connected, SameCable(port', port)
    PROVE  Connected'
  BY DEF Connected, SameCable

\* It begins unbound.
LEMMA InvInit == Init => IInv
<1> SUFFICES ASSUME Init PROVE IInv
  OBVIOUS
<1>1. PICK kind \in BootChargers, d \in Docks : port \in Plugged(kind, d)
  BY DEF Init
<1>2. kind \in Types /\ d \in BOOLEAN
  BY KindType, MuicAssumption
<1>3. /\ port \in PortType /\ port.charger = kind /\ (port.vbus <=> kind # "none")
      /\ port.dock = d /\ port.type = "none" /\ (port.detecting <=> kind # "none" /\ ~d)
  BY <1>1, <1>2, PluggedPort
<1>4. muic \in MuicType /\ ~muic.afc_9v /\ ~muic.hold_5v
  BY DEF Init, ZeroMuic, MuicType
<1>5. h \in HType /\ h.op = "none" /\ h.pc = "none"
  BY UnlockedType DEF Init
<1>6. TypeOK
  BY <1>3, <1>4, <1>5 DEF Init, TypeOK
<1>7. Locked /\ Held
  BY <1>4, <1>5 DEF Init, Locked, Held
<1>8. Coherent
  BY <1>5 DEF Init, Coherent, OneCharger
<1>9. Connected
  BY <1>3 DEF Connected
<1> QED BY <1>6, <1>7, <1>8, <1>9 DEF IInv

-----------------------------------------------------------------------------
(* Every action keeps the invariant *)

\* The steps of AFC, before the cable is looked at again: cables and interrupts
\* of cables stay, and what a held charger is at.
AfcPc == {"afc", "int3", "drop", "release", "reset", "poll"}

\* Every one of them keeps the invariant, given what it does to the driver.
LEMMA AfcStep ==
    ASSUME IInv, h.pc \in AfcPc, UNCHANGED <<phase, extcon, ret, rebinds>>,
           h' \in HType, h'.op = h.op,
           \/ h'.pc = "vbus"
           \/ h.op = "irq" /\ h'.pc = "int3" /\ ~muic.hold_5v
           \/ h.op = "hold" /\ h'.pc \in {"reset", "poll"},
           muic' \in MuicType, muic'.hold_5v = muic.hold_5v,
           muic'.chgdet_rerun = muic.chgdet_rerun,
           h.pc = "int3" \/ (muic'.afc_9v => muic.afc_9v),
           h.pc \in {"drop", "reset"} /\ faults' = 0 /\ muic'.hold_5v
               => h'.pc = "reset" \/ ~muic'.afc_9v,
           h'.pc = "reset" => h.pc = "drop",
           port' \in PortType, SameCable(port', port), cntl' \subseteq {"ENAFC", "ENQC20"},
           txd9' \in BOOLEAN, vst9' \in BOOLEAN, ints' \subseteq Int3 \union {"CABLE"},
           faults' \in Nat, faults' = 0 => faults = 0
    PROVE  IInv' /\ (Current => Current')
<1>1. TypeOK'
  BY DEF IInv, TypeOK
<1>2. Afc /\ phase # "unbound" /\ h.op \in {"irq", "hold"}
  BY DEF IInv, Locked, TypeOK, HType, Ops, AfcPc, DetectPc
<1>3. h.op = "irq" => h.pc \in {"afc", "int3"}
  BY DEF IInv, Locked, AfcPc, DetectPc
<1>4. h.op = "hold" => h.pc \in {"drop", "release", "reset", "poll"}
  BY DEF IInv, Locked, AfcPc, DetectPc
<1>5. Locked'
  BY <1>2 DEF IInv, Locked, DetectPc
<1>6. Coherent'
  <2>1. OneCharger
    BY DEF IInv, Coherent, AfcPc
  <2>2. OneCharger'
    BY <2>1 DEF OneCharger
  <2>3. h'.pc \notin {"SDP", "DCP", "CDP", "USB"}
    OBVIOUS
  <2> QED BY <2>2, <2>3 DEF Coherent
<1>7. Held'
  BY <1>2, <1>3, <1>4 DEF IInv, TypeOK, Held
<1>8. Connected'
  BY SameConnected DEF IInv
<1>9. Current => Current'
  <2>1. h'.pc \notin ReadVbus /\ h'.op # "none" /\ phase' # "unbound"
    BY <1>2 DEF ReadVbus
  <2> QED BY <2>1 DEF Current, SameCable, ReadVbus, ReadType, ReadDock, SetDock
<1> QED BY <1>1, <1>5, <1>6, <1>7, <1>8, <1>9 DEF IInv

\* The interrupt thread looks at VBUS, and ends AFC without it.
LEMMA Inv_afc ==
    ASSUME IInv, afc
    PROVE  IInv' /\ (Current => Current')
<1>1. /\ muic \in MuicType /\ h \in HType /\ port \in PortType /\ muic.afc_ta \in BOOLEAN
      /\ {"vbus", "int3"} \subseteq Steps
  BY DEF IInv, TypeOK, MuicType, Steps, DetectPc
<1>2. h.pc = "afc" /\ h.op = "irq"
  BY DEF IInv, Locked, TypeOK, HType, Ops, DetectPc, afc
<1>3. /\ [h EXCEPT !.pc = "vbus"] \in HType /\ [h EXCEPT !.pc = "int3"] \in HType
      /\ [muic EXCEPT !.qc20 = FALSE] \in MuicType
      /\ \A b \in BOOLEAN : [muic EXCEPT !.afc_ta = b] \in MuicType
  BY <1>1, HUpdates, MuicUpdates, Zenon
<1>4. /\ h' = [h EXCEPT !.pc = "vbus"]
         \/ (h' = [h EXCEPT !.pc = "int3"] /\ ~muic.hold_5v)
      /\ muic' = [muic EXCEPT !.qc20 = FALSE]
         \/ \E b \in BOOLEAN : muic' = [muic EXCEPT !.afc_ta = b]
  BY <1>1 DEF afc, afc_stop
<1>5. /\ h' \in HType /\ h'.op = h.op /\ (h'.pc = "vbus" \/ (h'.pc = "int3" /\ ~muic.hold_5v))
      /\ muic' \in MuicType /\ muic'.hold_5v = muic.hold_5v /\ muic'.afc_9v = muic.afc_9v
      /\ muic'.chgdet_rerun = muic.chgdet_rerun
  <2>1. h' \in HType /\ h'.op = h.op /\ (h'.pc = "vbus" \/ (h'.pc = "int3" /\ ~muic.hold_5v))
    BY <1>1, <1>3, <1>4 DEF HType
  <2>2. CASE muic' = [muic EXCEPT !.qc20 = FALSE]
    BY <1>1, <1>3, <2>1, <2>2 DEF MuicType
  <2>3. ASSUME NEW b \in BOOLEAN, muic' = [muic EXCEPT !.afc_ta = b]
        PROVE  /\ muic' \in MuicType /\ muic'.hold_5v = muic.hold_5v
               /\ muic'.afc_9v = muic.afc_9v /\ muic'.chgdet_rerun = muic.chgdet_rerun
    BY <1>1, <1>3, <2>3 DEF MuicType
  <2> QED BY <1>4, <2>1, <2>2, <2>3
<1>6. /\ port' = port \/ port' = Stopped(port)
      /\ cntl' = cntl \/ cntl' = {}
      /\ faults' = faults \/ \E ok : Transfer(ok)
  BY DEF afc, afc_stop
<1>7. port' \in PortType /\ SameCable(port', port)
  BY <1>1, <1>6, StoppedPort DEF SameCable
<1>8. faults' \in Nat /\ (faults' = 0 => faults = 0)
  BY <1>6, TransferFaults DEF IInv, TypeOK
<1> QED BY <1>2, <1>5, <1>6, <1>7, <1>8, AfcStep DEF IInv, TypeOK, AfcPc, afc

\* One event of an interrupt is handled.
LEMMA EventStep ==
    ASSUME IInv, NEW i, Event(i), UNCHANGED <<phase, extcon, ret, rebinds>>,
           muic' \in MuicType, muic'.hold_5v = muic.hold_5v,
           muic'.chgdet_rerun = muic.chgdet_rerun,
           port' \in PortType, SameCable(port', port), cntl' \subseteq {"ENAFC", "ENQC20"},
           txd9' \in BOOLEAN, vst9' \in BOOLEAN, ints' \subseteq Int3 \union {"CABLE"},
           faults' \in Nat, faults' = 0 => faults = 0
    PROVE  IInv' /\ (Current => Current')
<1>1. h.pc = "int3" /\ h.op = "irq" /\ ~muic.hold_5v
  BY DEF IInv, Locked, TypeOK, HType, Ops, DetectPc, Event, Held
<1>2. h \in HType /\ h.int3 \ {i} \in SUBSET Int3
  BY DEF IInv, TypeOK, HType
<1>3. [h EXCEPT !.int3 = h.int3 \ {i}] \in HType
  BY <1>2, HUpdates, Zenon
<1>4. h' = [h EXCEPT !.int3 = h.int3 \ {i}]
  BY DEF Event
<1>5. h' \in HType /\ h'.op = h.op /\ h'.pc = h.pc
  BY <1>2, <1>3, <1>4 DEF HType
<1> QED BY <1>1, <1>5, AfcStep DEF AfcPc

\* A request begins or ends.
LEMMA AskedPort ==
    ASSUME NEW p \in PortType, NEW b \in BOOLEAN
    PROVE  [p EXCEPT !.asked = b] \in PortType /\ SameCable([p EXCEPT !.asked = b], p)
<1>1. [p EXCEPT !.asked = b] \in PortType
  BY PortUpdates, Zenon
<1>2. SameCable([p EXCEPT !.asked = b], p)
  BY DEF PortType, SameCable
<1> QED BY <1>1, <1>2

\* 9 V is asked for.
LEMMA Started ==
    ASSUME TypeOK, start_9v
    PROVE  /\ muic' \in MuicType /\ muic'.hold_5v = muic.hold_5v /\ muic'.afc_9v = muic.afc_9v
           /\ muic'.chgdet_rerun = muic.chgdet_rerun
           /\ port' \in PortType /\ SameCable(port', port)
           /\ cntl' \subseteq {"ENAFC", "ENQC20"} /\ txd9' \in BOOLEAN
           /\ faults' \in Nat /\ (faults' = 0 => faults = 0)
<1>1. muic \in MuicType /\ port \in PortType /\ port.vbus \in BOOLEAN
  BY DEF TypeOK, PortType
<1>2. muic' = [muic EXCEPT !.afc_retries = 0, !.vbus_retries = 0, !.qc20 = FALSE]
  BY DEF start_9v
<1>3. [muic EXCEPT !.afc_retries = 0, !.vbus_retries = 0, !.qc20 = FALSE] \in MuicType
  BY <1>1, MuicUpdates
<1>4. muic' \in MuicType /\ muic'.hold_5v = muic.hold_5v /\ muic'.afc_9v = muic.afc_9v
      /\ muic'.chgdet_rerun = muic.chgdet_rerun
  BY <1>1, <1>2, <1>3 DEF MuicType
<1>5. PICK lost \in {{}, {"txd"}, {"cntl"}} :
         /\ Transfer(lost = {})
         /\ txd9' = (txd9 \/ "txd" \notin lost)
         /\ cntl' = IF "cntl" \in lost THEN cntl ELSE cntl \union {"ENAFC"}
         /\ port' = [port EXCEPT !.asked = port.vbus /\ "ENAFC" \in cntl']
  BY DEF start_9v
<1>6. \A b \in BOOLEAN : /\ [port EXCEPT !.asked = b] \in PortType
                         /\ SameCable([port EXCEPT !.asked = b], port)
  BY <1>1, AskedPort
<1>7. (port.vbus /\ "ENAFC" \in cntl') \in BOOLEAN
  BY <1>1
<1>8. port' \in PortType /\ SameCable(port', port)
  BY <1>5, <1>6, <1>7, Zenon
<1>9. /\ cntl' \subseteq {"ENAFC", "ENQC20"} /\ txd9' \in BOOLEAN
  BY <1>5 DEF TypeOK
<1>10. faults' \in Nat /\ (faults' = 0 => faults = 0)
  BY <1>5, TransferFaults
<1> QED BY <1>4, <1>8, <1>9, <1>10

\* A charger answers the ping.
LEMMA Inv_afc_start ==
    ASSUME IInv, afc_start
    PROVE  IInv' /\ (Current => Current')
  BY Started, EventStep DEF IInv, TypeOK, afc_start

\* A charger accepts.
LEMMA Inv_afc_accepted ==
    ASSUME IInv, afc_accepted
    PROVE  IInv' /\ (Current => Current')
<1>1. PICK ok \in BOOLEAN, is_afc \in BOOLEAN :
         /\ Transfer(ok)
         /\ IF is_afc THEN Measure(port) /\ UNCHANGED cntl
            ELSE /\ cntl' = cntl \ {"ENAFC"}
                 /\ port' = [port EXCEPT !.asked = FALSE]
                 /\ UNCHANGED <<vst9, ints>>
  BY DEF afc_accepted
<1>2. faults' \in Nat /\ (faults' = 0 => faults = 0)
  BY <1>1, TransferFaults DEF IInv
<1>3. port \in PortType /\ TypeOK /\ cntl \subseteq {"ENAFC", "ENQC20"}
  BY DEF IInv, TypeOK
<1>4. /\ port' \in PortType /\ SameCable(port', port) /\ cntl' \subseteq {"ENAFC", "ENQC20"}
      /\ vst9' \in BOOLEAN /\ ints' \subseteq Int3 \union {"CABLE"}
  <2>1. CASE is_afc
    BY <1>1, <1>3, <2>1, MeasuredPort
  <2>2. CASE ~is_afc
    BY <1>1, <1>3, <2>2, AskedPort DEF TypeOK
  <2> QED BY <2>1, <2>2
<1> QED BY <1>2, <1>4, EventStep DEF IInv, TypeOK, afc_accepted

\* VBUS was measured.
LEMMA Inv_afc_vbus_update ==
    ASSUME IInv, afc_vbus_update
    PROVE  IInv' /\ (Current => Current')
<1>1. /\ muic \in MuicType /\ port \in PortType /\ TypeOK /\ cntl \subseteq {"ENAFC", "ENQC20"}
      /\ Capped(muic.vbus_retries + 1) \in Nat
  BY DEF IInv, TypeOK, MuicType, Capped, SM5705_MUIC_AFC_RETRIES
<1>2. \E ok \in BOOLEAN : Transfer(ok)
  BY DEF afc_vbus_update
<1>3. faults' \in Nat /\ (faults' = 0 => faults = 0)
  BY <1>2, TransferFaults DEF IInv
<1>4. /\ [muic EXCEPT !.afc_9v = TRUE] \in MuicType
      /\ [muic EXCEPT !.vbus_retries = Capped(muic.vbus_retries + 1)] \in MuicType
      /\ [muic EXCEPT !.vbus_retries = Capped(muic.vbus_retries + 1), !.qc20 = FALSE] \in MuicType
  BY <1>1, MuicUpdates
<1>5. /\ muic' \in MuicType /\ muic'.hold_5v = muic.hold_5v
      /\ muic'.chgdet_rerun = muic.chgdet_rerun
      /\ cntl' \subseteq {"ENAFC", "ENQC20"}
      /\ \/ port' = [port EXCEPT !.asked = FALSE] /\ UNCHANGED <<vst9, ints>>
         \/ Measure(port)
         \/ port' = Stopped(port) /\ UNCHANGED <<vst9, ints>>
  BY <1>1, <1>4 DEF afc_vbus_update, MuicType
<1>6. /\ port' \in PortType /\ SameCable(port', port)
      /\ vst9' \in BOOLEAN /\ ints' \subseteq Int3 \union {"CABLE"}
  BY <1>1, <1>5, AskedPort, MeasuredPort, StoppedPort DEF TypeOK
<1> QED BY <1>3, <1>5, <1>6, EventStep DEF IInv, TypeOK, afc_vbus_update

\* A charger refuses: give up, QC 2.0, or AFC once more.
LEMMA Inv_afc_error ==
    ASSUME IInv, afc_error
    PROVE  IInv' /\ (Current => Current')
<1>1. /\ muic \in MuicType /\ port \in PortType /\ TypeOK /\ port.vbus \in BOOLEAN
      /\ cntl \subseteq {"ENAFC", "ENQC20"} /\ Capped(muic.afc_retries + 1) \in Nat
  BY DEF IInv, TypeOK, MuicType, PortType, Capped, SM5705_MUIC_AFC_RETRIES
<1>2. \E ok \in BOOLEAN : Transfer(ok)
  BY DEF afc_error
<1>3. faults' \in Nat /\ (faults' = 0 => faults = 0)
  BY <1>2, TransferFaults DEF IInv
<1>4. /\ [muic EXCEPT !.afc_retries = Capped(muic.afc_retries + 1)] \in MuicType
      /\ [muic EXCEPT !.afc_retries = Capped(muic.afc_retries + 1), !.qc20 = FALSE] \in MuicType
      /\ [muic EXCEPT !.afc_retries = Capped(muic.afc_retries + 1), !.qc20 = TRUE] \in MuicType
  BY <1>1, MuicUpdates
<1>5. \/ muic' = [muic EXCEPT !.afc_retries = Capped(muic.afc_retries + 1)]
      \/ muic' = [muic EXCEPT !.afc_retries = Capped(muic.afc_retries + 1), !.qc20 = FALSE]
      \/ muic' = [muic EXCEPT !.afc_retries = Capped(muic.afc_retries + 1), !.qc20 = TRUE]
  BY DEF afc_error
<1>6. /\ muic' \in MuicType /\ muic'.hold_5v = muic.hold_5v
      /\ muic'.chgdet_rerun = muic.chgdet_rerun
  BY <1>1, <1>4, <1>5 DEF MuicType
<1>7. /\ cntl' \subseteq {"ENAFC", "ENQC20"}
      /\ \/ port' = Stopped(port) /\ UNCHANGED <<vst9, ints>>
         \/ \E p \in IF "ENQC20" \in cntl THEN {port}
                     ELSE Agreed([port EXCEPT !.asked = FALSE]) : Measure(p)
         \/ port' = [port EXCEPT !.asked = port.vbus] /\ UNCHANGED <<vst9, ints>>
  BY <1>1 DEF afc_error
<1>8. ASSUME NEW p \in IF "ENQC20" \in cntl THEN {port}
                       ELSE Agreed([port EXCEPT !.asked = FALSE])
      PROVE  p \in PortType /\ SameCable(p, port)
  <2>1. CASE "ENQC20" \in cntl
    BY <1>1, <2>1 DEF SameCable
  <2>2. CASE "ENQC20" \notin cntl
    <3>1. p \in Agreed([port EXCEPT !.asked = FALSE])
      BY <2>2
    <3>2. [port EXCEPT !.asked = FALSE] \in PortType
          /\ SameCable([port EXCEPT !.asked = FALSE], port)
      BY <1>1, AskedPort
    <3>3. p \in PortType /\ SameCable(p, [port EXCEPT !.asked = FALSE])
      BY <3>1, <3>2, AgreedPort
    <3> QED BY <3>2, <3>3 DEF SameCable
  <2> QED BY <2>1, <2>2
<1>9. /\ port' \in PortType /\ SameCable(port', port)
      /\ vst9' \in BOOLEAN /\ ints' \subseteq Int3 \union {"CABLE"}
  <2>1. CASE port' = Stopped(port) /\ UNCHANGED <<vst9, ints>>
    BY <1>1, <2>1, StoppedPort DEF TypeOK
  <2>2. CASE \E p \in IF "ENQC20" \in cntl THEN {port}
                      ELSE Agreed([port EXCEPT !.asked = FALSE]) : Measure(p)
    <3>1. PICK p \in IF "ENQC20" \in cntl THEN {port}
                     ELSE Agreed([port EXCEPT !.asked = FALSE]) : Measure(p)
      BY <2>2
    <3>2. p \in PortType /\ SameCable(p, port)
      BY <1>8
    <3>3. /\ port' \in PortType /\ SameCable(port', p) /\ vst9' \in BOOLEAN
          /\ ints' \subseteq Int3 \union {"CABLE"}
      BY <1>1, <3>1, <3>2, MeasuredPort
    <3> QED BY <3>2, <3>3 DEF SameCable
  <2>3. CASE port' = [port EXCEPT !.asked = port.vbus] /\ UNCHANGED <<vst9, ints>>
    BY <1>1, <2>3, AskedPort DEF TypeOK
  <2> QED BY <1>7, <2>1, <2>2, <2>3
<1> QED BY <1>3, <1>6, <1>7, <1>9, EventStep DEF IInv, TypeOK, afc_error

\* Every event is handled.
LEMMA Inv_int3_done ==
    ASSUME IInv, int3_done
    PROVE  IInv' /\ (Current => Current')
<1>1. h \in HType /\ "vbus" \in Steps
  BY DEF IInv, TypeOK, Steps, DetectPc
<1>2. [h EXCEPT !.pc = "vbus"] \in HType
  BY <1>1, HUpdates, Zenon
<1>3. h' \in HType /\ h'.op = h.op /\ h'.pc = "vbus" /\ h.pc = "int3"
  BY <1>1, <1>2 DEF int3_done, HType
<1>4. SameCable(port', port)
  BY DEF int3_done, SameCable
<1> QED BY <1>3, <1>4, AfcStep DEF IInv, TypeOK, AfcPc, int3_done

\* The hold ends: a charger that has answered is asked again.
LEMMA Inv_release ==
    ASSUME IInv, release
    PROVE  IInv' /\ (Current => Current')
<1>1. h \in HType /\ "vbus" \in Steps /\ TypeOK
  BY DEF IInv, TypeOK, Steps, DetectPc
<1>2. [h EXCEPT !.pc = "vbus"] \in HType
  BY <1>1, HUpdates, Zenon
<1>3. h' \in HType /\ h'.op = h.op /\ h'.pc = "vbus" /\ h.pc = "release"
  BY <1>1, <1>2 DEF release, HType
<1>4. /\ muic' \in MuicType /\ muic'.hold_5v = muic.hold_5v /\ muic'.afc_9v = muic.afc_9v
      /\ muic'.chgdet_rerun = muic.chgdet_rerun
      /\ port' \in PortType /\ SameCable(port', port)
      /\ cntl' \subseteq {"ENAFC", "ENQC20"} /\ txd9' \in BOOLEAN
      /\ faults' \in Nat /\ (faults' = 0 => faults = 0)
  <2>1. CASE start_9v
    BY <1>1, <2>1, Started
  <2>2. CASE UNCHANGED <<muic, cntl, txd9, port>>
             /\ (faults' = faults \/ Transfer(FALSE))
    BY <1>1, <2>2, TransferFaults DEF TypeOK, SameCable
  <2> QED BY <2>1, <2>2 DEF release
<1> QED BY <1>3, <1>4, AfcStep DEF IInv, TypeOK, AfcPc, release

\* 5 V is asked for.
LEMMA Inv_afc_drop ==
    ASSUME IInv, afc_drop
    PROVE  IInv' /\ (Current => Current')
<1>1. h \in HType /\ "vbus" \in Steps /\ "reset" \in Steps /\ TypeOK /\ h.pc = "drop"
  BY DEF IInv, TypeOK, Steps, DetectPc, afc_drop
<1>2. h.op = "hold"
  BY <1>1 DEF IInv, Locked, TypeOK, HType, Ops, DetectPc
<1>3. PICK ok \in BOOLEAN :
         /\ Transfer(ok)
         /\ h' = [h EXCEPT !.ok = ok, !.pc = IF ok /\ (muic.afc_9v \/ cntl # {}) THEN "reset"
                                             ELSE "vbus"]
  BY DEF afc_drop
<1>4. \/ h' = [h EXCEPT !.ok = ok, !.pc = "reset"]
      \/ h' = [h EXCEPT !.ok = ok, !.pc = "vbus"] /\ ~(ok /\ muic.afc_9v)
  BY <1>3
<1>5. [h EXCEPT !.ok = ok, !.pc = "reset"] \in HType
      /\ [h EXCEPT !.ok = ok, !.pc = "vbus"] \in HType
  BY <1>1, HUpdates, Zenon
<1>6. /\ h' \in HType /\ h'.op = h.op
      /\ h'.pc = "reset" \/ (h'.pc = "vbus" /\ ~(ok /\ muic.afc_9v))
  BY <1>1, <1>4, <1>5 DEF HType
<1>7. faults' \in Nat /\ (faults' = 0 => faults = 0 /\ ok)
  BY <1>1, <1>3, TransferFaults
<1>8. SameCable(port', port)
  BY DEF afc_drop, SameCable
<1> QED BY <1>1, <1>2, <1>6, <1>7, <1>8, AfcStep DEF IInv, TypeOK, AfcPc, afc_drop

\* The reset of D+.
LEMMA Inv_afc_drop_reset ==
    ASSUME IInv, afc_drop_reset
    PROVE  IInv' /\ (Current => Current')
<1>1. /\ h \in HType /\ "poll" \in Steps /\ TypeOK /\ h.pc = "reset" /\ muic \in MuicType
      /\ port \in PortType /\ port.volt \in {5, 9}
  BY DEF IInv, TypeOK, PortType, Steps, afc_drop_reset
<1>2. h.op = "hold"
  BY <1>1 DEF IInv, Locked, TypeOK, HType, Ops, DetectPc
<1>3. [h EXCEPT !.pc = "poll"] \in HType
      /\ [muic EXCEPT !.afc_9v = FALSE, !.qc20 = FALSE] \in MuicType
  BY <1>1, HUpdates, MuicUpdates, Zenon
<1>4. /\ h' \in HType /\ h'.op = h.op /\ h'.pc = "poll"
      /\ muic' \in MuicType /\ muic'.hold_5v = muic.hold_5v /\ ~muic'.afc_9v
      /\ muic'.chgdet_rerun = muic.chgdet_rerun
  BY <1>1, <1>3 DEF afc_drop_reset, HType, MuicType
<1>5. PICK v \in {5, 9} : Measure([port EXCEPT !.asked = FALSE, !.agreed = FALSE, !.volt = v])
  BY <1>1 DEF afc_drop_reset
<1> DEFINE p == [port EXCEPT !.asked = FALSE, !.agreed = FALSE, !.volt = v]
<1>6. p \in PortType
  BY <1>1, PortUpdates, Zenon
<1>7. SameCable(p, port)
  BY <1>1 DEF PortType, SameCable
<1> HIDE DEF p
<1>8. /\ port' \in PortType /\ SameCable(port', p) /\ vst9' \in BOOLEAN
      /\ ints' \subseteq Int3 \union {"CABLE"}
  <2>1. Measure(p)
    BY <1>5 DEF p
  <2> QED BY <1>1, <1>6, <2>1, MeasuredPort
<1>9. SameCable(port', port)
  BY <1>7, <1>8 DEF SameCable
<1> QED BY <1>1, <1>2, <1>4, <1>8, <1>9, AfcStep DEF IInv, TypeOK, AfcPc, afc_drop_reset

\* VBUS has come down, or not in time.
LEMMA Inv_afc_drop_poll ==
    ASSUME IInv, afc_drop_poll
    PROVE  IInv' /\ (Current => Current')
<1>1. h \in HType /\ "vbus" \in Steps /\ TypeOK /\ h.pc = "poll" /\ (~vst9) \in BOOLEAN
  BY DEF IInv, TypeOK, Steps, DetectPc, afc_drop_poll
<1>2. [h EXCEPT !.ok = ~vst9, !.pc = "vbus"] \in HType
  BY <1>1, HUpdates, Zenon
<1>3. h' \in HType /\ h'.op = h.op /\ h'.pc = "vbus"
  BY <1>1, <1>2 DEF afc_drop_poll, HType
<1>4. SameCable(port', port)
  BY DEF afc_drop_poll, SameCable
<1> QED BY <1>1, <1>3, <1>4, AfcStep DEF IInv, TypeOK, AfcPc, afc_drop_poll

\* Nothing but the connector changes, and the interrupts it raises.
LEMMA ConnectorStep ==
    ASSUME IInv, UNCHANGED <<phase, muic, h, extcon, ret, cntl, txd9, vst9, faults, rebinds>>,
           port' \in PortType, ints' \subseteq Int3 \union {"CABLE"}, Connected'
    PROVE  IInv'
<1>1. TypeOK'
  BY DEF IInv, TypeOK
<1>2. Locked'
  BY DEF IInv, Locked
<1>3. Coherent'
  BY DEF IInv, Coherent, OneCharger, Detected
<1>4. Held'
  BY DEF IInv, Held
<1> QED BY <1>1, <1>2, <1>3, <1>4 DEF IInv

\* A charger is plugged in.
LEMMA Inv_attach ==
    ASSUME IInv, attach
    PROVE  IInv'
<1>1. PICK kind \in IF phase = "unbound" THEN BootChargers \ {"none"} ELSE Chargers :
         port' \in Plugged(kind, port.dock)
  BY DEF attach
<1>2. kind \in Types /\ port.dock \in BOOLEAN /\ TypeOK
  BY KindType DEF IInv, TypeOK, PortType
<1>3. /\ port' \in PortType /\ port'.charger = kind /\ (port'.vbus <=> kind # "none")
      /\ port'.dock = port.dock /\ port'.type = "none"
      /\ (port'.detecting <=> kind # "none" /\ ~port.dock)
  BY <1>1, <1>2, PluggedPort
<1>4. Connected'
  BY <1>3 DEF Connected
<1>5. ints' \subseteq Int3 \union {"CABLE"}
  BY <1>2, RaisedInts DEF attach
<1> QED BY <1>3, <1>4, <1>5, ConnectorStep DEF attach

\* The charger is pulled out.
LEMMA Inv_detach ==
    ASSUME IInv, detach
    PROVE  IInv'
<1>1. "none" \in Types /\ port.dock \in BOOLEAN /\ TypeOK
  BY DEF IInv, TypeOK, PortType, Types
<1>2. /\ port' \in PortType /\ port'.charger = "none" /\ ~port'.vbus
      /\ port'.dock = port.dock /\ port'.type = "none" /\ ~port'.detecting
  BY <1>1, PluggedPort DEF detach
<1>3. Connected'
  BY <1>2 DEF Connected
<1>4. ints' \subseteq Int3 \union {"CABLE"}
  BY <1>1, RaisedInts DEF detach
<1> QED BY <1>2, <1>3, <1>4, ConnectorStep DEF detach

\* The cover is put on or taken off.
LEMMA Inv_dock ==
    ASSUME IInv, dock
    PROVE  IInv'
<1>1. port \in PortType /\ TypeOK /\ port.detecting \in BOOLEAN /\ port.vbus \in BOOLEAN
  BY DEF IInv, TypeOK, PortType
<1>2. PICK d \in Docks : port' = [port EXCEPT !.dock = d,
           !.detecting = port.detecting \/ (~d /\ port.vbus /\ port.type = "none")]
  BY DEF dock
<1>3. d \in BOOLEAN /\ (port.detecting \/ (~d /\ port.vbus /\ port.type = "none")) \in BOOLEAN
  BY <1>1, MuicAssumption
<1>4. port' \in PortType
  BY <1>1, <1>2, <1>3, PortUpdates, Zenon
<1>5. /\ port'.charger = port.charger /\ port'.vbus = port.vbus /\ port'.type = port.type
      /\ port'.dock = d
      /\ port'.detecting = (port.detecting \/ (~d /\ port.vbus /\ port.type = "none"))
  BY <1>1, <1>2 DEF PortType
<1>6. Connected'
  BY <1>3, <1>5 DEF IInv, Connected
<1>7. ints' \subseteq Int3 \union {"CABLE"}
  BY <1>1, RaisedInts DEF dock
<1> QED BY <1>4, <1>6, <1>7, ConnectorStep DEF dock

\* The type of the charger is detected.
LEMMA Inv_charger_detected ==
    ASSUME IInv, charger_detected
    PROVE  IInv'
<1>1. /\ port \in PortType /\ TypeOK /\ port.charger \in Types /\ port.type \in Types
      /\ "DCP" \in Types /\ {"CABLE"} \in SUBSET (Int3 \union {"CABLE"})
  BY DEF IInv, TypeOK, PortType, Types, Kinds
<1> DEFINE t == IF port.type # "none" THEN port.type
                ELSE IF port.charger \in {"AFC", "QC20"} THEN "DCP" ELSE port.charger
<1>2. t \in Types
  BY <1>1
<1>3. port' = [port EXCEPT !.detecting = FALSE, !.type = t]
  BY DEF charger_detected
<1>8. Class(t) = Class(port.charger) /\ (port.charger # "none" => t # "none")
  BY DEF IInv, Connected, Class
<1> HIDE DEF t
<1>4. port' \in PortType
  BY <1>1, <1>2, <1>3, PortUpdates, Zenon
<1>5. /\ port'.charger = port.charger /\ port'.vbus = port.vbus /\ port'.type = t
      /\ port'.dock = port.dock /\ ~port'.detecting
  BY <1>1, <1>3 DEF PortType
<1>6. Connected'
  BY <1>5, <1>8 DEF IInv, Connected
<1>7. ints' \subseteq Int3 \union {"CABLE"}
  BY <1>1, RaisedInts DEF charger_detected
<1> QED BY <1>4, <1>6, <1>7, ConnectorStep DEF charger_detected

\* A charger answers the ping.
LEMMA Inv_ta_attached ==
    ASSUME IInv, ta_attached
    PROVE  IInv'
<1>1. /\ port \in PortType /\ TypeOK /\ port.charger \in Types
      /\ {"AFC_TA_ATTACHED"} \in SUBSET (Int3 \union {"CABLE"})
  BY DEF IInv, TypeOK, PortType, Int3
<1>2. port' = [port EXCEPT !.ta = FALSE, !.type = port.charger]
  BY DEF ta_attached
<1>3. port' \in PortType
  BY <1>1, <1>2, PortUpdates, Zenon
<1>4. /\ port'.charger = port.charger /\ port'.vbus = port.vbus /\ port'.type = port.charger
      /\ port'.dock = port.dock /\ port'.detecting = port.detecting
  BY <1>1, <1>2 DEF PortType
<1>5. Connected'
  BY <1>4 DEF IInv, Connected, ta_attached, Class
<1>6. ints' \subseteq Int3 \union {"CABLE"}
  BY <1>1, RaisedInts DEF ta_attached
<1> QED BY <1>3, <1>5, <1>6, ConnectorStep DEF ta_attached

\* A charger answers a request.
LEMMA Inv_charger_answer ==
    ASSUME IInv, charger_answer
    PROVE  IInv'
<1>1. /\ port \in PortType /\ TypeOK
      /\ {"AFC_ACCEPTED"} \in SUBSET (Int3 \union {"CABLE"})
      /\ {"AFC_ERROR"} \in SUBSET (Int3 \union {"CABLE"})
  BY DEF IInv, TypeOK, Int3
<1> DEFINE p == [port EXCEPT !.asked = FALSE]
<1>2. p \in PortType /\ SameCable(p, port)
  BY <1>1, AskedPort
<1>3. port' \in Agreed(p) \/ port' = p
  BY DEF charger_answer
<1> HIDE DEF p
<1>4. port' \in PortType /\ SameCable(port', p)
  BY <1>2, <1>3, AgreedPort DEF SameCable
<1>5. Connected'
  <2>1. SameCable(port', port)
    BY <1>2, <1>4 DEF SameCable
  <2> QED BY <2>1, SameConnected DEF IInv
<1>6. ints' \subseteq Int3 \union {"CABLE"}
  BY <1>1, RaisedInts DEF charger_answer
<1> QED BY <1>4, <1>5, <1>6, ConnectorStep DEF charger_answer

\* VBUS follows.
LEMMA Inv_charger_ramp ==
    ASSUME IInv, charger_ramp
    PROVE  IInv'
<1>1. port \in PortType /\ TypeOK
  BY DEF IInv, TypeOK
<1>2. PICK v \in {5, 9} : port' = [port EXCEPT !.volt = v]
  BY DEF charger_ramp
<1>3. port' \in PortType
  BY <1>1, <1>2, PortUpdates, Zenon
<1>4. SameCable(port', port)
  BY <1>1, <1>2 DEF PortType, SameCable
<1> QED BY <1>3, <1>4, SameConnected, ConnectorStep DEF IInv, TypeOK, charger_ramp

\* VBUS, charger type and ID pin are read.
LEMMA Inv_detect_read ==
    ASSUME IInv, detect_read
    PROVE  IInv'
<1>1. /\ h \in HType /\ TypeOK /\ port \in PortType /\ h.pc \in {"vbus", "type", "adc"}
      /\ port.vbus \in BOOLEAN /\ port.type \in Types /\ port.dock \in BOOLEAN
      /\ {"type", "adc", "DOCK"} \subseteq Steps /\ h.op \in Ops /\ h.op # "none"
  BY DEF IInv, TypeOK, PortType, HType, Steps, DetectPc, Locked, detect_read
<1>2. PICK ok \in BOOLEAN :
          /\ Transfer(ok)
          /\ \/ ~ok /\ Return(FALSE)
             \/ ok /\ h.pc = "vbus" /\ h' = [h EXCEPT !.vbus = port.vbus, !.pc = "type"]
                   /\ UNCHANGED <<ret, phase>>
             \/ ok /\ h.pc = "type" /\ h' = [h EXCEPT !.type = port.type, !.pc = "adc"]
                   /\ UNCHANGED <<ret, phase>>
             \/ ok /\ h.pc = "adc" /\ h' = [h EXCEPT !.dock = port.dock, !.pc = "DOCK"]
                   /\ UNCHANGED <<ret, phase>>
  BY DEF detect_read
<1>3. /\ [h EXCEPT !.vbus = port.vbus, !.pc = "type"] \in HType
      /\ [h EXCEPT !.type = port.type, !.pc = "adc"] \in HType
      /\ [h EXCEPT !.dock = port.dock, !.pc = "DOCK"] \in HType
  BY <1>1, HUpdates, Zenon
<1>4. faults' \in Nat /\ (faults' = 0 => faults = 0 /\ ok)
  BY <1>1, <1>2, TransferFaults
<1>5. /\ h' \in HType /\ ret' \in BOOLEAN
      /\ \/ ~ok /\ h' = Unlocked
            /\ phase' = IF h.op # "probe" THEN phase ELSE "unbound"
         \/ h'.op = h.op /\ h'.pc \in {"type", "adc", "DOCK"} /\ phase' = phase
  BY <1>1, <1>2, <1>3, UnlockedType DEF TypeOK, HType, Return
<1>6. TypeOK'
  BY <1>1, <1>4, <1>5 DEF TypeOK, detect_read
<1>7. Locked'
  BY <1>1, <1>5, UnlockedType DEF IInv, Locked, TypeOK, Ops, DetectPc
<1>8. Coherent'
  <2>1. OneCharger
    BY <1>1 DEF IInv, Coherent
  <2>2. OneCharger'
    BY <2>1 DEF OneCharger, detect_read
  <2> QED BY <1>5, <2>2, UnlockedType DEF Coherent
<1>9. Held'
  BY <1>1, <1>4, <1>5, UnlockedType DEF IInv, Held, detect_read
<1>10. Connected'
  BY DEF IInv, Connected, detect_read
<1> QED BY <1>6, <1>7, <1>8, <1>9, <1>10 DEF IInv

\* What does not outlive its charger is reset, and its detection rerun.
LEMMA Inv_detect_state ==
    ASSUME IInv, detect_state
    PROVE  IInv'
<1>1. /\ h \in HType /\ TypeOK /\ port \in PortType /\ muic \in MuicType /\ h.pc = "DOCK"
      /\ port.vbus \in BOOLEAN /\ "FAST" \in Steps /\ h.vbus \in BOOLEAN /\ h.dock \in BOOLEAN
      /\ muic.afc_9v \in BOOLEAN /\ muic.afc_ta \in BOOLEAN /\ muic.chgdet_rerun \in BOOLEAN
  BY DEF IInv, TypeOK, PortType, MuicType, HType, Steps, DetectPc, detect_state
<1>2. PICK ok \in BOOLEAN :
         /\ Transfer(ok)
         /\ port' = IF ok /\ Rescan THEN [port EXCEPT !.detecting = port.vbus] ELSE port
  BY DEF detect_state
<1>3. faults' \in Nat /\ (faults' = 0 => faults = 0)
  BY <1>1, <1>2, TransferFaults
<1>4. [port EXCEPT !.detecting = port.vbus] \in PortType
  BY <1>1, PortUpdates, Zenon
<1>5. port' \in PortType /\ Connected'
  BY <1>1, <1>2, <1>4 DEF IInv, Connected, PortType
<1> DEFINE v == muic.afc_9v /\ h.vbus
           a == muic.afc_ta /\ h.vbus
           c == (muic.chgdet_rerun /\ h.vbus /\ h.dock) \/ Rescan
<1>6. v \in BOOLEAN /\ a \in BOOLEAN /\ c \in BOOLEAN /\ (v => muic.afc_9v)
  BY <1>1 DEF Rescan
<1>7. muic' = [muic EXCEPT !.afc_9v = v, !.afc_ta = a, !.chgdet_rerun = c]
  BY DEF detect_state
<1> HIDE DEF v, a, c
<1>8. muic' \in MuicType
  BY <1>1, <1>6, <1>7, MuicUpdates, Zenon
<1>9. muic'.hold_5v = muic.hold_5v /\ (muic'.afc_9v => muic.afc_9v)
  BY <1>1, <1>6, <1>7 DEF MuicType
<1>10. [h EXCEPT !.pc = "FAST"] \in HType
  BY <1>1, HUpdates, Zenon
<1>11. h' \in HType /\ h'.op = h.op /\ h'.pc = "FAST"
  BY <1>1, <1>10 DEF HType, detect_state
<1>12. extcon' \subseteq Cables /\ \A k : k # "DOCK" => (k \in extcon' <=> k \in extcon)
  BY <1>1 DEF TypeOK, Cables, detect_state
<1>13. TypeOK'
  BY <1>1, <1>3, <1>5, <1>8, <1>11, <1>12 DEF TypeOK, detect_state
<1>14. Locked'
  BY <1>1, <1>11 DEF IInv, Locked, DetectPc, detect_state
<1>15. Coherent'
  <2>1. OneCharger
    BY <1>1 DEF IInv, Coherent
  <2>2. OneCharger'
    BY <1>12, <2>1 DEF OneCharger
  <2> QED BY <1>11, <2>2 DEF Coherent
<1>16. Held'
  BY <1>1, <1>3, <1>9, <1>11, <1>12 DEF IInv, Held
<1> QED BY <1>5, <1>13, <1>14, <1>15, <1>16 DEF IInv

\* Another cable is reported.
LEMMA SetCable ==
    ASSUME IInv, detect_set
    PROVE  /\ h.pc \in {"FAST", "SDP", "DCP", "CDP", "USB"} /\ h.op # "none"
           /\ \A k : k # h.pc => (k \in extcon' <=> k \in extcon)
           /\ h.pc \in extcon' <=> h.pc \in Detected
           /\ extcon' \subseteq Cables /\ h' \in HType
           /\ \/ h.pc = "USB" /\ h' = Unlocked
                 /\ phase' = IF h.op # "probe" THEN phase ELSE "bound"
              \/ /\ h.pc # "USB" /\ h'.pc = NextCable[h.pc] /\ h'.op = h.op /\ h'.vbus = h.vbus
                 /\ h'.type = h.type /\ h'.dock = h.dock /\ phase' = phase
           /\ ret' \in BOOLEAN
<1>1. h \in HType /\ h.pc \in {"FAST", "SDP", "DCP", "CDP", "USB"} /\ TypeOK
  BY DEF IInv, TypeOK, detect_set
<1>2. h.pc # "USB" => NextCable[h.pc] \in {"SDP", "DCP", "CDP", "USB"}
  BY <1>1 DEF NextCable
<1>3. {"SDP", "DCP", "CDP", "USB"} \subseteq Steps
  BY DEF Steps, DetectPc
<1>4. h.pc # "USB" => [h EXCEPT !.pc = NextCable[h.pc]] \in HType
  BY <1>1, <1>2, <1>3, HUpdates, Zenon
<1>5. h.op # "none"
  BY <1>1 DEF IInv, Locked
<1>6. /\ \A k : k # h.pc => (k \in extcon' <=> k \in extcon)
      /\ h.pc \in extcon' <=> h.pc \in Detected
  BY DEF detect_set
<1>7. extcon' \subseteq Cables
  BY <1>1, <1>6 DEF TypeOK, Cables
<1>8. CASE h.pc = "USB"
  <2>1. h' = Unlocked /\ phase' = (IF h.op # "probe" THEN phase ELSE "bound") /\ ret' \in BOOLEAN
    BY <1>1, <1>8 DEF detect_set, Return, TypeOK, HType
  <2> QED BY <1>1, <1>5, <1>6, <1>7, <1>8, <2>1, UnlockedType
<1>9. CASE h.pc # "USB"
  <2>1. h' = [h EXCEPT !.pc = NextCable[h.pc]] /\ phase' = phase /\ ret' = ret
    BY <1>9 DEF detect_set
  <2>2. /\ h' \in HType /\ h'.pc = NextCable[h.pc] /\ h'.op = h.op /\ h'.vbus = h.vbus
        /\ h'.type = h.type /\ h'.dock = h.dock
    BY <1>1, <1>4, <1>9, <2>1 DEF HType
  <2> QED BY <1>1, <1>5, <1>6, <1>7, <1>9, <2>1, <2>2 DEF TypeOK
<1> QED BY <1>8, <1>9

\* The cable is stored, and the next one decided or the lock given back.
LEMMA Inv_detect_set ==
    ASSUME IInv, detect_set
    PROVE  IInv'
<1>1. UNCHANGED <<muic, cntl, txd9, vst9, ints, port, faults, rebinds>>
  BY DEF detect_set
<1>2. TypeOK'
  BY <1>1, SetCable DEF IInv, TypeOK
<1>3. \/ h.pc = "FAST" /\ h'.pc = "SDP"
      \/ h.pc = "SDP" /\ h'.pc = "DCP"
      \/ h.pc = "DCP" /\ h'.pc = "CDP"
      \/ h.pc = "CDP" /\ h'.pc = "USB"
      \/ h.pc = "USB" /\ h'.pc = "none" /\ h'.op = "none"
  BY SetCable, UnlockedType DEF NextCable
<1>4. Locked'
  <2>1. CASE h.pc = "USB"
    BY <2>1, SetCable, UnlockedType DEF IInv, Locked, TypeOK, HType, Ops, DetectPc
  <2>2. CASE h.pc # "USB"
    BY <1>3, <2>2, SetCable DEF IInv, Locked, DetectPc
  <2> QED BY <2>1, <2>2
<1>5. Coherent'
  <2>1. CASE h.pc = "USB"
    <3>1. /\ "FAST" \in extcon' <=> "FAST" \in Detected
          /\ "SDP" \in extcon' <=> "SDP" \in Detected
          /\ "DCP" \in extcon' <=> "DCP" \in Detected
          /\ "CDP" \in extcon' <=> "CDP" \in Detected
          /\ "USB" \in extcon' <=> "USB" \in Detected
      BY <2>1, SetCable DEF IInv, Coherent
    <3>2. /\ ~({"SDP", "CDP"} \subseteq Detected) /\ ~({"SDP", "DCP"} \subseteq Detected)
          /\ ~({"CDP", "DCP"} \subseteq Detected)
          /\ "USB" \in Detected <=> "SDP" \in Detected \/ "CDP" \in Detected
          /\ "FAST" \in Detected => "DCP" \in Detected
      BY DEF Detected
    <3>3. OneCharger'
      BY <3>1, <3>2 DEF OneCharger
    <3> QED BY <1>3, <2>1, <3>3 DEF Coherent
  <2>2. CASE h.pc # "USB"
    <3>1. Detected' = Detected
      BY <1>1, <2>2, SetCable DEF Detected
    <3> QED BY <1>3, <2>2, <3>1, SetCable DEF IInv, Coherent
  <2> QED BY <2>1, <2>2
<1>6. Held'
  <2>1. muic.afc_9v = FALSE => "FAST" \notin Detected
    BY DEF Detected
  <2>2. h'.pc # "int3" /\ h.pc # "drop" /\ h.pc # "reset"
    BY <1>3
  <2>3. h.op = "hold" /\ h.pc \in {"FAST"} => h'.op = "hold" /\ h'.pc = "SDP"
    BY <1>3, SetCable
  <2>4. muic.afc_9v \in BOOLEAN
    BY DEF IInv, TypeOK, MuicType
  <2>5. ASSUME faults = 0, muic.hold_5v PROVE "FAST" \notin extcon'
    <3>1. ~muic.afc_9v
      BY <2>2, <2>5 DEF IInv, Held
    <3>2. "FAST" \notin Detected
      BY <2>1, <2>4, <3>1
    <3>3. h.pc # "FAST" => "FAST" \notin extcon
      BY <1>3, <2>5 DEF IInv, Held
    <3> QED BY <3>2, <3>3, SetCable
  <2> QED BY <1>1, <2>2, <2>5 DEF IInv, Held
<1>7. Connected'
  BY <1>1 DEF IInv, Connected
<1> QED BY <1>2, <1>4, <1>5, <1>6, <1>7 DEF IInv

\* An operation begins.
LEMMA Begun ==
    ASSUME IInv, h.op = "none", NEW o \in Ops \ {"none"}, NEW c \in Steps, NEW i \in SUBSET Int3,
           h' = [Unlocked EXCEPT !.op = o, !.int3 = i, !.pc = c]
    PROVE  h' \in HType /\ h'.op = o /\ h'.pc = c /\ OneCharger
<1>1. Unlocked \in HType /\ o \in Ops
  BY UnlockedType
<1>2. h' \in HType
  BY <1>1, HUpdates, Zenon
<1>3. h'.op = o /\ h'.pc = c
  BY <1>1 DEF HType
<1>4. OneCharger
  BY DEF IInv, Locked, Coherent
<1> QED BY <1>2, <1>3, <1>4

\* The interrupt registers are read.
LEMMA Inv_irq_read ==
    ASSUME IInv, irq_read
    PROVE  IInv'
<1>1. PICK ok \in BOOLEAN :
          /\ Transfer(ok)
          /\ h' = IF ~ok THEN h
                  ELSE [Unlocked EXCEPT !.op = "irq", !.int3 = ints \intersect Int3,
                                        !.pc = IF Afc THEN "afc" ELSE "vbus"]
          /\ ints' = IF ok THEN {} ELSE ints
  BY DEF irq_read
<1>2. faults' \in Nat /\ (faults' = 0 => faults = 0) /\ TypeOK /\ h.op = "none"
  BY <1>1, TransferFaults DEF IInv, irq_read
<1>3. OneCharger
  BY <1>2 DEF IInv, Locked, Coherent
<1>4. OneCharger'
  BY <1>3 DEF OneCharger, irq_read
<1> DEFINE c == IF Afc THEN "afc" ELSE "vbus"
<1>5. "irq" \in Ops \ {"none"} /\ c \in Steps /\ ints \intersect Int3 \in SUBSET Int3
  BY DEF Ops, Steps, DetectPc
<1>6. \/ h' = h
      \/ /\ h' \in HType /\ h'.op = "irq" /\ h'.pc = c
  <2>1. CASE ok
    <3>1. h' = [Unlocked EXCEPT !.op = "irq", !.int3 = ints \intersect Int3, !.pc = c]
      BY <1>1, <2>1
    <3> HIDE DEF c
    <3> QED BY <1>2, <1>5, <3>1, Begun
  <2>2. CASE ~ok
    BY <1>1, <2>2
  <2> QED BY <2>1, <2>2
<1>7. TypeOK'
  BY <1>1, <1>2, <1>6 DEF TypeOK, irq_read
<1>8. Locked'
  BY <1>2, <1>6, MuicAssumption DEF IInv, Locked, DetectPc, irq_read
<1>9. Coherent'
  BY <1>2, <1>4, <1>6 DEF Coherent, IInv, Locked
<1>10. Held'
  BY <1>2, <1>6, MuicAssumption DEF IInv, Locked, Held, irq_read
<1>11. Connected'
  BY DEF IInv, Connected, irq_read
<1> QED BY <1>7, <1>8, <1>9, <1>10, <1>11 DEF IInv

\* The charger driver asks for 5 V, or no longer does.
LEMMA Inv_hold_5v ==
    ASSUME IInv, NEW b \in BOOLEAN, hold_5v(b)
    PROVE  IInv'
<1>1. /\ TypeOK /\ h.op = "none" /\ muic \in MuicType /\ Afc \in BOOLEAN /\ phase # "unbound"
      /\ UNCHANGED <<phase, extcon, ret, cntl, txd9, vst9, ints, port, faults, rebinds>>
  BY MuicAssumption DEF IInv, TypeOK, hold_5v
<1>2. OneCharger
  BY <1>1 DEF IInv, Locked, Coherent
<1>3. OneCharger'
  BY <1>1, <1>2 DEF OneCharger
<1> DEFINE c == IF ~Afc THEN "vbus" ELSE IF b THEN "drop" ELSE "release"
<1>4. "hold" \in Ops /\ c \in Steps /\ Unlocked \in HType
  BY UnlockedType DEF Ops, Steps, DetectPc
<1>5. h' = [Unlocked EXCEPT !.op = "hold", !.pc = c]
  BY DEF hold_5v
<1>6. h' \in HType /\ h'.op = "hold" /\ h'.pc = c
  <2> HIDE DEF c
  <2>1. h' \in HType
    BY <1>4, <1>5, HUpdates, Zenon
  <2> QED BY <1>4, <1>5, <2>1 DEF HType
<1>7. [muic EXCEPT !.hold_5v = b] \in MuicType
  BY <1>1, MuicUpdates, Zenon
<1>8. muic' \in MuicType /\ muic'.hold_5v = b /\ muic'.afc_9v = muic.afc_9v
  BY <1>1, <1>7 DEF MuicType, hold_5v
<1>9. TypeOK'
  BY <1>1, <1>6, <1>8 DEF TypeOK
<1>10. Locked'
  BY <1>1, <1>6 DEF IInv, Locked, DetectPc
<1>11. Coherent'
  BY <1>3, <1>6 DEF Coherent
<1>12. Held'
  BY <1>1, <1>6, <1>8 DEF IInv, Held
<1>13. Connected'
  BY <1>1 DEF IInv, Connected
<1> QED BY <1>9, <1>10, <1>11, <1>12, <1>13 DEF IInv

\* The driver is bound and unbound while nobody holds the lock.
LEMMA Inv_probe ==
    ASSUME IInv, probe
    PROVE  IInv'
<1>1. muic' \in MuicType /\ ~muic'.afc_9v /\ ~muic'.hold_5v
  BY DEF probe, ZeroMuic, MuicType
<1>2. TypeOK'
  BY <1>1 DEF IInv, TypeOK, probe
<1>3. Locked'
  BY DEF IInv, Locked, probe
<1>4. Coherent'
  BY DEF IInv, Locked, Coherent, OneCharger, probe
<1>5. Held'
  BY <1>1 DEF Held
<1>6. Connected'
  BY DEF IInv, Connected, probe
<1> QED BY <1>2, <1>3, <1>4, <1>5, <1>6 DEF IInv

\* probe() looks at the cable first.
LEMMA Inv_probe_detect ==
    ASSUME IInv, probe_detect
    PROVE  IInv'
<1>1. "probe" \in Ops /\ "vbus" \in Steps /\ Unlocked \in HType
  BY UnlockedType DEF Ops, Steps, DetectPc
<1>2. [Unlocked EXCEPT !.op = "probe", !.pc = "vbus"] \in HType
  BY <1>1, HUpdates, Zenon
<1>3. h' \in HType /\ h'.op = "probe" /\ h'.pc = "vbus"
  BY <1>1, <1>2 DEF probe_detect, HType
<1>4. TypeOK'
  BY <1>3 DEF IInv, TypeOK, probe_detect
<1>5. Locked'
  BY <1>3 DEF IInv, Locked, DetectPc, probe_detect
<1>6. Coherent'
  <2>1. OneCharger
    BY DEF IInv, Locked, Coherent, probe_detect
  <2>2. OneCharger'
    BY <2>1 DEF OneCharger, probe_detect
  <2> QED BY <1>3, <2>2 DEF Coherent
<1>7. Held'
  BY <1>3 DEF IInv, Locked, Held, probe_detect
<1>8. Connected'
  BY DEF IInv, Connected, probe_detect
<1> QED BY <1>4, <1>5, <1>6, <1>7, <1>8 DEF IInv

\* Unbinding forgets everything but what the chip holds.
LEMMA Inv_unbind ==
    ASSUME IInv, unbind
    PROVE  IInv'
<1>1. muic' \in MuicType /\ ~muic'.afc_9v /\ ~muic'.hold_5v
  BY DEF unbind, ZeroMuic, MuicType
<1>2. TypeOK'
  BY <1>1 DEF IInv, TypeOK, Cables, unbind
<1>3. Locked'
  BY DEF IInv, Locked, unbind
<1>4. Coherent'
  BY DEF IInv, Locked, Coherent, OneCharger, unbind
<1>5. Held'
  BY <1>1 DEF Held
<1>6. Connected'
  BY DEF IInv, Connected, unbind
<1> QED BY <1>2, <1>3, <1>4, <1>5, <1>6 DEF IInv

\* Every step keeps the invariant.
LEMMA InvStep == IInv /\ [Next]_vars => IInv'
<1> SUFFICES ASSUME IInv, [Next]_vars PROVE IInv'
  OBVIOUS
<1>1. CASE detect
  BY <1>1, Inv_detect_read, Inv_detect_state, Inv_detect_set DEF detect
<1>2. CASE irq
  BY <1>2, Inv_irq_read, Inv_afc, Inv_afc_start, Inv_afc_accepted, Inv_afc_vbus_update,
     Inv_afc_error, Inv_int3_done DEF irq
<1>3. CASE hold
  BY <1>3, Inv_hold_5v, Inv_release, Inv_afc_drop, Inv_afc_drop_reset, Inv_afc_drop_poll DEF hold
<1>4. CASE probe \/ probe_detect \/ unbind
  BY <1>4, Inv_probe, Inv_probe_detect, Inv_unbind
<1>5. CASE connector
  BY <1>5, Inv_attach, Inv_detach, Inv_dock, Inv_charger_detected, Inv_ta_attached,
     Inv_charger_answer, Inv_charger_ramp DEF connector
<1>6. CASE UNCHANGED vars
  <2>1. TypeOK' /\ Locked'
    BY <1>6 DEF IInv, TypeOK, Locked, vars
  <2>2. Coherent'
    BY <1>6 DEF IInv, Coherent, OneCharger, Detected, vars
  <2>3. Held' /\ Connected'
    BY <1>6 DEF IInv, Held, Connected, vars
  <2> QED BY <2>1, <2>2, <2>3 DEF IInv
<1> QED BY <1>1, <1>2, <1>3, <1>4, <1>5, <1>6 DEF Next

-----------------------------------------------------------------------------
(* What is reported is what is there *)

\* The connector stays as it is to whoever reads it.
LEMMA CurrentSame ==
    ASSUME Current, UNCHANGED <<phase, muic, h, extcon>>, faults' = 0 => faults = 0,
           "CABLE" \in ints' <=> "CABLE" \in ints,
           port'.vbus = port.vbus, port'.dock = port.dock, port'.detecting = port.detecting,
           Class(port'.type) = Class(port.type), port'.type = "none" <=> port.type = "none"
    PROVE  Current'
<1>1. CASE faults' # 0
  BY <1>1 DEF Current
<1>2. CASE faults' = 0
  <2>1. /\ phase' = "unbound" => muic' = ZeroMuic
        /\ h'.pc \in SetDock => ("DOCK" \in extcon' <=> h'.dock)
        /\ muic'.chgdet_rerun /\ port'.vbus /\ port'.type = "none" => port'.detecting
        /\ muic'.chgdet_rerun /\ ~port'.vbus /\ "CABLE" \notin ints' =>
              h'.op # "none" /\ h'.pc \notin SetDock
    BY <1>2 DEF Current
  <2>2. ASSUME "CABLE" \notin ints'
        PROVE  /\ h'.pc \in ReadVbus => h'.vbus = port'.vbus
               /\ h'.pc \in ReadType => Class(h'.type) = Class(port'.type)
               /\ h'.pc \in ReadDock => h'.dock = port'.dock
               /\ h'.pc \in SetDock /\ h'.vbus /\ h'.dock /\ h'.type = "none"
                    => muic'.chgdet_rerun
               /\ phase' = "bound" /\ h'.op = "none" =>
                    /\ extcon' \ {"FAST"} = Shown(port'.vbus, Class(port'.type), port'.dock)
                    /\ port'.vbus /\ port'.dock /\ port'.type = "none" => muic'.chgdet_rerun
    BY <1>2, <2>2 DEF Current
  <2> QED BY <2>1, <2>2 DEF Current
<1> QED BY <1>1, <1>2

\* The connector changes, and an interrupt tells of it.
LEMMA CurrentTold ==
    ASSUME Current, UNCHANGED <<phase, muic, h, extcon>>, faults' = faults, "CABLE" \in ints',
           muic.chgdet_rerun /\ port'.vbus /\ port'.type = "none" => port'.detecting
    PROVE  Current'
  BY DEF Current

\* An interrupt of the cable is pending after it was raised.
LEMMA CableTold ==
    ASSUME TypeOK, ints' = Raised({"CABLE"})
    PROVE  "CABLE" \in ints'
<1>1. {"CABLE"} \in SUBSET (Int3 \union {"CABLE"})
  OBVIOUS
<1> QED BY <1>1, RaisedInts

\* The connector's own steps.
LEMMA Current_connector ==
    ASSUME IInv, Current, ~Replug, connector
    PROVE  Current'
<1>1. port \in PortType /\ TypeOK /\ port.detecting \in BOOLEAN /\ port.vbus \in BOOLEAN
  BY DEF IInv, TypeOK, PortType
<1>2. CASE attach
  <2>1. PICK kind \in IF phase = "unbound" THEN BootChargers \ {"none"} ELSE Chargers :
           port' \in Plugged(kind, port.dock)
    BY <1>2 DEF attach
  <2>2. kind \in Types /\ port.dock \in BOOLEAN
    BY KindType DEF IInv, TypeOK, PortType
  <2>3. port'.detecting <=> kind # "none" /\ ~port.dock
    BY <2>1, <2>2, PluggedPort
  <2>4. faults = 0 => ~muic.chgdet_rerun
    <3>1. CASE phase = "unbound"
      BY <3>1 DEF Current, ZeroMuic
    <3>2. CASE h.op = "none" /\ ints = {} /\ ~port.vbus
      BY <3>2 DEF Current
    <3> QED BY <1>2, <3>1, <3>2 DEF attach
  <2>5. UNCHANGED <<phase, muic, h, extcon, faults>> /\ "CABLE" \in ints'
    BY <1>1, <1>2, CableTold DEF attach
  <2>6. CASE faults = 0
    BY <2>4, <2>5, <2>6, CurrentTold
  <2>7. CASE faults # 0
    BY <2>5, <2>7 DEF Current
  <2> QED BY <2>6, <2>7
<1>3. CASE detach
  <2>1. "none" \in Types /\ port.dock \in BOOLEAN
    BY <1>1 DEF PortType, Types
  <2>2. ~port'.vbus
    BY <1>3, <2>1, PluggedPort DEF detach
  <2> QED BY <1>1, <1>3, <2>2, CableTold, CurrentTold DEF detach
<1>4. CASE dock
  <2>1. PICK d \in Docks : port' = [port EXCEPT !.dock = d,
             !.detecting = port.detecting \/ (~d /\ port.vbus /\ port.type = "none")]
    BY <1>4 DEF dock
  <2>2. /\ port'.vbus = port.vbus /\ port'.type = port.type
        /\ port.detecting => port'.detecting
    BY <1>1, <2>1 DEF PortType
  <2>3. faults = 0 /\ muic.chgdet_rerun /\ port'.vbus /\ port'.type = "none" => port'.detecting
    BY <2>2 DEF Current
  <2>4. UNCHANGED <<phase, muic, h, extcon, faults>> /\ "CABLE" \in ints'
    BY <1>1, <1>4, CableTold DEF dock
  <2>5. CASE faults = 0
    BY <2>3, <2>4, <2>5, CurrentTold
  <2>6. CASE faults # 0
    BY <2>4, <2>6 DEF Current
  <2> QED BY <2>5, <2>6
<1>5. CASE charger_detected
  <2>1. port'.type # "none" \/ ~port'.vbus
    <3>1. port.vbus => port.charger # "none"
      BY DEF IInv, Connected
    <3> QED BY <1>1, <1>5, <3>1 DEF charger_detected, PortType
  <2> QED BY <1>1, <1>5, <2>1, CableTold, CurrentTold DEF charger_detected
<1>6. CASE ta_attached
  <2>1. /\ port'.vbus = port.vbus /\ port'.dock = port.dock /\ port'.detecting = port.detecting
        /\ port'.type = port.charger
    BY <1>1, <1>6 DEF ta_attached, PortType
  <2>2. Class(port'.type) = Class(port.type) /\ port.type # "none" /\ port.charger # "none"
    BY <1>6, <2>1 DEF IInv, Connected, ta_attached, Class
  <2>3. {"AFC_TA_ATTACHED"} \in SUBSET (Int3 \union {"CABLE"}) /\ "CABLE" \notin {"AFC_TA_ATTACHED"}
    BY DEF Int3
  <2>4. "CABLE" \in ints' <=> "CABLE" \in ints
    BY <1>1, <1>6, <2>3, RaisedInts DEF ta_attached
  <2> QED BY <1>6, <2>1, <2>2, <2>4, CurrentSame DEF ta_attached
<1>7. CASE charger_answer
  <2> DEFINE p == [port EXCEPT !.asked = FALSE]
  <2>1. p \in PortType /\ SameCable(p, port)
    BY <1>1, AskedPort
  <2>2. port' \in Agreed(p) \/ port' = p
    BY <1>7 DEF charger_answer
  <2> HIDE DEF p
  <2>3. SameCable(port', port)
    BY <2>1, <2>2, AgreedPort DEF SameCable
  <2>4. /\ {"AFC_ACCEPTED"} \in SUBSET (Int3 \union {"CABLE"}) /\ "CABLE" \notin {"AFC_ACCEPTED"}
        /\ {"AFC_ERROR"} \in SUBSET (Int3 \union {"CABLE"}) /\ "CABLE" \notin {"AFC_ERROR"}
    BY DEF Int3
  <2>5. "CABLE" \in ints' <=> "CABLE" \in ints
    BY <1>1, <1>7, <2>4, RaisedInts DEF charger_answer
  <2>6. UNCHANGED <<phase, muic, h, extcon, faults>>
    BY <1>7 DEF charger_answer
  <2> QED BY <2>3, <2>5, <2>6, CurrentSame DEF SameCable
<1>8. CASE charger_ramp
  <2>1. SameCable(port', port)
    BY <1>1, <1>8 DEF charger_ramp, PortType, SameCable
  <2>2. UNCHANGED <<phase, muic, h, extcon, faults, ints>>
    BY <1>8 DEF charger_ramp
  <2> QED BY <2>1, <2>2, CurrentSame DEF SameCable
<1> QED BY <1>2, <1>3, <1>4, <1>5, <1>6, <1>7, <1>8 DEF connector

\* Registers are read one by one, and tell what is there unless an interrupt is due.
LEMMA Current_detect_read ==
    ASSUME IInv, Current, detect_read
    PROVE  Current'
<1>1. /\ h \in HType /\ TypeOK /\ h.pc \in {"vbus", "type", "adc"} /\ h.op # "none"
      /\ UNCHANGED <<muic, extcon, ints, port>> /\ phase # "unbound"
  BY DEF IInv, TypeOK, Locked, detect_read
<1>2. PICK ok \in BOOLEAN :
          /\ Transfer(ok)
          /\ ok => /\ UNCHANGED phase
                   /\ \/ h.pc = "vbus" /\ h' = [h EXCEPT !.vbus = port.vbus, !.pc = "type"]
                      \/ h.pc = "type" /\ h' = [h EXCEPT !.type = port.type, !.pc = "adc"]
                      \/ h.pc = "adc" /\ h' = [h EXCEPT !.dock = port.dock, !.pc = "DOCK"]
  BY DEF detect_read
<1>3. faults' = 0 => faults = 0 /\ ok
  BY <1>1, <1>2, TransferFaults
<1>4. CASE faults' # 0
  BY <1>4 DEF Current
<1>5. CASE faults' = 0
  <2>1. /\ h'.op = h.op
        /\ \/ /\ h.pc = "vbus" /\ h'.pc = "type" /\ h'.vbus = port.vbus
           \/ /\ h.pc = "type" /\ h'.pc = "adc" /\ h'.vbus = h.vbus /\ h'.type = port.type
           \/ /\ h.pc = "adc" /\ h'.pc = "DOCK" /\ h'.vbus = h.vbus /\ h'.type = h.type
              /\ h'.dock = port.dock
    BY <1>1, <1>2, <1>3, <1>5 DEF HType
  <2> QED BY <1>1, <1>2, <1>3, <1>5, <2>1
          DEF Current, ReadVbus, ReadType, ReadDock, SetDock
<1> QED BY <1>4, <1>5

\* Detection is rerun for a charger that the cover keeps from being detected.
LEMMA Current_detect_state ==
    ASSUME IInv, Current, detect_state
    PROVE  Current'
<1>1. /\ h \in HType /\ TypeOK /\ h.pc = "DOCK" /\ h.op # "none" /\ muic \in MuicType
      /\ port \in PortType /\ UNCHANGED <<phase, ints>> /\ phase # "unbound"
      /\ h.vbus \in BOOLEAN /\ h.dock \in BOOLEAN /\ muic.chgdet_rerun \in BOOLEAN
  BY DEF IInv, TypeOK, HType, MuicType, Locked, detect_state
<1>2. PICK ok \in BOOLEAN :
         /\ Transfer(ok)
         /\ port' = IF ok /\ Rescan THEN [port EXCEPT !.detecting = port.vbus] ELSE port
  BY DEF detect_state
<1>3. faults' = 0 => faults = 0 /\ ok
  BY <1>1, <1>2, TransferFaults
<1>4. CASE faults' # 0
  BY <1>4 DEF Current
<1>5. CASE faults' = 0
  <2>1. /\ h'.op = h.op /\ h'.pc = "FAST" /\ h'.vbus = h.vbus /\ h'.type = h.type
        /\ h'.dock = h.dock
    BY <1>1 DEF HType, detect_state
  <2>2. muic'.chgdet_rerun <=> (muic.chgdet_rerun /\ h.vbus /\ h.dock) \/ Rescan
    BY <1>1 DEF MuicType, detect_state
  <2>3. /\ port'.vbus = port.vbus /\ port'.type = port.type /\ port'.dock = port.dock
        /\ port'.detecting = IF Rescan THEN port.vbus ELSE port.detecting
    BY <1>1, <1>2, <1>3, <1>5 DEF PortType
  <2>4. "DOCK" \in extcon' <=> h.dock
    BY <1>1 DEF detect_state
  <2>5. muic'.chgdet_rerun /\ port'.vbus /\ port'.type = "none" => port'.detecting
    BY <1>3, <1>5, <2>2, <2>3 DEF Current
  <2>6. "CABLE" \notin ints' => h.vbus = port.vbus /\ Class(h.type) = Class(port.type)
                                /\ h.dock = port.dock
    BY <1>1, <1>3, <1>5 DEF Current, ReadVbus, ReadType, ReadDock
  <2>7. muic'.chgdet_rerun => h.vbus
    BY <2>2 DEF Rescan
  <2>8. h.vbus /\ h.dock /\ h.type = "none" => muic'.chgdet_rerun
    BY <2>2 DEF Rescan
  <2> QED BY <1>1, <2>1, <2>3, <2>4, <2>5, <2>6, <2>7, <2>8 DEF Current, ReadVbus
<1> QED BY <1>4, <1>5

\* The last cable set, all are as they were read.
LEMMA Current_detect_set ==
    ASSUME IInv, Current, detect_set
    PROVE  Current'
<1>1. /\ UNCHANGED <<muic, ints, port, faults>> /\ TypeOK /\ phase # "unbound"
      /\ h.vbus \in BOOLEAN /\ h.dock \in BOOLEAN /\ port \in PortType /\ h.type \in Types
  BY SetCable DEF IInv, TypeOK, HType, Locked, detect_set
<1>2. CASE faults # 0
  BY <1>1, <1>2 DEF Current
<1>3. CASE faults = 0 /\ h.pc # "USB"
  <2>1. /\ h'.pc \in SetDock /\ h.pc \in SetDock /\ h'.op = h.op /\ h'.op # "none"
        /\ phase' = phase /\ h'.vbus = h.vbus /\ h'.type = h.type /\ h'.dock = h.dock
        /\ "DOCK" \in extcon' <=> "DOCK" \in extcon
    BY <1>3, SetCable DEF SetDock, ReadVbus, ReadType, ReadDock, NextCable
  <2>2. SetDock \subseteq ReadVbus /\ SetDock \subseteq ReadType /\ SetDock \subseteq ReadDock
    BY DEF SetDock, ReadVbus, ReadType, ReadDock
  <2> QED BY <1>1, <1>3, <2>1, <2>2 DEF Current
<1>4. CASE faults = 0 /\ h.pc = "USB"
  <2>1. /\ h'.pc = "none" /\ h'.op = "none" /\ phase' # "unbound"
    BY <1>1, <1>4, SetCable, UnlockedType
  <2>2. "USB" \in SetDock /\ "USB" \in ReadVbus /\ "USB" \in ReadType /\ "USB" \in ReadDock
    BY DEF SetDock, ReadVbus, ReadType, ReadDock
  <2>3. muic.chgdet_rerun /\ ~port.vbus => "CABLE" \in ints
    BY <1>4, <2>2 DEF Current
  <2>4. ASSUME "CABLE" \notin ints
        PROVE  /\ h.vbus = port.vbus /\ Class(h.type) = Class(port.type) /\ h.dock = port.dock
               /\ h.vbus /\ h.dock /\ h.type = "none" => muic.chgdet_rerun
    BY <1>4, <2>2, <2>4 DEF Current
  <2>5. ASSUME "CABLE" \notin ints
        PROVE  extcon' \ {"FAST"} = Shown(port.vbus, Class(port.type), port.dock)
    <3>1. "DOCK" \in extcon' <=> h.dock
      BY <1>4, <2>2, SetCable DEF Current
    <3>2. /\ "SDP" \in extcon' <=> "SDP" \in Detected
          /\ "DCP" \in extcon' <=> "DCP" \in Detected
          /\ "CDP" \in extcon' <=> "CDP" \in Detected
          /\ "USB" \in extcon' <=> "USB" \in Detected
      BY <1>4, SetCable DEF IInv, Coherent
    <3>3. /\ "SDP" \in Detected <=> h.vbus /\ Class(h.type) = "SDP"
          /\ "CDP" \in Detected <=> h.vbus /\ Class(h.type) = "CDP"
          /\ "DCP" \in Detected <=> h.vbus /\ Class(h.type) = "DCP"
          /\ "USB" \in Detected <=> h.vbus /\ Class(h.type) \in {"SDP", "CDP"}
      BY DEF Detected, Class
    <3>4. extcon' \subseteq Cables
      BY SetCable
    <3> DEFINE t == Class(h.type)
    <3>5. extcon' \ {"FAST"} = Shown(h.vbus, t, h.dock)
      <4> HIDE DEF t
      <4>1. /\ "SDP" \in Shown(h.vbus, t, h.dock) <=> h.vbus /\ t = "SDP"
            /\ "CDP" \in Shown(h.vbus, t, h.dock) <=> h.vbus /\ t = "CDP"
            /\ "DCP" \in Shown(h.vbus, t, h.dock) <=> h.vbus /\ t = "DCP"
            /\ "USB" \in Shown(h.vbus, t, h.dock) <=> h.vbus /\ t \in {"SDP", "CDP"}
            /\ "DOCK" \in Shown(h.vbus, t, h.dock) <=> h.dock
            /\ Shown(h.vbus, t, h.dock) \subseteq {"DOCK", "DCP", "SDP", "CDP", "USB"}
        BY DEF Shown
      <4>2. /\ "SDP" \in extcon' <=> h.vbus /\ t = "SDP"
            /\ "CDP" \in extcon' <=> h.vbus /\ t = "CDP"
            /\ "DCP" \in extcon' <=> h.vbus /\ t = "DCP"
            /\ "USB" \in extcon' <=> h.vbus /\ t \in {"SDP", "CDP"}
            /\ "DOCK" \in extcon' <=> h.dock
        BY <3>1, <3>2, <3>3 DEF t
      <4>3. extcon' \subseteq {"DOCK", "FAST", "SDP", "DCP", "CDP", "USB"}
        BY <3>4 DEF Cables
      <4> QED BY <4>1, <4>2, <4>3
    <3> QED BY <2>4, <2>5, <3>5
  <2>6. muic.chgdet_rerun /\ port.vbus /\ port.type = "none" => port.detecting
    BY <1>4 DEF Current
  <2>7. Class(h.type) = Class(port.type) /\ port.type = "none" => h.type = "none"
    BY DEF Class
  <2>8. h'.pc \notin ReadVbus
    BY <2>1 DEF ReadVbus
  <2> QED BY <1>1, <2>1, <2>3, <2>4, <2>5, <2>6, <2>7, <2>8
          DEF Current, ReadType, ReadDock, SetDock
<1> QED BY <1>2, <1>3, <1>4

\* Operations begin, and the driver is bound and unbound.
LEMMA Current_begin ==
    ASSUME IInv, Current, irq_read \/ (\E b \in BOOLEAN : hold_5v(b)) \/ probe
                          \/ probe_detect \/ unbind
    PROVE  Current'
<1>1. /\ TypeOK /\ muic \in MuicType /\ port' = port /\ Unlocked \in HType
      /\ "vbus" \notin ReadVbus /\ "none" \notin ReadVbus /\ SetDock \subseteq ReadVbus
      /\ ReadType \subseteq ReadVbus /\ ReadDock \subseteq ReadVbus
  BY UnlockedType
     DEF IInv, TypeOK, irq_read, hold_5v, probe, probe_detect, unbind, ReadVbus, ReadType,
         ReadDock, SetDock
<1>2. CASE irq_read
  <2>1. PICK ok \in BOOLEAN :
            /\ Transfer(ok)
            /\ h' = IF ~ok THEN h
                    ELSE [Unlocked EXCEPT !.op = "irq", !.int3 = ints \intersect Int3,
                                          !.pc = IF Afc THEN "afc" ELSE "vbus"]
    BY <1>2 DEF irq_read
  <2>2. faults' = 0 => faults = 0 /\ ok
    BY <1>1, <2>1, TransferFaults
  <2>3. ok => h'.op = "irq" /\ h'.pc \notin ReadVbus
    BY <1>1, <2>1 DEF HType, ReadVbus
  <2> QED BY <1>1, <1>2, <2>2, <2>3 DEF Current, irq_read
<1>3. CASE \E b \in BOOLEAN : hold_5v(b)
  <2>1. PICK b \in BOOLEAN : hold_5v(b)
    BY <1>3
  <2>2. h'.op = "hold" /\ h'.pc \notin ReadVbus
    BY <1>1, <2>1 DEF hold_5v, HType, ReadVbus
  <2>3. muic'.chgdet_rerun = muic.chgdet_rerun /\ phase' # "unbound" /\ faults' = faults
    BY <1>1, <2>1 DEF hold_5v, MuicType
  <2> QED BY <1>1, <2>2, <2>3 DEF Current
<1>4. CASE probe
  <2>1. h'.pc = "none" /\ phase' = "probing" /\ ~muic'.chgdet_rerun
    BY <1>4 DEF probe, IInv, Locked, ZeroMuic
  <2> QED BY <1>1, <2>1 DEF Current
<1>5. CASE probe_detect
  <2>1. /\ h'.op = "probe" /\ h'.pc \notin ReadVbus /\ phase' = "probing"
        /\ UNCHANGED <<muic, faults>>
    BY <1>1, <1>5 DEF probe_detect, HType
  <2> QED BY <1>1, <2>1 DEF Current
<1>6. CASE unbind
  <2>1. h'.pc = "none" /\ phase' = "unbound" /\ muic' = ZeroMuic /\ ~muic'.chgdet_rerun
    BY <1>6 DEF unbind, IInv, Locked, ZeroMuic
  <2> QED BY <1>1, <2>1 DEF Current
<1> QED BY <1>2, <1>3, <1>4, <1>5, <1>6

\* Every step keeps Current, as long as a detach is handled before the next attach.
LEMMA CurrentStep ==
    ASSUME ~Replug, IInv, Current, [Next]_vars
    PROVE  Current'
<1>1. CASE detect
  BY <1>1, Current_detect_read, Current_detect_state, Current_detect_set DEF detect
<1>2. CASE irq
  BY <1>2, Current_begin, Inv_afc, Inv_afc_start, Inv_afc_accepted, Inv_afc_vbus_update,
     Inv_afc_error, Inv_int3_done DEF irq
<1>3. CASE hold
  BY <1>3, Current_begin, Inv_release, Inv_afc_drop, Inv_afc_drop_reset, Inv_afc_drop_poll
     DEF hold
<1>4. CASE probe \/ probe_detect \/ unbind
  BY <1>4, Current_begin
<1>5. CASE connector
  BY <1>5, Current_connector
<1>6. CASE UNCHANGED vars
  BY <1>6, CurrentSame DEF vars
<1> QED BY <1>1, <1>2, <1>3, <1>4, <1>5, <1>6 DEF Next

\* Before probe() nothing is read.
LEMMA CurrentInit == ASSUME Init PROVE Current
<1>1. PICK kind \in BootChargers, d \in Docks : port \in Plugged(kind, d)
  BY DEF Init
<1>2. muic = ZeroMuic /\ ~muic.chgdet_rerun /\ h.pc = "none" /\ phase = "unbound"
  BY UnlockedType DEF Init, ZeroMuic
<1> QED BY <1>2 DEF Current, ReadVbus, ReadType, ReadDock, SetDock

-----------------------------------------------------------------------------
(* The voltage *)

\* A charger follows what it agreed to within the driver's retries, the hold is
\* not released before the interrupt of its own measurement is handled, and no
\* new cable comes before the old one's detach is.
Timely == ~QuickRelease /\ ~Replug /\ MaxSlow <= SM5705_MUIC_AFC_RETRIES

\* An interrupt is pending, or the handler that has read it will look at it; and
\* only one of the two.
live(i) == i \in ints \/ (h.pc \in {"afc", "int3"} /\ i \in h.int3)
once(i) == ~(i \in ints /\ h.pc \in {"afc", "int3"} /\ i \in h.int3)

\* 9 V may be asked for: there is no hold, or it has yet to reset the charger.
Free == muic.hold_5v => h.pc \in {"drop", "reset"}

\* There is or was something to negotiate with the charger.
Engaged ==
    \/ live("AFC_TA_ATTACHED") \/ live("AFC_ACCEPTED") \/ live("VBUS_UPDATE")
    \/ live("AFC_ERROR") \/ muic.afc_ta \/ muic.afc_9v \/ cntl # {} \/ port.asked
    \/ port.agreed \/ port.volt = 9

\* Without AFC, a driver or a charger nothing raises VBUS.
Powerless ==
    /\ ~Afc => ~port.ta /\ ~Engaged
    /\ phase = "unbound" => muic = ZeroMuic /\ cntl = {} /\ ~port.asked /\ ~port.agreed
                            /\ port.volt = 5
    /\ ~port.vbus => ~port.asked /\ ~port.agreed /\ port.volt = 5 /\ ~port.ta
    /\ port.ta => port.charger \in {"AFC", "QC20"}

\* What a charger leaves behind is cleared by the handler of its detach.
Cleared ==
    /\ phase # "unbound" /\ ~port.vbus /\ "CABLE" \notin ints =>
         \/ h.pc = "afc"
         \/ cntl = {} /\ \/ h.pc \in {"vbus", "type", "adc", "DOCK"}
                         \/ ~muic.afc_9v /\ ~muic.afc_ta
    /\ h.pc = "int3" /\ ~port.vbus => "CABLE" \in ints
    /\ h.pc \in ReadVbus /\ ~h.vbus => ~port.vbus

\* Only a charger that has answered the ping is talked to, and first when its
\* answer is handled.
Pinged ==
    phase # "unbound" /\ port.vbus =>
      /\ Engaged => port.type = port.charger /\ port.charger \in {"AFC", "QC20"} /\ ~port.ta
      /\ live("AFC_TA_ATTACHED") =>
           /\ ~live("AFC_ACCEPTED") /\ ~live("VBUS_UPDATE") /\ ~live("AFC_ERROR")
           /\ cntl = {} /\ ~port.asked /\ ~port.agreed /\ port.volt = 5 /\ ~muic.afc_9v
           /\ once("AFC_TA_ATTACHED")
           /\ "AFC_TA_ATTACHED" \in ints => ~muic.afc_ta
           /\ h.pc = "int3" /\ "AFC_TA_ATTACHED" \in h.int3 => muic.afc_ta
      /\ port.asked \/ port.agreed \/ port.volt = 9 \/ cntl # {} => muic.afc_ta

\* A negotiation is at one stage: asked, answered, refused, or measured.  What a
\* charger has agreed to is there before the retries are used up.
Stages ==
    /\ port.asked => /\ ~port.agreed /\ cntl = {"ENAFC"} /\ muic.vbus_retries = 0 /\ txd9
                     /\ ~live("AFC_ACCEPTED") /\ ~live("VBUS_UPDATE") /\ ~live("AFC_ERROR")
    /\ phase # "unbound" /\ Free /\ port.vbus =>
         /\ live("AFC_ACCEPTED") =>
              /\ ~live("VBUS_UPDATE") /\ ~live("AFC_ERROR") /\ once("AFC_ACCEPTED")
              /\ cntl = {"ENAFC"} /\ muic.vbus_retries = 0 /\ txd9
              /\ port.slow <= SM5705_MUIC_AFC_RETRIES /\ port.charger = "AFC"
         /\ live("AFC_ERROR") =>
              /\ ~live("VBUS_UPDATE") /\ once("AFC_ERROR")
              /\ cntl = {"ENAFC"} /\ muic.vbus_retries = 0 /\ txd9 /\ ~port.agreed
         /\ live("VBUS_UPDATE") =>
              /\ once("VBUS_UPDATE") /\ cntl # {} /\ txd9 /\ (vst9 => port.agreed)
              /\ port.agreed /\ ~vst9 =>
                    port.slow + muic.vbus_retries < SM5705_MUIC_AFC_RETRIES

\* hold_5v() has returned, or will return, an error.
Failing ==
    IF h.op = "hold" THEN (h.pc = "poll" /\ vst9) \/ (h.pc \in DetectPc /\ ~h.ok) ELSE ~ret

\* The hold ends what was negotiated.  Only a charger it could not bring down in
\* time is at 9 V without having agreed, until it is asked again.
Ended ==
    /\ ~Free => /\ ~port.asked /\ ~port.agreed /\ cntl = {} /\ ~muic.afc_9v
                /\ port.vbus /\ ("AFC_ACCEPTED" \in ints \/ "AFC_ERROR" \in ints) =>
                      "VBUS_UPDATE" \in ints
    /\ port.volt = 9 /\ ~port.agreed =>
         \/ port.asked
         \/ muic.afc_ta /\ (h.pc = "release" \/ (muic.hold_5v /\ Failing))
    /\ h.pc = "release" =>
         /\ ~muic.hold_5v /\ ~port.asked /\ ~port.agreed /\ cntl = {} /\ ~muic.afc_9v
         /\ port.vbus => ~live("AFC_ACCEPTED") /\ ~live("VBUS_UPDATE") /\ ~live("AFC_ERROR")
    /\ h.pc \in {"drop", "reset", "poll"} => muic.hold_5v
    /\ h.pc = "reset" /\ port.vbus => muic.afc_9v \/ cntl # {}

\* A charger that has agreed is known to be at 9 V, or will be.
Supplied ==
    /\ port.agreed => muic.afc_9v \/ live("AFC_ACCEPTED") \/ live("VBUS_UPDATE")
    /\ muic.afc_9v /\ port.vbus =>
         /\ port.agreed
         /\ ~live("AFC_TA_ATTACHED") /\ ~live("AFC_ACCEPTED") /\ ~live("VBUS_UPDATE")
         /\ ~live("AFC_ERROR")

\* FAST is what the driver knows.
Reported ==
    phase = "bound" /\ h.op = "none" /\ "CABLE" \notin ints =>
      ("FAST" \in extcon <=> muic.afc_9v /\ port.vbus)

Volts == Powerless /\ Cleared /\ Pinged /\ Stages /\ Ended /\ Supplied /\ Reported

-----------------------------------------------------------------------------
(* Every action keeps Volts while nothing fails and the driver stays bound *)

\* What the parts are about has the types they assume.
LEMMA VoltTypes ==
    ASSUME IInv
    PROVE  /\ muic \in MuicType /\ h \in HType /\ port \in PortType
           /\ muic.afc_9v \in BOOLEAN /\ muic.afc_ta \in BOOLEAN /\ muic.hold_5v \in BOOLEAN
           /\ muic.vbus_retries \in Nat /\ muic.afc_retries \in Nat
           /\ port.vbus \in BOOLEAN /\ port.asked \in BOOLEAN /\ port.agreed \in BOOLEAN
           /\ port.ta \in BOOLEAN /\ port.slow \in Nat /\ port.volt \in {5, 9}
           /\ port.charger \in Types /\ port.type \in Types /\ port.refuses \in BOOLEAN
           /\ h.vbus \in BOOLEAN /\ h.ok \in BOOLEAN /\ h.int3 \subseteq Int3
           /\ vst9 \in BOOLEAN /\ txd9 \in BOOLEAN /\ ret \in BOOLEAN
           /\ phase \in {"unbound", "probing", "bound"}
           /\ h.op \in Ops /\ (h.op = "none" <=> h.pc = "none")
<1>1. muic \in MuicType /\ h \in HType /\ port \in PortType
  BY DEF IInv, TypeOK
<1>2. /\ muic.afc_9v \in BOOLEAN /\ muic.afc_ta \in BOOLEAN /\ muic.hold_5v \in BOOLEAN
      /\ muic.vbus_retries \in Nat /\ muic.afc_retries \in Nat
  BY <1>1 DEF MuicType
<1>3. /\ port.vbus \in BOOLEAN /\ port.asked \in BOOLEAN /\ port.agreed \in BOOLEAN
      /\ port.ta \in BOOLEAN /\ port.slow \in Nat /\ port.volt \in {5, 9}
      /\ port.charger \in Types /\ port.type \in Types /\ port.refuses \in BOOLEAN
  BY <1>1 DEF PortType
<1>4. /\ h.vbus \in BOOLEAN /\ h.ok \in BOOLEAN /\ h.int3 \subseteq Int3 /\ h.op \in Ops
  BY <1>1 DEF HType
<1> QED BY <1>1, <1>2, <1>3, <1>4 DEF IInv, TypeOK, Locked

\* A register is read.
LEMMA Volts_detect_read ==
    ASSUME IInv, Volts, faults = 0, detect_read, faults' = 0
    PROVE  Volts'
<1>1. /\ UNCHANGED <<muic, extcon, cntl, txd9, vst9, ints, port>>
      /\ h.pc \in {"vbus", "type", "adc"} /\ h.op # "none" /\ h \in HType /\ TypeOK
      /\ h \in HType
  BY VoltTypes DEF IInv, detect_read
<1>2. PICK ok \in BOOLEAN :
          /\ Transfer(ok)
          /\ ok => /\ UNCHANGED <<ret, phase>>
                   /\ \/ h.pc = "vbus" /\ h' = [h EXCEPT !.vbus = port.vbus, !.pc = "type"]
                      \/ h.pc = "type" /\ h' = [h EXCEPT !.type = port.type, !.pc = "adc"]
                      \/ h.pc = "adc" /\ h' = [h EXCEPT !.dock = port.dock, !.pc = "DOCK"]
  BY DEF detect_read
<1>3. ok
  BY <1>1, <1>2, TransferFaults
<1>4. /\ h'.op = h.op /\ h'.ok = h.ok /\ UNCHANGED <<ret, phase>>
      /\ \/ h.pc = "vbus" /\ h'.pc = "type" /\ h'.vbus = port.vbus
         \/ h.pc = "type" /\ h'.pc = "adc" /\ h'.vbus = h.vbus
         \/ h.pc = "adc" /\ h'.pc = "DOCK" /\ h'.vbus = h.vbus
  BY <1>1, <1>2, <1>3 DEF HType
<1>5. /\ \A i : live(i)' <=> live(i)
      /\ \A i : once(i)' <=> once(i)
      /\ Free' <=> Free
  BY <1>1, <1>4 DEF live, once, Free
<1>6. Engaged' <=> Engaged
  BY <1>1, <1>5 DEF Engaged
<1>7. Powerless'
  BY <1>1, <1>4, <1>6 DEF Volts, Powerless
<1>8. Cleared'
  BY <1>1, <1>4 DEF Volts, Cleared, ReadVbus
<1>9. Pinged'
  BY <1>1, <1>4, <1>5, <1>6 DEF Volts, Pinged
<1>10. Stages'
  BY <1>1, <1>4, <1>5 DEF Volts, Stages
<1>11. Ended'
  BY <1>1, <1>4, <1>5 DEF Volts, Ended, Failing, DetectPc
<1>12. Supplied'
  BY <1>1, <1>5 DEF Volts, Supplied
<1>13. Reported'
  BY <1>1, <1>4 DEF Reported
<1> QED BY <1>7, <1>8, <1>9, <1>10, <1>11, <1>12, <1>13 DEF Volts

\* The read value is of the cable that is there: what it left goes with it.
LEMMA Volts_detect_state ==
    ASSUME IInv, Current, Volts, faults = 0, detect_state, faults' = 0
    PROVE  Volts'
<1>1. /\ UNCHANGED <<phase, ret, cntl, txd9, vst9, ints>> /\ h.pc = "DOCK" /\ h.op # "none"
      /\ phase # "unbound"
  BY VoltTypes DEF IInv, Locked, detect_state
<1>2. /\ h'.op = h.op /\ h'.ok = h.ok /\ h'.pc = "FAST" /\ h'.vbus = h.vbus
  BY VoltTypes DEF HType, detect_state
<1>3. /\ muic'.afc_9v <=> muic.afc_9v /\ h.vbus
      /\ muic'.afc_ta <=> muic.afc_ta /\ h.vbus
      /\ muic'.hold_5v = muic.hold_5v /\ muic'.vbus_retries = muic.vbus_retries
  BY VoltTypes DEF MuicType, detect_state
<1>4. \/ port' = [port EXCEPT !.detecting = port.vbus]
      \/ port' = port
  BY DEF detect_state
<1>5. /\ port'.vbus = port.vbus /\ port'.asked = port.asked /\ port'.agreed = port.agreed
      /\ port'.ta = port.ta /\ port'.slow = port.slow /\ port'.volt = port.volt
      /\ port'.charger = port.charger /\ port'.type = port.type
  BY <1>4, VoltTypes DEF PortType
<1>6. "CABLE" \notin ints => h.vbus = port.vbus
  BY <1>1 DEF Current, ReadVbus
<1>7. /\ \A i : live(i)' <=> live(i)
      /\ \A i : once(i)' <=> once(i)
      /\ Free' <=> Free
  BY <1>1, <1>2, <1>3 DEF live, once, Free
<1>8. h.vbus \/ ~port.vbus
  BY <1>1, <1>6 DEF Volts, Cleared, ReadVbus
<1>9. /\ Engaged' => Engaged
      /\ port.vbus => (muic'.afc_9v <=> muic.afc_9v) /\ (muic'.afc_ta <=> muic.afc_ta)
  <2>1. Engaged' => Engaged
    BY <1>1, <1>3, <1>5, <1>7 DEF Engaged
  <2> QED BY <1>3, <1>8, <2>1
<1>10. Powerless'
  BY <1>1, <1>5, <1>9 DEF Volts, Powerless
<1>11. Cleared'
  BY <1>1, <1>2, <1>3, <1>5, <1>6, <1>8 DEF Volts, Cleared, ReadVbus
<1>12. Pinged'
  BY <1>1, <1>2, <1>3, <1>5, <1>7, <1>8, <1>9 DEF Volts, Pinged
<1>13. Stages'
  BY <1>1, <1>3, <1>5, <1>7 DEF Volts, Stages
<1>14. Ended'
  BY <1>1, <1>2, <1>3, <1>5, <1>7, <1>9 DEF Volts, Powerless, Ended, Failing, DetectPc
<1>15. Supplied'
  BY <1>1, <1>3, <1>5, <1>7, <1>9 DEF Volts, Powerless, Supplied
<1>16. Reported'
  BY <1>1, <1>2 DEF Reported
<1> QED BY <1>10, <1>11, <1>12, <1>13, <1>14, <1>15, <1>16 DEF Volts

\* A cable is set, the last one before the lock is given back.
LEMMA Volts_detect_set ==
    ASSUME IInv, Current, Volts, faults = 0, detect_set
    PROVE  Volts'
<1>1. /\ UNCHANGED <<muic, cntl, txd9, vst9, ints, port>> /\ phase # "unbound"
      /\ h.pc \in {"FAST", "SDP", "DCP", "CDP", "USB"} /\ h.op # "none"
  BY VoltTypes DEF IInv, Locked, detect_set
<1>2. \/ /\ h.pc = "USB" /\ h'.pc = "none" /\ h'.op = "none" /\ h'.int3 = {}
         /\ ret' = (IF h.op = "hold" THEN h.ok ELSE ret)
         /\ phase' = (IF h.op # "probe" THEN phase ELSE "bound")
      \/ /\ h.pc # "USB" /\ h'.pc \in {"SDP", "DCP", "CDP", "USB"} /\ h'.op = h.op
         /\ h'.vbus = h.vbus /\ h'.ok = h.ok
         /\ UNCHANGED <<phase, ret>>
  <2>1. CASE h.pc = "USB"
    BY <2>1, UnlockedType DEF detect_set, Return
  <2>2. CASE h.pc # "USB"
    <3>1. h' = [h EXCEPT !.pc = NextCable[h.pc]] /\ UNCHANGED <<phase, ret>>
      BY <2>2 DEF detect_set
    <3>2. NextCable[h.pc] \in {"SDP", "DCP", "CDP", "USB"}
      BY <1>1, <2>2 DEF NextCable
    <3> QED BY <2>2, <3>1, <3>2, VoltTypes DEF HType
  <2> QED BY <2>1, <2>2
<1>3. /\ \A i : live(i)' <=> live(i)
      /\ \A i : once(i)' <=> once(i)
      /\ Free' <=> Free
      /\ phase' # "unbound"
  BY <1>1, <1>2 DEF live, once, Free
<1>4. Engaged' <=> Engaged
  BY <1>1, <1>3 DEF Engaged
<1>5. Powerless'
  BY <1>1, <1>3, <1>4 DEF Volts, Powerless
<1>6. Cleared'
  BY <1>1, <1>2 DEF Volts, Cleared, ReadVbus
<1>7. Pinged'
  BY <1>1, <1>2, <1>3, <1>4 DEF Volts, Pinged
<1>8. Stages'
  BY <1>1, <1>3 DEF Volts, Stages
<1>9. Ended'
  BY <1>1, <1>2, <1>3, VoltTypes DEF Volts, Ended, Failing, DetectPc
<1>10. Supplied'
  BY <1>1, <1>3 DEF Volts, Supplied
<1>11. Reported'
  <2> SUFFICES ASSUME h.pc = "USB", "CABLE" \notin ints
               PROVE  "FAST" \in extcon' <=> muic.afc_9v /\ port.vbus
    BY <1>1, <1>2 DEF Reported
  <2>1. h.vbus = port.vbus /\ Class(h.type) = Class(port.type)
    BY DEF Current, ReadVbus, ReadType
  <2>2. "FAST" \in extcon' <=> "FAST" \in Detected
    BY SetCable DEF IInv, Coherent
  <2>3. "FAST" \in Detected <=> h.vbus /\ Class(h.type) = "DCP" /\ muic.afc_9v
    BY DEF Detected, Class
  <2>4. muic.afc_9v /\ port.vbus => Class(port.type) = "DCP"
    BY <1>1 DEF Volts, Pinged, Engaged, Class
  <2> QED BY <2>1, <2>2, <2>3, <2>4
<1> QED BY <1>5, <1>6, <1>7, <1>8, <1>9, <1>10, <1>11 DEF Volts

\* The interrupts are read: the handler has them now.
LEMMA Volts_irq_read ==
    ASSUME IInv, Volts, faults = 0, irq_read, faults' = 0
    PROVE  Volts'
<1>1. /\ UNCHANGED <<phase, muic, extcon, ret, cntl, txd9, vst9, port>> /\ phase # "unbound"
      /\ h.op = "none" /\ h.pc = "none"
  BY VoltTypes DEF irq_read
<1>2. PICK ok \in BOOLEAN :
          /\ Transfer(ok)
          /\ h' = IF ~ok THEN h
                  ELSE [Unlocked EXCEPT !.op = "irq", !.int3 = ints \intersect Int3,
                                        !.pc = IF Afc THEN "afc" ELSE "vbus"]
          /\ ints' = IF ok THEN {} ELSE ints
  BY DEF irq_read
<1>3. ok
  BY <1>2, TransferFaults DEF IInv
<1>4. /\ h'.op = "irq" /\ h'.int3 = ints \intersect Int3 /\ ints' = {}
      /\ h'.pc = IF Afc THEN "afc" ELSE "vbus"
  BY <1>2, <1>3, UnlockedType DEF HType
<1>5. /\ Afc => \A i \in Int3 : live(i)' <=> live(i)
      /\ \A i : live(i)' => live(i)
      /\ \A i : once(i)'
      /\ Free' <=> Free
  BY <1>1, <1>4 DEF live, once, Free
<1>6. /\ ~Afc => ~Engaged /\ ~Engaged'
      /\ Afc => (Engaged' <=> Engaged)
  BY <1>1, <1>5 DEF Volts, Powerless, Engaged, Int3
<1>7. Powerless'
  BY <1>1, <1>6 DEF Volts, Powerless
<1>8. Cleared'
  BY <1>1, <1>4, <1>6, VoltTypes DEF Volts, Powerless, Engaged, Cleared, ReadVbus
<1>9. Pinged'
  BY <1>1, <1>4, <1>5, <1>6 DEF Volts, Pinged, Engaged, Int3
<1>10. Stages'
  BY <1>1, <1>4, <1>5, <1>6 DEF Volts, Stages, Engaged, Int3
<1>11. Ended'
  BY <1>1, <1>4, <1>5, <1>6 DEF Volts, Ended, Failing, DetectPc, Engaged, Int3
<1>12. Supplied'
  BY <1>1, <1>4, <1>5, <1>6 DEF Volts, Supplied, Engaged, Int3
<1>13. Reported'
  BY <1>4 DEF Reported
<1> QED BY <1>7, <1>8, <1>9, <1>10, <1>11, <1>12, <1>13 DEF Volts

\* A request under way ends, in flat terms.
LEMMA StoppedFields ==
    ASSUME NEW p \in PortType
    PROVE  /\ ~Stopped(p).asked /\ (Stopped(p).agreed <=> p.agreed /\ "ENQC20" \notin cntl)
           /\ Stopped(p).volt = IF "ENQC20" \in cntl THEN 5 ELSE p.volt
           /\ Stopped(p).ta = p.ta /\ Stopped(p).slow = p.slow
           /\ Stopped(p).vbus = p.vbus /\ Stopped(p).charger = p.charger
           /\ Stopped(p).type = p.type
  BY DEF Stopped, PortType

\* Without VBUS AFC ends; with it the charger's answer is noted.
LEMMA Volts_afc ==
    ASSUME IInv, Volts, faults = 0, afc, faults' = 0
    PROVE  Volts'
<1>1. /\ UNCHANGED <<phase, extcon, ret, txd9, vst9, ints>> /\ h.pc = "afc" /\ h.op = "irq"
      /\ phase # "unbound"
  BY VoltTypes DEF IInv, Locked, Ops, DetectPc, afc
<1>2. Afc
  BY <1>1 DEF IInv, Locked
<1>3. CASE ~port.vbus
  <2>1. /\ afc_stop(muic) /\ h' = [h EXCEPT !.pc = "vbus"]
    BY <1>3 DEF afc
  <2>2. PICK ok \in BOOLEAN : Transfer(ok) /\ cntl' = (IF ok THEN {} ELSE cntl)
                              /\ port' = IF ok THEN Stopped(port) ELSE port
    BY <2>1 DEF afc_stop
  <2>3. cntl' = {} /\ port' = Stopped(port)
    BY <2>2, TransferFaults DEF IInv
  <2>4. /\ h'.op = h.op /\ h'.ok = h.ok /\ h'.pc = "vbus"
        /\ muic'.afc_9v = muic.afc_9v /\ muic'.afc_ta = muic.afc_ta
        /\ muic'.hold_5v = muic.hold_5v /\ muic'.vbus_retries = muic.vbus_retries
    <3>1. muic' = [muic EXCEPT !.qc20 = FALSE]
      BY <2>1 DEF afc_stop
    <3>2. /\ h'.op = h.op /\ h'.ok = h.ok /\ h'.pc = "vbus"
      BY <2>1, VoltTypes DEF HType
    <3> QED BY <3>1, <3>2, VoltTypes DEF MuicType
  <2>5. /\ ~port.asked /\ ~port.agreed /\ port.volt = 5 /\ ~port.ta
    BY <1>3 DEF Volts, Powerless
  <2>6. /\ ~port'.asked /\ ~port'.agreed /\ port'.volt = 5 /\ ~port'.ta /\ ~port'.vbus
    BY <1>3, <2>3, <2>5, StoppedFields, VoltTypes
  <2>7. \A i : (live(i)' <=> i \in ints) /\ once(i)'
    BY <1>1, <2>4 DEF live, once
  <2>8. Free' => ~muic.hold_5v
    BY <2>4 DEF Free
  <2>9. Powerless' /\ Cleared' /\ Pinged'
    BY <1>1, <1>2, <2>3, <2>4, <2>6 DEF Powerless, Cleared, Pinged, ReadVbus
  <2>10. Stages'
    BY <2>6 DEF Stages
  <2>11. Ended'
    BY <1>1, <2>3, <2>4, <2>6, <2>8 DEF Volts, Ended, Free
  <2>12. Supplied' /\ Reported'
    BY <1>1, <2>4, <2>6 DEF Supplied, Reported
  <2> QED BY <2>9, <2>10, <2>11, <2>12 DEF Volts
<1>4. CASE port.vbus
  <2>1. /\ muic' = [muic EXCEPT !.afc_ta = muic.afc_ta \/ "AFC_TA_ATTACHED" \in h.int3]
        /\ h' = [h EXCEPT !.pc = IF muic.hold_5v THEN "vbus" ELSE "int3"]
        /\ UNCHANGED <<cntl, port>>
    BY <1>4, TransferFaults DEF afc, IInv
  <2>2. /\ h'.op = h.op /\ h'.ok = h.ok /\ h'.int3 = h.int3
        /\ h'.pc = IF muic.hold_5v THEN "vbus" ELSE "int3"
    BY <2>1, VoltTypes DEF HType
  <2>3. /\ muic'.afc_9v = muic.afc_9v
        /\ muic'.afc_ta <=> muic.afc_ta \/ "AFC_TA_ATTACHED" \in h.int3
        /\ muic'.hold_5v = muic.hold_5v /\ muic'.vbus_retries = muic.vbus_retries
    BY <2>1, VoltTypes DEF MuicType
  <2>4. /\ ~muic.hold_5v => \A i : (live(i)' <=> live(i)) /\ (once(i)' <=> once(i))
        /\ muic.hold_5v => \A i : (live(i)' <=> i \in ints) /\ once(i)'
        /\ \A i : live(i)' => live(i)
        /\ Free' <=> Free
        /\ Free <=> ~muic.hold_5v
    BY <1>1, <2>2, <2>3 DEF live, once, Free
  <2>5. Engaged' => Engaged
    <3>1. muic'.afc_ta => muic.afc_ta \/ live("AFC_TA_ATTACHED")
      BY <1>1, <2>3 DEF live
    <3> QED BY <2>1, <2>3, <2>4, <3>1 DEF Engaged
  <2>6. Powerless'
    BY <1>1, <1>2, <1>4, <2>1 DEF Volts, Powerless
  <2>7. Cleared'
    BY <1>4, <2>1, <2>2 DEF Cleared, ReadVbus
  <2>8. Pinged'
    <3>1. Pinged
      BY DEF Volts
    <3>2. Engaged' => port'.type = port'.charger /\ port'.charger \in {"AFC", "QC20"} /\ ~port'.ta
      BY <1>1, <1>4, <2>1, <2>5, <3>1 DEF Pinged
    <3>3. (port.asked \/ port.agreed \/ port.volt = 9 \/ cntl # {}) => muic'.afc_ta
      BY <1>1, <1>4, <2>3, <3>1 DEF Pinged
    <3>4. ASSUME live("AFC_TA_ATTACHED")'
          PROVE  /\ ~live("AFC_ACCEPTED")' /\ ~live("VBUS_UPDATE")' /\ ~live("AFC_ERROR")'
                 /\ cntl = {} /\ ~port.asked /\ ~port.agreed /\ port.volt = 5 /\ ~muic.afc_9v
                 /\ once("AFC_TA_ATTACHED")'
      BY <1>1, <1>4, <2>4, <3>1, <3>4 DEF Pinged
    <3>5. ASSUME "AFC_TA_ATTACHED" \in ints PROVE ~muic'.afc_ta
      BY <1>1, <1>4, <2>3, <3>1, <3>5 DEF Pinged, live, once
    <3>6. h'.pc = "int3" /\ "AFC_TA_ATTACHED" \in h'.int3 => muic'.afc_ta
      BY <2>2, <2>3
    <3> QED BY <1>1, <2>1, <2>3, <3>2, <3>3, <3>4, <3>5, <3>6 DEF Pinged
  <2>9. Stages'
    BY <1>1, <2>1, <2>3, <2>4 DEF Volts, Stages
  <2>10. Ended'
    BY <1>1, <2>1, <2>2, <2>3, <2>4, VoltTypes DEF Volts, Ended, Failing, DetectPc
  <2>11. Supplied'
    BY <1>1, <2>1, <2>3, <2>4 DEF Volts, Supplied, Ended
  <2>12. Reported'
    BY <1>1, <2>2 DEF Reported
  <2> QED BY <2>6, <2>7, <2>8, <2>9, <2>10, <2>11, <2>12 DEF Volts
<1> QED BY <1>3, <1>4, VoltTypes

\* Nothing is left of the interrupt.
LEMMA Volts_int3_done ==
    ASSUME IInv, Volts, int3_done
    PROVE  Volts'
<1>1. /\ UNCHANGED <<phase, muic, extcon, ret, cntl, txd9, vst9, ints, port>>
      /\ h.pc = "int3" /\ h.int3 = {} /\ h.op = "irq"
  BY VoltTypes DEF IInv, Locked, Ops, DetectPc, int3_done
<1>2. /\ h'.op = h.op /\ h'.ok = h.ok /\ h'.int3 = {} /\ h'.pc = "vbus"
  BY <1>1, VoltTypes DEF HType, int3_done
<1>3. /\ \A i : (live(i)' <=> live(i)) /\ once(i)' /\ (Free' <=> Free)
  BY <1>1, <1>2 DEF live, once, Free
<1>4. Engaged' <=> Engaged
  BY <1>1, <1>3 DEF Engaged
<1>5. Powerless'
  BY <1>1, <1>4 DEF Volts, Powerless
<1>6. Cleared'
  BY <1>1, <1>2 DEF Volts, Cleared, ReadVbus
<1>7. Pinged'
  BY <1>1, <1>2, <1>3, <1>4 DEF Volts, Pinged
<1>8. Stages'
  BY <1>1, <1>3 DEF Volts, Stages
<1>9. Ended'
  BY <1>1, <1>2, <1>3 DEF Volts, Ended, Failing, DetectPc
<1>10. Supplied' /\ Reported'
  BY <1>1, <1>2, <1>3 DEF Volts, Supplied, Reported
<1> QED BY <1>5, <1>6, <1>7, <1>8, <1>9, <1>10 DEF Volts

\* An event is handled while AFC is on and nothing is held; what is still live
\* is what was, without it.
LEMMA AtEvent ==
    ASSUME IInv, Volts, NEW i, Event(i)
    PROVE  /\ h.pc = "int3" /\ i \in h.int3 /\ live(i) /\ Free /\ ~muic.hold_5v /\ Afc
           /\ phase # "unbound" /\ h.op = "irq"
           /\ h'.op = "irq" /\ h'.pc = "int3" /\ h'.int3 = h.int3 \ {i}
           /\ port.vbus \/ "CABLE" \in ints
           /\ ~port.vbus => port.type = "none" /\ ~port.asked /\ ~port.agreed /\ port.volt = 5
                            /\ ~port.ta
           /\ port.volt = 9 /\ ~port.agreed => port.asked
<1>1. h.pc = "int3" /\ i \in h.int3 /\ h' = [h EXCEPT !.int3 = h.int3 \ {i}]
  BY DEF Event
<1>2. Afc /\ phase # "unbound" /\ h.op = "irq" /\ ~muic.hold_5v
  BY <1>1, VoltTypes DEF IInv, Locked, Held, Ops, DetectPc
<1>3. live(i) /\ Free
  BY <1>1, <1>2 DEF live, Free
<1>4. /\ h'.op = "irq" /\ h'.pc = "int3" /\ h'.int3 = h.int3 \ {i}
  BY <1>1, <1>2, VoltTypes DEF HType
<1>5. port.vbus \/ "CABLE" \in ints
  BY <1>1 DEF Volts, Cleared
<1>6. ~port.vbus => port.type = "none" /\ ~port.asked /\ ~port.agreed /\ port.volt = 5
                    /\ ~port.ta
  BY VoltTypes DEF Volts, Powerless, IInv, Connected, Class
<1>7. port.volt = 9 /\ ~port.agreed => port.asked
  BY <1>1, <1>2 DEF Volts, Ended
<1> QED BY <1>1, <1>2, <1>3, <1>4, <1>5, <1>6, <1>7

\* What the handler of an event owes, in flat terms.
LEMMA AfterEvent ==
    ASSUME IInv, Volts, NEW i, Event(i), UNCHANGED <<phase, extcon, ret>>,
           muic'.hold_5v = muic.hold_5v,
           ints \subseteq ints',
           port'.vbus = port.vbus, port'.charger = port.charger, port'.type = port.type,
           port'.ta = port.ta,
           ~port.vbus => ~port'.asked /\ ~port'.agreed /\ port'.volt = 5,
           port.vbus => Pinged' /\ Stages' /\ Supplied' /\ (port'.volt = 9 /\ ~port'.agreed => port'.asked)
    PROVE  Volts'
<1>1. Powerless'
  BY AtEvent DEF Volts, Powerless
<1>2. Cleared'
  BY AtEvent DEF Cleared, ReadVbus
<1>3. Pinged' /\ Stages' /\ Supplied'
  BY VoltTypes DEF Pinged, Stages, Supplied
<1>4. Ended'
  <2>1. Free'
    BY AtEvent DEF Free
  <2> QED BY <2>1, AtEvent, VoltTypes DEF Ended
<1>5. Reported'
  BY AtEvent DEF Reported
<1> QED BY <1>1, <1>2, <1>3, <1>4, <1>5 DEF Volts

\* Without failures 9 V is asked for in one go.
LEMMA StartedFields ==
    ASSUME IInv, start_9v, faults' = 0
    PROVE  /\ muic'.afc_9v = muic.afc_9v /\ muic'.afc_ta = muic.afc_ta
           /\ muic'.hold_5v = muic.hold_5v /\ muic'.vbus_retries = 0
           /\ txd9' /\ cntl' = cntl \union {"ENAFC"} /\ (port'.asked <=> port.vbus)
           /\ port'.vbus = port.vbus /\ port'.charger = port.charger
           /\ port'.type = port.type /\ port'.ta = port.ta /\ port'.agreed = port.agreed
           /\ port'.slow = port.slow /\ port'.volt = port.volt
<1>1. PICK lost \in {{}, {"txd"}, {"cntl"}} :
         /\ Transfer(lost = {})
         /\ txd9' = (txd9 \/ "txd" \notin lost)
         /\ cntl' = IF "cntl" \in lost THEN cntl ELSE cntl \union {"ENAFC"}
         /\ port' = [port EXCEPT !.asked = port.vbus /\ "ENAFC" \in cntl']
  BY DEF start_9v
<1>2. lost = {}
  BY <1>1, TransferFaults DEF IInv
<1>3. txd9' /\ cntl' = cntl \union {"ENAFC"}
  BY <1>1, <1>2
<1>4. /\ port'.asked <=> port.vbus
      /\ port'.vbus = port.vbus /\ port'.charger = port.charger
      /\ port'.type = port.type /\ port'.ta = port.ta /\ port'.agreed = port.agreed
      /\ port'.slow = port.slow /\ port'.volt = port.volt
  BY <1>1, <1>3, VoltTypes DEF PortType
<1>5. muic' = [muic EXCEPT !.afc_retries = 0, !.vbus_retries = 0, !.qc20 = FALSE]
  BY DEF start_9v
<1>6. /\ muic'.afc_9v = muic.afc_9v /\ muic'.afc_ta = muic.afc_ta
      /\ muic'.hold_5v = muic.hold_5v /\ muic'.vbus_retries = 0
  BY <1>5, VoltTypes DEF MuicType
<1> QED BY <1>3, <1>4, <1>6

\* A charger that has answered is asked for 9 V.
LEMMA Volts_afc_start ==
    ASSUME IInv, Volts, faults = 0, afc_start, faults' = 0
    PROVE  Volts'
<1>1. /\ Event("AFC_TA_ATTACHED") /\ start_9v
      /\ UNCHANGED <<phase, extcon, ret, vst9, ints>>
  BY DEF afc_start
<1>2. h.pc = "int3" /\ "AFC_TA_ATTACHED" \in h.int3 /\ live("AFC_TA_ATTACHED")
      /\ phase # "unbound" /\ h'.pc = "int3" /\ h'.int3 = h.int3 \ {"AFC_TA_ATTACHED"}
      /\ (~port.vbus => ~port.asked /\ ~port.agreed /\ port.volt = 5)
  BY <1>1, AtEvent
<1>3. \A j \in {"AFC_ACCEPTED", "VBUS_UPDATE", "AFC_ERROR"} : live(j)' <=> live(j)
  BY <1>1, <1>2 DEF live
<1>4. ASSUME port.vbus PROVE Pinged' /\ Stages' /\ Supplied'
  <2>1. /\ Pinged
        /\ ~live("AFC_ACCEPTED") /\ ~live("VBUS_UPDATE") /\ ~live("AFC_ERROR")
        /\ cntl = {} /\ ~port.agreed /\ port.volt = 5 /\ ~muic.afc_9v
        /\ "AFC_TA_ATTACHED" \notin ints /\ muic.afc_ta
    BY <1>2, <1>4 DEF Volts, Pinged, once
  <2>2. ~live("AFC_TA_ATTACHED")'
    BY <1>1, <1>2, <2>1 DEF live
  <2>3. Pinged'
    BY <1>1, <1>2, <1>4, <2>1, <2>2, StartedFields DEF Pinged, Engaged
  <2>4. Stages' /\ Supplied'
    BY <1>1, <1>3, <2>1, StartedFields DEF Stages, Supplied
  <2> QED BY <2>3, <2>4
<1>5. port.vbus => (port'.volt = 9 /\ ~port'.agreed => port'.asked)
  BY <1>1, StartedFields
<1> QED BY <1>1, <1>2, <1>4, <1>5, AfterEvent, StartedFields

\* A measurement, in flat terms.
LEMMA MeasureFields ==
    ASSUME Afc, NEW p \in PortType, Measure(p)
    PROVE  /\ port'.vbus = p.vbus /\ port'.charger = p.charger /\ port'.type = p.type
           /\ port'.ta = p.ta /\ port'.asked = p.asked /\ port'.agreed = p.agreed
           /\ p.agreed /\ p.slow = 0 => port'.volt = 9
           /\ ~(p.agreed /\ p.slow = 0) => port'.volt = p.volt
           /\ ~(p.agreed /\ p.slow = 0) => port'.slow = IF p.slow > 0 THEN p.slow - 1 ELSE 0
           /\ vst9' <=> port'.volt = 9
           /\ \A i : i \in ints' <=> i \in ints \/ i = "VBUS_UPDATE"
<1>1. port' = Settling(p) /\ vst9' = (port'.volt = 9) /\ ints' = Raised({"VBUS_UPDATE"})
  BY DEF Measure
<1>2. \A i : i \in ints' <=> i \in ints \/ i = "VBUS_UPDATE"
  BY <1>1 DEF Raised
<1>3. CASE p.agreed /\ p.slow = 0
  <2>1. port' = [p EXCEPT !.volt = 9]
    BY <1>1, <1>3 DEF Settling
  <2> QED BY <1>1, <1>2, <1>3, <2>1 DEF PortType
<1>4. CASE ~(p.agreed /\ p.slow = 0)
  <2>1. port' = [p EXCEPT !.slow = IF p.slow > 0 THEN p.slow - 1 ELSE 0]
    BY <1>1, <1>4 DEF Settling
  <2> QED BY <1>1, <1>2, <1>4, <2>1 DEF PortType
<1> QED BY <1>3, <1>4

\* A measurement follows a charger's agreement, or the request ends.
LEMMA Volts_afc_accepted ==
    ASSUME Timely, IInv, Volts, faults = 0, afc_accepted, faults' = 0
    PROVE  Volts'
<1> DEFINE i == "AFC_ACCEPTED"
<1>1. /\ Event(i) /\ UNCHANGED <<phase, muic, extcon, ret, txd9>>
  BY DEF afc_accepted
<1>2. /\ h.pc = "int3" /\ i \in h.int3 /\ live(i) /\ Free /\ Afc /\ phase # "unbound"
      /\ h'.pc = "int3" /\ h'.int3 = h.int3 \ {i}
      /\ ~port.vbus => port.type = "none" /\ ~port.asked /\ ~port.agreed /\ port.volt = 5
      /\ port.volt = 9 /\ ~port.agreed => port.asked
  BY <1>1, AtEvent
<1>3. IF port.type = "AFC" THEN Measure(port) /\ UNCHANGED cntl
      ELSE /\ cntl' = cntl \ {"ENAFC"}
           /\ port' = [port EXCEPT !.asked = FALSE]
           /\ UNCHANGED <<vst9, ints>>
  BY TransferFaults DEF afc_accepted, IInv
<1>4. CASE ~port.vbus
  <2>1. /\ ints' = ints /\ port' = [port EXCEPT !.asked = FALSE]
    BY <1>2, <1>3, <1>4
  <2>2. /\ port'.vbus = port.vbus /\ port'.charger = port.charger /\ port'.type = port.type
        /\ port'.ta = port.ta /\ ~port'.asked /\ port'.agreed = port.agreed
        /\ port'.volt = port.volt
    BY <2>1, VoltTypes DEF PortType
  <2> QED BY <1>1, <1>2, <1>4, <2>1, <2>2, AfterEvent
<1>5. CASE port.vbus
  <2>1. /\ ~live("VBUS_UPDATE") /\ ~live("AFC_ERROR") /\ once(i)
        /\ cntl = {"ENAFC"} /\ muic.vbus_retries = 0 /\ txd9 /\ ~port.asked
        /\ port.slow <= SM5705_MUIC_AFC_RETRIES /\ port.charger = "AFC" /\ port.type = "AFC"
        /\ ~live("AFC_TA_ATTACHED") /\ ~muic.afc_9v
    BY <1>2, <1>5 DEF Volts, Stages, Pinged, Engaged, Supplied
  <2>2. Measure(port) /\ cntl' = cntl
    BY <1>3, <2>1
  <2>3. /\ port'.vbus = port.vbus /\ port'.charger = port.charger /\ port'.type = port.type
        /\ port'.ta = port.ta /\ ~port'.asked /\ port'.agreed = port.agreed
        /\ port.agreed /\ port.slow = 0 => port'.volt = 9
        /\ ~(port.agreed /\ port.slow = 0) => port'.volt = port.volt
        /\ port.slow > 0 => port'.slow = port.slow - 1 \/ (port.agreed /\ port'.volt = 9)
        /\ vst9' <=> port'.volt = 9
        /\ \A j : j \in ints' <=> j \in ints \/ j = "VBUS_UPDATE"
    BY <1>2, <2>1, <2>2, MeasureFields, VoltTypes
  <2>4. /\ live("VBUS_UPDATE")' /\ ~live("AFC_ERROR")' /\ ~live("AFC_ACCEPTED")'
        /\ ~live("AFC_TA_ATTACHED")' /\ once("VBUS_UPDATE")'
    BY <1>2, <2>1, <2>3 DEF live, once
  <2>5. vst9' => port'.agreed
    BY <1>2, <2>1, <2>3
  <2>6. port'.agreed /\ ~vst9' => port'.slow + muic.vbus_retries < SM5705_MUIC_AFC_RETRIES
    BY <2>1, <2>3, VoltTypes DEF SM5705_MUIC_AFC_RETRIES
  <2>7. Pinged'
    BY <1>1, <1>2, <1>5, <2>1, <2>2, <2>3, <2>4 DEF Volts, Pinged, Engaged
  <2>8. Stages' /\ Supplied'
    BY <1>1, <2>1, <2>2, <2>3, <2>4, <2>5, <2>6 DEF Stages, Supplied
  <2>9. port'.volt = 9 => port'.agreed
    BY <2>3, <2>5
  <2> QED BY <1>1, <1>5, <2>3, <2>7, <2>8, <2>9, AfterEvent
<1> QED BY <1>4, <1>5, VoltTypes

\* VBUS is at 9 V, or is measured again until the retries are used up.
LEMMA Volts_afc_vbus_update ==
    ASSUME IInv, Volts, faults = 0, afc_vbus_update, faults' = 0
    PROVE  Volts'
<1> DEFINE i == "VBUS_UPDATE"
           r == Capped(muic.vbus_retries + 1)
<1>1. /\ Event(i) /\ UNCHANGED <<phase, extcon, ret, txd9>>
  BY DEF afc_vbus_update
<1>2. /\ h.pc = "int3" /\ i \in h.int3 /\ live(i) /\ Free /\ Afc /\ phase # "unbound"
      /\ h'.pc = "int3" /\ h'.int3 = h.int3 \ {i}
      /\ ~port.vbus => port.type = "none" /\ ~port.asked /\ ~port.agreed /\ port.volt = 5
      /\ port.volt = 9 /\ ~port.agreed => port.asked
  BY <1>1, AtEvent
<1>3. r \in Nat /\ r <= muic.vbus_retries + 1
  BY VoltTypes DEF Capped, SM5705_MUIC_AFC_RETRIES
<1> HIDE DEF r
<1>4. ASSUME port.vbus
      PROVE  /\ ~live("AFC_ACCEPTED") /\ ~live("AFC_ERROR") /\ ~live("AFC_TA_ATTACHED")
             /\ "VBUS_UPDATE" \notin ints /\ cntl # {} /\ txd9 /\ (vst9 => port.agreed)
             /\ port.agreed /\ ~vst9 =>
                   port.slow + muic.vbus_retries < SM5705_MUIC_AFC_RETRIES
             /\ ~port.asked /\ ~muic.afc_9v /\ muic.afc_ta
             /\ port.type = port.charger /\ port.charger \in {"AFC", "QC20"} /\ ~port.ta
  BY <1>2, <1>4 DEF Volts, Stages, Supplied, Pinged, Engaged, once
<1>5. \/ /\ vst9 = txd9
         /\ muic' = [muic EXCEPT !.afc_9v = TRUE]
         /\ cntl' = cntl \ {"ENAFC"}
         /\ port' = [port EXCEPT !.asked = FALSE]
         /\ UNCHANGED <<vst9, ints>>
      \/ /\ vst9 # txd9
         /\ muic' = [muic EXCEPT !.vbus_retries = r]
         /\ Measure(port)
         /\ UNCHANGED cntl
      \/ /\ vst9 # txd9 /\ spent(muic.vbus_retries)
         /\ muic' = [muic EXCEPT !.vbus_retries = r, !.qc20 = FALSE]
         /\ cntl' = {} /\ port' = Stopped(port)
         /\ UNCHANGED <<vst9, ints>>
  BY TransferFaults DEF afc_vbus_update, IInv, r
<1>6. CASE /\ vst9 = txd9
           /\ muic' = [muic EXCEPT !.afc_9v = TRUE]
           /\ cntl' = cntl \ {"ENAFC"}
           /\ port' = [port EXCEPT !.asked = FALSE]
           /\ UNCHANGED <<vst9, ints>>
  <2>1. /\ port'.vbus = port.vbus /\ port'.charger = port.charger /\ port'.type = port.type
        /\ port'.ta = port.ta /\ ~port'.asked /\ port'.agreed = port.agreed
        /\ port'.volt = port.volt
    BY <1>6, VoltTypes DEF PortType
  <2>2. muic'.hold_5v = muic.hold_5v /\ muic'.afc_ta = muic.afc_ta /\ muic'.afc_9v
    BY <1>6, VoltTypes DEF MuicType
  <2>3. ASSUME port.vbus PROVE Pinged' /\ Stages' /\ Supplied' /\ port'.agreed
    <3>1. /\ ~live("VBUS_UPDATE")' /\ ~live("AFC_ERROR")' /\ ~live("AFC_ACCEPTED")'
          /\ ~live("AFC_TA_ATTACHED")'
      BY <1>2, <1>4, <1>6, <2>3 DEF live
    <3>2. port.agreed
      BY <1>4, <1>6, <2>3
    <3>3. Pinged'
      BY <1>4, <2>1, <2>2, <2>3, <3>1 DEF Pinged
    <3>4. Stages' /\ Supplied'
      BY <2>1, <2>2, <3>1, <3>2 DEF Stages, Supplied
    <3> QED BY <2>1, <3>2, <3>3, <3>4
  <2> QED BY <1>1, <1>2, <1>6, <2>1, <2>2, <2>3, AfterEvent
<1>7. CASE /\ vst9 # txd9
           /\ muic' = [muic EXCEPT !.vbus_retries = r]
           /\ Measure(port)
           /\ UNCHANGED cntl
  <2>1. /\ port'.vbus = port.vbus /\ port'.charger = port.charger /\ port'.type = port.type
        /\ port'.ta = port.ta /\ port'.asked = port.asked /\ port'.agreed = port.agreed
        /\ port.agreed /\ port.slow = 0 => port'.volt = 9
        /\ ~(port.agreed /\ port.slow = 0) => port'.volt = port.volt
        /\ port.slow > 0 => port'.slow = port.slow - 1 \/ (port.agreed /\ port'.volt = 9)
        /\ vst9' <=> port'.volt = 9
        /\ \A j : j \in ints' <=> j \in ints \/ j = "VBUS_UPDATE"
    BY <1>2, <1>7, MeasureFields, VoltTypes
  <2>2. /\ muic'.hold_5v = muic.hold_5v /\ muic'.afc_ta = muic.afc_ta
        /\ muic'.afc_9v = muic.afc_9v /\ muic'.vbus_retries = r
    BY <1>7, VoltTypes DEF MuicType
  <2>3. ASSUME port.vbus
        PROVE  Pinged' /\ Stages' /\ Supplied' /\ (port'.volt = 9 => port'.agreed)
    <3>1. /\ live("VBUS_UPDATE")' /\ ~live("AFC_ERROR")' /\ ~live("AFC_ACCEPTED")'
          /\ ~live("AFC_TA_ATTACHED")' /\ once("VBUS_UPDATE")'
      BY <1>2, <1>4, <2>1, <2>3 DEF live, once
    <3>2. port'.volt = 9 => port'.agreed
      BY <1>2, <1>4, <2>1, <2>3
    <3>3. ~vst9
      BY <1>4, <1>7, <2>3, VoltTypes
    <3>4. port'.agreed /\ ~vst9' => port'.slow + r < SM5705_MUIC_AFC_RETRIES
      BY <1>3, <1>4, <2>1, <2>3, <3>3, VoltTypes DEF SM5705_MUIC_AFC_RETRIES
    <3>5. Pinged'
      BY <1>4, <1>7, <2>1, <2>2, <2>3, <3>1 DEF Pinged
    <3>6. Stages' /\ Supplied'
      BY <1>1, <1>4, <1>7, <2>1, <2>2, <2>3, <3>1, <3>2, <3>4 DEF Stages, Supplied
    <3> QED BY <3>2, <3>5, <3>6
  <2> QED BY <1>1, <1>2, <2>1, <2>2, <2>3, AfterEvent
<1>8. CASE /\ vst9 # txd9 /\ spent(muic.vbus_retries)
           /\ muic' = [muic EXCEPT !.vbus_retries = r, !.qc20 = FALSE]
           /\ cntl' = {} /\ port' = Stopped(port)
           /\ UNCHANGED <<vst9, ints>>
  <2>1. /\ port'.vbus = port.vbus /\ port'.charger = port.charger /\ port'.type = port.type
        /\ port'.ta = port.ta /\ ~port'.asked /\ (port'.agreed => port.agreed)
        /\ port'.volt = 9 => port.volt = 9
        /\ port'.volt \in {5, 9}
    BY <1>8, StoppedFields, VoltTypes
  <2>2. /\ muic'.hold_5v = muic.hold_5v /\ muic'.afc_9v = muic.afc_9v
    BY <1>8, VoltTypes DEF MuicType
  <2>3. ASSUME port.vbus PROVE Pinged' /\ Stages' /\ Supplied' /\ port'.volt = 5
    <3>1. /\ ~live("VBUS_UPDATE")' /\ ~live("AFC_ERROR")' /\ ~live("AFC_ACCEPTED")'
          /\ ~live("AFC_TA_ATTACHED")'
      BY <1>2, <1>4, <1>8, <2>3 DEF live
    <3>2. ~port.agreed
      <4>1. ~vst9
        BY <1>4, <1>8, <2>3, VoltTypes
      <4>2. muic.vbus_retries >= SM5705_MUIC_AFC_RETRIES
        BY <1>8 DEF spent
      <4> QED BY <1>4, <2>3, <4>1, <4>2, VoltTypes DEF SM5705_MUIC_AFC_RETRIES
    <3>3. port'.volt = 5
      BY <1>2, <1>4, <2>1, <2>3, <3>2
    <3>4. Pinged'
      BY <1>4, <1>8, <2>1, <2>3, <3>1, <3>2, <3>3 DEF Pinged
    <3>5. Stages' /\ Supplied'
      BY <1>4, <2>1, <2>2, <2>3, <3>1, <3>2 DEF Stages, Supplied
    <3> QED BY <3>3, <3>4, <3>5
  <2> QED BY <1>1, <1>2, <1>8, <2>1, <2>2, <2>3, AfterEvent, VoltTypes
<1> QED BY <1>5, <1>6, <1>7, <1>8

\* An agreement, in flat terms.
LEMMA AgreedFields ==
    ASSUME NEW p \in PortType, ~p.agreed, NEW q \in Agreed(p)
    PROVE  /\ q \in PortType /\ q.slow <= MaxSlow /\ q.vbus = p.vbus /\ q.charger = p.charger
           /\ q.type = p.type /\ q.ta = p.ta /\ q.asked = p.asked /\ q.volt = p.volt
<1>1. PICK a \in BOOLEAN, s \in 0..MaxSlow : q = Answered(p, a \/ ~p.refuses, s)
  BY DEF Agreed
<1>2. q = [p EXCEPT !.agreed = a \/ ~p.refuses, !.slow = s] /\ s <= MaxSlow /\ s \in Nat
  BY <1>1, MuicAssumption DEF Answered
<1>3. q.slow <= MaxSlow /\ q.vbus = p.vbus /\ q.charger = p.charger
      /\ q.type = p.type /\ q.ta = p.ta /\ q.asked = p.asked /\ q.volt = p.volt
  BY <1>2 DEF PortType
<1> QED BY <1>3, AgreedPort

\* A charger that refuses is given up, asked over QC 2.0, or asked once more.
LEMMA Volts_afc_error ==
    ASSUME Timely, IInv, Volts, faults = 0, afc_error, faults' = 0
    PROVE  Volts'
<1> DEFINE i == "AFC_ERROR"
           p == [port EXCEPT !.asked = FALSE]
           r == Capped(muic.afc_retries + 1)
<1>1. /\ Event(i) /\ UNCHANGED <<phase, extcon, ret, txd9>>
  BY DEF afc_error
<1>2. /\ h.pc = "int3" /\ i \in h.int3 /\ live(i) /\ Free /\ Afc /\ phase # "unbound"
      /\ h'.pc = "int3" /\ h'.int3 = h.int3 \ {i}
      /\ ~port.vbus => port.type = "none" /\ ~port.asked /\ ~port.agreed /\ port.volt = 5
      /\ port.volt = 9 /\ ~port.agreed => port.asked
  BY <1>1, AtEvent
<1> HIDE DEF r
<1>3. ASSUME port.vbus
      PROVE  /\ ~live("AFC_ACCEPTED") /\ ~live("VBUS_UPDATE") /\ ~live("AFC_TA_ATTACHED")
             /\ i \notin ints /\ cntl = {"ENAFC"} /\ txd9 /\ muic.vbus_retries = 0
             /\ ~port.asked /\ ~port.agreed /\ port.volt = 5 /\ ~muic.afc_9v /\ muic.afc_ta
             /\ port.type = port.charger /\ port.charger \in {"AFC", "QC20"} /\ ~port.ta
  <2>1. /\ ~live("AFC_ACCEPTED") /\ ~live("VBUS_UPDATE") /\ ~live("AFC_TA_ATTACHED")
        /\ i \notin ints /\ cntl = {"ENAFC"} /\ txd9 /\ muic.vbus_retries = 0
        /\ ~port.asked /\ ~port.agreed /\ ~muic.afc_9v
    BY <1>2, <1>3 DEF Volts, Stages, Supplied, Pinged, once
  <2>2. /\ muic.afc_ta
        /\ port.type = port.charger /\ port.charger \in {"AFC", "QC20"} /\ ~port.ta
    BY <1>2, <1>3, <2>1 DEF Volts, Pinged, Engaged
  <2> QED BY <1>2, <2>1, <2>2, VoltTypes
<1>4. p \in PortType /\ ~p.asked /\ p.agreed = port.agreed /\ p.volt = port.volt
      /\ p.vbus = port.vbus /\ p.charger = port.charger /\ p.type = port.type /\ p.ta = port.ta
  BY AskedPort, VoltTypes DEF PortType
<1>5. \/ /\ muic' = [muic EXCEPT !.afc_retries = r, !.qc20 = FALSE]
         /\ cntl' = {} /\ port' = Stopped(port) /\ UNCHANGED <<vst9, ints>>
      \/ /\ port.type = "QC20"
         /\ muic' = [muic EXCEPT !.afc_retries = r, !.qc20 = TRUE] /\ cntl' = {"ENQC20"}
         /\ \E q \in IF "ENQC20" \in cntl THEN {port} ELSE Agreed(p) : Measure(q)
      \/ /\ muic' = [muic EXCEPT !.afc_retries = r] /\ cntl' = cntl \union {"ENAFC"}
         /\ port' = [port EXCEPT !.asked = port.vbus] /\ UNCHANGED <<vst9, ints>>
  BY TransferFaults DEF afc_error, IInv, r
<1> HIDE DEF p
<1>6. /\ muic'.afc_9v = muic.afc_9v /\ muic'.afc_ta = muic.afc_ta
      /\ muic'.hold_5v = muic.hold_5v /\ muic'.vbus_retries = muic.vbus_retries
  BY <1>5, VoltTypes DEF MuicType
<1>7. ASSUME ints' = ints, port.vbus
      PROVE  /\ ~live("AFC_ACCEPTED")' /\ ~live("VBUS_UPDATE")' /\ ~live("AFC_ERROR")'
             /\ ~live("AFC_TA_ATTACHED")'
  BY <1>2, <1>3, <1>7 DEF live
<1>8. CASE /\ muic' = [muic EXCEPT !.afc_retries = r, !.qc20 = FALSE]
           /\ cntl' = {} /\ port' = Stopped(port) /\ UNCHANGED <<vst9, ints>>
  <2>1. /\ port'.vbus = port.vbus /\ port'.charger = port.charger /\ port'.type = port.type
        /\ port'.ta = port.ta /\ ~port'.asked /\ (port'.agreed => port.agreed)
        /\ (port'.volt = 9 => port.volt = 9) /\ port'.volt \in {5, 9}
    BY <1>8, StoppedFields, VoltTypes
  <2>2. ASSUME port.vbus PROVE Pinged' /\ Stages' /\ Supplied' /\ port'.volt = 5
    BY <1>3, <1>6, <1>7, <1>8, <2>1, <2>2 DEF Pinged, Stages, Supplied
  <2> QED BY <1>1, <1>2, <1>6, <1>8, <2>1, <2>2, AfterEvent, VoltTypes
<1>9. CASE /\ port.type = "QC20"
           /\ muic' = [muic EXCEPT !.afc_retries = r, !.qc20 = TRUE] /\ cntl' = {"ENQC20"}
           /\ \E q \in IF "ENQC20" \in cntl THEN {port} ELSE Agreed(p) : Measure(q)
  <2>1. port.vbus
    BY <1>2, <1>9, VoltTypes
  <2>2. PICK q \in Agreed(p) : Measure(q)
    BY <1>3, <1>9, <2>1
  <2>3. /\ q \in PortType /\ q.slow <= MaxSlow /\ q.vbus = port.vbus
        /\ q.charger = port.charger /\ q.type = port.type /\ q.ta = port.ta
        /\ ~q.asked /\ q.volt = 5 /\ q.slow \in Nat
    <3>1. ~p.agreed
      BY <1>3, <1>4, <2>1
    <3>2. /\ q \in PortType /\ q.slow <= MaxSlow /\ q.vbus = p.vbus /\ q.charger = p.charger
          /\ q.type = p.type /\ q.ta = p.ta /\ q.asked = p.asked /\ q.volt = p.volt
      BY <1>4, <2>2, <3>1, AgreedFields
    <3>3. q.slow \in Nat
      BY <3>2 DEF PortType
    <3> QED BY <1>3, <1>4, <2>1, <3>2, <3>3
  <2>4. /\ port'.vbus = q.vbus /\ port'.charger = q.charger /\ port'.type = q.type
        /\ port'.ta = q.ta /\ port'.asked = q.asked /\ port'.agreed = q.agreed
        /\ q.agreed /\ q.slow = 0 => port'.volt = 9
        /\ ~(q.agreed /\ q.slow = 0) => port'.volt = q.volt
        /\ q.slow > 0 => port'.slow = q.slow - 1
        /\ vst9' <=> port'.volt = 9
        /\ \A j : j \in ints' <=> j \in ints \/ j = "VBUS_UPDATE"
    BY <1>2, <2>2, <2>3, MeasureFields
  <2>5. /\ live("VBUS_UPDATE")' /\ ~live("AFC_ERROR")' /\ ~live("AFC_ACCEPTED")'
        /\ ~live("AFC_TA_ATTACHED")' /\ once("VBUS_UPDATE")'
    BY <1>2, <1>3, <2>1, <2>4 DEF live, once
  <2>6. port'.volt = 9 => port'.agreed
    BY <2>3, <2>4
  <2>7. port'.agreed /\ ~vst9' => port'.slow + muic.vbus_retries < SM5705_MUIC_AFC_RETRIES
    <3>1. q.agreed /\ port'.volt # 9 => q.slow > 0
      BY <2>3, <2>4
    <3>2. MaxSlow <= 5 /\ MaxSlow \in Nat
      BY MuicAssumption DEF Timely, SM5705_MUIC_AFC_RETRIES
    <3>3. muic.vbus_retries = 0
      BY <1>3, <2>1
    <3> QED BY <2>3, <2>4, <3>1, <3>2, <3>3 DEF SM5705_MUIC_AFC_RETRIES
  <2>8. Pinged'
    BY <1>3, <1>6, <2>1, <2>3, <2>4, <2>5 DEF Pinged
  <2>9. Stages' /\ Supplied'
    BY <1>1, <1>3, <1>6, <1>9, <2>1, <2>3, <2>4, <2>5, <2>6, <2>7 DEF Stages, Supplied
  <2> QED BY <1>1, <1>6, <2>1, <2>3, <2>4, <2>6, <2>8, <2>9, AfterEvent
<1>10. CASE /\ muic' = [muic EXCEPT !.afc_retries = r] /\ cntl' = cntl \union {"ENAFC"}
            /\ port' = [port EXCEPT !.asked = port.vbus] /\ UNCHANGED <<vst9, ints>>
  <2>1. /\ port'.vbus = port.vbus /\ port'.charger = port.charger /\ port'.type = port.type
        /\ port'.ta = port.ta /\ port'.asked = port.vbus /\ port'.agreed = port.agreed
        /\ port'.volt = port.volt
    BY <1>10, VoltTypes DEF PortType
  <2>2. ASSUME port.vbus PROVE Pinged' /\ Stages' /\ Supplied'
    BY <1>1, <1>3, <1>6, <1>7, <1>10, <2>1, <2>2 DEF Pinged, Stages, Supplied
  <2> QED BY <1>1, <1>2, <1>6, <1>10, <2>1, <2>2, AfterEvent
<1> QED BY <1>5, <1>8, <1>9, <1>10

\* The hold begins, or ends.
LEMMA Volts_hold_5v ==
    ASSUME Timely, IInv, Volts, NEW b \in BOOLEAN, hold_5v(b)
    PROVE  Volts'
<1>1. /\ UNCHANGED <<phase, extcon, ret, cntl, txd9, vst9, ints, port>>
      /\ h.pc = "none" /\ h.op = "none" /\ phase # "unbound" /\ b # muic.hold_5v
      /\ b \/ "VBUS_UPDATE" \notin ints
  BY VoltTypes DEF hold_5v, Timely
<1>2. /\ h'.op = "hold" /\ h'.int3 = {}
      /\ h'.pc = IF ~Afc THEN "vbus" ELSE IF b THEN "drop" ELSE "release"
  <2>1. h' = [Unlocked EXCEPT !.op = "hold",
                 !.pc = IF ~Afc THEN "vbus" ELSE IF b THEN "drop" ELSE "release"]
    BY DEF hold_5v
  <2> QED BY <2>1, UnlockedType DEF HType
<1>3. /\ muic'.afc_9v = muic.afc_9v /\ muic'.afc_ta = muic.afc_ta
      /\ muic'.hold_5v = b /\ muic'.vbus_retries = muic.vbus_retries
  BY VoltTypes DEF MuicType, hold_5v
<1>4. /\ \A i : (live(i)' <=> live(i)) /\ (live(i) <=> i \in ints) /\ once(i)'
      /\ Free <=> ~muic.hold_5v
  BY <1>1, <1>2 DEF live, once, Free
<1>5. Engaged' <=> Engaged
  BY <1>1, <1>3, <1>4 DEF Engaged
<1>6. Powerless'
  BY <1>1, <1>5 DEF Volts, Powerless
<1>7. Cleared'
  BY <1>1, <1>2, <1>3 DEF Volts, Cleared, ReadVbus
<1>8. Pinged'
  BY <1>1, <1>2, <1>3, <1>4, <1>5 DEF Volts, Pinged
<1>9. Supplied' /\ Reported'
  BY <1>1, <1>2, <1>3, <1>4 DEF Volts, Supplied, Reported
<1>10. CASE ~Afc
  <2>1. ~Engaged
    BY <1>10 DEF Volts, Powerless
  <2>2. Stages'
    BY <1>1, <1>4, <2>1 DEF Stages, Engaged
  <2>3. Ended'
    BY <1>1, <1>2, <1>3, <1>4, <1>10, <2>1 DEF Ended, Engaged
  <2> QED BY <1>6, <1>7, <1>8, <1>9, <2>2, <2>3 DEF Volts
<1>11. CASE Afc /\ b
  <2>1. Free /\ Free' /\ ~muic.hold_5v /\ h'.pc = "drop"
    BY <1>1, <1>2, <1>4, <1>11, VoltTypes DEF Free
  <2>2. Stages'
    BY <1>1, <1>3, <1>4, <2>1 DEF Volts, Stages
  <2>3. Ended'
    BY <1>1, <1>3, <1>4, <1>11, <2>1 DEF Volts, Ended
  <2> QED BY <1>6, <1>7, <1>8, <1>9, <2>2, <2>3 DEF Volts
<1>12. CASE Afc /\ ~b
  <2>1. ~Free /\ Free' /\ h'.pc = "release" /\ muic.hold_5v /\ "VBUS_UPDATE" \notin ints
    BY <1>1, <1>2, <1>3, <1>4, <1>12, VoltTypes DEF Free
  <2>2. /\ ~port.asked /\ ~port.agreed /\ cntl = {} /\ ~muic.afc_9v
        /\ port.vbus => "AFC_ACCEPTED" \notin ints /\ "AFC_ERROR" \notin ints
        /\ port.volt = 9 /\ ~port.agreed => muic.afc_ta
    BY <1>1, <2>1 DEF Volts, Ended
  <2>3. Stages'
    BY <1>1, <1>4, <2>1, <2>2 DEF Stages
  <2>4. Ended'
    BY <1>1, <1>3, <1>4, <1>12, <2>1, <2>2 DEF Ended
  <2> QED BY <1>6, <1>7, <1>8, <1>9, <2>3, <2>4 DEF Volts
<1> QED BY <1>10, <1>11, <1>12, MuicAssumption

\* The lock holder of a hold has AFC, and no interrupt.
LEMMA AtHold ==
    ASSUME IInv, h.pc \in {"drop", "release", "reset", "poll"}
    PROVE  Afc /\ phase # "unbound" /\ h.op = "hold"
  BY VoltTypes DEF IInv, Locked, Ops, DetectPc

\* A charger that has answered is asked again.
LEMMA Volts_release ==
    ASSUME IInv, Volts, faults = 0, release, faults' = 0
    PROVE  Volts'
<1>1. /\ h.pc = "release" /\ UNCHANGED <<phase, extcon, ret, vst9, ints>>
      /\ h' = [h EXCEPT !.pc = "vbus"]
  BY DEF release
<1>2. Afc /\ phase # "unbound" /\ h.op = "hold"
  BY <1>1, AtHold
<1>3. /\ h'.op = h.op /\ h'.pc = "vbus"
  BY <1>1, VoltTypes DEF HType
<1>4. /\ \A i : (live(i)' <=> live(i)) /\ (live(i) <=> i \in ints) /\ once(i)'
  BY <1>1, <1>3 DEF live, once
<1>5. /\ ~muic.hold_5v /\ ~port.asked /\ ~port.agreed /\ cntl = {} /\ ~muic.afc_9v
      /\ port.vbus => ~live("AFC_ACCEPTED") /\ ~live("VBUS_UPDATE") /\ ~live("AFC_ERROR")
      /\ port.volt = 9 => muic.afc_ta
      /\ ~port.vbus => port.volt = 5
  BY <1>1 DEF Volts, Ended, Powerless
<1>6. CASE muic.afc_ta /\ port.vbus /\ start_9v
  <2>1. "AFC_TA_ATTACHED" \notin ints
    BY <1>2, <1>4, <1>6 DEF Volts, Pinged
  <2>2. Powerless'
    BY <1>1, <1>2, <1>6, StartedFields DEF Volts, Powerless
  <2>3. Cleared'
    BY <1>3, <1>6, StartedFields DEF Cleared, ReadVbus
  <2>4. Pinged'
    BY <1>1, <1>2, <1>3, <1>4, <1>6, <2>1, StartedFields DEF Volts, Pinged, Engaged
  <2>5. Stages' /\ Supplied' /\ Reported'
    BY <1>2, <1>3, <1>4, <1>5, <1>6, StartedFields DEF Stages, Supplied, Reported
  <2>6. Ended'
    BY <1>3, <1>5, <1>6, StartedFields DEF Ended, Free
  <2> QED BY <2>2, <2>3, <2>4, <2>5, <2>6 DEF Volts
<1>7. CASE (~muic.afc_ta \/ ~port.vbus) /\ UNCHANGED <<muic, cntl, txd9, port>>
  <2>1. Engaged' <=> Engaged
    BY <1>1, <1>4, <1>7 DEF Engaged
  <2>2. Powerless'
    BY <1>1, <1>7, <2>1 DEF Volts, Powerless
  <2>3. Cleared'
    BY <1>1, <1>3, <1>7 DEF Volts, Cleared, ReadVbus
  <2>4. Pinged'
    BY <1>1, <1>2, <1>3, <1>4, <1>7, <2>1 DEF Volts, Pinged
  <2>5. Stages' /\ Supplied' /\ Reported'
    BY <1>2, <1>3, <1>4, <1>5, <1>7 DEF Stages, Supplied, Reported
  <2>6. Ended'
    BY <1>3, <1>5, <1>7, VoltTypes DEF Ended, Free
  <2> QED BY <2>2, <2>3, <2>4, <2>5, <2>6 DEF Volts
<1>8. ~Transfer(FALSE)
  BY TransferFaults DEF IInv
<1> QED BY <1>6, <1>7, <1>8 DEF release

\* A charger that may be at 9 V, or may come to be, is to be reset.
LEMMA Volts_afc_drop ==
    ASSUME IInv, Volts, faults = 0, afc_drop, faults' = 0
    PROVE  Volts'
<1>1. /\ h.pc = "drop" /\ UNCHANGED <<phase, muic, extcon, ret, cntl, txd9, vst9, ints, port>>
  BY DEF afc_drop
<1>2. Afc /\ phase # "unbound" /\ h.op = "hold" /\ muic.hold_5v /\ Free
  BY <1>1, AtHold DEF Volts, Ended, Free
<1>3. h' = [h EXCEPT !.ok = TRUE, !.pc = IF muic.afc_9v \/ cntl # {} THEN "reset" ELSE "vbus"]
  BY TransferFaults DEF afc_drop, IInv
<1>4. /\ h'.op = h.op /\ h'.pc = IF muic.afc_9v \/ cntl # {} THEN "reset" ELSE "vbus"
  BY <1>3, VoltTypes DEF HType
<1>5. /\ \A i : (live(i)' <=> live(i)) /\ (live(i) <=> i \in ints) /\ once(i)'
  BY <1>1, <1>4 DEF live, once
<1>6. Engaged' <=> Engaged
  BY <1>1, <1>5 DEF Engaged
<1>7. Powerless'
  BY <1>1, <1>6 DEF Volts, Powerless
<1>8. Cleared'
  BY <1>1, <1>4 DEF Volts, Cleared, ReadVbus
<1>9. Pinged'
  BY <1>1, <1>2, <1>4, <1>5, <1>6 DEF Volts, Pinged
<1>10. Stages'
  BY <1>1, <1>2, <1>5 DEF Volts, Stages
<1>11. Supplied' /\ Reported'
  BY <1>1, <1>2, <1>4, <1>5 DEF Volts, Supplied, Reported
<1>12. port.volt = 9 /\ ~port.agreed => port.asked
  BY <1>1, <1>2 DEF Volts, Ended, Failing, DetectPc
<1>13. CASE muic.afc_9v \/ cntl # {}
  <2>1. Free' /\ h'.pc = "reset"
    BY <1>4, <1>13 DEF Free
  <2>2. Ended'
    BY <1>1, <1>2, <1>12, <1>13, <2>1 DEF Ended
  <2> QED BY <1>7, <1>8, <1>9, <1>10, <1>11, <2>2 DEF Volts
<1>14. CASE ~muic.afc_9v /\ cntl = {}
  <2>1. ~port.asked
    BY <1>14 DEF Volts, Stages
  <2>2. port.vbus => ~live("AFC_ACCEPTED") /\ ~live("VBUS_UPDATE") /\ ~live("AFC_ERROR")
    BY <1>2, <1>14 DEF Volts, Stages
  <2>3. ~port.agreed
    BY <1>14, <2>2 DEF Volts, Supplied, Powerless
  <2>4. Ended'
    BY <1>1, <1>4, <1>5, <1>12, <1>14, <2>1, <2>2, <2>3 DEF Ended
  <2> QED BY <1>7, <1>8, <1>9, <1>10, <1>11, <2>4 DEF Volts
<1> QED BY <1>13, <1>14

\* The charger is brought down.
LEMMA Volts_afc_drop_reset ==
    ASSUME IInv, Volts, afc_drop_reset
    PROVE  Volts'
<1>1. /\ h.pc = "reset" /\ UNCHANGED <<phase, extcon, ret, txd9>> /\ cntl' = {}
      /\ h' = [h EXCEPT !.pc = "poll"]
  BY DEF afc_drop_reset
<1>2. Afc /\ phase # "unbound" /\ h.op = "hold" /\ muic.hold_5v
  BY <1>1, AtHold DEF Volts, Ended
<1>3. /\ h'.op = h.op /\ h'.pc = "poll"
  BY <1>1, VoltTypes DEF HType
<1>4. /\ ~muic'.afc_9v /\ muic'.afc_ta = muic.afc_ta /\ muic'.hold_5v = muic.hold_5v
  BY VoltTypes DEF MuicType, afc_drop_reset
<1>5. PICK v \in {5, 9} :
         /\ Measure([port EXCEPT !.asked = FALSE, !.agreed = FALSE, !.volt = v])
         /\ v = 9 => port.volt = 9
  BY VoltTypes DEF afc_drop_reset
<1> DEFINE p == [port EXCEPT !.asked = FALSE, !.agreed = FALSE, !.volt = v]
<1>6. p \in PortType
  BY PortUpdates, VoltTypes, Zenon
<1>7. /\ ~p.asked /\ ~p.agreed /\ p.volt = v /\ p.vbus = port.vbus
      /\ p.charger = port.charger /\ p.type = port.type /\ p.ta = port.ta
  BY VoltTypes DEF PortType
<1>8. Measure(p)
  BY <1>5
<1> HIDE DEF p
<1>9. /\ ~port'.asked /\ ~port'.agreed /\ port'.volt = v /\ port'.vbus = port.vbus
      /\ port'.charger = port.charger /\ port'.type = port.type /\ port'.ta = port.ta
      /\ vst9' <=> port'.volt = 9
      /\ \A i : i \in ints' <=> i \in ints \/ i = "VBUS_UPDATE"
  BY <1>2, <1>6, <1>7, <1>8, MeasureFields
<1>10. \A i : (live(i)' <=> live(i) \/ i = "VBUS_UPDATE") /\ (live(i) <=> i \in ints) /\ once(i)'
  BY <1>1, <1>3, <1>9 DEF live, once
<1>11. /\ port.vbus => muic.afc_9v \/ cntl # {}
       /\ ~port.vbus => port.volt = 5 /\ ~port.ta
  BY <1>1 DEF Volts, Ended, Powerless
<1>12. ~Free'
  BY <1>2, <1>3, <1>4 DEF Free
<1>13. port.vbus => Engaged
  BY <1>11 DEF Engaged
<1>14. Powerless'
  BY <1>1, <1>2, <1>5, <1>9, <1>11 DEF Volts, Powerless
<1>15. Cleared'
  <2>1. ~port.vbus /\ "CABLE" \notin ints => ~muic.afc_ta
    BY <1>1, <1>2 DEF Volts, Cleared
  <2> QED BY <1>1, <1>3, <1>4, <1>9, <2>1 DEF Cleared, ReadVbus
<1>16. Pinged'
  <2> SUFFICES ASSUME port.vbus PROVE Pinged'
    BY <1>9 DEF Pinged
  <2>1. /\ port.type = port.charger /\ port.charger \in {"AFC", "QC20"} /\ ~port.ta
        /\ ~live("AFC_TA_ATTACHED") /\ (port.volt = 9 => muic.afc_ta)
    BY <1>2, <1>11, <1>13 DEF Volts, Pinged
  <2> QED BY <1>1, <1>4, <1>5, <1>9, <1>10, <2>1 DEF Pinged
<1>17. Stages'
  BY <1>9, <1>12 DEF Stages
<1>18. Ended'
  <2>1. port.volt = 9 => muic.afc_ta
    BY <1>2, <1>11 DEF Volts, Pinged
  <2> QED BY <1>1, <1>2, <1>3, <1>4, <1>5, <1>9, <2>1 DEF Ended, Failing
<1>19. Supplied' /\ Reported'
  BY <1>2, <1>3, <1>4, <1>9 DEF Supplied, Reported
<1> QED BY <1>14, <1>15, <1>16, <1>17, <1>18, <1>19 DEF Volts

\* It came down, or did not.
LEMMA Volts_afc_drop_poll ==
    ASSUME IInv, Volts, afc_drop_poll
    PROVE  Volts'
<1>1. /\ h.pc = "poll" /\ UNCHANGED <<phase, muic, extcon, ret, cntl, txd9, vst9, ints, port>>
      /\ h' = [h EXCEPT !.pc = "vbus", !.ok = ~vst9]
  BY DEF afc_drop_poll
<1>2. Afc /\ phase # "unbound" /\ h.op = "hold" /\ muic.hold_5v
  BY <1>1, AtHold DEF Volts, Ended
<1>3. /\ h'.op = h.op /\ h'.pc = "vbus" /\ (h'.ok <=> ~vst9)
  BY <1>1, VoltTypes DEF HType
<1>4. /\ \A i : (live(i)' <=> live(i)) /\ (live(i) <=> i \in ints) /\ once(i)'
      /\ ~Free /\ ~Free'
  BY <1>1, <1>2, <1>3 DEF live, once, Free
<1>5. Engaged' <=> Engaged
  BY <1>1, <1>4 DEF Engaged
<1>6. Powerless'
  BY <1>1, <1>5 DEF Volts, Powerless
<1>7. Cleared'
  BY <1>1, <1>3 DEF Volts, Cleared, ReadVbus
<1>8. Pinged'
  BY <1>1, <1>2, <1>3, <1>4, <1>5 DEF Volts, Pinged
<1>9. Stages'
  BY <1>1, <1>4 DEF Volts, Stages
<1>10. Ended'
  BY <1>1, <1>2, <1>3, <1>4 DEF Volts, Ended, Failing, DetectPc
<1>11. Supplied' /\ Reported'
  BY <1>1, <1>2, <1>3, <1>4 DEF Volts, Supplied, Reported
<1> QED BY <1>6, <1>7, <1>8, <1>9, <1>10, <1>11 DEF Volts

\* The driver begins with nothing negotiated.
LEMMA Volts_probe ==
    ASSUME IInv, Volts, probe
    PROVE  Volts'
<1>1. /\ UNCHANGED <<h, extcon, ret, cntl, txd9, vst9, port>> /\ phase' = "probing"
      /\ ints' = {} /\ h.op = "none" /\ h.pc = "none"
  BY VoltTypes DEF probe, IInv, Locked
<1>2. /\ ~muic'.afc_9v /\ ~muic'.afc_ta /\ ~muic'.hold_5v
  BY DEF probe, ZeroMuic
<1>3. /\ cntl = {} /\ ~port.asked /\ ~port.agreed /\ port.volt = 5
  BY DEF probe, Volts, Powerless
<1>4. \A i : ~live(i)'
  BY <1>1 DEF live
<1>5. ~Engaged'
  BY <1>1, <1>2, <1>3, <1>4 DEF Engaged
<1>6. Powerless'
  BY <1>1, <1>5 DEF Volts, Powerless
<1>7. Cleared' /\ Pinged' /\ Stages' /\ Supplied' /\ Reported'
  BY <1>1, <1>2, <1>3, <1>4, <1>5 DEF Cleared, Pinged, Stages, Supplied, Reported, ReadVbus
<1>8. Ended'
  BY <1>1, <1>2, <1>3 DEF Ended, Free
<1> QED BY <1>6, <1>7, <1>8 DEF Volts

\* It looks at the cable for the first time.
LEMMA Volts_probe_detect ==
    ASSUME IInv, Volts, probe_detect
    PROVE  Volts'
<1>1. /\ UNCHANGED <<phase, muic, extcon, ret, cntl, txd9, vst9, ints, port>>
      /\ h.pc = "none" /\ phase = "probing"
      /\ h' = [Unlocked EXCEPT !.op = "probe", !.pc = "vbus"]
  BY VoltTypes DEF probe_detect
<1>2. h'.pc = "vbus" /\ h'.op = "probe"
  BY <1>1, UnlockedType DEF HType
<1>3. /\ \A i : (live(i)' <=> live(i)) /\ once(i)'
      /\ Free' <=> Free
  BY <1>1, <1>2 DEF live, once, Free
<1>4. Engaged' <=> Engaged
  BY <1>1, <1>3 DEF Engaged
<1>5. Powerless'
  BY <1>1, <1>4 DEF Volts, Powerless
<1>6. Cleared'
  BY <1>1, <1>2 DEF Volts, Cleared, ReadVbus
<1>7. Pinged'
  BY <1>1, <1>2, <1>3, <1>4 DEF Volts, Pinged
<1>8. Stages' /\ Supplied' /\ Reported'
  BY <1>1, <1>2, <1>3 DEF Volts, Stages, Supplied, Reported
<1>9. Ended'
  <2>1. Failing => ~ret
    BY <1>1, VoltTypes DEF Failing, probe_detect
  <2>2. ~ret => Failing'
    BY <1>1, <1>2 DEF Failing
  <2> QED BY <1>1, <1>2, <1>3, <2>1, <2>2 DEF Volts, Ended
<1> QED BY <1>5, <1>6, <1>7, <1>8, <1>9 DEF Volts

\* A charger that pings is one of those that answer, if AFC is on.
LEMMA PluggedTa ==
    ASSUME NEW kind \in Types, NEW d \in BOOLEAN, NEW q \in Plugged(kind, d)
    PROVE  q.ta <=> Afc /\ kind \in {"AFC", "QC20"}
  BY DEF Plugged

\* A charger comes once what the last one left is cleared.
LEMMA Volts_attach ==
    ASSUME Timely, IInv, Volts, attach
    PROVE  Volts'
<1>1. /\ UNCHANGED <<phase, muic, h, extcon, ret, cntl, txd9, vst9>> /\ ~port.vbus
      /\ ints' = Raised({"CABLE"}) /\ (phase = "unbound" \/ (h.op = "none" /\ ints = {}))
  BY DEF attach, Timely
<1>2. PICK kind \in IF phase = "unbound" THEN BootChargers \ {"none"} ELSE Chargers :
         port' \in Plugged(kind, port.dock)
  BY DEF attach
<1>3. kind \in Types /\ kind # "none" /\ port.dock \in BOOLEAN
  <2>1. port.dock \in BOOLEAN
    BY VoltTypes DEF PortType
  <2> QED BY <2>1, KindType
<1>4. /\ port'.charger = kind /\ port'.vbus /\ port'.type = "none"
      /\ ~port'.asked /\ ~port'.agreed /\ port'.volt = 5
      /\ port'.ta <=> Afc /\ kind \in {"AFC", "QC20"}
  BY <1>2, <1>3, PluggedPort, PluggedTa
<1>5. \A i : i \in ints' <=> i \in ints \/ i = "CABLE"
  BY <1>1 DEF Raised, Int3
<1>6. h.op = "none" /\ h.pc = "none"
  BY <1>1, VoltTypes DEF IInv, Locked
<1>7. /\ cntl = {} /\ ~muic.afc_9v /\ ~muic.afc_ta
      /\ phase = "unbound" => ~muic.hold_5v
  <2>1. CASE phase = "unbound"
    BY <2>1 DEF Volts, Powerless, ZeroMuic
  <2>2. CASE phase # "unbound"
    BY <1>1, <1>6, <2>2 DEF Volts, Cleared
  <2> QED BY <2>1, <2>2
<1>8. /\ phase # "unbound" => \A i \in Int3 : ~live(i)'
      /\ \A i \in Int3 : live(i)' <=> live(i)
  BY <1>1, <1>5, <1>6 DEF live, Int3
<1>9. /\ phase # "unbound" => ~Engaged'
      /\ ~Afc => ~Engaged'
  <2>1. phase # "unbound" => ~Engaged'
    BY <1>1, <1>4, <1>7, <1>8 DEF Engaged, Int3
  <2>2. Engaged' => Engaged
    BY <1>1, <1>4, <1>7, <1>8 DEF Engaged, Int3
  <2> QED BY <2>1, <2>2 DEF Volts, Powerless
<1>10. Powerless'
  BY <1>1, <1>4, <1>9 DEF Volts, Powerless
<1>11. Cleared'
  BY <1>1, <1>4, <1>6 DEF Cleared, ReadVbus
<1>12. Pinged'
  BY <1>1, <1>4, <1>7, <1>8, <1>9 DEF Pinged, Int3
<1>13. Stages'
  BY <1>1, <1>4, <1>8 DEF Stages, Int3
<1>14. Ended'
  <2>1. phase # "unbound" => "AFC_ACCEPTED" \notin ints' /\ "AFC_ERROR" \notin ints'
    BY <1>8 DEF live, Int3
  <2>2. phase = "unbound" => Free'
    BY <1>1, <1>7 DEF Free
  <2> QED BY <1>1, <1>4, <1>6, <1>7, <2>1, <2>2 DEF Ended
<1>15. Supplied' /\ Reported'
  BY <1>1, <1>4, <1>5, <1>7 DEF Supplied, Reported
<1> QED BY <1>10, <1>11, <1>12, <1>13, <1>14, <1>15 DEF Volts

\* A charger goes, and tells.
LEMMA Volts_detach ==
    ASSUME IInv, Volts, detach
    PROVE  Volts'
<1>1. /\ UNCHANGED <<phase, muic, h, extcon, ret, cntl, txd9, vst9>>
      /\ ints' = Raised({"CABLE"}) /\ port' \in Plugged("none", port.dock)
  BY DEF detach
<1>2. "none" \in Types /\ port.dock \in BOOLEAN
  BY VoltTypes DEF PortType, Types
<1>3. /\ ~port'.vbus /\ ~port'.asked /\ ~port'.agreed /\ port'.volt = 5 /\ ~port'.ta
  BY <1>1, <1>2, PluggedPort, PluggedTa
<1>4. \A i : i \in ints' <=> i \in ints \/ i = "CABLE"
  BY <1>1 DEF Raised, Int3
<1>5. \A i \in Int3 : live(i)' <=> live(i)
  BY <1>1, <1>4 DEF live, Int3
<1>6. Engaged' => Engaged
  BY <1>1, <1>3, <1>5 DEF Engaged, Int3
<1>7. Powerless'
  BY <1>1, <1>3, <1>6 DEF Volts, Powerless
<1>8. Cleared'
  BY <1>1, <1>3, <1>4 DEF Cleared
<1>9. Pinged' /\ Stages' /\ Supplied' /\ Reported'
  BY <1>1, <1>3, <1>4 DEF Pinged, Stages, Supplied, Reported
<1>10. Ended'
  BY <1>1, <1>3 DEF Volts, Ended, Free
<1> QED BY <1>7, <1>8, <1>9, <1>10 DEF Volts

\* The cover moves, or a type is detected: no charger answers or follows.
LEMMA Volts_dock_detected ==
    ASSUME IInv, Volts, dock \/ charger_detected
    PROVE  Volts'
<1>1. /\ UNCHANGED <<phase, muic, h, extcon, ret, cntl, txd9, vst9>>
      /\ ints' = Raised({"CABLE"})
  BY DEF dock, charger_detected
<1>2. /\ port'.vbus = port.vbus /\ port'.asked = port.asked /\ port'.agreed = port.agreed
      /\ port'.ta = port.ta /\ port'.slow = port.slow /\ port'.volt = port.volt
      /\ port'.charger = port.charger /\ (port.type # "none" => port'.type = port.type)
  <2>1. CASE dock
    BY <2>1, VoltTypes DEF PortType, dock
  <2>2. CASE charger_detected
    <3>1. PICK t : /\ port' = [port EXCEPT !.detecting = FALSE, !.type = t]
                   /\ port.type # "none" => t = port.type
      BY <2>2 DEF charger_detected
    <3> QED BY <3>1, VoltTypes DEF PortType
  <2> QED BY <2>1, <2>2
<1>3. \A i : i \in ints' <=> i \in ints \/ i = "CABLE"
  BY <1>1 DEF Raised, Int3
<1>4. /\ \A i \in Int3 : (live(i)' <=> live(i)) /\ (once(i)' <=> once(i))
      /\ Free' <=> Free
  BY <1>1, <1>3 DEF live, once, Int3, Free
<1>5. Engaged' <=> Engaged
  BY <1>1, <1>2, <1>4 DEF Engaged, Int3
<1>6. Powerless'
  BY <1>1, <1>2, <1>5 DEF Volts, Powerless
<1>7. Cleared'
  BY <1>1, <1>2, <1>3 DEF Volts, Cleared
<1>8. Pinged'
  BY <1>1, <1>2, <1>3, <1>4, <1>5 DEF Volts, Pinged, Int3
<1>9. Stages'
  BY <1>1, <1>2, <1>4 DEF Volts, Stages, Int3
<1>10. Ended'
  BY <1>1, <1>2, <1>3, <1>4 DEF Volts, Ended, Failing, Int3
<1>11. Supplied' /\ Reported'
  BY <1>1, <1>2, <1>3, <1>4 DEF Volts, Supplied, Reported, Int3
<1> QED BY <1>6, <1>7, <1>8, <1>9, <1>10, <1>11 DEF Volts

\* A charger answers the ping before anything is negotiated.
LEMMA Volts_ta_attached ==
    ASSUME IInv, Volts, ta_attached
    PROVE  Volts'
<1>1. /\ UNCHANGED <<phase, muic, h, extcon, ret, cntl, txd9, vst9>> /\ port.ta
      /\ ints' = Raised({"AFC_TA_ATTACHED"})
  BY DEF ta_attached
<1>2. Afc /\ port.vbus /\ port.charger \in {"AFC", "QC20"}
  BY <1>1, VoltTypes, MuicAssumption DEF Volts, Powerless
<1>3. /\ port'.vbus /\ port'.asked = port.asked /\ port'.agreed = port.agreed
      /\ ~port'.ta /\ port'.slow = port.slow /\ port'.volt = port.volt
      /\ port'.charger = port.charger /\ port'.type = port.charger
  BY <1>2, VoltTypes DEF PortType, ta_attached
<1>4. \A i : i \in ints' <=> i \in ints \/ i = "AFC_TA_ATTACHED"
  BY <1>1, <1>2 DEF Raised
<1>5. phase # "unbound" => ~Engaged
  BY <1>1, <1>2 DEF Volts, Pinged
<1>6. /\ \A i : i # "AFC_TA_ATTACHED" => (live(i)' <=> live(i)) /\ (once(i)' <=> once(i))
      /\ ~live("AFC_TA_ATTACHED") => once("AFC_TA_ATTACHED")'
      /\ Free' <=> Free
  BY <1>1, <1>4 DEF live, once, Free
<1>7. Powerless'
  BY <1>1, <1>2, <1>3 DEF Volts, Powerless
<1>8. Cleared'
  BY <1>1, <1>2, <1>3, <1>4 DEF Volts, Cleared
<1>9. Pinged'
  <2> SUFFICES ASSUME phase # "unbound" PROVE Pinged'
    BY <1>1 DEF Pinged
  <2>1. /\ ~live("AFC_TA_ATTACHED") /\ ~live("AFC_ACCEPTED") /\ ~live("VBUS_UPDATE")
        /\ ~live("AFC_ERROR") /\ ~muic.afc_ta /\ ~muic.afc_9v /\ cntl = {} /\ ~port.asked
        /\ ~port.agreed /\ port.volt = 5
    BY <1>5, VoltTypes DEF Engaged
  <2>2. /\ ~live("AFC_ACCEPTED")' /\ ~live("VBUS_UPDATE")' /\ ~live("AFC_ERROR")'
        /\ once("AFC_TA_ATTACHED")' /\ ~(h.pc = "int3" /\ "AFC_TA_ATTACHED" \in h.int3)
    BY <1>6, <2>1 DEF live
  <2> QED BY <1>1, <1>2, <1>3, <2>1, <2>2 DEF Pinged
<1>10. Stages'
  BY <1>1, <1>3, <1>5, <1>6 DEF Volts, Stages, Powerless, Engaged
<1>11. Ended'
  BY <1>1, <1>2, <1>3, <1>4, <1>6 DEF Volts, Ended, Failing
<1>12. Supplied'
  <2>1. ~muic.afc_9v /\ ~port.agreed
    BY <1>5 DEF Volts, Powerless, ZeroMuic, Engaged
  <2> QED BY <1>1, <1>3, <2>1 DEF Supplied
<1>13. Reported'
  BY <1>1, <1>2, <1>3, <1>4 DEF Volts, Reported
<1> QED BY <1>7, <1>8, <1>9, <1>10, <1>11, <1>12, <1>13 DEF Volts

\* A charger answers a request, while it is still the stage of the negotiation.
LEMMA Volts_charger_answer ==
    ASSUME Timely, IInv, Volts, charger_answer
    PROVE  Volts'
<1> DEFINE p == [port EXCEPT !.asked = FALSE]
<1>1. /\ UNCHANGED <<phase, muic, h, extcon, ret, cntl, txd9, vst9>> /\ port.asked
      /\ port.volt = 9 => port.agreed
  BY DEF charger_answer
<1>2. /\ phase # "unbound" /\ port.vbus /\ Afc /\ Free /\ port.volt = 5 /\ ~port.agreed
      /\ cntl = {"ENAFC"} /\ muic.vbus_retries = 0 /\ txd9 /\ h.pc # "release"
      /\ ~live("AFC_ACCEPTED") /\ ~live("VBUS_UPDATE") /\ ~live("AFC_ERROR")
  <2>1. phase # "unbound" /\ port.vbus /\ Afc
    BY <1>1, VoltTypes, MuicAssumption DEF Volts, Powerless, Engaged
  <2>2. /\ ~port.agreed /\ cntl = {"ENAFC"} /\ muic.vbus_retries = 0 /\ txd9
        /\ ~live("AFC_ACCEPTED") /\ ~live("VBUS_UPDATE") /\ ~live("AFC_ERROR")
    BY <1>1 DEF Volts, Stages
  <2>3. Free /\ h.pc # "release"
    BY <1>1 DEF Volts, Ended
  <2> QED BY <1>1, <2>1, <2>2, <2>3, VoltTypes
<1>3. /\ port.type = port.charger /\ port.charger \in {"AFC", "QC20"} /\ ~port.ta
      /\ ~live("AFC_TA_ATTACHED") /\ muic.afc_ta /\ ~muic.afc_9v
  BY <1>1, <1>2 DEF Volts, Pinged, Engaged, Supplied
<1>4. p \in PortType /\ ~p.asked /\ ~p.agreed /\ p.volt = 5 /\ p.vbus
      /\ p.charger = port.charger /\ p.type = port.type /\ ~p.ta
  <2>1. p \in PortType
    BY AskedPort, VoltTypes
  <2>2. /\ ~p.asked /\ p.agreed = port.agreed /\ p.volt = port.volt /\ p.vbus = port.vbus
        /\ p.charger = port.charger /\ p.type = port.type /\ p.ta = port.ta
    BY VoltTypes DEF PortType
  <2> HIDE DEF p
  <2> QED BY <1>2, <1>3, <2>1, <2>2
<1>5. \/ port.charger = "AFC" /\ port' \in Agreed(p) /\ ints' = Raised({"AFC_ACCEPTED"})
      \/ port' = p /\ ints' = Raised({"AFC_ERROR"})
  BY DEF charger_answer
<1> HIDE DEF p
<1>6. /\ ~port'.asked /\ port'.volt = 5 /\ port'.vbus /\ port'.charger = port.charger
      /\ port'.type = port.type /\ ~port'.ta
  BY <1>4, <1>5, AgreedFields
<1>7. \E j \in {"AFC_ACCEPTED", "AFC_ERROR"} :
         \A i : i \in ints' <=> i \in ints \/ i = j
  BY <1>2, <1>5 DEF Raised
<1>8. /\ ~live("AFC_TA_ATTACHED")' /\ ~live("VBUS_UPDATE")' /\ Free'
      /\ once("AFC_ACCEPTED")' /\ once("AFC_ERROR")'
  BY <1>1, <1>2, <1>3, <1>7 DEF live, once, Free
<1>9. \/ /\ port.charger = "AFC" /\ port'.slow <= SM5705_MUIC_AFC_RETRIES
         /\ live("AFC_ACCEPTED")' /\ ~live("AFC_ERROR")'
      \/ ~port'.agreed /\ ~live("AFC_ACCEPTED")' /\ live("AFC_ERROR")'
  <2>1. CASE port.charger = "AFC" /\ port' \in Agreed(p) /\ ints' = Raised({"AFC_ACCEPTED"})
    <3>1. port' \in PortType /\ port'.slow <= MaxSlow
      BY <1>4, <2>1, AgreedFields
    <3>2. port'.slow \in Nat
      BY <3>1 DEF PortType
    <3>3. port'.slow <= SM5705_MUIC_AFC_RETRIES
      BY <3>1, <3>2, MuicAssumption DEF Timely, SM5705_MUIC_AFC_RETRIES
    <3>4. live("AFC_ACCEPTED")' /\ ~live("AFC_ERROR")'
      BY <1>1, <1>2, <2>1 DEF live, Raised
    <3> QED BY <2>1, <3>3, <3>4
  <2>2. CASE port' = p /\ ints' = Raised({"AFC_ERROR"})
    BY <1>1, <1>2, <1>4, <2>2 DEF live, Raised
  <2> QED BY <1>5, <2>1, <2>2
<1>10. Powerless'
  BY <1>1, <1>2, <1>6 DEF Powerless
<1>11. Cleared'
  BY <1>1, <1>2, <1>6, <1>7 DEF Volts, Cleared
<1>12. Pinged'
  BY <1>1, <1>3, <1>6, <1>8 DEF Pinged
<1>13. Stages'
  BY <1>1, <1>2, <1>6, <1>8, <1>9 DEF Stages
<1>14. Ended'
  BY <1>1, <1>2, <1>6, <1>8 DEF Volts, Ended
<1>15. Supplied'
  BY <1>1, <1>3, <1>9 DEF Supplied
<1>16. Reported'
  BY <1>1, <1>2, <1>6, <1>7 DEF Volts, Reported
<1> QED BY <1>10, <1>11, <1>12, <1>13, <1>14, <1>15, <1>16 DEF Volts

\* VBUS follows.
LEMMA Volts_charger_ramp ==
    ASSUME IInv, Volts, charger_ramp
    PROVE  Volts'
<1>1. /\ UNCHANGED <<phase, muic, h, extcon, ret, cntl, txd9, vst9, ints>>
      /\ port.agreed # (port.volt = 9)
  BY DEF charger_ramp
<1>2. /\ port'.vbus = port.vbus /\ port'.asked = port.asked /\ port'.agreed = port.agreed
      /\ port'.ta = port.ta /\ port'.slow = port.slow
      /\ port'.charger = port.charger /\ port'.type = port.type
      /\ port'.volt = IF port.agreed THEN 9 ELSE 5
  BY VoltTypes DEF PortType, charger_ramp
<1>3. phase # "unbound" /\ port.vbus
  BY <1>1, VoltTypes DEF Volts, Powerless
<1>4. /\ \A i : (live(i)' <=> live(i)) /\ (once(i)' <=> once(i))
      /\ Free' <=> Free
  BY <1>1 DEF live, once, Free
<1>5. Engaged' => Engaged
  BY <1>1, <1>2, <1>4 DEF Engaged
<1>6. Powerless'
  BY <1>1, <1>2, <1>3, <1>5 DEF Volts, Powerless
<1>7. Cleared' /\ Reported'
  BY <1>1, <1>2 DEF Volts, Cleared, Reported
<1>8. Pinged'
  BY <1>1, <1>2, <1>4, <1>5 DEF Volts, Pinged
<1>9. Stages' /\ Supplied'
  BY <1>1, <1>2, <1>4 DEF Volts, Stages, Supplied
<1>10. Ended'
  BY <1>1, <1>2, <1>4 DEF Volts, Ended
<1> QED BY <1>6, <1>7, <1>8, <1>9, <1>10 DEF Volts

\* Failures and rebinds only add up.
LEMMA Counts ==
    ASSUME IInv, [Next]_vars
    PROVE  (faults' = 0 => faults = 0) /\ (rebinds' = 0 => rebinds = 0)
<1>1. faults \in Nat /\ rebinds \in Nat
  BY DEF IInv, TypeOK
<1>2. faults' = faults \/ \E ok : Transfer(ok)
  <2>1. CASE detect
    BY <2>1 DEF detect, detect_read, detect_state, detect_set
  <2>2. CASE irq
    <3>1. start_9v => \E ok : Transfer(ok)
      BY DEF start_9v
    <3> QED BY <2>2, <3>1
            DEF irq, irq_read, afc, afc_stop, afc_start, afc_accepted, afc_vbus_update,
                afc_error, int3_done
  <2>3. CASE hold
    <3>1. start_9v => \E ok : Transfer(ok)
      BY DEF start_9v
    <3> QED BY <2>3, <3>1
            DEF hold, hold_5v, release, afc_drop, afc_drop_reset, afc_drop_poll
  <2>4. CASE connector
    BY <2>4 DEF connector, attach, detach, dock, charger_detected, ta_attached,
                charger_answer, charger_ramp
  <2>5. CASE probe \/ probe_detect \/ unbind \/ UNCHANGED vars
    BY <2>5 DEF probe, probe_detect, unbind, vars
  <2> QED BY <2>1, <2>2, <2>3, <2>4, <2>5 DEF Next
<1>3. rebinds' = rebinds \/ rebinds' = rebinds + 1
  <2>1. CASE detect
    BY <2>1 DEF detect, detect_read, detect_state, detect_set
  <2>2. CASE irq
    BY <2>2 DEF irq, irq_read, afc, afc_start, afc_accepted, afc_vbus_update,
                afc_error, int3_done
  <2>3. CASE hold
    BY <2>3 DEF hold, hold_5v, release, afc_drop, afc_drop_reset, afc_drop_poll
  <2>4. CASE connector
    BY <2>4 DEF connector, attach, detach, dock, charger_detected, ta_attached,
                charger_answer, charger_ramp
  <2>5. CASE probe \/ probe_detect \/ unbind \/ UNCHANGED vars
    BY <2>5 DEF probe, probe_detect, unbind, vars
  <2> QED BY <2>1, <2>2, <2>3, <2>4, <2>5 DEF Next
<1>4. faults' = 0 => faults = 0
  BY <1>2, TransferFaults DEF IInv
<1>5. rebinds' = 0 => rebinds = 0
  BY <1>1, <1>3
<1> QED BY <1>4, <1>5

\* Every step keeps Volts, as long as nothing fails and the driver stays bound.
LEMMA VoltsStep ==
    ASSUME Timely, IInv, Current, (faults = 0 /\ rebinds = 0) => Volts, [Next]_vars
    PROVE  (faults' = 0 /\ rebinds' = 0) => Volts'
<1> SUFFICES ASSUME faults' = 0, rebinds' = 0 PROVE Volts'
  OBVIOUS
<1>1. faults = 0 /\ rebinds = 0 /\ Volts
  BY Counts
<1>2. CASE detect
  BY <1>1, <1>2, Volts_detect_read, Volts_detect_state, Volts_detect_set DEF detect
<1>3. CASE irq
  BY <1>1, <1>3, Volts_irq_read, Volts_afc, Volts_afc_start, Volts_afc_accepted,
     Volts_afc_vbus_update, Volts_afc_error, Volts_int3_done DEF irq
<1>4. CASE hold
  BY <1>1, <1>4, Volts_hold_5v, Volts_release, Volts_afc_drop, Volts_afc_drop_reset,
     Volts_afc_drop_poll DEF hold
<1>5. ~unbind
  BY <1>1 DEF unbind
<1>6. CASE probe \/ probe_detect
  BY <1>1, <1>6, Volts_probe, Volts_probe_detect
<1>7. CASE connector
  BY <1>1, <1>7, Volts_attach, Volts_detach, Volts_dock_detected, Volts_ta_attached,
     Volts_charger_answer, Volts_charger_ramp DEF connector
<1>8. CASE UNCHANGED vars
  <2>1. /\ \A i : (live(i)' <=> live(i)) /\ (once(i)' <=> once(i))
        /\ Free' <=> Free
    BY <1>8 DEF vars, live, once, Free
  <2>2. Engaged' <=> Engaged
    BY <1>8, <2>1 DEF vars, Engaged
  <2>3. Powerless' /\ Cleared'
    BY <1>1, <1>8, <2>2 DEF vars, Volts, Powerless, Cleared
  <2>4. Pinged'
    BY <1>1, <1>8, <2>1, <2>2 DEF vars, Volts, Pinged
  <2>5. Stages'
    BY <1>1, <1>8, <2>1 DEF vars, Volts, Stages
  <2>6. Ended'
    BY <1>1, <1>8, <2>1 DEF vars, Volts, Ended, Failing
  <2>7. Supplied' /\ Reported'
    BY <1>1, <1>8, <2>1 DEF vars, Volts, Supplied, Reported
  <2> QED BY <2>3, <2>4, <2>5, <2>6, <2>7 DEF Volts
<1> QED BY <1>2, <1>3, <1>4, <1>5, <1>6, <1>7, <1>8 DEF Next

\* Whatever is plugged in before probe() is at 5 V.
LEMMA VoltsInit == ASSUME Init PROVE Volts
<1>1. PICK kind \in BootChargers, d \in Docks : port \in Plugged(kind, d)
  BY DEF Init
<1>2. kind \in Types /\ d \in BOOLEAN
  BY KindType, MuicAssumption
<1>3. /\ port.charger = kind /\ (port.vbus <=> kind # "none") /\ ~port.asked /\ ~port.agreed
      /\ port.volt = 5 /\ (port.ta <=> Afc /\ kind \in {"AFC", "QC20"})
  BY <1>1, <1>2, PluggedPort, PluggedTa
<1>4. /\ phase = "unbound" /\ muic = ZeroMuic /\ h.pc = "none" /\ cntl = {} /\ ints = {}
      /\ ~muic.afc_9v /\ ~muic.afc_ta /\ ~muic.hold_5v
  BY UnlockedType DEF Init, ZeroMuic
<1>5. \A i : ~live(i)
  BY <1>4 DEF live
<1>6. ~Engaged
  BY <1>3, <1>4, <1>5 DEF Engaged
<1>7. Powerless /\ Cleared
  BY <1>3, <1>4, <1>6 DEF Powerless, Cleared, ReadVbus
<1>8. Pinged /\ Stages /\ Supplied /\ Reported
  BY <1>3, <1>4 DEF Pinged, Stages, Supplied, Reported
<1>9. Ended
  BY <1>3, <1>4 DEF Ended, Free
<1> QED BY <1>7, <1>8, <1>9 DEF Volts

-----------------------------------------------------------------------------
(* Theorems *)

\* The invariant holds of every state.
LEMMA InvAlways == Spec => []IInv
<1>1. Init => IInv
  BY InvInit
<1>2. IInv /\ [Next]_vars => IInv'
  BY InvStep
<1> QED BY <1>1, <1>2, PTL DEF Spec

\* Whatever fails and however cables change while they are read, nobody sees a
\* charger reported as two kinds once the handler is done: sm5705_muic_detect()
\* sets one cable after the other.
THEOREM CablesCoherentAlways == Spec => []CablesCoherent
<1>1. ASSUME IInv PROVE CablesCoherent
  <2> SUFFICES ASSUME h.op = "none" PROVE CablesCoherent
    BY DEF CablesCoherent
  <2>1. OneCharger
    BY <1>1 DEF IInv, Locked, Coherent
  <2> DEFINE S == extcon \intersect {"SDP", "CDP", "DCP"}
  <2>2. Cardinality(S) <= 1
    <3>1. S = {} \/ \E c : S = {c}
      BY <2>1 DEF OneCharger
    <3>2. CASE S = {}
      BY <3>2, FS_EmptySet
    <3>3. CASE \E c : S = {c}
      <4>1. PICK c : S = {c}
        BY <3>3
      <4>2. Cardinality({c}) = 1
        BY FS_Singleton
      <4> QED BY <4>1, <4>2
    <3> QED BY <3>1, <3>2, <3>3
  <2>3. "USB" \in extcon <=> extcon \intersect {"SDP", "CDP"} # {}
    BY <2>1 DEF OneCharger
  <2>4. "FAST" \in extcon => "DCP" \in extcon
    BY <2>1 DEF OneCharger
  <2> QED BY <2>2, <2>3, <2>4 DEF CablesCoherent
<1> QED BY <1>1, InvAlways, PTL

\* As long as no transfer has failed, FAST is withdrawn and stays so from the
\* moment hold_5v() is back until the hold ends, whatever chargers come or answer.
THEOREM HoldWithdrawsFastAlways == Spec => [](faults = 0 => HoldWithdrawsFast)
<1>1. ASSUME IInv PROVE faults = 0 => HoldWithdrawsFast
  BY <1>1 DEF IInv, Held, HoldWithdrawsFast, AtRest
<1> QED BY <1>1, InvAlways, PTL

\* Without failures registers and reports are Current, if cables do not overtake
\* each other.
LEMMA CurrentAlways == ASSUME ~Replug PROVE Spec => []Current
<1>1. Init => Current
  BY CurrentInit
<1>2. IInv /\ Current /\ [Next]_vars => Current'
  BY CurrentStep
<1> QED BY <1>1, <1>2, InvAlways, PTL DEF Spec

\* On a working bus every cable is reported as what it is, once nothing is left
\* to handle, if no new charger comes before the last one's detach is handled.
THEOREM CableReportedAlways ==
    ASSUME ~Replug
    PROVE  Spec => []CableReported
<1>1. Spec => []Current
  BY CurrentAlways
<1>2. ASSUME IInv, Current PROVE CableReported
  <2> SUFFICES ASSUME Quiet, faults = 0
               PROVE  extcon \ {"FAST"} =
                        (IF port.dock THEN {"DOCK"} ELSE {})
                        \union (IF port.charger \in {"SDP", "CDP"}
                                THEN {port.charger, "USB"} ELSE {})
                        \union (IF port.charger \in {"DCP", "AFC", "QC20"}
                                THEN {"DCP"} ELSE {})
    BY DEF CableReported
  <2>1. phase = "bound" /\ h.op = "none" /\ ints = {} /\ ~port.detecting
    BY DEF Quiet, AtRest
  <2>2. /\ extcon \ {"FAST"} = Shown(port.vbus, Class(port.type), port.dock)
        /\ port.vbus /\ port.dock /\ port.type = "none" => muic.chgdet_rerun
        /\ muic.chgdet_rerun /\ port.vbus /\ port.type = "none" => port.detecting
    BY <1>2, <2>1 DEF Current
  <2>3. port.vbus => Class(port.type) = Class(port.charger)
    BY <1>2, <2>1, <2>2 DEF IInv, Connected
  <2>4. port.vbus <=> port.charger # "none"
    BY <1>2 DEF IInv, Connected
  <2> QED BY <2>2, <2>3, <2>4 DEF Shown, Class
<1> QED BY <1>1, <1>2, InvAlways, PTL

\* Volts holds of every state before a failure or a rebind.
LEMMA VoltsAlways ==
    ASSUME Timely
    PROVE  Spec => []((faults = 0 /\ rebinds = 0) => Volts)
<1> DEFINE V == (faults = 0 /\ rebinds = 0) => Volts
<1>1. Init => V
  BY VoltsInit
<1>2. IInv /\ Current /\ V /\ [Next]_vars => V'
  BY VoltsStep
<1>3. ~Replug
  BY MuicAssumption DEF Timely
<1>4. Spec => []Current
  BY <1>3, CurrentAlways
<1> HIDE DEF V
<1>5. Spec => []V
  BY <1>1, <1>2, <1>4, InvAlways, PTL DEF Spec
<1> QED BY <1>5 DEF V

\* As long as no transfer has failed and the driver stays bound, a hold that has
\* returned 0 keeps VBUS at 5 V with nothing negotiated until it is released,
\* whatever chargers come, answer or were about to switch: sm5705_muic_hold_5v().
THEOREM HoldIs5VAlways ==
    ASSUME Timely
    PROVE  Spec => []((faults = 0 /\ rebinds = 0) => HoldIs5V)
<1>1. ASSUME IInv, (faults = 0 /\ rebinds = 0) => Volts
      PROVE  (faults = 0 /\ rebinds = 0) => HoldIs5V
  <2> SUFFICES ASSUME Volts, AtRest, muic.hold_5v, ret PROVE port.volt = 5 /\ cntl = {}
    BY <1>1 DEF HoldIs5V
  <2>1. h.op = "none" /\ h.pc = "none" /\ ~Free /\ ~Failing
    BY <1>1, VoltTypes DEF AtRest, Free, Failing
  <2>2. cntl = {} /\ port.volt # 9
    BY <2>1 DEF Volts, Ended
  <2> QED BY <1>1, <2>2, VoltTypes
<1>2. Spec => []((faults = 0 /\ rebinds = 0) => Volts)
  BY VoltsAlways
<1> QED BY <1>1, <1>2, InvAlways, PTL

\* Under the same conditions FAST is reported exactly while the charger supplies
\* 9 V, once nothing is left to handle: sm5705_muic_afc_irq() measures what was
\* agreed to before it counts, and a mode goes with its charger.
THEOREM FastIs9VAlways ==
    ASSUME Timely
    PROVE  Spec => []((faults = 0 /\ rebinds = 0) => FastIs9V)
<1>1. ASSUME IInv, (faults = 0 /\ rebinds = 0) => Volts
      PROVE  (faults = 0 /\ rebinds = 0) => FastIs9V
  <2> SUFFICES ASSUME Volts, Quiet PROVE "FAST" \in extcon <=> port.volt = 9
    BY <1>1 DEF FastIs9V
  <2>1. /\ phase = "bound" /\ h.op = "none" /\ h.pc = "none" /\ ints = {}
        /\ port.agreed = (port.volt = 9)
    BY <1>1, VoltTypes DEF Quiet, AtRest
  <2>2. "FAST" \in extcon <=> muic.afc_9v /\ port.vbus
    BY <2>1 DEF Volts, Reported
  <2>3. port.agreed => muic.afc_9v /\ port.vbus
    BY <2>1 DEF Volts, Supplied, Powerless, live
  <2>4. muic.afc_9v /\ port.vbus => port.agreed
    BY DEF Volts, Supplied
  <2> QED BY <1>1, <2>1, <2>2, <2>3, <2>4, VoltTypes
<1>2. Spec => []((faults = 0 /\ rebinds = 0) => Volts)
  BY VoltsAlways
<1> QED BY <1>1, <1>2, InvAlways, PTL
=============================================================================
