---------------------------- MODULE SensorProofs ----------------------------
(***************************************************************************)
(* Proofs about the two sensors that work by themselves.  The front        *)
(* camera's (S5K5E3): one that streams exposes within its frame, and its   *)
(* registers hold what is set, for every blanking, exposure and gain that  *)
(* is asked for and every failing supply, clock and transfer, the          *)
(* transfers of controls that are changed while streaming excepted: these  *)
(* leave the exposure limit ahead of the registers.  The digitizer (SPen), *)
(* at the end of the module: for every range of the digitizer, and for any *)
(* number of operations, pen moves, retries and failures.                  *)
(***************************************************************************)
EXTENDS S5K5E3, SPen, TLAPS

-----------------------------------------------------------------------------
(* The controls, what s_ctrl() does to them *)

CtlType == [Ids -> [val : Int, min : Int, max : Int]]
RegType == [setup : {"none", "init", "common"}, mode : Int, stream : BOOLEAN,
            exposure : Int, hflip : Int, vflip : Int, vblank : Int, gain : Int]
Worlds  == [ctl : CtlType, reg : RegType, ok : BOOLEAN]

\* The limits of controls ctl for format m, as the driver sets them; the
\* exposure's may be that of an earlier format.
Limits(c, m) ==
    /\ c["vblank"].min = vts_range(m).min /\ c["vblank"].max = vts_range(m).max
    /\ c["exposure"].min = EXPOSURE_MIN
    /\ EXPOSURE_MIN <= c["exposure"].max /\ c["exposure"].val <= c["exposure"].max

InRange(c, m) == c["vblank"].val \in vts_range(m).min .. vts_range(m).max

\* The exposure's limit is that of the frame.
Fitted(c, m) == c["exposure"].max = s5k5e3_modes[m].height + c["vblank"].val - EXPOSURE_MARGIN

\* What a register holds for the value of its control.
coded(id, v, m) == IF id = "vblank" THEN s5k5e3_modes[m].height + v ELSE v

\* The registers of the controls in S hold their values.
Matched(w, S, m) == \A id \in S : w.reg[id] = coded(id, w.ctl[id].val, m)

\* The names of the controls and of the formats.
LEMMA Names ==
    /\ Ids = {"exposure", "vblank", "gain", "hflip", "vflip"}
    /\ Modes = 1..3
    /\ \A m \in Modes : /\ s5k5e3_modes[m].height \in Nat
                        /\ vts_range(m).min \in Int /\ vts_range(m).max \in Int
                        /\ vts_range(m).val \in vts_range(m).min .. vts_range(m).max
                        /\ s5k5e3_modes[m].height + vts_range(m).min >= 506
<1>1. Ids = {"exposure", "vblank", "gain", "hflip", "vflip"}
  BY DEF Ids, Flips
<1>2. Modes = 1..3
  BY DEF Modes, s5k5e3_modes
<1>3. ASSUME NEW m \in 1..3
      PROVE  /\ s5k5e3_modes[m].height \in Nat
             /\ vts_range(m).min \in Int /\ vts_range(m).max \in Int
             /\ vts_range(m).val \in vts_range(m).min .. vts_range(m).max
             /\ s5k5e3_modes[m].height + vts_range(m).min >= 506
  <2>1. CASE m = 1
    BY <2>1 DEF s5k5e3_modes, vts_range, vts_def, VTS_MAX
  <2>2. CASE m = 2
    BY <2>2 DEF s5k5e3_modes, vts_range, vts_def, VTS_MAX
  <2>3. CASE m = 3
    BY <2>3 DEF s5k5e3_modes, vts_range, vts_def, VTS_MAX
  <2> QED BY <2>1, <2>2, <2>3
<1> QED BY <1>1, <1>2, <1>3

\* The framework's clamping stays within the limits.
LEMMA Clamped ==
    ASSUME NEW v \in Int, NEW c \in [val : Int, min : Int, max : Int], c.min <= c.max
    PROVE  clamp(v, c) \in c.min .. c.max
  BY DEF clamp

\* A write that works reaches control and, in use, register.
LEMMA Written ==
    ASSUME NEW w \in Worlds, NEW id \in Ids, NEW v \in Int, NEW m \in Modes, NEW f,
           NEW use \in BOOLEAN, use => f # id
    PROVE  LET n == write(w, id, v, m, f, use)
           IN  /\ n \in Worlds /\ n.ok = w.ok
               /\ n.ctl = [w.ctl EXCEPT ![id].val = v]
               /\ n.reg = IF use THEN [w.reg EXCEPT ![id] = coded(id, v, m)] ELSE w.reg
<1>1. s5k5e3_modes[m].height \in Int
  BY Names
<1>2. coded(id, v, m) \in Int
  BY <1>1 DEF coded
<1>3. [w.ctl EXCEPT ![id].val = v] \in CtlType
  BY DEF Worlds, CtlType
<1>4. [w.reg EXCEPT ![id] = coded(id, v, m)] \in RegType
  <2>1. w.reg \in RegType
    BY DEF Worlds
  <2> QED BY <1>2, <2>1, Names DEF RegType
<1>5. CASE ~use
  <2>1. write(w, id, v, m, f, use) = [w EXCEPT !.ctl[id].val = v]
    BY <1>5 DEF write
  <2> QED BY <1>3, <1>5, <2>1 DEF Worlds
<1>6. CASE use
  <2>1. write(w, id, v, m, f, use)
          = [w EXCEPT !.ctl[id].val = v, !.reg[id] = coded(id, v, m)]
    BY <1>6 DEF write, coded
  <2> QED BY <1>3, <1>4, <1>6, <2>1 DEF Worlds
<1> QED BY <1>5, <1>6

\* What the steps below keep of a world: the limits, and the registers that no
\* control has.
Kept(n, w, m) ==
    /\ n \in Worlds /\ Limits(n.ctl, m) /\ (InRange(w.ctl, m) => InRange(n.ctl, m))
    /\ n.reg.setup = w.reg.setup /\ n.reg.mode = w.reg.mode
    /\ n.reg.stream = w.reg.stream

\* Register and control of the exposure agree, or nothing is in use.
ExposureMatched(w, use) == use => w.reg["exposure"] = w.ctl["exposure"].val

\* The exposure's limit follows the blanking v, and so does an exposure beyond it.
LEMMA ExposureRange ==
    ASSUME NEW w \in Worlds, NEW m \in Modes, Limits(w.ctl, m), NEW f,
           NEW use \in BOOLEAN, use => f # "exposure",
           NEW v \in vts_range(m).min .. vts_range(m).max
    PROVE  LET n == exposure_range(w, v, m, f, use)
           IN  /\ Kept(n, w, m) /\ n.ok = w.ok
               /\ \A id \in Ids \ {"exposure"} :
                     n.ctl[id] = w.ctl[id] /\ n.reg[id] = w.reg[id]
               /\ n.ctl["exposure"].max = s5k5e3_modes[m].height + v - EXPOSURE_MARGIN
               /\ ExposureMatched(w, use) => ExposureMatched(n, use)
               /\ ~use => n.reg = w.reg
<1> DEFINE max == s5k5e3_modes[m].height + v - EXPOSURE_MARGIN
           r   == [w EXCEPT !.ctl.exposure.max = max]
           new == clamp(r.ctl.exposure.val, r.ctl.exposure)
           n   == exposure_range(w, v, m, f, use)
<1>0. v \in Int /\ max \in Int /\ EXPOSURE_MIN <= max
  BY Names DEF EXPOSURE_MARGIN, EXPOSURE_MIN
<1>1. /\ r \in Worlds /\ r.reg = w.reg /\ r.ok = w.ok
      /\ r.ctl = [w.ctl EXCEPT !["exposure"].max = max]
  <2>1. [w.ctl EXCEPT !["exposure"].max = max] \in CtlType
    BY <1>0, Names DEF Worlds, CtlType
  <2> QED BY <2>1 DEF Worlds
<1>2. /\ r.ctl["exposure"] \in [val : Int, min : Int, max : Int]
      /\ r.ctl["exposure"].max = max /\ r.ctl["exposure"].min = EXPOSURE_MIN
      /\ \A id \in Ids \ {"exposure"} : r.ctl[id] = w.ctl[id]
  BY <1>0, <1>1, Names DEF Worlds, CtlType, Limits
<1>3. new \in EXPOSURE_MIN .. max
  BY <1>0, <1>2, Clamped
<1>i. new \in Int /\ "exposure" \in Ids
  BY <1>0, <1>3, Names DEF EXPOSURE_MIN
<1>4. n = IF new = r.ctl.exposure.val THEN r ELSE write(r, "exposure", new, m, f, use)
  BY DEF exposure_range
<1> HIDE DEF max, r, new, n
<1>5. CASE new = r.ctl.exposure.val
  <2>1. n = r
    BY <1>4, <1>5
  <2>2. n.ctl["exposure"].val <= max
    BY <1>0, <1>3, <1>5, <2>1 DEF EXPOSURE_MIN
  <2>3. Limits(n.ctl, m)
    BY <1>0, <1>2, <2>1, <2>2, Names DEF Limits
  <2>4. ExposureMatched(w, use) => ExposureMatched(n, use)
    BY <1>1, <2>1, Names DEF ExposureMatched, Worlds, CtlType
  <2>5. Kept(n, w, m)
    <3>1. n.ctl["vblank"] = w.ctl["vblank"]
      BY <1>2, <2>1, Names
    <3>2. InRange(w.ctl, m) => InRange(n.ctl, m)
      BY <3>1 DEF InRange
    <3> QED BY <1>1, <2>1, <2>3, <3>2 DEF Kept
  <2> QED BY <1>1, <1>2, <2>1, <2>4, <2>5 DEF n, max
<1>6. CASE new # r.ctl.exposure.val
  <2>1. /\ n \in Worlds /\ n.ok = r.ok
        /\ n.ctl = [r.ctl EXCEPT !["exposure"].val = new]
        /\ n.reg = IF use THEN [r.reg EXCEPT !["exposure"] = new] ELSE r.reg
    BY <1>1, <1>4, <1>6, <1>i, Written DEF coded
  <2>2. /\ n.ctl["exposure"].val = new /\ n.ctl["exposure"].max = max
        /\ n.ctl["exposure"].min = EXPOSURE_MIN
        /\ \A id \in Ids \ {"exposure"} : n.ctl[id] = w.ctl[id]
    BY <1>1, <1>2, <2>1, Names DEF Worlds, CtlType
  <2>3. /\ n.reg.setup = w.reg.setup /\ n.reg.mode = w.reg.mode
        /\ n.reg.stream = w.reg.stream
        /\ \A id \in Ids \ {"exposure"} : n.reg[id] = w.reg[id]
        /\ use => n.reg["exposure"] = new
    BY <1>1, <2>1, Names DEF Worlds, RegType
  <2>4. Limits(n.ctl, m)
    BY <1>0, <1>3, <2>2, Names DEF Limits, EXPOSURE_MIN
  <2> QED BY <1>1, <2>1, <2>2, <2>3, <2>4, Names
      DEF Kept, InRange, ExposureMatched, n, max
<1> QED BY <1>5, <1>6 DEF n

\* Control id is set to v, in n, or its register cannot be written.
SetTo(n, w, id, v, m, f, use) ==
    /\ Kept(n, w, m)
    /\ n.ok <=> ~use \/ f # id
    /\ ~use => n.reg = w.reg
    /\ n.ok => /\ n.ctl[id].val = v
               /\ use => n.reg[id] = coded(id, v, m)
               /\ \A j \in Ids \ {id, "exposure"} :
                     n.ctl[j] = w.ctl[j] /\ n.reg[j] = w.reg[j]
               /\ id # "exposure" => (ExposureMatched(w, use) => ExposureMatched(n, use))
               /\ id = "vblank" => InRange(n.ctl, m)
               /\ id = "vblank" \/ Fitted(w.ctl, m) => Fitted(n.ctl, m)

\* set_ctrl() of a value within the limits does it all or fails.
LEMMA SetCtrl ==
    ASSUME NEW w \in Worlds, w.ok = TRUE, NEW m \in Modes, Limits(w.ctl, m), NEW f,
           NEW use \in BOOLEAN, NEW id \in Ids, NEW v \in Int,
           id = "vblank" => v \in vts_range(m).min .. vts_range(m).max,
           id = "exposure" => v <= w.ctl["exposure"].max,
           use /\ id = "vblank" => f # "exposure"
    PROVE  SetTo(set_ctrl(w, id, v, m, f, use), w, id, v, m, f, use)
<1> DEFINE r == IF id = "vblank" THEN exposure_range(w, v, m, f, use) ELSE w
           n == set_ctrl(w, id, v, m, f, use)
<1>1. /\ Kept(r, w, m) /\ r.ok = TRUE
      /\ \A j \in Ids \ {"exposure"} : r.ctl[j] = w.ctl[j] /\ r.reg[j] = w.reg[j]
      /\ ExposureMatched(w, use) => ExposureMatched(r, use)
      /\ ~use => r.reg = w.reg
      /\ IF id = "vblank"
         THEN r.ctl["exposure"].max = s5k5e3_modes[m].height + v - EXPOSURE_MARGIN
         ELSE r = w
  <2>1. CASE id = "vblank"
    <3>1. v \in vts_range(m).min .. vts_range(m).max /\ (use => f # "exposure")
      BY <2>1
    <3>2. r = exposure_range(w, v, m, f, use)
      BY <2>1
    <3> HIDE DEF r
    <3> QED BY <2>1, <3>1, <3>2, ExposureRange
  <2>2. CASE id # "vblank"
    BY <2>2 DEF Kept
  <2> QED BY <2>1, <2>2
<1>2. n = write(r, id, v, m, f, use)
  BY <1>1 DEF set_ctrl
<1>3. r \in Worlds
  BY <1>1 DEF Kept
<1> HIDE DEF r, n
<1>4. CASE use /\ f = id
  <2>1. n = [r EXCEPT !.ok = FALSE]
    BY <1>2, <1>4 DEF write
  <2>2. n \in Worlds /\ n.ctl = r.ctl /\ n.reg = r.reg /\ n.ok = FALSE
    BY <1>3, <2>1 DEF Worlds
  <2> QED BY <1>1, <1>4, <2>2 DEF Kept, SetTo, n
<1>5. CASE ~use \/ f # id
  <2>1. /\ n \in Worlds /\ n.ok = TRUE /\ n.ctl = [r.ctl EXCEPT ![id].val = v]
        /\ n.reg = IF use THEN [r.reg EXCEPT ![id] = coded(id, v, m)] ELSE r.reg
    BY <1>1, <1>2, <1>3, <1>5, Written
  <2>2. /\ n.ctl[id].val = v /\ n.ctl[id].min = r.ctl[id].min
        /\ n.ctl[id].max = r.ctl[id].max
        /\ \A j \in Ids \ {id} : n.ctl[j] = r.ctl[j]
    BY <1>3, <2>1 DEF Worlds, CtlType
  <2>3. /\ n.reg.setup = r.reg.setup /\ n.reg.mode = r.reg.mode
        /\ n.reg.stream = r.reg.stream
        /\ use => n.reg[id] = coded(id, v, m)
        /\ \A j \in Ids \ {id} : n.reg[j] = r.reg[j]
    BY <1>3, <2>1, Names DEF Worlds, RegType
  <2>4. /\ n.ctl["exposure"].max = r.ctl["exposure"].max
        /\ n.ctl["exposure"].min = r.ctl["exposure"].min
        /\ n.ctl["vblank"].max = r.ctl["vblank"].max
        /\ n.ctl["vblank"].min = r.ctl["vblank"].min
        /\ id # "vblank" => n.ctl["vblank"] = r.ctl["vblank"]
        /\ id # "exposure" => n.ctl["exposure"] = r.ctl["exposure"]
    BY <2>2, Names
  <2>5. Limits(n.ctl, m)
    <3>1. n.ctl["exposure"].val <= n.ctl["exposure"].max
      <4>1. CASE id = "exposure"
        BY <1>1, <2>2, <2>4, <4>1
      <4>2. CASE id # "exposure"
        BY <1>1, <2>4, <4>2 DEF Kept, Limits
      <4> QED BY <4>1, <4>2
    <3> QED BY <1>1, <2>4, <3>1 DEF Kept, Limits
  <2>6. (InRange(w.ctl, m) => InRange(n.ctl, m)) /\ (id = "vblank" => InRange(n.ctl, m))
    BY <1>1, <2>2, <2>4 DEF Kept, InRange
  <2>7. id = "vblank" \/ Fitted(w.ctl, m) => Fitted(n.ctl, m)
    BY <1>1, <2>2, <2>4, Names DEF Fitted
  <2>8. id # "exposure" => (ExposureMatched(w, use) => ExposureMatched(n, use))
    BY <1>1, <2>3, <2>4, Names DEF ExposureMatched
  <2>9. \A j \in Ids \ {id, "exposure"} : n.ctl[j] = w.ctl[j] /\ n.reg[j] = w.reg[j]
    BY <1>1, <2>2, <2>3
  <2>10. Kept(n, w, m)
    BY <1>1, <2>1, <2>3, <2>5, <2>6 DEF Kept
  <2>11. SetTo(n, w, id, v, m, f, use)
    BY <1>1, <1>5, <2>1, <2>2, <2>3, <2>6, <2>7, <2>8, <2>9, <2>10 DEF SetTo
  <2> QED BY <2>11 DEF n
<1> QED BY <1>4, <1>5

\* Control id is set, or cannot be.
CtrlSet(n, w, id, m, f, use) ==
    /\ Kept(n, w, m)
    /\ ~use \/ f \notin Ids => n.ok
    /\ ~use => n.reg = w.reg
    /\ n.ok => /\ id = "vblank" => InRange(n.ctl, m)
               /\ use /\ Matched(w, Ids, m) => Matched(n, Ids, m)
               /\ Fitted(w.ctl, m) => Fitted(n.ctl, m)

\* A control that is set is clamped first; registers that match go on matching.
LEMMA SCtrl ==
    ASSUME NEW w \in Worlds, w.ok = TRUE, NEW m \in Modes, Limits(w.ctl, m), NEW f,
           NEW use \in BOOLEAN, NEW id \in Ids, NEW v \in Int, use => f # "exposure"
    PROVE  CtrlSet(s_ctrl(w, id, v, m, f, use), w, id, m, f, use)
<1> DEFINE new == clamp(v, w.ctl[id])
           n   == s_ctrl(w, id, v, m, f, use)
<1>1. w.ctl[id] \in [val : Int, min : Int, max : Int]
  BY DEF Worlds, CtlType
<1>2. new \in Int
  BY <1>1 DEF clamp
<1>3. /\ id = "vblank" => new \in vts_range(m).min .. vts_range(m).max
      /\ id = "exposure" => new <= w.ctl["exposure"].max
  <2>1. CASE id = "vblank"
    BY <1>1, <2>1, Clamped, Names DEF Limits
  <2>2. CASE id = "exposure"
    <3>1. w.ctl[id].min <= w.ctl[id].max
      BY <2>2 DEF Limits
    <3>2. new \in w.ctl[id].min .. w.ctl[id].max
      BY <1>1, <3>1, Clamped
    <3> QED BY <1>1, <2>2, <3>2
  <2> QED BY <2>1, <2>2
<1>4. n = IF new = w.ctl[id].val THEN w ELSE set_ctrl(w, id, new, m, f, use)
  BY DEF s_ctrl
<1> HIDE DEF new, n
<1>5. CASE new = w.ctl[id].val
  <2>1. n = w
    BY <1>4, <1>5
  <2> QED BY <1>3, <1>5, <2>1 DEF Kept, InRange, CtrlSet, n
<1>6. CASE new # w.ctl[id].val
  <2>0. n = set_ctrl(w, id, new, m, f, use)
    BY <1>4, <1>6
  <2>1. SetTo(n, w, id, new, m, f, use)
    BY <1>2, <1>3, <2>0, SetCtrl
  <2>2. ASSUME n.ok, use, Matched(w, Ids, m), NEW j \in Ids
        PROVE  n.reg[j] = coded(j, n.ctl[j].val, m)
    <3>1. CASE j = id
      BY <2>1, <2>2, <3>1 DEF SetTo
    <3>2. CASE j # id /\ j = "exposure"
      BY <2>1, <2>2, <3>2 DEF SetTo, Matched, ExposureMatched, coded
    <3>3. CASE j \in Ids \ {id, "exposure"}
      BY <2>1, <2>2, <3>3 DEF SetTo, Matched
    <3> QED BY <3>1, <3>2, <3>3
  <2> QED BY <2>1, <2>2 DEF SetTo, CtrlSet, Matched, n
<1> QED BY <1>5, <1>6

\* After those in S, control id is set up, in n.
UpTo(n, w, id, f, S) ==
    /\ Kept(n, w, fmt.mode)
    /\ n.ok => /\ w.ok /\ f # id /\ Matched(n, S \union {id}, fmt.mode)
               /\ id = "vblank" \/ "vblank" \in S => Fitted(n.ctl, fmt.mode)

\* One control of v4l2_ctrl_handler_setup(), after those in S.
LEMMA SetUp ==
    ASSUME NEW w \in Worlds, fmt.mode \in Modes, NEW f, NEW id \in Ids,
           NEW S \in SUBSET Ids,
           Limits(w.ctl, fmt.mode), InRange(w.ctl, fmt.mode),
           w.ok => Matched(w, S, fmt.mode),
           w.ok /\ "vblank" \in S => Fitted(w.ctl, fmt.mode),
           id = "vblank" => "exposure" \in S /\ (w.ok => f # "exposure")
    PROVE  UpTo(set_up(w, id, f), w, id, f, S)
<1> DEFINE v == w.ctl[id].val
           n == set_up(w, id, f)
           m == fmt.mode
<1>0. v \in Int /\ w.ok \in BOOLEAN
  BY DEF Worlds, CtlType
<1>1. CASE ~w.ok
  BY <1>0, <1>1 DEF set_up, Kept, UpTo
<1>2. CASE w.ok
  <2>1. /\ id = "vblank" => v \in vts_range(m).min .. vts_range(m).max
        /\ id = "exposure" => v <= w.ctl["exposure"].max
    BY DEF Limits, InRange
  <2>2. n = set_ctrl(w, id, v, m, f, TRUE)
    BY <1>2 DEF set_up
  <2> HIDE DEF n, v, m
  <2>3. SetTo(n, w, id, v, m, f, TRUE)
    <3>1. w.ok = TRUE /\ m \in Modes /\ Limits(w.ctl, m)
      BY <1>0, <1>2 DEF m
    <3>2. id = "vblank" => f # "exposure"
      BY <1>2
    <3> QED BY <1>0, <2>1, <2>2, <3>1, <3>2, SetCtrl
  <2>4. ASSUME n.ok, NEW j \in S \union {id}
        PROVE  n.reg[j] = coded(j, n.ctl[j].val, m)
    <3>1. CASE j = id
      BY <2>3, <2>4, <3>1 DEF SetTo
    <3>2. CASE j # id /\ j = "exposure"
      BY <1>2, <2>3, <2>4, <3>2 DEF SetTo, Matched, ExposureMatched, coded, m
    <3>3. CASE j \in Ids \ {id, "exposure"}
      BY <1>2, <2>3, <2>4, <3>3 DEF SetTo, Matched, m
    <3> QED BY <2>4, <3>1, <3>2, <3>3
  <2> QED BY <1>2, <2>3, <2>4 DEF SetTo, UpTo, Matched, n, m
<1> QED BY <1>1, <1>2

\* Set up without a failure, every register holds its control, and the
\* exposure's limit is that of the frame.
LEMMA HandlerSetup ==
    ASSUME NEW w \in Worlds, fmt.mode \in Modes, NEW f,
           Limits(w.ctl, fmt.mode), InRange(w.ctl, fmt.mode)
    PROVE  LET n == handler_setup(w, f)
           IN  /\ Kept(n, w, fmt.mode)
               /\ n.ok => Matched(n, Ids, fmt.mode) /\ Fitted(n.ctl, fmt.mode)
<1> DEFINE a == set_up(w, "exposure", f)
           b == set_up(a, "hflip", f)
           c == set_up(b, "vflip", f)
           d == set_up(c, "vblank", f)
           e == set_up(d, "gain", f)
           m == fmt.mode
<1>1. handler_setup(w, f) = e
  BY DEF handler_setup
<1> HIDE DEF a, b, c, d, e
<1>0. Matched(w, {}, m)
  BY DEF Matched
<1>a. /\ Kept(a, w, m)
      /\ a.ok => f # "exposure" /\ Matched(a, {"exposure"}, m)
  <2>1. "exposure" \in Ids /\ {} \in SUBSET Ids
    BY Names
  <2>2. {} \union {"exposure"} = {"exposure"}
    OBVIOUS
  <2>u. UpTo(a, w, "exposure", f, {})
    BY <1>0, <2>1, <2>2, SetUp DEF a
  <2> QED BY <1>0, <2>1, <2>2, <2>u DEF UpTo
<1>b. /\ Kept(b, a, m)
      /\ b.ok => a.ok /\ Matched(b, {"exposure", "hflip"}, m)
  <2>1. a \in Worlds /\ Limits(a.ctl, m) /\ InRange(a.ctl, m)
    BY <1>a DEF Kept
  <2>2. "hflip" \in Ids /\ {"exposure"} \in SUBSET Ids /\ "vblank" \notin {"exposure"}
    BY Names
  <2>3. {"exposure"} \union {"hflip"} = {"exposure", "hflip"}
    OBVIOUS
  <2>u. UpTo(b, a, "hflip", f, {"exposure"})
    BY <1>a, <2>1, <2>2, <2>3, SetUp DEF b
  <2> QED BY <1>a, <2>1, <2>2, <2>3, <2>u DEF UpTo
<1>c. /\ Kept(c, b, m)
      /\ c.ok => b.ok /\ Matched(c, {"exposure", "hflip", "vflip"}, m)
  <2>1. b \in Worlds /\ Limits(b.ctl, m) /\ InRange(b.ctl, m)
    BY <1>a, <1>b DEF Kept
  <2>2. /\ "vflip" \in Ids /\ {"exposure", "hflip"} \in SUBSET Ids
        /\ "vblank" \notin {"exposure", "hflip"}
    BY Names
  <2>3. {"exposure", "hflip"} \union {"vflip"} = {"exposure", "hflip", "vflip"}
    OBVIOUS
  <2>u. UpTo(c, b, "vflip", f, {"exposure", "hflip"})
    BY <1>b, <2>1, <2>2, <2>3, SetUp DEF c
  <2> QED BY <1>b, <2>1, <2>2, <2>3, <2>u DEF UpTo
<1>d. /\ Kept(d, c, m)
      /\ d.ok => /\ Matched(d, {"exposure", "hflip", "vflip", "vblank"}, m)
                 /\ Fitted(d.ctl, m)
  <2> DEFINE S == {"exposure", "hflip", "vflip"}
  <2>1. c \in Worlds /\ Limits(c.ctl, m) /\ InRange(c.ctl, m)
    BY <1>a, <1>b, <1>c DEF Kept
  <2>2. "vblank" \in Ids /\ S \in SUBSET Ids /\ "vblank" \notin S /\ "exposure" \in S
    BY Names
  <2>3. S \union {"vblank"} = {"exposure", "hflip", "vflip", "vblank"}
    OBVIOUS
  <2>4. c.ok => Matched(c, S, m) /\ f # "exposure"
    BY <1>a, <1>b, <1>c
  <2> HIDE DEF S
  <2>u. UpTo(d, c, "vblank", f, S)
    BY <2>1, <2>2, <2>3, <2>4, SetUp DEF d
  <2> QED BY <2>1, <2>2, <2>3, <2>4, <2>u DEF UpTo
<1>e. /\ Kept(e, d, m)
      /\ e.ok => Matched(e, Ids, m) /\ Fitted(e.ctl, m)
  <2> DEFINE S == {"exposure", "hflip", "vflip", "vblank"}
  <2>1. d \in Worlds /\ Limits(d.ctl, m) /\ InRange(d.ctl, m)
    BY <1>a, <1>b, <1>c, <1>d DEF Kept
  <2>2. "gain" \in Ids /\ S \in SUBSET Ids /\ "vblank" \in S
    BY Names
  <2>4. /\ d.ok => Matched(d, S, fmt.mode) /\ Fitted(d.ctl, fmt.mode)
    BY <1>d
  <2>3. S \union {"gain"} = Ids
    BY Names
  <2> HIDE DEF S
  <2>u. UpTo(e, d, "gain", f, S)
    BY <2>1, <2>2, <2>4, SetUp DEF e
  <2> QED BY <1>d, <2>1, <2>2, <2>3, <2>u DEF UpTo
<1> QED BY <1>1, <1>a, <1>b, <1>c, <1>d, <1>e DEF Kept

-----------------------------------------------------------------------------
(* The invariant *)

\* No transfer of a control that is changed while streaming has failed.
Trusted == ~FaultyCtrl \/ faults = 0

Types ==
    /\ ctl \in CtlType /\ reg \in RegType /\ fmt.mode \in Modes
    /\ pm \in [count : 0..1, powered : BOOLEAN]
    /\ wanted \in BOOLEAN /\ enabled \in BOOLEAN

\* Who has the sensor streaming.
Streams ==
    /\ wanted <=> pm.count > 0
    /\ wanted \/ reg.stream => enabled /\ phase = "bound"

\* What the registers of a sensor in use hold, and the limits of the controls.
Controlled ==
    /\ Limits(ctl, fmt.mode) /\ InRange(ctl, fmt.mode)
    /\ wanted /\ reg.stream =>
          /\ Matched(World, Ids, fmt.mode) /\ Fitted(ctl, fmt.mode)
          /\ reg.setup = "common" /\ reg.mode = fmt.mode

Good == Types /\ Streams /\ Controlled /\ ExposureFits
IInv == faults \in Nat /\ (Trusted => Good)

\* Matching registers expose within the frame.
LEMMA MatchedFits ==
    ASSUME NEW w \in Worlds, NEW m \in Modes, Limits(w.ctl, m), Fitted(w.ctl, m),
           Matched(w, Ids, m)
    PROVE  w.reg.exposure <= w.reg.vblank - EXPOSURE_MARGIN
<1>1. /\ w.reg["exposure"] = w.ctl["exposure"].val
      /\ w.reg["vblank"] = s5k5e3_modes[m].height + w.ctl["vblank"].val
  BY Names DEF Matched, coded
<1>2. w.ctl["exposure"].val <= s5k5e3_modes[m].height + w.ctl["vblank"].val - EXPOSURE_MARGIN
  BY DEF Limits, Fitted
<1>3. /\ s5k5e3_modes[m].height \in Int /\ w.ctl["vblank"].val \in Int
      /\ w.ctl["exposure"].val \in Int
  BY Names DEF Worlds, CtlType
<1> QED BY <1>1, <1>2, <1>3 DEF EXPOSURE_MARGIN

\* The world of the controls as they are.
LEMMA WorldIs ==
    ASSUME Types
    PROVE  World \in Worlds /\ World.ctl = ctl /\ World.reg = reg /\ World.ok = TRUE
  BY DEF Types, World, Worlds

\* The controls as probe() sets them up.
LEMMA InitControls ==
    init_controls \in CtlType /\ Limits(init_controls, 1) /\ InRange(init_controls, 1)
<1> DEFINE flip == [val |-> 0, min |-> 0, max |-> 1]
           max == s5k5e3_modes[1].vts_def - EXPOSURE_MARGIN
<1>1. /\ s5k5e3_modes[1].vts_def = 2025 /\ max = 2017
      /\ vts_range(1) \in [val : Int, min : Int, max : Int]
      /\ vts_range(1).val \in vts_range(1).min .. vts_range(1).max
  BY DEF s5k5e3_modes, EXPOSURE_MARGIN, vts_range, vts_def, VTS_MAX
<1>2. init_controls = [vblank |-> vts_range(1), hflip |-> flip, vflip |-> flip,
                       exposure |-> [val |-> max, min |-> EXPOSURE_MIN, max |-> max],
                       gain |-> [val |-> 32, min |-> 32, max |-> 512]]
  BY DEF init_controls
<1> HIDE DEF max
<1>3. init_controls \in CtlType
  BY <1>1, <1>2, Names DEF CtlType, EXPOSURE_MIN
<1>4. /\ init_controls["vblank"] = vts_range(1)
      /\ init_controls["exposure"] = [val |-> max, min |-> EXPOSURE_MIN, max |-> max]
  BY <1>2
<1> QED BY <1>1, <1>3, <1>4 DEF Limits, InRange, EXPOSURE_MIN

\* Without power, nothing streams.
LEMMA BlankIs == Blank \in RegType /\ Blank.stream = FALSE
  BY DEF Blank, RegType

\* Failures are counted, never forgotten.
LEMMA FailsGrow ==
    ASSUME faults \in Nat, NEW f, NEW S, Fails(f, S)
    PROVE  faults' \in Nat /\ (faults' = 0 => faults = 0 /\ f = "nothing")
  BY DEF Fails

-----------------------------------------------------------------------------
(* The operations *)

\* probe() and remove(), and whoever takes the power away.
LEMMA PowerStep ==
    ASSUME Good, (\E f : probe(f)) \/ remove \/ autosuspend \/ system_sleep
    PROVE  Good'
<1>0. /\ ctl \in CtlType /\ reg \in RegType /\ fmt.mode \in Modes
      /\ pm \in [count : 0..1, powered : BOOLEAN]
      /\ wanted \in BOOLEAN /\ enabled \in BOOLEAN
  BY DEF Good, Types
<1>1. CASE \E f : probe(f)
  <2>1. PICK f : probe(f)
    BY <1>1
  <2>2. /\ phase = "unbound" /\ reg' = reg /\ wanted' = wanted /\ enabled' = enabled
        /\ \/ UNCHANGED <<phase, pm, ctl, fmt>>
           \/ /\ ctl' = init_controls /\ fmt'.mode = 1
              /\ pm' = [count |-> 0, powered |-> TRUE]
    BY <2>1 DEF probe
  <2>3. ~wanted /\ ~reg.stream
    BY <2>2 DEF Good, Streams
  <2>4. Types'
    <3>1. 1 \in Modes /\ [count |-> 0, powered |-> TRUE] \in [count : 0..1, powered : BOOLEAN]
      BY Names
    <3>2. ctl' \in CtlType /\ fmt'.mode \in Modes
      BY <1>0, <2>2, <3>1, InitControls
    <3>3. pm' \in [count : 0..1, powered : BOOLEAN]
      BY <1>0, <2>2, <3>1
    <3> QED BY <1>0, <2>2, <3>2, <3>3 DEF Types
  <2>5. Streams'
    BY <1>0, <2>2, <2>3 DEF Streams, Good
  <2>6. Controlled'
    BY <2>2, <2>3, InitControls DEF Controlled, Good
  <2> QED BY <2>2, <2>3, <2>4, <2>5, <2>6 DEF Good, ExposureFits
<1>2. CASE remove \/ autosuspend \/ system_sleep
  <2>0. (pm.count > 0) \in BOOLEAN
    BY <1>0
  <2>a. /\ reg' = Blank /\ ctl' = ctl /\ fmt' = fmt /\ wanted' = wanted
        /\ \/ pm' = [pm EXCEPT !.powered = FALSE]
           \/ pm' = [pm EXCEPT !.powered = pm.count > 0]
    BY <1>2 DEF remove, autosuspend, system_sleep, power_off, in_use
  <2>1. /\ reg' = Blank /\ ctl' = ctl /\ fmt' = fmt /\ wanted' = wanted
        /\ pm'.count = pm.count /\ pm' \in [count : 0..1, powered : BOOLEAN]
    BY <1>0, <2>0, <2>a
  <2>2. \/ phase' = phase /\ enabled' = enabled
        \/ ~wanted /\ enabled' = FALSE
    BY <1>2 DEF remove, autosuspend, system_sleep
  <2>3. Types'
    BY <1>0, <2>1, <2>2, BlankIs DEF Types
  <2>4. Streams'
    BY <2>1, <2>2, BlankIs DEF Streams, Good
  <2>5. Controlled'
    BY <2>1, BlankIs DEF Controlled, Good
  <2> QED BY <2>1, <2>3, <2>4, <2>5, BlankIs DEF Good, ExposureFits
<1> QED BY <1>1, <1>2

\* A control set by the user; in use, nothing fails.
LEMMA UserStep ==
    ASSUME Good, NEW id \in Ids, NEW v \in Int, user_ctrl(id, v, "nothing")
    PROVE  Good'
<1> DEFINE w == s_ctrl(World, id, v, fmt.mode, "nothing", in_use)
           m == fmt.mode
<1>0. /\ m \in Modes /\ World \in Worlds /\ World.ctl = ctl /\ World.reg = reg
      /\ World.ok = TRUE /\ in_use \in BOOLEAN /\ Limits(ctl, m) /\ InRange(ctl, m)
      /\ (wanted <=> in_use)
  <2>1. in_use \in BOOLEAN
    BY DEF Good, Types, in_use
  <2> QED BY <2>1, WorldIs DEF Good, Types, in_use, Controlled, Streams
<1>1. /\ ctl' = w.ctl /\ reg' = w.reg
      /\ UNCHANGED <<phase, pm, fmt, enabled, wanted>>
  BY DEF user_ctrl, Keep
<1>n. "nothing" \notin Ids
  BY Names
<1>2. /\ Kept(w, World, m) /\ w.ok /\ (~in_use => w.reg = reg)
      /\ in_use /\ Matched(World, Ids, m) => Matched(w, Ids, m)
      /\ Fitted(ctl, m) => Fitted(w.ctl, m)
  <2>1. "nothing" # "exposure"
    OBVIOUS
  <2>2. CtrlSet(w, World, id, m, "nothing", in_use)
    BY <1>0, <2>1, SCtrl
  <2> QED BY <1>0, <1>n, <2>2 DEF CtrlSet
<1> HIDE DEF w
<1>3. /\ w \in Worlds /\ Limits(w.ctl, m) /\ InRange(w.ctl, m)
      /\ w.reg.setup = reg.setup /\ w.reg.mode = reg.mode /\ w.reg.stream = reg.stream
  BY <1>0, <1>2 DEF Kept
<1>4. Types'
  BY <1>1, <1>3 DEF Good, Types, Worlds
<1>5. Streams'
  BY <1>1, <1>3 DEF Good, Streams
<1>6. wanted /\ reg.stream => Matched(w, Ids, m) /\ Fitted(w.ctl, m)
  BY <1>0, <1>2 DEF Good, Controlled
<1>7. Controlled'
  <2>1. World'.ctl = w.ctl /\ World'.reg = w.reg
    BY <1>1 DEF World
  <2>2. Matched(w, Ids, m) => Matched(World, Ids, fmt.mode)'
    BY <1>1, <2>1 DEF Matched
  <2>3. /\ Limits(w.ctl, m) => Limits(ctl, fmt.mode)'
        /\ InRange(w.ctl, m) => InRange(ctl, fmt.mode)'
        /\ Fitted(w.ctl, m) => Fitted(ctl, fmt.mode)'
    BY <1>1 DEF Limits, InRange, Fitted
  <2> QED BY <1>1, <1>3, <1>6, <2>2, <2>3 DEF Good, Controlled
<1>8. ExposureFits'
  <2>1. CASE in_use
    BY <1>0, <1>1, <1>3, <1>6, <2>1, MatchedFits DEF ExposureFits
  <2>2. CASE ~in_use
    BY <1>1, <1>2, <2>2 DEF Good, ExposureFits
  <2> QED BY <2>1, <2>2
<1> QED BY <1>4, <1>5, <1>7, <1>8 DEF Good

\* A format is set only while nothing is in use.
LEMMA FormatStep ==
    ASSUME Good, NEW m \in Modes, set_pad_format(m) PROVE Good'
<1> DEFINE new == vts_range(m)
           r == [World EXCEPT !.ctl.vblank.min = new.min, !.ctl.vblank.max = new.max]
           v == r.ctl.vblank.val
           w == s_ctrl(r, "vblank", v, m, "nothing", in_use)
           n == s_ctrl(w, "vblank", new.val, m, "nothing", in_use)
<1>0. /\ World \in Worlds /\ World.ctl = ctl /\ World.reg = reg /\ World.ok = TRUE
      /\ ~enabled /\ ~wanted /\ ~reg.stream /\ ~in_use /\ in_use \in BOOLEAN
  <2>1. ~enabled
    BY DEF set_pad_format
  <2>2. ~wanted /\ ~reg.stream /\ ~in_use
    BY <2>1 DEF Good, Streams, in_use
  <2>3. in_use \in BOOLEAN
    BY DEF Good, Types, in_use
  <2> QED BY <2>1, <2>2, <2>3, WorldIs DEF Good
<1>1. /\ ctl' = n.ctl /\ reg' = n.reg /\ fmt'.mode = m
      /\ UNCHANGED <<phase, pm, enabled, wanted>>
  BY DEF set_pad_format, Keep
<1>m. new.min \in Int /\ new.max \in Int /\ new.val \in Int /\ new.val \in new.min .. new.max
  BY Names
<1>i. "vblank" \in Ids /\ "exposure" \in Ids /\ "nothing" \notin Ids
  BY Names
<1> HIDE DEF new
<1>2. /\ r.ctl = [ctl EXCEPT !["vblank"].min = new.min, !["vblank"].max = new.max]
      /\ r.reg = reg /\ r.ok = TRUE /\ r \in Worlds
  <2>1. [ctl EXCEPT !["vblank"].min = new.min, !["vblank"].max = new.max] \in CtlType
    BY <1>m, <1>i DEF Good, Types, CtlType
  <2> QED BY <1>0, <2>1 DEF Worlds
<1> HIDE DEF r
<1>3. Limits(r.ctl, m)
  <2>1. /\ r.ctl["vblank"].min = new.min /\ r.ctl["vblank"].max = new.max
        /\ r.ctl["exposure"] = ctl["exposure"]
    BY <1>2, <1>i DEF Good, Types, CtlType
  <2> QED BY <2>1 DEF Good, Controlled, Limits, new
<1>4. v \in Int
  BY <1>2, <1>i DEF Worlds, CtlType
<1> HIDE DEF v
<1>5. CtrlSet(w, r, "vblank", m, "nothing", in_use)
  <2>1. r \in Worlds /\ r.ok = TRUE
    BY <1>2
  <2>2. in_use \in BOOLEAN /\ (in_use => "nothing" # "exposure")
    BY <1>0
  <2>3. "vblank" \in Ids
    BY <1>i
  <2> QED BY <1>3, <1>4, <2>1, <2>2, <2>3, SCtrl, ZenonT(30)
<1> HIDE DEF w
<1>6. /\ w \in Worlds /\ w.ok = TRUE /\ Limits(w.ctl, m) /\ InRange(w.ctl, m)
      /\ w.reg = reg
  <2>1. w.ok
    BY <1>0, <1>5 DEF CtrlSet
  <2> QED BY <1>0, <1>2, <1>5, <2>1 DEF CtrlSet, Kept, Worlds
<1>7. CtrlSet(n, w, "vblank", m, "nothing", in_use)
  BY <1>0, <1>6, <1>m, <1>i, SCtrl
<1> HIDE DEF n
<1>8. /\ n \in Worlds /\ Limits(n.ctl, m) /\ InRange(n.ctl, m) /\ n.reg = reg
  BY <1>0, <1>6, <1>7 DEF CtrlSet, Kept
<1>9. Types'
  BY <1>1, <1>8 DEF Good, Types, Worlds
<1>10. Streams'
  BY <1>1, <1>8 DEF Good, Streams
<1>11. Controlled'
  <2>1. /\ Limits(n.ctl, m) => Limits(ctl, fmt.mode)'
        /\ InRange(n.ctl, m) => InRange(ctl, fmt.mode)'
    BY <1>1 DEF Limits, InRange
  <2> QED BY <1>0, <1>1, <1>8, <2>1 DEF Controlled
<1> QED BY <1>0, <1>1, <1>8, <1>9, <1>10, <1>11 DEF Good, ExposureFits

\* A start writes the tables and every control, or fails.
LEMMA StartStep ==
    ASSUME Good, NEW f, enable_streams(f) PROVE Good'
<1> DEFINE t  == [World EXCEPT !.reg = tables(f)]
           early == f \in {"init", "common", "mode"}
           w  == IF early THEN [t EXCEPT !.ok = FALSE] ELSE handler_setup(t, f)
           ok == w.ok /\ f # "stream"
           m  == fmt.mode
<1>0. /\ World \in Worlds /\ World.ctl = ctl /\ World.reg = reg /\ World.ok = TRUE
      /\ m \in Modes /\ Limits(ctl, m) /\ InRange(ctl, m)
      /\ phase = "bound" /\ ~wanted /\ ~enabled /\ ~reg.stream /\ fmt' = fmt
      /\ phase' = phase /\ reg \in RegType
  BY WorldIs DEF Good, Types, Streams, Controlled, enable_streams
<1>1. CASE f \in PowerFaults
  <2>1. UNCHANGED <<reg, pm, ctl, enabled, wanted>>
    BY <1>1 DEF enable_streams
  <2>2. Types' /\ Streams' /\ ExposureFits'
    BY <1>0, <2>1 DEF Good, Types, Streams, ExposureFits
  <2>3. Controlled'
    BY <1>0, <2>1 DEF Controlled, Limits, InRange
  <2> QED BY <2>2, <2>3 DEF Good
<1>2. CASE f \notin PowerFaults
  <2>1. /\ ctl' = w.ctl /\ reg' = [w.reg EXCEPT !.stream = ok]
        /\ \/ /\ ok /\ pm' = [count |-> 1, powered |-> TRUE]
              /\ enabled' = TRUE /\ wanted' = TRUE
           \/ /\ ~ok /\ pm' = [count |-> 0, powered |-> TRUE]
              /\ enabled' = enabled /\ wanted' = wanted
    BY <1>2 DEF enable_streams, enable_failed
  <2>2. /\ tables(f) \in RegType
        /\ ~early => tables(f).setup = "common" /\ tables(f).mode = m
    <3>1. m \in Int
      BY <1>0, Names
    <3>2. init_regs(reg) \in RegType
      BY <1>0 DEF RegType, init_regs
    <3>3. common_regs(init_regs(reg)) \in RegType
          /\ common_regs(init_regs(reg)).setup = "common"
      BY <3>2 DEF RegType, common_regs
    <3>4. /\ mode_regs(common_regs(init_regs(reg)), m) \in RegType
          /\ mode_regs(common_regs(init_regs(reg)), m).setup = "common"
          /\ mode_regs(common_regs(init_regs(reg)), m).mode = m
      BY <3>1, <3>3 DEF RegType, mode_regs
    <3> QED BY <1>0, <3>2, <3>3, <3>4 DEF tables
  <2>3. t \in Worlds /\ t.ctl = ctl /\ t.reg = tables(f)
    BY <1>0, <2>2 DEF Worlds
  <2> HIDE DEF t
  <2>4. /\ w \in Worlds /\ Limits(w.ctl, m) /\ InRange(w.ctl, m)
        /\ ok => /\ Matched(w, Ids, m) /\ Fitted(w.ctl, m)
                 /\ w.reg.setup = "common" /\ w.reg.mode = m
        /\ ok \in BOOLEAN
    <3>1. CASE early
      <4>1. w = [t EXCEPT !.ok = FALSE]
        BY <3>1
      <4>2. w \in Worlds /\ w.ctl = ctl /\ w.ok = FALSE
        BY <2>3, <4>1 DEF Worlds
      <4> QED BY <1>0, <4>2
    <3>2. CASE ~early
      <4>1. w = handler_setup(t, f)
        BY <3>2
      <4> HIDE DEF w, early
      <4>2. Kept(w, t, m) /\ (w.ok => Matched(w, Ids, m) /\ Fitted(w.ctl, m))
        BY <1>0, <2>3, <4>1, HandlerSetup
      <4> QED BY <1>0, <2>2, <2>3, <3>2, <4>2 DEF Kept, Worlds
    <3> QED BY <3>1, <3>2
  <2> HIDE DEF w
  <2>5. /\ reg' \in RegType /\ (reg'.stream <=> ok)
        /\ reg'.setup = w.reg.setup /\ reg'.mode = w.reg.mode
        /\ \A id \in Ids : reg'[id] = w.reg[id]
    <3>1. w.reg \in RegType /\ ok \in BOOLEAN
      BY <2>4 DEF Worlds
    <3>2. reg' = [w.reg EXCEPT !.stream = ok]
      BY <2>1
    <3> HIDE DEF ok
    <3>3. reg' \in RegType /\ (reg'.stream <=> ok) /\ reg'.setup = w.reg.setup
          /\ reg'.mode = w.reg.mode
      BY <3>1, <3>2 DEF RegType
    <3>4. \A id \in Ids : reg'[id] = w.reg[id]
      BY <3>1, <3>2, Names DEF RegType
    <3> QED BY <3>3, <3>4
  <2> HIDE DEF ok
  <2>6. Types'
    <3>0. /\ [count |-> 0, powered |-> TRUE] \in [count : 0..1, powered : BOOLEAN]
          /\ [count |-> 1, powered |-> TRUE] \in [count : 0..1, powered : BOOLEAN]
      OBVIOUS
    <3>1. pm' \in [count : 0..1, powered : BOOLEAN]
      BY <2>1, <3>0
    <3>2. ctl' \in CtlType /\ reg' \in RegType /\ fmt'.mode \in Modes
      BY <1>0, <2>1, <2>4, <2>5 DEF Worlds
    <3>3. wanted' \in BOOLEAN /\ enabled' \in BOOLEAN
      BY <2>1 DEF Good, Types
    <3> QED BY <3>1, <3>2, <3>3 DEF Types
  <2>7. Streams'
    BY <1>0, <2>1, <2>5 DEF Streams
  <2>8. Controlled'
    <3>1. World'.ctl = w.ctl /\ World'.reg = reg'
      BY <2>1 DEF World
    <3>2. Matched(w, Ids, m) => Matched(World, Ids, fmt.mode)'
      BY <1>0, <2>5, <3>1 DEF Matched
    <3>3. /\ Limits(w.ctl, m) => Limits(ctl, fmt.mode)'
          /\ InRange(w.ctl, m) => InRange(ctl, fmt.mode)'
          /\ Fitted(w.ctl, m) => Fitted(ctl, fmt.mode)'
      BY <1>0, <2>1 DEF Limits, InRange, Fitted
    <3> QED BY <1>0, <2>4, <2>5, <3>2, <3>3 DEF Controlled
  <2>9. ExposureFits'
    <3>1. reg'.exposure = w.reg.exposure /\ reg'.vblank = w.reg.vblank
      BY <2>5, Names
    <3> QED BY <1>0, <2>4, <2>5, <3>1, MatchedFits DEF ExposureFits
  <2> QED BY <2>6, <2>7, <2>8, <2>9 DEF Good
<1> QED BY <1>1, <1>2

\* A stop that fails leaves the registers as they are.
LEMMA StopStep ==
    ASSUME Good, NEW f, disable_streams(f) PROVE Good'
<1>1. /\ wanted /\ reg' = [reg EXCEPT !.stream = reg.stream /\ f = "stream"]
      /\ pm' = [pm EXCEPT !.count = 0] /\ enabled' = (f = "stream") /\ wanted' = FALSE
      /\ UNCHANGED <<phase, ctl, fmt>>
  BY DEF disable_streams
<1>2. reg \in RegType /\ reg.stream \in BOOLEAN
  BY DEF Good, Types, RegType
<1>3. /\ reg' \in RegType /\ (reg'.stream <=> reg.stream /\ f = "stream")
      /\ reg'.exposure = reg.exposure /\ reg'.vblank = reg.vblank
  BY <1>1, <1>2 DEF RegType
<1>4. Types'
  <2>1. pm \in [count : 0..1, powered : BOOLEAN] /\ ctl \in CtlType /\ fmt.mode \in Modes
    BY DEF Good, Types
  <2>2. pm' \in [count : 0..1, powered : BOOLEAN]
    BY <1>1, <2>1
  <2>3. wanted' \in BOOLEAN /\ enabled' \in BOOLEAN
    BY <1>1
  <2> QED BY <1>1, <1>3, <2>1, <2>2, <2>3 DEF Types
<1>5. Streams'
  BY <1>1, <1>3 DEF Good, Types, Streams
<1>6. Controlled'
  <2>1. Limits(ctl, fmt.mode)' /\ InRange(ctl, fmt.mode)'
    BY <1>1 DEF Good, Controlled, Limits, InRange
  <2> QED BY <1>1, <2>1 DEF Controlled
<1> QED BY <1>3, <1>4, <1>5, <1>6 DEF Good, ExposureFits

-----------------------------------------------------------------------------
(* The theorems *)

\* What the user asks for is a number.
LEMMA Asked == Vblanks \subseteq Int /\ Exposures \subseteq Int /\ Gains \subseteq Int
  BY S5K5E3Assumption

\* The first state has the sensor unbound and without power.
LEMMA GoodInit == Init => IInv
<1> SUFFICES ASSUME Init PROVE faults \in Nat /\ Good
  BY DEF IInv
<1>1. /\ phase = "unbound" /\ reg = Blank /\ pm = [count |-> 0, powered |-> FALSE]
      /\ ctl = init_controls /\ fmt.mode = 1 /\ enabled = FALSE /\ wanted = FALSE
      /\ faults = 0
  BY DEF Init
<1>2. Types
  <2>1. 1 \in Modes /\ [count |-> 0, powered |-> FALSE] \in [count : 0..1, powered : BOOLEAN]
    BY Names
  <2> QED BY <1>1, <2>1, InitControls, BlankIs DEF Types
<1>3. Streams /\ Controlled /\ ExposureFits
  BY <1>1, InitControls, BlankIs DEF Streams, Controlled, ExposureFits
<1> QED BY <1>1, <1>2, <1>3 DEF Good

\* Every step keeps the invariant.
LEMMA GoodStep == IInv /\ [Next]_vars => IInv'
<1> SUFFICES ASSUME IInv, [Next]_vars PROVE IInv'
  OBVIOUS
<1>0. faults \in Nat
  BY DEF IInv
<1>1. CASE UNCHANGED vars
  BY <1>1 DEF vars, IInv, Trusted, Good, Types, Streams, Controlled, ExposureFits,
              Limits, InRange, Fitted, Matched, World
<1>2. ASSUME remove \/ autosuspend \/ system_sleep \/ (\E m \in Modes : set_pad_format(m))
      PROVE  IInv'
  <2>1. faults' = faults
    BY <1>2 DEF remove, autosuspend, system_sleep, set_pad_format
  <2>2. Good => Good'
    BY <1>2, PowerStep, FormatStep
  <2> QED BY <2>1, <2>2 DEF IInv, Trusted
<1>3. ASSUME NEW f, probe(f) \/ enable_streams(f) \/ disable_streams(f) PROVE IInv'
  <2>1. faults' \in Nat /\ (faults' = 0 => faults = 0)
    BY <1>0, <1>3, FailsGrow DEF probe, enable_streams, disable_streams
  <2>2. Good => Good'
    BY <1>3, PowerStep, StartStep, StopStep
  <2> QED BY <2>1, <2>2 DEF IInv, Trusted
<1>4. ASSUME NEW f, NEW id \in Ids, NEW v \in Int, user_ctrl(id, v, f) PROVE IInv'
  <2>1. Fails(f, IF in_use /\ FaultyCtrl THEN {id, "exposure"} ELSE {})
    BY <1>4 DEF user_ctrl
  <2>2. faults' \in Nat /\ (faults' = 0 => faults = 0 /\ f = "nothing")
    BY <1>0, <2>1, FailsGrow
  <2>3. ~FaultyCtrl => f = "nothing"
    BY <2>1 DEF Fails
  <2>4. ASSUME Trusted' PROVE Good'
    <3>1. f = "nothing" /\ Trusted
      BY <2>2, <2>3, <2>4 DEF Trusted
    <3>2. Good
      BY <3>1 DEF IInv
    <3> QED BY <1>4, <3>1, <3>2, UserStep
  <2> QED BY <2>2, <2>4 DEF IInv
<1>5. ASSUME NEW f, Operations(f) PROVE IInv'
  <2>1. 0 \in Int /\ 1 \in Int /\ Flips \subseteq Ids
        /\ {"vblank", "exposure", "gain"} \subseteq Ids
    BY Names DEF Flips
  <2>2. CASE probe(f) \/ enable_streams(f) \/ disable_streams(f)
    BY <1>3, <2>2
  <2>3. CASE \/ \E v \in Vblanks : user_ctrl("vblank", v, f)
             \/ \E v \in Exposures : user_ctrl("exposure", v, f)
             \/ \E v \in Gains : user_ctrl("gain", v, f)
    BY <1>4, <2>1, <2>3, Asked
  <2>4. CASE \E x \in Flips, v \in {0, 1} : user_ctrl(x, v, f)
    BY <1>4, <2>1, <2>4
  <2> QED BY <1>5, <2>2, <2>3, <2>4 DEF Operations
<1> QED BY <1>1, <1>2, <1>5 DEF Next

\* A sensor that streams exposes within its frame, in whatever order format,
\* blanking, exposure, starts, stops, sleep and failures come, until the transfer
\* of a control fails that is changed while streaming (set_ctrl(), "Keep the
\* exposure within the new frame length").
THEOREM ExposureFitsAlways == Spec => [](~FaultyCtrl \/ faults = 0 => ExposureFits)
<1>1. IInv => (~FaultyCtrl \/ faults = 0 => ExposureFits)
  BY DEF IInv, Trusted, Good
<1> QED BY <1>1, GoodInit, GoodStep, PTL DEF Spec

\* Until then, what a sensor in use has in its registers is the format's mode and
\* the last value of every control, those set while it slept too
\* (enable_streams()).
THEOREM RegsMatchAlways == Spec => [](~FaultyCtrl \/ faults = 0 => RegsMatch)
<1>1. IInv => (~FaultyCtrl \/ faults = 0 => RegsMatch)
  <2> SUFFICES ASSUME IInv, ~FaultyCtrl \/ faults = 0, in_use, reg.stream
               PROVE  /\ reg.setup = "common" /\ reg.mode = fmt.mode
                      /\ reg.vblank = s5k5e3_modes[fmt.mode].height + ctl.vblank.val
                      /\ \A id \in Ids \ {"vblank"} : reg[id] = ctl[id].val
    BY DEF RegsMatch
  <2>1. Good /\ wanted
    BY DEF IInv, Trusted, Good, Streams, in_use
  <2>2. Matched(World, Ids, fmt.mode) /\ reg.setup = "common" /\ reg.mode = fmt.mode
    BY <2>1 DEF Good, Controlled
  <2>3. World.reg = reg /\ World.ctl = ctl
    BY DEF World
  <2> QED BY <2>2, <2>3, Names DEF Matched, coded
<1> QED BY <1>1, GoodInit, GoodStep, PTL DEF Spec

-----------------------------------------------------------------------------
(* The digitizer: its inductive invariant *)

OpNames == {"none", "probe", "open", "close", "inhibit", "uninhibit", "suspend",
          "resume", "unbind"}

Steps == {"done", "supply_on", "reset_off", "irq_on", "query", "irq_off",
          "release", "reset_on", "supply_off", "cleanup", "end"}

CoreType == [bound : BOOLEAN, open : BOOLEAN, inhibited : BOOLEAN, asleep : BOOLEAN]

OpType == [name : OpNames, pc : Steps, tries : Nat, restore : BOOLEAN]

TypeOK ==
    /\ power \in [supply : BOOLEAN, irq : BOOLEAN]
    /\ prox \in BOOLEAN
    /\ shown \in [tool : BOOLEAN, x : Int, pressure : Int]
    /\ op \in OpType
    /\ in \in CoreType
    /\ hw \in [supply : BOOLEAN, reset : BOOLEAN]
    /\ pen \in [at : Pens, told : BOOLEAN]
    /\ irqt \in [pc : {"idle", "report"}, data : Pens]
    /\ ops \in Nat /\ moves \in Nat /\ failures \in Nat

\* The digitizer is to be on.
used(i) == i.bound /\ device_enabled(i) /\ ~i.asleep

\* An operation that switches the digitizer on will leave it in use, or is a
\* suspend that is undone; one that switches it off, or that does not switch
\* it, will leave it out of use.
Course ==
    /\ op.name = "none" <=> op.pc = "done"
    /\ op.name \notin {"none", "probe"} => in.bound
    /\ ~in.bound => ~in.open
    /\ op.name = "probe" => ~in.bound /\ op.pc \notin {"irq_on", "irq_off", "release", "end"}
    /\ op.restore => op.name = "suspend" /\ used(in)
    /\ op.pc \in {"supply_on", "reset_off", "irq_on"} =>
        \/ op.name = "probe"
        \/ op.name \in {"open", "uninhibit", "resume"} /\ used(result(TRUE))
        \/ op.restore /\ failures > 0
    /\ op.pc \in {"irq_off", "release", "reset_on", "supply_off"} =>
        op.name \in {"probe", "close", "inhibit", "suspend", "unbind"}
    /\ op.pc = "cleanup" => op.name \in {"probe", "unbind"}
    /\ op.pc = "query" => op.name = "probe"
    /\ op.pc = "end" => op.name \notin {"none", "probe", "unbind"} /\ ~used(result(TRUE))

\* The interrupt is device_enabled only while the digitizer is in use, has power and
\* is out of reset, at rest or about to be switched off; where an operation
\* ends, reset is asserted unless the interrupt is device_enabled.
Heard ==
    /\ power.supply = hw.supply
    /\ power.irq => /\ hw.supply /\ ~hw.reset /\ used(in)
                    /\ op.pc \in {"done", "irq_off"}
    /\ op.pc = "irq_off" => power.irq
    /\ op.pc \in {"done", "end", "cleanup", "supply_on", "supply_off"} /\ ~power.irq =>
        hw.reset
    /\ op.pc \in {"reset_off", "irq_on", "query", "supply_off"} => hw.supply
    /\ op.pc = "irq_on" => ~hw.reset

\* A packet is on its way only while the interrupt is device_enabled; the pen is in
\* proximity exactly while it is shown, and only until it is released.
Packet ==
    /\ irqt.pc = "report" => power.irq
    /\ shown.tool = prox
    /\ prox => power.irq \/ op.pc = "release"

\* While nothing has failed, what is at rest is as it is used.
Rest ==
    failures = 0 =>
        /\ op.name = "none" => hw.supply = used(in) /\ power.irq = used(in)
        /\ op.pc = "end" => ~hw.supply

PenInv == TypeOK /\ Course /\ Heard /\ Packet /\ Rest

-----------------------------------------------------------------------------
(* Helpers *)

\* Every position of the pen is a packet with a tool, a position and a pressure.
LEMMA PenType ==
    ASSUME NEW p \in Pens
    PROVE  p.near \in BOOLEAN /\ p.special \in BOOLEAN /\ p.x \in Int /\ p.pressure \in Int
<1> DEFINE Packets == [near : BOOLEAN, special : BOOLEAN, x : Int, pressure : Int]
<1>1. ASSUME NEW a \in Packets, NEW x \in Int, NEW y \in Int
      PROVE  /\ [a EXCEPT !.near = TRUE, !.x = x, !.pressure = y] \in Packets
             /\ [a EXCEPT !.near = TRUE, !.x = x] \in Packets
             /\ [a EXCEPT !.near = TRUE, !.pressure = x] \in Packets
             /\ [a EXCEPT !.near = TRUE, !.special = TRUE] \in Packets
  OBVIOUS
<1>2. Away \in Packets
  BY DEF Away
<1>3. MaxX \in Int /\ MaxPressure \in Int /\ MaxX + 1 \in Int /\ MaxPressure + 1 \in Int
  BY PenAssumption
<1> HIDE DEF Packets
<1>4. [Away EXCEPT !.near = TRUE, !.x = MaxX, !.pressure = MaxPressure] \in Packets
  BY <1>1, <1>2, <1>3, Zenon
<1>5. [Away EXCEPT !.near = TRUE, !.x = MaxX + 1] \in Packets
  BY <1>1, <1>2, <1>3, Zenon
<1>6. [Away EXCEPT !.near = TRUE, !.pressure = MaxPressure + 1] \in Packets
  BY <1>1, <1>2, <1>3, Zenon
<1>7. [Away EXCEPT !.near = TRUE, !.special = TRUE] \in Packets
  BY <1>1, <1>2, <1>3, Zenon
<1>8. p \in Packets
  BY <1>2, <1>4, <1>5, <1>6, <1>7, Zenon DEF Pens
<1> QED BY <1>8 DEF Packets

\* What an operation leaves of the input and the driver core is well typed.
LEMMA ResultType ==
    ASSUME TypeOK, op.name # "none", NEW ok \in BOOLEAN
    PROVE  result(ok) \in CoreType
<1>1. in \in CoreType /\ op.name \in OpNames \ {"none"}
  BY DEF TypeOK, OpType
<1>2. CASE op.name \in {"probe", "unbind"}
  BY <1>1, <1>2 DEF result, CoreType
<1>3. CASE op.name \in {"open", "close"}
  BY <1>1, <1>3 DEF result, CoreType
<1>4. CASE op.name \in {"inhibit", "uninhibit"}
  BY <1>1, <1>4 DEF result, CoreType
<1>5. CASE op.name \in {"suspend", "resume"}
  BY <1>1, <1>5 DEF result, CoreType
<1> QED BY <1>1, <1>2, <1>3, <1>4, <1>5 DEF OpNames

\* A call changes nothing but the number of failures, and counts its own.
LEMMA CallFaults ==
    ASSUME TypeOK, NEW ok, Call(ok)
    PROVE  /\ ok \in BOOLEAN /\ failures' \in Nat /\ (failures > 0 => failures' > 0)
           /\ (~ok => failures' > 0) /\ (ok => failures' = failures)
  BY DEF TypeOK, Call

\* No operation.
LEMMA NoneType ==
    /\ None \in OpType /\ None.name = "none" /\ None.pc = "done"
    /\ ~None.restore
  BY DEF None, OpType, OpNames, Steps

\* What an operation will leave does not change until it ends.
LEMMA SameResult ==
    ASSUME op'.name = op.name, in' = in
    PROVE  result(TRUE)' = result(TRUE)
  BY DEF result

\* An operation that switches the digitizer off leaves it out of use.
LEMMA OutOfUse ==
    ASSUME TypeOK, Course, NEW ok \in BOOLEAN,
           op.name \in {"probe", "close", "inhibit", "suspend", "unbind"},
           ok \/ op.name \in {"probe", "unbind"}
    PROVE  ~used(result(ok))
<1>1. in \in CoreType
  BY DEF TypeOK
<1>2. CASE op.name \in {"probe", "unbind"}
  BY <1>1, <1>2 DEF Course, result, used, device_enabled, CoreType
<1>3. CASE op.name \in {"close", "inhibit", "suspend"}
  BY <1>1, <1>3 DEF Course, result, used, device_enabled, CoreType
<1> QED BY <1>2, <1>3

\* An operation that ends leaves none, and an open device is a bound one.
LEMMA FinishCourse ==
    ASSUME TypeOK, Course, op.name # "none", NEW ok \in BOOLEAN, Finish(ok)
    PROVE  Course' /\ op' = None /\ op'.name = "none" /\ op'.pc = "done" /\ in' = result(ok)
<1>1. in \in CoreType /\ op.name \in OpNames
  BY DEF TypeOK, OpType
<1>2. op' = None /\ op'.name = "none" /\ op'.pc = "done" /\ ~op'.restore /\ in' = result(ok)
  BY NoneType DEF Finish
<1>3. ~in'.bound => ~in'.open
  <2>1. CASE op.name \in {"probe", "unbind"}
    BY <1>1, <1>2, <2>1 DEF Course, result, CoreType
  <2>2. CASE op.name \in {"open", "close"}
    BY <1>1, <1>2, <2>2 DEF Course, result, CoreType
  <2>3. CASE op.name \in {"inhibit", "uninhibit", "suspend", "resume"}
    BY <1>1, <1>2, <2>3 DEF Course, result, CoreType
  <2> QED BY <1>1, <2>1, <2>2, <2>3 DEF OpNames, Course
<1>4. Course'
  BY <1>2, <1>3 DEF Course
<1> QED BY <1>2, <1>4

\* Ending an operation, and going to its next step, keep the types.
LEMMA FinishType ==
    ASSUME TypeOK, op.name # "none", NEW ok \in BOOLEAN, Finish(ok)
    PROVE  op' \in OpType /\ in' \in CoreType
  BY ResultType, NoneType DEF Finish

LEMMA GotoType ==
    ASSUME TypeOK, NEW s \in Steps, Goto(s)
    PROVE  /\ op' \in OpType /\ op'.pc = s
           /\ op'.name = op.name /\ op'.tries = op.tries /\ op'.restore = op.restore
  BY DEF TypeOK, OpType, Goto

\* Taking the pen away.
LEMMA ReleaseInput ==
    ASSUME TypeOK, release_input
    PROVE  /\ shown' \in [tool : BOOLEAN, x : Int, pressure : Int]
           /\ ~prox' /\ (shown.tool = prox => ~shown'.tool)
<1> DEFINE Shown == [tool : BOOLEAN, x : Int, pressure : Int]
<1>1. ASSUME NEW s \in Shown, NEW b \in BOOLEAN, NEW z \in Int
      PROVE  /\ [s EXCEPT !.tool = b, !.pressure = z] \in Shown
             /\ [s EXCEPT !.tool = b, !.pressure = z].tool = b
  OBVIOUS
<1>2. shown \in [tool : BOOLEAN, x : Int, pressure : Int] /\ prox \in BOOLEAN
  BY DEF TypeOK
<1>3. CASE prox
  <2>1. shown' = [shown EXCEPT !.tool = FALSE, !.pressure = 0] /\ prox' = FALSE
    BY <1>3 DEF release_input
  <2>2. 0 \in Int /\ FALSE \in BOOLEAN /\ shown \in Shown
    BY <1>2
  <2> HIDE DEF Shown
  <2>3. shown' \in Shown /\ shown'.tool = FALSE
    BY <1>1, <2>1, <2>2, Zenon
  <2> QED BY <2>1, <2>3 DEF Shown
<1>4. CASE ~prox
  BY <1>2, <1>4 DEF release_input
<1> QED BY <1>3, <1>4

\* probe() begins with the digitizer off and nothing shown.
LEMMA InvInit == PenInit => PenInv
<1> SUFFICES ASSUME PenInit PROVE PenInv
  OBVIOUS
<1>1. TypeOK
  <2>1. op \in OpType
    BY NoneType DEF PenInit, OpType, OpNames, Steps
  <2>2. Away \in Pens
    BY DEF Pens
  <2>3. irqt \in [pc : {"idle", "report"}, data : Pens] /\ pen \in [at : Pens, told : BOOLEAN]
    BY <2>2 DEF PenInit, Idle
  <2>4. shown \in [tool : BOOLEAN, x : Int, pressure : Int] /\ in \in CoreType
    BY DEF PenInit, Gone, CoreType
  <2> QED BY <2>1, <2>3, <2>4 DEF PenInit, TypeOK
<1>2. op.name = "probe" /\ op.pc = "supply_on" /\ ~op.restore
  BY NoneType DEF PenInit, OpType
<1>3. Course
  BY <1>2 DEF PenInit, Course
<1>4. Heard /\ Packet /\ Rest
  BY <1>2 DEF PenInit, Heard, Packet, Rest, Idle, Gone
<1> QED BY <1>1, <1>3, <1>4 DEF PenInv

\* Starting an operation: it begins where the state calls for it.
LEMMA InvStart ==
    ASSUME PenInv, NEW name \in OpNames \ {"none", "probe"},
           NEW pc \in {"irq_off", "release", "supply_on", "reset_off", "end", "cleanup"},
           NEW restore \in BOOLEAN, Start(name, pc, restore),
           restore => name = "suspend" /\ used(in),
           pc \in {"supply_on", "reset_off"} =>
               name \in {"open", "uninhibit", "resume"} /\ used(result(TRUE)'),
           pc = "supply_on" => ~power.supply, pc = "reset_off" => power.supply,
           pc \in {"irq_off", "release"} =>
               name \in {"close", "inhibit", "suspend", "unbind"},
           pc = "cleanup" => name = "unbind",
           pc = "irq_off" <=> power.irq,
           pc = "end" => ~power.irq /\ name # "unbind" /\ ~used(result(TRUE)'),
           pc = "end" /\ failures = 0 => ~hw.supply
    PROVE  PenInv'
<1>1. TypeOK'
  <2>1. op' \in OpType
    BY NoneType DEF Start, OpType, Steps
  <2> QED BY <2>1 DEF PenInv, Start, TypeOK
<1>2. Course'
  BY DEF PenInv, Start, TypeOK, Course, Heard, OpType, None, OpNames, Steps,
        used, device_enabled, CoreType
<1>3. Heard'
  BY DEF PenInv, Start, TypeOK, Course, Heard, None, used, device_enabled
<1>4. Packet'
  BY DEF PenInv, Start, TypeOK, Course, Heard, Packet, None
<1>5. Rest'
  BY DEF PenInv, Start, TypeOK, Rest, None
<1> QED BY <1>1, <1>2, <1>3, <1>4, <1>5 DEF PenInv
\* An operation that gets or does not get its supply.
LEMMA InvSupplyOn == ASSUME PenInv, NEW ok, supply_on(ok) PROVE PenInv'
<1>0. /\ TypeOK /\ Course /\ op.pc = "supply_on" /\ op.name # "none" /\ ok \in BOOLEAN
      /\ "reset_off" \in Steps /\ FALSE \in BOOLEAN
  BY CallFaults DEF PenInv, Course, supply_on, Steps
<1>on. ASSUME ok
       PROVE  /\ op' \in OpType /\ op'.pc = "reset_off" /\ op'.name = op.name
              /\ op'.restore = op.restore /\ in' = in /\ failures' = failures
              /\ hw' = [hw EXCEPT !.supply = TRUE] /\ power' = [power EXCEPT !.supply = TRUE]
  BY <1>0, <1>on, GotoType, CallFaults DEF supply_on
<1>off. ASSUME ~ok
        PROVE  /\ Finish(FALSE) /\ op' \in OpType /\ in' \in CoreType /\ op' = None
               /\ hw' = hw /\ power' = power
  BY <1>0, <1>off, FinishType, CallFaults DEF supply_on, Finish
<1>1. TypeOK'
  <2>1. op' \in OpType /\ in' \in CoreType
    BY <1>0, <1>on, <1>off DEF TypeOK
  <2> QED BY <1>0, <1>on, <1>off, <2>1, CallFaults DEF TypeOK, supply_on
<1>2. Course'
  <2>1. CASE ok
    <3>1. result(TRUE)' = result(TRUE)
      BY <1>on, <2>1, SameResult
    <3> QED BY <1>0, <1>on, <2>1, <3>1 DEF Course, used, device_enabled
  <2>2. CASE ~ok
    BY <1>0, <1>off, <2>2, FinishCourse
  <2> QED BY <2>1, <2>2
<1>3. Heard'
  <2>1. ~power.irq /\ hw.reset /\ power.supply = hw.supply
    BY <1>0 DEF PenInv, Heard, TypeOK
  <2>2. CASE ok
    BY <1>0, <1>on, <2>1, <2>2 DEF Heard, TypeOK
  <2>3. CASE ~ok
    BY <1>off, <2>1, <2>3, NoneType DEF Heard
  <2> QED BY <2>2, <2>3
<1>4. Packet'
  BY NoneType, CallFaults
     DEF PenInv, TypeOK, OpType, Course, Heard, Packet, supply_on, Finish,
           Goto, result, None
<1>5. Rest'
  <2>1. CASE ok
    BY <2>1, CallFaults DEF PenInv, TypeOK, OpType, Course, Rest, supply_on,
          Goto
  <2>2. CASE ~ok
    BY <2>2, CallFaults DEF PenInv, Rest, supply_on
  <2> QED BY <2>1, <2>2
<1> QED BY <1>1, <1>2, <1>3, <1>4, <1>5 DEF PenInv

\* Taking the digitizer out of reset.
LEMMA InvResetOff == ASSUME PenInv, reset_off PROVE PenInv'
<1>1. TypeOK'
  BY ResultType, NoneType, PenType DEF PenInv, TypeOK, OpType, Steps, Course,
        reset_off, Goto
<1>2. Course'
  BY SameResult DEF PenInv, TypeOK, OpType, Course, Heard, reset_off, Goto, used
<1>3. Heard'
  BY NoneType DEF PenInv, TypeOK, OpType, CoreType, Course, Heard, used, device_enabled,
        reset_off, Goto
<1>4. Packet'
  BY NoneType DEF PenInv, TypeOK, OpType, Course, Heard, Packet, reset_off, Goto
<1>5. Rest'
  BY NoneType
     DEF PenInv, TypeOK, OpType, CoreType, Course, Heard, Rest, used, device_enabled,
           reset_off, Goto
<1> QED BY <1>1, <1>2, <1>3, <1>4, <1>5 DEF PenInv

\* Enabling the interrupt ends an operation.
LEMMA InvIrqOn == ASSUME PenInv, irq_on PROVE PenInv'
<1>1. TypeOK'
  BY ResultType, NoneType, PenType
     DEF PenInv, TypeOK, OpType, Steps, Course, irq_on, Finish, result,
           None
<1>2. Course'
  BY NoneType
     DEF PenInv, TypeOK, OpType, CoreType, Course, Heard, used, device_enabled,
           irq_on, Finish, result,
         None
<1>3. Heard'
  BY NoneType
     DEF PenInv, TypeOK, OpType, CoreType, Course, Heard, used, device_enabled,
           irq_on, Finish, result,
         None
<1>4. Packet'
  BY NoneType DEF PenInv, TypeOK, OpType, Course, Heard, Packet, irq_on,
        Finish, result, None
<1>5. Rest'
  BY NoneType
     DEF PenInv, TypeOK, OpType, CoreType, Course, Heard, Rest, used, device_enabled,
           irq_on, Finish,
         result, None
<1> QED BY <1>1, <1>2, <1>3, <1>4, <1>5 DEF PenInv

\* A try of the query.
LEMMA InvQuery == ASSUME PenInv, NEW ok, query(ok) PROVE PenInv'
<1>1. TypeOK'
  <2>1. op.tries + 1 \in Nat
    BY DEF PenInv, TypeOK, OpType
  <2>2. op' \in OpType
    BY <2>1, CallFaults DEF PenInv, TypeOK, OpType, Steps, query
  <2> QED BY <2>2, CallFaults DEF PenInv, TypeOK, query
<1>2. Course'
  BY NoneType, CallFaults DEF PenInv, TypeOK, OpType, CoreType, Course, Heard, used,
        device_enabled, query
<1>3. Heard'
  BY NoneType, CallFaults DEF PenInv, TypeOK, OpType, CoreType, Course, Heard, used,
        device_enabled, query
<1>4. Packet'
  BY NoneType, CallFaults DEF PenInv, TypeOK, OpType, Course, Heard, Packet, query
<1>5. Rest'
  BY NoneType, CallFaults
     DEF PenInv, TypeOK, OpType, CoreType, Course, Heard, Rest, used, device_enabled,
           query
<1> QED BY <1>1, <1>2, <1>3, <1>4, <1>5 DEF PenInv

\* Disabling the interrupt, when its handler has ended.
LEMMA InvIrqOff == ASSUME PenInv, irq_off PROVE PenInv'
<1>1. TypeOK'
  BY ResultType, NoneType, PenType DEF PenInv, TypeOK, OpType, Steps, Course,
        irq_off, Goto
<1>2. Course'
  BY NoneType DEF PenInv, TypeOK, OpType, CoreType, Course, Heard, used, device_enabled,
        irq_off, Goto
<1>3. Heard'
  BY NoneType DEF PenInv, TypeOK, OpType, CoreType, Course, Heard, used, device_enabled,
        irq_off, Goto
<1>4. Packet'
  BY NoneType DEF PenInv, TypeOK, OpType, Course, Heard, Packet, irq_off, Goto
<1>5. Rest'
  BY NoneType DEF PenInv, TypeOK, OpType, CoreType, Course, Heard, Rest, used,
        device_enabled, irq_off, Goto
<1> QED BY <1>1, <1>2, <1>3, <1>4, <1>5 DEF PenInv

\* Taking the pen away.
LEMMA InvRelease == ASSUME PenInv, release PROVE PenInv'
<1>1. TypeOK'
  <2>1. op' \in OpType
    BY DEF PenInv, TypeOK, OpType, Steps, release, Goto
  <2>2. shown' \in [tool : BOOLEAN, x : Int, pressure : Int]
    BY ReleaseInput DEF PenInv, release
  <2> QED BY <2>1, <2>2 DEF PenInv, TypeOK, release, release_input
<1>2. Course'
  BY NoneType
     DEF PenInv, TypeOK, OpType, CoreType, Course, Heard, used, device_enabled,
           release, release_input,
         Goto
<1>3. Heard'
  BY NoneType
     DEF PenInv, TypeOK, OpType, CoreType, Course, Heard, used, device_enabled,
           release, release_input,
         Goto
<1>4. Packet'
  BY NoneType DEF PenInv, TypeOK, OpType, Course, Heard, Packet, release,
        release_input, Goto
<1>5. Rest'
  BY NoneType
     DEF PenInv, TypeOK, OpType, CoreType, Course, Heard, Rest, used, device_enabled,
           release,
         release_input, Goto
<1> QED BY <1>1, <1>2, <1>3, <1>4, <1>5 DEF PenInv

\* Back into reset.
LEMMA InvResetOn == ASSUME PenInv, reset_on PROVE PenInv'
<1>1. TypeOK'
  <2>1. /\ TypeOK /\ op.name # "none" /\ TRUE \in BOOLEAN
        /\ "supply_off" \in Steps /\ "cleanup" \in Steps
    BY DEF PenInv, Course, reset_on, Steps
  <2>2. op' \in OpType /\ in' \in CoreType
    <3>1. CASE Finish(TRUE)
      BY <2>1, <3>1, FinishType
    <3>2. CASE (Goto("supply_off") \/ Goto("cleanup")) /\ in' = in
      BY <2>1, <3>2, GotoType DEF TypeOK
    <3> QED BY <3>1, <3>2 DEF reset_on
  <2> QED BY <2>1, <2>2 DEF TypeOK, reset_on
<1>2. Course'
  <2>1. op.name # "none" /\ TRUE \in BOOLEAN
    BY DEF PenInv, Course, reset_on
  <2>2. CASE /\ op'.pc = "supply_off" \/ (op'.pc = "cleanup" /\ op.name = "unbind")
             /\ op'.name = op.name /\ in' = in /\ op'.restore = op.restore
    BY <2>2 DEF PenInv, Course, reset_on, used, device_enabled
  <2>3. CASE Finish(TRUE)
    BY <2>1, <2>3, FinishCourse DEF PenInv
  <2>4. op \in OpType /\ op.name \in OpNames
    BY DEF PenInv, TypeOK, OpType
  <2>5. CASE power.supply \/ op.name = "unbind"
    <3>1. in' = in /\ op \in OpType
      BY <2>4, <2>5 DEF reset_on
    <3>2. CASE power.supply
      <4>1. op' = [op EXCEPT !.pc = "supply_off"]
        BY <3>2 DEF reset_on, Goto
      <4>2. op'.pc = "supply_off" /\ op'.name = op.name /\ op'.restore = op.restore
        BY <3>1, <4>1 DEF OpType
      <4> QED BY <2>2, <3>1, <4>2
    <3>3. CASE ~power.supply /\ op.name = "unbind"
      <4>1. op' = [op EXCEPT !.pc = "cleanup"]
        BY <3>3 DEF reset_on, Goto
      <4> QED BY <2>2, <3>1, <3>3, <4>1 DEF OpType
    <3> QED BY <2>5, <3>2, <3>3
  <2> QED BY <2>3, <2>5 DEF reset_on
<1>3. Heard'
  BY NoneType
     DEF PenInv, TypeOK, OpType, CoreType, Course, Heard, used, device_enabled,
           reset_on, Finish, Goto,
         result, None
<1>4. Packet'
  BY NoneType DEF PenInv, TypeOK, OpType, Course, Heard, Packet, reset_on,
        Finish, Goto, result, None
<1>5. Rest'
  BY NoneType
     DEF PenInv, TypeOK, OpType, CoreType, Course, Heard, Rest, used, device_enabled,
           reset_on, Finish,
         Goto, result, None
<1> QED BY <1>1, <1>2, <1>3, <1>4, <1>5 DEF PenInv

\* Switching the supply off, or failing to.
LEMMA InvSupplyOff == ASSUME PenInv, NEW ok, supply_off(ok) PROVE PenInv'
<1>1. TypeOK'
  <2>1. op.name # "none" /\ ok \in BOOLEAN
    BY CallFaults DEF PenInv, Course, supply_off
  <2>2. op' \in OpType
    BY NoneType DEF PenInv, TypeOK, OpType, Steps, supply_off, Goto, Finish
  <2>3. in' \in CoreType
    BY <2>1, ResultType DEF PenInv, TypeOK, supply_off, Finish
  <2>4. power' \in [supply : BOOLEAN, irq : BOOLEAN] /\ hw' \in [supply : BOOLEAN, reset : BOOLEAN]
    BY DEF PenInv, TypeOK, supply_off
  <2> QED BY <2>2, <2>3, <2>4, CallFaults DEF PenInv, TypeOK, supply_off
<1>2. Course'
  <2>1. op.name # "none" /\ ok \in BOOLEAN /\ (~ok => failures' > 0)
    BY CallFaults DEF PenInv, Course, supply_off
  <2>2. CASE ~ok /\ op.restore
    <3>1. op' = [op EXCEPT !.pc = "reset_off"] /\ in' = in /\ op \in OpType /\ failures' > 0
      BY <2>1, <2>2 DEF PenInv, TypeOK, supply_off, Goto
    <3>2. op'.pc = "reset_off" /\ op'.name = op.name /\ op'.restore
      BY <2>2, <3>1 DEF OpType
    <3>3. op.name = "suspend" /\ used(in) /\ used(in')
      BY <2>2, <3>1 DEF PenInv, Course
    <3> QED BY <2>1, <3>1, <3>2, <3>3 DEF PenInv, Course, used, device_enabled
  <2>3. CASE op.name \in {"probe", "unbind"} /\ Goto("cleanup") /\ UNCHANGED in
    <3>1. op'.pc = "cleanup" /\ op'.name = op.name /\ op'.restore = op.restore /\ in' = in
      BY <2>3 DEF PenInv, TypeOK, OpType, Goto
    <3> QED BY <2>3, <3>1 DEF PenInv, Course, used, device_enabled
  <2>4. CASE Finish(ok)
    BY <2>1, <2>4, FinishCourse DEF PenInv
  <2> QED BY <2>2, <2>3, <2>4 DEF supply_off
<1>3. Heard'
  <2>1. op.name # "none" /\ ok \in BOOLEAN
    BY CallFaults DEF PenInv, Course, supply_off
  <2>2. ~power.irq /\ hw.supply /\ power.supply = hw.supply /\ hw.reset
    BY DEF PenInv, Heard, TypeOK, supply_off
  <2>3. /\ power'.irq = power.irq /\ hw'.reset = hw.reset /\ power'.supply = hw'.supply
        /\ ~ok => hw'.supply
    BY <2>1, <2>2 DEF PenInv, TypeOK, supply_off
  <2>4. op'.pc \in {"reset_off", "cleanup", "done"} /\ (op'.pc = "reset_off" => ~ok)
    BY <2>1, FinishCourse DEF PenInv, TypeOK, OpType, supply_off, Goto
  <2> QED BY <2>2, <2>3, <2>4 DEF Heard
<1>4. Packet'
  BY NoneType, CallFaults
     DEF PenInv, TypeOK, OpType, Course, Heard, Packet, supply_off, Finish,
           Goto, result, None
<1>5. Rest'
  <2>1. op.name # "none" /\ ok \in BOOLEAN
    BY CallFaults DEF PenInv, Course, supply_off
  <2>f. ~ok => failures' # 0
    BY CallFaults DEF supply_off, PenInv
  <2>2. SUFFICES ASSUME ok, failures' = 0 PROVE Rest'
    BY <2>1, <2>f DEF Rest
  <2>3. ~hw'.supply /\ ~power'.irq
    BY <2>2 DEF PenInv, TypeOK, Heard, supply_off
  <2>4. (op'.pc = "cleanup" /\ op'.name # "none") \/ Finish(ok)
    BY <2>1, <2>2 DEF PenInv, TypeOK, OpType, supply_off, Goto
  <2>5. CASE Finish(ok)
    <3>1. op'.name = "none" /\ op'.pc = "done" /\ in' = result(TRUE)
      BY <2>1, <2>2, <2>5, FinishCourse DEF PenInv
    <3>2. ~used(result(TRUE))
      BY OutOfUse DEF PenInv, Course, supply_off
    <3>3. ~used(in')
      BY <3>1, <3>2
    <3> QED BY <1>1, <2>3, <3>1, <3>3 DEF Rest, used, device_enabled, TypeOK
  <2> QED BY <2>3, <2>4, <2>5 DEF Rest
<1> QED BY <1>1, <1>2, <1>3, <1>4, <1>5 DEF PenInv

\* The end of a failed probe or of an unbind.
LEMMA InvCleanup == ASSUME PenInv, NEW ok, cleanup(ok) PROVE PenInv'
<1>1. TypeOK'
  <2>1. TypeOK /\ op.name # "none" /\ FALSE \in BOOLEAN /\ Finish(FALSE)
    BY DEF PenInv, Course, cleanup
  <2>2. op' \in OpType /\ in' \in CoreType
    BY <2>1, FinishType
  <2> QED BY <2>1, <2>2, CallFaults DEF TypeOK, cleanup
<1>2. Course'
  BY FinishCourse DEF PenInv, Course, cleanup
<1>3. Heard'
  <2>1. /\ TypeOK /\ op.pc = "cleanup" /\ ~power.irq /\ hw.reset /\ power.supply = hw.supply
        /\ op' = None
    BY DEF PenInv, TypeOK, Heard, cleanup, Finish
  <2>2. ~power'.irq /\ hw'.reset /\ power'.supply = hw'.supply
    BY <2>1 DEF TypeOK, cleanup
  <2> QED BY <2>1, <2>2, NoneType DEF Heard
<1>4. Packet'
  BY NoneType, CallFaults
     DEF PenInv, TypeOK, OpType, Course, Heard, Packet, cleanup, Finish,
           result, None
<1>5. Rest'
  <2>1. op.name \in {"probe", "unbind"} /\ ~power.irq /\ power.supply = hw.supply
    BY DEF PenInv, Course, Heard, cleanup
  <2>2. ~used(result(FALSE))
    BY <2>1, OutOfUse DEF PenInv
  <2>3. op'.name = "none" /\ op'.pc = "done" /\ in' = result(FALSE)
    BY <2>1, FinishCourse DEF PenInv, cleanup
  <2>4. ~power'.irq /\ (failures' = 0 => ~hw'.supply)
    BY <2>1, CallFaults DEF PenInv, TypeOK, cleanup
  <2>5. ~used(in')
    BY <2>2, <2>3
  <2> QED BY <1>1, <2>3, <2>4, <2>5 DEF Rest, used, device_enabled, TypeOK
<1> QED BY <1>1, <1>2, <1>3, <1>4, <1>5 DEF PenInv

\* An operation that need not switch the digitizer.
LEMMA InvEnd == ASSUME PenInv, end PROVE PenInv'
<1>1. TypeOK'
  BY ResultType, NoneType, PenType
     DEF PenInv, TypeOK, OpType, Steps, Course, end, Finish, result,
           None
<1>2. Course'
  BY FinishCourse DEF PenInv, Course, end
<1>3. Heard'
  BY NoneType
     DEF PenInv, TypeOK, OpType, CoreType, Course, Heard, used, device_enabled, end,
           Finish, result, None
<1>4. Packet'
  BY NoneType DEF PenInv, TypeOK, OpType, Course, Heard, Packet, end, Finish,
        result, None
<1>5. Rest'
  BY NoneType
     DEF PenInv, TypeOK, OpType, CoreType, Course, Heard, Rest, used, device_enabled,
           end, Finish, result,
         None
<1> QED BY <1>1, <1>2, <1>3, <1>4, <1>5 DEF PenInv

\* Reading a packet, with an interrupt that is device_enabled.
LEMMA InvCoordRead == ASSUME PenInv, NEW ok, coord_read(ok) PROVE PenInv'
<1>1. TypeOK'
  BY ResultType, NoneType, PenType, CallFaults
     DEF PenInv, TypeOK, OpType, Steps, Course, coord_read, irq, awake
<1>2. Course'
  BY NoneType, CallFaults
     DEF PenInv, TypeOK, OpType, CoreType, Course, Heard, used, device_enabled,
           coord_read, irq, awake
<1>3. Heard'
  BY NoneType, CallFaults
     DEF PenInv, TypeOK, OpType, CoreType, Course, Heard, used, device_enabled,
           coord_read, irq, awake
<1>4. Packet'
  BY NoneType, CallFaults DEF PenInv, TypeOK, OpType, Course, Heard, Packet,
        coord_read, irq, awake
<1>5. Rest'
  BY NoneType, CallFaults
     DEF PenInv, TypeOK, OpType, CoreType, Course, Heard, Rest, used, device_enabled,
           coord_read, irq,
         awake
<1> QED BY <1>1, <1>2, <1>3, <1>4, <1>5 DEF PenInv

\* Reporting it.
LEMMA InvCoordReport == ASSUME PenInv, coord_report PROVE PenInv'
<1>1. TypeOK'
  <2>1. irqt.data \in Pens /\ Away \in Pens
    BY DEF PenInv, TypeOK, Pens
  <2>2. shown' \in [tool : BOOLEAN, x : Int, pressure : Int]
    <3>1. CASE release_input
      BY <3>1, ReleaseInput DEF PenInv
    <3>2. CASE shown' = shown
      BY <3>2 DEF PenInv, TypeOK
    <3>3. CASE shown' = [tool |-> TRUE, x |-> irqt.data.x, pressure |-> irqt.data.pressure]
      BY <2>1, <3>3, PenType DEF PenInv, TypeOK
    <3>4. \/ release_input \/ shown' = shown
          \/ shown' = [tool |-> TRUE, x |-> irqt.data.x, pressure |-> irqt.data.pressure]
      BY DEF coord_report
    <3> QED BY <3>1, <3>2, <3>3, <3>4
  <2> QED BY <2>1, <2>2 DEF PenInv, TypeOK, coord_report, release_input,
        Idle
<1>2. Course'
  BY SameResult DEF PenInv, Course, coord_report, used
<1>3. Heard'
  BY NoneType
     DEF PenInv, TypeOK, OpType, CoreType, Course, Heard, used, device_enabled,
           coord_report,
         release_input, Idle
<1>4. Packet'
  <2>1. shown'.tool = prox' /\ (prox' => prox \/ power.irq)
    <3>1. CASE release_input
      BY <1>1, <3>1, ReleaseInput DEF PenInv, Packet, TypeOK
    <3>2. CASE prox' = prox /\ shown' = shown
      BY <3>2 DEF PenInv, Packet
    <3>3. CASE /\ prox' = TRUE /\ irqt.pc = "report"
               /\ shown' = [tool |-> TRUE, x |-> irqt.data.x, pressure |-> irqt.data.pressure]
      BY <3>3 DEF PenInv, Packet
    <3> QED BY <3>1, <3>2, <3>3, Zenon DEF coord_report
  <2> QED BY <2>1 DEF PenInv, Packet, coord_report, Idle
<1>5. Rest'
  BY NoneType
     DEF PenInv, TypeOK, OpType, CoreType, Course, Heard, Rest, used, device_enabled,
           coord_report,
         release_input, Idle
<1> QED BY <1>1, <1>2, <1>3, <1>4, <1>5 DEF PenInv

\* The pen moves.
LEMMA InvMove == ASSUME PenInv, NEW p \in Pens, move(p) PROVE PenInv'
<1>1. TypeOK'
  BY ResultType, NoneType, PenType DEF PenInv, TypeOK, OpType, Steps, Course, move
<1>2. Course'
  BY SameResult DEF PenInv, Course, move, used
<1>3. Heard'
  BY NoneType DEF PenInv, TypeOK, OpType, CoreType, Course, Heard, used, device_enabled,
        move
<1>4. Packet'
  BY NoneType DEF PenInv, TypeOK, OpType, Course, Heard, Packet, move
<1>5. Rest'
  BY NoneType DEF PenInv, TypeOK, OpType, CoreType, Course, Heard, Rest, used,
        device_enabled, move
<1> QED BY <1>1, <1>2, <1>3, <1>4, <1>5 DEF PenInv

\* Each of the seven operations starts where the state calls for it.
LEMMA InvStarts ==
    ASSUME PenInv,
           \/ open \/ close \/ inhibit \/ uninhibit \/ suspend
           \/ resume \/ unbind
    PROVE  PenInv'
<1>1. in \in CoreType /\ power \in [supply : BOOLEAN, irq : BOOLEAN]
  BY DEF PenInv, TypeOK
<1>2. ASSUME op.name = "none" PROVE power.irq => used(in) /\ power.supply
  BY <1>2 DEF PenInv, Heard
<1>3. CASE open
  <2> DEFINE pc == IF in.inhibited THEN "end" ELSE on
             restore == FALSE
  <2>1. Start("open", pc, restore) /\ op.name = "none" /\ in.bound
    BY <1>3 DEF open, Start
  <2>2. used(result(TRUE)') <=> in.bound /\ ~in.inhibited /\ ~in.asleep
    BY <1>1, <2>1 DEF Start, result, used, device_enabled, CoreType
  <2>3. /\ pc \in {"supply_on", "reset_off", "end"} /\ restore \in BOOLEAN
        /\ restore => "open" = "suspend" /\ used(in)
        /\ pc \in {"supply_on", "reset_off"} => used(result(TRUE)')
        /\ (pc = "supply_on" => ~power.supply) /\ (pc = "reset_off" => power.supply)
        /\ pc = "irq_off" <=> power.irq
        /\ pc = "end" => ~power.irq /\ ~used(result(TRUE)')
        /\ pc = "end" /\ failures = 0 => ~hw.supply
    BY <1>1, <1>2, <1>3, <2>1, <2>2 DEF PenInv, TypeOK, Heard, Rest, open, on,
          used, device_enabled, CoreType
  <2> HIDE DEF pc, restore
  <2> QED BY <2>1, <2>3, InvStart DEF OpNames
<1>4. CASE close
  <2> DEFINE pc == IF in.inhibited THEN "end" ELSE off
             restore == FALSE
  <2>1. Start("close", pc, restore) /\ op.name = "none" /\ in.bound
    BY <1>4 DEF close, Start
  <2>2. used(result(TRUE)') <=> FALSE
    BY <1>1, <2>1 DEF Start, result, used, device_enabled, CoreType
  <2>3. /\ pc \in {"irq_off", "release", "end"} /\ restore \in BOOLEAN
        /\ restore => "close" = "suspend" /\ used(in)
        /\ pc = "irq_off" <=> power.irq
        /\ pc = "end" => ~power.irq /\ ~used(result(TRUE)')
        /\ pc = "end" /\ failures = 0 => ~hw.supply
    BY <1>1, <1>2, <1>4, <2>1, <2>2
       DEF PenInv, TypeOK, Heard, Rest, close, off, used, device_enabled, CoreType
  <2> HIDE DEF pc, restore
  <2> QED BY <2>1, <2>3, InvStart DEF OpNames
<1>5. CASE inhibit
  <2> DEFINE pc == IF in.open THEN off ELSE "end"
             restore == FALSE
  <2>1. Start("inhibit", pc, restore) /\ op.name = "none" /\ in.bound
    BY <1>5 DEF inhibit, Start
  <2>2. used(result(TRUE)') <=> FALSE
    BY <1>1, <2>1 DEF Start, result, used, device_enabled, CoreType
  <2>3. /\ pc \in {"irq_off", "release", "end"} /\ restore \in BOOLEAN
        /\ restore => "inhibit" = "suspend" /\ used(in)
        /\ pc = "irq_off" <=> power.irq
        /\ pc = "end" => ~power.irq /\ ~used(result(TRUE)')
        /\ pc = "end" /\ failures = 0 => ~hw.supply
    BY <1>1, <1>2, <1>5, <2>1, <2>2
       DEF PenInv, TypeOK, Heard, Rest, inhibit, off, used, device_enabled,
             CoreType
  <2> HIDE DEF pc, restore
  <2> QED BY <2>1, <2>3, InvStart DEF OpNames
<1>6. CASE uninhibit
  <2> DEFINE pc == IF in.open THEN on ELSE "end"
             restore == FALSE
  <2>1. Start("uninhibit", pc, restore) /\ op.name = "none" /\ in.bound
    BY <1>6 DEF uninhibit, Start
  <2>2. used(result(TRUE)') <=> in.bound /\ in.open /\ ~in.asleep
    BY <1>1, <2>1 DEF Start, result, used, device_enabled, CoreType
  <2>3. /\ pc \in {"supply_on", "reset_off", "end"} /\ restore \in BOOLEAN
        /\ restore => "uninhibit" = "suspend" /\ used(in)
        /\ pc \in {"supply_on", "reset_off"} => used(result(TRUE)')
        /\ (pc = "supply_on" => ~power.supply) /\ (pc = "reset_off" => power.supply)
        /\ pc = "irq_off" <=> power.irq
        /\ pc = "end" => ~power.irq /\ ~used(result(TRUE)')
        /\ pc = "end" /\ failures = 0 => ~hw.supply
    BY <1>1, <1>2, <1>6, <2>1, <2>2
       DEF PenInv, TypeOK, Heard, Rest, uninhibit, on, used, device_enabled,
             CoreType
  <2> HIDE DEF pc, restore
  <2> QED BY <2>1, <2>3, InvStart DEF OpNames
<1>7. CASE suspend
  <2> DEFINE pc == IF device_enabled(in) \/ power.supply THEN off ELSE "end"
             restore == device_enabled(in)
  <2>1. Start("suspend", pc, restore) /\ op.name = "none" /\ in.bound
    BY <1>7 DEF suspend, Start
  <2>2. used(result(TRUE)') <=> FALSE
    BY <1>1, <2>1 DEF Start, result, used, device_enabled, CoreType
  <2>3. /\ pc \in {"irq_off", "release", "end"} /\ restore \in BOOLEAN
        /\ restore => "suspend" = "suspend" /\ used(in)
        /\ pc = "irq_off" <=> power.irq
        /\ pc = "end" => ~power.irq /\ ~used(result(TRUE)')
        /\ pc = "end" /\ failures = 0 => ~hw.supply
    BY <1>1, <1>2, <1>7, <2>1, <2>2
       DEF PenInv, TypeOK, Heard, Rest, suspend, off, used, device_enabled,
             CoreType
  <2> HIDE DEF pc, restore
  <2> QED BY <2>1, <2>3, InvStart DEF OpNames
<1>8. CASE resume
  <2> DEFINE pc == IF device_enabled(in) THEN on ELSE "end"
             restore == FALSE
  <2>1. Start("resume", pc, restore) /\ op.name = "none" /\ in.bound
    BY <1>8 DEF resume, Start
  <2>2. used(result(TRUE)') <=> in.bound /\ device_enabled(in)
    BY <1>1, <2>1 DEF Start, result, used, device_enabled, CoreType
  <2>3. /\ pc \in {"supply_on", "reset_off", "end"} /\ restore \in BOOLEAN
        /\ restore => "resume" = "suspend" /\ used(in)
        /\ pc \in {"supply_on", "reset_off"} => used(result(TRUE)')
        /\ (pc = "supply_on" => ~power.supply) /\ (pc = "reset_off" => power.supply)
        /\ pc = "irq_off" <=> power.irq
        /\ pc = "end" => ~power.irq /\ ~used(result(TRUE)')
        /\ pc = "end" /\ failures = 0 => ~hw.supply
    BY <1>1, <1>2, <1>8, <2>1, <2>2
       DEF PenInv, TypeOK, Heard, Rest, resume, on, used, device_enabled, CoreType
  <2> HIDE DEF pc, restore
  <2> QED BY <2>1, <2>3, InvStart DEF OpNames
<1>9. CASE unbind
  <2> DEFINE pc == IF device_enabled(in) THEN off ELSE "cleanup"
             restore == FALSE
  <2>1. Start("unbind", pc, restore) /\ op.name = "none" /\ in.bound
    BY <1>9 DEF unbind, Start
  <2>3. /\ pc \in {"irq_off", "release", "cleanup"} /\ restore \in BOOLEAN
        /\ restore => "unbind" = "suspend" /\ used(in)
        /\ pc = "irq_off" <=> power.irq
    BY <1>1, <1>2, <1>9, <2>1 DEF PenInv, TypeOK, Heard, Rest, unbind, off,
          used, device_enabled, CoreType
  <2> HIDE DEF pc, restore
  <2> QED BY <2>1, <2>3, InvStart DEF OpNames
<1> QED BY <1>3, <1>4, <1>5, <1>6, <1>7, <1>8, <1>9

-----------------------------------------------------------------------------
(* The theorems *)

\* Every step keeps the inductive invariant.
LEMMA InvNext == PenInv /\ [PenNext]_pen_vars => PenInv'
<1> SUFFICES ASSUME PenInv, [PenNext]_pen_vars PROVE PenInv'
  OBVIOUS
<1>1. CASE \/ open \/ close \/ inhibit \/ uninhibit \/ suspend
           \/ resume \/ unbind
  BY <1>1, InvStarts
<1>2. CASE \/ reset_off \/ irq_on \/ irq_off \/ release
           \/ reset_on \/ end
  BY <1>2, InvResetOff, InvIrqOn, InvIrqOff, InvRelease, InvResetOn, InvEnd
<1>3. CASE \E ok \in BOOLEAN : \/ supply_on(ok) \/ query(ok)
                                \/ supply_off(ok) \/ cleanup(ok)
  BY <1>3, InvSupplyOn, InvQuery, InvSupplyOff, InvCleanup
<1>4. CASE IrqStep
  BY <1>4, InvCoordReport, InvCoordRead DEF IrqStep
<1>5. CASE \E p \in Pens : move(p)
  BY <1>5, InvMove
<1>6. CASE UNCHANGED pen_vars
  <2>1. result(TRUE)' = result(TRUE)
    BY <1>6, SameResult DEF pen_vars
  <2>2. TypeOK'
    BY <1>6 DEF PenInv, TypeOK, pen_vars
  <2>3. Course'
    BY <1>6, <2>1 DEF PenInv, Course, pen_vars, used, device_enabled
  <2>4. Heard' /\ Packet' /\ Rest'
    BY <1>6 DEF PenInv, Heard, Packet, Rest, pen_vars, used, device_enabled
  <2> QED BY <2>2, <2>3, <2>4 DEF PenInv
<1> QED BY <1>1, <1>2, <1>3, <1>4, <1>5, <1>6 DEF PenNext, OpStep

\* The inductive invariant holds of every behaviour of the driver.
LEMMA InvAlways == PenSpec => []PenInv
  BY InvInit, InvNext, PTL DEF PenSpec

\* A digitizer at rest that gives no interrupts shows no pen, in any order of
\* a last packet and the end of its use.
THEOREM NoGhostPenAlways == PenSpec => []NoGhostPen
<1>1. PenInv => NoGhostPen
  BY DEF PenInv, Course, Packet, NoGhostPen
<1> QED BY <1>1, InvAlways, PTL

\* The driver always knows the state of its supply and hears only a digitizer
\* with power; while nothing fails, between operations the digitizer is on
\* exactly while it is in use.
THEOREM PowerFollowsUseAlways == PenSpec => []PowerFollowsUse
<1>1. PenInv => PowerFollowsUse
  BY DEF PenInv, TypeOK, Course, Heard, Rest, PowerFollowsUse, used
<1> QED BY <1>1, InvAlways, PTL
=============================================================================
