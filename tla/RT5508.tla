------------------------------- MODULE RT5508 -------------------------------
(***************************************************************************)
(* A speaker amplifier (sound/soc/codecs/rt5508.c): what each of its       *)
(* callbacks transfers to the chip, in which order and up to which failing *)
(* transfer.  An operator takes and gives a world w, a record whose fields *)
(* include amp, the amplifier, ok, FALSE once a transfer failed, and at,   *)
(* the number of the transfer, from here on, that fails, 0 for none.       *)
(* Registers that only change together are one; the PLL divisor is kept    *)
(* because the bit clock has to match it.                                  *)
(***************************************************************************)
LOCAL INSTANCE Integers
LOCAL INSTANCE Sequences

\* chipen: CHIPEN's power-down, amplifier and triangle wave bits "PD", "AMP",
\* "TRI".  bst: BST_MODE, "boost" or "bypass" as chosen, "low" for power-down,
\* "pump" in the sequences.
\* rt5508_priv (mode_store, tdm, chip_on), then the registers.
Amp0 == [mode_store |-> "low", tdm |-> FALSE, chip_on |-> FALSE,
         chipen |-> {"PD"}, bst |-> "low", bias |-> FALSE, clk |-> FALSE, pll |-> 0,
         prot |-> FALSE, fmt |-> FALSE, slots |-> FALSE]

\* One transfer x = <<register, value>>, by reg_read or reg_write.
transfer(w, x) ==
    IF ~w.ok THEN w
    ELSE IF w.at = 1 THEN [w EXCEPT !.ok = FALSE, !.at = 0]
    ELSE [w EXCEPT !.at = IF @ = 0 THEN 0 ELSE @ - 1,
             !.amp[x[1]] = x[2]]
transfers(w, seq) ==
    LET after[n \in 0..Len(seq)] == IF n = 0 THEN w ELSE transfer(after[n - 1], seq[n])
    IN  after[Len(seq)]

-----------------------------------------------------------------------------
(* Power *)

power_on(w) ==
    transfers(w, << <<"chipen", w.amp.chipen \ {"PD"}>>, <<"bst", w.amp.mode_store>>,
                    <<"bias", w.amp.bias>> >>)
\* Mutant: the mode is saved after the write that lowers it.
power_off_late(w) ==
    transfers(w, << <<"bias", w.amp.bias>>, <<"bst", "low">>, <<"mode_store", "low">>,
                    <<"chipen", w.amp.chipen \union {"PD"}>> >>)
power_off(w) ==
    transfers(w, << <<"bias", w.amp.bias>>, <<"mode_store", w.amp.bst>>, <<"bst", "low">>,
                    <<"chipen", w.amp.chipen \union {"PD"}>> >>)

wake(w)  == IF w.amp.chip_on THEN w ELSE power_on(w)
\* Mutant: the chip goes back to sleep whether DAPM needs it or not.
sleep_always(w) == power_off(w)
sleep(w) == IF w.amp.chip_on THEN w ELSE power_off(w)

\* The transfers of a control, between wake() and sleep().
awake(w, seq) ==
    LET a == wake(w)
        b == transfers(a, seq)
        c == sleep([b EXCEPT !.ok = TRUE])
    IN  IF a.ok THEN [c EXCEPT !.ok = @ /\ b.ok] ELSE a

\* The volume's own register is not kept.
put_volsw(w)    == awake(w, << <<"chip_on", w.amp.chip_on>> >>)
set_fmt(w)      == awake(w, << <<"fmt", w.amp.fmt>> >>)
set_tdm_slot(w) ==
    LET r == awake(w, << <<"slots", TRUE>>, <<"slots", TRUE>> >>)
    IN  IF r.ok THEN [r EXCEPT !.amp.tdm = TRUE] ELSE r

\* The divisor for a slot width and a rate, 2^19 at 64 bits a frame and 48 kHz.
slot_pll(slot) == CASE slot = 16 -> 1048576 [] slot = 24 -> 786432 [] slot = 32 -> 524288
rate_pll(pll, rate) ==
    CASE rate = 8000 -> pll * 6        [] rate \in {11025, 12000} -> pll * 4
      [] rate = 16000 -> pll * 3       [] rate \in {22050, 24000} -> pll * 2
      [] rate = 32000 -> (pll * 3) \div 2 [] rate \in {44100, 48000} -> pll
      [] rate \in {88200, 96000} -> pll \div 2
      [] rate \in {176400, 192000} -> pll \div 4
hw_params(w, slot, rate) ==
    LET pll == rate_pll(slot_pll(slot), rate)
    IN  awake(w, << <<"fmt", w.amp.fmt>>, <<"fmt", TRUE>>,
                    <<"pll", IF w.amp.tdm THEN pll \div 2 ELSE pll>> >>)

-----------------------------------------------------------------------------
(* DAPM, which goes on after a step that failed *)

clk_event_up(w)   == transfers(w, << <<"clk", w.amp.clk>>, <<"clk", TRUE>> >>)
clk_event_down(w) == transfers(w, << <<"clk", w.amp.clk>>, <<"clk", FALSE>> >>)

pre_pmu  == << <<"bst", "pump">>, <<"bias", TRUE>> >>
pre_pmd  == << <<"bst", "pump">>, <<"prot", FALSE>> >>
post_pmd == << <<"chipen", {}>>, <<"bias", FALSE>> >>

save_mode(w)   == transfers(w, << <<"mode_store", w.amp.bst>> >>)
amp_pre_pmu(w) ==
    transfers(transfers(save_mode(w), pre_pmu), << <<"prot", TRUE>>, <<"chipen", {"TRI"}>> >>)
\* The DAPM core's own bit.
amp_enable(w)   == transfers(w, << <<"chipen", w.amp.chipen \union {"AMP"}>> >>)
amp_disable(w)  == transfers(w, << <<"chipen", w.amp.chipen \ {"AMP"}>> >>)
amp_post_pmu(w) == transfers(w, << <<"clk", TRUE>>, <<"bst", w.amp.mode_store>> >>)
amp_pre_pmd(w)  == transfers(save_mode(w), pre_pmd)
amp_post_pmd(w) == transfers(transfers(w, post_pmd), << <<"bst", w.amp.mode_store>> >>)

set_bias_standby(w) ==
    IF w.amp.chip_on THEN w
    ELSE LET r == power_on(w) IN [r EXCEPT !.amp.chip_on = r.ok]
set_bias_off(w) ==
    IF w.amp.chip_on THEN [power_off(w) EXCEPT !.amp.chip_on = FALSE] ELSE w

-----------------------------------------------------------------------------
(* The chip's initialisation; high says that the battery is above 4.7 V.   *)
swreset(w)     == transfers(w, << <<"chipen", {}>>, <<"chipen", {"PD"}>>, <<"chipen", {}>> >>)
tables(w)      == transfers(w, << <<"clk", FALSE>>, <<"bst", "boost">> >>)
tcsense_fix(w) == transfers(w, << <<"prot", FALSE>> >>)
check_vbat(w, high) ==
    LET r == transfers(w, << <<"bias", TRUE>> >>)
        m == IF high THEN transfers(r, << <<"bst", "bypass">> >>) ELSE r
    IN  transfers(m, << <<"bias", FALSE>> >>)
chip_init(w, high) ==
    LET r == transfers(tables(swreset(w)), << <<"slots", FALSE>> >>)
    IN  power_off(check_vbat(tcsense_fix(r), high))
i2c_probe(w, high) ==
    LET r == chip_init([w EXCEPT !.amp = Amp0], high)
    IN  IF r.ok THEN r ELSE [r EXCEPT !.amp.chipen = @ \union {"PD"}]
=============================================================================
