---------------------------- MODULE PanelProofs ----------------------------
(***************************************************************************)
(* Proofs about the panel on its DSI links: it leaves its reset in LP-11,  *)
(* the links are ready while the display is on, and the panel shows what   *)
(* is set, for every number of switches, settings, temperatures and        *)
(* failures.  Three invariants: who holds what (Holders), what the links   *)
(* owe their users (Links), and what the DDI was last told (Told).         *)
(***************************************************************************)
EXTENDS Panel, TLAPS

-----------------------------------------------------------------------------
(* The invariants *)

KmsPc == {"off", "hosts", "prepare", "release", "mtp", "init", "enable", "display_on", "bl_on", "on",
          "bl_off", "cancel", "display_off", "unprepare", "post_disable"}

HostType  == [power_on : BOOLEAN, hs_clk_pending : BOOLEAN, hs : BOOLEAN, ctrl : SUBSET Modes]
LinkType  == [phy_enabled : BOOLEAN, active : BOOLEAN, usage : Int, is_powered : BOOLEAN,
              mode : BOOLEAN, host : [Hosts -> HostType], dma_cmd_ctrl_restore : SUBSET Modes]
AtType    == [kms : KmsPc, user : {"idle", "update"}, temp : {"idle", "queued", "update"}]
JobType   == [level : Levels, hbm : Steps]
PanelType == [prepared : BOOLEAN, enabled : BOOLEAN, mtp_valid : BOOLEAN, hbm_valid : BOOLEAN,
              hbm_on : BOOLEAN, hbm : Steps, temp_band : Bands]
ChipType  == [released : BOOLEAN, shown : [level : Levels, hbm : Steps, band : Bands],
              elvss70 : {"normal", "hbm"}, on : BOOLEAN,
              missed : {"nothing", "elvss70", "all"}]
BlType    == [level : Levels, power : BOOLEAN]
ResetType == [busy : BOOLEAN, ctrl : SUBSET Modes, torn : BOOLEAN]

Types ==
    /\ link \in LinkType /\ at \in AtType /\ job \in JobType /\ panel \in PanelType
    /\ bl \in BlType /\ chip \in ChipType /\ reset \in ResetType
    /\ lock \in Threads \cup {Free} /\ xfer \in Threads \cup {Free}
    /\ cold \in Bands

\* Who holds a lock is in a stage that takes it; the temperature's work is only
\* queued while the display is on; and without bl_power writes to a display that
\* is off nobody updates one.
Holders ==
    /\ lock # Free => at[lock] \in Updates
    /\ xfer # Free => at[xfer] \in Sends /\ (at[xfer] \in Updates => lock = xfer)
    /\ at.temp # "idle" => panel.enabled /\ at.kms \in {"bl_on", "on", "bl_off", "cancel"}
    /\ "bl_power" \notin Allowed =>
         /\ bl.power => at.kms \in {"bl_on", "on"}
         /\ lock # Free => at.kms \in {"bl_on", "on", "bl_off"}
         /\ at.kms = "bl_on" => panel.enabled
         /\ at.kms = "on" /\ (bl.power \/ lock # Free) => panel.enabled

Counted(b) == IF b THEN 1 ELSE 0

\* The bridge has powered the links, and may still have to enable the controllers.
Powers == link.is_powered \/ at.kms = "hosts"

\* The links are powered for the display and for the command that is being sent,
\* and lose everything when they are suspended; a clock lane that does not run in
\* HS is asked to as soon as somebody starts it.
Links ==
    /\ link.usage = Counted(Powers) + Counted(xfer # Free)
    /\ link.usage > 0 => link.active
    /\ ~link.active => ~link.phy_enabled /\ \A i \in Hosts : ~link.host[i].power_on
    /\ Powers \/ xfer # Free => \A i \in Hosts : link.host[i].power_on
    /\ \A i \in Hosts : link.host[i].power_on => link.host[i].hs \/ link.host[i].hs_clk_pending
    /\ link.is_powered => at.kms \notin {"off", "hosts"}
    /\ link.is_powered /\ at.kms \in {"display_on", "bl_on", "on"} =>
          \A i \in Hosts : link.host[i].hs
    /\ "bl_power" \notin Allowed /\ "quick" \notin Allowed
          /\ at.kms \in {"hosts", "prepare", "release"} =>
          \A i \in Hosts : ~clock_in_hs(link, i)

\* What DSI_CTRL has, or gets back from who changed it.
Enabled ==
    /\ link.is_powered => link.host[1].ctrl = Modes
    /\ link.is_powered /\ ~reset.torn =>
        /\ reset.busy => reset.ctrl = Modes
        /\ ~reset.busy => link.host[0].ctrl = Modes
        /\ xfer # Free => link.dma_cmd_ctrl_restore = Modes

Now == [level |-> bl.level, hbm |-> panel.hbm]

\* The panel shows setting j.
Shows(j) ==
    /\ chip.shown = image(j)
    /\ chip.missed = "nothing" => chip.elvss70 = IF in_hbm(j) THEN "hbm" ELSE "normal"

\* What the DDI shows is what it was last told, and an update that is being sent
\* has read what is set, unless the user comes after it.
Told ==
    /\ ~chip.released => chip = Reset
    /\ at.kms \in {"mtp", "init"} => chip.released
    /\ chip.released => panel.prepared \/ at.kms \in {"mtp", "init"}
    /\ panel.prepared =>
          at.kms \notin {"off", "hosts", "prepare", "release", "mtp", "init", "post_disable"}
    /\ chip.on => at.kms \in {"bl_on", "on", "bl_off", "cancel", "display_off", "unprepare"}
    /\ chip.missed = "nothing" /\ chip.elvss70 = "hbm" => panel.hbm_on
    /\ xfer # Free /\ at[xfer] \in Updates /\ (at.user = "idle" \/ xfer = "user") => job = Now
    /\ at.kms = "on" /\ at.user = "idle" /\ at.temp # "update" /\ bl.power /\ chip.on
          /\ chip.missed # "all" => Shows(Now)

Held == Types /\ Holders
-----------------------------------------------------------------------------
(* Threads and their stages *)

\* A thread's stage changes and no other's.
LEMMA Went ==
    ASSUME at \in AtType, NEW t \in Threads, NEW s, go(t, s),
           s \in (CASE t = "kms" -> KmsPc [] t = "user" -> {"idle", "update"}
                    [] OTHER -> {"idle", "queued", "update"})
    PROVE  at' \in AtType /\ at'[t] = s /\ \A u \in Threads \ {t} : at'[u] = at[u]
  BY DEF go, AtType, Threads

\* The stages that send commands, by thread.
LEMMA Senders ==
    ASSUME Types, NEW t \in Threads
    PROVE  /\ t # "kms" /\ at[t] \in Sends => at[t] = "update"
           /\ t = "kms" => at[t] # "update"
           /\ t # "kms" =>
                at[t] \notin {"mtp", "init", "display_on", "bl_on", "bl_off", "display_off"}
           /\ Free \notin Threads
  BY DEF Types, AtType, KmsPc, Threads, Sends, Updates, Free

\* Where the display goes when its commands are sent.
then(s, ok) ==
    CASE s = "mtp" -> "init" [] s = "init" -> "enable"
      [] s = "display_on" -> IF ok THEN "bl_on" ELSE "on"
      [] s = "bl_on" -> "on" [] s = "bl_off" -> "cancel" [] OTHER -> "unprepare"

\* A thread that has sent its commands goes on.
LEMMA Done ==
    ASSUME Types, NEW t \in Threads, NEW ok \in BOOLEAN, at[t] \in Sends, done(t, ok)
    PROVE  /\ at' \in AtType
           /\ t = "kms" =>
                /\ at'.kms = then(at.kms, ok) /\ at'.user = at.user
                /\ at'.temp = IF at.kms = "display_on" /\ ok THEN "queued" ELSE at.temp
           /\ t = "user" => at' = [at EXCEPT !.user = "idle"]
           /\ t = "temp" => at' = [at EXCEPT !.temp = "queued"]
<1>1. CASE t = "user" \/ t = "temp"
  BY <1>1, Senders DEF done, Types, AtType
<1>2. CASE t = "kms"
  <2>0. at \in AtType /\ at.kms \in {"mtp", "init", "display_on", "bl_on", "bl_off", "display_off"}
    BY <1>2 DEF Types, AtType, KmsPc, Sends, Updates
  <2>1. CASE at.kms = "mtp"
    BY <1>2, <2>0, <2>1 DEF done, AtType, then, KmsPc
  <2>2. CASE at.kms = "init"
    BY <1>2, <2>0, <2>2 DEF done, AtType, then, KmsPc
  <2>3. CASE at.kms = "display_on"
    BY <1>2, <2>0, <2>3 DEF done, AtType, then, KmsPc
  <2>4. CASE at.kms = "bl_on"
    BY <1>2, <2>0, <2>4 DEF done, AtType, then, KmsPc
  <2>5. CASE at.kms = "bl_off"
    BY <1>2, <2>0, <2>5 DEF done, AtType, then, KmsPc
  <2>6. CASE at.kms = "display_off"
    BY <1>2, <2>0, <2>6 DEF done, AtType, then, KmsPc
  <2> QED BY <2>0, <2>1, <2>2, <2>3, <2>4, <2>5, <2>6
<1> QED BY <1>1, <1>2 DEF Threads

-----------------------------------------------------------------------------
(* The links *)

\* A controller that is powered on keeps what it has, or comes up in LP-11.
LEMMA HostPowerOn ==
    ASSUME NEW h \in HostType
    PROVE  /\ host_power_on(h) \in HostType /\ host_power_on(h).power_on
           /\ h.power_on => host_power_on(h) = h
           /\ ~h.power_on => /\ ~host_power_on(h).hs /\ host_power_on(h).hs_clk_pending
                             /\ host_power_on(h).ctrl = {"ENABLE"}
  BY DEF host_power_on, ctrl_enable, HostType, Modes

\* Controller n is controller h, or h was off and is n now.
Rose(n, h) ==
    \/ n = h
    \/ ~h.power_on /\ n.power_on /\ ~n.hs /\ n.hs_clk_pending /\ n.ctrl = {"ENABLE"}

\* Either way it is what it was, or it was off.
LEMMA HostRose ==
    ASSUME NEW h \in HostType, NEW n, n = h \/ n = host_power_on(h)
    PROVE  Rose(n, h) /\ (n = host_power_on(h) => n.power_on)
  BY HostPowerOn DEF Rose, HostType

\* Links n come from links l by powering on controllers.
Came(n, l) ==
    /\ n \in LinkType /\ n.is_powered = l.is_powered /\ n.mode = l.mode
    /\ n.dma_cmd_ctrl_restore = l.dma_cmd_ctrl_restore
    /\ n.active \/ n = l
    /\ \A i \in Hosts : n.host[i] = l.host[i] \/ n.host[i] = host_power_on(l.host[i])

\* dsi_mgr_power_on() powers both controllers on, or fails after some of them.
LEMMA PowerOn ==
    ASSUME NEW l \in LinkType, l.active, NEW o \in power_on(l)
    PROVE  /\ o.ok \in BOOLEAN /\ Came(o.link, l) /\ o.link.active
           /\ o.link.usage = l.usage
           /\ o.ok => \A i \in Hosts : o.link.host[i] = host_power_on(l.host[i])
<1> DEFINE phy  == [l EXCEPT !.phy_enabled = TRUE]
           host == [phy EXCEPT !.host[Master] = host_power_on(phy.host[Master])]
           both == [phy EXCEPT !.host = [i \in Hosts |-> host_power_on(phy.host[i])]]
<1>1. o \in {Outcome(both, TRUE), Outcome(l, FALSE), Outcome(phy, FALSE), Outcome(host, FALSE)}
  BY DEF power_on, Each
<1>2. phy \in LinkType /\ phy.host = l.host
  BY DEF LinkType
<1>3. \A i \in Hosts : host_power_on(l.host[i]) \in HostType
  BY HostPowerOn DEF LinkType
<1>4. [i \in Hosts |-> host_power_on(phy.host[i])] \in [Hosts -> HostType]
  BY <1>2, <1>3
<1>5. both \in LinkType /\ both.host = [i \in Hosts |-> host_power_on(l.host[i])]
  BY <1>2, <1>4 DEF LinkType
<1>6. [phy.host EXCEPT ![Master] = host_power_on(phy.host[Master])] \in [Hosts -> HostType]
  BY <1>2, <1>3 DEF LinkType, Hosts, Master
<1>7. host \in LinkType
      /\ host.host = [l.host EXCEPT ![Master] = host_power_on(l.host[Master])]
  BY <1>2, <1>6 DEF LinkType
<1>8. CASE o = Outcome(both, TRUE)
  BY <1>5, <1>8 DEF Outcome, Came, LinkType
<1>9. CASE o = Outcome(l, FALSE) \/ o = Outcome(phy, FALSE)
  <2>1. Came(l, l)
    BY DEF Came
  <2>2. Came(phy, l) /\ phy.active /\ phy.usage = l.usage
    BY <1>2 DEF Came, LinkType
  <2> HIDE DEF phy
  <2>3. o.ok = FALSE /\ (o.link = l \/ o.link = phy)
    BY <1>9 DEF Outcome
  <2>4. CASE o.link = l
    BY <2>1, <2>3, <2>4
  <2>5. CASE o.link = phy
    BY <2>2, <2>3, <2>5
  <2> QED BY <2>3, <2>4, <2>5
<1>10. CASE o = Outcome(host, FALSE)
  BY <1>7, <1>10 DEF Outcome, Came, LinkType
<1> QED BY <1>1, <1>8, <1>9, <1>10

\* A reference is only kept with both controllers on.
LEMMA GetPower ==
    ASSUME NEW l \in LinkType, NEW o \in get_power(l)
    PROVE  /\ o.ok \in BOOLEAN /\ Came(o.link, l)
           /\ IF o.ok THEN /\ o.link.active /\ o.link.usage = l.usage + 1
                           /\ \A i \in Hosts : o.link.host[i] = host_power_on(l.host[i])
              ELSE o.link.usage = l.usage
<1> DEFINE up == [l EXCEPT !.active = TRUE, !.usage = @ + 1]
<1>1. up \in LinkType /\ up.active /\ up.usage = l.usage + 1 /\ up.host = l.host
      /\ up.is_powered = l.is_powered /\ up.mode = l.mode
      /\ up.dma_cmd_ctrl_restore = l.dma_cmd_ctrl_restore
  <2>1. l.usage + 1 \in Int
    BY DEF LinkType
  <2>2. up = [l EXCEPT !.active = TRUE, !.usage = l.usage + 1]
    OBVIOUS
  <2> QED BY <2>1, <2>2 DEF LinkType
<1>2. PICK g \in get(l) :
         o \in IF ~g.ok THEN {g}
               ELSE {IF p.ok THEN p ELSE Outcome(put(p.link), FALSE) : p \in power_on(g.link)}
  BY DEF get_power
<1>3. g = Outcome(up, TRUE) \/ g = Outcome(l, FALSE)
  BY <1>2 DEF get
<1> HIDE DEF up
<1>4. CASE g = Outcome(l, FALSE)
  <2>1. o = Outcome(l, FALSE)
    BY <1>2, <1>4 DEF Outcome
  <2>2. Came(l, l)
    BY DEF Came
  <2> QED BY <2>1, <2>2 DEF Outcome
<1>5. CASE g = Outcome(up, TRUE)
  <2>1. PICK p \in power_on(up) : o = IF p.ok THEN p ELSE Outcome(put(p.link), FALSE)
    BY <1>2, <1>5 DEF Outcome
  <2>2. /\ p.ok \in BOOLEAN /\ Came(p.link, up) /\ p.link.active
        /\ p.link.usage = up.usage
        /\ p.ok => \A i \in Hosts : p.link.host[i] = host_power_on(up.host[i])
    BY <1>1, PowerOn
  <2>3. CASE p.ok
    BY <1>1, <2>1, <2>2, <2>3 DEF Came
  <2>4. CASE ~p.ok
    <3>1. o.ok = FALSE /\ o.link = [p.link EXCEPT !.usage = p.link.usage - 1]
      BY <2>1, <2>4 DEF Outcome, put
    <3>2. /\ o.link \in LinkType /\ o.link.active /\ o.link.usage = l.usage
          /\ o.link.host = p.link.host /\ o.link.is_powered = p.link.is_powered
          /\ o.link.mode = p.link.mode
          /\ o.link.dma_cmd_ctrl_restore = p.link.dma_cmd_ctrl_restore
      BY <1>1, <2>2, <3>1 DEF Came, LinkType
    <3> QED BY <1>1, <2>2, <3>1, <3>2 DEF Came
  <2> QED BY <2>3, <2>4
<1> QED BY <1>3, <1>4, <1>5

\* dsi_mgr_bridge_pre_enable() up to its power-on: with both controllers on, or
\* without its reference. A controller that comes on has its clock lane in LP-11.
LEMMA PreEnable ==
    ASSUME NEW l \in LinkType, NEW o \in pre_enable(l)
    PROVE  /\ o.ok \in BOOLEAN /\ o.link \in LinkType
           /\ o.link.active \/ o.link = [l EXCEPT !.mode = TRUE]
           /\ o.link.dma_cmd_ctrl_restore = l.dma_cmd_ctrl_restore
           /\ o.link.usage = l.usage + Counted(o.ok)
           /\ o.link.is_powered = l.is_powered
           /\ o.ok => o.link.active
           /\ \A i \in Hosts :
                 /\ o.ok => o.link.host[i].power_on
                 /\ \/ /\ o.link.host[i].power_on = l.host[i].power_on
                       /\ o.link.host[i].hs = l.host[i].hs
                       /\ o.link.host[i].hs_clk_pending = l.host[i].hs_clk_pending
                    \/ /\ ~l.host[i].power_on /\ ~o.link.host[i].hs
                       /\ o.link.host[i].hs_clk_pending
<1> DEFINE up == [l EXCEPT !.mode = TRUE]
<1>1. /\ up \in LinkType /\ up.host = l.host /\ up.usage = l.usage
      /\ up.is_powered = l.is_powered
      /\ up.dma_cmd_ctrl_restore = l.dma_cmd_ctrl_restore
  BY DEF LinkType
<1>2. o \in get_power(up)
  BY DEF pre_enable
<1> HIDE DEF up
<1>3. /\ o.ok \in BOOLEAN /\ Came(o.link, up)
      /\ IF o.ok THEN /\ o.link.active /\ o.link.usage = l.usage + 1
                      /\ \A i \in Hosts : o.link.host[i] = host_power_on(l.host[i])
         ELSE o.link.usage = l.usage
  BY <1>1, <1>2, GetPower
<1>4. \A i \in Hosts :
         /\ l.host[i] \in HostType
         /\ o.link.host[i] = l.host[i] \/ o.link.host[i] = host_power_on(l.host[i])
  BY <1>1, <1>3 DEF Came, LinkType
<1>5. \A i \in Hosts :
         Rose(o.link.host[i], l.host[i]) /\ (o.ok => o.link.host[i].power_on)
  BY <1>3, <1>4, HostRose
<1>6. /\ o.link.usage = l.usage + Counted(o.ok)
      /\ o.link \in LinkType /\ o.link.is_powered = l.is_powered
      /\ o.link.dma_cmd_ctrl_restore = l.dma_cmd_ctrl_restore
      /\ o.ok => o.link.active
  BY <1>1, <1>3 DEF Came, Counted, LinkType
<1>7. o.link.active \/ o.link = up
  BY <1>3 DEF Came
<1>8. \A i \in Hosts :
         \/ /\ o.link.host[i].power_on = l.host[i].power_on
            /\ o.link.host[i].hs = l.host[i].hs
            /\ o.link.host[i].hs_clk_pending = l.host[i].hs_clk_pending
         \/ /\ ~l.host[i].power_on /\ ~o.link.host[i].hs /\ o.link.host[i].hs_clk_pending
  BY <1>5 DEF Rose
<1>9. \A i \in Hosts : o.ok => o.link.host[i].power_on
  BY <1>5
<1> QED BY <1>3, <1>6, <1>7, <1>8, <1>9 DEF up

\* Its end: both controllers are enabled, and go on as they were.
LEMMA HostsEnable ==
    ASSUME NEW l \in LinkType
    PROVE  LET n == hosts_enable(l)
           IN  /\ n \in LinkType /\ n.is_powered = TRUE
               /\ n.active = l.active /\ n.phy_enabled = l.phy_enabled /\ n.usage = l.usage
               /\ n.dma_cmd_ctrl_restore = l.dma_cmd_ctrl_restore
               /\ \A i \in Hosts :
                     /\ n.host[i].power_on = l.host[i].power_on /\ n.host[i].hs = l.host[i].hs
                     /\ n.host[i].hs_clk_pending = l.host[i].hs_clk_pending
                     /\ n.host[i].ctrl = Modes
<1> DEFINE n == [l EXCEPT !.host = [i \in Hosts |-> host_enable(l.host[i])], !.is_powered = TRUE]
<1>1. hosts_enable(l) = n
  BY DEF hosts_enable, Each
<1>2. \A i \in Hosts :
         /\ host_enable(l.host[i]) \in HostType /\ host_enable(l.host[i]).ctrl = Modes
         /\ host_enable(l.host[i]).power_on = l.host[i].power_on
         /\ host_enable(l.host[i]).hs = l.host[i].hs
         /\ host_enable(l.host[i]).hs_clk_pending = l.host[i].hs_clk_pending
  <2> SUFFICES ASSUME NEW h \in HostType
               PROVE  /\ host_enable(h) \in HostType /\ host_enable(h).ctrl = Modes
                      /\ host_enable(h).power_on = h.power_on /\ host_enable(h).hs = h.hs
                      /\ host_enable(h).hs_clk_pending = h.hs_clk_pending
    BY DEF LinkType
  <2> QED BY DEF host_enable, HostType
<1>3. [i \in Hosts |-> host_enable(l.host[i])] \in [Hosts -> HostType]
  BY <1>2
<1>4. /\ n \in LinkType /\ n.is_powered = TRUE
      /\ n.active = l.active /\ n.phy_enabled = l.phy_enabled /\ n.usage = l.usage
      /\ n.dma_cmd_ctrl_restore = l.dma_cmd_ctrl_restore
      /\ \A i \in Hosts : n.host[i] = host_enable(l.host[i])
  BY <1>3 DEF LinkType
<1> HIDE DEF n
<1> QED BY <1>1, <1>2, <1>4

\* A powered clock lane runs in HS, or is asked to by the next command.
Waits(h) == h.power_on => h.hs \/ h.hs_clk_pending

\* Controller n is h, but for its clock lane and DSI_CTRL.
SameHost(n, h) == n.power_on = h.power_on /\ Waits(n) /\ (h.hs => n.hs)

\* Links n are l, but for their controllers.
SameLinks(n, l) ==
    /\ n \in LinkType /\ n.active = l.active /\ n.usage = l.usage
    /\ n.is_powered = l.is_powered /\ n.phy_enabled = l.phy_enabled
    /\ n.dma_cmd_ctrl_restore = l.dma_cmd_ctrl_restore

\* dsi_mgr_start_deferred_hs_clk() starts both clock lanes.
LEMMA StartHs ==
    ASSUME NEW l \in LinkType, \A i \in Hosts : Waits(l.host[i])
    PROVE  LET n == start_deferred_hs_clk(l)
           IN  /\ SameLinks(n, l)
               /\ \A i \in Hosts : /\ SameHost(n.host[i], l.host[i])
                                   /\ n.host[i].ctrl = l.host[i].ctrl
                                   /\ n.host[i].power_on => n.host[i].hs
<1> DEFINE n == [l EXCEPT !.host = [i \in Hosts |-> host_start_hs(l.host[i])]]
<1>1. start_deferred_hs_clk(l) = n
  BY DEF start_deferred_hs_clk, Each
<1> DEFINE Runs(m, h) == m.ctrl = h.ctrl /\ (m.power_on => m.hs)
<1>2. \A i \in Hosts : /\ host_start_hs(l.host[i]) \in HostType
                        /\ SameHost(host_start_hs(l.host[i]), l.host[i])
                        /\ Runs(host_start_hs(l.host[i]), l.host[i])
  <2> SUFFICES ASSUME NEW h \in HostType, Waits(h)
               PROVE  /\ host_start_hs(h) \in HostType /\ SameHost(host_start_hs(h), h)
                      /\ Runs(host_start_hs(h), h)
    BY DEF LinkType
  <2> QED BY DEF host_start_hs, HostType, SameHost, Waits
<1> HIDE DEF Runs
<1>3. [i \in Hosts |-> host_start_hs(l.host[i])] \in [Hosts -> HostType]
  BY <1>2
<1>4. SameLinks(n, l) /\ \A i \in Hosts : n.host[i] = host_start_hs(l.host[i])
  BY <1>3 DEF LinkType, SameLinks
<1> HIDE DEF n
<1>5. \A i \in Hosts : SameHost(n.host[i], l.host[i]) /\ Runs(n.host[i], l.host[i])
  BY <1>2, <1>4
<1> QED BY <1>1, <1>4, <1>5 DEF Runs

\* dsi_mgr_bridge_post_disable() drops the display's reference.
LEMMA PostDisable ==
    ASSUME NEW l \in LinkType, \A i \in Hosts : Waits(l.host[i])
    PROVE  LET n == post_disable(l)
           IN  /\ n \in LinkType /\ n.active = l.active /\ n.phy_enabled = l.phy_enabled
               /\ n.is_powered = FALSE /\ n.usage = l.usage - Counted(l.is_powered)
               /\ \A i \in Hosts : SameHost(n.host[i], l.host[i])
<1>1. CASE ~l.is_powered
  BY <1>1 DEF post_disable, SameHost, Counted, LinkType
<1>2. CASE l.is_powered
  <2> DEFINE off == [l EXCEPT !.host = [i \in Hosts |-> host_disable(l.host[i])]]
             n   == [off EXCEPT !.usage = off.usage - 1, !.is_powered = FALSE]
  <2>1. post_disable(l) = n
    BY <1>2 DEF post_disable, Each, put
  <2>2. \A i \in Hosts : /\ host_disable(l.host[i]) \in HostType
                          /\ SameHost(host_disable(l.host[i]), l.host[i])
    <3> SUFFICES ASSUME NEW h \in HostType, Waits(h)
                 PROVE  host_disable(h) \in HostType /\ SameHost(host_disable(h), h)
      BY DEF LinkType
    <3> QED BY DEF host_disable, HostType, SameHost, Waits
  <2>3. [i \in Hosts |-> host_disable(l.host[i])] \in [Hosts -> HostType]
    BY <2>2
  <2>4. SameLinks(off, l) /\ \A i \in Hosts : off.host[i] = host_disable(l.host[i])
    BY <2>3 DEF LinkType, SameLinks
  <2> HIDE DEF off
  <2>5. /\ n \in LinkType /\ n.active = off.active /\ n.phy_enabled = off.phy_enabled
        /\ n.is_powered = FALSE /\ n.usage = off.usage - 1 /\ n.host = off.host
    <3>1. off \in LinkType /\ off.usage - 1 \in Int
      BY <2>4 DEF SameLinks, LinkType
    <3> QED BY <3>1 DEF LinkType
  <2> HIDE DEF n
  <2> QED BY <1>2, <2>1, <2>2, <2>4, <2>5 DEF SameLinks, Counted
<1> QED BY <1>1, <1>2 DEF LinkType

\* msm_dsi_runtime_suspend() switches both controllers off.
LEMMA Suspended ==
    ASSUME NEW l \in LinkType
    PROVE  LET n == suspend(l)
           IN  /\ n \in LinkType /\ ~n.active /\ ~n.phy_enabled
               /\ n.usage = l.usage /\ n.is_powered = l.is_powered
               /\ \A i \in Hosts : ~n.host[i].power_on
<1> DEFINE off == [l EXCEPT !.host = [i \in Hosts |-> host_power_off(l.host[i])]]
           n   == [off EXCEPT !.active = FALSE, !.phy_enabled = FALSE]
<1>1. suspend(l) = n
  BY DEF suspend, Each
<1>2. \A i \in Hosts : /\ host_power_off(l.host[i]) \in HostType
                        /\ ~host_power_off(l.host[i]).power_on
  <2> SUFFICES ASSUME NEW h \in HostType
               PROVE  host_power_off(h) \in HostType /\ ~host_power_off(h).power_on
    BY DEF LinkType
  <2> QED BY DEF host_power_off, HostType
<1>3. [i \in Hosts |-> host_power_off(l.host[i])] \in [Hosts -> HostType]
  BY <1>2
<1>4. SameLinks(off, l) /\ \A i \in Hosts : off.host[i] = host_power_off(l.host[i])
  BY <1>3 DEF LinkType, SameLinks
<1> HIDE DEF off
<1>5. /\ n \in LinkType /\ ~n.active /\ ~n.phy_enabled /\ n.usage = off.usage
      /\ n.is_powered = off.is_powered /\ n.host = off.host
  BY <1>4 DEF SameLinks, LinkType
<1> HIDE DEF n
<1> QED BY <1>1, <1>2, <1>4, <1>5 DEF SameLinks

\* Writing DSI_CTRL of the master changes nothing else.
LEMMA WriteCtrl ==
    ASSUME NEW l \in LinkType, NEW c \in SUBSET Modes, \A i \in Hosts : Waits(l.host[i])
    PROVE  LET n == [l EXCEPT !.host[Master].ctrl = c]
           IN  /\ SameLinks(n, l) /\ n.mode = l.mode
               /\ n.host[0].ctrl = c /\ n.host[1].ctrl = l.host[1].ctrl
               /\ \A i \in Hosts : /\ SameHost(n.host[i], l.host[i])
                                   /\ n.host[i].hs = l.host[i].hs
<1> DEFINE new == [l.host[0] EXCEPT !.ctrl = c]
           n   == [l EXCEPT !.host[Master].ctrl = c]
<1>1. new \in HostType /\ SameHost(new, l.host[0]) /\ new.ctrl = c /\ new.hs = l.host[0].hs
  <2> SUFFICES ASSUME NEW h \in HostType, Waits(h)
               PROVE  LET m == [h EXCEPT !.ctrl = c]
                      IN  m \in HostType /\ SameHost(m, h) /\ m.ctrl = c /\ m.hs = h.hs
    BY DEF LinkType, Hosts
  <2> QED BY DEF HostType, SameHost, Waits
<1> HIDE DEF new
<1>2. n = [l EXCEPT !.host = [l.host EXCEPT ![0] = new]]
  BY DEF LinkType, Master, new
<1>3. [l.host EXCEPT ![0] = new] \in [Hosts -> HostType]
  BY <1>1 DEF LinkType, Hosts
<1>4. /\ SameLinks(n, l) /\ n.mode = l.mode
      /\ n.host[0] = new /\ n.host[1] = l.host[1]
  BY <1>2, <1>3 DEF SameLinks, LinkType, Hosts
<1> HIDE DEF n
<1>5. SameHost(l.host[1], l.host[1])
  BY DEF SameHost, Hosts
<1> QED BY <1>1, <1>4, <1>5 DEF n, Hosts

\* dsi_host_transfer(): a command has both controllers on with their clock lanes
\* in HS and the master in command mode, or is not sent.
LEMMA XferPrepare ==
    ASSUME NEW l \in LinkType, \A i \in Hosts : Waits(l.host[i]), NEW o \in xfer_prepare(l)
    PROVE  /\ o.ok \in BOOLEAN /\ o.link \in LinkType
           /\ o.link.is_powered = l.is_powered
           /\ o.link.usage = l.usage + Counted(o.ok)
           /\ o.link.active \/ (~o.ok /\ o.link = l)
           /\ \A i \in Hosts :
                 /\ Waits(o.link.host[i])
                 /\ l.host[i].power_on => o.link.host[i].power_on
                 /\ l.host[i].power_on /\ l.host[i].hs => o.link.host[i].hs
                 /\ o.ok => o.link.host[i].power_on /\ o.link.host[i].hs
           /\ o.ok => o.link.host[0].ctrl = Modes
           /\ l.host[1].power_on => o.link.host[1].ctrl = l.host[1].ctrl
           /\ l.host[0].power_on /\ o.ok => o.link.dma_cmd_ctrl_restore = l.host[0].ctrl
           /\ l.host[0].power_on /\ ~o.ok =>
                /\ o.link.host[0].ctrl = l.host[0].ctrl
                /\ o.link.dma_cmd_ctrl_restore = l.dma_cmd_ctrl_restore
<1>1. CASE ~l.mode
  <2>1. o.ok = FALSE /\ o.link = l
    BY <1>1 DEF xfer_prepare, Outcome
  <2>2. o.link.usage = l.usage + Counted(o.ok)
    BY <2>1 DEF LinkType, Counted
  <2>3. o.link \in LinkType /\ o.link.is_powered = l.is_powered /\ (~o.ok /\ o.link = l)
    BY <2>1
  <2> QED BY <2>1, <2>2, <2>3
<1>2. CASE l.mode
  <2> DEFINE Begun(k) == [k EXCEPT !.dma_cmd_ctrl_restore = k.host[Master].ctrl,
                                   !.host[Master].ctrl = @ \cup Modes]
  <2>1. PICK p \in get_power(l) :
           o = IF ~p.ok THEN p ELSE Outcome(start_deferred_hs_clk(Begun(p.link)), TRUE)
    BY <1>2 DEF xfer_prepare
  <2> HIDE DEF Begun
  <2>2. /\ p.ok \in BOOLEAN /\ Came(p.link, l)
        /\ IF p.ok THEN /\ p.link.active /\ p.link.usage = l.usage + 1
                        /\ \A i \in Hosts : p.link.host[i] = host_power_on(l.host[i])
           ELSE p.link.usage = l.usage
    BY GetPower
  <2>3. \A i \in Hosts : Rose(p.link.host[i], l.host[i]) /\ (p.ok => p.link.host[i].power_on)
    <3>1. \A i \in Hosts :
             /\ l.host[i] \in HostType
             /\ p.link.host[i] = l.host[i] \/ p.link.host[i] = host_power_on(l.host[i])
      BY <2>2 DEF Came, LinkType
    <3> QED BY <2>2, <3>1, HostRose
  <2>4. \A i \in Hosts : Waits(p.link.host[i])
    BY <2>3 DEF Rose, Waits
  <2>8. \A i \in Hosts : l.host[i].power_on => p.link.host[i] = l.host[i]
    BY <2>3 DEF Rose
  <2>5. p.link \in LinkType /\ p.link.is_powered = l.is_powered
        /\ p.link.dma_cmd_ctrl_restore = l.dma_cmd_ctrl_restore
        /\ (p.link.active \/ p.link = l) /\ 0 \in Hosts /\ 1 \in Hosts
    BY <2>2 DEF Came, Hosts
  <2>6. CASE ~p.ok
    <3>1. o = p
      BY <2>1, <2>6
    <3>2. o.link.usage = l.usage + Counted(o.ok)
      BY <2>2, <2>6, <3>1 DEF LinkType, Counted
    <3>3. \A i \in Hosts :
             /\ Waits(o.link.host[i])
             /\ l.host[i].power_on => o.link.host[i].power_on
             /\ l.host[i].power_on /\ l.host[i].hs => o.link.host[i].hs
      BY <2>4, <2>8, <3>1
    <3>4. \A i \in Hosts : l.host[i].power_on => o.link.host[i].ctrl = l.host[i].ctrl
      BY <2>8, <3>1
    <3>5. (o.link.active \/ (~o.ok /\ o.link = l)) /\ o.link \in LinkType
          /\ o.link.is_powered = l.is_powered /\ o.ok = FALSE
          /\ o.link.dma_cmd_ctrl_restore = l.dma_cmd_ctrl_restore
      BY <2>2, <2>5, <2>6, <3>1
    <3> QED BY <2>5, <3>2, <3>3, <3>4, <3>5
  <2>7. CASE p.ok
    <3> DEFINE b == Begun(p.link)
               n == start_deferred_hs_clk(b)
    <3>1. /\ b \in LinkType /\ b.active /\ b.usage = l.usage + 1
          /\ b.is_powered = l.is_powered
          /\ b.dma_cmd_ctrl_restore = p.link.host[0].ctrl
          /\ b.host[0].ctrl = Modes /\ b.host[1].ctrl = p.link.host[1].ctrl
          /\ \A i \in Hosts : SameHost(b.host[i], p.link.host[i])
      <4> DEFINE k == [p.link EXCEPT !.dma_cmd_ctrl_restore = p.link.host[0].ctrl]
                 c == k.host[0].ctrl \cup Modes
      <4>1. p.link.host[0].ctrl \in SUBSET Modes
        BY <2>5 DEF LinkType, HostType
      <4>2. /\ k \in LinkType /\ k.host = p.link.host /\ k.active = p.link.active
            /\ k.usage = p.link.usage /\ k.is_powered = p.link.is_powered
            /\ k.dma_cmd_ctrl_restore = p.link.host[0].ctrl
        BY <2>5, <4>1 DEF LinkType
      <4>3. b = [k EXCEPT !.host[Master].ctrl = c]
        BY DEF Begun, Master
      <4> HIDE DEF k
      <4>4. c \in SUBSET Modes /\ c = Modes
        BY <4>1, <4>2
      <4> HIDE DEF c, b
      <4>5. /\ SameLinks(b, k) /\ b.host[0].ctrl = c /\ b.host[1].ctrl = k.host[1].ctrl
            /\ \A i \in Hosts : SameHost(b.host[i], k.host[i])
        <5>1. \A i \in Hosts : Waits(k.host[i])
          BY <2>4, <4>2
        <5> QED BY <4>2, <4>3, <4>4, <5>1, WriteCtrl
      <4> QED BY <2>2, <2>5, <2>7, <4>2, <4>4, <4>5 DEF SameLinks
    <3> HIDE DEF b
    <3>2. /\ SameLinks(n, b)
          /\ \A i \in Hosts : /\ SameHost(n.host[i], b.host[i])
                              /\ n.host[i].ctrl = b.host[i].ctrl
                              /\ n.host[i].power_on => n.host[i].hs
      BY <3>1, StartHs DEF SameHost
    <3>3. o.ok = TRUE /\ o.link = n
      BY <2>1, <2>7 DEF Outcome, b
    <3> HIDE DEF n
    <3>4. \A i \in Hosts : n.host[i].power_on /\ n.host[i].hs /\ Waits(n.host[i])
      BY <2>3, <2>7, <3>1, <3>2 DEF SameHost
    <3>5. /\ n \in LinkType /\ n.is_powered = l.is_powered /\ n.active
          /\ n.usage = l.usage + 1 /\ n.dma_cmd_ctrl_restore = p.link.host[0].ctrl
          /\ n.host[0].ctrl = Modes /\ n.host[1].ctrl = p.link.host[1].ctrl
      BY <2>5, <3>1, <3>2 DEF SameLinks
    <3>6. o.link.usage = l.usage + Counted(o.ok)
      BY <3>3, <3>5 DEF Counted
    <3>7. \A i \in Hosts : l.host[i].power_on => p.link.host[i].ctrl = l.host[i].ctrl
      BY <2>8
    <3>8. \A i \in Hosts : o.link.host[i].power_on /\ o.link.host[i].hs /\ Waits(o.link.host[i])
      BY <3>3, <3>4
    <3>9. /\ o.link \in LinkType /\ o.link.is_powered = l.is_powered /\ o.link.active
          /\ o.link.dma_cmd_ctrl_restore = p.link.host[0].ctrl
          /\ o.link.host[0].ctrl = Modes /\ o.link.host[1].ctrl = p.link.host[1].ctrl
      BY <3>3, <3>5
    <3> QED BY <2>5, <3>3, <3>6, <3>7, <3>8, <3>9
  <2> QED BY <2>2, <2>6, <2>7
<1> QED BY <1>1, <1>2 DEF LinkType

\* msm_dsi_host_xfer_restore() writes back what DSI_CTRL had.
LEMMA XferRestore ==
    ASSUME NEW l \in LinkType, \A i \in Hosts : Waits(l.host[i])
    PROVE  LET n == xfer_restore(l)
           IN  /\ n \in LinkType /\ n.active = l.active /\ n.phy_enabled = l.phy_enabled
               /\ n.is_powered = l.is_powered /\ n.usage = l.usage - 1
               /\ n.host[0].ctrl = l.dma_cmd_ctrl_restore /\ n.host[1].ctrl = l.host[1].ctrl
               /\ \A i \in Hosts : SameHost(n.host[i], l.host[i])
<1> DEFINE k == [l EXCEPT !.host[Master].ctrl = l.dma_cmd_ctrl_restore]
           n == [k EXCEPT !.usage = k.usage - 1]
<1>1. xfer_restore(l) = n
  BY DEF xfer_restore, put
<1>2. l.dma_cmd_ctrl_restore \in SUBSET Modes
  BY DEF LinkType
<1>3. /\ SameLinks(k, l) /\ k.mode = l.mode
      /\ k.host[0].ctrl = l.dma_cmd_ctrl_restore /\ k.host[1].ctrl = l.host[1].ctrl
      /\ \A i \in Hosts : SameHost(k.host[i], l.host[i])
  BY <1>2, WriteCtrl
<1> HIDE DEF k
<1>4. k \in LinkType /\ k.usage - 1 \in Int
  BY <1>3 DEF SameLinks, LinkType
<1>5. /\ n \in LinkType /\ n.active = k.active /\ n.phy_enabled = k.phy_enabled
      /\ n.is_powered = k.is_powered /\ n.usage = k.usage - 1 /\ n.host = k.host
  BY <1>4 DEF LinkType
<1> HIDE DEF n
<1> QED BY <1>1, <1>3, <1>5 DEF SameLinks

-----------------------------------------------------------------------------
(* What the commands do to the driver and the DDI *)

ShownType == [level : Levels, hbm : Steps, band : Bands]

\* What an update has the DDI show.
LEMMA Images ==
    ASSUME Types, NEW j \in JobType
    PROVE  /\ in_hbm(j) \in BOOLEAN /\ image(j) \in ShownType /\ elvss70(j) \in {"normal", "hbm"}
           /\ told(j) \in ChipType
           /\ told(j).released = chip.released /\ told(j).on = chip.on
           /\ told(j).shown = image(j) /\ told(j).elvss70 = elvss70(j)
           /\ told(j).missed # "all"
           /\ told(j).missed = "nothing" => in_hbm(j) \/ panel.hbm_on \/ chip.missed = "nothing"
<1>1. in_hbm(j) \in BOOLEAN
  BY DEF in_hbm
<1>2. elvss70(j) \in {"normal", "hbm"}
  BY DEF elvss70, Types, ChipType
<1>3. (IF in_hbm(j) THEN j.hbm ELSE 0) \in Steps /\ j.level \in Levels /\ panel.temp_band \in Bands
  BY DEF Types, JobType, PanelType, Steps
<1>4. image(j) \in ShownType
  BY <1>3 DEF image, ShownType
<1>5. chip \in ChipType
  BY DEF Types
<1> QED BY <1>1, <1>2, <1>4, <1>5 DEF told, ChipType, ShownType

\* The DDI after its reset.
LEMMA ResetTypes == Reset \in ChipType /\ ~Reset.released /\ ~Reset.on
  BY DEF Reset, ChipType, Default, Levels, Steps, Bands, MaxLevel

\* brightness() changes only hbm_on, and what the DDI shows.
LEMMA Brightness ==
    ASSUME Types, NEW j \in JobType, NEW ok \in BOOLEAN, brightness(j, ok)
    PROVE  /\ panel' = [panel EXCEPT !.hbm_on = in_hbm(j)]
           /\ panel' \in PanelType /\ chip' \in ChipType
           /\ chip'.released = chip.released /\ chip'.on = chip.on
           /\ ~chip.released => chip' = chip
           /\ chip.released /\ ok => chip' = told(j)
           /\ chip.released /\ ~ok => chip'.missed = "all"
<1>1. /\ in_hbm(j) \in BOOLEAN /\ elvss70(j) \in {"normal", "hbm"}
      /\ told(j) \in ChipType /\ told(j).released = chip.released /\ told(j).on = chip.on
  BY Images
<1>2. chip \in ChipType /\ panel \in PanelType
  BY DEF Types
<1>3. panel' = [panel EXCEPT !.hbm_on = in_hbm(j)] /\ panel' \in PanelType
  BY <1>1, <1>2 DEF brightness, PanelType
<1>4. CASE ~chip.released
  BY <1>2, <1>3, <1>4 DEF brightness
<1>5. CASE chip.released /\ ok
  BY <1>1, <1>3, <1>5 DEF brightness
<1>6. CASE chip.released /\ ~ok
  <2>1. PICK r \in {chip.elvss70, elvss70(j)} :
           chip' = [chip EXCEPT !.elvss70 = r, !.missed = "all"]
    BY <1>6 DEF brightness
  <2>2. r \in {"normal", "hbm"}
    BY <1>1, <1>2, <2>1 DEF ChipType
  <2> QED BY <1>2, <1>3, <1>6, <2>1, <2>2 DEF ChipType
<1> QED BY <1>4, <1>5, <1>6

\* What a stage leaves alone; the panel is on from display_on to display_off, and
\* so is the backlight's power.
LEMMA Effect ==
    ASSUME Types, NEW t \in Threads, NEW j \in JobType, NEW ok \in BOOLEAN, effect(t, j, ok)
    PROVE  /\ panel' \in PanelType /\ chip' \in ChipType /\ bl' \in BlType
           /\ panel'.hbm = panel.hbm /\ panel'.temp_band = panel.temp_band
           /\ bl'.level = bl.level
           /\ at[t] = "display_on" /\ ok => panel'.enabled /\ bl'.power
           /\ at[t] = "display_off" => (panel'.enabled <=> ~ok)
           /\ at[t] = "display_on" /\ ~ok => ~panel'.enabled
           /\ at[t] \notin {"display_on", "display_off"} => panel'.enabled = panel.enabled
           /\ at[t] # "display_on" \/ ~ok => bl' = bl
<1>0. chip \in ChipType /\ panel \in PanelType /\ bl \in BlType
  BY DEF Types
<1>1. CASE at[t] = "mtp"
  <2>1. panel' \in {panel, [panel EXCEPT !.mtp_valid = TRUE, !.hbm_valid = TRUE],
                    [panel EXCEPT !.mtp_valid = TRUE]}
        /\ chip' = chip /\ bl' = bl
    BY <1>1 DEF effect
  <2> QED BY <1>0, <1>1, <2>1 DEF PanelType
<1>2. CASE at[t] = "init"
  <2>1. CASE ok
    <3>1. /\ panel' = [panel EXCEPT !.prepared = TRUE, !.hbm_on = in_hbm(j)]
          /\ chip' = told(j) /\ bl' = bl
      BY <1>2, <2>1 DEF effect
    <3>2. in_hbm(j) \in BOOLEAN /\ told(j) \in ChipType
      BY Images
    <3> QED BY <1>0, <1>2, <3>1, <3>2 DEF PanelType
  <2>2. CASE ~ok
    BY <1>0, <1>2, <2>2, ResetTypes DEF effect, power_off, PanelType
  <2> QED BY <2>1, <2>2
<1>3. CASE at[t] = "display_on"
  <2>1. /\ panel' = [panel EXCEPT !.enabled = ok]
        /\ bl' = [bl EXCEPT !.power = IF ok THEN TRUE ELSE bl.power]
        /\ chip' = [chip EXCEPT !.on = ok /\ chip.released]
    BY <1>3 DEF effect
  <2>2. (ok /\ chip.released) \in BOOLEAN
    OBVIOUS
  <2>3. chip' \in ChipType
    BY <1>0, <2>1, <2>2 DEF ChipType
  <2>4. bl' \in BlType /\ bl'.level = bl.level /\ (ok => bl'.power) /\ (~ok => bl' = bl)
    BY <1>0, <2>1 DEF BlType
  <2> QED BY <1>0, <1>3, <2>1, <2>3, <2>4 DEF PanelType
<1>4. CASE at[t] = "display_off"
  <2>1. panel' = [panel EXCEPT !.enabled = ~ok] /\ chip' = [chip EXCEPT !.on = FALSE] /\ bl' = bl
    BY <1>4 DEF effect
  <2> QED BY <1>0, <1>4, <2>1 DEF PanelType, ChipType
<1>5. CASE at[t] \notin {"mtp", "init", "display_on", "display_off"}
  <2>1. brightness(j, ok) /\ bl' = bl
    BY <1>5 DEF effect
  <2> QED BY <1>0, <1>5, <2>1, Brightness, Images DEF PanelType
<1> QED BY <1>1, <1>2, <1>3, <1>4, <1>5

-----------------------------------------------------------------------------
(* Locks and stages *)

\* A thread whose commands end gives its lock back and goes on; it is the display
\* that powers the backlight.
LEMMA Finished ==
    ASSUME Held, NEW t \in Threads, NEW j \in JobType, NEW ok \in BOOLEAN, at[t] \in Sends,
           at[t] \in Updates => lock = t, done(t, ok), effect(t, j, ok),
           lock' = unlocked(t, ok), xfer' = Free
    PROVE  /\ Holders' /\ at' \in AtType /\ panel' \in PanelType /\ chip' \in ChipType
           /\ bl' \in BlType /\ lock' \in Threads \cup {Free}
<1>0. Types /\ Holders /\ at \in AtType
  BY DEF Held, Types
<1>1. /\ at' \in AtType /\ panel' \in PanelType /\ chip' \in ChipType /\ bl' \in BlType
      /\ lock' \in Threads \cup {Free} /\ lock' # t
      /\ lock' # Free => lock' = lock
  BY <1>0, Done, Effect, Senders DEF unlocked, Types
<1>2. CASE t = "kms"
  <2>1. /\ at'.kms = then(at.kms, ok) /\ at'.user = at.user
        /\ at'.temp = IF at.kms = "display_on" /\ ok THEN "queued" ELSE at.temp
        /\ at.kms \in {"mtp", "init", "display_on", "bl_on", "bl_off", "display_off"}
    <3>1. at.kms \in {"mtp", "init", "display_on", "bl_on", "bl_off", "display_off"}
      BY <1>0, <1>2 DEF AtType, KmsPc, Sends, Updates
    <3> QED BY <1>0, <1>2, <3>1, Done
  <2>2. /\ at.kms = "display_on" /\ ok => panel'.enabled /\ bl'.power
        /\ at.kms \notin {"display_on", "display_off"} => panel'.enabled = panel.enabled
        /\ at.kms # "display_on" \/ ~ok => bl' = bl
    BY <1>0, <1>2, Effect
  <2>3. lock' # Free => at'[lock'] \in Updates
    <3> SUFFICES ASSUME lock' # Free  PROVE at'[lock'] \in Updates
      OBVIOUS
    <3>1. lock' = lock /\ lock \in {"user", "temp"} /\ at[lock] \in Updates
      BY <1>0, <1>1, <1>2 DEF Holders, Threads
    <3>2. at.kms = "display_on" => at.temp = "idle"
      BY <1>0 DEF Holders, AtType
    <3> QED BY <2>1, <3>1, <3>2 DEF Updates
  <2>4. at'.temp # "idle" => panel'.enabled /\ at'.kms \in {"bl_on", "on", "bl_off", "cancel"}
    BY <1>0, <2>1, <2>2 DEF Holders, then
  <2>5. at.kms \in {"bl_on", "bl_off"} => lock = t
    BY <1>2 DEF Updates
  <2>6. "bl_power" \notin Allowed => /\ lock' = Free
                                     /\ bl.power => at.kms = "bl_on"
    BY <1>0, <1>1, <2>1, <2>5 DEF Holders
  <2>7. "bl_power" \notin Allowed =>
          /\ bl'.power => at'.kms \in {"bl_on", "on"}
          /\ lock' # Free => at'.kms \in {"bl_on", "on", "bl_off"}
          /\ at'.kms = "bl_on" => panel'.enabled
          /\ at'.kms = "on" /\ (bl'.power \/ lock' # Free) => panel'.enabled
    BY <1>0, <2>1, <2>2, <2>6 DEF Holders, then
  <2> QED BY <1>1, <2>3, <2>4, <2>7 DEF Holders
<1>3. CASE t # "kms"
  <2>1. /\ at'.kms = at.kms /\ bl' = bl /\ panel'.enabled = panel.enabled
        /\ at.temp = "idle" => at'.temp = "idle"
        /\ \A u \in Threads \ {t} : at'[u] = at[u]
    BY <1>0, <1>3, Done, Effect, Senders DEF Threads, AtType
  <2>2. lock' # Free => at'[lock'] \in Updates
    BY <1>0, <1>1, <2>1 DEF Holders
  <2> QED BY <1>0, <1>1, <2>1, <2>2 DEF Holders
<1> QED BY <1>2, <1>3

\* A command of t is sent with outcome o, or cannot be.
Sent(t, o) ==
    /\ o.ok /\ link' = o.link /\ xfer' = t /\ job' = Now
    /\ at' = at /\ lock' = lock /\ panel' = panel /\ bl' = bl /\ chip' = chip
Failed(t, o) ==
    /\ ~o.ok /\ link' = o.link /\ xfer' = Free /\ job' = job /\ lock' = unlocked(t, FALSE)
    /\ done(t, FALSE) /\ effect(t, Now, FALSE)

\* begin() is one of the two, of a thread that may send.
LEMMA Begins ==
    ASSUME NEW t \in Threads, begin(t)
    PROVE  /\ at[t] \in Sends /\ xfer = Free /\ (at[t] \in Updates => lock = t)
           /\ \E o \in xfer_prepare(link) : Sent(t, o) \/ Failed(t, o)
           /\ reset' = [reset EXCEPT !.torn = @ \/ reset.busy] /\ cold' = cold
  BY DEF begin, Sent, Failed, Now

\* end() of a thread that holds the bus.
LEMMA Ends ==
    ASSUME Held, NEW t \in Threads, end(t)
    PROVE  /\ xfer = t /\ at[t] \in Sends /\ (at[t] \in Updates => lock = t)
           /\ \E ok \in BOOLEAN : done(t, ok) /\ effect(t, job, ok) /\ lock' = unlocked(t, ok)
           /\ link' = xfer_restore(link) /\ xfer' = Free /\ job' = [level |-> 0, hbm |-> 0]
           /\ reset' = reset /\ cold' = cold
  BY DEF end, Held, Types, Holders, Threads, Free

\* What is set is a setting.
LEMMA NowType == ASSUME Types  PROVE Now \in JobType
  BY DEF Now, Types, BlType, PanelType, JobType

\* The clock lanes of links are started when they run, by all that changes links.
AllWait == \A i \in Hosts : Waits(link.host[i])
-----------------------------------------------------------------------------
(* Locks, stages and types are kept *)

\* The display thread's own steps.
LEMMA HeldDisplay ==
    ASSUME Held, AllWait, TurnOn \/ TurnOff \/ Display
    PROVE  Held'
<1>0. Types /\ Holders /\ at \in AtType /\ AllWait
  BY DEF Held, Types
<1>1. CASE TurnOn
  <2>1. link' \in LinkType
    BY <1>0, <1>1, PreEnable DEF TurnOn, Types
  <2>2. at' = [at EXCEPT !.kms = "hosts"] \/ at' = [at EXCEPT !.kms = "prepare"]
    BY <1>1 DEF TurnOn, go
  <2>3. /\ at' \in AtType /\ at'.kms \in {"hosts", "prepare"}
        /\ at'.user = at.user /\ at'.temp = at.temp
    BY <1>0, <2>2 DEF AtType, KmsPc
  <2>4. at.temp = "idle" /\ xfer # "kms" /\ lock # "kms"
    BY <1>0, <1>1 DEF TurnOn, Holders, AtType, Sends, Updates, Free
  <2>5. Holders'
    BY <1>0, <1>1, <2>3, <2>4 DEF TurnOn, Holders, Types, Threads
  <2> QED BY <1>0, <1>1, <2>1, <2>3, <2>5 DEF TurnOn, Held, Types
<1>2. CASE prepare
  <2>1. /\ \E b \in Bands : panel' = [panel EXCEPT !.temp_band = b]
        /\ at' = [at EXCEPT !.kms = "release"] \/ at' = [at EXCEPT !.kms = "enable"]
    BY <1>2 DEF prepare, go
  <2>2. panel' \in PanelType /\ panel'.enabled = panel.enabled
    BY <1>0, <2>1 DEF Types, PanelType
  <2>3. /\ at' \in AtType /\ at'.kms \in {"release", "enable"}
        /\ at'.user = at.user /\ at'.temp = at.temp
    BY <1>0, <2>1 DEF AtType, KmsPc
  <2>4. at.temp = "idle" /\ xfer # "kms" /\ lock # "kms"
    BY <1>0, <1>2 DEF prepare, Holders, AtType, Sends, Updates, Free
  <2>5. Holders'
    BY <1>0, <1>2, <2>2, <2>3, <2>4 DEF prepare, Holders, Types, Threads
  <2> QED BY <1>0, <1>2, <2>2, <2>3, <2>5 DEF prepare, Held, Types
<1>3. CASE release
  <2>1. chip' \in ChipType
    BY <1>0, <1>3 DEF release, Types, ChipType
  <2>2. at' \in AtType /\ at'.kms = "mtp" /\ at'.user = at.user /\ at'.temp = at.temp
    BY <1>0, <1>3 DEF release, go, AtType, KmsPc
  <2>3. at.temp = "idle" /\ xfer # "kms" /\ lock # "kms"
    BY <1>0, <1>3 DEF release, Holders, AtType, Sends, Updates, Free
  <2>4. Holders'
    BY <1>0, <1>3, <2>2, <2>3 DEF release, Holders, Types, Threads
  <2> QED BY <1>0, <1>3, <2>1, <2>2, <2>4 DEF release, Held, Types
<1>4. CASE enable
  <2>1. link' \in LinkType
    <3>1. link \in LinkType /\ \A i \in Hosts : Waits(link.host[i])
      BY <1>0 DEF AllWait, Types
    <3>2. SameLinks(start_deferred_hs_clk(link), link)
      BY <3>1, StartHs
    <3> QED BY <1>4, <3>2 DEF enable, SameLinks
  <2>2. /\ at' \in AtType /\ at'.kms = IF panel.enabled THEN "on" ELSE "display_on"
        /\ at'.user = at.user /\ at'.temp = at.temp
    BY <1>0, <1>4 DEF enable, go, AtType, KmsPc
  <2>3. at.temp = "idle" /\ xfer # "kms" /\ lock # "kms"
    BY <1>0, <1>4 DEF enable, Holders, AtType, Sends, Updates, Free
  <2>4. Holders'
    BY <1>0, <1>4, <2>2, <2>3 DEF enable, Holders, Types, Threads
  <2> QED BY <1>0, <1>4, <2>1, <2>2, <2>4 DEF enable, Held, Types
<1>5. CASE TurnOff
  <2>1. bl' \in BlType /\ (panel.enabled => ~bl'.power) /\ (~panel.enabled => bl' = bl)
    BY <1>0, <1>5 DEF TurnOff, Types, BlType
  <2>2. /\ at' \in AtType /\ at'.kms = IF panel.enabled THEN "bl_off" ELSE "unprepare"
        /\ at'.user = at.user /\ at'.temp = at.temp
    BY <1>0, <1>5 DEF TurnOff, go, AtType, KmsPc
  <2>3. xfer # "kms" /\ lock # "kms"
    BY <1>0, <1>5 DEF TurnOff, Holders, AtType, Sends, Updates, Free
  <2>4. Holders'
    BY <1>0, <1>5, <2>1, <2>2, <2>3 DEF TurnOff, Holders, Types, Threads
  <2> QED BY <1>0, <1>5, <2>1, <2>2, <2>4 DEF TurnOff, Held, Types
<1>6. CASE cancel
  <2>1. at' \in AtType /\ at'.kms = "display_off" /\ at'.user = at.user /\ at'.temp = "idle"
    BY <1>0, <1>6 DEF cancel, AtType, KmsPc
  <2>2. xfer \notin {"kms", "temp"} /\ lock \notin {"kms", "temp"}
    BY <1>0, <1>6 DEF cancel, Holders, AtType, Sends, Updates, Free
  <2>3. Holders'
    BY <1>0, <1>6, <2>1, <2>2 DEF cancel, Holders, Types, Threads
  <2> QED BY <1>0, <1>6, <2>1, <2>3 DEF cancel, Held, Types
<1>7. CASE unprepare
  <2>1. panel' \in PanelType /\ panel'.enabled = panel.enabled /\ chip' \in ChipType
    BY <1>0, <1>7, ResetTypes DEF unprepare, power_off, Types, PanelType
  <2>2. at' \in AtType /\ at'.kms = "post_disable" /\ at'.user = at.user /\ at'.temp = at.temp
    BY <1>0, <1>7 DEF unprepare, go, AtType, KmsPc
  <2>3. at.temp = "idle" /\ xfer # "kms" /\ lock # "kms"
    BY <1>0, <1>7 DEF unprepare, Holders, AtType, Sends, Updates, Free
  <2>4. Holders'
    BY <1>0, <1>7, <2>1, <2>2, <2>3 DEF unprepare, Holders, Types, Threads
  <2> QED BY <1>0, <1>7, <2>1, <2>2, <2>4 DEF unprepare, Held, Types
<1>8. CASE disable_bridge
  <2>1. link' \in LinkType
    BY <1>0, <1>8, PostDisable DEF disable_bridge, Types, AllWait
  <2>2. at' \in AtType /\ at'.kms = "off" /\ at'.user = at.user /\ at'.temp = at.temp
    BY <1>0, <1>8 DEF disable_bridge, go, AtType, KmsPc
  <2>3. at.temp = "idle" /\ xfer # "kms" /\ lock # "kms"
    BY <1>0, <1>8 DEF disable_bridge, Holders, AtType, Sends, Updates, Free
  <2>4. Holders'
    BY <1>0, <1>8, <2>2, <2>3 DEF disable_bridge, Holders, Types, Threads
  <2> QED BY <1>0, <1>8, <2>1, <2>2, <2>4 DEF disable_bridge, Held, Types
<1>9. CASE enable_hosts
  <2>1. link' \in LinkType
    BY <1>0, <1>9, HostsEnable DEF enable_hosts, Types
  <2>2. reset' \in ResetType
    BY <1>0, <1>9 DEF enable_hosts, Types, ResetType
  <2>3. at' \in AtType /\ at'.kms = "prepare" /\ at'.user = at.user /\ at'.temp = at.temp
    BY <1>0, <1>9 DEF enable_hosts, go, AtType, KmsPc
  <2>4. at.temp = "idle" /\ xfer # "kms" /\ lock # "kms"
    BY <1>0, <1>9 DEF enable_hosts, Holders, AtType, Sends, Updates, Free
  <2>5. Holders'
    BY <1>0, <1>9, <2>3, <2>4 DEF enable_hosts, Holders, Types, Threads
  <2> QED BY <1>0, <1>9, <2>1, <2>2, <2>3, <2>5 DEF enable_hosts, Held, Types
<1> QED BY <1>1, <1>2, <1>3, <1>4, <1>5, <1>6, <1>7, <1>8, <1>9 DEF Display

\* Updates, and commands that begin and end.
LEMMA HeldCommands ==
    ASSUME Held, AllWait, NEW t \in Threads, Commands(t)
    PROVE  Held'
<1>0. Types /\ Holders /\ at \in AtType /\ AllWait
  BY DEF Held, Types
<1>1. CASE update(t)
  <2>0. /\ at[t] \in Updates /\ at[t] \in Sends /\ lock = Free /\ xfer # t
        /\ xfer' = xfer /\ panel' = panel /\ bl' = bl
    BY <1>0, <1>1 DEF update, Holders, Sends, Free, Types, Senders, Threads
  <2>1. CASE bl.power
    <3>1. lock' = t /\ at' = at
      BY <1>1, <2>1 DEF update
    <3>2. Holders'
      BY <1>0, <2>0, <2>1, <3>1 DEF Holders
    <3> QED BY <1>0, <1>1, <3>1, <3>2 DEF update, Held, Types
  <2>2. CASE ~bl.power
    <3>1. done(t, TRUE) /\ lock' = lock
      BY <1>1, <2>2 DEF update
    <3>2. /\ at' \in AtType
          /\ t = "kms" =>
               /\ at'.kms = then(at.kms, TRUE) /\ at'.user = at.user
               /\ at'.temp = IF at.kms = "display_on" THEN "queued" ELSE at.temp
          /\ t = "user" => at' = [at EXCEPT !.user = "idle"]
          /\ t = "temp" => at' = [at EXCEPT !.temp = "queued"]
      BY <1>0, <2>0, <3>1, Done
    <3>3. \/ t = "kms" /\ at.kms = "bl_on" /\ at'.kms = "on" /\ at'.temp = at.temp
          \/ t = "kms" /\ at.kms = "bl_off" /\ at'.kms = "cancel" /\ at'.temp = at.temp
          \/ t # "kms" /\ at'.kms = at.kms /\ (at'.temp # "idle" => at.temp # "idle")
      BY <1>0, <2>0, <3>2 DEF AtType, Updates, KmsPc, Threads, then
    <3>4. \A u \in Threads \ {t} : at'[u] = at[u]
      <4>1. CASE t = "kms"
        BY <3>2, <3>3, <4>1 DEF Threads
      <4>2. CASE t # "kms"
        BY <1>0, <3>2, <4>2 DEF AtType, Threads
      <4> QED BY <4>1, <4>2
    <3>5. xfer # Free => at'[xfer] = at[xfer]
      BY <1>0, <2>0, <3>4 DEF Types
    <3>6. Holders'
      BY <1>0, <2>0, <2>2, <3>1, <3>3, <3>5 DEF Holders
    <3> QED BY <1>0, <1>1, <3>1, <3>2, <3>6 DEF update, Held, Types
  <2> QED BY <2>1, <2>2
<1>2. CASE begin(t)
  <2>1. /\ at[t] \in Sends /\ xfer = Free /\ (at[t] \in Updates => lock = t)
        /\ reset' = [reset EXCEPT !.torn = @ \/ reset.busy] /\ cold' = cold
    BY <1>2, Begins
  <2>2. PICK o \in xfer_prepare(link) : Sent(t, o) \/ Failed(t, o)
    BY <1>2, Begins
  <2>3. o.link \in LinkType
    <3>1. link \in LinkType /\ \A i \in Hosts : Waits(link.host[i])
      BY <1>0 DEF AllWait, Types
    <3> QED BY <3>1, XferPrepare
  <2>4. reset' \in ResetType
    BY <1>0, <2>1 DEF Types, ResetType
  <2>5. Now \in JobType
    BY <1>0, NowType
  <2>6. CASE Sent(t, o)
    <3>1. Holders'
      BY <1>0, <2>1, <2>6 DEF Sent, Holders
    <3> QED BY <1>0, <2>1, <2>3, <2>4, <2>5, <2>6, <3>1 DEF Sent, Held, Types
  <2>7. CASE Failed(t, o)
    <3>1. /\ Holders' /\ at' \in AtType /\ panel' \in PanelType /\ chip' \in ChipType
          /\ bl' \in BlType /\ lock' \in Threads \cup {Free}
      BY <2>1, <2>5, <2>7, Finished DEF Failed
    <3> QED BY <1>0, <2>1, <2>3, <2>4, <2>7, <3>1 DEF Failed, Held, Types
  <2> QED BY <2>2, <2>6, <2>7
<1>3. CASE end(t)
  <2>1. /\ xfer = t /\ at[t] \in Sends /\ (at[t] \in Updates => lock = t)
        /\ link' = xfer_restore(link) /\ xfer' = Free /\ job' = [level |-> 0, hbm |-> 0]
        /\ reset' = reset /\ cold' = cold
    BY <1>3, Ends
  <2>2. PICK ok \in BOOLEAN : done(t, ok) /\ effect(t, job, ok) /\ lock' = unlocked(t, ok)
    BY <1>3, Ends
  <2>3. /\ Holders' /\ at' \in AtType /\ panel' \in PanelType /\ chip' \in ChipType
        /\ bl' \in BlType /\ lock' \in Threads \cup {Free}
    <3>1. job \in JobType
      BY <1>0 DEF Types
    <3> QED BY <2>1, <2>2, <3>1, Finished
  <2>4. link' \in LinkType
    <3>1. link \in LinkType /\ \A i \in Hosts : Waits(link.host[i])
      BY <1>0 DEF AllWait, Types
    <3> QED BY <2>1, <3>1, XferRestore
  <2>5. job' \in JobType
    BY <2>1 DEF JobType, Levels, Steps, MaxLevel
  <2> QED BY <1>0, <2>1, <2>3, <2>4, <2>5 DEF Held, Types
<1> QED BY <1>1, <1>2, <1>3 DEF Commands

\* The temperature's work, users, the sensor, runtime PM and the error worker.
LEMMA HeldOthers ==
    ASSUME Held, AllWait,
           temp_work \/ store \/ Temperature \/ autosuspend \/ err_worker \/ err_worker_end
    PROVE  Held'
<1>0. /\ Types /\ Holders /\ at \in AtType /\ link \in LinkType
      /\ \A i \in Hosts : Waits(link.host[i])
  BY DEF Held, Types, AllWait
<1>1. CASE temp_work
  <2>1. panel' \in PanelType /\ panel'.enabled = panel.enabled
    BY <1>0, <1>1 DEF temp_work, Types, PanelType
  <2>2. at' \in AtType /\ at'.temp = "update" /\ at'.kms = at.kms /\ at'.user = at.user
    BY <1>0, <1>1 DEF temp_work, go, AtType
  <2>3. xfer # "temp" /\ lock # "temp" /\ at.temp # "idle"
    BY <1>0, <1>1 DEF temp_work, Holders, Sends, Updates, Free
  <2>4. Holders'
    BY <1>0, <1>1, <2>1, <2>2, <2>3 DEF temp_work, Holders, Types, Threads
  <2> QED BY <1>0, <1>1, <2>1, <2>2, <2>4 DEF temp_work, Held, Types
<1>2. CASE store
  <2>1. /\ panel' \in PanelType /\ panel'.enabled = panel.enabled /\ bl' \in BlType
        /\ bl'.power = bl.power \/ (at.kms = "on" /\ panel.enabled) \/ "bl_power" \in Allowed
    <3>1. CASE \E v \in Levels : bl' = [bl EXCEPT !.level = v] /\ UNCHANGED panel
      BY <1>0, <3>1 DEF Types, BlType
    <3>2. CASE \E h \in Steps : panel' = [panel EXCEPT !.hbm = h] /\ UNCHANGED bl
      BY <1>0, <3>2 DEF Types, PanelType
    <3>3. CASE /\ (at.kms = "on" /\ panel.enabled) \/ "bl_power" \in Allowed
               /\ bl' = [bl EXCEPT !.power = ~bl.power] /\ UNCHANGED panel
      BY <1>0, <3>3 DEF Types, BlType
    <3> QED BY <1>2, <3>1, <3>2, <3>3 DEF store
  <2>2. at' \in AtType /\ at'.user = "update" /\ at'.kms = at.kms /\ at'.temp = at.temp
    BY <1>0, <1>2 DEF store, go, AtType
  <2>3. xfer # "user" /\ lock # "user"
    BY <1>0, <1>2 DEF store, Holders, Sends, Updates, Free
  <2>4. Holders'
    BY <1>0, <1>2, <2>1, <2>2, <2>3 DEF store, Holders, Types, Threads
  <2> QED BY <1>0, <1>2, <2>1, <2>2, <2>4 DEF store, Held, Types
<1>3. CASE Temperature
  <2>1. 1 - cold \in Bands
    BY <1>0 DEF Types, Bands
  <2> QED BY <1>0, <1>3, <2>1 DEF Temperature, Held, Types, Holders
<1>4. CASE autosuspend
  <2>1. link' \in LinkType
    BY <1>0, <1>4, Suspended DEF autosuspend
  <2> QED BY <1>0, <1>4, <2>1 DEF autosuspend, Held, Types, Holders
<1>5. CASE err_worker
  <2>1. link.host[Master].ctrl \in SUBSET Modes
    BY <1>0 DEF LinkType, HostType, Hosts, Master
  <2>2. link' \in LinkType
    <3>1. link' = [link EXCEPT !.host[Master].ctrl = link.host[Master].ctrl \ {"ENABLE"}]
      BY <1>5 DEF err_worker
    <3>2. link.host[Master].ctrl \ {"ENABLE"} \in SUBSET Modes
      BY <2>1
    <3> QED BY <1>0, <3>1, <3>2, WriteCtrl DEF SameLinks
  <2>3. reset' \in ResetType
    BY <1>0, <1>5, <2>1 DEF err_worker, Types, ResetType
  <2> QED BY <1>0, <1>5, <2>2, <2>3 DEF err_worker, Held, Types, Holders
<1>6. CASE err_worker_end
  <2>1. reset' \in ResetType /\ reset.ctrl \in SUBSET Modes
    BY <1>0, <1>6 DEF err_worker_end, Types, ResetType
  <2>2. link' \in LinkType
    BY <1>0, <1>6, <2>1, WriteCtrl DEF err_worker_end, SameLinks
  <2> QED BY <1>0, <1>6, <2>1, <2>2 DEF err_worker_end, Held, Types, Holders
<1> QED BY <1>1, <1>2, <1>3, <1>4, <1>5, <1>6

\* Every step keeps them.
LEMMA HeldStep ==
    Held /\ AllWait /\ [Next]_vars => Held'
<1> SUFFICES ASSUME Held, AllWait, [Next]_vars  PROVE Held'
  OBVIOUS
<1>1. CASE UNCHANGED vars
  BY <1>1 DEF Held, Types, Holders, vars
<1> QED BY <1>1, HeldDisplay, HeldCommands, HeldOthers DEF Next

-----------------------------------------------------------------------------
(* What the links owe their users is kept *)

Lit == {"display_on", "bl_on", "on"}

\* The display thread goes on without switching its links or starting its clock.
Onward ==
    /\ at'.kms = "off" => at.kms = "off"
    /\ at'.kms = "hosts" <=> at.kms = "hosts"
    /\ at'.kms \in Lit => at.kms \in Lit
    /\ at'.kms \in {"prepare", "release"} => at.kms \in {"prepare", "release"}

\* So it does when its commands are sent, or another thread's.
LEMMA DoneOnward ==
    ASSUME Types, NEW t \in Threads, NEW ok \in BOOLEAN, at[t] \in Sends, done(t, ok)
    PROVE  Onward
<1>1. CASE t = "kms"
  <2>1. at'.kms = then(at.kms, ok)
    BY <1>1, Done
  <2>2. at.kms \in {"mtp", "init", "display_on", "bl_on", "bl_off", "display_off"}
    BY <1>1 DEF Types, AtType, KmsPc, Sends, Updates
  <2> QED BY <2>1, <2>2 DEF Onward, Lit, then
<1>2. CASE t # "kms"
  BY <1>2, Done DEF Onward, Types, AtType, Threads
<1> QED BY <1>1, <1>2

\* Nobody sends a command while the display comes on, unless bl_power is written.
LEMMA QuietOn ==
    ASSUME Held, NEW t \in Threads, at[t] \in Sends, at[t] \in Updates => lock = t,
           "bl_power" \notin Allowed
    PROVE  at.kms \notin {"hosts", "prepare", "release"}
<1>1. CASE t = "kms"
  BY <1>1 DEF Sends, Updates
<1>2. CASE t # "kms"
  <2>1. at[t] \in Updates
    BY <1>2, Senders DEF Held, Updates
  <2> QED BY <2>1 DEF Held, Holders, Threads, Free
<1> QED BY <1>1, <1>2

\* Steps that leave the links and the bus alone.
LEMMA LinksKept ==
    ASSUME Links, Onward, link' = link, xfer' = xfer
    PROVE  Links'
  BY DEF Links, Powers, Onward, Lit, clock_in_hs

\* DSI_CTRL alone is written.
LEMMA LinksWritten ==
    ASSUME Held, Links, NEW c \in SUBSET Modes, link' = [link EXCEPT !.host[Master].ctrl = c],
           at' = at, xfer' = xfer
    PROVE  Links'
<1>1. /\ SameLinks(link', link)
      /\ \A i \in Hosts : /\ SameHost(link'.host[i], link.host[i])
                          /\ link'.host[i].hs = link.host[i].hs
  <2>1. link \in LinkType /\ \A i \in Hosts : Waits(link.host[i])
    BY DEF Held, Types, Links, Waits
  <2> QED BY <2>1, WriteCtrl
<1> QED BY <1>1 DEF Links, Powers, SameLinks, SameHost, Waits, clock_in_hs

\* A step of the bus of a thread that may send: the links are used, or as they
\* were, and the clock lanes that ran still run.
LEMMA LinksSent ==
    ASSUME Held, Links, NEW t \in Threads, at[t] \in Sends, at[t] \in Updates => lock = t,
           Onward, link' \in LinkType, link'.is_powered = link.is_powered,
           link'.usage = Counted(Powers) + Counted(xfer' # Free),
           link'.active \/ (link' = link /\ xfer' = Free),
           \A i \in Hosts :
              /\ Waits(link'.host[i])
              /\ link.host[i].power_on => link'.host[i].power_on
              /\ link.host[i].power_on /\ link.host[i].hs => link'.host[i].hs,
           xfer' # Free => \A i \in Hosts : link'.host[i].power_on
    PROVE  Links'
<1>1. "bl_power" \notin Allowed => at'.kms \notin {"hosts", "prepare", "release"}
  BY QuietOn DEF Onward
<1>2. (Powers' <=> Powers) /\ Counted(Powers') = Counted(Powers)
      /\ (Powers' \/ xfer' # Free => \A i \in Hosts : link'.host[i].power_on)
  BY DEF Links, Powers, Onward, Counted
<1>3. \A i \in Hosts : link'.host[i].power_on => link'.host[i].hs \/ link'.host[i].hs_clk_pending
  BY DEF Waits
<1>4. link'.is_powered /\ at'.kms \in {"display_on", "bl_on", "on"} =>
         \A i \in Hosts : link'.host[i].hs
  BY DEF Links, Powers, Onward, Lit
<1>5. /\ link'.usage > 0 => link'.active
      /\ ~link'.active => ~link'.phy_enabled /\ \A i \in Hosts : ~link'.host[i].power_on
      /\ link'.is_powered => at'.kms \notin {"off", "hosts"}
  <2>1. CASE link'.active
    BY <2>1 DEF Links, Onward
  <2>2. CASE link' = link /\ xfer' = Free
    BY <2>2 DEF Links, Onward
  <2> QED BY <2>1, <2>2
<1> QED BY <1>1, <1>2, <1>3, <1>4, <1>5 DEF Links

\* Every step keeps the links.
LEMMA LinksStep ==
    Held /\ Links /\ [Next]_vars => Links'
<1> SUFFICES ASSUME Held, Links, [Next]_vars  PROVE Links'
  OBVIOUS
<1>0. /\ Types /\ Holders /\ at \in AtType /\ link \in LinkType
      /\ \A i \in Hosts : Waits(link.host[i])
  BY DEF Held, Types, Links, Waits
<1>1. CASE TurnOn
  <2>1. PICK o \in pre_enable(link) :
           /\ link' = o.link
           /\ IF o.ok THEN go("kms", "hosts") ELSE go("kms", "prepare")
    BY <1>1 DEF TurnOn
  <2>2. /\ o.ok \in BOOLEAN /\ o.link \in LinkType
        /\ o.link.active \/ o.link = [link EXCEPT !.mode = TRUE]
        /\ o.link.usage = link.usage + Counted(o.ok)
        /\ o.link.is_powered = link.is_powered
        /\ o.ok => o.link.active
        /\ \A i \in Hosts :
              /\ o.ok => o.link.host[i].power_on
              /\ \/ /\ o.link.host[i].power_on = link.host[i].power_on
                    /\ o.link.host[i].hs = link.host[i].hs
                    /\ o.link.host[i].hs_clk_pending = link.host[i].hs_clk_pending
                 \/ /\ ~link.host[i].power_on /\ ~o.link.host[i].hs
                    /\ o.link.host[i].hs_clk_pending
    BY <1>0, PreEnable
  <2>3. ~link.is_powered /\ at.kms = "off" /\ ~Powers
    BY <1>1 DEF TurnOn, Links, Powers
  <2>4. at'.kms = (IF o.ok THEN "hosts" ELSE "prepare") /\ xfer' = xfer
    BY <1>0, <1>1, <2>1 DEF TurnOn, go, AtType
  <2>5. ~link'.is_powered /\ (Powers' <=> o.ok)
    BY <2>1, <2>2, <2>3, <2>4 DEF Powers
  <2>6. link'.usage = Counted(Powers') + Counted(xfer' # Free)
    BY <2>1, <2>2, <2>3, <2>4, <2>5 DEF Links, Counted
  <2>7. \A i \in Hosts : link.host[i].power_on => link'.host[i].power_on
    BY <2>1, <2>2
  <2>8. /\ link'.usage > 0 => link'.active
        /\ ~link'.active => ~link'.phy_enabled /\ \A i \in Hosts : ~link'.host[i].power_on
    <3>1. CASE o.link.active
      BY <2>1, <3>1
    <3>2. CASE o.link = [link EXCEPT !.mode = TRUE]
      <4>1. /\ link'.usage = link.usage /\ link'.active = link.active
            /\ link'.phy_enabled = link.phy_enabled /\ link'.host = link.host
        BY <1>0, <2>1, <3>2 DEF LinkType
      <4> QED BY <4>1 DEF Links
    <3> QED BY <2>2, <3>1, <3>2
  <2>9. Powers' \/ xfer' # Free => \A i \in Hosts : link'.host[i].power_on
    BY <2>1, <2>2, <2>4, <2>5, <2>7 DEF Links
  <2>10. \A i \in Hosts : link'.host[i].power_on => link'.host[i].hs \/ link'.host[i].hs_clk_pending
    BY <2>1, <2>2 DEF Links
  <2>11. "quick" \notin Allowed => \A i \in Hosts : ~clock_in_hs(link', i)
    <3>1. "quick" \notin Allowed => \A i \in Hosts : ~link.host[i].power_on
      BY <1>1 DEF TurnOn, Links
    <3> QED BY <2>1, <2>2, <3>1 DEF clock_in_hs
  <2> QED BY <2>5, <2>6, <2>8, <2>9, <2>10, <2>11 DEF Links, clock_in_hs
<1>10. CASE enable_hosts
  <2>1. /\ link'.is_powered /\ link'.active = link.active
        /\ link'.phy_enabled = link.phy_enabled /\ link'.usage = link.usage
        /\ \A i \in Hosts :
              /\ link'.host[i].power_on = link.host[i].power_on
              /\ link'.host[i].hs = link.host[i].hs
              /\ link'.host[i].hs_clk_pending = link.host[i].hs_clk_pending
    BY <1>0, <1>10, HostsEnable DEF enable_hosts
  <2>2. at.kms = "hosts" /\ at'.kms = "prepare" /\ xfer' = xfer
    BY <1>0, <1>10 DEF enable_hosts, go, AtType
  <2>3. Powers /\ Powers'
    BY <2>1, <2>2 DEF Powers
  <2>4. link'.usage = Counted(Powers') + Counted(xfer' # Free)
    BY <2>1, <2>2, <2>3 DEF Links, Counted
  <2> QED BY <2>1, <2>2, <2>3, <2>4 DEF Links, clock_in_hs
<1>2. CASE prepare \/ release \/ cancel \/ unprepare \/ TurnOff \/ temp_work \/ store
  <2>1. Onward /\ link' = link /\ xfer' = xfer
    BY <1>0, <1>2
       DEF prepare, release, cancel, unprepare, TurnOff, temp_work, store, Onward, go, Lit, AtType
  <2> QED BY <2>1, LinksKept
<1>3. CASE enable
  <2>1. /\ SameLinks(link', link)
        /\ \A i \in Hosts : /\ SameHost(link'.host[i], link.host[i])
                            /\ link'.host[i].power_on => link'.host[i].hs
    BY <1>0, <1>3, StartHs DEF enable
  <2>2. /\ at'.kms \notin {"off", "hosts", "prepare", "release"} /\ xfer' = xfer
        /\ at.kms \notin {"off", "hosts"}
    BY <1>0, <1>3 DEF enable, go, AtType
  <2> QED BY <2>1, <2>2 DEF Links, Powers, SameLinks, SameHost, Waits
<1>4. CASE disable_bridge
  <2>1. /\ link'.active = link.active /\ link'.phy_enabled = link.phy_enabled
        /\ link'.is_powered = FALSE /\ link'.usage = link.usage - Counted(link.is_powered)
        /\ \A i \in Hosts : SameHost(link'.host[i], link.host[i])
    BY <1>0, <1>4, PostDisable DEF disable_bridge
  <2>2. at.kms = "post_disable" /\ at'.kms = "off" /\ xfer' = xfer
    BY <1>0, <1>4 DEF disable_bridge, go, AtType
  <2>3. ~Powers' /\ (Powers <=> link.is_powered)
    BY <2>1, <2>2 DEF Powers
  <2>4. link'.usage = Counted(Powers') + Counted(xfer' # Free)
        /\ (link'.usage > 0 => link.usage > 0)
    BY <2>1, <2>2, <2>3 DEF Links, Counted
  <2> QED BY <2>1, <2>2, <2>3, <2>4 DEF Links, SameHost, Waits
<1>5. ASSUME NEW t \in Threads, Commands(t)  PROVE Links'
  <2>1. CASE update(t)
    <3>1. Onward /\ link' = link /\ xfer' = xfer
      <4>1. CASE bl.power
        BY <2>1, <4>1 DEF update, Onward
      <4>2. CASE ~bl.power
        BY <1>0, <2>1, <4>2, DoneOnward DEF update, Sends
      <4> QED BY <2>1, <4>1, <4>2 DEF update
    <3> QED BY <3>1, LinksKept
  <2>2. CASE begin(t)
    <3>1. at[t] \in Sends /\ xfer = Free /\ (at[t] \in Updates => lock = t)
      BY <2>2, Begins
    <3>2. PICK o \in xfer_prepare(link) : Sent(t, o) \/ Failed(t, o)
      BY <2>2, Begins
    <3>3. /\ o.ok \in BOOLEAN /\ o.link \in LinkType
          /\ o.link.is_powered = link.is_powered
          /\ o.link.usage = link.usage + Counted(o.ok)
          /\ o.link.active \/ (~o.ok /\ o.link = link)
          /\ \A i \in Hosts :
                /\ Waits(o.link.host[i])
                /\ link.host[i].power_on => o.link.host[i].power_on
                /\ link.host[i].power_on /\ link.host[i].hs => o.link.host[i].hs
          /\ o.ok => \A i \in Hosts : o.link.host[i].power_on
      BY <1>0, XferPrepare
    <3>4. link' = o.link /\ (xfer' # Free <=> o.ok)
      BY <3>2, Senders, <1>0 DEF Sent, Failed
    <3>5. Onward
      <4>1. CASE Sent(t, o)
        BY <4>1 DEF Sent, Onward
      <4>2. CASE Failed(t, o)
        BY <1>0, <3>1, <4>2, DoneOnward DEF Failed
      <4> QED BY <3>2, <4>1, <4>2
    <3>6. link'.usage = Counted(Powers) + Counted(xfer' # Free)
      BY <3>1, <3>3, <3>4 DEF Links, Counted
    <3>7. link' \in LinkType /\ link'.is_powered = link.is_powered
      BY <3>3, <3>4
    <3>8. link'.active \/ (link' = link /\ xfer' = Free)
      BY <3>3, <3>4
    <3>9. \A i \in Hosts :
             /\ Waits(link'.host[i])
             /\ link.host[i].power_on => link'.host[i].power_on
             /\ link.host[i].power_on /\ link.host[i].hs => link'.host[i].hs
      BY <3>3, <3>4
    <3>10. xfer' # Free => \A i \in Hosts : link'.host[i].power_on
      BY <3>3, <3>4
    <3> QED BY <3>1, <3>5, <3>6, <3>7, <3>8, <3>9, <3>10, LinksSent
  <2>3. CASE end(t)
    <3>1. /\ xfer = t /\ at[t] \in Sends /\ (at[t] \in Updates => lock = t)
          /\ link' = xfer_restore(link) /\ xfer' = Free
      BY <2>3, Ends
    <3>2. Onward
      BY <1>0, <2>3, <3>1, Ends, DoneOnward
    <3>3. /\ link' \in LinkType /\ link'.active = link.active
          /\ link'.is_powered = link.is_powered /\ link'.usage = link.usage - 1
          /\ \A i \in Hosts : SameHost(link'.host[i], link.host[i])
      BY <1>0, <3>1, XferRestore
    <3>4. xfer # Free /\ link.active
      BY <1>0, <3>1, Senders DEF Links, Counted
    <3>5. link'.usage = Counted(Powers) + Counted(xfer' # Free)
      BY <3>1, <3>3, <3>4 DEF Links, Counted
    <3>6. link'.active \/ (link' = link /\ xfer' = Free)
      BY <3>3, <3>4
    <3>7. \A i \in Hosts :
             /\ Waits(link'.host[i])
             /\ link.host[i].power_on => link'.host[i].power_on
             /\ link.host[i].power_on /\ link.host[i].hs => link'.host[i].hs
      BY <3>3 DEF SameHost
    <3>8. link' \in LinkType /\ link'.is_powered = link.is_powered /\ xfer' = Free
      BY <3>1, <3>3
    <3> QED BY <3>1, <3>2, <3>5, <3>6, <3>7, <3>8, LinksSent
  <2> QED BY <1>5, <2>1, <2>2, <2>3 DEF Commands
<1>6. CASE Temperature \/ UNCHANGED vars
  BY <1>6, LinksKept DEF Temperature, vars, Onward
<1>7. CASE autosuspend
  <2>1. /\ ~link'.active /\ ~link'.phy_enabled
        /\ link'.usage = link.usage /\ link'.is_powered = link.is_powered
        /\ \A i \in Hosts : ~link'.host[i].power_on
    BY <1>0, <1>7, Suspended DEF autosuspend
  <2>2. link.usage = 0 /\ at' = at /\ xfer' = xfer
    BY <1>7 DEF autosuspend
  <2>3. ~Powers /\ ~Powers' /\ xfer = Free
    BY <2>1, <2>2 DEF Links, Powers, Counted
  <2> QED BY <2>1, <2>2, <2>3 DEF Links, Powers, clock_in_hs
<1>8. CASE err_worker
  <2>1. link' = [link EXCEPT !.host[Master].ctrl = link.host[Master].ctrl \ {"ENABLE"}]
        /\ at' = at /\ xfer' = xfer
    BY <1>8 DEF err_worker
  <2>2. link.host[Master].ctrl \ {"ENABLE"} \in SUBSET Modes
    BY <1>0 DEF LinkType, HostType, Hosts, Master
  <2> QED BY <2>1, <2>2, LinksWritten
<1>9. CASE err_worker_end
  <2>1. reset.ctrl \in SUBSET Modes
    BY <1>0 DEF Types, ResetType
  <2>2. at' = at /\ xfer' = xfer
        /\ (link' = [link EXCEPT !.host[Master].ctrl = reset.ctrl] \/ link' = link)
    BY <1>9 DEF err_worker_end
  <2>3. CASE link' = link
    BY <2>2, <2>3, LinksKept DEF Onward
  <2> QED BY <2>1, <2>2, <2>3, LinksWritten
<1> QED BY <1>1, <1>2, <1>3, <1>4, <1>5, <1>6, <1>7, <1>8, <1>9, <1>10 DEF Next, Display

-----------------------------------------------------------------------------
(* The controllers are enabled *)

\* The bus is free while the bridge is switched on: without "bl_power" nobody updates
\* a display that is off.
LEMMA FreeAtHosts ==
    ASSUME Held, at.kms = "hosts", "bl_power" \notin Allowed
    PROVE  xfer = Free
  BY DEF Held, Types, Holders, AtType, Threads, Sends, Updates, Free

\* Steps that leave the links, the bus and the error worker alone.
LEMMA EnabledKept ==
    ASSUME Enabled, link' = link, xfer' = xfer, reset' = reset
    PROVE  Enabled'
  BY DEF Enabled

\* Every step keeps the controllers enabled.
LEMMA EnabledStep ==
    ASSUME "bl_power" \notin Allowed
    PROVE  Held /\ Links /\ Enabled /\ [Next]_vars => Enabled'
<1> SUFFICES ASSUME Held, Links, Enabled, [Next]_vars  PROVE Enabled'
  OBVIOUS
<1>0. /\ Types /\ link \in LinkType /\ reset \in ResetType /\ 0 \in Hosts /\ 1 \in Hosts
      /\ \A i \in Hosts : Waits(link.host[i])
      /\ link.is_powered => \A i \in Hosts : link.host[i].power_on
  BY DEF Held, Types, Links, Powers, Waits, Hosts
<1>1. CASE TurnOn
  <2>1. PICK o \in pre_enable(link) : link' = o.link
    BY <1>1 DEF TurnOn
  <2>2. o.link.is_powered = link.is_powered
    BY <1>0, PreEnable
  <2>3. ~link.is_powered
    BY <1>1 DEF TurnOn, Links
  <2> QED BY <2>1, <2>2, <2>3 DEF Enabled
<1>9. CASE enable_hosts
  <2>1. xfer = Free /\ xfer' = xfer /\ reset' = [reset EXCEPT !.torn = reset.busy]
    BY <1>9, FreeAtHosts DEF enable_hosts
  <2>2. \A i \in Hosts : link'.host[i].ctrl = Modes
    BY <1>0, <1>9, HostsEnable DEF enable_hosts
  <2>3. (reset'.torn <=> reset.busy) /\ (reset'.busy <=> reset.busy)
    BY <1>0, <2>1 DEF ResetType
  <2> QED BY <1>0, <2>1, <2>2, <2>3 DEF Enabled
<1>2. CASE prepare \/ release \/ cancel \/ unprepare \/ TurnOff \/ temp_work \/ store
           \/ Temperature \/ UNCHANGED vars
  <2>1. link' = link /\ xfer' = xfer /\ reset' = reset
    BY <1>2 DEF prepare, release, cancel, unprepare, TurnOff, temp_work, store, Temperature, vars
  <2> QED BY <2>1, EnabledKept
<1>3. CASE enable
  <2>1. /\ SameLinks(link', link)
        /\ \A i \in Hosts : link'.host[i].ctrl = link.host[i].ctrl
    BY <1>0, <1>3, StartHs DEF enable
  <2>2. reset' = reset /\ xfer' = xfer
    BY <1>3 DEF enable
  <2> QED BY <1>0, <2>1, <2>2 DEF Enabled, SameLinks
<1>4. CASE disable_bridge
  <2>1. link'.is_powered = FALSE
    BY <1>0, <1>4, PostDisable DEF disable_bridge
  <2> QED BY <2>1 DEF Enabled
<1>5. ASSUME NEW t \in Threads, Commands(t)  PROVE Enabled'
  <2>1. CASE update(t)
    BY <2>1, EnabledKept DEF update
  <2>2. CASE begin(t)
    <3>1. xfer = Free /\ reset' = [reset EXCEPT !.torn = reset.torn \/ reset.busy]
      BY <2>2, Begins
    <3>2. PICK o \in xfer_prepare(link) : Sent(t, o) \/ Failed(t, o)
      BY <2>2, Begins
    <3>3. link' = o.link /\ (xfer' # Free <=> o.ok)
      BY <1>0, <3>2, Senders DEF Sent, Failed
    <3>4. /\ o.link.is_powered = link.is_powered
          /\ o.ok => o.link.host[0].ctrl = Modes
          /\ link.host[1].power_on => o.link.host[1].ctrl = link.host[1].ctrl
          /\ link.host[0].power_on /\ o.ok => o.link.dma_cmd_ctrl_restore = link.host[0].ctrl
          /\ link.host[0].power_on /\ ~o.ok => o.link.host[0].ctrl = link.host[0].ctrl
      BY <1>0, XferPrepare
    <3>5. ~reset'.torn => ~reset.torn /\ ~reset.busy
      <4>1. (reset.torn \/ reset.busy) \in BOOLEAN
        BY <1>0 DEF ResetType
      <4>2. reset'.torn <=> reset.torn \/ reset.busy
        BY <1>0, <3>1, <4>1 DEF ResetType
      <4> QED BY <4>2
    <3>6. ~reset.busy => ~reset'.busy
      BY <1>0, <3>1 DEF ResetType
    <3> QED BY <1>0, <3>1, <3>3, <3>4, <3>5, <3>6 DEF Enabled
  <2>3. CASE end(t)
    <3>1. xfer = t /\ link' = xfer_restore(link) /\ xfer' = Free /\ reset' = reset
      BY <2>3, Ends
    <3>2. /\ link'.is_powered = link.is_powered
          /\ link'.host[0].ctrl = link.dma_cmd_ctrl_restore
          /\ link'.host[1].ctrl = link.host[1].ctrl
      BY <1>0, <3>1, XferRestore
    <3>3. xfer # Free
      BY <1>0, <3>1, Senders
    <3> QED BY <3>1, <3>2, <3>3 DEF Enabled
  <2> QED BY <1>5, <2>1, <2>2, <2>3 DEF Commands
<1>6. CASE autosuspend
  <2>1. link.usage = 0 /\ link'.is_powered = link.is_powered
    BY <1>0, <1>6, Suspended DEF autosuspend
  <2>2. ~link'.is_powered
    BY <2>1 DEF Links, Powers, Counted
  <2> QED BY <2>2 DEF Enabled
<1>7. CASE err_worker
  <2>1. /\ link' = [link EXCEPT !.host[Master].ctrl = link.host[Master].ctrl \ {"ENABLE"}]
        /\ ~reset.busy /\ xfer' = xfer
        /\ reset' = [reset EXCEPT !.busy = TRUE, !.ctrl = link.host[0].ctrl]
    BY <1>7 DEF err_worker, Master
  <2>2. link.host[Master].ctrl \ {"ENABLE"} \in SUBSET Modes
    BY <1>0 DEF LinkType, HostType, Master
  <2>3. SameLinks(link', link) /\ link'.host[1].ctrl = link.host[1].ctrl
    BY <1>0, <2>1, <2>2, WriteCtrl
  <2>4. reset'.busy /\ reset'.ctrl = link.host[0].ctrl /\ reset'.torn = reset.torn
    BY <1>0, <2>1 DEF ResetType
  <2> QED BY <2>1, <2>3, <2>4 DEF Enabled, SameLinks
<1>8. CASE err_worker_end
  <2>1. /\ reset.busy /\ reset.ctrl \in SUBSET Modes /\ xfer' = xfer
        /\ reset' = [reset EXCEPT !.busy = FALSE, !.ctrl = {}]
        /\ link' = IF "ENABLE" \in reset.ctrl THEN [link EXCEPT !.host[Master].ctrl = reset.ctrl]
                   ELSE link
    BY <1>0, <1>8 DEF err_worker_end, ResetType
  <2>2. ~reset'.busy /\ reset'.torn = reset.torn
    BY <1>0, <2>1 DEF ResetType
  <2>3. CASE "ENABLE" \in reset.ctrl
    <3>1. /\ SameLinks(link', link) /\ link'.host[0].ctrl = reset.ctrl
          /\ link'.host[1].ctrl = link.host[1].ctrl
      BY <1>0, <2>1, <2>3, WriteCtrl
    <3> QED BY <2>1, <2>2, <3>1 DEF Enabled, SameLinks
  <2>4. CASE "ENABLE" \notin reset.ctrl
    BY <2>1, <2>2, <2>4 DEF Enabled, Modes
  <2> QED BY <2>3, <2>4
<1> QED BY <1>1, <1>2, <1>3, <1>4, <1>5, <1>6, <1>7, <1>8, <1>9 DEF Next, Display

-----------------------------------------------------------------------------
(* What the DDI was told *)

\* An update has the DDI show what it read, and leaves register 70 right.
LEMMA BrightnessShows ==
    ASSUME Types, NEW j \in JobType, NEW ok \in BOOLEAN, brightness(j, ok),
           ~chip.released => chip = Reset,
           chip.missed = "nothing" /\ chip.elvss70 = "hbm" => panel.hbm_on
    PROVE  /\ chip'.missed = "nothing" /\ chip'.elvss70 = "hbm" => panel'.hbm_on
           /\ chip.released /\ chip'.missed # "all" => Shows(j)'
<1>0. chip \in ChipType /\ panel \in PanelType
  BY DEF Types
<1>1. /\ panel' = [panel EXCEPT !.hbm_on = in_hbm(j)]
      /\ ~chip.released => chip' = chip
      /\ chip.released /\ ok => chip' = told(j)
      /\ chip.released /\ ~ok => chip'.missed = "all"
  BY Brightness
<1>2. in_hbm(j) \in BOOLEAN /\ image(j) \in ShownType /\ elvss70(j) \in {"normal", "hbm"}
  BY Images
<1>3. (panel'.hbm_on <=> in_hbm(j)) /\ (panel'.hbm_valid <=> panel.hbm_valid)
      /\ panel'.temp_band = panel.temp_band
  BY <1>0, <1>1, <1>2 DEF PanelType
<1>4. (in_hbm(j) <=> in_hbm(j)')
  BY <1>3 DEF in_hbm
<1>5. image(j)' = image(j)
  BY <1>3, <1>4 DEF image
<1>6. CASE ~chip.released
  BY <1>1, <1>6 DEF Reset
<1>7. CASE chip.released /\ ok
  <2>1. /\ chip'.shown = image(j) /\ chip'.elvss70 = elvss70(j)
        /\ chip'.missed = "nothing" => in_hbm(j) \/ panel.hbm_on \/ chip.missed = "nothing"
    BY <1>1, <1>7, Images
  <2>2. chip'.missed = "nothing" => elvss70(j) = IF in_hbm(j) THEN "hbm" ELSE "normal"
    BY <1>0, <2>1 DEF elvss70, ChipType
  <2> QED BY <1>3, <1>4, <1>5, <2>1, <2>2 DEF Shows
<1>8. CASE chip.released /\ ~ok
  BY <1>1, <1>8
<1> QED BY <1>6, <1>7, <1>8

\* The commands of a thread that end, with what it read.
LEMMA ToldFinished ==
    ASSUME Held, Told, NEW t \in Threads, NEW j \in JobType, NEW ok \in BOOLEAN,
           at[t] \in Sends, done(t, ok), effect(t, j, ok), xfer' = Free,
           at[t] \in Updates /\ (at.user = "idle" \/ t = "user") => j = Now
    PROVE  Told'
<1>0. Types /\ at \in AtType /\ chip \in ChipType /\ panel \in PanelType /\ bl \in BlType
  BY DEF Held, Types
<1>1. CASE at[t] \in Updates
  <2>1. brightness(j, ok) /\ bl' = bl
    BY <1>1 DEF effect, Updates
  <2>2. /\ panel' = [panel EXCEPT !.hbm_on = in_hbm(j)]
        /\ chip'.released = chip.released /\ chip'.on = chip.on
        /\ ~chip.released => chip' = chip
    BY <1>0, <2>1, Brightness
  <2>3. panel'.prepared = panel.prepared /\ panel'.hbm = panel.hbm
    BY <1>0, <2>2 DEF PanelType
  <2>4. /\ chip'.missed = "nothing" /\ chip'.elvss70 = "hbm" => panel'.hbm_on
        /\ chip.released /\ chip'.missed # "all" => Shows(j)'
    BY <1>0, <2>1, BrightnessShows DEF Told
  <2>5. \/ at'.kms = at.kms
        \/ at.kms = "bl_on" /\ at'.kms = "on"
        \/ at.kms = "bl_off" /\ at'.kms = "cancel"
    <3>1. CASE t = "kms"
      <4>1. at'.kms = then(at.kms, ok) /\ at.kms \in {"bl_on", "bl_off"}
        BY <1>0, <1>1, <3>1, Done, Senders DEF Updates
      <4> QED BY <4>1 DEF then
    <3>2. CASE t # "kms"
      BY <1>0, <3>2, Done DEF AtType, Threads
    <3> QED BY <3>1, <3>2
  <2>6. at'.user = "idle" => at.user = "idle" \/ t = "user"
    <3>1. CASE t = "kms"
      BY <1>0, <3>1, Done
    <3>2. CASE t = "temp"
      BY <1>0, <3>2, Done DEF AtType
    <3> QED BY <3>1, <3>2 DEF Threads
  <2>7. Now' = Now
    BY <2>1, <2>3 DEF Now
  <2>8. at'.user = "idle" => j = Now
    BY <1>1, <2>6
  <2>9. at'.user = "idle" /\ chip'.on /\ chip'.missed # "all" => Shows(Now)'
    <3>1. chip'.on => chip.released
      BY <2>2, ResetTypes DEF Told
    <3>2. SUFFICES ASSUME at'.user = "idle", chip'.on, chip'.missed # "all"  PROVE Shows(Now)'
      OBVIOUS
    <3>3. Shows(j)' /\ j = Now'
      BY <2>4, <2>7, <2>8, <3>1, <3>2
    <3> QED BY <3>3 DEF Shows, image, in_hbm
  <2> QED BY <2>2, <2>3, <2>4, <2>5, <2>9 DEF Told
<1>2. CASE at[t] \notin Updates
  <2>1. t = "kms" /\ at.kms \in {"mtp", "init", "display_on", "display_off"}
    BY <1>0, <1>2, Senders DEF Sends, Updates
  <2>2. at'.kms = then(at.kms, ok)
    BY <1>0, <2>1, Done
  <2>3. CASE at.kms = "mtp"
    <3>1. /\ panel' \in {panel, [panel EXCEPT !.mtp_valid = TRUE, !.hbm_valid = TRUE],
                         [panel EXCEPT !.mtp_valid = TRUE]}
          /\ chip' = chip
      BY <2>1, <2>3 DEF effect
    <3>2. panel'.prepared = panel.prepared /\ panel'.hbm_on = panel.hbm_on
      BY <1>0, <3>1 DEF PanelType
    <3>3. at'.kms = "init"
      BY <2>2, <2>3 DEF then
    <3> QED BY <2>3, <3>1, <3>2, <3>3 DEF Told
  <2>4. CASE at.kms = "init" /\ ok
    <3>1. /\ panel' = [panel EXCEPT !.prepared = TRUE, !.hbm_on = in_hbm(j)]
          /\ chip' = told(j)
      BY <2>1, <2>4 DEF effect
    <3>2. in_hbm(j) \in BOOLEAN
      BY <1>0, Images
    <3>3. panel'.prepared /\ (panel'.hbm_on <=> in_hbm(j))
      BY <1>0, <3>1, <3>2 DEF PanelType
    <3>4. /\ chip'.released = chip.released /\ chip'.on = chip.on
          /\ chip'.elvss70 = elvss70(j)
          /\ chip'.missed = "nothing" => in_hbm(j) \/ panel.hbm_on \/ chip.missed = "nothing"
      BY <1>0, <3>1, Images
    <3>5. chip'.missed = "nothing" /\ elvss70(j) = "hbm" => in_hbm(j)
      BY <3>4 DEF elvss70, Told
    <3>6. at'.kms = "enable"
      BY <2>2, <2>4 DEF then
    <3> QED BY <2>4, <3>3, <3>4, <3>5, <3>6 DEF Told
  <2>5. CASE at.kms = "init" /\ ~ok
    <3>1. panel' = power_off(panel) /\ chip' = Reset /\ at'.kms = "enable"
      BY <2>1, <2>2, <2>5 DEF effect, then
    <3>2. ~panel'.prepared
      BY <1>0, <3>1 DEF power_off, PanelType
    <3>3. ~chip'.released /\ ~chip'.on /\ chip'.elvss70 # "hbm"
      BY <3>1 DEF Reset
    <3>4. Reset' = Reset
      BY DEF Reset, Default
    <3> QED BY <3>1, <3>2, <3>3, <3>4 DEF Told
  <2>6. CASE at.kms = "display_on"
    <3>1. /\ panel' = [panel EXCEPT !.enabled = ok]
          /\ chip' = [chip EXCEPT !.on = ok /\ chip.released]
      BY <2>1, <2>6 DEF effect
    <3>2. panel'.prepared = panel.prepared /\ panel'.hbm_on = panel.hbm_on
      BY <1>0, <3>1 DEF PanelType
    <3>3. (ok /\ chip.released) \in BOOLEAN
      OBVIOUS
    <3>4. /\ chip'.released = chip.released /\ chip'.missed = chip.missed
          /\ chip'.elvss70 = chip.elvss70
          /\ chip'.on => ok
      BY <1>0, <3>1, <3>3 DEF ChipType
    <3>5. ~chip.released => chip' = chip
      BY <1>0, <3>1, ResetTypes DEF Told, ChipType
    <3>6. at'.kms \in {"bl_on", "on"} /\ (at'.kms = "on" => ~ok)
      BY <2>2, <2>6 DEF then
    <3> QED BY <2>6, <3>2, <3>4, <3>5, <3>6 DEF Told
  <2>7. CASE at.kms = "display_off"
    <3>1. panel' = [panel EXCEPT !.enabled = ~ok] /\ chip' = [chip EXCEPT !.on = FALSE]
      BY <2>1, <2>7 DEF effect
    <3>2. panel'.prepared = panel.prepared /\ panel'.hbm_on = panel.hbm_on
      BY <1>0, <3>1 DEF PanelType
    <3>3. /\ chip'.released = chip.released /\ chip'.missed = chip.missed
          /\ chip'.elvss70 = chip.elvss70 /\ ~chip'.on
      BY <1>0, <3>1 DEF ChipType
    <3>4. ~chip.released => chip' = chip
      BY <1>0, <3>1, ResetTypes DEF Told, ChipType
    <3>5. at'.kms = "unprepare"
      BY <2>2, <2>7 DEF then
    <3> QED BY <2>7, <3>2, <3>3, <3>4, <3>5 DEF Told
  <2> QED BY <2>1, <2>3, <2>4, <2>5, <2>6, <2>7
<1> QED BY <1>1, <1>2

\* Every step keeps what the DDI was told.
LEMMA ToldStep ==
    Held /\ Told /\ [Next]_vars => Told'
<1> SUFFICES ASSUME Held, Told, [Next]_vars  PROVE Told'
  OBVIOUS
<1>0. /\ Types /\ Holders /\ at \in AtType /\ chip \in ChipType /\ panel \in PanelType
      /\ bl \in BlType
  BY DEF Held, Types
<1>1. CASE TurnOn
  <2>1. /\ at'.kms \in {"hosts", "prepare"}
        /\ at'.user = at.user /\ \A t \in {"user", "temp"} : at'[t] = at[t]
    <3>1. at' = [at EXCEPT !.kms = "hosts"] \/ at' = [at EXCEPT !.kms = "prepare"]
      BY <1>1 DEF TurnOn, go
    <3> QED BY <1>0, <3>1 DEF AtType
  <2>2. at.kms = "off" /\ UNCHANGED <<xfer, job, panel, bl, chip>> /\ xfer # "kms"
    BY <1>0, <1>1 DEF TurnOn, Holders, Sends, Updates, Free
  <2>3. Now' = Now /\ ~chip.released /\ ~chip.on /\ ~panel.prepared
    BY <2>2 DEF Now, Told
  <2> QED BY <1>0, <2>1, <2>2, <2>3 DEF Told, Types, Threads
<1>13. CASE enable_hosts
  <2>1. at'.kms = "prepare" /\ \A t \in {"user", "temp"} : at'[t] = at[t]
    BY <1>0, <1>13 DEF enable_hosts, go, AtType
  <2>2. at.kms = "hosts" /\ UNCHANGED <<xfer, job, panel, bl, chip>> /\ xfer # "kms"
    BY <1>0, <1>13 DEF enable_hosts, Holders, Sends, Updates, Free
  <2>3. Now' = Now /\ ~chip.released /\ ~chip.on /\ ~panel.prepared
    BY <2>2 DEF Now, Told
  <2> QED BY <1>0, <2>1, <2>2, <2>3 DEF Told, Types, Threads
<1>2. CASE prepare
  <2>1. /\ at'.kms \in {"release", "enable"} /\ \A t \in {"user", "temp"} : at'[t] = at[t]
        /\ panel'.prepared = panel.prepared /\ panel'.hbm_on = panel.hbm_on
        /\ panel'.hbm = panel.hbm
    <3>1. at' = [at EXCEPT !.kms = "release"] \/ at' = [at EXCEPT !.kms = "enable"]
      BY <1>2 DEF prepare, go
    <3>2. PICK b \in Bands : panel' = [panel EXCEPT !.temp_band = b]
      BY <1>2 DEF prepare
    <3> QED BY <1>0, <3>1, <3>2 DEF AtType, PanelType
  <2>2. at.kms = "prepare" /\ UNCHANGED <<xfer, job, bl, chip>> /\ xfer # "kms"
    BY <1>0, <1>2 DEF prepare, Holders, Sends, Updates, Free
  <2>3. Now' = Now /\ ~chip.released /\ ~chip.on /\ ~panel.prepared
    BY <2>1, <2>2 DEF Now, Told
  <2> QED BY <1>0, <2>1, <2>2, <2>3 DEF Told, Types, Threads
<1>3. CASE release
  <2>1. at'.kms = "mtp" /\ \A t \in {"user", "temp"} : at'[t] = at[t]
    BY <1>0, <1>3 DEF release, go, AtType
  <2>2. at.kms = "release" /\ UNCHANGED <<xfer, job, panel, bl>> /\ xfer # "kms"
    BY <1>0, <1>3 DEF release, Holders, Sends, Updates, Free
  <2>3. Now' = Now /\ ~chip.released /\ ~chip.on /\ ~panel.prepared
    BY <2>2 DEF Now, Told
  <2>4. chip'.released /\ ~chip'.on /\ chip'.elvss70 # "hbm"
    BY <1>0, <1>3, <2>3 DEF release, Told, ChipType, Reset
  <2> QED BY <1>0, <2>1, <2>2, <2>3, <2>4 DEF Told, Types, Threads
<1>4. CASE enable
  <2>1. at'.kms \in {"on", "display_on"} /\ \A t \in {"user", "temp"} : at'[t] = at[t]
    BY <1>0, <1>4 DEF enable, go, AtType
  <2>2. at.kms = "enable" /\ UNCHANGED <<xfer, job, panel, bl, chip>> /\ xfer # "kms"
    BY <1>0, <1>4 DEF enable, Holders, Sends, Updates, Free
  <2>3. Now' = Now /\ ~chip.on
    BY <2>2 DEF Now, Told
  <2> QED BY <1>0, <2>1, <2>2, <2>3 DEF Told, Types, Threads
<1>5. CASE TurnOff
  <2>1. at'.kms \in {"bl_off", "unprepare"} /\ \A t \in {"user", "temp"} : at'[t] = at[t]
    BY <1>0, <1>5 DEF TurnOff, go, AtType
  <2>2. at.kms = "on" /\ UNCHANGED <<xfer, job, panel, chip>> /\ xfer # "kms"
    BY <1>0, <1>5 DEF TurnOff, Holders, Sends, Updates, Free
  <2>3. Now' = Now
    BY <1>0, <1>5 DEF TurnOff, Now, BlType
  <2> QED BY <1>0, <2>1, <2>2, <2>3 DEF Told, Types, Threads
<1>6. CASE cancel
  <2>1. at'.kms = "display_off" /\ at'.user = at.user
    BY <1>0, <1>6 DEF cancel, AtType
  <2>2. at.kms = "cancel" /\ UNCHANGED <<xfer, job, panel, bl, chip>> /\ xfer \notin {"kms", "temp"}
    BY <1>0, <1>6 DEF cancel, Holders, AtType, Sends, Updates, Free
  <2>3. Now' = Now
    BY <2>2 DEF Now
  <2> QED BY <1>0, <2>1, <2>2, <2>3 DEF Told, Types, Threads
<1>7. CASE unprepare
  <2>1. at'.kms = "post_disable" /\ \A t \in {"user", "temp"} : at'[t] = at[t]
    BY <1>0, <1>7 DEF unprepare, go, AtType
  <2>2. at.kms = "unprepare" /\ UNCHANGED <<xfer, job, bl>> /\ xfer # "kms"
    BY <1>0, <1>7 DEF unprepare, Holders, Sends, Updates, Free
  <2>3. chip' = Reset /\ ~panel'.prepared /\ panel'.hbm = panel.hbm
    <3>1. CASE panel.prepared
      BY <1>0, <1>7, <3>1 DEF unprepare, power_off, PanelType
    <3>2. CASE ~panel.prepared
      BY <1>7, <2>2, <3>2 DEF unprepare, Told
    <3> QED BY <3>1, <3>2
  <2>4. ~chip'.released /\ ~chip'.on /\ chip'.elvss70 # "hbm" /\ Reset' = Reset /\ Now' = Now
    BY <2>2, <2>3 DEF Reset, Default, Now
  <2> QED BY <1>0, <2>1, <2>2, <2>3, <2>4 DEF Told, Types, Threads
<1>8. CASE disable_bridge
  <2>1. at'.kms = "off" /\ \A t \in {"user", "temp"} : at'[t] = at[t]
    BY <1>0, <1>8 DEF disable_bridge, go, AtType
  <2>2. at.kms = "post_disable" /\ UNCHANGED <<xfer, job, panel, bl, chip>> /\ xfer # "kms"
    BY <1>0, <1>8 DEF disable_bridge, Holders, Sends, Updates, Free
  <2>3. Now' = Now /\ ~chip.released /\ ~chip.on /\ ~panel.prepared
    BY <2>2 DEF Now, Told
  <2> QED BY <1>0, <2>1, <2>2, <2>3 DEF Told, Types, Threads
<1>9. ASSUME NEW t \in Threads, Commands(t)  PROVE Told'
  <2>1. CASE update(t) /\ bl.power
    <3>1. UNCHANGED <<at, xfer, job, panel, bl, chip>>
      BY <2>1 DEF update
    <3>2. Now' = Now
      BY <3>1 DEF Now
    <3> QED BY <3>1, <3>2 DEF Told, Shows, image, in_hbm
  <2>2. CASE update(t) /\ ~bl.power
    <3>1. /\ at[t] \in Updates /\ at[t] \in Sends /\ done(t, TRUE) /\ lock = Free
          /\ UNCHANGED <<xfer, job, panel, bl, chip>>
      BY <2>2 DEF update, Sends
    <3>2. xfer # Free => at[xfer] \notin Updates /\ xfer # t
      BY <1>0, <3>1 DEF Holders
    <3>3. /\ \/ at'.kms = at.kms
             \/ at.kms = "bl_on" /\ at'.kms = "on"
             \/ at.kms = "bl_off" /\ at'.kms = "cancel"
          /\ \A u \in Threads \ {t} : at'[u] = at[u]
      <4>1. CASE t = "kms"
        <5>1. /\ at'.kms = then(at.kms, TRUE) /\ at.kms \in {"bl_on", "bl_off"}
              /\ at'.user = at.user /\ at'.temp = at.temp
          BY <1>0, <3>1, <4>1, Done, Senders DEF Updates
        <5> QED BY <4>1, <5>1 DEF then, Threads
      <4>2. CASE t # "kms"
        BY <1>0, <3>1, <4>2, Done DEF AtType, Threads
      <4> QED BY <4>1, <4>2
    <3>4. xfer # Free => at'[xfer] \notin Updates
      BY <1>0, <3>2, <3>3 DEF Types
    <3> QED BY <2>2, <3>1, <3>3, <3>4 DEF Told
  <2>3. CASE begin(t)
    <3>1. at[t] \in Sends
      BY <2>3, Begins
    <3>2. PICK o \in xfer_prepare(link) : Sent(t, o) \/ Failed(t, o)
      BY <2>3, Begins
    <3>3. CASE Sent(t, o)
      <4>1. UNCHANGED <<at, panel, bl, chip>> /\ job' = Now
        BY <3>3 DEF Sent
      <4>2. Now' = Now
        BY <4>1 DEF Now
      <4> QED BY <4>1, <4>2 DEF Told, Shows, image, in_hbm
    <3>4. CASE Failed(t, o)
      BY <1>0, <3>1, <3>4, ToldFinished, NowType DEF Failed
    <3> QED BY <3>2, <3>3, <3>4
  <2>4. CASE end(t)
    <3>1. xfer = t /\ at[t] \in Sends /\ xfer' = Free
      BY <2>4, Ends
    <3>2. PICK ok \in BOOLEAN : done(t, ok) /\ effect(t, job, ok)
      BY <2>4, Ends
    <3>3. job \in JobType
      BY <1>0 DEF Types
    <3>4. at[t] \in Updates /\ (at.user = "idle" \/ t = "user") => job = Now
      BY <1>0, <3>1, Senders DEF Told
    <3> QED BY <3>1, <3>2, <3>3, <3>4, ToldFinished
  <2> QED BY <1>9, <2>1, <2>2, <2>3, <2>4 DEF Commands
<1>10. CASE temp_work
  <2>1. /\ at'.temp = "update" /\ at'.kms = at.kms /\ at'.user = at.user
        /\ panel'.prepared = panel.prepared /\ panel'.hbm_on = panel.hbm_on
        /\ panel'.hbm = panel.hbm
    <3>1. PICK b \in Bands : panel' = [panel EXCEPT !.temp_band = b]
      BY <1>10 DEF temp_work
    <3> QED BY <1>0, <1>10, <3>1 DEF temp_work, go, AtType, PanelType
  <2>2. UNCHANGED <<xfer, job, bl, chip>> /\ xfer # "temp"
    BY <1>0, <1>10 DEF temp_work, Holders, Sends, Updates, Free
  <2>3. Now' = Now
    BY <2>1, <2>2 DEF Now
  <2> QED BY <1>0, <2>1, <2>2, <2>3 DEF Told, Types, Threads
<1>11. CASE store
  <2>1. /\ at'.user = "update" /\ at'.kms = at.kms /\ at'.temp = at.temp
        /\ panel'.prepared = panel.prepared /\ panel'.hbm_on = panel.hbm_on
    <3>1. panel' = panel \/ \E h \in Steps : panel' = [panel EXCEPT !.hbm = h]
      BY <1>11 DEF store
    <3> QED BY <1>0, <1>11, <3>1 DEF store, go, AtType, PanelType
  <2>2. UNCHANGED <<xfer, job, chip>> /\ xfer # "user"
    BY <1>0, <1>11 DEF store, Holders, Sends, Updates, Free
  <2> QED BY <2>1, <2>2 DEF Told
<1>12. CASE Temperature \/ autosuspend \/ err_worker \/ err_worker_end \/ UNCHANGED vars
  <2>1. UNCHANGED <<at, xfer, job, panel, bl, chip>>
    BY <1>12 DEF Temperature, autosuspend, err_worker, err_worker_end, vars
  <2>2. Now' = Now
    BY <2>1 DEF Now
  <2> QED BY <2>1, <2>2 DEF Told, Shows, image, in_hbm
<1> QED BY <1>1, <1>2, <1>3, <1>4, <1>5, <1>6, <1>7, <1>8, <1>9, <1>10, <1>11, <1>12, <1>13
        DEF Next, Display
-----------------------------------------------------------------------------
(* The properties *)

\* Initially the display is off and the DDI in reset.
LEMMA InitInvariant ==
    Init => Held /\ Links /\ Enabled /\ Told
<1> SUFFICES ASSUME Init  PROVE Held /\ Links /\ Enabled /\ Told
  OBVIOUS
<1>1. Host0 \in HostType /\ ~Host0.power_on
  BY DEF Host0, HostType
<1>2. /\ link \in LinkType /\ link.usage = 0 /\ ~link.active /\ ~link.is_powered
      /\ ~link.phy_enabled /\ \A i \in Hosts : ~link.host[i].power_on
  BY <1>1 DEF Init, Link0, LinkType
<1>3. Held
  <2>1. at \in AtType /\ job \in JobType /\ panel \in PanelType /\ bl \in BlType
    BY DEF Init, AtType, KmsPc, JobType, PanelType, BlType, Levels, Steps, Bands, MaxLevel
  <2>2. chip \in ChipType /\ reset \in ResetType /\ cold \in Bands
    BY ResetTypes DEF Init, ResetType, Bands
  <2> QED BY <1>2, <2>1, <2>2 DEF Init, Held, Types, Holders
<1>4. Links
  BY <1>2 DEF Init, Links, Powers, Counted, clock_in_hs
<1>5. Enabled
  BY <1>2 DEF Enabled
<1>6. Told
  BY DEF Init, Told, Reset
<1> QED BY <1>3, <1>4, <1>5, <1>6

\* The links serve who uses them.
LEMMA LinksAlways == Spec => [](Held /\ Links)
<1>1. Init => Held /\ Links
  BY InitInvariant
<1>2. Links => AllWait
  BY DEF Links, AllWait, Waits
<1>3. (Held /\ Links) /\ [Next]_vars => (Held /\ Links)'
  BY <1>2, HeldStep, LinksStep
<1> QED BY <1>1, <1>3, PTL DEF Spec

\* While the display is on over powered links, both clock lanes run in HS and both
\* controllers are enabled in command mode (dsi_mgr_bridge_pre_enable(),
\* dsi_host_transfer(), the error worker's dsi_sw_reset()), but the master in that
\* reset and once a command has begun in one. The user may switch quickly, but not
\* write bl_power while the display is off: a command that begins between the power-on
\* and msm_dsi_host_enable() puts back a DSI_CTRL without the command mode.
THEOREM LinkReadyAlways ==
    ASSUME "bl_power" \notin Allowed
    PROVE  Spec => []LinkReady
<1>1. Init => Enabled
  BY InitInvariant
<1>2. (Held /\ Links) /\ Enabled /\ [Next]_vars => Enabled'
  BY EnabledStep
<1>3. Held /\ Links /\ Enabled => LinkReady
  <2> SUFFICES ASSUME Held, Links, Enabled, at.kms \in Lit, link.is_powered, NEW i \in Hosts
               PROVE  /\ clock_in_hs(link, i)
                      /\ link.host[i].ctrl = Modes \/ (i = Master /\ (reset.busy \/ reset.torn))
    BY DEF LinkReady, Lit
  <2>1. link.host[1].ctrl = Modes /\ (~reset.torn /\ ~reset.busy => link.host[0].ctrl = Modes)
    BY DEF Enabled
  <2>2. link.host[i].power_on /\ link.host[i].hs
    BY DEF Links, Powers, Lit
  <2> QED BY <2>1, <2>2 DEF Hosts, Master, clock_in_hs
<1> QED BY <1>1, <1>2, <1>3, LinksAlways, PTL DEF Spec

\* A panel that shows an image shows the level, HBM step and temperature band that are
\* set once nobody updates them (ams968hh01_brightness() under update_lock), whatever
\* the user does, unless the last update was lost; ELVSS 70 matches unless one was lost
\* and no later one has written it.
THEOREM ShowsSettingAlways == Spec => []ShowsSetting
<1>1. Init => Told
  BY InitInvariant
<1>2. (Held /\ Links) /\ Told /\ [Next]_vars => Told'
  BY ToldStep
<1>3. Held /\ Told => ShowsSetting
  <2> SUFFICES ASSUME Held, Told, at.kms = "on", at.user = "idle", at.temp # "update",
                      bl.power, chip.on, chip.missed # "all"
               PROVE  LET hbm == IF bl.level = MaxLevel /\ panel.hbm_valid THEN panel.hbm ELSE 0
                      IN  /\ chip.shown =
                               [level |-> bl.level, hbm |-> hbm, band |-> panel.temp_band]
                          /\ chip.missed = "nothing" =>
                               chip.elvss70 = IF hbm # 0 THEN "hbm" ELSE "normal"
    BY DEF ShowsSetting
  <2>1. Shows(Now)
    BY DEF Told
  <2> QED BY <2>1 DEF Shows, Now, image, in_hbm
<1> QED BY <1>1, <1>2, <1>3, LinksAlways, PTL DEF Spec

\* The reset is released with both clock lanes in LP-11 (ams968hh01_prepare() behind the
\* deferred HS clock), as long as nobody uses the links while they come on.
THEOREM ResetInLP11Always ==
    ASSUME "quick" \notin Allowed, "bl_power" \notin Allowed
    PROVE  Spec => ResetInLP11
<1>1. Init => Told
  BY InitInvariant
<1>2. (Held /\ Links) /\ Told /\ [Next]_vars => Told'
  BY ToldStep
<1>3. (Held /\ Links) /\ Told /\ [Next]_vars =>
         [chip'.released /\ ~chip.released => \A i \in Hosts : ~clock_in_hs(link, i)]_vars
  <2> SUFFICES ASSUME Held, Links, Told, [Next]_vars, chip'.released, ~chip.released
               PROVE  \A i \in Hosts : ~clock_in_hs(link, i)
    OBVIOUS
  <2>0. Types /\ chip \in ChipType
    BY DEF Held, Types
  <2>1. CASE release
    BY <2>1 DEF release, Links
  <2>2. CASE unprepare
    BY <2>2, ResetTypes DEF unprepare
  <2>3. ASSUME NEW t \in Threads, Commands(t)  PROVE FALSE
    <3>1. (\E j \in JobType, ok \in BOOLEAN : at[t] \in Sends /\ effect(t, j, ok)) \/ chip' = chip
      <4>1. CASE update(t)
        <5>1. chip' = chip
          BY <4>1 DEF update
        <5> QED BY <2>0, <5>1, NowType
      <4>2. CASE begin(t)
        <5>1. PICK o \in xfer_prepare(link) : Sent(t, o) \/ Failed(t, o)
          BY <4>2, Begins
        <5> QED BY <2>0, <4>2, <5>1, NowType, Begins DEF Sent, Failed
      <4>3. CASE end(t)
        BY <2>0, <4>3, Ends DEF Types
      <4> QED BY <2>3, <4>1, <4>2, <4>3 DEF Commands
    <3>2. PICK j \in JobType, ok \in BOOLEAN : at[t] \in Sends /\ effect(t, j, ok)
      BY <3>1
    <3>3. at[t] # "init" /\ at[t] # "mtp"
      <4>1. at[t] \in {"init", "mtp"} => t = "kms"
        BY <2>0, <3>2, Senders
      <4> QED BY <4>1 DEF Told
    <3>4. CASE at[t] = "display_on"
      BY <2>0, <3>2, <3>4 DEF effect, ChipType
    <3>5. CASE at[t] = "display_off"
      BY <2>0, <3>2, <3>5 DEF effect, ChipType
    <3>6. CASE at[t] \in Updates
      <4>1. brightness(j, ok)
        BY <3>2, <3>6 DEF effect, Updates
      <4> QED BY <2>0, <4>1, Brightness
    <3> QED BY <3>2, <3>3, <3>4, <3>5, <3>6 DEF Sends
  <2>4. CASE TurnOn \/ enable_hosts \/ TurnOff \/ prepare \/ enable \/ cancel \/ disable_bridge \/ temp_work
             \/ store \/ Temperature \/ autosuspend \/ err_worker \/ err_worker_end
             \/ UNCHANGED vars
    BY <2>4 DEF TurnOn, enable_hosts, TurnOff, prepare, enable, cancel, disable_bridge,
                temp_work, store, Temperature, autosuspend, err_worker, err_worker_end, vars
  <2> QED BY <2>1, <2>2, <2>3, <2>4 DEF Next, Display
<1> QED BY <1>1, <1>2, <1>3, LinksAlways, PTL DEF Spec, ResetInLP11
=============================================================================
