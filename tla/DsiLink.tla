------------------------------ MODULE DsiLink ------------------------------
(***************************************************************************)
(* The two bonded DSI links of the display (dsi_manager, dsi_host): what   *)
(* the bridge's callbacks, a command and runtime PM do to the state of the *)
(* driver and of the controllers.  Each operator takes the links and gives *)
(* the links, or the set of outcomes [link, ok] where a call can fail.     *)
(***************************************************************************)
EXTENDS Integers

\* The master sends every command; the panel's commands need no second link.
Hosts  == {0, 1}
Master == 0

\* DSI_CTRL's bits that select the work of a controller.
Modes == {"ENABLE", "CMD_MODE_EN"}

\* A controller: LANE_CTRL's HS request of the clock lane outlives a power-off.
Host0 == [power_on |-> FALSE, hs_clk_pending |-> FALSE, hs |-> FALSE, ctrl |-> {}]

Link0 == [phy_enabled |-> FALSE, active |-> FALSE, usage |-> 0, is_powered |-> FALSE,
          mode |-> FALSE, host |-> [i \in Hosts |-> Host0], dma_cmd_ctrl_restore |-> {}]

\* The clock lane of a powered controller runs in HS.
clock_in_hs(l, i) == l.host[i].power_on /\ l.host[i].hs

Outcome(l, good) == [link |-> l, ok |-> good]

-----------------------------------------------------------------------------
(* The host *)

\* dsi_ctrl_enable(): the clock lane is left in LP-11 (MIPI_DSI_CLOCK_DEFERRED_HS).
\* Mutant: LANE_CTRL keeps the request of the last power-on.
ctrl_enable_keep(h) == [h EXCEPT !.hs_clk_pending = TRUE, !.ctrl = {"ENABLE"}]

ctrl_enable(h) == [h EXCEPT !.hs = FALSE, !.hs_clk_pending = TRUE, !.ctrl = {"ENABLE"}]

\* msm_dsi_host_power_on(), of a host that may be on already.
host_power_on(h) == IF h.power_on THEN h ELSE [ctrl_enable(h) EXCEPT !.power_on = TRUE]

\* msm_dsi_host_power_off().
host_power_off(h) ==
    IF ~h.power_on THEN h
    ELSE [h EXCEPT !.power_on = FALSE, !.hs_clk_pending = FALSE, !.ctrl = {}]

\* msm_dsi_host_start_deferred_hs_clk().
host_start_hs(h) ==
    IF h.power_on /\ h.hs_clk_pending THEN [h EXCEPT !.hs = TRUE, !.hs_clk_pending = FALSE]
    ELSE h

\* msm_dsi_host_enable() and _disable(): dsi_op_mode_config(), in command mode.
host_enable(h)  == [h EXCEPT !.ctrl = @ \cup Modes]
host_disable(h) == [h EXCEPT !.ctrl = {}]

-----------------------------------------------------------------------------
(* The manager *)

Each(l, Op(_)) == [l EXCEPT !.host = [i \in Hosts |-> Op(l.host[i])]]

\* dsi_mgr_power_on(): the PHYs, the master, the slave; what is on stays on, and
\* what came on before a failure too.
power_on(l) ==
    LET phy  == [l EXCEPT !.phy_enabled = TRUE]
        host == [phy EXCEPT !.host[Master] = host_power_on(@)]
    IN  {Outcome(Each(phy, host_power_on), TRUE)}
        \cup (IF l.phy_enabled THEN {} ELSE {Outcome(l, FALSE)})
        \cup (IF l.host[0].power_on THEN {} ELSE {Outcome(phy, FALSE)})
        \cup (IF l.host[1].power_on THEN {} ELSE {Outcome(host, FALSE)})

\* dsi_mgr_power_off() from msm_dsi_runtime_suspend().
suspend(l) == [Each(l, host_power_off) EXCEPT !.active = FALSE, !.phy_enabled = FALSE]

\* pm_runtime_resume_and_get() with msm_dsi_runtime_resume(), and a put: the
\* link is suspended when it has been idle for 200 ms.
get(l) == {Outcome([l EXCEPT !.active = TRUE, !.usage = @ + 1], TRUE)}
          \cup (IF l.active THEN {} ELSE {Outcome(l, FALSE)})
put(l) == [l EXCEPT !.usage = @ - 1]

get_power(l) ==
    UNION {IF ~g.ok THEN {g}
           ELSE {IF p.ok THEN p ELSE Outcome(put(p.link), FALSE) : p \in power_on(g.link)} :
           g \in get(l)}

\* dsi_mgr_start_deferred_hs_clk(): both links.
\* Mutant: the link that sends the command.
start_deferred_hs_clk_own(l) == [l EXCEPT !.host[Master] = host_start_hs(@)]

start_deferred_hs_clk(l) == Each(l, host_start_hs)

\* dsi_mgr_bridge_pre_enable(), after dsi_mgr_bridge_mode_set() and of a bridge that
\* is not powered: the power-on and, later, the two msm_dsi_host_enable(), which
\* write the same modes whatever they read in DSI_CTRL.
pre_enable(l) == get_power([l EXCEPT !.mode = TRUE])

hosts_enable(l) == [Each(l, host_enable) EXCEPT !.is_powered = TRUE]

\* A command that begins inside it finds DSI_CTRL cleared, as one that comes after it.
post_disable(l) ==
    IF ~l.is_powered THEN l ELSE [put(Each(l, host_disable)) EXCEPT !.is_powered = FALSE]

\* dsi_host_transfer() up to the trigger: msm_dsi_host_xfer_prepare() and the
\* deferred clock.
xfer_prepare(l) ==
    IF ~l.mode THEN {Outcome(l, FALSE)}
    ELSE {IF ~p.ok THEN p
          ELSE Outcome(start_deferred_hs_clk(
                   [p.link EXCEPT !.dma_cmd_ctrl_restore = p.link.host[Master].ctrl,
                                  !.host[Master].ctrl = @ \cup Modes]), TRUE) :
          p \in get_power(l)}

\* msm_dsi_host_xfer_restore().
xfer_restore(l) == put([l EXCEPT !.host[Master].ctrl = l.dma_cmd_ctrl_restore])
=============================================================================
