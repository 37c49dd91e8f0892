----------------------------- MODULE MCQ6Audio -----------------------------
(* The speaker's port and the capture port of one bus, and two front ends: *)
(* mm2 captures, mm1 captures too or plays.                                *)
EXTENDS Q6Audio

MCRoutable == [mm1 |-> {"quat_rx", "quat_tx"}, mm2 |-> {"quat_tx"}]
MCTdm      == [quat_rx |-> "quat", quat_tx |-> "quat"]

\* Bound: once mm1 has set up the speaker's port it captures no more, until
\* the card is bound again.
CapturesFirst ==
    "quat_tx" \in card.port_map["mm1"] \union fe["mm1"].route \union fe["mm1"].be
                     \union card.copps["mm1"]
        => "quat_rx" \notin card.slots
=============================================================================
