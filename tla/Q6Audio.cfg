\* The bus of one amplifier, played and captured on or captured by two streams; one failing command or transfer.
CONSTANTS
    Streams = {"mm1", "mm2"}
    Ports = {"quat_rx", "quat_tx"}
    Routable <- MCRoutable
    Tdm <- MCTdm
    Speaker = "quat_rx"
    MaxFaults = 1
    MaxCommands = 12
SPECIFICATION Spec
CONSTRAINT CapturesFirst
INVARIANTS ClockCovers CoppsBalanced PlayReady ModeKept
