SPECIFICATION Spec
CONSTANTS
  Clock <- MCClock
  Type <- MCType
  Parents <- MCParents
  Inverted = {"INFRA_TOPAXI_DISABLE"}
  StatusOnly = {"INFRA_TOPAXI_DISABLE"}
  ResetBar = {"AP_MSDCPLL"}
  SelValues = {0, 1, 2}
  NoClock = "none"
INVARIANTS PllSequenced EnabledTicks
PROPERTIES EnableOnlyStarts SwitchesOnce
