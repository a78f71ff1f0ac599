SPECIFICATION MCSpec
CONSTANTS
  Regs = {"CON0", "EINT", "TOPSTATUS"}
  Values <- MCValues
  Levels = {1, 2}
  Nested = FALSE
INVARIANTS
  SuccessIsOwn
  SuccessSticks
PROPERTIES
  CleanSucceeds
  BusSpec
  OnlyItsBits
  GateFollowsRail
  JobsReturn
