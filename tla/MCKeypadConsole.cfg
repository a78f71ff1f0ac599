SPECIFICATION Spec
CONSTANTS
  Inputs <- MCInputs
  Bookings <- MCBookings
  Capacity = 2
  PollSize = 1
  Nodes = {n1, n2}
  States <- MCStates
  FnCalls = {"read", "wait", "reset", "register"}
INVARIANTS
  SignalsAgree
  NotifiedAll
PROPERTIES
  PressesServed
