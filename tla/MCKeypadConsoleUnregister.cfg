SPECIFICATION Spec
CONSTANTS
  Inputs <- MCOneKey
  Bookings <- MCBookings
  Capacity = 2
  PollSize = 1
  Nodes = {n1, n2}
  States <- MCNone
  FnCalls = {"unregister"}
PROPERTY UnregisteredSilent
