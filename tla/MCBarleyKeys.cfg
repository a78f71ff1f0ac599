\* Bounds: a long press is two ticks; one reset or failed read per press.
CONSTANTS
  Keys = {"NULL", "CR", "ESC"}
  NullKey = "NULL"
  N = 4
  Scan <- MCScan
  KeyOf <- MCKeyOf
  Long = {"power"}
  Escape = "ESC"
  Fallible = {"power"}
  Threshold = 2
  MaxSpoils = 1
SPECIFICATION KeysSpec
INVARIANT EachPressOnce
PROPERTY QueueSpec
