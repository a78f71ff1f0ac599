\* Bounds: one poll after the first, two tries where the driver retries, two
\* reads of fDeviceInit, one call, one failure besides slowness.
CONSTANTS
  NLuns = 2
  EnabledLuns <- MCEnabledLuns
  Blocks = 2
  MaxChunk = 1
  MaxCall = 2
  Timeout = 1
  NopRetry = 2
  QueryRetries = 2
  InitReads = 2
  MaxCalls = 1
  MaxFaults = 1
SPECIFICATION Spec
CHECK_DEADLOCK FALSE
INVARIANTS SlotFree InitFinished InstalledIsEnabled DataIsOwn CleanBringUp
PROPERTY Returns
