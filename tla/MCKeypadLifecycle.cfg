SPECIFICATION LifeSpec
CONSTANT Consoles = {c1, c2, c3}
INVARIANTS
  InstalledWorks
  CanRetry
