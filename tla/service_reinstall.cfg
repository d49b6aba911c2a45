SPECIFICATION Spec
CONSTANTS
  Os = {"macos", "linux"}
  Bind = {b1, b2}
  Nothing = Nothing
INVARIANTS InstalledServes
