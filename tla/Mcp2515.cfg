SPECIFICATION Spec
CONSTANTS
  Settings <- ListedSettings
  MaxTries = 2
  None = None
INVARIANTS ModeAsReported ConfiguredWhenOk WakeIntKept
