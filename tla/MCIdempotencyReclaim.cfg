SPECIFICATION Spec
CONSTANTS
  Calls = {c1, c2}
  OneReclaimer = FALSE
  None = None
INVARIANT
  SingleHandler
