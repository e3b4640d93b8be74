SPECIFICATION Spec
CONSTANTS
  Actors = {a1, a2}
  Ids = {i1}
  None = None
INVARIANT
  NeverInvisible
