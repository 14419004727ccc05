\* One POST whose body arrives after its headers.
CONSTANTS
  Conns = {c1}
  Handles = {h1}
  Workers = {w1}
  Pieces = {"head", "rest", "masked", "bare"}
  None = None
  Kinds = {"form"}
  MaxFrames = 0
  RunOnThread = FALSE
SPECIFICATION Spec
INVARIANT WholeRequestAnswered
