\* One upgraded peer, then a plain one on the handle the first left behind.
CONSTANTS
  Conns = {c1, c2}
  Handles = {h1}
  Workers = {w1}
  Pieces = {"head", "rest", "masked", "bare"}
  None = None
  Kinds = {"page", "upgrade"}
  MaxFrames = 1
  RunOnThread = TRUE
SPECIFICATION Spec
PROPERTY OnlyUpgradedAreRead
CHECK_DEADLOCK FALSE
