\* Two clients whose requests are complete before they are accepted, and
\* handles to spare: only the order of pushes and pops is in play.
CONSTANTS
  Conns = {c1, c2}
  Handles = {h1, h2, h3}
  Workers = {w1, w2}
  Pieces = {"head", "rest", "masked", "bare"}
  None = None
  Kinds = {"page"}
  MaxFrames = 0
  RunOnThread = FALSE
SPECIFICATION FairSpec
PROPERTY EveryClientAnswered
