\* run_queue(true) beside its owner, with pages, refused upgrades - whose client
\* is kept like that of a granted one -, frames and shutdown. No handler throws.
CONSTANTS
  Conns = {c1, c2}
  Handles = {h1, h2}
  Workers = {w1}
  Pieces = {"head", "rest", "masked", "bare"}
  None = None
  Kinds = {"page", "badupgrade"}
  MaxFrames = 1
  RunOnThread = TRUE
SPECIFICATION FairSpec
INVARIANT TypeOK
PROPERTIES LeakCauses ClearClosesClients ShutdownCompletes
CHECK_DEADLOCK FALSE
