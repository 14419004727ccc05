\* run_queue() on the calling thread, plain HTTP peers.  Three connections over
\* two handles: handles are reused, and run out when two are leaked.
CONSTANTS
  Conns = {c1, c2, c3}
  Handles = {h1, h2}
  Workers = {w1, w2}
  Pieces = {"head", "rest", "masked", "bare"}
  None = None
  Kinds = {"json"}
  MaxFrames = 0
  RunOnThread = FALSE
SPECIFICATION FairSpec
INVARIANTS ReplyToAsker QueueAccounting
PROPERTIES HeadOfQueueServed ImplementsService
CHECK_DEADLOCK FALSE
