\* Four clients, two of them silent, on three handles and room for two beside the
\* listener: who is accepted third is lost, who comes after a close gets a handle
\* again, and the fourth meets no handle.  A POST whose body may be late, and a
\* handler that throws.
CONSTANTS
  c1 = c1
  c2 = c2
  c3 = c3
  c4 = c4
  Conns = {c1, c2, c3, c4}
  Handles = {h1, h2, h3}
  Pieces = {"head", "rest", "fin"}
  None = None
  Listener = listener
  FdSetSize = 3
  Kinds = {"json", "page", "silent"}
SPECIFICATION MCFairSpec
INVARIANTS TypeOK ArrayIsOpen AnsweredOnce
PROPERTIES LostToAFullArray ReadyIsServed ShutdownReturns
CHECK_DEADLOCK FALSE
