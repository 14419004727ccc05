\* Two callers, two clients, at most three queued: long enough for a pop that
\* leaves two elements behind.
CONSTANTS
  Threads = {t1, t2}
  Clients = {c1, c2}
  None = None
  MaxLen = 3
SPECIFICATION Spec
INVARIANTS TypeOK TmpIsFront
PROPERTY ImplementsPromise
