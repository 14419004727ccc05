\* A path with as many characters as "/a/{f}".
CONSTANTS
  t1 = t1
  t2 = t2
  h1 = h1
  Nobody = Nobody
  Threads = {t1, t2}
  Items <- MCItems
  Adds <- MCAdds
  Paths <- MCPaths
  SizeModulus = 65536
SPECIFICATION FairSpec
INVARIANT EveryNameIsServed
CHECK_DEADLOCK FALSE
