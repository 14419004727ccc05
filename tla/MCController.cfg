\* Two server threads on one controller; the program may still add endpoints
\* while they serve.
CONSTANTS
  t1 = t1
  t2 = t2
  h1 = h1
  Nobody = Nobody
  Threads = {t1, t2}
  Items <- MCItems
  Adds <- MCAdds
  Paths <- MCPaths
  SizeModulus = 65536
SPECIFICATION FairSpec
INVARIANTS TypeOK MutexIsTheLookup LateEndpointsUnserved AcceptedIsServed ShadowedByEarlierParam RunServesLiterally
PROPERTY MutexIsReleased
CHECK_DEADLOCK FALSE
