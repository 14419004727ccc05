\* Upgrades whose digest has a zero byte, or none behind it.
CONSTANTS
  c1 = c1
  c2 = c2
  Clients = {c1, c2}
  Upgrades <- MCUpgrades
  Frames <- MCFrames
  Messages <- MCMessages
  Beyond <- MCBeyond
  MaxFrames = 2
  MaxReads = 3
  Cuts = {1, 7}
  BufferSize = 270
  MaxMessages = 1
SPECIFICATION Spec
INVARIANT AcceptIsTheDigest
CHECK_DEADLOCK FALSE
