\* A buffer of 270 bytes: longer than any frame, shorter than two.  Payloads of
\* up to eight bytes for the send loop, taken by send() in every way there is.
CONSTANTS
  c1 = c1
  c2 = c2
  Clients = {c1, c2}
  Upgrades <- MCUpgrades
  Frames <- MCFrames
  Messages <- MCMessages
  Beyond <- MCBeyond
  MaxFrames = 2
  MaxReads = 3
  Cuts = {1, 7}
  BufferSize = 270
  MaxMessages = 1
  MaxSize = 8
SPECIFICATION MCSpec
INVARIANTS TypeOK WholeFrameDecoded ClosedForTheMask KeyIsText DecodesBack
  LoopTypeOK StopsPastHalf ServerSendsPrefix
CHECK_DEADLOCK FALSE
