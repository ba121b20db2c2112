SPECIFICATION AnySpec
CONSTANTS
  DmxQueues = {"vq", "tq", "uq"}
  Upper = {"tq"}
  Window <- Pointers
  RingSize = 8
  Latency = 4
  Chunks = {2, 4}
  PlaybackSize = 6
  PlaybackCounts = {1, 4, 5, 6, 13}
  Half = 20
  MaxPcrDiff = 4
  MaxDiffDiff = 1
  ForceDiff = 2
  MaxDiff = 3
  Steps <- Paces
  Jumps <- Offs
  Callers = {"feed", "watchdog"}
  AvPids = {"p1"}
  Threads = {"a", "watchdog"}
  Watchdog = "watchdog"
  Avia500 = TRUE
  sptsfix = TRUE
  Handles = {"h1"}
  BufferSize = 2
  Readers = {"p1", "p2"}
  MaxVideo = 3
  Shapes = {"pal", "ntsc"}
CONSTRAINT DecoderBound
INVARIANTS
  OpenMeansHandled
  FeedsHeard
  RingsAccounted
  NoSectionDropped
  DecoderObeys
  PictureAsTold
  SoundAndKeysInOrder
CHECK_DEADLOCK FALSE
