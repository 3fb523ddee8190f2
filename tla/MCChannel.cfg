CONSTANTS
  HighWater = 2
  LowWater = 1
  Producers = {"stdout", "stderr"}
  MaxPushes = 4
  Limit = 3
  HeadMax = 2
  BufferCap = 1
  MaxStderr = 2
  Streams <- MCStreams
  EventOf <- MCEventOf
SPECIFICATION PumpFairSpec
INVARIANTS
  Backpressure
  OutputWhole
PROPERTIES
  ChannelProgress
CHECK_DEADLOCK FALSE
