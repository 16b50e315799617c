CONSTANTS
  s1 = s1
  r1 = r1
  p1 = p1
  p2 = p2
  Streams <- MCStreams
  Readers <- MCReaders
  StreamOf <- MCStreamOf
  Payloads <- MCPayloads
  Batches <- MCBatches
  Times <- MCTimes
  RetentionMaxRows = 2
  RetentionMaxAgeSecs = 1
  Offsets <- MCOffsets
  Limits <- MCLimits
  MaxLimit = 2
  MaxEvents = 4
SPECIFICATION FairSpec
INVARIANTS
  TypeOK
  LatestRetained
  AnchoredNeverRejected
  NoSilentGap
  OffsetsIdentifyEvents
PROPERTIES
  LastPageIsLast
  ImplementsEventLog
  ReaderCatchesUp
