SPECIFICATION MCSpec
CONSTANTS
  d1 = d1
  d2 = d2
  w1 = w1
  w2 = w2
  alice = alice
  me = me
  peer = peer
  t1 = t1
  t2 = t2
  t3 = t3
  r1 = r1
  v2 = v2
  Digests <- CacheDigests
  Author <- CacheAuthor
  NumBytes <- CacheNumBytes
  MaxTime = 2
  MemoryQuota = 1
  DbQuota = 2
  BatchQuota = 2
  Writers <- CacheWriters
  Readers <- CacheReaders
  Signers = 0
  RequestNumPeers = 1
  RetryLimit = 0
  LastEpoch = 3
  ValidatorEpochs <- EpochsValidatorEpochs
  Senders <- EpochsSenders
  QuorumStoreEnabled = TRUE
  MaxInFlight = 1
  MaxProofs = 2
  MaxFailures = 1
INVARIANTS
  QuorumStoreCorrect
  BatchesStay
  EventsOfOwnEpoch
  OneProcessorAtATime
  BlocksComplete
  ProposalsCorrect
PROPERTIES
  
  EpochEndsOnce
CHECK_DEADLOCK FALSE
