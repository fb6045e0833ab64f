SPECIFICATION MCSpec
CONSTANTS
  None = None
  v1 = v1  v2 = v2  v3 = v3  v4 = v4
  h1 = h1  h2 = h2
  f1 = f1
  d1 = d1  d2 = d2
  Validators <- RoundsValidators
  Self = v1
  Quorum = 3
  MaxRound = 2
  Settings <- MCSettings
  Honest <- DagHonest
  Quorums <- DagQuorums
  Authors <- DagAuthors
  Digests <- DagDigests
  NodeRounds <- DagNodeRounds
  Window = 1
  CommitRounds <- DagCommitRounds
SYMMETRY PeerSymmetry
INVARIANTS
  TimeoutsComplete
  RoundsAndVotes
  VotesAgree
  LiveCertificatesUnique
CHECK_DEADLOCK FALSE
