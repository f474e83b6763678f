\* The signer as NewBigBFTConsensus leaves it.
CONSTANTS
  Proposals = {p1}
  Validators = {1, 2, 3, 4}
  FastPathServes = {FALSE}
  SignerSet = FALSE
  Senders = {1, 2, 3, 4}
  PublicKeys = {1, 2, 3, 4}
  Threshold = 2
  BatchWindow = 1
  MaxTime = 2
  NoBatch = NoBatch
SPECIFICATION Spec
\* The calls are finitely many, and the clock is bounded.
CHECK_DEADLOCK FALSE
INVARIANTS QuorumCommits
