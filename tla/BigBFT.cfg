\* Three proposals, of which the fast path may serve some, and two
\* validators, both with a key, and a sender who is no validator.
CONSTANTS
  Proposals = {p1, p2, p3}
  Validators = {1, 2}
  FastPathServes = {TRUE, FALSE}
  SignerSet = TRUE
  Senders = {1, 2, 3}
  PublicKeys = {1, 2}
  Threshold = 1
  BatchWindow = 1
  MaxTime = 2
  NoBatch = NoBatch
SPECIFICATION Spec
\* The calls are finitely many, and the clock is bounded.
CHECK_DEADLOCK FALSE
INVARIANTS TypeOK ExactlyOneBatch CommitSound
PROPERTIES VotesKept EveryProposalStarts
