------------------------------- MODULE BigBFT -------------------------------
(***************************************************************************)
(* BigBFTConsensus of core/consensus/pbft.go on one node: proposals that   *)
(* the fast path does not serve are gathered into a batch, every one of    *)
(* them with a goroutine that sleeps for the batch window; the first to    *)
(* wake closes the batch and starts consensus on it; votes are collected   *)
(* by batch until there are as many as a quorum of validators has.         *)
(*                                                                         *)
(* b.mu is held within each action and released between them.  A batch is  *)
(* identified by the time of its creation, as in the code.  The commits    *)
(* map of the code is only ever initialised and is left out.               *)
(***************************************************************************)
EXTENDS Integers, FiniteSets, ThresholdSignature

CONSTANTS
  Proposals,       \* the calls of ProposeTimestamp
  Validators,      \* state.Validators
  Senders,         \* whom a vote may name in From: handleVote checks no
                   \*   membership, so others than validators, too
  FastPathServes,  \* what the fast path may do: a subset of BOOLEAN
  SignerSet,       \* whether thresholdSigs is set; NewBigBFTConsensus does not
  PublicKeys,      \* the nodes that have a key in thresholdSigs.publicKeys
  Threshold,       \* thresholdSigs.threshold
  BatchWindow,     \* b.batchWindow
  MaxTime,         \* the bound on the clock
  NoBatch

ASSUME ValidatorsAssumption ==
  Validators \subseteq Senders /\ Senders \subseteq Nat /\ IsFiniteSet(Senders)
ASSUME SignerAssumption ==
  /\ FastPathServes \subseteq BOOLEAN /\ SignerSet \in BOOLEAN
  /\ PublicKeys \subseteq Senders /\ Threshold \in Nat
ASSUME WindowAssumption == BatchWindow \in Nat \ {0} /\ MaxTime \in Nat
ASSUME NoBatchAssumption == NoBatch \notin [id : Nat, members : SUBSET Proposals]

VARIABLES
  now,            \* the clock
  proposal,       \* where each call of ProposeTimestamp is
  currentBatch,   \* NoBatch, or the id and members of the open batch
  worker,         \* the processBatchAfterWindow goroutine of each proposal
  closed,         \* the batch it has closed
  batches,        \* b.batches
  votes,          \* b.votes: the senders whose vote for a batch is held
  valid,          \* those of them whose vote, as it is now, Verify accepts
  commit,         \* the signers in the last commit broadcast for a batch
  panicked        \* whether handleVote has dereferenced a nil thresholdSigs,
                  \*   which ends the process

batching == <<proposal, currentBatch, worker, closed>>
voting   == <<votes, valid, commit, panicked>>
vars     == <<now, batching, batches, voting>>

Time  == 0 .. MaxTime
Batch == [id : Time, members : SUBSET Proposals]
Workers == [at : {"none", "asleep", "closing", "broadcasting", "ended"},
            id : Time, due : Nat]
Asleep(id, due) == [at |-> "asleep", id |-> id, due |-> due]
Worker(place)   == [at |-> place, id |-> 0, due |-> 0]

-----------------------------------------------------------------------------
(* An operator whose name says what is wrong with it is a faulty version   *)
(* of the definition that follows it, which the properties detect.         *)

(* getQuorumSize                                                           *)
QuorumSizeRoundedDown(n) == (n * 2) \div 3
QuorumSize(n) == (n * 2) \div 3 + 1

(* The ids with an entry in b.batches, which are those in b.votes.         *)
Started == {id \in Time : batches[id] # {}}

(* The identifier of a batch that is created now.                          *)
NewBatchIDCoarse == now - (now % (BatchWindow + 1))
NewBatchID == now

(* The batch a proposal that falls back is added to.                       *)
OpenBatch == IF currentBatch = NoBatch
             THEN [id |-> NewBatchID, members |-> {}] ELSE currentBatch

(* The test with which a goroutine that wakes finds out whether the batch  *)
(* it was started for is still open.                                       *)
StillOpenIfAlone(p) == currentBatch # NoBatch /\ currentBatch.members = {p}
StillOpenNilUnchecked(p) ==
  currentBatch = NoBatch \/ currentBatch.id = worker[p].id
StillOpen(p) == currentBatch # NoBatch /\ currentBatch.id = worker[p].id

-----------------------------------------------------------------------------

Init ==
  /\ now = 0
  /\ proposal = [p \in Proposals |-> "idle"]
  /\ currentBatch = NoBatch
  /\ worker = [p \in Proposals |-> Worker("none")]
  /\ closed = [p \in Proposals |-> NoBatch]
  /\ batches = [id \in Time |-> {}]
  /\ votes = [id \in Time |-> {}]
  /\ valid = [id \in Time |-> {}]
  /\ commit = [id \in Time |-> {}]
  /\ panicked = FALSE

(* ProposeTimestamp asks the fast path, without the mutex.                 *)
ProposeTimestamp(p) ==
  /\ ~panicked /\ proposal[p] = "idle"
  /\ proposal' = [proposal EXCEPT ![p] = "asking"]
  /\ UNCHANGED <<now, currentBatch, worker, closed, batches, voting>>

(* The fast path serves it, and the call is over.                          *)
FastPathSucceeds(p) ==
  /\ ~panicked /\ proposal[p] = "asking" /\ TRUE \in FastPathServes
  /\ proposal' = [proposal EXCEPT ![p] = "served"]
  /\ UNCHANGED <<now, currentBatch, worker, closed, batches, voting>>

(* It does not: the proposal joins the open batch, a new one if there is   *)
(* none, and gets a goroutine that sleeps for the window.                  *)
FallBack(p) ==
  /\ ~panicked /\ proposal[p] = "asking" /\ FALSE \in FastPathServes
  /\ proposal' = [proposal EXCEPT ![p] = "batched"]
  /\ currentBatch' = [OpenBatch EXCEPT !.members = @ \cup {p}]
  /\ worker' = [worker EXCEPT ![p] = Asleep(OpenBatch.id, now + BatchWindow)]
  /\ UNCHANGED <<now, closed, batches, voting>>

(* The goroutine wakes up: the first one of a batch closes it.             *)
WindowEnds(p) ==
  /\ ~panicked /\ worker[p].at = "asleep" /\ now >= worker[p].due
  /\ \/ /\ StillOpen(p)
        /\ closed' = [closed EXCEPT ![p] = currentBatch]
        /\ currentBatch' = NoBatch
        /\ worker' = [worker EXCEPT ![p] = Worker("closing")]
     \/ /\ ~StillOpen(p)
        /\ worker' = [worker EXCEPT ![p] = Worker("ended")]
        /\ UNCHANGED <<closed, currentBatch>>
  /\ UNCHANGED <<now, proposal, batches, voting>>

(* startConsensus, after the mutex was released and taken again.           *)
StartConsensus(p) ==
  /\ ~panicked /\ worker[p].at = "closing"
  /\ batches' = [batches EXCEPT ![closed[p].id] = closed[p].members]
  /\ votes' = [votes EXCEPT ![closed[p].id] = {}]
  /\ worker' = [worker EXCEPT ![p] = Worker("broadcasting")]
  /\ valid' = [valid EXCEPT ![closed[p].id] = {}]
  /\ UNCHANGED <<now, proposal, currentBatch, closed, commit, panicked>>

(* The broadcast of the batch, which reaches some of the validators; its   *)
(* error is ignored.  Nothing is remembered of whom it has reached.        *)
BroadcastBatch(p) ==
  /\ ~panicked /\ worker[p].at = "broadcasting"
  /\ worker' = [worker EXCEPT ![p] = Worker("ended")]
  /\ UNCHANGED <<now, proposal, currentBatch, closed, batches, voting>>

(* handleVote for a vote that names v as its sender and that Verify, which *)
(* needs a key of v, may accept or not.  It may come from anyone and at    *)
(* any time, and takes the place of an earlier vote of v.  Votes for other *)
(* batches than those in b.votes change nothing.                           *)
HandleVote(id, v, good) ==
  LET V == votes[id] \cup {v}
      G == IF good THEN valid[id] \cup {v} ELSE valid[id] \ {v}
  IN  /\ ~panicked
      /\ id \in Started /\ (good => v \in PublicKeys)
      /\ votes' = [votes EXCEPT ![id] = V]
      /\ valid' = [valid EXCEPT ![id] = G]
      /\ \/ /\ Cardinality(V) < QuorumSize(Cardinality(Validators))
            /\ UNCHANGED <<commit, panicked>>
         \/ /\ Cardinality(V) >= QuorumSize(Cardinality(Validators))
            /\ ~SignerSet
            /\ panicked' = TRUE
            /\ UNCHANGED commit
         \/ /\ Cardinality(V) >= QuorumSize(Cardinality(Validators))
            /\ SignerSet /\ ~AggregateSucceeds(V, G, Threshold)
            /\ UNCHANGED <<commit, panicked>>
         \/ /\ Cardinality(V) >= QuorumSize(Cardinality(Validators))
            /\ SignerSet /\ AggregateSucceeds(V, G, Threshold)
            /\ commit' = [commit EXCEPT ![id] = Aggregate(V, G, Threshold)]
            /\ UNCHANGED panicked
      /\ UNCHANGED <<now, batching, batches>>

Tick ==
  /\ now < MaxTime
  /\ now' = now + 1
  /\ UNCHANGED <<batching, batches, voting>>

Work(p) == WindowEnds(p) \/ StartConsensus(p) \/ BroadcastBatch(p)

Next ==
  \/ \E p \in Proposals : \/ ProposeTimestamp(p) \/ FastPathSucceeds(p)
                          \/ FallBack(p) \/ Work(p)
  \/ \E id \in Time, v \in Senders, good \in BOOLEAN : HandleVote(id, v, good)
  \/ Tick

(* A goroutine that is awake runs, and time passes.                        *)
Fairness == WF_vars(Tick) /\ \A p \in Proposals : WF_vars(Work(p))

Spec == Init /\ [][Next]_vars /\ Fairness

-----------------------------------------------------------------------------

(* The type invariant.  A goroutine that starts consensus has a batch.     *)
TypeOK ==
  /\ now \in Time
  /\ proposal \in [Proposals -> {"idle", "asking", "served", "batched"}]
  /\ currentBatch \in Batch \cup {NoBatch}
  /\ worker \in [Proposals -> Workers]
  /\ closed \in [Proposals -> Batch \cup {NoBatch}]
  /\ \A p \in Proposals :
       worker[p].at \in {"closing", "broadcasting"} => closed[p] # NoBatch
  /\ batches \in [Time -> SUBSET Proposals]
  /\ votes \in [Time -> SUBSET Senders]
  /\ valid \in [Time -> SUBSET PublicKeys]
  /\ commit \in [Time -> SUBSET Senders]
  /\ panicked \in BOOLEAN

(* The batches that exist anywhere: open, closed by a goroutine that has   *)
(* yet to start consensus, or started.                                     *)
Everywhere ==
  (IF currentBatch = NoBatch THEN {} ELSE {<<"open", currentBatch>>})
    \cup {<<"closing", closed[q]>> : q \in {q \in Proposals : worker[q].at = "closing"}}
    \cup {<<"started", [id |-> id, members |-> batches[id]]>> : id \in Started}

(* No proposal that fell back is lost or proposed twice: it is in exactly  *)
(* one batch, however many goroutines wake up and in whatever order, and   *)
(* across the release of the mutex between closing and starting.           *)
ExactlyOneBatch ==
  \A p \in Proposals : proposal[p] = "batched" =>
    Cardinality({b \in Everywhere : p \in b[2].members}) = 1

(* Consensus is started once per identifier: starting never replaces a     *)
(* batch or discards votes that were counted.                              *)
VotesKept ==
  [][\A id \in Started : batches'[id] = batches[id] /\ votes[id] \subseteq votes'[id]]_vars

(* A commit is broadcast only for a batch for which as many senders have   *)
(* voted as make a quorum of validators, and carries exactly Threshold     *)
(* signatures, of distinct voters with a key, although votes may be        *)
(* replaced by bad ones and come from senders without a key.  That the     *)
(* voters are validators is not among what handleVote guarantees.          *)
CommitSound ==
  \A id \in Started : commit[id] # {} =>
    /\ 3 * Cardinality(votes[id]) > 2 * Cardinality(Validators)
    /\ commit[id] \subseteq votes[id] \cap PublicKeys
    /\ Cardinality(commit[id]) = Threshold

(* Every proposal that falls back is, in the end, in a batch on which      *)
(* consensus was started.                                                  *)
EveryProposalStarts ==
  \A p \in Proposals :
    proposal[p] = "batched" /\ now + BatchWindow <= MaxTime
      ~> \E id \in Started : p \in batches[id]

(* "Aggregate votes using threshold signatures", "Move to commit phase"    *)
(* (pbft.go, lines 165 and 171): once a batch has a quorum of valid votes, *)
(* a commit has been broadcast.                                            *)
QuorumCommits ==
  \A id \in Started :
    /\ Cardinality(votes[id]) >= QuorumSize(Cardinality(Validators))
    /\ votes[id] \subseteq valid[id]
      => commit[id] # {}

=============================================================================
