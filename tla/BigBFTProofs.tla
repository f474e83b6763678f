---------------------------- MODULE BigBFTProofs ----------------------------
(***************************************************************************)
(* Proofs about BigBFT for any set of validators and any number of         *)
(* proposals.                                                              *)
(***************************************************************************)
EXTENDS BigBFT, ThresholdSignatureProofs

(* The number of faulty validators a system of n validators can have and   *)
(* still keep n > 3f.                                                      *)
MaxFaulty(n) == (n - 1) \div 3

(* The validators are finitely many.                                       *)
LEMMA ValidatorsFinite == IsFiniteSet(Validators)
BY ValidatorsAssumption, FS_Subset

(* getQuorumSize serves its purpose for every number of validators, not    *)
(* only 3f+1: any two quorums of voters share more validators than can be  *)
(* faulty, and the validators that are not faulty are enough for a quorum. *)
THEOREM QuorumsIntersect ==
  ASSUME NEW A, NEW B, A \subseteq Validators, B \subseteq Validators,
         Validators # {},
         Cardinality(A) >= QuorumSize(Cardinality(Validators)),
         Cardinality(B) >= QuorumSize(Cardinality(Validators))
  PROVE  /\ Cardinality(A \cap B) > MaxFaulty(Cardinality(Validators))
         /\ Cardinality(Validators) - MaxFaulty(Cardinality(Validators))
              >= QuorumSize(Cardinality(Validators))
<1> DEFINE N == Cardinality(Validators)
<1>1. /\ IsFiniteSet(A) /\ IsFiniteSet(B)
      /\ IsFiniteSet(A \cap B) /\ IsFiniteSet(A \cup B)
  BY ValidatorsFinite, FS_Subset
<1>2. /\ Cardinality(A) \in Nat /\ Cardinality(B) \in Nat
      /\ Cardinality(A \cap B) \in Nat /\ Cardinality(A \cup B) \in Nat
  BY <1>1, FS_CardinalityType
<1>3. N \in Nat \ {0}
  BY ValidatorsFinite, FS_CardinalityType, FS_EmptySet
<1>4. Cardinality(A \cup B) <= N
  <2>1. A \cup B \subseteq Validators
    OBVIOUS
  <2> QED
    BY <2>1, ValidatorsFinite, FS_Subset
<1>5. Cardinality(A \cup B)
        = Cardinality(A) + Cardinality(B) - Cardinality(A \cap B)
  BY <1>1, FS_Union
<1>6. Cardinality(A \cap B) >= 2 * QuorumSize(N) - N
  <2>1. QuorumSize(N) \in Int
    BY <1>3 DEF QuorumSize
  <2> QED
    BY <1>2, <1>3, <1>4, <1>5, <2>1
<1>7. /\ 2 * QuorumSize(N) - N > MaxFaulty(N)
      /\ N - MaxFaulty(N) >= QuorumSize(N)
      /\ QuorumSize(N) \in Int /\ MaxFaulty(N) \in Int
  BY <1>3 DEF QuorumSize, MaxFaulty
<1> HIDE DEF N
<1>8. 2 * QuorumSize(N) - N \in Int
  BY <1>3, <1>7
<1> QED
  BY <1>2, <1>3, <1>6, <1>7, <1>8 DEF N

-----------------------------------------------------------------------------
(* The inductive invariant.  Batches are told apart by the times at which  *)
(* they were created, and this works because a batch stays open for a      *)
(* whole window: an identifier in use lies at least a window in the past.  *)

InOpen(p)       == currentBatch # NoBatch /\ p \in currentBatch.members
Closing(q)      == worker[q].at = "closing"
InClosing(p, q) == Closing(q) /\ p \in closed[q].members
InStarted(p, i) == p \in batches[i]

(* Every proposal that fell back is in one place, the others in none.      *)
OnePlace ==
  /\ \A p \in Proposals : proposal[p] = "batched" <=>
       \/ InOpen(p)
       \/ \E q \in Proposals : InClosing(p, q)
       \/ \E i \in Time : InStarted(p, i)
  /\ \A p, q \in Proposals : ~(InOpen(p) /\ InClosing(p, q))
  /\ \A p \in Proposals, i \in Time : ~(InOpen(p) /\ InStarted(p, i))
  /\ \A p, q \in Proposals, i \in Time : ~(InClosing(p, q) /\ InStarted(p, i))
  /\ \A p, q, r \in Proposals : InClosing(p, q) /\ InClosing(p, r) => q = r
  /\ \A p \in Proposals, i, j \in Time :
       InStarted(p, i) /\ InStarted(p, j) => i = j

(* Identifiers are distinct and old enough.                                *)
FreshIDs ==
  /\ \A p \in Proposals : proposal[p] # "batched" => worker[p].at = "none"
  /\ \A p \in Proposals : worker[p].at = "asleep" =>
       worker[p].id + BatchWindow <= worker[p].due
  /\ currentBatch # NoBatch =>
       /\ currentBatch.id <= now
       /\ currentBatch.id \notin Started
       /\ \A q \in Proposals : Closing(q) => closed[q].id # currentBatch.id
  /\ \A q \in Proposals : Closing(q) =>
       closed[q].id \notin Started /\ closed[q].id + BatchWindow <= now
  /\ \A q, r \in Proposals :
       Closing(q) /\ Closing(r) /\ closed[q].id = closed[r].id => q = r
  /\ \A i \in Started : i + BatchWindow <= now

(* Commits belong to started batches.                                      *)
CommitsInv == CommitSound /\ \A i \in Time : i \notin Started => commit[i] = {}

IInv == TypeOK /\ OnePlace /\ FreshIDs /\ CommitsInv

-----------------------------------------------------------------------------

USE DEF batching, voting

(* A step that leaves the batches alone keeps every proposal in its place. *)
LEMMA PlaceFrame ==
  ASSUME OnePlace, UNCHANGED <<currentBatch, closed, batches>>,
         \A q \in Proposals : Closing(q)' <=> Closing(q),
         \A p \in Proposals : proposal'[p] = "batched" <=> proposal[p] = "batched"
  PROVE  OnePlace'
BY DEF OnePlace, InOpen, InClosing, InStarted

(* A step that leaves batches, votes and commits alone keeps CommitsInv.   *)
LEMMA CommitsFrame ==
  ASSUME CommitsInv, UNCHANGED <<batches, votes, commit>>
  PROVE  CommitsInv' /\ Started' = Started
BY DEF CommitsInv, CommitSound, Started

(* Asking the fast path, and being served.                                 *)
LEMMA AskStep ==
  ASSUME IInv, NEW p \in Proposals, ProposeTimestamp(p) \/ FastPathSucceeds(p)
  PROVE  IInv'
<1>1. UNCHANGED <<now, currentBatch, worker, closed, batches, votes, valid,
                  commit, panicked>>
  BY DEF ProposeTimestamp, FastPathSucceeds
<1>2. TypeOK'
  BY <1>1 DEF IInv, TypeOK, ProposeTimestamp, FastPathSucceeds
<1>3. \A q \in Proposals : proposal'[q] = "batched" <=> proposal[q] = "batched"
  BY DEF IInv, TypeOK, ProposeTimestamp, FastPathSucceeds
<1>4. \A q \in Proposals : Closing(q)' <=> Closing(q)
  BY <1>1 DEF Closing
<1>5. OnePlace'
  BY <1>1, <1>3, <1>4, PlaceFrame DEF IInv
<1>6. CommitsInv' /\ Started' = Started
  BY <1>1, CommitsFrame DEF IInv
<1>7. FreshIDs'
  BY <1>1, <1>3, <1>4, <1>6 DEF IInv, FreshIDs
<1> QED
  BY <1>2, <1>5, <1>6, <1>7 DEF IInv

(* Falling back: the proposal was nowhere and is now in the open batch,    *)
(* whose identifier, if it is new, no other batch can have.                *)
LEMMA FallBackStep ==
  ASSUME IInv, NEW p \in Proposals, FallBack(p)
  PROVE  IInv'
<1> DEFINE open == OpenBatch
<1>1. /\ proposal[p] = "asking"
      /\ proposal' = [proposal EXCEPT ![p] = "batched"]
      /\ currentBatch' = [open EXCEPT !.members = @ \cup {p}]
      /\ worker' = [worker EXCEPT ![p] = Asleep(open.id, now + BatchWindow)]
      /\ UNCHANGED <<now, closed, batches, votes, valid, commit, panicked>>
  BY DEF FallBack
<1>2. /\ open \in Batch /\ open.id <= now
      /\ currentBatch # NoBatch => open = currentBatch
      /\ currentBatch = NoBatch => open.id = now /\ open.members = {}
  BY DEF IInv, TypeOK, FreshIDs, OpenBatch, NewBatchID, Batch, Time
<1> HIDE DEF open
<1>3. /\ currentBatch' = [id |-> open.id, members |-> open.members \cup {p}]
      /\ currentBatch' \in Batch /\ currentBatch' # NoBatch
      /\ currentBatch'.id = open.id
      /\ currentBatch'.members = open.members \cup {p}
  BY <1>1, <1>2, NoBatchAssumption, WindowAssumption DEF Batch, Time
<1>4. ~Closing(p) /\ \A q \in Proposals : Closing(q)' <=> Closing(q)
  BY <1>1 DEF IInv, TypeOK, FreshIDs, Closing, Asleep
<1>5. TypeOK'
  <2>1. Asleep(open.id, now + BatchWindow) \in Workers
    BY <1>2, WindowAssumption DEF IInv, TypeOK, Asleep, Workers, Batch, Time
  <2>2. worker' \in [Proposals -> Workers]
    BY <1>1, <2>1 DEF IInv, TypeOK
  <2>3. \A q \in Proposals :
          worker'[q].at \in {"closing", "broadcasting"} => closed'[q] # NoBatch
    BY <1>1 DEF IInv, TypeOK, Asleep
  <2> QED
    BY <1>1, <1>3, <2>2, <2>3 DEF IInv, TypeOK
<1>6. OnePlace'
  <2>1. \A q \in Proposals : InOpen(q)' <=> InOpen(q) \/ q = p
    BY <1>2, <1>3 DEF InOpen
  <2>2. \A q, r \in Proposals : InClosing(q, r)' <=> InClosing(q, r)
    BY <1>1, <1>4 DEF InClosing
  <2>3. \A q \in Proposals, i \in Time : InStarted(q, i)' <=> InStarted(q, i)
    BY <1>1 DEF InStarted
  <2>4. \A q \in Proposals :
          proposal'[q] = "batched" <=> proposal[q] = "batched" \/ q = p
    BY <1>1 DEF IInv, TypeOK
  <2>5. /\ \A q \in Proposals : ~InClosing(p, q)
        /\ \A i \in Time : ~InStarted(p, i)
    BY <1>1 DEF IInv, OnePlace
  <2> QED
    BY <2>1, <2>2, <2>3, <2>4, <2>5 DEF IInv, OnePlace
<1>7. CommitsInv' /\ Started' = Started
  BY <1>1, CommitsFrame DEF IInv
<1>8. FreshIDs'
  <2>1. \A q \in Proposals :
          proposal'[q] # "batched" => worker'[q].at = "none"
    BY <1>1 DEF IInv, TypeOK, FreshIDs
  <2>2. /\ now \in Nat /\ BatchWindow \in Nat \ {0} /\ open.id \in Nat
        /\ Time \subseteq Nat
    BY <1>2, WindowAssumption DEF IInv, TypeOK, Batch, Time
  <2>3. \A q \in Proposals : worker'[q].at = "asleep" =>
          worker'[q].id + BatchWindow <= worker'[q].due
    BY <1>1, <1>2, <2>2 DEF IInv, TypeOK, FreshIDs, Asleep
  <2>4. open.id \notin Started
    <3>1. CASE currentBatch = NoBatch
      <4>1. \A i \in Started : i \in Nat /\ i + BatchWindow <= now
        BY <2>2 DEF IInv, FreshIDs, Started
      <4> QED
        BY <3>1, <4>1, <1>2, <2>2
    <3>2. CASE currentBatch # NoBatch
      BY <3>2, <1>2 DEF IInv, FreshIDs
    <3> QED
      BY <3>1, <3>2
  <2>5. \A q \in Proposals : Closing(q) => closed[q].id # open.id
    <3>1. CASE currentBatch = NoBatch
      <4>1. ASSUME NEW q \in Proposals, Closing(q) PROVE closed[q].id # open.id
        <5>1. closed[q].id \in Nat /\ closed[q].id + BatchWindow <= now
          BY <4>1, <2>2 DEF IInv, TypeOK, FreshIDs, Closing, Batch
        <5> QED
          BY <3>1, <5>1, <1>2, <2>2
      <4> QED
        BY <4>1
    <3>2. CASE currentBatch # NoBatch
      BY <3>2, <1>2 DEF IInv, FreshIDs
    <3> QED
      BY <3>1, <3>2
  <2> QED
    BY <1>1, <1>2, <1>3, <1>4, <1>7, <2>1, <2>3, <2>4, <2>5 DEF IInv, FreshIDs
<1> QED
  BY <1>5, <1>6, <1>7, <1>8 DEF IInv

(* A goroutine wakes up: the open batch, if it is the one it waited for,   *)
(* moves into its hands as a whole.                                        *)
LEMMA WindowStep ==
  ASSUME IInv, NEW p \in Proposals, WindowEnds(p)
  PROVE  IInv'
<1>1. /\ worker[p].at = "asleep" /\ now >= worker[p].due
      /\ UNCHANGED <<now, proposal, batches, votes, valid, commit, panicked>>
  BY DEF WindowEnds
<1>2. CommitsInv' /\ Started' = Started
  BY <1>1, CommitsFrame DEF IInv
<1>3. Worker("closing") \in Workers /\ Worker("ended") \in Workers
  BY WindowAssumption DEF Worker, Workers, Time
<1>4. ~Closing(p) /\ proposal[p] = "batched"
  BY <1>1 DEF Closing, IInv, TypeOK, FreshIDs
<1>5. CASE ~StillOpen(p)
  <2>1. /\ worker' = [worker EXCEPT ![p] = Worker("ended")]
        /\ UNCHANGED <<closed, currentBatch>>
    BY <1>5 DEF WindowEnds
  <2>2. \A q \in Proposals : Closing(q)' <=> Closing(q)
    BY <1>4, <2>1 DEF IInv, TypeOK, Closing, Worker
  <2>3. TypeOK'
    BY <1>1, <1>3, <2>1 DEF IInv, TypeOK, Worker
  <2>4. OnePlace'
    BY <1>1, <2>1, <2>2, PlaceFrame DEF IInv
  <2>5. FreshIDs'
    <3>1. \A q \in Proposals : proposal'[q] # "batched" => worker'[q].at = "none"
      BY <1>1, <1>4, <2>1 DEF IInv, TypeOK, FreshIDs
    <3>2. \A q \in Proposals : worker'[q].at = "asleep" =>
            worker'[q].id + BatchWindow <= worker'[q].due
      BY <2>1 DEF IInv, TypeOK, FreshIDs, Worker
    <3> QED
      BY <1>1, <1>2, <2>1, <2>2, <3>1, <3>2 DEF IInv, FreshIDs
  <2> QED
    BY <1>2, <2>3, <2>4, <2>5 DEF IInv
<1>6. CASE StillOpen(p)
  <2>1. /\ worker' = [worker EXCEPT ![p] = Worker("closing")]
        /\ closed' = [closed EXCEPT ![p] = currentBatch]
        /\ currentBatch' = NoBatch
        /\ currentBatch # NoBatch /\ currentBatch \in Batch
        /\ currentBatch.id = worker[p].id
    BY <1>6 DEF WindowEnds, StillOpen, IInv, TypeOK
  <2>2. \A q \in Proposals : Closing(q)' <=> Closing(q) \/ q = p
    BY <2>1 DEF IInv, TypeOK, Closing, Worker
  <2>3. /\ closed'[p] = currentBatch
        /\ \A q \in Proposals : q # p => closed'[q] = closed[q]
    BY <2>1 DEF IInv, TypeOK
  <2>4. TypeOK'
    <3>1. \A q \in Proposals :
            worker'[q].at \in {"closing", "broadcasting"} => closed'[q] # NoBatch
      BY <2>1, <2>3 DEF IInv, TypeOK, Worker
    <3> QED
      BY <1>1, <1>3, <2>1, <3>1 DEF IInv, TypeOK
  <2>5. OnePlace'
    <3>1. \A q \in Proposals : ~InOpen(q)'
      BY <2>1 DEF InOpen
    <3>2. \A q \in Proposals : InClosing(q, p)' <=> InOpen(q)
      BY <2>1, <2>2, <2>3 DEF InClosing, InOpen
    <3>3. \A q, r \in Proposals : r # p => (InClosing(q, r)' <=> InClosing(q, r))
      BY <2>2, <2>3 DEF InClosing
    <3>4. \A q \in Proposals : ~InClosing(q, p)
      BY <1>4 DEF InClosing
    <3>5. \A q \in Proposals, i \in Time : InStarted(q, i)' <=> InStarted(q, i)
      BY <1>1 DEF InStarted
    <3> QED
      BY <1>1, <3>1, <3>2, <3>3, <3>4, <3>5 DEF IInv, OnePlace
  <2>6. FreshIDs'
    <3>1. \A q \in Proposals : proposal'[q] # "batched" => worker'[q].at = "none"
      BY <1>1, <1>4, <2>1 DEF IInv, TypeOK, FreshIDs
    <3>2. \A q \in Proposals : worker'[q].at = "asleep" =>
            worker'[q].id + BatchWindow <= worker'[q].due
      BY <2>1 DEF IInv, TypeOK, FreshIDs, Worker
    <3>3. currentBatch.id + BatchWindow <= now
      <4>1. /\ worker[p].id \in Nat /\ worker[p].due \in Nat
            /\ now \in Nat /\ BatchWindow \in Nat
        BY WindowAssumption DEF IInv, TypeOK, Workers, Time
      <4>2. worker[p].id + BatchWindow <= worker[p].due
        BY <1>1 DEF IInv, FreshIDs
      <4> QED
        BY <4>1, <4>2, <1>1, <2>1
    <3> QED
      BY <1>1, <1>2, <1>4, <2>1, <2>2, <2>3, <3>1, <3>2, <3>3 DEF IInv, FreshIDs
  <2> QED
    BY <1>2, <2>4, <2>5, <2>6 DEF IInv
<1> QED
  BY <1>5, <1>6

(* Starting consensus: the identifier had no entry, so nothing is replaced *)
(* and no vote is discarded.                                               *)
LEMMA StartStep ==
  ASSUME IInv, NEW p \in Proposals, StartConsensus(p)
  PROVE  /\ IInv'
         /\ \A i \in Started : batches'[i] = batches[i] /\ votes'[i] = votes[i]
<1> DEFINE b == closed[p]
<1>1. /\ worker[p].at = "closing"
      /\ batches' = [batches EXCEPT ![b.id] = b.members]
      /\ votes' = [votes EXCEPT ![b.id] = {}]
      /\ valid' = [valid EXCEPT ![b.id] = {}]
      /\ worker' = [worker EXCEPT ![p] = Worker("broadcasting")]
      /\ UNCHANGED <<now, proposal, currentBatch, closed, commit, panicked>>
  BY DEF StartConsensus
<1>2. b \in Batch /\ b # NoBatch /\ b.id \in Time /\ b.members \subseteq Proposals
  BY <1>1 DEF IInv, TypeOK, Batch
<1>3. Closing(p) /\ b.id \notin Started /\ b.id + BatchWindow <= now
  BY <1>1 DEF IInv, FreshIDs, Closing
<1> HIDE DEF b
<1>4. \A q \in Proposals : Closing(q)' <=> Closing(q) /\ q # p
  BY <1>1 DEF IInv, TypeOK, Closing, Worker
<1>5. /\ batches[b.id] = {}
      /\ \A i \in Time : batches'[i] = IF i = b.id THEN b.members ELSE batches[i]
      /\ \A i \in Time : votes'[i] = IF i = b.id THEN {} ELSE votes[i]
  BY <1>1, <1>2, <1>3 DEF IInv, TypeOK, Started
<1>6. \A i \in Started' : i \in Started \/ i = b.id
  BY <1>5 DEF Started
<1>7. \A i \in Started : /\ i # b.id /\ i \in Started'
                        /\ batches'[i] = batches[i] /\ votes'[i] = votes[i]
  BY <1>3, <1>5 DEF Started
<1>8. TypeOK'
  <2>1. Worker("broadcasting") \in Workers
    BY WindowAssumption DEF Worker, Workers, Time
  <2>2. \A q \in Proposals :
          worker'[q].at \in {"closing", "broadcasting"} => closed'[q] # NoBatch
    BY <1>1, <1>2 DEF IInv, TypeOK, Worker, b
  <2> QED
    BY <1>1, <1>2, <2>1, <2>2 DEF IInv, TypeOK
<1>9. OnePlace'
  <2>1. \A q \in Proposals : InOpen(q)' <=> InOpen(q)
    BY <1>1 DEF InOpen
  <2>2. \A q, r \in Proposals : InClosing(q, r)' <=> InClosing(q, r) /\ r # p
    BY <1>1, <1>4 DEF InClosing
  <2>3. \A q \in Proposals, i \in Time :
          InStarted(q, i)' <=> \/ i # b.id /\ InStarted(q, i)
                               \/ i = b.id /\ InClosing(q, p)
    BY <1>3, <1>5 DEF InStarted, InClosing, b
  <2>4. \A q \in Proposals : ~InStarted(q, b.id)
    BY <1>5 DEF InStarted
  <2> QED
    BY <1>1, <1>2, <2>1, <2>2, <2>3, <2>4 DEF IInv, OnePlace
<1>10. FreshIDs'
  <2>1. \A q \in Proposals : proposal'[q] # "batched" => worker'[q].at = "none"
    BY <1>1 DEF IInv, TypeOK, FreshIDs
  <2>2. \A q \in Proposals : worker'[q].at = "asleep" =>
          worker'[q].id + BatchWindow <= worker'[q].due
    BY <1>1 DEF IInv, TypeOK, FreshIDs, Worker
  <2>3. \A q \in Proposals : Closing(q)' => closed[q].id # b.id /\ Closing(q)
    BY <1>3, <1>4 DEF IInv, FreshIDs, b
  <2>4. currentBatch # NoBatch => currentBatch.id # b.id
    BY <1>3 DEF IInv, FreshIDs, b
  <2> QED
    BY <1>1, <1>3, <1>6, <2>1, <2>2, <2>3, <2>4 DEF IInv, FreshIDs
<1>11. CommitsInv'
  <2>1. commit[b.id] = {}
    BY <1>2, <1>3 DEF IInv, CommitsInv
  <2>2. \A i \in Started' : commit'[i] # {} => i \in Started
    BY <1>1, <1>6, <2>1
  <2>3. CommitSound'
    BY <1>1, <1>7, <2>2 DEF IInv, CommitsInv, CommitSound
  <2> QED
    BY <1>1, <1>7, <2>3 DEF IInv, CommitsInv
<1> QED
  BY <1>7, <1>8, <1>9, <1>10, <1>11 DEF IInv

(* Broadcasting the batch, and the passing of time.                        *)
LEMMA BroadcastStep ==
  ASSUME IInv, (\E p \in Proposals : BroadcastBatch(p)) \/ Tick
  PROVE  IInv'
<1>1. /\ UNCHANGED <<proposal, currentBatch, closed, batches, votes, valid, commit,
                     panicked>>
      /\ now' \in Time /\ now <= now'
  BY WindowAssumption DEF BroadcastBatch, Tick, IInv, TypeOK, Time
<1>2. \A q \in Proposals : \/ worker'[q] = worker[q]
                          \/ /\ worker[q].at = "broadcasting"
                             /\ worker'[q] = Worker("ended")
  BY DEF BroadcastBatch, Tick, IInv, TypeOK
<1>3. /\ worker' \in [Proposals -> Workers]
      /\ \A q \in Proposals :
           worker'[q].at \in {"closing", "broadcasting"} => closed'[q] # NoBatch
  <2>1. Worker("ended") \in Workers
    BY WindowAssumption DEF Worker, Workers, Time
  <2>2. worker' \in [Proposals -> Workers]
    BY <2>1 DEF BroadcastBatch, Tick, IInv, TypeOK
  <2> QED
    BY <1>1, <1>2, <2>2 DEF IInv, TypeOK, Worker
<1>4. TypeOK'
  BY <1>1, <1>3 DEF IInv, TypeOK
<1>5. \A q \in Proposals : Closing(q)' <=> Closing(q)
  BY <1>2 DEF Closing, Worker
<1>6. OnePlace'
  BY <1>1, <1>5, PlaceFrame DEF IInv
<1>7. CommitsInv' /\ Started' = Started
  BY <1>1, CommitsFrame DEF IInv
<1>8. FreshIDs'
  <2>1. now \in Nat /\ now' \in Nat /\ BatchWindow \in Nat /\ Time \subseteq Nat
    BY <1>1, WindowAssumption DEF IInv, TypeOK, Time
  <2>2. \A q \in Proposals : proposal'[q] # "batched" => worker'[q].at = "none"
    BY <1>1, <1>2 DEF IInv, FreshIDs
  <2>3. \A q \in Proposals : worker'[q].at = "asleep" =>
          worker'[q].id + BatchWindow <= worker'[q].due
    BY <1>2 DEF IInv, FreshIDs, Worker
  <2>4. currentBatch # NoBatch => currentBatch.id <= now'
    <3>1. SUFFICES ASSUME currentBatch # NoBatch PROVE currentBatch.id <= now'
      OBVIOUS
    <3>2. currentBatch \in Batch
      BY <3>1 DEF IInv, TypeOK
    <3>3. currentBatch.id \in Nat
      BY <2>1, <3>2 DEF Batch
    <3>4. currentBatch.id <= now
      BY <3>1 DEF IInv, FreshIDs
    <3> QED
      BY <1>1, <2>1, <3>3, <3>4
  <2>5. \A q \in Proposals : Closing(q) => closed[q].id + BatchWindow <= now'
    <3>1. SUFFICES ASSUME NEW q \in Proposals, Closing(q)
                   PROVE  closed[q].id + BatchWindow <= now'
      OBVIOUS
    <3>2. closed[q] \in Batch
      BY <3>1 DEF IInv, TypeOK, Closing
    <3>3. closed[q].id \in Nat
      BY <2>1, <3>2 DEF Batch
    <3>4. closed[q].id + BatchWindow <= now
      BY <3>1 DEF IInv, FreshIDs
    <3> QED
      BY <1>1, <2>1, <3>3, <3>4
  <2>6. \A i \in Started : i + BatchWindow <= now'
    <3>1. \A i \in Started : i \in Nat /\ i + BatchWindow <= now
      BY <2>1 DEF IInv, FreshIDs, Started
    <3> QED
      BY <1>1, <2>1, <3>1
  <2> QED
    BY <1>1, <1>5, <1>7, <2>2, <2>3, <2>4, <2>5, <2>6 DEF IInv, FreshIDs
<1> QED
  BY <1>4, <1>6, <1>7, <1>8 DEF IInv

(* A vote: a commit that is broadcast is backed by the votes held then.    *)
LEMMA VoteStep ==
  ASSUME IInv, NEW i \in Time, NEW v \in Senders, NEW good \in BOOLEAN,
         HandleVote(i, v, good)
  PROVE  IInv' /\ UNCHANGED batches /\ \A j \in Time : votes[j] \subseteq votes'[j]
<1> DEFINE V == votes[i] \cup {v}
           G == IF good THEN valid[i] \cup {v} ELSE valid[i] \ {v}
           Q == QuorumSize(Cardinality(Validators))
<1>1. /\ i \in Started
      /\ votes' = [votes EXCEPT ![i] = V]
      /\ valid' = [valid EXCEPT ![i] = G]
      /\ good => v \in PublicKeys
      /\ panicked' \in BOOLEAN
      /\ \/ commit' = commit
         \/ /\ Cardinality(V) >= Q
            /\ AggregateSucceeds(V, G, Threshold)
            /\ commit' = [commit EXCEPT ![i] = Aggregate(V, G, Threshold)]
      /\ UNCHANGED <<now, proposal, currentBatch, worker, closed, batches>>
  BY DEF HandleVote, IInv, TypeOK
<1>2. /\ V \subseteq Senders /\ V \subseteq Nat /\ IsFiniteSet(V)
      /\ G \subseteq PublicKeys
  <2>1. votes[i] \subseteq Senders /\ valid[i] \subseteq PublicKeys
    BY DEF IInv, TypeOK
  <2>2. V \subseteq Senders /\ G \subseteq PublicKeys
    BY <1>1, <2>1
  <2> QED
    BY <2>2, ValidatorsAssumption, FS_Subset
<1>3. AggregateSucceeds(V, G, Threshold) =>
        /\ Aggregate(V, G, Threshold) \subseteq V \cap PublicKeys
        /\ Cardinality(Aggregate(V, G, Threshold)) = Threshold
  BY <1>2, SignerAssumption, AggregateExact
<1>4. /\ Cardinality(V) \in Nat /\ Cardinality(votes[i]) \in Nat
      /\ Cardinality(votes[i]) <= Cardinality(V) /\ Cardinality(Validators) \in Nat
  BY <1>2, ValidatorsFinite, FS_Subset, FS_CardinalityType
<1>5. Cardinality(V) >= Q => 3 * Cardinality(V) > 2 * Cardinality(Validators)
  BY <1>4 DEF QuorumSize
<1> HIDE DEF V, G, Q
<1>6. /\ votes'[i] = V /\ votes[i] \subseteq V
      /\ \A j \in Time : j # i => votes'[j] = votes[j] /\ commit'[j] = commit[j]
  BY <1>1 DEF IInv, TypeOK, V
<1>7. TypeOK'
  <2>1. commit' \in [Time -> SUBSET Senders]
    BY <1>1, <1>2, <1>3 DEF IInv, TypeOK
  <2> QED
    BY <1>1, <1>2, <2>1 DEF IInv, TypeOK
<1>8. Started' = Started /\ \A q \in Proposals : Closing(q)' <=> Closing(q)
  BY <1>1 DEF Started, Closing
<1>9. OnePlace' /\ FreshIDs'
  BY <1>1, <1>8, PlaceFrame DEF IInv, FreshIDs
<1>10. CommitsInv'
  <2>1. commit'[i] # {} =>
          /\ 3 * Cardinality(V) > 2 * Cardinality(Validators)
          /\ commit'[i] \subseteq V \cap PublicKeys
          /\ Cardinality(commit'[i]) = Threshold
    <3>1. CASE commit' = commit
      BY <3>1, <1>1, <1>4, <1>6 DEF IInv, CommitsInv, CommitSound
    <3>2. CASE commit' # commit
      BY <3>2, <1>1, <1>3, <1>5 DEF IInv, TypeOK
    <3> QED
      BY <3>1, <3>2
  <2>2. CommitSound'
    BY <1>6, <1>8, <2>1 DEF IInv, CommitsInv, CommitSound, Started
  <2> QED
    BY <1>1, <1>6, <1>8, <2>2 DEF IInv, CommitsInv
<1> QED
  BY <1>1, <1>6, <1>7, <1>9, <1>10 DEF IInv

-----------------------------------------------------------------------------

(* The invariant holds initially.                                          *)
LEMMA InitInv == Init => IInv
<1> SUFFICES ASSUME Init PROVE IInv
  OBVIOUS
<1>1. Worker("none") \in Workers /\ 0 \in Time
  BY WindowAssumption DEF Worker, Workers, Time
<1>2. Started = {} /\ \A q \in Proposals : ~Closing(q)
  BY DEF Init, Started, Closing, Worker
<1>3. TypeOK
  BY <1>1 DEF Init, TypeOK, Worker
<1>4. OnePlace
  BY <1>2 DEF Init, OnePlace, InOpen, InClosing, InStarted
<1>5. FreshIDs
  BY <1>2 DEF Init, FreshIDs, Worker
<1>6. CommitsInv
  BY <1>2 DEF Init, CommitsInv, CommitSound
<1> QED
  BY <1>3, <1>4, <1>5, <1>6 DEF IInv

(* It is kept by every step, and so are batches and votes.                 *)
LEMMA NextInv ==
  IInv /\ [Next]_vars =>
    IInv' /\ \A i \in Started : batches'[i] = batches[i] /\ votes[i] \subseteq votes'[i]
<1> SUFFICES ASSUME IInv, [Next]_vars
             PROVE  /\ IInv'
                    /\ \A i \in Started : /\ batches'[i] = batches[i]
                                          /\ votes[i] \subseteq votes'[i]
  OBVIOUS
<1>1. ASSUME NEW p \in Proposals, ProposeTimestamp(p) \/ FastPathSucceeds(p)
      PROVE  IInv' /\ UNCHANGED <<batches, votes>>
  BY <1>1, AskStep DEF ProposeTimestamp, FastPathSucceeds
<1>2. ASSUME NEW p \in Proposals, FallBack(p)
      PROVE  IInv' /\ UNCHANGED <<batches, votes>>
  BY <1>2, FallBackStep DEF FallBack
<1>3. ASSUME NEW p \in Proposals, WindowEnds(p)
      PROVE  IInv' /\ UNCHANGED <<batches, votes>>
  BY <1>3, WindowStep DEF WindowEnds
<1>4. ASSUME NEW p \in Proposals, StartConsensus(p)
      PROVE  /\ IInv'
             /\ \A i \in Started : batches'[i] = batches[i] /\ votes'[i] = votes[i]
  BY <1>4, StartStep
<1>5. ASSUME (\E p \in Proposals : BroadcastBatch(p)) \/ Tick
      PROVE  IInv' /\ UNCHANGED <<batches, votes>>
  BY <1>5, BroadcastStep DEF BroadcastBatch, Tick
<1>6. ASSUME NEW i \in Time, NEW v \in Senders, NEW good \in BOOLEAN,
         HandleVote(i, v, good)
      PROVE  IInv' /\ UNCHANGED batches /\ \A j \in Time : votes[j] \subseteq votes'[j]
  BY <1>6, VoteStep
<1>7. ASSUME UNCHANGED vars
      PROVE  IInv' /\ UNCHANGED <<batches, votes>>
  <2>1. \A q \in Proposals : Closing(q)' <=> Closing(q)
    BY <1>7 DEF Closing, vars
  <2>2. OnePlace' /\ CommitsInv' /\ Started' = Started
    BY <1>7, <2>1, PlaceFrame, CommitsFrame DEF IInv, vars
  <2>3. TypeOK' /\ FreshIDs'
    BY <1>7, <2>1, <2>2 DEF IInv, TypeOK, FreshIDs, vars
  <2> QED
    BY <1>7, <2>2, <2>3 DEF IInv, vars
<1>8. Started \subseteq Time
  BY DEF Started
<1> QED
  BY <1>1, <1>2, <1>3, <1>4, <1>5, <1>6, <1>7, <1>8 DEF Next, Work

(* The state of the node keeps its type.                                   *)
THEOREM TypeCorrect == Spec => []TypeOK
<1>1. IInv => TypeOK
  BY DEF IInv
<1> QED
  BY <1>1, InitInv, NextInv, PTL DEF Spec

(* Every proposal the fast path does not serve is in exactly one batch,    *)
(* for any number of concurrent proposals and any window.                  *)
THEOREM ProposalsInOneBatch == Spec => []ExactlyOneBatch
<1>1. IInv => ExactlyOneBatch
  <2> SUFFICES ASSUME IInv, NEW p \in Proposals, proposal[p] = "batched"
               PROVE  Cardinality({b \in Everywhere : p \in b[2].members}) = 1
    BY DEF ExactlyOneBatch
  <2> DEFINE Mine == {b \in Everywhere : p \in b[2].members}
  <2>1. CASE InOpen(p)
    <3>1. Mine = {<<"open", currentBatch>>}
      <4>1. \A q \in Proposals : ~InClosing(p, q)
        BY <2>1 DEF IInv, OnePlace
      <4>2. \A i \in Time : ~InStarted(p, i)
        BY <2>1 DEF IInv, OnePlace
      <4> QED
        BY <2>1, <4>1, <4>2
        DEF Everywhere, InOpen, InClosing, Closing, InStarted, Started
    <3> QED
      BY <3>1, FS_Singleton
  <2>2. ASSUME NEW q \in Proposals, InClosing(p, q)
        PROVE  Cardinality(Mine) = 1
    <3>1. Mine = {<<"closing", closed[q]>>}
      <4>1. ~InOpen(p) /\ \A i \in Time : ~InStarted(p, i)
        BY <2>2 DEF IInv, OnePlace
      <4>2. \A r \in Proposals : InClosing(p, r) => r = q
        BY <2>2 DEF IInv, OnePlace
      <4> QED
        BY <2>2, <4>1, <4>2
        DEF Everywhere, InOpen, InClosing, Closing, InStarted, Started
    <3> QED
      BY <3>1, FS_Singleton
  <2>3. ASSUME NEW i \in Time, InStarted(p, i)
        PROVE  Cardinality(Mine) = 1
    <3>1. Mine = {<<"started", [id |-> i, members |-> batches[i]]>>}
      <4>1. ~InOpen(p) /\ \A q \in Proposals : ~InClosing(p, q)
        BY <2>3 DEF IInv, OnePlace
      <4>2. \A j \in Time : InStarted(p, j) => j = i
        BY <2>3 DEF IInv, OnePlace
      <4> QED
        BY <2>3, <4>1, <4>2
        DEF Everywhere, InOpen, InClosing, Closing, InStarted, Started
    <3> QED
      BY <3>1, FS_Singleton
  <2> QED
    BY <2>1, <2>2, <2>3 DEF IInv, OnePlace
<1> QED
  BY <1>1, InitInv, NextInv, PTL DEF Spec

(* Starting consensus on a batch never replaces another one or discards    *)
(* votes.                                                                  *)
THEOREM VotesAreKept == Spec => VotesKept
<1>1. IInv /\ [Next]_vars =>
        [\A id \in Started : batches'[id] = batches[id] /\ votes[id] \subseteq votes'[id]]_vars
  BY NextInv
<1> QED
  BY <1>1, InitInv, NextInv, PTL DEF Spec, VotesKept

(* Every commit that is broadcast has as many votes behind it as more than *)
(* two thirds of the validators would cast, whoever cast them, and         *)
(* Threshold signatures of distinct voters with a key, for any senders,    *)
(* keys and threshold.                                                     *)
THEOREM CommitsAreSound == Spec => []CommitSound
<1>1. IInv => CommitSound
  BY DEF IInv, CommitsInv
<1> QED
  BY <1>1, InitInv, NextInv, PTL DEF Spec

=============================================================================
