# Verification of timeserver-core

TLA+ models of the parts of timeserver-core that keep state and run
concurrently, TLC configurations that check them on small instances, and TLAPS
proofs of the safety properties for every value of the constants.
`PROJECT.json` maps every definition to the lines it models.

To check a run: `tlc -config X.cfg M`; to check a proof: `tlapm MProofs.tla`.

## 1. The system

A client obtains a signed timestamp either from a fast path, which collects
signatures of the nearest servers, or by consensus among validators on a batch
of proposals. Nodes talk over libp2p: discovery admits peers, a gossip layer
floods messages. A trading client asks many servers at once and takes a quorum.

| Part (source under `src/core`) | State | Operations | Hard behaviour | What makes it correct |
|---|---|---|---|---|
| Fast path (`consensus/fastpath.go`) | mutex, `sigChan`, `errChan`, counters and maps of the collector | `GetTimestamp`; one goroutine per server | answers in any order against a deadline; the collector writes to the channel it reads; other callers wait for the mutex | counters exact, never blocks itself, gives up when and only when it must, sound median, returns |
| Threshold signatures (`consensus/threshold.go`) | keys, threshold | `Verify`, `Aggregate` | invalid and surplus signatures | exactly `threshold` valid signatures |
| BigBFT (`consensus/pbft.go`) | `currentBatch`, `batches`, `votes` | `ProposeTimestamp`, `processBatchAfterWindow`, `startConsensus`, `handleVote` | one sleeping goroutine per proposal; mutex released half way; votes again, late and from anyone | no proposal lost or twice, no vote discarded, commits have as many votes as a quorum |
| View change (`consensus/view.go`) | `viewID`, messages by view | `StartViewChange`, `ProcessViewChangeMessage` | lost, late, repeated messages; partial broadcasts | a view was asked for by a majority |
| HFT client (`client/hft_client.go`) | verification cache, counters, round-trip times, batch cache | `GetVerifiedTimestamp`, `GetVerifiedTimestampForBatch` | parallel requests, early return with a background reader, shared caches, deadline | result counted by a quorum of verified answers, error justified, returns, statistics exact |
| Discovery and peer security (`p2p/discovery.go`, `p2p/security.go`) | `peerInfo`, `connectionTimes`, `scores` | `Start`, `Stop`, `AddPeer`, `RemovePeer`, the loop | the loop against mDNS and callers, nested locks, sliding window | admissions limited, no deadlock, `Stop` returns |
| Gossip and P2P network (`p2p/gossip.go`, `p2p/network.go`) | `seenMsgs`, protocol handlers | `Start`, `Broadcast`, `Send`, `handleStream`, `handleMessage`, clean-up | copies over several paths, forgetting meanwhile, single reads that lose a message, order of start-up | handled once, delivered to all that are reached |
| Engine, state and elections (`consensus/consensus.go`, `state.go`, `leader.go`, `election.go`) | view, leader, validators; three reader-writer mutexes | `Start`, `Stop`, `ProposeTimestamp`, accessors of `State`, `ElectLeader`, `GetLeaderForView`, `IsLeader`, `StartViewChange` | nested locks, one field read under the wrong mutex, the leader's index | calls return, no unprotected access, index in range |
| Registry and server (`network/adapters.go`, `server`) | servers by ID, region of each server | `AddServer`, `RemoveServer`, `GetServers`, `GetServersByRegion`, `SetRegion`, `GetTimestamp`, `VerifyTimestamp` | servers replaced, removed and given other regions while others read; a new key after a restart | selections and verdicts right for moments of the call |
| Regions (`regions`) | regions, assignments | add, remove, assign, look up | a region removed and added again | assignments refer to regions that exist |
| Service and APIs (`service`, `api`) | none | `VerifyTimestamp`, `GetValidators`, translation | error values | verdicts agree with the service |

Interactions. `BigBFT.ProposeTimestamp` calls the fast path and falls back to a
batch if it fails; both aggregate with `ThresholdSignature`. BigBFT, the view
change and the engine send through `Network.Broadcast`, which is
`P2PNetwork.Broadcast` behind the adapter: it stops at the first peer that
fails. The gossip layer registers a handler with the P2P network and is called
from the goroutine of each stream. The HFT client reads the registry, and each
of its requests updates the round-trip times by which the next call sorts. The
gRPC adapter calls the fast path of the server or `TimestampService`, and both
look the signer of a timestamp up in the registry.

The hazards this leads to are listed, at their lines, in `PROJECT.json`.

## 2. Modules

| Module | Models | Proofs |
|---|---|---|
| `ThresholdSignature` | `Aggregate` as an operator on sets of signers | `ThresholdSignatureProofs` |
| `FastPath` | `GetTimestamp`, any number of callers | `FastPathProofs` |
| `BigBFT` | batching and voting of one node; whoever sends votes is its environment | `BigBFTProofs` |
| `ViewChange` | all nodes and the network between them | `ConsensusProofs` |
| `HFTClient` | `GetVerifiedTimestamp`, concurrent calls with shared cache and counters | `HFTClientProofs` |
| `BatchCache` | `GetVerifiedTimestampForBatch` and its cache, around `HFTClient` | `HFTClientProofs` |
| `ParamFormat` | `parseWithDualFormatSupport` as a function of lengths | `RTTTrackerProofs` |
| `RecentSamples` | abstract: the last samples of each server, newest first | `RTTTrackerProofs` |
| `RTTTracker` | the rings of samples, the average, the order of servers | `RTTTrackerProofs` |
| `Discovery` | discovery with its background loop and `PeerSecurity` | `P2PProofs` |
| `Gossip` | gossip and P2P network on every node | `P2PProofs` |
| `Engine` | engine, state and elections as sequences of lock operations | `ConsensusProofs` |
| `Registry` | the servers of a node, their regions, selection by region | `TimeServiceProofs` |
| `Regions` | `RegionManager` | `TimeServiceProofs` |
| `TimeService` | `Registry`, `Regions` and the verification of timestamps | `TimeServiceProofs` |

`FastPath` and `BigBFT` extend `ThresholdSignature`; `BatchCache` extends
`HFTClient` and takes its steps; `TimeService` composes `Registry` and `Regions`. `BigBFT` sees of the fast
path only that it serves a proposal or does not. `RTTTracker` is shown to
implement `RecentSamples`.

How the state corresponds to the code:

* **FastPath.** A server's request is in one of the places "asked", "sending",
  "queued" and so on: the contents of both channels and the maps of the
  collector are the sets of servers in a place. `remaining` is
  `remainingServers`, which the code decrements at three places; the invariant
  `AccountingExact` relates it to those sets. The mutex is a variable with its
  holder. Stamps are clock values relative to the start of the call, bounded by
  `MaxElapsed`. `select` is a disjunction: with several cases ready any is
  taken. `requestSignature` is a stub in the code, so a server may answer, fail
  (those in `Failing`) or never do either.
* **BigBFT.** One action per stretch of code between taking and releasing
  `b.mu`. Every goroutine that `ProposeTimestamp` starts is a worker that
  sleeps until its time, may close the batch, enters it into the maps and
  broadcasts. `handleVote` does not ask who sends a vote: any of `Senders`,
  a validator or not, may vote for a batch at any time and again, and its later
  vote replaces the earlier one, so `valid`, the senders whose vote at hand
  carries a signature of their own, may shrink. `PublicKeys` are those the
  threshold signer has a key of. `SignerSet` says whether `thresholdSigs` is
  set: the constructor leaves it nil, and what is said of commits is said of a
  node that has one.
* **ViewChange.** A message in flight may be delivered at any time or never.
  Two requests of one node for one view are different messages, as they are in
  the code, where they have different times.
* **HFTClient.** `responseCh` is the set of servers that have responded and
  have not been read. The answers of the first loop are read, then verified
  one by one (`checked`), with steps of other calls in between. A signature is
  the pair of the server and the time it signs, or `Bad`. What a server sends
  is any of `Sent`: nothing ties the name and the signature in a timestamp to
  its time or to the server that was asked. `verifyCache` holds the last
  verdict by claimed name and signature, as in the code, where neither the time
  nor the server asked is in the key. A cached verdict may have expired by the
  time it is looked up, or not: both are possible at every look-up, which is
  what expiry and clean-up amount to for a cache without a clock, and also what
  two calls that miss at once amount to. The context may end at any moment. The
  options are chosen in `Init` and kept.
* **BatchCache.** A batch call is three steps: it looks into the cache, judges
  what it found after the lock was released (a hit, or a miss that begins a
  request of `HFTClient`), and stores the result. `entry` is what the two maps
  of the cache hold for a key, with its expiry on the clock `now`. A timestamp
  is named by the caller whose request it was the result of.
* **ParamFormat.** What is returned depends on the length of the data and on
  the number its first four bytes encode; lengths wrap at 2^32.
* **Engine.** A method is the sequence of its lock operations, of its accesses
  to fields of `State`, and of its calls into the network; a method that calls
  another contains its sequence. `sync.RWMutex` is modelled with the
  announcement of a writer, which holds off later readers: this is what makes a
  nested `RLock` dangerous. A view is below `2 * IntViews`, which stands for
  2^64, so `int(view)` is negative from `IntViews` on; division and remainder are Go's.
* **Registry.** A server is an object with an ID and an incarnation, which
  stands for its key. `GetServersByRegion` visits the servers one by one under
  `a.mu`; `SetRegion` takes no lock, so between the beginning and the end of an
  assignment a region is `Torn` and a reader may see anything. `ever` and
  `always` record what was in the wanted region during a selection. With an
  empty region `getServersByRTT` asks for all servers at once (`SelectAll`).
* **Regions.** As in the code; every method is one step.
* **TimeService.** A verification begins, looks the signer up and verifies, and
  the registry may change in between. `trusted` and `trustedThroughout` record
  whose key would have been used at some moment of the call and at every one.
  A request without signatures ends the process (`VerifyPanics`).
* **RTTTracker.** As in the code, slot by slot; the loop of `getAverageRTT` is a
  recursive function, `Sums`, as are the `Powers` of the decay factor, on exact
  fractions. The code computes in float64 and truncates: `AverageRTT` is the
  set of the values that can come of it if the quotient is less than a
  nanosecond off, which holds for round-trip times of up to weeks, and
  `average` is the one that did.
* **Discovery.** Time advances in intervals of the ticker; `Minute`,
  `StaleAfter` and `MsPerTick` relate it to the code's constants. `admitted` is
  a history of all admissions. The call of `RemovePeer` under the read lock,
  which can never be granted the write lock, is the state "stuck". `AddPeer` is
  public: it may be called before `Start` and after `Stop`.
* **Gossip.** A node listens if gossip was started before its network, as
  `P2PNetwork.Start` sets handlers only for what is registered by then.
  `handling` counts the goroutines between the release of the mutex and the
  handler. `handleStream` reads once: if the read fails or returns a part that
  does not decode, the copy is gone (`ReadFails`, at most `MaxLost` times), and
  `lost` records on which connection. Connections do not break otherwise, and a
  handler may fail on the nodes chosen in `Init`.

An operator whose name says what is wrong with it (`CannotReachTooEager`) is a
faulty version of the one that follows it. It is used nowhere: replacing the
right one by it must make TLC report the property named in `PROJECT.json`,
which shows that the property is not vacuous.

## 3. Runs

| Run | Instance | Shows |
|---|---|---|
| `fastpath_collect` | one caller, 4 servers of which 2 may fail, 2 signatures, one server whose signature does not verify, stamps 0..2, drift 1 | the safety of the collector in all orders of answers, failures, rejections and the deadline; the call returns |
| `bigbft` | 3 proposals, 2 validators and an outsider who may all vote well or badly, window 1, times 0..2 | batching, votes, commits; every proposal is started |
| `bigbft_commit` | 1 proposal, 4 validators, no signer | **violation**: the process ends at the vote that completes a quorum |
| `viewchange_adopt` | see the configuration | a view was asked for |
| `viewchange_quorum` | likewise | **violation**: one node's two messages pass for a majority |
| `hft_shared` | 2 calls for one batch key, of which one may be a direct request; 2 servers or none, of which one may send its signature with another time and the other what the first signed; quorum 1 or 2, progressive or not; entries expire, and are too old, after one tick | what results and errors mean with a shared cache that can be wrong; statistics; hits and misses; the calls and their goroutines end |
| `hft_background` | servers that all respond | **violation**: the background reader may stop at once |
| `rtt_tracker` | 3 servers, rings of 2, round-trip times 1 and 4, decay 4/5 | the ring implements the list of recent samples; the average; the order |
| `discovery` | see the configuration | admissions, no deadlock, `Stop` |
| `gossip` | a triangle and a node beyond it, one message, each node forgets at most once, at most two copies lost | handled once, delivered wherever no loss is in the way |
| `time_service` | 2 IDs, 3 servers of which two share the node's ID, 2 regions, one call of any kind, with a region or a signature or without | selections and verdicts while the registry changes; assignments |
| `engine` | 3 goroutines that call any method, 3 validators, views 0..7 of which half fit an int | races, panics, and which calls return |

Why the bounds are enough. The fast path needs a success, a failure, a
rejection and a server left over: four servers and two signatures are the
smallest with all of them, and twice as many servers as signatures is near the
deployed seven and five. Three proposals give a batch of two with two
goroutines and a second batch that is open when the late one wakes. Two
validators need two votes, so that a quorum that is one too small shows, and
the third sender's vote can complete one. A server that sends its signature
with another time, and one that sends what the other signed, give both kinds of
wrong verdict: a "valid" one for a time that was not signed, and an "invalid"
one for a timestamp that its own server would verify.
Two callers and two servers let one call use what the other cached, in either
cache, and let two misses for one key end in either order; with a quorum of one
of two servers an answer is left for the second loop or the background. With a
time to live of zero, an entry is found at the tick it was stored and can be
cleaned up at the next, so both sides of the boundary occur, and a timestamp of
time 1 is too old at tick 2 while one of time 2 is not. Three goroutines are a
reader, a writer that waits for it, and the reader that has to wait behind the
writer. Two servers with the node's own ID are needed for another key to take
its place, and a third to be missed by a selection; what one caller sees does
not depend on others except through the lock, and the proofs are for any
number of them. All bounds of `fastpath_collect` are for one caller: its safety
is proved for any number, and a caller that waits for the mutex gets it when
the holder, which returns, releases it. A ring of
two wraps around; that of any size does is proved. Three
servers are needed for transitivity. The gossip graph has a cycle, so that
copies meet, and a node that depends on forwarding; two losses are enough to
cut off any node or to leave it one path. The bounds `MaxTime`,
`MaxElapsed`, `MaxView`, `MaxAsks`, `MaxSent`, `MaxLost`, `MaxWipes` and `MaxNow` only cut off
behaviours; liveness properties that a bound could falsify say so (a proposal
that falls back so late that its window ends after `MaxTime` is not covered by
`EveryProposalStarts`).

Deadlock is not checked where calls are finitely many and the system comes to
rest, in `engine`, where `StartViewChange` never returns, and in
`time_service`, where a panic ends the process; `rtt_tracker` has it checked.

Fairness. Weak fairness of the steps of a goroutine that can run: the Go
scheduler runs it. Time passes and deadlines fire. No fairness is assumed of
servers, except in `hft_background`, whose question is what happens to answers
that do come. In `discovery`, strong fairness of the end of the loop: `select`
chooses at random among ready cases, so it does not prefer the tick for ever.
In `gossip`, a stream that was opened is read, or its read fails, and its goroutine runs. In
`engine`, a goroutine that is not blocked runs on and the network's own calls
return; a mutex is not fair to waiting writers beyond what their announcement
gives them, and with calls that are finitely many no more is needed.

## 4. Findings

1. `pbft.go:166`. The vote that completes a quorum calls `Aggregate` on
   `thresholdSigs`, which nothing sets. Comments promise the commit phase.
2. `view.go:80`. A quorum is counted in messages, not in senders.
3. `hft_client.go:259`. The goroutine that is to continue collecting in the
   background watches a context that the return of the call cancels.

Observations that no run is about: `handleVote` counts the votes of senders
that are no validators towards the quorum (`pbft.go:161`; `CommitSound` says
what remains true); the key of a cached verdict has no time
(`hft_client.go:378`), so a signature that verified once counts again with any
other time, and one that failed with a wrong time is refused with the right one
(`ResultSound` and `QuorumFailureJustified` say how far that goes); the average
round-trip time can be a nanosecond below every sample (line 528);
`handleStream` reads once and loses a message that arrives in parts
(`network.go:188`); a request without signatures panics in
`grpc_adapter.go:58`; `GetVerifiedTimestamp` lowers the quorum to
the number of servers (`hft_client.go:181`, against the comment in line 166),
and its second loop does not return once the quorum is reached (line 270,
against line 57); `ProposeTimestamp` assigns the fast path's timestamp to its
own parameter, so the caller does not get it (`pbft.go:82`); `LastSeen` is
never refreshed (`discovery.go:130`), so "haven't been seen recently" in line
217 means "added long ago"; `MaxPeersPerRegion` is not used; the gossip
clean-up forgets recent messages too (`gossip.go:148`); `ElectLeader` and
`GetLeaderForView` name different leaders for one view;
`ValidatorElection.StartViewChange` locks a mutex it holds (`election.go:47`),
and an `IsLeader` or `ProposeTimestamp` that comes after it waits for ever with
`le.mu` or `c.mu` in hand (`CallsReturn` is stated up to this);
`IsLeaderNode` reads a field that another mutex protects (`leader.go:77`); a
view from 2^63 on has a negative index (`leader.go:63`); `Server.Verify`
returns a new error and not `types.ErrInvalidSignature`, so a bad signature is
an RPC error and never the `Valid: false` of `grpc_adapter.go:66`, which the
adapter's test gets from a double; `TimestampService` verifies the node's own
timestamps only if the node is registered with itself, unlike the server's
fast path; of two batch calls that miss, the one to finish last stores, even
if its timestamp is the older one (`hft_client.go:330`);
`parseWithDualFormatSupport` compares lengths as uint32, so data of 4 GiB or
more may be called too short; fast-path calls that end in a
timeout, a drift error or by giving up can leave goroutines blocked on
`sigChan`.

## 5. Proofs

Each proof module extends its model. The argument is the usual one: an
inductive invariant, which holds initially, is kept by every action and implies
the property.

* **ThresholdSignatureProofs.** `AggregateExact`: what a successful `Aggregate`
  concatenates is exactly `threshold` valid signatures.
* **FastPathProofs.** The invariant states, per call, where each server's
  request is in relation to the counters and channels (`CallInv`). The counter
  alone is not inductive: a rejected answer is in neither channel when the loop
  continues, and is accounted for only because its error is in `errChan`. From
  the invariant: `CountersExact`, `CollectorNeverBlocksItself`,
  `GivingUpIsJustified`, `GivingUpIsPrompt`, `TimestampsSound`,
  `SuccessLeavesRoom`, which counts the answers that are still under way when a
  call succeeds as the servers less those already accepted, and
  `UnverifiedNeverServes`, that with the nil keys of `NewBigBFTConsensus` the
  fast path never returns a timestamp.
* **BigBFTProofs.** That a proposal is in one batch needs that batches
  anywhere (open, closing, started) have different identifiers, which needs
  that a batch that exists was created no later than now and that the window is
  positive, so a batch is not closed at the time of its creation. Then
  `ProposalsInOneBatch`, `VotesAreKept` (an action property), `CommitsAreSound`,
  for senders of any kind and number and votes that are replaced by others,
  and, for every number of validators, `QuorumsIntersect`.
* **ConsensusProofs.** View change: messages held or in flight were asked for;
  from that `ViewsAreAskedFor`. Engine: a table of what each step of each
  method does to the sections that hold `state.mu` (`StepsFit`), and an
  invariant, `Sections`, that ties the goroutines in these sections to the
  mutex: whoever is inside a writing section is the announced writer, the
  readers inside are as many as the mutex counts, and a writing section
  excludes every other. Mutual exclusion alone is not inductive: that a writer
  which has announced itself finds nobody when the count is zero needs the
  count to be exact. Then `OnlyLeaderRaces`, for any number of goroutines that
  call any of the methods; `IndexPanicsBeyondInt`, for any number of validators
  and any width of integers; and `StartViewChangeNeverReturns`.
* **HFTClientProofs.** All of it is about `BatchSpec`, requests and batch calls
  together, for servers that send anything. `ResultsAreSound` and
  `QuorumFailuresAreJustified` rest on `Sourced`: every "valid" in the cache
  which all calls share goes back to an answer with that name and signature
  that verified (`Vouched`), and every "invalid" to one that did not
  (`Spoiled`). This is kept although verdicts are overwritten, because the
  answers that calls have verified only become more (`Grows`, `ShownStays`).
  `Counted` then says of a call that each answer it counted is vouched for,
  that of each it turned down there was a reason, and that it holds the
  earliest; `Progress`, that it gives up only in its second loop and after the
  last answer. `BatchesAreSound` adds what the batch cache and the batch calls
  hold.
  `CountersAreExact` is an account of every counter by the set of the calls it
  counts; a step moves one call between such sets.
* **P2PProofs.** Discovery: the rate limit is not inductive by itself, because
  the list it counts is pruned at earlier times; the strengthening is that
  every admission of the last minute is still in the list.
  `AdmissionsAreLimited` is for every window, `LoopIsNeverStuck` for every
  `MinPeerScore` up to 0.7, because the score of a peer without drift is never
  less. Gossip: `MessagesHandledOnce` is for any network. What a node has
  handled is not inductive without what it is handling: a message that is
  forgotten between the test and the handler is let past the test again. The
  strengthening, `Budget`, counts both, and allows one for every time the node
  has forgotten and one more only while the message is remembered.
* **RTTTrackerProofs.** `RingKeepsRecent`: the ring implements `RecentSamples`
  under the mapping that reads it as `getAverageRTT` does. It needs that the
  slot written next is none of the newest `MaxSamples - 1`. `AveragesInRange`:
  after every pass of the loop one of the samples visited so far is at most,
  and one at least, the exact average of these; the weights are positive for
  any decay factor; what rounding and truncation leave of it is then at most a
  nanosecond below. `OrderIsConsistent` needs that averages are numbers, hence that
  the weights do not add up to zero. These are inductions over the length of
  the loop. They go through the least member of the set of counterexamples
  (`HasMin`, `InductiveSet`), a statement about sets, as the provers cannot use
  the library's principle of induction; that the recursive functions exist is
  proved the same way. ParamFormat: `SliceInside`, that the slice that is
  copied is within the data for data of any length, because the remainder of a
  length is at most the length and the sum does not wrap for a prefix that is
  plausible; `FramedIsUnframed`, that data framed with its length comes out
  again.
* **TimeServiceProofs.** `VerdictsAreRight` and `OwnTimestampsAreValid` rest on
  what is known of a call between its steps (`CallInv`): the server that was
  found is one of those trusted since the call began, and if some server was
  trusted all the time it is that one. A verdict alone is not inductive, as the
  registry may have changed since the look-up. `SelectionsAreExact` rests on
  `SelectInv`: what a loop has found was in the region at some time, and what
  stayed there is found or still to come; that holds because servers cannot be
  removed while the loop holds the lock (`LoopInside`, part of the type
  invariant). `AssignmentsExist` is inductive together with the types.

The assumptions are the named ASSUMEs of the models: that sets of callers,
servers, validators, nodes and goroutines are finite, that there is some time a
timestamp may have, that thresholds and times are natural numbers and windows
positive. TLC evaluates them in every run. Every inductive invariant was
checked by TLC on the instance of its run before it was proved.

Every invariant and every action property of the passing runs is stated by a
theorem. Only model-checked are the liveness properties (`Terminates`,
`EveryProposalStarts`, `StopCompletes`, `Delivered`, `CallsReturn`,
`LeaderReadsReturn`): liveness under fairness is beyond the prover.

## 6. Not modelled

Cryptography, JSON and libp2p are abstracted to what the code uses of them.
Float64 arithmetic is abstracted to an error of less than a nanosecond.
The generated gRPC code, configuration, logging, metrics, `main` and the test
doubles have no behaviour of their own to check. `src/api/rest/server.go` and
`src/api/grpc/server.go` listen and translate and keep no state.
`Consensus.handleMessage` is a TODO. Of the elections, the hash by which
`ElectLeader` chooses is left out, as any validator may come of it;
`GetValidatorForView` computes its index as `GetLeaderForView` does, without a
lock. The methods `GetStatus` only count. `VerifyAggregated` and
`DetectSybilAttack` keep no state and nothing calls them. `Discovery.Stop` is
called once, after `Start`.

`NetworkAdapter` cannot at present be given to `TimestampService` or the HFT
client, as its `Start` takes a context and that of `types.TimeNetwork` does
not; the models compose them as their interfaces intend.

## 7. Plan

Done, in this order: fast path, BigBFT, view change, HFT client, discovery,
gossip, round-trip times; then the batch cache, the engine with its locks,
registry, regions and the verification of timestamps, and parameter parsing.

Proved since: the client and its batch cache, gossip, the engine's locks, and
the average and order of round-trip times.

Next, by importance:

1. The composition of `BigBFT` with `FastPath` in place of the choice
   `FastPathServes`, and an abstract specification of a proposal's fate that
   both implement.
2. Proofs of what the liveness properties rest on, as far as it is safety: that
   a goroutine which waits for a mutex waits for one that can run.
