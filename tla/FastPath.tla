------------------------------ MODULE FastPath ------------------------------
(***************************************************************************)
(* FastPathImpl.GetTimestamp of core/consensus/fastpath.go: under one      *)
(* mutex, a call starts a goroutine per nearest server and collects their  *)
(* signatures from a bounded channel until it has MinSignatures of them,   *)
(* too few can still arrive, two stamps drift apart or the context ends.   *)
(*                                                                         *)
(* Each member of Callers makes one call.  Times of a call are measured    *)
(* from the  now  it reads after it gets the mutex, so no global clock is  *)
(* needed.  The contents of errChan are discarded by the code, which       *)
(* leaves its length; sigChan is the set of the servers whose answer is    *)
(* "queued", for the goroutines may fill it in any order and so its order  *)
(* of arrival excludes no order of receipt.                                *)
(***************************************************************************)
EXTENDS Integers, FiniteSets, ThresholdSignature

CONSTANTS
  Callers,        \* the goroutines that call GetTimestamp
  NoCaller,       \* the holder of fp.mu when nobody holds it
  Servers,        \* fp.nearestServers
  Failing,        \* the servers whose requestSignature may return an error
                  \*   ({} for the stub of lines 37-41)
  Verified,       \* the servers whose signature thresholdSigs.Verify accepts
                  \*   ({} for the nil publicKeys of NewBigBFTConsensus)
  Threshold,      \* thresholdSigs.threshold
  MinSignatures, MaxLatency, MaxDrift,  \* fp.config
  MaxElapsed      \* the bound on the time of a call that is modelled

ASSUME CallersAssumption == NoCaller \notin Callers
ASSUME ServersAssumption ==
  Servers \subseteq Nat /\ IsFiniteSet(Servers) /\ Failing \subseteq Servers
ASSUME ThresholdAssumption == Verified \subseteq Servers /\ Threshold \in Nat
ASSUME ConfigAssumption ==
  /\ MinSignatures \in Nat \ {0}
  /\ MaxDrift \in Nat
  /\ MaxLatency \in Nat /\ MaxElapsed \in Nat
  /\ MaxLatency <= MaxElapsed

VARIABLES
  mu,                \* the caller that holds fp.mu
  pc,                \* where each call is
  elapsed,           \* the time since the call read  now
  cancelled,         \* the callers whose own context was cancelled
  answer,            \* where the answer of each server of each call is
  stamp,             \* the time.Now() of line 88
  errChan,           \* the number of errors in the call's errChan
  validSignatures, remainingServers,
  result             \* what the call returned

clock   == <<elapsed, cancelled>>
counts  == <<validSignatures, remainingServers>>
vars == <<mu, pc, clock, answer, stamp, errChan, counts, result>>

Time     == 0 .. MaxElapsed
PCs      == {"idle", "waiting", "select", "rejecting", "returned"}
Answers  == {"none", "asked", "sending", "queued", "rejecting",
             "accepted", "failed", "rejected", "dropped"}
Outcomes == {"none", "ok", "drift", "aggregate", "notenough", "timeout"}
Results  == [err : Outcomes, time : Time, signers : SUBSET Servers]

Error(kind) == [err |-> kind, time |-> 0, signers |-> {}]

-----------------------------------------------------------------------------
(* An operator whose name says what is wrong with it (TooSmall, OffByOne,  *)
(* Forgotten...) is a faulty version of the definition that follows it: a  *)
(* mistake the properties are shown to detect.                             *)

(* The servers of call c whose answer is in one of the given places.       *)
In(c, places) == {s \in Servers : answer[c][s] \in places}

Accepted(c) == In(c, {"accepted"})         \* the keys of  signatures
Queued(c)   == In(c, {"queued"})           \* what sigChan holds

(* The answers the collector has not taken a decision about.  "rejecting"  *)
(* is the one it holds while it writes to errChan.                         *)
Unresolved(c) == In(c, {"asked", "sending", "queued", "rejecting"})

(* The capacities of the two channels of a call.                           *)
SigCapTooSmall == MinSignatures - 1
SigCap == MinSignatures

ErrCapTooSmall == Cardinality(Servers) - 1
ErrCap == Cardinality(Servers)

(* The drift check of an answer against those accepted before it.          *)
Drifts(c, s) == \E a \in Accepted(c) :
                  \/ stamp[c][s] - stamp[c][a] > MaxDrift
                  \/ stamp[c][s] - stamp[c][a] < -MaxDrift

(* The check of a stamp against the caller's own clock.                    *)
TooFarInFutureOffByOne(t) == t > MaxDrift + 1
TooFarInFuture(t) == t > MaxDrift

(* The sufficiency test that follows an acceptance or an error.            *)
CannotReachTooEager(valid, remaining) == valid + remaining <= MinSignatures
CannotReachTooLate(valid, remaining) == valid + remaining + 1 < MinSignatures
CannotReach(valid, remaining) == valid + remaining < MinSignatures

(* What the collector subtracts for an answer it has taken a decision on.  *)
OneFewerForgotten(n) == n
OneFewer(n) == n - 1

(* sorted[len/2] of the stamps of a set of servers of call c.              *)
Median(c, S) ==
  LET half == Cardinality(S) \div 2
  IN  CHOOSE t \in {stamp[c][s] : s \in S} :
        /\ Cardinality({s \in S : stamp[c][s] < t}) <= half
        /\ Cardinality({s \in S : stamp[c][s] <= t}) > half

-----------------------------------------------------------------------------

Init ==
  /\ mu = NoCaller
  /\ pc = [c \in Callers |-> "idle"]
  /\ elapsed = [c \in Callers |-> 0]
  /\ cancelled = {}
  /\ answer = [c \in Callers |-> [s \in Servers |-> "none"]]
  /\ stamp = [c \in Callers |-> [s \in Servers |-> 0]]
  /\ errChan = [c \in Callers |-> 0]
  /\ validSignatures = [c \in Callers |-> 0]
  /\ remainingServers = [c \in Callers |-> 0]
  /\ result = [c \in Callers |-> Error("none")]

(* The call reaches fp.mu.Lock().                                          *)
Call(c) ==
  /\ pc[c] = "idle"
  /\ pc' = [pc EXCEPT ![c] = "waiting"]
  /\ UNCHANGED <<mu, clock, answer, stamp, errChan, counts, result>>

(* It gets the mutex, reads  now , makes the channels and starts a         *)
(* goroutine for every server.                                             *)
Lock(c) ==
  /\ pc[c] = "waiting"
  /\ mu = NoCaller
  /\ mu' = c
  /\ pc' = [pc EXCEPT ![c] = "select"]
  /\ answer' = [answer EXCEPT ![c] = [s \in Servers |-> "asked"]]
  /\ remainingServers' = [remainingServers EXCEPT ![c] = Cardinality(Servers)]
  /\ UNCHANGED <<clock, stamp, errChan, validSignatures, result>>

(* Leaving GetTimestamp runs the deferred Unlock.                          *)
Return(c, r) ==
  /\ pc' = [pc EXCEPT ![c] = "returned"]
  /\ mu' = NoCaller
  /\ result' = [result EXCEPT ![c] = r]

-----------------------------------------------------------------------------
(* The goroutine of server s.  Nothing stops it when the call returns.     *)

(* requestSignature returned a signature: the goroutine reads the clock,   *)
(* and only then tries to send.                                            *)
Answer(c, s) ==
  /\ answer[c][s] = "asked"
  /\ answer' = [answer EXCEPT ![c][s] = "sending"]
  /\ stamp' = [stamp EXCEPT ![c][s] = elapsed[c]]
  /\ UNCHANGED <<mu, pc, clock, errChan, counts, result>>

(* requestSignature returned an error, which is written to errChan.        *)
Fail(c, s) ==
  /\ s \in Failing
  /\ answer[c][s] = "asked"
  /\ errChan[c] < ErrCap
  /\ answer' = [answer EXCEPT ![c][s] = "failed"]
  /\ errChan' = [errChan EXCEPT ![c] = @ + 1]
  /\ UNCHANGED <<mu, pc, clock, stamp, counts, result>>

(* The send finds room in sigChan.                                         *)
Send(c, s) ==
  /\ answer[c][s] = "sending"
  /\ Cardinality(Queued(c)) < SigCap
  /\ answer' = [answer EXCEPT ![c][s] = "queued"]
  /\ UNCHANGED <<mu, pc, clock, stamp, errChan, counts, result>>

-----------------------------------------------------------------------------
(* The collector: the branches of the select.                              *)

(* An answer drifts from an accepted one: the whole call fails.            *)
ReceiveDrifting(c, s) ==
  /\ pc[c] = "select" /\ s \in Queued(c)
  /\ Drifts(c, s)
  /\ answer' = [answer EXCEPT ![c][s] = "dropped"]
  /\ remainingServers' = [remainingServers EXCEPT ![c] = OneFewer(@)]
  /\ Return(c, Error("drift"))
  /\ UNCHANGED <<clock, stamp, errChan, validSignatures>>

(* An answer from the future: the collector goes on to write to errChan    *)
(* itself, the mutex still held.                                           *)
ReceiveFuture(c, s) ==
  /\ pc[c] = "select" /\ s \in Queued(c)
  /\ ~Drifts(c, s) /\ TooFarInFuture(stamp[c][s])
  /\ pc' = [pc EXCEPT ![c] = "rejecting"]
  /\ answer' = [answer EXCEPT ![c][s] = "rejecting"]
  /\ UNCHANGED <<mu, clock, stamp, errChan, counts, result>>

(* The write of the collector to errChan, when there is room.              *)
Reject(c, s) ==
  /\ pc[c] = "rejecting" /\ answer[c][s] = "rejecting"
  /\ errChan[c] < ErrCap
  /\ pc' = [pc EXCEPT ![c] = "select"]
  /\ answer' = [answer EXCEPT ![c][s] = "rejected"]
  /\ errChan' = [errChan EXCEPT ![c] = @ + 1]
  /\ UNCHANGED <<mu, clock, stamp, counts, result>>

(* What is returned once MinSignatures servers, S, have been accepted.     *)
Conclude(c, S) ==
  IF AggregateSucceeds(S, Verified, Threshold)
  THEN [err |-> "ok", time |-> Median(c, S),
        signers |-> Aggregate(S, Verified, Threshold)]
  ELSE Error("aggregate")

(* An answer passes both checks and is counted.                            *)
Receive(c, s) ==
  /\ pc[c] = "select" /\ s \in Queued(c)
  /\ ~Drifts(c, s) /\ ~TooFarInFuture(stamp[c][s])
  /\ answer' = [answer EXCEPT ![c][s] = "accepted"]
  /\ validSignatures' = [validSignatures EXCEPT ![c] = @ + 1]
  /\ remainingServers' = [remainingServers EXCEPT ![c] = OneFewer(@)]
  /\ \/ /\ validSignatures'[c] >= MinSignatures
        /\ Return(c, Conclude(c, Accepted(c) \cup {s}))
     \/ /\ validSignatures'[c] < MinSignatures
        /\ CannotReach(validSignatures'[c], remainingServers'[c])
        /\ Return(c, Error("notenough"))
     \/ /\ validSignatures'[c] < MinSignatures
        /\ ~CannotReach(validSignatures'[c], remainingServers'[c])
        /\ UNCHANGED <<mu, pc, result>>
  /\ UNCHANGED <<clock, stamp, errChan>>

(* An error arrives.                                                       *)
HasErrorUnguarded(c) == errChan[c] >= 0
HasError(c) == errChan[c] > 0

ReceiveError(c) ==
  /\ pc[c] = "select" /\ HasError(c)
  /\ errChan' = [errChan EXCEPT ![c] = @ - 1]
  /\ remainingServers' = [remainingServers EXCEPT ![c] = OneFewer(@)]
  /\ \/ /\ CannotReach(validSignatures[c], remainingServers'[c])
        /\ Return(c, Error("notenough"))
     \/ /\ ~CannotReach(validSignatures[c], remainingServers'[c])
        /\ UNCHANGED <<mu, pc, result>>
  /\ UNCHANGED <<clock, answer, stamp, validSignatures>>

(* The context is done: MaxLatency has passed, or the caller's own         *)
(* context was cancelled.                                                  *)
DoneParentOnly(c) == c \in cancelled
Done(c) == elapsed[c] >= MaxLatency \/ c \in cancelled

Timeout(c) ==
  /\ pc[c] = "select" /\ Done(c)
  /\ Return(c, Error("timeout"))
  /\ UNCHANGED <<clock, answer, stamp, errChan, counts>>

-----------------------------------------------------------------------------
(* The environment.                                                        *)

(* Whoever called cancels the context it passed.                           *)
Cancel(c) ==
  /\ pc[c] \in {"waiting", "select", "rejecting"} /\ c \notin cancelled
  /\ cancelled' = cancelled \cup {c}
  /\ UNCHANGED <<mu, pc, elapsed, answer, stamp, errChan, counts, result>>

(* Time passes since the  now  of call c, after its return as well.        *)
Tick(c) ==
  /\ pc[c] \in {"select", "rejecting", "returned"} /\ elapsed[c] < MaxElapsed
  /\ elapsed' = [elapsed EXCEPT ![c] = @ + 1]
  /\ UNCHANGED <<mu, pc, cancelled, answer, stamp, errChan, counts, result>>

Collect(c) ==
  \/ \E s \in Servers : \/ ReceiveDrifting(c, s) \/ ReceiveFuture(c, s)
                        \/ Reject(c, s) \/ Receive(c, s)
  \/ ReceiveError(c)
  \/ Timeout(c)

Goroutine(c, s) == Answer(c, s) \/ Fail(c, s) \/ Send(c, s)

Next ==
  \E c \in Callers :
    \/ Call(c) \/ Lock(c) \/ Collect(c) \/ Cancel(c) \/ Tick(c)
    \/ \E s \in Servers : Goroutine(c, s)

(* A runnable goroutine is scheduled and time passes.  Callers call once,  *)
(* so weak fairness of Lock needs nothing from the order in which          *)
(* sync.RWMutex serves those who wait.  No server has to answer.           *)
Fairness ==
  \A c \in Callers : WF_vars(Lock(c)) /\ WF_vars(Collect(c)) /\ WF_vars(Tick(c))

Spec == Init /\ [][Next]_vars /\ Fairness

-----------------------------------------------------------------------------

(* The type invariant.                                                     *)
TypeOK ==
  /\ mu \in Callers \cup {NoCaller}
  /\ pc \in [Callers -> PCs]
  /\ elapsed \in [Callers -> Time]
  /\ cancelled \subseteq Callers
  /\ answer \in [Callers -> [Servers -> Answers]]
  /\ stamp \in [Callers -> [Servers -> Time]]
  /\ errChan \in [Callers -> Nat]
  /\ validSignatures \in [Callers -> Nat]
  /\ remainingServers \in [Callers -> Int]
  /\ result \in [Callers -> Results]

(* The two counters of the collector are exact while it runs and after:    *)
(* remainingServers is the number of servers it has not decided about plus *)
(* the errors it has not read, whatever mixture of failures, rejected      *)
(* answers (decremented later, through errChan) and acceptances occurred.  *)
AccountingExact ==
  \A c \in Callers : pc[c] \in {"select", "rejecting", "returned"} =>
    /\ validSignatures[c] = Cardinality(Accepted(c))
    /\ pc[c] # "returned" =>
         remainingServers[c] = Cardinality(Unresolved(c)) + errChan[c]

(* The collector writes to errChan with the mutex held and nobody else     *)
(* reading: there is always room, so it cannot block itself, and with it   *)
(* every later call, for ever (line 112).                                  *)
RejectNeverBlocks ==
  \A c \in Callers : pc[c] = "rejecting" => errChan[c] < ErrCap

(* "not enough valid signatures available" is only returned when it is     *)
(* true: even if every server yet to answer did, the accepted would be     *)
(* fewer than MinSignatures.                                               *)
GiveUpIsFinal ==
  \A c \in Callers : result[c].err = "notenough" =>
    Cardinality(Accepted(c)) + Cardinality(Unresolved(c)) < MinSignatures

(* Conversely, once the collector has decided about one answer it waits    *)
(* for more only while MinSignatures can still be reached: a hopeless call *)
(* does not hold the mutex until its timeout.                              *)
GivesUpAtOnce ==
  \A c \in Callers :
    LET open == Cardinality(Unresolved(c)) + errChan[c]
    IN  pc[c] = "select" /\ open < Cardinality(Servers) =>
          Cardinality(Accepted(c)) + open >= MinSignatures

(* What a returned timestamp owes to the stamps and signatures it was made *)
(* of: it is the median of exactly MinSignatures stamps that lie pairwise, *)
(* and with the caller's clock, within MaxDrift.                           *)
TimeSound(c) ==
  LET S == Accepted(c)
      Below == {s \in S : stamp[c][s] < result[c].time}
      Above == {s \in S : stamp[c][s] > result[c].time}
  IN  /\ Cardinality(S) = MinSignatures
      /\ \A s, t \in S : stamp[c][s] - stamp[c][t] <= MaxDrift
      /\ \A s \in S : stamp[c][s] <= MaxDrift
      /\ \E s \in S : stamp[c][s] = result[c].time
      /\ 2 * Cardinality(Below) <= MinSignatures
      /\ 2 * Cardinality(Above) < MinSignatures

(* It is signed by exactly Threshold of the accepted servers, all verified. *)
SignersSound(c) ==
  /\ result[c].signers \subseteq Accepted(c) \cap Verified
  /\ Cardinality(result[c].signers) = Threshold

(* No interleaving of answers, failures, rejections and ticks makes        *)
(* GetTimestamp return a timestamp that is not sound in both respects.     *)
ResultSound ==
  \A c \in Callers : result[c].err = "ok" => TimeSound(c) /\ SignersSound(c)

(* With no server whose signature verifies, which is how                   *)
(* NewBigBFTConsensus wires the fast path (nil publicKeys, threshold 5),   *)
(* no interleaving ends in a timestamp: every proposal falls back.         *)
NeverServesUnverified ==
  Verified = {} /\ Threshold > 0 => \A c \in Callers : result[c].err # "ok"

(* After a success the channel still has room for every answer under way,  *)
(* so no goroutine is left blocked on sigChan.  It needs the deployment's  *)
(* proportion, at most twice as many servers as signatures (7 and 5).      *)
NoLeakOnSuccess ==
  Cardinality(Servers) <= 2 * MinSignatures =>
    \A c \in Callers : result[c].err = "ok" =>
      Cardinality(In(c, {"asked", "sending", "queued"})) <= SigCap

(* A call that waits for the mutex returns, whether or not the servers     *)
(* answer: the one that holds it always gets past its select.              *)
Terminates == \A c \in Callers : pc[c] = "waiting" ~> pc[c] = "returned"

=============================================================================
