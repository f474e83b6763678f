----------------------------- MODULE RTTTracker -----------------------------
(***************************************************************************)
(* The round-trip times of core/client/hft_client.go: an rttTracker, which *)
(* is a ring of samples, for every server that has responded, the weighted *)
(* average it computes, and the order of servers by which getServersByRTT  *)
(* sorts.  updateServerRTT runs under rttLock and is one step.             *)
(*                                                                         *)
(* A tracker is created, empty, when its first sample is added: a server   *)
(* has one if it has a sample.  Identifiers of servers are ordered, so     *)
(* they are numbers here.                                                  *)
(*                                                                         *)
(* The average is computed in float64 and then truncated.  The rounding    *)
(* errors of its positive terms add up to less than a nanosecond (for      *)
(* round-trip times of days, too), but what is truncated may lie on either *)
(* side of an integer: equal samples can have an average one below them.   *)
(* The model allows every outcome that such an error explains.             *)
(***************************************************************************)
EXTENDS Integers, Sequences

CONSTANTS
  Servers,     \* the identifiers of the servers
  RTTs,        \* the round-trip times
  MaxSamples,  \* options.rttSampleSize
  DecayNum, DecayDen    \* options.rttDecayFactor is their quotient

ASSUME ServersAssumption == Servers \subseteq Nat
ASSUME SamplesAssumption == RTTs \subseteq Nat /\ MaxSamples \in Nat \ {0}
ASSUME DecayAssumption == DecayNum \in Nat \ {0} /\ DecayDen \in Nat \ {0}

VARIABLES
  samples, index, count,   \* the tracker of each server
  average                  \* what getAverageRTT returns for it, if it exists

vars == <<samples, index, count, average>>

Slots == 0 .. MaxSamples - 1

-----------------------------------------------------------------------------
(* An operator whose name says what is wrong with it is a faulty version   *)
(* of the definition that follows it, which the properties detect.         *)

(* The slot of the sample that i others came after.                        *)
SlotAhead(s, i) == LET k == index[s] - i IN IF k < 0 THEN k + MaxSamples ELSE k
Slot(s, i) == LET k == index[s] - i - 1 IN IF k < 0 THEN k + MaxSamples ELSE k

(* Where the sample after the one at i goes.                               *)
NextIndexUnwrapped(i) == i + 1
NextIndex(i) == (i + 1) % MaxSamples

(* How many samples the average is over.                                   *)
InAverageAll(s) == MaxSamples
InAverage(s) == count[s]

(* The powers of b, and the sums of the first members of a function on     *)
(* 0 .. n - 1.                                                             *)
Powers(b) == LET p[i \in Slots] == IF i = 0 THEN 1 ELSE p[i - 1] * b
             IN  p
Sums(f, n) == LET upTo[i \in 0 .. n] == IF i = 0 THEN 0 ELSE upTo[i - 1] + f[i - 1]
              IN  upTo

(* The weight of the i-th of n samples, decayFactor ^ i, over a common     *)
(* denominator, and what the average may be.  The quotient in float64 is   *)
(* less than one away from the exact one.                                  *)
Weight(i, n) == Powers(DecayNum)[i] * Powers(DecayDen)[n - 1 - i]
Total(s, value) ==
  LET n == InAverage(s)
  IN  Sums([i \in 0 .. n - 1 |-> value[i] * Weight(i, n)], n)[n]
AverageRTT(s) ==
  LET total == Total(s, [i \in Slots |-> samples[s][Slot(s, i)]])
      weights == Total(s, [i \in Slots |-> 1])
  IN  {q \in 0 .. total \div weights + 1 :
         q * weights < total + weights /\ total < (q + 2) * weights}

(* The comparison of getServersByRTT.                                      *)
Exists(s) == count[s] > 0
LessOrEqual(a, b) ==
  \/ Exists(a) /\ ~Exists(b)
  \/ ~Exists(a) /\ ~Exists(b) /\ a < b
  \/ Exists(a) /\ Exists(b) /\ average[a] <= average[b]
Less(a, b) ==
  \/ Exists(a) /\ ~Exists(b)
  \/ ~Exists(a) /\ ~Exists(b) /\ a < b
  \/ Exists(a) /\ Exists(b) /\ average[a] < average[b]

-----------------------------------------------------------------------------

Init ==
  /\ samples = [s \in Servers |-> [k \in Slots |-> 0]]
  /\ index = [s \in Servers |-> 0]
  /\ count = [s \in Servers |-> 0]
  /\ average = [s \in Servers |-> 0]

(* addSample of the tracker of s.                                          *)
AddSample(s, rtt) ==
  /\ samples' = [samples EXCEPT ![s][index[s]] = rtt]
  /\ index' = [index EXCEPT ![s] = NextIndex(@)]
  /\ count' = [count EXCEPT ![s] = IF @ < MaxSamples THEN @ + 1 ELSE @]

(* updateServerRTT creates the tracker if there is none.  From then on the *)
(* average is that of the samples as they are now.                         *)
UpdateServerRTT(s, rtt) ==
  /\ AddSample(s, rtt)
  /\ \E q \in AverageRTT(s)' : average' = [average EXCEPT ![s] = q]

Next == \E s \in Servers, rtt \in RTTs : UpdateServerRTT(s, rtt)

Spec == Init /\ [][Next]_vars

-----------------------------------------------------------------------------

(* The samples in the order getAverageRTT visits them.                     *)
Visited(s) == [i \in 1 .. count[s] |-> samples[s][Slot(s, i - 1)]]

Recent == INSTANCE RecentSamples WITH recent <- [s \in Servers |-> Visited(s)]

(* The type invariant.  The ring has its count of samples in front of      *)
(* index until it is full.                                                 *)
TypeOK ==
  /\ samples \in [Servers -> [Slots -> RTTs \cup {0}]]
  /\ index \in [Servers -> Slots]
  /\ count \in [Servers -> 0 .. MaxSamples]
  /\ \A s \in Servers : count[s] < MaxSamples => index[s] = count[s]
  /\ average \in [Servers -> Nat]

(* The ring implements what a tracker promises: getAverageRTT visits the   *)
(* last samples, newest first, also after it has wrapped around.           *)
KeepsRecent == Recent!Spec

(* The average of a server is at most the greatest of the samples it is    *)
(* over and at least the least of them but one nanosecond, which is what   *)
(* truncation may take from it: no unused slot of the ring takes part.     *)
AverageInRange ==
  \A s \in Servers : Exists(s) =>
    /\ \E i \in DOMAIN Visited(s) : Visited(s)[i] <= average[s] + 1
    /\ \E i \in DOMAIN Visited(s) : average[s] <= Visited(s)[i]

(* What sort.Slice requires of its argument, whichever servers have been   *)
(* measured: a strict order, in which being equivalent is transitive.      *)
OrderConsistent ==
  \A a, b, c \in Servers :
    /\ ~(Less(a, b) /\ Less(b, a))
    /\ Less(a, b) => Less(a, c) \/ Less(c, b)

=============================================================================
