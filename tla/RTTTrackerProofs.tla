-------------------------- MODULE RTTTrackerProofs --------------------------
(***************************************************************************)
(* Proofs about the round-trip times, for any servers, samples, size of    *)
(* the ring and decay factor: the rings of RTTTracker implement            *)
(* RecentSamples, the average lies between two of the samples it is over   *)
(* but for its rounding, and the comparison by averages is a strict weak order.  And about       *)
(* ParamFormat: the slice of the prefixed format is inside of the data.    *)
(*                                                                         *)
(* The least member of a set of naturals, on which induction rests here,   *)
(* comes from ThresholdSignatureProofs.                                    *)
(***************************************************************************)
EXTENDS RTTTracker, ParamFormat, ThresholdSignatureProofs, SequenceTheorems,
        TLAPS

(* The next index, without the remainder.                                  *)
LEMMA NextIndexIs ==
  ASSUME NEW i \in Slots
  PROVE  NextIndex(i) = IF i + 1 = MaxSamples THEN 0 ELSE i + 1
<1>1. i \in Nat /\ i + 1 <= MaxSamples /\ MaxSamples \in Nat \ {0}
  BY SamplesAssumption DEF Slots
<1>2. CASE i + 1 = MaxSamples
  BY <1>1, <1>2 DEF NextIndex
<1>3. CASE i + 1 < MaxSamples
  BY <1>1, <1>3 DEF NextIndex
<1> QED
  BY <1>1, <1>2, <1>3

(* What a step does to the tracker of its server.                          *)
LEMMA TypeStep ==
  ASSUME TypeOK, NEW s \in Servers, NEW rtt \in RTTs, UpdateServerRTT(s, rtt)
  PROVE  TypeOK'
<1> USE SamplesAssumption
<1>1. index[s] \in Slots /\ count[s] \in 0 .. MaxSamples
  BY DEF TypeOK
<1>2. index'[s] = IF index[s] + 1 = MaxSamples THEN 0 ELSE index[s] + 1
  BY <1>1, NextIndexIs DEF TypeOK, UpdateServerRTT, AddSample
<1>3. samples' \in [Servers -> [Slots -> RTTs \cup {0}]]
  BY <1>1 DEF TypeOK, UpdateServerRTT, AddSample
<1>4. index' \in [Servers -> Slots]
  <2>1. NextIndex(index[s]) \in Slots
    BY <1>1, NextIndexIs DEF Slots
  <2> QED
    BY <2>1 DEF TypeOK, UpdateServerRTT, AddSample
<1>5. count' \in [Servers -> 0 .. MaxSamples]
  BY <1>1 DEF TypeOK, UpdateServerRTT, AddSample
<1>6. ASSUME NEW t \in Servers, count'[t] < MaxSamples
      PROVE  index'[t] = count'[t]
  <2>1. CASE t = s
    BY <1>1, <1>2, <1>6, <2>1 DEF TypeOK, UpdateServerRTT, AddSample, Slots
  <2>2. CASE t # s
    BY <1>6, <2>2 DEF TypeOK, UpdateServerRTT, AddSample
  <2> QED
    BY <2>1, <2>2
<1>7. average' \in [Servers -> Nat]
  BY DEF TypeOK, UpdateServerRTT, AverageRTT
<1> QED
  BY <1>3, <1>4, <1>5, <1>6, <1>7 DEF TypeOK

(* A ring of count samples has them in different slots, none of which but  *)
(* the oldest one of a full ring is the one written next.                  *)
LEMMA SlotFacts ==
  ASSUME TypeOK, NEW s \in Servers, NEW i \in 0 .. MaxSamples - 2
  PROVE  Slot(s, i) \in Slots /\ Slot(s, i) # index[s]
BY SamplesAssumption DEF TypeOK, Slot, Slots

(* The sequence of the server that has a new sample.                       *)
LEMMA VisitedStep ==
  ASSUME TypeOK, NEW s \in Servers, NEW rtt \in RTTs, UpdateServerRTT(s, rtt)
  PROVE  Visited(s)' = Recent!Push(rtt, Visited(s))
<1> USE SamplesAssumption
<1>1. index[s] \in Slots /\ count[s] \in 0 .. MaxSamples
  BY DEF TypeOK
<1>2. index'[s] = IF index[s] + 1 = MaxSamples THEN 0 ELSE index[s] + 1
  BY <1>1, NextIndexIs DEF TypeOK, UpdateServerRTT, AddSample
<1>3. Len(Visited(s)) = count[s]
  BY <1>1 DEF Visited
<1>4. count'[s] = Recent!Kept(Len(Visited(s)))
  BY <1>1, <1>3 DEF TypeOK, UpdateServerRTT, AddSample, Recent!Kept
<1>5. ASSUME NEW i \in 1 .. count'[s]
      PROVE  samples'[s][Slot(s, i - 1)'] = IF i = 1 THEN rtt ELSE Visited(s)[i - 1]
  <2>0. i \in Int /\ i >= 1 /\ i <= MaxSamples /\ i - 1 <= count[s]
    BY <1>1, <1>5 DEF TypeOK, UpdateServerRTT, AddSample
  <2>1. CASE i = 1
    <3>1. Slot(s, i - 1)' = index[s]
      BY <1>1, <1>2, <2>1 DEF Slot, Slots
    <3> QED
      BY <1>1, <2>1, <3>1 DEF TypeOK, UpdateServerRTT, AddSample
  <2>2. CASE i # 1
    <3>1. i - 2 \in 0 .. MaxSamples - 2 /\ i - 1 \in 1 .. count[s]
      BY <1>1, <2>0, <2>2
    <3>2. Slot(s, i - 1)' = Slot(s, i - 2)
      BY <1>1, <1>2, <2>0, <2>2 DEF Slot, Slots
    <3>3. Slot(s, i - 2) \in Slots /\ Slot(s, i - 2) # index[s]
      BY <3>1, SlotFacts
    <3>4. samples'[s][Slot(s, i - 2)] = samples[s][Slot(s, i - 2)]
      BY <1>1, <3>3 DEF TypeOK, UpdateServerRTT, AddSample
    <3>5. Visited(s)[i - 1] = samples[s][Slot(s, (i - 1) - 1)]
      BY <3>1 DEF Visited
    <3>6. (i - 1) - 1 = i - 2
      BY <2>0
    <3> QED
      BY <2>2, <3>2, <3>4, <3>5, <3>6
  <2> QED
    BY <2>1, <2>2
<1> QED
  BY <1>4, <1>5 DEF Visited, Recent!Push

(* The state keeps its type and the ring its shape.                        *)
THEOREM TypeCorrect == Spec => []TypeOK
<1>1. Init => TypeOK
  BY SamplesAssumption DEF Init, TypeOK, Slots
<1>2. TypeOK /\ [Next]_vars => TypeOK'
  <2>1. TypeOK /\ UNCHANGED vars => TypeOK'
    BY DEF vars, TypeOK
  <2> QED
    BY <2>1, TypeStep DEF Next
<1> QED
  BY <1>1, <1>2, PTL DEF Spec

(* The ring with its wrapping index implements the sequence of the last    *)
(* MaxSamples round-trip times, newest first.                              *)
THEOREM RingKeepsRecent == Spec => KeepsRecent
<1> DEFINE R == [s \in Servers |-> Visited(s)]
<1>1. Init => Recent!Init
  <2> SUFFICES ASSUME Init PROVE R = [s \in Servers |-> <<>>]
    BY DEF Recent!Init
  <2>1. ASSUME NEW s \in Servers
        PROVE  Visited(s) = <<>>
    <3>1. DOMAIN Visited(s) = 1 .. 0 /\ Visited(s) = [i \in 1 .. 0 |-> Visited(s)[i]]
      BY DEF Init, Visited
    <3>2. Visited(s) \in Seq({}) /\ Len(Visited(s)) = 0
      BY <3>1
    <3> QED
      BY <3>2, EmptySeq
  <2> QED
    BY <2>1
<1>2. TypeOK /\ [Next]_vars => [Recent!Next]_R
  <2>1. ASSUME TypeOK, NEW s \in Servers, NEW rtt \in RTTs, UpdateServerRTT(s, rtt)
        PROVE  R' = [R EXCEPT ![s] = Recent!Push(rtt, @)]
    <3>1. \A t \in Servers \ {s} : Visited(t)' = Visited(t)
      BY <2>1 DEF TypeOK, UpdateServerRTT, AddSample, Visited, Slot
    <3>2. Visited(s)' = Recent!Push(rtt, Visited(s))
      BY <2>1, VisitedStep
    <3> QED
      BY <3>1, <3>2
  <2>2. UNCHANGED vars => R' = R
    BY DEF vars, Visited, Slot
  <2> QED
    BY <2>1, <2>2 DEF Next, Recent!Next, Recent!Add
<1> QED
  BY <1>1, <1>2, TypeCorrect, PTL DEF Spec, KeepsRecent, Recent!Spec

-----------------------------------------------------------------------------

(* Division leaves a remainder no greater than what is divided, and what   *)
(* is smaller than the divisor as it is.                                   *)
LEMMA Remainder ==
  ASSUME NEW n \in Nat, NEW w \in Nat, w > 0
  PROVE  n % w \in Nat /\ n % w <= n /\ (n < w => n % w = n)
BY SMT

(* The modulus of uint32.                                                  *)
LEMMA Uint32Positive == Uint32 \in Nat /\ Uint32 > 0
BY SMT DEF Uint32

(* uint32 arithmetic does not wrap for a prefix that is taken for a length.*)
LEMMA NoWrap ==
  ASSUME NEW p \in Nat, Plausible(p)
  PROVE  (4 + p) % Uint32 = 4 + p
<1>1. 4 + p < Uint32
  BY SMT DEF Plausible, maxLengthPrefixValue, Uint32
<1>2. 4 + p \in Nat
  OBVIOUS
<1> QED BY <1>1, <1>2, Remainder, Uint32Positive

(* The slice of the prefixed format is inside the data, for data of any    *)
(* length, longer than a uint32 can count included: the copy of lines      *)
(* 732-733 never panics.                                                   *)
THEOREM SliceInside ==
  ASSUME NEW n \in Nat, NEW p \in Nat, Parse(n, p) = "prefixed"
  PROVE  4 + p <= n
<1>1. Plausible(p) /\ ~TooShort(n, p)
  BY DEF Parse
<1>2. ~(n % Uint32 < 4 + p)
  BY <1>1, NoWrap DEF TooShort
<1>3. n % Uint32 \in Nat /\ n % Uint32 <= n
  BY Remainder, Uint32Positive
<1> QED BY <1>2, <1>3

(* What was framed with its length is taken apart again: p bytes behind    *)
(* their length are parsed as those p bytes, up to the limit.              *)
THEOREM FramedIsUnframed ==
  ASSUME NEW p \in Nat, Plausible(p)
  PROVE  Parse(4 + p, p) = "prefixed"
<1>1. ~TooShort(4 + p, p)
  BY NoWrap DEF TooShort
<1>2. 4 + p # 0 /\ ~(4 + p < 4)
  OBVIOUS
<1> QED BY <1>1, <1>2 DEF Parse


-----------------------------------------------------------------------------
(* The average.  What the recursive functions compute needs induction,     *)
(* for which the least member of the set of counterexamples serves.        *)

(* Induction, for sets.                                                    *)
LEMMA InductiveSet ==
  ASSUME NEW S, 0 \in S, \A k \in Nat : k \in S => k + 1 \in S
  PROVE  \A k \in Nat : k \in S
<1> DEFINE Bad == Nat \ S
<1>1. SUFFICES ASSUME Bad # {} PROVE FALSE
  OBVIOUS
<1>2. Bad \subseteq Nat
  OBVIOUS
<1>3. PICK m \in Bad : \A t \in Bad : m <= t
  <2> HIDE DEF Bad
  <2> QED
    BY <1>1, <1>2, HasMin
<1>4. m # 0 /\ m - 1 \in Nat /\ ~(m <= m - 1)
  <2>1. m \in Nat /\ m # 0
    OBVIOUS
  <2> QED
    BY <2>1
<1>5. m - 1 \in S
  BY <1>3, <1>4
<1>6. (m - 1) + 1 = m
  OBVIOUS
<1> QED
  BY <1>4, <1>5, <1>6

(* The sums exist, and satisfy their equation.                             *)
LEMMA SumsDef ==
  ASSUME NEW n \in Nat, NEW f
  PROVE  Sums(f, n) = [i \in 0 .. n |-> IF i = 0 THEN 0
                                        ELSE Sums(f, n)[i - 1] + f[i - 1]]
<1> DEFINE IsSums(g, k) ==
             g = [i \in 0 .. k |-> IF i = 0 THEN 0 ELSE g[i - 1] + f[i - 1]]
           S == {k \in Nat : \E g : IsSums(g, k)}
<1>1. 0 \in S
  <2> DEFINE g == [i \in 0 .. 0 |-> 0]
  <2>1. IsSums(g, 0)
    OBVIOUS
  <2> QED
    BY <2>1
<1>2. ASSUME NEW k \in Nat, k \in S
      PROVE  k + 1 \in S
  <2>1. PICK g : IsSums(g, k)
    BY <1>2
  <2> DEFINE h == [i \in 0 .. k + 1 |-> IF i = k + 1 THEN g[k] + f[k] ELSE g[i]]
             r == [i \in 0 .. k + 1 |-> IF i = 0 THEN 0 ELSE h[i - 1] + f[i - 1]]
  <2>2. ASSUME NEW i \in 0 .. k + 1
        PROVE  h[i] = r[i]
    <3>1. CASE i = 0
      BY <2>1, <3>1
    <3>2. CASE i = k + 1
      BY <2>1, <3>2
    <3>3. CASE i # 0 /\ i # k + 1
      <4>1. i \in 1 .. k /\ i - 1 \in 0 .. k
        BY <3>3
      <4>2. h[i] = g[i] /\ h[i - 1] = g[i - 1] /\ r[i] = h[i - 1] + f[i - 1]
        BY <4>1
      <4>3. g[i] = g[i - 1] + f[i - 1]
        BY <2>1, <4>1
      <4> QED
        BY <4>2, <4>3
    <3> QED
      BY <3>1, <3>2, <3>3
  <2>3. h = r
    BY <2>2
  <2>4. IsSums(h, k + 1)
    BY <2>3
  <2> HIDE DEF IsSums, h
  <2> QED
    BY <2>4
<1>3. \E g : IsSums(g, n)
  <2> HIDE DEF IsSums
  <2>1. \A k \in Nat : k \in S
    <3> HIDE DEF S
    <3> QED
      BY <1>1, <1>2, InductiveSet
  <2> QED
    BY <2>1
<1>4. Sums(f, n) = CHOOSE g : IsSums(g, n)
  BY DEF Sums
<1> QED
  BY <1>3, <1>4


(* So do the powers.                                                       *)
LEMMA PowersDef ==
  ASSUME NEW b
  PROVE  Powers(b) = [i \in Slots |-> IF i = 0 THEN 1 ELSE Powers(b)[i - 1] * b]
<1> DEFINE ArePowers(p, k) ==
             p = [i \in 0 .. k |-> IF i = 0 THEN 1 ELSE p[i - 1] * b]
           S == {k \in Nat : \E p : ArePowers(p, k)}
<1>1. 0 \in S
  <2> DEFINE p == [i \in 0 .. 0 |-> 1]
  <2>1. ArePowers(p, 0)
    OBVIOUS
  <2> QED
    BY <2>1
<1>2. ASSUME NEW k \in Nat, k \in S
      PROVE  k + 1 \in S
  <2>1. PICK p : ArePowers(p, k)
    BY <1>2
  <2> DEFINE h == [i \in 0 .. k + 1 |-> IF i = k + 1 THEN p[k] * b ELSE p[i]]
             r == [i \in 0 .. k + 1 |-> IF i = 0 THEN 1 ELSE h[i - 1] * b]
  <2>2. ASSUME NEW i \in 0 .. k + 1
        PROVE  h[i] = r[i]
    <3>1. CASE i = 0
      BY <2>1, <3>1
    <3>2. CASE i = k + 1
      BY <2>1, <3>2
    <3>3. CASE i # 0 /\ i # k + 1
      <4>1. i \in 1 .. k /\ i - 1 \in 0 .. k
        BY <3>3
      <4>2. h[i] = p[i] /\ h[i - 1] = p[i - 1] /\ r[i] = h[i - 1] * b
        BY <4>1
      <4>3. p[i] = p[i - 1] * b
        BY <2>1, <4>1
      <4> QED
        BY <4>2, <4>3
    <3> QED
      BY <3>1, <3>2, <3>3
  <2>3. h = r
    BY <2>2
  <2>4. ArePowers(h, k + 1)
    BY <2>3
  <2> HIDE DEF ArePowers, h
  <2> QED
    BY <2>4
<1>3. \E p : ArePowers(p, MaxSamples - 1)
  <2> HIDE DEF ArePowers
  <2>1. \A k \in Nat : k \in S
    <3> HIDE DEF S
    <3> QED
      BY <1>1, <1>2, InductiveSet
  <2>2. MaxSamples - 1 \in Nat
    BY SamplesAssumption
  <2> QED
    BY <2>1, <2>2
<1>4. Powers(b) = CHOOSE p : ArePowers(p, MaxSamples - 1)
  BY DEF Powers, Slots
<1> QED
  BY <1>3, <1>4 DEF Slots

(* Used for weights, which are products.                                   *)
LEMMA ProductPositive ==
  ASSUME NEW a \in Nat \ {0}, NEW b \in Nat \ {0}
  PROVE  a * b \in Nat \ {0}
OBVIOUS

(* The powers, one by one.                                                 *)
LEMMA PowersAt ==
  ASSUME NEW b
  PROVE  /\ Powers(b)[0] = 1
         /\ \A i \in Slots \ {0} : Powers(b)[i] = Powers(b)[i - 1] * b
<1> DEFINE P == Powers(b)
<1>1. P = [i \in Slots |-> IF i = 0 THEN 1 ELSE P[i - 1] * b]
  BY PowersDef
<1> HIDE DEF P
<1>2. 0 \in Slots
  BY SamplesAssumption DEF Slots
<1>3. P[0] = 1 /\ \A i \in Slots \ {0} : P[i] = P[i - 1] * b
  BY <1>1, <1>2
<1> QED
  BY <1>3 DEF P

(* The powers of a positive number are positive.                           *)
LEMMA PowersPositive ==
  ASSUME NEW b \in Nat \ {0}, NEW i \in Slots
  PROVE  Powers(b)[i] \in Nat \ {0}
<1> DEFINE S == {k \in Nat : k \in Slots => Powers(b)[k] \in Nat \ {0}}
<1>1. 0 \in S
  BY PowersAt
<1>2. ASSUME NEW k \in Nat, k \in S
      PROVE  k + 1 \in S
  <2> SUFFICES ASSUME k + 1 \in Slots
               PROVE  Powers(b)[k + 1] \in Nat \ {0}
    OBVIOUS
  <2>1. k \in Slots
    BY SamplesAssumption DEF Slots
  <2>2. Powers(b)[k + 1] = Powers(b)[k] * b
    <3>1. (k + 1) - 1 = k /\ k + 1 \in Slots \ {0}
      OBVIOUS
    <3> QED
      BY <3>1, PowersAt
  <2>3. Powers(b)[k] \in Nat \ {0}
    BY <1>2, <2>1
  <2> QED
    BY <2>2, <2>3, ProductPositive
<1>3. \A k \in Nat : k \in S
  <2> HIDE DEF S
  <2> QED
    BY <1>1, <1>2, InductiveSet
<1> QED
  BY <1>3 DEF Slots

(* Every sample of the average has a weight.                               *)
LEMMA WeightPositive ==
  ASSUME NEW n \in 1 .. MaxSamples, NEW i \in 0 .. n - 1
  PROVE  Weight(i, n) \in Nat \ {0}
<1>1. i \in Slots /\ n - 1 - i \in Slots
  BY SamplesAssumption DEF Slots
<1> QED
  BY <1>1, PowersPositive, ProductPositive, DecayAssumption DEF Weight


(* The sums, one by one.                                                   *)
LEMMA SumsAt ==
  ASSUME NEW n \in Nat, NEW f
  PROVE  /\ Sums(f, n)[0] = 0
         /\ \A i \in 1 .. n : Sums(f, n)[i] = Sums(f, n)[i - 1] + f[i - 1]
<1> DEFINE U == Sums(f, n)
<1>1. U = [i \in 0 .. n |-> IF i = 0 THEN 0 ELSE U[i - 1] + f[i - 1]]
  BY SumsDef
<1> HIDE DEF U
<1>2. U[0] = 0 /\ \A i \in 1 .. n : U[i] = U[i - 1] + f[i - 1]
  BY <1>1
<1> QED
  BY <1>2 DEF U

(* Products are monotone.                                                  *)
LEMMA Scaled ==
  ASSUME NEW a \in Nat, NEW b \in Nat, NEW w \in Nat, a <= b
  PROVE  a * w <= b * w
OBVIOUS

(* Products distribute over sums.                                          *)
LEMMA SumScaled ==
  ASSUME NEW a \in Nat, NEW v \in Nat, NEW w \in Nat
  PROVE  a * (v + w) = a * v + a * w /\ a * v \in Nat /\ a * w \in Nat
OBVIOUS

(* A value below the average of some samples, or the next sample, is below *)
(* the average of these samples and the next one.                          *)
LEMMA StepBelow ==
  ASSUME NEW a \in Nat, NEW x \in Nat, NEW T \in Nat, NEW W \in Nat,
         NEW w \in Nat, a * W <= T
  PROVE  a * (W + w) <= T + x * w \/ x * (W + w) <= T + x * w
<1>1. CASE a <= x
  <2>1. a * w <= x * w
    BY <1>1, Scaled
  <2> QED
    BY <2>1, SumScaled
<1>2. CASE x <= a
  <2>1. x * W <= a * W
    BY <1>2, Scaled
  <2> QED
    BY <2>1, SumScaled
<1> QED
  BY <1>1, <1>2

(* The same for values above.                                              *)
LEMMA StepAbove ==
  ASSUME NEW a \in Nat, NEW x \in Nat, NEW T \in Nat, NEW W \in Nat,
         NEW w \in Nat, T <= a * W
  PROVE  T + x * w <= a * (W + w) \/ T + x * w <= x * (W + w)
<1>1. CASE x <= a
  <2>1. x * w <= a * w
    BY <1>1, Scaled
  <2> QED
    BY <2>1, SumScaled
<1>2. CASE a <= x
  <2>1. a * W <= x * W
    BY <1>2, Scaled
  <2> QED
    BY <2>1, SumScaled
<1> QED
  BY <1>1, <1>2

(* An error of less than one moves the truncated quotient by no more than  *)
(* one below the lower bound, and not above the upper one.                 *)
LEMMA Quotient ==
  ASSUME NEW T \in Nat, NEW W \in Nat \ {0}, NEW a \in Nat, NEW q \in Nat,
         q * W < T + W, T < (q + 2) * W
  PROVE  /\ a * W <= T => a <= q + 1
         /\ T <= a * W => q <= a
<1>1. a * W <= T => a <= q + 1
  <2> SUFFICES ASSUME a * W <= T, q + 2 <= a PROVE FALSE
    OBVIOUS
  <2>1. (q + 2) * W <= a * W
    BY Scaled
  <2>2. (q + 2) * W \in Nat /\ a * W \in Nat
    BY SumScaled
  <2> QED
    BY <2>1, <2>2
<1>2. T <= a * W => q <= a
  <2> SUFFICES ASSUME T <= a * W, a + 1 <= q PROVE FALSE
    OBVIOUS
  <2>1. (a + 1) * W <= q * W
    BY Scaled
  <2>2. (a + 1) * W = a * W + W /\ a * W \in Nat /\ q * W \in Nat
    BY SumScaled
  <2> QED
    BY <2>1, <2>2
<1> QED
  BY <1>1, <1>2

(* A sum of values, each times its weight, lies between the least and the  *)
(* greatest value times the sum of the weights.                            *)
LEMMA WeightedSum ==
  ASSUME NEW n \in Nat \ {0}, NEW x \in [0 .. n - 1 -> Nat],
         NEW w \in [0 .. n - 1 -> Nat \ {0}],
         NEW T, T = Sums([i \in 0 .. n - 1 |-> x[i] * w[i]], n),
         NEW W, W = Sums(w, n)
  PROVE  /\ T[n] \in Nat /\ W[n] \in Nat \ {0}
         /\ \E i \in 0 .. n - 1 : x[i] * W[n] <= T[n]
         /\ \E i \in 0 .. n - 1 : T[n] <= x[i] * W[n]
<1> DEFINE P(k) == /\ T[k] \in Nat /\ W[k] \in Nat \ {0}
                   /\ \E i \in 0 .. k - 1 : x[i] * W[k] <= T[k]
                   /\ \E i \in 0 .. k - 1 : T[k] <= x[i] * W[k]
           S == {k \in Nat : k + 1 <= n => P(k + 1)}
<1> HIDE DEF P
<1>1. /\ T[0] = 0 /\ W[0] = 0
      /\ \A k \in 0 .. n - 1 : /\ T[k + 1] = T[k] + x[k] * w[k]
                               /\ W[k + 1] = W[k] + w[k]
  <2> DEFINE f == [i \in 0 .. n - 1 |-> x[i] * w[i]]
  <2>1. \A i \in 0 .. n - 1 : f[i] = x[i] * w[i]
    OBVIOUS
  <2> HIDE DEF f
  <2>2. T[0] = 0 /\ \A i \in 1 .. n : T[i] = T[i - 1] + f[i - 1]
    BY SumsAt DEF f
  <2>3. W[0] = 0 /\ \A i \in 1 .. n : W[i] = W[i - 1] + w[i - 1]
    BY SumsAt
  <2>4. ASSUME NEW k \in 0 .. n - 1
        PROVE  T[k + 1] = T[k] + x[k] * w[k] /\ W[k + 1] = W[k] + w[k]
    <3>1. k + 1 \in 1 .. n /\ (k + 1) - 1 = k
      OBVIOUS
    <3> QED
      BY <2>1, <2>2, <2>3, <3>1
  <2> QED
    BY <2>2, <2>3, <2>4
<1>2. 0 \in S
  <2>1. x[0] \in Nat /\ w[0] \in Nat \ {0} /\ 0 \in 0 .. n - 1
    OBVIOUS
  <2>2. T[0 + 1] = T[0] + x[0] * w[0] /\ W[0 + 1] = W[0] + w[0]
    BY <1>1, <2>1
  <2>3. x[0] * w[0] \in Nat
    BY <2>1
  <2>4. T[0 + 1] = x[0] * w[0] /\ W[0 + 1] = w[0]
    BY <1>1, <2>1, <2>2, <2>3
  <2>5. P(0 + 1)
    BY <2>1, <2>3, <2>4 DEF P
  <2> QED
    BY <2>5
<1>3. ASSUME NEW k \in Nat, k \in S
      PROVE  k + 1 \in S
  <2> SUFFICES ASSUME (k + 1) + 1 <= n
               PROVE  P((k + 1) + 1)
    OBVIOUS
  <2> DEFINE m == k + 1
  <2>1. m \in Nat /\ m \in 0 .. n - 1 /\ m + 1 <= n /\ k + 1 <= n
    OBVIOUS
  <2>2. P(m)
    BY <1>3, <2>1
  <2> HIDE DEF m
  <2>3. x[m] \in Nat /\ w[m] \in Nat \ {0} /\ x[m] * w[m] \in Nat
    BY <2>1
  <2>4. T[m + 1] = T[m] + x[m] * w[m] /\ W[m + 1] = W[m] + w[m]
    BY <1>1, <2>1
  <2>5. T[m + 1] \in Nat /\ W[m + 1] \in Nat \ {0}
    <3>1. T[m] \in Nat /\ W[m] \in Nat \ {0}
      BY <2>2 DEF P
    <3>2. \A a, b \in Nat : a + b \in Nat
      OBVIOUS
    <3>3. \A a, b \in Nat \ {0} : a + b \in Nat \ {0}
      OBVIOUS
    <3> QED
      BY <2>3, <2>4, <3>1, <3>2, <3>3
  <2>6. \E i \in 0 .. m : x[i] * W[m + 1] <= T[m + 1]
    <3>1. PICK i \in 0 .. m - 1 : x[i] * W[m] <= T[m]
      BY <2>2 DEF P
    <3>2. x[i] \in Nat /\ i \in 0 .. m /\ m \in 0 .. m
      BY <2>1
    <3>3. \/ x[i] * (W[m] + w[m]) <= T[m] + x[m] * w[m]
          \/ x[m] * (W[m] + w[m]) <= T[m] + x[m] * w[m]
      BY <2>2, <2>3, <3>1, <3>2, StepBelow DEF P
    <3> QED
      BY <2>4, <3>2, <3>3
  <2>7. \E i \in 0 .. m : T[m + 1] <= x[i] * W[m + 1]
    <3>1. PICK i \in 0 .. m - 1 : T[m] <= x[i] * W[m]
      BY <2>2 DEF P
    <3>2. x[i] \in Nat /\ i \in 0 .. m /\ m \in 0 .. m
      BY <2>1
    <3>3. \/ T[m] + x[m] * w[m] <= x[i] * (W[m] + w[m])
          \/ T[m] + x[m] * w[m] <= x[m] * (W[m] + w[m])
      BY <2>2, <2>3, <3>1, <3>2, StepAbove DEF P
    <3> QED
      BY <2>4, <3>2, <3>3
  <2>8. (m + 1) - 1 = m
    BY <2>1
  <2>9. P(m + 1)
    BY <2>5, <2>6, <2>7, <2>8 DEF P
  <2> QED
    BY <2>9 DEF m
<1>4. \A k \in Nat : k \in S
  <2> HIDE DEF S
  <2> QED
    BY <1>2, <1>3, InductiveSet
<1>5. n - 1 \in Nat /\ (n - 1) + 1 = n
  OBVIOUS
<1>6. P((n - 1) + 1)
  <2>1. n - 1 \in S
    <3> HIDE DEF S
    <3> QED
      BY <1>4, <1>5
  <2>2. (n - 1) + 1 <= n => P((n - 1) + 1)
    BY <2>1, Zenon
  <2> QED
    BY <2>2
<1> QED
  BY <1>5, <1>6 DEF P

(* What the average of a server with samples may be, against those it is   *)
(* over.                                                                   *)
LEMMA AverageBounds ==
  ASSUME TypeOK, NEW s \in Servers, Exists(s), NEW q \in AverageRTT(s)
  PROVE  /\ \E i \in 1 .. count[s] : Visited(s)[i] <= q + 1
         /\ \E i \in 1 .. count[s] : q <= Visited(s)[i]
<1> DEFINE n == count[s]
           x == [i \in 0 .. n - 1 |-> samples[s][Slot(s, i)]]
           w == [i \in 0 .. n - 1 |-> Weight(i, n)]
           T == Sums([i \in 0 .. n - 1 |-> x[i] * w[i]], n)
           W == Sums(w, n)
<1>1. n \in 1 .. MaxSamples /\ n \in Nat \ {0}
  BY SamplesAssumption DEF TypeOK, Exists
<1>2. \A i \in 0 .. n - 1 : Slot(s, i) \in Slots /\ i \in Slots
  BY <1>1, SamplesAssumption DEF TypeOK, Slot, Slots
<1>3. x \in [0 .. n - 1 -> Nat]
  <2>1. \A k \in Slots : samples[s][k] \in RTTs \cup {0}
    BY DEF TypeOK
  <2>2. RTTs \cup {0} \subseteq Nat
    BY SamplesAssumption
  <2> QED
    BY <1>2, <2>1, <2>2
<1>4. w \in [0 .. n - 1 -> Nat \ {0}]
  BY <1>1, WeightPositive
<1>5. q \in Nat /\ q * W[n] < T[n] + W[n] /\ T[n] < (q + 2) * W[n]
  <2> DEFINE sample == [i \in Slots |-> samples[s][Slot(s, i)]]
             one == [i \in Slots |-> 1]
  <2>1. Total(s, sample) = T[n]
    <3>1. [i \in 0 .. n - 1 |-> sample[i] * Weight(i, n)]
            = [i \in 0 .. n - 1 |-> x[i] * w[i]]
      BY <1>2
    <3> QED
      BY <3>1 DEF Total, InAverage
  <2>2. Total(s, one) = W[n]
    <3>1. [i \in 0 .. n - 1 |-> one[i] * Weight(i, n)] = w
      BY <1>1, <1>2, WeightPositive
    <3> QED
      BY <3>1 DEF Total, InAverage
  <2> QED
    BY <2>1, <2>2 DEF AverageRTT
<1>6. \A i \in 0 .. n - 1 : i + 1 \in 1 .. n /\ Visited(s)[i + 1] = x[i]
  <2> SUFFICES ASSUME NEW i \in 0 .. n - 1
               PROVE  i + 1 \in 1 .. n /\ Visited(s)[i + 1] = x[i]
    OBVIOUS
  <2>1. i + 1 \in 1 .. n /\ (i + 1) - 1 = i
    BY <1>1
  <2> QED
    BY <2>1 DEF Visited
<1>7. /\ T[n] \in Nat /\ W[n] \in Nat \ {0}
      /\ \E i \in 0 .. n - 1 : x[i] * W[n] <= T[n]
      /\ \E i \in 0 .. n - 1 : T[n] <= x[i] * W[n]
  <2> HIDE DEF x, w
  <2> QED
    BY <1>1, <1>3, <1>4, WeightedSum
<1> HIDE DEF T, W, x, w, n
<1>8. \E i \in 1 .. n : Visited(s)[i] <= q + 1
  <2>1. PICK i \in 0 .. n - 1 : x[i] * W[n] <= T[n]
    BY <1>7
  <2>2. x[i] <= q + 1
    BY <1>3, <1>5, <1>7, <2>1, Quotient
  <2> QED
    BY <1>6, <2>2
<1>9. \E i \in 1 .. n : q <= Visited(s)[i]
  <2>1. PICK i \in 0 .. n - 1 : T[n] <= x[i] * W[n]
    BY <1>7
  <2>2. q <= x[i]
    BY <1>3, <1>5, <1>7, <2>1, Quotient
  <2> QED
    BY <1>6, <2>2
<1> QED
  BY <1>8, <1>9 DEF n

(* The average of a server that has been measured is one of the outcomes   *)
(* for the samples its ring holds.                                         *)
AveragesCurrent ==
  \A s \in Servers : Exists(s) => average[s] \in AverageRTT(s)

(* A step computes the average of its server and leaves the others.        *)
LEMMA AverageStep ==
  ASSUME TypeOK, AveragesCurrent, [Next]_vars
  PROVE  AveragesCurrent'
<1>1. ASSUME NEW s \in Servers, NEW rtt \in RTTs, UpdateServerRTT(s, rtt),
             NEW t \in Servers, Exists(t)'
      PROVE  average'[t] \in AverageRTT(t)'
  <2>1. CASE t = s
    BY <1>1, <2>1 DEF TypeOK, UpdateServerRTT
  <2>2. CASE t # s
    <3>1. /\ samples'[t] = samples[t] /\ index'[t] = index[t]
          /\ count'[t] = count[t] /\ average'[t] = average[t]
      BY <1>1, <2>2 DEF TypeOK, UpdateServerRTT, AddSample
    <3>2. AverageRTT(t)' = AverageRTT(t) /\ (Exists(t)' <=> Exists(t))
      BY <3>1 DEF AverageRTT, Total, InAverage, Slot, Exists
    <3> QED
      BY <1>1, <3>1, <3>2 DEF AveragesCurrent
  <2> QED
    BY <2>1, <2>2
<1>2. ASSUME UNCHANGED vars
      PROVE  AveragesCurrent'
  <2>1. UNCHANGED <<samples, index, count, average>>
    BY <1>2 DEF vars
  <2>2. \A s \in Servers : AverageRTT(s)' = AverageRTT(s) /\ (Exists(s)' <=> Exists(s))
    BY <2>1 DEF AverageRTT, Total, InAverage, Slot, Exists
  <2> QED
    BY <2>1, <2>2 DEF AveragesCurrent
<1> QED
  BY <1>1, <1>2 DEF Next, AveragesCurrent

(* For any decay factor and any size of the ring, what getAverageRTT       *)
(* returns is no more than a sample it visits, and no less than one of     *)
(* them by more than the nanosecond that rounding and truncation may cost. *)
THEOREM AveragesInRange == Spec => []AverageInRange
<1>1. TypeOK /\ AveragesCurrent => AverageInRange
  <2>1. \A s \in Servers : DOMAIN Visited(s) = 1 .. count[s]
    BY DEF Visited
  <2> QED
    BY <2>1, AverageBounds DEF AverageInRange, AveragesCurrent
<1>2. Init => AveragesCurrent
  BY DEF Init, AveragesCurrent, Exists
<1> QED
  BY <1>1, <1>2, AverageStep, TypeCorrect, PTL DEF Spec

(* The comparison that getServersByRTT gives to sort.Slice is a strict     *)
(* weak order, whatever has been measured: of the servers without a        *)
(* tracker, and between them and the others, too.                          *)
THEOREM OrderIsConsistent == Spec => []OrderConsistent
<1>1. TypeOK => OrderConsistent
  <2> SUFFICES ASSUME TypeOK, NEW a \in Servers, NEW b \in Servers, NEW c \in Servers
               PROVE  /\ ~(Less(a, b) /\ Less(b, a))
                      /\ Less(a, b) => Less(a, c) \/ Less(c, b)
    BY DEF OrderConsistent
  <2>1. a \in Nat /\ b \in Nat /\ c \in Nat
    BY ServersAssumption
  <2>2. \A s \in Servers : average[s] \in Nat
    BY DEF TypeOK
  <2> QED
    BY <2>1, <2>2 DEF Less
<1> QED
  BY <1>1, TypeCorrect, PTL

=============================================================================
