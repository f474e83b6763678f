---------------------- MODULE ThresholdSignatureProofs ----------------------
(***************************************************************************)
(* What Aggregate puts together: exactly  threshold  signatures, all of    *)
(* them valid.  And the facts about least and greatest elements that this  *)
(* and the median of the fast path rest on.                                *)
(***************************************************************************)
EXTENDS ThresholdSignature, FiniteSetTheorems, WellFoundedInduction, TLAPS

(* A non-empty set of naturals has a least element.  Applied to the set of *)
(* the counterexamples of a statement it also serves as induction.         *)
LEMMA HasMin ==
  ASSUME NEW T, T \subseteq Nat, T # {}
  PROVE  \E m \in T : \A t \in T : m <= t
<1> DEFINE R == {p \in Nat \X Nat : p[1] < p[2]}
<1>1. IsWellFoundedOn(R, Nat)
  BY NatLessThanWellFounded, Zenon DEF OpToRel
<1>2. PICK m \in T : \A t \in T : ~(<<t, m>> \in R)
  <2> HIDE DEF R
  <2> QED
    BY <1>1, WFMin
<1>3. ASSUME NEW t \in T PROVE m <= t
  <2>1. t \in Nat /\ m \in Nat
    OBVIOUS
  <2>2. t < m => <<t, m>> \in R
    BY <2>1
  <2> QED
    BY <1>2, <2>1, <2>2
<1> QED
  BY <1>3

(* A non-empty set of naturals with an upper bound has a greatest element. *)
LEMMA HasMax ==
  ASSUME NEW b \in Nat, NEW T, T \subseteq 0 .. b, T # {}
  PROVE  \E m \in T : \A t \in T : t <= m
<1> DEFINE U == {b - t : t \in T}
<1>1. U \subseteq Nat /\ U # {}
  <2>1. \A t \in T : b - t \in Nat
    OBVIOUS
  <2>2. \E t \in T : b - t \in U
    OBVIOUS
  <2> QED
    BY <2>1, <2>2
<1>2. PICK u \in U : \A v \in U : u <= v
  <2> HIDE DEF U
  <2> QED
    BY <1>1, HasMin
<1>3. PICK m \in T : u = b - m
  OBVIOUS
<1>4. ASSUME NEW t \in T PROVE t <= m
  <2>1. u <= b - t
    BY <1>2
  <2>2. t \in Nat /\ m \in Nat
    OBVIOUS
  <2> QED
    BY <2>1, <2>2, <1>3
<1> QED
  BY <1>4

(* The members of a finite set of naturals that have fewer than k members  *)
(* below them are k in number, if the set is as large as that.             *)
LEMMA FirstMembers ==
  ASSUME NEW V, V \subseteq Nat, IsFiniteSet(V), NEW k \in Nat,
         k <= Cardinality(V)
  PROVE  Cardinality({s \in V : Cardinality({u \in V : u < s}) < k}) = k
<1> DEFINE Below(s) == {u \in V : u < s}
           First(i) == {s \in V : Cardinality(Below(s)) < i}
           Bad == {i \in Nat : i <= Cardinality(V) /\ Cardinality(First(i)) # i}
<1>1. \A s \in V : IsFiniteSet(Below(s)) /\ Cardinality(Below(s)) \in Nat
  BY FS_Subset, FS_CardinalityType
<1>2. \A i : IsFiniteSet(First(i)) /\ Cardinality(First(i)) \in Nat
  BY FS_Subset, FS_CardinalityType
<1>3. Cardinality(V) \in Nat
  BY FS_CardinalityType
<1> HIDE DEF Below
<1>4. ASSUME NEW s \in V, NEW t \in V, s < t
      PROVE  Below(s) \cup {s} \subseteq Below(t) /\ s \notin Below(s)
  <2>1. \A u \in V : u < s => u < t
    BY <1>4
  <2>2. ~(s < s)
    OBVIOUS
  <2> QED
    BY <1>4, <2>1, <2>2 DEF Below
<1>5. ASSUME NEW s \in V, NEW t \in V, s < t
      PROVE  Cardinality(Below(s)) < Cardinality(Below(t))
  <2>1. Cardinality(Below(s) \cup {s}) = Cardinality(Below(s)) + 1
    BY <1>1, <1>4, <1>5, FS_AddElement
  <2>2. Cardinality(Below(s) \cup {s}) <= Cardinality(Below(t))
    BY <1>1, <1>4, <1>5, FS_Subset
  <2> QED
    BY <2>1, <2>2, <1>1
<1> HIDE DEF First
<1>6. ASSUME Bad # {} PROVE FALSE
  <2>1. PICK i \in Bad : \A j \in Bad : i <= j
    <3>1. Bad \subseteq Nat
      OBVIOUS
    <3> HIDE DEF Bad
    <3> QED
      BY <1>6, <3>1, HasMin
  <2>2. i \in Nat /\ i <= Cardinality(V) /\ Cardinality(First(i)) # i
    BY <2>1
  <2>3. i # 0
    <3>1. First(0) = {}
      <4>1. \A s \in V : ~(Cardinality(Below(s)) < 0)
        BY <1>1
      <4> QED
        BY <4>1, Zenon DEF First
    <3> QED
      BY <3>1, <2>2, FS_EmptySet
  <2>4. i - 1 \in Nat /\ i - 1 < Cardinality(V) /\ i - 1 \notin Bad
    <3>1. i - 1 \in Nat /\ i - 1 < Cardinality(V) /\ ~(i <= i - 1)
      BY <2>2, <2>3, <1>3
    <3> HIDE DEF Bad
    <3> QED
      BY <2>1, <3>1
  <2>5. Cardinality(First(i - 1)) = i - 1
    BY <2>4, <1>3
  <2>6. V \ First(i - 1) # {} /\ V \ First(i - 1) \subseteq Nat
    <3>1. First(i - 1) # V
      BY <2>4, <2>5, <1>3
    <3> QED
      BY <3>1 DEF First
  <2>7. PICK m \in V \ First(i - 1) : \A t \in V \ First(i - 1) : m <= t
    BY <2>6, HasMin
  <2>8. Below(m) = First(i - 1)
    <3>1. ASSUME NEW u \in V PROVE u < m <=> u \in First(i - 1)
      <4>1. u \in Nat /\ m \in Nat
        OBVIOUS
      <4>2. u < m => u \in First(i - 1)
        BY <4>1, <2>7
      <4>3. m < u => u \notin First(i - 1)
        BY <1>1, <1>5, <2>2, <2>7 DEF First
      <4> QED
        BY <4>1, <4>2, <4>3, <2>7
    <3> QED
      BY <3>1 DEF First, Below
  <2>9. Cardinality(Below(m)) = i - 1
    BY <2>8, <2>5
  <2>10. First(i) = First(i - 1) \cup {m}
    <3>1. ASSUME NEW s \in V, s # m PROVE Cardinality(Below(s)) # i - 1
      <4>1. s < m \/ m < s
        BY <3>1
      <4> QED
        BY <4>1, <1>1, <1>5, <2>9
    <3>2. \A s \in V : \/ Cardinality(Below(s)) < i - 1
                     \/ Cardinality(Below(s)) = i - 1
                     \/ ~(Cardinality(Below(s)) < i)
      BY <1>1, <2>2
    <3>3. i - 1 < i /\ \A n \in Nat : n < i - 1 => n < i
      BY <2>2
    <3> QED
      BY <3>1, <3>2, <3>3, <1>1, <2>9 DEF First
  <2>11. Cardinality(First(i)) = (i - 1) + 1
    <3>1. Cardinality(First(i - 1) \cup {m}) = Cardinality(First(i - 1)) + 1
      BY <2>7, <1>2, FS_AddElement
    <3> QED
      BY <3>1, <2>10, <2>5
  <2> QED
    BY <2>11, <2>2
<1>7. Cardinality(First(k)) = k
  BY <1>6
<1> QED
  BY <1>7 DEF First, Below

(* Whenever Aggregate returns no error, what it concatenates is the        *)
(* signatures of exactly  threshold  of the given nodes, all of them       *)
(* accepted by Verify (threshold.go, lines 39-70).                         *)
THEOREM AggregateExact ==
  ASSUME NEW signatures, signatures \subseteq Nat, IsFiniteSet(signatures),
         NEW verified, NEW threshold \in Nat,
         AggregateSucceeds(signatures, verified, threshold)
  PROVE  /\ Aggregate(signatures, verified, threshold)
              \subseteq signatures \cap verified
         /\ Cardinality(Aggregate(signatures, verified, threshold)) = threshold
<1> DEFINE V == signatures \cap verified
<1>1. V \subseteq Nat /\ IsFiniteSet(V) /\ threshold <= Cardinality(V)
  BY FS_Subset, FS_CardinalityType DEF AggregateSucceeds, ValidSigs
<1>2. Aggregate(signatures, verified, threshold)
        = {s \in V : Cardinality({u \in V : u < s}) < threshold}
  BY DEF Aggregate, ValidSigs
<1> HIDE DEF V
<1>3. Cardinality({s \in V : Cardinality({u \in V : u < s}) < threshold})
        = threshold
  BY <1>1, FirstMembers
<1> QED
  BY <1>2, <1>3 DEF V

=============================================================================
