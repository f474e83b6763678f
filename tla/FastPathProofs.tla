--------------------------- MODULE FastPathProofs ---------------------------
(***************************************************************************)
(* Proofs about FastPath, for every number of callers and servers and      *)
(* every configuration: the type invariant, the invariants about the       *)
(* collector's bookkeeping and about what it leaves behind, and that what  *)
(* it returns is sound.                                                    *)
(*                                                                         *)
(* A step belongs to one call and leaves the others alone (lemma Frame),   *)
(* so the inductive invariant is stated for one call, CallInv(c), and each *)
(* action is shown to preserve it for its own.                             *)
(***************************************************************************)
EXTENDS FastPath, ThresholdSignatureProofs

(* The errors that ever entered errChan came from distinct servers.        *)
Erred(c) == In(c, {"failed", "rejected"})

(* What holds of a call at every moment.                                   *)
CallInv(c) ==
  /\ pc[c] \in {"idle", "waiting"} =>
       /\ errChan[c] = 0 /\ validSignatures[c] = 0
       /\ \A s \in Servers : answer[c][s] = "none"
  /\ validSignatures[c] = Cardinality(Accepted(c))
  /\ pc[c] \in {"select", "rejecting"} =>
       remainingServers[c] = Cardinality(Unresolved(c)) + errChan[c]
  /\ errChan[c] <= Cardinality(Erred(c))
  /\ pc[c] = "rejecting" => \E s \in Servers : answer[c][s] = "rejecting"
  /\ pc[c] # "returned" => result[c].err = "none"
  /\ result[c].err = "notenough" =>
       Cardinality(Accepted(c)) + Cardinality(Unresolved(c)) < MinSignatures
  /\ \A s \in Servers : answer[c][s] = "accepted" => stamp[c][s] <= MaxDrift
  /\ pc[c] # "returned" => validSignatures[c] < MinSignatures
  /\ pc[c] \in {"select", "rejecting"} /\ remainingServers[c] < Cardinality(Servers)
       => ~CannotReach(validSignatures[c], remainingServers[c])
  /\ result[c].err = "ok" => TimeSound(c) /\ SignersSound(c)

IInv == TypeOK /\ \A c \in Callers : CallInv(c)

-----------------------------------------------------------------------------

(* The servers in some places are finitely many.                           *)
LEMMA InFinite ==
  ASSUME NEW c \in Callers, NEW P
  PROVE  IsFiniteSet(In(c, P)) /\ Cardinality(In(c, P)) \in Nat
<1>1. In(c, P) \subseteq Servers
  BY DEF In
<1> QED
  BY <1>1, ServersAssumption, FS_Subset, FS_CardinalityType

(* Moving the answer of one server moves one unit between the counts of    *)
(* the places it leaves and enters, and touches no other call.             *)
LEMMA Move ==
  ASSUME TypeOK, NEW c \in Callers, NEW s \in Servers, NEW v \in Answers,
         NEW CONSTANT P, answer' = [answer EXCEPT ![c][s] = v]
  PROVE  /\ (v \in P <=> answer[c][s] \in P) =>
              Cardinality(In(c, P)') = Cardinality(In(c, P))
         /\ v \in P /\ answer[c][s] \notin P =>
              Cardinality(In(c, P)') = Cardinality(In(c, P)) + 1
         /\ v \notin P /\ answer[c][s] \in P =>
              Cardinality(In(c, P)') = Cardinality(In(c, P)) - 1
<1>1. \A t \in Servers : answer'[c][t] = IF t = s THEN v ELSE answer[c][t]
  BY DEF TypeOK
<1>2. IsFiniteSet(In(c, P)) /\ Cardinality(In(c, P)) \in Nat
  BY InFinite
<1>3. s \in In(c, P) <=> answer[c][s] \in P
  BY DEF In
<1>4. CASE v \in P
  <2>1. In(c, P)' = In(c, P) \cup {s}
    BY <1>1, <1>4 DEF In
  <2>2. Cardinality(In(c, P) \cup {s}) =
          IF s \in In(c, P) THEN Cardinality(In(c, P))
                            ELSE Cardinality(In(c, P)) + 1
    BY <1>2, FS_AddElement
  <2> QED
    BY <2>1, <2>2, <1>2, <1>3, <1>4
<1>5. CASE v \notin P
  <2>1. In(c, P)' = In(c, P) \ {s}
    BY <1>1, <1>5 DEF In
  <2>2. Cardinality(In(c, P) \ {s}) =
          IF s \in In(c, P) THEN Cardinality(In(c, P)) - 1
                            ELSE Cardinality(In(c, P))
    BY <1>2, FS_RemoveElement
  <2> QED
    BY <2>1, <2>2, <1>2, <1>3, <1>5
<1> QED
  BY <1>4, <1>5

(* The four ways in which an unresolved answer moves, and what each does   *)
(* to the numbers that CallInv relates.                                    *)
Pending == {"asked", "sending", "queued", "rejecting"}

(* It stays unresolved.                                                    *)
LEMMA Stays ==
  ASSUME TypeOK, NEW c \in Callers, NEW s \in Servers, NEW v,
         answer[c][s] \in Pending, v \in Pending,
         answer' = [answer EXCEPT ![c][s] = v]
  PROVE  /\ Cardinality(Accepted(c)') = Cardinality(Accepted(c))
         /\ Cardinality(Unresolved(c)') = Cardinality(Unresolved(c))
         /\ Cardinality(Erred(c)') = Cardinality(Erred(c))
<1>1. v \in Answers
  BY DEF Pending, Answers
<1>2. answer[c][s] \notin {"accepted"} /\ answer[c][s] \notin {"failed", "rejected"}
  BY DEF Pending
<1>3. Cardinality(In(c, {"accepted"})') = Cardinality(In(c, {"accepted"}))
  <2>1. v \notin {"accepted"}
    BY DEF Pending
  <2> QED
    BY <1>1, <1>2, <2>1, Move
<1>4. Cardinality(In(c, Pending)') = Cardinality(In(c, Pending))
  BY <1>1, Move
<1>5. Cardinality(In(c, {"failed", "rejected"})')
        = Cardinality(In(c, {"failed", "rejected"}))
  <2>1. v \notin {"failed", "rejected"}
    BY DEF Pending
  <2> QED
    BY <1>1, <1>2, <2>1, Move
<1> QED
  BY <1>3, <1>4, <1>5 DEF Accepted, Unresolved, Erred, Pending

(* It becomes an error.                                                    *)
LEMMA Errs ==
  ASSUME TypeOK, NEW c \in Callers, NEW s \in Servers, NEW v,
         answer[c][s] \in Pending, v \in {"failed", "rejected"},
         answer' = [answer EXCEPT ![c][s] = v]
  PROVE  /\ Cardinality(Accepted(c)') = Cardinality(Accepted(c))
         /\ Cardinality(Unresolved(c)') = Cardinality(Unresolved(c)) - 1
         /\ Cardinality(Erred(c)') = Cardinality(Erred(c)) + 1
<1>1. v \in Answers
  BY DEF Pending, Answers
<1>2. answer[c][s] \notin {"accepted"} /\ answer[c][s] \notin {"failed", "rejected"}
  BY DEF Pending
<1>3. Cardinality(In(c, {"accepted"})') = Cardinality(In(c, {"accepted"}))
  <2>1. v \notin {"accepted"}
    BY DEF Pending
  <2> QED
    BY <1>1, <1>2, <2>1, Move
<1>4. Cardinality(In(c, Pending)') = Cardinality(In(c, Pending)) - 1
  <2>1. v \notin Pending
    BY DEF Pending
  <2> QED
    BY <1>1, <2>1, Move
<1>5. Cardinality(In(c, {"failed", "rejected"})')
        = Cardinality(In(c, {"failed", "rejected"})) + 1
  <2>1. v \in {"failed", "rejected"}
    BY DEF Pending
  <2> QED
    BY <1>1, <1>2, <2>1, Move
<1> QED
  BY <1>3, <1>4, <1>5 DEF Accepted, Unresolved, Erred, Pending

(* It is accepted.                                                         *)
LEMMA Accepts ==
  ASSUME TypeOK, NEW c \in Callers, NEW s \in Servers, NEW v,
         answer[c][s] \in Pending, v = "accepted",
         answer' = [answer EXCEPT ![c][s] = v]
  PROVE  /\ Cardinality(Accepted(c)') = Cardinality(Accepted(c)) + 1
         /\ Cardinality(Unresolved(c)') = Cardinality(Unresolved(c)) - 1
         /\ Cardinality(Erred(c)') = Cardinality(Erred(c))
<1>1. v \in Answers
  BY DEF Pending, Answers
<1>2. answer[c][s] \notin {"accepted"} /\ answer[c][s] \notin {"failed", "rejected"}
  BY DEF Pending
<1>3. Cardinality(In(c, {"accepted"})') = Cardinality(In(c, {"accepted"})) + 1
  <2>1. v \in {"accepted"}
    BY DEF Pending
  <2> QED
    BY <1>1, <1>2, <2>1, Move
<1>4. Cardinality(In(c, Pending)') = Cardinality(In(c, Pending)) - 1
  <2>1. v \notin Pending
    BY DEF Pending
  <2> QED
    BY <1>1, <2>1, Move
<1>5. Cardinality(In(c, {"failed", "rejected"})')
        = Cardinality(In(c, {"failed", "rejected"}))
  <2>1. v \notin {"failed", "rejected"}
    BY DEF Pending
  <2> QED
    BY <1>1, <1>2, <2>1, Move
<1> QED
  BY <1>3, <1>4, <1>5 DEF Accepted, Unresolved, Erred, Pending

(* It is dropped by the return of line 106.                                *)
LEMMA Drops ==
  ASSUME TypeOK, NEW c \in Callers, NEW s \in Servers, NEW v,
         answer[c][s] \in Pending, v = "dropped",
         answer' = [answer EXCEPT ![c][s] = v]
  PROVE  /\ Cardinality(Accepted(c)') = Cardinality(Accepted(c))
         /\ Cardinality(Unresolved(c)') = Cardinality(Unresolved(c)) - 1
         /\ Cardinality(Erred(c)') = Cardinality(Erred(c))
<1>1. v \in Answers
  BY DEF Pending, Answers
<1>2. answer[c][s] \notin {"accepted"} /\ answer[c][s] \notin {"failed", "rejected"}
  BY DEF Pending
<1>3. Cardinality(In(c, {"accepted"})') = Cardinality(In(c, {"accepted"}))
  <2>1. v \notin {"accepted"}
    BY DEF Pending
  <2> QED
    BY <1>1, <1>2, <2>1, Move
<1>4. Cardinality(In(c, Pending)') = Cardinality(In(c, Pending)) - 1
  <2>1. v \notin Pending
    BY DEF Pending
  <2> QED
    BY <1>1, <2>1, Move
<1>5. Cardinality(In(c, {"failed", "rejected"})')
        = Cardinality(In(c, {"failed", "rejected"}))
  <2>1. v \notin {"failed", "rejected"}
    BY DEF Pending
  <2> QED
    BY <1>1, <1>2, <2>1, Move
<1> QED
  BY <1>3, <1>4, <1>5 DEF Accepted, Unresolved, Erred, Pending

(* What a returned timestamp owes is not disturbed by a step that leaves   *)
(* the result, the accepted servers and their stamps alone.                *)
LEMMA SoundFrame ==
  ASSUME NEW d \in Callers, Accepted(d)' = Accepted(d), result'[d] = result[d],
         \A s \in Accepted(d) : stamp'[d][s] = stamp[d][s],
         TimeSound(d), SignersSound(d)
  PROVE  TimeSound(d)' /\ SignersSound(d)'
<1>1. SignersSound(d)'
  BY DEF SignersSound
<1>2. /\ {s \in Accepted(d) : stamp'[d][s] < result'[d].time}
           = {s \in Accepted(d) : stamp[d][s] < result[d].time}
      /\ {s \in Accepted(d) : stamp'[d][s] > result'[d].time}
           = {s \in Accepted(d) : stamp[d][s] > result[d].time}
  OBVIOUS
<1>3. TimeSound(d)'
  BY <1>2 DEF TimeSound
<1> QED
  BY <1>1, <1>3

(* A step that leaves the state of call d alone preserves its invariant.   *)
LEMMA Frame ==
  ASSUME NEW d \in Callers, CallInv(d),
         pc'[d] = pc[d], answer'[d] = answer[d], stamp'[d] = stamp[d],
         errChan'[d] = errChan[d], result'[d] = result[d],
         validSignatures'[d] = validSignatures[d],
         remainingServers'[d] = remainingServers[d]
  PROVE  CallInv(d)'
<1>1. \A P : In(d, P)' = In(d, P)
  BY DEF In
<1>2. /\ Accepted(d)' = Accepted(d) /\ Unresolved(d)' = Unresolved(d)
      /\ Erred(d)' = Erred(d)
  BY <1>1 DEF Accepted, Unresolved, Erred
<1>3. (result[d].err = "ok" => TimeSound(d) /\ SignersSound(d))'
  BY <1>2, SoundFrame DEF CallInv
<1> QED
  BY <1>2, <1>3 DEF CallInv

(* The stamps of a non-empty set of servers have a median: the CHOOSE of   *)
(* Median, sorted[len/2] of line 131, is well defined.                     *)
LEMMA MedianExists ==
  ASSUME TypeOK, NEW c \in Callers, NEW S, S \subseteq Servers, S # {}
  PROVE  LET m == Median(c, S)
         IN  /\ m \in Time
             /\ \E s \in S : stamp[c][s] = m
             /\ Cardinality({s \in S : stamp[c][s] < m})
                  <= Cardinality(S) \div 2
             /\ Cardinality({s \in S : stamp[c][s] <= m})
                  > Cardinality(S) \div 2
<1> DEFINE half == Cardinality(S) \div 2
           stamps == {stamp[c][s] : s \in S}
           Lt(t) == {s \in S : stamp[c][s] < t}
           Le(t) == {s \in S : stamp[c][s] <= t}
           Upper == {t \in stamps : Cardinality(Le(t)) > half}
<1>1. \A s \in S : stamp[c][s] \in Time
  BY DEF TypeOK
<1>2. MaxElapsed \in Nat /\ Time = 0 .. MaxElapsed
  BY ConfigAssumption DEF Time
<1>3. IsFiniteSet(S) /\ Cardinality(S) \in Nat
  BY ServersAssumption, FS_Subset, FS_CardinalityType
<1>4. stamps \subseteq Time /\ stamps # {}
  BY <1>1
<1>5. Cardinality(S) # 0
  BY <1>3, FS_EmptySet
<1>6. half \in Nat /\ half < Cardinality(S)
  BY <1>3, <1>5
<1> HIDE DEF stamps, half
<1>7. PICK top \in stamps : \A t \in stamps : t <= top
  BY <1>2, <1>4, HasMax
<1>8. Le(top) = S
  BY <1>7 DEF stamps
<1>9. Upper # {} /\ Upper \subseteq Nat
  <2>1. top \in Upper
    BY <1>6, <1>8
  <2>2. Upper \subseteq stamps /\ stamps \subseteq Nat
    BY <1>2, <1>4
  <2> QED
    BY <2>1, <2>2
<1> HIDE DEF Upper
<1>10. PICK m \in Upper : \A t \in Upper : m <= t
  BY <1>9, HasMin
<1>11. m \in stamps /\ m \in Nat /\ Cardinality(Le(m)) > half
  BY <1>9, <1>10 DEF Upper
<1>12. Cardinality(Lt(m)) <= half
  <2> DEFINE Lower == {t \in stamps : t < m}
  <2>1. CASE Lower = {}
    <3>1. Lt(m) = {}
      BY <2>1 DEF stamps
    <3> QED
      BY <3>1, FS_EmptySet, <1>6
  <2>2. CASE Lower # {}
    <3>1. Lower \subseteq 0 .. MaxElapsed
      BY <1>2, <1>4
    <3> HIDE DEF Lower
    <3>2. PICK b \in Lower : \A t \in Lower : t <= b
      BY <2>2, <3>1, <1>2, HasMax
    <3>3. b \in stamps /\ b < m /\ b \in Nat
      BY <3>1, <3>2, <1>2 DEF Lower
    <3>4. Lt(m) = Le(b)
      <4>1. \A s \in S : stamp[c][s] < m => stamp[c][s] <= b
        BY <3>2 DEF Lower, stamps
      <4>2. \A s \in S : stamp[c][s] <= b => stamp[c][s] < m
        BY <3>3, <1>1, <1>2, <1>11
      <4> QED
        BY <4>1, <4>2
    <3>5. b \notin Upper
      BY <1>10, <1>11, <3>3
    <3>6. Cardinality(Le(b)) \in Nat
      BY <1>3, FS_Subset, FS_CardinalityType
    <3>7. ~(Cardinality(Le(b)) > half)
      BY <3>3, <3>5 DEF Upper
    <3> HIDE DEF Le, Lt
    <3> QED
      BY <3>4, <3>6, <3>7, <1>6
  <2> QED
    BY <2>1, <2>2
<1>13. \E t \in stamps : Cardinality(Lt(t)) <= half /\ Cardinality(Le(t)) > half
  BY <1>11, <1>12
<1>14. Median(c, S) = CHOOSE t \in stamps :
                        Cardinality(Lt(t)) <= half /\ Cardinality(Le(t)) > half
  BY DEF Median, stamps, half
<1> DEFINE med == Median(c, S)
<1>15. /\ med \in stamps
       /\ Cardinality(Lt(med)) <= half /\ Cardinality(Le(med)) > half
  <2> HIDE DEF Lt, Le
  <2> QED
    BY <1>13, <1>14
<1>16. med \in Time /\ \E s \in S : stamp[c][s] = med
  BY <1>15, <1>4 DEF stamps
<1> QED
  BY <1>15, <1>16 DEF half

-----------------------------------------------------------------------------

(* What Conclude returns for MinSignatures accepted servers is a result,   *)
(* and if it is a timestamp it is sound.                                   *)
LEMMA ConcludeSound ==
  ASSUME TypeOK, NEW c \in Callers, NEW S, S \subseteq Servers,
         Cardinality(S) = MinSignatures,
         \A s \in S : stamp[c][s] <= MaxDrift
  PROVE  /\ Conclude(c, S) \in Results
         /\ Conclude(c, S).err \in {"ok", "aggregate"}
         /\ (/\ Accepted(c)' = S /\ result'[c] = Conclude(c, S)
             /\ stamp' = stamp /\ Conclude(c, S).err = "ok")
              => TimeSound(c)' /\ SignersSound(c)'
<1> DEFINE m == Median(c, S)
           A == Aggregate(S, Verified, Threshold)
<1>1. IsFiniteSet(S) /\ S \subseteq Nat /\ S # {}
  BY ServersAssumption, ConfigAssumption, FS_Subset, FS_EmptySet
<1>2. /\ m \in Time /\ \E s \in S : stamp[c][s] = m
      /\ Cardinality({s \in S : stamp[c][s] < m}) <= MinSignatures \div 2
      /\ Cardinality({s \in S : stamp[c][s] <= m}) > MinSignatures \div 2
  BY <1>1, MedianExists
<1>3. CASE ~AggregateSucceeds(S, Verified, Threshold)
  BY <1>3, ConfigAssumption DEF Conclude, Error, Results, Outcomes, Time
<1>4. CASE AggregateSucceeds(S, Verified, Threshold)
  <2>1. A \subseteq S \cap Verified /\ Cardinality(A) = Threshold
    BY <1>1, <1>4, ThresholdAssumption, AggregateExact
  <2>2. Conclude(c, S) = [err |-> "ok", time |-> m, signers |-> A]
    BY <1>4 DEF Conclude
  <2> HIDE DEF m, A
  <2>3. Conclude(c, S) \in Results
    BY <2>1, <2>2, <1>2 DEF Results, Outcomes
  <2>4. ASSUME Accepted(c)' = S, result'[c] = Conclude(c, S), stamp' = stamp
        PROVE  TimeSound(c)' /\ SignersSound(c)'
    <3>1. result'[c].time = m /\ result'[c].signers = A
      BY <2>2, <2>4
    <3>2. SignersSound(c)'
      BY <2>1, <2>4, <3>1 DEF SignersSound
    <3> DEFINE Lt == {s \in S : stamp[c][s] < m}
               Le == {s \in S : stamp[c][s] <= m}
               Gt == {s \in S : stamp[c][s] > m}
    <3>3. \A s \in S : stamp[c][s] \in Nat /\ m \in Nat
      BY <1>2, ConfigAssumption DEF TypeOK, Time
    <3>4. Gt = S \ Le
      BY <3>3
    <3>5. /\ IsFiniteSet(Lt) /\ Cardinality(Lt) \in Nat
          /\ IsFiniteSet(Le) /\ Cardinality(Le) \in Nat
      BY <1>1, FS_Subset, FS_CardinalityType
    <3>6. Cardinality(S \ Le) = MinSignatures - Cardinality(Le)
      <4>1. S \cap Le = Le
        OBVIOUS
      <4> HIDE DEF Le
      <4> QED
        BY <4>1, <1>1, <3>5, FS_Difference
    <3>7. Cardinality(Lt) <= MinSignatures \div 2
          /\ Cardinality(Le) > MinSignatures \div 2
      BY <1>2
    <3> HIDE DEF Lt, Le, Gt
    <3>8. 2 * Cardinality(Lt) <= MinSignatures /\ 2 * Cardinality(Gt) < MinSignatures
      BY <3>4, <3>5, <3>6, <3>7, ConfigAssumption
    <3>9. \A s, t \in S : stamp[c][s] - stamp[c][t] <= MaxDrift
      BY <3>3, ConfigAssumption
    <3>10. TimeSound(c)'
      BY <1>2, <2>4, <3>1, <3>8, <3>9 DEF TimeSound, Lt, Gt, m
    <3> QED
      BY <3>2, <3>10
  <2> QED
    BY <2>2, <2>3, <2>4
<1> QED
  BY <1>3, <1>4

-----------------------------------------------------------------------------
(* Each action preserves the invariant.                                    *)

USE CallersAssumption DEF Outcomes, PCs, Answers

(* A step of call c that satisfies the type invariant and that of c, and   *)
(* leaves the other calls alone, preserves the whole.                      *)
LEMMA OneCall ==
  ASSUME IInv, NEW c \in Callers, TypeOK', CallInv(c)',
         \A d \in Callers \ {c} :
           /\ pc'[d] = pc[d] /\ answer'[d] = answer[d] /\ stamp'[d] = stamp[d]
           /\ errChan'[d] = errChan[d] /\ result'[d] = result[d]
           /\ validSignatures'[d] = validSignatures[d]
           /\ remainingServers'[d] = remainingServers[d]
  PROVE  IInv'
<1>1. ASSUME NEW d \in Callers \ {c} PROVE CallInv(d)'
  <2>1. CallInv(d) /\ d \in Callers
    BY DEF IInv
  <2> QED
    BY <2>1, Frame
<1> QED
  BY <1>1 DEF IInv

(* Calling.                                                                *)
LEMMA CallStep ==
  ASSUME IInv, NEW c \in Callers, Call(c)
  PROVE  IInv'
<1> USE DEF clock, counts
<1>1. TypeOK'
  BY DEF IInv, TypeOK, Call
<1>2. CallInv(c)'
  <2>1. \A P : In(c, P)' = In(c, P)
    BY DEF In, Call
  <2>2. /\ Accepted(c)' = Accepted(c) /\ Unresolved(c)' = Unresolved(c)
        /\ Erred(c)' = Erred(c)
    BY <2>1 DEF Accepted, Unresolved, Erred
  <2> QED
    BY <2>2 DEF IInv, TypeOK, CallInv, Call
<1>3. \A d \in Callers \ {c} :
        /\ pc'[d] = pc[d] /\ answer'[d] = answer[d] /\ stamp'[d] = stamp[d]
        /\ errChan'[d] = errChan[d] /\ result'[d] = result[d]
        /\ validSignatures'[d] = validSignatures[d]
        /\ remainingServers'[d] = remainingServers[d]
  BY DEF IInv, TypeOK, Call
<1> QED
  BY <1>1, <1>2, <1>3, OneCall

(* Getting the mutex: every server is asked, none is accepted or erred.    *)
LEMMA LockStep ==
  ASSUME IInv, NEW c \in Callers, Lock(c)
  PROVE  IInv'
<1> USE DEF clock, counts
<1>1. TypeOK'
  <2>1. Cardinality(Servers) \in Int
    BY ServersAssumption, FS_CardinalityType
  <2> QED
    BY <2>1 DEF IInv, TypeOK, Lock
<1>2. CallInv(c)'
  <2>1. \A t \in Servers : answer'[c][t] = "asked"
    BY DEF IInv, TypeOK, Lock
  <2>2. Accepted(c)' = {} /\ Erred(c)' = {} /\ Unresolved(c)' = Servers
    BY <2>1 DEF Accepted, Unresolved, Erred, In
  <2>3. Cardinality(Accepted(c)') = 0 /\ Cardinality(Erred(c)') = 0
    BY <2>2, FS_EmptySet
  <2>4. Cardinality(Servers) \in Nat
    BY ServersAssumption, FS_CardinalityType
  <2> QED
    BY <2>1, <2>2, <2>3, <2>4, ConfigAssumption
    DEF IInv, TypeOK, CallInv, Lock
<1>3. \A d \in Callers \ {c} :
        /\ pc'[d] = pc[d] /\ answer'[d] = answer[d] /\ stamp'[d] = stamp[d]
        /\ errChan'[d] = errChan[d] /\ result'[d] = result[d]
        /\ validSignatures'[d] = validSignatures[d]
        /\ remainingServers'[d] = remainingServers[d]
  BY DEF IInv, TypeOK, Lock
<1> QED
  BY <1>1, <1>2, <1>3, OneCall

(* A goroutine reads the clock.                                            *)
LEMMA AnswerStep ==
  ASSUME IInv, NEW c \in Callers, NEW s \in Servers, Answer(c, s)
  PROVE  IInv'
<1> USE DEF clock, counts
<1>1. TypeOK'
  BY DEF IInv, TypeOK, Answer
<1>2. CallInv(c)'
  <2>1. /\ Cardinality(Accepted(c)) \in Nat /\ Cardinality(Unresolved(c)) \in Nat
        /\ Cardinality(Erred(c)) \in Nat
    BY InFinite DEF Accepted, Unresolved, Erred
  <2>2. /\ Cardinality(Accepted(c)') = Cardinality(Accepted(c))
        /\ Cardinality(Unresolved(c)') = Cardinality(Unresolved(c))
        /\ Cardinality(Erred(c)') = Cardinality(Erred(c))
    <3>1. /\ TypeOK /\ answer[c][s] = "asked"
          /\ answer' = [answer EXCEPT ![c][s] = "sending"]
      BY DEF IInv, Answer
    <3>2. "asked" \in Pending /\ "sending" \in Pending
      BY DEF Pending
    <3> QED
      BY <3>1, <3>2, Stays
  <2>3. \A t \in Servers \ {s} :
          answer'[c][t] = answer[c][t] /\ stamp'[c][t] = stamp[c][t]
    BY DEF IInv, TypeOK, Answer
  <2>4. answer[c][s] = "asked" /\ answer'[c][s] = "sending"
    BY DEF IInv, TypeOK, Answer
  <2>5. Accepted(c)' = Accepted(c)
    BY <2>3, <2>4 DEF Accepted, In
  <2>6. \A t \in Accepted(c) : stamp'[c][t] = stamp[c][t]
    BY <2>3, <2>4 DEF Accepted, In
  <2>7. (result[c].err = "ok" => TimeSound(c) /\ SignersSound(c))'
    BY <2>5, <2>6, SoundFrame DEF IInv, CallInv, Answer
  <2> QED
    BY <2>1, <2>2, <2>3, <2>4, <2>7, ConfigAssumption
    DEF IInv, TypeOK, CallInv, Answer
<1>3. \A d \in Callers \ {c} :
        /\ pc'[d] = pc[d] /\ answer'[d] = answer[d] /\ stamp'[d] = stamp[d]
        /\ errChan'[d] = errChan[d] /\ result'[d] = result[d]
        /\ validSignatures'[d] = validSignatures[d]
        /\ remainingServers'[d] = remainingServers[d]
  BY DEF IInv, TypeOK, Answer
<1> QED
  BY <1>1, <1>2, <1>3, OneCall

(* A goroutine reports an error: one unit moves to errChan.                *)
LEMMA FailStep ==
  ASSUME IInv, NEW c \in Callers, NEW s \in Servers, Fail(c, s)
  PROVE  IInv'
<1> USE DEF clock, counts
<1>1. TypeOK'
  BY DEF IInv, TypeOK, Fail
<1>2. CallInv(c)'
  <2>1. /\ Cardinality(Accepted(c)) \in Nat /\ Cardinality(Unresolved(c)) \in Nat
        /\ Cardinality(Erred(c)) \in Nat
    BY InFinite DEF Accepted, Unresolved, Erred
  <2>2. /\ Cardinality(Accepted(c)') = Cardinality(Accepted(c))
        /\ Cardinality(Unresolved(c)') = Cardinality(Unresolved(c)) - 1
        /\ Cardinality(Erred(c)') = Cardinality(Erred(c)) + 1
    <3>1. /\ TypeOK /\ answer[c][s] = "asked"
          /\ answer' = [answer EXCEPT ![c][s] = "failed"]
      BY DEF IInv, Fail
    <3>2. "asked" \in Pending /\ "failed" \in {"failed", "rejected"}
      BY DEF Pending
    <3> QED
      BY <3>1, <3>2, Errs
  <2>3. \A t \in Servers \ {s} :
          answer'[c][t] = answer[c][t] /\ stamp'[c][t] = stamp[c][t]
    BY DEF IInv, TypeOK, Fail
  <2>4. answer[c][s] = "asked" /\ answer'[c][s] = "failed"
    BY DEF IInv, TypeOK, Fail
  <2>5. Accepted(c)' = Accepted(c)
    BY <2>3, <2>4 DEF Accepted, In
  <2>6. \A t \in Accepted(c) : stamp'[c][t] = stamp[c][t]
    BY <2>3, <2>4 DEF Accepted, In
  <2>7. (result[c].err = "ok" => TimeSound(c) /\ SignersSound(c))'
    BY <2>5, <2>6, SoundFrame DEF IInv, CallInv, Fail
  <2> QED
    BY <2>1, <2>2, <2>3, <2>4, <2>7, ConfigAssumption
    DEF IInv, TypeOK, CallInv, Fail
<1>3. \A d \in Callers \ {c} :
        /\ pc'[d] = pc[d] /\ answer'[d] = answer[d] /\ stamp'[d] = stamp[d]
        /\ errChan'[d] = errChan[d] /\ result'[d] = result[d]
        /\ validSignatures'[d] = validSignatures[d]
        /\ remainingServers'[d] = remainingServers[d]
  BY DEF IInv, TypeOK, Fail
<1> QED
  BY <1>1, <1>2, <1>3, OneCall

(* A goroutine sends.                                                      *)
LEMMA SendStep ==
  ASSUME IInv, NEW c \in Callers, NEW s \in Servers, Send(c, s)
  PROVE  IInv'
<1> USE DEF clock, counts
<1>1. TypeOK'
  BY DEF IInv, TypeOK, Send
<1>2. CallInv(c)'
  <2>1. /\ Cardinality(Accepted(c)) \in Nat /\ Cardinality(Unresolved(c)) \in Nat
        /\ Cardinality(Erred(c)) \in Nat
    BY InFinite DEF Accepted, Unresolved, Erred
  <2>2. /\ Cardinality(Accepted(c)') = Cardinality(Accepted(c))
        /\ Cardinality(Unresolved(c)') = Cardinality(Unresolved(c))
        /\ Cardinality(Erred(c)') = Cardinality(Erred(c))
    <3>1. /\ TypeOK /\ answer[c][s] = "sending"
          /\ answer' = [answer EXCEPT ![c][s] = "queued"]
      BY DEF IInv, Send
    <3>2. "sending" \in Pending /\ "queued" \in Pending
      BY DEF Pending
    <3> QED
      BY <3>1, <3>2, Stays
  <2>3. \A t \in Servers \ {s} :
          answer'[c][t] = answer[c][t] /\ stamp'[c][t] = stamp[c][t]
    BY DEF IInv, TypeOK, Send
  <2>4. answer[c][s] = "sending" /\ answer'[c][s] = "queued"
    BY DEF IInv, TypeOK, Send
  <2>5. Accepted(c)' = Accepted(c)
    BY <2>3, <2>4 DEF Accepted, In
  <2>6. \A t \in Accepted(c) : stamp'[c][t] = stamp[c][t]
    BY <2>3, <2>4 DEF Accepted, In
  <2>7. (result[c].err = "ok" => TimeSound(c) /\ SignersSound(c))'
    BY <2>5, <2>6, SoundFrame DEF IInv, CallInv, Send
  <2> QED
    BY <2>1, <2>2, <2>3, <2>4, <2>7, ConfigAssumption
    DEF IInv, TypeOK, CallInv, Send
<1>3. \A d \in Callers \ {c} :
        /\ pc'[d] = pc[d] /\ answer'[d] = answer[d] /\ stamp'[d] = stamp[d]
        /\ errChan'[d] = errChan[d] /\ result'[d] = result[d]
        /\ validSignatures'[d] = validSignatures[d]
        /\ remainingServers'[d] = remainingServers[d]
  BY DEF IInv, TypeOK, Send
<1> QED
  BY <1>1, <1>2, <1>3, OneCall

(* The drift error: the call returns.                                      *)
LEMMA ReceiveDriftingStep ==
  ASSUME IInv, NEW c \in Callers, NEW s \in Servers, ReceiveDrifting(c, s)
  PROVE  IInv'
<1> USE DEF clock, counts
<1>1. TypeOK'
  <2>1. \A k \in Outcomes : Error(k) \in Results
    BY ConfigAssumption DEF Error, Results, Time
  <2> QED
    BY <2>1 DEF IInv, TypeOK, Return, ReceiveDrifting, OneFewer
<1>2. CallInv(c)'
  <2>1. /\ Cardinality(Accepted(c)) \in Nat /\ Cardinality(Unresolved(c)) \in Nat
        /\ Cardinality(Erred(c)) \in Nat
    BY InFinite DEF Accepted, Unresolved, Erred
  <2>2. /\ TypeOK /\ answer[c][s] = "queued"
        /\ answer' = [answer EXCEPT ![c][s] = "dropped"]
    BY DEF IInv, ReceiveDrifting, Queued, In
  <2>3. /\ Cardinality(Accepted(c)') = Cardinality(Accepted(c))
        /\ Cardinality(Unresolved(c)') = Cardinality(Unresolved(c)) - 1
        /\ Cardinality(Erred(c)') = Cardinality(Erred(c))
    <3>1. "queued" \in Pending /\ "dropped" \in {"dropped"}
      BY DEF Pending
    <3> QED
      BY <2>2, <3>1, Drops
  <2>4. /\ answer'[c][s] = "dropped" /\ stamp' = stamp
        /\ \A t \in Servers \ {s} : answer'[c][t] = answer[c][t]
    BY <2>2 DEF TypeOK, ReceiveDrifting
  <2> QED
    BY <2>1, <2>2, <2>3, <2>4, ConfigAssumption
    DEF IInv, TypeOK, CallInv, ReceiveDrifting, Return, Error, OneFewer
<1>3. \A d \in Callers \ {c} :
        /\ pc'[d] = pc[d] /\ answer'[d] = answer[d] /\ stamp'[d] = stamp[d]
        /\ errChan'[d] = errChan[d] /\ result'[d] = result[d]
        /\ validSignatures'[d] = validSignatures[d]
        /\ remainingServers'[d] = remainingServers[d]
  BY DEF IInv, TypeOK, ReceiveDrifting, Return
<1> QED
  BY <1>1, <1>2, <1>3, OneCall

(* The collector takes an answer from the future.                          *)
LEMMA ReceiveFutureStep ==
  ASSUME IInv, NEW c \in Callers, NEW s \in Servers, ReceiveFuture(c, s)
  PROVE  IInv'
<1> USE DEF clock, counts
<1>1. TypeOK'
  BY DEF IInv, TypeOK, ReceiveFuture
<1>2. CallInv(c)'
  <2>1. /\ Cardinality(Accepted(c)) \in Nat /\ Cardinality(Unresolved(c)) \in Nat
        /\ Cardinality(Erred(c)) \in Nat
    BY InFinite DEF Accepted, Unresolved, Erred
  <2>2. /\ TypeOK /\ answer[c][s] = "queued"
        /\ answer' = [answer EXCEPT ![c][s] = "rejecting"]
    BY DEF IInv, ReceiveFuture, Queued, In
  <2>3. /\ Cardinality(Accepted(c)') = Cardinality(Accepted(c))
        /\ Cardinality(Unresolved(c)') = Cardinality(Unresolved(c))
        /\ Cardinality(Erred(c)') = Cardinality(Erred(c))
    <3>1. "queued" \in Pending /\ "rejecting" \in Pending
      BY DEF Pending
    <3> QED
      BY <2>2, <3>1, Stays
  <2>4. /\ answer'[c][s] = "rejecting" /\ stamp' = stamp
        /\ \A t \in Servers \ {s} : answer'[c][t] = answer[c][t]
    BY <2>2 DEF TypeOK, ReceiveFuture
  <2> QED
    BY <2>1, <2>2, <2>3, <2>4, ConfigAssumption
    DEF IInv, TypeOK, CallInv, ReceiveFuture
<1>3. \A d \in Callers \ {c} :
        /\ pc'[d] = pc[d] /\ answer'[d] = answer[d] /\ stamp'[d] = stamp[d]
        /\ errChan'[d] = errChan[d] /\ result'[d] = result[d]
        /\ validSignatures'[d] = validSignatures[d]
        /\ remainingServers'[d] = remainingServers[d]
  BY DEF IInv, TypeOK, ReceiveFuture
<1> QED
  BY <1>1, <1>2, <1>3, OneCall

(* It turns it into an error.                                              *)
LEMMA RejectStep ==
  ASSUME IInv, NEW c \in Callers, NEW s \in Servers, Reject(c, s)
  PROVE  IInv'
<1> USE DEF clock, counts
<1>1. TypeOK'
  BY DEF IInv, TypeOK, Reject
<1>2. CallInv(c)'
  <2>1. /\ Cardinality(Accepted(c)) \in Nat /\ Cardinality(Unresolved(c)) \in Nat
        /\ Cardinality(Erred(c)) \in Nat
    BY InFinite DEF Accepted, Unresolved, Erred
  <2>2. /\ TypeOK /\ answer[c][s] = "rejecting"
        /\ answer' = [answer EXCEPT ![c][s] = "rejected"]
    BY DEF IInv, Reject, Queued, In
  <2>3. /\ Cardinality(Accepted(c)') = Cardinality(Accepted(c))
        /\ Cardinality(Unresolved(c)') = Cardinality(Unresolved(c)) - 1
        /\ Cardinality(Erred(c)') = Cardinality(Erred(c)) + 1
    <3>1. "rejecting" \in Pending /\ "rejected" \in {"failed", "rejected"}
      BY DEF Pending
    <3> QED
      BY <2>2, <3>1, Errs
  <2>4. /\ answer'[c][s] = "rejected" /\ stamp' = stamp
        /\ \A t \in Servers \ {s} : answer'[c][t] = answer[c][t]
    BY <2>2 DEF TypeOK, Reject
  <2>5. /\ pc[c] = "rejecting" /\ pc'[c] = "select" /\ result'[c].err = "none"
        /\ errChan[c] \in Nat /\ errChan'[c] = errChan[c] + 1
        /\ UNCHANGED <<validSignatures, remainingServers>>
    BY DEF IInv, TypeOK, CallInv, Reject
  <2>6. validSignatures[c] < MinSignatures
    BY <2>5 DEF IInv, CallInv
  <2> QED
    BY <2>1, <2>3, <2>4, <2>5, <2>6 DEF IInv, CallInv
<1>3. \A d \in Callers \ {c} :
        /\ pc'[d] = pc[d] /\ answer'[d] = answer[d] /\ stamp'[d] = stamp[d]
        /\ errChan'[d] = errChan[d] /\ result'[d] = result[d]
        /\ validSignatures'[d] = validSignatures[d]
        /\ remainingServers'[d] = remainingServers[d]
  BY DEF IInv, TypeOK, Reject
<1> QED
  BY <1>1, <1>2, <1>3, OneCall

(* Leaving a call keeps the types of what it sets.                         *)
LEMMA ReturnType ==
  ASSUME TypeOK, NEW c \in Callers, NEW r \in Results, Return(c, r)
  PROVE  /\ result' \in [Callers -> Results] /\ pc' \in [Callers -> PCs]
         /\ mu' \in Callers \cup {NoCaller}
BY DEF TypeOK, Return

(* The set of servers on which an acceptance concludes is what             *)
(* ConcludeSound asks for.                                                 *)
LEMMA ReceiveConclude ==
  ASSUME IInv, NEW c \in Callers, NEW s \in Servers, Receive(c, s),
         validSignatures'[c] >= MinSignatures
  PROVE  LET S == Accepted(c) \cup {s}
         IN  /\ Conclude(c, S) \in Results
             /\ Conclude(c, S).err \in {"ok", "aggregate"}
             /\ (/\ Accepted(c)' = S /\ result'[c] = Conclude(c, S)
                 /\ stamp' = stamp /\ Conclude(c, S).err = "ok")
                  => TimeSound(c)' /\ SignersSound(c)'
<1> DEFINE S == Accepted(c) \cup {s}
<1>1. TypeOK /\ answer[c][s] = "queued" /\ pc[c] = "select"
  BY DEF IInv, Receive, Queued, In
<1>2. S \subseteq Servers /\ s \notin Accepted(c)
  BY <1>1 DEF Accepted, In
<1>3. /\ IsFiniteSet(Accepted(c)) /\ Cardinality(Accepted(c)) \in Nat
      /\ Cardinality(Accepted(c)) < MinSignatures
      /\ validSignatures'[c] = Cardinality(Accepted(c)) + 1
  BY <1>1, InFinite DEF IInv, TypeOK, CallInv, Receive, Accepted
<1>4. Cardinality(S) = Cardinality(Accepted(c)) + 1
  BY <1>2, <1>3, FS_AddElement
<1>5. Cardinality(S) = MinSignatures
  BY <1>3, <1>4, ConfigAssumption
<1>6. \A t \in S : stamp[c][t] <= MaxDrift
  <2>1. \A t \in Accepted(c) : stamp[c][t] <= MaxDrift
    BY DEF IInv, CallInv, Accepted, In
  <2>2. stamp[c][s] <= MaxDrift
    BY <1>1, ConfigAssumption DEF TypeOK, Time, Receive, TooFarInFuture
  <2> QED
    BY <2>1, <2>2
<1> QED
  BY <1>1, <1>2, <1>5, <1>6, ConcludeSound

(* It accepts an answer; with the last one needed, the result is sound.    *)
LEMMA ReceiveStep ==
  ASSUME IInv, NEW c \in Callers, NEW s \in Servers, Receive(c, s)
  PROVE  IInv'
<1> USE DEF clock, counts
<1>1. TypeOK'
  <2>1. \A k \in Outcomes : Error(k) \in Results
    BY ConfigAssumption DEF Error, Results, Time
  <2>2. validSignatures'[c] >= MinSignatures =>
          Conclude(c, Accepted(c) \cup {s}) \in Results
    BY ReceiveConclude
  <2>3. /\ result' \in [Callers -> Results] /\ pc' \in [Callers -> PCs]
        /\ mu' \in Callers \cup {NoCaller}
    <3>1. (\E r \in Results : Return(c, r)) \/ UNCHANGED <<mu, pc, result>>
      <4>1. Error("notenough") \in Results
        BY <2>1
      <4> QED
        BY <2>2, <4>1 DEF Receive
    <3> QED
      BY <3>1, ReturnType DEF IInv, TypeOK
  <2>4. /\ answer' \in [Callers -> [Servers -> Answers]]
        /\ validSignatures' \in [Callers -> Nat]
        /\ remainingServers' \in [Callers -> Int]
        /\ UNCHANGED <<clock, stamp, errChan>>
    BY DEF IInv, TypeOK, Receive, OneFewer
  <2> QED
    BY <2>3, <2>4 DEF IInv, TypeOK
<1>2. CallInv(c)'
  <2>1. /\ Cardinality(Accepted(c)) \in Nat /\ Cardinality(Unresolved(c)) \in Nat
        /\ Cardinality(Erred(c)) \in Nat
    BY InFinite DEF Accepted, Unresolved, Erred
  <2>2. /\ TypeOK /\ answer[c][s] = "queued"
        /\ answer' = [answer EXCEPT ![c][s] = "accepted"]
    BY DEF IInv, Receive, Queued, In
  <2>3. /\ Cardinality(Accepted(c)') = Cardinality(Accepted(c)) + 1
        /\ Cardinality(Unresolved(c)') = Cardinality(Unresolved(c)) - 1
        /\ Cardinality(Erred(c)') = Cardinality(Erred(c))
    <3>1. "queued" \in Pending /\ "accepted" \in {"accepted"}
      BY DEF Pending
    <3> QED
      BY <2>2, <3>1, Accepts
  <2>4. /\ answer'[c][s] = "accepted" /\ stamp' = stamp
        /\ \A t \in Servers \ {s} : answer'[c][t] = answer[c][t]
    BY <2>2 DEF TypeOK, Receive
  <2>5. Accepted(c)' = Accepted(c) \cup {s} /\ stamp[c][s] <= MaxDrift
    <3>1. stamp[c][s] \in Nat /\ MaxDrift \in Nat
      BY ConfigAssumption DEF IInv, TypeOK, Time
    <3> QED
      BY <2>2, <2>4, <3>1 DEF Accepted, In, Receive, TooFarInFuture
  <2>6. CASE validSignatures'[c] >= MinSignatures
    <3> DEFINE S == Accepted(c) \cup {s}
    <3>1. Return(c, Conclude(c, S))
      BY <2>6, ConfigAssumption DEF IInv, TypeOK, Receive
    <3>2. Conclude(c, S).err \in {"ok", "aggregate"}
      BY ReceiveConclude, <2>6
    <3>3. result'[c] = Conclude(c, S) /\ pc'[c] = "returned"
      BY <3>1 DEF Return, IInv, TypeOK
    <3>4. result'[c].err = "ok" => TimeSound(c)' /\ SignersSound(c)'
      BY ReceiveConclude, <2>6, <2>4, <2>5, <3>3
    <3> HIDE DEF S
    <3> QED
      BY <2>1, <2>2, <2>3, <2>4, <2>5, <3>2, <3>3, <3>4
      DEF IInv, TypeOK, CallInv, Receive
  <2>7. CASE validSignatures'[c] < MinSignatures
    <3>1. \/ /\ ~CannotReach(validSignatures'[c], remainingServers'[c])
             /\ result'[c].err = "none" /\ pc'[c] = "select"
          \/ /\ CannotReach(validSignatures'[c], remainingServers'[c])
             /\ result'[c].err = "notenough" /\ pc'[c] = "returned"
      BY <2>7, ConfigAssumption DEF IInv, TypeOK, CallInv, Receive, Return, Error
    <3>2. remainingServers'[c] = Cardinality(Unresolved(c)') + errChan'[c]
      BY <2>1, <2>3 DEF IInv, TypeOK, CallInv, Receive, OneFewer
    <3> QED
      BY <2>1, <2>2, <2>3, <2>4, <2>5, <2>7, <3>1, <3>2, ConfigAssumption
      DEF IInv, TypeOK, CallInv, Receive, CannotReach
  <2>8. validSignatures'[c] \in Int
    BY DEF IInv, TypeOK, Receive
  <2> QED
    BY <2>6, <2>7, <2>8, ConfigAssumption
<1>3. \A d \in Callers \ {c} :
        /\ pc'[d] = pc[d] /\ answer'[d] = answer[d] /\ stamp'[d] = stamp[d]
        /\ errChan'[d] = errChan[d] /\ result'[d] = result[d]
        /\ validSignatures'[d] = validSignatures[d]
        /\ remainingServers'[d] = remainingServers[d]
  BY DEF IInv, TypeOK, Receive, Return
<1> QED
  BY <1>1, <1>2, <1>3, OneCall

(* It reads an error, and may give up.                                     *)
LEMMA ReceiveErrorStep ==
  ASSUME IInv, NEW c \in Callers, ReceiveError(c)
  PROVE  IInv'
<1> USE DEF clock, counts
<1>1. TypeOK'
  <2>1. \A k \in Outcomes : Error(k) \in Results
    BY ConfigAssumption DEF Error, Results, Time
  <2>2. /\ result' \in [Callers -> Results] /\ pc' \in [Callers -> PCs]
        /\ mu' \in Callers \cup {NoCaller}
    <3>1. (\E r \in Results : Return(c, r)) \/ UNCHANGED <<mu, pc, result>>
      <4>1. Error("notenough") \in Results
        BY <2>1
      <4> QED
        BY <4>1 DEF ReceiveError
    <3> QED
      BY <3>1, ReturnType DEF IInv, TypeOK
  <2>3. errChan' \in [Callers -> Nat]
    BY DEF IInv, TypeOK, ReceiveError, HasError
  <2> QED
    BY <2>2, <2>3 DEF IInv, TypeOK, ReceiveError, OneFewer
<1>2. CallInv(c)'
  <2>1. /\ Cardinality(Accepted(c)) \in Nat /\ Cardinality(Unresolved(c)) \in Nat
        /\ Cardinality(Erred(c)) \in Nat
    BY InFinite DEF Accepted, Unresolved, Erred
  <2>2. \A P : In(c, P)' = In(c, P)
    BY DEF In, ReceiveError
  <2>3. /\ Accepted(c)' = Accepted(c) /\ Unresolved(c)' = Unresolved(c)
        /\ Erred(c)' = Erred(c)
    BY <2>2 DEF Accepted, Unresolved, Erred
  <2>4. remainingServers'[c] = Cardinality(Unresolved(c)') + errChan'[c]
    BY <2>1, <2>3 DEF IInv, TypeOK, CallInv, ReceiveError, OneFewer
  <2>5. \/ /\ ~CannotReach(validSignatures[c], remainingServers'[c])
           /\ result'[c].err = "none" /\ pc'[c] = "select"
        \/ /\ CannotReach(validSignatures[c], remainingServers'[c])
           /\ result'[c].err = "notenough" /\ pc'[c] = "returned"
    BY DEF IInv, TypeOK, CallInv, ReceiveError, Return, Error
  <2> QED
    BY <2>1, <2>3, <2>4, <2>5, ConfigAssumption
    DEF IInv, TypeOK, CallInv, ReceiveError, CannotReach, HasError
<1>3. \A d \in Callers \ {c} :
        /\ pc'[d] = pc[d] /\ answer'[d] = answer[d] /\ stamp'[d] = stamp[d]
        /\ errChan'[d] = errChan[d] /\ result'[d] = result[d]
        /\ validSignatures'[d] = validSignatures[d]
        /\ remainingServers'[d] = remainingServers[d]
  BY DEF IInv, TypeOK, ReceiveError, Return
<1> QED
  BY <1>1, <1>2, <1>3, OneCall

(* It gives up because its context is done.                                *)
LEMMA TimeoutStep ==
  ASSUME IInv, NEW c \in Callers, Timeout(c)
  PROVE  IInv'
<1> USE DEF clock, counts
<1>1. TypeOK'
  <2>1. \A k \in Outcomes : Error(k) \in Results
    BY ConfigAssumption DEF Error, Results, Time
  <2> QED
    BY <2>1 DEF IInv, TypeOK, Return, Timeout
<1>2. CallInv(c)'
  <2>1. /\ Cardinality(Accepted(c)) \in Nat /\ Cardinality(Unresolved(c)) \in Nat
        /\ Cardinality(Erred(c)) \in Nat
    BY InFinite DEF Accepted, Unresolved, Erred
  <2>2. \A P : In(c, P)' = In(c, P)
    BY DEF In, Timeout
  <2>3. /\ Accepted(c)' = Accepted(c) /\ Unresolved(c)' = Unresolved(c)
        /\ Erred(c)' = Erred(c)
    BY <2>2 DEF Accepted, Unresolved, Erred
  <2> QED
    BY <2>1, <2>3 DEF IInv, TypeOK, CallInv, Timeout, Return, Error
<1>3. \A d \in Callers \ {c} :
        /\ pc'[d] = pc[d] /\ answer'[d] = answer[d] /\ stamp'[d] = stamp[d]
        /\ errChan'[d] = errChan[d] /\ result'[d] = result[d]
        /\ validSignatures'[d] = validSignatures[d]
        /\ remainingServers'[d] = remainingServers[d]
  BY DEF IInv, TypeOK, Timeout, Return
<1> QED
  BY <1>1, <1>2, <1>3, OneCall

(* Cancelling and the passing of time disturb no call.                     *)
LEMMA EnvironmentStep ==
  ASSUME IInv, NEW c \in Callers, Cancel(c) \/ Tick(c)
  PROVE  IInv'
<1> USE DEF clock, counts
<1>1. TypeOK'
  BY ConfigAssumption DEF IInv, TypeOK, Time, Cancel, Tick
<1>2. UNCHANGED <<pc, answer, stamp, errChan, counts, result>>
  BY DEF Cancel, Tick
<1>3. \A d \in Callers : CallInv(d)'
  BY <1>2, Frame DEF IInv
<1> QED
  BY <1>1, <1>3 DEF IInv

-----------------------------------------------------------------------------

(* The invariant holds initially.                                          *)
LEMMA InitInv == Init => IInv
<1> SUFFICES ASSUME Init PROVE IInv
  OBVIOUS
<1>1. TypeOK
  BY ConfigAssumption DEF Init, TypeOK, Time, Error, Results
<1>2. ASSUME NEW c \in Callers PROVE CallInv(c)
  <2>1. \A s \in Servers : answer[c][s] = "none"
    BY DEF Init
  <2>2. Accepted(c) = {} /\ Unresolved(c) = {} /\ Erred(c) = {}
    BY <2>1 DEF Accepted, Unresolved, Erred, In
  <2>3. Cardinality(Accepted(c)) = 0 /\ Cardinality(Erred(c)) = 0
    BY <2>2, FS_EmptySet
  <2> QED
    BY <2>1, <2>3, ConfigAssumption DEF Init, CallInv, Error
<1> QED
  BY <1>1, <1>2 DEF IInv

(* And after every step.                                                   *)
LEMMA NextInv == IInv /\ [Next]_vars => IInv'
<1> SUFFICES ASSUME IInv, [Next]_vars PROVE IInv'
  OBVIOUS
<1>1. CASE UNCHANGED vars
  <2>1. TypeOK'
    BY <1>1 DEF IInv, TypeOK, vars, clock, counts
  <2>2. \A d \in Callers : CallInv(d)'
    BY <1>1, Frame DEF IInv, vars, clock, counts
  <2> QED
    BY <2>1, <2>2 DEF IInv
<1>2. ASSUME NEW c \in Callers, Call(c) PROVE IInv'
  BY <1>2, CallStep
<1>3. ASSUME NEW c \in Callers, Lock(c) PROVE IInv'
  BY <1>3, LockStep
<1>4. ASSUME NEW c \in Callers, NEW s \in Servers, Goroutine(c, s) PROVE IInv'
  BY <1>4, AnswerStep, FailStep, SendStep DEF Goroutine
<1>5. ASSUME NEW c \in Callers, Collect(c) PROVE IInv'
  BY <1>5, ReceiveDriftingStep, ReceiveFutureStep, RejectStep, ReceiveStep,
     ReceiveErrorStep, TimeoutStep DEF Collect
<1>6. ASSUME NEW c \in Callers, Cancel(c) \/ Tick(c) PROVE IInv'
  BY <1>6, EnvironmentStep
<1> QED
  BY <1>1, <1>2, <1>3, <1>4, <1>5, <1>6 DEF Next

(* The bookkeeping of GetTimestamp keeps its types.                        *)
THEOREM TypeCorrect == Spec => []TypeOK
<1>1. IInv => TypeOK
  BY DEF IInv
<1> QED
  BY <1>1, InitInv, NextInv, PTL DEF Spec

(* The counters of the collector are exact in every reachable state.       *)
THEOREM CountersExact == Spec => []AccountingExact
<1>1. IInv => AccountingExact
  BY DEF IInv, CallInv, AccountingExact
<1> QED
  BY <1>1, InitInv, NextInv, PTL DEF Spec

(* The collector never blocks on its own errChan: the answer it is         *)
(* rejecting is not among those that filled it.                            *)
THEOREM CollectorNeverBlocksItself == Spec => []RejectNeverBlocks
<1>1. IInv => RejectNeverBlocks
  <2> SUFFICES ASSUME IInv, NEW c \in Callers, pc[c] = "rejecting"
               PROVE  errChan[c] < ErrCap
    BY DEF RejectNeverBlocks
  <2>1. PICK s \in Servers : answer[c][s] = "rejecting"
    BY DEF IInv, CallInv
  <2>2. Erred(c) \subseteq Servers /\ s \notin Erred(c)
    BY <2>1 DEF Erred, In
  <2>3. IsFiniteSet(Erred(c)) /\ Cardinality(Erred(c)) \in Nat
    BY InFinite DEF Erred
  <2>4. Cardinality(Erred(c) \cup {s}) = Cardinality(Erred(c)) + 1
    BY <2>2, <2>3, FS_AddElement
  <2>5. Cardinality(Erred(c) \cup {s}) <= Cardinality(Servers)
    BY <2>2, ServersAssumption, FS_Subset
  <2>6. Cardinality(Servers) \in Nat
    BY ServersAssumption, FS_CardinalityType
  <2> QED
    BY <2>3, <2>4, <2>5, <2>6 DEF IInv, TypeOK, CallInv, ErrCap
<1> QED
  BY <1>1, InitInv, NextInv, PTL DEF Spec

(* Whoever is told that there are not enough signatures could not have got *)
(* enough by waiting.                                                      *)
THEOREM GivingUpIsJustified == Spec => []GiveUpIsFinal
<1>1. IInv => GiveUpIsFinal
  BY DEF IInv, CallInv, GiveUpIsFinal
<1> QED
  BY <1>1, InitInv, NextInv, PTL DEF Spec

(* And whoever still waits could.                                          *)
THEOREM GivingUpIsPrompt == Spec => []GivesUpAtOnce
<1>1. IInv => GivesUpAtOnce
  <2> SUFFICES ASSUME IInv, NEW c \in Callers, pc[c] = "select",
                      Cardinality(Unresolved(c)) + errChan[c] < Cardinality(Servers)
               PROVE  Cardinality(Accepted(c))
                        + (Cardinality(Unresolved(c)) + errChan[c]) >= MinSignatures
    BY DEF GivesUpAtOnce
  <2>1. Cardinality(Accepted(c)) \in Nat /\ Cardinality(Unresolved(c)) \in Nat
    BY InFinite DEF Accepted, Unresolved
  <2> QED
    BY <2>1, ConfigAssumption DEF IInv, TypeOK, CallInv, CannotReach
<1> QED
  BY <1>1, InitInv, NextInv, PTL DEF Spec

(* Every timestamp the fast path returns is the median of MinSignatures    *)
(* stamps within MaxDrift, signed by Threshold verified servers.           *)
THEOREM TimestampsSound == Spec => []ResultSound
<1>1. IInv => ResultSound
  BY DEF IInv, CallInv, ResultSound
<1> QED
  BY <1>1, InitInv, NextInv, PTL DEF Spec

(* Wired with no public keys, the fast path serves no call.                *)
THEOREM UnverifiedNeverServes == Spec => []NeverServesUnverified
<1>1. IInv => NeverServesUnverified
  <2> SUFFICES ASSUME IInv, Verified = {}, Threshold > 0, NEW c \in Callers,
                      result[c].err = "ok"
               PROVE  FALSE
    BY DEF NeverServesUnverified
  <2>1. result[c].signers = {} /\ Cardinality(result[c].signers) = Threshold
    BY DEF IInv, CallInv, SignersSound
  <2> QED
    BY <2>1, FS_EmptySet, ThresholdAssumption
<1> QED
  BY <1>1, InitInv, NextInv, PTL DEF Spec

(* After a success no goroutine is left blocked on sigChan, whatever the   *)
(* number of servers, as long as it is at most twice MinSignatures: those  *)
(* that were not accepted are then no more than sigChan has room for.      *)
THEOREM SuccessLeavesRoom == Spec => []NoLeakOnSuccess
<1>1. ASSUME IInv, Cardinality(Servers) <= 2 * MinSignatures,
             NEW c \in Callers, result[c].err = "ok"
      PROVE  Cardinality(In(c, {"asked", "sending", "queued"})) <= SigCap
  <2> DEFINE A == Accepted(c)
             O == In(c, {"asked", "sending", "queued"})
  <2>1. Cardinality(A) = MinSignatures
    BY <1>1 DEF IInv, CallInv, TimeSound
  <2>2. A \subseteq Servers /\ O \subseteq Servers \ A
    BY DEF Accepted, In
  <2> HIDE DEF A, O
  <2>3. /\ IsFiniteSet(Servers \ A) /\ Cardinality(Servers) \in Nat
        /\ Cardinality(Servers \ A) = Cardinality(Servers) - Cardinality(Servers \cap A)
    BY ServersAssumption, FS_Difference, FS_CardinalityType
  <2>4. Cardinality(O) \in Nat /\ Cardinality(O) <= Cardinality(Servers \ A)
    BY <2>2, <2>3, FS_Subset, FS_CardinalityType
  <2>5. Servers \cap A = A
    BY <2>2
  <2>6. Cardinality(O) <= MinSignatures
    <3>1. MinSignatures \in Nat
      BY ConfigAssumption
    <3>2. Cardinality(O) <= Cardinality(Servers) - MinSignatures
      BY <2>1, <2>3, <2>4, <2>5
    <3> QED
      BY <1>1, <2>3, <2>4, <3>1, <3>2
  <2> QED
    BY <2>6 DEF O, SigCap
<1>2. IInv => NoLeakOnSuccess
  BY <1>1 DEF NoLeakOnSuccess
<1> QED
  BY <1>2, InitInv, NextInv, PTL DEF Spec

=============================================================================
