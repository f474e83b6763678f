--------------------------- MODULE ConsensusProofs ---------------------------
(***************************************************************************)
(* Proofs about ViewChange for any number of nodes, views and requests:    *)
(* the type invariant, and that no node ends up in a view that was not     *)
(* asked for.  What makes the second inductive is that everything held or  *)
(* on its way was made by a request, and that requests are finitely many.  *)
(*                                                                         *)
(* Proofs about Engine for any number of goroutines, each calling any of   *)
(* the methods, of validators and of views: where a field of State can be  *)
(* written while it is accessed, for which views GetLeaderForView panics,  *)
(* and that StartViewChange does not return.  They rest on what each step  *)
(* of each method does to the sections that hold state.mu, and on an       *)
(* invariant that ties those sections to the writer and to the number of   *)
(* readers of the mutex.                                                   *)
(***************************************************************************)
EXTENDS ViewChange, Engine, FiniteSetTheorems, TLAPS

(* ViewWasAskedFor, with the majority counted as the code counts it.       *)
AskedEnough ==
  \A n \in Nodes : viewID[n] # 0 =>
    \/ \E m \in asked : m.from = n /\ m.view = viewID[n]
    \/ Enough(For(viewID[n], asked))

IInv ==
  /\ TypeOK
  /\ IsFiniteSet(asked)
  /\ \A n \in Nodes : messages[n] \subseteq asked /\ flight[n] \subseteq asked
  /\ AskedEnough

(* What the code counts as enough is more than half.                       *)
LEMMA EnoughIsMajority ==
  ASSUME NEW M, IsFiniteSet(M), Enough(M)
  PROVE  2 * Cardinality(M) > Cardinality(Nodes)
<1>1. Cardinality(M) \in Nat /\ Cardinality(Nodes) \in Nat
  BY NodesAssumption, FS_CardinalityType
<1> QED
  BY <1>1 DEF Enough

(* More messages are still enough.                                         *)
LEMMA EnoughMonotone ==
  ASSUME NEW M, NEW L, M \subseteq L, IsFiniteSet(L), Enough(M)
  PROVE  Enough(L)
<1>1. /\ Cardinality(M) <= Cardinality(L)
      /\ Cardinality(M) \in Nat /\ Cardinality(L) \in Nat
  BY FS_Subset, FS_CardinalityType
<1>2. Cardinality(Nodes) \in Nat
  BY NodesAssumption, FS_CardinalityType
<1> QED
  BY <1>1, <1>2 DEF Enough

(* Those for one view are finitely many if all are.                        *)
LEMMA ForFinite ==
  ASSUME NEW v, NEW M, NEW L, M \subseteq L, IsFiniteSet(L)
  PROVE  IsFiniteSet(For(v, L)) /\ For(v, M) \subseteq For(v, L)
<1>1. For(v, L) \subseteq L
  BY DEF For
<1> QED
  BY <1>1, FS_Subset DEF For

(* Asking for a view.                                                      *)
LEMMA StartStep ==
  ASSUME IInv, NEW n \in Nodes, StartViewChange(n)
  PROVE  IInv'
<1> DEFINE v == viewID[n] + 1
           mine == {m \in asked : m.from = n /\ m.view = v}
           k == Cardinality(mine) + 1
           msg == [from |-> n, view |-> v, nth |-> k]
<1>1. /\ v <= MaxView /\ Cardinality(asked) < MaxAsks
      /\ viewID' = [viewID EXCEPT ![n] = v]
      /\ messages' = [messages EXCEPT ![n] = @ \cup {msg}]
      /\ asked' = asked \cup {msg}
      /\ \E R \in SUBSET (Nodes \ {n}) :
           flight' = [p \in Nodes |-> IF p \in R THEN flight[p] \cup {msg}
                                                 ELSE flight[p]]
  BY DEF StartViewChange
<1>2. v \in Views
  BY <1>1, BoundsAssumption DEF IInv, TypeOK, Views
<1>3. k \in 1 .. MaxAsks
  <2>1. /\ Cardinality(mine) \in Nat /\ Cardinality(mine) <= Cardinality(asked)
        /\ Cardinality(asked) \in Nat
    BY FS_Subset, FS_CardinalityType DEF IInv
  <2> QED
    BY <2>1, <1>1, BoundsAssumption
<1> HIDE DEF k, v, mine
<1>4. msg \in Messages /\ msg.from = n /\ msg.view = v
  BY <1>2, <1>3 DEF Messages
<1> HIDE DEF msg
<1>5. TypeOK'
  BY <1>1, <1>2, <1>4 DEF IInv, TypeOK
<1>6. IsFiniteSet(asked')
  BY <1>1, FS_AddElement DEF IInv
<1>7. \A p \in Nodes : messages'[p] \subseteq asked' /\ flight'[p] \subseteq asked'
  BY <1>1 DEF IInv, TypeOK
<1>8. AskedEnough'
  <2> SUFFICES ASSUME NEW p \in Nodes, viewID'[p] # 0
               PROVE  \/ \E m \in asked' : m.from = p /\ m.view = viewID'[p]
                      \/ Enough(For(viewID'[p], asked'))
    BY DEF AskedEnough
  <2>1. CASE p = n
    BY <2>1, <1>1, <1>4 DEF IInv, TypeOK
  <2>2. CASE p # n
    <3>1. viewID'[p] = viewID[p] /\ asked \subseteq asked'
      BY <2>2, <1>1 DEF IInv, TypeOK
    <3>2. Enough(For(viewID[p], asked)) => Enough(For(viewID[p], asked'))
      BY <3>1, <1>6, ForFinite, EnoughMonotone
    <3> QED
      BY <3>1, <3>2 DEF IInv, AskedEnough
  <2> QED
    BY <2>1, <2>2
<1> QED
  BY <1>5, <1>6, <1>7, <1>8 DEF IInv

(* Getting a message.                                                      *)
LEMMA ProcessStep ==
  ASSUME IInv, NEW n \in Nodes, NEW msg \in flight[n],
         ProcessViewChangeMessage(n, msg)
  PROVE  IInv'
<1>1. /\ flight' = [flight EXCEPT ![n] = @ \ {msg}]
      /\ messages' = [messages EXCEPT ![n] = @ \cup {msg}]
      /\ asked' = asked
      /\ \/ /\ Enough(For(msg.view, messages[n] \cup {msg}))
            /\ viewID' = [viewID EXCEPT ![n] = msg.view]
         \/ viewID' = viewID
  BY DEF ProcessViewChangeMessage, IInv, TypeOK
<1>2. msg \in Messages /\ msg.view \in Views /\ msg \in asked
  BY DEF IInv, TypeOK, Messages
<1>3. TypeOK'
  BY <1>1, <1>2 DEF IInv, TypeOK
<1>4. \A p \in Nodes : messages'[p] \subseteq asked' /\ flight'[p] \subseteq asked'
  BY <1>1, <1>2 DEF IInv, TypeOK
<1>5. Enough(For(msg.view, messages[n] \cup {msg})) => Enough(For(msg.view, asked))
  <2>1. messages[n] \cup {msg} \subseteq asked /\ IsFiniteSet(asked)
    BY <1>2 DEF IInv
  <2> QED
    BY <2>1, ForFinite, EnoughMonotone
<1>6. AskedEnough'
  <2> SUFFICES ASSUME NEW p \in Nodes, viewID'[p] # 0
               PROVE  \/ \E m \in asked : m.from = p /\ m.view = viewID'[p]
                      \/ Enough(For(viewID'[p], asked))
    BY <1>1 DEF AskedEnough
  <2>1. \/ viewID'[p] = viewID[p]
        \/ viewID'[p] = msg.view /\ Enough(For(msg.view, asked))
    BY <1>1, <1>5 DEF IInv, TypeOK
  <2> QED
    BY <2>1 DEF IInv, AskedEnough
<1> QED
  BY <1>1, <1>3, <1>4, <1>6 DEF IInv

(* The invariant is inductive.                                             *)
LEMMA Inductive == (Init => IInv) /\ (IInv /\ [Next]_vars => IInv')
<1>1. Init => IInv
  BY BoundsAssumption, FS_EmptySet
  DEF Init, IInv, TypeOK, Views, AskedEnough
<1>2. IInv /\ UNCHANGED vars => IInv'
  BY DEF IInv, TypeOK, AskedEnough, Enough, For, vars
<1>3. IInv /\ Next => IInv'
  BY StartStep, ProcessStep DEF Next
<1> QED
  BY <1>1, <1>2, <1>3

(* The state of every node keeps its type: no view beyond those asked for. *)
THEOREM TypeCorrect == Spec => []TypeOK
<1>1. IInv => TypeOK
  BY DEF IInv
<1> QED
  BY <1>1, Inductive, PTL DEF Spec

(* A node is only ever in a view that it, or a majority's worth of         *)
(* requests, asked for: adopting views by the number of messages alone     *)
(* never invents one.                                                      *)
THEOREM ViewsAreAskedFor == Spec => []ViewWasAskedFor
<1>1. IInv => ViewWasAskedFor
  <2> SUFFICES ASSUME IInv, NEW n \in Nodes, viewID[n] # 0
               PROVE  \/ \E m \in asked : m.from = n /\ m.view = viewID[n]
                      \/ 2 * Cardinality(For(viewID[n], asked)) > Cardinality(Nodes)
    BY DEF ViewWasAskedFor
  <2>1. IsFiniteSet(For(viewID[n], asked))
    BY ForFinite DEF IInv
  <2>2. Enough(For(viewID[n], asked)) =>
          2 * Cardinality(For(viewID[n], asked)) > Cardinality(Nodes)
    BY <2>1, EnoughIsMajority
  <2> QED
    BY <2>2 DEF IInv, AskedEnough
<1> QED
  BY <1>1, Inductive, PTL DEF Spec


-----------------------------------------------------------------------------
(* The engine.  Which steps of which method hold state.mu, for reading and *)
(* for writing: those from the one after the lock operation up to the one  *)
(* that gives the mutex back.  StartViewChange never gets beyond its       *)
(* second step.                                                            *)

ReadsState(m, i) ==
  \/ m \in {"GetView", "GetLeader"} /\ i \in {2, 3}
  \/ m = "IsLeader" /\ i \in {6, 7}
  \/ m = "ProposeTimestamp" /\ i \in {3, 4, 6, 7}

WritesState(m, i) ==
  \/ m \in {"SetView", "SetLeader"} /\ i \in {2, 3}
  \/ m = "StartViewChange" /\ i = 2

Reading(g) == ReadsState(method[g], next[g])
Writing(g) == WritesState(method[g], next[g])

EngineTypeOK ==
  /\ method \in [Goroutines -> DOMAIN Method \cup {"none"}]
  /\ next \in [Goroutines -> Nat \ {0}]
  /\ writer \in [Mutexes -> Goroutines \cup {NoGoroutine}]
  /\ readers \in [Mutexes -> Int]

(* Goroutines are where the mutex says they are: whoever is inside a       *)
(* writing section announced itself, the readers are counted, the two      *)
(* exclude each other, and a StartViewChange stays where it blocks.        *)
Sections ==
  /\ \A g \in Goroutines : method[g] = "none" => next[g] = 1
  /\ \A g \in Goroutines : method[g] = "StartViewChange" => next[g] <= 2
  /\ \A g \in Goroutines : Writing(g) => writer["state.mu"] = g
  /\ readers["state.mu"] = Cardinality({g \in Goroutines : Reading(g)})
  /\ \A g, h \in Goroutines : Writing(g) => ~Reading(h)

EngineInv == EngineTypeOK /\ Sections /\ PanicsOnlyBeyondInt


(* How a step of the method m, the i-th, moves into and out of the         *)
(* sections, and that it accesses fields inside of them only.              *)
FitsSections(m, i, s) ==
  LET Is(what) == s.do = what /\ s.of = "state.mu"
  IN /\ ReadsState(m, i + 1) <=> Is("RLock") \/ (ReadsState(m, i) /\ ~Is("RUnlock"))
     /\ WritesState(m, i + 1) <=> Is("Lock") \/ (WritesState(m, i) /\ ~Is("Unlock"))
     /\ Is("RLock") => ~ReadsState(m, i)
     /\ Is("RUnlock") => ReadsState(m, i)
     /\ Is("Unlock") => WritesState(m, i)
     /\ s.do = "Write" => WritesState(m, i)
     /\ s.do = "Read" => ReadsState(m, i) \/ (m = "IsLeaderNode" /\ s.of = "Leader")
     /\ s.do \in {"Lock", "Unlock", "RLock", "RUnlock"} => s.of \in Mutexes

(* Every step of every method fits, with one exception: what               *)
(* StartViewChange would do from its second step on.                       *)
LEMMA StepsFit ==
  ASSUME NEW m \in DOMAIN Method, m # "StartViewChange",
         NEW i \in 1 .. Len(Method[m])
  PROVE  FitsSections(m, i, Method[m][i])
<1>1. CASE m = "GetView"
  <2>1. /\ Len(Method[m]) = 3
        /\ Method[m][1] = [do |-> "RLock", of |-> "state.mu"]
        /\ Method[m][2] = [do |-> "Read", of |-> "View"]
        /\ Method[m][3] = [do |-> "RUnlock", of |-> "state.mu"]
    BY <1>1 DEF Method, GetField, RLock, Read, RUnlock
  <2> QED
    BY <1>1, <2>1 DEF FitsSections, ReadsState, WritesState, Mutexes
<1>2. CASE m = "GetLeader"
  <2>1. /\ Len(Method[m]) = 3
        /\ Method[m][1] = [do |-> "RLock", of |-> "state.mu"]
        /\ Method[m][2] = [do |-> "Read", of |-> "Leader"]
        /\ Method[m][3] = [do |-> "RUnlock", of |-> "state.mu"]
    BY <1>2 DEF Method, GetField, RLock, Read, RUnlock
  <2> QED
    BY <1>2, <2>1 DEF FitsSections, ReadsState, WritesState, Mutexes
<1>3. CASE m = "SetView"
  <2>1. /\ Len(Method[m]) = 3
        /\ Method[m][1] = [do |-> "Lock", of |-> "state.mu"]
        /\ Method[m][2] = [do |-> "Write", of |-> "View"]
        /\ Method[m][3] = [do |-> "Unlock", of |-> "state.mu"]
    BY <1>3 DEF Method, SetField, Lock, Write, Unlock
  <2> QED
    BY <1>3, <2>1 DEF FitsSections, ReadsState, WritesState, Mutexes
<1>4. CASE m = "SetLeader"
  <2>1. /\ Len(Method[m]) = 3
        /\ Method[m][1] = [do |-> "Lock", of |-> "state.mu"]
        /\ Method[m][2] = [do |-> "Write", of |-> "Leader"]
        /\ Method[m][3] = [do |-> "Unlock", of |-> "state.mu"]
    BY <1>4 DEF Method, SetField, Lock, Write, Unlock
  <2> QED
    BY <1>4, <2>1 DEF FitsSections, ReadsState, WritesState, Mutexes
<1>5. CASE m = "ElectLeader"
  <2>1. /\ Len(Method[m]) = 2
        /\ Method[m][1] = [do |-> "RLock", of |-> "le.mu"]
        /\ Method[m][2] = [do |-> "RUnlock", of |-> "le.mu"]
    BY <1>5 DEF Method, ElectLeader, RLock, RUnlock
  <2> QED
    BY <1>5, <2>1 DEF FitsSections, ReadsState, WritesState, Mutexes
<1>6. CASE m = "IsLeaderNode"
  <2>1. /\ Len(Method[m]) = 3
        /\ Method[m][1] = [do |-> "RLock", of |-> "le.mu"]
        /\ Method[m][2] = [do |-> "Read", of |-> "Leader"]
        /\ Method[m][3] = [do |-> "RUnlock", of |-> "le.mu"]
    BY <1>6 DEF Method, LeaderElectionGetLeader, RLock, Read, RUnlock
  <2> QED
    BY <1>6, <2>1 DEF FitsSections, ReadsState, WritesState, Mutexes
<1>7. CASE m = "StartOrStop"
  <2>1. /\ Len(Method[m]) = 3
        /\ Method[m][1] = [do |-> "Lock", of |-> "c.mu"]
        /\ Method[m][2] = [do |-> "Network", of |-> "c.network"]
        /\ Method[m][3] = [do |-> "Unlock", of |-> "c.mu"]
    BY <1>7 DEF Method, StartOrStop, Lock, Network, Unlock
  <2> QED
    BY <1>7, <2>1 DEF FitsSections, ReadsState, WritesState, Mutexes
<1>8. CASE m = "GetState"
  <2>1. /\ Len(Method[m]) = 2
        /\ Method[m][1] = [do |-> "RLock", of |-> "c.mu"]
        /\ Method[m][2] = [do |-> "RUnlock", of |-> "c.mu"]
    BY <1>8 DEF Method, GetState, RLock, RUnlock
  <2> QED
    BY <1>8, <2>1 DEF FitsSections, ReadsState, WritesState, Mutexes
<1>9. CASE m = "IsLeader"
  <2>1. /\ Len(Method[m]) = 8
        /\ Method[m][1] = [do |-> "RLock", of |-> "le.mu"]
        /\ Method[m][2] = [do |-> "RLock", of |-> "le.mu"]
        /\ Method[m][3] = [do |-> "Index", of |-> "le.validators"]
        /\ Method[m][4] = [do |-> "RUnlock", of |-> "le.mu"]
        /\ Method[m][5] = [do |-> "RLock", of |-> "state.mu"]
        /\ Method[m][6] = [do |-> "Read", of |-> "NodeID"]
        /\ Method[m][7] = [do |-> "RUnlock", of |-> "state.mu"]
        /\ Method[m][8] = [do |-> "RUnlock", of |-> "le.mu"]
    BY <1>9 DEF Method, IsLeader, GetLeaderForView, GetField, RLock, Read,
                RUnlock, Index
  <2> QED
    BY <1>9, <2>1 DEF FitsSections, ReadsState, WritesState, Mutexes
<1>10. CASE m = "ProposeTimestamp"
  <2>1. /\ Len(Method[m]) = 9
        /\ Method[m][1] = [do |-> "Lock", of |-> "c.mu"]
        /\ Method[m][2] = [do |-> "RLock", of |-> "state.mu"]
        /\ Method[m][3] = [do |-> "Read", of |-> "View"]
        /\ Method[m][4] = [do |-> "RUnlock", of |-> "state.mu"]
        /\ Method[m][5] = [do |-> "RLock", of |-> "state.mu"]
        /\ Method[m][6] = [do |-> "Read", of |-> "NodeID"]
        /\ Method[m][7] = [do |-> "RUnlock", of |-> "state.mu"]
        /\ Method[m][8] = [do |-> "Network", of |-> "c.network"]
        /\ Method[m][9] = [do |-> "Unlock", of |-> "c.mu"]
    BY <1>10 DEF Method, ProposeTimestamp, GetField, Lock, Unlock, RLock,
                 Read, RUnlock, Network
  <2> QED
    BY <1>10, <2>1 DEF FitsSections, ReadsState, WritesState, Mutexes
<1> QED
  BY <1>1, <1>2, <1>3, <1>4, <1>5, <1>6, <1>7, <1>8, <1>9, <1>10 DEF Method

(* The two steps of StartViewChange that count: it takes state.mu and then *)
(* asks for it again.                                                      *)
LEMMA StartViewChangeSteps ==
  /\ Len(Method["StartViewChange"]) > 2
  /\ Method["StartViewChange"][1] = [do |-> "Lock", of |-> "state.mu"]
  /\ Method["StartViewChange"][2] = [do |-> "RLock", of |-> "state.mu"]
BY DEF Method, ElectionStartViewChange, GetField, SetField, Lock, Unlock,
       RLock, RUnlock, Read, Write


(* A step that can be taken fits: StartViewChange blocks on its second.    *)
LEMMA TakenStepFits ==
  ASSUME EngineInv, NEW g \in Goroutines, Running(g)
  PROVE  \/ /\ FitsSections(method[g], next[g], Step(g))
            /\ method[g] = "StartViewChange" => next[g] = 1
         \/ Step(g).do = "RLock" /\ writer[Step(g).of] = g
<1>1. method[g] \in DOMAIN Method /\ next[g] \in 1 .. Len(Method[method[g]])
  <2>1. method[g] \in DOMAIN Method /\ next[g] \in Nat \ {0}
    BY DEF EngineInv, EngineTypeOK, Running
  <2>2. Len(Method[method[g]]) \in Nat
    OBVIOUS
  <2> QED
    BY <2>1, <2>2 DEF Running
<1>2. CASE method[g] # "StartViewChange"
  BY <1>1, <1>2, StepsFit DEF Step
<1>3. CASE method[g] = "StartViewChange" /\ next[g] = 1
  <2>1. Step(g) = [do |-> "Lock", of |-> "state.mu"]
    BY <1>3, StartViewChangeSteps DEF Step
  <2> QED
    BY <1>3, <2>1 DEF FitsSections, ReadsState, WritesState, Mutexes
<1>4. CASE method[g] = "StartViewChange" /\ next[g] = 2
  <2>1. Step(g) = [do |-> "RLock", of |-> "state.mu"]
    BY <1>4, StartViewChangeSteps DEF Step
  <2>2. writer["state.mu"] = g
    BY <1>4 DEF EngineInv, Sections, Writing, WritesState
  <2> QED
    BY <2>1, <2>2
<1> QED
  BY <1>1, <1>2, <1>3, <1>4 DEF EngineInv, Sections

(* What g's step, one that does what, means for the sections: g moves on   *)
(* within its method, everybody else stays.                                *)
Moves(g, what) ==
  /\ Running(g) /\ Step(g).do = what
  /\ FitsSections(method[g], next[g], Step(g))
  /\ Reading(g)' <=> ReadsState(method[g], next[g] + 1)
  /\ Writing(g)' <=> WritesState(method[g], next[g] + 1)
  /\ \A h \in Goroutines \ {g} : /\ Reading(h)' <=> Reading(h)
                                 /\ Writing(h)' <=> Writing(h)
  /\ method' \in [Goroutines -> DOMAIN Method \cup {"none"}]
  /\ next' \in [Goroutines -> Nat \ {0}]
  /\ \A h \in Goroutines : method'[h] = "none" => next'[h] = 1
  /\ \A h \in Goroutines : method'[h] = "StartViewChange" => next'[h] <= 2

(* Who is in which section after g's step.                                 *)
LEMMA AdvanceMoves ==
  ASSUME EngineInv, NEW g \in Goroutines, NEW what, Advance(g, what),
         writer[Step(g).of] # g \/ what # "RLock"
  PROVE  Moves(g, what)
<1>1. /\ Running(g) /\ Step(g).do = what /\ method' = method
      /\ next' = [next EXCEPT ![g] = @ + 1]
  BY DEF Advance
<1>2. /\ FitsSections(method[g], next[g], Step(g))
      /\ method[g] = "StartViewChange" => next[g] = 1
  BY <1>1, TakenStepFits
<1>3. next'[g] = next[g] + 1 /\ \A h \in Goroutines \ {g} : next'[h] = next[h]
  BY <1>1 DEF EngineInv, EngineTypeOK
<1>4. method[g] # "none"
  BY <1>1 DEF Running
<1>5. /\ Reading(g)' <=> ReadsState(method[g], next[g] + 1)
      /\ Writing(g)' <=> WritesState(method[g], next[g] + 1)
      /\ \A h \in Goroutines \ {g} : /\ Reading(h)' <=> Reading(h)
                                     /\ Writing(h)' <=> Writing(h)
  BY <1>1, <1>3 DEF Reading, Writing
<1>6. next' \in [Goroutines -> Nat \ {0}]
  BY <1>1 DEF EngineInv, EngineTypeOK
<1>7. \A h \in Goroutines : method'[h] = "none" => next'[h] = 1
  BY <1>1, <1>3, <1>4 DEF EngineInv, Sections
<1>8. \A h \in Goroutines : method'[h] = "StartViewChange" => next'[h] <= 2
  BY <1>1, <1>2, <1>3 DEF EngineInv, Sections
<1> QED
  BY <1>1, <1>2, <1>5, <1>6, <1>7, <1>8 DEF Moves, EngineInv, EngineTypeOK

(* The readers are finitely many.                                          *)
LEMMA ReadersFinite ==
  /\ IsFiniteSet({g \in Goroutines : Reading(g)})
  /\ Cardinality({g \in Goroutines : Reading(g)}) \in Nat
BY EngineAssumption, FS_Subset, FS_CardinalityType

(* A step that leaves the sections alone.                                  *)
LEMMA SectionsStay ==
  ASSUME EngineInv, writer'["state.mu"] = writer["state.mu"],
         readers'["state.mu"] = readers["state.mu"],
         \A h \in Goroutines : /\ Reading(h)' <=> Reading(h)
                               /\ Writing(h)' <=> Writing(h)
  PROVE  /\ \A g \in Goroutines : Writing(g)' => writer'["state.mu"] = g
         /\ readers'["state.mu"] = Cardinality({g \in Goroutines : Reading(g)'})
         /\ \A g, h \in Goroutines : Writing(g)' => ~Reading(h)'
<1>1. {g \in Goroutines : Reading(g)'} = {g \in Goroutines : Reading(g)}
  OBVIOUS
<1> QED
  BY <1>1 DEF EngineInv, Sections


(* Calling a method.                                                       *)
LEMMA CallStep ==
  ASSUME EngineInv, NEW g \in Goroutines, Call(g)
  PROVE  EngineInv'
<1>1. PICK c \in Calls : method' = [method EXCEPT ![g] = c]
  BY DEF Call
<1>2. /\ method[g] = "none" /\ next' = next /\ writer' = writer
      /\ readers' = readers /\ crashed' = crashed
  BY DEF Call
<1>3. c \in DOMAIN Method /\ next[g] = 1
  BY <1>2, EngineAssumption DEF EngineInv, Sections
<1>4. EngineTypeOK'
  BY <1>1, <1>2, <1>3 DEF EngineInv, EngineTypeOK
<1>5. /\ method'[g] = c /\ next'[g] = 1
      /\ \A h \in Goroutines \ {g} : method'[h] = method[h] /\ next'[h] = next[h]
  BY <1>1, <1>2, <1>3 DEF EngineInv, EngineTypeOK
<1>6. /\ ~Reading(g) /\ ~Writing(g) /\ ~Reading(g)' /\ ~Writing(g)'
  BY <1>2, <1>3, <1>5 DEF Reading, Writing, ReadsState, WritesState
<1>7. \A h \in Goroutines : /\ Reading(h)' <=> Reading(h)
                            /\ Writing(h)' <=> Writing(h)
  BY <1>5, <1>6 DEF Reading, Writing
<1>8. /\ \A h \in Goroutines : method'[h] = "none" => next'[h] = 1
      /\ \A h \in Goroutines : method'[h] = "StartViewChange" => next'[h] <= 2
  BY <1>5 DEF EngineInv, Sections
<1>9. Sections'
  BY <1>2, <1>7, <1>8, SectionsStay DEF Sections
<1> QED
  BY <1>2, <1>4, <1>9 DEF EngineInv, PanicsOnlyBeyondInt

(* Announcing itself as the writer: of a mutex that had none.              *)
LEMMA AnnounceStep ==
  ASSUME EngineInv, NEW g \in Goroutines, Announce(g)
  PROVE  EngineInv'
<1> DEFINE m == Step(g).of
<1>1. /\ Running(g) /\ Step(g).do = "Lock" /\ writer[m] = NoGoroutine
      /\ writer' = [writer EXCEPT ![m] = g] /\ method' = method
      /\ next' = next /\ readers' = readers /\ crashed' = crashed
  BY DEF Announce
<1>2. m \in Mutexes
  BY <1>1, TakenStepFits DEF FitsSections
<1> HIDE DEF m
<1>3. EngineTypeOK'
  BY <1>1, <1>2 DEF EngineInv, EngineTypeOK
<1>4. \A h \in Goroutines : /\ Reading(h)' <=> Reading(h)
                            /\ Writing(h)' <=> Writing(h)
  BY <1>1 DEF Reading, Writing
<1>5. \A h \in Goroutines : Writing(h) => writer'["state.mu"] = h
  BY <1>1, EngineAssumption DEF EngineInv, EngineTypeOK, Sections
<1>6. {h \in Goroutines : Reading(h)'} = {h \in Goroutines : Reading(h)}
  BY <1>4
<1>7. Sections'
  BY <1>1, <1>4, <1>5, <1>6 DEF EngineInv, Sections
<1> QED
  BY <1>1, <1>3, <1>7 DEF EngineInv, PanicsOnlyBeyondInt

(* The lock is acquired when no reader is left: nobody is in a section.    *)
LEMMA AcquireStep ==
  ASSUME EngineInv, NEW g \in Goroutines, Acquire(g)
  PROVE  EngineInv'
<1> DEFINE m == Step(g).of
<1>1. /\ Advance(g, "Lock") /\ writer[m] = g /\ readers[m] = 0
      /\ writer' = writer /\ readers' = readers /\ crashed' = crashed
  BY DEF Acquire
<1>2. Moves(g, "Lock")
  BY <1>1, AdvanceMoves
<1>3. EngineTypeOK'
  BY <1>1, <1>2 DEF Moves, EngineInv, EngineTypeOK
<1>4. Reading(g)' <=> Reading(g)
  BY <1>2 DEF Moves, FitsSections, Reading
<1>5. CASE m = "state.mu"
  <2>1. \A h \in Goroutines : ~Reading(h)
    <3>1. Cardinality({h \in Goroutines : Reading(h)}) = 0
      BY <1>1, <1>5 DEF EngineInv, Sections
    <3> QED
      BY <3>1, ReadersFinite, FS_EmptySet
  <2>2. {h \in Goroutines : Reading(h)'} = {h \in Goroutines : Reading(h)}
    BY <1>2, <1>4 DEF Moves
  <2>3. \A h \in Goroutines : Writing(h)' => writer'["state.mu"] = h
    BY <1>1, <1>2, <1>5 DEF Moves, EngineInv, Sections
  <2>4. Sections'
    BY <1>1, <1>2, <1>4, <2>1, <2>2, <2>3 DEF Moves, EngineInv, Sections
  <2> QED
    BY <1>1, <1>3, <2>4 DEF EngineInv, PanicsOnlyBeyondInt
<1>6. CASE m # "state.mu"
  <2>1. Writing(g)' <=> Writing(g)
    BY <1>2, <1>6 DEF Moves, FitsSections, Writing
  <2>2. Sections'
    BY <1>1, <1>2, <1>4, <2>1, SectionsStay DEF Moves, Sections
  <2> QED
    BY <1>1, <1>3, <2>2 DEF EngineInv, PanicsOnlyBeyondInt
<1> QED
  BY <1>5, <1>6


(* The writer leaves.                                                      *)
LEMMA UnlockStep ==
  ASSUME EngineInv, NEW g \in Goroutines, DoUnlock(g)
  PROVE  EngineInv'
<1> DEFINE m == Step(g).of
<1>1. /\ Advance(g, "Unlock") /\ writer' = [writer EXCEPT ![m] = NoGoroutine]
      /\ readers' = readers /\ crashed' = crashed
  BY DEF DoUnlock
<1>2. Moves(g, "Unlock")
  BY <1>1, AdvanceMoves
<1>3. m \in Mutexes
  BY <1>2 DEF Moves, FitsSections
<1>4. Reading(g)' <=> Reading(g)
  BY <1>2 DEF Moves, FitsSections, Reading
<1>5. EngineTypeOK'
  BY <1>1, <1>2, <1>3 DEF Moves, EngineInv, EngineTypeOK
<1>6. {h \in Goroutines : Reading(h)'} = {h \in Goroutines : Reading(h)}
  BY <1>2, <1>4 DEF Moves
<1>7. CASE m = "state.mu"
  <2>1. Writing(g) /\ ~Writing(g)'
    BY <1>2, <1>7 DEF Moves, FitsSections, Writing, ReadsState, WritesState
  <2>2. \A h \in Goroutines : ~Writing(h)'
    BY <1>2, <2>1 DEF Moves, EngineInv, Sections
  <2>3. Sections'
    BY <1>1, <1>2, <1>6, <2>2 DEF Moves, EngineInv, Sections
  <2> QED
    BY <1>1, <1>5, <2>3 DEF EngineInv, PanicsOnlyBeyondInt
<1>8. CASE m # "state.mu"
  <2>1. Writing(g)' <=> Writing(g)
    BY <1>2, <1>8 DEF Moves, FitsSections, Writing
  <2>2. writer'["state.mu"] = writer["state.mu"]
    BY <1>1, <1>8 DEF EngineInv, EngineTypeOK, Mutexes
  <2>3. Sections'
    BY <1>1, <1>2, <1>4, <2>1, <2>2, SectionsStay DEF Moves, Sections
  <2> QED
    BY <1>1, <1>5, <2>3 DEF EngineInv, PanicsOnlyBeyondInt
<1> QED
  BY <1>7, <1>8

(* A reader enters, when no writer has announced itself, and is counted.   *)
LEMMA RLockStep ==
  ASSUME EngineInv, NEW g \in Goroutines, DoRLock(g)
  PROVE  EngineInv'
<1> DEFINE m == Step(g).of
<1>1. /\ Advance(g, "RLock") /\ writer[m] = NoGoroutine
      /\ readers' = [readers EXCEPT ![m] = @ + 1]
      /\ writer' = writer /\ crashed' = crashed
  BY DEF DoRLock
<1>2. Moves(g, "RLock")
  BY <1>1, AdvanceMoves, EngineAssumption
<1>3. m \in Mutexes
  BY <1>2 DEF Moves, FitsSections
<1>4. Writing(g)' <=> Writing(g)
  BY <1>2 DEF Moves, FitsSections, Writing
<1>5. EngineTypeOK'
  BY <1>1, <1>2, <1>3 DEF Moves, EngineInv, EngineTypeOK
<1>6. CASE m = "state.mu"
  <2>1. ~Reading(g) /\ Reading(g)'
    BY <1>2, <1>6 DEF Moves, FitsSections, Reading
  <2>2. \A h \in Goroutines : ~Writing(h)'
    BY <1>1, <1>2, <1>4, <1>6, EngineAssumption DEF Moves, EngineInv, Sections
  <2>3. {h \in Goroutines : Reading(h)'} = {h \in Goroutines : Reading(h)} \cup {g}
    BY <1>2, <2>1 DEF Moves
  <2>4. readers'["state.mu"] = Cardinality({h \in Goroutines : Reading(h)'})
    <3> DEFINE S == {h \in Goroutines : Reading(h)}
    <3>1. readers'["state.mu"] = Cardinality(S) + 1
      BY <1>1, <1>3, <1>6 DEF EngineInv, EngineTypeOK, Sections
    <3>2. IsFiniteSet(S) /\ g \notin S
      BY <2>1, ReadersFinite
    <3> HIDE DEF S
    <3>3. Cardinality(S \cup {g}) = Cardinality(S) + 1
      BY <3>2, FS_AddElement
    <3> QED
      BY <2>3, <3>1, <3>3 DEF S
  <2>5. Sections'
    BY <1>2, <2>2, <2>4 DEF Moves, Sections
  <2> QED
    BY <1>1, <1>5, <2>5 DEF EngineInv, PanicsOnlyBeyondInt
<1>7. CASE m # "state.mu"
  <2>1. Reading(g)' <=> Reading(g)
    BY <1>2, <1>7 DEF Moves, FitsSections, Reading
  <2>2. readers'["state.mu"] = readers["state.mu"]
    BY <1>1, <1>7 DEF EngineInv, EngineTypeOK, Mutexes
  <2>3. Sections'
    BY <1>1, <1>2, <1>4, <2>1, <2>2, SectionsStay DEF Moves, Sections
  <2> QED
    BY <1>1, <1>5, <2>3 DEF EngineInv, PanicsOnlyBeyondInt
<1> QED
  BY <1>6, <1>7

(* A reader leaves, and was counted.                                       *)
LEMMA RUnlockStep ==
  ASSUME EngineInv, NEW g \in Goroutines, DoRUnlock(g)
  PROVE  EngineInv'
<1> DEFINE m == Step(g).of
<1>1. /\ Advance(g, "RUnlock") /\ readers' = [readers EXCEPT ![m] = @ - 1]
      /\ writer' = writer /\ crashed' = crashed
  BY DEF DoRUnlock
<1>2. Moves(g, "RUnlock")
  BY <1>1, AdvanceMoves
<1>3. m \in Mutexes
  BY <1>2 DEF Moves, FitsSections
<1>4. Writing(g)' <=> Writing(g)
  BY <1>2 DEF Moves, FitsSections, Writing
<1>5. EngineTypeOK'
  BY <1>1, <1>2, <1>3 DEF Moves, EngineInv, EngineTypeOK
<1>6. CASE m = "state.mu"
  <2>1. Reading(g) /\ ~Reading(g)'
    BY <1>2, <1>6 DEF Moves, FitsSections, Reading
  <2>2. {h \in Goroutines : Reading(h)'} = {h \in Goroutines : Reading(h)} \ {g}
    BY <1>2, <2>1 DEF Moves
  <2>3. readers'["state.mu"] = Cardinality({h \in Goroutines : Reading(h)'})
    <3> DEFINE S == {h \in Goroutines : Reading(h)}
    <3>1. readers'["state.mu"] = Cardinality(S) - 1
      BY <1>1, <1>3, <1>6 DEF EngineInv, EngineTypeOK, Sections
    <3>2. IsFiniteSet(S) /\ g \in S
      BY <2>1, ReadersFinite
    <3> HIDE DEF S
    <3>3. Cardinality(S \ {g}) = Cardinality(S) - 1
      BY <3>2, FS_RemoveElement
    <3> QED
      BY <2>2, <3>1, <3>3 DEF S
  <2>4. \A h, k \in Goroutines : Writing(h)' => ~Reading(k)'
    BY <1>2, <1>4, <2>1 DEF Moves, EngineInv, Sections
  <2>5. \A h \in Goroutines : Writing(h)' => writer'["state.mu"] = h
    BY <1>1, <1>2, <1>4 DEF Moves, EngineInv, Sections
  <2>6. Sections'
    BY <1>2, <2>3, <2>4, <2>5 DEF Moves, Sections
  <2> QED
    BY <1>1, <1>5, <2>6 DEF EngineInv, PanicsOnlyBeyondInt
<1>7. CASE m # "state.mu"
  <2>1. Reading(g)' <=> Reading(g)
    BY <1>2, <1>7 DEF Moves, FitsSections, Reading
  <2>2. readers'["state.mu"] = readers["state.mu"]
    BY <1>1, <1>7 DEF EngineInv, EngineTypeOK, Mutexes
  <2>3. Sections'
    BY <1>1, <1>2, <1>4, <2>1, <2>2, SectionsStay DEF Moves, Sections
  <2> QED
    BY <1>1, <1>5, <2>3 DEF EngineInv, PanicsOnlyBeyondInt
<1> QED
  BY <1>6, <1>7

(* Every other step of a method stays in its section.                      *)
LEMMA QuietStep ==
  ASSUME EngineInv, NEW g \in Goroutines,
         NEW what \in {"Read", "Write", "Network", "Index"}, Advance(g, what),
         UNCHANGED <<writer, readers, crashed>>
  PROVE  EngineInv'
<1>1. writer' = writer /\ readers' = readers /\ crashed' = crashed
  OBVIOUS
<1>2. Moves(g, what)
  BY AdvanceMoves
<1>3. EngineTypeOK'
  BY <1>1, <1>2 DEF Moves, EngineInv, EngineTypeOK
<1>4. (Reading(g)' <=> Reading(g)) /\ (Writing(g)' <=> Writing(g))
  BY <1>2 DEF Moves, FitsSections, Reading, Writing
<1>5. Sections'
  BY <1>1, <1>2, <1>4, SectionsStay DEF Moves, Sections
<1> QED
  BY <1>1, <1>3, <1>5 DEF EngineInv, PanicsOnlyBeyondInt

(* What GetLeaderForView computes for a view that an int can hold.         *)
LEMMA IntViewsInRange ==
  ASSUME NEW view \in Nat, view < IntViews
  PROVE  InRange(view)
<1>1. CASE Validators = 0
  BY <1>1 DEF InRange
<1>2. CASE Validators # 0
  <2>1. LeaderIndex(view) = view % Validators
    BY DEF LeaderIndex, GoInt, GoMod
  <2>2. view % Validators \in 0 .. Validators - 1
    BY <1>2, EngineAssumption
  <2> QED
    BY <2>1, <2>2 DEF InRange
<1> QED
  BY <1>1, <1>2

(* The index: taken, or a panic.                                           *)
LEMMA IndexStep ==
  ASSUME EngineInv, NEW g \in Goroutines, DoIndex(g)
  PROVE  EngineInv'
<1>1. CASE Advance(g, "Index") /\ crashed' = crashed
  BY <1>1, QuietStep DEF DoIndex
<1>2. CASE /\ \E view \in 0 .. 2 * IntViews - 1 : ~InRange(view) /\ crashed' = view
           /\ UNCHANGED <<method, next>>
  <2>1. /\ method' = method /\ next' = next /\ writer' = writer
        /\ readers' = readers
    BY <1>2 DEF DoIndex
  <2>2. PICK view \in 0 .. 2 * IntViews - 1 : ~InRange(view) /\ crashed' = view
    BY <1>2
  <2>3. view \in Nat /\ view >= IntViews
    BY <2>2, IntViewsInRange, EngineAssumption
  <2>4. PanicsOnlyBeyondInt'
    BY <2>2, <2>3 DEF PanicsOnlyBeyondInt
  <2> QED
    BY <2>1, <2>4 DEF EngineInv, EngineTypeOK, Sections, Reading, Writing
<1> QED
  BY <1>1, <1>2 DEF DoIndex

(* The invariant of the engine is inductive.                               *)
LEMMA EngineInductive ==
  /\ EngineInit => EngineInv
  /\ EngineInv /\ [EngineNext]_engineVars => EngineInv'
<1>1. EngineInit => EngineInv
  <2> SUFFICES ASSUME EngineInit PROVE EngineInv
    OBVIOUS
  <2>1. EngineTypeOK /\ PanicsOnlyBeyondInt
    BY DEF EngineInit, EngineTypeOK, PanicsOnlyBeyondInt
  <2>2. \A g \in Goroutines : ~Reading(g) /\ ~Writing(g)
    BY DEF EngineInit, Reading, Writing, ReadsState, WritesState
  <2>3. Cardinality({g \in Goroutines : Reading(g)}) = 0
    BY <2>2, FS_EmptySet
  <2>4. Sections
    BY <2>2, <2>3 DEF EngineInit, Sections, Mutexes
  <2> QED
    BY <2>1, <2>4 DEF EngineInv
<1>2. EngineInv /\ UNCHANGED engineVars => EngineInv'
  BY DEF EngineInv, EngineTypeOK, Sections, Reading, Writing,
         PanicsOnlyBeyondInt, engineVars
<1>3. ASSUME EngineInv, NEW g \in Goroutines, Proceed(g)
      PROVE  EngineInv'
  <2>1. CASE Announce(g)
    BY <1>3, <2>1, AnnounceStep
  <2>2. CASE Acquire(g)
    BY <1>3, <2>2, AcquireStep
  <2>3. CASE DoUnlock(g)
    BY <1>3, <2>3, UnlockStep
  <2>4. CASE DoRLock(g)
    BY <1>3, <2>4, RLockStep
  <2>5. CASE DoRUnlock(g)
    BY <1>3, <2>5, RUnlockStep
  <2>6. CASE Access(g)
    BY <1>3, <2>6, QuietStep DEF Access
  <2>7. CASE DoIndex(g)
    BY <1>3, <2>7, IndexStep
  <2> QED
    BY <1>3, <2>1, <2>2, <2>3, <2>4, <2>5, <2>6, <2>7 DEF Proceed
<1>4. EngineInv /\ EngineNext => EngineInv'
  BY <1>3, CallStep DEF EngineNext
<1> QED
  BY <1>2, <1>1, <1>4

(* However many goroutines call the engine, its state and its elections,   *)
(* in whatever order their lock operations interleave, a field of State is *)
(* never written while another goroutine reads or writes it, except Leader *)
(* while LeaderElection.GetLeader or IsLeaderNode reads it under le.mu.    *)
THEOREM OnlyLeaderRaces == EngineSpec => []RacesOnlyOnLeader
<1>1. EngineInv => RacesOnlyOnLeader
  <2> SUFFICES ASSUME EngineInv, NEW g \in Goroutines, NEW h \in Goroutines,
                      NEW f, g # h, At(g, "Write", f),
                      At(h, "Read", f) \/ At(h, "Write", f)
               PROVE  f = "Leader" /\ method[h] = "IsLeaderNode"
    BY DEF RacesOnlyOnLeader
  <2>1. /\ Running(g) /\ Step(g).do = "Write"
        /\ Running(h) /\ Step(h).do \in {"Read", "Write"} /\ Step(h).of = f
    BY DEF At
  <2>2. Writing(g) /\ writer["state.mu"] = g
    BY <2>1, TakenStepFits DEF FitsSections, Writing, EngineInv, Sections
  <2>3. ~Reading(h) /\ ~Writing(h)
    BY <2>2 DEF EngineInv, Sections
  <2> QED
    BY <2>1, <2>3, TakenStepFits DEF FitsSections, Reading, Writing
<1> QED
  BY <1>1, EngineInductive, PTL DEF EngineSpec

(* For any number of validators and any width of the integers, the only    *)
(* views for which GetLeaderForView panics are those that an int cannot    *)
(* hold.                                                                   *)
THEOREM IndexPanicsBeyondInt == EngineSpec => []PanicsOnlyBeyondInt
<1>1. EngineInv => PanicsOnlyBeyondInt
  BY DEF EngineInv
<1> QED
  BY <1>1, EngineInductive, PTL DEF EngineSpec

(* No call of ValidatorElection.StartViewChange ever returns, whatever     *)
(* else runs: with state.mu locked it calls GetView, which waits for it.   *)
THEOREM StartViewChangeNeverReturns ==
  EngineSpec => [](\A g \in Goroutines :
                     method[g] = "StartViewChange" => ~Returned(g))
<1> DEFINE Stuck == \A g \in Goroutines :
                      method[g] = "StartViewChange" => ~Returned(g)
<1>1. EngineInv => Stuck
  <2>1. Len(Method["StartViewChange"]) > 2
    BY StartViewChangeSteps
  <2>2. Len(Method["StartViewChange"]) \in Nat
    OBVIOUS
  <2> QED
    BY <2>1, <2>2 DEF EngineInv, EngineTypeOK, Sections, Returned
<1> QED
  BY <1>1, EngineInductive, PTL DEF EngineSpec

=============================================================================
