------------------------------- MODULE Engine -------------------------------
(***************************************************************************)
(* The consensus engine and its state: Consensus (consensus.go), State     *)
(* (types.go, state.go), LeaderElection (leader.go) and ValidatorElection  *)
(* (election.go) of core/consensus, whose methods goroutines call          *)
(* concurrently.                                                           *)
(*                                                                         *)
(* What the methods have in common is how they lock: a method is the       *)
(* sequence of its lock operations, of its accesses to the fields of State *)
(* and of its use of the network; a call of another method stands for that *)
(* method's sequence.  NodeID stands for the fields that are only read,    *)
(* LastTime and LastDigest are read and written as View is.  The sequence  *)
(* of StartViewChange is what it would do if its second step returned.     *)
(*                                                                         *)
(* The mutexes are sync.RWMutex: a writer first announces itself, which    *)
(* holds off later readers and other writers, and then waits for the       *)
(* readers to leave; neither kind of lock may be taken again by its owner  *)
(* once a writer has announced itself.                                     *)
(***************************************************************************)
EXTENDS Integers, Sequences, FiniteSets

CONSTANTS
  Goroutines,
  NoGoroutine,
  Calls,         \* the methods they call, once each
  Validators,    \* len(le.validators)
  IntViews       \* a view is below 2 * IntViews; int(view) is negative from
                 \*   IntViews on, where uint64 has 2^63

Mutexes == {"c.mu", "le.mu", "state.mu"}

-----------------------------------------------------------------------------
(* The methods.                                                            *)

Lock(m)    == <<[do |-> "Lock", of |-> m]>>
Unlock(m)  == <<[do |-> "Unlock", of |-> m]>>
RLock(m)   == <<[do |-> "RLock", of |-> m]>>
RUnlock(m) == <<[do |-> "RUnlock", of |-> m]>>
Read(f)    == <<[do |-> "Read", of |-> f]>>
Write(f)   == <<[do |-> "Write", of |-> f]>>
Index      == <<[do |-> "Index", of |-> "le.validators"]>>
Network    == <<[do |-> "Network", of |-> "c.network"]>>

GetField(f) == RLock("state.mu") \o Read(f) \o RUnlock("state.mu")
SetFieldShared(f) == RLock("state.mu") \o Write(f) \o RUnlock("state.mu")
SetField(f) == Lock("state.mu") \o Write(f) \o Unlock("state.mu")

ElectLeaderExclusive == Lock("le.mu") \o Unlock("le.mu")
ElectLeader      == RLock("le.mu") \o RUnlock("le.mu")
GetLeaderForView == RLock("le.mu") \o Index \o RUnlock("le.mu")
IsLeader         == RLock("le.mu") \o GetLeaderForView \o GetField("NodeID")
                    \o RUnlock("le.mu")
LeaderElectionGetLeader == RLock("le.mu") \o Read("Leader") \o RUnlock("le.mu")

ElectionStartViewChange ==
  Lock("state.mu") \o GetField("View") \o GetField("NodeID")
  \o SetField("View") \o SetField("Leader") \o GetField("NodeID")
  \o Unlock("state.mu")

StartOrStop == Lock("c.mu") \o Network \o Unlock("c.mu")
ProposeTimestampNoUnlock == Lock("c.mu") \o GetField("View")
                            \o GetField("NodeID") \o Network
ProposeTimestamp == Lock("c.mu") \o GetField("View") \o GetField("NodeID")
                    \o Network \o Unlock("c.mu")
GetState == RLock("c.mu") \o RUnlock("c.mu")

Method == [GetView          |-> GetField("View"),
           GetLeader        |-> GetField("Leader"),
           SetView          |-> SetField("View"),
           SetLeader        |-> SetField("Leader"),
           ElectLeader      |-> ElectLeader,
           IsLeader         |-> IsLeader,
           IsLeaderNode     |-> LeaderElectionGetLeader,
           StartViewChange  |-> ElectionStartViewChange,
           StartOrStop      |-> StartOrStop,
           ProposeTimestamp |-> ProposeTimestamp,
           GetState         |-> GetState]

ASSUME EngineAssumption ==
  /\ IsFiniteSet(Goroutines) /\ NoGoroutine \notin Goroutines
  /\ Calls \subseteq DOMAIN Method
  /\ Validators \in Nat /\ IntViews \in Nat \ {0}

VARIABLES
  method,      \* what a goroutine runs, "none" before it does
  next,        \* its next step
  writer,      \* who has announced itself as the writer of a mutex
  readers,     \* how many hold it for reading
  crashed      \* for which view GetLeaderForView panicked, -1 for none

engineVars == <<method, next, writer, readers, crashed>>

-----------------------------------------------------------------------------

Running(g)  == method[g] # "none" /\ next[g] <= Len(Method[method[g]])
Returned(g) == method[g] # "none" /\ next[g] > Len(Method[method[g]])
Step(g)     == Method[method[g]][next[g]]

(* int(view) % len(le.validators), whose sign is that of int(view).        *)
GoInt(view) == IF view < IntViews THEN view ELSE view - 2 * IntViews
GoMod(a, n) == IF a >= 0 THEN a % n ELSE -((-a) % n)
LeaderIndexUnsized(view) == GoInt(view)
LeaderIndex(view) == GoMod(GoInt(view), Validators)

EngineInit ==
  /\ method = [g \in Goroutines |-> "none"]
  /\ next = [g \in Goroutines |-> 1]
  /\ writer = [m \in Mutexes |-> NoGoroutine]
  /\ readers = [m \in Mutexes |-> 0]
  /\ crashed = -1

Call(g) ==
  /\ method[g] = "none"
  /\ \E c \in Calls : method' = [method EXCEPT ![g] = c]
  /\ UNCHANGED <<next, writer, readers, crashed>>

Advance(g, what) == /\ Running(g) /\ Step(g).do = what
                    /\ next' = [next EXCEPT ![g] = @ + 1]
                    /\ UNCHANGED method

(* Lock, in two steps.                                                     *)
Announce(g) ==
  /\ Running(g) /\ Step(g).do = "Lock"
  /\ writer[Step(g).of] = NoGoroutine
  /\ writer' = [writer EXCEPT ![Step(g).of] = g]
  /\ UNCHANGED <<method, next, readers, crashed>>

Acquire(g) ==
  /\ Advance(g, "Lock")
  /\ writer[Step(g).of] = g /\ readers[Step(g).of] = 0
  /\ UNCHANGED <<writer, readers, crashed>>

DoUnlock(g) ==
  /\ Advance(g, "Unlock")
  /\ writer' = [writer EXCEPT ![Step(g).of] = NoGoroutine]
  /\ UNCHANGED <<readers, crashed>>

DoRLock(g) ==
  /\ Advance(g, "RLock")
  /\ writer[Step(g).of] = NoGoroutine
  /\ readers' = [readers EXCEPT ![Step(g).of] = @ + 1]
  /\ UNCHANGED <<writer, crashed>>

DoRUnlock(g) ==
  /\ Advance(g, "RUnlock")
  /\ readers' = [readers EXCEPT ![Step(g).of] = @ - 1]
  /\ UNCHANGED <<writer, crashed>>

(* Reading or writing a field, and a call into the network that returns.   *)
Access(g) ==
  /\ \/ Advance(g, "Read") \/ Advance(g, "Write") \/ Advance(g, "Network")
  /\ UNCHANGED <<writer, readers, crashed>>

(* le.validators[...] of GetLeaderForView, for any view the caller asks    *)
(* about: without validators it returns "", and an index out of range ends *)
(* the process.                                                            *)
InRange(view) == Validators = 0 \/ LeaderIndex(view) \in 0 .. Validators - 1

DoIndex(g) ==
  /\ Running(g) /\ Step(g).do = "Index"
  /\ \/ /\ \E view \in 0 .. 2 * IntViews - 1 : InRange(view)
        /\ Advance(g, "Index")
        /\ UNCHANGED crashed
     \/ /\ \E view \in 0 .. 2 * IntViews - 1 : ~InRange(view) /\ crashed' = view
        /\ UNCHANGED <<method, next>>
  /\ UNCHANGED <<writer, readers>>

Proceed(g) == \/ Announce(g) \/ Acquire(g) \/ DoUnlock(g) \/ DoRLock(g)
              \/ DoRUnlock(g) \/ Access(g) \/ DoIndex(g)

EngineNext == crashed = -1 /\ \E g \in Goroutines : Call(g) \/ Proceed(g)

(* A goroutine that is not blocked runs on: the network's own calls return.*)
EngineSpec == /\ EngineInit /\ [][EngineNext]_engineVars
        /\ \A g \in Goroutines : WF_engineVars(crashed = -1 /\ Proceed(g))

-----------------------------------------------------------------------------

(* A field of State is never written while another goroutine reads or      *)
(* writes it, with one exception: LeaderElection.GetLeader and             *)
(* IsLeaderNode read Leader under le.mu, which does not protect it.        *)
At(g, what, f) == Running(g) /\ Step(g) = [do |-> what, of |-> f]
RacesOnlyOnLeader ==
  \A g, h \in Goroutines, f \in {"View", "Leader", "NodeID"} :
    /\ g # h
    /\ At(g, "Write", f)
    /\ At(h, "Read", f) \/ At(h, "Write", f)
    => f = "Leader" /\ method[h] = "IsLeaderNode"

(* GetLeaderForView finds a leader for every view whose number an int can  *)
(* hold, and no other makes it panic.                                      *)
PanicsOnlyBeyondInt == crashed # -1 => crashed >= IntViews

(* StartViewChange, once it has state.mu, waits for itself.                *)
Wedged == \E g \in Goroutines :
  method[g] = "StartViewChange" /\ writer["state.mu"] = g /\ next[g] > 1

(* Every call returns and leaves every mutex free, whatever runs at the    *)
(* same time, unless a StartViewChange blocks on the mutex it holds.       *)
CallsReturn ==
  \/ <>(Wedged \/ crashed # -1)
  \/ <>[](/\ \A g \in Goroutines : ~Running(g)
          /\ \A m \in Mutexes : writer[m] = NoGoroutine /\ readers[m] = 0)

(* Even then ElectLeader, IsLeaderNode and LeaderElection.GetLeader        *)
(* return: an IsLeader that waits for state.mu holds le.mu for reading     *)
(* only, and nobody writes.                                                *)
LeaderReadsReturn ==
  \A g \in Goroutines :
    Running(g) /\ method[g] \in {"ElectLeader", "IsLeaderNode"}
      ~> Returned(g) \/ crashed # -1

=============================================================================
