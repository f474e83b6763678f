----------------------------- MODULE ViewChange -----------------------------
(***************************************************************************)
(* ViewChange of core/consensus/view.go on every validator, with the       *)
(* network between them: a node asks for the next view by moving to it and *)
(* broadcasting, and a node that holds messages of a majority for a view   *)
(* moves to that view.                                                     *)
(*                                                                         *)
(* A message carries its view, its sender and the time it was made, of     *)
(* which the model keeps that two messages of one sender differ: nth.      *)
(* A broadcast stops at the first peer it cannot send to and reports an    *)
(* error that undoes nothing, so it reaches any of the others.  Messages   *)
(* are delivered in any order, late or never.                              *)
(***************************************************************************)
EXTENDS Integers, FiniteSets

CONSTANTS
  Nodes,     \* state.Validators, on each of which a ViewChange runs
  MaxView,   \* the bound on views
  MaxAsks    \* the bound on the number of requests, of all nodes together

ASSUME NodesAssumption == IsFiniteSet(Nodes)
ASSUME BoundsAssumption == MaxView \in Nat /\ MaxAsks \in Nat

VARIABLES
  viewID,    \* vc.viewID of each node
  messages,  \* the messages each node holds, in the lists of all views
  flight,    \* those on their way to each node
  asked      \* those ever made (history)

vars == <<viewID, messages, flight, asked>>

Views    == 0 .. MaxView
Messages == [from : Nodes, view : Views, nth : 1 .. MaxAsks]

-----------------------------------------------------------------------------
(* An operator whose name says what is wrong with it is a faulty version   *)
(* of the definition that follows it, which the properties detect.         *)

(* The messages for view v in a set of messages: vc.messages[view].        *)
For(v, M) == {m \in M : m.view = v}

(* The test of line 80.                                                    *)
EnoughForHalf(M) == Cardinality(M) >= Cardinality(Nodes) \div 2
Enough(M) == Cardinality(M) >= Cardinality(Nodes) \div 2 + 1

Init ==
  /\ viewID = [n \in Nodes |-> 0]
  /\ messages = [n \in Nodes |-> {}]
  /\ flight = [n \in Nodes |-> {}]
  /\ asked = {}

(* Node n moves to the next view, keeps its own message and broadcasts it. *)
(* It does not look at how many messages it holds now.                     *)
StartViewChange(n) ==
  LET v == viewID[n] + 1
      k == Cardinality({m \in asked : m.from = n /\ m.view = v}) + 1
      msg == [from |-> n, view |-> v, nth |-> k]
  IN  /\ v <= MaxView /\ Cardinality(asked) < MaxAsks
      /\ viewID' = [viewID EXCEPT ![n] = v]
      /\ messages' = [messages EXCEPT ![n] = @ \cup {msg}]
      /\ asked' = asked \cup {msg}
      /\ \E R \in SUBSET (Nodes \ {n}) :
           flight' = [p \in Nodes |-> IF p \in R THEN flight[p] \cup {msg}
                                                 ELSE flight[p]]

(* Node n gets a message, keeps it, and if it now holds enough for the     *)
(* view of the message moves to that view, be it ahead or behind.          *)
ProcessViewChangeMessage(n, msg) ==
  LET M == messages[n] \cup {msg}
  IN  /\ msg \in flight[n]
      /\ flight' = [flight EXCEPT ![n] = @ \ {msg}]
      /\ messages' = [messages EXCEPT ![n] = M]
      /\ \/ /\ Enough(For(msg.view, M))
            /\ viewID' = [viewID EXCEPT ![n] = msg.view]
         \/ /\ ~Enough(For(msg.view, M))
            /\ UNCHANGED viewID
      /\ UNCHANGED asked

Next == \E n \in Nodes : \/ StartViewChange(n)
                         \/ \E msg \in flight[n] : ProcessViewChangeMessage(n, msg)

Spec == Init /\ [][Next]_vars

-----------------------------------------------------------------------------

(* The type invariant.                                                     *)
TypeOK ==
  /\ viewID \in [Nodes -> Views]
  /\ messages \in [Nodes -> SUBSET Messages]
  /\ flight \in [Nodes -> SUBSET Messages]
  /\ asked \subseteq Messages

(* A node is in a view it asked for itself, or in one that was asked for   *)
(* as many times, all told, as there are nodes in a majority: a message    *)
(* that was lost, delayed or delivered out of order counts at most once.   *)
ViewWasAskedFor ==
  \A n \in Nodes : viewID[n] # 0 =>
    \/ \E m \in asked : m.from = n /\ m.view = viewID[n]
    \/ 2 * Cardinality(For(viewID[n], asked)) > Cardinality(Nodes)

(* "We have a quorum, update the view" (view.go, line 81): a node that did *)
(* not ask for the view it is in has heard a majority of the nodes ask.    *)
ViewHasQuorum ==
  \A n \in Nodes : viewID[n] # 0 =>
    \/ \E m \in asked : m.from = n /\ m.view = viewID[n]
    \/ Enough({m.from : m \in For(viewID[n], messages[n])})

=============================================================================
