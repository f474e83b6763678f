------------------------------- MODULE Gossip -------------------------------
(***************************************************************************)
(* The Gossip of core/p2p/gossip.go on every node, over the P2PNetwork of  *)
(* core/p2p/network.go: a message is sent to the peers of its origin, and  *)
(* a node that receives one it has not seen handles it and forwards it to  *)
(* its other peers.  What a node has seen is forgotten periodically.       *)
(*                                                                         *)
(* A node listens for gossip if the protocol was registered when its       *)
(* network started; a send fails if, and only if, the peer does not        *)
(* listen: connections do not break.  A stream is read by a single Read,   *)
(* which may fail or return only a part of the message: it is lost then,   *)
(* as part of a JSON object is none.  JSON gives back what it was given.   *)
(* Stop only ends the forgetting, and a message without a handler is like  *)
(* one whose handler does nothing.  Messages are identified, as by msgID,  *)
(* by their origin and time: nth.  Each stream is handled by a goroutine   *)
(* of its own, so streams are not ordered; flight and handling count those *)
(* that are alike.                                                         *)
(***************************************************************************)
EXTENDS Integers, FiniteSets

CONSTANTS
  Nodes,
  Links,           \* the connections, as sets of two nodes
  Origins,         \* the nodes that broadcast
  FaultyChoices,   \* the sets of nodes whose registered handler may fail
  MaxSent,         \* the bound on the broadcasts, of all nodes together
  MaxLost,         \* the bound on the connections on which reads fail
  MaxWipes         \* the bound on the times a node forgets

ASSUME LinksAssumption ==
  /\ Origins \subseteq Nodes /\ FaultyChoices \subseteq SUBSET Nodes
  /\ \A l \in Links : l \subseteq Nodes
ASSUME BoundsAssumption ==
  MaxSent \in Nat /\ MaxLost \in Nat /\ MaxWipes \in Nat

VARIABLES
  faulty,      \* the nodes whose handler may fail
  registered,  \* the nodes whose Gossip was started
  started,     \* those whose network was
  listening,   \* those with a stream handler for the protocol
  sent,        \* the messages broadcast
  whole,       \* those broadcast while every node listened (history)
  flight,      \* the streams from one node to another with a message
  lost,        \* where a message was lost: sender, receiver, message (history)
  seenMsgs,    \* g.seenMsgs of each node
  handling,    \* the goroutines past the test of seenMsgs, by sender and message
  handled,     \* how often the handler of each node ran for a message (history)
  wipes        \* how often each node has forgotten (history)

boot == <<faulty, registered, started, listening>>
origin == <<sent, whole>>
gossipVars == <<boot, origin, flight, lost, seenMsgs, handling, handled, wipes>>

Messages == [from : Origins, nth : 1 .. MaxSent]
PeersOf(n) == {p \in Nodes \ {n} : {n, p} \in Links}

-----------------------------------------------------------------------------
(* An operator whose name says what is wrong with it is a faulty version   *)
(* of the definition that follows it, which the properties detect.         *)

(* Whether the loop of P2PNetwork.Start meets the gossip protocol.         *)
IsRegisteredAlways(n) == TRUE
IsRegistered(n) == n \in registered

(* The test of seenMsgs.                                                   *)
UnseenOnceHandled(n, msg) == handled[n][msg] = 0
Unseen(n, msg) == msg \notin seenMsgs[n]

(* The peers a message is forwarded to.                                    *)
OnwardBack(n, via) == PeersOf(n) \cap {via}
Onward(n, via) == PeersOf(n) \ {via}

(* A stream with the message is opened from n to each of R.                *)
Streams(n, R, msg) ==
  [a \in Nodes |-> [b \in Nodes |-> [m \in Messages |->
     IF a = n /\ b \in R /\ m = msg THEN flight[a][b][m] + 1 ELSE flight[a][b][m]]]]

(* What P2PNetwork.Broadcast may reach: it sends to one peer after the     *)
(* other and stops at the first that cannot be sent to.                    *)
Reach(n) == IF PeersOf(n) \subseteq listening
            THEN {PeersOf(n)} ELSE SUBSET (PeersOf(n) \cap listening)

-----------------------------------------------------------------------------

GossipInit ==
  /\ faulty \in FaultyChoices
  /\ registered = {} /\ started = {} /\ listening = {}
  /\ sent = {} /\ whole = {}
  /\ flight = [a \in Nodes |-> [b \in Nodes |-> [m \in Messages |-> 0]]]
  /\ lost = {}
  /\ seenMsgs = [n \in Nodes |-> {}]
  /\ handling = [n \in Nodes |-> [via \in Nodes |-> [m \in Messages |-> 0]]]
  /\ handled = [n \in Nodes |-> [m \in Messages |-> 0]]
  /\ wipes = [n \in Nodes |-> 0]

(* Gossip.Start registers the protocol.                                    *)
StartGossip(n) ==
  /\ n \notin registered
  /\ registered' = registered \cup {n}
  /\ UNCHANGED <<faulty, started, listening, origin, flight, lost, seenMsgs,
                 handling, handled, wipes>>

(* P2PNetwork.Start sets stream handlers for what is registered by then.   *)
StartNetwork(n) ==
  /\ n \notin started
  /\ started' = started \cup {n}
  /\ listening' = IF IsRegistered(n) THEN listening \cup {n} ELSE listening
  /\ UNCHANGED <<faulty, registered, origin, flight, lost, seenMsgs,
                 handling, handled, wipes>>

(* Gossip.Broadcast.  The origin does not mark the message as seen.        *)
Broadcast(n) ==
  LET msg == [from |-> n, nth |-> Cardinality(sent) + 1]
  IN  /\ n \in Origins \cap started /\ Cardinality(sent) < MaxSent
      /\ sent' = sent \cup {msg}
      /\ whole' = IF listening = Nodes THEN whole \cup {msg} ELSE whole
      /\ \E R \in Reach(n) : flight' = Streams(n, R, msg)
      /\ UNCHANGED <<boot, lost, seenMsgs, handling, handled, wipes>>

(* handleStream takes a stream from via.                                   *)
HandleStream(n, via, msg) ==
  /\ flight[via][n][msg] > 0
  /\ flight' = [flight EXCEPT ![via][n][msg] = @ - 1]

(* It reads nothing, or so little that handleMessage cannot decode it.     *)
ReadFails(n, via, msg) ==
  /\ HandleStream(n, via, msg)
  /\ lost' = lost \cup {<<via, n, msg>>}
  /\ Cardinality(lost') <= MaxLost
  /\ UNCHANGED <<boot, origin, seenMsgs, handling, handled, wipes>>

(* handleMessage up to the release of the mutex: a message that was seen   *)
(* is dropped, and any other is marked.                                    *)
Receive(n, via, msg) ==
  /\ HandleStream(n, via, msg)
  /\ \/ /\ Unseen(n, msg)
        /\ seenMsgs' = [seenMsgs EXCEPT ![n] = @ \cup {msg}]
        /\ handling' = [handling EXCEPT ![n][via][msg] = @ + 1]
     \/ /\ ~Unseen(n, msg)
        /\ UNCHANGED <<seenMsgs, handling>>
  /\ UNCHANGED <<boot, origin, lost, handled, wipes>>

(* The rest of handleMessage: the handler runs and the message is          *)
(* forwarded, which passes over peers that cannot be sent to.  A handler   *)
(* that fails ends it before.                                              *)
Handle(n, via, msg) ==
  /\ handling[n][via][msg] > 0
  /\ handling' = [handling EXCEPT ![n][via][msg] = @ - 1]
  /\ handled' = [handled EXCEPT ![n][msg] = @ + 1]
  /\ \/ flight' = Streams(n, Onward(n, via) \cap listening, msg)
     \/ n \in faulty /\ UNCHANGED flight
  /\ UNCHANGED <<boot, origin, lost, seenMsgs, wipes>>

(* cleanupSeenMessages forgets all messages, recent ones too.              *)
Forget(n) ==
  /\ n \in registered /\ wipes[n] < MaxWipes
  /\ seenMsgs' = [seenMsgs EXCEPT ![n] = {}]
  /\ wipes' = [wipes EXCEPT ![n] = @ + 1]
  /\ UNCHANGED <<boot, origin, flight, lost, handling, handled>>

GossipNext ==
  \E n \in Nodes :
    \/ StartGossip(n) \/ StartNetwork(n) \/ Broadcast(n) \/ Forget(n)
    \/ \E via \in Nodes, msg \in Messages :
         ReadFails(n, via, msg) \/ Receive(n, via, msg) \/ Handle(n, via, msg)

(* Streams arrive, if they are not lost, and their goroutines run.         *)
GossipFairness ==
  \A n, via \in Nodes, msg \in Messages :
    WF_gossipVars(Receive(n, via, msg)) /\ WF_gossipVars(Handle(n, via, msg))

GossipSpec == GossipInit /\ [][GossipNext]_gossipVars /\ GossipFairness

-----------------------------------------------------------------------------

(* The type invariant.  Only those who listen receive anything.            *)
GossipTypeOK ==
  /\ faulty \subseteq Nodes
  /\ registered \subseteq Nodes /\ started \subseteq Nodes
  /\ listening \subseteq registered \cap started
  /\ sent \subseteq Messages /\ whole \subseteq sent
  /\ flight \in [Nodes -> [Nodes -> [Messages -> Nat]]]
  /\ lost \subseteq Nodes \X Nodes \X Messages
  /\ seenMsgs \in [Nodes -> SUBSET Messages]
  /\ handling \in [Nodes -> [Nodes -> [Messages -> Nat]]]
  /\ handled \in [Nodes -> [Messages -> Nat]]
  /\ wipes \in [Nodes -> Nat]

(* Over whatever number of paths a message comes, and while the handler of *)
(* its first copy is still running, a node handles it once, and once more  *)
(* for every time it has forgotten what it saw.                            *)
HandledOnce ==
  \A n \in Nodes, msg \in Messages : handled[n][msg] <= wipes[n] + 1

(* Whether a path of connections on which msg was not lost leads from its  *)
(* origin to b: b is in every set of nodes that has the origin and that no *)
(* such connection leaves.                                                 *)
Closed(S, msg) ==
  \A n \in S : \A p \in PeersOf(n) : <<n, p, msg>> \in lost \/ p \in S
Connected(b, msg) ==
  \A S \in SUBSET Nodes : (msg.from \in S /\ Closed(S, msg)) => b \in S

(* Forwarding is all it takes: a message that was broadcast while every    *)
(* node listened is handled by every node to which some path leads whose   *)
(* streams were all read, if no handler fails, although nodes forget what  *)
(* they saw meanwhile and streams on other paths are lost.                 *)
Delivered ==
  \A msg \in Messages :
    msg \in whole /\ faulty = {}
      ~> \A n \in Nodes \ {msg.from} : Connected(n, msg) => handled[n][msg] > 0

=============================================================================
