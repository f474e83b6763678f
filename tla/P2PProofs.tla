----------------------------- MODULE P2PProofs ------------------------------
(***************************************************************************)
(* Proofs about Discovery for any set of peers and any limits.  That the   *)
(* rate is limited in every window is not inductive as it stands: the list *)
(* ValidateNewPeer counts has been pruned at earlier times.  What makes it *)
(* inductive is that pruning only ever dropped what is outside the current *)
(* window: every admission of the last Minute is still in the list.        *)
(*                                                                         *)
(* Proofs about Gossip for any network: a node handles a message once, and *)
(* once more after it has forgotten it.  What is handled has to be counted *)
(* together with what is about to be: a message may be in the hands of     *)
(* handleMessage when it is forgotten.                                     *)
(***************************************************************************)
EXTENDS Discovery, Gossip, FiniteSetTheorems, TLAPS

(* The admissions of the last Minute are all in the list.                  *)
ListComplete ==
  /\ \A c \in admitted : c.at <= now
  /\ \A c \in admitted : c.at > now - Minute => c \in connectionTimes
  /\ IsFiniteSet(connectionTimes) /\ IsFiniteSet(admitted)

(* The admissions of the window that begins at t.                          *)
Window(t) == {c \in admitted : t <= c.at /\ c.at < t + Minute}

(* Nobody is seen in the future.                                           *)
SeenInPast == \A p \in Peers : lastSeen[p] <= now

IInv == TypeOK /\ ListComplete /\ SeenInPast /\ RateLimited /\ NeverStuck

-----------------------------------------------------------------------------

(* However old, a peer without drift scores at least 0.7.                  *)
LEMMA ScoreBound ==
  ASSUME NEW t \in Nat
  PROVE  Score(0, t) \in Int /\ Score(0, t) >= 7000
<1>1. Part(0) = 1000
  BY ScoreAssumption DEF Part
<1>2. Part(t) \in Nat
  <2>1. t * MsPerTick \in Nat
    BY ScoreAssumption
  <2> QED
    BY <2>1 DEF Part
<1> QED
  BY <1>1, <1>2 DEF Score

(* lastSeen is in the past, so no known peer is to be disconnected.        *)
LEMMA NobodyDisconnected ==
  ASSUME TypeOK, NEW p \in Peers, lastSeen[p] <= now
  PROVE  NewScore(p) \in Int /\ ~ShouldDisconnect(p)
<1>1. now \in Nat /\ lastSeen[p] \in Nat
  BY TimeAssumption DEF TypeOK, Time
<1>2. now - lastSeen[p] \in Nat
  BY <1>1
<1>3. NewScore(p) \in Int /\ NewScore(p) >= 7000
  BY <1>2, ScoreBound DEF NewScore
<1>4. ~(NewScore(p) < MinPeerScore)
  <2>1. MinPeerScore \in Int /\ MinPeerScore <= 7000
    BY ScoreAssumption
  <2>2. \A s, m \in Int : s >= 7000 /\ m <= 7000 => ~(s < m)
    OBVIOUS
  <2> QED
    BY <1>3, <2>1, <2>2
<1> QED
  BY <1>3, <1>4 DEF ShouldDisconnect

(* AddPeer, which is the part of two actions that admits.                  *)
LEMMA AddPeerStep ==
  ASSUME IInv, NEW p \in Peers, AddPeer(p), now' = now
  PROVE  /\ known' \subseteq Peers /\ lastSeen' \in [Peers -> Time]
         /\ connectionTimes' \subseteq Connections /\ admitted' \subseteq Connections
         /\ ListComplete' /\ SeenInPast' /\ RateLimited'
<1> USE TimeAssumption, LimitAssumption
<1>1. now \in Time /\ Time \subseteq Nat
  BY DEF IInv, TypeOK, Time
<1>2. /\ Recent \subseteq connectionTimes /\ IsFiniteSet(Recent)
      /\ Cardinality(Recent) \in Nat
      /\ \A c \in admitted : c.at > now - Minute => c \in Recent
  <2>1. Recent \subseteq connectionTimes
    BY DEF Recent
  <2>2. IsFiniteSet(Recent) /\ Cardinality(Recent) \in Nat
    BY <2>1, FS_Subset, FS_CardinalityType DEF IInv, ListComplete
  <2> QED
    BY <2>1, <2>2 DEF IInv, ListComplete, Recent
<1>3. CASE p \in known /\ UNCHANGED <<peerInfo, security>>
  BY <1>3 DEF peerInfo, security, IInv, TypeOK, ListComplete, SeenInPast, RateLimited
<1>4. CASE /\ p \notin known
           /\ connectionTimes' = Recent
           /\ UNCHANGED <<peerInfo, admitted>>
  <2>1. ListComplete'
    BY <1>2, <1>4 DEF IInv, ListComplete
  <2> QED
    BY <1>2, <1>4, <2>1 DEF peerInfo, IInv, TypeOK, SeenInPast, RateLimited
<1>5. ASSUME NEW connection \in Connections, connection.at = now,
             Cardinality(Recent) < MaxPeersPerMinute,
             connectionTimes' = Recent \cup {connection},
             admitted' = admitted \cup {connection},
             known' = known \cup {p},
             lastSeen' = [lastSeen EXCEPT ![p] = now]
      PROVE  /\ known' \subseteq Peers /\ lastSeen' \in [Peers -> Time]
             /\ connectionTimes' \subseteq Connections /\ admitted' \subseteq Connections
             /\ ListComplete' /\ SeenInPast' /\ RateLimited'
  <2>1. known' \subseteq Peers /\ lastSeen' \in [Peers -> Time]
    BY <1>1, <1>5 DEF IInv, TypeOK
  <2>2. connectionTimes' \subseteq Connections /\ admitted' \subseteq Connections
    BY <1>2, <1>5 DEF IInv, TypeOK
  <2>3. IsFiniteSet(connectionTimes') /\ IsFiniteSet(admitted')
    BY <1>2, <1>5, FS_AddElement DEF IInv, ListComplete
  <2>4. /\ \A c \in admitted' : c.at <= now
        /\ \A c \in admitted' : c.at > now - Minute => c \in connectionTimes'
    BY <1>1, <1>2, <1>5 DEF IInv, ListComplete
  <2>5. ListComplete'
    BY <2>3, <2>4 DEF ListComplete
  <2>6. SeenInPast'
    BY <1>1, <1>5 DEF IInv, TypeOK, SeenInPast
  <2>7. \A t \in Time : Cardinality(Window(t)') <= MaxPeersPerMinute
    <3> SUFFICES ASSUME NEW t \in Time
                 PROVE  Cardinality(Window(t)') <= MaxPeersPerMinute
      OBVIOUS
    <3>0. \A c \in admitted : c.at \in Nat
      BY <1>1 DEF IInv, TypeOK, Connections
    <3>1. CASE connection \notin Window(t)'
      <4>1. Window(t)' = Window(t)
        BY <3>1, <1>5 DEF Window
      <4> QED
        BY <4>1 DEF IInv, RateLimited, Window
    <3>2. CASE connection \in Window(t)'
      <4>1. now < t + Minute
        BY <3>2, <1>5 DEF Window
      <4>2. Window(t)' \subseteq Recent \cup {connection}
        <5> SUFFICES ASSUME NEW c \in Window(t)', c # connection
                     PROVE  c \in Recent
          OBVIOUS
        <5>1. c \in admitted /\ t <= c.at
          BY <1>5 DEF Window
        <5>2. c.at \in Nat /\ t \in Nat /\ now \in Nat
          BY <5>1, <3>0, <1>1
        <5>3. c.at > now - Minute
          BY <4>1, <5>1, <5>2
        <5> QED
          BY <5>1, <5>3, <1>2
      <4>3. /\ IsFiniteSet(Recent \cup {connection})
            /\ Cardinality(Recent \cup {connection}) <= Cardinality(Recent) + 1
            /\ Cardinality(Recent \cup {connection}) \in Nat
        <5>1. IsFiniteSet(Recent) /\ Cardinality(Recent) \in Nat
          BY <1>2
        <5>2. /\ IsFiniteSet(Recent \cup {connection})
              /\ \/ Cardinality(Recent \cup {connection}) = Cardinality(Recent)
                 \/ Cardinality(Recent \cup {connection}) = Cardinality(Recent) + 1
          BY <5>1, FS_AddElement
        <5> QED
          BY <5>1, <5>2
      <4>4. /\ Cardinality(Window(t)') <= Cardinality(Recent \cup {connection})
            /\ Cardinality(Window(t)') \in Nat
        BY <4>2, <4>3, FS_Subset, FS_CardinalityType
      <4> QED
        BY <4>3, <4>4, <1>2, <1>5
    <3> QED
      BY <3>1, <3>2
  <2>8. RateLimited'
    BY <2>7 DEF RateLimited, Window
  <2> QED
    BY <2>1, <2>2, <2>5, <2>6, <2>8
<1>6. NewConnection \in Connections /\ NewConnection.at = now
  <2>1. Cardinality({c \in admitted : c.at = now}) \in Nat
    BY FS_Subset, FS_CardinalityType DEF IInv, ListComplete
  <2> QED
    BY <1>1, <2>1 DEF Connections, NewConnection
<1>7. ~RateExceeded => Cardinality(Recent) < MaxPeersPerMinute
  BY <1>2 DEF RateExceeded
<1> QED
  BY <1>3, <1>4, <1>5, <1>6, <1>7 DEF AddPeer

(* Steps that admit nobody.                                                *)
LEMMA QuietStep ==
  ASSUME IInv, now' = now, UNCHANGED <<security, lastSeen>>
  PROVE  ListComplete' /\ SeenInPast' /\ RateLimited'
BY DEF security, IInv, ListComplete, SeenInPast, RateLimited

(* The passing of time.                                                    *)
LEMMA TickStep ==
  ASSUME IInv, Tick
  PROVE  IInv'
<1>1. now \in Nat /\ now' = now + 1 /\ now' \in Time
  BY TimeAssumption DEF Tick, IInv, TypeOK, Time
<1>2. TypeOK' /\ NeverStuck' /\ RateLimited'
  BY <1>1 DEF Tick, peerInfo, security, IInv, TypeOK, NeverStuck, RateLimited
<1>3. \A c \in admitted : c.at \in Nat
  BY TimeAssumption DEF IInv, TypeOK, Connections, Time
<1>4. ListComplete'
  BY <1>1, <1>3, TimeAssumption DEF Tick, security, IInv, ListComplete
<1>5. SeenInPast'
  BY <1>1, TimeAssumption DEF Tick, peerInfo, IInv, TypeOK, SeenInPast, Time
<1> QED
  BY <1>2, <1>4, <1>5 DEF IInv

(* A step of the loop's scoring cannot end in the deadlock.                *)
LEMMA ScoreStep ==
  ASSUME IInv, UpdatePeerScores
  PROVE  IInv'
<1>1. \A p \in known : NewScore(p) \in Int /\ ~ShouldDisconnect(p)
  BY NobodyDisconnected DEF IInv, TypeOK, SeenInPast
<1>2. /\ loop' = "stale"
      /\ scores' = [p \in Peers |-> IF p \in known THEN NewScore(p) ELSE scores[p]]
      /\ UNCHANGED <<now, phase, ticked, todo, peerInfo, security>>
  BY <1>1 DEF UpdatePeerScores
<1>3. TypeOK'
  <2>1. scores' \in [Peers -> Int]
    BY <1>1, <1>2 DEF IInv, TypeOK
  <2>2. phase' # "stopped"
    <3>1. loop = "adding" /\ (phase = "stopped" => loop = "ended") /\ phase' = phase
      BY <1>2 DEF UpdatePeerScores, IInv, TypeOK
    <3> QED
      BY <3>1
  <2> QED
    BY <1>2, <2>1, <2>2 DEF peerInfo, security, IInv, TypeOK, Loops
<1>4. NeverStuck'
  BY <1>2 DEF NeverStuck
<1> QED
  BY <1>2, <1>3, <1>4, QuietStep DEF IInv, peerInfo

(* The other steps.                                                        *)
LEMMA AdmitStep ==
  ASSUME IInv, NEW p \in Peers, HandlePeerFound(p) \/ AddFromTable(p)
  PROVE  IInv'
<1>1. /\ AddPeer(p) /\ todo' \subseteq todo
      /\ UNCHANGED <<now, phase, loop, ticked, scores>>
  BY DEF HandlePeerFound, AddFromTable
<1> QED
  BY <1>1, AddPeerStep DEF IInv, TypeOK, NeverStuck

(* Steps that neither admit a peer nor let time pass.                      *)
LEMMA OtherStep ==
  ASSUME IInv,
         \/ Start \/ Stop \/ StopReturns \/ BeginRound \/ RemoveStalePeers
         \/ LoopEnds \/ \E p \in Peers : RemovePeer(p)
  PROVE  IInv'
<1>1. now' = now /\ UNCHANGED <<security, lastSeen>>
  BY DEF Start, Stop, StopReturns, BeginRound, RemoveStalePeers, LoopEnds,
         RemovePeer, peerInfo
<1>2. TypeOK' /\ NeverStuck'
  BY DEF Start, Stop, StopReturns, BeginRound, RemoveStalePeers, LoopEnds, LoopIsOver,
         RemovePeer, peerInfo, security, IInv, TypeOK, NeverStuck, Fresh, Loops, Phases
<1> QED
  BY <1>1, <1>2, QuietStep DEF IInv

(* The invariant of the discovery is inductive.                            *)
LEMMA Inductive == (Init => IInv) /\ (IInv /\ [Next]_vars => IInv')
<1>1. Init => IInv
  <2> SUFFICES ASSUME Init PROVE IInv
    OBVIOUS
  <2>0. 0 \in Time
    BY TimeAssumption DEF Time
  <2>1. lastSeen \in [Peers -> Time] /\ scores \in [Peers -> Int] /\ SeenInPast
    BY <2>0 DEF Init, SeenInPast
  <2>2. TypeOK /\ NeverStuck
    BY <2>0, <2>1 DEF Init, TypeOK, NeverStuck, Phases, Loops
  <2>3. ListComplete
    BY FS_EmptySet DEF Init, ListComplete
  <2>4. RateLimited
    BY FS_EmptySet, LimitAssumption DEF Init, RateLimited
  <2> QED
    BY <2>1, <2>2, <2>3, <2>4 DEF IInv
<1>2. IInv /\ UNCHANGED vars => IInv'
  BY DEF vars, peerInfo, security, IInv, TypeOK, ListComplete, SeenInPast,
         RateLimited, NeverStuck
<1>3. IInv /\ Next => IInv'
  BY TickStep, ScoreStep, AdmitStep, OtherStep DEF Next, Round
<1> QED
  BY <1>1, <1>2, <1>3

(* The state keeps its type; when Stop has returned the loop is over.      *)
THEOREM TypeCorrect == Spec => []TypeOK
<1>1. IInv => TypeOK
  BY DEF IInv
<1> QED
  BY <1>1, Inductive, PTL DEF Spec

(* No window of a minute, wherever it begins, has more than                *)
(* MaxPeersPerMinute admissions, for any number of peers.                  *)
THEOREM AdmissionsAreLimited == Spec => []RateLimited
<1>1. IInv => RateLimited
  BY DEF IInv
<1> QED
  BY <1>1, Inductive, PTL DEF Spec

(* The loop never reaches the disconnection that would deadlock it, for    *)
(* any MinPeerScore up to 0.7.                                             *)
THEOREM LoopIsNeverStuck == Spec => []NeverStuck
<1>1. IInv => NeverStuck
  BY DEF IInv
<1> QED
  BY <1>1, Inductive, PTL DEF Spec

-----------------------------------------------------------------------------
(* Gossip.  That a node handles a message once per time it forgot is not   *)
(* inductive: the goroutines past the test of seenMsgs will each handle it *)
(* too.  They are counted as well, and what the node may still do is one   *)
(* less once it has seen the message.                                      *)

(* The goroutines of n that are past the test for msg.                     *)
Tokens(n, msg) == UNION {{via} \X (1 .. handling[n][via][msg]) : via \in Nodes}

(* What n may have handled or may be handling of msg.                      *)
Allowed(n, msg) == wipes[n] + IF msg \in seenMsgs[n] THEN 1 ELSE 0

Budget(n, msg) ==
  /\ IsFiniteSet(Tokens(n, msg))
  /\ handled[n][msg] + Cardinality(Tokens(n, msg)) <= Allowed(n, msg)

GossipInv ==
  /\ GossipTypeOK /\ IsFiniteSet(sent)
  /\ \A n \in Nodes, msg \in Messages : Budget(n, msg)

-----------------------------------------------------------------------------

(* What a token is.                                                        *)
LEMMA TokenIs ==
  ASSUME NEW n, NEW msg, NEW t
  PROVE  t \in Tokens(n, msg) <=>
           \E via \in Nodes : \E k \in 1 .. handling[n][via][msg] : t = <<via, k>>
BY DEF Tokens

(* Streams that are opened are counted.                                    *)
LEMMA StreamsType ==
  ASSUME GossipTypeOK, NEW n, NEW R, NEW msg
  PROVE  Streams(n, R, msg) \in [Nodes -> [Nodes -> [Messages -> Nat]]]
<1>1. \A a, b \in Nodes, m \in Messages : flight[a][b][m] \in Nat
  BY DEF GossipTypeOK
<1>2. \A a, b \in Nodes, m \in Messages :
        (IF a = n /\ b \in R /\ m = msg THEN flight[a][b][m] + 1 ELSE flight[a][b][m])
          \in Nat
  BY <1>1
<1> QED
  BY <1>2 DEF Streams

(* Nothing that Budget speaks of changes.                                  *)
LEMMA BudgetKept ==
  ASSUME NEW n \in Nodes, NEW msg \in Messages, Budget(n, msg),
         \A via \in Nodes : handling'[n][via][msg] = handling[n][via][msg],
         handled'[n][msg] = handled[n][msg], wipes'[n] = wipes[n],
         msg \in seenMsgs'[n] <=> msg \in seenMsgs[n]
  PROVE  Budget(n, msg)'
<1>1. Tokens(n, msg)' = Tokens(n, msg)
  BY DEF Tokens
<1>2. Allowed(n, msg)' = Allowed(n, msg)
  BY DEF Allowed
<1> QED
  BY <1>1, <1>2 DEF Budget

(* A node starts, or broadcasts.                                           *)
LEMMA StartOrBroadcastStep ==
  ASSUME GossipInv, NEW n \in Nodes,
         StartGossip(n) \/ StartNetwork(n) \/ Broadcast(n)
  PROVE  GossipInv'
<1>0. GossipTypeOK /\ IsFiniteSet(sent)
  BY DEF GossipInv
<1>1. UNCHANGED <<lost, seenMsgs, handling, handled, wipes>>
  BY DEF StartGossip, StartNetwork, Broadcast
<1>2. \A p \in Nodes, msg \in Messages : Budget(p, msg)'
  BY <1>1, BudgetKept DEF GossipInv
<1>3. CASE StartGossip(n) \/ StartNetwork(n)
  <2>1. UNCHANGED <<faulty, sent, whole, flight>>
    BY <1>3 DEF StartGossip, StartNetwork, origin
  <2>2. registered' \subseteq Nodes /\ started' \subseteq Nodes
        /\ listening' \subseteq registered' \cap started'
    BY <1>0, <1>3 DEF StartGossip, StartNetwork, GossipTypeOK, IsRegistered
  <2> QED
    BY <1>0, <1>1, <1>2, <2>1, <2>2 DEF GossipInv, GossipTypeOK
<1>4. CASE Broadcast(n)
  <2> DEFINE new == [from |-> n, nth |-> Cardinality(sent) + 1]
  <2>1. /\ n \in Origins /\ Cardinality(sent) < MaxSent
        /\ sent' = sent \cup {new}
        /\ whole' = IF listening = Nodes THEN whole \cup {new} ELSE whole
        /\ \E R \in Reach(n) : flight' = Streams(n, R, new)
        /\ UNCHANGED boot
    BY <1>4 DEF Broadcast
  <2>2. new \in Messages
    <3>1. Cardinality(sent) \in Nat
      BY <1>0, FS_CardinalityType
    <3>2. Cardinality(sent) + 1 \in 1 .. MaxSent
      BY <2>1, <3>1, BoundsAssumption
    <3> QED
      BY <2>1, <3>2 DEF Messages
  <2> HIDE DEF new
  <2>3. /\ sent' \subseteq Messages /\ whole' \subseteq sent' /\ IsFiniteSet(sent')
    BY <1>0, <2>1, <2>2, FS_AddElement DEF GossipTypeOK
  <2>4. flight' \in [Nodes -> [Nodes -> [Messages -> Nat]]]
    BY <1>0, <2>1, StreamsType
  <2> QED
    BY <1>0, <1>1, <1>2, <2>1, <2>3, <2>4 DEF GossipInv, GossipTypeOK, boot
<1> QED
  BY <1>3, <1>4

(* A stream is lost: nobody handles anything for it.                       *)
LEMMA ReadFailsStep ==
  ASSUME GossipInv, NEW n \in Nodes, NEW via \in Nodes, NEW msg \in Messages,
         ReadFails(n, via, msg)
  PROVE  GossipInv'
<1>0. GossipTypeOK
  BY DEF GossipInv
<1>1. /\ flight[via][n][msg] > 0 /\ flight' = [flight EXCEPT ![via][n][msg] = @ - 1]
      /\ lost' = lost \cup {<<via, n, msg>>}
      /\ UNCHANGED <<boot, origin, seenMsgs, handling, handled, wipes>>
  BY DEF ReadFails, HandleStream
<1>2. flight' \in [Nodes -> [Nodes -> [Messages -> Nat]]]
  <2>1. flight[via][n][msg] - 1 \in Nat
    BY <1>0, <1>1 DEF GossipTypeOK
  <2> QED
    BY <1>0, <1>1, <2>1 DEF GossipTypeOK
<1>3. lost' \subseteq Nodes \X Nodes \X Messages
  BY <1>0, <1>1 DEF GossipTypeOK
<1>4. \A p \in Nodes, m \in Messages : Budget(p, m)'
  BY <1>1, BudgetKept DEF GossipInv
<1> QED
  BY <1>0, <1>1, <1>2, <1>3, <1>4 DEF GossipInv, GossipTypeOK, boot, origin

(* A message is read: if it is new, a goroutine goes on to handle it and   *)
(* no other will until the node forgets.                                   *)
LEMMA ReceiveStep ==
  ASSUME GossipInv, NEW n \in Nodes, NEW via \in Nodes, NEW msg \in Messages,
         Receive(n, via, msg)
  PROVE  GossipInv'
<1>0. GossipTypeOK /\ Budget(n, msg)
  BY DEF GossipInv
<1>1. /\ flight[via][n][msg] > 0 /\ flight' = [flight EXCEPT ![via][n][msg] = @ - 1]
      /\ UNCHANGED <<boot, origin, lost, handled, wipes>>
  BY DEF Receive, HandleStream
<1>2. flight' \in [Nodes -> [Nodes -> [Messages -> Nat]]]
  <2>1. flight[via][n][msg] - 1 \in Nat
    BY <1>0, <1>1 DEF GossipTypeOK
  <2> QED
    BY <1>0, <1>1, <2>1 DEF GossipTypeOK
<1>3. CASE UNCHANGED <<seenMsgs, handling>>
  <2>1. \A p \in Nodes, m \in Messages : Budget(p, m)'
    BY <1>1, <1>3, BudgetKept DEF GossipInv
  <2> QED
    BY <1>0, <1>1, <1>2, <1>3, <2>1 DEF GossipInv, GossipTypeOK, boot, origin
<1>4. CASE /\ msg \notin seenMsgs[n]
           /\ seenMsgs' = [seenMsgs EXCEPT ![n] = @ \cup {msg}]
           /\ handling' = [handling EXCEPT ![n][via][msg] = @ + 1]
  <2> DEFINE h == handling[n][via][msg]
  <2>1. /\ h \in Nat /\ handled[n][msg] \in Nat /\ wipes[n] \in Nat
    BY <1>0 DEF GossipTypeOK
  <2>2. handling' \in [Nodes -> [Nodes -> [Messages -> Nat]]]
    BY <1>0, <1>4, <2>1 DEF GossipTypeOK
  <2>3. /\ handling'[n][via][msg] = h + 1
        /\ \A v \in Nodes \ {via} : handling'[n][v][msg] = handling[n][v][msg]
        /\ \A p \in Nodes, v \in Nodes, m \in Messages :
             p # n \/ m # msg => handling'[p][v][m] = handling[p][v][m]
    BY <1>0, <1>4 DEF GossipTypeOK
  <2>4. /\ seenMsgs' \in [Nodes -> SUBSET Messages] /\ msg \in seenMsgs'[n]
        /\ \A p \in Nodes, m \in Messages :
             p # n \/ m # msg => (m \in seenMsgs'[p] <=> m \in seenMsgs[p])
    BY <1>0, <1>4 DEF GossipTypeOK
  <2> HIDE DEF h
  <2>5. /\ Tokens(n, msg)' = Tokens(n, msg) \cup {<<via, h + 1>>}
        /\ <<via, h + 1>> \notin Tokens(n, msg)
    <3>1. 1 .. h + 1 = (1 .. h) \cup {h + 1} /\ h + 1 \notin 1 .. h
      BY <2>1
    <3>2. \A t : t \in Tokens(n, msg)' <=>
            \E v \in Nodes : \E k \in 1 .. handling'[n][v][msg] : t = <<v, k>>
      BY DEF Tokens
    <3>3. \A t : t \in Tokens(n, msg) <=>
            \E v \in Nodes : \E k \in 1 .. handling[n][v][msg] : t = <<v, k>>
      BY TokenIs
    <3>4. ASSUME NEW t PROVE t \in Tokens(n, msg)' <=>
                             t \in Tokens(n, msg) \/ t = <<via, h + 1>>
      BY <2>3, <3>1, <3>2, <3>3 DEF h
    <3>5. <<via, h + 1>> \notin Tokens(n, msg)
      BY <3>1, <3>3 DEF h
    <3> QED
      BY <3>4, <3>5
  <2>6. Budget(n, msg)'
    <3>1. /\ IsFiniteSet(Tokens(n, msg)')
          /\ Cardinality(Tokens(n, msg)') = Cardinality(Tokens(n, msg)) + 1
          /\ Cardinality(Tokens(n, msg)) \in Nat
      BY <1>0, <2>5, FS_AddElement, FS_CardinalityType DEF Budget
    <3>2. Allowed(n, msg) = wipes[n] /\ Allowed(n, msg)' = wipes[n] + 1
      BY <1>1, <1>4, <2>1, <2>4 DEF Allowed
    <3>3. handled[n][msg] + Cardinality(Tokens(n, msg)) <= wipes[n]
      BY <1>0, <3>2 DEF Budget
    <3>4. handled[n][msg] + (Cardinality(Tokens(n, msg)) + 1) <= wipes[n] + 1
      BY <2>1, <3>1, <3>3
    <3> QED
      BY <1>1, <3>1, <3>2, <3>4 DEF Budget
  <2>7. \A p \in Nodes, m \in Messages : p # n \/ m # msg => Budget(p, m)'
    BY <1>1, <2>3, <2>4, BudgetKept DEF GossipInv
  <2>8. \A p \in Nodes, m \in Messages : Budget(p, m)'
    BY <2>6, <2>7
  <2> QED
    BY <1>0, <1>1, <1>2, <2>2, <2>4, <2>8 DEF GossipInv, GossipTypeOK, boot, origin
<1> QED
  BY <1>3, <1>4 DEF Receive, Unseen

(* A goroutine handles the message.                                        *)
LEMMA HandleStep ==
  ASSUME GossipInv, NEW n \in Nodes, NEW via \in Nodes, NEW msg \in Messages,
         Handle(n, via, msg)
  PROVE  GossipInv'
<1>0. GossipTypeOK /\ Budget(n, msg)
  BY DEF GossipInv
<1> DEFINE h == handling[n][via][msg]
<1>1. /\ h > 0
      /\ handling' = [handling EXCEPT ![n][via][msg] = @ - 1]
      /\ handled' = [handled EXCEPT ![n][msg] = @ + 1]
      /\ UNCHANGED <<boot, origin, lost, seenMsgs, wipes>>
  BY DEF Handle
<1>2. flight' \in [Nodes -> [Nodes -> [Messages -> Nat]]]
  <2>1. \/ flight' = Streams(n, Onward(n, via) \cap listening, msg)
        \/ flight' = flight
    BY DEF Handle
  <2> QED
    BY <1>0, <2>1, StreamsType DEF GossipTypeOK
<1>3. h \in Nat /\ h - 1 \in Nat /\ handled[n][msg] \in Nat /\ wipes[n] \in Nat
  <2>1. h \in Nat /\ handled[n][msg] \in Nat /\ wipes[n] \in Nat
    BY <1>0 DEF GossipTypeOK
  <2> QED
    BY <1>1, <2>1
<1>4. /\ handling' \in [Nodes -> [Nodes -> [Messages -> Nat]]]
      /\ handling'[n][via][msg] = h - 1
      /\ \A v \in Nodes \ {via} : handling'[n][v][msg] = handling[n][v][msg]
      /\ \A p \in Nodes, v \in Nodes, m \in Messages :
           p # n \/ m # msg => handling'[p][v][m] = handling[p][v][m]
  BY <1>0, <1>1, <1>3 DEF GossipTypeOK
<1>5. /\ handled' \in [Nodes -> [Messages -> Nat]]
      /\ handled'[n][msg] = handled[n][msg] + 1
      /\ \A p \in Nodes, m \in Messages :
           p # n \/ m # msg => handled'[p][m] = handled[p][m]
  BY <1>0, <1>1, <1>3 DEF GossipTypeOK
<1> HIDE DEF h
<1>6. /\ Tokens(n, msg) = Tokens(n, msg)' \cup {<<via, h>>}
      /\ <<via, h>> \notin Tokens(n, msg)'
  <2>1. 1 .. h = (1 .. h - 1) \cup {h} /\ h \notin 1 .. h - 1
    BY <1>1, <1>3
  <2>2. \A t : t \in Tokens(n, msg)' <=>
          \E v \in Nodes : \E k \in 1 .. handling'[n][v][msg] : t = <<v, k>>
    BY DEF Tokens
  <2>3. \A t : t \in Tokens(n, msg) <=>
          \E v \in Nodes : \E k \in 1 .. handling[n][v][msg] : t = <<v, k>>
    BY TokenIs
  <2>4. \A v \in Nodes : \A k : k \in 1 .. handling[n][v][msg] <=>
          k \in 1 .. handling'[n][v][msg] \/ (v = via /\ k = h)
    BY <1>4, <2>1 DEF h
  <2>5. ASSUME NEW t PROVE t \in Tokens(n, msg) <=>
                           t \in Tokens(n, msg)' \/ t = <<via, h>>
    BY <2>2, <2>3, <2>4
  <2>6. <<via, h>> \notin Tokens(n, msg)'
    BY <1>4, <2>1, <2>2
  <2> QED
    BY <2>5, <2>6
<1>7. Budget(n, msg)'
  <2>1. Tokens(n, msg)' \subseteq Tokens(n, msg) /\ IsFiniteSet(Tokens(n, msg))
    BY <1>0, <1>6 DEF Budget
  <2>2. IsFiniteSet(Tokens(n, msg)') /\ Cardinality(Tokens(n, msg)') \in Nat
    BY <2>1, FS_Subset, FS_CardinalityType
  <2>3. Cardinality(Tokens(n, msg)) = Cardinality(Tokens(n, msg)') + 1
    BY <1>6, <2>2, FS_AddElement
  <2>4. Allowed(n, msg)' = Allowed(n, msg) /\ Allowed(n, msg) \in Nat
    BY <1>1, <1>3 DEF Allowed
  <2>5. handled[n][msg] + (Cardinality(Tokens(n, msg)') + 1) <= Allowed(n, msg)
    BY <1>0, <2>3 DEF Budget
  <2>6. (handled[n][msg] + 1) + Cardinality(Tokens(n, msg)') <= Allowed(n, msg)
    BY <1>3, <2>2, <2>4, <2>5
  <2> QED
    BY <1>5, <2>2, <2>4, <2>6 DEF Budget
<1>8. \A p \in Nodes, m \in Messages : p # n \/ m # msg => Budget(p, m)'
  BY <1>1, <1>4, <1>5, BudgetKept DEF GossipInv
<1>9. \A p \in Nodes, m \in Messages : Budget(p, m)'
  BY <1>7, <1>8
<1> QED
  BY <1>0, <1>1, <1>2, <1>4, <1>5, <1>9 DEF GossipInv, GossipTypeOK, boot, origin

(* A node forgets, and may handle everything once more.                    *)
LEMMA ForgetStep ==
  ASSUME GossipInv, NEW n \in Nodes, Forget(n)
  PROVE  GossipInv'
<1>0. GossipTypeOK
  BY DEF GossipInv
<1>1. /\ seenMsgs' = [seenMsgs EXCEPT ![n] = {}]
      /\ wipes' = [wipes EXCEPT ![n] = @ + 1]
      /\ UNCHANGED <<boot, origin, flight, lost, handling, handled>>
  BY DEF Forget
<1>2. /\ seenMsgs' \in [Nodes -> SUBSET Messages] /\ wipes' \in [Nodes -> Nat]
      /\ wipes'[n] = wipes[n] + 1 /\ seenMsgs'[n] = {}
      /\ \A p \in Nodes \ {n} : wipes'[p] = wipes[p] /\ seenMsgs'[p] = seenMsgs[p]
  BY <1>0, <1>1 DEF GossipTypeOK
<1>3. ASSUME NEW m \in Messages PROVE Budget(n, m)'
  <2>1. Tokens(n, m)' = Tokens(n, m)
    BY <1>1 DEF Tokens
  <2>2. /\ IsFiniteSet(Tokens(n, m))
        /\ handled[n][m] + Cardinality(Tokens(n, m)) <= Allowed(n, m)
    BY DEF GossipInv, Budget
  <2>3. handled[n][m] \in Nat /\ wipes[n] \in Nat /\ Cardinality(Tokens(n, m)) \in Nat
    BY <1>0, <2>2, FS_CardinalityType DEF GossipTypeOK
  <2>4. Allowed(n, m) <= wipes[n] + 1 /\ Allowed(n, m) \in Nat
        /\ Allowed(n, m)' = wipes[n] + 1
    BY <1>2, <2>3 DEF Allowed
  <2>5. handled[n][m] + Cardinality(Tokens(n, m)) <= Allowed(n, m)'
    BY <2>2, <2>3, <2>4
  <2> QED
    BY <1>1, <2>1, <2>2, <2>5 DEF Budget
<1>4. \A p \in Nodes, m \in Messages : p # n => Budget(p, m)'
  BY <1>1, <1>2, BudgetKept DEF GossipInv
<1>5. \A p \in Nodes, m \in Messages : Budget(p, m)'
  BY <1>3, <1>4
<1> QED
  BY <1>0, <1>1, <1>2, <1>5 DEF GossipInv, GossipTypeOK, boot, origin

(* The inductive invariant of gossip.                                      *)
LEMMA GossipInductive == GossipSpec => []GossipInv
<1>1. GossipInit => GossipInv
  <2> SUFFICES ASSUME GossipInit PROVE GossipInv
    OBVIOUS
  <2>1. GossipTypeOK
    BY LinksAssumption DEF GossipInit, GossipTypeOK
  <2>2. IsFiniteSet(sent)
    BY FS_EmptySet DEF GossipInit
  <2>3. ASSUME NEW n \in Nodes, NEW msg \in Messages PROVE Budget(n, msg)
    <3>1. \A v \in Nodes : handling[n][v][msg] = 0
      BY DEF GossipInit
    <3>2. Tokens(n, msg) = {}
      BY <3>1, TokenIs
    <3>3. handled[n][msg] = 0 /\ Allowed(n, msg) = 0
      BY DEF GossipInit, Allowed
    <3> QED
      BY <3>2, <3>3, FS_EmptySet DEF Budget
  <2> QED
    BY <2>1, <2>2, <2>3 DEF GossipInv
<1>2. GossipInv /\ [GossipNext]_gossipVars => GossipInv'
  <2> SUFFICES ASSUME GossipInv, [GossipNext]_gossipVars PROVE GossipInv'
    OBVIOUS
  <2>1. CASE UNCHANGED gossipVars
    <3>1. \A n \in Nodes, msg \in Messages : Budget(n, msg)'
      BY <2>1, BudgetKept DEF GossipInv, gossipVars
    <3> QED
      BY <2>1, <3>1 DEF GossipInv, GossipTypeOK, gossipVars, boot, origin
  <2>2. CASE GossipNext
    <3>1. PICK n \in Nodes :
            \/ StartGossip(n) \/ StartNetwork(n) \/ Broadcast(n) \/ Forget(n)
            \/ \E via \in Nodes, msg \in Messages :
                 ReadFails(n, via, msg) \/ Receive(n, via, msg) \/ Handle(n, via, msg)
      BY <2>2 DEF GossipNext
    <3> QED
      BY <3>1, StartOrBroadcastStep, ReadFailsStep, ReceiveStep, HandleStep, ForgetStep
  <2> QED
    BY <2>1, <2>2
<1> QED
  BY <1>1, <1>2, PTL DEF GossipSpec

(* Gossip keeps its types: only nodes whose gossip was started before      *)
(* their network listen.                                                   *)
THEOREM GossipTypeCorrect == GossipSpec => []GossipTypeOK
<1>1. GossipInv => GossipTypeOK
  BY DEF GossipInv
<1> QED
  BY <1>1, GossipInductive, PTL

(* A node handles a message once, and once more for every time it forgot,  *)
(* in every network and over whatever number of paths the message comes.   *)
THEOREM MessagesHandledOnce == GossipSpec => []HandledOnce
<1>1. ASSUME GossipInv, NEW n \in Nodes, NEW msg \in Messages
      PROVE  handled[n][msg] <= wipes[n] + 1
  <2>1. /\ IsFiniteSet(Tokens(n, msg))
        /\ handled[n][msg] + Cardinality(Tokens(n, msg)) <= Allowed(n, msg)
    BY <1>1 DEF GossipInv, Budget
  <2>2. handled[n][msg] \in Nat /\ wipes[n] \in Nat /\ Cardinality(Tokens(n, msg)) \in Nat
    BY <1>1, <2>1, FS_CardinalityType DEF GossipInv, GossipTypeOK
  <2>3. Allowed(n, msg) \in Nat /\ Allowed(n, msg) <= wipes[n] + 1
    BY <2>2 DEF Allowed
  <2> QED
    BY <2>1, <2>2, <2>3
<1>2. GossipInv => HandledOnce
  BY <1>1 DEF HandledOnce
<1> QED
  BY <1>2, GossipInductive, PTL

=============================================================================
