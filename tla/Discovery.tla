----------------------------- MODULE Discovery ------------------------------
(***************************************************************************)
(* Discovery of core/p2p/discovery.go with the PeerSecurity of             *)
(* core/p2p/security.go that it consults: peers found by mDNS or in the    *)
(* routing table are admitted at a limited rate, a background loop scores  *)
(* the known peers and drops those that are bad or stale, and Stop waits   *)
(* for that loop.                                                          *)
(*                                                                         *)
(* d.mu is held within each action.  Time is counted in intervals of the   *)
(* ticker.  Scores are in ten-thousandths.  connectionTimes is a set:      *)
(* nth tells apart those of the same time.                                 *)
(***************************************************************************)
EXTENDS Integers, FiniteSets

CONSTANTS
  Peers,
  MaxPeersPerMinute, MinPeerScore,  \* d.security.config
  Minute,          \* the window of the rate limit
  StaleAfter,      \* the age at which a peer is stale
  MsPerTick,       \* the milliseconds in an interval
  MaxTime          \* the bound on the clock

ASSUME LimitAssumption == MaxPeersPerMinute \in Nat
ASSUME ScoreAssumption == MinPeerScore \in 0 .. 7000 /\ MsPerTick \in Nat \ {0}
ASSUME TimeAssumption ==
  Minute \in Nat \ {0} /\ StaleAfter \in Nat /\ MaxTime \in Nat

VARIABLES
  now,
  phase,            \* "new", "failed", "running", "stopping" or "stopped"
  loop,             \* where discoverPeers is
  ticked,           \* whether ticker.C holds a tick
  todo,             \* the peers of the routing table that a round has yet to add
  known, lastSeen,  \* the keys of d.peerInfo, and their LastSeen
  connectionTimes,  \* of the PeerSecurity
  scores,           \* likewise, 0 for a peer without a score
  admitted          \* all there ever was in connectionTimes (history)

peerInfo == <<known, lastSeen>>
security == <<connectionTimes, admitted>>
vars == <<now, phase, loop, ticked, todo, peerInfo, security, scores>>

Time   == 0 .. MaxTime
Loops  == {"off", "select", "adding", "stale", "stuck", "ended"}
Phases == {"new", "failed", "running", "stopping", "stopped"}
Connections == [at : Time, nth : Nat]

-----------------------------------------------------------------------------
(* An operator whose name says what is wrong with it is a faulty version   *)
(* of the definition that follows it, which the properties detect.         *)

(* The connection times that the clean-up of ValidateNewPeer keeps.        *)
RecentTooFew == {c \in connectionTimes : c.at > now - Minute + 1}
Recent == {c \in connectionTimes : c.at > now - Minute}

(* The rest of ValidateNewPeer: the test, and the time that it adds.       *)
RateExceeded  == Cardinality(Recent) >= MaxPeersPerMinute
NewConnection == [at |-> now, nth |-> Cardinality({c \in admitted : c.at = now}) + 1]

(* 1 - t, in seconds, and no less than 0.                                  *)
Part(t) == IF t * MsPerTick >= 1000 THEN 0 ELSE 1000 - t * MsPerTick

(* UpdatePeerScore                                                         *)
ScoreSwapped(timeDrift, responseTime) == 3 * Part(timeDrift) + 7 * Part(responseTime)
Score(timeDrift, responseTime) == 7 * Part(timeDrift) + 3 * Part(responseTime)

(* The score updatePeerScores computes for p, and ShouldDisconnectPeer.    *)
NewScore(p) == Score(0, now - lastSeen[p])
ShouldDisconnect(p) == NewScore(p) < MinPeerScore

(* The known peers that removeStalePeers keeps.                            *)
Fresh == {p \in known : now - lastSeen[p] <= StaleAfter}

(* What wg.Wait waits for.                                                 *)
LoopIsOverUnchecked == TRUE
LoopIsOver == loop = "ended"

-----------------------------------------------------------------------------

Init ==
  /\ now = 0
  /\ phase = "new" /\ loop = "off"
  /\ ticked = FALSE /\ todo = {}
  /\ known = {} /\ lastSeen = [p \in Peers |-> 0]
  /\ connectionTimes = {} /\ admitted = {}
  /\ scores = [p \in Peers |-> 0]

(* Start makes the DHT, which may fail, and starts the loop.               *)
Start ==
  /\ phase = "new"
  /\ \/ phase' = "failed" /\ UNCHANGED loop
     \/ phase' = "running" /\ loop' = "select"
  /\ UNCHANGED <<now, ticked, todo, peerInfo, security, scores>>

(* AddPeer, with ValidateNewPeer.  A peer that is known is left alone.     *)
AddPeer(p) ==
  \/ p \in known /\ UNCHANGED <<peerInfo, security>>
  \/ /\ p \notin known /\ RateExceeded
     /\ connectionTimes' = Recent
     /\ UNCHANGED <<peerInfo, admitted>>
  \/ /\ p \notin known /\ ~RateExceeded
     /\ connectionTimes' = Recent \cup {NewConnection}
     /\ admitted' = admitted \cup {NewConnection}
     /\ known' = known \cup {p}
     /\ lastSeen' = [lastSeen EXCEPT ![p] = now]

(* mDNS reports a peer, or a caller adds one, which it may do before Start *)
(* and after Stop as well.                                                 *)
HandlePeerFound(p) ==
  /\ loop # "stuck"
  /\ AddPeer(p)
  /\ UNCHANGED <<now, phase, loop, ticked, todo, scores>>

(* A caller removes a peer.                                                *)
RemovePeer(p) ==
  /\ p \in known /\ loop # "stuck"
  /\ known' = known \ {p}
  /\ UNCHANGED <<now, phase, loop, ticked, todo, lastSeen, security, scores>>

(* The loop takes a tick and lists the routing table.                      *)
BeginRound ==
  /\ loop = "select" /\ ticked
  /\ loop' = "adding" /\ ticked' = FALSE
  /\ \E table \in SUBSET Peers : todo' = table
  /\ UNCHANGED <<now, phase, peerInfo, security, scores>>

AddFromTable(p) ==
  /\ loop = "adding" /\ p \in todo
  /\ todo' = todo \ {p}
  /\ AddPeer(p)
  /\ UNCHANGED <<now, phase, loop, ticked, scores>>

(* updatePeerScores, in the order of the map, under the read lock.  When a *)
(* peer is to be disconnected it calls RemovePeer, which waits for the     *)
(* write lock, for ever.                                                   *)
UpdatePeerScores ==
  /\ loop = "adding" /\ todo = {}
  /\ \/ /\ \A p \in known : ~ShouldDisconnect(p)
        /\ scores' = [p \in Peers |-> IF p \in known THEN NewScore(p) ELSE scores[p]]
        /\ loop' = "stale"
     \/ \E p \in known, before \in SUBSET {q \in known : ~ShouldDisconnect(q)} :
          /\ ShouldDisconnect(p)
          /\ scores' = [q \in Peers |-> IF q \in before \cup {p}
                                       THEN NewScore(q) ELSE scores[q]]
          /\ loop' = "stuck"
  /\ UNCHANGED <<now, phase, ticked, todo, peerInfo, security>>

RemoveStalePeers ==
  /\ loop = "stale"
  /\ known' = Fresh
  /\ loop' = "select"
  /\ UNCHANGED <<now, phase, ticked, todo, lastSeen, security, scores>>

(* The loop sees that the context is cancelled.                            *)
LoopEnds ==
  /\ loop = "select" /\ phase = "stopping"
  /\ loop' = "ended"
  /\ UNCHANGED <<now, phase, ticked, todo, peerInfo, security, scores>>

(* Stop cancels the context and waits for the loop.                        *)
Stop ==
  /\ phase = "running"
  /\ phase' = "stopping"
  /\ UNCHANGED <<now, loop, ticked, todo, peerInfo, security, scores>>

StopReturns ==
  /\ phase = "stopping" /\ LoopIsOver
  /\ phase' = "stopped"
  /\ UNCHANGED <<now, loop, ticked, todo, peerInfo, security, scores>>

(* An interval passes; the ticker drops a tick that nobody has taken.      *)
Tick ==
  /\ now < MaxTime
  /\ now' = now + 1
  /\ ticked' = (loop \notin {"off", "ended"})
  /\ UNCHANGED <<phase, loop, todo, peerInfo, security, scores>>

Round == \/ BeginRound \/ UpdatePeerScores \/ RemoveStalePeers
         \/ \E p \in Peers : AddFromTable(p)

Next ==
  \/ Start \/ Stop \/ StopReturns \/ Round \/ LoopEnds \/ Tick
  \/ \E p \in Peers : HandlePeerFound(p) \/ RemovePeer(p)

(* The loop is scheduled; the select takes neither of its ready branches   *)
(* for ever.                                                               *)
Fairness == WF_vars(Round) /\ SF_vars(LoopEnds) /\ WF_vars(StopReturns)

Spec == Init /\ [][Next]_vars /\ Fairness

-----------------------------------------------------------------------------

(* The type invariant.  Once Stop has returned the loop no longer runs.    *)
TypeOK ==
  /\ now \in Time
  /\ phase \in Phases /\ loop \in Loops
  /\ phase = "stopped" => loop = "ended"
  /\ ticked \in BOOLEAN /\ todo \subseteq Peers
  /\ known \subseteq Peers /\ lastSeen \in [Peers -> Time]
  /\ connectionTimes \subseteq Connections /\ admitted \subseteq Connections
  /\ scores \in [Peers -> Int]

(* "the maximum number of new peers allowed per minute" (security.go, line *)
(* 33), for every minute and not only those that begin with a clean-up,    *)
(* whichever of mDNS and the routing table brings the peers and however    *)
(* often they are removed and found again.                                 *)
RateLimited ==
  \A t \in Time :
    Cardinality({c \in admitted : t <= c.at /\ c.at < t + Minute}) <= MaxPeersPerMinute

(* updatePeerScores never meets a peer it would disconnect, which it could *)
(* not do without deadlock: the score it computes is at least 0.7 however  *)
(* long ago the peer was seen, and MinPeerScore is no more than that.      *)
NeverStuck == loop # "stuck"

(* Stop returns, whatever round the loop is in.                            *)
StopCompletes == phase = "stopping" ~> phase = "stopped"

=============================================================================
