------------------------- MODULE TimeServiceProofs --------------------------
(***************************************************************************)
(* Theorems about TimeService, for any servers, callers and regions.       *)
(***************************************************************************)
EXTENDS TimeService, TLAPS

(* A step of the verification, of the registry or of the regions, with the *)
(* histories that go with it.                                              *)
LEMMA NextCases ==
  ASSUME Next
  PROVE  \/ /\ \E c \in Callers : \/ BeginVerify(c) \/ VerifyPanics(c)
                                  \/ LookUp(c) \/ EndVerify(c)
            /\ Watch /\ WatchTrust /\ UNCHANGED regionVars
         \/ /\ \/ \E o \in Objects : AddServer(o) \/ SetRegion(o)
               \/ \E i \in IDs : RemoveServer(i)
               \/ \E c \in Callers : \/ Select(c) \/ SelectAll(c) \/ Visit(c)
                                     \/ EndLoop(c) \/ FallBack(c)
            /\ Watch /\ WatchTrust
            /\ UNCHANGED <<regionVars, ts, peer, verdict>>
         \/ RegionsNext /\ UNCHANGED <<registryVars, verifyVars>>
BY DEF Next, Verification, RegistryNext

(* GetServers depends on the map only.                                     *)
LEMMA SameServers ==
  ASSUME servers' = servers
  PROVE  GetServers' = GetServers
BY DEF GetServers

(* GetServers returns servers.                                             *)
LEMMA ServersAreObjects ==
  ASSUME servers \in [IDs -> Objects \cup {NoServer}]
  PROVE  GetServers \subseteq Objects
BY DEF GetServers

(* The type invariant holds initially.                                     *)
LEMMA InitType == Init => TypeOK
<1> SUFFICES ASSUME Init PROVE TypeOK
  OBVIOUS
<1> USE DEF Init, RegistryInit, RegionsInit
<1>1. RegistryTypeOK
  BY DEF RegistryTypeOK, RegistryTypes, FoundByID, LoopInside, Places
<1>2. RegionsTypeOK
  BY DEF RegionsTypeOK
<1>3. GetTimestamp \in Timestamps
  BY DEF Timestamps
<1> QED BY <1>1, <1>2, <1>3 DEF TypeOK

(* The functions keep their types.                                         *)
LEMMA RegistryTypesStep ==
  ASSUME RegistryTypes, Next
  PROVE  RegistryTypes'
<1> USE DEF RegistryTypes
<1>0. GetServers \subseteq Objects
  BY ServersAreObjects
<1>1. ASSUME NEW o \in Objects, AddServer(o) \/ SetRegion(o)
      PROVE  RegistryTypes'
  <2>1. ID(o) \in IDs
    BY RegistryAssumption DEF ID
  <2> QED BY <1>1, <2>1 DEF AddServer, SetRegion, selectVars
<1>2. ASSUME NEW i \in IDs, RemoveServer(i) PROVE RegistryTypes'
  BY <1>2 DEF RemoveServer, selectVars
<1>3. ASSUME NEW c \in Callers, Select(c) \/ SelectAll(c) PROVE RegistryTypes'
  BY <1>0, <1>3 DEF Select, SelectAll, Places, Selections
<1>4. ASSUME NEW c \in Callers, Visit(c) PROVE RegistryTypes'
  <2>1. PICK o \in todo[c] :
           /\ todo' = [todo EXCEPT ![c] = @ \ {o}]
           /\ \/ found' = [found EXCEPT ![c] = @ \cup {o}]
              \/ UNCHANGED found
    BY <1>4 DEF Visit
  <2>2. o \in Objects
    BY <2>1
  <2>3. todo' \in [Callers -> SUBSET Objects]
    BY <2>1
  <2>4. found' \in [Callers -> SUBSET Objects]
    BY <2>1, <2>2
  <2> QED BY <1>4, <2>3, <2>4 DEF Visit
<1>5. ASSUME NEW c \in Callers, EndLoop(c) \/ FallBack(c) PROVE RegistryTypes'
  BY <1>0, <1>5 DEF EndLoop, FallBack, Places
<1>6. ASSUME NEW c \in Callers,
             BeginVerify(c) \/ VerifyPanics(c) \/ LookUp(c) \/ EndVerify(c)
      PROVE  RegistryTypes'
  BY <1>6 DEF BeginVerify, VerifyPanics, LookUp, EndVerify, Places
<1>7. ASSUME UNCHANGED registryVars PROVE RegistryTypes'
  BY <1>7 DEF registryVars, selectVars
<1> QED BY NextCases, <1>1, <1>2, <1>3, <1>4, <1>5, <1>6, <1>7

(* AddServer stores a server under its own ID.                             *)
LEMMA FoundByIDStep ==
  ASSUME RegistryTypes, FoundByID, Next
  PROVE  FoundByID'
<1> USE DEF RegistryTypes, FoundByID
<1>1. ASSUME NEW o \in Objects, AddServer(o) PROVE FoundByID'
  <2>1. ID(o) \in IDs
    BY RegistryAssumption DEF ID
  <2> QED BY <1>1, <2>1 DEF AddServer
<1>2. ASSUME NEW i \in IDs, RemoveServer(i) PROVE FoundByID'
  BY <1>2 DEF RemoveServer
<1>3. ASSUME servers' = servers PROVE FoundByID'
  BY <1>3
<1> QED
  BY NextCases, <1>1, <1>2, <1>3
  DEF SetRegion, Select, SelectAll, Visit, EndLoop, FallBack, BeginVerify,
      VerifyPanics, LookUp, EndVerify, registryVars

(* Servers stay registered while a loop holds the lock.                    *)
LEMMA LoopInsideStep ==
  ASSUME RegistryTypes, LoopInside, Next
  PROVE  LoopInside'
<1> USE DEF RegistryTypes
<1>1. ASSUME \A c \in Callers : at'[c] # "iterate" PROVE LoopInside'
  BY <1>1 DEF LoopInside
<1>2. ASSUME NEW o \in Objects, AddServer(o) PROVE LoopInside'
  BY <1>1, <1>2 DEF AddServer, Locked, selectVars
<1>3. ASSUME NEW i \in IDs, RemoveServer(i) PROVE LoopInside'
  BY <1>1, <1>3 DEF RemoveServer, Locked, selectVars
<1>4. ASSUME NEW o \in Objects, SetRegion(o) PROVE LoopInside'
  BY <1>4, SameServers DEF SetRegion, selectVars, LoopInside
<1>5. ASSUME NEW c \in Callers, Select(c) \/ SelectAll(c) PROVE LoopInside'
  BY <1>5, SameServers DEF Select, SelectAll, LoopInside
<1>6. ASSUME NEW c \in Callers, Visit(c) PROVE LoopInside'
  <2>1. GetServers' = GetServers /\ at' = at
    BY <1>6, SameServers DEF Visit
  <2>2. PICK o \in todo[c] :
           /\ todo' = [todo EXCEPT ![c] = @ \ {o}]
           /\ \/ found' = [found EXCEPT ![c] = @ \cup {o}]
              \/ UNCHANGED found
    BY <1>6 DEF Visit
  <2>3. o \in GetServers
    BY <1>6, <2>2 DEF Visit, LoopInside
  <2> QED BY <2>1, <2>2, <2>3 DEF LoopInside
<1>7. ASSUME NEW c \in Callers, EndLoop(c) \/ FallBack(c) PROVE LoopInside'
  BY <1>7, SameServers DEF EndLoop, FallBack, LoopInside
<1>8. ASSUME NEW c \in Callers,
             BeginVerify(c) \/ VerifyPanics(c) \/ LookUp(c) \/ EndVerify(c)
      PROVE  LoopInside'
  BY <1>8, SameServers DEF BeginVerify, VerifyPanics, LookUp, EndVerify, LoopInside
<1>9. ASSUME UNCHANGED registryVars PROVE LoopInside'
  BY <1>9, SameServers DEF registryVars, selectVars, LoopInside
<1> QED BY NextCases, <1>2, <1>3, <1>4, <1>5, <1>6, <1>7, <1>8, <1>9

-----------------------------------------------------------------------------

(* The regions keep their type.                                            *)
LEMMA RegionsTypeStep ==
  ASSUME RegionsTypeOK, [RegionsNext]_regionVars
  PROVE  RegionsTypeOK'
<1> USE DEF RegionsTypeOK
<1>1. ASSUME NEW r \in RegionIDs, AddRegion(r) PROVE RegionsTypeOK'
  BY <1>1 DEF AddRegion
<1>2. ASSUME NEW r \in RegionIDs, RemoveRegion(r) PROVE RegionsTypeOK'
  BY <1>2 DEF RemoveRegion, Without
<1>3. ASSUME NEW r \in RegionIDs, NEW s \in ServerIDs, AssignServer(s, r)
      PROVE  RegionsTypeOK'
  BY <1>3 DEF AssignServer
<1>4. ASSUME UNCHANGED regionVars PROVE RegionsTypeOK'
  BY <1>4 DEF regionVars
<1> QED BY <1>1, <1>2, <1>3, <1>4 DEF RegionsNext

(* A step of the node is one of the regions, or leaves them alone.         *)
LEMMA NextRegions ==
  ASSUME Next
  PROVE  [RegionsNext]_regionVars
BY DEF Next

(* What is verified and what is answered keep their types.                 *)
VerifyTypes ==
  /\ ts \in [Callers -> Timestamps]
  /\ peer \in [Callers -> Objects \cup {NoServer}]
  /\ verdict \in [Callers -> {"none", "Valid: true", "Valid: false", "rpc error"}]

(* A timestamp names a server.                                             *)
LEMMA TimestampServer ==
  ASSUME NEW t \in Timestamps
  PROVE  t.server \in IDs
<1>1. ASSUME NEW o \in Objects PROVE ID(o) \in IDs
  BY RegistryAssumption DEF ID
<1> QED BY <1>1, SelfAssumption DEF Timestamps, GetTimestamp, Sign

(* Every step keeps these types.                                           *)
LEMMA VerifyTypesStep ==
  ASSUME RegistryTypes, VerifyTypes, Next
  PROVE  VerifyTypes'
<1> USE DEF VerifyTypes
<1>1. ASSUME NEW c \in Callers, BeginVerify(c) PROVE VerifyTypes'
  BY <1>1, SelfAssumption DEF BeginVerify
<1>2. ASSUME NEW c \in Callers, LookUp(c) PROVE VerifyTypes'
  <2>1. ts[c].server \in IDs
    BY TimestampServer
  <2> QED BY <1>2, <2>1 DEF LookUp, RegistryTypes
<1>3. ASSUME NEW c \in Callers, EndVerify(c) PROVE VerifyTypes'
  BY <1>3 DEF EndVerify, Response
<1>4. ASSUME UNCHANGED <<ts, peer, verdict>> PROVE VerifyTypes'
  BY <1>4
<1> QED BY NextCases, <1>1, <1>2, <1>3, <1>4 DEF VerifyPanics, verifyVars

(* Every variable keeps its type, an ID leads to a server with that ID, and*)
(* a loop over the registry stays inside it.                               *)
THEOREM TypeCorrect == Spec => []TypeOK
<1>1. Init => TypeOK
  BY InitType
<1>2. TypeOK /\ [Next]_vars => TypeOK'
  <2> SUFFICES ASSUME TypeOK, [Next]_vars PROVE TypeOK'
    OBVIOUS
  <2> USE DEF TypeOK, RegistryTypeOK
  <2>1. CASE Next
    <3>1. RegistryTypeOK'
      BY <2>1, RegistryTypesStep, FoundByIDStep, LoopInsideStep
    <3>2. RegionsTypeOK'
      BY <2>1, NextRegions, RegionsTypeStep
    <3>3. VerifyTypes'
      BY <2>1, VerifyTypesStep DEF VerifyTypes
    <3> QED BY <3>1, <3>2, <3>3 DEF VerifyTypes
  <2>2. CASE UNCHANGED vars
    <3>1. GetServers' = GetServers
      BY <2>2, SameServers DEF vars, registryVars
    <3>2. RegistryTypeOK'
      BY <2>2, <3>1
      DEF vars, registryVars, selectVars, RegistryTypes, FoundByID, LoopInside
    <3>3. RegionsTypeOK'
      BY <2>2, RegionsTypeStep DEF vars
    <3> QED BY <2>2, <3>2, <3>3 DEF vars, verifyVars
  <2> QED BY <2>1, <2>2
<1> QED BY <1>1, <1>2, PTL DEF Spec

(* RemoveRegion takes the assignments of its region with it, so none is    *)
(* ever to a region that does not exist.                                   *)
THEOREM AssignmentsExist == Spec => []NoDanglingAssignment
<1>1. Init => NoDanglingAssignment
  BY DEF Init, RegionsInit, NoDanglingAssignment
<1>2. TypeOK /\ NoDanglingAssignment /\ [Next]_vars => NoDanglingAssignment'
  <2> SUFFICES ASSUME TypeOK, NoDanglingAssignment, [Next]_vars
               PROVE  NoDanglingAssignment'
    OBVIOUS
  <2> USE DEF TypeOK, RegionsTypeOK, NoDanglingAssignment
  <2>1. ASSUME NEW r \in RegionIDs, AddRegion(r) PROVE NoDanglingAssignment'
    BY <2>1 DEF AddRegion
  <2>2. ASSUME NEW r \in RegionIDs, RemoveRegion(r) PROVE NoDanglingAssignment'
    BY <2>2 DEF RemoveRegion, Without, ServersIn
  <2>3. ASSUME NEW r \in RegionIDs, NEW s \in ServerIDs, AssignServer(s, r)
        PROVE  NoDanglingAssignment'
    BY <2>3 DEF AssignServer
  <2>4. ASSUME UNCHANGED regionVars PROVE NoDanglingAssignment'
    BY <2>4 DEF regionVars
  <2>5. [RegionsNext]_regionVars
    BY NextRegions DEF vars
  <2> QED BY <2>1, <2>2, <2>3, <2>4, <2>5 DEF RegionsNext
<1> QED BY <1>1, <1>2, TypeCorrect, PTL DEF Spec

-----------------------------------------------------------------------------

(* What makes the verdicts right: there is none before the call returns; a *)
(* call that searches the registry is not about the node's own timestamps; *)
(* and the server that was found was the one to find at some moment of the *)
(* call, so that no other was throughout.                                  *)
CallInv(c) ==
  /\ at[c] # "returned" => verdict[c] = "none"
  /\ at[c] = "lookup" => ~Own(reader[c], ts[c])
  /\ at[c] = "found" =>
       /\ peer[c] \in trusted[c]
       /\ trustedThroughout[c] \subseteq {peer[c]}
       /\ Own(reader[c], ts[c]) => peer[c] = Self
  /\ verdict[c] = "Valid: true" => ts[c].signer \in trusted[c] \ {NoServer}
  /\ verdict[c] \notin {"none", "Valid: true"} =>
       /\ ts[c].signer = NoServer \/ ts[c].signer \notin trustedThroughout[c]
       /\ ~(reader[c] = "fastPath" /\ ts[c] = GetTimestamp)
VerdictInv == \A c \in Callers : CallInv(c)

(* The histories grow and shrink.                                          *)
LEMMA TrustGrows ==
  ASSUME WatchTrust, NEW c \in Callers, at[c] # "idle"
  PROVE  /\ trusted[c] \subseteq trusted'[c]
         /\ trustedThroughout'[c] \subseteq trustedThroughout[c]
BY DEF WatchTrust

(* What is known of the keys of a call stays while it verifies nothing.    *)
LEMMA TrustUnlessVerifying ==
  ASSUME WatchTrust, NEW c \in Callers, at'[c] \notin {"lookup", "found"}
  PROVE  /\ trusted'[c] = trusted[c]
         /\ trustedThroughout'[c] = trustedThroughout[c]
BY DEF WatchTrust

(* A step that leaves a call alone keeps what is known of it.              *)
LEMMA OtherCall ==
  ASSUME NEW c \in Callers, CallInv(c), WatchTrust,
         at'[c] = at[c], reader'[c] = reader[c], ts'[c] = ts[c],
         peer'[c] = peer[c], verdict'[c] = verdict[c]
  PROVE  CallInv(c)'
<1>1. CASE at[c] \in {"lookup", "found"}
  BY <1>1, TrustGrows DEF CallInv, Own
<1>2. CASE at[c] \notin {"lookup", "found"}
  BY <1>2, TrustUnlessVerifying DEF CallInv, Own
<1> QED BY <1>1, <1>2

(* A verdict is right if the server that was found has the properties that *)
(* CallInv gives it.                                                       *)
LEMMA RightVerdict ==
  ASSUME NEW c \in Callers, CallInv(c), at[c] = "found",
         VerifyTypes, EndVerify(c), WatchTrust, RegistryTypes
  PROVE  CallInv(c)'
<1> DEFINE answer == Response(VerifyTimestamp(ts[c], peer[c]))
<1>1. at'[c] = "returned" /\ ts' = ts /\ reader' = reader
  BY DEF EndVerify, RegistryTypes
<1>2. verdict'[c] = answer
  BY DEF EndVerify, VerifyTypes
<1>3. trusted'[c] = trusted[c] /\ trustedThroughout'[c] = trustedThroughout[c]
  BY <1>1, TrustUnlessVerifying
<1>4. answer = "Valid: true" => peer[c] # NoServer /\ ts[c].signer = peer[c]
  BY DEF Response, VerifyTimestamp, Verify
<1>5. answer # "Valid: true" => peer[c] = NoServer \/ ts[c].signer # peer[c]
  BY DEF Response, VerifyTimestamp, Verify
<1>6. reader[c] = "fastPath" /\ ts[c] = GetTimestamp => answer = "Valid: true"
  <2> SUFFICES ASSUME reader[c] = "fastPath", ts[c] = GetTimestamp
               PROVE  answer = "Valid: true"
    OBVIOUS
  <2>0. ts[c].server = ID(Self) /\ ts[c].signer = Self
    BY DEF GetTimestamp, Sign
  <2>1. peer[c] = Self /\ ts[c].signer = Self
    <3>1. Own(reader[c], ts[c])
      BY <2>0 DEF Own
    <3> QED BY <2>0, <3>1 DEF CallInv
  <2>2. Self # NoServer
    BY SelfAssumption, RegistryAssumption
  <2> QED BY <2>1, <2>2 DEF Response, VerifyTimestamp, Verify
<1> QED BY <1>1, <1>2, <1>3, <1>4, <1>5, <1>6 DEF CallInv

(* Every step keeps what is known of the verdicts.                         *)
LEMMA VerdictInvStep ==
  ASSUME RegistryTypes, VerifyTypes, VerdictInv, Next
  PROVE  VerdictInv'
<1> SUFFICES ASSUME NEW d \in Callers PROVE CallInv(d)'
  BY DEF VerdictInv
<1>0. CallInv(d)
  BY DEF VerdictInv
<1> USE DEF RegistryTypes, VerifyTypes
<1>1. ASSUME NEW c \in Callers, BeginVerify(c), WatchTrust PROVE CallInv(d)'
  <2>1. CASE c # d
    BY <1>0, <1>1, <2>1, OtherCall DEF BeginVerify
  <2>2. CASE c = d
    <3>1. PICK b \in Backends, t \in Timestamps :
             /\ reader' = [reader EXCEPT ![d] = b]
             /\ ts' = [ts EXCEPT ![d] = t]
             /\ \/ /\ Own(b, t)
                   /\ at' = [at EXCEPT ![d] = "found"]
                   /\ peer' = [peer EXCEPT ![d] = Self]
                \/ /\ ~Own(b, t)
                   /\ at' = [at EXCEPT ![d] = "lookup"]
                   /\ UNCHANGED peer
      BY <1>1, <2>2 DEF BeginVerify
    <3>2. /\ reader'[d] = b /\ ts'[d] = t
          /\ verdict'[d] = "none" /\ at[d] = "idle"
      BY <1>0, <1>1, <2>2, <3>1 DEF BeginVerify, CallInv
    <3>3. CASE Own(b, t)
      <4>1. at'[d] = "found" /\ peer'[d] = Self
        BY <3>1, <3>3
      <4>2. Trusted(d)' = {Self}
        BY <3>2, <3>3 DEF Trusted, Own
      <4>3. Self \in trusted'[d] /\ trustedThroughout'[d] = {Self}
        BY <1>1, <3>2, <4>1, <4>2 DEF WatchTrust
      <4> QED BY <3>2, <4>1, <4>3 DEF CallInv
    <3>4. CASE ~Own(b, t)
      <4>1. at'[d] = "lookup"
        BY <3>1, <3>4
      <4>2. ~Own(reader'[d], ts'[d])
        BY <3>2, <3>4
      <4> QED BY <3>2, <4>1, <4>2 DEF CallInv, Own
    <3> QED BY <3>3, <3>4
  <2> QED BY <2>1, <2>2
<1>2. ASSUME NEW c \in Callers, LookUp(c), WatchTrust PROVE CallInv(d)'
  <2>1. CASE c # d
    BY <1>0, <1>2, <2>1, OtherCall DEF LookUp
  <2>2. CASE c = d
    <3>1. /\ at[d] = "lookup" /\ at'[d] = "found"
          /\ peer'[d] = servers[ts[d].server] /\ servers' = servers
          /\ reader' = reader /\ ts' = ts /\ verdict' = verdict
      BY <1>2, <2>2 DEF LookUp
    <3>2. ~Own(reader[d], ts[d]) /\ verdict[d] = "none"
      BY <1>0, <3>1 DEF CallInv
    <3>3. Trusted(d)' = {peer'[d]}
      BY <3>1, <3>2 DEF Trusted, Own
    <3>4. peer'[d] \in trusted'[d] /\ trustedThroughout'[d] \subseteq {peer'[d]}
      BY <1>2, <3>1, <3>3 DEF WatchTrust
    <3> QED BY <3>1, <3>2, <3>4 DEF CallInv, Own
  <2> QED BY <2>1, <2>2
<1>3. ASSUME NEW c \in Callers, EndVerify(c), WatchTrust PROVE CallInv(d)'
  <2>1. CASE c # d
    BY <1>0, <1>3, <2>1, OtherCall DEF EndVerify
  <2>2. CASE c = d
    BY <1>0, <1>3, <2>2, RightVerdict DEF EndVerify
  <2> QED BY <2>1, <2>2
<1>4. ASSUME NEW c \in Callers,
             \/ Select(c) \/ SelectAll(c) \/ EndLoop(c) \/ FallBack(c)
             \/ VerifyPanics(c),
             WatchTrust, UNCHANGED <<ts, peer, verdict>>
      PROVE  CallInv(d)'
  <2>1. CASE c # d
    BY <1>0, <1>4, <2>1, OtherCall
    DEF Select, SelectAll, EndLoop, FallBack, VerifyPanics
  <2>2. CASE c = d
    <3>1. /\ at[d] # "returned" /\ at'[d] \notin {"lookup", "found"}
          /\ verdict'[d] = verdict[d]
      BY <1>4, <2>2 DEF Select, SelectAll, EndLoop, FallBack, VerifyPanics
    <3> QED BY <1>0, <3>1 DEF CallInv
  <2> QED BY <2>1, <2>2
<1>5. ASSUME WatchTrust, UNCHANGED <<at, reader, ts, peer, verdict>>
      PROVE  CallInv(d)'
  BY <1>0, <1>5, OtherCall
<1>6. ASSUME UNCHANGED <<registryVars, verifyVars>> PROVE CallInv(d)'
  BY <1>0, <1>6 DEF registryVars, selectVars, verifyVars, CallInv, Own
<1> QED
  BY NextCases, <1>1, <1>2, <1>3, <1>4, <1>5, <1>6
  DEF AddServer, RemoveServer, SetRegion, Visit, VerifyPanics, selectVars

(* It holds always.                                                        *)
LEMMA VerdictInvariant == Spec => []VerdictInv
<1>1. Init => VerdictInv
  BY DEF Init, RegistryInit, VerdictInv, CallInv
<1>2. TypeOK /\ VerdictInv /\ [Next]_vars => VerdictInv'
  <2> SUFFICES ASSUME TypeOK, VerdictInv, [Next]_vars PROVE VerdictInv'
    OBVIOUS
  <2>1. CASE Next
    BY <2>1, VerdictInvStep DEF TypeOK, RegistryTypeOK, VerifyTypes
  <2>2. CASE UNCHANGED vars
    BY <2>2
    DEF vars, registryVars, selectVars, verifyVars, VerdictInv, CallInv, Own
  <2> QED BY <2>1, <2>2
<1> QED BY <1>1, <1>2, TypeCorrect, PTL DEF Spec

(* Whatever happens to the registry during a call, its verdict is right    *)
(* for some moment of the call.                                            *)
THEOREM VerdictsAreRight == Spec => []VerdictRight
<1>1. VerdictInv => VerdictRight
  BY DEF VerdictInv, CallInv, VerdictRight
<1> QED BY <1>1, VerdictInvariant, PTL

(* A node's fast path never rejects the node's own timestamps.             *)
THEOREM OwnTimestampsAreValid == Spec => []OwnTimestampsVerify
<1>1. TypeOK /\ VerdictInv => OwnTimestampsVerify
  BY DEF TypeOK, VerdictInv, CallInv, OwnTimestampsVerify
<1> QED BY <1>1, VerdictInvariant, TypeCorrect, PTL

-----------------------------------------------------------------------------

(* What is known of a selection: while its loop runs, what it found was in *)
(* the region at some time, and what stayed there is found or to come.     *)
SelectInv(c) ==
  /\ at[c] = "iterate" => /\ found[c] \subseteq ever[c]
                          /\ always[c] \subseteq found[c] \cup todo[c]
  /\ at[c] \in {"idle", "fallback"} => always[c] = {}
  /\ at[c] \in {"idle", "iterate", "fallback"} => ~fellBack[c]
  /\ at[c] \in {"lookup", "found"} => reader[c] \notin Selections
  /\ at[c] = "returned" /\ reader[c] \in Selections =>
       IF fellBack[c] THEN always[c] = {}
       ELSE always[c] \subseteq found[c] /\ found[c] \subseteq ever[c]
SelectionInv == \A c \in Callers : SelectInv(c)

(* The histories only grow and shrink while a loop runs, and are what they *)
(* were when it does not.                                                  *)
LEMMA Histories ==
  ASSUME NEW c \in Callers, Watch
  PROVE  /\ at'[c] = "iterate" => ever'[c] = ever[c] \cup MayBeThere'
         /\ at'[c] = "iterate" /\ at[c] = "idle" => always'[c] = InRegion'
         /\ at'[c] = "iterate" /\ at[c] # "idle" =>
              always'[c] = always[c] \cap InRegion'
         /\ at'[c] # "iterate" => ever'[c] = ever[c] /\ always'[c] = always[c]
BY DEF Watch

(* A step that leaves a selection alone keeps what is known of it.         *)
LEMMA OtherSelection ==
  ASSUME NEW c \in Callers, SelectInv(c), Watch,
         at'[c] = at[c], reader'[c] = reader[c], todo'[c] = todo[c],
         found'[c] = found[c], fellBack'[c] = fellBack[c]
  PROVE  SelectInv(c)'
<1>1. CASE at[c] = "iterate"
  <2>1. ever[c] \subseteq ever'[c] /\ always'[c] \subseteq always[c]
    BY <1>1, Histories
  <2> QED BY <1>1, <2>1 DEF SelectInv
<1>2. CASE at[c] # "iterate"
  <2>1. ever'[c] = ever[c] /\ always'[c] = always[c]
    BY <1>2, Histories
  <2> QED BY <1>2, <2>1 DEF SelectInv
<1> QED BY <1>1, <1>2

(* The loop comes to a server: if it is taken it may have been in the      *)
(* region, and if it is not then it has not stayed there.                  *)
LEMMA VisitKeepsSelection ==
  ASSUME NEW c \in Callers, RegistryTypes, LoopInside, SelectInv(c),
         Visit(c), Watch
  PROVE  SelectInv(c)'
<1>1. PICK o \in todo[c] :
         /\ todo' = [todo EXCEPT ![c] = @ \ {o}]
         /\ \/ /\ region[o] \in {Wanted, Torn}
               /\ found' = [found EXCEPT ![c] = @ \cup {o}]
            \/ /\ region[o] # Wanted
               /\ UNCHANGED found
  BY DEF Visit
<1>2. /\ at[c] = "iterate" /\ at' = at /\ fellBack' = fellBack
      /\ reader' = reader /\ region' = region
  BY DEF Visit
<1>3. GetServers' = GetServers
  BY SameServers DEF Visit
<1>4. o \in GetServers
  BY <1>1, <1>2 DEF LoopInside
<1>5. /\ ever'[c] = ever[c] \cup MayBeThere'
      /\ always'[c] = always[c] \cap InRegion'
  BY <1>2, Histories
<1>6. todo'[c] = todo[c] \ {o}
  BY <1>1 DEF RegistryTypes
<1>7. CASE region[o] \in {Wanted, Torn} /\ found' = [found EXCEPT ![c] = @ \cup {o}]
  <2>1. found'[c] = found[c] \cup {o}
    BY <1>7 DEF RegistryTypes
  <2>2. o \in MayBeThere'
    BY <1>2, <1>3, <1>4, <1>7 DEF MayBeThere
  <2> QED BY <1>2, <1>5, <1>6, <2>1, <2>2 DEF SelectInv
<1>8. CASE region[o] # Wanted /\ UNCHANGED found
  <2>1. o \notin InRegion'
    BY <1>2, <1>8 DEF InRegion
  <2> QED BY <1>2, <1>5, <1>6, <1>8, <2>1 DEF SelectInv
<1> QED BY <1>1, <1>7, <1>8

(* Every step keeps what is known of the selections.                       *)
LEMMA SelectionInvStep ==
  ASSUME RegistryTypes, LoopInside, SelectionInv, Next
  PROVE  SelectionInv'
<1> SUFFICES ASSUME NEW d \in Callers PROVE SelectInv(d)'
  BY DEF SelectionInv
<1>0. SelectInv(d)
  BY DEF SelectionInv
<1>1. ASSUME Watch, UNCHANGED selectVars PROVE SelectInv(d)'
  BY <1>0, <1>1, OtherSelection DEF selectVars
<1>2. ASSUME NEW c \in Callers, c # d, Watch,
             \/ Select(c) \/ SelectAll(c) \/ Visit(c) \/ EndLoop(c) \/ FallBack(c)
             \/ BeginVerify(c) \/ VerifyPanics(c) \/ LookUp(c) \/ EndVerify(c)
      PROVE  SelectInv(d)'
  <2>1. /\ at'[d] = at[d] /\ reader'[d] = reader[d] /\ todo'[d] = todo[d]
        /\ found'[d] = found[d] /\ fellBack'[d] = fellBack[d]
    BY <1>2 DEF Select, SelectAll, Visit, EndLoop, FallBack, BeginVerify,
                VerifyPanics, LookUp, EndVerify, RegistryTypes
  <2> QED BY <1>0, <1>2, <2>1, OtherSelection
<1>3. ASSUME Select(d), Watch PROVE SelectInv(d)'
  <2>1. /\ at[d] = "idle" /\ at'[d] = "iterate" /\ todo'[d] = GetServers
        /\ found'[d] = {} /\ fellBack' = fellBack
    BY <1>3 DEF Select, RegistryTypes
  <2>2. GetServers' = GetServers
    BY <1>3, SameServers DEF Select
  <2>3. always'[d] \subseteq GetServers
    BY <1>3, <2>1, <2>2, Histories DEF InRegion
  <2> QED BY <1>0, <2>1, <2>3 DEF SelectInv
<1>4. ASSUME Visit(d), Watch PROVE SelectInv(d)'
  BY <1>0, <1>4, VisitKeepsSelection
<1>5. ASSUME EndLoop(d), Watch PROVE SelectInv(d)'
  <2>1. /\ at[d] = "iterate" /\ todo[d] = {} /\ found' = found
        /\ fellBack' = fellBack /\ reader' = reader
        /\ at'[d] = IF FallsBack(d) THEN "fallback" ELSE "returned"
    BY <1>5 DEF EndLoop, RegistryTypes
  <2>2. ever'[d] = ever[d] /\ always'[d] = always[d]
    BY <1>5, <2>1, Histories
  <2> QED BY <1>0, <2>1, <2>2 DEF SelectInv, FallsBack
<1>6. ASSUME FallBack(d), Watch PROVE SelectInv(d)'
  <2>1. at[d] = "fallback" /\ at'[d] = "returned" /\ fellBack'[d] = TRUE
    BY <1>6 DEF FallBack, RegistryTypes
  <2>2. always'[d] = always[d]
    BY <1>6, <2>1, Histories
  <2> QED BY <1>0, <2>1, <2>2 DEF SelectInv
<1>7. ASSUME BeginVerify(d) \/ VerifyPanics(d) \/ LookUp(d) \/ EndVerify(d), Watch
      PROVE  SelectInv(d)'
  <2>1. /\ at'[d] \in {"lookup", "found", "returned", "panicked"}
        /\ reader'[d] \notin Selections
    BY <1>0, <1>7 DEF BeginVerify, VerifyPanics, LookUp, EndVerify, SelectInv, RegistryTypes,
                      Backends, Selections
  <2> QED BY <2>1 DEF SelectInv
<1>8. ASSUME SelectAll(d), Watch PROVE SelectInv(d)'
  <2>1. /\ at[d] = "idle" /\ at'[d] = "fallback" /\ fellBack' = fellBack
    BY <1>8 DEF SelectAll, RegistryTypes
  <2>2. always'[d] = always[d]
    BY <1>8, <2>1, Histories
  <2> QED BY <1>0, <2>1, <2>2 DEF SelectInv
<1>9. ASSUME UNCHANGED registryVars PROVE SelectInv(d)'
  BY <1>0, <1>9 DEF registryVars, selectVars, SelectInv
<1>10. ASSUME NEW c \in Callers, Watch,
             \/ Select(c) \/ SelectAll(c) \/ Visit(c) \/ EndLoop(c) \/ FallBack(c)
             \/ BeginVerify(c) \/ VerifyPanics(c) \/ LookUp(c) \/ EndVerify(c)
      PROVE  SelectInv(d)'
  BY <1>2, <1>3, <1>4, <1>5, <1>6, <1>7, <1>8, <1>10
<1> QED
  BY NextCases, <1>1, <1>9, <1>10 DEF AddServer, RemoveServer, SetRegion

(* A selection by region is exact for any number of servers and callers:   *)
(* no server that stayed in the region is missed, none that was never      *)
(* there is taken, and the fall back to all servers is justified.          *)
THEOREM SelectionsAreExact == Spec => []SelectionExact
<1>1. Init => SelectionInv
  BY DEF Init, RegistryInit, SelectionInv, SelectInv
<1>2. TypeOK /\ SelectionInv /\ [Next]_vars => SelectionInv'
  <2> SUFFICES ASSUME TypeOK, SelectionInv, [Next]_vars PROVE SelectionInv'
    OBVIOUS
  <2>1. CASE Next
    BY <2>1, SelectionInvStep DEF TypeOK, RegistryTypeOK
  <2>2. CASE UNCHANGED vars
    BY <2>2 DEF vars, registryVars, selectVars, SelectionInv, SelectInv
  <2> QED BY <2>1, <2>2
<1>3. SelectionInv => SelectionExact
  BY DEF SelectionInv, SelectInv, SelectionExact
<1> QED BY <1>1, <1>2, <1>3, TypeCorrect, PTL DEF Spec

=============================================================================
