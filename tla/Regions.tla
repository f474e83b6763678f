------------------------------ MODULE Regions -------------------------------
(***************************************************************************)
(* RegionManager of core/regions/region_manager.go.  Every method runs     *)
(* under rm.mu, so a method is a step; those that only read return what    *)
(* ServersIn and the two variables say.  A region is its ID.               *)
(***************************************************************************)

CONSTANTS RegionIDs, ServerIDs, NoRegion

ASSUME RegionsAssumption == NoRegion \notin RegionIDs

VARIABLES regions,        \* the regions there are
          serverRegion    \* the region of each server, NoRegion if it has none

regionVars == <<regions, serverRegion>>

(* GetRegionServers and ListServersInRegion                                *)
ServersIn(r) == {s \in ServerIDs : serverRegion[s] = r}

RegionsInit == regions = {} /\ serverRegion = [s \in ServerIDs |-> NoRegion]

(* A region that exists already, one that does not, and a server that is   *)
(* to be assigned to one that does not are errors that change nothing.     *)
AddRegion(r) ==
  /\ r \notin regions
  /\ regions' = regions \cup {r}
  /\ UNCHANGED serverRegion

WithoutNothing(r) == serverRegion
Without(r) == [s \in ServerIDs |->
                 IF s \in ServersIn(r) THEN NoRegion ELSE serverRegion[s]]

RemoveRegion(r) ==
  /\ r \in regions
  /\ serverRegion' = Without(r)
  /\ regions' = regions \ {r}

AssignServer(s, r) ==
  /\ r \in regions
  /\ serverRegion' = [serverRegion EXCEPT ![s] = r]
  /\ UNCHANGED regions

RegionsNext ==
  \E r \in RegionIDs : \/ AddRegion(r) \/ RemoveRegion(r)
                       \/ \E s \in ServerIDs : AssignServer(s, r)

(* The type invariant.                                                     *)
RegionsTypeOK == /\ regions \subseteq RegionIDs
                 /\ serverRegion \in [ServerIDs -> RegionIDs \cup {NoRegion}]

(* A server is never assigned to a region that was removed, so a region    *)
(* that is added again under the same ID starts without servers.           *)
NoDanglingAssignment == \A s \in ServerIDs : serverRegion[s] \in regions \cup {NoRegion}

=============================================================================
