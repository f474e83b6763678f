------------------------------ MODULE Registry ------------------------------
(***************************************************************************)
(* The server registry of a node, NetworkAdapter of                        *)
(* core/network/adapters.go, the regions that Server objects carry         *)
(* (core/server/server.go), and the two readers that select servers by     *)
(* region: HFTClient.getServersByRTT of core/client/hft_client.go and      *)
(* TimestampService.GetValidators of core/service/timestamp_service.go.    *)
(*                                                                         *)
(* The registry maps an ID to a server object.  A server that starts again *)
(* without a key file has a new key (cmd/timeserver/main.go): an object is *)
(* an ID and an incarnation, and the incarnation stands for the key.       *)
(* SetRegion assigns a string without a lock while others read it, which   *)
(* is undefined: from the beginning of the assignment to its end a reader  *)
(* may see anything.                                                       *)
(***************************************************************************)
EXTENDS Integers, FiniteSets

CONSTANTS
  IDs,
  Objects,       \* pairs of an ID and an incarnation
  NoServer,
  Areas,         \* the regions of servers
  Wanted,        \* the one the readers select by
  Torn,          \* a region that is being assigned
  Callers        \* goroutines that call, once each

ID(o) == o[1]

ASSUME RegistryAssumption ==
  /\ Objects \subseteq IDs \X Nat /\ NoServer \notin Objects
  /\ Wanted \in Areas /\ Torn \notin Areas

VARIABLES
  servers,       \* a.servers
  region,        \* the region of each object
  reader,        \* what a caller calls: to select, "rtt" or "validators"
  at,            \* where it is; "iterate" and "fallback" when it selects
  todo,          \* the objects its loop has not come to
  found,         \* its result
  fellBack,      \* whether that is the result of GetServers
  ever, always   \* the objects that may have been in the wanted region at
                 \*   some moment of its loop, and that were at every moment

selectVars   == <<reader, at, todo, found, fellBack>>
registryVars == <<servers, region, selectVars, ever, always>>

Places == {"idle", "iterate", "fallback", "lookup", "found", "returned", "panicked"}
Selections == {"rtt", "validators"}
Backends   == {"fastPath", "service"}    \* of the calls of TimeService

(* GetServers.                                                             *)
GetServers == {servers[i] : i \in IDs} \ {NoServer}

(* Readers hold a.mu while they iterate.                                   *)
Locked == \E c \in Callers : at[c] = "iterate"

RegistryInit ==
  /\ servers = [i \in IDs |-> NoServer]
  /\ region \in [Objects -> Areas]
  /\ reader = [c \in Callers |-> "none"]
  /\ at = [c \in Callers |-> "idle"]
  /\ todo = [c \in Callers |-> {}]
  /\ found = [c \in Callers |-> {}]
  /\ fellBack = [c \in Callers |-> FALSE]
  /\ ever = [c \in Callers |-> {}]
  /\ always = [c \in Callers |-> {}]

-----------------------------------------------------------------------------

(* AddServer replaces the object that has the same ID.                     *)
AddServer(o) ==
  /\ ~Locked
  /\ servers' = [servers EXCEPT ![ID(o)] = o]
  /\ UNCHANGED <<region, selectVars>>

RemoveServerUnlocked(i) ==
  /\ servers[i] # NoServer
  /\ servers' = [servers EXCEPT ![i] = NoServer]
  /\ UNCHANGED <<region, selectVars>>
RemoveServer(i) ==
  /\ ~Locked
  /\ servers[i] # NoServer
  /\ servers' = [servers EXCEPT ![i] = NoServer]
  /\ UNCHANGED <<region, selectVars>>

(* SetRegion, from the beginning of the assignment to its end.             *)
SetRegion(o) ==
  /\ \/ region[o] # Torn /\ region' = [region EXCEPT ![o] = Torn]
     \/ region[o] = Torn /\ \E a \in Areas : region' = [region EXCEPT ![o] = a]
  /\ UNCHANGED <<servers, selectVars>>

(* GetServersByRegion begins.                                              *)
Select(c) ==
  /\ at[c] = "idle"
  /\ \E kind \in Selections : reader' = [reader EXCEPT ![c] = kind]
  /\ at' = [at EXCEPT ![c] = "iterate"]
  /\ todo' = [todo EXCEPT ![c] = GetServers]
  /\ found' = [found EXCEPT ![c] = {}]
  /\ UNCHANGED <<servers, region, fellBack>>

(* getServersByRTT with no region asks for all servers at once.            *)
SelectAll(c) ==
  /\ at[c] = "idle"
  /\ reader' = [reader EXCEPT ![c] = "rtt"]
  /\ at' = [at EXCEPT ![c] = "fallback"]
  /\ UNCHANGED <<servers, region, todo, found, fellBack>>

(* The loop of GetServersByRegion comes to a server.                       *)
Visit(c) ==
  /\ at[c] = "iterate"
  /\ \E o \in todo[c] :
       /\ todo' = [todo EXCEPT ![c] = @ \ {o}]
       /\ \/ /\ region[o] \in {Wanted, Torn}
             /\ found' = [found EXCEPT ![c] = @ \cup {o}]
          \/ /\ region[o] # Wanted
             /\ UNCHANGED found
  /\ UNCHANGED <<servers, region, reader, at, fellBack>>

(* It ends and the lock is released.  GetValidators goes by what it found; *)
(* getServersByRTT, if that is nothing, asks for all.                      *)
FallsBackAlways(c) == reader[c] = "rtt"
FallsBack(c) == reader[c] = "rtt" /\ found[c] = {}

EndLoop(c) ==
  /\ at[c] = "iterate" /\ todo[c] = {}
  /\ at' = [at EXCEPT ![c] = IF FallsBack(c) THEN "fallback" ELSE "returned"]
  /\ UNCHANGED <<servers, region, reader, todo, found, fellBack>>

FallBack(c) ==
  /\ at[c] = "fallback"
  /\ at' = [at EXCEPT ![c] = "returned"]
  /\ found' = [found EXCEPT ![c] = GetServers]
  /\ fellBack' = [fellBack EXCEPT ![c] = TRUE]
  /\ UNCHANGED <<servers, region, reader, todo>>

(* The history of what was in the wanted region during the loops.          *)
InRegion   == {o \in GetServers : region[o] = Wanted}
MayBeThere == {o \in GetServers : region[o] \in {Wanted, Torn}}
Watch ==
  /\ ever' = [c \in Callers |->
       IF at'[c] = "iterate" THEN ever[c] \cup MayBeThere' ELSE ever[c]]
  /\ always' = [c \in Callers |->
       IF at'[c] = "iterate"
       THEN IF at[c] = "idle" THEN InRegion' ELSE always[c] \cap InRegion'
       ELSE always[c]]

RegistryNext ==
  /\ \/ \E o \in Objects : AddServer(o) \/ SetRegion(o)
     \/ \E i \in IDs : RemoveServer(i)
     \/ \E c \in Callers : \/ Select(c) \/ SelectAll(c) \/ Visit(c)
                           \/ EndLoop(c) \/ FallBack(c)
  /\ Watch

-----------------------------------------------------------------------------

(* The type invariant.  An ID leads to a server with that ID, and what a   *)
(* loop has come to and what is left are servers that are registered.      *)
RegistryTypes ==
  /\ servers \in [IDs -> Objects \cup {NoServer}]
  /\ region \in [Objects -> Areas \cup {Torn}]
  /\ reader \in [Callers -> {"none"} \cup Selections \cup Backends]
  /\ at \in [Callers -> Places]
  /\ todo \in [Callers -> SUBSET Objects]
  /\ found \in [Callers -> SUBSET Objects]
  /\ fellBack \in [Callers -> BOOLEAN]
FoundByID  == \A i \in IDs : servers[i] # NoServer => ID(servers[i]) = i
LoopInside == \A c \in Callers :
  at[c] = "iterate" => todo[c] \subseteq GetServers /\ found[c] \subseteq GetServers
RegistryTypeOK == RegistryTypes /\ FoundByID /\ LoopInside

(* A selection by region is what it would have been at moments of the      *)
(* call, one for each server, although regions are assigned meanwhile: it  *)
(* has every server that stayed in the region and none that was never      *)
(* there.  All servers are the answer only if none stayed in the region.   *)
SelectionExact ==
  \A c \in Callers : at[c] = "returned" /\ reader[c] \in Selections =>
    IF fellBack[c] THEN always[c] = {}
    ELSE always[c] \subseteq found[c] /\ found[c] \subseteq ever[c]

=============================================================================
