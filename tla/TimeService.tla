---------------------------- MODULE TimeService -----------------------------
(***************************************************************************)
(* A node of the time service: the server registry of Registry, the        *)
(* verification of timestamps against it, through GRPCAdapter              *)
(* (core/service/grpc_adapter.go), by either of its back ends, FastPath of *)
(* core/server/fastpath.go or TimestampService of                          *)
(* core/service/timestamp_service.go, and the regions of Regions.          *)
(*                                                                         *)
(* A signature stands for the object that made it, NoServer for one that   *)
(* no key verifies.  Its server's ID comes with it (SignedTimestamp.Sign). *)
(***************************************************************************)
EXTENDS Registry, Regions

CONSTANTS Self    \* the node's own server

ASSUME SelfAssumption == Self \in Objects

VARIABLES
  ts,              \* the timestamp a caller asks to verify
  peer,            \* the server that was found to verify it
  verdict,         \* what GRPCAdapter.VerifyTimestamp answers
  trusted, trustedThroughout    \* who would have been found at some moment
                                \*   of the call, and at every moment

verifyVars == <<ts, peer, verdict, trusted, trustedThroughout>>
vars == <<registryVars, regionVars, verifyVars>>

(* SignedTimestamp.Sign: the signature of an object and the object's ID.   *)
Sign(o) == [server |-> ID(o), signer |-> o]

(* What GetTimestamp of the node and of other servers returns, and         *)
(* timestamps whose signature does not verify.                             *)
GetTimestamp == Sign(Self)
Timestamps   == {GetTimestamp} \cup {Sign(o) : o \in Objects} \cup
                {[server |-> i, signer |-> NoServer] : i \in IDs}

Init ==
  /\ RegistryInit /\ RegionsInit
  /\ ts = [c \in Callers |-> GetTimestamp]
  /\ peer = [c \in Callers |-> NoServer]
  /\ verdict = [c \in Callers |-> "none"]
  /\ trusted = [c \in Callers |-> {}]
  /\ trustedThroughout = [c \in Callers |-> {}]

-----------------------------------------------------------------------------

(* FastPath.VerifyTimestamp verifies timestamps of its own server by its   *)
(* own key.                                                                *)
Own(b, t) == b = "fastPath" /\ t.server = ID(Self)

(* Server.Verify by the key of o.  The error is not                        *)
(* types.ErrInvalidSignature, although it reads the same.                  *)
VerifyAnyIncarnation(signer, o) ==
  IF signer # NoServer /\ ID(signer) = ID(o) THEN "nil" ELSE "invalid signature"
Verify(signer, o) == IF signer = o THEN "nil" ELSE "invalid signature"

(* What the back end returns.                                              *)
VerifyTimestamp(t, o) == IF o = NoServer THEN "server not found"
                         ELSE Verify(t.signer, o)

(* What GRPCAdapter.VerifyTimestamp makes of it.                           *)
Response(err) == IF err = "ErrInvalidSignature" THEN "Valid: false"
                 ELSE IF err # "nil" THEN "rpc error" ELSE "Valid: true"

(* A request to verify a timestamp comes to an adapter of either kind.     *)
BeginVerify(c) ==
  /\ at[c] = "idle"
  /\ \E b \in Backends, t \in Timestamps :
       /\ reader' = [reader EXCEPT ![c] = b]
       /\ ts' = [ts EXCEPT ![c] = t]
       /\ \/ /\ Own(b, t)
             /\ at' = [at EXCEPT ![c] = "found"]
             /\ peer' = [peer EXCEPT ![c] = Self]
          \/ /\ ~Own(b, t)
             /\ at' = [at EXCEPT ![c] = "lookup"]
             /\ UNCHANGED peer
  /\ UNCHANGED <<servers, region, todo, found, fellBack, verdict>>

(* A request without signatures: there is no first one, and the panic ends *)
(* the process, as nothing recovers from it.                               *)
VerifyPanics(c) ==
  /\ at[c] = "idle"
  /\ \E b \in Backends : reader' = [reader EXCEPT ![c] = b]
  /\ at' = [at EXCEPT ![c] = "panicked"]
  /\ UNCHANGED <<servers, region, todo, found, fellBack, ts, peer, verdict>>
Panicked == \E c \in Callers : at[c] = "panicked"

(* GetPeers or GetServers, and the search through the list it returned.    *)
LookUp(c) ==
  /\ at[c] = "lookup"
  /\ at' = [at EXCEPT ![c] = "found"]
  /\ peer' = [peer EXCEPT ![c] = servers[ts[c].server]]
  /\ UNCHANGED <<servers, region, reader, todo, found, fellBack, ts, verdict>>

(* The signature is verified, by which time the registry may have changed. *)
EndVerify(c) ==
  /\ at[c] = "found"
  /\ at' = [at EXCEPT ![c] = "returned"]
  /\ verdict' = [verdict EXCEPT ![c] = Response(VerifyTimestamp(ts[c], peer[c]))]
  /\ UNCHANGED <<servers, region, reader, todo, found, fellBack, ts, peer>>

(* The history of who would be found.                                      *)
Trusted(c) == IF reader[c] = "fastPath" /\ ts[c].server = ID(Self)
              THEN {Self} ELSE {servers[ts[c].server]}
WatchTrust ==
  /\ trusted' = [c \in Callers |->
       IF at'[c] \in {"lookup", "found"} THEN trusted[c] \cup Trusted(c)'
       ELSE trusted[c]]
  /\ trustedThroughout' = [c \in Callers |->
       IF at'[c] \in {"lookup", "found"}
       THEN IF at[c] = "idle" THEN Trusted(c)' ELSE trustedThroughout[c] \cap Trusted(c)'
       ELSE trustedThroughout[c]]

Verification ==
  \E c \in Callers : BeginVerify(c) \/ VerifyPanics(c) \/ LookUp(c) \/ EndVerify(c)

Next ==
  /\ ~Panicked
  /\ \/ /\ Verification /\ Watch /\ WatchTrust
        /\ UNCHANGED regionVars
     \/ /\ RegistryNext
        /\ UNCHANGED <<regionVars, ts, peer, verdict>>
        /\ WatchTrust
     \/ /\ RegionsNext
        /\ UNCHANGED <<registryVars, verifyVars>>

Spec == Init /\ [][Next]_vars

-----------------------------------------------------------------------------

(* The type invariant.                                                     *)
TypeOK ==
  /\ RegistryTypeOK /\ RegionsTypeOK
  /\ ts \in [Callers -> Timestamps]
  /\ peer \in [Callers -> Objects \cup {NoServer}]
  /\ verdict \in [Callers -> {"none", "Valid: true", "Valid: false", "rpc error"}]

(* The verdict on a timestamp is right for some moment of the call: it is  *)
(* valid only if the very key that signed it was registered for its server *)
(* at some time since the call began, and it is not only if there was a    *)
(* time when it was not, however servers are removed, or start again with  *)
(* a new key and are registered anew, meanwhile.                           *)
VerdictRight ==
  \A c \in Callers :
    /\ verdict[c] = "Valid: true" => ts[c].signer \in trusted[c] \ {NoServer}
    /\ verdict[c] \notin {"none", "Valid: true"} =>
         ts[c].signer = NoServer \/ ts[c].signer \notin trustedThroughout[c]

(* A node's own timestamps are valid to its own fast path, whatever the    *)
(* registry holds, another server with its ID included.                    *)
OwnTimestampsVerify ==
  \A c \in Callers :
    reader[c] = "fastPath" /\ ts[c] = GetTimestamp => verdict[c] \in {"none", "Valid: true"}

-----------------------------------------------------------------------------
(* The servers of the run: the node's own ID was also started elsewhere,   *)
(* or before, with another key.                                            *)
ThreeServers == {<<"a", 1>>, <<"a", 2>>, <<"b", 1>>}
FirstServer  == <<"a", 1>>

=============================================================================
