----------------------------- MODULE BatchCache -----------------------------
(***************************************************************************)
(* HFTClient.GetVerifiedTimestampForBatch and the timestampBatchCache of   *)
(* core/client/hft_client.go, around the requests of HFTClient.            *)
(*                                                                         *)
(* Keys share nothing but the cleanup, so there is one: entry is what the  *)
(* two maps of the cache hold for it.  A timestamp is named by the caller  *)
(* whose request it was the result of.  With batching or caching disabled  *)
(* GetVerifiedTimestampForBatch is GetVerifiedTimestamp.                   *)
(***************************************************************************)
EXTENDS HFTClient

CONSTANTS
  NoCaller,        \* the nil timestamp, of a cache without an entry too
  DirectCallers,   \* those who may call GetVerifiedTimestamp instead
  TTL,             \* options.cacheTTL, in ticks
  MaxAge,          \* the maxAge of the calls, in ticks
  MaxNow           \* the bound on the clock

ASSUME BatchAssumption ==
  /\ NoCaller \notin Callers /\ DirectCallers \subseteq Callers
  /\ TTL \in Nat /\ MaxAge \in Nat /\ MaxNow \in Nat

VARIABLES
  now,
  batch,           \* where each batch call is; "direct" if it is none
  found,           \* the timestamp that get gave it
  given,           \* the timestamp it returned
  entry,           \* the timestamp of the cache and when it expires
  cacheHits, cacheMisses

batchVars == <<now, batch, found, given, entry, cacheHits, cacheMisses>>
allVars   == <<vars, batchVars>>

NoEntry == [from |-> NoCaller, expires |-> 0]

-----------------------------------------------------------------------------

(* now.After(expiry)                                                       *)
Expired(e) == now > e.expires

(* What get finds.                                                         *)
Live    == entry # NoEntry /\ ~Expired(entry)
Lookup == IF Live THEN entry.from ELSE NoCaller

(* time.Since(ts.Time) <= maxAge                                           *)
Fresh(f) == now - response[f][best[f]].time <= MaxAge

BatchInit ==
  /\ Init
  /\ now = 1
  /\ batch = [c \in Callers |-> "idle"]
  /\ found = [c \in Callers |-> NoCaller]
  /\ given = [c \in Callers |-> NoCaller]
  /\ entry = NoEntry
  /\ cacheHits = 0 /\ cacheMisses = 0

(* A call of GetVerifiedTimestamp itself.                                  *)
Direct(c) ==
  /\ c \in DirectCallers /\ batch[c] = "idle"
  /\ GetVerifiedTimestamp(c)
  /\ batch' = [batch EXCEPT ![c] = "direct"]
  /\ UNCHANGED <<now, found, given, entry, cacheHits, cacheMisses>>

(* A batch call looks into the cache.                                      *)
BatchGet(c) ==
  /\ batch[c] = "idle"
  /\ batch' = [batch EXCEPT ![c] = "got"]
  /\ found' = [found EXCEPT ![c] = Lookup]
  /\ UNCHANGED <<vars, now, given, entry, cacheHits, cacheMisses>>

(* What it found is recent enough.  By now the cache may hold another.     *)
BatchHit(c) ==
  /\ batch[c] = "got"
  /\ found[c] # NoCaller /\ Fresh(found[c])
  /\ batch' = [batch EXCEPT ![c] = "returned"]
  /\ given' = [given EXCEPT ![c] = found[c]]
  /\ cacheHits' = cacheHits + 1
  /\ UNCHANGED <<vars, now, found, entry, cacheMisses>>

CountMissIfNoneFound(c) ==
  cacheMisses' = IF found[c] = NoCaller THEN cacheMisses + 1 ELSE cacheMisses
CountMiss(c) == cacheMisses' = cacheMisses + 1

(* It found nothing recent enough, and asks the servers.                   *)
BatchMiss(c) ==
  /\ batch[c] = "got"
  /\ ~(found[c] # NoCaller /\ Fresh(found[c]))
  /\ batch' = [batch EXCEPT ![c] = "fetch"]
  /\ CountMiss(c)
  /\ GetVerifiedTimestamp(c)
  /\ UNCHANGED <<now, found, given, entry, cacheHits>>

(* Its request has ended: a timestamp is stored and returned, whatever the *)
(* cache holds by now, and an error is only returned.                      *)
StoreAlways(c) ==
  /\ entry' = [from |-> c, expires |-> now + TTL]
  /\ given' = [given EXCEPT ![c] = c]
Store(c) ==
  \/ /\ result[c] = "ok"
     /\ entry' = [from |-> c, expires |-> now + TTL]
     /\ given' = [given EXCEPT ![c] = c]
  \/ /\ result[c] # "ok"
     /\ UNCHANGED <<entry, given>>

BatchReturn(c) ==
  /\ batch[c] = "fetch" /\ pc[c] = "returned"
  /\ batch' = [batch EXCEPT ![c] = "returned"]
  /\ Store(c)
  /\ UNCHANGED <<vars, now, found, cacheHits, cacheMisses>>

(* A tick of the cleanup loop.                                             *)
Cleanup ==
  /\ entry # NoEntry /\ Expired(entry)
  /\ entry' = NoEntry
  /\ UNCHANGED <<vars, now, batch, found, given, cacheHits, cacheMisses>>

Tick ==
  /\ now < MaxNow
  /\ now' = now + 1
  /\ UNCHANGED <<vars, batch, found, given, entry, cacheHits, cacheMisses>>

(* The steps of a request that is under way.                               *)
Request(c) ==
  /\ \/ Proceed(c) \/ Background(c)
     \/ \E s \in Servers : Respond(c, s)
  /\ UNCHANGED batchVars

BatchNext ==
  \/ \E c \in Callers : \/ Direct(c) \/ BatchGet(c) \/ BatchHit(c)
                        \/ BatchMiss(c) \/ BatchReturn(c) \/ Request(c)
  \/ Cleanup \/ Tick

(* Runnable goroutines run and deadlines pass.  No server has to respond,  *)
(* and nothing depends on the cleanup.                                     *)
BatchFairness ==
  \A c \in Callers :
    /\ WF_allVars(BatchHit(c) \/ BatchMiss(c) \/ BatchReturn(c))
    /\ WF_allVars(Proceed(c) /\ UNCHANGED batchVars)
    /\ WF_allVars(Background(c) /\ UNCHANGED batchVars)

BatchSpec == BatchInit /\ [][BatchNext]_allVars /\ BatchFairness

-----------------------------------------------------------------------------

(* The timestamp a batch call returns, from the cache or from a request,   *)
(* was accepted by a request that found a quorum for it: an error or a nil *)
(* timestamp never gets into the cache, whichever of the calls that missed *)
(* stores last.                                                            *)
BatchSound ==
  /\ \A c \in Callers : given[c] # NoCaller => result[given[c]] = "ok"
  /\ entry # NoEntry => result[entry.from] = "ok"

(* The counters are exact.  A hit costs no request, and every batch call   *)
(* that has looked is counted as either a hit or a miss: the requests are  *)
(* the misses and the direct calls, each of which ends under one heading.  *)
BatchAccount ==
  /\ StatsAccount
  /\ cacheHits = Cardinality({c \in Callers : given[c] \notin {c, NoCaller}})
  /\ requestCount =
       cacheMisses + Cardinality({c \in Callers : batch[c] = "direct"})

(* A call of either kind returns even if no server ever responds, and the  *)
(* background goroutine it may leave ends: there comes a time when nothing *)
(* that was begun is under way.                                            *)
Terminates ==
  []<>(\A c \in Callers : /\ pc[c] \in {"idle", "returned"}
                          /\ batch[c] \notin {"got", "fetch"}
                          /\ background[c] # "on")

=============================================================================
