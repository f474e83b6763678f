----------------------------- MODULE HFTClient ------------------------------
(***************************************************************************)
(* HFTClient.GetVerifiedTimestamp of core/client/hft_client.go: a call     *)
(* asks every server in parallel, takes the first  quorum  answers, and    *)
(* either returns the earliest valid timestamp among them, leaving a       *)
(* background goroutine to read the rest, or waits for the rest itself.    *)
(* Concurrent calls share the verification cache and the counters.         *)
(*                                                                         *)
(* Timestamps and signatures: an ed25519 signature is determined by the    *)
(* server and the time it signs, so it is that pair, or Bad if it verifies *)
(* for nobody.  Nothing ties it to the time and to the server it is sent   *)
(* with: a timestamp may carry an old signature with a new time, or the    *)
(* name and the signature of another server.  id stands for the ServerID   *)
(* and the RegionID it claims.  A nil timestamp fails like a Bad one.      *)
(* A cached verdict expires at some time, after which neither get nor      *)
(* cleanup finds it, and of two calls that both missed the last one to     *)
(* finish is remembered: a verification may or may not find what was       *)
(* cached before, and what it finds is what was cached last.               *)
(* serverRTT only orders the list of servers, all of which are asked at    *)
(* once: see RTTTracker.                                                   *)
(* responseCh has room for every server: it is the set of the servers that *)
(* have responded and have not been read, and any of them may be first.    *)
(***************************************************************************)
EXTENDS Integers, FiniteSets

CONSTANTS
  Callers,      \* the goroutines that call GetVerifiedTimestamp, once each
  Servers,
  ServerLists,  \* what getServersByRTT may return, as sets
  Times,        \* the times servers put in their timestamps
  Bad,          \* a signature that does not verify
  Sent,         \* the timestamps each server may give
  NoServer,     \* the nil bestTimestamp
  Options       \* the options of clients: quorum, and progressive for
                \*   enableProgressiveResponse

ASSUME ServersAssumption ==
  /\ IsFiniteSet(Servers) /\ NoServer \notin Servers
  /\ ServerLists \subseteq SUBSET Servers
ASSUME CallersAssumption == IsFiniteSet(Callers)
ASSUME TimesAssumption ==
  Times # {} /\ Times \subseteq Nat \ {0} /\ Bad \notin Servers \X Times
ASSUME OptionsAssumption ==
  Options \subseteq [quorum : Nat \ {0}, progressive : BOOLEAN]

VARIABLES
  options,       \* those of the client
  pc,            \* where each call is
  servers,       \* the list it works with
  response,      \* what each server of the call responded
  received,      \* the servers it has read from responseCh
  checked,       \* those of them it has verified
  valid,         \* those that counted for validResponses
  best,          \* the server of bestTimestamp
  result,        \* "none", "ok" or the error
  background,    \* the goroutine of lines 250-263: "off", "on" or "ended"
  verifyCache,   \* the verdict last cached under each key, or "none"
  requestCount, verificationFailures, quorumFailures, requestTimeouts

call  == <<pc, servers, response, received, checked, valid, best, result,
           background>>
stats == <<requestCount, verificationFailures, quorumFailures, requestTimeouts>>
vars  == <<options, call, verifyCache, stats>>

Signatures == (Servers \X Times) \cup {Bad}
Keys       == Servers \X Signatures
Timestamps == [err : {FALSE}, id : Servers, sig : Signatures, time : Times]
NoResponse == [err |-> FALSE, id |-> NoServer, sig |-> Bad, time |-> 0]  \* not yet
Failure    == [err |-> TRUE, id |-> NoServer, sig |-> Bad, time |-> 0]
                                                          \* resp.error != nil
Verdicts   == {"none", "valid", "invalid"}    \* absent, true and false
PCs        == {"idle", "collect", "verify", "rest", "returned"}
Outcomes   == {"none", "ok", "noservers", "timeout", "quorum"}

ASSUME SentAssumption == Sent \in [Servers -> SUBSET Timestamps]

-----------------------------------------------------------------------------
(* An operator whose name says what is wrong with it is a faulty version   *)
(* of the definition that follows it, which the properties detect.         *)

(* The number of answers a call goes by: options.quorum, or as many as     *)
(* there are servers if they are fewer.                                    *)
quorum(c) == IF options.quorum > Cardinality(servers[c])
             THEN Cardinality(servers[c]) ELSE options.quorum

(* What responseCh holds.                                                  *)
Responded(c) == {s \in servers[c] : response[c][s] # NoResponse}
Unread(c)    == Responded(c) \ received[c]

(* ts.Verify(server): the signature is that server's, of that time.        *)
Verify(s, r) == r.sig = <<s, r.time>>

(* cacheKey: it has neither the time nor the server that was asked.        *)
Key(r) == <<r.id, r.sig>>

(* verifyTimestampResponse: the verdict that is cached, on a hit, or a     *)
(* fresh one, which is cached.                                             *)
Cached(r) == verifyCache[Key(r)]
VerdictUnchecked(s, r, hit) == ~r.err
Verdict(s, r, hit) ==
  ~r.err /\ IF hit THEN Cached(r) = "valid" ELSE Verify(s, r)

Remember(r, ok) ==
  IF r.err THEN verifyCache
  ELSE [verifyCache EXCEPT ![Key(r)] = IF ok THEN "valid" ELSE "invalid"]

(* Whether a verdict can be found for a response.                          *)
MayHit(r) == {hit \in BOOLEAN : hit => ~r.err /\ Cached(r) # "none"}

(* Of two equal times the one counted first is kept.                       *)
BetterNilUnchecked(c, s) ==
  best[c] # NoServer /\ response[c][s].time < response[c][best[c]].time
Better(c, s) == \/ best[c] = NoServer
                \/ response[c][s].time < response[c][best[c]].time

EnoughOffByOne(c, S) == Cardinality(S) > quorum(c)
Enough(c, S) == Cardinality(S) >= quorum(c)

-----------------------------------------------------------------------------

Init ==
  /\ options \in Options
  /\ pc = [c \in Callers |-> "idle"]
  /\ servers = [c \in Callers |-> {}]
  /\ response = [c \in Callers |-> [s \in Servers |-> NoResponse]]
  /\ received = [c \in Callers |-> {}]
  /\ checked = [c \in Callers |-> {}]
  /\ valid = [c \in Callers |-> {}]
  /\ best = [c \in Callers |-> NoServer]
  /\ result = [c \in Callers |-> "none"]
  /\ background = [c \in Callers |-> "off"]
  /\ verifyCache = [k \in Keys |-> "none"]
  /\ requestCount = 0 /\ verificationFailures = 0
  /\ quorumFailures = 0 /\ requestTimeouts = 0

Return(c, r) == /\ pc' = [pc EXCEPT ![c] = "returned"]
                /\ result' = [result EXCEPT ![c] = r]

(* The answers are all in and too few of them are valid.                   *)
QuorumNotReached(c) ==
  Return(c, "quorum") /\ quorumFailures' = quorumFailures + 1

(* When the background goroutine stops: it has read every answer, or sees  *)
(* that the context of the call that started it is done, as it is once the *)
(* call has returned, by the deferred cancel.                              *)
BackgroundDoneWhenRead(c) == received[c] = servers[c]
BackgroundDone(c) == received[c] = servers[c] \/ pc[c] = "returned"

(* The call begins: with no servers it fails at once, otherwise it starts  *)
(* a goroutine for each.                                                   *)
GetVerifiedTimestamp(c) ==
  /\ pc[c] = "idle"
  /\ requestCount' = requestCount + 1
  /\ \E list \in ServerLists :
       \/ /\ list = {}
          /\ pc' = [pc EXCEPT ![c] = "returned"]
          /\ result' = [result EXCEPT ![c] = "noservers"]
          /\ quorumFailures' = quorumFailures + 1
          /\ UNCHANGED servers
       \/ /\ list # {}
          /\ pc' = [pc EXCEPT ![c] = "collect"]
          /\ servers' = [servers EXCEPT ![c] = list]
          /\ UNCHANGED <<result, quorumFailures>>
  /\ UNCHANGED <<options, response, received, checked, valid, best, background,
                 verifyCache, verificationFailures, requestTimeouts>>

(* The goroutine of server s has its answer and puts it into responseCh.   *)
(* What it puts there when nobody is left to read it has no effect.        *)
Respond(c, s) ==
  /\ pc[c] \in {"collect", "verify", "rest"} \/ background[c] = "on"
  /\ s \in servers[c] /\ response[c][s] = NoResponse
  /\ \E r \in Sent[s] \cup {Failure} :
       response' = [response EXCEPT ![c][s] = r]
  /\ UNCHANGED <<options, pc, servers, received, checked, valid, best, result,
                 background, verifyCache, stats>>

(* The first loop reads an answer, and ends when it has  quorum  of them.  *)
Collect(c) ==
  /\ pc[c] = "collect"
  /\ \E s \in Unread(c) :
       LET R == received[c] \cup {s}
       IN  /\ received' = [received EXCEPT ![c] = R]
           /\ pc' = [pc EXCEPT ![c] = IF Cardinality(R) >= quorum(c)
                                      THEN "verify" ELSE "collect"]
  /\ UNCHANGED <<options, servers, response, checked, valid, best, result,
                 background, verifyCache, stats>>

(* An answer is verified and counted.                                      *)
Count(c, s) ==
  \E hit \in MayHit(response[c][s]) :
    LET r  == response[c][s]
        ok == Verdict(s, r, hit)
    IN  /\ checked' = [checked EXCEPT ![c] = @ \cup {s}]
        /\ valid' = [valid EXCEPT ![c] = IF ok THEN @ \cup {s} ELSE @]
        /\ best' = [best EXCEPT ![c] = IF ok /\ Better(c, s) THEN s ELSE @]
        /\ verifyCache' = Remember(r, ok)
        /\ verificationFailures' =
             verificationFailures + IF r.err \/ ok THEN 0 ELSE 1

(* The answers of the first loop are counted one by one, in the order they *)
(* were read in, which may be any: lines 227-244.                          *)
Process(c) ==
  /\ pc[c] = "verify"
  /\ \E s \in received[c] \ checked[c] : Count(c, s)
  /\ UNCHANGED <<options, pc, servers, response, received, result, background,
                 requestCount, quorumFailures, requestTimeouts>>

(* They may be enough for a client that responds progressively.            *)
Decide(c) ==
  /\ pc[c] = "verify" /\ checked[c] = received[c]
  /\ \/ /\ options.progressive /\ Enough(c, valid[c])
        /\ Return(c, "ok")
        /\ background' = [background EXCEPT ![c] = "on"]
     \/ /\ ~(options.progressive /\ Enough(c, valid[c]))
        /\ pc' = [pc EXCEPT ![c] = "rest"]
        /\ UNCHANGED <<result, background>>
  /\ UNCHANGED <<options, servers, response, received, checked, valid, best,
                 verifyCache, stats>>

(* The context is done, as it may be at any moment, by its deadline or by  *)
(* the caller's own, before the first loop has its answers.                *)
CollectTimeout(c) ==
  /\ pc[c] = "collect"
  /\ Return(c, "timeout")
  /\ requestTimeouts' = requestTimeouts + 1
  /\ UNCHANGED <<options, servers, response, received, checked, valid, best,
                 background, verifyCache, requestCount, verificationFailures,
                 quorumFailures>>

(* The second loop reads an answer and counts it.                          *)
Rest(c) ==
  /\ pc[c] = "rest"
  /\ \E s \in Unread(c) :
       /\ received' = [received EXCEPT ![c] = @ \cup {s}]
       /\ Count(c, s)
  /\ UNCHANGED <<options, pc, servers, response, result, background,
                 requestCount, quorumFailures, requestTimeouts>>

(* The context ends before the second loop has all answers: what there is  *)
(* may be enough.                                                          *)
RestTimeout(c) ==
  /\ pc[c] = "rest" /\ received[c] # servers[c]
  /\ \/ /\ Enough(c, valid[c])
        /\ Return(c, "ok")
        /\ UNCHANGED requestTimeouts
     \/ /\ ~Enough(c, valid[c])
        /\ Return(c, "timeout")
        /\ requestTimeouts' = requestTimeouts + 1
  /\ UNCHANGED <<options, servers, response, received, checked, valid, best,
                 background, verifyCache, requestCount, verificationFailures,
                 quorumFailures>>

(* All answers are in.                                                     *)
Finish(c) ==
  /\ pc[c] = "rest" /\ received[c] = servers[c]
  /\ \/ /\ Enough(c, valid[c])
        /\ Return(c, "ok")
        /\ UNCHANGED quorumFailures
     \/ /\ ~Enough(c, valid[c])
        /\ QuorumNotReached(c)
  /\ UNCHANGED <<options, servers, response, received, checked, valid, best,
                 background, verifyCache, requestCount, verificationFailures,
                 requestTimeouts>>

(* The background goroutine reads an answer and verifies it.  It counts no *)
(* failure.                                                                *)
BackgroundRead(c) ==
  /\ background[c] = "on"
  /\ \E s \in Unread(c) : \E hit \in MayHit(response[c][s]) :
       LET r == response[c][s]
       IN  /\ received' = [received EXCEPT ![c] = @ \cup {s}]
           /\ checked' = [checked EXCEPT ![c] = @ \cup {s}]
           /\ verifyCache' = Remember(r, Verdict(s, r, hit))
  /\ UNCHANGED <<options, pc, servers, response, valid, best, result,
                 background, stats>>

BackgroundEnd(c) ==
  /\ background[c] = "on"
  /\ BackgroundDone(c)
  /\ background' = [background EXCEPT ![c] = "ended"]
  /\ UNCHANGED <<options, pc, servers, response, received, checked, valid, best,
                 result, verifyCache, stats>>

Proceed(c) == \/ Collect(c) \/ CollectTimeout(c) \/ Process(c) \/ Decide(c)
              \/ Rest(c) \/ RestTimeout(c) \/ Finish(c)

Background(c) == BackgroundRead(c) \/ BackgroundEnd(c)

Next ==
  \E c \in Callers :
    \/ GetVerifiedTimestamp(c) \/ Proceed(c) \/ Background(c)
    \/ \E s \in Servers : Respond(c, s)

(* Runnable goroutines run and deadlines pass.  No server has to respond.  *)
Fairness == \A c \in Callers : WF_vars(Proceed(c)) /\ WF_vars(Background(c))

Spec == Init /\ [][Next]_vars /\ Fairness

(* The same with servers that do respond, sooner or later.                 *)
ResponsiveSpec ==
  Spec /\ \A c \in Callers, s \in Servers : WF_vars(Respond(c, s))

-----------------------------------------------------------------------------

(* The type invariant.  There is a best timestamp as soon as one is valid. *)
TypeOK ==
  /\ options \in Options
  /\ \A c \in Callers : best[c] = NoServer <=> valid[c] = {}
  /\ pc \in [Callers -> PCs]
  /\ servers \in [Callers -> SUBSET Servers]
  /\ response \in [Callers -> [Servers -> Timestamps \cup {NoResponse, Failure}]]
  /\ received \in [Callers -> SUBSET Servers]
  /\ checked \in [Callers -> SUBSET Servers]
  /\ valid \in [Callers -> SUBSET Servers]
  /\ best \in [Callers -> Servers \cup {NoServer}]
  /\ result \in [Callers -> Outcomes]
  /\ background \in [Callers -> {"off", "on", "ended"}]
  /\ verifyCache \in [Keys -> Verdicts]
  /\ requestCount \in Nat /\ verificationFailures \in Nat
  /\ quorumFailures \in Nat /\ requestTimeouts \in Nat

(* Some call was given a timestamp with this key that verified, or one     *)
(* that did not, by a server that it asked.                                *)
Answers(d) == {u \in checked[d] : ~response[d][u].err}
Vouched(k) == \E d \in Callers : \E u \in Answers(d) :
                Key(response[d][u]) = k /\ Verify(u, response[d][u])
Spoiled(k) == \E d \in Callers : \E u \in Answers(d) :
                Key(response[d][u]) = k /\ ~Verify(u, response[d][u])

(* The servers of S with the earliest time.                                *)
Earliest(c, S) ==
  {s \in S : \A t \in S : response[c][s].time <= response[c][t].time}

(* A timestamp is returned only if  quorum  servers of the call's list     *)
(* gave timestamps that count, and it is the earliest of them.  None       *)
(* counts by the cache alone: each verifies, or has the name and the       *)
(* signature of one that did verify in some call, whatever was cached,     *)
(* expired and overwritten meanwhile.  More does not hold, as the key of   *)
(* the cache has no time: a signature that has verified once counts again  *)
(* with any time.                                                          *)
ResultSound ==
  \A c \in Callers : result[c] = "ok" =>
    /\ valid[c] \subseteq servers[c]
    /\ \A s \in valid[c] : ~response[c][s].err /\ Vouched(Key(response[c][s]))
    /\ Cardinality(valid[c]) >= quorum(c)
    /\ best[c] \in Earliest(c, valid[c])

(* ErrQuorumNotReached is returned only when every server has answered and *)
(* fewer than  quorum  of the answers verify and have a name and signature *)
(* with which no other answer was rejected: no such answer was missed by   *)
(* reading it in the wrong loop, and the cache turns one down only if it   *)
(* was sent with the wrong time or by the wrong server too.                *)
QuorumFailureJustified ==
  \A c \in Callers : result[c] = "quorum" =>
    /\ Responded(c) = servers[c]
    /\ Cardinality({s \in servers[c] : /\ ~response[c][s].err
                                       /\ Verify(s, response[c][s])
                                       /\ ~Spoiled(Key(response[c][s]))})
         < quorum(c)

(* Every call that ends unsuccessfully is counted exactly once, under the  *)
(* heading of its error, on each of the five ways out and whatever other   *)
(* calls do meanwhile.                                                     *)
StatsAccount ==
  /\ requestCount = Cardinality({c \in Callers : pc[c] # "idle"})
  /\ quorumFailures =
       Cardinality({c \in Callers : result[c] \in {"noservers", "quorum"}})
  /\ requestTimeouts = Cardinality({c \in Callers : result[c] = "timeout"})

(* "Continue collecting responses in the background" (line 249): the       *)
(* answers of the other servers are collected once they have come in.      *)
BackgroundCollects ==
  \A c \in Callers :
    background[c] = "on" /\ Responded(c) = servers[c] ~> received[c] = servers[c]

-----------------------------------------------------------------------------
(* The clients of the runs.  With two servers, a quorum of one leaves an   *)
(* answer to the second loop or to the background.                         *)
AllOptions == {[quorum |-> 1, progressive |-> TRUE],
               [quorum |-> 1, progressive |-> FALSE],
               [quorum |-> 2, progressive |-> TRUE]}
Eager == {[quorum |-> 2, progressive |-> TRUE]}

(* The servers of the runs.  Honest ones sign what they send.  Of servers  *)
(* 1 and 2, whose clocks show 1 and 2, the first may send its signature    *)
(* with the time of the second, and the second what the first signed.      *)
Signed(s, t) == [err |-> FALSE, id |-> s, sig |-> <<s, t>>, time |-> t]
Honest  == [s \in Servers |-> {Signed(s, t) : t \in Times}]
Mingled == [s \in Servers |->
             {Signed(s, s), IF s = 1 THEN [Signed(1, 1) EXCEPT !.time = 2]
                                     ELSE Signed(1, 1)}]

=============================================================================
