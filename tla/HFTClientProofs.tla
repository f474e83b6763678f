-------------------------- MODULE HFTClientProofs ---------------------------
(***************************************************************************)
(* Proofs about the requests of HFTClient and the cache of BatchCache, for *)
(* any callers, servers, times, options and whatever the servers send.     *)
(* What a call returns is right because every verdict in the verification  *)
(* cache, which all calls share, goes back to an answer that deserved it,  *)
(* and because a call has, at every point, counted an answer or has seen   *)
(* such a reason not to.                                                   *)
(***************************************************************************)
EXTENDS BatchCache, FiniteSetTheorems, TLAPS

(* Every cached verdict goes back to an answer that deserved it.           *)
Sourced ==
  \A k \in Keys : /\ verifyCache[k] = "valid" => Vouched(k)
                  /\ verifyCache[k] = "invalid" => Spoiled(k)

(* What a call has read, verified and counted.                             *)
Counted(c) ==
  /\ received[c] \subseteq Responded(c) /\ checked[c] \subseteq received[c]
  /\ valid[c] \subseteq Answers(c)
  /\ \A s \in valid[c] : Vouched(Key(response[c][s]))
  /\ result[c] # "ok" =>
       \A s \in Answers(c) \ valid[c] : Spoiled(Key(response[c][s]))
  /\ valid[c] = {} => best[c] = NoServer
  /\ valid[c] # {} => best[c] \in Earliest(c, valid[c])

(* What a call has returned, and when.                                     *)
Progress(c) ==
  /\ result[c] = "none" <=> pc[c] # "returned"
  /\ pc[c] = "idle" => servers[c] = {}
  /\ pc[c] \in {"idle", "collect"} => checked[c] = {}
  /\ pc[c] = "rest" => checked[c] = received[c]
  /\ background[c] = "on" => result[c] = "ok"
  /\ pc[c] \in {"collect", "verify", "rest"} \/ result[c] \in {"ok", "quorum", "timeout"}
       => servers[c] # {}
  /\ result[c] = "ok" => Cardinality(valid[c]) >= quorum(c)
  /\ result[c] = "quorum" => /\ checked[c] = servers[c]
                             /\ Cardinality(valid[c]) < quorum(c)

CallInv == TypeOK /\ Sourced /\ \A c \in Callers : Counted(c) /\ Progress(c)

(* The requests together, with their counters.                             *)
ClientInv == CallInv /\ StatsAccount

(* Where a batch call is with its request, and what it has been given.     *)
BatchStates == {"idle", "got", "fetch", "returned", "direct"}

BatchTypeOK ==
  /\ now \in Nat
  /\ batch \in [Callers -> BatchStates]
  /\ found \in [Callers -> Callers \cup {NoCaller}]
  /\ given \in [Callers -> Callers \cup {NoCaller}]
  /\ entry \in [from : Callers \cup {NoCaller}, expires : Nat]
  /\ cacheHits \in Nat /\ cacheMisses \in Nat

Batched(c) ==
  /\ batch[c] \in {"idle", "got"} => pc[c] = "idle"
  /\ batch[c] # "returned" => given[c] = NoCaller
  /\ found[c] # NoCaller => result[found[c]] = "ok"

BatchInv ==
  /\ ClientInv /\ BatchTypeOK /\ \A c \in Callers : Batched(c)
  /\ entry # NoEntry => entry.from # NoCaller
  /\ BatchSound /\ BatchAccount

-----------------------------------------------------------------------------

(* What servers send.                                                      *)
LEMMA ResponseFacts ==
  ASSUME NEW r \in Timestamps \cup {Failure}
  PROVE  /\ r # NoResponse
         /\ r.err \in BOOLEAN /\ r.time \in Nat
         /\ ~r.err => Key(r) \in Keys
<1>1. CASE r = Failure
  BY <1>1 DEF Failure, NoResponse
<1>2. CASE r \in Timestamps
  <2>1. /\ r.err = FALSE /\ r.id \in Servers /\ r.sig \in Signatures
        /\ r.time \in Nat \ {0}
    BY <1>2, TimesAssumption DEF Timestamps
  <2>2. r # NoResponse
    BY <2>1 DEF NoResponse
  <2> QED
    BY <2>1, <2>2 DEF Key, Keys
<1> QED
  BY <1>1, <1>2

(* A server that has responded sent something of that kind.                *)
LEMMA RespondedFacts ==
  ASSUME TypeOK, NEW c \in Callers, NEW s \in Responded(c)
  PROVE  /\ s \in Servers /\ s \in servers[c]
         /\ response[c][s] \in Timestamps \cup {Failure}
<1>1. s \in servers[c] /\ servers[c] \subseteq Servers /\ response[c][s] # NoResponse
  BY DEF TypeOK, Responded
<1>2. response[c][s] \in Timestamps \cup {NoResponse, Failure}
  BY <1>1 DEF TypeOK
<1> QED
  BY <1>1, <1>2

(* The answers that calls have verified only become more.                  *)
Grows ==
  \A d \in Callers :
    \A u \in Answers(d) : u \in Answers(d)' /\ response'[d][u] = response[d][u]

(* So what an answer has shown stays shown.                                *)
LEMMA ShownStays ==
  ASSUME Grows, NEW k
  PROVE  (Vouched(k) => Vouched(k)') /\ (Spoiled(k) => Spoiled(k)')
BY DEF Grows, Vouched, Spoiled, Key, Verify

(* An answer is verified, afresh or by the cache: if it passes, it or one  *)
(* with its key verified, and if not, it or one with its key did not.      *)
LEMMA VerifyStep ==
  ASSUME TypeOK, Sourced, NEW c \in Callers, NEW s \in Responded(c),
         NEW hit \in MayHit(response[c][s]), response' = response,
         checked' = [checked EXCEPT ![c] = @ \cup {s}],
         verifyCache' = Remember(response[c][s], Verdict(s, response[c][s], hit))
  PROVE  /\ Grows /\ Sourced' /\ verifyCache' \in [Keys -> Verdicts]
         /\ Answers(c)' = Answers(c) \cup {u \in {s} : ~response[c][u].err}
         /\ ~response[c][s].err =>
              IF Verdict(s, response[c][s], hit) THEN Vouched(Key(response[c][s]))'
                                                 ELSE Spoiled(Key(response[c][s]))'
<1> DEFINE r == response[c][s]
           ok == Verdict(s, r, hit)
<1>1. r \in Timestamps \cup {Failure} /\ s \in Servers
  BY RespondedFacts
<1>2. r.err \in BOOLEAN /\ (~r.err => Key(r) \in Keys)
  BY <1>1, ResponseFacts
<1>3. /\ checked'[c] = checked[c] \cup {s}
      /\ \A d \in Callers \ {c} : checked'[d] = checked[d]
  BY DEF TypeOK
<1>4. Answers(c)' = Answers(c) \cup {u \in {s} : ~response[c][u].err}
  BY <1>3 DEF Answers
<1>5. Grows
  BY <1>3 DEF Grows, Answers
<1>6. verifyCache \in [Keys -> Verdicts]
  BY DEF TypeOK
<1>7. \A k : (Vouched(k) => Vouched(k)') /\ (Spoiled(k) => Spoiled(k)')
  BY <1>5, ShownStays
<1>8. CASE r.err
  BY <1>4, <1>5, <1>6, <1>7, <1>8 DEF Sourced, Remember
<1>9. CASE ~r.err
  <2>1. s \in Answers(c)' /\ Key(r) \in Keys /\ response'[c][s] = r
    BY <1>2, <1>4, <1>9
  <2>2. IF ok THEN Vouched(Key(r))' ELSE Spoiled(Key(r))'
    <3>1. CASE hit
      <4>1. verifyCache[Key(r)] \in {"valid", "invalid"}
        BY <1>6, <2>1, <3>1 DEF MayHit, Cached, Verdicts
      <4>2. ok <=> verifyCache[Key(r)] = "valid"
        BY <1>9, <3>1 DEF Verdict, Cached
      <4>3. IF ok THEN Vouched(Key(r)) ELSE Spoiled(Key(r))
        BY <2>1, <4>1, <4>2 DEF Sourced
      <4> QED
        BY <1>7, <4>3
    <3>2. CASE ~hit
      <4>1. ok <=> Verify(s, r)
        BY <1>9, <3>2 DEF Verdict
      <4>2. CASE Verify(s, r)
        <5>1. Vouched(Key(r))'
          BY <2>1, <4>2 DEF Vouched, Key, Verify
        <5> QED
          BY <4>1, <4>2, <5>1
      <4>3. CASE ~Verify(s, r)
        <5>1. Spoiled(Key(r))'
          BY <2>1, <4>3 DEF Spoiled, Key, Verify
        <5> QED
          BY <4>1, <4>3, <5>1
      <4> QED
        BY <4>2, <4>3
    <3> QED
      BY <3>1, <3>2
  <2> HIDE DEF ok
  <2>3. verifyCache' = [verifyCache EXCEPT ![Key(r)] = IF ok THEN "valid" ELSE "invalid"]
    BY <1>9 DEF Remember, ok
  <2>4. verifyCache' \in [Keys -> Verdicts]
    BY <1>6, <2>1, <2>3 DEF Verdicts
  <2>5. ASSUME NEW k \in Keys
        PROVE  /\ verifyCache'[k] = "valid" => Vouched(k)'
               /\ verifyCache'[k] = "invalid" => Spoiled(k)'
    <3>1. CASE k = Key(r)
      BY <1>6, <2>2, <2>3, <3>1
    <3>2. CASE k # Key(r)
      BY <1>6, <1>7, <2>3, <3>2 DEF Sourced
    <3> QED
      BY <3>1, <3>2
  <2>6. Sourced'
    BY <2>5 DEF Sourced
  <2> QED
    BY <1>4, <1>5, <2>2, <2>4, <2>6 DEF ok
<1> QED
  BY <1>2, <1>8, <1>9

(* Sets of callers and of servers are finite, and grow one by one.         *)
LEMMA Counting ==
  /\ \A S \in SUBSET Callers : IsFiniteSet(S) /\ Cardinality(S) \in Nat
  /\ \A S \in SUBSET Callers, c \in Callers :
       c \notin S => Cardinality(S \cup {c}) = Cardinality(S) + 1
  /\ \A S \in SUBSET Servers : IsFiniteSet(S) /\ Cardinality(S) \in Nat
  /\ \A S \in SUBSET Servers : Cardinality(S) = 0 <=> S = {}
<1>1. \A S \in SUBSET Callers : IsFiniteSet(S) /\ Cardinality(S) \in Nat
  BY CallersAssumption, FS_Subset, FS_CardinalityType
<1>2. \A S \in SUBSET Servers : IsFiniteSet(S) /\ Cardinality(S) \in Nat
  BY ServersAssumption, FS_Subset, FS_CardinalityType
<1>3. \A S \in SUBSET Callers, c \in Callers :
        c \notin S => Cardinality(S \cup {c}) = Cardinality(S) + 1
  BY <1>1, FS_AddElement
<1>4. \A S \in SUBSET Servers : Cardinality(S) = 0 <=> S = {}
  BY <1>2, FS_EmptySet
<1> QED
  BY <1>1, <1>2, <1>3, <1>4

(* A step of one call leaves the others as they are.                       *)
Untouched(d) ==
  /\ pc'[d] = pc[d] /\ servers'[d] = servers[d] /\ response'[d] = response[d]
  /\ received'[d] = received[d] /\ checked'[d] = checked[d]
  /\ valid'[d] = valid[d] /\ best'[d] = best[d]
  /\ result'[d] = result[d] /\ background'[d] = background[d]

(* A step that verifies nothing shows nothing and keeps what was shown.    *)
LEMMA NothingShown ==
  ASSUME Sourced, UNCHANGED <<checked, verifyCache>>,
         \A d \in Callers : \A u \in checked[d] : response'[d][u] = response[d][u]
  PROVE  Grows /\ Sourced' /\ \A d \in Callers : Answers(d)' = Answers(d)
<1>1. \A d \in Callers : Answers(d)' = Answers(d)
  BY DEF Answers
<1>2. Grows
  BY <1>1 DEF Grows, Answers
<1>3. \A k : (Vouched(k) => Vouched(k)') /\ (Spoiled(k) => Spoiled(k)')
  BY <1>2, ShownStays
<1> QED
  BY <1>1, <1>2, <1>3 DEF Sourced

(* What is known of a call that a step leaves alone stays.                 *)
LEMMA OtherCall ==
  ASSUME NEW d \in Callers, options' = options, Grows, Untouched(d),
         Counted(d), Progress(d)
  PROVE  Counted(d)' /\ Progress(d)'
<1>1. Responded(d)' = Responded(d) /\ Answers(d)' = Answers(d)
  BY DEF Untouched, Responded, Answers
<1>2. \A k : (Vouched(k) => Vouched(k)') /\ (Spoiled(k) => Spoiled(k)')
  BY ShownStays
<1>3. \A S : Earliest(d, S)' = Earliest(d, S)
  BY DEF Untouched, Earliest
<1>4. quorum(d)' = quorum(d)
  BY DEF Untouched, quorum
<1>5. Counted(d)'
  <2>1. /\ \A s \in valid[d] : Vouched(Key(response[d][s]))'
        /\ result[d] # "ok" =>
             \A s \in Answers(d) \ valid[d] : Spoiled(Key(response[d][s]))'
    BY <1>2 DEF Counted, Untouched, Key
  <2> QED
    BY <1>1, <1>3, <2>1 DEF Untouched, Counted
<1>6. Progress(d)'
  BY <1>4 DEF Untouched, Progress
<1> QED
  BY <1>5, <1>6

(* What remains to be shown of a step of call c.                           *)
LEMMA OneCall ==
  ASSUME CallInv, NEW c \in Callers, options' = options, Grows,
         \A d \in Callers \ {c} : Untouched(d),
         TypeOK', Sourced', Counted(c)', Progress(c)'
  PROVE  CallInv'
<1>1. ASSUME NEW d \in Callers PROVE Counted(d)' /\ Progress(d)'
  <2>1. CASE d = c
    BY <2>1
  <2>2. CASE d # c
    BY <2>2, OtherCall DEF CallInv
  <2> QED
    BY <2>1, <2>2
<1> QED
  BY <1>1 DEF CallInv

(* What a call has counted stays if it counts nothing more.                *)
LEMMA CountedStays ==
  ASSUME NEW c \in Callers, Grows, Counted(c), Answers(c)' = Answers(c),
         UNCHANGED <<valid, best, checked>>, received'[c] \subseteq Responded(c)',
         received[c] \subseteq received'[c],
         \A s \in Answers(c) : response'[c][s] = response[c][s],
         result'[c] # "ok" => result[c] # "ok"
  PROVE  Counted(c)'
<1>1. \A k : (Vouched(k) => Vouched(k)') /\ (Spoiled(k) => Spoiled(k)')
  BY ShownStays
<1>2. \A s \in Answers(c) : Key(response[c][s])' = Key(response[c][s])
  BY DEF Key
<1>3. Earliest(c, valid[c])' = Earliest(c, valid[c])
  BY DEF Earliest, Counted
<1> QED
  BY <1>1, <1>2, <1>3 DEF Counted

(* The numbers behind the counters.                                        *)
Begun    == {c \in Callers : pc[c] # "idle"}
Refused  == {c \in Callers : result[c] \in {"noservers", "quorum"}}
TimedOut == {c \in Callers : result[c] = "timeout"}

(* The account of the counters, by the sets they count.                    *)
LEMMA StatsAre ==
  StatsAccount <=> /\ requestCount = Cardinality(Begun)
                   /\ quorumFailures = Cardinality(Refused)
                   /\ requestTimeouts = Cardinality(TimedOut)
BY DEF StatsAccount, Begun, Refused, TimedOut

(* What a call has got so far is final once it has returned, and a step of *)
(* a request never begins one.                                             *)
Steady == /\ \A d \in Callers : result[d] # "none" => result'[d] = result[d]
          /\ \A d \in Callers : pc'[d] = "idle" <=> pc[d] = "idle"

(* A call begins, or fails for want of servers.                            *)
LEMMA BeginStep ==
  ASSUME ClientInv, NEW c \in Callers, GetVerifiedTimestamp(c)
  PROVE  /\ ClientInv'
         /\ \A d \in Callers : result[d] # "none" => result'[d] = result[d]
         /\ \A d \in Callers \ {c} : Untouched(d)
         /\ pc'[c] # "idle" /\ pc[c] = "idle" /\ requestCount' = requestCount + 1
<1> USE DEF ClientInv, CallInv
<1>0. TypeOK /\ Counted(c) /\ Progress(c)
  OBVIOUS
<1>1. PICK list \in ServerLists :
        \/ /\ list = {}
           /\ pc' = [pc EXCEPT ![c] = "returned"]
           /\ result' = [result EXCEPT ![c] = "noservers"]
           /\ quorumFailures' = quorumFailures + 1
           /\ UNCHANGED servers
        \/ /\ list # {}
           /\ pc' = [pc EXCEPT ![c] = "collect"]
           /\ servers' = [servers EXCEPT ![c] = list]
           /\ UNCHANGED <<result, quorumFailures>>
  BY DEF GetVerifiedTimestamp
<1>2. /\ UNCHANGED <<options, response, received, checked, valid, best, background,
                     verifyCache, verificationFailures, requestTimeouts>>
      /\ pc[c] = "idle" /\ requestCount' = requestCount + 1
  BY DEF GetVerifiedTimestamp
<1>3. /\ \A d \in Callers \ {c} : Untouched(d)
      /\ result[c] = "none" /\ checked[c] = {} /\ background[c] # "on"
  <2>1. result[c] = "none" /\ checked[c] = {} /\ background[c] # "on"
    BY <1>0, <1>2 DEF Progress
  <2> QED
    BY <1>0, <1>1, <1>2, <2>1 DEF TypeOK, Untouched
<1>4. TypeOK'
  <2>1. list \subseteq Servers
    BY ServersAssumption
  <2> QED
    <3>1. /\ pc' \in [Callers -> PCs] /\ result' \in [Callers -> Outcomes]
          /\ servers' \in [Callers -> SUBSET Servers] /\ quorumFailures' \in Nat
      <4>1. /\ pc \in [Callers -> PCs] /\ result \in [Callers -> Outcomes]
            /\ servers \in [Callers -> SUBSET Servers] /\ quorumFailures \in Nat
        BY <1>0 DEF TypeOK
      <4> QED
        BY <1>1, <2>1, <4>1 DEF PCs, Outcomes
    <3> QED
      BY <1>0, <1>2, <3>1 DEF TypeOK
<1>5. Grows /\ Sourced' /\ Answers(c)' = Answers(c)
  BY <1>2, NothingShown
<1>6. Counted(c)' /\ Progress(c)'
  <2>1. received[c] = {}
    BY <1>0, <1>2 DEF Progress, Counted, Responded
  <2>2. Counted(c)'
    BY <1>0, <1>2, <1>3, <1>5, <2>1, CountedStays
  <2>3. CASE list = {}
    <3>1. /\ pc'[c] = "returned" /\ result'[c] = "noservers" /\ servers' = servers
      BY <1>0, <1>1, <2>3 DEF TypeOK
    <3> QED
      BY <1>0, <1>2, <1>3, <2>2, <3>1 DEF Progress
  <2>4. CASE list # {}
    <3>1. /\ pc'[c] = "collect" /\ result'[c] = "none" /\ servers'[c] = list
      BY <1>0, <1>1, <1>3, <2>4 DEF TypeOK
    <3> QED
      BY <1>0, <1>2, <1>3, <2>2, <2>4, <3>1 DEF Progress
  <2> QED
    BY <2>3, <2>4
<1>7. StatsAccount'
  <2>1. c \notin Begun /\ Begun' = Begun \cup {c}
    BY <1>0, <1>1, <1>2 DEF Begun, TypeOK
  <2>2. TimedOut' = TimedOut
    BY <1>0, <1>1, <1>3 DEF TimedOut, TypeOK
  <2>3. \/ quorumFailures' = quorumFailures /\ Refused' = Refused
        \/ /\ quorumFailures' = quorumFailures + 1
           /\ c \notin Refused /\ Refused' = Refused \cup {c}
    BY <1>0, <1>1, <1>3 DEF Refused, TypeOK
  <2>4. Begun \subseteq Callers /\ Refused \subseteq Callers
    BY DEF Begun, Refused
  <2>5. /\ requestCount' = Cardinality(Begun') /\ quorumFailures' = Cardinality(Refused')
        /\ requestTimeouts' = Cardinality(TimedOut')
    BY <1>2, <2>1, <2>2, <2>3, <2>4, Counting, StatsAre
  <2> QED
    BY <2>5 DEF StatsAccount, Begun, Refused, TimedOut
<1>8. CallInv'
  BY <1>2, <1>3, <1>4, <1>5, <1>6, OneCall
<1>9. \A d \in Callers : result[d] # "none" => result'[d] = result[d]
  BY <1>3 DEF Untouched
<1>10. pc'[c] # "idle"
  BY <1>0, <1>1 DEF TypeOK
<1> QED
  BY <1>2, <1>3, <1>7, <1>8, <1>9, <1>10

(* A call that returns is counted under its heading.                       *)
LEMMA ReturnStats ==
  ASSUME ClientInv, NEW c \in Callers, NEW r \in {"ok", "timeout", "quorum"},
         pc[c] \in {"collect", "verify", "rest"}, Return(c, r),
         requestCount' = requestCount,
         quorumFailures' = IF r = "quorum" THEN quorumFailures + 1 ELSE quorumFailures,
         requestTimeouts' = IF r = "timeout" THEN requestTimeouts + 1
                                             ELSE requestTimeouts
  PROVE  /\ StatsAccount' /\ Steady
         /\ pc'[c] = "returned" /\ result'[c] = r
         /\ \A d \in Callers \ {c} : pc'[d] = pc[d] /\ result'[d] = result[d]
         /\ pc' \in [Callers -> PCs] /\ result' \in [Callers -> Outcomes]
         /\ quorumFailures' \in Nat /\ requestTimeouts' \in Nat
<1>1. /\ pc \in [Callers -> PCs] /\ result \in [Callers -> Outcomes]
      /\ quorumFailures \in Nat /\ requestTimeouts \in Nat
  BY DEF ClientInv, CallInv, TypeOK
<1>2. result[c] = "none" /\ pc[c] # "idle"
  BY DEF ClientInv, CallInv, Progress
<1>3. /\ pc' = [pc EXCEPT ![c] = "returned"]
      /\ result' = [result EXCEPT ![c] = r]
  BY DEF Return
<1>4. /\ pc'[c] = "returned" /\ result'[c] = r
      /\ \A d \in Callers \ {c} : pc'[d] = pc[d] /\ result'[d] = result[d]
  BY <1>1, <1>3
<1>5. /\ pc' \in [Callers -> PCs] /\ result' \in [Callers -> Outcomes]
      /\ quorumFailures' \in Nat /\ requestTimeouts' \in Nat
  BY <1>1, <1>3 DEF PCs, Outcomes
<1>6. Begun' = Begun
  BY <1>2, <1>4 DEF Begun
<1>7. /\ c \notin Refused /\ Refused \subseteq Callers
      /\ Refused' = IF r = "quorum" THEN Refused \cup {c} ELSE Refused
  BY <1>2, <1>4 DEF Refused
<1>8. /\ c \notin TimedOut /\ TimedOut \subseteq Callers
      /\ TimedOut' = IF r = "timeout" THEN TimedOut \cup {c} ELSE TimedOut
  BY <1>2, <1>4 DEF TimedOut
<1>9. /\ requestCount' = Cardinality(Begun') /\ quorumFailures' = Cardinality(Refused')
      /\ requestTimeouts' = Cardinality(TimedOut')
  BY <1>6, <1>7, <1>8, Counting, StatsAre DEF ClientInv
<1>10. StatsAccount'
  BY <1>9 DEF StatsAccount, Begun, Refused, TimedOut
<1>11. Steady
  BY <1>2, <1>4 DEF Steady
<1> QED
  BY <1>4, <1>5, <1>10, <1>11

(* The context ends before the first loop has its answers.                 *)
LEMMA CollectTimeoutStep ==
  ASSUME ClientInv, NEW c \in Callers, CollectTimeout(c)
  PROVE  ClientInv' /\ Steady
<1>0. TypeOK /\ Counted(c) /\ Progress(c) /\ Sourced
  BY DEF ClientInv, CallInv
<1>1. /\ pc[c] = "collect" /\ Return(c, "timeout")
      /\ requestTimeouts' = requestTimeouts + 1
      /\ UNCHANGED <<options, servers, response, received, checked, valid, best,
                     background, verifyCache, requestCount, verificationFailures,
                     quorumFailures>>
  BY DEF CollectTimeout
<1>2. /\ StatsAccount' /\ Steady
      /\ pc'[c] = "returned" /\ result'[c] = "timeout"
      /\ \A d \in Callers \ {c} : pc'[d] = pc[d] /\ result'[d] = result[d]
      /\ pc' \in [Callers -> PCs] /\ result' \in [Callers -> Outcomes]
      /\ requestTimeouts' \in Nat
  BY <1>1, ReturnStats
<1>3. \A d \in Callers \ {c} : Untouched(d)
  BY <1>1, <1>2 DEF Untouched
<1>4. TypeOK'
  BY <1>0, <1>1, <1>2 DEF TypeOK
<1>5. Grows /\ Sourced' /\ Answers(c)' = Answers(c)
  BY <1>0, <1>1, NothingShown
<1>6. Counted(c)' /\ Progress(c)'
  <2>1. Responded(c)' = Responded(c) /\ quorum(c)' = quorum(c)
    BY <1>1 DEF Responded, quorum
  <2>2. Counted(c)'
    <3>1. received[c] \subseteq Responded(c) /\ result[c] # "ok"
      BY <1>0, <1>1 DEF Counted, Progress
    <3> QED
      BY <1>0, <1>1, <1>5, <2>1, <3>1, CountedStays
  <2>3. Progress(c)'
    BY <1>0, <1>1, <1>2, <2>1 DEF Progress
  <2> QED
    BY <2>2, <2>3
<1> QED
  BY <1>1, <1>2, <1>3, <1>4, <1>5, <1>6, OneCall DEF ClientInv

(* The second loop ends, by the context or because all answers are in.     *)
LEMMA RestEnds ==
  ASSUME ClientInv, NEW c \in Callers, RestTimeout(c) \/ Finish(c)
  PROVE  ClientInv' /\ Steady
<1>0. TypeOK /\ Counted(c) /\ Progress(c) /\ Sourced
  BY DEF ClientInv, CallInv
<1>1. PICK r \in {"ok", "timeout", "quorum"} :
        /\ pc[c] = "rest" /\ Return(c, r)
        /\ quorumFailures' = IF r = "quorum" THEN quorumFailures + 1 ELSE quorumFailures
        /\ requestTimeouts' = IF r = "timeout" THEN requestTimeouts + 1
                                               ELSE requestTimeouts
        /\ r = "ok" => Enough(c, valid[c])
        /\ r = "quorum" => received[c] = servers[c] /\ ~Enough(c, valid[c])
        /\ UNCHANGED <<options, servers, response, received, checked, valid, best,
                       background, verifyCache, requestCount, verificationFailures>>
  <2>1. CASE RestTimeout(c)
    BY <2>1 DEF RestTimeout
  <2>2. CASE Finish(c)
    BY <2>2 DEF Finish, QuorumNotReached
  <2> QED
    BY <2>1, <2>2
<1>2. /\ StatsAccount' /\ Steady
      /\ pc'[c] = "returned" /\ result'[c] = r
      /\ \A d \in Callers \ {c} : pc'[d] = pc[d] /\ result'[d] = result[d]
      /\ pc' \in [Callers -> PCs] /\ result' \in [Callers -> Outcomes]
      /\ quorumFailures' \in Nat /\ requestTimeouts' \in Nat
  BY <1>1, ReturnStats
<1>3. \A d \in Callers \ {c} : Untouched(d)
  BY <1>1, <1>2 DEF Untouched
<1>4. TypeOK'
  BY <1>0, <1>1, <1>2 DEF TypeOK
<1>5. Grows /\ Sourced' /\ Answers(c)' = Answers(c)
  BY <1>0, <1>1, NothingShown
<1>6. Counted(c)'
  <2>1. received[c] \subseteq Responded(c)' /\ result[c] # "ok"
    BY <1>0, <1>1 DEF Counted, Progress, Responded
  <2> QED
    BY <1>0, <1>1, <1>5, <2>1, CountedStays
<1>7. Progress(c)'
  <2>1. quorum(c)' = quorum(c)
    BY <1>1 DEF quorum
  <2>2. checked[c] = received[c] /\ servers[c] # {}
    BY <1>0, <1>1 DEF Progress
  <2>3. Cardinality(valid[c]) \in Nat /\ quorum(c) \in Nat
    <3>1. Cardinality(valid[c]) \in Nat /\ Cardinality(servers[c]) \in Nat
      BY <1>0, Counting DEF TypeOK
    <3>2. options.quorum \in Nat
      BY <1>0, OptionsAssumption DEF TypeOK
    <3> QED
      BY <3>1, <3>2 DEF quorum
  <2>4. r = "quorum" => Cardinality(valid[c]) < quorum(c)
    BY <1>1, <2>3 DEF Enough
  <2> QED
    BY <1>0, <1>1, <1>2, <2>1, <2>2, <2>4 DEF Progress, Enough
<1> QED
  BY <1>1, <1>2, <1>3, <1>4, <1>5, <1>6, <1>7, OneCall DEF ClientInv

(* A step within a call moves no counter of calls.                         *)
LEMMA QuietStats ==
  ASSUME ClientInv, NEW c \in Callers, pc[c] # "idle", pc'[c] # "idle",
         \A d \in Callers \ {c} : pc'[d] = pc[d], result' = result,
         UNCHANGED <<requestCount, quorumFailures, requestTimeouts>>
  PROVE  StatsAccount' /\ Steady
<1>1. Begun' = Begun /\ Refused' = Refused /\ TimedOut' = TimedOut
  BY DEF Begun, Refused, TimedOut
<1>2. /\ requestCount' = Cardinality(Begun') /\ quorumFailures' = Cardinality(Refused')
      /\ requestTimeouts' = Cardinality(TimedOut')
  BY <1>1, StatsAre DEF ClientInv
<1>3. StatsAccount'
  BY <1>2 DEF StatsAccount, Begun, Refused, TimedOut
<1> QED
  BY <1>3 DEF Steady

(* A server responds.  It has not been read, so nothing that was counted   *)
(* changes.                                                                *)
LEMMA RespondStep ==
  ASSUME ClientInv, NEW c \in Callers, NEW s \in Servers, Respond(c, s)
  PROVE  ClientInv' /\ Steady
<1>0. TypeOK /\ Counted(c) /\ Progress(c) /\ Sourced
  BY DEF ClientInv, CallInv
<1>1. PICK r \in Sent[s] \cup {Failure} :
        /\ response' = [response EXCEPT ![c][s] = r]
        /\ pc[c] \in {"collect", "verify", "rest"} \/ background[c] = "on"
        /\ s \in servers[c] /\ response[c][s] = NoResponse
        /\ UNCHANGED <<options, pc, servers, received, checked, valid, best, result,
                       background, verifyCache, stats>>
  BY DEF Respond
<1>2. r \in Timestamps \cup {Failure} /\ r # NoResponse
  <2>1. r \in Timestamps \cup {Failure}
    BY SentAssumption
  <2> QED
    BY <2>1, ResponseFacts
<1>3. /\ response'[c][s] = r
      /\ \A u \in Servers \ {s} : response'[c][u] = response[c][u]
      /\ \A d \in Callers \ {c} : response'[d] = response[d]
      /\ response' \in [Callers -> [Servers -> Timestamps \cup {NoResponse, Failure}]]
  <2>1. response \in [Callers -> [Servers -> Timestamps \cup {NoResponse, Failure}]]
    BY <1>0 DEF TypeOK
  <2> QED
    BY <1>1, <1>2, <2>1
<1>4. /\ s \notin received[c] /\ checked[c] \subseteq received[c]
      /\ received[c] \subseteq Servers
      /\ \A d \in Callers : checked[d] \subseteq Servers
  BY <1>0, <1>1 DEF Counted, Responded, TypeOK
<1>5. \A d \in Callers \ {c} : Untouched(d)
  BY <1>1, <1>3 DEF Untouched
<1>6. TypeOK'
  BY <1>0, <1>1, <1>3 DEF TypeOK, stats
<1>7. Grows /\ Sourced' /\ Answers(c)' = Answers(c)
  <2>1. \A d \in Callers : \A u \in checked[d] : response'[d][u] = response[d][u]
    BY <1>3, <1>4
  <2> QED
    BY <1>0, <1>1, <1>4, <2>1, NothingShown
<1>9. Responded(c)' = Responded(c) \cup {s}
  BY <1>0, <1>1, <1>2, <1>3 DEF Responded, TypeOK
<1>10. Counted(c)'
  <2>1. received[c] \subseteq Responded(c)'
    BY <1>0, <1>9 DEF Counted
  <2>2. \A u \in Answers(c) : response'[c][u] = response[c][u]
    BY <1>7 DEF Grows
  <2> QED
    BY <1>0, <1>1, <1>7, <2>1, <2>2, CountedStays
<1>11. Progress(c)'
  <2>1. quorum(c)' = quorum(c)
    BY <1>1 DEF quorum
  <2> QED
    BY <1>0, <1>1, <2>1 DEF Progress
<1>12. StatsAccount' /\ Steady
  <2>1. pc[c] # "idle"
    BY <1>0, <1>1 DEF Progress
  <2> QED
    BY <1>1, <2>1, QuietStats DEF stats
<1> QED
  BY <1>1, <1>5, <1>6, <1>7, <1>10, <1>11, <1>12, OneCall DEF ClientInv

(* The background goroutine reads an answer or ends.                       *)
LEMMA BackgroundStep ==
  ASSUME ClientInv, NEW c \in Callers, Background(c)
  PROVE  ClientInv' /\ Steady
<1>0. TypeOK /\ Counted(c) /\ Progress(c) /\ Sourced
  BY DEF ClientInv, CallInv
<1>1. /\ background[c] = "on"
      /\ UNCHANGED <<options, pc, servers, response, valid, best, result, stats>>
  BY DEF Background, BackgroundRead, BackgroundEnd
<1>2. pc[c] = "returned" /\ result[c] = "ok"
  BY <1>0, <1>1 DEF Progress
<1>3. StatsAccount' /\ Steady
  BY <1>1, <1>2, QuietStats DEF stats
<1>4. CASE BackgroundRead(c)
  <2>0. PICK s \in Unread(c) :
          /\ received' = [received EXCEPT ![c] = @ \cup {s}]
          /\ checked' = [checked EXCEPT ![c] = @ \cup {s}]
          /\ \E hit \in MayHit(response[c][s]) :
               verifyCache' = Remember(response[c][s], Verdict(s, response[c][s], hit))
    BY <1>4 DEF BackgroundRead
  <2>1. PICK hit \in MayHit(response[c][s]) :
          verifyCache' = Remember(response[c][s], Verdict(s, response[c][s], hit))
    BY <2>0
  <2>2. background' = background
    BY <1>4 DEF BackgroundRead
  <2>3. s \in Responded(c) /\ s \in Servers
    BY <1>0, RespondedFacts DEF Unread
  <2>4. /\ received'[c] = received[c] \cup {s} /\ checked'[c] = checked[c] \cup {s}
        /\ \A d \in Callers \ {c} : received'[d] = received[d] /\ checked'[d] = checked[d]
        /\ received' \in [Callers -> SUBSET Servers]
        /\ checked' \in [Callers -> SUBSET Servers]
    BY <1>0, <2>0, <2>3 DEF TypeOK
  <2>5. /\ Grows /\ Sourced' /\ verifyCache' \in [Keys -> Verdicts]
        /\ Answers(c) \subseteq Answers(c)'
    BY <1>0, <1>1, <2>0, <2>1, <2>3, VerifyStep
  <2>6. TypeOK'
    BY <1>0, <1>1, <2>2, <2>4, <2>5 DEF TypeOK, stats
  <2>7. \A S : Earliest(c, S)' = Earliest(c, S)
    BY <1>1 DEF Earliest
  <2>8. \A u \in valid[c] : Vouched(Key(response[c][u]))'
    BY <1>0, <1>1, <2>5, ShownStays DEF Counted, Key
  <2>9. Counted(c)'
    <3>1. Responded(c)' = Responded(c)
      BY <1>1 DEF Responded
    <3> QED
      BY <1>0, <1>1, <1>2, <2>3, <2>4, <2>5, <2>7, <2>8, <3>1 DEF Counted
  <2>10. Progress(c)'
    <3>1. quorum(c)' = quorum(c)
      BY <1>1 DEF quorum
    <3> QED
      BY <1>0, <1>1, <1>2, <2>2, <3>1 DEF Progress
  <2>11. \A d \in Callers \ {c} : Untouched(d)
    BY <1>1, <2>2, <2>4 DEF Untouched
  <2> QED
    BY <1>1, <1>3, <2>5, <2>6, <2>9, <2>10, <2>11, OneCall DEF ClientInv
<1>5. CASE BackgroundEnd(c)
  <2>1. /\ background' = [background EXCEPT ![c] = "ended"]
        /\ UNCHANGED <<received, checked, verifyCache>>
    BY <1>5 DEF BackgroundEnd
  <2>2. /\ background'[c] = "ended"
        /\ \A d \in Callers \ {c} : background'[d] = background[d]
        /\ background' \in [Callers -> {"off", "on", "ended"}]
    BY <1>0, <2>1 DEF TypeOK
  <2>3. TypeOK'
    BY <1>0, <1>1, <2>1, <2>2 DEF TypeOK, stats
  <2>4. Grows /\ Sourced' /\ Answers(c)' = Answers(c)
    BY <1>0, <1>1, <2>1, NothingShown
  <2>5. Counted(c)' /\ Progress(c)'
    <3>1. Responded(c)' = Responded(c) /\ quorum(c)' = quorum(c)
      BY <1>1 DEF Responded, quorum
    <3>2. Counted(c)'
      <4>1. received[c] \subseteq Responded(c)
        BY <1>0 DEF Counted
      <4> QED
        BY <1>0, <1>1, <2>1, <2>4, <3>1, <4>1, CountedStays
    <3>3. Progress(c)'
      BY <1>0, <1>1, <2>1, <2>2, <3>1 DEF Progress
    <3> QED
      BY <3>2, <3>3
  <2>6. \A d \in Callers \ {c} : Untouched(d)
    BY <1>1, <2>1, <2>2 DEF Untouched
  <2> QED
    BY <1>1, <1>3, <2>3, <2>4, <2>5, <2>6, OneCall DEF ClientInv
<1> QED
  BY <1>4, <1>5 DEF Background

(* The times of what has been read can be compared.                        *)
LEMMA TimesOfRead ==
  ASSUME TypeOK, NEW c \in Callers, NEW s \in Responded(c)
  PROVE  response[c][s].time \in Nat
BY RespondedFacts, ResponseFacts

(* An answer is counted, in either loop: the best one is still the         *)
(* earliest.                                                               *)
LEMMA CountStep ==
  ASSUME ClientInv, NEW c \in Callers, NEW s \in Responded(c),
         pc[c] \in {"verify", "rest"}, Count(c, s),
         received' = [received EXCEPT ![c] = @ \cup {s}],
         UNCHANGED <<options, pc, servers, response, result, background,
                     requestCount, quorumFailures, requestTimeouts>>
  PROVE  ClientInv' /\ Steady
<1>0. TypeOK /\ Counted(c) /\ Progress(c) /\ Sourced
  BY DEF ClientInv, CallInv
<1>1. PICK hit \in MayHit(response[c][s]) :
        LET r  == response[c][s]
            ok == Verdict(s, r, hit)
        IN  /\ checked' = [checked EXCEPT ![c] = @ \cup {s}]
            /\ valid' = [valid EXCEPT ![c] = IF ok THEN @ \cup {s} ELSE @]
            /\ best' = [best EXCEPT ![c] = IF ok /\ Better(c, s) THEN s ELSE @]
            /\ verifyCache' = Remember(r, ok)
            /\ verificationFailures' =
                 verificationFailures + IF r.err \/ ok THEN 0 ELSE 1
  BY DEF Count
<1>2. s \in Servers
  BY <1>0, RespondedFacts
<1> DEFINE ok == Verdict(s, response[c][s], hit)
<1>3. /\ Grows /\ Sourced' /\ verifyCache' \in [Keys -> Verdicts]
      /\ Answers(c)' = Answers(c) \cup {u \in {s} : ~response[c][u].err}
      /\ ~response[c][s].err => IF ok THEN Vouched(Key(response[c][s]))'
                                      ELSE Spoiled(Key(response[c][s]))'
  BY <1>0, <1>1, VerifyStep
<1>4. ok => ~response[c][s].err
  BY DEF Verdict
<1> HIDE DEF ok
<1>5. /\ received'[c] = received[c] \cup {s} /\ checked'[c] = checked[c] \cup {s}
      /\ \A d \in Callers \ {c} : received'[d] = received[d] /\ checked'[d] = checked[d]
      /\ received' \in [Callers -> SUBSET Servers]
      /\ checked' \in [Callers -> SUBSET Servers]
  BY <1>0, <1>1, <1>2 DEF TypeOK
<1>6. /\ valid'[c] = IF ok THEN valid[c] \cup {s} ELSE valid[c]
      /\ \A d \in Callers \ {c} : valid'[d] = valid[d]
      /\ valid' \in [Callers -> SUBSET Servers]
  BY <1>0, <1>1, <1>2 DEF TypeOK, ok
<1>7. /\ best'[c] = IF ok /\ Better(c, s) THEN s ELSE best[c]
      /\ \A d \in Callers \ {c} : best'[d] = best[d]
      /\ best' \in [Callers -> Servers \cup {NoServer}]
  BY <1>0, <1>1, <1>2 DEF TypeOK, ok
<1>8. verificationFailures' \in Nat
  BY <1>0, <1>1 DEF TypeOK
<1>9. valid[c] \subseteq Responded(c)
  BY <1>0 DEF Counted, Answers
<1>10. \A k : (Vouched(k) => Vouched(k)') /\ (Spoiled(k) => Spoiled(k)')
  BY <1>3, ShownStays
<1>11. /\ valid'[c] \subseteq Answers(c)'
       /\ \A u \in valid'[c] : Vouched(Key(response[c][u]))'
       /\ \A u \in Answers(c)' \ valid'[c] : Spoiled(Key(response[c][u]))'
  <2>1. /\ valid[c] \subseteq Answers(c)
        /\ \A u \in valid[c] : Vouched(Key(response[c][u]))'
        /\ \A u \in Answers(c) \ valid[c] : Spoiled(Key(response[c][u]))'
    BY <1>0, <1>10 DEF Counted, Progress, Key
  <2>2. CASE ok
    BY <1>3, <1>4, <1>6, <2>1, <2>2
  <2>3. CASE ~ok
    BY <1>3, <1>6, <2>1, <2>3
  <2> QED
    BY <2>2, <2>3
<1>12. /\ valid'[c] = {} => best'[c] = NoServer
       /\ valid'[c] # {} => best'[c] \in Earliest(c, valid'[c])
  <2>1. CASE ~ok
    BY <1>0, <1>6, <1>7, <2>1 DEF Counted
  <2>2. CASE ok /\ valid[c] = {}
    <3>1. valid'[c] = {s} /\ best'[c] = s
      BY <1>0, <1>6, <1>7, <2>2 DEF Counted, Better
    <3>2. response[c][s].time <= response[c][s].time
      BY <1>0, TimesOfRead
    <3> QED
      BY <3>1, <3>2 DEF Earliest
  <2>3. CASE ok /\ valid[c] # {}
    <3>1. best[c] \in Earliest(c, valid[c]) /\ valid'[c] = valid[c] \cup {s}
      BY <1>0, <1>6, <2>3 DEF Counted
    <3>3. \A u \in valid[c] \cup {s} : response[c][u].time \in Nat
      BY <1>0, <1>9, TimesOfRead
    <3>4. best[c] \in valid[c] /\ best[c] # NoServer
      BY <1>0, <3>1, ServersAssumption DEF Earliest, TypeOK
    <3>5. \A u \in valid[c] : response[c][best[c]].time <= response[c][u].time
      BY <3>1 DEF Earliest
    <3>6. CASE response[c][s].time < response[c][best[c]].time
      <4>1. best'[c] = s
        BY <1>7, <2>3, <3>6 DEF Better
      <4>2. \A u \in valid[c] \cup {s} : response[c][s].time <= response[c][u].time
        BY <3>3, <3>4, <3>5, <3>6
      <4> QED
        BY <3>1, <4>1, <4>2 DEF Earliest
    <3>7. CASE ~(response[c][s].time < response[c][best[c]].time)
      <4>1. best'[c] = best[c]
        BY <1>7, <3>4, <3>7 DEF Better
      <4>2. \A u \in valid[c] \cup {s} :
              response[c][best[c]].time <= response[c][u].time
        BY <3>3, <3>4, <3>5, <3>7
      <4> QED
        BY <3>1, <3>4, <4>1, <4>2 DEF Earliest
    <3> QED
      BY <3>6, <3>7
  <2> QED
    BY <2>1, <2>2, <2>3
<1>13. /\ \A S : Earliest(c, S)' = Earliest(c, S)
       /\ \A u : Key(response[c][u])' = Key(response[c][u])
  BY DEF Earliest, Key
<1>14. Counted(c)'
  <2>1. Responded(c)' = Responded(c)
    BY DEF Responded
  <2> QED
    BY <1>0, <1>5, <1>11, <1>12, <1>13, <2>1 DEF Counted
<1>15. Progress(c)'
  <2>1. result[c] = "none"
    BY <1>0 DEF Progress
  <2> QED
    BY <1>0, <1>5, <2>1 DEF Progress
<1>16. TypeOK'
  <2>1. \A d \in Callers : best'[d] = NoServer <=> valid'[d] = {}
    <3>1. best'[c] = NoServer <=> valid'[c] = {}
      BY <1>6, <1>12, ServersAssumption DEF Earliest
    <3> QED
      BY <1>0, <1>6, <1>7, <3>1 DEF TypeOK
  <2> QED
    BY <1>0, <1>3, <1>5, <1>6, <1>7, <1>8, <2>1 DEF TypeOK
<1>17. \A d \in Callers \ {c} : Untouched(d)
  BY <1>5, <1>6, <1>7 DEF Untouched
<1>18. StatsAccount' /\ Steady
  BY <1>0, QuietStats
<1> QED
  BY <1>3, <1>14, <1>15, <1>16, <1>17, <1>18, OneCall DEF ClientInv

(* The answers of the first loop are counted, and those of the second.     *)
LEMMA ProcessStep ==
  ASSUME ClientInv, NEW c \in Callers, Process(c) \/ Rest(c)
  PROVE  ClientInv' /\ Steady
<1>0. TypeOK /\ Counted(c)
  BY DEF ClientInv, CallInv
<1>1. CASE Process(c)
  <2>1. PICK s \in received[c] \ checked[c] : Count(c, s)
    BY <1>1 DEF Process
  <2>2. s \in Responded(c) /\ received' = [received EXCEPT ![c] = @ \cup {s}]
    BY <1>0, <1>1, <2>1 DEF Process, Counted, TypeOK
  <2> QED
    BY <1>1, <2>1, <2>2, CountStep DEF Process
<1>2. CASE Rest(c)
  BY <1>2, CountStep DEF Rest, Unread
<1> QED
  BY <1>1, <1>2

(* The first loop reads an answer.                                         *)
LEMMA CollectStep ==
  ASSUME ClientInv, NEW c \in Callers, Collect(c)
  PROVE  ClientInv' /\ Steady
<1>0. TypeOK /\ Counted(c) /\ Progress(c) /\ Sourced
  BY DEF ClientInv, CallInv
<1>1. PICK s \in Unread(c) :
        /\ received' = [received EXCEPT ![c] = @ \cup {s}]
        /\ \/ pc' = [pc EXCEPT ![c] = "verify"]
           \/ pc' = [pc EXCEPT ![c] = "collect"]
  BY DEF Collect
<1>2. /\ pc[c] = "collect"
      /\ UNCHANGED <<options, servers, response, checked, valid, best, result,
                     background, verifyCache, stats>>
  BY DEF Collect
<1>3. s \in Responded(c) /\ s \in Servers
  BY <1>0, RespondedFacts DEF Unread
<1>4. /\ received'[c] = received[c] \cup {s}
      /\ \A d \in Callers \ {c} : received'[d] = received[d] /\ pc'[d] = pc[d]
      /\ received' \in [Callers -> SUBSET Servers]
      /\ pc'[c] \in {"verify", "collect"} /\ pc' \in [Callers -> PCs]
  BY <1>0, <1>1, <1>3 DEF TypeOK, PCs
<1>5. TypeOK'
  BY <1>0, <1>2, <1>4 DEF TypeOK, stats
<1>6. Grows /\ Sourced' /\ Answers(c)' = Answers(c)
  BY <1>0, <1>2, NothingShown
<1>7. Counted(c)'
  <2>1. received'[c] \subseteq Responded(c)'
    BY <1>0, <1>2, <1>3, <1>4 DEF Counted, Responded
  <2> QED
    BY <1>0, <1>2, <1>4, <1>6, <2>1, CountedStays
<1>8. Progress(c)'
  <2>1. quorum(c)' = quorum(c) /\ result[c] = "none"
    BY <1>0, <1>2 DEF quorum, Progress
  <2> QED
    BY <1>0, <1>2, <1>4, <2>1 DEF Progress
<1>9. \A d \in Callers \ {c} : Untouched(d)
  BY <1>2, <1>4 DEF Untouched
<1>10. StatsAccount' /\ Steady
  BY <1>2, <1>4, QuietStats DEF stats
<1> QED
  BY <1>2, <1>5, <1>6, <1>7, <1>8, <1>9, <1>10, OneCall DEF ClientInv

(* The call returns progressively, or turns to the second loop.            *)
LEMMA DecideStep ==
  ASSUME ClientInv, NEW c \in Callers, Decide(c)
  PROVE  ClientInv' /\ Steady
<1>0. TypeOK /\ Counted(c) /\ Progress(c) /\ Sourced
  BY DEF ClientInv, CallInv
<1>1. /\ pc[c] = "verify" /\ checked[c] = received[c]
      /\ UNCHANGED <<options, servers, response, received, checked, valid, best,
                     verifyCache, stats>>
  BY DEF Decide
<1>2. result[c] = "none" /\ background[c] # "on" /\ servers[c] # {}
  BY <1>0, <1>1 DEF Progress
<1>3. /\ pc \in [Callers -> PCs] /\ result \in [Callers -> Outcomes]
      /\ background \in [Callers -> {"off", "on", "ended"}]
  BY <1>0 DEF TypeOK
<1>4. /\ StatsAccount' /\ Steady
      /\ pc' \in [Callers -> PCs] /\ result' \in [Callers -> Outcomes]
      /\ background' \in [Callers -> {"off", "on", "ended"}]
      /\ \A d \in Callers \ {c} : /\ pc'[d] = pc[d] /\ result'[d] = result[d]
                                  /\ background'[d] = background[d]
      /\ \/ pc'[c] = "returned" /\ result'[c] = "ok" /\ Enough(c, valid[c])
         \/ pc'[c] = "rest" /\ result'[c] = "none" /\ background'[c] # "on"
  <2>1. CASE /\ Enough(c, valid[c]) /\ Return(c, "ok")
             /\ background' = [background EXCEPT ![c] = "on"]
    <3>1. /\ StatsAccount' /\ Steady
          /\ pc'[c] = "returned" /\ result'[c] = "ok"
          /\ \A d \in Callers \ {c} : pc'[d] = pc[d] /\ result'[d] = result[d]
          /\ pc' \in [Callers -> PCs] /\ result' \in [Callers -> Outcomes]
      BY <1>1, <2>1, ReturnStats DEF stats
    <3> QED
      BY <1>3, <2>1, <3>1
  <2>2. CASE pc' = [pc EXCEPT ![c] = "rest"] /\ UNCHANGED <<result, background>>
    <3>1. /\ pc'[c] = "rest" /\ pc' \in [Callers -> PCs]
          /\ \A d \in Callers \ {c} : pc'[d] = pc[d]
      BY <1>3, <2>2 DEF PCs
    <3>2. StatsAccount' /\ Steady
      BY <1>1, <2>2, <3>1, QuietStats DEF stats
    <3> QED
      BY <1>2, <1>3, <2>2, <3>1, <3>2
  <2> QED
    BY <2>1, <2>2 DEF Decide
<1>5. TypeOK'
  BY <1>0, <1>1, <1>4 DEF TypeOK, stats
<1>6. Grows /\ Sourced' /\ Answers(c)' = Answers(c)
  BY <1>0, <1>1, NothingShown
<1>7. Counted(c)'
  <2>1. received[c] \subseteq Responded(c)'
    BY <1>0, <1>1 DEF Counted, Responded
  <2> QED
    BY <1>0, <1>1, <1>2, <1>6, <2>1, CountedStays
<1>8. Progress(c)'
  <2>1. quorum(c)' = quorum(c)
    BY <1>1 DEF quorum
  <2> QED
    BY <1>0, <1>1, <1>2, <1>4, <2>1 DEF Progress, Enough
<1>9. \A d \in Callers \ {c} : Untouched(d)
  BY <1>1, <1>4 DEF Untouched
<1> QED
  BY <1>1, <1>4, <1>5, <1>6, <1>7, <1>8, <1>9, OneCall DEF ClientInv

-----------------------------------------------------------------------------

(* A step of a request that is under way.                                  *)
LEMMA RequestStep ==
  ASSUME ClientInv, NEW c \in Callers, Request(c)
  PROVE  ClientInv' /\ Steady
BY CollectStep, CollectTimeoutStep, ProcessStep, DecideStep, RestEnds,
   BackgroundStep, RespondStep
   DEF Request, Proceed

(* Batch calls that were served from the cache, and calls of the other     *)
(* kind.                                                                   *)
Hits    == {c \in Callers : given[c] \notin {c, NoCaller}}
Directs == {c \in Callers : batch[c] = "direct"}

(* The account of the batch calls, by the sets it counts.                  *)
LEMMA AccountIs ==
  BatchAccount <=> /\ StatsAccount /\ cacheHits = Cardinality(Hits)
                   /\ requestCount = cacheMisses + Cardinality(Directs)
BY DEF BatchAccount, Hits, Directs

(* What the batch calls have stays right while requests go on.             *)
LEMMA BatchKept ==
  ASSUME BatchInv, ClientInv', Steady, UNCHANGED batchVars, requestCount' = requestCount
  PROVE  BatchInv'
<1>1. BatchTypeOK'
  BY DEF BatchInv, BatchTypeOK, batchVars
<1>2. \A c \in Callers : Batched(c)'
  BY DEF BatchInv, BatchTypeOK, Batched, Steady, batchVars
<1>3. BatchSound'
  BY DEF BatchInv, BatchTypeOK, BatchSound, Steady, batchVars, NoEntry
<1>4. BatchAccount'
  <2>1. Hits' = Hits /\ Directs' = Directs
    BY DEF Hits, Directs, batchVars
  <2>2. /\ cacheHits' = Cardinality(Hits')
        /\ requestCount' = cacheMisses' + Cardinality(Directs')
    BY <2>1, AccountIs DEF BatchInv, batchVars
  <2> QED
    BY <2>2 DEF BatchAccount, Hits, Directs, ClientInv
<1> QED
  BY <1>1, <1>2, <1>3, <1>4 DEF BatchInv, batchVars, NoEntry

(* The requests do not mind what happens in the batch cache.               *)
LEMMA ClientStutter ==
  ASSUME ClientInv, UNCHANGED vars
  PROVE  ClientInv'
<1>1. TypeOK'
  BY DEF ClientInv, CallInv, TypeOK, vars, call, stats
<1>0. Grows /\ Sourced'
  BY NothingShown DEF ClientInv, CallInv, vars, call
<1>2. ASSUME NEW c \in Callers PROVE Counted(c)' /\ Progress(c)'
  BY <1>0, OtherCall DEF ClientInv, CallInv, Untouched, vars, call
<1>3. StatsAccount'
  BY DEF ClientInv, StatsAccount, vars, call, stats
<1> QED
  BY <1>0, <1>1, <1>2, <1>3 DEF ClientInv, CallInv

(* The steps that only concern the cache and its callers.                  *)
LEMMA CacheStep ==
  ASSUME BatchInv, UNCHANGED vars,
         \/ \E c \in Callers : BatchGet(c) \/ BatchHit(c) \/ BatchReturn(c)
         \/ Cleanup \/ Tick
  PROVE  BatchInv'
<1>0. /\ ClientInv /\ BatchTypeOK /\ BatchSound /\ BatchAccount
      /\ \A c \in Callers : Batched(c)
      /\ entry # NoEntry => entry.from # NoCaller
  BY DEF BatchInv
<1>1. /\ pc' = pc /\ result' = result /\ requestCount' = requestCount
  BY DEF vars, call, stats
<1>2. ClientInv'
  BY <1>0, ClientStutter
<1>3. ASSUME NEW c \in Callers, BatchGet(c) PROVE BatchInv'
  <2>1. /\ batch[c] = "idle" /\ batch' = [batch EXCEPT ![c] = "got"]
        /\ found' = [found EXCEPT ![c] = Lookup]
        /\ UNCHANGED <<now, given, entry, cacheHits, cacheMisses>>
    BY <1>3 DEF BatchGet
  <2>2. /\ Lookup \in Callers \cup {NoCaller}
        /\ Lookup # NoCaller => result[Lookup] = "ok"
    BY <1>0 DEF Lookup, Live, BatchTypeOK, BatchSound
  <2>3. BatchTypeOK'
    BY <1>0, <2>1, <2>2 DEF BatchTypeOK, BatchStates
  <2>4. \A d \in Callers : Batched(d)'
    BY <1>0, <1>1, <2>1, <2>2 DEF BatchTypeOK, Batched
  <2>5. Hits' = Hits /\ Directs' = Directs
    BY <1>0, <2>1 DEF Hits, Directs, BatchTypeOK
  <2>6. BatchAccount'
    <3>1. /\ cacheHits' = Cardinality(Hits')
          /\ requestCount' = cacheMisses' + Cardinality(Directs')
      BY <1>0, <1>1, <2>1, <2>5, AccountIs
    <3> QED
      BY <1>2, <3>1 DEF BatchAccount, Hits, Directs, ClientInv
  <2>7. BatchSound'
    BY <1>0, <1>1, <2>1 DEF BatchSound, NoEntry
  <2> QED
    BY <1>0, <1>2, <2>1, <2>3, <2>4, <2>6, <2>7 DEF BatchInv, NoEntry
<1>4. ASSUME NEW c \in Callers, BatchHit(c) PROVE BatchInv'
  <2>1. /\ batch[c] = "got" /\ batch' = [batch EXCEPT ![c] = "returned"]
        /\ found[c] # NoCaller /\ given' = [given EXCEPT ![c] = found[c]]
        /\ cacheHits' = cacheHits + 1
        /\ UNCHANGED <<now, found, entry, cacheMisses>>
    BY <1>4 DEF BatchHit
  <2>2. found[c] \in Callers /\ result[found[c]] = "ok" /\ given[c] = NoCaller
    BY <1>0, <2>1 DEF BatchTypeOK, Batched
  <2>3. found[c] # c
    <3>1. pc[c] = "idle" /\ Progress(c)
      BY <1>0, <2>1 DEF Batched, ClientInv, CallInv
    <3>2. result[c] = "none"
      BY <3>1 DEF Progress
    <3> QED
      BY <2>2, <3>2
  <2>4. BatchTypeOK'
    BY <1>0, <2>1, <2>2 DEF BatchTypeOK, BatchStates
  <2>5. \A d \in Callers : Batched(d)'
    BY <1>0, <1>1, <2>1 DEF BatchTypeOK, Batched
  <2>6. c \notin Hits /\ Hits' = Hits \cup {c} /\ Directs' = Directs
    BY <1>0, <2>1, <2>2, <2>3 DEF Hits, Directs, BatchTypeOK
  <2>7. BatchAccount'
    <3>1. cacheHits' = Cardinality(Hits')
      <4>1. Hits \subseteq Callers
        BY DEF Hits
      <4> QED
        BY <1>0, <2>1, <2>6, <4>1, Counting, AccountIs
    <3>2. requestCount' = cacheMisses' + Cardinality(Directs')
      BY <1>0, <1>1, <2>1, <2>6, AccountIs
    <3> QED
      BY <1>2, <3>1, <3>2 DEF BatchAccount, Hits, Directs, ClientInv
  <2>8. BatchSound'
    BY <1>0, <1>1, <2>1, <2>2 DEF BatchSound, NoEntry, BatchTypeOK
  <2> QED
    BY <1>0, <1>2, <2>1, <2>4, <2>5, <2>7, <2>8 DEF BatchInv, NoEntry
<1>5. ASSUME NEW c \in Callers, BatchReturn(c) PROVE BatchInv'
  <2>1. /\ batch[c] = "fetch" /\ batch' = [batch EXCEPT ![c] = "returned"]
        /\ \/ /\ result[c] = "ok"
              /\ entry' = [from |-> c, expires |-> now + TTL]
              /\ given' = [given EXCEPT ![c] = c]
           \/ /\ UNCHANGED <<entry, given>>
        /\ UNCHANGED <<now, found, cacheHits, cacheMisses>>
    BY <1>5 DEF BatchReturn, Store
  <2>2. given[c] = NoCaller /\ c # NoCaller
    BY <1>0, <2>1, BatchAssumption DEF Batched
  <2>3. BatchTypeOK'
    BY <1>0, <2>1, BatchAssumption DEF BatchTypeOK, BatchStates
  <2>4. \A d \in Callers : Batched(d)'
    BY <1>0, <1>1, <2>1 DEF BatchTypeOK, Batched
  <2>5. Hits' = Hits /\ Directs' = Directs
    BY <1>0, <2>1, <2>2 DEF Hits, Directs, BatchTypeOK
  <2>6. BatchAccount'
    <3>1. /\ cacheHits' = Cardinality(Hits')
          /\ requestCount' = cacheMisses' + Cardinality(Directs')
      BY <1>0, <1>1, <2>1, <2>5, AccountIs
    <3> QED
      BY <1>2, <3>1 DEF BatchAccount, Hits, Directs, ClientInv
  <2>7. BatchSound'
    BY <1>0, <1>1, <2>1 DEF BatchSound, NoEntry, BatchTypeOK
  <2>8. entry' # NoEntry => entry'.from # NoCaller
    BY <1>0, <2>1, <2>2
  <2> QED
    BY <1>2, <2>3, <2>4, <2>6, <2>7, <2>8 DEF BatchInv, NoEntry
<1>6. CASE Cleanup \/ Tick
  <2>1. /\ UNCHANGED <<batch, found, given, cacheHits, cacheMisses>>
        /\ entry' \in {entry, NoEntry} /\ now' \in {now, now + 1}
    BY <1>6 DEF Cleanup, Tick
  <2>2. BatchTypeOK'
    BY <1>0, <2>1 DEF BatchTypeOK, NoEntry
  <2>3. \A d \in Callers : Batched(d)'
    BY <1>0, <1>1, <2>1 DEF Batched
  <2>4. Hits' = Hits /\ Directs' = Directs
    BY <2>1 DEF Hits, Directs
  <2>5. BatchAccount'
    <3>1. /\ cacheHits' = Cardinality(Hits')
          /\ requestCount' = cacheMisses' + Cardinality(Directs')
      BY <1>0, <1>1, <2>1, <2>4, AccountIs
    <3> QED
      BY <1>2, <3>1 DEF BatchAccount, Hits, Directs, ClientInv
  <2>6. BatchSound' /\ (entry' # NoEntry => entry'.from # NoCaller)
    BY <1>0, <1>1, <2>1 DEF BatchSound, NoEntry
  <2> QED
    BY <1>2, <2>2, <2>3, <2>5, <2>6 DEF BatchInv, NoEntry
<1> QED
  BY <1>3, <1>4, <1>5, <1>6

(* A request begins, by a batch call that missed or by a direct one.       *)
LEMMA AskStep ==
  ASSUME BatchInv, NEW c \in Callers, Direct(c) \/ BatchMiss(c)
  PROVE  BatchInv'
<1>0. /\ ClientInv /\ BatchTypeOK /\ BatchSound /\ BatchAccount
      /\ \A d \in Callers : Batched(d)
      /\ entry # NoEntry => entry.from # NoCaller
  BY DEF BatchInv
<1>1. /\ batch[c] \in {"idle", "got"} /\ GetVerifiedTimestamp(c)
      /\ \/ /\ batch' = [batch EXCEPT ![c] = "direct"]
            /\ cacheMisses' = cacheMisses
         \/ /\ batch' = [batch EXCEPT ![c] = "fetch"]
            /\ cacheMisses' = cacheMisses + 1
      /\ UNCHANGED <<now, found, given, entry, cacheHits>>
  BY DEF Direct, BatchMiss, CountMiss
<1>2. /\ ClientInv'
      /\ \A d \in Callers : result[d] # "none" => result'[d] = result[d]
      /\ \A d \in Callers \ {c} : pc'[d] = pc[d]
      /\ requestCount' = requestCount + 1
  BY <1>0, <1>1, BeginStep DEF Untouched
<1>3. BatchTypeOK'
  BY <1>0, <1>1 DEF BatchTypeOK, BatchStates
<1>4. \A d \in Callers : Batched(d)'
  BY <1>0, <1>1, <1>2 DEF BatchTypeOK, Batched
<1>5. BatchSound'
  BY <1>0, <1>1, <1>2 DEF BatchTypeOK, BatchSound, NoEntry
<1>6. BatchAccount'
  <2>1. Hits' = Hits
    BY <1>1 DEF Hits
  <2>2. \/ cacheMisses' = cacheMisses /\ c \notin Directs /\ Directs' = Directs \cup {c}
        \/ cacheMisses' = cacheMisses + 1 /\ Directs' = Directs
    BY <1>0, <1>1 DEF Directs, BatchTypeOK
  <2>3. Directs \subseteq Callers
    BY DEF Directs
  <2>4. Cardinality(Directs) \in Nat /\ requestCount = cacheMisses + Cardinality(Directs)
    BY <1>0, <2>3, Counting, AccountIs
  <2>5. requestCount' = cacheMisses' + Cardinality(Directs')
    <3>1. CASE Directs' = Directs /\ cacheMisses' = cacheMisses + 1
      BY <1>0, <1>2, <2>4, <3>1 DEF BatchTypeOK
    <3>2. CASE cacheMisses' = cacheMisses /\ c \notin Directs /\ Directs' = Directs \cup {c}
      <4>1. Cardinality(Directs') = Cardinality(Directs) + 1
        BY <2>3, <3>2, Counting
      <4> QED
        BY <1>0, <1>2, <2>4, <3>2, <4>1 DEF BatchTypeOK
    <3> QED
      BY <2>2, <3>1, <3>2
  <2>6. cacheHits' = Cardinality(Hits')
    BY <1>0, <1>1, <2>1, AccountIs
  <2> QED
    BY <1>2, <2>5, <2>6 DEF BatchAccount, Hits, Directs, ClientInv
<1> QED
  BY <1>0, <1>1, <1>2, <1>3, <1>4, <1>5, <1>6 DEF BatchInv, NoEntry

(* The inductive invariant of the client.                                  *)
LEMMA BatchInductive == BatchSpec => []BatchInv
<1>1. BatchInit => BatchInv
  <2> SUFFICES ASSUME BatchInit PROVE BatchInv
    OBVIOUS
  <2>1. TypeOK
    BY DEF BatchInit, Init, TypeOK, PCs, Outcomes, Verdicts
  <2>2. Sourced
    BY DEF BatchInit, Init, Sourced
  <2>3. \A c \in Callers : Counted(c) /\ Progress(c)
    BY DEF BatchInit, Init, Counted, Progress, Responded, Answers
  <2>4. Begun = {} /\ Refused = {} /\ TimedOut = {} /\ Hits = {} /\ Directs = {}
    BY DEF BatchInit, Init, Begun, Refused, TimedOut, Hits, Directs
  <2>5. StatsAccount
    BY <2>4, FS_EmptySet, StatsAre DEF BatchInit, Init
  <2>6. BatchAccount
    BY <2>4, <2>5, FS_EmptySet, AccountIs DEF BatchInit, Init
  <2>7. BatchTypeOK /\ (\A c \in Callers : Batched(c)) /\ BatchSound
    BY DEF BatchInit, Init, BatchTypeOK, BatchStates, Batched, BatchSound, NoEntry
  <2> QED
    BY <2>1, <2>2, <2>3, <2>5, <2>6, <2>7
       DEF BatchInv, ClientInv, CallInv, BatchInit
<1>2. BatchInv /\ [BatchNext]_allVars => BatchInv'
  <2> SUFFICES ASSUME BatchInv, [BatchNext]_allVars PROVE BatchInv'
    OBVIOUS
  <2>1. CASE \E c \in Callers : Direct(c) \/ BatchMiss(c)
    BY <2>1, AskStep
  <2>2. CASE \/ \E c \in Callers : BatchGet(c) \/ BatchHit(c) \/ BatchReturn(c)
             \/ Cleanup \/ Tick
    <3>1. UNCHANGED vars
      BY <2>2 DEF BatchGet, BatchHit, BatchReturn, Cleanup, Tick
    <3> QED
      BY <2>2, <3>1, CacheStep
  <2>3. ASSUME NEW c \in Callers, Request(c) PROVE BatchInv'
    <3>1. ClientInv
      BY DEF BatchInv
    <3>2. requestCount' = requestCount /\ UNCHANGED batchVars
      BY <2>3 DEF Request, Proceed, Background, Collect, CollectTimeout, Process,
                  Decide, Rest, RestTimeout, Finish, BackgroundRead, BackgroundEnd, Respond, stats
    <3> QED
      BY <2>3, <3>1, <3>2, RequestStep, BatchKept
  <2>4. CASE UNCHANGED allVars
    <3>1. UNCHANGED vars /\ UNCHANGED batchVars
      BY <2>4 DEF allVars
    <3>2. ClientInv /\ requestCount' = requestCount
      BY <3>1 DEF BatchInv, vars, stats
    <3>3. Steady
      BY <3>1 DEF Steady, vars, call
    <3>4. ClientInv'
      BY <3>1, <3>2, ClientStutter
    <3> QED
      BY <3>1, <3>2, <3>3, <3>4, BatchKept
  <2> QED
    BY <2>1, <2>2, <2>3, <2>4 DEF BatchNext
<1> QED
  BY <1>1, <1>2, PTL DEF BatchSpec

-----------------------------------------------------------------------------

(* The requests keep their types, and a call has a best timestamp as soon  *)
(* as it has counted a valid one.                                          *)
THEOREM TypeCorrect == BatchSpec => []TypeOK
<1>1. BatchInv => TypeOK
  BY DEF BatchInv, ClientInv, CallInv
<1> QED
  BY <1>1, BatchInductive, PTL

(* GetVerifiedTimestamp returns a timestamp only when a quorum of servers  *)
(* gave timestamps that verify, or have the name and the signature of one  *)
(* that did, whatever servers send and whatever the shared cache of        *)
(* verdicts went through, and it returns the earliest of those it counted. *)
THEOREM ResultsAreSound == BatchSpec => []ResultSound
<1>1. ASSUME BatchInv, NEW c \in Callers, result[c] = "ok"
      PROVE  /\ valid[c] \subseteq servers[c]
             /\ \A s \in valid[c] : /\ ~response[c][s].err
                                    /\ Vouched(Key(response[c][s]))
             /\ Cardinality(valid[c]) >= quorum(c)
             /\ best[c] \in Earliest(c, valid[c])
  <2>1. Counted(c) /\ Progress(c) /\ TypeOK
    BY <1>1 DEF BatchInv, ClientInv, CallInv
  <2>2. /\ valid[c] \subseteq servers[c]
        /\ \A s \in valid[c] : ~response[c][s].err /\ Vouched(Key(response[c][s]))
    BY <2>1 DEF Counted, Responded, Answers
  <2>3. servers[c] # {} /\ Cardinality(valid[c]) >= quorum(c)
    BY <1>1, <2>1 DEF Progress
  <2>4. valid[c] # {}
    <3>1. /\ Cardinality(servers[c]) \in Nat \ {0} /\ Cardinality(valid[c]) \in Nat
          /\ Cardinality(valid[c]) = 0 <=> valid[c] = {}
      BY <2>1, <2>3, Counting DEF TypeOK
    <3>2. options.quorum \in Nat \ {0}
      BY <2>1, OptionsAssumption DEF TypeOK
    <3>3. quorum(c) \in Nat \ {0}
      BY <3>1, <3>2 DEF quorum
    <3> QED
      BY <2>3, <3>1, <3>3
  <2> QED
    BY <2>1, <2>2, <2>3, <2>4 DEF Counted
<1>2. BatchInv => ResultSound
  BY <1>1 DEF ResultSound
<1> QED
  BY <1>2, BatchInductive, PTL

(* ErrQuorumNotReached is returned only after every server has answered    *)
(* and there were too few answers that verify and have a name and a        *)
(* signature with which no other answer had failed.                        *)
THEOREM QuorumFailuresAreJustified == BatchSpec => []QuorumFailureJustified
<1> DEFINE Missed(c) == {s \in servers[c] : /\ ~response[c][s].err
                                           /\ Verify(s, response[c][s])
                                           /\ ~Spoiled(Key(response[c][s]))}
<1>1. ASSUME BatchInv, NEW c \in Callers, result[c] = "quorum"
      PROVE  Responded(c) = servers[c] /\ Cardinality(Missed(c)) < quorum(c)
  <2>1. Counted(c) /\ Progress(c) /\ TypeOK
    BY <1>1 DEF BatchInv, ClientInv, CallInv
  <2>2. checked[c] = servers[c] /\ Cardinality(valid[c]) < quorum(c)
    BY <1>1, <2>1 DEF Progress
  <2>3. Missed(c) \subseteq valid[c]
    BY <1>1, <2>1, <2>2 DEF Counted, Answers
  <2>4. valid[c] \in SUBSET Servers /\ Missed(c) \in SUBSET Servers
    BY <2>1, <2>3 DEF TypeOK
  <2>5. IsFiniteSet(valid[c]) /\ Cardinality(valid[c]) \in Nat
        /\ Cardinality(Missed(c)) \in Nat
    BY <2>4, Counting, ServersAssumption, FS_Subset
  <2>6. Cardinality(Missed(c)) <= Cardinality(valid[c])
    BY <2>3, <2>5, FS_Subset
  <2>7. quorum(c) \in Nat
    <3>1. Cardinality(servers[c]) \in Nat
      BY <2>1, Counting DEF TypeOK
    <3>2. options.quorum \in Nat
      BY <2>1, OptionsAssumption DEF TypeOK
    <3> QED
      BY <3>1, <3>2 DEF quorum
  <2>8. Cardinality(Missed(c)) < quorum(c)
    BY <2>2, <2>5, <2>6, <2>7
  <2>9. Responded(c) = servers[c]
    BY <2>1, <2>2 DEF Counted, Responded
  <2> QED
    BY <2>8, <2>9
<1>2. BatchInv => QuorumFailureJustified
  BY <1>1 DEF QuorumFailureJustified
<1> QED
  BY <1>2, BatchInductive, PTL

(* Whatever a batch call returns, and whatever the cache holds, was        *)
(* accepted by a request that had found a quorum for it.                   *)
THEOREM BatchesAreSound == BatchSpec => []BatchSound
<1>1. BatchInv => BatchSound
  BY DEF BatchInv
<1> QED
  BY <1>1, BatchInductive, PTL

(* The counters of requests, failures, hits and misses are exact.          *)
THEOREM CountersAreExact == BatchSpec => []BatchAccount
<1>1. BatchInv => BatchAccount
  BY DEF BatchInv
<1> QED
  BY <1>1, BatchInductive, PTL

=============================================================================
