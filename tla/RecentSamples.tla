--------------------------- MODULE RecentSamples ----------------------------
(***************************************************************************)
(* What an rttTracker of core/client/hft_client.go promises: of all the    *)
(* round-trip times it was given for a server it has the last MaxSamples,  *)
(* newest first.                                                           *)
(***************************************************************************)
EXTENDS Integers, Sequences

CONSTANTS Servers, RTTs, MaxSamples

VARIABLE recent    \* the sequence of each server

(* x in front of what is kept of a sequence.                               *)
Kept(n) == IF n < MaxSamples THEN n + 1 ELSE MaxSamples
Push(x, s) == [i \in 1 .. Kept(Len(s)) |-> IF i = 1 THEN x ELSE s[i - 1]]

Init == recent = [s \in Servers |-> <<>>]

Add(s, x) == recent' = [recent EXCEPT ![s] = Push(x, @)]

Next == \E s \in Servers, x \in RTTs : Add(s, x)

Spec == Init /\ [][Next]_recent

=============================================================================
