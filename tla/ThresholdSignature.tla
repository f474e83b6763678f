------------------------ MODULE ThresholdSignature -------------------------
(***************************************************************************)
(* The threshold signatures of core/consensus/threshold.go, as operators.  *)
(*                                                                         *)
(* A map from node identifiers to signatures is abstracted to the set of   *)
(* its keys.  Whether ed25519.Verify accepts the signature stored under a  *)
(* key is given by the set  verified : the nodes that have an entry in     *)
(* publicKeys and whose signature over "timestamp" checks.  Identifiers    *)
(* are integers, so that sort.Strings has an order to sort by.             *)
(***************************************************************************)
EXTENDS Integers, FiniteSets

(* The signatures Aggregate keeps: those that Verify accepts.              *)
ValidSigs(signatures, verified) == signatures \cap verified

(* The two early returns of Aggregate: too few signatures, or too few of   *)
(* them valid.                                                             *)
AggregateSucceeds(signatures, verified, threshold) ==
  /\ Cardinality(signatures) >= threshold
  /\ Cardinality(ValidSigs(signatures, verified)) >= threshold

(* What Aggregate concatenates: the signatures of the first  threshold     *)
(* valid nodes in the order of their identifiers.                          *)
Aggregate(signatures, verified, threshold) ==
  LET valid == ValidSigs(signatures, verified)
  IN  {s \in valid : Cardinality({u \in valid : u < s}) < threshold}

=============================================================================
