---------------------------- MODULE ParamFormat -----------------------------
(***************************************************************************)
(* parseWithDualFormatSupport of core/client/hft_client.go, which takes    *)
(* data with or without a length before it.  What it returns depends on    *)
(* the number n of bytes and on the number p that the first four of them   *)
(* encode: an error, all the data ("direct"), or data[4 : 4+p]             *)
(* ("prefixed").                                                           *)
(***************************************************************************)
EXTENDS Integers

Uint32 == 4294967296
maxLengthPrefixValue == 100 * 1024

(* The prefix is taken for a length.  Comparison and sum are of uint32,    *)
(* to which the length of the data is converted.                           *)
Plausible(p)   == p > 0 /\ p <= maxLengthPrefixValue
TooShort(n, p) == n % Uint32 < (4 + p) % Uint32

Parse(n, p) ==
  IF n = 0 THEN "error"
  ELSE IF n < 4 \/ ~Plausible(p) THEN "direct"
  ELSE IF TooShort(n, p) THEN "error" ELSE "prefixed"

=============================================================================
