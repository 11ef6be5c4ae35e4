----------------------------- MODULE MCRoundTrip -----------------------------
EXTENDS RoundTrip

(* One process running each kind of checking target, as plain go test    *)
(* does with every seed corpus; each violation run keeps to one target,   *)
(* as go test -fuzz does.                                                  *)
AllTargets == {"FuzzRoundtrip", "FuzzAesRoundtrip", "FuzzKubeletSchemeRoundtrip",
               "FuzzRoundTripType", "FuzzHandlePodCleanups"}
ObjectRoundtrip == {"FuzzRoundtrip"}
AesRoundtrip == {"FuzzAesRoundtrip"}
=============================================================================
