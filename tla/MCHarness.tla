----------------------------- MODULE MCHarness -----------------------------
(* Harness instantiated for TLC: every straight-line fuzz target, inputs   *)
(* of up to 11 bytes (one past the 10-byte guard of the dispatchers, so   *)
(* their harnesses get 9 or 10 bytes of consumer input, enough for every  *)
(* read of the longest harness to succeed or fail at any point), and      *)
(* every first byte 0..255.                                                *)
EXTENDS Harness

AllEntries == Dispatching \cup DOMAIN StandaloneSteps

(* fuzzValidateCertificateSigningRequestApprovalUpdate breaks             *)
(* ArgsFromInput; the run harness_csr_approval shows how.                 *)
KnownBad == {"fuzzValidateCertificateSigningRequestApprovalUpdate"}

ValidationOnly == {"FuzzAllValidation"}
NothingExcluded == {}
=============================================================================
