---------------------------- MODULE MCIntHarness ----------------------------
(* IntHarness for TLC: GetInt returns one of -31, -1, 0, 1, 2, 31 (both   *)
(* signs, zero, a value for every index of syncTypes once reduced modulo  *)
(* 4, and values on either side of the modulus 30).                       *)
EXTENDS IntHarness

AllEntries == {"FuzzParseEnv", "FuzzSyncPod", "FuzzConvertToAPIContainerStatuses",
               "FuzzStrategicMergePatch"}
ParseEnvOnly == {"FuzzParseEnv"}
SyncPodOnly == {"FuzzSyncPod"}
MCIntVals == {-31, -1, 0, 1, 2, 31}
=============================================================================
