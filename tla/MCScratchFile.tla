---------------------------- MODULE MCScratchFile ----------------------------
EXTENDS ScratchFile, TLC

CONSTANTS w1, w2

(* One worker per target: the two paths are never shared.                  *)
OnePerTarget == (w1 :> "FuzzReadLogs") @@ (w2 :> "FuzzGetLabelsFromYaml")
(* Two workers fuzzing the same target.                                    *)
BothReadLogs == [w \in {w1, w2} |-> "FuzzReadLogs"]
BothTrace == [w \in {w1, w2} |-> "FuzzGetLabelsFromYaml"]
============================================================================
