------------------------------- MODULE Harness -------------------------------
(***************************************************************************)
(* One invocation of a straight-line fuzz target of this repository: the  *)
(* fuzz engine hands it a byte buffer; a dispatching target               *)
(* (FuzzAllValidation, FuzzEntireDeploymentUtil) drops inputs shorter     *)
(* than 10 bytes, picks a harness function with data[0] modulo its table  *)
(* size and passes it data[1:]; the harness function then runs its steps  *)
(* (HarnessTables) over a fresh consumer, returning at the first consumer *)
(* error or checked library error.                                        *)
(*                                                                         *)
(* The consumer is the abstract one of ConsumerSpec over an input whose   *)
(* byte values are irrelevant here (every byte is 0): only how much input *)
(* is left decides which reads succeed.                                   *)
(***************************************************************************)
EXTENDS Naturals, Sequences, TLC, HarnessTables

CONSTANTS
  Entries,    \* the fuzz targets checked
  MaxData,    \* the longest fuzz input checked
  Excluded    \* harness functions left out of a run (see the README)

(***************************************************************************)
(* The dispatch tables.                                                    *)
(***************************************************************************)
MinDataLen == 10          \* `if len(data) < 10 { return }`
(* Mutant: maxFuzzers one larger than the if-chain's indices.            *)
MaxFuzzersOffByOne == 51

MaxFuzzers == 50          \* validation_fuzzers_test.go, const maxFuzzers

(* FuzzAllValidation: op = int(data[0]) % maxFuzzers; 27..30 match no     *)
(* branch of the if-chain and the target just returns.                    *)
ValidationOps ==
  << "fuzzValidatePodCreate", "fuzzValidatePodUpdate", "fuzzValidatePodStatusUpdate",
     "fuzzValidatePodEphemeralContainersUpdate", "fuzzValidatePersistentVolumeUpdate",
     "fuzzValidatePersistentVolumeClaimUpdate", "fuzzValidateServiceCreate",
     "fuzzValidateServiceUpdate", "fuzzValidateEndpointsCreate", "fuzzValidateNodeUpdate",
     "fuzzValidateLimitRange", "fuzzValidateStatefulSet", "fuzzValidateStatefulSetUpdate",
     "fuzzValidateDaemonSet", "fuzzValidateDaemonSetUpdate", "fuzzValidateDeployment",
     "fuzzValidateDeploymentUpdate", "fuzzValidateJob", "fuzzValidateJobUpdate",
     "fuzzValidateCronJobCreate", "fuzzValidateCronJobUpdate", "fuzzValidateScale",
     "fuzzValidateHorizontalPodAutoscaler", "fuzzValidateHorizontalPodAutoscalerUpdate",
     "fuzzValidateDeployment", "fuzzValidatePodDisruptionBudget",
     "fuzzValidatePodDisruptionBudgetStatusUpdate", "none", "none", "none", "none",
     "fuzzValidateCertificateSigningRequestCreate",
     "fuzzValidateCertificateSigningRequestUpdate",
     "fuzzValidateCertificateSigningRequestStatusUpdate",
     "fuzzValidateCertificateSigningRequestApprovalUpdate",
     "fuzzValidateCustomResourceDefinition", "fuzzValidateStorageVersion",
     "fuzzValidateStorageVersionName", "fuzzValidateStorageVersionStatusUpdate",
     "fuzzValidatePolicy", "FuzzLoadPolicyFromBytes", "fuzzValidateRoleUpdate",
     "fuzzValidateClusterRoleUpdate", "fuzzValidateRoleBindingUpdate",
     "fuzzValidateClusterRoleBindingUpdate", "fuzzCompactRules",
     "fuzzValidateResourceQuotaSpec", "fuzzValidateResourceQuotaUpdate",
     "fuzzValidateResourceQuotaStatusUpdate", "fuzzValidateServiceStatusUpdate" >>

(* The branch of the if-chain op == i that matches, or none: the chain    *)
(* has no else.                                                            *)
ValidationFunc(op) == IF op < Len(ValidationOps) THEN ValidationOps[op + 1] ELSE "none"

ValidationOp(b) == b % MaxFuzzers
ValidationDispatch(b) == ValidationFunc(ValidationOp(b))

(* The indices the if-chain leaves without a branch.                      *)
Unused == {i \in 0..Len(ValidationOps) - 1 : ValidationOps[i + 1] = "none"}

(* FuzzEntireDeploymentUtil: functionsToCall[int(data[0]) % len(...)].    *)
FunctionsToCall ==
  << "fuzzSetDeploymentCondition", "fuzzRemoveDeploymentCondition",
     "fuzzSetDeploymentRevision", "fuzzMaxAndLastRevision",
     "fuzzSetNewReplicaSetAnnotations", "fuzzSetDeploymentAnnotationsTo",
     "fuzzFindActiveOrLatest", "fuzzGetDesiredReplicasAnnotation",
     "fuzzSetReplicasAnnotations", "fuzzReplicasAnnotationsNeedUpdate",
     "fuzzMaxUnavailable", "fuzzMinAvailable", "fuzzMaxSurge", "fuzzGetProportion",
     "fuzzFindNewReplicaSet", "fuzzFindOldReplicaSets",
     "fuzzGetReplicaCountForReplicaSets", "fuzzGetActualReplicaCountForReplicaSets",
     "fuzzGetReadyReplicaCountForReplicaSets", "fuzzGetAvailableReplicaCountForReplicaSets",
     "fuzzNewRSNewReplicas", "fuzzIsSaturated", "fuzzResolveFenceposts",
     "fuzzGetDeploymentsForReplicaSet" >>

DeploymentDispatch(b) == FunctionsToCall[(b % Len(FunctionsToCall)) + 1]

ValidationSteps ==
  CoreValidationSteps @@ AppsBatchValidationSteps @@ PolicyCertValidationSteps
    @@ ApiserverRbacValidationSteps @@ QuotaValidationSteps

DeploymentSteps == DeploymentAnnotationSteps @@ DeploymentReplicaSteps @@ DeploymentRolloutSteps

StandaloneSteps == ParserSteps @@ ParserMapSteps @@ KubeletSteps @@ KubeRuntimeSteps

Steps == ValidationSteps @@ DeploymentSteps @@ StandaloneSteps @@ [none |-> <<>>]

Dispatching == {"FuzzAllValidation", "FuzzEntireDeploymentUtil"}

(* The harness function an input of n bytes with first byte b runs, and   *)
(* the length of the buffer its consumer is built on.                      *)
Selected(e, n, b) ==
  CASE e \notin Dispatching     -> e
    [] n < MinDataLen           -> "none"
    [] e = "FuzzAllValidation"  -> ValidationDispatch(b)
    [] OTHER                    -> DeploymentDispatch(b)

(* Mutant: the harness function handed data instead of data[1:].         *)
InputLenWhole(e, n) == n

InputLen(e, n) == IF e \in Dispatching THEN n - 1 ELSE n

ASSUME Entries \subseteq Dispatching \cup DOMAIN StandaloneSteps

-----------------------------------------------------------------------------
VARIABLES
  entry,      \* the fuzz target invoked
  h,          \* the harness function it runs
  op,         \* FuzzAllValidation: int(data[0]) % maxFuzzers, else 0
  pc,         \* index of the harness's next step
  filled,     \* the locals populated so far
  status,     \* "running" or "returned"
  rest, got, ok   \* the consumer (ConsumerSpec)

vars == <<entry, h, op, pc, filled, status, rest, got, ok>>

Cons == INSTANCE ConsumerSpec

Step == Steps[h][pc]
AtStep(kind) == status = "running" /\ pc \in DOMAIN Steps[h] /\ Step.kind = kind

Init ==
  /\ entry \in Entries
  /\ \E n \in 0..MaxData, b \in 0..255 :
       /\ h = Selected(entry, n, b)
       /\ op = IF entry = "FuzzAllValidation" /\ n >= MinDataLen THEN ValidationOp(b) ELSE 0
       /\ rest = [i \in 1..InputLen(entry, n) |-> 0]
  /\ h \notin Excluded
  /\ got = <<>>
  /\ ok = TRUE
  /\ pc = 1
  /\ filled = {"data"}
  /\ status = "running"

(* A consumer call that fills its local.                                  *)
ReadOk ==
  /\ AtStep("read")
  /\ \E k \in 1..Len(rest) : Cons!Consume(k)
  /\ filled' = filled \cup {Step.into}
  /\ pc' = pc + 1
  /\ UNCHANGED <<entry, h, op, status>>

(* `if err != nil { return }` after a consumer call.                      *)
ReadExhausted ==
  /\ AtStep("read")
  /\ Cons!Exhaust
  /\ status' = "returned"
  /\ UNCHANGED <<entry, h, op, pc, filled>>

(* A library call that returns normally; its results become locals.       *)
CallReturns ==
  /\ AtStep("call")
  /\ filled' = filled \cup Step.out
  /\ pc' = pc + 1
  /\ UNCHANGED <<entry, h, op, status, rest, got, ok>>

(* A checked library call reporting an error: the harness returns.        *)
CallFails ==
  /\ AtStep("call")
  /\ Step.checked
  /\ status' = "returned"
  /\ pc' = pc + 1
  /\ UNCHANGED <<entry, h, op, filled, rest, got, ok>>

(* The harness's final `return`.                                          *)
Return ==
  /\ status = "running"
  /\ pc = Len(Steps[h]) + 1
  /\ status' = "returned"
  /\ UNCHANGED <<entry, h, op, pc, filled, rest, got, ok>>

Next == ReadOk \/ ReadExhausted \/ CallReturns \/ CallFails \/ Return

Spec == Init /\ [][Next]_vars

-----------------------------------------------------------------------------
TypeOK ==
  /\ entry \in Entries
  /\ h \in DOMAIN Steps
  /\ op \in 0..MaxFuzzers - 1
  /\ pc \in 1..Len(Steps[h]) + 1
  /\ status \in {"running", "returned"}
  /\ rest \in Seq({0})
  \* a dispatched harness function never sees the selector byte data[0]
  /\ Len(rest) <= IF entry \in Dispatching THEN MaxData - 1 ELSE MaxData
  /\ ok \in BOOLEAN

(* Every library call a harness makes is passed only locals that an       *)
(* earlier, successful step of the same harness populated from the fuzz   *)
(* input (or an earlier call returned): no argument is a zero value the   *)
(* harness forgot to generate.                                             *)
ArgsFromInput ==
  [][AtStep("call") /\ pc' = pc + 1 => Step.uses \subseteq filled]_vars

(* Every FuzzAllValidation input the length check admits runs a harness   *)
(* function unless its index is one the if-chain leaves without a branch:  *)
(* maxFuzzers matches the chain, so no first byte selects an index past    *)
(* its end and is silently thrown away.                                    *)
ValidationInputDispatched ==
  entry = "FuzzAllValidation" /\ h = "none" => Len(rest) < MinDataLen - 1 \/ op \in Unused

(* The if-chain and functionsToCall name every harness function their      *)
(* file defines, FuzzAllValidation's chain leaving exactly the indices    *)
(* 27..30 without a branch.  A fact of the constant tables, checked by TLC *)
(* as an assumption before any state is explored.                          *)
DispatchReachesEveryHarness ==
  /\ {ValidationOps[i] : i \in DOMAIN ValidationOps} = DOMAIN ValidationSteps \cup {"none"}
  /\ Unused = 27..30
  /\ {DeploymentDispatch(b) : b \in 0..255} = DOMAIN DeploymentSteps

ASSUME DispatchReachesEveryHarness

=============================================================================
