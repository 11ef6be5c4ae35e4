---------------------------- MODULE HarnessTables ----------------------------
(***************************************************************************)
(* The straight-line fuzz harnesses of this repository, one entry per Go  *)
(* function, as the sequence of steps the function takes:                 *)
(*                                                                         *)
(*  - a read: one consumer call (GenerateStruct, GetString, GetInt,       *)
(*    GetBool, GetBytes, CreateSlice, FuzzMap) populating a local; every  *)
(*    read in these functions is followed by `if err != nil { return }`;  *)
(*  - a call: one call of the library under test with the locals it is   *)
(*    passed ("data" is the raw fuzz input, always available).  A checked *)
(*    call is followed by an early return when it reports an error, and   *)
(*    its result becomes a local ("out") later steps may use.             *)
(*                                                                         *)
(* Objects are abstracted to the names of the locals that hold them: the  *)
(* properties are about which locals are filled before they are used.     *)
(***************************************************************************)
EXTENDS Naturals, Sequences

Read(op, x) == [kind |-> "read", op |-> op, into |-> x]
Gen(x) == Read("GenerateStruct", x)
Call(fn, uses) == [kind |-> "call", fn |-> fn, uses |-> uses, checked |-> FALSE, out |-> {}]
Check(fn, uses, out) == [kind |-> "call", fn |-> fn, uses |-> uses, checked |-> TRUE, out |-> out]

(* The common shapes: populate one or two objects and pass them on.       *)
One(x, fn) == <<Gen(x), Call(fn, {x})>>
(* Mutant: the second object generated into the first one's variable.    *)
TwoCopyPaste(x, y, fn) == <<Gen(x), Gen(x), Call(fn, {x, y})>>
Two(x, y, fn) == <<Gen(x), Gen(y), Call(fn, {x, y})>>

(***************************************************************************)
(* validation_fuzzers_test.go                                              *)
(***************************************************************************)
CoreValidationSteps ==
  [ fuzzValidatePodCreate |->
      <<Gen("pod"), Check("ValidatePodCreate", {"pod"}, {}),
        Call("Convert_core_Pod_To_v1_Pod", {"pod"})>>,
    fuzzValidatePodUpdate |-> Two("pod1", "pod2", "ValidatePodUpdate"),
    fuzzValidatePodStatusUpdate |-> Two("pod1", "pod2", "ValidatePodStatusUpdate"),
    fuzzValidatePodEphemeralContainersUpdate |->
      Two("pod1", "pod2", "ValidatePodEphemeralContainersUpdate"),
    fuzzValidatePersistentVolumeUpdate |-> Two("pv1", "pv2", "ValidatePersistentVolumeUpdate"),
    fuzzValidatePersistentVolumeClaimUpdate |->
      Two("pvc1", "pvc2", "ValidatePersistentVolumeClaimUpdate"),
    fuzzValidateServiceCreate |-> One("service", "ValidateServiceCreate"),
    fuzzValidateServiceUpdate |-> Two("service1", "service2", "ValidateServiceUpdate"),
    fuzzValidateEndpointsCreate |-> One("endpoints", "ValidateEndpointsCreate"),
    fuzzValidateNodeUpdate |-> Two("node1", "node2", "ValidateNodeUpdate"),
    fuzzValidateLimitRange |-> One("limitRange", "ValidateLimitRange") ]

AppsBatchValidationSteps ==
  [ fuzzValidateStatefulSet |-> One("statefulset", "ValidateStatefulSet"),
    fuzzValidateStatefulSetUpdate |->
      <<Gen("statefulset1"), Gen("statefulset2"), Gen("opts"),
        Call("ValidateStatefulSetUpdate", {"statefulset1", "statefulset2", "opts"})>>,
    fuzzValidateDaemonSet |-> One("daemonset", "ValidateDaemonSet"),
    fuzzValidateDaemonSetUpdate |-> Two("daemonset1", "daemonset2", "ValidateDaemonSetUpdate"),
    fuzzValidateDeployment |-> One("deployment", "ValidateDeployment"),
    fuzzValidateDeploymentUpdate |->
      Two("deployment1", "deployment2", "ValidateDeploymentUpdate"),
    fuzzValidateJob |-> One("job", "ValidateJob"),
    fuzzValidateJobUpdate |-> Two("job1", "job2", "ValidateJobUpdate"),
    fuzzValidateCronJobCreate |-> One("cronjob", "ValidateCronJobCreate"),
    fuzzValidateCronJobUpdate |-> Two("cronjob1", "cronjob2", "ValidateCronJobUpdate") ]

(* The approval-update harness generates csr1 twice and never csr2.       *)
PolicyCertValidationSteps ==
  [ fuzzValidateScale |-> One("scale", "ValidateScale"),
    fuzzValidateHorizontalPodAutoscaler |-> One("autoscaler", "ValidateHorizontalPodAutoscaler"),
    fuzzValidateHorizontalPodAutoscalerUpdate |->
      Two("autoscaler1", "autoscaler2", "ValidateHorizontalPodAutoscalerUpdate"),
    fuzzValidatePodDisruptionBudget |-> One("pdb", "ValidatePodDisruptionBudget"),
    fuzzValidatePodDisruptionBudgetStatusUpdate |->
      <<Gen("status"), Gen("oldStatus"),
        Check("ValidatePodDisruptionBudgetStatusUpdate", {"status", "oldStatus"}, {}),
        Call("ValidatePodDisruptionBudgetStatusUpdate", {"status", "oldStatus"})>>,
    fuzzValidateCertificateSigningRequestCreate |->
      One("csr", "ValidateCertificateSigningRequestCreate"),
    fuzzValidateCertificateSigningRequestUpdate |->
      Two("csr1", "csr2", "ValidateCertificateSigningRequestUpdate"),
    fuzzValidateCertificateSigningRequestStatusUpdate |->
      Two("csr1", "csr2", "ValidateCertificateSigningRequestStatusUpdate"),
    fuzzValidateCertificateSigningRequestApprovalUpdate |->
      <<Gen("csr1"), Gen("csr1"),
        Call("ValidateCertificateSigningRequestApprovalUpdate", {"csr1", "csr2"})>> ]

ApiserverRbacValidationSteps ==
  [ fuzzValidateCustomResourceDefinition |-> One("crd", "ValidateCustomResourceDefinition"),
    fuzzValidateStorageVersion |-> One("sv", "ValidateStorageVersion"),
    fuzzValidateStorageVersionName |-> <<Call("ValidateStorageVersionName", {"data"})>>,
    fuzzValidateStorageVersionStatusUpdate |->
      Two("sv1", "sv2", "ValidateStorageVersionStatusUpdate"),
    fuzzValidatePolicy |-> One("p", "ValidatePolicy"),
    \* defined outside this repository: an opaque call on data[1:]
    FuzzLoadPolicyFromBytes |-> <<Call("FuzzLoadPolicyFromBytes", {"data"})>>,
    fuzzValidateRoleUpdate |-> Two("role1", "role2", "ValidateRoleUpdate"),
    fuzzValidateClusterRoleUpdate |->
      Two("clusterRole1", "clusterRole2", "ValidateClusterRoleUpdate"),
    fuzzValidateRoleBindingUpdate |->
      Two("roleBinding1", "roleBinding2", "ValidateRoleBindingUpdate"),
    fuzzValidateClusterRoleBindingUpdate |->
      Two("clusterRoleBinding1", "clusterRoleBinding2", "ValidateClusterRoleBindingUpdate") ]

QuotaValidationSteps ==
  [ fuzzCompactRules |-> <<Read("CreateSlice", "rules"), Call("CompactRules", {"rules"})>>,
    fuzzValidateResourceQuotaSpec |->
      Two("resourceQuotaSpec", "fld", "ValidateResourceQuotaSpec"),
    fuzzValidateResourceQuotaUpdate |->
      Two("newResourceQuota", "oldResourceQuota", "ValidateResourceQuotaUpdate"),
    fuzzValidateResourceQuotaStatusUpdate |->
      Two("newResourceQuota", "oldResourceQuota", "ValidateResourceQuotaStatusUpdate"),
    fuzzValidateServiceStatusUpdate |->
      Two("service", "oldService", "ValidateServiceStatusUpdate") ]

(***************************************************************************)
(* deployment_util_fuzzer.go                                               *)
(***************************************************************************)
DeploymentAnnotationSteps ==
  [ fuzzSetDeploymentCondition |-> <<>>,
    fuzzRemoveDeploymentCondition |-> <<>>,
    fuzzSetDeploymentRevision |->
      <<Gen("deployment"), Read("GetString", "revision"),
        Call("SetDeploymentRevision", {"deployment", "revision"})>>,
    fuzzMaxAndLastRevision |->
      <<Read("CreateSlice", "allRSs"), Read("GetBool", "max"),
        Call("MaxRevision/LastRevision", {"allRSs", "max"})>>,
    fuzzSetNewReplicaSetAnnotations |->
      <<Gen("deployment"), Gen("newRS"), Read("GetString", "newRevision"),
        Read("GetBool", "exists"), Read("GetInt", "revHistoryLimitInChars"),
        Call("SetNewReplicaSetAnnotations",
             {"deployment", "newRS", "newRevision", "exists", "revHistoryLimitInChars"})>>,
    fuzzSetDeploymentAnnotationsTo |->
      Two("deployment", "rollbackToRS", "SetDeploymentAnnotationsTo"),
    fuzzFindActiveOrLatest |->
      <<Gen("newRS"), Read("CreateSlice", "oldRSs"),
        Call("FindActiveOrLatest", {"newRS", "oldRSs"})>>,
    fuzzGetDesiredReplicasAnnotation |-> One("rs", "GetDesiredReplicasAnnotation"),
    fuzzSetReplicasAnnotations |->
      <<Gen("rs"), Read("GetInt", "desiredReplicas"), Read("GetInt", "maxReplicas"),
        Call("SetReplicasAnnotations", {"rs", "desiredReplicas", "maxReplicas"})>>,
    fuzzReplicasAnnotationsNeedUpdate |->
      <<Gen("rs"), Read("GetInt", "desiredReplicas"), Read("GetInt", "maxReplicas"),
        Call("ReplicasAnnotationsNeedUpdate", {"rs", "desiredReplicas", "maxReplicas"})>> ]

ReplicaSetCountSteps(fn) == <<Read("CreateSlice", "replicaSets"), Call(fn, {"replicaSets"})>>

DeploymentReplicaSteps ==
  [ fuzzMaxUnavailable |-> One("deployment", "MaxUnavailable"),
    fuzzMinAvailable |-> One("deployment", "MinAvailable"),
    fuzzMaxSurge |-> One("deployment", "MaxSurge"),
    fuzzGetProportion |->
      <<Gen("rs"), Gen("deployment"), Read("GetInt", "deploymentReplicasToAdd"),
        Read("GetInt", "deploymentReplicasAdded"),
        Call("GetProportion", {"rs", "deployment", "deploymentReplicasToAdd",
                               "deploymentReplicasAdded"})>>,
    fuzzFindNewReplicaSet |->
      <<Gen("deployment"), Read("CreateSlice", "rsList"),
        Call("FindNewReplicaSet", {"deployment", "rsList"})>>,
    fuzzFindOldReplicaSets |->
      <<Gen("deployment"), Read("CreateSlice", "rsList"),
        Call("FindOldReplicaSets", {"deployment", "rsList"})>>,
    fuzzGetReplicaCountForReplicaSets |-> ReplicaSetCountSteps("GetReplicaCountForReplicaSets"),
    fuzzGetActualReplicaCountForReplicaSets |->
      ReplicaSetCountSteps("GetActualReplicaCountForReplicaSets"),
    fuzzGetReadyReplicaCountForReplicaSets |->
      ReplicaSetCountSteps("GetReadyReplicaCountForReplicaSets"),
    fuzzGetAvailableReplicaCountForReplicaSets |->
      ReplicaSetCountSteps("GetAvailableReplicaCountForReplicaSets") ]

(* The rollout helpers: new-replica-set scaling, saturation, fenceposts   *)
(* and the deployment lister.                                             *)
DeploymentRolloutSteps ==
  [ fuzzNewRSNewReplicas |->
      <<Gen("deployment"), Read("CreateSlice", "allRSs"), Gen("newRS"),
        Call("NewRSNewReplicas", {"deployment", "allRSs", "newRS"})>>,
    fuzzIsSaturated |-> Two("deployment", "rs", "IsSaturated"),
    fuzzResolveFenceposts |->
      <<Gen("maxSurge"), Gen("maxUnavailable"), Read("GetInt", "desired"),
        Call("ResolveFenceposts", {"maxSurge", "maxUnavailable", "desired"})>>,
    fuzzGetDeploymentsForReplicaSet |-> One("rs", "GetDeploymentsForReplicaSet") ]

(***************************************************************************)
(* Stand-alone fuzz targets: parser_fuzzer.go, internal_kubelet_fuzzer.go, *)
(* internal_kubelet_kuberuntime_fuzzer.go                                  *)
(***************************************************************************)
RawInput(fn) == <<Call(fn, {"data"})>>

ParserSteps ==
  [ FuzzParseQuantity |-> RawInput("ParseQuantity"),
    FuzzMeta1ParseToLabelSelector |-> RawInput("ParseToLabelSelector"),
    FuzzParseSelector |-> RawInput("ParseSelector"),
    FuzzLabelsParse |-> RawInput("Parse"),
    FuzzParseGroupVersion |-> RawInput("ParseGroupVersion"),
    FuzzParseResourceArg |-> RawInput("ParseResourceArg"),
    FuzzParseVersion |->
      <<Read("GetString", "vString1"), Check("ParseSemantic", {"vString1"}, {"v1"}),
        Call("String", {"v1"}), Read("GetString", "vString2"),
        Check("ParseGeneric", {"vString2"}, {"v2"}), Call("AtLeast", {"v1", "v2"})>>,
    FuzzParsePrivateKeyPEM |-> RawInput("ParsePrivateKeyPEM"),
    FuzzParsePublicKeysPEM |-> RawInput("ParsePublicKeysPEM"),
    FuzzParseHostPort |-> RawInput("ParseHostPort"),
    FuzzUrlsMatch |->
      <<Read("GetString", "glob"), Read("GetString", "target"),
        Call("URLsMatchStr", {"glob", "target"})>>,
    FuzzParseCSR |-> RawInput("ParseCSR") ]

ParserMapSteps ==
  [ FuzzParseQOSReserve |-> <<Read("FuzzMap", "m"), Call("ParseQOSReserved", {"m"})>>,
    FuzzParseCPUSet |-> <<Check("cpuset.Parse", {"data"}, {"cs"}), Call("String", {"cs"})>>,
    FuzzParseImageName |-> RawInput("ParseImageName") ]

KubeletSteps ==
  [ FuzzHandlePodCleanups |-> One("pod", "HandlePodCleanups"),
    FuzzMakeEnvironmentVariables |->
      <<Gen("testPod"), Gen("container"), Read("GetString", "podIP"),
        Read("CreateSlice", "podIPs"),
        Call("makeEnvironmentVariables", {"testPod", "container", "podIP", "podIPs"})>> ]

KubeRuntimeSteps ==
  [ FuzzKubeRuntime |->
      <<Gen("pod"), Gen("status"), Check("createTestRuntimeManager", {}, {"m"}),
        Call("computePodActions", {"m", "pod", "status"})>> ]

=============================================================================
