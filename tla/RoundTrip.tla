------------------------------ MODULE RoundTrip ------------------------------
(***************************************************************************)
(* The fuzz targets that check the library's result, over the runs of    *)
(* one fuzz worker process (go test -fuzz runs one target per process,    *)
(* plain go test runs the seed corpus of every target in one process):    *)
(*                                                                         *)
(*  FuzzRoundtrip (roundtrip_fuzzer.go): drops inputs shorter than 10      *)
(*    bytes, picks one of 38 fuzz functions with data[0] % totalFuncs     *)
(*    (the four storage functions first run initLocalTest.Do(initTesting)),*)
(*    then prepAndDoRoundtrip: GenerateStruct, roundTrip (Encode with the  *)
(*    legacy codec; on error return the object; Decode, panic on error;    *)
(*    Convert, panic on error; return the result, which the caller         *)
(*    discards), GetBytes, two Decodes of those bytes, results ignored;   *)
(*  FuzzAesRoundtrip (aes_fuzzers_test.go): a key and a plaintext from     *)
(*    GetBytes (return if empty), aes.NewCipher (return on error), a mode *)
(*    from GetBool, then testGCMTTransformer, whose error panics, or       *)
(*    testCBCTransformer, whose error is assigned and dropped;            *)
(*  the gofuzz targets (gofuzz-fuzzers.go): initter.Do(initForFuzzing),    *)
(*    apimachinery's fuzzer seeded with the raw input through bytesource   *)
(*    (which never runs out: it falls back to a seeded PRNG), then one of *)
(*    apimachinery's round-trip tests, which report through t;            *)
(*  FuzzHandlePodCleanups (internal_kubelet_fuzzer.go), which checks what *)
(*    the kubelet did rather than a round trip: GenerateStruct(pod), then  *)
(*    HandlePodCleanups on a test kubelet whose fake runtime runs only     *)
(*    that pod; a triggered deletion other than [pod.ID] panics, and       *)
(*    AssertKilledPods(nil) returns an error nobody reads.                 *)
(*                                                                         *)
(* The libraries under test are not modelled: each of their calls returns *)
(* any of its possible outcomes, a wrong result included.  fault records  *)
(* the wrong results the library produced in the current run; a harness   *)
(* reports a fault by panicking or by failing t, either of which the fuzz *)
(* engine records as a crash and which ends the worker.                   *)
(***************************************************************************)
EXTENDS Naturals, Sequences

CONSTANTS
  Entries,    \* the fuzz targets the worker runs
  MaxData,    \* the longest fuzz input checked
  MaxRuns     \* runs of the worker process checked

(* Mutant: totalFuncs one larger than the number of branches.            *)
TotalFuncsOffByOne == 40

TotalFuncs == 39          \* roundtrip_fuzzer.go, totalFuncs
MinDataLen == 10

(* FuzzRoundtrip's if-chain: the fuzz function op % totalFuncs selects.   *)
RoundtripOps ==
  << "fuzzAppsV1DaemonSet", "fuzzAppsV1StatefulSet", "fuzzAppsV1Deployment",
     "fuzzAppsV1beta1", "fuzzAppsV1beta2StatefulSet", "fuzzAppsV1beta2Deployment",
     "fuzzAppsV1beta2ReplicaSet", "fuzzAppsV1beta2DaemonSet",
     "fuzzAutoscalingV1HorizontalPodAutoscaler", "fuzzAutoscalingV2beta1HorizontalPodAutoscaler",
     "fuzzAutoscalingV2beta2HorizontalPodAutoscaler", "fuzzBatchV1Job", "fuzzBatchV1CronJob",
     "fuzzBatchV1beta1CronJob", "fuzzCoreV1ReplicationController", "fuzzCoreV1Pod",
     "fuzzCoreV1Secret", "fuzzCoreV1PersistentVolume", "fuzzCoreV1PersistentVolumeClaim",
     "fuzzCoreV1Endpoints", "fuzzCoreV1Service", "fuzzCoreV1Namespace", "fuzzCoreV1Node",
     "fuzzCoreV1Endpoints", "fuzzCoreV1LimitRange", "fuzzExtensionsV1beta1DaemonSet",
     "fuzzExtensionsV1beta1Deployment", "fuzzExtensionsV1beta1ReplicaSet",
     "fuzzExtensionsV1beta1NetworkPolicy", "fuzzNetworkingV1NetworkPolicy",
     "fuzzNetworkingV1IngressClass", "fuzzNetworkingV1beta1Ingress",
     "fuzzSchedulingV1PriorityClass", "fuzzSchedulingV1alpa1PriorityClass",
     "fuzzSchedulingV1beta1PriorityClass", "fuzzStorageV1CSIDriver",
     "fuzzStorageV1StorageClass", "fuzzStorageV1beta1CSIDriver",
     "fuzzStorageV1beta1StorageClass" >>

(* The API group of the object o each fuzz function allocates.            *)
ObjectGroup ==
  [ fuzzAppsV1DaemonSet |-> "apps", fuzzAppsV1StatefulSet |-> "apps",
    fuzzAppsV1Deployment |-> "apps", fuzzAppsV1beta1 |-> "apps",
    fuzzAppsV1beta2StatefulSet |-> "apps", fuzzAppsV1beta2Deployment |-> "apps",
    fuzzAppsV1beta2ReplicaSet |-> "apps", fuzzAppsV1beta2DaemonSet |-> "apps",
    fuzzAutoscalingV1HorizontalPodAutoscaler |-> "autoscaling",
    fuzzAutoscalingV2beta1HorizontalPodAutoscaler |-> "autoscaling",
    fuzzAutoscalingV2beta2HorizontalPodAutoscaler |-> "autoscaling",
    fuzzBatchV1Job |-> "batch", fuzzBatchV1CronJob |-> "batch",
    fuzzBatchV1beta1CronJob |-> "batch", fuzzCoreV1ReplicationController |-> "core",
    fuzzCoreV1Pod |-> "core", fuzzCoreV1Secret |-> "core",
    fuzzCoreV1PersistentVolume |-> "core", fuzzCoreV1PersistentVolumeClaim |-> "core",
    fuzzCoreV1Endpoints |-> "core", fuzzCoreV1Service |-> "core",
    fuzzCoreV1Namespace |-> "core", fuzzCoreV1Node |-> "core",
    fuzzCoreV1LimitRange |-> "core", fuzzExtensionsV1beta1DaemonSet |-> "extensions",
    fuzzExtensionsV1beta1Deployment |-> "extensions",
    fuzzExtensionsV1beta1ReplicaSet |-> "extensions",
    fuzzExtensionsV1beta1NetworkPolicy |-> "extensions",
    fuzzNetworkingV1NetworkPolicy |-> "networking",
    fuzzNetworkingV1IngressClass |-> "networking",
    fuzzNetworkingV1beta1Ingress |-> "networking",
    fuzzSchedulingV1PriorityClass |-> "scheduling",
    fuzzSchedulingV1alpa1PriorityClass |-> "scheduling",
    fuzzSchedulingV1beta1PriorityClass |-> "scheduling",
    fuzzStorageV1CSIDriver |-> "storage", fuzzStorageV1StorageClass |-> "storage",
    fuzzStorageV1beta1CSIDriver |-> "storage", fuzzStorageV1beta1StorageClass |-> "storage" ]

(* Every fuzz function defined is reached; only fuzzCoreV1Endpoints is     *)
(* reached from two indices (19 and 23).                                   *)
ASSUME /\ {RoundtripOps[i] : i \in DOMAIN RoundtripOps} = DOMAIN ObjectGroup
       /\ {i \in DOMAIN RoundtripOps : RoundtripOps[i] = "fuzzCoreV1Endpoints"} = {20, 24}

(* The fuzz function the if-chain calls for op = int(data[0]): the branch  *)
(* op % totalFuncs == i for i in 0..38, or none if no branch matches.     *)
RoundtripFunc(op) ==
  LET i == op % TotalFuncs
  IN  IF i < Len(RoundtripOps) THEN RoundtripOps[i + 1] ELSE "none"

(* Mutant: the two v1beta1 storage functions without initLocalTest.Do.    *)
CallsInitV1Only(f) == f \in {"fuzzStorageV1CSIDriver", "fuzzStorageV1StorageClass"}

(* The fuzz functions that start with initLocalTest.Do(initTesting).      *)
CallsInit(f) ==
  f \in {"fuzzStorageV1CSIDriver", "fuzzStorageV1StorageClass",
         "fuzzStorageV1beta1CSIDriver", "fuzzStorageV1beta1StorageClass"}

(* The package-level sync.Once values, each guarding a function that calls *)
(* testing.Init: initTesting (roundtrip_fuzzer.go) and initForFuzzing     *)
(* (gofuzz-fuzzers.go).                                                    *)
Onces == {"initLocalTest", "initter"}

GofuzzEntries == {"FuzzRoundTripSpecificKind", "FuzzControllerRoundtrip",
                  "FuzzKubeletSchemeRoundtrip", "FuzzProxySchemeRoundtrip",
                  "FuzzRoundTripType"}

KeyKinds == {"empty", "valid", "invalid"}   \* NewCipher accepts 16, 24, 32 bytes
(* What one testXTransformer call can end with: NewGCMTransformer, the two *)
(* Transform calls and the stale and DeepEqual checks.                     *)
TransformOutcomes(m) ==
  {"ok", "to_err", "from_err", "stale", "mismatch"} \cup
    (IF m = "gcm" THEN {"new_err"} ELSE {})
Faults == {"decode_err", "convert_err", "mismatch", "new_err", "to_err", "from_err", "stale",
           "deletion", "killed"}

VARIABLES
  entry, pc,
  status,     \* "idle" between runs, "running", "returned" or "panicked"
  fault,      \* the library faults of the current run
  key,        \* FuzzAesRoundtrip: the kind of cipherBytes
  mode,       \* FuzzAesRoundtrip: "gcm", "cbc", or "none" before GetBool
  fn,         \* FuzzRoundtrip: the fuzz function dispatched, or "none"
  done,       \* done[o]: sync.Once o has fired in this process
  runs,
  rest, got, ok   \* the run's consumer (ConsumerSpec)

vars == <<entry, pc, status, fault, key, mode, fn, done, runs, rest, got, ok>>
harness == <<entry, fault, key, mode, fn, done, runs>>

Cons == INSTANCE ConsumerSpec

Init ==
  /\ entry \in Entries /\ pc = "start" /\ status = "idle"
  /\ fault = {} /\ key = "none" /\ mode = "none"
  /\ fn = "none" /\ done = [o \in Onces |-> FALSE]
  /\ runs = 0
  /\ rest = <<>> /\ got = <<>> /\ ok = TRUE

At(l) == status = "running" /\ pc = l
Goto(l) == pc' = l
Ok == \E k \in 1..Len(rest) : Cons!Consume(k)

(* The engine hands the worker its next input.  FuzzRoundtrip returns on  *)
(* short inputs and hands data[1:] to the fuzz function op % totalFuncs   *)
(* picks, which builds its consumer on it; the first byte b matters to    *)
(* FuzzRoundtrip alone.  The gofuzz targets have no consumer: bytesource  *)
(* never runs out.                                                         *)
FirstBytes(e, n) == IF e = "FuzzRoundtrip" /\ n >= MinDataLen THEN 0..255 ELSE {0}

NewInput ==
  /\ status \in {"idle", "returned"} /\ runs < MaxRuns
  /\ \E e \in Entries, n \in 0..MaxData : \E b \in FirstBytes(e, n) :
       LET f == IF e = "FuzzRoundtrip" /\ n >= MinDataLen
                  THEN RoundtripFunc(b) ELSE "none"
       IN  /\ entry' = e
           /\ fn' = f
           /\ rest' = CASE e = "FuzzRoundtrip"    -> [i \in 1..(n - 1) |-> 0]
                         [] e \in GofuzzEntries    -> <<>>
                         [] OTHER                  -> [i \in 1..n |-> 0]
           /\ pc' = CASE e = "FuzzAesRoundtrip" -> "key"
                      [] e \in GofuzzEntries   -> "initter"
                      [] e = "FuzzHandlePodCleanups" -> "pod"
                      [] f = "none"            -> "done"
                      [] CallsInit(f)          -> "once"
                      [] OTHER                 -> "gen"
  /\ status' = "running" /\ runs' = runs + 1
  /\ fault' = {} /\ key' = "none" /\ mode' = "none"
  /\ got' = <<>> /\ ok' = TRUE
  /\ UNCHANGED <<done>>

(* o.Do(f): the first call in the process runs f, every later call returns *)
(* at once; afterwards f has run in this process.                          *)
OnceDo(o, next) ==
  /\ done' = [done EXCEPT ![o] = TRUE]
  /\ Goto(next)
  /\ UNCHANGED <<entry, status, fault, key, mode, fn, runs, rest, got, ok>>

(* initLocalTest.Do(initTesting), first statement of the storage functions. *)
Once == At("once") /\ OnceDo("initLocalTest", "gen")

(* prepAndDoRoundtrip: f.GenerateStruct(o), return on error.              *)
GenerateObject ==
  /\ At("gen")
  /\ \/ Ok /\ Goto("encode")
     \/ Cons!Exhaust /\ Goto("done")
  /\ UNCHANGED <<status, harness>>

(* Mutant: an Encode error treated as fatal.                               *)
EncodePanics ==
  /\ At("encode")
  /\ \/ status' = "panicked" /\ UNCHANGED pc
     \/ Goto("decode") /\ UNCHANGED status
  /\ UNCHANGED <<harness, rest, got, ok>>

(* roundTrip: runtime.Encode; on error the object is returned as it is.   *)
Encode ==
  /\ At("encode")
  /\ \/ Goto("getbytes")
     \/ Goto("decode")
  /\ UNCHANGED <<status, harness, rest, got, ok>>

(* runtime.Decode, panic on error, then Scheme.Convert, panic on error.   *)
(* A wrong object from either is a fault nothing compares against.        *)
DecodeConvert(step, next, err) ==
  /\ At(step)
  /\ \/ fault' = fault \cup {err} /\ status' = "panicked" /\ UNCHANGED pc
     \/ Goto(next) /\ UNCHANGED <<fault, status>>
     \/ fault' = fault \cup {"mismatch"} /\ Goto(next) /\ UNCHANGED status
  /\ UNCHANGED <<entry, key, mode, fn, done, runs, rest, got, ok>>

Decode == DecodeConvert("decode", "convert", "decode_err")
Convert == DecodeConvert("convert", "getbytes", "convert_err")

(* data2 := f.GetBytes(), return on error; two Decodes whose results are  *)
(* ignored (an error there is the library rejecting garbage, no fault).   *)
DecodeRaw ==
  /\ At("getbytes")
  /\ \/ Ok \/ Cons!Exhaust
  /\ Goto("done")
  /\ UNCHANGED <<status, harness>>

(* FuzzAesRoundtrip: cipherBytes, return on error or if empty.            *)
GetKey ==
  /\ At("key")
  /\ \/ Ok /\ \E k \in KeyKinds : key' = k /\ Goto(IF k = "empty" THEN "done" ELSE "rand")
     \/ Cons!Exhaust /\ Goto("done") /\ UNCHANGED key
  /\ UNCHANGED <<entry, status, fault, mode, fn, done, runs>>

(* randBytes, return on error or if empty; aes.NewCipher, return on error. *)
GetPlaintext ==
  /\ At("rand")
  /\ \/ Ok /\ \E empty \in BOOLEAN :
              Goto(IF empty \/ key = "invalid" THEN "done" ELSE "mode")
     \/ Cons!Exhaust /\ Goto("done")
  /\ UNCHANGED <<status, harness>>

(* callGCMT, err := f.GetBool().                                           *)
GetMode ==
  /\ At("mode")
  /\ \/ Ok /\ \E g \in BOOLEAN : mode' = IF g THEN "gcm" ELSE "cbc"
     \/ Cons!Exhaust /\ UNCHANGED mode
  /\ Goto(IF ok' THEN "transform" ELSE "done")
  /\ UNCHANGED <<entry, status, fault, key, fn, done, runs>>

(* Mutant: the stale flag left unchecked.                                  *)
TransformDropsStale ==
  /\ At("transform")
  /\ \E r \in TransformOutcomes(mode) :
       /\ fault' = IF r = "ok" THEN {} ELSE {r}
       /\ IF r \notin {"ok", "stale"} /\ mode = "gcm"
            THEN status' = "panicked" /\ UNCHANGED pc
            ELSE Goto("done") /\ UNCHANGED status
  /\ UNCHANGED <<entry, key, mode, fn, done, runs, rest, got, ok>>

(* testGCMTTransformer or testCBCTransformer: an error panics in the GCM  *)
(* branch; in the CBC branch it is assigned to err and never read.        *)
Transform ==
  /\ At("transform")
  /\ \E r \in TransformOutcomes(mode) :
       /\ fault' = IF r = "ok" THEN {} ELSE {r}
       /\ IF r # "ok" /\ mode = "gcm"
            THEN status' = "panicked" /\ UNCHANGED pc
            ELSE Goto("done") /\ UNCHANGED status
  /\ UNCHANGED <<entry, key, mode, fn, done, runs, rest, got, ok>>

(* initter.Do(initForFuzzing), first statement of every gofuzz target.   *)
GofuzzInit ==
  /\ At("initter")
  /\ OnceDo("initter", IF entry = "FuzzKubeletSchemeRoundtrip" THEN "scheme" ELSE "roundtrip")

(* FuzzKubeletSchemeRoundtrip: kubeletScheme.NewSchemeAndCodecs(), return *)
(* on error.                                                               *)
NewSchemeAndCodecs ==
  /\ At("scheme")
  /\ \/ Goto("roundtrip")
     \/ Goto("done")
  /\ UNCHANGED <<status, harness, rest, got, ok>>

(* bytesource.New(data), fuzzer.FuzzerFor(...), then RoundTripSpecificKind, *)
(* RoundTripTypesWithoutProtobuf or RoundTripTypes with the target's t:   *)
(* every encode or decode error and every mismatch is a t.Errorf, which   *)
(* fails the test.                                                         *)
LibraryRoundTrip ==
  /\ At("roundtrip")
  /\ \/ Goto("done") /\ UNCHANGED <<fault, status>>
     \/ \E r \in {"decode_err", "mismatch"} :
          fault' = {r} /\ status' = "failed" /\ UNCHANGED pc
  /\ UNCHANGED <<entry, key, mode, fn, done, runs, rest, got, ok>>

(* FuzzHandlePodCleanups: f.GenerateStruct(pod), return on error.         *)
GeneratePod ==
  /\ At("pod")
  /\ \/ Ok /\ Goto("cleanups")
     \/ Cons!Exhaust /\ Goto("done")
  /\ UNCHANGED <<status, harness>>

(* kubelet.HandlePodCleanups, then the two checks: the fake pod workers   *)
(* must have triggered exactly the deletion of podID, else panic; the     *)
(* fake runtime must have killed no pod, but AssertKilledPods' error is   *)
(* discarded.                                                              *)
HandlePodCleanups ==
  /\ At("cleanups")
  /\ \E deleted \in {"podID", "other"}, killed \in BOOLEAN :
       /\ fault' = (IF deleted = "podID" THEN {} ELSE {"deletion"})
                     \cup (IF killed THEN {"killed"} ELSE {})
       /\ IF deleted # "podID"
            THEN status' = "panicked" /\ UNCHANGED pc
            ELSE Goto("done") /\ UNCHANGED status
  /\ UNCHANGED <<entry, key, mode, fn, done, runs, rest, got, ok>>

Return ==
  /\ At("done")
  /\ status' = "returned"
  /\ UNCHANGED <<entry, pc, harness, rest, got, ok>>

Next ==
  \/ NewInput \/ Once \/ GenerateObject \/ Encode \/ Decode \/ Convert \/ DecodeRaw
  \/ GetKey \/ GetPlaintext \/ GetMode \/ Transform
  \/ GofuzzInit \/ NewSchemeAndCodecs \/ LibraryRoundTrip
  \/ GeneratePod \/ HandlePodCleanups \/ Return

Spec == Init /\ [][Next]_vars

-----------------------------------------------------------------------------
TestingInitRan == \E o \in Onces : done[o]

(* A run ends in a crash (a panic or a failed t) only when the library    *)
(* really misbehaved: an input the codec may refuse (an Encode error, an  *)
(* invalid key, a short or empty input, a scheme that cannot be built)    *)
(* never ends the fuzzer with a crash.                                     *)
NoFalseAlarm == status \in {"panicked", "failed"} => fault # {}

(* Every fault is reported by the harnesses that check their library's   *)
(* result: the AES-GCM branch (an error of either Transform, a stale      *)
(* result, a plaintext that does not come back) and the gofuzz targets,   *)
(* which hand apimachinery's round-trip tests their own t; and whatever   *)
(* the target, a pod deletion HandlePodCleanups got wrong.               *)
CheckedFaultsReported ==
  status = "returned" =>
    /\ (mode = "gcm" \/ entry \in GofuzzEntries) => fault = {}
    /\ "deletion" \notin fault

(* A storage.k8s.io object (CSIDriver, StorageClass) is generated and     *)
(* round-tripped only once testing.Init has run in the process: the fuzz  *)
(* functions of that group start with initLocalTest.Do(initTesting),      *)
(* whatever ran before them in the process.                                *)
StorageRoundTripsAfterInit ==
  (/\ status = "running"
   /\ pc \in {"gen", "encode", "decode", "convert", "getbytes"}
   /\ ObjectGroup[fn] = "storage") => TestingInitRan

(* Every FuzzRoundtrip input the length check admits reaches one of the  *)
(* fuzz functions: totalFuncs matches the if-chain, so no first byte      *)
(* selects an index without a branch and is silently thrown away.         *)
LongInputRoundTripped ==
  entry = "FuzzRoundtrip" /\ status # "idle" /\ fn = "none" => Len(rest) < MinDataLen - 1

(* Every fault the library under test produced in a run is reported: a    *)
(* run with a fault never returns normally (spec.md 8, scenario 5: a      *)
(* mismatch of decode(encode(R)) with R is a reportable finding).         *)
FaultsReported == status = "returned" => fault = {}

=============================================================================
