# TLA+ models of the cncf-fuzzing harnesses

The repository under `src/projects/` holds fuzz harnesses, not the systems they fuzz.
Each harness receives a byte buffer from the fuzz engine (Go native fuzzing or
libFuzzer). It turns the buffer into typed arguments and calls one library
function: Kubernetes validation, deployment utilities, parsers, kubelet internals,
codecs, AES transformers, log reading, or cilium's trace labels. A library crash is
the result the engine reports. What can go wrong is therefore the harnesses' own
logic:

- which function an input reaches;
- whether the arguments really come from the input;
- whether the harness crashes on its own;
- whether library faults are reported or swallowed;
- what parallel fuzz workers do to files they share.

These modules check those things.

## Inventory

| Part | Source | State | Operations | Interacts with |
|---|---|---|---|---|
| Structured consumer (go-fuzz-headers, external; spec.md 4.1) | used by every harness | the buffer and a cursor | GetBool, GetInt, GetString, GetBytes, GenerateStruct, CreateSlice, FuzzMap; a failed read leaves it Exhausted | every consumer harness |
| FuzzAllValidation dispatcher | `validation_fuzzers_test.go` | none | drops inputs of fewer than 10 bytes; `data[0] % 50` selects one of 50 harness functions, which gets `data[1:]` | 46 distinct harness functions |
| FuzzEntireDeploymentUtil | `deployment_util_fuzzer.go` | `functionsToCall` | `data[0] % 24` through a name table | 24 harness functions |
| Straight-line harnesses (validation, deployment util, parsers, HandlePodCleanups, MakeEnvironmentVariables, KubeRuntime) | those files | locals | reads, each followed by `if err != nil { return }`; library calls, some checked | consumer, library |
| Integer-driven harnesses: FuzzParseEnv, FuzzSyncPod, FuzzConvertToAPIContainerStatuses (`createContainers`, `createContainerStatuses`) | `parser_fuzzer.go`, `internal_kubelet_fuzzer.go` | the counts and indices read, loop counters | `make`, slice indexing, loops of `count % 30` | consumer, library |
| FuzzStrategicMergePatch | `internal_kubelet_fuzzer.go` | none | cuts the raw input into original and patch | library |
| FuzzReadLogs | `kubelet_fuzzers_test.go` | `/tmp/logfile` on disk; the fake runtime's container state | GetBytes, Create, Write, GenerateStruct, marks the container exited iff Follow, ReadLogs, deferred Close | file system, other workers |
| FuzzGetLabelsFromYaml (cilium) | `cilium/trace_fuzzer.go` | `traceFile` on disk | Create, Write, GetLabelsFromYaml by path, deferred Close and Remove | file system, other workers |
| FuzzRoundtrip, prepAndDoRoundtrip, roundTrip | `roundtrip_fuzzer.go` | `initLocalTest` (sync.Once), per process | length check, `op % 39`, storage kinds call `initLocalTest.Do`; GenerateStruct; Encode (on error return the object), Decode and Convert (panic on error); result discarded; GetBytes; two raw Decodes | codec, consumer |
| FuzzAesRoundtrip | `aes_fuzzers_test.go` | none | key and plaintext (return if empty), NewCipher, GCM or CBC via GetBool; GCM errors panic, the CBC error is dropped | AES transformers |
| gofuzz round-trip targets | `gofuzz-fuzzers.go` | `initter` (sync.Once) | `initter.Do(initForFuzzing)`; seed apimachinery's fuzzer with the raw bytes; FuzzKubeletSchemeRoundtrip builds a scheme (return on error); call apimachinery's round-trip test, which fails `t` on any fault | apimachinery |
| FuzzHandlePodCleanups' checks | `internal_kubelet_fuzzer.go:163-192` | none | GenerateStruct(pod); HandlePodCleanups; panic unless exactly `[pod.ID]` was deleted; `AssertKilledPods(nil)`, whose error is discarded | kubelet |

Behaviours that are hard to test:

- Parallel fuzz workers share `/tmp/logfile` and `traceFile`.
- A worker runs input after input, so leftovers of one run are visible to the next.
- A failed Create or Write returns early; the deferred Close and Remove must still run.
- Negative raw integers from `GetInt` reach `make`, indexing and `% 30` loops.
- Partial lists are returned together with an error.
- Library faults are reported only by panicking, and some are discarded.
- A ReadLogs with Follow set returns only once the container has stopped.
- sync.Once fires once per process, so only the first input of a process initialises.

Three files do not compile as written:

- `deployment_util_fuzzer.go:100` has no colon after a `case`.
- `gofuzz-fuzzers.go:87` closes `f.Fuzz(` with `}` instead of `})`.
- `kubelet_fuzzers_test.go:75` calls `klog.Background()` without importing `klog`.

The models follow the evident intent of all three.

## Modules

**`ConsumerSpec`** is the abstract consumer: what the consumer promises. The input is a stream `rest`. A successful call consumes a non-empty prefix of it (`Consume(k)`). A failed call drains it (`Exhaust`). The harness modules instance it, over an input of zero bytes, because only the amount left decides which reads succeed.

**`Consumer`** is the byte-level consumer, modelled from spec.md because the library is not in this repository:
- The state is `buf`, `cursor`, `got` and `ok`.
- Each operation is a pure operator of buffer and cursor.
- `GetInt` reads `IntWidth` bytes, little-endian, two's complement.
- Length prefixes and counts are reduced with `v % (remaining + 1)`.
- A struct reports partial fields once one field has been filled.
- Every result carries `whole`: whether the value was read completely.
- Slices and maps stop short without an error, at the last whole element; a partial element is dropped.
- `MapOf` folds the entries read into a function, a later entry overwriting an earlier one with the same key (Go map assignment). No property is spent on it: it is the assignment loop itself.
- A failure moves the cursor to the end, so Exhausted is terminal.
- `Abstract == INSTANCE ConsumerSpec WITH rest <- SubSeq(buf, cursor+1, Len(buf))` is the refinement mapping.

**`HarnessTables`** gives every straight-line harness function as the sequence of its steps:
- a consumer read into a named local;
- a library call with the locals it uses;
- a checked call, which returns early on error and yields outputs.

The records correspond to the Go functions one for one. For example, `Two("pod1","pod2","ValidatePodUpdate")` is `fuzzValidatePodUpdate`.

**`Harness`** models one invocation of those targets:
- `Init` is the dispatcher. It checks the length, picks the function with `data[0] % 50` (`ValidationOps`) or through `functionsToCall`, and builds the consumer on `data[1:]`. `ValidationFunc` is the if-chain as written: an index with no branch (`Unused`) or past its end calls nothing. `op` keeps FuzzAllValidation's index.
- `ReadOk` and `ReadExhausted` are a read and its `if err != nil { return }`.
- `CallReturns` and `CallFails` are a library call. `CallFails` applies only to checked calls.
- `Return` is the final `return`.
- The assumption `DispatchReachesEveryHarness` checks the dispatch tables. Every function is named by them, and only indices 27..30 of FuzzAllValidation's chain have no branch.

**`IntHarness`** models the harnesses whose control flow depends on a number:
- **FuzzParseEnv:** `ParseEnvQty`, `ParseEnvMake`, `ParseEnvAppend`, `ParseEnvCall`.
- **FuzzSyncPod:** `SyncPodGenerate`, `SyncPodIndex`, `SyncPodCall`. `GoRem` is Go's `%`, which keeps the sign of the dividend.
- **FuzzConvertToAPIContainerStatuses:**
  - `ConvertGenerate`, `ConvertFlags` and `ConvertCall` model the harness's own steps.
  - `CreateCount`, `CreateElement` and `CreateDone` model each create\* helper.
- **FuzzStrategicMergePatch:** `StrategicMergePatch`, with `Halves` translating Go's 0-based half-open slices.
- **All of them:** `ReadFails` is every consumer error. GetInt values come from the constant set `IntVals`.

**`ScratchFile`** models several fuzz workers running FuzzReadLogs or FuzzGetLabelsFromYaml, with several runs each:
- The file system maps `path` to an inode and `content` maps each inode to its data. `os.Create` truncates or creates the file.
- A write through a fresh descriptor overwrites from offset 0. The library opens the path by name.
- The input of run r of worker w is a sequence of tokens `<<w, r>>`, so a read of someone else's data is visible.
- `GenerateOptions` includes the harness's marking of the container as exited when Follow is set (lines 67-70).
- `ReadLogs` waits forever if Follow is set and the container is running.
- `NextRun` and `Finish` are the engine handing the worker its next input.
- `Kill` is the fault model: the worker process is killed inside an invocation (the engine's timeout or memory limit, an OOM kill). No deferred Close or Remove runs, the kernel releases the descriptor, the file keeps what the killed run wrote, and the next input runs in a fresh process (`killed` records whose). It is the fuzz engine's action, with no line of the harness, so the map leaves it out. A library panic needs no action of its own: Go runs the deferred calls while unwinding, which is the early-return path already modelled.

**`RoundTrip`** models the runs of one worker process over the targets that check their library's result: FuzzRoundtrip, FuzzAesRoundtrip, the gofuzz targets, and FuzzHandlePodCleanups:
- The libraries are opaque. Encode, Decode, Convert, the transformers, apimachinery's round-trip test and HandlePodCleanups each return any of their outcomes, a wrong result included.
- `fault` records the wrong results of the current run. A harness reports a fault by panicking (status `panicked`) or by failing `t` (status `failed`).
- `RoundtripOps` is the 39-branch switch of `prepAndDoRoundtrip` by index, and `ObjectGroup` the API group of the object each fuzz function allocates. An `ASSUME` checks that every fuzz function is reached and that only fuzzCoreV1Endpoints is reached twice (indices 19 and 23).
- `CallsInit` is the four storage fuzz functions, which call `initLocalTest.Do(initTesting)` first. `OnceDo` is `sync.Once.Do`: a per-process `done`, which persists across runs. There are two Onces, `initLocalTest` and gofuzz's `initter`.
- `RoundtripFunc` is the if-chain as written: `op % totalFuncs` selects a branch, and an index with no branch calls nothing. `b` ranges over all 256 first bytes for FuzzRoundtrip (`FirstBytes`), so an index without a branch would be reached.
- The gofuzz targets never return early for lack of input: bytesource falls back to a PRNG.
- `HandlePodCleanups` is the call and both checks after it: a wrong deletion panics, a killed pod is recorded as a fault but `AssertKilledPods`' error is never read.

## Runs

| Run | Expect | What it shows |
|---|---|---|
| `consumer_refinement` | pass | `Consumer` implements `ConsumerSpec` (`ConsumerRefinesSpec`). This covers buffers of up to 8 bytes over {0, 1, 255}, 2-byte integers, and four record shapes: pointer, nested slice, slice of structs, map. `TypeOK`: the cursor stays within the buffer. `SliceLengthMatchesReference`: for every buffer and cursor, a slice of fixed-width elements has exactly min(clamped count, whole elements left) elements, the spec's rule computed independently by `Width`. |
| `harness_straightline` | pass | `ArgsFromInput`: every library call gets only locals filled earlier in the same invocation. This covers every dispatched and stand-alone straight-line harness, with inputs up to 11 bytes and every first byte, and excludes the CSR approval harness. `ValidationInputDispatched`: every FuzzAllValidation input of at least 10 bytes runs a harness function unless its index is one of the unused 27..30 (a `maxFuzzers` of 51 would drop the inputs selecting index 50). |
| `harness_csr_approval` | violation | `ArgsFromInput` fails for `fuzzValidateCertificateSigningRequestApprovalUpdate`: `csr2` is never generated. |
| `int_harness` | pass | `ContainerListsComplete`: convertToAPIContainerStatuses gets lists as long as the counts reduced modulo 30, and no list for a negative count. |
| `parseenv_negative_qty` | violation | `NoHarnessPanic`: `make([]string, qty, qty)` panics for qty = -31. |
| `syncpod_negative_index` | violation | `NoHarnessPanic`: the index `syncTypeIndex % 4` is negative. |
| `parseenv_spec_contents` | violation | `ParseEnvGetsReadStrings`: for qty = 1, ParseEnv gets `["", s1]`. |
| `scratch_file` | pass | There is one worker per target with three runs each, and Create and Write may fail (a failed Write may leave a prefix). `OwnInputRead`: the library reads back exactly the run's own input, and truncation hides a longer earlier run. Worker processes may be killed mid-run. `TraceFileRemoved`: once no FuzzGetLabelsFromYaml worker is inside a run and none was killed, `traceFile` does not exist, on the error paths too; after a kill the file survives, and `OwnInputRead` shows the next run still reads only its own input, thanks to os.Create's truncation. `AllRunsFinish` holds because a kill is never required of the schedule. `AllRunsFinish`: every worker gets through its runs, under weak fairness for each worker. |
| `scratch_logfile_shared` | violation | `OwnInputRead`: two FuzzReadLogs workers, where ReadLogs reads a file truncated or overwritten by the other worker. The same race on `traceFile`, where a deferred `Remove` can also unlink the other worker's file, has no run: `scratch_file` gives each path one worker. |
| `roundtrip` | pass | One process running all of FuzzRoundtrip, FuzzAesRoundtrip, FuzzKubeletSchemeRoundtrip, FuzzRoundTripType and FuzzHandlePodCleanups. `NoFalseAlarm`: a panic or failure always stems from a library fault. `CheckedFaultsReported`: every AES-GCM and gofuzz fault, and any wrong pod deletion, ends the run. `StorageRoundTripsAfterInit`: a storage object is never generated or round-tripped before initTesting has run, whatever the order of inputs. `LongInputRoundTripped`: every FuzzRoundtrip input of at least 10 bytes reaches a fuzz function, whatever its first byte (a `totalFuncs` of 40 would drop the inputs selecting index 39). |
| `roundtrip_object_mismatch` | violation | `FaultsReported`: a Decode or Convert that returns a different object goes unreported, contrary to spec.md scenario 5. |
| `roundtrip_aes_cbc` | violation | `FaultsReported`: a CBC transform error is dropped. |

Every property of a passing run has a mutant in `PROJECT.json`. A mutant is a plausible bug in the modelled code that makes TLC find the property violated. Examples are an unclamped length prefix, a copy-pasted GenerateStruct target, a loop bound off by one, a create without O_TRUNC, and the Follow guard removed.

### Bounds

- **Consumer:** 8 bytes. Six are enough for a 2-byte length prefix followed by a read that fits and one that does not. It also allows a pointer flag followed by a field, and a slice whose count exceeds what is left. The byte values 0, 1 and 255 give both parities for the bool and pointer flags, and positive, negative and zero integers. The other two let FuzzMap, with a 2-byte count and entries of at least 3 bytes, read two entries with the same key.
- **Harness:** 11 bytes is one above the dispatch threshold, so inputs of 9, 10 and 11 bytes reach the dispatched functions. All 256 first bytes are enumerated.
- **IntHarness:**
  - The GetInt values {-31, -1, 0, 1, 2, 31} give both signs and zero.
  - They include values on either side of the modulus 30 and all four residues of `% 4`.
  - Inputs up to 8 bytes let one container status and one container be built.
  - Inputs up to 13 bytes let FuzzStrategicMergePatch pass its length checks with 10 and 12 bytes.
- **ScratchFile:** two workers with three runs each in the passing run (two in the violation run), and inputs of 1 or 2 bytes. Two workers are the least that can race. A second run with a shorter input is the least that can expose leftovers; a third lets a killed run, a failed Write and a read follow one another on the same file.
- **RoundTrip:** two runs per process, so a second storage round trip meets a fired Once and a gofuzz input can follow a FuzzRoundtrip input. Inputs go up to 12 bytes.

### Fairness

Only `ScratchFile` states liveness. It assumes weak fairness of each worker's step, and none of `Kill`, which is a fault the environment may or may not inject. Each fuzz worker is a process or goroutine the OS keeps scheduling. Nothing in a harness blocks except ReadLogs' wait, and that wait is exactly what the property is about.

## Not modelled

- The libraries under test.
- The byte encoding of the real go-fuzz-headers, which is an assumption documented in `Consumer`.
- The bytesource seeding of the gofuzz targets, an opaque step because it never runs out.
- The contents of the 39 objects of FuzzRoundtrip and their group versions; only their API group is kept.
- No run checks that `AssertKilledPods`' error goes unread. `HandlePodCleanups` models it, but it is the same dropped-result pattern `roundtrip_aes_cbc` shows.
- The byte bias of `% 50` and `% 24` over 256 byte values. This is a fact of the tables.
- No property about the halves of FuzzStrategicMergePatch. `Halves` models both slices exactly, and the patch starts one byte past the middle, so byte len/2 is never used. A property about that would only restate the two slice bounds.
- Library panics, which the engine reports whatever the harness does; in ScratchFile their deferred calls are those of the modelled early returns.
- The body of `FuzzLoadPolicyFromBytes`, which FuzzAllValidation calls for op 40 but this repository does not define; it is an opaque call on `data[1:]`.
- A composed model of one worker process running several targets input after input, beyond `RoundTrip`: the only state that outlives an input is the two sync.Once values and the scratch files, and `RoundTrip` and `ScratchFile` already run several targets and inputs in one process.

What the map leaves out of the source is package clauses, imports, comments and the duplicate bodies of `createContainers` (the same actions as `createContainerStatuses`, one parameter apart); there is no further harness code to model.

## Plan

1. **Done:**
   - `ConsumerSpec` and `Consumer`, with the refinement between them.
   - The straight-line harnesses and both dispatchers.
   - The integer-driven harnesses.
   - The shared scratch files with repeated runs and the ReadLogs liveness.
   - The round-trip and AES harnesses with the sync.Once.
   - The gofuzz round-trip targets and their `initter` Once; FuzzRoundtrip's dispatch table and object groups.
   - CreateSlice element counts checked against a reference.
   - The scratch files' Create and Write error paths.
   - FuzzHandlePodCleanups' own checks.
   - Worker processes killed mid-run in ScratchFile; FuzzRoundtrip's dispatch over all 256 first bytes.
   - FuzzAllValidation's if-chain without else, checked for dropped inputs.
2. **Next:**
   - Three workers in ScratchFile, two on one target, once a run can afford the state space; the violation run already shows what two workers on one path do.
