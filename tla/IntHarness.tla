------------------------------ MODULE IntHarness ------------------------------
(***************************************************************************)
(* The fuzz targets whose control flow depends on an integer drawn from   *)
(* the consumer with GetInt:                                               *)
(*   FuzzParseEnv (parser_fuzzer.go)        - a slice length and a loop;  *)
(*   FuzzSyncPod (internal_kubelet_fuzzer.go) - an index into syncTypes;  *)
(*   FuzzConvertToAPIContainerStatuses with createContainerStatuses and    *)
(*   createContainers (internal_kubelet_fuzzer.go) - loop counts % 30;    *)
(* and FuzzStrategicMergePatch (internal_kubelet_fuzzer.go), which cuts    *)
(* its raw input in two at an offset computed from its length.            *)
(* spec.md 4.1: GetInt returns the raw signed integer, negatives included, *)
(* and "callers are expected to reduce via modulo".  Go's % keeps the     *)
(* sign of the dividend, which GoRem models.                               *)
(*                                                                         *)
(* A string read from the consumer is abstracted to <<j>>, the j-th string *)
(* read; the empty string Go's make fills a slice with is <<>>.           *)
(***************************************************************************)
EXTENDS Integers, Sequences

CONSTANTS
  Entries,    \* the fuzz targets checked
  IntVals,    \* the values GetInt may return
  MaxInput,   \* the longest fuzz input checked of the consumer harnesses
  MaxRaw      \* the longest input checked of FuzzStrategicMergePatch

VARIABLES
  entry, pc, status,
  qty,        \* FuzzParseEnv: qty; FuzzSyncPod: syncTypeIndex
  i,          \* loop counter
  spec,       \* FuzzParseEnv: the []string handed to ParseEnv
  strs,       \* every string GetString returned, in order
  count,      \* the GetInt count read by each create* helper
  built,      \* the elements each create* helper appended
  target,     \* what the library under test was called with, or NoCall
  rest, got, ok

vars == <<entry, pc, status, qty, i, spec, strs, count, built, target, rest, got, ok>>
locals == <<qty, i, spec, strs, count, built>>

Cons == INSTANCE ConsumerSpec

Lists == {"statuses", "containers"}
SyncTypes == <<"SyncPodCreate", "SyncPodUpdate", "SyncPodSync", "SyncPodKill">>
Placeholder == <<>>
NoCall == [fn |-> "none"]

GoRem(a, n) == IF a >= 0 THEN a % n ELSE -((-a) % n)

Init ==
  /\ entry \in Entries
  /\ \E n \in 0..(IF entry = "FuzzStrategicMergePatch" THEN MaxRaw ELSE MaxInput) :
       rest = [j \in 1..n |-> 0]
  /\ got = <<>> /\ ok = TRUE
  /\ pc = CASE entry = "FuzzParseEnv" -> "pe_qty"
            [] entry = "FuzzSyncPod"  -> "sp_pod2"
            [] entry = "FuzzStrategicMergePatch" -> "smp"
            [] OTHER                  -> "cv_pod"
  /\ status = "running"
  /\ qty = 0 /\ i = 0 /\ spec = <<>> /\ strs = <<>>
  /\ count = [l \in Lists |-> 0] /\ built = [l \in Lists |-> 0]
  /\ target = NoCall

At(label) == status = "running" /\ pc = label

(* A consumer call that succeeds, continuing at label next.               *)
Got(next) == (\E k \in 1..Len(rest) : Cons!Consume(k)) /\ pc' = next

(* `if err != nil { return }`: every consumer error ends the invocation. *)
ReadFails(label) ==
  /\ At(label)
  /\ Cons!Exhaust
  /\ status' = "returned"
  /\ UNCHANGED <<entry, pc, locals, target>>

Reads == {"pe_qty", "pe_loop", "sp_pod2", "sp_index", "cv_pod", "cv_status",
          "statuses_count", "statuses_loop", "containers_count", "containers_loop",
          "cv_hasInit", "cv_isInit"}

ConsumerError == \E label \in Reads : ReadFails(label)

(***************************************************************************)
(* FuzzParseEnv                                                            *)
(***************************************************************************)
ParseEnvQty ==
  /\ At("pe_qty") /\ Got("pe_make")
  /\ \E v \in IntVals : qty' = v
  /\ UNCHANGED <<entry, status, i, spec, strs, count, built, target>>

(* spec := make([]string, qty, qty): a negative length panics.            *)
ParseEnvMake ==
  /\ At("pe_make")
  /\ IF qty < 0
       THEN status' = "panicked" /\ UNCHANGED <<pc, spec>>
       ELSE spec' = [j \in 1..qty |-> Placeholder] /\ pc' = "pe_loop" /\ UNCHANGED status
  /\ UNCHANGED <<entry, qty, i, strs, count, built, target, rest, got, ok>>

ParseEnvAppend ==
  /\ At("pe_loop") /\ i < qty /\ Got("pe_loop")
  /\ strs' = Append(strs, <<Len(strs) + 1>>)
  /\ spec' = Append(spec, <<Len(strs) + 1>>)
  /\ i' = i + 1
  /\ UNCHANGED <<entry, status, qty, count, built, target>>

ParseEnvCall ==
  /\ At("pe_loop") /\ i >= qty
  /\ target' = [fn |-> "ParseEnv", spec |-> spec]
  /\ status' = "returned"
  /\ UNCHANGED <<entry, pc, locals, rest, got, ok>>

(***************************************************************************)
(* FuzzSyncPod                                                             *)
(***************************************************************************)
SyncPodGenerate ==
  /\ At("sp_pod2") /\ Got("sp_index")
  /\ UNCHANGED <<entry, status, locals, target>>

SyncPodIndex ==
  /\ At("sp_index") /\ Got("sp_sync")
  /\ \E v \in IntVals : qty' = v
  /\ UNCHANGED <<entry, status, i, spec, strs, count, built, target>>

(* syncTypes[syncTypeIndex%len(syncTypes)]: out of range panics.          *)
SyncPodCall ==
  /\ At("sp_sync")
  /\ LET x == GoRem(qty, Len(SyncTypes))
     IN  IF x \in 0..Len(SyncTypes) - 1
           THEN /\ target' = [fn |-> "SyncPod", syncType |-> SyncTypes[x + 1]]
                /\ status' = "returned"
           ELSE status' = "panicked" /\ UNCHANGED target
  /\ UNCHANGED <<entry, pc, locals, rest, got, ok>>

(***************************************************************************)
(* FuzzConvertToAPIContainerStatuses                                       *)
(***************************************************************************)
ConvertGenerate ==
  \/ At("cv_pod") /\ Got("cv_status") /\ UNCHANGED <<entry, status, locals, target>>
  \/ At("cv_status") /\ Got("statuses_count") /\ UNCHANGED <<entry, status, locals, target>>

After(l) == IF l = "statuses" THEN "containers_count" ELSE "cv_hasInit"

(* createContainerStatuses / createContainers: read the count.            *)
CreateCount(l) ==
  /\ At(l \o "_count") /\ Got(l \o "_loop")
  /\ \E v \in IntVals : count' = [count EXCEPT ![l] = v]
  /\ i' = 0
  /\ UNCHANGED <<entry, status, qty, spec, strs, built, target>>

(* `for i := 0; i < n%30; i++`: one GenerateStruct and append per turn.  *)
(* Mutant: the loop condition i <= n%30.                                 *)
CreateElementOffByOne(l) ==
  /\ At(l \o "_loop") /\ i <= GoRem(count[l], 30) /\ Got(l \o "_loop")
  /\ built' = [built EXCEPT ![l] = @ + 1]
  /\ i' = i + 1
  /\ UNCHANGED <<entry, status, qty, spec, strs, count, target>>

CreateElement(l) ==
  /\ At(l \o "_loop") /\ i < GoRem(count[l], 30) /\ Got(l \o "_loop")
  /\ built' = [built EXCEPT ![l] = @ + 1]
  /\ i' = i + 1
  /\ UNCHANGED <<entry, status, qty, spec, strs, count, target>>

CreateDone(l) ==
  /\ At(l \o "_loop") /\ i >= GoRem(count[l], 30)
  /\ pc' = After(l)
  /\ UNCHANGED <<entry, status, locals, target, rest, got, ok>>

ConvertFlags ==
  \/ At("cv_hasInit") /\ Got("cv_isInit") /\ UNCHANGED <<entry, status, locals, target>>
  \/ At("cv_isInit") /\ Got("cv_call") /\ UNCHANGED <<entry, status, locals, target>>

ConvertCall ==
  /\ At("cv_call")
  /\ target' = [fn |-> "convertToAPIContainerStatuses",
                statuses |-> built["statuses"], containers |-> built["containers"]]
  /\ status' = "returned"
  /\ UNCHANGED <<entry, pc, locals, rest, got, ok>>

(***************************************************************************)
(* FuzzStrategicMergePatch: the raw input, byte j abstracted to j.         *)
(***************************************************************************)
Data == [j \in 1..Len(rest) |-> j]

(* data[lo:hi] of Go (0-based, half-open) as a 1-based SubSeq.            *)
Slice(s, lo, hi) == SubSeq(s, lo + 1, hi)

(* original := data[:len(data)/2]; patch := data[(len(data)/2)+1:]        *)
Halves(d) ==
  <<Slice(d, 0, Len(d) \div 2), Slice(d, (Len(d) \div 2) + 1, Len(d))>>

(* Return if len(data) < 10 or odd, else call StrategicMergePatch.        *)
StrategicMergePatch ==
  /\ At("smp")
  /\ IF Len(rest) < 10 \/ Len(rest) % 2 # 0
       THEN UNCHANGED target
       ELSE target' = [fn |-> "StrategicMergePatch",
                       original |-> Halves(Data)[1], patch |-> Halves(Data)[2]]
  /\ status' = "returned"
  /\ UNCHANGED <<entry, pc, locals, rest, got, ok>>

Next ==
  \/ ConsumerError
  \/ StrategicMergePatch
  \/ ParseEnvQty \/ ParseEnvMake \/ ParseEnvAppend \/ ParseEnvCall
  \/ SyncPodGenerate \/ SyncPodIndex \/ SyncPodCall
  \/ ConvertGenerate \/ ConvertFlags \/ ConvertCall
  \/ \E l \in Lists : CreateCount(l) \/ CreateElement(l) \/ CreateDone(l)

Spec == Init /\ [][Next]_vars

-----------------------------------------------------------------------------
TypeOK ==
  /\ status \in {"running", "returned", "panicked"}
  /\ qty \in IntVals \cup {0}
  /\ count \in [Lists -> IntVals \cup {0}]
  /\ built \in [Lists -> 0..MaxInput]
  /\ Len(strs) <= MaxInput

(* The harness itself never panics, whatever integer the consumer         *)
(* returns: a panic would be reported by the fuzz engine as a crash of    *)
(* the library under test.                                                 *)
NoHarnessPanic == status # "panicked"

(* ParseEnv is handed exactly the strings the harness read, in order      *)
(* (the comments: "length of slice: qty", "fill slice with values").      *)
ParseEnvGetsReadStrings ==
  target.fn = "ParseEnv" => target.spec = strs

(* convertToAPIContainerStatuses only ever sees complete lists: as many    *)
(* statuses and containers as the counts read, reduced modulo 30 (none    *)
(* for a negative count); a list cut short by exhausted input is never     *)
(* passed on.                                                              *)
ContainerListsComplete ==
  target.fn = "convertToAPIContainerStatuses" =>
    \A l \in Lists : built[l] = IF count[l] < 0 THEN 0 ELSE count[l] % 30

=============================================================================
