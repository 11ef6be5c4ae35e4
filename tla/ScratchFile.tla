----------------------------- MODULE ScratchFile -----------------------------
(***************************************************************************)
(* The two fuzz targets that pass their input to the library through a    *)
(* file at a fixed path, run by several fuzz workers at once (go test     *)
(* -fuzz runs -parallel workers, libFuzzer -jobs/-workers processes, all  *)
(* on one file system), each worker running invocation after invocation: *)
(*                                                                         *)
(*  FuzzReadLogs (kubelet_fuzzers_test.go): GetBytes, os.Create of        *)
(*    "/tmp/logfile", Write, GenerateStruct(podLogOptions), ReadLogs of   *)
(*    the path, deferred Close; the file is never removed;                *)
(*  FuzzGetLabelsFromYaml (cilium/trace_fuzzer.go): os.Create of          *)
(*    "traceFile", Write(data), GetLabelsFromYaml of the path, deferred   *)
(*    Close, deferred os.Remove of the path.                              *)
(*                                                                         *)
(* The file system is a map from path to inode and from inode to content. *)
(* os.Create truncates the file the path names or creates one; a write    *)
(* through a fresh descriptor overwrites from offset 0; the library opens *)
(* the path by name and reads it to its end.  The input written by run r  *)
(* of worker w is abstracted to a sequence of copies of the token <<w, r>>.*)
(*                                                                         *)
(* ReadLogs, of the kubelet logs package, reads to the end of the file;   *)
(* without Follow it returns, with Follow it returns only once the fake   *)
(* runtime reports the container not running, and otherwise waits for    *)
(* the container to stop (the harness's comment, line 67).                *)
(*                                                                         *)
(* A worker process may also be killed in the middle of an invocation    *)
(* (the engine's -timeout or -rss_limit_mb, an OOM kill): Go runs no      *)
(* deferred call, the kernel closes the descriptor, and the file stays    *)
(* as the killed invocation left it; the engine (libFuzzer -fork,         *)
(* ClusterFuzz) then runs the next input in a fresh process.              *)
(***************************************************************************)
EXTENDS Integers, Sequences, FiniteSets

CONSTANTS
  Workers,    \* the fuzz workers
  Target,     \* Target[w]: the fuzz target worker w runs
  MaxRuns,    \* invocations per worker
  DataLens    \* lengths of the input an invocation writes

Targets == {"FuzzReadLogs", "FuzzGetLabelsFromYaml"}
PathOf == [t \in Targets |-> IF t = "FuzzReadLogs" THEN "/tmp/logfile" ELSE "traceFile"]
Paths == {PathOf[t] : t \in Targets}
Inodes == 1..(Cardinality(Workers) * MaxRuns)
NoFile == 0
NotRead == [r |-> "none", d |-> <<>>]
Missing == [r |-> "ENOENT", d |-> <<>>]
Data(s) == [r |-> "data", d |-> s]

ASSUME Target \in [Workers -> Targets] /\ MaxRuns \in Nat \ {0}
ASSUME DataLens \subseteq Nat \ {0}

VARIABLES
  path,       \* path -> the inode it names, or NoFile
  content,    \* inode -> its bytes
  nextInode,  \* the next inode os.Create allocates
  pc, run,
  len,        \* the length of this invocation's input
  fd,         \* the inode the invocation's *os.File refers to, or NoFile
  follow,     \* FuzzReadLogs: podLogOptions.Follow
  exited,     \* FuzzReadLogs: the fake container is not running
  seen,       \* what the library read from the path, if it did
  killed      \* the workers one of whose invocations was killed

vars == <<path, content, nextInode, pc, run, len, fd, follow, exited, seen, killed>>

Own(w) == [j \in 1..len[w] |-> <<w, run[w]>>]
P(w) == PathOf[Target[w]]
First(w) == IF Target[w] = "FuzzReadLogs" THEN "get" ELSE "create"

(* A write of t at offset 0 over the content s.                            *)
Overwrite(s, t) ==
  [j \in 1..(IF Len(s) > Len(t) THEN Len(s) ELSE Len(t)) |->
     IF j <= Len(t) THEN t[j] ELSE s[j]]

Init ==
  /\ path = [p \in Paths |-> NoFile]
  /\ content = [i \in Inodes |-> <<>>]
  /\ nextInode = 1
  /\ pc = [w \in Workers |-> First(w)]
  /\ run = [w \in Workers |-> 1]
  /\ len \in [Workers -> DataLens]
  /\ fd = [w \in Workers |-> NoFile]
  /\ follow = [w \in Workers |-> FALSE]
  /\ exited = [w \in Workers |-> FALSE]
  /\ seen = [w \in Workers |-> NotRead]
  /\ killed = {}

Goto(w, l) == pc' = [pc EXCEPT ![w] = l]

(* FuzzReadLogs: logFileBytes, err := fdp.GetBytes(); return on error.     *)
GetBytes(w) ==
  /\ pc[w] = "get"
  /\ \/ Goto(w, "create")
     \/ Goto(w, "done")
  /\ UNCHANGED <<path, content, nextInode, run, len, fd, follow, exited, seen, killed>>

(* The deferred calls an invocation that returns at its label runs: the   *)
(* Close registered after a successful os.Create, the os.Remove that       *)
(* FuzzGetLabelsFromYaml defers before it.                                 *)
Deferred(w, opened) ==
  CASE opened                                -> "close"
    [] Target[w] = "FuzzGetLabelsFromYaml"   -> "remove"
    [] OTHER                                 -> "done"

(* Mutant: the file opened for writing without O_TRUNC.                   *)
CreateNoTrunc(w) ==
  /\ pc[w] = "create"
  /\ IF path[P(w)] = NoFile
       THEN /\ path' = [path EXCEPT ![P(w)] = nextInode]
            /\ fd' = [fd EXCEPT ![w] = nextInode]
            /\ nextInode' = nextInode + 1
       ELSE /\ fd' = [fd EXCEPT ![w] = path[P(w)]]
            /\ UNCHANGED <<path, nextInode>>
  /\ Goto(w, "write")
  /\ UNCHANGED <<content, run, len, follow, exited, seen, killed>>

(* os.Create(path): truncate the file the path names, or create one; on   *)
(* error return.                                                           *)
Create(w) ==
  /\ pc[w] = "create"
  /\ \/ /\ IF path[P(w)] = NoFile
             THEN /\ path' = [path EXCEPT ![P(w)] = nextInode]
                  /\ fd' = [fd EXCEPT ![w] = nextInode]
                  /\ nextInode' = nextInode + 1
                  /\ UNCHANGED content
             ELSE /\ content' = [content EXCEPT ![path[P(w)]] = <<>>]
                  /\ fd' = [fd EXCEPT ![w] = path[P(w)]]
                  /\ UNCHANGED <<path, nextInode>>
        /\ Goto(w, "write")
     \/ /\ Goto(w, Deferred(w, FALSE))
        /\ UNCHANGED <<path, content, nextInode, fd>>
  /\ UNCHANGED <<run, len, follow, exited, seen, killed>>

(* Mutant: os.Remove called at the end of the function, not deferred, so  *)
(* the early return after a failed Write skips it.                         *)
WriteNoCleanup(w) ==
  /\ pc[w] = "write"
  /\ \/ /\ content' = [content EXCEPT ![fd[w]] = Overwrite(@, Own(w))]
        /\ Goto(w, IF Target[w] = "FuzzReadLogs" THEN "gen" ELSE "read")
     \/ /\ \E k \in 0..len[w] - 1 :
             content' = [content EXCEPT ![fd[w]] = Overwrite(@, SubSeq(Own(w), 1, k))]
        /\ Goto(w, IF Target[w] = "FuzzReadLogs" THEN "close" ELSE "done")
  /\ UNCHANGED <<path, nextInode, run, len, fd, follow, exited, seen, killed>>

(* f.Write(input) through the invocation's own descriptor; a failed write *)
(* (ENOSPC, EIO) may have written a prefix, and the harness returns.       *)
Write(w) ==
  /\ pc[w] = "write"
  /\ \/ /\ content' = [content EXCEPT ![fd[w]] = Overwrite(@, Own(w))]
        /\ Goto(w, IF Target[w] = "FuzzReadLogs" THEN "gen" ELSE "read")
     \/ /\ \E k \in 0..len[w] - 1 :
             content' = [content EXCEPT ![fd[w]] = Overwrite(@, SubSeq(Own(w), 1, k))]
        /\ Goto(w, Deferred(w, TRUE))
  /\ UNCHANGED <<path, nextInode, run, len, fd, follow, exited, seen, killed>>

(* Mutant: the container left running whatever podLogOptions.Follow is.  *)
GenerateOptionsRunning(w) ==
  /\ pc[w] = "gen"
  /\ \/ \E f \in BOOLEAN : follow' = [follow EXCEPT ![w] = f] /\ Goto(w, "readlogs")
     \/ Goto(w, "close") /\ UNCHANGED follow
  /\ UNCHANGED <<path, content, nextInode, run, len, fd, exited, seen, killed>>

(* GenerateStruct(podLogOptions), returning on error (the deferred Close  *)
(* runs); then the fake runtime, its container marked exited iff Follow. *)
GenerateOptions(w) ==
  /\ pc[w] = "gen"
  /\ \/ \E f \in BOOLEAN : /\ follow' = [follow EXCEPT ![w] = f]
                           /\ exited' = [exited EXCEPT ![w] = f]
                           /\ Goto(w, "readlogs")
     \/ Goto(w, "close") /\ UNCHANGED <<follow, exited>>
  /\ UNCHANGED <<path, content, nextInode, run, len, fd, seen, killed>>

(* What opening the path by name and reading it to its end yields.        *)
ReadPath(w) == IF path[P(w)] = NoFile THEN Missing ELSE Data(content[path[P(w)]])

(* logs.ReadLogs(..., "/tmp/logfile", ...): read the file; at its end,    *)
(* return unless Follow is set and the container is still running, in     *)
(* which case it waits for the container to stop ("wait" has no step:     *)
(* the fake container never stops by itself).                             *)
ReadLogs(w) ==
  /\ pc[w] = "readlogs"
  /\ seen' = [seen EXCEPT ![w] = ReadPath(w)]
  /\ Goto(w, IF follow[w] /\ ~exited[w] /\ ReadPath(w) # Missing THEN "wait" ELSE "close")
  /\ UNCHANGED <<path, content, nextInode, run, len, fd, follow, exited, killed>>

(* GetLabelsFromYaml("traceFile"): open by name and read.                 *)
GetLabelsFromYaml(w) ==
  /\ pc[w] = "read"
  /\ seen' = [seen EXCEPT ![w] = ReadPath(w)]
  /\ Goto(w, "close")
  /\ UNCHANGED <<path, content, nextInode, run, len, fd, follow, exited, killed>>

(* The deferred f.Close().                                                *)
Close(w) ==
  /\ pc[w] = "close"
  /\ fd' = [fd EXCEPT ![w] = NoFile]
  /\ Goto(w, IF Target[w] = "FuzzReadLogs" THEN "done" ELSE "remove")
  /\ UNCHANGED <<path, content, nextInode, run, len, follow, exited, seen, killed>>

(* The deferred os.Remove("traceFile"): unlinks whatever the path names.  *)
Remove(w) ==
  /\ pc[w] = "remove"
  /\ path' = [path EXCEPT ![P(w)] = NoFile]
  /\ Goto(w, "done")
  /\ UNCHANGED <<content, nextInode, run, len, fd, follow, exited, seen, killed>>

(* The engine hands the worker its next input, or the worker stops.       *)
NextRun(w) ==
  /\ pc[w] = "done" /\ run[w] < MaxRuns
  /\ run' = [run EXCEPT ![w] = @ + 1]
  /\ \E n \in DataLens : len' = [len EXCEPT ![w] = n]
  /\ follow' = [follow EXCEPT ![w] = FALSE]
  /\ exited' = [exited EXCEPT ![w] = FALSE]
  /\ seen' = [seen EXCEPT ![w] = NotRead]
  /\ Goto(w, First(w))
  /\ UNCHANGED <<path, content, nextInode, fd, killed>>

Finish(w) ==
  /\ pc[w] = "done" /\ run[w] = MaxRuns
  /\ Goto(w, "finished")
  /\ UNCHANGED <<path, content, nextInode, run, len, fd, follow, exited, seen, killed>>

Step(w) ==
  \/ GetBytes(w) \/ Create(w) \/ Write(w) \/ GenerateOptions(w) \/ ReadLogs(w)
  \/ GetLabelsFromYaml(w) \/ Close(w) \/ Remove(w) \/ NextRun(w) \/ Finish(w)

(* The process is killed inside an invocation that has begun: no deferred *)
(* Close or Remove runs; the kernel releases the descriptor.              *)
Kill(w) ==
  /\ pc[w] \in {"write", "gen", "readlogs", "wait", "read", "close", "remove"}
  /\ killed' = killed \cup {w}
  /\ fd' = [fd EXCEPT ![w] = NoFile]
  /\ Goto(w, "done")
  /\ UNCHANGED <<path, content, nextInode, run, len, follow, exited, seen>>

Next == \E w \in Workers : Step(w) \/ Kill(w)

(* Each worker is a process or goroutine the OS keeps scheduling; a kill  *)
(* is a fault, never something the schedule must eventually do.           *)
Spec == Init /\ [][Next]_vars /\ \A w \in Workers : WF_vars(Step(w))

-----------------------------------------------------------------------------
TypeOK ==
  /\ path \in [Paths -> Inodes \cup {NoFile}]
  /\ pc \in [Workers -> {"get", "create", "write", "gen", "readlogs", "wait", "read",
                         "close", "remove", "done", "finished"}]
  /\ run \in [Workers -> 1..MaxRuns]
  /\ fd \in [Workers -> Inodes \cup {NoFile}]
  /\ nextInode \in 1..Cardinality(Inodes) + 1
  /\ killed \subseteq Workers

(* The library under test reads back exactly the input this invocation    *)
(* wrote to the scratch file: not an earlier invocation's leftovers, not  *)
(* another worker's input, not an empty or missing file, and not what an  *)
(* invocation killed before its deferred Remove left behind.  A crash     *)
(* found by the fuzzer is otherwise not reproducible from its input.      *)
OwnInputRead ==
  \A w \in Workers : seen[w] # NotRead => seen[w] = Data(Own(w))

(* Once every FuzzGetLabelsFromYaml invocation has returned (or not yet   *)
(* begun), traceFile is gone: the os.Remove deferred before os.Create     *)
(* runs on every return path, the early ones after a failed Create or     *)
(* Write included; only a killed invocation, whose deferred calls never   *)
(* run, can leave the file for a later os.Create to find.                 *)
TraceFileRemoved ==
  LET tracers == {w \in Workers : Target[w] = "FuzzGetLabelsFromYaml"}
  IN  (\A w \in tracers : pc[w] \in {"create", "done", "finished"}) /\ tracers \cap killed = {}
        => path["traceFile"] = NoFile

(* Every invocation of FuzzReadLogs returns, Follow or not, so every      *)
(* worker gets through all its inputs (the reason for lines 67-70).       *)
AllRunsFinish == \A w \in Workers : <>(pc[w] = "finished")

=============================================================================
