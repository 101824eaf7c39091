------------------------------ MODULE ExportPods ------------------------------
(***************************************************************************)
(* What WorldExports calls a run: the pod that copies the world of one     *)
(* server, the script in it, and the worker that starts the pod, streams   *)
(* the script's output with a time limit, unpacks it and removes the pod.  *)
(*                                                                         *)
(* Worker, cluster and script go on independently of each other: killing   *)
(* kubectl ends neither the pod nor the script, a restart of the API       *)
(* neither, and the game writes to the files while they are copied.  A     *)
(* file is known by its version, which every write makes a new one (its    *)
(* size and mtime); version 0 is no file, or a copy of no one version.     *)
(***************************************************************************)
EXTENDS Integers, FiniteSets

CONSTANTS
    Exports,     \* ids of the exports asked for
    Files,       \* level.dat and the region files the area needs
    Level,       \* level.dat
    Attempts,    \* SNAPSHOT_ATTEMPTS
    None,
    MaxWrites,   \* bound: writes of the game
    MaxFaults,   \* bound: kubectl calls that fail in a behaviour
    MaxCrashes   \* bound: restarts of the API

ASSUME FilesAssumption == Level \in Files
ASSUME AttemptsAssumption == Attempts \in Nat \ {0}
ASSUME ExportsAssumption == IsFiniteSet(Exports) /\ None \notin Exports \cup Files
ASSUME PodBoundAssumption == {MaxWrites, MaxFaults, MaxCrashes} \subseteq Nat

VARIABLES
    world,     \* file -> its version
    status,    \* the rows of world_exports, "none" before the request
    worker,    \* the one thread that runs exports, or the restart's recovery
    pod,       \* world-export-<id>
    script,    \* dsh-world-export in it
    writes, faults, restarts,
    interrupted \* ghost: restarts that hit a recovery

countVars == <<writes, faults, restarts, interrupted>>
vars == <<world, status, worker, pod, script, countVars>>

ACTIVE == {"queued", "running"}

-----------------------------------------------------------------------------

IdleWorker == [pc |-> "idle", export |-> None, ok |-> FALSE, archive |-> "none"]

\* moment is ghost: the world when all files had been looked at and none copied.
NoVersion == [f \in Files |-> 0]
NoScript == [pc |-> "none", sources |-> {}, todo |-> {}, tries |-> 0,
             before |-> NoVersion, copied |-> NoVersion, reading |-> None, same |-> TRUE,
             moment |-> NoVersion]

Init ==
    /\ world \in [Files -> {0, 1}]
    /\ status = [e \in Exports |-> "none"]
    /\ worker = IdleWorker
    /\ pod = [e \in Exports |-> "none"]
    /\ script = [e \in Exports |-> NoScript]
    /\ writes = 0 /\ faults = 0 /\ restarts = 0 /\ interrupted = 0

Working(pc) == worker.pc = pc
Go(pc) == worker' = [worker EXCEPT !.pc = pc]

\* The script ends with its pod.
Ended(e, end) == script' = [script EXCEPT ![e] = [NoScript EXCEPT !.pc = end]]
KilledIn(S) ==
    script' = [e \in Exports |->
        IF e \in S /\ script[e].pc \notin {"none", "done"}
        THEN [NoScript EXCEPT !.pc = "failed"]
        ELSE script[e]]

\* A call of kubectl fails.
Fault == faults < MaxFaults /\ faults' = faults + 1 /\ UNCHANGED <<writes, restarts, interrupted>>

-----------------------------------------------------------------------------
(* The worker: ExportService._run and ClusterBackend.run_world_export *)

\* reserve_export: one active export of a server.
Request(e) ==
    /\ status[e] = "none" /\ \A x \in Exports : status[x] \notin ACTIVE
    /\ worker.pc \notin {"recover", "cleanup"}
    /\ status' = [status EXCEPT ![e] = "queued"]
    /\ UNCHANGED <<world, worker, pod, script, countVars>>

Take(e) ==
    /\ Working("idle") /\ status[e] = "queued"
    /\ status' = [status EXCEPT ![e] = "running"]
    /\ worker' = [IdleWorker EXCEPT !.pc = "apply", !.export = e]
    /\ UNCHANGED <<world, pod, script, countVars>>

\* The network policy, the claim and the pod.  A failure here leaves without
\* deleting the pod, which may be there if only the answer was lost.
ApplyPod ==
    LET e == worker.export
    IN  /\ Working("apply")
        /\ \/ /\ pod' = [pod EXCEPT ![e] = "pending"]
              /\ \/ Go("wait") /\ UNCHANGED countVars
                 \/ Go("finish") /\ Fault
           \/ Go("finish") /\ Fault /\ UNCHANGED pod
        /\ UNCHANGED <<world, status, script>>

\* kubectl wait --timeout: ready in time, or not.
AwaitPod ==
    /\ Working("wait")
    /\ \/ pod[worker.export] = "ready" /\ Go("exec")
       \/ Go("delete")
    /\ UNCHANGED <<world, status, pod, script, countVars>>

Exec ==
    LET e == worker.export
    IN  /\ Working("exec")
        /\ IF pod[e] = "ready"
           THEN /\ script' = [script EXCEPT ![e].pc = "start"]
                /\ Go("stream")
           ELSE Go("delete") /\ UNCHANGED script
        /\ UNCHANGED <<world, status, pod, countVars>>

\* stream_command returns 0: the script came to its end.  What arrived may
\* still have been cut off.
StreamEnds ==
    /\ Working("stream") /\ script[worker.export].pc = "done"
    /\ \/ worker' = [worker EXCEPT !.pc = "unpack", !.archive = "whole"] /\ UNCHANGED countVars
       \/ worker' = [worker EXCEPT !.pc = "unpack", !.archive = "cut"] /\ Fault
    /\ UNCHANGED <<world, status, pod, script>>

\* Another status: the script failed, or its pod is gone.
StreamBreaks ==
    /\ Working("stream")
    /\ \/ script[worker.export].pc = "failed"
       \/ pod[worker.export] # "ready"
    /\ Go("delete")
    /\ UNCHANGED <<world, status, pod, script, countVars>>

\* Mutant: nothing limits the time the stream may take.
NoTimer == Working("stream") /\ UNCHANGED vars

\* The timer kills kubectl; the script does not notice.
StreamTimesOut ==
    /\ Working("stream")
    /\ Go("delete")
    /\ UNCHANGED <<world, status, pod, script, countVars>>

\* Mutant: whatever could be unpacked will do.
UnpackLeniently ==
    /\ Working("unpack")
    /\ worker' = [worker EXCEPT !.pc = "delete", !.ok = TRUE]
    /\ UNCHANGED <<world, status, pod, script, countVars>>

\* extract_export: an archive that ends early, or lacks a file, is refused.
Unpack ==
    /\ Working("unpack")
    /\ worker' = [worker EXCEPT !.pc = "delete", !.ok = worker.archive = "whole"]
    /\ UNCHANGED <<world, status, pod, script, countVars>>

\* The finally of run_world_export, best effort.  (--wait=false: the pod is
\* gone a second later, its terminationGracePeriodSeconds.)
DeletePod ==
    /\ Working("delete") /\ Go("finish")
    /\ \/ /\ pod' = [pod EXCEPT ![worker.export] = "none"]
          /\ KilledIn({worker.export})
          /\ UNCHANGED countVars
       \/ Fault /\ UNCHANGED <<pod, script>>
    /\ UNCHANGED <<world, status>>

\* The result is moved to its place and the row becomes ready, or failed.
Finish ==
    /\ Working("finish")
    /\ status' = [status EXCEPT ![worker.export] = IF worker.ok THEN "ready" ELSE "failed"]
    /\ worker' = IdleWorker
    /\ UNCHANGED <<world, pod, script, countVars>>

-----------------------------------------------------------------------------
(* A restart of the API: recover_interrupted *)

Restart ==
    /\ restarts < MaxCrashes /\ restarts' = restarts + 1
    /\ interrupted' = interrupted + IF Working("cleanup") THEN 1 ELSE 0
    /\ worker' = [IdleWorker EXCEPT !.pc = "recover"]
    /\ UNCHANGED <<world, status, pod, script, writes, faults>>

\* Mutant: only what had not begun is marked.
RecoverQueued ==
    /\ Working("recover")
    /\ status' = [e \in Exports |-> IF status[e] = "queued" THEN "failed" ELSE status[e]]
    /\ Go(IF \E e \in Exports : status[e] \in ACTIVE THEN "cleanup" ELSE "idle")
    /\ UNCHANGED <<world, pod, script, countVars>>

\* Mutant: the rows are marked, and their pods left to the deadline.
RecoverRowsOnly ==
    /\ Working("recover")
    /\ status' = [e \in Exports |-> IF status[e] \in ACTIVE THEN "failed" ELSE status[e]]
    /\ Go("idle")
    /\ UNCHANGED <<world, pod, script, countVars>>

\* Mutant: the update has no condition.
RecoverEveryRow ==
    /\ Working("recover")
    /\ status' = [e \in Exports |-> IF status[e] = "none" THEN "none" ELSE "failed"]
    /\ Go(IF \E e \in Exports : status[e] \in ACTIVE THEN "cleanup" ELSE "idle")
    /\ UNCHANGED <<world, pod, script, countVars>>

\* First every active row, which is what tells whose pods to delete.
RecoverRows ==
    /\ Working("recover")
    /\ status' = [e \in Exports |-> IF status[e] \in ACTIVE THEN "failed" ELSE status[e]]
    /\ Go(IF \E e \in Exports : status[e] \in ACTIVE THEN "cleanup" ELSE "idle")
    /\ UNCHANGED <<world, pod, script, countVars>>

\* delete_world_export_pods, by label.
DeletePods ==
    /\ Working("cleanup") /\ Go("idle")
    /\ \/ /\ pod' = [e \in Exports |-> "none"]
          /\ KilledIn(Exports)
          /\ UNCHANGED countVars
       \/ Fault /\ UNCHANGED <<pod, script>>
    /\ UNCHANGED <<world, status>>

-----------------------------------------------------------------------------
(* The pod *)

podRest == <<world, status, worker, countVars>>

PodStarts(e) ==
    /\ pod[e] = "pending" /\ pod' = [pod EXCEPT ![e] = "ready"]
    /\ UNCHANGED <<script, podRest>>

\* activeDeadlineSeconds, and sleep's own end.
PodDeadline(e) ==
    /\ pod[e] \in {"pending", "ready"} /\ pod' = [pod EXCEPT ![e] = "over"]
    /\ KilledIn({e})
    /\ UNCHANGED podRest

-----------------------------------------------------------------------------
(* The script: export and snapshot, one call of the file system per step.    *)
(* The files are gone through in one order, whichever it is.                 *)

scriptRest == <<world, status, worker, pod, countVars>>

At(e, pc) == script[e].pc = pc /\ pod[e] = "ready"

NextFile(s) == CHOOSE f \in s.todo : TRUE

\* The world must have been created, and with no region file there may not even
\* be a folder of them; the files it has now are those copied.
ListSources(e) ==
    LET sources == {f \in Files : world[f] > 0}
    IN  /\ At(e, "start")
        /\ \/ /\ Level \in sources
              /\ script' = [script EXCEPT ![e].pc = "before",
                                          ![e].sources = sources, ![e].todo = sources]
           \/ /\ Level \notin sources \/ sources = {Level}
              /\ Ended(e, "failed")
        /\ UNCHANGED scriptRest

\* before = {s: _stat(s) for s in sources}
StatBefore(e) ==
    LET s == script[e]
        f == NextFile(s)
        last == s.todo = {f}
    IN  /\ At(e, "before") /\ s.todo # {}
        /\ script' = [script EXCEPT ![e] =
              [s EXCEPT !.before[f] = world[f],
                        !.todo = IF last THEN s.sources ELSE s.todo \ {f},
                        !.pc = IF last THEN "copy" ELSE "before",
                        !.moment = IF last THEN world ELSE s.moment]]
        /\ UNCHANGED scriptRest

\* copyfile, which the game may write under: what is copied then is no version.
OpenSource(e) ==
    LET s == script[e]
        f == NextFile(s)
    IN  /\ At(e, "copy") /\ s.reading = None /\ s.todo # {}
        /\ script' = [script EXCEPT ![e] =
              [s EXCEPT !.reading = f, !.copied[f] = world[f], !.todo = s.todo \ {f}]]
        /\ UNCHANGED scriptRest

CopySource(e) ==
    LET s == script[e]
        f == s.reading
        last == s.todo = {}
    IN  /\ At(e, "copy") /\ f # None
        /\ script' = [script EXCEPT ![e] =
              [s EXCEPT !.reading = None,
                        !.copied[f] = IF world[f] = s.copied[f] THEN world[f] ELSE 0,
                        !.todo = IF last THEN s.sources ELSE s.todo,
                        !.pc = IF last THEN "after" ELSE "copy",
                        !.same = TRUE]]
        /\ UNCHANGED scriptRest

\* Mutant: the file is compared with what it was when the copy was finished.
StatAfterCopyOnly(e) ==
    LET s == script[e]
        f == NextFile(s)
        last == s.todo = {f}
    IN  /\ At(e, "after") /\ s.todo # {}
        /\ script' = [script EXCEPT ![e] =
              [s EXCEPT !.same = s.same /\ world[f] = s.copied[f],
                        !.todo = IF last THEN {} ELSE s.todo \ {f},
                        !.pc = IF last THEN "tools" ELSE "after"]]
        /\ UNCHANGED scriptRest

\* stable = before == {s: _stat(s) for s in sources}; or once more.
StatAfter(e) ==
    LET s == script[e]
        f == NextFile(s)
        last == s.todo = {f}
        same == s.same /\ world[f] = s.before[f]
        again == ~same /\ s.tries + 1 < Attempts
    IN  /\ At(e, "after") /\ s.todo # {}
        /\ script' = [script EXCEPT ![e] =
              [s EXCEPT !.same = same,
                        !.tries = IF last THEN s.tries + 1 ELSE s.tries,
                        !.todo = CASE last /\ again -> s.sources
                                   [] last /\ ~again -> {}
                                   [] OTHER -> s.todo \ {f},
                        !.pc = CASE last /\ again -> "before"
                                 [] last /\ ~again -> "tools"
                                 [] OTHER -> "after"]]
        /\ UNCHANGED scriptRest

\* The exporter, the tiler, the zip and the tar, or one of them failing.
RunTools(e) ==
    /\ At(e, "tools")
    /\ \E end \in {"done", "failed"} : Ended(e, end)
    /\ UNCHANGED scriptRest

-----------------------------------------------------------------------------
(* The game *)

\* The game saves, whenever it runs.
Write(f) ==
    /\ writes < MaxWrites /\ writes' = writes + 1
    /\ world' = [world EXCEPT ![f] = @ + 1]
    /\ UNCHANGED <<status, worker, pod, script, faults, restarts, interrupted>>

-----------------------------------------------------------------------------

Work ==
    \/ \E e \in Exports : Take(e)
    \/ ApplyPod \/ AwaitPod \/ Exec
    \/ StreamEnds \/ StreamBreaks \/ StreamTimesOut \/ Unpack
    \/ DeletePod \/ Finish
    \/ RecoverRows \/ DeletePods

Pods == \E e \in Exports : PodStarts(e) \/ PodDeadline(e)

Script ==
    \E e \in Exports :
        \/ ListSources(e)
        \/ StatBefore(e) \/ OpenSource(e) \/ CopySource(e) \/ StatAfter(e)
        \/ RunTools(e)

Next ==
    \/ \E e \in Exports : Request(e)
    \/ Work \/ Restart
    \/ Pods \/ Script
    \/ \E f \in Files : Write(f)

Spec == Init /\ [][Next]_vars

\* The worker's calls return: kubectl wait and the stream have time limits, the
\* other calls are assumed to end.  Nothing is assumed of pod or script.
FairSpec == Spec /\ WF_vars(Work)

-----------------------------------------------------------------------------
(* Type invariant *)

Versions == [Files -> Nat]
WorkerPcs == {"idle", "apply", "wait", "exec", "stream", "unpack", "delete", "finish",
              "recover", "cleanup"}
Scripts == [pc : {"none", "start", "before", "copy", "after", "tools", "done", "failed"},
            sources : SUBSET Files, todo : SUBSET Files,
            tries : 0 .. Attempts, before : Versions, copied : Versions,
            reading : Files \cup {None}, same : BOOLEAN, moment : Versions]

\* What each variable may hold; a row is running exactly while it is the one
\* the worker works on or a restart has yet to find.
TypeOK ==
    /\ world \in Versions
    /\ status \in [Exports -> {"none", "queued", "running", "ready", "failed"}]
    /\ worker \in [pc : WorkerPcs, export : Exports \cup {None}, ok : BOOLEAN, archive : {"none", "cut", "whole"}]
    /\ worker.pc \notin {"idle", "recover", "cleanup"} =>
          worker.export # None /\ status[worker.export] = "running"
    /\ \A e \in Exports : status[e] = "running" => Working("recover") \/ worker.export = e
    /\ pod \in [Exports -> {"none", "pending", "ready", "over"}]
    /\ script \in [Exports -> Scripts]
    /\ writes \in Nat /\ faults \in Nat /\ restarts \in Nat /\ interrupted \in Nat

-----------------------------------------------------------------------------
(* Safety *)

\* A snapshot called stable is the world as it was at one moment: no file of it
\* was written between then and its copy, none is half of one version and half
\* of the next, whatever the game wrote while the files were gone through three
\* times.  (Files that did not exist when they were listed are not looked for.)
StableIsOneMoment ==
    \A e \in Exports : script[e].pc = "tools" /\ script[e].same =>
        \A f \in script[e].sources : script[e].copied[f] = script[e].moment[f]

\* Only a result that arrived as a whole, of a script that came to its end, is
\* published: not of one whose stream was cut, killed or lost to a restart.
ReadyIsWhole ==
    /\ worker.ok => worker.archive = "whole" /\ script[worker.export].pc = "done"
    /\ \A e \in Exports : status[e] = "ready" => script[e].pc = "done"

\* README: "Exports run one at a time on the whole node".  As far as it goes for
\* their pods: one for the worker, or for a recovery to find, and one for each
\* call of kubectl that failed and each recovery that was interrupted between
\* the rows and their pods.
Live == {e \in Exports : pod[e] \in {"pending", "ready"}}
HasPod == worker.pc \in {"wait", "exec", "stream", "unpack", "delete", "recover", "cleanup"}
PodsAccountedFor ==
    Cardinality(Live) <= (IF HasPod THEN 1 ELSE 0) + faults + interrupted

-----------------------------------------------------------------------------
(* Refinement *)

\* The exports are of one server; the row of one is written when it is asked for.
Promised == INSTANCE ExportLedger WITH
    Keys <- {"server"},
    shown <- [e \in Exports |-> IF status[e] = "none" THEN "unasked" ELSE status[e]],
    whose <- [e \in Exports |-> IF status[e] = "none" THEN None ELSE "server"]

\* The rows keep the promise though the worker, the pod and its script fail or
\* hang apart from each other: an export begins when none is running, ends once,
\* and a restart ends it wherever worker, pod and script were.
KeepsExports == Promised!Spec

-----------------------------------------------------------------------------
(* Liveness, under FairSpec *)

\* An export that was accepted ends, even if its pod never starts and its script
\* never comes to an end: neither holds the node's one worker for ever.
ExportsEnd ==
    \A e \in Exports : status[e] \in ACTIVE ~> status[e] \notin ACTIVE
=============================================================================
