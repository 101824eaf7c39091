----------------------------- MODULE ServerStates -----------------------------
(***************************************************************************)
(* What state a server is in, and what a wake does about it.               *)
(*                                                                         *)
(* Nothing keeps the state of a created server: every request reads it     *)
(* from the StatefulSet, its pods and the wrapper's own answer.  A wake    *)
(* asks them in another order than a GET.  Times are in seconds.           *)
(***************************************************************************)
EXTENDS Integers

STATES == {"provisioning", "asleep", "waking", "awake", "stopped", "failed", "deleting"}
ROW_STATES == {"provisioning", "ready", "failed", "deleting"}
FAILING_REASONS == {"CrashLoopBackOff", "ImagePullBackOff", "ErrImagePull", "Error", "OOMKilled"}
WAKE_GRACE == 180

\* wrapper_status: no answer, or whether the game process runs.
Answers == {"none", "running", "not running"}

-----------------------------------------------------------------------------
(* The cluster's reading.  A pod is its phase, the reasons its containers     *)
(* wait for, and its creation time as a set, empty when it cannot be read.    *)

PodFails(p) == p.phase = "Failed" \/ p.waiting \cap FAILING_REASONS # {}

\* When the server was last scaled up: the creation of its oldest pod.
Oldest(pods) ==
    LET times == UNION {p.created : p \in pods}
    IN  {t \in times : \A u \in times : t <= u}

NoStatefulSet == [exists |-> FALSE, replicas |-> 0, ready |-> 0, failing |-> FALSE, scaled |-> {}]

\* The pods are asked for only when there should be some.
StatefulSetStatus(replicas, ready, pods) ==
    [exists |-> TRUE, replicas |-> replicas, ready |-> ready,
     failing |-> replicas # 0 /\ \E p \in pods : PodFails(p),
     scaled |-> IF replicas = 0 THEN {} ELSE Oldest(pods)]

\* What statefulset_status may return.
Statuses ==
    [exists : BOOLEAN, replicas : Nat, ready : Nat, failing : BOOLEAN, scaled : SUBSET Int]

StsState(s) ==
    IF ~s.exists \/ s.failing THEN "failed"
    ELSE IF s.replicas = 0 THEN "asleep"
    ELSE IF s.ready >= 1 THEN "awake" ELSE "waking"

\* A game that does not run in a ready pod is booting, or was stopped.
ServerState(s, answer, now) ==
    IF answer = "none" \/ StsState(s) \in {"failed", "asleep"} THEN StsState(s)
    ELSE IF s.ready < 1 THEN "waking"
    ELSE IF answer = "running" THEN "awake"
    ELSE IF \E t \in s.scaled : now - t < WAKE_GRACE THEN "waking" ELSE "stopped"

-----------------------------------------------------------------------------
(* What the service makes of it *)

\* _state: the wrapper is asked only where there may be one.
StateOf(s, answer, now) ==
    ServerState(s, IF StsState(s) \in {"waking", "awake"} THEN answer ELSE "none", now)

\* _view: the row is the answer until the create is done, and after it failed.
ViewState(status, s, answer, now) == IF status # "ready" THEN status ELSE StateOf(s, answer, now)

WakeDoes(status, s, answer, now) ==
    IF status # "ready" \/ StsState(s) = "failed" THEN "nothing"
    ELSE IF s.replicas < 1 THEN "scale"
    ELSE IF ServerState(s, answer, now) = "stopped" THEN "start" ELSE "nothing"

\* apply, with the players that are online.
ApplyDoes(status, s, answer, now, online, confirmed) ==
    LET state == ViewState(status, s, answer, now)
    IN  IF status # "ready" \/ state \notin {"asleep", "awake", "stopped"} THEN "busy"
        ELSE IF state = "asleep" THEN "next start"
        ELSE IF state = "awake" /\ online > 0 /\ ~confirmed THEN "players online" ELSE "restart"

\* delete: where the backup reads the world.
BackupReads(s) == IF StsState(s) = "awake" THEN "pod" ELSE "volume"
=============================================================================
