--------------------------- MODULE ServerLifecycle ---------------------------
(***************************************************************************)
(* How a tenant's game server is created, woken and deleted.               *)
(*                                                                         *)
(* service.py answers requests on many threads.  A create or a delete only *)
(* claims the server's row (db.py: one SQL statement, so atomic) and hands *)
(* the minutes of kubectl and helm to a pool of PoolSize workers.  What    *)
(* protects the cluster is nothing but the row's status: provisioning and  *)
(* deleting rows belong to one job, ready and failed ones to nobody.       *)
(*                                                                         *)
(* One step is one database statement or one cluster call (cluster.py).    *)
(* The process may die between any two steps; the row, the event log, the  *)
(* backups and the cluster survive it, requests and jobs do not.  Events   *)
(* that the program only writes, and never reads back, are left out.       *)
(*                                                                         *)
(* Every reservation of a name starts a new life of that name.  The number *)
(* of the life is not in the program: it is what tells the properties one  *)
(* tenant's server from the next one that was given the same name.         *)
(*                                                                         *)
(* A definition marked "Mutant" is no part of the specification: it is a   *)
(* mistake the definition after it could contain, kept to show that the    *)
(* properties would notice.                                                *)
(***************************************************************************)
EXTENDS Integers, Sequences, FiniteSets, FiniteSetsExt

CONSTANTS
    Names,        \* server names
    Tenants,      \* tenant ids
    Requests,     \* request threads of the HTTP server
    MaxServers,   \* settings.max_servers_per_tenant
    PoolSize,     \* workers of the job pool (main.py: 2)
    None,         \* no row, no tenant, no name
    MaxLives,     \* bound: reservations in a behaviour
    MaxEvents,    \* bound: a delete is asked for only below this many events
    MaxFaults,    \* bound: cluster calls that fail for no reason of ours
    MaxCrashes,   \* bound: restarts of the process
    OthersAct     \* bound: whether the router scales pods and the operator prunes backups

ASSUME NamesAssumption == IsFiniteSet(Names)
ASSUME LimitAssumption == MaxServers \in Nat \ {0} /\ PoolSize \in Nat \ {0}
ASSUME BoundAssumption ==
    /\ MaxLives \in Nat /\ MaxEvents \in Nat /\ MaxFaults \in Nat /\ MaxCrashes \in Nat
    /\ OthersAct \in BOOLEAN

VARIABLES
    servers,   \* the servers table: name -> row
    events,    \* the events table, per name, in order of id
    requests,  \* what each request thread has read and is about to do
    jobs,      \* submitted jobs that have not ended
    cluster,   \* name -> what Kubernetes holds in namespace t-<name>
    backups,   \* lives whose backup file is in DSH_BACKUP_DIR
    history,   \* ghost: what happened to each life
    budget     \* bounds that are left

vars == <<servers, events, requests, jobs, cluster, backups, history, budget>>

Lives == 1 .. MaxLives
Statuses == {"provisioning", "ready", "failed", "deleting"}

Rows == [tenant : Tenants, status : Statuses, life : Lives]

ASSUME NoneAssumption == None \notin Names /\ None \notin Tenants /\ None \notin Rows
ASSUME EntryAssumption ==
    None \notin [tenant : Tenants, status : Statuses, was : {"none", "ready", "failed"}]

Idle == [pc |-> "idle", tenant |-> None, name |-> None, status |-> "none",
         awake |-> FALSE, force |-> FALSE, life |-> 0]

ProvisionSteps == {"namespace", "access", "credentials", "release", "scale", "rollout", "ready"}
RemoveSteps == {"backup", "uninstall", "delete namespace", "delete row", "record"}

Init ==
    /\ servers = [n \in Names |-> None]
    /\ events = [n \in Names |-> <<>>]
    /\ requests = [r \in Requests |-> Idle]
    /\ jobs = {}
    /\ cluster = [n \in Names |-> [ns |-> "absent", bound |-> FALSE, sts |-> "none", world |-> 0]]
    /\ backups = {}
    /\ history = [lives |-> 0, ready |-> {}, saved |-> {}, forced |-> {}, demoted |-> {}]
    /\ budget = [faults |-> MaxFaults, crashes |-> MaxCrashes]

-----------------------------------------------------------------------------
(* The servers table. *)

ServersOf(t) == {n \in Names : servers[n] # None /\ servers[n].tenant = t}
Provisioning(t) == {n \in ServersOf(t) : servers[n].status = "provisioning"}

\* UPDATE servers SET status = ... WHERE name = ...: no row, no effect.
SetStatus(n, status) ==
    IF servers[n] = None THEN servers
                         ELSE [servers EXCEPT ![n].status = status]

\* Mutants: one of the two conditions of the INSERT is missing.
ReserveUncounted(t, n) == servers[n] = None /\ Provisioning(t) = {}
ReserveWhileCreating(t, n) == servers[n] = None /\ Cardinality(ServersOf(t)) < MaxServers

\* INSERT OR IGNORE ... WHERE NOT EXISTS ... AND COUNT(*) < max_servers.
CanReserve(t, n) ==
    /\ servers[n] = None
    /\ Provisioning(t) = {}
    /\ Cardinality(ServersOf(t)) < MaxServers

\* Mutants: the status is not compared; a row that is deleting passes too.
BeginDeleteAnyStatus(n, current) == servers[n] # None
BeginDeleteTwice(n, current) == servers[n] # None /\ servers[n].status \in {current, "deleting"}

\* UPDATE ... SET status = 'deleting' WHERE name = ... AND status = current.
CanBeginDelete(n, current) == servers[n] # None /\ servers[n].status = current

-----------------------------------------------------------------------------
(* The events the code reads back. *)

Event(kind, prior, path) == [kind |-> kind, prior |-> prior, path |-> path]
Record(n, e) == events' = [events EXCEPT ![n] = Append(@, e)]

Last(S) == IF S = {} THEN 0 ELSE Max(S)
EventsOf(n, kinds) == {i \in DOMAIN events[n] : events[n][i].kind \in kinds}

\* Mutant: the newest event is taken for the request of the delete.
StatusOfNewestEvent(n) == IF events[n] = <<>> THEN "ready" ELSE events[n][Len(events[n])].prior

\* Mutant: the log is not reversed, so the first delete of the name is found.
StatusOfFirstDelete(n) ==
    LET asked == EventsOf(n, {"delete.requested"})
    IN  IF asked = {} THEN "ready" ELSE events[n][Min(asked)].prior

StatusBeforeDelete(n) ==
    LET asked == EventsOf(n, {"delete.requested"})
        detail == events[n][Last(asked)].prior
    IN  IF asked # {} /\ detail \in {"ready", "failed"} THEN detail ELSE "ready"

\* The newest backup recorded since the last "delete" whose file still exists;
\* 0 when there is none.
BackupStillOnDisk(n) ==
    LET start == Last(EventsOf(n, {"delete"}))
        found == {i \in EventsOf(n, {"backup", "backup.reused"}) :
                      i > start /\ events[n][i].path \in backups}
    IN  IF found = {} THEN 0 ELSE events[n][Last(found)].path

-----------------------------------------------------------------------------
(* Creating a server: the request thread. *)

RefuseCreate(t, n) ==
    \/ Provisioning(t) # {}
    \/ Cardinality(ServersOf(t)) >= MaxServers
    \/ servers[n] # None

Asked(pc, t, n) == [Idle EXCEPT !.pc = pc, !.tenant = t, !.name = n]
Answer(r) == requests' = [requests EXCEPT ![r] = Idle]

CreateStart(r, t, n) ==
    /\ requests[r].pc = "idle"
    /\ history.lives < MaxLives
    /\ ~RefuseCreate(t, n)
    /\ requests' = [requests EXCEPT ![r] = Asked("lookup", t, n)]
    /\ UNCHANGED <<servers, events, jobs, cluster, backups, history, budget>>

\* namespace_exists and the Mojang lookup; either may say no, or fail.
CreateLookup(r) ==
    /\ requests[r].pc = "lookup"
    /\ \/ /\ cluster[requests[r].name].ns = "absent"
          /\ requests' = [requests EXCEPT ![r].pc = "reserve"]
       \/ Answer(r)
    /\ UNCHANGED <<servers, events, jobs, cluster, backups, history, budget>>

CreateReserve(r) ==
    LET q == requests[r]
        life == history.lives + 1
    IN  /\ q.pc = "reserve"
        /\ history.lives < MaxLives
        /\ IF CanReserve(q.tenant, q.name)
           THEN /\ servers' = [servers EXCEPT ![q.name] =
                                 [tenant |-> q.tenant, status |-> "provisioning", life |-> life]]
                /\ history' = [history EXCEPT !.lives = life]
                /\ requests' = [requests EXCEPT ![r].pc = "provision", ![r].life = life]
           ELSE Answer(r) /\ UNCHANGED <<servers, history>>
        /\ UNCHANGED <<events, jobs, cluster, backups, budget>>

-----------------------------------------------------------------------------
(* Deleting a server: the request thread. *)

DeleteStart(r, t, n, force) ==
    /\ requests[r].pc = "idle"
    /\ Len(events[n]) < MaxEvents
    /\ n \in ServersOf(t)
    /\ servers[n].status \in {"ready", "failed"}
    /\ requests' = [requests EXCEPT ![r] =
                      [Asked("check", t, n) EXCEPT !.status = servers[n].status, !.force = force]]
    /\ UNCHANGED <<servers, events, jobs, cluster, backups, history, budget>>

\* Without the RoleBinding kubectl answers Forbidden, which is no "not found".
Allowed(n) == cluster[n].ns # "absent" /\ cluster[n].bound

SpendFault == budget.faults > 0 /\ budget' = [budget EXCEPT !.faults = @ - 1]

\* statefulset_status, then players_online when the pod is up.
DeleteCheck(r) ==
    LET q == requests[r]
        up == cluster[q.name].sts = "up"
    IN  /\ q.pc = "check"
        /\ \/ /\ Allowed(q.name)
              /\ \E awake \in BOOLEAN :
                   /\ awake => up
                   /\ requests' = [requests EXCEPT ![r].pc = "begin", ![r].awake = awake]
              /\ UNCHANGED budget
           \/ Allowed(q.name) /\ up /\ ~q.force /\ Answer(r) /\ UNCHANGED budget
           \/ ~Allowed(q.name) /\ Answer(r) /\ UNCHANGED budget
           \/ Allowed(q.name) /\ Answer(r) /\ SpendFault
        /\ UNCHANGED <<servers, events, jobs, cluster, backups, history>>

DeleteBegin(r) ==
    LET q == requests[r]
        life == servers[q.name].life
    IN  /\ q.pc = "begin"
        /\ IF CanBeginDelete(q.name, q.status)
           THEN /\ servers' = SetStatus(q.name, "deleting")
                /\ requests' = [requests EXCEPT ![r].pc = "remove", ![r].life = life]
                /\ history' = IF q.force THEN [history EXCEPT !.forced = @ \cup {life}]
                                         ELSE history
           ELSE Answer(r) /\ UNCHANGED <<servers, history>>
        /\ UNCHANGED <<events, jobs, cluster, backups, budget>>

-----------------------------------------------------------------------------
(* Waking a server: statefulset_status and scale_wrapper on the request     *)
(* thread.  A missing StatefulSet is reported, not scaled.                  *)

WakeStart(r, t, n) ==
    /\ requests[r].pc = "idle"
    /\ n \in ServersOf(t)
    /\ servers[n].status = "ready"
    /\ requests' = [requests EXCEPT ![r] = Asked("scale", t, n)]
    /\ UNCHANGED <<servers, events, jobs, cluster, backups, history, budget>>

WakeScale(r) ==
    LET n == requests[r].name
    IN  /\ requests[r].pc = "scale"
        /\ Answer(r)
        /\ \/ UNCHANGED cluster
           \/ /\ Allowed(n) /\ cluster[n].sts = "asleep"
              /\ cluster' = [cluster EXCEPT ![n].sts = "up"]
        /\ UNCHANGED <<servers, events, jobs, backups, history, budget>>
-----------------------------------------------------------------------------
(* The job pool: a job runs once fewer than PoolSize older ones are left.  *)

NewTicket == Last({j.ticket : j \in jobs}) + 1
Running(j) == Cardinality({k \in jobs : k.ticket < j.ticket}) < PoolSize

Submit(q, step) ==
    jobs' = jobs \cup {[ticket |-> NewTicket, name |-> q.name, life |-> q.life, step |-> step,
                        prior |-> q.status, awake |-> q.awake, force |-> q.force]}

CreateSubmit(r) ==
    /\ requests[r].pc = "provision"
    /\ Submit(requests[r], "namespace")
    /\ Answer(r)
    /\ UNCHANGED <<servers, events, cluster, backups, history, budget>>

DeleteSubmit(r) ==
    LET q == requests[r]
    IN  /\ q.pc = "remove"
        /\ Record(q.name, Event("delete.requested", q.status, 0))
        /\ Submit(q, "backup")
        /\ Answer(r)
        /\ UNCHANGED <<servers, cluster, backups, history, budget>>

At(j, step) == Running(j) /\ j.step = step
Advance(j, step) == jobs' = (jobs \ {j}) \cup {[j EXCEPT !.step = step]}

\* Mutant: whatever failed, the server is called ready again.
FailReady(j) ==
    /\ servers' = SetStatus(j.name, IF j.step \in ProvisionSteps THEN "failed" ELSE "ready")
    /\ jobs' = jobs \ {j}

\* _provision_failed and _delete_failed: the job ends, the row says how.
Fail(j) ==
    /\ servers' = SetStatus(j.name, IF j.step \in ProvisionSteps THEN "failed" ELSE j.prior)
    /\ jobs' = jobs \ {j}

\* A cluster call of job j.  It works and leaves the namespace as `done`, or
\* raises ClusterError, having left it as it was or as one of `partly`.
Call(j, works, done, partly, next) ==
    /\ \/ /\ works
          /\ cluster' = [cluster EXCEPT ![j.name] = done]
          /\ Advance(j, next)
          /\ UNCHANGED <<servers, budget>>
       \/ /\ works => SpendFault
          /\ ~works => UNCHANGED budget
          /\ \/ UNCHANGED cluster
             \/ works /\ \E c \in partly : cluster' = [cluster EXCEPT ![j.name] = c]
          /\ Fail(j)
    /\ UNCHANGED <<events, requests, backups, history>>

-----------------------------------------------------------------------------
(* _provision *)

\* kubectl apply of the Namespace, its quota and its limits.
CreateNamespace(j) ==
    LET c == cluster[j.name]
        done == [c EXCEPT !.ns = IF @ = "absent" THEN "active" ELSE @]
    IN  At(j, "namespace") /\ Call(j, TRUE, done, {done}, "access")

GrantAccess(j) ==
    LET c == cluster[j.name]
        done == [c EXCEPT !.bound = TRUE]
    IN  At(j, "access") /\ Call(j, c.ns = "active" \/ Allowed(j.name), done, {done}, "credentials")

\* The Secret and, with plugin selection on, its ConfigMap.
CreateCredentials(j) ==
    At(j, "credentials") /\ Call(j, Allowed(j.name), cluster[j.name], {}, "release")

\* helm upgrade --install: a wrapper that is up stays up, a volume that exists is kept.
InstallRelease(j) ==
    LET c == cluster[j.name]
        done == [c EXCEPT !.sts = IF @ = "up" THEN @ ELSE "asleep",
                          !.world = IF @ = 0 THEN j.life ELSE @]
    IN  /\ At(j, "release")
        /\ Call(j, Allowed(j.name) /\ c.ns = "active", done,
                {done, [done EXCEPT !.sts = c.sts]}, "scale")

ScaleWrapper(j) ==
    LET c == cluster[j.name]
        done == [c EXCEPT !.sts = "up"]
    IN  At(j, "scale") /\ Call(j, Allowed(j.name) /\ c.sts # "none", done, {done}, "rollout")

WaitForRollout(j) ==
    LET c == cluster[j.name]
    IN  At(j, "rollout") /\ Call(j, Allowed(j.name) /\ c.sts # "none", c, {}, "ready")

ProvisionDone(j) ==
    /\ At(j, "ready")
    /\ servers' = SetStatus(j.name, "ready")
    /\ history' = [history EXCEPT !.ready = @ \cup {j.life}]
    /\ jobs' = jobs \ {j}
    /\ UNCHANGED <<events, requests, cluster, backups, budget>>

Provision(j) ==
    \/ CreateNamespace(j) \/ GrantAccess(j) \/ CreateCredentials(j) \/ InstallRelease(j)
    \/ ScaleWrapper(j) \/ WaitForRollout(j) \/ ProvisionDone(j)

-----------------------------------------------------------------------------
(* _remove *)

\* An asleep world is read by a pod of its own, which needs a live namespace;
\* an awake one through the wrapper's pod.
CanBackUp(j) ==
    LET c == cluster[j.name]
    IN  /\ Allowed(j.name) /\ c.world # 0
        /\ IF j.awake THEN c.sts = "up" ELSE c.ns = "active"

\* "persistentvolumeclaims ... not found": looked up only for an asleep world.
SourceIsGone(j) == ~j.awake /\ Allowed(j.name) /\ cluster[j.name].world = 0

\* The file and its event are one step: dying between them only leaves a file
\* that nobody looks for, and the world is still there to be backed up again.
BackUpWorld(j) ==
    LET world == cluster[j.name].world
    IN  /\ At(j, "backup")
        /\ CanBackUp(j)
        /\ backups' = backups \cup {world}
        /\ history' = [history EXCEPT !.saved = @ \cup {world}]
        /\ Record(j.name, Event("backup", "none", world))
        /\ Advance(j, "uninstall")
        /\ UNCHANGED <<servers, requests, cluster, budget>>

\* Mutant: the condition of the raise is turned round.
DoWithoutBackupUnlessFailed(j) ==
    /\ At(j, "backup")
    /\ CanBackUp(j) => SpendFault
    /\ ~CanBackUp(j) => UNCHANGED budget
    /\ IF ~j.force /\ j.prior = "failed"
       THEN Fail(j)
       ELSE Advance(j, "uninstall") /\ UNCHANGED servers
    /\ UNCHANGED <<events, requests, cluster, backups, history>>

\* No backup can be taken: reuse one, do without, or give the delete up.
DoWithoutBackup(j) ==
    LET reused == BackupStillOnDisk(j.name)
    IN  /\ At(j, "backup")
        /\ CanBackUp(j) => SpendFault
        /\ ~CanBackUp(j) => UNCHANGED budget
        /\ IF reused # 0 /\ SourceIsGone(j)
           THEN /\ Record(j.name, Event("backup.reused", "none", reused))
                /\ Advance(j, "uninstall")
                /\ UNCHANGED servers
           ELSE /\ UNCHANGED events
                /\ IF ~j.force /\ j.prior # "failed"
                   THEN Fail(j)
                   ELSE Advance(j, "uninstall") /\ UNCHANGED servers
        /\ UNCHANGED <<requests, cluster, backups, history>>

\* Mutant: every error of helm is read as "release: not found".
UninstallIgnoringErrors(j) ==
    /\ At(j, "uninstall")
    /\ Advance(j, "delete namespace")
    /\ UNCHANGED <<servers, events, requests, cluster, backups, history, budget>>

\* helm may fail halfway: the release's parts gone, its volume too or not yet.
UninstallRelease(j) ==
    LET c == cluster[j.name]
        done == [c EXCEPT !.sts = "none", !.world = 0]
    IN  /\ At(j, "uninstall")
        /\ Call(j, Allowed(j.name), done, {done, [c EXCEPT !.sts = "none"]}, "delete namespace")

\* Mutant: every error of kubectl is read as "namespace not found".
DeleteNamespaceIgnoringErrors(j) ==
    /\ At(j, "delete namespace")
    /\ Advance(j, "delete row")
    /\ UNCHANGED <<servers, events, requests, cluster, backups, history, budget>>

\* kubectl delete namespace --wait=false; one that is gone is no error.
DeleteNamespace(j) ==
    LET c == cluster[j.name]
        done == [c EXCEPT !.ns = IF @ = "active" THEN "terminating" ELSE @]
    IN  At(j, "delete namespace") /\ Call(j, TRUE, done, {done}, "delete row")

DeleteRow(j) ==
    /\ At(j, "delete row")
    /\ servers' = [servers EXCEPT ![j.name] = None]
    /\ Advance(j, "record")
    /\ UNCHANGED <<events, requests, cluster, backups, history, budget>>

RecordDelete(j) ==
    /\ At(j, "record")
    /\ Record(j.name, Event("delete", "none", 0))
    /\ jobs' = jobs \ {j}
    /\ UNCHANGED <<servers, requests, cluster, backups, history, budget>>

Remove(j) ==
    \/ BackUpWorld(j) \/ DoWithoutBackup(j) \/ UninstallRelease(j) \/ DeleteNamespace(j)
    \/ DeleteRow(j) \/ RecordDelete(j)

-----------------------------------------------------------------------------
(* The process dies and starts again.  recover_interrupted handles each row *)
(* by itself before any request is served, so dying within it changes       *)
(* nothing, and it is one step.                                             *)

\* Mutants: one of the two loops of recover_interrupted is missing.
RecoveredDeletesOnly(n) ==
    IF servers[n].status = "deleting" THEN StatusBeforeDelete(n) ELSE servers[n].status
RecoveredCreatesOnly(n) ==
    IF servers[n].status = "provisioning" THEN "failed" ELSE servers[n].status

Recovered(n) ==
    CASE servers[n].status = "provisioning" -> "failed"
      [] servers[n].status = "deleting" -> StatusBeforeDelete(n)
      [] OTHER -> servers[n].status

Restart ==
    LET rows == {n \in Names : servers[n] # None}
        demoted == {n \in rows : servers[n].status = "deleting" /\ Recovered(n) = "failed"}
    IN  /\ budget.crashes > 0
        /\ budget' = [budget EXCEPT !.crashes = @ - 1]
        /\ requests' = [r \in Requests |-> Idle]
        /\ jobs' = {}
        /\ servers' = [n \in Names |->
                         IF n \in rows THEN [servers[n] EXCEPT !.status = Recovered(n)] ELSE None]
        /\ history' = [history EXCEPT !.demoted = @ \cup {servers[n].life : n \in demoted}]
        /\ UNCHANGED <<events, cluster, backups>>

-----------------------------------------------------------------------------
(* Around the program: the cluster finishes what --wait=false left, the     *)
(* router wakes wrappers and puts idle ones to sleep, the operator clears   *)
(* old backups.                                                             *)

Absent == [ns |-> "absent", bound |-> FALSE, sts |-> "none", world |-> 0]

NamespaceDrains(n) ==
    /\ cluster[n].ns = "terminating"
    /\ \/ cluster' = [cluster EXCEPT ![n] = Absent]
       \/ cluster[n].bound /\ cluster' = [cluster EXCEPT ![n].bound = FALSE]
    /\ UNCHANGED <<servers, events, requests, jobs, backups, history, budget>>

PodScales(n) ==
    /\ OthersAct /\ cluster[n].sts # "none"
    /\ cluster' = [cluster EXCEPT ![n].sts = IF @ = "up" THEN "asleep" ELSE "up"]
    /\ UNCHANGED <<servers, events, requests, jobs, backups, history, budget>>

PruneBackup(path) ==
    /\ OthersAct /\ path \in backups
    /\ backups' = backups \ {path}
    /\ UNCHANGED <<servers, events, requests, jobs, cluster, history, budget>>

-----------------------------------------------------------------------------

Create(r) ==
    \/ \E t \in Tenants, n \in Names : CreateStart(r, t, n)
    \/ CreateLookup(r) \/ CreateReserve(r) \/ CreateSubmit(r)

Delete(r) ==
    \/ \E t \in Tenants, n \in Names, force \in BOOLEAN : DeleteStart(r, t, n, force)
    \/ DeleteCheck(r) \/ DeleteBegin(r) \/ DeleteSubmit(r)

Wake(r) == (\E t \in Tenants, n \in Names : WakeStart(r, t, n)) \/ WakeScale(r)

JobStep(j) == Provision(j) \/ Remove(j)

Environment ==
    \/ \E n \in Names : NamespaceDrains(n) \/ PodScales(n)
    \/ \E path \in Lives : PruneBackup(path)

Next ==
    \/ \E r \in Requests : Create(r) \/ Delete(r) \/ Wake(r)
    \/ \E j \in jobs : JobStep(j)
    \/ Restart
    \/ Environment

Spec == Init /\ [][Next]_vars

\* A worker that has a job goes on with it, and a request thread that claimed
\* a row goes on to submit its job: neither waits for anything but a cluster
\* call, and each of those ends.
Fairness ==
    /\ \A n \in Names : WF_vars(\E j \in jobs : j.name = n /\ JobStep(j))
    /\ \A r \in Requests : WF_vars(CreateSubmit(r)) /\ WF_vars(DeleteSubmit(r))

FairSpec == Spec /\ Fairness

\* A tenant who wants the slot of a failed create back asks for the delete again
\* and again, and every request thread comes to its end.
PersistentTenant ==
    /\ \A n \in Names : WF_vars(\E r \in Requests, t \in Tenants : DeleteStart(r, t, n, FALSE))
    /\ \A r \in Requests : /\ WF_vars(CreateLookup(r)) /\ WF_vars(CreateReserve(r))
                          /\ WF_vars(DeleteCheck(r)) /\ WF_vars(DeleteBegin(r))
                          /\ WF_vars(WakeScale(r))

PersistentSpec == FairSpec /\ PersistentTenant
-----------------------------------------------------------------------------
(* Type invariant *)

Paths == 0 .. MaxLives

RequestRecords ==
    [pc : {"idle", "lookup", "reserve", "provision", "check", "begin", "remove", "scale"},
     tenant : Tenants \cup {None}, name : Names \cup {None},
     status : {"none", "ready", "failed"}, awake : BOOLEAN, force : BOOLEAN, life : Paths]

RequestOK(q) ==
    /\ q.pc # "idle" => q.name \in Names /\ q.tenant \in Tenants
    /\ q.pc \in {"check", "begin", "remove"} => q.status # "none"
    /\ q.pc \in {"provision", "remove"} => q.life \in Lives

JobRecords ==
    [ticket : Nat, name : Names, life : Lives, step : ProvisionSteps \cup RemoveSteps,
     prior : {"none", "ready", "failed"}, awake : BOOLEAN, force : BOOLEAN]

EventRecords ==
    [kind : {"delete.requested", "backup", "backup.reused", "delete"},
     prior : {"none", "ready", "failed"}, path : Paths]

Namespaces ==
    [ns : {"absent", "active", "terminating"}, bound : BOOLEAN,
     sts : {"none", "asleep", "up"}, world : Paths]

\* What each variable may hold: rows, events, requests and jobs of the
\* program, and the namespaces kubectl answers about.
TypeOK ==
    /\ servers \in [Names -> Rows \cup {None}]
    /\ events \in [Names -> Seq(EventRecords)]
    /\ requests \in [Requests -> RequestRecords]
    /\ \A r \in Requests : RequestOK(requests[r])
    /\ jobs \subseteq JobRecords
    /\ \A j \in jobs : j.step \in RemoveSteps => j.prior # "none"
    /\ cluster \in [Names -> Namespaces]
    /\ backups \subseteq Lives
    /\ history \in [lives : Paths, ready : SUBSET Lives, saved : SUBSET Lives,
                    forced : SUBSET Lives, demoted : SUBSET Lives]
    /\ budget \in [faults : 0 .. MaxFaults, crashes : 0 .. MaxCrashes]

-----------------------------------------------------------------------------
(* Safety *)

RowIs(n, status, life) ==
    servers[n] # None /\ servers[n].status = status /\ servers[n].life = life

\* A request that reserved a name or began a delete, and a job until it has
\* deleted the row, find the row as they left it: same server, same status.
\* reserve_server and begin_delete give the row to one request; no other
\* writer (a second request, a late job) may take it away.
WorkMatchesRow ==
    /\ \A r \in Requests :
         LET q == requests[r]
         IN  /\ q.pc = "provision" => RowIs(q.name, "provisioning", q.life)
                                       /\ servers[q.name].tenant = q.tenant
             /\ q.pc = "remove" => RowIs(q.name, "deleting", q.life)
    /\ \A j \in jobs :
         /\ j.step \in ProvisionSteps => RowIs(j.name, "provisioning", j.life)
         /\ j.step \in RemoveSteps \ {"record"} => RowIs(j.name, "deleting", j.life)

Claiming == {r \in Requests : requests[r].pc \in {"provision", "remove"}}
Working == {j \in jobs : j.step # "record"}

\* Nothing else works on a server that a request has claimed or a job is
\* working on: the pool has two workers and never puts both on one server.
OneWorker ==
    /\ \A r, s \in Claiming : requests[r].name = requests[s].name => r = s
    /\ \A j, k \in Working : j.name = k.name => j = k
    /\ \A r \in Claiming, j \in Working : requests[r].name # j.name

\* A row that is provisioning or deleting has a request or a job that will
\* move it on; recover_interrupted moves the others, or the tenant could
\* neither use nor delete the server again.
NoOrphanRow ==
    \A n \in Names :
        servers[n] # None /\ servers[n].status \in {"provisioning", "deleting"} =>
            \/ \E r \in Claiming : requests[r].name = n
            \/ \E j \in Working : j.name = n

\* "an interrupted delete is put back as it was" (recover_interrupted): once the
\* job has begun, what a restart reads from the log is what the failing job would
\* put back, whatever was recorded since and by whichever earlier deletes.
RecoveryKnows ==
    \A j \in Working : j.step \in RemoveSteps => StatusBeforeDelete(j.name) = j.prior

\* A world in namespace t-<name> is the world of the server that holds the
\* name: a tenant who is given a name never finds an earlier server's world.
WorldBelongsToRow ==
    \A n \in Names : cluster[n].world # 0 =>
        servers[n] # None /\ servers[n].life = cluster[n].world

\* A name without a row has nothing running in the cluster and its namespace
\* is on its way out: deleting a server leaves nothing for nobody to delete.
FreeNameIsClean ==
    \A n \in Names : servers[n] = None =>
        cluster[n].ns # "active" /\ cluster[n].sts = "none" /\ cluster[n].world = 0

\* However many creates race, a tenant never holds more rows than the cap...
CapHeld == \A t \in Tenants : Cardinality(ServersOf(t)) <= MaxServers

\* ... and never has two creates in flight.
OneCreatePerTenant == \A t \in Tenants : \A n, m \in Provisioning(t) : n = m

InCluster(life) == \E n \in Names : cluster[n].world = life

\* The world of a server that was once ready is in the cluster unless it was
\* backed up first or its tenant gave force.  (Except after a restart that put
\* an interrupted delete back as failed: see NoUnforcedLoss.)
NoUnbackedLoss ==
    \A life \in history.ready :
        InCluster(life) \/ life \in history.saved \cup history.forced \cup history.demoted

-----------------------------------------------------------------------------
(* Claims of the code and its documents that what follows refutes *)

\* service.py: "Without force the world is never removed unbacked-up".
NoUnforcedLoss ==
    \A life \in history.ready : InCluster(life) \/ life \in history.saved \cup history.forced

\* service.py, of the backups a retried delete looks for: "an earlier server's
\* world is never handed out as this one's".
ReusedBackupIsOwn ==
    \A n \in Names : \A i \in DOMAIN events[n] :
        events[n][i].kind = "backup.reused" /\ servers[n] # None /\
        i > Last(EventsOf(n, {"delete"})) /\ servers[n].status = "deleting" =>
            events[n][i].path = servers[n].life

\* MVP.md: "A second tenant cannot see or delete the first tenant's server."
OnlyOwnerDeletes ==
    \A r \in Requests : requests[r].pc = "remove" =>
        servers[requests[r].name].tenant = requests[r].tenant

\* README.md, of a create that failed: it "keeps the tenant's slot until
\* `DELETE`, which works without a pod or volume to back up".  Checked under
\* PersistentSpec.
FailedSlotComesBack ==
    \A n \in Names :
        servers[n] # None /\ servers[n].status = "failed" /\ cluster[n].sts = "none"
            ~> servers[n] = None

-----------------------------------------------------------------------------
(* Liveness, under FairSpec *)

Status(n, status) == servers[n] # None /\ servers[n].status = status

\* Every create is decided and every delete finishes or is put back, whatever
\* fails on the way and wherever the process dies.
ProvisioningEnds ==
    \A n \in Names : Status(n, "provisioning") ~> ~Status(n, "provisioning")
DeletingEnds ==
    \A n \in Names : Status(n, "deleting") ~> ~Status(n, "deleting")
-----------------------------------------------------------------------------
(* What the tenant sees: ServerLedger *)

\* The status a deleting row goes back to, which the request or the job knows.
StatusBefore(n) ==
    LET known == {requests[r].status : r \in {c \in Claiming : requests[c].name = n}}
                     \cup {j.prior : j \in {k \in Working : k.name = n}}
    IN  IF Status(n, "deleting") /\ known # {} THEN CHOOSE was \in known : TRUE ELSE "none"

Ledger == INSTANCE ServerLedger WITH
    ledger <- [n \in Names |->
                 IF servers[n] = None THEN None
                 ELSE [tenant |-> servers[n].tenant, status |-> servers[n].status,
                       was |-> StatusBefore(n)]],
    restarts <- MaxCrashes - budget.crashes

\* Whatever threads, jobs, failures and restarts do, the rows change only as
\* ServerLedger says: one accepted request and one outcome at a time, a failed
\* delete back to exactly what it was.
KeepsLedger == Ledger!Spec
=============================================================================
