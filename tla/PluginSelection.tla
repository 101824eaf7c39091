--------------------------- MODULE PluginSelection ---------------------------
(***************************************************************************)
(* The plugins a tenant chose for the server of one name.                  *)
(*                                                                         *)
(* The selection is kept three times: as rows of server_plugins, as the    *)
(* ConfigMap <name>-plugins that the wrapper's boot script installs from,  *)
(* and as the hash of the text last written there.  A change reads the     *)
(* rows, writes the ConfigMap, then the hash, then the rows, under a lock  *)
(* of this process; the job that creates the server writes all three       *)
(* first, and the job that deletes it takes them away without the lock.    *)
(*                                                                         *)
(* The server itself behaves as ServerLedger says, which ServerLifecycle   *)
(* implements.  A selection stands for its text, and the text for its      *)
(* SHA-256.  Names are apart from each other: this is any one of them.     *)
(***************************************************************************)
EXTENDS Integers, FiniteSets, Sequences

CONSTANTS
    Name,        \* the server name
    Tenants,     \* tenant ids
    Plugins,     \* slugs, in a catalog or only required by something in one
    Defaults,    \* settings.default_plugins: slug -> what it requires
    Extras,      \* those of them that the catalog site does not have
    Catalogs,    \* what the catalog site offers over time: slug -> what it requires
    Requests,    \* request threads of the HTTP server
    None,        \* no row, no text, no copy of the catalog
    MaxRequests, \* bound: requests in a behaviour
    MaxLives,    \* bound: servers created in a behaviour
    MaxFaults,   \* bound: calls that fail in a behaviour
    MaxCrashes   \* bound: restarts of the process

Offers == UNION {[S -> SUBSET Plugins] : S \in SUBSET Plugins}

\* The default list brings what its plugins require (README: ViaBackwards
\* comes with ViaVersion).
ASSUME DefaultsAssumption ==
    /\ Defaults \in Offers
    /\ \A p \in DOMAIN Defaults : Defaults[p] \subseteq DOMAIN Defaults
    /\ Extras \subseteq DOMAIN Defaults
ASSUME CatalogsAssumption == Catalogs \in Seq(Offers)
ASSUME PluginBoundAssumption ==
    {MaxRequests, MaxLives, MaxFaults, MaxCrashes} \subseteq Nat

\* A text is what a selection pins; a row of servers, and one of server_plugin_state.
Texts == SUBSET (Plugins \X (0 .. Len(Catalogs)))
ServerRows == [tenant : Tenants, was : {"none", "ready", "failed"},
               status : {"provisioning", "ready", "failed", "deleting"}]
StateRows == [written : {None} \cup Texts, applied : {None} \cup Texts]

ASSUME NoneAssumption == None \notin Requests \cup ServerRows \cup StateRows

VARIABLES
    ledger, restarts,   \* the server: see ServerLedger
    lives,      \* servers created so far
    job,        \* where the job that creates or deletes the server is
    namespace,  \* the tenant namespace and the API's access to it
    configMap,  \* the text in the ConfigMap, None without one
    pod,        \* the wrapper as server_state reads it; "up" is awake or stopped
    booted,     \* the text the last boot installed from
    rows,       \* the rows of server_plugins
    state,      \* the row of server_plugin_state: the hashes written and applied
    cached,     \* which of Catalogs DpcCatalog has a copy of
    lock,       \* the request that holds the name's lock
    requests,   \* what each request thread is doing
    asked,      \* requests so far
    faults,     \* calls that have failed so far
    history     \* ghost: see Unspoilt

serverVars == <<ledger, restarts, lives>>
clusterVars == <<namespace, configMap, pod, booted>>
tableVars == <<rows, state>>
vars == <<serverVars, job, clusterVars, tableVars, cached, lock, requests, asked, faults, history>>

Servers == INSTANCE ServerLedger WITH Names <- {Name}, MaxServers <- 1

Is(status) == Servers!Is(Name, status)
Gone == ledger[Name] = None

-----------------------------------------------------------------------------
(* Selections and catalogs *)

Row(p, tag, requires) == [slug |-> p, tag |-> tag, requires |-> requires]
Slugs(S) == {r.slug : r \in S}
Text(S) == {<<r.slug, r.tag>> : r \in S}

\* default_selection: pinned to the jars of the list, which no catalog offers.
DefaultRows == {Row(p, 0, Defaults[p]) : p \in DOMAIN Defaults}

\* INSERT OR IGNORE, by slug.
Inserted(S, new) == S \cup {r \in new : r.slug \notin Slugs(S)}

\* {**dpc, **extras}: an extra stays the jar of the default list.
Offered(c) == DOMAIN Catalogs[c] \cup Extras
Entry(c, p) ==
    IF p \in Extras THEN Row(p, 0, Defaults[p]) ELSE Row(p, c, Catalogs[c][p])
RequiredBy(c, p) == IF p \in Offered(c) THEN Entry(c, p).requires ELSE {}

\* Mutant: the plugin is added without what it requires.
NeededAlone(c, p, have) == {p} \ have

\* The queue of add: p, and whatever something in the queue requires, but for
\* what is selected already, whose own requirements are not looked at again.
Needed(c, p, have) ==
    {q \in Plugins \ have :
        \A S \in SUBSET Plugins :
            /\ p \in S
            /\ \A s \in S \ have : RequiredBy(c, s) \subseteq S
            => q \in S}

Dependents(S, p) == {r \in S : p \in r.requires /\ r.slug # p}

-----------------------------------------------------------------------------

\* by: the tenant; life: the server a change was checked against; read and change: the rows it
\* read and those it adds or takes away; up, written, applied, pending: of a view.
Idle == [pc |-> "idle", op |-> "none", by |-> None, slug |-> None, life |-> 0, read |-> {}, change |-> {},
         up |-> FALSE, written |-> None, applied |-> None, pending |-> FALSE]

\* torn: a change was cut off between ConfigMap and rows; stray, foreign: a change
\* wrote the rows, the ConfigMap, after its server was gone; removed: plugins that
\* were removed and not added since.
Unspoilt == [torn |-> FALSE, stray |-> FALSE, foreign |-> FALSE, removed |-> {}]

\* A server of today, or one from before selections: a release, and no selection.
Init ==
    /\ restarts = 0 /\ job = "none" /\ faults = 0 /\ asked = 0
    /\ configMap = None /\ booted = None /\ rows = {} /\ state = None
    /\ cached = None
    /\ lock = None /\ requests = [r \in Requests |-> Idle]
    /\ history = Unspoilt
    /\ \/ /\ ledger = [n \in {Name} |-> None] /\ lives = 0
          /\ namespace = FALSE /\ pod = "none"
       \/ /\ \E t \in Tenants :
               ledger = [n \in {Name} |-> [tenant |-> t, status |-> "ready", was |-> "none"]]
          /\ lives = 1 /\ namespace = TRUE /\ pod = "asleep"

\* Mutant: a server that has no rows is given the defaults once more.
SeedEmpty ==
    IF rows = {}
    THEN /\ rows' = DefaultRows
         /\ state' = IF state = None THEN [written |-> None, applied |-> None] ELSE state
    ELSE UNCHANGED tableVars

\* seed_plugins, one transaction.
Seed ==
    IF state = None
    THEN /\ state' = [written |-> None, applied |-> None]
         /\ rows' = Inserted(rows, DefaultRows)
    ELSE UNCHANGED tableVars

\* set_plugin_hashes: no row, no effect.
SetWritten(text) == state' = IF state = None THEN None ELSE [state EXCEPT !.written = text]
SetApplied(text) == state' = IF state = None THEN None ELSE [state EXCEPT !.applied = text]

Fault == faults < MaxFaults /\ faults' = faults + 1

At(r, pc) == requests[r].pc = pc
To(r, pc) == requests' = [requests EXCEPT ![r].pc = pc]
Answer(r) == requests' = [requests EXCEPT ![r] = Idle]

\* Mutant: an exception leaves _changing with the lock still held.
RefuseHolding(r) ==
    /\ Answer(r)
    /\ UNCHANGED lock

\* Any exception inside _changing: the lock goes, the request is answered.
Refuse(r) ==
    /\ lock' = None
    /\ Answer(r)

\* The change is made, or there was nothing to change: add and remove end in a view.
Done(r) ==
    /\ lock' = None
    /\ requests' = [requests EXCEPT ![r] =
          [Idle EXCEPT !.pc = "state", !.op = "view", !.by = requests[r].by]]

-----------------------------------------------------------------------------
(* A change: add and remove, inside _changing *)

serverSide == <<serverVars, job, clusterVars, history>>
rest == <<serverSide, asked>>

Mine(r) == ~Gone /\ ledger[Name].tenant = requests[r].by

Ask == asked < MaxRequests /\ asked' = asked + 1

Begin(r, op, p) ==
    /\ At(r, "idle") /\ Is("ready") /\ Ask
    /\ requests' = [requests EXCEPT ![r] =
          [Idle EXCEPT !.pc = "lock", !.op = op, !.by = ledger[Name].tenant, !.slug = p]]
    /\ UNCHANGED <<serverSide, tableVars, cached, lock, faults>>

\* Mutants: the lock is no lock; the wait has no end.
AcquireAnyway(r) ==
    /\ At(r, "lock")
    /\ IF Is("ready") /\ Mine(r)
       THEN /\ lock' = r
            /\ requests' = [requests EXCEPT ![r].pc = "seed", ![r].life = lives]
       ELSE /\ Answer(r)
            /\ UNCHANGED lock
    /\ UNCHANGED <<rest, tableVars, cached, faults>>
WaitOn(r) == At(r, "lock") /\ lock # None /\ UNCHANGED vars

\* With the lock in hand the row is looked at again.
Acquire(r) ==
    /\ At(r, "lock") /\ lock = None
    /\ IF Is("ready") /\ Mine(r)
       THEN /\ lock' = r
            /\ requests' = [requests EXCEPT ![r].pc = "seed", ![r].life = lives]
       ELSE /\ Answer(r)
            /\ UNCHANGED lock
    /\ UNCHANGED <<rest, tableVars, cached, faults>>

\* Mutant: that the lock was not acquired in time is not looked at.
GoAhead(r) ==
    /\ At(r, "lock") /\ lock # None
    /\ requests' = [requests EXCEPT ![r].pc = "seed", ![r].life = lives]
    /\ UNCHANGED <<rest, tableVars, cached, lock, faults>>

\* CHANGE_WAIT_SECONDS have passed.
GiveUp(r) ==
    /\ At(r, "lock") /\ lock # None
    /\ Answer(r)
    /\ UNCHANGED <<rest, tableVars, cached, lock, faults>>

SeedSelection(r) ==
    /\ At(r, "seed")
    /\ Seed
    /\ To(r, IF requests[r].op = "view" THEN "hashes" ELSE "read")
    /\ UNCHANGED <<rest, cached, lock, faults>>

\* selected_plugins; a remove also decides.
ReadToAdd(r) ==
    /\ At(r, "read") /\ requests[r].op = "add"
    /\ requests' = [requests EXCEPT ![r].pc = "catalog", ![r].read = rows]
    /\ UNCHANGED <<rest, tableVars, cached, lock, faults>>

ReadToRemove(r) ==
    LET p == requests[r].slug
    IN  /\ At(r, "read") /\ requests[r].op = "remove"
        /\ IF p \in Slugs(rows) /\ Dependents(rows, p) = {}
           THEN /\ requests' = [requests EXCEPT
                      ![r].pc = "write", ![r].read = rows,
                      ![r].change = {w \in rows : w.slug = p}]
                /\ UNCHANGED lock
           ELSE Refuse(r)
        /\ UNCHANGED <<rest, tableVars, cached, faults>>

\* What add does with the catalog: refuse, find nothing new, or go on to write.
AddFrom(r, c) ==
    LET q == requests[r]
        new == Needed(c, q.slug, Slugs(q.read))
    IN  IF q.slug \notin Offered(c) \/ ~(new \subseteq Offered(c)) THEN Refuse(r)
        ELSE IF new = {} THEN Done(r)
        ELSE /\ requests' = [requests EXCEPT ![r].pc = "write",
                                             ![r].change = {Entry(c, p) : p \in new}]
             /\ UNCHANGED lock

\* A view only wants the titles and does without them.
UseCatalog(r, c) == IF requests[r].op = "view" THEN Answer(r) /\ UNCHANGED lock ELSE AddFrom(r, c)

\* DpcCatalog.plugins, whose lock makes it one step.  The ten minutes of the copy
\* have passed or not, and the site offers what it may; a refresh that fails
\* serves the copy there is, however old.
Serve(r) ==
    /\ At(r, "catalog") /\ cached # None
    /\ UseCatalog(r, cached)
    /\ UNCHANGED <<rest, tableVars, cached, faults>>

Fetch(r) ==
    /\ At(r, "catalog")
    /\ \E c \in DOMAIN Catalogs :
         /\ cached' = c
         /\ UseCatalog(r, c)
    /\ UNCHANGED <<rest, tableVars, faults>>

CatalogUnavailable(r) ==
    /\ At(r, "catalog") /\ cached = None
    /\ IF requests[r].op = "view" THEN Answer(r) /\ UNCHANGED lock ELSE Refuse(r)
    /\ UNCHANGED <<rest, tableVars, cached, faults>>

\* Mutant: an add writes what is new, and not what was there.
NewOnly(q) == IF q.op = "add" THEN q.change ELSE q.read \ q.change

\* The list a change leaves.
Target(q) == IF q.op = "add" THEN q.read \cup q.change ELSE q.read \ q.change

\* Is the server that q was checked against still the one of the name?
SameServer(q) == q.life = lives /\ ~Gone

Tear == history' = [history EXCEPT !.torn = TRUE]
Write(q, torn) == history' = [history EXCEPT !.torn = torn, !.foreign = @ \/ ~SameServer(q)]

\* kubectl apply.  It may fail without effect or, its answer lost, with one.
WriteConfigMap(r) ==
    /\ At(r, "write") /\ namespace
    /\ configMap' = Text(Target(requests[r]))
    /\ \/ To(r, "hash") /\ Write(requests[r], history.torn) /\ UNCHANGED <<lock, faults>>
       \/ Fault /\ Refuse(r) /\ Write(requests[r], TRUE)
    /\ UNCHANGED <<serverVars, job, namespace, pod, booted, tableVars, cached, asked>>

WriteFails(r) ==
    /\ At(r, "write")
    /\ IF namespace THEN Fault ELSE UNCHANGED faults
    /\ Refuse(r)
    /\ UNCHANGED <<rest, tableVars, cached>>

StoreHash(r) ==
    /\ At(r, "hash")
    /\ SetWritten(Text(Target(requests[r])))
    /\ To(r, "rows")
    /\ UNCHANGED <<rest, rows, cached, lock, faults>>

\* sqlite raises after the ConfigMap is written.
StoreFails(r) ==
    /\ At(r, "hash") \/ At(r, "rows")
    /\ Fault /\ Refuse(r) /\ Tear
    /\ UNCHANGED <<serverVars, job, clusterVars, tableVars, cached, asked>>

\* add_plugins or remove_plugin, one transaction, and the event.
StoreRows(r) ==
    LET q == requests[r]
    IN  /\ At(r, "rows")
        /\ rows' = IF q.op = "add" THEN Inserted(rows, q.change)
                   ELSE {w \in rows : w.slug # q.slug}
        /\ history' =
             [history EXCEPT
                  !.torn = @ /\ ~SameServer(q),
                  !.stray = @ \/ ~SameServer(q),
                  !.removed = IF q.op = "add" THEN @ \ Slugs(q.change) ELSE @ \cup {q.slug}]
        /\ Done(r)
        /\ UNCHANGED <<serverVars, job, clusterVars, state, cached, asked, faults>>

-----------------------------------------------------------------------------
(* A view, and apply *)

View(r) ==
    /\ At(r, "idle") /\ ~Gone /\ Ask
    /\ requests' = [requests EXCEPT ![r] =
          [Idle EXCEPT !.pc = "state", !.op = "view", !.by = ledger[Name].tenant]]
    /\ UNCHANGED <<serverSide, tableVars, cached, lock, faults>>

\* servers.get: the row, and for one that is ready what the cluster says.
GetState(r) ==
    /\ At(r, "state")
    /\ IF ~Mine(r) THEN Answer(r)
       ELSE requests' = [requests EXCEPT ![r].pc = "seed",
                                         ![r].up = Is("ready") /\ pod = "up"]
    /\ UNCHANGED <<rest, tableVars, cached, lock, faults>>

Waiting(written, applied) == written # None /\ written # applied

\* plugin_state.
ReadHashes(r) ==
    LET written == IF state = None THEN None ELSE state.written
        applied == IF state = None THEN None ELSE state.applied
    IN  /\ At(r, "hashes")
        /\ requests' = [requests EXCEPT ![r] =
              IF requests[r].up
              THEN [@ EXCEPT !.pc = "report", !.written = written, !.applied = applied]
              ELSE [@ EXCEPT !.pc = "catalog", !.pending = Waiting(written, applied)]]
        /\ UNCHANGED <<rest, tableVars, cached, lock, faults>>

Answered(r, applied) ==
    requests' = [requests EXCEPT ![r] = [Idle EXCEPT
        !.pc = "catalog", !.op = "view", !.pending = Waiting(requests[r].written, applied)]]

\* plugins_applied: no answer, or what the boot script reports.
ReadReport(r) ==
    /\ At(r, "report")
    /\ \/ Answered(r, requests[r].applied)
       \/ /\ pod = "up" /\ booted # None
          /\ requests' = [requests EXCEPT ![r].pc = "store", ![r].applied = booted]
    /\ UNCHANGED <<rest, tableVars, cached, lock, faults>>

StoreApplied(r) ==
    /\ At(r, "store")
    /\ SetApplied(requests[r].applied)
    /\ Answered(r, requests[r].applied)
    /\ UNCHANGED <<rest, rows, cached, lock, faults>>

\* The state is read, and the pod then deleted if it is still there.
Apply(r) ==
    /\ At(r, "idle") /\ Is("ready") /\ pod = "up" /\ Ask
    /\ requests' = [requests EXCEPT ![r] = [Idle EXCEPT !.pc = "restart", !.op = "apply"]]
    /\ UNCHANGED <<serverSide, tableVars, cached, lock, faults>>

RestartPod(r) ==
    /\ At(r, "restart")
    /\ pod' = IF pod \in {"waking", "up"} THEN "waking" ELSE pod
    /\ Answer(r)
    /\ UNCHANGED <<serverVars, job, namespace, configMap, booted, tableVars, cached, lock,
                   asked, faults, history>>

-----------------------------------------------------------------------------
(* The wrapper's pod: woken and put to sleep, stopped and started by others; *)
(* at every boot its script installs from the ConfigMap and reports that.    *)

podRest == <<serverVars, job, namespace, configMap, tableVars, cached, lock, requests,
             asked, faults, history>>

Boot ==
    /\ pod = "waking"
    /\ pod' = "up" /\ booted' = configMap
    /\ UNCHANGED podRest

ChangePod ==
    /\ \/ pod = "asleep" /\ pod' = "waking"
       \/ pod = "up" /\ pod' = "asleep"
    /\ UNCHANGED <<booted, podRest>>

-----------------------------------------------------------------------------
(* The jobs: _provision and _remove *)

jobRest == <<cached, lock, requests, asked>>

Create(t) ==
    /\ lives < MaxLives /\ lives' = lives + 1
    /\ Servers!Accept(t, Name)
    /\ job' = "namespace"
    /\ UNCHANGED <<restarts, clusterVars, tableVars, faults, history, jobRest>>

MakeNamespace ==
    /\ job = "namespace" /\ job' = "configmap"
    /\ namespace' = TRUE
    /\ UNCHANGED <<serverVars, configMap, pod, booted, tableVars, faults, history, jobRest>>

\* _seed_plugin_selection: the ConfigMap, the rows, the hash.
SeedConfigMap ==
    /\ job = "configmap" /\ job' = "rows"
    /\ configMap' = Text(DefaultRows)
    /\ UNCHANGED <<serverVars, namespace, pod, booted, tableVars, faults, history, jobRest>>

SeedServer ==
    /\ job = "rows" /\ job' = "hash"
    /\ Seed
    /\ UNCHANGED <<serverVars, clusterVars, faults, history, jobRest>>

SeedHash ==
    /\ job = "hash" /\ job' = "install"
    /\ SetWritten(Text(DefaultRows))
    /\ UNCHANGED <<serverVars, clusterVars, rows, faults, history, jobRest>>

Install ==
    /\ job = "install" /\ job' = "rollout"
    /\ pod' = "waking"
    /\ UNCHANGED <<serverVars, namespace, configMap, booted, tableVars, faults, history, jobRest>>

Rollout ==
    /\ job = "rollout" /\ job' = "none"
    /\ pod = "up"
    /\ Servers!Created(Name) /\ Is("ready")'
    /\ UNCHANGED <<restarts, lives, clusterVars, tableVars, faults, history, jobRest>>

\* Mutant: the job ends and the row is never told.
CreateFailsSilently ==
    /\ job \in {"namespace", "configmap", "rows", "hash", "install", "rollout"} /\ job' = "none"
    /\ Fault
    /\ UNCHANGED <<serverVars, clusterVars, tableVars, history, jobRest>>

CreateFails ==
    /\ job \in {"namespace", "configmap", "rows", "hash", "install", "rollout"} /\ job' = "none"
    /\ Fault
    /\ Servers!Created(Name) /\ Is("failed")'
    /\ history' = [history EXCEPT !.torn = @ \/ job \in {"rows", "hash"}]
    /\ UNCHANGED <<restarts, lives, clusterVars, tableVars, jobRest>>

Delete ==
    /\ Servers!AcceptDelete(Name)
    /\ job' = "uninstall"
    /\ UNCHANGED <<restarts, lives, clusterVars, tableVars, faults, history, jobRest>>

\* The volume goes with the release, and the plugins with the volume.
ReleaseGoes == pod' = "none" /\ booted' = None /\ UNCHANGED <<namespace, configMap>>
NamespaceGoes == namespace' = FALSE /\ configMap' = None /\ UNCHANGED <<pod, booted>>

Uninstall ==
    /\ job = "uninstall" /\ job' = "unname"
    /\ ReleaseGoes
    /\ UNCHANGED <<serverVars, tableVars, faults, history, jobRest>>

DeleteNamespace ==
    /\ job = "unname" /\ job' = "forget"
    /\ NamespaceGoes
    /\ UNCHANGED <<serverVars, tableVars, faults, history, jobRest>>

\* delete_server: the three tables in one transaction.
ForgetServer ==
    /\ job = "forget" /\ job' = "none"
    /\ Servers!Deleted(Name)
    /\ rows' = {} /\ state' = None
    /\ history' = Unspoilt
    /\ UNCHANGED <<restarts, lives, clusterVars, faults, jobRest>>

\* The backup, helm or kubectl fails: without effect or, its answer lost, with one.
DeleteFails ==
    /\ job \in {"uninstall", "unname"} /\ job' = "none"
    /\ Fault
    /\ Servers!PutBack(Name)
    /\ \/ UNCHANGED clusterVars
       \/ job = "uninstall" /\ ReleaseGoes
       \/ job = "unname" /\ NamespaceGoes
    /\ UNCHANGED <<restarts, lives, tableVars, history, jobRest>>

-----------------------------------------------------------------------------

Writing(r) == requests[r].pc \in {"hash", "rows"}

\* What was being done is gone with the process, the lock and the cache too.
Restart ==
    /\ restarts < MaxCrashes
    /\ Servers!Restart
    /\ job' = "none" /\ lock' = None
    /\ cached' = None
    /\ requests' = [r \in Requests |-> Idle]
    /\ history' = [history EXCEPT !.torn =
         @ \/ job \in {"rows", "hash"} \/ \E r \in Requests : Writing(r)]
    /\ UNCHANGED <<lives, clusterVars, tableVars, asked, faults>>

Change(r) ==
    \/ \E p \in Plugins, op \in {"add", "remove"} : Begin(r, op, p)
    \/ WriteConfigMap(r) \/ WriteFails(r)

\* What a thread does without waiting for kubectl.
Proceed(r) ==
    \/ Acquire(r) \/ GiveUp(r)
    \/ SeedSelection(r) \/ ReadToAdd(r) \/ ReadToRemove(r)
    \/ Serve(r) \/ Fetch(r) \/ CatalogUnavailable(r)
    \/ StoreHash(r) \/ StoreFails(r) \/ StoreRows(r)
    \/ ReadHashes(r) \/ ReadReport(r) \/ StoreApplied(r)

Look(r) == View(r) \/ GetState(r) \/ Apply(r) \/ RestartPod(r)

Job ==
    \/ \E t \in Tenants : Create(t)
    \/ MakeNamespace \/ SeedConfigMap \/ SeedServer \/ SeedHash \/ Install \/ Rollout
    \/ CreateFails
    \/ Delete \/ Uninstall \/ DeleteNamespace \/ ForgetServer \/ DeleteFails

Next ==
    \/ \E r \in Requests : Change(r) \/ Proceed(r) \/ Look(r)
    \/ Job
    \/ Boot \/ ChangePod
    \/ Restart

Spec == Init /\ [][Next]_vars

\* A thread that waits for nothing but the lock, the database or the catalog,
\* all of which have timeouts, goes on; kubectl has none.  (Each of these steps
\* changes its request.)
Fairness == \A r \in Requests : WF_requests(Proceed(r))

FairSpec == Spec /\ Fairness

-----------------------------------------------------------------------------
(* Type invariant *)

AllRows == [slug : Plugins, tag : 0 .. Len(Catalogs), requires : SUBSET Plugins]
Pcs == {"idle", "lock", "seed", "read", "catalog", "write", "hash", "rows",
        "state", "hashes", "report", "store", "restart"}
RequestRecords ==
    [pc : Pcs, op : {"none", "add", "remove", "view", "apply"},
     by : Tenants \cup {None}, slug : Plugins \cup {None},
     life : Nat, read : SUBSET AllRows, change : SUBSET AllRows, up : BOOLEAN,
     written : {None} \cup Texts, applied : {None} \cup Texts, pending : BOOLEAN]
Inside == {"seed", "read", "catalog", "write", "hash", "rows"}
Jobs == {"namespace", "configmap", "rows", "hash", "install", "rollout",
         "uninstall", "unname", "forget"}

\* What each variable may hold; and there is a job exactly while the row says
\* that one is at work.
TypeOK ==
    /\ ledger \in [{Name} -> {None} \cup ServerRows]
    /\ lives \in Nat /\ job \in Jobs \cup {"none"}
    /\ job # "none" <=> Is("provisioning") \/ Is("deleting")
    /\ namespace \in BOOLEAN /\ pod \in {"none", "asleep", "waking", "up"}
    /\ configMap \in {None} \cup Texts /\ booted \in {None} \cup Texts
    /\ rows \in SUBSET AllRows
    /\ state \in {None} \cup StateRows
    /\ cached \in {None} \cup DOMAIN Catalogs
    /\ lock \in Requests \cup {None}
    /\ requests \in [Requests -> RequestRecords]

-----------------------------------------------------------------------------
(* Safety *)

\* One selection change at a time on a server: the lock is held by the request
\* that is between taking it and giving it back, however that ends, and by
\* nobody when there is none.
Changing(r) == requests[r].op \in {"add", "remove"} /\ requests[r].pc \in Inside
LockHeld == \A r \in Requests : Changing(r) <=> lock = r

\* What a selected plugin requires is selected too, whatever adds and removes
\* run into each other: a remove must not decide on rows that an add is about
\* to extend.  (Except after a change that was still under way when its server
\* had been deleted, and which writes its rows whatever server there is then:
\* they stay until that one is deleted.)
Closed == ~history.stray => \A w \in rows : w.requires \subseteq Slugs(rows)

\* While no change is under way on a ready server that still has its namespace
\* (a delete that failed late, or was interrupted, may have taken it), the
\* ConfigMap holds the selection the rows show, and its hash is the one written
\* last; so the next boot installs what the tenant sees.  A change that stopped
\* between its ConfigMap and its rows tears them apart until a later one is done.
Agreement ==
    Is("ready") /\ namespace /\ lock = None /\ ~history.torn /\ ~history.stray /\ state # None =>
        /\ state.written = configMap
        /\ configMap # None => configMap = Text(rows)

\* A boot never installs a plugin without what it requires, also when it comes
\* between the ConfigMap of a change and its rows, or after a change, a create or a
\* delete that was cut off there: each text that is written is a selection of its
\* own, complete by the jars it pins.  (Except after a change that was still under
\* way when its server had been deleted.)
Requires(p, tag) == IF tag = 0 THEN Defaults[p] ELSE Catalogs[tag][p]
Complete(text) == \A jar \in text : Requires(jar[1], jar[2]) \subseteq {other[1] : other \in text}

InstallsComplete ==
    ~history.stray /\ ~history.foreign =>
        /\ configMap # None => Complete(configMap)
        /\ booted # None => Complete(booted)

\* A plugin a tenant has removed is not selected again unless it is added: the
\* defaults are seeded once in a server's life.
RemovedStaysRemoved == ~history.stray => history.removed \cap Slugs(rows) = {}

-----------------------------------------------------------------------------
(* Refinement *)

Listing(c) == [p \in Offered(c) |-> Entry(c, p)]

Chosen == INSTANCE SelectionLedger WITH
    Listings <- {Listing(c) : c \in DOMAIN Catalogs},
    seeded <- state # None,
    spoiled <- history.stray

\* The steps a change takes, from reading the rows through the catalog, kubectl
\* and the hash to writing them, amount to one: what add and remove decided on
\* what they had read is right for the rows they write to, though views seed,
\* jobs create and delete and the process restarts meanwhile.
KeepsSelection == Chosen!Spec

-----------------------------------------------------------------------------
(* A claim of the documentation that what follows refutes *)

Waits == Is("ready") /\ pod = "asleep" /\ lock = None /\ booted # None /\ booted # configMap
Views(r) == At(r, "catalog") /\ requests[r].op = "view"

\* README: "`pending` is true while a change waits".  A view of a server that
\* sleeps and has been started before answers so when the ConfigMap holds
\* another selection than the one the last start installed.
PendingWhileAChangeWaits ==
    [][\A r \in Requests : Views(r) /\ At(r, "idle")' /\ Waits => requests[r].pending]_vars

-----------------------------------------------------------------------------
(* Liveness, under FairSpec *)

\* A request that is not itself in a call of kubectl is answered or comes to
\* one: in particular nobody waits for ever behind a change whose kubectl hangs.
Kubectl == {"write", "state", "restart"}
Answers(r) == ~At(r, "idle") ~> requests[r].pc \in {"idle"} \cup Kubectl
=============================================================================
