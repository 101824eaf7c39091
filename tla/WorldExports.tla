----------------------------- MODULE WorldExports -----------------------------
(***************************************************************************)
(* How a tenant's world is exported, kept and removed.                     *)
(*                                                                         *)
(* export_service.py reserves an export in one transaction (db.py) and     *)
(* hands it to a pool of one worker.  The worker reads the world through a *)
(* pod into a staging directory, and moves that to                         *)
(* <export_dir>/<server>/<id> once the server is known to be still there.  *)
(* Three others remove results while it does so: the owner's DELETE, the   *)
(* sweep that a listing or a start runs when it is due, and forget_server, *)
(* which a delete of the server calls after the row is gone.               *)
(*                                                                         *)
(* The servers themselves behave as ServerLedger says, which               *)
(* ServerLifecycle implements.  Routes that only read (get, preview, link, *)
(* download) change nothing and are left out.                              *)
(***************************************************************************)
EXTENDS Integers, Sequences, FiniteSets

CONSTANTS
    Names,        \* server names
    Tenants,      \* tenant ids
    MaxServers,   \* settings.max_servers_per_tenant
    Requests,     \* request threads of the HTTP server
    DailyLimit,   \* settings.export_daily_limit
    None,         \* no row, no tenant, no name
    MaxExports,   \* bound: reservations in a behaviour
    MaxLives,     \* bound: servers created in a behaviour
    MaxCrashes    \* bound: restarts of the process

ASSUME ExportLimitAssumption == DailyLimit \in Nat
ASSUME NoRowAssumption == None \notin [server : Names, tenant : Tenants]
ASSUME ExportBoundAssumption ==
    MaxExports \in Nat /\ MaxLives \in Nat /\ MaxCrashes \in Nat

VARIABLES
    ledger, restarts,   \* the servers: see ServerLedger
    lives,      \* servers created so far
    rows,       \* the status of each row of world_exports, "none" without a row
    source,     \* whose export it is, of which server: its row, its event, its path
    expired,    \* exports whose expires_at has passed
    recent,     \* exports whose export.requested event is less than a day old
    requests,   \* what each request thread is doing
    queue,      \* exports submitted to the pool, oldest first
    worker,     \* the export the pool's worker is at, and where
    hooks,      \* calls of forget_server by deletes that have removed the row
    folders,    \* names with a directory <export_dir>/<name>
    published,  \* exports with a directory <export_dir>/<server>/<id>
    history     \* ghost: exports somebody set out to remove, or that raced a removal

serverVars == <<ledger, restarts, lives>>
rowVars == <<rows, source, expired, recent>>
fileVars == <<folders, published>>
restOfState == <<serverVars, rowVars, queue, worker, hooks, fileVars, history>>
vars == <<restOfState, requests>>

Servers == INSTANCE ServerLedger

Exports == 1 .. MaxExports
Active == {"queued", "running"}
Ended == {"ready", "failed"}

Idle == [pc |-> "idle", tenant |-> None, name |-> None, create |-> FALSE, up |-> FALSE,
         export |-> 0, todo |-> {}, known |-> {}, old |-> {}, visit |-> {}]
Resting == [pc |-> "idle", export |-> 0]

Init ==
    /\ Servers!Init
    /\ lives = 0
    /\ rows = [e \in Exports |-> "none"]
    /\ source = [e \in Exports |-> None]
    /\ expired = {} /\ recent = {}
    /\ requests = [r \in Requests |-> Idle]
    /\ queue = <<>> /\ worker = Resting /\ hooks = {}
    /\ folders = {} /\ published = {}
    /\ history = [removed |-> {}, raced |-> {}]

-----------------------------------------------------------------------------
(* The world_exports table. *)

Rows == {e \in Exports : rows[e] # "none"}
RowsOf(n) == {e \in Rows : source[e].server = n}
Owns(t, n) == ledger[n] # None /\ ledger[n].tenant = t

\* Mutant: INSERT OR REPLACE brings a row back that went meanwhile.
Upsert(e, status) == [rows EXCEPT ![e] = status]

\* UPDATE world_exports ... WHERE id = ...: no row, no effect.
SetStatus(e, status) == IF e \in Rows THEN [rows EXCEPT ![e] = status] ELSE rows

ActiveOf(t, n) == {e \in RowsOf(n) : source[e].tenant = t /\ rows[e] \in Active}
RecentOf(t) == {e \in recent : source[e].tenant = t}

\* Mutant: an id that a deleted export had is given out again.
ReusedExport == Cardinality(Rows) + 1

\* secrets.token_hex(6): an id nobody has used.
NewExport == Cardinality({e \in Exports : source[e] # None}) + 1

\* Mutants: one condition is missing; the limit counts rows, not events.
ReserveTwice(t, n) == Cardinality(RecentOf(t)) < DailyLimit
ReserveByRows(t, n) ==
    ActiveOf(t, n) = {} /\ Cardinality({e \in Rows : source[e].tenant = t}) < DailyLimit

\* INSERT ... WHERE NOT EXISTS ... AND (SELECT COUNT(*) FROM events ...) < limit.
CanReserve(t, n) == ActiveOf(t, n) = {} /\ Cardinality(RecentOf(t)) < DailyLimit

-----------------------------------------------------------------------------
(* A request thread sweeps: on its way to a listing or a start, when due.  *)
(* Whether the last sweep is ten minutes ago is left open: two threads may *)
(* both find that it is.                                                   *)

Answer(r) == requests' = [requests EXCEPT ![r] = Idle]

\* Mutant: what is queued or running is not remembered as known.
ScannedEnded(q) ==
    LET ended == {e \in Rows : rows[e] \in Ended}
    IN  [q EXCEPT !.pc = "sweep rows", !.todo = ended, !.old = ended \cap expired]

\* all_exports: what is queued or running is known to the rest of the sweep.
Scanned(q) ==
    LET ended == {e \in Rows : rows[e] \in Ended}
    IN  [q EXCEPT !.pc = "sweep rows", !.todo = ended, !.old = ended \cap expired,
                  !.known = Rows \ ended]

List(r, t, n) ==
    /\ requests[r].pc = "idle"
    /\ Owns(t, n)
    /\ requests' = [requests EXCEPT ![r] = Scanned(Idle)]
    /\ UNCHANGED restOfState

\* get_server of one row that has ended: remove the export, or know it.
SweepRow(r) ==
    LET q == requests[r]
    IN  /\ q.pc = "sweep rows"
        /\ \E e \in q.todo :
             IF e \in q.old \/ ~Owns(source[e].tenant, source[e].server)
             THEN /\ requests' = [requests EXCEPT ![r].pc = "sweep drop", ![r].export = e,
                                                  ![r].todo = @ \ {e}]
                  /\ published' = published \ {e}
                  /\ history' = [history EXCEPT !.removed = @ \cup {e}]
             ELSE /\ requests' = [requests EXCEPT ![r].known = @ \cup {e}, ![r].todo = @ \ {e}]
                  /\ UNCHANGED <<published, history>>
        /\ UNCHANGED <<serverVars, rowVars, queue, worker, hooks, folders>>

SweepDropRow(r) ==
    /\ requests[r].pc = "sweep drop"
    /\ rows' = [rows EXCEPT ![requests[r].export] = "none"]
    /\ requests' = [requests EXCEPT ![r].pc = "sweep rows", ![r].export = 0]
    /\ UNCHANGED <<serverVars, source, expired, recent, queue, worker, hooks, fileVars, history>>

SweepFolders(r) ==
    /\ requests[r].pc = "sweep rows" /\ requests[r].todo = {}
    /\ requests' = [requests EXCEPT ![r].pc = "sweep dirs", ![r].visit = folders]
    /\ UNCHANGED restOfState

\* What a sweep leaves of a server's directory: what it knows, and the
\* directory itself when that is anything.
Unknown(r, n) == {e \in published : source[e].server = n /\ e \notin requests[r].known}
StillHas(n) == \E e \in published' : source[e].server = n

SweepFolder(r) ==
    /\ requests[r].pc = "sweep dirs"
    /\ \E n \in requests[r].visit \cap folders :
         /\ published' = published \ Unknown(r, n)
         /\ folders' = IF StillHas(n) THEN folders ELSE folders \ {n}
         /\ requests' = [requests EXCEPT ![r].visit = @ \ {n}]
    /\ UNCHANGED <<serverVars, rowVars, queue, worker, hooks, history>>

\* One that is gone is skipped, or raises when it went after is_dir, and then
\* the whole request fails.
SweepGoneFolder(r) ==
    /\ requests[r].pc = "sweep dirs"
    /\ \E n \in requests[r].visit \ folders :
         \/ requests' = [requests EXCEPT ![r].visit = @ \ {n}]
         \/ Answer(r)
    /\ UNCHANGED restOfState

Swept(q) == q.pc = "sweep dirs" /\ q.visit = {}

SweepEnd(r) ==
    /\ Swept(requests[r]) /\ ~requests[r].create
    /\ Answer(r)
    /\ UNCHANGED restOfState

-----------------------------------------------------------------------------
(* A request thread starts an export, or deletes one. *)

\* The row is read before the sweep, and its status looked at after it.
StartExport(r, t, n, due) ==
    LET q == [Idle EXCEPT !.pc = "reserve", !.create = TRUE, !.tenant = t, !.name = n,
                          !.up = ledger[n].status = "ready"]
    IN  /\ requests[r].pc = "idle"
        /\ NewExport \in Exports
        /\ Owns(t, n)
        /\ requests' = [requests EXCEPT ![r] = IF due THEN Scanned(q) ELSE q]
        /\ UNCHANGED restOfState

AtReserve(q) == q.create /\ (q.pc = "reserve" \/ Swept(q))

\* Directories of the name may still go by what was known of its rows before now:
\* forget_server has removed the rows, a sweep has read them.
Removing(n) ==
    \/ \E h \in hooks : h.name = n /\ h.pc = "dirs"
    \/ \E r \in Requests : \/ requests[r].pc \in {"sweep rows", "sweep drop"}
                           \/ requests[r].pc = "sweep dirs" /\ n \in requests[r].visit

\* The row's status, state_of, which may refuse or raise, and _refuse_export,
\* which asks of the rows what the reservation asks of them again.
RefuseExport(r) ==
    /\ AtReserve(requests[r])
    /\ Answer(r)
    /\ UNCHANGED restOfState

ReserveExport(r) ==
    LET q == requests[r]
        e == NewExport
    IN  /\ AtReserve(q)
        /\ q.up /\ CanReserve(q.tenant, q.name)
        /\ e \in Exports
        /\ rows' = [rows EXCEPT ![e] = "queued"]
        /\ source' = [source EXCEPT ![e] = [server |-> q.name, tenant |-> q.tenant]]
        /\ recent' = recent \cup {e}
        /\ requests' = [requests EXCEPT ![r] = [Idle EXCEPT !.pc = "submit", !.export = e]]
        /\ history' = IF Removing(q.name) THEN [history EXCEPT !.raced = @ \cup {e}] ELSE history
        /\ UNCHANGED <<serverVars, expired, queue, worker, hooks, fileVars>>

SubmitExport(r) ==
    /\ requests[r].pc = "submit"
    /\ queue' = Append(queue, requests[r].export)
    /\ Answer(r)
    /\ UNCHANGED <<serverVars, rowVars, worker, hooks, fileVars, history>>

\* Two reads, of the server and of the export: what the first one said of the
\* owner the second one's row says again.
DeleteExport(r, t, n, e) ==
    /\ requests[r].pc = "idle"
    /\ Owns(t, n)
    /\ e \in RowsOf(n) /\ source[e].tenant = t
    /\ e \notin expired /\ rows[e] \in Ended
    /\ requests' = [requests EXCEPT ![r].pc = "drop", ![r].export = e]
    /\ UNCHANGED restOfState

DropFiles(r) ==
    LET e == requests[r].export
    IN  /\ requests[r].pc = "drop"
        /\ published' = published \ {e}
        /\ history' = [history EXCEPT !.removed = @ \cup {e}]
        /\ requests' = [requests EXCEPT ![r].pc = "drop row"]
        /\ UNCHANGED <<serverVars, rowVars, queue, worker, hooks, folders>>

DropRow(r) ==
    /\ requests[r].pc = "drop row"
    /\ rows' = [rows EXCEPT ![requests[r].export] = "none"]
    /\ Answer(r)
    /\ UNCHANGED <<serverVars, source, expired, recent, queue, worker, hooks, fileVars, history>>

-----------------------------------------------------------------------------
(* The worker: _run.  Its staging directory is its own, and left out. *)

At(pc) == worker.pc = pc
To(pc) == worker' = [worker EXCEPT !.pc = pc]
ServerGone == ledger[source[worker.export].server] = None

\* Mutant: the error is logged and the row forgotten.
FailSilently ==
    /\ worker' = Resting
    /\ UNCHANGED rows

\* _failed, whatever was raised.
Fail ==
    /\ rows' = SetStatus(worker.export, "failed")
    /\ worker' = Resting

\* get_export and the update to running: what comes between only removes the row.
Take ==
    /\ At("idle") /\ queue # <<>>
    /\ queue' = Tail(queue)
    /\ IF rows[Head(queue)] = "queued"
       THEN /\ rows' = [rows EXCEPT ![Head(queue)] = "running"]
            /\ worker' = [pc |-> "look", export |-> Head(queue)]
       ELSE UNCHANGED <<rows, worker>>
    /\ UNCHANGED <<serverVars, source, expired, recent, requests, hooks, fileVars, history>>

\* get_server, and state_of, which may raise.
Look ==
    /\ At("look")
    /\ \/ ~ServerGone /\ To("read") /\ UNCHANGED rows
       \/ Fail
    /\ UNCHANGED <<serverVars, source, expired, recent, requests, queue, hooks, fileVars, history>>

\* run_world_export, whose pod, command and archive may all fail, and get_server
\* once more.
ReadWorld ==
    /\ At("read")
    /\ \/ ~ServerGone /\ To("mkdir") /\ UNCHANGED rows
       \/ Fail
    /\ UNCHANGED <<serverVars, source, expired, recent, requests, queue, hooks, fileVars, history>>

MakeFolder ==
    /\ At("mkdir")
    /\ folders' = folders \cup {source[worker.export].server}
    /\ To("move")
    /\ UNCHANGED <<serverVars, rowVars, requests, queue, hooks, published, history>>

\* staging.rename(final): raises when a sweep has removed the empty folder.
Move ==
    /\ At("move")
    /\ IF source[worker.export].server \in folders
       THEN published' = published \cup {worker.export} /\ To("report") /\ UNCHANGED rows
       ELSE Fail /\ UNCHANGED published
    /\ UNCHANGED <<serverVars, source, expired, recent, requests, queue, hooks, folders, history>>

Report ==
    /\ At("report")
    /\ rows' = SetStatus(worker.export, "ready")
    /\ worker' = Resting
    /\ UNCHANGED <<serverVars, source, expired, recent, requests, queue, hooks, fileVars, history>>

WorkerStep == Take \/ Look \/ ReadWorld \/ MakeFolder \/ Move \/ Report

-----------------------------------------------------------------------------
(* forget_server, called by the job of a delete. *)

\* Mutant: only the rows of what has ended go.
ForgetEnded(h) ==
    /\ h.pc = "rows"
    /\ rows' = [e \in Exports |->
                  IF e \in RowsOf(h.name) /\ rows[e] \in Ended THEN "none" ELSE rows[e]]
    /\ hooks' = (hooks \ {h}) \cup {[h EXCEPT !.pc = "dirs"]}
    /\ UNCHANGED <<serverVars, source, expired, recent, requests, queue, worker, fileVars, history>>

ForgetRows(h) ==
    /\ h.pc = "rows"
    /\ rows' = [e \in Exports |-> IF e \in RowsOf(h.name) THEN "none" ELSE rows[e]]
    /\ hooks' = (hooks \ {h}) \cup {[h EXCEPT !.pc = "dirs"]}
    /\ UNCHANGED <<serverVars, source, expired, recent, requests, queue, worker, fileVars, history>>

\* The directories of the rows lie in the directory of the name.
ForgetFolder(h) ==
    LET gone == {e \in published : source[e].server = h.name}
    IN  /\ h.pc = "dirs"
        /\ published' = published \ gone
        /\ folders' = folders \ {h.name}
        /\ hooks' = hooks \ {h}
        /\ UNCHANGED <<serverVars, rowVars, requests, queue, worker, history>>

-----------------------------------------------------------------------------
(* The servers, as ServerLedger lets them behave.                          *)

serversRest == <<rowVars, requests, queue, worker, fileVars, history>>

ServerAccepted(t, n) ==
    /\ lives < MaxLives /\ lives' = lives + 1
    /\ Servers!Accept(t, n)
    /\ UNCHANGED <<restarts, hooks, serversRest>>

ServerChanges(n) ==
    /\ Servers!Created(n) \/ Servers!AcceptDelete(n) \/ Servers!PutBack(n)
    /\ UNCHANGED <<restarts, lives, hooks, serversRest>>

\* The row goes, and the job that deleted it has the hook to call.
ServerDeleted(n) ==
    /\ Servers!Deleted(n)
    /\ hooks' = hooks \cup {[name |-> n, pc |-> "rows", life |-> lives]}
    /\ UNCHANGED <<restarts, lives, serversRest>>

-----------------------------------------------------------------------------
(* Time, and a restart. *)

Expire(e) ==
    /\ rows[e] \in Ended /\ e \notin expired
    /\ expired' = expired \cup {e}
    /\ UNCHANGED <<serverVars, rows, source, recent, requests, queue, worker, hooks, fileVars, history>>

DayPasses(e) ==
    /\ e \in recent /\ \A f \in recent : e <= f
    /\ recent' = recent \ {e}
    /\ UNCHANGED <<serverVars, rows, source, expired, requests, queue, worker, hooks, fileVars, history>>

\* Mutant: what was still queued is left as it is.
InterruptedRunning(e) == IF rows[e] = "running" THEN "failed" ELSE rows[e]

Interrupted(e) == IF rows[e] \in Active THEN "failed" ELSE rows[e]

\* The process starts again: the servers recover, then recover_interrupted and
\* a whole sweep, all before the first request.
Restart ==
    LET status == [e \in Exports |-> Interrupted(e)]
        doomed == {e \in Rows : status[e] \in Ended
                      /\ (e \in expired \/ ledger[source[e].server] = None
                                        \/ ledger[source[e].server].tenant # source[e].tenant)}
        left == published \cap (Rows \ doomed)
    IN  /\ restarts < MaxCrashes
        /\ Servers!Restart
        /\ rows' = [e \in Exports |-> IF e \in doomed THEN "none" ELSE status[e]]
        /\ published' = left
        /\ folders' = {n \in folders : \E e \in left : source[e].server = n}
        /\ requests' = [r \in Requests |-> Idle]
        /\ queue' = <<>> /\ worker' = Resting /\ hooks' = {}
        /\ UNCHANGED <<lives, source, expired, recent, history>>

-----------------------------------------------------------------------------

Sweep(r) ==
    \/ \E t \in Tenants, n \in Names : List(r, t, n)
    \/ SweepRow(r) \/ SweepDropRow(r) \/ SweepFolders(r) \/ SweepFolder(r)
    \/ SweepGoneFolder(r) \/ SweepEnd(r)

Start(r) ==
    \/ \E t \in Tenants, n \in Names, due \in BOOLEAN : StartExport(r, t, n, due)
    \/ RefuseExport(r) \/ ReserveExport(r) \/ SubmitExport(r)

Drop(r) ==
    \/ \E t \in Tenants, n \in Names, e \in Exports : DeleteExport(r, t, n, e)
    \/ DropFiles(r) \/ DropRow(r)

ServerStep ==
    \/ \E t \in Tenants, n \in Names : ServerAccepted(t, n)
    \/ \E n \in Names : ServerChanges(n) \/ ServerDeleted(n)
    \/ \E h \in hooks : ForgetRows(h) \/ ForgetFolder(h)

Time == \E e \in Exports : Expire(e) \/ DayPasses(e)

Next ==
    \/ \E r \in Requests : Sweep(r) \/ Start(r) \/ Drop(r)
    \/ WorkerStep
    \/ ServerStep
    \/ Time
    \/ Restart

Spec == Init /\ [][Next]_vars

\* The worker goes on with what it was given, and a request thread that
\* reserved an export goes on to submit it; the pod has a deadline.
Fairness == WF_vars(WorkerStep) /\ \A r \in Requests : WF_vars(SubmitExport(r))

FairSpec == Spec /\ Fairness

-----------------------------------------------------------------------------
(* Type invariant *)

RequestRecords ==
    [pc : {"idle", "sweep rows", "sweep drop", "sweep dirs", "reserve", "submit",
           "drop", "drop row"},
     tenant : Tenants \cup {None}, name : Names \cup {None}, create : BOOLEAN, up : BOOLEAN,
     export : Exports \cup {0}, todo : SUBSET Exports, known : SUBSET Exports,
     old : SUBSET Exports, visit : SUBSET Names]

WorkerPcs == {"idle", "look", "read", "mkdir", "move", "report"}

\* What each variable may hold; an export that anything is known of has been
\* reserved, and only what has ended expires.
TypeOK ==
    /\ lives \in 0 .. MaxLives
    /\ rows \in [Exports -> {"none"} \cup Active \cup Ended]
    /\ source \in [Exports -> [server : Names, tenant : Tenants] \cup {None}]
    /\ requests \in [Requests -> RequestRecords]
    /\ \A r \in Requests :
         requests[r].pc \in {"submit", "drop", "drop row", "sweep drop"} => requests[r].export # 0
    /\ queue \in Seq(Exports)
    /\ worker \in [pc : WorkerPcs, export : Exports \cup {0}]
    /\ At("idle") <=> worker.export = 0
    /\ hooks \subseteq [name : Names, pc : {"rows", "dirs"}, life : 0 .. MaxLives]
    /\ folders \subseteq Names
    /\ \A e \in Exports : source[e] = None => rows[e] = "none" /\ e \notin recent
    /\ expired \cup recent \cup published \cup history.removed \cup history.raced
          \subseteq {e \in Exports : source[e] # None}
    /\ \A e \in Rows \cap expired : rows[e] \in Ended

-----------------------------------------------------------------------------
(* Safety *)

\* However many starts race, a tenant has one export of a server at a time.
OneActiveExport == \A t \in Tenants, n \in Names : Cardinality(ActiveOf(t, n)) <= 1

\* ... and starts no more than DailyLimit of them in a day, whatever becomes of
\* the exports and of the server: the count is of events, which outlive both.
DailyLimitHeld == \A t \in Tenants : Cardinality(RecentOf(t)) <= DailyLimit

\* A row that is queued or running has a request, a place in the queue or the
\* worker that will end it; recover_interrupted ends the others.
ActiveIsWorkedOn ==
    \A e \in Rows : rows[e] \in Active =>
        \/ \E r \in Requests : requests[r].pc = "submit" /\ requests[r].export = e
        \/ rows[e] = "queued" /\ \E i \in DOMAIN queue : queue[i] = e
        \/ rows[e] = "running" /\ worker.export = e

\* An export that is ready keeps its files until somebody sets out to remove
\* that export.  The sweep removes directories by name, and must not take one for
\* unknown whose row is there; forget_server works by name too, and an export that
\* the next server of the name begins before the rows go must go whole, row and
\* all.  (Except an export that was reserved after the rows of its server had been
\* read by a sweep, or removed by forget_server, whose directories were still to go.)
ReadyIsPublished ==
    \A e \in Rows : rows[e] = "ready" => e \in published \cup history.removed \cup history.raced

-----------------------------------------------------------------------------
(* Refinement *)

\* What GET finds: no row, before the export is asked for or after it is gone.
Shown(e) ==
    IF rows[e] # "none" THEN rows[e] ELSE IF source[e] = None THEN "unasked" ELSE "gone"

Promised == INSTANCE ExportLedger WITH
    Keys <- [server : Names, tenant : Tenants],
    shown <- [e \in Exports |-> Shown(e)],
    whose <- source

\* The rows keep the promise, though a row may go while the worker is at it and
\* three others remove: an export ends once, from running, the next one begins
\* when it has, and none that is gone comes back.
KeepsExports == Promised!Spec

-----------------------------------------------------------------------------
(* Liveness, under FairSpec *)

\* Every export that was accepted ends: ready, failed, or gone with its server.
ExportsEnd == \A e \in Exports : rows[e] \in Active ~> rows[e] \notin Active
=============================================================================
