------------------------- MODULE ServerSafetyProofs -------------------------
(***************************************************************************)
(* Proofs of ServerLifecycle's safety invariants, for every set of names,  *)
(* tenants and request threads, every cap, pool size and bound.            *)
(***************************************************************************)
EXTENDS ServerLifecycleProofs

Busy == {"provisioning", "deleting"}
ClaimPcs == {"provision", "remove"}

(***************************************************************************)
(* Who works on a row.  Every action is, for the rows and the work on      *)
(* them, one of a few forms of step; each form keeps Work.                 *)
(***************************************************************************)
Work == WorkMatchesRow /\ OneWorker /\ NoOrphanRow

\* What the records of a typed state hold.
LEMMA TypedFacts ==
    ASSUME Typed
    PROVE  /\ servers \in [Names -> Rows \cup {None}]
           /\ requests \in [Requests -> RequestRecords]
           /\ cluster \in [Names -> Namespaces]
           /\ \A r \in Requests : requests[r].pc # "idle" =>
                  requests[r].name \in Names /\ requests[r].tenant \in Tenants
           /\ \A r \in Claiming : requests[r].life \in Lives
           /\ \A j \in jobs :
                  /\ j.name \in Names /\ j.life \in Lives
                  /\ j.step \in ProvisionSteps \cup RemoveSteps
                  /\ j.prior \in {"none", "ready", "failed"}
                  /\ j.step \in RemoveSteps => j.prior # "none"
BY DEF Typed, OthersOK, JobsOK, RequestOK, Claiming, JobRecords

\* A row that is neither provisioning nor deleting has nobody working on it.
LEMMA IdleRowHasNoWorker ==
    ASSUME Typed, WorkMatchesRow, NEW n \in Names,
           servers[n] = None \/ servers[n].status \notin Busy
    PROVE  /\ \A r \in Claiming : requests[r].name # n
           /\ \A j \in Working : j.name # n
<1>1. ASSUME NEW r \in Claiming, requests[r].name = n PROVE FALSE
    BY <1>1 DEF Claiming, WorkMatchesRow, RowIs, Busy
<1>2. ASSUME NEW j \in Working, j.name = n PROVE FALSE
  <2>1. j.step \in ProvisionSteps \/ j.step \in RemoveSteps \ {"record"}
    BY <1>2, TypedFacts DEF Working
  <2> QED BY <1>2, <2>1 DEF Working, WorkMatchesRow, RowIs, Busy
<1> QED BY <1>1, <1>2

\* A step of a request that neither has a claim nor gets one.
LEMMA QuietRequestKeepsWork ==
    ASSUME Typed, Work, UNCHANGED <<servers, jobs>>, NEW r \in Requests,
           requests[r].pc \notin ClaimPcs, requests'[r].pc \notin ClaimPcs,
           \A s \in Requests \ {r} : requests'[s] = requests[s]
    PROVE  Work'
<1>1. Claiming' = Claiming /\ \A s \in Claiming : requests'[s] = requests[s]
    BY DEF Claiming, ClaimPcs
<1>2. Working' = Working
    BY DEF Working
<1>3. WorkMatchesRow'
    BY <1>1 DEF Work, WorkMatchesRow, RowIs, ClaimPcs
<1>4. OneWorker'
    BY <1>1, <1>2 DEF Work, OneWorker
<1>5. NoOrphanRow'
    BY <1>1, <1>2 DEF Work, NoOrphanRow
<1> QED BY <1>3, <1>4, <1>5 DEF Work

\* A request takes a row nobody works on.
LEMMA ClaimKeepsWork ==
    ASSUME Typed, Work, UNCHANGED jobs, NEW r \in Requests, NEW q, NEW row \in Rows,
           q.name \in Names,
           servers[q.name] = None \/ servers[q.name].status \notin Busy,
           servers' = [servers EXCEPT ![q.name] = row],
           requests' = [requests EXCEPT ![r] = q],
           requests[r].pc \notin ClaimPcs,
           \/ q.pc = "provision" /\ row.status = "provisioning" /\ row.tenant = q.tenant
           \/ q.pc = "remove" /\ row.status = "deleting",
           row.life = q.life
    PROVE  Work'
<1> DEFINE n == q.name
<1>0. /\ servers \in [Names -> Rows \cup {None}] /\ requests \in [Requests -> RequestRecords]
      /\ \A j \in jobs : j.name \in Names
      /\ \A s \in Claiming : requests[s].name \in Names
    BY TypedFacts DEF Claiming
<1>1. /\ \A s \in Claiming : requests[s].name # n
      /\ \A j \in Working : j.name # n
    BY IdleRowHasNoWorker DEF Work
<1>2. /\ Claiming' = Claiming \cup {r}
      /\ requests'[r] = q /\ r \notin Claiming
      /\ \A s \in Claiming : requests'[s] = requests[s]
    BY <1>0 DEF Claiming, ClaimPcs
<1>3. Working' = Working
    BY DEF Working
<1>4. servers'[n] = row /\ row # None /\ \A m \in Names : m # n => servers'[m] = servers[m]
    BY <1>0, NoneAssumption
<1>5. WorkMatchesRow'
  <2>1. ASSUME NEW s \in Claiming, requests[s].pc = "provision"
        PROVE  RowIs(requests[s].name, "provisioning", requests[s].life)'
               /\ servers'[requests'[s].name].tenant = requests'[s].tenant
    BY <1>0, <1>1, <1>2, <1>4, <2>1 DEF Work, WorkMatchesRow, RowIs, Claiming
  <2>2. ASSUME NEW s \in Claiming, requests[s].pc = "remove"
        PROVE  RowIs(requests[s].name, "deleting", requests[s].life)'
    BY <1>0, <1>1, <1>2, <1>4, <2>2 DEF Work, WorkMatchesRow, RowIs, Claiming
  <2>3. ASSUME NEW j \in jobs, j.step # "record"
        PROVE  servers'[j.name] = servers[j.name]
    BY <1>0, <1>1, <1>4, <2>3 DEF Working
  <2>4. /\ \A j \in jobs : j.step \in ProvisionSteps => j.step # "record"
    BY DEF ProvisionSteps
  <2>5. ASSUME NEW s \in Requests, requests'[s].pc \in ClaimPcs
        PROVE  s = r \/ s \in Claiming
    BY <1>2, <2>5 DEF Claiming, ClaimPcs
  <2> QED BY <1>2, <1>4, <2>1, <2>2, <2>3, <2>4, <2>5 DEF Work, WorkMatchesRow, RowIs, ClaimPcs
<1>6. OneWorker'
    BY <1>1, <1>2, <1>3 DEF Work, OneWorker
<1>7. NoOrphanRow'
    BY <1>0, <1>2, <1>3, <1>4 DEF Work, NoOrphanRow
<1> QED BY <1>5, <1>6, <1>7 DEF Work

\* A request hands its row over to a job.
LEMMA HandOverKeepsWork ==
    ASSUME Typed, Work, UNCHANGED servers, NEW r \in Requests, NEW new,
           requests[r].pc \in ClaimPcs, Answer(r),
           jobs' = jobs \cup {new}, new.name = requests[r].name, new.life = requests[r].life,
           \/ requests[r].pc = "provision" /\ new.step \in ProvisionSteps
           \/ requests[r].pc = "remove" /\ new.step \in RemoveSteps \ {"record"}
    PROVE  Work'
<1>0. requests \in [Requests -> RequestRecords]
    BY TypedFacts
<1>1. /\ r \in Claiming /\ Claiming' = Claiming \ {r}
      /\ \A s \in Claiming' : requests'[s] = requests[s]
    BY <1>0 DEF Claiming, ClaimPcs, Answer, Idle
<1>2. Working' = Working \cup {new}
    BY DEF Working, ProvisionSteps
<1>3. WorkMatchesRow'
  <2>1. ASSUME NEW s \in Requests, requests'[s].pc \in ClaimPcs
        PROVE  s \in Claiming' /\ requests'[s] = requests[s]
    BY <1>1, <2>1 DEF Claiming, ClaimPcs
  <2>2. /\ new.step \in ProvisionSteps => RowIs(new.name, "provisioning", new.life)
        /\ new.step \in RemoveSteps \ {"record"} => RowIs(new.name, "deleting", new.life)
    BY DEF Work, WorkMatchesRow, ProvisionSteps, RemoveSteps
  <2> QED BY <2>1, <2>2 DEF Work, WorkMatchesRow, RowIs, ClaimPcs
<1>4. OneWorker'
    BY <1>1, <1>2 DEF Work, OneWorker
<1>5. NoOrphanRow'
    BY <1>1, <1>2 DEF Work, NoOrphanRow
<1> QED BY <1>3, <1>4, <1>5 DEF Work

\* A job goes on to its next step, on the same row.
LEMMA AdvanceKeepsWork ==
    ASSUME Typed, Work, UNCHANGED <<servers, requests>>, NEW j \in jobs, NEW step,
           Advance(j, step),
           \/ j.step \in ProvisionSteps /\ step \in ProvisionSteps
           \/ /\ j.step \in RemoveSteps \ {"record"}
              /\ step \in RemoveSteps \ {"record"}
    PROVE  Work'
<1> DEFINE new == [j EXCEPT !.step = step]
<1>0. j \in JobRecords
    BY DEF Typed, JobsOK
<1>1. new.name = j.name /\ new.life = j.life /\ new.step = step
    BY <1>0 DEF JobRecords
<1>2. jobs' = (jobs \ {j}) \cup {new}
    BY DEF Advance
<1> HIDE DEF new
<1>3. j \in Working /\ Working' = (Working \ {j}) \cup {new}
    BY <1>1, <1>2 DEF Working, ProvisionSteps
<1>4. Claiming' = Claiming
    BY DEF Claiming
<1>5. WorkMatchesRow'
  <2>1. /\ new.step \in ProvisionSteps => RowIs(new.name, "provisioning", new.life)
        /\ new.step \in RemoveSteps \ {"record"} => RowIs(new.name, "deleting", new.life)
    BY <1>1 DEF Work, WorkMatchesRow, ProvisionSteps, RemoveSteps
  <2> QED BY <1>2, <2>1 DEF Work, WorkMatchesRow, RowIs
<1>6. OneWorker'
    BY <1>1, <1>3, <1>4 DEF Work, OneWorker
<1>7. NoOrphanRow'
    BY <1>1, <1>3, <1>4 DEF Work, NoOrphanRow
<1> QED BY <1>5, <1>6, <1>7 DEF Work

\* A working job is the only one at its row, which is provisioning or deleting
\* as its step says.
LEMMA WorkerIsAlone ==
    ASSUME Typed, Work, NEW j \in jobs, j.step # "record"
    PROVE  /\ j \in Working
           /\ \A k \in Working : k # j => k.name # j.name
           /\ \A r \in Claiming : requests[r].name # j.name
           /\ servers[j.name] \in Rows /\ servers[j.name].life = j.life
           /\ j.step \in ProvisionSteps => servers[j.name].status = "provisioning"
           /\ j.step \in RemoveSteps => servers[j.name].status = "deleting"
<1>1. /\ j.name \in Names /\ j.step \in ProvisionSteps \cup (RemoveSteps \ {"record"})
      /\ servers \in [Names -> Rows \cup {None}]
    BY TypedFacts
<1>2. \/ RowIs(j.name, "provisioning", j.life) /\ j.step \in ProvisionSteps
      \/ RowIs(j.name, "deleting", j.life) /\ j.step \in RemoveSteps
    BY <1>1 DEF Work, WorkMatchesRow
<1>3. j \in Working
    BY DEF Working
<1> QED BY <1>1, <1>2, <1>3 DEF Work, OneWorker, RowIs, ProvisionSteps, RemoveSteps

\* SetStatus changes the status of one row and nothing else.
LEMMA SetStatusEffect ==
    ASSUME Typed, NEW n \in Names, servers[n] # None, NEW status \in Statuses,
           servers' = SetStatus(n, status)
    PROVE  /\ servers'[n] \in Rows /\ servers'[n].status = status
           /\ servers'[n].life = servers[n].life /\ servers'[n].tenant = servers[n].tenant
           /\ \A m \in Names : m # n => servers'[m] = servers[m]
<1>1. servers \in [Names -> Rows \cup {None}] /\ servers[n] \in Rows
    BY TypedFacts
<1>2. servers' = [servers EXCEPT ![n] = [servers[n] EXCEPT !.status = status]]
    BY DEF SetStatus
<1>3. [servers[n] EXCEPT !.status = status] \in Rows
    BY <1>1 DEF Rows
<1>4. /\ servers'[n] = [servers[n] EXCEPT !.status = status]
      /\ \A m \in Names : m # n => servers'[m] = servers[m]
    BY <1>1, <1>2
<1>5. /\ [servers[n] EXCEPT !.status = status].status = status
      /\ [servers[n] EXCEPT !.status = status].life = servers[n].life
      /\ [servers[n] EXCEPT !.status = status].tenant = servers[n].tenant
    BY <1>1 DEF Rows
<1> QED BY <1>3, <1>4, <1>5

\* A job leaves its row: nobody is left who works on it, and the row is either
\* gone or neither provisioning nor deleting.  `rest` are the jobs that remain.
LEMMA LeaveKeepsWork ==
    ASSUME Typed, Work, UNCHANGED requests, NEW j \in jobs, j.step # "record",
           Working' = Working \ {j}, jobs' \subseteq jobs \cup {k \in jobs' : k.step = "record"},
           \A m \in Names : m # j.name => servers'[m] = servers[m],
           servers'[j.name] = None \/ servers'[j.name].status \notin Busy
    PROVE  Work'
<1>0. /\ j \in Working
      /\ \A k \in Working : k # j => k.name # j.name
      /\ \A r \in Claiming : requests[r].name # j.name
    BY WorkerIsAlone
<1>1. Claiming' = Claiming
    BY DEF Claiming
<1>2. /\ \A k \in jobs : k.name \in Names
      /\ \A r \in Claiming : requests[r].name \in Names
    BY TypedFacts DEF Claiming
<1>3. WorkMatchesRow'
  <2>1. ASSUME NEW r \in Claiming PROVE servers'[requests[r].name] = servers[requests[r].name]
    BY <1>0, <1>2
  <2>2. ASSUME NEW k \in jobs', k.step # "record"
        PROVE  k \in jobs /\ servers'[k.name] = servers[k.name]
    <3>1. k \in Working' /\ k \in jobs
      BY <2>2 DEF Working
    <3> QED BY <1>0, <1>2, <3>1
  <2>3. "record" \notin ProvisionSteps
    BY DEF ProvisionSteps
  <2> QED BY <2>1, <2>2, <2>3 DEF Work, WorkMatchesRow, RowIs, Claiming
<1>4. OneWorker'
    BY <1>1 DEF Work, OneWorker
<1>5. NoOrphanRow'
  <2> SUFFICES ASSUME NEW n \in Names, servers'[n] # None, servers'[n].status \in Busy
               PROVE  \/ \E r \in Claiming' : requests'[r].name = n
                      \/ \E k \in Working' : k.name = n
    BY DEF NoOrphanRow, Busy
  <2>1. n # j.name /\ servers'[n] = servers[n]
    BY DEF Busy
  <2> QED BY <1>1, <2>1 DEF Work, NoOrphanRow, Busy
<1> QED BY <1>3, <1>4, <1>5 DEF Work

\* Fail: the row is failed, or what it was before the delete.
LEMMA FailEffect ==
    ASSUME Typed, Work, NEW j \in jobs, j.step # "record", Fail(j)
    PROVE  /\ jobs' = jobs \ {j}
           /\ servers'[j.name] \in Rows /\ servers'[j.name].life = j.life
           /\ servers'[j.name].tenant = servers[j.name].tenant
           /\ j.step \in ProvisionSteps => servers'[j.name].status = "failed"
           /\ j.step \in RemoveSteps => servers'[j.name].status = j.prior
           /\ servers'[j.name].status \in {"ready", "failed"}
           /\ \A m \in Names : m # j.name => servers'[m] = servers[m]
<1> DEFINE status == IF j.step \in ProvisionSteps THEN "failed" ELSE j.prior
<1>1. /\ j.name \in Names /\ j.step \in ProvisionSteps \cup RemoveSteps
      /\ j.prior \in {"none", "ready", "failed"}
      /\ j.step \in RemoveSteps => j.prior # "none"
    BY TypedFacts
<1>2. /\ status \in {"ready", "failed"}
      /\ j.step \in ProvisionSteps => status = "failed"
      /\ j.step \in RemoveSteps => status = j.prior
    BY <1>1 DEF ProvisionSteps, RemoveSteps
<1>3. servers' = SetStatus(j.name, status) /\ jobs' = jobs \ {j}
    BY DEF Fail
<1>4. servers[j.name] # None /\ servers[j.name].life = j.life
    BY WorkerIsAlone, NoneAssumption
<1> HIDE DEF status
<1>5. status \in Statuses
    BY <1>2 DEF Statuses
<1>6. /\ servers'[j.name] \in Rows /\ servers'[j.name].status = status
      /\ servers'[j.name].life = servers[j.name].life
      /\ servers'[j.name].tenant = servers[j.name].tenant
      /\ \A m \in Names : m # j.name => servers'[m] = servers[m]
    BY <1>1, <1>3, <1>4, <1>5, SetStatusEffect
<1> QED BY <1>2, <1>3, <1>4, <1>6

\* A job that fails lets go of its row, which then nobody works on.
LEMMA FailKeepsWork ==
    ASSUME Typed, Work, UNCHANGED requests, NEW j \in jobs, j.step # "record", Fail(j)
    PROVE  Work'
<1>1. /\ jobs' = jobs \ {j} /\ servers'[j.name].status \in {"ready", "failed"}
      /\ \A m \in Names : m # j.name => servers'[m] = servers[m]
    BY FailEffect
<1>2. Working' = Working \ {j}
    BY <1>1 DEF Working
<1>3. servers'[j.name].status \notin Busy
    BY <1>1 DEF Busy
<1> QED BY <1>1, <1>2, <1>3, LeaveKeepsWork

\* A cluster call, whether it works or fails.
LEMMA CallKeepsWork ==
    ASSUME Typed, Work, NEW j \in jobs, NEW works, NEW done, NEW partly, NEW next,
           Call(j, works, done, partly, next),
           \/ j.step \in ProvisionSteps /\ next \in ProvisionSteps
           \/ /\ j.step \in RemoveSteps \ {"record"}
              /\ next \in RemoveSteps \ {"record"}
    PROVE  Work'
<1>1. UNCHANGED requests /\ j.step # "record"
    BY DEF Call, ProvisionSteps
<1>2. CASE Advance(j, next) /\ UNCHANGED servers
    BY <1>1, <1>2, AdvanceKeepsWork
<1>3. CASE Fail(j)
    BY <1>1, <1>3, FailKeepsWork
<1> QED BY <1>2, <1>3 DEF Call

\* Nothing that a row's workers depend on has changed.
LEMMA UnchangedKeepsWork ==
    ASSUME Work, UNCHANGED <<servers, requests, jobs>>
    PROVE  Work'
BY DEF Work, WorkMatchesRow, OneWorker, NoOrphanRow, Claiming, Working, RowIs

\* A provisioning job keeps the row it was given until it decides it.
LEMMA ProvisionKeepsWork ==
    ASSUME Typed, Work, NEW j \in jobs, Provision(j)
    PROVE  Work'
<1> DEFINE c == cluster[j.name]
<1>1. ASSUME CreateNamespace(j) PROVE Work'
  <2> DEFINE done == [c EXCEPT !.ns = IF @ = "absent" THEN "active" ELSE @]
             works == TRUE
             partly == {done}
  <2>1. Call(j, works, done, partly, "access")
    BY <1>1 DEF CreateNamespace
  <2> HIDE DEF works, done, partly
  <2> QED BY <1>1, <2>1, CallKeepsWork DEF CreateNamespace, At, ProvisionSteps, RemoveSteps
<1>2. ASSUME GrantAccess(j) PROVE Work'
  <2> DEFINE done == [c EXCEPT !.bound = TRUE]
             works == c.ns = "active" \/ Allowed(j.name)
             partly == {done}
  <2>1. Call(j, works, done, partly, "credentials")
    BY <1>2 DEF GrantAccess
  <2> HIDE DEF works, done, partly
  <2> QED BY <1>2, <2>1, CallKeepsWork DEF GrantAccess, At, ProvisionSteps, RemoveSteps
<1>3. ASSUME CreateCredentials(j) PROVE Work'
  <2> DEFINE done == c
             works == Allowed(j.name)
             partly == {}
  <2>1. Call(j, works, done, partly, "release")
    BY <1>3 DEF CreateCredentials
  <2> HIDE DEF works, done, partly
  <2> QED BY <1>3, <2>1, CallKeepsWork DEF CreateCredentials, At, ProvisionSteps, RemoveSteps
<1>4. ASSUME InstallRelease(j) PROVE Work'
  <2> DEFINE done == [c EXCEPT !.sts = IF @ = "up" THEN @ ELSE "asleep",
                                !.world = IF @ = 0 THEN j.life ELSE @]
             works == Allowed(j.name) /\ c.ns = "active"
             partly == {done, [done EXCEPT !.sts = c.sts]}
  <2>1. Call(j, works, done, partly, "scale")
    BY <1>4 DEF InstallRelease
  <2> HIDE DEF works, done, partly
  <2> QED BY <1>4, <2>1, CallKeepsWork DEF InstallRelease, At, ProvisionSteps, RemoveSteps
<1>5. ASSUME ScaleWrapper(j) PROVE Work'
  <2> DEFINE done == [c EXCEPT !.sts = "up"]
             works == Allowed(j.name) /\ c.sts # "none"
             partly == {done}
  <2>1. Call(j, works, done, partly, "rollout")
    BY <1>5 DEF ScaleWrapper
  <2> HIDE DEF works, done, partly
  <2> QED BY <1>5, <2>1, CallKeepsWork DEF ScaleWrapper, At, ProvisionSteps, RemoveSteps
<1>6. ASSUME WaitForRollout(j) PROVE Work'
  <2> DEFINE done == c
             works == Allowed(j.name) /\ c.sts # "none"
             partly == {}
  <2>1. Call(j, works, done, partly, "ready")
    BY <1>6 DEF WaitForRollout
  <2> HIDE DEF works, done, partly
  <2> QED BY <1>6, <2>1, CallKeepsWork DEF WaitForRollout, At, ProvisionSteps, RemoveSteps
<1>7. ASSUME ProvisionDone(j) PROVE Work'
  <2>1. /\ j.step = "ready" /\ j.step # "record" /\ UNCHANGED requests
        /\ servers' = SetStatus(j.name, "ready") /\ jobs' = jobs \ {j}
    BY <1>7 DEF ProvisionDone, At
  <2>2. j.name \in Names /\ servers[j.name] # None
    BY <2>1, TypedFacts, WorkerIsAlone, NoneAssumption
  <2>3. /\ servers'[j.name].status = "ready"
        /\ \A m \in Names : m # j.name => servers'[m] = servers[m]
    BY <2>1, <2>2, SetStatusEffect DEF Statuses
  <2>4. Working' = Working \ {j}
    BY <2>1 DEF Working
  <2>5. servers'[j.name].status \notin Busy
    BY <2>3 DEF Busy
  <2> QED BY <2>1, <2>3, <2>4, <2>5, LeaveKeepsWork
<1> QED BY <1>1, <1>2, <1>3, <1>4, <1>5, <1>6, <1>7 DEF Provision

\* A removing job keeps the row it was given until it deletes it.
LEMMA RemoveKeepsWork ==
    ASSUME Typed, Work, NEW j \in jobs, Remove(j)
    PROVE  Work'
<1> DEFINE c == cluster[j.name]
<1>1. ASSUME BackUpWorld(j) PROVE Work'
    BY <1>1, AdvanceKeepsWork DEF BackUpWorld, At, RemoveSteps
<1>2. ASSUME DoWithoutBackup(j) PROVE Work'
  <2>1. j.step = "backup" /\ UNCHANGED requests
    BY <1>2 DEF DoWithoutBackup, At
  <2>2. (Advance(j, "uninstall") /\ UNCHANGED servers) \/ Fail(j)
    BY <1>2 DEF DoWithoutBackup
  <2>3. CASE Advance(j, "uninstall") /\ UNCHANGED servers
    BY <2>1, <2>3, AdvanceKeepsWork DEF RemoveSteps
  <2>4. CASE Fail(j)
    BY <2>1, <2>4, FailKeepsWork
  <2> QED BY <2>2, <2>3, <2>4
<1>3. ASSUME UninstallRelease(j) PROVE Work'
  <2> DEFINE done == [c EXCEPT !.sts = "none", !.world = 0]
             works == Allowed(j.name)
             partly == {done, [c EXCEPT !.sts = "none"]}
  <2>1. Call(j, works, done, partly, "delete namespace")
    BY <1>3 DEF UninstallRelease
  <2> HIDE DEF works, done, partly
  <2> QED BY <1>3, <2>1, CallKeepsWork DEF UninstallRelease, At, ProvisionSteps, RemoveSteps
<1>4. ASSUME DeleteNamespace(j) PROVE Work'
  <2> DEFINE done == [c EXCEPT !.ns = IF @ = "active" THEN "terminating" ELSE @]
             works == TRUE
             partly == {done}
  <2>1. Call(j, works, done, partly, "delete row")
    BY <1>4 DEF DeleteNamespace
  <2> HIDE DEF works, done, partly
  <2> QED BY <1>4, <2>1, CallKeepsWork DEF DeleteNamespace, At, ProvisionSteps, RemoveSteps
<1>5. ASSUME DeleteRow(j) PROVE Work'
  <2> DEFINE new == [j EXCEPT !.step = "record"]
  <2>1. /\ j.step = "delete row" /\ UNCHANGED requests
        /\ servers' = [servers EXCEPT ![j.name] = None] /\ jobs' = (jobs \ {j}) \cup {new}
    BY <1>5 DEF DeleteRow, At, Advance
  <2>2. j \in JobRecords /\ servers \in [Names -> Rows \cup {None}] /\ j.name \in Names
    BY TypedFacts DEF Typed, JobsOK
  <2>3. new.step = "record"
    BY <2>2 DEF JobRecords
  <2> HIDE DEF new
  <2>4. Working' = Working \ {j}
    BY <2>1, <2>3 DEF Working
  <2>5. servers'[j.name] = None /\ \A m \in Names : m # j.name => servers'[m] = servers[m]
    BY <2>1, <2>2
  <2>6. jobs' \subseteq jobs \cup {k \in jobs' : k.step = "record"}
    BY <2>1, <2>3
  <2> QED BY <2>1, <2>4, <2>5, <2>6, LeaveKeepsWork
<1>6. ASSUME RecordDelete(j) PROVE Work'
  <2>1. j.step = "record" /\ jobs' = jobs \ {j} /\ UNCHANGED <<servers, requests>>
    BY <1>6 DEF RecordDelete, At
  <2>2. Working' = Working /\ Claiming' = Claiming
    BY <2>1 DEF Working, Claiming
  <2>3. WorkMatchesRow'
    BY <2>1 DEF Work, WorkMatchesRow, RowIs
  <2>4. OneWorker'
    BY <2>1, <2>2 DEF Work, OneWorker
  <2>5. NoOrphanRow'
    BY <2>1, <2>2 DEF Work, NoOrphanRow
  <2> QED BY <2>3, <2>4, <2>5 DEF Work
<1> QED BY <1>1, <1>2, <1>3, <1>4, <1>5, <1>6 DEF Remove

\* An answered request, or one whose record has just been made or moved on, as
\* the quiet steps of the request threads leave it.
LEMMA RequestEffect ==
    ASSUME Typed, NEW r \in Requests, NEW q, requests' = [requests EXCEPT ![r] = q]
    PROVE  requests'[r] = q /\ \A s \in Requests \ {r} : requests'[s] = requests[s]
BY TypedFacts

\* A create claims a free name only, and hands its claim to one job.
LEMMA CreateKeepsWork ==
    ASSUME Typed, Work, NEW r \in Requests, Create(r)
    PROVE  Work'
<1> DEFINE q == requests[r]
<1>0. q \in RequestRecords /\ Idle.pc \notin ClaimPcs /\ (q.pc # "idle" => q.name \in Names /\ q.tenant \in Tenants)
    BY TypedFacts DEF Idle, ClaimPcs
<1>1. ASSUME NEW t \in Tenants, NEW n \in Names, CreateStart(r, t, n) PROVE Work'
  <2>1. Asked("lookup", t, n).pc = "lookup"
    BY AskedType DEF Pcs
  <2> QED BY <1>1, <2>1, RequestEffect, QuietRequestKeepsWork DEF CreateStart, ClaimPcs
<1>2. ASSUME CreateLookup(r) PROVE Work'
  <2>1. [q EXCEPT !.pc = "reserve"].pc = "reserve"
    BY <1>0 DEF RequestRecords
  <2>2. /\ requests'[r].pc \in {"reserve", Idle.pc}
        /\ \A s \in Requests \ {r} : requests'[s] = requests[s]
    BY <1>2, <2>1, RequestEffect DEF CreateLookup, Answer
  <2>3. UNCHANGED <<servers, jobs>> /\ q.pc = "lookup"
    BY <1>2 DEF CreateLookup
  <2> QED BY <1>0, <2>2, <2>3, QuietRequestKeepsWork DEF ClaimPcs
<1>3. ASSUME CreateReserve(r) PROVE Work'
  <2> DEFINE life == history.lives + 1
             row == [tenant |-> q.tenant, status |-> "provisioning", life |-> life]
             next == [q EXCEPT !.pc = "provision", !.life = life]
  <2>1. q.pc = "reserve" /\ UNCHANGED jobs
    BY <1>3 DEF CreateReserve
  <2>2. CASE Answer(r) /\ UNCHANGED servers
    BY <1>0, <2>1, <2>2, RequestEffect, QuietRequestKeepsWork DEF Answer, ClaimPcs
  <2>3. CASE /\ servers[q.name] = None
             /\ servers' = [servers EXCEPT ![q.name] = row]
             /\ requests' = [requests EXCEPT ![r] = next]
    <3>1. life \in Lives
      BY <1>3, BoundAssumption DEF CreateReserve, Typed, OthersOK, Lives, Paths
    <3>2. row \in Rows /\ row.status = "provisioning" /\ row.tenant = q.tenant /\ row.life = life
      BY <1>0, <2>1, <3>1 DEF Rows, Statuses
    <3>3. life \in Paths /\ "provision" \in Pcs /\ next = Assign(q, "provision", life)
      BY <3>1 DEF Lives, Paths, Pcs, Assign
    <3> HIDE DEF life, row, next, q
    <3>4. /\ next.pc = "provision" /\ next.life = life
          /\ next.name = q.name /\ next.tenant = q.tenant
      BY <1>0, <3>3, AssignedType
    <3>5. q.pc \notin ClaimPcs /\ q.name \in Names
      BY <1>0, <2>1 DEF ClaimPcs
    <3>6. requests[r].pc \notin ClaimPcs
      BY <3>5 DEF q
    <3> QED BY <2>1, <2>3, <3>2, <3>4, <3>5, <3>6, ClaimKeepsWork
  <2> QED BY <1>3, <2>2, <2>3 DEF CreateReserve, CanReserve
<1>4. ASSUME CreateSubmit(r) PROVE Work'
  <2> DEFINE new == [ticket |-> NewTicket, name |-> q.name, life |-> q.life, step |-> "namespace",
                     prior |-> q.status, awake |-> q.awake, force |-> q.force]
  <2>1. q.pc = "provision" /\ jobs' = jobs \cup {new} /\ Answer(r) /\ UNCHANGED servers
    BY <1>4 DEF CreateSubmit, Submit
  <2>2. new.name = q.name /\ new.life = q.life /\ new.step = "namespace"
    OBVIOUS
  <2> HIDE DEF new
  <2> QED BY <2>1, <2>2, HandOverKeepsWork DEF ClaimPcs, ProvisionSteps
<1> QED BY <1>1, <1>2, <1>3, <1>4 DEF Create

\* A delete claims a row only that nobody works on: ready and failed rows.
LEMMA DeleteKeepsWork ==
    ASSUME Typed, Work, NEW r \in Requests, Delete(r)
    PROVE  Work'
<1> DEFINE q == requests[r]
<1>0. q \in RequestRecords /\ Idle.pc \notin ClaimPcs /\ (q.pc # "idle" => q.name \in Names /\ q.tenant \in Tenants)
    BY TypedFacts DEF Idle, ClaimPcs
<1>1. ASSUME NEW t \in Tenants, NEW n \in Names, NEW force \in BOOLEAN, DeleteStart(r, t, n, force)
      PROVE  Work'
  <2> DEFINE asked == Asked("check", t, n)
             next == [asked EXCEPT !.status = servers[n].status, !.force = force]
  <2>1. asked \in RequestRecords /\ asked.pc = "check"
    BY AskedType DEF Pcs
  <2>2. next.pc = "check"
    <3> HIDE DEF asked
    <3> QED BY <2>1 DEF RequestRecords
  <2>3. requests' = [requests EXCEPT ![r] = next] /\ UNCHANGED <<servers, jobs>> /\ q.pc = "idle"
    BY <1>1 DEF DeleteStart
  <2> HIDE DEF next
  <2> QED BY <2>2, <2>3, RequestEffect, QuietRequestKeepsWork DEF ClaimPcs
<1>2. ASSUME DeleteCheck(r) PROVE Work'
  <2>1. \A awake \in BOOLEAN : [q EXCEPT !.pc = "begin", !.awake = awake].pc = "begin"
    BY <1>0 DEF RequestRecords
  <2>2. /\ requests'[r].pc \in {"begin", Idle.pc}
        /\ \A s \in Requests \ {r} : requests'[s] = requests[s]
    <3>1. CASE Answer(r)
      BY <3>1, RequestEffect DEF Answer
    <3>2. ASSUME NEW awake \in BOOLEAN,
                 requests' = [requests EXCEPT ![r] = [q EXCEPT !.pc = "begin", !.awake = awake]]
          PROVE  /\ requests'[r].pc \in {"begin", Idle.pc}
                 /\ \A s \in Requests \ {r} : requests'[s] = requests[s]
      BY <2>1, <3>2, RequestEffect
    <3> QED BY <1>2, <3>1, <3>2 DEF DeleteCheck
  <2>3. UNCHANGED <<servers, jobs>> /\ q.pc = "check"
    BY <1>2 DEF DeleteCheck
  <2> QED BY <1>0, <2>2, <2>3, QuietRequestKeepsWork DEF ClaimPcs
<1>3. ASSUME DeleteBegin(r) PROVE Work'
  <2> DEFINE life == servers[q.name].life
             next == [q EXCEPT !.pc = "remove", !.life = life]
             row == [servers[q.name] EXCEPT !.status = "deleting"]
  <2>1. q.pc = "begin" /\ UNCHANGED jobs /\ q.name \in Names
    BY <1>0, <1>3 DEF DeleteBegin
  <2>2. CASE Answer(r) /\ UNCHANGED servers
    BY <1>0, <2>1, <2>2, RequestEffect, QuietRequestKeepsWork DEF Answer, ClaimPcs
  <2>3. CASE /\ servers[q.name] # None /\ servers[q.name].status = q.status
             /\ servers' = SetStatus(q.name, "deleting")
             /\ requests' = [requests EXCEPT ![r] = next]
    <3>1. servers[q.name] \in Rows
      BY <2>1, <2>3, TypedFacts
    <3>2. row \in Rows /\ row.status = "deleting" /\ row.life = life /\ life \in Lives
      BY <3>1 DEF Rows, Statuses
    <3>3. servers' = [servers EXCEPT ![q.name] = row]
      BY <2>3 DEF SetStatus
    <3>4. servers[q.name].status \notin Busy
      BY <1>0, <2>3 DEF RequestRecords, Busy
    <3>5. life \in Paths /\ "remove" \in Pcs /\ next = Assign(q, "remove", life)
      BY <3>2 DEF Lives, Paths, Pcs, Assign
    <3>6. requests[r].pc \notin ClaimPcs
      BY <2>1 DEF ClaimPcs
    <3>7. requests' = [requests EXCEPT ![r] = next]
      BY <2>3
    <3> HIDE DEF life, row, next, q
    <3>8. next.pc = "remove" /\ next.life = life /\ next.name = q.name
      BY <1>0, <3>5, AssignedType
    <3> QED BY <2>1, <3>2, <3>3, <3>4, <3>6, <3>7, <3>8, ClaimKeepsWork
  <2> QED BY <1>3, <2>2, <2>3 DEF DeleteBegin, CanBeginDelete
<1>4. ASSUME DeleteSubmit(r) PROVE Work'
  <2> DEFINE new == [ticket |-> NewTicket, name |-> q.name, life |-> q.life, step |-> "backup",
                     prior |-> q.status, awake |-> q.awake, force |-> q.force]
  <2>1. q.pc = "remove" /\ jobs' = jobs \cup {new} /\ Answer(r) /\ UNCHANGED servers
    BY <1>4 DEF DeleteSubmit, Submit
  <2>2. new.name = q.name /\ new.life = q.life /\ new.step = "backup"
    OBVIOUS
  <2> HIDE DEF new
  <2>3. new.step \in RemoveSteps \ {"record"}
    BY <2>2 DEF RemoveSteps
  <2>4. q.pc \in ClaimPcs
    BY <2>1 DEF ClaimPcs
  <2> QED BY <2>1, <2>2, <2>3, <2>4, HandOverKeepsWork
<1> QED BY <1>1, <1>2, <1>3, <1>4 DEF Delete

\* A wake claims nothing.
LEMMA WakeKeepsWork ==
    ASSUME Typed, Work, NEW r \in Requests, Wake(r)
    PROVE  Work'
<1>1. ASSUME NEW t \in Tenants, NEW n \in Names, WakeStart(r, t, n) PROVE Work'
  <2>1. Asked("scale", t, n).pc = "scale"
    BY AskedType DEF Pcs
  <2> QED BY <1>1, <2>1, RequestEffect, QuietRequestKeepsWork DEF WakeStart, ClaimPcs
<1>2. ASSUME WakeScale(r) PROVE Work'
  <2>1. Idle.pc \notin ClaimPcs
    BY DEF Idle, ClaimPcs
  <2> QED BY <1>2, <2>1, RequestEffect, QuietRequestKeepsWork DEF WakeScale, Answer, ClaimPcs
<1> QED BY <1>1, <1>2 DEF Wake

\* After a restart no row is provisioning or deleting, and nobody works.
LEMMA RestartKeepsWork ==
    ASSUME Typed, Restart
    PROVE  /\ Work'
           /\ \A n \in Names : servers[n] = None => servers'[n] = None
           /\ \A n \in Names : servers[n] # None =>
                 /\ servers'[n] \in Rows /\ servers'[n].life = servers[n].life
                 /\ servers'[n].tenant = servers[n].tenant
                 /\ servers'[n].status = Recovered(n)
                 /\ Recovered(n) \in {"ready", "failed"}
<1>1. Claiming' = {} /\ Working' = {} /\ jobs' = {} /\ \A r \in Requests : requests'[r] = Idle
    BY DEF Restart, Claiming, Working, Idle
<1>2. ASSUME NEW n \in Names, servers[n] # None
      PROVE  /\ servers'[n] \in Rows /\ servers'[n].life = servers[n].life
             /\ servers'[n].tenant = servers[n].tenant
             /\ servers'[n].status = Recovered(n)
             /\ Recovered(n) \in {"ready", "failed"}
  <2>1. servers[n] \in Rows
    BY <1>2, TypedFacts
  <2>2. StatusBeforeDelete(n) \in {"ready", "failed"}
    BY DEF StatusBeforeDelete
  <2>3. Recovered(n) \in {"ready", "failed"}
    BY <2>1, <2>2 DEF Recovered, Rows, Statuses
  <2>4. servers'[n] = [servers[n] EXCEPT !.status = Recovered(n)]
    BY <1>2 DEF Restart
  <2> QED BY <2>1, <2>3, <2>4 DEF Rows, Statuses
<1>3. \A n \in Names : servers[n] = None => servers'[n] = None
    BY DEF Restart
<1>4. \A n \in Names : servers'[n] # None => servers'[n].status \notin Busy
    BY <1>2, <1>3 DEF Busy
<1>5. WorkMatchesRow'
    BY <1>1 DEF WorkMatchesRow, Idle
<1>6. OneWorker'
    BY <1>1 DEF OneWorker
<1>7. NoOrphanRow'
    BY <1>4 DEF NoOrphanRow, Busy
<1> QED BY <1>2, <1>3, <1>5, <1>6, <1>7 DEF Work

\* At the start there is no row to work on.
LEMMA WorkInit == Init => Work
<1> SUFFICES ASSUME Init PROVE Work
    OBVIOUS
<1>1. Claiming = {} /\ Working = {}
    BY DEF Init, Claiming, Working, Idle
<1>2. WorkMatchesRow
    BY DEF Init, WorkMatchesRow, Idle
<1>3. OneWorker /\ NoOrphanRow
    BY <1>1 DEF Init, OneWorker, NoOrphanRow
<1> QED BY <1>2, <1>3 DEF Work

\* Every step keeps Work.
LEMMA WorkNext == Typed /\ Work /\ [Next]_vars => Work'
<1> SUFFICES ASSUME Typed, Work, [Next]_vars PROVE Work'
    OBVIOUS
<1>1. CASE UNCHANGED vars
    BY <1>1, UnchangedKeepsWork DEF vars
<1>2. CASE Environment
    BY <1>2, UnchangedKeepsWork DEF Environment, NamespaceDrains, PodScales, PruneBackup
<1>3. CASE Restart
    BY <1>3, RestartKeepsWork
<1>4. CASE Next /\ ~Environment /\ ~Restart
    BY <1>4, CreateKeepsWork, DeleteKeepsWork, WakeKeepsWork, ProvisionKeepsWork, RemoveKeepsWork
       DEF Next, JobStep
<1> QED BY <1>1, <1>2, <1>3, <1>4

\* A job that works on a row, and a request that claimed it, find the row as
\* they left it, whatever others do.
THEOREM WorkMatches == Spec => []WorkMatchesRow
<1>1. Spec => [](Typed /\ Work)
    BY TypedInit, TypedNext, WorkInit, WorkNext, PTL DEF Spec
<1>2. Typed /\ Work => WorkMatchesRow
    BY DEF Work
<1> QED BY <1>1, <1>2, PTL

\* No two workers are ever at one server.
THEOREM WorkersAlone == Spec => []OneWorker
<1>1. Spec => [](Typed /\ Work)
    BY TypedInit, TypedNext, WorkInit, WorkNext, PTL DEF Spec
<1>2. Typed /\ Work => OneWorker
    BY DEF Work
<1> QED BY <1>1, <1>2, PTL

\* No restart and no failure leaves a row that nothing will ever move on.
THEOREM NoRowIsOrphaned == Spec => []NoOrphanRow
<1>1. Spec => [](Typed /\ Work)
    BY TypedInit, TypedNext, WorkInit, WorkNext, PTL DEF Spec
<1>2. Typed /\ Work => NoOrphanRow
    BY DEF Work
<1> QED BY <1>1, <1>2, PTL

(***************************************************************************)
(* What a restart reads from the log.  Only the newest request counts, and *)
(* no other event of a delete hides it; who records one is the only worker *)
(* of the row, so the job that is under way knows the same.                *)
(***************************************************************************)

\* The log with one more event, and the events of one kind in it.
LEMMA OneMoreEvent ==
    ASSUME Typed, NEW n \in Names, NEW e \in EventRecords, Record(n, e)
    PROVE  /\ Len(events[n]) \in Nat
           /\ EventsOf(n, {"delete.requested"}) \subseteq 1 .. Len(events[n])
           /\ events'[n][Len(events[n]) + 1] = e
           /\ \A i \in 1 .. Len(events[n]) : events'[n][i] = events[n][i]
           /\ EventsOf(n, {"delete.requested"})' = EventsOf(n, {"delete.requested"})
                  \cup {i \in {Len(events[n]) + 1} : e.kind = "delete.requested"}
           /\ \A m \in Names : m # n => events'[m] = events[m]
<1>1. events[n] \in Seq(EventRecords) /\ events'[n] = Append(events[n], e)
      /\ \A m \in Names : m # n => events'[m] = events[m]
    BY DEF Typed, OthersOK, Record
<1>2. /\ Len(events[n]) \in Nat /\ DOMAIN events[n] = 1 .. Len(events[n])
      /\ DOMAIN events'[n] = 1 .. Len(events[n]) + 1
      /\ events'[n][Len(events[n]) + 1] = e
      /\ \A i \in 1 .. Len(events[n]) : events'[n][i] = events[n][i]
    BY <1>1
<1>3. 1 .. Len(events[n]) + 1 = (1 .. Len(events[n])) \cup {Len(events[n]) + 1}
    BY <1>2
<1> QED BY <1>1, <1>2, <1>3 DEF EventsOf

\* Any other event changes nothing of what is read.
LEMMA OtherEvent ==
    ASSUME Typed, NEW n \in Names, NEW e \in EventRecords, Record(n, e),
           e.kind # "delete.requested"
    PROVE  \A m \in Names : StatusBeforeDelete(m)' = StatusBeforeDelete(m)
<1> DEFINE S == EventsOf(n, {"delete.requested"})
<1>1. S' = S /\ \A m \in Names : m # n => events'[m] = events[m]
    BY OneMoreEvent
<1>2. S # {} => events'[n][Last(S)] = events[n][Last(S)]
    BY OneMoreEvent, LastIsLargest
<1>3. StatusBeforeDelete(n)' = StatusBeforeDelete(n)
    BY <1>1, <1>2 DEF StatusBeforeDelete
<1>4. ASSUME NEW m \in Names, m # n PROVE StatusBeforeDelete(m)' = StatusBeforeDelete(m)
    BY <1>1, <1>4 DEF StatusBeforeDelete, EventsOf
<1> QED BY <1>3, <1>4

\* A number that nothing in the set exceeds is its last.
LEMMA LargestIsLast ==
    ASSUME NEW k \in Nat, NEW S \in SUBSET (1 .. k), k \in S
    PROVE  Last(S) = k
<1>1. Last(S) \in S /\ k <= Last(S)
    BY LastIsLargest
<1>2. \A x \in S : x \in 1 .. k
    OBVIOUS
<1>3. Last(S) \in 1 .. k
    BY <1>1, <1>2
<1> QED BY <1>1, <1>3

\* The request of a delete is what is read from then on.
LEMMA RequestEvent ==
    ASSUME Typed, NEW n \in Names, NEW status \in {"ready", "failed"},
           Record(n, Event("delete.requested", status, 0))
    PROVE  /\ StatusBeforeDelete(n)' = status
           /\ \A m \in Names : m # n => StatusBeforeDelete(m)' = StatusBeforeDelete(m)
<1> DEFINE S == EventsOf(n, {"delete.requested"})
           e == Event("delete.requested", status, 0)
           k == Len(events[n]) + 1
<1>1. e \in EventRecords /\ e.kind = "delete.requested" /\ e.prior = status
    BY BoundAssumption DEF Event, EventRecords, Paths
<1>2. /\ Len(events[n]) \in Nat /\ S \subseteq 1 .. Len(events[n]) /\ events'[n][k] = e
      /\ S' = S \cup {k} /\ \A m \in Names : m # n => events'[m] = events[m]
  <2> HIDE DEF e
  <2> QED BY <1>1, OneMoreEvent DEF e
<1>3. S' \in SUBSET (1 .. k) /\ k \in Nat /\ k \in S'
    BY <1>2
<1>4. Last(S') = k
  <2> HIDE DEF S, k
  <2> QED BY <1>3, LargestIsLast
<1>5. StatusBeforeDelete(n)' = status
    BY <1>1, <1>2, <1>3, <1>4 DEF StatusBeforeDelete
<1>6. ASSUME NEW m \in Names, m # n PROVE StatusBeforeDelete(m)' = StatusBeforeDelete(m)
    BY <1>2, <1>6 DEF StatusBeforeDelete, EventsOf
<1> QED BY <1>5, <1>6

\* The jobs that delete are the ones there were, with what they know.
SameDeletes ==
    \A k \in Working' : k.step \in RemoveSteps =>
        \E j \in Working : j.step \in RemoveSteps /\ j.name = k.name /\ j.prior = k.prior

SameLog == \A m \in Names : StatusBeforeDelete(m)' = StatusBeforeDelete(m)

LEMMA SameKnowledge ==
    ASSUME Typed, RecoveryKnows, SameDeletes, SameLog
    PROVE  RecoveryKnows'
<1> SUFFICES ASSUME NEW k \in Working', k.step \in RemoveSteps
             PROVE  StatusBeforeDelete(k.name)' = k.prior
    BY DEF RecoveryKnows
<1>1. PICK j \in Working : j.step \in RemoveSteps /\ j.name = k.name /\ j.prior = k.prior
    BY DEF SameDeletes
<1>2. j.name \in Names
    BY TypedFacts DEF Working
<1> QED BY <1>1, <1>2 DEF RecoveryKnows, SameLog

LEMMA SameEvents ==
    ASSUME UNCHANGED events
    PROVE  SameLog
BY DEF SameLog, StatusBeforeDelete, EventsOf

\* A job goes on or ends.
LEMMA AdvanceSameDeletes ==
    ASSUME Typed, NEW j \in jobs, NEW step, Advance(j, step), j.step # "record",
           step \in RemoveSteps => j.step \in RemoveSteps
    PROVE  SameDeletes
<1>1. jobs' = (jobs \ {j}) \cup {[j EXCEPT !.step = step]} /\ j \in JobRecords
    BY DEF Advance, Typed, JobsOK
<1>2. [j EXCEPT !.step = step].step = step /\ [j EXCEPT !.step = step].name = j.name
      /\ [j EXCEPT !.step = step].prior = j.prior
    BY <1>1 DEF JobRecords
<1> QED BY <1>1, <1>2 DEF SameDeletes, Working

LEMMA FewerSameDeletes ==
    ASSUME jobs' \subseteq jobs
    PROVE  SameDeletes
BY DEF SameDeletes, Working

LEMMA CallKnows ==
    ASSUME Typed, RecoveryKnows, NEW j \in jobs, NEW works, NEW done, NEW partly, NEW next,
           Call(j, works, done, partly, next), j.step # "record",
           next \in RemoveSteps => j.step \in RemoveSteps
    PROVE  RecoveryKnows'
<1>1. SameLog
    BY SameEvents DEF Call
<1>2. SameDeletes
    BY AdvanceSameDeletes, FewerSameDeletes DEF Call, Fail
<1> QED BY <1>1, <1>2, SameKnowledge

LEMMA ProvisionKnows ==
    ASSUME Typed, RecoveryKnows, NEW j \in jobs, Provision(j)
    PROVE  RecoveryKnows'
<1> USE DEF RemoveSteps
<1>1. CASE CreateNamespace(j)
  <2> DEFINE done == [cluster[j.name] EXCEPT !.ns = IF @ = "absent" THEN "active" ELSE @]
             works == TRUE
             partly == {done}
  <2>1. j.step = "namespace" /\ Call(j, works, done, partly, "access")
    BY <1>1 DEF CreateNamespace, At
  <2> HIDE DEF done, works, partly
  <2> QED BY <2>1, CallKnows
<1>2. CASE GrantAccess(j)
    BY <1>2, CallKnows DEF GrantAccess, At
<1>3. CASE CreateCredentials(j)
    BY <1>3, CallKnows DEF CreateCredentials, At
<1>4. CASE InstallRelease(j)
  <2> DEFINE c == cluster[j.name]
             done == [c EXCEPT !.sts = IF @ = "up" THEN @ ELSE "asleep",
                               !.world = IF @ = 0 THEN j.life ELSE @]
             works == Allowed(j.name) /\ c.ns = "active"
             partly == {done, [done EXCEPT !.sts = c.sts]}
  <2>1. j.step = "release" /\ Call(j, works, done, partly, "scale")
    BY <1>4 DEF InstallRelease, At
  <2> HIDE DEF c, done, works, partly
  <2> QED BY <2>1, CallKnows
<1>5. CASE ScaleWrapper(j)
    BY <1>5, CallKnows DEF ScaleWrapper, At
<1>6. CASE WaitForRollout(j)
    BY <1>6, CallKnows DEF WaitForRollout, At
<1>7. CASE ProvisionDone(j)
    BY <1>7, SameEvents, FewerSameDeletes, SameKnowledge DEF ProvisionDone
<1> QED BY <1>1, <1>2, <1>3, <1>4, <1>5, <1>6, <1>7 DEF Provision

LEMMA RemoveKnows ==
    ASSUME Typed, RecoveryKnows, NEW j \in jobs, Remove(j)
    PROVE  RecoveryKnows'
<1>0. j.name \in Names
    BY TypedFacts
<1>1. CASE BackUpWorld(j)
  <2> DEFINE e == Event("backup", "none", cluster[j.name].world)
  <2>1. Record(j.name, e) /\ Advance(j, "uninstall") /\ j.step = "backup"
    BY <1>1 DEF BackUpWorld, At
  <2>2. e \in EventRecords /\ e.kind = "backup"
    BY <1>0, TypedFacts DEF Event, EventRecords, Namespaces
  <2> HIDE DEF e
  <2>3. SameLog
    BY <1>0, <2>1, <2>2, OtherEvent DEF SameLog
  <2> QED BY <2>1, <2>3, AdvanceSameDeletes, SameKnowledge DEF RemoveSteps
<1>2. CASE DoWithoutBackup(j)
  <2>1. j.step = "backup" /\ (Advance(j, "uninstall") \/ Fail(j))
    BY <1>2 DEF DoWithoutBackup, At
  <2>2. SameDeletes
    BY <2>1, AdvanceSameDeletes, FewerSameDeletes DEF Fail, RemoveSteps
  <2> DEFINE e == Event("backup.reused", "none", BackupStillOnDisk(j.name))
  <2>3. UNCHANGED events \/ Record(j.name, e)
    BY <1>2 DEF DoWithoutBackup
  <2>4. e \in EventRecords /\ e.kind = "backup.reused"
    BY <1>0, BackupOnDiskType DEF Event, EventRecords
  <2> HIDE DEF e
  <2>5. SameLog
    BY <1>0, <2>3, <2>4, OtherEvent, SameEvents DEF SameLog
  <2> QED BY <2>2, <2>5, SameKnowledge
<1>3. CASE UninstallRelease(j)
    BY <1>3, CallKnows DEF UninstallRelease, At, RemoveSteps
<1>4. CASE DeleteNamespace(j)
    BY <1>4, CallKnows DEF DeleteNamespace, At, RemoveSteps
<1>5. CASE DeleteRow(j)
    BY <1>5, SameEvents, AdvanceSameDeletes, SameKnowledge DEF DeleteRow, At, RemoveSteps
<1>6. CASE RecordDelete(j)
  <2> DEFINE e == Event("delete", "none", 0)
  <2>1. Record(j.name, e) /\ jobs' = jobs \ {j}
    BY <1>6 DEF RecordDelete
  <2>2. e \in EventRecords /\ e.kind = "delete"
    BY BoundAssumption DEF Event, EventRecords, Paths
  <2> HIDE DEF e
  <2>3. SameLog
    BY <1>0, <2>1, <2>2, OtherEvent DEF SameLog
  <2> QED BY <2>1, <2>3, FewerSameDeletes, SameKnowledge
<1> QED BY <1>1, <1>2, <1>3, <1>4, <1>5, <1>6 DEF Remove

\* The request that claimed the row is its only worker: no other job's
\* knowledge is overtaken when it records its own.
LEMMA SubmitKnows ==
    ASSUME Typed, Work, RecoveryKnows, NEW r \in Requests, DeleteSubmit(r)
    PROVE  RecoveryKnows'
<1>1. PICK q \in RequestRecords : q = requests[r] /\ RequestOK(q)
    BY DEF Typed, OthersOK
<1> DEFINE new == [ticket |-> NewTicket, name |-> q.name, life |-> q.life, step |-> "backup",
                   prior |-> q.status, awake |-> q.awake, force |-> q.force]
<1>2. /\ q.pc = "remove" /\ jobs' = jobs \cup {new}
      /\ Record(q.name, Event("delete.requested", q.status, 0))
    BY <1>1 DEF DeleteSubmit, Submit
<1>3. q.name \in Names /\ q.status \in {"ready", "failed"}
    BY <1>1, <1>2 DEF RequestRecords, RequestOK
<1>4. \A j \in Working : j.name # q.name
    BY <1>1, <1>2 DEF Work, OneWorker, Claiming
<1>5. /\ StatusBeforeDelete(q.name)' = q.status
      /\ \A m \in Names : m # q.name => StatusBeforeDelete(m)' = StatusBeforeDelete(m)
    BY <1>2, <1>3, RequestEvent
<1>6. ASSUME NEW k \in Working', k.step \in RemoveSteps
      PROVE  StatusBeforeDelete(k.name)' = k.prior
  <2>1. CASE k.name = q.name /\ k.prior = q.status
    BY <1>5, <2>1
  <2>2. CASE k \in Working
    <3>1. k.name \in Names /\ k.name # q.name /\ StatusBeforeDelete(k.name) = k.prior
      BY <1>4, <1>6, <2>2, TypedFacts DEF RecoveryKnows, Working
    <3> QED BY <1>5, <3>1
  <2>3. k = new \/ k \in Working
    BY <1>2, <1>6 DEF Working
  <2> QED BY <2>1, <2>2, <2>3
<1> QED BY <1>6 DEF RecoveryKnows

LEMMA KnowsNext == Typed /\ Work /\ RecoveryKnows /\ [Next]_vars => RecoveryKnows'
<1> SUFFICES ASSUME Typed, Work, RecoveryKnows, [Next]_vars PROVE RecoveryKnows'
    OBVIOUS
<1>1. CASE UNCHANGED <<events, jobs>>
    BY <1>1, SameEvents, FewerSameDeletes, SameKnowledge
<1>2. CASE UNCHANGED vars \/ Environment
    BY <1>1, <1>2 DEF vars, Environment, NamespaceDrains, PodScales, PruneBackup
<1>3. CASE Restart
    BY <1>3, SameEvents, FewerSameDeletes, SameKnowledge DEF Restart
<1>4. ASSUME NEW r \in Requests, Wake(r) \/ CreateLookup(r) \/ CreateReserve(r)
                                 \/ DeleteCheck(r) \/ DeleteBegin(r)
      PROVE  RecoveryKnows'
    BY <1>1, <1>4 DEF Wake, WakeStart, WakeScale, CreateLookup, CreateReserve, DeleteCheck, DeleteBegin
<1>5. ASSUME NEW r \in Requests, NEW t \in Tenants, NEW n \in Names, NEW force \in BOOLEAN,
             CreateStart(r, t, n) \/ DeleteStart(r, t, n, force)
      PROVE  RecoveryKnows'
    BY <1>1, <1>5 DEF CreateStart, DeleteStart
<1>6. ASSUME NEW r \in Requests, CreateSubmit(r)
      PROVE  RecoveryKnows'
  <2>1. SameLog
    BY <1>6, SameEvents DEF CreateSubmit
  <2>2. \A k \in Working' : k \in Working \/ k.step = "namespace"
    BY <1>6 DEF CreateSubmit, Submit, Working
  <2>3. SameDeletes
    BY <2>2 DEF SameDeletes, RemoveSteps
  <2> QED BY <2>1, <2>3, SameKnowledge
<1>7. ASSUME NEW r \in Requests, Create(r) \/ Delete(r) \/ Wake(r)
      PROVE  RecoveryKnows'
    BY <1>4, <1>5, <1>6, <1>7, SubmitKnows DEF Create, Delete
<1>8. ASSUME NEW j \in jobs, JobStep(j)
      PROVE  RecoveryKnows'
    BY <1>8, ProvisionKnows, RemoveKnows DEF JobStep
<1> QED BY <1>2, <1>3, <1>7, <1>8 DEF Next

\* However often a name was created and deleted, and whatever failed or was cut
\* off before: a restart in the middle of a delete puts the row back as the
\* failing job would.
THEOREM RecoveryAgrees == Spec => []RecoveryKnows
<1>1. Spec => [](Typed /\ Work)
    BY TypedInit, TypedNext, WorkInit, WorkNext, PTL DEF Spec
<1>2. Init => RecoveryKnows
    BY DEF Init, RecoveryKnows, Working
<1> QED BY <1>1, <1>2, KnowsNext, PTL DEF Spec

(***************************************************************************)
(* The limits of a tenant.  Only CreateReserve makes a row or calls one    *)
(* provisioning, and it looks at all of the tenant's rows in the statement *)
(* that makes the new one.                                                 *)
(***************************************************************************)
NoNewRow == \A n \in Names : servers'[n] # None =>
    /\ servers[n] # None /\ servers'[n].tenant = servers[n].tenant
    /\ servers'[n].status = "provisioning" => servers[n].status = "provisioning"

NewRow(t, n) ==
    /\ CanReserve(t, n)
    /\ servers'[n].tenant = t /\ \A m \in Names : m # n => servers'[m] = servers[m]

Limits == CapHeld /\ OneCreatePerTenant

\* Giving a row another status than provisioning makes no new row.
LEMMA StatusMakesNoRow ==
    ASSUME Typed, NEW n \in Names, NEW status \in Statuses, status # "provisioning",
           servers' = SetStatus(n, status)
    PROVE  NoNewRow
<1>1. CASE servers[n] = None
    BY <1>1 DEF SetStatus, NoNewRow
<1>2. CASE servers[n] # None
    BY <1>2, SetStatusEffect DEF NoNewRow
<1> QED BY <1>1, <1>2

\* Neither does a job that fails.
LEMMA FailMakesNoRow ==
    ASSUME Typed, NEW j \in jobs, Fail(j)
    PROVE  NoNewRow
<1> DEFINE status == IF j.step \in ProvisionSteps THEN "failed" ELSE j.prior
<1>1. j.name \in Names /\ status \in {"ready", "failed"}
    BY TypedFacts
<1>2. servers' = SetStatus(j.name, status)
    BY DEF Fail
<1> HIDE DEF status
<1> QED BY <1>1, <1>2, StatusMakesNoRow DEF Statuses

\* Of all steps only a reservation makes a row.
LEMMA RowSteps ==
    ASSUME Typed, Work, [Next]_vars
    PROVE  NoNewRow \/ \E t \in Tenants, n \in Names : NewRow(t, n)
<1>0. UNCHANGED servers => NoNewRow
    BY DEF NoNewRow
<1>1. CASE UNCHANGED vars
    BY <1>0, <1>1 DEF vars
<1>2. ASSUME NEW r \in Requests, Create(r) \/ Delete(r) \/ Wake(r)
      PROVE  NoNewRow \/ \E t \in Tenants, n \in Names : NewRow(t, n)
  <2> DEFINE q == requests[r]
  <2>1. ASSUME CreateReserve(r), CanReserve(q.tenant, q.name) PROVE NewRow(q.tenant, q.name)
    <3> DEFINE row == [tenant |-> q.tenant, status |-> "provisioning", life |-> history.lives + 1]
    <3>1. servers' = [servers EXCEPT ![q.name] = row] /\ row.tenant = q.tenant /\ q.pc = "reserve"
      BY <2>1 DEF CreateReserve
    <3> HIDE DEF row
    <3>2. /\ servers'[q.name].tenant = q.tenant
          /\ \A m \in Names : m # q.name => servers'[m] = servers[m]
      BY <3>1, TypedFacts
    <3> QED BY <2>1, <3>2 DEF NewRow
  <2>2. ASSUME DeleteBegin(r), CanBeginDelete(q.name, q.status) PROVE NoNewRow
    BY <2>2, StatusMakesNoRow, TypedFacts DEF DeleteBegin, Statuses
  <2>3. CreateReserve(r) \/ DeleteBegin(r) => q.name \in Names /\ q.tenant \in Tenants
    BY TypedFacts DEF CreateReserve, DeleteBegin
  <2> QED BY <1>0, <1>2, <2>1, <2>2, <2>3
          DEF Create, CreateStart, CreateLookup, CreateReserve, CreateSubmit, Delete, DeleteStart,
              DeleteCheck, DeleteBegin, DeleteSubmit, Wake, WakeStart, WakeScale
<1>3. ASSUME NEW j \in jobs, JobStep(j) PROVE NoNewRow
  <2>1. CASE ProvisionDone(j)
    BY <2>1, StatusMakesNoRow, TypedFacts DEF ProvisionDone, Statuses
  <2>2. CASE Fail(j)
    BY <2>2, FailMakesNoRow
  <2>3. CASE DeleteRow(j)
    BY <2>3, TypedFacts DEF DeleteRow, NoNewRow
  <2> QED BY <1>0, <1>3, <2>1, <2>2, <2>3
          DEF JobStep, Provision, CreateNamespace, GrantAccess, CreateCredentials, InstallRelease,
              ScaleWrapper, WaitForRollout, Remove, BackUpWorld, DoWithoutBackup,
              UninstallRelease, DeleteNamespace, RecordDelete, Call
<1>4. CASE Restart
    BY <1>4, RestartKeepsWork, NoneAssumption DEF NoNewRow
<1>5. CASE Environment
    BY <1>0, <1>5 DEF Environment, NamespaceDrains, PodScales, PruneBackup
<1> QED BY <1>1, <1>2, <1>3, <1>4, <1>5 DEF Next

\* Every step keeps both limits.
LEMMA LimitsNext == Typed /\ Work /\ Limits /\ [Next]_vars => Limits'
<1> SUFFICES ASSUME Typed, Work, Limits, [Next]_vars, NEW t \in Tenants
             PROVE  /\ Cardinality(ServersOf(t)') <= MaxServers
                    /\ \A n, m \in Provisioning(t)' : n = m
    BY DEF Limits, CapHeld, OneCreatePerTenant
<1>1. IsFiniteSet(ServersOf(t)) /\ Cardinality(ServersOf(t)) <= MaxServers /\ MaxServers \in Nat
    BY NamesAssumption, LimitAssumption, FS_Subset DEF Limits, CapHeld, ServersOf
<1>2. CASE ServersOf(t)' \subseteq ServersOf(t) /\ Provisioning(t)' \subseteq Provisioning(t)
  <2>1. Cardinality(ServersOf(t)') <= Cardinality(ServersOf(t)) /\ IsFiniteSet(ServersOf(t)')
    BY <1>1, <1>2, FS_Subset
  <2>2. Cardinality(ServersOf(t)') \in Nat /\ Cardinality(ServersOf(t)) \in Nat
    BY <1>1, <2>1, FS_CardinalityType
  <2> QED BY <1>1, <1>2, <2>1, <2>2 DEF Limits, OneCreatePerTenant
<1>3. CASE NoNewRow
    BY <1>2, <1>3 DEF NoNewRow, ServersOf, Provisioning
<1>4. ASSUME NEW u \in Tenants, NEW n \in Names, NewRow(u, n), u # t
      PROVE  ServersOf(t)' \subseteq ServersOf(t) /\ Provisioning(t)' \subseteq Provisioning(t)
    BY <1>4 DEF NewRow, ServersOf, Provisioning
<1>5. ASSUME NEW n \in Names, NewRow(t, n)
      PROVE  /\ Cardinality(ServersOf(t)') <= MaxServers
             /\ \A m, k \in Provisioning(t)' : m = k
  <2>1. /\ servers[n] = None /\ Provisioning(t) = {} /\ Cardinality(ServersOf(t)) < MaxServers
        /\ \A m \in Names : m # n => servers'[m] = servers[m]
    BY <1>5 DEF NewRow, CanReserve
  <2>2. ServersOf(t)' \subseteq ServersOf(t) \cup {n} /\ Provisioning(t)' \subseteq {n}
    BY <2>1 DEF ServersOf, Provisioning
  <2>3. /\ IsFiniteSet(ServersOf(t) \cup {n})
        /\ Cardinality(ServersOf(t) \cup {n}) <= Cardinality(ServersOf(t)) + 1
    BY <1>1, FS_AddElement, FS_CardinalityType
  <2>4. IsFiniteSet(ServersOf(t)') /\ Cardinality(ServersOf(t)') <= Cardinality(ServersOf(t) \cup {n})
    BY <2>2, <2>3, FS_Subset
  <2>5. /\ Cardinality(ServersOf(t)) \in Nat /\ Cardinality(ServersOf(t) \cup {n}) \in Nat
        /\ Cardinality(ServersOf(t)') \in Nat
    BY <1>1, <2>3, <2>4, FS_CardinalityType
  <2>6. Cardinality(ServersOf(t)') <= MaxServers
    BY <1>1, <2>1, <2>3, <2>4, <2>5
  <2> QED BY <2>2, <2>6
<1> QED BY <1>2, <1>3, <1>4, <1>5, RowSteps

\* No tenant has a row at the start.
LEMMA LimitsInit == Init => Limits
<1> SUFFICES ASSUME Init, NEW t \in Tenants PROVE ServersOf(t) = {}
    BY LimitAssumption, FS_EmptySet DEF Limits, CapHeld, OneCreatePerTenant, Provisioning
<1> QED BY DEF Init, ServersOf

\* However many creates race, no tenant ever holds more rows than the cap.
THEOREM CapIsHeld == Spec => []CapHeld
<1>1. Spec => [](Typed /\ Work /\ Limits)
    BY TypedInit, TypedNext, WorkInit, WorkNext, LimitsInit, LimitsNext, PTL DEF Spec
<1>2. Typed /\ Work /\ Limits => CapHeld
    BY DEF Limits
<1> QED BY <1>1, <1>2, PTL

\* No tenant ever has two creates in flight.
THEOREM CreatesAreAlone == Spec => []OneCreatePerTenant
<1>1. Spec => [](Typed /\ Work /\ Limits)
    BY TypedInit, TypedNext, WorkInit, WorkNext, LimitsInit, LimitsNext, PTL DEF Spec
<1>2. Typed /\ Work /\ Limits => OneCreatePerTenant
    BY DEF Limits
<1> QED BY <1>1, <1>2, PTL

(***************************************************************************)
(* The refinement.  What ServerLedger shows of a name is its row, and for  *)
(* a deleting one the status it had before: the request that claimed the   *)
(* row or the job that works on it knows that status, and OneWorker says   *)
(* that there is no other to contradict it.                                *)
(***************************************************************************)
Known(n) == {requests[r].status : r \in {c \in Claiming : requests[c].name = n}}
            \cup {j.prior : j \in {k \in Working : k.name = n}}

Entry(n) ==
    IF servers[n] = None THEN None
    ELSE [tenant |-> servers[n].tenant, status |-> servers[n].status, was |-> StatusBefore(n)]

View == [n \in Names |-> Entry(n)]

Only(n) == \A m \in Names : m # n => Entry(m)' = Entry(m)
NoChange == \A m \in Names : Entry(m)' = Entry(m)

\* A row that is not deleting shows no status before.
LEMMA NothingBefore ==
    ASSUME NEW n, ~Status(n, "deleting")
    PROVE  StatusBefore(n) = "none"
BY DEF StatusBefore

\* Whoever works on a deleting row knows what it was.
LEMMA BeforeIsKnown ==
    ASSUME Typed, Work, NEW n \in Names, Status(n, "deleting"), NEW was \in Known(n)
    PROVE  StatusBefore(n) = was
<1>1. \A other \in Known(n) : other = was
    BY DEF Work, OneWorker, Known
<1>2. StatusBefore(n) = CHOOSE other \in Known(n) : TRUE
    BY DEF StatusBefore, Known
<1> QED BY <1>1, <1>2

\* A name shows the same while its row and what is known of it are the same.
LEMMA SameEntry ==
    ASSUME NEW m, servers'[m] = servers[m], Known(m)' = Known(m)
    PROVE  Entry(m)' = Entry(m)
<1> DEFINE any(S) == CHOOSE was \in S : TRUE
<1>1. StatusBefore(m) =
          IF Status(m, "deleting") /\ Known(m) # {} THEN any(Known(m)) ELSE "none"
    BY DEF StatusBefore, Known
<1>2. StatusBefore(m)' =
          IF Status(m, "deleting")' /\ Known(m)' # {} THEN any(Known(m)') ELSE "none"
    BY DEF StatusBefore, Known
<1>3. Status(m, "deleting")' = Status(m, "deleting")
    BY DEF Status
<1> HIDE DEF any
<1>4. StatusBefore(m)' = StatusBefore(m)
    BY <1>1, <1>2, <1>3
<1> QED BY <1>4 DEF Entry

\* A request that claims another name, or none, tells nothing of this one.
LEMMA OtherClaim ==
    ASSUME UNCHANGED jobs, NEW r \in Requests, requests[r].pc \notin ClaimPcs,
           \A s \in Requests \ {r} : requests'[s] = requests[s], NEW m,
           requests'[r].pc \in ClaimPcs => requests'[r].name # m
    PROVE  Known(m)' = Known(m)
<1> DEFINE C == {c \in Claiming : requests[c].name = m}
<1>1. C' = C /\ \A c \in C : requests'[c] = requests[c]
    BY DEF Claiming, ClaimPcs
<1>2. {requests[c].status : c \in C}' = {requests[c].status : c \in C}
    BY <1>1
<1>3. Working' = Working
    BY DEF Working
<1> QED BY <1>2, <1>3 DEF Known

\* A job that takes over from a request knows what that knew.
LEMMA HandedOver ==
    ASSUME Typed, NEW r \in Requests, requests[r].pc \in ClaimPcs, Answer(r), NEW new,
           jobs' = jobs \cup {new}, new.name = requests[r].name, new.step # "record",
           new.prior = requests[r].status, NEW m
    PROVE  Known(m)' = Known(m)
<1>1. requests \in [Requests -> RequestRecords]
    BY TypedFacts
<1>2. /\ r \in Claiming /\ Claiming' = Claiming \ {r}
      /\ \A s \in Claiming' : requests'[s] = requests[s]
    BY <1>1 DEF Claiming, ClaimPcs, Answer, Idle
<1>3. Working' = Working \cup {new}
    BY DEF Working
<1> QED BY <1>2, <1>3 DEF Known

\* A job that goes on keeps its name and what it knows.
LEMMA WentOn ==
    ASSUME Typed, UNCHANGED requests, NEW j \in jobs, NEW step, Advance(j, step),
           j.step # "record", step # "record", NEW m
    PROVE  Known(m)' = Known(m)
<1> DEFINE new == [j EXCEPT !.step = step]
<1>1. j \in JobRecords
    BY DEF Typed, JobsOK
<1>2. new.name = j.name /\ new.prior = j.prior /\ new.step = step
    BY <1>1 DEF JobRecords
<1>3. jobs' = (jobs \ {j}) \cup {new}
    BY DEF Advance
<1> HIDE DEF new
<1>4. Working' = (Working \ {j}) \cup {new} /\ j \in Working
    BY <1>2, <1>3 DEF Working
<1>5. Claiming' = Claiming
    BY DEF Claiming
<1> QED BY <1>2, <1>4, <1>5 DEF Known

\* A job that leaves its row leaves the others as they were.
LEMMA Left ==
    ASSUME UNCHANGED requests, NEW j, Working' = Working \ {j}, NEW m, m # j.name
    PROVE  Known(m)' = Known(m)
<1>1. Claiming' = Claiming
    BY DEF Claiming
<1> QED BY <1>1 DEF Known

\* What is known of a deleting row after a step.
LEMMA KnownAfter ==
    ASSUME Work', NEW n, Status(n, "deleting")', NEW was, was \in Known(n)'
    PROVE  StatusBefore(n)' = was
<1>1. \A other \in Known(n)' : other = was
    BY DEF Work, OneWorker, Known
<1>2. StatusBefore(n)' = CHOOSE other \in Known(n)' : TRUE
    BY DEF StatusBefore, Known
<1> QED BY <1>1, <1>2

\* A name shows None exactly while it has no row.
LEMMA Shown ==
    ASSUME Typed, NEW n \in Names
    PROVE  /\ View[n] = Entry(n)
           /\ Entry(n) = None <=> servers[n] = None
           /\ servers[n] # None =>
                  /\ servers[n] \in Rows
                  /\ Entry(n) = [tenant |-> servers[n].tenant, status |-> servers[n].status,
                                 was |-> StatusBefore(n)]
<1>1. View[n] = Entry(n)
    BY DEF View
<1>2. Known(n) \subseteq {"none", "ready", "failed"}
    BY TypedFacts DEF Known, Claiming, Working, RequestRecords
<1>3. StatusBefore(n) \in {"none", "ready", "failed"}
    BY <1>2 DEF StatusBefore, Known
<1>4. servers[n] \in Rows \cup {None}
    BY TypedFacts
<1>5. servers[n] # None => Entry(n) # None
    BY <1>3, <1>4, EntryAssumption DEF Entry, Rows
<1> QED BY <1>1, <1>4, <1>5 DEF Entry

\* The status a name shows.
LEMMA IsShown ==
    ASSUME Typed, NEW n \in Names, NEW status, Status(n, status)
    PROVE  Ledger!Is(n, status)
<1>1. View[n] # None /\ View[n].status = status
    BY Shown DEF Status
<1> QED BY <1>1 DEF Ledger!Is, View, Entry

\* A step that touches one name.
LEMMA OneChange ==
    ASSUME NEW n \in Names, Only(n), NEW entry, Entry(n)' = entry
    PROVE  View' = [View EXCEPT ![n] = entry]
BY DEF View, Only

\* A row that is not deleting after a step shows no status before.
LEMMA NothingBeforeAfter ==
    ASSUME NEW n, ~Status(n, "deleting")'
    PROVE  StatusBefore(n)' = "none"
BY DEF StatusBefore

\* ServerLedger counts as the standard module does.
LEMMA LedgerCounts ==
    ASSUME NEW S
    PROVE  Ledger!Cardinality(S) = Cardinality(S)
BY DEF Ledger!Cardinality, Cardinality

\* A step that moves a row to another status is a Put.
LEMMA PutStep ==
    ASSUME Typed, NEW n \in Names, Only(n), servers[n] # None, servers'[n] # None,
           servers'[n].tenant = servers[n].tenant,
           NEW status, servers'[n].status = status, NEW was, StatusBefore(n)' = was
    PROVE  Ledger!Put(n, status, was)
<1> DEFINE entry == [tenant |-> servers[n].tenant, status |-> status, was |-> was]
<1>2. View[n] = [tenant |-> servers[n].tenant, status |-> servers[n].status, was |-> StatusBefore(n)]
    BY Shown
<1>3. Entry(n)' = entry
    BY DEF Entry
<1>4. entry = [[View[n] EXCEPT !.status = status] EXCEPT !.was = was]
  <2> DEFINE old == [tenant |-> servers[n].tenant, status |-> servers[n].status,
                     was |-> StatusBefore(n)]
             moved == [tenant |-> servers[n].tenant, status |-> status, was |-> StatusBefore(n)]
  <2>1. [old EXCEPT !.status = status] = moved /\ [moved EXCEPT !.was = was] = entry
    OBVIOUS
  <2>2. View[n] = old
    BY <1>2
  <2> HIDE DEF old, moved
  <2> QED BY <2>1, <2>2
<1> HIDE DEF entry
<1>1. View' = [View EXCEPT ![n] = entry]
    BY <1>3, OneChange
<1>5. View' = [View EXCEPT ![n].status = status, ![n].was = was]
    BY <1>1, <1>4 DEF View
<1> QED BY <1>5 DEF Ledger!Put, View, Entry

\* A step that shows nothing new is none of ServerLedger.
LEMMA Stutter ==
    ASSUME NoChange, budget'.crashes = budget.crashes
    PROVE  UNCHANGED Ledger!vars
BY DEF NoChange, Entry, Ledger!vars

\* A step of a request that neither has a claim nor gets one shows nothing.
LEMMA QuietRequestShowsNothing ==
    ASSUME UNCHANGED <<servers, jobs>>, NEW r \in Requests,
           requests[r].pc \notin ClaimPcs, requests'[r].pc \notin ClaimPcs,
           \A s \in Requests \ {r} : requests'[s] = requests[s]
    PROVE  NoChange
<1>1. \A m \in Names : Known(m)' = Known(m)
    BY OtherClaim
<1> QED BY <1>1, SameEntry DEF NoChange

\* A create shows a new row only when the tenant may have one.
LEMMA CreateShows ==
    ASSUME Typed, Work, NEW r \in Requests, Create(r)
    PROVE  NoChange \/ \E t \in Tenants, n \in Names : Ledger!Accept(t, n)
<1> DEFINE q == requests[r]
<1>0. q \in RequestRecords /\ Idle.pc \notin ClaimPcs /\ (q.pc # "idle" => q.name \in Names /\ q.tenant \in Tenants)
    BY TypedFacts DEF Idle, ClaimPcs
<1>1. ASSUME NEW t \in Tenants, NEW n \in Names, CreateStart(r, t, n) PROVE NoChange
  <2>1. Asked("lookup", t, n).pc = "lookup"
    BY AskedType DEF Pcs
  <2> QED BY <1>1, <2>1, RequestEffect, QuietRequestShowsNothing DEF CreateStart, ClaimPcs
<1>2. ASSUME CreateLookup(r) PROVE NoChange
  <2>1. [q EXCEPT !.pc = "reserve"].pc = "reserve"
    BY <1>0 DEF RequestRecords
  <2>2. /\ requests'[r].pc \in {"reserve", Idle.pc}
        /\ \A s \in Requests \ {r} : requests'[s] = requests[s]
    BY <1>2, <2>1, RequestEffect DEF CreateLookup, Answer
  <2>3. UNCHANGED <<servers, jobs>> /\ q.pc = "lookup"
    BY <1>2 DEF CreateLookup
  <2> QED BY <1>0, <2>2, <2>3, QuietRequestShowsNothing DEF ClaimPcs
<1>3. ASSUME CreateReserve(r), NEW t \in Tenants, NEW n \in Names, q.tenant = t, q.name = n
      PROVE  NoChange \/ Ledger!Accept(t, n)
  <2> DEFINE life == history.lives + 1
             row == [tenant |-> t, status |-> "provisioning", life |-> life]
             next == [q EXCEPT !.pc = "provision", !.life = life]
             shown == [tenant |-> t, status |-> "provisioning", was |-> "none"]
  <2>1. q.pc = "reserve" /\ UNCHANGED jobs
    BY <1>3 DEF CreateReserve
  <2>2. CASE Answer(r) /\ UNCHANGED servers
    BY <1>0, <2>1, <2>2, RequestEffect, QuietRequestShowsNothing DEF Answer, ClaimPcs
  <2>3. CASE /\ CanReserve(t, n)
             /\ servers' = [servers EXCEPT ![n] = row]
             /\ requests' = [requests EXCEPT ![r] = next]
    <3>1. next.name = n
      BY <1>0, <1>3 DEF RequestRecords
    <3>2. /\ requests'[r].name = n /\ requests[r].pc \notin ClaimPcs
          /\ \A s \in Requests \ {r} : requests'[s] = requests[s]
      BY <2>1, <2>3, <3>1, RequestEffect DEF ClaimPcs
    <3>3. servers'[n] = row /\ \A m \in Names : m # n => servers'[m] = servers[m]
      BY <2>1, <2>3, TypedFacts
    <3>4. Only(n)
      BY <2>1, <3>2, <3>3, OtherClaim, SameEntry DEF Only
    <3>5. row # None /\ row.tenant = t /\ row.status = "provisioning"
      <4>1. life \in Lives
        BY <1>3, BoundAssumption DEF CreateReserve, Typed, OthersOK, Lives, Paths
      <4>2. row \in Rows
        BY <2>1, <4>1 DEF Rows, Statuses
      <4> QED BY <4>2, NoneAssumption
    <3>6. Entry(n)' = shown
      <4>1. StatusBefore(n)' = "none"
        BY <3>3, <3>5, NothingBeforeAfter DEF Status
      <4> QED BY <3>3, <3>5, <4>1 DEF Entry
    <3>7. View' = [View EXCEPT ![n] = shown]
      <4> HIDE DEF shown
      <4> QED BY <2>1, <3>4, <3>6, OneChange
    <3>8. View[n] = None
      BY <2>1, <2>3, Shown DEF CanReserve
    <3>9. /\ Ledger!Held(t) = ServersOf(t)
          /\ \A m \in ServersOf(t) : ~Ledger!Is(m, "provisioning")
      <4>1. \A m \in Names : View[m] # None <=> servers[m] # None
        BY Shown
      <4>2. \A m \in Names : servers[m] # None =>
                View[m].tenant = servers[m].tenant /\ View[m].status = servers[m].status
        BY Shown
      <4>3. ServersOf(t) = {m \in Names : View[m] # None /\ View[m].tenant = t}
        BY <4>1, <4>2 DEF ServersOf
      <4>4. \A m \in ServersOf(t) : View[m].status # "provisioning"
        BY <2>3, <4>2 DEF CanReserve, Provisioning, ServersOf
      <4> QED BY <4>3, <4>4 DEF Ledger!Held, Ledger!Is, View, Entry
    <3>10. Cardinality(ServersOf(t)) < MaxServers
      BY <2>3 DEF CanReserve
    <3> QED BY <3>7, <3>8, <3>9, <3>10, LedgerCounts DEF Ledger!Accept, View, Entry
  <2> QED BY <1>3, <2>2, <2>3 DEF CreateReserve
<1>4. ASSUME CreateSubmit(r) PROVE NoChange
  <2> DEFINE new == [ticket |-> NewTicket, name |-> q.name, life |-> q.life, step |-> "namespace",
                     prior |-> q.status, awake |-> q.awake, force |-> q.force]
  <2>1. q.pc = "provision" /\ jobs' = jobs \cup {new} /\ Answer(r) /\ UNCHANGED servers
    BY <1>4 DEF CreateSubmit, Submit
  <2>2. new.name = q.name /\ new.step # "record" /\ new.prior = q.status
    OBVIOUS
  <2> HIDE DEF new
  <2>3. \A m \in Names : Known(m)' = Known(m)
    BY <2>1, <2>2, HandedOver DEF ClaimPcs
  <2> QED BY <2>1, <2>3, SameEntry DEF NoChange
<1>5. CreateReserve(r) => q.name \in Names /\ q.tenant \in Tenants
    BY <1>0 DEF CreateReserve
<1> QED BY <1>1, <1>2, <1>3, <1>4, <1>5 DEF Create

\* A delete that begins shows its row as deleting, and what it was.
LEMMA DeleteShows ==
    ASSUME Typed, Work, Work', NEW r \in Requests, Delete(r)
    PROVE  NoChange \/ \E n \in Names : Ledger!AcceptDelete(n)
<1> DEFINE q == requests[r]
<1>0. q \in RequestRecords /\ Idle.pc \notin ClaimPcs /\ RequestOK(q)
    BY TypedFacts DEF Idle, ClaimPcs, Typed, OthersOK
<1>1. ASSUME NEW t \in Tenants, NEW n \in Names, NEW force \in BOOLEAN, DeleteStart(r, t, n, force)
      PROVE  NoChange
  <2> DEFINE asked == Asked("check", t, n)
             next == [asked EXCEPT !.status = servers[n].status, !.force = force]
  <2>1. asked \in RequestRecords /\ asked.pc = "check"
    BY AskedType DEF Pcs
  <2>2. next.pc = "check"
    <3> HIDE DEF asked
    <3> QED BY <2>1 DEF RequestRecords
  <2>3. requests' = [requests EXCEPT ![r] = next] /\ UNCHANGED <<servers, jobs>> /\ q.pc = "idle"
    BY <1>1 DEF DeleteStart
  <2> HIDE DEF next
  <2> QED BY <2>2, <2>3, RequestEffect, QuietRequestShowsNothing DEF ClaimPcs
<1>2. ASSUME DeleteCheck(r) PROVE NoChange
  <2>1. \A awake \in BOOLEAN : [q EXCEPT !.pc = "begin", !.awake = awake].pc = "begin"
    BY <1>0 DEF RequestRecords
  <2>2. /\ requests'[r].pc \in {"begin", Idle.pc}
        /\ \A s \in Requests \ {r} : requests'[s] = requests[s]
    <3>1. CASE Answer(r)
      BY <3>1, RequestEffect DEF Answer
    <3>2. ASSUME NEW awake \in BOOLEAN,
                 requests' = [requests EXCEPT ![r] = [q EXCEPT !.pc = "begin", !.awake = awake]]
          PROVE  /\ requests'[r].pc \in {"begin", Idle.pc}
                 /\ \A s \in Requests \ {r} : requests'[s] = requests[s]
      BY <2>1, <3>2, RequestEffect
    <3> QED BY <1>2, <3>1, <3>2 DEF DeleteCheck
  <2>3. UNCHANGED <<servers, jobs>> /\ q.pc = "check"
    BY <1>2 DEF DeleteCheck
  <2> QED BY <1>0, <2>2, <2>3, QuietRequestShowsNothing DEF ClaimPcs
<1>3. ASSUME DeleteBegin(r), NEW n \in Names, NEW was, q.name = n, q.status = was
      PROVE  NoChange \/ Ledger!AcceptDelete(n)
  <2> DEFINE next == [q EXCEPT !.pc = "remove", !.life = servers[n].life]
  <2>1. /\ q.pc = "begin" /\ UNCHANGED jobs
        /\ was \in {"ready", "failed"}
    BY <1>0, <1>3 DEF DeleteBegin, RequestOK, RequestRecords
  <2>2. CASE Answer(r) /\ UNCHANGED servers
    BY <1>0, <2>1, <2>2, RequestEffect, QuietRequestShowsNothing DEF Answer, ClaimPcs
  <2>3. CASE /\ servers[n] # None /\ servers[n].status = was
             /\ servers' = SetStatus(n, "deleting")
             /\ requests' = [requests EXCEPT ![r] = next]
    <3>1. next.name = n /\ next.pc = "remove" /\ next.status = was
      BY <1>0, <1>3 DEF RequestRecords
    <3>2. /\ requests'[r] = next /\ requests[r].pc \notin ClaimPcs
          /\ \A s \in Requests \ {r} : requests'[s] = requests[s]
      BY <2>1, <2>3, RequestEffect DEF ClaimPcs
    <3>3. /\ servers'[n] # None /\ servers'[n].status = "deleting"
          /\ servers'[n].tenant = servers[n].tenant
          /\ \A m \in Names : m # n => servers'[m] = servers[m]
      BY <2>1, <2>3, SetStatusEffect, NoneAssumption DEF Statuses
    <3> HIDE DEF next
    <3>4. Only(n)
      BY <2>1, <3>1, <3>2, <3>3, OtherClaim, SameEntry DEF Only
    <3>5. was \in Known(n)' /\ Status(n, "deleting")'
      BY <3>1, <3>2, <3>3 DEF Known, Claiming, Status
    <3>6. StatusBefore(n)' = was
      BY <2>1, <3>5, KnownAfter
    <3>7. Ledger!Put(n, "deleting", was)
      BY <2>1, <2>3, <3>3, <3>4, <3>6, PutStep
    <3>8. Ledger!Is(n, was)
      BY <2>1, <2>3, IsShown DEF Status
    <3> QED BY <2>1, <3>7, <3>8 DEF Ledger!AcceptDelete
  <2> QED BY <1>3, <2>1, <2>2, <2>3 DEF DeleteBegin, CanBeginDelete
<1>4. ASSUME DeleteSubmit(r) PROVE NoChange
  <2> DEFINE new == [ticket |-> NewTicket, name |-> q.name, life |-> q.life, step |-> "backup",
                     prior |-> q.status, awake |-> q.awake, force |-> q.force]
  <2>1. q.pc = "remove" /\ jobs' = jobs \cup {new} /\ Answer(r) /\ UNCHANGED servers
    BY <1>4 DEF DeleteSubmit, Submit
  <2>2. new.name = q.name /\ new.step # "record" /\ new.prior = q.status
    OBVIOUS
  <2> HIDE DEF new
  <2>3. \A m \in Names : Known(m)' = Known(m)
    BY <2>1, <2>2, HandedOver DEF ClaimPcs
  <2> QED BY <2>1, <2>3, SameEntry DEF NoChange
<1>5. DeleteBegin(r) => q.name \in Names
    BY <1>0 DEF DeleteBegin, RequestOK
<1> QED BY <1>1, <1>2, <1>3, <1>4, <1>5 DEF Delete

\* A wake shows nothing.
LEMMA WakeShows ==
    ASSUME Typed, NEW r \in Requests, Wake(r)
    PROVE  NoChange
<1>1. ASSUME NEW t \in Tenants, NEW n \in Names, WakeStart(r, t, n) PROVE NoChange
  <2>1. Asked("scale", t, n).pc = "scale"
    BY AskedType DEF Pcs
  <2> QED BY <1>1, <2>1, RequestEffect, QuietRequestShowsNothing DEF WakeStart, ClaimPcs
<1>2. ASSUME WakeScale(r) PROVE NoChange
  <2>1. Idle.pc \notin ClaimPcs
    BY DEF Idle, ClaimPcs
  <2> QED BY <1>2, <2>1, RequestEffect, QuietRequestShowsNothing DEF WakeScale, Answer, ClaimPcs
<1> QED BY <1>1, <1>2 DEF Wake

\* A job that ends, or lets go of its row, shows nothing of the other names.
LEMMA LeavesOneName ==
    ASSUME UNCHANGED requests, NEW j \in jobs, Working' = Working \ {j},
           \A m \in Names : m # j.name => servers'[m] = servers[m]
    PROVE  Only(j.name)
BY Left, SameEntry DEF Only

\* A create that ends shows its outcome.
LEMMA OutcomeShows ==
    ASSUME Typed, Work, UNCHANGED requests, NEW j \in jobs, j.step \in ProvisionSteps,
           Working' = Working \ {j}, NEW status \in {"ready", "failed"},
           servers'[j.name] \in Rows, servers'[j.name].status = status,
           servers'[j.name].tenant = servers[j.name].tenant,
           \A m \in Names : m # j.name => servers'[m] = servers[m]
    PROVE  Ledger!Created(j.name)
<1> DEFINE n == j.name
<1>1. n \in Names /\ servers[n] \in Rows /\ servers[n].status = "provisioning"
    BY TypedFacts, WorkerIsAlone DEF ProvisionSteps
<1>2. StatusBefore(n)' = "none"
    BY NothingBeforeAfter DEF Status
<1>3. Ledger!Put(n, status, "none")
    BY <1>1, <1>2, LeavesOneName, PutStep, NoneAssumption
<1>4. Ledger!Is(n, "provisioning")
    BY <1>1, IsShown, NoneAssumption DEF Status
<1> QED BY <1>3, <1>4 DEF Ledger!Created

\* A job that fails shows the end of a create, or puts the row back.
LEMMA FailShows ==
    ASSUME Typed, Work, UNCHANGED requests, NEW j \in jobs, j.step # "record", Fail(j)
    PROVE  Ledger!Created(j.name) \/ Ledger!PutBack(j.name)
<1> DEFINE n == j.name
<1>1. /\ jobs' = jobs \ {j} /\ servers'[n] \in Rows
      /\ servers'[n].tenant = servers[n].tenant
      /\ j.step \in ProvisionSteps => servers'[n].status = "failed"
      /\ j.step \in RemoveSteps => servers'[n].status = j.prior
      /\ servers'[n].status \in {"ready", "failed"}
      /\ \A m \in Names : m # n => servers'[m] = servers[m]
    BY FailEffect
<1>2. /\ n \in Names /\ servers[n] \in Rows /\ j \in Working
      /\ j.step \in ProvisionSteps \cup RemoveSteps
      /\ j.step \in RemoveSteps => servers[n].status = "deleting"
    BY TypedFacts, WorkerIsAlone
<1>3. Working' = Working \ {j}
    BY <1>1 DEF Working
<1>4. CASE j.step \in ProvisionSteps
    BY <1>1, <1>3, <1>4, OutcomeShows
<1>5. CASE j.step \in RemoveSteps
  <2>1. j.prior \in Known(n) /\ Status(n, "deleting")
    BY <1>2, <1>5, NoneAssumption DEF Known, Status
  <2>2. View[n].was = j.prior
    BY <1>2, <2>1, BeforeIsKnown, Shown, NoneAssumption
  <2>3. StatusBefore(n)' = "none"
    BY <1>1 DEF StatusBefore, Status
  <2>4. Ledger!Put(n, j.prior, "none")
    BY <1>1, <1>2, <1>3, <1>5, <2>3, LeavesOneName, PutStep, NoneAssumption
  <2>5. Ledger!Put(n, View[n].was, "none")
    BY <2>2, <2>4
  <2>6. Ledger!Is(n, "deleting")
    BY <1>2, <2>1, IsShown
  <2> QED BY <2>5, <2>6 DEF Ledger!PutBack, View, Entry
<1> QED BY <1>2, <1>4, <1>5

\* A job that goes on shows nothing.
LEMMA AdvanceShowsNothing ==
    ASSUME Typed, UNCHANGED <<servers, requests>>, NEW j \in jobs, NEW step, Advance(j, step),
           j.step # "record", step # "record"
    PROVE  NoChange
<1>1. \A m \in Names : Known(m)' = Known(m)
    BY WentOn
<1> QED BY <1>1, SameEntry DEF NoChange

\* What a job's step shows, and that it is no restart.
JobShows == NoChange \/ \E n \in Names : Ledger!Created(n) \/ Ledger!Deleted(n) \/ Ledger!PutBack(n)

\* A cluster call shows at most that it failed.
LEMMA CallShows ==
    ASSUME Typed, Work, NEW j \in jobs, NEW works, NEW done, NEW partly, NEW next,
           Call(j, works, done, partly, next), j.step # "record", next # "record"
    PROVE  JobShows
<1>1. UNCHANGED requests /\ j.name \in Names
    BY TypedFacts DEF Call
<1>2. CASE Advance(j, next) /\ UNCHANGED servers
    BY <1>1, <1>2, AdvanceShowsNothing DEF JobShows
<1>3. CASE Fail(j)
    BY <1>1, <1>3, FailShows DEF JobShows
<1> QED BY <1>2, <1>3 DEF Call

\* The steps of a job that provisions.
LEMMA ProvisionShows ==
    ASSUME Typed, Work, NEW j \in jobs, Provision(j)
    PROVE  JobShows
<1>1. CASE CreateNamespace(j)
    BY <1>1, CallShows DEF CreateNamespace, At
<1>2. CASE GrantAccess(j)
    BY <1>2, CallShows DEF GrantAccess, At
<1>3. CASE CreateCredentials(j)
    BY <1>3, CallShows DEF CreateCredentials, At
<1>4. CASE InstallRelease(j)
    BY <1>4, CallShows DEF InstallRelease, At
<1>5. CASE ScaleWrapper(j)
    BY <1>5, CallShows DEF ScaleWrapper, At
<1>6. CASE WaitForRollout(j)
    BY <1>6, CallShows DEF WaitForRollout, At
<1>7. CASE ProvisionDone(j)
  <2>1. /\ j.step = "ready" /\ UNCHANGED requests
        /\ servers' = SetStatus(j.name, "ready") /\ jobs' = jobs \ {j}
    BY <1>7 DEF ProvisionDone, At
  <2>2. j.name \in Names /\ servers[j.name] # None
    BY <2>1, TypedFacts, WorkerIsAlone, NoneAssumption
  <2>3. /\ servers'[j.name] \in Rows /\ servers'[j.name].status = "ready"
        /\ servers'[j.name].tenant = servers[j.name].tenant
        /\ \A m \in Names : m # j.name => servers'[m] = servers[m]
    BY <2>1, <2>2, SetStatusEffect DEF Statuses
  <2>4. Working' = Working \ {j} /\ j.step \in ProvisionSteps
    BY <2>1 DEF Working, ProvisionSteps
  <2> QED BY <2>1, <2>2, <2>3, <2>4, OutcomeShows DEF JobShows
<1> QED BY <1>1, <1>2, <1>3, <1>4, <1>5, <1>6, <1>7 DEF Provision

\* The steps of a job that removes.
LEMMA RemoveShows ==
    ASSUME Typed, Work, NEW j \in jobs, Remove(j)
    PROVE  JobShows
<1>1. CASE BackUpWorld(j)
    BY <1>1, AdvanceShowsNothing DEF BackUpWorld, At, JobShows
<1>2. CASE DoWithoutBackup(j)
  <2>1. j.step = "backup" /\ UNCHANGED requests /\ j.name \in Names
    BY <1>2, TypedFacts DEF DoWithoutBackup, At
  <2>2. (Advance(j, "uninstall") /\ UNCHANGED servers) \/ Fail(j)
    BY <1>2 DEF DoWithoutBackup
  <2>3. CASE Advance(j, "uninstall") /\ UNCHANGED servers
    BY <2>1, <2>3, AdvanceShowsNothing DEF JobShows
  <2>4. CASE Fail(j)
    BY <2>1, <2>4, FailShows DEF JobShows
  <2> QED BY <2>2, <2>3, <2>4
<1>3. CASE UninstallRelease(j)
    BY <1>3, CallShows DEF UninstallRelease, At
<1>4. CASE DeleteNamespace(j)
    BY <1>4, CallShows DEF DeleteNamespace, At
<1>5. CASE DeleteRow(j)
  <2> DEFINE n == j.name
             new == [j EXCEPT !.step = "record"]
  <2>1. /\ j.step = "delete row" /\ UNCHANGED requests
        /\ servers' = [servers EXCEPT ![n] = None] /\ jobs' = (jobs \ {j}) \cup {new}
    BY <1>5 DEF DeleteRow, At, Advance
  <2>2. j \in JobRecords /\ servers \in [Names -> Rows \cup {None}] /\ n \in Names
    BY TypedFacts DEF Typed, JobsOK
  <2>3. new.step = "record"
    BY <2>2 DEF JobRecords
  <2> HIDE DEF new
  <2>4. Working' = Working \ {j}
    BY <2>1, <2>3 DEF Working
  <2>5. servers'[n] = None /\ \A m \in Names : m # n => servers'[m] = servers[m]
    BY <2>1, <2>2
  <2>6. View' = [View EXCEPT ![n] = None]
    BY <2>1, <2>2, <2>4, <2>5, LeavesOneName, OneChange DEF Entry
  <2>7. Ledger!Is(n, "deleting")
    BY <2>1, <2>2, WorkerIsAlone, IsShown, NoneAssumption DEF Status, RemoveSteps
  <2>8. Ledger!Deleted(n)
    BY <2>6, <2>7 DEF Ledger!Deleted, View, Entry
  <2> QED BY <2>2, <2>8 DEF JobShows
<1>6. CASE RecordDelete(j)
  <2>1. j.step = "record" /\ jobs' = jobs \ {j} /\ UNCHANGED <<servers, requests>>
    BY <1>6 DEF RecordDelete, At
  <2>2. Working' = Working /\ Claiming' = Claiming
    BY <2>1 DEF Working, Claiming
  <2>3. \A m \in Names : Known(m)' = Known(m)
    BY <2>1, <2>2 DEF Known
  <2> QED BY <2>1, <2>3, SameEntry DEF NoChange, JobShows
<1> QED BY <1>1, <1>2, <1>3, <1>4, <1>5, <1>6 DEF Remove

\* A restart shows every create as failed and every delete as over.
LEMMA RestartShows ==
    ASSUME Typed, Restart
    PROVE  Ledger!Restart
<1> DEFINE ready == {n \in Names : Status(n, "deleting") /\ Recovered(n) = "ready"}
<1>1. ready \in SUBSET {n \in Names : Ledger!Is(n, "deleting")}
    BY IsShown
<1>2. \A n \in Names : /\ servers[n] = None => Entry(n)' = None /\ View[n] = None
                       /\ servers[n] # None =>
                            /\ servers[n] \in Rows
                            /\ View[n] = [tenant |-> servers[n].tenant, status |-> servers[n].status,
                                          was |-> StatusBefore(n)]
                            /\ Entry(n)' = [tenant |-> servers[n].tenant, status |-> Recovered(n),
                                            was |-> "none"]
                            /\ Recovered(n) \in {"ready", "failed"}
  <2> SUFFICES ASSUME NEW n \in Names
               PROVE  /\ servers[n] = None => Entry(n)' = None /\ View[n] = None
                      /\ servers[n] # None =>
                            /\ servers[n] \in Rows
                            /\ View[n] = [tenant |-> servers[n].tenant, status |-> servers[n].status,
                                          was |-> StatusBefore(n)]
                            /\ Entry(n)' = [tenant |-> servers[n].tenant, status |-> Recovered(n),
                                            was |-> "none"]
                            /\ Recovered(n) \in {"ready", "failed"}
    OBVIOUS
  <2>1. CASE servers[n] = None
    BY <2>1, Shown, RestartKeepsWork DEF Entry
  <2>2. CASE servers[n] # None
    <3>1. /\ servers'[n] \in Rows /\ servers'[n].tenant = servers[n].tenant
          /\ servers'[n].status = Recovered(n) /\ Recovered(n) \in {"ready", "failed"}
      BY <2>2, RestartKeepsWork
    <3>2. StatusBefore(n)' = "none"
      BY <3>1, NothingBeforeAfter DEF Status
    <3>3. Entry(n)' = [tenant |-> servers[n].tenant, status |-> Recovered(n), was |-> "none"]
      BY <3>1, <3>2, NoneAssumption DEF Entry
    <3> QED BY <2>2, <3>1, <3>3, Shown
  <2> QED BY <2>1, <2>2
<1>3. ASSUME NEW n \in Names
      PROVE  Entry(n)' =
                 CASE Ledger!Is(n, "provisioning") -> [View[n] EXCEPT !.status = "failed"]
                   [] n \in ready -> [View[n] EXCEPT !.status = "ready", !.was = "none"]
                   [] Ledger!Is(n, "deleting") /\ n \notin ready ->
                          [View[n] EXCEPT !.status = "failed", !.was = "none"]
                   [] OTHER -> View[n]
  <2>1. \A status : Ledger!Is(n, status) <=> View[n] # None /\ View[n].status = status
    BY DEF Ledger!Is, View, Entry
  <2>2. \A status : Ledger!Is(n, status) <=> Status(n, status)
    BY <1>2, <2>1, Shown DEF Status
  <2>3. ~Status(n, "deleting") => StatusBefore(n) = "none"
    BY NothingBefore
  <2> DEFINE old == [tenant |-> servers[n].tenant, status |-> servers[n].status,
                     was |-> StatusBefore(n)]
             new == [tenant |-> servers[n].tenant, status |-> Recovered(n), was |-> "none"]
             failed == [tenant |-> servers[n].tenant, status |-> "failed", was |-> StatusBefore(n)]
  <2>4. /\ [old EXCEPT !.status = "failed"] = failed
        /\ [old EXCEPT !.status = Recovered(n), !.was = "none"] = new
    <3>1. [old EXCEPT !.status = "failed"] = failed
      OBVIOUS
    <3>2. ASSUME NEW status
          PROVE  [old EXCEPT !.status = status, !.was = "none"]
                     = [tenant |-> servers[n].tenant, status |-> status, was |-> "none"]
      <4> DEFINE moved == [tenant |-> servers[n].tenant, status |-> status,
                           was |-> StatusBefore(n)]
      <4>1. [old EXCEPT !.status = status] = moved
        OBVIOUS
      <4>2. [moved EXCEPT !.was = "none"]
                = [tenant |-> servers[n].tenant, status |-> status, was |-> "none"]
        OBVIOUS
      <4> QED BY <4>1, <4>2
    <3> QED BY <3>1, <3>2
  <2>5. servers[n] # None => View[n] = old /\ Entry(n)' = new
    BY <1>2
  <2>6. CASE servers[n] = None
    BY <1>2, <2>2, <2>6 DEF Status
  <2>7. CASE servers[n] # None /\ servers[n].status = "provisioning"
    <3>1. Recovered(n) = "failed"
      BY <2>7 DEF Recovered
    <3>2. failed = new
      BY <2>3, <2>7, <3>1 DEF Status
    <3> HIDE DEF old, new, failed
    <3>3. [View[n] EXCEPT !.status = "failed"] = Entry(n)'
      BY <2>7, <2>4, <2>5, <3>2
    <3> QED BY <2>2, <2>7, <3>3 DEF Status
  <2>8. CASE servers[n] # None /\ servers[n].status = "deleting"
    <3>1. /\ n \in ready <=> Recovered(n) = "ready"
          /\ Recovered(n) \in {"ready", "failed"}
      BY <1>2, <2>8 DEF Status
    <3>3. [View[n] EXCEPT !.status = Recovered(n), !.was = "none"] = Entry(n)'
      <4> HIDE DEF old, new
      <4> QED BY <2>8, <2>4, <2>5
    <3>2. Ledger!Is(n, "deleting") /\ ~Ledger!Is(n, "provisioning")
      BY <2>2, <2>8 DEF Status
    <3> HIDE DEF ready
    <3> QED BY <3>1, <3>2, <3>3
  <2>9. CASE servers[n] # None /\ servers[n].status \in {"ready", "failed"}
    <3>1. Recovered(n) = servers[n].status /\ StatusBefore(n) = "none"
      BY <2>3, <2>9 DEF Recovered, Status
    <3>2. Entry(n)' = View[n]
      BY <1>2, <2>9, <3>1
    <3>3. n \notin ready /\ ~Ledger!Is(n, "deleting") /\ ~Ledger!Is(n, "provisioning")
      BY <2>2, <2>9 DEF Status
    <3> HIDE DEF ready
    <3> QED BY <3>2, <3>3
  <2>10. servers[n] # None => servers[n].status \in {"provisioning", "deleting", "ready", "failed"}
    BY TypedFacts DEF Rows, Statuses
  <2> QED BY <2>6, <2>7, <2>8, <2>9, <2>10
<1> HIDE DEF ready
<1>4. View' = [n \in Names |->
                 CASE Ledger!Is(n, "provisioning") -> [View[n] EXCEPT !.status = "failed"]
                   [] n \in ready -> [View[n] EXCEPT !.status = "ready", !.was = "none"]
                   [] Ledger!Is(n, "deleting") /\ n \notin ready ->
                          [View[n] EXCEPT !.status = "failed", !.was = "none"]
                   [] OTHER -> View[n]]
    BY <1>3 DEF View
<1>5. (MaxCrashes - budget.crashes)' = (MaxCrashes - budget.crashes) + 1
  <2>1. budget \in [faults : 0 .. MaxFaults, crashes : 0 .. MaxCrashes]
    BY DEF Typed, OthersOK
  <2>2. budget'.crashes = budget.crashes - 1 /\ budget.crashes \in Nat
    BY <2>1 DEF Restart
  <2> QED BY <2>2, BoundAssumption
<1> QED BY <1>1, <1>4, <1>5 DEF Ledger!Restart, View, Entry

\* The ledger starts empty.
LEMMA LedgerInit == Init => Ledger!Init
<1> SUFFICES ASSUME Init PROVE Ledger!Init
    OBVIOUS
<1>1. budget.crashes = MaxCrashes /\ \A n \in Names : servers[n] = None
    BY DEF Init
<1> QED BY <1>1, BoundAssumption DEF Ledger!Init

\* Every step is one of the ledger's, or shows nothing.
LEMMA LedgerNext == Typed /\ Work /\ Work' /\ [Next]_vars => [Ledger!Next]_(Ledger!vars)
<1> SUFFICES ASSUME Typed, Work, Work', [Next]_vars PROVE [Ledger!Next]_(Ledger!vars)
    OBVIOUS
<1>1. ~Restart => budget'.crashes = budget.crashes
  <2>1. \A b \in [faults : 0 .. MaxFaults, crashes : 0 .. MaxCrashes] :
            [b EXCEPT !.faults = @ - 1].crashes = b.crashes
    OBVIOUS
  <2>2. budget \in [faults : 0 .. MaxFaults, crashes : 0 .. MaxCrashes]
    BY DEF Typed, OthersOK
  <2>3. SpendFault => budget'.crashes = budget.crashes
    BY <2>1, <2>2 DEF SpendFault
  <2>4. ASSUME NEW r \in Requests, Create(r) \/ Delete(r) \/ Wake(r)
        PROVE  budget'.crashes = budget.crashes
    BY <2>3, <2>4 DEF Create, CreateStart, CreateLookup, CreateReserve, CreateSubmit, Delete,
              DeleteStart, DeleteCheck, DeleteBegin, DeleteSubmit, Wake, WakeStart, WakeScale
  <2>5. ASSUME NEW j \in jobs, JobStep(j) PROVE budget'.crashes = budget.crashes
    BY <2>3, <2>5 DEF JobStep, Provision, CreateNamespace, GrantAccess, CreateCredentials,
              InstallRelease, ScaleWrapper, WaitForRollout, ProvisionDone, Remove, BackUpWorld,
              DoWithoutBackup, UninstallRelease, DeleteNamespace, DeleteRow, RecordDelete, Call
  <2>6. Environment => UNCHANGED budget
    BY DEF Environment, NamespaceDrains, PodScales, PruneBackup
  <2>7. UNCHANGED vars => UNCHANGED budget
    BY DEF vars
  <2> QED BY <2>4, <2>5, <2>6, <2>7 DEF Next
<1>2. ASSUME NoChange, ~Restart PROVE [Ledger!Next]_(Ledger!vars)
    BY <1>1, <1>2, Stutter
<1>3. ~Restart => UNCHANGED (MaxCrashes - budget.crashes)
    BY <1>1
<1>4. CASE UNCHANGED vars /\ ~Restart
  <2>1. \A m \in Names : Known(m)' = Known(m)
    BY <1>4 DEF vars, Known, Claiming, Working
  <2> QED BY <1>2, <1>4, <2>1, SameEntry DEF NoChange, vars
<1>5. CASE Environment /\ ~Restart
  <2>1. UNCHANGED <<servers, requests, jobs>>
    BY <1>5 DEF Environment, NamespaceDrains, PodScales, PruneBackup
  <2>2. \A m \in Names : Known(m)' = Known(m)
    BY <2>1 DEF Known, Claiming, Working
  <2> QED BY <1>2, <1>5, <2>1, <2>2, SameEntry DEF NoChange
<1>6. CASE Restart
    BY <1>6, RestartShows DEF Ledger!Next
<1>7. ASSUME NEW r \in Requests, Create(r) \/ Delete(r) \/ Wake(r), ~Restart
      PROVE  [Ledger!Next]_(Ledger!vars)
    BY <1>2, <1>3, <1>7, CreateShows, DeleteShows, WakeShows DEF Ledger!Next
<1>8. ASSUME NEW j \in jobs, JobStep(j), ~Restart PROVE [Ledger!Next]_(Ledger!vars)
  <2>1. JobShows
    BY <1>8, ProvisionShows, RemoveShows DEF JobStep
  <2> QED BY <1>2, <1>3, <1>8, <2>1 DEF JobShows, Ledger!Next
<1> QED BY <1>4, <1>5, <1>6, <1>7, <1>8 DEF Next

\* The rows change only as ServerLedger says.
THEOREM LedgerKept == Spec => KeepsLedger
<1>1. Spec => [](Typed /\ Work)
    BY TypedInit, TypedNext, WorkInit, WorkNext, PTL DEF Spec
<1>2. Typed /\ Work /\ Typed' /\ Work' /\ [Next]_vars => [Ledger!Next]_(Ledger!vars)
    BY LedgerNext
<1> QED BY <1>1, <1>2, LedgerInit, PTL DEF Spec, KeepsLedger, Ledger!Spec
=============================================================================
