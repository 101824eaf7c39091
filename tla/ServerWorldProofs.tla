-------------------------- MODULE ServerWorldProofs --------------------------
(***************************************************************************)
(* Proofs about ServerLifecycle's worlds: whose they are, that a deleted   *)
(* server leaves nothing behind, and that none is lost unbacked-up.        *)
(***************************************************************************)
EXTENDS ServerSafetyProofs

(***************************************************************************)
(* What a namespace holds.  Clean strengthens WorldBelongsToRow and        *)
(* FreeNameIsClean by what a job relies on between two of its steps.       *)
(***************************************************************************)
TornSteps == {"delete namespace", "delete row"}
InstalledSteps == {"scale", "rollout", "ready"}

\* A world is only in a live namespace, and is that of the given life.
HoldsOnly(c, life) == c.world # 0 => c.ns = "active" /\ c.world = life

\* What a job about to take `step` has done to the namespace so far.
Fits(c, step, life) ==
    /\ step \in TornSteps => c.sts = "none" /\ c.world = 0
    /\ step = "delete row" => c.ns # "active"
    /\ step \in InstalledSteps => c.world = life

Swept(c) == c.ns # "active" /\ c.sts = "none" /\ c.world = 0

NameClean(n) ==
    /\ servers[n] = None => Swept(cluster[n])
    /\ servers[n] # None => HoldsOnly(cluster[n], servers[n].life)
    /\ \A j \in Working : j.name = n => Fits(cluster[n], j.step, j.life)

Clean == \A n \in Names : NameClean(n)

\* Clean is stronger than the two invariants it was made for.
LEMMA CleanIsClean == Clean => WorldBelongsToRow /\ FreeNameIsClean
BY DEF Clean, NameClean, Swept, HoldsOnly, WorldBelongsToRow, FreeNameIsClean

\* A name whose namespace and life nothing has touched.
LEMMA UntouchedStaysClean ==
    ASSUME NEW n \in Names, NameClean(n), cluster'[n] = cluster[n],
           servers'[n] = None <=> servers[n] = None,
           servers[n] # None => servers'[n].life = servers[n].life,
           \A j \in Working' : j.name = n /\ j.step \in TornSteps \cup InstalledSteps => j \in Working
    PROVE  NameClean(n)'
<1>1. \A j \in Working' : j.name = n => Fits(cluster'[n], j.step, j.life)
  <2> SUFFICES ASSUME NEW j \in Working', j.name = n PROVE Fits(cluster'[n], j.step, j.life)
    OBVIOUS
  <2>1. CASE j.step \in TornSteps \cup InstalledSteps
    BY <2>1 DEF NameClean
  <2>2. CASE j.step \notin TornSteps \cup InstalledSteps
    BY <2>2 DEF Fits, TornSteps, InstalledSteps
  <2> QED BY <2>1, <2>2
<1> QED BY <1>1 DEF NameClean

\* A step that leaves the cluster, the rows' lives and the jobs alone, apart
\* from jobs that end or only begin.
LEMMA QuietKeepsClean ==
    ASSUME Clean, UNCHANGED cluster,
           \A n \in Names : servers'[n] = None <=> servers[n] = None,
           \A n \in Names : servers[n] # None => servers'[n].life = servers[n].life,
           \A j \in Working' : j.step \in TornSteps \cup InstalledSteps => j \in Working
    PROVE  Clean'
BY UntouchedStaysClean DEF Clean

\* Working jobs after one of them went on.
LEMMA AdvanceEffect ==
    ASSUME Typed, Work, NEW j \in jobs, j.step # "record", NEW step, Advance(j, step)
    PROVE  \A k \in Working' :
              \/ k \in Working /\ k.name # j.name
              \/ k.name = j.name /\ k.life = j.life /\ k.step = step /\ k.force = j.force
                 /\ k.prior = j.prior
<1> DEFINE new == [j EXCEPT !.step = step]
<1>0. j \in JobRecords
    BY DEF Typed, JobsOK
<1>1. new.name = j.name /\ new.life = j.life /\ new.step = step /\ new.force = j.force
      /\ new.prior = j.prior
    BY <1>0 DEF JobRecords
<1>2. jobs' = (jobs \ {j}) \cup {new}
    BY DEF Advance
<1> HIDE DEF new
<1>3. \A k \in Working' : k = new \/ (k \in Working /\ k # j)
    BY <1>2 DEF Working
<1> QED BY <1>1, <1>3, WorkerIsAlone

\* A job goes on, leaving its namespace as its next step expects it.
LEMMA AdvanceKeepsClean ==
    ASSUME Typed, Work, Clean, UNCHANGED servers, NEW j \in jobs, j.step # "record",
           NEW step, Advance(j, step), NEW c,
           cluster' = [cluster EXCEPT ![j.name] = c],
           HoldsOnly(c, j.life), Fits(c, step, j.life)
    PROVE  Clean'
<1>0. /\ cluster \in [Names -> Namespaces] /\ j.name \in Names
      /\ servers[j.name] # None /\ servers[j.name].life = j.life
    BY TypedFacts, WorkerIsAlone, NoneAssumption
<1>1. cluster'[j.name] = c /\ \A n \in Names : n # j.name => cluster'[n] = cluster[n]
    BY <1>0
<1>2. ASSUME NEW n \in Names, n # j.name PROVE NameClean(n)'
    BY <1>1, <1>2, AdvanceEffect, UntouchedStaysClean DEF Clean
<1>3. NameClean(j.name)'
  <2>1. \A k \in Working' : k.name = j.name => k.step = step /\ k.life = j.life
    BY AdvanceEffect
  <2> QED BY <1>0, <1>1, <2>1 DEF NameClean
<1> QED BY <1>2, <1>3 DEF Clean

\* A job fails, leaving in its namespace no world but its own.
LEMMA FailKeepsClean ==
    ASSUME Typed, Work, Clean, NEW j \in jobs, j.step # "record", Fail(j), NEW c,
           cluster' = [cluster EXCEPT ![j.name] = c], HoldsOnly(c, j.life)
    PROVE  Clean'
<1>0. /\ cluster \in [Names -> Namespaces] /\ j.name \in Names
      /\ servers[j.name] # None /\ servers[j.name].life = j.life
    BY TypedFacts, WorkerIsAlone, NoneAssumption
<1>1. cluster'[j.name] = c /\ \A n \in Names : n # j.name => cluster'[n] = cluster[n]
    BY <1>0
<1>2. /\ jobs' = jobs \ {j} /\ servers'[j.name] # None /\ servers'[j.name].life = j.life
      /\ \A n \in Names : n # j.name => servers'[n] = servers[n]
    BY FailEffect, NoneAssumption
<1>3. \A k \in Working' : k \in Working /\ k.name # j.name
    BY <1>2, WorkerIsAlone DEF Working
<1>4. ASSUME NEW n \in Names, n # j.name PROVE NameClean(n)'
    BY <1>1, <1>2, <1>3, <1>4, UntouchedStaysClean DEF Clean
<1>5. NameClean(j.name)'
    BY <1>1, <1>2, <1>3 DEF NameClean
<1> QED BY <1>4, <1>5 DEF Clean

\* The namespace of a working job holds no world but the job's.
LEMMA JobHoldsOnly ==
    ASSUME Typed, Work, Clean, NEW j \in jobs, j.step # "record"
    PROVE  /\ HoldsOnly(cluster[j.name], j.life)
           /\ Fits(cluster[j.name], j.step, j.life)
           /\ cluster = [cluster EXCEPT ![j.name] = cluster[j.name]]
<1>1. /\ cluster \in [Names -> Namespaces] /\ j.name \in Names
      /\ servers[j.name] # None /\ servers[j.name].life = j.life /\ j \in Working
    BY TypedFacts, WorkerIsAlone, NoneAssumption
<1> QED BY <1>1 DEF Clean, NameClean

\* A cluster call, working or failing halfway, leaves the namespace fit.
LEMMA CallKeepsClean ==
    ASSUME Typed, Work, Clean, NEW j \in jobs, j.step # "record",
           NEW works, NEW done, NEW partly, NEW next,
           Call(j, works, done, partly, next),
           works => HoldsOnly(done, j.life) /\ Fits(done, next, j.life),
           works => \A c \in partly : HoldsOnly(c, j.life)
    PROVE  Clean'
<1>1. CASE /\ works
           /\ cluster' = [cluster EXCEPT ![j.name] = done]
           /\ Advance(j, next)
           /\ UNCHANGED servers
    BY <1>1, AdvanceKeepsClean
<1>2. CASE UNCHANGED cluster /\ Fail(j)
  <2>1. cluster' = [cluster EXCEPT ![j.name] = cluster[j.name]]
    BY <1>2, JobHoldsOnly
  <2> QED BY <1>2, <2>1, JobHoldsOnly, FailKeepsClean
<1>3. ASSUME works, NEW c \in partly, cluster' = [cluster EXCEPT ![j.name] = c], Fail(j)
      PROVE  Clean'
    BY <1>3, FailKeepsClean
<1> QED BY <1>1, <1>2, <1>3 DEF Call

\* What is read back from a namespace of which one field has been assigned.
LEMMA NamespaceFields ==
    ASSUME NEW c \in Namespaces, NEW x
    PROVE  /\ [c EXCEPT !.ns = x].ns = x /\ [c EXCEPT !.ns = x].sts = c.sts
           /\ [c EXCEPT !.ns = x].world = c.world
           /\ [c EXCEPT !.bound = x].ns = c.ns /\ [c EXCEPT !.bound = x].sts = c.sts
           /\ [c EXCEPT !.bound = x].world = c.world
           /\ [c EXCEPT !.sts = x].ns = c.ns /\ [c EXCEPT !.sts = x].sts = x
           /\ [c EXCEPT !.sts = x].world = c.world
BY DEF Namespaces

\* A provisioning job puts a world of its own life only into the namespace.
LEMMA ProvisionKeepsClean ==
    ASSUME Typed, Work, Clean, NEW j \in jobs, Provision(j)
    PROVE  Clean'
<1> DEFINE c == cluster[j.name]
<1>0. j.name \in Names /\ j.life \in Lives /\ c \in Namespaces
    BY TypedFacts
<1>1. ASSUME CreateNamespace(j) PROVE Clean'
  <2> DEFINE x == IF c.ns = "absent" THEN "active" ELSE c.ns
             done == [c EXCEPT !.ns = x]
             works == TRUE
             partly == {done}
  <2>1. j.step = "namespace" /\ Call(j, works, done, partly, "access")
    BY <1>1 DEF CreateNamespace, At
  <2>2. HoldsOnly(c, j.life)
    BY <2>1, JobHoldsOnly
  <2>3. HoldsOnly(done, j.life)
    <3>1. done.ns = x /\ done.world = c.world
      <4> HIDE DEF c, x
      <4> QED BY <1>0, NamespaceFields
    <3> HIDE DEF done
    <3> QED BY <2>2, <3>1 DEF HoldsOnly
  <2>4. Fits(done, "access", j.life)
    BY DEF Fits, TornSteps, InstalledSteps
  <2> HIDE DEF works, done
  <2> QED BY <2>1, <2>3, <2>4, CallKeepsClean
<1>2. ASSUME GrantAccess(j) PROVE Clean'
  <2> DEFINE done == [c EXCEPT !.bound = TRUE]
             works == c.ns = "active" \/ Allowed(j.name)
             partly == {done}
  <2>1. j.step = "access" /\ Call(j, works, done, partly, "credentials")
    BY <1>2 DEF GrantAccess, At
  <2>2. HoldsOnly(c, j.life)
    BY <2>1, JobHoldsOnly
  <2>3. HoldsOnly(done, j.life)
    <3>1. done.ns = c.ns /\ done.world = c.world
      <4> HIDE DEF c
      <4> QED BY <1>0, NamespaceFields
    <3> HIDE DEF done
    <3> QED BY <2>2, <3>1 DEF HoldsOnly
  <2>4. Fits(done, "credentials", j.life)
    BY DEF Fits, TornSteps, InstalledSteps
  <2> HIDE DEF works, done
  <2> QED BY <2>1, <2>3, <2>4, CallKeepsClean
<1>3. ASSUME CreateCredentials(j) PROVE Clean'
  <2> DEFINE works == Allowed(j.name)
             partly == {}
  <2>1. j.step = "credentials" /\ Call(j, works, c, partly, "release")
    BY <1>3 DEF CreateCredentials, At
  <2>2. HoldsOnly(c, j.life) /\ Fits(c, "release", j.life)
    BY <2>1, JobHoldsOnly DEF Fits, TornSteps, InstalledSteps
  <2> HIDE DEF works, c
  <2> QED BY <2>1, <2>2, CallKeepsClean
<1>4. ASSUME InstallRelease(j) PROVE Clean'
  <2> DEFINE sts == IF c.sts = "up" THEN c.sts ELSE "asleep"
             world == IF c.world = 0 THEN j.life ELSE c.world
             done == [c EXCEPT !.sts = sts, !.world = world]
             works == Allowed(j.name) /\ c.ns = "active"
             partly == {done, [done EXCEPT !.sts = c.sts]}
  <2>1. j.step = "release" /\ Call(j, works, done, partly, "scale")
    BY <1>4 DEF InstallRelease, At
  <2>2. HoldsOnly(c, j.life)
    BY <2>1, JobHoldsOnly
  <2>3. world = j.life
    BY <2>2 DEF HoldsOnly
  <2>4. done \in Namespaces /\ done.ns = c.ns /\ done.world = world
    <3>1. sts \in {"asleep", "up"} /\ world \in Paths
      BY <1>0, <2>3 DEF Lives, Paths
    <3> HIDE DEF c, sts, world
    <3>2. [c EXCEPT !.sts = sts] \in Namespaces
      BY <1>0, <3>1, NamespaceTypes
    <3>3. [c EXCEPT !.sts = sts].ns = c.ns
      BY <1>0, NamespaceFields
    <3> DEFINE started == [c EXCEPT !.sts = sts]
    <3>4. done = [started EXCEPT !.world = world]
      OBVIOUS
    <3> HIDE DEF started, done
    <3>5. /\ [started EXCEPT !.world = world] \in Namespaces
          /\ [started EXCEPT !.world = world].ns = started.ns
          /\ [started EXCEPT !.world = world].world = world
      <4>1. started \in Namespaces
        BY <3>2 DEF started
      <4> QED BY <3>1, <4>1 DEF Namespaces
    <3>6. started.ns = c.ns
      BY <3>3 DEF started
    <3> QED BY <3>4, <3>5, <3>6
  <2>5. works => HoldsOnly(done, j.life) /\ Fits(done, "scale", j.life)
    <3> HIDE DEF done, world
    <3> QED BY <2>3, <2>4 DEF HoldsOnly, Fits, TornSteps, InstalledSteps
  <2>6. works => \A d \in partly : HoldsOnly(d, j.life)
    <3> HIDE DEF done, world
    <3>1. /\ [done EXCEPT !.sts = c.sts].ns = done.ns
          /\ [done EXCEPT !.sts = c.sts].world = done.world
      BY <2>4, NamespaceFields
    <3> QED BY <2>3, <2>4, <3>1 DEF HoldsOnly
  <2> HIDE DEF works, done, partly
  <2> QED BY <2>1, <2>5, <2>6, CallKeepsClean
<1>5. ASSUME ScaleWrapper(j) PROVE Clean'
  <2> DEFINE done == [c EXCEPT !.sts = "up"]
             works == Allowed(j.name) /\ c.sts # "none"
             partly == {done}
  <2>1. j.step = "scale" /\ Call(j, works, done, partly, "rollout")
    BY <1>5 DEF ScaleWrapper, At
  <2>2. HoldsOnly(c, j.life) /\ c.world = j.life
    BY <2>1, JobHoldsOnly DEF Fits, InstalledSteps
  <2>3. HoldsOnly(done, j.life) /\ Fits(done, "rollout", j.life)
    <3>1. done.ns = c.ns /\ done.world = c.world
      <4> HIDE DEF c
      <4> QED BY <1>0, NamespaceFields
    <3> HIDE DEF done
    <3> QED BY <2>2, <3>1 DEF HoldsOnly, Fits, TornSteps, InstalledSteps
  <2> HIDE DEF works, done
  <2> QED BY <2>1, <2>3, CallKeepsClean
<1>6. ASSUME WaitForRollout(j) PROVE Clean'
  <2> DEFINE works == Allowed(j.name) /\ c.sts # "none"
             partly == {}
  <2>1. j.step = "rollout" /\ Call(j, works, c, partly, "ready")
    BY <1>6 DEF WaitForRollout, At
  <2>2. HoldsOnly(c, j.life) /\ Fits(c, "ready", j.life)
    BY <2>1, JobHoldsOnly DEF Fits, TornSteps, InstalledSteps
  <2> HIDE DEF works, c
  <2> QED BY <2>1, <2>2, CallKeepsClean
<1>7. ASSUME ProvisionDone(j) PROVE Clean'
  <2>1. /\ servers' = SetStatus(j.name, "ready") /\ jobs' = jobs \ {j} /\ UNCHANGED cluster
        /\ j.step # "record"
    BY <1>7 DEF ProvisionDone, At
  <2>2. servers[j.name] # None
    BY <2>1, WorkerIsAlone, NoneAssumption
  <2>3. /\ servers'[j.name] # None /\ servers'[j.name].life = servers[j.name].life
        /\ \A m \in Names : m # j.name => servers'[m] = servers[m]
    BY <1>0, <2>1, <2>2, SetStatusEffect, NoneAssumption DEF Statuses
  <2>4. \A k \in Working' : k \in Working
    BY <2>1 DEF Working
  <2> QED BY <2>1, <2>2, <2>3, <2>4, QuietKeepsClean
<1> QED BY <1>1, <1>2, <1>3, <1>4, <1>5, <1>6, <1>7 DEF Provision

\* A removing job deletes the row only of a namespace it has emptied.
LEMMA RemoveKeepsClean ==
    ASSUME Typed, Work, Clean, NEW j \in jobs, Remove(j)
    PROVE  Clean'
<1> DEFINE c == cluster[j.name]
<1>0. j.name \in Names /\ j.life \in Lives /\ c \in Namespaces
    BY TypedFacts
<1>1. ASSUME j.step = "backup", UNCHANGED cluster,
             (Advance(j, "uninstall") /\ UNCHANGED servers) \/ Fail(j)
      PROVE  Clean'
  <2>1. /\ HoldsOnly(c, j.life) /\ cluster' = [cluster EXCEPT ![j.name] = c]
        /\ Fits(c, "uninstall", j.life)
    BY <1>1, JobHoldsOnly DEF Fits, TornSteps, InstalledSteps
  <2> HIDE DEF c
  <2>2. CASE Advance(j, "uninstall") /\ UNCHANGED servers
    BY <1>1, <2>1, <2>2, AdvanceKeepsClean
  <2>3. CASE Fail(j)
    BY <1>1, <2>1, <2>3, FailKeepsClean
  <2> QED BY <1>1, <2>2, <2>3
<1>2. ASSUME BackUpWorld(j) \/ DoWithoutBackup(j) PROVE Clean'
    BY <1>1, <1>2 DEF BackUpWorld, DoWithoutBackup, At
<1>3. ASSUME UninstallRelease(j) PROVE Clean'
  <2> DEFINE stopped == [c EXCEPT !.sts = "none"]
             done == [c EXCEPT !.sts = "none", !.world = 0]
             works == Allowed(j.name)
             partly == {done, stopped}
  <2>1. j.step = "uninstall" /\ Call(j, works, done, partly, "delete namespace")
    BY <1>3 DEF UninstallRelease, At
  <2>2. HoldsOnly(c, j.life)
    BY <2>1, JobHoldsOnly
  <2>3. stopped \in Namespaces /\ stopped.sts = "none" /\ stopped.ns = c.ns /\ stopped.world = c.world
    <3> HIDE DEF c
    <3> QED BY <1>0, NamespaceTypes, NamespaceFields
  <2>4. done.sts = "none" /\ done.world = 0
    <3>1. done = [stopped EXCEPT !.world = 0]
      OBVIOUS
    <3> HIDE DEF stopped, done
    <3> QED BY <2>3, <3>1 DEF Namespaces
  <2> HIDE DEF stopped, done
  <2>5. HoldsOnly(done, j.life) /\ HoldsOnly(stopped, j.life)
        /\ Fits(done, "delete namespace", j.life)
    BY <2>2, <2>3, <2>4 DEF HoldsOnly, Fits, TornSteps, InstalledSteps
  <2>6. j.step # "record" /\ \A d \in partly : HoldsOnly(d, j.life)
    BY <2>1, <2>5
  <2> HIDE DEF works, partly
  <2> QED BY <2>1, <2>5, <2>6, CallKeepsClean
<1>4. ASSUME DeleteNamespace(j) PROVE Clean'
  <2> DEFINE x == IF c.ns = "active" THEN "terminating" ELSE c.ns
             done == [c EXCEPT !.ns = x]
             works == TRUE
             partly == {done}
  <2>1. j.step = "delete namespace" /\ Call(j, works, done, partly, "delete row")
    BY <1>4 DEF DeleteNamespace, At
  <2>2. c.sts = "none" /\ c.world = 0
    BY <2>1, JobHoldsOnly DEF Fits, TornSteps
  <2>3. done.ns = x /\ done.world = c.world /\ done.sts = c.sts
    <3> HIDE DEF c, x
    <3> QED BY <1>0, NamespaceFields
  <2>4. HoldsOnly(done, j.life) /\ Fits(done, "delete row", j.life)
    <3> HIDE DEF done
    <3> QED BY <2>2, <2>3 DEF HoldsOnly, Fits, TornSteps, InstalledSteps
  <2>5. j.step # "record" /\ \A d \in partly : HoldsOnly(d, j.life)
    BY <2>1, <2>4
  <2> HIDE DEF works, done, partly
  <2> QED BY <2>1, <2>4, <2>5, CallKeepsClean
<1>5. ASSUME DeleteRow(j) PROVE Clean'
  <2>1. /\ j.step = "delete row" /\ UNCHANGED cluster
        /\ servers' = [servers EXCEPT ![j.name] = None] /\ Advance(j, "record")
    BY <1>5 DEF DeleteRow, At
  <2>2. servers'[j.name] = None /\ \A m \in Names : m # j.name => servers'[m] = servers[m]
    BY <1>0, <2>1, TypedFacts
  <2>3. Swept(c)
    BY <2>1, JobHoldsOnly DEF Fits, TornSteps, Swept
  <2>4. \A k \in Working' : k \in Working /\ k.name # j.name
    BY <2>1, AdvanceEffect DEF Working
  <2>5. ASSUME NEW n \in Names, n # j.name PROVE NameClean(n)'
    BY <2>1, <2>2, <2>4, <2>5, UntouchedStaysClean DEF Clean
  <2>6. NameClean(j.name)'
    BY <2>1, <2>2, <2>3, <2>4 DEF NameClean
  <2> QED BY <2>5, <2>6 DEF Clean
<1>6. ASSUME RecordDelete(j) PROVE Clean'
  <2>1. jobs' = jobs \ {j} /\ UNCHANGED <<servers, cluster>>
    BY <1>6 DEF RecordDelete
  <2>2. \A k \in Working' : k \in Working
    BY <2>1 DEF Working
  <2> QED BY <2>1, <2>2, QuietKeepsClean
<1> QED BY <1>2, <1>3, <1>4, <1>5, <1>6 DEF Remove

\* A create is given a name only whose namespace is empty.
LEMMA CreateKeepsClean ==
    ASSUME Typed, Work, Clean, NEW r \in Requests, Create(r)
    PROVE  Clean'
<1> DEFINE q == requests[r]
<1>1. CASE UNCHANGED <<servers, jobs, cluster>>
  <2>1. Working' = Working
    BY <1>1 DEF Working
  <2> QED BY <1>1, <2>1, QuietKeepsClean
<1>2. ASSUME CreateReserve(r), servers[q.name] = None, UNCHANGED <<jobs, cluster>>,
             NEW row, servers' = [servers EXCEPT ![q.name] = row], row # None
      PROVE  Clean'
  <2>1. PICK n \in Names : n = q.name
    BY <1>2, TypedFacts DEF CreateReserve
  <2>2. servers'[n] = row /\ \A m \in Names : m # n => servers'[m] = servers[m]
    BY <1>2, <2>1, TypedFacts
  <2>3. Working' = Working
    BY <1>2 DEF Working
  <2>4. ASSUME NEW m \in Names, m # n PROVE NameClean(m)'
    BY <1>2, <2>2, <2>3, <2>4, UntouchedStaysClean DEF Clean
  <2>5. NameClean(n)'
    <3>1. NameClean(n) /\ Swept(cluster[n])
      BY <1>2, <2>1 DEF Clean, NameClean
    <3> QED BY <1>2, <2>2, <2>3, <3>1 DEF NameClean, Swept, HoldsOnly
  <2> QED BY <2>4, <2>5 DEF Clean
<1>3. ASSUME CreateReserve(r) PROVE Clean'
  <2> DEFINE row == [tenant |-> q.tenant, status |-> "provisioning", life |-> history.lives + 1]
  <2>1. \/ UNCHANGED <<servers, jobs, cluster>>
        \/ /\ servers[q.name] = None /\ UNCHANGED <<jobs, cluster>>
           /\ servers' = [servers EXCEPT ![q.name] = row]
    BY <1>3 DEF CreateReserve, CanReserve
  <2>2. row # None
    <3>1. row \in Rows
      BY <1>3, TypedFacts, BoundAssumption
         DEF CreateReserve, Rows, Statuses, Typed, OthersOK, Lives, Paths
    <3> QED BY <3>1, NoneAssumption
  <2> HIDE DEF row
  <2> QED BY <1>1, <1>2, <1>3, <2>1, <2>2
<1>4. ASSUME CreateSubmit(r) PROVE Clean'
  <2> DEFINE new == [ticket |-> NewTicket, name |-> q.name, life |-> q.life, step |-> "namespace",
                     prior |-> q.status, awake |-> q.awake, force |-> q.force]
  <2>1. jobs' = jobs \cup {new} /\ UNCHANGED <<servers, cluster>> /\ new.step = "namespace"
    BY <1>4 DEF CreateSubmit, Submit
  <2> HIDE DEF new
  <2>2. \A k \in Working' : k \in Working \/ k.step = "namespace"
    BY <2>1 DEF Working
  <2> QED BY <2>1, <2>2, QuietKeepsClean DEF TornSteps, InstalledSteps
<1> QED BY <1>1, <1>3, <1>4 DEF Create, CreateStart, CreateLookup

\* The request thread of a delete leaves life and cluster as they are.
LEMMA DeleteKeepsClean ==
    ASSUME Typed, Work, Clean, NEW r \in Requests, Delete(r)
    PROVE  Clean'
<1> DEFINE q == requests[r]
<1>1. CASE UNCHANGED <<servers, jobs, cluster>>
  <2>1. Working' = Working
    BY <1>1 DEF Working
  <2> QED BY <1>1, <2>1, QuietKeepsClean
<1>2. ASSUME DeleteBegin(r), CanBeginDelete(q.name, q.status) PROVE Clean'
  <2>1. /\ q.name \in Names /\ servers[q.name] # None /\ UNCHANGED <<jobs, cluster>>
        /\ servers' = SetStatus(q.name, "deleting")
    BY <1>2, TypedFacts DEF DeleteBegin, CanBeginDelete
  <2>2. /\ servers'[q.name] # None /\ servers'[q.name].life = servers[q.name].life
        /\ \A m \in Names : m # q.name => servers'[m] = servers[m]
    BY <2>1, SetStatusEffect, NoneAssumption DEF Statuses
  <2>3. Working' = Working
    BY <2>1 DEF Working
  <2> QED BY <2>1, <2>2, <2>3, QuietKeepsClean
<1>3. ASSUME DeleteSubmit(r) PROVE Clean'
  <2> DEFINE new == [ticket |-> NewTicket, name |-> q.name, life |-> q.life, step |-> "backup",
                     prior |-> q.status, awake |-> q.awake, force |-> q.force]
  <2>1. jobs' = jobs \cup {new} /\ UNCHANGED <<servers, cluster>> /\ new.step = "backup"
    BY <1>3 DEF DeleteSubmit, Submit
  <2> HIDE DEF new
  <2>2. \A k \in Working' : k \in Working \/ k.step = "backup"
    BY <2>1 DEF Working
  <2> QED BY <2>1, <2>2, QuietKeepsClean DEF TornSteps, InstalledSteps
<1> QED BY <1>1, <1>2, <1>3 DEF Delete, DeleteStart, DeleteCheck, DeleteBegin

\* One namespace changes in its pods only, and only where there are some.
LEMMA ScalingKeepsClean ==
    ASSUME Typed, Clean, UNCHANGED <<servers, jobs>>, NEW n \in Names, NEW x,
           cluster[n].sts # "none", cluster' = [cluster EXCEPT ![n].sts = x]
    PROVE  Clean'
<1> DEFINE c == cluster[n]
           d == [c EXCEPT !.sts = x]
<1>1. c \in Namespaces /\ cluster \in [Names -> Namespaces]
    BY TypedFacts
<1>2. d.ns = c.ns /\ d.world = c.world
    <2> HIDE DEF c
    <2> QED BY <1>1, NamespaceFields
<1>3. cluster'[n] = d /\ \A m \in Names : m # n => cluster'[m] = cluster[m]
    BY <1>1
<1>4. Working' = Working
    BY DEF Working
<1>5. ASSUME NEW m \in Names, m # n PROVE NameClean(m)'
    BY <1>3, <1>4, <1>5, UntouchedStaysClean DEF Clean
<1>6. NameClean(n)'
  <2>1. NameClean(n) /\ c.sts # "none"
    BY DEF Clean
  <2> HIDE DEF d
  <2> QED BY <1>2, <1>3, <1>4, <2>1 DEF NameClean, Swept, HoldsOnly, Fits
<1> QED BY <1>5, <1>6 DEF Clean

\* A wake scales a pod only where there is one.
LEMMA WakeKeepsClean ==
    ASSUME Typed, Work, Clean, NEW r \in Requests, Wake(r)
    PROVE  Clean'
<1>1. CASE UNCHANGED <<servers, jobs, cluster>>
  <2>1. Working' = Working
    BY <1>1 DEF Working
  <2> QED BY <1>1, <2>1, QuietKeepsClean
<1>2. ASSUME WakeScale(r) PROVE Clean'
  <2>1. requests[r].name \in Names /\ UNCHANGED <<servers, jobs>>
    BY <1>2, TypedFacts DEF WakeScale
  <2> QED BY <1>1, <1>2, <2>1, ScalingKeepsClean DEF WakeScale
<1> QED BY <1>1, <1>2 DEF Wake, WakeStart

\* A restart keeps every row, and its life.
LEMMA RestartKeepsClean == Typed /\ Clean /\ Restart => Clean'
<1> SUFFICES ASSUME Typed, Clean, Restart PROVE Clean'
    OBVIOUS
<1>1. /\ \A n \in Names : servers'[n] = None <=> servers[n] = None
      /\ \A n \in Names : servers[n] # None => servers'[n].life = servers[n].life
    BY RestartKeepsWork, NoneAssumption
<1>2. Working' = {} /\ UNCHANGED cluster
    BY DEF Restart, Working
<1> QED BY <1>1, <1>2, QuietKeepsClean

\* A draining namespace and a scaled pod leave no world to the wrong row.
LEMMA EnvironmentKeepsClean == Typed /\ Clean /\ Environment => Clean'
<1> SUFFICES ASSUME Typed, Clean, Environment PROVE Clean'
    OBVIOUS
<1>0. Working' = Working /\ UNCHANGED <<servers, jobs>>
    BY DEF Environment, NamespaceDrains, PodScales, PruneBackup, Working
<1>1. ASSUME NEW n \in Names, NamespaceDrains(n) PROVE Clean'
  <2> DEFINE c == cluster[n]
  <2>1. c \in Namespaces /\ cluster \in [Names -> Namespaces] /\ c.ns = "terminating"
    BY <1>1, TypedFacts DEF NamespaceDrains
  <2>2. PICK d : /\ cluster' = [cluster EXCEPT ![n] = d]
                 /\ d.ns # "active" /\ d.world = 0 /\ (c.sts = "none" => d.sts = "none")
    <3>1. c.world = 0
      BY <2>1 DEF Clean, NameClean, Swept, HoldsOnly
    <3>2. CASE cluster' = [cluster EXCEPT ![n] = Absent]
      <4>1. Absent.ns # "active" /\ Absent.world = 0 /\ Absent.sts = "none"
        BY DEF Absent
      <4> QED BY <3>2, <4>1
    <3>3. CASE cluster' = [cluster EXCEPT ![n] = [c EXCEPT !.bound = FALSE]]
      <4>1. /\ [c EXCEPT !.bound = FALSE].ns = c.ns /\ [c EXCEPT !.bound = FALSE].sts = c.sts
            /\ [c EXCEPT !.bound = FALSE].world = c.world
        <5> HIDE DEF c
        <5> QED BY <2>1, NamespaceFields
      <4> QED BY <2>1, <3>1, <3>3, <4>1
    <3> QED BY <1>1, <3>2, <3>3 DEF NamespaceDrains
  <2>3. cluster'[n] = d /\ \A m \in Names : m # n => cluster'[m] = cluster[m]
    BY <2>1, <2>2
  <2>4. ASSUME NEW m \in Names, m # n PROVE NameClean(m)'
    BY <1>0, <2>3, <2>4, UntouchedStaysClean DEF Clean
  <2>5. NameClean(n)'
    <3>1. ASSUME NEW j \in Working, j.name = n PROVE Fits(d, j.step, j.life)
      <4>1. Fits(c, j.step, j.life) /\ j.life # 0
        BY <3>1, TypedFacts DEF Clean, NameClean, Working, Lives
      <4>2. c.world = 0
        BY <2>1 DEF Clean, NameClean, Swept, HoldsOnly
      <4> QED BY <2>2, <4>1, <4>2 DEF Fits
    <3> QED BY <1>0, <2>2, <2>3, <3>1 DEF Clean, NameClean, Swept, HoldsOnly
  <2> QED BY <2>4, <2>5 DEF Clean
<1>2. ASSUME NEW n \in Names, PodScales(n) PROVE Clean'
    BY <1>0, <1>2, ScalingKeepsClean DEF PodScales
<1>3. ASSUME NEW path \in Lives, PruneBackup(path) PROVE Clean'
    BY <1>0, <1>3, QuietKeepsClean DEF PruneBackup
<1> QED BY <1>1, <1>2, <1>3 DEF Environment

\* At the start every namespace is empty.
LEMMA CleanInit == Init => Clean
<1> SUFFICES ASSUME Init, NEW n \in Names PROVE NameClean(n)
    BY DEF Clean
<1>1. servers[n] = None /\ Swept(cluster[n]) /\ Working = {}
    BY DEF Init, Swept, Working
<1> QED BY <1>1 DEF NameClean

\* Every step keeps Clean.
LEMMA CleanNext == Typed /\ Work /\ Clean /\ [Next]_vars => Clean'
<1> SUFFICES ASSUME Typed, Work, Clean, [Next]_vars PROVE Clean'
    OBVIOUS
<1>1. CASE UNCHANGED vars
  <2>1. Working' = Working
    BY <1>1 DEF Working, vars
  <2> QED BY <1>1, <2>1, QuietKeepsClean DEF vars
<1>2. CASE Next
    BY <1>2, CreateKeepsClean, DeleteKeepsClean, WakeKeepsClean, ProvisionKeepsClean,
       RemoveKeepsClean, RestartKeepsClean, EnvironmentKeepsClean DEF Next, JobStep
<1> QED BY <1>1, <1>2

\* A tenant who is given a name never finds an earlier server's world there.
THEOREM WorldsBelong == Spec => []WorldBelongsToRow
<1>1. Spec => [](Typed /\ Work /\ Clean)
    BY TypedInit, TypedNext, WorkInit, WorkNext, CleanInit, CleanNext, PTL DEF Spec
<1>2. Typed /\ Work /\ Clean => WorldBelongsToRow
    BY CleanIsClean
<1> QED BY <1>1, <1>2, PTL

\* Deleting a server leaves nothing in the cluster that nobody could delete.
THEOREM FreeNamesAreClean == Spec => []FreeNameIsClean
<1>1. Spec => [](Typed /\ Work /\ Clean)
    BY TypedInit, TypedNext, WorkInit, WorkNext, CleanInit, CleanNext, PTL DEF Spec
<1>2. Typed /\ Work /\ Clean => FreeNameIsClean
    BY CleanIsClean
<1> QED BY <1>1, <1>2, PTL
=============================================================================
