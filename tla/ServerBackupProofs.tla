------------------------- MODULE ServerBackupProofs -------------------------
(***************************************************************************)
(* The proof that ServerLifecycle loses no world it should have backed up. *)
(***************************************************************************)
EXTENDS ServerWorldProofs

(***************************************************************************)
(* A life is excused once its world was saved, given up with force, or put *)
(* back as failed by a restart.  What a delete may skip its backup for is  *)
(* decided by the status it found and the force it was given, many steps   *)
(* before the world goes: the invariant follows both from the row through  *)
(* the request and the job to the uninstall.                               *)
(***************************************************************************)
Excused == history.saved \cup history.forced \cup history.demoted

\* No two servers are of one life, and the next life is new.
LivesFresh ==
    /\ \A n \in Names : servers[n] # None => servers[n].life <= history.lives
    /\ \A n, m \in Names : servers[n] # None /\ servers[m] # None
                              /\ servers[n].life = servers[m].life => n = m
    /\ \A life \in history.ready : life <= history.lives

\* A row that still is, or is again, failed was never ready unless excused.
RowOK(row, ready, excused) == row.life \in ready =>
    /\ row.status # "provisioning"
    /\ row.status = "failed" => row.life \in excused

\* What a delete found and was told, when that lets it go without a backup.
Lenient(status, force, life, ready, excused) ==
    /\ status = "failed" /\ life \in ready => life \in excused
    /\ force => life \in excused

ClaimOK(q, ready, excused) == Lenient(q.status, q.force, q.life, ready, excused)
JobOK(j, ready, excused) ==
    /\ Lenient(j.prior, j.force, j.life, ready, excused)
    /\ j.step = "uninstall" /\ j.life \in ready => j.life \in excused

Loss ==
    /\ LivesFresh
    /\ \A n \in Names : servers[n] # None => RowOK(servers[n], history.ready, Excused)
    /\ \A r \in Requests : requests[r].pc = "remove" => ClaimOK(requests[r], history.ready, Excused)
    /\ \A j \in Working : j.step \in RemoveSteps => JobOK(j, history.ready, Excused)
    /\ NoUnbackedLoss

Invariant == Typed /\ Work /\ Clean /\ Loss

\* What the lemmas below need of the records of history.
LEMMA HistoryFacts ==
    ASSUME Typed
    PROVE  /\ history.lives \in Nat /\ history.ready \subseteq Lives
           /\ history \in [lives : Paths, ready : SUBSET Lives, saved : SUBSET Lives,
                           forced : SUBSET Lives, demoted : SUBSET Lives]
           /\ Lives \subseteq Nat \ {0}
BY BoundAssumption DEF Typed, OthersOK, Paths, Lives

\* Every step that makes no new life and none ready.
LEMMA CalmKeepsLoss ==
    ASSUME Loss, history'.ready = history.ready, history'.lives = history.lives,
           Excused \subseteq Excused',
           \A n \in Names : servers'[n] # None =>
               servers[n] # None /\ servers'[n].life = servers[n].life /\ RowOK(servers'[n], history'.ready, Excused'),
           \A r \in Requests : requests'[r].pc = "remove" =>
               requests'[r] = requests[r] \/ ClaimOK(requests'[r], history'.ready, Excused'),
           \A k \in Working' : k.step \in RemoveSteps => k \in Working \/ JobOK(k, history'.ready, Excused'),
           \A n \in Names : cluster[n].world \in history.ready =>
               cluster'[n].world = cluster[n].world \/ cluster[n].world \in Excused'
    PROVE  Loss'
<1>1. LivesFresh'
    BY DEF Loss, LivesFresh
<1>2. \A r \in Requests : requests'[r].pc = "remove" => ClaimOK(requests'[r], history'.ready, Excused')
    BY DEF Loss, ClaimOK, Lenient
<1>3. \A k \in Working' : k.step \in RemoveSteps => JobOK(k, history'.ready, Excused')
    BY DEF Loss, JobOK, Lenient
<1>4. NoUnbackedLoss'
  <2> SUFFICES ASSUME NEW life \in history.ready, life \notin Excused'
               PROVE  InCluster(life)'
    BY DEF NoUnbackedLoss, Excused
  <2>1. PICK n \in Names : cluster[n].world = life
    BY DEF Loss, NoUnbackedLoss, InCluster, Excused
  <2> QED BY <2>1 DEF InCluster
<1> QED BY <1>1, <1>2, <1>3, <1>4 DEF Loss

\* The same, when history does not change either.
LEMMA QuietKeepsLoss ==
    ASSUME Loss, UNCHANGED history,
           \A n \in Names : servers'[n] # None =>
               servers[n] # None /\ servers'[n].life = servers[n].life /\ RowOK(servers'[n], history.ready, Excused),
           \A r \in Requests : requests'[r].pc = "remove" =>
               requests'[r] = requests[r] \/ ClaimOK(requests'[r], history.ready, Excused),
           \A k \in Working' : k.step \in RemoveSteps => k \in Working \/ JobOK(k, history.ready, Excused),
           \A n \in Names : cluster[n].world \in history.ready =>
               cluster'[n].world = cluster[n].world \/ cluster[n].world \in Excused
    PROVE  Loss'
<1>1. Excused' = Excused
    BY DEF Excused
<1> QED BY <1>1, CalmKeepsLoss

\* What Loss says of the row a working job is at.
LEMMA JobLoss ==
    ASSUME Typed, Work, Loss, NEW j \in jobs, j.step # "record"
    PROVE  /\ j.name \in Names /\ servers[j.name] # None /\ servers[j.name].life = j.life
           /\ RowOK(servers[j.name], history.ready, Excused)
           /\ j.step \in RemoveSteps => JobOK(j, history.ready, Excused)
           /\ j.step \in ProvisionSteps => j.life \notin history.ready
           /\ \A n \in Names : servers[n] # None => RowOK(servers[n], history.ready, Excused)
<1>1. /\ j.name \in Names /\ servers[j.name] # None /\ servers[j.name].life = j.life
      /\ j \in Working
      /\ j.step \in ProvisionSteps => servers[j.name].status = "provisioning"
    BY TypedFacts, WorkerIsAlone, NoneAssumption
<1> QED BY <1>1 DEF Loss, RowOK

\* A job fails: the row is failed or as it was, which is excused if need be.
LEMMA FailKeepsLoss ==
    ASSUME Typed, Work, Clean, Loss, UNCHANGED <<requests, history>>,
           NEW j \in jobs, j.step # "record", Fail(j),
           \A n \in Names : cluster[n].world \in history.ready =>
               cluster'[n].world = cluster[n].world \/ cluster[n].world \in Excused
    PROVE  Loss'
<1>1. /\ jobs' = jobs \ {j} /\ servers'[j.name].life = j.life
      /\ j.step \in ProvisionSteps => servers'[j.name].status = "failed"
      /\ j.step \in RemoveSteps => servers'[j.name].status = j.prior
      /\ servers'[j.name].status \in {"ready", "failed"}
      /\ \A m \in Names : m # j.name => servers'[m] = servers[m]
    BY FailEffect
<1>2. j.step \in ProvisionSteps \cup RemoveSteps
    BY TypedFacts
<1>3. RowOK(servers'[j.name], history.ready, Excused)
    BY <1>1, <1>2, JobLoss DEF RowOK, JobOK, Lenient
<1>4. \A n \in Names : servers'[n] # None =>
          servers[n] # None /\ servers'[n].life = servers[n].life /\ RowOK(servers'[n], history.ready, Excused)
    BY <1>1, <1>3, JobLoss
<1>5. \A k \in Working' : k \in Working
    BY <1>1 DEF Working
<1> QED BY <1>4, <1>5, QuietKeepsLoss

\* A job goes on without a change of history.
LEMMA AdvanceKeepsLoss ==
    ASSUME Typed, Work, Clean, Loss, UNCHANGED <<servers, requests, history>>,
           NEW j \in jobs, j.step # "record", NEW step, Advance(j, step),
           step = "uninstall" /\ j.life \in history.ready => j.life \in Excused,
           step \in RemoveSteps => j.step \in RemoveSteps,
           \A n \in Names : cluster[n].world \in history.ready =>
               cluster'[n].world = cluster[n].world \/ cluster[n].world \in Excused
    PROVE  Loss'
<1>1. \A k \in Working' : k.step \in RemoveSteps => k \in Working \/ JobOK(k, history.ready, Excused)
  <2> SUFFICES ASSUME NEW k \in Working', k.step \in RemoveSteps, k \notin Working
               PROVE  JobOK(k, history.ready, Excused)
    OBVIOUS
  <2>1. k.life = j.life /\ k.step = step /\ k.force = j.force /\ k.prior = j.prior
    BY AdvanceEffect
  <2> QED BY <2>1, JobLoss DEF JobOK
<1>2. \A n \in Names : servers'[n] # None =>
          servers[n] # None /\ servers'[n].life = servers[n].life /\ RowOK(servers'[n], history.ready, Excused)
    BY DEF Loss
<1> QED BY <1>1, <1>2, QuietKeepsLoss

\* A cluster call that, working or failing halfway, removes no world but an
\* excused one.
LEMMA CallKeepsLoss ==
    ASSUME Typed, Work, Clean, Loss, NEW j \in jobs, j.step # "record",
           NEW works, NEW done, NEW partly, NEW next,
           Call(j, works, done, partly, next), next # "uninstall",
           next \in RemoveSteps => j.step \in RemoveSteps,
           \A c \in partly \cup {done} : cluster[j.name].world \in history.ready =>
               c.world = cluster[j.name].world \/ cluster[j.name].world \in Excused
    PROVE  Loss'
<1>1. UNCHANGED <<requests, history>> /\ cluster \in [Names -> Namespaces]
    BY TypedFacts DEF Call
<1>2. ASSUME NEW c \in partly \cup {done}, cluster' = [cluster EXCEPT ![j.name] = c]
      PROVE  \A n \in Names : cluster[n].world \in history.ready =>
               cluster'[n].world = cluster[n].world \/ cluster[n].world \in Excused
    BY <1>1, <1>2
<1>3. CASE cluster' = [cluster EXCEPT ![j.name] = done] /\ Advance(j, next) /\ UNCHANGED servers
    BY <1>1, <1>2, <1>3, AdvanceKeepsLoss
<1>4. CASE UNCHANGED cluster /\ Fail(j)
    BY <1>1, <1>4, FailKeepsLoss
<1>5. ASSUME NEW c \in partly, cluster' = [cluster EXCEPT ![j.name] = c], Fail(j) PROVE Loss'
    BY <1>1, <1>2, <1>5, FailKeepsLoss
<1> QED BY <1>3, <1>4, <1>5 DEF Call

\* A provisioning server becomes ready: its world is there.
LEMMA DoneKeepsLoss ==
    ASSUME Typed, Work, Clean, Loss, NEW j \in jobs, ProvisionDone(j)
    PROVE  Loss'
<1>0. /\ j.step = "ready" /\ UNCHANGED <<requests, cluster>> /\ jobs' = jobs \ {j}
      /\ servers' = SetStatus(j.name, "ready")
    BY DEF ProvisionDone, At
<1>1. /\ j.name \in Names /\ j.life \in Lives
      /\ servers[j.name] # None /\ servers[j.name].life = j.life
      /\ \A k \in Working : k # j => k.name # j.name
      /\ \A r \in Claiming : requests[r].name # j.name
      /\ cluster[j.name].world = j.life
  <2>1. j.step # "record" /\ j.step \in InstalledSteps
    BY <1>0 DEF InstalledSteps
  <2>2. /\ servers[j.name] \in Rows /\ servers[j.name].life = j.life
        /\ \A k \in Working : k # j => k.name # j.name
        /\ \A r \in Claiming : requests[r].name # j.name
    BY <2>1, WorkerIsAlone
  <2>3. cluster[j.name].world = j.life
    BY <2>1, JobHoldsOnly DEF Fits
  <2> QED BY <2>2, <2>3, TypedFacts, NoneAssumption
<1>2. /\ servers'[j.name].status = "ready" /\ servers'[j.name].life = j.life
      /\ servers'[j.name] # None
      /\ \A m \in Names : m # j.name => servers'[m] = servers[m]
    BY <1>0, <1>1, SetStatusEffect, NoneAssumption DEF Statuses
<1>3. history'.ready = history.ready \cup {j.life} /\ history'.lives = history.lives
      /\ Excused' = Excused
  <2>1. history' = [history EXCEPT !.ready = @ \cup {j.life}]
    BY DEF ProvisionDone
  <2>2. history \in [lives : Paths, ready : SUBSET Lives, saved : SUBSET Lives,
                     forced : SUBSET Lives, demoted : SUBSET Lives]
    BY HistoryFacts
  <2> QED BY <2>1, <2>2 DEF Excused
<1>4. LivesFresh'
    BY <1>1, <1>2, <1>3 DEF Loss, LivesFresh
<1>5. \A n \in Names : servers'[n] # None => RowOK(servers'[n], history'.ready, Excused')
  <2> SUFFICES ASSUME NEW n \in Names, servers'[n] # None
               PROVE  RowOK(servers'[n], history'.ready, Excused')
    OBVIOUS
  <2>1. CASE n = j.name
    BY <1>2, <2>1 DEF RowOK
  <2>2. CASE n # j.name
    <3>1. servers[n] # None /\ servers'[n] = servers[n] /\ servers[n].life # j.life
      BY <1>1, <1>2, <2>2 DEF Loss, LivesFresh
    <3> QED BY <1>3, <3>1 DEF Loss, RowOK
  <2> QED BY <2>1, <2>2
<1>6. \A r \in Requests : requests'[r].pc = "remove" => ClaimOK(requests'[r], history'.ready, Excused')
  <2> SUFFICES ASSUME NEW r \in Requests, requests[r].pc = "remove"
               PROVE  ClaimOK(requests[r], history'.ready, Excused')
    BY <1>0
  <2>1. r \in Claiming
    BY DEF Claiming
  <2>2. RowIs(requests[r].name, "deleting", requests[r].life) /\ requests[r].name \in Names
    BY <2>1, TypedFacts DEF Work, WorkMatchesRow
  <2>3. requests[r].life # j.life
    BY <1>1, <2>1, <2>2 DEF Loss, LivesFresh, RowIs
  <2> QED BY <1>3, <2>3 DEF Loss, ClaimOK, Lenient
<1>7. \A k \in Working' : k.step \in RemoveSteps => JobOK(k, history'.ready, Excused')
  <2> SUFFICES ASSUME NEW k \in Working', k.step \in RemoveSteps
               PROVE  JobOK(k, history'.ready, Excused')
    OBVIOUS
  <2>1. k \in jobs /\ k \in Working /\ k # j /\ k.step # "record"
    BY <1>0 DEF Working
  <2>2. servers[k.name] # None /\ servers[k.name].life = k.life /\ k.name \in Names
    BY <2>1, JobLoss
  <2>3. k.life # j.life
    BY <1>1, <2>1, <2>2 DEF Loss, LivesFresh
  <2> QED BY <1>3, <2>1, <2>3 DEF Loss, JobOK, Lenient
<1>8. NoUnbackedLoss'
  <2> SUFFICES ASSUME NEW life \in history'.ready, life \notin Excused'
               PROVE  InCluster(life)'
    BY DEF NoUnbackedLoss, Excused
  <2>1. CASE life = j.life
    BY <1>0, <1>1, <2>1 DEF InCluster
  <2>2. CASE life \in history.ready
    BY <1>0, <1>3, <2>2 DEF Loss, NoUnbackedLoss, InCluster, Excused
  <2> QED BY <1>3, <2>1, <2>2
<1> QED BY <1>4, <1>5, <1>6, <1>7, <1>8 DEF Loss

\* A provisioning job adds a world at most, and never replaces one.
LEMMA ProvisionKeepsLoss ==
    ASSUME Typed, Work, Clean, Loss, NEW j \in jobs, Provision(j)
    PROVE  Loss'
<1> DEFINE c == cluster[j.name]
<1>0. j.name \in Names /\ j.life \in Lives /\ c \in Namespaces
    BY TypedFacts
<1>1. ASSUME CreateNamespace(j) PROVE Loss'
  <2> DEFINE done == [c EXCEPT !.ns = IF @ = "absent" THEN "active" ELSE @]
             works == TRUE
             partly == {done}
  <2>1. j.step = "namespace" /\ Call(j, works, done, partly, "access")
    BY <1>1 DEF CreateNamespace, At
  <2>2. \A d \in partly \cup {done} : d.world = c.world
    <3>1. done.world = c.world
      <4> HIDE DEF c
      <4> QED BY <1>0, NamespaceFields
    <3> HIDE DEF done
    <3> QED BY <3>1
  <2>3. /\ j.step # "record" /\ "access" # "uninstall"
        /\ "access" \in RemoveSteps => j.step \in RemoveSteps
    BY <2>1 DEF RemoveSteps
  <2> HIDE DEF works, done, partly
  <2> QED BY <2>1, <2>2, <2>3, CallKeepsLoss
<1>2. ASSUME GrantAccess(j) PROVE Loss'
  <2> DEFINE done == [c EXCEPT !.bound = TRUE]
             works == c.ns = "active" \/ Allowed(j.name)
             partly == {done}
  <2>1. j.step = "access" /\ Call(j, works, done, partly, "credentials")
    BY <1>2 DEF GrantAccess, At
  <2>2. \A d \in partly \cup {done} : d.world = c.world
    <3>1. done.world = c.world
      <4> HIDE DEF c
      <4> QED BY <1>0, NamespaceFields
    <3> HIDE DEF done
    <3> QED BY <3>1
  <2>3. /\ j.step # "record" /\ "credentials" # "uninstall"
        /\ "credentials" \in RemoveSteps => j.step \in RemoveSteps
    BY <2>1 DEF RemoveSteps
  <2> HIDE DEF works, done, partly
  <2> QED BY <2>1, <2>2, <2>3, CallKeepsLoss
<1>3. ASSUME CreateCredentials(j) PROVE Loss'
  <2> DEFINE done == c
             works == Allowed(j.name)
             partly == {}
  <2>1. j.step = "credentials" /\ Call(j, works, done, partly, "release")
    BY <1>3 DEF CreateCredentials, At
  <2>2. \A d \in partly \cup {done} : d.world = c.world
    OBVIOUS
  <2>3. /\ j.step # "record" /\ "release" # "uninstall"
        /\ "release" \in RemoveSteps => j.step \in RemoveSteps
    BY <2>1 DEF RemoveSteps
  <2> HIDE DEF works, done, partly
  <2> QED BY <2>1, <2>2, <2>3, CallKeepsLoss
<1>5. ASSUME ScaleWrapper(j) PROVE Loss'
  <2> DEFINE done == [c EXCEPT !.sts = "up"]
             works == Allowed(j.name) /\ c.sts # "none"
             partly == {done}
  <2>1. j.step = "scale" /\ Call(j, works, done, partly, "rollout")
    BY <1>5 DEF ScaleWrapper, At
  <2>2. \A d \in partly \cup {done} : d.world = c.world
    <3>1. done.world = c.world
      <4> HIDE DEF c
      <4> QED BY <1>0, NamespaceFields
    <3> HIDE DEF done
    <3> QED BY <3>1
  <2>3. /\ j.step # "record" /\ "rollout" # "uninstall"
        /\ "rollout" \in RemoveSteps => j.step \in RemoveSteps
    BY <2>1 DEF RemoveSteps
  <2> HIDE DEF works, done, partly
  <2> QED BY <2>1, <2>2, <2>3, CallKeepsLoss
<1>6. ASSUME WaitForRollout(j) PROVE Loss'
  <2> DEFINE done == c
             works == Allowed(j.name) /\ c.sts # "none"
             partly == {}
  <2>1. j.step = "rollout" /\ Call(j, works, done, partly, "ready")
    BY <1>6 DEF WaitForRollout, At
  <2>2. \A d \in partly \cup {done} : d.world = c.world
    OBVIOUS
  <2>3. /\ j.step # "record" /\ "ready" # "uninstall"
        /\ "ready" \in RemoveSteps => j.step \in RemoveSteps
    BY <2>1 DEF RemoveSteps
  <2> HIDE DEF works, done, partly
  <2> QED BY <2>1, <2>2, <2>3, CallKeepsLoss
<1>4. ASSUME InstallRelease(j) PROVE Loss'
  <2> DEFINE sts == IF c.sts = "up" THEN c.sts ELSE "asleep"
             world == IF c.world = 0 THEN j.life ELSE c.world
             done == [c EXCEPT !.sts = sts, !.world = world]
             works == Allowed(j.name) /\ c.ns = "active"
             partly == {done, [done EXCEPT !.sts = c.sts]}
  <2>1. j.step = "release" /\ Call(j, works, done, partly, "scale")
    BY <1>4 DEF InstallRelease, At
  <2>2. done.world = world /\ [done EXCEPT !.sts = c.sts].world = world
    <3> DEFINE started == [c EXCEPT !.sts = sts]
    <3>1. done = [started EXCEPT !.world = world] /\ DOMAIN started = DOMAIN c
      OBVIOUS
    <3>2. DOMAIN c = {"ns", "bound", "sts", "world"}
      <4> HIDE DEF c
      <4> QED BY <1>0 DEF Namespaces
    <3> HIDE DEF started, world, done, c
    <3>3. done.world = world /\ DOMAIN done = {"ns", "bound", "sts", "world"}
      BY <3>1, <3>2
    <3> QED BY <3>3
  <2>3. c.world \in history.ready => world = c.world
    BY HistoryFacts
  <2>4. \A d \in partly \cup {done} : c.world \in history.ready => d.world = c.world
    BY <2>2, <2>3
  <2> HIDE DEF works, done, partly
  <2> QED BY <2>1, <2>4, CallKeepsLoss DEF ProvisionSteps, RemoveSteps
<1>7. ASSUME ProvisionDone(j) PROVE Loss'
    BY <1>7, DoneKeepsLoss
<1> QED BY <1>1, <1>2, <1>3, <1>4, <1>5, <1>6, <1>7 DEF Provision

\* A world that is not in its own namespace is in none.
LEMMA GoneIsGone ==
    ASSUME Typed, Work, Clean, Loss, NEW j \in jobs, j.step # "record",
           cluster[j.name].world = 0
    PROVE  j.life \in history.ready => j.life \in Excused
<1> SUFFICES ASSUME NEW n \in Names, cluster[n].world = j.life PROVE FALSE
    BY DEF Loss, NoUnbackedLoss, InCluster, Excused
<1>1. j.life # 0
    BY TypedFacts, HistoryFacts
<1>2. servers[n] # None /\ servers[n].life = j.life
    BY <1>1 DEF Clean, NameClean, Swept, HoldsOnly
<1>3. n = j.name
    BY <1>2, JobLoss DEF Loss, LivesFresh
<1> QED BY <1>1, <1>3

\* A job that removes a server saves the world first, or was excused.
LEMMA RemoveKeepsLoss ==
    ASSUME Typed, Work, Clean, Loss, NEW j \in jobs, Remove(j)
    PROVE  Loss'
<1> DEFINE c == cluster[j.name]
<1>0. j.name \in Names /\ j.life \in Lives /\ c \in Namespaces
    BY TypedFacts
<1>1. ASSUME BackUpWorld(j) PROVE Loss'
  <2>1. /\ j.step = "backup" /\ Advance(j, "uninstall") /\ UNCHANGED <<servers, requests, cluster>>
        /\ c.world # 0
    BY <1>1 DEF BackUpWorld, At, CanBackUp
  <2>2. c.world = j.life
    BY <2>1, JobHoldsOnly DEF HoldsOnly
  <2>3. /\ history'.ready = history.ready /\ history'.lives = history.lives
        /\ Excused' = Excused \cup {j.life}
    <3>1. history' = [history EXCEPT !.saved = @ \cup {j.life}]
      BY <1>1, <2>2 DEF BackUpWorld
    <3>2. history \in [lives : Paths, ready : SUBSET Lives, saved : SUBSET Lives,
                       forced : SUBSET Lives, demoted : SUBSET Lives]
      BY HistoryFacts
    <3> QED BY <3>1, <3>2 DEF Excused
  <2>4. \A k \in Working' : k \in Working \/ JobOK(k, history'.ready, Excused')
    <3> SUFFICES ASSUME NEW k \in Working', k \notin Working
                 PROVE  JobOK(k, history'.ready, Excused')
      OBVIOUS
    <3>1. k.life = j.life
      BY <2>1, AdvanceEffect
    <3> QED BY <2>3, <3>1 DEF JobOK, Lenient
  <2>5. \A n \in Names : servers'[n] # None =>
            servers[n] # None /\ servers'[n].life = servers[n].life
            /\ RowOK(servers'[n], history'.ready, Excused')
    BY <2>1, <2>3 DEF Loss, RowOK
  <2> QED BY <2>1, <2>3, <2>4, <2>5, CalmKeepsLoss
<1>2. ASSUME DoWithoutBackup(j) PROVE Loss'
  <2>1. j.step = "backup" /\ UNCHANGED <<requests, cluster, history>>
    BY <1>2 DEF DoWithoutBackup, At
  <2>2. CASE Fail(j)
    BY <2>1, <2>2, FailKeepsLoss
  <2>3. CASE /\ Advance(j, "uninstall") /\ UNCHANGED servers
             /\ SourceIsGone(j) \/ j.force \/ j.prior = "failed"
    <3>1. j.life \in history.ready => j.life \in Excused
      <4>1. CASE SourceIsGone(j)
        BY <2>1, <4>1, GoneIsGone DEF SourceIsGone
      <4>2. CASE j.force \/ j.prior = "failed"
        BY <2>1, <4>2, JobLoss DEF JobOK, Lenient, RemoveSteps
      <4> QED BY <2>3, <4>1, <4>2
    <3> QED BY <2>1, <2>3, <3>1, AdvanceKeepsLoss DEF RemoveSteps
  <2> QED BY <1>2, <2>2, <2>3 DEF DoWithoutBackup
<1>3. ASSUME UninstallRelease(j) PROVE Loss'
  <2> DEFINE stopped == [c EXCEPT !.sts = "none"]
             done == [c EXCEPT !.sts = "none", !.world = 0]
             works == Allowed(j.name)
             partly == {done, stopped}
  <2>1. j.step = "uninstall" /\ Call(j, works, done, partly, "delete namespace")
    BY <1>3 DEF UninstallRelease, At
  <2>2. c.world \in history.ready => c.world \in Excused
    <3>1. c.world # 0 => c.world = j.life
      BY <2>1, JobHoldsOnly DEF HoldsOnly
    <3>2. j.life \in history.ready => j.life \in Excused
      BY <2>1, JobLoss DEF JobOK, RemoveSteps
    <3> QED BY <3>1, <3>2, HistoryFacts
  <2>3. \A d \in partly \cup {done} : c.world \in history.ready =>
            d.world = c.world \/ c.world \in Excused
    BY <2>2
  <2> HIDE DEF works, done, partly
  <2> QED BY <2>1, <2>3, CallKeepsLoss DEF RemoveSteps
<1>4. ASSUME DeleteNamespace(j) PROVE Loss'
  <2> DEFINE done == [c EXCEPT !.ns = IF @ = "active" THEN "terminating" ELSE @]
             works == TRUE
             partly == {done}
  <2>1. j.step = "delete namespace" /\ Call(j, works, done, partly, "delete row")
    BY <1>4 DEF DeleteNamespace, At
  <2>2. \A d \in partly \cup {done} : d.world = c.world
    <3>1. done.world = c.world
      <4> HIDE DEF c
      <4> QED BY <1>0, NamespaceFields
    <3> HIDE DEF done
    <3> QED BY <3>1
  <2>3. /\ j.step # "record" /\ "delete row" # "uninstall"
        /\ "delete row" \in RemoveSteps => j.step \in RemoveSteps
    BY <2>1 DEF RemoveSteps
  <2> HIDE DEF works, done, partly
  <2> QED BY <2>1, <2>2, <2>3, CallKeepsLoss
<1>5. ASSUME DeleteRow(j) PROVE Loss'
  <2>1. /\ j.step = "delete row" /\ UNCHANGED <<requests, cluster, history>>
        /\ servers' = [servers EXCEPT ![j.name] = None] /\ Advance(j, "record")
    BY <1>5 DEF DeleteRow, At
  <2>2. servers'[j.name] = None /\ \A m \in Names : m # j.name => servers'[m] = servers[m]
    BY <1>0, <2>1, TypedFacts
  <2>3. \A k \in Working' : k \in Working
    BY <2>1, AdvanceEffect DEF Working
  <2>4. \A n \in Names : servers'[n] # None =>
            servers[n] # None /\ servers'[n].life = servers[n].life
            /\ RowOK(servers'[n], history.ready, Excused)
    BY <2>2 DEF Loss
  <2> QED BY <2>1, <2>3, <2>4, QuietKeepsLoss
<1>6. ASSUME RecordDelete(j) PROVE Loss'
  <2>1. jobs' = jobs \ {j} /\ UNCHANGED <<servers, requests, cluster, history>>
    BY <1>6 DEF RecordDelete
  <2>2. \A k \in Working' : k \in Working
    BY <2>1 DEF Working
  <2>3. \A n \in Names : servers'[n] # None => RowOK(servers'[n], history.ready, Excused)
    BY <2>1 DEF Loss
  <2> QED BY <2>1, <2>2, <2>3, QuietKeepsLoss
<1> QED BY <1>1, <1>2, <1>3, <1>4, <1>5, <1>6 DEF Remove

\* A step of a request that does not claim a row for a delete.
LEMMA QuietRequestKeepsLoss ==
    ASSUME Typed, Loss, UNCHANGED <<servers, history>>, NEW r \in Requests,
           requests'[r].pc # "remove", \A s \in Requests \ {r} : requests'[s] = requests[s],
           \A k \in jobs' : k \in jobs \/ k.step \notin RemoveSteps,
           \A n \in Names : cluster'[n].world = cluster[n].world
    PROVE  Loss'
<1>1. \A k \in Working' : k.step \in RemoveSteps => k \in Working
    BY DEF Working
<1>2. \A n \in Names : servers'[n] # None => RowOK(servers'[n], history.ready, Excused)
    BY DEF Loss
<1> QED BY <1>1, <1>2, QuietKeepsLoss

\* A name is reserved: the new life was never ready, and nobody else's.
LEMMA ReserveKeepsLoss ==
    ASSUME Typed, Loss, NEW r \in Requests, NEW n \in Names, NEW row,
           servers[n] = None, servers' = [servers EXCEPT ![n] = row],
           row.life = history.lives + 1, history' = [history EXCEPT !.lives = row.life],
           UNCHANGED <<jobs, cluster>>, requests'[r].pc # "remove",
           \A s \in Requests \ {r} : requests'[s] = requests[s]
    PROVE  Loss'
<1>0. /\ servers'[n] = row /\ \A m \in Names : m # n => servers'[m] = servers[m]
      /\ \A m \in Names : servers[m] # None => servers[m].life \in Nat
    BY TypedFacts, BoundAssumption DEF Rows, Lives
<1>1. /\ history.lives \in Nat /\ history'.lives = history.lives + 1
      /\ history'.ready = history.ready /\ Excused' = Excused
      /\ history.ready \subseteq Nat
  <2>1. history \in [lives : Paths, ready : SUBSET Lives, saved : SUBSET Lives,
                     forced : SUBSET Lives, demoted : SUBSET Lives]
    BY HistoryFacts
  <2> QED BY <2>1, HistoryFacts DEF Excused
<1>2. LivesFresh'
  <2>1. \A m \in Names : servers[m] # None => servers[m].life < history.lives + 1
    BY <1>0, <1>1 DEF Loss, LivesFresh
  <2>2. \A m \in Names : servers'[m] # None => servers'[m].life <= history'.lives
    BY <1>0, <1>1, <2>1
  <2>3. \A m, k \in Names : servers'[m] # None /\ servers'[k] # None
                               /\ servers'[m].life = servers'[k].life => m = k
    BY <1>0, <1>1, <2>1 DEF Loss, LivesFresh
  <2>4. \A life \in history'.ready : life <= history'.lives
    BY <1>1 DEF Loss, LivesFresh
  <2> QED BY <2>2, <2>3, <2>4 DEF LivesFresh
<1>3. \A m \in Names : servers'[m] # None => RowOK(servers'[m], history'.ready, Excused')
  <2>1. row.life \notin history.ready
    BY <1>1 DEF Loss, LivesFresh
  <2> QED BY <1>0, <1>1, <2>1 DEF Loss, RowOK
<1>4. \A s \in Requests : requests'[s].pc = "remove" => ClaimOK(requests'[s], history'.ready, Excused')
    BY <1>1 DEF Loss
<1>5. \A k \in Working' : k.step \in RemoveSteps => JobOK(k, history'.ready, Excused')
    BY <1>1 DEF Loss, Working
<1>6. NoUnbackedLoss'
    BY <1>1 DEF Loss, NoUnbackedLoss, InCluster, Excused
<1> QED BY <1>2, <1>3, <1>4, <1>5, <1>6 DEF Loss

\* The request thread of a create loses no world.
LEMMA CreateKeepsLoss ==
    ASSUME Typed, Work, Clean, Loss, NEW r \in Requests, Create(r)
    PROVE  Loss'
<1> DEFINE q == requests[r]
<1>0. q \in RequestRecords /\ Idle.pc # "remove" /\ (q.pc # "idle" => q.name \in Names)
    BY TypedFacts DEF Idle
<1>1. ASSUME NEW t \in Tenants, NEW n \in Names, CreateStart(r, t, n) PROVE Loss'
  <2>1. Asked("lookup", t, n).pc = "lookup"
    BY AskedType DEF Pcs
  <2> QED BY <1>1, <2>1, RequestEffect, QuietRequestKeepsLoss DEF CreateStart
<1>2. ASSUME CreateLookup(r) PROVE Loss'
  <2>1. [q EXCEPT !.pc = "reserve"].pc = "reserve"
    BY <1>0 DEF RequestRecords
  <2>2. /\ requests'[r].pc # "remove"
        /\ \A s \in Requests \ {r} : requests'[s] = requests[s]
    BY <1>0, <1>2, <2>1, RequestEffect DEF CreateLookup, Answer
  <2> QED BY <1>2, <2>2, QuietRequestKeepsLoss DEF CreateLookup
<1>3. ASSUME CreateReserve(r) PROVE Loss'
  <2> DEFINE life == history.lives + 1
             row == [tenant |-> q.tenant, status |-> "provisioning", life |-> life]
             next == [q EXCEPT !.pc = "provision", !.life = life]
  <2>1. q.name \in Names /\ UNCHANGED <<jobs, cluster>>
    BY <1>0, <1>3 DEF CreateReserve
  <2>2. CASE Answer(r) /\ UNCHANGED <<servers, history>>
    BY <1>0, <2>1, <2>2, RequestEffect, QuietRequestKeepsLoss DEF Answer
  <2>3. CASE /\ servers[q.name] = None
             /\ servers' = [servers EXCEPT ![q.name] = row]
             /\ history' = [history EXCEPT !.lives = life]
             /\ requests' = [requests EXCEPT ![r] = next]
    <3>1. life \in Paths /\ "provision" \in Pcs /\ next = Assign(q, "provision", life)
      BY <1>3, BoundAssumption DEF CreateReserve, Typed, OthersOK, Paths, Pcs, Assign
    <3>2. row.life = life /\ life = history.lives + 1
      OBVIOUS
    <3> HIDE DEF life, row, next
    <3>3. next.pc = "provision"
      BY <1>0, <3>1, AssignedType
    <3>4. requests'[r].pc # "remove" /\ \A s \in Requests \ {r} : requests'[s] = requests[s]
      BY <2>3, <3>3, RequestEffect
    <3> QED BY <2>1, <2>3, <3>2, <3>4, ReserveKeepsLoss
  <2> QED BY <1>3, <2>2, <2>3 DEF CreateReserve, CanReserve
<1>4. ASSUME CreateSubmit(r) PROVE Loss'
  <2> DEFINE new == [ticket |-> NewTicket, name |-> q.name, life |-> q.life, step |-> "namespace",
                     prior |-> q.status, awake |-> q.awake, force |-> q.force]
  <2>1. /\ jobs' = jobs \cup {new} /\ Answer(r) /\ UNCHANGED <<servers, cluster, history>>
        /\ new.step = "namespace"
    BY <1>4 DEF CreateSubmit, Submit
  <2> HIDE DEF new
  <2> QED BY <1>0, <2>1, RequestEffect, QuietRequestKeepsLoss DEF Answer, RemoveSteps
<1> QED BY <1>1, <1>2, <1>3, <1>4 DEF Create

\* The request thread of a delete loses no world: it claims the row as it
\* found it, and a claim without a backup is excused from then on.
LEMMA DeleteKeepsLoss ==
    ASSUME Typed, Work, Clean, Loss, NEW r \in Requests, Delete(r)
    PROVE  Loss'
<1> DEFINE q == requests[r]
<1>0. /\ q \in RequestRecords /\ Idle.pc # "remove" /\ (q.pc # "idle" => q.name \in Names)
      /\ requests \in [Requests -> RequestRecords]
    BY TypedFacts DEF Idle
<1>1. CASE /\ UNCHANGED <<servers, jobs, cluster, history>> /\ requests'[r].pc # "remove"
           /\ \A s \in Requests \ {r} : requests'[s] = requests[s]
    BY <1>1, QuietRequestKeepsLoss
<1>2. ASSUME Answer(r) PROVE /\ requests'[r].pc # "remove"
                             /\ \A s \in Requests \ {r} : requests'[s] = requests[s]
    BY <1>0, <1>2, RequestEffect DEF Answer
<1>3. ASSUME NEW t \in Tenants, NEW n \in Names, NEW force \in BOOLEAN, DeleteStart(r, t, n, force)
      PROVE  Loss'
  <2> DEFINE asked == Asked("check", t, n)
             next == [asked EXCEPT !.status = servers[n].status, !.force = force]
  <2>1. asked \in RequestRecords /\ asked.pc = "check"
    BY AskedType DEF Pcs
  <2>2. next.pc = "check"
    <3> HIDE DEF asked
    <3> QED BY <2>1 DEF RequestRecords
  <2>3. requests' = [requests EXCEPT ![r] = next] /\ UNCHANGED <<servers, jobs, cluster, history>>
    BY <1>3 DEF DeleteStart
  <2> HIDE DEF next
  <2> QED BY <1>1, <2>2, <2>3, RequestEffect
<1>4. ASSUME DeleteCheck(r) PROVE Loss'
  <2>1. \A awake \in BOOLEAN : [q EXCEPT !.pc = "begin", !.awake = awake].pc = "begin"
    BY <1>0 DEF RequestRecords
  <2>2. ASSUME NEW awake \in BOOLEAN,
               requests' = [requests EXCEPT ![r] = [q EXCEPT !.pc = "begin", !.awake = awake]]
        PROVE  /\ requests'[r].pc # "remove"
               /\ \A s \in Requests \ {r} : requests'[s] = requests[s]
    BY <2>1, <2>2, RequestEffect
  <2> QED BY <1>1, <1>2, <1>4, <2>2 DEF DeleteCheck
<1>5. ASSUME DeleteBegin(r) PROVE Loss'
  <2> DEFINE row == servers[q.name]
             next == [q EXCEPT !.pc = "remove", !.life = row.life]
  <2>1. q.pc = "begin" /\ UNCHANGED <<jobs, cluster>> /\ q.name \in Names
    BY <1>0, <1>5 DEF DeleteBegin
  <2>2. CASE Answer(r) /\ UNCHANGED <<servers, history>>
    BY <1>1, <1>2, <2>1, <2>2
  <2>3. CASE /\ row # None /\ row.status = q.status
             /\ servers' = SetStatus(q.name, "deleting")
             /\ requests' = [requests EXCEPT ![r] = next]
             /\ history' = IF q.force THEN [history EXCEPT !.forced = @ \cup {row.life}]
                                      ELSE history
    <3>1. row \in Rows /\ row.life \in Lives
      BY <2>1, <2>3, TypedFacts DEF Rows
    <3>2. /\ servers'[q.name].status = "deleting" /\ servers'[q.name].life = row.life
          /\ \A m \in Names : m # q.name => servers'[m] = servers[m]
      BY <2>1, <2>3, SetStatusEffect, NoneAssumption DEF Statuses
    <3>3. /\ history'.ready = history.ready /\ history'.lives = history.lives
          /\ Excused \subseteq Excused' /\ (q.force => row.life \in Excused')
      <4>1. history \in [lives : Paths, ready : SUBSET Lives, saved : SUBSET Lives,
                         forced : SUBSET Lives, demoted : SUBSET Lives]
        BY HistoryFacts
      <4> QED BY <2>3, <4>1 DEF Excused
    <3>4. row.life \in Paths /\ "remove" \in Pcs /\ next = Assign(q, "remove", row.life)
      BY <3>1 DEF Lives, Paths, Pcs, Assign
    <3> HIDE DEF next
    <3>5. next.status = q.status /\ next.force = q.force /\ next.life = row.life
      <4> HIDE DEF row
      <4> QED BY <1>0, <3>4, AssignedType
    <3>6. requests'[r] = next /\ \A s \in Requests \ {r} : requests'[s] = requests[s]
      BY <2>3, RequestEffect
    <3>7. RowOK(row, history.ready, Excused)
      BY <2>1, <2>3 DEF Loss
    <3>8. ClaimOK(next, history'.ready, Excused')
      BY <2>3, <3>3, <3>5, <3>7 DEF ClaimOK, Lenient, RowOK
    <3>9. \A n \in Names : servers'[n] # None =>
              servers[n] # None /\ servers'[n].life = servers[n].life
              /\ RowOK(servers'[n], history'.ready, Excused')
      BY <2>3, <3>2, <3>3 DEF Loss, RowOK
    <3>10. Working' = Working
      BY <2>1 DEF Working
    <3> QED BY <2>1, <3>3, <3>6, <3>8, <3>9, <3>10, CalmKeepsLoss
  <2> QED BY <1>5, <2>2, <2>3 DEF DeleteBegin, CanBeginDelete
<1>6. ASSUME DeleteSubmit(r) PROVE Loss'
  <2> DEFINE new == [ticket |-> NewTicket, name |-> q.name, life |-> q.life, step |-> "backup",
                     prior |-> q.status, awake |-> q.awake, force |-> q.force]
  <2>1. /\ q.pc = "remove" /\ jobs' = jobs \cup {new} /\ UNCHANGED <<servers, cluster, history>>
        /\ Answer(r)
    BY <1>6 DEF DeleteSubmit, Submit
  <2>2. ClaimOK(q, history.ready, Excused)
    BY <2>1 DEF Loss
  <2>3. JobOK(new, history.ready, Excused)
    BY <2>2 DEF ClaimOK, JobOK
  <2> HIDE DEF new
  <2>4. \A k \in Working' : k \in Working \/ JobOK(k, history.ready, Excused)
    BY <2>1, <2>3 DEF Working
  <2>5. \A n \in Names : servers'[n] # None => RowOK(servers'[n], history.ready, Excused)
    BY <2>1 DEF Loss
  <2> QED BY <1>2, <2>1, <2>4, <2>5, QuietKeepsLoss
<1> QED BY <1>3, <1>4, <1>5, <1>6 DEF Delete

\* Waking a server loses no world.
LEMMA WakeKeepsLoss ==
    ASSUME Typed, Work, Clean, Loss, NEW r \in Requests, Wake(r)
    PROVE  Loss'
<1>1. ASSUME NEW t \in Tenants, NEW n \in Names, WakeStart(r, t, n) PROVE Loss'
  <2>1. Asked("scale", t, n).pc = "scale"
    BY AskedType DEF Pcs
  <2> QED BY <1>1, <2>1, RequestEffect, QuietRequestKeepsLoss DEF WakeStart
<1>2. ASSUME WakeScale(r) PROVE Loss'
  <2> DEFINE n == requests[r].name
             c == cluster[n]
             d == [c EXCEPT !.sts = "up"]
  <2>1. n \in Names /\ c \in Namespaces /\ cluster \in [Names -> Namespaces]
    BY <1>2, TypedFacts DEF WakeScale
  <2>2. d.world = c.world
    <3> HIDE DEF c
    <3> QED BY <2>1, NamespaceFields
  <2>3. cluster' = cluster \/ cluster' = [cluster EXCEPT ![n] = d]
    BY <1>2 DEF WakeScale
  <2> HIDE DEF d
  <2>4. \A m \in Names : cluster'[m].world = cluster[m].world
    BY <2>1, <2>2, <2>3
  <2>5. Idle.pc # "remove" /\ Answer(r) /\ UNCHANGED <<servers, jobs, history>>
    BY <1>2 DEF WakeScale, Idle
  <2> QED BY <2>4, <2>5, RequestEffect, QuietRequestKeepsLoss DEF Answer
<1> QED BY <1>1, <1>2 DEF Wake

\* A restart loses no world: a create it puts back as failed was never ready,
\* and a delete it puts back as failed is demoted.
LEMMA RestartKeepsLoss ==
    ASSUME Typed, Work, Clean, Loss, Restart
    PROVE  Loss'
<1> DEFINE rows == {n \in Names : servers[n] # None}
           demoted == {n \in rows : servers[n].status = "deleting" /\ Recovered(n) = "failed"}
<1>1. /\ UNCHANGED cluster /\ jobs' = {} /\ requests' = [r \in Requests |-> Idle]
      /\ history' = [history EXCEPT !.demoted = @ \cup {servers[n].life : n \in demoted}]
    BY DEF Restart
<1>2. /\ history'.ready = history.ready /\ history'.lives = history.lives
      /\ Excused \subseteq Excused' /\ \A n \in demoted : servers[n].life \in Excused'
  <2>1. history \in [lives : Paths, ready : SUBSET Lives, saved : SUBSET Lives,
                     forced : SUBSET Lives, demoted : SUBSET Lives]
    BY HistoryFacts
  <2> HIDE DEF demoted
  <2> QED BY <1>1, <2>1 DEF Excused
<1>3. ASSUME NEW n \in Names, servers'[n] # None
      PROVE  servers[n] # None /\ servers'[n].life = servers[n].life
             /\ RowOK(servers'[n], history'.ready, Excused')
  <2>1. /\ servers[n] # None /\ servers[n] \in Rows /\ servers'[n].life = servers[n].life
        /\ servers'[n].status = Recovered(n) /\ Recovered(n) \in {"ready", "failed"}
    BY <1>3, TypedFacts, RestartKeepsWork
  <2>2. ASSUME servers[n].life \in history.ready, Recovered(n) = "failed"
        PROVE  servers[n].life \in Excused'
    <3>1. RowOK(servers[n], history.ready, Excused)
      BY <2>1 DEF Loss
    <3>2. CASE servers[n].status = "deleting"
      BY <1>2, <2>1, <2>2, <3>2
    <3>3. CASE servers[n].status = "failed"
      BY <1>2, <2>2, <3>1, <3>3 DEF RowOK
    <3>4. servers[n].status \notin {"provisioning", "ready"}
      BY <2>1, <2>2, <3>1 DEF RowOK, Recovered
    <3> QED BY <2>1, <3>2, <3>3, <3>4 DEF Rows, Statuses
  <2> QED BY <1>2, <2>1, <2>2 DEF RowOK
<1>4. Idle.pc # "remove" /\ \A r \in Requests : requests'[r] = Idle
    BY <1>1 DEF Idle
<1>5. Working' = {}
    BY <1>1 DEF Working
<1> QED BY <1>1, <1>2, <1>3, <1>4, <1>5, CalmKeepsLoss

\* Neither the cluster, the router nor the operator loses a world: a namespace
\* that drains has none left.
LEMMA EnvironmentKeepsLoss ==
    ASSUME Typed, Work, Clean, Loss, Environment
    PROVE  Loss'
<1>0. UNCHANGED <<servers, jobs, requests, history>> /\ cluster \in [Names -> Namespaces]
    BY TypedFacts DEF Environment, NamespaceDrains, PodScales, PruneBackup
<1>1. ASSUME NEW n \in Names, NEW d, cluster' = [cluster EXCEPT ![n] = d],
             d.world = cluster[n].world \/ cluster[n].world = 0
      PROVE  Loss'
  <2>1. cluster[n].world \in history.ready => d.world = cluster[n].world
    BY <1>1, HistoryFacts
  <2>2. \A m \in Names : cluster[m].world \in history.ready => cluster'[m].world = cluster[m].world
    BY <1>0, <1>1, <2>1
  <2>3. Working' = Working
    BY <1>0 DEF Working
  <2>4. \A m \in Names : servers'[m] # None => RowOK(servers'[m], history.ready, Excused)
    BY <1>0 DEF Loss
  <2> QED BY <1>0, <2>2, <2>3, <2>4, QuietKeepsLoss
<1>2. ASSUME NEW n \in Names, NamespaceDrains(n) PROVE Loss'
  <2>1. cluster[n].world = 0
    BY <1>2 DEF NamespaceDrains, Clean, NameClean, Swept, HoldsOnly
  <2> QED BY <1>1, <1>2, <2>1 DEF NamespaceDrains
<1>3. ASSUME NEW n \in Names, PodScales(n) PROVE Loss'
  <2> DEFINE c == cluster[n]
             x == IF c.sts = "up" THEN "asleep" ELSE "up"
             d == [c EXCEPT !.sts = x]
  <2>1. cluster' = [cluster EXCEPT ![n] = d]
    BY <1>3 DEF PodScales
  <2>2. d.world = c.world
    <3>1. c \in Namespaces
      BY <1>0
    <3> HIDE DEF c, x
    <3> QED BY <3>1, NamespaceFields
  <2> HIDE DEF d
  <2> QED BY <1>1, <2>1, <2>2
<1>4. ASSUME NEW path \in Lives, PruneBackup(path) PROVE Loss'
  <2>1. Working' = Working /\ UNCHANGED cluster
    BY <1>0, <1>4 DEF Working, PruneBackup
  <2>2. \A m \in Names : servers'[m] # None => RowOK(servers'[m], history.ready, Excused)
    BY <1>0 DEF Loss
  <2> QED BY <1>0, <2>1, <2>2, QuietKeepsLoss
<1> QED BY <1>2, <1>3, <1>4 DEF Environment

\* At the start there is no life to lose.
LEMMA LossInit == Init => Loss
BY DEF Init, Loss, LivesFresh, Working, Idle, NoUnbackedLoss

\* Every step keeps Loss.
LEMMA LossNext == Typed /\ Work /\ Clean /\ Loss /\ [Next]_vars => Loss'
<1> SUFFICES ASSUME Typed, Work, Clean, Loss, [Next]_vars PROVE Loss'
    OBVIOUS
<1>1. CASE UNCHANGED vars
  <2>1. Working' = Working /\ UNCHANGED <<servers, requests, cluster, history>>
    BY <1>1 DEF Working, vars
  <2>2. \A n \in Names : servers'[n] # None => RowOK(servers'[n], history.ready, Excused)
    BY <2>1 DEF Loss
  <2> QED BY <2>1, <2>2, QuietKeepsLoss
<1>2. CASE Next
    BY <1>2, CreateKeepsLoss, DeleteKeepsLoss, WakeKeepsLoss, ProvisionKeepsLoss,
       RemoveKeepsLoss, RestartKeepsLoss, EnvironmentKeepsLoss DEF Next, JobStep
<1> QED BY <1>1, <1>2

\* The world of a server that was once ready never disappears unless it was
\* backed up, its tenant gave force, or a restart put its delete back as failed.
THEOREM NoWorldLost == Spec => []NoUnbackedLoss
<1>1. Spec => []Invariant
  <2>1. Init => Invariant
    BY TypedInit, WorkInit, CleanInit, LossInit DEF Invariant
  <2>2. Invariant /\ [Next]_vars => Invariant'
    BY TypedNext, WorkNext, CleanNext, LossNext DEF Invariant
  <2> QED BY <2>1, <2>2, PTL DEF Spec
<1>2. Invariant => NoUnbackedLoss
    BY DEF Invariant, Loss
<1> QED BY <1>1, <1>2, PTL
=============================================================================
