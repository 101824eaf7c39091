-------------------------- MODULE WorldExportsProofs --------------------------
(***************************************************************************)
(* Proofs about WorldExports: for every number of names, tenants, threads, *)
(* exports and restarts, a tenant has one export of a server at a time and *)
(* no more than the day's limit of them; an active row has somebody who    *)
(* ends it; a ready export keeps its files until somebody sets out to      *)
(* remove it; and what is shown of the exports is what ExportLedger says.  *)
(*                                                                         *)
(* The inductive invariant has five parts: Table, of the rows; Threads, of *)
(* the request threads; Rest, of the queue, the worker and the hooks;      *)
(* Worked, which ties the active rows to those who work on them; and Kept, *)
(* which says what a sweep under way knows and a hook has yet to remove.   *)
(***************************************************************************)
EXTENDS WorldExports, FiniteSetTheorems, TLAPS

Used == {e \in Exports : source[e] # None}

\* At most one active row of a tenant and a server.
Single ==
    \A e, f \in Exports :
        rows[e] \in Active /\ rows[f] \in Active /\ source[e] = source[f] => e = f

Gone(e) == e \in history.removed \/ e \in history.raced

Table ==
    /\ rows \in [Exports -> {"none"} \cup Active \cup Ended]
    /\ source \in [Exports -> [server : Names, tenant : Tenants] \cup {None}]
    /\ \A e \in Exports : source[e] = None => rows[e] = "none" /\ e \notin recent
    /\ history \in [removed : SUBSET Exports, raced : SUBSET Exports]
    /\ expired \cup recent \cup published \cup history.removed \cup history.raced \subseteq Used
    /\ \A e \in Rows \cap expired : rows[e] \in Ended
    /\ \E k \in Nat : Used = 1 .. k
    /\ Single
    /\ DailyLimitHeld

\* What the record of one thread must be, when S are the ids given out.
Thread(q, S) ==
    /\ q \in RequestRecords
    /\ q.pc \in {"submit", "drop", "drop row", "sweep drop"} => q.export # 0
    /\ q.create => q.tenant \in Tenants /\ q.name \in Names
    /\ q.todo \subseteq S /\ (q.export # 0 => q.export \in S)

Threads ==
    requests \in [Requests -> RequestRecords] /\ \A r \in Requests : Thread(requests[r], Used)

Rest ==
    /\ lives \in 0 .. MaxLives
    /\ queue \in Seq(Exports)
    /\ worker \in [pc : WorkerPcs, export : Exports \cup {0}]
    /\ At("idle") <=> worker.export = 0
    /\ worker.export # 0 => worker.export \in Used
    /\ \A i \in DOMAIN queue : queue[i] \in Used
    /\ hooks \subseteq [name : Names, pc : {"rows", "dirs"}, life : 0 .. MaxLives]
    /\ folders \subseteq Names

Submits(e) == \E r \in Requests : requests[r].pc = "submit" /\ requests[r].export = e
Queued(e) == \E i \in DOMAIN queue : queue[i] = e

Worked ==
    \A e \in Exports :
        /\ rows[e] = "queued" => Submits(e) \/ Queued(e)
        /\ rows[e] = "running" => worker.export = e

\* The exports whose files must stay, once they are there.
Staying == {e \in Rows : ~Gone(e)}

\* A thread that is still to remove directories leaves S alone, if from says
\* whose each is.
Spares(q, S, from) ==
    /\ q.pc \in {"sweep rows", "sweep drop"} => S \subseteq q.known \cup q.todo
    /\ q.pc = "sweep dirs" => \A e \in S : from[e].server \in q.visit => e \in q.known

Kept ==
    /\ \A e \in Staying : rows[e] = "ready" => e \in published
    /\ At("report") /\ worker.export \in Staying => worker.export \in published
    /\ \A r \in Requests : Spares(requests[r], Staying, source)
    /\ \A h \in hooks : h.pc = "dirs" => \A e \in Staying : source[e].server # h.name

Inv == Table /\ Threads /\ Rest /\ Worked /\ Kept

-----------------------------------------------------------------------------
(* The table of rows                                                         *)

\* The exports are finitely many, and so is every set of them.
LEMMA ExportsAreFinite ==
    ASSUME NEW S, S \subseteq Exports
    PROVE  IsFiniteSet(S) /\ Cardinality(S) \in Nat
  <1>1. IsFiniteSet(Exports)
    BY FS_Interval, ExportBoundAssumption DEF Exports
  <1>2. IsFiniteSet(S)
    BY <1>1, FS_Subset
  <1>3. QED BY <1>2, FS_CardinalityType

\* A smaller set of exports has no more of them.
LEMMA FewerExports ==
    ASSUME NEW S, S \subseteq Exports, NEW T, T \subseteq S
    PROVE  Cardinality(T) <= Cardinality(S)
  <1>1. IsFiniteSet(S)
    BY ExportsAreFinite
  <1>2. QED BY <1>1, FS_Subset

\* A step that reserves nothing, and lets rows only go on: no row becomes active
\* that was not, or comes back.
LEMMA TableGoesOn ==
    ASSUME Table,
           rows' \in [Exports -> {"none"} \cup Active \cup Ended],
           \A e \in Exports : rows'[e] \in Active => rows[e] \in Active,
           \A e \in Exports : rows'[e] # "none" => rows[e] # "none",
           source' = source, recent' \subseteq recent,
           expired' \subseteq expired \cup {e \in Exports : rows[e] \in Ended /\ rows'[e] = rows[e]},
           published' \subseteq Used, history'.removed \subseteq Used, history'.raced \subseteq Used,
           history' \in [removed : SUBSET Exports, raced : SUBSET Exports]
    PROVE  Table'
  <1>1. Used' = Used
    BY DEF Used
  <1>2. /\ source' \in [Exports -> [server : Names, tenant : Tenants] \cup {None}]
        /\ \A e \in Exports : source'[e] = None => rows'[e] = "none" /\ e \notin recent'
        /\ \E k \in Nat : Used' = 1 .. k
    BY <1>1 DEF Table
  <1>3. expired' \cup recent' \cup published' \cup history'.removed \cup history'.raced \subseteq Used'
    <2>1. \A e \in Exports : rows[e] \in Ended => e \in Used
      BY DEF Table, Used, Ended
    <2>2. QED BY <1>1, <2>1 DEF Table
  <1>4. ASSUME NEW e \in Exports, rows'[e] # "none", e \in expired'
        PROVE  rows'[e] \in Ended
    <2>1. rows[e] # "none" /\ (rows'[e] \in Active => rows[e] \in Active)
      BY <1>4
    <2>2. rows[e] \in Ended
      BY <1>4, <2>1 DEF Table, Rows
    <2>3. rows'[e] \notin Active
      BY <2>1, <2>2 DEF Active, Ended
    <2>4. QED BY <1>4, <2>3
  <1>5. Single'
    BY DEF Table, Single
  <1>6. DailyLimitHeld'
    <2> SUFFICES ASSUME NEW t \in Tenants
                 PROVE  Cardinality(RecentOf(t)') <= DailyLimit
      BY DEF DailyLimitHeld
    <2>1. RecentOf(t)' \subseteq RecentOf(t) /\ RecentOf(t) \subseteq Exports
      BY DEF RecentOf, Table, Used
    <2>2. Cardinality(RecentOf(t)') <= Cardinality(RecentOf(t))
          /\ Cardinality(RecentOf(t)) \in Nat /\ Cardinality(RecentOf(t)') \in Nat
      BY <2>1, FewerExports, ExportsAreFinite
    <2>3. QED BY <2>2, ExportLimitAssumption DEF Table, DailyLimitHeld
  <1>7. QED BY <1>2, <1>3, <1>4, <1>5, <1>6 DEF Table, Rows

\* The id of a new export is one that nothing is known of.
LEMMA NewIsNew ==
    ASSUME Table, NewExport \in Exports
    PROVE  /\ NewExport \notin Used /\ rows[NewExport] = "none"
           /\ NewExport \notin recent \cup expired
           /\ \E k \in Nat : Used \cup {NewExport} = 1 .. k
  <1>1. PICK k \in Nat : Used = 1 .. k
    BY DEF Table
  <1>2. Cardinality(Used) = k
    BY <1>1, FS_Interval
  <1>3. NewExport = k + 1
    BY <1>2 DEF NewExport, Used
  <1>4. Used \cup {NewExport} = 1 .. (k + 1)
    BY <1>1, <1>3
  <1>5. NewExport \notin Used
    BY <1>1, <1>3
  <1>6. source[NewExport] = None
    BY <1>5 DEF Used
  <1>7. rows[NewExport] = "none" /\ NewExport \notin recent \cup expired
    BY <1>5, <1>6 DEF Table
  <1>8. k + 1 \in Nat
    OBVIOUS
  <1>9. QED BY <1>4, <1>5, <1>7, <1>8

\* The reservation keeps the two limits it is made under.
LEMMA TableReserves ==
    ASSUME Table, Threads, NEW r \in Requests, ReserveExport(r)
    PROVE  Table'
  <1> DEFINE q == requests[r]
             x == NewExport
             owner == [server |-> q.name, tenant |-> q.tenant]
  <1>1. /\ x \in Exports /\ CanReserve(q.tenant, q.name)
        /\ rows' = [rows EXCEPT ![x] = "queued"] /\ source' = [source EXCEPT ![x] = owner]
        /\ recent' = recent \cup {x} /\ expired' = expired /\ published' = published
        /\ history'.removed = history.removed
        /\ history'.raced \subseteq history.raced \cup {x}
        /\ history' \in [removed : SUBSET Exports, raced : SUBSET Exports]
    <2>0. x \in Exports /\ history \in [removed : SUBSET Exports, raced : SUBSET Exports]
      BY DEF ReserveExport, Table
    <2>1. history' = history \/ history' = [history EXCEPT !.raced = @ \cup {x}]
      BY DEF ReserveExport
    <2>2. QED BY <2>0, <2>1 DEF ReserveExport, fileVars
  <1>2. q.tenant \in Tenants /\ q.name \in Names
    BY DEF Threads, Thread, ReserveExport, AtReserve
  <1>3. owner \in [server : Names, tenant : Tenants] /\ owner # None
    BY <1>2, NoRowAssumption
  <1> HIDE DEF x, owner
  <1>4. /\ x \notin Used /\ rows[x] = "none" /\ x \notin recent \cup expired
        /\ \E k \in Nat : Used \cup {x} = 1 .. k
    BY <1>1, NewIsNew DEF x
  <1>5. /\ rows \in [Exports -> {"none"} \cup Active \cup Ended]
        /\ source \in [Exports -> [server : Names, tenant : Tenants] \cup {None}]
    BY DEF Table
  <1>6. Used' = Used \cup {x}
    BY <1>1, <1>3, <1>5 DEF Used
  <1>7. /\ rows' \in [Exports -> {"none"} \cup Active \cup Ended]
        /\ source' \in [Exports -> [server : Names, tenant : Tenants] \cup {None}]
        /\ \A e \in Exports : source'[e] = None => rows'[e] = "none" /\ e \notin recent'
    BY <1>1, <1>3, <1>5 DEF Table, Active
  <1>8. expired' \cup recent' \cup published' \cup history'.removed \cup history'.raced \subseteq Used'
    BY <1>1, <1>6 DEF Table
  <1>9. \A e \in Rows' \cap expired' : rows'[e] \in Ended
    BY <1>1, <1>4, <1>5 DEF Table, Rows
  <1>10. Single'
    <2>1. \A e \in Exports : rows[e] \in Active /\ source[e] = owner => FALSE
      <3> SUFFICES ASSUME NEW e \in Exports, rows[e] \in Active, source[e] = owner
                   PROVE  FALSE
        OBVIOUS
      <3>1. e \in ActiveOf(q.tenant, q.name)
        BY DEF ActiveOf, RowsOf, Rows, Active, owner
      <3>2. QED BY <1>1, <3>1 DEF CanReserve
    <2>2. QED BY <1>1, <1>5, <2>1 DEF Table, Single
  <1>11. DailyLimitHeld'
    <2> SUFFICES ASSUME NEW t \in Tenants
                 PROVE  Cardinality(RecentOf(t)') <= DailyLimit
      BY DEF DailyLimitHeld
    <2>1. RecentOf(t) \subseteq Exports /\ IsFiniteSet(RecentOf(t)) /\ Cardinality(RecentOf(t)) \in Nat
      <3>1. RecentOf(t) \subseteq Exports
        BY DEF RecentOf, Table, Used
      <3>2. QED BY <3>1, ExportsAreFinite
    <2>2. CASE t = q.tenant
      <3>1. RecentOf(t)' = RecentOf(t) \cup {x}
        BY <1>1, <1>4, <1>5, <2>2 DEF RecentOf, Table, Used, owner
      <3>2. x \notin RecentOf(t)
        BY <1>4 DEF RecentOf
      <3>3. Cardinality(RecentOf(t)') = Cardinality(RecentOf(t)) + 1
        BY <2>1, <3>1, <3>2, FS_AddElement
      <3>4. Cardinality(RecentOf(t)) < DailyLimit
        BY <1>1, <2>2 DEF CanReserve
      <3>5. QED BY <2>1, <3>3, <3>4, ExportLimitAssumption
    <2>3. CASE t # q.tenant
      <3>1. RecentOf(t)' = RecentOf(t)
        BY <1>1, <1>4, <1>5, <2>3 DEF RecentOf, Table, Used, owner
      <3>2. QED BY <3>1 DEF Table, DailyLimitHeld
    <2>4. QED BY <2>2, <2>3
  <1>12. QED BY <1>1, <1>4, <1>6, <1>7, <1>8, <1>9, <1>10, <1>11 DEF Table

\* Every step of the system keeps the table.
LEMMA TableStep ==
    ASSUME Inv, [Next]_vars
    PROVE  Table'
  <1>1. /\ rows \in [Exports -> {"none"} \cup Active \cup Ended]
        /\ published \subseteq Used /\ history.removed \subseteq Used /\ history.raced \subseteq Used
        /\ worker.export \in Exports \cup {0} /\ Table
        /\ history \in [removed : SUBSET Exports, raced : SUBSET Exports]
    BY DEF Inv, Table, Rest
  <1>2. ASSUME UNCHANGED <<rowVars, published, history>>
        PROVE  Table'
    BY <1>1, <1>2, TableGoesOn DEF rowVars, Table
  <1>3. ASSUME UNCHANGED <<source, expired, recent, published, history>>,
               NEW S \in SUBSET Exports, rows' = [e \in Exports |-> IF e \in S THEN "none" ELSE rows[e]]
        PROVE  Table'
    <2>1. /\ rows' \in [Exports -> {"none"} \cup Active \cup Ended]
          /\ \A e \in Exports : rows'[e] \in Active => rows[e] \in Active
          /\ \A e \in Exports : rows'[e] # "none" => rows[e] # "none"
      BY <1>1, <1>3 DEF Active
    <2>2. QED BY <1>1, <1>3, <2>1, TableGoesOn
  <1>4. ASSUME NEW status \in Ended, rows' = SetStatus(worker.export, status),
               UNCHANGED <<source, expired, recent, history>>, published' \subseteq Used
        PROVE  Table'
    <2>1. /\ rows' \in [Exports -> {"none"} \cup Active \cup Ended]
          /\ \A e \in Exports : rows'[e] \in Active => rows[e] \in Active
          /\ \A e \in Exports : rows'[e] # "none" => rows[e] # "none"
      BY <1>1, <1>4 DEF SetStatus, Rows, Active, Ended
    <2>2. QED BY <1>1, <1>4, <2>1, TableGoesOn
  <1>5. CASE UNCHANGED vars
    BY <1>2, <1>5 DEF vars, restOfState, fileVars
  <1>6. ASSUME NEW r \in Requests, Sweep(r)
        PROVE  Table'
    <2>1. CASE \/ \E t \in Tenants, n \in Names : List(r, t, n)
               \/ SweepFolders(r) \/ SweepGoneFolder(r) \/ SweepEnd(r)
      BY <1>2, <2>1 DEF List, SweepFolders, SweepGoneFolder, SweepEnd, restOfState, fileVars
    <2>2. CASE SweepRow(r)
      <3>1. requests[r].todo \subseteq Used
        BY DEF Inv, Threads, Thread
      <3>2. PICK e \in requests[r].todo :
                \/ /\ published' = published \ {e}
                   /\ history' = [history EXCEPT !.removed = @ \cup {e}]
                \/ UNCHANGED <<published, history>>
        BY <2>2 DEF SweepRow
      <3>3. /\ history'.removed \subseteq history.removed \cup {e}
            /\ history'.raced = history.raced /\ published' \subseteq published
            /\ history' \in [removed : SUBSET Exports, raced : SUBSET Exports]
        <4>1. history' = history \/ history' = [history EXCEPT !.removed = @ \cup {e}]
          BY <3>2
        <4>2. e \in Exports
          BY <3>1 DEF Used
        <4>3. QED BY <1>1, <3>2, <4>1, <4>2
      <3>4. UNCHANGED rowVars
        BY <2>2 DEF SweepRow
      <3>5. QED BY <1>1, <3>1, <3>3, <3>4, TableGoesOn DEF rowVars
    <2>3. CASE SweepDropRow(r)
      <3>1. rows' = [e \in Exports |-> IF e \in {requests[r].export} \cap Exports THEN "none" ELSE rows[e]]
        BY <1>1, <2>3 DEF SweepDropRow
      <3>2. QED BY <1>3, <2>3, <3>1 DEF SweepDropRow, fileVars
    <2>4. CASE SweepFolder(r)
      <3>1. published' \subseteq published /\ UNCHANGED <<rowVars, history>>
        BY <2>4 DEF SweepFolder
      <3>2. QED BY <1>1, <3>1, TableGoesOn DEF rowVars
    <2>5. QED BY <1>6, <2>1, <2>2, <2>3, <2>4 DEF Sweep
  <1>7. ASSUME NEW r \in Requests, Start(r)
        PROVE  Table'
    <2>1. CASE \/ \E t \in Tenants, n \in Names, due \in BOOLEAN : StartExport(r, t, n, due)
               \/ RefuseExport(r) \/ SubmitExport(r)
      BY <1>2, <2>1 DEF StartExport, RefuseExport, SubmitExport, restOfState, fileVars
    <2>2. CASE ReserveExport(r)
      BY <2>2, TableReserves DEF Inv
    <2>3. QED BY <1>7, <2>1, <2>2 DEF Start
  <1>8. ASSUME NEW r \in Requests, Drop(r)
        PROVE  Table'
    <2>1. CASE \E t \in Tenants, n \in Names, e \in Exports : DeleteExport(r, t, n, e)
      BY <1>2, <2>1 DEF DeleteExport, restOfState, fileVars
    <2>2. CASE DropFiles(r)
      <3>1. requests[r].export \in Used
        BY <2>2 DEF Inv, Threads, Thread, DropFiles
      <3>2. /\ history' = [history EXCEPT !.removed = @ \cup {requests[r].export}]
            /\ published' \subseteq published /\ UNCHANGED rowVars
        BY <2>2 DEF DropFiles
      <3>3. /\ history'.removed \subseteq Used /\ history'.raced \subseteq Used
            /\ history' \in [removed : SUBSET Exports, raced : SUBSET Exports]
        BY <1>1, <3>1, <3>2 DEF Used
      <3>4. QED BY <1>1, <3>2, <3>3, TableGoesOn DEF rowVars
    <2>3. CASE DropRow(r)
      <3>1. rows' = [e \in Exports |-> IF e \in {requests[r].export} \cap Exports THEN "none" ELSE rows[e]]
        BY <1>1, <2>3 DEF DropRow
      <3>2. QED BY <1>3, <2>3, <3>1 DEF DropRow, fileVars
    <2>4. QED BY <1>8, <2>1, <2>2, <2>3 DEF Drop
  <1>9. CASE Take
    <2>1. /\ rows' \in [Exports -> {"none"} \cup Active \cup Ended]
          /\ \A e \in Exports : rows'[e] \in Active => rows[e] \in Active
          /\ \A e \in Exports : rows'[e] # "none" => rows[e] # "none"
      BY <1>1, <1>9 DEF Take, Active
    <2>2. QED BY <1>1, <1>9, <2>1, TableGoesOn DEF Take, fileVars
  <1>10. CASE Look \/ ReadWorld \/ MakeFolder \/ Move \/ Report
    <2>1. UNCHANGED <<source, expired, recent, history>>
      BY <1>10 DEF Look, ReadWorld, MakeFolder, Move, Report, rowVars
    <2>2. \/ rows' = SetStatus(worker.export, "ready") \/ rows' = SetStatus(worker.export, "failed")
          \/ rows' = rows
      BY <1>10 DEF Look, ReadWorld, MakeFolder, Move, Report, Fail, rowVars
    <2>3. published' \subseteq Used
      <3>1. CASE Move
        <4>1. published' = published \/ published' = published \cup {worker.export}
          BY <3>1 DEF Move
        <4>2. worker.export \in Used
          BY <3>1 DEF Move, At, Inv, Rest
        <4>3. QED BY <1>1, <4>1, <4>2
      <3>2. CASE ~Move
        BY <1>1, <1>10, <3>2 DEF Look, ReadWorld, MakeFolder, Report, fileVars
      <3>3. QED BY <3>1, <3>2
    <2>4. CASE rows' = rows
      BY <1>1, <2>1, <2>3, <2>4, TableGoesOn
    <2>5. QED BY <1>4, <2>1, <2>2, <2>3, <2>4 DEF Ended
  <1>11. CASE ServerStep
    <2>1. CASE \/ \E t \in Tenants, n \in Names : ServerAccepted(t, n)
               \/ \E n \in Names : ServerChanges(n) \/ ServerDeleted(n)
      BY <1>2, <2>1 DEF ServerAccepted, ServerChanges, ServerDeleted, serversRest, fileVars
    <2>2. ASSUME NEW h \in hooks, ForgetRows(h)
          PROVE  Table'
      <3>1. rows' = [e \in Exports |-> IF e \in RowsOf(h.name) THEN "none" ELSE rows[e]]
            /\ RowsOf(h.name) \subseteq Exports
        BY <2>2 DEF ForgetRows, RowsOf, Rows
      <3>2. QED BY <1>3, <2>2, <3>1 DEF ForgetRows, fileVars
    <2>3. ASSUME NEW h \in hooks, ForgetFolder(h)
          PROVE  Table'
      <3>1. published' \subseteq published /\ UNCHANGED <<rowVars, history>>
        BY <2>3 DEF ForgetFolder
      <3>2. QED BY <1>1, <3>1, TableGoesOn DEF rowVars
    <2>4. QED BY <1>11, <2>1, <2>2, <2>3 DEF ServerStep
  <1>12. CASE Time
    <2>1. ASSUME NEW e \in Exports, Expire(e)
          PROVE  Table'
      BY <1>1, <2>1, TableGoesOn DEF Expire, fileVars
    <2>2. ASSUME NEW e \in Exports, DayPasses(e)
          PROVE  Table'
      BY <1>1, <2>2, TableGoesOn DEF DayPasses, fileVars
    <2>3. QED BY <1>12, <2>1, <2>2 DEF Time
  <1>13. CASE Restart
    <2>1. PICK doomed \in SUBSET Exports : 
              rows' = [e \in Exports |-> IF e \in doomed THEN "none" ELSE Interrupted(e)]
      <3> DEFINE status == [e \in Exports |-> Interrupted(e)]
                 doomed == {e \in Rows : status[e] \in Ended
                              /\ (e \in expired \/ ledger[source[e].server] = None
                                     \/ ledger[source[e].server].tenant # source[e].tenant)}
      <3>1. rows' = [e \in Exports |-> IF e \in doomed THEN "none" ELSE status[e]]
        BY <1>13 DEF Restart
      <3>2. doomed \subseteq Exports
        BY DEF Rows
      <3>3. QED BY <3>1, <3>2
    <2>2. /\ rows' \in [Exports -> {"none"} \cup Active \cup Ended]
          /\ \A e \in Exports : rows'[e] \in Active => rows[e] \in Active
          /\ \A e \in Exports : rows'[e] # "none" => rows[e] # "none"
      BY <1>1, <2>1 DEF Interrupted, Active, Ended
    <2>3. published' \subseteq published /\ UNCHANGED <<source, expired, recent, history>>
      BY <1>13 DEF Restart
    <2>4. QED BY <1>1, <2>2, <2>3, TableGoesOn
  <1>14. QED BY <1>5, <1>6, <1>7, <1>8, <1>9, <1>10, <1>11, <1>12, <1>13 DEF Next, WorkerStep

\* Ids that were given out stay so.
LEMMA UsedGrows ==
    ASSUME Inv, [Next]_vars
    PROVE  Used \subseteq Used'
  <1>1. CASE source' = source
    BY <1>1 DEF Used
  <1>2. CASE \E r \in Requests : ReserveExport(r)
    <2>1. PICK r \in Requests : ReserveExport(r)
      BY <1>2
    <2>2. \E o : o \in [server : Names, tenant : Tenants]
                 /\ source' = [source EXCEPT ![NewExport] = o] /\ NewExport \in Exports
      <3>1. [server |-> requests[r].name, tenant |-> requests[r].tenant]
               \in [server : Names, tenant : Tenants]
        BY <2>1 DEF Inv, Threads, Thread, ReserveExport, AtReserve
      <3>2. QED BY <2>1, <3>1 DEF ReserveExport
    <2>3. source \in [Exports -> [server : Names, tenant : Tenants] \cup {None}]
      BY DEF Inv, Table
    <2>4. QED BY <2>2, <2>3, NoRowAssumption DEF Used
  <1>3. CASE UNCHANGED vars
    BY <1>1, <1>3 DEF vars, restOfState, rowVars
  <1>4. ASSUME NEW r \in Requests, Sweep(r) \/ Drop(r)
        PROVE  source' = source
    BY <1>4 DEF Sweep, Drop, List, SweepRow, SweepDropRow, SweepFolders, SweepFolder, SweepGoneFolder,
                SweepEnd, DeleteExport, DropFiles, DropRow, restOfState, rowVars
  <1>5. ASSUME NEW r \in Requests, Start(r), ~ReserveExport(r)
        PROVE  source' = source
    BY <1>5 DEF Start, StartExport, RefuseExport, SubmitExport, restOfState, rowVars
  <1>6. ASSUME WorkerStep
        PROVE  source' = source
    BY <1>6 DEF WorkerStep, Take, Look, ReadWorld, MakeFolder, Move, Report, rowVars
  <1>7. ASSUME ServerStep \/ Time \/ Restart
        PROVE  source' = source
    BY <1>7 DEF ServerStep, ServerAccepted, ServerChanges, ServerDeleted, serversRest, ForgetRows,
                ForgetFolder, Time, Expire, DayPasses, Restart, rowVars
  <1>8. QED BY <1>1, <1>2, <1>3, <1>4, <1>5, <1>6, <1>7 DEF Next

-----------------------------------------------------------------------------
(* The request threads                                                       *)

\* One thread gets a new record that is as it must be.
LEMMA OneThread ==
    ASSUME Threads, Used \subseteq Used', NEW r \in Requests, NEW q, NEW S, Thread(q, S), S \subseteq Used',
           requests' = [requests EXCEPT ![r] = q]
    PROVE  Threads'
  <1>1. requests \in [Requests -> RequestRecords] /\ q \in RequestRecords
    BY DEF Threads, Thread
  <1>2. requests' \in [Requests -> RequestRecords]
    BY <1>1
  <1>3. ASSUME NEW x \in Requests
        PROVE  Thread(requests'[x], Used')
    <2>1. requests'[x] = q \/ requests'[x] = requests[x]
      BY <1>1
    <2>2. Thread(q, Used')
      BY DEF Thread
    <2>3. Thread(requests[x], Used')
      BY DEF Thread, Threads
    <2>4. QED BY <2>1, <2>2, <2>3
  <1>4. QED BY <1>2, <1>3 DEF Threads

\* A thread that answers, and one that begins to sweep.
LEMMA IdleIsThread == Thread(Idle, Used)
  BY DEF Thread, Idle, RequestRecords, Exports

LEMMA ScannedIsThread ==
    ASSUME Inv, NEW q, Thread(q, Used)
    PROVE  Thread(Scanned(q), Used)
  <1>1. Rows \subseteq Used /\ Rows \subseteq Exports
    BY DEF Rows, Used, Inv, Table
  <1>2. q \in RequestRecords
    BY DEF Thread
  <1> DEFINE ended == {e \in Rows : rows[e] \in Ended}
  <1>3. Scanned(q) = [q EXCEPT !.pc = "sweep rows", !.todo = ended, !.old = ended \cap expired,
                               !.known = Rows \ ended]
    BY DEF Scanned
  <1>4. ended \subseteq Used /\ ended \subseteq Exports
    BY <1>1
  <1> HIDE DEF ended
  <1>5. Rows \ ended \subseteq Exports /\ ended \cap expired \subseteq Exports
    BY <1>1, <1>4
  <1>6. Scanned(q) \in RequestRecords
    BY <1>2, <1>3, <1>4, <1>5 DEF RequestRecords
  <1>7. /\ Scanned(q).pc = "sweep rows" /\ Scanned(q).todo = ended
        /\ Scanned(q).export = q.export /\ Scanned(q).create = q.create
        /\ Scanned(q).tenant = q.tenant /\ Scanned(q).name = q.name
    BY <1>2, <1>3 DEF RequestRecords
  <1>8. QED BY <1>4, <1>6, <1>7 DEF Thread

\* Every step keeps the threads' records as they must be.
LEMMA ThreadsStep ==
    ASSUME Inv, [Next]_vars
    PROVE  Threads'
  <1>1. Threads /\ Used \subseteq Used' /\ requests \in [Requests -> RequestRecords]
    BY UsedGrows DEF Inv, Threads
  <1>2. CASE requests' = requests
    <2>1. \A r \in Requests : Thread(requests[r], Used')
      BY <1>1 DEF Threads, Thread
    <2>2. QED BY <1>1, <1>2, <2>1 DEF Threads
  <1>3. CASE UNCHANGED vars
    BY <1>2, <1>3 DEF vars
  <1>4. ASSUME NEW r \in Requests, Answer(r)
        PROVE  Threads'
    BY <1>1, <1>4, OneThread, IdleIsThread DEF Answer
  <1>5. ASSUME NEW r \in Requests, Sweep(r)
        PROVE  Threads'
    <2> DEFINE q == requests[r]
    <2>1. Thread(q, Used) /\ q \in RequestRecords
      BY <1>1 DEF Threads
    <2>2. ASSUME NEW t \in Tenants, NEW n \in Names, List(r, t, n)
          PROVE  Threads'
      <3>1. requests' = [requests EXCEPT ![r] = Scanned(Idle)]
        BY <2>2 DEF List
      <3>2. Thread(Scanned(Idle), Used)
        BY ScannedIsThread, IdleIsThread
      <3>3. QED BY <1>1, <3>1, <3>2, OneThread
    <2>3. CASE SweepRow(r)
      <3>1. PICK e \in q.todo :
               \/ requests' = [requests EXCEPT ![r] = [q EXCEPT !.pc = "sweep drop", !.export = e,
                                                                !.todo = q.todo \ {e}]]
               \/ requests' = [requests EXCEPT ![r] = [q EXCEPT !.known = q.known \cup {e},
                                                                !.todo = q.todo \ {e}]]
        <4>1. PICK e \in q.todo :
                \/ requests' = [requests EXCEPT ![r].pc = "sweep drop", ![r].export = e,
                                                ![r].todo = @ \ {e}]
                \/ requests' = [requests EXCEPT ![r].known = @ \cup {e}, ![r].todo = @ \ {e}]
          BY <2>3 DEF SweepRow
        <4>2. QED BY <1>1, <4>1
      <3>2. q.pc = "sweep rows" /\ e \in Exports /\ e \in Used /\ e # 0
        <4>1. q.pc = "sweep rows"
          BY <2>3 DEF SweepRow
        <4>2. e \in Used /\ e \in Exports
          BY <2>1, <3>1 DEF Thread, Used
        <4>3. e # 0
          BY <4>2, ExportBoundAssumption DEF Exports
        <4>4. QED BY <4>1, <4>2, <4>3
      <3>3. Thread([q EXCEPT !.pc = "sweep drop", !.export = e, !.todo = q.todo \ {e}], Used)
        BY <2>1, <3>2 DEF Thread, RequestRecords
      <3>4. Thread([q EXCEPT !.known = q.known \cup {e}, !.todo = q.todo \ {e}], Used)
        BY <2>1, <3>2 DEF Thread, RequestRecords
      <3>5. QED BY <1>1, <3>1, <3>3, <3>4, OneThread
    <2>4. CASE SweepDropRow(r)
      <3>1. requests' = [requests EXCEPT ![r] = [q EXCEPT !.pc = "sweep rows", !.export = 0]]
        BY <1>1, <2>4 DEF SweepDropRow
      <3>2. Thread([q EXCEPT !.pc = "sweep rows", !.export = 0], Used)
        BY <2>1 DEF Thread, RequestRecords
      <3>3. QED BY <1>1, <3>1, <3>2, OneThread
    <2>5. CASE SweepFolders(r)
      <3>1. requests' = [requests EXCEPT ![r] = [q EXCEPT !.pc = "sweep dirs", !.visit = folders]]
        BY <1>1, <2>5 DEF SweepFolders
      <3>2. Thread([q EXCEPT !.pc = "sweep dirs", !.visit = folders], Used)
        BY <2>1 DEF Thread, RequestRecords, Inv, Rest
      <3>3. QED BY <1>1, <3>1, <3>2, OneThread
    <2>6. CASE SweepFolder(r) \/ SweepGoneFolder(r)
      <3>1. \/ Answer(r)
            \/ \E n \in Names : requests' = [requests EXCEPT ![r] = [q EXCEPT !.visit = q.visit \ {n}]]
        <4>1. \/ Answer(r)
              \/ \E n \in requests[r].visit : requests' = [requests EXCEPT ![r].visit = @ \ {n}]
          BY <2>6 DEF SweepFolder, SweepGoneFolder
        <4>2. q.visit \subseteq Names
          BY <2>1 DEF RequestRecords
        <4>3. QED BY <1>1, <4>1, <4>2
      <3>2. ASSUME NEW n \in Names
            PROVE  Thread([q EXCEPT !.visit = q.visit \ {n}], Used)
        BY <2>1 DEF Thread, RequestRecords
      <3>3. QED BY <1>1, <1>4, <3>1, <3>2, OneThread
    <2>7. CASE SweepEnd(r)
      BY <1>4, <2>7 DEF SweepEnd
    <2>8. QED BY <1>5, <2>2, <2>3, <2>4, <2>5, <2>6, <2>7 DEF Sweep
  <1>6. ASSUME NEW r \in Requests, Start(r)
        PROVE  Threads'
    <2>1. ASSUME NEW t \in Tenants, NEW n \in Names, NEW due \in BOOLEAN, StartExport(r, t, n, due)
          PROVE  Threads'
      <3> DEFINE q == [Idle EXCEPT !.pc = "reserve", !.create = TRUE, !.tenant = t, !.name = n,
                                   !.up = ledger[n].status = "ready"]
      <3>1. requests' = [requests EXCEPT ![r] = IF due THEN Scanned(q) ELSE q]
        BY <2>1 DEF StartExport
      <3>2. Thread(q, Used)
        BY DEF Thread, Idle, RequestRecords
      <3> HIDE DEF q
      <3>3. Thread(Scanned(q), Used)
        BY <3>2, ScannedIsThread
      <3>4. QED BY <1>1, <3>1, <3>2, <3>3, OneThread
    <2>2. CASE ReserveExport(r)
      <3> DEFINE x == NewExport
      <3>1. requests' = [requests EXCEPT ![r] = [Idle EXCEPT !.pc = "submit", !.export = x]]
            /\ x \in Exports
        BY <2>2 DEF ReserveExport
      <3>2. Table' /\ recent' = recent \cup {x}
        BY <2>2, TableReserves DEF Inv, ReserveExport
      <3>3. x \in Used'
        BY <3>2 DEF Table
      <3> HIDE DEF x
      <3>4. Thread([Idle EXCEPT !.pc = "submit", !.export = x], Used')
        <4>1. x # 0
          BY <3>1 DEF Exports
        <4>2. Idle \in RequestRecords /\ Idle.create = FALSE /\ Idle.todo = {}
          BY IdleIsThread DEF Thread, Idle
        <4>3. QED BY <3>1, <3>3, <4>1, <4>2 DEF Thread, RequestRecords
      <3>5. QED BY <1>1, <3>1, <3>4, OneThread
    <2>3. CASE RefuseExport(r) \/ SubmitExport(r)
      BY <1>4, <2>3 DEF RefuseExport, SubmitExport
    <2>4. QED BY <1>6, <2>1, <2>2, <2>3 DEF Start
  <1>7. ASSUME NEW r \in Requests, Drop(r)
        PROVE  Threads'
    <2> DEFINE q == requests[r]
    <2>1. Thread(q, Used) /\ q \in RequestRecords
      BY <1>1 DEF Threads
    <2>2. ASSUME NEW t \in Tenants, NEW n \in Names, NEW e \in Exports, DeleteExport(r, t, n, e)
          PROVE  Threads'
      <3>1. requests' = [requests EXCEPT ![r] = [q EXCEPT !.pc = "drop", !.export = e]]
        BY <1>1, <2>2 DEF DeleteExport
      <3>2. e \in Used /\ e # 0 /\ q.pc = "idle"
        BY <2>2 DEF DeleteExport, RowsOf, Rows, Used, Inv, Table, Exports
      <3>3. Thread([q EXCEPT !.pc = "drop", !.export = e], Used)
        BY <2>1, <3>2 DEF Thread, RequestRecords
      <3>4. QED BY <1>1, <3>1, <3>3, OneThread
    <2>3. CASE DropFiles(r)
      <3>1. requests' = [requests EXCEPT ![r] = [q EXCEPT !.pc = "drop row"]]
        BY <1>1, <2>3 DEF DropFiles
      <3>2. Thread([q EXCEPT !.pc = "drop row"], Used)
        BY <2>1, <2>3 DEF Thread, RequestRecords, DropFiles
      <3>3. QED BY <1>1, <3>1, <3>2, OneThread
    <2>4. CASE DropRow(r)
      BY <1>4, <2>4 DEF DropRow
    <2>5. QED BY <1>7, <2>2, <2>3, <2>4 DEF Drop
  <1>8. CASE WorkerStep
    BY <1>2, <1>8 DEF WorkerStep, Take, Look, ReadWorld, MakeFolder, Move, Report
  <1>9. CASE ServerStep \/ Time
    BY <1>2, <1>9 DEF ServerStep, ServerAccepted, ServerChanges, ServerDeleted, serversRest, ForgetRows,
                      ForgetFolder, Time, Expire, DayPasses
  <1>10. CASE Restart
    <2>1. requests' = [r \in Requests |-> Idle]
      BY <1>10 DEF Restart
    <2>2. Thread(Idle, Used) /\ Thread(Idle, Used')
      BY <1>1, IdleIsThread DEF Thread
    <2>3. requests' \in [Requests -> RequestRecords] /\ \A r \in Requests : requests'[r] = Idle
      BY <2>1, <2>2 DEF Thread
    <2>4. QED BY <2>2, <2>3 DEF Threads
  <1>11. QED BY <1>3, <1>5, <1>6, <1>7, <1>8, <1>9, <1>10 DEF Next

-----------------------------------------------------------------------------
(* The queue, the worker and the hooks                                       *)

\* Every step keeps them as they must be.
LEMMA RestStep ==
    ASSUME Inv, [Next]_vars
    PROVE  Rest'
  <1>1. Rest /\ Used \subseteq Used' /\ Used \subseteq Exports
    BY UsedGrows DEF Inv, Used
  <1>2. ASSUME UNCHANGED <<lives, queue, worker, hooks>>, folders' \subseteq folders
        PROVE  Rest'
    BY <1>1, <1>2 DEF Rest, At
  <1>3. CASE UNCHANGED vars
    BY <1>2, <1>3 DEF vars, restOfState, serverVars, fileVars
  <1>4. ASSUME NEW r \in Requests, Sweep(r) \/ Drop(r)
        PROVE  Rest'
    <2>1. CASE SweepFolder(r)
      BY <1>2, <2>1 DEF SweepFolder, serverVars
    <2>2. CASE ~SweepFolder(r)
      BY <1>2, <1>4, <2>2 DEF Sweep, Drop, List, SweepRow, SweepDropRow, SweepFolders, SweepGoneFolder,
            SweepEnd, DeleteExport, DropFiles, DropRow, restOfState, serverVars, fileVars
    <2>3. QED BY <2>1, <2>2
  <1>5. ASSUME NEW r \in Requests, Start(r)
        PROVE  Rest'
    <2>1. CASE SubmitExport(r)
      <3> DEFINE x == requests[r].export
      <3>1. queue' = Append(queue, x) /\ UNCHANGED <<lives, worker, hooks, folders>>
        BY <2>1 DEF SubmitExport, serverVars, fileVars
      <3>2. x \in Used
        BY <2>1 DEF SubmitExport, Inv, Threads, Thread
      <3> HIDE DEF x
      <3>3. queue' \in Seq(Exports) /\ \A i \in DOMAIN queue' : queue'[i] \in Used'
        BY <1>1, <3>1, <3>2 DEF Rest
      <3>4. QED BY <1>1, <3>1, <3>3 DEF Rest, At
    <2>2. CASE ~SubmitExport(r)
      BY <1>2, <1>5, <2>2 DEF Start, StartExport, RefuseExport, ReserveExport, restOfState, serverVars,
            fileVars
    <2>3. QED BY <2>1, <2>2
  <1>6. CASE Take
    <2>1. queue # <<>> /\ queue' = Tail(queue) /\ UNCHANGED <<lives, hooks, folders>> /\ worker.pc = "idle"
          /\ \/ worker' = worker
             \/ worker' = [pc |-> "look", export |-> Head(queue)]
      BY <1>6 DEF Take, At, serverVars, fileVars
    <2>2. queue \in Seq(Exports) /\ \A i \in DOMAIN queue : queue[i] \in Used
      BY <1>1 DEF Rest
    <2>3. queue' \in Seq(Exports) /\ \A i \in DOMAIN queue' : queue'[i] \in Used'
      BY <1>1, <2>1, <2>2
    <2>4. Head(queue) \in Used /\ Head(queue) # 0 /\ Head(queue) \in Exports
      BY <1>1, <2>1, <2>2, ExportBoundAssumption DEF Exports
    <2>5. QED BY <1>1, <2>1, <2>3, <2>4 DEF Rest, At, WorkerPcs
  <1>7. CASE Look \/ ReadWorld \/ MakeFolder \/ Move \/ Report
    <2>1. UNCHANGED <<lives, queue, hooks>>
      BY <1>7 DEF Look, ReadWorld, MakeFolder, Move, Report, serverVars
    <2>2. folders' \subseteq Names
      <3>1. CASE MakeFolder
        <4>1. worker.export \in Used
          BY <1>1, <3>1 DEF Rest, MakeFolder, At
        <4>2. source[worker.export].server \in Names
          BY <4>1 DEF Inv, Table, Used
        <4>3. QED BY <1>1, <3>1, <4>2 DEF MakeFolder, Rest
      <3>2. CASE ~MakeFolder
        BY <1>1, <1>7, <3>2 DEF Rest, Look, ReadWorld, Move, Report, fileVars
      <3>3. QED BY <3>1, <3>2
    <2>3. \/ worker' = Resting
          \/ worker.pc # "idle" /\ \E pc \in WorkerPcs \ {"idle"} : worker' = [worker EXCEPT !.pc = pc]
      BY <1>7 DEF Look, ReadWorld, MakeFolder, Move, Report, Fail, To, At, WorkerPcs
    <2>4. QED BY <1>1, <2>1, <2>2, <2>3 DEF Rest, At, Resting, WorkerPcs
  <1>8. CASE ServerStep
    <2>1. ASSUME NEW t \in Tenants, NEW n \in Names, ServerAccepted(t, n)
          PROVE  Rest'
      <3>1. lives' \in 0 .. MaxLives /\ 0 .. lives \subseteq 0 .. MaxLives
        BY <1>1, <2>1, ExportBoundAssumption DEF ServerAccepted, Rest
      <3>2. QED BY <1>1, <2>1, <3>1 DEF ServerAccepted, serversRest, fileVars, Rest, At
    <2>2. ASSUME NEW n \in Names, ServerChanges(n)
          PROVE  Rest'
      BY <1>2, <2>2 DEF ServerChanges, serversRest, fileVars
    <2>3. ASSUME NEW n \in Names, ServerDeleted(n)
          PROVE  Rest'
      BY <1>1, <2>3 DEF ServerDeleted, serversRest, fileVars, Rest, At
    <2>4. ASSUME NEW h \in hooks, ForgetRows(h) \/ ForgetFolder(h)
          PROVE  Rest'
      <3>1. hooks' \subseteq [name : Names, pc : {"rows", "dirs"}, life : 0 .. MaxLives]
        BY <1>1, <2>4 DEF ForgetRows, ForgetFolder, Rest
      <3>2. UNCHANGED <<lives, queue, worker>> /\ folders' \subseteq folders
        BY <2>4 DEF ForgetRows, ForgetFolder, serverVars, fileVars
      <3>3. QED BY <1>1, <3>1, <3>2 DEF Rest, At
    <2>5. QED BY <1>8, <2>1, <2>2, <2>3, <2>4 DEF ServerStep
  <1>9. CASE Time
    BY <1>2, <1>9 DEF Time, Expire, DayPasses, serverVars, fileVars
  <1>10. CASE Restart
    <2>1. lives' = lives /\ folders' \subseteq folders /\ queue' = <<>> /\ worker' = Resting /\ hooks' = {}
      BY <1>10 DEF Restart
    <2>2. QED BY <1>1, <2>1 DEF Rest, At, Resting, WorkerPcs
  <1>11. QED BY <1>3, <1>4, <1>5, <1>6, <1>7, <1>8, <1>9, <1>10 DEF Next, WorkerStep

-----------------------------------------------------------------------------
(* Who works on the active rows                                              *)

\* A step that makes no row active, and leaves those who work on them at it.
LEMMA WorkedStays ==
    ASSUME Worked,
           \A e \in Exports : rows'[e] = "queued" =>
               rows[e] = "queued" /\ (Submits(e) \/ Queued(e) => Submits(e)' \/ Queued(e)'),
           \A e \in Exports : rows'[e] = "running" =>
               rows[e] = "running" /\ (worker.export = e => worker'.export = e)
    PROVE  Worked'
  BY DEF Worked

\* As long as one thread that is not about to submit moves, the others are.
LEMMA SubmitsStay ==
    ASSUME NEW r \in Requests, requests[r].pc # "submit",
           \A x \in Requests \ {r} : requests'[x] = requests[x], NEW e, Submits(e)
    PROVE  Submits(e)'
  BY DEF Submits

\* Every step leaves somebody to end each active row.
LEMMA WorkedStep ==
    ASSUME Inv, [Next]_vars
    PROVE  Worked'
  <1>1. /\ Worked /\ requests \in [Requests -> RequestRecords]
        /\ rows \in [Exports -> {"none"} \cup Active \cup Ended]
        /\ queue \in Seq(Exports) /\ (At("idle") <=> worker.export = 0)
        /\ worker \in [pc : WorkerPcs, export : Exports \cup {0}]
        /\ \A e \in Exports : e # 0
    BY ExportBoundAssumption DEF Inv, Threads, Table, Rest, Exports
  <1>2. ASSUME \A e \in Exports : rows'[e] \in Active => rows'[e] = rows[e],
               requests' = requests, queue' = queue, worker'.export = worker.export
        PROVE  Worked'
    BY <1>1, <1>2, WorkedStays DEF Submits, Queued, Active
  <1>3. ASSUME NEW r \in Requests, requests[r].pc # "submit",
               \A x \in Requests \ {r} : requests'[x] = requests[x],
               \A e \in Exports : rows'[e] \in Active => rows'[e] = rows[e],
               queue' = queue, worker' = worker
        PROVE  Worked'
    <2>1. \A e \in Exports : Submits(e) \/ Queued(e) => Submits(e)' \/ Queued(e)'
      BY <1>3, SubmitsStay DEF Queued
    <2>2. QED BY <1>1, <1>3, <2>1, WorkedStays DEF Active
  <1>4. CASE UNCHANGED vars
    BY <1>1, <1>2, <1>4 DEF vars, restOfState, rowVars
  <1>5. ASSUME NEW r \in Requests, Sweep(r) \/ Drop(r)
        PROVE  Worked'
    <2>1. requests[r].pc # "submit"
      BY <1>5 DEF Sweep, Drop, List, SweepRow, SweepDropRow, SweepFolders, SweepFolder,
            SweepGoneFolder, SweepEnd, DeleteExport, DropFiles, DropRow, Swept
    <2>2. \A x \in Requests \ {r} : requests'[x] = requests[x]
      BY <1>1, <1>5 DEF Sweep, Drop, List, SweepRow, SweepDropRow, SweepFolders, SweepFolder,
            SweepGoneFolder, SweepEnd, DeleteExport, DropFiles, DropRow, Answer
    <2>3. \/ rows' = rows
          \/ \E e \in Exports \cup {0} : rows' = [rows EXCEPT ![e] = "none"]
      <3>1. requests[r].export \in Exports \cup {0}
        BY <1>1 DEF RequestRecords
      <3>2. QED
        BY <1>5, <3>1 DEF Sweep, Drop, List, SweepRow, SweepDropRow, SweepFolders, SweepFolder,
            SweepGoneFolder, SweepEnd, DeleteExport, DropFiles, DropRow, restOfState, rowVars
    <2>4. \A e \in Exports : rows'[e] \in Active => rows'[e] = rows[e]
      BY <1>1, <2>3 DEF Active
    <2>5. queue' = queue /\ worker' = worker
      BY <1>5 DEF Sweep, Drop, List, SweepRow, SweepDropRow, SweepFolders, SweepFolder,
            SweepGoneFolder, SweepEnd, DeleteExport, DropFiles, DropRow, restOfState
    <2>6. QED BY <1>3, <2>1, <2>2, <2>4, <2>5
  <1>6. ASSUME NEW r \in Requests, Start(r)
        PROVE  Worked'
    <2>1. ASSUME \/ \E t \in Tenants, n \in Names, due \in BOOLEAN : StartExport(r, t, n, due)
                 \/ RefuseExport(r)
          PROVE  Worked'
      <3>1. requests[r].pc # "submit" /\ \A x \in Requests \ {r} : requests'[x] = requests[x]
        BY <1>1, <2>1 DEF StartExport, RefuseExport, AtReserve, Swept, Answer
      <3>2. rows' = rows /\ queue' = queue /\ worker' = worker
        BY <2>1 DEF StartExport, RefuseExport, restOfState, rowVars
      <3>3. QED BY <1>3, <3>1, <3>2
    <2>2. CASE ReserveExport(r)
      <3>0. PICK x \in Exports : x = NewExport
        BY <2>2 DEF ReserveExport
      <3>1. /\ rows' = [rows EXCEPT ![x] = "queued"]
            /\ requests' = [requests EXCEPT ![r] = [Idle EXCEPT !.pc = "submit", !.export = x]]
            /\ queue' = queue /\ worker' = worker /\ requests[r].pc # "submit"
        BY <2>2, <3>0 DEF ReserveExport, AtReserve, Swept
      <3>2. \A y \in Requests \ {r} : requests'[y] = requests[y]
        BY <1>1, <3>1
      <3>3. \A e \in Exports : Submits(e) \/ Queued(e) => Submits(e)' \/ Queued(e)'
        BY <3>1, <3>2, SubmitsStay DEF Queued
      <3>4. Submits(x)'
        <4>1. requests'[r].pc = "submit" /\ requests'[r].export = x
          BY <1>1, <3>1 DEF Idle
        <4>2. QED BY <4>1 DEF Submits
      <3>5. QED BY <1>1, <3>1, <3>3, <3>4 DEF Worked
    <2>3. CASE SubmitExport(r)
      <3> DEFINE x == requests[r].export
      <3>1. /\ queue' = Append(queue, x) /\ requests' = [requests EXCEPT ![r] = Idle]
            /\ rows' = rows /\ worker' = worker
        BY <2>3 DEF SubmitExport, Answer, rowVars
      <3>2. x \in Exports
        BY <2>3 DEF SubmitExport, Inv, Threads, Thread, RequestRecords
      <3>3. ASSUME NEW e \in Exports, Submits(e)
            PROVE  Submits(e)' \/ Queued(e)'
        <4>1. PICK y \in Requests : requests[y].pc = "submit" /\ requests[y].export = e
          BY <3>3 DEF Submits
        <4>2. CASE y = r
          <5>1. Len(queue) + 1 \in DOMAIN queue' /\ queue'[Len(queue) + 1] = e
            BY <1>1, <3>1, <3>2, <4>1, <4>2
          <5>2. QED BY <5>1 DEF Queued
        <4>3. CASE y # r
          BY <1>1, <3>1, <4>1, <4>3 DEF Submits
        <4>4. QED BY <4>2, <4>3
      <3>4. ASSUME NEW e \in Exports, Queued(e)
            PROVE  Queued(e)'
        <4>1. PICK i \in DOMAIN queue : queue[i] = e
          BY <3>4 DEF Queued
        <4>2. i \in DOMAIN queue' /\ queue'[i] = e
          BY <1>1, <3>1, <3>2, <4>1
        <4>3. QED BY <4>2 DEF Queued
      <3>5. QED BY <1>1, <3>1, <3>3, <3>4, WorkedStays
    <2>4. QED BY <1>6, <2>1, <2>2, <2>3 DEF Start
  <1>7. CASE Take
    <2> DEFINE x == Head(queue)
    <2>1. queue # <<>> /\ queue' = Tail(queue) /\ requests' = requests /\ worker.export = 0
      BY <1>1, <1>7 DEF Take
    <2>2. x \in Exports
      BY <1>1, <2>1
    <2>3. ASSUME NEW e \in Exports, e # x, Queued(e)
          PROVE  Queued(e)'
      <3>1. PICK i \in DOMAIN queue : queue[i] = e
        BY <2>3 DEF Queued
      <3>2. i # 1 /\ i - 1 \in DOMAIN queue' /\ queue'[i - 1] = e
        BY <1>1, <2>1, <2>3, <3>1
      <3>3. QED BY <3>2 DEF Queued
    <2>4. \A e \in Exports : rows[e] # "running"
      BY <1>1, <2>1 DEF Worked
    <2>5. CASE rows[x] = "queued"
      <3>1. rows' = [rows EXCEPT ![x] = "running"] /\ worker'.export = x
        BY <1>7, <2>5 DEF Take
      <3> HIDE DEF x
      <3>2. QED BY <1>1, <2>1, <2>2, <2>3, <2>4, <3>1 DEF Worked, Submits
    <2>6. CASE rows[x] # "queued"
      <3>1. rows' = rows /\ worker' = worker
        BY <1>7, <2>6 DEF Take
      <3> HIDE DEF x
      <3>2. QED BY <1>1, <2>1, <2>3, <2>6, <3>1 DEF Worked, Submits
    <2>7. QED BY <2>5, <2>6
  <1>8. CASE Look \/ ReadWorld \/ MakeFolder \/ Move \/ Report
    <2>1. requests' = requests /\ queue' = queue
      BY <1>8 DEF Look, ReadWorld, MakeFolder, Move, Report
    <2>2. \/ rows' = rows /\ worker'.export = worker.export
          \/ /\ \E status \in {"ready", "failed"} : rows' = SetStatus(worker.export, status)
             /\ worker' = Resting
      BY <1>1, <1>8 DEF Look, ReadWorld, MakeFolder, Move, Report, Fail, To, rowVars
    <2>3. CASE rows' = rows /\ worker'.export = worker.export
      BY <1>2, <2>1, <2>3
    <2>4. ASSUME NEW status \in {"ready", "failed"}, rows' = SetStatus(worker.export, status)
          PROVE  Worked'
      <3>1. \A e \in Exports : rows'[e] \in Active => rows'[e] = rows[e] /\ e # worker.export
        BY <1>1, <2>4 DEF SetStatus, Rows, Active
      <3>2. \A e \in Exports : rows'[e] # "running"
        BY <1>1, <3>1 DEF Worked, Active
      <3>3. QED BY <1>1, <2>1, <3>1, <3>2, WorkedStays DEF Submits, Queued, Active
    <2>5. QED BY <2>2, <2>3, <2>4
  <1>9. CASE ServerStep
    <2>1. requests' = requests /\ queue' = queue /\ worker' = worker
      BY <1>9 DEF ServerStep, ServerAccepted, ServerChanges, ServerDeleted, serversRest, ForgetRows,
                  ForgetFolder
    <2>2. \A e \in Exports : rows'[e] \in Active => rows'[e] = rows[e]
      BY <1>1, <1>9 DEF ServerStep, ServerAccepted, ServerChanges, ServerDeleted, serversRest,
                  ForgetRows, ForgetFolder, rowVars, Active
    <2>3. QED BY <1>2, <2>1, <2>2
  <1>10. CASE Time
    BY <1>2, <1>10 DEF Time, Expire, DayPasses
  <1>11. CASE Restart
    <2>1. \A e \in Exports : rows'[e] \in {"none", Interrupted(e)}
      BY <1>11 DEF Restart
    <2>2. \A e \in Exports : rows'[e] \notin Active
      BY <1>1, <2>1 DEF Interrupted, Active, Ended
    <2>3. QED BY <2>2 DEF Worked, Active
  <1>12. QED BY <1>4, <1>5, <1>6, <1>7, <1>8, <1>9, <1>10, <1>11 DEF Next, WorkerStep

-----------------------------------------------------------------------------
(* What keeps its files                                                      *)

\* A step that lets no more exports stay, publishes before it reports, and
\* removes nothing that stays.
LEMMA KeptStays ==
    ASSUME Kept, Staying' \subseteq Staying, source' = source,
           \A e \in Staying' : rows'[e] = "ready" =>
               rows[e] = "ready" \/ (At("report") /\ e = worker.export),
           Staying' \cap published \subseteq published',
           worker'.pc = "report" => worker' = worker \/ worker'.export \in published',
           \A r \in Requests : Spares(requests'[r], Staying', source),
           \A h \in hooks' : h.pc = "dirs" =>
               h \in hooks \/ \A e \in Staying' : source[e].server # h.name
    PROVE  Kept'
  <1>0. \A r \in Requests : Spares(requests'[r], Staying', source')
    OBVIOUS
  <1>1. \A e \in Staying' : rows'[e] = "ready" => e \in published'
    BY DEF Kept
  <1>2. worker'.pc = "report" /\ worker'.export \in Staying' => worker'.export \in published'
    BY DEF Kept, At
  <1>3. \A h \in hooks' : h.pc = "dirs" => \A e \in Staying' : source'[e].server # h.name
    BY DEF Kept
  <1>4. QED BY <1>0, <1>1, <1>2, <1>3 DEF Kept, At

\* What no thread knew more of before, none need know more of now.
LEMMA SparesLess ==
    ASSUME NEW q, NEW S, NEW T, NEW from, Spares(q, S, from), T \subseteq S
    PROVE  Spares(q, T, from)
  BY DEF Spares

\* The exports that stay are fewer when rows go and more is set out to be removed.
LEMMA FewerStay ==
    ASSUME \A e \in Exports : rows'[e] # "none" => rows[e] # "none",
           history.removed \subseteq history'.removed, history.raced \subseteq history'.raced
    PROVE  Staying' \subseteq Staying
  BY DEF Staying, Rows, Gone

\* Steps of one thread.
LEMMA OneSpares ==
    ASSUME Kept, Staying' \subseteq Staying, NEW r \in Requests,
           \A x \in Requests \ {r} : requests'[x] = requests[x], Spares(requests'[r], Staying', source)
    PROVE  \A x \in Requests : Spares(requests'[x], Staying', source)
  BY SparesLess DEF Kept

\* Every step keeps the files of what must stay.
LEMMA KeptStep ==
    ASSUME Inv, [Next]_vars
    PROVE  Kept'
  <1>1. /\ Kept /\ requests \in [Requests -> RequestRecords]
        /\ rows \in [Exports -> {"none"} \cup Active \cup Ended]
        /\ history \in [removed : SUBSET Exports, raced : SUBSET Exports]
        /\ worker \in [pc : WorkerPcs, export : Exports \cup {0}]
        /\ Staying \subseteq Exports
    BY DEF Inv, Threads, Table, Rest, Staying, Rows
  <1>2. ASSUME \A e \in Exports : rows'[e] # "none" => rows[e] # "none",
               history.removed \subseteq history'.removed, history.raced \subseteq history'.raced,
               \A e \in Exports : rows'[e] = "ready" =>
                   rows[e] = "ready" \/ (At("report") /\ e = worker.export),
               source' = source, Staying' \cap published \subseteq published',
               worker'.pc = "report" => worker' = worker \/ worker'.export \in published',
               hooks' = hooks, requests' = requests
        PROVE  Kept'
    <2>1. Staying' \subseteq Staying
      BY <1>2, FewerStay
    <2>2. \A r \in Requests : Spares(requests'[r], Staying', source)
      BY <1>1, <1>2, <2>1, SparesLess DEF Kept
    <2>3. QED BY <1>1, <1>2, <2>1, <2>2, KeptStays
  <1>3. ASSUME NEW r \in Requests, \A x \in Requests \ {r} : requests'[x] = requests[x],
               \A e \in Exports : rows'[e] # "none" => rows[e] # "none",
               \A e \in Exports : rows'[e] = "ready" => rows[e] = "ready",
               history.removed \subseteq history'.removed, history.raced \subseteq history'.raced,
               source' = source, worker' = worker, hooks' = hooks,
               Staying' \cap published \subseteq published',
               Staying' \subseteq Staying => Spares(requests'[r], Staying', source)
        PROVE  Kept'
    <2>1. Staying' \subseteq Staying
      BY <1>3, FewerStay
    <2>2. \A x \in Requests : Spares(requests'[x], Staying', source)
      BY <1>1, <1>3, <2>1, OneSpares
    <2>3. QED BY <1>1, <1>3, <2>1, <2>2, KeptStays
  <1>4. CASE UNCHANGED vars
    BY <1>1, <1>2, <1>4 DEF vars, restOfState, rowVars, fileVars
  <1>5. ASSUME NEW r \in Requests, requests'[r].pc \notin {"sweep rows", "sweep drop", "sweep dirs"},
               \A x \in Requests \ {r} : requests'[x] = requests[x],
               UNCHANGED <<rows, history, source, worker, hooks, published>>
        PROVE  Kept'
    BY <1>3, <1>5 DEF Spares
  <1>6. ASSUME NEW r \in Requests, NEW q \in RequestRecords,
               requests' = [requests EXCEPT ![r] = Scanned(q)],
               UNCHANGED <<rows, history, source, worker, hooks, published>>
        PROVE  Kept'
    <2>1. \A x \in Requests \ {r} : requests'[x] = requests[x]
      BY <1>1, <1>6
    <2>2. requests'[r] = Scanned(q)
      BY <1>1, <1>6
    <2>3. /\ Scanned(q).pc = "sweep rows"
          /\ Scanned(q).known \cup Scanned(q).todo = Rows
      BY <1>6 DEF Scanned, RequestRecords
    <2>4. Staying' \subseteq Rows
      BY <1>6 DEF Staying, Rows
    <2>5. Spares(requests'[r], Staying', source)
      BY <2>2, <2>3, <2>4 DEF Spares
    <2>6. QED BY <1>3, <1>6, <2>1, <2>5
  <1>7. ASSUME NEW r \in Requests, Sweep(r)
        PROVE  Kept'
    <2> DEFINE q == requests[r]
    <2>1. q \in RequestRecords /\ Spares(q, Staying, source)
      BY <1>1 DEF Kept
    <2>2. ASSUME NEW t \in Tenants, NEW n \in Names, List(r, t, n)
          PROVE  Kept'
      <3>1. Idle \in RequestRecords
        BY IdleIsThread DEF Thread
      <3>2. QED BY <1>6, <2>2, <3>1 DEF List, restOfState, rowVars, fileVars
    <2>3. CASE SweepRow(r)
      <3>1. q.pc = "sweep rows" /\ UNCHANGED <<rows, source, worker, hooks>>
        BY <2>3 DEF SweepRow, rowVars
      <3>2. PICK e \in q.todo :
               \/ /\ requests' = [requests EXCEPT ![r].pc = "sweep drop", ![r].export = e,
                                                  ![r].todo = @ \ {e}]
                  /\ published' = published \ {e}
                  /\ history' = [history EXCEPT !.removed = @ \cup {e}]
               \/ /\ requests' = [requests EXCEPT ![r].known = @ \cup {e}, ![r].todo = @ \ {e}]
                  /\ UNCHANGED <<published, history>>
        BY <2>3 DEF SweepRow
      <3>3. \A x \in Requests \ {r} : requests'[x] = requests[x]
        BY <1>1, <3>2
      <3>4. CASE /\ requests' = [requests EXCEPT ![r].pc = "sweep drop", ![r].export = e,
                                                 ![r].todo = @ \ {e}]
                 /\ published' = published \ {e}
                 /\ history' = [history EXCEPT !.removed = @ \cup {e}]
        <4>1. history'.removed = history.removed \cup {e} /\ history'.raced = history.raced
          BY <1>1, <3>4
        <4>2. e \notin Staying'
          BY <4>1 DEF Staying, Gone
        <4>3. /\ requests'[r].pc = "sweep drop" /\ requests'[r].known = q.known
              /\ requests'[r].todo = q.todo \ {e}
          BY <1>1, <2>1, <3>4 DEF RequestRecords
        <4>4. Staying' \subseteq Staying => Spares(requests'[r], Staying', source)
          BY <2>1, <3>1, <4>2, <4>3 DEF Spares
        <4>5. Staying' \cap published \subseteq published'
          BY <3>4, <4>2
        <4>6. QED BY <1>3, <3>1, <3>3, <4>1, <4>4, <4>5
      <3>5. CASE /\ requests' = [requests EXCEPT ![r].known = @ \cup {e}, ![r].todo = @ \ {e}]
                 /\ UNCHANGED <<published, history>>
        <4>1. /\ requests'[r].pc = q.pc /\ requests'[r].known = q.known \cup {e}
              /\ requests'[r].todo = q.todo \ {e}
          BY <1>1, <2>1, <3>5 DEF RequestRecords
        <4>2. Staying' \subseteq Staying => Spares(requests'[r], Staying', source)
          BY <2>1, <3>1, <4>1 DEF Spares
        <4>3. QED BY <1>3, <3>1, <3>3, <3>5, <4>2
      <3>6. QED BY <3>2, <3>4, <3>5
    <2>4. CASE SweepDropRow(r)
      <3>1. /\ q.pc = "sweep drop" /\ UNCHANGED <<source, worker, hooks, published, history>>
            /\ rows' = [rows EXCEPT ![q.export] = "none"]
            /\ requests' = [requests EXCEPT ![r].pc = "sweep rows", ![r].export = 0]
        BY <2>4 DEF SweepDropRow, fileVars
      <3>2. /\ \A x \in Requests \ {r} : requests'[x] = requests[x]
            /\ \A e \in Exports : rows'[e] # "none" => rows[e] # "none"
            /\ \A e \in Exports : rows'[e] = "ready" => rows[e] = "ready"
        BY <1>1, <3>1
      <3>3. /\ requests'[r].pc = "sweep rows" /\ requests'[r].known = q.known
            /\ requests'[r].todo = q.todo
        BY <1>1, <2>1, <3>1 DEF RequestRecords
      <3>4. Staying' \subseteq Staying => Spares(requests'[r], Staying', source)
        BY <2>1, <3>1, <3>3 DEF Spares
      <3>5. QED BY <1>3, <3>1, <3>2, <3>4
    <2>5. CASE SweepFolders(r)
      <3>1. /\ q.pc = "sweep rows" /\ q.todo = {} /\ UNCHANGED <<rows, source, worker, hooks, published, history>>
            /\ requests' = [requests EXCEPT ![r].pc = "sweep dirs", ![r].visit = folders]
        BY <2>5 DEF SweepFolders, restOfState, rowVars, fileVars
      <3>2. /\ \A x \in Requests \ {r} : requests'[x] = requests[x]
            /\ requests'[r].pc = "sweep dirs" /\ requests'[r].known = q.known
        BY <1>1, <2>1, <3>1 DEF RequestRecords
      <3>3. Staying' \subseteq Staying => Spares(requests'[r], Staying', source)
        BY <2>1, <3>1, <3>2 DEF Spares
      <3>4. QED BY <1>3, <3>1, <3>2, <3>3
    <2>6. CASE SweepFolder(r)
      <3>1. PICK n \in q.visit :
               /\ published' = published \ Unknown(r, n)
               /\ requests' = [requests EXCEPT ![r].visit = @ \ {n}]
        BY <2>6 DEF SweepFolder
      <3>2. q.pc = "sweep dirs" /\ UNCHANGED <<rows, source, worker, hooks, history>>
        BY <2>6 DEF SweepFolder, rowVars
      <3>3. \A e \in Staying : source[e].server \in q.visit => e \in q.known
        BY <2>1, <3>2 DEF Spares
      <3>4. Staying' = Staying
        BY <3>2 DEF Staying, Rows, Gone
      <3>5. Staying' \cap published \subseteq published'
        BY <3>1, <3>3, <3>4 DEF Unknown
      <3>6. /\ \A x \in Requests \ {r} : requests'[x] = requests[x]
            /\ requests'[r].pc = "sweep dirs" /\ requests'[r].known = q.known
            /\ requests'[r].visit \subseteq q.visit
        BY <1>1, <2>1, <3>1, <3>2 DEF RequestRecords
      <3>7. Spares(requests'[r], Staying', source)
        BY <3>3, <3>4, <3>6 DEF Spares
      <3>8. QED BY <1>3, <3>2, <3>5, <3>6, <3>7
    <2>7. CASE SweepGoneFolder(r)
      <3>1. /\ q.pc = "sweep dirs" /\ UNCHANGED <<rows, source, worker, hooks, published, history>>
            /\ \/ Answer(r)
               \/ \E n \in q.visit : requests' = [requests EXCEPT ![r].visit = @ \ {n}]
        BY <2>7 DEF SweepGoneFolder, restOfState, rowVars, fileVars
      <3>2. CASE Answer(r)
        <4>1. requests'[r].pc = "idle" /\ \A x \in Requests \ {r} : requests'[x] = requests[x]
          BY <1>1, <3>2 DEF Answer, Idle
        <4>2. QED BY <1>5, <3>1, <4>1
      <3>3. ASSUME NEW n \in q.visit, requests' = [requests EXCEPT ![r].visit = @ \ {n}]
            PROVE  Kept'
        <4>1. /\ \A x \in Requests \ {r} : requests'[x] = requests[x]
              /\ requests'[r].pc = "sweep dirs" /\ requests'[r].known = q.known
              /\ requests'[r].visit \subseteq q.visit
          BY <1>1, <2>1, <3>1, <3>3 DEF RequestRecords
        <4>2. Staying' \subseteq Staying => Spares(requests'[r], Staying', source)
          BY <2>1, <3>1, <3>3, <4>1 DEF Spares
        <4>3. QED BY <1>3, <3>1, <4>1, <4>2
      <3>4. QED BY <3>1, <3>2, <3>3
    <2>8. CASE SweepEnd(r)
      <3>1. requests'[r].pc = "idle" /\ \A x \in Requests \ {r} : requests'[x] = requests[x]
        BY <1>1, <2>8 DEF SweepEnd, Answer, Idle
      <3>2. QED BY <1>5, <2>8, <3>1 DEF SweepEnd, restOfState, rowVars, fileVars
    <2>9. QED BY <1>7, <2>2, <2>3, <2>4, <2>5, <2>6, <2>7, <2>8 DEF Sweep
  <1>8. ASSUME NEW r \in Requests, Start(r)
        PROVE  Kept'
    <2>1. ASSUME NEW t \in Tenants, NEW n \in Names, NEW due \in BOOLEAN, StartExport(r, t, n, due)
          PROVE  Kept'
      <3> DEFINE q == [Idle EXCEPT !.pc = "reserve", !.create = TRUE, !.tenant = t, !.name = n,
                                   !.up = ledger[n].status = "ready"]
      <3>1. /\ requests' = [requests EXCEPT ![r] = IF due THEN Scanned(q) ELSE q]
            /\ UNCHANGED <<rows, history, source, worker, hooks, published>>
        BY <2>1 DEF StartExport, restOfState, rowVars, fileVars
      <3>2. q \in RequestRecords /\ q.pc = "reserve"
        <4>1. Idle \in RequestRecords
          BY IdleIsThread DEF Thread
        <4>2. QED BY <4>1 DEF RequestRecords
      <3> HIDE DEF q
      <3>3. CASE due
        BY <1>6, <3>1, <3>2, <3>3
      <3>4. CASE ~due
        <4>1. requests'[r] = q /\ \A x \in Requests \ {r} : requests'[x] = requests[x]
          BY <1>1, <3>1, <3>4
        <4>2. QED BY <1>5, <3>1, <3>2, <4>1
      <3>5. QED BY <3>3, <3>4
    <2>2. CASE RefuseExport(r) \/ SubmitExport(r)
      <3>1. requests'[r].pc = "idle" /\ \A x \in Requests \ {r} : requests'[x] = requests[x]
        BY <1>1, <2>2 DEF RefuseExport, SubmitExport, Answer, Idle
      <3>2. QED BY <1>5, <2>2, <3>1 DEF RefuseExport, SubmitExport, restOfState, rowVars, fileVars
    <2>3. CASE ReserveExport(r)
      <3> DEFINE n == requests[r].name
      <3>0. PICK x \in Exports : x = NewExport
        BY <2>3 DEF ReserveExport
      <3>1. /\ rows' = [rows EXCEPT ![x] = "queued"]
            /\ requests' = [requests EXCEPT ![r] = [Idle EXCEPT !.pc = "submit", !.export = x]]
            /\ history' = IF Removing(n) THEN [history EXCEPT !.raced = @ \cup {x}] ELSE history
            /\ hooks' = hooks /\ worker' = worker /\ published' = published
            /\ source' = [source EXCEPT ![x] = [server |-> n, tenant |-> requests[r].tenant]]
        BY <2>3, <3>0 DEF ReserveExport, fileVars
      <3>2. x \notin Used /\ rows[x] = "none"
        BY <2>3, <3>0, NewIsNew DEF Inv, ReserveExport
      <3>3. \A y \in Requests \ {r} : requests'[y] = requests[y]
        BY <1>1, <3>1
      <3>4. requests'[r].pc = "submit"
        BY <1>1, <3>1 DEF Idle
      <3>5. Staying' \subseteq Staying \cup {x} /\ x \notin Staying
        <4>1. history.removed \subseteq history'.removed /\ history.raced \subseteq history'.raced
          BY <1>1, <3>1
        <4>2. \A e \in Exports : e # x => rows'[e] = rows[e]
          BY <1>1, <3>1
        <4>3. QED BY <3>2, <4>1, <4>2 DEF Staying, Rows, Gone
      <3>6. \A e \in Exports : rows'[e] = "ready" => rows[e] = "ready" /\ e # x
        BY <1>1, <3>1
      <3>7. worker.export # x
        BY <3>2, ExportBoundAssumption DEF Inv, Rest, Exports
      <3>8. source \in [Exports -> [server : Names, tenant : Tenants] \cup {None}]
        BY DEF Inv, Table
      <3>9. \A e \in Staying : source'[e] = source[e]
        BY <1>1, <3>1, <3>5, <3>8
      <3>10. CASE Removing(n)
        <4>1. history'.raced = history.raced \cup {x}
          BY <1>1, <3>1, <3>10
        <4>2. Staying' \subseteq Staying
          BY <3>5, <4>1 DEF Staying, Gone
        <4>3. \A y \in Requests : Spares(requests'[y], Staying', source')
          <5>1. \A y \in Requests : Spares(requests'[y], Staying', source)
            BY <1>1, <3>3, <3>4, <4>2, OneSpares DEF Spares
          <5>2. QED BY <3>9, <4>2, <5>1 DEF Spares
        <4>4. /\ \A e \in Staying' : rows'[e] = "ready" => e \in published'
              /\ worker'.pc = "report" /\ worker'.export \in Staying' => worker'.export \in published'
              /\ \A h \in hooks' : h.pc = "dirs" => \A e \in Staying' : source'[e].server # h.name
          BY <1>1, <3>1, <3>6, <3>9, <4>2 DEF Kept, At
        <4>5. QED BY <4>3, <4>4 DEF Kept, At
      <3>11. CASE ~Removing(n)
        <4>1. /\ \A h \in hooks : h.pc = "dirs" => h.name # n
              /\ \A y \in Requests :
                   /\ requests[y].pc \notin {"sweep rows", "sweep drop"}
                   /\ requests[y].pc = "sweep dirs" => n \notin requests[y].visit
          BY <3>11 DEF Removing
        <4>2. source'[x].server = n
          BY <1>1, <3>1, <3>8
        <4>3. \A y \in Requests : Spares(requests'[y], Staying', source')
          <5> SUFFICES ASSUME NEW y \in Requests
                       PROVE  Spares(requests'[y], Staying', source')
            OBVIOUS
          <5>1. CASE y = r
            BY <3>4, <5>1 DEF Spares
          <5>2. CASE y # r
            <6>1. requests'[y] = requests[y] /\ Spares(requests[y], Staying, source)
              BY <1>1, <3>3, <5>2 DEF Kept
            <6>2. QED BY <3>5, <3>9, <4>1, <4>2, <6>1 DEF Spares
          <5>3. QED BY <5>1, <5>2
        <4>4. \A h \in hooks' : h.pc = "dirs" => \A e \in Staying' : source'[e].server # h.name
          BY <1>1, <3>1, <3>5, <3>9, <4>1, <4>2 DEF Kept
        <4>5. /\ \A e \in Staying' : rows'[e] = "ready" => e \in published'
              /\ worker'.pc = "report" /\ worker'.export \in Staying' => worker'.export \in published'
          BY <1>1, <3>1, <3>5, <3>6, <3>7 DEF Kept, At
        <4>6. QED BY <4>3, <4>4, <4>5 DEF Kept, At
      <3>12. QED BY <3>10, <3>11
    <2>4. QED BY <1>8, <2>1, <2>2, <2>3 DEF Start
  <1>9. ASSUME NEW r \in Requests, Drop(r)
        PROVE  Kept'
    <2>1. ASSUME NEW t \in Tenants, NEW n \in Names, NEW e \in Exports, DeleteExport(r, t, n, e)
          PROVE  Kept'
      <3>1. requests'[r].pc = "drop" /\ \A x \in Requests \ {r} : requests'[x] = requests[x]
        BY <1>1, <2>1 DEF DeleteExport, RequestRecords
      <3>2. QED BY <1>5, <2>1, <3>1 DEF DeleteExport, restOfState, rowVars, fileVars
    <2>2. CASE DropFiles(r)
      <3>0. PICK e : e = requests[r].export
        OBVIOUS
      <3>1. /\ published' = published \ {e} /\ history' = [history EXCEPT !.removed = @ \cup {e}]
            /\ requests' = [requests EXCEPT ![r].pc = "drop row"]
            /\ UNCHANGED <<rows, source, worker, hooks>>
        BY <2>2, <3>0 DEF DropFiles, rowVars
      <3>2. history'.removed = history.removed \cup {e} /\ history'.raced = history.raced
        BY <1>1, <3>1
      <3>3. Staying' \cap published \subseteq published'
        BY <3>1, <3>2 DEF Staying, Gone
      <3>4. requests'[r].pc = "drop row" /\ \A x \in Requests \ {r} : requests'[x] = requests[x]
        BY <1>1, <3>1 DEF RequestRecords
      <3>5. Spares(requests'[r], Staying', source)
        BY <3>4 DEF Spares
      <3>6. QED BY <1>3, <3>1, <3>2, <3>3, <3>4, <3>5
    <2>3. CASE DropRow(r)
      <3>1. /\ rows' = [rows EXCEPT ![requests[r].export] = "none"] /\ Answer(r)
            /\ UNCHANGED <<history, source, worker, hooks, published>>
        BY <2>3 DEF DropRow, fileVars
      <3>2. requests'[r].pc = "idle" /\ \A x \in Requests \ {r} : requests'[x] = requests[x]
        BY <1>1, <3>1 DEF Answer, Idle
      <3>3. /\ \A e \in Exports : rows'[e] # "none" => rows[e] # "none"
            /\ \A e \in Exports : rows'[e] = "ready" => rows[e] = "ready"
        BY <1>1, <3>1
      <3>4. Spares(requests'[r], Staying', source)
        BY <3>2 DEF Spares
      <3>5. QED BY <1>3, <3>1, <3>2, <3>3, <3>4
    <2>4. QED BY <1>9, <2>1, <2>2, <2>3 DEF Drop
  <1>10. CASE Take
    <2>1. UNCHANGED <<history, source, hooks, requests, published>>
      BY <1>10 DEF Take, fileVars
    <2>2. /\ \A e \in Exports : rows'[e] # "none" => rows[e] # "none"
          /\ \A e \in Exports : rows'[e] = "ready" => rows[e] = "ready"
          /\ worker' = worker \/ worker'.pc = "look"
      BY <1>1, <1>10 DEF Take
    <2>3. QED BY <1>2, <2>1, <2>2
  <1>11. CASE Look \/ ReadWorld \/ MakeFolder
    <2>1. UNCHANGED <<history, source, hooks, requests, published>>
      BY <1>11 DEF Look, ReadWorld, MakeFolder, fileVars, rowVars
    <2>2. /\ rows' = rows \/ rows' = SetStatus(worker.export, "failed")
          /\ worker'.pc \in {"read", "mkdir", "move", "idle"}
      BY <1>1, <1>11 DEF Look, ReadWorld, MakeFolder, Fail, To, Resting, rowVars
    <2>3. /\ \A e \in Exports : rows'[e] # "none" => rows[e] # "none"
          /\ \A e \in Exports : rows'[e] = "ready" => rows[e] = "ready"
      BY <1>1, <2>2 DEF SetStatus, Rows
    <2>4. QED BY <1>2, <2>1, <2>2, <2>3
  <1>12. CASE Move
    <2>1. UNCHANGED <<history, source, hooks, requests>>
      BY <1>12 DEF Move
    <2>2. \/ /\ rows' = rows /\ published' = published \cup {worker.export}
             /\ worker' = [worker EXCEPT !.pc = "report"]
          \/ /\ rows' = SetStatus(worker.export, "failed") /\ published' = published
             /\ worker' = Resting
      BY <1>12 DEF Move, Fail, To
    <2>3. /\ \A e \in Exports : rows'[e] # "none" => rows[e] # "none"
          /\ \A e \in Exports : rows'[e] = "ready" => rows[e] = "ready"
          /\ worker'.pc = "report" => worker'.export \in published'
      BY <1>1, <2>2 DEF SetStatus, Rows, Resting
    <2>4. QED BY <1>2, <2>1, <2>2, <2>3
  <1>13. CASE Report
    <2>1. /\ UNCHANGED <<history, source, hooks, requests, published>> /\ At("report")
          /\ rows' = SetStatus(worker.export, "ready") /\ worker' = Resting
      BY <1>13 DEF Report, fileVars
    <2>2. /\ \A e \in Exports : rows'[e] # "none" => rows[e] # "none"
          /\ \A e \in Exports : rows'[e] = "ready" => rows[e] = "ready" \/ e = worker.export
      BY <1>1, <2>1 DEF SetStatus, Rows
    <2>3. QED BY <1>2, <2>1, <2>2 DEF Resting
  <1>14. CASE ServerStep
    <2>1. requests' = requests /\ worker' = worker /\ source' = source /\ history' = history
      BY <1>14 DEF ServerStep, ServerAccepted, ServerChanges, ServerDeleted, serversRest, ForgetRows,
                  ForgetFolder, rowVars
    <2>2. CASE \/ \E t \in Tenants, n \in Names : ServerAccepted(t, n)
               \/ \E n \in Names : ServerChanges(n)
      <3>1. hooks' = hooks /\ rows' = rows /\ published' = published
        BY <2>2 DEF ServerAccepted, ServerChanges, serversRest, rowVars, fileVars
      <3>2. QED BY <1>2, <2>1, <3>1
    <2>3. ASSUME hooks' \subseteq hooks \cup {h \in hooks' : h.pc = "rows"
                                                  \/ \A e \in Staying' : source[e].server # h.name},
                 \A e \in Exports : rows'[e] # "none" => rows[e] # "none",
                 \A e \in Exports : rows'[e] = "ready" => rows[e] = "ready",
                 Staying' \cap published \subseteq published'
          PROVE  Kept'
      <3>1. Staying' \subseteq Staying
        BY <2>1, <2>3, FewerStay
      <3>2. \A r \in Requests : Spares(requests'[r], Staying', source)
        BY <1>1, <2>1, <3>1, SparesLess DEF Kept
      <3>3. \A h \in hooks' : h.pc = "dirs" => h \in hooks \/ \A e \in Staying' : source[e].server # h.name
        BY <2>3
      <3>4. QED BY <1>1, <2>1, <2>3, <3>1, <3>2, <3>3, KeptStays
    <2>4. ASSUME NEW n \in Names, ServerDeleted(n)
          PROVE  Kept'
      <3>1. /\ hooks' = hooks \cup {[name |-> n, pc |-> "rows", life |-> lives]}
            /\ rows' = rows /\ published' = published
        BY <2>4 DEF ServerDeleted, serversRest, rowVars, fileVars
      <3>2. QED BY <2>3, <3>1
    <2>5. ASSUME NEW h \in hooks, ForgetRows(h)
          PROVE  Kept'
      <3>1. /\ rows' = [e \in Exports |-> IF e \in RowsOf(h.name) THEN "none" ELSE rows[e]]
            /\ hooks' = (hooks \ {h}) \cup {[h EXCEPT !.pc = "dirs"]} /\ published' = published
        BY <2>5 DEF ForgetRows, fileVars
      <3>2. h \in [name : Names, pc : {"rows", "dirs"}, life : 0 .. MaxLives]
        BY DEF Inv, Rest
      <3>3. [h EXCEPT !.pc = "dirs"].name = h.name
        BY <3>2
      <3>4. \A e \in Staying' : source[e].server # h.name
        BY <3>1 DEF Staying, Rows, RowsOf
      <3>5. QED BY <2>3, <3>1, <3>3, <3>4
    <2>6. ASSUME NEW h \in hooks, ForgetFolder(h)
          PROVE  Kept'
      <3>1. /\ published' = published \ {e \in published : source[e].server = h.name} /\ h.pc = "dirs"
            /\ hooks' = hooks \ {h} /\ rows' = rows
        BY <2>6 DEF ForgetFolder, rowVars
      <3>2. Staying' = Staying
        BY <2>1, <3>1 DEF Staying, Rows, Gone
      <3>3. \A e \in Staying : source[e].server # h.name
        BY <1>1, <3>1 DEF Kept
      <3>4. QED BY <2>3, <3>1, <3>2, <3>3
    <2>7. QED BY <1>14, <2>2, <2>4, <2>5, <2>6 DEF ServerStep
  <1>15. CASE Time
    BY <1>1, <1>2, <1>15 DEF Time, Expire, DayPasses, fileVars
  <1>16. CASE Restart
    <2>1. PICK doomed \in SUBSET Exports :
             /\ rows' = [e \in Exports |-> IF e \in doomed THEN "none" ELSE Interrupted(e)]
             /\ published' = published \cap (Rows \ doomed)
      <3> DEFINE status == [e \in Exports |-> Interrupted(e)]
                 doomed == {e \in Rows : status[e] \in Ended
                              /\ (e \in expired \/ ledger[source[e].server] = None
                                     \/ ledger[source[e].server].tenant # source[e].tenant)}
      <3>1. /\ rows' = [e \in Exports |-> IF e \in doomed THEN "none" ELSE status[e]]
            /\ published' = published \cap (Rows \ doomed)
        BY <1>16 DEF Restart
      <3>2. doomed \subseteq Exports
        BY DEF Rows
      <3>3. QED BY <3>1, <3>2
    <2>2. /\ requests' = [r \in Requests |-> Idle] /\ worker' = Resting /\ hooks' = {}
          /\ source' = source /\ history' = history
      BY <1>16 DEF Restart
    <2>3. /\ \A e \in Exports : rows'[e] # "none" => rows[e] # "none"
          /\ \A e \in Exports : rows'[e] = "ready" => rows[e] = "ready"
      BY <1>1, <2>1 DEF Interrupted, Active
    <2>4. Staying' \subseteq Staying
      BY <2>2, <2>3, FewerStay
    <2>5. Staying' \cap published \subseteq published'
      <3>1. \A e \in Staying' : e \in Exports /\ rows'[e] # "none"
        BY DEF Staying, Rows
      <3>2. \A e \in Staying' : e \in Rows \ doomed
        BY <2>1, <2>3, <3>1 DEF Rows
      <3>3. QED BY <2>1, <3>2
    <2>6. \A r \in Requests : Spares(requests'[r], Staying', source)
      BY <2>2 DEF Spares, Idle
    <2>7. QED BY <1>1, <2>2, <2>3, <2>4, <2>5, <2>6, KeptStays DEF Resting
  <1>17. QED BY <1>4, <1>7, <1>8, <1>9, <1>10, <1>11, <1>12, <1>13, <1>14, <1>15, <1>16
            DEF Next, WorkerStep

-----------------------------------------------------------------------------
(* The theorems                                                              *)

\* The invariant holds at first, and every step keeps it.
LEMMA SpecInv == Spec => []Inv
  <1>1. Init => Inv
    <2> SUFFICES ASSUME Init
                 PROVE  Inv
      OBVIOUS
    <2>1. rows = [e \in Exports |-> "none"] /\ source = [e \in Exports |-> None]
          /\ Used = {} /\ Rows = {}
      BY DEF Init, Used, Rows
    <2>2. Table
      <3>1. Used = 1 .. 0
        BY <2>1
      <3>2. \A t \in Tenants : Cardinality(RecentOf(t)) <= DailyLimit
        <4>1. \A t \in Tenants : RecentOf(t) = {}
          BY DEF Init, RecentOf
        <4>2. QED BY <4>1, FS_EmptySet, ExportLimitAssumption
      <3>3. Single
        BY <2>1 DEF Single, Active
      <3>4. QED BY <2>1, <3>1, <3>2, <3>3 DEF Init, Table, DailyLimitHeld
    <2>3. Threads
      <3>1. requests = [r \in Requests |-> Idle] /\ Thread(Idle, Used)
        BY IdleIsThread DEF Init
      <3>2. QED BY <3>1 DEF Threads, Thread
    <2>4. Rest
      BY ExportBoundAssumption DEF Init, Rest, At, Resting, WorkerPcs
    <2>5. Worked
      BY <2>1 DEF Worked
    <2>6. Kept
      BY <2>1 DEF Init, Kept, Staying, At, Resting, Spares, Idle
    <2>7. QED BY <2>2, <2>3, <2>4, <2>5, <2>6 DEF Inv
  <1>2. Inv /\ [Next]_vars => Inv'
    BY TableStep, ThreadsStep, RestStep, WorkedStep, KeptStep DEF Inv
  <1>3. QED BY <1>1, <1>2, PTL DEF Spec

\* The rows, the threads, the queue, the worker and the files are at all times
\* what the code takes them for.
THEOREM TypeCorrect == Spec => []TypeOK
  <1>1. Inv => TypeOK
    BY DEF Inv, Table, Threads, Thread, Rest, Used, TypeOK
  <1>2. QED BY <1>1, SpecInv, PTL

\* One active export of a server, however many threads start one at once: the
\* condition of the INSERT is enough.
THEOREM OneAtATime == Spec => []OneActiveExport
  <1>1. Inv => OneActiveExport
    <2> SUFFICES ASSUME Inv, NEW t \in Tenants, NEW n \in Names
                 PROVE  Cardinality(ActiveOf(t, n)) <= 1
      BY DEF OneActiveExport
    <2>1. \A e, f \in ActiveOf(t, n) : e = f
      <3> SUFFICES ASSUME NEW e \in ActiveOf(t, n), NEW f \in ActiveOf(t, n)
                   PROVE  e = f
        OBVIOUS
      <3>1. /\ e \in Exports /\ f \in Exports /\ rows[e] \in Active /\ rows[f] \in Active
            /\ rows[e] # "none" /\ rows[f] # "none"
            /\ source[e].server = n /\ source[e].tenant = t
            /\ source[f].server = n /\ source[f].tenant = t
        BY DEF ActiveOf, RowsOf, Rows
      <3>2. source[e] \in [server : Names, tenant : Tenants] /\ source[f] \in [server : Names, tenant : Tenants]
        BY <3>1 DEF Inv, Table
      <3>3. source[e] = source[f]
        BY <3>1, <3>2
      <3>4. QED BY <3>1, <3>3 DEF Inv, Table, Single
    <2>2. CASE ActiveOf(t, n) = {}
      BY <2>2, FS_EmptySet
    <2>3. CASE ActiveOf(t, n) # {}
      <3>1. PICK e \in ActiveOf(t, n) : ActiveOf(t, n) = {e}
        BY <2>1, <2>3
      <3>2. Cardinality({e}) = 1
        BY FS_Singleton
      <3>3. Cardinality(ActiveOf(t, n)) = 1
        BY <3>1, <3>2
      <3>4. QED BY <3>3
    <2>4. QED BY <2>2, <2>3
  <1>2. QED BY <1>1, SpecInv, PTL

\* No more than the day's limit, for every limit, whatever becomes of the rows.
THEOREM LimitKept == Spec => []DailyLimitHeld
  <1>1. Inv => DailyLimitHeld
    BY DEF Inv, Table
  <1>2. QED BY <1>1, SpecInv, PTL

\* A row that is queued or running is never left without somebody to end it.
THEOREM NoneForgotten == Spec => []ActiveIsWorkedOn
  <1>1. Inv => ActiveIsWorkedOn
    BY DEF Inv, Worked, Submits, Queued, ActiveIsWorkedOn, Rows, Active
  <1>2. QED BY <1>1, SpecInv, PTL

\* However many sweeps, deletes and restarts overlap with the worker, none
\* takes the files of a ready export that nobody set out to remove.
THEOREM ReadyKeepsFiles == Spec => []ReadyIsPublished
  <1>1. Inv => ReadyIsPublished
    BY DEF Inv, Kept, Staying, Gone, ReadyIsPublished, Rows
  <1>2. QED BY <1>1, SpecInv, PTL

-----------------------------------------------------------------------------
(* What a step does to the rows                                              *)

\* The exports whose rows a thread has made up its mind to remove.
Doomed(q) == q.todo \cup IF q.pc \in {"drop", "drop row", "sweep drop"} THEN {q.export} ELSE {}

\* They are over, and the worker's is not, or gone: nobody takes an export away
\* that is going on, but forget_server, and none ends twice.
Order ==
    /\ \A r \in Requests : \A e \in Doomed(requests[r]) : rows[e] \notin Active
    /\ worker.export # 0 => rows[worker.export] \in {"running", "none"}

RowsTyped ==
    /\ rows \in [Exports -> {"none"} \cup Active \cup Ended]
    /\ source \in [Exports -> [server : Names, tenant : Tenants] \cup {None}]
    /\ worker \in [pc : WorkerPcs, export : Exports \cup {0}]
    /\ worker.export # 0 => worker.export \in Exports
    /\ requests \in [Requests -> RequestRecords]

Begins(e) ==
    /\ rows[e] = "queued" /\ rows' = [rows EXCEPT ![e] = "running"]
    /\ worker.export = 0 /\ worker'.export = e
Ends(e, status) ==
    /\ rows[e] = "running" /\ rows' = [rows EXCEPT ![e] = status]
    /\ worker'.export = 0
Leaves(e) ==
    /\ rows[e] \in Ended /\ rows' = [rows EXCEPT ![e] = "none"]
    /\ worker' = worker
Forgotten(n) ==
    /\ rows' = [e \in Exports |-> IF e \in RowsOf(n) THEN "none" ELSE rows[e]]
    /\ worker' = worker
Recovered(S) ==
    /\ rows' = [e \in Exports |-> IF e \in S THEN "none" ELSE Interrupted(e)]
    /\ worker'.export = 0
Unmoved == rows' = rows /\ worker'.export \in {worker.export, 0}

\* The rows stay, or one is reserved, begins, ends, goes, or goes with its server.
LEMMA RowsStep ==
    ASSUME Inv, Order, [Next]_vars
    PROVE  \/ \E r \in Requests : ReserveExport(r)
           \/ /\ source' = source
              /\ \/ Unmoved
                 \/ \E e \in Exports : Begins(e) \/ Leaves(e) \/ \E status \in Ended : Ends(e, status)
                 \/ \E n \in Names : Forgotten(n)
                 \/ \E S \in SUBSET Rows : Recovered(S)
  <1>1. RowsTyped
    BY DEF Inv, Table, Rest, Threads, RowsTyped
  <1>2. CASE UNCHANGED vars
    BY <1>2 DEF vars, restOfState, rowVars, Unmoved
  <1>3. ASSUME NEW r \in Requests, rows' = [rows EXCEPT ![requests[r].export] = "none"],
               worker' = worker, requests[r].pc \in {"drop row", "sweep drop"}
        PROVE  Unmoved \/ \E e \in Exports : Leaves(e)
    <2> DEFINE e == requests[r].export
    <2>1. e \in Doomed(requests[r])
      BY <1>3 DEF Doomed
    <2>2. rows[e] \notin Active /\ e \in Exports
      BY <1>3, <2>1 DEF Order, Inv, Threads, Thread, Used
    <2>3. CASE rows[e] = "none"
      BY <1>1, <1>3, <2>2, <2>3 DEF RowsTyped, Unmoved
    <2>4. CASE rows[e] \in Ended
      BY <1>3, <2>2, <2>4 DEF Leaves
    <2>5. QED BY <1>1, <2>2, <2>3, <2>4 DEF RowsTyped
  <1>4. ASSUME NEW r \in Requests, Sweep(r) \/ Drop(r)
        PROVE  source' = source /\ (Unmoved \/ \E e \in Exports : Leaves(e))
    <2>1. CASE SweepDropRow(r) \/ DropRow(r)
      BY <1>3, <2>1 DEF SweepDropRow, DropRow
    <2>2. CASE ~(SweepDropRow(r) \/ DropRow(r))
      BY <1>4, <2>2 DEF Sweep, Drop, List, SweepRow, SweepFolders, SweepFolder, SweepGoneFolder,
                SweepEnd, DeleteExport, DropFiles, restOfState, rowVars, Unmoved
    <2>3. QED BY <2>1, <2>2
  <1>5. ASSUME NEW r \in Requests, Start(r), ~ReserveExport(r)
        PROVE  source' = source /\ Unmoved
    BY <1>5 DEF Start, StartExport, RefuseExport, SubmitExport, restOfState, rowVars, Unmoved
  <1>6. CASE Take
    <2>1. worker.export = 0 /\ queue # <<>> /\ source' = source
      BY <1>6 DEF Take, Inv, Rest
    <2>2. Head(queue) \in Exports
      BY <2>1 DEF Inv, Rest
    <2>3. Unmoved \/ Begins(Head(queue))
      BY <1>6, <2>1 DEF Take, Begins, Unmoved
    <2>4. QED BY <2>1, <2>2, <2>3
  <1>7. CASE Look \/ ReadWorld \/ MakeFolder \/ Move \/ Report
    <2>1. source' = source
      BY <1>7 DEF Look, ReadWorld, MakeFolder, Move, Report, rowVars
    <2>2. worker.export # 0
      BY <1>7 DEF Look, ReadWorld, MakeFolder, Move, Report, At, Inv, Rest
    <2>3. \/ rows' = rows /\ worker'.export = worker.export
          \/ worker'.export = 0 /\ \E status \in Ended : rows' = SetStatus(worker.export, status)
      BY <1>1, <1>7 DEF Look, ReadWorld, MakeFolder, Move, Report, Fail, To, Resting, rowVars, Ended, RowsTyped
    <2>4. worker.export \in Exports
      BY <1>1, <2>2 DEF RowsTyped
    <2>5. Unmoved \/ \E status \in Ended : Ends(worker.export, status)
      BY <2>2, <2>3, <2>4 DEF SetStatus, Rows, Order, Ends, Unmoved
    <2>6. QED BY <2>1, <2>4, <2>5
  <1>8. CASE ServerStep
    <2>1. source' = source /\ (Unmoved \/ \E h \in hooks : Forgotten(h.name))
      BY <1>8 DEF ServerStep, ServerAccepted, ServerChanges, ServerDeleted, serversRest, ForgetRows,
                ForgetFolder, rowVars, Forgotten, Unmoved
    <2>2. \A h \in hooks : h.name \in Names
      BY DEF Inv, Rest
    <2>3. QED BY <2>1, <2>2
  <1>9. CASE Time
    BY <1>9 DEF Time, Expire, DayPasses, Unmoved
  <1>10. CASE Restart
    <2> DEFINE status == [e \in Exports |-> Interrupted(e)]
               doomed == {e \in Rows : status[e] \in Ended
                            /\ (e \in expired \/ ledger[source[e].server] = None
                                   \/ ledger[source[e].server].tenant # source[e].tenant)}
    <2>1. rows' = [e \in Exports |-> IF e \in doomed THEN "none" ELSE status[e]] /\ source' = source
      BY <1>10 DEF Restart
    <2>2. doomed \in SUBSET Rows
      OBVIOUS
    <2>3. Recovered(doomed)
      BY <1>10, <2>1 DEF Recovered, Restart, Resting
    <2> HIDE DEF doomed
    <2>4. QED BY <1>10, <2>1, <2>2, <2>3
  <1>11. QED BY <1>2, <1>4, <1>5, <1>6, <1>7, <1>8, <1>9, <1>10 DEF Next, WorkerStep

\* A row that is active was so, or has just been reserved.
LEMMA ActiveFrom ==
    ASSUME Inv, Order, [Next]_vars, NEW e \in Exports, rows'[e] \in Active
    PROVE  rows[e] \in Active \/ e \notin Used
  <1>1. RowsTyped
    BY DEF Inv, Table, Rest, Threads, RowsTyped
  <1>2. ASSUME NEW r \in Requests, ReserveExport(r), rows[e] \notin Active
        PROVE  e \notin Used
    <2>1. NewExport \in Exports /\ rows' = [rows EXCEPT ![NewExport] = "queued"]
      BY <1>2 DEF ReserveExport
    <2>2. e = NewExport
      BY <1>1, <1>2, <2>1 DEF RowsTyped
    <2>3. QED BY <2>1, <2>2, NewIsNew DEF Inv
  <1>3. ASSUME \/ Unmoved
               \/ \E x \in Exports : Begins(x) \/ Leaves(x) \/ \E status \in Ended : Ends(x, status)
               \/ \E n \in Names : Forgotten(n)
               \/ \E S \in SUBSET Rows : Recovered(S)
        PROVE  rows[e] \in Active
    BY <1>1, <1>3 DEF Unmoved, Begins, Leaves, Ends, Forgotten, Recovered, Interrupted, RowsTyped, Active, Ended
  <1>4. QED BY <1>2, <1>3, RowsStep

\* A thread sets out to remove only what has ended.
LEMMA DoomedStep ==
    ASSUME Inv, [Next]_vars, NEW r \in Requests
    PROVE  Doomed(requests[r])' \subseteq Doomed(requests[r]) \cup {e \in Exports : rows[e] \in Ended}
  <1> DEFINE q == requests[r]
             ended == {e \in Exports : rows[e] \in Ended}
  <1>1. requests \in [Requests -> RequestRecords] /\ q \in RequestRecords /\ Thread(q, Used)
    BY DEF Inv, Threads
  <1>2. CASE requests'[r] = q
    BY <1>2 DEF Doomed
  <1>3. Doomed(Idle) = {}
    BY DEF Doomed, Idle
  <1>4. CASE requests'[r] = Idle
    BY <1>3, <1>4 DEF Doomed
  <1>5. ASSUME NEW x, x \in RequestRecords, x.todo = {}, x.pc \in {"idle", "reserve"}, requests'[r] = Scanned(x)
        PROVE  Doomed(requests[r])' \subseteq ended
    <2> DEFINE over == {e \in Rows : rows[e] \in Ended}
    <2>1. Scanned(x).pc = "sweep rows" /\ Scanned(x).todo = over /\ over \subseteq ended
      BY <1>5 DEF Scanned, Rows, RequestRecords
    <2>2. QED BY <1>5, <2>1 DEF Doomed
  <1>6. ASSUME NEW s \in Requests, s # r, Sweep(s) \/ Start(s) \/ Drop(s)
        PROVE  requests'[r] = q
    BY <1>1, <1>6 DEF Sweep, Start, Drop, List, SweepRow, SweepDropRow, SweepFolders, SweepFolder,
         SweepGoneFolder, SweepEnd, StartExport, RefuseExport, ReserveExport, SubmitExport,
         DeleteExport, DropFiles, DropRow, Answer
  <1>7. CASE Sweep(r)
    <2>1. ASSUME NEW t \in Tenants, NEW n \in Names, List(r, t, n)
          PROVE  requests'[r] = Scanned(Idle)
      BY <1>1, <2>1 DEF List
    <2>2. Idle \in RequestRecords /\ Idle.todo = {} /\ Idle.pc = "idle"
      BY IdleIsThread DEF Thread, Idle
    <2>3. CASE SweepRow(r)
      <3>1. PICK e \in q.todo :
              \/ requests' = [requests EXCEPT ![r].pc = "sweep drop", ![r].export = e, ![r].todo = @ \ {e}]
              \/ requests' = [requests EXCEPT ![r].known = @ \cup {e}, ![r].todo = @ \ {e}]
        BY <2>3 DEF SweepRow
      <3>2. \/ requests'[r] = [q EXCEPT !.pc = "sweep drop", !.export = e, !.todo = q.todo \ {e}]
            \/ requests'[r] = [q EXCEPT !.known = q.known \cup {e}, !.todo = q.todo \ {e}]
        BY <1>1, <3>1
      <3>3. \/ requests'[r].todo = q.todo \ {e} /\ requests'[r].export = e
            \/ requests'[r].todo = q.todo \ {e} /\ requests'[r].pc = q.pc /\ requests'[r].export = q.export
        BY <1>1, <3>2 DEF RequestRecords
      <3>4. QED BY <3>1, <3>3 DEF Doomed
    <2>4. CASE SweepDropRow(r)
      <3>1. requests'[r] = [q EXCEPT !.pc = "sweep rows", !.export = 0]
        BY <1>1, <2>4 DEF SweepDropRow
      <3>2. requests'[r].todo = q.todo /\ requests'[r].pc = "sweep rows"
        BY <1>1, <3>1 DEF RequestRecords
      <3>3. QED BY <3>2 DEF Doomed
    <2>5. CASE SweepFolders(r)
      <3>1. requests'[r] = [q EXCEPT !.pc = "sweep dirs", !.visit = folders]
        BY <1>1, <2>5 DEF SweepFolders
      <3>2. requests'[r].todo = q.todo /\ requests'[r].pc = "sweep dirs"
        BY <1>1, <3>1 DEF RequestRecords
      <3>3. QED BY <3>2 DEF Doomed
    <2>6. CASE SweepFolder(r) \/ SweepGoneFolder(r)
      <3>1. requests'[r] = Idle \/ \E n : requests'[r] = [q EXCEPT !.visit = q.visit \ {n}]
        BY <1>1, <2>6 DEF SweepFolder, SweepGoneFolder, Answer
      <3>2. \A n : /\ [q EXCEPT !.visit = q.visit \ {n}].todo = q.todo
                   /\ [q EXCEPT !.visit = q.visit \ {n}].pc = q.pc
                   /\ [q EXCEPT !.visit = q.visit \ {n}].export = q.export
        BY <1>1 DEF RequestRecords
      <3>3. QED BY <1>4, <3>1, <3>2 DEF Doomed
    <2>7. CASE SweepEnd(r)
      BY <1>1, <1>4, <2>7 DEF SweepEnd, Answer
    <2>8. QED BY <1>5, <1>7, <2>1, <2>2, <2>3, <2>4, <2>5, <2>6, <2>7 DEF Sweep
  <1>8. CASE Start(r)
    <2>1. ASSUME NEW t \in Tenants, NEW n \in Names, NEW due \in BOOLEAN, StartExport(r, t, n, due)
          PROVE  Doomed(requests[r])' \subseteq ended
      <3> DEFINE x == [Idle EXCEPT !.pc = "reserve", !.create = TRUE, !.tenant = t, !.name = n,
                                   !.up = ledger[n].status = "ready"]
      <3>1. requests'[r] = IF due THEN Scanned(x) ELSE x
        BY <1>1, <2>1 DEF StartExport
      <3>2. x \in RequestRecords /\ x.todo = {} /\ x.pc = "reserve"
        BY DEF Idle, RequestRecords
      <3> HIDE DEF x
      <3>3. CASE due
        BY <1>5, <3>1, <3>2, <3>3
      <3>4. CASE ~due
        BY <3>1, <3>2, <3>4 DEF Doomed
      <3>5. QED BY <3>3, <3>4
    <2>2. CASE ReserveExport(r)
      <3>1. requests'[r] = [Idle EXCEPT !.pc = "submit", !.export = NewExport]
        BY <1>1, <2>2 DEF ReserveExport
      <3>2. requests'[r].todo = {} /\ requests'[r].pc = "submit"
        BY <3>1 DEF Idle
      <3>3. QED BY <3>2 DEF Doomed
    <2>3. CASE RefuseExport(r) \/ SubmitExport(r)
      BY <1>1, <1>4, <2>3 DEF RefuseExport, SubmitExport, Answer
    <2>4. QED BY <1>8, <2>1, <2>2, <2>3 DEF Start
  <1>9. CASE Drop(r)
    <2>1. ASSUME NEW t \in Tenants, NEW n \in Names, NEW e \in Exports, DeleteExport(r, t, n, e)
          PROVE  Doomed(requests[r])' \subseteq Doomed(q) \cup ended
      <3>1. requests'[r] = [q EXCEPT !.pc = "drop", !.export = e] /\ e \in ended
        BY <1>1, <2>1 DEF DeleteExport
      <3>2. requests'[r].todo = q.todo /\ requests'[r].export = e
        BY <1>1, <3>1 DEF RequestRecords
      <3>3. QED BY <3>1, <3>2 DEF Doomed
    <2>2. CASE DropFiles(r)
      <3>1. requests'[r] = [q EXCEPT !.pc = "drop row"] /\ q.pc = "drop"
        BY <1>1, <2>2 DEF DropFiles
      <3>2. requests'[r].todo = q.todo /\ requests'[r].export = q.export
        BY <1>1, <3>1 DEF RequestRecords
      <3>3. QED BY <3>1, <3>2 DEF Doomed
    <2>3. CASE DropRow(r)
      BY <1>1, <1>4, <2>3 DEF DropRow, Answer
    <2>4. QED BY <1>9, <2>1, <2>2, <2>3 DEF Drop
  <1>10. CASE UNCHANGED vars
    BY <1>2, <1>10 DEF vars
  <1>11. CASE WorkerStep
    BY <1>2, <1>11 DEF WorkerStep, Take, Look, ReadWorld, MakeFolder, Move, Report
  <1>12. CASE ServerStep \/ Time
    BY <1>2, <1>12 DEF ServerStep, ServerAccepted, ServerChanges, ServerDeleted, serversRest, ForgetRows,
                       ForgetFolder, Time, Expire, DayPasses
  <1>13. CASE Restart
    BY <1>4, <1>13 DEF Restart
  <1>14. QED BY <1>2, <1>6, <1>7, <1>8, <1>9, <1>10, <1>11, <1>12, <1>13 DEF Next

\* Every step keeps the order in which an export begins, ends and goes.
LEMMA OrderStep ==
    ASSUME Inv, Order, [Next]_vars
    PROVE  Order'
  <1>1. RowsTyped
    BY DEF Inv, Table, Rest, Threads, RowsTyped
  <1>2. ASSUME NEW r \in Requests, NEW e \in Doomed(requests[r])'
        PROVE  rows'[e] \notin Active
    <2>1. e \in Doomed(requests[r]) \/ (e \in Exports /\ rows[e] \in Ended)
      BY <1>2, DoomedStep
    <2>2. e \in Used /\ e \in Exports
      <3>1. CASE e \in Doomed(requests[r])
        BY <3>1 DEF Doomed, Inv, Threads, Thread, Used
      <3>2. CASE e \in Exports /\ rows[e] \in Ended
        BY <3>2 DEF Inv, Table, Used, Ended
      <3>3. QED BY <2>1, <3>1, <3>2
    <2>3. rows[e] \notin Active
      BY <2>1 DEF Order, Active, Ended
    <2>4. QED BY <2>2, <2>3, ActiveFrom
  <1>3. worker'.export # 0 => rows'[worker'.export] \in {"running", "none"}
    <2>1. ASSUME NEW r \in Requests, ReserveExport(r), worker.export # 0
          PROVE  worker' = worker /\ rows'[worker.export] = rows[worker.export]
      <3>1. NewExport \in Exports /\ rows' = [rows EXCEPT ![NewExport] = "queued"] /\ worker' = worker
        BY <2>1 DEF ReserveExport
      <3>2. worker.export \in Used /\ worker.export \in Exports
        BY <1>1, <2>1 DEF RowsTyped, Inv, Rest
      <3>3. QED BY <1>1, <3>1, <3>2, NewIsNew DEF RowsTyped, Inv
    <2>2. CASE \E r \in Requests : ReserveExport(r)
      <3>1. worker' = worker
        BY <2>2 DEF ReserveExport
      <3>2. QED BY <2>1, <2>2, <3>1 DEF Order
    <2>3. CASE Unmoved
      BY <2>3 DEF Unmoved, Order
    <2>4. CASE \E e \in Exports : Begins(e)
      BY <1>1, <2>4 DEF Begins, RowsTyped
    <2>5. CASE \E e \in Exports : Leaves(e)
      BY <1>1, <2>5 DEF Leaves, RowsTyped, Order
    <2>6. CASE \E n \in Names : Forgotten(n)
      BY <1>1, <2>6 DEF Forgotten, RowsTyped, Order
    <2>7. CASE \/ \E e \in Exports, status \in Ended : Ends(e, status)
               \/ \E S \in SUBSET Rows : Recovered(S)
      BY <2>7 DEF Ends, Recovered
    <2>8. QED BY <2>2, <2>3, <2>4, <2>5, <2>6, <2>7, RowsStep
  <1>4. QED BY <1>2, <1>3 DEF Order

-----------------------------------------------------------------------------
(* The promise                                                               *)

Seen == [e \in Exports |-> Shown(e)]

\* What GET finds, before and after a step.
LEMMA SeenIs ==
    ASSUME NEW e \in Exports
    PROVE  /\ Seen[e] = IF rows[e] # "none" THEN rows[e]
                        ELSE IF source[e] = None THEN "unasked" ELSE "gone"
           /\ Seen'[e] = IF rows'[e] # "none" THEN rows'[e]
                         ELSE IF source'[e] = None THEN "unasked" ELSE "gone"
  BY DEF Seen, Shown

\* A row that begins, ends or goes is seen to; nothing else is.
LEMMA OneIsSeen ==
    ASSUME RowsTyped, NEW e \in Exports, rows[e] # "none", source[e] # None, source' = source,
           NEW status \in {"none"} \cup Active \cup Ended, rows' = [rows EXCEPT ![e] = status]
    PROVE  Seen' = [Seen EXCEPT ![e] = IF status = "none" THEN "gone" ELSE status]
  <1>1. \A x \in Exports : Seen'[x] = IF x = e THEN IF status = "none" THEN "gone" ELSE status
                                      ELSE Seen[x]
    BY SeenIs DEF RowsTyped
  <1>2. Seen' = [x \in Exports |-> Seen'[x]] /\ Seen = [x \in Exports |-> Seen[x]]
    BY DEF Seen
  <1>3. QED BY <1>1, <1>2

\* The promise's steps, in terms of what is seen.
LEMMA PromiseSteps ==
    ASSUME NEW e \in Exports, source' = source
    PROVE  /\ /\ Seen[e] = "queued" /\ \A f \in Exports : Seen[f] # "running"
              /\ Seen' = [Seen EXCEPT ![e] = "running"]
              => Promised!Next
           /\ /\ Seen[e] = "running" /\ \E end \in Ended : Seen' = [Seen EXCEPT ![e] = end]
              => Promised!Next
           /\ Seen[e] \in Ended /\ Seen' = [Seen EXCEPT ![e] = "gone"] => Promised!Next
  <1>1. Promised!Begin(e) \/ Promised!End(e) \/ Promised!Remove(e) => Promised!Next
    BY DEF Promised!Next
  <1>2. ASSUME Seen[e] = "queued", \A f \in Exports : Seen[f] # "running",
               Seen' = [Seen EXCEPT ![e] = "running"]
        PROVE  Promised!Begin(e)
    BY <1>2 DEF Promised!Begin, Seen
  <1>3. ASSUME Seen[e] = "running", NEW end \in Ended, Seen' = [Seen EXCEPT ![e] = end]
        PROVE  Promised!End(e)
    BY <1>3 DEF Promised!End, Promised!Over, Seen, Ended
  <1>4. ASSUME Seen[e] \in Ended, Seen' = [Seen EXCEPT ![e] = "gone"]
        PROVE  Promised!Remove(e)
    BY <1>4 DEF Promised!Remove, Promised!Over, Seen, Ended
  <1>5. QED BY <1>1, <1>2, <1>3, <1>4

\* A reservation is accepted as the promise has it.
LEMMA ReserveIsAccept ==
    ASSUME Inv, NEW r \in Requests, ReserveExport(r)
    PROVE  Promised!Next
  <1> DEFINE q == requests[r]
             x == NewExport
             owner == [server |-> q.name, tenant |-> q.tenant]
  <1>1. RowsTyped
    BY DEF Inv, Table, Rest, Threads, RowsTyped
  <1>2. /\ x \in Exports /\ CanReserve(q.tenant, q.name)
        /\ rows' = [rows EXCEPT ![x] = "queued"] /\ source' = [source EXCEPT ![x] = owner]
    BY DEF ReserveExport
  <1>3. owner \in [server : Names, tenant : Tenants]
    BY DEF Inv, Threads, Thread, ReserveExport, AtReserve
  <1>4. x \notin Used /\ rows[x] = "none"
    BY <1>2, NewIsNew DEF Inv
  <1>5. source[x] = None
    BY <1>2, <1>4 DEF Used
  <1>6. ASSUME NEW f \in Exports, source[f] = owner
        PROVE  rows[f] \notin Active
    <2> SUFFICES ASSUME rows[f] \in Active
                 PROVE  FALSE
      OBVIOUS
    <2>1. f \in ActiveOf(q.tenant, q.name)
      BY <1>6 DEF ActiveOf, RowsOf, Rows, Active
    <2>2. QED BY <1>2, <2>1 DEF CanReserve
  <1> HIDE DEF x, owner
  <1>7. Seen[x] = "unasked" /\ \A f \in Exports : source[f] = owner => Seen[f] \notin {"queued", "running"}
    BY <1>2, <1>4, <1>5, <1>6, SeenIs DEF Active
  <1>8. Seen' = [Seen EXCEPT ![x] = "queued"]
    <2>1. \A e \in Exports : Seen'[e] = IF e = x THEN "queued" ELSE Seen[e]
      BY <1>1, <1>2, SeenIs DEF RowsTyped
    <2>2. Seen' = [e \in Exports |-> Seen'[e]] /\ Seen = [e \in Exports |-> Seen[e]]
      BY DEF Seen
    <2>3. QED BY <2>1, <2>2
  <1>9. Promised!Accept(x, owner)
    BY <1>2, <1>7, <1>8 DEF Promised!Accept, Promised!Known, Promised!UnderWay, Seen
  <1>10. QED BY <1>2, <1>3, <1>9 DEF Promised!Next

\* Every step keeps the promise.
LEMMA PromiseStep ==
    ASSUME Inv, Order, [Next]_vars
    PROVE  [Promised!Next]_(Promised!vars)
  <1>1. RowsTyped /\ Rows \subseteq Exports /\ \A e \in Exports : source[e] = None => rows[e] = "none"
    BY DEF Inv, Table, Rest, Threads, RowsTyped, Rows
  <1>2. CASE \E r \in Requests : ReserveExport(r)
    BY <1>2, ReserveIsAccept
  <1>3. CASE source' = source /\ Unmoved
    BY <1>3 DEF Unmoved, Promised!vars, Shown
  <1>4. ASSUME source' = source, NEW e \in Exports, Begins(e)
        PROVE  Promised!Next
    <2>1. rows[e] = "queued" /\ source[e] # None /\ Seen[e] = "queued"
      BY <1>1, <1>4, SeenIs DEF Begins
    <2>2. \A f \in Exports : Seen[f] # "running"
      <3>1. \A f \in Exports : rows[f] # "running"
        BY <1>4, ExportBoundAssumption DEF Begins, Inv, Worked, Exports
      <3>2. QED BY <3>1, SeenIs
    <2>3. Seen' = [Seen EXCEPT ![e] = "running"]
      BY <1>1, <1>4, <2>1, OneIsSeen DEF Begins, Active
    <2>4. QED BY <1>4, <2>1, <2>2, <2>3, PromiseSteps
  <1>5. ASSUME source' = source, NEW e \in Exports, NEW status \in Ended, Ends(e, status)
        PROVE  Promised!Next
    <2>1. rows[e] = "running" /\ source[e] # None /\ Seen[e] = "running"
      BY <1>1, <1>5, SeenIs DEF Ends
    <2>2. Seen' = [Seen EXCEPT ![e] = status]
      BY <1>1, <1>5, <2>1, OneIsSeen DEF Ends, Ended
    <2>3. QED BY <1>5, <2>1, <2>2, PromiseSteps
  <1>6. ASSUME source' = source, NEW e \in Exports, Leaves(e)
        PROVE  Promised!Next
    <2>1. rows[e] \in Ended /\ rows[e] # "none" /\ source[e] # None /\ Seen[e] \in Ended
      BY <1>1, <1>6, SeenIs DEF Leaves, Ended
    <2>2. Seen' = [Seen EXCEPT ![e] = "gone"]
      BY <1>1, <1>6, <2>1, OneIsSeen DEF Leaves
    <2>3. QED BY <1>6, <2>1, <2>2, PromiseSteps
  <1>7. ASSUME source' = source, NEW n \in Names, Forgotten(n)
        PROVE  Promised!Next
    <2> DEFINE K == {k \in [server : Names, tenant : Tenants] : k.server = n}
    <2>1. \A e \in Exports : source[e] # None => (source[e] \in K <=> source[e].server = n)
      BY <1>1 DEF RowsTyped
    <2>2. \A e \in Exports : Seen'[e] = IF Seen[e] # "unasked" /\ source[e] \in K THEN "gone" ELSE Seen[e]
      <3> SUFFICES ASSUME NEW e \in Exports
                   PROVE  Seen'[e] = IF Seen[e] # "unasked" /\ source[e] \in K THEN "gone" ELSE Seen[e]
        OBVIOUS
      <3>1. rows'[e] = IF rows[e] # "none" /\ source[e].server = n THEN "none" ELSE rows[e]
        BY <1>7 DEF Forgotten, RowsOf, Rows
      <3>2. CASE source[e] = None
        BY <1>1, <1>7, <3>1, <3>2, SeenIs
      <3>3. CASE source[e] # None
        <4>1. Seen[e] # "unasked"
          BY <1>1, <3>3, SeenIs DEF RowsTyped, Active, Ended
        <4>2. QED BY <1>7, <2>1, <3>1, <3>3, <4>1, SeenIs
      <3>4. QED BY <3>2, <3>3
    <2>3. K \in SUBSET [server : Names, tenant : Tenants]
      OBVIOUS
    <2> HIDE DEF K
    <2>4. Seen' = [e \in Exports |-> IF Seen[e] # "unasked" /\ source[e] \in K THEN "gone" ELSE Seen[e]]
      <3>1. Seen' = [e \in Exports |-> Seen'[e]]
        BY DEF Seen
      <3>2. QED BY <2>2, <3>1
    <2>5. Promised!Forget(K)
      BY <1>7, <2>4 DEF Promised!Forget, Promised!Known, Seen
    <2>6. QED BY <2>3, <2>5 DEF Promised!Next
  <1>8. ASSUME source' = source, NEW S \in SUBSET Rows, Recovered(S)
        PROVE  Promised!Next
    <2>1. S \in SUBSET {e \in Exports : Seen[e] # "unasked"}
      BY <1>1, SeenIs DEF Rows, RowsTyped, Active, Ended
    <2>2. \A e \in Exports : Seen'[e] = IF e \in S THEN "gone"
                                     ELSE IF Seen[e] \in {"queued", "running"} THEN "failed" ELSE Seen[e]
      <3> SUFFICES ASSUME NEW e \in Exports
                   PROVE  Seen'[e] = IF e \in S THEN "gone"
                             ELSE IF Seen[e] \in {"queued", "running"} THEN "failed" ELSE Seen[e]
        OBVIOUS
      <3>1. rows'[e] = IF e \in S THEN "none" ELSE IF rows[e] \in Active THEN "failed" ELSE rows[e]
        BY <1>8 DEF Recovered, Interrupted
      <3>2. CASE e \in S
        <4>1. source[e] # None
          BY <1>1, <3>2 DEF Rows
        <4>2. QED BY <1>8, <3>1, <3>2, <4>1, SeenIs
      <3>3. CASE e \notin S
        BY <1>8, <3>1, <3>3, SeenIs DEF Active
      <3>4. QED BY <3>2, <3>3
    <2>3. Seen' = [e \in Exports |-> IF e \in S THEN "gone"
                      ELSE IF Seen[e] \in {"queued", "running"} THEN "failed" ELSE Seen[e]]
      <3>1. Seen' = [e \in Exports |-> Seen'[e]]
        BY DEF Seen
      <3>2. QED BY <2>2, <3>1
    <2>4. Promised!Restart
      BY <1>8, <2>1, <2>3 DEF Promised!Restart, Promised!Known, Promised!UnderWay, Seen
    <2>5. QED BY <2>4 DEF Promised!Next
  <1>9. QED BY <1>2, <1>3, <1>4, <1>5, <1>6, <1>7, <1>8, RowsStep

\* For every number of threads, names and exports, with an export forgotten under
\* the worker and removed by three others: an export is accepted, begun and ended
\* one at a time, once, and none comes back.
THEOREM PromiseKept == Spec => KeepsExports
  <1>1. Init => Order
    <2> SUFFICES ASSUME Init
                 PROVE  Order
      OBVIOUS
    <2>1. worker.export = 0 /\ \A r \in Requests : requests[r] = Idle
      BY DEF Init, Resting
    <2>2. Doomed(Idle) = {}
      BY DEF Doomed, Idle
    <2>3. QED BY <2>1, <2>2 DEF Order
  <1>2. Inv /\ Order /\ [Next]_vars => Order'
    BY OrderStep
  <1>3. Spec => []Order
    BY <1>1, <1>2, SpecInv, PTL DEF Spec
  <1>4. Init => Promised!Init
    BY DEF Init, Promised!Init, Shown
  <1>5. Inv /\ Order /\ [Next]_vars => [Promised!Next]_(Promised!vars)
    BY PromiseStep
  <1>6. QED BY <1>3, <1>4, <1>5, SpecInv, PTL DEF Spec, KeepsExports, Promised!Spec
=============================================================================
