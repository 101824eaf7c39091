----------------------- MODULE ServerLifecycleProofs -----------------------
(***************************************************************************)
(* Proofs about ServerLifecycle, for every set of names, tenants and       *)
(* request threads, every cap, pool size and bound.                        *)
(***************************************************************************)
EXTENDS ServerLifecycle, FiniteSetTheorems, WellFoundedInduction, TLAPS

(* The largest element, which the event scans and the tickets rest on. *)

\* A set of numbers below a bound has a largest one, and Last is it.
LEMMA LastIsLargest ==
    ASSUME NEW k \in Nat, NEW S \in SUBSET (1 .. k), S # {}
    PROVE  Last(S) \in S /\ \A x \in S : x <= Last(S)
<1> DEFINE T == {y \in 0 .. k : k - y \in S}
<1>1. T \subseteq Nat
    OBVIOUS
<1>2. \A x \in S : k - x \in T
    OBVIOUS
<1>3. PICK m \in T : \A y \in T : ~(<<y, m>> \in OpToRel(<, Nat))
  <2>1. T # {}
    BY <1>2
  <2> QED BY <1>1, <2>1, NatLessThanWellFounded, WFMin, Zenon
<1>4. \A y \in S : y <= k - m
  <2> SUFFICES ASSUME NEW y \in S, y > k - m PROVE FALSE
    OBVIOUS
  <2>1. k - y \in T /\ k - y < m
    BY <1>2
  <2>2. <<k - y, m>> \in OpToRel(<, Nat)
    BY <1>1, <2>1 DEF OpToRel
  <2> QED BY <1>3, <2>1, <2>2
<1> QED BY <1>4 DEF Last, Max
-----------------------------------------------------------------------------
(* Type correctness.  A new ticket is one more than the largest, which is   *)
(* one only while the tickets have a bound.                                 *)

TicketsBounded == \E k \in Nat : \A j \in jobs : j.ticket \in 1 .. k

JobsOK ==
    /\ jobs \subseteq JobRecords
    /\ \A j \in jobs : j.step \in RemoveSteps => j.prior # "none"
    /\ TicketsBounded

\* What TypeOK says of everything but the jobs.
OthersOK ==
    /\ servers \in [Names -> Rows \cup {None}]
    /\ events \in [Names -> Seq(EventRecords)]
    /\ requests \in [Requests -> RequestRecords]
    /\ \A r \in Requests : RequestOK(requests[r])
    /\ cluster \in [Names -> Namespaces]
    /\ backups \subseteq Lives
    /\ history \in [lives : Paths, ready : SUBSET Lives, saved : SUBSET Lives,
                    forced : SUBSET Lives, demoted : SUBSET Lives]
    /\ budget \in [faults : 0 .. MaxFaults, crashes : 0 .. MaxCrashes]

Typed == OthersOK /\ JobsOK

\* Typed only names the parts of TypeOK.
LEMMA TypedIsTypeOK == Typed => TypeOK
BY DEF Typed, OthersOK, JobsOK, TypeOK

\* The ticket of a new job is a number, so the jobs stay typed.
LEMMA NewTicketFits ==
    ASSUME JobsOK
    PROVE  \E k \in Nat : /\ \A j \in jobs : j.ticket \in 1 .. k
                         /\ NewTicket \in 1 .. k
<1> DEFINE S == {j.ticket : j \in jobs}
<1>1. PICK k \in Nat : \A j \in jobs : j.ticket \in 1 .. k
    BY DEF JobsOK, TicketsBounded
<1>2. S \subseteq 1 .. k
    BY <1>1
<1>3. Last(S) \in 0 .. k
  <2>1. CASE S = {}
    BY <1>1, <2>1 DEF Last
  <2>2. CASE S # {}
    <3>1. Last(S) \in S
      <4> HIDE DEF S
      <4> QED BY <1>1, <1>2, <2>2, LastIsLargest
    <3> QED BY <1>2, <3>1
  <2> QED BY <2>1, <2>2
<1>4. NewTicket = Last(S) + 1
    BY DEF NewTicket
<1>5. NewTicket \in 1 .. (k + 1) /\ (k + 1) \in Nat
    BY <1>1, <1>3, <1>4
<1>6. \A j \in jobs : j.ticket \in 1 .. (k + 1)
    BY <1>1
<1> QED BY <1>5, <1>6

\* Handing a claimed row to the pool adds one well-formed job.
LEMMA SubmitKeepsJobs ==
    ASSUME JobsOK, NEW q, NEW step \in ProvisionSteps \cup RemoveSteps,
           q \in RequestRecords, q.name \in Names, q.life \in Lives,
           step \in RemoveSteps => q.status # "none", Submit(q, step)
    PROVE  JobsOK'
<1>1. PICK k \in Nat : /\ \A j \in jobs : j.ticket \in 1 .. k
                     /\ NewTicket \in 1 .. k
    BY NewTicketFits
<1> DEFINE new == [ticket |-> NewTicket, name |-> q.name, life |-> q.life, step |-> step,
                   prior |-> q.status, awake |-> q.awake, force |-> q.force]
<1>2. jobs' = jobs \cup {new}
    BY DEF Submit
<1>3. new \in JobRecords /\ new.ticket \in 1 .. k
    BY <1>1 DEF JobRecords, RequestRecords
<1>4. TicketsBounded'
    BY <1>1, <1>2, <1>3 DEF TicketsBounded
<1> QED BY <1>2, <1>3, <1>4 DEF JobsOK

\* A job that goes on to a step of its own kind stays well-formed.
LEMMA AdvanceKeepsJobs ==
    ASSUME JobsOK, NEW j \in jobs, NEW step \in ProvisionSteps \cup RemoveSteps,
           step \in RemoveSteps => j.prior # "none", Advance(j, step)
    PROVE  JobsOK'
<1> DEFINE new == [j EXCEPT !.step = step]
<1>1. jobs' = (jobs \ {j}) \cup {new}
    BY DEF Advance
<1>2. j \in JobRecords
    BY DEF JobsOK
<1>3. new \in JobRecords /\ new.ticket = j.ticket /\ new.step = step /\ new.prior = j.prior
    BY <1>2 DEF JobRecords
<1>4. TicketsBounded'
    BY <1>1, <1>3 DEF JobsOK, TicketsBounded
<1> QED BY <1>1, <1>3, <1>4 DEF JobsOK

\* A job that ends leaves the others as they were.
LEMMA DroppingAJobKeepsJobs ==
    ASSUME JobsOK, NEW j, jobs' = jobs \ {j}
    PROVE  JobsOK'
BY DEF JobsOK, TicketsBounded

\* UPDATE servers SET status keeps every row a row, or no row.
LEMMA SetStatusKeepsType ==
    ASSUME servers \in [Names -> Rows \cup {None}], NEW n \in Names, NEW status \in Statuses
    PROVE  SetStatus(n, status) \in [Names -> Rows \cup {None}]
<1>1. CASE servers[n] = None
    BY <1>1 DEF SetStatus
<1>2. CASE servers[n] # None
  <2>1. servers[n] \in Rows
    BY <1>2
  <2>2. [servers[n] EXCEPT !.status = status] \in Rows
    BY <2>1 DEF Rows
  <2>3. SetStatus(n, status) = [servers EXCEPT ![n] = [servers[n] EXCEPT !.status = status]]
    BY <1>2 DEF SetStatus
  <2> QED BY <2>2, <2>3
<1> QED BY <1>1, <1>2

\* A job that fails leaves rows and jobs well-formed.
LEMMA FailKeepsTypes ==
    ASSUME Typed, NEW j \in jobs, Fail(j)
    PROVE  JobsOK' /\ servers' \in [Names -> Rows \cup {None}]
<1>1. JobsOK'
    BY DroppingAJobKeepsJobs DEF Typed, Fail
<1>2. j \in JobRecords /\ (j.step \in RemoveSteps => j.prior # "none")
    BY DEF Typed, JobsOK
<1> DEFINE status == IF j.step \in ProvisionSteps THEN "failed" ELSE j.prior
<1>3. status \in Statuses
    BY <1>2 DEF JobRecords, ProvisionSteps, RemoveSteps, Statuses
<1>4. servers' = SetStatus(j.name, status)
    BY DEF Fail
<1> HIDE DEF status
<1>5. servers' \in [Names -> Rows \cup {None}]
    BY <1>2, <1>3, <1>4, SetStatusKeepsType DEF JobRecords, Typed, OthersOK
<1> QED BY <1>1, <1>5

\* Assigning a field of a namespace a value it may have keeps it one.
LEMMA NamespaceTypes ==
    ASSUME NEW c \in Namespaces
    PROVE  /\ \A sts \in {"none", "asleep", "up"} : [c EXCEPT !.sts = sts] \in Namespaces
           /\ \A b \in BOOLEAN : [c EXCEPT !.bound = b] \in Namespaces
           /\ \A world \in Paths : [c EXCEPT !.world = world] \in Namespaces
BY DEF Namespaces

\* The faults that are left stay within the bound.
LEMMA SpendFaultKeepsType ==
    ASSUME budget \in [faults : 0 .. MaxFaults, crashes : 0 .. MaxCrashes], SpendFault
    PROVE  budget' \in [faults : 0 .. MaxFaults, crashes : 0 .. MaxCrashes]
BY BoundAssumption DEF SpendFault

\* A cluster call keeps all types, whether it works or fails.
LEMMA CallKeepsTypes ==
    ASSUME Typed, NEW j \in jobs, NEW works, NEW done \in Namespaces,
           NEW partly \in SUBSET Namespaces, NEW next \in ProvisionSteps \cup RemoveSteps,
           next \in RemoveSteps => j.prior # "none", Call(j, works, done, partly, next)
    PROVE  Typed'
<1>1. j.name \in Names
    BY DEF Typed, JobsOK, JobRecords
<1>2. UNCHANGED <<events, requests, backups, history>>
    BY DEF Call
<1>3. \A c \in Namespaces : [cluster EXCEPT ![j.name] = c] \in [Names -> Namespaces]
    BY <1>1 DEF Typed, OthersOK
<1>4. CASE /\ cluster' = [cluster EXCEPT ![j.name] = done]
           /\ Advance(j, next)
           /\ UNCHANGED <<servers, budget>>
  <2>1. JobsOK'
    BY <1>4, AdvanceKeepsJobs DEF Typed
  <2> QED BY <1>2, <1>3, <1>4, <2>1 DEF Typed, OthersOK
<1>5. CASE /\ SpendFault \/ UNCHANGED budget
           /\ \/ UNCHANGED cluster
              \/ \E c \in partly : cluster' = [cluster EXCEPT ![j.name] = c]
           /\ Fail(j)
  <2>1. JobsOK' /\ servers' \in [Names -> Rows \cup {None}]
    BY <1>5, FailKeepsTypes
  <2>2. budget' \in [faults : 0 .. MaxFaults, crashes : 0 .. MaxCrashes]
    BY <1>5, SpendFaultKeepsType DEF Typed, OthersOK
  <2>3. cluster' \in [Names -> Namespaces]
    BY <1>3, <1>5 DEF Typed, OthersOK
  <2> QED BY <1>2, <2>1, <2>2, <2>3 DEF Typed, OthersOK
<1> QED BY <1>4, <1>5 DEF Call

\* A change of the record of one request.
LEMMA RequestKeepsTypes ==
    ASSUME Typed, NEW r \in Requests, NEW q \in RequestRecords, RequestOK(q),
           requests' = [requests EXCEPT ![r] = q]
    PROVE  requests' \in [Requests -> RequestRecords] /\ \A s \in Requests : RequestOK(requests'[s])
BY DEF Typed, OthersOK

\* A request thread that answers is idle again, and well-formed.
LEMMA AnswerKeepsTypes ==
    ASSUME Typed, NEW r \in Requests, Answer(r)
    PROVE  requests' \in [Requests -> RequestRecords] /\ \A s \in Requests : RequestOK(requests'[s])
<1>1. Idle \in RequestRecords /\ RequestOK(Idle)
    BY BoundAssumption DEF Idle, RequestRecords, RequestOK, Paths
<1> QED BY <1>1, RequestKeepsTypes DEF Answer

Pcs == {"idle", "lookup", "reserve", "provision", "check", "begin", "remove", "scale"}

\* A request record stays one when the fields the handlers assign are assigned.
Assign(q, pc, life) == [q EXCEPT !.pc = pc, !.life = life]

\* Assigning pc and life assigns those two fields and no other.
LEMMA AssignedType ==
    ASSUME NEW q \in RequestRecords, NEW pc \in Pcs, NEW life \in Paths
    PROVE  /\ Assign(q, pc, life) \in RequestRecords
           /\ Assign(q, pc, life).pc = pc
           /\ Assign(q, pc, life).life = life
           /\ Assign(q, pc, life).name = q.name
           /\ Assign(q, pc, life).tenant = q.tenant
           /\ Assign(q, pc, life).status = q.status
           /\ Assign(q, pc, life).force = q.force
<1>1. [q EXCEPT !.pc = pc] \in RequestRecords
    BY DEF RequestRecords, Pcs
<1>2. [[q EXCEPT !.pc = pc] EXCEPT !.life = life] \in RequestRecords
    BY <1>1 DEF RequestRecords
<1>3. Assign(q, pc, life) = [[q EXCEPT !.pc = pc] EXCEPT !.life = life]
    BY DEF Assign
<1> QED BY <1>2, <1>3 DEF RequestRecords

\* What a handler reads of a fresh request.
LEMMA AskedType ==
    ASSUME NEW t \in Tenants, NEW n \in Names, NEW pc \in Pcs
    PROVE  /\ Asked(pc, t, n) \in RequestRecords
           /\ Asked(pc, t, n).pc = pc
           /\ Asked(pc, t, n).name = n
           /\ Asked(pc, t, n).tenant = t
           /\ Asked(pc, t, n).status = "none"
<1> DEFINE asked == [[[Idle EXCEPT !.pc = pc] EXCEPT !.tenant = t] EXCEPT !.name = n]
<1>1. Idle \in RequestRecords /\ Idle.status = "none"
    BY BoundAssumption DEF Idle, RequestRecords, Paths
<1>2. [Idle EXCEPT !.pc = pc] \in RequestRecords
    BY <1>1 DEF RequestRecords, Pcs
<1>3. [[Idle EXCEPT !.pc = pc] EXCEPT !.tenant = t] \in RequestRecords
    BY <1>2 DEF RequestRecords
<1>4. asked \in RequestRecords
    BY <1>3 DEF RequestRecords
<1>5. Asked(pc, t, n) = asked
    BY DEF Asked
<1> QED BY <1>1, <1>4, <1>5 DEF RequestRecords

\* The event log stays a sequence of events per name.
LEMMA RecordKeepsType ==
    ASSUME Typed, NEW n \in Names, NEW e \in EventRecords, Record(n, e)
    PROVE  events' \in [Names -> Seq(EventRecords)]
BY DEF Typed, OthersOK, Record

\* The request thread of a create keeps all types.
LEMMA CreateKeepsTypes ==
    ASSUME Typed, NEW r \in Requests, Create(r)
    PROVE  Typed'
<1> DEFINE q == requests[r]
<1>0. q \in RequestRecords /\ RequestOK(q)
    BY DEF Typed, OthersOK
<1>1. ASSUME NEW t \in Tenants, NEW n \in Names, CreateStart(r, t, n) PROVE Typed'
  <2>1. RequestOK(Asked("lookup", t, n)) /\ Asked("lookup", t, n) \in RequestRecords
    BY AskedType DEF RequestOK, Pcs
  <2>2. JobsOK'
    BY <1>1 DEF CreateStart, Typed, JobsOK, TicketsBounded
  <2> QED BY <1>1, <2>1, <2>2, RequestKeepsTypes DEF CreateStart, Typed, OthersOK
<1>2. ASSUME CreateLookup(r) PROVE Typed'
  <2>1. [q EXCEPT !.pc = "reserve"] \in RequestRecords /\
        (q.pc = "lookup" => RequestOK([q EXCEPT !.pc = "reserve"]))
    BY <1>0 DEF RequestRecords, RequestOK
  <2>2. JobsOK'
    BY <1>2 DEF CreateLookup, Typed, JobsOK, TicketsBounded
  <2>3. requests' \in [Requests -> RequestRecords] /\ \A s \in Requests : RequestOK(requests'[s])
    <3>1. CASE Answer(r)
      BY <3>1, AnswerKeepsTypes
    <3>2. CASE requests' = [requests EXCEPT ![r] = [q EXCEPT !.pc = "reserve"]]
      BY <1>2, <2>1, <3>2, RequestKeepsTypes DEF CreateLookup
    <3> QED BY <1>2, <3>1, <3>2 DEF CreateLookup
  <2> QED BY <1>2, <2>2, <2>3 DEF CreateLookup, Typed, OthersOK
<1>3. ASSUME CreateReserve(r) PROVE Typed'
  <2> DEFINE life == history.lives + 1
             row == [tenant |-> q.tenant, status |-> "provisioning", life |-> life]
             next == [q EXCEPT !.pc = "provision", !.life = life]
  <2>1. JobsOK' /\ UNCHANGED <<events, cluster, backups, budget>>
    BY <1>3 DEF CreateReserve, Typed, JobsOK, TicketsBounded
  <2>2. q.name \in Names /\ q.tenant \in Tenants /\ life \in Lives
    BY <1>0, <1>3, BoundAssumption DEF CreateReserve, RequestOK, Typed, OthersOK, Lives, Paths
  <2>3. row \in Rows
    BY <2>2 DEF Rows, Statuses
  <2>4. next \in RequestRecords /\ RequestOK(next)
    <3>1. life \in Paths /\ "provision" \in Pcs
      BY <2>2 DEF Lives, Paths, Pcs
    <3>2. next = Assign(q, "provision", life)
      BY DEF Assign
    <3> HIDE DEF life, q, next
    <3>3. /\ next \in RequestRecords /\ next.pc = "provision" /\ next.life = life
          /\ next.name = q.name /\ next.tenant = q.tenant
      BY <1>0, <3>1, <3>2, AssignedType
    <3> QED BY <2>2, <3>3 DEF RequestOK
  <2>5. CASE Answer(r) /\ UNCHANGED <<servers, history>>
    BY <2>1, <2>5, AnswerKeepsTypes DEF Typed, OthersOK
  <2>6. CASE /\ servers' = [servers EXCEPT ![q.name] = row]
             /\ history' = [history EXCEPT !.lives = life]
             /\ requests' = [requests EXCEPT ![r] = next]
    <3>1. servers' \in [Names -> Rows \cup {None}]
      BY <2>2, <2>3, <2>6 DEF Typed, OthersOK
    <3>2. history' \in [lives : Paths, ready : SUBSET Lives, saved : SUBSET Lives,
                        forced : SUBSET Lives, demoted : SUBSET Lives]
      <4>1. life \in Paths
        BY <2>2 DEF Lives, Paths
      <4> HIDE DEF life
      <4> QED BY <2>6, <4>1 DEF Typed, OthersOK
    <3> QED BY <2>1, <2>4, <2>6, <3>1, <3>2, RequestKeepsTypes DEF Typed, OthersOK
  <2> QED BY <1>3, <2>5, <2>6 DEF CreateReserve
<1>4. ASSUME CreateSubmit(r) PROVE Typed'
  <2>1. JobsOK'
    BY <1>0, <1>4, SubmitKeepsJobs
       DEF CreateSubmit, RequestOK, ProvisionSteps, RemoveSteps, Typed
  <2> QED BY <1>4, <2>1, AnswerKeepsTypes DEF CreateSubmit, Typed, OthersOK
<1> QED BY <1>1, <1>2, <1>3, <1>4 DEF Create

\* The request thread of a delete keeps all types.
LEMMA DeleteKeepsTypes ==
    ASSUME Typed, NEW r \in Requests, Delete(r)
    PROVE  Typed'
<1> DEFINE q == requests[r]
<1>0. q \in RequestRecords /\ RequestOK(q)
    BY DEF Typed, OthersOK
<1>1. ASSUME NEW t \in Tenants, NEW n \in Names, NEW force \in BOOLEAN,
             DeleteStart(r, t, n, force)
      PROVE  Typed'
  <2> DEFINE next == [Asked("check", t, n) EXCEPT !.status = servers[n].status, !.force = force]
  <2>1. servers[n].status \in {"ready", "failed"}
    BY <1>1 DEF DeleteStart
  <2>2. next \in RequestRecords /\ RequestOK(next)
    <3> DEFINE asked == Asked("check", t, n)
    <3>1. /\ asked \in RequestRecords /\ asked.pc = "check"
          /\ asked.name = n /\ asked.tenant = t
      BY AskedType DEF Pcs
    <3> HIDE DEF asked
    <3>2. [asked EXCEPT !.status = servers[n].status] \in RequestRecords
      BY <2>1, <3>1 DEF RequestRecords
    <3>3. [[asked EXCEPT !.status = servers[n].status] EXCEPT !.force = force] \in RequestRecords
      BY <3>2 DEF RequestRecords
    <3>4. next = [[asked EXCEPT !.status = servers[n].status] EXCEPT !.force = force]
      BY DEF asked
    <3> QED BY <2>1, <3>1, <3>3, <3>4 DEF RequestOK, RequestRecords
  <2>3. JobsOK'
    BY <1>1 DEF DeleteStart, Typed, JobsOK, TicketsBounded
  <2> QED BY <1>1, <2>2, <2>3, RequestKeepsTypes DEF DeleteStart, Typed, OthersOK
<1>2. ASSUME DeleteCheck(r) PROVE Typed'
  <2>1. JobsOK' /\ UNCHANGED <<servers, events, cluster, backups, history>>
    BY <1>2 DEF DeleteCheck, Typed, JobsOK, TicketsBounded
  <2>2. budget' \in [faults : 0 .. MaxFaults, crashes : 0 .. MaxCrashes]
    BY <1>2, SpendFaultKeepsType DEF DeleteCheck, Typed, OthersOK
  <2>3. requests' \in [Requests -> RequestRecords] /\ \A s \in Requests : RequestOK(requests'[s])
    <3>1. CASE Answer(r)
      BY <3>1, AnswerKeepsTypes
    <3>2. ASSUME NEW awake \in BOOLEAN,
                 requests' = [requests EXCEPT ![r] = [q EXCEPT !.pc = "begin", !.awake = awake]]
          PROVE  requests' \in [Requests -> RequestRecords] /\
                 \A s \in Requests : RequestOK(requests'[s])
      <4>1. [q EXCEPT !.pc = "begin", !.awake = awake] \in RequestRecords
        BY <1>0 DEF RequestRecords
      <4>2. RequestOK([q EXCEPT !.pc = "begin", !.awake = awake])
        BY <1>0, <1>2 DEF DeleteCheck, RequestRecords, RequestOK
      <4> QED BY <3>2, <4>1, <4>2, RequestKeepsTypes
    <3> QED BY <1>2, <3>1, <3>2 DEF DeleteCheck
  <2> QED BY <2>1, <2>2, <2>3 DEF Typed, OthersOK
<1>3. ASSUME DeleteBegin(r) PROVE Typed'
  <2> DEFINE life == servers[q.name].life
             next == [q EXCEPT !.pc = "remove", !.life = life]
  <2>1. JobsOK' /\ UNCHANGED <<events, cluster, backups, budget>>
    BY <1>3 DEF DeleteBegin, Typed, JobsOK, TicketsBounded
  <2>2. CASE Answer(r) /\ UNCHANGED <<servers, history>>
    BY <2>1, <2>2, AnswerKeepsTypes DEF Typed, OthersOK
  <2>3. CASE /\ servers[q.name] # None
             /\ servers' = SetStatus(q.name, "deleting")
             /\ requests' = [requests EXCEPT ![r] = next]
             /\ history' = IF q.force THEN [history EXCEPT !.forced = @ \cup {life}] ELSE history
    <3>1. q.name \in Names /\ q.status # "none"
      BY <1>0, <1>3 DEF DeleteBegin, RequestOK
    <3>2. life \in Lives
      BY <2>3, <3>1 DEF Typed, OthersOK, Rows
    <3>3. next \in RequestRecords /\ RequestOK(next)
      <4>1. life \in Paths /\ "remove" \in Pcs
        BY <3>2 DEF Lives, Paths, Pcs
      <4>0. next = Assign(q, "remove", life)
        BY DEF Assign
      <4>3. q.tenant \in Tenants
        BY <1>0, <1>3 DEF RequestOK, DeleteBegin
      <4> HIDE DEF life, q, next
      <4>2. /\ next \in RequestRecords /\ next.pc = "remove" /\ next.life = life
            /\ next.name = q.name /\ next.tenant = q.tenant /\ next.status = q.status
        BY <1>0, <4>0, <4>1, AssignedType
      <4> QED BY <3>1, <3>2, <4>2, <4>3 DEF RequestOK
    <3>4. servers' \in [Names -> Rows \cup {None}]
      BY <2>3, <3>1, SetStatusKeepsType DEF Typed, OthersOK, Statuses
    <3>5. history' \in [lives : Paths, ready : SUBSET Lives, saved : SUBSET Lives,
                        forced : SUBSET Lives, demoted : SUBSET Lives]
      BY <2>3, <3>2 DEF Typed, OthersOK
    <3> QED BY <2>1, <2>3, <3>3, <3>4, <3>5, RequestKeepsTypes DEF Typed, OthersOK
  <2> QED BY <1>3, <2>2, <2>3 DEF DeleteBegin, CanBeginDelete
<1>4. ASSUME DeleteSubmit(r) PROVE Typed'
  <2>1. q.name \in Names /\ q.status \in {"ready", "failed"} /\ q.life \in Lives
    BY <1>0, <1>4 DEF DeleteSubmit, RequestOK, RequestRecords
  <2>2. JobsOK'
    BY <1>0, <1>4, <2>1, SubmitKeepsJobs DEF DeleteSubmit, RemoveSteps, Typed
  <2>3. Event("delete.requested", q.status, 0) \in EventRecords
    BY <2>1, BoundAssumption DEF Event, EventRecords, Paths
  <2>4. events' \in [Names -> Seq(EventRecords)]
    BY <1>4, <2>1, <2>3, RecordKeepsType DEF DeleteSubmit
  <2> QED BY <1>4, <2>2, <2>4, AnswerKeepsTypes DEF DeleteSubmit, Typed, OthersOK
<1> QED BY <1>1, <1>2, <1>3, <1>4 DEF Delete

\* The request thread of a wake keeps all types.
LEMMA WakeKeepsTypes ==
    ASSUME Typed, NEW r \in Requests, Wake(r)
    PROVE  Typed'
<1>0. requests[r] \in RequestRecords /\ RequestOK(requests[r])
    BY DEF Typed, OthersOK
<1>1. ASSUME NEW t \in Tenants, NEW n \in Names, WakeStart(r, t, n) PROVE Typed'
  <2>1. RequestOK(Asked("scale", t, n)) /\ Asked("scale", t, n) \in RequestRecords
    BY AskedType DEF RequestOK, Pcs
  <2>2. JobsOK'
    BY <1>1 DEF WakeStart, Typed, JobsOK, TicketsBounded
  <2> QED BY <1>1, <2>1, <2>2, RequestKeepsTypes DEF WakeStart, Typed, OthersOK
<1>2. ASSUME WakeScale(r) PROVE Typed'
  <2>1. JobsOK'
    BY <1>2 DEF WakeScale, Typed, JobsOK, TicketsBounded
  <2>2. requests[r].name \in Names
    BY <1>0, <1>2 DEF WakeScale, RequestOK
  <2>3. cluster' \in [Names -> Namespaces]
    <3>1. [cluster[requests[r].name] EXCEPT !.sts = "up"] \in Namespaces
      BY <2>2, NamespaceTypes DEF Typed, OthersOK
    <3> QED BY <1>2, <2>2, <3>1 DEF WakeScale, Typed, OthersOK
  <2> QED BY <1>2, <2>1, <2>3, AnswerKeepsTypes DEF WakeScale, Typed, OthersOK
<1> QED BY <1>1, <1>2 DEF Wake

\* A provisioning job keeps all types.
LEMMA ProvisionKeepsTypes ==
    ASSUME Typed, NEW j \in jobs, Provision(j)
    PROVE  Typed'
<1> DEFINE c == cluster[j.name]
<1>0. j.name \in Names /\ j.life \in Lives /\ c \in Namespaces
    BY DEF Typed, OthersOK, JobsOK, JobRecords
<1>1. ASSUME CreateNamespace(j) PROVE Typed'
  <2> DEFINE done == [c EXCEPT !.ns = IF @ = "absent" THEN "active" ELSE @]
             works == TRUE
             partly == {done}
  <2>1. done \in Namespaces
    BY <1>0 DEF Namespaces
  <2>2. partly \subseteq Namespaces
    BY <2>1
  <2>3. Call(j, works, done, partly, "access")
    BY <1>1 DEF CreateNamespace
  <2> HIDE DEF done, works, partly
  <2> QED BY <2>1, <2>2, <2>3, CallKeepsTypes DEF ProvisionSteps, RemoveSteps
<1>2. ASSUME GrantAccess(j) PROVE Typed'
  <2> DEFINE done == [c EXCEPT !.bound = TRUE]
             works == c.ns = "active" \/ Allowed(j.name)
             partly == {done}
  <2>1. done \in Namespaces
    BY <1>0 DEF Namespaces
  <2>2. partly \subseteq Namespaces
    BY <2>1
  <2>3. Call(j, works, done, partly, "credentials")
    BY <1>2 DEF GrantAccess
  <2> HIDE DEF done, works, partly
  <2> QED BY <2>1, <2>2, <2>3, CallKeepsTypes DEF ProvisionSteps, RemoveSteps
<1>3. ASSUME CreateCredentials(j) PROVE Typed'
  <2> DEFINE done == c
             works == Allowed(j.name)
             partly == {}
  <2>1. done \in Namespaces
    BY <1>0 DEF Namespaces
  <2>2. partly \subseteq Namespaces
    BY <2>1
  <2>3. Call(j, works, done, partly, "release")
    BY <1>3 DEF CreateCredentials
  <2> HIDE DEF done, works, partly
  <2> QED BY <2>1, <2>2, <2>3, CallKeepsTypes DEF ProvisionSteps, RemoveSteps
<1>4. ASSUME InstallRelease(j) PROVE Typed'
  <2> DEFINE done == [c EXCEPT !.sts = IF @ = "up" THEN @ ELSE "asleep",
                                !.world = IF @ = 0 THEN j.life ELSE @]
             works == Allowed(j.name) /\ c.ns = "active"
             partly == {done, [done EXCEPT !.sts = c.sts]}
  <2>1. done \in Namespaces
    <3>1. [c EXCEPT !.sts = IF @ = "up" THEN @ ELSE "asleep"] \in Namespaces
      BY <1>0 DEF Namespaces
    <3>2. j.life \in Paths
      BY <1>0 DEF Lives, Paths
    <3> QED BY <1>0, <3>1, <3>2 DEF Namespaces
  <2>2. partly \subseteq Namespaces
    <3> HIDE DEF done
    <3> QED BY <1>0, <2>1 DEF Namespaces
  <2>3. Call(j, works, done, partly, "scale")
    BY <1>4 DEF InstallRelease
  <2> HIDE DEF done, works, partly
  <2> QED BY <2>1, <2>2, <2>3, CallKeepsTypes DEF ProvisionSteps, RemoveSteps
<1>5. ASSUME ScaleWrapper(j) PROVE Typed'
  <2> DEFINE done == [c EXCEPT !.sts = "up"]
             works == Allowed(j.name) /\ c.sts # "none"
             partly == {done}
  <2>1. done \in Namespaces
    BY <1>0 DEF Namespaces
  <2>2. partly \subseteq Namespaces
    BY <2>1
  <2>3. Call(j, works, done, partly, "rollout")
    BY <1>5 DEF ScaleWrapper
  <2> HIDE DEF done, works, partly
  <2> QED BY <2>1, <2>2, <2>3, CallKeepsTypes DEF ProvisionSteps, RemoveSteps
<1>6. ASSUME WaitForRollout(j) PROVE Typed'
  <2> DEFINE done == c
             works == Allowed(j.name) /\ c.sts # "none"
             partly == {}
  <2>1. done \in Namespaces
    BY <1>0 DEF Namespaces
  <2>2. partly \subseteq Namespaces
    BY <2>1
  <2>3. Call(j, works, done, partly, "ready")
    BY <1>6 DEF WaitForRollout
  <2> HIDE DEF done, works, partly
  <2> QED BY <2>1, <2>2, <2>3, CallKeepsTypes DEF ProvisionSteps, RemoveSteps
<1>7. ASSUME ProvisionDone(j) PROVE Typed'
  <2>1. JobsOK'
    BY <1>7, DroppingAJobKeepsJobs DEF ProvisionDone, Typed
  <2>2. servers' \in [Names -> Rows \cup {None}]
    BY <1>0, <1>7, SetStatusKeepsType DEF ProvisionDone, Typed, OthersOK, Statuses
  <2>3. history' \in [lives : Paths, ready : SUBSET Lives, saved : SUBSET Lives,
                      forced : SUBSET Lives, demoted : SUBSET Lives]
    BY <1>0, <1>7 DEF ProvisionDone, Typed, OthersOK
  <2> QED BY <1>7, <2>1, <2>2, <2>3 DEF ProvisionDone, Typed, OthersOK
<1> QED BY <1>1, <1>2, <1>3, <1>4, <1>5, <1>6, <1>7 DEF Provision

\* What BackupStillOnDisk answers is 0 or a path on record.
LEMMA BackupOnDiskType ==
    ASSUME Typed, NEW n \in Names
    PROVE  BackupStillOnDisk(n) \in Paths
<1> DEFINE start == Last(EventsOf(n, {"delete"}))
           found == {i \in EventsOf(n, {"backup", "backup.reused"}) :
                         i > start /\ events[n][i].path \in backups}
<1>1. BackupStillOnDisk(n) = IF found = {} THEN 0 ELSE events[n][Last(found)].path
    BY DEF BackupStillOnDisk
<1>2. events[n] \in Seq(EventRecords)
    BY DEF Typed, OthersOK
<1>3. found \subseteq DOMAIN events[n]
    BY DEF EventsOf
<1>4. CASE found # {}
  <2>1. found \in SUBSET (1 .. Len(events[n])) /\ Len(events[n]) \in Nat
    BY <1>2, <1>3
  <2> HIDE DEF found
  <2>2. Last(found) \in found
    BY <1>4, <2>1, LastIsLargest
  <2>3. events[n][Last(found)] \in EventRecords
    BY <1>2, <2>1, <2>2
  <2> QED BY <1>1, <1>4, <2>3 DEF EventRecords
<1> QED BY <1>1, <1>4, BoundAssumption DEF Paths

\* A removing job keeps all types.
LEMMA RemoveKeepsTypes ==
    ASSUME Typed, NEW j \in jobs, Remove(j)
    PROVE  Typed'
<1> DEFINE c == cluster[j.name]
<1>0. /\ j.name \in Names /\ j.life \in Lives /\ c \in Namespaces
      /\ j.step \in RemoveSteps => j.prior # "none"
    BY DEF Typed, OthersOK, JobsOK, JobRecords
<1>1. ASSUME BackUpWorld(j) PROVE Typed'
  <2>1. JobsOK'
    BY <1>0, <1>1, AdvanceKeepsJobs DEF BackUpWorld, At, RemoveSteps, Typed
  <2>2. c.world \in Lives
    BY <1>0, <1>1 DEF BackUpWorld, CanBackUp, Namespaces, Lives, Paths
  <2>3. history' \in [lives : Paths, ready : SUBSET Lives, saved : SUBSET Lives,
                      forced : SUBSET Lives, demoted : SUBSET Lives]
    BY <1>1, <2>2 DEF BackUpWorld, Typed, OthersOK
  <2>4. Event("backup", "none", c.world) \in EventRecords
    BY <1>0 DEF Event, EventRecords, Namespaces
  <2>5. events' \in [Names -> Seq(EventRecords)]
    BY <1>0, <1>1, <2>4, RecordKeepsType DEF BackUpWorld
  <2> QED BY <1>1, <2>1, <2>2, <2>3, <2>5 DEF BackUpWorld, Typed, OthersOK
<1>2. ASSUME DoWithoutBackup(j) PROVE Typed'
  <2> DEFINE reused == BackupStillOnDisk(j.name)
  <2>1. budget' \in [faults : 0 .. MaxFaults, crashes : 0 .. MaxCrashes]
    BY <1>2, SpendFaultKeepsType DEF DoWithoutBackup, Typed, OthersOK
  <2>2. UNCHANGED <<requests, cluster, backups, history>>
    BY <1>2 DEF DoWithoutBackup
  <2>3. CASE Advance(j, "uninstall") /\ UNCHANGED servers
    <3>1. JobsOK'
      BY <1>0, <1>2, <2>3, AdvanceKeepsJobs DEF DoWithoutBackup, At, RemoveSteps, Typed
    <3>2. events' \in [Names -> Seq(EventRecords)]
      <4>1. CASE Record(j.name, Event("backup.reused", "none", reused))
        <5>1. Event("backup.reused", "none", reused) \in EventRecords
          BY <1>0, BackupOnDiskType DEF Event, EventRecords
        <5> QED BY <1>0, <4>1, <5>1, RecordKeepsType
      <4>2. CASE UNCHANGED events
        BY <4>2 DEF Typed, OthersOK
      <4> QED BY <1>2, <4>1, <4>2 DEF DoWithoutBackup
    <3> QED BY <2>1, <2>2, <2>3, <3>1, <3>2 DEF Typed, OthersOK
  <2>4. CASE Fail(j) /\ UNCHANGED events
    BY <2>1, <2>2, <2>4, FailKeepsTypes DEF Typed, OthersOK
  <2> QED BY <1>2, <2>3, <2>4 DEF DoWithoutBackup
<1>3. ASSUME UninstallRelease(j) PROVE Typed'
  <2> DEFINE done == [c EXCEPT !.sts = "none", !.world = 0]
             works == Allowed(j.name)
             partly == {done, [c EXCEPT !.sts = "none"]}
  <2>1. done \in Namespaces
    <3> DEFINE stopped == [c EXCEPT !.sts = "none"]
    <3>0. 0 \in Paths
      BY BoundAssumption DEF Paths
    <3>1. stopped \in Namespaces
      <4> HIDE DEF c
      <4> QED BY <1>0, NamespaceTypes
    <3>2. [stopped EXCEPT !.world = 0] \in Namespaces
      <4> HIDE DEF stopped
      <4> QED BY <3>0, <3>1, NamespaceTypes
    <3>3. done = [[c EXCEPT !.sts = "none"] EXCEPT !.world = 0]
      OBVIOUS
    <3> QED BY <3>2, <3>3
  <2>2. partly \subseteq Namespaces
    BY <1>0, <2>1 DEF Namespaces
  <2>3. Call(j, works, done, partly, "delete namespace")
    BY <1>3 DEF UninstallRelease
  <2> HIDE DEF done, works, partly
  <2> QED BY <2>1, <2>2, <2>3, CallKeepsTypes, <1>0, <1>3 DEF UninstallRelease, At, ProvisionSteps, RemoveSteps
<1>4. ASSUME DeleteNamespace(j) PROVE Typed'
  <2> DEFINE done == [c EXCEPT !.ns = IF @ = "active" THEN "terminating" ELSE @]
             works == TRUE
             partly == {done}
  <2>1. done \in Namespaces
    BY <1>0 DEF Namespaces
  <2>2. partly \subseteq Namespaces
    BY <2>1
  <2>3. Call(j, works, done, partly, "delete row")
    BY <1>4 DEF DeleteNamespace
  <2> HIDE DEF done, works, partly
  <2> QED BY <2>1, <2>2, <2>3, CallKeepsTypes, <1>0, <1>4 DEF DeleteNamespace, At, ProvisionSteps, RemoveSteps
<1>5. ASSUME DeleteRow(j) PROVE Typed'
  <2>1. JobsOK'
    BY <1>0, <1>5, AdvanceKeepsJobs DEF DeleteRow, At, RemoveSteps, Typed
  <2>2. servers' \in [Names -> Rows \cup {None}]
    BY <1>5 DEF DeleteRow, Typed, OthersOK
  <2> QED BY <1>5, <2>1, <2>2 DEF DeleteRow, Typed, OthersOK
<1>6. ASSUME RecordDelete(j) PROVE Typed'
  <2>1. JobsOK'
    BY <1>6, DroppingAJobKeepsJobs DEF RecordDelete, Typed
  <2>2. Event("delete", "none", 0) \in EventRecords
    BY BoundAssumption DEF Event, EventRecords, Paths
  <2>3. events' \in [Names -> Seq(EventRecords)]
    BY <1>0, <1>6, <2>2, RecordKeepsType DEF RecordDelete
  <2> QED BY <1>6, <2>1, <2>3 DEF RecordDelete, Typed, OthersOK
<1> QED BY <1>1, <1>2, <1>3, <1>4, <1>5, <1>6 DEF Remove

\* recover_interrupted keeps all types.
LEMMA RestartKeepsTypes == Typed /\ Restart => Typed'
<1> SUFFICES ASSUME Typed, Restart PROVE Typed'
    OBVIOUS
<1> DEFINE rows == {n \in Names : servers[n] # None}
           demoted == {n \in rows : servers[n].status = "deleting" /\ Recovered(n) = "failed"}
<1>1. JobsOK'
  <2>1. jobs' = {}
    BY DEF Restart
  <2> QED BY <2>1 DEF JobsOK, TicketsBounded
<1>2. requests' \in [Requests -> RequestRecords] /\ \A r \in Requests : RequestOK(requests'[r])
  <2>1. Idle \in RequestRecords /\ RequestOK(Idle)
    BY BoundAssumption DEF Idle, RequestRecords, RequestOK, Paths
  <2> QED BY <2>1 DEF Restart
<1>3. \A n \in rows : servers[n] \in Rows /\ servers[n].life \in Lives
    BY DEF Typed, OthersOK, Rows
<1>4. \A n \in rows : Recovered(n) \in Statuses
  <2>1. \A n \in Names : StatusBeforeDelete(n) \in {"ready", "failed"}
    BY DEF StatusBeforeDelete
  <2>2. \A n \in rows : servers[n].status \in Statuses
    BY <1>3 DEF Rows
  <2> QED BY <2>1, <2>2 DEF Recovered, Statuses
<1>5. servers' \in [Names -> Rows \cup {None}]
  <2>1. \A n \in rows : [servers[n] EXCEPT !.status = Recovered(n)] \in Rows
    BY <1>3, <1>4 DEF Rows
  <2>2. servers' = [n \in Names |->
                      IF n \in rows THEN [servers[n] EXCEPT !.status = Recovered(n)] ELSE None]
    BY DEF Restart
  <2> QED BY <2>1, <2>2
<1>6. history' \in [lives : Paths, ready : SUBSET Lives, saved : SUBSET Lives,
                    forced : SUBSET Lives, demoted : SUBSET Lives]
  <2> DEFINE lost == {servers[n].life : n \in demoted}
  <2>1. lost \subseteq Lives
    BY <1>3
  <2>2. history' = [history EXCEPT !.demoted = @ \cup lost]
    BY DEF Restart
  <2> HIDE DEF lost
  <2> QED BY <2>1, <2>2 DEF Typed, OthersOK
<1>7. budget' \in [faults : 0 .. MaxFaults, crashes : 0 .. MaxCrashes]
  <2>1. budget.crashes > 0 /\ budget' = [budget EXCEPT !.crashes = @ - 1]
    BY DEF Restart
  <2>2. budget \in [faults : 0 .. MaxFaults, crashes : 0 .. MaxCrashes]
    BY DEF Typed, OthersOK
  <2>3. budget.crashes - 1 \in 0 .. MaxCrashes
    BY <2>1, <2>2, BoundAssumption
  <2> QED BY <2>1, <2>2, <2>3
<1> QED BY <1>1, <1>2, <1>5, <1>6, <1>7 DEF Restart, Typed, OthersOK

\* What goes on around the program keeps all types.
LEMMA EnvironmentKeepsTypes == Typed /\ Environment => Typed'
<1> SUFFICES ASSUME Typed, Environment PROVE Typed'
    OBVIOUS
<1>1. JobsOK'
    BY DEF Environment, NamespaceDrains, PodScales, PruneBackup, Typed, JobsOK, TicketsBounded
<1>2. ASSUME NEW n \in Names, NamespaceDrains(n) PROVE Typed'
  <2>1. Absent \in Namespaces
    BY BoundAssumption DEF Absent, Namespaces, Paths
  <2>2. [cluster[n] EXCEPT !.bound = FALSE] \in Namespaces
    BY NamespaceTypes DEF Typed, OthersOK
  <2>3. cluster' \in [Names -> Namespaces]
    BY <1>2, <2>1, <2>2 DEF NamespaceDrains, Typed, OthersOK
  <2> QED BY <1>1, <1>2, <2>3 DEF NamespaceDrains, Typed, OthersOK
<1>3. ASSUME NEW n \in Names, PodScales(n) PROVE Typed'
  <2>1. [cluster[n] EXCEPT !.sts = IF @ = "up" THEN "asleep" ELSE "up"] \in Namespaces
    BY NamespaceTypes DEF Typed, OthersOK
  <2>2. cluster' \in [Names -> Namespaces]
    BY <1>3, <2>1 DEF PodScales, Typed, OthersOK
  <2> QED BY <1>1, <1>3, <2>2 DEF PodScales, Typed, OthersOK
<1>4. ASSUME NEW path \in Lives, PruneBackup(path) PROVE Typed'
    BY <1>1, <1>4 DEF PruneBackup, Typed, OthersOK
<1> QED BY <1>2, <1>3, <1>4 DEF Environment

\* The empty database is well-typed.
LEMMA TypedInit == Init => Typed
<1> SUFFICES ASSUME Init PROVE Typed
    OBVIOUS
<1>1. JobsOK
    BY DEF Init, JobsOK, TicketsBounded
<1>2. Idle \in RequestRecords /\ RequestOK(Idle)
    BY BoundAssumption DEF Idle, RequestRecords, RequestOK, Paths
<1>3. [ns |-> "absent", bound |-> FALSE, sts |-> "none", world |-> 0] \in Namespaces
    BY BoundAssumption DEF Namespaces, Paths
<1>4. <<>> \in Seq(EventRecords)
    OBVIOUS
<1>5. history \in [lives : Paths, ready : SUBSET Lives, saved : SUBSET Lives,
                   forced : SUBSET Lives, demoted : SUBSET Lives]
    BY BoundAssumption DEF Init, Paths
<1>6. budget \in [faults : 0 .. MaxFaults, crashes : 0 .. MaxCrashes]
    BY BoundAssumption DEF Init
<1> QED BY <1>1, <1>2, <1>3, <1>4, <1>5, <1>6 DEF Init, Typed, OthersOK

\* Every step keeps all types.
LEMMA TypedNext == Typed /\ [Next]_vars => Typed'
<1> SUFFICES ASSUME Typed, [Next]_vars PROVE Typed'
    OBVIOUS
<1>1. CASE UNCHANGED vars
    BY <1>1 DEF vars, Typed, OthersOK, JobsOK, TicketsBounded
<1>2. CASE Next
    BY <1>2, CreateKeepsTypes, DeleteKeepsTypes, WakeKeepsTypes, ProvisionKeepsTypes,
       RemoveKeepsTypes, RestartKeepsTypes, EnvironmentKeepsTypes DEF Next, JobStep
<1> QED BY <1>1, <1>2

\* Every reachable state is one the tables, the threads and kubectl can hold.
THEOREM TypeCorrect == Spec => []TypeOK
<1>1. Spec => []Typed
    BY TypedInit, TypedNext, PTL DEF Spec
<1> QED BY <1>1, TypedIsTypeOK, PTL
=============================================================================
