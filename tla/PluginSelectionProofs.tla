------------------------ MODULE PluginSelectionProofs ------------------------
(***************************************************************************)
(* Proofs about PluginSelection: for every catalog, default list, number   *)
(* of threads, requests, servers, failing calls and restarts, one change   *)
(* at a time holds the lock, what is selected has what it requires, what   *)
(* was removed stays removed, the ConfigMap, its hash and the rows agree   *)
(* while no change is under way, each change is one step of the            *)
(* SelectionLedger, and whatever was cut off half-way, the server boots    *)
(* with all that its plugins require.                                      *)
(*                                                                         *)
(* The lock protects the selection from other changes only: views seed it, *)
(* and the jobs that create and delete the server write it without the     *)
(* lock.  The invariant therefore says of the change that holds the lock   *)
(* what it still knows (Holder), given that the server is the one it was   *)
(* checked against; and of a server that is not yet created what its job   *)
(* and the views may have written so far (Fresh).  What boots is the text  *)
(* of rows that are pinned to their jars, and nothing once the release is  *)
(* gone (Whole).                                                           *)
(***************************************************************************)
EXTENDS PluginSelection, TLAPS

Creating == {"namespace", "configmap", "rows", "hash", "install", "rollout"}

Typed ==
    /\ TypeOK
    /\ history \in [torn : BOOLEAN, stray : BOOLEAN, foreign : BOOLEAN, removed : SUBSET Plugins]
    /\ Is("deleting") => ledger[Name].was \in {"ready", "failed"}
    /\ job \in Creating <=> Is("provisioning")

\* An add of slug that had read these rows chose the change from some catalog.
Decided(slug, read, change) ==
    \E c \in DOMAIN Catalogs :
        /\ Needed(c, slug, Slugs(read)) \subseteq Offered(c) /\ Needed(c, slug, Slugs(read)) # {}
        /\ slug \in Offered(c)
        /\ change = {Entry(c, p) : p \in Needed(c, slug, Slugs(read))}

\* What an add or a remove may still do when it has read q.read.
Plan(q) ==
    /\ q.op = "add" =>
         /\ Decided(q.slug, q.read, q.change)
         /\ \A w \in q.change : w.requires \subseteq Slugs(q.read) \cup Slugs(q.change)
         /\ Slugs(q.read) \cap Slugs(q.change) = {}
    /\ q.op = "remove" =>
         /\ q.slug \in Slugs(q.read)
         /\ \A w \in q.read : q.slug \in w.requires => w.slug = q.slug
         /\ q.change = {w \in q.read : w.slug = q.slug}

Coherent(q) ==
    /\ q.pc = "lock" => q.op \in {"add", "remove"} /\ q.slug \in Plugins
    /\ q.pc = "seed" => q.op \in {"add", "remove", "view"}
    /\ q.pc \in {"state", "hashes"} => q.op = "view"
    /\ q.pc = "catalog" => q.op \in {"add", "view"}
    /\ q.pc \in {"read", "write", "hash", "rows"} => q.op \in {"add", "remove"}
    /\ q.op \in {"add", "remove"} => q.slug \in Plugins
    /\ q.life <= lives
    /\ q.pc \in {"write", "hash", "rows"} => Plan(q)

Threads == LockHeld /\ \A r \in Requests : Coherent(requests[r])

\* What the change that holds the lock relies on, as long as its server is there.
Holds(q) ==
    /\ job \notin Creating
    /\ q.pc \in {"read", "catalog", "write", "hash", "rows"} => state # None
    /\ q.pc \in {"catalog", "write", "hash", "rows"} => rows = q.read
    /\ q.pc \in {"hash", "rows"} /\ namespace => configMap = Text(Target(q))
    /\ q.pc = "rows" => state.written = Text(Target(q))

Holder == \A r \in Requests : Changing(r) /\ SameServer(requests[r]) => Holds(requests[r])

Quiet == lock = None \/ requests[lock].pc \in {"seed", "read", "catalog", "write"}
Clean == ~history.torn /\ ~history.stray

\* What has been seeded, and not yet changed.
Seeded == ~history.stray =>
    /\ state = None => rows = {} /\ history.removed = {}
    /\ (Gone \/ job \in {"namespace", "configmap", "rows", "hash"}) /\ state # None => rows = DefaultRows

Places ==
    /\ ~namespace => configMap = None
    /\ Gone \/ job \in {"namespace", "forget"} => ~namespace
    /\ job \in Creating \ {"namespace"} => namespace

Fresh == Clean /\ Quiet =>
    /\ (Gone \/ job \in {"namespace", "configmap", "rows"}) /\ state # None => state.written = None
    /\ job \in {"rows", "hash"} => configMap = Text(DefaultRows)
    /\ job = "hash" => state # None

Agrees == Clean /\ Quiet /\ ~Gone /\ namespace /\ job \notin {"rows", "hash"} =>
    /\ state = None => configMap = None
    /\ state # None => state.written = configMap /\ (configMap # None => configMap = Text(rows))

-----------------------------------------------------------------------------
(* Rows, texts and catalogs                                                  *)

\* A catalog gives each of its slugs a set of slugs.
LEMMA OfferIsOne ==
    ASSUME NEW c \in Offers
    PROVE  DOMAIN c \subseteq Plugins /\ \A p \in DOMAIN c : c[p] \subseteq Plugins
  <1>1. PICK S \in SUBSET Plugins : c \in [S -> SUBSET Plugins]
    BY DEF Offers
  <1>2. QED BY <1>1

\* The rows of the default list.
LEMMA DefaultsAreRows ==
    /\ DefaultRows \subseteq AllRows
    /\ \A w \in DefaultRows : w.requires \subseteq Slugs(DefaultRows)
  <1>1. DOMAIN Defaults \subseteq Plugins /\ \A p \in DOMAIN Defaults : Defaults[p] \subseteq Plugins
    BY DefaultsAssumption, OfferIsOne
  <1>2. Len(Catalogs) \in Nat
    BY CatalogsAssumption
  <1>3. 0 \in 0 .. Len(Catalogs)
    BY <1>2
  <1>4. ASSUME NEW w \in DefaultRows
        PROVE  w \in AllRows /\ w.requires \subseteq Slugs(DefaultRows)
    <2>1. PICK p \in DOMAIN Defaults : w = [slug |-> p, tag |-> 0, requires |-> Defaults[p]]
      BY DEF DefaultRows, Row
    <2>2. w \in AllRows
      BY <1>1, <1>3, <2>1 DEF AllRows
    <2>3. DOMAIN Defaults \subseteq Slugs(DefaultRows)
      <3> SUFFICES ASSUME NEW d \in DOMAIN Defaults
                   PROVE  d \in Slugs(DefaultRows)
        OBVIOUS
      <3>1. Row(d, 0, Defaults[d]) \in DefaultRows
        BY DEF DefaultRows
      <3>2. Row(d, 0, Defaults[d]).slug = d
        BY DEF Row
      <3>3. QED BY <3>1, <3>2 DEF Slugs
    <2>4. w.requires \subseteq DOMAIN Defaults
      BY <2>1, DefaultsAssumption
    <2>5. QED BY <2>2, <2>3, <2>4
  <1>5. QED BY <1>4

\* What a catalog, with the extras, offers of a plugin.
LEMMA EntryIsRow ==
    ASSUME NEW c \in DOMAIN Catalogs, NEW p \in Offered(c)
    PROVE  /\ Entry(c, p) \in AllRows /\ Entry(c, p).slug = p
           /\ Entry(c, p).requires = RequiredBy(c, p)
  <1>1. Catalogs[c] \in Offers /\ c \in 0 .. Len(Catalogs) /\ 0 \in 0 .. Len(Catalogs)
    BY CatalogsAssumption
  <1>2. DOMAIN Catalogs[c] \subseteq Plugins /\ \A x \in DOMAIN Catalogs[c] : Catalogs[c][x] \subseteq Plugins
    BY <1>1, OfferIsOne
  <1>3. DOMAIN Defaults \subseteq Plugins /\ \A x \in DOMAIN Defaults : Defaults[x] \subseteq Plugins
    BY DefaultsAssumption, OfferIsOne
  <1>4. CASE p \in Extras
    <2>1. p \in DOMAIN Defaults
      BY <1>4, DefaultsAssumption
    <2>2. QED BY <1>1, <1>3, <1>4, <2>1 DEF Entry, Row, AllRows, RequiredBy
  <1>5. CASE p \notin Extras
    <2>1. p \in DOMAIN Catalogs[c]
      BY <1>5 DEF Offered
    <2>2. QED BY <1>1, <1>2, <1>5, <2>1 DEF Entry, Row, AllRows, RequiredBy
  <1>6. QED BY <1>4, <1>5

\* The text of a selection.
LEMMA TextIsText ==
    ASSUME NEW S \in SUBSET AllRows
    PROVE  Text(S) \in Texts
  BY DEF Text, Texts, AllRows

\* Inserting by slug adds the slugs there are, and no slug twice.
LEMMA InsertedSlugs ==
    ASSUME NEW S, NEW T
    PROVE  Slugs(Inserted(S, T)) = Slugs(S) \cup Slugs(T)
  BY DEF Slugs, Inserted

\* Two selections that have what they require, or each what the other lacks,
\* have it together.
LEMMA InsertedIsClosed ==
    ASSUME NEW S, NEW T,
           \A w \in S : w.requires \subseteq Slugs(S) \cup Slugs(T),
           \A w \in T : w.requires \subseteq Slugs(S) \cup Slugs(T)
    PROVE  \A w \in Inserted(S, T) : w.requires \subseteq Slugs(Inserted(S, T))
  <1>1. Slugs(Inserted(S, T)) = Slugs(S) \cup Slugs(T)
    BY InsertedSlugs
  <1>2. Inserted(S, T) \subseteq S \cup T
    BY DEF Inserted
  <1>3. QED BY <1>1, <1>2

\* What add puts in its queue has, with what is selected, all it requires.
LEMMA NeededIsClosed ==
    ASSUME NEW c, NEW p \in Plugins, NEW have, NEW q \in Needed(c, p, have)
    PROVE  RequiredBy(c, q) \cap Plugins \subseteq Needed(c, p, have) \cup have
  <1> SUFFICES ASSUME NEW x \in RequiredBy(c, q), x \in Plugins, x \notin have
               PROVE  x \in Needed(c, p, have)
    OBVIOUS
  <1>1. ASSUME NEW S \in SUBSET Plugins, p \in S, \A s \in S \ have : RequiredBy(c, s) \subseteq S
        PROVE  x \in S
    <2>1. q \in S /\ q \notin have
      BY <1>1 DEF Needed
    <2>2. QED BY <1>1, <2>1
  <1>2. QED BY <1>1 DEF Needed

-----------------------------------------------------------------------------
(* The server and its job                                                    *)

ServerTyped ==
    /\ ledger \in [{Name} -> {None} \cup ServerRows]
    /\ lives \in Nat /\ job \in Jobs \cup {"none"}
    /\ job # "none" <=> Is("provisioning") \/ Is("deleting")
    /\ job \in Creating <=> Is("provisioning")
    /\ Is("deleting") => ledger[Name].was \in {"ready", "failed"}

\* A thread leaves the server and its job alone.
LEMMA ThreadsLeaveServer ==
    ASSUME NEW r \in Requests, Change(r) \/ Proceed(r) \/ Look(r)
    PROVE  UNCHANGED <<ledger, restarts, lives, job>>
  <1>1. CASE Change(r)
    BY <1>1 DEF Change, Begin, WriteConfigMap, WriteFails, serverSide, rest, serverVars
  <1>2. CASE Look(r)
    BY <1>2 DEF Look, View, GetState, Apply, RestartPod, serverSide, rest, serverVars
  <1>3. CASE Proceed(r)
    BY <1>3 DEF Proceed, Acquire, GiveUp, SeedSelection, ReadToAdd, ReadToRemove, Serve, Fetch,
         CatalogUnavailable, StoreHash, StoreFails, StoreRows, ReadHashes, ReadReport, StoreApplied,
         serverSide, rest, serverVars
  <1>4. QED BY <1>1, <1>2, <1>3

\* Every step leaves the row and its job in step.
LEMMA ServerStep ==
    ASSUME Typed, [Next]_vars
    PROVE  ServerTyped'
  <1>1. ServerTyped
    BY DEF Typed, TypeOK, ServerTyped
  <1> DEFINE L == ledger[Name]
  <1>2. CASE UNCHANGED <<ledger, lives, job>>
    BY <1>1, <1>2 DEF ServerTyped, Is, Servers!Is
  <1>3. ASSUME NEW x, ledger' = [ledger EXCEPT ![Name] = x], x = None \/ x \in ServerRows,
               lives' \in Nat, job' \in Jobs \cup {"none"},
               x = None => job' = "none",
               x # None => /\ job' # "none" <=> x.status \in {"provisioning", "deleting"}
                           /\ job' \in Creating <=> x.status = "provisioning"
                           /\ x.status = "deleting" => x.was \in {"ready", "failed"}
        PROVE  ServerTyped'
    <2>1. ledger'[Name] = x /\ ledger' \in [{Name} -> {None} \cup ServerRows]
      BY <1>1, <1>3 DEF ServerTyped
    <2>2. QED BY <1>3, <2>1 DEF ServerTyped, Is, Servers!Is, Creating
  <1>4. CASE UNCHANGED vars
    BY <1>2, <1>4 DEF vars, serverVars
  <1>5. CASE \E r \in Requests : Change(r) \/ Proceed(r) \/ Look(r)
    BY <1>2, <1>5, ThreadsLeaveServer
  <1>6. CASE Boot \/ ChangePod
    BY <1>2, <1>6 DEF Boot, ChangePod, podRest, serverVars
  <1>7. ASSUME UNCHANGED <<ledger, lives>>, job \in Creating, job' \in Creating
        PROVE  ServerTyped'
    BY <1>1, <1>7 DEF ServerTyped, Is, Servers!Is, Creating, Jobs
  <1>8. CASE MakeNamespace \/ SeedConfigMap \/ SeedServer \/ SeedHash \/ Install
    BY <1>7, <1>8 DEF MakeNamespace, SeedConfigMap, SeedServer, SeedHash, Install, serverVars, Creating
  <1>9. CASE Uninstall \/ DeleteNamespace
    BY <1>1, <1>9 DEF ServerTyped, Is, Servers!Is, Uninstall, DeleteNamespace, serverVars, Creating, Jobs
  <1>10. ASSUME NEW t \in Tenants, Create(t)
         PROVE  ServerTyped'
    <2>1. /\ ledger' = [ledger EXCEPT ![Name] =
                          [tenant |-> t, status |-> "provisioning", was |-> "none"]]
          /\ lives' = lives + 1 /\ job' = "namespace"
      BY <1>10 DEF Create, Servers!Accept
    <2> DEFINE x == [tenant |-> t, status |-> "provisioning", was |-> "none"]
    <2>2. x \in ServerRows /\ x.status = "provisioning"
      BY DEF ServerRows
    <2>3. ledger' = [ledger EXCEPT ![Name] = x]
      BY <2>1
    <2> HIDE DEF x
    <2>4. x # None
      BY <2>2, NoneAssumption
    <2>5. lives' \in Nat /\ job' \in Jobs \cup {"none"} /\ job' \in Creating /\ job' # "none"
      BY <1>1, <2>1 DEF ServerTyped, Creating, Jobs
    <2>6. QED BY <1>3, <2>2, <2>3, <2>4, <2>5
  <1>11. ASSUME job' = "none", lives' = lives, L # None,
                NEW end \in {"ready", "failed"}, NEW was \in {"none", "ready", "failed"},
                ledger' = [ledger EXCEPT ![Name] = [[L EXCEPT !.status = end] EXCEPT !.was = was]]
         PROVE  ServerTyped'
    <2>1. L \in ServerRows
      BY <1>1, <1>11 DEF ServerTyped
    <2> DEFINE x == [[L EXCEPT !.status = end] EXCEPT !.was = was]
    <2>2. x \in ServerRows /\ x.status = end
      BY <1>11, <2>1 DEF ServerRows
    <2> HIDE DEF x
    <2>3. QED BY <1>1, <1>3, <1>11, <2>2, NoneAssumption DEF ServerTyped, Creating, x
  <1>12. CASE Rollout \/ CreateFails
    <2>1. job' = "none" /\ lives' = lives /\ Servers!Created(Name)
      BY <1>12 DEF Rollout, CreateFails
    <2>2. PICK end \in {"ready", "failed"} :
              ledger' = [ledger EXCEPT ![Name] = [[L EXCEPT !.status = end] EXCEPT !.was = "none"]]
      BY <1>1, <2>1 DEF Servers!Created, Servers!Put, ServerTyped
    <2>3. L # None
      BY <2>1 DEF Servers!Created, Servers!Is
    <2>4. QED BY <1>11, <2>1, <2>2, <2>3
  <1>13. CASE DeleteFails
    <2>1. job' = "none" /\ lives' = lives /\ Servers!PutBack(Name)
      BY <1>13 DEF DeleteFails
    <2>2. L # None /\ L.was \in {"ready", "failed"}
      BY <1>1, <2>1 DEF Servers!PutBack, Servers!Is, ServerTyped, Is
    <2>3. ledger' = [ledger EXCEPT ![Name] = [[L EXCEPT !.status = L.was] EXCEPT !.was = "none"]]
      BY <1>1, <2>1 DEF Servers!PutBack, Servers!Put, ServerTyped
    <2>4. QED BY <1>11, <2>1, <2>2, <2>3
  <1>14. CASE Delete
    <2>1. job' = "uninstall" /\ lives' = lives /\ Servers!AcceptDelete(Name)
      BY <1>14 DEF Delete
    <2>2. PICK was \in {"ready", "failed"} : L # None /\
              ledger' = [ledger EXCEPT ![Name] = [[L EXCEPT !.status = "deleting"] EXCEPT !.was = was]]
      BY <1>1, <2>1 DEF Servers!AcceptDelete, Servers!Put, Servers!Is, ServerTyped
    <2>3. L \in ServerRows
      BY <1>1, <2>2 DEF ServerTyped
    <2> DEFINE x == [[L EXCEPT !.status = "deleting"] EXCEPT !.was = was]
    <2>4. x \in ServerRows /\ x.status = "deleting" /\ x.was = was
      BY <2>3 DEF ServerRows
    <2> HIDE DEF x
    <2>5. ledger' = [ledger EXCEPT ![Name] = x]
      BY <2>2 DEF x
    <2>6. QED BY <1>1, <1>3, <2>1, <2>4, <2>5, NoneAssumption DEF ServerTyped, Creating, Jobs
  <1>15. CASE ForgetServer
    <2>1. job' = "none" /\ lives' = lives /\ ledger' = [ledger EXCEPT ![Name] = None]
      BY <1>15 DEF ForgetServer, Servers!Deleted
    <2>2. QED BY <1>1, <1>3, <2>1 DEF ServerTyped
  <1>16. CASE Restart
    <2>1. job' = "none" /\ lives' = lives /\ Servers!Restart
      BY <1>16 DEF Restart
    <2>2. PICK ready \in SUBSET {n \in {Name} : Servers!Is(n, "deleting")} :
              ledger' = [n \in {Name} |->
                CASE Servers!Is(n, "provisioning") -> [ledger[n] EXCEPT !.status = "failed"]
                  [] n \in ready -> [ledger[n] EXCEPT !.status = "ready", !.was = "none"]
                  [] Servers!Is(n, "deleting") /\ n \notin ready ->
                         [ledger[n] EXCEPT !.status = "failed", !.was = "none"]
                  [] OTHER -> ledger[n]]
      BY <2>1 DEF Servers!Restart
    <2>3. CASE L = None
      <3>1. ledger' = ledger
        BY <1>1, <2>2, <2>3 DEF Servers!Is, ServerTyped
      <3>2. QED BY <1>1, <2>1, <2>3, <3>1 DEF ServerTyped, Is, Servers!Is, Creating
    <2>4. CASE L # None
      <3>1. L \in ServerRows
        BY <1>1, <2>4 DEF ServerTyped
      <3>2. ledger'[Name] \in ServerRows /\ ledger'[Name].status \in {"ready", "failed"}
        BY <1>1, <2>2, <2>4, <3>1 DEF Servers!Is, ServerRows
      <3>3. ledger' \in [{Name} -> {None} \cup ServerRows]
        BY <2>2, <3>2
      <3>4. QED BY <1>1, <2>1, <3>2, <3>3 DEF ServerTyped, Is, Servers!Is, Creating
    <2>5. QED BY <2>3, <2>4
  <1>17. QED BY <1>4, <1>5, <1>6, <1>8, <1>9, <1>10, <1>12, <1>13, <1>14, <1>15, <1>16 DEF Next, Job

-----------------------------------------------------------------------------
(* The request threads                                                       *)

ThreadsTyped == requests \in [Requests -> RequestRecords]

\* One thread gets a new record of the type.
LEMMA OneRecord ==
    ASSUME ThreadsTyped, NEW r \in Requests, NEW q \in RequestRecords,
           requests' = [requests EXCEPT ![r] = q]
    PROVE  ThreadsTyped'
  BY DEF ThreadsTyped

\* The record of a thread that does nothing.
LEMMA IdleIsRecord == Idle \in RequestRecords
  BY DEF Idle, RequestRecords, Pcs

\* What add finds to add.
LEMMA ChangeIsRows ==
    ASSUME NEW c \in DOMAIN Catalogs, NEW new, new \subseteq Offered(c)
    PROVE  {Entry(c, p) : p \in new} \in SUBSET AllRows
  BY EntryIsRow

\* Every step of a thread keeps the records' type.
LEMMA RecordsStep ==
    ASSUME Typed, [Next]_vars
    PROVE  ThreadsTyped'
  <1>1. ThreadsTyped /\ rows \in SUBSET AllRows /\ cached \in {None} \cup DOMAIN Catalogs
        /\ lives \in Nat /\ state \in {None} \cup StateRows /\ booted \in {None} \cup Texts
    BY DEF Typed, TypeOK, ThreadsTyped
  <1>2. CASE requests' = requests
    BY <1>1, <1>2 DEF ThreadsTyped
  <1>3. CASE UNCHANGED vars
    BY <1>2, <1>3 DEF vars
  <1>4. CASE Job \/ Boot \/ ChangePod
    BY <1>2, <1>4 DEF Job, Create, MakeNamespace, SeedConfigMap, SeedServer, SeedHash, Install, Rollout,
       CreateFails, Delete, Uninstall, DeleteNamespace, ForgetServer, DeleteFails, Boot, ChangePod,
       jobRest, podRest
  <1>5. CASE Restart
    BY <1>5, IdleIsRecord DEF Restart, ThreadsTyped
  <1>6. ASSUME NEW r \in Requests, Change(r) \/ Proceed(r) \/ Look(r)
        PROVE  ThreadsTyped'
    <2> DEFINE q == requests[r]
    <2>1. q \in RequestRecords
      BY <1>1 DEF ThreadsTyped
    <2>2. ASSUME Answer(r)
          PROVE  ThreadsTyped'
      BY <1>1, <2>2, IdleIsRecord, OneRecord DEF Answer
    <2>3. ASSUME NEW pc \in Pcs, To(r, pc)
          PROVE  ThreadsTyped'
      <3>1. [q EXCEPT !.pc = pc] \in RequestRecords
        BY <2>1 DEF RequestRecords
      <3>2. QED BY <1>1, <2>3, <3>1, OneRecord DEF To
    <2>4. ASSUME Done(r)
          PROVE  ThreadsTyped'
      <3>1. [Idle EXCEPT !.pc = "state", !.op = "view", !.by = q.by] \in RequestRecords
        BY <2>1, IdleIsRecord DEF RequestRecords, Pcs
      <3>2. QED BY <1>1, <2>4, <3>1, OneRecord DEF Done
    <2>5. ASSUME NEW op \in {"add", "remove"}, NEW p \in Plugins, Begin(r, op, p)
          PROVE  ThreadsTyped'
      <3>1. ledger[Name].tenant \in Tenants
        BY <2>5 DEF Begin, Typed, TypeOK, ServerRows, Is, Servers!Is
      <3>2. [Idle EXCEPT !.pc = "lock", !.op = op, !.by = ledger[Name].tenant, !.slug = p] \in RequestRecords
        BY <3>1, IdleIsRecord DEF RequestRecords, Pcs
      <3>3. QED BY <1>1, <2>5, <3>2, OneRecord DEF Begin
    <2>6. ASSUME Acquire(r)
          PROVE  ThreadsTyped'
      <3>1. [q EXCEPT !.pc = "seed", !.life = lives] \in RequestRecords
        BY <1>1, <2>1 DEF RequestRecords, Pcs
      <3>2. Answer(r) \/ requests' = [requests EXCEPT ![r] = [q EXCEPT !.pc = "seed", !.life = lives]]
        BY <1>1, <2>6 DEF Acquire, ThreadsTyped
      <3>3. QED BY <1>1, <2>2, <3>1, <3>2, OneRecord
    <2>7. ASSUME ReadToAdd(r)
          PROVE  ThreadsTyped'
      <3>1. [q EXCEPT !.pc = "catalog", !.read = rows] \in RequestRecords
        BY <1>1, <2>1 DEF RequestRecords, Pcs
      <3>2. requests' = [requests EXCEPT ![r] = [q EXCEPT !.pc = "catalog", !.read = rows]]
        BY <1>1, <2>7 DEF ReadToAdd, ThreadsTyped
      <3>3. QED BY <1>1, <3>1, <3>2, OneRecord
    <2>8. ASSUME ReadToRemove(r)
          PROVE  ThreadsTyped'
      <3> DEFINE x == {w \in rows : w.slug = q.slug}
      <3>1. [q EXCEPT !.pc = "write", !.read = rows, !.change = x] \in RequestRecords
        BY <1>1, <2>1 DEF RequestRecords, Pcs
      <3>2. Answer(r) \/ requests' = [requests EXCEPT ![r] =
                             [q EXCEPT !.pc = "write", !.read = rows, !.change = x]]
        BY <1>1, <2>8 DEF ReadToRemove, ThreadsTyped, Refuse
      <3>3. QED BY <1>1, <2>2, <3>1, <3>2, OneRecord
    <2>9. ASSUME NEW c \in DOMAIN Catalogs, UseCatalog(r, c)
          PROVE  ThreadsTyped'
      <3> DEFINE new == Needed(c, q.slug, Slugs(q.read))
                 x == {Entry(c, p) : p \in new}
      <3>1. \/ Answer(r) \/ Done(r)
            \/ /\ new \subseteq Offered(c)
               /\ requests' = [requests EXCEPT ![r] = [q EXCEPT !.pc = "write", !.change = x]]
        BY <1>1, <2>9 DEF UseCatalog, AddFrom, Refuse, ThreadsTyped
      <3> HIDE DEF new
      <3>2. CASE new \subseteq Offered(c)
        <4>1. x \in SUBSET AllRows
          BY <3>2, ChangeIsRows
        <4> HIDE DEF x
        <4>2. [q EXCEPT !.pc = "write", !.change = x] \in RequestRecords
          BY <2>1, <4>1 DEF RequestRecords, Pcs
        <4>3. QED BY <1>1, <2>2, <2>4, <3>1, <4>2, OneRecord
      <3>3. CASE ~(new \subseteq Offered(c))
        BY <2>2, <2>4, <3>1, <3>3
      <3>4. QED BY <3>2, <3>3
    <2>10. ASSUME GetState(r)
           PROVE  ThreadsTyped'
      <3> DEFINE up == Is("ready") /\ pod = "up"
      <3>1. up \in BOOLEAN
        OBVIOUS
      <3>2. Answer(r) \/ requests' = [requests EXCEPT ![r] = [q EXCEPT !.pc = "seed", !.up = up]]
        BY <1>1, <2>10 DEF GetState, ThreadsTyped
      <3> HIDE DEF up
      <3>3. [q EXCEPT !.pc = "seed", !.up = up] \in RequestRecords
        BY <2>1, <3>1 DEF RequestRecords, Pcs
      <3>4. QED BY <1>1, <2>2, <3>2, <3>3, OneRecord
    <2>11. ASSUME NEW applied \in {None} \cup Texts, Answered(r, applied)
           PROVE  ThreadsTyped'
      <3> DEFINE waiting == Waiting(q.written, applied)
      <3>1. waiting \in BOOLEAN
        BY DEF Waiting
      <3>2. requests' = [requests EXCEPT ![r] =
                            [Idle EXCEPT !.pc = "catalog", !.op = "view", !.pending = waiting]]
        BY <2>11 DEF Answered
      <3> HIDE DEF waiting
      <3>3. [Idle EXCEPT !.pc = "catalog", !.op = "view", !.pending = waiting] \in RequestRecords
        BY <3>1, IdleIsRecord DEF RequestRecords, Pcs
      <3>4. QED BY <1>1, <3>2, <3>3, OneRecord
    <2>12. ASSUME ReadHashes(r)
           PROVE  ThreadsTyped'
      <3>1. PICK written \in {None} \cup Texts, applied \in {None} \cup Texts :
                requests' = [requests EXCEPT ![r] =
                    IF q.up THEN [q EXCEPT !.pc = "report", !.written = written, !.applied = applied]
                    ELSE [q EXCEPT !.pc = "catalog", !.pending = Waiting(written, applied)]]
        <4> DEFINE written == IF state = None THEN None ELSE state.written
                   applied == IF state = None THEN None ELSE state.applied
        <4>1. written \in {None} \cup Texts /\ applied \in {None} \cup Texts
          BY <1>1 DEF StateRows
        <4>2. requests' = [requests EXCEPT ![r] =
                    IF q.up THEN [q EXCEPT !.pc = "report", !.written = written, !.applied = applied]
                    ELSE [q EXCEPT !.pc = "catalog", !.pending = Waiting(written, applied)]]
          BY <1>1, <2>12 DEF ReadHashes, ThreadsTyped
        <4>3. QED BY <4>1, <4>2
      <3>2. [q EXCEPT !.pc = "report", !.written = written, !.applied = applied] \in RequestRecords
        BY <2>1 DEF RequestRecords, Pcs
      <3>3. [q EXCEPT !.pc = "catalog", !.pending = Waiting(written, applied)] \in RequestRecords
        <4>1. Waiting(written, applied) \in BOOLEAN
          BY DEF Waiting
        <4>2. QED BY <2>1, <4>1 DEF RequestRecords, Pcs
      <3>4. QED BY <1>1, <3>1, <3>2, <3>3, OneRecord
    <2>13. ASSUME ReadReport(r)
           PROVE  ThreadsTyped'
      <3>1. q.applied \in {None} \cup Texts
        BY <2>1 DEF RequestRecords
      <3>2. [q EXCEPT !.pc = "store", !.applied = booted] \in RequestRecords
        BY <1>1, <2>1 DEF RequestRecords, Pcs
      <3>3. \/ Answered(r, q.applied)
            \/ requests' = [requests EXCEPT ![r] = [q EXCEPT !.pc = "store", !.applied = booted]]
        BY <1>1, <2>13 DEF ReadReport, ThreadsTyped
      <3>4. QED BY <1>1, <2>11, <3>1, <3>2, <3>3, OneRecord
    <2>14. ASSUME StoreApplied(r)
           PROVE  ThreadsTyped'
      <3>1. q.applied \in {None} \cup Texts
        BY <2>1 DEF RequestRecords
      <3>2. QED BY <2>11, <2>14, <3>1 DEF StoreApplied
    <2>15. ASSUME View(r) \/ Apply(r)
           PROVE  ThreadsTyped'
      <3>1. ledger[Name].tenant \in Tenants
        BY <2>15 DEF View, Apply, Typed, TypeOK, ServerRows, Is, Servers!Is, Gone
      <3>2. [Idle EXCEPT !.pc = "state", !.op = "view", !.by = ledger[Name].tenant] \in RequestRecords
        BY <3>1, IdleIsRecord DEF RequestRecords, Pcs
      <3>3. [Idle EXCEPT !.pc = "restart", !.op = "apply"] \in RequestRecords
        BY IdleIsRecord DEF RequestRecords, Pcs
      <3>4. QED BY <1>1, <2>15, <3>2, <3>3, OneRecord DEF View, Apply
    <2>16. CASE GiveUp(r) \/ WriteFails(r) \/ StoreFails(r) \/ RestartPod(r)
      BY <2>2, <2>16 DEF GiveUp, WriteFails, StoreFails, RestartPod, Refuse
    <2>17. CASE SeedSelection(r) \/ WriteConfigMap(r) \/ StoreHash(r)
      <3>1. Answer(r) \/ \E pc \in Pcs : To(r, pc)
        BY <2>17 DEF SeedSelection, WriteConfigMap, StoreHash, Refuse, Pcs
      <3>2. QED BY <2>2, <2>3, <3>1
    <2>18. CASE StoreRows(r)
      BY <2>4, <2>18 DEF StoreRows
    <2>19. CASE Serve(r) \/ Fetch(r) \/ CatalogUnavailable(r)
      BY <1>1, <2>2, <2>9, <2>19 DEF Serve, Fetch, CatalogUnavailable, Refuse
    <2>20. QED BY <1>6, <2>5, <2>6, <2>7, <2>8, <2>10, <2>12, <2>13, <2>14, <2>15, <2>16, <2>17, <2>18,
              <2>19 DEF Change, Proceed, Look
  <1>7. QED BY <1>3, <1>4, <1>5, <1>6 DEF Next

\* Every step of a thread leaves the other threads' records.
LEMMA OthersStay ==
    ASSUME Typed, NEW r \in Requests, Change(r) \/ Proceed(r) \/ Look(r)
    PROVE  \A x \in Requests \ {r} : requests'[x] = requests[x]
  <1>1. requests \in [Requests -> RequestRecords]
    BY DEF Typed, TypeOK
  <1>2. CASE Answer(r) \/ Done(r) \/ Refuse(r) \/ \E pc \in Pcs : To(r, pc)
    BY <1>1, <1>2 DEF Answer, Done, Refuse, To
  <1>3. CASE Change(r)
    BY <1>1, <1>2, <1>3 DEF Change, Begin, WriteConfigMap, WriteFails, Pcs
  <1>4. CASE Look(r)
    BY <1>1, <1>2, <1>4 DEF Look, View, GetState, Apply, RestartPod
  <1>5. ASSUME NEW c, UseCatalog(r, c)
        PROVE  \A x \in Requests \ {r} : requests'[x] = requests[x]
    BY <1>1, <1>2, <1>5 DEF UseCatalog, AddFrom
  <1>6. CASE Serve(r) \/ Fetch(r) \/ CatalogUnavailable(r)
    BY <1>2, <1>5, <1>6 DEF Serve, Fetch, CatalogUnavailable
  <1>7. CASE SeedSelection(r) \/ StoreHash(r) \/ StoreFails(r) \/ StoreRows(r) \/ GiveUp(r)
    BY <1>2, <1>7 DEF SeedSelection, StoreHash, StoreFails, StoreRows, GiveUp, Pcs
  <1>8. CASE Acquire(r) \/ ReadToAdd(r) \/ ReadToRemove(r)
    BY <1>1, <1>2, <1>8 DEF Acquire, ReadToAdd, ReadToRemove
  <1>9. CASE ReadHashes(r) \/ ReadReport(r) \/ StoreApplied(r)
    BY <1>1, <1>9 DEF ReadHashes, ReadReport, StoreApplied, Answered
  <1>10. QED BY <1>3, <1>4, <1>6, <1>7, <1>8, <1>9 DEF Change, Proceed, Look

-----------------------------------------------------------------------------
(* The lock, and what a thread has in mind                                   *)

\* A step of one thread that takes the lock when nobody has it, gives it back
\* when it has it, or does neither.
LEMMA OneChanges ==
    ASSUME Typed, Threads, NEW r \in Requests,
           \A x \in Requests \ {r} : requests'[x] = requests[x],
           lives' = lives, Coherent(requests'[r]),
           \/ lock' = lock /\ (Changing(r)' <=> Changing(r))
           \/ lock = None /\ lock' = r /\ Changing(r)'
           \/ Changing(r) /\ lock' = None /\ ~Changing(r)'
    PROVE  Threads'
  <1>1. \A x \in Requests \ {r} : Changing(x)' <=> Changing(x)
    BY DEF Changing
  <1>2. LockHeld'
    BY <1>1, NoneAssumption DEF Threads, LockHeld
  <1>3. \A x \in Requests : Coherent(requests'[x])
    BY DEF Threads
  <1>4. \A x \in Requests : Coherent(requests[x])'
    BY <1>3 DEF Coherent
  <1>5. QED BY <1>2, <1>4 DEF Threads

\* A change that add has made up its mind about.
LEMMA AddPlans ==
    ASSUME NEW c \in DOMAIN Catalogs, NEW q \in RequestRecords, q.op = "add", q.slug \in Plugins,
           q.slug \in Offered(c), Needed(c, q.slug, Slugs(q.read)) # {},
           Needed(c, q.slug, Slugs(q.read)) \subseteq Offered(c),
           q.change = {Entry(c, p) : p \in Needed(c, q.slug, Slugs(q.read))}
    PROVE  Plan(q)
  <1> DEFINE new == Needed(c, q.slug, Slugs(q.read))
  <1>1. ASSUME NEW p \in new
        PROVE  /\ Entry(c, p).slug = p /\ Entry(c, p) \in AllRows
               /\ Entry(c, p).requires = RequiredBy(c, p)
    BY EntryIsRow
  <1>2. \A p \in new : RequiredBy(c, p) \cap Plugins \subseteq new \cup Slugs(q.read)
    BY NeededIsClosed
  <1>3. new \cap Slugs(q.read) = {}
    BY DEF Needed
  <1> HIDE DEF new
  <1>4. q.change = {Entry(c, p) : p \in new}
    BY DEF new
  <1>5. Slugs(q.change) = new
    <2>1. ASSUME NEW p \in new PROVE p \in Slugs(q.change)
      <3>1. Entry(c, p) \in q.change /\ Entry(c, p).slug = p
        BY <1>1, <1>4, <2>1
      <3>2. QED BY <3>1 DEF Slugs
    <2>2. ASSUME NEW w \in q.change PROVE w.slug \in new
      <3>1. PICK p \in new : w = Entry(c, p)
        BY <1>4, <2>2
      <3>2. QED BY <1>1, <3>1
    <2>3. QED BY <2>1, <2>2 DEF Slugs
  <1>6. \A w \in q.change : w.requires \subseteq Slugs(q.read) \cup Slugs(q.change)
    <2> SUFFICES ASSUME NEW w \in q.change
                 PROVE  w.requires \subseteq Slugs(q.read) \cup Slugs(q.change)
      OBVIOUS
    <2>1. PICK p \in new : w = Entry(c, p)
      BY <1>4
    <2>2. w.requires = RequiredBy(c, p) /\ w.requires \subseteq Plugins
      BY <1>1, <2>1 DEF AllRows
    <2>3. QED BY <1>2, <1>5, <2>2
  <1>7. Decided(q.slug, q.read, q.change)
    BY DEF Decided, new
  <1>8. QED BY <1>3, <1>5, <1>6, <1>7 DEF Plan

\* Every step keeps the lock with the one change that is inside it.
LEMMA ThreadsStep ==
    ASSUME Typed, Threads, [Next]_vars
    PROVE  Threads'
  <1>1. /\ requests \in [Requests -> RequestRecords] /\ rows \in SUBSET AllRows /\ lives \in Nat
        /\ cached \in {None} \cup DOMAIN Catalogs
    BY DEF Typed, TypeOK
  <1>2. ASSUME UNCHANGED <<requests, lock>>, lives <= lives', lives' \in Nat
        PROVE  Threads'
    <2>1. LockHeld'
      BY <1>2 DEF Threads, LockHeld, Changing
    <2>2. ASSUME NEW x \in Requests
          PROVE  Coherent(requests[x])'
      <3>1. requests[x].life \in Nat
        BY <1>1 DEF RequestRecords
      <3>2. requests'[x].life <= lives'
        BY <1>1, <1>2, <3>1 DEF Threads, Coherent
      <3>3. QED BY <1>2, <3>2 DEF Threads, Coherent
    <2>3. QED BY <2>1, <2>2 DEF Threads
  <1>3. CASE UNCHANGED vars
    BY <1>1, <1>2, <1>3 DEF vars, serverVars
  <1>4. CASE Job \/ Boot \/ ChangePod
    <2>1. UNCHANGED <<requests, lock>>
      BY <1>4 DEF Job, Create, MakeNamespace, SeedConfigMap, SeedServer, SeedHash, Install, Rollout,
       CreateFails, Delete, Uninstall, DeleteNamespace, ForgetServer, DeleteFails, Boot, ChangePod,
       jobRest, podRest
    <2>2. lives' = lives \/ lives' = lives + 1
      BY <1>4 DEF Job, Create, MakeNamespace, SeedConfigMap, SeedServer, SeedHash, Install, Rollout,
       CreateFails, Delete, Uninstall, DeleteNamespace, ForgetServer, DeleteFails, Boot, ChangePod,
       serverVars, podRest
    <2>3. QED BY <1>1, <1>2, <2>1, <2>2
  <1>5. Coherent(Idle) /\ Idle.op \notin {"add", "remove"}
    BY <1>1 DEF Coherent, Idle
  <1>6. CASE Restart
    <2>1. lock' = None /\ requests' = [r \in Requests |-> Idle] /\ lives' = lives
      BY <1>6 DEF Restart
    <2>2. QED BY <1>5, <2>1, NoneAssumption DEF Threads, LockHeld, Changing, Coherent
  <1>7. ASSUME NEW r \in Requests, Change(r) \/ Proceed(r) \/ Look(r)
        PROVE  Threads'
    <2> DEFINE q == requests[r]
    <2>0. /\ \A x \in Requests \ {r} : requests'[x] = requests[x]
          /\ lives' = lives /\ q \in RequestRecords /\ Coherent(q)
      BY <1>1, <1>7, OthersStay, ThreadsLeaveServer DEF Threads
    <2>1. ASSUME Answer(r), lock' = lock, ~Changing(r)
          PROVE  Threads'
      <3>1. requests'[r] = Idle
        BY <1>1, <2>1 DEF Answer
      <3>2. ~Changing(r)'
        BY <1>5, <3>1 DEF Changing
      <3>3. QED BY <1>5, <2>0, <2>1, <3>1, <3>2, OneChanges
    <2>2. ASSUME Refuse(r), Changing(r)
          PROVE  Threads'
      <3>1. requests'[r] = Idle /\ lock' = None
        BY <1>1, <2>2 DEF Refuse, Answer
      <3>2. ~Changing(r)'
        BY <1>5, <3>1 DEF Changing
      <3>3. QED BY <1>5, <2>0, <2>2, <3>1, <3>2, OneChanges
    <2>3. ASSUME Done(r), Changing(r)
          PROVE  Threads'
      <3>1. /\ requests'[r] = [Idle EXCEPT !.pc = "state", !.op = "view", !.by = q.by] /\ lock' = None
        BY <1>1, <2>3 DEF Done
      <3>2. Coherent(requests'[r]) /\ ~Changing(r)'
        BY <1>1, <3>1 DEF Coherent, Idle, Changing
      <3>3. QED BY <2>0, <2>3, <3>1, <3>2, OneChanges
    <2>4. ASSUME NEW pc \in {"seed", "read", "hashes", "hash", "rows"}, To(r, pc), lock' = lock,
                 Changing(r) <=> pc # "hashes",
                 pc \in {"read", "hash", "rows"} => q.op \in {"add", "remove"},
                 pc = "hashes" => q.op = "view", pc # "seed",
                 pc \in {"hash", "rows"} => Plan(q)
          PROVE  Threads'
      <3>1. requests'[r] = [q EXCEPT !.pc = pc]
        BY <1>1, <2>4 DEF To
      <3>2. /\ requests'[r].pc = pc /\ requests'[r].op = q.op /\ requests'[r].slug = q.slug
            /\ requests'[r].life = q.life /\ requests'[r].read = q.read /\ requests'[r].change = q.change
        BY <2>0, <3>1 DEF RequestRecords
      <3>3. Coherent(requests'[r])
        BY <2>0, <2>4, <3>2 DEF Coherent, Plan
      <3>4. Changing(r)' <=> Changing(r)
        BY <2>4, <3>2 DEF Changing, Inside
      <3>5. QED BY <2>0, <2>4, <3>3, <3>4, OneChanges
    <2>5. ASSUME NEW op \in {"add", "remove"}, NEW p \in Plugins, Begin(r, op, p)
          PROVE  Threads'
      <3>1. /\ requests'[r] = [Idle EXCEPT !.pc = "lock", !.op = op, !.by = ledger[Name].tenant, !.slug = p]
            /\ lock' = lock /\ q.pc = "idle"
        BY <1>1, <2>5 DEF Begin, At
      <3>2. Coherent(requests'[r]) /\ ~Changing(r)' /\ ~Changing(r)
        BY <1>1, <3>1 DEF Coherent, Idle, Changing, Inside
      <3>3. QED BY <2>0, <3>1, <3>2, OneChanges
    <2>6. CASE Acquire(r)
      <3>1. q.pc = "lock" /\ lock = None /\ ~Changing(r)
        BY <2>6 DEF Acquire, At, Changing, Inside
      <3>2. CASE Answer(r) /\ lock' = lock
        BY <2>1, <3>1, <3>2
      <3>3. CASE lock' = r /\ requests' = [requests EXCEPT ![r].pc = "seed", ![r].life = lives]
        <4>1. requests'[r] = [q EXCEPT !.pc = "seed", !.life = lives]
          BY <1>1, <3>3
        <4>2. /\ requests'[r].pc = "seed" /\ requests'[r].op = q.op /\ requests'[r].slug = q.slug
              /\ requests'[r].life = lives
          BY <2>0, <4>1 DEF RequestRecords
        <4>3. Coherent(requests'[r]) /\ Changing(r)'
          BY <1>1, <2>0, <3>1, <4>2 DEF Coherent, Changing, Inside
        <4>4. QED BY <2>0, <3>1, <3>3, <4>3, OneChanges
      <3>4. QED BY <2>6, <3>2, <3>3 DEF Acquire
    <2>7. CASE ReadToAdd(r)
      <3>1. requests'[r] = [q EXCEPT !.pc = "catalog", !.read = rows] /\ q.op = "add" /\ q.pc = "read"
            /\ lock' = lock
        BY <1>1, <2>7 DEF ReadToAdd, At
      <3>2. /\ requests'[r].pc = "catalog" /\ requests'[r].op = q.op /\ requests'[r].slug = q.slug
            /\ requests'[r].life = q.life
        BY <2>0, <3>1 DEF RequestRecords
      <3>3. Coherent(requests'[r]) /\ (Changing(r)' <=> Changing(r))
        BY <2>0, <3>1, <3>2 DEF Coherent, Changing, Inside
      <3>4. QED BY <2>0, <3>1, <3>3, OneChanges
    <2>8. CASE ReadToRemove(r)
      <3>1. q.op = "remove" /\ q.pc = "read" /\ Changing(r)
        BY <2>8 DEF ReadToRemove, At, Changing, Inside
      <3>2. CASE Refuse(r)
        BY <2>2, <3>1, <3>2
      <3>3. CASE ~Refuse(r)
        <4>1. /\ requests' = [requests EXCEPT ![r].pc = "write", ![r].read = rows,
                                     ![r].change = {w \in rows : w.slug = q.slug}]
              /\ lock' = lock /\ Dependents(rows, q.slug) = {} /\ q.slug \in Slugs(rows)
          BY <2>8, <3>3 DEF ReadToRemove
        <4>2. requests'[r] = [q EXCEPT !.pc = "write", !.read = rows,
                                       !.change = {w \in rows : w.slug = q.slug}]
          BY <1>1, <4>1
        <4>3. /\ requests'[r].pc = "write" /\ requests'[r].op = q.op /\ requests'[r].slug = q.slug
              /\ requests'[r].life = q.life /\ requests'[r].read = rows
              /\ requests'[r].change = {w \in rows : w.slug = q.slug}
          BY <2>0, <4>2 DEF RequestRecords
        <4>4. Plan(requests'[r])
          BY <3>1, <4>1, <4>3 DEF Plan, Dependents
        <4>5. Coherent(requests'[r]) /\ Changing(r)'
          BY <2>0, <3>1, <4>3, <4>4 DEF Coherent, Changing, Inside
        <4>6. QED BY <2>0, <3>1, <4>1, <4>5, OneChanges
      <3>4. QED BY <3>2, <3>3
    <2>9. ASSUME NEW c \in DOMAIN Catalogs, UseCatalog(r, c), q.pc = "catalog"
          PROVE  Threads'
      <3>1. CASE q.op = "view"
        BY <2>1, <2>9, <3>1 DEF UseCatalog, Changing
      <3>2. CASE q.op = "add"
        <4>1. AddFrom(r, c) /\ Changing(r)
          BY <2>9, <3>2 DEF UseCatalog, Changing, Inside
        <4>2. CASE Refuse(r) \/ Done(r)
          BY <2>2, <2>3, <4>1, <4>2
        <4>3. CASE ~Refuse(r) /\ ~Done(r)
          <5> DEFINE new == Needed(c, q.slug, Slugs(q.read))
          <5>1. /\ requests' = [requests EXCEPT ![r].pc = "write", ![r].change = {Entry(c, p) : p \in new}]
                /\ lock' = lock /\ new \subseteq Offered(c) /\ new # {} /\ q.slug \in Offered(c)
            BY <4>1, <4>3 DEF AddFrom
          <5>2. requests'[r] = [q EXCEPT !.pc = "write", !.change = {Entry(c, p) : p \in new}]
            BY <1>1, <5>1
          <5>3. /\ requests'[r].pc = "write" /\ requests'[r].op = q.op /\ requests'[r].slug = q.slug
                /\ requests'[r].life = q.life /\ requests'[r].read = q.read
                /\ requests'[r].change = {Entry(c, p) : p \in new}
            BY <2>0, <5>2 DEF RequestRecords
          <5>4. requests'[r] \in RequestRecords
            BY RecordsStep, <2>9 DEF ThreadsTyped
          <5>5. Plan(requests'[r])
            BY <2>0, <3>2, <5>1, <5>3, <5>4, AddPlans DEF Coherent
          <5>6. Coherent(requests'[r]) /\ Changing(r)'
            BY <2>0, <3>2, <5>3, <5>5 DEF Coherent, Changing, Inside
          <5>7. QED BY <2>0, <4>1, <5>1, <5>6, OneChanges
        <4>4. QED BY <4>2, <4>3
      <3>3. QED BY <2>0, <2>9, <3>1, <3>2 DEF Coherent
    <2>10. CASE Serve(r) \/ Fetch(r)
      BY <1>1, <2>9, <2>10 DEF Serve, Fetch, At
    <2>11. CASE CatalogUnavailable(r)
      <3>1. q.pc = "catalog"
        BY <2>11 DEF CatalogUnavailable, At
      <3>2. CASE q.op = "view"
        BY <2>1, <2>11, <3>2 DEF CatalogUnavailable, Changing
      <3>3. CASE q.op = "add"
        BY <2>2, <2>11, <3>1, <3>3 DEF CatalogUnavailable, Changing, Inside
      <3>4. QED BY <2>0, <3>1, <3>2, <3>3 DEF Coherent
    <2>12. CASE SeedSelection(r)
      <3>1. q.pc = "seed" /\ lock' = lock /\ To(r, IF q.op = "view" THEN "hashes" ELSE "read")
        BY <2>12 DEF SeedSelection, At
      <3>2. CASE q.op = "view"
        BY <2>4, <3>1, <3>2 DEF Changing
      <3>3. CASE q.op # "view"
        BY <2>0, <2>4, <3>1, <3>3 DEF Changing, Inside, Coherent
      <3>4. QED BY <3>2, <3>3
    <2>13. CASE WriteConfigMap(r) \/ WriteFails(r)
      <3>1. q.pc = "write" /\ Changing(r) /\ q.op \in {"add", "remove"} /\ Plan(q)
        BY <2>0, <2>13 DEF WriteConfigMap, WriteFails, At, Changing, Inside, Coherent
      <3>2. Refuse(r) \/ (To(r, "hash") /\ lock' = lock)
        BY <2>13 DEF WriteConfigMap, WriteFails
      <3>3. QED BY <2>2, <2>4, <3>1, <3>2
    <2>14. CASE StoreHash(r)
      <3>1. q.pc = "hash" /\ Changing(r) /\ q.op \in {"add", "remove"} /\ Plan(q)
        BY <2>0, <2>14 DEF StoreHash, At, Changing, Inside, Coherent
      <3>2. To(r, "rows") /\ lock' = lock
        BY <2>14 DEF StoreHash
      <3>3. QED BY <2>4, <3>1, <3>2
    <2>15. CASE StoreFails(r) \/ StoreRows(r)
      <3>1. Changing(r)
        BY <2>0, <2>15 DEF StoreFails, StoreRows, At, Changing, Inside, Coherent
      <3>2. QED BY <2>2, <2>3, <2>15, <3>1 DEF StoreFails, StoreRows
    <2>16. CASE GiveUp(r) \/ RestartPod(r)
      BY <2>1, <2>16 DEF GiveUp, RestartPod, At, Changing, Inside
    <2>17. CASE View(r) \/ Apply(r)
      <3>1. q.pc = "idle" /\ lock' = lock
        BY <2>17 DEF View, Apply, At
      <3>2. /\ \/ requests'[r].pc = "state" /\ requests'[r].op = "view"
               \/ requests'[r].pc = "restart" /\ requests'[r].op = "apply"
            /\ requests'[r].life = 0
        <4>1. CASE View(r)
          BY <1>1, <4>1 DEF View, Idle
        <4>2. CASE Apply(r)
          BY <1>1, <4>2 DEF Apply, Idle
        <4>3. QED BY <2>17, <4>1, <4>2
      <3>3. Coherent(requests'[r]) /\ ~Changing(r)' /\ ~Changing(r)
        <4>1. Coherent(requests'[r])
          BY <1>1, <3>2 DEF Coherent
        <4>2. ~Changing(r)' /\ ~Changing(r)
          BY <3>1, <3>2 DEF Changing, Inside
        <4>3. QED BY <4>1, <4>2
      <3>4. QED BY <2>0, <3>1, <3>3, OneChanges
    <2>18. CASE GetState(r)
      <3>1. q.pc = "state" /\ lock' = lock /\ q.op = "view" /\ ~Changing(r)
        BY <2>0, <2>18 DEF GetState, At, Coherent, Changing
      <3>2. CASE Answer(r)
        BY <2>1, <3>1, <3>2
      <3>3. CASE ~Answer(r)
        <4>1. requests'[r] = [q EXCEPT !.pc = "seed", !.up = Is("ready") /\ pod = "up"]
          BY <1>1, <2>18, <3>3 DEF GetState
        <4>2. /\ requests'[r].pc = "seed" /\ requests'[r].op = q.op /\ requests'[r].life = q.life
          BY <2>0, <4>1 DEF RequestRecords
        <4>3. Coherent(requests'[r]) /\ ~Changing(r)'
          BY <2>0, <3>1, <4>2 DEF Coherent, Changing
        <4>4. QED BY <2>0, <3>1, <4>3, OneChanges
      <3>4. QED BY <3>2, <3>3
    <2>19. CASE ReadHashes(r)
      <3>1. q.pc = "hashes" /\ lock' = lock /\ q.op = "view" /\ ~Changing(r)
        BY <2>0, <2>19 DEF ReadHashes, At, Coherent, Changing
      <3>2. /\ requests'[r].pc \in {"report", "catalog"} /\ requests'[r].op = q.op
            /\ requests'[r].life = q.life
        BY <1>1, <2>0, <2>19 DEF ReadHashes, RequestRecords
      <3>3. Coherent(requests'[r]) /\ ~Changing(r)'
        BY <2>0, <3>1, <3>2 DEF Coherent, Changing
      <3>4. QED BY <2>0, <3>1, <3>3, OneChanges
    <2>20. CASE ReadReport(r) \/ StoreApplied(r)
      <3>1. q.pc \in {"report", "store"} /\ lock' = lock /\ ~Changing(r)
        BY <2>0, <2>20 DEF ReadReport, StoreApplied, At, Changing, Inside
      <3>2. CASE \E a : Answered(r, a)
        <4>1. requests'[r].pc = "catalog" /\ requests'[r].op = "view" /\ requests'[r].life = 0
          BY <1>1, <3>2 DEF Answered, Idle
        <4>2. Coherent(requests'[r]) /\ ~Changing(r)'
          BY <1>1, <4>1 DEF Coherent, Changing
        <4>3. QED BY <2>0, <3>1, <4>2, OneChanges
      <3>3. CASE requests' = [requests EXCEPT ![r].pc = "store", ![r].applied = booted]
        <4>1. requests'[r] = [q EXCEPT !.pc = "store", !.applied = booted]
          BY <1>1, <3>3
        <4>2. /\ requests'[r].pc = "store" /\ requests'[r].op = q.op /\ requests'[r].life = q.life
              /\ requests'[r].slug = q.slug
          BY <2>0, <4>1 DEF RequestRecords
        <4>3. Coherent(requests'[r]) /\ ~Changing(r)'
          BY <2>0, <4>2 DEF Coherent, Changing, Inside
        <4>4. QED BY <2>0, <3>1, <4>3, OneChanges
      <3>4. QED BY <2>20, <3>2, <3>3 DEF ReadReport, StoreApplied
    <2>21. QED BY <1>7, <2>5, <2>6, <2>7, <2>8, <2>10, <2>11, <2>12, <2>13, <2>14, <2>15, <2>16, <2>17,
              <2>18, <2>19, <2>20 DEF Change, Proceed, Look
  <1>8. QED BY <1>3, <1>4, <1>6, <1>7 DEF Next

-----------------------------------------------------------------------------
(* The cluster, the tables and the history                                   *)

DataTyped ==
    /\ namespace \in BOOLEAN /\ pod \in {"none", "asleep", "waking", "up"}
    /\ configMap \in {None} \cup Texts /\ booted \in {None} \cup Texts
    /\ rows \in SUBSET AllRows
    /\ state \in {None} \cup StateRows
    /\ cached \in {None} \cup DOMAIN Catalogs
    /\ lock \in Requests \cup {None}
    /\ history \in [torn : BOOLEAN, stray : BOOLEAN, foreign : BOOLEAN, removed : SUBSET Plugins]

\* What is left of a row of hashes when one of the two is stored.
LEMMA HashesStay ==
    ASSUME state \in {None} \cup StateRows, NEW text \in {None} \cup Texts
    PROVE  /\ SetWritten(text) =>
                /\ state' \in {None} \cup StateRows /\ (state' = None <=> state = None)
                /\ state # None => state'.written = text
           /\ SetApplied(text) =>
                /\ state' \in {None} \cup StateRows /\ (state' = None <=> state = None)
                /\ state # None => state'.written = state.written
  <1>1. CASE state = None
    BY <1>1 DEF SetWritten, SetApplied
  <1>2. CASE state # None
    <2>1. state \in StateRows
      BY <1>2
    <2>2. [state EXCEPT !.written = text] \in StateRows /\ [state EXCEPT !.applied = text] \in StateRows
      BY <2>1 DEF StateRows
    <2>3. /\ [state EXCEPT !.written = text].written = text
          /\ [state EXCEPT !.applied = text].written = state.written
      BY <2>1 DEF StateRows
    <2>4. \A x \in StateRows : x # None
      BY NoneAssumption
    <2>5. QED BY <1>2, <2>2, <2>3, <2>4 DEF SetWritten, SetApplied
  <1>3. QED BY <1>1, <1>2

\* The transaction of seed_plugins.
LEMMA SeedOnce ==
    ASSUME state \in {None} \cup StateRows, rows \in SUBSET AllRows, Seed
    PROVE  /\ state' \in StateRows /\ rows' \in SUBSET AllRows /\ state' # None
           /\ state # None => UNCHANGED <<rows, state>>
           /\ state = None => rows' = Inserted(rows, DefaultRows) /\ state'.written = None
  <1>1. [written |-> None, applied |-> None] \in StateRows
    BY DEF StateRows
  <1>2. \A x \in StateRows : x # None
    BY NoneAssumption
  <1>3. Inserted(rows, DefaultRows) \in SUBSET AllRows
    BY DefaultsAreRows DEF Inserted
  <1>4. CASE state = None
    BY <1>1, <1>2, <1>3, <1>4 DEF Seed
  <1>5. CASE state # None
    BY <1>2, <1>5 DEF Seed, tableVars
  <1>6. QED BY <1>4, <1>5

\* The text that a change is about to write.
LEMMA TargetIsText ==
    ASSUME NEW q \in RequestRecords
    PROVE  Target(q) \in SUBSET AllRows /\ Text(Target(q)) \in Texts
  <1>1. Target(q) \in SUBSET AllRows
    BY DEF Target, RequestRecords
  <1>2. QED BY <1>1, TextIsText

\* Every step keeps the cluster's and the tables' types.
LEMMA DataStep ==
    ASSUME Typed, Threads, [Next]_vars
    PROVE  DataTyped'
  <1>1. DataTyped /\ requests \in [Requests -> RequestRecords]
    BY DEF Typed, TypeOK, DataTyped
  <1>2. CASE UNCHANGED vars
    BY <1>1, <1>2 DEF DataTyped, vars, clusterVars, tableVars
  <1>3. CASE Boot \/ ChangePod
    BY <1>1, <1>3 DEF DataTyped, Boot, ChangePod, podRest, tableVars
  <1>4. CASE Restart
    BY <1>1, <1>4 DEF DataTyped, Restart, clusterVars, tableVars
  <1>5. CASE Job
    <2>1. Text(DefaultRows) \in Texts
      BY DefaultsAreRows, TextIsText
    <2>2. CASE (\E t \in Tenants : Create(t)) \/ MakeNamespace \/ Install \/ Rollout \/ Delete \/ Uninstall \/ DeleteNamespace \/ DeleteFails
      BY <1>1, <2>2 DEF DataTyped, Create, MakeNamespace, Install, Rollout, Delete, Uninstall,
         DeleteNamespace, DeleteFails, ReleaseGoes, NamespaceGoes, clusterVars, tableVars, jobRest
    <2>3. CASE CreateFails
      BY <1>1, <2>3 DEF DataTyped, CreateFails, clusterVars, tableVars, jobRest
    <2>4. CASE ForgetServer
      BY <1>1, <2>4 DEF DataTyped, ForgetServer, Unspoilt, clusterVars, jobRest
    <2>5. CASE SeedConfigMap
      BY <1>1, <2>1, <2>5 DEF DataTyped, SeedConfigMap, tableVars, jobRest
    <2>6. CASE SeedServer
      BY <1>1, <2>6, SeedOnce DEF DataTyped, SeedServer, clusterVars, jobRest
    <2>7. CASE SeedHash
      BY <1>1, <2>1, <2>7, HashesStay DEF DataTyped, SeedHash, clusterVars, jobRest
    <2>8. QED BY <1>5, <2>2, <2>3, <2>4, <2>5, <2>6, <2>7 DEF Job
  <1>6. ASSUME NEW r \in Requests, Change(r) \/ Proceed(r) \/ Look(r)
        PROVE  DataTyped'
    <2> DEFINE q == requests[r]
    <2>1. q \in RequestRecords
      BY <1>1
    <2>2. lock' \in Requests \cup {None}
      <3>1. lock' = None \/ lock' = r \/ lock' = lock => lock' \in Requests \cup {None}
        BY <1>1 DEF DataTyped
      <3>2. CASE Refuse(r) \/ Done(r)
        BY <3>1, <3>2 DEF Refuse, Done
      <3>3. ASSUME NEW c, UseCatalog(r, c)
            PROVE  lock' \in Requests \cup {None}
        BY <3>1, <3>2, <3>3 DEF UseCatalog, AddFrom
      <3>4. CASE Change(r) \/ Look(r)
        BY <3>1, <3>2, <3>4 DEF Change, Begin, WriteConfigMap, WriteFails, Look, View, GetState, Apply, RestartPod
      <3>5. CASE Serve(r) \/ Fetch(r) \/ CatalogUnavailable(r)
        BY <3>1, <3>2, <3>3, <3>5 DEF Serve, Fetch, CatalogUnavailable
      <3>6. CASE Acquire(r) \/ GiveUp(r) \/ SeedSelection(r) \/ ReadToAdd(r) \/ ReadToRemove(r)
        BY <3>1, <3>2, <3>6 DEF Acquire, GiveUp, SeedSelection, ReadToAdd, ReadToRemove
      <3>7. CASE StoreHash(r) \/ StoreFails(r) \/ StoreRows(r) \/ ReadHashes(r) \/ ReadReport(r) \/ StoreApplied(r)
        BY <3>1, <3>2, <3>7 DEF StoreHash, StoreFails, StoreRows, ReadHashes, ReadReport, StoreApplied
      <3>8. QED BY <1>6, <3>4, <3>5, <3>6, <3>7 DEF Proceed
    <2>4. CASE Look(r) \/ \E p \in Plugins, op \in {"add", "remove"} : Begin(r, op, p)
      BY <1>1, <2>4 DEF DataTyped, Look, Begin, View, GetState, Apply, RestartPod, serverSide, rest,
         clusterVars, tableVars
    <2>5. CASE Acquire(r) \/ GiveUp(r) \/ ReadToAdd(r) \/ ReadToRemove(r) \/ ReadHashes(r) \/ ReadReport(r)
      BY <1>1, <2>2, <2>5 DEF DataTyped, Acquire, GiveUp, ReadToAdd, ReadToRemove, ReadHashes, ReadReport,
         serverSide, rest, clusterVars, tableVars
    <2>6. CASE Serve(r) \/ Fetch(r) \/ CatalogUnavailable(r)
      BY <1>1, <2>2, <2>6 DEF DataTyped, Serve, Fetch, CatalogUnavailable,
         serverSide, rest, clusterVars, tableVars
    <2>7. CASE WriteConfigMap(r) \/ WriteFails(r)
      BY <1>1, <2>1, <2>2, <2>7, TargetIsText DEF DataTyped, WriteConfigMap, WriteFails, Write, SameServer, Gone,
         serverSide, rest, clusterVars, tableVars
    <2>8. CASE StoreHash(r)
      BY <1>1, <2>1, <2>8, TargetIsText, HashesStay DEF DataTyped, StoreHash, serverSide, rest, clusterVars
    <2>9. CASE StoreFails(r)
      BY <1>1, <2>2, <2>9 DEF DataTyped, StoreFails, Tear, clusterVars, tableVars
    <2>10. CASE StoreApplied(r)
      <3>1. q.applied \in {None} \cup Texts
        BY <2>1 DEF RequestRecords
      <3>2. QED BY <1>1, <2>10, <3>1, HashesStay DEF DataTyped, StoreApplied, serverSide, rest, clusterVars
    <2>11. CASE SeedSelection(r)
      BY <1>1, <2>11, SeedOnce DEF DataTyped, SeedSelection, serverSide, rest, clusterVars
    <2>12. CASE StoreRows(r)
      <3>1. q.op \in {"add", "remove"} /\ q.slug \in Plugins /\ q.change \in SUBSET AllRows
        BY <2>1, <2>12 DEF StoreRows, At, Threads, Coherent, RequestRecords
      <3>2. rows' \in SUBSET AllRows
        BY <1>1, <2>12, <3>1 DEF StoreRows, Inserted, DataTyped
      <3>3. history' \in [torn : BOOLEAN, stray : BOOLEAN, foreign : BOOLEAN, removed : SUBSET Plugins]
        BY <1>1, <2>12, <3>1 DEF StoreRows, DataTyped, SameServer, Gone
      <3>4. QED BY <1>1, <2>2, <2>12, <3>2, <3>3 DEF DataTyped, StoreRows, clusterVars
    <2>13. QED BY <1>6, <2>4, <2>5, <2>6, <2>7, <2>8, <2>9, <2>10, <2>11, <2>12 DEF Change, Proceed, Look
  <1>7. QED BY <1>2, <1>3, <1>4, <1>5, <1>6 DEF Next

\* Every step keeps the types.
LEMMA TypedStep ==
    ASSUME Typed, Threads, [Next]_vars
    PROVE  Typed'
  BY ServerStep, RecordsStep, DataStep DEF Typed, TypeOK, ServerTyped, ThreadsTyped, DataTyped

-----------------------------------------------------------------------------
(* What a step of a thread does to the selection                             *)

\* It leaves the selection alone (but for the hash applied, which no change uses),
Stays ==
    /\ UNCHANGED <<namespace, configMap, rows, history>>
    /\ state' = None <=> state = None
    /\ state # None => state'.written = state.written

\* or seeds it,
Seeds ==
    /\ UNCHANGED <<namespace, configMap, history>>
    /\ state = None /\ state' # None /\ state'.written = None
    /\ rows' = Inserted(rows, DefaultRows)

\* or is one of the four that store a change.
Stores(r) == WriteConfigMap(r) \/ StoreHash(r) \/ StoreFails(r) \/ StoreRows(r)

\* Only the change that holds the lock stores something.
LEMMA StoresInside ==
    ASSUME Threads, NEW r \in Requests, Stores(r)
    PROVE  Changing(r) /\ lock = r
  BY DEF Threads, LockHeld, Coherent, Stores, WriteConfigMap, StoreHash, StoreFails, StoreRows, At,
     Changing, Inside

\* A step of a thread that stores no change.
LEMMA OtherSteps ==
    ASSUME Typed, Threads, NEW r \in Requests, Change(r) \/ Proceed(r) \/ Look(r), ~Stores(r)
    PROVE  (Stays \/ Seeds) /\ requests[r].pc \notin {"hash", "rows"}
  <1> DEFINE q == requests[r]
  <1>1. DataTyped /\ q \in RequestRecords
    BY DEF Typed, TypeOK, DataTyped
  <1>2. CASE Look(r)
    BY <1>2 DEF Look, View, GetState, Apply, RestartPod, serverSide, rest, clusterVars, tableVars, Stays, At
  <1>3. CASE Change(r)
    BY <1>3 DEF Change, Begin, WriteFails, Stores, serverSide, rest, clusterVars, tableVars, Stays, At
  <1>4. CASE SeedSelection(r)
    <2>1. /\ q.pc = "seed" /\ Seed /\ UNCHANGED <<namespace, configMap, history>>
      BY <1>4 DEF SeedSelection, rest, serverSide, clusterVars, At
    <2>2. CASE state = None
      BY <1>1, <2>1, <2>2, SeedOnce DEF DataTyped, Seeds
    <2>3. CASE state # None
      BY <1>1, <2>1, <2>3, SeedOnce DEF DataTyped, Stays
    <2>4. QED BY <2>1, <2>2, <2>3
  <1>5. CASE StoreApplied(r)
    <2>1. q.applied \in {None} \cup Texts
      BY <1>1 DEF RequestRecords
    <2>2. q.pc = "store" /\ SetApplied(q.applied) /\ UNCHANGED <<namespace, configMap, history, rows>>
      BY <1>5 DEF StoreApplied, rest, serverSide, clusterVars, At
    <2>3. QED BY <1>1, <2>1, <2>2, HashesStay DEF DataTyped, Stays
  <1>6. CASE Acquire(r) \/ GiveUp(r) \/ ReadToAdd(r) \/ ReadToRemove(r) \/ Serve(r) \/ Fetch(r)
    BY <1>6 DEF Acquire, GiveUp, ReadToAdd, ReadToRemove, Serve, Fetch, serverSide, rest, clusterVars,
       tableVars, Stays, At
  <1>7. CASE CatalogUnavailable(r) \/ ReadHashes(r) \/ ReadReport(r)
    BY <1>7 DEF CatalogUnavailable, ReadHashes, ReadReport, serverSide, rest, clusterVars,
       tableVars, Stays, At
  <1>8. QED BY <1>2, <1>3, <1>4, <1>5, <1>6, <1>7 DEF Proceed, Stores

\* The change that has begun to store goes on as it was while another thread steps.
LEMMA QuietLater ==
    ASSUME Typed, Threads, Threads', NEW r \in Requests, Change(r) \/ Proceed(r) \/ Look(r),
           ~Stores(r), Quiet'
    PROVE  Quiet
  <1> SUFFICES ASSUME ~Quiet
               PROVE  FALSE
    OBVIOUS
  <1>1. lock \in Requests /\ requests[lock].pc \in {"hash", "rows"} /\ Changing(lock)
    BY NoneAssumption DEF Quiet, Typed, TypeOK, Threads, LockHeld, Changing, Inside
  <1>2. lock # r
    BY <1>1, OtherSteps
  <1>3. requests'[lock] = requests[lock]
    BY <1>1, <1>2, OthersStay
  <1>4. PICK x \in Requests : x = lock
    BY <1>1
  <1>5. requests'[x] = requests[x] /\ Changing(x) /\ requests[x].pc \in {"hash", "rows"}
    BY <1>1, <1>3, <1>4
  <1>6. Changing(x)'
    BY <1>5 DEF Changing
  <1>7. lock' = x
    BY <1>6 DEF Threads, LockHeld
  <1>8. QED BY <1>5, <1>7, NoneAssumption DEF Quiet

-----------------------------------------------------------------------------
(* What the change that holds the lock relies on                             *)

\* The other threads leave it alone.
LEMMA OthersLeaveHolder ==
    ASSUME Typed, Threads, Holder, NEW r \in Requests, Change(r) \/ Proceed(r) \/ Look(r),
           NEW x \in Requests, x # r, Changing(x)', SameServer(requests[x])'
    PROVE  Holds(requests[x])'
  <1>1. requests'[x] = requests[x] /\ UNCHANGED <<ledger, lives, job>>
    BY OthersStay, ThreadsLeaveServer
  <1>2. Changing(x) /\ SameServer(requests[x])
    BY <1>1 DEF Changing, SameServer, Gone
  <1>3. Holds(requests[x])
    BY <1>2 DEF Holder
  <1>4. lock = x
    BY <1>2 DEF Threads, LockHeld
  <1>5. Stays \/ Seeds
    BY <1>4, StoresInside, OtherSteps
  <1>6. Target(requests[x])' = Target(requests[x])
    BY <1>1 DEF Target
  <1>7. CASE Stays
    BY <1>1, <1>3, <1>6, <1>7 DEF Stays, Holds
  <1>8. CASE Seeds
    <2>1. requests[x].pc \notin {"read", "catalog", "write", "hash", "rows"}
      BY <1>3, <1>8 DEF Holds, Seeds
    <2>2. QED BY <1>1, <1>3, <2>1 DEF Holds
  <1>9. QED BY <1>5, <1>7, <1>8

\* Its own steps keep it.
LEMMA OwnStep ==
    ASSUME Typed, Threads, Holder, NEW r \in Requests, Change(r) \/ Proceed(r) \/ Look(r),
           Changing(r)', SameServer(requests[r])'
    PROVE  Holds(requests[r])'
  <1> DEFINE q == requests[r]
             n == requests'[r]
  <1>1. /\ DataTyped /\ q \in RequestRecords /\ requests \in [Requests -> RequestRecords]
        /\ UNCHANGED <<ledger, lives, job>> /\ Coherent(q)
    BY ThreadsLeaveServer DEF Typed, TypeOK, DataTyped, Threads
  <1>2. ASSUME n.life = q.life, Changing(r)
        PROVE  Holds(q)
    BY <1>1, <1>2 DEF Holder, SameServer, Gone
  <1>3. n.op \in {"add", "remove"} /\ n.pc \in Inside
    BY DEF Changing
  <1>4. ~Refuse(r) /\ ~Done(r) /\ ~Answer(r)
    <2>1. CASE Refuse(r) \/ Answer(r)
      BY <1>1, <1>3, <2>1 DEF Refuse, Answer, Idle
    <2>2. CASE Done(r)
      <3>1. n.op = "view"
        BY <1>1, <2>2 DEF Done, Idle
      <3>2. QED BY <1>3, <3>1
    <2>3. QED BY <2>1, <2>2
  <1>5. CASE Look(r)
    <2>1. CASE View(r) \/ Apply(r)
      BY <1>1, <1>3, <2>1 DEF View, Apply, Idle, Inside
    <2>2. CASE GetState(r) \/ RestartPod(r)
      <3>1. q.op = "view" /\ n = [q EXCEPT !.pc = "seed", !.up = Is("ready") /\ pod = "up"]
        BY <1>1, <1>4, <2>2 DEF GetState, RestartPod, At, Coherent
      <3>2. QED BY <1>1, <1>3, <3>1 DEF RequestRecords
    <2>3. QED BY <1>5, <2>1, <2>2 DEF Look
  <1>6. CASE \E p \in Plugins, op \in {"add", "remove"} : Begin(r, op, p)
    BY <1>1, <1>3, <1>6 DEF Begin, Idle, Inside
  <1>7. CASE Acquire(r)
    <2>1. Is("ready") /\ n = [q EXCEPT !.pc = "seed", !.life = lives]
      BY <1>1, <1>4, <1>7 DEF Acquire
    <2>2. job \notin Creating /\ n.pc = "seed"
      BY <1>1, <2>1 DEF Typed, Is, Servers!Is, RequestRecords
    <2>3. QED BY <1>1, <2>2 DEF Holds
  <1>8. CASE SeedSelection(r)
    <2>1. q.pc = "seed" /\ n = [q EXCEPT !.pc = IF q.op = "view" THEN "hashes" ELSE "read"] /\ Seed
      BY <1>1, <1>8 DEF SeedSelection, To, At
    <2>2. n.op = q.op /\ n.life = q.life /\ n.pc \in {"hashes", "read"}
      BY <1>1, <2>1 DEF RequestRecords
    <2>3. Changing(r)
      BY <1>3, <2>1, <2>2 DEF Changing, Inside
    <2>4. job \notin Creating
      BY <1>2, <2>2, <2>3 DEF Holds
    <2>5. state' # None
      BY <1>1, <2>1, SeedOnce DEF DataTyped
    <2>6. QED BY <1>1, <2>2, <2>4, <2>5 DEF Holds
  <1>9. CASE ReadToAdd(r)
    <2>1. /\ q.pc = "read" /\ q.op = "add" /\ n = [q EXCEPT !.pc = "catalog", !.read = rows]
          /\ UNCHANGED <<rows, state>>
      BY <1>1, <1>9 DEF ReadToAdd, At, tableVars
    <2>2. n.op = q.op /\ n.life = q.life /\ n.pc = "catalog" /\ n.read = rows
      BY <1>1, <2>1 DEF RequestRecords
    <2>3. Holds(q)
      BY <1>2, <2>1, <2>2 DEF Changing, Inside
    <2>4. QED BY <1>1, <2>1, <2>2, <2>3 DEF Holds
  <1>10. CASE ReadToRemove(r)
    <2>1. /\ q.pc = "read" /\ q.op = "remove"
          /\ n = [q EXCEPT !.pc = "write", !.read = rows, !.change = {w \in rows : w.slug = q.slug}]
          /\ UNCHANGED <<rows, state>>
      BY <1>1, <1>4, <1>10 DEF ReadToRemove, At, tableVars
    <2>2. n.op = q.op /\ n.life = q.life /\ n.pc = "write" /\ n.read = rows
      BY <1>1, <2>1 DEF RequestRecords
    <2>3. Holds(q)
      BY <1>2, <2>1, <2>2 DEF Changing, Inside
    <2>4. QED BY <1>1, <2>1, <2>2, <2>3 DEF Holds
  <1>11. ASSUME NEW c, UseCatalog(r, c), q.pc = "catalog", UNCHANGED <<rows, state>>
         PROVE  Holds(requests[r])'
    <2>1. q.op = "add"
      BY <1>1, <1>4, <1>11 DEF UseCatalog, Coherent
    <2>2. n = [q EXCEPT !.pc = "write", !.change = {Entry(c, p) : p \in Needed(c, q.slug, Slugs(q.read))}]
      BY <1>1, <1>4, <1>11, <2>1 DEF UseCatalog, AddFrom
    <2>3. n.op = q.op /\ n.life = q.life /\ n.pc = "write" /\ n.read = q.read
      BY <1>1, <2>2 DEF RequestRecords
    <2>4. Holds(q)
      BY <1>2, <1>11, <2>1, <2>3 DEF Changing, Inside
    <2>5. QED BY <1>1, <1>11, <2>3, <2>4 DEF Holds
  <1>12. CASE Serve(r) \/ Fetch(r)
    BY <1>11, <1>12 DEF Serve, Fetch, At, tableVars
  <1>13. CASE WriteConfigMap(r)
    <2>1. /\ q.pc = "write" /\ configMap' = Text(Target(q)) /\ n = [q EXCEPT !.pc = "hash"]
          /\ UNCHANGED <<rows, state>>
      BY <1>1, <1>4, <1>13 DEF WriteConfigMap, At, To, tableVars
    <2>2. /\ n.op = q.op /\ n.life = q.life /\ n.pc = "hash" /\ n.read = q.read /\ n.change = q.change
      BY <1>1, <2>1 DEF RequestRecords
    <2>3. Holds(q)
      BY <1>2, <1>3, <2>1, <2>2 DEF Changing, Inside
    <2>4. Target(n) = Target(q)
      BY <2>2 DEF Target
    <2>5. QED BY <1>1, <2>1, <2>2, <2>3, <2>4 DEF Holds, Target
  <1>14. CASE StoreHash(r)
    <2>1. /\ q.pc = "hash" /\ SetWritten(Text(Target(q))) /\ n = [q EXCEPT !.pc = "rows"]
          /\ UNCHANGED <<rows, configMap, namespace>>
      BY <1>1, <1>14 DEF StoreHash, At, To, rest, serverSide, clusterVars
    <2>2. /\ n.op = q.op /\ n.life = q.life /\ n.pc = "rows" /\ n.read = q.read /\ n.change = q.change
      BY <1>1, <2>1 DEF RequestRecords
    <2>3. Holds(q)
      BY <1>2, <1>3, <2>1, <2>2 DEF Changing, Inside
    <2>4. Target(n) = Target(q)
      BY <2>2 DEF Target
    <2>5. state' # None /\ state'.written = Text(Target(q))
      BY <1>1, <2>1, <2>3, TargetIsText, HashesStay DEF DataTyped, Holds
    <2>6. QED BY <1>1, <2>1, <2>2, <2>3, <2>4, <2>5 DEF Holds, Target
  <1>15. CASE GiveUp(r) \/ WriteFails(r) \/ StoreFails(r) \/ StoreRows(r)
    BY <1>4, <1>15 DEF GiveUp, WriteFails, StoreFails, StoreRows
  <1>16. CASE CatalogUnavailable(r)
    BY <1>4, <1>16 DEF CatalogUnavailable
  <1>17. CASE ReadHashes(r)
    <2>1. q.op = "view" /\ n.op = q.op
      BY <1>1, <1>17 DEF ReadHashes, At, Coherent, RequestRecords
    <2>2. QED BY <1>3, <2>1
  <1>18. CASE ReadReport(r) \/ StoreApplied(r)
    <2>1. q.pc \in {"report", "store"}
      BY <1>18 DEF ReadReport, StoreApplied, At
    <2>2. CASE \E a : Answered(r, a)
      BY <1>1, <1>3, <2>2 DEF Answered, Idle
    <2>3. CASE requests' = [requests EXCEPT ![r].pc = "store", ![r].applied = booted]
      <3>1. n = [q EXCEPT !.pc = "store", !.applied = booted]
        BY <1>1, <2>3
      <3>2. n.pc = "store"
        BY <1>1, <3>1 DEF RequestRecords
      <3>3. QED BY <1>3, <3>2 DEF Inside
    <2>4. QED BY <1>18, <2>2, <2>3 DEF ReadReport, StoreApplied
  <1>19. QED BY <1>5, <1>6, <1>7, <1>8, <1>9, <1>10, <1>12, <1>13, <1>14, <1>15, <1>16, <1>17, <1>18
            DEF Change, Proceed

\* Neither a job nor a boot nor a restart takes it away from a change whose
\* server is still there.
LEMMA HolderStep ==
    ASSUME Typed, Threads, Holder, [Next]_vars
    PROVE  Holder'
  <1> SUFFICES ASSUME NEW x \in Requests, Changing(x)', SameServer(requests[x])'
               PROVE  Holds(requests[x])'
    BY DEF Holder
  <1>1. CASE \E r \in Requests : Change(r) \/ Proceed(r) \/ Look(r)
    BY <1>1, OthersLeaveHolder, OwnStep
  <1>2. ASSUME UNCHANGED <<requests, lives>>, Gone => Gone'
        PROVE  Changing(x) /\ SameServer(requests[x]) /\ Holds(requests[x]) /\ job \notin Creating
               /\ Target(requests[x])' = Target(requests[x])
    <2>1. Changing(x) /\ SameServer(requests[x])
      BY <1>2 DEF Changing, SameServer
    <2>2. QED BY <1>2, <2>1 DEF Holder, Holds, Target
  <1>3. CASE UNCHANGED vars
    BY <1>2, <1>3 DEF vars, serverVars, clusterVars, tableVars, Holds, Gone
  <1>4. CASE Boot \/ ChangePod
    BY <1>2, <1>4 DEF Boot, ChangePod, podRest, serverVars, tableVars, Holds, Gone
  <1>5. CASE Restart
    BY <1>5 DEF Restart, Changing, Idle
  <1>6. ASSUME NEW t \in Tenants, Create(t)
        PROVE  FALSE
    <2>1. requests'[x].life = lives + 1 /\ requests' = requests
      BY <1>6 DEF Create, jobRest, SameServer
    <2>2. requests[x].life <= lives /\ lives \in Nat
      BY DEF Threads, Coherent, Typed, TypeOK
    <2>3. QED BY <2>1, <2>2
  <1>7. CASE MakeNamespace \/ SeedConfigMap \/ SeedServer \/ SeedHash \/ Install
    BY <1>2, <1>7 DEF MakeNamespace, SeedConfigMap, SeedServer, SeedHash, Install, serverVars, jobRest,
       Creating, Gone
  <1>8. CASE Rollout \/ CreateFails
    <2>1. UNCHANGED <<requests, lives>> /\ ~Gone
      BY <1>8 DEF Rollout, CreateFails, jobRest, Servers!Created, Servers!Is, Gone
    <2>2. job \in Creating
      BY <1>8 DEF Rollout, CreateFails, Creating
    <2>3. QED BY <1>2, <2>1, <2>2
  <1>9. CASE Delete \/ DeleteFails
    <2>1. /\ UNCHANGED <<requests, lives, rows, state>> /\ ~Gone /\ job' \notin Creating
          /\ UNCHANGED <<configMap, namespace>> \/ namespace' = FALSE
      BY <1>9 DEF Delete, DeleteFails, ReleaseGoes, NamespaceGoes, jobRest, Servers!AcceptDelete, Servers!PutBack, Servers!Is, Gone,
         tableVars, clusterVars, Creating
    <2>2. QED BY <1>2, <2>1 DEF Holds
  <1>10. CASE Uninstall
    <2>1. /\ UNCHANGED <<ledger, requests, lives, rows, state, configMap, namespace>> /\ job' \notin Creating
      BY <1>10 DEF Uninstall, ReleaseGoes, jobRest, serverVars, tableVars, Creating
    <2>2. QED BY <1>2, <2>1 DEF Holds, Gone
  <1>11. CASE DeleteNamespace
    <2>1. /\ UNCHANGED <<ledger, requests, lives, rows, state>> /\ job' \notin Creating /\ namespace' = FALSE
      BY <1>11 DEF DeleteNamespace, NamespaceGoes, jobRest, serverVars, tableVars, Creating
    <2>2. QED BY <1>2, <2>1 DEF Holds, Gone
  <1>12. CASE ForgetServer
    <2>1. ledger'[Name] = None
      BY <1>12 DEF ForgetServer, Servers!Deleted, Typed, TypeOK
    <2>2. QED BY <2>1 DEF SameServer, Gone
  <1>13. QED BY <1>1, <1>3, <1>4, <1>5, <1>6, <1>7, <1>8, <1>9, <1>10, <1>11, <1>12 DEF Next, Job

-----------------------------------------------------------------------------
(* The selection                                                             *)

Selection == Seeded /\ Closed /\ RemovedStaysRemoved /\ Places /\ Fresh /\ Agrees

\* The defaults, as the first rows of a server.
LEMMA SeedIsDefault ==
    ASSUME NEW S, S = {}
    PROVE  Inserted(S, DefaultRows) = DefaultRows
  BY DEF Inserted, Slugs

\* A thread's step that leaves the selection alone.
LEMMA StaysKeeps ==
    ASSUME Selection, UNCHANGED <<ledger, job>>, Stays, Quiet' => Quiet
    PROVE  Selection'
  <1>1. Seeded' /\ Closed' /\ RemovedStaysRemoved' /\ Places'
    BY DEF Selection, Seeded, Closed, RemovedStaysRemoved, Places, Stays, Gone
  <1>2. Fresh'
    BY DEF Selection, Fresh, Stays, Gone, Clean
  <1>3. Agrees'
    BY DEF Selection, Agrees, Stays, Gone, Clean
  <1>4. QED BY <1>1, <1>2, <1>3 DEF Selection

\* The seeding of a selection that has no row of hashes, by whomever.
LEMMA SeedsKeeps ==
    ASSUME Selection, Seeds
    PROVE  /\ Closed' /\ RemovedStaysRemoved'
           /\ ~history.stray => rows' = DefaultRows
  <1>1. ~history.stray => rows = {} /\ history.removed = {} /\ rows' = DefaultRows
    BY SeedIsDefault DEF Selection, Seeded, Seeds
  <1>2. RemovedStaysRemoved'
    BY <1>1 DEF RemovedStaysRemoved, Seeds
  <1>3. Closed'
    BY <1>1, DefaultsAreRows DEF Closed, Seeds
  <1>4. QED BY <1>1, <1>2, <1>3

\* A thread that seeds.
LEMMA ThreadSeeds ==
    ASSUME Selection, UNCHANGED <<ledger, job>>, Seeds, Quiet' => Quiet
    PROVE  Selection'
  <1>1. Closed' /\ RemovedStaysRemoved' /\ (~history.stray => rows' = DefaultRows)
    BY SeedsKeeps
  <1>2. Seeded' /\ Places'
    BY <1>1 DEF Selection, Seeded, Places, Seeds, Gone
  <1>3. Fresh'
    BY DEF Selection, Fresh, Seeds, Gone, Clean
  <1>4. Agrees'
    BY DEF Selection, Agrees, Seeds, Gone, Clean
  <1>5. QED BY <1>1, <1>2, <1>3, <1>4 DEF Selection

\* A step of a change between its ConfigMap and its rows.
LEMMA BetweenKeeps ==
    ASSUME Selection, UNCHANGED <<ledger, job, namespace, rows>>,
           history'.removed = history.removed, history'.stray = history.stray,
           state' = None <=> state = None,
           ~Quiet' \/ history'.torn,
           configMap' = configMap \/ namespace
    PROVE  Selection'
  <1>1. Seeded' /\ Closed' /\ RemovedStaysRemoved' /\ Places'
    BY DEF Selection, Seeded, Closed, RemovedStaysRemoved, Places, Gone
  <1>2. Fresh' /\ Agrees'
    BY DEF Fresh, Agrees, Clean
  <1>3. QED BY <1>1, <1>2 DEF Selection

\* What a change makes of the rows it has read.
LEMMA TargetHasAll ==
    ASSUME NEW q \in RequestRecords, q.op \in {"add", "remove"}, Plan(q),
           NEW new, new = IF q.op = "add" THEN Inserted(q.read, q.change)
                          ELSE {w \in q.read : w.slug # q.slug}
    PROVE  /\ new = Target(q)
           /\ (\A w \in q.read : w.requires \subseteq Slugs(q.read))
                => \A w \in new : w.requires \subseteq Slugs(new)
  <1>1. CASE q.op = "add"
    <2>1. new = Target(q)
      BY <1>1 DEF Plan, Inserted, Target, Slugs
    <2>2. new = Inserted(q.read, q.change)
      BY <1>1
    <2>3. (\A w \in q.read : w.requires \subseteq Slugs(q.read))
             => \A w \in Inserted(q.read, q.change) : w.requires \subseteq Slugs(Inserted(q.read, q.change))
      <3> SUFFICES ASSUME \A w \in q.read : w.requires \subseteq Slugs(q.read)
                   PROVE  \A w \in Inserted(q.read, q.change) :
                              w.requires \subseteq Slugs(Inserted(q.read, q.change))
        OBVIOUS
      <3>1. \A w \in q.read : w.requires \subseteq Slugs(q.read) \cup Slugs(q.change)
        OBVIOUS
      <3>2. \A w \in q.change : w.requires \subseteq Slugs(q.read) \cup Slugs(q.change)
        BY <1>1 DEF Plan
      <3>3. QED BY <3>1, <3>2, InsertedIsClosed
    <2>4. QED BY <2>1, <2>2, <2>3
  <1>2. CASE q.op = "remove"
    <2>1. new = {w \in q.read : w.slug # q.slug}
      BY <1>2
    <2>2. new = Target(q)
      BY <1>2, <2>1 DEF Plan, Target
    <2>3. ASSUME \A w \in q.read : w.requires \subseteq Slugs(q.read), NEW w \in new, NEW p \in w.requires
          PROVE  p \in Slugs(new)
      <3>1. p # q.slug
        BY <1>2, <2>1, <2>3 DEF Plan
      <3>2. PICK v \in q.read : v.slug = p
        BY <2>1, <2>3 DEF Slugs
      <3>3. QED BY <2>1, <3>1, <3>2 DEF Slugs
    <2>4. QED BY <2>2, <2>3
  <1>3. QED BY <1>1, <1>2

\* The end of a change.
LEMMA StoreRowsKeeps ==
    ASSUME Typed, Threads, Holder, Selection, NEW r \in Requests, StoreRows(r)
    PROVE  Selection'
  <1> DEFINE q == requests[r]
  <1>1. /\ DataTyped /\ q \in RequestRecords /\ q.op \in {"add", "remove"} /\ Plan(q) /\ q.pc = "rows"
        /\ Changing(r)
    BY StoresInside DEF Typed, TypeOK, DataTyped, Threads, Coherent, StoreRows, At, Stores
  <1>2. /\ UNCHANGED <<ledger, lives, job, namespace, configMap, state>>
        /\ rows' = IF q.op = "add" THEN Inserted(rows, q.change) ELSE {w \in rows : w.slug # q.slug}
        /\ history'.torn = (history.torn /\ ~SameServer(q))
        /\ history'.stray = (history.stray \/ ~SameServer(q))
        /\ history'.removed = IF q.op = "add" THEN history.removed \ Slugs(q.change)
                              ELSE history.removed \cup {q.slug}
    BY DEF StoreRows, serverVars, clusterVars
  <1>3. RemovedStaysRemoved'
    <2>1. history'.stray \/ history.removed \cap Slugs(rows) = {}
      BY <1>2 DEF Selection, RemovedStaysRemoved
    <2>2. CASE q.op = "add"
      BY <1>2, <2>1, <2>2, InsertedSlugs DEF RemovedStaysRemoved
    <2>3. CASE q.op = "remove"
      BY <1>2, <2>1, <2>3 DEF RemovedStaysRemoved, Slugs
    <2>4. QED BY <1>1, <2>2, <2>3
  <1>4. Places'
    BY <1>2 DEF Selection, Places, Gone
  <1>5. CASE ~SameServer(q)
    <2>1. history'.stray
      BY <1>2, <1>5
    <2>2. QED BY <1>3, <1>4, <2>1 DEF Selection, Seeded, Closed, Fresh, Agrees, Clean
  <1>6. CASE SameServer(q)
    <2>1. Holds(q) /\ ~Gone
      BY <1>1, <1>6 DEF Holder, SameServer
    <2>2. /\ job \notin Creating /\ state # None /\ rows = q.read
          /\ namespace => configMap = Text(Target(q))
          /\ state.written = Text(Target(q))
      BY <1>1, <2>1 DEF Holds
    <2>3. rows' = Target(q) /\ ((\A w \in rows : w.requires \subseteq Slugs(rows))
                                => \A w \in rows' : w.requires \subseteq Slugs(rows'))
      BY <1>1, <1>2, <2>2, TargetHasAll
    <2>4. Closed'
      BY <1>2, <2>3 DEF Selection, Closed
    <2>5. Seeded' /\ Fresh'
      BY <1>2, <2>1, <2>2 DEF Seeded, Fresh, Gone, Creating
    <2>6. Agrees'
      BY <1>2, <2>2, <2>3 DEF Agrees
    <2>7. QED BY <1>3, <1>4, <2>4, <2>5, <2>6 DEF Selection
  <1>7. QED BY <1>5, <1>6

\* Every step of a thread.
LEMMA ThreadKeeps ==
    ASSUME Typed, Threads, Holder, Selection, Threads',
           NEW r \in Requests, Change(r) \/ Proceed(r) \/ Look(r)
    PROVE  Selection'
  <1> DEFINE q == requests[r]
  <1>1. /\ DataTyped /\ q \in RequestRecords /\ requests \in [Requests -> RequestRecords]
        /\ UNCHANGED <<ledger, job>>
    BY ThreadsLeaveServer DEF Typed, TypeOK, DataTyped
  <1>2. CASE ~Stores(r)
    BY <1>1, <1>2, OtherSteps, QuietLater, StaysKeeps, ThreadSeeds
  <1>3. ASSUME NEW pc \in {"hash", "rows"}, To(r, pc), lock' = lock, Stores(r)
        PROVE  ~Quiet'
    <2>1. lock' = r
      BY <1>3, StoresInside
    <2>2. requests'[r] = [q EXCEPT !.pc = pc]
      BY <1>1, <1>3 DEF To
    <2>3. requests'[r].pc = pc
      BY <1>1, <2>2 DEF RequestRecords
    <2>4. QED BY <2>1, <2>3, NoneAssumption DEF Quiet
  <1>4. /\ Tear => /\ history'.torn
                  /\ history'.removed = history.removed /\ history'.stray = history.stray
        /\ \A torn : Write(q, torn) => /\ history'.torn = torn
                  /\ history'.removed = history.removed /\ history'.stray = history.stray
    BY <1>1 DEF Tear, Write, DataTyped
  <1>5. CASE WriteConfigMap(r)
    <2>1. ~Quiet' \/ Write(q, TRUE)
      BY <1>3, <1>5 DEF WriteConfigMap, Stores
    <2>2. Write(q, history.torn) \/ Write(q, TRUE)
      BY <1>5 DEF WriteConfigMap
    <2>3. QED BY <1>1, <1>4, <1>5, <2>1, <2>2, BetweenKeeps DEF WriteConfigMap, tableVars
  <1>6. CASE StoreHash(r)
    <2>1. ~Quiet'
      BY <1>3, <1>6 DEF StoreHash, Stores
    <2>2. state' = None <=> state = None
      BY <1>1, <1>6, TargetIsText, HashesStay DEF StoreHash, DataTyped
    <2>3. UNCHANGED <<namespace, configMap, history, rows>>
      BY <1>6 DEF StoreHash, rest, serverSide, clusterVars
    <2>4. QED BY <1>1, <2>1, <2>2, <2>3, BetweenKeeps
  <1>7. CASE StoreFails(r)
    <2>1. Tear /\ UNCHANGED <<namespace, configMap, rows, state>>
      BY <1>7 DEF StoreFails, clusterVars, tableVars
    <2>2. QED BY <1>1, <1>4, <2>1, BetweenKeeps
  <1>8. CASE StoreRows(r)
    BY <1>8, StoreRowsKeeps
  <1>9. QED BY <1>2, <1>5, <1>6, <1>7, <1>8 DEF Stores

\* The steps that put the default selection of a new server in its places.
LEMMA SeedingKeeps ==
    ASSUME Typed, Selection, UNCHANGED <<lock, requests>>,
           MakeNamespace \/ SeedConfigMap \/ SeedServer \/ SeedHash
    PROVE  Selection'
  <1>1. DataTyped
    BY DEF Typed, TypeOK, DataTyped
  <1>2. /\ UNCHANGED <<ledger, history>> /\ (Quiet' <=> Quiet) /\ ~Gone /\ (Clean' <=> Clean)
    <2>1. UNCHANGED <<ledger, history>> /\ job \in Creating
      BY DEF MakeNamespace, SeedConfigMap, SeedServer, SeedHash, serverVars, Creating
    <2>2. ~Gone
      BY <2>1 DEF Typed, Is, Servers!Is, Gone
    <2>3. QED BY <2>1, <2>2 DEF Quiet, Clean
  <1>3. CASE MakeNamespace
    <2>1. /\ job = "namespace" /\ job' = "configmap" /\ namespace' = TRUE
          /\ UNCHANGED <<configMap, rows, state>>
      BY <1>3 DEF MakeNamespace, tableVars
    <2>2. configMap = None
      BY <2>1 DEF Selection, Places
    <2>3. Seeded' /\ Closed' /\ RemovedStaysRemoved' /\ Places'
      BY <1>2, <2>1, <2>2 DEF Selection, Seeded, Closed, RemovedStaysRemoved, Places, Gone
    <2>4. Fresh'
      BY <1>2, <2>1 DEF Selection, Fresh, Gone
    <2>5. Agrees'
      BY <1>2, <2>1, <2>2 DEF Selection, Fresh, Agrees
    <2>6. QED BY <2>3, <2>4, <2>5 DEF Selection
  <1>4. CASE SeedConfigMap
    <2>1. /\ job = "configmap" /\ job' = "rows" /\ configMap' = Text(DefaultRows)
          /\ UNCHANGED <<namespace, rows, state>>
      BY <1>4 DEF SeedConfigMap, tableVars
    <2>2. namespace
      BY <2>1 DEF Selection, Places, Creating
    <2>3. Seeded' /\ Closed' /\ RemovedStaysRemoved' /\ Places'
      BY <1>2, <2>1, <2>2 DEF Selection, Seeded, Closed, RemovedStaysRemoved, Places, Gone
    <2>4. Fresh' /\ Agrees'
      BY <1>2, <2>1 DEF Selection, Fresh, Agrees, Gone
    <2>5. QED BY <2>3, <2>4 DEF Selection
  <1>5. CASE SeedServer
    <2>1. /\ job = "rows" /\ job' = "hash" /\ Seed /\ UNCHANGED <<namespace, configMap>>
      BY <1>5 DEF SeedServer, clusterVars
    <2>2. Stays \/ Seeds
      <3>1. CASE state = None
        BY <1>1, <1>2, <2>1, <3>1, SeedOnce DEF DataTyped, Seeds
      <3>2. CASE state # None
        BY <1>1, <1>2, <2>1, <3>2, SeedOnce DEF DataTyped, Stays
      <3>3. QED BY <3>1, <3>2
    <2>3. state' # None
      BY <1>1, <2>1, SeedOnce DEF DataTyped
    <2>4. /\ Closed' /\ RemovedStaysRemoved' /\ (~history.stray => rows' = DefaultRows)
      <3>1. CASE Seeds
        BY <3>1, SeedsKeeps
      <3>2. CASE Stays
        <4>1. Closed' /\ RemovedStaysRemoved'
          BY <3>2 DEF Selection, Closed, RemovedStaysRemoved, Stays
        <4>2. ~history.stray => rows' = DefaultRows
          BY <2>1, <2>3, <3>2 DEF Selection, Seeded, Stays
        <4>3. QED BY <4>1, <4>2
      <3>3. QED BY <2>2, <3>1, <3>2
    <2>5. Seeded' /\ Places'
      BY <1>2, <2>1, <2>3, <2>4 DEF Selection, Seeded, Places, Gone, Creating
    <2>6. Fresh'
      BY <1>2, <2>1, <2>3 DEF Selection, Fresh, Gone
    <2>7. Agrees'
      BY <2>1 DEF Agrees
    <2>8. QED BY <2>4, <2>5, <2>6, <2>7 DEF Selection
  <1>6. CASE SeedHash
    <2>1. /\ job = "hash" /\ job' = "install" /\ SetWritten(Text(DefaultRows))
          /\ UNCHANGED <<namespace, configMap, rows>>
      BY <1>6 DEF SeedHash, clusterVars
    <2>2. /\ state' = None <=> state = None
          /\ state # None => state'.written = Text(DefaultRows)
      BY <1>1, <2>1, DefaultsAreRows, TextIsText, HashesStay DEF DataTyped
    <2>3. Seeded' /\ Closed' /\ RemovedStaysRemoved' /\ Places'
      BY <1>2, <2>1, <2>2 DEF Selection, Seeded, Closed, RemovedStaysRemoved, Places, Gone, Creating
    <2>4. Fresh'
      BY <1>2, <2>1 DEF Fresh, Gone
    <2>5. Agrees'
      BY <1>2, <2>1, <2>2 DEF Selection, Seeded, Fresh, Agrees, Clean
    <2>6. QED BY <2>3, <2>4, <2>5 DEF Selection
  <1>7. QED BY <1>3, <1>4, <1>5, <1>6

\* The other steps of the jobs.
LEMMA JobKeeps ==
    ASSUME Typed, Selection, UNCHANGED <<lock, requests>>, Job
    PROVE  Selection'
  <1>1. DataTyped /\ (Quiet' <=> Quiet)
    BY DEF Typed, TypeOK, DataTyped, Quiet
  <1>2. CASE MakeNamespace \/ SeedConfigMap \/ SeedServer \/ SeedHash
    BY <1>2, SeedingKeeps
  <1>3. CASE \E t \in Tenants : Create(t)
    <2>1. /\ Gone /\ job' = "namespace" /\ UNCHANGED <<namespace, configMap, rows, state, history>>
      BY <1>3 DEF Create, Servers!Accept, Gone, clusterVars, tableVars
    <2>2. Seeded' /\ Closed' /\ RemovedStaysRemoved'
      BY <2>1 DEF Selection, Seeded, Closed, RemovedStaysRemoved
    <2>3. Places' /\ ~namespace'
      BY <2>1 DEF Selection, Places, Creating
    <2>4. Fresh' /\ Agrees'
      BY <1>1, <2>1, <2>3 DEF Selection, Fresh, Agrees, Clean
    <2>5. QED BY <2>2, <2>3, <2>4 DEF Selection
  <1>4. ASSUME UNCHANGED <<namespace, configMap, rows, state>>, ~Gone, ~Gone',
               job' \notin {"namespace", "configmap", "rows", "hash", "forget"},
               job' \in Creating => job \in Creating \ {"namespace"},
               history'.removed = history.removed, history'.stray = history.stray,
               history'.torn = (history.torn \/ job \in {"rows", "hash"})
        PROVE  Selection'
    <2>1. Seeded' /\ Closed' /\ RemovedStaysRemoved'
      BY <1>4 DEF Selection, Seeded, Closed, RemovedStaysRemoved
    <2>2. Places'
      BY <1>4 DEF Selection, Places
    <2>3. Fresh' /\ Agrees'
      BY <1>1, <1>4 DEF Selection, Fresh, Agrees, Clean
    <2>4. QED BY <2>1, <2>2, <2>3 DEF Selection
  <1>5. ASSUME Is("provisioning") \/ Is("deleting") \/ Is("ready") \/ Is("failed"),
               NEW status \in {"ready", "failed", "deleting"}, NEW was \in {"none", "ready", "failed"},
               Servers!Put(Name, status, was)
        PROVE  ~Gone /\ ~Gone'
    <2>1. ledger[Name] \in ServerRows
      BY <1>5 DEF Typed, TypeOK, Is, Servers!Is
    <2>2. ledger' = [ledger EXCEPT ![Name] = [[ledger[Name] EXCEPT !.status = status] EXCEPT !.was = was]]
      BY <1>5 DEF Servers!Put, Typed, TypeOK
    <2>3. ledger'[Name] = [[ledger[Name] EXCEPT !.status = status] EXCEPT !.was = was]
      BY <2>2 DEF Typed, TypeOK
    <2>4. ledger'[Name] \in ServerRows
      BY <2>1, <2>3 DEF ServerRows
    <2>5. QED BY <1>5, <2>4, NoneAssumption DEF Gone, Is, Servers!Is
  <1>6. CASE Install \/ Uninstall
    <2>1. /\ UNCHANGED <<ledger, namespace, configMap, rows, state, history>>
          /\ \/ job = "install" /\ job' = "rollout"
             \/ job = "uninstall" /\ job' = "unname"
      BY <1>6 DEF Install, Uninstall, ReleaseGoes, serverVars, tableVars
    <2>2. ~Gone
      BY <2>1 DEF Typed, TypeOK, Is, Servers!Is, Gone
    <2>3. QED BY <1>1, <1>4, <2>1, <2>2 DEF Creating, Gone, DataTyped
  <1>7. CASE Rollout
    <2>1. /\ UNCHANGED <<namespace, configMap, rows, state, history>> /\ job = "rollout" /\ job' = "none"
          /\ Servers!Created(Name)
      BY <1>7 DEF Rollout, clusterVars, tableVars
    <2>2. ~Gone /\ ~Gone'
      BY <1>5, <2>1 DEF Servers!Created, Is
    <2>3. QED BY <1>1, <1>4, <2>1, <2>2 DEF Creating, DataTyped
  <1>8. CASE CreateFails
    <2>1. /\ UNCHANGED <<namespace, configMap, rows, state>> /\ job' = "none" /\ Servers!Created(Name)
          /\ history' = [history EXCEPT !.torn = @ \/ job \in {"rows", "hash"}]
      BY <1>8 DEF CreateFails, clusterVars, tableVars
    <2>2. ~Gone /\ ~Gone'
      BY <1>5, <2>1 DEF Servers!Created, Is
    <2>3. /\ history'.removed = history.removed /\ history'.stray = history.stray
          /\ history'.torn = (history.torn \/ job \in {"rows", "hash"})
      BY <1>1, <2>1 DEF DataTyped
    <2>4. QED BY <1>4, <2>1, <2>2, <2>3 DEF Creating
  <1>9. CASE Delete
    <2>1. /\ UNCHANGED <<namespace, configMap, rows, state, history>> /\ job' = "uninstall"
          /\ Servers!AcceptDelete(Name)
      BY <1>9 DEF Delete, clusterVars, tableVars
    <2>2. ~Gone /\ ~Gone'
      BY <1>5, <2>1 DEF Servers!AcceptDelete, Is
    <2>3. Is("ready") \/ Is("failed")
      BY <2>1 DEF Servers!AcceptDelete, Is
    <2>4. job = "none"
      BY <2>3 DEF Typed, TypeOK, Is, Servers!Is
    <2>5. QED BY <1>1, <1>4, <2>1, <2>2, <2>4 DEF Creating, DataTyped
  <1>10. CASE DeleteFails
    <2>1. /\ UNCHANGED <<rows, state, history>> /\ job \in {"uninstall", "unname"}
          /\ job' = "none" /\ Servers!PutBack(Name)
          /\ UNCHANGED <<namespace, configMap>> \/ (namespace' = FALSE /\ configMap' = None)
      BY <1>10 DEF DeleteFails, ReleaseGoes, NamespaceGoes, clusterVars, tableVars
    <2>2. ~Gone /\ ~Gone'
      <3>1. Is("deleting") /\ Servers!Put(Name, ledger[Name].was, "none")
        BY <2>1 DEF Servers!PutBack, Is
      <3>2. ledger[Name].was \in {"ready", "failed"}
        BY <3>1 DEF Typed
      <3>3. QED BY <1>5, <3>1, <3>2
    <2>3. CASE UNCHANGED <<namespace, configMap>>
      BY <1>1, <1>4, <2>1, <2>2, <2>3 DEF Creating, DataTyped
    <2>4. CASE namespace' = FALSE /\ configMap' = None
      <3>1. Seeded' /\ Closed' /\ RemovedStaysRemoved' /\ Places'
        BY <2>1, <2>2, <2>4 DEF Selection, Seeded, Closed, RemovedStaysRemoved, Places, Creating
      <3>2. Fresh' /\ Agrees'
        BY <2>1, <2>2, <2>4 DEF Fresh, Agrees
      <3>3. QED BY <3>1, <3>2 DEF Selection
    <2>5. QED BY <2>1, <2>3, <2>4
  <1>11. CASE DeleteNamespace
    <2>1. /\ UNCHANGED <<ledger, rows, state, history>> /\ job = "unname" /\ job' = "forget"
          /\ namespace' = FALSE /\ configMap' = None
      BY <1>11 DEF DeleteNamespace, NamespaceGoes, serverVars, tableVars
    <2>2. ~Gone
      BY <2>1 DEF Typed, TypeOK, Is, Servers!Is, Gone
    <2>3. Seeded' /\ Closed' /\ RemovedStaysRemoved' /\ Places' /\ Fresh' /\ Agrees'
      BY <2>1, <2>2 DEF Selection, Seeded, Closed, RemovedStaysRemoved, Places, Fresh, Agrees, Gone, Creating
    <2>4. QED BY <2>3 DEF Selection
  <1>12. CASE ForgetServer
    <2>1. /\ job = "forget" /\ job' = "none" /\ ledger' = [ledger EXCEPT ![Name] = None]
          /\ rows' = {} /\ state' = None /\ UNCHANGED <<namespace, configMap>>
          /\ history'.removed = {}
      BY <1>1, <1>12 DEF ForgetServer, Unspoilt, Servers!Deleted, clusterVars, DataTyped
    <2>2. ledger'[Name] = None
      BY <2>1 DEF Typed, TypeOK
    <2>3. Seeded' /\ Closed' /\ RemovedStaysRemoved'
      BY <2>1 DEF Seeded, Closed, RemovedStaysRemoved, Slugs
    <2>4. Places' /\ Fresh' /\ Agrees'
      BY <2>1, <2>2 DEF Selection, Places, Fresh, Agrees, Gone, Creating
    <2>5. QED BY <2>3, <2>4 DEF Selection
  <1>13. QED BY <1>2, <1>3, <1>6, <1>7, <1>8, <1>9, <1>10, <1>11, <1>12 DEF Job

\* A restart, which tears what was being stored.
LEMMA RestartKeeps ==
    ASSUME Typed, Threads, Selection, Restart
    PROVE  Selection'
  <1>1. DataTyped
    BY DEF Typed, TypeOK, DataTyped
  <1>2. /\ UNCHANGED <<namespace, configMap, rows, state>> /\ job' = "none" /\ lock' = None
        /\ history'.removed = history.removed /\ history'.stray = history.stray
        /\ history'.torn = (history.torn \/ job \in {"rows", "hash"} \/ \E r \in Requests : Writing(r))
    BY <1>1 DEF Restart, clusterVars, tableVars, DataTyped
  <1>3. Gone' <=> Gone
    <2>1. CASE Gone
      BY <2>1 DEF Gone, Restart, Servers!Restart, Servers!Is
    <2>2. CASE ~Gone
      <3>1. ledger[Name] \in ServerRows
        BY <2>2 DEF Gone, Typed, TypeOK
      <3>2. PICK ready \in SUBSET {n \in {Name} : Servers!Is(n, "deleting")} :
                ledger' = [n \in {Name} |->
                  CASE Servers!Is(n, "provisioning") -> [ledger[n] EXCEPT !.status = "failed"]
                    [] n \in ready -> [ledger[n] EXCEPT !.status = "ready", !.was = "none"]
                    [] Servers!Is(n, "deleting") /\ n \notin ready ->
                           [ledger[n] EXCEPT !.status = "failed", !.was = "none"]
                    [] OTHER -> ledger[n]]
        BY DEF Restart, Servers!Restart
      <3>3. ledger'[Name] \in ServerRows
        BY <3>1, <3>2 DEF Servers!Is, ServerRows
      <3>4. QED BY <2>2, <3>3, NoneAssumption DEF Gone
    <2>3. QED BY <2>1, <2>2
  <1>4. ~Quiet => history'.torn
    <2> SUFFICES ASSUME ~Quiet
                 PROVE  \E r \in Requests : Writing(r)
      BY <1>2
    <2>1. lock \in Requests /\ Changing(lock)
      BY <1>1, NoneAssumption DEF Quiet, DataTyped, Threads, LockHeld
    <2>2. Writing(lock)
      BY <2>1 DEF Quiet, Changing, Inside, Writing
    <2>3. QED BY <2>1, <2>2
  <1>5. Seeded' /\ Closed' /\ RemovedStaysRemoved' /\ Places'
    BY <1>2, <1>3 DEF Selection, Seeded, Closed, RemovedStaysRemoved, Places, Creating
  <1>6. Fresh' /\ Agrees'
    BY <1>2, <1>3, <1>4 DEF Selection, Fresh, Agrees, Clean
  <1>7. QED BY <1>5, <1>6 DEF Selection

-----------------------------------------------------------------------------
(* The theorems                                                              *)

Inv == Typed /\ Threads /\ Holder /\ Selection

\* A behaviour begins with a server of today or with none.
LEMMA InitInv == Init => Inv
  <1> SUFFICES ASSUME Init
               PROVE  Inv
    OBVIOUS
  <1>1. \A r \in Requests : requests[r] = Idle
    BY DEF Init
  <1>2. DataTyped /\ Selection
    <2>1. history.stray = FALSE /\ history.torn = FALSE /\ history.removed = {}
      BY DEF Init, Unspoilt
    <2>2. /\ configMap = None /\ rows = {} /\ state = None /\ job = "none"
          /\ booted = None /\ cached = None /\ lock = None
          /\ (~Gone /\ namespace = TRUE) \/ (Gone /\ namespace = FALSE)
          /\ pod \in {"none", "asleep"}
      <3>1. ASSUME NEW t \in Tenants
            PROVE  [tenant |-> t, status |-> "ready", was |-> "none"] # None
        <4>1. [tenant |-> t, status |-> "ready", was |-> "none"] \in ServerRows
          BY DEF ServerRows
        <4>2. QED BY <4>1, NoneAssumption
      <3>2. /\ configMap = None /\ rows = {} /\ state = None /\ job = "none"
            /\ booted = None /\ cached = None /\ lock = None
        BY DEF Init
      <3>3. CASE ledger = [n \in {Name} |-> None] /\ namespace = FALSE /\ pod = "none"
        BY <3>2, <3>3 DEF Gone
      <3>4. CASE (\E t \in Tenants :
                     ledger = [n \in {Name} |-> [tenant |-> t, status |-> "ready", was |-> "none"]])
                 /\ namespace = TRUE /\ pod = "asleep"
        <4>1. PICK t \in Tenants : ledger = [n \in {Name} |-> [tenant |-> t, status |-> "ready", was |-> "none"]]
          BY <3>4
        <4>2. ledger[Name] = [tenant |-> t, status |-> "ready", was |-> "none"]
          BY <4>1
        <4>3. ~Gone
          BY <3>1, <4>2 DEF Gone
        <4>4. namespace = TRUE /\ pod = "asleep"
          BY <3>4
        <4>5. QED BY <3>2, <4>3, <4>4
      <3>5. QED BY <3>3, <3>4 DEF Init
    <2>3. DataTyped
      BY <2>2 DEF Init, Unspoilt, DataTyped
    <2>4. Selection
      BY <2>1, <2>2 DEF Selection, Seeded, Closed, RemovedStaysRemoved, Places, Fresh, Agrees, Slugs, Creating
    <2>5. QED BY <2>3, <2>4
  <1>3. ServerTyped
    <2>1. lives \in Nat /\ job = "none"
      BY DEF Init
    <2>2. CASE ledger = [n \in {Name} |-> None]
      BY <2>1, <2>2 DEF ServerTyped, Is, Servers!Is, Creating
    <2>3. ASSUME NEW t \in Tenants, NEW row, row = [tenant |-> t, status |-> "ready", was |-> "none"],
                 ledger = [n \in {Name} |-> row]
          PROVE  ServerTyped
      <3>1. row \in ServerRows /\ row.status = "ready"
        BY <2>3 DEF ServerRows
      <3>2. QED BY <2>1, <2>3, <3>1 DEF ServerTyped, Is, Servers!Is, Creating
    <2>4. QED BY <2>2, <2>3 DEF Init
  <1>4. ThreadsTyped
    BY IdleIsRecord DEF Init, ThreadsTyped
  <1>5. Threads /\ Holder
    <2>1. Idle.pc = "idle" /\ Idle.op = "none" /\ Idle.life = 0
      BY DEF Idle
    <2>2. \A r \in Requests : ~Changing(r) /\ lock # r
      BY <1>1, <2>1, NoneAssumption DEF Changing, Init
    <2>3. \A r \in Requests : Coherent(requests[r])
      BY <1>1, <1>3, <2>1 DEF Coherent, ServerTyped
    <2>4. QED BY <2>2, <2>3 DEF Threads, LockHeld, Holder
  <1>6. QED BY <1>2, <1>3, <1>4, <1>5 DEF Inv, Typed, TypeOK, DataTyped, ServerTyped, ThreadsTyped

\* Every step keeps the invariant.
LEMMA StepInv == Inv /\ [Next]_vars => Inv'
  <1> SUFFICES ASSUME Inv, [Next]_vars
               PROVE  Inv'
    OBVIOUS
  <1>1. Typed' /\ Threads' /\ Holder'
    BY TypedStep, ThreadsStep, HolderStep DEF Inv
  <1>2. Selection'
    <2>1. ASSUME UNCHANGED <<ledger, job, namespace, configMap, rows, state, history, lock, requests>>
          PROVE  Selection'
      <3>1. Stays /\ (Quiet' => Quiet)
        BY <2>1 DEF Stays, Quiet
      <3>2. QED BY <2>1, <3>1, StaysKeeps DEF Inv
    <2>2. CASE UNCHANGED vars
      BY <2>1, <2>2 DEF vars, serverVars, clusterVars, tableVars
    <2>3. CASE Boot \/ ChangePod
      BY <2>1, <2>3 DEF Boot, ChangePod, podRest, serverVars, tableVars
    <2>4. CASE \E r \in Requests : Change(r) \/ Proceed(r) \/ Look(r)
      BY <1>1, <2>4, ThreadKeeps DEF Inv
    <2>5. CASE Restart
      BY <2>5, RestartKeeps DEF Inv
    <2>6. CASE Job
      <3>1. UNCHANGED <<requests, lock>>
        BY <2>6 DEF Job, Create, MakeNamespace, SeedConfigMap, SeedServer, SeedHash, Install, Rollout,
         CreateFails, Delete, Uninstall, DeleteNamespace, ForgetServer, DeleteFails, jobRest
      <3>2. QED BY <2>6, <3>1, JobKeeps DEF Inv
    <2>7. QED BY <2>2, <2>3, <2>4, <2>5, <2>6 DEF Next
  <1>3. QED BY <1>1, <1>2 DEF Inv

\* The invariant holds at all times.
LEMMA SpecInv == Spec => []Inv
  BY InitInv, StepInv, PTL DEF Spec

\* Rows, texts and threads keep their types, and a job is at work exactly while
\* the server's row says so, whatever fails and however often the process restarts.
THEOREM TypeCorrect == Spec => []TypeOK
  <1>1. Inv => TypeOK
    BY DEF Inv, Typed
  <1>2. QED BY <1>1, SpecInv, PTL

\* At most one change is at work on a server's selection: every way out of
\* _changing gives the lock back.
THEOREM OneChangeAtATime == Spec => []LockHeld
  <1>1. Inv => LockHeld
    BY DEF Inv, Threads
  <1>2. QED BY <1>1, SpecInv, PTL

\* What is selected has what it requires, for every catalog and default list:
\* add and remove never leave a plugin without its dependencies.
THEOREM SelectionIsClosed == Spec => []Closed
  <1>1. Inv => Closed
    BY DEF Inv, Selection
  <1>2. QED BY <1>1, SpecInv, PTL

\* A removed plugin is not brought back by a seeding, a view or a job.
THEOREM RemovedIsNotSeeded == Spec => []RemovedStaysRemoved
  <1>1. Inv => RemovedStaysRemoved
    BY DEF Inv, Selection
  <1>2. QED BY <1>1, SpecInv, PTL

\* Between changes the ConfigMap, its hash and the rows agree, unless a change
\* or a create was cut off between them.
THEOREM BetweenChangesTheyAgree == Spec => []Agreement
  <1>1. Inv => Agreement
    <2> SUFFICES ASSUME Inv, Is("ready"), namespace, lock = None, ~history.torn, ~history.stray, state # None
                 PROVE  state.written = configMap /\ (configMap # None => configMap = Text(rows))
      BY DEF Agreement
    <2>1. job = "none" /\ ~Gone
      BY DEF Inv, Typed, TypeOK, Is, Servers!Is, Gone
    <2>2. Clean /\ Quiet
      BY DEF Clean, Quiet
    <2>3. QED BY <2>1, <2>2 DEF Inv, Selection, Agrees
  <1>2. QED BY <1>1, SpecInv, PTL

-----------------------------------------------------------------------------
(* A change is one step                                                      *)

\* What is needed besides what is selected is as little as can be added.
LEMMA NeededIsLeast ==
    ASSUME NEW c \in DOMAIN Catalogs, NEW p \in Plugins, NEW have,
           NEW fewer \in SUBSET Needed(c, p, have), p \in fewer,
           \A s \in fewer : RequiredBy(c, s) \subseteq fewer \cup have,
           \A s \in fewer : RequiredBy(c, s) \subseteq Plugins
    PROVE  fewer = Needed(c, p, have)
  <1> DEFINE S == fewer \cup (have \cap Plugins)
  <1>1. S \in SUBSET Plugins /\ p \in S
    BY DEF Needed
  <1>2. \A s \in S \ have : RequiredBy(c, s) \subseteq S
    OBVIOUS
  <1>3. ASSUME NEW x \in Needed(c, p, have)
        PROVE  x \in fewer
    <2>1. x \notin have /\ x \in S
      BY <1>1, <1>2, <1>3 DEF Needed
    <2>2. QED BY <2>1
  <1>4. QED BY <1>3

\* A change that writes to the rows it has read adds as the ledger adds,
LEMMA AddsAtOnce ==
    ASSUME NEW c \in DOMAIN Catalogs, NEW p \in Plugins, p \in Offered(c),
           Needed(c, p, Slugs(rows)) \subseteq Offered(c), Needed(c, p, Slugs(rows)) # {},
           rows' = rows \cup {Entry(c, s) : s \in Needed(c, p, Slugs(rows))},
           UNCHANGED <<state, history.stray>>
    PROVE  Chosen!Add(Listing(c), p)
  <1> DEFINE new == Needed(c, p, Slugs(rows))
             offer == Listing(c)
  <1>1. Chosen!Selected = Slugs(rows)
    BY DEF Chosen!Selected, Slugs
  <1>2. DOMAIN offer = Offered(c) /\ \A s \in Offered(c) : offer[s] = Entry(c, s)
    BY DEF Listing
  <1>3. \A s \in Offered(c) : /\ offer[s].requires = RequiredBy(c, s)
                             /\ RequiredBy(c, s) \subseteq Plugins
    <2> SUFFICES ASSUME NEW s \in Offered(c)
                 PROVE  /\ offer[s].requires = RequiredBy(c, s)
                        /\ RequiredBy(c, s) \subseteq Plugins
      OBVIOUS
    <2>1. Entry(c, s) \in AllRows /\ Entry(c, s).requires = RequiredBy(c, s)
      BY EntryIsRow
    <2>2. QED BY <1>2, <2>1 DEF AllRows
  <1>4. new \in SUBSET (DOMAIN offer \ Chosen!Selected)
    BY <1>1, <1>2 DEF Needed
  <1>5. p \in new
    <2>1. PICK q : q \in new
      OBVIOUS
    <2>2. p \notin Slugs(rows)
      <3> SUFFICES ASSUME p \in Slugs(rows)
                   PROVE  FALSE
        OBVIOUS
      <3>1. {p} \in SUBSET Plugins /\ {p} \ Slugs(rows) = {}
        OBVIOUS
      <3>2. q \in {p} /\ q \notin Slugs(rows)
        BY <2>1, <3>1 DEF Needed
      <3>3. QED BY <3>2
    <2>3. QED BY <2>2 DEF Needed
  <1>6. \A s \in new : RequiredBy(c, s) \subseteq new \cup Slugs(rows)
    BY <1>3, NeededIsClosed
  <1>7. Chosen!Enough(offer, new)
    BY <1>1, <1>3, <1>6 DEF Chosen!Enough
  <1>8. ASSUME NEW fewer \in SUBSET new, p \in fewer, Chosen!Enough(offer, fewer)
        PROVE  fewer = new
    <2>1. \A s \in fewer : /\ RequiredBy(c, s) \subseteq fewer \cup Slugs(rows)
                           /\ RequiredBy(c, s) \subseteq Plugins
      BY <1>1, <1>3, <1>8 DEF Chosen!Enough
    <2>2. QED BY <1>8, <2>1, NeededIsLeast
  <1>9. rows' = rows \cup {offer[s] : s \in new}
    BY <1>2
  <1> HIDE DEF new, offer
  <1>10. Chosen!Add(offer, p)
    BY <1>4, <1>5, <1>7, <1>8, <1>9 DEF Chosen!Add
  <1>11. QED BY <1>10 DEF offer

\* ... and removes as the ledger removes.
LEMMA StoreIsOneStep ==
    ASSUME Inv, NEW r \in Requests, StoreRows(r)
    PROVE  Chosen!Next
  <1> DEFINE q == requests[r]
  <1>1. /\ q \in RequestRecords /\ q.op \in {"add", "remove"} /\ q.slug \in Plugins
        /\ Plan(q) /\ q.pc = "rows" /\ Changing(r)
    BY StoresInside DEF Inv, Typed, TypeOK, Threads, Coherent, StoreRows, At, Stores
  <1>2. /\ UNCHANGED state
        /\ rows' = IF q.op = "add" THEN Inserted(rows, q.change) ELSE {w \in rows : w.slug # q.slug}
        /\ history'.stray = (history.stray \/ ~SameServer(q))
    BY DEF StoreRows
  <1>3. CASE history.stray \/ ~SameServer(q)
    BY <1>2, <1>3 DEF Chosen!Next, Chosen!Spoil
  <1>4. CASE ~history.stray /\ SameServer(q)
    <2>1. rows = q.read /\ UNCHANGED history.stray
      BY <1>1, <1>2, <1>4 DEF Inv, Holder, Holds, Typed
    <2>2. CASE q.op = "add"
      <3>1. PICK c \in DOMAIN Catalogs :
              /\ Needed(c, q.slug, Slugs(rows)) \subseteq Offered(c)
              /\ Needed(c, q.slug, Slugs(rows)) # {}
              /\ q.slug \in Offered(c)
              /\ q.change = {Entry(c, p) : p \in Needed(c, q.slug, Slugs(rows))}
        BY <1>1, <2>1, <2>2 DEF Plan, Decided
      <3>2. rows' = rows \cup q.change
        BY <1>1, <1>2, <2>1, <2>2 DEF Plan, Inserted, Slugs
      <3>3. Chosen!Add(Listing(c), q.slug)
        BY <1>1, <1>2, <2>1, <3>1, <3>2, AddsAtOnce
      <3>4. q.slug \in DOMAIN Listing(c)
        BY <3>1 DEF Listing
      <3>5. QED BY <3>3, <3>4 DEF Chosen!Next
    <2>3. CASE q.op = "remove"
      <3>1. Chosen!Remove(q.slug)
        BY <1>1, <1>2, <2>1, <2>3 DEF Chosen!Remove, Chosen!Selected, Plan, Slugs
      <3>2. q.slug \in Chosen!Selected
        BY <3>1 DEF Chosen!Remove
      <3>3. QED BY <3>1, <3>2 DEF Chosen!Next
    <2>4. QED BY <1>1, <2>2, <2>3
  <1>5. QED BY <1>3, <1>4

\* Any other step leaves the selection alone, seeds it, forgets it, or comes
\* after a change that outlived its server.
LEMMA ChosenStep ==
    ASSUME Inv, [Next]_vars
    PROVE  [Chosen!Next]_(Chosen!vars)
  <1>1. DataTyped /\ Typed /\ Threads
    BY DEF Inv, Typed, TypeOK, DataTyped
  <1>2. ASSUME UNCHANGED <<rows, history.stray>>, state' = None <=> state = None
        PROVE  [Chosen!Next]_(Chosen!vars)
    BY <1>2 DEF Chosen!vars
  <1>3. ASSUME Seeds
        PROVE  Chosen!Next
    <2>1. state = None /\ state' # None /\ history' = history
      BY <1>3 DEF Seeds
    <2>2. CASE history.stray
      BY <2>1, <2>2 DEF Chosen!Next, Chosen!Spoil
    <2>3. CASE ~history.stray
      <3>1. rows = {} /\ rows' = DefaultRows
        BY <1>3, <2>1, <2>3, SeedIsDefault DEF Seeds, Inv, Selection, Seeded
      <3>2. Chosen!Seed
        BY <2>1, <3>1 DEF Chosen!Seed
      <3>3. QED BY <3>2 DEF Chosen!Next
    <2>4. QED BY <2>2, <2>3
  <1>4. CASE UNCHANGED vars
    BY <1>2, <1>4 DEF vars, tableVars
  <1>5. CASE Boot \/ ChangePod
    BY <1>2, <1>5 DEF Boot, ChangePod, podRest, tableVars
  <1>6. CASE Restart
    BY <1>1, <1>2, <1>6 DEF Restart, tableVars, Typed
  <1>7. ASSUME NEW r \in Requests, Change(r) \/ Proceed(r) \/ Look(r)
        PROVE  [Chosen!Next]_(Chosen!vars)
    <2>1. CASE ~Stores(r)
      <3>1. CASE Stays
        BY <1>2, <3>1 DEF Stays
      <3>2. QED BY <1>1, <1>3, <1>7, <2>1, <3>1, OtherSteps
    <2>2. CASE StoreRows(r)
      BY <2>2, StoreIsOneStep
    <2>3. CASE WriteConfigMap(r) \/ StoreFails(r)
      BY <1>1, <1>2, <2>3 DEF WriteConfigMap, StoreFails, Tear, Write, tableVars, Typed
    <2>4. CASE StoreHash(r)
      <3>1. SetWritten(Text(Target(requests[r]))) /\ UNCHANGED <<rows, history>>
        BY <2>4 DEF StoreHash, rest, serverSide
      <3>2. state' = None <=> state = None
        <4>1. Text(Target(requests[r])) \in Texts
          BY <1>1, TargetIsText DEF Typed, TypeOK
        <4>2. QED BY <1>1, <3>1, <4>1, HashesStay DEF DataTyped
      <3>3. QED BY <1>2, <3>1, <3>2
    <2>5. QED BY <2>1, <2>2, <2>3, <2>4 DEF Stores
  <1>8. CASE Job
    <2>1. CASE SeedServer
      <3>1. Seed /\ UNCHANGED <<namespace, configMap, history>>
        BY <2>1 DEF SeedServer, clusterVars
      <3>2. CASE state = None
        BY <1>1, <1>3, <3>1, <3>2, SeedOnce DEF DataTyped, Seeds
      <3>3. CASE state # None
        BY <1>1, <1>2, <3>1, <3>3, SeedOnce DEF DataTyped
      <3>4. QED BY <3>2, <3>3
    <2>2. CASE SeedHash
      <3>1. SetWritten(Text(DefaultRows)) /\ UNCHANGED <<rows, history>>
        BY <2>2 DEF SeedHash
      <3>2. state' = None <=> state = None
        BY <1>1, <3>1, DefaultsAreRows, TextIsText, HashesStay DEF DataTyped
      <3>3. QED BY <1>2, <3>1, <3>2
    <2>3. CASE ForgetServer
      <3>1. Chosen!Forget
        BY <2>3 DEF ForgetServer, Unspoilt, Chosen!Forget
      <3>2. QED BY <3>1 DEF Chosen!Next
    <2>4. CASE \E t \in Tenants : Create(t)
      BY <1>2, <2>4 DEF Create, tableVars
    <2>5. CASE MakeNamespace \/ SeedConfigMap \/ Install \/ Rollout
      BY <1>2, <2>5 DEF MakeNamespace, SeedConfigMap, Install, Rollout, tableVars
    <2>6. CASE CreateFails
      BY <1>1, <1>2, <2>6 DEF CreateFails, tableVars, Typed
    <2>7. CASE Delete \/ Uninstall \/ DeleteNamespace \/ DeleteFails
      BY <1>2, <2>7 DEF Delete, Uninstall, DeleteNamespace, DeleteFails, tableVars
    <2>8. QED BY <1>8, <2>1, <2>2, <2>3, <2>4, <2>5, <2>6, <2>7 DEF Job
  <1>9. QED BY <1>4, <1>5, <1>6, <1>7, <1>8 DEF Next

\* Adds and removes take effect one after the other, each on what the last one
\* left, with all that a plugin needs and nothing that could be left out: for
\* every catalog, and whatever seeds, creates, deletes or restarts meanwhile.
THEOREM ChangesAreAtomic == Spec => KeepsSelection
  <1>1. Init => Chosen!Init
    BY DEF Init, Unspoilt, Chosen!Init
  <1>2. Inv /\ [Next]_vars => [Chosen!Next]_(Chosen!vars)
    BY ChosenStep
  <1>3. QED BY <1>1, <1>2, SpecInv, PTL DEF Spec, KeepsSelection, Chosen!Spec

-----------------------------------------------------------------------------
(* What a boot installs                                                      *)

\* Each row requires what its jar does.
AsPinned(S) == \A w \in S : w.requires = Requires(w.slug, w.tag)

Pinned == AsPinned(rows) /\ \A r \in Requests : AsPinned(requests[r].read \cup requests[r].change)

\* Without a release nothing is installed.
Off ==
    /\ job \in {"unname", "forget"} => pod = "none"
    /\ pod = "none" => booted = None

Whole == Pinned /\ Off /\ InstallsComplete

\* A selection that has what it requires makes a text that has.
LEMMA CompleteText ==
    ASSUME NEW S, AsPinned(S), \A w \in S : w.requires \subseteq Slugs(S)
    PROVE  Complete(Text(S))
  <1>1. ASSUME NEW w \in S
        PROVE  w.slug \in {other[1] : other \in Text(S)}
    <2>1. <<w.slug, w.tag>> \in Text(S) /\ <<w.slug, w.tag>>[1] = w.slug
      BY DEF Text
    <2>2. QED BY <2>1
  <1>2. Slugs(S) \subseteq {other[1] : other \in Text(S)}
    BY <1>1 DEF Slugs
  <1>3. ASSUME NEW jar \in Text(S)
        PROVE  Requires(jar[1], jar[2]) \subseteq Slugs(S)
    <2>1. PICK w \in S : jar = <<w.slug, w.tag>>
      BY DEF Text
    <2>2. Requires(jar[1], jar[2]) = w.requires
      BY <2>1 DEF AsPinned
    <2>3. QED BY <2>2
  <1>4. QED BY <1>2, <1>3 DEF Complete

\* So do the defaults, and whatever a catalog offers is pinned to its jar.
LEMMA OffersArePinned ==
    /\ AsPinned(DefaultRows) /\ Complete(Text(DefaultRows))
    /\ \A c \in DOMAIN Catalogs : \A new \in SUBSET Offered(c) : AsPinned({Entry(c, p) : p \in new})
  <1>1. AsPinned(DefaultRows)
    BY DEF AsPinned, DefaultRows, Row, Requires
  <1>2. ASSUME NEW c \in DOMAIN Catalogs, NEW p \in Offered(c)
        PROVE  Entry(c, p).requires = Requires(Entry(c, p).slug, Entry(c, p).tag)
    <2>1. c # 0
      BY CatalogsAssumption
    <2>2. QED BY <2>1 DEF Entry, Row, Requires
  <1>3. QED BY <1>1, <1>2, DefaultsAreRows, CompleteText DEF AsPinned

\* What a thread has read are rows, and what it would add a catalog offers.
LEMMA ReadsAndChanges ==
    ASSUME Typed, NEW r \in Requests, Change(r) \/ Proceed(r) \/ Look(r)
    PROVE  /\ requests'[r].read \subseteq requests[r].read \cup rows
           /\ \/ requests'[r].change \subseteq requests[r].change \cup rows
              \/ \E c \in DOMAIN Catalogs : \E new \in SUBSET Offered(c) :
                     requests'[r].change = {Entry(c, p) : p \in new}
  <1> DEFINE q == requests[r]
             OldReads == /\ requests'[r].read \subseteq q.read \cup rows
                         /\ requests'[r].change \subseteq q.change \cup rows
             TakesFrom(c) == /\ requests'[r].read \subseteq q.read \cup rows
                             /\ \E new \in SUBSET Offered(c) :
                                    requests'[r].change = {Entry(c, p) : p \in new}
  <1>1. requests \in [Requests -> RequestRecords] /\ q \in RequestRecords
        /\ cached \in {None} \cup DOMAIN Catalogs
    BY DEF Typed, TypeOK
  <1>blank. ASSUME Answer(r) \/ Done(r) \/ Refuse(r)
            PROVE  requests'[r].read = {} /\ requests'[r].change = {}
    <2>1. CASE Answer(r) \/ Refuse(r)
      <3>1. requests'[r] = Idle
        BY <1>1, <2>1 DEF Answer, Refuse
      <3>2. QED BY <3>1 DEF Idle
    <2>2. CASE Done(r)
      <3>1. requests'[r] = [Idle EXCEPT !.pc = "state", !.op = "view", !.by = q.by]
        BY <1>1, <2>2 DEF Done
      <3>2. QED BY <3>1 DEF Idle
    <2>3. QED BY <1>blank, <2>1, <2>2
  <1>2. CASE Answer(r) \/ Done(r) \/ Refuse(r) \/ \E pc \in Pcs : To(r, pc)
    <2>1. CASE Answer(r) \/ Done(r) \/ Refuse(r)
      BY <2>1, <1>blank
    <2>2. CASE \E pc \in Pcs : To(r, pc)
      BY <1>1, <2>2 DEF To, RequestRecords
    <2>3. QED BY <1>2, <2>1, <2>2
  <1>3. CASE Change(r)
    <2>1. CASE WriteConfigMap(r) \/ WriteFails(r)
      BY <1>2, <2>1 DEF WriteConfigMap, WriteFails, Pcs, Refuse
    <2>2. ASSUME NEW p \in Plugins, NEW op \in {"add", "remove"}, Begin(r, op, p)
          PROVE  OldReads
      BY <1>1, <2>2 DEF Begin, Idle
    <2>3. QED BY <1>3, <2>1, <2>2 DEF Change
  <1>4. CASE Look(r)
    <2>1. CASE GetState(r) \/ RestartPod(r)
      BY <1>1, <1>2, <2>1 DEF GetState, RestartPod, RequestRecords
    <2>2. CASE View(r) \/ Apply(r)
      BY <1>1, <2>2 DEF View, Apply, Idle
    <2>3. QED BY <1>4, <2>1, <2>2 DEF Look
  <1>5. ASSUME NEW c \in DOMAIN Catalogs, UseCatalog(r, c)
        PROVE  OldReads \/ TakesFrom(c)
    <2> DEFINE new == Needed(c, q.slug, Slugs(q.read))
    <2>1. CASE Answer(r) \/ Done(r) \/ Refuse(r)
      BY <2>1, <1>blank
    <2>2. CASE new \subseteq Offered(c) /\ requests' = [requests EXCEPT
                   ![r].pc = "write", ![r].change = {Entry(c, p) : p \in new}]
      <3> HIDE DEF new
      <3>1. requests'[r].read = q.read /\ requests'[r].change = {Entry(c, p) : p \in new}
        BY <1>1, <2>2 DEF RequestRecords
      <3>2. QED BY <2>2, <3>1
    <2>3. QED BY <1>5, <2>1, <2>2 DEF UseCatalog, AddFrom
  <1>6. CASE Serve(r) \/ Fetch(r) \/ CatalogUnavailable(r)
    <2>1. CASE CatalogUnavailable(r)
      BY <1>2, <2>1 DEF CatalogUnavailable
    <2>2. CASE Serve(r) \/ Fetch(r)
      <3>1. PICK c \in DOMAIN Catalogs : UseCatalog(r, c)
        BY <1>1, <2>2 DEF Serve, Fetch
      <3>2. QED BY <1>5, <3>1
    <2>3. QED BY <1>6, <2>1, <2>2
  <1>7. CASE SeedSelection(r) \/ StoreHash(r) \/ StoreFails(r) \/ StoreRows(r) \/ GiveUp(r)
    BY <1>2, <1>7 DEF SeedSelection, StoreHash, StoreFails, StoreRows, GiveUp, Pcs
  <1>8. CASE Acquire(r)
    BY <1>1, <1>2, <1>8 DEF Acquire, RequestRecords
  <1>9. CASE ReadToAdd(r)
    BY <1>1, <1>9 DEF ReadToAdd, RequestRecords
  <1>10. CASE ReadToRemove(r)
    BY <1>1, <1>2, <1>10 DEF ReadToRemove, RequestRecords
  <1>11. CASE ReadHashes(r) \/ ReadReport(r) \/ StoreApplied(r)
    <2>1. CASE \E a : Answered(r, a)
      BY <1>1, <2>1 DEF Answered, Idle
    <2>2. CASE ReadHashes(r) \/ requests' = [requests EXCEPT ![r].pc = "store", ![r].applied = booted]
      <3>1. requests'[r].read = q.read /\ requests'[r].change = q.change
        <4>1. CASE ReadHashes(r) /\ q.up
          BY <1>1, <4>1 DEF ReadHashes, RequestRecords
        <4>2. CASE ReadHashes(r) /\ ~q.up
          BY <1>1, <4>2 DEF ReadHashes, RequestRecords
        <4>3. CASE requests' = [requests EXCEPT ![r].pc = "store", ![r].applied = booted]
          BY <1>1, <4>3 DEF RequestRecords
        <4>4. QED BY <2>2, <4>1, <4>2, <4>3
      <3>2. QED BY <3>1
    <2>3. QED BY <1>11, <2>1, <2>2 DEF ReadReport, StoreApplied
  <1>12. QED BY <1>3, <1>4, <1>6, <1>7, <1>8, <1>9, <1>10, <1>11 DEF Change, Proceed, Look

\* Every step keeps what the rows and the threads say of the jars.
LEMMA PinnedStep ==
    ASSUME Inv, Pinned, [Next]_vars
    PROVE  Pinned'
  <1>1. Typed /\ Threads /\ DataTyped
    BY DEF Inv, Typed, TypeOK, DataTyped
  <1>2. AsPinned(Inserted(rows, DefaultRows))
    BY OffersArePinned DEF Pinned, AsPinned, Inserted
  <1>3. ASSUME UNCHANGED requests, AsPinned(rows')
        PROVE  Pinned'
    BY <1>3 DEF Pinned, AsPinned
  <1>4. CASE UNCHANGED vars
    BY <1>3, <1>4 DEF Pinned, vars, tableVars
  <1>5. CASE Boot \/ ChangePod
    BY <1>3, <1>5 DEF Pinned, Boot, ChangePod, podRest, tableVars
  <1>6. CASE Restart
    BY <1>6 DEF Pinned, Restart, tableVars, Idle, AsPinned
  <1>7. CASE Job
    <2>1. CASE SeedServer
      BY <1>1, <1>2, <1>3, <2>1, SeedOnce DEF SeedServer, jobRest, DataTyped, Pinned
    <2>2. CASE ForgetServer
      BY <1>3, <2>2 DEF ForgetServer, jobRest, AsPinned
    <2>3. CASE ~SeedServer /\ ~ForgetServer
      BY <1>3, <1>7, <2>3 DEF Job, Create, MakeNamespace, SeedConfigMap, SeedHash, Install, Rollout,
         CreateFails, Delete, Uninstall, DeleteNamespace, DeleteFails, tableVars, jobRest, Pinned
    <2>4. QED BY <2>1, <2>2, <2>3
  <1>8. ASSUME NEW r \in Requests, Change(r) \/ Proceed(r) \/ Look(r)
        PROVE  Pinned'
    <2> DEFINE q == requests[r]
    <2>1. AsPinned(rows')
      <3>1. CASE StoreRows(r)
        BY <3>1 DEF StoreRows, Inserted, Pinned, AsPinned
      <3>2. CASE Stores(r) /\ ~StoreRows(r)
        BY <3>2 DEF Stores, WriteConfigMap, StoreHash, StoreFails, tableVars, Pinned
      <3>3. CASE ~Stores(r)
        BY <1>1, <1>2, <1>8, <3>3, OtherSteps DEF Stays, Seeds, Pinned
      <3>4. QED BY <3>1, <3>2, <3>3
    <2>2. AsPinned(requests'[r].read \cup requests'[r].change)
      BY <1>1, <1>8, ReadsAndChanges, OffersArePinned DEF Pinned, AsPinned
    <2>3. \A x \in Requests \ {r} : requests'[x] = requests[x]
      BY <1>1, <1>8, OthersStay
    <2>4. QED BY <2>1, <2>2, <2>3 DEF Pinned, AsPinned
  <1>9. QED BY <1>4, <1>5, <1>6, <1>7, <1>8 DEF Next

\* A step that writes no text that is not complete, and boots from the ConfigMap.
LEMMA StaysComplete ==
    ASSUME InstallsComplete,
           history.stray => history'.stray, history.foreign => history'.foreign,
           configMap' = configMap \/ configMap' = None
               \/ (~history'.stray /\ ~history'.foreign => Complete(configMap')),
           booted' = booted \/ booted' = None \/ booted' = configMap
    PROVE  InstallsComplete'
  BY DEF InstallsComplete, Complete

\* The ConfigMap of a change is complete.
LEMMA WritesComplete ==
    ASSUME Inv, Pinned, NEW r \in Requests, WriteConfigMap(r)
    PROVE  /\ history.stray => history'.stray
           /\ history.foreign => history'.foreign
           /\ ~history'.stray /\ ~history'.foreign => Complete(configMap')
  <1> DEFINE q == requests[r]
  <1>1. /\ q \in RequestRecords /\ q.op \in {"add", "remove"} /\ q.pc = "write"
        /\ Plan(q) /\ Changing(r)
    BY StoresInside DEF Inv, Typed, TypeOK, Threads, Coherent, WriteConfigMap, At, Stores
  <1>2. history'.stray = history.stray /\ history'.foreign = (history.foreign \/ ~SameServer(q))
    BY DEF WriteConfigMap, Write, Inv, Typed
  <1>3. ASSUME ~history'.stray, ~history'.foreign
        PROVE  Complete(configMap')
    <2>1. ~history.stray /\ SameServer(q)
      BY <1>2, <1>3
    <2>2. rows = q.read
      BY <1>1, <2>1 DEF Inv, Holder, Holds
    <2>3. \A w \in q.read : w.requires \subseteq Slugs(q.read)
      BY <2>1, <2>2 DEF Inv, Selection, Closed
    <2>4. \A w \in Target(q) : w.requires \subseteq Slugs(Target(q))
      BY <1>1, <2>3, TargetHasAll
    <2>5. AsPinned(Target(q))
      BY DEF Pinned, AsPinned, Target
    <2>6. configMap' = Text(Target(q))
      BY DEF WriteConfigMap
    <2>7. QED BY <2>4, <2>5, <2>6, CompleteText
  <1>4. QED BY <1>2, <1>3

\* Every step keeps the texts complete, and the volume empty without a release.
LEMMA WholeStep ==
    ASSUME Inv, Whole, [Next]_vars
    PROVE  Whole'
  <1>1. Typed /\ Threads /\ DataTyped /\ InstallsComplete /\ Off /\ Pinned
    BY DEF Inv, Typed, TypeOK, DataTyped, Whole
  <1>2. Pinned'
    BY <1>1, PinnedStep
  <1>3. ASSUME UNCHANGED <<job, pod, booted, configMap>>,
               history.stray => history'.stray, history.foreign => history'.foreign
        PROVE  Whole'
    <2>1. InstallsComplete'
      BY <1>1, <1>3, StaysComplete
    <2>2. QED BY <1>1, <1>2, <1>3, <2>1 DEF Whole, Off
  <1>4. CASE UNCHANGED vars
    BY <1>3, <1>4 DEF vars, clusterVars
  <1>5. CASE Boot \/ ChangePod
    <2>1. InstallsComplete'
      BY <1>1, <1>5, StaysComplete DEF Boot, ChangePod, podRest
    <2>2. Off'
      BY <1>1, <1>5 DEF Off, Boot, ChangePod, podRest
    <2>3. QED BY <1>2, <2>1, <2>2 DEF Whole
  <1>6. CASE Restart
    <2>1. /\ UNCHANGED <<pod, booted, configMap>> /\ job' = "none"
          /\ history'.stray = history.stray /\ history'.foreign = history.foreign
      BY <1>1, <1>6 DEF Restart, clusterVars, DataTyped
    <2>2. InstallsComplete'
      BY <1>1, <2>1, StaysComplete
    <2>3. QED BY <1>1, <1>2, <2>1, <2>2 DEF Whole, Off
  <1>7. CASE Job
    <2>1. CASE ForgetServer
      <3>1. /\ job = "forget" /\ job' = "none" /\ UNCHANGED <<pod, booted, configMap>>
        BY <2>1 DEF ForgetServer, clusterVars
      <3>2. configMap = None /\ booted = None
        BY <1>1, <3>1 DEF Inv, Selection, Places, Off
      <3>3. QED BY <1>2, <3>1, <3>2 DEF Whole, Off, InstallsComplete
    <2>2. CASE ~ForgetServer
      <3>1. history'.stray = history.stray /\ history'.foreign = history.foreign
        BY <1>1, <1>7, <2>2 DEF Job, Create, MakeNamespace, SeedConfigMap, SeedServer, SeedHash, Install,
           Rollout, CreateFails, Delete, Uninstall, DeleteNamespace, DeleteFails, DataTyped
      <3>2. /\ configMap' \in {configMap, None, Text(DefaultRows)} /\ booted' \in {booted, None}
            /\ pod' = "none" => booted' = None
            /\ job' \in {"unname", "forget"} => pod' = "none"
        BY <1>1, <1>7, <2>2 DEF Off, Job, Create, MakeNamespace, SeedConfigMap, SeedServer, SeedHash, Install,
           Rollout, CreateFails, Delete, Uninstall, DeleteNamespace, DeleteFails, ReleaseGoes,
           NamespaceGoes, clusterVars
      <3>3. InstallsComplete'
        BY <1>1, <3>1, <3>2, OffersArePinned, StaysComplete
      <3>4. QED BY <1>2, <3>2, <3>3 DEF Whole, Off
    <2>3. QED BY <2>1, <2>2
  <1>8. ASSUME NEW r \in Requests, Change(r) \/ Proceed(r) \/ Look(r)
        PROVE  Whole'
    <2>1. job' = job
      BY <1>8, ThreadsLeaveServer
    <2>2. CASE RestartPod(r)
      <3>1. /\ UNCHANGED <<booted, configMap, history>> /\ (pod' = "none" <=> pod = "none")
        BY <2>2 DEF RestartPod
      <3>2. InstallsComplete'
        BY <1>1, <3>1, StaysComplete
      <3>3. QED BY <1>1, <1>2, <2>1, <3>1, <3>2 DEF Whole, Off
    <2>3. CASE WriteConfigMap(r)
      <3>1. UNCHANGED <<pod, booted>>
        BY <2>3 DEF WriteConfigMap
      <3>2. InstallsComplete'
        BY <1>1, <2>3, <3>1, WritesComplete, StaysComplete
      <3>3. QED BY <1>1, <1>2, <2>1, <3>1, <3>2 DEF Whole, Off
    <2>4. CASE ~RestartPod(r) /\ ~WriteConfigMap(r)
      <3>1. UNCHANGED <<pod, booted, configMap>>
        BY <1>8, <2>4 DEF Change, Proceed, Look, Begin, WriteFails, Acquire, GiveUp, SeedSelection, ReadToAdd,
           ReadToRemove, Serve, Fetch, CatalogUnavailable, StoreHash, StoreFails, StoreRows, ReadHashes,
           ReadReport, StoreApplied, View, GetState, Apply, serverSide, rest, clusterVars
      <3>2. (history.stray => history'.stray) /\ history'.foreign = history.foreign
        <4>1. CASE StoreRows(r) \/ StoreFails(r)
          BY <1>1, <4>1 DEF StoreRows, StoreFails, Tear, DataTyped
        <4>2. CASE StoreHash(r)
          BY <4>2 DEF StoreHash, rest, serverSide
        <4>3. CASE ~Stores(r)
          BY <1>1, <1>8, <4>3, OtherSteps DEF Stays, Seeds
        <4>4. QED BY <2>4, <4>1, <4>2, <4>3 DEF Stores
      <3>3. QED BY <1>3, <2>1, <3>1, <3>2
    <2>5. QED BY <2>2, <2>3, <2>4
  <1>9. QED BY <1>4, <1>5, <1>6, <1>7, <1>8 DEF Next

\* Whenever the server boots, also while or after a change, a create or a delete
\* stops half-way, it installs a selection that has what it requires: for every
\* catalog and default list.
THEOREM BootsAreComplete == Spec => []InstallsComplete
  <1>1. Init => Whole
    BY DEF Init, Idle, Whole, Pinned, AsPinned, Off, InstallsComplete
  <1>2. Inv /\ Whole /\ [Next]_vars => Whole'
    BY WholeStep
  <1>3. Whole => InstallsComplete
    BY DEF Whole
  <1>4. QED BY <1>1, <1>2, <1>3, SpecInv, PTL DEF Spec
=============================================================================
