---------------------------- MODULE AppSyncProofs ----------------------------
(***************************************************************************)
(* Safety of AppSync for any number of handlers, hosts, applications,      *)
(* indexers and failures; and, with requests served one after the other,   *)
(* what a sync and a removal promise.                                      *)
(***************************************************************************)
EXTENDS AppSync, FiniteSets, FiniteSetTheorems, WellFoundedInduction, TLAPS

----------------------------------------------------------------------------
(* Tables.                                                                 *)

LEMMA EmptyTable ==
    ASSUME NEW D, NEW R
    PROVE  IsTable(<<>>, D, R) /\ DOMAIN <<>> = {}
BY DEF IsTable

LEMMA AddRow ==
    ASSUME NEW D, NEW R, NEW f, NEW x \in D, NEW y \in R, IsTable(f, D, R)
    PROVE  LET g == With(f, x, y) IN
           /\ IsTable(g, D, R) /\ DOMAIN g = DOMAIN f \cup {x} /\ g[x] = y
           /\ \A z \in DOMAIN f \ {x} : g[z] = f[z]
BY DEF IsTable, With

LEMMA WithoutRows ==
    ASSUME NEW D, NEW R, NEW f, NEW S, IsTable(f, D, R)
    PROVE  LET g == Without(f, S) IN
           /\ IsTable(g, D, R) /\ DOMAIN g = DOMAIN f \ S
           /\ \A z \in DOMAIN g : g[z] = f[z]
BY DEF IsTable, Without, Restrict

LEMMA WiderTable ==
    ASSUME NEW D, NEW R, NEW f, NEW E, D \subseteq E, IsTable(f, D, R)
    PROVE  IsTable(f, E, R)
BY DEF IsTable

LEMMA RowType ==
    ASSUME NEW D, NEW R, NEW f, IsTable(f, D, R), NEW x \in DOMAIN f
    PROVE  x \in D /\ f[x] \in R
BY DEF IsTable

(* What ForApp and ForIndexer read of the mapping. *)
LEMMA ForAppRows ==
    ASSUME NEW A, NEW B, IsTable(mapping, A \X B, Nat), NEW a
    PROVE  /\ IsTable(ForApp(a), B, Nat)
           /\ \A i \in DOMAIN ForApp(a) : <<a, i>> \in DOMAIN mapping /\ ForApp(a)[i] = mapping[<<a, i>>]
<1>1. \A p \in DOMAIN mapping : p = <<p[1], p[2]>> /\ p[1] \in A /\ p[2] \in B /\ mapping[p] \in Nat
  BY DEF IsTable
<1>2. \A i \in DOMAIN ForApp(a) : i \in B /\ <<a, i>> \in DOMAIN mapping
  BY <1>1 DEF ForApp
<1> QED
  BY <1>1, <1>2 DEF ForApp, IsTable

LEMMA ForIndexerRows ==
    ASSUME NEW A, NEW B, IsTable(mapping, A \X B, Nat), NEW i
    PROVE  /\ IsTable(ForIndexer(i), A, Nat)
           /\ \A a \in DOMAIN ForIndexer(i) :
                 <<a, i>> \in DOMAIN mapping /\ ForIndexer(i)[a] = mapping[<<a, i>>]
<1>1. \A p \in DOMAIN mapping : p = <<p[1], p[2]>> /\ p[1] \in A /\ p[2] \in B /\ mapping[p] \in Nat
  BY DEF IsTable
<1>2. \A a \in DOMAIN ForIndexer(i) : a \in A /\ <<a, i>> \in DOMAIN mapping
  BY <1>1 DEF ForIndexer
<1> QED
  BY <1>1, <1>2 DEF ForIndexer, IsTable

----------------------------------------------------------------------------
(* The first invariant: types, the shape of a handler's locals at each of   *)
(* its awaits, and the foreign keys of the mapping.                         *)

Working == {"push", "unmap", "repost", "save"}

(* What the locals j hold while a handler waits at label. *)
Shape(label, j) ==
    /\ label \in Working \cup {"maps"} => j.app \in DOMAIN j.queue
    /\ label \in Working =>
          /\ j.doomed \subseteq DOMAIN j.known /\ j.todo \subseteq DOMAIN j.rows
          /\ j.queue[j.app].level # "fullSync" =>
                j.doomed = {} /\ j.todo \cap DOMAIN j.known = {}
    /\ label = "repost" => j.item \in DOMAIN j.rows
    /\ label \in {"snapshot", "snapapps"} => DOMAIN j.cleanup = {}

DbType ==
    /\ nextIndexer \in Nat \ {0} /\ IsTable(indexers, 1 .. nextIndexer - 1, IndexerRow)
    /\ nextApp \in Nat \ {0} /\ IsTable(apps, 1 .. nextApp - 1, AppRow)
    /\ IsTable(mapping, (1 .. nextApp - 1) \X (1 .. nextIndexer - 1), Nat)

WorldType ==
    /\ nextRid \in [Hosts -> Nat \ {0}]
    /\ DOMAIN remote = Hosts
    /\ \A host \in Hosts : IsTable(remote[host], 1 .. nextRid[host] - 1, Entry)

HandlersType ==
    /\ pc \in [Handlers -> Labels]
    /\ DOMAIN job = Handlers
    /\ \A h \in Handlers : JobOK(job[h], nextApp) /\ Shape(pc[h], job[h])

CountersType == requests \in Nat /\ faults \in Nat /\ edits \in Nat

Inv == DbType /\ WorldType /\ HandlersType /\ CountersType /\ MappingReferencesLiveRows

LEMMA InvImpliesTypeOK == Inv => TypeOK
BY DEF Inv, DbType, WorldType, HandlersType, CountersType, TypeOK

(* Locals without a snapshot. *)
LEMMA FreshOK ==
    ASSUME NEW n \in Nat
    PROVE  JobOK(Fresh, n)
BY EmptyTable DEF JobOK, Fresh

(* More applications may exist than when the locals were set. *)
LEMMA LaterJobOK ==
    ASSUME NEW j, NEW m \in Nat, NEW n \in Nat, m <= n, JobOK(j, m)
    PROVE  JobOK(j, n)
<1>1. 1 .. m - 1 \subseteq 1 .. n - 1
  OBVIOUS
<1> QED
  BY <1>1, WiderTable DEF JobOK

(* A handler that goes on, the others staying where they are. *)
LEMMA HandlerGoes ==
    ASSUME HandlersType, nextApp \in Nat, nextApp' \in Nat, nextApp <= nextApp',
           NEW h \in Handlers, NEW label \in Labels, NEW j,
           Goto(h, label, j), JobOK(j, nextApp'), Shape(label, j)
    PROVE  HandlersType'
<1>1. /\ pc' \in [Handlers -> Labels] /\ DOMAIN job' = Handlers
      /\ pc'[h] = label /\ job'[h] = j
      /\ \A g \in Handlers \ {h} : pc'[g] = pc[g] /\ job'[g] = job[g]
  BY DEF HandlersType, Goto
<1>2. ASSUME NEW g \in Handlers PROVE JobOK(job'[g], nextApp') /\ Shape(pc'[g], job'[g])
  BY <1>1, LaterJobOK DEF HandlersType
<1> QED
  BY <1>1, <1>2 DEF HandlersType

LEMMA HandlersStay ==
    ASSUME HandlersType, nextApp \in Nat, nextApp' \in Nat, nextApp <= nextApp', UNCHANGED <<pc, job>>
    PROVE  HandlersType'
BY LaterJobOK DEF HandlersType

(* A remote delete, a new entry and a rewritten one keep the entries typed. *)
LEMMA DeleteEntryType ==
    ASSUME WorldType, NEW host \in Hosts, NEW rid, DeleteEntry(host, rid), UNCHANGED nextRid
    PROVE  WorldType'
<1>1. IsTable(Without(remote[host], {rid}), 1 .. nextRid[host] - 1, Entry)
  BY WithoutRows DEF WorldType
<1> QED
  BY <1>1 DEF WorldType, DeleteEntry

LEMMA NewEntryType ==
    ASSUME WorldType, NEW host \in Hosts, NEW e \in Entry,
           remote' = [remote EXCEPT ![host] = With(@, nextRid[host], e)],
           nextRid' = [nextRid EXCEPT ![host] = @ + 1]
    PROVE  WorldType'
<1>1. nextRid[host] \in Nat \ {0}
  BY DEF WorldType
<1>2. /\ 1 .. nextRid[host] - 1 \subseteq 1 .. (nextRid[host] + 1) - 1
      /\ nextRid[host] \in 1 .. (nextRid[host] + 1) - 1
  BY <1>1
<1>3. IsTable(remote[host], 1 .. (nextRid[host] + 1) - 1, Entry)
  BY <1>2, WiderTable DEF WorldType
<1>4. IsTable(With(remote[host], nextRid[host], e), 1 .. (nextRid[host] + 1) - 1, Entry)
  BY <1>2, <1>3, AddRow
<1> QED
  BY <1>1, <1>4 DEF WorldType

LEMMA NewPayloadType ==
    ASSUME WorldType, NEW host \in Hosts, NEW rid \in DOMAIN remote[host], NEW e \in Entry,
           remote' = [remote EXCEPT ![host][rid] = e], UNCHANGED nextRid
    PROVE  WorldType'
<1>1. IsTable(remote[host], 1 .. nextRid[host] - 1, Entry)
  BY DEF WorldType
<1>2. IsTable([remote[host] EXCEPT ![rid] = e], 1 .. nextRid[host] - 1, Entry)
  BY <1>1 DEF IsTable
<1>3. remote' = [remote EXCEPT ![host] = [remote[host] EXCEPT ![rid] = e]]
  BY DEF WorldType
<1> QED
  BY <1>2, <1>3 DEF WorldType

----------------------------------------------------------------------------
(* The locals a step leaves behind. *)

LEMMA StartOK ==
    ASSUME NEW n \in Nat
    PROVE  /\ JobOK([Fresh EXCEPT !.scope = "all"], n)
           /\ \A i \in Nat : JobOK([Fresh EXCEPT !.target = i], n)
           /\ \A q : IsTable(q, 1 .. n - 1, AppRow) => JobOK([Fresh EXCEPT !.queue = q], n)
BY EmptyTable DEF JobOK, Fresh

LEMMA SettledOK ==
    ASSUME NEW n \in Nat, NEW j, JobOK(j, n), NEW ok \in BOOLEAN
    PROVE  JobOK([Fresh EXCEPT !.scope = j.scope,
                               !.queue = Without(j.queue, {j.app}),
                               !.results = With(j.results, j.app, ok)], n)
<1>1. IsTable(Without(j.queue, {j.app}), 1 .. n - 1, AppRow)
  BY WithoutRows DEF JobOK
<1>2. IsTable(With(j.results, j.app, ok), Nat, BOOLEAN)
  BY AddRow DEF JobOK
<1> QED
  BY <1>1, <1>2, EmptyTable DEF JobOK, Fresh

LEMMA SettleStep ==
    ASSUME Inv, NEW h \in Handlers, NEW ok \in BOOLEAN, Settle(h, ok), UNCHANGED nextApp
    PROVE  HandlersType'
<1> DEFINE j == job[h]
           k == [Fresh EXCEPT !.scope = j.scope, !.queue = Without(j.queue, {j.app}),
                              !.results = With(j.results, j.app, ok)]
<1>1. nextApp \in Nat /\ HandlersType /\ JobOK(j, nextApp)
  BY DEF Inv, DbType, HandlersType
<1>2. JobOK(k, nextApp)
  BY <1>1, SettledOK
<1>3. Shape("rows", k)
  BY DEF Shape, Working
<1>4. Goto(h, "rows", k)
  BY DEF Settle
<1> HIDE DEF k
<1> QED
  BY <1>1, <1>2, <1>3, <1>4, HandlerGoes DEF Labels

LEMMA RespondStep ==
    ASSUME Inv, NEW h \in Handlers, Respond(h), UNCHANGED nextApp
    PROVE  HandlersType'
<1>1. nextApp \in Nat /\ HandlersType
  BY DEF Inv, DbType
<1>2. Shape("idle", Fresh)
  BY DEF Shape, Working
<1> QED
  BY <1>1, <1>2, FreshOK, HandlerGoes DEF Respond, Labels

----------------------------------------------------------------------------
(* Every request keeps Inv. *)

LEMMA AcceptCounters ==
    ASSUME CountersType, NEW h, Accept(h)
    PROVE  CountersType'
BY DEF CountersType, Accept

LEMMA FaultCounters ==
    ASSUME CountersType, NEW kind, Fault(kind)
    PROVE  CountersType'
BY DEF CountersType, Fault

LEMMA CreateIndexerInv ==
    ASSUME Inv, NEW h \in Handlers, CreateIndexer(h)
    PROVE  Inv'
<1> DEFINE j == [Fresh EXCEPT !.scope = "all"]
<1>1. PICK row \in IndexerBodies : indexers' = With(indexers, nextIndexer, row)
  BY DEF CreateIndexer
<1>2. row \in IndexerRow
  BY SyncAssumption DEF IndexerBodies, IndexerRow, Inv, CountersType
<1>3. /\ nextIndexer \in Nat \ {0} /\ nextIndexer' = nextIndexer + 1 /\ nextApp \in Nat \ {0}
      /\ nextIndexer \in 1 .. nextIndexer' - 1
      /\ 1 .. nextIndexer - 1 \subseteq 1 .. nextIndexer' - 1
      /\ UNCHANGED <<apps, nextApp, mapping, world>>
  BY DEF CreateIndexer, Inv, DbType
<1>4. IsTable(indexers, 1 .. nextIndexer' - 1, IndexerRow)
  BY <1>3, WiderTable DEF Inv, DbType
<1>5. /\ IsTable(indexers', 1 .. nextIndexer' - 1, IndexerRow)
      /\ DOMAIN indexers' = DOMAIN indexers \cup {nextIndexer}
  BY <1>1, <1>2, <1>3, <1>4 DEF IsTable, With
<1>6. IsTable(mapping, (1 .. nextApp - 1) \X (1 .. nextIndexer' - 1), Nat)
  <2>1. (1 .. nextApp - 1) \X (1 .. nextIndexer - 1) \subseteq (1 .. nextApp - 1) \X (1 .. nextIndexer' - 1)
    BY <1>3
  <2> QED
    BY <2>1, WiderTable DEF Inv, DbType
<1>7. DbType'
  BY <1>3, <1>5, <1>6 DEF Inv, DbType
<1>8. WorldType' /\ MappingReferencesLiveRows'
  BY <1>3, <1>5 DEF Inv, WorldType, MappingReferencesLiveRows, world
<1>9. HandlersType'
  <2>1. JobOK(j, nextApp') /\ Goto(h, "apps", j)
    BY <1>3, StartOK DEF CreateIndexer
  <2>2. Shape("apps", j)
    BY DEF Shape, Working
  <2> HIDE DEF j
  <2> QED
    BY <1>3, <2>1, <2>2, HandlerGoes DEF Labels, Inv
<1> QED
  BY <1>7, <1>8, <1>9, AcceptCounters DEF Inv, CreateIndexer

LEMMA UpdateIndexerInv ==
    ASSUME Inv, NEW h \in Handlers, UpdateIndexer(h)
    PROVE  Inv'
<1> DEFINE j == [Fresh EXCEPT !.scope = "all"]
<1>1. PICK i \in DOMAIN indexers, row \in IndexerBodies : indexers' = [indexers EXCEPT ![i] = row]
  BY DEF UpdateIndexer
<1>2. row \in IndexerRow
  BY SyncAssumption DEF IndexerBodies, IndexerRow, Inv, CountersType
<1>3. UNCHANGED <<nextIndexer, apps, nextApp, mapping, world>>
  BY DEF UpdateIndexer
<1>4. IsTable(indexers', 1 .. nextIndexer - 1, IndexerRow) /\ DOMAIN indexers' = DOMAIN indexers
  <2>1. IsTable(indexers, 1 .. nextIndexer - 1, IndexerRow)
    BY DEF Inv, DbType
  <2> QED
    BY <1>1, <1>2, <2>1 DEF IsTable
<1>5. DbType'
  BY <1>3, <1>4 DEF Inv, DbType
<1>6. WorldType' /\ MappingReferencesLiveRows'
  BY <1>3, <1>4 DEF Inv, WorldType, MappingReferencesLiveRows, world
<1>7. HandlersType'
  <2>1. nextApp \in Nat /\ nextApp' = nextApp
    BY <1>3 DEF Inv, DbType
  <2>2. JobOK(j, nextApp') /\ Goto(h, "apps", j)
    BY <2>1, StartOK DEF UpdateIndexer
  <2>3. Shape("apps", j)
    BY DEF Shape, Working
  <2> HIDE DEF j
  <2> QED
    BY <2>1, <2>2, <2>3, HandlerGoes DEF Labels, Inv
<1> QED
  BY <1>5, <1>6, <1>7, AcceptCounters DEF Inv, UpdateIndexer

LEMMA RemoveIndexerInv ==
    ASSUME Inv, NEW h \in Handlers, RemoveIndexer(h)
    PROVE  Inv'
<1>1. PICK i \in DOMAIN indexers : Goto(h, "snapshot", [Fresh EXCEPT !.target = i])
  BY DEF RemoveIndexer
<1> DEFINE j == [Fresh EXCEPT !.target = i]
<1>2. UNCHANGED <<db, world>>
  BY DEF RemoveIndexer
<1>3. i \in Nat
  BY RowType DEF Inv, DbType
<1>4. DbType' /\ WorldType' /\ MappingReferencesLiveRows'
  BY <1>2 DEF Inv, DbType, WorldType, MappingReferencesLiveRows, db, world
<1>5. HandlersType'
  <2>1. nextApp \in Nat /\ nextApp' = nextApp
    BY <1>2 DEF Inv, DbType, db
  <2>2. JobOK(j, nextApp') /\ Goto(h, "snapshot", j)
    BY <1>1, <1>3, <2>1, StartOK
  <2>3. Shape("snapshot", j)
    BY DEF Shape, Working, Fresh
  <2> HIDE DEF j
  <2> QED
    BY <2>1, <2>2, <2>3, HandlerGoes DEF Labels, Inv
<1> QED
  BY <1>4, <1>5, AcceptCounters DEF Inv, RemoveIndexer

(* A handler that starts the sync of one application row. *)
LEMMA SyncOneStep ==
    ASSUME Inv, NEW h \in Handlers, NEW a, NEW row \in AppRow, SyncOne(h, a, row),
           nextApp' \in Nat, nextApp <= nextApp', a \in 1 .. nextApp' - 1
    PROVE  HandlersType'
<1> DEFINE q == With(<<>>, a, row)
           j == [Fresh EXCEPT !.queue = q]
<1>1. IsTable(q, 1 .. nextApp' - 1, AppRow)
  BY EmptyTable DEF IsTable, With
<1>2. JobOK(j, nextApp')
  BY <1>1, StartOK
<1>3. Shape("rows", j)
  BY DEF Shape, Working
<1>4. Goto(h, "rows", j)
  BY DEF SyncOne
<1> HIDE DEF j
<1> QED
  BY <1>2, <1>3, <1>4, HandlerGoes DEF Labels, Inv, DbType

LEMMA CreateAppInv ==
    ASSUME Inv, NEW h \in Handlers, CreateApp(h)
    PROVE  Inv'
<1>1. PICK row \in [level : AppLevels, host : Hosts] :
          apps' = With(apps, nextApp, row) /\ SyncOne(h, nextApp, row)
  BY DEF CreateApp
<1>2. row \in AppRow
  BY SyncAssumption DEF AppRow
<1>3. /\ nextApp \in Nat \ {0} /\ nextApp' = nextApp + 1 /\ nextIndexer \in Nat \ {0}
      /\ nextApp \in 1 .. nextApp' - 1
      /\ 1 .. nextApp - 1 \subseteq 1 .. nextApp' - 1
      /\ UNCHANGED <<indexers, nextIndexer, mapping, world>>
  BY DEF CreateApp, Inv, DbType
<1>4. IsTable(apps, 1 .. nextApp' - 1, AppRow)
  BY <1>3, WiderTable DEF Inv, DbType
<1>5. IsTable(apps', 1 .. nextApp' - 1, AppRow) /\ DOMAIN apps' = DOMAIN apps \cup {nextApp}
  BY <1>1, <1>2, <1>3, <1>4 DEF IsTable, With
<1>6. IsTable(mapping, (1 .. nextApp' - 1) \X (1 .. nextIndexer - 1), Nat)
  <2>1. (1 .. nextApp - 1) \X (1 .. nextIndexer - 1) \subseteq (1 .. nextApp' - 1) \X (1 .. nextIndexer - 1)
    BY <1>3
  <2> QED
    BY <2>1, WiderTable DEF Inv, DbType
<1>7. DbType'
  BY <1>3, <1>5, <1>6 DEF Inv, DbType
<1>8. WorldType' /\ MappingReferencesLiveRows'
  BY <1>3, <1>5 DEF Inv, WorldType, MappingReferencesLiveRows, world
<1>9. HandlersType'
  BY <1>1, <1>2, <1>3, SyncOneStep
<1> QED
  BY <1>7, <1>8, <1>9, AcceptCounters DEF Inv, CreateApp

LEMMA UpdateAppInv ==
    ASSUME Inv, NEW h \in Handlers, UpdateApp(h)
    PROVE  Inv'
<1>1. PICK a \in DOMAIN apps, row \in [level : AppLevels, host : Hosts] :
          apps' = [apps EXCEPT ![a] = row] /\ SyncOne(h, a, row)
  BY DEF UpdateApp
<1>2. row \in AppRow
  BY SyncAssumption DEF AppRow
<1>3. UNCHANGED <<indexers, nextIndexer, nextApp, mapping, world>>
  BY DEF UpdateApp
<1>4. IsTable(apps, 1 .. nextApp - 1, AppRow) /\ nextApp \in Nat
  BY DEF Inv, DbType
<1>5. IsTable(apps', 1 .. nextApp - 1, AppRow) /\ DOMAIN apps' = DOMAIN apps
  BY <1>1, <1>2, <1>4 DEF IsTable
<1>6. DbType'
  BY <1>3, <1>5 DEF Inv, DbType
<1>7. WorldType' /\ MappingReferencesLiveRows'
  BY <1>3, <1>5 DEF Inv, WorldType, MappingReferencesLiveRows, world
<1>8. a \in 1 .. nextApp' - 1 /\ nextApp' = nextApp
  BY <1>3, <1>4, RowType
<1>9. HandlersType'
  BY <1>1, <1>2, <1>4, <1>8, SyncOneStep
<1> QED
  BY <1>6, <1>7, <1>9, AcceptCounters DEF Inv, UpdateApp

LEMMA RemoveAppInv ==
    ASSUME Inv, NEW h \in Handlers, RemoveApp(h)
    PROVE  Inv'
<1>1. PICK a \in DOMAIN apps :
          /\ apps' = Without(apps, {a})
          /\ mapping' = Without(mapping, {p \in DOMAIN mapping : p[1] = a})
  BY DEF RemoveApp
<1>2. UNCHANGED <<indexers, nextIndexer, nextApp, world, pc, job>>
  BY DEF RemoveApp
<1> DEFINE gone == {p \in DOMAIN mapping : p[1] = a}
<1>3. IsTable(apps', 1 .. nextApp - 1, AppRow) /\ DOMAIN apps' = DOMAIN apps \ {a}
  <2>1. IsTable(apps, 1 .. nextApp - 1, AppRow)
    BY DEF Inv, DbType
  <2> QED
    BY <1>1, <2>1 DEF IsTable, Without, Restrict
<1>4. IsTable(mapping', (1 .. nextApp - 1) \X (1 .. nextIndexer - 1), Nat)
      /\ DOMAIN mapping' = DOMAIN mapping \ gone
  <2>1. IsTable(mapping, (1 .. nextApp - 1) \X (1 .. nextIndexer - 1), Nat)
    BY DEF Inv, DbType
  <2>2. mapping' = Without(mapping, gone)
    BY <1>1
  <2> HIDE DEF gone
  <2> QED
    BY <2>1, <2>2 DEF IsTable, Without, Restrict
<1>5. DbType'
  BY <1>2, <1>3, <1>4 DEF Inv, DbType
<1>6. MappingReferencesLiveRows'
  BY <1>2, <1>3, <1>4 DEF Inv, MappingReferencesLiveRows
<1>7. WorldType' /\ HandlersType'
  BY <1>2, HandlersStay DEF Inv, DbType, WorldType, world
<1> QED
  BY <1>5, <1>6, <1>7, AcceptCounters DEF Inv, RemoveApp

----------------------------------------------------------------------------
(* Every step of a sync keeps Inv. *)

LEMMA Locals ==
    ASSUME Inv, NEW h \in Handlers
    PROVE  JobOK(job[h], nextApp) /\ Shape(pc[h], job[h]) /\ nextApp \in Nat
BY DEF Inv, HandlersType, DbType

LEMMA GoesOn ==
    ASSUME Inv, NEW h \in Handlers, NEW label \in Labels, NEW j,
           Goto(h, label, j), JobOK(j, nextApp), Shape(label, j), UNCHANGED nextApp
    PROVE  HandlersType'
BY HandlerGoes DEF Inv, DbType

LEMMA SameDb ==
    ASSUME Inv, UNCHANGED db
    PROVE  DbType' /\ MappingReferencesLiveRows'
BY DEF Inv, DbType, MappingReferencesLiveRows, db

LEMMA SameWorld ==
    ASSUME Inv, UNCHANGED world
    PROVE  WorldType'
BY DEF Inv, WorldType, world

LEMMA SameCounters ==
    ASSUME Inv, UNCHANGED counters
    PROVE  CountersType'
BY DEF Inv, CountersType, counters

LEMMA ListAppsInv ==
    ASSUME Inv, NEW h \in Handlers, ListApps(h)
    PROVE  Inv'
<1> DEFINE j == [job[h] EXCEPT !.queue = apps]
<1>1. Goto(h, "rows", j) /\ UNCHANGED <<db, world, counters>>
  BY DEF ListApps
<1>2. JobOK(j, nextApp)
  BY Locals DEF JobOK, Fresh, Inv, DbType
<1>3. Shape("rows", j)
  BY DEF Shape, Working
<1>4. HandlersType'
  <2> HIDE DEF j
  <2> QED
    BY <1>1, <1>2, <1>3, GoesOn DEF db, Labels
<1> QED
  BY <1>1, <1>4, SameDb, SameWorld, SameCounters DEF Inv

LEMMA ListIndexersInv ==
    ASSUME Inv, NEW h \in Handlers, ListIndexers(h)
    PROVE  Inv'
<1>1. PICK a \in DOMAIN job[h].queue :
         IF job[h].queue[a].level = "disabled"
         THEN Goto(h, "rows", [job[h] EXCEPT !.queue = Without(job[h].queue, {a}),
                                             !.results = With(job[h].results, a, TRUE)])
         ELSE Goto(h, "maps", [job[h] EXCEPT !.app = a, !.rows = indexers])
  BY DEF ListIndexers
<1>2. UNCHANGED <<db, world, counters>>
  BY DEF ListIndexers
<1>3. JobOK(job[h], nextApp) /\ nextApp \in Nat
  BY Locals
<1>4. a \in Nat
  BY <1>3, RowType DEF JobOK
<1>5. CASE job[h].queue[a].level = "disabled"
  <2> DEFINE q == Without(job[h].queue, {a})
             r == With(job[h].results, a, TRUE)
             j == [job[h] EXCEPT !.queue = q, !.results = r]
  <2>1. IsTable(q, 1 .. nextApp - 1, AppRow)
    BY <1>3, WithoutRows DEF JobOK
  <2>2. IsTable(r, Nat, BOOLEAN)
    BY <1>3, <1>4, AddRow DEF JobOK
  <2>3. JobOK(j, nextApp)
    <3> HIDE DEF q, r
    <3> QED
      BY <1>3, <2>1, <2>2 DEF JobOK, Fresh
  <2>4. Shape("rows", j)
    BY DEF Shape, Working
  <2>5. Goto(h, "rows", j)
    BY <1>1, <1>5
  <2> HIDE DEF j
  <2> QED
    BY <1>2, <2>3, <2>4, <2>5, GoesOn, SameDb, SameWorld, SameCounters DEF Inv, db, Labels
<1>6. CASE job[h].queue[a].level # "disabled"
  <2> DEFINE j == [job[h] EXCEPT !.app = a, !.rows = indexers]
  <2>1. IsTable(indexers, Nat, IndexerRow)
    BY WiderTable DEF Inv, DbType
  <2>2. JobOK(j, nextApp)
    BY <1>3, <1>4, <2>1 DEF JobOK, Fresh
  <2>3. Shape("maps", j)
    BY <1>3 DEF Shape, Working, JobOK, Fresh
  <2>4. Goto(h, "maps", j)
    BY <1>1, <1>6
  <2> HIDE DEF j
  <2> QED
    BY <1>2, <2>2, <2>3, <2>4, GoesOn, SameDb, SameWorld, SameCounters DEF Inv, db, Labels
<1> QED
  BY <1>5, <1>6

LEMMA ListMappingsInv ==
    ASSUME Inv, NEW h \in Handlers, ListMappings(h)
    PROVE  Inv'
<1> DEFINE level == job[h].queue[job[h].app].level
           known == ForApp(job[h].app)
           doomed == Doomed(level, job[h].rows, known)
           todo == Pushed(level, job[h].rows, known)
           j == [job[h] EXCEPT !.known = known, !.doomed = doomed, !.todo = todo]
<1>1. pc[h] = "maps" /\ Goto(h, "push", j) /\ UNCHANGED <<db, world, counters>>
  BY DEF ListMappings
<1>2. JobOK(job[h], nextApp) /\ Shape("maps", job[h])
  BY <1>1, Locals
<1>3. IsTable(known, 1 .. nextIndexer - 1, Nat) /\ nextIndexer \in Nat
  BY ForAppRows DEF Inv, DbType
<1>4. IsTable(known, Nat, Nat)
  BY <1>3, WiderTable
<1>5. /\ doomed \subseteq DOMAIN known /\ DOMAIN known \subseteq Nat
      /\ level # "fullSync" => doomed = {} /\ todo \cap DOMAIN known = {}
  BY <1>4 DEF Doomed, Pushed, IsTable
<1>6. todo \subseteq Nat /\ todo \subseteq DOMAIN job[h].rows
  BY <1>2 DEF Pushed, JobOK, IsTable
<1> HIDE DEF known, doomed, todo
<1>7. JobOK(j, nextApp)
  BY <1>2, <1>4, <1>5, <1>6 DEF JobOK, Fresh
<1>8. Shape("push", j)
  BY <1>2, <1>5, <1>6 DEF Shape, Working, JobOK, Fresh
<1> HIDE DEF j
<1> QED
  BY <1>1, <1>7, <1>8, GoesOn, SameDb, SameWorld, SameCounters DEF Inv, db, Labels

LEMMA FinishSyncInv ==
    ASSUME Inv, NEW h \in Handlers, FinishSync(h)
    PROVE  Inv'
BY RespondStep, SameDb, SameWorld, SameCounters DEF Inv, FinishSync, db

LEMMA EndAppInv ==
    ASSUME Inv, NEW h \in Handlers, EndApp(h)
    PROVE  Inv'
BY SettleStep, SameDb, SameWorld, SameCounters DEF Inv, EndApp, db

(* The application a handler is working on: where its entries are. *)
LEMMA HostType ==
    ASSUME Inv, NEW h \in Handlers, pc[h] \in Working
    PROVE  HostOf(job[h]) \in Hosts
<1>1. JobOK(job[h], nextApp) /\ job[h].app \in DOMAIN job[h].queue
  BY Locals DEF Shape
<1>2. job[h].queue[job[h].app] \in AppRow
  BY <1>1, RowType DEF JobOK
<1> QED
  BY <1>2 DEF HostOf, AppRow

LEMMA DeleteRemoteInv ==
    ASSUME Inv, NEW h \in Handlers, DeleteRemote(h)
    PROVE  Inv'
<1>1. PICK i \in job[h].doomed :
          /\ DeleteEntry(HostOf(job[h]), job[h].known[i])
          /\ \/ Goto(h, "unmap", [job[h] EXCEPT !.item = i]) /\ UNCHANGED counters
             \/ Settle(h, FALSE) /\ Fault("lost")
  BY DEF DeleteRemote
<1> DEFINE j == [job[h] EXCEPT !.item = i]
<1>2. pc[h] = "push" /\ UNCHANGED <<db, nextRid>>
  BY DEF DeleteRemote
<1>3. JobOK(job[h], nextApp) /\ Shape("push", job[h])
  BY <1>2, Locals
<1>4. WorldType'
  BY <1>1, <1>2, HostType, DeleteEntryType DEF Inv, Working
<1>5. HandlersType' /\ CountersType'
  <2>1. CASE Goto(h, "unmap", j) /\ UNCHANGED counters
    <3>1. JobOK(j, nextApp)
      BY <1>3 DEF JobOK, Fresh
    <3>2. Shape("unmap", j)
      BY <1>3 DEF Shape, Working, JobOK, Fresh
    <3> HIDE DEF j
    <3> QED
      BY <1>2, <2>1, <3>1, <3>2, GoesOn, SameCounters DEF db, Labels
  <2>2. CASE Settle(h, FALSE) /\ Fault("lost")
    BY <1>2, <2>2, SettleStep, FaultCounters DEF Inv, db
  <2> QED
    BY <1>1, <2>1, <2>2
<1> QED
  BY <1>2, <1>4, <1>5, SameDb DEF Inv

LEMMA DropMappingInv ==
    ASSUME Inv, NEW h \in Handlers, DropMapping(h)
    PROVE  Inv'
<1> DEFINE p == <<job[h].app, job[h].item>>
           j == [job[h] EXCEPT !.doomed = @ \ {job[h].item}, !.item = 0]
<1>1. /\ pc[h] = "unmap" /\ mapping' = Without(mapping, {p}) /\ Goto(h, "push", j)
      /\ UNCHANGED <<indexers, nextIndexer, apps, nextApp, world, counters>>
  BY DEF DropMapping
<1>2. JobOK(job[h], nextApp) /\ Shape("unmap", job[h])
  BY <1>1, Locals
<1>3. IsTable(mapping', (1 .. nextApp - 1) \X (1 .. nextIndexer - 1), Nat)
      /\ DOMAIN mapping' \subseteq DOMAIN mapping
  <2>1. IsTable(mapping, (1 .. nextApp - 1) \X (1 .. nextIndexer - 1), Nat)
    BY DEF Inv, DbType
  <2> HIDE DEF p
  <2> QED
    BY <1>1, <2>1 DEF IsTable, Without, Restrict
<1>4. DbType' /\ MappingReferencesLiveRows'
  BY <1>1, <1>3 DEF Inv, DbType, MappingReferencesLiveRows
<1>5. JobOK(j, nextApp)
  BY <1>2 DEF JobOK, Fresh
<1>6. Shape("push", j)
  BY <1>2 DEF Shape, Working, JobOK, Fresh
<1> HIDE DEF j
<1> QED
  BY <1>1, <1>4, <1>5, <1>6, GoesOn, SameWorld, SameCounters DEF Inv, Labels

LEMMA PayloadType ==
    ASSUME NEW n \in Nat, NEW j, JobOK(j, n), NEW i \in DOMAIN j.rows
    PROVE  Payload(j, i) \in Entry
<1>1. i \in Nat /\ j.rows[i] \in IndexerRow /\ j.app \in Nat
  BY RowType DEF JobOK
<1> QED
  BY <1>1 DEF Payload, Entry, IndexerRow

LEMMA PostEntryInv ==
    ASSUME Inv, NEW h \in Handlers, NEW i \in DOMAIN job[h].rows, pc[h] \in {"push", "repost"},
           PostEntry(h, i)
    PROVE  Inv'
<1> DEFINE host == HostOf(job[h])
           j == [job[h] EXCEPT !.item = i, !.rid = nextRid[host]]
<1>1. /\ remote' = [remote EXCEPT ![host] = With(@, nextRid[host], Payload(job[h], i))]
      /\ nextRid' = [nextRid EXCEPT ![host] = @ + 1]
      /\ \/ Goto(h, "save", j) /\ UNCHANGED counters
         \/ Settle(h, FALSE) /\ Fault("lost")
      /\ UNCHANGED db
  BY DEF PostEntry
<1>2. JobOK(job[h], nextApp) /\ Shape(pc[h], job[h]) /\ nextApp \in Nat
  BY Locals
<1>3. host \in Hosts /\ Payload(job[h], i) \in Entry
  BY <1>2, HostType, PayloadType DEF Working
<1>4. i \in Nat /\ nextRid[host] \in Nat
  BY <1>2, <1>3, RowType DEF JobOK, Inv, WorldType
<1> HIDE DEF host
<1>5. WorldType'
  BY <1>1, <1>3, NewEntryType DEF Inv
<1>6. HandlersType' /\ CountersType'
  <2>1. CASE Goto(h, "save", j) /\ UNCHANGED counters
    <3>1. JobOK(j, nextApp)
      BY <1>2, <1>4 DEF JobOK, Fresh
    <3>2. Shape("save", j)
      BY <1>2 DEF Shape, Working, JobOK, Fresh
    <3> HIDE DEF j
    <3> QED
      BY <1>1, <2>1, <3>1, <3>2, GoesOn, SameCounters DEF db, Labels
  <2>2. CASE Settle(h, FALSE) /\ Fault("lost")
    BY <1>1, <2>2, SettleStep, FaultCounters DEF Inv, db
  <2> QED
    BY <1>1, <2>1, <2>2
<1> QED
  BY <1>1, <1>5, <1>6, SameDb DEF Inv

LEMMA PostInv ==
    ASSUME Inv, NEW h \in Handlers, Post(h)
    PROVE  Inv'
<1>1. pc[h] = "push" /\ \E i \in job[h].todo : PostEntry(h, i)
  BY DEF Post, Turn
<1>2. job[h].todo \subseteq DOMAIN job[h].rows
  BY <1>1, Locals DEF Shape, Working
<1> QED
  BY <1>1, <1>2, PostEntryInv

LEMMA RepostInv ==
    ASSUME Inv, NEW h \in Handlers, Repost(h)
    PROVE  Inv'
<1>1. pc[h] = "repost" /\ PostEntry(h, job[h].item)
  BY DEF Repost
<1>2. job[h].item \in DOMAIN job[h].rows
  BY <1>1, Locals DEF Shape
<1> QED
  BY <1>1, <1>2, PostEntryInv

LEMMA PutInv ==
    ASSUME Inv, NEW h \in Handlers, Put(h)
    PROVE  Inv'
<1> DEFINE host == HostOf(job[h])
           done(i) == [job[h] EXCEPT !.todo = @ \ {i}]
           again(i) == [job[h] EXCEPT !.item = i]
<1>1. PICK i \in job[h].todo \cap DOMAIN job[h].known :
         LET rid == job[h].known[i] IN
         IF rid \in DOMAIN remote[host]
         THEN /\ remote' = [remote EXCEPT ![host][rid] = Payload(job[h], i)]
              /\ \/ Goto(h, "push", done(i)) /\ UNCHANGED counters
                 \/ Settle(h, FALSE) /\ Fault("lost")
         ELSE Goto(h, "repost", again(i)) /\ UNCHANGED <<remote, counters>>
  BY DEF Put
<1>2. pc[h] = "push" /\ UNCHANGED <<db, nextRid>>
  BY DEF Put, Turn
<1>3. JobOK(job[h], nextApp) /\ Shape("push", job[h]) /\ nextApp \in Nat
  BY <1>2, Locals
<1>4. i \in DOMAIN job[h].rows /\ i \in Nat
  BY <1>3 DEF Shape, Working, JobOK
<1>5. host \in Hosts /\ Payload(job[h], i) \in Entry
  BY <1>2, <1>3, <1>4, HostType, PayloadType DEF Working
<1>6. JobOK(done(i), nextApp) /\ JobOK(again(i), nextApp)
  BY <1>3, <1>4 DEF JobOK, Fresh
<1>7. Shape("push", done(i)) /\ Shape("repost", again(i))
  BY <1>3, <1>4 DEF Shape, Working, JobOK, Fresh
<1> HIDE DEF host, done, again
<1>8. CASE job[h].known[i] \in DOMAIN remote[host]
  <2>1. WorldType'
    BY <1>1, <1>2, <1>5, <1>8, NewPayloadType DEF Inv
  <2>2. CASE Goto(h, "push", done(i)) /\ UNCHANGED counters
    BY <1>2, <1>6, <1>7, <2>1, <2>2, GoesOn, SameDb, SameCounters DEF Inv, db, Labels
  <2>3. CASE Settle(h, FALSE) /\ Fault("lost")
    BY <1>2, <2>1, <2>3, SettleStep, FaultCounters, SameDb DEF Inv, db
  <2> QED
    BY <1>1, <1>8, <2>2, <2>3
<1>9. CASE job[h].known[i] \notin DOMAIN remote[host]
  <2>1. Goto(h, "repost", again(i)) /\ UNCHANGED <<remote, counters>>
    BY <1>1, <1>9
  <2> QED
    BY <1>2, <1>6, <1>7, <2>1, GoesOn, SameDb, SameWorld, SameCounters DEF Inv, db, world, Labels
<1> QED
  BY <1>8, <1>9

LEMMA SaveMappingInv ==
    ASSUME Inv, NEW h \in Handlers, SaveMapping(h)
    PROVE  Inv'
<1> DEFINE p == <<job[h].app, job[h].item>>
           j == [job[h] EXCEPT !.todo = @ \ {job[h].item}, !.item = 0, !.rid = 0]
<1>1. /\ pc[h] = "save"
      /\ IF ParentsExist(job[h].app, job[h].item)
         THEN mapping' = With(mapping, p, job[h].rid) /\ Goto(h, "push", j)
         ELSE Settle(h, FALSE) /\ UNCHANGED mapping
      /\ UNCHANGED <<indexers, nextIndexer, apps, nextApp, world, counters>>
  BY DEF SaveMapping, Upsert
<1>2. JobOK(job[h], nextApp) /\ Shape("save", job[h])
  BY <1>1, Locals
<1>3. CASE ParentsExist(job[h].app, job[h].item)
  <2>1. job[h].app \in 1 .. nextApp - 1 /\ job[h].item \in 1 .. nextIndexer - 1 /\ job[h].rid \in Nat
    BY <1>2, <1>3, RowType DEF ParentsExist, Inv, DbType, JobOK
  <2>2. IsTable(mapping, (1 .. nextApp - 1) \X (1 .. nextIndexer - 1), Nat)
    BY DEF Inv, DbType
  <2>3. p \in (1 .. nextApp - 1) \X (1 .. nextIndexer - 1) /\ mapping' = With(mapping, p, job[h].rid)
    BY <1>1, <1>3, <2>1
  <2>4. p[1] \in DOMAIN apps /\ p[2] \in DOMAIN indexers
    BY <1>3 DEF ParentsExist
  <2>5. /\ IsTable(mapping', (1 .. nextApp - 1) \X (1 .. nextIndexer - 1), Nat)
        /\ DOMAIN mapping' = DOMAIN mapping \cup {p}
    <3> HIDE DEF p
    <3> QED
      BY <2>1, <2>2, <2>3 DEF IsTable, With
  <2>6. DbType' /\ MappingReferencesLiveRows'
    BY <1>1, <2>4, <2>5 DEF Inv, DbType, MappingReferencesLiveRows
  <2>7. JobOK(j, nextApp)
    BY <1>2 DEF JobOK, Fresh
  <2>8. Shape("push", j)
    BY <1>2 DEF Shape, Working, JobOK, Fresh
  <2> HIDE DEF j
  <2> QED
    BY <1>1, <1>3, <2>6, <2>7, <2>8, GoesOn, SameWorld, SameCounters DEF Inv, Labels
<1>4. CASE ~ParentsExist(job[h].app, job[h].item)
  BY <1>1, <1>4, SettleStep, SameDb, SameWorld, SameCounters DEF Inv, db
<1> QED
  BY <1>3, <1>4

----------------------------------------------------------------------------
(* Every step of DELETE /indexer/{id}, every failure and every edit by hand *)
(* keeps Inv.                                                               *)

LEMMA SnapshotMappingsInv ==
    ASSUME Inv, NEW h \in Handlers, SnapshotMappings(h)
    PROVE  Inv'
<1> DEFINE held == ForIndexer(job[h].target)
           j == [job[h] EXCEPT !.held = held]
           label == IF DOMAIN held = {} THEN "delete" ELSE "snapapps"
<1>1. pc[h] = "snapshot" /\ Goto(h, label, j) /\ UNCHANGED <<db, world, counters>>
  BY DEF SnapshotMappings
<1>2. JobOK(job[h], nextApp) /\ Shape("snapshot", job[h])
  BY <1>1, Locals
<1>3. IsTable(held, 1 .. nextApp - 1, Nat)
  BY ForIndexerRows DEF Inv, DbType
<1> HIDE DEF held
<1>4. JobOK(j, nextApp)
  BY <1>2, <1>3 DEF JobOK, Fresh
<1>5. Shape(label, j) /\ label \in Labels
  BY <1>2 DEF Shape, Working, JobOK, Fresh, Labels
<1> HIDE DEF j, label
<1> QED
  BY <1>1, <1>4, <1>5, GoesOn, SameDb, SameWorld, SameCounters DEF Inv, db

LEMMA SnapshotAppsInv ==
    ASSUME Inv, NEW h \in Handlers, SnapshotApps(h)
    PROVE  Inv'
<1> DEFINE full == {a \in DOMAIN job[h].held \cap DOMAIN apps : apps[a].level = "fullSync"}
           cleanup == [a \in full |-> [host |-> apps[a].host, rid |-> job[h].held[a]]]
           j == [job[h] EXCEPT !.cleanup = cleanup]
<1>1. pc[h] = "snapapps" /\ Goto(h, "delete", j) /\ UNCHANGED <<db, world, counters>>
  BY DEF SnapshotApps
<1>2. JobOK(job[h], nextApp)
  BY Locals
<1>3. IsTable(cleanup, 1 .. nextApp - 1, [host : Hosts, rid : Nat])
  <2>1. \A a \in full : /\ a \in 1 .. nextApp - 1 /\ job[h].held[a] \in Nat /\ apps[a].host \in Hosts
    BY <1>2 DEF Inv, DbType, JobOK, IsTable, AppRow
  <2> QED
    BY <2>1 DEF IsTable
<1> HIDE DEF cleanup
<1>4. JobOK(j, nextApp)
  BY <1>2, <1>3 DEF JobOK, Fresh
<1>5. Shape("delete", j)
  BY DEF Shape, Working
<1> HIDE DEF j
<1> QED
  BY <1>1, <1>4, <1>5, GoesOn, SameDb, SameWorld, SameCounters DEF Inv, db, Labels

LEMMA DeleteIndexerRowInv ==
    ASSUME Inv, NEW h \in Handlers, DeleteIndexerRow(h)
    PROVE  Inv'
<1> DEFINE i == job[h].target
           gone == {p \in DOMAIN mapping : p[2] = i}
<1>1. /\ pc[h] = "delete" /\ UNCHANGED <<nextIndexer, apps, nextApp, world, counters>>
      /\ IF i \in DOMAIN indexers
         THEN /\ indexers' = Without(indexers, {i}) /\ mapping' = Without(mapping, gone)
              /\ Goto(h, "cleanup", job[h])
         ELSE Respond(h) /\ UNCHANGED <<indexers, mapping>>
  BY DEF DeleteIndexerRow
<1>2. CASE i \in DOMAIN indexers
  <2>1. /\ IsTable(indexers, 1 .. nextIndexer - 1, IndexerRow)
        /\ IsTable(mapping, (1 .. nextApp - 1) \X (1 .. nextIndexer - 1), Nat)
    BY DEF Inv, DbType
  <2>2. IsTable(indexers', 1 .. nextIndexer - 1, IndexerRow) /\ DOMAIN indexers' = DOMAIN indexers \ {i}
    BY <1>1, <1>2, <2>1 DEF IsTable, Without, Restrict
  <2>3. IsTable(mapping', (1 .. nextApp - 1) \X (1 .. nextIndexer - 1), Nat)
        /\ DOMAIN mapping' = DOMAIN mapping \ gone
    <3>1. mapping' = Without(mapping, gone)
      BY <1>1, <1>2
    <3> HIDE DEF gone
    <3> QED
      BY <2>1, <3>1 DEF IsTable, Without, Restrict
  <2>4. DbType' /\ MappingReferencesLiveRows'
    BY <1>1, <2>2, <2>3 DEF Inv, DbType, MappingReferencesLiveRows
  <2>5. JobOK(job[h], nextApp) /\ Shape("cleanup", job[h])
    BY Locals DEF Shape, Working
  <2> QED
    BY <1>1, <1>2, <2>4, <2>5, GoesOn, SameWorld, SameCounters DEF Inv, Labels
<1>3. CASE i \notin DOMAIN indexers
  BY <1>1, <1>3, RespondStep, SameDb, SameWorld, SameCounters DEF Inv, db
<1> QED
  BY <1>2, <1>3

(* The clean-up loop moves past an application. *)
LEMMA NextDoomedStep ==
    ASSUME Inv, NEW h \in Handlers, NEW a, NextDoomed(h, a), UNCHANGED nextApp
    PROVE  HandlersType'
<1> DEFINE rest == Without(job[h].cleanup, {a})
           j == [job[h] EXCEPT !.cleanup = rest]
<1>1. Goto(h, "cleanup", j)
  BY DEF NextDoomed
<1>2. JobOK(job[h], nextApp)
  BY Locals
<1>3. IsTable(rest, 1 .. nextApp - 1, [host : Hosts, rid : Nat])
  BY <1>2, WithoutRows DEF JobOK
<1> HIDE DEF rest
<1>4. JobOK(j, nextApp)
  BY <1>2, <1>3 DEF JobOK, Fresh
<1>5. Shape("cleanup", j)
  BY DEF Shape, Working
<1> HIDE DEF j
<1> QED
  BY <1>1, <1>4, <1>5, GoesOn DEF Labels

LEMMA CleanRemoteInv ==
    ASSUME Inv, NEW h \in Handlers, CleanRemote(h)
    PROVE  Inv'
<1>1. PICK a \in DOMAIN job[h].cleanup :
          DeleteEntry(job[h].cleanup[a].host, job[h].cleanup[a].rid) /\ NextDoomed(h, a)
  BY DEF CleanRemote
<1>2. UNCHANGED <<db, nextRid, counters>>
  BY DEF CleanRemote
<1>3. IsTable(job[h].cleanup, 1 .. nextApp - 1, [host : Hosts, rid : Nat])
  BY Locals DEF JobOK
<1>4. job[h].cleanup[a].host \in Hosts
  BY <1>3 DEF IsTable
<1>5. WorldType'
  BY <1>1, <1>2, <1>4, DeleteEntryType DEF Inv
<1> QED
  BY <1>1, <1>2, <1>5, NextDoomedStep, SameDb, SameCounters DEF Inv, db

LEMMA FinishRemoveInv ==
    ASSUME Inv, NEW h \in Handlers, FinishRemove(h)
    PROVE  Inv'
BY RespondStep, SameDb, SameWorld, SameCounters DEF Inv, FinishRemove, db

LEMMA CallRefusedInv ==
    ASSUME Inv, NEW h \in Handlers, CallRefused(h)
    PROVE  Inv'
<1>1. Fault("refused") /\ UNCHANGED <<db, world>>
  BY DEF CallRefused
<1>2. Settle(h, FALSE) \/ \E a \in DOMAIN job[h].cleanup : NextDoomed(h, a)
  BY DEF CallRefused
<1>3. HandlersType'
  BY <1>1, <1>2, SettleStep, NextDoomedStep DEF db
<1> QED
  BY <1>1, <1>3, FaultCounters, SameDb, SameWorld DEF Inv

LEMMA StatementFailsInv ==
    ASSUME Inv, NEW h \in Handlers, StatementFails(h)
    PROVE  Inv'
<1>1. Fault("db") /\ UNCHANGED <<db, world>>
  BY DEF StatementFails
<1>2. nextApp' = nextApp
  BY <1>1 DEF db
<1>3. JobOK(job[h], nextApp) /\ nextApp \in Nat
  BY Locals
<1>4. ASSUME Goto(h, "rows", job[h]) PROVE HandlersType'
  <2>1. Shape("rows", job[h])
    BY DEF Shape, Working
  <2> QED
    BY <1>2, <1>3, <1>4, <2>1, GoesOn DEF Labels
<1>5. ASSUME NEW a \in DOMAIN job[h].queue,
             Goto(h, "rows", [job[h] EXCEPT !.queue = Without(job[h].queue, {a}),
                                            !.results = With(job[h].results, a, FALSE)])
      PROVE  HandlersType'
  <2> DEFINE q == Without(job[h].queue, {a})
             r == With(job[h].results, a, FALSE)
             j == [job[h] EXCEPT !.queue = q, !.results = r]
  <2>1. a \in Nat
    BY <1>3, RowType DEF JobOK
  <2>2. IsTable(q, 1 .. nextApp - 1, AppRow)
    BY <1>3, WithoutRows DEF JobOK
  <2>3. IsTable(r, Nat, BOOLEAN)
    BY <1>3, <2>1, AddRow DEF JobOK
  <2>4. JobOK(j, nextApp)
    <3> HIDE DEF q, r
    <3> QED
      BY <1>3, <2>2, <2>3 DEF JobOK, Fresh
  <2>5. Shape("rows", j) /\ Goto(h, "rows", j)
    BY <1>5 DEF Shape, Working
  <2> HIDE DEF j
  <2> QED
    BY <1>2, <2>4, <2>5, GoesOn DEF Labels
<1>6. ASSUME Goto(h, "delete", job[h]) PROVE HandlersType'
  <2>1. Shape("delete", job[h])
    BY DEF Shape, Working
  <2> QED
    BY <1>2, <1>3, <1>6, <2>1, GoesOn DEF Labels
<1>7. HandlersType'
  BY <1>2, <1>4, <1>5, <1>6, SettleStep, RespondStep DEF StatementFails
<1> QED
  BY <1>1, <1>7, FaultCounters, SameDb, SameWorld DEF Inv

LEMMA HandlerGoneInv ==
    ASSUME Inv, NEW h \in Handlers, HandlerGone(h)
    PROVE  Inv'
BY RespondStep, FaultCounters, SameDb, SameWorld DEF Inv, HandlerGone, db

LEMMA EditCounters ==
    ASSUME CountersType, Edit
    PROVE  CountersType'
BY DEF CountersType, Edit

LEMMA HumanDeleteInv ==
    ASSUME Inv, HumanDelete
    PROVE  Inv'
<1>1. PICK host \in Hosts : \E rid \in DOMAIN remote[host] : DeleteEntry(host, rid)
  BY DEF HumanDelete
<1>2. Edit /\ UNCHANGED <<db, nextRid, pc, job>>
  BY DEF HumanDelete
<1>3. WorldType'
  BY <1>1, <1>2, DeleteEntryType DEF Inv
<1> QED
  BY <1>2, <1>3, EditCounters, HandlersStay, SameDb DEF Inv, DbType, db

LEMMA HumanAddInv ==
    ASSUME Inv, HumanAdd
    PROVE  Inv'
<1> DEFINE e == [owner |-> Human, rev |-> 0]
<1>1. PICK host \in Hosts :
          /\ remote' = [remote EXCEPT ![host] = With(@, nextRid[host], e)]
          /\ nextRid' = [nextRid EXCEPT ![host] = @ + 1]
  BY DEF HumanAdd
<1>2. Edit /\ UNCHANGED <<db, pc, job>>
  BY DEF HumanAdd
<1>3. e \in Entry
  BY DEF Entry, Human
<1> HIDE DEF e
<1>4. WorldType'
  BY <1>1, <1>3, NewEntryType DEF Inv
<1> QED
  BY <1>2, <1>4, EditCounters, HandlersStay, SameDb DEF Inv, DbType, db

----------------------------------------------------------------------------
(* The first invariance theorem and what follows from it. *)

LEMMA InitInv == Init => Inv
<1> SUFFICES ASSUME Init PROVE Inv
  OBVIOUS
<1>1. Len(SeedApps) \in Nat /\ SeedApps \in [1 .. Len(SeedApps) -> AppRow]
  BY SyncAssumption
<1>2. DbType
  <2>1. nextApp - 1 = Len(SeedApps) /\ nextApp \in Nat \ {0}
    BY <1>1 DEF Init
  <2>2. IsTable(apps, 1 .. nextApp - 1, AppRow)
    BY <1>1, <2>1 DEF Init, IsTable
  <2> QED
    BY <2>1, <2>2, EmptyTable DEF Init, DbType
<1>3. WorldType
  BY EmptyTable DEF Init, WorldType
<1>4. HandlersType
  <2>1. nextApp \in Nat
    BY <1>2 DEF DbType
  <2>2. JobOK(Fresh, nextApp)
    BY <2>1, FreshOK
  <2>3. Shape("idle", Fresh)
    BY DEF Shape, Working
  <2> QED
    BY <2>2, <2>3 DEF Init, HandlersType, Labels
<1>5. CountersType
  BY DEF Init, CountersType
<1>6. MappingReferencesLiveRows
  BY EmptyTable DEF Init, MappingReferencesLiveRows
<1> QED
  BY <1>2, <1>3, <1>4, <1>5, <1>6 DEF Inv

LEMMA NextInv == Inv /\ [Next]_vars => Inv'
<1> SUFFICES ASSUME Inv, [Next]_vars PROVE Inv'
  OBVIOUS
<1>1. ASSUME NEW h \in Handlers, Request(h) PROVE Inv'
  BY <1>1, CreateIndexerInv, UpdateIndexerInv, RemoveIndexerInv,
     CreateAppInv, UpdateAppInv, RemoveAppInv DEF Request
<1>2. ASSUME NEW h \in Handlers, SyncStep(h) PROVE Inv'
  BY <1>2, ListAppsInv, ListIndexersInv, ListMappingsInv, FinishSyncInv, DeleteRemoteInv,
     DropMappingInv, PostInv, PutInv, RepostInv, SaveMappingInv, EndAppInv DEF SyncStep
<1>3. ASSUME NEW h \in Handlers, RemoveStep(h) PROVE Inv'
  BY <1>3, SnapshotMappingsInv, SnapshotAppsInv, DeleteIndexerRowInv, CleanRemoteInv,
     FinishRemoveInv DEF RemoveStep
<1>4. ASSUME NEW h \in Handlers, Failure(h) PROVE Inv'
  BY <1>4, CallRefusedInv, StatementFailsInv, HandlerGoneInv DEF Failure
<1>5. CASE UNCHANGED vars
  <2>1. UNCHANGED <<db, world, counters, pc, job>>
    BY <1>5 DEF vars
  <2> QED
    BY <2>1, HandlersStay, SameDb, SameWorld, SameCounters DEF Inv, DbType, db
<1> QED
  BY <1>1, <1>2, <1>3, <1>4, <1>5, HumanDeleteInv, HumanAddInv DEF Next

THEOREM Invariance == Spec => []Inv
BY InitInv, NextInv, PTL DEF Spec

(* Every table row, remote entry and handler local keeps its declared type, *)
(* and no id a table holds is one its counter may hand out again.           *)
THEOREM TypeCorrect == Spec => []TypeOK
BY Invariance, InvImpliesTypeOK, PTL

(* The upsert of a sync that outlives the rows it was started for never     *)
(* leaves a mapping of a deleted application or indexer behind.             *)
THEOREM MappingsReferenceRows == Spec => []MappingReferencesLiveRows
<1>1. Inv => MappingReferencesLiveRows
  BY DEF Inv
<1> QED
  BY <1>1, Invariance, PTL

----------------------------------------------------------------------------
(* The second invariant: whose entry each id a handler or a mapping row     *)
(* holds can name.  An entry may be gone, and an application with it, but a *)
(* held id never comes to stand for another pair's entry.  It rests on the  *)
(* base URL of an application staying what it is.  A, R and N stand for     *)
(* apps, remote and nextRid, before or after a step.                        *)

Names(R, N, host, rid, p) ==
    /\ host \in Hosts /\ rid \in 1 .. N[host] - 1
    /\ rid \in DOMAIN R[host] => R[host][rid].owner = p

Owned(label, j, A, R, N) ==
    /\ \A a \in DOMAIN j.queue \cap DOMAIN A : j.queue[a].host = A[a].host
    /\ label \in Working => \A i \in DOMAIN j.known : Names(R, N, HostOf(j), j.known[i], <<j.app, i>>)
    /\ label = "save" => Names(R, N, HostOf(j), j.rid, <<j.app, j.item>>)
    /\ label = "snapapps" =>
          \A a \in DOMAIN j.held \cap DOMAIN A : Names(R, N, A[a].host, j.held[a], <<a, j.target>>)
    /\ \A a \in DOMAIN j.cleanup : Names(R, N, j.cleanup[a].host, j.cleanup[a].rid, <<a, j.target>>)

MappingOwn ==
    \A p \in DOMAIN mapping : Names(remote, nextRid, apps[p[1]].host, mapping[p], p)

Own == MappingOwn /\ \A h \in Handlers : Owned(pc[h], job[h], apps, remote, nextRid)

(* Applications with ids below n keep their host as long as they exist. *)
AppsKeep(A, n, B) == \A a \in 1 .. n - 1 : a \in DOMAIN B => a \in DOMAIN A /\ B[a].host = A[a].host

(* Ids already handed out keep their owner as long as the entry exists. *)
EntriesKeep(R, N, S, M) ==
    \A host \in Hosts :
        /\ N[host] <= M[host]
        /\ \A rid \in 1 .. N[host] - 1 :
              rid \in DOMAIN S[host] => rid \in DOMAIN R[host] /\ S[host][rid].owner = R[host][rid].owner

LEMMA NamesKeep ==
    ASSUME NEW R, NEW N \in [Hosts -> Nat \ {0}], NEW S, NEW M \in [Hosts -> Nat \ {0}],
           EntriesKeep(R, N, S, M), NEW host, NEW rid, NEW p, Names(R, N, host, rid, p)
    PROVE  Names(S, M, host, rid, p)
<1>1. /\ host \in Hosts /\ N[host] \in Nat /\ M[host] \in Nat /\ N[host] <= M[host]
      /\ rid \in 1 .. N[host] - 1
  BY DEF Names, EntriesKeep
<1>2. rid \in 1 .. M[host] - 1
  BY <1>1
<1> QED
  BY <1>1, <1>2 DEF Names, EntriesKeep

LEMMA OwnedKeep ==
    ASSUME NEW R, NEW N \in [Hosts -> Nat \ {0}], NEW S, NEW M \in [Hosts -> Nat \ {0}],
           EntriesKeep(R, N, S, M), NEW A, NEW n, NEW B, AppsKeep(A, n, B),
           NEW label, NEW j, JobOK(j, n), Owned(label, j, A, R, N)
    PROVE  Owned(label, j, B, S, M)
<1>1. DOMAIN j.queue \subseteq 1 .. n - 1 /\ DOMAIN j.held \subseteq 1 .. n - 1
  BY DEF JobOK, IsTable
<1>2. \A host, rid, p : Names(R, N, host, rid, p) => Names(S, M, host, rid, p)
  BY NamesKeep
<1> QED
  BY <1>1, <1>2 DEF Owned, AppsKeep

(* A step keeps applications and entries, and each mapping row it leaves is *)
(* an old one or names its own entry.                                       *)
StepKeeps ==
    /\ AppsKeep(apps, nextApp, apps')
    /\ EntriesKeep(remote, nextRid, remote', nextRid')
    /\ \A p \in DOMAIN mapping' :
          \/ p \in DOMAIN mapping /\ mapping'[p] = mapping[p]
          \/ Names(remote', nextRid', apps'[p[1]].host, mapping'[p], p)

LEMMA MappingOwnStep ==
    ASSUME Inv, Inv', Own, StepKeeps
    PROVE  MappingOwn'
<1>1. SUFFICES ASSUME NEW p \in DOMAIN mapping', p \in DOMAIN mapping, mapping'[p] = mapping[p]
               PROVE  Names(remote', nextRid', apps'[p[1]].host, mapping'[p], p)
  BY DEF MappingOwn, StepKeeps
<1>2. p[1] \in 1 .. nextApp - 1
  BY <1>1 DEF Inv, DbType, IsTable
<1>3. p[1] \in DOMAIN apps'
  BY DEF Inv, MappingReferencesLiveRows
<1>4. apps'[p[1]].host = apps[p[1]].host
  BY <1>2, <1>3 DEF AppsKeep, StepKeeps
<1>5. Names(remote, nextRid, apps[p[1]].host, mapping[p], p)
  BY <1>1 DEF Own, MappingOwn
<1>6. nextRid \in [Hosts -> Nat \ {0}] /\ nextRid' \in [Hosts -> Nat \ {0}]
  BY DEF Inv, WorldType
<1> QED
  BY <1>1, <1>4, <1>5, <1>6, NamesKeep DEF StepKeeps

(* A handler's locals from before the step, against the tables after it. *)
LEMMA LocalsKeep ==
    ASSUME Inv, Inv', Own, StepKeeps, NEW h \in Handlers
    PROVE  Owned(pc[h], job[h], apps', remote', nextRid')
BY OwnedKeep DEF StepKeeps, Own, Inv, HandlersType, WorldType

(* What is then left to show is the new locals of the handler that moved. *)
LEMMA OwnStep ==
    ASSUME Inv, Inv', Own, StepKeeps,
           NEW h \in Handlers, NEW label, NEW j, Goto(h, label, j),
           Owned(label, j, apps', remote', nextRid')
    PROVE  Own'
<1>1. ASSUME NEW g \in Handlers PROVE Owned(pc'[g], job'[g], apps', remote', nextRid')
  <2>1. CASE g = h
    BY <2>1 DEF Goto, Inv, HandlersType
  <2>2. CASE g # h
    <3>1. pc'[g] = pc[g] /\ job'[g] = job[g]
      BY <2>2 DEF Goto, Inv, HandlersType
    <3> QED
      BY <3>1, LocalsKeep
  <2> QED
    BY <2>1, <2>2
<1> QED
  BY <1>1, MappingOwnStep DEF Own

LEMMA OwnStill ==
    ASSUME Inv, Inv', Own, StepKeeps, UNCHANGED <<pc, job>>
    PROVE  Own'
<1>1. ASSUME NEW g \in Handlers PROVE Owned(pc'[g], job'[g], apps', remote', nextRid')
  <2>1. Owned(pc[g], job[g], apps', remote', nextRid')
    BY LocalsKeep
  <2> QED
    BY <2>1
<1> QED
  BY <1>1, MappingOwnStep DEF Own

LEMMA FreshOwned ==
    ASSUME NEW A, NEW R, NEW N
    PROVE  /\ Owned("idle", Fresh, A, R, N)
           /\ Owned("apps", [Fresh EXCEPT !.scope = "all"], A, R, N)
           /\ \A i : Owned("snapshot", [Fresh EXCEPT !.target = i], A, R, N)
BY EmptyTable DEF Owned, Fresh, Working

LEMMA SettleOwn ==
    ASSUME Inv, Inv', Own, StepKeeps, NEW h \in Handlers, NEW ok, Settle(h, ok)
    PROVE  Own'
<1> DEFINE q == Without(job[h].queue, {job[h].app})
           r == With(job[h].results, job[h].app, ok)
           j == [Fresh EXCEPT !.scope = job[h].scope, !.queue = q, !.results = r]
<1>1. Goto(h, "rows", j)
  BY DEF Settle
<1>2. Owned(pc[h], job[h], apps', remote', nextRid')
  BY LocalsKeep
<1>3. DOMAIN q \subseteq DOMAIN job[h].queue /\ \A a \in DOMAIN q : q[a] = job[h].queue[a]
  BY DEF Without, Restrict
<1>4. j.queue = q /\ DOMAIN j.cleanup = {}
  BY EmptyTable DEF Fresh
<1> HIDE DEF q, j
<1>5. Owned("rows", j, apps', remote', nextRid')
  BY <1>2, <1>3, <1>4 DEF Owned, Working
<1> QED
  BY <1>1, <1>5, OwnStep

LEMMA RespondOwn ==
    ASSUME Inv, Inv', Own, StepKeeps, NEW h \in Handlers, Respond(h)
    PROVE  Own'
BY FreshOwned, OwnStep DEF Respond

----------------------------------------------------------------------------
(* What each kind of step does to the tables. *)

LEMMA SameEntries ==
    ASSUME Inv, UNCHANGED world
    PROVE  EntriesKeep(remote, nextRid, remote', nextRid')
BY DEF EntriesKeep, Inv, WorldType, world

LEMMA DeletedEntryKeeps ==
    ASSUME Inv, NEW host \in Hosts, NEW rid, DeleteEntry(host, rid), UNCHANGED nextRid
    PROVE  EntriesKeep(remote, nextRid, remote', nextRid')
BY DEF EntriesKeep, Inv, WorldType, DeleteEntry, Without, Restrict

LEMMA NewEntryKeeps ==
    ASSUME Inv, NEW host \in Hosts, NEW e,
           remote' = [remote EXCEPT ![host] = With(@, nextRid[host], e)],
           nextRid' = [nextRid EXCEPT ![host] = @ + 1]
    PROVE  EntriesKeep(remote, nextRid, remote', nextRid')
<1>1. nextRid[host] \in Nat
  BY DEF Inv, WorldType
<1>2. \A rid \in 1 .. nextRid[host] - 1 :
         rid \in DOMAIN remote'[host] => rid \in DOMAIN remote[host] /\ remote'[host][rid] = remote[host][rid]
  BY <1>1 DEF Inv, WorldType, With
<1> QED
  BY <1>1, <1>2 DEF EntriesKeep, Inv, WorldType

LEMMA RewrittenEntryKeeps ==
    ASSUME Inv, NEW host \in Hosts, NEW rid \in DOMAIN remote[host], NEW e,
           e.owner = remote[host][rid].owner,
           remote' = [remote EXCEPT ![host][rid] = e], UNCHANGED nextRid
    PROVE  EntriesKeep(remote, nextRid, remote', nextRid')
<1>1. \A id \in DOMAIN remote'[host] : id \in DOMAIN remote[host] /\ remote'[host][id].owner = remote[host][id].owner
  BY DEF Inv, WorldType
<1> QED
  BY <1>1 DEF EntriesKeep, Inv, WorldType

LEMMA SameTablesKeep ==
    ASSUME Inv, UNCHANGED <<apps, mapping, world>>
    PROVE  StepKeeps
BY SameEntries DEF StepKeeps, AppsKeep

----------------------------------------------------------------------------
(* Every request keeps Own. *)

LEMMA IndexerRequestsOwn ==
    ASSUME Inv, Inv', Own, NEW h \in Handlers,
           CreateIndexer(h) \/ UpdateIndexer(h) \/ RemoveIndexer(h)
    PROVE  Own'
<1>1. UNCHANGED <<apps, mapping, world>>
  BY DEF CreateIndexer, UpdateIndexer, RemoveIndexer, db
<1>2. \/ Goto(h, "apps", [Fresh EXCEPT !.scope = "all"])
      \/ \E i : Goto(h, "snapshot", [Fresh EXCEPT !.target = i])
  BY DEF CreateIndexer, UpdateIndexer, RemoveIndexer
<1>3. /\ Owned("apps", [Fresh EXCEPT !.scope = "all"], apps', remote', nextRid')
      /\ \A i : Owned("snapshot", [Fresh EXCEPT !.target = i], apps', remote', nextRid')
  BY FreshOwned
<1> QED
  BY <1>1, <1>2, <1>3, SameTablesKeep, OwnStep

LEMMA SyncOneOwn ==
    ASSUME Inv, Inv', Own, StepKeeps, NEW h \in Handlers, NEW a, NEW row, SyncOne(h, a, row),
           a \in DOMAIN apps' => apps'[a] = row
    PROVE  Own'
<1> DEFINE q == With(<<>>, a, row)
           j == [Fresh EXCEPT !.queue = q]
<1>1. Goto(h, "rows", j)
  BY DEF SyncOne
<1>2. DOMAIN q = {a} /\ q[a] = row
  BY EmptyTable DEF With
<1>3. j.queue = q /\ DOMAIN j.cleanup = {}
  BY EmptyTable DEF Fresh
<1> HIDE DEF q, j
<1>4. Owned("rows", j, apps', remote', nextRid')
  BY <1>2, <1>3 DEF Owned, Working
<1> QED
  BY <1>1, <1>4, OwnStep

LEMMA CreateAppOwn ==
    ASSUME Inv, Inv', Own, NEW h \in Handlers, CreateApp(h)
    PROVE  Own'
<1>1. PICK row : apps' = With(apps, nextApp, row) /\ SyncOne(h, nextApp, row)
  BY DEF CreateApp
<1>2. UNCHANGED <<mapping, world>> /\ nextApp \in Nat
  BY DEF CreateApp, Inv, DbType
<1>3. AppsKeep(apps, nextApp, apps')
  BY <1>1, <1>2 DEF AppsKeep, With
<1>4. StepKeeps
  BY <1>2, <1>3, SameEntries DEF StepKeeps
<1>5. apps'[nextApp] = row
  BY <1>1 DEF With
<1> QED
  BY <1>1, <1>4, <1>5, SyncOneOwn

LEMMA UpdateAppOwn ==
    ASSUME Inv, Inv', Own, ~BaseUrlMoves, NEW h \in Handlers, UpdateApp(h)
    PROVE  Own'
<1>1. PICK a \in DOMAIN apps, row \in [level : AppLevels, host : Hosts] :
          row.host = apps[a].host /\ apps' = [apps EXCEPT ![a] = row] /\ SyncOne(h, a, row)
  BY DEF UpdateApp
<1>2. UNCHANGED <<mapping, world>>
  BY DEF UpdateApp
<1>3. AppsKeep(apps, nextApp, apps')
  BY <1>1 DEF AppsKeep
<1>4. StepKeeps
  BY <1>2, <1>3, SameEntries DEF StepKeeps
<1>5. apps'[a] = row
  BY <1>1
<1> QED
  BY <1>1, <1>4, <1>5, SyncOneOwn

LEMMA RemoveAppOwn ==
    ASSUME Inv, Inv', Own, NEW h \in Handlers, RemoveApp(h)
    PROVE  Own'
<1>1. PICK a : /\ apps' = Without(apps, {a})
               /\ mapping' = Without(mapping, {p \in DOMAIN mapping : p[1] = a})
  BY DEF RemoveApp
<1>2. UNCHANGED <<world, pc, job>>
  BY DEF RemoveApp
<1>3. AppsKeep(apps, nextApp, apps')
  BY <1>1 DEF AppsKeep, Without, Restrict
<1> DEFINE gone == {p \in DOMAIN mapping : p[1] = a}
<1>4. mapping' = Without(mapping, gone)
  BY <1>1
<1> HIDE DEF gone
<1>5. \A p \in DOMAIN mapping' : p \in DOMAIN mapping /\ mapping'[p] = mapping[p]
  BY <1>4 DEF Without, Restrict
<1>6. StepKeeps
  BY <1>2, <1>3, <1>5, SameEntries DEF StepKeeps
<1> QED
  BY <1>2, <1>6, OwnStill

----------------------------------------------------------------------------
(* Every step of a sync keeps Own. *)

LEMMA ListAppsOwn ==
    ASSUME Inv, Inv', Own, NEW h \in Handlers, ListApps(h)
    PROVE  Own'
<1> DEFINE j == [job[h] EXCEPT !.queue = apps]
<1>1. Goto(h, "rows", j) /\ UNCHANGED <<db, world>>
  BY DEF ListApps
<1>2. StepKeeps /\ apps' = apps
  BY <1>1, SameTablesKeep DEF db
<1>3. Owned(pc[h], job[h], apps', remote', nextRid')
  BY <1>2, LocalsKeep
<1>4. j.queue = apps /\ j.cleanup = job[h].cleanup /\ j.target = job[h].target
  BY Locals DEF JobOK, Fresh
<1> HIDE DEF j
<1>5. Owned("rows", j, apps', remote', nextRid')
  BY <1>2, <1>3, <1>4 DEF Owned, Working
<1> QED
  BY <1>1, <1>2, <1>5, OwnStep

LEMMA ListIndexersOwn ==
    ASSUME Inv, Inv', Own, NEW h \in Handlers, ListIndexers(h)
    PROVE  Own'
<1>1. UNCHANGED <<db, world>>
  BY DEF ListIndexers
<1>2. StepKeeps
  BY <1>1, SameTablesKeep DEF db
<1>3. Owned(pc[h], job[h], apps', remote', nextRid')
  BY <1>2, LocalsKeep
<1>4. PICK a \in DOMAIN job[h].queue :
         \/ Goto(h, "rows", [job[h] EXCEPT !.queue = Without(job[h].queue, {a}),
                                           !.results = With(job[h].results, a, TRUE)])
         \/ Goto(h, "maps", [job[h] EXCEPT !.app = a, !.rows = indexers])
  BY DEF ListIndexers
<1> DEFINE q == Without(job[h].queue, {a})
           r == With(job[h].results, a, TRUE)
           j == [job[h] EXCEPT !.queue = q, !.results = r]
           k == [job[h] EXCEPT !.app = a, !.rows = indexers]
<1>5. DOMAIN q \subseteq DOMAIN job[h].queue /\ \A b \in DOMAIN q : q[b] = job[h].queue[b]
  BY DEF Without, Restrict
<1>6. Goto(h, "rows", j) \/ Goto(h, "maps", k)
  BY <1>4
<1> HIDE DEF q, r
<1>7. j.queue = q /\ j.cleanup = job[h].cleanup /\ j.target = job[h].target
  BY Locals DEF JobOK, Fresh
<1>8. k.queue = job[h].queue /\ k.cleanup = job[h].cleanup /\ k.target = job[h].target
  BY Locals DEF JobOK, Fresh
<1> HIDE DEF j, k
<1>9. Owned("rows", j, apps', remote', nextRid') /\ Owned("maps", k, apps', remote', nextRid')
  BY <1>3, <1>5, <1>7, <1>8 DEF Owned, Working
<1> QED
  BY <1>2, <1>6, <1>9, OwnStep

LEMMA ListMappingsOwn ==
    ASSUME Inv, Inv', Own, NEW h \in Handlers, ListMappings(h)
    PROVE  Own'
<1> DEFINE level == job[h].queue[job[h].app].level
           known == ForApp(job[h].app)
           doomed == Doomed(level, job[h].rows, known)
           todo == Pushed(level, job[h].rows, known)
           j == [job[h] EXCEPT !.known = known, !.doomed = doomed, !.todo = todo]
<1>1. pc[h] = "maps" /\ Goto(h, "push", j) /\ UNCHANGED <<db, world>>
  BY DEF ListMappings
<1>2. StepKeeps /\ apps' = apps /\ remote' = remote /\ nextRid' = nextRid
  BY <1>1, SameTablesKeep DEF db, world
<1>3. Owned(pc[h], job[h], apps, remote, nextRid) /\ job[h].app \in DOMAIN job[h].queue
  BY <1>1, Locals DEF Own, Shape
<1>4. ASSUME NEW i \in DOMAIN known
      PROVE  Names(remote, nextRid, HostOf(job[h]), known[i], <<job[h].app, i>>)
  <2>1. <<job[h].app, i>> \in DOMAIN mapping /\ known[i] = mapping[<<job[h].app, i>>]
    BY ForAppRows DEF Inv, DbType
  <2>2. job[h].app \in DOMAIN apps
    BY <2>1 DEF Inv, MappingReferencesLiveRows
  <2>3. apps[job[h].app].host = HostOf(job[h])
    BY <1>3, <2>2 DEF Owned, HostOf
  <2> QED
    BY <2>1, <2>3 DEF Own, MappingOwn
<1> HIDE DEF known, doomed, todo
<1>5. /\ j.queue = job[h].queue /\ j.cleanup = job[h].cleanup /\ j.target = job[h].target
      /\ j.app = job[h].app /\ j.known = known
  BY Locals DEF JobOK, Fresh
<1> HIDE DEF j
<1>6. Owned("push", j, apps', remote', nextRid')
  BY <1>2, <1>3, <1>4, <1>5 DEF Owned, Working, HostOf
<1> QED
  BY <1>1, <1>2, <1>6, OwnStep

LEMMA EndOwn ==
    ASSUME Inv, Inv', Own, NEW h \in Handlers, FinishSync(h) \/ EndApp(h)
    PROVE  Own'
BY SameTablesKeep, RespondOwn, SettleOwn DEF FinishSync, EndApp, db

(* What a handler that works on an application holds: the entry an id of    *)
(* its snapshot names, if there is one, is that application's.              *)
LEMMA KnownOwner ==
    ASSUME Inv, Own, NEW h \in Handlers, pc[h] \in Working, NEW i \in DOMAIN job[h].known,
           job[h].known[i] \in DOMAIN remote[HostOf(job[h])]
    PROVE  remote[HostOf(job[h])][job[h].known[i]].owner = <<job[h].app, i>>
BY DEF Own, Owned, Names

LEMMA DeleteRemoteOwn ==
    ASSUME Inv, Inv', Own, NEW h \in Handlers, DeleteRemote(h)
    PROVE  Own'
<1>1. PICK i \in job[h].doomed :
          /\ DeleteEntry(HostOf(job[h]), job[h].known[i])
          /\ Goto(h, "unmap", [job[h] EXCEPT !.item = i]) \/ Settle(h, FALSE)
  BY DEF DeleteRemote
<1> DEFINE j == [job[h] EXCEPT !.item = i]
<1>2. pc[h] = "push" /\ UNCHANGED <<apps, mapping, nextRid>>
  BY DEF DeleteRemote, db
<1>3. StepKeeps
  BY <1>1, <1>2, HostType, DeletedEntryKeeps DEF StepKeeps, AppsKeep, Working
<1>4. Owned("push", job[h], apps', remote', nextRid')
  BY <1>2, <1>3, LocalsKeep
<1>5. /\ j.queue = job[h].queue /\ j.cleanup = job[h].cleanup /\ j.target = job[h].target
      /\ j.app = job[h].app /\ j.known = job[h].known
  BY Locals DEF JobOK, Fresh
<1> HIDE DEF j
<1>6. Owned("unmap", j, apps', remote', nextRid')
  BY <1>4, <1>5 DEF Owned, Working, HostOf
<1> QED
  BY <1>1, <1>3, <1>6, OwnStep, SettleOwn DEF j

LEMMA DropMappingOwn ==
    ASSUME Inv, Inv', Own, NEW h \in Handlers, DropMapping(h)
    PROVE  Own'
<1> DEFINE p == <<job[h].app, job[h].item>>
           j == [job[h] EXCEPT !.doomed = @ \ {job[h].item}, !.item = 0]
<1>1. /\ pc[h] = "unmap" /\ mapping' = Without(mapping, {p}) /\ Goto(h, "push", j)
      /\ UNCHANGED <<apps, world>>
  BY DEF DropMapping
<1>2. \A q \in DOMAIN mapping' : q \in DOMAIN mapping /\ mapping'[q] = mapping[q]
  <2> HIDE DEF p
  <2> QED
    BY <1>1 DEF Without, Restrict
<1>3. StepKeeps
  BY <1>1, <1>2, SameEntries DEF StepKeeps, AppsKeep
<1>4. Owned("unmap", job[h], apps', remote', nextRid')
  BY <1>1, <1>3, LocalsKeep
<1>5. /\ j.queue = job[h].queue /\ j.cleanup = job[h].cleanup /\ j.target = job[h].target
      /\ j.app = job[h].app /\ j.known = job[h].known
  BY Locals DEF JobOK, Fresh
<1> HIDE DEF j
<1>6. Owned("push", j, apps', remote', nextRid')
  BY <1>4, <1>5 DEF Owned, Working, HostOf
<1> QED
  BY <1>1, <1>3, <1>6, OwnStep

LEMMA PostEntryOwn ==
    ASSUME Inv, Inv', Own, NEW h \in Handlers, NEW i, pc[h] \in {"push", "repost"}, PostEntry(h, i)
    PROVE  Own'
<1> DEFINE host == HostOf(job[h])
           j == [job[h] EXCEPT !.item = i, !.rid = nextRid[host]]
<1>1. /\ remote' = [remote EXCEPT ![host] = With(@, nextRid[host], Payload(job[h], i))]
      /\ nextRid' = [nextRid EXCEPT ![host] = @ + 1]
      /\ Goto(h, "save", j) \/ Settle(h, FALSE)
      /\ UNCHANGED <<apps, mapping>>
  BY DEF PostEntry, db
<1>2. host \in Hosts
  BY HostType DEF Working
<1>3. StepKeeps
  BY <1>1, <1>2, NewEntryKeeps DEF StepKeeps, AppsKeep
<1>4. Owned(pc[h], job[h], apps', remote', nextRid')
  BY <1>3, LocalsKeep
<1>5. Names(remote', nextRid', host, nextRid[host], <<job[h].app, i>>)
  <2>1. nextRid[host] \in Nat \ {0} /\ nextRid'[host] = nextRid[host] + 1
    BY <1>1, <1>2 DEF Inv, WorldType
  <2>2. remote'[host][nextRid[host]] = Payload(job[h], i)
    BY <1>1, <1>2 DEF Inv, WorldType, With
  <2> QED
    BY <1>2, <2>1, <2>2 DEF Names, Payload
<1>6. /\ j.queue = job[h].queue /\ j.cleanup = job[h].cleanup /\ j.target = job[h].target
      /\ j.app = job[h].app /\ j.known = job[h].known /\ j.item = i /\ j.rid = nextRid[host]
  <2> HIDE DEF host
  <2> QED
    BY Locals DEF JobOK, Fresh
<1> HIDE DEF j
<1>7. Owned("save", j, apps', remote', nextRid')
  BY <1>4, <1>5, <1>6 DEF Owned, Working, HostOf
<1> QED
  BY <1>1, <1>3, <1>7, OwnStep, SettleOwn

LEMMA PutOwn ==
    ASSUME Inv, Inv', Own, NEW h \in Handlers, Put(h)
    PROVE  Own'
<1> DEFINE host == HostOf(job[h])
           done(i) == [job[h] EXCEPT !.todo = @ \ {i}]
           again(i) == [job[h] EXCEPT !.item = i]
<1>1. PICK i \in job[h].todo \cap DOMAIN job[h].known :
         LET rid == job[h].known[i] IN
         IF rid \in DOMAIN remote[host]
         THEN /\ remote' = [remote EXCEPT ![host][rid] = Payload(job[h], i)]
              /\ Goto(h, "push", done(i)) \/ Settle(h, FALSE)
         ELSE Goto(h, "repost", again(i)) /\ UNCHANGED remote
  BY DEF Put
<1>2. pc[h] = "push" /\ UNCHANGED <<apps, mapping, nextRid>>
  BY DEF Put, Turn, db
<1>3. host \in Hosts
  BY <1>2, HostType DEF Working
<1>4. CASE job[h].known[i] \in DOMAIN remote[host]
  <2>1. Payload(job[h], i).owner = remote[host][job[h].known[i]].owner
    BY <1>2, <1>4, KnownOwner DEF Payload, Working
  <2>2. StepKeeps
    BY <1>1, <1>2, <1>3, <1>4, <2>1, RewrittenEntryKeeps DEF StepKeeps, AppsKeep
  <2>3. Owned("push", job[h], apps', remote', nextRid')
    BY <1>2, <2>2, LocalsKeep
  <2> DEFINE j == done(i)
  <2>4. /\ j.queue = job[h].queue /\ j.cleanup = job[h].cleanup /\ j.target = job[h].target
        /\ j.app = job[h].app /\ j.known = job[h].known
    BY Locals DEF JobOK, Fresh
  <2>5. Goto(h, "push", j) \/ Settle(h, FALSE)
    BY <1>1, <1>4
  <2> HIDE DEF j
  <2>6. Owned("push", j, apps', remote', nextRid')
    BY <2>3, <2>4 DEF Owned, Working, HostOf
  <2> QED
    BY <2>2, <2>5, <2>6, OwnStep, SettleOwn
<1>5. CASE job[h].known[i] \notin DOMAIN remote[host]
  <2> DEFINE j == again(i)
  <2>1. Goto(h, "repost", j) /\ UNCHANGED remote
    BY <1>1, <1>5
  <2>2. StepKeeps
    BY <1>2, <2>1, SameTablesKeep DEF world
  <2>3. Owned("push", job[h], apps', remote', nextRid')
    BY <1>2, <2>2, LocalsKeep
  <2>4. /\ j.queue = job[h].queue /\ j.cleanup = job[h].cleanup /\ j.target = job[h].target
        /\ j.app = job[h].app /\ j.known = job[h].known
    BY Locals DEF JobOK, Fresh
  <2> HIDE DEF j
  <2>5. Owned("repost", j, apps', remote', nextRid')
    BY <2>3, <2>4 DEF Owned, Working, HostOf
  <2> QED
    BY <2>1, <2>2, <2>5, OwnStep
<1> QED
  BY <1>4, <1>5

(* The mapping row that SaveMapping writes names the entry just created. *)
LEMMA SaveMappingOwn ==
    ASSUME Inv, Inv', Own, NEW h \in Handlers, SaveMapping(h)
    PROVE  Own'
<1> DEFINE p == <<job[h].app, job[h].item>>
           j == [job[h] EXCEPT !.todo = @ \ {job[h].item}, !.item = 0, !.rid = 0]
<1>1. /\ pc[h] = "save" /\ UNCHANGED <<apps, world>>
      /\ IF ParentsExist(job[h].app, job[h].item)
         THEN mapping' = With(mapping, p, job[h].rid) /\ Goto(h, "push", j)
         ELSE Settle(h, FALSE) /\ UNCHANGED mapping
  BY DEF SaveMapping, Upsert
<1>2. Owned("save", job[h], apps, remote, nextRid) /\ job[h].app \in DOMAIN job[h].queue
  BY <1>1, Locals DEF Own, Shape, Working
<1>3. CASE ParentsExist(job[h].app, job[h].item)
  <2>1. Names(remote, nextRid, apps[p[1]].host, job[h].rid, p)
    <3>1. p[1] \in DOMAIN apps /\ p[1] = job[h].app
      BY <1>3 DEF ParentsExist
    <3> QED
      BY <1>2, <3>1 DEF Owned, HostOf
  <2>2. \A q \in DOMAIN mapping' :
            \/ q \in DOMAIN mapping /\ mapping'[q] = mapping[q]
            \/ q = p /\ mapping'[q] = job[h].rid
    <3> HIDE DEF p
    <3> QED
      BY <1>1, <1>3 DEF With
  <2>3. StepKeeps
    <3> HIDE DEF p
    <3> QED
      BY <1>1, <2>1, <2>2, SameEntries DEF StepKeeps, AppsKeep, world
  <2>4. Owned("save", job[h], apps', remote', nextRid')
    BY <1>1, <2>3, LocalsKeep
  <2>5. /\ j.queue = job[h].queue /\ j.cleanup = job[h].cleanup /\ j.target = job[h].target
        /\ j.app = job[h].app /\ j.known = job[h].known
    BY Locals DEF JobOK, Fresh
  <2> HIDE DEF j
  <2>6. Owned("push", j, apps', remote', nextRid')
    BY <2>4, <2>5 DEF Owned, Working, HostOf
  <2> QED
    BY <1>1, <1>3, <2>3, <2>6, OwnStep
<1>4. CASE ~ParentsExist(job[h].app, job[h].item)
  BY <1>1, <1>4, SameTablesKeep, SettleOwn
<1> QED
  BY <1>3, <1>4

----------------------------------------------------------------------------
(* Every step of DELETE /indexer/{id}, every failure and every edit by hand *)
(* keeps Own.                                                               *)

LEMMA SnapshotMappingsOwn ==
    ASSUME Inv, Inv', Own, NEW h \in Handlers, SnapshotMappings(h)
    PROVE  Own'
<1> DEFINE held == ForIndexer(job[h].target)
           j == [job[h] EXCEPT !.held = held]
           label == IF DOMAIN held = {} THEN "delete" ELSE "snapapps"
<1>1. pc[h] = "snapshot" /\ Goto(h, label, j) /\ UNCHANGED <<db, world>>
  BY DEF SnapshotMappings
<1>2. StepKeeps /\ apps' = apps /\ remote' = remote /\ nextRid' = nextRid
  BY <1>1, SameTablesKeep DEF db, world
<1>3. Owned(pc[h], job[h], apps, remote, nextRid)
  BY DEF Own
<1>4. \A a \in DOMAIN held : Names(remote, nextRid, apps[a].host, held[a], <<a, job[h].target>>)
  <2>1. \A a \in DOMAIN held : <<a, job[h].target>> \in DOMAIN mapping /\ held[a] = mapping[<<a, job[h].target>>]
    BY ForIndexerRows DEF Inv, DbType
  <2>2. \A p \in DOMAIN mapping : Names(remote, nextRid, apps[p[1]].host, mapping[p], p)
    BY DEF Own, MappingOwn
  <2> HIDE DEF held
  <2> QED
    BY <2>1, <2>2
<1>5. label \in {"delete", "snapapps"}
  OBVIOUS
<1> HIDE DEF held
<1>6. /\ j.queue = job[h].queue /\ j.cleanup = job[h].cleanup /\ j.target = job[h].target
      /\ j.held = held
  BY Locals DEF JobOK, Fresh
<1> HIDE DEF j, label
<1>7. Owned(label, j, apps', remote', nextRid')
  BY <1>2, <1>3, <1>4, <1>5, <1>6 DEF Owned, Working
<1> QED
  BY <1>1, <1>2, <1>7, OwnStep

LEMMA SnapshotAppsOwn ==
    ASSUME Inv, Inv', Own, NEW h \in Handlers, SnapshotApps(h)
    PROVE  Own'
<1> DEFINE full == {a \in DOMAIN job[h].held \cap DOMAIN apps : apps[a].level = "fullSync"}
           cleanup == [a \in full |-> [host |-> apps[a].host, rid |-> job[h].held[a]]]
           j == [job[h] EXCEPT !.cleanup = cleanup]
<1>1. pc[h] = "snapapps" /\ Goto(h, "delete", j) /\ UNCHANGED <<db, world>>
  BY DEF SnapshotApps
<1>2. StepKeeps /\ apps' = apps /\ remote' = remote /\ nextRid' = nextRid
  BY <1>1, SameTablesKeep DEF db, world
<1>3. Owned("snapapps", job[h], apps, remote, nextRid)
  BY <1>1 DEF Own
<1>4. \A a \in DOMAIN cleanup :
         /\ a \in DOMAIN job[h].held \cap DOMAIN apps
         /\ cleanup[a].host = apps[a].host /\ cleanup[a].rid = job[h].held[a]
  OBVIOUS
<1> HIDE DEF cleanup
<1>5. /\ j.queue = job[h].queue /\ j.target = job[h].target /\ j.cleanup = cleanup
  BY Locals DEF JobOK, Fresh
<1> HIDE DEF j
<1>6. Owned("delete", j, apps', remote', nextRid')
  BY <1>2, <1>3, <1>4, <1>5 DEF Owned, Working
<1> QED
  BY <1>1, <1>2, <1>6, OwnStep

LEMMA DeleteIndexerRowOwn ==
    ASSUME Inv, Inv', Own, NEW h \in Handlers, DeleteIndexerRow(h)
    PROVE  Own'
<1> DEFINE i == job[h].target
           gone == {p \in DOMAIN mapping : p[2] = i}
<1>1. /\ pc[h] = "delete" /\ UNCHANGED <<apps, world>>
      /\ \/ mapping' = Without(mapping, gone) /\ Goto(h, "cleanup", job[h])
         \/ Respond(h) /\ UNCHANGED mapping
  BY DEF DeleteIndexerRow
<1>2. \A p \in DOMAIN mapping' : p \in DOMAIN mapping /\ mapping'[p] = mapping[p]
  <2> HIDE DEF gone
  <2> QED
    BY <1>1 DEF Without, Restrict
<1>3. StepKeeps
  BY <1>1, <1>2, SameEntries DEF StepKeeps, AppsKeep
<1>4. Owned("delete", job[h], apps', remote', nextRid')
  BY <1>1, <1>3, LocalsKeep
<1>5. Owned("cleanup", job[h], apps', remote', nextRid')
  BY <1>4 DEF Owned, Working
<1> QED
  BY <1>1, <1>3, <1>5, OwnStep, RespondOwn

LEMMA NextDoomedOwn ==
    ASSUME Inv, Inv', Own, StepKeeps, NEW h \in Handlers, NEW a, NextDoomed(h, a)
    PROVE  Own'
<1> DEFINE rest == Without(job[h].cleanup, {a})
           j == [job[h] EXCEPT !.cleanup = rest]
<1>1. Goto(h, "cleanup", j)
  BY DEF NextDoomed
<1>2. Owned(pc[h], job[h], apps', remote', nextRid')
  BY LocalsKeep
<1>3. DOMAIN rest \subseteq DOMAIN job[h].cleanup /\ \A b \in DOMAIN rest : rest[b] = job[h].cleanup[b]
  BY DEF Without, Restrict
<1> HIDE DEF rest
<1>4. j.queue = job[h].queue /\ j.target = job[h].target /\ j.cleanup = rest
  BY Locals DEF JobOK, Fresh
<1> HIDE DEF j
<1>5. Owned("cleanup", j, apps', remote', nextRid')
  BY <1>2, <1>3, <1>4 DEF Owned, Working
<1> QED
  BY <1>1, <1>5, OwnStep

LEMMA CleanRemoteOwn ==
    ASSUME Inv, Inv', Own, NEW h \in Handlers, CleanRemote(h)
    PROVE  Own'
<1>1. PICK a \in DOMAIN job[h].cleanup :
          DeleteEntry(job[h].cleanup[a].host, job[h].cleanup[a].rid) /\ NextDoomed(h, a)
  BY DEF CleanRemote
<1>2. UNCHANGED <<apps, mapping, nextRid>>
  BY DEF CleanRemote, db
<1>3. job[h].cleanup[a].host \in Hosts
  BY DEF Own, Owned, Names
<1>4. StepKeeps
  BY <1>1, <1>2, <1>3, DeletedEntryKeeps DEF StepKeeps, AppsKeep
<1> QED
  BY <1>1, <1>4, NextDoomedOwn

LEMMA FinishRemoveOwn ==
    ASSUME Inv, Inv', Own, NEW h \in Handlers, FinishRemove(h)
    PROVE  Own'
BY SameTablesKeep, RespondOwn DEF FinishRemove, db

LEMMA CallRefusedOwn ==
    ASSUME Inv, Inv', Own, NEW h \in Handlers, CallRefused(h)
    PROVE  Own'
<1>1. StepKeeps
  BY SameTablesKeep DEF CallRefused, db
<1> QED
  BY <1>1, SettleOwn, NextDoomedOwn DEF CallRefused

LEMMA StatementFailsOwn ==
    ASSUME Inv, Inv', Own, NEW h \in Handlers, StatementFails(h)
    PROVE  Own'
<1>1. StepKeeps
  BY SameTablesKeep DEF StatementFails, db
<1>2. Owned(pc[h], job[h], apps', remote', nextRid')
  BY <1>1, LocalsKeep
<1>3. Owned("rows", job[h], apps', remote', nextRid') /\ Owned("delete", job[h], apps', remote', nextRid')
  BY <1>2 DEF Owned, Working
<1>4. ASSUME NEW a \in DOMAIN job[h].queue,
             Goto(h, "rows", [job[h] EXCEPT !.queue = Without(job[h].queue, {a}),
                                            !.results = With(job[h].results, a, FALSE)])
      PROVE  Own'
  <2> DEFINE q == Without(job[h].queue, {a})
             r == With(job[h].results, a, FALSE)
             j == [job[h] EXCEPT !.queue = q, !.results = r]
  <2>1. Goto(h, "rows", j)
    BY <1>4
  <2>2. DOMAIN q \subseteq DOMAIN job[h].queue /\ \A b \in DOMAIN q : q[b] = job[h].queue[b]
    BY DEF Without, Restrict
  <2> HIDE DEF q, r
  <2>3. j.queue = q /\ j.cleanup = job[h].cleanup /\ j.target = job[h].target
    BY Locals DEF JobOK, Fresh
  <2> HIDE DEF j
  <2>4. Owned("rows", j, apps', remote', nextRid')
    BY <1>2, <2>2, <2>3 DEF Owned, Working
  <2> QED
    BY <1>1, <2>1, <2>4, OwnStep
<1>5. \/ Goto(h, "rows", job[h])
      \/ \E a \in DOMAIN job[h].queue :
            Goto(h, "rows", [job[h] EXCEPT !.queue = Without(job[h].queue, {a}),
                                           !.results = With(job[h].results, a, FALSE)])
      \/ Settle(h, FALSE) \/ Goto(h, "delete", job[h]) \/ Respond(h)
  BY DEF StatementFails
<1> QED
  BY <1>1, <1>3, <1>4, <1>5, OwnStep, SettleOwn, RespondOwn

LEMMA HandlerGoneOwn ==
    ASSUME Inv, Inv', Own, NEW h \in Handlers, HandlerGone(h)
    PROVE  Own'
BY SameTablesKeep, RespondOwn DEF HandlerGone, db

LEMMA HumanOwn ==
    ASSUME Inv, Inv', Own, HumanDelete \/ HumanAdd
    PROVE  Own'
<1>1. UNCHANGED <<apps, mapping, pc, job>>
  BY DEF HumanDelete, HumanAdd, db
<1>2. EntriesKeep(remote, nextRid, remote', nextRid')
  BY DeletedEntryKeeps, NewEntryKeeps DEF HumanDelete, HumanAdd
<1>3. StepKeeps
  BY <1>1, <1>2 DEF StepKeeps, AppsKeep
<1> QED
  BY <1>1, <1>3, OwnStill

----------------------------------------------------------------------------
(* The second invariance theorem. *)

LEMMA InitOwn == Init => Own
<1> SUFFICES ASSUME Init PROVE Own
  OBVIOUS
<1>1. MappingOwn
  BY EmptyTable DEF Init, MappingOwn
<1>2. Owned("idle", Fresh, apps, remote, nextRid)
  BY FreshOwned
<1> QED
  BY <1>1, <1>2 DEF Init, Own

LEMMA NextOwn ==
    ASSUME ~BaseUrlMoves
    PROVE  Inv /\ Own /\ [Next]_vars => Own'
<1> SUFFICES ASSUME Inv, Own, [Next]_vars PROVE Own'
  OBVIOUS
<1>1. Inv'
  BY NextInv
<1>2. ASSUME NEW h \in Handlers, Request(h) PROVE Own'
  BY <1>1, <1>2, IndexerRequestsOwn, CreateAppOwn, UpdateAppOwn, RemoveAppOwn DEF Request
<1>3. ASSUME NEW h \in Handlers, SyncStep(h) PROVE Own'
  <2>1. Post(h) \/ Repost(h) => \E i : PostEntry(h, i) /\ pc[h] \in {"push", "repost"}
    BY DEF Post, Repost, Turn
  <2> QED
    BY <1>1, <1>3, <2>1, ListAppsOwn, ListIndexersOwn, ListMappingsOwn, EndOwn, DeleteRemoteOwn,
       DropMappingOwn, PostEntryOwn, PutOwn, SaveMappingOwn DEF SyncStep
<1>4. ASSUME NEW h \in Handlers, RemoveStep(h) PROVE Own'
  BY <1>1, <1>4, SnapshotMappingsOwn, SnapshotAppsOwn, DeleteIndexerRowOwn, CleanRemoteOwn,
     FinishRemoveOwn DEF RemoveStep
<1>5. ASSUME NEW h \in Handlers, Failure(h) PROVE Own'
  BY <1>1, <1>5, CallRefusedOwn, StatementFailsOwn, HandlerGoneOwn DEF Failure
<1>6. CASE UNCHANGED vars
  <2>1. UNCHANGED <<apps, mapping, world, pc, job>>
    BY <1>6 DEF vars, db
  <2> QED
    BY <1>1, <2>1, SameTablesKeep, OwnStill
<1> QED
  BY <1>1, <1>2, <1>3, <1>4, <1>5, <1>6, HumanOwn DEF Next

THEOREM Ownership ==
    ASSUME ~BaseUrlMoves
    PROVE  Spec => [](Inv /\ Own)
BY InitInv, NextInv, InitOwn, NextOwn, PTL DEF Spec

LEMMA OwnImpliesNames == Inv /\ Own => MappingNamesOwnEntry
<1> SUFFICES ASSUME Own, NEW p \in DOMAIN mapping, p[1] \in DOMAIN apps,
                    mapping[p] \in DOMAIN remote[apps[p[1]].host]
             PROVE  remote[apps[p[1]].host][mapping[p]].owner = p
  BY DEF MappingNamesOwnEntry
<1>1. Names(remote, nextRid, apps[p[1]].host, mapping[p], p)
  BY DEF Own, MappingOwn
<1> QED
  BY <1>1 DEF Names

(* As long as no application's base URL moves to another host, no race,     *)
(* failure or dropped handler makes a mapping row name an entry that        *)
(* another pair, or a human, owns.                                          *)
THEOREM MappingsOwnTheirEntries ==
    ASSUME ~BaseUrlMoves
    PROVE  Spec => []MappingNamesOwnEntry
BY Ownership, OwnImpliesNames, PTL

----------------------------------------------------------------------------
(* Who changes an entry.                                                    *)

EntryStays(host, rid) == rid \in DOMAIN remote'[host] /\ remote'[host][rid] = remote[host][rid]

LEMMA DeleteEntryStays ==
    ASSUME Inv, NEW x \in Hosts, NEW id, DeleteEntry(x, id),
           NEW host \in Hosts, NEW rid \in DOMAIN remote[host]
    PROVE  EntryStays(host, rid) \/ (host = x /\ rid = id)
BY DEF EntryStays, DeleteEntry, Without, Restrict, Inv, WorldType

LEMMA NewEntryStays ==
    ASSUME Inv, NEW x \in Hosts, NEW e, remote' = [remote EXCEPT ![x] = With(@, nextRid[x], e)],
           NEW host \in Hosts, NEW rid \in DOMAIN remote[host]
    PROVE  EntryStays(host, rid)
<1>1. nextRid[x] \in Nat /\ DOMAIN remote[x] \subseteq 1 .. nextRid[x] - 1
  BY DEF Inv, WorldType, IsTable
<1>2. nextRid[x] \notin DOMAIN remote[x]
  BY <1>1
<1> QED
  BY <1>2 DEF EntryStays, With, Inv, WorldType

LEMMA DeleteRemoteTouches ==
    ASSUME Inv, Own, NEW h \in Handlers, DeleteRemote(h),
           NEW host \in Hosts, NEW rid \in DOMAIN remote[host]
    PROVE  TouchedByOwner(host, rid) /\ TouchedByFullSync(host, rid)
<1>1. PICK i \in job[h].doomed :
          /\ DeleteEntry(HostOf(job[h]), job[h].known[i])
          /\ Goto(h, "unmap", [job[h] EXCEPT !.item = i]) \/ Settle(h, FALSE)
  BY DEF DeleteRemote
<1>2. pc[h] = "push" /\ pc'[h] # "push"
  BY <1>1 DEF DeleteRemote, Goto, Settle, Inv, HandlersType
<1>3. Shape("push", job[h])
  BY <1>2, Locals
<1>4. CASE EntryStays(host, rid)
  BY <1>4 DEF EntryStays, TouchedByOwner, TouchedByFullSync
<1>5. CASE ~EntryStays(host, rid)
  <2>1. host = HostOf(job[h]) /\ rid = job[h].known[i]
    BY <1>1, <1>2, <1>5, HostType, DeleteEntryStays DEF Working
  <2>2. remote[host][rid].owner = <<job[h].app, i>>
    BY <1>2, <1>3, <2>1, KnownOwner DEF Shape, Working
  <2>3. rid \notin DOMAIN remote'[host]
    BY <1>1, <2>1 DEF DeleteEntry, Without, Restrict, Inv, WorldType
  <2>4. <<job[h].app, i>> \in Responsible(job[h])
    BY DEF Responsible
  <2>5. job[h].app \in DOMAIN job[h].queue /\ job[h].queue[job[h].app].level = "fullSync"
    BY <1>3 DEF Shape, Working
  <2>6. Moves(h)
    BY <1>2 DEF Moves
  <2>7. TouchedByOwner(host, rid)
    BY <2>2, <2>3, <2>4, <2>6 DEF TouchedByOwner
  <2>8. TouchedByFullSync(host, rid)
    BY <2>2, <2>5, <2>6 DEF TouchedByFullSync
  <2> QED
    BY <2>7, <2>8
<1> QED
  BY <1>4, <1>5

LEMMA PutTouches ==
    ASSUME Inv, Own, NEW h \in Handlers, Put(h),
           NEW host \in Hosts, NEW rid \in DOMAIN remote[host]
    PROVE  TouchedByOwner(host, rid) /\ TouchedByFullSync(host, rid)
<1> DEFINE x == HostOf(job[h])
<1>1. PICK i \in job[h].todo \cap DOMAIN job[h].known :
         LET id == job[h].known[i] IN
         IF id \in DOMAIN remote[x]
         THEN /\ remote' = [remote EXCEPT ![x][id] = Payload(job[h], i)]
              /\ Goto(h, "push", [job[h] EXCEPT !.todo = @ \ {i}]) \/ Settle(h, FALSE)
         ELSE UNCHANGED remote
  BY DEF Put
<1>2. pc[h] = "push"
  BY DEF Put, Turn
<1>3. Shape("push", job[h]) /\ x \in Hosts
  BY <1>2, Locals, HostType DEF Working
<1>4. CASE EntryStays(host, rid)
  BY <1>4 DEF EntryStays, TouchedByOwner, TouchedByFullSync
<1>5. CASE ~EntryStays(host, rid)
  <2>1. job[h].known[i] \in DOMAIN remote[x]
    BY <1>1, <1>5 DEF EntryStays
  <2>2. remote' = [remote EXCEPT ![x][job[h].known[i]] = Payload(job[h], i)]
    BY <1>1, <2>1
  <2>3. host = x /\ rid = job[h].known[i]
    BY <1>3, <1>5, <2>2 DEF EntryStays, Inv, WorldType
  <2>4. remote[host][rid].owner = <<job[h].app, i>>
    BY <1>2, <2>1, <2>3, KnownOwner DEF Working
  <2>5. remote'[host][rid].owner = <<job[h].app, i>>
    BY <2>1, <2>2, <2>3 DEF Payload, Inv, WorldType
  <2>6. <<job[h].app, i>> \in Responsible(job[h])
    BY DEF Responsible
  <2>7. job[h].app \in DOMAIN job[h].queue /\ job[h].queue[job[h].app].level = "fullSync"
    BY <1>3 DEF Shape, Working
  <2>8. Moves(h)
    <3>1. CASE Settle(h, FALSE)
      BY <1>2, <3>1 DEF Settle, Goto, Moves, Inv, HandlersType
    <3>2. CASE Goto(h, "push", [job[h] EXCEPT !.todo = @ \ {i}])
      <4>1. job'[h].todo = job[h].todo \ {i}
        BY <3>2, Locals DEF Goto, JobOK, Fresh, Inv, HandlersType
      <4> QED
        BY <4>1 DEF Moves
    <3> QED
      BY <1>1, <2>1, <3>1, <3>2
  <2>9. TouchedByOwner(host, rid)
    BY <2>4, <2>5, <2>6, <2>8 DEF TouchedByOwner
  <2>10. TouchedByFullSync(host, rid)
    BY <2>4, <2>7, <2>8 DEF TouchedByFullSync
  <2> QED
    BY <2>9, <2>10
<1> QED
  BY <1>4, <1>5

LEMMA CleanRemoteTouches ==
    ASSUME Inv, Own, NEW h \in Handlers, CleanRemote(h),
           NEW host \in Hosts, NEW rid \in DOMAIN remote[host]
    PROVE  TouchedByOwner(host, rid) /\ TouchedByFullSync(host, rid)
<1>1. PICK a \in DOMAIN job[h].cleanup :
          DeleteEntry(job[h].cleanup[a].host, job[h].cleanup[a].rid) /\ NextDoomed(h, a)
  BY DEF CleanRemote
<1>2. Names(remote, nextRid, job[h].cleanup[a].host, job[h].cleanup[a].rid, <<a, job[h].target>>)
  BY DEF Own, Owned
<1>3. CASE EntryStays(host, rid)
  BY <1>3 DEF EntryStays, TouchedByOwner, TouchedByFullSync
<1>4. CASE ~EntryStays(host, rid)
  <2>1. host = job[h].cleanup[a].host /\ rid = job[h].cleanup[a].rid
    BY <1>1, <1>2, <1>4, DeleteEntryStays DEF Names
  <2>2. remote[host][rid].owner = <<a, job[h].target>>
    BY <1>2, <2>1 DEF Names
  <2>3. rid \notin DOMAIN remote'[host]
    BY <1>1, <2>1 DEF DeleteEntry, Without, Restrict, Inv, WorldType
  <2>4. <<a, job[h].target>> \in Responsible(job[h])
    BY DEF Responsible
  <2>5. Moves(h)
    <3> DEFINE rest == Without(job[h].cleanup, {a})
    <3>1. a \notin DOMAIN rest
      BY DEF Without, Restrict
    <3>2. job' = [job EXCEPT ![h] = [job[h] EXCEPT !.cleanup = rest]]
      BY <1>1 DEF NextDoomed, Goto
    <3> HIDE DEF rest
    <3>3. job'[h].cleanup = rest
      BY <3>2, Locals DEF JobOK, Fresh, Inv, HandlersType
    <3> QED
      BY <3>1, <3>3 DEF Moves
  <2>6. TouchedByOwner(host, rid)
    BY <2>2, <2>3, <2>4, <2>5 DEF TouchedByOwner
  <2>7. TouchedByFullSync(host, rid)
    BY <2>2, <2>5 DEF TouchedByFullSync
  <2> QED
    BY <2>6, <2>7
<1> QED
  BY <1>3, <1>4

LEMMA NextTouches ==
    ASSUME Inv, Own, [Next]_vars, NEW host \in Hosts, NEW rid \in DOMAIN remote[host]
    PROVE  TouchedByOwner(host, rid) /\ TouchedByFullSync(host, rid)
<1>1. ASSUME EntryStays(host, rid)
      PROVE  TouchedByOwner(host, rid) /\ TouchedByFullSync(host, rid)
  BY <1>1 DEF EntryStays, TouchedByOwner, TouchedByFullSync
<1>2. ASSUME UNCHANGED remote PROVE EntryStays(host, rid)
  BY <1>2 DEF EntryStays
<1>3. ASSUME NEW h \in Handlers, Request(h) PROVE UNCHANGED remote
  BY <1>3 DEF Request, CreateIndexer, UpdateIndexer, RemoveIndexer, CreateApp, UpdateApp, RemoveApp, world
<1>4. ASSUME NEW h \in Handlers, NEW i, PostEntry(h, i), pc[h] \in Working PROVE EntryStays(host, rid)
  <2> DEFINE x == HostOf(job[h])
  <2>1. x \in Hosts /\ remote' = [remote EXCEPT ![x] = With(@, nextRid[x], Payload(job[h], i))]
    BY <1>4, HostType DEF PostEntry
  <2> HIDE DEF x
  <2> QED
    BY <2>1, NewEntryStays
<1>5. ASSUME NEW h \in Handlers, SyncStep(h)
      PROVE  TouchedByOwner(host, rid) /\ TouchedByFullSync(host, rid)
  <2>1. CASE Post(h) \/ Repost(h)
    BY <1>1, <1>4, <2>1 DEF Post, Repost, Turn, Working
  <2>2. CASE ListApps(h) \/ ListIndexers(h) \/ ListMappings(h) \/ FinishSync(h) \/ DropMapping(h)
             \/ SaveMapping(h) \/ EndApp(h)
    BY <1>1, <1>2, <2>2 DEF ListApps, ListIndexers, ListMappings, FinishSync, DropMapping,
       SaveMapping, EndApp, world
  <2> QED
    BY <1>5, <2>1, <2>2, DeleteRemoteTouches, PutTouches DEF SyncStep
<1>6. ASSUME NEW h \in Handlers, RemoveStep(h)
      PROVE  TouchedByOwner(host, rid) /\ TouchedByFullSync(host, rid)
  BY <1>1, <1>2, <1>6, CleanRemoteTouches DEF RemoveStep, SnapshotMappings, SnapshotApps,
     DeleteIndexerRow, FinishRemove, world
<1>7. ASSUME NEW h \in Handlers, Failure(h) PROVE UNCHANGED remote
  BY <1>7 DEF Failure, CallRefused, StatementFails, HandlerGone, world
<1>8. ASSUME HumanDelete \/ HumanAdd
      PROVE  TouchedByOwner(host, rid) /\ TouchedByFullSync(host, rid)
  <2>1. edits' # edits
    BY <1>8 DEF HumanDelete, HumanAdd, Edit, Inv, CountersType
  <2> QED
    BY <2>1 DEF TouchedByOwner, TouchedByFullSync
<1>9. CASE UNCHANGED vars
  BY <1>1, <1>2, <1>9 DEF vars, world
<1> QED
  BY <1>1, <1>2, <1>3, <1>5, <1>6, <1>7, <1>8, <1>9 DEF Next

(* As long as no application's base URL moves, every PUT and every DELETE   *)
(* reaches an entry of the very application and indexer it is sent for,     *)
(* whatever handlers interleave, calls fail or processes die.               *)
THEOREM OwnersTouch ==
    ASSUME ~BaseUrlMoves
    PROVE  Spec => EntriesTouchedByOwner
<1>1. Inv /\ Own /\ [Next]_vars =>
          [\A host \in Hosts : \A rid \in DOMAIN remote[host] : TouchedByOwner(host, rid)]_vars
  BY NextTouches
<1> QED
  BY <1>1, Ownership, PTL DEF Spec, EntriesTouchedByOwner

(* As long as no application's base URL moves, an existing entry is changed *)
(* only by a handler that read its application as fullSync, or by hand.     *)
THEOREM FullSyncTouches ==
    ASSUME ~BaseUrlMoves
    PROVE  Spec => OnlyFullSyncTouchesEntries
<1>1. Inv /\ Own /\ [Next]_vars =>
          [\A host \in Hosts : \A rid \in DOMAIN remote[host] : TouchedByFullSync(host, rid)]_vars
  BY NextTouches
<1> QED
  BY <1>1, Ownership, PTL DEF Spec, OnlyFullSyncTouchesEntries

----------------------------------------------------------------------------
(***************************************************************************)
(* Requests served one after the other: for any number of hosts,           *)
(* applications, indexers, requests and hand edits, when no base URL moves *)
(* and the only fault is a call the remote side refuses, the mapping table *)
(* knows every entry, a sync that reports success has made the application *)
(* mirror the indexers, and a removal leaves nothing.                      *)
(***************************************************************************)

\* One request at a time; what Sequential.cfg checks is OnlyRefused too.
OneAtATime == (\E h : Handlers = {h}) /\ ~BaseUrlMoves

OnlyRefused == FaultKinds \subseteq {"refused"}

\* A step in which no reply is lost, no statement fails and no handler is dropped.
NothingLost == ~Fault("lost") /\ ~Fault("db") /\ ~Fault("gone")

(***************************************************************************)
(* The invariant.  Entries(a, i) are those that stand for indexer i in     *)
(* application a, where its base URL points.                               *)
(***************************************************************************)
Entries(a, i) == {rid \in DOMAIN remote[apps[a].host] : remote[apps[a].host][rid].owner = <<a, i>>}

\* No entry stands for a pair of which an id is still to be given out.
OwnersExist ==
    \A host \in Hosts : \A rid \in DOMAIN remote[host] :
        \/ remote[host][rid].owner = Human
        \/ remote[host][rid].owner \in (1 .. nextApp - 1) \X (1 .. nextIndexer - 1)

\* Every entry is the one its mapping names, but for one whose POST returned and
\* whose mapping is not written yet.
Tracked(l, j) ==
    \A a \in DOMAIN apps, i \in DOMAIN indexers : \A rid \in Entries(a, i) :
        IF l = "save" /\ a = j.app /\ i = j.item THEN rid = j.rid
        ELSE <<a, i>> \in DOMAIN mapping /\ mapping[<<a, i>>] = rid

\* What a sync read is still so.
MappedAs(j, i) ==
    IF i \in DOMAIN j.known
    THEN <<j.app, i>> \in DOMAIN mapping /\ mapping[<<j.app, i>>] = j.known[i]
    ELSE <<j.app, i>> \notin DOMAIN mapping

Current(l, j) ==
    /\ l = "idle" => j = Fresh
    /\ \A a \in DOMAIN j.queue : a \in DOMAIN apps /\ j.queue[a] = apps[a]
    /\ l \in Working \cup {"maps"} => j.rows = indexers
    /\ l \in Working => j.doomed \cap j.todo = {} /\ \A i \in j.doomed \cup j.todo : MappedAs(j, i)
    /\ l = "unmap" => j.item \in j.doomed /\ Entries(j.app, j.item) = {}
    /\ l \in {"repost", "save"} => j.item \in j.todo
    /\ l = "repost" => j.item \in DOMAIN j.known /\ j.known[j.item] \notin DOMAIN remote[HostOf(j)]

\* What a removal has still to delete.
ToClean(j) ==
    \A a \in DOMAIN apps : apps[a].level = "fullSync" =>
        \A rid \in Entries(a, j.target) :
            a \in DOMAIN j.cleanup /\ j.cleanup[a] = [host |-> apps[a].host, rid |-> rid]

Removals == {"snapshot", "snapapps", "delete", "cleanup"}

Removing(l, j) ==
    /\ l \in Removals => j.scope = "one" /\ DOMAIN j.queue = {} /\ DOMAIN j.results = {}
    /\ l \in {"snapshot", "snapapps", "delete"} => j.target \in DOMAIN indexers
    /\ l = "snapapps" =>
         \A a \in DOMAIN apps : <<a, j.target>> \in DOMAIN mapping =>
             a \in DOMAIN j.held /\ j.held[a] = mapping[<<a, j.target>>]
    /\ l = "delete" => ToClean(j)
    /\ l = "cleanup" /\ faults = 0 => ToClean(j)

Followed(h) == OwnersExist /\ Tracked(pc[h], job[h]) /\ Current(pc[h], job[h]) /\ Removing(pc[h], job[h])

\* Application a shows indexer i as it is.
Shows(a, i) ==
    LET p == <<a, i>>
        entries == remote[apps[a].host]
    IN  IF indexers[i].enabled
        THEN indexers[i].kind = "cardigann" =>
                /\ p \in DOMAIN mapping /\ mapping[p] \in DOMAIN entries
                /\ entries[mapping[p]] = [owner |-> p, rev |-> indexers[i].rev]
        ELSE p \notin DOMAIN mapping /\ Entries(a, i) = {}

ShowsBut(a, S) == \A i \in DOMAIN indexers \ S : Shows(a, i)

\* A sync has shown every indexer it is done with, and every application it is
\* done with shows them all.
Progress(l, j) ==
    /\ l \in Working =>
         /\ \A i \in j.doomed \cap DOMAIN indexers : ~indexers[i].enabled
         /\ \A i \in j.todo : indexers[i].enabled
         /\ apps[j.app].level = "fullSync" => ShowsBut(j.app, j.doomed \cup j.todo)
    /\ l = "save" => /\ j.rid \in DOMAIN remote[HostOf(j)]
                     /\ remote[HostOf(j)][j.rid] = Payload(j, j.item)
    /\ DOMAIN j.queue \cap DOMAIN j.results = {}
    /\ l \in {"idle", "apps"} => DOMAIN j.results = {}
    /\ \A a \in DOMAIN j.results \cap DOMAIN apps :
          j.results[a] /\ apps[a].level = "fullSync" => ShowsBut(a, {})
    /\ j.scope = "all" /\ l \notin {"idle", "apps"} => DOMAIN apps \subseteq DOMAIN j.queue \cup DOMAIN j.results

Shown(h) == Progress(pc[h], job[h])

-----------------------------------------------------------------------------
(***************************************************************************)
(* A step that concerns one pair: entries and mappings of every other pair *)
(* stay as they are.                                                       *)
(***************************************************************************)
Only(p) ==
    /\ UNCHANGED <<apps, nextApp, indexers, nextIndexer>>
    /\ \A host \in Hosts : \A rid \in DOMAIN remote[host] :
          \/ remote[host][rid].owner = p
          \/ rid \in DOMAIN remote'[host] /\ remote'[host][rid] = remote[host][rid]
    /\ \A host \in Hosts : \A rid \in DOMAIN remote'[host] :
          \/ remote'[host][rid].owner = p
          \/ rid \in DOMAIN remote[host] /\ remote'[host][rid] = remote[host][rid]
    /\ \A q : q # p =>
          /\ q \in DOMAIN mapping' <=> q \in DOMAIN mapping
          /\ q \in DOMAIN mapping => mapping'[q] = mapping[q]

LEMMA StillOnly ==
    ASSUME UNCHANGED <<db, world>>, NEW p
    PROVE  Only(p)
BY DEF Only, db, world

LEMMA DeletedOnly ==
    ASSUME Inv, UNCHANGED db, NEW host \in Hosts, NEW rid, DeleteEntry(host, rid), NEW p,
           rid \in DOMAIN remote[host] => remote[host][rid].owner = p
    PROVE  Only(p)
<1>1. \A x \in Hosts : /\ DOMAIN remote'[x] = IF x = host THEN DOMAIN remote[x] \ {rid} ELSE DOMAIN remote[x]
                       /\ \A id \in DOMAIN remote'[x] : remote'[x][id] = remote[x][id]
  BY DEF DeleteEntry, Without, Restrict, Inv, WorldType
<1> QED
  BY <1>1 DEF Only, db

LEMMA CreatedOnly ==
    ASSUME Inv, UNCHANGED db, NEW host \in Hosts, NEW e,
           remote' = [remote EXCEPT ![host] = With(@, nextRid[host], e)]
    PROVE  Only(e.owner)
<1>1. nextRid[host] \in Nat /\ DOMAIN remote[host] \subseteq 1 .. nextRid[host] - 1
  BY DEF Inv, WorldType, IsTable
<1>2. nextRid[host] \notin DOMAIN remote[host]
  BY <1>1
<1>3. /\ DOMAIN remote'[host] = DOMAIN remote[host] \cup {nextRid[host]}
      /\ remote'[host][nextRid[host]] = e
      /\ \A id \in DOMAIN remote[host] : remote'[host][id] = remote[host][id]
      /\ \A x \in Hosts : x # host => remote'[x] = remote[x]
  BY <1>2 DEF With, Inv, WorldType
<1>4. \A x \in Hosts : \A id \in DOMAIN remote[x] :
         id \in DOMAIN remote'[x] /\ remote'[x][id] = remote[x][id]
  BY <1>3
<1>5. \A x \in Hosts : \A id \in DOMAIN remote'[x] :
         \/ remote'[x][id].owner = e.owner
         \/ id \in DOMAIN remote[x] /\ remote'[x][id] = remote[x][id]
  BY <1>3
<1>6. UNCHANGED <<apps, nextApp, indexers, nextIndexer, mapping>>
  BY DEF db
<1> QED
  BY <1>4, <1>5, <1>6 DEF Only

LEMMA RewrittenOnly ==
    ASSUME UNCHANGED db, NEW host \in Hosts, NEW rid, NEW p,
           \A x \in Hosts : /\ DOMAIN remote'[x] = DOMAIN remote[x]
                            /\ \A id \in DOMAIN remote[x] : (x = host /\ id = rid) \/ remote'[x][id] = remote[x][id],
           remote[host][rid].owner = p, remote'[host][rid].owner = p
    PROVE  Only(p)
BY DEF Only, db

LEMMA MappedOnly ==
    ASSUME UNCHANGED <<indexers, nextIndexer, apps, nextApp, world>>, NEW p, NEW x,
           mapping' = With(mapping, p, x) \/ mapping' = Without(mapping, {p})
    PROVE  Only(p)
<1>1. UNCHANGED remote
  BY DEF world
<1>2. \A q : q # p => /\ q \in DOMAIN mapping' <=> q \in DOMAIN mapping
                      /\ q \in DOMAIN mapping => mapping'[q] = mapping[q]
  BY DEF With, Without, Restrict
<1> QED
  BY <1>1, <1>2 DEF Only

LEMMA OnlyOwners ==
    ASSUME OwnersExist, NEW p, Only(p),
           p = Human \/ p \in (1 .. nextApp - 1) \X (1 .. nextIndexer - 1)
    PROVE  OwnersExist'
BY DEF OwnersExist, Only

\* Any other pair keeps its entries, its mapping, and what it shows.
LEMMA OnlyPair ==
    ASSUME Inv, NEW p, Only(p), NEW a \in DOMAIN apps, NEW i \in DOMAIN indexers, <<a, i>> # p
    PROVE  /\ Entries(a, i)' = Entries(a, i)
           /\ <<a, i>> \in DOMAIN mapping' <=> <<a, i>> \in DOMAIN mapping
           /\ <<a, i>> \in DOMAIN mapping => mapping'[<<a, i>>] = mapping[<<a, i>>]
           /\ Shows(a, i) => Shows(a, i)'
<1> DEFINE host == apps[a].host
<1>1. host \in Hosts
  BY DEF Inv, DbType, IsTable, AppRow
<1>2. UNCHANGED <<apps, indexers>>
  BY DEF Only
<1>3. Entries(a, i)' = Entries(a, i)
  <2>1. /\ Entries(a, i) = {rid \in DOMAIN remote[host] : remote[host][rid].owner = <<a, i>>}
        /\ Entries(a, i)' = {rid \in DOMAIN remote'[host] : remote'[host][rid].owner = <<a, i>>}
    BY <1>2 DEF Entries
  <2> HIDE DEF host
  <2>2. \A rid \in DOMAIN remote[host] : remote[host][rid].owner = <<a, i>> =>
            rid \in DOMAIN remote'[host] /\ remote'[host][rid] = remote[host][rid]
    BY <1>1 DEF Only
  <2>3. \A rid \in DOMAIN remote'[host] : remote'[host][rid].owner = <<a, i>> =>
            rid \in DOMAIN remote[host] /\ remote'[host][rid] = remote[host][rid]
    BY <1>1 DEF Only
  <2> QED
    BY <2>1, <2>2, <2>3
<1>4. /\ <<a, i>> \in DOMAIN mapping' <=> <<a, i>> \in DOMAIN mapping
      /\ <<a, i>> \in DOMAIN mapping => mapping'[<<a, i>>] = mapping[<<a, i>>]
  BY DEF Only
<1>5. \A rid \in DOMAIN remote[host] : remote[host][rid].owner = <<a, i>> =>
          rid \in DOMAIN remote'[host] /\ remote'[host][rid] = remote[host][rid]
  BY <1>1 DEF Only
<1>6. Shows(a, i) => Shows(a, i)'
  <2>1. CASE indexers[i].enabled
    <3> SUFFICES ASSUME /\ <<a, i>> \in DOMAIN mapping /\ mapping[<<a, i>>] \in DOMAIN remote[host]
                        /\ remote[host][mapping[<<a, i>>]] = [owner |-> <<a, i>>, rev |-> indexers[i].rev]
                 PROVE  /\ <<a, i>> \in DOMAIN mapping' /\ mapping'[<<a, i>>] \in DOMAIN remote'[host]
                        /\ remote'[host][mapping'[<<a, i>>]] = [owner |-> <<a, i>>, rev |-> indexers[i].rev]
      BY <1>2, <2>1 DEF Shows
    <3>1. remote[host][mapping[<<a, i>>]].owner = <<a, i>>
      OBVIOUS
    <3> QED
      BY <1>4, <1>5, <3>1
  <2>2. CASE ~indexers[i].enabled
    BY <1>2, <1>3, <1>4, <2>2 DEF Shows
  <2> QED
    BY <2>1, <2>2
<1> QED
  BY <1>3, <1>4, <1>6

-----------------------------------------------------------------------------
(***************************************************************************)
(* A sync at work on an application.                                       *)
(***************************************************************************)
LEMMA AtWork ==
    ASSUME Inv, NEW h \in Handlers, Followed(h), pc[h] \in Working
    PROVE  /\ job[h].app \in DOMAIN apps /\ HostOf(job[h]) = apps[job[h].app].host
           /\ HostOf(job[h]) \in Hosts
           /\ job[h].queue[job[h].app] = apps[job[h].app]
           /\ job[h].rows = indexers /\ job[h].doomed \cup job[h].todo \subseteq DOMAIN indexers
           /\ \A i \in DOMAIN indexers :
                 <<job[h].app, i>> \in (1 .. nextApp - 1) \X (1 .. nextIndexer - 1)
<1> DEFINE j == job[h]
<1>1. Shape(pc[h], j) /\ Current(pc[h], j)
  BY Locals DEF Followed
<1>2. j.app \in DOMAIN apps /\ j.queue[j.app] = apps[j.app] /\ j.rows = indexers
  BY <1>1 DEF Shape, Current
<1>3. apps[j.app].host \in Hosts /\ j.app \in 1 .. nextApp - 1 /\ DOMAIN indexers \subseteq 1 .. nextIndexer - 1
  BY <1>2 DEF Inv, DbType, IsTable, AppRow
<1>4. \A i \in j.doomed \cup j.todo : i \in DOMAIN indexers
  <2>1. \A i \in j.todo : i \in DOMAIN indexers
    BY <1>1, <1>2 DEF Shape
  <2>2. ASSUME NEW i \in j.doomed PROVE i \in DOMAIN indexers
    <3>1. i \in DOMAIN j.known /\ MappedAs(j, i)
      BY <1>1 DEF Shape, Current
    <3>2. <<j.app, i>> \in DOMAIN mapping
      BY <3>1 DEF MappedAs
    <3> QED
      BY <3>2 DEF Inv, MappingReferencesLiveRows
  <2> QED
    BY <2>1, <2>2
<1> QED
  BY <1>2, <1>3, <1>4 DEF HostOf

SameSync(h) ==
    /\ job'[h].scope = job[h].scope /\ job'[h].queue = job[h].queue
    /\ job'[h].results = job[h].results /\ job'[h].app = job[h].app
    /\ job'[h].rows = job[h].rows /\ job'[h].known = job[h].known

\* A step of the delete or the push loop for application b that concerns indexer k.
Works(h, b, k) ==
    /\ pc[h] \in Working /\ pc'[h] \in Working
    /\ b = job[h].app /\ SameSync(h) /\ Only(<<b, k>>)
    /\ job'[h].doomed \subseteq job[h].doomed /\ job'[h].todo \subseteq job[h].todo
    /\ k \in job[h].doomed \cup job[h].todo
    /\ k \in job'[h].doomed \cup job'[h].todo => UNCHANGED mapping
    /\ pc[h] = "save" => k = job[h].item
    /\ pc'[h] = "save" => k = job'[h].item
    /\ pc'[h] = "unmap" => job'[h].item \in job'[h].doomed
    /\ pc'[h] \in {"repost", "save"} => job'[h].item \in job'[h].todo

LEMMA WorksTracked ==
    ASSUME Inv, NEW h \in Handlers, Followed(h), NEW b, NEW k, Works(h, b, k),
           \A rid \in Entries(b, k)' :
               IF pc'[h] = "save" THEN rid = job'[h].rid
               ELSE <<b, k>> \in DOMAIN mapping' /\ mapping'[<<b, k>>] = rid
    PROVE  Tracked(pc[h], job[h])'
<1>1. Only(<<b, k>>) /\ job'[h].app = b /\ UNCHANGED <<apps, indexers>>
  BY DEF Works, SameSync, Only
<1>2. ASSUME NEW a \in DOMAIN apps, NEW i \in DOMAIN indexers, NEW rid \in Entries(a, i)'
      PROVE  IF pc'[h] = "save" /\ a = b /\ i = job'[h].item THEN rid = job'[h].rid
             ELSE <<a, i>> \in DOMAIN mapping' /\ mapping'[<<a, i>>] = rid
  <2>1. CASE a = b /\ i = k
    <3>1. rid \in Entries(b, k)'
      BY <2>1
    <3> QED
      BY <2>1, <3>1 DEF Works
  <2>2. CASE ~(a = b /\ i = k)
    <3>1. <<a, i>> # <<b, k>>
      BY <2>2
    <3>2. /\ rid \in Entries(a, i)
          /\ <<a, i>> \in DOMAIN mapping => <<a, i>> \in DOMAIN mapping' /\ mapping'[<<a, i>>] = mapping[<<a, i>>]
      BY <1>1, <3>1, OnlyPair
    <3>3. ~(pc[h] = "save" /\ a = job[h].app /\ i = job[h].item) /\ ~(pc'[h] = "save" /\ a = b /\ i = job'[h].item)
      BY <2>2 DEF Works
    <3>4. Tracked(pc[h], job[h])
      BY DEF Followed
    <3>5. <<a, i>> \in DOMAIN mapping /\ mapping[<<a, i>>] = rid
      BY <3>2, <3>3, <3>4 DEF Tracked
    <3> QED
      BY <3>2, <3>3, <3>5
  <2> QED
    BY <2>1, <2>2
<1>3. \A a \in DOMAIN apps, i \in DOMAIN indexers : \A rid \in Entries(a, i)' :
         IF pc'[h] = "save" /\ a = job'[h].app /\ i = job'[h].item THEN rid = job'[h].rid
         ELSE <<a, i>> \in DOMAIN mapping' /\ mapping'[<<a, i>>] = rid
  BY <1>1, <1>2
<1> QED
  BY <1>1, <1>3 DEF Tracked

LEMMA WorksFollowed ==
    ASSUME Inv, NEW h \in Handlers, Followed(h), NEW b, NEW k, Works(h, b, k),
           \A rid \in Entries(b, k)' :
               IF pc'[h] = "save" THEN rid = job'[h].rid
               ELSE <<b, k>> \in DOMAIN mapping' /\ mapping'[<<b, k>>] = rid,
           pc'[h] = "unmap" => job'[h].item = k /\ Entries(b, k)' = {},
           NEW host, host = HostOf(job[h]),
           pc'[h] = "repost" => /\ job'[h].item \in DOMAIN job[h].known
                                /\ job[h].known[job'[h].item] \notin DOMAIN remote'[host]
    PROVE  Followed(h)'
<1>1. /\ Only(<<b, k>>) /\ UNCHANGED <<apps, nextApp, indexers, nextIndexer>>
      /\ pc[h] \in Working /\ pc'[h] \in Working
      /\ pc'[h] \notin {"idle", "maps"} \cup Removals
  BY DEF Works, Only, Working, Removals
<1>2. k \in DOMAIN indexers /\ <<b, k>> \in (1 .. nextApp - 1) \X (1 .. nextIndexer - 1)
  BY AtWork DEF Works
<1>3. OwnersExist'
  BY <1>1, <1>2, OnlyOwners DEF Followed
<1>4. Removing(pc[h], job[h])'
  BY <1>1 DEF Removing, Removals
<1>5. Current(pc[h], job[h])
  BY DEF Followed
<1>6. \A i \in job'[h].doomed \cup job'[h].todo : MappedAs(job[h], i)'
  <2> SUFFICES ASSUME NEW i \in job'[h].doomed \cup job'[h].todo PROVE MappedAs(job[h], i)'
    OBVIOUS
  <2>1. MappedAs(job[h], i)
    BY <1>1, <1>5 DEF Works, Current
  <2>2. /\ <<b, i>> \in DOMAIN mapping' <=> <<b, i>> \in DOMAIN mapping
        /\ <<b, i>> \in DOMAIN mapping => mapping'[<<b, i>>] = mapping[<<b, i>>]
    <3>1. CASE i = k
      BY <3>1 DEF Works
    <3>2. CASE i # k
      BY <1>1, <3>2 DEF Only
    <3> QED
      BY <3>1, <3>2
  <2> QED
    BY <2>1, <2>2 DEF MappedAs, Works, SameSync
<1>7. Current(pc[h], job[h])'
  <2>1. job'[h].doomed \cap job'[h].todo = {}
    BY <1>1, <1>5 DEF Works, Current
  <2>2. /\ \A a \in DOMAIN job'[h].queue : a \in DOMAIN apps' /\ job'[h].queue[a] = apps'[a]
        /\ job'[h].rows = indexers'
    BY <1>1, <1>5 DEF Works, SameSync, Current
  <2>3. /\ pc'[h] = "unmap" => job'[h].item \in job'[h].doomed /\ Entries(b, k)' = {} /\ job'[h].item = k
        /\ pc'[h] = "repost" => /\ job'[h].item \in DOMAIN job'[h].known
                                /\ job'[h].known[job'[h].item] \notin DOMAIN remote'[HostOf(job'[h])]
    BY DEF Works, SameSync, HostOf
  <2>4. pc'[h] = "unmap" => job'[h].item \in job'[h].doomed /\ Entries(job[h].app, job[h].item)' = {}
    BY <2>3 DEF Works, SameSync
  <2> QED
    BY <1>1, <1>6, <2>1, <2>2, <2>3, <2>4 DEF Current, Works
<1>8. Tracked(pc[h], job[h])'
  BY WorksTracked
<1> QED
  BY <1>3, <1>4, <1>7, <1>8 DEF Followed

LEMMA WorksShown ==
    ASSUME Inv, NEW h \in Handlers, Followed(h), Shown(h), NEW b, NEW k, Works(h, b, k),
           NEW host, host = HostOf(job[h]),
           pc'[h] = "save" => /\ job'[h].rid \in DOMAIN remote'[host]
                              /\ remote'[host][job'[h].rid] = Payload(job[h], k),
           apps[b].level = "fullSync" /\ k \notin job'[h].doomed \cup job'[h].todo =>
               Shows(b, k)',
           (job[h].doomed \cup job[h].todo) \ {k} \subseteq job'[h].doomed \cup job'[h].todo
    PROVE  Shown(h)'
<1>1. /\ Only(<<b, k>>) /\ UNCHANGED <<apps, indexers>> /\ SameSync(h)
      /\ pc[h] \in Working /\ pc'[h] \in Working
  BY DEF Works, Only
<1>2. b \in DOMAIN apps /\ b \in DOMAIN job[h].queue /\ Progress(pc[h], job[h])
  <2>1. b = job[h].app /\ Shape(pc[h], job[h])
    BY Locals DEF Works
  <2> QED
    BY <1>1, <2>1, AtWork DEF Shape, Shown
<1>3. ASSUME apps[b].level = "fullSync", NEW i \in DOMAIN indexers,
             i \notin job'[h].doomed \cup job'[h].todo
      PROVE  Shows(b, i)'
  <2>1. CASE i = k
    BY <1>3, <2>1
  <2>2. CASE i # k
    <3>1. Shows(b, i)
      BY <1>1, <1>2, <1>3, <2>2 DEF Progress, ShowsBut, Works
    <3>2. <<b, i>> # <<b, k>>
      BY <2>2
    <3> QED
      BY <1>1, <1>2, <3>1, <3>2, OnlyPair
  <2> QED
    BY <2>1, <2>2
<1>4. ASSUME NEW a \in DOMAIN job[h].results \cap DOMAIN apps, job[h].results[a],
             apps[a].level = "fullSync", NEW i \in DOMAIN indexers
      PROVE  Shows(a, i)'
  <2>1. a # b /\ Shows(a, i)
    BY <1>2, <1>4 DEF Progress, ShowsBut
  <2>2. <<a, i>> # <<b, k>>
    BY <2>1
  <2> QED
    BY <1>1, <2>1, <2>2, OnlyPair
<1>5. pc'[h] = "save" => Payload(job'[h], job'[h].item) = Payload(job[h], k)
  BY <1>1 DEF Works, SameSync, Payload
<1>6. /\ \A i \in job'[h].doomed \cap DOMAIN indexers : ~indexers[i].enabled
      /\ \A i \in job'[h].todo : indexers[i].enabled
  BY <1>1, <1>2 DEF Works, Progress
<1>7. pc'[h] \notin {"idle", "apps"} /\ pc[h] \notin {"idle", "apps"}
  BY <1>1 DEF Working
<1>8. /\ apps'[job'[h].app].level = "fullSync" => ShowsBut(job[h].app, job[h].doomed \cup job[h].todo)'
      /\ \A a \in DOMAIN job'[h].results \cap DOMAIN apps' :
            job'[h].results[a] /\ apps'[a].level = "fullSync" => ShowsBut(a, {})'
  BY <1>1, <1>3, <1>4 DEF SameSync, ShowsBut, Works
<1>9. Progress(pc[h], job[h])'
  BY <1>1, <1>2, <1>5, <1>6, <1>7, <1>8 DEF Progress, SameSync, HostOf, Works
<1> QED
  BY <1>9 DEF Shown

-----------------------------------------------------------------------------
(***************************************************************************)
(* Steps that read, answer or begin a request.                             *)
(***************************************************************************)
AllMapped ==
    \A a \in DOMAIN apps, i \in DOMAIN indexers : \A rid \in Entries(a, i) :
        <<a, i>> \in DOMAIN mapping /\ mapping[<<a, i>>] = rid

LEMMA TrackedElsewhere ==
    ASSUME NEW l, NEW j, l # "save"
    PROVE  Tracked(l, j) <=> AllMapped
BY DEF Tracked, AllMapped

LEMMA TrackedThen ==
    ASSUME NEW h, pc'[h] # "save", AllMapped'
    PROVE  Tracked(pc[h], job[h])'
<1>1. \A l, j : l # "save" => (Tracked(l, j) <=> AllMapped)'
  BY DEF Tracked, AllMapped
<1> QED
  BY <1>1

LEMMA Went ==
    ASSUME Inv, NEW h \in Handlers, NEW l, NEW j, Goto(h, l, j)
    PROVE  pc'[h] = l /\ job'[h] = j
BY DEF Goto, Inv, HandlersType

\* Tables and entries that stay keep what was so of given locals.
LEMMA TablesStay ==
    ASSUME UNCHANGED <<apps, indexers, mapping, remote>>
    PROVE  /\ AllMapped => AllMapped'
           /\ \A l, j : Tracked(l, j) => Tracked(l, j)'
           /\ \A l, j : Current(l, j) => Current(l, j)'
           /\ \A l, j : (faults' = 0 => faults = 0) /\ Removing(l, j) => Removing(l, j)'
           /\ \A l, j : Progress(l, j) => Progress(l, j)'
<1>1. \A a, i : Entries(a, i)' = Entries(a, i)
  BY DEF Entries
<1>2. \A j, i : MappedAs(j, i)' <=> MappedAs(j, i)
  BY DEF MappedAs
<1>3. \A j : ToClean(j)' <=> ToClean(j)
  BY <1>1 DEF ToClean
<1>4. \A a, i : Shows(a, i)' <=> Shows(a, i)
  BY <1>1 DEF Shows
<1>5. \A a, S : ShowsBut(a, S)' <=> ShowsBut(a, S)
  BY <1>4 DEF ShowsBut
<1>6. \A j : HostOf(j)' = HostOf(j)
  BY DEF HostOf
<1>7. AllMapped => AllMapped'
  BY <1>1 DEF AllMapped
<1>8. ASSUME NEW l, NEW j, Tracked(l, j) PROVE Tracked(l, j)'
  <2> SUFFICES ASSUME NEW a \in DOMAIN apps', NEW i \in DOMAIN indexers', NEW rid \in Entries(a, i)'
               PROVE  IF l = "save" /\ a = j.app /\ i = j.item THEN rid = j.rid
                      ELSE <<a, i>> \in DOMAIN mapping' /\ mapping'[<<a, i>>] = rid
    BY DEF Tracked
  <2>1. rid \in Entries(a, i)
    BY <1>1
  <2> QED
    BY <1>8, <2>1 DEF Tracked
<1>9. \A l, j : Current(l, j) => Current(l, j)'
  BY <1>1, <1>2, <1>6 DEF Current
<1>10. \A l, j : (faults' = 0 => faults = 0) /\ Removing(l, j) => Removing(l, j)'
  BY <1>3 DEF Removing
<1>11. \A l, j : Progress(l, j) => Progress(l, j)'
  BY <1>5, <1>6 DEF Progress, Payload
<1> QED
  BY <1>7, <1>8, <1>9, <1>10, <1>11

\* The tables stay: what held of the new locals before the step holds after it.
LEMMA QuietStep ==
    ASSUME Inv, NEW h \in Handlers, Followed(h), UNCHANGED <<db, world>>, faults' = 0 => faults = 0,
           NEW l, NEW j, Goto(h, l, j), l # "save", pc[h] # "save", Current(l, j), Removing(l, j)
    PROVE  Followed(h)' /\ (Progress(l, j) => Shown(h)')
<1>1. UNCHANGED <<apps, nextApp, indexers, nextIndexer, mapping, remote>>
  BY DEF db, world
<1>2. pc'[h] = l /\ job'[h] = j
  BY Went
<1>3. OwnersExist'
  BY <1>1 DEF Followed, OwnersExist
<1>4. AllMapped
  BY TrackedElsewhere DEF Followed
<1>5. AllMapped'
  BY <1>1, <1>4, TablesStay
<1>6. Tracked(pc[h], job[h])'
  BY <1>2, <1>5 DEF Tracked, AllMapped
<1>7. Current(pc[h], job[h])'
  <2>1. Current(l, j)'
    BY <1>1, TablesStay
  <2> QED
    BY <1>2, <2>1
<1>8. Removing(pc[h], job[h])'
  <2>1. Removing(l, j)'
    BY <1>1, TablesStay
  <2> QED
    BY <1>2, <2>1
<1>9. ASSUME Progress(l, j) PROVE Shown(h)'
  <2>1. Progress(l, j)'
    BY <1>1, <1>9, TablesStay
  <2> QED
    BY <1>2, <2>1 DEF Shown
<1> QED
  BY <1>3, <1>6, <1>7, <1>8, <1>9 DEF Followed

LEMMA FreshFollows ==
    /\ Current("idle", Fresh) /\ Removing("idle", Fresh) /\ Progress("idle", Fresh)
BY EmptyTable DEF Current, Removing, Progress, Fresh, Working, Removals

LEMMA RespondSteps ==
    ASSUME Inv, NEW h \in Handlers, Followed(h), FinishSync(h) \/ FinishRemove(h)
    PROVE  Followed(h)' /\ Shown(h)'
<1>1. /\ Goto(h, "idle", Fresh) /\ UNCHANGED <<db, world>> /\ UNCHANGED faults
      /\ pc[h] # "save"
  BY DEF FinishSync, FinishRemove, Respond, counters
<1> QED
  BY <1>1, FreshFollows, QuietStep

LEMMA ListAppsFollows ==
    ASSUME Inv, NEW h \in Handlers, Followed(h), ListApps(h)
    PROVE  Followed(h)' /\ (Shown(h) => Shown(h)')
<1> DEFINE j == [job[h] EXCEPT !.queue = apps]
<1>1. pc[h] = "apps" /\ Goto(h, "rows", j) /\ UNCHANGED <<db, world>> /\ UNCHANGED faults
  BY DEF ListApps, counters
<1>2. j.queue = apps /\ j.results = job[h].results
  BY Locals DEF JobOK, Fresh
<1> HIDE DEF j
<1>3. Current("rows", j) /\ Removing("rows", j)
  BY <1>2 DEF Current, Removing, Working, Removals
<1>4. Shown(h) => Progress("rows", j)
  BY <1>1, <1>2 DEF Shown, Progress, Working
<1> QED
  BY <1>1, <1>3, <1>4, QuietStep

LEMMA ListIndexersFollows ==
    ASSUME Inv, NEW h \in Handlers, Followed(h), ListIndexers(h)
    PROVE  Followed(h)' /\ (Shown(h) => Shown(h)')
<1>1. pc[h] = "rows" /\ UNCHANGED <<db, world>> /\ UNCHANGED faults
  BY DEF ListIndexers, counters
<1>2. PICK a \in DOMAIN job[h].queue :
         \/ /\ job[h].queue[a].level = "disabled"
            /\ Goto(h, "rows", [job[h] EXCEPT !.queue = Without(job[h].queue, {a}),
                                              !.results = With(job[h].results, a, TRUE)])
         \/ Goto(h, "maps", [job[h] EXCEPT !.app = a, !.rows = indexers])
  BY DEF ListIndexers
<1> DEFINE q == Without(job[h].queue, {a})
           r == With(job[h].results, a, TRUE)
           j == [job[h] EXCEPT !.queue = q, !.results = r]
           k == [job[h] EXCEPT !.app = a, !.rows = indexers]
<1>3. DOMAIN q = DOMAIN job[h].queue \ {a} /\ \A b \in DOMAIN q : q[b] = job[h].queue[b]
  BY DEF Without, Restrict
<1>4. DOMAIN r = DOMAIN job[h].results \cup {a} /\ \A b \in DOMAIN r \ {a} : r[b] = job[h].results[b]
  BY DEF With
<1>5. (job[h].queue[a].level = "disabled" /\ Goto(h, "rows", j)) \/ Goto(h, "maps", k)
  BY <1>2
<1> HIDE DEF q, r
<1>6. j.queue = q /\ j.results = r /\ j.scope = job[h].scope
  BY Locals DEF JobOK, Fresh
<1>7. /\ k.queue = job[h].queue /\ k.results = job[h].results /\ k.scope = job[h].scope
      /\ k.rows = indexers
  BY Locals DEF JobOK, Fresh
<1> HIDE DEF j, k
<1>8. Current(pc[h], job[h])
  BY DEF Followed
<1>9. CASE job[h].queue[a].level = "disabled" /\ Goto(h, "rows", j)
  <2>1. apps[a].level = "disabled"
    BY <1>8, <1>9 DEF Current
  <2>2. Current("rows", j) /\ Removing("rows", j)
    BY <1>3, <1>6, <1>8 DEF Current, Removing, Working, Removals
  <2>3. Shown(h) => Progress("rows", j)
    BY <1>1, <1>3, <1>4, <1>6, <2>1 DEF Shown, Progress, Working
  <2> QED
    BY <1>1, <1>9, <2>2, <2>3, QuietStep
<1>10. CASE Goto(h, "maps", k)
  <2>1. Current("maps", k) /\ Removing("maps", k)
    BY <1>7, <1>8 DEF Current, Removing, Working, Removals
  <2>2. Shown(h) => Progress("maps", k)
    BY <1>1, <1>7 DEF Shown, Progress, Working
  <2> QED
    BY <1>1, <1>10, <2>1, <2>2, QuietStep
<1> QED
  BY <1>5, <1>9, <1>10

LEMMA ListMappingsFollows ==
    ASSUME Inv, NEW h \in Handlers, Followed(h), ListMappings(h)
    PROVE  Followed(h)' /\ (Shown(h) => Shown(h)')
<1> DEFINE app == job[h].app
           level == job[h].queue[app].level
           known == ForApp(app)
           doomed == Doomed(level, job[h].rows, known)
           todo == Pushed(level, job[h].rows, known)
           j == [job[h] EXCEPT !.known = known, !.doomed = doomed, !.todo = todo]
<1>1. pc[h] = "maps" /\ Goto(h, "push", j) /\ UNCHANGED <<db, world>> /\ UNCHANGED faults
  BY DEF ListMappings, counters
<1>2. Current(pc[h], job[h]) /\ Shape(pc[h], job[h]) /\ AllMapped
  BY <1>1, Locals, TrackedElsewhere DEF Followed
<1>3. job[h].rows = indexers /\ app \in DOMAIN apps /\ level = apps[app].level
  BY <1>1, <1>2 DEF Current, Shape
<1>4. /\ \A i : i \in DOMAIN known <=> <<app, i>> \in DOMAIN mapping
      /\ \A i \in DOMAIN known : known[i] = mapping[<<app, i>>] /\ i \in DOMAIN indexers
  <2> HIDE DEF app
  <2>1. \A i : <<app, i>> \in DOMAIN mapping => i \in DOMAIN known
    BY DEF ForApp
  <2>2. \A i \in DOMAIN known : known[i] = mapping[<<app, i>>] /\ <<app, i>> \in DOMAIN mapping
    BY ForAppRows DEF Inv, DbType
  <2>3. \A i : <<app, i>> \in DOMAIN mapping => i \in DOMAIN indexers
    BY DEF Inv, MappingReferencesLiveRows
  <2> QED
    BY <2>1, <2>2, <2>3
<1>5. /\ \A i \in doomed : i \in DOMAIN known /\ ~indexers[i].enabled
      /\ \A i \in todo : i \in DOMAIN indexers /\ indexers[i].enabled
      /\ level = "fullSync" =>
           \A i \in DOMAIN indexers \ (doomed \cup todo) :
               /\ indexers[i].enabled => indexers[i].kind # "cardigann"
               /\ ~indexers[i].enabled => i \notin DOMAIN known
  <2> HIDE DEF known, level
  <2> QED
    BY <1>3, <1>4 DEF Doomed, Pushed
<1> HIDE DEF known, doomed, todo
<1>6. /\ j.queue = job[h].queue /\ j.results = job[h].results /\ j.scope = job[h].scope
      /\ j.app = app /\ j.rows = job[h].rows /\ j.known = known /\ j.doomed = doomed /\ j.todo = todo
  BY Locals DEF JobOK, Fresh
<1> HIDE DEF j
<1>7. Current("push", j) /\ Removing("push", j)
  <2>1. \A i \in doomed \cup todo : MappedAs(j, i)
    BY <1>4, <1>6 DEF MappedAs
  <2>2. doomed \cap todo = {}
    BY <1>5
  <2> QED
    BY <1>1, <1>2, <1>3, <1>6, <2>1, <2>2 DEF Current, Removing, Working, Removals
<1>8. ASSUME apps[app].level = "fullSync" PROVE ShowsBut(app, doomed \cup todo)
  <2> SUFFICES ASSUME NEW i \in DOMAIN indexers \ (doomed \cup todo) PROVE Shows(app, i)
    BY DEF ShowsBut
  <2>1. CASE indexers[i].enabled
    BY <1>3, <1>5, <1>8, <2>1 DEF Shows
  <2>2. CASE ~indexers[i].enabled
    <3>1. <<app, i>> \notin DOMAIN mapping
      BY <1>3, <1>4, <1>5, <1>8, <2>2
    <3>2. Entries(app, i) = {}
      BY <1>2, <1>3, <3>1 DEF AllMapped
    <3> QED
      BY <2>2, <3>1, <3>2 DEF Shows
  <2> QED
    BY <2>1, <2>2
<1>9. ASSUME Shown(h) PROVE Progress("push", j)
  BY <1>1, <1>5, <1>6, <1>8, <1>9 DEF Shown, Progress
<1> QED
  BY <1>1, <1>7, <1>9, QuietStep

LEMMA SettleFollows ==
    ASSUME Inv, NEW h \in Handlers, Followed(h), UNCHANGED <<db, world>>, faults' = 0 => faults = 0,
           pc[h] \in {"push", "repost"}, NEW ok \in BOOLEAN, Settle(h, ok),
           ok => job[h].doomed = {} /\ job[h].todo = {}
    PROVE  Followed(h)' /\ (Shown(h) => Shown(h)')
<1> DEFINE app == job[h].app
           q == Without(job[h].queue, {app})
           r == With(job[h].results, app, ok)
           j == [Fresh EXCEPT !.scope = job[h].scope, !.queue = q, !.results = r]
<1>1. Goto(h, "rows", j)
  BY DEF Settle
<1>2. DOMAIN q = DOMAIN job[h].queue \ {app} /\ \A b \in DOMAIN q : q[b] = job[h].queue[b]
  BY DEF Without, Restrict
<1>3. /\ DOMAIN r = DOMAIN job[h].results \cup {app} /\ r[app] = ok
      /\ \A b \in DOMAIN r \ {app} : r[b] = job[h].results[b]
  BY DEF With
<1> HIDE DEF q, r
<1>4. j.queue = q /\ j.results = r /\ j.scope = job[h].scope
  BY DEF Fresh
<1> HIDE DEF j
<1>5. Current("rows", j) /\ Removing("rows", j)
  BY <1>2, <1>4 DEF Followed, Current, Removing, Working, Removals
<1>6. ASSUME Shown(h) PROVE Progress("rows", j)
  <2>1. Progress(pc[h], job[h]) /\ pc[h] \in Working /\ pc[h] \notin {"idle", "apps"}
    BY <1>6 DEF Shown, Working
  <2>2. ok /\ app \in DOMAIN apps /\ apps[app].level = "fullSync" => ShowsBut(app, {})
    BY <2>1 DEF Progress, ShowsBut
  <2>3. \A a \in DOMAIN r \cap DOMAIN apps : r[a] /\ apps[a].level = "fullSync" => ShowsBut(a, {})
    <3> SUFFICES ASSUME NEW a \in DOMAIN r \cap DOMAIN apps, r[a], apps[a].level = "fullSync"
                 PROVE  ShowsBut(a, {})
      OBVIOUS
    <3>1. CASE a = app
      BY <1>3, <2>2, <3>1
    <3>2. CASE a # app
      BY <1>3, <2>1, <3>2 DEF Progress
    <3> QED
      BY <3>1, <3>2
  <2>4. /\ DOMAIN q \cap DOMAIN r = {}
        /\ job[h].scope = "all" => DOMAIN apps \subseteq DOMAIN q \cup DOMAIN r
    BY <1>2, <1>3, <2>1 DEF Progress
  <2> QED
    BY <1>4, <2>3, <2>4 DEF Progress, Working
<1> QED
  BY <1>1, <1>5, <1>6, QuietStep

LEMMA EndAppFollows ==
    ASSUME Inv, NEW h \in Handlers, Followed(h), EndApp(h)
    PROVE  Followed(h)' /\ (Shown(h) => Shown(h)')
BY SettleFollows DEF EndApp, counters

LEMMA RemoveIndexerFollows ==
    ASSUME Inv, NEW h \in Handlers, Followed(h), RemoveIndexer(h)
    PROVE  Followed(h)' /\ (Shown(h) => Shown(h)')
<1>1. PICK i \in DOMAIN indexers : Goto(h, "snapshot", [Fresh EXCEPT !.target = i])
  BY DEF RemoveIndexer
<1> DEFINE j == [Fresh EXCEPT !.target = i]
<1>2. /\ pc[h] = "idle" /\ UNCHANGED <<db, world>> /\ UNCHANGED faults /\ Goto(h, "snapshot", j)
  BY <1>1 DEF RemoveIndexer, Accept
<1>3. j.queue = <<>> /\ j.results = <<>> /\ j.scope = "one" /\ j.target = i
  BY DEF Fresh
<1> HIDE DEF j
<1>4. Current("snapshot", j) /\ Removing("snapshot", j) /\ Progress("snapshot", j)
  BY <1>3, EmptyTable DEF Current, Removing, Progress, Working, Removals
<1> QED
  BY <1>2, <1>4, QuietStep

LEMMA SnapshotMappingsFollows ==
    ASSUME Inv, NEW h \in Handlers, Followed(h), SnapshotMappings(h)
    PROVE  Followed(h)' /\ (Shown(h) => Shown(h)')
<1> DEFINE target == job[h].target
           held == ForIndexer(target)
           j == [job[h] EXCEPT !.held = held]
<1>1. /\ pc[h] = "snapshot" /\ UNCHANGED <<db, world>> /\ UNCHANGED faults
      /\ Goto(h, IF DOMAIN held = {} THEN "delete" ELSE "snapapps", j)
  BY DEF SnapshotMappings, counters
<1>2. /\ \A a : <<a, target>> \in DOMAIN mapping => a \in DOMAIN held
      /\ \A a \in DOMAIN held : held[a] = mapping[<<a, target>>]
  <2> HIDE DEF target
  <2>1. \A a : <<a, target>> \in DOMAIN mapping => a \in DOMAIN held
    BY DEF ForIndexer
  <2> QED
    BY <2>1, ForIndexerRows DEF Inv, DbType
<1>3. AllMapped /\ Current(pc[h], job[h]) /\ Removing(pc[h], job[h])
  BY <1>1, TrackedElsewhere DEF Followed
<1> HIDE DEF held
<1>4. /\ j.held = held /\ j.target = target /\ j.queue = job[h].queue /\ j.results = job[h].results
      /\ j.scope = job[h].scope /\ j.cleanup = job[h].cleanup
  BY Locals DEF JobOK, Fresh
<1> HIDE DEF j
<1>5. /\ j.scope = "one" /\ DOMAIN j.queue = {} /\ DOMAIN j.results = {} /\ target \in DOMAIN indexers
  BY <1>1, <1>3, <1>4 DEF Removing, Removals
<1>6. \A l \in Removals : Current(l, j) /\ Progress(l, j)
  BY <1>5 DEF Current, Progress, Working, Removals
<1>7. CASE DOMAIN held = {}
  <2>1. ToClean(j)
    BY <1>2, <1>3, <1>4, <1>5, <1>7 DEF AllMapped, ToClean
  <2>2. Removing("delete", j)
    BY <1>4, <1>5, <2>1 DEF Removing
  <2> QED
    BY <1>1, <1>6, <1>7, <2>2, QuietStep DEF Removals
<1>8. CASE DOMAIN held # {}
  <2>1. Removing("snapapps", j)
    BY <1>2, <1>4, <1>5 DEF Removing
  <2> QED
    BY <1>1, <1>6, <1>8, <2>1, QuietStep DEF Removals
<1> QED
  BY <1>7, <1>8

LEMMA SnapshotAppsFollows ==
    ASSUME Inv, NEW h \in Handlers, Followed(h), SnapshotApps(h)
    PROVE  Followed(h)' /\ (Shown(h) => Shown(h)')
<1> DEFINE full == {a \in DOMAIN job[h].held \cap DOMAIN apps : apps[a].level = "fullSync"}
           c == [a \in full |-> [host |-> apps[a].host, rid |-> job[h].held[a]]]
           j == [job[h] EXCEPT !.cleanup = c]
<1>1. pc[h] = "snapapps" /\ UNCHANGED <<db, world>> /\ UNCHANGED faults /\ Goto(h, "delete", j)
  BY DEF SnapshotApps, counters
<1>2. AllMapped /\ Removing(pc[h], job[h])
  BY <1>1, TrackedElsewhere DEF Followed
<1>3. DOMAIN c = full /\ \A a \in full : c[a] = [host |-> apps[a].host, rid |-> job[h].held[a]]
  OBVIOUS
<1> HIDE DEF c
<1>4. /\ j.cleanup = c /\ j.target = job[h].target /\ j.queue = job[h].queue
      /\ j.results = job[h].results /\ j.scope = job[h].scope
  BY Locals DEF JobOK, Fresh
<1> HIDE DEF j
<1>5. /\ j.scope = "one" /\ DOMAIN j.queue = {} /\ DOMAIN j.results = {} /\ j.target \in DOMAIN indexers
  BY <1>1, <1>2, <1>4 DEF Removing, Removals
<1>6. ToClean(j)
  <2> SUFFICES ASSUME NEW a \in DOMAIN apps, apps[a].level = "fullSync", NEW rid \in Entries(a, j.target)
               PROVE  a \in DOMAIN c /\ c[a] = [host |-> apps[a].host, rid |-> rid]
    BY <1>4 DEF ToClean
  <2>1. <<a, j.target>> \in DOMAIN mapping /\ mapping[<<a, j.target>>] = rid
    BY <1>2, <1>5 DEF AllMapped
  <2>2. a \in DOMAIN job[h].held /\ job[h].held[a] = rid
    BY <1>1, <1>2, <1>4, <2>1 DEF Removing
  <2> QED
    BY <1>3, <2>2
<1>7. Current("delete", j) /\ Removing("delete", j) /\ Progress("delete", j)
  BY <1>5, <1>6 DEF Current, Removing, Progress, Working, Removals
<1> QED
  BY <1>1, <1>7, QuietStep

-----------------------------------------------------------------------------
(***************************************************************************)
(* Requests that write a row before their sync begins.                     *)
(***************************************************************************)
LEMMA Begun ==
    ASSUME NEW h, pc'[h] \in {"apps", "rows"}, OwnersExist', AllMapped',
           DOMAIN job'[h].results = {}, pc'[h] = "rows" => job'[h].scope = "one",
           \A a \in DOMAIN job'[h].queue : a \in DOMAIN apps' /\ job'[h].queue[a] = apps'[a]
    PROVE  Followed(h)' /\ Shown(h)'
<1>1. Tracked(pc[h], job[h])'
  <2>1. pc'[h] # "save"
    OBVIOUS
  <2> QED
    BY <2>1, TrackedThen
<1>2. pc'[h] \notin Working \cup Removals \cup {"idle", "maps"}
  BY DEF Working, Removals
<1>3. Current(pc[h], job[h])' /\ Removing(pc[h], job[h])'
  BY <1>2 DEF Current, Removing, Working, Removals
<1>4. Progress(pc[h], job[h])'
  BY <1>2 DEF Progress, Working
<1> QED
  BY <1>1, <1>3, <1>4 DEF Followed, Shown

\* No entry stands for an application or an indexer that is still to come.
LEMMA NotYet ==
    ASSUME Inv, OwnersExist, NEW host \in Hosts, NEW rid \in DOMAIN remote[host], NEW a, NEW i,
           remote[host][rid].owner = <<a, i>>, a # 0
    PROVE  a # nextApp /\ i # nextIndexer
<1>1. nextApp \in Nat /\ nextIndexer \in Nat
  BY DEF Inv, DbType
<1>2. <<a, i>> # Human
  BY DEF Human
<1>3. <<a, i>> \in (1 .. nextApp - 1) \X (1 .. nextIndexer - 1)
  BY <1>2 DEF OwnersExist
<1>4. a \in 1 .. nextApp - 1 /\ i \in 1 .. nextIndexer - 1
  BY <1>3
<1> QED
  BY <1>1, <1>4

LEMMA AppIds ==
    ASSUME Inv, NEW a \in DOMAIN apps
    PROVE  a # 0 /\ apps[a].host \in Hosts /\ a # nextApp
BY DEF Inv, DbType, IsTable, AppRow

LEMMA IndexerRequestsFollow ==
    ASSUME Inv, NEW h \in Handlers, Followed(h), CreateIndexer(h) \/ UpdateIndexer(h)
    PROVE  Followed(h)' /\ Shown(h)'
<1> DEFINE j == [Fresh EXCEPT !.scope = "all"]
<1>1. /\ pc[h] = "idle" /\ Goto(h, "apps", j) /\ UNCHANGED <<apps, nextApp, mapping, remote>>
  BY DEF CreateIndexer, UpdateIndexer, Accept, world
<1>2. DOMAIN j.results = {} /\ DOMAIN j.queue = {}
  BY EmptyTable DEF Fresh
<1> HIDE DEF j
<1>3. pc'[h] = "apps" /\ job'[h] = j
  BY <1>1, Went
<1>4. /\ DOMAIN indexers' \subseteq DOMAIN indexers \cup {nextIndexer}
      /\ nextIndexer \in Nat /\ nextIndexer' \in {nextIndexer, nextIndexer + 1} /\ nextApp \in Nat
  BY DEF CreateIndexer, UpdateIndexer, With, Inv, DbType
<1>5. OwnersExist /\ AllMapped
  BY <1>1, TrackedElsewhere DEF Followed
<1>6. OwnersExist'
  <2>1. (1 .. nextApp - 1) \X (1 .. nextIndexer - 1) \subseteq (1 .. nextApp - 1) \X (1 .. nextIndexer' - 1)
    BY <1>4
  <2> QED
    BY <1>1, <1>5, <2>1 DEF OwnersExist
<1>7. ASSUME NEW a \in DOMAIN apps, NEW i \in DOMAIN indexers', NEW rid \in Entries(a, i)
      PROVE  <<a, i>> \in DOMAIN mapping /\ mapping[<<a, i>>] = rid
  <2>1. i # nextIndexer
    BY <1>5, AppIds, NotYet DEF Entries
  <2> QED
    BY <1>4, <1>5, <2>1 DEF AllMapped
<1>8. AllMapped'
  <2>1. \A a \in DOMAIN apps, i \in DOMAIN indexers' : Entries(a, i)' = Entries(a, i)
    BY <1>1 DEF Entries
  <2> QED
    BY <1>1, <1>7, <2>1 DEF AllMapped
<1> QED
  BY <1>2, <1>3, <1>6, <1>8, Begun

LEMMA CreateAppFollows ==
    ASSUME Inv, NEW h \in Handlers, Followed(h), CreateApp(h)
    PROVE  Followed(h)' /\ Shown(h)'
<1>1. /\ pc[h] = "idle" /\ nextApp' = nextApp + 1
      /\ UNCHANGED <<indexers, nextIndexer, mapping, remote>>
  BY DEF CreateApp, Accept, world
<1>2. PICK row : apps' = With(apps, nextApp, row) /\ SyncOne(h, nextApp, row)
  BY DEF CreateApp
<1> DEFINE q == With(<<>>, nextApp, row)
           j == [Fresh EXCEPT !.queue = q]
<1>3. Goto(h, "rows", j)
  BY <1>2 DEF SyncOne
<1>4. DOMAIN q = {nextApp} /\ q[nextApp] = row
  BY EmptyTable DEF With
<1>5. /\ DOMAIN apps' = DOMAIN apps \cup {nextApp} /\ apps'[nextApp] = row
      /\ \A a \in DOMAIN apps \ {nextApp} : apps'[a] = apps[a]
  BY <1>2 DEF With
<1> HIDE DEF q
<1>6. j.queue = q /\ DOMAIN j.results = {} /\ j.scope = "one"
  BY EmptyTable DEF Fresh
<1> HIDE DEF j
<1>7. pc'[h] = "rows" /\ job'[h] = j
  BY <1>3, Went
<1>8. OwnersExist /\ AllMapped /\ nextApp \in Nat \ {0} /\ row.host \in Hosts
  <2>1. row.host \in Hosts
    BY <1>5, AppIds, CreateAppInv DEF Inv, DbType, IsTable, AppRow
  <2> QED
    BY <1>1, <2>1, TrackedElsewhere DEF Followed, Inv, DbType
<1>9. OwnersExist'
  <2>1. (1 .. nextApp - 1) \X (1 .. nextIndexer - 1) \subseteq (1 .. nextApp' - 1) \X (1 .. nextIndexer - 1)
    BY <1>1, <1>8
  <2> QED
    BY <1>1, <1>8, <2>1 DEF OwnersExist
<1>10. ASSUME NEW a \in DOMAIN apps', NEW i \in DOMAIN indexers,
              NEW rid \in DOMAIN remote[apps'[a].host], remote[apps'[a].host][rid].owner = <<a, i>>
       PROVE  <<a, i>> \in DOMAIN mapping /\ mapping[<<a, i>>] = rid
  <2>1. a # nextApp
    <3>1. CASE a = nextApp
      <4>1. apps'[a].host \in Hosts /\ a # 0
        BY <1>5, <1>8, <3>1
      <4>2. a # nextApp
        BY <1>8, <1>10, <4>1, NotYet
      <4> QED
        BY <3>1, <4>2
    <3> QED
      BY <3>1
  <2>2. a \in DOMAIN apps /\ rid \in Entries(a, i)
    BY <1>5, <1>10, <2>1 DEF Entries
  <2> QED
    BY <1>8, <2>2 DEF AllMapped
<1>11. AllMapped'
  BY <1>1, <1>10 DEF AllMapped, Entries
<1> QED
  BY <1>4, <1>5, <1>6, <1>7, <1>9, <1>11, Begun

LEMMA UpdateAppFollows ==
    ASSUME ~BaseUrlMoves, Inv, NEW h \in Handlers, Followed(h), UpdateApp(h)
    PROVE  Followed(h)' /\ Shown(h)'
<1>1. /\ pc[h] = "idle" /\ UNCHANGED <<nextApp, indexers, nextIndexer, mapping, remote>>
  BY DEF UpdateApp, Accept, world
<1>2. PICK a \in DOMAIN apps, row \in [level : AppLevels, host : Hosts] :
          row.host = apps[a].host /\ apps' = [apps EXCEPT ![a] = row] /\ SyncOne(h, a, row)
  BY DEF UpdateApp
<1> DEFINE q == With(<<>>, a, row)
           j == [Fresh EXCEPT !.queue = q]
<1>3. Goto(h, "rows", j)
  BY <1>2 DEF SyncOne
<1>4. DOMAIN q = {a} /\ q[a] = row
  BY EmptyTable DEF With
<1>5. /\ DOMAIN apps' = DOMAIN apps /\ apps'[a] = row
      /\ \A b \in DOMAIN apps : apps'[b].host = apps[b].host
  BY <1>2 DEF Inv, DbType, IsTable
<1> HIDE DEF q
<1>6. j.queue = q /\ DOMAIN j.results = {} /\ j.scope = "one"
  BY EmptyTable DEF Fresh
<1> HIDE DEF j
<1>7. pc'[h] = "rows" /\ job'[h] = j
  BY <1>3, Went
<1>8. OwnersExist /\ AllMapped
  BY <1>1, TrackedElsewhere DEF Followed
<1>9. OwnersExist' /\ AllMapped'
  BY <1>1, <1>5, <1>8 DEF OwnersExist, AllMapped, Entries
<1> QED
  BY <1>4, <1>5, <1>6, <1>7, <1>9, Begun

\* A step that leaves the handler idle.
LEMMA StaysIdle ==
    ASSUME Inv, NEW h \in Handlers, Followed(h), pc[h] = "idle", UNCHANGED <<pc, job>>, OwnersExist', AllMapped'
    PROVE  Followed(h)' /\ Shown(h)'
<1>1. pc'[h] = "idle" /\ job'[h] = Fresh
  BY DEF Followed, Current
<1>2. Tracked(pc[h], job[h])'
  BY <1>1 DEF Tracked, AllMapped
<1>3. Current(pc[h], job[h])' /\ Removing(pc[h], job[h])' /\ Progress(pc[h], job[h])'
  BY <1>1, EmptyTable DEF Current, Removing, Progress, Fresh, Working, Removals
<1> QED
  BY <1>2, <1>3 DEF Followed, Shown

LEMMA RemoveAppFollows ==
    ASSUME Inv, NEW h \in Handlers, Followed(h), RemoveApp(h)
    PROVE  Followed(h)' /\ Shown(h)'
<1>1. pc[h] = "idle" /\ UNCHANGED <<nextApp, indexers, nextIndexer, remote, pc, job>>
  BY DEF RemoveApp, Accept, world
<1>2. PICK a \in DOMAIN apps :
         apps' = Without(apps, {a}) /\ mapping' = Without(mapping, {p \in DOMAIN mapping : p[1] = a})
  BY DEF RemoveApp
<1>3. /\ DOMAIN apps' = DOMAIN apps \ {a} /\ \A b \in DOMAIN apps' : apps'[b] = apps[b]
      /\ \A b, i : b # a /\ <<b, i>> \in DOMAIN mapping =>
                       <<b, i>> \in DOMAIN mapping' /\ mapping'[<<b, i>>] = mapping[<<b, i>>]
  BY <1>2 DEF Without, Restrict
<1>4. OwnersExist /\ AllMapped
  BY <1>1, TrackedElsewhere DEF Followed
<1>5. OwnersExist' /\ AllMapped'
  BY <1>1, <1>3, <1>4 DEF OwnersExist, AllMapped, Entries
<1> QED
  BY <1>1, <1>5, StaysIdle

-----------------------------------------------------------------------------
(***************************************************************************)
(* Steps that can only take entries from a pair: those of a removal, and   *)
(* hand edits.                                                             *)
(***************************************************************************)
NothingNew ==
    /\ UNCHANGED <<apps, nextApp, indexers, nextIndexer>>
    /\ \A host \in Hosts : \A rid \in DOMAIN remote'[host] :
          \/ remote'[host][rid].owner = Human
          \/ rid \in DOMAIN remote[host] /\ remote'[host][rid] = remote[host][rid]

LEMMA NothingNewKeeps ==
    ASSUME Inv, NothingNew, OwnersExist
    PROVE  /\ OwnersExist'
           /\ \A a \in DOMAIN apps : \A i, rid : rid \in Entries(a, i)' => rid \in Entries(a, i)
<1>1. OwnersExist'
  BY DEF OwnersExist, NothingNew
<1>2. ASSUME NEW a \in DOMAIN apps, NEW i, NEW rid \in Entries(a, i)' PROVE rid \in Entries(a, i)
  <2> DEFINE host == apps[a].host
  <2>1. host \in Hosts /\ <<a, i>> # Human
    BY AppIds DEF Human
  <2>2. rid \in DOMAIN remote'[host] /\ remote'[host][rid].owner = <<a, i>>
    BY <1>2 DEF Entries, NothingNew
  <2>3. rid \in DOMAIN remote[host] /\ remote'[host][rid] = remote[host][rid]
    BY <2>1, <2>2 DEF NothingNew
  <2> QED
    BY <2>2, <2>3 DEF Entries
<1> QED
  BY <1>1, <1>2

LEMMA DeleteAddsNothing ==
    ASSUME Inv, UNCHANGED db, NEW host \in Hosts, NEW rid, DeleteEntry(host, rid)
    PROVE  /\ NothingNew /\ rid \notin DOMAIN remote'[host]
           /\ \A x \in Hosts : DOMAIN remote'[x] \subseteq DOMAIN remote[x]
BY DEF NothingNew, DeleteEntry, Without, Restrict, Inv, WorldType, db

LEMMA RemovalGoes ==
    ASSUME NEW h, pc'[h] \in Removals, job'[h].scope = "one", DOMAIN job'[h].queue = {},
           DOMAIN job'[h].results = {}, OwnersExist', AllMapped', Removing(pc[h], job[h])'
    PROVE  Followed(h)' /\ Shown(h)'
<1>1. Tracked(pc[h], job[h])'
  BY TrackedThen DEF Removals
<1>2. pc'[h] \notin Working \cup {"idle", "maps", "apps"}
  BY DEF Working, Removals
<1>3. Current(pc[h], job[h])' /\ Progress(pc[h], job[h])'
  BY <1>2 DEF Current, Progress, Working
<1> QED
  BY <1>1, <1>3 DEF Followed, Shown

LEMMA DeleteIndexerRowFollows ==
    ASSUME Inv, NEW h \in Handlers, Followed(h), DeleteIndexerRow(h)
    PROVE  Followed(h)' /\ Shown(h)'
<1> DEFINE j == job[h]
           k == j.target
<1>1. pc[h] = "delete" /\ UNCHANGED <<nextIndexer, apps, nextApp, remote>>
  BY DEF DeleteIndexerRow, world
<1>2. Removing("delete", j) /\ OwnersExist /\ AllMapped
  BY <1>1, TrackedElsewhere DEF Followed
<1>3. /\ indexers' = Without(indexers, {k})
      /\ mapping' = Without(mapping, {p \in DOMAIN mapping : p[2] = k})
      /\ Goto(h, "cleanup", j)
  BY <1>2 DEF DeleteIndexerRow, Removing
<1>4. pc'[h] = "cleanup" /\ job'[h] = j
  BY <1>3, Went
<1>5. /\ DOMAIN indexers' = DOMAIN indexers \ {k}
      /\ \A a, i : i # k /\ <<a, i>> \in DOMAIN mapping =>
                       <<a, i>> \in DOMAIN mapping' /\ mapping'[<<a, i>>] = mapping[<<a, i>>]
  <2> HIDE DEF k
  <2> QED
    BY <1>3 DEF Without, Restrict
<1>6. OwnersExist' /\ AllMapped'
  BY <1>1, <1>2, <1>5 DEF OwnersExist, AllMapped, Entries
<1>7. ToClean(j) /\ j.scope = "one" /\ DOMAIN j.queue = {} /\ DOMAIN j.results = {}
  BY <1>2 DEF Removing, Removals
<1>8. Removing(pc[h], job[h])'
  BY <1>1, <1>4, <1>7 DEF Removing, ToClean, Entries
<1> QED
  BY <1>4, <1>6, <1>7, <1>8, RemovalGoes DEF Removals

LEMMA NextDoomedFollows ==
    ASSUME Inv, NEW h \in Handlers, Followed(h), pc[h] = "cleanup", UNCHANGED mapping, NothingNew,
           NEW a \in DOMAIN job[h].cleanup, NextDoomed(h, a),
           faults' = 0 => /\ faults = 0
                          /\ job[h].cleanup[a].host \in Hosts
                          /\ job[h].cleanup[a].rid \notin DOMAIN remote'[job[h].cleanup[a].host]
    PROVE  Followed(h)' /\ Shown(h)'
<1> DEFINE c == Without(job[h].cleanup, {a})
           j == [job[h] EXCEPT !.cleanup = c]
<1>1. Goto(h, "cleanup", j)
  BY DEF NextDoomed
<1>2. DOMAIN c = DOMAIN job[h].cleanup \ {a} /\ \A b \in DOMAIN c : c[b] = job[h].cleanup[b]
  BY DEF Without, Restrict
<1> HIDE DEF c
<1>3. /\ j.cleanup = c /\ j.target = job[h].target /\ j.scope = job[h].scope
      /\ j.queue = job[h].queue /\ j.results = job[h].results
  BY Locals DEF JobOK, Fresh
<1> HIDE DEF j
<1>4. pc'[h] = "cleanup" /\ job'[h] = j
  BY <1>1, Went
<1>5. Removing("cleanup", job[h]) /\ OwnersExist /\ AllMapped
  BY TrackedElsewhere DEF Followed
<1>6. /\ OwnersExist' /\ UNCHANGED <<apps, indexers>>
      /\ \A b \in DOMAIN apps : \A i, rid : rid \in Entries(b, i)' => rid \in Entries(b, i)
  BY <1>5, NothingNewKeeps DEF NothingNew
<1>7. AllMapped'
  BY <1>5, <1>6 DEF AllMapped
<1>8. ASSUME faults' = 0, NEW b \in DOMAIN apps, apps[b].level = "fullSync",
             NEW k, k = job[h].target, NEW rid \in Entries(b, k)'
      PROVE  b \in DOMAIN c /\ c[b] = [host |-> apps[b].host, rid |-> rid]
  <2>1. b \in DOMAIN job[h].cleanup /\ job[h].cleanup[b] = [host |-> apps[b].host, rid |-> rid]
    <3>1. rid \in Entries(b, job[h].target)
      BY <1>6, <1>8
    <3> QED
      BY <1>5, <1>8, <3>1 DEF Removing, ToClean
  <2>2. rid \in DOMAIN remote'[apps[b].host]
    BY <1>6, <1>8 DEF Entries
  <2>3. b # a
    BY <1>8, <2>1, <2>2
  <2> QED
    BY <1>2, <2>1, <2>3
<1>9. faults' = 0 => ToClean(job[h])'
  <2> SUFFICES ASSUME faults' = 0, NEW b \in DOMAIN apps', apps'[b].level = "fullSync",
                      NEW rid \in Entries(b, job[h].target)'
               PROVE  /\ b \in DOMAIN job'[h].cleanup
                      /\ job'[h].cleanup[b] = [host |-> apps'[b].host, rid |-> rid]
    BY DEF ToClean
  <2> QED
    BY <1>3, <1>4, <1>6, <1>8
<1>10. j.scope = "one" /\ DOMAIN j.queue = {} /\ DOMAIN j.results = {}
  BY <1>3, <1>5 DEF Removing, Removals
<1>11. Removing(pc[h], job[h])'
  BY <1>4, <1>9, <1>10 DEF Removing
<1> QED
  BY <1>4, <1>6, <1>7, <1>10, <1>11, RemovalGoes DEF Removals

LEMMA CleanRemoteFollows ==
    ASSUME Inv, Own, NEW h \in Handlers, Followed(h), CleanRemote(h)
    PROVE  Followed(h)' /\ Shown(h)'
<1>1. PICK a \in DOMAIN job[h].cleanup :
          DeleteEntry(job[h].cleanup[a].host, job[h].cleanup[a].rid) /\ NextDoomed(h, a)
  BY DEF CleanRemote
<1>2. pc[h] = "cleanup" /\ UNCHANGED db /\ UNCHANGED faults /\ UNCHANGED mapping
  BY DEF CleanRemote, counters, db
<1>3. job[h].cleanup[a].host \in Hosts
  BY DEF Own, Owned, Names
<1>4. NothingNew /\ job[h].cleanup[a].rid \notin DOMAIN remote'[job[h].cleanup[a].host]
  BY <1>1, <1>2, <1>3, DeleteAddsNothing
<1> QED
  BY <1>1, <1>2, <1>3, <1>4, NextDoomedFollows

LEMMA CallRefusedFollows ==
    ASSUME Inv, NEW h \in Handlers, Followed(h), CallRefused(h)
    PROVE  Followed(h)' /\ (Shown(h) => Shown(h)')
<1>1. UNCHANGED <<db, world>> /\ faults' # 0
  BY DEF CallRefused, Fault, Inv, CountersType
<1>2. CASE pc[h] \in {"push", "repost"} /\ Settle(h, FALSE)
  BY <1>1, <1>2, SettleFollows
<1>3. CASE pc[h] = "cleanup" /\ \E a \in DOMAIN job[h].cleanup : NextDoomed(h, a)
  <2>1. NothingNew /\ UNCHANGED mapping
    BY <1>1 DEF NothingNew, db, world
  <2> QED
    BY <1>1, <1>3, <2>1, NextDoomedFollows
<1> QED
  BY <1>2, <1>3 DEF CallRefused

LEMMA HumanFollows ==
    ASSUME Inv, Own, NEW h \in Handlers, Followed(h), HumanDelete \/ HumanAdd
    PROVE  Followed(h)' /\ (~HumanWhileBusy => Shown(h)')
<1>1. UNCHANGED <<db, pc, job>> /\ UNCHANGED faults /\ (~HumanWhileBusy => pc[h] = "idle")
  BY DEF HumanDelete, HumanAdd, Edit
<1>2. \/ \E host \in Hosts : \E rid : DeleteEntry(host, rid)
      \/ \E host \in Hosts : remote' = [remote EXCEPT ![host] =
                                           With(@, nextRid[host], [owner |-> Human, rev |-> 0])]
  BY DEF HumanDelete, HumanAdd
<1>3. NothingNew
  <2>1. ASSUME NEW host \in Hosts,
               remote' = [remote EXCEPT ![host] = With(@, nextRid[host], [owner |-> Human, rev |-> 0])]
        PROVE  NothingNew
    <3> DEFINE e == [owner |-> Human, rev |-> 0]
    <3>1. Only(Human)
      <4>1. e.owner = Human /\ remote' = [remote EXCEPT ![host] = With(@, nextRid[host], e)]
        BY <2>1
      <4> HIDE DEF e
      <4> QED
        BY <1>1, <4>1, CreatedOnly
    <3> QED
      BY <3>1 DEF Only, NothingNew
  <2> QED
    BY <1>1, <1>2, <2>1, DeleteAddsNothing
<1>4. OwnersExist /\ Tracked(pc[h], job[h]) /\ Current(pc[h], job[h]) /\ Removing(pc[h], job[h])
  BY DEF Followed
<1>5. /\ OwnersExist' /\ UNCHANGED <<apps, indexers, mapping>>
      /\ \A a \in DOMAIN apps : \A i, rid : rid \in Entries(a, i)' => rid \in Entries(a, i)
  BY <1>1, <1>3, <1>4, NothingNewKeeps DEF NothingNew, db
<1>6. Tracked(pc[h], job[h])'
  <2>1. ASSUME NEW l, NEW j, Tracked(l, j) PROVE Tracked(l, j)'
    <3> SUFFICES ASSUME NEW a \in DOMAIN apps, NEW i \in DOMAIN indexers, NEW rid \in Entries(a, i)'
                 PROVE  IF l = "save" /\ a = j.app /\ i = j.item THEN rid = j.rid
                        ELSE <<a, i>> \in DOMAIN mapping' /\ mapping'[<<a, i>>] = rid
      BY <1>5 DEF Tracked
    <3>1. rid \in Entries(a, i)
      BY <1>5
    <3>2. IF l = "save" /\ a = j.app /\ i = j.item THEN rid = j.rid
          ELSE <<a, i>> \in DOMAIN mapping /\ mapping[<<a, i>>] = rid
      BY <2>1, <3>1 DEF Tracked
    <3> QED
      BY <1>5, <3>2
  <2>2. Tracked(pc'[h], job'[h])
    BY <1>1, <1>4
  <2> QED
    BY <2>1, <2>2
<1>7. Removing(pc[h], job[h])'
  <2>1. ToClean(job[h]) => ToClean(job[h])'
    BY <1>1, <1>5 DEF ToClean
  <2> QED
    BY <1>1, <1>4, <1>5, <2>1 DEF Removing
<1>8. ASSUME pc[h] = "repost"
      PROVE  job[h].known[job[h].item] \notin DOMAIN remote'[HostOf(job[h])]
  <2> DEFINE host == HostOf(job[h])
             rid == job[h].known[job[h].item]
  <2>1. host \in Hosts /\ rid \notin DOMAIN remote[host] /\ rid \in 1 .. nextRid[host] - 1
    BY <1>4, <1>8, AtWork DEF Current, Own, Owned, Names, Working
  <2>2. nextRid[host] \in Nat
    BY <2>1 DEF Inv, WorldType
  <2>3. \A x \in Hosts : DOMAIN remote'[x] \subseteq DOMAIN remote[x] \cup {nextRid[x]}
    <3>1. ASSUME NEW y \in Hosts, NEW e, remote' = [remote EXCEPT ![y] = With(@, nextRid[y], e)],
                 NEW x \in Hosts
          PROVE  DOMAIN remote'[x] \subseteq DOMAIN remote[x] \cup {nextRid[x]}
      BY <3>1 DEF With, Inv, WorldType
    <3>2. ASSUME NEW y \in Hosts, NEW id, DeleteEntry(y, id), NEW x \in Hosts
          PROVE  DOMAIN remote'[x] \subseteq DOMAIN remote[x] \cup {nextRid[x]}
      BY <1>1, <3>2, DeleteAddsNothing
    <3> QED
      BY <1>2, <3>1, <3>2
  <2> QED
    BY <2>1, <2>2, <2>3
<1>9. ASSUME pc[h] = "unmap", NEW a, NEW i, a = job[h].app, i = job[h].item PROVE Entries(a, i)' = {}
  BY <1>4, <1>5, <1>9, AtWork DEF Current, Working
<1>10. Current(pc[h], job[h])'
  <2>1. pc'[h] = "unmap" => Entries(job[h].app, job[h].item)' = {}
    BY <1>1, <1>9
  <2>2. pc'[h] = "repost" => job'[h].known[job'[h].item] \notin DOMAIN remote'[HostOf(job'[h])]
    BY <1>1, <1>8
  <2> QED
    BY <1>1, <1>4, <1>5, <2>1, <2>2 DEF Current, MappedAs
<1>11. ASSUME ~HumanWhileBusy PROVE Shown(h)'
  <2>1. AllMapped'
    BY <1>1, <1>6, <1>11 DEF Tracked, AllMapped
  <2> QED
    BY <1>1, <1>5, <1>11, <2>1, StaysIdle
<1> QED
  BY <1>5, <1>6, <1>7, <1>10, <1>11 DEF Followed

-----------------------------------------------------------------------------
(***************************************************************************)
(* The delete and the push loop.                                           *)
(***************************************************************************)
\* What a sync at work knows of an indexer it has still to handle.
LEMMA StillMapped ==
    ASSUME Inv, NEW h \in Handlers, Followed(h), pc[h] \in Working, pc[h] # "save"
    PROVE  \A i \in job[h].doomed \cup job[h].todo : \A rid \in Entries(job[h].app, i) :
              /\ i \in DOMAIN job[h].known /\ job[h].known[i] = rid
              /\ <<job[h].app, i>> \in DOMAIN mapping /\ mapping[<<job[h].app, i>>] = rid
<1> SUFFICES ASSUME NEW i \in job[h].doomed \cup job[h].todo, NEW rid \in Entries(job[h].app, i)
             PROVE  /\ i \in DOMAIN job[h].known /\ job[h].known[i] = rid
                    /\ <<job[h].app, i>> \in DOMAIN mapping /\ mapping[<<job[h].app, i>>] = rid
  OBVIOUS
<1> DEFINE b == job[h].app
<1>1. b \in DOMAIN apps /\ i \in DOMAIN indexers
  BY AtWork
<1>2. <<b, i>> \in DOMAIN mapping /\ mapping[<<b, i>>] = rid
  BY <1>1, TrackedElsewhere DEF Followed, AllMapped
<1>3. MappedAs(job[h], i)
  BY DEF Followed, Current
<1> QED
  BY <1>2, <1>3 DEF MappedAs

LEMMA DeleteRemoteFollows ==
    ASSUME Inv, Own, NEW h \in Handlers, Followed(h), NothingLost, DeleteRemote(h),
           NEW b, b = job[h].app, NEW host, host = HostOf(job[h])
    PROVE  Followed(h)' /\ (Shown(h) => Shown(h)')
<1>1. pc[h] = "push" /\ UNCHANGED db
  BY DEF DeleteRemote
<1>2. PICK k \in job[h].doomed :
          DeleteEntry(host, job[h].known[k]) /\ Goto(h, "unmap", [job[h] EXCEPT !.item = k])
  BY DEF DeleteRemote, NothingLost
<1> DEFINE j == [job[h] EXCEPT !.item = k]
           rid == job[h].known[k]
<1>3. Goto(h, "unmap", j)
  BY <1>2
<1>4. /\ j.scope = job[h].scope /\ j.queue = job[h].queue /\ j.results = job[h].results
      /\ j.app = job[h].app /\ j.rows = job[h].rows /\ j.known = job[h].known
      /\ j.doomed = job[h].doomed /\ j.todo = job[h].todo /\ j.item = k
  BY Locals DEF JobOK, Fresh
<1> HIDE DEF j
<1>5. pc'[h] = "unmap" /\ job'[h] = j
  BY <1>3, Went
<1>6. host \in Hosts /\ k \in DOMAIN job[h].known /\ b \in DOMAIN apps /\ host = apps[b].host
  BY <1>1, AtWork, Locals DEF Working, Shape
<1>7. Only(<<b, k>>)
  <2>1. rid \in DOMAIN remote[host] => remote[host][rid].owner = <<b, k>>
    BY <1>1, <1>6, KnownOwner DEF Working
  <2> HIDE DEF rid
  <2> QED
    BY <1>1, <1>2, <1>6, <2>1, DeletedOnly DEF rid
<1>8. Entries(b, k)' = {}
  <2> SUFFICES ASSUME NEW id \in Entries(b, k)' PROVE FALSE
    OBVIOUS
  <2>1. UNCHANGED apps /\ NothingNew /\ rid \notin DOMAIN remote'[host]
    BY <1>1, <1>2, <1>6, DeleteAddsNothing DEF db
  <2>2. id \in Entries(b, k)
    BY <1>6, <2>1, NothingNewKeeps DEF Followed
  <2>3. id = rid
    <3>1. \A i \in job[h].doomed \cup job[h].todo : \A x \in Entries(b, i) : job[h].known[i] = x
      BY <1>1, StillMapped DEF Working
    <3> QED
      BY <2>2, <3>1
  <2>4. id \in DOMAIN remote'[host]
    BY <1>6, <2>1 DEF Entries
  <2> QED
    BY <2>1, <2>3, <2>4
<1>9. Works(h, b, k)
  BY <1>1, <1>4, <1>5, <1>7 DEF Works, SameSync, Working, db
<1> QED
  BY <1>4, <1>5, <1>8, <1>9, WorksFollowed, WorksShown

LEMMA DropMappingFollows ==
    ASSUME Inv, NEW h \in Handlers, Followed(h), DropMapping(h),
           NEW b, b = job[h].app, NEW k, k = job[h].item, NEW host, host = HostOf(job[h])
    PROVE  Followed(h)' /\ (Shown(h) => Shown(h)')
<1> DEFINE j == [job[h] EXCEPT !.doomed = @ \ {k}, !.item = 0]
<1>1. /\ pc[h] = "unmap" /\ mapping' = Without(mapping, {<<b, k>>}) /\ Goto(h, "push", j)
      /\ UNCHANGED <<indexers, nextIndexer, apps, nextApp, world>>
  BY DEF DropMapping
<1>2. /\ j.scope = job[h].scope /\ j.queue = job[h].queue /\ j.results = job[h].results
      /\ j.app = job[h].app /\ j.rows = job[h].rows /\ j.known = job[h].known
      /\ j.doomed = job[h].doomed \ {k} /\ j.todo = job[h].todo
  BY Locals DEF JobOK, Fresh
<1> HIDE DEF j
<1>3. pc'[h] = "push" /\ job'[h] = j
  BY <1>1, Went
<1>4. k \in job[h].doomed /\ k \notin job[h].todo /\ Entries(b, k) = {}
  BY <1>1 DEF Followed, Current, Working
<1>5. b \in DOMAIN apps /\ k \in DOMAIN indexers
  BY <1>1, <1>4, AtWork DEF Working
<1>6. Only(<<b, k>>)
  BY <1>1, MappedOnly
<1>7. Entries(b, k)' = {}
  BY <1>1, <1>4 DEF Entries, world
<1>8. Works(h, b, k)
  BY <1>1, <1>2, <1>3, <1>4, <1>6 DEF Works, SameSync, Working
<1>9. Followed(h)'
  BY <1>3, <1>7, <1>8, WorksFollowed
<1>10. ASSUME Shown(h) PROVE Shown(h)'
  <2>1. ~indexers[k].enabled
    BY <1>1, <1>4, <1>5, <1>10 DEF Shown, Progress, Working
  <2>2. <<b, k>> \notin DOMAIN mapping'
    <3> DEFINE p == <<b, k>>
    <3>1. mapping' = Without(mapping, {p})
      BY <1>1
    <3> HIDE DEF p
    <3>2. p \notin DOMAIN mapping'
      BY <3>1 DEF Without, Restrict
    <3> QED
      BY <3>2 DEF p
  <2>3. Shows(b, k)'
    BY <1>1, <1>7, <2>1, <2>2 DEF Shows
  <2> QED
    BY <1>2, <1>3, <1>8, <1>10, <2>3, WorksShown
<1> QED
  BY <1>9, <1>10

LEMMA PostEntryFollows ==
    ASSUME Inv, NEW h \in Handlers, Followed(h), NothingLost,
           NEW k \in job[h].todo, pc[h] \in {"push", "repost"}, PostEntry(h, k),
           NEW b, b = job[h].app, NEW host, host = HostOf(job[h]), Entries(b, k) = {}
    PROVE  Followed(h)' /\ (Shown(h) => Shown(h)')
<1> DEFINE new == nextRid[host]
           e == Payload(job[h], k)
           j == [job[h] EXCEPT !.item = k, !.rid = new]
<1>1. /\ remote' = [remote EXCEPT ![host] = With(@, nextRid[host], e)]
      /\ Goto(h, "save", j) /\ UNCHANGED db
  BY DEF PostEntry, NothingLost
<1>2. host \in Hosts /\ b \in DOMAIN apps /\ host = apps[b].host /\ pc[h] \in Working
  BY AtWork DEF Working
<1>3. e.owner = <<b, k>>
  BY DEF Payload
<1> HIDE DEF e
<1>4. Only(<<b, k>>)
  BY <1>1, <1>2, <1>3, CreatedOnly
<1>5. /\ new \in DOMAIN remote'[host] /\ remote'[host][new] = e
      /\ DOMAIN remote'[host] \subseteq DOMAIN remote[host] \cup {new}
      /\ \A id \in DOMAIN remote[host] \ {new} : remote'[host][id] = remote[host][id]
  BY <1>1, <1>2 DEF With, Inv, WorldType
<1> HIDE DEF new
<1>6. /\ j.scope = job[h].scope /\ j.queue = job[h].queue /\ j.results = job[h].results
      /\ j.app = job[h].app /\ j.rows = job[h].rows /\ j.known = job[h].known
      /\ j.doomed = job[h].doomed /\ j.todo = job[h].todo /\ j.item = k /\ j.rid = new
  BY Locals DEF JobOK, Fresh
<1> HIDE DEF j
<1>7. pc'[h] = "save" /\ job'[h] = j
  BY <1>1, Went
<1>8. \A id \in Entries(b, k)' : id = new
  <2> SUFFICES ASSUME NEW id \in Entries(b, k)', id # new PROVE FALSE
    OBVIOUS
  <2>1. id \in DOMAIN remote'[host] /\ remote'[host][id].owner = <<b, k>>
    BY <1>1, <1>2 DEF Entries, db
  <2>2. id \in Entries(b, k)
    BY <1>2, <1>5, <2>1 DEF Entries
  <2> QED
    BY <2>2
<1>9. Works(h, b, k)
  BY <1>1, <1>2, <1>4, <1>6, <1>7 DEF Works, SameSync, Working, db
<1>10. Followed(h)'
  BY <1>6, <1>7, <1>8, <1>9, WorksFollowed
<1>11. ASSUME Shown(h) PROVE Shown(h)'
  <2>1. /\ job'[h].rid \in DOMAIN remote'[host] /\ remote'[host][job'[h].rid] = Payload(job[h], k)
        /\ k \in job'[h].todo
        /\ (job[h].doomed \cup job[h].todo) \ {k} \subseteq job'[h].doomed \cup job'[h].todo
    BY <1>5, <1>6, <1>7 DEF e
  <2> QED
    BY <1>9, <1>11, <2>1, WorksShown
<1> QED
  BY <1>10, <1>11

LEMMA PostsFollow ==
    ASSUME Inv, NEW h \in Handlers, Followed(h), NothingLost, Post(h) \/ Repost(h)
    PROVE  Followed(h)' /\ (Shown(h) => Shown(h)')
<1>1. PICK k : /\ PostEntry(h, k) /\ k \in job[h].todo
               /\ pc[h] \in {"push", "repost"}
               /\ \/ k \notin DOMAIN job[h].known
                  \/ job[h].known[k] \notin DOMAIN remote[HostOf(job[h])]
  BY DEF Post, Repost, Turn, Followed, Current
<1> DEFINE b == job[h].app
<1>2. Entries(b, k) = {}
  <2> SUFFICES ASSUME NEW rid \in Entries(b, k) PROVE FALSE
    OBVIOUS
  <2>1. k \in DOMAIN job[h].known /\ job[h].known[k] = rid
    <3>1. pc[h] \in Working /\ pc[h] # "save"
      BY <1>1 DEF Working
    <3>2. \A i \in job[h].doomed \cup job[h].todo : \A x \in Entries(job[h].app, i) :
             i \in DOMAIN job[h].known /\ job[h].known[i] = x
      BY <3>1, StillMapped
    <3> QED
      BY <1>1, <3>2
  <2>2. rid \in DOMAIN remote[HostOf(job[h])]
    BY <1>1, AtWork DEF Entries, Working
  <2> QED
    BY <1>1, <2>1, <2>2
<1> HIDE DEF b
<1> QED
  BY <1>1, <1>2, PostEntryFollows DEF b

LEMMA PutFollows ==
    ASSUME Inv, Own, NEW h \in Handlers, Followed(h), NothingLost, Put(h),
           NEW b, b = job[h].app, NEW host, host = HostOf(job[h])
    PROVE  Followed(h)' /\ (Shown(h) => Shown(h)')
<1>1. pc[h] = "push" /\ UNCHANGED db /\ UNCHANGED nextRid
  BY DEF Put, Turn
<1>2. PICK k \in job[h].todo \cap DOMAIN job[h].known :
         \/ /\ job[h].known[k] \in DOMAIN remote[host]
            /\ remote' = [remote EXCEPT ![host][job[h].known[k]] = Payload(job[h], k)]
            /\ Goto(h, "push", [job[h] EXCEPT !.todo = @ \ {k}])
         \/ /\ job[h].known[k] \notin DOMAIN remote[host]
            /\ Goto(h, "repost", [job[h] EXCEPT !.item = k]) /\ UNCHANGED remote
  BY DEF Put, NothingLost
<1>3. /\ host \in Hosts /\ b \in DOMAIN apps /\ host = apps[b].host /\ k \in DOMAIN indexers
      /\ job[h].rows = indexers /\ pc[h] \in Working
  BY <1>1, AtWork DEF Working
<1>4. MappedAs(job[h], k)
  BY <1>3 DEF Followed, Current
<1>5. <<b, k>> \in DOMAIN mapping /\ mapping[<<b, k>>] = job[h].known[k]
  BY <1>4 DEF MappedAs
<1>6. \A id \in Entries(b, k) : id = job[h].known[k]
  <2>1. \A i \in job[h].doomed \cup job[h].todo : \A x \in Entries(b, i) : job[h].known[i] = x
    BY <1>1, StillMapped DEF Working
  <2> QED
    BY <2>1
<1>7. CASE /\ job[h].known[k] \in DOMAIN remote[host]
           /\ remote' = [remote EXCEPT ![host][job[h].known[k]] = Payload(job[h], k)]
           /\ Goto(h, "push", [job[h] EXCEPT !.todo = @ \ {k}])
  <2> DEFINE rid == job[h].known[k]
             e == Payload(job[h], k)
             j == [job[h] EXCEPT !.todo = @ \ {k}]
  <2>1. /\ rid \in DOMAIN remote[host] /\ remote' = [remote EXCEPT ![host][rid] = e]
        /\ Goto(h, "push", j)
    BY <1>7
  <2>2. e.owner = <<b, k>> /\ remote[host][rid].owner = <<b, k>>
    BY <1>1, <1>7, KnownOwner DEF Payload, Working
  <2>3. e = [owner |-> <<b, k>>, rev |-> indexers[k].rev]
    BY <1>3 DEF Payload
  <2> HIDE DEF rid, e
  <2>4. Only(<<b, k>>) /\ DOMAIN remote'[host] = DOMAIN remote[host] /\ remote'[host][rid] = e
    <3>1. \A x \in Hosts :
             /\ DOMAIN remote'[x] = DOMAIN remote[x]
             /\ \A id \in DOMAIN remote[x] : (x = host /\ id = rid) \/ remote'[x][id] = remote[x][id]
      BY <1>3, <2>1 DEF Inv, WorldType
    <3>2. remote'[host][rid] = e
      BY <1>3, <2>1 DEF Inv, WorldType
    <3>3. remote'[host][rid].owner = <<b, k>>
      BY <2>2, <3>2
    <3>4. UNCHANGED db /\ host \in Hosts /\ remote[host][rid].owner = <<b, k>>
      BY <1>1, <1>3, <2>2
    <3>5. Only(<<b, k>>)
      BY <3>1, <3>3, <3>4, RewrittenOnly
    <3> QED
      BY <1>3, <3>1, <3>2, <3>5
  <2>5. /\ j.scope = job[h].scope /\ j.queue = job[h].queue /\ j.results = job[h].results
        /\ j.app = job[h].app /\ j.rows = job[h].rows /\ j.known = job[h].known
        /\ j.doomed = job[h].doomed /\ j.todo = job[h].todo \ {k}
    BY Locals DEF JobOK, Fresh
  <2> HIDE DEF j
  <2>6. pc'[h] = "push" /\ job'[h] = j
    BY <2>1, Went
  <2>7. \A id \in Entries(b, k)' : id = rid
    <3> SUFFICES ASSUME NEW id \in Entries(b, k)', id # rid PROVE FALSE
      OBVIOUS
    <3>1. id \in DOMAIN remote'[host] /\ remote'[host][id].owner = <<b, k>>
      BY <1>1, <1>3 DEF Entries, db
    <3>2. remote'[host][id] = remote[host][id]
      BY <1>3, <2>1 DEF Inv, WorldType
    <3>3. id \in Entries(b, k)
      BY <1>3, <2>4, <3>1, <3>2 DEF Entries
    <3> QED
      BY <1>6, <3>3 DEF rid
  <2>8. Works(h, b, k)
    BY <1>1, <2>4, <2>5, <2>6 DEF Works, SameSync, Working, db
  <2>9. \A id \in Entries(b, k)' : <<b, k>> \in DOMAIN mapping' /\ mapping'[<<b, k>>] = id
    BY <1>1, <1>5, <2>7 DEF db, rid
  <2>10. Followed(h)'
    BY <2>6, <2>8, <2>9, WorksFollowed
  <2>11. ASSUME Shown(h) PROVE Shown(h)'
    <3>1. indexers[k].enabled
      BY <1>3, <1>7, <2>11 DEF Shown, Progress
    <3>2. /\ <<b, k>> \in DOMAIN mapping' /\ mapping'[<<b, k>>] = rid
          /\ UNCHANGED <<apps, indexers>>
      BY <1>1, <1>5 DEF db, rid
    <3>3. Shows(b, k)'
      BY <1>3, <2>1, <2>3, <2>4, <3>1, <3>2 DEF Shows
    <3> QED
      BY <2>5, <2>6, <2>8, <2>11, <3>3, WorksShown
  <2> QED
    BY <2>10, <2>11
<1>8. CASE /\ job[h].known[k] \notin DOMAIN remote[host]
           /\ Goto(h, "repost", [job[h] EXCEPT !.item = k]) /\ UNCHANGED remote
  <2> DEFINE j == [job[h] EXCEPT !.item = k]
  <2>1. Goto(h, "repost", j)
    BY <1>8
  <2>2. /\ j.scope = job[h].scope /\ j.queue = job[h].queue /\ j.results = job[h].results
        /\ j.app = job[h].app /\ j.rows = job[h].rows /\ j.known = job[h].known
        /\ j.doomed = job[h].doomed /\ j.todo = job[h].todo /\ j.item = k
    BY Locals DEF JobOK, Fresh
  <2> HIDE DEF j
  <2>3. pc'[h] = "repost" /\ job'[h] = j
    BY <2>1, Went
  <2>4. Only(<<b, k>>)
    BY <1>1, <1>8, StillOnly DEF world
  <2>5. Works(h, b, k)
    BY <1>1, <2>2, <2>3, <2>4 DEF Works, SameSync, Working, db
  <2>6. \A id \in Entries(b, k)' : <<b, k>> \in DOMAIN mapping' /\ mapping'[<<b, k>>] = id
    <3>1. Entries(b, k)' = Entries(b, k) /\ UNCHANGED mapping
      BY <1>1, <1>8 DEF Entries, db
    <3> QED
      BY <1>5, <1>6, <3>1
  <2> QED
    BY <1>8, <2>2, <2>3, <2>5, <2>6, WorksFollowed, WorksShown
<1> QED
  BY <1>2, <1>7, <1>8

LEMMA SaveMappingFollows ==
    ASSUME Inv, NEW h \in Handlers, Followed(h), SaveMapping(h),
           NEW b, b = job[h].app, NEW k, k = job[h].item, NEW rid, rid = job[h].rid,
           NEW host, host = HostOf(job[h])
    PROVE  Followed(h)' /\ (Shown(h) => Shown(h)')
<1> DEFINE j == [job[h] EXCEPT !.todo = @ \ {k}, !.item = 0, !.rid = 0]
<1>1. pc[h] = "save" /\ pc[h] \in Working
  BY DEF SaveMapping, Working
<1>2. /\ b \in DOMAIN apps /\ k \in DOMAIN indexers /\ k \in job[h].todo /\ k \notin job[h].doomed
      /\ host = apps[b].host /\ job[h].rows = indexers
  BY <1>1, AtWork DEF Followed, Current
<1>3. /\ mapping' = With(mapping, <<b, k>>, rid) /\ Goto(h, "push", j)
      /\ UNCHANGED <<indexers, nextIndexer, apps, nextApp, world>>
  BY <1>2 DEF SaveMapping, ParentsExist, Upsert
<1>4. /\ j.scope = job[h].scope /\ j.queue = job[h].queue /\ j.results = job[h].results
      /\ j.app = job[h].app /\ j.rows = job[h].rows /\ j.known = job[h].known
      /\ j.doomed = job[h].doomed /\ j.todo = job[h].todo \ {k}
  BY Locals DEF JobOK, Fresh
<1> HIDE DEF j
<1>5. pc'[h] = "push" /\ job'[h] = j
  BY <1>3, Went
<1>6. Only(<<b, k>>)
  BY <1>3, MappedOnly
<1>7. <<b, k>> \in DOMAIN mapping' /\ mapping'[<<b, k>>] = rid
  BY <1>3 DEF With
<1>8. \A id \in Entries(b, k)' : id = rid
  <2>1. Entries(b, k)' = Entries(b, k)
    BY <1>3 DEF Entries, world
  <2>2. Tracked(pc[h], job[h])
    BY DEF Followed
  <2>3. \A id \in Entries(b, k) : id = rid
    <3> SUFFICES ASSUME NEW id \in Entries(b, k) PROVE id = rid
      OBVIOUS
    <3>1. IF pc[h] = "save" /\ b = job[h].app /\ k = job[h].item THEN id = job[h].rid
          ELSE <<b, k>> \in DOMAIN mapping /\ mapping[<<b, k>>] = id
      BY <1>2, <2>2 DEF Tracked
    <3> QED
      BY <1>1, <3>1
  <2> QED
    BY <2>1, <2>3
<1>9. Works(h, b, k)
  BY <1>1, <1>2, <1>4, <1>5, <1>6 DEF Works, SameSync, Working
<1>10. Followed(h)'
  BY <1>5, <1>7, <1>8, <1>9, WorksFollowed
<1>11. ASSUME Shown(h) PROVE Shown(h)'
  <2>1. /\ indexers[k].enabled /\ rid \in DOMAIN remote[host]
        /\ remote[host][rid] = [owner |-> <<b, k>>, rev |-> indexers[k].rev]
    BY <1>1, <1>2, <1>11 DEF Shown, Progress, Payload
  <2>2. UNCHANGED <<apps, indexers, remote>>
    BY <1>3 DEF world
  <2>3. Shows(b, k)'
    BY <1>2, <1>7, <2>1, <2>2 DEF Shows
  <2> QED
    BY <1>4, <1>5, <1>9, <1>11, <2>3, WorksShown
<1> QED
  BY <1>10, <1>11

-----------------------------------------------------------------------------
(***************************************************************************)
(* The invariance theorem.                                                 *)
(***************************************************************************)
LEMMA InitFollows ==
    ASSUME NEW h \in Handlers
    PROVE  Init => Followed(h) /\ Shown(h)
<1> SUFFICES ASSUME Init PROVE Followed(h) /\ Shown(h)
  OBVIOUS
<1>1. pc[h] = "idle" /\ job[h] = Fresh
  BY DEF Init
<1>2. DOMAIN indexers = {} /\ \A host \in Hosts : DOMAIN remote[host] = {}
  BY EmptyTable DEF Init
<1>3. OwnersExist /\ Tracked(pc[h], job[h])
  BY <1>2 DEF OwnersExist, Tracked
<1> QED
  BY <1>1, <1>3, FreshFollows DEF Followed, Shown

LEMMA RequestFollows ==
    ASSUME ~BaseUrlMoves, Inv, NEW h \in Handlers, Followed(h), Request(h)
    PROVE  Followed(h)' /\ (Shown(h) => Shown(h)')
BY IndexerRequestsFollow, RemoveIndexerFollows, CreateAppFollows, UpdateAppFollows, RemoveAppFollows
   DEF Request

LEMMA SyncStepFollows ==
    ASSUME NothingLost, Inv, Own, NEW h \in Handlers, Followed(h), SyncStep(h)
    PROVE  Followed(h)' /\ (Shown(h) => Shown(h)')
<1>1. CASE DeleteRemote(h)
  BY <1>1, DeleteRemoteFollows
<1>2. CASE DropMapping(h)
  BY <1>2, DropMappingFollows
<1>3. CASE Put(h)
  BY <1>3, PutFollows
<1>4. CASE SaveMapping(h)
  BY <1>4, SaveMappingFollows
<1>5. CASE Post(h) \/ Repost(h)
  BY <1>5, PostsFollow
<1>6. CASE ListApps(h) \/ ListIndexers(h) \/ ListMappings(h) \/ FinishSync(h) \/ EndApp(h)
  BY <1>6, ListAppsFollows, ListIndexersFollows, ListMappingsFollows, RespondSteps, EndAppFollows
<1> QED
  BY <1>1, <1>2, <1>3, <1>4, <1>5, <1>6 DEF SyncStep

LEMMA RemoveStepFollows ==
    ASSUME Inv, Own, NEW h \in Handlers, Followed(h), RemoveStep(h)
    PROVE  Followed(h)' /\ (Shown(h) => Shown(h)')
BY SnapshotMappingsFollows, SnapshotAppsFollows, DeleteIndexerRowFollows, CleanRemoteFollows,
   RespondSteps DEF RemoveStep

LEMMA OnlyRefusals ==
    ASSUME NothingLost, NEW h, Failure(h)
    PROVE  CallRefused(h)
BY DEF Failure, StatementFails, HandlerGone, NothingLost

LEMMA StutterFollows ==
    ASSUME NEW h, Followed(h), UNCHANGED vars
    PROVE  Followed(h)' /\ (Shown(h) => Shown(h)')
<1>1. /\ UNCHANGED <<indexers, nextIndexer, apps, nextApp, mapping, remote, nextRid>>
      /\ UNCHANGED <<pc, job, faults>>
  BY DEF vars, db, world, counters
<1>2. OwnersExist'
  BY <1>1 DEF Followed, OwnersExist
<1>3. /\ Tracked(pc[h], job[h])' /\ Current(pc[h], job[h])' /\ Removing(pc[h], job[h])'
      /\ Shown(h) => Shown(h)'
  <2>1. Tracked(pc[h], job[h]) /\ Current(pc[h], job[h]) /\ Removing(pc[h], job[h])
    BY DEF Followed
  <2>2. /\ Tracked(pc'[h], job'[h]) /\ Current(pc'[h], job'[h]) /\ Removing(pc'[h], job'[h])
        /\ Shown(h) => Progress(pc'[h], job'[h])
    BY <1>1, <2>1 DEF Shown
  <2>3. /\ \A l, j : Tracked(l, j) => Tracked(l, j)'
        /\ \A l, j : Current(l, j) => Current(l, j)'
        /\ \A l, j : Removing(l, j) => Removing(l, j)'
        /\ \A l, j : Progress(l, j) => Progress(l, j)'
    BY <1>1, TablesStay
  <2> QED
    BY <2>2, <2>3 DEF Shown
<1> QED
  BY <1>2, <1>3 DEF Followed

AllFollowed == \A h \in Handlers : Followed(h)
AllShown == \A h \in Handlers : Shown(h)

LEMMA NextFollows ==
    ASSUME OneAtATime, NothingLost, Inv, Own, AllFollowed, [Next]_vars
    PROVE  AllFollowed' /\ (~HumanWhileBusy /\ AllShown => AllShown')
<1>1. PICK h : Handlers = {h}
  BY DEF OneAtATime
<1>2. h \in Handlers /\ Followed(h) /\ ~BaseUrlMoves
  BY <1>1 DEF OneAtATime, AllFollowed
<1>3. CASE Request(h)
  BY <1>1, <1>2, <1>3, RequestFollows DEF AllFollowed, AllShown
<1>4. CASE SyncStep(h)
  BY <1>1, <1>2, <1>4, SyncStepFollows DEF AllFollowed, AllShown
<1>5. CASE RemoveStep(h)
  BY <1>1, <1>2, <1>5, RemoveStepFollows DEF AllFollowed, AllShown
<1>6. CASE Failure(h)
  BY <1>1, <1>2, <1>6, OnlyRefusals, CallRefusedFollows DEF AllFollowed, AllShown
<1>7. CASE HumanDelete \/ HumanAdd
  BY <1>1, <1>2, <1>7, HumanFollows DEF AllFollowed, AllShown
<1>8. CASE UNCHANGED vars
  BY <1>1, <1>2, <1>8, StutterFollows DEF AllFollowed, AllShown
<1> QED
  BY <1>1, <1>3, <1>4, <1>5, <1>6, <1>7, <1>8 DEF Next

LEMMA NothingIsLost ==
    ASSUME OnlyRefused \/ (CountersType /\ faults' = 0)
    PROVE  NothingLost
BY DEF OnlyRefused, NothingLost, Fault, CountersType

\* With refusals only, the invariant holds for ever.
THEOREM SequentialInvariance ==
    ASSUME OneAtATime, OnlyRefused
    PROVE  Spec => [](Inv /\ Own /\ AllFollowed)
<1>1. Init => AllFollowed
  BY InitFollows DEF AllFollowed
<1>2. Inv /\ Own /\ AllFollowed /\ [Next]_vars => AllFollowed'
  BY NextFollows, NothingIsLost
<1>3. Spec => [](Inv /\ Own)
  BY Ownership DEF OneAtATime
<1> QED
  BY <1>1, <1>2, <1>3, PTL DEF Spec

LEMMA FaultsOnlyRise ==
    ASSUME Inv, [Next]_vars, faults' = 0
    PROVE  faults = 0
<1>1. ASSUME NEW kind, Fault(kind) PROVE FALSE
  BY <1>1 DEF Fault, Inv, CountersType
<1>2. ASSUME NEW h \in Handlers, Request(h) PROVE UNCHANGED faults
  BY <1>2 DEF Request, CreateIndexer, UpdateIndexer, RemoveIndexer, CreateApp, UpdateApp, RemoveApp, Accept
<1>3. ASSUME NEW h \in Handlers, SyncStep(h) PROVE UNCHANGED faults
  <2>1. CASE DeleteRemote(h) \/ Put(h)
    BY <1>1, <2>1 DEF DeleteRemote, Put, counters
  <2>2. CASE Post(h) \/ Repost(h)
    BY <1>1, <2>2 DEF Post, Repost, PostEntry, counters
  <2>3. CASE \/ ListApps(h) \/ ListIndexers(h) \/ ListMappings(h) \/ FinishSync(h)
             \/ DropMapping(h) \/ SaveMapping(h) \/ EndApp(h)
    BY <2>3 DEF ListApps, ListIndexers, ListMappings, FinishSync, DropMapping, SaveMapping, EndApp, counters
  <2> QED
    BY <1>3, <2>1, <2>2, <2>3 DEF SyncStep
<1>4. ASSUME NEW h \in Handlers, RemoveStep(h) PROVE UNCHANGED faults
  BY <1>4 DEF RemoveStep, SnapshotMappings, SnapshotApps, DeleteIndexerRow, CleanRemote, FinishRemove, counters
<1>5. ASSUME NEW h \in Handlers, Failure(h) PROVE FALSE
  BY <1>1, <1>5 DEF Failure, CallRefused, StatementFails, HandlerGone
<1>6. HumanDelete \/ HumanAdd \/ UNCHANGED vars => UNCHANGED faults
  BY DEF HumanDelete, HumanAdd, Edit, vars, counters
<1> QED
  BY <1>2, <1>3, <1>4, <1>5, <1>6 DEF Next

\* Whatever can fail, the invariant holds until something has.
THEOREM UntilTheFirstFault ==
    ASSUME OneAtATime
    PROVE  Spec => [](Inv /\ Own /\ (faults = 0 => AllFollowed))
<1>1. Init => AllFollowed
  BY InitFollows DEF AllFollowed
<1>2. Inv /\ [Next]_vars => (faults' = 0 => faults = 0)
  BY FaultsOnlyRise
<1>3. Inv /\ Own /\ (faults = 0 => AllFollowed) /\ [Next]_vars => (faults = 0 => AllFollowed)'
  BY <1>2, NextFollows, NothingIsLost DEF Inv
<1>4. Spec => [](Inv /\ Own)
  BY Ownership DEF OneAtATime
<1> QED
  BY <1>1, <1>3, <1>4, PTL DEF Spec

\* With requests served one after the other and no reply lost, every entry
\* that stands for an application and an indexer is the one the mapping table
\* names once the request is answered, whatever calls were refused and
\* whatever was edited by hand meanwhile (sync.rs, Ownership).
THEOREM EntriesAreMapped ==
    ASSUME OneAtATime, OnlyRefused
    PROVE  Spec => []EveryEntryIsMapped
<1>1. AllFollowed => EveryEntryIsMapped
  <2> SUFFICES ASSUME AllFollowed, AllIdle PROVE AllMapped
    BY DEF EveryEntryIsMapped, AllMapped, Entries
  <2>1. PICK h \in Handlers : pc[h] = "idle"
    BY DEF AllIdle, OneAtATime
  <2> QED
    BY <2>1, TrackedElsewhere DEF AllFollowed, Followed
<1> QED
  BY <1>1, SequentialInvariance, PTL

\* Of whatever kind the faults to come are: as long as none has happened, a
\* DELETE /indexer/{id} leaves no entry of the indexer in any fullSync
\* application, even one edited by hand meanwhile (api/indexers.rs,
\* delete_indexer).
THEOREM RemovalsLeaveNothing ==
    ASSUME OneAtATime
    PROVE  Spec => RemovalLeavesNothing
<1> DEFINE Calm == faults = 0 => AllFollowed
<1>1. ASSUME Inv, Calm, [Next]_vars,
             NEW h \in Handlers, pc[h] = "cleanup", pc'[h] = "idle", faults' = 0
      PROVE  \A a \in DOMAIN apps : apps[a].level = "fullSync" => Entries(a, job[h].target) = {}
  <2>1. Handlers = {h} /\ NothingLost
    BY <1>1, NothingIsLost DEF OneAtATime, Inv
  <2>2. ~(\E a : NextDoomed(h, a))
    BY <1>1 DEF NextDoomed, Goto, Inv, HandlersType
  <2>3. ~CallRefused(h) /\ ~Request(h) /\ ~SyncStep(h)
    BY <1>1, <2>2 DEF CallRefused, Request, SyncStep, CreateIndexer, UpdateIndexer, RemoveIndexer, CreateApp,
       UpdateApp, RemoveApp, Accept, ListApps, ListIndexers, ListMappings, FinishSync, DeleteRemote,
       DropMapping, Post, Put, Repost, Turn, SaveMapping, EndApp
  <2>4. ~Failure(h) /\ ~(HumanDelete \/ HumanAdd) /\ ~(UNCHANGED vars)
    BY <1>1, <2>1, <2>3, OnlyRefusals DEF HumanDelete, HumanAdd, vars
  <2>5. FinishRemove(h)
    BY <1>1, <2>1, <2>2, <2>3, <2>4 DEF Next, RemoveStep, SnapshotMappings, SnapshotApps, DeleteIndexerRow,
       CleanRemote
  <2>6. faults = 0 /\ DOMAIN job[h].cleanup = {}
    BY <1>1, <2>5 DEF FinishRemove, counters
  <2>7. ToClean(job[h])
    BY <1>1, <2>6 DEF AllFollowed, Followed, Removing
  <2> QED
    BY <2>6, <2>7 DEF ToClean
<1>2. Inv /\ Calm /\ [Next]_vars =>
        [\A h \in Handlers :
            pc[h] = "cleanup" /\ pc'[h] = "idle" /\ faults' = 0 =>
                \A a \in DOMAIN apps :
                    apps[a].level = "fullSync" =>
                        \A rid \in DOMAIN remote[apps[a].host] :
                            remote[apps[a].host][rid].owner # <<a, job[h].target>>]_vars
  <2> HIDE DEF Calm
  <2> QED
    BY <1>1 DEF Entries
<1>3. Spec => [](Inv /\ Calm)
  BY UntilTheFirstFault, PTL
<1> HIDE DEF Calm
<1> QED
  BY <1>2, <1>3, PTL DEF Spec, RemovalLeavesNothing

\* When a sync is answered, it has reported on every application sync_all
\* listed, and each fullSync application it reports no failure for shows
\* exactly the indexers there are (sync.rs; ApplicationSyncResult), if nobody
\* edits the applications by hand meanwhile.
THEOREM ReportsAreHonest ==
    ASSUME OneAtATime, OnlyRefused, ~HumanWhileBusy
    PROVE  Spec => SyncReportIsHonest
<1>1. Init => AllShown
  BY InitFollows DEF AllShown
<1>2. Inv /\ Own /\ AllFollowed /\ AllShown /\ [Next]_vars => AllShown'
  BY NextFollows, NothingIsLost
<1>3. AllShown =>
        [\A h \in Handlers :
            pc[h] = "rows" /\ pc'[h] = "idle" /\ DOMAIN job[h].queue = {} =>
                \A a \in DOMAIN apps :
                    /\ job[h].scope = "all" => a \in DOMAIN job[h].results
                    /\ a \in DOMAIN job[h].results /\ job[h].results[a]
                       /\ apps[a].level = "fullSync" => Mirrors(a)]_vars
  <2> SUFFICES ASSUME AllShown, NEW h \in Handlers, pc[h] = "rows", DOMAIN job[h].queue = {},
                      NEW a \in DOMAIN apps
               PROVE  /\ job[h].scope = "all" => a \in DOMAIN job[h].results
                      /\ a \in DOMAIN job[h].results /\ job[h].results[a]
                         /\ apps[a].level = "fullSync" => Mirrors(a)
    OBVIOUS
  <2>1. Progress(pc[h], job[h])
    BY DEF AllShown, Shown
  <2>2. job[h].scope = "all" => a \in DOMAIN job[h].results
    BY <2>1 DEF Progress
  <2>3. ASSUME a \in DOMAIN job[h].results, job[h].results[a], apps[a].level = "fullSync"
        PROVE  Mirrors(a)
    <3>1. \A i \in DOMAIN indexers : Shows(a, i)
      BY <2>1, <2>3 DEF Progress, ShowsBut
    <3> QED
      BY <3>1 DEF Mirrors, Shows, Entries
  <2> QED
    BY <2>2, <2>3
<1> QED
  BY <1>1, <1>2, <1>3, SequentialInvariance, PTL DEF Spec, SyncReportIsHonest
----------------------------------------------------------------------------
(* Descent: what is left to do for a request, as a rank that every step of  *)
(* its handler lowers.  The first number says which lists are still to be   *)
(* read, the second how many applications are still to be synced, the third *)
(* how far the current one is, the last what is left of its two loops, or   *)
(* of the clean-up of DELETE /indexer/{id}.                                 *)

Stage(label) ==
    CASE label = "idle"                  -> 0
      [] label = "snapshot"              -> 4
      [] label = "snapapps"              -> 3
      [] label \in {"delete", "apps"}    -> 2
      [] OTHER                           -> 1

Phase(label) == CASE label = "rows" -> 2 [] label = "maps" -> 1 [] OTHER -> 0

Effort(label, j) ==
    CASE label \in Working   -> 2 * Cardinality(j.doomed) + 3 * Cardinality(j.todo)
                                + (CASE label = "push" -> 2 [] label = "save" -> 0 [] OTHER -> 1)
      [] label = "cleanup"   -> Cardinality(DOMAIN j.cleanup)
      [] OTHER               -> 0

Left(label, j) == <<Stage(label), Cardinality(DOMAIN j.queue), Phase(label), Effort(label, j)>>

Ranks == Nat \X Nat \X Nat \X Nat

Before(r, s) ==
    \/ r[1] < s[1]
    \/ r[1] = s[1] /\ r[2] < s[2]
    \/ r[1] = s[1] /\ r[2] = s[2] /\ r[3] < s[3]
    \/ r[1] = s[1] /\ r[2] = s[2] /\ r[3] = s[3] /\ r[4] < s[4]

Descends(h) == Before(Left(pc'[h], job'[h]), Left(pc[h], job[h]))

(* The safety half of RequestsComplete.                                     *)
(* Every step a handler takes for its request brings the answer nearer, and *)
(* nothing else ever moves a handler that is serving one: no other handler  *)
(* can make it start again, and none of its loops grows while it runs.      *)
RequestsDescend ==
    [][\A h \in Handlers :
          /\ SyncStep(h) \/ RemoveStep(h) \/ Failure(h) => Descends(h)
          /\ pc[h] # "idle" /\ Moves(h) => Descends(h)]_vars

(* Every nonempty set of natural numbers has a least element, and so has    *)
(* every nonempty set of ranks: no request can go down for ever.            *)
LEMMA LeastNatural ==
    ASSUME NEW S, S \subseteq Nat, S # {}
    PROVE  \E n \in S : \A m \in S : n <= m
<1> DEFINE R == OpToRel(<, Nat)
<1>1. IsWellFoundedOn(R, Nat)
  BY NatLessThanWellFounded
<1>2. \A m, n \in Nat : m < n => <<m, n>> \in R
  BY DEF OpToRel
<1> HIDE DEF R
<1>3. PICK n \in S : \A m \in S : ~(<<m, n>> \in R)
  BY <1>1, WFMin
<1>4. ASSUME NEW m \in S PROVE n <= m
  <2>1. ~(m < n)
    BY <1>2, <1>3
  <2> QED
    BY <2>1
<1> QED
  BY <1>4

LEMMA LeastRank ==
    ASSUME NEW S, S \subseteq Ranks, S # {}
    PROVE  \E r \in S : \A s \in S : ~Before(s, r)
<1>1. \A r \in S : r[1] \in Nat /\ r[2] \in Nat /\ r[3] \in Nat /\ r[4] \in Nat
  BY DEF Ranks
<1> DEFINE S1 == {r[1] : r \in S}
<1>2. PICK a \in S1 : \A m \in S1 : a <= m
  BY <1>1, LeastNatural
<1> DEFINE S2 == {r[2] : r \in {s \in S : s[1] = a}}
<1>3. S2 \subseteq Nat /\ S2 # {}
  BY <1>1, <1>2
<1>4. PICK b \in S2 : \A m \in S2 : b <= m
  BY <1>3, LeastNatural
<1> DEFINE S3 == {r[3] : r \in {s \in S : s[1] = a /\ s[2] = b}}
<1>5. S3 \subseteq Nat /\ S3 # {}
  BY <1>1, <1>4
<1>6. PICK c \in S3 : \A m \in S3 : c <= m
  BY <1>5, LeastNatural
<1> DEFINE S4 == {r[4] : r \in {s \in S : s[1] = a /\ s[2] = b /\ s[3] = c}}
<1>7. S4 \subseteq Nat /\ S4 # {}
  BY <1>1, <1>6
<1>8. PICK d \in S4 : \A m \in S4 : d <= m
  BY <1>7, LeastNatural
<1>9. PICK r \in S : r[1] = a /\ r[2] = b /\ r[3] = c /\ r[4] = d
  BY <1>8
<1>10. \A s \in S : /\ r[1] <= s[1]
                    /\ s[1] = r[1] => r[2] <= s[2]
                    /\ s[1] = r[1] /\ s[2] = r[2] => r[3] <= s[3]
                    /\ s[1] = r[1] /\ s[2] = r[2] /\ s[3] = r[3] => r[4] <= s[4]
  BY <1>2, <1>4, <1>6, <1>8, <1>9
<1>11. \A s \in S : ~Before(s, r)
  BY <1>1, <1>10 DEF Before
<1> QED
  BY <1>11

(* The loops always have a next turn: whose it is is never left open. *)
LEMMA TurnComes ==
    ASSUME NEW S, S \subseteq Nat, S # {}
    PROVE  \E x : IsFirst(x, S)
BY LeastNatural DEF IsFirst

(* What the ranks need: a handler holds only finitely many rows of a table, *)
(* and the indexer a loop is at is still on that loop's list.               *)
Bounded(j) == IsFiniteSet(DOMAIN j.rows) /\ IsFiniteSet(DOMAIN j.known) /\ IsFiniteSet(DOMAIN j.cleanup)

AtItem(label, j) ==
    /\ label = "unmap" => j.item \in j.doomed
    /\ label \in {"save", "repost"} => j.item \in j.todo

Ending(h) == Bounded(job[h]) /\ AtItem(pc[h], job[h])

AllEnd == \A h \in Handlers : Ending(h)

(* Handler h goes on with locals that keep AllEnd, and less is left to do. *)
GoesDown(h) ==
    \E label, j : /\ Goto(h, label, j) /\ Bounded(j) /\ AtItem(label, j)
                  /\ Before(Left(label, j), Left(pc[h], job[h]))

LEMMA BoundedTable ==
    ASSUME NEW n \in Nat, NEW R, NEW f, IsTable(f, 1 .. n - 1, R)
    PROVE  IsFiniteSet(DOMAIN f)
<1>1. IsFiniteSet(1 .. n - 1)
  BY FS_Interval
<1> QED
  BY <1>1, FS_Subset DEF IsTable

LEMMA FewerRows ==
    ASSUME NEW f, IsFiniteSet(DOMAIN f), NEW x \in DOMAIN f
    PROVE  LET g == Without(f, {x}) IN
           /\ IsFiniteSet(DOMAIN g) /\ Cardinality(DOMAIN g) < Cardinality(DOMAIN f)
           /\ Cardinality(DOMAIN g) \in Nat
<1> DEFINE S == DOMAIN f
           T == DOMAIN Without(f, {x})
<1>1. T = S \ {x}
  BY DEF Without, Restrict
<1>2. x \in S /\ IsFiniteSet(S)
  OBVIOUS
<1> HIDE DEF S, T
<1>3. /\ IsFiniteSet(T) /\ Cardinality(S) \in Nat
      /\ Cardinality(T) = Cardinality(S) - 1
  BY <1>1, <1>2, FS_RemoveElement, FS_CardinalityType
<1>4. Cardinality(T) < Cardinality(S) /\ Cardinality(T) \in Nat
  BY <1>3, FS_CardinalityType
<1> QED
  BY <1>3, <1>4 DEF S, T

(* The lists a handler works through are finite. *)
LEMMA FiniteLists ==
    ASSUME Inv, AllEnd, NEW h \in Handlers
    PROVE  LET j == job[h] IN
           /\ IsFiniteSet(DOMAIN j.queue) /\ Cardinality(DOMAIN j.queue) \in Nat
           /\ pc[h] \in Working => /\ IsFiniteSet(j.doomed) /\ Cardinality(j.doomed) \in Nat
                                   /\ IsFiniteSet(j.todo) /\ Cardinality(j.todo) \in Nat
           /\ IsFiniteSet(DOMAIN j.cleanup) /\ Cardinality(DOMAIN j.cleanup) \in Nat
<1>1. JobOK(job[h], nextApp) /\ Shape(pc[h], job[h]) /\ nextApp \in Nat
  BY Locals
<1>2. IsFiniteSet(DOMAIN job[h].queue)
  BY <1>1, BoundedTable DEF JobOK
<1>3. ASSUME pc[h] \in Working PROVE IsFiniteSet(job[h].doomed) /\ IsFiniteSet(job[h].todo)
  <2>1. job[h].doomed \subseteq DOMAIN job[h].known /\ job[h].todo \subseteq DOMAIN job[h].rows
    BY <1>1, <1>3 DEF Shape
  <2> QED
    BY <2>1, FS_Subset DEF AllEnd, Ending, Bounded
<1>4. IsFiniteSet(DOMAIN job[h].cleanup)
  BY DEF AllEnd, Ending, Bounded
<1> QED
  BY <1>2, <1>3, <1>4, FS_CardinalityType

LEMMA LeftIsRank ==
    ASSUME Inv, AllEnd, NEW h \in Handlers
    PROVE  Left(pc[h], job[h]) \in Ranks
<1>1. Stage(pc[h]) \in Nat /\ Phase(pc[h]) \in Nat
  BY DEF Stage, Phase
<1>2. Effort(pc[h], job[h]) \in Nat
  BY FiniteLists DEF Effort
<1>3. Cardinality(DOMAIN job[h].queue) \in Nat
  BY FiniteLists
<1> QED
  BY <1>1, <1>2, <1>3 DEF Left, Ranks

(* Nothing is left to do for a handler that answers. *)
LEMMA RespondGoesDown ==
    ASSUME Inv, NEW h \in Handlers, pc[h] # "idle", Respond(h)
    PROVE  GoesDown(h)
<1>1. Stage("idle") = 0 /\ Stage(pc[h]) > 0 /\ Stage(pc[h]) \in Nat
  BY DEF Stage, Inv, HandlersType, Labels
<1>2. Before(Left("idle", Fresh), Left(pc[h], job[h]))
  BY <1>1 DEF Before, Left
<1>3. Bounded(Fresh) /\ AtItem("idle", Fresh)
  BY EmptyTable, FS_EmptySet DEF Bounded, AtItem, Fresh
<1> QED
  BY <1>2, <1>3 DEF Respond, GoesDown

(* One application less is left once one is settled. *)
LEMMA SettleGoesDown ==
    ASSUME Inv, AllEnd, NEW h \in Handlers, pc[h] \in Working \cup {"maps"},
           NEW ok, Settle(h, ok)
    PROVE  GoesDown(h)
<1> DEFINE j == job[h]
           q == Without(j.queue, {j.app})
           r == With(j.results, j.app, ok)
           k == [Fresh EXCEPT !.scope = j.scope, !.queue = q, !.results = r]
<1>1. Goto(h, "rows", k)
  BY DEF Settle
<1>2. j.app \in DOMAIN j.queue
  BY Locals DEF Shape
<1>3. IsFiniteSet(DOMAIN j.queue) /\ Cardinality(DOMAIN j.queue) \in Nat
  BY FiniteLists
<1>4. Cardinality(DOMAIN q) < Cardinality(DOMAIN j.queue)
  BY <1>2, <1>3, FewerRows
<1> HIDE DEF q, r
<1>5. Bounded(k) /\ AtItem("rows", k) /\ k.queue = q
  BY EmptyTable, FS_EmptySet DEF Bounded, AtItem, Fresh
<1>6. Stage("rows") = Stage(pc[h])
  BY DEF Stage, Working
<1> HIDE DEF k
<1>7. Before(Left("rows", k), Left(pc[h], j))
  BY <1>4, <1>5, <1>6 DEF Before, Left
<1> QED
  BY <1>1, <1>5, <1>7 DEF GoesDown

LEMMA ListAppsGoesDown ==
    ASSUME Inv, AllEnd, NEW h \in Handlers, ListApps(h)
    PROVE  GoesDown(h)
<1> DEFINE j == [job[h] EXCEPT !.queue = apps]
<1>1. pc[h] = "apps" /\ Goto(h, "rows", j)
  BY DEF ListApps
<1>2. Bounded(j) /\ AtItem("rows", j)
  BY Locals DEF Bounded, AtItem, AllEnd, Ending, JobOK, Fresh
<1>3. Before(Left("rows", j), Left(pc[h], job[h]))
  BY <1>1 DEF Before, Left, Stage
<1> QED
  BY <1>1, <1>2, <1>3 DEF GoesDown

(* The application whose turn it is is settled at once, or a pass over its  *)
(* indexers begins.                                                         *)
LEMMA SkippedGoesDown ==
    ASSUME Inv, AllEnd, NEW h \in Handlers, pc[h] = "rows", NEW a \in DOMAIN job[h].queue, NEW ok,
           Goto(h, "rows", [job[h] EXCEPT !.queue = Without(job[h].queue, {a}),
                                          !.results = With(job[h].results, a, ok)])
    PROVE  GoesDown(h)
<1> DEFINE q == Without(job[h].queue, {a})
           r == With(job[h].results, a, ok)
           j == [job[h] EXCEPT !.queue = q, !.results = r]
<1>1. Goto(h, "rows", j)
  OBVIOUS
<1>2. IsFiniteSet(DOMAIN job[h].queue) /\ Cardinality(DOMAIN job[h].queue) \in Nat
  BY FiniteLists
<1>3. Cardinality(DOMAIN q) < Cardinality(DOMAIN job[h].queue)
  BY <1>2, FewerRows
<1> HIDE DEF q, r
<1>4. Bounded(j) /\ AtItem("rows", j) /\ j.queue = q
  BY Locals DEF Bounded, AtItem, AllEnd, Ending, JobOK, Fresh
<1> HIDE DEF j
<1>5. Before(Left("rows", j), Left(pc[h], job[h]))
  BY <1>3, <1>4 DEF Before, Left
<1> QED
  BY <1>1, <1>4, <1>5 DEF GoesDown

LEMMA ListIndexersGoesDown ==
    ASSUME Inv, AllEnd, NEW h \in Handlers, ListIndexers(h)
    PROVE  GoesDown(h)
<1>1. PICK a \in DOMAIN job[h].queue :
         IF job[h].queue[a].level = "disabled"
         THEN Goto(h, "rows", [job[h] EXCEPT !.queue = Without(job[h].queue, {a}),
                                             !.results = With(job[h].results, a, TRUE)])
         ELSE Goto(h, "maps", [job[h] EXCEPT !.app = a, !.rows = indexers])
  BY DEF ListIndexers
<1>2. pc[h] = "rows"
  BY DEF ListIndexers
<1>3. CASE job[h].queue[a].level = "disabled"
  <2> DEFINE ok == TRUE
  <2>1. Goto(h, "rows", [job[h] EXCEPT !.queue = Without(job[h].queue, {a}),
                                       !.results = With(job[h].results, a, ok)])
    BY <1>1, <1>3
  <2> HIDE DEF ok
  <2> QED
    BY <1>2, <2>1, SkippedGoesDown
<1>4. CASE job[h].queue[a].level # "disabled"
  <2> DEFINE j == [job[h] EXCEPT !.app = a, !.rows = indexers]
  <2>1. Goto(h, "maps", j)
    BY <1>1, <1>4
  <2>2. IsFiniteSet(DOMAIN indexers)
    BY BoundedTable DEF Inv, DbType
  <2>3. Bounded(j) /\ AtItem("maps", j) /\ j.queue = job[h].queue
    BY <2>2, Locals DEF Bounded, AtItem, AllEnd, Ending, JobOK, Fresh
  <2> HIDE DEF j
  <2>4. Before(Left("maps", j), Left(pc[h], job[h]))
    BY <1>2, <2>3 DEF Before, Left, Stage, Phase
  <2> QED
    BY <2>1, <2>3, <2>4 DEF GoesDown
<1> QED
  BY <1>3, <1>4

LEMMA ListMappingsGoesDown ==
    ASSUME Inv, AllEnd, NEW h \in Handlers, ListMappings(h)
    PROVE  GoesDown(h)
<1> DEFINE level == job[h].queue[job[h].app].level
           known == ForApp(job[h].app)
           doomed == Doomed(level, job[h].rows, known)
           todo == Pushed(level, job[h].rows, known)
           j == [job[h] EXCEPT !.known = known, !.doomed = doomed, !.todo = todo]
<1>1. pc[h] = "maps" /\ Goto(h, "push", j)
  BY DEF ListMappings
<1>2. IsTable(known, 1 .. nextIndexer - 1, Nat) /\ nextIndexer \in Nat
  BY ForAppRows DEF Inv, DbType
<1> HIDE DEF known, doomed, todo
<1>3. IsFiniteSet(DOMAIN known)
  BY <1>2, BoundedTable
<1>4. Bounded(j) /\ AtItem("push", j) /\ j.queue = job[h].queue
  BY <1>3, Locals DEF Bounded, AtItem, AllEnd, Ending, JobOK, Fresh
<1> HIDE DEF j
<1>5. Before(Left("push", j), Left(pc[h], job[h]))
  BY <1>1, <1>4 DEF Before, Left, Stage, Phase
<1> QED
  BY <1>1, <1>4, <1>5 DEF GoesDown

(* Inside the two loops: the same application, and less of its lists left. *)
LEMMA LoopGoesDown ==
    ASSUME Inv, AllEnd, NEW h \in Handlers, pc[h] \in Working,
           NEW label \in Working, NEW j, Goto(h, label, j), Bounded(j), AtItem(label, j),
           DOMAIN j.queue = DOMAIN job[h].queue,
           Effort(label, j) < Effort(pc[h], job[h])
    PROVE  GoesDown(h)
<1>1. Stage(label) = Stage(pc[h]) /\ Phase(label) = Phase(pc[h])
  BY DEF Stage, Phase, Working
<1>2. Before(Left(label, j), Left(pc[h], job[h]))
  BY <1>1 DEF Before, Left
<1> QED
  BY <1>2 DEF GoesDown

LEMMA OneLess ==
    ASSUME NEW S, IsFiniteSet(S), NEW x \in S
    PROVE  Cardinality(S) \in Nat /\ Cardinality(S \ {x}) = Cardinality(S) - 1
BY FS_RemoveElement, FS_CardinalityType

LEMMA DeleteRemoteGoesDown ==
    ASSUME Inv, AllEnd, NEW h \in Handlers, DeleteRemote(h)
    PROVE  GoesDown(h)
<1>1. PICK i \in job[h].doomed :
          Goto(h, "unmap", [job[h] EXCEPT !.item = i]) \/ Settle(h, FALSE)
  BY DEF DeleteRemote
<1>2. pc[h] = "push" /\ pc[h] \in Working
  BY DEF DeleteRemote, Working
<1> DEFINE j == [job[h] EXCEPT !.item = i]
<1>3. CASE Goto(h, "unmap", j)
  <2>1. Bounded(j) /\ AtItem("unmap", j) /\ j.queue = job[h].queue
        /\ j.doomed = job[h].doomed /\ j.todo = job[h].todo
    BY Locals DEF Bounded, AtItem, AllEnd, Ending, JobOK, Fresh
  <2> HIDE DEF j
  <2>2. Effort("unmap", j) < Effort(pc[h], job[h]) /\ "unmap" \in Working
    BY <1>2, <2>1, FiniteLists DEF Effort, Working
  <2> QED
    BY <1>2, <1>3, <2>1, <2>2, LoopGoesDown
<1>4. CASE Settle(h, FALSE)
  BY <1>2, <1>4, SettleGoesDown
<1> QED
  BY <1>1, <1>3, <1>4

LEMMA DropMappingGoesDown ==
    ASSUME Inv, AllEnd, NEW h \in Handlers, DropMapping(h)
    PROVE  GoesDown(h)
<1> DEFINE j == [job[h] EXCEPT !.doomed = @ \ {job[h].item}, !.item = 0]
<1>1. pc[h] = "unmap" /\ pc[h] \in Working /\ Goto(h, "push", j)
  BY DEF DropMapping, Working
<1>2. job[h].item \in job[h].doomed
  BY <1>1 DEF AllEnd, Ending, AtItem
<1>3. Bounded(j) /\ AtItem("push", j) /\ j.queue = job[h].queue
      /\ j.doomed = job[h].doomed \ {job[h].item} /\ j.todo = job[h].todo
  BY Locals DEF Bounded, AtItem, AllEnd, Ending, JobOK, Fresh
<1> HIDE DEF j
<1>4. Effort("push", j) < Effort(pc[h], job[h]) /\ "push" \in Working
  BY <1>1, <1>2, <1>3, FiniteLists, OneLess DEF Effort, Working
<1> QED
  BY <1>1, <1>3, <1>4, LoopGoesDown

LEMMA PostEntryGoesDown ==
    ASSUME Inv, AllEnd, NEW h \in Handlers, NEW i \in job[h].todo, pc[h] \in {"push", "repost"},
           PostEntry(h, i)
    PROVE  GoesDown(h)
<1> DEFINE rid == nextRid[HostOf(job[h])]
           j == [job[h] EXCEPT !.item = i, !.rid = rid]
<1>1. pc[h] \in Working
  BY DEF Working
<1>2. Goto(h, "save", j) \/ Settle(h, FALSE)
  BY DEF PostEntry
<1> HIDE DEF rid
<1>3. CASE Goto(h, "save", j)
  <2>1. Bounded(j) /\ AtItem("save", j) /\ j.queue = job[h].queue
        /\ j.doomed = job[h].doomed /\ j.todo = job[h].todo
    BY Locals DEF Bounded, AtItem, AllEnd, Ending, JobOK, Fresh
  <2> HIDE DEF j
  <2>2. Effort("save", j) < Effort(pc[h], job[h]) /\ "save" \in Working
    BY <1>1, <2>1, FiniteLists DEF Effort, Working
  <2> QED
    BY <1>1, <1>3, <2>1, <2>2, LoopGoesDown
<1>4. CASE Settle(h, FALSE)
  BY <1>1, <1>4, SettleGoesDown
<1> QED
  BY <1>2, <1>3, <1>4

LEMMA PutGoesDown ==
    ASSUME Inv, AllEnd, NEW h \in Handlers, Put(h)
    PROVE  GoesDown(h)
<1>1. PICK i \in job[h].todo :
         \/ Goto(h, "push", [job[h] EXCEPT !.todo = @ \ {i}])
         \/ Goto(h, "repost", [job[h] EXCEPT !.item = i])
         \/ Settle(h, FALSE)
  BY DEF Put
<1>2. pc[h] = "push" /\ pc[h] \in Working
  BY DEF Put, Turn, Working
<1>3. CASE Goto(h, "push", [job[h] EXCEPT !.todo = @ \ {i}])
  <2> DEFINE j == [job[h] EXCEPT !.todo = @ \ {i}]
  <2>1. Bounded(j) /\ AtItem("push", j) /\ j.queue = job[h].queue
        /\ j.doomed = job[h].doomed /\ j.todo = job[h].todo \ {i}
    BY Locals DEF Bounded, AtItem, AllEnd, Ending, JobOK, Fresh
  <2> HIDE DEF j
  <2>2. Effort("push", j) < Effort(pc[h], job[h]) /\ "push" \in Working
    BY <1>2, <2>1, FiniteLists, OneLess DEF Effort, Working
  <2>3. Goto(h, "push", j)
    BY <1>3 DEF j
  <2> QED
    BY <1>2, <2>1, <2>2, <2>3, LoopGoesDown
<1>4. CASE Goto(h, "repost", [job[h] EXCEPT !.item = i])
  <2> DEFINE j == [job[h] EXCEPT !.item = i]
  <2>1. Bounded(j) /\ AtItem("repost", j) /\ j.queue = job[h].queue
        /\ j.doomed = job[h].doomed /\ j.todo = job[h].todo
    BY Locals DEF Bounded, AtItem, AllEnd, Ending, JobOK, Fresh
  <2> HIDE DEF j
  <2>2. Effort("repost", j) < Effort(pc[h], job[h]) /\ "repost" \in Working
    BY <1>2, <2>1, FiniteLists DEF Effort, Working
  <2>3. Goto(h, "repost", j)
    BY <1>4 DEF j
  <2> QED
    BY <1>2, <2>1, <2>2, <2>3, LoopGoesDown
<1>5. CASE Settle(h, FALSE)
  BY <1>2, <1>5, SettleGoesDown
<1> QED
  BY <1>1, <1>3, <1>4, <1>5

LEMMA SaveMappingGoesDown ==
    ASSUME Inv, AllEnd, NEW h \in Handlers, SaveMapping(h)
    PROVE  GoesDown(h)
<1> DEFINE j == [job[h] EXCEPT !.todo = @ \ {job[h].item}, !.item = 0, !.rid = 0]
<1>1. pc[h] = "save" /\ pc[h] \in Working /\ (Goto(h, "push", j) \/ Settle(h, FALSE))
  BY DEF SaveMapping, Working
<1>2. job[h].item \in job[h].todo
  BY <1>1 DEF AllEnd, Ending, AtItem
<1>3. Bounded(j) /\ AtItem("push", j) /\ j.queue = job[h].queue
      /\ j.doomed = job[h].doomed /\ j.todo = job[h].todo \ {job[h].item}
  BY Locals DEF Bounded, AtItem, AllEnd, Ending, JobOK, Fresh
<1> HIDE DEF j
<1>4. Effort("push", j) < Effort(pc[h], job[h]) /\ "push" \in Working
  BY <1>1, <1>2, <1>3, FiniteLists, OneLess DEF Effort, Working
<1> QED
  BY <1>1, <1>3, <1>4, LoopGoesDown, SettleGoesDown

(* DELETE /indexer/{id} reads its two lists once, deletes, then cleans up. *)
LEMMA LaterStageGoesDown ==
    ASSUME NEW h \in Handlers, NEW label, NEW j, Goto(h, label, j), Bounded(j), AtItem(label, j),
           Stage(label) < Stage(pc[h])
    PROVE  GoesDown(h)
<1>1. Before(Left(label, j), Left(pc[h], job[h]))
  BY DEF Before, Left
<1> QED
  BY <1>1 DEF GoesDown

LEMMA SnapshotMappingsGoesDown ==
    ASSUME Inv, AllEnd, NEW h \in Handlers, SnapshotMappings(h)
    PROVE  GoesDown(h)
<1> DEFINE held == ForIndexer(job[h].target)
           j == [job[h] EXCEPT !.held = held]
           label == IF DOMAIN held = {} THEN "delete" ELSE "snapapps"
<1>1. pc[h] = "snapshot" /\ Goto(h, label, j)
  BY DEF SnapshotMappings
<1> HIDE DEF held
<1>2. Bounded(j) /\ AtItem(label, j)
  BY Locals DEF Bounded, AtItem, AllEnd, Ending, JobOK, Fresh
<1>3. Stage(label) < Stage(pc[h])
  BY <1>1 DEF Stage
<1> HIDE DEF j, label
<1> QED
  BY <1>1, <1>2, <1>3, LaterStageGoesDown

LEMMA SnapshotAppsGoesDown ==
    ASSUME Inv, AllEnd, NEW h \in Handlers, SnapshotApps(h)
    PROVE  GoesDown(h)
<1> DEFINE full == {a \in DOMAIN job[h].held \cap DOMAIN apps : apps[a].level = "fullSync"}
           cleanup == [a \in full |-> [host |-> apps[a].host, rid |-> job[h].held[a]]]
           j == [job[h] EXCEPT !.cleanup = cleanup]
<1>1. pc[h] = "snapapps" /\ Goto(h, "delete", j)
  BY DEF SnapshotApps
<1>2. IsFiniteSet(DOMAIN apps)
  BY BoundedTable DEF Inv, DbType
<1>3. DOMAIN cleanup \subseteq DOMAIN apps
  OBVIOUS
<1> HIDE DEF cleanup
<1>4. IsFiniteSet(DOMAIN cleanup)
  BY <1>2, <1>3, FS_Subset
<1>5. Bounded(j) /\ AtItem("delete", j)
  BY <1>4, Locals DEF Bounded, AtItem, AllEnd, Ending, JobOK, Fresh
<1>6. Stage("delete") < Stage(pc[h])
  BY <1>1 DEF Stage
<1> HIDE DEF j
<1> QED
  BY <1>1, <1>5, <1>6, LaterStageGoesDown

LEMMA DeleteIndexerRowGoesDown ==
    ASSUME Inv, AllEnd, NEW h \in Handlers, DeleteIndexerRow(h)
    PROVE  GoesDown(h)
<1>1. pc[h] = "delete" /\ (Goto(h, "cleanup", job[h]) \/ Respond(h))
  BY DEF DeleteIndexerRow
<1>2. Bounded(job[h]) /\ AtItem("cleanup", job[h]) /\ Stage("cleanup") < Stage(pc[h])
  BY <1>1 DEF AllEnd, Ending, AtItem, Stage
<1> QED
  BY <1>1, <1>2, LaterStageGoesDown, RespondGoesDown

LEMMA NextDoomedGoesDown ==
    ASSUME Inv, AllEnd, NEW h \in Handlers, pc[h] = "cleanup",
           NEW a \in DOMAIN job[h].cleanup, NextDoomed(h, a)
    PROVE  GoesDown(h)
<1> DEFINE rest == Without(job[h].cleanup, {a})
           j == [job[h] EXCEPT !.cleanup = rest]
<1>1. Goto(h, "cleanup", j)
  BY DEF NextDoomed
<1>2. IsFiniteSet(DOMAIN rest) /\ Cardinality(DOMAIN rest) < Cardinality(DOMAIN job[h].cleanup)
  BY FewerRows DEF AllEnd, Ending, Bounded
<1> HIDE DEF rest
<1>3. Bounded(j) /\ AtItem("cleanup", j) /\ j.queue = job[h].queue /\ j.cleanup = rest
  BY <1>2, Locals DEF Bounded, AtItem, AllEnd, Ending, JobOK, Fresh
<1> HIDE DEF j
<1>4. Effort("cleanup", j) < Effort(pc[h], job[h])
  BY <1>2, <1>3 DEF Effort, Working
<1>5. Before(Left("cleanup", j), Left(pc[h], job[h]))
  BY <1>3, <1>4 DEF Before, Left
<1> QED
  BY <1>1, <1>3, <1>5 DEF GoesDown

LEMMA SyncStepGoesDown ==
    ASSUME Inv, AllEnd, NEW h \in Handlers, SyncStep(h)
    PROVE  GoesDown(h)
<1>1. CASE FinishSync(h)
  BY <1>1, RespondGoesDown DEF FinishSync
<1>2. CASE EndApp(h)
  <2> DEFINE ok == TRUE
  <2>1. pc[h] \in Working /\ Settle(h, ok)
    BY <1>2 DEF EndApp, Working
  <2> HIDE DEF ok
  <2> QED
    BY <2>1, SettleGoesDown
<1>3. CASE Post(h)
  <2>1. pc[h] = "push" /\ \E i \in job[h].todo : PostEntry(h, i)
    BY <1>3 DEF Post, Turn
  <2> QED
    BY <2>1, PostEntryGoesDown
<1>4. CASE Repost(h)
  <2>1. pc[h] = "repost" /\ PostEntry(h, job[h].item)
    BY <1>4 DEF Repost
  <2>2. job[h].item \in job[h].todo
    BY <2>1 DEF AllEnd, Ending, AtItem
  <2> QED
    BY <2>1, <2>2, PostEntryGoesDown
<1> QED
  BY <1>1, <1>2, <1>3, <1>4, ListAppsGoesDown, ListIndexersGoesDown, ListMappingsGoesDown,
     DeleteRemoteGoesDown, DropMappingGoesDown, PutGoesDown, SaveMappingGoesDown DEF SyncStep

LEMMA RemoveStepGoesDown ==
    ASSUME Inv, AllEnd, NEW h \in Handlers, RemoveStep(h)
    PROVE  GoesDown(h)
<1>1. CASE CleanRemote(h)
  BY <1>1, NextDoomedGoesDown DEF CleanRemote
<1>2. CASE FinishRemove(h)
  BY <1>2, RespondGoesDown DEF FinishRemove
<1> QED
  BY <1>1, <1>2, SnapshotMappingsGoesDown, SnapshotAppsGoesDown, DeleteIndexerRowGoesDown DEF RemoveStep

(* A failure ends something, and a statement that fails is not tried again. *)
LEMMA FailureGoesDown ==
    ASSUME Inv, AllEnd, NEW h \in Handlers, Failure(h)
    PROVE  GoesDown(h)
<1>1. CASE CallRefused(h)
  <2>1. \/ pc[h] \in Working /\ Settle(h, FALSE)
        \/ pc[h] = "cleanup" /\ \E a \in DOMAIN job[h].cleanup : NextDoomed(h, a)
    BY <1>1 DEF CallRefused, Working
  <2> QED
    BY <2>1, SettleGoesDown, NextDoomedGoesDown
<1>2. CASE StatementFails(h)
  <2>1. Bounded(job[h]) /\ AtItem("rows", job[h]) /\ AtItem("delete", job[h])
    BY DEF AllEnd, Ending, AtItem
  <2>2. CASE pc[h] = "apps" /\ Goto(h, "rows", job[h])
    <3>1. Stage("rows") < Stage(pc[h])
      BY <2>2 DEF Stage
    <3> QED
      BY <2>1, <2>2, <3>1, LaterStageGoesDown
  <2>3. CASE pc[h] \in {"snapshot", "snapapps"} /\ Goto(h, "delete", job[h])
    <3>1. Stage("delete") < Stage(pc[h])
      BY <2>3 DEF Stage
    <3> QED
      BY <2>1, <2>3, <3>1, LaterStageGoesDown
  <2>4. CASE pc[h] = "rows" /\ \E a \in DOMAIN job[h].queue :
                Goto(h, "rows", [job[h] EXCEPT !.queue = Without(job[h].queue, {a}),
                                               !.results = With(job[h].results, a, FALSE)])
    <3> DEFINE ok == FALSE
    <3>1. PICK a \in DOMAIN job[h].queue :
                Goto(h, "rows", [job[h] EXCEPT !.queue = Without(job[h].queue, {a}),
                                               !.results = With(job[h].results, a, ok)])
      BY <2>4
    <3> HIDE DEF ok
    <3> QED
      BY <2>4, <3>1, SkippedGoesDown
  <2>5. CASE pc[h] \in {"maps", "unmap", "save"} /\ Settle(h, FALSE)
    BY <2>5, SettleGoesDown DEF Working
  <2>6. CASE pc[h] \in {"apps", "delete"} /\ Respond(h)
    BY <2>6, RespondGoesDown
  <2> QED
    BY <1>2, <2>2, <2>3, <2>4, <2>5, <2>6 DEF StatementFails
<1>3. CASE HandlerGone(h)
  BY <1>3, RespondGoesDown DEF HandlerGone
<1> QED
  BY <1>1, <1>2, <1>3 DEF Failure

LEMMA GoesDownStep ==
    ASSUME Inv, AllEnd, NEW h \in Handlers, GoesDown(h)
    PROVE  /\ AllEnd' /\ Descends(h)
           /\ \A g \in Handlers \ {h} : ~Moves(g)
<1>1. PICK label, j : /\ Goto(h, label, j) /\ Bounded(j) /\ AtItem(label, j)
                      /\ Before(Left(label, j), Left(pc[h], job[h]))
  BY DEF GoesDown
<1>2. /\ pc'[h] = label /\ job'[h] = j
      /\ \A g \in Handlers \ {h} : pc'[g] = pc[g] /\ job'[g] = job[g]
  BY <1>1 DEF Goto, Inv, HandlersType
<1>3. AllEnd'
  BY <1>1, <1>2 DEF AllEnd, Ending
<1> QED
  BY <1>1, <1>2, <1>3 DEF Descends, Moves

(* A request is taken by a handler that serves none. *)
LEMMA FreshEnds ==
    /\ Bounded(Fresh)
    /\ \A label \in Labels \ Working : \A j : AtItem(label, j)
BY EmptyTable, FS_EmptySet DEF Bounded, AtItem, Fresh, Labels, Working

LEMMA RequestEnds ==
    ASSUME Inv, AllEnd, NEW h \in Handlers, Request(h)
    PROVE  AllEnd' /\ pc[h] = "idle" /\ \A g \in Handlers \ {h} : ~Moves(g)
<1>1. pc[h] = "idle"
  BY DEF Request, CreateIndexer, UpdateIndexer, RemoveIndexer, CreateApp, UpdateApp, RemoveApp, Accept
<1>2. \/ UNCHANGED <<pc, job>>
      \/ Goto(h, "apps", [Fresh EXCEPT !.scope = "all"])
      \/ \E i : Goto(h, "snapshot", [Fresh EXCEPT !.target = i])
      \/ \E q : Goto(h, "rows", [Fresh EXCEPT !.queue = q])
  BY DEF Request, CreateIndexer, UpdateIndexer, RemoveIndexer, CreateApp, UpdateApp, RemoveApp, SyncOne
<1>3. CASE UNCHANGED <<pc, job>>
  BY <1>1, <1>3 DEF AllEnd, Ending, Moves
<1>4. ASSUME NEW label \in {"apps", "snapshot", "rows"}, NEW j, Goto(h, label, j), Bounded(j)
      PROVE  AllEnd' /\ \A g \in Handlers \ {h} : ~Moves(g)
  <2>1. AtItem(label, j)
    BY DEF AtItem
  <2>2. /\ pc'[h] = label /\ job'[h] = j
        /\ \A g \in Handlers \ {h} : pc'[g] = pc[g] /\ job'[g] = job[g]
    BY <1>4 DEF Goto, Inv, HandlersType
  <2> QED
    BY <1>4, <2>1, <2>2 DEF AllEnd, Ending, Moves
<1>5. /\ Bounded([Fresh EXCEPT !.scope = "all"])
      /\ \A i : Bounded([Fresh EXCEPT !.target = i])
      /\ \A q : Bounded([Fresh EXCEPT !.queue = q])
  BY FreshEnds DEF Bounded, Fresh
<1>6. CASE Goto(h, "apps", [Fresh EXCEPT !.scope = "all"])
  BY <1>1, <1>4, <1>5, <1>6
<1>7. CASE \E i : Goto(h, "snapshot", [Fresh EXCEPT !.target = i])
  BY <1>1, <1>4, <1>5, <1>7
<1>8. CASE \E q : Goto(h, "rows", [Fresh EXCEPT !.queue = q])
  BY <1>1, <1>4, <1>5, <1>8
<1> QED
  BY <1>1, <1>2, <1>3, <1>6, <1>7, <1>8

LEMMA StillEnds ==
    ASSUME Inv, AllEnd, UNCHANGED <<pc, job>>
    PROVE  AllEnd' /\ \A g \in Handlers : ~Moves(g)
BY DEF AllEnd, Ending, Moves

LEMMA StepsOfOne ==
    ASSUME Inv, NEW h \in Handlers
    PROVE  pc[h] = "idle" => ~SyncStep(h) /\ ~RemoveStep(h) /\ ~Failure(h)
BY DEF SyncStep, RemoveStep, Failure, ListApps, ListIndexers, ListMappings, FinishSync,
       DeleteRemote, DropMapping, Post, Put, Turn, Repost, SaveMapping, EndApp,
       SnapshotMappings, SnapshotApps, DeleteIndexerRow, CleanRemote, FinishRemove,
       CallRefused, StatementFails, HandlerGone

LEMMA NextEnds ==
    ASSUME Inv, AllEnd, [Next]_vars
    PROVE  /\ AllEnd'
           /\ \A h \in Handlers :
                 /\ SyncStep(h) \/ RemoveStep(h) \/ Failure(h) => Descends(h)
                 /\ pc[h] # "idle" /\ Moves(h) => Descends(h)
<1>1. \A h \in Handlers : SyncStep(h) \/ RemoveStep(h) \/ Failure(h) => Descends(h)
  BY SyncStepGoesDown, RemoveStepGoesDown, FailureGoesDown, GoesDownStep
<1>2. ASSUME NEW h \in Handlers, SyncStep(h) \/ RemoveStep(h) \/ Failure(h)
      PROVE  AllEnd' /\ \A g \in Handlers : Moves(g) => Descends(g)
  <2>1. GoesDown(h)
    BY <1>2, SyncStepGoesDown, RemoveStepGoesDown, FailureGoesDown
  <2> QED
    BY <2>1, GoesDownStep
<1>3. ASSUME NEW h \in Handlers, Request(h)
      PROVE  AllEnd' /\ \A g \in Handlers : pc[g] # "idle" => ~Moves(g)
  BY <1>3, RequestEnds
<1>4. CASE HumanDelete \/ HumanAdd \/ UNCHANGED vars
  <2>1. UNCHANGED <<pc, job>>
    BY <1>4 DEF HumanDelete, HumanAdd, vars
  <2> QED
    BY <1>1, <2>1, StillEnds
<1> QED
  BY <1>1, <1>2, <1>3, <1>4 DEF Next

LEMMA InitEnds == Init => AllEnd
BY FreshEnds DEF Init, AllEnd, Ending, Labels, Working

\* Every request comes to an end: each step of its handler, a failing one
\* included, lowers a rank below which no endless descent is possible
\* (LeastRank), and nothing else moves a handler that serves a request.
\* Neither the other handlers, nor the rows they add while it runs, nor any
\* failure can make a sync or a removal go on for ever (sync.rs; indexers.rs).
THEOREM RequestsGoDown == Spec => RequestsDescend
<1>1. Inv /\ AllEnd /\ [Next]_vars => AllEnd'
  BY NextEnds
<1>2. Inv /\ AllEnd /\ [Next]_vars =>
        [\A h \in Handlers :
            /\ SyncStep(h) \/ RemoveStep(h) \/ Failure(h) => Descends(h)
            /\ pc[h] # "idle" /\ Moves(h) => Descends(h)]_vars
  BY NextEnds
<1> QED
  BY <1>1, <1>2, InitEnds, Invariance, PTL DEF Spec, RequestsDescend

\* The ranks are such that there is no endless descent: a request at one of
\* them can go down only finitely often.
THEOREM RanksAreWellFounded ==
    /\ Spec => [](\A h \in Handlers : Left(pc[h], job[h]) \in Ranks)
    /\ \A S \in SUBSET Ranks : S # {} => \E r \in S : \A s \in S : ~Before(s, r)
<1>1. Inv /\ AllEnd /\ [Next]_vars => AllEnd'
  BY NextEnds
<1>2. Inv /\ AllEnd => \A h \in Handlers : Left(pc[h], job[h]) \in Ranks
  BY LeftIsRank
<1>3. Spec => [](\A h \in Handlers : Left(pc[h], job[h]) \in Ranks)
  BY <1>1, <1>2, InitEnds, Invariance, PTL DEF Spec
<1>4. \A S \in SUBSET Ranks : S # {} => \E r \in S : \A s \in S : ~Before(s, r)
  BY LeastRank
<1> QED
  BY <1>3, <1>4

----------------------------------------------------------------------------
(***************************************************************************)
(* The ledger.  Every step of a handler is one of Ledger's, or none of its *)
(* variables changes.                                                      *)
(***************************************************************************)
Homes == [a \in DOMAIN apps |-> apps[a].host]

\* A step is one of the ledger's, or leaves it as it is.
Ledgers == Remote!Next \/ UNCHANGED <<remote, nextRid, mapping, Homes, nextApp, edits>>

LEMMA LedgerStays ==
    ASSUME UNCHANGED <<apps, nextApp, mapping, world, edits>>
    PROVE  Ledgers
  <1>1. Homes' = Homes
    BY DEF Homes
  <1> QED BY <1>1 DEF Ledgers, world

\* A pair of an application is nobody's but its own: ids start at 1.
LEMMA NotHuman ==
    ASSUME NEW n \in Nat, NEW a \in 1 .. n - 1, NEW i
    PROVE  <<a, i>> # Human
  BY DEF Human

LEMMA DeletedLedger ==
    ASSUME NEW host, NEW rid, NEW p, Names(remote, nextRid, host, rid, p), p # Human,
           DeleteEntry(host, rid), UNCHANGED <<nextRid, apps, nextApp, mapping, edits>>
    PROVE  Ledgers
  <1>1. Homes' = Homes
    BY DEF Homes
  <1>2. Remote!Remove(host, rid)
    BY DEF Remote!Remove, Remote!Drop, DeleteEntry, Without, Restrict
  <1>3. Remote!Delete
    BY <1>1, <1>2 DEF Remote!Delete, Homes, Names
  <1> QED BY <1>3 DEF Ledgers, Remote!Next

LEMMA DeleteRemoteLedger ==
    ASSUME Inv, Own, NEW h \in Handlers, DeleteRemote(h)
    PROVE  Ledgers
  <1>1. PICK i \in job[h].doomed : DeleteEntry(HostOf(job[h]), job[h].known[i])
    BY DEF DeleteRemote
  <1>2. pc[h] = "push" /\ UNCHANGED <<nextRid, apps, nextApp, mapping, edits>>
    BY DEF DeleteRemote, db, counters, Fault
  <1>3. Shape("push", job[h]) /\ JobOK(job[h], nextApp) /\ nextApp \in Nat /\ HostOf(job[h]) \in Hosts
    BY <1>2, Locals, HostType DEF Working
  <1>4. job[h].app \in 1 .. nextApp - 1 /\ i \in DOMAIN job[h].known
    BY <1>3 DEF Shape, Working, JobOK, IsTable
  <1>5. Names(remote, nextRid, HostOf(job[h]), job[h].known[i], <<job[h].app, i>>)
    BY <1>2, <1>4 DEF Own, Owned, Working
  <1>6. <<job[h].app, i>> # Human
    BY <1>3, <1>4, NotHuman
  <1> QED BY <1>1, <1>2, <1>5, <1>6, DeletedLedger

LEMMA CleanRemoteLedger ==
    ASSUME Inv, Own, NEW h \in Handlers, CleanRemote(h)
    PROVE  Ledgers
  <1>1. PICK a \in DOMAIN job[h].cleanup : DeleteEntry(job[h].cleanup[a].host, job[h].cleanup[a].rid)
    BY DEF CleanRemote
  <1>2. UNCHANGED <<nextRid, apps, nextApp, mapping, edits>>
    BY DEF CleanRemote, db, counters
  <1>3. Names(remote, nextRid, job[h].cleanup[a].host, job[h].cleanup[a].rid, <<a, job[h].target>>)
    BY DEF Own, Owned
  <1>4. a \in 1 .. nextApp - 1 /\ nextApp \in Nat
    BY Locals DEF JobOK, IsTable
  <1>5. <<a, job[h].target>> # Human
    BY <1>4, NotHuman
  <1> QED BY <1>1, <1>2, <1>3, <1>5, DeletedLedger

LEMMA PostEntryLedger ==
    ASSUME Inv, NEW h \in Handlers, NEW i \in DOMAIN job[h].rows, pc[h] \in {"push", "repost"},
           PostEntry(h, i)
    PROVE  Ledgers
  <1> DEFINE host == HostOf(job[h])
             a == job[h].app
             rev == job[h].rows[i].rev
  <1>1. /\ remote' = [remote EXCEPT ![host] = With(@, nextRid[host], Payload(job[h], i))]
        /\ nextRid' = [nextRid EXCEPT ![host] = @ + 1]
        /\ UNCHANGED <<apps, nextApp, mapping, edits>>
    BY DEF PostEntry, db, counters, Fault
  <1>2. host \in Hosts /\ JobOK(job[h], nextApp) /\ a \in DOMAIN job[h].queue
    BY Locals, HostType DEF Working, Shape
  <1>3. a \in 1 .. nextApp - 1 /\ i \in Nat /\ rev \in Nat
    <2>1. job[h].rows[i] \in IndexerRow /\ i \in Nat /\ DOMAIN job[h].queue \subseteq 1 .. nextApp - 1
      BY <1>2, RowType DEF JobOK, IsTable
    <2> QED BY <1>2, <2>1 DEF IndexerRow
  <1>4. Payload(job[h], i) = [owner |-> <<a, i>>, rev |-> rev]
    BY DEF Payload
  <1> HIDE DEF host, a, rev
  <1>5. Remote!Add(host, <<a, i>>)
    BY <1>1, <1>3, <1>4 DEF Remote!Add, Remote!Put, With
  <1>6. Homes' = Homes
    BY <1>1 DEF Homes
  <1>7. Remote!Post
    BY <1>1, <1>2, <1>3, <1>5, <1>6 DEF Remote!Post, Homes
  <1> QED BY <1>7 DEF Ledgers, Remote!Next

LEMMA PutLedger ==
    ASSUME Inv, Own, NEW h \in Handlers, Put(h)
    PROVE  Ledgers
  <1> DEFINE host == HostOf(job[h])
  <1>1. PICK i \in job[h].todo \cap DOMAIN job[h].known :
           IF job[h].known[i] \in DOMAIN remote[host]
           THEN remote' = [remote EXCEPT ![host][job[h].known[i]] = Payload(job[h], i)] /\ UNCHANGED edits
           ELSE UNCHANGED <<remote, edits>>
    BY DEF Put, counters, Fault
  <1>2. pc[h] = "push" /\ UNCHANGED <<apps, nextApp, mapping, nextRid>>
    BY DEF Put, Turn, db
  <1>3. Shape("push", job[h]) /\ JobOK(job[h], nextApp) /\ nextApp \in Nat /\ host \in Hosts
    BY <1>2, Locals, HostType DEF Working
  <1>4. CASE job[h].known[i] \in DOMAIN remote[host]
    <2> DEFINE id == job[h].known[i]
               rev == job[h].rows[i].rev
               old == remote[host][id]
    <2>1. job[h].app \in 1 .. nextApp - 1 /\ i \in DOMAIN job[h].rows
      BY <1>3 DEF Shape, Working, JobOK, IsTable
    <2>2. old.owner = <<job[h].app, i>> /\ old.owner # Human
      BY <1>2, <1>3, <1>4, <2>1, KnownOwner, NotHuman, ZenonT(30) DEF Working
    <2>3. rev \in Nat
      <3>1. job[h].rows[i] \in IndexerRow
        BY <1>3, <2>1, RowType DEF JobOK
      <3> QED BY <3>1 DEF IndexerRow
    <2>4. old \in Entry /\ remote[host] = [x \in DOMAIN remote[host] |-> remote[host][x]]
      BY <1>3, <1>4 DEF Inv, WorldType, IsTable
    <2>5. Payload(job[h], i) = [owner |-> old.owner, rev |-> rev]
      BY <2>2 DEF Payload
    <2>6. remote' = [remote EXCEPT ![host][id] = Payload(job[h], i)] /\ id \in DOMAIN remote[host]
      BY <1>1, <1>4
    <2>7. host \in Hosts /\ UNCHANGED <<nextRid, mapping, nextApp, edits>>
      BY <1>1, <1>2, <1>3, <1>4
    <2>8. Homes' = Homes
      BY <1>2 DEF Homes
    <2> HIDE DEF id, rev, host
    <2>9. [old EXCEPT !.rev = rev] = Payload(job[h], i)
      BY <2>4, <2>5 DEF Entry
    <2>10. remote' = [remote EXCEPT ![host][id].rev = rev]
      BY <2>6, <2>9
    <2>11. \E x \in Hosts : \E k \in DOMAIN remote[x], r \in Nat :
              remote[x][k].owner # Human /\ remote' = [remote EXCEPT ![x][k].rev = r]
      <3>1. id \in DOMAIN remote[host] /\ remote[host][id].owner # Human
        BY <2>2, <2>6
      <3> USE <2>3, <2>7, <3>1
      <3> WITNESS host \in Hosts
      <3> WITNESS id \in DOMAIN remote[host], rev \in Nat
      <3> QED BY <2>10
    <2>12. Remote!Rewrite
      BY <2>7, <2>8, <2>11 DEF Remote!Rewrite, Homes
    <2> QED BY <2>12 DEF Ledgers, Remote!Next
  <1>5. CASE job[h].known[i] \notin DOMAIN remote[host]
    BY <1>1, <1>2, <1>5, LedgerStays DEF world
  <1> QED BY <1>4, <1>5

LEMMA SaveMappingLedger ==
    ASSUME Inv, Own, NEW h \in Handlers, SaveMapping(h)
    PROVE  Ledgers
  <1> DEFINE p == <<job[h].app, job[h].item>>
             id == job[h].rid
  <1>1. /\ pc[h] = "save" /\ UNCHANGED <<apps, nextApp, world, edits>>
        /\ IF ParentsExist(job[h].app, job[h].item) THEN mapping' = With(mapping, p, id) ELSE UNCHANGED mapping
    BY DEF SaveMapping, Upsert, counters
  <1>2. CASE ParentsExist(job[h].app, job[h].item)
    <2>1. job[h].app \in DOMAIN apps /\ job[h].app \in DOMAIN job[h].queue /\ job[h].item \in Nat
      BY <1>1, <1>2, Locals DEF ParentsExist, Shape, Working, JobOK
    <2>2. Owned("save", job[h], apps, remote, nextRid)
      BY <1>1 DEF Own
    <2>3. Names(remote, nextRid, apps[job[h].app].host, id, p)
      BY <2>1, <2>2 DEF Owned, HostOf
    <2>4. p \in (DOMAIN Homes) \X Nat /\ p[1] = job[h].app /\ Homes[p[1]] = apps[job[h].app].host
      BY <2>1 DEF Homes
    <2>5. Homes' = Homes
      BY <1>1 DEF Homes
    <2> HIDE DEF p, id
    <2>6. /\ id \in 1 .. nextRid[Homes[p[1]]] - 1
          /\ id \in DOMAIN remote[Homes[p[1]]] => remote[Homes[p[1]]][id].owner = p
          /\ mapping' = Remote!Put(mapping, p, id)
      BY <1>1, <1>2, <2>3, <2>4 DEF Names, Remote!Put, With
    <2>7. UNCHANGED <<remote, nextRid, Homes, nextApp, edits>>
      BY <1>1, <2>5 DEF world
    <2>8. Remote!Name
      BY <2>4, <2>6, <2>7 DEF Remote!Name, Homes
    <2> QED BY <2>8 DEF Ledgers, Remote!Next
  <1>3. CASE ~ParentsExist(job[h].app, job[h].item)
    BY <1>1, <1>3, LedgerStays
  <1> QED BY <1>2, <1>3

LEMMA ForgottenLedger ==
    ASSUME NEW P, mapping' = Without(mapping, P), UNCHANGED <<apps, nextApp, world, edits>>
    PROVE  Ledgers
  <1> DEFINE Q == P \cap DOMAIN mapping
  <1>1. mapping' = Remote!Drop(mapping, Q) /\ Q \in SUBSET DOMAIN mapping
    <2>1. DOMAIN mapping \ P = DOMAIN mapping \ Q
      OBVIOUS
    <2> QED BY <2>1 DEF Without, Restrict, Remote!Drop
  <1>2. Homes' = Homes
    BY DEF Homes
  <1> HIDE DEF Q
  <1>3. Remote!Forget
    BY <1>1, <1>2 DEF Remote!Forget, Homes, world
  <1> QED BY <1>3 DEF Ledgers, Remote!Next

LEMMA CreateAppLedger ==
    ASSUME Inv, NEW h \in Handlers, CreateApp(h)
    PROVE  Ledgers
  <1>1. PICK row \in [level : AppLevels, host : Hosts] : apps' = With(apps, nextApp, row)
    BY DEF CreateApp
  <1>2. nextApp' = nextApp + 1 /\ UNCHANGED <<mapping, world, edits>>
    BY DEF CreateApp, Accept
  <1>3. Homes' = Remote!Put(Homes, nextApp, row.host) /\ row.host \in Hosts
    BY <1>1 DEF Homes, Remote!Put, With
  <1>4. Remote!Open
    BY <1>2, <1>3 DEF Remote!Open, Homes, world
  <1> QED BY <1>4 DEF Ledgers, Remote!Next

LEMMA UpdateAppLedger ==
    ASSUME ~BaseUrlMoves, Inv, NEW h \in Handlers, UpdateApp(h)
    PROVE  Ledgers
  <1>1. PICK a \in DOMAIN apps, row \in [level : AppLevels, host : Hosts] :
            row.host = apps[a].host /\ apps' = [apps EXCEPT ![a] = row]
    BY DEF UpdateApp
  <1>2. UNCHANGED <<nextApp, mapping, world, edits>>
    BY DEF UpdateApp, Accept
  <1>3. Homes' = Homes
    BY <1>1 DEF Homes
  <1> QED BY <1>2, <1>3 DEF Ledgers, world

LEMMA RemoveAppLedger ==
    ASSUME Inv, NEW h \in Handlers, RemoveApp(h)
    PROVE  Ledgers
  <1>1. PICK a \in DOMAIN apps :
            apps' = Without(apps, {a}) /\ mapping' = Without(mapping, {p \in DOMAIN mapping : p[1] = a})
    BY DEF RemoveApp
  <1>2. UNCHANGED <<nextApp, world, edits>>
    BY DEF RemoveApp, Accept
  <1>3. Homes' = Remote!Drop(Homes, {a}) /\ a \in DOMAIN Homes
    BY <1>1 DEF Homes, Remote!Drop, Without, Restrict
  <1>4. mapping' = Remote!Drop(mapping, {p \in DOMAIN mapping : p[1] = a})
    BY <1>1 DEF Remote!Drop, Without, Restrict
  <1>5. Remote!Close
    BY <1>2, <1>3, <1>4 DEF Remote!Close, Homes, world
  <1> QED BY <1>5 DEF Ledgers, Remote!Next

LEMMA HandLedger ==
    ASSUME Inv, HumanDelete \/ HumanAdd
    PROVE  Ledgers
  <1>1. UNCHANGED <<apps, nextApp, mapping>> /\ edits' = edits + 1
    BY DEF HumanDelete, HumanAdd, Edit, db
  <1>2. Homes' = Homes
    BY <1>1 DEF Homes
  <1>3. \E host \in Hosts : Remote!Add(host, Human) \/ \E id \in DOMAIN remote[host] : Remote!Remove(host, id)
    <2>1. CASE HumanDelete
      BY <2>1 DEF HumanDelete, DeleteEntry, Without, Restrict, Remote!Remove, Remote!Drop
    <2>2. CASE HumanAdd
      <3>1. 0 \in Nat
        OBVIOUS
      <3> QED BY <2>2, <3>1 DEF HumanAdd, With, Remote!Add, Remote!Put
    <2> QED BY <2>1, <2>2
  <1>4. Remote!Hand
    BY <1>1, <1>2, <1>3 DEF Remote!Hand, Homes
  <1> QED BY <1>4 DEF Ledgers, Remote!Next

LEMMA NextLedger ==
    ASSUME ~BaseUrlMoves, Inv, Own, [Next]_vars
    PROVE  Ledgers
  <1>1. ASSUME NEW h \in Handlers, Request(h) PROVE Ledgers
    <2>1. CreateIndexer(h) \/ UpdateIndexer(h) \/ RemoveIndexer(h) => UNCHANGED <<apps, nextApp, mapping, world, edits>>
      BY DEF CreateIndexer, UpdateIndexer, RemoveIndexer, Accept, db
    <2> QED BY <1>1, <2>1, LedgerStays, CreateAppLedger, UpdateAppLedger, RemoveAppLedger DEF Request
  <1>2. ASSUME NEW h \in Handlers, SyncStep(h) PROVE Ledgers
    <2>1. ListApps(h) \/ ListIndexers(h) \/ ListMappings(h) \/ FinishSync(h) \/ EndApp(h)
          => UNCHANGED <<apps, nextApp, mapping, world, edits>>
      BY DEF ListApps, ListIndexers, ListMappings, FinishSync, EndApp, db, counters
    <2>2. DropMapping(h) => Ledgers
      <3>1. SUFFICES ASSUME DropMapping(h) PROVE Ledgers
        OBVIOUS
      <3>2. mapping' = Without(mapping, {<<job[h].app, job[h].item>>}) /\ UNCHANGED <<apps, nextApp, world, edits>>
        BY <3>1 DEF DropMapping, counters
      <3> QED BY <3>2, ForgottenLedger
    <2>3. Post(h) \/ Repost(h) => \E i \in DOMAIN job[h].rows : PostEntry(h, i) /\ pc[h] \in {"push", "repost"}
      BY Locals DEF Post, Repost, Turn, Shape, Working
    <2>4. Post(h) \/ Repost(h) => Ledgers
      BY <2>3, PostEntryLedger
    <2> QED BY <1>2, <2>1, <2>2, <2>4, LedgerStays, DeleteRemoteLedger, PutLedger, SaveMappingLedger DEF SyncStep
  <1>3. ASSUME NEW h \in Handlers, RemoveStep(h) PROVE Ledgers
    <2>1. SnapshotMappings(h) \/ SnapshotApps(h) \/ FinishRemove(h) => UNCHANGED <<apps, nextApp, mapping, world, edits>>
      BY DEF SnapshotMappings, SnapshotApps, FinishRemove, db, counters
    <2>2. DeleteIndexerRow(h) => Ledgers
      <3>1. SUFFICES ASSUME DeleteIndexerRow(h) PROVE Ledgers
        OBVIOUS
      <3>2. UNCHANGED <<apps, nextApp, world, edits>>
        BY <3>1 DEF DeleteIndexerRow, counters
      <3>3. mapping' = mapping \/ mapping' = Without(mapping, {p \in DOMAIN mapping : p[2] = job[h].target})
        BY <3>1 DEF DeleteIndexerRow
      <3> QED BY <3>2, <3>3, ForgottenLedger, LedgerStays
    <2> QED BY <1>3, <2>1, <2>2, LedgerStays, CleanRemoteLedger DEF RemoveStep
  <1>4. ASSUME NEW h \in Handlers, Failure(h) PROVE Ledgers
    <2>1. UNCHANGED <<apps, nextApp, mapping, world, edits>>
      BY <1>4 DEF Failure, CallRefused, StatementFails, HandlerGone, Fault, db
    <2> QED BY <2>1, LedgerStays
  <1>5. CASE UNCHANGED vars
    BY <1>5, LedgerStays DEF vars, db, counters
  <1> QED BY <1>1, <1>2, <1>3, <1>4, <1>5, HandLedger DEF Next

\* As long as no application's base URL moves, the engine, its requests and their
\* failures implement the ledger: for any number of handlers, hosts, applications
\* and indexers, every step adds an entry under a fresh id, gives an entry of a
\* pair another revision, removes one of a pair, names a pair an entry of its own,
\* forgets names, opens or closes an application, or is an edit by hand.
THEOREM ImplementsTheLedger ==
    ASSUME ~BaseUrlMoves
    PROVE  Spec => ImplementsLedger
  <1>1. Init => Remote!Init
    <2> SUFFICES ASSUME Init PROVE Remote!Init
      OBVIOUS
    <2>1. DOMAIN SeedApps = 1 .. Len(SeedApps) /\ Len(SeedApps) \in Nat
      BY SyncAssumption
    <2>2. DOMAIN Homes \subseteq 1 .. nextApp - 1
      BY <2>1 DEF Init, Homes
    <2> QED BY <2>2 DEF Init, Remote!Init, Homes
  <1>2. Inv /\ Own /\ [Next]_vars => [Remote!Next]_(Remote!ledgerVars)
    <2> SUFFICES ASSUME Inv, Own, [Next]_vars PROVE [Remote!Next]_(Remote!ledgerVars)
      OBVIOUS
    <2>1. Ledgers
      BY NextLedger
    <2> QED BY <2>1 DEF Ledgers, Remote!ledgerVars, Homes
  <1> QED BY <1>1, <1>2, Ownership, PTL DEF Spec, ImplementsLedger, Remote!LedgerSpec
=============================================================================
