------------------------------ MODULE AppSync ------------------------------
(***************************************************************************)
(* The app-sync engine of oxidarr-prowl and the CRUD handlers that drive   *)
(* it: crates/oxidarr-prowl/src/sync.rs, src/api/indexers.rs,              *)
(* src/api/applications.rs and the three tables of crates/oxidarr-db they  *)
(* share.  Every request is served by a handler of its own; between two of *)
(* its awaits (one SQLite statement or one HTTP call each) any other       *)
(* handler may run.  There is no lock and no transaction around a sync.    *)
(*                                                                         *)
(* Abstracted: an indexer's name, definition, settings and priority are    *)
(* one revision number; a remote entry holds the (application, indexer)    *)
(* pair its payload was built for and that revision; an application is its *)
(* sync level and the host its base URL names.                             *)
(***************************************************************************)
EXTENDS Naturals, Sequences, Functions

CONSTANTS
    Handlers,       \* requests that can be in flight at once
    Hosts,          \* Sonarr/Radarr instances an application row can name
    SeedApps,       \* application rows 1, 2, ... present at the start
    IndexerKinds,   \* kinds a request may give an indexer
    AppLevels,      \* sync levels a request may give an application
    BaseUrlMoves,   \* TRUE: PUT /applications/{id} may change the host
    FaultKinds,     \* faults that may happen, of "refused", "lost", "db", "gone"
    HumanWhileBusy, \* TRUE: entries are edited by hand during a request too
    MaxIndexers, MaxApps, MaxRequests, MaxFaults, MaxEdits    \* bounds

Levels == {"disabled", "addOnly", "fullSync"}
Kinds == {"cardigann", "torznab"}       \* "torznab" stands for newznab too

IndexerRow == [enabled : BOOLEAN, kind : Kinds, rev : Nat]
AppRow == [level : Levels, host : Hosts]
Entry == [owner : Nat \X Nat, rev : Nat]
Human == <<0, 0>>       \* owner of an entry no sync created; ids start at 1

ASSUME SyncAssumption ==
    /\ SeedApps \in Seq(AppRow)
    /\ IndexerKinds \subseteq Kinds
    /\ AppLevels \subseteq Levels
    /\ BaseUrlMoves \in BOOLEAN
    /\ HumanWhileBusy \in BOOLEAN
    /\ FaultKinds \subseteq {"refused", "lost", "db", "gone"}
    /\ {MaxIndexers, MaxApps, MaxRequests, MaxFaults, MaxEdits} \subseteq Nat

VARIABLES
    indexers, nextIndexer,  \* table indexers: id -> row; AUTOINCREMENT id
    apps, nextApp,          \* table applications: id -> row; AUTOINCREMENT id
    mapping,                \* table app_indexer_map: <<app, indexer>> -> remote id
    remote, nextRid,        \* per host: remote id -> entry; next remote id
    pc, job,                \* per handler: next await, and its locals
    requests, faults, edits \* requests accepted, faults and hand edits so far

db == <<indexers, nextIndexer, apps, nextApp, mapping>>
world == <<remote, nextRid>>
counters == <<requests, faults, edits>>
vars == <<db, world, pc, job, counters>>

----------------------------------------------------------------------------
(* Partial functions, as tables. *)

IsTable(f, D, R) == DOMAIN f \subseteq D /\ f \in [DOMAIN f -> R]
Without(f, S) == Restrict(f, DOMAIN f \ S)
With(f, x, y) == [z \in DOMAIN f \cup {x} |-> IF z = x THEN y ELSE f[z]]
IsFirst(x, S) == x \in S /\ \A y \in S : x <= y

(***************************************************************************)
(* A handler's locals.  scope tells sync_all from a one-application sync;  *)
(* queue holds the application rows still to sync, as they were read, and  *)
(* results the outcome of those already synced; app is the one being       *)
(* synced, rows and known its snapshots of indexers and of its mappings;   *)
(* doomed and todo what is left of the delete and push loops; item and rid *)
(* an indexer whose remote call returned and whose mapping is not written  *)
(* yet.  target, held and cleanup belong to DELETE /indexer/{id}.          *)
(***************************************************************************)
Fresh == [scope |-> "one", queue |-> <<>>, results |-> <<>>, app |-> 0,
          rows |-> <<>>, known |-> <<>>, doomed |-> {}, todo |-> {},
          item |-> 0, rid |-> 0, target |-> 0, held |-> <<>>, cleanup |-> <<>>]

Labels == {"idle", "apps", "rows", "maps", "push", "unmap", "repost", "save",
           "snapshot", "snapapps", "delete", "cleanup"}

Init ==
    /\ indexers = <<>> /\ nextIndexer = 1
    /\ apps = SeedApps /\ nextApp = Len(SeedApps) + 1
    /\ mapping = <<>>
    /\ remote = [host \in Hosts |-> <<>>]
    /\ nextRid = [host \in Hosts |-> 1]
    /\ pc = [h \in Handlers |-> "idle"]
    /\ job = [h \in Handlers |-> Fresh]
    /\ requests = 0 /\ faults = 0 /\ edits = 0

Goto(h, label, locals) ==
    /\ pc' = [pc EXCEPT ![h] = label]
    /\ job' = [job EXCEPT ![h] = locals]

Respond(h) == Goto(h, "idle", Fresh)

(* A fault of the given kind happens, within the budget. *)
Fault(kind) ==
    /\ kind \in FaultKinds /\ faults < MaxFaults
    /\ faults' = faults + 1 /\ UNCHANGED <<requests, edits>>

(* Mutant: the first application that fails ends sync_all. *)
SettleAborting(h, ok) ==
    LET j == job[h] IN
    Goto(h, "rows", [Fresh EXCEPT !.scope = j.scope,
                                  !.queue = IF ok THEN Without(j.queue, {j.app}) ELSE <<>>,
                                  !.results = With(j.results, j.app, ok)])

(* sync_application returns: its result is kept and sync_all moves on. *)
Settle(h, ok) ==
    LET j == job[h] IN
    Goto(h, "rows", [Fresh EXCEPT !.scope = j.scope,
                                  !.queue = Without(j.queue, {j.app}),
                                  !.results = With(j.results, j.app, ok)])

----------------------------------------------------------------------------
(* Requests.  The row is written by one statement before any sync starts.  *)

Accept(h) ==
    /\ pc[h] = "idle" /\ requests < MaxRequests
    /\ requests' = requests + 1 /\ UNCHANGED <<faults, edits>>

IndexerBodies == [enabled : BOOLEAN, kind : IndexerKinds, rev : {requests + 1}]

CreateIndexer(h) ==
    /\ Accept(h)
    /\ nextIndexer <= MaxIndexers
    /\ \E row \in IndexerBodies : indexers' = With(indexers, nextIndexer, row)
    /\ nextIndexer' = nextIndexer + 1
    /\ Goto(h, "apps", [Fresh EXCEPT !.scope = "all"])
    /\ UNCHANGED <<apps, nextApp, mapping, world>>

UpdateIndexer(h) ==
    /\ Accept(h)
    /\ \E i \in DOMAIN indexers, row \in IndexerBodies :
          indexers' = [indexers EXCEPT ![i] = row]
    /\ Goto(h, "apps", [Fresh EXCEPT !.scope = "all"])
    /\ UNCHANGED <<nextIndexer, apps, nextApp, mapping, world>>

(* Mutant: the row is deleted before its mappings are read. *)
RemoveIndexerUnseen(h) ==
    /\ Accept(h)
    /\ \E i \in DOMAIN indexers : Goto(h, "delete", [Fresh EXCEPT !.target = i])
    /\ UNCHANGED <<db, world>>

RemoveIndexer(h) ==
    /\ Accept(h)
    /\ \E i \in DOMAIN indexers : Goto(h, "snapshot", [Fresh EXCEPT !.target = i])
    /\ UNCHANGED <<db, world>>

(* POST and PUT /applications sync the row the request carried, only it. *)
SyncOne(h, a, row) == Goto(h, "rows", [Fresh EXCEPT !.queue = With(<<>>, a, row)])

CreateApp(h) ==
    /\ Accept(h)
    /\ nextApp <= MaxApps
    /\ \E row \in [level : AppLevels, host : Hosts] :
          /\ apps' = With(apps, nextApp, row)
          /\ SyncOne(h, nextApp, row)
    /\ nextApp' = nextApp + 1
    /\ UNCHANGED <<indexers, nextIndexer, mapping, world>>

UpdateApp(h) ==
    /\ Accept(h)
    /\ \E a \in DOMAIN apps, row \in [level : AppLevels, host : Hosts] :
          /\ BaseUrlMoves \/ row.host = apps[a].host
          /\ apps' = [apps EXCEPT ![a] = row]
          /\ SyncOne(h, a, row)
    /\ UNCHANGED <<indexers, nextIndexer, nextApp, mapping, world>>

RemoveApp(h) ==
    /\ Accept(h)
    /\ \E a \in DOMAIN apps :
          /\ apps' = Without(apps, {a})
          /\ mapping' = Without(mapping, {p \in DOMAIN mapping : p[1] = a})
    /\ UNCHANGED <<indexers, nextIndexer, nextApp, world, pc, job>>

----------------------------------------------------------------------------
(* sync_all and sync_application. *)

ListApps(h) ==
    /\ pc[h] = "apps"
    /\ Goto(h, "rows", [job[h] EXCEPT !.queue = apps])
    /\ UNCHANGED <<db, world, counters>>

(* The next application; a disabled one is settled without a database read. *)
ListIndexers(h) ==
    /\ pc[h] = "rows"
    /\ \E a \in DOMAIN job[h].queue :
          /\ IsFirst(a, DOMAIN job[h].queue)
          /\ IF job[h].queue[a].level = "disabled"
             THEN Goto(h, "rows", [job[h] EXCEPT !.queue = Without(job[h].queue, {a}),
                                                 !.results = With(job[h].results, a, TRUE)])
             ELSE Goto(h, "maps", [job[h] EXCEPT !.app = a, !.rows = indexers])
    /\ UNCHANGED <<db, world, counters>>

FinishSync(h) ==
    /\ pc[h] = "rows" /\ DOMAIN job[h].queue = {}
    /\ Respond(h)
    /\ UNCHANGED <<db, world, counters>>

(* Mutant: the delete pass ignores the sync level. *)
DoomedAtAnyLevel(level, rows, known) ==
    {i \in DOMAIN known : ~(i \in DOMAIN rows /\ rows[i].enabled)}

(* Mapped indexers whose row is disabled or gone: fullSync only. *)
Doomed(level, rows, known) ==
    {i \in DOMAIN known : level = "fullSync" /\ ~(i \in DOMAIN rows /\ rows[i].enabled)}

(* Enabled rows the push loop does not skip. *)
Pushed(level, rows, known) ==
    {i \in DOMAIN rows : /\ rows[i].enabled /\ rows[i].kind = "cardigann"
                         /\ level = "fullSync" \/ i \notin DOMAIN known}

(* Mutant: for_app without its WHERE: the rows of every application. *)
ForAnyApp(a) ==
    [i \in {p[2] : p \in DOMAIN mapping} |->
        mapping[CHOOSE p \in DOMAIN mapping : p[2] = i /\ \A q \in DOMAIN mapping :
                                                q[2] = i => p[1] <= q[1]]]

(* MappingRepo::for_app and for_indexer. *)
ForApp(a) == [i \in {p[2] : p \in {q \in DOMAIN mapping : q[1] = a}} |-> mapping[<<a, i>>]]

ForIndexer(i) == [a \in {p[1] : p \in {q \in DOMAIN mapping : q[2] = i}} |-> mapping[<<a, i>>]]

ListMappings(h) ==
    /\ pc[h] = "maps"
    /\ LET j == job[h]
           level == j.queue[j.app].level
           known == ForApp(j.app)
       IN  Goto(h, "push", [j EXCEPT !.known = known,
                                     !.doomed = Doomed(level, j.rows, known),
                                     !.todo = Pushed(level, j.rows, known)])
    /\ UNCHANGED <<db, world, counters>>

HostOf(j) == j.queue[j.app].host

(* DELETE {host}/api/v3/indexer/{rid}: a 404 is success. *)
DeleteEntry(host, rid) == remote' = [remote EXCEPT ![host] = Without(@, {rid})]

DeleteRemote(h) ==
    /\ pc[h] = "push"
    /\ \E i \in job[h].doomed :
          /\ IsFirst(i, job[h].doomed)
          /\ DeleteEntry(HostOf(job[h]), job[h].known[i])
          /\ \/ Goto(h, "unmap", [job[h] EXCEPT !.item = i]) /\ UNCHANGED counters
             \/ Settle(h, FALSE) /\ Fault("lost")
    /\ UNCHANGED <<db, nextRid>>

DropMapping(h) ==
    /\ pc[h] = "unmap"
    /\ LET j == job[h] IN
       /\ mapping' = Without(mapping, {<<j.app, j.item>>})
       /\ Goto(h, "push", [j EXCEPT !.doomed = @ \ {j.item}, !.item = 0])
    /\ UNCHANGED <<indexers, nextIndexer, apps, nextApp, world, counters>>

Payload(j, i) == [owner |-> <<j.app, i>>, rev |-> j.rows[i].rev]

(* POST {host}/api/v3/indexer; the reply carries the id of the new entry. *)
PostEntry(h, i) ==
    LET j == job[h]
        host == HostOf(j)
    IN  /\ remote' = [remote EXCEPT ![host] = With(@, nextRid[host], Payload(j, i))]
        /\ nextRid' = [nextRid EXCEPT ![host] = @ + 1]
        /\ \/ /\ Goto(h, "save", [j EXCEPT !.item = i, !.rid = nextRid[host]])
              /\ UNCHANGED counters
           \/ Settle(h, FALSE) /\ Fault("lost")
        /\ UNCHANGED db

(* The indexer whose turn it is in the push loop. *)
Turn(h, i) == pc[h] = "push" /\ job[h].doomed = {} /\ IsFirst(i, job[h].todo)

Post(h) ==
    \E i \in job[h].todo \ DOMAIN job[h].known : Turn(h, i) /\ PostEntry(h, i)

(* PUT {host}/api/v3/indexer/{rid}; a 404 means the entry is gone. *)
Put(h) ==
    \E i \in job[h].todo \cap DOMAIN job[h].known :
       LET j == job[h]
           host == HostOf(j)
           rid == j.known[i]
       IN  /\ Turn(h, i)
           /\ IF rid \in DOMAIN remote[host]
              THEN /\ remote' = [remote EXCEPT ![host][rid] = Payload(j, i)]
                   /\ \/ Goto(h, "push", [j EXCEPT !.todo = @ \ {i}]) /\ UNCHANGED counters
                      \/ Settle(h, FALSE) /\ Fault("lost")
              ELSE Goto(h, "repost", [j EXCEPT !.item = i]) /\ UNCHANGED <<remote, counters>>
           /\ UNCHANGED <<db, nextRid>>

(* The fallback POST after that 404. *)
Repost(h) == pc[h] = "repost" /\ PostEntry(h, job[h].item)

(* Mutant: foreign keys are not enforced. *)
ParentsUnchecked(a, i) == TRUE

ParentsExist(a, i) == a \in DOMAIN apps /\ i \in DOMAIN indexers

(* Mutant: INSERT OR IGNORE: a row that exists keeps its remote id. *)
InsertOrIgnore(p, rid) == IF p \in DOMAIN mapping THEN mapping ELSE With(mapping, p, rid)

Upsert(p, rid) == With(mapping, p, rid)

(* MappingRepo::set: an upsert, refused by the foreign keys when the        *)
(* application or the indexer is gone.                                      *)
SaveMapping(h) ==
    /\ pc[h] = "save"
    /\ LET j == job[h] IN
       IF ParentsExist(j.app, j.item)
       THEN /\ mapping' = Upsert(<<j.app, j.item>>, j.rid)
            /\ Goto(h, "push", [j EXCEPT !.todo = @ \ {j.item}, !.item = 0, !.rid = 0])
       ELSE Settle(h, FALSE) /\ UNCHANGED mapping
    /\ UNCHANGED <<indexers, nextIndexer, apps, nextApp, world, counters>>

EndApp(h) ==
    /\ pc[h] = "push" /\ job[h].doomed = {} /\ job[h].todo = {}
    /\ Settle(h, TRUE)
    /\ UNCHANGED <<db, world, counters>>

----------------------------------------------------------------------------
(* DELETE /indexer/{id}. *)

SnapshotMappings(h) ==
    /\ pc[h] = "snapshot"
    /\ LET j == job[h]
           held == ForIndexer(j.target)
       IN  Goto(h, IF DOMAIN held = {} THEN "delete" ELSE "snapapps",
                [j EXCEPT !.held = held])
    /\ UNCHANGED <<db, world, counters>>

SnapshotApps(h) ==
    /\ pc[h] = "snapapps"
    /\ LET j == job[h]
           full == {a \in DOMAIN j.held \cap DOMAIN apps : apps[a].level = "fullSync"}
       IN  Goto(h, "delete", [j EXCEPT !.cleanup =
                [a \in full |-> [host |-> apps[a].host, rid |-> j.held[a]]]])
    /\ UNCHANGED <<db, world, counters>>

(* The row and, by ON DELETE CASCADE, its mappings; 404 when already gone. *)
DeleteIndexerRow(h) ==
    /\ pc[h] = "delete"
    /\ LET i == job[h].target IN
       IF i \in DOMAIN indexers
       THEN /\ indexers' = Without(indexers, {i})
            /\ mapping' = Without(mapping, {p \in DOMAIN mapping : p[2] = i})
            /\ Goto(h, "cleanup", job[h])
       ELSE Respond(h) /\ UNCHANGED <<indexers, mapping>>
    /\ UNCHANGED <<nextIndexer, apps, nextApp, world, counters>>

(* Mutant: the loop does not move past the call it made. *)
NextDoomedStuck(h, a) == Goto(h, "cleanup", job[h])

NextDoomed(h, a) == Goto(h, "cleanup", [job[h] EXCEPT !.cleanup = Without(@, {a})])

CleanRemote(h) ==
    /\ pc[h] = "cleanup"
    /\ \E a \in DOMAIN job[h].cleanup :
          /\ IsFirst(a, DOMAIN job[h].cleanup)
          /\ DeleteEntry(job[h].cleanup[a].host, job[h].cleanup[a].rid)
          /\ NextDoomed(h, a)
    /\ UNCHANGED <<db, nextRid, counters>>

FinishRemove(h) ==
    /\ pc[h] = "cleanup" /\ DOMAIN job[h].cleanup = {}
    /\ Respond(h)
    /\ UNCHANGED <<db, world, counters>>

----------------------------------------------------------------------------
(* What can go wrong. *)

(* A call the remote side refuses, or a definition that does not load:      *)
(* nothing happened remotely.  It ends this application's sync; DELETE      *)
(* /indexer/{id} discards the outcome and goes on.                          *)
CallRefused(h) ==
    /\ Fault("refused")
    /\ \/ /\ pc[h] = "push" /\ job[h].doomed \cup job[h].todo # {}
          /\ Settle(h, FALSE)
       \/ pc[h] = "repost" /\ Settle(h, FALSE)
       \/ /\ pc[h] = "cleanup"
          /\ \E a \in DOMAIN job[h].cleanup :
                IsFirst(a, DOMAIN job[h].cleanup) /\ NextDoomed(h, a)
    /\ UNCHANGED <<db, world>>

(* A statement fails.  Listing applications degrades to an empty list, the  *)
(* two snapshots of DELETE /indexer/{id} to nothing to clean up; a sync     *)
(* that cannot read the instance key does not start.                        *)
StatementFails(h) ==
    /\ Fault("db")
    /\ \/ pc[h] = "apps" /\ Goto(h, "rows", job[h])
       \/ pc[h] = "rows" /\ \E a \in DOMAIN job[h].queue :
             /\ IsFirst(a, DOMAIN job[h].queue) /\ job[h].queue[a].level # "disabled"
             /\ Goto(h, "rows", [job[h] EXCEPT !.queue = Without(job[h].queue, {a}),
                                               !.results = With(job[h].results, a, FALSE)])
       \/ pc[h] \in {"maps", "unmap", "save"} /\ Settle(h, FALSE)
       \/ pc[h] \in {"snapshot", "snapapps"} /\ Goto(h, "delete", job[h])
       \/ pc[h] \in {"apps", "delete"} /\ Respond(h)
    /\ UNCHANGED <<db, world>>

(* The client hangs up or the process dies: the handler's future is dropped *)
(* at an await.  What it wrote stays.                                       *)
HandlerGone(h) ==
    /\ pc[h] # "idle"
    /\ Fault("gone")
    /\ Respond(h)
    /\ UNCHANGED <<db, world>>

Edit ==
    /\ edits < MaxEdits /\ edits' = edits + 1
    /\ HumanWhileBusy \/ \A h \in Handlers : pc[h] = "idle"
    /\ UNCHANGED <<requests, faults>>

HumanDelete ==
    /\ Edit
    /\ \E host \in Hosts : \E rid \in DOMAIN remote[host] : DeleteEntry(host, rid)
    /\ UNCHANGED <<db, nextRid, pc, job>>

HumanAdd ==
    /\ Edit
    /\ \E host \in Hosts :
          /\ remote' = [remote EXCEPT ![host] =
                            With(@, nextRid[host], [owner |-> Human, rev |-> 0])]
          /\ nextRid' = [nextRid EXCEPT ![host] = @ + 1]
    /\ UNCHANGED <<db, pc, job>>

----------------------------------------------------------------------------
Request(h) ==
    \/ CreateIndexer(h) \/ UpdateIndexer(h) \/ RemoveIndexer(h)
    \/ CreateApp(h) \/ UpdateApp(h) \/ RemoveApp(h)

SyncStep(h) ==
    \/ ListApps(h) \/ ListIndexers(h) \/ ListMappings(h) \/ FinishSync(h)
    \/ DeleteRemote(h) \/ DropMapping(h)
    \/ Post(h) \/ Put(h) \/ Repost(h) \/ SaveMapping(h) \/ EndApp(h)

RemoveStep(h) ==
    \/ SnapshotMappings(h) \/ SnapshotApps(h) \/ DeleteIndexerRow(h)
    \/ CleanRemote(h) \/ FinishRemove(h)

Failure(h) == CallRefused(h) \/ StatementFails(h) \/ HandlerGone(h)

Next ==
    \/ \E h \in Handlers : Request(h) \/ SyncStep(h) \/ RemoveStep(h) \/ Failure(h)
    \/ HumanDelete \/ HumanAdd

Spec == Init /\ [][Next]_vars

(* A started handler is polled until it responds: every statement and every *)
(* call returns.  Requests, faults and hand edits owe nothing.              *)
FairSpec == Spec /\ \A h \in Handlers : WF_vars(SyncStep(h) \/ RemoveStep(h))

----------------------------------------------------------------------------
(* Properties. *)

(* A handler's locals, with applications below n. *)
JobOK(j, n) ==
    /\ DOMAIN j = DOMAIN Fresh
    /\ j.scope \in {"one", "all"}
    /\ j.app \in Nat /\ j.item \in Nat /\ j.rid \in Nat /\ j.target \in Nat
    /\ j.doomed \subseteq Nat /\ j.todo \subseteq Nat
    /\ IsTable(j.queue, 1 .. n - 1, AppRow)
    /\ IsTable(j.results, Nat, BOOLEAN)
    /\ IsTable(j.rows, Nat, IndexerRow)
    /\ IsTable(j.known, Nat, Nat)
    /\ IsTable(j.held, 1 .. n - 1, Nat)
    /\ IsTable(j.cleanup, 1 .. n - 1, [host : Hosts, rid : Nat])

(* Every table row, remote entry and handler local has its declared type,   *)
(* and no id a table holds is one its counter may hand out again.           *)
TypeOK ==
    /\ nextIndexer \in Nat \ {0} /\ IsTable(indexers, 1 .. nextIndexer - 1, IndexerRow)
    /\ nextApp \in Nat \ {0} /\ IsTable(apps, 1 .. nextApp - 1, AppRow)
    /\ IsTable(mapping, (1 .. nextApp - 1) \X (1 .. nextIndexer - 1), Nat)
    /\ nextRid \in [Hosts -> Nat \ {0}]
    /\ DOMAIN remote = Hosts
    /\ \A host \in Hosts : IsTable(remote[host], 1 .. nextRid[host] - 1, Entry)
    /\ pc \in [Handlers -> Labels]
    /\ DOMAIN job = Handlers /\ \A h \in Handlers : JobOK(job[h], nextApp)
    /\ requests \in Nat /\ faults \in Nat /\ edits \in Nat

(* Crash, races and lost replies notwithstanding, a mapping row never names *)
(* an entry some other pair, or a human, owns: "which id the indexer is     *)
(* known by inside that application" (oxidarr-db/src/mapping.rs).           *)
MappingNamesOwnEntry ==
    \A p \in DOMAIN mapping :
        p[1] \in DOMAIN apps =>
            LET entries == remote[apps[p[1]].host] IN
            mapping[p] \in DOMAIN entries => entries[mapping[p]].owner = p

(* SaveMapping may run after DELETE removed the application or the indexer: *)
(* no mapping row is left for either.                                       *)
MappingReferencesLiveRows ==
    \A p \in DOMAIN mapping : p[1] \in DOMAIN apps /\ p[2] \in DOMAIN indexers

(* Handler h takes a step. *)
Moves(h) == pc'[h] # pc[h] \/ job'[h] # job[h]

(* The pairs whose entries a handler may change: those of its delete and    *)
(* push loops, and those DELETE /indexer/{id} cleans up.                    *)
Responsible(j) ==
    {<<j.app, i>> : i \in j.doomed \cup j.todo} \cup {<<a, j.target>> : a \in DOMAIN j.cleanup}

(* The entry is as it was, or a hand edit changed it, or the step is one of *)
(* a handler that is responsible for its pair and leaves its owner alone.   *)
TouchedByOwner(host, rid) ==
    LET old == remote[host][rid] IN
    \/ rid \in DOMAIN remote'[host] /\ remote'[host][rid] = old
    \/ edits' # edits
    \/ /\ \E h \in Handlers : Moves(h) /\ old.owner \in Responsible(job[h])
       /\ rid \in DOMAIN remote'[host] => remote'[host][rid].owner = old.owner

(* No PUT overwrites, and no DELETE removes, an entry that was created for  *)
(* another pair than the one it is sent for; entries added by hand are      *)
(* never touched.  Stale snapshots, races, lost replies and crashes change  *)
(* nothing of that.                                                         *)
EntriesTouchedByOwner ==
    [][\A host \in Hosts : \A rid \in DOMAIN remote[host] : TouchedByOwner(host, rid)]_vars

(* The same for a handler that read the entry's application as fullSync. *)
TouchedByFullSync(host, rid) ==
    LET a == remote[host][rid].owner[1] IN
    \/ rid \in DOMAIN remote'[host] /\ remote'[host][rid] = remote[host][rid]
    \/ edits' # edits
    \/ \E h \in Handlers :
          /\ Moves(h)
          /\ \/ a \in DOMAIN job[h].queue /\ job[h].queue[a].level = "fullSync"
             \/ a \in DOMAIN job[h].cleanup

(* addOnly: "nothing is ever deleted", nor rewritten (sync.rs, Sync         *)
(* levels): an entry that exists changes only for a handler that read its   *)
(* application as fullSync, or by hand.                                     *)
OnlyFullSyncTouchesEntries ==
    [][\A host \in Hosts : \A rid \in DOMAIN remote[host] : TouchedByFullSync(host, rid)]_vars

(* "A mapping can never actually be found pointing at a missing indexer     *)
(* here" (sync.rs, Sync levels): what the delete pass deletes is disabled.  *)
DoomedAreListed ==
    \A h \in Handlers : job[h].doomed \subseteq DOMAIN job[h].rows

AllIdle == \A h \in Handlers : pc[h] = "idle"

(* "Every synced indexer's identity lives entirely in the mapping table"    *)
(* (sync.rs, Ownership): once no request runs, an entry that stands for an  *)
(* existing application and indexer is the one their mapping names.         *)
EveryEntryIsMapped ==
    AllIdle =>
        \A a \in DOMAIN apps, i \in DOMAIN indexers :
            \A rid \in DOMAIN remote[apps[a].host] :
                remote[apps[a].host][rid].owner = <<a, i>> =>
                    <<a, i>> \in DOMAIN mapping /\ mapping[<<a, i>>] = rid

(* Application a shows exactly the enabled Cardigann indexers, each at its  *)
(* current revision, and nothing of a disabled one.                         *)
Mirrors(a) ==
    \A i \in DOMAIN indexers :
        LET p == <<a, i>>
            entries == remote[apps[a].host]
        IN  IF indexers[i].enabled
            THEN indexers[i].kind = "cardigann" =>
                    /\ p \in DOMAIN mapping /\ mapping[p] \in DOMAIN entries
                    /\ entries[mapping[p]] = [owner |-> p, rev |-> indexers[i].rev]
            ELSE /\ p \notin DOMAIN mapping
                 /\ \A rid \in DOMAIN entries : entries[rid].owner # p

(* A response without syncError tells the truth: when a sync responds, each *)
(* fullSync application it reports no failure for mirrors the indexers; and *)
(* sync_all reports on every application, whichever of them failed.         *)
SyncReportIsHonest ==
    [][\A h \in Handlers :
          pc[h] = "rows" /\ pc'[h] = "idle" /\ DOMAIN job[h].queue = {} =>
              \A a \in DOMAIN apps :
                  /\ job[h].scope = "all" => a \in DOMAIN job[h].results
                  /\ a \in DOMAIN job[h].results /\ job[h].results[a]
                     /\ apps[a].level = "fullSync" => Mirrors(a)]_vars

(* DELETE /indexer/{id}, nothing failing, leaves no entry of the indexer in *)
(* any fullSync application.                                                *)
RemovalLeavesNothing ==
    [][\A h \in Handlers :
          pc[h] = "cleanup" /\ pc'[h] = "idle" /\ faults' = 0 =>
              \A a \in DOMAIN apps :
                  apps[a].level = "fullSync" =>
                      \A rid \in DOMAIN remote[apps[a].host] :
                          remote[apps[a].host][rid].owner # <<a, job[h].target>>]_vars

(* As long as no base URL moves, the engine is the ledger of its hosts.     *)
Remote == INSTANCE Ledger WITH
              entries <- remote, next <- nextRid, names <- mapping,
              home <- [a \in DOMAIN apps |-> apps[a].host], opened <- nextApp,
              byHand <- edits

ImplementsLedger == Remote!LedgerSpec

(* Every request is answered, whatever fails. *)
RequestsComplete == \A h \in Handlers : pc[h] # "idle" ~> pc[h] = "idle"

=============================================================================
