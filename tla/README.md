# TLA+ models of oxidarr

oxidarr is a Rust rewrite of the *arr family. What runs today is **prowl**, the indexer manager
(`crates/oxidarr-prowl`): it keeps a list of indexers and of Sonarr/Radarr applications in SQLite,
pushes the indexers into the applications, searches the indexers over HTTP, and keeps a directory
of Cardigann definitions up to date. This directory holds its formal models: what each component
does, step by step, what must hold of it, and the proofs.

    tlc -workers 2 -config Concurrent.cfg MCAppSync     # any run: its .cfg and its MC module
    tlapm AppSyncProofs.tla                             # any module with theorems (all of them: 30 to 40 minutes)

## 1. Inventory

All paths are under `src/crates/`. "State" is what outlives one call.

| Component | Source | State | Operations | Hard because | Correct when |
|---|---|---|---|---|---|
| App sync engine | `oxidarr-prowl/src/sync.rs` | `app_indexer_map`; the entries in each Sonarr/Radarr | `sync_application`, `sync_all`, `post_indexer`, `put_indexer`, `delete_indexer` | no lock and no transaction around a sync: other handlers run at every await; remote calls fail, or succeed with a lost reply; the handler can be dropped; the loops work from snapshots | an id is only ever used for the pair it was stored for; addOnly changes nothing that exists; the report tells the truth; no entry is orphaned |
| Indexer and application CRUD | `oxidarr-prowl/src/api/{indexers,applications,mod}.rs` | tables `indexers`, `applications` | `POST`, `PUT`, `DELETE` of both, each followed by a sync or a clean-up | the row is written before the sync starts and stays when the sync fails; a delete must snapshot before the cascade | no mapping outlives its rows; a removal leaves nothing behind; every request is answered |
| Relational store | `oxidarr-db` | three tables and `config` | repositories of single statements; cascades, upsert, AUTOINCREMENT | statements of several handlers interleave | ids are never reused, foreign keys hold |
| Definitions updater | `oxidarr-prowl/src/definitions_sync.rs`, `main.rs` | directories `live`, `live.staging`, `live.previous` | `sync_once` (download, stage, install), `spawn_updater`'s loop, start-up | the process can die between two renames, or inside a recursive delete; a failed run leaves rubbish for the next one | live is absent or one whole release; the last copy is not destroyed; an absent live comes back |
| Definition store | `oxidarr-prowl/src/definitions.rs` | in-memory cache | `get`, `refresh`, `list_ids` | two gets and a refresh interleave; the lock is not held over the file read | callers agree on one definition; a refreshed definition is seen |
| Instance API key | `oxidarr-db/src/config.rs`, `oxidarr-http/src/auth.rs` | `config` row | `api_key` (generate on first use), the middleware | two first callers race; one user holds the key read at start-up | one key, ever |
| Search and Torznab router | `oxidarr-prowl/src/api/search.rs`, `server.rs` | none | fan-out over indexers, per-request definition lookup | several searches in flight, some fail | one failure does not fail the others; a total failure is not an empty result |
| Cardigann sessions | `oxidarr-indexer/src/{cardigann,login}.rs` | shared cookie jar | login flows, search, one re-login | two searches of one indexer share a session | exactly one retry; no request without a login |
| HTTP client | `oxidarr-indexer/src/reqwest_client.rs` | cookie jar | `execute` with manual redirects | hop limit; method and body change per status | at most ten hops; a POST is not replayed where it must not |
| Newznab/Torznab indexers | `oxidarr-indexer/src/{indexer,rss}.rs` | none | build a URL, parse a feed | a feed comes in fragments, its children in any order, some of them twice | a feed that was rendered reads back as the releases it was made of |
| Cardigann engine | `oxidarr-cardigann` | none | templates, selectors, filters, dates, row extraction, category map, `validate` | two hand-written parsers, a selector dialect rewritten into another, dates without a year or a zone, fields that read earlier fields of their row | each means what a definition's author may read it as; rows stand alone; what `validate` accepts does not fail at search time |
| Web UI | `oxidarr-ui` | API key, rows shown, the form's drafts | screens, key prompt on 401 | the user clicks on while calls are in flight; answers are late; forms share their draft signals | an acknowledged write ends up on the screen; a form saves its own row; no draft holds a stored secret; a late 401 does not drop a newer key |
| Resources and forms | `oxidarr-prowl/src/api/{dto,indexer_schema}.rs`, `oxidarr-ui/src/components/fields.rs` | none | row to resource to form and back; schema; test | settings are JSON values in the store, strings in a search, texts and boxes in a form; secrets are masked and blank means unchanged | what is saved is what the form showed; what Test probes is what a search asks |
| Configuration and start-up | `oxidarr-prowl/src/{config,main,ui}.rs` | none | layered options, finding the file, the bundle served | three sources per option, two of them texts | the environment wins, right or wrong; a miss below a route is never the page |
| Migration command | `oxidarr-migrate` | applied versions | `migrate`, `--status` | may break off half-way | the next run does the rest and says so |
| Read endpoints, core types | `oxidarr-prowl/src/{api/system,health}.rs`, `oxidarr-core` | none | constants, plain types | - | - |

How they interact. An HTTP request is one handler task. A handler calls the store through
single statements (there is no transaction across them), then the sync engine, which calls the
store again and the remote application over HTTP. The sync engine asks the definition store for
the definition of each indexer it pushes. The updater task and the request handlers share the live
directory (through the file system) and the cache (through a mutex held only over map accesses).

## 2. Modules

| Module | Models | Of |
|---|---|---|
| `AppSync` | every request that changes state, the sync it starts and the clean-up of `DELETE /indexer/{id}`, one action per await; the three tables; the remote applications; faults; a human | `sync.rs`, `api/*.rs`, `oxidarr-db` |
| `MCAppSync` | model values and seeds for TLC | |
| `Ledger` | what the sync engine makes of the remote instances: per host entries and their owners, per pair the name it has for its entry, hands | the abstract specification of `AppSync` |
| `AppSyncProofs` | two inductive invariants of any number of handlers, the one of one request at a time, the theorems that follow, the descent of every handler, the refinement of `Ledger` | |
| `Definitions` | updater, directories, cache, readers, crashes | `definitions_sync.rs`, `definitions.rs`, `main.rs` |
| `MCDefinitions` | model values and releases for TLC | |
| `DefinitionsProofs` | the inductive invariant and the theorems that follow | |
| `InstanceKey` | `api_key` with all its callers, several processes, an operator | `config.rs`, `main.rs`, `server.rs` |
| `KeyCell` | what `api_key` promises: a cell that is filled once and that nothing but a counted edit of the operator replaces or clears | the abstract specification of `InstanceKey` |
| `MCInstanceKey`, `InstanceKeyProofs` | model values; types, key agreement, the refinement | |
| `CardigannSession` | searches that share one cookie jar: pages, rejection, login, repetition | `cardigann.rs`, `login.rs`, `reqwest_client.rs` |
| `MCCardigannSession` | the definitions and trackers explored | |
| `SearchEndpoint` | the search handler over `CardigannSession`, feed rows and the Torznab route | `api/search.rs`, `server.rs` |
| `MCSearchEndpoint`, `SearchProofs` | the accounts and listings explored; for searches and endpoint the strengthenings, the invariant of the handler, the sort, the theorems | |
| `Redirects` | one `execute` of the client, hop by hop; with the proofs of its types and of what a chain does to a request | `reqwest_client.rs`, `client.rs` |
| `Text` | strings as sequences of atoms, with what `str` does to them | external |
| `Template` | tokens, recursive descent and rendering of a template | `template.rs` |
| `Filters`, `DateFilters` | the filters of a field; the ones that read a date, with its layouts | `filters.rs`, `fuzzydate.rs`, `netlayout.rs` |
| `Categories` | the category table and a definition's mapping | `categories.rs`, `catmap.rs` |
| `Selectors` | selector rewriting, compilation and matching | `selector.rs` |
| `Engine` | `extract`, fields, sizes, releases, `validate` | `engine.rs`, `model.rs`, `lib.rs` |
| `Requests` | which paths a search asks, and how | `builder.rs`, `query.rs` |
| `FormFields` | the pairs of a login form and what `upsert` lays over them | `login.rs` |
| `LoginForm` | what a login sends and how an answer is judged | `login.rs` |
| `Feeds` | the feed and the caps rendered, the feed read, the URL asked | `torznab.rs`, `rss.rs`, `indexer.rs` |
| `Ordered` | numbers in their order, and what a loop over a list keeps of it | `ORDER BY`, `sort_unstable`, `dedup`, `Iterator::filter` |
| `Rows` | the statements of the repositories and the columns of their rows | `oxidarr-db` |
| `Resources` | rows as resources, resources as forms, forms as rows | `dto.rs`, `indexer_schema.rs`, `indexers.rs`, `applications.rs`, the UI's forms |
| `Migrations` | the migrations a file has, lacks and gets | `oxidarr-migrate`, `Db::open` in `oxidarr-db/src/lib.rs` |
| `DataProofs` | for data of any size: what the tables keep, what a category mapping asks for and caps advertise, what forms save, what migrations leave, how options, file and bundle are found, that a feed reads back | |
| `SiteProofs` | for any words of a site: how its feed is read, what its login form is filled in with, what the filters make of its texts | |
| `Queries` | the search form and its query string; the query strings of both search routes; the Torznab dispatch; sizes and ages shown | `screens/search.rs`, `dto.rs`, `api/search.rs`, `server.rs` |
| `Instance` | options, configuration file, the bundle | `config.rs`, `main.rs`, `ui.rs` |
| `MCPipeline` | bounded inputs of all of the above, grown atom by atom, beside the calls of `Redirects` | |
| `RowsScreen`, `MCRowsScreen` | one browser tab: key prompt, and the indexer or application screen, against the server's table | `oxidarr-ui/src/{app,screens/indexers,screens/applications}.rs` |
| `RowsScreenProofs` | the invariants of the tab and the theorems that follow | |

`SearchEndpoint` EXTENDS `CardigannSession`: a search of the endpoint's JoinSet is one of its
searches, so the handler is checked over everything a tracker and a login can do to it.
`InstanceKey` instantiates `KeyCell` with a refinement mapping, and so does `AppSync` `Ledger`. `Engine` instantiates `Template`,
`Filters`, `Selectors` and `Categories`, `Requests` the first and the last of them, `LoginForm`
`Requests`, `Selectors` and `Filters` (it EXTENDS `FormFields`), and `Queries` both `Requests` and `Feeds`, as the crates call
each other; so an instance asked by another one (`InstanceHandsOn`) is the code of both sides.
The other modules stand alone:
`AppSync` meets `Definitions` only in that a definition may fail to load (`CallRefused`), and
`RowsScreen` meets the handlers of `AppSync` only in that a write succeeds, is refused, or gets lost.

### AppSync

*State.* `indexers`, `apps` and `mapping` are the three tables (partial functions from ids to
rows), `nextIndexer` and `nextApp` their AUTOINCREMENT counters. `remote[host]` is the indexer list
of one Sonarr/Radarr. `pc[h]` is the await a handler is at and `job[h]` its local variables:
`queue` (application rows as read), `rows` (the indexers as read), `known` (the mappings as read),
`doomed` and `todo` (the rest of the delete loop and of the push loop), `item` and `rid` (a remote
call returned, its mapping is not written yet), `target`, `held`, `cleanup` (`DELETE /indexer`).

*Actions.* One per await: everything a handler does between two awaits is one action, so every
interleaving the tokio runtime can produce is explored, and no other. `ListApps`, `ListIndexers`,
`ListMappings` are the three reads; `DeleteRemote`/`DropMapping` one turn of the delete loop;
`Post`/`SaveMapping` and `Put`/`Repost`/`SaveMapping` one turn of the push loop; `EndApp` and
`FinishSync` the returns. `SnapshotMappings`, `SnapshotApps`, `DeleteIndexerRow`, `CleanRemote`,
`FinishRemove` are `DELETE /indexer/{id}`. `CallRefused` (a remote call fails, or the definition of
the indexer does not load), a lost reply (inside `DeleteRemote`, `PostEntry`, `Put`: the effect took
place and the caller sees an error), `StatementFails` and `HandlerGone` are the failures, at every
place where the code can meet them and with what the code does there: end of this application's
sync, an empty list, nothing to clean up, or a response.

*Abstractions.* An indexer's name, definition, settings and priority are one revision number, a
fresh one for each write: two entries have the same content exactly when they have the same
revision. A remote entry carries the (application, indexer) pair its payload was built for, which
the real payload carries in its base URL (`{external_url}/{indexer_id}/api`), and that revision;
an entry added by hand belongs to `<<0, 0>>`. Kind `"torznab"` stands for newznab too: the push
loop skips both alike. Requests that fail validation, violate UNIQUE or name an unknown id change
nothing and are not steps; the read endpoints and `POST .../test` change nothing either. The
instance key and the external URL do not change while the service runs.

*Assumed of the outside.* Sonarr/Radarr never reuse an id, accept any well-formed `POST`, answer
404 exactly when the id is gone. SQLite enforces the foreign keys (`PRAGMA foreign_keys` is set on
every connection, `oxidarr-db/src/lib.rs`) and runs a statement atomically.

### Definitions

*State.* `exists` and `files` are the three directories; a file is `<<id, release>>`, release 0 one
cut short by a crash. `task` is the next step of the updater, `body` the archive it downloaded,
`left` the entries still to extract. `cache`, `reader`, `wanted` and `got` are the definition store
and the `get` calls in progress. `kept` is history: what live held when the last run started.

*Actions.* One per system call: `Download`, `ClearStaging`, `MakeStaging`, `Extract` (one archive
entry), `ClearPrevious`, `MoveAside`, `Swap`, `DropPrevious`, `Refresh`, `GiveUp` (the clean-up of a run that
failed after its download). `IoFault` makes the step at hand fail and `Crash` kills the process there; both may leave a recursive delete half
done or a file torn (`Interrupted`). `Start` is what `main` decides after counting the files of
live. `Get`, `Load`, `Insert` are the lookups of the cache, the file read and `or_insert`.

*Abstractions.* A definition is the release it came from; ids that `validate_id` rejects never
reach the disk; rename and mkdir are atomic; loss of unsynced writes at a power cut is not
modelled (the code makes no claim about it: it never calls fsync).

### InstanceKey and KeyCell

*State.* `row` is the one row of the `config` table, `call[<<p, i>>]` where call `i` of process `p`
stands: call 0 is the one `main` prints, call 1 the one `app()` keeps for the `/api/v1` middleware,
the others are requests.

*Actions.* `Get`, `Insert`, `Reread` are the three statements of `api_key`; `Return` and `Raise` say
what an answer or an error means to the caller (the start goes on, or the process ends).
`StatementFails`, `Die` and `Rotate` (the operator edits or deletes the row) can come anywhere.
`KeyCell` is what this amounts to for anyone who sees the key, the answers and how often the operator
has edited the row (its `edits` is `rotations`): a step that replaces or clears the key and is not
such an edit is no step of the cell.

### CardigannSession

*State.* `jar` is the session the shared cookie store names; `run[s]` is a search: the request it
has out, the cookie it carried (`carries`: read from the jar at the moment it was sent), the session the login form
was served to, the reply, and what it extracted. `known` is the tracker's side. `past` is history: how a
search began (alone and warm, alone and cold, or disturbed by another) and its logins.

*Actions.* `Begin` starts searches; `ServePage` and `ServeLogin` are the tracker; `Accept`, `Rejected`,
`Landing`, `LoggedIn`, `Tested`, `Again` are what the code does when a response arrives, named
after the function that received it. The cookie of a response goes into the jar when it arrives
(`Arrives`), so the jar can change between any two requests of a search. `Fail`, `Drop`, `Expire` are the trouble.

*Abstractions.* A page is what `search.error` or `login.test` makes of it; the redirects an exchange
follows are part of it; the definition (method, captcha, error rules, test, literal cookies, cookie
setting) and the tracker (cookies for visitors, one session per account, members see no form, token in the
form) are chosen once and stay. A session that nothing names is forgotten, which keeps the set of
sessions finite; the instances have one more than can ever be named.

### SearchEndpoint

*State.* `handler` is one `GET /api/v1/search`: its rows, the tasks it has still to join, and the
locals of its loop (how many tasks found something to hand over, their releases, the rows that failed);
`feed` the tasks of Newznab and Torznab rows; `answer` the last answer.

*Actions.* `Ask` spawns the tasks, `Join` is one `join_next`, `Answer` the response when all are in,
`HangUp` drops the JoinSet with its tasks. `Torznab` starts a search of the other route.
Releases are the pages' entries, ranked by `Sorted`, a stable sort by seeders. Categories, the
query and the limit of a page are not modelled.

### RowsScreen

*State.* `table` is the server's, `version` counts its writes; `list` the rows shown with the version
they are of; `fetch`, `schema`, `calls` what is in flight; `screen`, `draft`, `confirm` the
signals of the screen; `typed` is history. `key` is what the tab holds, `wanted` what the server accepts.

*Actions.* What the user can do in each state of the screen (`Add`, `PickDefinition`, `Edit`, `Type`,
`Cancel`, `AskDelete`, `Save`, `Toggle`, `ConfirmDelete`, `EnterKey`, `Leave`), the server (`ServeFetch`,
`Serve`, `ServeBadly`), the arrival of answers (`FetchArrives`, `SchemaArrives`, `Hear`) and
others (`Elsewhere`). The two screens differ where the code does: the definition picker and the switch in the list are the
indexers', validation before a save the applications'.

*Assumed of dioxus.* A task ends when the component that spawned it is unmounted; `restart` of a
resource cancels the fetch in flight and keeps the value shown until the new one is there; a
component without props re-renders only when a signal it reads changes.

*Abstractions.* A row is its text, its secret and its switch (for an application: the sync level). Test outcomes,
the banner, the search and the status screen are left out.

### Redirects

*State.* `asked` is the request `execute` was called with, `current` the one of the hop that is out,
`hops` the method and status of each hop so far, `outcome` what is returned. *Actions.* `Deliver`,
`Follow`, `GiveUp` and `TransportFails` are the four ways an iteration of the loop ends. The web is the
environment: any status, any or no Location. Cookies are `CardigannSession`'s.

### The pure modules and MCPipeline

The rest of the code keeps no state between calls: a template, a selector, a feed, a form. Each
of its functions is an operator (or a recursive one) of the module of its file, in the file's
order, and the end of each module states what the functions are for in terms that do not use the way
they work:

* `Template!MeansItsBlocks` finds the `else` and the `end` of a block by counting where the parser descends,
  and renders what lies between; `MeansItsCondition` splits operands where parentheses balance.
* `Filters`: decoding undoes encoding and not more; keywords only narrow; a split is reached from both ends; a
  whitelist intersects. `DateFilters!FuzzyIsLocal`: a date is of the day it is where it was written, across
  midnight and New Year. `DatesReadBack` writes a date by a layout and reads it back.
* `Categories!MappingAgrees`: the categories searched for and those listed agree.
* `Selectors!LiftingKeepsMeaning`: a selector that is well formed where `:contains` may stand and `:has` may nest
  compiles, and taken apart into standard CSS and predicates it selects what a direct evaluator of the whole
  grammar selects; a `:has` within a `:has`, which standard CSS forbids, included.
* `Engine!RowsStandAlone`: a page's releases are those of its rows taken one by one.
  `ValidatedExtracts`: what `validate` accepts does not fail in `extract`, on the pages and for
  the exceptions its comment names. `SizeIsExact`: a size in tenths is exact to the byte.
* `Requests!SaysTheSameEitherWay`: GET and POST carry the same pairs.
  `AsksWhereTheReleasesAre`: the paths asked are those that could list what is wanted.
* `LoginForm!FormComesBackFilled` (what is posted is `FormFields!FilledIn`), `SubmitsEitherWay`, `FirstRuleDecides`.
* `Feeds!FeedReadsBack`: `parse_feed` of `render_results` is the identity on what can be rendered; `ItemIsUnordered`,
  `TextIsWhole`, and `CapsAdvertiseTheMapped`, which is `Categories!GroupsHoldTheMapped` of what is advertised.
* `Rows!TablesKeepWhatIsWritten`: after any statements a table holds what the last statement to say something of a
  row said. `Resources!FormSavesWhatItSays`, `ListActsOnTheRow`, `ApplicationFormAgrees`.
* `Queries!FormSearchesWhatIsTyped`, `InstanceHandsOn`, `ParametersStandAlone`, `AgesAndSizesAreInOrder`.
* `Migrations!MigrationsCatchUp`. `Instance!OptionsAreLayered`, `ConfigIsFound`, `BundleAnswersForItself`.

`MCPipeline` has one variable for all of them, `sample`: the kind of an input and its atoms so far. `Grow` adds
an atom, so each reachable state is one input, and an invariant over the samples of a kind is
a property checked of every input up to that kind's length. A counterexample is an input, and TLC finds the
shortest. The length per kind is `Kinds`, the atoms are `Alphabet`.
An intermediate value that is looked at more than once is the parameter of a helper (`RowAfter`, `SizeAt`, `Rejoined`) rather
than a LET: TLC computes a parameter once.

*Abstractions.* A string is a sequence of atoms, an atom a character or an escape, an entity, a token that the
code treats as one. A template is a sequence of literal pieces and `{{ actions }}`, an action its head word and
tokens; a feed is the sequence of events the XML reader gives; a page is a tree of elements. A regular
expression is a literal text that compiles or does not (its own syntax belongs to the regex crate). A BTreeMap is a
function walked in the order `KeyOrder`; an option is a sequence of at most one. Time is minutes in years of
365 days. Integers are capped at a constant in place of 2^64 - 1 where the code saturates or refuses.

### PROJECT.json

`map` gives for each definition the lines it stands for, from the item's doc comment to its end; several
operators may stand for parts of one function and then name the same lines. `external` marks what
a library does (chrono, scraper, url, quick-xml, serde, std). Properties and the definitions only they use are not mapped.

## 3. What the runs check

| Run | Question | Bounds | Distinct states |
|---|---|---|---|
| `Sequential` | Without concurrency, is the bookkeeping right? | 1 handler, 2 hosts, 2 applications of every level, 2 indexers of both kinds, 4 requests, 1 refused call, 1 hand edit between requests | 0.7 M |
| `Concurrent` | Two requests at once over two applications of one Sonarr, any fault: foreign keys, addOnly, whose entries change? | 2 handlers, 1 application to start with and 1 created on the same host, 2 indexers, 3 requests, 1 fault of any kind, 1 hand edit at any moment | 4.9 M |
| `DefinitionsUpdate` | Is live ever partial, the last copy ever lost, a cached definition ever replaced? Does an absent live come back, does the last release land? | 3 releases (one drops an id, one is of the wrong repository), 2 readers, 2 faults or crashes, updates on or off at each start | 0.32 M |
| `Key` | Do all callers get the one key, does every call end, is `api_key` a cell that only the operator changes once it is filled? | 2 processes with 3 calls each, 2 keys, 2 faults or deaths, 1 edit of the row | 7 k |
| `Searches` | Is a success complete, how many logins does it cost, does a stale session heal? | 2 searches of 2 pages, every login method against plain and strict trackers, 1 trouble | 1.9 M |
| `Endpoint` | Is the answer what the rows found, and is there always one? | 2 Cardigann rows and a feed row, 1 page each, the Torznab route beside, 1 trouble | 0.12 M |
| `Screen` | Does the screen show, save and keep what it should? | both screens, 1 row, 2 writes, 2 keys, 1 failure, key change or write of another client | 2.4 M |
| `Pipeline` | Do the stages of a search, the forms and the start of an instance compute what they are for? What does a redirect chain do to a request? | 33 kinds of inputs, 1 to 9 atoms long; 2 URLs, 6 statuses, 3 hops | 0.18 M |
| `DoomedByRace`, `SwapFails`, `StaleCache`, `BlankPassword` | Four statements of the repository's own docs that the code does not keep, each with a shortest counterexample | as small as the counterexample allows | |

What the properties say:

* `EveryEntryIsMapped`: when nothing runs, an entry of a live pair is the one the mapping names. It
  holds for one request at a time without lost replies. Two syncs that overlap can both create an
  entry and forget one: nothing in the code orders them.
* `SyncReportIsHonest`: at the end of a sync, every fullSync application it reports no failure for
  shows exactly the enabled Cardigann indexers at their current revision, and `sync_all` reports on
  every application, whichever fails in between.
* `RemovalLeavesNothing`: with no failure, `DELETE /indexer/{id}` leaves no entry of the indexer in
  any fullSync application.
* `RequestsComplete`: every request is answered.
* `MappingReferencesLiveRows`: an upsert after its parents are gone leaves no row.
* `OnlyFullSyncTouchesEntries`: addOnly deletes and rewrites nothing, also when the level changes
  between two syncs or during one.
* `MappingNamesOwnEntry`, `EntriesTouchedByOwner`: stale snapshots, races and lost replies never make
  a sync name, rewrite or delete an entry of another pair or of a human. Moving an application's
  base URL does (set `BaseUrlMoves` to TRUE): the ids stay and the host changes.
* `LiveNeverPartial`, `RunKeepsACopy`: the crash-safety of `install_definitions`, the second within a run and until the
  next one starts: a run that finds live missing and only previous whole deletes that copy first.
* `CacheEntriesStable`: the loser of two racing gets adopts the winner's definition.
* `LiveComesBack`, `LastReleaseLands`: failures and crashes heal.
* `OneKey`, `ImplementsCell`, `CallsReturn`: until the operator edits the row, what was printed, what the
  middleware compares with and what any request was told are the persisted key; and also after an edit no
  insert, however late, overwrites what the row holds.
* `OkIsComplete`: an answered search has every page, none of them rejected.
* `OneLoginPerPage`, `CalmSearchHeals`, `RacingSearchesHeal`: a rejection costs at most one login; a
  search nothing disturbs fails only where the engine cannot log in at all; racing searches
  also heal, when the tracker keeps every session and sets no cookie but at a login. Without that premise
  they may fail, which is in the nature of a shared jar.
* `AnswerIsHonest`, `AnswerIsRanked`, `AskIsAnswered`, `SearchEnds`: 400 exactly when every row failed;
  else all that the successful rows listed, once, best first; always an answer.
* `AckedWritesAreShown`: whatever order fetches and writes are served and answered in, rows older than an
  acknowledged write never stay on the screen.
* `FormSavesItsOwn`, `DraftHoldsNoStoredSecret`: what a save sends is the row the form was opened on with what was
  typed since; the draft never holds a secret nobody typed.
* `FreshKeyKept`: the key is cleared only by a refusal of that very key.
* `ChainKeepsTheRequest`: the request that is out is the one asked for, or a bare GET, exactly when some
  answer on the way called for it; a later 307 does not bring the body back; at most three (in the code ten) hops.
* The other eleven of `Pipeline` collect the statements listed under "The pure modules".

Why the bounds are enough. Every race of the sync engine is between two handlers over one pair or
over two pairs on one host: two handlers, two indexers and two applications of one host
(`Concurrent`) give each of these; three requests allow a
create, and two overlapping ones after it. One fault suffices to reach every error path, as each
ends the sync it hits. Sequences are what `Sequential` is for: four requests reach
map, disable, delete, re-enable. For the updater two faults allow a failed run followed by a
failure, or a crash, of the run that should heal it. The theorems below have no bounds at all.
For the sessions, two searches are
all a race over one jar needs, two pages tell "per page" from "per search", and one trouble reaches every
error path; the seven sessions are more than two searches and a jar can name. For the screen, two writes give every order of two
answers, one row is enough for a stale copy of it, and one trouble leads to a failure, a late 401 or a
row changed behind the tab's back. For `Pipeline` each length is one more than the longest construct
of its kind needs: an if with an else and an end in a range (4 pieces), a `:has` around a `:contains` with a quoted bracket (9 atoms),
two paths that share a category, a form with one field twice and one beside it, a feed item
with every pair of children that could disagree. `Handlers` are symmetric in the safety runs of `AppSync`, secrets, texts
and keys in `Screen`; the runs with liveness properties use no symmetry.

The `AppSync` configurations, `Screen` and `Pipeline` (whose inputs are bounded) say `CHECK_DEADLOCK FALSE` because the number of requests is
bounded: when they are used up the system stops. `DefinitionsUpdate` says so because with automatic updates off
and every call failed or answered from the cache nothing needs to happen. `Key`, `Searches` and
`Endpoint` check for deadlock.

Fairness. `AppSync!FairSpec` assumes that a handler that can take its next step does: a statement
and a call always return, since the HTTP client has a 30 s timeout
(`oxidarr-indexer/src/reqwest_client.rs`) and the server polls a handler's future until it
responds. It promises nothing of requests, of faults or of the human. `Definitions!FairSpec`
assumes that the updater task is polled, that its timer fires, that the download ends (five
minutes' timeout, `main.rs`), and that the service is started again after a crash. It promises
nothing of readers or of the mirror. `InstanceKey!FairSpec` assumes that a statement returns and a call
is polled; `SearchEndpoint!FairEndpoint` that every exchange ends within the 30 s of the client, that
a feed ends, and that the handler's tasks are joined. Neither promises requests or restarts.

`SyncReportIsHonest` leaves database failures out of its run: when listing the applications fails,
`sync_all` logs it and reports no failure, which its doc states.

## 4. What is proved

tlapm checks the theorems for every value of the constants that satisfies the modules' named
assumptions: any number of handlers, hosts, seeds, requests, faults, releases and readers.

`AppSyncProofs` has two layers.

1. `Invariance`: `Spec => []Inv`. `Inv` is the types plus `Shape`, what a handler's locals
   are at each await: the application being synced is in the queue; what is doomed was in the
   mapping snapshot, what is to be pushed in the indexer snapshot; for a level other than fullSync
   nothing is doomed and nothing mapped is pushed. Without `Shape` the types are not inductive (a
   payload needs the row it is built from). `TypeCorrect` and `MappingsReferenceRows` follow.
2. `Ownership`: under `~BaseUrlMoves`, `Spec => [](Inv /\ Own)`. The property one wants, that a
   mapping row names its own entry, is not inductive: the row is written from a handler's `rid`,
   copied into another handler's `known` and `held`, and from there into `cleanup`. `Own` says of each of
   these ids that it was handed out by the host of its application and that the entry, if still
   there, belongs to the pair. It is kept because ids are never reused (`EntriesKeep`) and an
   application keeps its host as long as it exists (`AppsKeep`); a snapshot therefore stays right however
   old it is. `MappingsOwnTheirEntries`, `OwnersTouch` and `FullSyncTouches` follow. The assumption
   is necessary: with `BaseUrlMoves` TLC finds a counterexample in a few steps.

`DefinitionsProofs`: `Invariance` is `Spec => []IInv`. On top of the types it says what staging holds at
each step (exactly the entries extracted so far, of one release), that a reader only ever
inserts a definition that was once installed, and where the copy that `kept` speaks of is at
each step (in live, in previous, or both staging and previous). `LiveIsWhole`, `RunKeepsCopy`,
`CacheStable` and `TypeCorrect` follow.

`InstanceKeyProofs`: the types say that an answered call holds a key and a call at "insert" or "reread" a
candidate. With them `KeyAgreement` is inductive: until the operator edits the row it never changes once it
is there, so an answer stays right. `ImplementsKeyCell` shows that each step is a step of the cell or a
stutter (`Insert` fills an empty row and leaves a full one, `Get` and `Reread` answer, the end of a process
forgets; only `Rotate`, which counts its edit, is the cell's `Rotate`), and
`ImplementsUntouched` the same of the write-once cell when there are no edits.

`SearchProofs`, of the searches: no property is inductive, and there are three strengthenings.

1. `AllTidy` says that a search has extracted exactly the pages before the one it is at, and all of them once
   it is "ok", and that at "page" and "landing", before a login, it has fewer logins than the page
   number. `SuccessIsComplete` and `LoginIsBounded` follow, for any number of searches and pages, any
   definition, tracker and trouble.
2. `Race`, under the premise of `RacingSearchesHeal` and while nothing went wrong: whatever the jar holds, a search
   carries or a reply sets is no cookie or names a member; no search has failed; and at a login test or a repeated
   request both the jar and the search's cookie are members and a reply served is fine. It is kept since a new
   session never is one that somebody names (`OpenedKeeps`), so no login takes another's session away. `RacesHeal` follows.
3. `Calm`: while a search is undisturbed no other is under way, and `Healing` says for each request it can be
   at what the jar, the cookie and the form's session must be to the tracker: at "page" and on a warm start members, at
   "landing" and "submit" a form and a session that go together, after the login a member exactly when `CanLogIn`.
   `CalmHeals` follows. It needs `IsFiniteSet(Searches)`, as `Begin` counts the searches it starts.

`SearchProofs`, of the endpoint: each step of it is a step of the searches but for `HangUp`, which resets
several at once, so what is shown of a search holds here too (`EndpointSearches`).
`Gathered` relates the handler's locals to the tasks it has joined: none succeeded exactly when
the count is 0; the failures are those that failed, each once; the releases are those of the rows that
succeeded, each once, and of one row in the order of its pages. It is inductive because a task that ended is
started again only when the handler is no longer joining. Two more facts carry it to `AnswersAreRanked` and
`AnswersAreHonest`: a search flattens its pages in their order (`PagesFlatten`, by
induction on the number of pages), and `Sorted` is a permutation in rank that leaves ties in place
(`SortedIs`: the number of elements that go before is an injection of 1..n, hence onto).

`RowsScreenProofs`: `Sound` is the types with a count: a call the server has yet to answer may still write once, so the
table's version and the calls unanswered are together at most the calls issued and the trouble met (`Counted`). Without it the version
would leave its bound and the types would not be inductive. On it `DraftFollows` (the draft is the row
the form was opened on with what was typed since, its secret only ever typed) gives `DraftKeepsNoSecret` and `FormsSaveTheirOwn`;
`CarryTheKey` (a fetch in flight and a call the screen still listens to carry the key now in use) gives
`KeyIsKept`; and `Recent` (no acknowledgement is newer than the table, and a fetch already answered is at least as new
as the last one heard) gives `WritesAreShown`.

The second part of `AppSyncProofs` is about one request at a time: `OneAtATime` (one handler, base URLs stay) with
`OnlyRefused` (what fails is a call the remote side refuses), which is what `Sequential.cfg` fixes. With two
handlers, or a lost reply, the properties are false: a POST whose reply is lost leaves an entry no mapping names. `Followed`
relates tables, remote entries and locals at each await: what the handler read is what the tables still say, every
entry of a pair is the mapped one but for one posted and not yet saved, and what is doomed
or to do is what is left between the application and the indexers. `EntriesAreMapped` follows;
`RemovalsLeaveNothing` only needs it until the first fault of any kind (`UntilTheFirstFault`), and `ReportsAreHonest` assumes in
addition that nobody edits by hand during a sync (`~HumanWhileBusy`), since an edit behind the back of
the sync is not reported.

`Redirects`: what a chain has become is decided by its hops alone (`DowngradedByHop`), so
`ChainKeepsTheRequest` is inductive together with the types; `ChainKeeps` holds for any set of URLs and statuses and any
limit.

The type invariants are theorems of their modules (`TypeCorrect`) and checked by the proofs rather than by runs.

Termination, as far as it is safety. Four theorems say that no schedule keeps a call busy for ever: every step of
a call goes down in a rank and no step of anybody else raises it. What the liveness property adds is
that a step is taken, which is fairness and ENABLED, and stays with TLC.

* `RequestsGoDown` (for `RequestsComplete`): the rank (`Left`) is four numbers, the first of which counts most: which lists are
  still to be read, how many applications are still to be synced, how far the current one is, and what is left of its two
  loops or of the clean-up. A list is as long as the table was when it was read, so no common bound exists for
  the number of steps; `RanksAreWellFounded` shows that none is needed, every nonempty set of ranks having a least one.
* `SearchesGoDown` (for `SearchEnds`): a count that starts at ten a page, for five requests and their answers.
* `AsksGoDown` (for `AskIsAnswered`): what is ahead of a handler is a finite set (the pairs of a task it has not joined and a
  step that task has left) from which each step and each join takes, and no task the handler waits for is lost. It needs
  `IsFiniteSet(Feeds)`: an instance has finitely many rows.
* `CallsGoDown` (for `CallsReturn`): a call of `api_key` runs at most three statements.

`ImplementsTheLedger`: under `~BaseUrlMoves`, `AppSync` implements `Ledger`, from `Inv` and `Own`. In the ledger nothing is left
of handlers, queues and snapshots: an entry keeps the owner it was added for, an id is given out once, a pair is only ever
told the id of an entry of its own, and only a hand removes what was added by hand. A name may outlive its entry and
an entry may have no name: what the code does not promise, the ledger does not either. Each action that touches an entry, a mapping or
an application is shown to be a step of the ledger, and the others stutters.
It is a theorem and not a property of a run, since revisions and ids of the ledger range over the naturals, which TLC
cannot enumerate.

`DataProofs` and, for what a site wrote, `SiteProofs` are about eight of the pure modules (`Rows`, `Categories`, `Resources`, `Migrations`, `Instance`, `Feeds`,
`FormFields`; `Filters`), for inputs of any length.

1. `TablesKeep`: after any history of statements (`IsHistory`: well-typed rows, and no more statements than there are ids, past
   which an INSERT commits and fails) the tables hold what the statements that succeeded said. `HistoryRuns` is the induction
   along the history: the tables are well-typed, names are unique, every id is below its counter, every mapping has both rows
   (`DbOK`), and ids only grow. `Following` is the other half: a relation between "what stands" before a statement and
   after it, which the tables follow step by step (`RowsStand`, `RemotesStand`), since a statement that writes
   replaces what stood and one that takes back leaves nothing.
2. `MappingsAgree`: of any mapping and any wanted categories. It takes `TableIsSearchable` (each name once, binary search
   finds each id, an id and its block agree in the thousands, the block of an id is a row) as its hypothesis: a closed statement about the 71 rows of
   `categories.rs` that TLC evaluates in `Pipeline`, as a part of `CategoriesAgree`. `GroupsHold`, under the same
   hypothesis: what caps advertise is what the definition maps, below the right block, and no group that a search finds nothing for.
3. Both rest on `AscendingIs` (`Ascending` lists a finite set of numbers, each once, in order), by induction on the
   cardinality, and on what follows of filters and of `dedup` (`PickedIs`, `DistinctIs`).
4. `FormSaves`, `ListActs`, `ApplicationForms`: of any definition, row, draft and text typed. A definition names
   each setting once (`FormDefinition`, as the samples of `MCPipeline` do: what a definition that repeats a name asks is left open) and
   `KeyOrder` places every name, so that the first field of a name, which `Iterator::find` gives, is the last, which a
   collected map keeps (`FirstNamed`, `InitialValuesAre`, `SettingsAre`). `MergedIs` and `DraftIs` then say what a form holds of
   each setting after schema, stored value, typed text and blank secret have been laid over one another, `EditedIs` and
   `AddedIs` what is saved of it, and `SavedStays` that it is shown and taken back unchanged the next time.
5. `MigrationsCatch`: for any list of migrations with distinct versions (`VersionsDiffer`: they are the numbers in
   the names of the files under `migrations`) and any file. The migrations that run are the pending ones up to the first that
   fails (`RunsWith`); what they leave pending is the rest of the same list, which is what the next run starts from.
6. `OptionsLayered`, `ConfigFound`, `BundleAnswers`: of any environment, file, arguments, bundle and path.
   `OptionsLayered` takes as its hypothesis that the default address and the URL made of it parse (`DefaultsParse`).
7. `FeedReads`: any number of releases over any alphabet, each `Renderable`, come back as they were. The reader is a fold over events;
   `ReadAll` of a concatenation is the fold of the parts (`ReadNext`, `ReadGlued`, by `Inductively` on the number of
   parts), a text written character by character is collected whole (`TextReads`), and a decimal reads back as its number
   (by induction on the number). One lemma per child of an item says what it turns the accumulator into; the children a release has are
   chained by `TurnsOn`; and `IntoReleaseIs` says that the accumulator filled by all of them is the release.
   `TextKept` (`SiteProofs`, as what follows) is the other direction, a title that this renderer would not have written: part as
   text, part in a CDATA section, after an item whose title is an entity nobody knows. `ChildrenUnordered` is of any children,
   `IsChild`, of which no two fill the same field (`NamedApart`: a `size` element and a `size` attribute do, and so do two categories, whose
   order is kept). What a child does to the accumulator is `Local`: it leaves the fields it does not fill, and what it puts
   in the others depends on nothing but what they held. Hence the item is, field by field, what the one child that fills the
   field makes of the empty item (`ItemOf`), which no order changes.
8. `FormComesBack`: of any page, scraped pairs and credentials. `Laid(posted, said)` is the invariant of the loop of `upsert`s:
   the fields posted are those said so far, in the order in which each was said first, each with what was said last
   (`UpsertLays` is one turn, `UpsertAllLays` the loop). What is said in all is the page, what was scraped and the
   credentials one after the other, so "first" is a place on the page where there is one and "last" is a credential before a
   scraped value before the page (`JoinedSay`).
9. The filters, for any text. A scan from left to right (`SplitOn`, `UrlDecode`, `HtmlDecode`) is a recursive function over the places of the
   text; that it exists and satisfies its equation is `ChainExists`, what it yields is shown from the end of the text backwards (`FromTheEnd`).
   `GlueLies` and `JoinLies` say where each part lies in a text that was put together. On these rest `SplitReaches`, `ParamIsFirst` (a name of the link holds no
   `&` or `=`, a value no `&`: the link was put together from such pairs) and `EscapesUndone`, where each piece that the encoder writes
   is shown to be read as the one character it was made of. `ValidateShares` needs that tokens joined by `", "` are found again where they were joined
   (`TokensJoined`, with `AscendingOf` for their order), and `KeywordsNarrow` that what a limit cuts off is a piece of a word
   (`FragmentIs`), that what holds a word holds its pieces (`HasPart`), and that the one longer piece of a common word is `th`
   (`StopFragment`).

Only model-checked: the liveness properties, since fairness and ENABLED are outside the prover; and `Template`, `DateFilters`,
`Selectors`, `Engine` and `LoginForm`, which declare RECURSIVE operators, with `Requests` and `Queries`, which use one that does:
the prover's SMT backend does not accept them. For the same reason `MCPipeline`'s invariants are not theorems as they stand: it collects
proved parts and these. Its samples are closed and TLC visits all of them; a theorem of a part says the same of
any input. Of the parts in the other modules one is left to TLC, `TableIsSearchable`, which is closed. Induction over data is within reach otherwise: the library's schema
takes an operator and cannot be instantiated, but its form for sets follows from the well-foundedness of `<`
(`SearchProofs!Inductively`, `DataProofs!Inductively`). Operators that are passed to another one (`SelectSeq`,
`SortSeq`) cannot be expanded by the prover either: what is proved about says the same with a set of places (`Ordered!Picked`).

## 5. Disagreements between docs and code

Each is a run whose property is the documented claim and which TLC violates; `PROJECT.json`
quotes the line.

* `DoomedByRace`: a mapping can point at an indexer the sync does not know, because indexers are
  listed before mappings.
* `SwapFails`: a failed second rename leaves no live directory, "the previous definitions stay in
  place" notwithstanding. A failing clean-up after the swap breaks the same claim: the new set is installed,
  the run counts as failed, the cache is not refreshed.
* `StaleCache`: a get that straddles the swap and the refresh caches the old definition after it.
* `BlankPassword`: a password left blank is sent as it was when the row was fetched, so a newer one is
  overwritten: two saves of one form served in the other order, or an edit opened on rows
  fetched before an earlier save was served.

## 6. Seen while modelling

What the code does that a reader may not expect, none of it contradicting a doc:

* A settings box that is unchecked is stored as `false`, and a search reads it as the text `"false"`, which a
  template holds true (`.Config.x` is empty or not).
* A select's options carry the display text as their value, the definition's default is the key: picking
  the default again stores another text (`dto.rs`, `select_options`).
* A setting stored as a JSON number becomes a string when the row is toggled or tested from the list.
* Rows of kind Newznab and Torznab have no schema entry, so the UI cannot edit them, and `t=caps` of one answers with
  error 300.
* `build_url` sends `imdbid` under `t=search` and `t=tvsearch`; `handle_api` reads it only under `t=movie`:
  an instance that asks another one loses it (`InstanceHandsOn` says so).
* A release without a size is served with size 0 (`dto.rs` documents it), which the search screen shows as `0 B`; 1048575 bytes
  are `1024.0 KiB`. Two results of the same title get the same list key, as `guid` is never set.
* `"1 PB"` parses as one byte: an unknown unit is no unit.
* `urlencoding_decode` accepts `%+5`, since `u8::from_str_radix` accepts a sign.
* `validate` looks neither at the values of a `case` nor at the templates of headers and inputs, so these can still fail at search time.
* `//api/...` is not reserved in `ui.rs` and is answered with the page.
* A base URL ending in `/api/` keeps its slash.
* An INSERT whose id does not fit an `i32` commits before the conversion fails.
* `oxidarr-migrate` prints nothing of the migrations it applied before one failed.
* A save the user did not wait for closes the form opened meanwhile, and a slow search replaces the results of a
  later one (`PROJECT.json`, hazards without a property): nothing in the screens orders the answers, and no doc claims so.

## 7. Not modelled

* `decode.rs` (charset tables), `oxidarr-http/src/problem.rs` beyond its status, `health.rs` and `api/system.rs` (constants),
  `oxidarr-core/src/ids.rs`, `oxidarr-migrate`'s flags: nothing in them depends on more than one value.
* HTML, XML, TOML and YAML parsing, regular expressions, TLS: libraries. The modules start from what they deliver.
* The feed attributes `imdbid`, `tmdbid`, `tvdbid`, `files`, `minimumratio` and `minimumseedtime`: they are read as
  `seeders` and `magneturl` are, and never rendered.
* JSON answers of a tracker: `extract` refuses such definitions.
* What a selector means in which a predicate about the matched element cannot say what was lifted (`Liftable`: out
  of a compound before the last, of one of several alternatives of a `:has`, or of a `:not` next to something else;
  `:has(td,:contains(x))`, for one, leaves `td,` and is refused). `LiftingKeepsMeaning` says nothing of these but that
  whether they compile does not depend on quoted text.
* Test outcomes, the banner, the status screen and the rendering of the UI; the search screen's requests in flight.
* Moving an application's base URL (`BaseUrlMoves`) is modelled and left out of the runs and theorems, as it breaks ownership at once.

## 8. Plan

Modelled: all components, but for the parts above. Proved: every safety property of the modules with state, that the
sync engine implements a ledger and the instance key a cell, that every call of them only ever goes towards its end, and what
the tables, categories, forms, filters, migrations, start-up and feeds promise of data of any size.

What is left, in the order it would be worth doing: the recursion of `Template` and `Engine` as recursive functions, so that
`TemplatesMeanTheirBlocks` and `RowsStandAlone` come within the prover's reach; and, should the code order the answers of its screens one day, the two hazards of the UI no property covers.
