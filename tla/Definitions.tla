---------------------------- MODULE Definitions ----------------------------
(***************************************************************************)
(* The Cardigann definitions on disk and in memory: the background updater *)
(* of crates/oxidarr-prowl/src/definitions_sync.rs, the read-through cache *)
(* of src/definitions.rs, and the start-up of src/main.rs that decides     *)
(* when the updater first runs.  The updater is one task; request handlers *)
(* read and fill the cache while it works; the process may die between any *)
(* two system calls and inside a recursive delete or a file write.         *)
(*                                                                         *)
(* Abstracted: a definition is the release it came from; a file cut short  *)
(* is release 0, which does not parse.  A directory is the set of its      *)
(* files.  rename and mkdir are atomic, as the file system promises.       *)
(***************************************************************************)
EXTENDS Naturals, Sequences

CONSTANTS
    Ids,            \* definition ids
    Readers,        \* concurrent DefinitionStore::get calls
    Releases,       \* Releases[v]: the ids the archive carries at release v
    AutoUpdate,     \* values definitions_auto_update may have at start-up
    IoFaults,       \* updater steps that may fail
    MaxFaults       \* bound on failed steps and crashes together

ASSUME DefinitionsAssumption ==
    /\ Releases \in Seq(SUBSET Ids)
    /\ Len(Releases) > 0
    /\ AutoUpdate \subseteq BOOLEAN
    /\ MaxFaults \in Nat

Dirs == {"live", "staging", "previous"}
Versions == 1 .. Len(Releases)

VARIABLES
    exists, files,      \* directories there are; files of each: <<id, release>>
    latest,             \* the release the mirror serves
    task, body, left,   \* the updater: next step, archive, entries to extract
    kept,               \* history: the files of live when the last run started
    cache,              \* DefinitionStore's map: id -> release
    reader, wanted, got,\* per get call: next step, id, definition read
    faults

disk == <<exists, files>>
updater == <<task, body, left, kept>>
readers == <<reader, wanted, got>>
vars == <<disk, latest, updater, cache, readers, faults>>

Tasks == {"down", "off", "sleep", "download", "clear", "mkdir", "extract",
          "clearprev", "aside", "swap", "dropprev", "refresh", "failed"}

(* The files of release v, completely extracted. *)
Release(v) == Releases[v] \X {v}

NoReader == [r \in Readers |-> "idle"]

(* A new data directory, or one scripts/fetch-definitions.sh filled. *)
Init ==
    /\ exists \in {{}, {"live"}}
    /\ files = [d \in Dirs |-> IF d \in exists THEN Release(1) ELSE {}]
    /\ latest = 1
    /\ task = "down" /\ body = 1 /\ left = {} /\ kept = {}
    /\ cache = {}
    /\ reader = NoReader /\ wanted \in [Readers -> Ids] /\ got = [r \in Readers |-> 0]
    /\ faults = 0

----------------------------------------------------------------------------
(* System calls. *)

RemoveDir(d) ==
    /\ exists' = exists \ {d}
    /\ files' = [files EXCEPT ![d] = {}]

(* rename(2) replaces an absent or empty directory, else fails ENOTEMPTY. *)
CanRename(to) == to \in exists => files[to] = {}

Rename(from, to) ==
    /\ exists' = (exists \ {from}) \cup {to}
    /\ files' = [files EXCEPT ![to] = files[from], ![from] = {}]

(* What a recursive delete of d, a write of one entry, or nothing at all    *)
(* has done when it is cut short.                                           *)
CutShort(d) ==
    /\ \E some \in SUBSET files[d] : files' = [files EXCEPT ![d] = some]
    /\ UNCHANGED exists

TornWrite ==
    /\ \E id \in left : files' = [files EXCEPT !["staging"] = @ \cup {<<id, 0>>}]
    /\ UNCHANGED exists

----------------------------------------------------------------------------
(* The updater: spawn_updater's loop around sync_once. *)

Go(step) == task' = step /\ UNCHANGED <<body, left, kept>>

Step(at) == task = at /\ UNCHANGED <<latest, cache, readers, faults>>

Begin == task' = "download" /\ kept' = files["live"] /\ UNCHANGED <<body, left>>

(* main counts the files of live; an empty count fetches at once. *)
Start ==
    /\ Step("down")
    /\ \/ FALSE \in AutoUpdate /\ Go("off")
       \/ TRUE \in AutoUpdate /\ files["live"] = {} /\ Begin
       \/ TRUE \in AutoUpdate /\ files["live"] # {} /\ Go("sleep")
    /\ UNCHANGED disk

IntervalElapses == Step("sleep") /\ Begin /\ UNCHANGED disk

Download ==
    /\ Step("download")
    /\ task' = "clear" /\ body' = latest /\ left' = Releases[latest]
    /\ UNCHANGED <<kept, disk>>

(* Mutant: staging is not cleared before it is used. *)
KeepStaging ==
    /\ Step("clear")
    /\ UNCHANGED disk
    /\ Go("mkdir")

ClearStaging ==
    /\ Step("clear")
    /\ IF "staging" \in exists THEN RemoveDir("staging") ELSE UNCHANGED disk
    /\ Go("mkdir")

MakeStaging ==
    /\ Step("mkdir")
    /\ exists' = exists \cup {"staging"}
    /\ Go("extract")
    /\ UNCHANGED files

(* One archive entry; an archive without any is an error (NoDefinitions). *)
Extract ==
    /\ Step("extract")
    /\ \/ /\ left # {}
          /\ \E id \in left :
                /\ files' = [files EXCEPT !["staging"] = @ \cup {<<id, body>>}]
                /\ left' = left \ {id}
          /\ UNCHANGED <<task, body, kept, exists>>
       \/ /\ left = {}
          /\ Go(IF Releases[body] = {} THEN "failed" ELSE "clearprev")
          /\ UNCHANGED disk

(* Mutant: a stranded previous directory is left where it is. *)
KeepPrevious == Step("clearprev") /\ Go("aside") /\ UNCHANGED disk

(* install_definitions clears what an interrupted run left in previous ... *)
ClearPrevious ==
    /\ Step("clearprev")
    /\ IF "previous" \in exists THEN RemoveDir("previous") ELSE UNCHANGED disk
    /\ Go("aside")

(* Mutant: live is deleted rather than moved aside. *)
DeleteLive ==
    /\ Step("aside")
    /\ IF "live" \in exists THEN RemoveDir("live") ELSE UNCHANGED disk
    /\ Go("swap")

(* Mutant: live is taken to be there. *)
MoveAsideAlways ==
    /\ Step("aside")
    /\ IF "live" \in exists /\ CanRename("previous")
       THEN Rename("live", "previous") /\ Go("swap")
       ELSE Go("failed") /\ UNCHANGED disk

(* ... moves live aside if there is one ... *)
MoveAside ==
    /\ Step("aside")
    /\ IF "live" \notin exists THEN Go("swap") /\ UNCHANGED disk
       ELSE IF CanRename("previous") THEN Rename("live", "previous") /\ Go("swap")
       ELSE Go("failed") /\ UNCHANGED disk

(* ... puts staging in its place ... *)
Swap ==
    /\ Step("swap")
    /\ Rename("staging", "live") /\ Go("dropprev")

(* ... and removes the old set. *)
DropPrevious ==
    /\ Step("dropprev")
    /\ IF "previous" \in exists THEN RemoveDir("previous") ELSE UNCHANGED disk
    /\ Go("refresh")

(* DefinitionStore::refresh, after a run that returned Ok. *)
Refresh ==
    /\ task = "refresh"
    /\ cache' = {}
    /\ Go("sleep")
    /\ UNCHANGED <<disk, latest, readers, faults>>

(* A run that failed after its download clears its staging directory. *)
GiveUp ==
    /\ Step("failed")
    /\ IF "staging" \in exists THEN RemoveDir("staging") ELSE UNCHANGED disk
    /\ Go("sleep")

(* What the step at hand leaves on the disk when it does not complete. *)
Interrupted ==
    \/ task \in {"clear", "failed"} /\ CutShort("staging")
    \/ task \in {"clearprev", "dropprev"} /\ CutShort("previous")
    \/ task = "extract" /\ TornWrite
    \/ task \notin {"clear", "failed", "clearprev", "dropprev"} /\ UNCHANGED disk

(* The step at hand fails; a delete may have done part of its work, a write *)
(* have left a file cut short.  A failed download ends the run at once, and *)
(* clearing up after another failure is best effort.                        *)
IoFault ==
    /\ task \in IoFaults /\ faults < MaxFaults
    /\ faults' = faults + 1
    /\ Interrupted
    /\ Go(IF task \in {"download", "failed"} THEN "sleep" ELSE "failed")
    /\ UNCHANGED <<latest, cache, readers>>

(* The process dies: the disk stays as it is, the cache and the calls go. *)
Crash ==
    /\ task # "down" /\ faults < MaxFaults
    /\ faults' = faults + 1
    /\ Interrupted
    /\ task' = "down" /\ body' = 1 /\ left' = {} /\ UNCHANGED kept
    /\ cache' = {}
    /\ reader' = NoReader /\ got' = [r \in Readers |-> 0]
    /\ UNCHANGED <<latest, wanted>>

Publish ==
    /\ latest < Len(Releases) /\ latest' = latest + 1
    /\ UNCHANGED <<disk, updater, cache, readers, faults>>

----------------------------------------------------------------------------
(* DefinitionStore::get. *)

Cached(id) == {c \in cache : c[1] = id}

Read(r, at) == task # "down" /\ reader[r] = at /\ UNCHANGED <<disk, latest, updater, faults>>

(* A hit returns at once and changes nothing; a miss goes to the disk. *)
Get(r) ==
    /\ Read(r, "idle")
    /\ \E id \in Ids :
          /\ Cached(id) = {}
          /\ wanted' = [wanted EXCEPT ![r] = id]
    /\ reader' = [reader EXCEPT ![r] = "load"]
    /\ UNCHANGED <<got, cache>>

(* load_definition; a file that is missing or does not parse is an error. *)
Load(r) ==
    /\ Read(r, "load")
    /\ LET found == {f \in files["live"] : f[1] = wanted[r] /\ f[2] # 0} IN
       IF found = {}
       THEN reader' = [reader EXCEPT ![r] = "idle"] /\ UNCHANGED got
       ELSE /\ reader' = [reader EXCEPT ![r] = "insert"]
            /\ \E f \in found : got' = [got EXCEPT ![r] = f[2]]
    /\ UNCHANGED <<wanted, cache>>

(* Mutant: the later of two racing gets replaces the entry. *)
InsertOver(r) ==
    /\ Read(r, "insert")
    /\ cache' = (cache \ Cached(wanted[r])) \cup {<<wanted[r], got[r]>>}
    /\ reader' = [reader EXCEPT ![r] = "idle"]
    /\ got' = [got EXCEPT ![r] = 0]
    /\ UNCHANGED wanted

(* cache_insert: entry(id).or_insert(def). *)
Insert(r) ==
    /\ Read(r, "insert")
    /\ cache' = IF Cached(wanted[r]) = {} THEN cache \cup {<<wanted[r], got[r]>>} ELSE cache
    /\ reader' = [reader EXCEPT ![r] = "idle"]
    /\ got' = [got EXCEPT ![r] = 0]
    /\ UNCHANGED wanted

----------------------------------------------------------------------------
Run ==
    \/ Download \/ ClearStaging \/ MakeStaging \/ Extract
    \/ ClearPrevious \/ MoveAside \/ Swap \/ DropPrevious \/ Refresh \/ GiveUp

Reading(r) == Get(r) \/ Load(r) \/ Insert(r)

Next ==
    \/ Start \/ IntervalElapses \/ Run \/ Publish
    \/ \E r \in Readers : Reading(r)
    \/ IoFault \/ Crash

Spec == Init /\ [][Next]_vars

(* The updater task is polled, its timer fires, and whoever runs the        *)
(* service starts it again.                                                 *)
FairSpec == Spec /\ WF_vars(Start) /\ WF_vars(IntervalElapses) /\ WF_vars(Run)

----------------------------------------------------------------------------
(* Properties. *)

(* The directories, the updater, the cache and the calls hold what they may. *)
TypeOK ==
    /\ exists \subseteq Dirs
    /\ files \in [Dirs -> SUBSET (Ids \X (Versions \cup {0}))]
    /\ \A d \in Dirs \ exists : files[d] = {}
    /\ latest \in Versions
    /\ task \in Tasks /\ body \in Versions /\ left \in SUBSET Ids
    /\ kept \subseteq Ids \X (Versions \cup {0})
    /\ cache \subseteq Ids \X Versions
    /\ reader \in [Readers -> {"idle", "load", "insert"}]
    /\ wanted \in [Readers -> Ids]
    /\ got \in [Readers -> Versions \cup {0}]
    /\ faults \in Nat

(* "A crash at any point never leaves a partially extracted directory at    *)
(* live" (install_definitions), nor does a failed step or what an earlier   *)
(* run stranded: live, when there, is one release, whole.                   *)
LiveNeverPartial == "live" \in exists => \E v \in Versions : files["live"] = Release(v)

(* Whatever fails and wherever the process dies, a run that started with an *)
(* installed set leaves a whole set on disk, until the next one starts: the *)
(* old set is moved aside, not deleted, before the new one is in place      *)
(* (install_definitions).                                                   *)
RunKeepsACopy ==
    kept # {} => \E d \in exists, v \in Versions : files[d] = Release(v) /\ Release(v) # {}

(* Between two refreshes the definition of an id does not change under its  *)
(* users: the loser of two racing gets adopts the winner's definition.      *)
CacheEntriesStable ==
    [][\A c \in cache : c \in cache' \/ cache' = {}]_cache

(* "That window self-heals on the next successful run": an absent live does *)
(* not stay absent while updates are on and the mirror serves definitions.  *)
LiveComesBack ==
    "live" \notin exists /\ Releases[latest] # {} ~>
        "live" \in exists \/ Releases[latest] = {} \/ task = "off"

(* Whatever crashes and failures left in staging and previous, the updates  *)
(* go on: the last release published, if it carries anything, is installed, *)
(* unless the service is started with updates off.                          *)
LastReleaseLands ==
    LET last == Len(Releases) IN
    Releases[last] # {} =>
        (latest = last ~> files["live"] = Release(last) \/ task = "off")

(* "Every error is logged and the previous definitions stay in place"       *)
(* (spawn_updater).                                                         *)
FailedRunKeepsSet == task = "failed" => files["live"] = kept

(* "So the next get for any id re-reads and re-parses its file"             *)
(* (DefinitionStore::refresh): once a run ended well, no cached definition  *)
(* is older than the installed one.                                         *)
CacheFollowsLive == task = "sleep" => \A c \in cache, f \in files["live"] : f[1] = c[1] => f[2] <= c[2]
=============================================================================
