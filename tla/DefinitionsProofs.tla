-------------------------- MODULE DefinitionsProofs --------------------------
(***************************************************************************)
(* Safety of Definitions for every set of ids, every number of releases,   *)
(* readers and failures.  The inductive invariant says what staging holds  *)
(* at each step of the updater: that is what makes the directory renamed   *)
(* to live a whole release.                                                *)
(***************************************************************************)
EXTENDS Definitions, TLAPS

(* What a run has put into staging so far. *)
StagingHolds ==
    /\ task \in {"clear", "mkdir"} => left = Releases[body]
    /\ task = "mkdir" => files["staging"] = {}
    /\ task \in {"extract", "clearprev", "aside", "swap"} => "staging" \in exists
    /\ task = "extract" =>
          left \subseteq Releases[body] /\ files["staging"] = (Releases[body] \ left) \X {body}
    /\ task \in {"clearprev", "aside", "swap"} =>
          files["staging"] = Release(body) /\ Release(body) # {}

(* A get call about to fill the cache holds a definition that parsed. *)
ReadersHold == \A r \in Readers : reader[r] = "insert" => got[r] # 0

(* Directory d holds one release, whole, and not the empty one. *)
Whole(d) == d \in exists /\ \E v \in Versions : files[d] = Release(v) /\ Release(v) # {}

(* Where the copy is that a run which started with one has kept. *)
CopyKept ==
    kept # {} => \/ Whole("live")
                 \/ task \in {"swap", "failed", "sleep", "down", "off"} /\ Whole("previous")

IInv == TypeOK /\ StagingHolds /\ ReadersHold /\ LiveNeverPartial /\ CopyKept

----------------------------------------------------------------------------
(* Facts about releases and about what a system call may do to the disk.   *)

(* A release is a set of well-typed files. *)
LEMMA ReleaseType ==
    ASSUME NEW v \in Versions
    PROVE  Releases[v] \subseteq Ids /\ Release(v) \subseteq Ids \X (Versions \cup {0})
BY DefinitionsAssumption DEF Versions, Release

(* A release of an archive with definitions has files. *)
LEMMA ReleaseNonEmpty ==
    ASSUME NEW v, Releases[v] # {}
    PROVE  Release(v) # {}
<1>1. PICK id \in Releases[v] : TRUE
  OBVIOUS
<1>2. <<id, v>> \in Release(v)
  BY <1>1 DEF Release
<1> QED
  BY <1>2

(* A delete cut short, or a write cut short, touches one directory, which   *)
(* is not live, and keeps the disk well-typed.                              *)
DiskType ==
    /\ exists \subseteq Dirs
    /\ files \in [Dirs -> SUBSET (Ids \X (Versions \cup {0}))]
    /\ \A d \in Dirs \ exists : files[d] = {}

LEMMA CutShortEffect ==
    ASSUME DiskType, NEW d \in Dirs, CutShort(d)
    PROVE  DiskType' /\ UNCHANGED exists /\ \A e \in Dirs \ {d} : files'[e] = files[e]
<1>1. PICK some \in SUBSET files[d] : files' = [files EXCEPT ![d] = some]
  BY DEF CutShort
<1> QED
  BY <1>1 DEF CutShort, DiskType, Dirs

LEMMA TornWriteEffect ==
    ASSUME DiskType, TornWrite, left \subseteq Ids, "staging" \in exists
    PROVE  DiskType' /\ UNCHANGED exists /\ \A e \in Dirs \ {"staging"} : files'[e] = files[e]
<1>1. PICK id \in left : files' = [files EXCEPT !["staging"] = @ \cup {<<id, 0>>}]
  BY DEF TornWrite
<1>2. <<id, 0>> \in Ids \X (Versions \cup {0})
  BY <1>1
<1> QED
  BY <1>1, <1>2 DEF TornWrite, DiskType, Dirs

LEMMA RemoveDirEffect ==
    ASSUME DiskType, NEW d \in Dirs, RemoveDir(d)
    PROVE  /\ DiskType' /\ exists' = exists \ {d} /\ files'[d] = {}
           /\ \A e \in Dirs \ {d} : files'[e] = files[e]
BY DEF RemoveDir, DiskType, Dirs

LEMMA RenameEffect ==
    ASSUME DiskType, NEW from \in Dirs, NEW to \in Dirs \ {from}, Rename(from, to)
    PROVE  /\ DiskType' /\ exists' = (exists \ {from}) \cup {to}
           /\ files'[from] = {} /\ files'[to] = files[from]
           /\ \A e \in Dirs \ {from, to} : files'[e] = files[e]
BY DEF Rename, DiskType, Dirs

(* A failed step, or a crash, leaves the disk well-typed, live and, but for *)
(* the steps that delete it, previous as they were.                         *)
LEMMA InterruptEffect ==
    ASSUME DiskType, left \subseteq Ids, task = "extract" => "staging" \in exists,
           Interrupted
    PROVE  /\ DiskType' /\ UNCHANGED exists /\ files'["live"] = files["live"]
           /\ task \notin {"clearprev", "dropprev"} => files'["previous"] = files["previous"]
<1>1. CASE task \in {"clear", "failed"} /\ CutShort("staging")
  BY <1>1, CutShortEffect DEF Dirs
<1>2. CASE task \in {"clearprev", "dropprev"} /\ CutShort("previous")
  BY <1>2, CutShortEffect DEF Dirs
<1>3. CASE task = "extract" /\ TornWrite
  BY <1>3, TornWriteEffect DEF Dirs
<1>4. CASE UNCHANGED disk
  BY <1>4 DEF DiskType, disk
<1> QED
  BY <1>1, <1>2, <1>3, <1>4 DEF Interrupted

----------------------------------------------------------------------------
(* The invariant is established and kept.                                  *)

LEMMA InitIInv == Init => IInv
<1> SUFFICES ASSUME Init PROVE IInv
  OBVIOUS
<1> USE DEF Init
<1>1. 1 \in Versions
  BY DefinitionsAssumption DEF Versions
<1>2. Release(1) \subseteq Ids \X (Versions \cup {0})
  BY <1>1, ReleaseType
<1>3. TypeOK
  BY <1>1, <1>2 DEF TypeOK, Dirs, Tasks, NoReader
<1>4. StagingHolds /\ ReadersHold
  BY DEF StagingHolds, ReadersHold, NoReader
<1>5. LiveNeverPartial
  BY <1>1 DEF LiveNeverPartial, Dirs
<1>6. CopyKept
  BY DEF CopyKept
<1> QED
  BY <1>3, <1>4, <1>5, <1>6 DEF IInv

(* Start, and the timer: a run begins with the files of live on record. *)
LEMMA BeginIInv == IInv /\ (Start \/ IntervalElapses) => IInv'
<1> SUFFICES ASSUME IInv, Start \/ IntervalElapses PROVE IInv'
  OBVIOUS
<1> USE DEF Start, IntervalElapses, Step, Go, Begin, disk, readers, IInv
<1>1. TypeOK'
  BY DEF TypeOK, Tasks, Dirs
<1>2. StagingHolds' /\ ReadersHold'
  BY DEF StagingHolds, ReadersHold
<1>3. LiveNeverPartial'
  BY DEF LiveNeverPartial
<1>4. CopyKept'
  <2>1. CASE task' = "download"
    <3>1. kept' # {} => "live" \in exists
      BY <2>1 DEF TypeOK, Dirs
    <3> QED
      BY <2>1, <3>1 DEF CopyKept, Whole, LiveNeverPartial
  <2>2. CASE task' # "download"
    BY <2>2 DEF CopyKept, Whole
  <2> QED
    BY <2>1, <2>2
<1> QED
  BY <1>1, <1>2, <1>3, <1>4

(* The steps that fill staging leave live, previous and kept alone. *)
LEMMA StageIInv == IInv /\ (Download \/ ClearStaging \/ MakeStaging \/ Extract) => IInv'
<1> SUFFICES ASSUME IInv, Download \/ ClearStaging \/ MakeStaging \/ Extract PROVE IInv'
  OBVIOUS
<1> USE DEF IInv
<1>d. DiskType
  BY DEF TypeOK, DiskType
<1>1. CASE Download
  <2> USE <1>1 DEF Download, Step, disk, readers
  <2>1. Releases[latest] \subseteq Ids
    BY ReleaseType DEF TypeOK
  <2>2. TypeOK'
    BY <2>1 DEF TypeOK, Tasks
  <2>3. StagingHolds' /\ ReadersHold'
    BY DEF StagingHolds, ReadersHold
  <2>4. LiveNeverPartial' /\ CopyKept'
    BY DEF LiveNeverPartial, CopyKept, Whole
  <2> QED
    BY <2>2, <2>3, <2>4
<1>2. CASE ClearStaging
  <2> USE <1>2 DEF ClearStaging, Step, Go, disk, readers
  <2>1. /\ DiskType' /\ files'["staging"] = {} /\ exists' = exists \ {"staging"}
        /\ files'["live"] = files["live"] /\ files'["previous"] = files["previous"]
    <3>1. CASE "staging" \in exists
      BY <1>d, <3>1, RemoveDirEffect DEF Dirs
    <3>2. CASE "staging" \notin exists
      BY <1>d, <3>2 DEF DiskType, Dirs
    <3> QED
      BY <3>1, <3>2
  <2>2. TypeOK'
    BY <2>1 DEF TypeOK, DiskType, Tasks
  <2>3. StagingHolds' /\ ReadersHold'
    BY <2>1 DEF StagingHolds, ReadersHold
  <2>4. LiveNeverPartial' /\ CopyKept'
    BY <2>1 DEF LiveNeverPartial, CopyKept, Whole
  <2> QED
    BY <2>2, <2>3, <2>4
<1>3. CASE MakeStaging
  <2> USE <1>3 DEF MakeStaging, Step, Go, readers
  <2>1. TypeOK'
    BY DEF TypeOK, Tasks, Dirs
  <2>2. left = Releases[body] /\ files["staging"] = {}
    BY DEF StagingHolds
  <2>3. StagingHolds' /\ ReadersHold'
    BY <2>2 DEF StagingHolds, ReadersHold
  <2>4. LiveNeverPartial' /\ CopyKept'
    BY DEF LiveNeverPartial, CopyKept, Whole
  <2> QED
    BY <2>1, <2>3, <2>4
<1>4. CASE Extract /\ left # {}
  <2> USE <1>4 DEF Extract, Step, readers
  <2>1. PICK id \in left :
           /\ files' = [files EXCEPT !["staging"] = @ \cup {<<id, body>>}]
           /\ left' = left \ {id}
    OBVIOUS
  <2>2. /\ left \subseteq Releases[body]
        /\ files["staging"] = (Releases[body] \ left) \X {body}
        /\ "staging" \in exists
    BY DEF StagingHolds
  <2>3. files'["staging"] = (Releases[body] \ left') \X {body}
    BY <2>1, <2>2 DEF TypeOK, Dirs
  <2>4. <<id, body>> \in Ids \X (Versions \cup {0})
    BY <2>1 DEF TypeOK
  <2>5. TypeOK'
    BY <2>1, <2>2, <2>4 DEF TypeOK, Dirs
  <2>6. StagingHolds' /\ ReadersHold'
    BY <2>1, <2>2, <2>3 DEF StagingHolds, ReadersHold
  <2>7. files'["live"] = files["live"] /\ files'["previous"] = files["previous"]
    BY <2>1 DEF TypeOK, Dirs
  <2>8. LiveNeverPartial' /\ CopyKept'
    BY <2>7 DEF LiveNeverPartial, CopyKept, Whole
  <2> QED
    BY <2>5, <2>6, <2>8
<1>5. CASE Extract /\ left = {}
  <2> USE <1>5 DEF Extract, Step, Go, disk, readers
  <2>1. files["staging"] = Release(body) /\ "staging" \in exists
    BY DEF StagingHolds, Release
  <2>2. Releases[body] # {} => Release(body) # {}
    BY ReleaseNonEmpty
  <2>3. TypeOK'
    BY DEF TypeOK, Tasks
  <2>4. StagingHolds' /\ ReadersHold'
    BY <2>1, <2>2 DEF StagingHolds, ReadersHold, Release
  <2>5. LiveNeverPartial' /\ CopyKept'
    BY DEF LiveNeverPartial, CopyKept, Whole
  <2> QED
    BY <2>3, <2>4, <2>5
<1> QED
  BY <1>1, <1>2, <1>3, <1>4, <1>5

(* install_definitions. *)
LEMMA InstallIInv == IInv /\ (ClearPrevious \/ MoveAside \/ Swap \/ DropPrevious) => IInv'
<1> SUFFICES ASSUME IInv, ClearPrevious \/ MoveAside \/ Swap \/ DropPrevious PROVE IInv'
  OBVIOUS
<1> USE DEF IInv
<1>d. DiskType
  BY DEF TypeOK, DiskType
<1>1. CASE ClearPrevious
  <2> USE <1>1 DEF ClearPrevious, Step, Go, disk, readers
  <2>1. /\ DiskType' /\ exists' = exists \ {"previous"}
        /\ files'["live"] = files["live"] /\ files'["staging"] = files["staging"]
    <3>1. CASE "previous" \in exists
      BY <1>d, <3>1, RemoveDirEffect DEF Dirs
    <3>2. CASE "previous" \notin exists
      BY <1>d, <3>2 DEF DiskType, Dirs
    <3> QED
      BY <3>1, <3>2
  <2>2. TypeOK'
    BY <2>1 DEF TypeOK, DiskType, Tasks
  <2>3. StagingHolds' /\ ReadersHold'
    BY <2>1 DEF StagingHolds, ReadersHold, Release
  <2>4. LiveNeverPartial' /\ CopyKept'
    BY <2>1 DEF LiveNeverPartial, CopyKept, Whole
  <2> QED
    BY <2>2, <2>3, <2>4
<1>2. CASE MoveAside /\ task' = "swap" /\ "live" \in exists
  <2> USE <1>2 DEF MoveAside, Step, Go, readers
  <2>1. /\ DiskType' /\ exists' = (exists \ {"live"}) \cup {"previous"}
        /\ files'["previous"] = files["live"] /\ files'["staging"] = files["staging"]
    BY <1>d, RenameEffect DEF Dirs
  <2>2. TypeOK'
    BY <2>1 DEF TypeOK, DiskType, Tasks
  <2>3. StagingHolds' /\ ReadersHold'
    BY <2>1 DEF StagingHolds, ReadersHold, Release
  <2>4. LiveNeverPartial'
    BY <2>1 DEF LiveNeverPartial
  <2>5. CopyKept'
    BY <2>1 DEF CopyKept, Whole
  <2> QED
    BY <2>2, <2>3, <2>4, <2>5
<1>3. CASE MoveAside /\ ~(task' = "swap" /\ "live" \in exists)
  <2> USE <1>3 DEF MoveAside, Step, Go, readers
  <2>1. UNCHANGED disk /\ task' \in {"swap", "failed"}
    BY DEF disk
  <2>2. TypeOK'
    BY <2>1 DEF TypeOK, disk, Tasks
  <2>3. StagingHolds' /\ ReadersHold'
    BY <2>1 DEF StagingHolds, ReadersHold, disk, Release
  <2>4. LiveNeverPartial' /\ CopyKept'
    BY <2>1 DEF LiveNeverPartial, CopyKept, Whole, disk
  <2> QED
    BY <2>2, <2>3, <2>4
<1>4. CASE Swap
  <2> USE <1>4 DEF Swap, Step, Go, readers
  <2>1. files["staging"] = Release(body) /\ Release(body) # {}
    BY DEF StagingHolds
  <2>2. /\ DiskType' /\ exists' = (exists \ {"staging"}) \cup {"live"}
        /\ files'["live"] = Release(body)
    BY <1>d, <2>1, RenameEffect DEF Dirs
  <2>3. TypeOK'
    BY <2>2 DEF TypeOK, DiskType, Tasks
  <2>4. StagingHolds' /\ ReadersHold'
    BY DEF StagingHolds, ReadersHold
  <2>5. body \in Versions /\ body' = body
    BY DEF TypeOK
  <2>6. LiveNeverPartial' /\ CopyKept'
    BY <2>1, <2>2, <2>5 DEF LiveNeverPartial, CopyKept, Whole, Release
  <2> QED
    BY <2>3, <2>4, <2>6
<1>5. CASE DropPrevious
  <2> USE <1>5 DEF DropPrevious, Step, Go, disk, readers
  <2>1. DiskType' /\ exists' = exists \ {"previous"} /\ files'["live"] = files["live"]
    <3>1. CASE "previous" \in exists
      BY <1>d, <3>1, RemoveDirEffect DEF Dirs
    <3>2. CASE "previous" \notin exists
      BY <1>d, <3>2 DEF DiskType, Dirs
    <3> QED
      BY <3>1, <3>2
  <2>2. TypeOK'
    BY <2>1 DEF TypeOK, DiskType, Tasks
  <2>3. StagingHolds' /\ ReadersHold'
    BY DEF StagingHolds, ReadersHold
  <2>4. LiveNeverPartial' /\ CopyKept'
    BY <2>1 DEF LiveNeverPartial, CopyKept, Whole
  <2> QED
    BY <2>2, <2>3, <2>4
<1> QED
  BY <1>1, <1>2, <1>3, <1>4, <1>5

(* The end of a run, good or bad. *)
LEMMA EndIInv == IInv /\ (Refresh \/ GiveUp) => IInv'
<1> SUFFICES ASSUME IInv, Refresh \/ GiveUp PROVE IInv'
  OBVIOUS
<1> USE DEF IInv
<1>1. CASE Refresh
  <2> USE <1>1 DEF Refresh, Go, disk, readers
  <2>1. TypeOK' /\ StagingHolds' /\ ReadersHold'
    BY DEF TypeOK, Tasks, StagingHolds, ReadersHold
  <2>2. LiveNeverPartial' /\ CopyKept'
    BY DEF LiveNeverPartial, CopyKept, Whole
  <2> QED
    BY <2>1, <2>2
<1>2. CASE GiveUp
  <2> USE <1>2 DEF GiveUp, Step, Go, disk, readers
  <2>1. /\ DiskType' /\ exists' = exists \ {"staging"}
        /\ files'["live"] = files["live"] /\ files'["previous"] = files["previous"]
    <3>d. DiskType
      BY DEF TypeOK, DiskType
    <3>1. CASE "staging" \in exists
      BY <3>d, <3>1, RemoveDirEffect DEF Dirs
    <3>2. CASE "staging" \notin exists
      BY <3>d, <3>2 DEF DiskType, Dirs
    <3> QED
      BY <3>1, <3>2
  <2>2. TypeOK'
    BY <2>1 DEF TypeOK, DiskType, Tasks
  <2>3. StagingHolds' /\ ReadersHold'
    BY DEF StagingHolds, ReadersHold
  <2>4. LiveNeverPartial' /\ CopyKept'
    BY <2>1 DEF LiveNeverPartial, CopyKept, Whole
  <2> QED
    BY <2>2, <2>3, <2>4
<1> QED
  BY <1>1, <1>2

(* Failed steps and crashes. *)
LEMMA FaultIInv == IInv /\ (IoFault \/ Crash) => IInv'
<1> SUFFICES ASSUME IInv, IoFault \/ Crash PROVE IInv'
  OBVIOUS
<1> USE DEF IInv, IoFault, Crash
<1>1. DiskType /\ left \subseteq Ids
  BY DEF TypeOK, DiskType
<1>2. task = "extract" => "staging" \in exists
  BY DEF StagingHolds
<1>3. Interrupted
  OBVIOUS
<1>4. /\ DiskType' /\ UNCHANGED exists /\ files'["live"] = files["live"]
      /\ task \notin {"clearprev", "dropprev"} => files'["previous"] = files["previous"]
  BY <1>1, <1>2, <1>3, InterruptEffect
<1>5. task' \in {"sleep", "failed", "down"} /\ kept' = kept
  BY DEF Go
<1>6. TypeOK'
  <2>1. /\ latest' \in Versions /\ task' \in Tasks /\ body' \in Versions /\ left' \in SUBSET Ids
        /\ faults' \in Nat /\ kept' \subseteq Ids \X (Versions \cup {0})
    BY <1>5, DefinitionsAssumption DEF TypeOK, Go, Tasks, Versions
  <2>2. /\ cache' \subseteq Ids \X Versions
        /\ reader' \in [Readers -> {"idle", "load", "insert"}]
        /\ wanted' \in [Readers -> Ids] /\ got' \in [Readers -> Versions \cup {0}]
    BY DEF TypeOK, readers, NoReader
  <2> QED
    BY <1>4, <2>1, <2>2 DEF TypeOK, DiskType
<1>7. StagingHolds'
  BY <1>5 DEF StagingHolds
<1>8. ReadersHold'
  BY DEF ReadersHold, readers, NoReader
<1>9. LiveNeverPartial' /\ CopyKept'
  BY <1>4, <1>5 DEF LiveNeverPartial, CopyKept, Whole
<1> QED
  BY <1>6, <1>7, <1>8, <1>9

(* Readers and the mirror leave the disk and the updater alone. *)
LEMMA OtherIInv == IInv /\ (Publish \/ \E r \in Readers : Reading(r)) => IInv'
<1> SUFFICES ASSUME IInv, Publish \/ \E r \in Readers : Reading(r) PROVE IInv'
  OBVIOUS
<1> USE DEF IInv
<1>1. UNCHANGED <<disk, updater>>
  BY DEF Publish, Reading, Get, Load, Insert, Read
<1>2. StagingHolds' /\ LiveNeverPartial' /\ CopyKept'
  BY <1>1 DEF disk, updater, StagingHolds, LiveNeverPartial, CopyKept, Whole, Release
<1>3. CASE Publish
  BY <1>2, <1>3 DEF Publish, disk, updater, readers, TypeOK, ReadersHold, Versions
<1>4. ASSUME NEW r \in Readers, Get(r) PROVE TypeOK' /\ ReadersHold'
  BY <1>4 DEF Get, Read, disk, updater, TypeOK, ReadersHold
<1>5. ASSUME NEW r \in Readers, Load(r) PROVE TypeOK' /\ ReadersHold'
  <2>1. files["live"] \subseteq Ids \X (Versions \cup {0})
    BY DEF TypeOK, Dirs
  <2>2. \A f \in files["live"] : f[2] \in Versions \cup {0}
    BY <2>1
  <2> QED
    BY <1>5, <2>2 DEF Load, Read, disk, updater, TypeOK, ReadersHold
<1>6. ASSUME NEW r \in Readers, Insert(r) PROVE TypeOK' /\ ReadersHold'
  <2>1. got[r] \in Versions /\ wanted[r] \in Ids
    BY <1>6 DEF Insert, Read, TypeOK, ReadersHold
  <2> QED
    BY <1>6, <2>1 DEF Insert, Read, disk, updater, TypeOK, ReadersHold
<1> QED
  BY <1>2, <1>3, <1>4, <1>5, <1>6 DEF Reading

LEMMA StutterIInv == IInv /\ UNCHANGED vars => IInv'
BY DEF IInv, vars, disk, updater, readers, TypeOK, StagingHolds, ReadersHold,
       LiveNeverPartial, CopyKept, Whole, Release

THEOREM Invariance == Spec => []IInv
<1>1. IInv /\ [Next]_vars => IInv'
  BY BeginIInv, StageIInv, InstallIInv, EndIInv, FaultIInv, OtherIInv, StutterIInv DEF Next, Run
<1> QED
  BY InitIInv, <1>1, PTL DEF Spec

----------------------------------------------------------------------------
(* What follows.                                                           *)

(* Every reachable state of the definitions component is well-typed. *)
THEOREM TypeCorrect == Spec => []TypeOK
BY Invariance, PTL DEF IInv

(* Whatever fails and wherever the process dies, for every sequence of      *)
(* releases: the live directory, when there, holds one release, whole.      *)
THEOREM LiveIsWhole == Spec => []LiveNeverPartial
BY Invariance, PTL DEF IInv

(* A run that started with an installed set never loses its last whole copy.*)
THEOREM RunKeepsCopy == Spec => []RunKeepsACopy
<1>1. IInv => RunKeepsACopy
  BY DEF IInv, CopyKept, Whole, RunKeepsACopy
<1> QED
  BY <1>1, Invariance, PTL

(* The definition cached for an id changes only when the cache is emptied. *)
THEOREM CacheStable == Spec => CacheEntriesStable
<1>1. [Next]_vars => [\A c \in cache : c \in cache' \/ cache' = {}]_cache
  <2> SUFFICES ASSUME [Next]_vars, cache' # cache PROVE \A c \in cache : c \in cache' \/ cache' = {}
    OBVIOUS
  <2>1. Refresh \/ Crash \/ \E r \in Readers : Insert(r)
    BY DEF Next, vars, Run, Start, IntervalElapses, Download, ClearStaging, MakeStaging, Extract,
           ClearPrevious, MoveAside, Swap, DropPrevious, GiveUp, IoFault, Publish, Step,
           Reading, Get, Load
  <2> QED
    BY <2>1 DEF Refresh, Crash, Insert
<1> QED
  BY <1>1, PTL DEF Spec, CacheEntriesStable
=============================================================================
