----------------------------- MODULE Migrations -----------------------------
(***************************************************************************)
(* The migrations of the database (crates/oxidarr-db/src/lib.rs) and the   *)
(* command that applies and reports them (crates/oxidarr-migrate).  A      *)
(* database file is the set of the versions applied to it; an absent one   *)
(* has none.                                                               *)
(***************************************************************************)
EXTENDS Integers, Sequences, SequencesExt, Ordered

CONSTANT Versions      \* the migrations the binaries carry, in their order

AppliedVersions(file) == file

\* The places of the versions a file lacks.
Pending(file) == {i \in DOMAIN Versions : Versions[i] \notin AppliedVersions(file)}

\* Created if absent; the pending versions one by one, each whole or not at all;
\* `breaks` are the versions that fail to apply.  A version the file has and the
\* binary lacks is an error.
DbOpen(file, breaks) ==
    LET pending == Pending(file)
        whole == {i \in pending : \A k \in pending : k <= i => Versions[k] \notin breaks}
    IN IF AppliedVersions(file) \ ToSet(Versions) /= {} THEN [ok |-> FALSE, file |-> file]
       ELSE [ok |-> whole = pending, file |-> AppliedVersions(file) \cup {Versions[i] : i \in whole}]

\* What is printed, the file it leaves, the exit code.
Migrate(file, breaks) ==
    LET before == AppliedVersions(file)
        db == DbOpen(file, breaks)
        applied == {i \in DOMAIN Versions : Versions[i] \in AppliedVersions(db.file) \ before}
    IN IF ~db.ok THEN [code |-> 1, file |-> db.file, prints |-> <<>>]
       ELSE [code |-> 0, file |-> db.file, prints |-> Picked(Versions, applied)]

ReportStatus(file) ==
    [code |-> 0, file |-> file,
     prints |-> [i \in DOMAIN Versions |-> [version |-> Versions[i], applied |-> Versions[i] \in AppliedVersions(file)]]]

\* The versions a status calls pending, in the order it prints them.
CalledPending(file) ==
    LET lines == ReportStatus(file).prints
    IN Picked([i \in DOMAIN lines |-> lines[i].version], {i \in DOMAIN lines : ~lines[i].applied})

\* What status calls pending is what the next migration applies, no more and in
\* that order; one that breaks off leaves what was whole and prints nothing of
\* it, and the run after the repair applies the rest; a second run has nothing to
\* do; a file of a newer binary is left alone (oxidarr-migrate, lib.rs).
MigrationsCatchUp(file, breaks) ==
    LET first == Migrate(file, breaks)
        mended == Migrate(first.file, {})
    IN IF AppliedVersions(file) \ ToSet(Versions) /= {} THEN first.code = 1 /\ first.file = file
       ELSE /\ first.code = 0 <=> CalledPending(first.file) = <<>>
            /\ first.code = 0 => first.prints = CalledPending(file)
            /\ first.code = 1 => first.prints = <<>> /\ IsSuffix(CalledPending(first.file), CalledPending(file))
            /\ mended.code = 0 /\ mended.prints = CalledPending(first.file)
            /\ Migrate(mended.file, breaks) = [code |-> 0, file |-> mended.file, prints |-> <<>>]
=============================================================================
