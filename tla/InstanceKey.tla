----------------------------- MODULE InstanceKey -----------------------------
(***************************************************************************)
(* ConfigRepo::api_key and its callers: the start of the service, which    *)
(* reads the key twice (main prints it, app() keeps it for the /api/v1     *)
(* middleware), and the handlers that read it afresh (the Torznab route    *)
(* and the syncs).  A service may be started while another one still runs  *)
(* on the same data directory, may die at any await, and any statement may *)
(* fail.  The operator may edit the row or delete it.                      *)
(***************************************************************************)
EXTENDS Naturals, FiniteSets

CONSTANTS
    Services,       \* processes on one data directory
    Requests,       \* handlers each process can run at once, numbers from 2 on
    Keys, None,
    MaxRotations,   \* bound: edits of the operator
    MaxFaults       \* bound: failed statements and process deaths

ASSUME InstanceKeyAssumption ==
    /\ None \notin Keys
    /\ Requests \subseteq Nat \ {0, 1}
    /\ MaxRotations \in Nat /\ MaxFaults \in Nat

VARIABLES
    row,            \* the config row, None when there is none
    call,           \* call[<<p, i>>]: a call of api_key, i = 0 main's, 1 app()'s
    rotations, faults

vars == <<row, call, rotations, faults>>

Calls == Services \X ({0, 1} \cup Requests)

\* key is the candidate at "insert" and the answer at "done".
Idle == [at |-> "idle", key |-> None]
At(step, key) == [at |-> step, key |-> key]
MainOf(p) == <<p, 0>>
AppOf(p)  == <<p, 1>>
Answered(c) == call[c].at = "done"

Init == /\ row = None
        /\ call = [c \in Calls |-> Idle]
        /\ rotations = 0 /\ faults = 0

Goto(c, next) == call' = [call EXCEPT ![c] = next]

\* When main's call returns, run goes on to app(), which calls again.
Return(c, key) ==
    call' = [call EXCEPT ![c] = At("done", key),
                         ![AppOf(c[1])] = IF c = MainOf(c[1]) THEN At("get", None)
                                          ELSE IF c = AppOf(c[1]) THEN At("done", key) ELSE @]

\* An error of the call ends the start of the service, or fails one request.
Down(p) == [c \in Calls |-> IF c[1] = p THEN Idle ELSE call[c]]
Raise(c) == call' = IF c[2] \in {0, 1} THEN Down(c[1])
                    ELSE [call EXCEPT ![c] = At("failed", None)]

Start(p) == /\ \A c \in Calls : c[1] = p => call[c] = Idle
            /\ Goto(MainOf(p), At("get", None))
            /\ UNCHANGED <<row, rotations, faults>>

\* The service listens once app() has its key; every request calls api_key.
Request(c) == /\ c[2] \in Requests
              /\ call[c].at \in {"idle", "done", "failed"}
              /\ Answered(AppOf(c[1]))
              /\ Goto(c, At("get", None))
              /\ UNCHANGED <<row, rotations, faults>>

\* MUTANT: a call that finds no key waits for one.
GetOnly(c) ==
    /\ call[c].at = "get"
    /\ row # None /\ Return(c, row)
    /\ UNCHANGED <<row, rotations, faults>>

Get(c) ==
    /\ call[c].at = "get"
    /\ \/ row # None /\ Return(c, row)
       \/ row = None /\ \E k \in Keys : Goto(c, At("insert", k))
    /\ UNCHANGED <<row, rotations, faults>>

\* MUTANT: ON CONFLICT(key) DO UPDATE.
LandedOver(candidate) == candidate

\* INSERT ... ON CONFLICT(key) DO NOTHING
Landed(candidate) == IF row = None THEN candidate ELSE row

Insert(c) ==
    /\ call[c].at = "insert"
    /\ row' = Landed(call[c].key)
    /\ Goto(c, At("reread", call[c].key))
    /\ UNCHANGED <<rotations, faults>>

\* MUTANT: the call returns the candidate it generated.
RereadCandidate(c) ==
    /\ call[c].at = "reread"
    /\ Return(c, call[c].key)
    /\ UNCHANGED <<row, rotations, faults>>

\* The re-read returns what landed; NotFound if the row is gone again.
Reread(c) ==
    /\ call[c].at = "reread"
    /\ \/ row # None /\ Return(c, row)
       \/ row = None /\ Raise(c)
    /\ UNCHANGED <<row, rotations, faults>>

StatementFails(c) ==
    /\ call[c].at \in {"get", "insert", "reread"}
    /\ faults < MaxFaults /\ faults' = faults + 1
    /\ Raise(c)
    /\ UNCHANGED <<row, rotations>>

\* The process stops; so does one that cannot bind its address.
Die(p) ==
    /\ call[MainOf(p)] # Idle
    /\ faults < MaxFaults /\ faults' = faults + 1
    /\ call' = Down(p)
    /\ UNCHANGED <<row, rotations>>

Rotate == /\ rotations < MaxRotations /\ rotations' = rotations + 1
          /\ row' \in Keys \cup {None}
          /\ UNCHANGED <<call, faults>>

Work(c) == Get(c) \/ Insert(c) \/ Reread(c)

Next ==
    \/ \E p \in Services : Start(p) \/ Die(p)
    \/ \E c \in Calls : Request(c) \/ Work(c) \/ StatementFails(c)
    \/ Rotate

Spec == Init /\ [][Next]_vars

\* A statement returns and a handler is polled until it ends.
FairSpec == Spec /\ \A c \in Calls : WF_vars(Work(c))

-----------------------------------------------------------------------------
(***************************************************************************)
(* What must hold                                                          *)
(***************************************************************************)
TypeOK ==
    /\ row \in Keys \cup {None}
    /\ call \in [Calls -> [at : {"insert", "reread", "done"}, key : Keys]
                      \cup [at : {"idle", "get", "failed"}, key : {None}]]
    /\ rotations \in 0..MaxRotations /\ faults \in 0..MaxFaults

\* While nobody edits the row, there is one key: what the start printed, what
\* the middleware of every process compares with, and what every handler was
\* given are the persisted key, however the first calls race or die.
OneKey == rotations = 0 => \A c \in Calls : Answered(c) => call[c].key = row

\* Every call is answered or fails: also a call that lost the race.
CallsReturn == \A c \in Calls :
    (call[c].at = "get") ~> (call[c].at \in {"idle", "done", "failed"})

\* api_key implements the cell of KeyCell: it is filled once, no step but an edit of
\* the operator (the cell counts them as rotations does) replaces or clears the key,
\* and every answer is what it holds at that moment.
Cell == INSTANCE KeyCell WITH
            cell <- row,
            answer <- [c \in Calls |-> IF Answered(c) THEN call[c].key ELSE None],
            edits <- rotations

ImplementsCell == Cell!CellSpec

\* And when nobody edits the row, it never changes once it is there.
ImplementsUntouchedCell == Cell!UntouchedSpec
=============================================================================
