------------------------------- MODULE KeyCell -------------------------------
(***************************************************************************)
(* What ConfigRepo::api_key promises: the instance key is a cell that is   *)
(* filled once and from then on only changed by the operator, and every    *)
(* call that is answered is answered with what the cell holds at that      *)
(* moment.                                                                 *)
(***************************************************************************)
EXTENDS Naturals

CONSTANTS Calls, Keys, None

VARIABLES
    cell,       \* the key, None while there is none
    answer,     \* answer[c]: what call c returned last, None before that
    edits       \* how often the operator has edited the row

cellVars == <<cell, answer, edits>>

Init == cell = None /\ answer = [c \in Calls |-> None] /\ edits = 0

Fill == cell = None /\ cell' \in Keys /\ UNCHANGED <<answer, edits>>

Answer(c) == cell # None /\ answer' = [answer EXCEPT ![c] = cell] /\ UNCHANGED <<cell, edits>>

\* A new call, or the end of the process, forgets an earlier answer.
Forget == /\ UNCHANGED <<cell, edits>>
          /\ \E C \in SUBSET Calls :
                answer' = [c \in Calls |-> IF c \in C THEN None ELSE answer[c]]

\* The operator edits the row or deletes it.  Nothing else replaces or clears a
\* key, and every such step is counted: a call that did would be no step of this.
Rotate == edits' = edits + 1 /\ cell' \in Keys \cup {None} /\ UNCHANGED answer

Next == Fill \/ Forget \/ Rotate \/ \E c \in Calls : Answer(c)

CellSpec == Init /\ [][Next]_cellVars

\* The same cell in a service whose operator never touches the row.
NextUntouched == Fill \/ Forget \/ \E c \in Calls : Answer(c)
UntouchedSpec == Init /\ [][NextUntouched]_cellVars
=============================================================================
