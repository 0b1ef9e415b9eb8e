-------------------------- MODULE InstanceKeyProofs --------------------------
(***************************************************************************)
(* For every number of processes, requests, edits and faults: the types of *)
(* InstanceKey, the agreement on one key while nobody edits the row, and   *)
(* the refinement of KeyCell.                                              *)
(***************************************************************************)
EXTENDS InstanceKey, TLAPS

Entry == [at : {"insert", "reread", "done"}, key : Keys]
         \cup [at : {"idle", "get", "failed"}, key : {None}]

(***************************************************************************)
(* A call only ever gets to a key that is a key: from the row, or drawn.   *)
(***************************************************************************)
LEMMA EntryCases ==
    ASSUME NEW e \in Entry
    PROVE  /\ e.at \in {"insert", "reread", "done"} => e.key \in Keys
           /\ e.at \in {"idle", "get", "failed"} => e.key = None
  BY DEF Entry

LEMMA IdleIsEntry == Idle \in Entry
  BY DEF Idle, Entry

LEMMA DownTyped ==
    ASSUME NEW p \in Services, call \in [Calls -> Entry]
    PROVE  Down(p) \in [Calls -> Entry]
  BY IdleIsEntry DEF Down

LEMMA CallsAre ==
    ASSUME NEW c \in Calls
    PROVE  /\ c[1] \in Services
           /\ MainOf(c[1]) \in Calls
           /\ AppOf(c[1]) \in Calls
           /\ MainOf(c[1]) # AppOf(c[1])
  BY DEF Calls, MainOf, AppOf

(***************************************************************************)
(* Return stores an answer, and may start the call of app().               *)
(***************************************************************************)
LEMMA ReturnTyped ==
    ASSUME NEW c \in Calls, NEW key \in Keys, call \in [Calls -> Entry], Return(c, key)
    PROVE  call' \in [Calls -> Entry]
  <1>1. At("done", key) \in Entry /\ At("get", None) \in Entry
    BY DEF At, Entry
  <1> QED
    BY <1>1, CallsAre DEF Return

THEOREM TypeCorrect == Spec => []TypeOK
  <1>1. Init => TypeOK
    BY InstanceKeyAssumption, IdleIsEntry DEF Init, TypeOK, Entry
  <1>2. TypeOK /\ [Next]_vars => TypeOK'
    <2> SUFFICES ASSUME TypeOK, [Next]_vars PROVE TypeOK'
      OBVIOUS
    <2> USE InstanceKeyAssumption
    <2>0. /\ row \in Keys \cup {None} /\ call \in [Calls -> Entry]
          /\ rotations \in 0..MaxRotations /\ faults \in 0..MaxFaults
      BY DEF TypeOK, Entry
    <2>g. \A c \in Calls, e \in Entry : Goto(c, e) => call' \in [Calls -> Entry]
      BY <2>0 DEF Goto
    <2>r. \A c \in Calls : Raise(c) => call' \in [Calls -> Entry]
      <3> TAKE c \in Calls
      <3>1. CASE c[2] \in {0, 1}
        BY <2>0, <3>1, DownTyped, CallsAre DEF Raise
      <3>2. CASE c[2] \notin {0, 1}
        BY <2>0, <3>2 DEF Raise, At, Entry
      <3> QED BY <3>1, <3>2
    <2>1. CASE \E p \in Services : Start(p)
      <3> PICK p \in Services : Start(p)
        BY <2>1
      <3> At("get", None) \in Entry /\ MainOf(p) \in Calls
        BY DEF At, Entry, MainOf, Calls
      <3> QED BY <2>0, <2>g DEF Start, TypeOK, Entry
    <2>2. CASE \E p \in Services : Die(p)
      BY <2>0, <2>2, DownTyped DEF Die, TypeOK, Entry
    <2>3. CASE \E c \in Calls : Request(c)
      <3> At("get", None) \in Entry
        BY DEF At, Entry
      <3> QED BY <2>0, <2>3, <2>g DEF Request, TypeOK, Entry
    <2>4. CASE \E c \in Calls : Get(c)
      <3> PICK c \in Calls : Get(c)
        BY <2>4
      <3>1. CASE row # None /\ Return(c, row)
        BY <2>0, <3>1, ReturnTyped DEF Get, TypeOK, Entry
      <3>2. CASE row = None /\ \E k \in Keys : Goto(c, At("insert", k))
        <4> \A k \in Keys : At("insert", k) \in Entry
          BY DEF At, Entry
        <4> QED BY <2>0, <2>g, <3>2 DEF Get, TypeOK, Entry
      <3> QED BY <3>1, <3>2 DEF Get
    <2>5. CASE \E c \in Calls : Insert(c)
      <3> PICK c \in Calls : Insert(c)
        BY <2>5
      <3>1. call[c].key \in Keys
        BY <2>0, EntryCases DEF Insert
      <3>2. At("reread", call[c].key) \in Entry
        BY <3>1 DEF At, Entry
      <3> QED BY <2>0, <2>g, <3>1, <3>2 DEF Insert, Landed, TypeOK, Entry
    <2>6. CASE \E c \in Calls : Reread(c)
      BY <2>0, <2>6, <2>r, ReturnTyped DEF Reread, TypeOK, Entry
    <2>7. CASE \E c \in Calls : StatementFails(c)
      BY <2>0, <2>7, <2>r DEF StatementFails, TypeOK, Entry
    <2>8. CASE Rotate
      BY <2>0, <2>8 DEF Rotate, TypeOK, Entry
    <2>9. CASE UNCHANGED vars
      BY <2>0, <2>9 DEF vars, TypeOK, Entry
    <2> QED BY <2>1, <2>2, <2>3, <2>4, <2>5, <2>6, <2>7, <2>8, <2>9 DEF Next, Work
  <1> QED BY <1>1, <1>2, PTL DEF Spec

(***************************************************************************)
(* Agreement.  OneKey is inductive together with the types: an answer is a *)
(* key, so once there is one the row is not None, and an insert that finds *)
(* a row leaves it.                                                        *)
(***************************************************************************)
LEMMA RowAnswers ==
    ASSUME TypeOK, NEW c \in Calls, Return(c, row), UNCHANGED <<row, rotations>>, OneKey
    PROVE  OneKey'
  <1> SUFFICES ASSUME rotations = 0, NEW d \in Calls, call'[d].at = "done"
               PROVE  call'[d].key = row
    BY DEF OneKey, Answered
  <1>1. CASE call'[d] = call[d]
    BY <1>1 DEF OneKey, Answered
  <1>2. CASE call'[d] # call[d]
    BY <1>2, CallsAre DEF Return, At, TypeOK
  <1> QED BY <1>1, <1>2

LEMMA RaiseForgets ==
    ASSUME TypeOK, NEW c \in Calls, Raise(c)
    PROVE  \A d \in Calls : call'[d].at = "done" => call'[d] = call[d]
  BY DEF Raise, Down, Idle, At, TypeOK

\* No process ever works with a key other than the persisted one, as long as the
\* operator leaves the row alone.
THEOREM KeyAgreement == Spec => []OneKey
  <1>1. Init => OneKey
    BY DEF Init, OneKey, Answered, Idle
  <1>2. TypeOK /\ OneKey /\ [Next]_vars => OneKey'
    <2> SUFFICES ASSUME TypeOK, OneKey, [Next]_vars, rotations' = 0 PROVE OneKey'
      BY DEF OneKey
    <2> USE InstanceKeyAssumption
    <2>0. /\ rotations = 0
      BY DEF Next, vars, Start, Die, Request, Work, Get, Insert, Reread, StatementFails,
             Rotate, TypeOK
    <2>1. CASE \E p \in Services : Start(p)
      BY <2>0, <2>1 DEF Start, Goto, At, OneKey, Answered, TypeOK
    <2>2. CASE \E p \in Services : Die(p)
      BY <2>0, <2>2 DEF Die, Down, Idle, OneKey, Answered, TypeOK
    <2>3. CASE \E c \in Calls : Request(c)
      BY <2>0, <2>3 DEF Request, Goto, At, OneKey, Answered, TypeOK
    <2>4. CASE \E c \in Calls : Get(c)
      <3> PICK c \in Calls : Get(c)
        BY <2>4
      <3>1. CASE Return(c, row)
        BY <3>1, RowAnswers DEF Get
      <3>2. CASE \E k \in Keys : Goto(c, At("insert", k))
        BY <2>0, <3>2 DEF Get, Goto, At, OneKey, Answered, TypeOK
      <3> QED BY <3>1, <3>2 DEF Get
    <2>5. CASE \E c \in Calls : Insert(c)
      <3> PICK c \in Calls : Insert(c)
        BY <2>5
      <3> SUFFICES ASSUME NEW d \in Calls, call'[d].at = "done"
                   PROVE  call'[d].key = row'
        BY DEF OneKey, Answered
      <3>1. d # c /\ call'[d] = call[d]
        BY DEF Insert, Goto, At, TypeOK
      <3>2. call[d].key = row /\ call[d].key # None
        BY <2>0, <3>1 DEF OneKey, Answered, TypeOK
      <3> QED BY <3>1, <3>2 DEF Insert, Landed
    <2>6. CASE \E c \in Calls : Reread(c)
      <3> PICK c \in Calls : Reread(c)
        BY <2>6
      <3>1. CASE Return(c, row)
        BY <3>1, RowAnswers DEF Reread
      <3>2. CASE Raise(c)
        BY <2>0, <3>2, RaiseForgets DEF Reread, OneKey, Answered
      <3> QED BY <3>1, <3>2 DEF Reread
    <2>7. CASE \E c \in Calls : StatementFails(c)
      BY <2>0, <2>7, RaiseForgets DEF StatementFails, OneKey, Answered
    <2>8. CASE Rotate
      BY <2>8 DEF Rotate, TypeOK
    <2>9. CASE UNCHANGED vars
      BY <2>9 DEF vars, OneKey, Answered
    <2> QED BY <2>1, <2>2, <2>3, <2>4, <2>5, <2>6, <2>7, <2>8, <2>9 DEF Next, Work
  <1> QED BY <1>1, <1>2, TypeCorrect, PTL DEF Spec

(***************************************************************************)
(* Refinement.  app() calls only after main's call has returned, so a      *)
(* return changes one answer and no other.                                 *)
(***************************************************************************)
AppWaits == \A p \in Services : ~Answered(MainOf(p)) => call[AppOf(p)] = Idle

Answers == [c \in Calls |-> IF Answered(c) THEN call[c].key ELSE None]

LEMMA MainIs ==
    ASSUME NEW p \in Services, NEW c \in Calls
    PROVE  /\ MainOf(p) \in Calls /\ AppOf(p) \in Calls /\ MainOf(p) # AppOf(p)
           /\ MainOf(p) # AppOf(c[1]) /\ MainOf(p)[1] = p /\ AppOf(p)[1] = p
           /\ c = MainOf(p) => c[2] = 0 /\ c[1] = p
           /\ c = AppOf(p) => c[2] = 1 /\ c[1] = p
           /\ c[2] \in Requests => c # MainOf(p) /\ c # AppOf(p)
  BY InstanceKeyAssumption DEF Calls, MainOf, AppOf

LEMMA DownWaits ==
    ASSUME NEW q \in Services, call' = Down(q), TypeOK, AppWaits
    PROVE  AppWaits'
  BY MainIs DEF Down, Idle, AppWaits, Answered, TypeOK

LEMMA RaiseWaits ==
    ASSUME NEW c \in Calls, Raise(c), TypeOK, AppWaits
    PROVE  AppWaits'
  <1>1. CASE c[2] \in {0, 1}
    BY <1>1, CallsAre, DownWaits DEF Raise
  <1>2. CASE c[2] \notin {0, 1}
    BY <1>2, MainIs DEF Raise, AppWaits, Answered, At, TypeOK
  <1> QED BY <1>1, <1>2

LEMMA ReturnWaits ==
    ASSUME NEW c \in Calls, NEW key, Return(c, key), call[c].at \in {"get", "reread"}, TypeOK, AppWaits
    PROVE  AppWaits'
  <1> SUFFICES ASSUME NEW p \in Services, ~Answered(MainOf(p))'
               PROVE  call'[AppOf(p)] = Idle
    BY DEF AppWaits
  <1>1. MainOf(p) # c
    BY MainIs DEF Return, Answered, At, TypeOK
  <1>0. call'[MainOf(p)] = call[MainOf(p)]
    BY <1>1, MainIs DEF Return, TypeOK
  <1>2. ~Answered(MainOf(p))
    BY <1>0 DEF Answered
  <1>3. call[AppOf(p)] = Idle
    BY <1>2 DEF AppWaits
  <1>4. AppOf(p) # c
    BY <1>3 DEF Idle
  <1>5. CASE AppOf(p) = AppOf(c[1])
    <2>1. c[1] = p
      BY <1>5 DEF AppOf
    <2>2. call'[AppOf(p)] = call[AppOf(p)]
      BY <2>1, <1>1, <1>4, MainIs DEF Return, TypeOK
    <2> QED BY <2>2, <1>3
  <1>6. CASE AppOf(p) # AppOf(c[1])
    BY <1>3, <1>4, <1>6, MainIs DEF Return, TypeOK
  <1> QED BY <1>5, <1>6

LEMMA Waiting == Spec => []AppWaits
  <1>1. Init => AppWaits
    <2> SUFFICES ASSUME Init, NEW p \in Services PROVE call[AppOf(p)] = Idle
      BY DEF AppWaits
    <2> AppOf(p) \in Calls
      BY DEF AppOf, Calls
    <2> QED BY DEF Init
  <1>2. TypeOK /\ AppWaits /\ [Next]_vars => AppWaits'
    <2> SUFFICES ASSUME TypeOK, AppWaits, [Next]_vars PROVE AppWaits'
      OBVIOUS
    <2>1. CASE \E p \in Services : Start(p)
      <3> PICK p \in Services : Start(p)
        BY <2>1
      <3>1. \A q \in Services : call'[AppOf(q)] = call[AppOf(q)]
        BY MainIs DEF Start, Goto, MainOf, AppOf, TypeOK
      <3>2. \A q \in Services : q # p => call'[MainOf(q)] = call[MainOf(q)]
        BY MainIs DEF Start, Goto, MainOf, TypeOK
      <3>3. call[AppOf(p)] = Idle
        <4> AppOf(p) \in Calls /\ AppOf(p)[1] = p
          BY DEF AppOf, Calls
        <4> QED BY DEF Start
      <3> QED BY <3>1, <3>2, <3>3 DEF AppWaits, Answered
    <2>2. CASE \E p \in Services : Die(p)
      BY <2>2, DownWaits DEF Die
    <2>3. CASE \E c \in Calls : Request(c)
      BY <2>3, MainIs DEF Request, Goto, AppWaits, Answered, TypeOK
    <2>4. CASE \E c \in Calls : Get(c)
      <3> PICK c \in Calls : Get(c)
        BY <2>4
      <3>1. CASE Return(c, row)
        BY <3>1, ReturnWaits DEF Get
      <3>2. CASE \E k \in Keys : Goto(c, At("insert", k))
        BY <3>2, MainIs DEF Get, Goto, At, AppWaits, Answered, Idle, TypeOK
      <3> QED BY <3>1, <3>2 DEF Get
    <2>5. CASE \E c \in Calls : Insert(c)
      BY <2>5, MainIs DEF Insert, Goto, At, AppWaits, Answered, Idle, TypeOK
    <2>6. CASE \E c \in Calls : Reread(c)
      BY <2>6, ReturnWaits, RaiseWaits DEF Reread
    <2>7. CASE \E c \in Calls : StatementFails(c)
      BY <2>7, RaiseWaits DEF StatementFails
    <2>8. CASE Rotate
      BY <2>8 DEF Rotate, AppWaits, Answered
    <2>9. CASE UNCHANGED vars
      BY <2>9 DEF vars, AppWaits, Answered
    <2> QED BY <2>1, <2>2, <2>3, <2>4, <2>5, <2>6, <2>7, <2>8, <2>9 DEF Next, Work
  <1> QED BY <1>1, <1>2, TypeCorrect, PTL DEF Spec

(***************************************************************************)
(* What a step of api_key does to the answers.                             *)
(***************************************************************************)
LEMMA KeptAnswers ==
    ASSUME \A c \in Calls : call'[c] = call[c] \/ (call'[c].at # "done" /\ call[c].at # "done")
    PROVE  Answers' = Answers
  BY DEF Answers, Answered

\* A step after which no call has an answer it did not have is a Forget.
LEMMA LostAnswers ==
    ASSUME UNCHANGED <<row, rotations>>,
           \A c \in Calls : call'[c] = call[c] \/ call'[c].at # "done"
    PROVE  Cell!Forget
  <1> DEFINE C == {c \in Calls : call'[c].at # "done"}
  <1>1. \A c \in Calls : Answers'[c] = IF c \in C THEN None ELSE Answers[c]
    BY DEF Answers, Answered
  <1>2. Answers' = [c \in Calls |-> IF c \in C THEN None ELSE Answers[c]]
    BY <1>1 DEF Answers
  <1>3. C \in SUBSET Calls
    OBVIOUS
  <1> HIDE DEF C
  <1> QED BY <1>2, <1>3 DEF Cell!Forget, Answers

LEMMA RaiseForgetsCell ==
    ASSUME TypeOK, NEW c \in Calls, Raise(c), UNCHANGED <<row, rotations>>
    PROVE  Cell!Forget
  <1>1. \A d \in Calls : call'[d] = call[d] \/ call'[d].at # "done"
    BY RaiseForgets
  <1> QED BY <1>1, LostAnswers

LEMMA ReturnAnswers ==
    ASSUME TypeOK, AppWaits, NEW c \in Calls, call[c].at \in {"get", "reread"},
           row # None, Return(c, row), UNCHANGED <<row, rotations>>
    PROVE  Cell!Answer(c)
  <1>1. \A d \in Calls : Answers'[d] = IF d = c THEN row ELSE Answers[d]
    <2> SUFFICES ASSUME NEW d \in Calls
                 PROVE  Answers'[d] = IF d = c THEN row ELSE Answers[d]
      OBVIOUS
    <2>0. call'[d] = IF d = AppOf(c[1])
                     THEN IF c = MainOf(c[1]) THEN At("get", None)
                          ELSE IF c = AppOf(c[1]) THEN At("done", row)
                          ELSE IF d = c THEN At("done", row) ELSE call[d]
                     ELSE IF d = c THEN At("done", row) ELSE call[d]
      BY CallsAre DEF Return, TypeOK
    <2>1. CASE d = c
      <3>1. call'[c] = At("done", row)
        <4> MainOf(c[1]) # AppOf(c[1])
          BY CallsAre
        <4> QED BY <2>0, <2>1
      <3> QED BY <2>1, <3>1 DEF Answers, Answered, At
    <2>2. CASE d # c /\ d = AppOf(c[1]) /\ c = MainOf(c[1])
      <3>1. call[d] = Idle
        BY <2>2, CallsAre DEF AppWaits, Answered
      <3> QED BY <2>0, <2>2, <3>1 DEF Answers, Answered, At, Idle
    <2>3. CASE d # c /\ ~(d = AppOf(c[1]) /\ c = MainOf(c[1]))
      BY <2>0, <2>3 DEF Answers, Answered
    <2> QED BY <2>1, <2>2, <2>3
  <1>2. Answers' = [Answers EXCEPT ![c] = row]
    BY <1>1 DEF Answers
  <1> QED BY <1>2 DEF Cell!Answer, Answers

(***************************************************************************)
(* Every step of api_key is a step of the cell or leaves it alone.         *)
(***************************************************************************)
LEMMA StepRefines ==
    ASSUME TypeOK, AppWaits, [Next]_vars
    PROVE  \/ UNCHANGED <<row, Answers, rotations>>
           \/ Cell!Fill \/ Cell!Forget
           \/ \E c \in Calls : Cell!Answer(c)
           \/ Rotate /\ Cell!Rotate
  <1> USE InstanceKeyAssumption
  <1>1. CASE \E p \in Services : Start(p)
    <2> PICK p \in Services : Start(p)
      BY <1>1
    <2>1. \A c \in Calls : call'[c] = call[c] \/ call'[c].at # "done"
      BY DEF Start, Goto, At, TypeOK
    <2> QED BY <2>1, LostAnswers DEF Start
  <1>2. CASE \E p \in Services : Die(p)
    <2>1. \A c \in Calls : call'[c] = call[c] \/ call'[c].at # "done"
      BY <1>2 DEF Die, Down, Idle, TypeOK
    <2> QED BY <1>2, <2>1, LostAnswers DEF Die
  <1>3. CASE \E c \in Calls : Request(c)
    <2>1. \A c \in Calls : call'[c] = call[c] \/ call'[c].at # "done"
      BY <1>3 DEF Request, Goto, At, TypeOK
    <2> QED BY <1>3, <2>1, LostAnswers DEF Request
  <1>4. CASE \E c \in Calls : Get(c)
    <2> PICK c \in Calls : Get(c)
      BY <1>4
    <2>1. CASE row # None /\ Return(c, row)
      BY <2>1, ReturnAnswers DEF Get
    <2>2. CASE \E k \in Keys : Goto(c, At("insert", k))
      <3>1. \A d \in Calls : call'[d] = call[d] \/ call'[d].at # "done"
        BY <2>2 DEF Goto, At, TypeOK
      <3> QED BY <3>1, LostAnswers DEF Get
    <2> QED BY <2>1, <2>2 DEF Get
  <1>5. CASE \E c \in Calls : Insert(c)
    <2> PICK c \in Calls : Insert(c)
      BY <1>5
    <2>1. \A d \in Calls : call'[d] = call[d] \/ (call'[d].at # "done" /\ call[d].at # "done")
      BY DEF Insert, Goto, At, TypeOK
    <2>2. Answers' = Answers
      BY <2>1, KeptAnswers
    <2>3. call[c].key \in Keys
      BY DEF Insert, TypeOK
    <2>4. CASE row = None
      BY <2>2, <2>3, <2>4 DEF Insert, Landed, Cell!Fill, Answers
    <2>5. CASE row # None
      BY <2>2, <2>5 DEF Insert, Landed
    <2> QED BY <2>4, <2>5
  <1>6. CASE \E c \in Calls : Reread(c)
    BY <1>6, ReturnAnswers, RaiseForgetsCell DEF Reread
  <1>7. CASE \E c \in Calls : StatementFails(c)
    BY <1>7, RaiseForgetsCell DEF StatementFails
  <1>8. CASE Rotate
    <2>1. Answers' = Answers
      BY <1>8 DEF Rotate, Answers, Answered
    <2> QED BY <1>8, <2>1 DEF Rotate, Cell!Rotate, Answers
  <1>9. CASE UNCHANGED vars
    BY <1>9 DEF vars, Answers, Answered
  <1> QED
    BY <1>1, <1>2, <1>3, <1>4, <1>5, <1>6, <1>7, <1>8, <1>9 DEF Next, Work

\* api_key implements the cell: whatever the order of the statements of every
\* call in every process, the cell is filled once, no step of a call or a process
\* replaces or clears what it holds, only an edit that the operator made does, and an
\* answer is what it holds at the moment of the answer.
THEOREM ImplementsKeyCell == Spec => ImplementsCell
  <1>1. Init => Cell!Init
    BY DEF Init, Cell!Init, Answered, Idle
  <1>2. TypeOK /\ AppWaits /\ [Next]_vars => [Cell!Next]_(Cell!cellVars)
    <2> SUFFICES ASSUME TypeOK, AppWaits, [Next]_vars PROVE [Cell!Next]_(Cell!cellVars)
      OBVIOUS
    <2> QED BY StepRefines DEF Cell!Next, Cell!cellVars, Answers
  <1> QED BY <1>1, <1>2, TypeCorrect, Waiting, PTL DEF Spec, ImplementsCell, Cell!CellSpec

\* And while the operator leaves the row alone, it never changes once it is there.
THEOREM ImplementsUntouched == (MaxRotations = 0) => (Spec => ImplementsUntouchedCell)
  <1> SUFFICES ASSUME MaxRotations = 0 PROVE Spec => ImplementsUntouchedCell
    OBVIOUS
  <1>1. Init => Cell!Init
    BY DEF Init, Cell!Init, Answered, Idle
  <1>2. TypeOK /\ AppWaits /\ [Next]_vars => [Cell!NextUntouched]_(Cell!cellVars)
    <2> SUFFICES ASSUME TypeOK, AppWaits, [Next]_vars
                 PROVE  [Cell!NextUntouched]_(Cell!cellVars)
      OBVIOUS
    <2>1. ~Rotate
      BY DEF Rotate, TypeOK
    <2> QED BY <2>1, StepRefines DEF Cell!NextUntouched, Cell!cellVars, Answers
  <1> QED
    BY <1>1, <1>2, TypeCorrect, Waiting, PTL
    DEF Spec, ImplementsUntouchedCell, Cell!UntouchedSpec
(***************************************************************************)
(* Descent: how many statements a call still has to issue.                 *)
(***************************************************************************)
Statements(e) ==
    CASE e.at = "get" -> 3 [] e.at = "insert" -> 2 [] e.at = "reread" -> 1 [] OTHER -> 0

\* The safety half of CallsReturn.  A statement of a call, one that fails included,
\* leaves it fewer to issue; nothing else makes it issue more, or one it has issued
\* once more: not another call that wins the row, nor the operator who deletes it.
CallsDescend ==
    [][\A c \in Calls :
          /\ Work(c) \/ StatementFails(c) => Statements(call'[c]) < Statements(call[c])
          /\ Statements(call[c]) # 0 /\ call'[c] # call[c] =>
                Statements(call'[c]) < Statements(call[c])]_vars

Issuing == {"get", "insert", "reread"}

LEMMA StatementsAre ==
    ASSUME NEW e
    PROVE  /\ e.at \in Issuing <=> Statements(e) # 0
           /\ Statements(e) \in 0..3
           /\ e.at = "get" => Statements(e) = 3
           /\ e.at = "insert" => Statements(e) = 2
           /\ e.at = "reread" => Statements(e) = 1
  BY DEF Statements, Issuing

\* A call that ended has none left.
LEMMA EndedLowers ==
    ASSUME NEW c \in Calls, call[c].at \in Issuing, call'[c].at \notin Issuing
    PROVE  Statements(call'[c]) < Statements(call[c])
  <1>1. Statements(call'[c]) = 0 /\ Statements(call[c]) \in 0..3 /\ Statements(call[c]) # 0
    BY StatementsAre
  <1> QED BY <1>1

LEMMA DownLowers ==
    ASSUME NEW p \in Services, call' = Down(p)
    PROVE  \A d \in Calls : call'[d] = call[d] \/ call'[d] = Idle
  BY DEF Down

LEMMA RaiseLowers ==
    ASSUME TypeOK, NEW c \in Calls, Raise(c)
    PROVE  /\ call'[c].at \notin Issuing
           /\ \A d \in Calls : call'[d] = call[d] \/ call'[d].at \notin Issuing
  <1>1. CASE c[2] \in {0, 1}
    <2>1. call' = Down(c[1]) /\ c[1] \in Services
      BY <1>1, CallsAre DEF Raise
    <2>2. call'[c] = Idle
      BY <2>1 DEF Down
    <2> QED BY <2>1, <2>2, DownLowers DEF Idle, Issuing
  <1>2. CASE c[2] \notin {0, 1}
    BY <1>2 DEF Raise, At, Issuing, TypeOK
  <1> QED BY <1>1, <1>2

\* A return ends its call, and starts app()'s, which is under way in no other call.
LEMMA ReturnLowers ==
    ASSUME TypeOK, AppWaits, NEW c \in Calls, NEW key, call[c].at \in {"get", "reread"}, Return(c, key)
    PROVE  /\ call'[c].at \notin Issuing
           /\ \A d \in Calls : call[d].at \in Issuing => call'[d] = call[d] \/ call'[d].at \notin Issuing
  <1>1. \A d \in Calls :
          call'[d] = IF d = AppOf(c[1])
                     THEN IF c = MainOf(c[1]) THEN At("get", None)
                          ELSE IF c = AppOf(c[1]) THEN At("done", key)
                          ELSE IF d = c THEN At("done", key) ELSE call[d]
                     ELSE IF d = c THEN At("done", key) ELSE call[d]
    BY CallsAre DEF Return, TypeOK
  <1>2. MainOf(c[1]) # AppOf(c[1])
    BY CallsAre
  <1>3. call'[c].at \notin Issuing
    BY <1>1, <1>2 DEF At, Issuing
  <1>4. ASSUME NEW d \in Calls, call[d].at \in Issuing
        PROVE  call'[d] = call[d] \/ call'[d].at \notin Issuing
    <2>1. CASE d = AppOf(c[1]) /\ c = MainOf(c[1])
      <3>1. call[d] = Idle
        BY <2>1, CallsAre DEF AppWaits, Answered
      <3> QED BY <1>4, <3>1 DEF Idle, Issuing
    <2>2. CASE ~(d = AppOf(c[1]) /\ c = MainOf(c[1]))
      BY <1>1, <2>2 DEF At, Issuing
    <2> QED BY <2>1, <2>2
  <1> QED BY <1>3, <1>4

\* The next statement of a call, of which there are fewer left.
LEMMA GotoLowers ==
    ASSUME TypeOK, NEW c \in Calls, NEW next, Goto(c, next)
    PROVE  call'[c] = next /\ \A d \in Calls : d # c => call'[d] = call[d]
  BY DEF Goto, TypeOK

Lowers(c) ==
    /\ Statements(call'[c]) < Statements(call[c])
    /\ \A d \in Calls : call[d].at \in Issuing /\ call'[d] # call[d] =>
          Statements(call'[d]) < Statements(call[d])

LEMMA EndLowers ==
    ASSUME NEW c \in Calls, call[c].at \in Issuing, call'[c].at \notin Issuing,
           \A d \in Calls : call[d].at \in Issuing => call'[d] = call[d] \/ call'[d].at \notin Issuing
    PROVE  Lowers(c)
  BY EndedLowers DEF Lowers

LEMMA WorkLowers ==
    ASSUME TypeOK, AppWaits, NEW c \in Calls, Work(c) \/ StatementFails(c)
    PROVE  Lowers(c)
  <1>1. CASE Get(c)
    <2>1. call[c].at = "get"
      BY <1>1 DEF Get
    <2>2. CASE Return(c, row)
      BY <2>1, <2>2, ReturnLowers, EndLowers DEF Issuing
    <2>3. CASE \E k \in Keys : Goto(c, At("insert", k))
      <3> PICK k \in Keys : Goto(c, At("insert", k))
        BY <2>3
      <3>1. call'[c].at = "insert" /\ \A d \in Calls : d # c => call'[d] = call[d]
        BY GotoLowers DEF At
      <3>2. Statements(call'[c]) = 2 /\ Statements(call[c]) = 3
        BY <2>1, <3>1, StatementsAre
      <3> QED BY <3>1, <3>2 DEF Lowers
    <2> QED BY <1>1, <2>2, <2>3 DEF Get
  <1>2. CASE Insert(c)
    <2>1. call[c].at = "insert" /\ Goto(c, At("reread", call[c].key))
      BY <1>2 DEF Insert
    <2>2. call'[c].at = "reread" /\ \A d \in Calls : d # c => call'[d] = call[d]
      BY <2>1, GotoLowers DEF At
    <2>3. Statements(call'[c]) = 1 /\ Statements(call[c]) = 2
      BY <2>1, <2>2, StatementsAre
    <2> QED BY <2>2, <2>3 DEF Lowers
  <1>3. CASE Reread(c)
    <2>1. call[c].at = "reread"
      BY <1>3 DEF Reread
    <2>2. CASE Return(c, row)
      BY <2>1, <2>2, ReturnLowers, EndLowers DEF Issuing
    <2>3. CASE Raise(c)
      BY <2>1, <2>3, RaiseLowers, EndLowers DEF Issuing
    <2> QED BY <1>3, <2>2, <2>3 DEF Reread
  <1>4. CASE StatementFails(c)
    <2>1. call[c].at \in Issuing /\ Raise(c)
      BY <1>4 DEF StatementFails, Issuing
    <2> QED BY <2>1, RaiseLowers, EndLowers
  <1> QED BY <1>1, <1>2, <1>3, <1>4 DEF Work

\* The start of a service, the end of one and a new request move no call that is
\* under way, but to end it.
LEMMA OthersLower ==
    ASSUME TypeOK, [Next]_vars, NEW d \in Calls, call[d].at \in Issuing, call'[d] # call[d],
           \A c \in Calls : ~Work(c) /\ ~StatementFails(c)
    PROVE  Statements(call'[d]) < Statements(call[d])
  <1> USE InstanceKeyAssumption
  <1>1. ASSUME NEW p \in Services, Start(p) PROVE FALSE
    <2>1. MainOf(p) \in Calls /\ call[MainOf(p)] = Idle
      BY <1>1, MainIs DEF Start
    <2>2. call'[d] = call[d]
      BY <1>1, <2>1, GotoLowers DEF Start, Idle, Issuing
    <2> QED BY <2>2
  <1>2. ASSUME NEW p \in Services, Die(p) PROVE call'[d].at \notin Issuing
    BY <1>2, DownLowers DEF Die, Idle, Issuing
  <1>3. ASSUME NEW c \in Calls, Request(c) PROVE FALSE
    BY <1>3, GotoLowers DEF Request, Issuing
  <1>4. ~Rotate /\ ~UNCHANGED vars
    BY DEF Rotate, vars
  <1>5. call'[d].at \notin Issuing
    BY <1>1, <1>2, <1>3, <1>4 DEF Next
  <1> QED BY <1>5, EndedLowers

\* Every call of api_key ends after at most three statements, however many calls of
\* however many processes race it for the row.
THEOREM CallsGoDown == Spec => CallsDescend
  <1>1. TypeOK /\ AppWaits /\ [Next]_vars =>
          [\A c \in Calls :
             /\ Work(c) \/ StatementFails(c) => Statements(call'[c]) < Statements(call[c])
             /\ Statements(call[c]) # 0 /\ call'[c] # call[c] =>
                   Statements(call'[c]) < Statements(call[c])]_vars
    <2> SUFFICES ASSUME TypeOK, AppWaits, [Next]_vars, NEW c \in Calls
                 PROVE  /\ Work(c) \/ StatementFails(c) => Statements(call'[c]) < Statements(call[c])
                        /\ Statements(call[c]) # 0 /\ call'[c] # call[c] =>
                              Statements(call'[c]) < Statements(call[c])
      OBVIOUS
    <2>1. Work(c) \/ StatementFails(c) => Statements(call'[c]) < Statements(call[c])
      BY WorkLowers DEF Lowers
    <2>2. ASSUME Statements(call[c]) # 0, call'[c] # call[c]
          PROVE  Statements(call'[c]) < Statements(call[c])
      <3>1. call[c].at \in Issuing
        BY <2>2, StatementsAre
      <3>2. CASE \E d \in Calls : Work(d) \/ StatementFails(d)
        BY <2>2, <3>1, <3>2, WorkLowers DEF Lowers
      <3>3. CASE \A d \in Calls : ~Work(d) /\ ~StatementFails(d)
        BY <2>2, <3>1, <3>3, OthersLower
      <3> QED BY <3>2, <3>3
    <2> QED BY <2>1, <2>2
  <1> QED BY <1>1, TypeCorrect, Waiting, PTL DEF Spec, CallsDescend
=============================================================================
