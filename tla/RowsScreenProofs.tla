--------------------------- MODULE RowsScreenProofs ---------------------------
(***************************************************************************)
(* For both screens, any rows, keys and secrets, any number of writes,     *)
(* failures and other clients: the types of RowsScreen; that a form saves  *)
(* its own row and its draft never holds a stored secret; that only a 401  *)
(* to the key in use clears it; and that the rows which stay on the screen *)
(* are never older than a write this tab knows of.                         *)
(***************************************************************************)
EXTENDS RowsScreen, FiniteSetTheorems, TLAPS

MaybeKeys == Keys \cup {NoKey}
Lists == [is : {"none", "rows", "error"}, rows : Rows, at : Versions]
Fetches == [is : {"none", "sent", "rows", "error", "refused"}, key : MaybeKeys,
            rows : Rows, at : Versions]
Forms == [at : {"list", "pick", "add", "edit"}, id : {0} \cup Ids, base : Row]
Typings == [text : Texts \cup {Untouched}, secret : Secrets \cup {Blank, Untouched},
            on : BOOLEAN \cup {Untouched}]
Calls == [n : 1..MaxCalls, do : {"create", "update", "toggle", "delete"}, id : {0} \cup Ids,
          row : Row, blank : BOOLEAN, key : Keys, heard : BOOLEAN,
          answer : {"none", "ok", "problem", "refused"}, at : Versions]

ServerTypes == table \in Rows /\ nextId \in 1..(MaxId + 1) /\ wanted \in Keys
ShownTypes == list \in Lists /\ fetch \in Fetches
              /\ schema \in {"none", "loading", "ready", "error", "refused"}
FormTypes == screen \in Forms /\ draft \in Row /\ typed \in Typings /\ confirm \in {0} \cup Ids

(***************************************************************************)
(* The strengthening.  A call the server has yet to answer may still write *)
(* once, so the writes so far and those to come are at most the calls      *)
(* issued and the trouble met.                                             *)
(***************************************************************************)
Unanswered == {c \in calls : c.answer = "none"}

Counted ==
    /\ version \in Nat /\ IsFiniteSet(Unanswered)
    /\ version + Cardinality(Unanswered) <= issued + trouble

(* The parts of TypeOK a step can disturb one without the other. *)
Sound ==
    /\ kind \in Screens /\ ServerTypes /\ acked \in Versions /\ key \in MaybeKeys
    /\ ShownTypes /\ FormTypes /\ calls \subseteq Calls
    /\ issued \in 0..MaxCalls /\ trouble \in 0..MaxTrouble
    /\ Counted

-----------------------------------------------------------------------------
(* The values the screen starts from, and those a key or a row gives.      *)

LEMMA Bounds == 0 \in Versions /\ MaxCalls \in Nat /\ MaxTrouble \in Nat /\ MaxId \in Nat
BY RowsScreenAssumption DEF Versions

LEMMA Starts ==
    /\ NoRow \in Row /\ NoRows \in Rows /\ NothingTyped \in Typings
    /\ Nothing \in Lists /\ Idle \in Fetches /\ AtList \in Forms
<1>1. NoRow \in Row /\ NoRows \in Rows /\ NothingTyped \in Typings
  BY DEF NoRow, Row, NoRows, Rows, NothingTyped, Typings
<1>2. Nothing \in Lists /\ Idle \in Fetches
  BY <1>1, Bounds DEF Nothing, Lists, Idle, Fetches, MaybeKeys
<1>3. AtList \in Forms
  BY <1>1 DEF AtList, Forms
<1> QED
  BY <1>1, <1>2, <1>3

LEMMA AskingType ==
    ASSUME NEW k \in MaybeKeys
    PROVE  Asking(k) \in Fetches /\ Asking(k).is = "sent" /\ Asking(k).key = k /\ Asking(k).at = 0
BY Starts DEF Asking, Idle, Fetches

LEMMA NewScreenTypes == NewScreen => list' \in Lists /\ FormTypes'
BY Starts DEF NewScreen, FormTypes

LEMMA MountTypes == Mount /\ key' \in MaybeKeys => ShownTypes' /\ FormTypes'
BY NewScreenTypes, AskingType DEF Mount, ShownTypes

(* The calls of an unmounted screen: none new, none answered. *)
LEMMA UnheardTypes ==
    ASSUME calls \subseteq Calls
    PROVE  /\ Unheard \subseteq Calls
           /\ \A c \in Unheard : c.answer = "none" /\ c.heard = FALSE
           /\ \A c \in Unheard : \E d \in calls : c.at = d.at
<1>1. SUFFICES ASSUME NEW c \in Unheard
      PROVE  /\ c \in Calls /\ c.answer = "none" /\ c.heard = FALSE
             /\ \E d \in calls : c.at = d.at
  OBVIOUS
<1>2. PICK d \in calls : d.answer = "none" /\ c = [d EXCEPT !.heard = FALSE]
  BY DEF Unheard
<1>3. d \in Calls
  OBVIOUS
<1> QED
  BY <1>2, <1>3 DEF Calls

LEMMA UnheardCount ==
    ASSUME IsFiniteSet(Unanswered)
    PROVE  IsFiniteSet(Unheard) /\ Cardinality(Unheard) <= Cardinality(Unanswered)
<1> DEFINE Hush == [c \in Unanswered |-> [c EXCEPT !.heard = FALSE]]
<1>1. Hush \in [Unanswered -> Unheard] /\ \A d \in Unheard : \E c \in Unanswered : Hush[c] = d
  BY Zenon DEF Unheard, Unanswered
<1> HIDE DEF Hush
<1>2. Hush \in Surjection(Unanswered, Unheard)
  BY <1>1 DEF Surjection
<1> QED
  BY <1>2, FS_Surjection

LEMMA MaxOfTwo ==
    ASSUME NEW a \in Nat, NEW b \in Nat
    PROVE  Max({a, b}) \in {a, b} /\ Max({a, b}) >= a /\ Max({a, b}) >= b
<1>1. \E x \in {a, b} : \A y \in {a, b} : x >= y
  OBVIOUS
<1> QED
  BY <1>1 DEF Max

LEMMA OneMore ==
    ASSUME NEW S, NEW x, IsFiniteSet(S)
    PROVE  /\ IsFiniteSet(S \cup {x}) /\ Cardinality(S \cup {x}) \in Nat
           /\ Cardinality(S \cup {x}) <= Cardinality(S) + 1
<1>1. IsFiniteSet(S \cup {x}) /\ Cardinality(S) \in Nat
  BY FS_AddElement, FS_CardinalityType
<1>2. Cardinality(S \cup {x}) \in Nat
  BY <1>1, FS_CardinalityType
<1>3. Cardinality(S \cup {x}) = IF x \in S THEN Cardinality(S) ELSE Cardinality(S) + 1
  BY FS_AddElement
<1> QED
  BY <1>1, <1>2, <1>3

LEMMA OneLess ==
    ASSUME NEW S, NEW x \in S, IsFiniteSet(S)
    PROVE  IsFiniteSet(S \ {x}) /\ Cardinality(S \ {x}) \in Nat
           /\ Cardinality(S \ {x}) + 1 = Cardinality(S)
<1>1. IsFiniteSet(S \ {x}) /\ Cardinality(S) \in Nat
  BY FS_RemoveElement, FS_CardinalityType
<1>2. Cardinality(S \ {x}) \in Nat
  BY <1>1, FS_CardinalityType
<1>3. Cardinality(S \ {x}) = Cardinality(S) - 1
  BY FS_RemoveElement
<1> QED
  BY <1>1, <1>2, <1>3

LEMMA VersionBound ==
    ASSUME Counted, issued \in 0..MaxCalls, trouble \in 0..MaxTrouble
    PROVE  version \in Versions
BY Bounds, FS_CardinalityType DEF Counted, Versions

LEMMA SoundIsTyped == Sound => TypeOK /\ version \in Versions
BY VersionBound DEF Sound, TypeOK, ServerTypes, ShownTypes, FormTypes, MaybeKeys, Lists,
                    Fetches, Forms, Typings, Calls

-----------------------------------------------------------------------------
(* Types and the count of writes: one lemma per action.                    *)

LEMMA InitSound == Init => Sound
<1> SUFFICES ASSUME Init PROVE Sound
  OBVIOUS
<1>1. table \in Rows /\ nextId \in 1..(MaxId + 1)
  <2>1. CASE table = NoRows /\ nextId = 1
    BY <2>1, Starts, RowsScreenAssumption
  <2>2. ASSUME NEW t \in Texts, NEW s \in Secrets, nextId = 2,
               table = [NoRows EXCEPT ![1] = [text |-> t, secret |-> s, on |-> TRUE]]
        PROVE  table \in Rows /\ nextId \in 1..(MaxId + 1)
    <3>1. [text |-> t, secret |-> s, on |-> TRUE] \in Row
      BY DEF Row
    <3> QED
      BY <2>2, <3>1, Starts, RowsScreenAssumption DEF Rows, Ids
  <2> QED
    BY <2>1, <2>2 DEF Init
<1>2. ServerTypes /\ ShownTypes /\ FormTypes
  BY <1>1, Starts DEF Init, ServerTypes, ShownTypes, FormTypes
<1>3. Unanswered = {} /\ version = 0 /\ issued = 0 /\ trouble = 0
  BY DEF Init, Unanswered
<1>4. Counted
  BY <1>3, FS_EmptySet DEF Counted
<1>5. /\ kind \in Screens /\ acked = 0 /\ key \in MaybeKeys /\ calls \subseteq Calls
  BY DEF Init, MaybeKeys
<1> QED
  BY <1>2, <1>3, <1>4, <1>5, Bounds DEF Sound

(* A step that leaves the calls and the version alone keeps the count.     *)
LEMMA QuietCount ==
    ASSUME Counted, UNCHANGED <<version, calls, issued>>, issued \in Nat, trouble \in Nat,
           trouble' \in Nat, trouble' >= trouble
    PROVE  Counted'
<1>1. Unanswered' = Unanswered /\ Cardinality(Unanswered) \in Nat
  BY FS_CardinalityType DEF Unanswered, Counted
<1> QED
  BY <1>1 DEF Counted

(* ... and so does one that drops calls or stops listening to them.        *)
LEMMA UnheardKeepsCount ==
    ASSUME Sound, calls' = Unheard, UNCHANGED <<version, issued>>,
           trouble' \in Nat, trouble' >= trouble
    PROVE  Counted' /\ calls' \subseteq Calls
<1>1. calls \subseteq Calls /\ issued \in Nat /\ trouble \in Nat
  BY DEF Sound
<1>2. Unanswered' = Unheard
  BY <1>1, UnheardTypes DEF Unanswered
<1>3. /\ IsFiniteSet(Unheard) /\ Cardinality(Unheard) <= Cardinality(Unanswered)
      /\ Cardinality(Unheard) \in Nat /\ Cardinality(Unanswered) \in Nat
  BY UnheardCount, FS_CardinalityType DEF Sound, Counted
<1>4. version \in Nat /\ version + Cardinality(Unanswered) <= issued + trouble
  BY DEF Sound, Counted
<1>5. Counted'
  BY <1>1, <1>2, <1>3, <1>4 DEF Counted
<1> QED
  BY <1>1, <1>5, UnheardTypes

LEMMA ReauthenticateSound ==
    ASSUME Sound, Reauthenticate, UNCHANGED <<kind, server, acked, issued, trouble>>
    PROVE  Sound'
<1>1. /\ kind \in Screens /\ ServerTypes /\ acked \in Versions
      /\ issued \in 0..MaxCalls /\ trouble \in 0..MaxTrouble
  BY DEF Sound
<1>2. ServerTypes' /\ key' \in MaybeKeys
  BY <1>1 DEF server, ServerTypes, Reauthenticate, MaybeKeys
<1>3. ShownTypes' /\ FormTypes'
  BY NewScreenTypes, Starts DEF Reauthenticate, ShownTypes
<1>4. Counted' /\ calls' \subseteq Calls
  BY <1>1, UnheardKeepsCount DEF server, Reauthenticate
<1> QED
  BY <1>1, <1>2, <1>3, <1>4 DEF Sound, server

LEMMA EnterKeySound ==
    ASSUME Sound, NEW k \in Keys, EnterKey(k)
    PROVE  Sound'
<1>1. /\ kind \in Screens /\ ServerTypes /\ acked \in Versions
      /\ calls \subseteq Calls /\ issued \in 0..MaxCalls /\ trouble \in 0..MaxTrouble
  BY DEF Sound
<1>2. /\ key' = k /\ Mount /\ UNCHANGED <<kind, table, nextId, version, wanted, acked, calls, issued, trouble>>
  BY DEF EnterKey, server
<1>3. ShownTypes' /\ FormTypes' /\ ServerTypes' /\ key' \in MaybeKeys
  BY <1>1, <1>2, MountTypes DEF ServerTypes, MaybeKeys
<1>4. Counted'
  BY <1>1, <1>2, QuietCount DEF Sound
<1> QED
  BY <1>1, <1>2, <1>3, <1>4 DEF Sound

LEMMA LeaveSound == ASSUME Sound, Leave PROVE Sound'
<1>1. /\ kind \in Screens /\ ServerTypes /\ acked \in Versions
      /\ key \in MaybeKeys /\ issued \in 0..MaxCalls /\ trouble \in 0..MaxTrouble
  BY DEF Sound
<1>2. /\ Mount /\ calls' = Unheard
      /\ UNCHANGED <<kind, table, nextId, version, wanted, acked, key, issued, trouble>>
  BY DEF Leave, server
<1>3. ShownTypes' /\ FormTypes' /\ ServerTypes' /\ key' \in MaybeKeys
  BY <1>1, <1>2, MountTypes DEF ServerTypes
<1>4. Counted' /\ calls' \subseteq Calls
  BY <1>1, <1>2, UnheardKeepsCount
<1> QED
  BY <1>1, <1>2, <1>3, <1>4 DEF Sound

(* The two resources. *)
LEMMA FetchSound ==
    ASSUME Sound, fetch' \in Fetches, trouble' \in {trouble, trouble + 1}, trouble' <= MaxTrouble,
           UNCHANGED <<kind, server, acked, key, list, schema, form, calls, issued>>
    PROVE  Sound'
<1>1. /\ kind \in Screens /\ ServerTypes /\ acked \in Versions /\ key \in MaybeKeys
      /\ ShownTypes /\ FormTypes /\ calls \subseteq Calls
      /\ issued \in 0..MaxCalls /\ trouble \in 0..MaxTrouble
  BY DEF Sound
<1>2. ServerTypes' /\ ShownTypes' /\ FormTypes'
  BY <1>1 DEF server, form, ServerTypes, ShownTypes, FormTypes
<1>3. trouble' \in 0..MaxTrouble /\ trouble' >= trouble
  BY <1>1, Bounds
<1>4. Counted'
  BY <1>1, <1>3, QuietCount DEF Sound, server
<1> QED
  BY <1>1, <1>2, <1>3, <1>4 DEF Sound

LEMMA ServeFetchSound == ASSUME Sound, ServeFetch PROVE Sound'
<1>1. version \in Versions /\ table \in Rows /\ fetch \in Fetches /\ trouble \in 0..MaxTrouble
  BY SoundIsTyped DEF Sound, ServerTypes, ShownTypes
<1>2. fetch' \in Fetches
  BY <1>1 DEF ServeFetch, Fetches
<1>3. UNCHANGED <<kind, server, acked, key, list, schema, form, calls, issued, trouble>>
  BY DEF ServeFetch
<1> QED
  BY <1>1, <1>2, <1>3, Bounds, FetchSound

LEMMA FetchFailsSound == ASSUME Sound, FetchFails PROVE Sound'
<1>1. fetch' \in Fetches
  BY Starts DEF FetchFails, Fetches, Idle
<1>2. /\ trouble' = trouble + 1 /\ trouble < MaxTrouble /\ trouble \in Nat
      /\ UNCHANGED <<kind, server, acked, key, list, schema, form, calls, issued>>
  BY DEF FetchFails, Sound
<1> QED
  BY <1>1, <1>2, Bounds, FetchSound

LEMMA FetchArrivesSound == ASSUME Sound, FetchArrives PROVE Sound'
<1>1. CASE Reauthenticate
  BY <1>1, ReauthenticateSound DEF FetchArrives
<1>2. CASE /\ fetch.is \in {"rows", "error"}
           /\ list' = [is |-> fetch.is, rows |-> fetch.rows, at |-> fetch.at]
           /\ fetch' = Idle
           /\ UNCHANGED <<key, schema, form, calls>>
  <2>1. /\ kind \in Screens /\ ServerTypes /\ acked \in Versions /\ key \in MaybeKeys
        /\ ShownTypes /\ FormTypes /\ calls \subseteq Calls
        /\ issued \in 0..MaxCalls /\ trouble \in 0..MaxTrouble
    BY DEF Sound
  <2>2. list' \in Lists /\ fetch' \in Fetches
    BY <1>2, <2>1, Starts DEF ShownTypes, Fetches, Lists
  <2>3. UNCHANGED <<kind, server, acked, issued, trouble, key, schema, form, calls>>
    BY <1>2 DEF FetchArrives
  <2>4. ServerTypes' /\ ShownTypes' /\ FormTypes'
    BY <2>1, <2>2, <2>3 DEF server, form, ServerTypes, ShownTypes, FormTypes
  <2>5. Counted'
    BY <2>1, <2>3, QuietCount DEF Sound, server
  <2> QED
    BY <2>1, <2>3, <2>4, <2>5 DEF Sound
<1> QED
  BY <1>1, <1>2 DEF FetchArrives

LEMMA SchemaArrivesSound == ASSUME Sound, SchemaArrives PROVE Sound'
<1>1. CASE Reauthenticate /\ UNCHANGED trouble
  BY <1>1, ReauthenticateSound DEF SchemaArrives
<1>2. CASE /\ schema' \in {"ready", "error", "refused"} /\ trouble' \in {trouble, trouble + 1}
           /\ trouble' <= MaxTrouble
           /\ UNCHANGED <<key, list, fetch, form, calls>>
  <2>1. /\ kind \in Screens /\ ServerTypes /\ acked \in Versions /\ key \in MaybeKeys
        /\ ShownTypes /\ FormTypes /\ calls \subseteq Calls
        /\ issued \in 0..MaxCalls /\ trouble \in 0..MaxTrouble
    BY DEF Sound
  <2>2. UNCHANGED <<kind, server, acked, issued, key, list, fetch, form, calls>>
    BY <1>2 DEF SchemaArrives
  <2>3. ServerTypes' /\ ShownTypes' /\ FormTypes'
    BY <1>2, <2>1, <2>2 DEF server, form, ServerTypes, ShownTypes, FormTypes
  <2>4. trouble' \in 0..MaxTrouble /\ trouble' >= trouble
    BY <1>2, <2>1, Bounds
  <2>5. Counted'
    BY <2>1, <2>2, <2>4, QuietCount DEF Sound, server
  <2> QED
    BY <2>1, <2>2, <2>3, <2>4, <2>5 DEF Sound
<1>3. trouble \in 0..MaxTrouble
  BY DEF Sound
<1> QED
  BY <1>1, <1>2, <1>3, Bounds DEF SchemaArrives

(* The user's commands that stay in the tab. *)
LEMMA FormSound ==
    ASSUME Sound, screen' \in Forms, draft' \in Row, typed' \in Typings, confirm' \in {0} \cup Ids,
           UNCHANGED <<kind, server, acked, key, list, fetch, schema, calls, issued, trouble>>
    PROVE  Sound'
<1>1. /\ kind \in Screens /\ ServerTypes /\ acked \in Versions /\ key \in MaybeKeys
      /\ ShownTypes /\ calls \subseteq Calls
      /\ issued \in 0..MaxCalls /\ trouble \in 0..MaxTrouble
  BY DEF Sound
<1>2. ServerTypes' /\ ShownTypes' /\ FormTypes'
  BY <1>1 DEF server, ServerTypes, ShownTypes, FormTypes
<1>3. Counted'
  BY <1>1, QuietCount DEF Sound, server
<1> QED
  BY <1>1, <1>2, <1>3 DEF Sound

LEMMA OpenFormTypes ==
    ASSUME NEW at \in {"add", "edit"}, NEW id \in {0} \cup Ids, NEW base \in Row, OpenForm(at, id, base)
    PROVE  screen' \in Forms /\ draft' \in Row /\ typed' \in Typings
BY Starts DEF OpenForm, AtForm, Forms, Row

LEMMA AddSound == ASSUME Sound, Add PROVE Sound'
<1>1. CASE Reauthenticate
  BY <1>1, ReauthenticateSound DEF Add
<1>2. CASE /\ OpenForm("add", 0, [NoRow EXCEPT !.on = TRUE])
           /\ UNCHANGED <<key, list, fetch, schema, confirm, calls>>
  <2>1. [NoRow EXCEPT !.on = TRUE] \in Row
    BY Starts DEF NoRow, Row
  <2>2. screen' \in Forms /\ draft' \in Row /\ typed' \in Typings
    BY <1>2, <2>1, OpenFormTypes
  <2> QED
    BY <1>2, <2>2, FormSound DEF Add, Sound, FormTypes
<1>3. CASE /\ screen' = [AtList EXCEPT !.at = "pick"]
           /\ UNCHANGED <<key, list, fetch, schema, draft, typed, confirm, calls>>
  <2>1. screen' \in Forms
    BY <1>3, Starts DEF Forms
  <2> QED
    BY <1>3, <2>1, FormSound DEF Add, Sound, FormTypes
<1> QED
  BY <1>1, <1>2, <1>3 DEF Add

LEMMA PickDefinitionSound == ASSUME Sound, PickDefinition PROVE Sound'
<1>1. PICK t \in Texts : OpenForm("add", 0, [NoRow EXCEPT !.text = t])
  BY DEF PickDefinition
<1>2. [NoRow EXCEPT !.text = t] \in Row
  BY Starts DEF NoRow, Row
<1>3. screen' \in Forms /\ draft' \in Row /\ typed' \in Typings
  BY <1>1, <1>2, OpenFormTypes
<1> QED
  BY <1>3, FormSound DEF PickDefinition, Quietly, Sound, FormTypes

LEMMA EditSound == ASSUME Sound, NEW id \in Ids, Edit(id) PROVE Sound'
<1>1. list.rows[id] \in Row
  BY DEF Edit, Listed, Sound, ShownTypes, Lists, Rows
<1>2. screen' \in Forms /\ draft' \in Row /\ typed' \in Typings
  BY <1>1, OpenFormTypes DEF Edit
<1> QED
  BY <1>2, FormSound DEF Edit, Quietly, Sound, FormTypes

(* What the user can type into a field. *)
Entries ==
    {<<"text", t>> : t \in Texts} \cup {<<"on", on>> : on \in BOOLEAN}
    \cup {<<"secret", s>> : s \in Secrets \cup {Blank}}

LEMMA TypeTypes ==
    ASSUME FormTypes, NEW field, NEW value, <<field, value>> \in Entries, Type(field, value)
    PROVE  /\ screen' \in Forms /\ draft' \in Row /\ typed' \in Typings /\ confirm' \in {0} \cup Ids
           /\ screen' = screen /\ draft'[field] = value /\ typed'[field] = value
           /\ \A other \in {"text", "on", "secret"} \ {field} :
                 draft'[other] = draft[other] /\ typed'[other] = typed[other]
<1>1. \/ field = "text" /\ value \in Texts
      \/ field = "on" /\ value \in BOOLEAN
      \/ field = "secret" /\ value \in Secrets \cup {Blank}
  BY DEF Entries
<1>2. draft \in Row /\ typed \in Typings
  BY DEF FormTypes
<1>3. draft' = [draft EXCEPT ![field] = value] /\ typed' = [typed EXCEPT ![field] = value]
  BY DEF Type
<1>4. draft' \in Row /\ typed' \in Typings
  BY <1>1, <1>2, <1>3 DEF Row, Typings
<1>5. /\ draft'[field] = value /\ typed'[field] = value
      /\ \A other \in {"text", "on", "secret"} \ {field} :
             draft'[other] = draft[other] /\ typed'[other] = typed[other]
  BY <1>1, <1>2, <1>3 DEF Row, Typings
<1> QED
  BY <1>4, <1>5 DEF Type, FormTypes

LEMMA TypeSound ==
    ASSUME Sound, NEW field, NEW value, <<field, value>> \in Entries, Type(field, value)
    PROVE  Sound'
BY TypeTypes, FormSound DEF Type, Quietly, Sound

LEMMA CancelSound == ASSUME Sound, Cancel PROVE Sound'
BY Starts, FormSound DEF Cancel, Quietly, Sound, FormTypes

LEMMA AskDeleteSound == ASSUME Sound, NEW id \in Ids, AskDelete(id) PROVE Sound'
BY FormSound DEF AskDelete, Quietly, Sound, FormTypes

(* The user's writes. *)
Asked(do, id, row, blank) ==
    [n |-> issued', do |-> do, id |-> id, row |-> row, blank |-> blank, key |-> key,
     heard |-> TRUE, answer |-> "none", at |-> 0]

LEMMA IssueSound ==
    ASSUME Sound, key # NoKey, NEW do \in {"create", "update", "toggle", "delete"},
           NEW id \in {0} \cup Ids, NEW row \in Row, NEW blank \in BOOLEAN,
           Issue(do, id, row, blank)
    PROVE  Sound'
<1>1. /\ kind \in Screens /\ ServerTypes /\ acked \in Versions /\ key \in MaybeKeys
      /\ ShownTypes /\ FormTypes /\ calls \subseteq Calls
      /\ issued \in 0..MaxCalls /\ trouble \in 0..MaxTrouble
  BY DEF Sound
<1>2. /\ UNCHANGED <<kind, server, acked, key, list, fetch, schema, form, trouble>>
      /\ issued' = issued + 1 /\ issued < MaxCalls
      /\ calls' = calls \cup {Asked(do, id, row, blank)}
  BY DEF Issue, Asked
<1>3. issued' \in 1..MaxCalls
  BY <1>1, <1>2, Bounds
<1>4. Asked(do, id, row, blank) \in Calls /\ Asked(do, id, row, blank).answer = "none"
  BY <1>1, <1>3, Bounds DEF Asked, Calls, MaybeKeys
<1>5. Unanswered' = Unanswered \cup {Asked(do, id, row, blank)}
  BY <1>2, <1>4 DEF Unanswered
<1>6. IsFiniteSet(Unanswered) /\ Cardinality(Unanswered) \in Nat
  BY FS_CardinalityType DEF Sound, Counted
<1>7. IsFiniteSet(Unanswered') /\ Cardinality(Unanswered') <= Cardinality(Unanswered) + 1
      /\ Cardinality(Unanswered') \in Nat
  BY <1>5, <1>6, OneMore
<1>8. version \in Nat /\ version + Cardinality(Unanswered) <= issued + trouble /\ version' = version
  BY <1>2 DEF Sound, Counted, server
<1>9. Counted'
  BY <1>1, <1>2, <1>6, <1>7, <1>8 DEF Counted
<1>10. ServerTypes' /\ ShownTypes' /\ FormTypes'
  BY <1>1, <1>2 DEF server, form, ServerTypes, ShownTypes, FormTypes
<1> QED
  BY <1>1, <1>2, <1>3, <1>4, <1>9, <1>10 DEF Sound

LEMMA SaveSound == ASSUME Sound, Save PROVE Sound'
<1>1. draft \in Row /\ screen \in Forms /\ screen.base \in Row /\ screen.id \in {0} \cup Ids
  BY DEF Sound, FormTypes, Forms
<1>2. Payload \in Row
  BY <1>1 DEF Payload, Row
<1>3. key # NoKey
  BY DEF Save, Shown
<1> QED
  BY <1>1, <1>2, <1>3, IssueSound DEF Save

LEMMA ToggleSound == ASSUME Sound, NEW id \in Ids, Toggle(id) PROVE Sound'
<1>1. list.rows[id] \in Row
  BY DEF Toggle, Listed, Sound, ShownTypes, Lists, Rows
<1>2. [list.rows[id] EXCEPT !.on = ~@] \in Row
  BY <1>1 DEF Row
<1> QED
  BY <1>2, IssueSound DEF Toggle, Shown

LEMMA ConfirmDeleteSound == ASSUME Sound, NEW id \in Ids, ConfirmDelete(id) PROVE Sound'
BY Starts, IssueSound DEF ConfirmDelete, Shown

(* The server's answers. *)
LEMMA AnsweredCalls ==
    ASSUME calls \subseteq Calls, NEW c \in calls, NEW answer \in {"ok", "problem", "refused"},
           NEW at \in Versions, Answered(c, answer, at)
    PROVE  /\ calls' \subseteq Calls
           /\ \A d \in calls' : \/ d \in calls \ {c}
                                \/ /\ c.heard /\ d.heard /\ d.key = c.key
                                   /\ d.answer = answer /\ d.at = at
           /\ {d \in calls' : d.answer = "none"} = {d \in calls : d.answer = "none"} \ {c}
<1> DEFINE told == [c EXCEPT !.answer = answer, !.at = at]
<1>1. /\ told \in Calls /\ told.answer = answer /\ told.at = at
      /\ told.heard = c.heard /\ told.key = c.key /\ answer # "none"
  BY DEF Calls
<1>2. calls' = IF c.heard THEN (calls \ {c}) \cup {told} ELSE calls \ {c}
  BY DEF Answered
<1> HIDE DEF told
<1>3. calls' \subseteq Calls
  BY <1>1, <1>2
<1>4. {d \in calls' : d.answer = "none"} = {d \in calls : d.answer = "none"} \ {c}
  BY <1>1, <1>2
<1>5. ASSUME NEW d \in calls'
      PROVE  \/ d \in calls \ {c}
             \/ c.heard /\ d.heard /\ d.key = c.key /\ d.answer = answer /\ d.at = at
  BY <1>1, <1>2
<1> QED
  BY <1>3, <1>4, <1>5

LEMMA WrittenTypes ==
    ASSUME ServerTypes, NEW c \in Calls, Written(c), UNCHANGED wanted
    PROVE  ServerTypes' /\ version' = version + 1
<1>1. table \in Rows /\ nextId \in 1..(MaxId + 1) /\ c.row \in Row /\ wanted \in Keys
  BY DEF ServerTypes, Calls
<1>2. CASE nextId <= MaxId /\ table' = [table EXCEPT ![nextId] = c.row] /\ nextId' = nextId + 1
  BY <1>1, <1>2, Bounds DEF Written, ServerTypes, Rows, Ids
<1>3. CASE table' = [table EXCEPT ![c.id] = c.row] /\ UNCHANGED nextId
  BY <1>1, <1>3 DEF Written, ServerTypes, Rows
<1>4. CASE table' = [table EXCEPT ![c.id] = Absent] /\ UNCHANGED nextId
  BY <1>1, <1>4 DEF Written, ServerTypes, Rows
<1> QED
  BY <1>2, <1>3, <1>4 DEF Written

(* An answer, with a write at most: the call it takes from the unanswered  *)
(* pays for the write.                                                     *)
LEMMA ServedSound ==
    ASSUME Sound, NEW c \in calls, c.answer = "none",
           NEW answer \in {"ok", "problem", "refused"}, NEW at \in Versions, Answered(c, answer, at),
           ServerTypes', version' \in {version, version + 1},
           trouble' \in {trouble, trouble + 1}, trouble' <= MaxTrouble,
           UNCHANGED <<kind, acked, key, list, fetch, schema, form, issued>>
    PROVE  Sound'
<1>1. /\ kind \in Screens /\ acked \in Versions /\ key \in MaybeKeys
      /\ ShownTypes /\ FormTypes /\ calls \subseteq Calls
      /\ issued \in 0..MaxCalls /\ trouble \in 0..MaxTrouble
  BY DEF Sound
<1>2. calls' \subseteq Calls /\ Unanswered' = Unanswered \ {c}
  BY <1>1, AnsweredCalls DEF Unanswered
<1>3. c \in Unanswered
  BY DEF Unanswered
<1>4. /\ version \in Nat /\ IsFiniteSet(Unanswered)
      /\ version + Cardinality(Unanswered) <= issued + trouble
  BY DEF Sound, Counted
<1>5. IsFiniteSet(Unanswered') /\ Cardinality(Unanswered') \in Nat
      /\ Cardinality(Unanswered') + 1 = Cardinality(Unanswered)
  BY <1>2, <1>3, <1>4, OneLess
<1>6. trouble' \in 0..MaxTrouble /\ trouble' >= trouble
  BY <1>1, Bounds
<1>7. Counted'
  BY <1>1, <1>4, <1>5, <1>6 DEF Counted
<1>8. ShownTypes' /\ FormTypes'
  BY <1>1 DEF form, ShownTypes, FormTypes
<1> QED
  BY <1>1, <1>2, <1>6, <1>7, <1>8 DEF Sound

LEMMA ServeSound == ASSUME Sound, NEW c \in calls, Serve(c) PROVE Sound'
<1>1. ServerTypes /\ c \in Calls /\ trouble \in 0..MaxTrouble /\ version \in Nat
  BY DEF Sound, Counted
<1>2. c.answer = "none" /\ UNCHANGED <<kind, acked, wanted, key, list, fetch, schema, form, issued, trouble>>
  BY DEF Serve
<1>3. \/ Answered(c, "refused", 0) /\ UNCHANGED <<table, nextId, version>>
      \/ Answered(c, "problem", 0) /\ UNCHANGED <<table, nextId, version>>
      \/ Written(c) /\ Answered(c, "ok", version')
  BY DEF Serve
<1>4. CASE \E answer \in {"refused", "problem"} :
              Answered(c, answer, 0) /\ UNCHANGED <<table, nextId, version>>
  BY <1>1, <1>2, <1>4, Bounds, ServedSound DEF ServerTypes
<1>5. CASE Written(c) /\ Answered(c, "ok", version')
  <2>1. ServerTypes' /\ version' = version + 1
    BY <1>1, <1>2, <1>5, WrittenTypes
  <2>2. version' \in Versions
    <3>1. c \in Unanswered
      BY <1>2 DEF Unanswered
    <3>2. /\ IsFiniteSet(Unanswered) /\ version + Cardinality(Unanswered) <= issued + trouble
          /\ issued \in 0..MaxCalls /\ trouble \in 0..MaxTrouble
      BY DEF Sound, Counted
    <3>3. Cardinality(Unanswered \ {c}) \in Nat
          /\ Cardinality(Unanswered \ {c}) + 1 = Cardinality(Unanswered)
      BY <3>1, <3>2, OneLess
    <3> QED
      BY <1>1, <2>1, <3>2, <3>3, Bounds DEF Versions
  <2> QED
    BY <1>1, <1>2, <1>5, <2>1, <2>2, Bounds, ServedSound
<1> QED
  BY <1>3, <1>4, <1>5

LEMMA ServeBadlySound == ASSUME Sound, NEW c \in calls, ServeBadly(c) PROVE Sound'
<1>1. ServerTypes /\ c \in Calls /\ trouble \in 0..MaxTrouble
  BY DEF Sound
<1>2. /\ c.answer = "none" /\ trouble < MaxTrouble /\ trouble' = trouble + 1
      /\ Answered(c, "problem", 0)
      /\ UNCHANGED <<kind, acked, wanted, key, list, fetch, schema, form, issued>>
  BY DEF ServeBadly
<1>3. ServerTypes' /\ version' \in {version, version + 1}
  <2>1. CASE Written(c)
    BY <1>1, <1>2, <2>1, WrittenTypes
  <2>2. CASE UNCHANGED <<table, nextId, version>>
    BY <1>1, <1>2, <2>2 DEF ServerTypes
  <2> QED
    BY <2>1, <2>2 DEF ServeBadly
<1> QED
  BY <1>1, <1>2, <1>3, Bounds, ServedSound

(* Hearing an answer never frees a call the server has yet to serve.       *)
LEMMA HeardCount ==
    ASSUME Sound, NEW c \in calls, c.answer # "none", calls' = calls \ {c},
           UNCHANGED <<version, issued, trouble>>
    PROVE  Counted' /\ calls' \subseteq Calls
<1>1. Unanswered' = Unanswered
  BY DEF Unanswered
<1>2. calls \subseteq Calls /\ Counted
  BY DEF Sound
<1> QED
  BY <1>1, <1>2 DEF Counted

LEMMA HearSound == ASSUME Sound, NEW c \in calls, Hear(c) PROVE Sound'
<1>1. /\ kind \in Screens /\ ServerTypes /\ acked \in Versions /\ key \in MaybeKeys
      /\ ShownTypes /\ FormTypes /\ calls \subseteq Calls /\ c \in Calls
      /\ issued \in 0..MaxCalls /\ trouble \in 0..MaxTrouble
  BY DEF Sound
<1>2. /\ c.answer # "none" /\ c.answer \in {"none", "ok", "problem", "refused"}
      /\ UNCHANGED <<kind, server, issued, trouble>>
  BY <1>1 DEF Hear, Calls
<1>3. CASE c.answer = "refused"
  <2>1. Reauthenticate /\ UNCHANGED acked
    BY <1>3 DEF Hear
  <2> QED
    BY <1>2, <2>1, ReauthenticateSound
<1>4. CASE c.answer = "problem"
  <2>1. calls' = calls \ {c} /\ UNCHANGED <<acked, key, list, fetch, schema, form>>
    BY <1>4 DEF Hear
  <2>2. Counted' /\ calls' \subseteq Calls
    BY <1>2, <2>1, HeardCount DEF server
  <2>3. ServerTypes' /\ ShownTypes' /\ FormTypes'
    BY <1>1, <1>2, <2>1 DEF server, form, ServerTypes, ShownTypes, FormTypes
  <2> QED
    BY <1>1, <1>2, <2>1, <2>2, <2>3 DEF Sound
<1>5. CASE c.answer = "ok"
  <2>1. /\ calls' = calls \ {c} /\ acked' = Max({acked, c.at}) /\ Restart
        /\ screen' \in {AtList, screen} /\ typed' \in {NothingTyped, typed} /\ confirm' \in {0, confirm}
        /\ UNCHANGED <<key, list, schema, draft>>
    BY <1>5 DEF Hear
  <2>2. Counted' /\ calls' \subseteq Calls
    BY <1>2, <2>1, HeardCount DEF server
  <2>3. acked' \in Versions
    <3>1. c.at \in Versions /\ acked \in Nat /\ c.at \in Nat
      BY <1>1, Bounds DEF Calls, Versions
    <3> QED
      BY <1>1, <2>1, <3>1, MaxOfTwo
  <2>4. ServerTypes' /\ ShownTypes' /\ FormTypes'
    BY <1>1, <1>2, <2>1, Starts, AskingType
    DEF server, ServerTypes, ShownTypes, FormTypes, Restart
  <2> QED
    BY <1>1, <1>2, <2>1, <2>2, <2>3, <2>4 DEF Sound
<1> QED
  BY <1>2, <1>3, <1>4, <1>5

LEMMA ElsewhereSound == ASSUME Sound, Elsewhere PROVE Sound'
<1>1. /\ kind \in Screens /\ ServerTypes /\ acked \in Versions /\ key \in MaybeKeys
      /\ ShownTypes /\ FormTypes /\ calls \subseteq Calls
      /\ issued \in 0..MaxCalls /\ trouble \in 0..MaxTrouble
  BY DEF Sound
<1>2. /\ trouble < MaxTrouble /\ trouble' = trouble + 1
      /\ UNCHANGED <<kind, nextId, acked, key, list, fetch, schema, form, calls, issued>>
  BY DEF Elsewhere
<1>3. ServerTypes' /\ version' \in {version, version + 1}
  <2>1. CASE wanted' \in Keys \ {wanted} /\ UNCHANGED <<table, version>>
    BY <1>1, <1>2, <2>1 DEF ServerTypes
  <2>2. ASSUME NEW id \in Ids, NEW t \in Texts, NEW s \in Secrets, NEW on \in BOOLEAN,
               table' = [table EXCEPT ![id] = [text |-> t, secret |-> s, on |-> on]],
               version' = version + 1, UNCHANGED wanted
        PROVE  ServerTypes' /\ version' \in {version, version + 1}
    <3>1. [text |-> t, secret |-> s, on |-> on] \in Row
      BY DEF Row
    <3> QED
      BY <1>1, <1>2, <2>2, <3>1 DEF ServerTypes, Rows
  <2> QED
    BY <2>1, <2>2 DEF Elsewhere
<1>4. Counted'
  <2>1. /\ version \in Nat /\ IsFiniteSet(Unanswered) /\ Cardinality(Unanswered) \in Nat
        /\ version + Cardinality(Unanswered) <= issued + trouble
    BY FS_CardinalityType DEF Sound, Counted
  <2>2. Unanswered' = Unanswered
    BY <1>2 DEF Unanswered
  <2> QED
    BY <1>1, <1>2, <1>3, <2>1, <2>2 DEF Counted
<1>5. ShownTypes' /\ FormTypes' /\ trouble' \in 0..MaxTrouble
  BY <1>1, <1>2, Bounds DEF form, ShownTypes, FormTypes
<1> QED
  BY <1>1, <1>2, <1>3, <1>4, <1>5 DEF Sound

LEMMA StutterSound == ASSUME Sound, UNCHANGED vars PROVE Sound'
<1>1. Counted'
  BY QuietCount DEF Sound, vars, server
<1> QED
  BY <1>1 DEF Sound, vars, server, form, ServerTypes, ShownTypes, FormTypes

LEMMA NextSound == Sound /\ [Next]_vars => Sound'
<1> SUFFICES ASSUME Sound, [Next]_vars PROVE Sound'
  OBVIOUS
<1>1. CASE User
  <2>1. ASSUME NEW k \in Keys, EnterKey(k) PROVE Sound'
    BY <2>1, EnterKeySound
  <2>2. CASE Leave \/ Add \/ PickDefinition \/ Cancel \/ Save
    BY <2>2, LeaveSound, AddSound, PickDefinitionSound, CancelSound, SaveSound
  <2>3. ASSUME NEW id \in Ids, Edit(id) \/ AskDelete(id) \/ Toggle(id) \/ ConfirmDelete(id)
        PROVE  Sound'
    BY <2>3, EditSound, AskDeleteSound, ToggleSound, ConfirmDeleteSound
  <2>4. ASSUME NEW field, NEW value, <<field, value>> \in Entries, Type(field, value) PROVE Sound'
    BY <2>4, TypeSound
  <2> QED
    BY <1>1, <2>1, <2>2, <2>3, <2>4 DEF User, Entries
<1>2. CASE Network
  <2>1. ASSUME NEW c \in calls, Serve(c) \/ ServeBadly(c) \/ Hear(c) PROVE Sound'
    BY <2>1, ServeSound, ServeBadlySound, HearSound
  <2> QED
    BY <1>2, <2>1, ServeFetchSound, FetchFailsSound, FetchArrivesSound, SchemaArrivesSound DEF Network
<1> QED
  BY <1>1, <1>2, ElsewhereSound, StutterSound DEF Next

LEMMA Soundness == Spec => []Sound
BY InitSound, NextSound, PTL DEF Spec

(* Every state has its types, whatever the user, the server and others do; *)
(* the history of writes stays within the calls issued and the trouble met. *)
THEOREM TypeCorrect == Spec => []TypeOK
BY Soundness, SoundIsTyped, PTL

-----------------------------------------------------------------------------
(* The form.  What a step does to it is one of four things.                *)

FormStays == UNCHANGED <<screen, draft, typed>>
FormOpens == \E at \in {"add", "edit"}, id \in {0} \cup Ids, base \in Row : OpenForm(at, id, base)
FormTyped == \E field, value : <<field, value>> \in Entries /\ Type(field, value)

LEMMA UserOnForm ==
    ASSUME Sound, User
    PROVE  FormStays \/ ~InForm' \/ FormOpens \/ FormTyped
<1>1. ASSUME NewScreen PROVE ~InForm'
  BY <1>1 DEF NewScreen, InForm, AtList
<1>2. CASE Leave \/ \E k \in Keys : EnterKey(k)
  BY <1>1, <1>2 DEF Leave, EnterKey, Mount
<1>3. CASE Add
  <2>1. [NoRow EXCEPT !.on = TRUE] \in Row
    BY Starts DEF NoRow, Row
  <2>2. [AtList EXCEPT !.at = "pick"].at = "pick"
    BY DEF AtList
  <2> QED
    BY <1>1, <1>3, <2>1, <2>2 DEF Add, Reauthenticate, InForm, FormOpens
<1>4. CASE PickDefinition
  <2>1. PICK t \in Texts : OpenForm("add", 0, [NoRow EXCEPT !.text = t])
    BY <1>4 DEF PickDefinition
  <2>2. [NoRow EXCEPT !.text = t] \in Row
    BY Starts DEF NoRow, Row
  <2> QED
    BY <2>1, <2>2 DEF FormOpens
<1>5. ASSUME NEW id \in Ids, Edit(id) PROVE FormOpens
  <2>1. list.rows[id] \in Row
    BY <1>5 DEF Edit, Listed, Sound, ShownTypes, Lists, Rows
  <2> QED
    BY <1>5, <2>1 DEF Edit, FormOpens
<1>6. CASE Cancel
  BY <1>6 DEF Cancel, InForm, AtList
<1>7. CASE Save \/ \E id \in Ids : AskDelete(id) \/ Toggle(id) \/ ConfirmDelete(id)
  BY <1>7 DEF Save, AskDelete, Toggle, ConfirmDelete, Issue, form, FormStays
<1>8. ASSUME NEW field, NEW value, <<field, value>> \in Entries, Type(field, value) PROVE FormTyped
  BY <1>8 DEF FormTyped
<1> QED
  BY <1>2, <1>3, <1>4, <1>5, <1>6, <1>7, <1>8 DEF User, Entries

LEMMA NetworkOnForm ==
    ASSUME Sound, Network \/ Elsewhere \/ UNCHANGED vars
    PROVE  FormStays \/ ~InForm'
<1>1. ASSUME Reauthenticate PROVE ~InForm'
  BY <1>1 DEF Reauthenticate, NewScreen, InForm, AtList
<1>2. CASE ServeFetch \/ FetchFails \/ Elsewhere \/ UNCHANGED vars
  BY <1>2 DEF ServeFetch, FetchFails, Elsewhere, vars, form, FormStays
<1>3. CASE FetchArrives \/ SchemaArrives
  BY <1>1, <1>3 DEF FetchArrives, SchemaArrives, form, FormStays
<1>4. ASSUME NEW c \in calls, Serve(c) \/ ServeBadly(c) PROVE FormStays
  BY <1>4 DEF Serve, ServeBadly, form, FormStays
<1>5. ASSUME NEW c \in calls, Hear(c) PROVE FormStays \/ ~InForm'
  <2>1. c.answer \in {"ok", "problem", "refused"}
    BY <1>5 DEF Hear, Sound, Calls
  <2>2. CASE c.answer = "ok"
    BY <1>5, <2>2 DEF Hear, InForm, AtList, FormStays
  <2>3. CASE c.answer = "problem"
    BY <1>5, <2>3 DEF Hear, form, FormStays
  <2>4. CASE c.answer = "refused"
    BY <1>1, <1>5, <2>4 DEF Hear
  <2> QED
    BY <2>1, <2>2, <2>3, <2>4
<1> QED
  BY <1>2, <1>3, <1>4, <1>5 DEF Network

(***************************************************************************)
(* The strengthening: each field of the draft is what was typed into it,   *)
(* or what the row had; the secret, blank.  FormSavesItsOwn alone is not   *)
(* inductive, since it says nothing of a draft whose secret is the stored  *)
(* one: a Save would send the same.                                        *)
(***************************************************************************)
DraftFollows == InForm =>
    /\ draft.text = (IF typed.text = Untouched THEN screen.base.text ELSE typed.text)
    /\ draft.on = (IF typed.on = Untouched THEN screen.base.on ELSE typed.on)
    /\ draft.secret = (IF typed.secret = Untouched THEN Blank ELSE typed.secret)

LEMMA OpenedFollows == ASSUME FormOpens PROVE DraftFollows'
<1>1. PICK at \in {"add", "edit"}, id \in {0} \cup Ids, base \in Row : OpenForm(at, id, base)
  BY DEF FormOpens
<1> QED
  BY <1>1 DEF OpenForm, AtForm, NothingTyped, DraftFollows, Row

LEMMA TypedFollows == ASSUME FormTypes, DraftFollows, FormTyped PROVE DraftFollows'
<1>1. PICK field, value : <<field, value>> \in Entries /\ Type(field, value)
  BY DEF FormTyped
<1>2. /\ screen' = screen /\ draft'[field] = value /\ typed'[field] = value
      /\ \A other \in {"text", "on", "secret"} \ {field} :
            draft'[other] = draft[other] /\ typed'[other] = typed[other]
  BY <1>1, TypeTypes
<1>3. field \in {"text", "on", "secret"} /\ value # Untouched
  BY <1>1, RowsScreenAssumption DEF Entries
<1>4. InForm
  BY <1>1 DEF Type, Shown, InForm
<1> QED
  BY <1>2, <1>3, <1>4 DEF DraftFollows

LEMMA DraftAlwaysFollows == Spec => []DraftFollows
<1>1. Init => DraftFollows
  BY DEF Init, DraftFollows, InForm, AtList
<1>2. Sound /\ DraftFollows /\ [Next]_vars => DraftFollows'
  <2> SUFFICES ASSUME Sound, DraftFollows, [Next]_vars PROVE DraftFollows'
    OBVIOUS
  <2>1. FormStays \/ ~InForm' \/ FormOpens \/ FormTyped
    BY UserOnForm, NetworkOnForm DEF Next
  <2>2. CASE FormStays
    BY <2>2 DEF FormStays, DraftFollows, InForm
  <2>3. CASE ~InForm'
    BY <2>3 DEF DraftFollows
  <2>4. CASE FormOpens
    BY <2>4, OpenedFollows
  <2>5. CASE FormTyped
    BY <2>5, TypedFollows DEF Sound
  <2> QED
    BY <2>1, <2>2, <2>3, <2>4, <2>5
<1> QED
  BY <1>1, <1>2, Soundness, PTL DEF Spec

(* The draft of a form never holds the secret of the row it edits, only    *)
(* one the user typed into this form.                                      *)
THEOREM DraftKeepsNoSecret == Spec => []DraftHoldsNoStoredSecret
<1>1. DraftFollows => DraftHoldsNoStoredSecret
  BY DEF DraftFollows, DraftHoldsNoStoredSecret
<1> QED
  BY <1>1, DraftAlwaysFollows, PTL

(* preserve_blank_passwords, resolve_api_key: what Save sends is the row   *)
(* the form was opened on with what the user typed since.                  *)
THEOREM FormsSaveTheirOwn == Spec => []FormSavesItsOwn
<1>1. Sound /\ DraftFollows => FormSavesItsOwn
  <2> SUFFICES ASSUME Sound, DraftFollows, InForm
               PROVE  Payload = [text |-> Over("text", {Untouched}), on |-> Over("on", {Untouched}),
                                 secret |-> Over("secret", {Untouched, Blank})]
    BY DEF FormSavesItsOwn
  <2>1. draft \in Row
    BY DEF Sound, FormTypes
  <2>2. draft.text = Over("text", {Untouched}) /\ draft.on = Over("on", {Untouched})
    BY DEF DraftFollows, Over
  <2>3. (IF draft.secret = Blank THEN screen.base.secret ELSE draft.secret)
            = Over("secret", {Untouched, Blank})
    BY RowsScreenAssumption DEF DraftFollows, Over
  <2> QED
    BY <2>1, <2>2, <2>3 DEF Payload, Row
<1> QED
  BY <1>1, Soundness, DraftAlwaysFollows, PTL

-----------------------------------------------------------------------------
(* The calls.  What a step does to them, and to the key they carry.        *)

Told(c) == \E answer \in {"ok", "problem", "refused"}, at \in {0, version'} :
              at \in Versions /\ Answered(c, answer, at)

LEMMA NextVersion == Sound' => version' \in Versions
<1> SUFFICES ASSUME Sound' PROVE version' \in Versions
  OBVIOUS
<1>1. /\ version' \in Nat /\ IsFiniteSet(Unanswered')
      /\ version' + Cardinality(Unanswered') <= issued' + trouble'
      /\ issued' \in 0..MaxCalls /\ trouble' \in 0..MaxTrouble
  BY DEF Sound, Counted
<1>2. Cardinality(Unanswered') \in Nat
  BY <1>1, FS_CardinalityType
<1> QED
  BY <1>1, <1>2, Bounds DEF Versions

LEMMA ServeTells ==
    ASSUME Sound, Sound', NEW c \in calls, Serve(c) \/ ServeBadly(c)
    PROVE  Told(c) /\ c.answer = "none"
BY NextVersion, Bounds DEF Serve, ServeBadly, Told

(***************************************************************************)
(* An answer that waits to be heard is one to a call of the screen that    *)
(* shows, made with the key in use: unmounting drops the rest.             *)
(***************************************************************************)
CarryTheKey ==
    /\ fetch.is \in {"sent", "rows", "refused"} => fetch.key = key
    /\ \A c \in calls : (c.heard => c.key = key) /\ (c.answer # "none" => c.heard)

SameCalls == UNCHANGED <<key, calls>>
UnheardCalls == calls' = Unheard
MoreCalls ==
    UNCHANGED key /\ \E c : calls' = calls \cup {c} /\ c.key = key /\ c.heard
                             /\ c.answer = "none" /\ c.at = 0
FewerCalls == UNCHANGED key /\ calls' \subseteq calls

LEMMA UserOnCalls ==
    ASSUME User
    PROVE  \/ SameCalls \/ UnheardCalls \/ MoreCalls
           \/ key = NoKey /\ UNCHANGED calls
<1>1. CASE \E k \in Keys : EnterKey(k)
  BY <1>1 DEF EnterKey
<1>2. CASE Leave
  BY <1>2 DEF Leave, UnheardCalls
<1>3. CASE Add
  BY <1>3 DEF Add, Reauthenticate, UnheardCalls, SameCalls
<1>4. CASE PickDefinition \/ Cancel \/ \E id \in Ids : Edit(id) \/ AskDelete(id)
  BY <1>4 DEF PickDefinition, Cancel, Edit, AskDelete, Quietly, SameCalls
<1>5. CASE \E field, value : Type(field, value)
  BY <1>5 DEF Type, Quietly, SameCalls
<1>6. ASSUME NEW do, NEW id, NEW row, NEW blank, Issue(do, id, row, blank) PROVE MoreCalls
  <2>1. UNCHANGED key /\ calls' = calls \cup {Asked(do, id, row, blank)}
    BY <1>6 DEF Issue, Asked
  <2>2. LET c == Asked(do, id, row, blank)
        IN  c.key = key /\ c.heard /\ c.answer = "none" /\ c.at = 0
    BY DEF Asked
  <2> QED
    BY <2>1, <2>2 DEF MoreCalls
<1>7. CASE Save \/ \E id \in Ids : Toggle(id) \/ ConfirmDelete(id)
  BY <1>6, <1>7 DEF Save, Toggle, ConfirmDelete
<1> QED
  BY <1>1, <1>2, <1>3, <1>4, <1>5, <1>7 DEF User

LEMMA NetworkOnCalls ==
    ASSUME Sound, Sound', Network \/ Elsewhere \/ UNCHANGED vars
    PROVE  \/ SameCalls \/ UnheardCalls \/ FewerCalls
           \/ UNCHANGED key /\ \E c \in calls : Told(c) /\ c.answer = "none"
<1>1. CASE ServeFetch \/ FetchFails \/ Elsewhere \/ UNCHANGED vars
  BY <1>1 DEF ServeFetch, FetchFails, Elsewhere, vars, SameCalls
<1>2. CASE FetchArrives \/ SchemaArrives
  BY <1>2 DEF FetchArrives, SchemaArrives, Reauthenticate, UnheardCalls, SameCalls
<1>3. ASSUME NEW c \in calls, Serve(c) \/ ServeBadly(c)
      PROVE  UNCHANGED key /\ Told(c) /\ c.answer = "none"
  BY <1>3, ServeTells DEF Serve, ServeBadly
<1>4. ASSUME NEW c \in calls, Hear(c) PROVE FewerCalls \/ UnheardCalls
  <2>1. c.answer \in {"ok", "problem", "refused"}
    BY <1>4 DEF Hear, Sound, Calls
  <2> QED
    BY <1>4, <2>1 DEF Hear, Reauthenticate, FewerCalls, UnheardCalls
<1> QED
  BY <1>1, <1>2, <1>3, <1>4 DEF Network

LEMMA CallsCarryTheKey ==
    ASSUME Sound, Sound', CarryTheKey, [Next]_vars
    PROVE  \A c \in calls' : (c.heard => c.key = key') /\ (c.answer # "none" => c.heard)
<1>1. /\ calls \subseteq Calls
      /\ \A c \in calls : (c.heard => c.key = key) /\ (c.answer # "none" => c.heard)
  BY DEF Sound, CarryTheKey
<1>2. CASE SameCalls \/ FewerCalls
  BY <1>1, <1>2 DEF SameCalls, FewerCalls
<1>3. CASE UnheardCalls
  BY <1>1, <1>3, UnheardTypes DEF UnheardCalls
<1>4. CASE MoreCalls
  BY <1>1, <1>4 DEF MoreCalls
<1>5. CASE key = NoKey /\ UNCHANGED calls
  BY <1>1, <1>5, RowsScreenAssumption DEF Calls
<1>6. CASE UNCHANGED key /\ \E c \in calls : Told(c) /\ c.answer = "none"
  BY <1>1, <1>6, AnsweredCalls DEF Told
<1> QED
  BY <1>2, <1>3, <1>4, <1>5, <1>6, UserOnCalls, NetworkOnCalls DEF Next

-----------------------------------------------------------------------------
(* The rows.  What a step does to the fetch and to the rows shown.         *)

RowsStay == UNCHANGED <<key, list, fetch, acked>>
RowsAsked == list' = list /\ fetch' = Asking(key) /\ key' = key
             /\ \E c \in calls : acked' = Max({acked, c.at})
Mounted == list' = Nothing /\ fetch' = Asking(key') /\ key' \in MaybeKeys /\ acked' = acked
           /\ (key' = NoKey => key = NoKey)
RowsServed == list' = list /\ key' = key /\ acked' = acked
              /\ fetch'.key = fetch.key /\ fetch.is = "sent"
              /\ \/ fetch'.is = "rows" /\ fetch'.at = version
                 \/ fetch'.is = "refused"
RowsFail == list' = list /\ key' = key /\ acked' = acked /\ fetch'.is = "error"
RowsArrive == key' = key /\ acked' = acked /\ fetch' = Idle
              /\ list'.is = fetch.is /\ list'.at = fetch.at
KeyCleared ==
    /\ list' = Nothing /\ fetch' = Idle /\ key' = NoKey /\ acked' = acked
    /\ \/ fetch.is = "refused"
       \/ schema = "refused"
       \/ schema = "loading" /\ key # wanted
       \/ \E c \in calls : c.answer = "refused"

LEMMA UserOnRows == ASSUME Sound, User PROVE RowsStay \/ Mounted \/ KeyCleared
<1>1. ASSUME NEW k \in Keys, EnterKey(k) PROVE Mounted
  BY <1>1, RowsScreenAssumption DEF EnterKey, Mount, NewScreen, Mounted, MaybeKeys
<1>2. CASE Leave
  BY <1>2 DEF Leave, Mount, NewScreen, Mounted, Sound
<1>3. CASE Add
  BY <1>3 DEF Add, Reauthenticate, NewScreen, KeyCleared, RowsStay
<1>4. CASE PickDefinition \/ Cancel \/ \E id \in Ids : Edit(id) \/ AskDelete(id)
  BY <1>4 DEF PickDefinition, Cancel, Edit, AskDelete, Quietly, RowsStay
<1>5. CASE \E field, value : Type(field, value)
  BY <1>5 DEF Type, Quietly, RowsStay
<1>6. CASE Save \/ \E id \in Ids : Toggle(id) \/ ConfirmDelete(id)
  BY <1>6 DEF Save, Toggle, ConfirmDelete, Issue, RowsStay
<1> QED
  BY <1>1, <1>2, <1>3, <1>4, <1>5, <1>6 DEF User

LEMMA NetworkOnRows ==
    ASSUME Sound, Network \/ Elsewhere \/ UNCHANGED vars
    PROVE  RowsStay \/ RowsAsked \/ RowsServed \/ RowsFail \/ RowsArrive \/ KeyCleared
<1>1. CASE Elsewhere \/ UNCHANGED vars
  BY <1>1 DEF Elsewhere, vars, RowsStay
<1>2. CASE ServeFetch
  <2>1. fetch \in Fetches
    BY DEF Sound, ShownTypes
  <2> QED
    BY <1>2, <2>1 DEF ServeFetch, RowsServed, Fetches
<1>3. CASE FetchFails
  <2>1. fetch'.is = "error"
    BY <1>3, Starts DEF FetchFails, Idle
  <2> QED
    BY <1>3, <2>1 DEF FetchFails, RowsFail
<1>4. CASE FetchArrives
  BY <1>4 DEF FetchArrives, Reauthenticate, NewScreen, KeyCleared, RowsArrive
<1>5. CASE SchemaArrives
  BY <1>5 DEF SchemaArrives, Reauthenticate, NewScreen, KeyCleared, RowsStay
<1>6. ASSUME NEW c \in calls, Serve(c) \/ ServeBadly(c) PROVE RowsStay
  BY <1>6 DEF Serve, ServeBadly, RowsStay
<1>7. ASSUME NEW c \in calls, Hear(c) PROVE RowsStay \/ RowsAsked \/ KeyCleared
  <2>1. c.answer \in {"ok", "problem", "refused"}
    BY <1>7 DEF Hear, Sound, Calls
  <2>2. CASE c.answer = "ok"
    BY <1>7, <2>2 DEF Hear, Restart, RowsAsked
  <2>3. CASE c.answer = "problem"
    BY <1>7, <2>3 DEF Hear, RowsStay
  <2>4. CASE c.answer = "refused"
    BY <1>7, <2>4 DEF Hear, Reauthenticate, NewScreen, KeyCleared
  <2> QED
    BY <2>1, <2>2, <2>3, <2>4
<1> QED
  BY <1>1, <1>2, <1>3, <1>4, <1>5, <1>6, <1>7 DEF Network

LEMMA StepOnRows ==
    ASSUME Sound, [Next]_vars
    PROVE  \/ RowsStay \/ RowsAsked \/ Mounted \/ RowsServed \/ RowsFail \/ RowsArrive \/ KeyCleared
BY UserOnRows, NetworkOnRows DEF Next

LEMMA KeyAlwaysCarried == Spec => []CarryTheKey
<1>1. Init => CarryTheKey
  BY DEF Init, CarryTheKey, Idle
<1>2. Sound /\ Sound' /\ CarryTheKey /\ [Next]_vars => CarryTheKey'
  <2> SUFFICES ASSUME Sound, Sound', CarryTheKey, [Next]_vars PROVE CarryTheKey'
    OBVIOUS
  <2>1. fetch'.is \in {"sent", "rows", "refused"} => fetch'.key = key'
    <3>1. key \in MaybeKeys /\ Idle.is = "none"
      BY DEF Sound, Idle
    <3>2. CASE RowsStay \/ RowsServed \/ RowsFail
      BY <3>2 DEF RowsStay, RowsServed, RowsFail, CarryTheKey
    <3>3. CASE RowsAsked \/ Mounted
      BY <3>1, <3>3, AskingType DEF RowsAsked, Mounted
    <3>4. CASE RowsArrive \/ KeyCleared
      BY <3>1, <3>4 DEF RowsArrive, KeyCleared
    <3> QED
      BY <3>2, <3>3, <3>4, StepOnRows
  <2> QED
    BY <2>1, CallsCarryTheKey DEF CarryTheKey
<1> QED
  BY <1>1, <1>2, Soundness, PTL DEF Spec

(* handle_error: the key in use is cleared only by a 401 to a request that *)
(* carried it, and never by a late one to a request of the key before.     *)
THEOREM KeyIsKept == Spec => FreshKeyKept
<1>1. Sound /\ CarryTheKey /\ [Next]_vars => [key # NoKey /\ key' = NoKey => key \in Refusals]_vars
  <2> SUFFICES ASSUME Sound, CarryTheKey, [Next]_vars, key # NoKey, key' = NoKey
               PROVE  key \in Refusals
    OBVIOUS
  <2>1. KeyCleared
    BY StepOnRows DEF RowsStay, RowsAsked, Mounted, RowsServed, RowsFail, RowsArrive
  <2>2. CASE fetch.is = "refused"
    BY <2>2 DEF CarryTheKey, Refusals
  <2>3. CASE schema = "refused" \/ (schema = "loading" /\ key # wanted)
    BY <2>3 DEF Refusals
  <2>4. ASSUME NEW c \in calls, c.answer = "refused" PROVE key \in Refusals
    BY <2>4 DEF CarryTheKey, Refusals
  <2> QED
    BY <2>1, <2>2, <2>3, <2>4 DEF KeyCleared
<1> QED
  BY <1>1, Soundness, KeyAlwaysCarried, PTL DEF Spec, FreshKeyKept

-----------------------------------------------------------------------------
(***************************************************************************)
(* The strengthening of AckedWritesAreShown.  What the tab knows of was    *)
(* written, so what the server serves now is no older; the rows on their   *)
(* way are no older either, for every answer heard since has them fetched  *)
(* again.                                                                  *)
(***************************************************************************)
WrittenByNow == acked <= version /\ \A c \in calls : c.at <= version
Recent ==
    /\ WrittenByNow
    /\ fetch.is = "rows" => fetch.at >= acked
    /\ AckedWritesAreShown

LEMMA VersionGrows ==
    ASSUME Sound, [Next]_vars
    PROVE  version' \in {version, version + 1}
<1>1. CASE User
  <2>1. UNCHANGED version
    BY <1>1 DEF User, EnterKey, Leave, Add, PickDefinition, Cancel, Save, Edit, AskDelete, Toggle,
                ConfirmDelete, Type, Issue, Quietly, server
  <2> QED
    BY <2>1
<1>2. CASE ServeFetch \/ FetchFails \/ FetchArrives \/ SchemaArrives \/ UNCHANGED vars
  BY <1>2 DEF ServeFetch, FetchFails, FetchArrives, SchemaArrives, vars, server
<1>3. CASE Elsewhere
  BY <1>3 DEF Elsewhere
<1>4. ASSUME NEW c \in calls, Serve(c) \/ ServeBadly(c) \/ Hear(c)
      PROVE  version' \in {version, version + 1}
  BY <1>4 DEF Serve, ServeBadly, Hear, Written, server
<1> QED
  BY <1>1, <1>2, <1>3, <1>4 DEF Next, Network

LEMMA WrittenByNowKept ==
    ASSUME Sound, Sound', WrittenByNow, [Next]_vars
    PROVE  WrittenByNow'
<1>1. /\ version \in Nat /\ acked \in Nat /\ calls \subseteq Calls /\ version' \in {version, version + 1}
      /\ \A c \in calls : c.at \in Nat /\ c.at <= version
      /\ acked <= version
  BY VersionGrows DEF Sound, Counted, WrittenByNow, Calls, Versions
<1>2. acked' <= version'
  <2>1. CASE RowsAsked
    <3>1. PICK c \in calls : acked' = Max({acked, c.at})
      BY <2>1 DEF RowsAsked
    <3> QED
      BY <1>1, <3>1, MaxOfTwo
  <2>2. CASE acked' = acked
    BY <1>1, <2>2
  <2> QED
    BY <2>1, <2>2, StepOnRows DEF RowsStay, Mounted, RowsServed, RowsFail, RowsArrive, KeyCleared
<1>3. ASSUME NEW c \in calls' PROVE c.at <= version'
  <2>1. CASE SameCalls \/ FewerCalls \/ (key = NoKey /\ UNCHANGED calls)
    BY <1>1, <2>1 DEF SameCalls, FewerCalls
  <2>2. CASE UnheardCalls
    <3>1. PICK d \in calls : c.at = d.at
      BY <1>1, <2>2, UnheardTypes DEF UnheardCalls
    <3> QED
      BY <1>1, <3>1
  <2>3. CASE MoreCalls
    BY <1>1, <2>3 DEF MoreCalls
  <2>4. CASE \E d \in calls : Told(d) /\ d.answer = "none"
    <3>1. PICK d \in calls, answer \in {"ok", "problem", "refused"}, at \in {0, version'} :
             at \in Versions /\ Answered(d, answer, at)
      BY <2>4 DEF Told
    <3>2. c \in calls \/ c.at = at
      BY <1>1, <3>1, AnsweredCalls
    <3> QED
      BY <1>1, <3>1, <3>2
  <2> QED
    BY <2>1, <2>2, <2>3, <2>4, UserOnCalls, NetworkOnCalls DEF Next
<1> QED
  BY <1>2, <1>3 DEF WrittenByNow

LEMMA RecentKept ==
    ASSUME Sound, Sound', Recent, [Next]_vars
    PROVE  Recent'
<1>1. WrittenByNow'
  BY WrittenByNowKept DEF Recent
<1>2. /\ acked \in Nat /\ version \in Nat /\ acked <= version
      /\ fetch \in Fetches /\ fetch.at \in Nat /\ list.at \in Nat /\ key \in MaybeKeys
      /\ fetch.is = "rows" => fetch.at >= acked
      /\ fetch.is = "none" /\ list.is = "rows" => list.at >= acked
  BY Bounds DEF Sound, Counted, ShownTypes, Fetches, Lists, Versions, Recent, WrittenByNow,
     AckedWritesAreShown
<1>3. /\ fetch'.is = "rows" => fetch'.at >= acked'
      /\ fetch'.is = "none" /\ list'.is = "rows" => list'.at >= acked'
  <2>1. CASE RowsStay
    BY <1>2, <2>1 DEF RowsStay
  <2>2. CASE RowsAsked \/ Mounted
    BY <1>2, <2>2, AskingType DEF RowsAsked, Mounted
  <2>3. CASE RowsServed
    BY <1>2, <2>3 DEF RowsServed
  <2>4. CASE RowsFail
    BY <2>4 DEF RowsFail
  <2>5. CASE RowsArrive
    BY <1>2, <2>5 DEF RowsArrive, Idle
  <2>6. CASE KeyCleared
    BY <2>6 DEF KeyCleared, Nothing, Idle
  <2> QED
    BY <2>1, <2>2, <2>3, <2>4, <2>5, <2>6, StepOnRows
<1> QED
  BY <1>1, <1>3 DEF Recent, AckedWritesAreShown

(* Restart on every answer heard: rows fetched before a write this tab     *)
(* knows of never stay on the screen, however answers and fetches cross.   *)
THEOREM WritesAreShown == Spec => []AckedWritesAreShown
<1>1. Init => Recent
  BY DEF Init, Recent, WrittenByNow, AckedWritesAreShown, Nothing, Idle
<1>2. Spec => []Recent
  BY <1>1, RecentKept, Soundness, PTL DEF Spec
<1>3. Recent => AckedWritesAreShown
  BY DEF Recent
<1> QED
  BY <1>2, <1>3, PTL
=============================================================================
