------------------------------ MODULE RowsScreen ------------------------------
(***************************************************************************)
(* One browser tab of oxidarr-ui (crates/oxidarr-ui/src): the key prompt   *)
(* of app.rs and the screen that lists, adds, edits, toggles and deletes   *)
(* rows, screens/indexers.rs or screens/applications.rs, against the       *)
(* server's table.  The user clicks on while calls are in flight.          *)
(*                                                                         *)
(* Abstracted: a row is its text (everything but the secret and the        *)
(* switch), its secret (the password fields, the application's key) and    *)
(* its switch (enable, the sync level); the banner, the inline messages    *)
(* and the outcome of a Test, which are only shown, are left out.          *)
(***************************************************************************)
EXTENDS Naturals, FiniteSets, FiniteSetsExt

CONSTANTS
    Screens,        \* subset of {"indexers", "applications"}: which is open
    MaxId,          \* bound on the ids the server hands out
    Texts, Secrets, Keys,
    Blank, Absent, NoKey, Untouched,    \* the empty string; no row; no key; not typed in
    MaxCalls,       \* bound on the writes the user starts
    MaxTrouble      \* bound on failures, key changes and writes of other clients

ASSUME RowsScreenAssumption ==
    /\ MaxId \in Nat \ {0} /\ MaxCalls \in Nat /\ MaxTrouble \in Nat
    /\ Blank \notin Texts \cup Secrets /\ NoKey \notin Keys
    /\ Untouched \notin Texts \cup Secrets \cup BOOLEAN \cup {Blank}

VARIABLES
    kind,       \* which screen
    table,      \* the server's rows, id -> row or Absent
    nextId,     \* the server's AUTOINCREMENT counter
    version,    \* history: how often the table was written
    acked,      \* history: the version of the last write this tab knows of
    wanted,     \* the key the server accepts
    key,        \* the tab's key; the prompt shows when there is none
    list,       \* the rows shown, as last fetched, and the version they are of
    fetch,      \* the fetch of the rows in flight
    schema,     \* the fetch of the definitions
    screen,     \* ScreenState, with the row an edit was opened on
    draft,      \* the form's values
    typed,      \* history: what the user typed into this form
    confirm,    \* confirm_delete_id
    calls,      \* the writes in flight
    issued, trouble

server == <<table, nextId, version, wanted>>
form   == <<screen, draft, typed, confirm>>
vars   == <<kind, server, acked, key, list, fetch, schema, form, calls, issued, trouble>>

Ids == 1..MaxId
Row == [text : Texts \cup {Blank}, secret : Secrets \cup {Blank}, on : BOOLEAN]
NoRow == [text |-> Blank, secret |-> Blank, on |-> FALSE]
NoRows == [id \in Ids |-> Absent]
NothingTyped == [text |-> Untouched, secret |-> Untouched, on |-> Untouched]

Nothing == [is |-> "none", rows |-> NoRows, at |-> 0]
Idle == [is |-> "none", key |-> NoKey, rows |-> NoRows, at |-> 0]
Asking(k) == [Idle EXCEPT !.is = "sent", !.key = k]

AtList == [at |-> "list", id |-> 0, base |-> NoRow]
AtForm(at, id, base) == [at |-> at, id |-> id, base |-> base]
InForm == screen.at \in {"add", "edit"}

Init ==
    /\ kind \in Screens
    /\ \/ table = NoRows /\ nextId = 1
       \/ /\ nextId = 2
          /\ \E t \in Texts, s \in Secrets :
               table = [NoRows EXCEPT ![1] = [text |-> t, secret |-> s, on |-> TRUE]]
    /\ version = 0 /\ acked = 0
    /\ wanted \in Keys /\ key = NoKey
    /\ list = Nothing /\ fetch = Idle /\ schema = "none"
    /\ screen = AtList /\ draft = NoRow /\ typed = NothingTyped /\ confirm = 0
    /\ calls = {} /\ issued = 0 /\ trouble = 0

-----------------------------------------------------------------------------
\* MUTANT: the tasks of an unmounted screen run on.
UnheardKept == calls

(***************************************************************************)
(* Mounting.  Whatever unmounts the screen ends its tasks: their answers   *)
(* are not heard, though a request that is out may still be carried out.   *)
(***************************************************************************)
Unheard == {[c EXCEPT !.heard = FALSE] : c \in {d \in calls : d.answer = "none"}}

NewScreen ==
    /\ list' = Nothing /\ screen' = AtList /\ draft' = NoRow
    /\ typed' = NothingTyped /\ confirm' = 0

Mount ==
    /\ NewScreen /\ fetch' = Asking(key')
    /\ schema' = IF kind = "indexers" THEN "loading" ELSE "ready"

EnterKey(k) ==
    /\ key = NoKey /\ key' = k
    /\ Mount
    /\ UNCHANGED <<kind, server, acked, calls, issued, trouble>>

\* Another route of the nav, and back.
Leave ==
    /\ key # NoKey /\ UNCHANGED key
    /\ Mount /\ calls' = Unheard
    /\ UNCHANGED <<kind, server, acked, issued, trouble>>

\* handle_error of a 401: the key is cleared and the prompt shows.
Reauthenticate ==
    /\ key' = NoKey
    /\ NewScreen /\ fetch' = Idle /\ schema' = "none" /\ calls' = Unheard

-----------------------------------------------------------------------------
(***************************************************************************)
(* The two resources of the screen.                                        *)
(***************************************************************************)
\* MUTANT: the fetch in flight goes on, and a new one is not started.
RestartLazy == fetch' = IF fetch.is = "none" THEN Asking(key) ELSE fetch

\* Cancels the fetch in flight; the rows shown stay until the new ones are there.
Restart == fetch' = Asking(key)

ServeFetch ==
    /\ fetch.is = "sent"
    /\ fetch' = IF fetch.key = wanted
                THEN [fetch EXCEPT !.is = "rows", !.rows = table, !.at = version]
                ELSE [fetch EXCEPT !.is = "refused"]
    /\ UNCHANGED <<kind, server, acked, key, list, schema, form, calls, issued, trouble>>

FetchFails ==
    /\ fetch.is \in {"sent", "rows"}
    /\ trouble < MaxTrouble /\ trouble' = trouble + 1
    /\ fetch' = [Idle EXCEPT !.is = "error"]
    /\ UNCHANGED <<kind, server, acked, key, list, schema, form, calls, issued>>

FetchArrives ==
    /\ UNCHANGED <<kind, server, acked, issued, trouble>>
    /\ \/ /\ fetch.is \in {"rows", "error"}
          /\ list' = [is |-> fetch.is, rows |-> fetch.rows, at |-> fetch.at]
          /\ fetch' = Idle
          /\ UNCHANGED <<key, schema, form, calls>>
       \/ fetch.is = "refused" /\ Reauthenticate

\* The definitions arrive; a refusal is noticed when the picker has to show them.
SchemaArrives ==
    /\ schema = "loading"
    /\ UNCHANGED <<kind, server, acked, issued>>
    /\ \/ /\ key = wanted
          /\ schema' = "ready"
          /\ UNCHANGED <<key, list, fetch, form, calls, trouble>>
       \/ /\ trouble < MaxTrouble /\ trouble' = trouble + 1
          /\ schema' = "error"
          /\ UNCHANGED <<key, list, fetch, form, calls>>
       \/ /\ key # wanted /\ UNCHANGED trouble
          /\ IF screen.at = "pick" /\ list.is = "rows" THEN Reauthenticate
             ELSE schema' = "refused" /\ UNCHANGED <<key, list, fetch, form, calls>>

-----------------------------------------------------------------------------
(***************************************************************************)
(* What the user does.  The screen takes no command before the rows are    *)
(* there, or after their fetch failed.                                     *)
(***************************************************************************)
Shown(at) == key # NoKey /\ list.is = "rows" /\ screen.at = at
Listed(id) == list.rows[id] # Absent

Quietly == UNCHANGED <<kind, server, acked, key, list, fetch, schema, calls, issued, trouble>>

\* MUTANT: the drafts of the form before stay.
OpenFormDirty(at, id, base) ==
    /\ screen' = AtForm(at, id, base)
    /\ draft' = IF draft = NoRow THEN [base EXCEPT !.secret = Blank]
                ELSE [base EXCEPT !.secret = draft.secret]
    /\ typed' = NothingTyped

\* MUTANT: the form is seeded with the values as stored.
OpenFormSeeded(at, id, base) ==
    /\ screen' = AtForm(at, id, base) /\ draft' = base /\ typed' = NothingTyped

\* Every draft is set anew, the secret to blank.
OpenForm(at, id, base) ==
    /\ screen' = AtForm(at, id, base)
    /\ draft' = [base EXCEPT !.secret = Blank]
    /\ typed' = NothingTyped

Add ==
    /\ Shown("list")
    /\ UNCHANGED <<kind, server, acked, issued, trouble>>
    /\ \/ /\ kind = "applications"
          /\ OpenForm("add", 0, [NoRow EXCEPT !.on = TRUE])
          /\ UNCHANGED <<key, list, fetch, schema, confirm, calls>>
       \/ /\ kind = "indexers" /\ schema # "refused"
          /\ screen' = [AtList EXCEPT !.at = "pick"]
          /\ UNCHANGED <<key, list, fetch, schema, draft, typed, confirm, calls>>
       \/ kind = "indexers" /\ schema = "refused" /\ Reauthenticate

PickDefinition ==
    /\ Shown("pick") /\ schema = "ready"
    /\ \E t \in Texts : OpenForm("add", 0, [NoRow EXCEPT !.text = t])
    /\ UNCHANGED confirm /\ Quietly

\* Not before the definitions are there: they say which fields are passwords.
Edit(id) ==
    /\ Shown("list") /\ Listed(id) /\ schema = "ready"
    /\ OpenForm("edit", id, list.rows[id])
    /\ UNCHANGED confirm /\ Quietly

Type(field, value) ==
    /\ Shown("add") \/ Shown("edit")
    /\ draft' = [draft EXCEPT ![field] = value]
    /\ typed' = [typed EXCEPT ![field] = value]
    /\ UNCHANGED <<screen, confirm>> /\ Quietly

Cancel ==
    /\ \/ Shown("add") \/ Shown("edit")
       \/ Shown("pick") /\ schema = "ready"
    /\ screen' = AtList /\ typed' = NothingTyped
    /\ UNCHANGED <<draft, confirm>> /\ Quietly

AskDelete(id) ==
    /\ Shown("list") /\ Listed(id) /\ confirm' \in {0, id} \ {confirm}
    /\ UNCHANGED <<screen, draft, typed>> /\ Quietly

-----------------------------------------------------------------------------
(***************************************************************************)
(* The user's writes.  Each is a task of its own; the screen stays as it   *)
(* is until the answer comes.                                              *)
(***************************************************************************)
Issue(do, id, row, blank) ==
    /\ issued < MaxCalls /\ issued' = issued + 1
    /\ calls' = calls \cup {[n |-> issued', do |-> do, id |-> id, row |-> row,
                             blank |-> blank, key |-> key, heard |-> TRUE,
                             answer |-> "none", at |-> 0]}
    /\ UNCHANGED <<kind, server, acked, key, list, fetch, schema, form, trouble>>

\* preserve_blank_passwords, resolve_api_key: blank keeps what the row had when the
\* form was opened.
Payload == [draft EXCEPT !.secret = IF @ = Blank THEN screen.base.secret ELSE @]

\* validate_application_form
Valid == kind = "applications" => Payload.text # Blank /\ Payload.secret # Blank

Save ==
    /\ Shown("add") \/ Shown("edit")
    /\ Valid
    /\ Issue(IF screen.at = "add" THEN "create" ELSE "update", screen.id, Payload,
             draft.secret = Blank)

\* toggle_enable: the row as shown, with the switch turned.
Toggle(id) ==
    /\ Shown("list") /\ Listed(id) /\ kind = "indexers"
    /\ Issue("toggle", id, [list.rows[id] EXCEPT !.on = ~@], FALSE)

ConfirmDelete(id) ==
    /\ Shown("list") /\ Listed(id) /\ confirm = id
    /\ Issue("delete", id, NoRow, FALSE)

-----------------------------------------------------------------------------
(***************************************************************************)
(* The server answers.                                                     *)
(***************************************************************************)
Answered(c, answer, at) ==
    calls' = IF c.heard THEN (calls \ {c}) \cup {[c EXCEPT !.answer = answer, !.at = at]}
             ELSE calls \ {c}

Written(c) ==
    /\ version' = version + 1
    /\ \/ /\ c.do = "create" /\ nextId <= MaxId
          /\ table' = [table EXCEPT ![nextId] = c.row] /\ nextId' = nextId + 1
       \/ /\ c.do \in {"update", "toggle"} /\ table[c.id] # Absent
          /\ table' = [table EXCEPT ![c.id] = c.row] /\ UNCHANGED nextId
       \/ /\ c.do = "delete" /\ table[c.id] # Absent
          /\ table' = [table EXCEPT ![c.id] = Absent] /\ UNCHANGED nextId

Serve(c) ==
    /\ c.answer = "none"
    /\ UNCHANGED <<kind, acked, wanted, key, list, fetch, schema, form, issued, trouble>>
    /\ IF c.key # wanted THEN Answered(c, "refused", 0) /\ UNCHANGED <<table, nextId, version>>
       ELSE \/ Written(c) /\ Answered(c, "ok", version')
            \/ /\ IF c.do = "create" THEN nextId > MaxId ELSE table[c.id] = Absent
               /\ Answered(c, "problem", 0) /\ UNCHANGED <<table, nextId, version>>

\* The write is refused, or its answer lost.
ServeBadly(c) ==
    /\ c.answer = "none" /\ c.key = wanted
    /\ trouble < MaxTrouble /\ trouble' = trouble + 1
    /\ UNCHANGED <<kind, acked, wanted, key, list, fetch, schema, form, issued>>
    /\ Answered(c, "problem", 0)
    /\ Written(c) \/ UNCHANGED <<table, nextId, version>>

-----------------------------------------------------------------------------
(***************************************************************************)
(* The answer is heard.                                                    *)
(***************************************************************************)
Hear(c) ==
    /\ c.answer # "none"
    /\ UNCHANGED <<kind, server, issued, trouble>>
    /\ CASE c.answer = "ok" ->
              /\ calls' = calls \ {c} /\ acked' = Max({acked, c.at})
              /\ Restart
              /\ IF c.do \in {"create", "update"} THEN screen' = AtList /\ typed' = NothingTyped
                 ELSE UNCHANGED <<screen, typed>>
              /\ confirm' = IF c.do = "delete" THEN 0 ELSE confirm
              /\ UNCHANGED <<key, list, schema, draft>>
         [] c.answer = "problem" ->
              calls' = calls \ {c} /\ UNCHANGED <<acked, key, list, fetch, schema, form>>
         [] c.answer = "refused" -> Reauthenticate /\ UNCHANGED acked

-----------------------------------------------------------------------------
(***************************************************************************)
(* Outside: the operator changes the key, another client writes a row.     *)
(***************************************************************************)
Elsewhere ==
    /\ trouble < MaxTrouble /\ trouble' = trouble + 1
    /\ \/ wanted' \in Keys \ {wanted} /\ UNCHANGED <<table, version>>
       \/ /\ \E id \in Ids, t \in Texts, s \in Secrets, on \in BOOLEAN :
               /\ table[id] # Absent
               /\ table' = [table EXCEPT ![id] = [text |-> t, secret |-> s, on |-> on]]
          /\ version' = version + 1 /\ UNCHANGED wanted
    /\ UNCHANGED <<kind, nextId, acked, key, list, fetch, schema, form, calls, issued>>

User ==
    \/ \E k \in Keys : EnterKey(k)
    \/ Leave \/ Add \/ PickDefinition \/ Cancel \/ Save
    \/ \E id \in Ids : Edit(id) \/ AskDelete(id) \/ Toggle(id) \/ ConfirmDelete(id)
    \/ \E t \in Texts : Type("text", t)
    \/ \E on \in BOOLEAN : Type("on", on)
    \/ \E s \in Secrets \cup {Blank} : Type("secret", s)

Network ==
    \/ ServeFetch \/ FetchFails \/ FetchArrives \/ SchemaArrives
    \/ \E c \in calls : Serve(c) \/ ServeBadly(c) \/ Hear(c)

Next == User \/ Network \/ Elsewhere

Spec == Init /\ [][Next]_vars

-----------------------------------------------------------------------------
(***************************************************************************)
(* What must hold                                                          *)
(***************************************************************************)
Rows == [Ids -> Row \cup {Absent}]
Versions == 0..(MaxCalls + MaxTrouble)

TypeOK ==
    /\ kind \in Screens
    /\ table \in Rows /\ nextId \in 1..(MaxId + 1) /\ version \in Versions
    /\ acked \in Versions /\ wanted \in Keys /\ key \in Keys \cup {NoKey}
    /\ list \in [is : {"none", "rows", "error"}, rows : Rows, at : Versions]
    /\ fetch \in [is : {"none", "sent", "rows", "error", "refused"},
                  key : Keys \cup {NoKey}, rows : Rows, at : Versions]
    /\ schema \in {"none", "loading", "ready", "error", "refused"}
    /\ screen \in [at : {"list", "pick", "add", "edit"}, id : {0} \cup Ids, base : Row]
    /\ draft \in Row
    /\ typed \in [text : Texts \cup {Untouched}, secret : Secrets \cup {Blank, Untouched},
                  on : BOOLEAN \cup {Untouched}]
    /\ confirm \in {0} \cup Ids
    /\ calls \subseteq
         [n : 1..MaxCalls, do : {"create", "update", "toggle", "delete"}, id : {0} \cup Ids,
          row : Row, blank : BOOLEAN, key : Keys, heard : BOOLEAN,
          answer : {"none", "ok", "problem", "refused"}, at : Versions]
    /\ issued \in 0..MaxCalls /\ trouble \in 0..MaxTrouble

\* A write that succeeded is in the rows shown as soon as they have been fetched
\* again: an answer to a fetch that the server served before the write, or before
\* another write, is never what stays on the screen.
AckedWritesAreShown ==
    fetch.is = "none" /\ list.is = "rows" => list.at >= acked

\* What a form saves is the row it was opened on with what the user typed since, whatever
\* forms were open before and whatever answers came in meanwhile.
Over(field, blanks) ==
    IF typed[field] \in blanks THEN screen.base[field] ELSE typed[field]

FormSavesItsOwn == InForm =>
    Payload = [text |-> Over("text", {Untouched}), on |-> Over("on", {Untouched}),
               secret |-> Over("secret", {Untouched, Blank})]

\* "The form's own draft state never holds the real secret": only one typed in.
DraftHoldsNoStoredSecret == InForm =>
    draft.secret = IF typed.secret = Untouched THEN Blank ELSE typed.secret

\* The key is cleared only by a 401 to a request that carried it: a late one that
\* belongs to the key before does not clear the key the user has just entered.
Refusals ==
    {c.key : c \in {d \in calls : d.answer = "refused"}}
    \cup (IF fetch.is = "refused" THEN {fetch.key} ELSE {})
    \cup (IF schema = "refused" \/ (schema = "loading" /\ key # wanted) THEN {key} ELSE {})

FreshKeyKept == [][key # NoKey /\ key' = NoKey => key \in Refusals]_vars

\* The hint of the form and the doc of initial_form_values: a password left blank
\* leaves the stored value unchanged.
BlankKeepsStored == [][\A c \in calls :
    c.do = "update" /\ c.blank /\ c \notin calls' /\ table # table' /\ c.answer = "none"
    => table'[c.id].secret = table[c.id].secret]_vars
=============================================================================
