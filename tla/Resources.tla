------------------------------ MODULE Resources ------------------------------
(***************************************************************************)
(* A configured row on its way between the user and the searches: the      *)
(* resources of crates/oxidarr-prowl/src/api (dto.rs, indexer_schema.rs,   *)
(* indexers.rs, applications.rs), the forms of crates/oxidarr-ui/src       *)
(* (components/fields.rs, screens/indexers.rs, screens/applications.rs),   *)
(* and what server.rs makes of the settings.  An Option is a sequence of   *)
(* at most one; a map is a function; a JSON number is its digits.          *)
(***************************************************************************)
EXTENDS Integers, Sequences, SequencesExt, Ordered

CONSTANTS
    KeyOrder,    \* the names of settings, in the order of a JSON map
    Urls         \* the texts that parse as a URL

C == INSTANCE Categories

Rejected == [ok |-> FALSE]

----------------------------------------------------------------------------
(* serde_json::Value *)

Str(s) == [json |-> "string", is |-> s]
Bool(b) == [json |-> "bool", is |-> IF b THEN "true" ELSE "false"]
Num(n) == [json |-> "number", is |-> n]
AsStr(settings, name) ==
    IF name \in DOMAIN settings /\ settings[name].json = "string" THEN <<settings[name].is>> ELSE <<>>

\* settings_from_json: a string is its text, any other value its JSON text.
SettingsFromJson(settings) == [n \in DOMAIN settings |-> settings[n].is]

----------------------------------------------------------------------------
(* dto.rs *)

\* A setting of a definition; options in the order of their keys.
Setting(name, kind, default, options) ==
    [name |-> name, label |-> name, kind |-> kind, default |-> default, options |-> options]

Field(name, label, kind, value, select_options) ==
    [name |-> name, label |-> label, kind |-> kind, value |-> value, select_options |-> select_options]

SelectOptions(options) == [i \in DOMAIN options |-> [value |-> i - 1, name |-> options[i].name]]

FieldValue(setting) ==
    [i \in DOMAIN setting.default |->
        IF setting.kind = "checkbox" THEN Bool(setting.default[i] = "true") ELSE Str(setting.default[i])]

FromSetting(setting) ==
    Field(setting.name, setting.label, IF setting.kind = "text" THEN "textbox" ELSE setting.kind,
          FieldValue(setting), IF setting.kind = "select" THEN <<SelectOptions(setting.options)>> ELSE <<>>)

IndexerResource(id, name, implementation, definition_name, enable, priority, fields) ==
    [id |-> id, name |-> name, implementation |-> implementation, definition_name |-> definition_name,
     description |-> "", language |-> "", enable |-> enable, priority |-> priority, categories |-> <<>>,
     fields |-> fields, sync_error |-> <<>>]

ApplicationResource(id, name, implementation, sync_level, fields) ==
    [id |-> id, name |-> name, implementation |-> implementation, sync_level |-> sync_level,
     fields |-> fields, sync_error |-> <<>>]

----------------------------------------------------------------------------
(* indexer_schema.rs *)

DefaultPriority == 25

\* definition: [name, description, language, settings, mappings].
ToResource(id, definition) ==
    LET map == C!FromDefinition(definition.mappings)
        known == Ascending({n \in ToSet(C!NewznabIds(map)) : C!ById(n) /= 0})
        fields == [i \in DOMAIN definition.settings |-> FromSetting(definition.settings[i])]
    IN [IndexerResource(0, definition.name, "Cardigann", id, FALSE, DefaultPriority, fields)
            EXCEPT !.description = definition.description, !.language = definition.language, !.categories = known]

\* Only what loads is listed.
Schema(defs) ==
    LET loaded == SetToSeq({id \in DOMAIN defs : defs[id] /= <<>>})
    IN [i \in DOMAIN loaded |-> ToResource(loaded[i], defs[loaded[i]][1])]

----------------------------------------------------------------------------
(* indexers.rs *)

Implementations == {"Cardigann", "Newznab", "Torznab"}

\* definition_name as its characters.
IsPlainStem(id) ==
    /\ id /= <<>> /\ id /= <<".">>
    /\ ToSet(id) \cap {"/", "\\"} = {}
    /\ \A i \in 2..Len(id) : ~(id[i - 1] = "." /\ id[i] = ".")

\* The last of two fields of one name stands, as in a map that is collected.
SettingsFromFields(fields) ==
    LET valued == {i \in DOMAIN fields : fields[i].value /= <<>>}
    IN [n \in {fields[i].name : i \in valued} |->
          fields[CHOOSE i \in valued : fields[i].name = n /\ \A k \in valued : fields[k].name = n => k <= i].value[1]]

\* No label, no options, and a kind that tells a bool from the rest.
FieldsFromSettings(settings) ==
    LET names == Picked(KeyOrder, {i \in DOMAIN KeyOrder : KeyOrder[i] \in DOMAIN settings})
        kind(n) == IF settings[n].json = "bool" THEN "checkbox" ELSE "textbox"
    IN [i \in DOMAIN names |-> Field(names[i], names[i], kind(names[i]), <<settings[names[i]]>>, <<>>)]

RowToResource(row) ==
    IndexerResource(row.id, row.name, row.kind, row.definition_id, row.enabled, row.priority,
                    FieldsFromSettings(row.settings))

\* defs: the definitions that load.
BuildNewIndexer(resource, defs) ==
    IF \/ resource.implementation \notin Implementations
       \/ ~IsPlainStem(resource.definition_name)
       \/ resource.implementation = "Cardigann" /\ resource.definition_name \notin defs
    THEN Rejected
    ELSE [ok |-> TRUE, id |-> resource.id, name |-> resource.name, definition_id |-> resource.definition_name,
          kind |-> resource.implementation, enabled |-> resource.enable,
          settings |-> SettingsFromFields(resource.fields), priority |-> resource.priority]

\* The search that is run with a kind, a definition and settings, or none.
Engine(definition, settings) == [ok |-> TRUE, engine |-> definition, settings |-> SettingsFromJson(settings)]
Api(kind, settings) ==
    LET base == AsStr(settings, "baseUrl")
    IN IF base = <<>> \/ ~(ToSet(base) \subseteq Urls) THEN Rejected
       ELSE [ok |-> TRUE, engine |-> kind, base |-> base[1], apikey |-> AsStr(settings, "apiKey")]

RunTest(resource, defs) ==
    LET settings == SettingsFromFields(resource.fields)
    IN IF resource.implementation \notin Implementations THEN Rejected
       ELSE IF resource.implementation /= "Cardigann" THEN Api(resource.implementation, settings)
       ELSE IF resource.definition_name \in defs THEN Engine(resource.definition_name, settings) ELSE Rejected

SearchRow(row, defs) ==
    IF row.kind /= "Cardigann" THEN Api(row.kind, row.settings)
    ELSE IF row.definition_id \in defs THEN Engine(row.definition_id, row.settings) ELSE Rejected
----------------------------------------------------------------------------
(* applications.rs *)

Named(fields, name) == {i \in DOMAIN fields : fields[i].name = name}

\* The first field of the name; none, no value, no string and "" are the same.
RequiredField(fields, name) ==
    LET value == IF Named(fields, name) = {} THEN <<>> ELSE First(fields, Named(fields, name)).value
    IN IF value = <<>> \/ value[1].json /= "string" \/ value[1].is = "" THEN <<>> ELSE <<value[1].is>>

TextField(name, value) == Field(name, name, "textbox", <<Str(value)>>, <<>>)
RowToFields(row) == <<TextField("baseUrl", row.base_url), TextField("apiKey", row.api_key)>>
AppRowToResource(row) == ApplicationResource(row.id, row.name, row.kind, row.sync_level, RowToFields(row))

AppAccepts(resource) ==
    LET base == RequiredField(resource.fields, "baseUrl")
    IN /\ resource.implementation \in {"Sonarr", "Radarr"}
       /\ base /= <<>> /\ ToSet(base) \subseteq Urls
       /\ RequiredField(resource.fields, "apiKey") /= <<>>

BuildNewApplication(resource) ==
    IF ~AppAccepts(resource) THEN Rejected
    ELSE [ok |-> TRUE, id |-> resource.id, name |-> resource.name, kind |-> resource.implementation,
          base_url |-> RequiredField(resource.fields, "baseUrl")[1],
          api_key |-> RequiredField(resource.fields, "apiKey")[1], sync_level |-> resource.sync_level]

\* The probe of a test: the status page, under the key.
RunAppTest(resource) ==
    IF ~AppAccepts(resource) THEN Rejected
    ELSE [ok |-> TRUE, base |-> RequiredField(resource.fields, "baseUrl")[1],
          api_key |-> RequiredField(resource.fields, "apiKey")[1]]

----------------------------------------------------------------------------
(* components/fields.rs *)

FieldValueAsString(field) ==
    IF field.value /= <<>> THEN field.value[1].is ELSE IF field.kind = "checkbox" THEN "false" ELSE ""

\* MUTANT: every control gives a text.
ValueForFieldText(kind, value) == Str(value)

ValueForField(kind, value) == IF kind = "checkbox" THEN Bool(value = "true") ELSE Str(value)

\* render_field: the control, what it shows of a value, and what it may give
\* instead; a text box or a password box gives whatever is typed.
RenderField(field, value, texts) ==
    CASE field.kind = "checkbox" -> [control |-> "checkbox", shows |-> value = "true", gives |-> {"true", "false"}]
      [] field.kind = "select" ->
            LET names == IF field.select_options = <<>> THEN {}
                         ELSE {field.select_options[1][i].name : i \in DOMAIN field.select_options[1]}
            IN [control |-> "select", shows |-> names \cap {value}, gives |-> names]
      [] field.kind = "password" -> [control |-> "password", shows |-> "", gives |-> texts]
      [] OTHER -> [control |-> "text", shows |-> value, gives |-> texts]

----------------------------------------------------------------------------
(* screens/indexers.rs *)

\* Of two fields of one name, the last.
InitialValues(fields) ==
    [n \in {fields[i].name : i \in DOMAIN fields} |->
        FieldValueAsString(fields[CHOOSE i \in DOMAIN fields :
            fields[i].name = n /\ \A k \in DOMAIN fields : fields[k].name = n => k <= i])]

IsPasswordField(field, schema_fields) ==
    \/ field.kind = "password"
    \/ \E i \in DOMAIN schema_fields : schema_fields[i].name = field.name /\ schema_fields[i].kind = "password"

InitialFormValues(fields, schema_fields) ==
    LET secret == {fields[i].name : i \in {k \in DOMAIN fields : IsPasswordField(fields[k], schema_fields)}}
    IN [n \in DOMAIN InitialValues(fields) |-> IF n \in secret THEN "" ELSE InitialValues(fields)[n]]

Given(values, name) == IF name \in DOMAIN values THEN values[name] ELSE ""

\* The draft signals with what was set since.
Overlaid(set, values) == [n \in DOMAIN set \cup DOMAIN values |-> IF n \in DOMAIN set THEN set[n] ELSE values[n]]

BuildIndexerResource(resource, name, enable, priority, fields, values) ==
    IndexerResource(resource.id, name, resource.implementation, resource.definition_name, enable, priority,
        [i \in DOMAIN fields |-> [fields[i] EXCEPT !.value = <<ValueForField(fields[i].kind, Given(values, fields[i].name))>>]])

ToggleEnable(resource) ==
    BuildIndexerResource(resource, resource.name, ~resource.enable, resource.priority, resource.fields,
                         InitialValues(resource.fields))
BuildResourceForTest(resource) ==
    BuildIndexerResource(resource, resource.name, resource.enable, resource.priority, resource.fields,
                         InitialValues(resource.fields))

\* The label, kind and options of the schema, the value that is stored; a
\* setting the schema no longer has is dropped.
MergeFieldMetadata(schema_fields, stored) ==
    [i \in DOMAIN schema_fields |->
        LET own == Named(stored, schema_fields[i].name)
        IN IF own = {} \/ First(stored, own).value = <<>> THEN schema_fields[i]
           ELSE [schema_fields[i] EXCEPT !.value = First(stored, own).value]]

\* None while the schema is still loading, or when it lacks the definition.
ResolveSchemaEntryForEdit(entries, definition_name) ==
    LET matching == IF entries = <<>> THEN {}
                    ELSE {i \in DOMAIN entries[1] : entries[1][i].definition_name = definition_name}
    IN IF matching = {} THEN <<>> ELSE <<First(entries[1], matching)>>

PreserveBlankPasswords(fields, values) ==
    LET restored == {i \in DOMAIN fields : /\ IsPasswordField(fields[i], fields)
                                           /\ Given(values, fields[i].name) = ""
                                           /\ FieldValueAsString(fields[i]) /= ""}
    IN Overlaid([n \in {fields[i].name : i \in restored} |->
                    FieldValueAsString(First(fields, {i \in restored : fields[i].name = n}))], values)

\* on_edit, what is typed, on_save: the resource that is sent, or none.
EditSent(entries, resource, typed) ==
    LET entry == ResolveSchemaEntryForEdit(entries, resource.definition_name)
        merged == MergeFieldMetadata(entry[1].fields, resource.fields)
        draft == Overlaid(typed, InitialFormValues(merged, entry[1].fields))
    IN IF entry = <<>> THEN <<>>
       ELSE <<BuildIndexerResource(resource, resource.name, resource.enable, resource.priority, merged,
                                   PreserveBlankPasswords(merged, draft))>>

\* on_pick, what is typed, on_save.
AddSent(entry, typed) ==
    LET draft == Overlaid(typed, InitialFormValues(entry.fields, entry.fields))
    IN BuildIndexerResource(entry, entry.name, entry.enable, entry.priority, entry.fields,
                            PreserveBlankPasswords(entry.fields, draft))

----------------------------------------------------------------------------
(* screens/applications.rs *)

FieldOf(fields, name) ==
    IF Named(fields, name) = {} THEN "" ELSE FieldValueAsString(First(fields, Named(fields, name)))

ResolveApiKey(fields, draft) == IF draft = "" THEN FieldOf(fields, "apiKey") ELSE draft

BuildApplicationResource(id, name, implementation, sync_level, base_url, api_key) ==
    ApplicationResource(id, name, implementation, sync_level,
                        <<TextField("baseUrl", base_url), TextField("apiKey", api_key)>>)

BuildAppResourceForTest(resource) ==
    BuildApplicationResource(resource.id, resource.name, resource.implementation, resource.sync_level,
                             FieldOf(resource.fields, "baseUrl"), FieldOf(resource.fields, "apiKey"))

\* The value of an option of the form's select, and the level it is taken for.
SyncLevelWire == [Disabled |-> "disabled", AddOnly |-> "addOnly", FullSync |-> "fullSync"]
SyncLevelFromWire == [disabled |-> "Disabled", addOnly |-> "AddOnly", fullSync |-> "FullSync"]

\* The messages of a form that is not ready, in the order of its boxes.
ValidateApplicationForm(name, base_url, api_key) ==
    LET base == IF base_url = "" THEN <<"no base">> ELSE IF base_url \notin Urls THEN <<"bad base">> ELSE <<>>
    IN (IF name = "" THEN <<"no name">> ELSE <<>>) \o base \o (IF api_key = "" THEN <<"no key">> ELSE <<>>)
----------------------------------------------------------------------------

NothingTyped == [n \in {} |-> ""]

\* What a form says of a setting: what was typed, a secret left blank being as
\* it was; else what is stored; else the default.  A box is checked or it is not.
Says(field, stored, typed) ==
    LET typedin == field.name \in DOMAIN typed /\ (field.kind = "password" => typed[field.name] /= "")
        text == IF typedin THEN typed[field.name]
                ELSE IF field.name \in DOMAIN stored THEN stored[field.name].is
                ELSE IF field.value /= <<>> THEN field.value[1].is ELSE ""
    IN IF field.kind = "checkbox" THEN Bool(text = "true").is ELSE text
Said(fields, stored, typed) ==
    [n \in {fields[i].name : i \in DOMAIN fields} |->
        Says(fields[CHOOSE i \in DOMAIN fields : fields[i].name = n], stored, typed)]

\* An edit is saved as its form says, setting by setting, and nothing else of
\* the row changes, an indexer that is added starts from the defaults; opened
\* and saved once more a row stays as it is; what the form's Test probes is what the saved row will be searched with
\* (screens/indexers.rs, api/indexers.rs).
FormSavesWhatItSays(id, definition, row, typed) ==
    LET entries == <<Schema([d \in {id} |-> <<definition>>])>>
        fields == entries[1][1].fields
        sent == EditSent(entries, RowToResource(row), typed)[1]
        saved == BuildNewIndexer(sent, {id})
    IN /\ saved.ok
       /\ [saved EXCEPT !.settings = row.settings] = [row EXCEPT !.ok = TRUE]
       /\ SettingsFromJson(saved.settings) = Said(fields, row.settings, typed)
       /\ SettingsFromJson(BuildNewIndexer(AddSent(entries[1][1], typed), {id}).settings)
            = Said(fields, NothingTyped, typed)
       /\ BuildNewIndexer(EditSent(entries, RowToResource(saved), NothingTyped)[1], {id}) = saved
       /\ RunTest(sent, {id}) = SearchRow(saved, {id})
       /\ EditSent(<<>>, RowToResource(row), typed) = <<>>

\* The switch of the list changes the switch alone, and its Test probes what a
\* search of the row asks, whatever the settings are (screens/indexers.rs).
\* A number becomes its digits, which an api key reads differently.
ListActsOnTheRow(row, defs) ==
    LET resource == RowToResource(row)
        toggled == BuildNewIndexer(ToggleEnable(resource), defs)
        api == row.kind /= "Cardigann" /\ \E n \in DOMAIN row.settings : row.settings[n].json = "number"
    IN /\ toggled.ok =>
            /\ SettingsFromJson(toggled.settings) = SettingsFromJson(row.settings)
            /\ toggled = [row EXCEPT !.enabled = ~@, !.settings = toggled.settings]
       /\ ~api => RunTest(BuildResourceForTest(resource), defs) = SearchRow(row, defs)

\* The form of an application lets through what the server does, a name aside;
\* what is saved is the form's, the stored key where none was typed, and the
\* probe of a test is of that base under that key (screens/applications.rs,
\* api/applications.rs).
ApplicationFormAgrees(row, draft) ==
    LET fields == AppRowToResource(row).fields
        key == ResolveApiKey(fields, draft.api_key)
        level == SyncLevelFromWire[SyncLevelWire[draft.sync_level]]
        sent == BuildApplicationResource(row.id, draft.name, draft.kind, level, draft.base_url, key)
        saved == BuildNewApplication(sent)
    IN /\ ValidateApplicationForm(draft.name, draft.base_url, key) = <<>> <=> saved.ok /\ draft.name /= ""
       /\ saved.ok =>
            /\ saved = [draft EXCEPT !.id = row.id, !.api_key = IF @ = "" THEN row.api_key ELSE @]
            /\ RunAppTest(sent) = [ok |-> TRUE, base |-> saved.base_url, api_key |-> saved.api_key]
            /\ RunAppTest(BuildAppResourceForTest(AppRowToResource(saved))) = RunAppTest(sent)

=============================================================================
