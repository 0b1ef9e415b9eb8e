------------------------------- MODULE Instance -------------------------------
(***************************************************************************)
(* What an instance starts from: where its configuration is and what it    *)
(* says (crates/oxidarr-prowl/src/config.rs, main.rs), and the bundle of   *)
(* the web UI it serves (ui.rs).  An Option is a sequence of at most one;  *)
(* an address, a URL and a path are names.                                 *)
(***************************************************************************)
EXTENDS Integers, Sequences, SequencesExt, Text

O == INSTANCE Ordered

CONSTANTS
    Addresses,    \* the texts that parse as a socket address
    Urls          \* the texts that parse as a URL

None == <<>>
Or(a, b) == IF a = None THEN b ELSE a
Fails(error) == [ok |-> FALSE, error |-> error]

----------------------------------------------------------------------------
(* config.rs *)

Url(address) == "http://" \o address

DEFAULT_BIND == "0.0.0.0:9696"
DEFAULT_DATA_DIR == "./data"
DEFAULT_LOG == "info"
DEFAULT_DEFINITIONS_URL == "master.tar.gz"
DEFAULT_DEFINITIONS_INTERVAL == 86400

Truths == {"true", "1", "yes", "on"}
Falsehoods == {"false", "0", "no", "off"}
ParseBoolFlag(value) == IF value \in Truths THEN <<TRUE>> ELSE IF value \in Falsehoods THEN <<FALSE>> ELSE None

\* The variables of the environment, and the options of a file.
Options == {"bind", "data_dir", "external_url", "proxy", "log", "definitions_auto_update", "definitions_interval", "definitions_url"}
FileConfig == [option \in Options |-> None]

Missing == [is |-> "missing"]
Holding(says) == [is |-> "read", says |-> says]

\* A file that is not there says nothing; one that cannot be read, or is no
\* TOML of these options, is an error.
ReadFileConfig(file) ==
    CASE file.is = "missing" -> [ok |-> TRUE, config |-> FileConfig]
      [] file.is = "unreadable" -> Fails("io")
      [] file.is = "garbled" -> Fails("toml")
      [] file.is = "read" -> [ok |-> TRUE, config |-> file.says]

\* env or file or default.
FirstOf(env, file, default) == Or(Or(env, file), default)

\* A text in the environment, a truth value or a number of seconds in the file.
Seconds(text) == IF IsNumber(text) /\ text[1] /= "-" THEN <<Number(text)>> ELSE None
AutoUpdate(env, file) == IF env = None THEN Or(file, <<TRUE>>) ELSE ParseBoolFlag(env[1])
Interval(env, file) == IF env = None THEN Or(file, <<DEFAULT_DEFINITIONS_INTERVAL>>) ELSE Seconds(env[1])

LoadConfig(file, env) ==
    LET read == ReadFileConfig(file)
        of(option, default) == FirstOf(env[option], read.config[option], default)
        bind == of("bind", <<DEFAULT_BIND>>)[1]
        external == of("external_url", <<Url(bind)>>)[1]
        update == AutoUpdate(env["definitions_auto_update"], read.config["definitions_auto_update"])
        seconds == Interval(env["definitions_interval"], read.config["definitions_interval"])
    IN IF ~read.ok THEN read
       ELSE IF bind \notin Addresses THEN Fails("bind")
       ELSE IF external \notin Urls THEN Fails("external_url")
       ELSE IF update = None THEN Fails("auto_update")
       ELSE IF seconds = None \/ seconds[1] = 0 THEN Fails("interval")
       ELSE [ok |-> TRUE, bind |-> bind, data_dir |-> of("data_dir", <<DEFAULT_DATA_DIR>>)[1], external_url |-> external,
             proxy |-> of("proxy", None), log |-> of("log", <<DEFAULT_LOG>>)[1], definitions_auto_update |-> update[1],
             definitions_interval |-> seconds[1], definitions_url |-> of("definitions_url", <<DEFAULT_DEFINITIONS_URL>>)[1]]

----------------------------------------------------------------------------
(* main.rs *)

\* Of repeated flags, the last; a flag without a value, or any other, is refused.
ParseArgs(args) ==
    IF Len(args) % 2 = 1 \/ \E i \in DOMAIN args : i % 2 = 1 /\ args[i] /= "--config" THEN Fails("usage")
    ELSE [ok |-> TRUE, config |-> IF args = <<>> THEN None ELSE <<args[Len(args)]>>]

\* A path of two parts: a directory and a file in it.
In(dir, name) == <<dir, name>>
ResolveConfigPath(cli, config_env, data_dir_env) ==
    Or(cli, Or(config_env, <<In(Or(data_dir_env, <<DEFAULT_DATA_DIR>>)[1], "config.toml")>>))[1]

\* files: what is at each path.
LoadConfigured(args, config_env, env, files) ==
    LET parsed == ParseArgs(args)
        path == ResolveConfigPath(parsed.config, config_env, env["data_dir"])
    IN IF ~parsed.ok THEN parsed
       ELSE LoadConfig(IF path \in DOMAIN files THEN files[path] ELSE Missing, env)

----------------------------------------------------------------------------
(* ui.rs: a path is the segments between its slashes, a segment a stem and an
   extension, which may be "" *)

Segment(stem, extension) == [stem |-> stem, extension |-> extension]
Blank == Segment("", "")

\* The segments that are not blank.
Named(path) == O!Picked(path, {i \in DOMAIN path : path[i] /= Blank})

LooksLikeAnAssetPath(path) == path[1] = Segment("assets", "") \/ path[Len(path)].extension /= ""

IsReservedPath(path) ==
    LET api == Segment("api", "")
    IN path[1] = api \/ (Len(Named(path)) >= 2 /\ Named(path)[2] = api)

ContentTypeFor(path) ==
    LET types == [html |-> "text/html", css |-> "text/css", js |-> "text/javascript", wasm |-> "application/wasm",
                  woff2 |-> "font/woff2", map |-> "application/json", png |-> "image/png", svg |-> "image/svg+xml"]
    IN IF path[Len(path)].extension \in DOMAIN types THEN types[path[Len(path)].extension] ELSE "application/octet-stream"

IndexHtml == <<Segment("index", "html")>>
NotFound == [status |-> 404, file |-> <<>>]
FileResponse(path) == [status |-> 200, file |-> path, type |-> ContentTypeFor(path)]

\* dir: the paths of the bundle.  Blank segments do not count for a file.
Serve(dir, method, path) ==
    LET trimmed == Named(path)
    IN IF method /= "GET" \/ IsReservedPath(path) THEN NotFound
       ELSE IF trimmed \in dir THEN FileResponse(trimmed)
       ELSE IF LooksLikeAnAssetPath(path) \/ IndexHtml \notin dir THEN NotFound
       ELSE FileResponse(IndexHtml)

----------------------------------------------------------------------------

\* An option says the same in the environment and in the file, and the one in
\* the environment makes the one in the file of no account, right or wrong; a
\* configuration that fails, fails over something that was said (config.rs).
OptionsAreLayered(said, env) ==
    LET loaded == LoadConfig(Holding(said), env)
        silent(option) == [env EXCEPT ![option] = None]
        inFile(option) ==
            CASE option = "definitions_auto_update" -> ParseBoolFlag(env[option][1])
              [] option = "definitions_interval" -> Seconds(env[option][1])
              [] OTHER -> env[option]
    IN /\ \A option \in Options :
            env[option] /= None =>
                IF inFile(option) = None THEN ~loaded.ok
                ELSE loaded = LoadConfig(Holding([said EXCEPT ![option] = inFile(option)]), silent(option))
       /\ (\A option \in Options \ {"data_dir", "proxy", "log", "definitions_url"} : Or(env[option], said[option]) = None) => loaded.ok

\* A file is found where the last flag says, else where the environment says,
\* else below the data directory, and says the same wherever it is found; what
\* it says of the data directory does not move it (main.rs).
ConfigIsFound(args, file, env) ==
    LET at(path) == [p \in {path} |-> file]
        found == LoadConfig(file, env)
        below == In(Or(env["data_dir"], <<DEFAULT_DATA_DIR>>)[1], "config.toml")
    IN /\ LoadConfigured(<<>>, <<"e">>, env, [p \in {"e"} |-> file]) = found
       /\ LoadConfigured(<<>>, None, env, at(below)) = found
       /\ \A first \in {"e", "f"} : LoadConfigured(args \o <<"--config", first>>, <<"e">>, env, at(first))
                                    = IF ParseArgs(args).ok THEN found ELSE Fails("usage")

\* A path is answered with its own file, or with the page when it can be a page of
\* the UI; a miss below a route or of an asset is never answered with the page
\* (ui.rs).
BundleAnswersForItself(dir, path, pages) ==
    LET answer == Serve(dir, "GET", path)
        own == Named(path)
        api == Segment("api", "")
        route == path[1] = api \/ (Len(path) >= 2 /\ path[1] /= Blank /\ path[2] = api)
    IN /\ answer.status = 200 => answer.file \in {own, IndexHtml} \cap dir /\ ~route
       /\ answer.status = 200 /\ answer.file /= own => path[Len(path)].extension = "" /\ path[1] /= Segment("assets", "")
       /\ path \in pages /\ IndexHtml \in dir => answer.status = 200 /\ answer.type = "text/html"
=============================================================================
