--------------------------- MODULE Configuration ---------------------------
(***************************************************************************)
(* The layered configuration of packages/config, on the scope "video": the *)
(* defaults, a file over them, SURFGEN_ variables over both, a schema at   *)
(* the end; and watchConfigFile, which loads the file when it changes.     *)
(*                                                                         *)
(* A value is an opaque string and a mapping of YAML is a function from    *)
(* its keys.  Of the schema five settings are kept: two that the defaults  *)
(* give, and a block that is optional, with one setting it requires.  So   *)
(* mappings are two levels deep, and so far goes the recursion.            *)
(***************************************************************************)
EXTENDS Naturals

CONSTANTS
    Documents,     \* what a file may say that can be parsed
    Environments,  \* the SURFGEN_VIDEO__ variables: a value for each path they name
    MaxEdits       \* bound: how often the file is written or deleted

VARIABLES
    configFile,   \* what stands in the file
    environment,  \* the SURFGEN_VIDEO__ variables of the process
    loading,      \* "boot", "loaded", "starting", "watching", "closed" or "failed"
    settings,     \* the configuration the program was given last
    notified,     \* an event of the watcher is on its way to reload
    unheard,      \* history: the file was written and no event tells of it
    edits

configVars == <<configFile, environment, loading, settings, notified, unheard, edits>>

-----------------------------------------------------------------------------
(* Values, and how the layers are put together.                            *)

Absent == "absent"
Value(v) == [value |-> v, members |-> <<>>]
Mapping(m) == [value |-> Absent, members |-> m]
isMapping(entry) == entry.value = Absent
membersAt(data, k) == IF k \in DOMAIN data /\ isMapping(data[k]) THEN data[k].members ELSE <<>>

\* Mutant: a block of the file replaces the block of the defaults.
deepMergeShallow(base, override) ==
    [k \in DOMAIN base \cup DOMAIN override |->
        IF k \in DOMAIN override THEN override[k] ELSE base[k]]

mergeMembers(base, override) ==
    [k \in DOMAIN base \cup DOMAIN override |->
        IF k \in DOMAIN override THEN override[k] ELSE base[k]]

deepMerge(base, override) ==
    [k \in DOMAIN base \cup DOMAIN override |->
        IF k \notin DOMAIN override THEN base[k]
        ELSE IF k \in DOMAIN base /\ isMapping(base[k]) /\ isMapping(override[k])
             THEN Mapping(mergeMembers(base[k].members, override[k].members))
             ELSE override[k]]

\* A variable's name has no case: its segments are lower-cased and find the
\* key that differs in its case only. Where there is none, the segment itself
\* becomes the key.
lowerCase(k) ==
    IF k = "maxDurationSeconds" THEN "maxdurationseconds"
    ELSE IF k = "imagePath" THEN "imagepath" ELSE k

resolveKey(target, segment) ==
    IF \E k \in DOMAIN target : lowerCase(k) = segment
    THEN CHOOSE k \in DOMAIN target : lowerCase(k) = segment
    ELSE segment

\* setDeep for the variables that name settings of one block. Each sets a key
\* of its own, so their order is of no account.
setDeep(members, paths, env) ==
    [k \in DOMAIN members \cup {resolveKey(members, q[2]) : q \in paths} |->
        IF \E q \in paths : resolveKey(members, q[2]) = k
        THEN Value(env[CHOOSE q \in paths : resolveKey(members, q[2]) = k])
        ELSE members[k]]

\* What stands where a variable needs a block is replaced by one.
applyEnvOverrides(data, env) ==
    LET paths(k) == {q \in DOMAIN env : resolveKey(data, q[1]) = k}
    IN  [k \in DOMAIN data \cup {resolveKey(data, q[1]) : q \in DOMAIN env} |->
            IF paths(k) = {} THEN data[k]
            ELSE Mapping(setDeep(membersAt(data, k), paths(k), env))]

Paths ==
    {<<"defaults", "quality">>, <<"limits", "maxDurationSeconds">>,
     <<"watermark", "enabled">>, <<"watermark", "imagePath">>}

valueAt(data, p) ==
    IF p[1] \in DOMAIN data /\ p[2] \in DOMAIN data[p[1]].members
    THEN data[p[1]].members[p[2]].value ELSE Absent

Blocks == {"defaults", "limits", "watermark"}
allows(p, value) ==
    /\ p[2] = "quality" => value \in {"18", "23"}
    /\ p[2] = "maxDurationSeconds" => value \in {"60", "90", "1800"}
    /\ p[2] = "enabled" => value \in {"true", "false"}

\* Keys the schema does not know are dropped, those it requires must be there.
VideoConfigSchema(data) ==
    /\ \A b \in Blocks \cap DOMAIN data : isMapping(data[b])
    /\ \A p \in Paths :
           \/ allows(p, valueAt(data, p))
           \/ p[1] = "watermark" /\ "watermark" \notin DOMAIN data

parsedConfig(data) == [p \in Paths |-> valueAt(data, p)]

DEFAULT_VIDEO_CONFIG ==
    [defaults |-> Mapping([quality |-> Value("23")]),
     limits |-> Mapping([maxDurationSeconds |-> Value("1800")])]

-----------------------------------------------------------------------------
(* Files and environments.                                                 *)

fileWith(data) == [is |-> "parsed", data |-> data]
MissingFile == [is |-> "missing", data |-> <<>>]
TornFile == [is |-> "malformed", data |-> <<>>]

ConfigFiles == {MissingFile, TornFile} \cup {fileWith(d) : d \in Documents}

\* Below a block of a document there are values only, and no setting is spelled
\* in another case; variables name a block and a setting, in lower case.
ASSUME ConfigurationAssumption ==
    /\ MaxEdits \in Nat
    /\ \A d \in Documents : \A b \in DOMAIN d : \A k \in DOMAIN d[b].members :
           /\ ~isMapping(d[b].members[k])
           /\ \A p \in Paths : k = lowerCase(p[2]) => k = p[2]
    /\ \A env \in Environments : \A q \in DOMAIN env :
           q = <<lowerCase(q[1]), lowerCase(q[2])>>

NoSettings == [p \in Paths |-> Absent]

ConfigurationInit ==
    /\ configFile = MissingFile
    /\ environment = <<>>
    /\ loading = "boot"
    /\ settings = NoSettings
    /\ notified = FALSE
    /\ unheard = FALSE
    /\ edits = 0

-----------------------------------------------------------------------------
(* Loading and watching.                                                   *)

withEnv(file, env) == applyEnvOverrides(deepMerge(DEFAULT_VIDEO_CONFIG, file.data), env)

\* What loadConfigFile returns is ok.
loads(file, env) == file.is # "malformed" /\ VideoConfigSchema(withEnv(file, env))
loadConfigFile(file, env) == parsedConfig(withEnv(file, env))

\* A program begins; it does not run on a configuration that is in error.
loadAll(env) ==
    /\ loading = "boot"
    /\ environment' = env
    /\ IF loads(configFile, env)
       THEN /\ loading' = "loaded"
            /\ settings' = loadConfigFile(configFile, env)
       ELSE loading' = "failed" /\ UNCHANGED settings
    /\ unheard' = FALSE
    /\ UNCHANGED <<configFile, notified, edits>>

watchConfigFile ==
    /\ loading = "loaded"
    /\ loading' = "starting"
    /\ UNCHANGED <<configFile, environment, settings, notified, unheard, edits>>

\* What is there when chokidar begins to listen raises no event.
WatcherReady ==
    /\ loading = "starting"
    /\ loading' = "watching"
    /\ UNCHANGED <<configFile, environment, settings, notified, unheard, edits>>

reload ==
    /\ notified
    /\ loading = "watching"
    /\ notified' = FALSE
    /\ unheard' = FALSE
    /\ settings' = IF loads(configFile, environment)
                   THEN loadConfigFile(configFile, environment) ELSE settings
    /\ UNCHANGED <<configFile, environment, loading, edits>>

CloseWatcher ==
    /\ loading \in {"starting", "watching"}
    /\ loading' = "closed"
    /\ notified' = FALSE
    /\ UNCHANGED <<configFile, environment, settings, unheard, edits>>

\* Someone writes the file, which may be read before it is whole, or deletes
\* it. Nobody listens to "unlink".
EditConfig(file) ==
    /\ edits < MaxEdits
    /\ file # configFile
    /\ edits' = edits + 1
    /\ configFile' = file
    /\ IF loading = "watching" /\ file # MissingFile
       THEN notified' = TRUE /\ UNCHANGED unheard
       ELSE unheard' = TRUE /\ UNCHANGED notified
    /\ UNCHANGED <<environment, loading, settings>>

ConfigurationNext ==
    \/ \E env \in Environments : loadAll(env)
    \/ watchConfigFile
    \/ WatcherReady
    \/ reload
    \/ CloseWatcher
    \/ \E file \in ConfigFiles : EditConfig(file)

ConfigurationSpec == ConfigurationInit /\ [][ConfigurationNext]_configVars

-----------------------------------------------------------------------------
(* Which layer a setting is taken from, setting by setting.                *)

inDefaults(p) == valueAt(DEFAULT_VIDEO_CONFIG, p)
inFile(p) == valueAt(configFile.data, p)
variableOf(p) == <<lowerCase(p[1]), lowerCase(p[2])>>

\* A key that is not all lower case can only be overridden where the defaults
\* or the file have it.
overridden(p) ==
    /\ variableOf(p) \in DOMAIN environment
    /\ lowerCase(p[2]) = p[2] \/ inFile(p) # Absent \/ inDefaults(p) # Absent

layered(p) ==
    IF overridden(p) THEN environment[variableOf(p)]
    ELSE IF inFile(p) # Absent THEN inFile(p)
    ELSE inDefaults(p)

\* Some layer has the block.
hasBlock(b) ==
    \/ b \in DOMAIN DEFAULT_VIDEO_CONFIG \cup DOMAIN configFile.data
    \/ \E q \in DOMAIN environment : q[1] = lowerCase(b)

\* The layers give a configuration the schema accepts.
layersAgree ==
    /\ configFile.is # "malformed"
    /\ \A b \in Blocks \cap DOMAIN configFile.data : isMapping(configFile.data[b])
    /\ \A p \in Paths : hasBlock(p[1]) => allows(p, layered(p))

\* A running program has a configuration its schema accepts, whatever was
\* written to the file; and when no event is under way and none was missed,
\* each setting is the variable's, else the file's, else the default: an
\* invalid edit leaves no trace in it.
ShownConfigIsLayered ==
    loading \in {"loaded", "starting", "watching"} =>
        /\ \A p \in Paths : p[1] # "watermark" => allows(p, settings[p])
        /\ (~notified /\ ~unheard /\ layersAgree) => settings = [p \in Paths |-> layered(p)]
=============================================================================
