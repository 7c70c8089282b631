----------------------------- MODULE Configuration -----------------------------
(***************************************************************************)
(* From the command line, the configuration file and its profiles to what  *)
(* a run is started with, and to the exit of the process                   *)
(* (src/src/configuration/, src/src/cli/, src/src/api/load_configuration.ts, *)
(* convert_configuration.ts, plugins.ts, formatters.ts and support.ts).    *)
(*                                                                         *)
(* A layer is a function from the options it gives.  A tag expression is   *)
(* its text as far as joining texts can tell them apart: a sequence, read  *)
(* as "or", of sequences, read as "and", of factors, each with whether it  *)
(* opens and closes with a parenthesis ("not (@b)" only closes with one)   *)
(* and the sets of tags it is true of.                                     *)
(***************************************************************************)
EXTENDS Paths, PickleSelection, Implementations

CONSTANTS
    Pickles,           \* all pickles there are
    CommandLines,      \* sequences of arguments [option, value]
    ConfigFiles,       \* which files there may be, with what is in each
    Environments,      \* what the environment says of publishing, whether stdout is a TTY
                       \* and whether the version of Node.js will do
    Dialects,          \* the languages, with what each has for the English keywords
    OnlyImported,      \* the support code that is an ES module `require` cannot load
    Malformed          \* a value no option allows

VARIABLES
    input,       \* the arguments, the files that exist and the environment
    stage,       \* "argv", "locate", "load", "merge", "validate", "convert", "start", "run", "exited"
    parsed,      \* what the arguments are parsed to
    file,        \* the configuration file
    profile,     \* profileConfiguration
    original,    \* the merged configuration
    run,         \* runConfiguration
    started,     \* plugins, formatters, support code, pickles and adapter of the run
    exit         \* what is printed instead, the exit code and whether the exit is forced

configurationVars == <<input, stage, parsed, file, profile, original, run, started, exit>>

None == "none"

(* A layer or object that gives nothing.                                   *)
Nothing == [key \in {} |-> None]

DefaultFilenames ==
    <<"cucumber.js", "cucumber.cjs", "cucumber.mjs", "cucumber.json", "cucumber.yaml", "cucumber.yml">>

AdditiveArrays == {"format", "import", "loader", "name", "paths", "require", "requireModule"}

TagExpressions == {"tags", "retryTagFilter"}

Objects == {"formatOptions", "pluginOptions", "workerOptions", "worldParameters"}

Flags == {"backtrace", "dryRun", "failFast", "forceExit", "publish", "strict"}

Counts == {"parallel", "retry"}

(* The options of IConfiguration.                                          *)
Options ==
    Flags \cup Counts \cup AdditiveArrays \cup {"plugin"} \cup TagExpressions \cup Objects
        \cup {"language", "order", "shard"}

(* What the schema of an object does not know passes it whatever it is.    *)
Unchecked == {"forceExit", "loader", "shard"}

DefaultConfiguration ==
    [option \in Options |->
        CASE option \in Flags -> option = "strict"
          [] option \in Counts -> 0
          [] option \in Objects -> Nothing
          [] option = "language" -> "en"
          [] option = "order" -> "defined"
          [] option = "shard" -> ""
          [] OTHER -> <<>>]

IsSequence(s) == s \in Seq(ToSet(s))

(* What can be given for an option: sequences for those that are arrays,   *)
(* texts, none of whose factors is missing, for tag expressions, paths     *)
(* that have a value in Glob.                                              *)
IsText(text) == IsSequence(text) /\ \A i \in DOMAIN text : IsSequence(text[i]) /\ text[i] # <<>>

IsPathArgument(arg) ==
    IF "rerun" \in DOMAIN arg
    THEN IsSequence(arg.rerun) /\ \A path \in ToSet(arg.rerun) : path.uri \in DOMAIN Glob \cup {""}
    ELSE arg.uri \in DOMAIN Glob \cup {""}

(* Under the names of options that are merged in a way of their own there  *)
(* are leaves, none of them empty: lists or values, and texts.             *)
IsObject(tree) ==
    /\ IsTree(tree)
    /\ \A path \in DOMAIN tree :
           tree[path].is \in
               IF Last(path) \in AdditiveArrays THEN {"scalar", "list"}
               ELSE IF Last(path) \in TagExpressions THEN {"scalar"} ELSE {"object", "array", "scalar"}

IsItem(option, value) ==
    /\ option \in {"require", "import"} => value \in DOMAIN Glob
    /\ option = "paths" => IsPathArgument(value)

IsGiven(option, value) ==
    /\ option \in AdditiveArrays \cup {"plugin"} =>
           IsSequence(value) /\ \A item \in ToSet(value) : IsItem(option, item)
    /\ option \in TagExpressions => IsText(value)
    /\ option \in Counts => value \in Nat
    /\ option \in Objects => IsObject(value)

(* An argument may be a number below zero, and its text is not empty: "()" *)
(* is not a tag expression.                                                *)
IsArgument(arg) ==
    /\ arg.option \in (Options \ {"workerOptions"})
                         \cup {"config", "profile", "i18nKeywords", "i18nLanguages"}
    /\ arg.value # Malformed =>
           /\ IsItem(arg.option, arg.value)
           /\ arg.option \in TagExpressions => IsText(arg.value) /\ arg.value # <<>>
           /\ arg.option \in Counts => arg.value \in Int
           /\ arg.option \in Objects => IsObject(arg.value)

AreArguments(args) == IsSequence(args) /\ \A i \in DOMAIN args : IsArgument(args[i])

IsDefinition(definition) ==
    IF "args" \in DOMAIN definition THEN AreArguments(definition.args)
    ELSE /\ "layer" \in DOMAIN definition /\ DOMAIN definition.layer \subseteq Options
         /\ \A option \in DOMAIN definition.layer :
                \/ option # "loader" /\ definition.layer[option] = Malformed
                \/ IsGiven(option, definition.layer[option])

ASSUME ConfigurationAssumption ==
    /\ \A argv \in CommandLines : AreArguments(argv)
    /\ \A files \in ConfigFiles : \A name \in DOMAIN files :
           /\ name \in ToSet(DefaultFilenames)
           /\ \A profiles \in {files[name].profiles, files[name].returns} :
                  \A p \in DOMAIN profiles : IsDefinition(profiles[p])
    /\ IsSequence(DefaultPaths) /\ \A path \in ToSet(DefaultPaths) : path.uri \in DOMAIN Glob
    /\ \A uri \in DOMAIN Glob : IsSequence(Glob[uri])
    /\ IsSequence(Pickles) /\ \A i, j \in DOMAIN Pickles : Pickles[i] = Pickles[j] => i = j

-----------------------------------------------------------------------------
(* Tag expressions. *)

Meaning(text) ==
    UNION {{tags \in UNION {f.truth : f \in ToSet(text[i])} : \A f \in ToSet(text[i]) : tags \in f.truth} :
              i \in DOMAIN text}

Parenthesized(text) == <<<<[opens |-> TRUE, closes |-> TRUE, truth |-> Meaning(text)]>>>>

(* A text that starts and ends with a parenthesis is left as it is.        *)
\* Wrong variant: texts are joined as they are.
WrapTagExpression_Never(text) == text

WrapTagExpression(text) ==
    IF Head(Head(text)).opens /\ Last(Last(text)).closes THEN text ELSE Parenthesized(text)

(* "left and right", in which "and" binds closer than "or".                *)
And(left, right) == Front(left) \o <<Last(left) \o Head(right)>> \o Tail(right)

-----------------------------------------------------------------------------
(* Merging. *)

MergeTagExpressions(old, new) ==
    IF old = <<>> \/ new = <<>> THEN new ELSE And(WrapTagExpression(old), WrapTagExpression(new))

(* It goes by the key, wherever in the configuration that is.              *)
Customizer(key, old, new) ==
    IF key \in AdditiveArrays THEN old \o new
    ELSE IF key \in TagExpressions THEN MergeTagExpressions(old, new)
    ELSE new

Items(node) == IF node.is = "list" THEN node.items ELSE <<node.of>>

NodeCustomizer(key, old, new) ==
    IF key \in AdditiveArrays THEN List(Customizer(key, Items(old), Items(new)))
    ELSE IF key \in TagExpressions THEN Scalar(Customizer(key, old.of, new.of))
    ELSE MergeNodes(key, old, new)

(* Objects are merged in depth, and other arrays by index.                 *)
MergeValue(key, old, new) ==
    IF key \in Objects THEN MergeTrees(NodeCustomizer, old, new)
    ELSE IF key = "plugin" THEN MergeBy(Latter, old, new)
    ELSE Customizer(key, old, new)

MergeLayer(old, new) == MergeBy(MergeValue, old, new)

MergeConfigurations(source, configurations) ==
    LET merged[n \in 0 .. Len(configurations)] ==
            IF n = 0 THEN source ELSE MergeLayer(merged[n - 1], configurations[n])
    IN merged[Len(configurations)]

-----------------------------------------------------------------------------
(* The command line, and profiles written like one. *)

\* Wrong variant: an argument replaces those before it.
Collect_Last(memo, value) == <<value>>

Collect(memo, value) == Append(memo, value)

(* Arguments are put in parentheses, whatever they are in already.         *)
MergeTags(memo, value) ==
    IF memo = <<>> THEN Parenthesized(value) ELSE And(memo, Parenthesized(value))

MergeJson(memo, value) == MergeTrees(MergeNodes, memo, value)

ParseArgument(configuration, arg) ==
    LET memo == IF arg.option \in DOMAIN configuration THEN configuration[arg.option]
                ELSE IF arg.option \in Objects THEN Nothing ELSE <<>>
        value ==
            IF arg.option \in AdditiveArrays \cup {"plugin", "profile"} THEN Collect(memo, arg.value)
            ELSE IF arg.option \in TagExpressions THEN MergeTags(memo, arg.value)
            ELSE IF arg.option \in Objects THEN MergeJson(memo, arg.value)
            ELSE arg.value
    IN [option \in DOMAIN configuration \cup {arg.option} |->
            IF option = arg.option THEN value ELSE configuration[option]]

ParseArgv(args) ==
    LET upTo[n \in 0 .. Len(args)] == IF n = 0 THEN Nothing ELSE ParseArgument(upTo[n - 1], args[n])
        options == upTo[Len(args)]
        Only(keys) == [key \in DOMAIN options \cap keys |-> options[key]]
        coordinates == {"config", "profile", "i18nKeywords", "i18nLanguages"}
    IN [options |-> Only(coordinates), configuration |-> Only(DOMAIN options \ coordinates)]

(* A number is not negative, and keywords are of a language there is.      *)
ArgumentParses(arg) ==
    /\ arg.value # Malformed
    /\ arg.option \in Counts => arg.value >= 0
    /\ arg.option = "i18nKeywords" => arg.value \in DOMAIN Dialects

(* The schema of an object; an order is taken without its seed.            *)
CheckSchema(layer) ==
    /\ \A option \in DOMAIN layer \ Unchecked : layer[option] # Malformed
    /\ "language" \in DOMAIN layer => layer.language \in DOMAIN Dialects
    /\ "order" \in DOMAIN layer => layer.order \in {"defined", "random"}

(* Whether a profile or what has been provided can be parsed; a profile is *)
(* arguments, which the schema does not see, or a layer.                   *)
Parses(definition) ==
    IF "args" \in DOMAIN definition
    THEN \A i \in DOMAIN definition.args : ArgumentParses(definition.args[i])
    ELSE CheckSchema(definition.layer)

ParseConfiguration(definition) ==
    IF "args" \in DOMAIN definition THEN ParseArgv(definition.args).configuration
    ELSE definition.layer

-----------------------------------------------------------------------------
(* The configuration file: whether it can be loaded, what its default is   *)
(* ("absent", "static" or "function"), whether it is an ES module, whose   *)
(* exports cannot be added to, and the profiles in it.                     *)

LocateFile(files) ==
    LET existing == SelectSeq(DefaultFilenames, LAMBDA name : name \in DOMAIN files)
    IN IF existing = <<>> THEN None ELSE Head(existing)

NoDefinition == [layer |-> Nothing]

Definitions(content) ==
    CASE content.default = "function" -> MergeBy(Latter, [default |-> NoDefinition], content.returns)
      [] content.default = "absent" -> MergeBy(Latter, [default |-> NoDefinition], content.profiles)
      [] OTHER -> content.profiles

Requested(options) ==
    IF "profile" \in DOMAIN options THEN options.profile ELSE <<"default">>

FileLoads(content) ==
    /\ content.loads
    /\ content.default = "absent" => ~content.module
    /\ content.default = "function" => content.profiles = Nothing

ProfilesLoad(content, requested) ==
    \A i \in DOMAIN requested :
        /\ requested[i] \in DOMAIN Definitions(content)
        /\ Parses(Definitions(content)[requested[i]])

FromFile(content, requested) ==
    MergeConfigurations(Nothing,
        [i \in DOMAIN requested |-> ParseConfiguration(Definitions(content)[requested[i]])])

-----------------------------------------------------------------------------
(* Conversion. *)

Unparsable == [type |-> "?", target |-> "?"]

(* The last of the items for each target, and for stdout.                  *)
ConvertFormats(items) ==
    LET targets == {item.target : item \in ToSet(items)}
        For(target) == items[Max({i \in DOMAIN items : items[i].target = target})].type
    IN [stdout |-> IF "" \in targets THEN For("") ELSE "progress",
        files |-> [target \in targets \ {""} |-> For(target)]]

IsPublishing(configuration, env) == configuration.publish \/ env.enabled \/ env.token # None

MakePublishConfig(configuration, env) ==
    IF IsPublishing(configuration, env) THEN <<env.token>> ELSE <<>>

ISourcesCoordinates(configuration) ==
    [paths |-> configuration.paths, defaultDialect |-> configuration.language,
     names |-> ToSet(configuration.name), tagExpression |-> configuration.tags,
     order |-> configuration.order, shard |-> configuration.shard]

ISupportCodeCoordinates(configuration) ==
    [requireModules |-> configuration.requireModule, requirePaths |-> configuration.require,
     importPaths |-> configuration.import, loaders |-> configuration.loader]

(* Stack traces are filtered unless the whole of them is asked for.        *)
IRunOptionsRuntime(configuration) ==
    MergeBy(Latter, [filterStacktraces |-> ~configuration.backtrace],
            [option \in {"dryRun", "failFast", "parallel", "retry", "retryTagFilter", "strict",
                          "workerOptions", "worldParameters"} |-> configuration[option]])

IRunOptionsFormats(configuration, env) ==
    MergeBy(Latter, ConvertFormats(configuration.format),
            [publish |-> MakePublishConfig(configuration, env), options |-> configuration.formatOptions])

IRunOptionsPlugins(configuration) ==
    [specifiers |-> configuration.plugin, options |-> configuration.pluginOptions]

ConvertConfiguration(configuration, env) ==
    [sources |-> ISourcesCoordinates(configuration), support |-> ISupportCodeCoordinates(configuration),
     runtime |-> IRunOptionsRuntime(configuration), formats |-> IRunOptionsFormats(configuration, env),
     plugins |-> IRunOptionsPlugins(configuration)]

-----------------------------------------------------------------------------
(* What the run is made of. *)

(* Plugins that emit go last so that others have a chance to listen.       *)
InitializePlugins(specifiers) == <<"filter", "sharding">> \o specifiers \o <<"publish">>

(* An empty text filters nothing.                                          *)
TagFilter(text) == IF text = <<>> THEN {pickle.tags : pickle \in ToSet(Pickles)} ELSE Meaning(text)

(* The pickles of the files that the paths stand for, as filtered.  (They  *)
(* are sharded and ordered then: see TestPlan.)                            *)
SelectPickles(sources, paths) ==
    LET files == paths.sourcePaths
        ofFiles == FlattenSeq([i \in DOMAIN files |->
                       Keep(Pickles, {p \in DOMAIN Pickles : Pickles[p].uri = files[i]})])
    IN FilterPickles([lines |-> GetFeatureUriToLinesMapping(paths.unexpandedSourcePaths), names |-> sources.names,
                      tagExpression |-> TagFilter(sources.tagExpression)], ofFiles)

RetriesForPickle(pickle, options) ==
    IF MatchesAllTagExpressions(TagFilter(options.retryTagFilter), pickle)
    THEN options.retry ELSE 0

(* Support code is loaded in this order, and the first that cannot be      *)
(* required ends the run.                                                  *)
GetSupportCode(paths, support) ==
    [require |-> support.requireModules \o paths.require, loaders |-> support.loaders,
     import |-> paths.import]

TryRequire(path) == path \notin OnlyImported

SupportCodeLoads(code) == \A path \in ToSet(code.require) : TryRequire(path)

MakeAdapter(options) == IF options.parallel > 0 THEN "parallel" ELSE "serial"

-----------------------------------------------------------------------------
ConfigurationInit ==
    /\ input \in [argv : CommandLines, files : ConfigFiles, env : Environments]
    /\ stage = "argv"
    /\ parsed = [options |-> Nothing, configuration |-> Nothing]
    /\ file = None
    /\ profile = Nothing
    /\ original = DefaultConfiguration
    /\ run = Nothing
    /\ started = Nothing
    /\ exit = Nothing

Exits(printed, code, immediately) ==
    /\ stage' = "exited"
    /\ exit' = [printed |-> printed, code |-> code, immediately |-> immediately]
    /\ UNCHANGED <<parsed, file, profile, original, run, started>>

Reject == Exits("error", 1, TRUE)

(* The list of all languages comes before the keywords of one.             *)
GetLanguages == DOMAIN Dialects

GetKeywords(isoCode) == Dialects[isoCode]

ValidateNodeEngineVersion == input.env.nodeSatisfies

ParseArguments ==
    /\ stage = "argv"
    /\ LET argv == ParseArgv(input.argv)
           Asks(option) == option \in DOMAIN argv.options
           i18n == Asks("i18nLanguages") \/ Asks("i18nKeywords")
       IN IF ~ValidateNodeEngineVersion \/ ~Parses([args |-> input.argv])
          THEN Reject
          ELSE \/ /\ i18n
                  /\ Exits(IF Asks("i18nLanguages") THEN GetLanguages
                           ELSE GetKeywords(argv.options.i18nKeywords), 0, TRUE)
               \/ /\ ~i18n
                  /\ parsed' = argv
                  /\ stage' = "locate"
                  /\ UNCHANGED <<file, profile, original, run, started, exit>>

Locate ==
    /\ stage = "locate"
    /\ file' = IF "config" \in DOMAIN parsed.options THEN parsed.options.config
               ELSE LocateFile(input.files)
    /\ stage' = "load"
    /\ UNCHANGED <<parsed, profile, original, run, started, exit>>

(* Without a file profiles are not looked at.                              *)
LoadProfiles ==
    /\ stage = "load"
    /\ IF file = None
       THEN stage' = "merge" /\ UNCHANGED <<parsed, file, profile, original, run, started, exit>>
       ELSE IF /\ file \in DOMAIN input.files
               /\ FileLoads(input.files[file])
               /\ ProfilesLoad(input.files[file], Requested(parsed.options))
       THEN /\ profile' = FromFile(input.files[file], Requested(parsed.options))
            /\ stage' = "merge"
            /\ UNCHANGED <<parsed, file, original, run, started, exit>>
       ELSE Reject

\* Wrong variant: the file has the last word.
Merged_FileLast == MergeConfigurations(DefaultConfiguration, <<parsed.configuration, profile>>)

Merged == MergeConfigurations(DefaultConfiguration, <<profile, parsed.configuration>>)

Merge ==
    /\ stage = "merge"
    /\ IF Parses([layer |-> parsed.configuration])
       THEN /\ original' = Merged
            /\ stage' = "validate"
            /\ UNCHANGED <<parsed, file, profile, run, started, exit>>
       ELSE Reject

ValidateConfiguration ==
    /\ stage = "validate"
    /\ IF (original.retryTagFilter # <<>> /\ original.retry = 0) \/ original.shard = Malformed
       THEN Reject
       ELSE stage' = "convert" /\ UNCHANGED <<parsed, file, profile, original, run, started, exit>>

Convert ==
    /\ stage = "convert"
    /\ IF Unparsable \in ToSet(original.format) THEN Reject
       ELSE /\ run' = ConvertConfiguration(original, input.env)
            /\ stage' = "start"
            /\ UNCHANGED <<parsed, file, profile, original, started, exit>>

Start ==
    /\ stage = "start"
    /\ LET formatters == InitializeFormatters(run.formats, input.env.isTTY)
           paths == ResolvePaths(run.sources.paths, run.support.requirePaths, run.support.importPaths)
           selected == SelectPickles(run.sources, paths)
       IN IF /\ \A specifier \in ToSet(run.plugins.specifiers) : FindPlugin(specifier) = "plugin"
             /\ SupportCodeLoads(GetSupportCode(paths, run.support))
             /\ \A target \in DOMAIN formatters : Starts(formatters[target], target, run.formats.options)
          THEN /\ started' =
                    [plugins |-> InitializePlugins(run.plugins.specifiers), formatters |-> formatters,
                     support |-> GetSupportCode(paths, run.support),
                     pickles |-> selected,
                     retries |-> [i \in DOMAIN selected |-> RetriesForPickle(selected[i], run.runtime)],
                     adapter |-> MakeAdapter(run.runtime)]
               /\ stage' = "run"
               /\ UNCHANGED <<parsed, file, profile, original, run, exit>>
          ELSE Reject

(* The run succeeds or does not, or it throws, as it does when there is no *)
(* snippet builder for its runtime, unless parse errors end it before.     *)
Finish ==
    /\ stage = "run"
    /\ Reject \/ \E success \in BOOLEAN :
                    /\ success => SnippetsBuild(run.formats.options)
                    /\ Exits("report", IF success THEN 0 ELSE 1, original.forceExit)

Exited == stage = "exited" /\ UNCHANGED <<stage, parsed, file, profile, original, run, started, exit>>

ConfigurationNext ==
    /\ \/ ParseArguments \/ Locate \/ LoadProfiles \/ Merge
       \/ ValidateConfiguration \/ Convert \/ Start \/ Finish \/ Exited
    /\ UNCHANGED input

ConfigurationSpec == ConfigurationInit /\ [][ConfigurationNext]_configurationVars

-----------------------------------------------------------------------------
(* Properties, against what is given where, argument by argument. *)

(* What a profile or the command line gives of an option, in order.        *)
Gives(definition, key) ==
    IF "args" \in DOMAIN definition
    THEN FlattenSeq([i \in DOMAIN definition.args |->
             IF definition.args[i].option = key THEN <<definition.args[i].value>> ELSE <<>>])
    ELSE IF key \notin DOMAIN definition.layer THEN <<>>
    ELSE IF key \in AdditiveArrays \cup {"plugin"} THEN definition.layer[key]
    ELSE <<definition.layer[key]>>

Layers ==
    (IF file = None THEN <<>>
     ELSE [i \in DOMAIN Requested(parsed.options) |->
              Definitions(input.files[file])[Requested(parsed.options)[i]]])
    \o <<[args |-> input.argv]>>

Given(key) == FlattenSeq([i \in DOMAIN Layers |-> Gives(Layers[i], key)])

LastGiven(key) == IF Given(key) = <<>> THEN DefaultConfiguration[key] ELSE Last(Given(key))

LastFor(target) ==
    LET items == Given("format")
    IN items[Max({i \in DOMAIN items : items[i].target = target})].type

(* What is given at the paths of an object, one object after another.      *)
PathsGiven(option) == UNION {DOMAIN given : given \in ToSet(Given(option))}

Giving(option, path) == {i \in DOMAIN Given(option) : path \in DOMAIN Given(option)[i]}

LastGivenFor(option, path) == Given(option)[Max(Giving(option, path))][path]

(* No two of the objects disagree whether what a path leads through is an  *)
(* object or an array (of three that do, it depends on the order they are  *)
(* merged in what is left of the first).                                   *)
Agreed(option, path) ==
    \A above \in Above(path) : \A i, j \in Giving(option, above) :
        Given(option)[i][above] = Given(option)[j][above]

(* It is for the last to say: it gives more than an object that is merged  *)
(* with what there is, or there are such objects only, and the name is not *)
(* one of the options that are merged otherwise.                           *)
Decided(option, path) ==
    /\ Last(path) \notin AdditiveArrays \cup TagExpressions
    /\ Agreed(option, path)
    /\ \/ LastGivenFor(option, path) # Object
       \/ \A i \in Giving(option, path) : Given(option)[i][path] = Object

(* What is said of attachments under the names that count for a formatter. *)
AttachmentPaths(name) ==
    IF name = "pretty"
    THEN <<<<"pretty", "includeAttachments">>, <<"includeAttachments">>, <<"printAttachments">>>>
    ELSE <<<<"includeAttachments">>, <<"printAttachments">>>>

(* docs/configuration.md: of what cannot be repeated the command line      *)
(* takes precedence, then the last profile; so do the formatter of a       *)
(* target and, in docs/profiles.md, a world parameter, however deep it is  *)
(* in an object or array of parameters: those beside it stay.              *)
(* docs/deprecations.md: printAttachments, wherever it is given, is as     *)
(* good as includeAttachments where that is not given (other plugins than  *)
(* those that print to a terminal are given the options as they are).      *)
LaterLayerWins ==
    stage = "run" =>
        /\ \A option \in {"dryRun", "failFast", "parallel", "retry", "strict"} :
               run.runtime[option] = LastGiven(option)
        /\ run.runtime.filterStacktraces <=> ~LastGiven("backtrace")
        /\ started.adapter = "parallel" <=> LastGiven("parallel") # 0
        /\ run.sources.order = LastGiven("order") /\ run.sources.shard = LastGiven("shard")
        /\ run.sources.defaultDialect = LastGiven("language")
        /\ run.formats.publish # <<>> <=>
               LastGiven("publish") \/ input.env.enabled \/ input.env.token # None
        /\ \A target \in {item.target : item \in ToSet(Given("format"))} :
               LET last == LastFor(target)
               IN started.formatters[target].name =
                      IF last = "progress-bar" /\ (target # "" \/ ~input.env.isTTY)
                      THEN "progress" ELSE last
        /\ \A f \in Range(started.formatters) :
               f.implementation = "function" \/ f.name \in TerminalFormatters =>
                   LET paths == AttachmentPaths(f.name)
                       given == {n \in DOMAIN paths : paths[n] \in PathsGiven("formatOptions")}
                       first == paths[Min(given)]
                   IN /\ \A n \in DOMAIN paths : Agreed("formatOptions", paths[n])
                      /\ given # {} => Decided("formatOptions", first)
                      => f.options.includeAttachments =
                             IF given # {} THEN <<LastGivenFor("formatOptions", first)>>
                             ELSE IF f.implementation = "function" THEN <<Scalar(TRUE)>> ELSE <<>>
        /\ DOMAIN started.formatters = {item.target : item \in ToSet(Given("format"))} \cup {""}
        /\ \A object \in {<<"worldParameters", run.runtime.worldParameters>>,
                           <<"workerOptions", run.runtime.workerOptions>>,
                           <<"formatOptions", run.formats.options>>,
                           <<"pluginOptions", run.plugins.options>>} :
               /\ \A path \in DOMAIN object[2] \cup PathsGiven(object[1]) :
                      Agreed(object[1], path) =>
                          (path \in DOMAIN object[2] <=> path \in PathsGiven(object[1]))
               /\ \A path \in PathsGiven(object[1]) :
                      Decided(object[1], path) =>
                          object[2][path] = LastGivenFor(object[1], path)

(* A text that is taken for one in parentheses but is an "or" of two.      *)
OrOfParentheses(text) ==
    Len(text) > 1 /\ Head(Head(text)).opens /\ Last(Last(text)).closes

(* Given in a layer, an empty text lifts the filters of those before it.   *)
Effective(texts) ==
    LET empty == {i \in DOMAIN texts : texts[i] = <<>>}
    IN SubSeq(texts, IF empty = {} THEN 1 ELSE Max(empty) + 1, Len(texts))

(* docs/filtering.md: a pickle of the files that are run has to match all  *)
(* the tag expressions given anywhere, one of the names and, if lines of   *)
(* its file are given, one of these; it is retried if it matches all of    *)
(* the retry filters.  This is for texts none of which is an               *)
(* OrOfParentheses in a layer.                                             *)
FiltersNarrow ==
    LET Taken(key) ==
            \A i \in DOMAIN Layers : "layer" \in DOMAIN Layers[i] =>
                \A text \in ToSet(Gives(Layers[i], key)) : ~OrOfParentheses(text)
        Allowed(key, pickle) ==
            \A text \in ToSet(Effective(Given(key))) : pickle.tags \in Meaning(text)
        paths == ToSet(GetUnexpandedSourcePaths(Given("paths")))
        InFiles(pickle) == \E path \in paths : pickle.uri \in ToSet(Glob[path.uri])
        OnLines(pickle) ==
            LET lines == UNION {path.lines : path \in {p \in paths : p.uri = pickle.uri}}
            IN lines # {} => lines \cap pickle.lines # {}
    IN stage = "run" /\ Taken("tags") =>
           /\ ToSet(started.pickles) =
                  {pickle \in ToSet(Pickles) :
                      /\ InFiles(pickle) /\ OnLines(pickle) /\ Allowed("tags", pickle)
                      /\ Given("name") = <<>> \/ pickle.name \in ToSet(Given("name"))}
           /\ Cardinality(ToSet(started.pickles)) = Len(started.pickles)
           /\ Taken("retryTagFilter") =>
                  \A i \in DOMAIN started.pickles :
                      started.retries[i] =
                          IF Allowed("retryTagFilter", started.pickles[i]) THEN LastGiven("retry") ELSE 0

(* Plugins given in one layer are initialised in the order they are given  *)
(* in, after those that filter and before the one that emits (those of two *)
(* layers overwrite each other by index, against docs/configuration.md:    *)
(* "Where options are repeatable, they are appended/merged if provided     *)
(* more than once"); loaders and modules that support code needs are       *)
(* appended, the modules before all other code, and support code that is   *)
(* asked for is all there.  A package that is both a plugin and a          *)
(* formatter, or was compiled to another kind of module, can be given as   *)
(* either.                                                                 *)
RepeatedOptionsKept ==
    stage = "run" =>
        /\ Cardinality({i \in DOMAIN Layers : Gives(Layers[i], "plugin") # <<>>}) <= 1 =>
               started.plugins = <<"filter", "sharding">> \o Given("plugin") \o <<"publish">>
        /\ started.support.loaders = Given("loader")
        /\ IsPrefix(Given("requireModule"), started.support.require)
        /\ \A key \in {"plugin", "formatter"} :
               LET given == IF key = "plugin" THEN ToSet(run.plugins.specifiers)
                            ELSE {f.name : f \in Range(started.formatters)} \ (DOMAIN Builtin \cup DOMAIN Packages)
               IN \A specifier \in given \cap DOMAIN Exporting :
                      \E depth \in DOMAIN Exporting[specifier] :
                          Exporting[specifier][depth] \in {key, IF key = "formatter" THEN "function" ELSE key}
        /\ \A key \in {"require", "import"} : \A i \in DOMAIN Given(key) :
               ToSet(Glob[Given(key)[i]]) \subseteq ToSet(started.support[key])
=============================================================================
