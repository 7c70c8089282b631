-------------------------------- MODULE Reports --------------------------------
(***************************************************************************)
(* What formatters print when the run has finished, from the data the      *)
(* collector holds: the summary, the JSON report, the use of step          *)
(* definitions, snippets and the rerun file, and what the next run makes   *)
(* of a rerun file (src/src/formatter/).                                   *)
(***************************************************************************)
EXTENDS EventData, PickleSelection, Paths, GherkinDocuments, Definitions, StepArguments, Errors

CONSTANTS
    Documents,          \* the feature files
    Pickles,            \* what they are compiled to: each is a test case, by its position
    StepDefinitions,    \* the step definitions
    MaxShown,           \* how many uses of a step definition the usage table shows, 5
    Took,               \* how long each test step takes when it is executed
    Thrown,             \* what each throws when it fails
    PrintAttachments    \* formatOptions.printAttachments

VARIABLE output    \* what the formatters have printed, << >> before they do

vars == <<eventVars, output>>

ASSUME ReportsAssumption ==
    /\ Pickles = FlattenSeq([i \in DOMAIN Documents |-> PicklesOf(Documents[i])])
    /\ TestCases = DOMAIN Pickles
    /\ \A t \in TestCases :
           \A i \in DOMAIN TestStepsOf[t] :
                  /\ TestStepsOf[t][i].kind = "step" =>
                         TestStepsOf[t][i].definitions \subseteq StepDefinitions
                  /\ Took[t][i] \in Nat
                  /\ i \in DOMAIN Thrown[t]
    /\ IsFiniteSet(StepDefinitions)
    /\ MaxShown \in Nat \ {0}

(* getTestCaseAttempts, and those that no other attempt is to follow.      *)
GetTestCaseAttempts == DOMAIN data

LastAttempts == {id \in GetTestCaseAttempts : ~data[id].willBeRetried}

PickleOf(id) == Pickles[id[1]]

DocumentOf(t) == CHOOSE document \in ToSet(Documents) : document.uri = Pickles[t].uri

IsStep(testStep) == testStep.kind = "step"

PickleStepOf(t, i) == Pickles[t].steps[TestStepsOf[t][i].pickleStep]

(* The line that stands for a scenario in reports.                         *)
Line == [t \in TestCases |-> GetPickleLocation(DocumentOf(t), Pickles[t])]

(* A pickle can be selected by the line that stands for it, and no other   *)
(* of its feature file can.                                                *)
ASSUME PicklesAssumption ==
    /\ Pickles \in Seq(ToSet(Pickles))
    /\ \A t, u \in TestCases : Pickles[t].uri = Pickles[u].uri =>
           (Line[u] \in Pickles[t].lines <=> t = u)

(* The uri of a pickle is the path of its file, in which no character has  *)
(* a meaning for a glob.                                                   *)
ASSUME UrisAssumption ==
    \A t \in TestCases : Pickles[t].uri # "" /\ Glob[Pickles[t].uri] = <<Pickles[t].uri>>

(* Each step of a pickle is a test step, in their order and between the    *)
(* Before and the After hooks.                                             *)
ASSUME TestStepsAssumption ==
    \A t \in TestCases :
        LET Steps == {i \in DOMAIN TestStepsOf[t] : IsStep(TestStepsOf[t][i])}
        IN /\ Pickles[t].steps \in Seq(ToSet(Pickles[t].steps))
           /\ \A i \in Steps : TestStepsOf[t][i].pickleStep \in DOMAIN Pickles[t].steps
           /\ \A k \in DOMAIN Pickles[t].steps : \E i \in Steps : TestStepsOf[t][i].pickleStep = k
           /\ \A i, j \in Steps : i < j => TestStepsOf[t][i].pickleStep < TestStepsOf[t][j].pickleStep
           /\ \A i \in DOMAIN TestStepsOf[t], j \in Steps :
                  /\ TestStepsOf[t][i].kind = "before" => i < j
                  /\ TestStepsOf[t][i].kind = "after" => j < i

(* A step of a pickle has the id of the step of the feature file that it   *)
(* comes from first, and the type that the keywords up to it give it.      *)
ASSUME PickleStepsAssumption ==
    \A t \in TestCases :
        LET gherkinSteps ==
                [k \in DOMAIN Pickles[t].steps |-> GherkinStepOf(DocumentOf(t), Pickles[t].steps[k])]
        IN \A k \in DOMAIN Pickles[t].steps :
               LET step == Pickles[t].steps[k]
               IN /\ step.astNodeIds \in Seq(ToSet(step.astNodeIds)) \ {<<>>}
                  /\ Head(step.astNodeIds) \in DOMAIN GetGherkinStepMap(DocumentOf(t))
                  /\ gherkinSteps[k].keyword \in {"given", "when", "then", "and", "but", "*"}
                  /\ step.type = PickleStepType(gherkinSteps, k)
                  /\ step.text \in DOMAIN GenerateExpressions
                  /\ step.argument = <<>> \/ step.argument = <<step.argument[1]>>

(* The step of the feature file that a test step comes from.               *)
GherkinStep ==
    [t \in TestCases |-> [i \in {j \in DOMAIN TestStepsOf[t] : IsStep(TestStepsOf[t][j])} |->
        GherkinStepOf(DocumentOf(t), PickleStepOf(t, i))]]

(* What is told of the error of a test step, and shown of its argument.    *)
ErrorMessage == [t \in TestCases |-> [i \in DOMAIN TestStepsOf[t] |-> FormatError(Thrown[t][i])]]

ArgumentIn(t, i) ==
    IF IsStep(TestStepsOf[t][i]) THEN PickleStepOf(t, i).argument ELSE <<>>

ShownArgument ==
    [t \in TestCases |-> [i \in DOMAIN TestStepsOf[t] |-> FormatStepArgument(ArgumentIn(t, i))]]

-----------------------------------------------------------------------------
(* The summary. *)

\* Wrong variant: a failure is one although it is retried.
IsFailure_EvenRetried(attempt) == attempt.worst \in {"AMBIGUOUS", "UNDEFINED", "FAILED"}

IsFailure(attempt) ==
    \/ attempt.worst \in {"AMBIGUOUS", "UNDEFINED"}
    \/ attempt.worst = "FAILED" /\ ~attempt.willBeRetried

IsWarning(attempt) ==
    \/ attempt.worst = "PENDING"
    \/ attempt.worst = "FAILED" /\ attempt.willBeRetried

Failures == {id \in GetTestCaseAttempts : IsFailure(data[id])}

Warnings == {id \in GetTestCaseAttempts : IsWarning(data[id])} \ Failures

(* The test steps of attempts, without the hooks.                          *)
StepsIn(ids) ==
    UNION {{id} \X {i \in DOMAIN TestStepsOf[id[1]] : IsStep(TestStepsOf[id[1]][i])} : id \in ids}

(* How many scenarios, and how many of their steps, the summary counts     *)
(* with each status.                                                       *)
FormatSummary ==
    [scenarios |-> [s \in Status |-> Cardinality({id \in LastAttempts : data[id].worst = s})],
     steps |-> [s \in Status |-> Cardinality({step \in StepsIn(LastAttempts) :
                                                 data[step[1]].stepResults[step[2]] = s})]]

-----------------------------------------------------------------------------
(* The JSON report. *)

(* Hooks are told apart by whether a step has come before them.            *)
IsBeforeHook(t, i) == \A j \in 1 .. i : ~IsStep(TestStepsOf[t][j])

(* The data of an embedding are always in base64.                          *)
EmbeddingOf(attachment) ==
    [data |-> IF attachment.encoding = "IDENTITY" THEN Base64(attachment.body) ELSE attachment.body,
     mimeType |-> attachment.mediaType]

(* The fields of a record and more of them: @@ of TLC, of which the        *)
(* provers know nothing.                                                   *)
Extended(fields, more) ==
    [field \in DOMAIN fields \cup DOMAIN more |->
        IF field \in DOMAIN fields THEN fields[field] ELSE more[field]]

GetStepData(id, i) ==
    LET t == id[1]
        testStep == TestStepsOf[t][i]
        found == [status |-> data[id].stepResults[i],
                  match |-> IF IsStep(testStep) /\ Cardinality(testStep.definitions) = 1
                            THEN testStep.definitions ELSE {},
                  embeddings |-> [k \in DOMAIN data[id].stepAttachments[i] |->
                                     EmbeddingOf(data[id].stepAttachments[i][k])]]
        failed == data[id].stepResults[i] = "FAILED"
        told == Extended(found, [errorMessage |-> IF failed THEN <<ErrorMessage[t][i]>> ELSE <<>>])
    IN IF IsStep(testStep)
       THEN Extended(told, [keyword |-> GherkinStep[t][i].keyword, line |-> GherkinStep[t][i].line,
                            name |-> PickleStepOf(t, i).text,
                            arguments |-> FormatStepArgumentJson(PickleStepOf(t, i).argument, GherkinStep[t][i])])
       ELSE Extended(told, [keyword |-> IF IsBeforeHook(t, i) THEN "before" ELSE "after"])

(* The tags of the feature, the scenario and its examples have lines.      *)
GetScenarioTag(document, scenario, pickleTag) ==
    LET tags == ToSet(document.tags) \cup ToSet(scenario.tags)
                    \cup UNION {ToSet(examples.tags) : examples \in ToSet(scenario.examples)}
    IN [name |-> pickleTag.name, lines |-> {tag.line : tag \in {x \in tags : x.id = pickleTag.id}}]

FormatScenarioId(document, pickle) ==
    LET ruleOf == GetGherkinExampleRuleMap(document)
        scenario == Head(pickle.astNodeIds)
    IN <<document.name>> \o (IF scenario \in DOMAIN ruleOf THEN <<ruleOf[scenario].name>> ELSE <<>>)
           \o <<pickle.name>>

(* What is said of a scenario whatever has become of it.                   *)
ScenarioData ==
    [t \in TestCases |->
        LET scenario == GetGherkinScenarioMap(DocumentOf(t))[Head(Pickles[t].astNodeIds)]
        IN [id |-> FormatScenarioId(DocumentOf(t), Pickles[t]), line |-> Line[t],
            tags |-> {GetScenarioTag(DocumentOf(t), scenario, tag) : tag \in ToSet(Pickles[t].pickleTags)}]]

GetScenarioData(id) ==
    Extended([attempt |-> id, steps |-> [i \in DOMAIN TestStepsOf[id[1]] |-> GetStepData(id, i)]],
             ScenarioData[id[1]])

JsonReport ==
    LET last == LastAttempts
    IN [uri \in {PickleOf(id).uri : id \in last} |->
           {GetScenarioData(id) : id \in {x \in last : PickleOf(x).uri = uri}}]

-----------------------------------------------------------------------------
(* The use of step definitions. *)

UnexecutedStatuses == {"AMBIGUOUS", "SKIPPED", "UNDEFINED"}

(* The steps of each case that it alone matches.                           *)
StepsDefinedBy ==
    [d \in StepDefinitions |-> [t \in TestCases |->
        {i \in DOMAIN TestStepsOf[t] : IsStep(TestStepsOf[t][i]) /\ TestStepsOf[t][i].definitions = {d}}]]

UsesIn(ids, definition) ==
    UNION {{<<id, i>> : i \in StepsDefinedBy[definition][id[1]]} : id \in ids}

\* Wrong variant: attempts that were retried are left out.
Matches_LastAttempts(definition) == UsesIn(LastAttempts, definition)

(* Each attempt uses the one definition of each of its steps.              *)
Matches(definition) == UsesIn(GetTestCaseAttempts, definition)

(* What has no result yet has taken no time, but is not left out.          *)
MeasuredOf(matches) == {m \in matches : data[m[1]].stepResults[m[2]] \notin UnexecutedStatuses}

TimeOf(match) == Took[match[1][1]][match[2]]

DurationOf(match) ==
    IF data[match[1]].stepResults[match[2]] = "UNKNOWN" THEN 0 ELSE TimeOf(match)

(* Slower on average; what has not been measured is the fastest.           *)
Slower(use1, use2) ==
    /\ use1.measured # 0
    /\ \/ use2.measured = 0
       \/ use1.total * use2.measured > use2.total * use1.measured

UsageOf(definition) ==
    LET matches == Matches(definition)
        measured == MeasuredOf(matches)
    IN [definition |-> definition, matches |-> matches, measured |-> Cardinality(measured),
        total |-> MapThenSumSet(DurationOf, measured)]

(* The slower ones come first, those that are as slow in the order of the  *)
(* definitions.                                                            *)
GetUsage ==
    LET definitions == SetToSeq(StepDefinitions)
        usage == [i \in DOMAIN definitions |-> UsageOf(definitions[i])]
    IN SortBy(usage, [i \in DOMAIN usage |->
           Cardinality({j \in DOMAIN usage : Slower(usage[j], usage[i])})])

(* A row of the table: how long the definition takes, if it is used at     *)
(* all, its slowest uses (those that were not measured come last) and how  *)
(* many more there are.                                                    *)
UsageRow(use) ==
    LET measured == MeasuredOf(use.matches)
        time == [m \in use.matches |-> IF m \in measured THEN DurationOf(m) ELSE -1]
        Comes(m1, m2) ==
            \/ time[m1] > time[m2]
            \/ time[m1] = time[m2] /\ m1[1][1] < m2[1][1]
            \/ time[m1] = time[m2] /\ m1[1][1] = m2[1][1] /\ m1[1][2] < m2[1][2]
            \/ time[m1] = time[m2] /\ m1[1] = m2[1] /\ m1[2] < m2[2]
        number == Cardinality(use.matches)
    IN [duration |-> IF number = 0 THEN "UNUSED" ELSE IF measured # {} THEN "mean" ELSE "-",
        shown |-> {m \in use.matches : Cardinality({x \in use.matches : Comes(x, m)}) < MaxShown},
        more |-> IF number > MaxShown THEN number - MaxShown ELSE 0]

(* The JSON of it has all the uses, and the mean in whole seconds.         *)
LogUsageJson(usage) ==
    [i \in DOMAIN usage |->
        [definition |-> usage[i].definition, matches |-> usage[i].matches,
         seconds |-> IF usage[i].measured = 0 THEN <<>>
                     ELSE <<usage[i].total \div usage[i].measured>>]]

-----------------------------------------------------------------------------
(* Snippets. *)

(* What the keywords of the test steps mean, "none" for hooks.             *)
KeywordTypes ==
    [t \in TestCases |->
        LET type[i \in 0 .. Len(TestStepsOf[t])] ==
                IF i = 0 THEN "precondition"
                ELSE IF ~IsStep(TestStepsOf[t][i]) THEN "none"
                ELSE GetStepKeywordType(GherkinStep[t][i].keyword, type[i - 1])
        IN type]

(* A hook that no step comes before is looked for among the Before hooks.  *)
Parses(t) ==
    \A i \in DOMAIN TestStepsOf[t] : TestStepsOf[t][i].kind = "after" => ~IsBeforeHook(t, i)

(* What is told of a test step: a snippet if it is undefined.              *)
ParseStep(interface, id, i) ==
    [status |-> data[id].stepResults[i],
     attachments |-> data[id].stepAttachments[i],
     argument |-> ShownArgument[id[1]][i],
     error |-> ErrorMessage[id[1]][i],
     snippet |-> IF data[id].stepResults[i] # "UNDEFINED" THEN << >>
                 ELSE BuildSnippet(interface, KeywordTypes[id[1]][i], PickleStepOf(id[1], i))]

ParseTestCaseAttempt(interface, id) ==
    [i \in DOMAIN TestStepsOf[id[1]] |-> ParseStep(interface, id, i)]

SnippetsOf(interface, id) ==
    LET parsed == ParseTestCaseAttempt(interface, id)
    IN {[attempt |-> id, step |-> i, snippet |-> parsed[i].snippet] :
           i \in {j \in DOMAIN parsed : parsed[j].status = "UNDEFINED"}}

LogSnippets(interface) ==
    IF \E id \in GetTestCaseAttempts : ~Parses(id[1]) THEN "throws"
    ELSE UNION {SnippetsOf(interface, id) : id \in GetTestCaseAttempts}

-----------------------------------------------------------------------------
(* The issues of the summary, each with what its test steps have come to.  *)

Mark(status) ==
    CASE status \in {"AMBIGUOUS", "FAILED"} -> "cross"
      [] status = "PASSED" -> "tick"
      [] status \in {"PENDING", "UNDEFINED"} -> "?"
      [] status = "SKIPPED" -> "-"
      [] OTHER -> "undefined"

(* The runtime gives no message to an ambiguous step.                      *)
GetStepMessage(testStep) ==
    CASE testStep.status = "FAILED" -> "error"
      [] testStep.status = "UNDEFINED" -> "snippet"
      [] testStep.status = "PENDING" -> "pending"
      [] OTHER -> "none"

(* Of an attachment a plain text is printed, or else the name of its file. *)
FormatAttachment(attachment) ==
    LET isText == attachment.mediaType = MediaType("text/plain")
    IN [mediaType |-> attachment.mediaType, body |-> IF isText THEN <<attachment.body>> ELSE <<>>,
        fileName |-> IF isText THEN "" ELSE attachment.fileName]

FormatStep(testStep) ==
    [mark |-> Mark(testStep.status), argument |-> testStep.argument,
     attachments |-> IF PrintAttachments
                     THEN [k \in DOMAIN testStep.attachments |-> FormatAttachment(testStep.attachments[k])]
                     ELSE <<>>,
     message |-> GetStepMessage(testStep),
     error |-> IF testStep.status = "FAILED" THEN <<testStep.error>> ELSE <<>>]

(* The number of an attempt is told unless it is the only one.             *)
GetAttemptText(attempt, willBeRetried) ==
    IF attempt > 1 \/ willBeRetried THEN [number |-> attempt, retried |-> willBeRetried]
    ELSE [number |-> 0, retried |-> FALSE]

FormatIssue(interface, id) ==
    LET parsed == ParseTestCaseAttempt(interface, id)
    IN [scenario |-> PickleOf(id).name, uri |-> PickleOf(id).uri, line |-> Line[id[1]],
        attempt |-> GetAttemptText(id[2], data[id].willBeRetried),
        steps |-> [i \in DOMAIN parsed |-> FormatStep(parsed[i])]]

IssuesParse == \A id \in Failures \cup Warnings : Parses(id[1])

LogIssues(interface) ==
    IF ~IssuesParse THEN "throws"
    ELSE {FormatIssue(interface, id) : id \in Failures \cup Warnings}

(* The marks of the progress formatter, one for each result as it comes.   *)
Character(status) ==
    CASE status = "AMBIGUOUS" -> "A"
      [] status = "FAILED" -> "F"
      [] status = "PASSED" -> "."
      [] status = "PENDING" -> "P"
      [] status = "SKIPPED" -> "-"
      [] status = "UNDEFINED" -> "U"

(* The steps of attempts that a character stands for.                      *)
LogProgress(character) ==
    UNION {UNION {{<<t, n, i>> : i \in {j \in DOMAIN attempts[t][n].results :
                                          Character(attempts[t][n].results[j]) = character}} :
                  n \in DOMAIN attempts[t]} : t \in TestCases}

-----------------------------------------------------------------------------
(* The rerun file. *)

FailedAttempts == {id \in LastAttempts : data[id].worst # "PASSED"}

\* Wrong variant: always the line of the scenario, never that of the row.
GetFailureMap_Scenario ==
    [uri \in {PickleOf(id).uri : id \in FailedAttempts} |->
        {GetGherkinScenarioLocationMap(DocumentOf(id[1]))[Head(PickleOf(id).astNodeIds)] :
            id \in {x \in FailedAttempts : PickleOf(x).uri = uri}}]

GetFailureMap ==
    [uri \in {PickleOf(id).uri : id \in FailedAttempts} |->
        {Line[id[1]] : id \in {x \in FailedAttempts : PickleOf(x).uri = uri}}]

(* One line for each feature; a file with nothing in it is one empty line. *)
RerunFile ==
    LET failureMap == GetFailureMap
    IN SetToSeq(IF failureMap = << >> THEN {[uri |-> "", lines |-> {}]}
                ELSE {[uri |-> uri, lines |-> failureMap[uri]] : uri \in DOMAIN failureMap})

(* The pickles of a run that is given the rerun file and nothing else.     *)
Rerun(rerunFile) ==
    LET paths == GetUnexpandedSourcePaths(<<[rerun |-> rerunFile]>>)
        filter == [lines |-> GetFeatureUriToLinesMapping(paths), names |-> {},
                   tagExpression |-> {pickle.tags : pickle \in ToSet(Pickles)}]
    IN ToSet(FilterPickles(filter,
           Keep(Pickles, {t \in TestCases : Pickles[t].uri \in ToSet(ExpandSourcePaths(paths))})))

-----------------------------------------------------------------------------
(* testRunFinished is emitted as soon as the run has returned, in whichever *)
(* way, and listeners hear it at once.                                     *)
OnTestRunFinished ==
    /\ RunReturned
    /\ output' = [summary |-> FormatSummary, issues |-> LogIssues("synchronous"),
                  json |-> JsonReport, usage |-> GetUsage,
                  snippets |-> [interface \in SnippetInterfaces |-> LogSnippets(interface)],
                  rerun |-> RerunFile]

Printed == output # << >>

Next ==
    \/ Emits /\ UNCHANGED output
    \/ OnTestRunFinished
    \/ Printed /\ UNCHANGED vars

Init == EventDataInit /\ output = << >>

Spec == Init /\ [][Next]_vars

-----------------------------------------------------------------------------
(* Properties, against what was emitted. *)

Started == {t \in TestCases : attempts[t] # <<>>}

(* A case whose worker was lost between two attempts.                      *)
LeftBetween(t) == Busy(t) /\ ~Open(t)

HasTestStep(t) == TestStepsOf[t] # <<>>

(* The calls of a test step whose attachments have come, as they came.     *)
Came(t, n, i) ==
    LET came == attempts[t][n].attached[i]
    IN [k \in DOMAIN came |-> Attaching[<<t, n, i>>][came[k]]]

(* Something attached as plain text, and a text that is.                   *)
MeansPlainText(call) ==
    /\ call.method = "attach"
    /\ call.given.as # "nothing" => call.given.mediaType.type \in {"", "text/plain"}

IsPlainText(call) ==
    /\ call.method = "attach" /\ call.data.kind = "text"
    /\ call.given.as # "nothing" => call.given.mediaType = MediaType("text/plain")

(* docs/support_files/attachments.md: the bytes a call gives, encoded in   *)
(* base64 if they are not, and what they are, plain text unless it says so.*)
Lines(urls) ==
    IF urls = <<>> THEN <<>>
    ELSE Head(urls) \o FlattenSeq([i \in 1 .. Len(urls) - 1 |-> <<"\n">> \o urls[i + 1]])

Meant(call) ==
    CASE call.method = "log" -> [data |-> Base64(call.text), mimeType |-> MediaType("text/x.cucumber.log+plain")]
      [] call.method = "link" ->
             [data |-> Base64(Plain(Lines(call.urls))), mimeType |-> MediaType("text/uri-list")]
      [] call.method = "attach" ->
             [data |-> CASE call.data.kind = "text" ->
                                IF call.data.text.encoded = 1 THEN call.data.text ELSE Base64(call.data.text)
                         [] call.data.kind = "buffer" -> Base64(call.data.buffer)
                         [] call.data.kind = "stream" -> Base64(Plain(FlattenSeq(call.data.chunks))),
              mimeType |-> IF call.given.as = "nothing" \/ call.given.mediaType = Unspecified
                           THEN MediaType("text/plain")
                           ELSE MediaType(call.given.mediaType.type)]

(* What is given in base64 says so, and only that and only text.           *)
Declares(call) ==
    LET isEncoded == call.data.kind = "text" /\ call.data.text.encoded = 1
    IN IF call.given.as = "nothing" THEN ~isEncoded
       ELSE call.given.mediaType = [base64 |-> isEncoded, type |-> call.given.mediaType.type]

ASSUME CallsAssumption ==
    \A a \in DOMAIN Attaching : \A call \in ToSet(Attaching[a]) : call.method = "attach" => Declares(call)

(* The scenarios of the summary that a reader takes for the reason of a    *)
(* failed run.                                                             *)
Blamed ==
    {id[1] : id \in Failures \cup
        (IF Strict THEN {x \in Warnings : data[x].worst = "PENDING"} ELSE {})}

(* Unless nothing was executed, the summary blames exactly the scenarios   *)
(* that failed the run, whatever was retried.                              *)
BlamesWhatFailed == ~DryRun => Blamed = {t \in TestCases : reported[t] = "failed"}

(* The total that is printed over the counts.                              *)
Total(counts) ==
    counts["FAILED"] + counts["AMBIGUOUS"] + counts["UNDEFINED"] + counts["PENDING"]
        + counts["SKIPPED"] + counts["PASSED"] + counts["UNKNOWN"]

(* A run that was not aborted counts each scenario it has started, and each *)
(* of its steps, once, and none as FAILED if it succeeded.                 *)
CountsEachOnce ==
    verdict \in {"success", "failure"} =>
        LET counts == output.summary
        IN /\ Total(counts.scenarios) = Cardinality(Started)
           /\ Total(counts.steps) = Cardinality(UNION {{t} \X DOMAIN Pickles[t].steps : t \in Started})
           /\ verdict = "success" => counts.scenarios["FAILED"] = 0 /\ counts.steps["FAILED"] = 0

(* The progress of a run that succeeds shows what fails a run only of      *)
(* attempts that were retried.                                             *)
ProgressAgrees ==
    verdict = "success" /\ ~DryRun =>
        \A character \in {"A", "U", "F"} \cup (IF Strict THEN {"P"} ELSE {}) :
            \A mark \in LogProgress(character) : attempts[mark[1]][mark[2]].state = "retried"

(* The steps of an attempt in which something went wrong, and the attempts *)
(* that have one.                                                          *)
Troubles(attempt) ==
    {i \in DOMAIN attempt.results : attempt.results[i] \notin {"PASSED", "SKIPPED"}}

Troubled ==
    UNION {{<<t, n>> : n \in {m \in DOMAIN attempts[t] :
               attempts[t][m].state # "open" /\ Troubles(attempts[t][m]) # {}}} : t \in TestCases}

(* An issue is that of an attempt.                                         *)
Shows(issue, t, n) ==
    /\ issue.uri = Pickles[t].uri /\ issue.line \in Pickles[t].lines
    /\ issue.attempt = (IF Len(attempts[t]) = 1 /\ attempts[t][1].state = "finished"
                        THEN [number |-> 0, retried |-> FALSE]
                        ELSE [number |-> n, retried |-> attempts[t][n].state = "retried"])
    /\ {i \in DOMAIN issue.steps : issue.steps[i].mark \in {"cross", "?"}} = Troubles(attempts[t][n])
    /\ \A i \in DOMAIN issue.steps :
           LET shown == issue.steps[i].attachments
               came == Came(t, n, i)
           IN /\ Len(shown) = IF PrintAttachments THEN Len(came) ELSE 0
              /\ \A k \in DOMAIN shown :
                     /\ IsPlainText(came[k]) => shown[k].body = <<came[k].data.text>>
                     /\ shown[k].body # <<>> => MeansPlainText(came[k])

(* The issues of the summary are the attempts in which something went      *)
(* wrong, each at its line, with the number of the attempt if there was    *)
(* another, the steps it happened in and the texts they attached - unless  *)
(* a scenario without a step has failed in its After hook, of which the    *)
(* formatter dies.                                                         *)
IssuesShowTroubles ==
    LET issues == output.issues
    IN IF \E id \in Troubled : Pickles[id[1]].steps = <<>> /\
              \E i \in DOMAIN TestStepsOf[id[1]] : TestStepsOf[id[1]][i].kind = "after"
       THEN issues = "throws"
       ELSE /\ Cardinality(issues) = Cardinality(Troubled)
            /\ \A id \in Troubled : \E issue \in issues : Shows(issue, id[1], id[2])

(* What the summary and the progress say agrees with what happened and     *)
(* with the verdict of the run.                                            *)
SummaryMatchesVerdict ==
    Printed => BlamesWhatFailed /\ CountsEachOnce /\ ProgressAgrees /\ IssuesShowTroubles

(* The JSON report has each scenario that was started and not left between *)
(* two attempts once, under its feature, with what each test step of its   *)
(* last attempt has come to (UNKNOWN if the run was aborted before) and    *)
(* has attached, in the words that are at its line of the feature file,    *)
(* and names the hooks of a scenario that has a step for what they are.    *)
ReportTellsWhatHappened ==
    Printed =>
        LET report == output.json
            scenarios == UNION {report[uri] : uri \in DOMAIN report}
        IN \A t \in TestCases :
            LET told == {s \in scenarios : s.attempt[1] = t}
                results == Current(t).results
            IN IF t \notin Started \/ LeftBetween(t) THEN told = {}
               ELSE \E s \in told :
                   /\ told = {s} /\ s \in report[Pickles[t].uri]
                   /\ \A i \in DOMAIN TestStepsOf[t] :
                          /\ s.steps[i].status =
                                 IF i \in DOMAIN results THEN results[i] ELSE "UNKNOWN"
                          /\ s.steps[i].embeddings = [k \in DOMAIN Came(t, Len(attempts[t]), i) |->
                                                         Meant(Came(t, Len(attempts[t]), i)[k])]
                          /\ Pickles[t].steps # <<>> /\ ~IsStep(TestStepsOf[t][i]) =>
                                 s.steps[i].keyword = TestStepsOf[t][i].kind
                          /\ IsStep(TestStepsOf[t][i]) =>
                                 \E container \in Containers(DocumentOf(t)) :
                                     \E step \in ToSet(container.steps) :
                                         /\ step.line = s.steps[i].line
                                         /\ step.keyword = s.steps[i].keyword
                                         /\ step.id \in ToSet(PickleStepOf(t, i).astNodeIds)

(* A message has told of what was thrown.                                  *)
Tells(message, thrown) ==
    LET errors == [k \in DOMAIN message.told |-> message.told[k].error]
        cause == IF Last(errors) \in ThrownErrors THEN CauseOf[Last(errors)] ELSE NoCause
        Stack(k) == message.told[k].stack
        Frames(k) == IF errors[k] \in ThrownErrors THEN FramesOf[errors[k]] ELSE <<>>
        OutsideCucumber(frames) == {j \in DOMAIN frames : ~\E i \in 1 .. j : IsFrameInCucumber(frames[i])}
    IN /\ Head(errors) = thrown
       /\ \A k \in 1 .. Len(errors) - 1 : CauseOf[errors[k]] = errors[k + 1]
       /\ Cardinality(ToSet(errors)) = Len(errors)
       /\ Len(errors) <= MaxCauseDepth + 1
       /\ message.ends = "whole" <=> cause = NoCause
       /\ message.ends = "circular" => cause \in ToSet(errors)
       /\ message.ends = "truncated" => Len(errors) = MaxCauseDepth + 1
       /\ \A k \in DOMAIN errors :
              /\ IsPrefix(Stack(k), Frames(k)) /\ (Frames(k) # <<>> => Stack(k) # <<>>)
              /\ OutsideCucumber(Frames(k)) \subseteq DOMAIN Stack(k)
              /\ FilterStackTraces /\ (\E j \in OutsideCucumber(Frames(k)) : Frames(k)[j].file = "user") =>
                     DOMAIN Stack(k) = OutsideCucumber(Frames(k))

(* Wherever a step or a hook of a scenario is reported as FAILED, and only *)
(* there, the JSON report and the issues tell what it threw, then each     *)
(* cause in turn and none twice, however long or circular their chain, and *)
(* say so if that is not the whole of it.  No filter takes the frames of   *)
(* the user that lead to the error from its stack, nor leaves it empty.    *)
ErrorsAreTold ==
    Printed =>
        LET report == output.json
            issues == output.issues
            Told(t, i, failed, message) ==
                IF failed THEN Len(message) = 1 /\ Tells(message[1], Thrown[t][i]) ELSE message = <<>>
        IN /\ \A s \in UNION {report[uri] : uri \in DOMAIN report} : \A i \in DOMAIN s.steps :
                  Told(s.attempt[1], i, s.steps[i].status = "FAILED", s.steps[i].errorMessage)
           /\ IssuesParse => \A issue \in issues : \A t \in TestCases :
                  Pickles[t].uri = issue.uri /\ Line[t] = issue.line =>
                      \A i \in DOMAIN issue.steps :
                          Told(t, i, issue.steps[i].message = "error", issue.steps[i].error)

(* The tables of the suite, and their cells as they are printed.           *)
TablesOf(t, i) == {argument \in ToSet(ArgumentIn(t, i)) : argument.kind = "dataTable"}

Tables == UNION {UNION {TablesOf(t, i) : i \in DOMAIN TestStepsOf[t]} : t \in TestCases}

(* A table has rows, which have cells, each as many as the first one.      *)
ASSUME TablesAssumption ==
    \A table \in Tables :
        /\ table = [kind |-> "dataTable", rows |-> table.rows]
        /\ table.rows \in Seq(ToSet(table.rows)) \ {<<>>}
        /\ \A row \in ToSet(table.rows) :
               /\ row \in Seq(ToSet(row)) \ {<<>>}
               /\ Len(row) = Len(Head(table.rows))
               /\ \A cell \in ToSet(row) : cell \in Seq(ToSet(cell))

PrintedCell ==
    [cell \in UNION {UNION {ToSet(row) : row \in ToSet(table.rows)} : table \in Tables} |->
        EscapeCell(cell)]

HasTwoColumns(table) == \A row \in ToSet(table.rows) : Len(row) = 2

(* What a step function reads off a table, in each of the ways there are.  *)
StepsReadTables ==
    \A table \in Tables :
        LET keys == Head(table.rows)
        IN /\ Transpose(Transpose(table)) = table
           /\ RowsHash(table) =
                  IF HasTwoColumns(table) THEN <<Head(Hashes(Transpose(table)))>> ELSE <<>>
           /\ \A j \in DOMAIN DataRows(table) : \A k \in DOMAIN keys :
                  Hashes(table)[j][keys[k]] = DataRows(table)[j][k]
                      \/ \E later \in k + 1 .. Len(keys) : keys[later] = keys[k]

(* docs/support_files/data_table_interface.md: the rows a step function is *)
(* given, and their hashes - by their first row, or as pairs if all have   *)
(* two columns - are those of the feature file with its examples filled in.*)
(* The JSON report tells the same rows, and an issue prints no two cells   *)
(* of the suite alike.                                                     *)
ArgumentsComeThrough ==
    Printed =>
        LET report == output.json
            issues == output.issues
        IN /\ StepsReadTables
           /\ \A s \in UNION {report[uri] : uri \in DOMAIN report} :
                  \A i \in DOMAIN s.steps : \A table \in TablesOf(s.attempt[1], i) :
                      s.steps[i].arguments = <<[rows |-> table.rows]>>
           /\ IssuesParse => \A issue \in issues : \A t \in TestCases :
                  Pickles[t].uri = issue.uri /\ Line[t] = issue.line =>
                      \A i \in DOMAIN issue.steps : \A table \in TablesOf(t, i) :
                          LET printed == issue.steps[i].argument[1]
                          IN \A j \in DOMAIN table.rows : \A k \in DOMAIN table.rows[j] :
                                 /\ Newline \notin ToSet(printed[j][k])
                                 /\ \A cell \in DOMAIN PrintedCell :
                                        printed[j][k] = PrintedCell[cell] => cell = table.rows[j][k]

(* "The slowest step definitions (with duration) are listed first": each   *)
(* is listed, with every step it alone has matched in an attempt that was  *)
(* started, retried or not, and the mean of those that were executed or,   *)
(* after an abort, were to be.  A definition is shown as UNUSED if nothing *)
(* has matched it, and the uses the table leaves out are its fastest.      *)
UsesAreCounted ==
    Printed =>
        LET usage == output.usage
            ResultOf(use) ==
                LET results == attempts[use[1][1]][use[1][2]].results
                IN IF use[2] \in DOMAIN results THEN results[use[2]] ELSE "UNKNOWN"
        IN /\ Len(usage) = Cardinality(StepDefinitions)
           /\ {entry.definition : entry \in ToSet(usage)} = StepDefinitions
           /\ \A entry \in ToSet(usage) :
                  LET row == UsageRow(entry)
                      uses == UNION {UNION {{<<<<t, n>>, i>> : i \in StepsDefinedBy[entry.definition][t]} :
                                            n \in DOMAIN attempts[t]} : t \in TestCases}
                      executed == {use \in uses : ResultOf(use) \in {"PASSED", "FAILED", "PENDING"}}
                      toBe == {use \in uses : ResultOf(use) = "UNKNOWN"}
                  IN /\ entry.matches = uses
                     /\ entry.measured = Cardinality(executed \cup toBe)
                     /\ entry.total = MapThenSumSet(TimeOf, executed)
                     /\ row.duration = "UNUSED" <=> uses = {}
                     /\ Cardinality(row.shown) + row.more = Cardinality(uses)
                     /\ row.more > 0 => Cardinality(row.shown) = MaxShown
                     /\ \A hidden \in executed \ row.shown : \A use \in row.shown :
                            /\ use \in executed \cup toBe
                            /\ TimeOf(hidden) <= IF use \in executed THEN TimeOf(use) ELSE 0
           /\ LET json == LogUsageJson(usage)
              IN \A i, j \in DOMAIN json : i < j /\ json[j].seconds # <<>> =>
                      json[i].seconds # <<>> /\ json[i].seconds[1] >= json[j].seconds[1]
           /\ \A i, j \in DOMAIN usage : i < j =>
                  /\ usage[i].total * usage[j].measured >= usage[j].total * usage[i].measured

(* docs/snippets.md: the snippets formatter prints the function for every  *)
(* undefined step, and no other, of every attempt - unless a scenario      *)
(* without a step has an After hook.  Of whichever interface it is, the    *)
(* snippet is for what the last given, when or then of the scenario up to  *)
(* there says the step is, offers what the runtime has suggested for it,   *)
(* and once it is pasted the step is neither undefined nor refused for the *)
(* parameters of its function, but PENDING.                                *)
SnippetsFit ==
    Printed =>
        LET Keyword(t, i) == GherkinStep[t][i].keyword
            Conjunction(t, i) == Keyword(t, i) \in {"and", "but"}
            Says(t, i) ==
                LET said == {j \in 1 .. i : IsStep(TestStepsOf[t][j]) /\ ~Conjunction(t, j)}
                IN IF said = {} THEN "Given"
                   ELSE CASE Keyword(t, Max(said)) = "when" -> "When"
                          [] Keyword(t, Max(said)) = "then" -> "Then"
                          [] OTHER -> "Given"
            Undefined(t, n) == {i \in DOMAIN attempts[t][n].results : attempts[t][n].results[i] = "UNDEFINED"}
        IN \A interface \in SnippetInterfaces :
            LET logged == output.snippets[interface]
            IN IF \E t \in Started : Pickles[t].steps = <<>> /\ \E i \in DOMAIN TestStepsOf[t] :
                                         TestStepsOf[t][i].kind = "after"
               THEN logged = "throws"
               ELSE /\ {<<l.attempt, l.step>> : l \in logged} =
                           UNION {UNION {{<<t, n>>} \X Undefined(t, n) : n \in DOMAIN attempts[t]} :
                                  t \in TestCases}
                    /\ \A l \in logged :
                           LET pickleStep == PickleStepOf(l.attempt[1], l.step)
                               choices == l.snippet.choices
                               suggested == MakeSuggestion(interface, pickleStep)
                           IN /\ \A choice \in ToSet(choices) :
                                     choice.functionName = Says(l.attempt[1], l.step)
                              /\ PastedStatus(l.snippet, pickleStep) = "PENDING"
                              /\ Len(choices) = Len(suggested)
                              /\ \A i \in DOMAIN choices :
                                     /\ PastedStatus(suggested[i], pickleStep) = "PENDING"
                                     /\ [choices[i] EXCEPT !.live = TRUE] = suggested[i].choices[1]

(* docs/rerun.md: running the rerun file runs just what has not passed -   *)
(* of the scenarios that were started and have test steps: one whose last  *)
(* attempt ended so, or was still open when its worker was lost.  Not told *)
(* of is one lost after an attempt that is to be retried and before the    *)
(* next: the report takes that attempt for a warning, and it is not rerun. *)
RerunRoundTrip ==
    Printed =>
        LET rerun == Rerun(output.rerun)
        IN \A t \in TestCases : HasTestStep(t) =>
            (Pickles[t] \in rerun <=>
                /\ t \in Started
                /\ Open(t) \/ (~Busy(t) /\ RunnerStatus(Current(t).results) # "PASSED"))
=============================================================================
