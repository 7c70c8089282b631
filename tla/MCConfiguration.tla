---------------------------- MODULE MCConfiguration ----------------------------
(***************************************************************************)
(* An instance of Configuration for TLC: three features with four pickles, *)
(* a file of two profiles that may be layers or arguments, and command     *)
(* lines that give, repeat and lift what these have.                       *)
(***************************************************************************)
EXTENDS Configuration

MCPickles ==
    <<[uri |-> "f1", lines |-> {3}, name |-> "x", tags |-> {"a"}],
      [uri |-> "f1", lines |-> {7}, name |-> "y", tags |-> {"a", "b"}],
      [uri |-> "f2", lines |-> {3}, name |-> "x", tags |-> {"b"}],
      [uri |-> "f3", lines |-> {3}, name |-> "y", tags |-> {"a", "b", "c"}]>>

MCGlob ==
    [uri \in {"f1", "f2", "f3", "all", "features", "lib", "support"} |->
        CASE uri = "all" -> <<"f1", "f2", "f3">>
          [] uri = "features" -> <<"f1", "f2">>
          [] uri = "support" -> <<"s1", "s2">>
          [] uri = "lib" -> <<"s2">>
          [] OTHER -> <<uri>>]

MCDirectoryOf == [f \in {"f1", "f2", "f3"} |-> "support"]

Whole(uri) == [uri |-> uri, lines |-> {}]

MCDefaultPaths == <<Whole("features")>>

Factor(opens, closes, truth) == <<<<[opens |-> opens, closes |-> closes, truth |-> truth]>>>>

Tag(t) == Factor(FALSE, FALSE, {tags \in SUBSET {"a", "b", "c"} : t \in tags})

(* "not (t)". *)
Not(t) == Factor(FALSE, TRUE, {tags \in SUBSET {"a", "b", "c"} : t \notin tags})

Or(left, right) == left \o right

(* Two plugins, one of them compiled twice; a package that is a plugin, a  *)
(* class and, by its default, a formatter; and one with too many defaults. *)
MCExporting ==
    ("p" :> <<"object", "plugin">>) @@ ("q" :> <<"object", "object", "plugin">>)
    @@ ("r" :> <<"plugin", "object", "formatter">>)
    @@ ("class" :> <<"object", "object", "function">>)
    @@ ("deep" :> <<"object", "object", "object", "plugin">>)

Item(type, target) == [type |-> type, target |-> target]

Leaf(key, v) == <<key>> :> Scalar(v)

Within(key, tree) ==
    [path \in {<<key>>} \cup {<<key>> \o p : p \in DOMAIN tree} |->
        IF path = <<key>> THEN Object ELSE tree[Tail(path)]]

(* An array of objects. *)
ArrayOf(key, trees) ==
    [path \in {<<key>>} \cup UNION {{<<key, i>> \o p : p \in {<<>>} \cup DOMAIN trees[i]} : i \in DOMAIN trees} |->
        IF path = <<key>> THEN Array ELSE IF Len(path) = 2 THEN Object
        ELSE trees[path[2]][SubSeq(path, 3, Len(path))]]

Device(type, more) == Within("device", Leaf("type", type) @@ more)

(* What a profile may give. *)
MCLayers ==
    {[tags |-> Or(Tag("a"), Tag("c"))],
     [tags |-> Or(Parenthesized(Tag("a")), Parenthesized(Tag("c")))],
     [tags |-> Or(Parenthesized(Tag("a")), Not("c"))],
     [tags |-> <<>>, retry |-> 1, retryTagFilter |-> Tag("b")],
     [paths |-> <<Whole("all"), [uri |-> "f1", lines |-> {3}]>>, name |-> <<"x">>],
     [format |-> <<Item("progress-bar", ""), Item("html", "out"), Item("json", "log")>>,
      retry |-> 2, publish |-> TRUE, parallel |-> 2, forceExit |-> TRUE,
      formatOptions |-> Within("theme", Leaf("tag", "t") @@ Leaf("step", "s"))
                            @@ Leaf("printAttachments", FALSE)
                            @@ Within("html", Leaf("externalAttachments", TRUE))],
     [plugin |-> <<"p", "q">>, require |-> <<"lib">>, requireModule |-> <<"ts">>, loader |-> <<"esm">>,
      order |-> "random", language |-> "fr",
      workerOptions |-> Within("resourceLimits", Leaf("stackSizeMb", 4)),
      worldParameters |-> Device("desktop", Leaf("width", 1280))
                              @@ ArrayOf("users", "0" :> Leaf("role", "admin") @@ "1" :> Leaf("role", "guest"))
                              @@ Leaf("name", "n")],
     [workerOptions |-> Within("resourceLimits", Leaf("codeRangeSizeMb", 8) @@ Leaf("stackSizeMb", 2)),
      worldParameters |-> Leaf("device", "none") @@ (<<"name">> :> List(<<"k">>))],
     [order |-> "reverse"],
     [retryTagFilter |-> Malformed]}

MCDefinitions ==
    {[layer |-> layer] : layer \in MCLayers} \cup
    {[args |-> <<[option |-> "tags", value |-> Or(Tag("a"), Tag("b"))],
                 [option |-> "tags", value |-> Tag("c")],
                 [option |-> "order", value |-> "reverse"], [option |-> "language", value |-> "xx"],
                 [option |-> "profile", value |-> "ci"]>>],
     [args |-> <<[option |-> "format", value |-> Item("html", "")],
                 [option |-> "format", value |-> Item("progress-bar", "out")],
                 [option |-> "name", value |-> "y"]>>]}

Content(loads, default, module, profiles, returns) ==
    [loads |-> loads, default |-> default, module |-> module,
     profiles |-> profiles, returns |-> returns]

MCConfigFiles ==
    {Nothing} \cup
    {"cucumber.mjs" :> Content(TRUE, "static", TRUE, "default" :> d @@ "ci" :> c, Nothing) :
        d, c \in MCDefinitions} \cup
    {"cucumber.js" :> Content(TRUE, "function", FALSE, Nothing, "ci" :> c)
        @@ "cucumber.yaml" :> Content(FALSE, "static", FALSE, Nothing, Nothing) : c \in MCDefinitions} \cup
    {"cucumber.js" :> Content(TRUE, "function", FALSE, "ci" :> c, Nothing) : c \in MCDefinitions} \cup
    {"cucumber.mjs" :> Content(TRUE, "absent", module, "ci" :> c, Nothing) :
        module \in BOOLEAN, c \in MCDefinitions}

Profiles ==
    {<<>>} \cup
    {<<[option |-> "profile", value |-> "ci"]>>,
     <<[option |-> "profile", value |-> "default"], [option |-> "profile", value |-> "ci"]>>,
     <<[option |-> "profile", value |-> "other"]>>,
     <<[option |-> "config", value |-> "cucumber.yaml"]>>}

Arguments ==
    {<<>>,
     <<[option |-> "tags", value |-> Or(Parenthesized(Tag("b")), Parenthesized(Tag("c")))],
       [option |-> "retryTagFilter", value |-> Or(Tag("a"), Tag("b"))]>>,
     <<[option |-> "paths", value |-> [uri |-> "f1", lines |-> {7}]],
       [option |-> "paths", value |-> [rerun |-> <<[uri |-> "f2", lines |-> {3}], Whole("")>>]],
       [option |-> "retry", value |-> 3]>>,
     <<[option |-> "format", value |-> Item("json", "")],
       [option |-> "format", value |-> Item("progress-bar", "log")],
       [option |-> "publish", value |-> TRUE]>>,
     <<[option |-> "paths", value |-> [rerun |-> <<Whole("")>>]]>>,
     <<[option |-> "parallel", value |-> 0], [option |-> "strict", value |-> FALSE],
       [option |-> "loader", value |-> "tsx"], [option |-> "order", value |-> "random"],
       [option |-> "formatOptions", value |-> Within("theme", Leaf("tag", "u")) @@ Leaf("snippetSyntax", "class")],
       [option |-> "formatOptions", value |-> Leaf("includeAttachments", TRUE)]>>,
     <<[option |-> "order", value |-> "reverse"]>>,
     <<[option |-> "language", value |-> "xx"]>>,
     <<[option |-> "format", value |-> Item("pretty", "")],
       [option |-> "formatOptions", value |-> Within("pretty", Leaf("includeAttachments", TRUE))],
       [option |-> "formatOptions", value |-> Leaf("includeAttachments", FALSE)
                                                  @@ Within("pretty", Within("theme", Leaf("step", "v")))]>>,
     <<[option |-> "format", value |-> Item("r", "")], [option |-> "format", value |-> Item("class", "log")],
       [option |-> "plugin", value |-> "r"],
       [option |-> "formatOptions", value |-> Leaf("includeAttachments", FALSE)]>>,
     <<[option |-> "formatOptions", value |-> Leaf("snippetSyntax", "p")]>>,
     <<[option |-> "format", value |-> Item("html", "")],
       [option |-> "formatOptions", value |-> Within("html", Leaf("externalAttachments", TRUE))]>>,
     <<[option |-> "format", value |-> Item("html", "")],
       [option |-> "formatOptions", value |-> Within("html", Leaf("externalAttachments", FALSE))]>>,
     <<[option |-> "format", value |-> Item("junit", "")]>>,
     <<[option |-> "require", value |-> "support"], [option |-> "retry", value |-> -1]>>,
     <<[option |-> "require", value |-> "support"]>>,
     <<[option |-> "i18nLanguages", value |-> TRUE]>>,
     <<[option |-> "i18nKeywords", value |-> "en"]>>,
     <<[option |-> "i18nKeywords", value |-> "xx"]>>,
     <<[option |-> "plugin", value |-> "r"], [option |-> "plugin", value |-> "q"],
       [option |-> "import", value |-> "support"],
       [option |-> "worldParameters", value |-> Device("phone", Nothing)],
       [option |-> "worldParameters",
        value |-> ArrayOf("users", "1" :> Leaf("age", "9") @@ "2" :> Leaf("role", "none")) @@ Leaf("name", "m")]>>,
     <<[option |-> "plugin", value |-> "deep"]>>,
     <<[option |-> "format", value |-> Unparsable]>>,
     <<[option |-> "shard", value |-> Malformed]>>}

MCCommandLines == {profiles \o arguments : profiles \in Profiles, arguments \in Arguments}

MCDialects == [isoCode \in {"en", "fr"} |-> IF isoCode = "en" THEN {"Given"} ELSE {"Soit"}]

Environment(token, isTTY, satisfies) ==
    [enabled |-> FALSE, token |-> token, isTTY |-> isTTY, nodeSatisfies |-> satisfies]

MCEnvironments ==
    {Environment(None, TRUE, TRUE), Environment("token", FALSE, TRUE), Environment(None, TRUE, FALSE)}
=============================================================================
