---------------------------- MODULE Implementations ----------------------------
(***************************************************************************)
(* How plugins, formatters and snippet syntaxes are found by their         *)
(* specifiers, and what options a formatter is given                       *)
(* (src/src/api/plugins.ts, src/src/formatter/resolve_implementation.ts,   *)
(* find_class_or_plugin.ts, builder.ts and builtin/).                      *)
(*                                                                         *)
(* What a specifier stands for when it is imported is a sequence of kinds: *)
(* of what is exported, of the default of that, of its default in turn     *)
(* (code that was compiled to another kind of module wraps it).            *)
(***************************************************************************)
EXTENDS ObjectTrees, FiniteSetsExt

CONSTANT Exporting   \* what there is to import, with its kinds

Kinds == {"function", "formatter", "plugin", "object"}

ASSUME ImplementationsAssumption ==
    \A specifier \in DOMAIN Exporting : Exporting[specifier] \in Seq(Kinds)

(* Nothing is found where nothing can be imported, which is an error too.  *)
ImportCode(specifier) == IF specifier \in DOMAIN Exporting THEN Exporting[specifier] ELSE <<>>

(* The first of the three that is of one of the kinds.                     *)
FindRecursive(imported, kinds) ==
    LET found == {depth \in DOMAIN imported : depth <= 3 /\ imported[depth] \in kinds}
    IN IF found = {} THEN "none" ELSE imported[Min(found)]

FindPlugin(specifier) == FindRecursive(ImportCode(specifier), {"plugin"})

FindClassOrPlugin(specifier) == FindRecursive(ImportCode(specifier), {"function", "formatter"})

ResolveConstructor(specifier) == FindRecursive(ImportCode(specifier), {"function"})

-----------------------------------------------------------------------------
(* Formatters. *)

(* Those that print to a terminal leave that to a package.                 *)
TerminalFormatters == {"pretty", "progress", "progress-bar", "summary"}

(* The formatters of the name, plugins and classes, but for one, which is  *)
(* the name of a package.                                                  *)
Builtin ==
    LET classes == {"json", "rerun", "snippets", "usage", "usage-json"}
    IN [name \in TerminalFormatters \cup {"html", "message"} \cup classes |->
            IF name \in classes THEN "function" ELSE "formatter"]

Packages == [junit |-> "@cucumber/junit-xml-formatter"]

ResolveImplementation(specifier) ==
    IF specifier \in DOMAIN Builtin THEN Builtin[specifier]
    ELSE FindClassOrPlugin(IF specifier \in DOMAIN Packages THEN Packages[specifier] ELSE specifier)

First(said, otherwise) == IF said = <<>> THEN otherwise ELSE said

(* Whether attachments are printed, if it is said: the old name of the     *)
(* option counts if the new one is not given.                              *)
IncludeAttachments(options) ==
    First(Said(options, <<"includeAttachments">>), Said(options, <<"printAttachments">>))

ResolveTerminalOptions(options) ==
    [includeAttachments |-> IncludeAttachments(options), theme |-> Part(options, <<"theme">>)]

(* What each gives the printer of that package: all but the summary itself *)
(* end with one, and a bar keeps others off the terminal.                  *)
Summary(options) == ResolveTerminalOptions(options)

Besides(options, more) ==
    LET terminal == ResolveTerminalOptions(options)
    IN [key \in DOMAIN terminal \cup DOMAIN more |->
            IF key \in DOMAIN more THEN more[key] ELSE terminal[key]]

Progress(options) == Besides(options, [summarise |-> TRUE])

ProgressBar(options) == Besides(options, [summarise |-> TRUE, interference |-> "suppress"])

(* The options under its own name override those of the same name, and all *)
(* of them are passed on.                                                  *)
Pretty(options) ==
    LET terminal == ResolveTerminalOptions(options)
    IN [includeAttachments |->
            First(Said(options, <<"pretty", "includeAttachments">>), terminal.includeAttachments),
        theme |-> First(Part(options, <<"pretty", "theme">>), terminal.theme),
        pretty |-> Part(options, <<"pretty">>),
        summarise |-> TRUE]

(* A class prints them unless it is told not to.                           *)
ClassOptions(options) ==
    [includeAttachments |-> First(IncludeAttachments(options), <<Scalar(TRUE)>>)]

(* The HTML report can have its attachments in files beside it.            *)
HtmlOptions(options) ==
    [externalAttachments |-> Said(options, <<"html", "externalAttachments">>) \notin {<<>>, <<Scalar(FALSE)>>}]

FormatterOptions(name, options) ==
    CASE name = "summary" -> Summary(options)
      [] name = "progress" -> Progress(options)
      [] name = "progress-bar" -> ProgressBar(options)
      [] name = "pretty" -> Pretty(options)
      [] name = "html" -> HtmlOptions(options)
      [] ResolveImplementation(name) = "function" -> ClassOptions(options)
      [] OTHER -> options

(* A progress bar needs a terminal, and a file is none.                    *)
InitializeFormatter(specifier, isTTY, options) ==
    LET name == IF specifier = "progress-bar" /\ ~isTTY THEN "progress" ELSE specifier
    IN [name |-> name, implementation |-> ResolveImplementation(name),
        options |-> FormatterOptions(name, options)]

InitializeFormatters(formats, isTTY) ==
    [target \in DOMAIN formats.files \cup {""} |->
        IF target = "" THEN InitializeFormatter(formats.stdout, isTTY, formats.options)
        ELSE InitializeFormatter(formats.files[target], FALSE, formats.options)]

(* A snippet syntax of the user's is a class.                              *)
SnippetsBuild(options) ==
    \A syntax \in ToSet(Said(options, <<"snippetSyntax">>)) :
        syntax.is = "scalar" /\ ResolveConstructor(syntax.of) = "function"

(* A report on stdout has no directory for attachments; every class is     *)
(* given a snippet builder.                                                *)
Starts(formatter, target, options) ==
    /\ formatter.implementation # "none"
    /\ formatter.name = "html" => ~(target = "" /\ formatter.options.externalAttachments)
    /\ formatter.implementation = "function" => SnippetsBuild(options)
=============================================================================
