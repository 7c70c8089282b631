--------------------------------- MODULE Paths ---------------------------------
(***************************************************************************)
(* Which files the paths given to a run stand for, and which lines of them *)
(* (src/src/paths/paths.ts, src/src/pickle_filter.ts).  A path is a record *)
(* of its uri and the lines behind it, none for the whole file; the uri of *)
(* an empty line is "".  Globs, directories and extensions are Glob.       *)
(***************************************************************************)
EXTENDS Subsequences, SequencesExt, TLC

CONSTANTS
    Glob,            \* the files each uri matches, in order
    DirectoryOf,     \* the directory of a feature file that support code is looked for in
    DefaultPaths     \* what is used for features when no path is given

ExpandPaths(uris) == Distinct(FlattenSeq([i \in DOMAIN uris |-> Glob[uris[i]]]))

(* A rerun file among the arguments is a record of its lines; it stands    *)
(* for the paths in it, even for none at all.                              *)
PathsOf(arg) == IF "rerun" \in DOMAIN arg THEN arg.rerun ELSE <<arg>>

Named(paths) == Keep(paths, {i \in DOMAIN paths : paths[i].uri # ""})

GetUnexpandedSourcePaths(args) ==
    LET paths == FlattenSeq([i \in DOMAIN args |-> PathsOf(args[i])])
    IN IF paths = <<>> THEN DefaultPaths ELSE Named(paths)

ExpandSourcePaths(paths) == ExpandPaths([i \in DOMAIN paths |-> paths[i].uri])

(* Support code is looked for beside the features unless it is given.      *)
DeriveSupportPaths(features, require, import) ==
    IF require = <<>> /\ import = <<>>
    THEN [require |-> <<>>,
          import |-> ExpandPaths(Distinct([i \in DOMAIN features |-> DirectoryOf[features[i]]]))]
    ELSE [require |-> ExpandPaths(require), import |-> ExpandPaths(import)]

(* All the paths of a run.                                                 *)
ResolvePaths(paths, require, import) ==
    LET unexpanded == GetUnexpandedSourcePaths(paths)
        sources == ExpandSourcePaths(unexpanded)
        support == DeriveSupportPaths(sources, require, import)
    IN [unexpandedSourcePaths |-> unexpanded, sourcePaths |-> sources,
        require |-> support.require, import |-> support.import]

(* The lines that are wanted of the files some path gives lines of.        *)
GetFeatureUriToLinesMapping(paths) ==
    LET ofLines == {path \in ToSet(paths) : path.lines # {}}
    IN [uri \in {path.uri : path \in ofLines} |->
           UNION {path.lines : path \in {p \in ofLines : p.uri = uri}}]
=============================================================================
