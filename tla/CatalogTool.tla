----------------------------- MODULE CatalogTool -----------------------------
(***************************************************************************)
(* The catalog tool at work (tools/catalog/src/lib.rs, output.rs,          *)
(* reader.rs): invocations that run beside each other in one repository,   *)
(* the two files they write and read there, and the people who change the  *)
(* workspace and the files between and during them.                        *)
(*                                                                         *)
(* fs::write truncates a file and then writes it, so a file is for a while *)
(* empty, and a write that fails or is killed leaves it empty or torn.     *)
(* What a command learns of the workspace it learns when it starts.        *)
(***************************************************************************)
EXTENDS Catalog

CONSTANTS
    Tools,         \* the invocations that can run at the same time
    Workspaces,    \* the states of the Cargo workspace
    Repositories,  \* how it begins: a workspace, an index.json and an index.md, and
                   \* how many of the changes below have been spent on them
    CommandLines,  \* the arguments the tool is called with
    Missing,       \* the content of a file that is not there
    Empty,         \* the content of a file that has been truncated
    Torn,          \* the content of a file that is no document at all
    MaxRuns,       \* bound: the commands of one process
    MaxChanges     \* bound: the changes made to the workspace and by hand

ASSUME ContentsAssumption == Missing # Empty /\ Missing # Torn /\ Empty # Torn
ASSUME RepositoriesAssumption ==
    \A repository \in Repositories : repository.workspace \in Workspaces
ASSUME ToolsAssumption == None \notin Tools
ASSUME RenderedAssumption ==
    \A w \in Workspaces : DiscoverError(w) = "Ok" =>
        /\ Json(Discover(w)) \notin {Missing, Empty, Torn}
        /\ Markdown(Discover(w)) # Missing
\* What Cargo takes for a package, and what the walk of the tree can meet.
ASSUME WorkspacesAssumption ==
    \A w \in Workspaces :
        /\ w.packages \in Seq(Range(w.packages))
        /\ \A package \in Range(w.packages) :
              /\ package.name \notin {None, ""} /\ package.version \notin {None, ""}
              /\ package.dir \in Paths \cup {None}
              /\ package.dir # None =>
                    \A k \in DOMAIN package.dir : package.dir[k] \notin {"", ".", ".."}
        /\ \A dir \in w.manifests : dir[1] \in DOMAIN Topology
ASSUME ToolBoundsAssumption == MaxRuns \in Nat /\ MaxChanges \in Nat

VARIABLES
    workspace,  \* what cargo metadata and the tree say now
    json,       \* the content of catalog/index.json
    markdown,   \* the content of catalog/index.md
    pc,         \* where each process is
    command,    \* its command, in progress or last
    rendered,   \* the index it discovered and renders
    fresh,      \* of a check: index.json was as rendered
    result,     \* how its last command ended
    printed,    \* what its last command printed
    runs,       \* the commands it has begun
    changes,    \* the changes made so far
    quiet       \* history: nobody else has changed anything since it began

vars == <<workspace, json, markdown, pc, command, rendered, fresh, result, printed,
          runs, changes, quiet>>
files == <<json, markdown>>

NoCommand == [name |-> "none", argument |-> None]

Init ==
    /\ \E repository \in Repositories :
          /\ workspace = repository.workspace
          /\ json = repository.json
          /\ markdown = repository.markdown
          /\ changes = repository.changes
    /\ pc = [p \in Tools |-> "idle"]
    /\ command = [p \in Tools |-> NoCommand]
    /\ rendered = [p \in Tools |-> None]
    /\ fresh = [p \in Tools |-> FALSE]
    /\ result = [p \in Tools |-> "none"]
    /\ printed = [p \in Tools |-> None]
    /\ runs = [p \in Tools |-> 0]
    /\ quiet = [p \in Tools |-> FALSE]

\* Somebody changes the workspace or a file: process p, or None of them.
Disturbs(p) == quiet' = [q \in Tools |-> q = p /\ quiet[q]]

Ends(p, how) ==
    /\ pc' = [pc EXCEPT ![p] = "idle"]
    /\ result' = [result EXCEPT ![p] = how]
    /\ rendered' = [rendered EXCEPT ![p] = None]
    /\ fresh' = [fresh EXCEPT ![p] = FALSE]
-----------------------------------------------------------------------------
(* The environment. *)

Develop ==
    /\ changes < MaxChanges
    /\ changes' = changes + 1
    /\ workspace' \in Workspaces \ {workspace}
    /\ Disturbs(None)
    /\ UNCHANGED <<files, pc, command, rendered, fresh, result, printed, runs>>

\* A file is spoilt or deleted by hand; not while the tool has it open.
HandEdit ==
    /\ changes < MaxChanges
    /\ changes' = changes + 1
    /\ \/ /\ \A p \in Tools : pc[p] # "fillJson"
          /\ json' \in {Missing, Torn}
          /\ UNCHANGED markdown
       \/ /\ \A p \in Tools : pc[p] # "fillMarkdown"
          /\ markdown' \in {Missing, Torn}
          /\ UNCHANGED json
    /\ Disturbs(None)
    /\ UNCHANGED <<workspace, pc, command, rendered, fresh, result, printed, runs>>
-----------------------------------------------------------------------------
(* run(): a command starts. *)

Begins(p, args) ==
    /\ pc[p] = "idle"
    /\ runs[p] < MaxRuns
    /\ runs' = [runs EXCEPT ![p] = @ + 1]
    /\ command' = [command EXCEPT ![p] = IF ParseError(args) = "Ok" THEN Parse(args)
                                         ELSE NoCommand]
    /\ quiet' = [quiet EXCEPT ![p] = TRUE]
    /\ UNCHANGED <<workspace, files, changes>>

Refuse(p) ==
    \E args \in CommandLines :
        /\ ParseError(args) # "Ok"
        /\ Begins(p, args)
        /\ result' = [result EXCEPT ![p] = ParseError(args)]
        /\ printed' = [printed EXCEPT ![p] = None]
        /\ UNCHANGED <<pc, rendered, fresh>>

\* write and check, through render_workspace_catalog.  cargo metadata or the walk
\* of the tree may fail.
Discovers(p) ==
    \E args \in CommandLines :
        /\ ParseError(args) = "Ok" /\ args[1] \in {"write", "check"}
        /\ Begins(p, args)
        /\ printed' = [printed EXCEPT ![p] = None]
        /\ \/ /\ DiscoverError(workspace) = "Ok"
              /\ pc' = [pc EXCEPT ![p] = IF args[1] = "write" THEN "truncateJson"
                                         ELSE "checkJson"]
              /\ rendered' = [rendered EXCEPT ![p] = Discover(workspace)]
              /\ result' = [result EXCEPT ![p] = "none"]
              /\ UNCHANGED fresh
           \/ DiscoverError(workspace) # "Ok" /\ Ends(p, DiscoverError(workspace))
           \/ Ends(p, "Failed")

\* read_catalog_from, on what was read.
ReadError(content) ==
    IF content = Missing THEN "Unreadable"
    ELSE IF content \in {Empty, Torn} THEN "InvalidJson"
    ELSE IF ~WellFormed(content) THEN "InvalidJson"
    ELSE ValidationError(Parsed(content))

\* validate, list, show, deps and the others: one read, one answer. A file that is
\* there may still not be read, for want of a right, for an I/O error, or because it
\* is not UTF-8.
Answers(p) ==
    \E args \in CommandLines :
        /\ ParseError(args) = "Ok" /\ args[1] \notin {"write", "check"}
        /\ Begins(p, args)
        /\ \/ /\ ReadError(json) = "Ok"
              /\ IF Answerable(Parse(args), Parsed(json))
                 THEN /\ Ends(p, "Ok")
                      /\ printed' = [printed EXCEPT ![p] = Answer(Parse(args), Parsed(json))]
                 ELSE /\ Ends(p, "NotFound")
                      /\ printed' = [printed EXCEPT ![p] = None]
           \/ /\ ReadError(json) # "Ok"
              /\ Ends(p, ReadError(json))
              /\ printed' = [printed EXCEPT ![p] = None]
           \/ /\ json # Missing
              /\ Ends(p, "Failed")
              /\ printed' = [printed EXCEPT ![p] = None]
-----------------------------------------------------------------------------
(* write_catalog: index.json, then index.md, each with fs::write. *)

\* What a write over a file leaves: a process that truncated the file may find there
\* what another has written since, and a shorter text does not cover a longer one.
Overwritten(content, text) ==
    IF content \in {Empty, text} THEN {text} ELSE {text, Torn}

\* Mutant of TruncateJson: index.json is only opened, and not truncated.
OpenJson(p) ==
    /\ pc[p] = "truncateJson"
    /\ pc' = [pc EXCEPT ![p] = "fillJson"]
    /\ Disturbs(p)
    /\ UNCHANGED <<workspace, files, command, rendered, fresh, result, printed, runs,
                   changes>>

TruncateJson(p) ==
    /\ pc[p] = "truncateJson"
    /\ pc' = [pc EXCEPT ![p] = "fillJson"]
    /\ json' = Empty
    /\ Disturbs(p)
    /\ UNCHANGED <<workspace, markdown, command, rendered, fresh, result, printed, runs,
                   changes>>

FillJson(p) ==
    /\ pc[p] = "fillJson"
    /\ json' \in Overwritten(json, Json(rendered[p]))
    /\ pc' = [pc EXCEPT ![p] = "truncateMarkdown"]
    /\ Disturbs(p)
    /\ UNCHANGED <<workspace, markdown, command, rendered, fresh, result, printed, runs,
                   changes>>

TruncateMarkdown(p) ==
    /\ pc[p] = "truncateMarkdown"
    /\ pc' = [pc EXCEPT ![p] = "fillMarkdown"]
    /\ markdown' = Empty
    /\ Disturbs(p)
    /\ UNCHANGED <<workspace, json, command, rendered, fresh, result, printed, runs,
                   changes>>

FillMarkdown(p) ==
    /\ pc[p] = "fillMarkdown"
    /\ markdown' \in Overwritten(markdown, Markdown(rendered[p]))
    /\ Ends(p, "Ok")
    /\ Disturbs(p)
    /\ UNCHANGED <<workspace, json, command, printed, runs, changes>>

\* The file cannot be opened, or the write stops short; or the process is killed.
WriteFails(p) ==
    /\ \/ pc[p] \in {"truncateJson", "truncateMarkdown"} /\ UNCHANGED files
       \/ pc[p] = "fillJson" /\ json' \in {json, Torn} /\ UNCHANGED markdown
       \/ pc[p] = "fillMarkdown" /\ markdown' \in {markdown, Torn} /\ UNCHANGED json
    /\ Ends(p, "Failed")
    /\ Disturbs(p)
    /\ UNCHANGED <<workspace, command, printed, runs, changes>>
-----------------------------------------------------------------------------
(* check_catalog: both files are read, then both are compared. *)

CheckJson(p) ==
    /\ pc[p] = "checkJson"
    /\ \/ /\ json # Missing
          /\ fresh' = [fresh EXCEPT ![p] = (json = Json(rendered[p]))]
          /\ pc' = [pc EXCEPT ![p] = "checkMarkdown"]
          /\ UNCHANGED <<result, rendered>>
       \/ json = Missing /\ Ends(p, "Unreadable")
    /\ UNCHANGED <<workspace, files, command, printed, runs, changes, quiet>>

\* Mutant of UpToDate: one file that matches is enough.
UpToDateEither(p) == fresh[p] \/ markdown = Markdown(rendered[p])

UpToDate(p) == fresh[p] /\ markdown = Markdown(rendered[p])

CheckMarkdown(p) ==
    /\ pc[p] = "checkMarkdown"
    /\ Ends(p, IF markdown = Missing THEN "Unreadable"
               ELSE IF UpToDate(p) THEN "Ok" ELSE "Stale")
    /\ UNCHANGED <<workspace, files, command, printed, runs, changes, quiet>>

CheckFails(p) ==
    /\ pc[p] \in {"checkJson", "checkMarkdown"}
    /\ Ends(p, "Failed")
    /\ UNCHANGED <<workspace, files, command, printed, runs, changes, quiet>>

Next ==
    \/ Develop \/ HandEdit
    \/ \E p \in Tools :
          \/ Refuse(p) \/ Discovers(p) \/ Answers(p)
          \/ TruncateJson(p) \/ FillJson(p) \/ TruncateMarkdown(p) \/ FillMarkdown(p)
          \/ WriteFails(p)
          \/ CheckJson(p) \/ CheckMarkdown(p) \/ CheckFails(p)

Spec == Init /\ [][Next]_vars
-----------------------------------------------------------------------------
(* Properties. *)

\* Process p has ended the command `name` and nobody else has changed anything since
\* it began.
Undisturbed(p, name) == pc[p] = "idle" /\ quiet[p] /\ command[p].name = name

\* Both files are what the workspace as it is now renders to.
Current ==
    /\ DiscoverError(workspace) = "Ok"
    /\ json = Json(Discover(workspace))
    /\ markdown = Markdown(Discover(workspace))

\* catalog/README.md on a canonical document: the kinds and the shape of the paths,
\* strict order, unique packages, and dependency groups that are sorted sets of the
\* paths of artifacts.
PathOf(artifact, name) ==
    CASE artifact.kind = "package"     -> <<"packages", artifact.category, name>>
      [] artifact.kind = "host"        -> <<"hosts", name>>
      [] artifact.kind = "composition" -> <<"compositions", artifact.category, name>>
      [] artifact.kind = "instance"    -> <<"instances", artifact.category, name>>
      [] artifact.kind = "example"     -> <<"examples", name>>

CanonicalArtifact(version, artifact) ==
    LET path == artifact.path
    IN  /\ version = 1 => artifact.kind # "instance"
        /\ path = PathOf(artifact, path[Len(path)])
        /\ artifact.kind \in {"host", "example"} => artifact.category = None
        /\ \A k \in DOMAIN path : path[k] \notin {"", ".", ".."} \cup Backslashed
        /\ artifact.cargoPackage # "" /\ artifact.version # ""
        /\ ~Blank(artifact.description)
        /\ artifact.readme # None => artifact.readme = Append(path, "README.md")

Canonical(index) ==
    LET artifacts == index.artifacts
    IN  /\ index.schemaVersion \in {1, 2}
        /\ \A i, j \in DOMAIN artifacts : i < j =>
              /\ Rank[artifacts[i].path] < Rank[artifacts[j].path]
              /\ artifacts[i].cargoPackage # artifacts[j].cargoPackage
        /\ \A i \in DOMAIN artifacts :
              /\ CanonicalArtifact(index.schemaVersion, artifacts[i])
              /\ \A group \in Groups :
                    LET edges == artifacts[i].dependencies[group]
                    IN  /\ Range(edges) \subseteq
                              {artifacts[k].path : k \in DOMAIN artifacts}
                        /\ edges = Sorted(Range(edges))

\* A write that nobody disturbs leaves both files current, whatever it found there:
\* nothing, an older catalog, or what a write that failed or was killed had left.
WriteRepairs == \A p \in Tools : Undisturbed(p, "write") /\ result[p] = "Ok" => Current

\* A check that nobody disturbs says that the catalog is current exactly when both
\* files are: a write that got only as far as index.json, or two writes that ended
\* with one file of each, are found out.
CheckTellsFreshness ==
    \A p \in Tools : Undisturbed(p, "check") =>
        /\ result[p] = "Ok" => Current
        /\ result[p] \in {"Stale", "Unreadable"} => ~Current

\* "Readers reject malformed or non-canonical order rather than silently normalizing
\* it": the reader's one pass over neighbours takes exactly the canonical documents,
\* those of schema version 1 by the rules of version 1 and those of version 2 by the
\* rules of version 2. It is the reader of every command; that it is the one of
\* validate too is what ValidatesVersion2 is about.
AcceptsExactlyCanonical ==
    \A p \in Tools : Undisturbed(p, "validate") /\ result[p] # "Failed" =>
        (result[p] = "Ok" <=> /\ json \notin {Missing, Empty, Torn}
                              /\ WellFormed(json)
                              /\ Canonical(Parsed(json)))

\* "verifies that it is an internally valid canonical Catalog v2 document"
\* (catalog/README.md): validate takes no document of another schema version.
ValidatesVersion2 ==
    \A p \in Tools : Undisturbed(p, "validate") /\ result[p] = "Ok" =>
        Parsed(json).schemaVersion = 2

\* A generated catalog has every artifact that has a manifest below a catalog root,
\* member of the workspace or not, and the reader accepts it, with one exception: the
\* generator takes a directory whose name has a backslash and the reader does not.
GeneratedIsFaithful ==
    DiscoverError(workspace) = "Ok" =>
        LET index == Discover(workspace)
            paths == {index.artifacts[i].path : i \in DOMAIN index.artifacts}
        IN  /\ workspace.manifests \subseteq paths
            /\ ReadError(Json(index)) = "Ok" <=>
                   \A path \in paths : \A k \in DOMAIN path : path[k] \notin Backslashed

\* What two processes print of one catalog fits together: an edge that deps shows at
\* its one end dependents shows at the other, in the same group, and the artifact
\* that show finds by its path is the one that show-package finds by its package.
AnswersAgree ==
    \A p, q \in Tools :
        /\ Undisturbed(p, "deps") /\ Undisturbed(q, "dependents")
             /\ result[p] = "Ok" /\ result[q] = "Ok" =>
           \A group \in Groups :
               (\E k \in DOMAIN printed[p][group] :
                   printed[p][group][k] = command[q].argument)
                 <=> (\E k \in DOMAIN printed[q][group] :
                         printed[q][group][k] = command[p].argument)
        /\ Undisturbed(p, "show") /\ Undisturbed(q, "show-package")
             /\ result[p] = "Ok" /\ result[q] # "Failed"
             /\ printed[p].cargoPackage = command[q].argument =>
           result[q] = "Ok" /\ printed[q] = printed[p]
=============================================================================
