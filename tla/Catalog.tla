------------------------------- MODULE Catalog -------------------------------
(***************************************************************************)
(* The operators of the catalog tool (tools/catalog/src): discovery of a   *)
(* catalog in a Cargo workspace, its two renderings, the strict reader,    *)
(* the queries and their presentation.  CatalogTool runs them.             *)
(*                                                                         *)
(* A path is the sequence of its segments, as split('/') gives them: the   *)
(* empty path is <<"">>, and a leading, trailing or doubled slash is an    *)
(* empty segment.  Byte order on the joined paths is not the order of the  *)
(* segments ('-' comes before '/'), so it is a parameter.                  *)
(***************************************************************************)
EXTENDS Naturals, Sequences, FiniteSetsExt

CONSTANTS
    None,         \* Option::None
    Rank,         \* the place of each path in the byte order of strings
    Backslashed   \* the segments that contain a backslash

Paths  == DOMAIN Rank
Kinds  == {"package", "host", "composition", "instance", "example"}
Groups == {"normal", "development", "build"}

ASSUME RankAssumption ==
    /\ \A p \in Paths : Rank[p] \in Nat
    /\ \A p, q \in Paths : Rank[p] = Rank[q] => p = q
ASSUME PathsAssumption == \A p \in Paths : p \in Seq(Range(p))
ASSUME NoneAssumption ==
    /\ None \notin Kinds /\ None \notin BOOLEAN /\ None \notin Paths
    /\ None \notin [Groups -> Seq(Paths)]

\* What a function that checks one thing after another returns: the first error.
First(errors) ==
    LET failed == {i \in DOMAIN errors : errors[i] # "Ok"}
    IN  IF failed = {} THEN "Ok" ELSE errors[Min(failed)]

\* The members of a set of paths in byte order: sort() and, of a list, dedup().
Sorted(S) ==
    [i \in 1..Cardinality(S) |->
        CHOOSE p \in S : Cardinality({q \in S : Rank[q] < Rank[p]}) = i - 1]

Blank(text) == text \in {"", " "}

CurrentSchema == 2
-----------------------------------------------------------------------------
(***************************************************************************)
(* Discovery.  A workspace is what cargo metadata and the tree say:        *)
(*   packages   the packages of the metadata, in its order                 *)
(*   members    the ids of the workspace members                           *)
(*   manifests  the directories with a Cargo.toml under the catalog roots  *)
(*   readmes    the directories with a README.md                           *)
(* A package has the directory of its manifest, None outside the root.     *)
(***************************************************************************)

Members(workspace) ==
    LET packages == workspace.packages
        among[n \in 0..Len(packages)] ==
            IF n = 0 THEN <<>>
            ELSE IF packages[n].id \in workspace.members
            THEN Append(among[n - 1], packages[n]) ELSE among[n - 1]
    IN  among[Len(packages)]

Topology ==
    [packages     |-> [kind |-> "package",     depth |-> 3],
     hosts        |-> [kind |-> "host",        depth |-> 2],
     compositions |-> [kind |-> "composition", depth |-> 3],
     instances    |-> [kind |-> "instance",    depth |-> 3],
     examples     |-> [kind |-> "example",     depth |-> 2]]

\* classify_path: tests, tools and whatever else there is are no artifacts.
Classify(path) ==
    IF path[1] \notin DOMAIN Topology THEN [class |-> "ignored"]
    ELSE LET shape == Topology[path[1]]
         IN  IF Len(path) # shape.depth THEN [class |-> "unsupported"]
             ELSE [class    |-> "cataloged",
                   kind     |-> shape.kind,
                   category |-> IF shape.depth = 3 THEN path[2] ELSE None]

Cataloged(package) ==
    package.dir # None /\ Classify(package.dir).class = "cataloged"

\* The second pass over the members: where package i is.
PlacementError(packages, i) ==
    LET dir == packages[i].dir
    IN  IF dir = None THEN "OutsideRoot"
        ELSE IF Classify(dir).class = "unsupported" THEN "UnsupportedPath"
        ELSE IF Cataloged(packages[i]) /\ \E j \in 1..(i - 1) : packages[j].dir = dir
        THEN "DuplicatePath" ELSE "Ok"

\* A manifest below a catalog root that no cataloged member stands for.
StrayManifest(workspace, represented) ==
    \E dir \in workspace.manifests :
        \/ Classify(dir).class = "unsupported"
        \/ Classify(dir).class = "cataloged" /\ dir \notin represented

\* The checks of discover_catalog, in their order.
DiscoverError(workspace) ==
    LET packages == Members(workspace)
        cataloged == {i \in DOMAIN packages : Cataloged(packages[i])}
        Fails(failed, error) == IF failed THEN error ELSE "Ok"
    IN  First(<<Fails(\E i, j \in DOMAIN packages :
                          i # j /\ packages[i].name = packages[j].name,
                      "DuplicateName")>>
              \o [i \in DOMAIN packages |-> PlacementError(packages, i)]
              \o <<Fails(StrayManifest(workspace, {packages[i].dir : i \in cataloged}),
                         "StrayManifest"),
                   Fails(\E i \in cataloged : packages[i].description = None
                                                \/ Blank(packages[i].description),
                         "NoDescription")>>)

\* Mutant of Projected: the paths are collected in the order of Cargo.toml.
ProjectedUnsorted(paths) ==
    [i \in 1..Cardinality(paths) |-> Sorted(paths)[Cardinality(paths) + 1 - i]]

Projected(paths) == Sorted(paths)

\* dependency_projection: by name, those that are cataloged, grouped by Cargo's
\* kind; kinds that Cargo may add are left out.
DependencyProjection(package, packages) ==
    LET cargoKind == [normal |-> None, development |-> "dev", build |-> "build"]
    IN  [group \in Groups |->
            Projected({packages[i].dir : i \in
                {i \in DOMAIN packages :
                    /\ Cataloged(packages[i])
                    /\ [name |-> packages[i].name, kind |-> cargoKind[group]]
                         \in package.dependencies}})]

Readme(path) == Append(path, "README.md")

ArtifactOf(package, packages, readmes) ==
    [kind         |-> Classify(package.dir).kind,
     category     |-> Classify(package.dir).category,
     path         |-> package.dir,
     cargoPackage |-> package.name,
     version      |-> package.version,
     description  |-> package.description,
     publishable  |-> package.publish # {},
     readme       |-> IF package.dir \in readmes THEN Readme(package.dir) ELSE None,
     dependencies |-> DependencyProjection(package, packages)]

\* discover_catalog, of a workspace without a DiscoverError.
Discover(workspace) ==
    LET packages == Members(workspace)
        cataloged == {i \in DOMAIN packages : Cataloged(packages[i])}
        paths == Sorted({packages[i].dir : i \in cataloged})
        At(path) == packages[CHOOSE i \in cataloged : packages[i].dir = path]
    IN  [schemaVersion |-> CurrentSchema,
         artifacts |-> [i \in DOMAIN paths |->
                           ArtifactOf(At(paths[i]), packages, workspace.readmes)]]
-----------------------------------------------------------------------------
(* Rendering. *)

\* An artifact without those of its optional fields that are None.
SkipNone(artifact) ==
    [field \in {f \in DOMAIN artifact : artifact[f] # None} |-> artifact[field]]

Json(index) ==
    [index EXCEPT !.artifacts = [i \in DOMAIN @ |-> SkipNone(@[i])]]

MarkdownItem(artifact) ==
    [name        |-> artifact.path[Len(artifact.path)],
     link        |-> artifact.path,
     description |-> artifact.description,
     readme      |-> artifact.readme]

\* render_markdown: a section for each kind, and in it a list for each category,
\* or one list when no artifact of the kind has a category.
Markdown(index) ==
    LET OfKind(kind) == SelectSeq(index.artifacts, LAMBDA a : a.kind = kind)
        Items(artifacts) == [i \in DOMAIN artifacts |-> MarkdownItem(artifacts[i])]
        CategoriesOf(artifacts) == {artifacts[i].category : i \in DOMAIN artifacts}
    IN  [schemaVersion |-> index.schemaVersion,
         sections |->
            [kind \in Kinds |->
                [category \in CategoriesOf(OfKind(kind)) |->
                    Items(SelectSeq(OfKind(kind), LAMBDA a : a.category = category))]]]
-----------------------------------------------------------------------------
(* The strict reader: the shape of the document, then validation. *)

RequiredFields == {"kind", "path", "cargoPackage", "version", "description",
                   "publishable", "dependencies"}
OptionalFields == {"category", "readme"}

\* What serde accepts as a CatalogIndex: no field too many, none too few or null, no
\* kind that ArtifactKind does not have, and lists of strings for the dependencies.
WellFormed(document) ==
    /\ DOMAIN document = {"schemaVersion", "artifacts"}
    /\ document.artifacts \in Seq(Range(document.artifacts))
    /\ \A artifact \in Range(document.artifacts) :
          /\ RequiredFields \subseteq DOMAIN artifact
          /\ DOMAIN artifact \subseteq RequiredFields \cup OptionalFields
          /\ \A field \in RequiredFields : artifact[field] # None
          /\ artifact.kind \in Kinds
          /\ artifact.path \in Paths
          /\ DOMAIN artifact.dependencies = Groups
          /\ \A group \in Groups : artifact.dependencies[group] \in Seq(Paths)

Parsed(document) ==
    [document EXCEPT !.artifacts =
        [i \in DOMAIN @ |->
            [field \in RequiredFields \cup OptionalFields |->
                IF field \in DOMAIN @[i] THEN @[i][field] ELSE None]]]

\* The topology of a schema version: v1 has no instances.
SchemaTopology(version) ==
    {[root |-> "packages",     depth |-> 3, kind |-> "package"],
     [root |-> "hosts",        depth |-> 2, kind |-> "host"],
     [root |-> "compositions", depth |-> 3, kind |-> "composition"],
     [root |-> "examples",     depth |-> 2, kind |-> "example"]}
    \cup (IF version = 2 THEN {[root |-> "instances", depth |-> 3, kind |-> "instance"]}
          ELSE {})

\* classify_catalog_path
CatalogPathError(version, path) ==
    IF \E i \in DOMAIN path : path[i] \in {"", ".", ".."} \cup Backslashed
    THEN "InvalidPath"
    ELSE IF \E shape \in SchemaTopology(version) :
                shape.root = path[1] /\ shape.depth = Len(path)
    THEN "Ok" ELSE "InvalidTopology"

ShapeOf(version, path) ==
    CHOOSE shape \in SchemaTopology(version) : shape.root = path[1]

\* validate_artifact
ArtifactError(version, artifact) ==
    LET path  == artifact.path
        shape == ShapeOf(version, path)
    IN  IF CatalogPathError(version, path) # "Ok" THEN CatalogPathError(version, path)
        ELSE IF artifact.kind # shape.kind THEN "KindMismatch"
        ELSE IF artifact.category # IF shape.depth = 3 THEN path[2] ELSE None
        THEN "CategoryMismatch"
        ELSE IF artifact.cargoPackage = "" THEN "NoPackage"
        ELSE IF artifact.version = "" THEN "NoVersion"
        ELSE IF Blank(artifact.description) THEN "NoDescription"
        ELSE IF artifact.readme \notin {None, Readme(path)} THEN "ReadmeMismatch"
        ELSE "Ok"

\* Two neighbours of a list that has to be sorted and without duplicates.
OrderError(previous, path) ==
    IF previous = path THEN "Duplicate"
    ELSE IF Rank[previous] > Rank[path] THEN "NotSorted" ELSE "Ok"

\* Mutant of PackageError: only the neighbour is looked at.
PackageErrorAdjacent(artifacts, i) ==
    IF i > 1 /\ artifacts[i - 1].cargoPackage = artifacts[i].cargoPackage
    THEN "DuplicatePackage" ELSE "Ok"

PackageError(artifacts, i) ==
    IF \E j \in 1..(i - 1) : artifacts[j].cargoPackage = artifacts[i].cargoPackage
    THEN "DuplicatePackage" ELSE "Ok"

\* The first pass of validate_catalog_index, at artifact i.
EntryError(version, artifacts, i) ==
    First(<<IF i = 1 THEN "Ok" ELSE OrderError(artifacts[i - 1].path, artifacts[i].path),
            ArtifactError(version, artifacts[i]),
            PackageError(artifacts, i)>>)

\* validate_dependency_group
GroupError(dependencies, paths) ==
    First([i \in DOMAIN dependencies |->
              First(<<IF i = 1 THEN "Ok" ELSE OrderError(dependencies[i - 1], dependencies[i]),
                      IF dependencies[i] \in paths THEN "Ok" ELSE "Dangling">>)])

\* validate_catalog_index
ValidationError(index) ==
    LET version   == index.schemaVersion
        artifacts == index.artifacts
        paths     == {artifacts[i].path : i \in DOMAIN artifacts}
        Dependencies(i) ==
            First(<<GroupError(artifacts[i].dependencies.normal, paths),
                    GroupError(artifacts[i].dependencies.development, paths),
                    GroupError(artifacts[i].dependencies.build, paths)>>)
    IN  IF version \notin {1, 2} THEN "UnsupportedSchema"
        ELSE First([i \in DOMAIN artifacts |-> EntryError(version, artifacts, i)]
                   \o [i \in DOMAIN artifacts |-> Dependencies(i)])
-----------------------------------------------------------------------------
(* The queries, on an index that has been validated. *)

\* Catalog::from_validated: each key leads to the last artifact that has it.
Position(index, field, key) ==
    LET positions == {i \in DOMAIN index.artifacts : index.artifacts[i][field] = key}
    IN  IF positions = {} THEN 0 ELSE Max(positions)

\* artifact_by_path and artifact_by_cargo_package
Found(index, field, key)  == Position(index, field, key) # 0
Lookup(index, field, key) == index.artifacts[Position(index, field, key)]

\* artifacts_by_kind and artifacts_by_category
Filtered(index, field, value) ==
    SelectSeq(index.artifacts, LAMBDA artifact : artifact[field] = value)

\* Mutant of DependsOn: the kind of the edge is lost.
DependsOnAnyhow(artifact, group, path) ==
    \E g \in Groups :
        \E k \in DOMAIN artifact.dependencies[g] : artifact.dependencies[g][k] = path

DependsOn(artifact, group, path) ==
    \E k \in DOMAIN artifact.dependencies[group] : artifact.dependencies[group][k] = path

\* direct_dependents: the order is that of path and group, so it need not be kept.
DirectDependents(index, path) ==
    {d \in [path : {index.artifacts[i].path : i \in DOMAIN index.artifacts},
            group : Groups] :
        DependsOn(Lookup(index, "path", d.path), d.group, path)}

\* What the commands print: a line for each artifact, one artifact, the groups of its
\* dependencies, and its dependents by group.
Listed(artifacts) ==
    [i \in DOMAIN artifacts |->
        [kind         |-> artifacts[i].kind,
         path         |-> artifacts[i].path,
         cargoPackage |-> artifacts[i].cargoPackage]]

Shown(artifact) == SkipNone(artifact)

ShownDependencies(dependencies) == [group \in Groups |-> dependencies[group]]

ShownDependents(dependents) ==
    [group \in Groups |-> Sorted({d.path : d \in {d \in dependents : d.group = group}})]

\* Whether a command finds what it is asked for, and what it prints then.
Answerable(command, index) ==
    CASE command.name \in {"show", "deps", "dependents"} ->
            Found(index, "path", command.argument)
      [] command.name = "show-package" -> Found(index, "cargoPackage", command.argument)
      [] OTHER -> TRUE

Answer(command, index) ==
    CASE command.name = "validate" ->
            [schemaVersion |-> index.schemaVersion, artifacts |-> Len(index.artifacts)]
      [] command.name = "list" -> Listed(index.artifacts)
      [] command.name = "list-kind" -> Listed(Filtered(index, "kind", command.argument))
      [] command.name = "list-category" ->
            Listed(Filtered(index, "category", command.argument))
      [] command.name = "show" -> Shown(Lookup(index, "path", command.argument))
      [] command.name = "show-package" ->
            Shown(Lookup(index, "cargoPackage", command.argument))
      [] command.name = "deps" ->
            ShownDependencies(Lookup(index, "path", command.argument).dependencies)
      [] command.name = "dependents" ->
            ShownDependents(DirectDependents(index, command.argument))
-----------------------------------------------------------------------------
(* The command line. *)

Plain        == {"write", "check", "validate", "list"}
WithArgument == {"list-kind", "list-category", "show", "show-package", "deps",
                 "dependents"}

\* parse_artifact_kind
SupportedKind(value) == value \in Kinds

\* Command::parse_args, of the arguments after the program's name.
ParseError(args) ==
    IF args = <<>> THEN "MissingCommand"
    ELSE IF args[1] \in Plain THEN (IF Len(args) = 1 THEN "Ok" ELSE "ExtraArgument")
    ELSE IF args[1] \notin WithArgument THEN "UnknownCommand"
    ELSE IF Len(args) # 2 THEN "WrongArguments"
    ELSE IF args[1] = "list-kind" /\ ~SupportedKind(args[2]) THEN "UnsupportedKind" ELSE "Ok"

Parse(args) ==
    [name |-> args[1], argument |-> IF Len(args) = 2 THEN args[2] ELSE None]
=============================================================================
