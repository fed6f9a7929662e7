---------------------------- MODULE MCCatalogTool ----------------------------
(***************************************************************************)
(* A small repository for the catalog tool: four artifacts of three kinds, *)
(* a test crate, and the ways such a workspace can be wrong; and, for      *)
(* index.json, every document that is one change away from a good one.     *)
(***************************************************************************)
EXTENDS CatalogTool, TLC

Symmetry == Permutations(Tools)

\* Byte order, in which "packages/net-io" comes before "packages/net/".
PathOrder == <<
    <<"hosts", "linux">>,
    <<"instances", "web", "http">>,
    <<"packages", "..", "tcp">>,
    <<"packages", "net">>,
    <<"packages", "net-io", "udp">>,
    <<"packages", "net", "a\\b">>,
    <<"packages", "net", "tcp">>,
    <<"tests", "consumer">> >>

Linux == PathOrder[1]
Http  == PathOrder[2]
Udp   == PathOrder[5]
Tcp   == PathOrder[7]

MCRank ==
    [path \in {PathOrder[i] : i \in DOMAIN PathOrder} |->
        CHOOSE i \in DOMAIN PathOrder : PathOrder[i] = path]

MCBackslashed == {"a\\b"}

Package(name, dir, dependencies) ==
    [id |-> name, name |-> name, version |-> "0.1.0", description |-> "text",
     publish |-> None, dir |-> dir, dependencies |-> dependencies]

On(name, kind) == [name |-> name, kind |-> kind]

Repository ==
    [packages |-> <<
        Package("http", Http, {On("tcp", None), On("udp", None), On("linux", "dev"),
                               On("rusqlite", None)}),
        [Package("tcp", Tcp, {On("udp", None), On("udp", "build")})
            EXCEPT !.publish = {}],
        Package("udp", Udp, {On("tcp", "dev"), On("tcp", "other")}),
        Package("linux", Linux, {}),
        Package("consumer", PathOrder[8], {On("http", None)}),
        Package("serde", None, {}) >>,
     members   |-> {"http", "tcp", "udp", "linux", "consumer"},
     manifests |-> {Http, Tcp, Udp, Linux},
     readmes   |-> {Tcp}]

MCWorkspaces ==
    {Repository,
     [Repository EXCEPT !.packages[4].version = "0.2.0"],
     [Repository EXCEPT !.packages[2].dir = PathOrder[6],
                        !.manifests = {Http, PathOrder[6], Udp, Linux}],
     [Repository EXCEPT !.members = @ \ {"udp"}],
     [Repository EXCEPT !.members = @ \cup {"serde"}],
     [Repository EXCEPT !.packages[2].dir = PathOrder[4]],
     [Repository EXCEPT !.packages[2].name = "udp"],
     [Repository EXCEPT !.packages[3].description = " "]}

\* The values that a field of an artifact may be changed to.
Changes(field) ==
    CASE field = "kind"         -> {"package", "example", "resource"}
      [] field = "category"     -> {"net"}
      [] field = "path"         -> {Linux, Udp, PathOrder[3], PathOrder[4], PathOrder[6]}
      [] field = "cargoPackage" -> {"tcp", "linux", ""}
      [] field = "version"      -> {""}
      [] field = "description"  -> {" "}
      [] field = "readme"       -> {<<"README.md">>, Readme(Udp)}
      [] OTHER                  -> {}

Without(sequence, i) ==
    SubSeq(sequence, 1, i - 1) \o SubSeq(sequence, i + 1, Len(sequence))

With(artifact, field, value) ==
    [f \in DOMAIN artifact \cup {field} |-> IF f = field THEN value ELSE artifact[f]]

ArtifactsEdited(artifacts) ==
    {Without(artifacts, i) : i \in DOMAIN artifacts}
    \cup {[artifacts EXCEPT ![i] = artifacts[j], ![j] = artifacts[i]] :
             i, j \in DOMAIN artifacts}
    \cup {Append(artifacts, artifacts[i]) : i \in DOMAIN artifacts}
    \cup UNION {{[artifacts EXCEPT ![i] = With(artifacts[i], field, value)] :
                    value \in Changes(field)} :
                i \in DOMAIN artifacts,
                field \in RequiredFields \cup OptionalFields}
    \cup {[artifacts EXCEPT ![i] = [f \in DOMAIN @ \ {field} |-> @[f]]] :
             i \in DOMAIN artifacts, field \in {"category", "version"}}
    \cup {[artifacts EXCEPT ![1] = With(@, "maturity", "stable")]}
    \cup {[artifacts EXCEPT ![i].dependencies[group] = edges] :
             i \in DOMAIN artifacts, group \in Groups,
             edges \in {<<>>, <<Tcp>>, <<Udp, Udp>>, <<Tcp, Udp>>, <<PathOrder[8]>>}}

\* Documents of the current schema, of the one before it, and of one to come.
MCDocuments ==
    LET good == Json(Discover(Repository))
        one  == {[good EXCEPT !.artifacts = artifacts] :
                    artifacts \in ArtifactsEdited(good.artifacts)}
    IN  one \cup {[document EXCEPT !.schemaVersion = 1] : document \in one}
        \cup {[good EXCEPT !.schemaVersion = 3]}

\* A repository that has never had a catalog, in every state of the workspace; one
\* with two files that writes which ran into each other may have left; and the good
\* workspace with each of the documents.
MCRepositories ==
    LET Generable == {w \in MCWorkspaces : DiscoverError(w) = "Ok"}
    IN  {[workspace |-> w, json |-> Missing, markdown |-> Missing, changes |-> 0] :
            w \in MCWorkspaces}
        \cup {[workspace |-> Repository, json |-> Json(Discover(v)),
               markdown |-> Markdown(Discover(w)), changes |-> 0] : v, w \in Generable}
        \cup {[workspace |-> Repository, json |-> document,
               markdown |-> Markdown(Discover(Repository)), changes |-> MaxChanges] :
                 document \in MCDocuments}

MCCommandLines ==
    {<<"write">>, <<"check">>, <<"validate">>, <<"list">>, <<"list-kind", "package">>,
     <<"list-category", "net">>, <<"show", Tcp>>, <<"show-package", "tcp">>,
     <<"deps", Http>>, <<"deps", Tcp>>, <<"dependents", Udp>>, <<"dependents", Tcp>>,
     <<"list-kind", "resource">>, <<"show">>, <<"write", "now">>, <<"serve">>, <<>>}
=============================================================================
