------------------------------ MODULE MCRelease ------------------------------
(***************************************************************************)
(* Instances of ReleaseTool: checkouts in which at most one thing is odd.  *)
(***************************************************************************)
EXTENDS ReleaseTool, TLC

V1 == <<0, 9, 1>>
V2 == <<0, 10, 0>>
V3 == <<1, 0, 0>>
MCVersion == {V1, V2, V3, Malformed}

Link(version, base) == [version |-> version, base |-> base]
Dated(version, body) == [version |-> version, body |-> body]

GoodChangelog ==
  [unreleased |-> <<V1>>, links |-> {Link(V1, <<0, 9, 0>>)},
   sections |-> <<Dated(V1, "entries")>>]
MCChangelogs ==
  {GoodChangelog, Undecodable,
   [GoodChangelog EXCEPT !.unreleased = <<V1, V1>>],
   [GoodChangelog EXCEPT !.unreleased = <<Malformed>>],
   [GoodChangelog EXCEPT !.unreleased = <<>>, !.links = {}],
   [GoodChangelog EXCEPT !.sections = <<Dated(V1, "entries"), Dated(V1, "entries")>>],
   [GoodChangelog EXCEPT !.sections = <<Dated(V2, "blank"), Dated(V1, "blank")>>]}

Project(version) ==
  [pyproject |-> [parses |-> TRUE, version |-> version],
   lock |-> [parses |-> TRUE, packages |-> <<version>>]]
MCProjects ==
  {Project(V1),
   [Project(V1) EXCEPT !.pyproject.parses = FALSE],
   [Project(V1) EXCEPT !.pyproject.version = Missing],
   [Project(V1) EXCEPT !.lock.packages = <<V1, V2>>],
   [Project(V1) EXCEPT !.lock.packages = <<Missing>>]}

Member(name, type) == [name |-> name, type |-> type]
Metadata(version) ==
  [decodes |-> TRUE, defects |-> FALSE, name |-> <<"asyncly">>, version |-> <<version>>,
   requires |-> <<"<4,>=3.10">>]
Wheel(version) ==
  [kind |-> "file", readable |-> TRUE, payload |-> "sound",
   members |-> <<Member("retry.py", "file"), Member("faults.py", "file"),
                 Member("METADATA", "file"), Member("dir", "dir")>>,
   metadata |-> Metadata(version)]
Sdist(version) ==
  [kind |-> "file", readable |-> TRUE, payload |-> "sound",
   members |-> <<Member(SdistRoot, "dir"), Member("PKG-INFO", "file"),
                 Member("pyproject.toml", "file"), Member("retry.py", "file"),
                 Member("faults.py", "file")>>,
   metadata |-> Metadata(version),
   pyproject |-> [parses |-> TRUE, name |-> "asyncly", version |-> version,
                  clauses |-> <<"<4", ">=3.10">>]]
Dist(version) ==
  [version |-> version, wheel |-> Wheel(version), sdist |-> Sdist(version), others |-> {".gitignore"}]

\* one more member, or one taken away
With(archive, member)  == [archive EXCEPT !.members = Append(@, member)]
Without(archive, name) == [archive EXCEPT !.members = SelectSeq(@, LAMBDA m : m.name # name)]

MCWheels ==
  {With(Wheel(V1), Member("faults.py", "file")), With(Wheel(V1), Member("../up", "file")),
   With(Wheel(V1), Member("link", "special")), With(Wheel(V1), Member("other METADATA", "file")),
   With(Wheel(V1), Member("./retry.py", "file")), With(Wheel(V1), Member("./METADATA", "file")),
   With(Without(Wheel(V1), "retry.py"), Member("./retry.py", "file")),
   Without(Wheel(V1), "retry.py"), Without(Wheel(V1), "METADATA"),
   [Wheel(V1) EXCEPT !.payload = "corrupt"], [Wheel(V1) EXCEPT !.payload = "undecodable"],
   [Wheel(V1) EXCEPT !.kind = "symlink"], [NoArchive EXCEPT !.kind = "directory"], NoArchive,
   [Wheel(V1) EXCEPT !.metadata.decodes = FALSE],
   [Wheel(V1) EXCEPT !.metadata.version = <<V1, V2>>], Wheel(V2)}
MCSdists ==
  {With(Sdist(V1), Member("faults.py", "special")), With(Sdist(V1), Member("elsewhere", "file")),
   With(Sdist(V1), Member("./retry.py", "dir")),
   With(Without(Sdist(V1), "retry.py"), Member("retry.py", "dir")),
   With(Without(Sdist(V1), SdistRoot), Member(SdistRoot, "file")),
   Without(Sdist(V1), "PKG-INFO"), [Sdist(V1) EXCEPT !.payload = "corrupt"],
   [Sdist(V1) EXCEPT !.pyproject.clauses = <<"<4", "<4">>],
   [Sdist(V1) EXCEPT !.pyproject.version = V2], NoArchive}
MCDists ==
  {Dist(V1), [Dist(V1) EXCEPT !.others = {"notes.txt"}]}
    \cup {[Dist(V1) EXCEPT !.wheel = w] : w \in MCWheels}
    \cup {[Dist(V1) EXCEPT !.sdist = s] : s \in MCSdists}
MCBuilds == {Dist(V2)}

\* at most one oddity, at the start
MCInit ==
  /\ Init
  /\ \E odd \in {"changelog", "project", "dist"} \cup Path :
       /\ odd = "changelog" \/ file[Changelog].text \in {GoodChangelog, NoText}
       /\ odd = "project" \/ project = Project(V1)
       /\ odd = "dist" \/ dist = Dist(V1)
       /\ odd = Changelog \/ file[Changelog].kind = "regular"
       /\ odd = Notes \/ file[Notes].kind = "absent"
       /\ odd = Manifest \/ file[Manifest].kind = "absent"

Symmetry == Permutations(Process)
MCSpec == MCInit /\ [][Next]_vars
=============================================================================
