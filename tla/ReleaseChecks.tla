---------------------------- MODULE ReleaseChecks ----------------------------
(***************************************************************************)
(* What tools/release.py decides about versions, the changelog and the two *)
(* distributions, as operators without state.  ReleaseTool runs them       *)
(* between the reads and the writes of its commands.                       *)
(*                                                                         *)
(* A version is <<major, minor, patch>>, or Malformed when it is not a     *)
(* stable X.Y.Z.  A changelog is a record: the bases its [Unreleased]      *)
(* definitions compare from (Malformed for a definition of another form),  *)
(* the set of its version links, and its dated sections, newest first.  An *)
(* archive is a record of its members, each [name, type], and of what is   *)
(* read from them.                                                         *)
(***************************************************************************)
EXTENDS Integers, Sequences, FiniteSets
CONSTANT Malformed, \* a version string that is not stable X.Y.Z SemVer
         Missing    \* a field or a package that is not there

Stable == Nat \X Nat \X Nat
ASSUME MalformedIsNotStable == Malformed \notin Stable /\ Missing \notin Stable

\* the order of the tuples of integers that stable_version returns
Older(v, w) ==
  \/ v[1] < w[1]
  \/ v[1] = w[1] /\ v[2] < w[2]
  \/ v[1] = w[1] /\ v[2] = w[2] /\ v[3] < w[3]

IsNextVersion(version, previous) ==
  version \in Stable /\ previous \in Stable /\ Older(previous, version)
-----------------------------------------------------------------------------
(* the changelog *)

\* Mutation: the Unreleased link may compare from any version.
LinksCanBeUpdatedFromAny(text, previous, version) ==
  /\ IsNextVersion(version, previous)
  /\ Len(text.unreleased) = 1
  /\ \A l \in text.links : l.version # version

LinksCanBeUpdated(text, previous, version) ==
  /\ IsNextVersion(version, previous)
  /\ text.unreleased = <<previous>>
  /\ \A l \in text.links : l.version # version

\* Mutation: the Unreleased link still compares from the previous version.
UpdatedLinksUnderOldHead(text, previous, version) ==
  [text EXCEPT !.links = @ \cup {[version |-> version, base |-> previous]}]

UpdatedLinks(text, previous, version) ==
  [text EXCEPT !.unreleased = <<version>>,
               !.links = @ \cup {[version |-> version, base |-> previous]}]

\* The notes run to the next "## [" heading.  Behind the last section come the
\* link definitions, so the text cut out for it is never blank when there are any.
NotesAt(text, i) ==
  [section |-> text.sections[i],
   tail |-> i = Len(text.sections) /\ Len(text.unreleased) + Cardinality(text.links) > 0]

SectionsOf(text, version) ==
  {i \in DOMAIN text.sections : text.sections[i].version = version}

\* the set of the notes that can be extracted: one text, or none when refused
ReleaseNotes(text, version) ==
  {NotesAt(text, i) : i \in {j \in SectionsOf(text, version) :
     /\ version \in Stable
     /\ Cardinality(SectionsOf(text, version)) = 1
     /\ text.sections[j].body # "blank" \/ NotesAt(text, j).tail}}
\* The version links are one chain, oldest to newest, up to a head.
ChainTo(head, links) ==
  /\ \A l \in links :
       /\ l.version \in Stable /\ l.base \in Stable
       /\ Older(l.base, l.version)
       /\ l.version = head \/ Older(l.version, head)
       /\ l.version = head \/ \E m \in links : m.base = l.version
  /\ \A l, m \in links : l.version = m.version \/ l.base = m.base => l = m
  /\ links = {} \/ \E l \in links : l.version = head

\* and the head is what the Unreleased link compares from
IsChain(text) ==
  \A i \in DOMAIN text.unreleased :
    Len(text.unreleased) = 1 /\ text.unreleased[i] \in Stable
      => ChainTo(text.unreleased[i], text.links)

-----------------------------------------------------------------------------
(* the project's two version files: the parsed data, or "unreadable" *)

\* what project_version returns, as a set: empty when it raises
ProjectVersion(pyproject) ==
  {v \in {pyproject.version} : pyproject.parses /\ v # Missing}

\* lock.packages: the versions of the packages named asyncly
LockVersion(lock) ==
  {v \in {lock.packages[i] : i \in DOMAIN lock.packages} :
     lock.parses /\ Len(lock.packages) = 1 /\ v # Missing}

ReleaseIsValid(version, pyproject, lock, text) ==
  /\ version \in Stable
  /\ ProjectVersion(pyproject) = {version}
  /\ LockVersion(lock) = {version}
  /\ ReleaseNotes(text, version) # {}
-----------------------------------------------------------------------------
(* the distributions *)

NamesOf(archive) == [i \in DOMAIN archive.members |-> archive.members[i].name]
Names(archive) == {archive.members[i].name : i \in DOMAIN archive.members}

\* Two names may spell one path: "./x" stands for "<dir>/./x", "<dir>//x" and the
\* like.  The checks compare names as they are spelled; only an installer, and
\* the properties, see the path.
Respelled == {"./retry.py", "./METADATA"}
PathOf(name) ==
  CASE name = "./retry.py" -> "retry.py"
    [] name = "./METADATA" -> "METADATA"
    [] OTHER -> name

\* absolute, with "..", a backslash or a NUL, or empty
UnsafeNames == {"../up"}
\* Mutation: a name may occur more than once.
MemberNamesAreSafe(archive) == Names(archive) \cap UnsafeNames = {}

MemberNamesAreValid(archive) ==
  /\ \A i, j \in DOMAIN archive.members : NamesOf(archive)[i] = NamesOf(archive)[j] => i = j
  /\ Names(archive) \cap UnsafeNames = {}

MembersAreSupported(archive) ==
  \A i \in DOMAIN archive.members : archive.members[i].type \in {"file", "dir"}

\* by_name: a later member of a name replaces an earlier one
TypeOf(archive, name) ==
  LET last == CHOOSE i \in DOMAIN archive.members :
                /\ NamesOf(archive)[i] = name
                /\ \A j \in DOMAIN archive.members : NamesOf(archive)[j] = name => j <= i
  IN  archive.members[last].type

RequiredAreFiles(archive, required) ==
  /\ required \subseteq Names(archive)
  /\ \A name \in required : TypeOf(archive, name) = "file"

MetadataIsValid(metadata, version) ==
  /\ metadata.decodes
  /\ ~ metadata.defects
  /\ metadata.name = <<"asyncly">>
  /\ metadata.version = <<version>>
  /\ metadata.requires = <<"<4,>=3.10">>

EmbeddedPyprojectIsValid(pyproject, version) ==
  /\ pyproject.parses
  /\ pyproject.name = "asyncly"
  /\ pyproject.version = version
  /\ Len(pyproject.clauses) = 2
  /\ {pyproject.clauses[i] : i \in DOMAIN pyproject.clauses} = {"<4", ">=3.10"}

WheelRequired == {"METADATA", "retry.py", "faults.py"}
MetadataNames == {"METADATA", "other METADATA"} \* all end in .dist-info/METADATA

\* A deflate stream that cannot be decompressed makes testzip raise zlib.error,
\* which verify_wheel does not catch; a wrong checksum makes it name the member.
WheelVerdict(wheel, version) ==
  LET opened == /\ version \in Stable
                /\ wheel.readable
                /\ MemberNamesAreValid(wheel)
                /\ MembersAreSupported(wheel)
  IN  CASE opened /\ wheel.payload = "undecodable" -> "raised"
        [] /\ opened
           /\ wheel.payload = "sound"
           /\ \E i \in DOMAIN wheel.members : \* the only one, and of this name
                /\ NamesOf(wheel)[i] = "METADATA"
                /\ \A j \in DOMAIN wheel.members : NamesOf(wheel)[j] \in MetadataNames => j = i
           /\ RequiredAreFiles(wheel, WheelRequired)
           /\ MetadataIsValid(wheel.metadata, version) -> "ok"
        [] OTHER -> "refused"

SdistRequired == {"PKG-INFO", "pyproject.toml", "retry.py", "faults.py"}
SdistRoot == "root"
OutsideNames == {"elsewhere", SdistRoot} \* do not start with the prefix

SdistVerdict(sdist, version) ==
  IF /\ version \in Stable
     /\ sdist.readable /\ sdist.payload = "sound"
     /\ MemberNamesAreValid(sdist)
     /\ \A i \in DOMAIN sdist.members : sdist.members[i].name \in OutsideNames
          => sdist.members[i] = [name |-> SdistRoot, type |-> "dir"]
     /\ MembersAreSupported(sdist)
     /\ RequiredAreFiles(sdist, SdistRequired)
     /\ EmbeddedPyprojectIsValid(sdist.pyproject, version)
     /\ MetadataIsValid(sdist.metadata, version)
  THEN "ok" ELSE "refused"
=============================================================================
