----------------------------- MODULE ReleaseTool -----------------------------
(***************************************************************************)
(* The commands of tools/release.py as processes over the files they share *)
(* in a checkout: the changelog, the release notes, the version files and  *)
(* the distribution directory with its manifest.  A command reads and      *)
(* decides in a step (artifacts in two: the archives, then the directory); *)
(* one that writes goes through the steps of _write_text_atomic, each of   *)
(* which may fail.  It may be killed or interrupted at any point.          *)
(***************************************************************************)
EXTENDS ReleaseChecks
CONSTANTS Process,     \* the commands that run at the same time
          Version,     \* the --version and --previous arguments
          Changelogs,  \* the texts a changelog starts with
          Projects,    \* what the two version files may hold
          Dists,       \* the contents a distribution directory starts with
          Builds,      \* the contents "uv build --clear" leaves
          MaxCommands, \* bound: commands started
          Partial,     \* a text of which only a part was written
          Undecodable, \* a text that is not UTF-8
          NoText       \* no text
NoArchive == [kind |-> "absent", readable |-> FALSE]

\* the texts of the three files the commands write
AnyVersion == Stable \cup {Malformed}
Section == [version : AnyVersion, body : {"entries", "blank"}]
ChangelogText ==
  [unreleased : Seq(AnyVersion), links : SUBSET [version : AnyVersion, base : AnyVersion],
   sections : Seq(Section)]
NotesText == [section : Section, tail : BOOLEAN]
Archive == {d.wheel : d \in Dists \cup Builds} \cup {d.sdist : d \in Dists \cup Builds}
             \cup {NoArchive}
ManifestText == [version : AnyVersion, wheel : Archive, sdist : Archive]
Text == ChangelogText \cup NotesText \cup ManifestText

\* A changelog the tool is given links its versions as a chain.
ASSUME ReleaseAssumption ==
  /\ Version \subseteq AnyVersion
  /\ \A text \in Changelogs \ {Undecodable} : text \in ChangelogText /\ IsChain(text)
  /\ \A archive \in Archive : archive.readable => DOMAIN archive.members \subseteq Nat
  /\ Partial \notin Text \cup {NoText, Undecodable}
  /\ NoText \notin Text
  /\ MaxCommands \in Nat

VARIABLES file,    \* per path: what is there, its text and its mode
          project, \* what is read from pyproject.toml and uv.lock
          dist,    \* the archives, the version in their names, other entries
          litter,  \* the temporary files left behind: <<path, how the command ended>>
          run,     \* the command each process runs
          started

vars == <<file, project, dist, litter, run, started>>

Changelog == "CHANGELOG.md"
Notes     == "release-notes.md"
Manifest  == "SHA256SUMS.json"
Path      == {Changelog, Notes, Manifest}

Absent == [kind |-> "absent", text |-> NoText, mode |-> "none"]
Regular(text, mode) == [kind |-> "regular", text |-> text, mode |-> mode]
Kinds   == {"absent", "regular", "symlink", "directory"}
\* project files are 0644, a temporary file is created 0600
Modes   == {"none", "project", "private"}
NoTemp  == Absent

\* what "uv version" leaves in the two version files
Prepared(version) ==
  [pyproject |-> [parses |-> TRUE, version |-> version],
   lock |-> [parses |-> TRUE, packages |-> <<version>>]]

\* a process between two steps that has no temporary file
At(pc, out, text, version) ==
  [pc |-> pc, out |-> out, text |-> text, mode |-> "none", temp |-> NoTemp,
   version |-> version, ended |-> "none"]
Idle == At("idle", Notes, NoText, Malformed)

\* what is written and where a process is, in the order of the steps
File     == [kind : Kinds, text : Text \cup {NoText, Undecodable, Partial}, mode : Modes]
Writing  == {"inspect", "create", "fill", "chmod", "replace", "cleanup"}
WithTemp == {"fill", "chmod", "replace", "cleanup"}
Run == [pc : {"idle", "listing"} \cup Writing, out : Path, text : Text \cup {NoText},
        mode : Modes, temp : File, version : AnyVersion,
        ended : {"none", "ok", "refused", "raised", "killed", "interrupted"}]

TypeOK ==
  /\ file \in [Path -> File]
  /\ project \in Projects \cup {Prepared(version) : version \in Version}
  /\ dist \in Dists \cup Builds
  /\ litter \subseteq Path \X {"killed", "interrupted", "unlink failed", "refused", "raised", "ok"}
  /\ run \in [Process -> Run]
  /\ \A p \in Process : run[p].temp # NoTemp <=> run[p].pc \in WithTemp
  /\ started \in 0..MaxCommands
-----------------------------------------------------------------------------
CanBegin(p) == run[p].pc = "idle" /\ started < MaxCommands

\* Mutation: the process forgets what it wrote only when it starts anew.
EndsKeepingTemp(p, outcome, cause) ==
  /\ run' = [run EXCEPT ![p].pc = "idle", ![p].ended = outcome]
  /\ litter' = IF run[p].temp = NoTemp THEN litter
               ELSE litter \cup {<<run[p].out, cause>>}

\* the command is over; a temporary file it still has stays on the disk
Ends(p, outcome, cause) ==
  /\ run' = [run EXCEPT ![p] = [Idle EXCEPT !.ended = outcome]]
  /\ litter' = IF run[p].temp = NoTemp THEN litter
               ELSE litter \cup {<<run[p].out, cause>>}

\* a command that only reads: ReleaseError is reported and exits with 1
Decides(p, accepted) ==
  /\ CanBegin(p)
  /\ started' = started + 1
  /\ Ends(p, IF accepted THEN "ok" ELSE "refused", "ok")
  /\ UNCHANGED <<file, project, dist>>

\* a command that has the text for its output, the set texts, or is refused
Computes(p, out, texts) ==
  /\ CanBegin(p)
  /\ started' = started + 1
  /\ \/ /\ texts = {}
        /\ Ends(p, "refused", "refused")
     \/ \E text \in texts :
          /\ run' = [run EXCEPT ![p] = At("inspect", out, text, Malformed)]
          /\ UNCHANGED litter
  /\ UNCHANGED <<file, project, dist>>

\* _read_text: the texts read, none when it raises; a symlink is followed
TextsOf(f) ==
  {t \in {file[f].text} : file[f].kind \in {"regular", "symlink"} /\ t # Undecodable}

ValidateNext(p, version) ==
  Decides(p, \E previous \in ProjectVersion(project.pyproject) :
               IsNextVersion(version, previous))

ValidateRelease(p, version) ==
  Decides(p, \E text \in TextsOf(Changelog) :
               ReleaseIsValid(version, project.pyproject, project.lock, text))

UpdateLinks(p, version, previous) ==
  Computes(p, Changelog,
    {UpdatedLinks(text, previous, version) : text \in
       {t \in TextsOf(Changelog) : LinksCanBeUpdated(t, previous, version)}})

ExtractNotes(p, version) ==
  Computes(p, Notes, UNION {ReleaseNotes(text, version) : text \in TextsOf(Changelog)})
-----------------------------------------------------------------------------
(* artifacts *)

ArtifactOutputIsValid(out) == out = Manifest /\ file[Manifest].kind # "symlink"

Archives(version) ==
  IF dist.version = version THEN [wheel |-> dist.wheel, sdist |-> dist.sdist]
                            ELSE [wheel |-> NoArchive, sdist |-> NoArchive]

ArtifactsVerdict(out, version) ==
  LET wheel == WheelVerdict(Archives(version).wheel, version)
  IN  IF ~ ArtifactOutputIsValid(out) THEN "refused"
      ELSE IF wheel # "ok" THEN wheel
      ELSE SdistVerdict(Archives(version).sdist, version)

VerifyArtifacts(p, out, version) ==
  /\ CanBegin(p)
  /\ started' = started + 1
  /\ LET verdict == ArtifactsVerdict(out, version)
     IN  IF verdict = "ok"
         THEN /\ run' = [run EXCEPT ![p] = At("listing", out, NoText, version)]
              /\ UNCHANGED litter
         ELSE Ends(p, verdict, verdict)
  /\ UNCHANGED <<file, project, dist>>

\* the entries of the directory beside the two archives
Entries ==
  {f \in {Manifest} : file[f].kind # "absent"}
    \cup {".tmp" : x \in {l \in litter : l[1] = Manifest}
                         \cup {q \in Process : run[q].out = Manifest /\ run[q].temp # NoTemp}}
    \cup dist.others
\* Mutation: the manifest of an earlier run is unexpected.
AllowedWithoutManifest == {".gitignore"}
Allowed == {Manifest, ".gitignore"}

DistsAreListed(version) ==
  /\ Entries \subseteq Allowed
  /\ \A a \in {Archives(version).wheel, Archives(version).sdist} : a.kind = "file"

\* the digests: no two archives have the same
ManifestOf(version) ==
  [version |-> version, wheel |-> Archives(version).wheel, sdist |-> Archives(version).sdist]

ListArtifacts(p) ==
  /\ run[p].pc = "listing"
  /\ IF DistsAreListed(run[p].version)
     THEN /\ run' = [run EXCEPT ![p].pc = "inspect", ![p].text = ManifestOf(run[p].version)]
          /\ UNCHANGED litter
     ELSE Ends(p, "refused", "refused")
  /\ UNCHANGED <<file, project, dist, started>>
-----------------------------------------------------------------------------
(* _write_text_atomic *)

\* Mutation: nothing is unlinked after an error.
FailsAtOnce(p) == Ends(p, "refused", "refused")

\* an error goes to the finally clause, which unlinks the temporary file
Fails(p) == run' = [run EXCEPT ![p].pc = "cleanup", ![p].ended = "refused"] /\ UNCHANGED litter

Inspect(p) ==
  /\ run[p].pc = "inspect"
  /\ \/ /\ file[run[p].out].kind # "symlink"
        /\ run' = [run EXCEPT ![p].pc = "create", ![p].mode = file[run[p].out].mode]
        /\ UNCHANGED litter
     \/ Ends(p, "refused", "refused") \* a symlink, or stat fails
  /\ UNCHANGED <<file, project, dist, started>>

Create(p) ==
  /\ run[p].pc = "create"
  /\ \/ /\ run' = [run EXCEPT ![p].pc = "fill", ![p].temp = Regular(Partial, "private")]
        /\ UNCHANGED litter
     \/ Ends(p, "refused", "refused")
     \/ \* interrupted before the name of the new file is kept
        /\ run' = [run EXCEPT ![p] = [Idle EXCEPT !.ended = "interrupted"]]
        /\ litter' = litter \cup {<<run[p].out, "interrupted">>}
  /\ UNCHANGED <<file, project, dist, started>>

Fill(p) ==
  /\ run[p].pc = "fill"
  /\ \/ /\ run' = [run EXCEPT ![p].temp.text = run[p].text, ![p].pc = "chmod"]
        /\ UNCHANGED litter
     \/ Fails(p)
  /\ UNCHANGED <<file, project, dist, started>>

\* Mutation: the new file keeps the mode it was created with.
ChmodNever(p) ==
  /\ run[p].pc = "chmod"
  /\ run' = [run EXCEPT ![p].pc = "replace"]
  /\ UNCHANGED <<file, project, dist, litter, started>>

Chmod(p) ==
  /\ run[p].pc = "chmod"
  /\ \/ /\ run' = [run EXCEPT ![p].pc = "replace",
                              ![p].temp.mode = IF run[p].mode = "none" THEN @ ELSE run[p].mode]
        /\ UNCHANGED litter
     \/ run[p].mode # "none" /\ Fails(p)
  /\ UNCHANGED <<file, project, dist, started>>

Replace(p) ==
  /\ run[p].pc = "replace"
  /\ \/ /\ file[run[p].out].kind # "directory"
        /\ file' = [file EXCEPT ![run[p].out] = run[p].temp]
        /\ \E outcome \in {"ok", "interrupted"} : \* the unlink finds nothing then
             run' = [run EXCEPT ![p] = [Idle EXCEPT !.ended = outcome]]
        /\ UNCHANGED litter
     \/ Fails(p) /\ UNCHANGED file
  /\ UNCHANGED <<project, dist, started>>

Cleanup(p) ==
  /\ run[p].pc = "cleanup"
  /\ \/ /\ run' = [run EXCEPT ![p] = [Idle EXCEPT !.ended = run[p].ended]]
        /\ UNCHANGED litter
     \/ Ends(p, run[p].ended, "unlink failed")
  /\ UNCHANGED <<file, project, dist, started>>

\* KeyboardInterrupt passes through the finally clause; a kill does not
Interrupt(p) ==
  /\ run[p].pc \in {"listing", "inspect", "create", "fill", "chmod", "replace"}
  /\ run' = [run EXCEPT ![p] =
              IF @.temp = NoTemp THEN [Idle EXCEPT !.ended = "interrupted"]
              ELSE [@ EXCEPT !.pc = "cleanup", !.ended = "interrupted"]]
  /\ UNCHANGED <<file, project, dist, litter, started>>

Kill(p) ==
  /\ run[p].pc # "idle"
  /\ Ends(p, "killed", "killed")
  /\ UNCHANGED <<file, project, dist, started>>
-----------------------------------------------------------------------------
(* what the release workflow and the Makefile do between commands *)

AllIdle == \A p \in Process : run[p].pc = "idle"

\* towncrier build puts a section of its own above the others, then uv version
\* sets both version files; no command of the tool runs between the two
PrepareVersion(version) ==
  /\ AllIdle
  /\ version \in Stable
  /\ file[Changelog].kind = "regular"
  /\ \E text \in TextsOf(Changelog) :
       /\ SectionsOf(text, version) = {}
       /\ file' = [file EXCEPT ![Changelog].text.sections =
                     <<[version |-> version, body |-> "entries"]>> \o @]
  /\ project' = Prepared(version)
  /\ UNCHANGED <<dist, litter, run, started>>

\* uv build --clear
Build ==
  /\ AllIdle
  /\ dist' \in Builds
  /\ file' = [file EXCEPT ![Manifest] = Absent]
  /\ litter' = {l \in litter : l[1] # Manifest}
  /\ UNCHANGED <<project, run, started>>

Original(kind, text) ==
  IF kind = "absent" THEN Absent ELSE [kind |-> kind, text |-> text, mode |-> "project"]

Init ==
  /\ \E text \in Changelogs, kinds \in [Path -> Kinds] :
       file = [f \in Path |-> Original(kinds[f], IF f = Changelog THEN text ELSE NoText)]
  /\ project \in Projects
  /\ dist \in Dists
  /\ litter = {}
  /\ run = [p \in Process |-> Idle]
  /\ started = 0

Command(p) ==
  \/ \E version \in Version :
       \/ ValidateNext(p, version)
       \/ ValidateRelease(p, version)
       \/ \E previous \in Version : UpdateLinks(p, version, previous)
       \/ ExtractNotes(p, version)
       \/ \E out \in {Manifest, Notes} : VerifyArtifacts(p, out, version)
  \/ ListArtifacts(p) \/ Inspect(p) \/ Create(p) \/ Fill(p) \/ Chmod(p) \/ Replace(p)
  \/ Cleanup(p) \/ Interrupt(p) \/ Kill(p)

Next ==
  \/ \E p \in Process : Command(p)
  \/ \E version \in Version : PrepareVersion(version)
  \/ Build

Spec == Init /\ [][Next]_vars
-----------------------------------------------------------------------------
(* properties *)

\* Whoever dies where, and whatever fails, a file that was there is there, of
\* the same kind and mode, and no file ever holds a part of a text
\* (_write_text_atomic; only "uv build --clear" removes the manifest).
OutputsAreWhole ==
  [][\A f \in Path :
       /\ file[f].kind # "absent" =>
            \/ file'[f].kind = file[f].kind /\ file'[f].mode = file[f].mode
            \/ f = Manifest /\ file'[f] = Absent
       /\ file[f].kind \in {"symlink", "directory"} => file'[f].text = file[f].text
       /\ file'[f].text # Partial]_file

\* The version links are one chain, oldest to newest, whose head the Unreleased
\* link compares from: no release is linked twice, skipped or forked
\* (update_comparison_links), also when two commands lose an update.
LinksFormAChain ==
  \A text \in TextsOf(Changelog) : IsChain(text)

\* What validate-next accepts at the start of a preparation update-links does
\* not refuse at its end for the changelog's links, as long as the project's
\* version is the one the Unreleased link compares from.
AcceptedVersionCanBeLinked ==
  \A version \in Version, text \in TextsOf(Changelog) :
    \A previous \in ProjectVersion(project.pyproject) :
      /\ IsNextVersion(version, previous)
      /\ text.unreleased = <<previous>>
      => LinksCanBeUpdated(text, previous, version)

\* A command that reports its end, whatever the outcome, leaves no temporary
\* file: only a kill, an interrupt at the creation or a failed unlink does.
NothingIsLeftBehind ==
  \A l \in litter : l[2] \in {"killed", "interrupted", "unlink failed"}

\* The manifest lists two archives that both are what is published: nothing goes
\* outside their directory, the metadata read is that of the version, and the
\* path of every public file is given once, by the verified file, or again only
\* by a member that spells the path in another way: verify_wheel and
\* verify_sdist do not see that such a member takes the place of the verified.
Installs(archive, required) ==
  /\ archive.kind = "file"
  /\ archive.payload = "sound"
  /\ \A path \in required :
       \E i \in DOMAIN archive.members :
         /\ archive.members[i].name = path /\ archive.members[i].type = "file"
         /\ \A j \in DOMAIN archive.members :
              PathOf(NamesOf(archive)[j]) = path => j = i \/ NamesOf(archive)[j] \in Respelled
  /\ \A i \in DOMAIN archive.members : PathOf(NamesOf(archive)[i]) \notin UnsafeNames
  /\ archive.metadata.version = <<dist.version>>

ManifestIsOfVerified ==
  \A m \in TextsOf(Manifest) \ {NoText} :
    /\ m.wheel = dist.wheel /\ m.sdist = dist.sdist /\ m.version = dist.version
    /\ Installs(m.wheel, WheelRequired) /\ Installs(m.sdist, SdistRequired)
    /\ Names(m.wheel) \cap MetadataNames = {"METADATA"}
    /\ m.sdist.pyproject.version = m.version

\* The published distributions are verified again where the first manifest is:
\* neither the manifest nor anything but litter makes the second run refuse.
AcceptedArtifactsStayAcceptable ==
  /\ TextsOf(Manifest) \ {NoText} # {}
  /\ \A l \in litter : l[1] # Manifest
  /\ \A p \in Process : run[p].out = Manifest => run[p].temp = NoTemp
  => ArtifactsVerdict(Manifest, dist.version) = "ok" /\ DistsAreListed(dist.version)
=============================================================================
