---------------------------- MODULE ReleaseProofs ----------------------------
(***************************************************************************)
(* Proofs about ReleaseTool: for any number of commands at the same time,  *)
(* any checkout and any archives.                                          *)
(***************************************************************************)
EXTENDS ReleaseTool, TLAPS

(* the order of versions, and the chain of links *)

LEMMA StableFacts ==
  ASSUME NEW v \in Stable
  PROVE  v[1] \in Int /\ v[2] \in Int /\ v[3] \in Int
  BY DEF Stable

LEMMA OlderFacts ==
  ASSUME NEW u \in Stable, NEW v \in Stable, NEW w \in Stable
  PROVE  /\ Older(u, v) /\ Older(v, w) => Older(u, w)
         /\ Older(u, v) => u # v /\ ~ Older(v, u)
  BY StableFacts DEF Older

\* An accepted update appends one link to the chain: the new version is its
\* head, and no link compared from the old head before.
LEMMA UpdatedLinksAreAChain ==
  ASSUME NEW text \in ChangelogText, NEW previous, NEW version,
         IsChain(text), LinksCanBeUpdated(text, previous, version)
  PROVE  UpdatedLinks(text, previous, version) \in ChangelogText
         /\ IsChain(UpdatedLinks(text, previous, version))
  <1> DEFINE new == [version |-> version, base |-> previous]
             links == text.links \cup {new}
             updated == UpdatedLinks(text, previous, version)
  <1>1. /\ version \in Stable /\ previous \in Stable
        /\ Older(previous, version)
        /\ text.unreleased = <<previous>>
        /\ \A l \in text.links : l.version # version
    BY DEF LinksCanBeUpdated, IsNextVersion
  <1>2. ChainTo(previous, text.links)
    <2>1. 1 \in DOMAIN text.unreleased /\ Len(text.unreleased) = 1
          /\ text.unreleased[1] = previous
      BY <1>1
    <2>2. QED
      BY <2>1, <1>1 DEF IsChain
  <1>3. /\ updated \in ChangelogText
        /\ updated.unreleased = <<version>>
        /\ updated.links = links
    <2>1. new \in [version : AnyVersion, base : AnyVersion]
      BY <1>1 DEF AnyVersion
    <2>2. links \in SUBSET [version : AnyVersion, base : AnyVersion]
      BY <2>1 DEF ChangelogText
    <2>3. <<version>> \in Seq(AnyVersion)
      BY <1>1 DEF AnyVersion
    <2>4. QED
      BY <2>2, <2>3 DEF ChangelogText, UpdatedLinks
  <1>4. \A l \in text.links : /\ l.version \in Stable /\ l.base \in Stable
                              /\ Older(l.base, l.version)
                              /\ l.version = previous \/ Older(l.version, previous)
    BY <1>2 DEF ChainTo
  <1>5. \A l \in text.links : Older(l.version, version) /\ l.base # previous
    BY <1>1, <1>4, OlderFacts
  <1>6. \A l \in links : /\ l.version \in Stable /\ l.base \in Stable
                         /\ Older(l.base, l.version)
                         /\ l.version = version \/ Older(l.version, version)
    BY <1>1, <1>4, <1>5
  <1>7. \A l \in links : l.version = version \/ \E m \in links : m.base = l.version
    <2> SUFFICES ASSUME NEW l \in text.links PROVE \E m \in links : m.base = l.version
      OBVIOUS
    <2>1. CASE l.version = previous
      <3>1. new \in links /\ new.base = previous
        OBVIOUS
      <3>2. QED
        BY <3>1, <2>1
    <2>2. CASE \E m \in text.links : m.base = l.version
      BY <2>2
    <2>3. QED
      BY <2>1, <2>2, <1>2 DEF ChainTo
  <1>8. \A l, m \in links : l.version = m.version \/ l.base = m.base => l = m
    BY <1>1, <1>2, <1>5 DEF ChainTo
  <1>9. ChainTo(version, links)
    <2>1. new \in links /\ new.version = version
      OBVIOUS
    <2> HIDE DEF links, new
    <2>2. QED
      BY <2>1, <1>6, <1>7, <1>8 DEF ChainTo
  <1>10. QED
    <2> HIDE DEF updated, links
    <2>1. \A i \in DOMAIN updated.unreleased : updated.unreleased[i] = version
      BY <1>3
    <2>2. QED
      BY <1>3, <1>9, <2>1 DEF IsChain, updated

\* What the links of a chain allow: a version after its head has no link yet.
LEMMA NewerVersionIsUnlinked ==
  ASSUME NEW text, NEW previous, NEW version, IsChain(text),
         IsNextVersion(version, previous), text.unreleased = <<previous>>
  PROVE  LinksCanBeUpdated(text, previous, version)
  <1>1. version \in Stable /\ previous \in Stable /\ Older(previous, version)
    BY DEF IsNextVersion
  <1>2. ChainTo(previous, text.links)
    <2>1. 1 \in DOMAIN text.unreleased /\ Len(text.unreleased) = 1
          /\ text.unreleased[1] = previous
      OBVIOUS
    <2>2. QED
      BY <2>1, <1>1 DEF IsChain
  <1>3. \A l \in text.links : l.version # version
    BY <1>1, <1>2, OlderFacts DEF ChainTo
  <1>4. QED
    BY <1>3 DEF LinksCanBeUpdated

-----------------------------------------------------------------------------
(* the inductive invariant *)

LeftBy    == {"killed", "interrupted", "unlink failed"}
Inspected == {"create", "fill", "chmod", "replace"}

\* What is known of the archives when the manifest is computed, and as long as
\* it is there: nothing but a build changes them.
Verified(version) ==
  /\ version = dist.version
  /\ WheelVerdict(dist.wheel, version) = "ok"
  /\ SdistVerdict(dist.sdist, version) = "ok"
Listed ==
  /\ Verified(dist.version)
  /\ dist.others \subseteq Allowed
  /\ dist.wheel.kind = "file" /\ dist.sdist.kind = "file"

\* What is known of a process, by its next step.
TextIsReady(x) ==
  x.pc \in Writing \ {"cleanup"} =>
    /\ x.text \in Text
    /\ x.out = Changelog => x.text \in ChangelogText /\ IsChain(x.text)
    /\ x.out = Manifest => x.text = ManifestOf(dist.version) /\ Listed
OutputWasInspected(x) ==
  x.pc \in Inspected =>
    /\ file[x.out].kind # "symlink"
    /\ IF x.mode = "none" THEN file[x.out].mode \in {"none", "private"}
                          ELSE file[x.out].mode = x.mode
TempIsReady(x) ==
  /\ x.pc \in {"fill", "chmod", "replace"} => x.temp.kind = "regular"
  /\ x.pc \in {"fill", "chmod"} => x.temp.mode = "private"
  /\ x.pc \in {"chmod", "replace"} => x.temp.text = x.text
  /\ x.pc = "replace" => x.temp.mode = IF x.mode = "none" THEN "private" ELSE x.mode
Correct(x) ==
  /\ x.pc = "listing" => x.out = Manifest /\ Verified(x.version)
  /\ TextIsReady(x)
  /\ OutputWasInspected(x)
  /\ TempIsReady(x)

FilesAreWhole ==
  /\ \A f \in Path : /\ file[f].text # Partial
                     /\ file[f].mode = "none" <=> file[f].kind = "absent"
  /\ \A text \in TextsOf(Changelog) : text \in ChangelogText /\ IsChain(text)
  /\ file[Manifest].text # NoText =>
       /\ file[Manifest].kind = "regular"
       /\ file[Manifest].text = ManifestOf(dist.version)
       /\ Listed

IInv ==
  /\ TypeOK
  /\ \A l \in litter : l[2] \in LeftBy
  /\ FilesAreWhole
  /\ \A p \in Process : Correct(run[p])
-----------------------------------------------------------------------------
(* types of what is computed *)

LEMMA IdleFacts ==
  ASSUME NEW outcome \in {"none", "ok", "refused", "raised", "killed", "interrupted"}
  PROVE  /\ [Idle EXCEPT !.ended = outcome] \in Run
         /\ [Idle EXCEPT !.ended = outcome].temp = NoTemp
         /\ [Idle EXCEPT !.ended = outcome].pc = "idle"
  BY DEF Idle, At, Run, Path, Notes, Changelog, Manifest, NoTemp, Absent, File, Kinds, Modes,
         AnyVersion

LEMMA NotesAreText ==
  ASSUME NEW text \in ChangelogText, NEW version, NEW notes \in ReleaseNotes(text, version)
  PROVE  notes \in NotesText
  <1>1. PICK i \in SectionsOf(text, version) : notes = NotesAt(text, i)
    BY DEF ReleaseNotes
  <1>2. text.sections \in Seq(Section) /\ i \in DOMAIN text.sections
    BY <1>1 DEF SectionsOf, ChangelogText
  <1>3. text.sections[i] \in Section
    BY <1>2
  <1>4. QED
    BY <1>1, <1>3 DEF NotesAt, NotesText

LEMMA ManifestIsText ==
  ASSUME TypeOK, NEW version \in AnyVersion
  PROVE  ManifestOf(version) \in ManifestText
  <1>1. Archives(version).wheel \in Archive /\ Archives(version).sdist \in Archive
    BY DEF TypeOK, Archives, Archive
  <1>2. QED
    BY <1>1 DEF ManifestOf, ManifestText

\* Only the archives of the directory's version can be verified.
LEMMA VerdictIsOfTheDirectory ==
  ASSUME NEW out, NEW version, ArtifactsVerdict(out, version) = "ok"
  PROVE  /\ ArtifactOutputIsValid(out)
         /\ Verified(version)
  <1>1. /\ ArtifactOutputIsValid(out)
        /\ WheelVerdict(Archives(version).wheel, version) = "ok"
        /\ SdistVerdict(Archives(version).sdist, version) = "ok"
    BY DEF ArtifactsVerdict
  <1>2. SdistVerdict(NoArchive, version) # "ok"
    BY DEF SdistVerdict, NoArchive
  <1>3. version = dist.version
    BY <1>1, <1>2 DEF Archives
  <1>4. QED
    BY <1>1, <1>3 DEF Archives, Verified
-----------------------------------------------------------------------------
(* steps of one process that leave the files alone *)

\* Such a step keeps the invariant if what it makes of its process is correct.
LEMMA Frame ==
  ASSUME IInv, NEW p \in Process, NEW x \in Run,
         run' = [run EXCEPT ![p] = x], x.temp # NoTemp <=> x.pc \in WithTemp, Correct(x),
         UNCHANGED <<file, project, dist>>, started' \in 0..MaxCommands,
         \A l \in litter' : l \in litter \/ l \in Path \X LeftBy
  PROVE  IInv'
  <1>1. TypeOK'
    <2>1. run' \in [Process -> Run]
          /\ \A q \in Process : run'[q].temp # NoTemp <=> run'[q].pc \in WithTemp
      BY DEF IInv, TypeOK
    <2>2. litter' \subseteq Path \X {"killed", "interrupted", "unlink failed", "refused", "raised", "ok"}
      BY DEF IInv, TypeOK, LeftBy
    <2>3. QED
      BY <2>1, <2>2 DEF IInv, TypeOK
  <1>2. \A l \in litter' : l[2] \in LeftBy
    BY DEF IInv
  <1>3. FilesAreWhole'
    BY DEF IInv, FilesAreWhole, TextsOf, Listed, Verified, ManifestOf, Archives
  <1>4. \A q \in Process : Correct(run[q])'
    <2> SUFFICES ASSUME NEW q \in Process PROVE Correct(run[q])'
      OBVIOUS
    <2>1. run'[q] = IF q = p THEN x ELSE run[q]
      BY DEF IInv, TypeOK
    <2>2. Correct(run'[q])
      BY <2>1 DEF IInv
    <2>3. QED
      BY <2>2 DEF Correct, TextIsReady, OutputWasInspected, TempIsReady, Listed, Verified,
                  ManifestOf, Archives
  <1>5. QED
    BY <1>1, <1>2, <1>3, <1>4 DEF IInv

\* A process that is over, with nothing left or for a reason.
LEMMA EndsStep ==
  ASSUME IInv, NEW p \in Process,
         NEW outcome \in {"none", "ok", "refused", "raised", "killed", "interrupted"},
         NEW cause, run[p].temp = NoTemp \/ cause \in LeftBy,
         Ends(p, outcome, cause),
         UNCHANGED <<file, project, dist>>, started' \in 0..MaxCommands
  PROVE  IInv'
  <1> DEFINE x == [Idle EXCEPT !.ended = outcome]
  <1>1. x \in Run /\ x.temp = NoTemp /\ x.pc = "idle"
    BY IdleFacts
  <1>2. run' = [run EXCEPT ![p] = x]
    BY DEF Ends
  <1>3. \A l \in litter' : l \in litter \/ l \in Path \X LeftBy
    <2>1. run[p].out \in Path
      BY DEF IInv, TypeOK, Run
    <2>2. QED
      BY <2>1 DEF Ends
  <1> HIDE DEF x
  <1>4. Correct(x)
    BY <1>1 DEF Correct, TextIsReady, OutputWasInspected, TempIsReady, Writing, Inspected
  <1>5. QED
    BY <1>1, <1>2, <1>3, <1>4, Frame DEF WithTemp, Writing

LEMMA BeginFacts ==
  ASSUME IInv, NEW p \in Process, CanBegin(p), started' = started + 1
  PROVE  run[p].temp = NoTemp /\ started' \in 0..MaxCommands
  <1>1. run[p].temp # NoTemp <=> run[p].pc \in WithTemp
    BY DEF IInv, TypeOK
  <1>2. run[p].pc = "idle" /\ started < MaxCommands
    BY DEF CanBegin
  <1>3. run[p].temp = NoTemp
    BY <1>1, <1>2 DEF WithTemp
  <1>4. started \in 0..MaxCommands /\ MaxCommands \in Nat
    BY ReleaseAssumption DEF IInv, TypeOK
  <1>5. QED
    BY <1>2, <1>3, <1>4

LEMMA DecidesStep ==
  ASSUME IInv, NEW p \in Process, NEW accepted, Decides(p, accepted)
  PROVE  IInv'
  <1>1. run[p].temp = NoTemp /\ started' \in 0..MaxCommands
    BY BeginFacts DEF Decides
  <1>2. QED
    BY <1>1, EndsStep DEF Decides

LEMMA ComputesStep ==
  ASSUME IInv, NEW p \in Process, NEW out \in {Changelog, Notes}, NEW texts, Computes(p, out, texts),
         \A text \in texts : IF out = Changelog THEN text \in ChangelogText /\ IsChain(text)
                                               ELSE text \in NotesText
  PROVE  IInv'
  <1>1. run[p].temp = NoTemp /\ started' \in 0..MaxCommands
    BY BeginFacts DEF Computes
  <1>2. CASE Ends(p, "refused", "refused")
    BY <1>1, <1>2, EndsStep DEF Computes
  <1>3. ASSUME NEW text \in texts, UNCHANGED litter,
               run' = [run EXCEPT ![p] = At("inspect", out, text, Malformed)]
        PROVE  IInv'
    <2> DEFINE x == At("inspect", out, text, Malformed)
    <2>1. text \in Text
      BY DEF Text
    <2>2. /\ x \in Run /\ x.pc = "inspect" /\ x.temp = NoTemp
          /\ x.text = text /\ x.out = out
      BY <2>1 DEF At, Run, Writing, Path, NoTemp, Absent, File, Kinds, Modes, AnyVersion
    <2> HIDE DEF x
    <2>3. Correct(x)
      BY <2>1, <2>2 DEF Correct, TextIsReady, OutputWasInspected, TempIsReady, Inspected,
                        Notes, Changelog, Manifest
    <2>4. QED
      BY <2>2, <2>3, <1>1, <1>3, Frame DEF Computes, WithTemp, x
  <1>4. QED
    BY <1>2, <1>3 DEF Computes

LEMMA VerifyArtifactsStep ==
  ASSUME IInv, NEW p \in Process, NEW out \in {Manifest, Notes}, NEW version \in Version,
         VerifyArtifacts(p, out, version)
  PROVE  IInv'
  <1> DEFINE verdict == ArtifactsVerdict(out, version)
             x == At("listing", out, NoText, version)
  <1>1. run[p].temp = NoTemp /\ started' \in 0..MaxCommands
    BY BeginFacts DEF VerifyArtifacts
  <1>2. verdict \in {"ok", "refused", "raised"}
    BY DEF ArtifactsVerdict, WheelVerdict, SdistVerdict
  <1>3. CASE verdict # "ok"
    BY <1>1, <1>2, <1>3, EndsStep DEF VerifyArtifacts
  <1>4. CASE verdict = "ok"
    <2>1. out = Manifest /\ Verified(version)
      BY <1>4, VerdictIsOfTheDirectory DEF ArtifactOutputIsValid
    <2>2. /\ x \in Run /\ x.pc = "listing" /\ x.temp = NoTemp
          /\ x.version = version /\ x.out = out
      BY ReleaseAssumption DEF At, Run, Path, NoTemp, Absent, File, Kinds, Modes, AnyVersion
    <2>3. run' = [run EXCEPT ![p] = x] /\ UNCHANGED litter
      BY <1>4 DEF VerifyArtifacts
    <2> HIDE DEF x
    <2>4. Correct(x)
      BY <2>1, <2>2 DEF Correct, TextIsReady, OutputWasInspected, TempIsReady, Inspected, Writing
    <2>5. QED
      BY <2>2, <2>3, <2>4, <1>1, Frame DEF VerifyArtifacts, WithTemp
  <1>5. QED
    BY <1>3, <1>4

\* The facts about a process that a step of it starts from.
LEMMA RunFacts ==
  ASSUME IInv, NEW p \in Process
  PROVE  /\ run[p] \in Run
         /\ run[p].temp # NoTemp <=> run[p].pc \in WithTemp
         /\ Correct(run[p])
         /\ started \in 0..MaxCommands
  BY DEF IInv, TypeOK

LEMMA ListArtifactsStep ==
  ASSUME IInv, NEW p \in Process, ListArtifacts(p)
  PROVE  IInv'
  <1>1. run[p].pc = "listing" /\ run[p].temp = NoTemp
    BY RunFacts DEF ListArtifacts, WithTemp, Writing
  <1>2. run[p].out = Manifest /\ Verified(run[p].version) /\ run[p].version = dist.version
    BY <1>1, RunFacts DEF Correct, Verified
  <1>3. CASE Ends(p, "refused", "refused")
    BY <1>1, <1>3, EndsStep, RunFacts DEF ListArtifacts
  <1>4. ASSUME DistsAreListed(run[p].version), UNCHANGED litter,
               run' = [run EXCEPT ![p].pc = "inspect", ![p].text = ManifestOf(run[p].version)]
        PROVE  IInv'
    <2> DEFINE x == [run[p] EXCEPT !.pc = "inspect", !.text = ManifestOf(run[p].version)]
    <2>1. ManifestOf(run[p].version) \in Text
      BY RunFacts, ManifestIsText DEF Run, Text, IInv
    <2>2. run' = [run EXCEPT ![p] = x]
      BY <1>4
    <2>3. /\ x \in Run /\ x.pc = "inspect" /\ x.temp = NoTemp /\ x.out = Manifest
          /\ x.text = ManifestOf(dist.version)
      BY <2>1, <1>1, <1>2, RunFacts DEF Run, Writing
    <2>4. Listed
      BY <1>2, <1>4 DEF Listed, DistsAreListed, Entries, Archives
    <2> HIDE DEF x
    <2>5. Correct(x)
      BY <1>2, <2>1, <2>3, <2>4 DEF Correct, TextIsReady, OutputWasInspected, TempIsReady,
                                    Inspected, Changelog, Manifest
    <2>6. QED
      BY <1>4, <2>2, <2>3, <2>5, Frame, RunFacts DEF ListArtifacts, WithTemp
  <1>5. QED
    BY <1>3, <1>4 DEF ListArtifacts

LEMMA InspectStep ==
  ASSUME IInv, NEW p \in Process, Inspect(p)
  PROVE  IInv'
  <1>1. run[p].pc = "inspect" /\ run[p].temp = NoTemp
    BY RunFacts DEF Inspect, WithTemp
  <1>2. CASE Ends(p, "refused", "refused")
    BY <1>1, <1>2, EndsStep, RunFacts DEF Inspect
  <1>3. ASSUME file[run[p].out].kind # "symlink", UNCHANGED litter,
               run' = [run EXCEPT ![p].pc = "create", ![p].mode = file[run[p].out].mode]
        PROVE  IInv'
    <2> DEFINE mode == file[run[p].out].mode
               x == [run[p] EXCEPT !.pc = "create", !.mode = mode]
    <2>1. mode \in Modes
      BY RunFacts DEF IInv, TypeOK, File, Run
    <2>2. run' = [run EXCEPT ![p] = x]
      BY <1>3
    <2>3. /\ x \in Run /\ x.pc = "create" /\ x.temp = NoTemp /\ x.out = run[p].out
          /\ x.text = run[p].text /\ x.mode = mode
      BY <2>1, <1>1, RunFacts DEF Run, Writing
    <2> HIDE DEF x
    <2>4. Correct(x)
      BY <1>1, <1>3, <2>3, RunFacts DEF Correct, TextIsReady, OutputWasInspected, TempIsReady, Writing
    <2>5. QED
      BY <1>3, <2>2, <2>3, <2>4, Frame, RunFacts DEF Inspect, WithTemp
  <1>4. QED
    BY <1>2, <1>3 DEF Inspect

LEMMA CreateStep ==
  ASSUME IInv, NEW p \in Process, Create(p)
  PROVE  IInv'
  <1>1. run[p].pc = "create" /\ run[p].temp = NoTemp
    BY RunFacts DEF Create, WithTemp
  <1>2. CASE Ends(p, "refused", "refused")
    BY <1>1, <1>2, EndsStep, RunFacts DEF Create
  <1>3. ASSUME run' = [run EXCEPT ![p] = [Idle EXCEPT !.ended = "interrupted"]],
               litter' = litter \cup {<<run[p].out, "interrupted">>}
        PROVE  IInv'
    <2> DEFINE x == [Idle EXCEPT !.ended = "interrupted"]
    <2>1. x \in Run /\ x.temp = NoTemp /\ x.pc = "idle"
      BY IdleFacts
    <2>2. \A l \in litter' : l \in litter \/ l \in Path \X LeftBy
      <3>1. run[p].out \in Path
        BY RunFacts DEF Run
      <3>2. <<run[p].out, "interrupted">> \in Path \X LeftBy
        BY <3>1 DEF LeftBy
      <3>3. litter' = litter \cup {<<run[p].out, "interrupted">>}
        BY <1>3
      <3>4. QED
        BY <3>2, <3>3
    <2>3. run' = [run EXCEPT ![p] = x]
      BY <1>3
    <2> HIDE DEF x
    <2>4. Correct(x)
      BY <2>1 DEF Correct, TextIsReady, OutputWasInspected, TempIsReady, Writing, Inspected
    <2>5. QED
      BY <2>1, <2>2, <2>3, <2>4, Frame, RunFacts DEF Create, WithTemp
  <1>4. ASSUME run' = [run EXCEPT ![p].pc = "fill", ![p].temp = Regular(Partial, "private")],
               UNCHANGED litter
        PROVE  IInv'
    <2> DEFINE temp == Regular(Partial, "private")
               x == [run[p] EXCEPT !.pc = "fill", !.temp = temp]
    <2>1. /\ temp \in File /\ temp # NoTemp
          /\ temp.kind = "regular" /\ temp.mode = "private"
      BY DEF Regular, File, Kinds, Modes, NoTemp, Absent
    <2>2. run' = [run EXCEPT ![p] = x]
      BY <1>4
    <2> HIDE DEF temp
    <2>3. /\ x \in Run /\ x.pc = "fill" /\ x.temp = temp /\ x.out = run[p].out
          /\ x.text = run[p].text /\ x.mode = run[p].mode
      BY <2>1, <1>1, RunFacts DEF Run, Writing
    <2> HIDE DEF x
    <2>4. Correct(x)
      BY <1>1, <2>1, <2>3, RunFacts
      DEF Correct, TextIsReady, OutputWasInspected, TempIsReady, Writing, Inspected
    <2>5. QED
      BY <1>4, <2>1, <2>2, <2>3, <2>4, Frame, RunFacts DEF Create, WithTemp
  <1>5. QED
    BY <1>2, <1>3, <1>4 DEF Create

\* An error after the creation goes to the cleanup with its temporary file.
LEMMA FailsStep ==
  ASSUME IInv, NEW p \in Process, run[p].pc \in WithTemp, Fails(p),
         UNCHANGED <<file, project, dist, started>>
  PROVE  IInv'
  <1> DEFINE x == [run[p] EXCEPT !.pc = "cleanup", !.ended = "refused"]
  <1>1. run' = [run EXCEPT ![p] = x]
    BY DEF Fails
  <1>2. /\ x \in Run /\ x.pc = "cleanup" /\ x.temp = run[p].temp
    BY RunFacts DEF Run, Writing
  <1> HIDE DEF x
  <1>3. Correct(x)
    BY <1>2 DEF Correct, TextIsReady, OutputWasInspected, TempIsReady, Inspected
  <1>4. QED
    BY <1>1, <1>2, <1>3, Frame, RunFacts DEF Fails, WithTemp

LEMMA FillStep ==
  ASSUME IInv, NEW p \in Process, Fill(p)
  PROVE  IInv'
  <1>1. run[p].pc = "fill" /\ run[p].temp # NoTemp
    BY RunFacts DEF Fill, WithTemp
  <1>2. CASE Fails(p)
    BY <1>1, <1>2, FailsStep DEF Fill, WithTemp
  <1>3. ASSUME run' = [run EXCEPT ![p].temp.text = run[p].text, ![p].pc = "chmod"],
               UNCHANGED litter
        PROVE  IInv'
    <2> DEFINE temp == [run[p].temp EXCEPT !.text = run[p].text]
               x == [run[p] EXCEPT !.temp = temp, !.pc = "chmod"]
    <2>1. run[p].temp \in File /\ run[p].text \in Text /\ run[p].temp.kind = "regular"
          /\ run[p].temp.mode = "private"
      BY <1>1, RunFacts DEF Run, Correct, TextIsReady, TempIsReady, Writing
    <2>2. /\ temp \in File /\ temp # NoTemp
          /\ temp.kind = "regular" /\ temp.mode = "private" /\ temp.text = run[p].text
      BY <2>1 DEF File, Kinds, Modes, NoTemp, Absent
    <2>3. run' = [run EXCEPT ![p] = x]
      BY <1>3
    <2> HIDE DEF temp
    <2>4. /\ x \in Run /\ x.pc = "chmod" /\ x.temp = temp /\ x.out = run[p].out
          /\ x.text = run[p].text /\ x.mode = run[p].mode
      BY <2>2, <1>1, RunFacts DEF Run, Writing
    <2> HIDE DEF x
    <2>5. Correct(x)
      BY <1>1, <2>2, <2>4, RunFacts
      DEF Correct, TextIsReady, OutputWasInspected, TempIsReady, Writing, Inspected
    <2>6. QED
      BY <1>3, <2>2, <2>3, <2>4, <2>5, Frame, RunFacts DEF Fill, WithTemp
  <1>4. QED
    BY <1>2, <1>3 DEF Fill

LEMMA ChmodStep ==
  ASSUME IInv, NEW p \in Process, Chmod(p)
  PROVE  IInv'
  <1>1. run[p].pc = "chmod" /\ run[p].temp # NoTemp
    BY RunFacts DEF Chmod, WithTemp
  <1>2. CASE Fails(p)
    BY <1>1, <1>2, FailsStep DEF Chmod, WithTemp
  <1> DEFINE mode == IF run[p].mode = "none" THEN run[p].temp.mode ELSE run[p].mode
  <1>3. ASSUME run' = [run EXCEPT ![p].pc = "replace", ![p].temp.mode = mode], UNCHANGED litter
        PROVE  IInv'
    <2> DEFINE temp == [run[p].temp EXCEPT !.mode = mode]
               x == [run[p] EXCEPT !.pc = "replace", !.temp = temp]
    <2>1. run[p].temp \in File /\ run[p].temp.kind = "regular"
          /\ run[p].temp.mode = "private" /\ run[p].temp.text = run[p].text
      BY <1>1, RunFacts DEF Run, Correct, TempIsReady
    <2>2. mode \in Modes /\ mode = IF run[p].mode = "none" THEN "private" ELSE run[p].mode
      BY <2>1, RunFacts DEF Run, Modes
    <2>3. run' = [run EXCEPT ![p] = x]
      BY <1>3
    <2> HIDE DEF mode
    <2>4. /\ temp \in File /\ temp # NoTemp
          /\ temp.kind = "regular" /\ temp.mode = mode /\ temp.text = run[p].text
      BY <2>1, <2>2 DEF File, NoTemp, Absent
    <2> HIDE DEF temp
    <2>5. /\ x \in Run /\ x.pc = "replace" /\ x.temp = temp /\ x.out = run[p].out
          /\ x.text = run[p].text /\ x.mode = run[p].mode
      BY <2>4, <1>1, RunFacts DEF Run, Writing
    <2> HIDE DEF x
    <2>6. Correct(x)
      BY <1>1, <2>2, <2>4, <2>5, RunFacts
      DEF Correct, TextIsReady, OutputWasInspected, TempIsReady, Writing, Inspected
    <2>7. QED
      BY <1>3, <2>3, <2>4, <2>5, <2>6, Frame, RunFacts DEF Chmod, WithTemp
  <1>4. QED
    BY <1>2, <1>3 DEF Chmod

LEMMA CleanupStep ==
  ASSUME IInv, NEW p \in Process, Cleanup(p)
  PROVE  IInv'
  <1>1. run[p].pc = "cleanup"
        /\ run[p].ended \in {"none", "ok", "refused", "raised", "killed", "interrupted"}
    BY RunFacts DEF Cleanup, Run
  <1>2. CASE Ends(p, run[p].ended, "unlink failed")
    BY <1>1, <1>2, EndsStep, RunFacts DEF Cleanup, LeftBy
  <1>3. ASSUME run' = [run EXCEPT ![p] = [Idle EXCEPT !.ended = run[p].ended]], UNCHANGED litter
        PROVE  IInv'
    <2> DEFINE x == [Idle EXCEPT !.ended = run[p].ended]
    <2>1. x \in Run /\ x.temp = NoTemp /\ x.pc = "idle"
      BY <1>1, IdleFacts
    <2>2. run' = [run EXCEPT ![p] = x]
      BY <1>3
    <2> HIDE DEF x
    <2>3. Correct(x)
      BY <2>1 DEF Correct, TextIsReady, OutputWasInspected, TempIsReady, Writing, Inspected
    <2>4. QED
      BY <1>3, <2>1, <2>2, <2>3, Frame, RunFacts DEF Cleanup, WithTemp
  <1>4. QED
    BY <1>2, <1>3 DEF Cleanup

LEMMA InterruptStep ==
  ASSUME IInv, NEW p \in Process, Interrupt(p)
  PROVE  IInv'
  <1> DEFINE x == IF run[p].temp = NoTemp THEN [Idle EXCEPT !.ended = "interrupted"]
                  ELSE [run[p] EXCEPT !.pc = "cleanup", !.ended = "interrupted"]
  <1>1. run' = [run EXCEPT ![p] = x] /\ UNCHANGED <<file, project, dist, litter, started>>
    BY DEF Interrupt
  <1>2. x \in Run /\ (x.temp # NoTemp <=> x.pc \in WithTemp) /\ x.pc \in {"idle", "cleanup"}
    <2>1. CASE run[p].temp = NoTemp
      BY <2>1, IdleFacts DEF WithTemp
    <2>2. CASE run[p].temp # NoTemp
      BY <2>2, RunFacts DEF WithTemp, Run, Writing
    <2>3. QED
      BY <2>1, <2>2
  <1> HIDE DEF x
  <1>3. Correct(x)
    BY <1>2 DEF Correct, TextIsReady, OutputWasInspected, TempIsReady, Writing, Inspected
  <1>4. QED
    BY <1>1, <1>2, <1>3, Frame, RunFacts

LEMMA KillStep ==
  ASSUME IInv, NEW p \in Process, Kill(p)
  PROVE  IInv'
  BY EndsStep, RunFacts DEF Kill, LeftBy
-----------------------------------------------------------------------------
(* steps that change a file *)

\* The replaced file is the prepared one: regular, with the whole text and the
\* mode of the file before, so that what other commands found of it stays true.
LEMMA ReplacementFacts ==
  ASSUME IInv, NEW p \in Process, run[p].pc = "replace"
  PROVE  LET f == run[p].out
             new == run[p].temp
         IN  /\ f \in Path /\ new \in File
             /\ new.kind = "regular"
             /\ new.text \in Text
             /\ f = Changelog => new.text \in ChangelogText /\ IsChain(new.text)
             /\ f = Manifest => new.text = ManifestOf(dist.version) /\ Listed
             /\ file[f].kind # "symlink"
             /\ IF file[f].mode = "none" THEN new.mode = "private"
                                         ELSE new.mode = file[f].mode
  <1>1. /\ run[p].out \in Path /\ run[p].temp \in File /\ file[run[p].out] \in File
        /\ TextIsReady(run[p]) /\ OutputWasInspected(run[p]) /\ TempIsReady(run[p])
    BY RunFacts DEF Run, Correct, IInv, TypeOK
  <1>2. /\ run[p].temp.kind = "regular" /\ run[p].temp.text = run[p].text
        /\ run[p].temp.mode = IF run[p].mode = "none" THEN "private" ELSE run[p].mode
    BY <1>1 DEF TempIsReady
  <1>3. /\ run[p].text \in Text
        /\ run[p].out = Changelog => run[p].text \in ChangelogText /\ IsChain(run[p].text)
        /\ run[p].out = Manifest => run[p].text = ManifestOf(dist.version) /\ Listed
    BY <1>1 DEF TextIsReady, Writing
  <1>4. /\ file[run[p].out].kind # "symlink"
        /\ IF run[p].mode = "none" THEN file[run[p].out].mode \in {"none", "private"}
                                   ELSE file[run[p].out].mode = run[p].mode
    BY <1>1 DEF OutputWasInspected, Inspected
  <1>5. QED
    BY <1>1, <1>2, <1>3, <1>4

LEMMA ReplaceStep ==
  ASSUME IInv, NEW p \in Process, Replace(p)
  PROVE  IInv'
  <1>1. run[p].pc = "replace"
    BY DEF Replace
  <1>2. CASE Fails(p) /\ UNCHANGED file
    BY <1>1, <1>2, FailsStep DEF Replace, WithTemp
  <1> DEFINE f == run[p].out
             new == run[p].temp
  <1>3. ASSUME NEW outcome \in {"ok", "interrupted"}, UNCHANGED litter,
               file' = [file EXCEPT ![f] = new],
               run' = [run EXCEPT ![p] = [Idle EXCEPT !.ended = outcome]]
        PROVE  IInv'
    <2> DEFINE x == [Idle EXCEPT !.ended = outcome]
    <2>1. x \in Run /\ x.temp = NoTemp /\ x.pc = "idle"
      BY IdleFacts
    <2>2. run' = [run EXCEPT ![p] = x] /\ UNCHANGED <<project, dist, started>>
      BY <1>3 DEF Replace
    <2> HIDE DEF x
    <2>3. /\ f \in Path /\ new \in File /\ new.kind = "regular" /\ new.text \in Text
          /\ f = Changelog => new.text \in ChangelogText /\ IsChain(new.text)
          /\ f = Manifest => new.text = ManifestOf(dist.version) /\ Listed
          /\ file[f].kind # "symlink"
          /\ IF file[f].mode = "none" THEN new.mode = "private" ELSE new.mode = file[f].mode
      BY <1>1, ReplacementFacts
    <2> HIDE DEF new, f
    <2>4. file \in [Path -> File] /\ file' \in [Path -> File]
      BY <1>3, <2>3 DEF IInv, TypeOK
    <2>5. \A g \in Path : file'[g] = IF g = f THEN new ELSE file[g]
      BY <1>3, <2>4
    <2>6. TypeOK'
      <3>1. run' \in [Process -> Run]
            /\ \A q \in Process : run'[q].temp # NoTemp <=> run'[q].pc \in WithTemp
        BY <2>1, <2>2 DEF IInv, TypeOK, WithTemp
      <3>2. QED
        BY <3>1, <2>2, <2>4, <1>3 DEF IInv, TypeOK
    <2>7. ManifestOf(dist.version)' = ManifestOf(dist.version) /\ Listed' = Listed
          /\ \A version : Verified(version)' = Verified(version)
      BY <2>2 DEF Listed, Verified, ManifestOf, Archives
    <2>8. FilesAreWhole'
      <3>1. \A g \in Path : /\ file'[g].text # Partial
                            /\ file'[g].mode = "none" <=> file'[g].kind = "absent"
        BY <2>3, <2>5, ReleaseAssumption DEF IInv, FilesAreWhole
      <3>2. \A text \in TextsOf(Changelog)' : text \in ChangelogText /\ IsChain(text)
        BY <2>3, <2>5 DEF IInv, FilesAreWhole, TextsOf, Path
      <3>3. file'[Manifest].text # NoText =>
              /\ file'[Manifest].kind = "regular"
              /\ file'[Manifest].text = ManifestOf(dist.version)
              /\ Listed
        BY <2>3, <2>5 DEF IInv, FilesAreWhole, Path
      <3>4. QED
        BY <3>1, <3>2, <3>3, <2>7 DEF FilesAreWhole
    <2>9. \A q \in Process : Correct(run[q])'
      <3> SUFFICES ASSUME NEW q \in Process PROVE Correct(run[q])'
        OBVIOUS
      <3>1. CASE q = p
        <4>1. run'[q].pc = "idle"
          BY <3>1, <2>1, <2>2 DEF IInv, TypeOK
        <4>2. QED
          BY <4>1 DEF Correct, TextIsReady, OutputWasInspected, TempIsReady, Writing, Inspected
      <3>2. CASE q # p
        <4>1. run'[q] = run[q] /\ Correct(run[q]) /\ run[q].out \in Path
          BY <3>2, <2>2, RunFacts DEF IInv, TypeOK, Run
        <4>2. OutputWasInspected(run[q])'
          BY <4>1, <2>3, <2>5 DEF Correct, OutputWasInspected
        <4>3. TextIsReady(run[q])' /\ TempIsReady(run[q])'
          BY <4>1, <2>7 DEF Correct, TextIsReady, TempIsReady
        <4>4. QED
          BY <4>1, <4>2, <4>3, <2>7 DEF Correct
      <3>3. QED
        BY <3>1, <3>2
    <2>10. QED
      BY <2>6, <2>8, <2>9, <1>3 DEF IInv
  <1>4. QED
    BY <1>2, <1>3 DEF Replace

LEMMA PrepareVersionStep ==
  ASSUME IInv, NEW version \in Version, PrepareVersion(version)
  PROVE  IInv'
  <1> DEFINE old == file[Changelog].text
             new == [old EXCEPT !.sections = <<[version |-> version, body |-> "entries"]>> \o @]
  <1>1. /\ version \in Stable /\ file[Changelog].kind = "regular"
        /\ file' = [file EXCEPT ![Changelog].text = new]
        /\ project' = Prepared(version)
        /\ UNCHANGED <<dist, litter, run, started>>
    BY DEF PrepareVersion
  <1>2. old \in ChangelogText /\ IsChain(old)
    <2>1. old \in TextsOf(Changelog)
      BY DEF PrepareVersion, TextsOf
    <2>2. QED
      BY <2>1 DEF IInv, FilesAreWhole
  <1>3. new \in ChangelogText /\ new.unreleased = old.unreleased /\ new.links = old.links
    <2>1. old.sections \in Seq(Section)
      BY <1>2 DEF ChangelogText
    <2>2. [version |-> version, body |-> "entries"] \in Section
      BY <1>1 DEF Section, AnyVersion
    <2>3. <<[version |-> version, body |-> "entries"]>> \o old.sections \in Seq(Section)
      BY <2>1, <2>2
    <2>4. QED
      BY <2>3, <1>2 DEF ChangelogText
  <1> HIDE DEF old, new
  <1>4. IsChain(new)
    BY <1>2, <1>3 DEF IsChain
  <1>5. file \in [Path -> File] /\ Changelog \in Path /\ Changelog # Manifest
    BY DEF IInv, TypeOK, Path, Changelog, Manifest
  <1>6. /\ \A g \in Path \ {Changelog} : file'[g] = file[g]
        /\ file'[Changelog] = [file[Changelog] EXCEPT !.text = new]
    BY <1>1, <1>5
  <1>7. /\ file'[Changelog] \in File /\ file'[Changelog].kind = "regular"
        /\ file'[Changelog].mode = file[Changelog].mode /\ file'[Changelog].text = new
    BY <1>1, <1>3, <1>5, <1>6 DEF File, Text
  <1>8. TypeOK'
    <2>1. file' \in [Path -> File]
      BY <1>1, <1>5, <1>6, <1>7
    <2>2. QED
      BY <2>1, <1>1 DEF IInv, TypeOK
  <1>9. FilesAreWhole'
    <2>1. new # Partial
      BY <1>3, ReleaseAssumption DEF Text
    <2>2. \A g \in Path : /\ file'[g].text # Partial
                          /\ file'[g].mode = "none" <=> file'[g].kind = "absent"
      BY <1>1, <1>6, <1>7, <2>1 DEF IInv, FilesAreWhole
    <2>3. \A text \in TextsOf(Changelog)' : text \in ChangelogText /\ IsChain(text)
      BY <1>3, <1>4, <1>7 DEF TextsOf
    <2>4. file'[Manifest] = file[Manifest]
      BY <1>5, <1>6 DEF Path
    <2>5. ManifestOf(dist.version)' = ManifestOf(dist.version) /\ Listed' = Listed
      BY <1>1 DEF Listed, Verified, ManifestOf, Archives
    <2>6. QED
      BY <2>2, <2>3, <2>4, <2>5 DEF IInv, FilesAreWhole
  <1>10. \A q \in Process : Correct(run[q])'
    BY <1>1 DEF PrepareVersion, AllIdle, Correct, TextIsReady, OutputWasInspected, TempIsReady,
                Writing, Inspected
  <1>11. QED
    BY <1>1, <1>8, <1>9, <1>10 DEF IInv

LEMMA BuildStep ==
  ASSUME IInv, Build
  PROVE  IInv'
  <1>1. /\ file' = [file EXCEPT ![Manifest] = Absent] /\ dist' \in Builds
        /\ litter' \subseteq litter /\ UNCHANGED <<project, run, started>>
    BY DEF Build
  <1>2. /\ file \in [Path -> File] /\ Manifest \in Path /\ Changelog # Manifest
        /\ Absent \in File /\ Absent.text = NoText
        /\ Absent.kind = "absent" /\ Absent.mode = "none"
    BY DEF IInv, TypeOK, Path, Changelog, Manifest, Absent, File, Kinds, Modes
  <1>3. file' \in [Path -> File] /\ \A g \in Path : file'[g] = IF g = Manifest THEN Absent ELSE file[g]
    BY <1>1, <1>2
  <1>4. TypeOK'
    BY <1>1, <1>3 DEF IInv, TypeOK
  <1>5. FilesAreWhole'
    <2>1. \A g \in Path : /\ file'[g].text # Partial
                          /\ file'[g].mode = "none" <=> file'[g].kind = "absent"
      BY <1>2, <1>3, ReleaseAssumption DEF IInv, FilesAreWhole
    <2>2. TextsOf(Changelog)' = TextsOf(Changelog)
      BY <1>2, <1>3 DEF TextsOf, Path
    <2>3. file'[Manifest].text = NoText
      BY <1>2, <1>3
    <2>4. QED
      BY <2>1, <2>2, <2>3 DEF IInv, FilesAreWhole
  <1>6. \A q \in Process : Correct(run[q])'
    BY <1>1 DEF Build, AllIdle, Correct, TextIsReady, OutputWasInspected, TempIsReady,
                Writing, Inspected
  <1>7. QED
    BY <1>1, <1>4, <1>5, <1>6 DEF IInv
-----------------------------------------------------------------------------
(* the invariant holds *)

LEMMA InitIInv ==
  ASSUME Init
  PROVE  IInv
  <1>1. PICK text \in Changelogs, kinds \in [Path -> Kinds] :
          file = [f \in Path |-> Original(kinds[f], IF f = Changelog THEN text ELSE NoText)]
    BY DEF Init
  <1>2. text = Undecodable \/ (text \in ChangelogText /\ IsChain(text))
    BY ReleaseAssumption
  <1>3. /\ text \in Text \cup {NoText, Undecodable, Partial} /\ text # Partial
        /\ NoText # Partial
    BY <1>2, ReleaseAssumption DEF Text
  <1>4. \A f \in Path : LET t == IF f = Changelog THEN text ELSE NoText
                        IN  \/ kinds[f] = "absent" /\ file[f] = Absent
                            \/ /\ kinds[f] # "absent" /\ kinds[f] \in Kinds
                               /\ file[f] = [kind |-> kinds[f], text |-> t, mode |-> "project"]
    BY <1>1 DEF Original
  <1>5. \A f \in Path : /\ file[f] \in File /\ file[f].text # Partial
                        /\ file[f].mode = "none" <=> file[f].kind = "absent"
    <2> SUFFICES ASSUME NEW f \in Path
                 PROVE  /\ file[f] \in File /\ file[f].text # Partial
                        /\ file[f].mode = "none" <=> file[f].kind = "absent"
      OBVIOUS
    <2>1. CASE file[f] = Absent
      BY <2>1, <1>3 DEF Absent, File, Kinds, Modes
    <2>2. ASSUME NEW t \in {text, NoText}, NEW kind \in Kinds \ {"absent"},
                 file[f] = [kind |-> kind, text |-> t, mode |-> "project"]
          PROVE  /\ file[f] \in File /\ file[f].text # Partial
                 /\ file[f].mode = "none" <=> file[f].kind = "absent"
      BY <2>2, <1>3 DEF File, Modes
    <2>3. QED
      BY <2>1, <2>2, <1>4
  <1>6. TypeOK
    <2>1. file \in [Path -> File]
      BY <1>1, <1>5
    <2>2. Idle \in Run /\ Idle.temp = NoTemp /\ Idle.pc = "idle"
      BY DEF Idle, At, Run, Path, Notes, Changelog, Manifest, NoTemp, Absent, File, Kinds, Modes,
             AnyVersion
    <2>3. QED
      BY <2>1, <2>2, ReleaseAssumption DEF Init, TypeOK, WithTemp
  <1>7. FilesAreWhole
    <2>1. \A t \in TextsOf(Changelog) : t \in ChangelogText /\ IsChain(t)
      BY <1>2, <1>4 DEF TextsOf, Absent, Path
    <2>2. file[Manifest].text = NoText
      BY <1>4 DEF Path, Manifest, Changelog, Absent
    <2>3. QED
      BY <1>5, <2>1, <2>2 DEF FilesAreWhole
  <1>8. \A p \in Process : Correct(run[p])
    BY DEF Init, Idle, At, Correct, TextIsReady, OutputWasInspected, TempIsReady, Writing, Inspected
  <1>9. QED
    BY <1>6, <1>7, <1>8 DEF IInv, Init

\* A command begins, or goes one step.
LEMMA CommandStep ==
  ASSUME IInv, NEW p \in Process, Command(p)
  PROVE  IInv'
  <1>1. ASSUME NEW version \in Version,
               ValidateNext(p, version) \/ ValidateRelease(p, version)
        PROVE  IInv'
    BY <1>1, DecidesStep DEF ValidateNext, ValidateRelease
  <1>2. ASSUME NEW version \in Version, NEW previous \in Version, UpdateLinks(p, version, previous)
        PROVE  IInv'
    <2> DEFINE texts == {UpdatedLinks(text, previous, version) : text \in
                 {t \in TextsOf(Changelog) : LinksCanBeUpdated(t, previous, version)}}
    <2>1. \A text \in texts : text \in ChangelogText /\ IsChain(text)
      BY UpdatedLinksAreAChain DEF IInv, FilesAreWhole
    <2>2. Computes(p, Changelog, texts)
      BY <1>2 DEF UpdateLinks
    <2> HIDE DEF texts
    <2>3. QED
      BY <2>1, <2>2, ComputesStep
  <1>3. ASSUME NEW version \in Version, ExtractNotes(p, version)
        PROVE  IInv'
    <2> DEFINE texts == UNION {ReleaseNotes(text, version) : text \in TextsOf(Changelog)}
    <2>1. \A notes \in texts : notes \in NotesText
      BY NotesAreText DEF IInv, FilesAreWhole
    <2>2. Computes(p, Notes, texts) /\ Notes # Changelog
      BY <1>3 DEF ExtractNotes, Notes, Changelog
    <2> HIDE DEF texts
    <2>3. QED
      BY <2>1, <2>2, ComputesStep
  <1>4. ASSUME NEW version \in Version, NEW out \in {Manifest, Notes},
               VerifyArtifacts(p, out, version)
        PROVE  IInv'
    BY <1>4, VerifyArtifactsStep
  <1>5. QED
    BY <1>1, <1>2, <1>3, <1>4, ListArtifactsStep, InspectStep, CreateStep, FillStep, ChmodStep,
       ReplaceStep, CleanupStep, InterruptStep, KillStep DEF Command

LEMMA NextIInv ==
  ASSUME IInv, [Next]_vars
  PROVE  IInv'
  <1>1. CASE Next
    BY <1>1, CommandStep, PrepareVersionStep, BuildStep DEF Next
  <1>2. CASE UNCHANGED vars
    BY <1>2 DEF vars, IInv, TypeOK, FilesAreWhole, TextsOf, Listed, Verified, ManifestOf, Archives,
                Correct, TextIsReady, OutputWasInspected, TempIsReady
  <1>3. QED
    BY <1>1, <1>2

LEMMA Invariance == Spec => []IInv
  <1>1. Init => IInv
    BY InitIInv
  <1>2. IInv /\ [Next]_vars => IInv'
    BY NextIInv
  <1>3. QED
    BY <1>1, <1>2, PTL DEF Spec
-----------------------------------------------------------------------------
(* the theorems *)

\* The state of the files and of the commands is always of its type: a command
\* has a temporary file exactly while it is in the try block after mkstemp.
THEOREM TypeCorrect == Spec => []TypeOK
  <1>1. IInv => TypeOK
    BY DEF IInv
  <1>2. QED
    BY <1>1, Invariance, PTL

\* _write_text_atomic leaves a temporary file behind only when it is killed,
\* interrupted at the creation, or cannot unlink.
THEOREM NothingLeftBehind == Spec => []NothingIsLeftBehind
  <1>1. IInv => NothingIsLeftBehind
    BY DEF IInv, NothingIsLeftBehind, LeftBy
  <1>2. QED
    BY <1>1, Invariance, PTL

\* Whatever update-links commands run at once, and whichever of them is lost,
\* the links of the changelog are one chain under the Unreleased link.
THEOREM LinksStayAChain == Spec => []LinksFormAChain
  <1>1. IInv => LinksFormAChain
    BY DEF IInv, FilesAreWhole, LinksFormAChain
  <1>2. QED
    BY <1>1, Invariance, PTL

\* What validate-next accepts, update-links does not refuse for a link that is
\* there already: in a chain no link is newer than its head.
THEOREM AcceptedCanBeLinked == Spec => []AcceptedVersionCanBeLinked
  <1>1. IInv => AcceptedVersionCanBeLinked
    BY NewerVersionIsUnlinked DEF IInv, FilesAreWhole, AcceptedVersionCanBeLinked
  <1>2. QED
    BY <1>1, Invariance, PTL

\* The lemma of the archives: names that occur once, and the required ones of
\* type file as the last member of a name, make each required name one file, and
\* a second member at its path one that is spelled otherwise.
LEMMA RequiredAreInstalled ==
  ASSUME NEW archive, NEW required, DOMAIN archive.members \subseteq Nat,
         MemberNamesAreValid(archive), RequiredAreFiles(archive, required)
  PROVE  /\ \A name \in required :
              \E i \in DOMAIN archive.members :
                /\ archive.members[i].name = name /\ archive.members[i].type = "file"
                /\ \A j \in DOMAIN archive.members :
                     PathOf(NamesOf(archive)[j]) = name
                       => j = i \/ NamesOf(archive)[j] \in Respelled
         /\ \A i \in DOMAIN archive.members : PathOf(NamesOf(archive)[i]) \notin UnsafeNames
  <1>1. \A i \in DOMAIN archive.members : NamesOf(archive)[i] = archive.members[i].name
    BY DEF NamesOf
  <1>2. \A i \in DOMAIN archive.members : PathOf(NamesOf(archive)[i]) \notin UnsafeNames
    <2>1. \A i \in DOMAIN archive.members : NamesOf(archive)[i] \notin UnsafeNames
      BY <1>1 DEF MemberNamesAreValid, Names
    <2>2. QED
      BY <2>1 DEF PathOf, UnsafeNames
  <1>3. ASSUME NEW name \in required
        PROVE  \E i \in DOMAIN archive.members :
                 /\ archive.members[i].name = name /\ archive.members[i].type = "file"
                 /\ \A j \in DOMAIN archive.members :
                      PathOf(NamesOf(archive)[j]) = name
                        => j = i \/ NamesOf(archive)[j] \in Respelled
    <2> DEFINE IsLast(i) == /\ NamesOf(archive)[i] = name
                            /\ \A j \in DOMAIN archive.members :
                                 NamesOf(archive)[j] = name => j <= i
               last == CHOOSE i \in DOMAIN archive.members : IsLast(i)
    <2>1. PICK i \in DOMAIN archive.members : archive.members[i].name = name
      BY DEF RequiredAreFiles, Names
    <2>2. \A j \in DOMAIN archive.members : NamesOf(archive)[j] = name => j = i
      BY <1>1, <2>1 DEF MemberNamesAreValid
    <2>3. i \in Nat /\ i <= i
      OBVIOUS
    <2>4. IsLast(i)
      BY <1>1, <2>1, <2>2, <2>3
    <2>5. TypeOf(archive, name) = archive.members[last].type
      BY DEF TypeOf
    <2>6. last \in DOMAIN archive.members /\ IsLast(last)
      <3> HIDE DEF IsLast
      <3>1. QED
        BY <2>4
    <2> HIDE DEF last
    <2>7. last = i
      BY <2>2, <2>6
    <2>8. archive.members[i].type = "file"
      BY <2>5, <2>7 DEF RequiredAreFiles
    <2>9. \A other : PathOf(other) = other \/ other \in Respelled
      BY DEF PathOf, Respelled
    <2>10. QED
      BY <1>1, <2>1, <2>2, <2>8, <2>9
  <1>4. QED
    BY <1>2, <1>3

\* Whatever commands and builds come after it, the manifest lists the two
\* archives of the directory, and both are the verified ones: each public file is
\* there once under its name, and only a respelled name can share its path.
THEOREM ManifestStaysVerified == Spec => []ManifestIsOfVerified
  <1>1. ASSUME IInv
        PROVE  ManifestIsOfVerified
    <2> SUFFICES ASSUME NEW m \in TextsOf(Manifest) \ {NoText}
                 PROVE  /\ m.wheel = dist.wheel /\ m.sdist = dist.sdist /\ m.version = dist.version
                        /\ Installs(m.wheel, WheelRequired) /\ Installs(m.sdist, SdistRequired)
                        /\ Names(m.wheel) \cap MetadataNames = {"METADATA"}
                        /\ m.sdist.pyproject.version = m.version
      BY DEF ManifestIsOfVerified
    <2>1. m = ManifestOf(dist.version) /\ Listed
      BY <1>1 DEF IInv, FilesAreWhole, TextsOf
    <2>2. m.wheel = dist.wheel /\ m.sdist = dist.sdist /\ m.version = dist.version
      BY <2>1 DEF ManifestOf, Archives
    <2>3. /\ WheelVerdict(dist.wheel, dist.version) = "ok"
          /\ SdistVerdict(dist.sdist, dist.version) = "ok"
          /\ dist.wheel.kind = "file" /\ dist.sdist.kind = "file"
      BY <2>1 DEF Listed, Verified
    <2>4. /\ dist.wheel.readable /\ dist.wheel.payload = "sound"
          /\ MemberNamesAreValid(dist.wheel)
          /\ RequiredAreFiles(dist.wheel, WheelRequired)
          /\ dist.wheel.metadata.version = <<dist.version>>
          /\ \E i \in DOMAIN dist.wheel.members :
               /\ NamesOf(dist.wheel)[i] = "METADATA"
               /\ \A j \in DOMAIN dist.wheel.members :
                    NamesOf(dist.wheel)[j] \in MetadataNames => j = i
      BY <2>3 DEF WheelVerdict, MetadataIsValid
    <2>5. /\ dist.sdist.readable /\ dist.sdist.payload = "sound"
          /\ MemberNamesAreValid(dist.sdist)
          /\ RequiredAreFiles(dist.sdist, SdistRequired)
          /\ dist.sdist.metadata.version = <<dist.version>>
          /\ dist.sdist.pyproject.version = dist.version
      BY <2>3 DEF SdistVerdict, MetadataIsValid, EmbeddedPyprojectIsValid
    <2>6. DOMAIN dist.wheel.members \subseteq Nat /\ DOMAIN dist.sdist.members \subseteq Nat
      BY <1>1, <2>4, <2>5, ReleaseAssumption DEF IInv, TypeOK, Archive
    <2>7. Installs(dist.wheel, WheelRequired)
      BY <2>3, <2>4, <2>6, RequiredAreInstalled DEF Installs
    <2>8. Installs(dist.sdist, SdistRequired)
      BY <2>3, <2>5, <2>6, RequiredAreInstalled DEF Installs
    <2>9. Names(dist.wheel) \cap MetadataNames = {"METADATA"}
      BY <2>4 DEF Names, NamesOf, MetadataNames
    <2>10. QED
      BY <2>2, <2>5, <2>7, <2>8, <2>9
  <1>2. QED
    BY <1>1, Invariance, PTL

\* A directory whose manifest is there is accepted again, unless a temporary
\* file of the manifest lies in it.
THEOREM AcceptedStaysAcceptable == Spec => []AcceptedArtifactsStayAcceptable
  <1>1. ASSUME IInv, TextsOf(Manifest) \ {NoText} # {},
               \A l \in litter : l[1] # Manifest,
               \A p \in Process : run[p].out = Manifest => run[p].temp = NoTemp
        PROVE  ArtifactsVerdict(Manifest, dist.version) = "ok" /\ DistsAreListed(dist.version)
    <2>1. file[Manifest].kind = "regular" /\ Listed
      BY <1>1 DEF IInv, FilesAreWhole, TextsOf
    <2>2. ArtifactsVerdict(Manifest, dist.version) = "ok"
      BY <2>1 DEF ArtifactsVerdict, ArtifactOutputIsValid, Archives, Listed, Verified
    <2>3. Entries \subseteq Allowed
      BY <1>1, <2>1 DEF Entries, Allowed, Listed
    <2>4. QED
      BY <2>1, <2>2, <2>3 DEF DistsAreListed, Archives, Listed
  <1>2. IInv => AcceptedArtifactsStayAcceptable
    BY <1>1 DEF AcceptedArtifactsStayAcceptable
  <1>3. QED
    BY <1>2, Invariance, PTL

\* A file of the three changes only as a whole, and keeps its kind and its mode;
\* a symlink or a directory in its place keeps what it leads to.
THEOREM OutputsStayWhole == Spec => OutputsAreWhole
  <1> DEFINE Whole ==
        \A f \in Path :
          /\ file[f].kind # "absent" =>
               \/ file'[f].kind = file[f].kind /\ file'[f].mode = file[f].mode
               \/ f = Manifest /\ file'[f] = Absent
          /\ file[f].kind \in {"symlink", "directory"} => file'[f].text = file[f].text
          /\ file'[f].text # Partial
  <1>1. ASSUME IInv, IInv', Next, file' # file
        PROVE  Whole
    <2>1. \A f \in Path : /\ file'[f].text # Partial
                          /\ file[f].mode = "none" <=> file[f].kind = "absent"
          /\ file \in [Path -> File]
      BY <1>1 DEF IInv, FilesAreWhole, TypeOK
    <2>2. ASSUME NEW p \in Process, Replace(p)
          PROVE  Whole
      <3>1. /\ run[p].pc = "replace" /\ file[run[p].out].kind # "directory"
            /\ file' = [file EXCEPT ![run[p].out] = run[p].temp]
        BY <1>1, <2>2 DEF Replace
      <3>2. /\ run[p].out \in Path
            /\ run[p].temp.kind = "regular" /\ file[run[p].out].kind # "symlink"
            /\ IF file[run[p].out].mode = "none" THEN run[p].temp.mode = "private"
                                                 ELSE run[p].temp.mode = file[run[p].out].mode
        BY <1>1, <3>1, ReplacementFacts
      <3>3. file[run[p].out].kind \in {"absent", "regular"}
        BY <3>1, <3>2, <2>1 DEF File, Kinds
      <3>4. \A f \in Path : file'[f] = IF f = run[p].out THEN run[p].temp ELSE file[f]
        BY <3>1, <2>1
      <3>5. QED
        BY <2>1, <3>2, <3>3, <3>4
    <2>3. ASSUME NEW version \in Version, PrepareVersion(version)
          PROVE  Whole
      <3>1. PICK text : file[Changelog].kind = "regular" /\
              file' = [file EXCEPT ![Changelog].text = text]
        BY <2>3 DEF PrepareVersion
      <3>2. /\ \A f \in Path \ {Changelog} : file'[f] = file[f]
            /\ file'[Changelog] = [file[Changelog] EXCEPT !.text = text]
        BY <3>1, <2>1 DEF Path
      <3>3. file'[Changelog].kind = file[Changelog].kind /\ file'[Changelog].mode = file[Changelog].mode
        BY <3>2, <2>1 DEF File, Path
      <3>4. QED
        BY <2>1, <3>1, <3>2, <3>3
    <2>4. CASE Build
      <3>1. \A f \in Path : file'[f] = IF f = Manifest THEN Absent ELSE file[f]
        BY <2>4, <2>1 DEF Build
      <3>2. file[Manifest].kind \in {"symlink", "directory"} => file[Manifest].text = NoText
        BY <1>1 DEF IInv, FilesAreWhole
      <3>3. QED
        BY <2>1, <3>1, <3>2 DEF Absent
    <2>5. ASSUME NEW p \in Process, Command(p)
          PROVE  Replace(p)
      BY <1>1, <2>5 DEF Command, ValidateNext, ValidateRelease, UpdateLinks, ExtractNotes, Decides,
           Computes, VerifyArtifacts, ListArtifacts, Inspect, Create, Fill, Chmod, Cleanup,
           Interrupt, Kill
    <2>6. QED
      BY <1>1, <2>2, <2>3, <2>4, <2>5 DEF Next
  <1>2. IInv /\ IInv' /\ [Next]_vars => [Whole]_file
    BY <1>1 DEF vars
  <1>3. QED
    BY <1>2, Invariance, PTL DEF Spec, OutputsAreWhole
=============================================================================
