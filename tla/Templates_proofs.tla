-------------------------- MODULE Templates_proofs --------------------------
(***************************************************************************)
(* Proofs about the template of a project, for every template, any number  *)
(* of its versions, of versions of Renku and of changes by the user.       *)
(***************************************************************************)
EXTENDS Templates, TLAPS

Contents == [rev : Nat, mine : Nat, outside : Nat, renku : Nat]

TypeInv ==
    /\ files \in [Files -> Contents]
    /\ checksums \in [Files -> Nat \X Nat \X Nat]
    /\ project \in [version : 0 .. Len(Revisions), renku : Nat]
    /\ onlyVersions \in BOOLEAN
    /\ latest \in 1 .. Len(Revisions)
    /\ renku \in Nat /\ edits \in Nat
    /\ touched \subseteq Files

\* Only the Dockerfile has a part that does not count in its checksum.
SectionInv == \A f \in Files \ {Dockerfile} : files[f].outside = 0

\* The checksums are those of files of a template: of its version of the project
\* for the files that it has, and of what is in the project where the user left
\* the files alone.
ChecksumInv ==
    IsProject =>
        /\ \A f \in Files : checksums[f][2] = 0
        /\ \A f \in Files : Has(project.version, f) => checksums[f][1] # 0
        /\ \A f \in Files \ touched : checksums[f] = Hash(f, files[f])

\* A Dockerfile whose commits changed its version only is the one of a template.
DockerfileInv ==
    IsProject /\ onlyVersions => files[Dockerfile].rev # 0 /\ files[Dockerfile].mine = 0

IInv ==
    /\ TypeInv
    /\ SectionInv
    /\ ChecksumInv
    /\ DockerfileInv
    /\ UntouchedFilesAreCurrent

-----------------------------------------------------------------------------
\* What a template consists of.
LEMMA VersionOfTemplate ==
    ASSUME NEW v \in 1 .. Len(Revisions)
    PROVE  /\ Dockerfile \in Files /\ Has(v, Dockerfile)
           /\ \A f \in Files : Revisions[v][f] \in Nat
  BY TemplatesAssumption DEF Has

LEMMA RenderedTemplate ==
    ASSUME NEW v \in 1 .. Len(Revisions), NEW version \in Nat, NEW f \in Files
    PROVE  /\ Rendered(v, version)[f] \in Contents
           /\ Rendered(v, version)[f].rev = Revisions[v][f]
           /\ Rendered(v, version)[f].mine = 0
           /\ Rendered(v, version)[f].outside = 0
           /\ f = Dockerfile => Rendered(v, version)[f].renku = version
           /\ ~Has(v, f) => Rendered(v, version)[f] = Absent
  BY VersionOfTemplate DEF Rendered, Has, Absent, Content, Contents

LEMMA HashOfContent ==
    ASSUME NEW f \in Files, NEW c \in Contents
    PROVE  /\ Hash(f, c) \in Nat \X Nat \X Nat
           /\ Hash(f, c)[1] = c.rev /\ Hash(f, c)[2] = c.mine
           /\ \A d \in Contents : Hash(f, c) = Hash(f, d) => c.rev = d.rev /\ c.mine = d.mine
  BY DEF Hash, Contents

LEMMA CopiedContent ==
    ASSUME NEW old \in Contents, NEW new \in Contents, NEW action
    PROVE  /\ Copied(old, new, action) \in Contents
           /\ Copied(old, new, action).outside \in {old.outside, new.outside}
           /\ action = "dockerfile" => Copied(old, new, action).outside = old.outside
           /\ action \in {"copy", "append", "dockerfile"} =>
                  /\ Copied(old, new, action).rev = new.rev /\ Copied(old, new, action).renku = new.renku
                  /\ Copied(old, new, action).mine = IF action = "append" THEN old.mine ELSE new.mine
           /\ action = "copy" => Copied(old, new, action) = new
           /\ action \notin {"copy", "append", "dockerfile"} => Copied(old, new, action) = old
<1>1. CASE action = "copy"
  BY <1>1 DEF Copied
<1>2. CASE action = "append"
  BY <1>2 DEF Copied, Contents
<1>3. CASE action = "dockerfile"
  BY <1>3 DEF Copied, Contents
<1>4. CASE action \notin {"copy", "append", "dockerfile"}
  BY <1>4 DEF Copied
<1> QED
  BY <1>1, <1>2, <1>3, <1>4

\* What a command may leave behind: the invariant, of a state after it.
Sound(after) ==
    LET v == after.project.version
    IN  /\ after \in [files : [Files -> Contents], checksums : [Files -> Nat \X Nat \X Nat],
                      project : [version : 1 .. Len(Revisions), renku : Nat], touched : SUBSET Files]
        /\ \A f \in Files :
              /\ f # Dockerfile => after.files[f].outside = 0
              /\ after.checksums[f][2] = 0
              /\ Has(v, f) => after.checksums[f][1] # 0
              /\ f \notin after.touched =>
                    /\ after.checksums[f] = Hash(f, after.files[f])
                    /\ after.files[f].rev = Revisions[v][f] /\ after.files[f].mine = 0
        /\ onlyVersions => after.files[Dockerfile].rev # 0 /\ after.files[Dockerfile].mine = 0

LEMMA CommitIInv ==
    ASSUME TypeInv, NEW after, Sound(after), Commit(after)
    PROVE  IInv'
<1>1. TypeInv'
  BY DEF TypeInv, Sound, Commit
<1>2. SectionInv' /\ ChecksumInv' /\ UntouchedFilesAreCurrent'
  BY DEF Sound, Commit, SectionInv, ChecksumInv, UntouchedFilesAreCurrent, IsProject, Has
<1>3. DockerfileInv'
  BY DEF Sound, Commit, DockerfileInv, IsProject
<1> QED
  BY <1>1, <1>2, <1>3 DEF IInv

LEMMA UnchangedIsSound ==
    ASSUME IInv, IsProject
    PROVE  Sound(Unchanged)
  BY VersionOfTemplate DEF IInv, TypeInv, SectionInv, ChecksumInv, DockerfileInv, UntouchedFilesAreCurrent,
     Unchanged, Sound, IsProject, Has

\* Copying is sound when what is left behind, and not known to be the user's, has
\* the checksum of the template.
Settled(v, actions, declined, f) ==
    Has(v, f) /\ f \notin declined /\ ~(f \in touched /\ actions[f] \in {"keep", "unchanged", "append"})

LEMMA CopyIsSound ==
    ASSUME IInv, NEW v \in 1 .. Len(Revisions), NEW version \in Nat, NEW actions, NEW declined,
           \A f \in Files : Settled(v, actions, declined, f) =>
               actions[f] \in {"copy", "dockerfile"} \/ Hash(f, files[f]) = Hash(f, Rendered(v, version)[f]),
           actions[Dockerfile] # "append", IsProject \/ actions[Dockerfile] = "copy"
    PROVE  Sound(Copy(v, version, actions, declined))
<1> DEFINE rendered == Rendered(v, version)
           after == Copy(v, version, actions, declined)
<1>1. /\ after.files = [f \in Files |-> IF Has(v, f) THEN Copied(files[f], rendered[f], actions[f]) ELSE files[f]]
      /\ after.checksums = [f \in Files |-> Hash(f, rendered[f])]
      /\ after.project = [version |-> v, renku |-> version]
      /\ after.touched = {f \in Files : IF Has(v, f) THEN \/ f \in declined
                                                          \/ f \in touched /\ actions[f] \in {"keep", "unchanged", "append"}
                                        ELSE f \in touched \/ Exists(f)}
  BY DEF Copy, WrittenChecksums
<1>2. /\ \A f \in Files : /\ rendered[f] \in Contents /\ rendered[f].rev = Revisions[v][f]
                          /\ rendered[f].mine = 0 /\ rendered[f].outside = 0
                          /\ ~Has(v, f) => rendered[f] = Absent
      /\ files \in [Files -> Contents] /\ Dockerfile \in Files /\ Has(v, Dockerfile)
  BY RenderedTemplate, VersionOfTemplate DEF IInv, TypeInv
<1> HIDE DEF rendered, after
<1>3. ASSUME NEW f \in Files
      PROVE  /\ after.files[f] \in Contents
             /\ f # Dockerfile => after.files[f].outside = 0
             /\ after.checksums[f] \in Nat \X Nat \X Nat
             /\ after.checksums[f][1] = Revisions[v][f] /\ after.checksums[f][2] = 0
  <2>1. /\ files[f] \in Contents /\ rendered[f] \in Contents /\ rendered[f].outside = 0
        /\ f # Dockerfile => files[f].outside = 0
    BY <1>2 DEF IInv, SectionInv
  <2>2. after.files[f] = IF Has(v, f) THEN Copied(files[f], rendered[f], actions[f]) ELSE files[f]
    BY <1>1
  <2>3. /\ Copied(files[f], rendered[f], actions[f]) \in Contents
        /\ f # Dockerfile => Copied(files[f], rendered[f], actions[f]).outside = 0
    BY <2>1, CopiedContent
  <2>4. after.files[f] \in Contents /\ (f # Dockerfile => after.files[f].outside = 0)
    BY <2>1, <2>2, <2>3
  <2>5. after.checksums[f] = Hash(f, rendered[f])
    BY <1>1
  <2>6. /\ Hash(f, rendered[f]) \in Nat \X Nat \X Nat
        /\ Hash(f, rendered[f])[1] = rendered[f].rev /\ Hash(f, rendered[f])[2] = rendered[f].mine
    BY <2>1, HashOfContent
  <2> QED
    BY <1>2, <2>4, <2>5, <2>6
<1>4. ASSUME NEW f \in Files \ after.touched
      PROVE  /\ after.checksums[f] = Hash(f, after.files[f])
             /\ after.files[f].rev = Revisions[v][f] /\ after.files[f].mine = 0
  <2>1. CASE ~Has(v, f)
    <3>1. after.files[f] = Absent /\ rendered[f] = Absent
      BY <1>1, <1>2, <2>1 DEF Exists
    <3> QED
      BY <1>1, <2>1, <3>1 DEF Absent, Content, Has
  <2>2. CASE Has(v, f)
    <3>1. Settled(v, actions, declined, f)
      BY <1>1, <2>2 DEF Settled
    <3>2. after.files[f] = Copied(files[f], rendered[f], actions[f])
      BY <1>1, <2>2
    <3>3. /\ files[f] \in Contents /\ rendered[f] \in Contents
          /\ rendered[f].rev = Revisions[v][f] /\ rendered[f].mine = 0
          /\ after.checksums[f] = Hash(f, rendered[f])
      BY <1>1, <1>2
    <3>4. CASE actions[f] \in {"copy", "dockerfile"}
      <4>1. /\ after.files[f].rev = rendered[f].rev /\ after.files[f].mine = rendered[f].mine
            /\ after.files[f].renku = rendered[f].renku
        BY <3>2, <3>3, <3>4, CopiedContent
      <4> QED
        BY <3>3, <4>1 DEF Hash
    <3>5. CASE actions[f] \notin {"copy", "dockerfile"}
      <4>1. Hash(f, files[f]) = Hash(f, rendered[f])
        BY <3>1, <3>5 DEF rendered
      <4>2. files[f].rev = rendered[f].rev /\ files[f].mine = rendered[f].mine
        BY <3>3, <4>1, HashOfContent
      <4>3. CASE actions[f] # "append"
        BY <3>2, <3>3, <3>5, <4>1, <4>2, <4>3, CopiedContent
      <4>4. CASE actions[f] = "append"
        <5>1. /\ after.files[f].rev = rendered[f].rev /\ after.files[f].mine = files[f].mine
              /\ after.files[f].renku = rendered[f].renku
          BY <3>2, <3>3, <4>4, CopiedContent
        <5> QED
          BY <3>3, <4>2, <5>1 DEF Hash
      <4> QED
        BY <4>3, <4>4
    <3> QED
      BY <3>4, <3>5
  <2> QED
    BY <2>1, <2>2
<1>5. onlyVersions => after.files[Dockerfile].rev # 0 /\ after.files[Dockerfile].mine = 0
  <2> SUFFICES ASSUME onlyVersions PROVE after.files[Dockerfile].rev # 0 /\ after.files[Dockerfile].mine = 0
    OBVIOUS
  <2>1. rendered[Dockerfile].rev # 0
    BY <1>2 DEF Has
  <2>2. after.files[Dockerfile] = Copied(files[Dockerfile], rendered[Dockerfile], actions[Dockerfile])
    BY <1>1, <1>2
  <2>3. CASE actions[Dockerfile] \in {"copy", "dockerfile"}
    BY <1>2, <2>1, <2>2, <2>3 DEF Copied, Contents
  <2>4. CASE actions[Dockerfile] \notin {"copy", "dockerfile"}
    <3>1. after.files[Dockerfile] = files[Dockerfile] /\ IsProject
      BY <2>2, <2>4 DEF Copied
    <3> QED
      BY <3>1 DEF IInv, DockerfileInv
  <2> QED
    BY <2>3, <2>4
<1>6. /\ after \in [files : [Files -> Contents], checksums : [Files -> Nat \X Nat \X Nat],
                    project : [version : 1 .. Len(Revisions), renku : Nat], touched : SUBSET Files]
      /\ after.project.version = v
  <2>1. after.files \in [Files -> Contents]
    BY <1>1, <1>3
  <2>2. after.checksums \in [Files -> Nat \X Nat \X Nat]
    BY <1>1, <1>3
  <2>3. after = [files |-> after.files, checksums |-> after.checksums,
                 project |-> after.project, touched |-> after.touched]
    BY DEF after, Copy
  <2> QED
    BY <1>1, <2>1, <2>2, <2>3
<1>7. Sound(after)
  BY <1>3, <1>4, <1>5, <1>6 DEF Sound, Has
<1> QED
  BY <1>7 DEF after

-----------------------------------------------------------------------------
\* The commands leave sound states behind.
LEMMA RenderedVersionIsNat ==
    ASSUME TypeInv, NEW f \in Files
    PROVE  RenderedVersion(files[f]) \in Nat
  BY DEF TypeInv, Contents, RenderedVersion

LEMMA InitializeIInv ==
    ASSUME IInv, Initialize
    PROVE  IInv'
<1> DEFINE actions == [f \in Files |-> InitializeAction(f)]
           declined == {f \in Files : actions[f] \in {"keep", "append"}}
           after == Copy(latest, renku, actions, declined)
<1>1. TypeInv /\ latest \in 1 .. Len(Revisions) /\ renku \in Nat /\ Commit(after)
  BY DEF IInv, TypeInv, Initialize
<1>2. actions[Dockerfile] = "copy"
  BY TemplatesAssumption DEF InitializeAction
<1>3. \A f \in Files : Settled(latest, actions, declined, f) => actions[f] = "copy"
  BY DEF Settled, InitializeAction
<1> HIDE DEF actions, declined
<1>4. Sound(after)
  BY <1>1, <1>2, <1>3, CopyIsSound
<1> QED
  BY <1>1, <1>4, CommitIInv

LEMMA SetTemplateIInv ==
    ASSUME IInv, NEW v \in 1 .. latest, NEW interactive \in BOOLEAN, NEW answers, SetTemplate(v, interactive, answers)
    PROVE  IInv'
<1> DEFINE version == RenderedVersion(files[Dockerfile])
           new == NewChecksums(v)
           actions == [f \in Files |-> SetAction(f, new[f], interactive, answers)]
           declined == {f \in Files : actions[f] = "keep"}
           after == Copy(v, version, actions, declined)
<1>1. /\ TypeInv /\ v \in 1 .. Len(Revisions) /\ version \in Nat
      /\ IsProject /\ Commit(after)
  <2>1. TypeInv /\ Dockerfile \in Files
    BY TemplatesAssumption DEF IInv
  <2>2. v \in 1 .. Len(Revisions)
    BY <2>1, TemplatesAssumption DEF TypeInv
  <2>3. version \in Nat
    BY <2>1, RenderedVersionIsNat
  <2> HIDE DEF version
  <2> QED
    BY <2>1, <2>2, <2>3 DEF SetTemplate, version
<1>2. \A f \in Files : actions[f] # "append"
  BY DEF SetAction
<1>3. ASSUME NEW f \in Files, Settled(v, actions, declined, f)
      PROVE  actions[f] = "copy" \/ Hash(f, files[f]) = Hash(f, Rendered(v, version)[f])
  <2>1. new[f] = Hash(f, Rendered(v, version)[f])
    BY DEF NewChecksums, WrittenChecksums
  <2> HIDE DEF new
  <2> QED
    BY <1>3, <2>1 DEF Settled, SetAction, SetAsks
<1> HIDE DEF actions, declined, version
<1>4. Dockerfile \in Files
  BY TemplatesAssumption
<1>5. Sound(after)
  BY <1>1, <1>2, <1>3, <1>4, CopyIsSound
<1> QED
  BY <1>1, <1>5, CommitIInv

\* A file that the user left alone is overwritten, unless it has the content of
\* the new version already.
LEMMA UpdateIsSound ==
    ASSUME IInv, IsProject, NEW interactive \in BOOLEAN, NEW answers, CanUpdate(UpdateActions(interactive, answers))
    PROVE  Sound(AfterUpdate(UpdateActions(interactive, answers), AskedByUpdate(interactive) \ answers))
<1> DEFINE version == RenderedVersion(files[Dockerfile])
           new == NewChecksums(latest)
           actions == UpdateActions(interactive, answers)
           declined == AskedByUpdate(interactive) \ answers
<1>1. latest \in 1 .. Len(Revisions) /\ version \in Nat /\ Dockerfile \in Files /\ TypeInv
  BY RenderedVersionIsNat, TemplatesAssumption DEF IInv, TypeInv
<1>2. \A f \in Files : actions[f] = UpdateAction(f, new[f], interactive, answers)
  BY DEF UpdateActions
<1>3. \A f \in Files : actions[f] # "append"
  BY <1>2 DEF UpdateAction
<1>4. \A f \in Files : new[f] = Hash(f, Rendered(latest, version)[f])
  BY DEF NewChecksums, WrittenChecksums
<1>5. \A f \in Files : f \in declined <=> interactive /\ Has(latest, f) /\ UpdateAsks(f, new[f]) /\ f \notin answers
  BY DEF AskedByUpdate
<1>6. \A f \in Files : Has(latest, f) => actions[f] # "refused"
  BY DEF CanUpdate
<1> HIDE DEF actions, new, declined, version
<1>7. ASSUME NEW f \in Files, Settled(latest, actions, declined, f)
      PROVE  actions[f] \in {"copy", "dockerfile"} \/ Hash(f, files[f]) = Hash(f, Rendered(latest, version)[f])
  <2>1. Has(latest, f) /\ f \notin declined /\ actions[f] # "refused"
    BY <1>6, <1>7 DEF Settled
  <2>2. CASE ~UpdateAsks(f, new[f])
    BY <1>2, <1>4, <2>2 DEF UpdateAction, UpdateAsks
  <2>3. CASE UpdateAsks(f, new[f]) /\ interactive
    BY <1>2, <1>5, <2>1, <2>3 DEF UpdateAction
  <2>4. CASE UpdateAsks(f, new[f]) /\ ~interactive
    <3>1. CASE f \in touched
      BY <1>2, <1>7, <2>1, <2>4, <3>1 DEF Settled, UpdateAction
    <3>2. CASE f \notin touched
      <4>1. checksums[f] = Hash(f, files[f])
        BY <3>2 DEF IInv, ChecksumInv
      <4>2. ~IsDeleted(f)
        BY <4>1 DEF IsDeleted, Exists, Hash, NoHash, Absent, Content
      <4>3. IsOverwritten(f) /\ new[f] # checksums[f]
        BY <2>4, <4>1, <4>2 DEF IsOverwritten, UpdateAsks
      <4> QED
        BY <1>2, <2>1, <2>4, <4>3 DEF UpdateAction
    <3> QED
      BY <3>1, <3>2
  <2> QED
    BY <2>2, <2>3, <2>4
<1>8. Sound(Copy(latest, version, actions, declined))
  BY <1>1, <1>3, <1>7, CopyIsSound
<1> QED
  BY <1>8 DEF AfterUpdate, actions, declined, version

LEMMA UpdateTemplateIInv ==
    ASSUME IInv, NEW interactive \in BOOLEAN, NEW answers, UpdateTemplate(interactive, answers)
    PROVE  IInv'
<1> DEFINE actions == UpdateActions(interactive, answers)
           after == AfterUpdate(actions, AskedByUpdate(interactive) \ answers)
<1>1. IsProject /\ CanUpdate(actions) /\ Commit(after)
  BY DEF UpdateTemplate
<1>2. Sound(after)
  BY <1>1, UpdateIsSound
<1> HIDE DEF after
<1> QED
  BY <1>1, <1>2, CommitIInv DEF IInv

\* Whether the user changed the Dockerfile, the checksum that is written is one
\* of a template.
LEMMA WithDockerfileIsSound ==
    ASSUME TypeInv, NEW after, Sound(after)
    PROVE  Sound(WithDockerfile(after))
<1> DEFINE old == after.files[Dockerfile]
           new == WithVersion(old, renku)
           checksum == after.checksums[Dockerfile]
           updated == IsUpdatedByUser(old, checksum, after.project.renku)
           result == WithDockerfile(after)
<1>1. CASE old = Absent \/ old.renku >= renku
  BY <1>1 DEF WithDockerfile
<1>2. CASE ~(old = Absent \/ old.renku >= renku)
  <2>1. /\ old \in Contents /\ Dockerfile \in Files /\ renku \in Nat /\ checksum \in Nat \X Nat \X Nat
        /\ checksum[1] # 0 /\ checksum[2] = 0
    BY VersionOfTemplate DEF Sound, TypeInv
  <2>2. \A version \in Nat :
            /\ WithVersion(old, version) \in Contents /\ WithVersion(old, version).outside = old.outside
            /\ WithVersion(old, version).rev = old.rev /\ WithVersion(old, version).mine = old.mine
    BY <2>1 DEF WithVersion, Contents
  <2>3. ~updated => old.rev # 0 /\ old.mine = 0
    <3>1. CASE onlyVersions
      BY <3>1 DEF Sound
    <3>2. CASE ~updated /\ ~onlyVersions
      <4>1. checksum \in {Hash(Dockerfile, old), Hash(Dockerfile, WithVersion(old, after.project.renku))}
        BY <1>2, <3>2 DEF IsUpdatedByUser
      <4>2. after.project.renku \in Nat
        BY DEF Sound
      <4>3. PICK c \in Contents : c.rev = old.rev /\ c.mine = old.mine /\ checksum = Hash(Dockerfile, c)
        BY <2>1, <2>2, <4>1, <4>2
      <4>4. checksum[1] = c.rev /\ checksum[2] = c.mine
        BY <2>1, <4>3, HashOfContent
      <4> QED
        BY <2>1, <4>3, <4>4
    <3> QED
      BY <3>1, <3>2
  <2>4. Dockerfile \notin after.touched => ~updated
    BY <2>1 DEF Sound, IsUpdatedByUser
  <2>5. /\ Hash(Dockerfile, new) \in Nat \X Nat \X Nat
        /\ Hash(Dockerfile, new)[1] = old.rev /\ Hash(Dockerfile, new)[2] = old.mine
        /\ new \in Contents /\ new.rev = old.rev /\ new.mine = old.mine
    BY <2>1, <2>2, HashOfContent
  <2> DEFINE written == IF updated THEN checksum ELSE Hash(Dockerfile, new)
  <2>6. /\ written \in Nat \X Nat \X Nat /\ written[1] # 0 /\ written[2] = 0
        /\ Dockerfile \notin after.touched => written = Hash(Dockerfile, new)
    BY <2>1, <2>3, <2>4, <2>5
  <2>7. result = [after EXCEPT !.files[Dockerfile] = new, !.checksums[Dockerfile] = written]
    BY <1>2 DEF WithDockerfile
  <2> HIDE DEF new, written, updated, result
  <2>8. /\ result \in [files : [Files -> Contents], checksums : [Files -> Nat \X Nat \X Nat],
                       project : [version : 1 .. Len(Revisions), renku : Nat], touched : SUBSET Files]
        /\ result.project = after.project /\ result.touched = after.touched
        /\ result.files[Dockerfile] = new /\ result.checksums[Dockerfile] = written
        /\ \A f \in Files \ {Dockerfile} :
              result.files[f] = after.files[f] /\ result.checksums[f] = after.checksums[f]
    BY <2>1, <2>5, <2>6, <2>7 DEF Sound
  <2>9. Sound(result)
    <3> DEFINE v == after.project.version
               Good(state, f) ==
                  /\ f # Dockerfile => state.files[f].outside = 0
                  /\ state.checksums[f][2] = 0
                  /\ Has(v, f) => state.checksums[f][1] # 0
                  /\ f \notin after.touched =>
                        /\ state.checksums[f] = Hash(f, state.files[f])
                        /\ state.files[f].rev = Revisions[v][f] /\ state.files[f].mine = 0
    <3>1. (\A f \in Files : Good(after, f)) /\ (onlyVersions => old.rev # 0 /\ old.mine = 0)
      BY DEF Sound
    <3>2. Good(result, Dockerfile)
      <4>1. /\ Dockerfile \in Files /\ result.files[Dockerfile] = new
            /\ result.checksums[Dockerfile] = written
        BY <2>1, <2>8
      <4>2. Dockerfile \notin after.touched => old.rev = Revisions[v][Dockerfile] /\ old.mine = 0
        BY <2>1, <3>1
      <4> QED
        BY ONLY <2>5, <2>6, <4>1, <4>2
    <3>3. \A f \in Files \ {Dockerfile} : Good(result, f)
      <4> SUFFICES ASSUME NEW f \in Files \ {Dockerfile} PROVE Good(result, f)
        OBVIOUS
      <4>1. Good(after, f)
        BY <3>1
      <4>2. result.files[f] = after.files[f] /\ result.checksums[f] = after.checksums[f]
        BY <2>8
      <4> QED
        BY ONLY <4>1, <4>2
    <3>4. \A f \in Files : Good(result, f)
      BY <3>2, <3>3
    <3>5. onlyVersions => result.files[Dockerfile].rev # 0 /\ result.files[Dockerfile].mine = 0
      BY <2>5, <2>8, <3>1
    <3> HIDE DEF old
    <3> QED
      BY <2>8, <3>4, <3>5 DEF Sound
  <2> QED
    BY <2>9 DEF result
<1> QED
  BY <1>1, <1>2

LEMMA MigrateIInv ==
    ASSUME IInv, NEW skipTemplate \in BOOLEAN, NEW skipDockerfile \in BOOLEAN, Migrate(skipTemplate, skipDockerfile)
    PROVE  IInv'
<1> DEFINE actions == UpdateActions(FALSE, {})
           updates == ~skipTemplate /\ IsUpdateAvailable
           updated == IF updates THEN AfterUpdate(actions, {}) ELSE Unchanged
           after == IF skipDockerfile THEN updated ELSE WithDockerfile(updated)
<1>1. IsProject /\ TypeInv /\ Commit(after) /\ (updates => CanUpdate(actions))
  BY DEF Migrate, IInv
<1>2. updates => Sound(AfterUpdate(actions, {}))
  <2>1. AskedByUpdate(FALSE) \ {} = {}
    BY DEF AskedByUpdate
  <2>2. updates => Sound(AfterUpdate(actions, AskedByUpdate(FALSE) \ {}))
    BY <1>1, UpdateIsSound
  <2> QED
    BY <2>1, <2>2
<1>3. Sound(updated)
  BY <1>1, <1>2, UnchangedIsSound
<1> HIDE DEF updated
<1>4. Sound(after)
  BY <1>1, <1>3, WithDockerfileIsSound
<1> HIDE DEF after
<1> QED
  BY <1>1, <1>4, CommitIInv

-----------------------------------------------------------------------------
\* What the user does.
LEMMA ChangeIInv ==
    ASSUME IInv, NEW f \in Files, NEW c \in Contents, Change(f, c), f # Dockerfile => c.outside = 0
    PROVE  IInv'
<1>1. TypeInv /\ IsProject /\ c # files[f]
  BY DEF IInv, Change
<1>2. /\ files' = [files EXCEPT ![f] = c] /\ touched' = touched \cup {f}
      /\ onlyVersions' = (onlyVersions /\ (f = Dockerfile => IsVersionChange(files[f], c)))
      /\ edits' = edits + 1
      /\ UNCHANGED <<checksums, project, latest, renku>>
  BY DEF Change
<1>3. TypeInv'
  BY <1>1, <1>2 DEF TypeInv
<1>4. SectionInv' /\ ChecksumInv' /\ UntouchedFilesAreCurrent'
  BY <1>1, <1>2 DEF IInv, TypeInv, SectionInv, ChecksumInv, UntouchedFilesAreCurrent, IsProject
<1>5. DockerfileInv'
  <2> SUFFICES ASSUME onlyVersions' PROVE files'[Dockerfile].rev # 0 /\ files'[Dockerfile].mine = 0
    BY DEF DockerfileInv
  <2>1. files[Dockerfile] \in Contents /\ files[Dockerfile].rev # 0 /\ files[Dockerfile].mine = 0
    BY <1>1, <1>2, TemplatesAssumption DEF IInv, TypeInv, DockerfileInv
  <2>2. CASE f # Dockerfile
    BY <1>1, <1>2, <2>1, <2>2 DEF TypeInv
  <2>3. CASE f = Dockerfile
    <3>1. files'[Dockerfile] = c /\ IsVersionChange(files[f], c)
      BY <1>1, <1>2, <2>3 DEF TypeInv
    <3>2. files[f] # Absent
      BY <2>1, <2>3 DEF Absent, Content
    <3>3. c = WithVersion(files[f], c.renku)
      BY <1>1, <3>1, <3>2 DEF IsVersionChange
    <3> QED
      BY <2>1, <2>3, <3>1, <3>3 DEF WithVersion, Contents
  <2> QED
    BY <2>2, <2>3
<1> QED
  BY <1>3, <1>4, <1>5 DEF IInv

LEMMA UserIInv ==
    ASSUME IInv, NEW f \in Files,
           Edit(f) \/ Delete(f) \/ (\E v \in 1 .. latest : Adopt(f, v)) \/ EditOutside
             \/ \E version \in 0 .. MaxRenku : ChangeVersion(version)
    PROVE  IInv'
<1>1. /\ files \in [Files -> Contents] /\ edits \in Nat /\ Dockerfile \in Files
      /\ \A g \in Files \ {Dockerfile} : files[g].outside = 0
  BY TemplatesAssumption DEF IInv, TypeInv, SectionInv
<1>2. CASE Edit(f)
  <2>1. /\ [files[f] EXCEPT !.mine = edits + 2] \in Contents
        /\ [files[f] EXCEPT !.mine = edits + 2].outside = files[f].outside
    BY <1>1 DEF Contents
  <2> QED
    BY <1>1, <1>2, <2>1, ChangeIInv DEF Edit
<1>3. CASE Delete(f)
  <2>1. Absent \in Contents /\ Absent.outside = 0
    BY DEF Absent, Content, Contents
  <2> QED
    BY <1>3, <2>1, ChangeIInv DEF Delete
<1>4. ASSUME NEW v \in 1 .. latest, Adopt(f, v)
      PROVE  IInv'
  <2>1. v \in 1 .. Len(Revisions)
    BY TemplatesAssumption DEF IInv, TypeInv
  <2>2. Rendered(v, 0)[f] \in Contents /\ Rendered(v, 0)[f].outside = 0
    BY <2>1, RenderedTemplate
  <2> QED
    BY <1>4, <2>2, ChangeIInv DEF Adopt
<1>5. CASE EditOutside
  <2>1. [files[Dockerfile] EXCEPT !.outside = edits + 2] \in Contents
    BY <1>1 DEF Contents
  <2> QED
    BY <1>1, <1>5, <2>1, ChangeIInv DEF EditOutside
<1>6. ASSUME NEW version \in 0 .. MaxRenku, ChangeVersion(version)
      PROVE  IInv'
  <2>0. version \in Nat
    BY TemplatesAssumption
  <2>1. [files[Dockerfile] EXCEPT !.renku = version] \in Contents
    BY <1>1, <2>0 DEF Contents
  <2> QED
    BY <1>1, <1>6, <2>1, ChangeIInv DEF ChangeVersion
<1> QED
  BY <1>2, <1>3, <1>4, <1>5, <1>6

-----------------------------------------------------------------------------
LEMMA InitIInv == Init => IInv
<1> SUFFICES ASSUME Init PROVE IInv
  OBVIOUS
<1>1. TypeInv
  <2>1. files \in [Files -> Contents]
    BY DEF Init, Contents, Content, Absent
  <2>2. 1 \in 1 .. Len(Revisions) /\ 0 \in 0 .. Len(Revisions)
    BY TemplatesAssumption
  <2> QED
    BY <2>1, <2>2 DEF Init, TypeInv, NoHash
<1>2. SectionInv
  <2>1. Content(0, 1, 0, 0).outside = 0 /\ Absent.outside = 0
    BY DEF Content, Absent
  <2> QED
    BY <2>1 DEF Init, SectionInv
<1>3. ~IsProject
  BY DEF Init, IsProject
<1> QED
  BY <1>1, <1>2, <1>3 DEF IInv, ChecksumInv, DockerfileInv, UntouchedFilesAreCurrent

LEMMA NextIInv == IInv /\ [Next]_vars => IInv'
<1> SUFFICES ASSUME IInv, [Next]_vars PROVE IInv'
  OBVIOUS
<1>1. CASE Initialize
  BY <1>1, InitializeIInv
<1>2. ASSUME NEW interactive \in BOOLEAN, NEW answers, UpdateTemplate(interactive, answers)
      PROVE  IInv'
  BY <1>2, UpdateTemplateIInv
<1>3. ASSUME NEW interactive \in BOOLEAN, NEW v \in 1 .. latest, NEW answers, SetTemplate(v, interactive, answers)
      PROVE  IInv'
  BY <1>3, SetTemplateIInv
<1>4. ASSUME NEW skipTemplate \in BOOLEAN, NEW skipDockerfile \in BOOLEAN, Migrate(skipTemplate, skipDockerfile)
      PROVE  IInv'
  BY <1>4, MigrateIInv
<1>5. ASSUME NEW f \in Files, Edit(f) \/ Delete(f) \/ \E v \in 1 .. latest : Adopt(f, v)
      PROVE  IInv'
  BY <1>5, UserIInv
<1>6. CASE EditOutside \/ \E version \in 0 .. MaxRenku : ChangeVersion(version)
  BY <1>6, UserIInv, TemplatesAssumption
<1>7. CASE Publish \/ Upgrade \/ UNCHANGED vars
  <2>1. UNCHANGED <<files, checksums, project, onlyVersions, edits, touched>>
    BY <1>7 DEF Publish, Upgrade, vars
  <2>2. latest \in 1 .. Len(Revisions) /\ Len(Revisions) \in Nat /\ renku \in Nat
    BY TemplatesAssumption DEF IInv, TypeInv
  <2>3. latest' \in 1 .. Len(Revisions)
    BY <1>7, <2>2 DEF Publish, Upgrade, vars
  <2>4. renku' \in Nat
    BY <1>7, <2>2 DEF Publish, Upgrade, vars
  <2> QED
    BY <2>1, <2>3, <2>4 DEF IInv, TypeInv, SectionInv, ChecksumInv, DockerfileInv, UntouchedFilesAreCurrent,
       IsProject
<1> QED
  BY <1>1, <1>2, <1>3, <1>4, <1>5, <1>6, <1>7 DEF Next

LEMMA Invariance == Spec => []IInv
<1> QED
  BY InitIInv, NextIInv, PTL DEF Spec

\* A file that the user left alone follows the template: no update mistakes it
\* for one that the user changed, because its checksum is kept with it.
THEOREM UntouchedFilesFollowTheTemplate == Spec => []UntouchedFilesAreCurrent
<1>1. IInv => UntouchedFilesAreCurrent
  BY DEF IInv
<1> QED
  BY <1>1, Invariance, PTL

-----------------------------------------------------------------------------
\* What the user wrote in a file, or the absence of a file of the template, is
\* still there when the file has content c.
Kept(f, c) ==
    /\ files[f].mine \in {0, c.mine} /\ files[f].outside \in {0, c.outside}
    /\ Has(project.version, f) /\ ~Exists(f) => c = Absent

LEMMA UpdateKeeps ==
    ASSUME IInv, IsProject, NEW interactive \in BOOLEAN, NEW answers, NEW declined,
           CanUpdate(UpdateActions(interactive, answers)),
           NEW f \in Files, interactive => f \notin answers
    PROVE  Kept(f, AfterUpdate(UpdateActions(interactive, answers), declined).files[f])
<1> DEFINE version == RenderedVersion(files[Dockerfile])
           rendered == Rendered(latest, version)
           new == NewChecksums(latest)
           action == UpdateActions(interactive, answers)[f]
           content == AfterUpdate(UpdateActions(interactive, answers), declined).files[f]
<1>1. latest \in 1 .. Len(Revisions) /\ version \in Nat /\ Dockerfile \in Files /\ files[f] \in Contents
  BY RenderedVersionIsNat, TemplatesAssumption DEF IInv, TypeInv
<1>2. rendered[f] \in Contents
  BY <1>1, RenderedTemplate
<1>3. content = IF Has(latest, f) THEN Copied(files[f], rendered[f], action) ELSE files[f]
  BY DEF AfterUpdate, Copy
<1>4. action = UpdateAction(f, new[f], interactive, answers)
  BY DEF UpdateActions
<1> HIDE DEF content, action, new, rendered, version
<1>5. Kept(f, files[f])
  BY DEF Kept, Exists
<1>6. CASE ~Has(latest, f) \/ action \notin {"copy", "append", "dockerfile"}
  BY <1>1, <1>2, <1>3, <1>5, <1>6, CopiedContent DEF content
<1>7. CASE action = "copy"
  <2>1. CASE ~Exists(f) /\ ~IsDeleted(f)
    <3>1. files[f] = Absent /\ Absent.mine = 0 /\ Absent.outside = 0 /\ NoHash[1] = 0
      BY <2>1 DEF Exists, Absent, Content, NoHash
    <3>2. ~Has(project.version, f)
      BY <2>1, <3>1 DEF IsDeleted, IInv, ChecksumInv
    <3> QED
      BY <3>1, <3>2 DEF Kept
  <2>2. CASE ~(~Exists(f) /\ ~IsDeleted(f))
    <3>1. f # Dockerfile /\ IsOverwritten(f) /\ Exists(f)
      BY <1>4, <1>7, <2>2 DEF UpdateAction, UpdateAsks, IsOverwritten
    <3>2. files[f].outside = 0
      BY <3>1 DEF IInv, SectionInv
    <3>3. files[f].mine = 0
      BY <1>1, <3>1, HashOfContent DEF IsOverwritten, IInv, ChecksumInv
    <3> QED
      BY <3>1, <3>2, <3>3 DEF Kept
  <2> QED
    BY <2>1, <2>2
<1>8. CASE action = "dockerfile" /\ Has(latest, f)
  <2>1. f = Dockerfile /\ ~IsUpdatedByUser(files[f], checksums[f], project.renku)
    BY <1>4, <1>8 DEF UpdateAction
  <2>2. Exists(f)
    BY <1>8, <2>1 DEF CanUpdate, CanHash
  <2>3. content.outside = files[f].outside
    BY <1>1, <1>2, <1>3, <1>8, CopiedContent
  <2>4. files[f].mine = 0
    <3>1. CASE onlyVersions
      BY <2>1, <3>1 DEF IInv, DockerfileInv
    <3>2. CASE ~onlyVersions
      <4>1. PICK c \in {files[f], WithVersion(files[f], project.renku)} : checksums[f] = Hash(Dockerfile, c)
        BY <2>1, <2>2, <3>2 DEF IsUpdatedByUser, Exists
      <4>2. c \in Contents /\ c.mine = files[f].mine
        BY <1>1 DEF WithVersion, Contents, IInv, TypeInv
      <4>3. checksums[f][2] = c.mine
        BY <2>1, <4>1, <4>2, HashOfContent
      <4> QED
        BY <4>2, <4>3 DEF IInv, ChecksumInv
    <3> QED
      BY <3>1, <3>2
  <2> QED
    BY <2>2, <2>3, <2>4 DEF Kept, content
<1>9. action # "append"
  BY <1>4 DEF UpdateAction
<1> QED
  BY <1>6, <1>7, <1>8, <1>9

LEMMA MigrateKeeps ==
    ASSUME IInv, NEW skipTemplate \in BOOLEAN, NEW skipDockerfile \in BOOLEAN, Migrate(skipTemplate, skipDockerfile),
           NEW f \in Files
    PROVE  Kept(f, files'[f])
<1> DEFINE actions == UpdateActions(FALSE, {})
           updates == ~skipTemplate /\ IsUpdateAvailable
           updated == IF updates THEN AfterUpdate(actions, {}) ELSE Unchanged
           old == updated.files[Dockerfile]
<1>1. /\ IsProject /\ (updates => CanUpdate(actions))
      /\ files' = (IF skipDockerfile THEN updated ELSE WithDockerfile(updated)).files
  BY DEF Migrate, Commit
<1>2. Kept(f, updated.files[f])
  <2>1. CASE updates
    BY <1>1, <2>1, UpdateKeeps
  <2>2. CASE ~updates
    BY <2>2 DEF Unchanged, Kept, Exists
  <2> QED
    BY <2>1, <2>2
<1>3. CASE skipDockerfile \/ old = Absent \/ old.renku >= renku
  BY <1>1, <1>2, <1>3 DEF WithDockerfile
<1>4. CASE ~(skipDockerfile \/ old = Absent \/ old.renku >= renku)
  <2>1. updated.files \in [Files -> Contents] /\ Dockerfile \in Files
    <3>1. Sound(updated)
      <4>1. updates => Sound(AfterUpdate(actions, {}))
        <5>1. AskedByUpdate(FALSE) \ {} = {}
          BY DEF AskedByUpdate
        <5>2. updates => Sound(AfterUpdate(actions, AskedByUpdate(FALSE) \ {}))
          BY <1>1, UpdateIsSound
        <5> QED
          BY <5>1, <5>2
      <4> QED
        BY <1>1, <4>1, UnchangedIsSound
    <3> QED
      BY <3>1, TemplatesAssumption DEF Sound
  <2> HIDE DEF updated
  <2>2. files' = [updated.files EXCEPT ![Dockerfile] = WithVersion(old, renku)]
    BY <1>1, <1>4 DEF WithDockerfile
  <2>3. CASE f # Dockerfile
    BY <1>2, <2>1, <2>2, <2>3
  <2>4. CASE f = Dockerfile
    <3>1. files'[f] = WithVersion(old, renku) /\ old \in Contents
      BY <2>1, <2>2, <2>4
    <3>2. files'[f].mine = old.mine /\ files'[f].outside = old.outside
      BY <3>1 DEF WithVersion, Contents
    <3> QED
      BY <1>2, <1>4, <2>4, <3>2 DEF Kept
  <2> QED
    BY <2>3, <2>4
<1> QED
  BY <1>3, <1>4

\* What the user wrote is overwritten, and what was deleted comes back, only
\* with an answer of the user: a checksum that an update accepts is one of a
\* template, so the file has no change of the user.
THEOREM UserChangesStay == Spec => UserChangesAreKept
<1>1. ASSUME NEW f \in Files, Kept(f, files'[f])
      PROVE  f \notin Overwritten /\ f \notin Restored
  BY <1>1 DEF Kept, Overwritten, Restored, Exists
<1>2. ASSUME IInv, IsProject, Overwritten \cup Restored # {}
      PROVE  /\ ~\E skipTemplate, skipDockerfile \in BOOLEAN : Migrate(skipTemplate, skipDockerfile)
             /\ ~UpdateTemplate(FALSE, {})
             /\ \A answers \in SUBSET AskedByUpdate(TRUE) :
                     Overwritten \cup Restored \subseteq answers \/ ~UpdateTemplate(TRUE, answers)
             /\ \A answers \in SUBSET AskedBySet(project'.version, TRUE) :
                     Overwritten \subseteq answers \/ ~SetTemplate(project'.version, TRUE, answers)
  <2>1. Overwritten \cup Restored \subseteq Files
    BY DEF Overwritten, Restored
  <2>2. ASSUME NEW skipTemplate \in BOOLEAN, NEW skipDockerfile \in BOOLEAN
        PROVE  ~Migrate(skipTemplate, skipDockerfile)
    BY <1>1, <1>2, <2>1, MigrateKeeps
  <2>3. ASSUME NEW interactive \in BOOLEAN, NEW answers, UpdateTemplate(interactive, answers),
               NEW f \in Overwritten \cup Restored
        PROVE  interactive /\ f \in answers
    <3>1. /\ CanUpdate(UpdateActions(interactive, answers)) /\ f \in Files
          /\ files' = AfterUpdate(UpdateActions(interactive, answers), AskedByUpdate(interactive) \ answers).files
      BY <2>1, <2>3 DEF UpdateTemplate, Commit
    <3> QED
      BY <1>1, <1>2, <3>1, UpdateKeeps
  <2>4. ASSUME NEW v, NEW answers, SetTemplate(v, TRUE, answers), NEW f \in Overwritten
        PROVE  f \in answers
    <3> DEFINE version == RenderedVersion(files[Dockerfile])
               actions == [g \in Files |-> SetAction(g, NewChecksums(v)[g], TRUE, answers)]
               action == SetAction(f, NewChecksums(v)[f], TRUE, answers)
    <3>1. f \in Files /\ files'[f] = IF Has(v, f) THEN Copied(files[f], Rendered(v, version)[f], action) ELSE files[f]
      <4>1. f \in Files /\ actions[f] = action
        BY DEF Overwritten
      <4>2. files' = Copy(v, version, actions, {g \in Files : actions[g] = "keep"}).files
        BY <2>4 DEF SetTemplate, Commit
      <4> HIDE DEF actions, action, version
      <4>3. files'[f] = IF Has(v, f) THEN Copied(files[f], Rendered(v, version)[f], actions[f]) ELSE files[f]
        BY <4>1, <4>2 DEF Copy
      <4> QED
        BY <4>1, <4>3
    <3>2. files[f] # Absent
      BY DEF Overwritten, Absent, Content
    <3>3. CASE f \notin answers
      <4>1. action \in {"same", "keep"}
        BY <3>2, <3>3 DEF SetAction, SetAsks, Exists
      <4>2. files'[f] = files[f]
        BY <3>1, <4>1 DEF Copied
      <4> QED
        BY <4>2 DEF Overwritten
    <3> QED
      BY <3>3
  <2> QED
    BY <1>2, <2>2, <2>3, <2>4
<1>3. IInv => (IsProject /\ edits' = edits /\ Overwritten \cup Restored # {} =>
        /\ ~\E skipTemplate, skipDockerfile \in BOOLEAN : Migrate(skipTemplate, skipDockerfile)
        /\ ~UpdateTemplate(FALSE, {})
        /\ \A answers \in SUBSET AskedByUpdate(TRUE) :
                Overwritten \cup Restored \subseteq answers \/ ~UpdateTemplate(TRUE, answers)
        /\ \A answers \in SUBSET AskedBySet(project'.version, TRUE) :
                Overwritten \subseteq answers \/ ~SetTemplate(project'.version, TRUE, answers))
  BY <1>2
<1> QED
  BY <1>3, Invariance, PTL DEF UserChangesAreKept

-----------------------------------------------------------------------------
LEMMA CopyKeepsVersion ==
    ASSUME IInv, NEW v \in 1 .. Len(Revisions), NEW actions, NEW declined, files[Dockerfile].renku # 0
    PROVE  Copy(v, RenderedVersion(files[Dockerfile]), actions, declined).files[Dockerfile].renku = files[Dockerfile].renku
<1> DEFINE version == RenderedVersion(files[Dockerfile])
           rendered == Rendered(v, version)
<1>1. /\ files[Dockerfile] \in Contents /\ version \in Nat /\ Dockerfile \in Files
      /\ version = files[Dockerfile].renku
  BY RenderedVersionIsNat, TemplatesAssumption DEF IInv, TypeInv, RenderedVersion
<1>2. rendered[Dockerfile] \in Contents /\ rendered[Dockerfile].renku = version
  BY <1>1, RenderedTemplate
<1>3. Copied(files[Dockerfile], rendered[Dockerfile], actions[Dockerfile]).renku = files[Dockerfile].renku
  BY <1>1, <1>2, CopiedContent
<1> QED
  BY <1>1, <1>3 DEF Copy

\* Whatever sets or updates the template renders it with the version that is in
\* the Dockerfile; renku migrate raises it to the installed one.
THEOREM RenkuVersionStays == Spec => RenkuVersionIsPreserved
<1>1. ASSUME IInv, [Next]_vars, IsProject, edits' = edits, files[Dockerfile].renku \notin {0, files'[Dockerfile].renku}
      PROVE  /\ files'[Dockerfile].renku = renku
             /\ \E skipTemplate \in BOOLEAN : Migrate(skipTemplate, FALSE)
  <2>1. /\ edits \in Nat /\ latest \in 1 .. Len(Revisions) /\ Len(Revisions) \in Nat
        /\ files \in [Files -> Contents] /\ Dockerfile \in Files
    BY <1>1, TemplatesAssumption DEF IInv, TypeInv
  <2>2. ASSUME NEW interactive \in BOOLEAN, NEW answers, UpdateTemplate(interactive, answers)
        PROVE  FALSE
    <3>1. files' = AfterUpdate(UpdateActions(interactive, answers), AskedByUpdate(interactive) \ answers).files
      BY <2>2 DEF UpdateTemplate, Commit
    <3> QED
      BY <1>1, <2>1, <3>1, CopyKeepsVersion DEF AfterUpdate
  <2>3. ASSUME NEW interactive \in BOOLEAN, NEW v \in 1 .. latest, NEW answers, SetTemplate(v, interactive, answers)
        PROVE  FALSE
    <3>1. v \in 1 .. Len(Revisions)
      BY <2>1
    <3> QED
      BY <1>1, <2>3, <3>1, CopyKeepsVersion DEF SetTemplate, Commit
  <2>4. ASSUME NEW skipTemplate \in BOOLEAN, NEW skipDockerfile \in BOOLEAN, Migrate(skipTemplate, skipDockerfile)
        PROVE  ~skipDockerfile /\ files'[Dockerfile].renku = renku
    <3> DEFINE updates == ~skipTemplate /\ IsUpdateAvailable
               updated == IF updates THEN AfterUpdate(UpdateActions(FALSE, {}), {}) ELSE Unchanged
               old == updated.files[Dockerfile]
    <3>1. files' = (IF skipDockerfile THEN updated ELSE WithDockerfile(updated)).files
      BY <2>4 DEF Migrate, Commit
    <3>2. old.renku = files[Dockerfile].renku
      BY <1>1, <2>1, CopyKeepsVersion DEF AfterUpdate, Unchanged
    <3>3. ~skipDockerfile /\ ~(old = Absent \/ old.renku >= renku)
      BY <1>1, <3>1, <3>2 DEF WithDockerfile
    <3>4. Sound(updated)
      <4>1. IsProject /\ (updates => CanUpdate(UpdateActions(FALSE, {}))) /\ AskedByUpdate(FALSE) \ {} = {}
        BY <2>4 DEF Migrate, AskedByUpdate
      <4>2. updates => Sound(AfterUpdate(UpdateActions(FALSE, {}), AskedByUpdate(FALSE) \ {}))
        BY <1>1, <4>1, UpdateIsSound
      <4> QED
        BY <1>1, <4>1, <4>2, UnchangedIsSound
    <3>5. updated.files \in [Files -> Contents]
      BY <3>4 DEF Sound
    <3> HIDE DEF updated
    <3>6. files' = [updated.files EXCEPT ![Dockerfile] = WithVersion(old, renku)]
      BY <3>1, <3>3 DEF WithDockerfile
    <3>7. files'[Dockerfile] = WithVersion(old, renku) /\ old \in Contents
      BY <2>1, <3>5, <3>6
    <3> QED
      BY <1>1, <3>2, <3>3, <3>7 DEF WithVersion, Contents
  <2>5. ASSUME NEW f, NEW c, Change(f, c)
        PROVE  FALSE
    BY <1>1, <2>1, <2>5 DEF Change
  <2>6. ~Initialize /\ ~Publish /\ ~Upgrade /\ ~UNCHANGED vars
    BY <1>1 DEF Initialize, Publish, Upgrade, vars
  <2>7. ~EditOutside /\ \A f : ~Edit(f) /\ ~Delete(f) /\ \A v : ~Adopt(f, v)
    BY <2>5 DEF Edit, Delete, Adopt, EditOutside
  <2>8. \A version : ~ChangeVersion(version)
    BY <2>5 DEF ChangeVersion
  <2> QED
    BY <1>1, <2>2, <2>3, <2>4, <2>6, <2>7, <2>8 DEF Next
<1>2. IInv /\ [Next]_vars =>
        (IsProject /\ edits' = edits /\ files[Dockerfile].renku \notin {0, files'[Dockerfile].renku} =>
            /\ files'[Dockerfile].renku = renku
            /\ \E skipTemplate \in BOOLEAN : Migrate(skipTemplate, FALSE))
  BY <1>1
<1> QED
  BY <1>2, Invariance, PTL DEF Spec, RenkuVersionIsPreserved
=============================================================================
