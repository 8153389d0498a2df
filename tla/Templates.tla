------------------------------ MODULE Templates ------------------------------
(***************************************************************************)
(* The template of a project: initialising a project, setting and updating *)
(* the template, and renku migrate, which updates the template and the     *)
(* version of Renku in the Dockerfile.                                     *)
(*                                                                         *)
(* Whether a file may be overwritten is decided from checksums that are    *)
(* written with each template, and for the Dockerfile also from its        *)
(* commits. Each command requires a clean repository and commits what it  *)
(* did; one that fails commits nothing.                                    *)
(***************************************************************************)
EXTENDS Naturals, Sequences

CONSTANTS
    Files, Dockerfile,
    KeepFiles,      \* files that are kept when a template is set (README)
    AppendFiles,    \* files that are appended to when a project is initialised (.gitignore)
    ImmutableFiles, \* immutable files of the template
    Revisions,      \* Revisions[v][f]: revision of f in version v of the template, 0 if it has no f
    ExistingFiles,  \* committed files of a repository that becomes a project
    MaxRenku,       \* bound on versions of Renku
    MaxEdits        \* bound on changes by the user

ASSUME TemplatesAssumption ==
    /\ Dockerfile \in Files
    /\ KeepFiles \cup AppendFiles \cup ImmutableFiles \subseteq Files \ {Dockerfile} /\ ExistingFiles \subseteq Files
    /\ Revisions \in Seq([Files -> Nat]) /\ Len(Revisions) > 0
    /\ \A v \in DOMAIN Revisions : Revisions[v][Dockerfile] # 0     \* a required file of a template
    /\ MaxRenku \in Nat \ {0} /\ MaxEdits \in Nat

VARIABLES
    files,          \* the files of the project, as committed
    checksums,      \* file -> its checksum in the template, as last set or updated
    project,        \* version of the template (0: no project yet) and of Renku it was rendered with
    onlyVersions,   \* after its first commit the Dockerfile was changed in its Renku version only
    latest,         \* latest version of the template
    renku,          \* installed version of Renku
    edits,          \* number of changes the user made
    touched         \* history: files the user changed or kept since the template last wrote them

vars == <<files, checksums, project, onlyVersions, latest, renku, edits, touched>>

\* mine and outside number the change of the user that is in the file, in the
\* Renku-specific section of the Dockerfile and outside it; renku is the
\* version in the Dockerfile, 0 if the line was removed.
Content(rev, mine, outside, version) == [rev |-> rev, mine |-> mine, outside |-> outside, renku |-> version]
Absent == Content(0, 0, 0, 0)
Exists(f) == files[f] # Absent

\* hash_template_file: of the Dockerfile only the Renku-specific section counts.
Hash(f, c) == <<c.rev, c.mine, IF f = Dockerfile THEN c.renku ELSE 0>>
NoHash == <<0, 0, 0>>

Has(v, f) == Revisions[v][f] # 0
Rendered(v, version) ==
    [f \in Files |-> IF Has(v, f) THEN Content(Revisions[v][f], 0, 0, IF f = Dockerfile THEN version ELSE 0) ELSE Absent]

WithVersion(c, version) == IF c.renku = 0 THEN c ELSE [c EXCEPT !.renku = version]
IsVersionChange(old, new) == old \in {Absent, new} \/ (old.renku # 0 /\ new.renku # 0 /\ WithVersion(old, new.renku) = new)

\* is_dockerfile_updated_by_user
NeverUpdatedByUser(file, checksum, version) == FALSE
IsUpdatedByUser(file, checksum, version) ==
    /\ file # Absent
    /\ checksum \notin {Hash(Dockerfile, file), Hash(Dockerfile, WithVersion(file, version))}
    /\ ~onlyVersions

\* TemplateMetadata.from_project: the version in the Dockerfile goes first.
MetadataVersion(file) == project.renku
RenderedVersion(file) == IF file.renku # 0 THEN file.renku ELSE project.renku

-----------------------------------------------------------------------------
\* get_file_actions; copy stands for CREATE, OVERWRITE and RECREATE, keep for
\* KEEP and DELETED, and same for the files that are ignored.
InitializeAction(f) ==
    IF ~Exists(f) THEN "copy"
    ELSE IF f \in AppendFiles THEN "append"
    ELSE IF f \in KeepFiles THEN "keep"
    ELSE "copy"

SetAsks(f, new) == Exists(f) /\ new # Hash(f, files[f])
SetAction(f, new, interactive, answers) ==
    IF ~Exists(f) THEN "copy"
    ELSE IF ~SetAsks(f, new) THEN "same"
    ELSE IF (interactive /\ f \in answers) \/ (~interactive /\ f \notin KeepFiles) THEN "copy"
    ELSE "keep"

IsDeleted(f) == ~Exists(f) /\ checksums[f] # NoHash
IsOverwritten(f) == ~IsDeleted(f) /\ Hash(f, files[f]) = checksums[f]
UpdateAsks(f, new) == IsDeleted(f) \/ (Exists(f) /\ new # Hash(f, files[f]))
UpdateAction(f, new, interactive, answers) ==
    IF ~UpdateAsks(f, new) THEN (IF Exists(f) THEN "same" ELSE "copy")
    ELSE IF interactive THEN (IF f \in answers THEN "copy" ELSE "keep")
    ELSE IF new = checksums[f] THEN "unchanged"
    ELSE IF f = Dockerfile
         THEN (IF IsUpdatedByUser(files[f], checksums[f], project.renku) THEN "refused" ELSE "dockerfile")
    ELSE IF IsOverwritten(f) THEN "copy"
    ELSE IF f \in ImmutableFiles THEN "refused" ELSE "keep"

\* copy_template_to_project for one file; of a Dockerfile, which has the markers of
\* the Renku-specific section, only this section is replaced
Copied(old, new, action) ==
    CASE action = "copy" -> new
      [] action = "append" -> [new EXCEPT !.mine = old.mine]
      [] action = "dockerfile" -> [new EXCEPT !.outside = old.outside]
      [] OTHER -> old

\* The state after version v of the template was copied with these actions.
OldChecksums(rendered) == checksums
WrittenChecksums(rendered) == [f \in Files |-> Hash(f, rendered[f])]
Copy(v, version, actions, declined) ==
    LET rendered == Rendered(v, version)
    IN  [files |-> [f \in Files |-> IF Has(v, f) THEN Copied(files[f], rendered[f], actions[f]) ELSE files[f]],
         checksums |-> WrittenChecksums(rendered),
         project |-> [version |-> v, renku |-> version],
         touched |-> {f \in Files : IF Has(v, f) THEN \/ f \in declined
                                                      \/ f \in touched /\ actions[f] \in {"keep", "unchanged", "append"}
                                    ELSE f \in touched \/ Exists(f)}]

Unchanged == [files |-> files, checksums |-> checksums, project |-> project, touched |-> touched]

Commit(after) ==
    /\ files' = after.files
    /\ checksums' = after.checksums
    /\ project' = after.project
    /\ touched' = after.touched
    /\ onlyVersions' = (onlyVersions /\ IsVersionChange(files[Dockerfile], after.files[Dockerfile]))
    /\ UNCHANGED <<latest, renku, edits>>

-----------------------------------------------------------------------------
Init ==
    /\ \E mine \in {{}, ExistingFiles} : files = [f \in Files |-> IF f \in mine THEN Content(0, 1, 0, 0) ELSE Absent]
    /\ checksums = [f \in Files |-> NoHash]
    /\ project = [version |-> 0, renku |-> 0]
    /\ onlyVersions = TRUE
    /\ latest = 1 /\ renku = 1 /\ edits = 0
    /\ touched = {}

IsProject == project.version # 0

\* renku init, which shows what it overwrites and appends to, and asks
Initialize ==
    LET actions == [f \in Files |-> InitializeAction(f)]
    IN  /\ ~IsProject
        /\ Commit(Copy(latest, renku, actions, {f \in Files : actions[f] \in {"keep", "append"}}))

\* Without a Dockerfile its hash cannot be taken, and the command fails.
CanHash(v) == Has(v, Dockerfile) => Exists(Dockerfile)

\* renku template set --force; interactive, it asks about each file it would change.
NewChecksums(v) == WrittenChecksums(Rendered(v, RenderedVersion(files[Dockerfile])))
AskedBySet(v, interactive) ==
    LET new == NewChecksums(v)
    IN  {f \in Files : interactive /\ Has(v, f) /\ SetAsks(f, new[f])}
SetTemplate(v, interactive, answers) ==
    LET new == NewChecksums(v)
        actions == [f \in Files |-> SetAction(f, new[f], interactive, answers)]
    IN  /\ IsProject
        /\ CanHash(v)
        /\ Commit(Copy(v, RenderedVersion(files[Dockerfile]), actions, {f \in Files : actions[f] = "keep"}))

\* What update_template does with each file of the latest version.
IsUpdateAvailable == latest # project.version
AskedByUpdate(interactive) ==
    LET new == NewChecksums(latest)
    IN  {f \in Files : interactive /\ Has(latest, f) /\ UpdateAsks(f, new[f])}
UpdateActions(interactive, answers) ==
    LET new == NewChecksums(latest)
    IN  [f \in Files |-> UpdateAction(f, new[f], interactive, answers)]
CanUpdate(actions) == CanHash(latest) /\ \A f \in Files : Has(latest, f) => actions[f] # "refused"
AfterUpdate(actions, declined) == Copy(latest, RenderedVersion(files[Dockerfile]), actions, declined)

\* renku template update
UpdateTemplate(interactive, answers) ==
    LET actions == UpdateActions(interactive, answers)
    IN  /\ IsProject /\ IsUpdateAvailable
        /\ CanUpdate(actions)
        /\ Commit(AfterUpdate(actions, AskedByUpdate(interactive) \ answers))

\* update_dockerfile, after the template was updated and before anything is committed
WithDockerfile(after) ==
    LET old == after.files[Dockerfile]
        new == WithVersion(old, renku)
        checksum == after.checksums[Dockerfile]
    IN  IF old = Absent \/ old.renku >= renku THEN after
        ELSE [after EXCEPT !.files[Dockerfile] = new,
                           !.checksums[Dockerfile] =
                                IF IsUpdatedByUser(old, checksum, after.project.renku) THEN checksum
                                ELSE Hash(Dockerfile, new)]

\* migrate_project: a template that cannot be updated, or a Dockerfile without a
\* version, fails the command.
Migrate(skipTemplate, skipDockerfile) ==
    LET actions == UpdateActions(FALSE, {})
        updates == ~skipTemplate /\ IsUpdateAvailable
        updated == IF updates THEN AfterUpdate(actions, {}) ELSE Unchanged
    IN  /\ IsProject
        /\ updates => CanUpdate(actions)
        /\ ~skipDockerfile => updated.files[Dockerfile] = Absent \/ updated.files[Dockerfile].renku # 0
        /\ Commit(IF skipDockerfile THEN updated ELSE WithDockerfile(updated))

-----------------------------------------------------------------------------
\* The user commits a change.
Change(f, c) ==
    /\ IsProject /\ edits < MaxEdits
    /\ c # files[f]
    /\ files' = [files EXCEPT ![f] = c]
    /\ onlyVersions' = (onlyVersions /\ (f = Dockerfile => IsVersionChange(files[f], c)))
    /\ edits' = edits + 1
    /\ touched' = touched \cup {f}
    /\ UNCHANGED <<checksums, project, latest, renku>>

Edit(f) == Change(f, [files[f] EXCEPT !.mine = edits + 2])
EditOutside == Exists(Dockerfile) /\ Change(Dockerfile, [files[Dockerfile] EXCEPT !.outside = edits + 2])
ChangeVersion(version) == Exists(Dockerfile) /\ Change(Dockerfile, [files[Dockerfile] EXCEPT !.renku = version])
Delete(f) == Change(f, Absent)
\* The user takes over a file of some version of the template.
Adopt(f, v) == f # Dockerfile /\ Has(v, f) /\ Change(f, Rendered(v, 0)[f])

Publish ==
    /\ latest < Len(Revisions)
    /\ latest' = latest + 1
    /\ UNCHANGED <<files, checksums, project, onlyVersions, renku, edits, touched>>
Upgrade ==
    /\ renku < MaxRenku
    /\ renku' = renku + 1
    /\ UNCHANGED <<files, checksums, project, onlyVersions, latest, edits, touched>>

Next ==
    \/ Initialize
    \/ \E interactive \in BOOLEAN :
        \/ \E answers \in SUBSET AskedByUpdate(interactive) : UpdateTemplate(interactive, answers)
        \/ \E v \in 1..latest : \E answers \in SUBSET AskedBySet(v, interactive) : SetTemplate(v, interactive, answers)
    \/ \E skipTemplate, skipDockerfile \in BOOLEAN : Migrate(skipTemplate, skipDockerfile)
    \/ \E f \in Files : Edit(f) \/ Delete(f) \/ \E v \in 1..latest : Adopt(f, v)
    \/ EditOutside
    \/ \E version \in 0..MaxRenku : ChangeVersion(version)
    \/ Publish
    \/ Upgrade

Spec == Init /\ [][Next]_vars

-----------------------------------------------------------------------------
\* What the user wrote is overwritten only when the user agreed: renku template
\* update and renku migrate leave it alone, and do not bring back what the user
\* deleted of the template, whatever was kept, edited or updated before.
Overwritten ==
    {f \in Files : files[f].mine \notin {0, files'[f].mine} \/ files[f].outside \notin {0, files'[f].outside}}
Restored == {f \in Files : Has(project.version, f) /\ ~Exists(f) /\ Exists(f)'}
UserChangesAreKept ==
    [][IsProject /\ edits' = edits /\ Overwritten \cup Restored # {} =>
        /\ ~\E skipTemplate, skipDockerfile \in BOOLEAN : Migrate(skipTemplate, skipDockerfile)
        /\ ~UpdateTemplate(FALSE, {})
        /\ \A answers \in SUBSET AskedByUpdate(TRUE) :
                Overwritten \cup Restored \subseteq answers \/ ~UpdateTemplate(TRUE, answers)
        /\ \A answers \in SUBSET AskedBySet(project'.version, TRUE) :
                Overwritten \subseteq answers \/ ~SetTemplate(project'.version, TRUE, answers)]_vars

\* A file that the user did not touch has the content of the project's version
\* of the template: no update takes it for a changed one and leaves it behind.
UntouchedFilesAreCurrent ==
    IsProject => \A f \in Files \ touched : files[f].rev = Revisions[project.version][f] /\ files[f].mine = 0

\* Setting and updating the template leave the version of Renku in the
\* Dockerfile alone; only renku migrate changes it, to the installed one.
RenkuVersionIsPreserved ==
    [][IsProject /\ edits' = edits /\ files[Dockerfile].renku \notin {0, files'[Dockerfile].renku} =>
        /\ files'[Dockerfile].renku = renku
        /\ \E skipTemplate \in BOOLEAN : Migrate(skipTemplate, FALSE)]_vars
=============================================================================
