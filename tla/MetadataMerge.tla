---------------------------- MODULE MetadataMerge ----------------------------
(***************************************************************************)
(* Two branches of a project and the merge of their metadata.              *)
(*                                                                         *)
(* git merges file by file: a file that only one side changed is taken     *)
(* from that side, and for the others it calls the merge driver of Renku,  *)
(* which merges indexes by key, asks the user about the keys it cannot     *)
(* decide, merges the project, and refuses everything else. A refused      *)
(* file or an aborted question leaves the branch as it was.                *)
(***************************************************************************)
EXTENDS Datasets

CONSTANTS
    Keywords,       \* keywords of the project
    MaxCommands     \* bound on commands, over all branches (merges not counted)

ASSUME MergeAssumption ==
    /\ \E l, r \in Branches : Branches = {l, r}
    /\ MaxCommands \in Nat

VARIABLES
    project,        \* branch -> the project
    commands,       \* number of commands so far
    base,           \* metadata and project of the merge base of the two branches
    asked           \* names of the datasets the last merge asked about

vars == <<versions, lists, metadata, project, commands, base, asked>>

InitialProject == [keywords |-> {}, description |-> 0, template |-> 0]
Snapshot(b) == [metadata |-> metadata[b], project |-> project[b]]

Init ==
    /\ DatasetsInit
    /\ project = [b \in Branches |-> InitialProject]
    /\ commands = 0
    /\ base = [metadata |-> EmptyMetadata, project |-> InitialProject]
    /\ asked = {}

-----------------------------------------------------------------------------
DatasetCommand(b) ==
    /\ commands < MaxCommands
    /\ commands' = commands + 1
    /\ DatasetStep(b)
    /\ asked' = {}
    /\ UNCHANGED <<project, base>>

ChangeProject(b, p) ==
    /\ commands < MaxCommands
    /\ commands' = commands + 1
    /\ p # project[b]
    /\ project' = [project EXCEPT ![b] = p]
    /\ asked' = {}
    /\ UNCHANGED <<versions, lists, metadata, base>>

\* renku project edit
EditProject(b, keywords, description) ==
    ChangeProject(b, [project[b] EXCEPT !.keywords = keywords, !.description = description])
\* renku template set and update
SetTemplate(b) == ChangeProject(b, [project[b] EXCEPT !.template = commands + 1])

-----------------------------------------------------------------------------
\* git: what only one side changed is taken from that side.
ThreeWay(old, l, r, driver) == IF l = r \/ r = old THEN l ELSE IF l = old THEN r ELSE driver

\* _is_dataset_derived_from
IsAnyVersion(child, parent) == TRUE
IsDerivedFrom(child, parent) == parent \in Ancestors(child)

\* merge_btrees: a new key of the remote side is copied, of two versions the
\* derived one is kept, and the user is asked about the rest.
Undecided(l, r) ==
    {n \in Names : l[n] # None /\ r[n] # None /\ l[n] # r[n] /\ ~IsDerivedFrom(l[n], r[n]) /\ ~IsDerivedFrom(r[n], l[n])}
MergeDatasets(l, r, remotes) ==
    [n \in Names |-> IF l[n] = None THEN r[n]
                     ELSE IF r[n] = None \/ l[n] = r[n] \/ IsDerivedFrom(l[n], r[n]) THEN l[n]
                     ELSE IF IsDerivedFrom(r[n], l[n]) \/ n \in remotes THEN r[n]
                     ELSE l[n]]
\* the tails have their ids as keys
MergeTails(l, r) == l \cup r
\* Of two lists of tags the local one is kept: it is extended in memory, but
\* the driver writes the index and not the list.
MergeTags(l, r) == [n \in Names |-> IF l[n] # None THEN l[n] ELSE r[n]]

\* merge_objects refuses what is neither an index nor the project: a list that
\* both sides changed, and a tag that both sides made.
IsRefused(old, l, r) ==
    \/ \E o \in Oids : /\ l.lists[o] # old.lists[o] /\ r.lists[o] # old.lists[o]
                       /\ l.lists[o] # r.lists[o] \/ \E t \in Tags : l.lists[o][t] \notin {None, old.lists[o][t]}
    \/ \E n \in Names, t \in Tags : /\ TagsOf(l, n)[t] # None /\ TagsOf(l, n)[t] = TagsOf(r, n)[t]
                                    /\ l.tags[n] # r.tags[n]

MergeMetadata(old, l, r, remotes) ==
    [known |-> l.known \cup r.known,
     datasets |-> ThreeWay(old.datasets, l.datasets, r.datasets, MergeDatasets(l.datasets, r.datasets, remotes)),
     tails |-> ThreeWay(old.tails, l.tails, r.tails, MergeTails(l.tails, r.tails)),
     tags |-> ThreeWay(old.tags, l.tags, r.tags, MergeTags(l.tags, r.tags)),
     lists |-> [o \in Oids |-> ThreeWay(old.lists[o], l.lists[o], r.lists[o], l.lists[o])]]

\* The driver is called for the index of the datasets, and asks.
Questions(old, l, r) ==
    IF old.datasets \in {l.datasets, r.datasets} THEN {} ELSE Undecided(l.datasets, r.datasets)

-----------------------------------------------------------------------------
\* merge_projects; the questions about descriptions and templates are answered
\* with one side's.
MergeKeywords(old, l, r) ==
    IF l = r THEN l
    ELSE IF l # old /\ r # old
         THEN ((l \ old) \cup (r \ old)) \cup (old \ ((old \ l) \cup (old \ r)))
    ELSE IF r # old THEN r ELSE l

Pick(old, l, r, remote) == IF l # old /\ r # old THEN (IF remote THEN r ELSE l) ELSE IF r # old THEN r ELSE l

MergeProjects(old, l, r, remoteDescription, remoteTemplate) ==
    LET changed(p) == p.keywords # old.keywords \/ p.description # old.description
        template(p) == p.template # old.template
    IN  IF (changed(l) \/ template(l)) /\ ~changed(r) /\ ~template(r) THEN l
        ELSE IF ~changed(l) /\ ~template(l) THEN r
        ELSE [keywords |-> MergeKeywords(old.keywords, l.keywords, r.keywords),
              description |-> IF l.description = r.description THEN l.description
                              ELSE Pick(old.description, l.description, r.description, remoteDescription),
              template |-> Pick(old.template, l.template, r.template, remoteTemplate)]

\* git merge r on branch l: afterwards the tip of r is the merge base.
Merge(l, r) ==
    LET old == base.metadata
        questions == Questions(old, metadata[l], metadata[r])
    IN  /\ Snapshot(r) # base
        /\ ~IsRefused(old, metadata[l], metadata[r])
        /\ \E remotes \in SUBSET questions :
                metadata' = [metadata EXCEPT ![l] = MergeMetadata(old, metadata[l], metadata[r], remotes)]
        /\ \E description, template \in BOOLEAN :
                LET merged == MergeProjects(base.project, project[l], project[r], description, template)
                IN  project' = [project EXCEPT ![l] = ThreeWay(base.project, project[l], project[r], merged)]
        /\ asked' = questions
        /\ base' = Snapshot(r)
        /\ UNCHANGED <<versions, lists, commands>>

Next ==
    \/ \E b \in Branches : DatasetCommand(b)
    \/ \E b \in Branches :
        \/ \E keywords \in SUBSET Keywords, description \in {project[b].description, commands + 1} :
            EditProject(b, keywords, description)
        \/ SetTemplate(b)
    \/ \E l, r \in Branches : l # r /\ Merge(l, r)

Spec == Init /\ [][Next]_vars

-----------------------------------------------------------------------------
TypeOK ==
    /\ Len(versions) <= MaxVersions
    /\ \A i \in DOMAIN versions :
        /\ versions[i].follows \in 0..(i - 1) /\ versions[i].derivedFrom \in {None, versions[i].follows}
        /\ versions[i].name \in Names /\ versions[i].files \cup versions[i].gone \subseteq Files
    /\ \A b \in Branches :
        /\ metadata[b].known \subseteq DOMAIN versions /\ metadata[b].tails \subseteq metadata[b].known
        /\ \A n \in Names : metadata[b].datasets[n] \in metadata[b].known \cup {None}
        /\ metadata[b].tags \in [Names -> 0..lists]
        /\ metadata[b].lists \in [Oids -> [Tags -> metadata[b].known \cup {None}]]
        /\ project[b].keywords \subseteq Keywords
        /\ project[b].description \in 0..commands /\ project[b].template \in 0..commands

\* The provenance of no version is lost, by edits, removals or merges: each one a
\* branch has is found from its tails, unless an import took its place.
WasReplaced(v) == \E w \in DOMAIN versions : versions[w].imported /\ v \in History(w)
VersionsAreReachable ==
    \A b \in Branches : \A v \in metadata[b].known :
        WasReplaced(v) \/ \E w \in metadata[b].tails : v = w \/ v \in Ancestors(w)

\* The active version of a dataset has its name, is not removed and is a tail:
\* on no branch, merged or not, is a version active that another one was derived from there.
ActiveDatasetsAreTails ==
    \A b \in Branches : \A n \in Names :
        LET v == metadata[b].datasets[n]
        IN  v # None => versions[v].name = n /\ ~versions[v].removed /\ v \in metadata[b].tails

\* Before branches are merged a tag refers to a version that the dataset came
\* from: those of a removed dataset are not taken over by another of its name.
TagsAreOfTheirDataset ==
    base.metadata = EmptyMetadata =>
        \A b \in Branches : \A n \in Names : \A t \in Tags :
            LET v == TagsOf(metadata[b], n)[t]
            IN  v # None => v \in {metadata[b].datasets[n]} \cup History(metadata[b].datasets[n])

\* A version marks exactly the files that it removed from the one before.
RemovedFilesAreMarked ==
    \A v \in DOMAIN versions :
        versions[v].follows # None /\ ~versions[v].removed =>
            versions[v].gone = versions[versions[v].follows].files \ versions[v].files

\* The provenance of datasets is kept, by commands and by merges: no version
\* drops out, the newest ones are active, tags and removed files stay theirs.
ProvenanceIsKept == VersionsAreReachable /\ ActiveDatasetsAreTails /\ TagsAreOfTheirDataset /\ RemovedFilesAreMarked

\* A merge into l from r
IsMerge(l, r) == l # r /\ base' # base /\ base' = Snapshot(r)

\* A merge drops no update without asking: a version that is active on one
\* side and that the other has not seen is active afterwards, or the user was asked.
UpdateIsMerged(n, one, other, l) ==
    metadata[one].datasets[n] \notin metadata[other].known \cup {None} =>
        n \in asked' \/ metadata'[l].datasets[n] = metadata[one].datasets[n]

\* A merge keeps the tags of both sides, except where one side removed them or
\* its dataset, and where both gave the dataset its first tags.
TagsAreMerged(n, one, other, l) ==
    LET here == metadata[one].tags[n]  there == metadata[other].tags[n]
    IN  here # None /\ there \in {here, None} /\ base.metadata.tags[n] \in {None, there} =>
            \A t \in Tags : \/ TagsOf(metadata'[l], n)[t] = TagsOf(metadata[one], n)[t]
                            \/ TagsOf(metadata[one], n)[t] = TagsOf(base.metadata, n)[t]

\* The project is merged three ways: a keyword is there if one side added it or neither
\* removed it, and the description and the template are the ones of a side that changed them.
ProjectIsMerged(p, q, old, m) ==
    LET IsMerged(x, y, z, o) == z \in {x, y} /\ (x = o => z = y) /\ (y = o => z = x)
    IN  /\ m.keywords = {k \in p.keywords \cup q.keywords : k \in old.keywords => k \in p.keywords \cap q.keywords}
        /\ IsMerged(p.description, q.description, m.description, old.description)
        /\ IsMerged(p.template, q.template, m.template, old.template)

\* A merge keeps what either branch did to the versions of a dataset, or asks, to
\* the project, and to tags, except for removed ones and for first tags on both
\* sides.
MergeKeepsUpdates ==
    [][\A l, r \in Branches : IsMerge(l, r) =>
        /\ \A n \in Names : \A one, other \in {l, r} : one # other =>
            UpdateIsMerged(n, one, other, l) /\ TagsAreMerged(n, one, other, l)
        /\ ProjectIsMerged(project[l], project[r], base.project, project'[l])]_vars
=============================================================================
