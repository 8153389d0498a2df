------------------------------ MODULE Datasets ------------------------------
(***************************************************************************)
(* The datasets of a project, on every branch of its repository.           *)
(*                                                                         *)
(* A dataset is never changed in place: each command stores a new version  *)
(* that is derived from the one before, and the gateway keeps three        *)
(* indexes: the active version of each name, the tails (the versions that  *)
(* nothing is derived from, from which the provenance is read), and the    *)
(* tags of each name, each list of tags being a file of its own.           *)
(* Identifiers are random (uuid4), so versions are numbered over all       *)
(* branches.                                                               *)
(***************************************************************************)
EXTENDS Naturals, Sequences, FiniteSets, Functions

CONSTANTS
    Branches,       \* branches or clones of the repository
    Names,          \* names of datasets
    Files,          \* files of datasets
    Tags,           \* names of tags
    MaxVersions,    \* bound on versions of datasets, over all branches
    MaxLists        \* bound on lists of tags, over all branches

ASSUME DatasetsAssumption == MaxVersions \in Nat /\ MaxLists \in Nat

VARIABLES
    versions,       \* the versions, in the order they were stored
    lists,          \* number of lists of tags made so far
    metadata        \* branch -> its metadata directory

datasetVars == <<versions, lists, metadata>>

None == 0
Ids == 1..MaxVersions
Oids == 1..MaxLists
NoTags == [t \in Tags |-> None]

\* follows is the version that this one replaced under its name. It is a
\* history field: the code keeps derivedFrom only, which an import clears.
\* imported stands for same_as; tag is the version of the provider, if it has one.
Version(name, follows, derivedFrom, files, gone) ==
    [name |-> name, follows |-> follows, derivedFrom |-> derivedFrom, files |-> files, gone |-> gone,
     removed |-> FALSE, imported |-> FALSE, tag |-> None]

\* known: the dataset files; lists: the files of the lists of tags
EmptyMetadata ==
    [known |-> {}, datasets |-> [n \in Names |-> None], tails |-> {},
     tags |-> [n \in Names |-> None], lists |-> [o \in Oids |-> NoTags]]

\* The versions that a version is linked to, directly or through others: the
\* smallest set that has what it and its members are linked to.
Above(stored, v, link) ==
    {u \in 1..(v - 1) : \A S \in SUBSET (1..(v - 1)) :
                            (\A i \in S \cup {v} : stored[i][link] \in S \cup {None}) => u \in S}
\* Those it is derived from, and those it came from, through imports as well.
Ancestors(v) == Above(versions, v, "derivedFrom")
History(v) == Above(versions, v, "follows")

-----------------------------------------------------------------------------
\* DatasetGateway.add_or_remove
AddOrRemoveKeepingTags(m, id, v) ==
    [m EXCEPT !.known = @ \cup {id},
              !.datasets[v.name] = IF v.removed THEN None ELSE id,
              !.tails = (@ \ {v.derivedFrom}) \cup {id}]
AddOrRemove(m, id, v) ==
    [m EXCEPT !.known = @ \cup {id},
              !.datasets[v.name] = IF v.removed THEN None ELSE id,
              !.tags[v.name] = IF v.removed THEN None ELSE @,
              !.tails = (@ \ {v.derivedFrom}) \cup {id}]

\* Dataset.update_files_from marks what the version before had and this one lacks.
UpdateFilesFrom(files, current) == versions[current].files \ files

\* DatasetsProvenance.add_or_update: a new version with these files, derived
\* from the active one, or the first one of its name.
AddOrUpdate(m, n, files) ==
    LET current == m.datasets[n]
    IN  IF current = None THEN Version(n, None, None, files, {})
        ELSE Version(n, current, current, files, UpdateFilesFrom(files, current))

\* DatasetsProvenance.remove
RemoveVersion(m, n) ==
    LET current == m.datasets[n]
    IN  [versions[current] EXCEPT !.follows = current, !.derivedFrom = current,
                                  !.imported = FALSE, !.removed = TRUE]

Store(b, v, m) ==
    /\ Len(versions) < MaxVersions
    /\ versions' = Append(versions, v)
    /\ metadata' = [metadata EXCEPT ![b] = m]
    /\ UNCHANGED lists

NextId == Len(versions) + 1
Current(b, n) == metadata[b].datasets[n]
IsActive(b, n) == Current(b, n) # None
FilesOf(b, n) == versions[Current(b, n)].files

AddVersion(b, n, files) ==
    LET v == AddOrUpdate(metadata[b], n, files)
    IN  Store(b, v, AddOrRemove(metadata[b], NextId, v))

\* renku dataset create, which takes the files of the data directory
Create(b, n, files) == ~IsActive(b, n) /\ AddVersion(b, n, files)

\* renku dataset edit; also update and pull, which change what files contain
EditDataset(b, n) == IsActive(b, n) /\ AddVersion(b, n, FilesOf(b, n))

\* renku dataset add: files that the dataset has are added again with
\* --overwrite only; without a file to add nothing changes.
AddToDataset(b, n, new, create, overwrite) ==
    LET files == IF overwrite \/ create THEN new ELSE new \ FilesOf(b, n)
    IN  /\ create = ~IsActive(b, n)
        /\ files # {}
        /\ AddVersion(b, n, IF create THEN files ELSE FilesOf(b, n) \cup files)

\* renku dataset unlink
FileUnlink(b, n, gone) ==
    /\ IsActive(b, n)
    /\ gone # {} /\ gone \subseteq FilesOf(b, n)
    /\ AddVersion(b, n, FilesOf(b, n) \ gone)

\* renku dataset rm
RemoveDataset(b, n) ==
    /\ IsActive(b, n)
    /\ Store(b, RemoveVersion(metadata[b], n), AddOrRemove(metadata[b], NextId, RemoveVersion(metadata[b], n)))

\* renku mv: every dataset with the source or the destination, or in whose
\* data directory the destination is, gets a version, one after the other.
Moved(b, n, src, dst, owner) ==
    (FilesOf(b, n) \ {src}) \cup (IF n = owner \/ dst \in FilesOf(b, n) THEN {dst} ELSE {})
MoveFile(b, src, dst, owner) ==
    LET m == metadata[b]
        first == Len(versions) + 1
        changed == {n \in Names : IsActive(b, n) /\ ({src, dst} \cap FilesOf(b, n) # {} \/ n = owner)}
        version(n) == AddOrUpdate(m, n, Moved(b, n, src, dst, owner))
    IN  /\ src # dst
        /\ changed # {}
        /\ \E last \in first..MaxVersions : \E id \in Bijection(changed, first..last) :
            LET ids == {id[n] : n \in changed}
                named(i) == CHOOSE n \in changed : id[n] = i
            IN  /\ versions' = [i \in 1..last |-> IF i < first THEN versions[i] ELSE version(named(i))]
                /\ metadata' = [metadata EXCEPT ![b] =
                        [m EXCEPT !.known = @ \cup ids,
                                  !.datasets = [n \in Names |-> IF n \in changed THEN id[n] ELSE @[n]],
                                  !.tails = (@ \ {m.datasets[n] : n \in changed}) \cup ids]]
        /\ UNCHANGED lists

-----------------------------------------------------------------------------
\* add_dataset_tag: an empty list is replaced by a new one.
TagsOf(m, n) == IF m.tags[n] = None THEN NoTags ELSE m.lists[m.tags[n]]
WithTagInNewList(m, n, t, id, oid) == [m EXCEPT !.tags[n] = oid, !.lists[oid][t] = id]
WithTag(m, n, t, id, oid) ==
    IF TagsOf(m, n) = NoTags
    THEN [m EXCEPT !.tags[n] = oid, !.lists[oid][t] = id]
    ELSE [m EXCEPT !.lists[m.tags[n]][t] = id]
NewLists(m, n) == IF TagsOf(m, n) = NoTags THEN 1 ELSE 0

AddTag(b, n, t, force) ==
    LET m == metadata[b]
    IN  /\ IsActive(b, n)
        /\ TagsOf(m, n)[t] = None \/ (force /\ TagsOf(m, n)[t] # Current(b, n))
        /\ lists + NewLists(m, n) <= MaxLists
        /\ lists' = lists + NewLists(m, n)
        /\ metadata' = [metadata EXCEPT ![b] = WithTag(m, n, t, Current(b, n), lists + 1)]
        /\ UNCHANGED versions

\* remove_dataset_tags
RemoveTags(b, n, tags) ==
    LET m == metadata[b]
    IN  /\ IsActive(b, n)
        /\ tags # {} /\ \A t \in tags : TagsOf(m, n)[t] # None
        /\ metadata' = [metadata EXCEPT ![b].lists[m.tags[n]] =
                            [t \in Tags |-> IF t \in tags THEN None ELSE TagsOf(m, n)[t]]]
        /\ UNCHANGED <<versions, lists>>

\* renku dataset import, and update of an imported dataset: a version like any
\* other is stored first, and then loses derived_from; a provider with
\* versions tags it, which fails when the name of the tag is taken.
Imported(m, n, files, tag) ==
    [AddOrUpdate(m, n, files) EXCEPT !.derivedFrom = None, !.imported = TRUE, !.tag = tag]

\* update_datasets skips a dataset that is imported at a tag it still has.
IsUpdatable(b, n) ==
    LET v == versions[Current(b, n)]
    IN  v.imported /\ (v.tag # None => TagsOf(metadata[b], n)[v.tag] # Current(b, n))
ImportDataset(b, n, files, tag) ==
    LET m == AddOrRemove(metadata[b], NextId, AddOrUpdate(metadata[b], n, files))
    IN  /\ IsActive(b, n) => IsUpdatable(b, n)
        /\ files # {}
        /\ Len(versions) < MaxVersions
        /\ tag # None => TagsOf(m, n)[tag] = None /\ lists + NewLists(m, n) <= MaxLists
        /\ versions' = Append(versions, Imported(metadata[b], n, files, tag))
        /\ lists' = IF tag = None THEN lists ELSE lists + NewLists(m, n)
        /\ metadata' = [metadata EXCEPT ![b] = IF tag = None THEN m ELSE WithTag(m, n, tag, NextId, lists + 1)]

DatasetsInit ==
    /\ versions = <<>>
    /\ lists = 0
    /\ metadata = [b \in Branches |-> EmptyMetadata]

DatasetStep(b) ==
    \/ \E n \in Names :
        \/ EditDataset(b, n) \/ RemoveDataset(b, n)
        \/ \E files \in SUBSET Files :
            \/ Create(b, n, files) \/ FileUnlink(b, n, files)
            \/ \E create, overwrite \in BOOLEAN : AddToDataset(b, n, files, create, overwrite)
            \/ \E tag \in Tags \cup {None} : ImportDataset(b, n, files, tag)
        \/ \E t \in Tags, force \in BOOLEAN : AddTag(b, n, t, force)
        \/ \E tags \in SUBSET Tags : RemoveTags(b, n, tags)
    \/ \E src, dst \in Files, owner \in Names \cup {None} : MoveFile(b, src, dst, owner)
=============================================================================
