------------------------ MODULE MetadataMerge_proofs ------------------------
(***************************************************************************)
(* Proofs about datasets on two branches and the merge of their metadata,  *)
(* for any names, files and tags and any number of commands.               *)
(***************************************************************************)
EXTENDS MetadataMerge, TLAPS

Dataset ==
    [name : Names, follows : Nat, derivedFrom : Nat, files : SUBSET Files, gone : SUBSET Files,
     removed : BOOLEAN, imported : BOOLEAN, tag : Tags \cup {None}]
Metadata ==
    [known : SUBSET Nat, datasets : [Names -> Nat], tails : SUBSET Nat,
     tags : [Names -> Oids \cup {None}], lists : [Oids -> [Tags -> Nat]]]
Project == [keywords : SUBSET Keywords, description : Nat, template : Nat]

TypeInv ==
    /\ versions \in Seq(Dataset) /\ Len(versions) <= MaxVersions
    /\ metadata \in [Branches -> Metadata]
    /\ project \in [Branches -> Project]
    /\ base \in [metadata : Metadata, project : Project]
    /\ lists \in 0 .. MaxLists /\ commands \in Nat
    /\ \A b \in Branches : project[b].description <= commands /\ project[b].template <= commands

\* A version is linked to older ones of its name; only an import is not derived
\* from what it replaces.
VersionsInv ==
    \A i \in DOMAIN versions :
        LET v == versions[i]
        IN  /\ v.follows \in 0 .. (i - 1) /\ v.derivedFrom \in {None, v.follows}
            /\ v.derivedFrom # v.follows => v.imported
            /\ v.follows # None /\ ~v.removed => v.gone = versions[v.follows].files \ v.files

\* What a metadata directory is made of, on its own: the files of the versions
\* that one of its own is derived from are there, lists of tags are not shared by
\* names and those that were not made yet are empty.
MetadataInv(m) ==
    /\ m.known \subseteq DOMAIN versions /\ m.tails \subseteq m.known
    /\ \A i \in m.known : versions[i].derivedFrom \in m.known \cup {None}
    /\ \A n \in Names : m.datasets[n] \in m.known \cup {None}
    /\ m.known = {} => m = EmptyMetadata
    /\ \A o \in Oids, t \in Tags : m.lists[o][t] \in m.known \cup {None}
    /\ \A n \in Names : m.tags[n] <= lists
    /\ \A o \in Oids : o > lists => m.lists[o] = NoTags

\* Each list of tags is the one of a name, on all branches.
OwnerInv ==
    LET all == {base.metadata} \cup {metadata[b] : b \in Branches}
    IN  \A m1, m2 \in all : \A n1, n2 \in Names : m1.tags[n1] = m2.tags[n2] /\ m1.tags[n1] # None => n1 = n2

\* What two branches have in common is what the base has.  A branch that has no
\* version of its own is as the base, and one that has has a tail of its own.
BaseInv ==
    \A b \in Branches :
        /\ base.metadata.known \subseteq metadata[b].known
        /\ metadata[b].known = base.metadata.known =>
              metadata[b].tails = base.metadata.tails /\ metadata[b].datasets = base.metadata.datasets
        /\ \A c \in Branches \ {b} :
              /\ metadata[b].known \cap metadata[c].known = base.metadata.known
              /\ metadata[b].known \subseteq metadata[c].known \/ ~(metadata[b].tails \subseteq metadata[c].known)

\* Two branches share a list of tags from the base only, and what one of them
\* made since is as in the base on the other.
ListsInv ==
    \A b \in Branches : \A c \in Branches \ {b} : \A n \in Names :
        metadata[b].tags[n] \notin {None, base.metadata.tags[n]} =>
            /\ metadata[c].lists[metadata[b].tags[n]] = base.metadata.lists[metadata[b].tags[n]]
            /\ metadata[c].tags[n] # metadata[b].tags[n]

IInv ==
    /\ TypeInv
    /\ VersionsInv
    /\ MetadataInv(base.metadata) /\ \A b \in Branches : MetadataInv(metadata[b])
    /\ OwnerInv
    /\ BaseInv
    /\ ListsInv
    /\ VersionsAreReachable
    /\ ActiveDatasetsAreTails
    /\ TagsAreOfTheirDataset

-----------------------------------------------------------------------------
\* The versions above a version: the smallest set that has what it and its
\* members are linked to.
LEMMA AboveIsSmallest ==
    ASSUME NEW vs, NEW v \in Nat, NEW link, NEW S,
           \A i \in (S \cap 1 .. (v - 1)) \cup {v} : vs[i][link] \in (S \cap 1 .. (v - 1)) \cup {None}
    PROVE  Above(vs, v, link) \subseteq S
<1>1. S \cap 1 .. (v - 1) \in SUBSET (1 .. (v - 1))
  OBVIOUS
<1> QED
  BY <1>1 DEF Above

LinksDown(vs, link) == \A i \in DOMAIN vs : vs[i][link] \in 0 .. (i - 1)

LEMMA AboveIsClosed ==
    ASSUME NEW vs \in Seq(Dataset), NEW link, LinksDown(vs, link), NEW v \in DOMAIN vs
    PROVE  /\ Above(vs, v, link) \subseteq 1 .. (v - 1) /\ Above(vs, v, link) \subseteq DOMAIN vs
           /\ \A i \in Above(vs, v, link) \cup {v} : vs[i][link] \in Above(vs, v, link) \cup {None}
<1>1. v \in Nat /\ 1 .. (v - 1) \subseteq DOMAIN vs /\ \A i \in DOMAIN vs : i \in Nat
  OBVIOUS
<1>2. Above(vs, v, link) \subseteq 1 .. (v - 1)
  BY DEF Above
<1>3. ASSUME NEW i \in Above(vs, v, link) \cup {v}, vs[i][link] # None
      PROVE  vs[i][link] \in Above(vs, v, link)
  <2>1. i \in DOMAIN vs /\ i <= v
    BY <1>1, <1>2
  <2>2. vs[i][link] \in 1 .. (v - 1)
    BY <1>1, <1>3, <2>1 DEF LinksDown, None
  <2>3. ASSUME NEW S \in SUBSET (1 .. (v - 1)), \A j \in S \cup {v} : vs[j][link] \in S \cup {None}
        PROVE  vs[i][link] \in S
    <3>1. i \in S \cup {v}
      BY <2>3 DEF Above
    <3> QED
      BY <1>3, <2>3, <3>1
  <2> QED
    BY <2>2, <2>3 DEF Above
<1> QED
  BY <1>1, <1>2, <1>3

LEMMA AboveIsTransitive ==
    ASSUME NEW vs \in Seq(Dataset), NEW link, LinksDown(vs, link),
           NEW v \in DOMAIN vs, NEW u \in Above(vs, v, link)
    PROVE  Above(vs, u, link) \subseteq Above(vs, v, link)
<1>1. /\ Above(vs, v, link) \subseteq 1 .. (v - 1) /\ Above(vs, v, link) \subseteq DOMAIN vs
      /\ \A i \in Above(vs, v, link) \cup {v} : vs[i][link] \in Above(vs, v, link) \cup {None}
  BY AboveIsClosed
<1>2. u \in Nat /\ \A i \in DOMAIN vs : i \in Nat
  BY <1>1
<1>3. ASSUME NEW i \in (Above(vs, v, link) \cap 1 .. (u - 1)) \cup {u}
      PROVE  vs[i][link] \in (Above(vs, v, link) \cap 1 .. (u - 1)) \cup {None}
  <2>1. i \in DOMAIN vs /\ i \in Above(vs, v, link) /\ i <= u
    BY <1>1, <1>2
  <2>2. vs[i][link] \in Above(vs, v, link) \cup {None} /\ vs[i][link] \in 0 .. (i - 1)
    BY <1>1, <2>1 DEF LinksDown
  <2> QED
    BY <1>1, <1>2, <2>1, <2>2 DEF None
<1> QED
  BY <1>2, <1>3, AboveIsSmallest

\* What a version is linked to is above it, with all that is above that.
LEMMA AboveOfLink ==
    ASSUME NEW vs \in Seq(Dataset), NEW link, LinksDown(vs, link), NEW v \in DOMAIN vs, vs[v][link] # None
    PROVE  {vs[v][link]} \cup Above(vs, vs[v][link], link) \subseteq Above(vs, v, link)
<1>1. PICK u : u = vs[v][link]
  OBVIOUS
<1>2. u \in Above(vs, v, link)
  BY <1>1, AboveIsClosed
<1> QED
  BY <1>1, <1>2, AboveIsTransitive

\* What is stored later does not change what is above a version.
Extends == DOMAIN versions \subseteq DOMAIN versions' /\ \A i \in DOMAIN versions : versions'[i] = versions[i]

LEMMA AboveIsStable ==
    ASSUME versions \in Seq(Dataset), Extends, NEW link, NEW v \in DOMAIN versions
    PROVE  Above(versions', v, link) = Above(versions, v, link)
<1>1. v \in Nat /\ \A i \in 1 .. v : versions'[i] = versions[i]
  BY DEF Extends
<1>2. ASSUME NEW S \in SUBSET (1 .. (v - 1))
      PROVE  (\A i \in S \cup {v} : versions'[i][link] \in S \cup {None})
                <=> (\A i \in S \cup {v} : versions[i][link] \in S \cup {None})
  <2>1. \A i \in S \cup {v} : i \in 1 .. v
    BY <1>1
  <2> QED
    BY <1>1, <2>1
<1> QED
  BY <1>2 DEF Above

\* What is above a version through derivations is above it through any links.
LEMMA DerivedIsAbove ==
    ASSUME NEW vs \in Seq(Dataset), LinksDown(vs, "follows"), NEW v \in DOMAIN vs,
           \A i \in DOMAIN vs : vs[i].derivedFrom \in {None, vs[i].follows}
    PROVE  Above(vs, v, "derivedFrom") \subseteq Above(vs, v, "follows")
<1> DEFINE H == Above(vs, v, "follows")
<1>1. /\ H \subseteq 1 .. (v - 1) /\ H \subseteq DOMAIN vs
      /\ \A i \in H \cup {v} : vs[i]["follows"] \in H \cup {None}
  BY AboveIsClosed
<1> HIDE DEF H
<1>2. v \in Nat
  OBVIOUS
<1>3. \A i \in (H \cap 1 .. (v - 1)) \cup {v} : vs[i]["derivedFrom"] \in (H \cap 1 .. (v - 1)) \cup {None}
  BY <1>1
<1>4. Above(vs, v, "derivedFrom") \subseteq H
  BY <1>2, <1>3, AboveIsSmallest
<1> QED
  BY <1>4 DEF H

LEMMA LinksOfVersions ==
    ASSUME versions \in Seq(Dataset), VersionsInv
    PROVE  LinksDown(versions, "follows") /\ LinksDown(versions, "derivedFrom")
<1>1. \A i \in DOMAIN versions : versions[i].follows \in 0 .. (i - 1)
  BY DEF VersionsInv
<1>2. \A i \in DOMAIN versions : i \in Nat /\ i > 0 /\ versions[i].derivedFrom \in {0, versions[i].follows}
  BY DEF VersionsInv, None
<1> QED
  BY <1>1, <1>2 DEF LinksDown

\* A metadata directory has the ancestors of its versions.
LEMMA AncestorsAreKnown ==
    ASSUME versions \in Seq(Dataset), VersionsInv, NEW m, MetadataInv(m), NEW v \in m.known
    PROVE  Ancestors(v) \subseteq m.known
<1>1. v \in Nat /\ v \in DOMAIN versions /\ \A i \in m.known : i \in Nat /\ i \in DOMAIN versions
  BY DEF MetadataInv
<1>2. ASSUME NEW i \in (m.known \cap 1 .. (v - 1)) \cup {v}
      PROVE  versions[i]["derivedFrom"] \in (m.known \cap 1 .. (v - 1)) \cup {None}
  <2>1. i \in m.known /\ i <= v
    BY <1>1
  <2>2. versions[i]["derivedFrom"] \in m.known \cup {None} /\ versions[i]["derivedFrom"] \in 0 .. (i - 1)
    BY <1>1, <2>1, LinksOfVersions DEF MetadataInv, LinksDown
  <2> QED
    BY <1>1, <2>1, <2>2 DEF None
<1> QED
  BY <1>1, <1>2, AboveIsSmallest DEF Ancestors

-----------------------------------------------------------------------------
\* A version of dataset n that replaces the version current.
Replaces(v, n, current) ==
    /\ v.name = n /\ v.follows = current /\ v.derivedFrom \in {None, current}
    /\ v.derivedFrom # current => v.imported
    /\ current # None /\ ~v.removed => v.gone = versions[current].files \ v.files

\* A command that stores the new versions id[n] of the datasets changed.
Stores(m, new, changed, id) ==
    /\ versions' \in Seq(Dataset) /\ Len(versions') <= MaxVersions /\ Extends
    /\ DOMAIN versions' \ DOMAIN versions = {id[n] : n \in changed}
    /\ \A n \in changed : Replaces(versions'[id[n]], n, m.datasets[n])
    /\ new.known = m.known \cup {id[n] : n \in changed}
    /\ new.tails = (m.tails \ {m.datasets[n] : n \in changed}) \cup {id[n] : n \in changed}
    /\ \A n \in Names : new.datasets[n] = IF n \notin changed THEN m.datasets[n]
                                          ELSE IF versions'[id[n]].removed THEN None ELSE id[n]

\* A command that tags active datasets, in their list of tags or in a new one.
Tagged(m, new) ==
    /\ lists' \in lists .. MaxLists
    /\ \A n \in Names :
        /\ \/ new.tags[n] \in {None, m.tags[n]}
           \/ new.tags[n] = lists + 1 /\ lists' = lists + 1 /\ new.datasets[n] # None
        /\ m.datasets[n] # None /\ new.datasets[n] = None => new.tags[n] = None
    /\ \A n, k \in Names : new.tags[n] = lists + 1 /\ new.tags[k] = lists + 1 => n = k
    /\ \A o \in Oids : \/ new.lists[o] = m.lists[o]
                       \/ \E n \in Names : /\ new.tags[n] = o /\ new.datasets[n] # None
                                           /\ \A t \in Tags : new.lists[o][t] \in {None, m.lists[o][t], new.datasets[n]}

Updates(b, new, changed, id) ==
    /\ new \in Metadata
    /\ metadata' = [metadata EXCEPT ![b] = new]
    /\ Stores(metadata[b], new, changed, id)
    /\ Tagged(metadata[b], new)
    /\ base' = base

\* The new versions are new on all branches, and tails.
NewIdsFor(b, new, changed, id) ==
    /\ \A i \in DOMAIN versions : i \in Nat \ {0}
    /\ \A i \in DOMAIN versions' : i \in Nat \ {0}
    /\ \A n \in changed : /\ id[n] \in DOMAIN versions' /\ id[n] \notin DOMAIN versions
                          /\ \A i \in DOMAIN versions : i < id[n]
                          /\ id[n] \in new.known /\ id[n] \in new.tails
                          /\ metadata[b].datasets[n] \in metadata[b].known \cup {None}
    /\ \A n \in changed : \A k \in changed : id[n] = id[k] => n = k
    /\ DOMAIN versions' = DOMAIN versions \cup {id[n] : n \in changed}

LEMMA NewIds ==
    ASSUME IInv, NEW b \in Branches, NEW new, NEW changed \in SUBSET Names, NEW id, Updates(b, new, changed, id)
    PROVE  NewIdsFor(b, new, changed, id)
<1> USE DEF Updates
<1>1. versions \in Seq(Dataset) /\ versions' \in Seq(Dataset) /\ Extends
  BY DEF IInv, TypeInv, Stores
<1>2. /\ DOMAIN versions = 1 .. Len(versions) /\ DOMAIN versions' = 1 .. Len(versions')
      /\ Len(versions) \in Nat /\ Len(versions') \in Nat
  BY <1>1
<1>3. \A n \in changed : id[n] \in DOMAIN versions' /\ id[n] \notin DOMAIN versions
  BY DEF Stores
<1>4. \A n \in changed : \A i \in DOMAIN versions : i < id[n]
  BY <1>2, <1>3
<1>5. \A n \in changed : metadata[b].datasets[n] \in metadata[b].known \cup {None}
  BY DEF IInv, MetadataInv
<1>6. \A n \in changed : id[n] \in new.known /\ id[n] \in new.tails
  BY DEF Stores
<1>7. \A n \in changed : versions'[id[n]].name = n
  BY DEF Stores, Replaces
<1>8. DOMAIN versions' = DOMAIN versions \cup {id[n] : n \in changed}
  BY <1>1 DEF Stores, Extends
<1>9. \A n \in changed : \A k \in changed : id[n] = id[k] => n = k
  BY <1>7
<1>10. (\A i \in DOMAIN versions : i \in Nat \ {0}) /\ (\A i \in DOMAIN versions' : i \in Nat \ {0})
  BY <1>2
<1> QED
  BY <1>3, <1>4, <1>5, <1>6, <1>8, <1>9, <1>10 DEF NewIdsFor

LEMMA UpdateVersionsInv ==
    ASSUME IInv, NEW b \in Branches, NEW new, NEW changed \in SUBSET Names, NEW id, Updates(b, new, changed, id)
    PROVE  VersionsInv'
<1> SUFFICES ASSUME NEW i \in DOMAIN versions'
             PROVE  /\ versions'[i].follows \in 0 .. (i - 1)
                    /\ versions'[i].derivedFrom \in {None, versions'[i].follows}
                    /\ versions'[i].derivedFrom # versions'[i].follows => versions'[i].imported
                    /\ versions'[i].follows # None /\ ~versions'[i].removed =>
                          versions'[i].gone = versions'[versions'[i].follows].files \ versions'[i].files
  BY DEF VersionsInv
<1>0. NewIdsFor(b, new, changed, id)
  BY NewIds
<1>1. Extends /\ VersionsInv
  BY DEF Updates, Stores, IInv
<1>2. CASE i \in DOMAIN versions
  <2>1. /\ versions[i].follows \in 0 .. (i - 1)
        /\ versions[i].derivedFrom \in {None, versions[i].follows}
        /\ versions[i].derivedFrom # versions[i].follows => versions[i].imported
        /\ versions[i].follows # None /\ ~versions[i].removed =>
              versions[i].gone = versions[versions[i].follows].files \ versions[i].files
    BY <1>1, <1>2 DEF VersionsInv
  <2>2. versions'[i] = versions[i]
    BY <1>1, <1>2 DEF Extends
  <2>3. versions[i].follows # None => versions[i].follows \in DOMAIN versions
    <3>1. versions \in Seq(Dataset)
      BY DEF IInv, TypeInv
    <3> QED
      BY <1>2, <2>1, <3>1 DEF None
  <2> QED
    BY <1>1, <2>1, <2>2, <2>3 DEF Extends
<1>3. CASE i \notin DOMAIN versions
  <2>1. PICK n \in changed : i = id[n]
    BY <1>3 DEF Updates, Stores
  <2>2. PICK v : v = versions'[i]
    OBVIOUS
  <2>3. PICK c : c = metadata[b].datasets[n]
    OBVIOUS
  <2>4. Replaces(v, n, c)
    BY <2>1, <2>2, <2>3 DEF Updates, Stores
  <2>5. c \in metadata[b].known \cup {None} /\ metadata[b].known \subseteq DOMAIN versions
    BY <2>3, <1>0 DEF NewIdsFor, IInv, MetadataInv
  <2>6. c # None => c \in DOMAIN versions /\ versions'[c] = versions[c]
    BY <1>1, <2>5 DEF Extends
  <2>7. i \in Nat \ {0} /\ \A j \in DOMAIN versions : j \in Nat \ {0} /\ j < i
    BY <2>1, <1>0 DEF NewIdsFor
  <2>8. c \in 0 .. (i - 1)
    BY <2>5, <2>6, <2>7 DEF None
  <2> QED
    BY <2>2, <2>4, <2>6, <2>8 DEF Replaces
<1> QED
  BY <1>2, <1>3

LEMMA UpdateMetadataInv ==
    ASSUME IInv, NEW b \in Branches, NEW new, NEW changed \in SUBSET Names, NEW id, Updates(b, new, changed, id)
    PROVE  MetadataInv(base.metadata)' /\ \A c \in Branches : MetadataInv(metadata[c])'
<1>0. NewIdsFor(b, new, changed, id)
  BY NewIds
<1>1. Extends /\ Stores(metadata[b], new, changed, id) /\ Tagged(metadata[b], new) /\ MetadataInv(metadata[b])
  BY DEF Updates, Stores, IInv
<1>2. /\ lists \in 0 .. MaxLists /\ lists' \in 0 .. MaxLists /\ lists <= lists'
      /\ metadata[b] \in Metadata /\ new \in Metadata
  BY <1>1, DatasetsAssumption DEF Tagged, Updates, IInv, TypeInv
<1>3. ASSUME NEW m \in Metadata, MetadataInv(m), \A i \in m.known : versions'[i] = versions[i]
      PROVE  m.known \subseteq DOMAIN versions'
             /\ (\A i \in m.known : versions'[i].derivedFrom \in m.known \cup {None})
             /\ (\A n \in Names : m.tags[n] <= lists')
             /\ (\A o \in Oids : o > lists' => m.lists[o] = NoTags)
  <2>1. \A n \in Names : m.tags[n] \in Nat
    BY DEF Metadata, Oids, None
  <2> QED
    BY <1>1, <1>2, <1>3, <2>1 DEF MetadataInv, Extends, Oids
<1>4. MetadataInv(base.metadata)'
  <2>1. MetadataInv(base.metadata) /\ base.metadata \in Metadata
    BY DEF IInv, TypeInv
  <2> QED
    BY <1>1, <1>3, <2>1 DEF MetadataInv, Updates, Extends
<1>5. ASSUME NEW c \in Branches, c # b
      PROVE  MetadataInv(metadata[c])'
  <2>1. MetadataInv(metadata[c]) /\ metadata[c] \in Metadata /\ metadata'[c] = metadata[c]
    BY <1>5 DEF IInv, TypeInv, Updates
  <2> QED
    BY <1>1, <1>3, <2>1 DEF MetadataInv, Extends
<1>6. MetadataInv(metadata[b])'
  <2>1. metadata'[b] = new
    BY DEF Updates, IInv, TypeInv
  <2>2. new.known \subseteq DOMAIN versions' /\ new.tails \subseteq new.known
    <3>1. \A n \in changed : metadata[b].datasets[n] \notin new.tails \/ metadata[b].datasets[n] \in new.known
      BY <1>1, <1>0 DEF NewIdsFor, Stores, MetadataInv
    <3> QED
      BY <1>1, <1>0 DEF NewIdsFor, Stores, MetadataInv
  <2>3. \A i \in new.known : versions'[i].derivedFrom \in new.known \cup {None}
    <3>1. ASSUME NEW n \in changed
          PROVE  versions'[id[n]].derivedFrom \in new.known \cup {None}
      BY <1>1, <1>0 DEF NewIdsFor, Stores, Replaces
    <3>2. ASSUME NEW i \in metadata[b].known
          PROVE  versions'[i].derivedFrom \in new.known \cup {None}
      BY <1>1 DEF Stores, MetadataInv, Extends
    <3> QED
      BY <1>1, <3>1, <3>2 DEF Stores
  <2>4. \A n \in Names : new.datasets[n] \in new.known \cup {None}
    BY <1>1, <1>0 DEF NewIdsFor, Stores, MetadataInv
  <2>5. new.known = {} => new = EmptyMetadata
    <3>1. SUFFICES ASSUME new.known = {}
                   PROVE  new = EmptyMetadata
      OBVIOUS
    <3>2. changed = {} /\ metadata[b].known = {}
      BY <1>1, <3>1, <1>0 DEF NewIdsFor, Stores
    <3>3. metadata[b] = EmptyMetadata
      BY <1>1, <3>2 DEF MetadataInv
    <3>4. \A n \in Names : new.datasets[n] = None
      BY <3>1, <2>4
    <3>5. \A n \in Names : new.tags[n] = None
      BY <1>1, <3>3, <3>4 DEF Tagged, EmptyMetadata
    <3>6. \A o \in Oids : new.lists[o] = NoTags
      BY <1>1, <3>3, <3>4 DEF Tagged, EmptyMetadata
    <3>7. new.tails = {}
      BY <1>1, <3>2, <3>3 DEF Stores, EmptyMetadata
    <3>8. /\ new.datasets \in [Names -> Nat] /\ new.tags \in [Names -> Oids \cup {None}]
          /\ new.lists \in [Oids -> [Tags -> Nat]]
          /\ new = [known |-> new.known, datasets |-> new.datasets, tails |-> new.tails,
                    tags |-> new.tags, lists |-> new.lists]
      BY <1>2 DEF Metadata
    <3>9. /\ new.datasets = [n \in Names |-> None] /\ new.tags = [n \in Names |-> None]
          /\ new.lists = [o \in Oids |-> NoTags]
      BY <3>4, <3>5, <3>6, <3>8
    <3> QED
      BY <3>1, <3>7, <3>8, <3>9 DEF EmptyMetadata
  <2>6. \A o \in Oids, t \in Tags : new.lists[o][t] \in new.known \cup {None}
    BY <1>1, <2>4 DEF Tagged, MetadataInv, Stores
  <2>7. \A n \in Names : new.tags[n] <= lists'
    <3>1. \A n \in Names : metadata[b].tags[n] \in Nat /\ metadata[b].tags[n] <= lists /\ new.tags[n] \in Nat
      BY <1>1, <1>2 DEF MetadataInv, Metadata, Oids, None
    <3> QED
      BY <1>1, <1>2, <3>1 DEF Tagged, None
  <2>8. ASSUME NEW o \in Oids, o > lists'
        PROVE  new.lists[o] = NoTags
    <3>1. o \in Nat /\ o > lists /\ metadata[b].lists[o] = NoTags
      BY <1>1, <1>2, <2>8 DEF MetadataInv, Oids
    <3>2. \A n \in Names : new.tags[n] # o
      BY <1>2, <2>7, <2>8, <3>1
    <3> QED
      BY <1>1, <3>1, <3>2 DEF Tagged
  <2> QED
    BY <2>1, <2>2, <2>3, <2>4, <2>5, <2>6, <2>7, <2>8 DEF MetadataInv
<1> QED
  BY <1>4, <1>5, <1>6

LEMMA UpdateOwnerInv ==
    ASSUME IInv, NEW b \in Branches, NEW new, NEW changed \in SUBSET Names, NEW id, Updates(b, new, changed, id)
    PROVE  OwnerInv'
<1> DEFINE all == {base.metadata} \cup {metadata[c] : c \in Branches}
<1>1. /\ lists \in Nat
      /\ \A m \in all : \A n \in Names : m.tags[n] <= lists /\ m.tags[n] \in Nat
      /\ \A m1, m2 \in all : \A n1, n2 \in Names : m1.tags[n1] = m2.tags[n2] /\ m1.tags[n1] # None => n1 = n2
  <2>1. lists \in Nat /\ OwnerInv /\ \A m \in all : m \in Metadata /\ MetadataInv(m)
    BY DEF IInv, TypeInv
  <2>2. \A m \in Metadata : MetadataInv(m) => \A n \in Names : m.tags[n] <= lists /\ m.tags[n] \in Nat
    BY DEF MetadataInv, Metadata, Oids, None
  <2> QED
    BY <2>1, <2>2 DEF OwnerInv
<1>2. {base.metadata'} \cup {metadata'[c] : c \in Branches} \subseteq all \cup {new} /\ metadata[b] \in all
  BY DEF Updates, IInv, TypeInv
<1> HIDE DEF all
<1>3. \A n \in Names : new.tags[n] \in Nat /\ new.tags[n] \in {None, metadata[b].tags[n], lists + 1}
  BY DEF Updates, Tagged, Metadata, Oids, None
<1>4. \A n, k \in Names : new.tags[n] = lists + 1 /\ new.tags[k] = lists + 1 => n = k
  BY DEF Updates, Tagged
<1>5. ASSUME NEW m1 \in all \cup {new}, NEW m2 \in all \cup {new}, NEW n1 \in Names, NEW n2 \in Names,
             m1.tags[n1] = m2.tags[n2], m1.tags[n1] # None
      PROVE  n1 = n2
  BY <1>1, <1>2, <1>3, <1>4, <1>5 DEF None
<1> QED
  BY <1>2, <1>5 DEF OwnerInv

LEMMA UpdateBaseInv ==
    ASSUME IInv, NEW b \in Branches, NEW new, NEW changed \in SUBSET Names, NEW id, Updates(b, new, changed, id)
    PROVE  BaseInv'
<1> DEFINE old == metadata[b]
           ids == {id[n] : n \in changed}
<1>0. NewIdsFor(b, new, changed, id)
  BY NewIds
<1>1. /\ metadata'[b] = new /\ base' = base /\ new \in Metadata /\ old \in Metadata
      /\ \A c \in Branches \ {b} : metadata'[c] = metadata[c]
  BY DEF Updates, IInv, TypeInv
<1>2. /\ new.known = old.known \cup ids
      /\ new.tails = (old.tails \ {old.datasets[n] : n \in changed}) \cup ids
      /\ \A n \in Names \ changed : new.datasets[n] = old.datasets[n]
  BY DEF Updates, Stores
<1>3. /\ ids \cap DOMAIN versions = {} /\ (ids = {} => changed = {}) /\ base.metadata.known \subseteq DOMAIN versions
      /\ \A c \in Branches : metadata[c].known \subseteq DOMAIN versions /\ metadata[c].tails \subseteq metadata[c].known
  <2>1. ids \cap DOMAIN versions = {}
    BY <1>0 DEF NewIdsFor
  <2>2. ids = {} => changed = {}
    OBVIOUS
  <2> HIDE DEF ids
  <2> QED
    BY <2>1, <2>2 DEF IInv, MetadataInv
<1>4. changed = {} => new.tails = old.tails /\ new.datasets = old.datasets
  <2> SUFFICES ASSUME changed = {} PROVE new.tails = old.tails /\ new.datasets = old.datasets
    OBVIOUS
  <2>1. new.tails = old.tails
    BY <1>2
  <2>2. \A n \in Names : new.datasets[n] = old.datasets[n]
    BY <1>2
  <2>3. new.datasets \in [Names -> Nat] /\ old.datasets \in [Names -> Nat]
    BY <1>1 DEF Metadata
  <2> HIDE DEF old
  <2>4. new.datasets = old.datasets
    BY <2>2, <2>3
  <2> QED
    BY <2>1, <2>4
<1> HIDE DEF ids
<1>5. BaseInv
  BY DEF IInv
<1>6. /\ base.metadata.known \subseteq new.known
      /\ new.known = base.metadata.known =>
            new.tails = base.metadata.tails /\ new.datasets = base.metadata.datasets
  <2>1. /\ base.metadata.known \subseteq old.known
        /\ old.known = base.metadata.known =>
              old.tails = base.metadata.tails /\ old.datasets = base.metadata.datasets
    BY <1>5 DEF BaseInv
  <2> HIDE DEF old
  <2>2. new.known = base.metadata.known => ids = {} /\ old.known = base.metadata.known
    BY <1>2, <1>3, <2>1
  <2>3. new.known = base.metadata.known => changed = {}
    BY <1>3, <2>2
  <2> QED
    BY <1>2, <1>4, <2>1, <2>2, <2>3
<1>7. ASSUME NEW c \in Branches \ {b}
      PROVE  /\ new.known \cap metadata[c].known = base.metadata.known
             /\ new.known \subseteq metadata[c].known \/ ~(new.tails \subseteq metadata[c].known)
             /\ metadata[c].known \subseteq new.known \/ ~(metadata[c].tails \subseteq new.known)
  <2>1. /\ old.known \cap metadata[c].known = base.metadata.known
        /\ old.known \subseteq metadata[c].known \/ ~(old.tails \subseteq metadata[c].known)
        /\ metadata[c].known \subseteq old.known \/ ~(metadata[c].tails \subseteq old.known)
    BY <1>5 DEF BaseInv
  <2>2. CASE ids = {}
    BY <1>2, <1>3, <1>4, <2>1, <2>2
  <2>3. CASE ids # {}
    BY <1>2, <1>3, <2>1, <2>3
  <2> QED
    BY <2>2, <2>3
<1>8. ASSUME NEW c \in Branches, NEW d \in Branches \ {c}
      PROVE  /\ metadata'[c].known \cap metadata'[d].known = base.metadata.known
             /\ metadata'[c].known \subseteq metadata'[d].known \/ ~(metadata'[c].tails \subseteq metadata'[d].known)
  BY <1>1, <1>5, <1>7 DEF BaseInv
<1>9. ASSUME NEW c \in Branches
      PROVE  /\ base.metadata.known \subseteq metadata'[c].known
             /\ metadata'[c].known = base.metadata.known =>
                  metadata'[c].tails = base.metadata.tails /\ metadata'[c].datasets = base.metadata.datasets
  BY <1>1, <1>5, <1>6 DEF BaseInv
<1> QED
  BY <1>1, <1>8, <1>9 DEF BaseInv

LEMMA UpdateListsInv ==
    ASSUME IInv, NEW b \in Branches, NEW new, NEW changed \in SUBSET Names, NEW id, Updates(b, new, changed, id)
    PROVE  ListsInv'
<1> DEFINE old == metadata[b]
<1>1. /\ metadata'[b] = new /\ base' = base /\ Tagged(old, new)
      /\ \A c \in Branches \ {b} : metadata'[c] = metadata[c]
      /\ lists \in Nat /\ ListsInv
  BY DEF Updates, IInv, TypeInv
<1>2. \A c \in Branches : /\ \A n \in Names : metadata[c].tags[n] <= lists /\ metadata[c].tags[n] \in Oids \cup {None}
                          /\ \A o \in Oids : o > lists => metadata[c].lists[o] = NoTags
  BY DEF IInv, TypeInv, MetadataInv, Metadata
<1>3. \A o \in Oids : o > lists => base.metadata.lists[o] = NoTags
  BY DEF IInv, MetadataInv
<1>4. \A n \in Names : new.tags[n] \in Oids \cup {None} /\ new.tags[n] \in {None, old.tags[n], lists + 1}
  BY <1>1 DEF Updates, Metadata, Tagged
<1>5. \A o \in Oids : o \in Nat /\ o # None
  BY DEF Oids, None
<1>6. \A c, d \in Branches : \A n, k \in Names :
          metadata[c].tags[n] = metadata[d].tags[k] /\ metadata[c].tags[n] # None => n = k
  BY DEF IInv, OwnerInv
\* the list of another branch is not the one that this branch changed
<1>7. ASSUME NEW c \in Branches \ {b}, NEW n \in Names, metadata[c].tags[n] \notin {None, base.metadata.tags[n]}
      PROVE  /\ new.lists[metadata[c].tags[n]] = base.metadata.lists[metadata[c].tags[n]]
             /\ new.tags[n] # metadata[c].tags[n]
  <2>1. PICK o \in Oids : o = metadata[c].tags[n] /\ o <= lists /\ o # lists + 1
    BY <1>1, <1>2, <1>5, <1>7
  <2>2. old.lists[o] = base.metadata.lists[o] /\ old.tags[n] # o
    BY <1>1, <1>7, <2>1 DEF ListsInv
  <2>3. new.tags[n] # o
    BY <1>4, <1>5, <2>1, <2>2
  <2>4. \A k \in Names : new.tags[k] = o => k = n
    <3>1. SUFFICES ASSUME NEW k \in Names, new.tags[k] = o
                   PROVE  k = n
      OBVIOUS
    <3>2. old.tags[k] = o
      BY <1>4, <1>5, <2>1, <3>1
    <3> QED
      BY <1>5, <1>6, <2>1, <3>2
  <2>5. new.lists[o] = old.lists[o]
    BY <1>1, <2>3, <2>4 DEF Tagged
  <2> QED
    BY <2>1, <2>2, <2>3, <2>5
\* another branch does not have the list that this branch made
<1>8. ASSUME NEW c \in Branches \ {b}, NEW n \in Names, new.tags[n] \notin {None, base.metadata.tags[n]}
      PROVE  /\ metadata[c].lists[new.tags[n]] = base.metadata.lists[new.tags[n]]
             /\ metadata[c].tags[n] # new.tags[n]
  <2>1. CASE new.tags[n] = old.tags[n]
    BY <1>1, <1>8, <2>1 DEF ListsInv
  <2>2. CASE new.tags[n] = lists + 1
    BY <1>1, <1>2, <1>3, <1>4, <1>5, <1>8, <2>2
  <2> QED
    BY <1>4, <1>8, <2>1, <2>2
<1> QED
  BY <1>1, <1>7, <1>8 DEF ListsInv

LEMMA UpdateActive ==
    ASSUME IInv, NEW b \in Branches, NEW new, NEW changed \in SUBSET Names, NEW id, Updates(b, new, changed, id)
    PROVE  ActiveDatasetsAreTails'
<1> DEFINE old == metadata[b]
<1>0. NewIdsFor(b, new, changed, id)
  BY NewIds
<1>1. /\ metadata'[b] = new /\ Extends
      /\ \A c \in Branches \ {b} : metadata'[c] = metadata[c]
      /\ ActiveDatasetsAreTails
  BY DEF Updates, IInv, TypeInv, Stores
<1>2. \A c \in Branches : \A n \in Names :
          metadata[c].datasets[n] # None => metadata[c].datasets[n] \in DOMAIN versions
  BY DEF IInv, MetadataInv
<1>3. ASSUME NEW c \in Branches \ {b}, NEW n \in Names, metadata[c].datasets[n] # None
      PROVE  /\ versions'[metadata[c].datasets[n]].name = n /\ ~versions'[metadata[c].datasets[n]].removed
             /\ metadata[c].datasets[n] \in metadata[c].tails
  BY <1>1, <1>2, <1>3 DEF ActiveDatasetsAreTails, Extends
<1>4. ASSUME NEW n \in Names, new.datasets[n] # None
      PROVE  /\ versions'[new.datasets[n]].name = n /\ ~versions'[new.datasets[n]].removed
             /\ new.datasets[n] \in new.tails
  <2>1. CASE n \in changed
    <3>1. new.datasets[n] = id[n] /\ ~versions'[id[n]].removed /\ versions'[id[n]].name = n
      BY <1>4, <2>1 DEF Updates, Stores, Replaces
    <3> QED
      BY <1>0, <2>1, <3>1 DEF NewIdsFor
  <2>2. CASE n \notin changed
    <3>1. PICK v : v = old.datasets[n]
      OBVIOUS
    <3>2. new.datasets[n] = v /\ v # None
      BY <1>4, <2>2, <3>1 DEF Updates, Stores
    <3>3. versions[v].name = n /\ ~versions[v].removed /\ v \in old.tails /\ versions'[v] = versions[v]
      BY <1>1, <1>2, <3>1, <3>2 DEF ActiveDatasetsAreTails, Extends
    <3>4. \A k \in changed : old.datasets[k] # v
      BY <1>1, <2>2, <3>2, <3>3 DEF ActiveDatasetsAreTails
    <3>5. v \in new.tails
      BY <3>3, <3>4 DEF Updates, Stores
    <3> QED
      BY <3>2, <3>3, <3>5
  <2> QED
    BY <2>1, <2>2
<1> QED
  BY <1>1, <1>3, <1>4 DEF ActiveDatasetsAreTails

\* How the versions that are above others grow.
LEMMA UpdateHistory ==
    ASSUME IInv, NEW b \in Branches, NEW new, NEW changed \in SUBSET Names, NEW id, Updates(b, new, changed, id)
    PROVE  /\ \A v \in DOMAIN versions : Ancestors(v)' = Ancestors(v) /\ History(v)' = History(v)
           /\ \A v \in DOMAIN versions' : Ancestors(v)' \subseteq History(v)'
           /\ \A n \in changed : metadata[b].datasets[n] # None =>
                LET current == metadata[b].datasets[n]
                IN  /\ {current} \cup History(current) \subseteq History(id[n])'
                    /\ \/ {current} \cup Ancestors(current) \subseteq Ancestors(id[n])'
                       \/ versions'[id[n]].imported
<1>0. NewIdsFor(b, new, changed, id)
  BY NewIds
<1>1. versions \in Seq(Dataset) /\ versions' \in Seq(Dataset) /\ Extends
  BY DEF Updates, Stores, IInv, TypeInv
<1>2. \A v \in DOMAIN versions : Ancestors(v)' = Ancestors(v) /\ History(v)' = History(v)
  BY <1>1, AboveIsStable DEF Ancestors, History
<1>3. VersionsInv'
  BY UpdateVersionsInv
<1>4. \A i \in DOMAIN versions' : versions'[i].follows \in 0 .. (i - 1)
                                  /\ versions'[i].derivedFrom \in {None, versions'[i].follows}
  BY <1>3 DEF VersionsInv
<1>5. LinksDown(versions', "follows") /\ LinksDown(versions', "derivedFrom")
  <2>1. \A i \in DOMAIN versions' : i \in Nat \ {0} /\ versions'[i].derivedFrom \in 0 .. (i - 1)
    BY <1>0, <1>4 DEF NewIdsFor, None
  <2> QED
    BY <1>4, <2>1 DEF LinksDown
<1>6. \A v \in DOMAIN versions' : Ancestors(v)' \subseteq History(v)'
  BY <1>1, <1>4, <1>5, DerivedIsAbove DEF Ancestors, History
<1>7. ASSUME NEW n \in changed, metadata[b].datasets[n] # None
      PROVE  /\ {metadata[b].datasets[n]} \cup History(metadata[b].datasets[n]) \subseteq History(id[n])'
             /\ \/ {metadata[b].datasets[n]} \cup Ancestors(metadata[b].datasets[n]) \subseteq Ancestors(id[n])'
                \/ versions'[id[n]].imported
  <2>1. PICK c : c = metadata[b].datasets[n] /\ c # None
    BY <1>7
  <2>2. PICK v : v = id[n]
    OBVIOUS
  <2>3. v \in DOMAIN versions' /\ Replaces(versions'[v], n, c)
    BY <1>0, <2>1, <2>2 DEF NewIdsFor, Updates, Stores
  <2>4. c \in DOMAIN versions
    BY <1>0, <2>1 DEF NewIdsFor, IInv, MetadataInv
  <2>5. versions'[v]["follows"] = c
    BY <2>3 DEF Replaces
  <2>6. {c} \cup Above(versions', c, "follows") \subseteq Above(versions', v, "follows")
    BY <1>1, <1>5, <2>1, <2>3, <2>5, AboveOfLink
  <2>7. {c} \cup History(c) \subseteq History(v)'
    BY <1>1, <2>4, <2>6, AboveIsStable DEF History
  <2>8. ASSUME ~versions'[v].imported
        PROVE  {c} \cup Ancestors(c) \subseteq Ancestors(v)'
    <3>1. versions'[v]["derivedFrom"] = c
      BY <2>3, <2>8 DEF Replaces
    <3>2. {c} \cup Above(versions', c, "derivedFrom") \subseteq Above(versions', v, "derivedFrom")
      BY <1>1, <1>5, <2>1, <2>3, <3>1, AboveOfLink
    <3> QED
      BY <1>1, <2>4, <3>2, AboveIsStable DEF Ancestors
  <2> QED
    BY <2>1, <2>2, <2>7, <2>8
<1> QED
  BY <1>2, <1>6, <1>7

LEMMA UpdateReachable ==
    ASSUME IInv, NEW b \in Branches, NEW new, NEW changed \in SUBSET Names, NEW id, Updates(b, new, changed, id)
    PROVE  VersionsAreReachable'
<1> DEFINE old == metadata[b]
<1>0. NewIdsFor(b, new, changed, id)
  BY NewIds
<1>1. /\ metadata'[b] = new /\ Extends /\ Stores(old, new, changed, id)
      /\ \A c \in Branches \ {b} : metadata'[c] = metadata[c]
      /\ VersionsAreReachable
  BY DEF Updates, IInv, TypeInv, Stores
<1>2. \A c \in Branches : metadata[c].known \subseteq DOMAIN versions /\ metadata[c].tails \subseteq metadata[c].known
  BY DEF IInv, MetadataInv
<1>3. /\ \A v \in DOMAIN versions : Ancestors(v)' = Ancestors(v) /\ History(v)' = History(v)
      /\ \A v \in DOMAIN versions' : Ancestors(v)' \subseteq History(v)'
  BY UpdateHistory
<1>4. \A v \in DOMAIN versions : WasReplaced(v) => WasReplaced(v)'
  <2>1. SUFFICES ASSUME NEW v \in DOMAIN versions, NEW w \in DOMAIN versions,
                        versions[w].imported, v \in History(w)
                 PROVE  \E x \in DOMAIN versions' : versions'[x].imported /\ v \in History(x)'
    BY DEF WasReplaced
  <2> QED
    BY <1>1, <1>3, <2>1 DEF Extends
<1>5. ASSUME NEW c \in Branches \ {b}, NEW v \in metadata[c].known
      PROVE  WasReplaced(v)' \/ \E w \in metadata[c].tails : v = w \/ v \in Ancestors(w)'
  <2>1. WasReplaced(v) \/ \E w \in metadata[c].tails : v = w \/ v \in Ancestors(w)
    BY <1>1 DEF VersionsAreReachable
  <2> QED
    BY <1>2, <1>3, <1>4, <2>1
<1>6. ASSUME NEW v \in new.known
      PROVE  WasReplaced(v)' \/ \E w \in new.tails : v = w \/ v \in Ancestors(w)'
  <2>1. CASE v \notin old.known
    BY <1>1, <2>1 DEF Stores
  <2>2. CASE v \in old.known /\ WasReplaced(v)
    BY <1>2, <1>4, <2>2
  <2>3. ASSUME v \in old.known, NEW w \in old.tails, v = w \/ v \in Ancestors(w)
        PROVE  WasReplaced(v)' \/ \E x \in new.tails : v = x \/ v \in Ancestors(x)'
    <3>1. w \in DOMAIN versions
      BY <1>2
    <3>2. CASE w \in new.tails
      BY <1>3, <2>3, <3>1, <3>2
    <3>3. CASE w \notin new.tails
      <4>1. PICK n \in changed : w = old.datasets[n]
        BY <1>1, <3>3 DEF Stores
      <4>2. w # None /\ id[n] \in DOMAIN versions' /\ id[n] \in new.tails
        BY <1>0, <3>1 DEF NewIdsFor, None
      <4>3. /\ {w} \cup History(w) \subseteq History(id[n])'
            /\ {w} \cup Ancestors(w) \subseteq Ancestors(id[n])' \/ versions'[id[n]].imported
        BY <4>1, <4>2, UpdateHistory
      <4>4. Ancestors(w) \subseteq History(w)
        <5>1. Ancestors(w)' \subseteq History(w)'
          BY <1>1, <1>3, <3>1 DEF Extends
        <5> QED
          BY <1>3, <3>1, <5>1
      <4>5. CASE {w} \cup Ancestors(w) \subseteq Ancestors(id[n])'
        BY <2>3, <4>2, <4>5
      <4>6. CASE versions'[id[n]].imported
        <5>1. v \in History(id[n])'
          BY <2>3, <4>3, <4>4
        <5> QED
          BY <4>2, <4>6, <5>1 DEF WasReplaced
      <4> QED
        BY <4>3, <4>5, <4>6
    <3> QED
      BY <3>2, <3>3
  <2>4. v \in old.known => WasReplaced(v) \/ \E w \in old.tails : v = w \/ v \in Ancestors(w)
    BY <1>1 DEF VersionsAreReachable
  <2> QED
    BY <2>1, <2>2, <2>3, <2>4
<1>7. ASSUME NEW c \in Branches, NEW v \in metadata'[c].known
      PROVE  WasReplaced(v)' \/ \E w \in metadata'[c].tails : v = w \/ v \in Ancestors(w)'
  BY <1>1, <1>5, <1>6
<1> QED
  BY <1>7 DEF VersionsAreReachable

LEMMA UpdateTags ==
    ASSUME IInv, NEW b \in Branches, NEW new, NEW changed \in SUBSET Names, NEW id, Updates(b, new, changed, id)
    PROVE  TagsAreOfTheirDataset'
<1> DEFINE old == metadata[b]
<1>0. NewIdsFor(b, new, changed, id)
  BY NewIds
<1>1. /\ metadata'[b] = new /\ base' = base /\ Stores(old, new, changed, id) /\ Tagged(old, new)
      /\ \A c \in Branches \ {b} : metadata'[c] = metadata[c]
      /\ lists \in Nat
  BY DEF Updates, IInv, TypeInv
<1>2. SUFFICES ASSUME base.metadata = EmptyMetadata,
                      NEW c \in Branches, NEW n \in Names, NEW t \in Tags,
                      NEW e, e = metadata'[c].datasets[n], TagsOf(metadata'[c], n)[t] # None
               PROVE  TagsOf(metadata'[c], n)[t] \in {e} \cup History(e)'
  BY <1>1 DEF TagsAreOfTheirDataset, TagsOf, History
<1>3. \A d \in Branches : \A k \in Names : \A u \in Tags : TagsOf(metadata[d], k)[u] # None =>
          TagsOf(metadata[d], k)[u] \in {metadata[d].datasets[k]} \cup History(metadata[d].datasets[k])
  BY <1>2 DEF IInv, TagsAreOfTheirDataset
<1>4. /\ \A d \in Branches : \A k \in Names : metadata[d].datasets[k] # None => metadata[d].datasets[k] \in DOMAIN versions
      /\ \A v \in DOMAIN versions : History(v)' = History(v)
  <2>1. \A v \in DOMAIN versions : History(v)' = History(v)
    BY UpdateHistory
  <2> QED
    BY <2>1 DEF IInv, MetadataInv
<1>5. History(None) = {}
  BY DEF History, Above, None
<1>6. CASE c # b
  <2>1. metadata'[c] = metadata[c]
    BY <1>1, <1>6
  <2>2. TagsOf(metadata'[c], n)[t] \in {e} \cup History(e)
    BY <1>2, <1>3, <2>1
  <2>3. e \in DOMAIN versions
    BY <1>2, <1>4, <1>5, <2>1, <2>2
  <2> QED
    BY <1>4, <2>2, <2>3
<1>7. CASE c = b
  <2>1. PICK o : o = new.tags[n]
    OBVIOUS
  <2>2. PICK v : v = new.lists[o][t]
    OBVIOUS
  <2>3. TagsOf(metadata'[c], n)[t] = v /\ v # None /\ o # None /\ o \in Oids
    <3>1. o # None
      BY <1>1, <1>2, <1>7, <2>1 DEF TagsOf, NoTags
    <3>2. o \in Oids
      BY <2>1, <3>1 DEF Updates, Metadata
    <3> QED
      BY <1>1, <1>2, <1>7, <2>1, <2>2, <3>1, <3>2 DEF TagsOf
  \* the tag is new or it was there
  <2>4. v = new.datasets[n] \/ (o = old.tags[n] /\ old.lists[o][t] = v)
    <3>1. v = old.lists[o][t] \/ (v = new.datasets[n])
      <4>1. CASE new.lists[o] = old.lists[o]
        BY <2>2, <4>1
      <4>2. CASE \E k \in Names : /\ new.tags[k] = o
                                  /\ \A u \in Tags : new.lists[o][u] \in {None, old.lists[o][u], new.datasets[k]}
        <5>1. PICK k \in Names : /\ new.tags[k] = o
                                 /\ \A u \in Tags : new.lists[o][u] \in {None, old.lists[o][u], new.datasets[k]}
          BY <4>2
        <5>2. OwnerInv'
          BY UpdateOwnerInv
        <5>3. k = n
          BY <1>1, <2>1, <2>3, <5>1, <5>2 DEF OwnerInv
        <5> QED
          BY <2>2, <2>3, <5>1, <5>3
      <4> QED
        BY <1>1, <2>3, <4>1, <4>2 DEF Tagged
    <3>2. CASE o = lists + 1
      <4>1. old.lists[o] = NoTags
        BY <1>1, <2>3, <3>2 DEF IInv, MetadataInv
      <4> QED
        BY <2>3, <3>1, <4>1 DEF NoTags
    <3>3. CASE o = old.tags[n]
      BY <3>1, <3>3
    <3> QED
      BY <1>1, <2>1, <2>3, <3>2, <3>3 DEF Tagged
  <2>5. CASE o = old.tags[n] /\ old.lists[o][t] = v
    <3>1. PICK d : d = old.datasets[n]
      OBVIOUS
    <3>2. TagsOf(old, n)[t] = v
      BY <2>3, <2>5 DEF TagsOf
    <3>3. v \in {d} \cup History(d)
      BY <1>3, <2>3, <3>1, <3>2
    <3>4. d # None /\ d \in DOMAIN versions /\ History(d)' = History(d)
      BY <1>4, <1>5, <2>3, <3>1, <3>3
    <3>5. CASE n \notin changed
      <4>1. new.datasets[n] = d
        BY <1>1, <3>1, <3>5 DEF Stores
      <4> QED
        BY <1>1, <1>2, <1>7, <2>3, <3>3, <3>4, <4>1
    <3>6. CASE n \in changed
      <4>1. new.datasets[n] # None
        BY <1>1, <2>1, <2>3, <3>1, <3>4 DEF Tagged
      <4>2. new.datasets[n] = id[n]
        BY <1>1, <3>6, <4>1 DEF Stores
      <4>3. {d} \cup History(d) \subseteq History(id[n])'
        BY <3>1, <3>4, <3>6, UpdateHistory
      <4>4. v \in History(id[n])'
        BY <3>3, <4>3
      <4> QED
        BY <1>1, <1>2, <1>7, <2>3, <4>2, <4>4
    <3> QED
      BY <3>5, <3>6
  <2> QED
    BY <1>1, <1>2, <1>7, <2>3, <2>4, <2>5
<1> QED
  BY <1>6, <1>7

LEMMA UpdateIInv ==
    ASSUME IInv, NEW b \in Branches, NEW new, NEW changed \in SUBSET Names, NEW id, Updates(b, new, changed, id),
           project' = project, commands' \in Nat, commands <= commands'
    PROVE  IInv'
<1>1. TypeInv'
  <2>1. /\ versions' \in Seq(Dataset) /\ Len(versions') <= MaxVersions
        /\ metadata' \in [Branches -> Metadata]
        /\ lists' \in 0 .. MaxLists /\ base' = base
    BY DatasetsAssumption DEF Updates, Stores, Tagged, IInv, TypeInv
  <2>2. \A c \in Branches : project[c].description <= commands' /\ project[c].template <= commands'
    <3>1. commands \in Nat /\ \A c \in Branches : project[c].description \in Nat /\ project[c].template \in Nat
      BY DEF IInv, TypeInv, Project
    <3> QED
      BY <3>1 DEF IInv, TypeInv
  <2> QED
    BY <2>1, <2>2 DEF IInv, TypeInv
<1>2. VersionsInv' /\ OwnerInv' /\ BaseInv' /\ ListsInv'
  BY UpdateVersionsInv, UpdateOwnerInv, UpdateBaseInv, UpdateListsInv
<1>3. MetadataInv(base.metadata)' /\ \A c \in Branches : MetadataInv(metadata[c])'
  BY UpdateMetadataInv
<1>4. VersionsAreReachable' /\ ActiveDatasetsAreTails' /\ TagsAreOfTheirDataset'
  BY UpdateReachable, UpdateActive, UpdateTags
<1> QED
  BY <1>1, <1>2, <1>3, <1>4 DEF IInv

-----------------------------------------------------------------------------
\* The fields of a metadata directory that has a new version.
HasVersion(new, m, i, w) ==
    /\ new \in Metadata
    /\ new.known = m.known \cup {i} /\ new.tails = (m.tails \ {w.derivedFrom}) \cup {i}
    /\ new.datasets = [m.datasets EXCEPT ![w.name] = IF w.removed THEN None ELSE i]
    /\ new.tags = [m.tags EXCEPT ![w.name] = IF w.removed THEN None ELSE @]
    /\ new.lists = m.lists

LEMMA AddOrRemoveHasVersion ==
    ASSUME NEW m \in Metadata, NEW i \in Nat, NEW w, w.name \in Names, w.removed \in BOOLEAN
    PROVE  HasVersion(AddOrRemove(m, i, w), m, i, w)
  BY DEF HasVersion, AddOrRemove, Metadata, None

\* A version that is stored alone.
LEMMA StoreOne ==
    ASSUME IInv, NEW b \in Branches, NEW v \in Dataset, NEW w, NEW new,
           w.name = v.name, w.removed = v.removed, w.derivedFrom = metadata[b].datasets[v.name],
           Replaces(v, v.name, metadata[b].datasets[v.name]),
           Len(versions) < MaxVersions, versions' = Append(versions, v),
           NEW m, m = AddOrRemove(metadata[b], NextId, w),
           new.known = m.known, new.tails = m.tails, new.datasets = m.datasets
    PROVE  Stores(metadata[b], new, {v.name}, [n \in {v.name} |-> NextId])
<1>1. PICK n \in Names, i \in Nat : n = v.name /\ i = NextId
  BY DEF IInv, TypeInv, Dataset, NextId
<1>2. /\ new.known = metadata[b].known \cup {i}
      /\ new.tails = (metadata[b].tails \ {metadata[b].datasets[n]}) \cup {i}
      /\ new.datasets = [metadata[b].datasets EXCEPT ![n] = IF v.removed THEN None ELSE i]
  <2>1. metadata[b] \in Metadata /\ w.name \in Names /\ w.removed \in BOOLEAN /\ NextId \in Nat
    BY <1>1 DEF IInv, TypeInv, Dataset
  <2>2. HasVersion(m, metadata[b], NextId, w)
    BY <2>1, AddOrRemoveHasVersion
  <2> QED
    BY <1>1, <2>2 DEF HasVersion
<1>3. versions \in Seq(Dataset)
  BY DEF IInv, TypeInv
<1>4. /\ versions' \in Seq(Dataset) /\ Len(versions') <= MaxVersions /\ Extends
      /\ DOMAIN versions' \ DOMAIN versions = {i} /\ versions'[i] = v
  BY <1>1, <1>3, DatasetsAssumption DEF Extends, NextId
<1>5. metadata[b].datasets \in [Names -> Nat]
  BY DEF IInv, TypeInv, Metadata
<1>6. Stores(metadata[b], new, {n}, [k \in {n} |-> i])
  BY <1>1, <1>2, <1>4, <1>5 DEF Stores
<1> QED
  BY <1>1, <1>6

\* What AddOrUpdate returns is a version that replaces the active one.
LEMMA AddOrUpdateReplaces ==
    ASSUME IInv, NEW b \in Branches, NEW n \in Names, NEW files \in SUBSET Files
    PROVE  LET v == AddOrUpdate(metadata[b], n, files)
           IN  v \in Dataset /\ v.name = n /\ ~v.removed /\ v.derivedFrom = metadata[b].datasets[n]
               /\ Replaces(v, n, metadata[b].datasets[n])
<1>1. PICK c \in Nat : c = metadata[b].datasets[n]
  BY DEF IInv, TypeInv, Metadata
<1>2. c # None => versions[c].files \in SUBSET Files
  <2>1. versions \in Seq(Dataset) /\ (c # None => c \in DOMAIN versions)
    BY <1>1 DEF IInv, TypeInv, MetadataInv
  <2>2. c # None => versions[c] \in Dataset
    BY <2>1
  <2> QED
    BY <2>2 DEF Dataset
<1> QED
  BY <1>1, <1>2 DEF AddOrUpdate, Version, UpdateFilesFrom, Replaces, Dataset, None

LEMMA AddVersionUpdates ==
    ASSUME IInv, NEW b \in Branches, NEW n \in Names, NEW files \in SUBSET Files,
           AddVersion(b, n, files), base' = base
    PROVE  \E new, id : Updates(b, new, {n}, id)
<1>1. PICK v : v = AddOrUpdate(metadata[b], n, files)
  OBVIOUS
<1>2. /\ v \in Dataset /\ v.name = n /\ v.removed = FALSE /\ v.derivedFrom = metadata[b].datasets[n]
      /\ Replaces(v, n, metadata[b].datasets[n])
  BY <1>1, AddOrUpdateReplaces DEF Dataset
<1>3. PICK new : new = AddOrRemove(metadata[b], NextId, v)
  OBVIOUS
<1>4. /\ Len(versions) < MaxVersions /\ versions' = Append(versions, v) /\ lists' = lists
      /\ metadata' = [metadata EXCEPT ![b] = new]
  BY <1>1, <1>3 DEF AddVersion, Store
<1>5. Stores(metadata[b], new, {n}, [k \in {n} |-> NextId])
  BY <1>2, <1>3, <1>4, StoreOne
<1>6. /\ new \in Metadata /\ new.tags = metadata[b].tags /\ new.lists = metadata[b].lists
      /\ new.datasets = [metadata[b].datasets EXCEPT ![n] = NextId] /\ NextId # None
  <2>1. metadata[b] \in Metadata /\ NextId \in Nat /\ NextId # None
    BY DEF IInv, TypeInv, NextId, None
  <2>2. HasVersion(new, metadata[b], NextId, v)
    BY <1>2, <1>3, <2>1, AddOrRemoveHasVersion DEF Dataset
  <2>3. metadata[b].tags \in [Names -> Oids \cup {None}]
    BY <2>1 DEF Metadata
  <2> QED
    BY <1>2, <2>1, <2>2, <2>3 DEF HasVersion
<1>7. Tagged(metadata[b], new)
  <2>1. metadata[b] \in Metadata /\ lists \in 0 .. MaxLists /\ \A k \in Names : metadata[b].tags[k] # lists + 1
    BY DEF IInv, TypeInv, MetadataInv, Metadata, Oids, None
  <2>2. \A k \in Names : metadata[b].datasets[k] # None => new.datasets[k] # None
    BY <1>6, <2>1 DEF Metadata
  <2> QED
    BY <1>4, <1>6, <2>1, <2>2, DatasetsAssumption DEF Tagged
<1> QED
  BY <1>4, <1>5, <1>6, <1>7 DEF Updates

LEMMA RemoveDatasetUpdates ==
    ASSUME IInv, NEW b \in Branches, NEW n \in Names, RemoveDataset(b, n), base' = base
    PROVE  \E new, id : Updates(b, new, {n}, id)
<1>1. PICK c : c = metadata[b].datasets[n]
  OBVIOUS
<1>2. c # None /\ c \in DOMAIN versions /\ c \in Nat /\ versions[c] \in Dataset /\ versions[c].name = n
  BY <1>1 DEF RemoveDataset, IsActive, Current, IInv, TypeInv, MetadataInv, ActiveDatasetsAreTails
<1>3. PICK v : v = RemoveVersion(metadata[b], n)
  OBVIOUS
<1>4. /\ v \in Dataset /\ v.name = n /\ v.removed = TRUE /\ v.derivedFrom = c /\ v.follows = c /\ Replaces(v, n, c)
  BY <1>1, <1>2, <1>3 DEF RemoveVersion, Replaces, Dataset
<1>5. PICK new : new = AddOrRemove(metadata[b], NextId, v)
  OBVIOUS
<1>6. /\ Len(versions) < MaxVersions /\ versions' = Append(versions, v) /\ lists' = lists
      /\ metadata' = [metadata EXCEPT ![b] = new]
  BY <1>3, <1>5 DEF RemoveDataset, Store
<1>7. Stores(metadata[b], new, {n}, [k \in {n} |-> NextId])
  BY <1>1, <1>4, <1>5, <1>6, StoreOne
<1>8. /\ new \in Metadata /\ new.lists = metadata[b].lists /\ metadata[b] \in Metadata
      /\ new.tags = [metadata[b].tags EXCEPT ![n] = None]
      /\ new.datasets = [metadata[b].datasets EXCEPT ![n] = None]
  <2>1. metadata[b] \in Metadata /\ NextId \in Nat
    BY DEF IInv, TypeInv, NextId
  <2>2. HasVersion(new, metadata[b], NextId, v)
    BY <1>4, <1>5, <2>1, AddOrRemoveHasVersion DEF Dataset
  <2> QED
    BY <1>4, <2>1, <2>2 DEF HasVersion
<1>9. Tagged(metadata[b], new)
  <2>1. lists \in 0 .. MaxLists /\ \A k \in Names : metadata[b].tags[k] # lists + 1
    BY DEF IInv, TypeInv, MetadataInv, Metadata, Oids, None
  <2>2. \A k \in Names : /\ new.tags[k] \in {None, metadata[b].tags[k]}
                         /\ metadata[b].datasets[k] # None /\ new.datasets[k] = None => new.tags[k] = None
    BY <1>8 DEF Metadata
  <2>3. \A k \in Names : new.tags[k] # lists + 1
    BY <2>1, <2>2 DEF None
  <2> QED
    BY <1>6, <1>8, <2>1, <2>2, <2>3, DatasetsAssumption DEF Tagged
<1> QED
  BY <1>6, <1>7, <1>8, <1>9 DEF Updates

\* A tag of an active dataset, in the list that the dataset has or in a new one.
LEMMA WithTagIsTagged ==
    ASSUME IInv, NEW b \in Branches, NEW m \in Metadata, NEW n \in Names, NEW t \in Tags, NEW i \in Nat \ {0},
           m.tags = metadata[b].tags, m.lists = metadata[b].lists, m.datasets[n] = i,
           \A k \in Names : metadata[b].datasets[k] # None => m.datasets[k] # None,
           lists + NewLists(m, n) <= MaxLists, lists' = lists + NewLists(m, n),
           NEW new, new = WithTag(m, n, t, i, lists + 1)
    PROVE  /\ new \in Metadata /\ Tagged(metadata[b], new)
           /\ new.known = m.known /\ new.tails = m.tails /\ new.datasets = m.datasets
<1>1. /\ lists \in Nat /\ lists <= MaxLists /\ MaxLists \in Nat
      /\ \A k \in Names : m.tags[k] \in Oids \cup {None} /\ m.tags[k] # lists + 1
      /\ m.tags \in [Names -> Oids \cup {None}] /\ m.lists \in [Oids -> [Tags -> Nat]]
  <2>1. lists \in 0 .. MaxLists /\ \A k \in Names : m.tags[k] <= lists
    BY DEF IInv, TypeInv, MetadataInv
  <2> QED
    BY <2>1, DatasetsAssumption DEF Metadata, Oids, None
<1>2. CASE TagsOf(m, n) = NoTags
  <2>1. PICK o : o = lists + 1
    OBVIOUS
  <2>2. lists' = lists + 1 /\ o \in Oids
    BY <1>1, <1>2, <2>1 DEF NewLists, Oids
  <2>3. new = [m EXCEPT !.tags[n] = o, !.lists[o][t] = i]
    BY <1>2, <2>1 DEF WithTag
  <2>4. /\ new.known = m.known /\ new.tails = m.tails /\ new.datasets = m.datasets
        /\ new.tags = [m.tags EXCEPT ![n] = o]
        /\ new.lists = [m.lists EXCEPT ![o] = [m.lists[o] EXCEPT ![t] = i]]
        /\ new \in Metadata
    <3>1. PICK tags \in [Names -> Oids \cup {None}] : tags = [m.tags EXCEPT ![n] = o]
      BY <1>1, <2>2
    <3>2. PICK ls \in [Oids -> [Tags -> Nat]] : ls = [m.lists EXCEPT ![o] = [m.lists[o] EXCEPT ![t] = i]]
      BY <1>1, <2>2
    <3>3. new = [m EXCEPT !.tags = tags, !.lists = ls]
      BY <2>3, <3>1, <3>2 DEF Metadata
    <3> QED
      BY <3>1, <3>2, <3>3 DEF Metadata
  <2>5. Tagged(metadata[b], new)
    <3>1. lists' \in lists .. MaxLists
      BY <1>1, <2>2 DEF Oids
    <3>2. \A k \in Names : IF k = n THEN new.tags[k] = lists + 1 ELSE new.tags[k] = metadata[b].tags[k]
      BY <2>1, <2>4 DEF Metadata
    <3>3. new.datasets[n] = i /\ i # None
      BY <2>4 DEF None
    <3>4. ASSUME NEW p \in Oids
          PROVE  \/ new.lists[p] = metadata[b].lists[p]
                 \/ /\ new.tags[n] = p
                    /\ \A u \in Tags : new.lists[p][u] \in {None, metadata[b].lists[p][u], new.datasets[n]}
      BY <1>1, <2>1, <2>2, <2>4, <3>2, <3>3
    <3> QED
      BY <1>1, <2>2, <2>4, <3>1, <3>2, <3>3, <3>4 DEF Tagged
  <2> QED
    BY <2>4, <2>5
<1>3. CASE TagsOf(m, n) # NoTags
  <2>1. PICK o \in Oids : o = m.tags[n]
    BY <1>1, <1>3 DEF TagsOf
  <2>2. lists' = lists
    BY <1>1, <1>3 DEF NewLists
  <2>3. new = [m EXCEPT !.lists[o][t] = i]
    BY <1>3, <2>1 DEF WithTag
  <2>4. /\ new.known = m.known /\ new.tails = m.tails /\ new.datasets = m.datasets /\ new.tags = m.tags
        /\ new.lists = [m.lists EXCEPT ![o] = [m.lists[o] EXCEPT ![t] = i]]
        /\ new \in Metadata
    <3>1. PICK ls \in [Oids -> [Tags -> Nat]] : ls = [m.lists EXCEPT ![o] = [m.lists[o] EXCEPT ![t] = i]]
      BY <1>1
    <3>2. new = [m EXCEPT !.lists = ls]
      BY <2>3, <3>1 DEF Metadata
    <3> QED
      BY <3>1, <3>2 DEF Metadata
  <2>5. Tagged(metadata[b], new)
    <3>1. new.datasets[n] = i /\ i # None
      BY <2>4 DEF None
    <3>2. ASSUME NEW p \in Oids
          PROVE  \/ new.lists[p] = metadata[b].lists[p]
                 \/ /\ new.tags[n] = p
                    /\ \A u \in Tags : new.lists[p][u] \in {None, metadata[b].lists[p][u], new.datasets[n]}
      BY <1>1, <2>1, <2>4, <3>1
    <3> QED
      BY <1>1, <2>2, <2>4, <3>1, <3>2 DEF Tagged
  <2> QED
    BY <2>4, <2>5
<1> QED
  BY <1>2, <1>3

\* A command that stores no version.
LEMMA StoreNone ==
    ASSUME IInv, NEW b \in Branches, NEW new, versions' = versions, new.known = metadata[b].known,
           new.tails = metadata[b].tails, new.datasets = metadata[b].datasets
    PROVE  Stores(metadata[b], new, {}, <<>>)
<1>1. versions \in Seq(Dataset) /\ Len(versions) <= MaxVersions
  BY DEF IInv, TypeInv
<1> QED
  BY <1>1 DEF Stores, Extends

LEMMA AddTagUpdates ==
    ASSUME IInv, NEW b \in Branches, NEW n \in Names, NEW t \in Tags, NEW force \in BOOLEAN,
           AddTag(b, n, t, force), base' = base
    PROVE  \E new, id : Updates(b, new, {}, id)
<1>1. PICK m \in Metadata, i \in Nat \ {0} : m = metadata[b] /\ i = m.datasets[n]
  <2>1. metadata[b] \in Metadata /\ metadata[b].datasets[n] # None
    BY DEF AddTag, IsActive, Current, IInv, TypeInv
  <2>2. metadata[b].datasets[n] \in Nat \ {0}
    BY <2>1 DEF Metadata, None
  <2> QED
    BY <2>1, <2>2
<1>2. PICK new : new = WithTag(m, n, t, i, lists + 1)
  OBVIOUS
<1>3. /\ lists + NewLists(m, n) <= MaxLists /\ lists' = lists + NewLists(m, n)
      /\ metadata' = [metadata EXCEPT ![b] = new] /\ versions' = versions
  BY <1>1, <1>2 DEF AddTag, Current
<1>4. /\ new \in Metadata /\ Tagged(m, new)
      /\ new.known = m.known /\ new.tails = m.tails /\ new.datasets = m.datasets
  BY <1>1, <1>2, <1>3, WithTagIsTagged
<1> QED
  BY <1>1, <1>3, <1>4, StoreNone DEF Updates

LEMMA RemoveTagsUpdates ==
    ASSUME IInv, NEW b \in Branches, NEW n \in Names, NEW tags \in SUBSET Tags, RemoveTags(b, n, tags), base' = base
    PROVE  \E new, id : Updates(b, new, {}, id)
<1>1. PICK m \in Metadata : m = metadata[b]
  BY DEF IInv, TypeInv
<1>2. m.datasets[n] # None
  BY <1>1 DEF RemoveTags, IsActive, Current
<1>3. PICK o \in Oids : o = m.tags[n] /\ TagsOf(m, n) = m.lists[o]
  <2>1. m.tags[n] # None
    BY <1>1 DEF RemoveTags, TagsOf, NoTags
  <2> QED
    BY <2>1 DEF TagsOf, Metadata
<1>4. PICK new : new = [m EXCEPT !.lists[o] = [t \in Tags |-> IF t \in tags THEN None ELSE m.lists[o][t]]]
  OBVIOUS
<1>5. metadata' = [metadata EXCEPT ![b] = new] /\ versions' = versions /\ lists' = lists
  BY <1>1, <1>3, <1>4 DEF RemoveTags
<1>6. /\ new.known = m.known /\ new.tails = m.tails /\ new.datasets = m.datasets /\ new.tags = m.tags
      /\ new.lists = [m.lists EXCEPT ![o] = [t \in Tags |-> IF t \in tags THEN None ELSE m.lists[o][t]]]
      /\ new \in Metadata
  <2>1. m.lists \in [Oids -> [Tags -> Nat]]
    BY DEF Metadata
  <2>2. PICK ls \in [Oids -> [Tags -> Nat]] :
            ls = [m.lists EXCEPT ![o] = [t \in Tags |-> IF t \in tags THEN None ELSE m.lists[o][t]]]
    <3>1. [t \in Tags |-> IF t \in tags THEN None ELSE m.lists[o][t]] \in [Tags -> Nat]
      BY <2>1 DEF None
    <3> QED
      BY <2>1, <3>1
  <2>3. new = [m EXCEPT !.lists = ls]
    BY <1>4, <2>2 DEF Metadata
  <2> QED
    BY <2>2, <2>3 DEF Metadata
<1>7. Tagged(m, new)
  <2>1. lists \in 0 .. MaxLists /\ \A k \in Names : m.tags[k] # lists + 1
    BY <1>1 DEF IInv, TypeInv, MetadataInv, Metadata, Oids, None
  <2>2. ASSUME NEW p \in Oids
        PROVE  \/ new.lists[p] = m.lists[p]
               \/ new.tags[n] = p /\ \A u \in Tags : new.lists[p][u] \in {None, m.lists[p][u], new.datasets[n]}
    BY <1>3, <1>6 DEF Metadata
  <2> QED
    BY <1>2, <1>5, <1>6, <2>1, <2>2, DatasetsAssumption DEF Tagged
<1> QED
  BY <1>1, <1>5, <1>6, <1>7, StoreNone DEF Updates

LEMMA ImportDatasetUpdates ==
    ASSUME IInv, NEW b \in Branches, NEW n \in Names, NEW files \in SUBSET Files, NEW tag \in Tags \cup {None},
           ImportDataset(b, n, files, tag), base' = base
    PROVE  \E new, id : Updates(b, new, {n}, id)
<1>1. PICK w : w = AddOrUpdate(metadata[b], n, files)
  OBVIOUS
<1>2. PICK v : v = Imported(metadata[b], n, files, tag)
  OBVIOUS
<1>3. /\ w \in Dataset /\ w.name = n /\ w.removed = FALSE /\ w.derivedFrom = metadata[b].datasets[n]
      /\ Replaces(w, n, metadata[b].datasets[n])
  BY <1>1, AddOrUpdateReplaces DEF Dataset
<1>4. /\ v \in Dataset /\ v.name = n /\ v.removed = FALSE
      /\ Replaces(v, n, metadata[b].datasets[n])
  BY <1>1, <1>2, <1>3 DEF Imported, Dataset, Replaces, None
<1>5. PICK m : m = AddOrRemove(metadata[b], NextId, w)
  OBVIOUS
<1>6. PICK new : new = IF tag = None THEN m ELSE WithTag(m, n, tag, NextId, lists + 1)
  OBVIOUS
<1>7. /\ Len(versions) < MaxVersions /\ versions' = Append(versions, v)
      /\ tag # None => lists + NewLists(m, n) <= MaxLists
      /\ lists' = IF tag = None THEN lists ELSE lists + NewLists(m, n)
      /\ metadata' = [metadata EXCEPT ![b] = new]
  BY <1>1, <1>2, <1>5, <1>6 DEF ImportDataset
<1>8. metadata[b] \in Metadata /\ NextId \in Nat \ {0} /\ NextId # None
  BY DEF IInv, TypeInv, NextId, None
<1>9. /\ m \in Metadata /\ m.tags = metadata[b].tags /\ m.lists = metadata[b].lists /\ m.datasets[n] = NextId
      /\ \A k \in Names : metadata[b].datasets[k] # None => m.datasets[k] # None
  <2>1. HasVersion(m, metadata[b], NextId, w)
    BY <1>3, <1>5, <1>8, AddOrRemoveHasVersion DEF Dataset
  <2>2. metadata[b].tags \in [Names -> Oids \cup {None}] /\ metadata[b].datasets \in [Names -> Nat]
    BY <1>8 DEF Metadata
  <2> QED
    BY <1>3, <1>8, <2>1, <2>2 DEF HasVersion
<1>10. /\ new \in Metadata /\ Tagged(metadata[b], new)
       /\ new.known = m.known /\ new.tails = m.tails /\ new.datasets = m.datasets
  <2>1. CASE tag = None
    <3>1. lists \in 0 .. MaxLists /\ \A k \in Names : metadata[b].tags[k] # lists + 1
      BY DEF IInv, TypeInv, MetadataInv, Metadata, Oids, None
    <3> QED
      BY <1>6, <1>7, <1>9, <2>1, <3>1, DatasetsAssumption DEF Tagged
  <2>2. CASE tag # None
    BY <1>6, <1>7, <1>8, <1>9, <2>2, WithTagIsTagged
  <2> QED
    BY <2>1, <2>2
<1>11. Stores(metadata[b], new, {n}, [k \in {n} |-> NextId])
  BY <1>3, <1>4, <1>5, <1>7, <1>10, StoreOne
<1> QED
  BY <1>7, <1>10, <1>11 DEF Updates

\* renku mv stores a version of every dataset that it changes.
LEMMA MoveFileUpdates ==
    ASSUME IInv, NEW b \in Branches, NEW src \in Files, NEW dst \in Files, NEW owner \in Names \cup {None},
           MoveFile(b, src, dst, owner), base' = base
    PROVE  \E new, id : \E changed \in SUBSET Names : Updates(b, new, changed, id)
<1> DEFINE m == metadata[b]
           first == Len(versions) + 1
           changed == {n \in Names : IsActive(b, n) /\ ({src, dst} \cap FilesOf(b, n) # {} \/ n = owner)}
           version(n) == AddOrUpdate(m, n, Moved(b, n, src, dst, owner))
           Moves(last, id) ==
               LET ids == {id[n] : n \in changed}
                   named(i) == CHOOSE n \in changed : id[n] = i
               IN  /\ versions' = [i \in 1 .. last |-> IF i < first THEN versions[i] ELSE version(named(i))]
                   /\ metadata' = [metadata EXCEPT ![b] =
                        [m EXCEPT !.known = @ \cup ids,
                                  !.datasets = [n \in Names |-> IF n \in changed THEN id[n] ELSE @[n]],
                                  !.tails = (@ \ {m.datasets[n] : n \in changed}) \cup ids]]
<1>1. /\ m \in Metadata /\ m = metadata[b] /\ first \in Nat /\ first = Len(versions) + 1
      /\ changed \subseteq Names
  BY DEF IInv, TypeInv
<1>2. \A n \in changed : IsActive(b, n)
  OBVIOUS
<1>3. \E last \in first .. MaxVersions : \E id \in Bijection(changed, first .. last) : Moves(last, id)
  BY DEF MoveFile
<1> HIDE DEF m, first, changed, version
<1>4. PICK last \in first .. MaxVersions : \E id \in Bijection(changed, first .. last) : Moves(last, id)
  BY <1>3
<1>4a. PICK id \in Bijection(changed, first .. last) : Moves(last, id)
  BY <1>4
<1>5. /\ id \in [changed -> first .. last] /\ \A i \in first .. last : \E n \in changed : id[n] = i
      /\ \A n, k \in changed : id[n] = id[k] => n = k
  BY <1>4a DEF Bijection, Injection, Surjection, IsInjective
<1>6. lists' = lists /\ lists \in 0 .. MaxLists
  BY DEF MoveFile, IInv, TypeInv
\* the versions
<1>7. ASSUME NEW n \in changed
      PROVE  version(n) \in Dataset /\ version(n).removed = FALSE /\ Replaces(version(n), n, m.datasets[n])
  <2>1. FilesOf(b, n) \in SUBSET Files
    <3>1. PICK c : c = metadata[b].datasets[n]
      OBVIOUS
    <3>2. c \in DOMAIN versions /\ versions \in Seq(Dataset)
      BY <1>1, <1>2, <3>1 DEF IsActive, Current, IInv, TypeInv, MetadataInv
    <3>3. versions[c] \in Dataset
      BY <3>2
    <3> QED
      BY <3>1, <3>3 DEF FilesOf, Current, Dataset
  <2>2. PICK files \in SUBSET Files : files = Moved(b, n, src, dst, owner)
    BY <2>1 DEF Moved
  <2>3. PICK v : v = AddOrUpdate(metadata[b], n, files)
    OBVIOUS
  <2>4. v \in Dataset /\ ~v.removed /\ Replaces(v, n, metadata[b].datasets[n])
    BY <1>1, <2>3, AddOrUpdateReplaces
  <2>5. v = version(n)
    BY <1>1, <2>2, <2>3 DEF version
  <2>6. v.removed = FALSE
    BY <2>4 DEF Dataset
  <2> QED
    BY <1>1, <2>4, <2>5, <2>6
<1>8. /\ DOMAIN versions' = 1 .. last
      /\ \A i \in 1 .. last : i < first => versions'[i] = versions[i]
      /\ \A n \in changed : versions'[id[n]] = version(n)
  <2>1. \A n \in changed : (CHOOSE k \in changed : id[k] = id[n]) = n
    BY <1>5
  <2>2. \A n \in changed : id[n] \in 1 .. last /\ ~(id[n] < first)
    BY <1>1, <1>5
  <2> QED
    BY <1>4a, <2>1, <2>2
<1>9. /\ versions' \in Seq(Dataset) /\ Len(versions') <= MaxVersions /\ Extends
      /\ DOMAIN versions' \ DOMAIN versions = {id[n] : n \in changed}
  <2>1. versions \in Seq(Dataset) /\ last \in Nat /\ last <= MaxVersions
    BY <1>1, <1>3, DatasetsAssumption DEF IInv, TypeInv
  <2>2. \A i \in 1 .. last : versions'[i] \in Dataset
    <3>1. SUFFICES ASSUME NEW i \in 1 .. last
                   PROVE  versions'[i] \in Dataset
      OBVIOUS
    <3>2. CASE i < first
      <4>1. i \in DOMAIN versions
        BY <1>1, <2>1, <3>2
      <4> QED
        BY <1>8, <2>1, <3>2, <4>1
    <3>3. CASE ~(i < first)
      <4>1. PICK n \in changed : id[n] = i
        BY <1>1, <1>5, <2>1, <3>3
      <4> QED
        BY <1>7, <1>8, <4>1
    <3> QED
      BY <3>2, <3>3
  <2>3. versions' \in Seq(Dataset) /\ Len(versions') = last
    <3>1. versions' = [i \in 1 .. last |-> versions'[i]]
      BY <1>4a
    <3>2. \A i \in 1 .. last : versions'[i] \in Dataset
      BY <2>2
    <3>3. versions' \in [1 .. last -> Dataset]
      BY <3>1, <3>2
    <3> QED
      BY <2>1, <3>3
  <2>4. DOMAIN versions = 1 .. (first - 1) /\ first <= last
    BY <1>1, <1>3, <2>1
  <2>5. DOMAIN versions' \ DOMAIN versions = first .. last
    BY <1>1, <1>8, <2>1, <2>4
  <2>6. {id[n] : n \in changed} = first .. last
    BY <1>5
  <2> QED
    BY <1>1, <1>8, <2>1, <2>3, <2>4, <2>5, <2>6 DEF Extends
\* the metadata
<1>10. PICK ids \in SUBSET Nat : ids = {id[n] : n \in changed}
  <2>1. \A n \in changed : id[n] \in Nat
    BY <1>1, <1>5, DatasetsAssumption
  <2>2. {id[n] : n \in changed} \subseteq Nat
    BY <2>1
  <2> QED
    BY <2>2
<1>11. PICK datasets \in [Names -> Nat] : datasets = [n \in Names |-> IF n \in changed THEN id[n] ELSE m.datasets[n]]
  <2>1. m.datasets \in [Names -> Nat] /\ \A n \in changed : id[n] \in Nat
    BY <1>1, <1>5 DEF Metadata
  <2> QED
    BY <2>1
<1>12. PICK new, known, tails : /\ known = m.known \cup ids
                              /\ tails = (m.tails \ {m.datasets[n] : n \in changed}) \cup ids
                              /\ new = [m EXCEPT !.known = known, !.datasets = datasets, !.tails = tails]
  OBVIOUS
<1>13. metadata' = [metadata EXCEPT ![b] = new]
  BY <1>1, <1>4a, <1>10, <1>11, <1>12
<1>14. /\ new.known = m.known \cup ids /\ new.datasets = datasets
       /\ new.tails = (m.tails \ {m.datasets[n] : n \in changed}) \cup ids
       /\ new.tags = m.tags /\ new.lists = m.lists /\ new \in Metadata
  <2>1. /\ new.known = known /\ new.datasets = datasets /\ new.tails = tails
        /\ new.tags = m.tags /\ new.lists = m.lists
    BY <1>1, <1>12 DEF Metadata
  <2>2. known \in SUBSET Nat /\ tails \in SUBSET Nat
    BY <1>1, <1>12 DEF Metadata
  <2>3. new \in Metadata
    BY <1>1, <1>12, <2>2 DEF Metadata
  <2> QED
    BY <1>12, <2>1, <2>3
<1>15. Stores(m, new, changed, id)
  BY <1>7, <1>8, <1>9, <1>10, <1>11, <1>14 DEF Stores
<1>16. Tagged(m, new)
  <2>1. \A k \in Names : m.tags[k] # lists + 1
    BY <1>1, <1>6 DEF IInv, MetadataInv, TypeInv, Metadata, Oids, None
  <2>2. \A k \in Names : m.datasets[k] # None => new.datasets[k] # None
    BY <1>1, <1>5, <1>11, <1>14 DEF None
  <2> QED
    BY <1>6, <1>14, <2>1, <2>2, DatasetsAssumption DEF Tagged
<1> QED
  BY <1>1, <1>13, <1>14, <1>15, <1>16 DEF Updates

LEMMA DatasetStepUpdates ==
    ASSUME IInv, NEW b \in Branches, DatasetStep(b), base' = base
    PROVE  \E new, id : \E changed \in SUBSET Names : Updates(b, new, changed, id)
<1>1. ASSUME NEW n \in Names, NEW files \in SUBSET Files, AddVersion(b, n, files)
      PROVE  \E new, id : \E changed \in SUBSET Names : Updates(b, new, changed, id)
  BY <1>1, AddVersionUpdates
<1>2. ASSUME NEW n \in Names, IsActive(b, n)
      PROVE  FilesOf(b, n) \in SUBSET Files
  <2>1. PICK c : c = metadata[b].datasets[n]
    OBVIOUS
  <2>2. c \in DOMAIN versions /\ versions \in Seq(Dataset)
    BY <1>2, <2>1 DEF IsActive, Current, IInv, TypeInv, MetadataInv
  <2>3. versions[c] \in Dataset
    BY <2>2
  <2> QED
    BY <2>1, <2>3 DEF FilesOf, Current, Dataset
<1>3. ASSUME NEW n \in Names, EditDataset(b, n)
      PROVE  \E new, id : \E changed \in SUBSET Names : Updates(b, new, changed, id)
  BY <1>1, <1>2, <1>3 DEF EditDataset
<1>4. ASSUME NEW n \in Names, RemoveDataset(b, n)
      PROVE  \E new, id : \E changed \in SUBSET Names : Updates(b, new, changed, id)
  BY <1>4, RemoveDatasetUpdates
<1>5. ASSUME NEW n \in Names, NEW files \in SUBSET Files, Create(b, n, files) \/ FileUnlink(b, n, files)
      PROVE  \E new, id : \E changed \in SUBSET Names : Updates(b, new, changed, id)
  <2>1. CASE Create(b, n, files)
    BY <1>1, <2>1 DEF Create
  <2>2. CASE FileUnlink(b, n, files)
    <3>1. FilesOf(b, n) \ files \in SUBSET Files /\ AddVersion(b, n, FilesOf(b, n) \ files)
      BY <1>2, <2>2 DEF FileUnlink
    <3> QED
      BY <1>1, <3>1
  <2> QED
    BY <1>5, <2>1, <2>2
<1>6. ASSUME NEW n \in Names, NEW new \in SUBSET Files, NEW create \in BOOLEAN, NEW overwrite \in BOOLEAN,
             AddToDataset(b, n, new, create, overwrite)
      PROVE  \E m, id : \E changed \in SUBSET Names : Updates(b, m, changed, id)
  <2>1. PICK added \in SUBSET Files : added = IF overwrite \/ create THEN new ELSE new \ FilesOf(b, n)
    OBVIOUS
  <2>2. PICK files : files = IF create THEN added ELSE FilesOf(b, n) \cup added
    OBVIOUS
  <2>3. AddVersion(b, n, files) /\ (create = ~IsActive(b, n))
    BY <1>6, <2>1, <2>2 DEF AddToDataset
  <2>4. files \in SUBSET Files
    BY <1>2, <2>1, <2>2, <2>3
  <2> QED
    BY <1>1, <2>3, <2>4
<1>7. ASSUME NEW n \in Names, NEW files \in SUBSET Files, NEW tag \in Tags \cup {None}, ImportDataset(b, n, files, tag)
      PROVE  \E new, id : \E changed \in SUBSET Names : Updates(b, new, changed, id)
  BY <1>7, ImportDatasetUpdates
<1>8. ASSUME NEW n \in Names, NEW t \in Tags, NEW force \in BOOLEAN, AddTag(b, n, t, force)
      PROVE  \E new, id : \E changed \in SUBSET Names : Updates(b, new, changed, id)
  BY <1>8, AddTagUpdates
<1>9. ASSUME NEW n \in Names, NEW tags \in SUBSET Tags, RemoveTags(b, n, tags)
      PROVE  \E new, id : \E changed \in SUBSET Names : Updates(b, new, changed, id)
  BY <1>9, RemoveTagsUpdates
<1>10. ASSUME NEW src \in Files, NEW dst \in Files, NEW owner \in Names \cup {None}, MoveFile(b, src, dst, owner)
       PROVE  \E new, id : \E changed \in SUBSET Names : Updates(b, new, changed, id)
  BY <1>10, MoveFileUpdates
<1> QED
  BY <1>3, <1>4, <1>5, <1>6, <1>7, <1>8, <1>9, <1>10 DEF DatasetStep

-----------------------------------------------------------------------------
\* The merge of metadata directories: of the indexes and of each list of tags,
\* either git takes one side or the driver merges them.
Merged(old, l, r, new, remotes) ==
    /\ remotes \in SUBSET Questions(old, l, r)
    /\ ~IsRefused(old, l, r)
    /\ new = MergeMetadata(old, l, r, remotes)

\* A merge takes the versions of both sides.  If only one side has versions of
\* its own, git takes its indexes; otherwise it calls the driver for the tails.
SidesOf(old, l, r, new) ==
    /\ old.known \subseteq l.known /\ old.known \subseteq r.known /\ new.known = l.known \cup r.known
    /\ \/ /\ r.known = old.known /\ new.known = l.known
          /\ new.tails = l.tails /\ new.datasets = l.datasets /\ r.datasets = old.datasets /\ r.tails = old.tails
       \/ /\ l.known = old.known /\ new.known = r.known
          /\ new.tails = r.tails /\ new.datasets = r.datasets /\ l.datasets = old.datasets /\ l.tails = old.tails
       \/ /\ l.known # old.known /\ r.known # old.known
          /\ new.tails = l.tails \cup r.tails
    /\ \A n \in Names : new.datasets[n] \in {l.datasets[n], r.datasets[n]}
    /\ \A n \in Names : new.tags[n] \in {l.tags[n], r.tags[n]}
    /\ \A o \in Oids : new.lists[o] \in {l.lists[o], r.lists[o]}
    /\ new \in Metadata

LEMMA MergeTakesBothSides ==
    ASSUME IInv, NEW l \in Branches, NEW r \in Branches, l # r, NEW new, NEW remotes,
           Merged(base.metadata, metadata[l], metadata[r], new, remotes)
    PROVE  SidesOf(base.metadata, metadata[l], metadata[r], new)
<1>1. PICK old, L, R \in Metadata : old = base.metadata /\ L = metadata[l] /\ R = metadata[r]
  BY DEF IInv, TypeInv
<1>2. /\ old.known \subseteq L.known /\ old.known \subseteq R.known /\ L.known \cap R.known = old.known
      /\ L.known = old.known => L.tails = old.tails /\ L.datasets = old.datasets
      /\ R.known = old.known => R.tails = old.tails /\ R.datasets = old.datasets
      /\ L.known \subseteq R.known \/ ~(L.tails \subseteq R.known)
      /\ R.known \subseteq L.known \/ ~(R.tails \subseteq L.known)
  BY <1>1 DEF IInv, BaseInv
<1>3. old.tails \subseteq old.known /\ L.tails \subseteq L.known /\ R.tails \subseteq R.known
  BY <1>1 DEF IInv, MetadataInv
<1>4. /\ new.known = L.known \cup R.known
      /\ new.datasets = ThreeWay(old.datasets, L.datasets, R.datasets, MergeDatasets(L.datasets, R.datasets, remotes))
      /\ new.tails = ThreeWay(old.tails, L.tails, R.tails, L.tails \cup R.tails)
      /\ new.tags = ThreeWay(old.tags, L.tags, R.tags, MergeTags(L.tags, R.tags))
      /\ new.lists = [o \in Oids |-> ThreeWay(old.lists[o], L.lists[o], R.lists[o], L.lists[o])]
      /\ new = [known |-> new.known, datasets |-> new.datasets, tails |-> new.tails,
                tags |-> new.tags, lists |-> new.lists]
  BY <1>1 DEF Merged, MergeMetadata, MergeTails
<1>5. /\ \A n \in Names : new.datasets[n] \in {L.datasets[n], R.datasets[n]}
      /\ new.datasets \in [Names -> Nat]
  <2>1. PICK d : d = MergeDatasets(L.datasets, R.datasets, remotes)
    OBVIOUS
  <2>2. L.datasets \in [Names -> Nat] /\ R.datasets \in [Names -> Nat]
    BY DEF Metadata
  <2>3. d \in [Names -> Nat] /\ \A n \in Names : d[n] \in {L.datasets[n], R.datasets[n]}
    BY <2>1, <2>2 DEF MergeDatasets
  <2> QED
    BY <1>4, <2>1, <2>2, <2>3 DEF ThreeWay
<1>6. /\ \A n \in Names : new.tags[n] \in {L.tags[n], R.tags[n]}
      /\ new.tags \in [Names -> Oids \cup {None}]
  <2>1. PICK d : d = MergeTags(L.tags, R.tags)
    OBVIOUS
  <2>2. L.tags \in [Names -> Oids \cup {None}] /\ R.tags \in [Names -> Oids \cup {None}]
    BY DEF Metadata
  <2>3. d \in [Names -> Oids \cup {None}] /\ \A n \in Names : d[n] \in {L.tags[n], R.tags[n]}
    BY <2>1, <2>2 DEF MergeTags
  <2> QED
    BY <1>4, <2>1, <2>2, <2>3 DEF ThreeWay
<1>7. /\ \A o \in Oids : new.lists[o] \in {L.lists[o], R.lists[o]}
      /\ new.lists \in [Oids -> [Tags -> Nat]]
  <2>1. L.lists \in [Oids -> [Tags -> Nat]] /\ R.lists \in [Oids -> [Tags -> Nat]]
    BY DEF Metadata
  <2>2. \A o \in Oids : new.lists[o] = ThreeWay(old.lists[o], L.lists[o], R.lists[o], L.lists[o])
    BY <1>4
  <2>3. \A o \in Oids : new.lists[o] \in {L.lists[o], R.lists[o]}
    BY <2>2 DEF ThreeWay
  <2>4. new.lists = [o \in Oids |-> new.lists[o]]
    BY <1>4, <2>2
  <2> QED
    BY <2>1, <2>3, <2>4
<1>8. new \in Metadata
  <2>1. new.known \in SUBSET Nat
    BY <1>4 DEF Metadata
  <2>2. /\ new.tails \in {L.tails, R.tails, L.tails \cup R.tails}
        /\ L.tails \in SUBSET Nat /\ R.tails \in SUBSET Nat
    BY <1>4 DEF ThreeWay, Metadata
  <2>3. new.tails \in SUBSET Nat
    BY <2>2
  <2> QED
    BY <1>4, <1>5, <1>6, <1>7, <2>1, <2>3 DEF Metadata
<1>9. CASE R.known = old.known
  <2>1. new.known = L.known
    BY <1>2, <1>4, <1>9
  <2>2. new.tails = L.tails /\ new.datasets = L.datasets
    BY <1>2, <1>4, <1>9 DEF ThreeWay
  <2> QED
    BY ONLY <1>1, <1>2, <1>4, <1>5, <1>6, <1>7, <1>8, <1>9, <2>1, <2>2 DEF SidesOf
<1>10. CASE R.known # old.known /\ L.known = old.known
  <2>1. new.known = R.known
    BY <1>2, <1>4, <1>10
  <2>2. new.tails = R.tails /\ new.datasets = R.datasets
    BY <1>2, <1>4, <1>10 DEF ThreeWay
  <2> QED
    BY ONLY <1>1, <1>2, <1>4, <1>5, <1>6, <1>7, <1>8, <1>10, <2>1, <2>2 DEF SidesOf
<1>11. CASE R.known # old.known /\ L.known # old.known
  <2>1. ~(L.tails \subseteq R.known) /\ ~(R.tails \subseteq L.known)
    BY <1>2, <1>11
  <2>2. L.tails # R.tails /\ L.tails # old.tails /\ R.tails # old.tails
    BY <1>2, <1>3, <2>1
  <2> QED
    BY <1>1, <1>2, <1>4, <1>5, <1>6, <1>7, <1>8, <1>11, <2>2 DEF SidesOf, ThreeWay
<1> QED
  BY <1>9, <1>10, <1>11

Merging(l, r, new, remotes) ==
    /\ Merged(base.metadata, metadata[l], metadata[r], new, remotes)
    /\ metadata' = [metadata EXCEPT ![l] = new]
    /\ base' = Snapshot(r)
    /\ UNCHANGED <<versions, lists, commands>>
    /\ asked' = Questions(base.metadata, metadata[l], metadata[r])

LEMMA MergingDirectories ==
    ASSUME NEW l \in Branches, NEW r \in Branches, Merge(l, r)
    PROVE  \E new, remotes : Merging(l, r, new, remotes)
<1>1. PICK remotes \in SUBSET Questions(base.metadata, metadata[l], metadata[r]) :
          metadata' = [metadata EXCEPT ![l] = MergeMetadata(base.metadata, metadata[l], metadata[r], remotes)]
  BY DEF Merge
<1> QED
  BY <1>1 DEF Merge, Merging, Merged

LEMMA MergeMetadataInv ==
    ASSUME IInv, NEW l \in Branches, NEW r \in Branches, l # r, NEW new, NEW remotes, Merging(l, r, new, remotes)
    PROVE  MetadataInv(base.metadata)' /\ \A c \in Branches : MetadataInv(metadata[c])'
<1>1. SidesOf(base.metadata, metadata[l], metadata[r], new)
  BY MergeTakesBothSides DEF Merging
<1>2. /\ metadata'[l] = new /\ base'.metadata = metadata[r] /\ versions' = versions /\ lists' = lists
      /\ \A c \in Branches \ {l} : metadata'[c] = metadata[c]
  BY DEF Merging, Snapshot, IInv, TypeInv
<1>3. MetadataInv(base.metadata) /\ \A c \in Branches : MetadataInv(metadata[c])
  BY DEF IInv
<1>4. MetadataInv(base.metadata)' /\ \A c \in Branches \ {l} : MetadataInv(metadata[c])'
  BY <1>2, <1>3 DEF MetadataInv
<1>5. MetadataInv(metadata[l])'
  <2>1. PICK old, L, R : old = base.metadata /\ L = metadata[l] /\ R = metadata[r]
    OBVIOUS
  <2>2. MetadataInv(L) /\ MetadataInv(R) /\ SidesOf(old, L, R, new)
    BY <1>1, <1>3, <2>1
  <2>3. new.known \subseteq DOMAIN versions /\ new.tails \subseteq new.known
    BY <2>1, <2>2, <1>3 DEF MetadataInv, SidesOf
  <2>4. /\ \A i \in new.known : versions[i].derivedFrom \in new.known \cup {None}
        /\ \A n \in Names : new.datasets[n] \in new.known \cup {None}
        /\ \A n \in Names : new.tags[n] <= lists
        /\ \A o \in Oids : o > lists => new.lists[o] = NoTags
        /\ \A o \in Oids, t \in Tags : new.lists[o][t] \in new.known \cup {None}
    BY <2>2 DEF MetadataInv, SidesOf
  <2>5. new.known = {} => new = EmptyMetadata
    <3>1. SUFFICES ASSUME new.known = {}
                   PROVE  new = EmptyMetadata
      OBVIOUS
    <3>2. L = EmptyMetadata /\ R = EmptyMetadata
      BY <2>2, <3>1 DEF MetadataInv, SidesOf
    <3>3. /\ \A n \in Names : new.datasets[n] = None /\ new.tags[n] = None
          /\ \A o \in Oids : new.lists[o] = NoTags
          /\ new.tails = {}
      BY <2>2, <2>3, <3>1, <3>2 DEF SidesOf, EmptyMetadata
    <3>4. /\ new.datasets \in [Names -> Nat] /\ new.tags \in [Names -> Oids \cup {None}]
          /\ new.lists \in [Oids -> [Tags -> Nat]]
          /\ new = [known |-> new.known, datasets |-> new.datasets, tails |-> new.tails,
                    tags |-> new.tags, lists |-> new.lists]
      BY <2>2 DEF SidesOf, Metadata
    <3>5. /\ new.datasets = [n \in Names |-> None] /\ new.tags = [n \in Names |-> None]
          /\ new.lists = [o \in Oids |-> NoTags]
      BY <3>3, <3>4
    <3> QED
      BY <3>1, <3>3, <3>4, <3>5 DEF EmptyMetadata
  <2> QED
    BY <1>2, <2>3, <2>4, <2>5 DEF MetadataInv
<1> QED
  BY <1>4, <1>5

LEMMA MergeKeepsCommon ==
    ASSUME IInv, NEW l \in Branches, NEW r \in Branches, l # r, NEW new, NEW remotes, Merging(l, r, new, remotes)
    PROVE  OwnerInv' /\ BaseInv' /\ ListsInv'
<1>1. PICK old, L, R : old = base.metadata /\ L = metadata[l] /\ R = metadata[r]
  OBVIOUS
<1>2. SidesOf(old, L, R, new)
  BY <1>1, MergeTakesBothSides DEF Merging
<1>3. /\ metadata'[l] = new /\ metadata'[r] = R /\ base'.metadata = R
      /\ Branches = {l, r}
  BY <1>1, MergeAssumption DEF Merging, Snapshot, IInv, TypeInv
<1>4. OwnerInv'
  <2>1. \A n \in Names : new.tags[n] \in {L.tags[n], R.tags[n]}
    BY <1>2 DEF SidesOf
  <2>2. \A m1, m2 \in {L, R} : \A n1, n2 \in Names : m1.tags[n1] = m2.tags[n2] /\ m1.tags[n1] # None => n1 = n2
    BY <1>1 DEF IInv, OwnerInv
  <2>3. \A m1, m2 \in {new, R} : \A n1, n2 \in Names : m1.tags[n1] = m2.tags[n2] /\ m1.tags[n1] # None => n1 = n2
    BY <2>1, <2>2
  <2> QED
    BY <1>3, <2>3 DEF OwnerInv
<1>5. BaseInv'
  <2>1. /\ L.known \cap R.known = old.known
        /\ L.known = old.known => L.tails = old.tails /\ L.datasets = old.datasets
        /\ R.known = old.known => R.tails = old.tails /\ R.datasets = old.datasets
        /\ L.known \subseteq R.known \/ ~(L.tails \subseteq R.known)
    BY <1>1 DEF IInv, BaseInv
  <2>2. /\ R.known \subseteq new.known
        /\ new.known = R.known => new.tails = R.tails /\ new.datasets = R.datasets
        /\ new.known \subseteq R.known \/ ~(new.tails \subseteq R.known)
    BY <1>2, <2>1 DEF SidesOf
  <2> QED
    BY <1>3, <2>2 DEF BaseInv
<1>6. ListsInv'
  BY <1>3 DEF ListsInv
<1> QED
  BY <1>4, <1>5, <1>6

LEMMA MergeKeepsProvenance ==
    ASSUME IInv, NEW l \in Branches, NEW r \in Branches, l # r, NEW new, NEW remotes, Merging(l, r, new, remotes)
    PROVE  VersionsAreReachable' /\ ActiveDatasetsAreTails'
<1>1. PICK old, L, R : old = base.metadata /\ L = metadata[l] /\ R = metadata[r]
  OBVIOUS
<1>2. SidesOf(old, L, R, new)
  BY <1>1, MergeTakesBothSides DEF Merging
<1>3. /\ metadata'[l] = new /\ versions' = versions
      /\ \A c \in Branches \ {l} : metadata'[c] = metadata[c]
  BY DEF Merging, IInv, TypeInv
<1>4. old.tails \subseteq old.known /\ \A m \in {L, R} : m.tails \subseteq m.known
  BY <1>1 DEF IInv, MetadataInv
<1>5. \A m \in {L, R} : \A v \in m.known : WasReplaced(v) \/ \E w \in m.tails : v = w \/ v \in Ancestors(w)
  BY <1>1 DEF IInv, VersionsAreReachable
<1>6. \A v \in new.known : WasReplaced(v) \/ \E w \in new.tails : v = w \/ v \in Ancestors(w)
  BY <1>2, <1>5 DEF SidesOf
<1>7. VersionsAreReachable'
  <2>1. \A c \in Branches : \A v \in metadata'[c].known :
            WasReplaced(v) \/ \E w \in metadata'[c].tails : v = w \/ v \in Ancestors(w)
    BY <1>3, <1>6 DEF IInv, VersionsAreReachable
  <2>2. (\A v : WasReplaced(v)' <=> WasReplaced(v)) /\ (\A w : Ancestors(w)' = Ancestors(w))
    BY <1>3 DEF WasReplaced, History, Ancestors
  <2> QED
    BY <2>1, <2>2 DEF VersionsAreReachable
<1>8. ActiveDatasetsAreTails'
  <2>1. \A m \in {L, R} : \A n \in Names :
            m.datasets[n] # None => versions[m.datasets[n]].name = n /\ ~versions[m.datasets[n]].removed
                                    /\ m.datasets[n] \in m.tails
    BY <1>1 DEF IInv, ActiveDatasetsAreTails
  <2>2. \A n \in Names :
            new.datasets[n] # None => versions[new.datasets[n]].name = n /\ ~versions[new.datasets[n]].removed
                                      /\ new.datasets[n] \in new.tails
    BY <1>2, <2>1 DEF SidesOf
  <2> QED
    BY <1>3, <2>2 DEF IInv, ActiveDatasetsAreTails
<1> QED
  BY <1>7, <1>8

LEMMA MergeKeepsTags ==
    ASSUME IInv, NEW l \in Branches, NEW r \in Branches, l # r, NEW new, NEW remotes, Merging(l, r, new, remotes)
    PROVE  TagsAreOfTheirDataset'
<1>1. PICK old, L, R : old = base.metadata /\ L = metadata[l] /\ R = metadata[r]
  OBVIOUS
<1>2. SidesOf(old, L, R, new)
  BY <1>1, MergeTakesBothSides DEF Merging
<1>3. /\ metadata'[l] = new /\ base'.metadata = R /\ versions' = versions
      /\ \A c \in Branches \ {l} : metadata'[c] = metadata[c]
  BY <1>1 DEF Merging, Snapshot, IInv, TypeInv
<1>4. SUFFICES ASSUME R = EmptyMetadata
               PROVE  TagsAreOfTheirDataset'
  BY <1>3 DEF TagsAreOfTheirDataset
<1>5. R.known = {} /\ old.known = {} /\ old = EmptyMetadata
  BY <1>1, <1>2, <1>4 DEF SidesOf, IInv, MetadataInv, EmptyMetadata
<1>6. new.datasets = L.datasets
  BY <1>2, <1>4, <1>5 DEF SidesOf, EmptyMetadata
<1>7. new.tags = L.tags /\ \A o \in Oids : new.lists[o] = L.lists[o]
  BY <1>1, <1>4, <1>5 DEF Merging, Merged, MergeMetadata, ThreeWay
<1>8. \A n \in Names : TagsOf(new, n) = TagsOf(L, n)
  <2>1. \A n \in Names : L.tags[n] \in Oids \cup {None}
    BY <1>1 DEF IInv, TypeInv, Metadata
  <2> QED
    BY <1>7, <2>1 DEF TagsOf
<1>9. \A c \in Branches : \A n \in Names : /\ TagsOf(metadata'[c], n) = TagsOf(metadata[c], n)
                                           /\ metadata'[c].datasets[n] = metadata[c].datasets[n]
  BY <1>1, <1>3, <1>6, <1>8
<1>10. \A c \in Branches : \A n \in Names : \A t \in Tags : TagsOf(metadata[c], n)[t] # None =>
           TagsOf(metadata[c], n)[t] \in {metadata[c].datasets[n]} \cup History(metadata[c].datasets[n])
  BY <1>1, <1>5 DEF IInv, TagsAreOfTheirDataset
<1>11. \A c \in Branches : \A n \in Names : \A t \in Tags : TagsOf(metadata'[c], n)[t] # None =>
           TagsOf(metadata'[c], n)[t] \in {metadata'[c].datasets[n]}
                                          \cup Above(versions', metadata'[c].datasets[n], "follows")
  BY <1>3, <1>9, <1>10 DEF History
<1> QED
  BY <1>11 DEF TagsAreOfTheirDataset, TagsOf, History

\* The project that a merge makes: it is merged three ways.
LEMMA ProjectsMerge ==
    ASSUME NEW p \in Project, NEW q \in Project, NEW old \in Project, NEW d \in BOOLEAN, NEW t \in BOOLEAN,
           NEW m, m = ThreeWay(old, p, q, MergeProjects(old, p, q, d, t))
    PROVE  /\ m \in Project /\ ProjectIsMerged(p, q, old, m)
           /\ m.description \in {p.description, q.description} /\ m.template \in {p.template, q.template}
<1>1. \A x, y \in Project :
          x = y <=> (x.keywords = y.keywords /\ x.description = y.description /\ x.template = y.template)
  BY DEF Project
<1>2. CASE p = q \/ q = old \/ p = old
  <2>1. m \in {p, q} /\ (p = q => m = p) /\ (q = old => m = p) /\ (p = old => m = q)
    BY <1>2 DEF ThreeWay
  <2>2. m.keywords = {k \in p.keywords \cup q.keywords : k \in old.keywords => k \in p.keywords \cap q.keywords}
    BY <1>2, <2>1
  <2> QED
    BY <1>2, <2>1, <2>2 DEF ProjectIsMerged
<1>3. CASE p # q /\ q # old /\ p # old
  <2>1. PICK x : x = MergeKeywords(old.keywords, p.keywords, q.keywords)
    OBVIOUS
  <2>2. PICK y : y = IF p.description = q.description THEN p.description
                     ELSE Pick(old.description, p.description, q.description, d)
    OBVIOUS
  <2>3. PICK z : z = Pick(old.template, p.template, q.template, t)
    OBVIOUS
  <2>4. m = [keywords |-> x, description |-> y, template |-> z]
    BY <1>1, <1>3, <2>1, <2>2, <2>3 DEF ThreeWay, MergeProjects
  <2>5. x = {k \in p.keywords \cup q.keywords : k \in old.keywords => k \in p.keywords \cap q.keywords}
    BY <2>1 DEF MergeKeywords
  <2>6. /\ y \in {p.description, q.description}
        /\ (p.description = old.description => y = q.description)
        /\ (q.description = old.description => y = p.description)
    BY <2>2 DEF Pick
  <2>7. /\ z \in {p.template, q.template}
        /\ (p.template = old.template => z = q.template) /\ (q.template = old.template => z = p.template)
    BY <2>3 DEF Pick
  <2> QED
    BY <2>4, <2>5, <2>6, <2>7 DEF ProjectIsMerged, Project
<1> QED
  BY <1>2, <1>3

LEMMA MergeProject ==
    ASSUME IInv, NEW l \in Branches, NEW r \in Branches, Merge(l, r)
    PROVE  /\ project' = [project EXCEPT ![l] = project'[l]] /\ project'[l] \in Project
           /\ ProjectIsMerged(project[l], project[r], base.project, project'[l])
           /\ project'[l].description <= commands /\ project'[l].template <= commands
<1>1. PICK p, q, old \in Project : p = project[l] /\ q = project[r] /\ old = base.project
  BY DEF IInv, TypeInv
<1>2. PICK d, t \in BOOLEAN :
          project' = [project EXCEPT ![l] = ThreeWay(base.project, project[l], project[r],
                            MergeProjects(base.project, project[l], project[r], d, t))]
  BY DEF Merge
<1>3. PICK m : m = ThreeWay(old, p, q, MergeProjects(old, p, q, d, t))
  OBVIOUS
<1>4. project' = [project EXCEPT ![l] = m] /\ project'[l] = m
  BY <1>1, <1>2, <1>3 DEF IInv, TypeInv
<1>5. /\ m \in Project /\ ProjectIsMerged(p, q, old, m)
      /\ m.description \in {p.description, q.description} /\ m.template \in {p.template, q.template}
  BY <1>3, ProjectsMerge
<1>6. \A b \in Branches : project[b].description <= commands /\ project[b].template <= commands
  BY DEF IInv, TypeInv
<1> QED
  BY <1>1, <1>4, <1>5, <1>6

LEMMA MergeIInv ==
    ASSUME IInv, NEW l \in Branches, NEW r \in Branches, l # r, Merge(l, r)
    PROVE  IInv'
<1>1. PICK new, remotes : Merging(l, r, new, remotes)
  BY MergingDirectories
<1>2. new \in Metadata
  BY <1>1, MergeTakesBothSides DEF Merging, SidesOf
<1>3. TypeInv'
  <2>1. metadata' \in [Branches -> Metadata] /\ base' \in [metadata : Metadata, project : Project]
    BY <1>1, <1>2 DEF Merging, Snapshot, IInv, TypeInv
  <2>2. /\ project' = [project EXCEPT ![l] = project'[l]] /\ project'[l] \in Project
        /\ project'[l].description <= commands /\ project'[l].template <= commands
    BY MergeProject
  <2>3. /\ project' \in [Branches -> Project]
        /\ \A b \in Branches : project'[b].description <= commands /\ project'[b].template <= commands
    BY <2>2 DEF IInv, TypeInv
  <2> QED
    BY <1>1, <2>1, <2>3 DEF Merging, IInv, TypeInv
<1>4. VersionsInv'
  BY <1>1 DEF Merging, IInv, VersionsInv
<1>5. MetadataInv(base.metadata)' /\ \A c \in Branches : MetadataInv(metadata[c])'
  BY <1>1, MergeMetadataInv
<1>6. /\ OwnerInv' /\ BaseInv' /\ ListsInv'
      /\ VersionsAreReachable' /\ ActiveDatasetsAreTails' /\ TagsAreOfTheirDataset'
  BY <1>1, MergeKeepsCommon, MergeKeepsProvenance, MergeKeepsTags
<1> QED
  BY <1>3, <1>4, <1>5, <1>6 DEF IInv

-----------------------------------------------------------------------------
LEMMA InitIInv == Init => IInv
<1> SUFFICES ASSUME Init
             PROVE  IInv
  OBVIOUS
<1>1. /\ versions = <<>> /\ lists = 0 /\ commands = 0
      /\ \A b \in Branches : metadata[b] = EmptyMetadata
      /\ base.metadata = EmptyMetadata
  BY DEF Init, DatasetsInit
<1>2. EmptyMetadata \in Metadata /\ InitialProject \in Project
  BY DEF EmptyMetadata, InitialProject, Metadata, Project, NoTags, None
<1>3. TypeInv
  BY <1>1, <1>2, DatasetsAssumption DEF TypeInv, Init, DatasetsInit, InitialProject
<1>4. VersionsInv
  BY <1>1 DEF VersionsInv
<1>5. MetadataInv(base.metadata) /\ \A b \in Branches : MetadataInv(metadata[b])
  <2>1. PICK m : m = EmptyMetadata
    OBVIOUS
  <2>2. /\ m.known = {} /\ m.tails = {} /\ \A n \in Names : m.datasets[n] = 0 /\ m.tags[n] = 0
        /\ \A o \in Oids : m.lists[o] = NoTags
    BY <2>1 DEF EmptyMetadata, None
  <2>3. \A t \in Tags : NoTags[t] = None
    BY DEF NoTags
  <2>4. MetadataInv(m)
    BY <1>1, <2>1, <2>2, <2>3 DEF MetadataInv, None
  <2> QED
    BY <1>1, <2>1, <2>4
<1>6. OwnerInv /\ BaseInv /\ ListsInv
  BY <1>1 DEF OwnerInv, BaseInv, ListsInv, EmptyMetadata
<1>7. VersionsAreReachable /\ ActiveDatasetsAreTails
  BY <1>1 DEF VersionsAreReachable, ActiveDatasetsAreTails, EmptyMetadata
<1>8. TagsAreOfTheirDataset
  BY <1>1 DEF TagsAreOfTheirDataset, TagsOf, EmptyMetadata, NoTags
<1> QED
  BY <1>3, <1>4, <1>5, <1>6, <1>7, <1>8 DEF IInv

LEMMA ProjectIInv ==
    ASSUME IInv, NEW b \in Branches, NEW p \in Project, ChangeProject(b, p),
           p.description <= commands + 1, p.template <= commands + 1
    PROVE  IInv'
<1>1. UNCHANGED <<versions, lists, metadata, base>> /\ commands' = commands + 1
  BY DEF ChangeProject
<1>2. TypeInv'
  <2>1. project' = [project EXCEPT ![b] = p] /\ commands \in Nat
    BY DEF ChangeProject, IInv, TypeInv
  <2>2. project' \in [Branches -> Project]
    BY <2>1 DEF IInv, TypeInv
  <2>3. ASSUME NEW c \in Branches
        PROVE  project'[c].description <= commands' /\ project'[c].template <= commands'
    <3>1. project[c] \in Project /\ project[c].description <= commands /\ project[c].template <= commands
      BY DEF IInv, TypeInv
    <3>2. project[c].description \in Nat /\ project[c].template \in Nat
      BY <3>1 DEF Project
    <3>3. project'[c] = IF c = b THEN p ELSE project[c]
      BY <2>1 DEF IInv, TypeInv
    <3> QED
      BY <1>1, <2>1, <3>1, <3>2, <3>3
  <2> QED
    BY <1>1, <2>1, <2>2, <2>3 DEF IInv, TypeInv
<1>3. /\ VersionsInv' /\ OwnerInv' /\ BaseInv' /\ ListsInv'
      /\ MetadataInv(base.metadata)' /\ \A c \in Branches : MetadataInv(metadata[c])'
  BY <1>1 DEF IInv, VersionsInv, OwnerInv, BaseInv, ListsInv, MetadataInv
<1>4. VersionsAreReachable' /\ ActiveDatasetsAreTails' /\ TagsAreOfTheirDataset'
  BY <1>1 DEF IInv, VersionsAreReachable, ActiveDatasetsAreTails, TagsAreOfTheirDataset, WasReplaced, History, Ancestors
<1> QED
  BY <1>2, <1>3, <1>4 DEF IInv

LEMMA NextIInv == IInv /\ [Next]_vars => IInv'
<1> SUFFICES ASSUME IInv, [Next]_vars
             PROVE  IInv'
  OBVIOUS
<1>1. commands \in Nat
  BY DEF IInv, TypeInv
<1>2. ASSUME NEW b \in Branches, DatasetCommand(b)
      PROVE  IInv'
  <2>1. project' = project /\ base' = base /\ DatasetStep(b) /\ commands' \in Nat /\ commands <= commands'
    BY <1>1, <1>2 DEF DatasetCommand
  <2>2. PICK new, id : \E changed \in SUBSET Names : Updates(b, new, changed, id)
    BY <2>1, DatasetStepUpdates
  <2>3. PICK changed \in SUBSET Names : Updates(b, new, changed, id)
    BY <2>2
  <2> QED
    BY <2>1, <2>3, UpdateIInv
<1>3. ASSUME NEW b \in Branches, NEW keywords \in SUBSET Keywords,
             NEW description \in {project[b].description, commands + 1}, EditProject(b, keywords, description)
      PROVE  IInv'
  <2>1. project[b] \in Project /\ project[b].description <= commands /\ project[b].template <= commands
    BY DEF IInv, TypeInv
  <2>2. PICK p : p = [project[b] EXCEPT !.keywords = keywords, !.description = description]
    OBVIOUS
  <2>3. p \in Project /\ p.description = description /\ p.template = project[b].template
    <3>1. description \in Nat
      BY <1>1, <2>1 DEF Project
    <3> QED
      BY <2>1, <2>2, <3>1 DEF Project
  <2>4. p.description <= commands + 1 /\ p.template <= commands + 1
    BY <1>1, <2>1, <2>3 DEF Project
  <2> QED
    BY <1>3, <2>2, <2>3, <2>4, ProjectIInv DEF EditProject
<1>4. ASSUME NEW b \in Branches, SetTemplate(b)
      PROVE  IInv'
  <2>1. project[b] \in Project /\ project[b].description <= commands /\ project[b].template <= commands
    BY DEF IInv, TypeInv
  <2>2. PICK p : p = [project[b] EXCEPT !.template = commands + 1]
    OBVIOUS
  <2>3. p \in Project /\ p.description = project[b].description /\ p.template = commands + 1
    BY <1>1, <2>1, <2>2 DEF Project
  <2>4. p.description <= commands + 1 /\ p.template <= commands + 1
    BY <1>1, <2>1, <2>3 DEF Project
  <2> QED
    BY <1>4, <2>2, <2>3, <2>4, ProjectIInv DEF SetTemplate
<1>5. ASSUME NEW l \in Branches, NEW r \in Branches, l # r, Merge(l, r)
      PROVE  IInv'
  BY <1>5, MergeIInv
<1>6. CASE UNCHANGED vars
  <2>1. UNCHANGED <<versions, lists, metadata, project, commands, base>>
    BY <1>6 DEF vars
  <2> QED
    <3>1. TypeInv' /\ VersionsInv' /\ OwnerInv' /\ BaseInv' /\ ListsInv'
      BY <2>1 DEF IInv, TypeInv, VersionsInv, OwnerInv, BaseInv, ListsInv
    <3>2. MetadataInv(base.metadata)' /\ \A c \in Branches : MetadataInv(metadata[c])'
      BY <2>1 DEF IInv, MetadataInv
    <3>3. VersionsAreReachable' /\ ActiveDatasetsAreTails' /\ TagsAreOfTheirDataset'
      BY <2>1 DEF IInv, VersionsAreReachable, ActiveDatasetsAreTails, TagsAreOfTheirDataset,
                  WasReplaced, History, Ancestors
    <3> QED
      BY <3>1, <3>2, <3>3 DEF IInv
<1> QED
  BY <1>2, <1>3, <1>4, <1>5, <1>6 DEF Next

LEMMA Invariant == Spec => []IInv
<1>1. Init => IInv
  BY InitIInv
<1>2. IInv /\ [Next]_vars => IInv'
  BY NextIInv
<1> QED
  BY <1>1, <1>2, PTL DEF Spec

\* What a step of the commands and merges keeps of every directory: known versions
\* are stored, an index refers to known versions and a list holds versions of its branch.
THEOREM DatasetsAreTyped == Spec => []TypeOK
<1>1. ASSUME IInv
      PROVE  TypeOK
  <2>1. /\ versions \in Seq(Dataset) /\ Len(versions) <= MaxVersions /\ VersionsInv
        /\ metadata \in [Branches -> Metadata] /\ project \in [Branches -> Project]
        /\ lists \in Nat /\ commands \in Nat
        /\ \A b \in Branches : /\ project[b].description <= commands /\ project[b].template <= commands
                               /\ MetadataInv(metadata[b])
    BY <1>1 DEF IInv, TypeInv
  <2>2. ASSUME NEW i \in DOMAIN versions
        PROVE  /\ versions[i].follows \in 0 .. (i - 1) /\ versions[i].derivedFrom \in {None, versions[i].follows}
               /\ versions[i].name \in Names /\ versions[i].files \cup versions[i].gone \subseteq Files
    <3>1. versions[i] \in Dataset
      BY <2>1
    <3>2. versions[i].name \in Names /\ versions[i].files \subseteq Files /\ versions[i].gone \subseteq Files
      BY <3>1 DEF Dataset
    <3> QED
      BY <2>1, <3>2 DEF VersionsInv
  <2>3. ASSUME NEW b \in Branches
        PROVE  /\ metadata[b].known \subseteq DOMAIN versions /\ metadata[b].tails \subseteq metadata[b].known
               /\ \A n \in Names : metadata[b].datasets[n] \in metadata[b].known \cup {None}
               /\ metadata[b].tags \in [Names -> 0 .. lists]
               /\ metadata[b].lists \in [Oids -> [Tags -> metadata[b].known \cup {None}]]
    <3>1. /\ metadata[b].tags \in [Names -> Oids \cup {None}] /\ metadata[b].lists \in [Oids -> [Tags -> Nat]]
          /\ MetadataInv(metadata[b])
      BY <2>1 DEF Metadata
    <3>2. \A n \in Names : metadata[b].tags[n] \in 0 .. lists
      BY <2>1, <3>1 DEF MetadataInv, Oids, None
    <3>3. \A o \in Oids : metadata[b].lists[o] \in [Tags -> metadata[b].known \cup {None}]
      BY <3>1 DEF MetadataInv
    <3> QED
      BY <3>1, <3>2, <3>3 DEF MetadataInv
  <2>4. ASSUME NEW b \in Branches
        PROVE  /\ project[b].keywords \subseteq Keywords
               /\ project[b].description \in 0 .. commands /\ project[b].template \in 0 .. commands
    BY <2>1 DEF Project
  <2> QED
    BY <2>1, <2>2, <2>3, <2>4 DEF TypeOK
<1> QED
  BY <1>1, Invariant, PTL

\* The provenance of datasets is kept, by commands and by merges, on any branch:
\* DatasetsProvenance and the merge driver lose no version.
THEOREM ProvenanceStays == Spec => []ProvenanceIsKept
<1>1. IInv => ProvenanceIsKept
  BY DEF IInv, VersionsInv, ProvenanceIsKept, RemovedFilesAreMarked
<1> QED
  BY <1>1, Invariant, PTL

-----------------------------------------------------------------------------
\* What the driver decides without asking: a version that the other side has not
\* seen is not an ancestor of a version of that side.
LEMMA MergeUpdates ==
    ASSUME IInv, NEW l \in Branches, NEW r \in Branches, l # r, Merge(l, r),
           NEW n \in Names, NEW one \in {l, r}, NEW other \in {l, r}, one # other
    PROVE  UpdateIsMerged(n, one, other, l)
<1>1. PICK new, remotes : Merging(l, r, new, remotes)
  BY MergingDirectories
<1>2. PICK old, L, R : old = base.metadata /\ L = metadata[l] /\ R = metadata[r]
  OBVIOUS
<1>3. /\ SidesOf(old, L, R, new) /\ metadata'[l] = new
      /\ remotes \subseteq asked' /\ asked' = Questions(old, L, R)
      /\ new.datasets = ThreeWay(old.datasets, L.datasets, R.datasets, MergeDatasets(L.datasets, R.datasets, remotes))
  <2>1. SidesOf(old, L, R, new)
    BY <1>1, <1>2, MergeTakesBothSides DEF Merging
  <2> QED
    BY <1>1, <1>2, <2>1 DEF Merging, Merged, MergeMetadata, IInv, TypeInv
<1>4. /\ MetadataInv(old) /\ MetadataInv(L) /\ MetadataInv(R)
      /\ versions \in Seq(Dataset) /\ VersionsInv
  BY <1>2 DEF IInv, TypeInv
<1>5. old.known \subseteq L.known /\ old.known \subseteq R.known
  BY <1>3 DEF SidesOf
<1>6. \A k \in Names : /\ L.datasets[k] \in L.known \cup {None} /\ R.datasets[k] \in R.known \cup {None}
                       /\ old.datasets[k] \in old.known \cup {None}
  BY <1>4 DEF MetadataInv
<1>7. /\ \A v \in L.known : Ancestors(v) \subseteq L.known
      /\ \A v \in R.known : Ancestors(v) \subseteq R.known
  BY <1>4, AncestorsAreKnown
<1>8. ASSUME n \notin asked', L.datasets[n] \notin R.known \cup {None}
      PROVE  new.datasets[n] = L.datasets[n]
  <2>1. L.datasets # R.datasets /\ L.datasets # old.datasets
    BY <1>5, <1>6, <1>8
  <2>2. CASE R.datasets = old.datasets
    BY <1>3, <2>2 DEF ThreeWay
  <2>3. CASE R.datasets # old.datasets
    <3>1. n \notin Undecided(L.datasets, R.datasets) /\ n \notin remotes
      BY <1>3, <1>8, <2>1, <2>3 DEF Questions
    <3>2. ~IsDerivedFrom(R.datasets[n], L.datasets[n]) \/ R.datasets[n] = None
      BY <1>6, <1>7, <1>8 DEF IsDerivedFrom
    <3>3. new.datasets[n] = MergeDatasets(L.datasets, R.datasets, remotes)[n]
      BY <1>3, <2>1, <2>3 DEF ThreeWay
    <3> QED
      BY <1>8, <3>1, <3>2, <3>3 DEF MergeDatasets, Undecided
  <2> QED
    BY <2>2, <2>3
<1>9. ASSUME n \notin asked', R.datasets[n] \notin L.known \cup {None}
      PROVE  new.datasets[n] = R.datasets[n]
  <2>1. L.datasets # R.datasets /\ R.datasets # old.datasets
    BY <1>5, <1>6, <1>9
  <2>2. CASE L.datasets = old.datasets
    BY <1>3, <2>1, <2>2 DEF ThreeWay
  <2>3. CASE L.datasets # old.datasets
    <3>1. n \notin Undecided(L.datasets, R.datasets)
      BY <1>3, <1>9, <2>1, <2>3 DEF Questions
    <3>2. ~IsDerivedFrom(L.datasets[n], R.datasets[n]) \/ L.datasets[n] = None
      BY <1>6, <1>7, <1>9 DEF IsDerivedFrom
    <3>3. new.datasets[n] = MergeDatasets(L.datasets, R.datasets, remotes)[n]
      BY <1>3, <2>1, <2>3 DEF ThreeWay
    <3>4. L.datasets[n] # R.datasets[n]
      BY <1>6, <1>9
    <3> QED
      BY <1>9, <3>1, <3>2, <3>3, <3>4 DEF MergeDatasets, Undecided
  <2> QED
    BY <2>2, <2>3
<1> QED
  BY <1>2, <1>3, <1>8, <1>9 DEF UpdateIsMerged

\* Tags that one side made are in a list that the other has as it was in the base.
LEMMA MergeTagLists ==
    ASSUME IInv, NEW l \in Branches, NEW r \in Branches, l # r, Merge(l, r),
           NEW n \in Names, NEW one \in {l, r}, NEW other \in {l, r}, one # other
    PROVE  TagsAreMerged(n, one, other, l)
<1>1. PICK new, remotes : Merging(l, r, new, remotes)
  BY MergingDirectories
<1>2. PICK old, L, R : old = base.metadata /\ L = metadata[l] /\ R = metadata[r]
  OBVIOUS
<1>3. PICK X, Y : X = metadata[one] /\ Y = metadata[other]
  OBVIOUS
<1>4. /\ SidesOf(old, L, R, new) /\ metadata'[l] = new /\ ~IsRefused(old, L, R)
      /\ new.tags = ThreeWay(old.tags, L.tags, R.tags, MergeTags(L.tags, R.tags))
      /\ new.lists = [o \in Oids |-> ThreeWay(old.lists[o], L.lists[o], R.lists[o], L.lists[o])]
  <2>1. SidesOf(old, L, R, new)
    BY <1>1, <1>2, MergeTakesBothSides DEF Merging
  <2> QED
    BY <1>1, <1>2, <2>1 DEF Merging, Merged, MergeMetadata, IInv, TypeInv
<1>5. (X = L /\ Y = R) \/ (X = R /\ Y = L)
  BY <1>2, <1>3
<1>6. SUFFICES ASSUME X.tags[n] # None, Y.tags[n] \in {X.tags[n], None}, old.tags[n] \in {None, Y.tags[n]},
                      NEW t \in Tags
               PROVE  TagsOf(new, n)[t] = TagsOf(X, n)[t] \/ TagsOf(X, n)[t] = TagsOf(old, n)[t]
  BY <1>2, <1>3, <1>4 DEF TagsAreMerged
<1>7. PICK o \in Oids : o = X.tags[n]
  <2>1. X \in Metadata
    BY <1>3 DEF IInv, TypeInv
  <2> QED
    BY <1>6, <2>1 DEF Metadata
<1>8. o # None /\ TagsOf(X, n) = X.lists[o] /\ (new.tags[n] = o => TagsOf(new, n) = new.lists[o])
  BY <1>6, <1>7 DEF TagsOf
<1>9. o # old.tags[n] => Y.lists[o] = old.lists[o] /\ Y.tags[n] # o
  BY <1>2, <1>3, <1>7, <1>8 DEF IInv, ListsInv
\* only one side has the list
<1>10. CASE Y.tags[n] = None
  <2>1. old.tags[n] = None /\ Y.lists[o] = old.lists[o]
    BY <1>6, <1>8, <1>9, <1>10
  <2>2. new.tags[n] = o
    <3>1. X.tags # Y.tags /\ X.tags # old.tags
      BY <1>7, <1>8, <1>10, <2>1
    <3>2. MergeTags(L.tags, R.tags)[n] = o
      BY <1>5, <1>7, <1>8, <1>10 DEF MergeTags
    <3> QED
      BY <1>4, <1>5, <1>7, <3>1, <3>2 DEF ThreeWay
  <2>3. new.lists[o] = X.lists[o]
    BY <1>4, <1>5, <2>1 DEF ThreeWay
  <2> QED
    BY <1>8, <2>2, <2>3
\* both sides have the list of the base
<1>11. CASE Y.tags[n] = o
  <2>1. old.tags[n] = o /\ TagsOf(old, n) = old.lists[o]
    BY <1>8, <1>9, <1>11 DEF TagsOf
  <2>2. new.tags[n] = o
    BY <1>4, <1>5, <1>7, <1>11 DEF SidesOf
  <2>3. L.lists[o] = old.lists[o] \/ R.lists[o] = old.lists[o] \/ L.lists[o] = R.lists[o]
    BY <1>4 DEF IsRefused
  <2>4. new.lists[o] = X.lists[o] \/ X.lists[o] = old.lists[o]
    BY <1>4, <1>5, <2>3 DEF ThreeWay
  <2> QED
    BY <1>8, <2>1, <2>2, <2>4
<1> QED
  BY <1>6, <1>7, <1>10, <1>11

\* A merge keeps the versions and the edits of the project that either branch made, or
\* asks, and tags, except for removed ones and for first tags on both sides: what git
\* and the merge driver take from both sides.
THEOREM MergesKeepUpdates == Spec => MergeKeepsUpdates
<1>1. ASSUME IInv, [Next]_vars, NEW l \in Branches, NEW r \in Branches, IsMerge(l, r)
      PROVE  /\ \A n \in Names : \A one, other \in {l, r} : one # other =>
                    UpdateIsMerged(n, one, other, l) /\ TagsAreMerged(n, one, other, l)
             /\ ProjectIsMerged(project[l], project[r], base.project, project'[l])
  <2>1. \/ Merge(l, r)
        \/ Merge(r, l)
    <3>1. PICK c \in Branches, d \in Branches : c # d /\ Merge(c, d)
      BY <1>1 DEF IsMerge, Next, vars, DatasetCommand, EditProject, SetTemplate, ChangeProject
    <3>2. {c, d} = {l, r}
      BY <1>1, <3>1, MergeAssumption DEF IsMerge
    <3> QED
      BY <3>1, <3>2
  <2>2. CASE Merge(l, r)
    <3>1. l # r
      BY <1>1 DEF IsMerge
    <3>2. ProjectIsMerged(project[l], project[r], base.project, project'[l])
      BY <1>1, <2>2, MergeProject
    <3>3. \A n \in Names : \A one, other \in {l, r} : one # other =>
              UpdateIsMerged(n, one, other, l) /\ TagsAreMerged(n, one, other, l)
      BY <1>1, <2>2, <3>1, MergeUpdates, MergeTagLists
    <3> QED
      BY <3>2, <3>3
  \* the branches are the same, and the step changes the other one
  <2>3. CASE Merge(r, l)
    <3>1. l # r /\ base' = Snapshot(r) /\ base' = Snapshot(l)
      BY <1>1, <2>3 DEF IsMerge, Merge
    <3>2. metadata[l] = metadata[r] /\ project[l] = project[r]
      BY <3>1 DEF Snapshot
    <3>3. metadata'[l] = metadata[l] /\ project'[l] = project[l]
      BY <1>1, <2>3, <3>1 DEF Merge, IInv, TypeInv
    <3>4. \A n \in Names : metadata[r].datasets[n] \in metadata[r].known \cup {None}
      BY <1>1 DEF IInv, MetadataInv
    <3>5. \A n \in Names : \A one, other \in {l, r} :
              UpdateIsMerged(n, one, other, l) /\ TagsAreMerged(n, one, other, l)
      BY <3>2, <3>3, <3>4 DEF UpdateIsMerged, TagsAreMerged, TagsOf
    <3>6. ProjectIsMerged(project[l], project[r], base.project, project'[l])
      BY <3>2, <3>3 DEF ProjectIsMerged
    <3> QED
      BY <3>5, <3>6
  <2> QED
    BY <2>1, <2>2, <2>3
<1>2. IInv /\ [Next]_vars =>
        [\A l, r \in Branches : IsMerge(l, r) =>
            /\ \A n \in Names : \A one, other \in {l, r} : one # other =>
                UpdateIsMerged(n, one, other, l) /\ TagsAreMerged(n, one, other, l)
            /\ ProjectIsMerged(project[l], project[r], base.project, project'[l])]_vars
  BY <1>1
<1> QED
  BY <1>2, Invariant, PTL DEF Spec, MergeKeepsUpdates
=============================================================================
