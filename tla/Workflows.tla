----------------------------- MODULE Workflows -----------------------------
(***************************************************************************)
(* Plans and their executions (activities): the indexes that relate        *)
(* activities by the paths they use and generate, status, update and       *)
(* revert.  A path is the set of the files at it: one file, or the files   *)
(* of a directory.  What a plan writes is a function of what it reads.     *)
(***************************************************************************)
EXTENDS Naturals, Sequences, FiniteSets, SequencesExt

CONSTANTS Files,
          Sources,          \* files that are there from the start
          Plans,
          Uses, Gens,       \* paths of the inputs and outputs of a plan
          MaxRuns,          \* activities after which nothing is run but updates and reruns
          MaxActivities, MaxEdits, MaxRemovals

Paths == UNION {Uses[p] \cup Gens[p] : p \in Plans}

ASSUME WorkflowsAssumption ==
    /\ Uses \in [Plans -> SUBSET ((SUBSET Files) \ {{}})]
    /\ Gens \in [Plans -> SUBSET ((SUBSET Files) \ {{}})]
    /\ \A p \in Plans : Uses[p] \cap Gens[p] = {} /\ Gens[p] # {}
    /\ \A a, b \in Paths : a \cap b = {} \/ a \subseteq b \/ b \subseteq a
    /\ Sources \subseteq Files
    /\ MaxRuns \in Nat /\ MaxActivities \in Nat /\ MaxEdits \in Nat /\ MaxRemovals \in Nat

VARIABLES content,      \* of the files in the repository
          db,           \* activities, indexes by path, activity catalog
          removed,      \* plans whose latest version is deleted
          edits,
          last          \* history: the command that came last and what it executed

vars == <<content, db, removed, edits, last>>

Other == [name |-> "other", plans |-> {}, acts |-> {}]
Command(name, plans, acts) == [name |-> name, plans |-> plans, acts |-> acts]

Absent == <<>>
Exists(c, path) == \E f \in path : c[f] # Absent
Checksum(c, path) == [f \in path |-> c[f]]

\* are_paths_related: equal, or one is in the other.
AreRelated(a, b) == a \cap b # {}

\* What follows from n by edges, in one step or more: the smallest set that has
\* the ends of the edges from n and from its own members.
Ends(edges) == {e[2] : e \in edges}
IsClosed(edges, n, nodes) == \A e \in edges : e[1] = n \/ e[1] \in nodes => e[2] \in nodes
Reach(edges, n) ==
    {m \in Ends(edges) : \A nodes \in SUBSET Ends(edges) : IsClosed(edges, n, nodes) => m \in nodes}
Cyclic(edges) == \E e \in edges : e[1] \in Reach(edges, e[1])

-----------------------------------------------------------------------------
Acts(d) == DOMAIN d.acts
UsesOf(d, a) == Uses[d.acts[a].plan]
GensOf(d, a) == Gens[d.acts[a].plan]
Newer(d, a, b) == d.acts[a].ended > d.acts[b].ended
Live(d) == {a \in Acts(d) : ~d.acts[a].deleted}
IsActivityValid(d, a) == d.acts[a].plan \notin removed

FromPlanSwapped(p, c, time) ==
    [plan |-> p, ended |-> time, deleted |-> FALSE,
     uses |-> [g \in Gens[p] |-> Checksum(c, g)],
     gens |-> [u \in Uses[p] |-> Checksum(c, u)]]
\* Activity.from_plan reads the entities after the execution.
FromPlan(p, c, time) ==
    [plan |-> p, ended |-> time, deleted |-> FALSE,
     uses |-> [u \in Uses[p] |-> Checksum(c, u)],
     gens |-> [g \in Gens[p] |-> Checksum(c, g)]]

With(index, paths, a) == [q \in Paths |-> IF q \in paths THEN index[q] \cup {a} ELSE index[q]]
Without(index, paths, a) == [q \in Paths |-> IF q \in paths THEN index[q] \ {a} ELSE index[q]]
RelatedIn(index, paths) == UNION {index[q] : q \in {q \in Paths : \E r \in paths : AreRelated(q, r)}}

\* _index_activity: relations are pairs of an upstream and a downstream.
Index(d, a) ==
    LET used == With(d.usedBy, UsesOf(d, a), a)
        generated == With(d.generatedBy, GensOf(d, a), a)
        upstreams == RelatedIn(d.generatedBy, UsesOf(d, a)) \ {a}
        downstreams == RelatedIn(used, GensOf(d, a)) \ {a}
    IN  IF d.acts[a].deleted THEN d
        ELSE [d EXCEPT !.usedBy = used, !.generatedBy = generated,
                       !.catalog = @ \cup (upstreams \X {a}) \cup ({a} \X downstreams)]

UnindexDownstreams(d, a) ==
    LET used == Without(d.usedBy, UsesOf(d, a), a)
    IN  [d EXCEPT !.usedBy = used, !.generatedBy = Without(@, GensOf(d, a), a),
                  !.catalog = @ \ ({a} \X RelatedIn(used, GensOf(d, a)))]

\* _unindex_activity
Unindex(d, a) ==
    LET used == Without(d.usedBy, UsesOf(d, a), a)
        upstreams == RelatedIn(d.generatedBy, UsesOf(d, a))
        downstreams == RelatedIn(used, GensOf(d, a))
    IN  [d EXCEPT !.usedBy = used, !.generatedBy = Without(@, GensOf(d, a), a),
                  !.catalog = @ \ ((upstreams \X {a}) \cup ({a} \X downstreams))]

\* Paths of the catalog, from an activity to those up- and downstream of it.
Upstream(d, a) == Reach({<<e[2], e[1]>> : e \in d.catalog}, a)
Downstream(d, a) == Reach(d.catalog, a)

\* create_activity_graph connects activities by equal paths ...
Dependencies(d, acts) ==
    {e \in acts \X acts : GensOf(d, e[1]) \cap UsesOf(d, e[2]) # {}}
\* ... and orders those that generate the same path by the time they ended.
Shares(d, a, b) == a # b /\ GensOf(d, a) \cap GensOf(d, b) # {}
HasNoOrder(d, acts) == \E a, b \in acts : Shares(d, a, b) /\ d.acts[a].ended = d.acts[b].ended
Order(d, acts) ==
    LET dependencies == Dependencies(d, acts)
    IN  {e \in acts \X acts : Shares(d, e[1], e[2]) /\ Newer(d, e[2], e[1]) /\ e[2] \notin Reach(dependencies, e[1])}
\* remove_overridden_activities: all that the activity generates is generated
\* again by newer ones; with parents, also what only fed such activities.
EdgePath(d, a, b) == CHOOSE g \in GensOf(d, a) \cap UsesOf(d, b) : TRUE
Overridden(d, acts, parents) ==
    LET again(a) == {g \in GensOf(d, a) : \E b \in acts : g \in GensOf(d, b) /\ Newer(d, b, a)}
        fed(a, out) == {EdgePath(d, a, b) : b \in {b \in out : parents /\ GensOf(d, a) \cap UsesOf(d, b) # {}}}
        out[i \in Nat] == IF i = 0 THEN {a \in acts : again(a) = GensOf(d, a)}
                          ELSE LET before == out[i - 1]
                               IN  {a \in acts : again(a) \cup fed(a, before) = GensOf(d, a)}
    IN  out[Cardinality(acts)]

\* ActivityGateway.add indexes the activity and then looks for cycles in what is
\* up- and downstream of it.
AddTo(d, act) ==
    LET n == Len(d.acts) + 1
    IN  Index([d EXCEPT !.acts = Append(@, act)], n)
CheckNothing(d, a) == TRUE
Check(d, a) ==
    LET related == Upstream(d, a) \cup Downstream(d, a)
    IN  ~Cyclic(Dependencies(d, related)) /\ ~HasNoOrder(d, related)

Init ==
    /\ content = [f \in Files |-> IF f \in Sources THEN <<0>> ELSE Absent]
    /\ db = [acts |-> <<>>, usedBy |-> [q \in Paths |-> {}], generatedBy |-> [q \in Paths |-> {}], catalog |-> {}]
    /\ removed = {}
    /\ edits = 0
    /\ last = Other

-----------------------------------------------------------------------------
\* What executing a plan writes.
Write(p, c) ==
    [f \in Files |-> IF \E g \in Gens[p] : f \in g
                     THEN <<p, f, [u \in Uses[p] |-> Checksum(c, u)]>>
                     ELSE c[f]]
WriteAll(order, c) ==
    LET written[i \in 0..Len(order)] == IF i = 0 THEN c ELSE Write(order[i], written[i - 1])
    IN  written[Len(order)]

\* execute_workflow_graph: the inputs that no step generates exist; the steps
\* are executed; then their activities are added, all with the same times.
Time(d) == Len(d.acts) + 1
InputsExist(plans, c) ==
    LET outputs == UNION {Gens[p] : p \in plans}
    IN  \A p \in plans : \A u \in Uses[p] : Exists(c, u) \/ \E g \in outputs : u \subseteq g
AddAll(order, c) ==
    LET added[i \in 0..Len(order)] == IF i = 0 THEN db ELSE AddTo(added[i - 1], FromPlan(order[i], c, Time(db)))
    IN  added[Len(order)]
ExecuteGraph(order, command) ==
    LET c == WriteAll(order, content)
        d == AddAll(order, c)
    IN  /\ InputsExist(Range(order), content)
        /\ Len(d.acts) <= MaxActivities
        /\ \A a \in Len(db.acts) + 1 .. Len(d.acts) : Check(d, a)
        /\ content' = c
        /\ db' = d
        /\ last' = IF command = "execute" THEN Other ELSE Command(command, Range(order), {})
        /\ UNCHANGED <<removed, edits>>

\* renku run makes the plan, renku workflow execute uses it again.
IsKnown(p) == \E a \in Acts(db) : db.acts[a].plan = p
Run(p) ==
    /\ Len(db.acts) < MaxRuns
    /\ ~IsKnown(p)
    /\ ExecuteGraph(<<p>>, "execute")
Execute(p) ==
    /\ Len(db.acts) < MaxRuns
    /\ IsKnown(p) /\ p \notin removed
    /\ ExecuteGraph(<<p>>, "execute")

\* ExecutionGraph goes through the steps from the last one to the first and
\* links their outputs to the inputs they are related to; the graph of the steps
\* keeps the first link of an input, that is the producer that comes last.
Producers(plans, u) == {p \in plans : \E g \in Gens[p] : AreRelated(g, u)}
KeepsFirst(steps, k, u) ==
    LET producers == Producers(Range(steps), u)
    IN  steps[k] \in producers /\ \A l \in DOMAIN steps : l < k => steps[l] \notin producers
Keeps(steps, k, u) ==
    LET producers == Producers(Range(steps), u)
    IN  steps[k] \in producers /\ \A l \in DOMAIN steps : l > k => steps[l] \notin producers
WorkflowGraph(steps) ==
    {e \in Range(steps) \X Range(steps) :
        \E k \in DOMAIN steps : \E u \in Uses[e[2]] : steps[k] = e[1] /\ Keeps(steps, k, u)}
Sorted(edges, order) ==
    \A i, j \in DOMAIN order : <<order[i], order[j]>> \in edges => i < j
Orders(steps) == {order \in SetToSeqs(Range(steps)) : Sorted(WorkflowGraph(steps), order)}

\* filter_overridden_activities goes through the activities in the order of
\* their ids.
Consider(d, relevant, a) ==
    LET subsetOf == {b \in relevant : GensOf(d, a) \subseteq GensOf(d, b)}
        supersetOf == {b \in relevant \ subsetOf : GensOf(d, b) \subseteq GensOf(d, a)}
    IN  IF \E b \in subsetOf : Newer(d, b, a) THEN relevant
        ELSE {b \in relevant : GensOf(d, b) # GensOf(d, a) /\ ~(b \in supersetOf /\ Newer(d, a, b))} \cup {a}
FilterOverridden(d, order) == FoldLeft(LAMBDA relevant, a : Consider(d, relevant, a), {}, Reverse(order))
Relevant(d) == FilterOverridden(d, SetToSeq(Live(d)))

\* get_modified_activities
ModifiedInputs(d, c, a) == {u \in UsesOf(d, a) : Exists(c, u) /\ Checksum(c, u) # d.acts[a].uses[u]}
Modified(d, c) == {a \in Relevant(d) : ModifiedInputs(d, c, a) # {} /\ IsActivityValid(d, a)}

\* get_downstream_generating_activities: a chain ends before an activity whose
\* plan is removed; with ignoreDeleted only chains to an activity with an
\* existing output count.
ValidEdges(d) == {e \in d.catalog : IsActivityValid(d, e[1]) /\ IsActivityValid(d, e[2])}
HasOutput(d, c, a) == \E g \in GensOf(d, a) : Exists(c, g)
StartingOnly(d, c, starting, ignoreDeleted) == starting
DownstreamGenerating(d, c, starting, ignoreDeleted) ==
    LET ends == {a \in Acts(d) : ignoreDeleted => HasOutput(d, c, a)}
        from(s) == {s} \cup Reach(ValidEdges(d), s)
    IN  UNION {{a \in from(s) : ({a} \cup Downstream(d, a)) \cap ends # {}} : s \in starting}

\* add_activity_if_recent keeps the newest activity of a plan.
Recent(d, acts) == {a \in acts : \A b \in acts : d.acts[a].plan = d.acts[b].plan => ~Newer(d, b, a)}

\* sort_activities fails when a cycle is left after the overridden activities
\* are taken out.
ToUpdate(d, c, ignoreDeleted) == Recent(d, DownstreamGenerating(d, c, Modified(d, c), ignoreDeleted))
CanSort(d, acts, kept) ==
    LET dependencies == Dependencies(d, acts)
    IN  /\ ~HasNoOrder(d, acts) /\ ~Cyclic(dependencies)
        /\ ~Cyclic({e \in dependencies \cup Order(d, acts) : e[1] \in kept /\ e[2] \in kept})

StepsOf(d, list) == [k \in DOMAIN list |-> d.acts[list[k]].plan]
SortedSteps(d, acts, kept) ==
    LET edges == Dependencies(d, acts) \cup Order(d, acts)
    IN  {StepsOf(d, list) : list \in {list \in SetToSeqs(kept) : Sorted(edges, list)}}

SortAndExecute(acts, parents, command) ==
    LET kept == acts \ Overridden(db, acts, parents)
    IN  /\ acts # {}
        /\ CanSort(db, acts, kept)
        /\ \E order \in UNION {Orders(steps) : steps \in SortedSteps(db, acts, kept)} : ExecuteGraph(order, command)

Update(ignoreDeleted) ==
    SortAndExecute(ToUpdate(db, content, ignoreDeleted), FALSE, IF ignoreDeleted THEN "updateExisting" ELSE "update")

\* renku rerun: the newest generators of the paths and all that is upstream.
ActivitiesUntil(paths) ==
    LET latest == {a \in UNION {db.generatedBy[q] : q \in paths} :
                      \E q \in paths : a \in db.generatedBy[q] /\ \A b \in db.generatedBy[q] : ~Newer(db, b, a)}
    IN  Recent(db, latest \cup UNION {Upstream(db, a) : a \in latest})
Rerun(paths) == SortAndExecute(ActivitiesUntil(paths), TRUE, "rerun")

-----------------------------------------------------------------------------
\* get_activities: other activities of a plan that are not deleted.
UsedByOthers(a) == \E b \in Live(db) \ {a} : db.acts[b].plan = db.acts[a].plan

\* revert_generations: a path whose latest valid generator is the activity goes
\* back to what the one before generated, or is deleted if nothing uses it.
Generators(path, gone) == {b \in db.generatedBy[path] : db.acts[b].plan \notin gone}
IsLatest(a, acts) == a \in acts /\ \A b \in acts : ~Newer(db, b, a)
Before(a, acts) == {b \in acts \ {a} : ~Newer(db, b, a)}
RevertedAfterDeletion(a, path, gone) == Checksum(content, path)
Reverted(a, path, gone) ==
    LET earlier == Before(a, Generators(path, gone))
        previous == CHOOSE b \in earlier : IsLatest(b, earlier)
    IN  IF ~IsLatest(a, Generators(path, gone)) THEN Checksum(content, path)
        ELSE IF earlier # {} THEN db.acts[previous].gens[path]
        ELSE IF db.usedBy[path] = {} THEN [f \in path |-> Absent]
        ELSE Checksum(content, path)
RevertIsRefused(a, gone) ==
    \E path \in GensOf(db, a) :
        /\ IsLatest(a, Generators(path, gone)) /\ Before(a, Generators(path, gone)) = {}
        /\ db.usedBy[path] # {}

MayRemove == Cardinality(removed) + Cardinality(Acts(db) \ Live(db)) < MaxRemovals

\* revert_activity: the plan first, then the files, then the metadata.
Revert(a, deletePlan, force, metadataOnly) ==
    LET gone == IF deletePlan /\ ~UsedByOthers(a) THEN removed \cup {db.acts[a].plan} ELSE removed
        path(f) == CHOOSE path \in GensOf(db, a) : f \in path
    IN  /\ MayRemove
        /\ ~db.acts[a].deleted
        /\ deletePlan /\ ~UsedByOthers(a) => db.acts[a].plan \notin removed
        /\ force \/ (Downstream(db, a) = {} /\ (metadataOnly \/ ~RevertIsRefused(a, gone)))
        /\ removed' = gone
        /\ content' = IF metadataOnly THEN content
                      ELSE [f \in Files |-> IF \E g \in GensOf(db, a) : f \in g
                                            THEN Reverted(a, path(f), gone)[f] ELSE content[f]]
        /\ db' = [Unindex(db, a) EXCEPT !.acts[a].deleted = TRUE]
        /\ last' = IF metadataOnly THEN Other ELSE Command("revert", {}, {a})
        /\ UNCHANGED edits

\* remove_plan derives a deleted version of the latest one.
RemovePlan(p) ==
    /\ MayRemove
    /\ IsKnown(p) /\ p \notin removed
    /\ removed' = removed \cup {p}
    /\ last' = Other
    /\ UNCHANGED <<content, db, edits>>

\* reindex_catalog (renku doctor --fix --force, or a migration)
NoIndex(d) == [d EXCEPT !.usedBy = [q \in Paths |-> {}], !.generatedBy = [q \in Paths |-> {}], !.catalog = {}]
Reindexed(d) ==
    LET indexed[i \in 0..Len(d.acts)] == IF i = 0 THEN NoIndex(d) ELSE Index(indexed[i - 1], i)
    IN  indexed[Len(d.acts)]
ReindexCatalog ==
    /\ db' = Reindexed(db)
    /\ last' = Other
    /\ UNCHANGED <<content, removed, edits>>

\* The user changes or deletes a file and commits.
Edit(f, value) ==
    /\ edits < MaxEdits
    /\ edits' = edits + 1
    /\ content[f] # value
    /\ content' = [content EXCEPT ![f] = value]
    /\ last' = Other
    /\ UNCHANGED <<db, removed>>

Next ==
    \/ \E p \in Plans : Run(p) \/ Execute(p) \/ RemovePlan(p)
    \/ \E paths \in SUBSET {q \in Paths : db.generatedBy[q] # {}} : Cardinality(paths) \in 1..2 /\ Rerun(paths)
    \/ \E ignoreDeleted \in BOOLEAN : Update(ignoreDeleted)
    \/ \E a \in Acts(db) : \E deletePlan, force, metadataOnly \in BOOLEAN : Revert(a, deletePlan, force, metadataOnly)
    \/ ReindexCatalog
    \/ \E f \in Files : Edit(f, <<edits + 1>>) \/ Edit(f, Absent)

Spec == Init /\ [][Next]_vars

-----------------------------------------------------------------------------
TypeOK ==
    /\ DOMAIN content = Files
    /\ Len(db.acts) <= MaxActivities
    /\ \A a \in Acts(db) : /\ db.acts[a].plan \in Plans /\ db.acts[a].deleted \in BOOLEAN
                          /\ db.acts[a].ended \in 1..MaxActivities
                          /\ DOMAIN db.acts[a].uses = UsesOf(db, a) /\ DOMAIN db.acts[a].gens = GensOf(db, a)
    /\ db.usedBy \in [Paths -> SUBSET Acts(db)] /\ db.generatedBy \in [Paths -> SUBSET Acts(db)]
    /\ db.catalog \subseteq Acts(db) \X Acts(db)
    /\ removed \subseteq Plans
    /\ edits \in 0..MaxEdits

\* The indexes and the catalog have exactly the activities that are not deleted
\* and the relations between them, in whatever order activities were added,
\* reverted and indexed again.
CatalogIsExact ==
    /\ \A q \in Paths : /\ db.usedBy[q] = {a \in Live(db) : q \in UsesOf(db, a)}
                        /\ db.generatedBy[q] = {a \in Live(db) : q \in GensOf(db, a)}
    /\ db.catalog = {e \in Live(db) \X Live(db) :
                        e[1] # e[2] /\ \E g \in GensOf(db, e[1]) : \E u \in UsesOf(db, e[2]) : AreRelated(g, u)}

\* No chain of activities leads back to its start: an activity that closes a
\* cycle is refused, although it is looked for only near the new activity.
DependenciesAreAcyclic == ~Cyclic(Dependencies(db, Live(db)))

\* After an update no activity that counts has a modified input.
UpdateIsComplete == last.name = "update" => Modified(db, content) = {}

\* After an update or a rerun the outputs are what their plans make of the
\* inputs as they are now: no step was executed before one it depends on.
WrittenBy(p) == UNION Gens[p]
IsConsistent(p) ==
    \A f \in WrittenBy(p) :
        (\A q \in last.plans \ {p} : f \notin WrittenBy(q)) => content[f] = Write(p, content)[f]
UpdateIsConsistent ==
    last.name \in {"update", "updateExisting", "rerun"} => \A p \in last.plans : IsConsistent(p)

\* This holds for the steps with inputs that have a last producer, one that reads
\* what each of the others writes: of the steps that write into a directory the
\* graph keeps the one that was sorted last, and the others are done before it.
HasOneProducer(plans, u) == \A p, q \in Producers(plans, u) : p = q
HasLastProducer(plans, u) ==
    Producers(plans, u) # {} =>
        \E q \in Producers(plans, u) : \A r \in Producers(plans, u) \ {q} :
            \E v \in Uses[q] \cap Gens[r] : HasOneProducer(plans, v)
StepsFollowTheirProducers ==
    last.name \in {"update", "updateExisting", "rerun"} =>
        \A p \in last.plans : (\A u \in Uses[p] : HasLastProducer(last.plans, u)) => IsConsistent(p)

\* A reverted activity leaves no file that nothing else generates or uses, and
\* where it was the newest generator the file is again the one of the newest
\* that is left.
Undone(a, path) ==
    LET others == {b \in db.generatedBy[path] : IsActivityValid(db, b)}
    IN  /\ others = {} /\ db.usedBy[path] = {} => ~Exists(content, path)
        /\ \A b \in others :
                IsLatest(b, others) /\ (\A o \in others : Newer(db, a, o)) /\ ~HasNoOrder(db, others) => Checksum(content, path) = db.acts[b].gens[path]
RevertRestoresFiles ==
    last.name = "revert" =>
        \A a \in last.acts : IsActivityValid(db, a) => \A g \in GensOf(db, a) : Undone(a, g)
=============================================================================
