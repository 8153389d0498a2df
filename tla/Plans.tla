------------------------------- MODULE Plans -------------------------------
(***************************************************************************)
(* The plans of a project: versions that derive from each other, the       *)
(* index by name, compositions, removal, and the plans of a workflow file, *)
(* whose identifiers are computed from the path of the file.               *)
(***************************************************************************)
EXTENDS Naturals, Sequences, FiniteSets, SequencesExt

CONSTANTS Names,
          Steps,          \* names of the steps of the workflow file
          Descriptions,   \* what else a plan or a step consists of
          Definitions,    \* contents that the workflow file may have
          Sizes           \* bounds on how many versions of the file and of others there are together

ASSUME PlansAssumption ==
    /\ Definitions \subseteq [name : Names, description : Descriptions, steps : [Steps -> Descriptions]]
    /\ IsFiniteSet(Steps)
    /\ Sizes \subseteq [file : Nat, other : Nat]

VARIABLES db,       \* stored objects, the indexes "plans" and "plans-by-name"
          ran,      \* history: what the workflow file was when it was run last, if nothing was done since
          forced    \* history: the versions that were removed by force

vars == <<db, ran, forced>>

Default == CHOOSE description \in Descriptions : TRUE
NoId == <<"none">>
NoRun == [name |-> "none"]
QualifiedName(name, s) == <<name, s>>

\* id -> version.  A version knows the derivative that comes first in the order
\* of the (random) identifiers; an identifier of a workflow file is stable.
Version(name, kind, from, description, steps) ==
    [name |-> name, kind |-> kind, from |-> from, description |-> description, steps |-> steps,
     deleted |-> FALSE, first |-> NoId]
Uuid(d) == <<"uuid", Cardinality(DOMAIN d.plans)>>
\* Descriptions are compared in plans of workflow files only.
DescriptionsOf(version) == IF version.kind = "file" THEN Descriptions ELSE {Default}
IsComposite(version) == version.kind \in {"composite", "file"}

Init ==
    /\ db = [plans |-> <<>>, listed |-> <<>>, byName |-> <<>>]
    /\ ran = NoRun
    /\ forced = {}

-----------------------------------------------------------------------------
Listed(d) == Range(d.listed)
NewestByName(d) == {p \in Range(d.byName) : ~d.plans[p].deleted}

\* get_latest_plan
Latest(d, p) ==
    LET newest[q \in DOMAIN d.plans] ==
            LET first == d.plans[q].first IN IF first = NoId THEN q ELSE newest[first]
    IN  newest[p]
\* get_derivative_chain
Chain(d, p) ==
    LET upTo[q \in DOMAIN d.plans] ==
            LET from == d.plans[q].from IN IF from = NoId THEN {q} ELSE {q} \cup upTo[from]
    IN  upTo[Latest(d, p)]
IsPlanRemoved(d, p) == \E q \in Chain(d, p) : d.plans[q].deleted

\* Dictionaries: with one key, updated by another one, without a key.
Only(x, y) == [k \in {x} |-> y]
Over(f, g) == [k \in DOMAIN f \cup DOMAIN g |-> IF k \in DOMAIN f THEN f[k] ELSE g[k]]
Without(f, x) == [k \in DOMAIN f \ {x} |-> f[k]]

\* PlanGateway.add; before: the new identifier precedes those of the siblings.
AddThenPop(d, p) ==
    LET new == d.plans[p]
    IN  IF new.from = NoId THEN Over(Only(new.name, p), d.byName)
        ELSE Without(Over(Only(new.name, p), d.byName), d.plans[new.from].name)
PopThenAdd(d, p) ==
    LET new == d.plans[p]
    IN  Over(Only(new.name, p), IF new.from = NoId THEN d.byName ELSE Without(d.byName, d.plans[new.from].name))
Add(d, p, before) ==
    LET from == d.plans[p].from
    IN  IF p \in Listed(d) THEN d
        ELSE [plans |-> IF from # NoId /\ (before \/ d.plans[from].first = NoId)
                        THEN [d.plans EXCEPT ![from].first = p] ELSE d.plans,
              listed |-> Append(d.listed, p),
              byName |-> PopThenAdd(d, p)]
AddAll(d, ps, before) ==
    LET order == SetToSeq(ps)
        added[i \in 0..Len(order)] == IF i = 0 THEN d ELSE Add(added[i - 1], order[i], order[i] \in before)
    IN  added[Len(order)]

Store(d, versions) == [d EXCEPT !.plans = Over(versions, @)]
AddNew(d, p, version, before) == Add(Store(d, Only(p, version)), p, before)

\* derive: a copy with a new identifier.
Derive(d, p) == [d.plans[p] EXCEPT !.from = p, !.first = NoId]

OfFile(d) == {p \in DOMAIN d.plans : d.plans[p].kind \in {"file", "step"}}
Fits(d) ==
    \E size \in Sizes : /\ Cardinality(OfFile(d)) <= size.file
                        /\ Cardinality(DOMAIN d.plans \ OfFile(d)) <= size.other
Save(d) == Fits(d) /\ db' = d

-----------------------------------------------------------------------------
\* renku run --name: run_command_line looks at the plans that are not deleted.
RunCommandLine(name) ==
    /\ \A p \in NewestByName(db) : db.plans[p].name # name
    /\ Save(AddNew(db, Uuid(db), Version(name, "plan", NoId, Default, {}), FALSE))
    /\ ran' = NoRun
    /\ UNCHANGED forced

\* compose_workflow looks at all names; its steps are not removed.
Compose(name, steps) ==
    /\ name \notin DOMAIN db.byName
    /\ \A p \in steps : ~IsPlanRemoved(db, p)
    /\ Save(AddNew(db, Uuid(db), Version(name, "composite", NoId, Default, steps), FALSE))
    /\ ran' = NoRun
    /\ UNCHANGED forced

\* edit_workflow, of the version with the name or the identifier.  The plan of a
\* step of a workflow file refuses to be edited.
EditDeletedOnly(p, name, description, before) ==
    /\ db.plans[p].kind # "step" /\ ~db.plans[p].deleted
    /\ Save(AddNew(db, Uuid(db), [Derive(db, p) EXCEPT !.name = name, !.description = description], before))
    /\ ran' = NoRun
    /\ UNCHANGED forced
EditWorkflow(p, name, description, before) ==
    /\ db.plans[p].kind # "step" /\ ~IsPlanRemoved(db, p)
    /\ Save(AddNew(db, Uuid(db), [Derive(db, p) EXCEPT !.name = name, !.description = description], before))
    /\ ran' = NoRun
    /\ UNCHANGED forced

\* get_composite_plans_by_child
CompositesWithVersion(d, p) == {c \in NewestByName(d) : IsComposite(d.plans[c]) /\ p \in d.plans[c].steps}
CompositesByChild(d, p) ==
    {c \in NewestByName(d) : IsComposite(d.plans[c]) /\ d.plans[c].steps \cap Chain(d, p) # {}}

\* remove_plan
RemovePlan(p, force) ==
    LET latest == Latest(db, p)
    IN  /\ ~db.plans[latest].deleted
        /\ force \/ CompositesByChild(db, p) = {}
        /\ Save(AddNew(db, Uuid(db), [Derive(db, latest) EXCEPT !.deleted = TRUE], FALSE))
        /\ forced' = IF force THEN forced \cup {Uuid(db)} ELSE forced
        /\ ran' = NoRun

\* execute_workflow adds the plans of the steps it has executed; only the file's
\* steps may not be listed yet.
Leaves(d, p) ==
    LET below[q \in DOMAIN d.plans] ==
            LET version == d.plans[q]
            IN  IF IsComposite(version) THEN UNION {below[s] : s \in version.steps} ELSE {q}
    IN  below[p]
ExecuteWorkflow(p, before) ==
    LET new == {q \in DOMAIN db.plans \ Listed(db) : q \in Leaves(db, p)}
    IN  /\ ~IsPlanRemoved(db, p)
        /\ new # {}
        /\ before \subseteq new
        /\ db' = AddAll(db, new, before)
        /\ UNCHANGED <<ran, forced>>

-----------------------------------------------------------------------------
\* generate_id and assign_new_id of the plans of a workflow file: by path, with
\* a sequence number when the one before was removed.
FileId(k) == <<"file", k>>
StepId(name, s, k) == IF k = 0 THEN <<"step", s>> ELSE <<"step", s, name, k>>

\* calculate_derivatives: the first identifier whose plan is new or not removed.
IsFree(id) == id \notin Listed(db) \/ ~IsPlanRemoved(db, Latest(db, id))
FreshAfterRemoval(ids) == IF IsFree(ids[0]) THEN ids[0] ELSE <<"uuid", Cardinality(DOMAIN db.plans), ids[0]>>
Free(ids) == ids[CHOOSE k \in DOMAIN ids : IsFree(ids[k]) /\ \A l \in 0..k - 1 : ~IsFree(ids[l])]
Sequence == 0..Cardinality(Listed(db))
Existing(id) == IF id \in Listed(db) THEN Latest(db, id) ELSE NoId
\* The identifier of a derivative is random.
NewId(id) == IF id \in Listed(db) THEN <<"uuid", Cardinality(DOMAIN db.plans), id>> ELSE id

\* is_equal_to
IsStep(version, def, s) ==
    version.name = QualifiedName(def.name, s) /\ version.description = def.steps[s]
IsEqual(id, def) ==
    /\ db.plans[id].name = def.name /\ db.plans[id].description = def.description
    /\ \A s \in Steps : \E p \in db.plans[id].steps : IsStep(db.plans[p], def, s)

\* The plan of a step, and the version to store if it is not used again.
StepPlan(def, s) ==
    LET id == Free([k \in Sequence |-> StepId(def.name, s, k)])
        existing == Existing(id)
    IN  IF existing # NoId /\ IsStep(db.plans[existing], def, s) THEN [id |-> existing, new |-> <<>>]
        ELSE [id |-> NewId(id),
              new |-> Only(NewId(id), Version(QualifiedName(def.name, s), "step", existing, def.steps[s], {}))]

\* WorkflowFile.to_plan
Merged(fs) == [x \in UNION {DOMAIN f : f \in fs} |-> (CHOOSE f \in fs : x \in DOMAIN f)[x]]
ToPlan(def) ==
    LET id == Free([k \in Sequence |-> FileId(k)])
        existing == Existing(id)
        steps == {StepPlan(def, s) : s \in Steps}
        new == Merged({step.new : step \in steps})
    IN  IF existing # NoId /\ IsEqual(existing, def) THEN [id |-> existing, new |-> <<>>]
        ELSE [id |-> NewId(id),
              new |-> Over(Only(NewId(id), Version(def.name, "file", existing, def.description, {step.id : step \in steps})), new)]

\* run_workflow_file: the name is not that of another plan; the plans of the
\* selected steps are added after the execution, then the plan of the file.
RunWorkflowFile(def, root, selected) ==
    LET stored == Store(db, root.new)
        executed == {p \in stored.plans[root.id].steps : stored.plans[p].name[2] \in selected}
    IN  /\ def.name \in DOMAIN db.byName => db.plans[db.byName[def.name]].kind = "file"
        /\ \E before \in SUBSET {p \in executed \ Listed(db) : p \in DOMAIN db.plans} :
                Save(Add(AddAll(stored, executed, before), root.id, FALSE))
        /\ ran' = def
        /\ UNCHANGED forced

Next ==
    \/ \E name \in Names :
        \/ RunCommandLine(name)
        \/ \E steps \in SUBSET Listed(db) : Cardinality(steps) \in 1..2 /\ Compose(name, steps)
        \/ \E p \in Listed(db), before \in BOOLEAN :
            \E description \in DescriptionsOf(db.plans[p]) : EditWorkflow(p, name, description, before)
    \/ \E p \in Listed(db), force \in BOOLEAN : RemovePlan(p, force)
    \/ \E p \in Listed(db) : \E before \in SUBSET Leaves(db, p) : ExecuteWorkflow(p, before)
    \/ \E def \in Definitions :
        LET root == ToPlan(def)
        IN  \E selected \in SUBSET Steps \ {{}} : RunWorkflowFile(def, root, selected)

Spec == Init /\ [][Next]_vars

-----------------------------------------------------------------------------
\* A name leads to a version that has this name and no newer version.  A version
\* that nobody derived from and that is not deleted is found by its name, unless
\* a later version took the name or was derived from an older one of this name.
Later(d, p) == {q \in Listed(d) : \E i, j \in DOMAIN d.listed : i < j /\ d.listed[i] = p /\ d.listed[j] = q}
Displaces(d, q, p) ==
    LET from == d.plans[q].from
    IN  d.plans[p].name \in {d.plans[q].name} \cup (IF from = NoId THEN {} ELSE {d.plans[from].name})
NamesLeadToNewest(d) ==
    \A name \in DOMAIN d.byName :
        LET p == d.byName[name]
        IN  p \in Listed(d) /\ d.plans[p].name = name /\ \A q \in Listed(d) : d.plans[q].from # p
NewestHaveNames(d) ==
    \A p \in Listed(d) :
        LET version == d.plans[p]
        IN  (~\E q \in Later(d, p) : Displaces(d, q, p)) => version.name \in DOMAIN d.byName /\ d.byName[version.name] = p
NamesFindNewest == NamesLeadToNewest(db) /\ NewestHaveNames(db)

\* No command changes a version that is listed, or brings back a removed plan:
\* not by an edit or a run of another version of it, and whatever the order of
\* the identifiers.  The exception is a step that an earlier run of the file
\* left out: it is stored but not listed.
VersionsStay(d, e) ==
    \A p \in Listed(d) : [e.plans[p] EXCEPT !.first = NoId] = [d.plans[p] EXCEPT !.first = NoId]
PlansStayRemoved(d, e) ==
    (\A p \in Listed(e) \ Listed(d) : p \notin DOMAIN d.plans) =>
        \A p \in Listed(d) : IsPlanRemoved(d, p) => IsPlanRemoved(e, p)
HistoryIsKept == [][VersionsStay(db, db') /\ PlansStayRemoved(db, db')]_vars

\* A step of a composite workflow that is listed by name is removed by force
\* only, in whichever version it is part of it and under whichever version or
\* name it is removed.
OnlyForceBreaksComposites ==
    [][\A c \in NewestByName(db') : IsComposite(db'.plans[c]) /\ c \in Listed(db) =>
            \A s \in db'.plans[c].steps \cap Listed(db) :
                IsPlanRemoved(db', s) => IsPlanRemoved(db, s) \/ forced' # forced]_vars

\* Running a workflow file again that has not changed makes no new versions, also
\* after its plans were removed, renamed or edited before.
UnchangedFilesKeepTheirPlans ==
    [][ran # NoRun /\ ran' = ran => DOMAIN db'.plans = DOMAIN db.plans]_vars
=============================================================================
