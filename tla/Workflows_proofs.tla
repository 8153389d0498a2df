-------------------------- MODULE Workflows_proofs --------------------------
(***************************************************************************)
(* Proofs about Workflows, for all plans, paths and bounds: the typing of  *)
(* activities and indexes, the exactness of the catalog, the absence of    *)
(* cycles, what a revert restores and the order of steps.                  *)
(***************************************************************************)
EXTENDS Workflows, FiniteSetTheorems, WellFoundedInduction, TLAPS

-----------------------------------------------------------------------------
\* The loops of the model are recursive functions on 0..n.  Two lemmas stand
\* for induction over their steps.

\* A set of numbers has a least element.
LEMMA Least ==
    ASSUME NEW T \in SUBSET Nat, T # {}
    PROVE  \E x \in T : \A y \in T : x <= y
<1>1. PICK x \in T : \A y \in T : ~(<<y, x>> \in OpToRel(<, Nat))
  BY WFMin, NatLessThanWellFounded
<1>2. \A y \in T : ~(y < x)
  BY <1>1 DEF OpToRel
<1> QED
  BY <1>2

\* What holds before a loop and is kept by each of its steps holds after it.
LEMMA Induction ==
    ASSUME NEW n \in Nat, NEW Q, 0 \in Q, \A i \in 1..n : i - 1 \in Q => i \in Q
    PROVE  0..n \subseteq Q
<1> DEFINE T == {i \in 0..n : i \notin Q}
<1>1. SUFFICES ASSUME T # {} PROVE FALSE
  OBVIOUS
<1>2. T \in SUBSET Nat
  OBVIOUS
<1>3. \E x \in T : \A y \in T : x <= y
  <2> HIDE DEF T
  <2> QED
    BY <1>1, <1>2, Least
<1>4. PICK x \in T : \A y \in T : x <= y
  BY <1>3
<1>5. x \in 1..n /\ x - 1 \in 0..n /\ x - 1 \notin T
  BY <1>4
<1> QED
  BY <1>4, <1>5

\* The loop that executes the plans of a workflow.
WriteAllBy(f, order, c) ==
    f = [i \in 0..Len(order) |-> IF i = 0 THEN c ELSE Write(order[i], f[i - 1])]

LEMMA WriteAllLoop ==
    ASSUME NEW order, Len(order) \in Nat, NEW c
    PROVE  \E f : WriteAllBy(f, order, c) /\ WriteAll(order, c) = f[Len(order)]
<1> DEFINE n == Len(order)
           Computes(f, m) == f = [i \in 0..m |-> IF i = 0 THEN c ELSE Write(order[i], f[i - 1])]
           Q == {m \in 0..n : \E f : Computes(f, m)}
<1>1. 0 \in Q
  <2>1. Computes([i \in 0..0 |-> c], 0)
    OBVIOUS
  <2> HIDE DEF Computes
  <2> QED
    BY <2>1
<1>2. ASSUME NEW m \in 1..n, m - 1 \in Q PROVE m \in Q
  <2>1. PICK f : Computes(f, m - 1)
    BY <1>2
  <2> DEFINE g == [i \in 0..m |-> IF i = m THEN Write(order[m], f[m - 1]) ELSE f[i]]
  <2>2. ASSUME NEW i \in 0..m PROVE g[i] = IF i = 0 THEN c ELSE Write(order[i], g[i - 1])
    <3>1. CASE i = 0
      BY <2>1, <3>1
    <3>2. CASE i # 0
      <4>1. i - 1 \in 0..m /\ i - 1 # m
        BY <3>2
      <4>2. g[i - 1] = f[i - 1]
        BY <4>1
      <4>3. i # m => g[i] = Write(order[i], f[i - 1])
        BY <2>1, <3>2
      <4>4. i = m => g[i] = Write(order[i], f[i - 1])
        BY <3>2
      <4> QED
        BY <3>2, <4>2, <4>3, <4>4
    <3> QED
      BY <3>1, <3>2
  <2>3. Computes(g, m)
    <3> HIDE DEF g
    <3>1. g = [i \in 0..m |-> g[i]]
      BY DEF g
    <3> QED
      BY <2>2, <3>1
  <2> HIDE DEF g, Computes
  <2> QED
    BY <2>3
<1>3. \A m \in 1..n : m - 1 \in Q => m \in Q
  BY <1>2
<1>4. 0..n \subseteq Q
  <2> HIDE DEF Q
  <2> QED
    BY <1>1, <1>3, Induction
<1>5. \E f : WriteAllBy(f, order, c)
  BY <1>4 DEF WriteAllBy
<1> DEFINE h == CHOOSE f : f = [i \in 0..Len(order) |-> IF i = 0 THEN c ELSE Write(order[i], f[i - 1])]
<1>6. WriteAllBy(h, order, c)
  BY <1>5 DEF WriteAllBy
<1>7. WriteAll(order, c) = h[Len(order)]
  BY DEF WriteAll
<1> HIDE DEF h
<1> QED
  BY <1>6, <1>7

\* The loop that adds the activities of the executed plans.
AddAllBy(f, order, c) ==
    f = [i \in 0..Len(order) |-> IF i = 0 THEN db ELSE AddTo(f[i - 1], FromPlan(order[i], c, Time(db)))]

LEMMA AddAllLoop ==
    ASSUME NEW order, Len(order) \in Nat, NEW c
    PROVE  \E f : AddAllBy(f, order, c) /\ AddAll(order, c) = f[Len(order)]
<1> DEFINE n == Len(order)
           Computes(f, m) == f = [i \in 0..m |-> IF i = 0 THEN db ELSE AddTo(f[i - 1], FromPlan(order[i], c, Time(db)))]
           Q == {m \in 0..n : \E f : Computes(f, m)}
<1>1. 0 \in Q
  <2>1. Computes([i \in 0..0 |-> db], 0)
    OBVIOUS
  <2> HIDE DEF Computes
  <2> QED
    BY <2>1
<1>2. ASSUME NEW m \in 1..n, m - 1 \in Q PROVE m \in Q
  <2>1. PICK f : Computes(f, m - 1)
    BY <1>2
  <2> DEFINE g == [i \in 0..m |-> IF i = m THEN AddTo(f[m - 1], FromPlan(order[m], c, Time(db))) ELSE f[i]]
  <2>2. ASSUME NEW i \in 0..m PROVE g[i] = IF i = 0 THEN db ELSE AddTo(g[i - 1], FromPlan(order[i], c, Time(db)))
    <3>1. CASE i = 0
      BY <2>1, <3>1
    <3>2. CASE i # 0
      <4>1. i - 1 \in 0..m /\ i - 1 # m
        BY <3>2
      <4>2. g[i - 1] = f[i - 1]
        BY <4>1
      <4>3. i # m => g[i] = AddTo(f[i - 1], FromPlan(order[i], c, Time(db)))
        BY <2>1, <3>2
      <4>4. i = m => g[i] = AddTo(f[i - 1], FromPlan(order[i], c, Time(db)))
        BY <3>2
      <4> QED
        BY <3>2, <4>2, <4>3, <4>4
    <3> QED
      BY <3>1, <3>2
  <2>3. Computes(g, m)
    <3> HIDE DEF g
    <3>1. g = [i \in 0..m |-> g[i]]
      BY DEF g
    <3> QED
      BY <2>2, <3>1
  <2> HIDE DEF g, Computes
  <2> QED
    BY <2>3
<1>3. \A m \in 1..n : m - 1 \in Q => m \in Q
  BY <1>2
<1>4. 0..n \subseteq Q
  <2> HIDE DEF Q
  <2> QED
    BY <1>1, <1>3, Induction
<1>5. \E f : AddAllBy(f, order, c)
  BY <1>4 DEF AddAllBy
<1> DEFINE h == CHOOSE f : f = [i \in 0..Len(order) |-> IF i = 0 THEN db ELSE AddTo(f[i - 1], FromPlan(order[i], c, Time(db)))]
<1>6. AddAllBy(h, order, c)
  BY <1>5 DEF AddAllBy
<1>7. AddAll(order, c) = h[Len(order)]
  BY DEF AddAll
<1> HIDE DEF h
<1> QED
  BY <1>6, <1>7

\* The loop that indexes the activities again.
ReindexedBy(f, d) ==
    f = [i \in 0..Len(d.acts) |-> IF i = 0 THEN NoIndex(d) ELSE Index(f[i - 1], i)]

LEMMA ReindexLoop ==
    ASSUME NEW d, Len(d.acts) \in Nat
    PROVE  \E f : ReindexedBy(f, d) /\ Reindexed(d) = f[Len(d.acts)]
<1> DEFINE n == Len(d.acts)
           Computes(f, m) == f = [i \in 0..m |-> IF i = 0 THEN NoIndex(d) ELSE Index(f[i - 1], i)]
           Q == {m \in 0..n : \E f : Computes(f, m)}
<1>1. 0 \in Q
  <2>1. Computes([i \in 0..0 |-> NoIndex(d)], 0)
    OBVIOUS
  <2> HIDE DEF Computes
  <2> QED
    BY <2>1
<1>2. ASSUME NEW m \in 1..n, m - 1 \in Q PROVE m \in Q
  <2>1. PICK f : Computes(f, m - 1)
    BY <1>2
  <2> DEFINE g == [i \in 0..m |-> IF i = m THEN Index(f[m - 1], m) ELSE f[i]]
  <2>2. ASSUME NEW i \in 0..m PROVE g[i] = IF i = 0 THEN NoIndex(d) ELSE Index(g[i - 1], i)
    <3>1. CASE i = 0
      BY <2>1, <3>1
    <3>2. CASE i # 0
      <4>1. i - 1 \in 0..m /\ i - 1 # m
        BY <3>2
      <4>2. g[i - 1] = f[i - 1]
        BY <4>1
      <4>3. i # m => g[i] = Index(f[i - 1], i)
        BY <2>1, <3>2
      <4>4. i = m => g[i] = Index(f[i - 1], i)
        BY <3>2
      <4> QED
        BY <3>2, <4>2, <4>3, <4>4
    <3> QED
      BY <3>1, <3>2
  <2>3. Computes(g, m)
    <3> HIDE DEF g
    <3>1. g = [i \in 0..m |-> g[i]]
      BY DEF g
    <3> QED
      BY <2>2, <3>1
  <2> HIDE DEF g, Computes
  <2> QED
    BY <2>3
<1>3. \A m \in 1..n : m - 1 \in Q => m \in Q
  BY <1>2
<1>4. 0..n \subseteq Q
  <2> HIDE DEF Q
  <2> QED
    BY <1>1, <1>3, Induction
<1>5. \E f : ReindexedBy(f, d)
  BY <1>4 DEF ReindexedBy
<1> DEFINE h == CHOOSE f : f = [i \in 0..Len(d.acts) |-> IF i = 0 THEN NoIndex(d) ELSE Index(f[i - 1], i)]
<1>6. ReindexedBy(h, d)
  BY <1>5 DEF ReindexedBy
<1>7. Reindexed(d) = h[Len(d.acts)]
  BY DEF Reindexed
<1> HIDE DEF h
<1> QED
  BY <1>6, <1>7

-----------------------------------------------------------------------------
\* Reach, for any set of edges.

LEMMA ReachLeast ==
    ASSUME NEW edges, NEW n, NEW nodes, IsClosed(edges, n, nodes)
    PROVE  Reach(edges, n) \subseteq nodes
<1> DEFINE inner == nodes \cap Ends(edges)
<1>1. IsClosed(edges, n, inner)
  BY DEF IsClosed, Ends
<1> QED
  BY <1>1 DEF Reach

LEMMA ReachIsClosed ==
    ASSUME NEW edges, NEW n
    PROVE  IsClosed(edges, n, Reach(edges, n))
<1> SUFFICES ASSUME NEW e \in edges, e[1] = n \/ e[1] \in Reach(edges, n)
             PROVE  e[2] \in Reach(edges, n)
  BY DEF IsClosed
<1>1. e[2] \in Ends(edges)
  BY DEF Ends
<1>2. ASSUME NEW nodes \in SUBSET Ends(edges), IsClosed(edges, n, nodes)
      PROVE  e[2] \in nodes
  <2>1. Reach(edges, n) \subseteq nodes
    BY <1>2, ReachLeast
  <2> QED
    BY <1>2, <2>1 DEF IsClosed
<1> QED
  BY <1>1, <1>2 DEF Reach

\* More edges reach more, and what is reached from a node in reach is in reach.
LEMMA ReachGrows ==
    ASSUME NEW edges, NEW more, edges \subseteq more, NEW n
    PROVE  Reach(edges, n) \subseteq Reach(more, n)
<1>1. IsClosed(edges, n, Reach(more, n))
  BY ReachIsClosed DEF IsClosed
<1> QED
  BY <1>1, ReachLeast

LEMMA ReachIsTransitive ==
    ASSUME NEW edges, NEW n, NEW m \in Reach(edges, n)
    PROVE  Reach(edges, m) \subseteq Reach(edges, n)
<1>1. IsClosed(edges, m, Reach(edges, n))
  BY ReachIsClosed DEF IsClosed
<1> QED
  BY <1>1, ReachLeast

LEMMA ReachEnds ==
    ASSUME NEW edges, NEW n
    PROVE  Reach(edges, n) \subseteq Ends(edges)
BY DEF Reach

\* A cycle goes through a node that reaches itself.
LEMMA CyclicNode ==
    ASSUME NEW edges
    PROVE  Cyclic(edges) <=> \E a : a \in Reach(edges, a)
<1>1. ASSUME NEW a, a \in Reach(edges, a)
      PROVE  \E e \in edges : e[1] = a
  <2>1. SUFFICES ASSUME \A e \in edges : e[1] # a
                 PROVE  FALSE
    OBVIOUS
  <2>2. IsClosed(edges, a, {})
    BY <2>1 DEF IsClosed
  <2> QED
    BY <1>1, <2>2, ReachLeast
<1>2. ASSUME NEW a, a \in Reach(edges, a)
      PROVE  \E e \in edges : e[1] \in Reach(edges, e[1])
  <2>1. PICK e \in edges : e[1] = a
    BY <1>1, <1>2
  <2> QED
    BY <1>2, <2>1
<1> QED
  BY <1>2 DEF Cyclic

\* The nodes on cycles through a, and the edges between them: a still reaches
\* itself when only those edges are left.
Component(edges, a) == {x \in Reach(edges, a) : a \in Reach(edges, x)}
Within(edges, nodes) == {e \in edges : e[1] \in nodes /\ e[2] \in nodes}

LEMMA CycleWithin ==
    ASSUME NEW edges, NEW a, a \in Reach(edges, a)
    PROVE  a \in Reach(Within(edges, Component(edges, a)), a)
<1> DEFINE C == Component(edges, a)
           inside == Reach(Within(edges, C), a)
           leaving == {x \in Ends(edges) : a \notin Reach(edges, x)}
<1>1. inside \subseteq Reach(edges, a)
  BY ReachGrows DEF Within
<1>2. ASSUME NEW e \in edges, e[1] = a \/ e[1] \in inside \cup leaving
      PROVE  e[2] \in inside \cup leaving
  <2>1. CASE a \notin Reach(edges, e[2])
    BY <2>1 DEF Ends
  <2>2. CASE a \in Reach(edges, e[2])
    <3>1. e[2] \in Reach(edges, e[1])
      BY ReachIsClosed DEF IsClosed
    <3>2. a \in Reach(edges, e[1])
      BY <2>2, <3>1, ReachIsTransitive
    <3>3. e[1] = a \/ e[1] \in inside
      BY <1>2, <3>2
    <3>4. e[1] \in Reach(edges, a)
      BY <1>1, <3>3
    <3>5. e[2] \in Reach(edges, a)
      BY <3>1, <3>4, ReachIsTransitive
    <3>6. e \in Within(edges, C)
      BY <2>2, <3>2, <3>4, <3>5 DEF Within, Component
    <3>7. e[2] \in inside
      BY <3>3, <3>6, ReachIsClosed DEF IsClosed
    <3> QED
      BY <3>7
  <2> QED
    BY <2>1, <2>2
<1>3. IsClosed(edges, a, inside \cup leaving)
  BY <1>2 DEF IsClosed
<1>4. a \in inside \cup leaving
  <2> HIDE DEF inside, leaving
  <2> QED
    BY <1>3, ReachLeast
<1> QED
  BY <1>4

-----------------------------------------------------------------------------
\* Activities and the indexes of a database d.

IsActivity(act) ==
    /\ act = [plan |-> act.plan, ended |-> act.ended, deleted |-> act.deleted, uses |-> act.uses, gens |-> act.gens]
    /\ act.plan \in Plans /\ act.ended \in Nat /\ act.deleted \in BOOLEAN
    /\ DOMAIN act.uses = Uses[act.plan]
    /\ DOMAIN act.gens = Gens[act.plan]
    /\ \A g \in Gens[act.plan] : act.gens[g] = [f \in g |-> act.gens[g][f]]

IsDatabase(d) ==
    d = [acts |-> d.acts, usedBy |-> d.usedBy, generatedBy |-> d.generatedBy, catalog |-> d.catalog]
IsSequence(s) == \E V : s \in Seq(V)
HasActivities(d) ==
    /\ IsDatabase(d)
    /\ IsSequence(d.acts)
    /\ \A a \in Acts(d) : IsActivity(d.acts[a])

\* The indexes and the catalog are those of the activities in L.
Feeds(d, a, b) == \E g \in GensOf(d, a) : \E u \in UsesOf(d, b) : AreRelated(g, u)
Relations(d, L) == {e \in L \X L : e[1] # e[2] /\ Feeds(d, e[1], e[2])}
IsExactFor(d, L) ==
    /\ d.usedBy = [q \in Paths |-> {a \in L : q \in UsesOf(d, a)}]
    /\ d.generatedBy = [q \in Paths |-> {a \in L : q \in GensOf(d, a)}]
    /\ d.catalog = Relations(d, L)

LEMMA PathsOfPlans ==
    ASSUME NEW p \in Plans
    PROVE  Uses[p] \subseteq Paths /\ Gens[p] \subseteq Paths /\ Uses[p] \cap Gens[p] = {}
BY WorkflowsAssumption DEF Paths


\* _index_activity adds an activity that was not indexed, with its relations.
LEMMA IndexAdds ==
    ASSUME NEW d, IsDatabase(d), NEW L, NEW a, a \notin L,
           \A b \in L \cup {a} : d.acts[b].plan \in Plans,
           IsExactFor(d, L), ~d.acts[a].deleted
    PROVE  /\ IsDatabase(Index(d, a))
           /\ Index(d, a).acts = d.acts
           /\ IsExactFor(Index(d, a), L \cup {a})
<1> DEFINE used == With(d.usedBy, UsesOf(d, a), a)
           generated == With(d.generatedBy, GensOf(d, a), a)
           upstreams == RelatedIn(d.generatedBy, UsesOf(d, a)) \ {a}
           downstreams == RelatedIn(used, GensOf(d, a)) \ {a}
           D == Index(d, a)
<1>1. D = [acts |-> d.acts, usedBy |-> used, generatedBy |-> generated,
           catalog |-> d.catalog \cup (upstreams \X {a}) \cup ({a} \X downstreams)]
  <2> HIDE DEF used, generated, upstreams, downstreams
  <2>1. D = [d EXCEPT !.usedBy = used, !.generatedBy = generated,
                      !.catalog = @ \cup (upstreams \X {a}) \cup ({a} \X downstreams)]
    BY DEF Index, used, generated, upstreams, downstreams
  <2> QED
    BY <2>1 DEF IsDatabase
<1>2. \A b \in L \cup {a} : UsesOf(d, b) \subseteq Paths /\ GensOf(d, b) \subseteq Paths
  BY PathsOfPlans DEF UsesOf, GensOf
<1>3. used = [q \in Paths |-> {b \in L \cup {a} : q \in UsesOf(d, b)}]
  BY DEF IsExactFor, With
<1>4. generated = [q \in Paths |-> {b \in L \cup {a} : q \in GensOf(d, b)}]
  BY DEF IsExactFor, With
<1>5. upstreams = {b \in L : Feeds(d, b, a)}
  <2>1. RelatedIn(d.generatedBy, UsesOf(d, a)) = {b \in L : \E q \in GensOf(d, b) : \E r \in UsesOf(d, a) : AreRelated(q, r)}
    BY <1>2 DEF IsExactFor, RelatedIn
  <2> QED
    BY <2>1 DEF Feeds
<1>6. downstreams = {b \in L : Feeds(d, a, b)}
  <2> HIDE DEF used
  <2>1. RelatedIn(used, GensOf(d, a)) = {b \in L \cup {a} : \E q \in UsesOf(d, b) : \E r \in GensOf(d, a) : AreRelated(q, r)}
    BY <1>2, <1>3 DEF RelatedIn
  <2>2. \A q, r : AreRelated(q, r) <=> AreRelated(r, q)
    BY DEF AreRelated
  <2> QED
    BY <2>1, <2>2 DEF Feeds
<1> HIDE DEF used, generated, upstreams, downstreams, D
<1>7. D.acts = d.acts
  BY <1>1
<1>8. \A b : UsesOf(D, b) = UsesOf(d, b) /\ GensOf(D, b) = GensOf(d, b)
  BY <1>7 DEF UsesOf, GensOf
<1>9. D.catalog = Relations(D, L \cup {a})
  <2>1. Relations(D, L \cup {a}) = {e \in (L \cup {a}) \X (L \cup {a}) : e[1] # e[2] /\ Feeds(d, e[1], e[2])}
    BY <1>8 DEF Relations, Feeds
  <2>2. d.catalog = {e \in L \X L : e[1] # e[2] /\ Feeds(d, e[1], e[2])}
    BY DEF IsExactFor, Relations
  <2>3. D.catalog = d.catalog \cup (upstreams \X {a}) \cup ({a} \X downstreams)
    BY <1>1
  <2>4. ASSUME NEW x \in L \cup {a}, NEW y \in L \cup {a}
        PROVE  <<x, y>> \in D.catalog <=> x # y /\ Feeds(d, x, y)
    <3>1. CASE x = a
      BY <1>5, <1>6, <2>2, <2>3, <3>1
    <3>2. CASE x # a /\ y = a
      BY <1>5, <1>6, <2>2, <2>3, <3>2
    <3>3. CASE x # a /\ y # a
      BY <1>5, <1>6, <2>2, <2>3, <3>3
    <3> QED
      BY <3>1, <3>2, <3>3
  <2>5. D.catalog \subseteq (L \cup {a}) \X (L \cup {a})
    BY <1>5, <1>6, <2>2, <2>3
  <2>6. ASSUME NEW e PROVE e \in D.catalog <=> e \in Relations(D, L \cup {a})
    <3>1. CASE e \in (L \cup {a}) \X (L \cup {a})
      <4>1. PICK x \in L \cup {a}, y \in L \cup {a} : e = <<x, y>>
        BY <3>1
      <4> QED
        BY <2>1, <2>4, <4>1
    <3>2. CASE e \notin (L \cup {a}) \X (L \cup {a})
      BY <2>1, <2>5, <3>2
    <3> QED
      BY <3>1, <3>2
  <2> QED
    BY <2>6
<1>10. IsExactFor(D, L \cup {a})
  <2>1. \A q : /\ {b \in L \cup {a} : q \in UsesOf(D, b)} = {b \in L \cup {a} : q \in UsesOf(d, b)}
              /\ {b \in L \cup {a} : q \in GensOf(D, b)} = {b \in L \cup {a} : q \in GensOf(d, b)}
    BY <1>8
  <2>2. D.usedBy = used /\ D.generatedBy = generated
    BY <1>1
  <2>3. D.usedBy = [q \in Paths |-> {b \in L \cup {a} : q \in UsesOf(D, b)}]
    BY <1>3, <2>1, <2>2
  <2>4. D.generatedBy = [q \in Paths |-> {b \in L \cup {a} : q \in GensOf(D, b)}]
    BY <1>4, <2>1, <2>2
  <2> QED
    BY <1>9, <2>3, <2>4 DEF IsExactFor
<1> QED
  BY <1>1, <1>7, <1>10 DEF IsDatabase, D

\* _unindex_activity takes it out again, with its relations.
LEMMA UnindexRemoves ==
    ASSUME NEW d, IsDatabase(d), NEW L, NEW a \in L,
           \A b \in L : d.acts[b].plan \in Plans,
           IsExactFor(d, L)
    PROVE  /\ IsDatabase(Unindex(d, a))
           /\ Unindex(d, a).acts = d.acts
           /\ IsExactFor(Unindex(d, a), L \ {a})
<1> DEFINE used == Without(d.usedBy, UsesOf(d, a), a)
           generated == Without(d.generatedBy, GensOf(d, a), a)
           upstreams == RelatedIn(d.generatedBy, UsesOf(d, a))
           downstreams == RelatedIn(used, GensOf(d, a))
           D == Unindex(d, a)
<1>1. D = [acts |-> d.acts, usedBy |-> used, generatedBy |-> generated,
           catalog |-> d.catalog \ ((upstreams \X {a}) \cup ({a} \X downstreams))]
  <2> HIDE DEF used, generated, upstreams, downstreams
  <2>1. D = [d EXCEPT !.usedBy = used, !.generatedBy = generated,
                      !.catalog = @ \ ((upstreams \X {a}) \cup ({a} \X downstreams))]
    BY DEF Unindex, used, generated, upstreams, downstreams, IsDatabase
  <2> QED
    BY <2>1 DEF IsDatabase
<1>2. \A b \in L : UsesOf(d, b) \subseteq Paths /\ GensOf(d, b) \subseteq Paths
  BY PathsOfPlans DEF UsesOf, GensOf
<1>3. used = [q \in Paths |-> {b \in L \ {a} : q \in UsesOf(d, b)}]
  BY DEF IsExactFor, Without
<1>4. generated = [q \in Paths |-> {b \in L \ {a} : q \in GensOf(d, b)}]
  BY DEF IsExactFor, Without
<1>5. upstreams = {b \in L : Feeds(d, b, a)}
  <2>1. upstreams = {b \in L : \E q \in GensOf(d, b) : \E r \in UsesOf(d, a) : AreRelated(q, r)}
    BY <1>2 DEF IsExactFor, RelatedIn
  <2> QED
    BY <2>1 DEF Feeds
<1>6. downstreams = {b \in L \ {a} : Feeds(d, a, b)}
  <2> HIDE DEF used
  <2>1. downstreams = {b \in L \ {a} : \E q \in UsesOf(d, b) : \E r \in GensOf(d, a) : AreRelated(q, r)}
    BY <1>2, <1>3 DEF RelatedIn
  <2>2. \A q, r : AreRelated(q, r) <=> AreRelated(r, q)
    BY DEF AreRelated
  <2> QED
    BY <2>1, <2>2 DEF Feeds
<1> HIDE DEF used, generated, upstreams, downstreams, D
<1>7. D.acts = d.acts
  BY <1>1
<1>8. \A b : UsesOf(D, b) = UsesOf(d, b) /\ GensOf(D, b) = GensOf(d, b)
  BY <1>7 DEF UsesOf, GensOf
<1>9. D.catalog = Relations(D, L \ {a})
  <2>1. Relations(D, L \ {a}) = {e \in (L \ {a}) \X (L \ {a}) : e[1] # e[2] /\ Feeds(d, e[1], e[2])}
    BY <1>8 DEF Relations, Feeds
  <2>2. d.catalog = {e \in L \X L : e[1] # e[2] /\ Feeds(d, e[1], e[2])}
    BY DEF IsExactFor, Relations
  <2>3. D.catalog = d.catalog \ ((upstreams \X {a}) \cup ({a} \X downstreams))
    BY <1>1
  <2>4. ASSUME NEW x \in L, NEW y \in L
        PROVE  <<x, y>> \in D.catalog <=> x # a /\ y # a /\ x # y /\ Feeds(d, x, y)
    <3>1. <<x, y>> \in d.catalog <=> x # y /\ Feeds(d, x, y)
      BY <2>2
    <3>2. CASE x = a
      BY <1>6, <2>3, <3>1, <3>2
    <3>3. CASE x # a /\ y = a
      BY <1>5, <2>3, <3>1, <3>3
    <3>4. CASE x # a /\ y # a
      BY <2>3, <3>1, <3>4
    <3> QED
      BY <3>2, <3>3, <3>4
  <2>5. D.catalog \subseteq L \X L
    BY <2>2, <2>3
  <2>6. ASSUME NEW e PROVE e \in D.catalog <=> e \in Relations(D, L \ {a})
    <3>1. CASE e \in L \X L
      <4>1. PICK x \in L, y \in L : e = <<x, y>>
        BY <3>1
      <4> QED
        BY <2>1, <2>4, <4>1
    <3>2. CASE e \notin L \X L
      BY <2>1, <2>5, <3>2
    <3> QED
      BY <3>1, <3>2
  <2> QED
    BY <2>6
<1>10. IsExactFor(D, L \ {a})
  <2>1. \A q : /\ {b \in L \ {a} : q \in UsesOf(D, b)} = {b \in L \ {a} : q \in UsesOf(d, b)}
              /\ {b \in L \ {a} : q \in GensOf(D, b)} = {b \in L \ {a} : q \in GensOf(d, b)}
    BY <1>8
  <2>2. D.usedBy = used /\ D.generatedBy = generated
    BY <1>1
  <2>3. D.usedBy = [q \in Paths |-> {b \in L \ {a} : q \in UsesOf(D, b)}]
    BY <1>3, <2>1, <2>2
  <2>4. D.generatedBy = [q \in Paths |-> {b \in L \ {a} : q \in GensOf(D, b)}]
    BY <1>4, <2>1, <2>2
  <2> QED
    BY <1>9, <2>3, <2>4 DEF IsExactFor
<1> QED
  BY <1>1, <1>7, <1>10 DEF IsDatabase, D

-----------------------------------------------------------------------------
\* What adding the activities of an execution does to the database.

LEMMA FromPlanIsActivity ==
    ASSUME NEW p \in Plans, NEW c, NEW time \in Nat
    PROVE  LET act == FromPlan(p, c, time)
           IN  IsActivity(act) /\ ~act.deleted /\ act.ended = time /\ act.plan = p
BY DEF FromPlan, IsActivity, Checksum

LEMMA Lengths ==
    ASSUME NEW s, IsSequence(s), NEW x
    PROVE  /\ Len(s) \in Nat /\ DOMAIN s = 1..Len(s)
           /\ IsSequence(Append(s, x))
           /\ Len(Append(s, x)) = Len(s) + 1
           /\ DOMAIN Append(s, x) = 1..Len(s) + 1
           /\ Append(s, x)[Len(s) + 1] = x
           /\ \A i \in 1..Len(s) : Append(s, x)[i] = s[i]
<1>1. PICK V : s \in Seq(V)
  BY DEF IsSequence
<1> DEFINE W == V \cup {x}
<1>2. s \in Seq(W) /\ x \in W
  BY <1>1
<1> HIDE DEF W
<1>3. Append(s, x) \in Seq(W)
  BY <1>2
<1> QED
  BY <1>2, <1>3 DEF IsSequence

LEMMA AddToAdds ==
    ASSUME NEW d, HasActivities(d), IsExactFor(d, Live(d)),
           NEW act, IsActivity(act), ~act.deleted
    PROVE  /\ HasActivities(AddTo(d, act))
           /\ IsExactFor(AddTo(d, act), Live(AddTo(d, act)))
           /\ AddTo(d, act).acts = Append(d.acts, act)
<1> DEFINE n == Len(d.acts) + 1
           e == [d EXCEPT !.acts = Append(@, act)]
           D == AddTo(d, act)
<1>1. e = [acts |-> Append(d.acts, act), usedBy |-> d.usedBy, generatedBy |-> d.generatedBy, catalog |-> d.catalog]
  BY DEF HasActivities, IsDatabase
<1>2. e.acts = Append(d.acts, act) /\ IsDatabase(e)
  BY <1>1 DEF IsDatabase
<1>3. D = Index(e, n)
  BY DEF AddTo
<1> HIDE DEF e, D
<1>4. /\ Acts(d) = 1..Len(d.acts) /\ Len(d.acts) \in Nat
      /\ Acts(e) = Acts(d) \cup {n} /\ n \notin Acts(d)
      /\ IsSequence(e.acts)
      /\ e.acts[n] = act
      /\ \A a \in Acts(d) : e.acts[a] = d.acts[a]
  <2>1. IsSequence(d.acts)
    BY DEF HasActivities
  <2> QED
    BY <1>2, <2>1, Lengths DEF Acts
<1>5. Live(e) = Live(d) \cup {n} /\ n \notin Live(d) /\ Live(d) \subseteq Acts(d)
  BY <1>4 DEF Live
<1>6. \A a \in Live(d) : UsesOf(e, a) = UsesOf(d, a) /\ GensOf(e, a) = GensOf(d, a)
  BY <1>4, <1>5 DEF UsesOf, GensOf
<1>7. IsExactFor(e, Live(d))
  <2>1. e.usedBy = d.usedBy /\ e.generatedBy = d.generatedBy /\ e.catalog = d.catalog
    BY <1>1
  <2>2. \A q : /\ {a \in Live(d) : q \in UsesOf(e, a)} = {a \in Live(d) : q \in UsesOf(d, a)}
               /\ {a \in Live(d) : q \in GensOf(e, a)} = {a \in Live(d) : q \in GensOf(d, a)}
    BY <1>6
  <2>3. \A a, b \in Live(d) : Feeds(e, a, b) <=> Feeds(d, a, b)
    BY <1>6 DEF Feeds
  <2>4. Relations(e, Live(d)) = Relations(d, Live(d))
    BY <2>3 DEF Relations
  <2>5. /\ e.usedBy = [q \in Paths |-> {a \in Live(d) : q \in UsesOf(e, a)}]
        /\ e.generatedBy = [q \in Paths |-> {a \in Live(d) : q \in GensOf(e, a)}]
    BY <2>1, <2>2 DEF IsExactFor
  <2> QED
    BY <2>1, <2>4, <2>5 DEF IsExactFor
<1>8. \A a \in Acts(e) : IsActivity(e.acts[a])
  BY <1>4 DEF HasActivities
<1>9. \A a \in Live(d) \cup {n} : e.acts[a].plan \in Plans
  BY <1>4, <1>5, <1>8 DEF IsActivity
<1>10. /\ IsDatabase(D) /\ D.acts = e.acts
       /\ IsExactFor(D, Live(d) \cup {n})
  BY <1>2, <1>3, <1>4, <1>5, <1>7, <1>9, IndexAdds
<1>11. Live(D) = Live(e) /\ Acts(D) = Acts(e)
  BY <1>10 DEF Live, Acts
<1> QED
  BY <1>2, <1>4, <1>5, <1>8, <1>10, <1>11 DEF HasActivities, D

\* d is db with the activities of the first i plans of an order.
IsExtended(d, i) ==
    /\ HasActivities(d) /\ IsExactFor(d, Live(d))
    /\ Len(d.acts) = Len(db.acts) + i
    /\ \A a \in Acts(db) : d.acts[a] = db.acts[a]
    /\ \A a \in Acts(d) \ Acts(db) : d.acts[a].ended = Time(db) /\ ~d.acts[a].deleted

LEMMA AddAllExtends ==
    ASSUME NEW order \in Seq(Plans), NEW c, HasActivities(db), IsExactFor(db, Live(db))
    PROVE  IsExtended(AddAll(order, c), Len(order))
<1>1. Len(order) \in Nat /\ \A i \in 1..Len(order) : order[i] \in Plans
  OBVIOUS
<1>2. PICK f : AddAllBy(f, order, c) /\ AddAll(order, c) = f[Len(order)]
  BY <1>1, AddAllLoop
<1> DEFINE Q == {i \in 0..Len(order) : IsExtended(f[i], i)}
<1>3. Len(db.acts) \in Nat /\ Acts(db) = 1..Len(db.acts)
  BY Lengths DEF HasActivities, Acts
<1>4. 0 \in Q
  <2>1. f[0] = db
    BY <1>1, <1>2 DEF AddAllBy
  <2> QED
    BY <1>1, <1>3, <2>1 DEF IsExtended
<1>5. ASSUME NEW i \in 1..Len(order), i - 1 \in Q
      PROVE  i \in Q
  <2> DEFINE d == f[i - 1]
             act == FromPlan(order[i], c, Time(db))
             D == AddTo(d, act)
  <2>1. f[i] = D
    BY <1>1, <1>2 DEF AddAllBy
  <2>2. IsExtended(d, i - 1)
    BY <1>5
  <2>3. IsActivity(act) /\ ~act.deleted /\ act.ended = Time(db)
    BY <1>1, <1>3, FromPlanIsActivity DEF Time
  <2> HIDE DEF d, act, D
  <2>4. HasActivities(D) /\ IsExactFor(D, Live(D)) /\ D.acts = Append(d.acts, act)
    BY <2>2, <2>3, AddToAdds DEF IsExtended, D
  <2>5. /\ Len(d.acts) \in Nat /\ Acts(d) = 1..Len(d.acts)
        /\ Len(D.acts) = Len(d.acts) + 1
        /\ Acts(D) = 1..Len(d.acts) + 1
        /\ D.acts[Len(d.acts) + 1] = act
        /\ \A a \in Acts(d) : D.acts[a] = d.acts[a]
    <3>1. IsSequence(d.acts)
      BY <2>2 DEF IsExtended, HasActivities
    <3> QED
      BY <2>4, <3>1, Lengths DEF Acts
  <2>6. Len(d.acts) = Len(db.acts) + (i - 1) /\ Acts(db) \subseteq Acts(d)
    BY <1>3, <2>2, <2>5 DEF IsExtended
  <2>7. Len(D.acts) = Len(db.acts) + i
    BY <1>3, <2>5, <2>6
  <2>8. \A a \in Acts(db) : D.acts[a] = db.acts[a]
    BY <2>2, <2>5, <2>6 DEF IsExtended
  <2>9. ASSUME NEW a \in Acts(D) \ Acts(db)
        PROVE  D.acts[a].ended = Time(db) /\ ~D.acts[a].deleted
    <3>1. CASE a \in Acts(d)
      BY <2>2, <2>5, <3>1 DEF IsExtended
    <3>2. CASE a = Len(d.acts) + 1
      BY <2>3, <2>5, <3>2
    <3> QED
      BY <2>5, <3>1, <3>2
  <2>10. IsExtended(D, i)
    BY <2>4, <2>7, <2>8, <2>9 DEF IsExtended
  <2> QED
    BY <2>1, <2>10
<1>6. \A i \in 1..Len(order) : i - 1 \in Q => i \in Q
  BY <1>5
<1>7. 0..Len(order) \subseteq Q
  <2> HIDE DEF Q
  <2> QED
    BY <1>1, <1>4, <1>6, Induction
<1>8. Len(order) \in Q
  BY <1>1, <1>7
<1> QED
  BY <1>2, <1>8

\* e is d with the activities up to i indexed again.
IndexedUpTo(d, i) == {a \in Live(d) : a <= i}
IsReindexed(e, d, i) == IsDatabase(e) /\ e.acts = d.acts /\ IsExactFor(e, IndexedUpTo(d, i))

\* reindex_catalog finds again what the activities say.
LEMMA ReindexIsExact ==
    ASSUME NEW d, HasActivities(d)
    PROVE  LET D == Reindexed(d)
           IN  HasActivities(D) /\ D.acts = d.acts /\ IsExactFor(D, Live(D))
<1> DEFINE n == Len(d.acts)
<1>1. n \in Nat /\ Acts(d) = 1..n
  BY Lengths DEF HasActivities, Acts
<1>2. PICK f : ReindexedBy(f, d) /\ Reindexed(d) = f[n]
  BY <1>1, ReindexLoop
<1> DEFINE Q == {i \in 0..n : IsReindexed(f[i], d, i)}
<1>3. Live(d) \subseteq 1..n /\ \A a \in Live(d) : ~d.acts[a].deleted
  BY <1>1 DEF Live
<1>4. 0 \in Q
  <2>1. f[0] = NoIndex(d)
    BY <1>1, <1>2 DEF ReindexedBy
  <2>2. NoIndex(d) = [acts |-> d.acts, usedBy |-> [q \in Paths |-> {}], generatedBy |-> [q \in Paths |-> {}], catalog |-> {}]
    <3>1. IsDatabase(d)
      BY DEF HasActivities
    <3> DEFINE empty == [q \in Paths |-> {}]
    <3>2. NoIndex(d) = [d EXCEPT !.usedBy = empty, !.generatedBy = empty, !.catalog = {}]
      BY DEF NoIndex
    <3> HIDE DEF empty
    <3>3. NoIndex(d) = [acts |-> d.acts, usedBy |-> empty, generatedBy |-> empty, catalog |-> {}]
      BY <3>1, <3>2 DEF IsDatabase
    <3> QED
      BY <3>3 DEF empty
  <2>3. IndexedUpTo(d, 0) = {}
    BY <1>3 DEF IndexedUpTo
  <2>4. IsExactFor(NoIndex(d), {})
    BY <2>2 DEF IsExactFor, Relations
  <2>5. IsDatabase(NoIndex(d)) /\ NoIndex(d).acts = d.acts
    BY <2>2 DEF IsDatabase
  <2>6. IsReindexed(f[0], d, 0)
    BY <2>1, <2>3, <2>4, <2>5 DEF IsReindexed
  <2> QED
    BY <1>1, <2>6
<1>5. ASSUME NEW i \in 1..n, i - 1 \in Q
      PROVE  i \in Q
  <2>1. IsReindexed(f[i - 1], d, i - 1) /\ f[i] = Index(f[i - 1], i)
    BY <1>1, <1>2, <1>5 DEF ReindexedBy
  <2>2. \A a \in Acts(d) : d.acts[a].plan \in Plans /\ d.acts[a].deleted \in BOOLEAN
    BY DEF HasActivities, IsActivity
  <2>3. CASE d.acts[i].deleted
    <3>1. IndexedUpTo(d, i) = IndexedUpTo(d, i - 1)
      BY <1>1, <1>3, <2>3 DEF IndexedUpTo
    <3>2. f[i - 1].acts = d.acts
      BY <2>1 DEF IsReindexed
    <3>3. f[i] = f[i - 1]
      BY <2>1, <2>3, <3>2 DEF Index
    <3> QED
      BY <2>1, <3>1, <3>3 DEF IsReindexed
  <2>4. CASE ~d.acts[i].deleted
    <3>1. i \in Live(d)
      BY <1>1, <2>4 DEF Live
    <3>2. IndexedUpTo(d, i) = IndexedUpTo(d, i - 1) \cup {i} /\ i \notin IndexedUpTo(d, i - 1)
      BY <1>1, <1>3, <3>1 DEF IndexedUpTo
    <3>3. IndexedUpTo(d, i - 1) \cup {i} \subseteq Acts(d)
      BY <1>1, <1>3 DEF IndexedUpTo
    <3> DEFINE e == f[i - 1]
               L == IndexedUpTo(d, i - 1)
    <3>4. IsDatabase(e) /\ e.acts = d.acts /\ IsExactFor(e, L) /\ i \notin L
      BY <2>1, <3>2 DEF IsReindexed
    <3>5. \A b \in L \cup {i} : e.acts[b].plan \in Plans
      BY <2>2, <3>3, <3>4
    <3>6. ~e.acts[i].deleted
      BY <2>4, <3>4
    <3> HIDE DEF e, L
    <3>7. /\ IsDatabase(Index(e, i)) /\ Index(e, i).acts = e.acts
          /\ IsExactFor(Index(e, i), L \cup {i})
      BY <3>4, <3>5, <3>6, IndexAdds
    <3>8. L \cup {i} = IndexedUpTo(d, i) /\ Index(e, i) = f[i]
      BY <2>1, <3>2 DEF e, L
    <3>9. IsReindexed(f[i], d, i)
      BY <3>4, <3>7, <3>8 DEF IsReindexed
    <3> QED
      BY <3>9
  <2> QED
    BY <1>1, <2>2, <2>3, <2>4
<1>6. \A i \in 1..n : i - 1 \in Q => i \in Q
  BY <1>5
<1>7. 0..n \subseteq Q
  <2> HIDE DEF Q
  <2> QED
    BY <1>1, <1>4, <1>6, Induction
<1>8. IsReindexed(f[n], d, n)
  <2>1. n \in Q
    <3> HIDE DEF Q
    <3> QED
      BY <1>1, <1>7
  <2> QED
    BY <2>1
<1>9. IndexedUpTo(d, n) = Live(d)
  BY <1>1, <1>3 DEF IndexedUpTo
<1>10. Live(f[n]) = Live(d) /\ Acts(f[n]) = Acts(d) /\ f[n].acts = d.acts
  BY <1>8 DEF Live, Acts, IsReindexed
<1> QED
  BY <1>2, <1>8, <1>9, <1>10 DEF HasActivities, IsReindexed

-----------------------------------------------------------------------------
\* Dependencies and cycles.

LEMMA DependenciesAreInCatalog ==
    ASSUME NEW d, HasActivities(d), IsExactFor(d, Live(d))
    PROVE  Dependencies(d, Live(d)) \subseteq d.catalog
<1> SUFFICES ASSUME NEW a \in Live(d), NEW b \in Live(d), GensOf(d, a) \cap UsesOf(d, b) # {}
             PROVE  <<a, b>> \in d.catalog
  BY DEF Dependencies
<1>1. d.acts[a].plan \in Plans /\ d.acts[b].plan \in Plans
  BY DEF HasActivities, IsActivity, Live
<1>2. PICK g \in GensOf(d, a) : g \in UsesOf(d, b)
  OBVIOUS
<1>3. g # {}
  BY <1>1, WorkflowsAssumption DEF GensOf
<1>4. Feeds(d, a, b)
  BY <1>2, <1>3 DEF Feeds, AreRelated
<1>5. a # b
  BY <1>1, <1>2, PathsOfPlans DEF GensOf, UsesOf
<1> QED
  BY <1>4, <1>5 DEF IsExactFor, Relations

\* Fewer edges have no more cycles.
LEMMA FewerCycles ==
    ASSUME NEW edges, NEW more, edges \subseteq more, Cyclic(edges)
    PROVE  Cyclic(more)
<1>1. PICK a : a \in Reach(edges, a)
  BY CyclicNode
<1>2. a \in Reach(more, a)
  BY <1>1, ReachGrows
<1> QED
  BY <1>2, CyclicNode

\* A cycle that an execution closes goes through a new activity n: all of it is
\* downstream of n, where ActivityGateway.add looks for it.
LEMMA NewCyclesAreFound ==
    ASSUME NEW d, NEW k \in Nat, IsExtended(d, k), HasActivities(db),
           \A n \in Acts(d) \ Acts(db) : Check(d, n),
           DependenciesAreAcyclic
    PROVE  ~Cyclic(Dependencies(d, Live(d)))
<1> DEFINE edges == Dependencies(d, Live(d))
<1>1. SUFFICES ASSUME NEW a, a \in Reach(edges, a)
               PROVE  FALSE
  <2> HIDE DEF edges
  <2>1. ~Cyclic(edges)
    BY <1>1, CyclicNode
  <2> QED
    BY <2>1 DEF edges
<1> DEFINE C == Component(edges, a)
           cycle == Within(edges, C)
<1>2. a \in Reach(cycle, a)
  BY <1>1, CycleWithin
<1>3. edges \subseteq d.catalog
  BY DependenciesAreInCatalog DEF IsExtended
<1>4. C \subseteq Live(d)
  <2>1. C \subseteq Ends(edges)
    BY ReachEnds DEF Component
  <2> QED
    BY <2>1 DEF Ends, Dependencies
<1>5. CASE \E n \in C : n \notin Acts(db)
  <2>1. PICK n \in C : n \notin Acts(db)
    BY <1>5
  <2>2. n \in Acts(d) \ Acts(db)
    BY <1>4, <2>1 DEF Live
  <2> DEFINE related == Upstream(d, n) \cup Downstream(d, n)
  <2>3. ~Cyclic(Dependencies(d, related))
    BY <2>2 DEF Check
  <2>4. C \subseteq Reach(edges, n)
    <3> SUFFICES ASSUME NEW x \in C PROVE x \in Reach(edges, n)
      OBVIOUS
    <3>1. x \in Reach(edges, a) /\ a \in Reach(edges, n)
      BY <2>1 DEF Component
    <3> HIDE DEF edges, C
    <3> QED
      BY <3>1, ReachIsTransitive
  <2>5. C \subseteq related
    <3>1. Reach(edges, n) \subseteq Reach(d.catalog, n)
      <4> HIDE DEF edges
      <4> QED
        BY <1>3, ReachGrows
    <3> HIDE DEF edges, C
    <3> QED
      BY <2>4, <3>1 DEF Downstream
  <2>6. cycle \subseteq Dependencies(d, related)
    <3> HIDE DEF C, related
    <3> QED
      BY <2>5 DEF Within, Dependencies
  <2> HIDE DEF cycle, related
  <2>7. Cyclic(cycle)
    BY <1>2, CyclicNode
  <2> QED
    BY <2>3, <2>6, <2>7, FewerCycles
<1>6. CASE C \subseteq Acts(db)
  <2>1. \A x \in C : d.acts[x] = db.acts[x]
    BY <1>6 DEF IsExtended
  <2>2. C \subseteq Live(db)
    BY <1>4, <1>6, <2>1 DEF Live
  <2>3. \A x \in C : GensOf(d, x) = GensOf(db, x) /\ UsesOf(d, x) = UsesOf(db, x)
    BY <2>1 DEF GensOf, UsesOf
  <2>4. cycle \subseteq Dependencies(db, Live(db))
    <3> HIDE DEF C
    <3>1. ASSUME NEW x \in C, NEW y \in C, <<x, y>> \in edges
          PROVE  <<x, y>> \in Dependencies(db, Live(db))
      BY <2>2, <2>3, <3>1 DEF Dependencies
    <3>2. \A e \in cycle : e = <<e[1], e[2]>> /\ e[1] \in C /\ e[2] \in C /\ e \in edges
      BY DEF Within, Dependencies
    <3> HIDE DEF cycle, edges
    <3> QED
      BY <3>1, <3>2
  <2> HIDE DEF cycle
  <2>5. Cyclic(cycle)
    BY <1>2, CyclicNode
  <2> QED
    BY <2>4, <2>5, FewerCycles DEF DependenciesAreAcyclic
<1> QED
  BY <1>5, <1>6

-----------------------------------------------------------------------------
\* The invariant of the database and the steps that change it.

DatabaseInv ==
    /\ HasActivities(db)
    /\ IsExactFor(db, Live(db))
    /\ DependenciesAreAcyclic
    /\ Len(db.acts) <= MaxActivities
    /\ \A a \in Acts(db) : db.acts[a].ended \in 1..MaxActivities

LEMMA ActsOfDatabase ==
    ASSUME NEW d, HasActivities(d)
    PROVE  /\ Len(d.acts) \in Nat /\ Acts(d) = 1..Len(d.acts)
           /\ Live(d) \subseteq Acts(d)
           /\ \A a \in Acts(d) : /\ d.acts[a].plan \in Plans
                                 /\ UsesOf(d, a) \subseteq Paths /\ GensOf(d, a) \subseteq Paths
BY Lengths, PathsOfPlans DEF HasActivities, IsActivity, Acts, Live, UsesOf, GensOf

LEMMA FilesAreWritten ==
    ASSUME NEW order \in Seq(Plans), NEW c, DOMAIN c = Files
    PROVE  DOMAIN WriteAll(order, c) = Files
<1>1. Len(order) \in Nat
  OBVIOUS
<1>2. PICK f : WriteAllBy(f, order, c) /\ WriteAll(order, c) = f[Len(order)]
  BY <1>1, WriteAllLoop
<1>3. CASE Len(order) = 0
  BY <1>2, <1>3 DEF WriteAllBy
<1>4. CASE Len(order) # 0
  <2>1. f[Len(order)] = Write(order[Len(order)], f[Len(order) - 1])
    BY <1>1, <1>2, <1>4 DEF WriteAllBy
  <2> QED
    BY <1>2, <2>1 DEF Write
<1> QED
  BY <1>3, <1>4

LEMMA ExecutionKeepsDatabase ==
    ASSUME NEW order \in Seq(Plans), NEW command, DatabaseInv, DOMAIN content = Files,
           ExecuteGraph(order, command)
    PROVE  DatabaseInv' /\ DOMAIN content' = Files
<1> DEFINE c == WriteAll(order, content)
           d == AddAll(order, c)
<1>1. /\ Len(d.acts) <= MaxActivities
      /\ \A a \in Len(db.acts) + 1 .. Len(d.acts) : Check(d, a)
      /\ content' = c /\ db' = d
  BY DEF ExecuteGraph
<1>2. IsExtended(d, Len(order))
  BY AddAllExtends DEF DatabaseInv
<1> HIDE DEF c, d
<1>3. DOMAIN c = Files
  BY FilesAreWritten DEF c
<1>4. /\ Len(db.acts) \in Nat /\ Acts(db) = 1..Len(db.acts)
      /\ Len(d.acts) \in Nat /\ Acts(d) = 1..Len(d.acts)
  BY <1>2, ActsOfDatabase DEF IsExtended, DatabaseInv
<1>5. Acts(d) \ Acts(db) = Len(db.acts) + 1 .. Len(d.acts)
  BY <1>4
<1>6. Len(order) \in Nat
  OBVIOUS
<1>7. ~Cyclic(Dependencies(d, Live(d)))
  BY <1>1, <1>2, <1>5, <1>6, NewCyclesAreFound DEF DatabaseInv
<1>8. ASSUME NEW a \in Acts(d)
      PROVE  d.acts[a].ended \in 1..MaxActivities
  <2>1. CASE a \in Acts(db)
    BY <1>2, <2>1 DEF IsExtended, DatabaseInv
  <2>2. CASE a \notin Acts(db)
    <3>1. d.acts[a].ended = Len(db.acts) + 1
      BY <1>2, <2>2 DEF IsExtended, Time
    <3>2. Len(db.acts) + 1 <= MaxActivities
      BY <1>1, <1>4, <2>2, WorkflowsAssumption
    <3> QED
      BY <1>4, <3>1, <3>2, WorkflowsAssumption
  <2> QED
    BY <2>1, <2>2
<1>9. DatabaseInv'
  BY <1>1, <1>2, <1>7, <1>8 DEF DatabaseInv, DependenciesAreAcyclic, IsExtended
<1> QED
  BY <1>1, <1>3, <1>9

\* A reverted activity is deleted, and with it everything the indexes have of it.
LEMMA RevertKeepsDatabase ==
    ASSUME DatabaseInv, NEW a \in Acts(db), ~db.acts[a].deleted,
           db' = [Unindex(db, a) EXCEPT !.acts[a].deleted = TRUE]
    PROVE  /\ DatabaseInv'
           /\ \A b : (b \in Live(db)') <=> (b \in Live(db) /\ b # a)
           /\ \A b \in Acts(db) : /\ db'.acts[b].plan = db.acts[b].plan /\ db'.acts[b].ended = db.acts[b].ended
                                  /\ db'.acts[b].uses = db.acts[b].uses /\ db'.acts[b].gens = db.acts[b].gens
           /\ Acts(db)' = Acts(db)
<1> DEFINE D == Unindex(db, a)
           L == Live(db) \ {a}
<1>1. HasActivities(db) /\ IsExactFor(db, Live(db)) /\ a \in Live(db)
  BY DEF DatabaseInv, Live
<1>2. /\ Len(db.acts) \in Nat /\ Acts(db) = 1..Len(db.acts)
      /\ Live(db) \subseteq Acts(db)
      /\ \A b \in Acts(db) : db.acts[b].plan \in Plans
  BY <1>1, ActsOfDatabase
<1>3. IsDatabase(D) /\ D.acts = db.acts /\ IsExactFor(D, L)
  <2>1. IsDatabase(db)
    BY <1>1 DEF HasActivities
  <2>2. \A b \in Live(db) : db.acts[b].plan \in Plans
    BY <1>2
  <2> QED
    BY <1>1, <2>1, <2>2, UnindexRemoves
<1>4. db' = [D EXCEPT !.acts[a].deleted = TRUE]
  OBVIOUS
<1> HIDE DEF D, L
<1> DEFINE act == [db.acts[a] EXCEPT !.deleted = TRUE]
<1>5. db' = [acts |-> [db.acts EXCEPT ![a] = act], usedBy |-> D.usedBy, generatedBy |-> D.generatedBy, catalog |-> D.catalog]
  <2> DEFINE more == [D.acts EXCEPT ![a].deleted = TRUE]
  <2>1. db' = [D EXCEPT !.acts = more]
    BY <1>4
  <2>2. more = [db.acts EXCEPT ![a] = act]
    BY <1>3
  <2> HIDE DEF more
  <2>3. db' = [acts |-> more, usedBy |-> D.usedBy, generatedBy |-> D.generatedBy, catalog |-> D.catalog]
    BY <1>3, <2>1 DEF IsDatabase
  <2> QED
    BY <2>2, <2>3
<1>6. IsActivity(db.acts[a])
  BY <1>1 DEF HasActivities
<1>7. /\ IsActivity(act) /\ act.deleted = TRUE
      /\ act.plan = db.acts[a].plan /\ act.ended = db.acts[a].ended
      /\ act.uses = db.acts[a].uses /\ act.gens = db.acts[a].gens
  <2>1. act = [plan |-> db.acts[a].plan, ended |-> db.acts[a].ended, deleted |-> TRUE,
               uses |-> db.acts[a].uses, gens |-> db.acts[a].gens]
    <3> DEFINE old == db.acts[a]
    <3>1. act = [old EXCEPT !.deleted = TRUE] /\ IsActivity(old)
      BY <1>6
    <3> HIDE DEF act, old
    <3>2. act = [plan |-> old.plan, ended |-> old.ended, deleted |-> TRUE, uses |-> old.uses, gens |-> old.gens]
      BY <3>1 DEF IsActivity
    <3> QED
      BY <3>2 DEF old
  <2> HIDE DEF act
  <2> QED
    BY <1>6, <2>1 DEF IsActivity
<1> HIDE DEF act
<1>8. /\ db'.acts = [db.acts EXCEPT ![a] = act]
      /\ db'.usedBy = D.usedBy /\ db'.generatedBy = D.generatedBy /\ db'.catalog = D.catalog
      /\ IsDatabase(db')
  <2> DEFINE changed == [db.acts EXCEPT ![a] = act]
             e == db'
  <2>1. e = [acts |-> changed, usedBy |-> D.usedBy, generatedBy |-> D.generatedBy, catalog |-> D.catalog]
    BY <1>5
  <2> HIDE DEF changed, e
  <2>2. /\ e.acts = changed /\ e.usedBy = D.usedBy /\ e.generatedBy = D.generatedBy /\ e.catalog = D.catalog
        /\ IsDatabase(e)
    BY <2>1 DEF IsDatabase
  <2> QED
    BY <2>2 DEF changed, e
<1>9. /\ IsSequence(db'.acts) /\ Len(db'.acts) = Len(db.acts)
      /\ Acts(db)' = Acts(db)
      /\ db'.acts[a] = act
      /\ \A b \in Acts(db) : b # a => db'.acts[b] = db.acts[b]
  <2>1. PICK V : db.acts \in Seq(V)
    BY <1>1 DEF HasActivities, IsSequence
  <2> DEFINE W == V \cup {act}
  <2>2. db.acts \in Seq(W) /\ act \in W
    BY <2>1
  <2> HIDE DEF W
  <2>3. db'.acts \in Seq(W) /\ Len(db'.acts) = Len(db.acts)
    <3> DEFINE s == db.acts
               t == [s EXCEPT ![a] = act]
    <3>1. s \in [1..Len(s) -> W] /\ Len(s) \in Nat
      BY <2>2
    <3>2. t \in [1..Len(s) -> W]
      BY <2>2, <3>1
    <3> HIDE DEF s, t
    <3>3. t \in Seq(W) /\ Len(t) = Len(s)
      BY <3>1, <3>2
    <3> QED
      BY <1>8, <3>3 DEF s, t
  <2>4. DOMAIN db'.acts = 1..Len(db.acts)
    BY <2>3
  <2> QED
    BY <1>2, <1>8, <2>2, <2>3, <2>4 DEF IsSequence, Acts
<1>10. \A b \in Acts(db) : /\ db'.acts[b].plan = db.acts[b].plan /\ db'.acts[b].ended = db.acts[b].ended
                           /\ db'.acts[b].uses = db.acts[b].uses /\ db'.acts[b].gens = db.acts[b].gens
                           /\ IsActivity(db'.acts[b])
  BY <1>1, <1>7, <1>9 DEF HasActivities
<1>11. Live(db)' = L
  BY <1>1, <1>7, <1>9 DEF Live, L
<1>12. HasActivities(db)'
  BY <1>8, <1>9, <1>10 DEF HasActivities
<1>13. \A b \in Live(db) : /\ UsesOf(db', b) = UsesOf(D, b) /\ GensOf(db', b) = GensOf(D, b)
                           /\ UsesOf(db', b) = UsesOf(db, b) /\ GensOf(db', b) = GensOf(db, b)
  BY <1>2, <1>3, <1>10 DEF UsesOf, GensOf
<1>14. IsExactFor(db', L)
  <2>0. L \subseteq Live(db)
    BY DEF L
  <2>1. \A q : /\ {b \in L : q \in UsesOf(db', b)} = {b \in L : q \in UsesOf(D, b)}
               /\ {b \in L : q \in GensOf(db', b)} = {b \in L : q \in GensOf(D, b)}
    BY <1>13, <2>0
  <2>2. \A x, y \in L : Feeds(db', x, y) <=> Feeds(D, x, y)
    BY <1>13, <2>0 DEF Feeds
  <2>3. Relations(db', L) = Relations(D, L)
    BY <2>2 DEF Relations
  <2>4. /\ db'.usedBy = [q \in Paths |-> {b \in L : q \in UsesOf(db', b)}]
        /\ db'.generatedBy = [q \in Paths |-> {b \in L : q \in GensOf(db', b)}]
    BY <1>3, <1>8, <2>1 DEF IsExactFor
  <2> QED
    BY <1>3, <1>8, <2>3, <2>4 DEF IsExactFor
<1>15. ~Cyclic(Dependencies(db', L))
  <2>1. Dependencies(db', L) \subseteq Dependencies(db, Live(db))
    BY <1>13 DEF Dependencies, L
  <2> QED
    BY <2>1, FewerCycles DEF DatabaseInv, DependenciesAreAcyclic
<1>16. DatabaseInv'
  BY <1>2, <1>9, <1>10, <1>11, <1>12, <1>14, <1>15 DEF DatabaseInv, DependenciesAreAcyclic
<1> QED
  BY <1>9, <1>10, <1>11, <1>16 DEF L

LEMMA ReindexKeepsDatabase ==
    ASSUME DatabaseInv, ReindexCatalog
    PROVE  DatabaseInv'
<1> DEFINE D == Reindexed(db)
<1>1. HasActivities(D) /\ D.acts = db.acts /\ IsExactFor(D, Live(D))
  BY ReindexIsExact DEF DatabaseInv
<1>2. db' = D
  BY DEF ReindexCatalog
<1> HIDE DEF D
<1>3. Live(D) = Live(db) /\ Acts(D) = Acts(db)
  BY <1>1 DEF Live, Acts
<1>4. Dependencies(D, Live(D)) = Dependencies(db, Live(db))
  BY <1>1, <1>3 DEF Dependencies, UsesOf, GensOf
<1> QED
  BY <1>1, <1>2, <1>3, <1>4 DEF DatabaseInv, DependenciesAreAcyclic

-----------------------------------------------------------------------------
\* What an update or a rerun executes: plans of activities that there are.

LEMMA CatalogOfActs ==
    ASSUME DatabaseInv
    PROVE  /\ \A e \in db.catalog : e[1] \in Acts(db) /\ e[2] \in Acts(db)
           /\ \A q \in Paths : db.generatedBy[q] \subseteq Acts(db)
           /\ \A a : Downstream(db, a) # {} => a \in Acts(db)
           /\ \A a : Downstream(db, a) \subseteq Acts(db) /\ Upstream(db, a) \subseteq Acts(db)
<1>1. HasActivities(db) /\ IsExactFor(db, Live(db))
  BY DEF DatabaseInv
<1>2. Live(db) \subseteq Acts(db)
  BY <1>1, ActsOfDatabase
<1>3. \A e \in db.catalog : e[1] \in Acts(db) /\ e[2] \in Acts(db)
  BY <1>1, <1>2 DEF IsExactFor, Relations
<1>4. \A q \in Paths : db.generatedBy[q] \subseteq Acts(db)
  BY <1>1, <1>2 DEF IsExactFor
<1>5. ASSUME NEW a PROVE Downstream(db, a) \subseteq Acts(db) /\ Upstream(db, a) \subseteq Acts(db)
  <2>1. Downstream(db, a) \subseteq Ends(db.catalog)
    BY ReachEnds DEF Downstream
  <2>2. Upstream(db, a) \subseteq Ends({<<e[2], e[1]>> : e \in db.catalog})
    BY ReachEnds DEF Upstream
  <2> QED
    BY <1>3, <2>1, <2>2 DEF Ends
<1>6. ASSUME NEW a, Downstream(db, a) # {}
      PROVE  a \in Acts(db)
  <2>1. CASE \E e \in db.catalog : e[1] = a
    BY <1>3, <2>1
  <2>2. CASE \A e \in db.catalog : e[1] # a
    <3>1. IsClosed(db.catalog, a, {})
      BY <2>2 DEF IsClosed
    <3> QED
      BY <1>6, <3>1, ReachLeast DEF Downstream
  <2> QED
    BY <2>1, <2>2
<1> QED
  BY <1>3, <1>4, <1>5, <1>6

LEMMA UpdateChoosesActs ==
    ASSUME DatabaseInv, NEW ignoreDeleted
    PROVE  ToUpdate(db, content, ignoreDeleted) \subseteq Acts(db)
<1> DEFINE ends == {a \in Acts(db) : ignoreDeleted => HasOutput(db, content, a)}
           from(s) == {s} \cup Reach(ValidEdges(db), s)
           downstream == DownstreamGenerating(db, content, Modified(db, content), ignoreDeleted)
<1>1. downstream = UNION {{a \in from(s) : ({a} \cup Downstream(db, a)) \cap ends # {}} : s \in Modified(db, content)}
  BY DEF DownstreamGenerating
<1>2. \A a : ({a} \cup Downstream(db, a)) \cap ends # {} => a \in Acts(db)
  BY CatalogOfActs
<1> HIDE DEF ends, from
<1>3. downstream \subseteq Acts(db)
  <2> HIDE DEF downstream
  <2> QED
    BY <1>1, <1>2
<1> QED
  BY <1>3 DEF ToUpdate, Recent

LEMMA RerunChoosesActs ==
    ASSUME DatabaseInv, NEW paths \in SUBSET Paths
    PROVE  ActivitiesUntil(paths) \subseteq Acts(db)
<1> DEFINE latest == {a \in UNION {db.generatedBy[q] : q \in paths} :
                         \E q \in paths : a \in db.generatedBy[q] /\ \A b \in db.generatedBy[q] : ~Newer(db, b, a)}
<1>1. latest \subseteq Acts(db)
  BY CatalogOfActs
<1>2. UNION {Upstream(db, a) : a \in latest} \subseteq Acts(db)
  BY CatalogOfActs
<1>3. ActivitiesUntil(paths) \subseteq latest \cup UNION {Upstream(db, a) : a \in latest}
  BY DEF ActivitiesUntil, Recent
<1> QED
  BY <1>1, <1>2, <1>3

\* An update or a rerun sorts the steps by the paths that they share and then
\* executes them in an order of their graph.
IsStepList(steps) ==
    /\ steps \in Seq(Plans)
    /\ \A i, j \in DOMAIN steps : Gens[steps[i]] \cap Uses[steps[j]] # {} => i < j
IsOrderOfGraph(order) == \E steps : IsStepList(steps) /\ order \in Orders(steps)

LEMMA RangeOfSteps ==
    ASSUME NEW steps \in Seq(Plans)
    PROVE  /\ Len(steps) \in Nat /\ DOMAIN steps = 1..Len(steps)
           /\ Range(steps) \in SUBSET Plans /\ IsFiniteSet(Range(steps)) /\ Cardinality(Range(steps)) \in Nat
<1>1. Len(steps) \in Nat /\ DOMAIN steps = 1..Len(steps) /\ Range(steps) \in SUBSET Plans
  BY DEF Range
<1>2. steps \in Surjection(1..Len(steps), Range(steps))
  BY <1>1 DEF Range, Surjection
<1>3. IsFiniteSet(1..Len(steps))
  BY <1>1, FS_Interval
<1>4. IsFiniteSet(Range(steps))
  BY <1>2, <1>3, FS_Surjection
<1> QED
  BY <1>1, <1>4, FS_CardinalityType

LEMMA SortedIsStepList ==
    ASSUME DatabaseInv, NEW acts \in SUBSET Acts(db), NEW kept \in SUBSET acts,
           NEW steps \in SortedSteps(db, acts, kept)
    PROVE  IsStepList(steps)
<1> DEFINE edges == Dependencies(db, acts) \cup Order(db, acts)
<1>1. PICK list \in SetToSeqs(kept) : Sorted(edges, list) /\ steps = StepsOf(db, list)
  BY DEF SortedSteps
<1>2. /\ Len(db.acts) \in Nat /\ Acts(db) = 1..Len(db.acts)
      /\ \A a \in Acts(db) : db.acts[a].plan \in Plans
  BY ActsOfDatabase DEF DatabaseInv
<1>3. IsFiniteSet(kept) /\ Cardinality(kept) \in Nat
  <2>1. IsFiniteSet(1..Len(db.acts))
    BY <1>2, FS_Interval
  <2>2. IsFiniteSet(kept)
    BY <1>2, <2>1, FS_Subset
  <2> QED
    BY <2>2, FS_CardinalityType
<1>4. list \in [1..Cardinality(kept) -> kept]
  BY <1>1 DEF SetToSeqs
<1>5. steps = [k \in 1..Cardinality(kept) |-> db.acts[list[k]].plan]
  BY <1>1, <1>4 DEF StepsOf
<1>6. steps \in Seq(Plans) /\ DOMAIN steps = 1..Cardinality(kept)
  BY <1>2, <1>3, <1>4, <1>5
<1>7. ASSUME NEW i \in DOMAIN steps, NEW j \in DOMAIN steps, Gens[steps[i]] \cap Uses[steps[j]] # {}
      PROVE  i < j
  <2>1. list[i] \in acts /\ list[j] \in acts
    BY <1>4, <1>6
  <2>2. GensOf(db, list[i]) \cap UsesOf(db, list[j]) # {}
    BY <1>5, <1>6, <1>7 DEF GensOf, UsesOf
  <2>3. <<list[i], list[j]>> \in edges
    BY <2>1, <2>2 DEF Dependencies
  <2> HIDE DEF edges
  <2> QED
    BY <1>1, <1>4, <1>6, <2>3 DEF Sorted
<1> QED
  BY <1>6, <1>7 DEF IsStepList

LEMMA SortedExecution ==
    ASSUME DatabaseInv, DOMAIN content = Files, NEW acts \in SUBSET Acts(db), NEW parents, NEW command,
           SortAndExecute(acts, parents, command)
    PROVE  \E order \in Seq(Plans) : IsOrderOfGraph(order) /\ ExecuteGraph(order, command)
<1> DEFINE kept == acts \ Overridden(db, acts, parents)
<1>1. PICK steps \in SortedSteps(db, acts, kept) : \E order \in Orders(steps) : ExecuteGraph(order, command)
  BY DEF SortAndExecute
<1>2. kept \in SUBSET acts
  OBVIOUS
<1> HIDE DEF kept
<1>3. IsStepList(steps)
  BY <1>1, <1>2, SortedIsStepList
<1>4. PICK order \in Orders(steps) : ExecuteGraph(order, command)
  BY <1>1
<1>5. order \in Seq(Plans)
  <2>1. Range(steps) \in SUBSET Plans /\ Cardinality(Range(steps)) \in Nat
    BY <1>3, RangeOfSteps DEF IsStepList
  <2>2. order \in [1..Cardinality(Range(steps)) -> Range(steps)]
    BY <1>4 DEF Orders, SetToSeqs
  <2> QED
    BY <2>1, <2>2
<1> QED
  BY <1>3, <1>4, <1>5 DEF IsOrderOfGraph

\* Every command is an execution in some order, or one of the other actions.
LEMMA Steps ==
    ASSUME DatabaseInv, DOMAIN content = Files, Next
    PROVE  \/ \E order \in Seq(Plans) : \E command \in {"execute", "update", "updateExisting", "rerun"} :
                  (command = "execute" \/ IsOrderOfGraph(order)) /\ ExecuteGraph(order, command)
           \/ \E p \in Plans : RemovePlan(p)
           \/ \E a \in Acts(db) : \E deletePlan, force, metadataOnly \in BOOLEAN :
                  Revert(a, deletePlan, force, metadataOnly)
           \/ ReindexCatalog
           \/ \E f \in Files : Edit(f, <<edits + 1>>) \/ Edit(f, Absent)
<1>1. ASSUME NEW p \in Plans, Run(p) \/ Execute(p)
      PROVE  <<p>> \in Seq(Plans) /\ ExecuteGraph(<<p>>, "execute")
  BY <1>1 DEF Run, Execute
<1>2. ASSUME NEW paths \in SUBSET Paths, Rerun(paths)
      PROVE  \E order \in Seq(Plans) : IsOrderOfGraph(order) /\ ExecuteGraph(order, "rerun")
  BY <1>2, RerunChoosesActs, SortedExecution DEF Rerun
<1>3. ASSUME NEW ignoreDeleted \in BOOLEAN, Update(ignoreDeleted)
      PROVE  \E order \in Seq(Plans) :
                 IsOrderOfGraph(order) /\ (ExecuteGraph(order, "update") \/ ExecuteGraph(order, "updateExisting"))
  <2> DEFINE acts == ToUpdate(db, content, ignoreDeleted)
             command == IF ignoreDeleted THEN "updateExisting" ELSE "update"
  <2>1. acts \in SUBSET Acts(db) /\ SortAndExecute(acts, FALSE, command)
    BY <1>3, UpdateChoosesActs DEF Update
  <2> HIDE DEF acts
  <2>2. \E order \in Seq(Plans) : IsOrderOfGraph(order) /\ ExecuteGraph(order, command)
    <3> HIDE DEF command
    <3> QED
      BY <2>1, SortedExecution
  <2> QED
    BY <2>2
<1>4. ASSUME NEW paths \in SUBSET {q \in Paths : db.generatedBy[q] # {}}, Cardinality(paths) \in 1..2, Rerun(paths)
      PROVE  \E order \in Seq(Plans) : IsOrderOfGraph(order) /\ ExecuteGraph(order, "rerun")
  <2>1. paths \in SUBSET Paths
    OBVIOUS
  <2> QED
    BY <1>2, <1>4, <2>1
<1> QED
  BY <1>1, <1>3, <1>4 DEF Next

-----------------------------------------------------------------------------
\* The invariant of the whole.

WorkflowInv ==
    /\ DatabaseInv
    /\ DOMAIN content = Files
    /\ removed \subseteq Plans
    /\ edits \in 0..MaxEdits

LEMMA StartsWell == Init => WorkflowInv
<1> SUFFICES ASSUME Init PROVE WorkflowInv
  OBVIOUS
<1> DEFINE empty == [q \in Paths |-> {}]
<1>1. db = [acts |-> <<>>, usedBy |-> empty, generatedBy |-> empty, catalog |-> {}]
  BY DEF Init
<1>2. db.acts = <<>> /\ db.usedBy = empty /\ db.generatedBy = empty /\ db.catalog = {} /\ IsDatabase(db)
  <2> HIDE DEF empty
  <2> QED
    BY <1>1 DEF IsDatabase
<1>3. <<>> \in Seq({}) /\ Len(<<>>) = 0
  OBVIOUS
<1>4. Acts(db) = {} /\ Live(db) = {} /\ IsSequence(db.acts)
  BY <1>2, <1>3 DEF Acts, Live, IsSequence
<1>5. HasActivities(db)
  BY <1>2, <1>4 DEF HasActivities
<1>6. IsExactFor(db, Live(db))
  BY <1>2, <1>4 DEF IsExactFor, Relations
<1>7. ~Cyclic(Dependencies(db, Live(db)))
  BY <1>4 DEF Dependencies, Cyclic
<1>8. DatabaseInv
  BY <1>2, <1>3, <1>4, <1>5, <1>6, <1>7, WorkflowsAssumption DEF DatabaseInv, DependenciesAreAcyclic
<1> QED
  BY <1>8, WorkflowsAssumption DEF Init, WorkflowInv

LEMMA StepsKeepInv == WorkflowInv /\ [Next]_vars => WorkflowInv'
<1> SUFFICES ASSUME WorkflowInv, [Next]_vars PROVE WorkflowInv'
  OBVIOUS
<1> USE DEF WorkflowInv
<1>1. ASSUME NEW order \in Seq(Plans), NEW command, ExecuteGraph(order, command)
      PROVE  WorkflowInv'
  <2>1. DatabaseInv' /\ DOMAIN content' = Files
    BY <1>1, ExecutionKeepsDatabase
  <2>2. removed' = removed /\ edits' = edits
    BY <1>1 DEF ExecuteGraph
  <2> QED
    BY <2>1, <2>2
<1>2. ASSUME NEW p \in Plans, RemovePlan(p)
      PROVE  WorkflowInv'
  <2>1. db' = db /\ content' = content /\ edits' = edits /\ removed' = removed \cup {p}
    BY <1>2 DEF RemovePlan
  <2> QED
    BY <2>1 DEF DatabaseInv, DependenciesAreAcyclic
<1>3. ASSUME NEW a \in Acts(db), NEW deletePlan \in BOOLEAN, NEW force \in BOOLEAN, NEW metadataOnly \in BOOLEAN,
             Revert(a, deletePlan, force, metadataOnly)
      PROVE  WorkflowInv'
  <2>1. DatabaseInv'
    BY <1>3, RevertKeepsDatabase DEF Revert
  <2>2. db.acts[a].plan \in Plans
    BY ActsOfDatabase DEF DatabaseInv
  <2>3. removed' \subseteq Plans /\ edits' = edits
    BY <1>3, <2>2 DEF Revert
  <2>4. DOMAIN content' = Files
    <3>1. CASE metadataOnly
      BY <1>3, <3>1 DEF Revert
    <3>2. CASE ~metadataOnly
      <4> DEFINE gone == IF deletePlan /\ ~UsedByOthers(a) THEN removed \cup {db.acts[a].plan} ELSE removed
                 path(f) == CHOOSE path \in GensOf(db, a) : f \in path
      <4>1. content' = [f \in Files |-> IF \E g \in GensOf(db, a) : f \in g
                                        THEN Reverted(a, path(f), gone)[f] ELSE content[f]]
        BY <1>3, <3>2 DEF Revert
      <4> HIDE DEF gone, path
      <4> QED
        BY <4>1
    <3> QED
      BY <3>1, <3>2
  <2> QED
    BY <2>1, <2>3, <2>4
<1>4. CASE ReindexCatalog
  <2>1. DatabaseInv'
    BY <1>4, ReindexKeepsDatabase
  <2> QED
    BY <1>4, <2>1 DEF ReindexCatalog
<1>5. ASSUME NEW f \in Files, NEW value, Edit(f, value)
      PROVE  WorkflowInv'
  <2>1. db' = db /\ removed' = removed /\ edits' = edits + 1 /\ edits < MaxEdits /\ content' = [content EXCEPT ![f] = value]
    BY <1>5 DEF Edit
  <2>2. edits' \in 0..MaxEdits
    BY <2>1, WorkflowsAssumption
  <2>3. DOMAIN content' = Files
    BY <2>1
  <2> QED
    BY <2>1, <2>2, <2>3 DEF DatabaseInv, DependenciesAreAcyclic
<1>6. CASE UNCHANGED vars
  BY <1>6 DEF vars, DatabaseInv, DependenciesAreAcyclic
<1>7. CASE Next
  <2> HIDE DEF WorkflowInv
  <2>1. DatabaseInv /\ DOMAIN content = Files
    BY DEF WorkflowInv
  <2> QED
    BY <1>1, <1>2, <1>3, <1>4, <1>5, <1>7, <2>1, Steps
<1> QED
  BY <1>6, <1>7

LEMMA InvHolds == Spec => []WorkflowInv
BY StartsWell, StepsKeepInv, PTL DEF Spec

\* Activities, indexes and the catalog keep their types (TypeOK): an execution
\* adds activities of known plans with the entities they used and generated.
THEOREM TypeCorrect == Spec => []TypeOK
<1>1. WorkflowInv => TypeOK
  <2> SUFFICES ASSUME WorkflowInv PROVE TypeOK
    OBVIOUS
  <2>1. HasActivities(db) /\ IsExactFor(db, Live(db)) /\ Live(db) \subseteq Acts(db)
    BY ActsOfDatabase DEF WorkflowInv, DatabaseInv
  <2>2. ASSUME NEW a \in Acts(db)
        PROVE  /\ db.acts[a].plan \in Plans /\ db.acts[a].deleted \in BOOLEAN
               /\ db.acts[a].ended \in 1..MaxActivities
               /\ DOMAIN db.acts[a].uses = UsesOf(db, a) /\ DOMAIN db.acts[a].gens = GensOf(db, a)
    BY <2>1 DEF WorkflowInv, DatabaseInv, HasActivities, IsActivity, UsesOf, GensOf
  <2>3. db.usedBy \in [Paths -> SUBSET Acts(db)] /\ db.generatedBy \in [Paths -> SUBSET Acts(db)]
    BY <2>1 DEF IsExactFor
  <2>4. db.catalog \subseteq Acts(db) \X Acts(db)
    BY <2>1 DEF IsExactFor, Relations
  <2> QED
    BY <2>2, <2>3, <2>4 DEF TypeOK, WorkflowInv, DatabaseInv
<1> QED
  BY InvHolds, <1>1, PTL

\* The indexes and the catalog hold exactly the activities that are not deleted
\* and their relations (CatalogIsExact): _index_activity and _unindex_activity
\* take and give back the same relations, reindex_catalog finds them again.
THEOREM CatalogStaysExact == Spec => []CatalogIsExact
<1>1. WorkflowInv => CatalogIsExact
  <2> SUFFICES ASSUME WorkflowInv PROVE CatalogIsExact
    OBVIOUS
  <2>1. IsExactFor(db, Live(db))
    BY DEF WorkflowInv, DatabaseInv
  <2>2. \A q \in Paths : /\ db.usedBy[q] = {a \in Live(db) : q \in UsesOf(db, a)}
                         /\ db.generatedBy[q] = {a \in Live(db) : q \in GensOf(db, a)}
    BY <2>1 DEF IsExactFor
  <2>3. db.catalog = {e \in Live(db) \X Live(db) :
                         e[1] # e[2] /\ \E g \in GensOf(db, e[1]) : \E u \in UsesOf(db, e[2]) : AreRelated(g, u)}
    BY <2>1 DEF IsExactFor, Relations, Feeds
  <2> QED
    BY <2>2, <2>3 DEF CatalogIsExact
<1> QED
  BY InvHolds, <1>1, PTL

\* No activity depends on itself through others (DependenciesAreAcyclic),
\* although ActivityGateway.add looks for cycles only around new activities.
THEOREM CyclesAreRefused == Spec => []DependenciesAreAcyclic
<1>1. WorkflowInv => DependenciesAreAcyclic
  BY DEF WorkflowInv, DatabaseInv
<1> QED
  BY InvHolds, <1>1, PTL

-----------------------------------------------------------------------------
\* What a revert restores.

\* No output of a plan is in another one of its outputs: otherwise the paths of
\* one activity can go back to different files at the same place.
OutputsAreApart == \A p \in Plans : \A g, h \in Gens[p] : g # h => g \cap h = {}

LEMMA RevertedPath ==
    ASSUME WorkflowInv, OutputsAreApart, NEW a \in Acts(db),
           NEW deletePlan \in BOOLEAN, NEW force \in BOOLEAN,
           Revert(a, deletePlan, force, FALSE),
           db.acts[a].plan \notin removed', NEW g \in GensOf(db, a)
    PROVE  Undone(a, g)'
<1> DEFINE gone == IF deletePlan /\ ~UsedByOthers(a) THEN removed \cup {db.acts[a].plan} ELSE removed
           path(f) == CHOOSE path \in GensOf(db, a) : f \in path
           others == Generators(g, removed') \ {a}
<1>1. DatabaseInv /\ DOMAIN content = Files
  BY DEF WorkflowInv
<1>2. /\ removed' = gone
      /\ ~db.acts[a].deleted
      /\ content' = [f \in Files |-> IF \E h \in GensOf(db, a) : f \in h
                                     THEN Reverted(a, path(f), gone)[f] ELSE content[f]]
      /\ db' = [Unindex(db, a) EXCEPT !.acts[a].deleted = TRUE]
  BY DEF Revert
<1> HIDE DEF gone
<1>3. /\ DatabaseInv'
      /\ \A b : (b \in Live(db)') <=> (b \in Live(db) /\ b # a)
      /\ \A b \in Acts(db) : /\ db'.acts[b].plan = db.acts[b].plan /\ db'.acts[b].ended = db.acts[b].ended
                             /\ db'.acts[b].uses = db.acts[b].uses /\ db'.acts[b].gens = db.acts[b].gens
      /\ Acts(db)' = Acts(db)
  BY <1>1, <1>2, RevertKeepsDatabase
<1>4. /\ IsExactFor(db, Live(db)) /\ IsExactFor(db', Live(db)')
      /\ HasActivities(db)
      /\ \A b \in Acts(db) : IsActivity(db.acts[b]) /\ db.acts[b].ended \in Nat
  BY <1>1, <1>3 DEF DatabaseInv, HasActivities, IsActivity
<1>5. a \in Live(db) /\ Live(db) \subseteq Acts(db)
  BY <1>2 DEF Live
<1>6. /\ db.acts[a].plan \in Plans
      /\ g \in Paths /\ g \in Gens[db.acts[a].plan] /\ g \notin UsesOf(db, a) /\ g \subseteq Files
  <2>1. db.acts[a].plan \in Plans /\ g \in Gens[db.acts[a].plan]
    BY <1>4 DEF GensOf, IsActivity
  <2>2. g \in Paths /\ g \notin UsesOf(db, a)
    BY <2>1, PathsOfPlans DEF UsesOf
  <2>3. g \subseteq Files
    BY <2>1, WorkflowsAssumption
  <2> QED
    BY <2>1, <2>2, <2>3
<1>7. ASSUME NEW f \in g PROVE path(f) = g
  <2>1. \A h \in GensOf(db, a) : f \in h => h = g
    BY <1>6 DEF OutputsAreApart, GensOf
  <2> QED
    BY <2>1
<1>8. \A f \in g : content'[f] = Reverted(a, g, gone)[f]
  <2> HIDE DEF path
  <2> QED
    BY <1>2, <1>6, <1>7
<1> HIDE DEF path
<1>9. /\ db.generatedBy[g] = {b \in Live(db) : g \in GensOf(db, b)}
      /\ db.usedBy[g] = {b \in Live(db) : g \in UsesOf(db, b)}
      /\ db'.generatedBy[g] = {b \in Live(db)' : g \in GensOf(db', b)}
      /\ db'.usedBy[g] = {b \in Live(db)' : g \in UsesOf(db', b)}
  BY <1>4, <1>6 DEF IsExactFor
<1>10. \A b \in Live(db) : GensOf(db', b) = GensOf(db, b) /\ UsesOf(db', b) = UsesOf(db, b)
  BY <1>3, <1>5 DEF GensOf, UsesOf
<1>11. db'.usedBy[g] = db.usedBy[g]
  BY <1>3, <1>6, <1>9, <1>10
<1>12. db'.generatedBy[g] = db.generatedBy[g] \ {a}
  BY <1>3, <1>9, <1>10
<1>13. db.generatedBy[g] \subseteq Acts(db)
  BY <1>5, <1>9
<1>14. {b \in db'.generatedBy[g] : db'.acts[b].plan \notin removed'} = others
  BY <1>3, <1>12, <1>13 DEF Generators
<1>15. /\ a \in Generators(g, gone) /\ others \subseteq Acts(db)
       /\ Generators(g, gone) = others \cup {a}
       /\ \A b \in others : g \in GensOf(db, b)
  BY <1>2, <1>5, <1>9, <1>13 DEF Generators
<1> HIDE DEF others
<1>16. ASSUME others = {}, db.usedBy[g] = {}
       PROVE  \A f \in g : content'[f] = Absent
  <2>1. Generators(g, gone) = {a}
    BY <1>15, <1>16
  <2>2. IsLatest(a, Generators(g, gone)) /\ Before(a, Generators(g, gone)) = {}
    BY <1>4, <2>1 DEF IsLatest, Before, Newer
  <2>3. Reverted(a, g, gone) = [f \in g |-> Absent]
    BY <1>16, <2>2 DEF Reverted
  <2> QED
    BY <1>8, <2>3
<1>17. ASSUME NEW b \in others, \A o \in others : ~Newer(db', o, b), \A o \in others : Newer(db', a, o),
              ~HasNoOrder(db', others)
       PROVE  Checksum(content', g) = db.acts[b].gens[g]
  <2>1. \A x, y \in others \cup {a} : Newer(db', x, y) <=> Newer(db, x, y)
    BY <1>3, <1>15 DEF Newer
  <2>2. \A x, y \in others \cup {a} : Newer(db, x, y) => ~Newer(db, y, x)
    BY <1>4, <1>15 DEF Newer
  <2>3. ASSUME NEW o \in others PROVE Newer(db, a, o) /\ ~Newer(db, o, a) /\ o # a
    BY <1>17, <2>1, <2>2
  <2>4. ~Newer(db, a, a)
    BY <1>4 DEF Newer
  <2>5. IsLatest(a, Generators(g, gone))
    BY <1>15, <2>3, <2>4 DEF IsLatest
  <2>6. Before(a, Generators(g, gone)) = others
    BY <1>15, <2>3 DEF Before
  <2>7. IsLatest(b, others)
    BY <1>17, <2>1 DEF IsLatest
  <2>8. ASSUME NEW x \in others, IsLatest(x, others) PROVE x = b
    <3>1. ~Newer(db, x, b) /\ ~Newer(db, b, x)
      BY <2>7, <2>8 DEF IsLatest
    <3>2. db'.acts[x].ended = db'.acts[b].ended
      BY <1>3, <1>4, <1>15, <3>1 DEF Newer
    <3>3. g \in GensOf(db', x) \cap GensOf(db', b)
      BY <1>3, <1>15 DEF GensOf
    <3> QED
      BY <1>17, <3>2, <3>3 DEF HasNoOrder, Shares
  <2>9. (CHOOSE x \in others : IsLatest(x, others)) = b
    BY <2>7, <2>8
  <2>10. Reverted(a, g, gone) = db.acts[b].gens[g]
    BY <1>17, <2>5, <2>6, <2>9 DEF Reverted
  <2>11. db.acts[b].gens[g] = [f \in g |-> db.acts[b].gens[g][f]]
    <3>1. b \in Acts(db) /\ g \in Gens[db.acts[b].plan]
      BY <1>15 DEF GensOf
    <3>2. IsActivity(db.acts[b])
      BY <1>4, <3>1
    <3> QED
      BY <3>1, <3>2 DEF IsActivity
  <2>12. \A f \in g : content'[f] = db.acts[b].gens[g][f]
    BY <1>8, <2>10
  <2> QED
    BY <2>11, <2>12 DEF Checksum
<1>18. ASSUME others = {}, db'.usedBy[g] = {} PROVE ~Exists(content', g)
  BY <1>11, <1>16, <1>18 DEF Exists
<1>19. \A b \in others : db'.acts[b].gens[g] = db.acts[b].gens[g]
  BY <1>3, <1>15
<1> QED
  BY <1>14, <1>17, <1>18, <1>19 DEF Undone, IsActivityValid, IsLatest

\* A revert leaves at every path of the activity what the newest activity that
\* is left generated there, or nothing if nothing generates or uses the path
\* (RevertRestoresFiles), for plans none of whose outputs contains another one.
THEOREM RevertsRestoreFiles == OutputsAreApart => (Spec => []RevertRestoresFiles)
<1> SUFFICES ASSUME OutputsAreApart
             PROVE  Spec => []RevertRestoresFiles
  OBVIOUS
<1>1. Init => RevertRestoresFiles
  BY DEF Init, Other, RevertRestoresFiles
<1>2. WorkflowInv /\ RevertRestoresFiles /\ [Next]_vars => RevertRestoresFiles'
  <2> SUFFICES ASSUME WorkflowInv, RevertRestoresFiles, [Next]_vars
               PROVE  RevertRestoresFiles'
    OBVIOUS
  <2>1. CASE last'.name # "revert"
    BY <2>1 DEF RevertRestoresFiles
  <2>2. ASSUME NEW order, NEW command \in {"execute", "update", "updateExisting", "rerun"}, ExecuteGraph(order, command)
        PROVE  last'.name # "revert"
    BY <2>2 DEF ExecuteGraph, Other, Command
  <2>3. ASSUME NEW a \in Acts(db), NEW deletePlan \in BOOLEAN, NEW force \in BOOLEAN, NEW metadataOnly \in BOOLEAN,
               Revert(a, deletePlan, force, metadataOnly)
        PROVE  RevertRestoresFiles'
    <3>1. CASE metadataOnly
      BY <2>1, <2>3, <3>1 DEF Revert, Other
    <3>2. CASE ~metadataOnly
      <4>1. last' = Command("revert", {}, {a}) /\ Revert(a, deletePlan, force, FALSE)
        BY <2>3, <3>2 DEF Revert
      <4>2. db'.acts[a].plan = db.acts[a].plan
        <5>1. ~db.acts[a].deleted /\ db' = [Unindex(db, a) EXCEPT !.acts[a].deleted = TRUE]
          BY <4>1 DEF Revert
        <5> QED
          BY <5>1, RevertKeepsDatabase DEF WorkflowInv
      <4>3. GensOf(db', a) = GensOf(db, a)
        BY <4>2 DEF GensOf
      <4>4. ASSUME db'.acts[a].plan \notin removed', NEW g \in GensOf(db', a)
            PROVE  Undone(a, g)'
        BY <4>1, <4>2, <4>3, <4>4, RevertedPath
      <4> QED
        BY <4>1, <4>4 DEF RevertRestoresFiles, IsActivityValid, Command
    <3> QED
      BY <3>1, <3>2
  <2>4. ASSUME NEW p \in Plans, RemovePlan(p)
        PROVE  last'.name # "revert"
    BY <2>4 DEF RemovePlan, Other
  <2>5. CASE ReindexCatalog
    BY <2>1, <2>5 DEF ReindexCatalog, Other
  <2>6. ASSUME NEW f \in Files, NEW value, Edit(f, value)
        PROVE  last'.name # "revert"
    BY <2>6 DEF Edit, Other
  <2>7. CASE UNCHANGED vars
    BY <2>7 DEF vars, RevertRestoresFiles, IsActivityValid, Undone, GensOf, Exists, Checksum, IsLatest, HasNoOrder, Shares, Newer
  <2>8. CASE Next
    <3>1. DatabaseInv /\ DOMAIN content = Files
      BY DEF WorkflowInv
    <3> QED
      BY <2>1, <2>2, <2>3, <2>4, <2>5, <2>6, <2>8, <3>1, Steps
  <2> QED
    BY <2>7, <2>8
<1> QED
  BY InvHolds, <1>1, <1>2, PTL DEF Spec

-----------------------------------------------------------------------------
\* The order of the steps of an update.

LEMMA OrderIsComplete ==
    ASSUME NEW steps, IsStepList(steps), NEW order \in Orders(steps)
    PROVE  /\ Len(order) \in Nat /\ DOMAIN order = 1..Len(order)
           /\ Range(order) = Range(steps)
           /\ \A i, j \in 1..Len(order) : i # j => order[i] # order[j]
           /\ Sorted(WorkflowGraph(steps), order)
<1> DEFINE plans == Range(steps)
           n == Cardinality(plans)
<1>1. /\ order \in [1..n -> plans]
      /\ \A i, j \in 1..n : i # j => order[i] # order[j]
      /\ Sorted(WorkflowGraph(steps), order)
  BY DEF Orders, SetToSeqs
<1>2. n \in Nat /\ IsFiniteSet(plans)
  BY RangeOfSteps DEF IsStepList
<1> HIDE DEF n, plans
<1>3. Len(order) = n /\ DOMAIN order = 1..n
  BY <1>1, <1>2
<1>4. order \in Injection(1..n, plans)
  BY <1>1 DEF Injection, IsInjective
<1>5. Cardinality(1..n) = n
  BY <1>2, FS_Interval
<1>6. order \in Surjection(1..n, plans)
  BY <1>2, <1>4, <1>5, FS_Injection DEF n
<1>7. Range(order) = plans
  BY <1>1, <1>6 DEF Surjection, Range
<1> QED
  BY <1>1, <1>2, <1>3, <1>7 DEF plans

\* Of the producers of an input one comes last, and its link is kept.
LEMMA OneIsKept ==
    ASSUME NEW steps, IsStepList(steps), NEW u, NEW p \in Producers(Range(steps), u)
    PROVE  \E k \in DOMAIN steps : Keeps(steps, k, u)
<1> DEFINE n == Len(steps)
           producers == Producers(Range(steps), u)
           T == {m \in Nat : m <= n /\ n - m \in 1..n /\ steps[n - m] \in producers}
<1>1. n \in Nat /\ DOMAIN steps = 1..n
  BY RangeOfSteps DEF IsStepList
<1>2. PICK i \in 1..n : steps[i] = p
  BY <1>1 DEF Producers, Range
<1> HIDE DEF producers, n
<1>3. n - i \in T
  BY <1>1, <1>2 DEF producers
<1>4. PICK m \in T : \A o \in T : m <= o
  <2> HIDE DEF T
  <2>1. T \in SUBSET Nat
    BY DEF T
  <2> QED
    BY <1>3, <2>1, Least
<1>5. ASSUME NEW l \in 1..n, l > n - m
      PROVE  steps[l] \notin producers
  <2>1. SUFFICES ASSUME steps[l] \in producers PROVE FALSE
    OBVIOUS
  <2>2. n - l \in T
    BY <1>1, <2>1
  <2> QED
    BY <1>1, <1>4, <1>5, <2>2
<1>6. n - m \in 1..n /\ steps[n - m] \in producers
  BY <1>4
<1>7. Keeps(steps, n - m, u)
  BY <1>1, <1>5, <1>6 DEF Keeps, producers
<1> QED
  BY <1>1, <1>6, <1>7

\* A kept producer of an input of a step is executed before the step.
LEMMA KeptComesFirst ==
    ASSUME NEW steps, IsStepList(steps), NEW order, Sorted(WorkflowGraph(steps), order),
           NEW i \in DOMAIN order, NEW j \in DOMAIN order, order[i] \in Range(steps), order[j] \in Range(steps),
           NEW u \in Uses[order[i]], NEW k \in DOMAIN steps, Keeps(steps, k, u), steps[k] = order[j]
    PROVE  j < i
<1>1. <<order[j], order[i]>> \in WorkflowGraph(steps)
  BY DEF WorkflowGraph
<1> QED
  BY <1>1 DEF Sorted

\* A step that writes into an input of another one comes before it.
LEMMA ProducersComeFirst ==
    ASSUME NEW steps, IsStepList(steps), NEW order \in Orders(steps),
           NEW i \in DOMAIN order, NEW j \in DOMAIN order,
           NEW u \in Uses[order[i]], HasLastProducer(Range(steps), u),
           NEW f \in u, f \in WrittenBy(order[j])
    PROVE  j < i
<1> DEFINE plans == Range(steps)
<1>1. /\ DOMAIN order = 1..Len(order) /\ Len(order) \in Nat
      /\ Range(order) = plans /\ Sorted(WorkflowGraph(steps), order)
  BY OrderIsComplete
<1>2. DOMAIN steps = 1..Len(steps) /\ Len(steps) \in Nat
  BY RangeOfSteps DEF IsStepList
<1>3. \A m \in DOMAIN order : order[m] \in plans
  BY <1>1 DEF Range
<1> HIDE DEF plans
<1> DEFINE r == order[j]
<1>4. r \in Producers(plans, u)
  BY <1>3 DEF Producers, WrittenBy, AreRelated
<1>5. PICK q \in Producers(plans, u) :
          \A s \in Producers(plans, u) \ {q} : \E v \in Uses[q] \cap Gens[s] : HasOneProducer(plans, v)
  BY <1>4 DEF HasLastProducer, plans
<1>6. PICK k \in DOMAIN steps : Keeps(steps, k, u)
  BY <1>5, OneIsKept DEF plans
<1>7. /\ steps[k] \in Producers(plans, u)
      /\ \A l \in DOMAIN steps : l > k => steps[l] \notin Producers(plans, u)
  BY <1>6 DEF Keeps, plans
<1>8. q \in plans
  BY <1>5 DEF Producers
<1>9. steps[k] = q
  <2>1. SUFFICES ASSUME steps[k] # q PROVE FALSE
    OBVIOUS
  <2>2. Uses[q] \cap Gens[steps[k]] # {}
    BY <1>5, <1>7, <2>1
  <2>3. PICK l \in DOMAIN steps : steps[l] = q
    BY <1>8 DEF plans, Range
  <2>4. k < l
    BY <2>2, <2>3 DEF IsStepList
  <2> QED
    BY <1>2, <1>5, <1>7, <2>3, <2>4
<1>10. PICK m \in DOMAIN order : order[m] = q
  BY <1>1, <1>8 DEF Range
<1>11. m < i
  BY <1>1, <1>3, <1>6, <1>9, <1>10, KeptComesFirst DEF plans
<1>12. CASE r = q
  BY <1>1, <1>3, <1>6, <1>9, <1>12, KeptComesFirst DEF plans
<1>13. CASE r # q
  <2>1. PICK v \in Uses[q] \cap Gens[r] : HasOneProducer(plans, v)
    BY <1>4, <1>5, <1>13
  <2>2. v # {}
    <3>1. q \in Plans
      BY <1>8, RangeOfSteps DEF IsStepList, plans
    <3> QED
      BY <2>1, <3>1, WorkflowsAssumption
  <2>3. r \in Producers(plans, v)
    BY <1>3, <2>1, <2>2 DEF Producers, AreRelated
  <2>4. PICK o \in DOMAIN steps : Keeps(steps, o, v)
    BY <2>3, OneIsKept DEF plans
  <2>5. steps[o] = r
    BY <2>1, <2>3, <2>4 DEF Keeps, HasOneProducer, plans
  <2>6. j < m
    BY <1>1, <1>3, <1>10, <2>1, <2>4, <2>5, KeptComesFirst DEF plans
  <2> QED
    BY <1>1, <1>11, <2>6
<1> QED
  BY <1>12, <1>13

LEMMA OrderedExecution ==
    ASSUME NEW steps, IsStepList(steps), NEW order \in Orders(steps),
           NEW plans, plans = Range(steps)
    PROVE  \A p \in plans : (\A u \in Uses[p] : HasLastProducer(plans, u)) =>
               \A f \in WrittenBy(p) : (\A q \in plans \ {p} : f \notin WrittenBy(q)) =>
                   WriteAll(order, content)[f] = Write(p, WriteAll(order, content))[f]
<1> SUFFICES ASSUME NEW p \in plans, \A u \in Uses[p] : HasLastProducer(plans, u),
                    NEW f \in WrittenBy(p), \A q \in plans \ {p} : f \notin WrittenBy(q)
             PROVE  WriteAll(order, content)[f] = Write(p, WriteAll(order, content))[f]
  OBVIOUS
<1> DEFINE n == Len(order)
<1>1. /\ n \in Nat /\ DOMAIN order = 1..n
      /\ Range(order) = plans /\ plans \in SUBSET Plans
      /\ \A i, j \in 1..n : i # j => order[i] # order[j]
  BY OrderIsComplete, RangeOfSteps DEF IsStepList
<1>3. PICK h : WriteAllBy(h, order, content) /\ WriteAll(order, content) = h[n]
  BY <1>1, WriteAllLoop
<1>4. \A k \in 1..n : order[k] \in plans
  BY <1>1 DEF Range
<1>5. PICK i \in 1..n : order[i] = p
  BY <1>1 DEF Range
<1> HIDE DEF n
<1>6. \A k \in 1..n : h[k] = Write(order[k], h[k - 1])
  BY <1>1, <1>3 DEF WriteAllBy, n
<1>7. \A u \in Uses[p] : u \subseteq Files
  BY <1>1, <1>4, <1>5, WorkflowsAssumption
<1>8. f \in Files
  <2>1. p \in Plans
    BY <1>1, <1>4, <1>5
  <2> QED
    BY <2>1, WorkflowsAssumption DEF WrittenBy
<1> DEFINE before == h[i - 1]
           Q == {k \in 0..n : k >= i => /\ \A u \in Uses[p] : \A g \in u : h[k][g] = before[g]
                                        /\ h[k][f] = h[i][f]}
<1>9. 0 \in Q
  BY <1>1, <1>5
<1>10. ASSUME NEW k \in 1..n, k - 1 \in Q
       PROVE  k \in Q
  <2>1. SUFFICES ASSUME k >= i
                 PROVE  /\ \A u \in Uses[p] : \A g \in u : h[k][g] = before[g]
                        /\ h[k][f] = h[i][f]
    BY <1>1
  <2>2. ASSUME NEW u \in Uses[p], NEW g \in u
        PROVE  h[k][g] = before[g]
    <3>1. g \notin WrittenBy(order[k])
      <4>1. SUFFICES ASSUME g \in WrittenBy(order[k]) PROVE FALSE
        OBVIOUS
      <4>2. k < i
        BY <1>1, <1>5, <4>1, ProducersComeFirst
      <4> QED
        BY <1>1, <2>1, <4>2
    <3>2. h[k][g] = h[k - 1][g]
      <4>1. h[k] = Write(order[k], h[k - 1]) /\ g \in Files
        BY <1>6, <1>7
      <4> DEFINE c == h[k - 1]
      <4>2. Write(order[k], c)[g] = c[g]
        <5> HIDE DEF c, before, Q
        <5> QED
          BY <3>1, <4>1 DEF Write, WrittenBy
      <4> QED
        BY <4>1, <4>2
    <3>3. CASE k = i
      BY <3>2, <3>3
    <3>4. CASE k > i
      <4>1. k - 1 >= i
        BY <1>1, <3>4
      <4> QED
        BY <1>10, <3>2, <4>1
    <3> QED
      BY <1>1, <2>1, <3>3, <3>4
  <2>3. h[k][f] = h[i][f]
    <3>1. CASE k > i
      <4>1. order[k] \in plans \ {p} /\ k - 1 >= i
        BY <1>1, <1>4, <1>5, <3>1
      <4>2. h[k][f] = h[k - 1][f]
        BY <1>6, <1>8, <4>1 DEF Write, WrittenBy
      <4> QED
        BY <1>10, <4>1, <4>2
    <3> QED
      BY <1>1, <2>1, <3>1
  <2> QED
    BY <2>2, <2>3
<1>11. \A k \in 1..n : k - 1 \in Q => k \in Q
  BY <1>10
<1>12. n \in Q
  <2> HIDE DEF Q
  <2>1. 0..n \subseteq Q
    BY <1>1, <1>9, <1>11, Induction
  <2> QED
    BY <1>1, <2>1
<1>13. /\ \A u \in Uses[p] : \A g \in u : h[n][g] = before[g]
       /\ h[n][f] = h[i][f]
  BY <1>1, <1>12
<1>14. h[i][f] = <<p, f, [u \in Uses[p] |-> Checksum(before, u)]>>
  <2>1. h[i] = Write(p, before)
    BY <1>5, <1>6
  <2> HIDE DEF before
  <2>2. Write(p, before)[f] = <<p, f, [u \in Uses[p] |-> Checksum(before, u)]>>
    BY <1>8 DEF Write, WrittenBy
  <2> QED
    BY <2>1, <2>2
<1>15. Write(p, h[n])[f] = <<p, f, [u \in Uses[p] |-> Checksum(h[n], u)]>>
  BY <1>8 DEF Write, WrittenBy
<1>16. \A u \in Uses[p] : Checksum(h[n], u) = Checksum(before, u)
  BY <1>13 DEF Checksum
<1> HIDE DEF before
<1>17. [u \in Uses[p] |-> Checksum(h[n], u)] = [u \in Uses[p] |-> Checksum(before, u)]
  BY <1>16
<1> QED
  BY <1>3, <1>13, <1>14, <1>15, <1>17 DEF n

LEMMA OrdersAreSound ==
    ASSUME NEW order, IsOrderOfGraph(order), NEW plans, plans = Range(order)
    PROVE  \A p \in plans : (\A u \in Uses[p] : HasLastProducer(plans, u)) =>
               \A f \in WrittenBy(p) : (\A q \in plans \ {p} : f \notin WrittenBy(q)) =>
                   WriteAll(order, content)[f] = Write(p, WriteAll(order, content))[f]
<1>1. PICK steps : IsStepList(steps) /\ order \in Orders(steps)
  BY DEF IsOrderOfGraph
<1>2. plans = Range(steps)
  BY <1>1, OrderIsComplete
<1> QED
  BY <1>1, <1>2, OrderedExecution

\* An update or a rerun executes a step after those that write into its inputs, if
\* each input has a last producer, which the graph of steps keeps: the outputs are what
\* the plan makes of the inputs as they are now, for any plans and histories.
THEOREM StepsRunInOrder == Spec => []StepsFollowTheirProducers
<1>1. Init => StepsFollowTheirProducers
  BY DEF Init, Other, StepsFollowTheirProducers
<1>2. WorkflowInv /\ StepsFollowTheirProducers /\ [Next]_vars => StepsFollowTheirProducers'
  <2> SUFFICES ASSUME WorkflowInv, StepsFollowTheirProducers, [Next]_vars
               PROVE  StepsFollowTheirProducers'
    OBVIOUS
  <2>1. CASE last'.name \notin {"update", "updateExisting", "rerun"}
    BY <2>1 DEF StepsFollowTheirProducers
  <2>2. ASSUME NEW order \in Seq(Plans), NEW command \in {"execute", "update", "updateExisting", "rerun"},
               command = "execute" \/ IsOrderOfGraph(order), ExecuteGraph(order, command)
        PROVE  StepsFollowTheirProducers'
    <3>1. CASE command = "execute"
      BY <2>1, <2>2, <3>1 DEF ExecuteGraph, Other
    <3>2. CASE command # "execute"
      <4>1. IsOrderOfGraph(order)
        BY <2>2, <3>2
      <4>2. PICK plans : plans = Range(order)
        OBVIOUS
      <4>3. last'.plans = plans /\ content' = WriteAll(order, content)
        BY <2>2, <3>2, <4>2 DEF ExecuteGraph, Command
      <4>4. \A p \in plans : (\A u \in Uses[p] : HasLastProducer(plans, u)) =>
                \A f \in WrittenBy(p) : (\A q \in plans \ {p} : f \notin WrittenBy(q)) =>
                    WriteAll(order, content)[f] = Write(p, WriteAll(order, content))[f]
        BY <4>1, <4>2, OrdersAreSound
      <4> QED
        BY <4>3, <4>4 DEF StepsFollowTheirProducers, IsConsistent
    <3> QED
      BY <3>1, <3>2
  <2>3. ASSUME NEW a, NEW deletePlan, NEW force, NEW metadataOnly, Revert(a, deletePlan, force, metadataOnly)
        PROVE  StepsFollowTheirProducers'
    BY <2>1, <2>3 DEF Revert, Other, Command
  <2>4. ASSUME NEW p \in Plans, RemovePlan(p)
        PROVE  StepsFollowTheirProducers'
    BY <2>1, <2>4 DEF RemovePlan, Other
  <2>5. CASE ReindexCatalog
    BY <2>1, <2>5 DEF ReindexCatalog, Other
  <2>6. ASSUME NEW f \in Files, NEW value, Edit(f, value)
        PROVE  StepsFollowTheirProducers'
    BY <2>1, <2>6 DEF Edit, Other
  <2>7. CASE UNCHANGED vars
    BY <2>7 DEF vars, StepsFollowTheirProducers, IsConsistent
  <2>8. CASE Next
    <3>1. DatabaseInv /\ DOMAIN content = Files
      BY DEF WorkflowInv
    <3> HIDE DEF StepsFollowTheirProducers
    <3> QED
      BY <2>2, <2>3, <2>4, <2>5, <2>6, <2>8, <3>1, Steps
  <2> QED
    BY <2>7, <2>8
<1> QED
  BY InvHolds, <1>1, <1>2, PTL DEF Spec

-----------------------------------------------------------------------------
=============================================================================
