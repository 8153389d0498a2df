---------------------------- MODULE Plans_proofs ----------------------------
(***************************************************************************)
(* Proofs about Plans, for any names, workflow files and histories: names  *)
(* lead to newest versions, no version that is listed changes, removed     *)
(* plans stay removed, composites keep their steps, and a workflow file    *)
(* that has not changed keeps its plans.                                   *)
(***************************************************************************)
EXTENDS Plans, FiniteSetTheorems, WellFoundedInduction, TLAPS

-----------------------------------------------------------------------------
\* Numbers, loops and sequences.

\* A set of numbers has a least element.
LEMMA Least ==
    ASSUME NEW T \in SUBSET Nat, T # {}
    PROVE  \E x \in T : \A y \in T : x <= y
<1>1. PICK x \in T : \A y \in T : ~(<<y, x>> \in OpToRel(<, Nat))
  BY WFMin, NatLessThanWellFounded
<1>2. \A y \in T : ~(y < x)
  BY <1>1 DEF OpToRel
<1> QED
  BY <1>2

\* What holds before a loop and is kept by each of its steps holds after it.
LEMMA Induction ==
    ASSUME NEW n \in Nat, NEW Q, 0 \in Q, \A i \in 1..n : i - 1 \in Q => i \in Q
    PROVE  0..n \subseteq Q
<1> DEFINE T == {i \in 0..n : i \notin Q}
<1>1. SUFFICES ASSUME T # {} PROVE FALSE
  OBVIOUS
<1>2. T \in SUBSET Nat
  OBVIOUS
<1>3. \E x \in T : \A y \in T : x <= y
  <2> HIDE DEF T
  <2> QED
    BY <1>1, <1>2, Least
<1>4. PICK x \in T : \A y \in T : x <= y
  BY <1>3
<1>5. x \in 1..n /\ x - 1 \in 0..n /\ x - 1 \notin T
  BY <1>4
<1> QED
  BY <1>4, <1>5

\* A sequence with one more element.
LEMMA Appended ==
    ASSUME NEW S, NEW s \in Seq(S), NEW x \in S
    PROVE  /\ Append(s, x) \in Seq(S) /\ Len(Append(s, x)) = Len(s) + 1 /\ Append(s, x)[Len(s) + 1] = x
           /\ \A i \in 1..Len(s) : Append(s, x)[i] = s[i]
OBVIOUS

\* SetToSeq lists the elements of a finite set.
LEMMA Ordered ==
    ASSUME NEW S, IsFiniteSet(S)
    PROVE  /\ SetToSeq(S) \in Seq(S)
           /\ \A x \in S : \E i \in 1..Len(SetToSeq(S)) : SetToSeq(S)[i] = x
<1> DEFINE n == Cardinality(S)
<1>1. n \in Nat /\ ExistsBijection(1..n, S)
  BY FS_CardinalityType
<1>2. PICK f \in Bijection(1..n, S) : TRUE
  BY <1>1 DEF ExistsBijection
<1>3. f \in [1..n -> S] /\ IsInjective(f)
  BY <1>2 DEF Bijection, Injection, IsInjective
<1>4. \E g \in [1..Cardinality(S) -> S] : IsInjective(g)
  BY <1>3
<1>5. SetToSeq(S) \in [1..n -> S] /\ IsInjective(SetToSeq(S))
  BY <1>4 DEF SetToSeq
<1>6. SetToSeq(S) \in Injection(1..n, S)
  BY <1>5 DEF Injection, IsInjective
<1>7. IsFiniteSet(1..n) /\ Cardinality(1..n) = n
  BY <1>1, FS_Interval
<1>8. SetToSeq(S) \in Surjection(1..n, S)
  BY <1>6, <1>7, FS_Injection
<1>9. \A x \in S : \E i \in 1..n : SetToSeq(S)[i] = x
  BY <1>8 DEF Surjection
<1>10. Len(SetToSeq(S)) = n
  BY <1>1, <1>5
<1> QED
  BY <1>1, <1>5, <1>9, <1>10

-----------------------------------------------------------------------------
\* The invariant of the database.

\* Plans, list and names, all finite.
IsDatabase(d) ==
    /\ d = [plans |-> d.plans, listed |-> d.listed, byName |-> d.byName]
    /\ d.plans = [p \in DOMAIN d.plans |-> d.plans[p]]
    /\ d.byName = [name \in DOMAIN d.byName |-> d.byName[name]]
    /\ IsFiniteSet(DOMAIN d.plans)
    /\ d.listed \in Seq(DOMAIN d.plans)

\* A version refers to listed versions and to stored steps.
IsVersion(v) ==
    v = [name |-> v.name, kind |-> v.kind, from |-> v.from, description |-> v.description,
         steps |-> v.steps, deleted |-> v.deleted, first |-> v.first]
RefersToStored(d, v) ==
    /\ IsVersion(v)
    /\ v.from \in Listed(d) \cup {NoId}
    /\ v.steps \subseteq DOMAIN d.plans

\* Random identifiers are not used twice.
IsId(id, n) ==
    /\ id[1] \in {"uuid", "file", "step"}
    /\ id[1] = "uuid" => id[2] \in Nat /\ id[2] < n

FirstIsLater(d) ==
    \A p \in DOMAIN d.plans : d.plans[p].first = NoId \/ d.plans[p].first \in Later(d, p)
FirstIsDerived(d) ==
    \A p \in DOMAIN d.plans : d.plans[p].first = NoId \/ d.plans[d.plans[p].first].from = p
FromIsEarlier(d) ==
    \A p \in Listed(d) : d.plans[p].from = NoId \/ p \in Later(d, d.plans[p].from)
IsListedOnce(d) == \A i, j \in 1..Len(d.listed) : d.listed[i] = d.listed[j] => i = j

PlansInv(d) ==
    /\ IsDatabase(d)
    /\ \A p \in DOMAIN d.plans : RefersToStored(d, d.plans[p])
    /\ \A p \in DOMAIN d.plans : IsId(p, Cardinality(DOMAIN d.plans))
    /\ FirstIsLater(d) /\ FirstIsDerived(d)
    /\ FromIsEarlier(d)
    /\ IsListedOnce(d)
    /\ NamesLeadToNewest(d)
    /\ NewestHaveNames(d)

LEMMA ListedPlans ==
    ASSUME NEW d, IsDatabase(d)
    PROVE  /\ Len(d.listed) \in Nat
           /\ DOMAIN d.listed = 1..Len(d.listed)
           /\ Listed(d) = {d.listed[i] : i \in 1..Len(d.listed)}
           /\ Listed(d) \subseteq DOMAIN d.plans
<1>1. d.listed \in Seq(DOMAIN d.plans)
  BY DEF IsDatabase
<1>2. Len(d.listed) \in Nat /\ DOMAIN d.listed = 1..Len(d.listed)
  BY <1>1
<1>3. \A i \in 1..Len(d.listed) : d.listed[i] \in DOMAIN d.plans
  BY <1>1
<1> QED
  BY <1>2, <1>3 DEF Listed, Range

LEMMA NoIdIsNone ==
    ASSUME NEW d, PlansInv(d)
    PROVE  NoId \notin DOMAIN d.plans
BY DEF PlansInv, IsId, NoId

-----------------------------------------------------------------------------
\* get_latest_plan follows the first derivatives: it ends, at a version of which
\* there is none.
NewestBy(d, f) ==
    f = [q \in DOMAIN d.plans |-> IF d.plans[q].first = NoId THEN q ELSE f[d.plans[q].first]]

LEMMA LatestLoop ==
    ASSUME NEW d, IsDatabase(d), IsListedOnce(d), FirstIsLater(d)
    PROVE  \E f : /\ NewestBy(d, f)
                  /\ \A p : Latest(d, p) = f[p]
                  /\ \A p \in Listed(d) : f[p] \in Listed(d) /\ d.plans[f[p]].first = NoId
<1> DEFINE n == Len(d.listed)
           From(m) == {q \in DOMAIN d.plans : \A i \in 1..n : d.listed[i] = q => i > n - m}
           Computes(f, m) == f = [q \in From(m) |-> IF d.plans[q].first = NoId THEN q ELSE f[d.plans[q].first]]
           Q == {m \in 0..n : \E f : Computes(f, m)}
<1>1. n \in Nat /\ DOMAIN d.listed = 1..n /\ Listed(d) = {d.listed[i] : i \in 1..n} /\ Listed(d) \subseteq DOMAIN d.plans
  BY ListedPlans
<1>2. \A q \in DOMAIN d.plans : d.plans[q].first # NoId =>
        \E i, j \in 1..n : i < j /\ d.listed[i] = q /\ d.listed[j] = d.plans[q].first
  BY <1>1 DEF FirstIsLater, Later
<1>3. ASSUME NEW m \in 0..n, NEW q \in From(m), d.plans[q].first # NoId
      PROVE  m # 0 /\ d.plans[q].first \in From(m - 1) \cap Listed(d)
  <2>1. PICK i, j \in 1..n : i < j /\ d.listed[i] = q /\ d.listed[j] = d.plans[q].first
    BY <1>2, <1>3
  <2>2. i > n - m
    BY <1>3, <2>1
  <2>3. \A l \in 1..n : d.listed[l] = d.plans[q].first => l = j
    BY <2>1 DEF IsListedOnce
  <2> QED
    BY <1>1, <2>1, <2>2, <2>3, SMTT(40)
<1>4. 0 \in Q
  <2> DEFINE f == [q \in From(0) |-> q]
  <2>1. \A q \in From(0) : d.plans[q].first = NoId
    BY <1>1, <1>3
  <2>2. Computes(f, 0)
    BY <2>1
  <2> HIDE DEF f, Computes
  <2> QED
    BY <1>1, <2>2
<1>5. ASSUME NEW m \in 1..n, m - 1 \in Q PROVE m \in Q
  <2>1. PICK f : Computes(f, m - 1)
    BY <1>5
  <2> DEFINE g == [q \in From(m) |-> IF d.plans[q].first = NoId THEN q ELSE f[d.plans[q].first]]
  <2>2. From(m - 1) \subseteq From(m)
    BY <1>1
  <2>3. \A q \in From(m - 1) : g[q] = f[q]
    BY <2>1, <2>2
  <2>4. \A q \in From(m) : d.plans[q].first # NoId => d.plans[q].first \in From(m - 1)
    BY <1>3
  <2>5. \A q \in From(m) : g[q] = IF d.plans[q].first = NoId THEN q ELSE g[d.plans[q].first]
    <3> HIDE DEF From
    <3> QED
      BY <2>3, <2>4
  <2>6. Computes(g, m)
    <3>1. g = [q \in From(m) |-> g[q]]
      BY DEF g
    <3> HIDE DEF g, From
    <3> QED
      BY <2>5, <3>1
  <2> HIDE DEF g, Computes
  <2> QED
    BY <2>6
<1>6. \A m \in 1..n : m - 1 \in Q => m \in Q
  BY <1>5
<1>7. 0..n \subseteq Q
  <2> HIDE DEF n, Q
  <2> QED
    BY <1>1, <1>4, <1>6, Induction
<1>8. From(n) = DOMAIN d.plans
  BY <1>1
<1>9. \E f : NewestBy(d, f)
  <2>1. n \in Q
    <3> HIDE DEF n, Q
    <3> QED
      BY <1>1, <1>7
  <2>2. PICK f : Computes(f, n)
    BY <2>1
  <2> QED
    BY <1>8, <2>2 DEF NewestBy
<1> DEFINE h == CHOOSE e : e = [q \in DOMAIN d.plans |-> IF d.plans[q].first = NoId THEN q ELSE e[d.plans[q].first]]
<1>10. NewestBy(d, h)
  BY <1>9 DEF NewestBy
<1>11. \A p : Latest(d, p) = h[p]
  BY DEF Latest
<1> HIDE DEF h
<1> DEFINE P == {m \in 0..n : \A p \in From(m) \cap Listed(d) : h[p] \in Listed(d) /\ d.plans[h[p]].first = NoId}
<1>12. \A q \in DOMAIN d.plans : h[q] = IF d.plans[q].first = NoId THEN q ELSE h[d.plans[q].first]
  BY <1>10 DEF NewestBy
<1>13. 0 \in P
  BY <1>1
<1>14. ASSUME NEW m \in 1..n, m - 1 \in P PROVE m \in P
  <2>1. SUFFICES ASSUME NEW p \in From(m) \cap Listed(d)
                 PROVE  h[p] \in Listed(d) /\ d.plans[h[p]].first = NoId
    BY <1>1
  <2>2. \A q \in From(m - 1) \cap Listed(d) : h[q] \in Listed(d) /\ d.plans[h[q]].first = NoId
    BY <1>14
  <2>3. CASE d.plans[p].first = NoId
    BY <1>1, <1>12, <2>1, <2>3
  <2>4. CASE d.plans[p].first # NoId
    <3>1. d.plans[p].first \in From(m - 1) \cap Listed(d)
      BY <1>3, <2>1, <2>4
    <3> QED
      BY <1>1, <1>12, <2>1, <2>2, <2>4, <3>1
  <2> QED
    BY <2>3, <2>4
<1>15. 0..n \subseteq P
  <2>1. \A m \in 1..n : m - 1 \in P => m \in P
    BY <1>14
  <2> HIDE DEF n, P
  <2> QED
    BY <1>1, <1>13, <2>1, Induction
<1> QED
  BY <1>1, <1>8, <1>10, <1>11, <1>15

\* What every version has if those listed before it have it, or those after it.
LEMMA InOrder ==
    ASSUME NEW d, IsDatabase(d), IsListedOnce(d), NEW S,
           \A p \in Listed(d) : (\A q \in Listed(d) : p \in Later(d, q) => q \in S) => p \in S
    PROVE  Listed(d) \subseteq S
<1> DEFINE n == Len(d.listed)
           Q == {m \in 0..n : \A i \in 1..m : d.listed[i] \in S}
<1>1. n \in Nat /\ DOMAIN d.listed = 1..n /\ Listed(d) = {d.listed[i] : i \in 1..n}
  BY ListedPlans
<1>2. 0 \in Q
  BY <1>1
<1>3. ASSUME NEW m \in 1..n, m - 1 \in Q PROVE m \in Q
  <2>1. ASSUME NEW q \in Listed(d), d.listed[m] \in Later(d, q) PROVE q \in S
    <3>1. PICK i, j \in 1..n : i < j /\ d.listed[i] = q /\ d.listed[j] = d.listed[m]
      BY <1>1, <2>1 DEF Later
    <3>2. j = m
      BY <3>1 DEF IsListedOnce
    <3>3. i \in 1..m - 1
      BY <1>1, <3>1, <3>2
    <3> QED
      BY <1>3, <3>1, <3>3
  <2>2. d.listed[m] \in S
    BY <1>1, <2>1
  <2>3. \A i \in 1..m : i \in 1..m - 1 \/ i = m
    BY <1>1
  <2> QED
    BY <1>1, <1>3, <2>2, <2>3
<1>4. 0..n \subseteq Q
  <2>1. \A m \in 1..n : m - 1 \in Q => m \in Q
    BY <1>3
  <2> HIDE DEF n, Q
  <2> QED
    BY <1>1, <1>2, <2>1, Induction
<1>5. n \in Q
  BY <1>1, <1>4
<1> QED
  BY <1>1, <1>5

LEMMA InReverse ==
    ASSUME NEW d, IsDatabase(d), IsListedOnce(d), NEW S,
           \A p \in Listed(d) : (\A q \in Later(d, p) : q \in S) => p \in S
    PROVE  Listed(d) \subseteq S
<1> DEFINE n == Len(d.listed)
           Q == {m \in 0..n : \A i \in 1..n : i > n - m => d.listed[i] \in S}
<1>1. n \in Nat /\ DOMAIN d.listed = 1..n /\ Listed(d) = {d.listed[i] : i \in 1..n}
  BY ListedPlans
<1>2. 0 \in Q
  BY <1>1
<1>3. ASSUME NEW m \in 1..n, m - 1 \in Q PROVE m \in Q
  <2> DEFINE k == n - m + 1
  <2>0. k \in 1..n
    BY <1>1
  <2>1. ASSUME NEW q \in Later(d, d.listed[k]) PROVE q \in S
    <3>1. PICK i, j \in 1..n : i < j /\ d.listed[i] = d.listed[k] /\ d.listed[j] = q
      BY <1>1 DEF Later
    <3>2. i = k
      BY <2>0, <3>1 DEF IsListedOnce
    <3>3. j > n - (m - 1)
      BY <1>1, <3>1, <3>2
    <3> QED
      BY <1>3, <3>1, <3>3
  <2>2. d.listed[k] \in S
    BY <1>1, <2>0, <2>1
  <2>3. \A i \in 1..n : i > n - m => i > n - (m - 1) \/ i = k
    BY <1>1
  <2> HIDE DEF k
  <2> QED
    BY <1>1, <1>3, <2>2, <2>3
<1>4. 0..n \subseteq Q
  <2>1. \A m \in 1..n : m - 1 \in Q => m \in Q
    BY <1>3
  <2> HIDE DEF n, Q
  <2> QED
    BY <1>1, <1>2, <2>1, Induction
<1>5. n \in Q
  BY <1>1, <1>4
<1>6. \A i \in 1..n : d.listed[i] \in S
  BY <1>1, <1>5
<1> QED
  BY <1>1, <1>6

\* get_derivative_chain goes back from the newest version: it ends, too, and finds
\* listed versions.
OlderBy(d, u) ==
    u = [q \in DOMAIN d.plans |-> IF d.plans[q].from = NoId THEN {q} ELSE {q} \cup u[d.plans[q].from]]

LEMMA ChainLoop ==
    ASSUME NEW d, IsDatabase(d), IsListedOnce(d), FirstIsLater(d), FromIsEarlier(d),
           \A p \in DOMAIN d.plans : d.plans[p].from \in Listed(d) \cup {NoId}
    PROVE  \E u : /\ OlderBy(d, u)
                  /\ \A p : Chain(d, p) = u[Latest(d, p)]
                  /\ \A p \in Listed(d) : u[p] \subseteq Listed(d)
<1> DEFINE n == Len(d.listed)
           Part(m) == {q \in DOMAIN d.plans :
                         \/ d.plans[q].from = NoId
                         \/ \E i \in 1..n : i < m /\ d.listed[i] = d.plans[q].from}
           Computes(u, m) == u = [q \in Part(m) |-> IF d.plans[q].from = NoId THEN {q} ELSE {q} \cup u[d.plans[q].from]]
           Q == {m \in 0..n + 1 : \E u : Computes(u, m)}
<1>1. n \in Nat /\ DOMAIN d.listed = 1..n /\ Listed(d) = {d.listed[i] : i \in 1..n} /\ Listed(d) \subseteq DOMAIN d.plans
  BY ListedPlans
<1>2. ASSUME NEW m \in 1..n + 1, NEW q \in Part(m), d.plans[q].from # NoId
      PROVE  d.plans[q].from \in Part(m - 1)
  <2> DEFINE from == d.plans[q].from
  <2>1. PICK i \in 1..n : i < m /\ d.listed[i] = from
    BY <1>2
  <2>2. from \in Listed(d)
    BY <1>1, <2>1
  <2>3. CASE d.plans[from].from = NoId
    BY <1>1, <2>2, <2>3
  <2>4. CASE d.plans[from].from # NoId
    <3>1. from \in Later(d, d.plans[from].from)
      BY <2>2, <2>4 DEF FromIsEarlier
    <3>2. PICK k, j \in 1..n : k < j /\ d.listed[k] = d.plans[from].from /\ d.listed[j] = from
      BY <1>1, <3>1 DEF Later
    <3>3. j = i
      BY <2>1, <3>2 DEF IsListedOnce
    <3>4. k < m - 1
      BY <1>1, <2>1, <3>2, <3>3
    <3> QED
      BY <1>1, <2>2, <3>2, <3>4
  <2> QED
    BY <2>3, <2>4
<1>3. 0 \in Q
  <2> DEFINE u == [q \in Part(0) |-> {q}]
  <2>1. \A q \in Part(0) : d.plans[q].from = NoId
    BY <1>1
  <2>2. Computes(u, 0)
    BY <2>1
  <2> HIDE DEF u, Computes
  <2> QED
    BY <1>1, <2>2
<1>4. ASSUME NEW m \in 1..n + 1, m - 1 \in Q PROVE m \in Q
  <2>1. PICK u : Computes(u, m - 1)
    BY <1>4
  <2> DEFINE w == [q \in Part(m) |-> IF d.plans[q].from = NoId THEN {q} ELSE {q} \cup u[d.plans[q].from]]
  <2>2. Part(m - 1) \subseteq Part(m)
    BY <1>1
  <2>3. \A q \in Part(m - 1) : w[q] = u[q]
    BY <2>1, <2>2
  <2>4. \A q \in Part(m) : d.plans[q].from # NoId => d.plans[q].from \in Part(m - 1)
    BY <1>2
  <2>5. \A q \in Part(m) : w[q] = IF d.plans[q].from = NoId THEN {q} ELSE {q} \cup w[d.plans[q].from]
    <3> HIDE DEF Part
    <3> QED
      BY <2>3, <2>4
  <2>6. Computes(w, m)
    <3>1. w = [q \in Part(m) |-> w[q]]
      BY DEF w
    <3> HIDE DEF w, Part
    <3> QED
      BY <2>5, <3>1
  <2> HIDE DEF w, Computes
  <2> QED
    BY <2>6
<1>5. \A m \in 1..n + 1 : m - 1 \in Q => m \in Q
  BY <1>4
<1>6. 0..n + 1 \subseteq Q
  <2>1. n + 1 \in Nat
    BY <1>1
  <2> HIDE DEF n, Q
  <2> QED
    BY <1>3, <1>5, <2>1, Induction
<1>7. Part(n + 1) = DOMAIN d.plans
  <2>1. ASSUME NEW q \in DOMAIN d.plans, d.plans[q].from # NoId PROVE q \in Part(n + 1)
    <3>1. d.plans[q].from \in Listed(d)
      BY <2>1
    <3>2. PICK i \in 1..n : d.listed[i] = d.plans[q].from
      BY <1>1, <3>1
    <3> QED
      BY <1>1, <3>2
  <2> QED
    BY <2>1
<1>8. \E u : OlderBy(d, u)
  <2>1. n + 1 \in Q
    <3>1. n + 1 \in 0..n + 1
      BY <1>1
    <3> HIDE DEF n, Q
    <3> QED
      BY <1>6, <3>1
  <2>2. PICK u : Computes(u, n + 1)
    BY <2>1
  <2> QED
    BY <1>7, <2>2 DEF OlderBy
<1> DEFINE h == CHOOSE e : e = [q \in DOMAIN d.plans |-> IF d.plans[q].from = NoId THEN {q} ELSE {q} \cup e[d.plans[q].from]]
<1>9. OlderBy(d, h)
  BY <1>8 DEF OlderBy
<1>10. \A p : Chain(d, p) = h[Latest(d, p)]
  BY DEF Chain
<1> HIDE DEF h
<1> DEFINE S == {p \in Listed(d) : h[p] \subseteq Listed(d)}
<1>11. ASSUME NEW p \in Listed(d), \A q \in Listed(d) : p \in Later(d, q) => q \in S
       PROVE  p \in S
  <2>1. h[p] = IF d.plans[p].from = NoId THEN {p} ELSE {p} \cup h[d.plans[p].from]
    BY <1>1, <1>9 DEF OlderBy
  <2>2. CASE d.plans[p].from = NoId
    BY <2>1, <2>2
  <2>3. CASE d.plans[p].from # NoId
    <3>1. d.plans[p].from \in Listed(d) /\ p \in Later(d, d.plans[p].from)
      BY <1>1, <2>3 DEF FromIsEarlier
    <3>2. h[d.plans[p].from] \subseteq Listed(d)
      BY <1>11, <3>1
    <3> QED
      BY <2>1, <2>3, <3>2
  <2> QED
    BY <2>2, <2>3
<1>12. Listed(d) \subseteq S
  <2> HIDE DEF S
  <2> QED
    BY <1>11, InOrder
<1> QED
  BY <1>9, <1>10, <1>12

\* A first derivative derives from its version: what is older than a version is
\* older than the newest one.
LEMMA OlderThanNewest ==
    ASSUME NEW d, PlansInv(d), NEW f, NewestBy(d, f), NEW u, OlderBy(d, u)
    PROVE  \A p \in Listed(d) : u[p] \subseteq u[f[p]]
<1> DEFINE S == {p \in Listed(d) : u[p] \subseteq u[f[p]]}
<1>1. Listed(d) \subseteq DOMAIN d.plans /\ NoId \notin DOMAIN d.plans
  BY ListedPlans, NoIdIsNone DEF PlansInv
<1>2. ASSUME NEW p \in Listed(d), \A q \in Later(d, p) : q \in S PROVE p \in S
  <2> DEFINE first == d.plans[p].first
  <2>1. f[p] = IF first = NoId THEN p ELSE f[first]
    BY <1>1 DEF NewestBy
  <2>2. CASE first = NoId
    BY <2>1, <2>2
  <2>3. CASE first # NoId
    <3>1. first \in Later(d, p) /\ d.plans[first].from = p
      BY <1>1, <2>3 DEF PlansInv, FirstIsLater, FirstIsDerived
    <3>2. first \in Listed(d) /\ u[first] \subseteq u[f[first]]
      BY <1>2, <3>1
    <3>3. u[first] = {first} \cup u[p]
      BY <1>1, <3>1, <3>2 DEF OlderBy
    <3> QED
      BY <2>1, <2>3, <3>2, <3>3
  <2> QED
    BY <2>2, <2>3
<1>3. Listed(d) \subseteq S
  <2> HIDE DEF S
  <2> QED
    BY <1>2, InReverse DEF PlansInv
<1> QED
  BY <1>3

-----------------------------------------------------------------------------
\* A version by its fields, and with one of them replaced.
Fields(name, kind, from, description, steps, deleted, first) ==
    [name |-> name, kind |-> kind, from |-> from, description |-> description, steps |-> steps,
     deleted |-> deleted, first |-> first]

LEMMA ReplacedName ==
    ASSUME NEW a, NEW b, NEW c, NEW d, NEW e, NEW f, NEW g, NEW x
    PROVE  [Fields(a, b, c, d, e, f, g) EXCEPT !.name = x] = Fields(x, b, c, d, e, f, g)
BY DEF Fields

LEMMA ReplacedFrom ==
    ASSUME NEW a, NEW b, NEW c, NEW d, NEW e, NEW f, NEW g, NEW x
    PROVE  [Fields(a, b, c, d, e, f, g) EXCEPT !.from = x] = Fields(a, b, x, d, e, f, g)
BY DEF Fields

LEMMA ReplacedDescription ==
    ASSUME NEW a, NEW b, NEW c, NEW d, NEW e, NEW f, NEW g, NEW x
    PROVE  [Fields(a, b, c, d, e, f, g) EXCEPT !.description = x] = Fields(a, b, c, x, e, f, g)
BY DEF Fields

LEMMA ReplacedDeleted ==
    ASSUME NEW a, NEW b, NEW c, NEW d, NEW e, NEW f, NEW g, NEW x
    PROVE  [Fields(a, b, c, d, e, f, g) EXCEPT !.deleted = x] = Fields(a, b, c, d, e, x, g)
BY DEF Fields

LEMMA ReplacedFirst ==
    ASSUME NEW a, NEW b, NEW c, NEW d, NEW e, NEW f, NEW g, NEW x
    PROVE  [Fields(a, b, c, d, e, f, g) EXCEPT !.first = x] = Fields(a, b, c, d, e, f, x)
BY DEF Fields

\* What the commands replace in a copy of a version.
LEMMA WithName ==
    ASSUME NEW v, IsVersion(v), NEW x, NEW u, u = [v EXCEPT !.name = x]
    PROVE  IsVersion(u) /\ u.from = v.from /\ u.first = v.first /\ u.steps = v.steps /\ u.deleted = v.deleted /\ u.kind = v.kind
<1>1. PICK a, b, c, d, e, f, g : v = Fields(a, b, c, d, e, f, g)
  BY DEF IsVersion, Fields
<1>2. u = Fields(x, b, c, d, e, f, g)
  BY <1>1, ReplacedName
<1> QED
  BY <1>1, <1>2 DEF IsVersion, Fields

LEMMA WithFrom ==
    ASSUME NEW v, IsVersion(v), NEW x, NEW u, u = [v EXCEPT !.from = x]
    PROVE  IsVersion(u) /\ u.from = x /\ u.first = v.first /\ u.steps = v.steps /\ u.deleted = v.deleted /\ u.kind = v.kind
<1>1. PICK a, b, c, d, e, f, g : v = Fields(a, b, c, d, e, f, g)
  BY DEF IsVersion, Fields
<1>2. u = Fields(a, b, x, d, e, f, g)
  BY <1>1, ReplacedFrom
<1> QED
  BY <1>1, <1>2 DEF IsVersion, Fields

LEMMA WithDescription ==
    ASSUME NEW v, IsVersion(v), NEW x, NEW u, u = [v EXCEPT !.description = x]
    PROVE  IsVersion(u) /\ u.from = v.from /\ u.first = v.first /\ u.steps = v.steps /\ u.deleted = v.deleted /\ u.kind = v.kind
<1>1. PICK a, b, c, d, e, f, g : v = Fields(a, b, c, d, e, f, g)
  BY DEF IsVersion, Fields
<1>2. u = Fields(a, b, c, x, e, f, g)
  BY <1>1, ReplacedDescription
<1> QED
  BY <1>1, <1>2 DEF IsVersion, Fields

LEMMA WithDeleted ==
    ASSUME NEW v, IsVersion(v), NEW x, NEW u, u = [v EXCEPT !.deleted = x]
    PROVE  IsVersion(u) /\ u.from = v.from /\ u.first = v.first /\ u.steps = v.steps /\ u.kind = v.kind
<1>1. PICK a, b, c, d, e, f, g : v = Fields(a, b, c, d, e, f, g)
  BY DEF IsVersion, Fields
<1>2. u = Fields(a, b, c, d, e, x, g)
  BY <1>1, ReplacedDeleted
<1> QED
  BY <1>1, <1>2 DEF IsVersion, Fields

LEMMA WithFirst ==
    ASSUME NEW v, IsVersion(v), NEW x, NEW u, u = [v EXCEPT !.first = x]
    PROVE  /\ IsVersion(u) /\ u.first = x /\ u.from = v.from /\ u.steps = v.steps
           /\ u.kind = v.kind /\ u.deleted = v.deleted
<1>1. PICK a, b, c, d, e, f, g : v = Fields(a, b, c, d, e, f, g)
  BY DEF IsVersion, Fields
<1>2. u = Fields(a, b, c, d, e, f, x)
  BY <1>1, ReplacedFirst
<1> QED
  BY <1>1, <1>2 DEF IsVersion, Fields

-----------------------------------------------------------------------------
\* What a step does to the versions: nothing that is listed is taken away or
\* changed, but for its first derivative.
Keeps(d, e) ==
    /\ DOMAIN d.plans \subseteq DOMAIN e.plans
    /\ Listed(d) \subseteq Listed(e)
    /\ \A p \in Listed(d) : e.plans[p].from = d.plans[p].from /\ e.plans[p].deleted = d.plans[p].deleted
    /\ VersionsStay(d, e)

\* Nor is anything that is stored, when versions are listed.
HaveSameContents(v, u) ==
    /\ v.name = u.name /\ v.kind = u.kind /\ v.from = u.from /\ v.description = u.description
    /\ v.steps = u.steps /\ v.deleted = u.deleted
ContentsStay(d, e) == \A p \in DOMAIN d.plans : HaveSameContents(d.plans[p], e.plans[p])

\* New versions that may be stored.
MayBeStored(d, versions) ==
    /\ versions = [x \in DOMAIN versions |-> versions[x]]
    /\ IsFiniteSet(DOMAIN versions)
    /\ \A x \in DOMAIN versions :
        /\ x \notin Listed(d)
        /\ x[1] \in {"uuid", "file", "step"}
        /\ x[1] = "uuid" => x[2] = Cardinality(DOMAIN d.plans)
        /\ IsVersion(versions[x])
        /\ versions[x].from \in Listed(d) \cup {NoId}
        /\ versions[x].steps \subseteq DOMAIN d.plans \cup DOMAIN versions
        /\ versions[x].first = NoId

LEMMA StoreKeepsPlans ==
    ASSUME NEW d, PlansInv(d), NEW versions, MayBeStored(d, versions)
    PROVE  /\ PlansInv(Store(d, versions))
           /\ Keeps(d, Store(d, versions))
           /\ Listed(Store(d, versions)) = Listed(d)
           /\ DOMAIN Store(d, versions).plans = DOMAIN d.plans \cup DOMAIN versions
<1> DEFINE e == Store(d, versions)
           n == Cardinality(DOMAIN d.plans)
           m == Cardinality(DOMAIN e.plans)
<1>1. /\ e = [plans |-> Over(versions, d.plans), listed |-> d.listed, byName |-> d.byName]
      /\ e.plans = Over(versions, d.plans) /\ e.listed = d.listed /\ e.byName = d.byName
  BY DEF PlansInv, IsDatabase, Store
<1>2. /\ DOMAIN e.plans = DOMAIN d.plans \cup DOMAIN versions
      /\ \A p \in DOMAIN e.plans : e.plans[p] = IF p \in DOMAIN versions THEN versions[p] ELSE d.plans[p]
      /\ e.plans = [p \in DOMAIN e.plans |-> e.plans[p]]
  <2> HIDE DEF e
  <2>1. e.plans = Over(versions, d.plans)
    BY <1>1
  <2> QED
    BY <2>1 DEF Over
<1> HIDE DEF e
<1>3. Listed(e) = Listed(d) /\ \A p : Later(e, p) = Later(d, p)
  BY <1>1 DEF Listed, Later
<1>4. Listed(d) \subseteq DOMAIN d.plans
  BY ListedPlans DEF PlansInv
<1>5. \A p \in Listed(d) : p \in DOMAIN e.plans /\ e.plans[p] = d.plans[p]
  BY <1>2, <1>4 DEF MayBeStored
<1>6. IsDatabase(e)
  <2>1. IsFiniteSet(DOMAIN e.plans)
    <3>1. IsFiniteSet(DOMAIN d.plans) /\ IsFiniteSet(DOMAIN versions)
      BY DEF PlansInv, IsDatabase, MayBeStored
    <3>2. IsFiniteSet(DOMAIN d.plans \cup DOMAIN versions)
      BY <3>1, FS_Union
    <3> QED
      BY <1>2, <3>2
  <2>2. d.listed \in Seq(DOMAIN d.plans)
    BY DEF PlansInv, IsDatabase
  <2>3. e.listed \in Seq(DOMAIN e.plans)
    BY <1>1, <1>2, <2>2
  <2> QED
    BY <1>1, <1>2, <2>1, <2>3 DEF PlansInv, IsDatabase
<1>7. \A p \in DOMAIN e.plans : RefersToStored(e, e.plans[p])
  BY <1>2, <1>3 DEF PlansInv, RefersToStored, MayBeStored
<1>8. \A p \in DOMAIN e.plans : IsId(p, m)
  <2>1. IsFiniteSet(DOMAIN d.plans) /\ IsFiniteSet(DOMAIN e.plans)
    BY <1>6 DEF PlansInv, IsDatabase
  <2>2. n \in Nat /\ m \in Nat /\ n <= m
    BY <1>2, <2>1, FS_Subset, FS_CardinalityType
  <2>3. ASSUME NEW p \in DOMAIN d.plans PROVE IsId(p, m)
    <3>1. IsId(p, n)
      BY DEF PlansInv
    <3> QED
      BY <2>2, <3>1 DEF IsId
  <2>4. ASSUME NEW p \in DOMAIN versions PROVE IsId(p, m)
    <3>1. p[1] \in {"uuid", "file", "step"} /\ (p[1] = "uuid" => p[2] = n)
      BY DEF MayBeStored
    <3>2. CASE p[1] = "uuid"
      <4>1. p \notin DOMAIN d.plans
        <5>1. SUFFICES ASSUME IsId(p, n) PROVE FALSE
          BY DEF PlansInv
        <5> QED
          BY <2>2, <3>1, <3>2, <5>1 DEF IsId
      <4>2. DOMAIN e.plans # DOMAIN d.plans
        BY <1>2, <4>1
      <4>3. m # n
        BY <1>2, <2>1, <4>2, FS_Subset
      <4> QED
        BY <2>2, <3>1, <3>2, <4>3 DEF IsId
    <3> QED
      BY <3>1, <3>2 DEF IsId
  <2> QED
    BY <1>2, <2>3, <2>4
<1>9. FirstIsLater(e)
  BY <1>2, <1>3 DEF PlansInv, FirstIsLater, MayBeStored
<1>10. IsListedOnce(e) /\ FromIsEarlier(e)
  BY <1>1, <1>3, <1>5 DEF PlansInv, IsListedOnce, FromIsEarlier
<1>11. NamesLeadToNewest(e)
  BY <1>1, <1>3, <1>5 DEF PlansInv, NamesLeadToNewest
<1>12. NewestHaveNames(e)
  <2>1. ASSUME NEW p \in Listed(d), NEW q \in Later(d, p)
        PROVE  Displaces(e, q, p) <=> Displaces(d, q, p)
    <3>1. q \in Listed(d)
      BY DEF Later
    <3>2. e.plans[p] = d.plans[p] /\ e.plans[q] = d.plans[q]
      BY <1>5, <3>1
    <3>3. d.plans[q].from \in Listed(d) \cup {NoId}
      BY <1>4, <3>1 DEF PlansInv, RefersToStored
    <3>4. d.plans[q].from # NoId => e.plans[d.plans[q].from] = d.plans[d.plans[q].from]
      BY <1>5, <3>3
    <3> QED
      BY <3>2, <3>4 DEF Displaces
  <2> QED
    BY <1>1, <1>3, <1>5, <2>1 DEF PlansInv, NewestHaveNames
<1>13. Keeps(d, e)
  BY <1>2, <1>3, <1>5 DEF Keeps, VersionsStay
<1>14. FirstIsDerived(e)
  <2> SUFFICES ASSUME NEW p \in DOMAIN e.plans, e.plans[p].first # NoId
               PROVE  e.plans[e.plans[p].first].from = p
    BY DEF FirstIsDerived
  <2>1. p \in DOMAIN d.plans /\ e.plans[p] = d.plans[p]
    BY <1>2 DEF MayBeStored
  <2>2. d.plans[p].first \in Listed(d) /\ d.plans[d.plans[p].first].from = p
    BY <2>1 DEF PlansInv, FirstIsLater, FirstIsDerived, Later
  <2> QED
    BY <1>5, <2>1, <2>2
<1> QED
  BY <1>2, <1>3, <1>6, <1>7, <1>8, <1>9, <1>10, <1>11, <1>12, <1>13, <1>14 DEF PlansInv, e

LEMMA AddKeepsPlans ==
    ASSUME NEW d, PlansInv(d), NEW p \in DOMAIN d.plans, NEW before \in BOOLEAN
    PROVE  /\ PlansInv(Add(d, p, before))
           /\ Keeps(d, Add(d, p, before))
           /\ Listed(Add(d, p, before)) = Listed(d) \cup {p}
           /\ DOMAIN Add(d, p, before).plans = DOMAIN d.plans
           /\ \A q \in DOMAIN d.plans : Add(d, p, before).plans[q].deleted = d.plans[q].deleted
           /\ ContentsStay(d, Add(d, p, before))
<1> DEFINE e == Add(d, p, before)
           from == d.plans[p].from
           n == Len(d.listed)
<1>1. CASE p \in Listed(d)
  BY <1>1 DEF Add, Keeps, VersionsStay, ContentsStay, HaveSameContents
<1>2. CASE p \notin Listed(d)
  <2>1. /\ n \in Nat /\ DOMAIN d.listed = 1..n
        /\ Listed(d) = {d.listed[i] : i \in 1..n}
        /\ Listed(d) \subseteq DOMAIN d.plans
    BY ListedPlans DEF PlansInv
  <2>2. d.listed \in Seq(DOMAIN d.plans)
    BY DEF PlansInv, IsDatabase
  <2>3. from \in Listed(d) \cup {NoId} /\ from # p /\ p # NoId /\ NoId \notin DOMAIN d.plans
    BY <1>2, NoIdIsNone DEF PlansInv, RefersToStored
  <2>4. /\ e = [plans |-> e.plans, listed |-> Append(d.listed, p), byName |-> PopThenAdd(d, p)]
        /\ e.listed = Append(d.listed, p) /\ e.byName = PopThenAdd(d, p)
        /\ \/ e.plans = d.plans
           \/ from # NoId /\ e.plans = [d.plans EXCEPT ![from].first = p]
    BY <1>2 DEF Add
  <2>5. /\ DOMAIN e.plans = DOMAIN d.plans
        /\ e.plans = [q \in DOMAIN e.plans |-> e.plans[q]]
        /\ \A q \in DOMAIN d.plans : \/ e.plans[q] = d.plans[q]
                                     \/ q = from /\ from # NoId /\ e.plans[q] = [d.plans[q] EXCEPT !.first = p]
    BY <2>4 DEF PlansInv, IsDatabase
  <2>6. /\ Len(e.listed) = n + 1 /\ DOMAIN e.listed = 1..n + 1
        /\ e.listed[n + 1] = p /\ \A i \in 1..n : e.listed[i] = d.listed[i]
        /\ e.listed \in Seq(DOMAIN e.plans)
    <3>1. p \in DOMAIN d.plans /\ e.listed = Append(d.listed, p)
      BY <2>4
    <3> HIDE DEF e
    <3>2. /\ e.listed \in Seq(DOMAIN d.plans) /\ Len(e.listed) = n + 1 /\ e.listed[n + 1] = p
          /\ \A i \in 1..n : e.listed[i] = d.listed[i]
      <4>1. /\ Append(d.listed, p) \in Seq(DOMAIN d.plans) /\ Len(Append(d.listed, p)) = n + 1
            /\ Append(d.listed, p)[n + 1] = p
            /\ \A i \in 1..n : Append(d.listed, p)[i] = d.listed[i]
        <5> DEFINE S == DOMAIN d.plans
                   s == d.listed
        <5>1. s \in Seq(S) /\ p \in S
          BY <2>2
        <5> HIDE DEF S, s
        <5>2. /\ Append(s, p) \in Seq(S) /\ Len(Append(s, p)) = Len(s) + 1 /\ Append(s, p)[Len(s) + 1] = p
              /\ \A i \in 1..Len(s) : Append(s, p)[i] = s[i]
          BY <5>1, Appended
        <5> QED
          BY <5>2 DEF S, s
      <4> QED
        BY <3>1, <4>1
    <3> QED
      BY <2>1, <2>5, <3>2
  <2>7. /\ DOMAIN e.byName = {d.plans[p].name} \cup {name \in DOMAIN d.byName : from = NoId \/ name # d.plans[from].name}
        /\ \A name \in DOMAIN e.byName : e.byName[name] = IF name = d.plans[p].name THEN p ELSE d.byName[name]
        /\ e.byName = [name \in DOMAIN e.byName |-> e.byName[name]]
    <3> DEFINE kept == IF from = NoId THEN d.byName ELSE Without(d.byName, d.plans[from].name)
    <3>1. e.byName = Over(Only(d.plans[p].name, p), kept)
      BY <2>4 DEF PopThenAdd
    <3>2. /\ DOMAIN kept = {name \in DOMAIN d.byName : from = NoId \/ name # d.plans[from].name}
          /\ \A name \in DOMAIN kept : kept[name] = d.byName[name]
      BY DEF Without
    <3> HIDE DEF e, kept
    <3>3. /\ DOMAIN e.byName = DOMAIN kept \cup {d.plans[p].name}
          /\ \A name \in DOMAIN e.byName : e.byName[name] = IF name = d.plans[p].name THEN p ELSE kept[name]
          /\ e.byName = [name \in DOMAIN e.byName |-> e.byName[name]]
      BY <3>1 DEF Only, Over
    <3> QED
      BY <3>2, <3>3
  <2> HIDE DEF e
  <2>8. Listed(e) = Listed(d) \cup {p}
    <3>1. Listed(e) = {e.listed[i] : i \in 1..n + 1}
      BY <2>6 DEF Listed, Range
    <3>2. \A i \in 1..n + 1 : i \in 1..n \/ i = n + 1
      BY <2>1
    <3>3. n + 1 \in 1..n + 1 /\ 1..n \subseteq 1..n + 1
      BY <2>1
    <3> QED
      BY <2>1, <2>6, <3>1, <3>2, <3>3
  <2>9. \A q : Later(d, q) \subseteq Later(e, q)
    <3> SUFFICES ASSUME NEW q, NEW r \in Later(d, q) PROVE r \in Later(e, q)
      OBVIOUS
    <3>1. PICK i, j \in 1..n : i < j /\ d.listed[i] = q /\ d.listed[j] = r
      BY <2>1 DEF Later
    <3>2. i \in 1..n + 1 /\ j \in 1..n + 1 /\ e.listed[i] = q /\ e.listed[j] = r
      BY <2>1, <2>6, <3>1
    <3>3. r \in Listed(e)
      BY <2>8 DEF Later
    <3> QED
      BY <2>6, <3>1, <3>2, <3>3 DEF Later
  <2>10. \A q \in Listed(d) : p \in Later(e, q)
    <3> SUFFICES ASSUME NEW q \in Listed(d) PROVE p \in Later(e, q)
      OBVIOUS
    <3>1. PICK i \in 1..n : d.listed[i] = q
      BY <2>1
    <3>2. i \in DOMAIN e.listed /\ n + 1 \in DOMAIN e.listed /\ i < n + 1
      BY <2>1, <2>6
    <3> QED
      BY <2>6, <2>8, <3>1, <3>2 DEF Later
  <2>11. \A q \in DOMAIN d.plans : /\ IsVersion(d.plans[q]) /\ d.plans[q].from \in Listed(d) \cup {NoId}
                                   /\ d.plans[q].steps \subseteq DOMAIN d.plans
    BY DEF PlansInv, RefersToStored
  <2>12. \A q \in DOMAIN d.plans :
            /\ IsVersion(e.plans[q])
            /\ e.plans[q].name = d.plans[q].name /\ e.plans[q].from = d.plans[q].from /\ e.plans[q].steps = d.plans[q].steps
            /\ e.plans[q].deleted = d.plans[q].deleted
            /\ e.plans[q].kind = d.plans[q].kind /\ e.plans[q].description = d.plans[q].description
            /\ [e.plans[q] EXCEPT !.first = NoId] = [d.plans[q] EXCEPT !.first = NoId]
            /\ e.plans[q].first = d.plans[q].first \/ (q \in Listed(d) /\ e.plans[q].first = p)
    <3> SUFFICES ASSUME NEW q \in DOMAIN d.plans
                 PROVE  /\ IsVersion(e.plans[q])
                        /\ e.plans[q].name = d.plans[q].name /\ e.plans[q].from = d.plans[q].from /\ e.plans[q].steps = d.plans[q].steps
                        /\ e.plans[q].deleted = d.plans[q].deleted
                        /\ e.plans[q].kind = d.plans[q].kind /\ e.plans[q].description = d.plans[q].description
                        /\ [e.plans[q] EXCEPT !.first = NoId] = [d.plans[q] EXCEPT !.first = NoId]
                        /\ e.plans[q].first = d.plans[q].first \/ (q \in Listed(d) /\ e.plans[q].first = p)
      OBVIOUS
    <3>1. CASE e.plans[q] = d.plans[q]
      BY <2>11, <3>1
    <3>2. CASE q = from /\ from # NoId /\ e.plans[q] = [d.plans[q] EXCEPT !.first = p]
      <4>1. IsVersion(d.plans[q]) /\ q \in Listed(d)
        BY <2>3, <2>11, <3>2
      <4>2. e.plans[q] = [name |-> d.plans[q].name, kind |-> d.plans[q].kind, from |-> d.plans[q].from,
                          description |-> d.plans[q].description, steps |-> d.plans[q].steps,
                          deleted |-> d.plans[q].deleted, first |-> p]
        BY <3>2, <4>1 DEF IsVersion
      <4>3. [e.plans[q] EXCEPT !.first = NoId] = [d.plans[q] EXCEPT !.first = NoId]
        BY <4>1, <4>2 DEF IsVersion
      <4> QED
        BY <4>1, <4>2, <4>3 DEF IsVersion
    <3> QED
      BY <2>5, <3>1, <3>2
  <2>13. IsDatabase(e)
    BY <2>4, <2>5, <2>6, <2>7 DEF PlansInv, IsDatabase
  <2>14. \A q \in DOMAIN e.plans : RefersToStored(e, e.plans[q])
    BY <2>5, <2>8, <2>11, <2>12 DEF RefersToStored
  <2>15. \A q \in DOMAIN e.plans : IsId(q, Cardinality(DOMAIN e.plans))
    BY <2>5 DEF PlansInv
  <2>16. FirstIsLater(e)
    <3>1. SUFFICES ASSUME NEW q \in DOMAIN d.plans, e.plans[q].first # NoId
                   PROVE  e.plans[q].first \in Later(e, q)
      BY <2>5 DEF FirstIsLater
    <3>2. CASE e.plans[q].first = d.plans[q].first
      BY <2>9, <3>1, <3>2 DEF PlansInv, FirstIsLater
    <3>3. CASE q \in Listed(d) /\ e.plans[q].first = p
      BY <2>10, <3>3
    <3> QED
      BY <2>3, <2>12, <3>2, <3>3
  <2>17. IsListedOnce(e)
    <3> SUFFICES ASSUME NEW i \in 1..n + 1, NEW j \in 1..n + 1, e.listed[i] = e.listed[j]
                 PROVE  i = j
      BY <2>6 DEF IsListedOnce
    <3>1. i \in 1..n /\ j \in 1..n => i = j
      BY <2>6 DEF PlansInv, IsListedOnce
    <3>2. \A k \in 1..n : e.listed[k] # p
      BY <1>2, <2>1, <2>6
    <3>3. \A k \in 1..n + 1 : k \in 1..n \/ k = n + 1
      BY <2>1
    <3> QED
      BY <2>6, <3>1, <3>2, <3>3
  <2>18. NamesLeadToNewest(e)
    <3> SUFFICES ASSUME NEW name \in DOMAIN e.byName
                 PROVE  /\ e.byName[name] \in Listed(e) /\ e.plans[e.byName[name]].name = name
                        /\ \A q \in Listed(e) : e.plans[q].from # e.byName[name]
      BY DEF NamesLeadToNewest
    <3>0. /\ \A q \in Listed(d) \cup {p} : e.plans[q].name = d.plans[q].name /\ e.plans[q].from = d.plans[q].from
          /\ d.plans[p].from = from
      <4>1. \A q \in DOMAIN d.plans : e.plans[q].name = d.plans[q].name /\ e.plans[q].from = d.plans[q].from
        BY <2>12
      <4> QED
        BY <1>2, <2>1, <4>1
    <3>1. CASE name = d.plans[p].name
      <4>1. \A q \in Listed(d) : d.plans[q].from # p
        BY <1>2, <2>1, <2>3, <2>11
      <4>2. \A q \in Listed(e) : e.plans[q].from # p
        BY <2>3, <2>8, <3>0, <4>1
      <4> QED
        BY <2>7, <2>8, <3>0, <3>1, <4>2
    <3>2. CASE name # d.plans[p].name
      <4> DEFINE r == d.byName[name]
      <4>1. name \in DOMAIN d.byName /\ e.byName[name] = r /\ (from = NoId \/ name # d.plans[from].name)
        BY <2>7, <3>2
      <4>2. r \in Listed(d) /\ d.plans[r].name = name /\ \A q \in Listed(d) : d.plans[q].from # r
        BY <4>1 DEF PlansInv, NamesLeadToNewest
      <4>3. from # r
        BY <2>1, <2>3, <4>1, <4>2
      <4> QED
        BY <2>8, <3>0, <4>1, <4>2, <4>3
    <3> QED
      BY <3>1, <3>2
  <2>19. NewestHaveNames(e)
    <3> SUFFICES ASSUME NEW q \in Listed(e), ~\E r \in Later(e, q) : Displaces(e, r, q)
                 PROVE  e.plans[q].name \in DOMAIN e.byName /\ e.byName[e.plans[q].name] = q
      BY DEF NewestHaveNames
    <3>1. CASE q = p
      BY <2>7, <2>12, <3>1
    <3>2. CASE q # p
      <4>1. q \in Listed(d)
        BY <2>8, <3>2
      <4>2. d.plans[q].name # d.plans[p].name /\ (from # NoId => d.plans[q].name # d.plans[from].name)
        <5>1. ~Displaces(e, p, q)
          BY <2>10, <4>1
        <5>2. from # NoId => from \in DOMAIN d.plans
          BY <2>1, <2>3
        <5>3. e.plans[p].from = from /\ e.plans[p].name = d.plans[p].name /\ e.plans[q].name = d.plans[q].name
          BY <2>1, <2>12, <4>1
        <5>4. from # NoId => e.plans[from].name = d.plans[from].name
          BY <2>12, <5>2
        <5> QED
          BY <5>1, <5>3, <5>4 DEF Displaces
      <4>3. ASSUME NEW r \in Later(d, q) PROVE ~Displaces(d, r, q)
        <5>1. r \in Listed(d) /\ ~Displaces(e, r, q)
          BY <2>9 DEF Later
        <5> DEFINE s == d.plans[r].from
        <5>2. s \in Listed(d) \cup {NoId}
          BY <2>1, <2>11, <5>1
        <5>3. e.plans[r].from = s /\ e.plans[r].name = d.plans[r].name /\ e.plans[q].name = d.plans[q].name
          BY <2>1, <2>12, <4>1, <5>1
        <5>4. s # NoId => e.plans[s].name = d.plans[s].name
          BY <2>1, <2>12, <5>2
        <5> QED
          BY <5>1, <5>3, <5>4 DEF Displaces
      <4>4. d.plans[q].name \in DOMAIN d.byName /\ d.byName[d.plans[q].name] = q
        BY <4>1, <4>3 DEF PlansInv, NewestHaveNames
      <4>5. e.plans[q].name = d.plans[q].name
        BY <2>1, <2>12, <4>1
      <4>6. d.plans[q].name \in DOMAIN e.byName
        BY <2>7, <4>2, <4>4
      <4> QED
        BY <2>7, <4>2, <4>4, <4>5, <4>6
    <3> QED
      BY <3>1, <3>2
  <2>20. Keeps(d, e)
    <3>1. \A q \in Listed(d) : q \in DOMAIN d.plans
      BY <2>1
    <3>2. VersionsStay(d, e)
      BY <2>12, <3>1 DEF VersionsStay
    <3>3. \A q \in DOMAIN d.plans : e.plans[q].from = d.plans[q].from /\ e.plans[q].deleted = d.plans[q].deleted
      BY <2>12
    <3> HIDE DEF n, from
    <3> QED
      BY <2>5, <2>8, <3>1, <3>2, <3>3 DEF Keeps
  <2>21. FromIsEarlier(e)
    <3> SUFFICES ASSUME NEW q \in Listed(e), e.plans[q].from # NoId
                 PROVE  q \in Later(e, e.plans[q].from)
      BY DEF FromIsEarlier
    <3>0. \A x \in DOMAIN d.plans : e.plans[x].from = d.plans[x].from
      BY <2>12
    <3>1. CASE q = p
      <4>1. e.plans[q].from = from
        BY <3>0, <3>1
      <4> QED
        BY <2>3, <2>10, <3>1, <4>1
    <3>2. CASE q # p
      <4>1. q \in Listed(d) /\ e.plans[q].from = d.plans[q].from
        BY <2>1, <2>8, <3>0, <3>2
      <4>2. q \in Later(d, d.plans[q].from)
        BY <4>1 DEF PlansInv, FromIsEarlier
      <4> QED
        BY <2>9, <4>1, <4>2
    <3> QED
      BY <3>1, <3>2
  <2>22. FirstIsDerived(e)
    <3> SUFFICES ASSUME NEW q \in DOMAIN d.plans, e.plans[q].first # NoId
                 PROVE  e.plans[e.plans[q].first].from = q
      BY <2>5 DEF FirstIsDerived
    <3>0. \A x \in DOMAIN d.plans : e.plans[x].from = d.plans[x].from
      BY <2>12
    <3>1. CASE e.plans[q] = d.plans[q]
      <4>1. d.plans[q].first \in DOMAIN d.plans /\ d.plans[d.plans[q].first].from = q
        BY <2>1, <3>1 DEF PlansInv, FirstIsLater, FirstIsDerived, Later
      <4> QED
        BY <3>0, <3>1, <4>1
    <3>2. CASE q = from /\ e.plans[q] = [d.plans[q] EXCEPT !.first = p]
      <4>1. e.plans[q].first = p
        BY <2>11, <3>2, WithFirst
      <4> QED
        BY <3>0, <3>2, <4>1
    <3> QED
      BY <2>5, <3>1, <3>2
  <2>23. \A q \in DOMAIN d.plans : e.plans[q].deleted = d.plans[q].deleted
    BY <2>12
  <2>24. ContentsStay(d, e)
    BY <2>12 DEF ContentsStay, HaveSameContents
  <2> QED
    BY <2>5, <2>8, <2>13, <2>14, <2>15, <2>16, <2>17, <2>18, <2>19, <2>20, <2>21, <2>22, <2>23, <2>24 DEF PlansInv, e
<1> QED
  BY <1>1, <1>2

-----------------------------------------------------------------------------
\* Steps that only store and list versions.

LEMMA KeepsIsTransitive ==
    ASSUME NEW d, NEW e, NEW f, Keeps(d, e), Keeps(e, f)
    PROVE  Keeps(d, f)
BY DEF Keeps, VersionsStay

\* A random identifier was not used.
LEMMA UuidIsNew ==
    ASSUME NEW d, PlansInv(d)
    PROVE  Uuid(d) \notin DOMAIN d.plans
<1>1. Cardinality(DOMAIN d.plans) \in Nat
  BY FS_CardinalityType DEF PlansInv, IsDatabase
<1>2. Uuid(d)[1] = "uuid" /\ Uuid(d)[2] = Cardinality(DOMAIN d.plans)
  BY DEF Uuid
<1>3. ~IsId(Uuid(d), Cardinality(DOMAIN d.plans))
  BY <1>1, <1>2 DEF IsId
<1> QED
  BY <1>3 DEF PlansInv

LEMMA OneMayBeStored ==
    ASSUME NEW d, PlansInv(d), NEW p, NEW version,
           p = Uuid(d), IsVersion(version), version.first = NoId,
           version.from \in Listed(d) \cup {NoId}, version.steps \subseteq DOMAIN d.plans
    PROVE  /\ MayBeStored(d, Only(p, version)) /\ DOMAIN Only(p, version) = {p}
           /\ Only(p, version)[p] = version
<1> DEFINE versions == Only(p, version)
<1>1. DOMAIN versions = {p} /\ versions[p] = version /\ versions = [x \in DOMAIN versions |-> versions[x]]
  BY DEF Only
<1>2. p[1] = "uuid" /\ p[2] = Cardinality(DOMAIN d.plans)
  BY DEF Uuid
<1>3. p \notin Listed(d)
  BY UuidIsNew, ListedPlans DEF PlansInv
<1> HIDE DEF versions
<1>4. MayBeStored(d, versions)
  <2>1. IsFiniteSet(DOMAIN versions)
    <3>1. IsFiniteSet({p})
      BY FS_Singleton
    <3> QED
      BY <1>1, <3>1
  <2>2. p[1] \in {"uuid", "file", "step"}
    BY <1>2
  <2>3. \A x \in DOMAIN versions : x = p /\ versions[x] = version
    BY <1>1
  <2>4. versions = [x \in DOMAIN versions |-> versions[x]]
    BY <1>1
  <2> QED
    <3>1. /\ p \notin Listed(d) /\ (p[1] = "uuid" => p[2] = Cardinality(DOMAIN d.plans))
          /\ version.steps \subseteq DOMAIN d.plans \cup DOMAIN versions
      BY <1>2, <1>3
    <3>2. ASSUME NEW x \in DOMAIN versions
          PROVE  /\ x \notin Listed(d)
                 /\ x[1] \in {"uuid", "file", "step"}
                 /\ x[1] = "uuid" => x[2] = Cardinality(DOMAIN d.plans)
                 /\ IsVersion(versions[x])
                 /\ versions[x].from \in Listed(d) \cup {NoId}
                 /\ versions[x].steps \subseteq DOMAIN d.plans \cup DOMAIN versions
                 /\ versions[x].first = NoId
      <4>1. x = p /\ versions[x] = version
        BY <2>3
      <4> QED
        BY <2>2, <3>1, <4>1
    <3> QED
      BY <2>1, <2>4, <3>2 DEF MayBeStored
<1> QED
  BY <1>1, <1>4 DEF versions

LEMMA StoreOne ==
    ASSUME NEW d, PlansInv(d), NEW p, NEW version, NEW before \in BOOLEAN,
           p = Uuid(d), IsVersion(version), version.first = NoId,
           version.from \in Listed(d) \cup {NoId}, version.steps \subseteq DOMAIN d.plans
    PROVE  PlansInv(AddNew(d, p, version, before)) /\ Keeps(d, AddNew(d, p, version, before))
<1> DEFINE versions == Only(p, version)
<1>1. MayBeStored(d, versions) /\ DOMAIN versions = {p}
  BY OneMayBeStored
<1> HIDE DEF versions
<1>2. /\ PlansInv(Store(d, versions)) /\ Keeps(d, Store(d, versions))
      /\ p \in DOMAIN Store(d, versions).plans
  BY <1>1, StoreKeepsPlans
<1>3. /\ PlansInv(Add(Store(d, versions), p, before))
      /\ Keeps(Store(d, versions), Add(Store(d, versions), p, before))
  BY <1>2, AddKeepsPlans
<1> QED
  BY <1>2, <1>3, KeepsIsTransitive DEF AddNew, versions

\* The chain of a version: listed, with the version itself, and the same as that
\* of the newest version.
LEMMA Chains ==
    ASSUME NEW d, PlansInv(d)
    PROVE  /\ \A p \in Listed(d) : Chain(d, p) \subseteq Listed(d) /\ p \in Chain(d, p)
           /\ \A p \in Listed(d) : Latest(d, p) \in Listed(d) /\ Latest(d, Latest(d, p)) = Latest(d, p)
           /\ \A p, q : Latest(d, p) = Latest(d, q) => Chain(d, p) = Chain(d, q)
<1>1. PICK f : /\ NewestBy(d, f) /\ \A p : Latest(d, p) = f[p]
               /\ \A p \in Listed(d) : f[p] \in Listed(d) /\ d.plans[f[p]].first = NoId
  BY LatestLoop DEF PlansInv
<1>2. PICK u : /\ OlderBy(d, u) /\ \A p : Chain(d, p) = u[Latest(d, p)]
               /\ \A p \in Listed(d) : u[p] \subseteq Listed(d)
  BY ChainLoop DEF PlansInv, RefersToStored
<1>3. Listed(d) \subseteq DOMAIN d.plans
  BY ListedPlans DEF PlansInv
<1>4. \A p \in Listed(d) : f[f[p]] = f[p]
  BY <1>1, <1>3 DEF NewestBy
<1>5. \A p \in Listed(d) : u[p] \subseteq u[f[p]]
  BY <1>1, <1>2, OlderThanNewest
<1>6. \A p \in Listed(d) : p \in u[p]
  BY <1>2, <1>3 DEF OlderBy
<1>7. \A p \in Listed(d) : Chain(d, p) = u[f[p]]
  BY <1>1, <1>2
<1>8. \A p \in Listed(d) : u[f[p]] \subseteq Listed(d)
  BY <1>1, <1>2
<1> QED
  BY <1>1, <1>2, <1>4, <1>5, <1>6, <1>7, <1>8

\* When versions get new first derivatives, a chain stays as it is or ends with
\* such a derivative: after all of its versions, if the derivative is the first.
LEMMA ChainsChange ==
    ASSUME NEW d, PlansInv(d), NEW e, PlansInv(e), Listed(d) \subseteq Listed(e),
           \A p \in Listed(d) : e.plans[p].from = d.plans[p].from,
           \A p \in Listed(d) :
              LET first == e.plans[p].first
              IN  \/ first = d.plans[p].first
                  \/ first \in Listed(e) /\ e.plans[first].from = p /\ e.plans[first].first = NoId
    PROVE  \A p \in Listed(d) :
              \/ Latest(e, p) = Latest(d, p) /\ Chain(e, p) = Chain(d, p)
              \/ \E q \in Listed(d) :
                    /\ Latest(d, p) = Latest(d, q)
                    /\ e.plans[q].first # d.plans[q].first /\ Latest(e, p) = e.plans[q].first
                    /\ Chain(e, p) \subseteq {e.plans[q].first} \cup Chain(d, q)
                    /\ d.plans[q].first = NoId => Latest(d, q) = q /\ Chain(d, q) \subseteq Chain(e, p)
<1>1. PICK f : /\ NewestBy(d, f) /\ \A p : Latest(d, p) = f[p]
               /\ \A p \in Listed(d) : f[p] \in Listed(d) /\ d.plans[f[p]].first = NoId
  BY LatestLoop DEF PlansInv
<1>2. PICK g : NewestBy(e, g) /\ \A p : Latest(e, p) = g[p]
  BY LatestLoop DEF PlansInv
<1>3. PICK u : /\ OlderBy(d, u) /\ \A p : Chain(d, p) = u[Latest(d, p)]
               /\ \A p \in Listed(d) : u[p] \subseteq Listed(d)
  BY ChainLoop DEF PlansInv, RefersToStored
<1>4. PICK w : OlderBy(e, w) /\ \A p : Chain(e, p) = w[Latest(e, p)]
  BY ChainLoop DEF PlansInv, RefersToStored
<1>5. /\ Listed(d) \subseteq DOMAIN d.plans /\ Listed(e) \subseteq DOMAIN e.plans /\ Listed(d) \subseteq Listed(e)
      /\ NoId \notin Listed(e)
      /\ \A p \in Listed(d) : e.plans[p].from = d.plans[p].from
  <2>1. Listed(d) \subseteq DOMAIN d.plans /\ Listed(e) \subseteq DOMAIN e.plans
    BY ListedPlans DEF PlansInv
  <2>2. NoId \notin DOMAIN e.plans
    BY NoIdIsNone
  <2> QED
    BY <2>1, <2>2
<1>6. /\ \A p \in Listed(d) : f[p] = IF d.plans[p].first = NoId THEN p ELSE f[d.plans[p].first]
      /\ \A p \in Listed(e) : g[p] = IF e.plans[p].first = NoId THEN p ELSE g[e.plans[p].first]
      /\ \A p \in Listed(d) : u[p] = IF d.plans[p].from = NoId THEN {p} ELSE {p} \cup u[d.plans[p].from]
      /\ \A p \in Listed(e) : w[p] = IF e.plans[p].from = NoId THEN {p} ELSE {p} \cup w[e.plans[p].from]
  <2>1. \A p \in DOMAIN d.plans : f[p] = IF d.plans[p].first = NoId THEN p ELSE f[d.plans[p].first]
    BY ONLY <1>1 DEF NewestBy
  <2>2. \A p \in DOMAIN e.plans : g[p] = IF e.plans[p].first = NoId THEN p ELSE g[e.plans[p].first]
    BY <1>2 DEF NewestBy
  <2>3. \A p \in DOMAIN d.plans : u[p] = IF d.plans[p].from = NoId THEN {p} ELSE {p} \cup u[d.plans[p].from]
    BY <1>3 DEF OlderBy
  <2>4. \A p \in DOMAIN e.plans : w[p] = IF e.plans[p].from = NoId THEN {p} ELSE {p} \cup w[e.plans[p].from]
    BY <1>4 DEF OlderBy
  <2> QED
    BY <1>5, <2>1, <2>2, <2>3, <2>4
<1>7. /\ \A p \in Listed(d) : Chain(d, p) = u[f[p]]
      /\ \A p \in Listed(d) : Chain(e, p) = w[g[p]]
  BY <1>1, <1>2, <1>3, <1>4
\* The versions before one are the same as before.
<1>8. \A p \in Listed(d) : w[p] = u[p]
  <2> DEFINE S == {p \in Listed(d) : w[p] = u[p]}
  <2>1. ASSUME NEW p \in Listed(d), \A q \in Listed(d) : p \in Later(d, q) => q \in S
        PROVE  p \in S
    <3>1. p \in Listed(e) /\ e.plans[p].from = d.plans[p].from
      BY <1>5
    <3>2. d.plans[p].from # NoId => d.plans[p].from \in S
      <4>1. SUFFICES ASSUME d.plans[p].from # NoId PROVE d.plans[p].from \in S
        OBVIOUS
      <4>2. d.plans[p].from \in Listed(d)
        BY <1>5, <4>1 DEF PlansInv, RefersToStored
      <4>3. p \in Later(d, d.plans[p].from)
        BY <4>1 DEF PlansInv, FromIsEarlier
      <4> QED
        BY <2>1, <4>2, <4>3
    <3>3. /\ u[p] = IF d.plans[p].from = NoId THEN {p} ELSE {p} \cup u[d.plans[p].from]
          /\ w[p] = IF d.plans[p].from = NoId THEN {p} ELSE {p} \cup w[d.plans[p].from]
      <4>1. p \in Listed(d)
        OBVIOUS
      <4> QED
        BY ONLY <1>6, <3>1, <4>1
    <3>4. d.plans[p].from # NoId => w[d.plans[p].from] = u[d.plans[p].from]
      BY <3>2
    <3>5. w[p] = u[p]
      BY <3>3, <3>4
    <3> QED
      BY <3>5
  <2>2. IsDatabase(d) /\ IsListedOnce(d)
    BY DEF PlansInv
  <2>3. Listed(d) \subseteq S
    <3> HIDE DEF S
    <3> QED
      BY <2>1, <2>2, InOrder
  <2> QED
    BY <2>3
\* A version leads to the same newest one, or to a new one derived from another one
\* that led there, too.
<1> DEFINE Moves(p, q) == /\ f[p] = f[q] /\ g[p] \in Listed(e) /\ e.plans[g[p]].from = q
                          /\ g[p] = e.plans[q].first /\ e.plans[q].first # d.plans[q].first
           T == {p \in Listed(d) : g[p] = f[p] \/ \E q \in Listed(d) : Moves(p, q)}
<1>9. ASSUME NEW p \in Listed(d), \A q \in Later(d, p) : q \in T
      PROVE  p \in T
  <2>1. p \in Listed(e)
    BY <1>5
  <2>2. CASE e.plans[p].first = d.plans[p].first /\ d.plans[p].first = NoId
    BY <1>6, <2>1, <2>2
  <2>3. CASE e.plans[p].first = d.plans[p].first /\ d.plans[p].first # NoId
    <3> DEFINE r == d.plans[p].first
    <3>1. r \in Later(d, p)
      BY <1>5, <2>3 DEF PlansInv, FirstIsLater
    <3>2. r \in T
      BY <1>9, <3>1
    <3>3. f[p] = f[r] /\ g[p] = g[r]
      BY <1>6, <2>1, <2>3
    <3> QED
      BY <3>2, <3>3
  <2>4. CASE e.plans[p].first # d.plans[p].first
    <3> DEFINE r == e.plans[p].first
    <3>1. r \in Listed(e) /\ e.plans[r].from = p /\ e.plans[r].first = NoId
      BY <2>4
    <3>2. g[r] = r
      BY <1>6, <3>1
    <3>3. g[p] = r
      BY <1>5, <1>6, <2>1, <3>1, <3>2
    <3>4. Moves(p, p)
      BY <2>4, <3>1, <3>3
    <3> HIDE DEF Moves
    <3> QED
      BY <3>4
  <2> QED
    BY <2>2, <2>3, <2>4
<1>10. Listed(d) \subseteq T
  <2>1. IsDatabase(d) /\ IsListedOnce(d)
    BY DEF PlansInv
  <2> HIDE DEF T
  <2> QED
    BY <1>9, <2>1, InReverse
<1> SUFFICES ASSUME NEW p \in Listed(d), ~(Latest(e, p) = Latest(d, p) /\ Chain(e, p) = Chain(d, p))
             PROVE  \E q \in Listed(d) :
                        /\ Latest(d, p) = Latest(d, q)
                        /\ e.plans[q].first # d.plans[q].first /\ Latest(e, p) = e.plans[q].first
                        /\ Chain(e, p) \subseteq {e.plans[q].first} \cup Chain(d, q)
                        /\ d.plans[q].first = NoId => Latest(d, q) = q /\ Chain(d, q) \subseteq Chain(e, p)
  OBVIOUS
<1>11. g[p] # f[p]
  BY <1>1, <1>2, <1>7, <1>8
<1>12. PICK q \in Listed(d) : Moves(p, q)
  BY <1>10, <1>11
<1>13. w[g[p]] = {g[p]} \cup u[q]
  <2>1. g[p] \in Listed(e) /\ e.plans[g[p]].from = q /\ q # NoId
    BY <1>5, <1>12
  <2> QED
    BY <1>6, <1>8, <2>1
<1>14. u[q] \subseteq u[f[q]]
  BY <1>1, <1>3, OlderThanNewest
<1>15. d.plans[q].first = NoId => f[q] = q
  BY <1>6
<1> QED
  BY <1>1, <1>2, <1>7, <1>12, <1>13, <1>14, <1>15

-----------------------------------------------------------------------------
\* Removed plans stay removed.

RemovedStay(d, e) == \A p \in Listed(d) : IsPlanRemoved(d, p) => IsPlanRemoved(e, p)

\* A version may get a new first derivative if it had none, or if its plan is not
\* removed: the chains of the plans that are removed only get longer.
LEMMA ChainsGrow ==
    ASSUME NEW d, PlansInv(d), NEW e, PlansInv(e), Listed(d) \subseteq Listed(e),
           \A p \in Listed(d) : e.plans[p].from = d.plans[p].from /\ e.plans[p].deleted = d.plans[p].deleted,
           \A p \in Listed(d) :
              LET first == e.plans[p].first
              IN  \/ first = d.plans[p].first
                  \/ /\ first \in Listed(e) /\ e.plans[first].from = p /\ e.plans[first].first = NoId
                     /\ d.plans[p].first = NoId \/ ~IsPlanRemoved(d, p)
    PROVE  RemovedStay(d, e)
<1> SUFFICES ASSUME NEW p \in Listed(d), IsPlanRemoved(d, p) PROVE IsPlanRemoved(e, p)
  BY DEF RemovedStay
<1>1. PICK x \in Chain(d, p) : d.plans[x].deleted
  BY DEF IsPlanRemoved
<1>2. e.plans[x].deleted
  BY <1>1, Chains
<1>3. \/ Chain(e, p) = Chain(d, p)
      \/ \E q \in Listed(d) :
            /\ Latest(d, p) = Latest(d, q)
            /\ e.plans[q].first # d.plans[q].first
            /\ d.plans[q].first = NoId => Chain(d, q) \subseteq Chain(e, p)
  BY ChainsChange
<1>4. ASSUME NEW q \in Listed(d), Latest(d, p) = Latest(d, q), e.plans[q].first # d.plans[q].first,
             d.plans[q].first = NoId => Chain(d, q) \subseteq Chain(e, p)
      PROVE  x \in Chain(e, p)
  <2>1. Chain(d, q) = Chain(d, p)
    BY <1>4, Chains
  <2>2. IsPlanRemoved(d, q)
    BY <1>1, <2>1 DEF IsPlanRemoved
  <2> QED
    BY <1>1, <1>4, <2>1, <2>2
<1> QED
  BY <1>1, <1>2, <1>3, <1>4 DEF IsPlanRemoved

LEMMA RemovedStayTransitively ==
    ASSUME NEW d, NEW e, NEW f, Keeps(d, e), RemovedStay(d, e), RemovedStay(e, f)
    PROVE  RemovedStay(d, f)
BY DEF Keeps, RemovedStay

\* Storing versions neither removes a plan nor brings it back.
LEMMA StoreKeepsRemoved ==
    ASSUME NEW d, PlansInv(d), NEW versions, MayBeStored(d, versions)
    PROVE  RemovedStay(d, Store(d, versions)) /\ RemovedStay(Store(d, versions), d)
<1> DEFINE e == Store(d, versions)
<1>1. PlansInv(e) /\ Keeps(d, e) /\ Listed(e) = Listed(d) /\ DOMAIN e.plans = DOMAIN d.plans \cup DOMAIN versions
  BY StoreKeepsPlans
<1>2. e.plans = Over(versions, d.plans)
  BY DEF PlansInv, IsDatabase, Store
<1>3. Listed(d) \subseteq DOMAIN d.plans /\ Listed(d) \cap DOMAIN versions = {}
  BY ListedPlans DEF PlansInv, MayBeStored
<1> HIDE DEF e
<1>4. \A p \in Listed(d) : e.plans[p] = d.plans[p]
  BY <1>2, <1>3 DEF Over
<1>5. RemovedStay(d, e)
  BY <1>1, <1>4, ChainsGrow
<1>6. RemovedStay(e, d)
  BY <1>1, <1>4, ChainsGrow
<1> QED
  BY <1>5, <1>6 DEF e

\* Listing a version changes at most which derivative of its own version is first.
LEMMA AddChangesFirst ==
    ASSUME NEW d, PlansInv(d), NEW p \in DOMAIN d.plans \ Listed(d), NEW before \in BOOLEAN
    PROVE  LET e == Add(d, p, before)
           IN  \A q \in Listed(d) :
                  \/ e.plans[q].first = d.plans[q].first
                  \/ /\ e.plans[q].first = p /\ q = d.plans[p].from
                     /\ p \in Listed(e) /\ e.plans[p].from = q /\ e.plans[p].first = NoId
                     /\ before \/ d.plans[q].first = NoId
<1> DEFINE e == Add(d, p, before)
           from == d.plans[p].from
<1>1. PlansInv(e) /\ Keeps(d, e) /\ Listed(e) = Listed(d) \cup {p}
  BY AddKeepsPlans
<1>2. \/ e.plans = d.plans
      \/ /\ from # NoId /\ (before \/ d.plans[from].first = NoId)
         /\ e.plans = [d.plans EXCEPT ![from].first = p]
  BY DEF Add
<1>3. Listed(d) \subseteq DOMAIN d.plans /\ from \in Listed(d) \cup {NoId}
  BY ListedPlans DEF PlansInv, RefersToStored
<1>4. d.plans[p].first = NoId
  <2>1. Later(d, p) = {}
    BY ListedPlans DEF Later, PlansInv
  <2> QED
    BY <2>1 DEF PlansInv, FirstIsLater
<1>5. from # NoId => IsVersion(d.plans[from])
  BY <1>3 DEF PlansInv, RefersToStored
<1> HIDE DEF e
<1>6. e.plans[p].from = from /\ e.plans[p].first = NoId
  <2>1. p # from
    BY <1>3, NoIdIsNone
  <2>2. e.plans[p] = d.plans[p]
    BY <1>2, <2>1 DEF PlansInv, IsDatabase
  <2> QED
    BY <1>4, <2>2
<1>7. ASSUME NEW q \in Listed(d), e.plans[q].first # d.plans[q].first
      PROVE  e.plans[q].first = p /\ q = from /\ (before \/ d.plans[q].first = NoId)
  <2>1. /\ from # NoId /\ (before \/ d.plans[from].first = NoId)
        /\ e.plans = [d.plans EXCEPT ![from].first = p]
    BY <1>2, <1>7
  <2>2. q = from
    BY <1>3, <1>7, <2>1
  <2>3. e.plans[q] = [d.plans[q] EXCEPT !.first = p]
    BY <1>3, <2>1, <2>2
  <2>4. e.plans[q].first = p
    <3>1. IsVersion(d.plans[q])
      BY <1>5, <2>1, <2>2
    <3> HIDE DEF from
    <3> QED
      BY <2>3, <3>1, WithFirst
  <2> QED
    BY <2>1, <2>2, <2>4
<1>8. \A q \in Listed(d) :
         \/ e.plans[q].first = d.plans[q].first
         \/ /\ e.plans[q].first = p /\ q = from
            /\ p \in Listed(e) /\ e.plans[p].from = q /\ e.plans[p].first = NoId
            /\ before \/ d.plans[q].first = NoId
  <2> HIDE DEF from
  <2> QED
    BY <1>1, <1>6, <1>7
<1> QED
  BY <1>8 DEF e

\* Nor does listing one, but for a version whose plan was removed when the new
\* derivative takes the place of its first one.
LEMMA AddKeepsRemoved ==
    ASSUME NEW d, PlansInv(d), NEW p \in DOMAIN d.plans, NEW before \in BOOLEAN,
           before => d.plans[p].from = NoId \/ ~IsPlanRemoved(d, d.plans[p].from)
    PROVE  RemovedStay(d, Add(d, p, before))
<1> DEFINE e == Add(d, p, before)
<1>1. CASE p \in Listed(d)
  BY <1>1 DEF Add, RemovedStay
<1>2. CASE p \notin Listed(d)
  <2>1. PlansInv(e) /\ Keeps(d, e)
    BY AddKeepsPlans
  <2>2. NoId \notin Listed(d)
    BY ListedPlans, NoIdIsNone DEF PlansInv
  <2>3. \A q \in Listed(d) :
           \/ e.plans[q].first = d.plans[q].first
           \/ /\ e.plans[q].first = p /\ q = d.plans[p].from
              /\ p \in Listed(e) /\ e.plans[p].from = q /\ e.plans[p].first = NoId
              /\ before \/ d.plans[q].first = NoId
    BY <1>2, AddChangesFirst
  <2> HIDE DEF e
  <2>4. \A q \in Listed(d) :
           LET first == e.plans[q].first
           IN  \/ first = d.plans[q].first
               \/ /\ first \in Listed(e) /\ e.plans[first].from = q /\ e.plans[first].first = NoId
                  /\ d.plans[q].first = NoId \/ ~IsPlanRemoved(d, q)
    BY <2>2, <2>3
  <2>5. RemovedStay(d, e)
    BY <2>1, <2>4, ChainsGrow DEF Keeps
  <2> QED
    BY <2>5 DEF e
<1> QED
  BY <1>1, <1>2

LEMMA AddNewKeepsRemoved ==
    ASSUME NEW d, PlansInv(d), NEW p, NEW version, NEW before \in BOOLEAN,
           p = Uuid(d), IsVersion(version), version.first = NoId,
           version.from \in Listed(d) \cup {NoId}, version.steps \subseteq DOMAIN d.plans,
           before => version.from = NoId \/ ~IsPlanRemoved(d, version.from)
    PROVE  RemovedStay(d, AddNew(d, p, version, before))
<1> DEFINE versions == Only(p, version)
           e == Store(d, versions)
<1>1. /\ MayBeStored(d, versions) /\ DOMAIN versions = {p} /\ versions[p] = version
  BY OneMayBeStored
<1> HIDE DEF versions
<1>2. /\ PlansInv(e) /\ Keeps(d, e) /\ Listed(e) = Listed(d) /\ p \in DOMAIN e.plans
      /\ RemovedStay(d, e) /\ RemovedStay(e, d)
  BY <1>1, StoreKeepsPlans, StoreKeepsRemoved
<1>3. e.plans[p] = version
  <2>1. e.plans = Over(versions, d.plans)
    BY DEF PlansInv, IsDatabase, Store
  <2> HIDE DEF e
  <2> QED
    BY <1>1, <2>1 DEF Over
<1> HIDE DEF e
<1>4. before => e.plans[p].from = NoId \/ ~IsPlanRemoved(e, e.plans[p].from)
  BY <1>2, <1>3 DEF RemovedStay
<1>5. RemovedStay(e, Add(e, p, before))
  BY <1>2, <1>4, AddKeepsRemoved
<1>6. RemovedStay(d, Add(e, p, before))
  BY <1>2, <1>5, RemovedStayTransitively
<1> QED
  BY <1>6 DEF AddNew, e, versions

-----------------------------------------------------------------------------
\* Nothing is removed in passing.

RemovesNone(d, e) == \A p \in Listed(d) : IsPlanRemoved(e, p) => IsPlanRemoved(d, p)
\* What is stored but not listed was not deleted.
Undeleted(d) == \A p \in DOMAIN d.plans \ Listed(d) : ~d.plans[p].deleted

LEMMA RemovesNoneTransitively ==
    ASSUME NEW d, NEW e, NEW f, Listed(d) \subseteq Listed(e), RemovesNone(d, e), RemovesNone(e, f)
    PROVE  RemovesNone(d, f)
BY DEF RemovesNone

\* Listing a version removes the plan of no other one, unless it is deleted.
LEMMA AddRemovesNone ==
    ASSUME NEW d, PlansInv(d), NEW p \in DOMAIN d.plans, NEW before \in BOOLEAN,
           p \in Listed(d) \/ ~d.plans[p].deleted
    PROVE  RemovesNone(d, Add(d, p, before))
<1> DEFINE e == Add(d, p, before)
<1>1. CASE p \in Listed(d)
  BY <1>1 DEF Add, RemovesNone
<1>2. CASE p \notin Listed(d)
  <2>1. /\ PlansInv(e) /\ Keeps(d, e)
        /\ \A q \in DOMAIN d.plans : e.plans[q].deleted = d.plans[q].deleted
    BY AddKeepsPlans
  <2>2. \A q \in Listed(d) :
           \/ e.plans[q].first = d.plans[q].first
           \/ /\ e.plans[q].first = p
              /\ p \in Listed(e) /\ e.plans[p].from = q /\ e.plans[p].first = NoId
    BY <1>2, AddChangesFirst
  <2> HIDE DEF e
  <2>3. SUFFICES ASSUME NEW q \in Listed(d), NEW x \in Chain(e, q), e.plans[x].deleted
                 PROVE  IsPlanRemoved(d, q)
    BY DEF RemovesNone, IsPlanRemoved, e
  <2>4. \/ Chain(e, q) = Chain(d, q)
        \/ \E r \in Listed(d) :
              /\ Latest(d, q) = Latest(d, r)
              /\ e.plans[r].first # d.plans[r].first
              /\ Chain(e, q) \subseteq {e.plans[r].first} \cup Chain(d, r)
    BY <2>1, <2>2, ChainsChange DEF Keeps
  <2>5. x = p \/ x \in Chain(d, q)
    BY <2>2, <2>3, <2>4, Chains
  <2>6. x # p
    BY <1>2, <2>1, <2>3
  <2>7. x \in DOMAIN d.plans
    BY <2>5, <2>6, Chains, ListedPlans DEF PlansInv
  <2> QED
    BY <2>1, <2>3, <2>5, <2>6, <2>7 DEF IsPlanRemoved
<1> QED
  BY <1>1, <1>2

\* A version that is stored is listed at once.
LEMMA AddNewKeepsUndeleted ==
    ASSUME NEW d, PlansInv(d), Undeleted(d), NEW p, NEW version, NEW before \in BOOLEAN,
           p = Uuid(d), IsVersion(version), version.first = NoId,
           version.from \in Listed(d) \cup {NoId}, version.steps \subseteq DOMAIN d.plans
    PROVE  /\ Undeleted(AddNew(d, p, version, before))
           /\ ~version.deleted => RemovesNone(d, AddNew(d, p, version, before))
           /\ p \in DOMAIN AddNew(d, p, version, before).plans
<1> DEFINE versions == Only(p, version)
           e == Store(d, versions)
           f == Add(e, p, before)
<1>1. /\ MayBeStored(d, versions) /\ DOMAIN versions = {p} /\ versions[p] = version
  BY OneMayBeStored
<1> HIDE DEF versions
<1>2. /\ PlansInv(e) /\ Keeps(d, e) /\ Listed(e) = Listed(d) /\ DOMAIN e.plans = DOMAIN d.plans \cup {p}
      /\ RemovedStay(e, d)
  BY <1>1, StoreKeepsPlans, StoreKeepsRemoved
<1>3. e.plans[p] = version /\ \A q \in DOMAIN d.plans : q # p => e.plans[q] = d.plans[q]
  <2>1. e.plans = Over(versions, d.plans)
    BY DEF PlansInv, IsDatabase, Store
  <2> HIDE DEF e
  <2> QED
    BY <1>1, <2>1 DEF Over
<1> HIDE DEF e
<1>4. /\ Listed(f) = Listed(e) \cup {p} /\ DOMAIN f.plans = DOMAIN e.plans
      /\ \A q \in DOMAIN e.plans : f.plans[q].deleted = e.plans[q].deleted
  <2>1. p \in DOMAIN e.plans
    BY <1>2
  <2>2. f = Add(e, p, before)
    OBVIOUS
  <2> HIDE DEF f
  <2>0. PlansInv(e) /\ before \in BOOLEAN
    BY <1>2
  <2>3. Listed(f) = Listed(e) \cup {p} /\ DOMAIN f.plans = DOMAIN e.plans
    BY ONLY <2>0, <2>1, <2>2, AddKeepsPlans
  <2>4. ASSUME NEW q \in DOMAIN e.plans PROVE f.plans[q].deleted = e.plans[q].deleted
    BY <1>2, <2>1, <2>2, AddKeepsPlans
  <2> QED
    BY <2>3, <2>4
<1>5. ~version.deleted => RemovesNone(e, f)
  BY <1>2, <1>3, AddRemovesNone
<1> HIDE DEF f
<1>6. Undeleted(f)
  BY <1>2, <1>3, <1>4 DEF Undeleted
<1>7. ~version.deleted => RemovesNone(d, f)
  BY <1>2, <1>5 DEF RemovesNone, RemovedStay
<1>8. p \in DOMAIN f.plans
  BY <1>2, <1>4
<1> QED
  BY <1>6, <1>7, <1>8 DEF AddNew, e, f, versions

-----------------------------------------------------------------------------
\* The loop that adds plans one after the other.
LEMMA AddAllLoop ==
    ASSUME NEW d, NEW ps, NEW before, Len(SetToSeq(ps)) \in Nat
    PROVE  LET order == SetToSeq(ps)
           IN  \E f : /\ f = [i \in 0..Len(order) |-> IF i = 0 THEN d ELSE Add(f[i - 1], order[i], order[i] \in before)]
                      /\ AddAll(d, ps, before) = f[Len(order)]
<1> DEFINE order == SetToSeq(ps)
           n == Len(order)
           Computes(f, m) == f = [i \in 0..m |-> IF i = 0 THEN d ELSE Add(f[i - 1], order[i], order[i] \in before)]
           Q == {m \in 0..n : \E f : Computes(f, m)}
<1>1. 0 \in Q
  <2>1. Computes([i \in 0..0 |-> d], 0)
    OBVIOUS
  <2> HIDE DEF Computes
  <2> QED
    BY <2>1
<1>2. ASSUME NEW m \in 1..n, m - 1 \in Q PROVE m \in Q
  <2>1. PICK f : Computes(f, m - 1)
    BY <1>2
  <2> DEFINE g == [i \in 0..m |-> IF i = 0 THEN d ELSE Add(f[i - 1], order[i], order[i] \in before)]
  <2>2. \A i \in 0..m - 1 : g[i] = f[i]
    BY <2>1
  <2>3. \A i \in 0..m : g[i] = IF i = 0 THEN d ELSE Add(g[i - 1], order[i], order[i] \in before)
    <3> SUFFICES ASSUME NEW i \in 0..m
                 PROVE  g[i] = IF i = 0 THEN d ELSE Add(g[i - 1], order[i], order[i] \in before)
      OBVIOUS
    <3>1. CASE i = 0
      BY <3>1
    <3>2. CASE i # 0
      <4>1. i - 1 \in 0..m - 1
        BY <3>2
      <4>2. g[i] = Add(f[i - 1], order[i], order[i] \in before)
        BY <3>2
      <4> HIDE DEF g
      <4> QED
        BY <2>2, <3>2, <4>1, <4>2
    <3> QED
      BY <3>1, <3>2
  <2>4. Computes(g, m)
    <3>1. g = [i \in 0..m |-> g[i]]
      BY DEF g
    <3> HIDE DEF g
    <3> QED
      BY <2>3, <3>1
  <2> HIDE DEF g, Computes
  <2> QED
    BY <2>4
<1>3. \A m \in 1..n : m - 1 \in Q => m \in Q
  BY <1>2
<1>4. 0..n \subseteq Q
  <2> HIDE DEF Q, n
  <2> QED
    BY <1>1, <1>3, Induction DEF n
<1>5. \E f : Computes(f, n)
  <2> HIDE DEF Computes
  <2> QED
    BY <1>4
<1> DEFINE h == CHOOSE f : f = [i \in 0..n |-> IF i = 0 THEN d ELSE Add(f[i - 1], order[i], order[i] \in before)]
<1>6. Computes(h, n)
  BY <1>5
<1>7. AddAll(d, ps, before) = h[n]
  BY DEF AddAll
<1> HIDE DEF h
<1> QED
  BY <1>6, <1>7

LEMMA AddAllKeepsPlans ==
    ASSUME NEW d, PlansInv(d), NEW ps \in SUBSET DOMAIN d.plans, NEW before
    PROVE  /\ PlansInv(AddAll(d, ps, before))
           /\ Keeps(d, AddAll(d, ps, before))
           /\ DOMAIN AddAll(d, ps, before).plans = DOMAIN d.plans
           /\ Listed(AddAll(d, ps, before)) = Listed(d) \cup ps
           /\ before \cap ps = {} => RemovedStay(d, AddAll(d, ps, before))
           /\ Undeleted(d) => Undeleted(AddAll(d, ps, before)) /\ RemovesNone(d, AddAll(d, ps, before))
<1> DEFINE order == SetToSeq(ps)
           n == Len(order)
<1>1. IsFiniteSet(ps)
  BY FS_Subset DEF PlansInv, IsDatabase
<1>2. order \in Seq(ps)
  BY <1>1, Ordered
<1>3. n \in Nat /\ \A i \in 1..n : order[i] \in ps
  BY <1>2
<1>4. PICK f : /\ f = [i \in 0..n |-> IF i = 0 THEN d ELSE Add(f[i - 1], order[i], order[i] \in before)]
               /\ AddAll(d, ps, before) = f[n]
  BY <1>3, AddAllLoop
<1> DEFINE Safe(e) == before \cap ps = {} => RemovedStay(d, e)
           Sound(e) == /\ \A p \in DOMAIN d.plans : e.plans[p].deleted = d.plans[p].deleted
                       /\ Undeleted(d) => RemovesNone(d, e)
           Q == {i \in 0..n : /\ PlansInv(f[i]) /\ Keeps(d, f[i]) /\ DOMAIN f[i].plans = DOMAIN d.plans
                            /\ Listed(f[i]) = Listed(d) \cup {order[j] : j \in 1..i}
                            /\ Safe(f[i]) /\ Sound(f[i])}
<1>0. Safe(d) /\ Sound(d)
  BY DEF RemovedStay, RemovesNone
<1> HIDE DEF order, n, Safe, Sound
<1>5. f[0] = d /\ \A i \in 1..n : f[i] = Add(f[i - 1], order[i], order[i] \in before)
  BY <1>3, <1>4
<1>6. 0 \in Q
  BY <1>0, <1>3, <1>5 DEF Keeps, VersionsStay
<1>7. ASSUME NEW i \in 1..n, i - 1 \in Q PROVE i \in Q
  <2>1. /\ PlansInv(f[i - 1]) /\ Keeps(d, f[i - 1]) /\ DOMAIN f[i - 1].plans = DOMAIN d.plans
        /\ Listed(f[i - 1]) = Listed(d) \cup {order[j] : j \in 1..i - 1}
        /\ order[i] \in DOMAIN f[i - 1].plans
        /\ Safe(f[i - 1]) /\ Sound(f[i - 1])
    BY <1>3, <1>7
  <2>2. /\ PlansInv(f[i]) /\ Keeps(f[i - 1], f[i]) /\ DOMAIN f[i].plans = DOMAIN d.plans
        /\ Listed(f[i]) = Listed(f[i - 1]) \cup {order[i]}
        /\ \A p \in DOMAIN d.plans : f[i].plans[p].deleted = f[i - 1].plans[p].deleted
    <3> DEFINE first == order[i] \in before
    <3>1. f[i] = Add(f[i - 1], order[i], first) /\ first \in BOOLEAN
      BY <1>5
    <3> HIDE DEF first
    <3> QED
      BY <2>1, <3>1, AddKeepsPlans
  <2>3. Keeps(d, f[i])
    BY <2>1, <2>2, KeepsIsTransitive
  <2>4. {order[j] : j \in 1..i} = {order[j] : j \in 1..i - 1} \cup {order[i]}
    <3>1. \A j \in 1..i : j \in 1..i - 1 \/ j = i
      BY <1>3
    <3>2. i \in 1..i /\ \A j \in 1..i - 1 : j \in 1..i
      BY <1>3
    <3> QED
      BY <3>1, <3>2
  <2>5. Listed(f[i]) = Listed(d) \cup {order[j] : j \in 1..i}
    BY <2>1, <2>2, <2>4
  <2>6. Safe(f[i])
    <3> DEFINE first == order[i] \in before
    <3>1. SUFFICES ASSUME before \cap ps = {} PROVE RemovedStay(d, f[i])
      BY DEF Safe
    <3>2. f[i] = Add(f[i - 1], order[i], first) /\ first = FALSE
      BY <1>3, <1>5, <3>1
    <3> HIDE DEF first
    <3>3. RemovedStay(f[i - 1], f[i])
      BY <2>1, <3>2, AddKeepsRemoved
    <3>4. RemovedStay(d, f[i - 1])
      BY <2>1, <3>1 DEF Safe
    <3> QED
      BY <2>1, <3>3, <3>4, RemovedStayTransitively
  <2>7. Sound(f[i])
    <3> DEFINE first == order[i] \in before
    <3>1. \A p \in DOMAIN d.plans : f[i].plans[p].deleted = d.plans[p].deleted
      BY <2>1, <2>2 DEF Sound
    <3>2. ASSUME Undeleted(d) PROVE RemovesNone(d, f[i])
      <4>1. f[i] = Add(f[i - 1], order[i], first) /\ first \in BOOLEAN
        BY <1>5
      <4> HIDE DEF first
      <4>2. order[i] \in Listed(f[i - 1]) \/ ~f[i - 1].plans[order[i]].deleted
        BY <2>1, <3>2 DEF Sound, Undeleted
      <4>3. RemovesNone(f[i - 1], f[i])
        BY <2>1, <4>1, <4>2, AddRemovesNone
      <4>4. RemovesNone(d, f[i - 1]) /\ Listed(d) \subseteq Listed(f[i - 1])
        BY <2>1, <3>2 DEF Sound
      <4> QED
        BY <4>3, <4>4, RemovesNoneTransitively
    <3> QED
      BY <3>1, <3>2 DEF Sound
  <2> QED
    BY <1>3, <2>2, <2>3, <2>5, <2>6, <2>7
<1>8. 0..n \subseteq Q
  <2>1. \A i \in 1..n : i - 1 \in Q => i \in Q
    BY <1>7
  <2> HIDE DEF Q
  <2> QED
    BY <1>3, <1>6, <2>1, Induction
<1>9. n \in 0..n
  BY <1>3
<1>10. {order[j] : j \in 1..n} = ps
  <2>1. \A x \in ps : \E i \in 1..n : order[i] = x
    BY <1>1, Ordered DEF order, n
  <2> QED
    BY <1>3, <2>1
<1>11. n \in Q
  <2> HIDE DEF Q
  <2> QED
    BY <1>8, <1>9
<1>12. before \cap ps = {} => RemovedStay(d, f[n])
  BY <1>11 DEF Safe
<1>13. Undeleted(d) => Undeleted(f[n]) /\ RemovesNone(d, f[n])
  BY <1>11 DEF Sound, Undeleted
<1> QED
  BY <1>4, <1>10, <1>11, <1>12, <1>13

-----------------------------------------------------------------------------
\* The plans of a workflow file.

\* Of a sequence of different identifiers one is free: fewer are listed.
LEMMA SomeIsFree ==
    ASSUME PlansInv(db), NEW ids, ids = [k \in Sequence |-> ids[k]],
           \A k, l \in Sequence : ids[k] = ids[l] => k = l
    PROVE  \E k \in Sequence : Free(ids) = ids[k] /\ IsFree(ids[k]) /\ \A l \in 0..k - 1 : ~IsFree(ids[l])
<1> DEFINE n == Cardinality(Listed(db))
           T == {k \in Sequence : IsFree(ids[k])}
<1>1. IsFiniteSet(Listed(db)) /\ n \in Nat
  <2>1. IsFiniteSet(DOMAIN db.plans) /\ Listed(db) \subseteq DOMAIN db.plans
    BY ListedPlans DEF PlansInv, IsDatabase
  <2> QED
    BY <2>1, FS_Subset, FS_CardinalityType
<1>2. Sequence = 0..n
  BY DEF Sequence
<1>3. IsFiniteSet(Sequence) /\ Cardinality(Sequence) = n + 1
  <2>1. 0 \in Int /\ n \in Int /\ ~(0 > n) /\ n - 0 + 1 = n + 1
    BY <1>1
  <2> HIDE DEF n
  <2>2. IsFiniteSet(0..n) /\ Cardinality(0..n) = n + 1
    BY <2>1, FS_Interval
  <2> QED
    BY <1>2, <2>2
<1>4. T # {}
  <2>1. SUFFICES ASSUME \A k \in Sequence : ids[k] \in Listed(db)
                 PROVE  FALSE
    BY DEF IsFree
  <2>2. ids \in [Sequence -> Listed(db)]
    BY <2>1
  <2>3. \E k, l \in Sequence : k # l /\ ids[k] = ids[l]
    BY <1>1, <1>3, <2>2, FS_PigeonHole
  <2> QED
    BY <2>3
<1>5. PICK k \in T : \A l \in T : k <= l
  <2>1. T \in SUBSET Nat
    BY <1>1, <1>2
  <2> HIDE DEF T
  <2>2. \E k \in T : \A l \in T : k <= l
    BY <1>4, <2>1, Least
  <2> QED
    BY <2>2
<1>6. DOMAIN ids = Sequence
  OBVIOUS
<1>7. k \in DOMAIN ids /\ IsFree(ids[k]) /\ \A l \in 0..k - 1 : ~IsFree(ids[l])
  BY <1>1, <1>2, <1>5, <1>6
<1> DEFINE m == CHOOSE i \in DOMAIN ids : IsFree(ids[i]) /\ \A l \in 0..i - 1 : ~IsFree(ids[l])
<1>8. m \in DOMAIN ids /\ IsFree(ids[m]) /\ \A l \in 0..m - 1 : ~IsFree(ids[l])
  BY <1>7
<1>9. Free(ids) = ids[m]
  BY DEF Free
<1> QED
  BY <1>6, <1>8, <1>9

\* What a new version consists of.
LEMMA NewVersion ==
    ASSUME NEW name, NEW kind, NEW from, NEW description, NEW steps
    PROVE  /\ IsVersion(Version(name, kind, from, description, steps))
           /\ Version(name, kind, from, description, steps).from = from
           /\ Version(name, kind, from, description, steps).steps = steps
           /\ Version(name, kind, from, description, steps).first = NoId
           /\ ~Version(name, kind, from, description, steps).deleted
BY DEF Version, IsVersion

\* The version before, if there is one, is listed; a new one gets an identifier
\* that is not listed.
LEMMA FreeIds ==
    ASSUME PlansInv(db), NEW id, id[1] \in {"file", "step"}
    PROVE  /\ Existing(id) \in Listed(db) \cup {NoId}
           /\ NewId(id) \notin Listed(db)
           /\ NewId(id)[1] \in {"uuid", "file", "step"}
           /\ NewId(id)[1] = "uuid" => NewId(id)[2] = Cardinality(DOMAIN db.plans)
<1>1. id \in Listed(db) => Latest(db, id) \in Listed(db)
  BY LatestLoop DEF PlansInv
<1>2. CASE id \notin Listed(db)
  BY <1>2 DEF Existing, NewId
<1>3. CASE id \in Listed(db)
  <2> DEFINE n == Cardinality(DOMAIN db.plans)
             new == <<"uuid", n, id>>
  <2>1. n \in Nat
    BY FS_CardinalityType DEF PlansInv, IsDatabase
  <2>2. new[1] = "uuid" /\ new[2] = n
    OBVIOUS
  <2>3. ~IsId(new, n)
    BY <2>1, <2>2 DEF IsId
  <2>4. Listed(db) \subseteq DOMAIN db.plans
    BY ListedPlans DEF PlansInv
  <2>5. new \notin Listed(db)
    BY <2>3, <2>4 DEF PlansInv
  <2>6. NewId(id) = new
    BY <1>3 DEF NewId
  <2> HIDE DEF new
  <2> QED
    BY <1>1, <1>3, <2>2, <2>5, <2>6 DEF Existing
<1> QED
  BY <1>2, <1>3

LEMMA FileIdIsFree ==
    ASSUME PlansInv(db)
    PROVE  Free([k \in Sequence |-> FileId(k)])[1] = "file"
<1> DEFINE ids == [k \in Sequence |-> FileId(k)]
<1>1. \A k \in Sequence : ids[k] = FileId(k)
  OBVIOUS
<1>2. \A k, l \in Sequence : ids[k] = ids[l] => k = l
  BY <1>1 DEF FileId
<1>3. ids = [k \in Sequence |-> ids[k]]
  OBVIOUS
<1> HIDE DEF ids
<1>4. \E k \in Sequence : Free(ids) = ids[k]
  BY <1>2, <1>3, SomeIsFree
<1>5. Free(ids)[1] = "file"
  BY <1>1, <1>4 DEF FileId
<1> QED
  BY <1>5 DEF ids

LEMMA StepIdIsFree ==
    ASSUME PlansInv(db), NEW name, NEW s
    PROVE  /\ Free([k \in Sequence |-> StepId(name, s, k)])[1] = "step"
           /\ Free([k \in Sequence |-> StepId(name, s, k)])[2] = s
<1> DEFINE ids == [k \in Sequence |-> StepId(name, s, k)]
<1>1. \A k \in Sequence : ids[k] = StepId(name, s, k)
  OBVIOUS
<1>2. ASSUME NEW k \in Sequence, NEW l \in Sequence, ids[k] = ids[l]
      PROVE  k = l
  <2>1. StepId(name, s, k) = StepId(name, s, l)
    BY <1>1, <1>2
  <2>2. \A i \in Sequence : StepId(name, s, i) = IF i = 0 THEN <<"step", s>> ELSE <<"step", s, name, i>>
    BY DEF StepId
  <2>3. CASE k = 0 /\ l = 0
    BY <2>3
  <2>4. CASE k # 0 /\ l # 0
    BY <2>1, <2>2, <2>4
  <2>5. CASE k = 0 /\ l # 0
    <3>1. Len(StepId(name, s, k)) = 2 /\ Len(StepId(name, s, l)) = 4
      BY <2>2, <2>5
    <3> QED
      BY <2>1, <3>1
  <2>6. CASE k # 0 /\ l = 0
    <3>1. Len(StepId(name, s, k)) = 4 /\ Len(StepId(name, s, l)) = 2
      BY <2>2, <2>6
    <3> QED
      BY <2>1, <3>1
  <2> QED
    BY <2>3, <2>4, <2>5, <2>6
<1>3. ids = [k \in Sequence |-> ids[k]]
  OBVIOUS
<1> HIDE DEF ids
<1>4. \E k \in Sequence : Free(ids) = ids[k]
  BY <1>2, <1>3, SomeIsFree
<1>5. Free(ids)[1] = "step" /\ Free(ids)[2] = s
  <2>1. \A k \in Sequence : StepId(name, s, k)[1] = "step" /\ StepId(name, s, k)[2] = s
    <3> SUFFICES ASSUME NEW k \in Sequence PROVE StepId(name, s, k)[1] = "step" /\ StepId(name, s, k)[2] = s
      OBVIOUS
    <3>1. StepId(name, s, k) = <<"step", s>> \/ StepId(name, s, k) = <<"step", s, name, k>>
      BY DEF StepId
    <3> QED
      BY <3>1
  <2> QED
    BY <1>1, <1>4, <2>1
<1> QED
  BY <1>5 DEF ids

LEMMA StepPlanMayBeStored ==
    ASSUME PlansInv(db), NEW def, NEW s
    PROVE  LET step == StepPlan(def, s)
           IN  /\ step.id \in Listed(db) \cup DOMAIN step.new
               /\ DOMAIN step.new \subseteq {step.id}
               /\ \A x \in DOMAIN step.new :
                    /\ x \notin Listed(db)
                    /\ x[1] \in {"uuid", "file", "step"}
                    /\ x[1] = "uuid" => x[2] = Cardinality(DOMAIN db.plans)
                    /\ IsVersion(step.new[x])
                    /\ step.new[x].from \in Listed(db) \cup {NoId}
                    /\ step.new[x].steps = {}
                    /\ step.new[x].first = NoId
                    /\ ~step.new[x].deleted
<1> DEFINE id == Free([k \in Sequence |-> StepId(def.name, s, k)])
           existing == Existing(id)
           new == Only(NewId(id), Version(QualifiedName(def.name, s), "step", existing, def.steps[s], {}))
<1>1. id[1] = "step"
  BY StepIdIsFree
<1> HIDE DEF id
<1>2. /\ existing \in Listed(db) \cup {NoId}
      /\ NewId(id) \notin Listed(db)
      /\ NewId(id)[1] \in {"uuid", "file", "step"}
      /\ NewId(id)[1] = "uuid" => NewId(id)[2] = Cardinality(DOMAIN db.plans)
  BY <1>1, FreeIds
<1> HIDE DEF existing
<1>3. /\ DOMAIN new = {NewId(id)}
      /\ new[NewId(id)] = Version(QualifiedName(def.name, s), "step", existing, def.steps[s], {})
  BY DEF Only
<1> HIDE DEF new
<1>4. /\ IsVersion(new[NewId(id)]) /\ new[NewId(id)].from = existing
      /\ new[NewId(id)].steps = {} /\ new[NewId(id)].first = NoId /\ ~new[NewId(id)].deleted
  BY <1>3, NewVersion
<1>5. \/ existing # NoId /\ StepPlan(def, s) = [id |-> existing, new |-> <<>>]
      \/ StepPlan(def, s) = [id |-> NewId(id), new |-> new]
  BY DEF StepPlan, id, existing, new
<1> DEFINE step == StepPlan(def, s)
<1>6. CASE existing # NoId /\ StepPlan(def, s) = [id |-> existing, new |-> <<>>]
  <2>1. step.id = existing /\ step.new = <<>>
    BY <1>6
  <2>2. DOMAIN step.new = {}
    BY <2>1
  <2> HIDE DEF step
  <2>3. step.id \in Listed(db)
    BY <1>2, <1>6, <2>1
  <2> QED
    BY <2>2, <2>3 DEF step
<1>7. CASE StepPlan(def, s) = [id |-> NewId(id), new |-> new]
  <2>1. step.id = NewId(id) /\ step.new = new
    BY <1>7
  <2> HIDE DEF step
  <2> QED
    BY <1>2, <1>3, <1>4, <2>1 DEF step
<1> QED
  BY <1>5, <1>6, <1>7

\* Everything that a workflow file brings along may be stored.
LEMMA FileMayBeStored ==
    ASSUME PlansInv(db), NEW def
    PROVE  /\ MayBeStored(db, ToPlan(def).new)
           /\ \A x \in DOMAIN ToPlan(def).new : ~ToPlan(def).new[x].deleted
           /\ ToPlan(def).id \in Listed(db) \cup DOMAIN ToPlan(def).new
<1> DEFINE id == Free([k \in Sequence |-> FileId(k)])
           existing == Existing(id)
           plan(s) == StepPlan(def, s)
           steps == {plan(s) : s \in Steps}
           new == Merged({step.new : step \in steps})
           version == Version(def.name, "file", existing, def.description, {step.id : step \in steps})
           all == Over(Only(NewId(id), version), new)
<1>1. id[1] = "file"
  BY FileIdIsFree
<1> HIDE DEF id
<1>2. /\ existing \in Listed(db) \cup {NoId}
      /\ NewId(id) \notin Listed(db)
      /\ NewId(id)[1] \in {"uuid", "file", "step"}
      /\ NewId(id)[1] = "uuid" => NewId(id)[2] = Cardinality(DOMAIN db.plans)
  BY <1>1, FreeIds
<1>3. \/ existing # NoId /\ ToPlan(def) = [id |-> existing, new |-> <<>>]
      \/ ToPlan(def) = [id |-> NewId(id), new |-> all]
  BY DEF ToPlan, id
<1> HIDE DEF existing, plan
<1>4. /\ DOMAIN new = UNION {DOMAIN step.new : step \in steps}
      /\ \A x \in DOMAIN new : \E step \in steps : x \in DOMAIN step.new /\ new[x] = step.new[x]
  <2> DEFINE fs == {step.new : step \in steps}
  <2> HIDE DEF steps
  <2>1. DOMAIN new = UNION {DOMAIN f : f \in fs}
    BY DEF Merged
  <2>2. ASSUME NEW x \in DOMAIN new PROVE \E f \in fs : x \in DOMAIN f /\ new[x] = f[x]
    <3>1. \E f \in fs : x \in DOMAIN f
      BY <2>1
    <3> DEFINE g == CHOOSE f \in fs : x \in DOMAIN f
    <3>2. g \in fs /\ x \in DOMAIN g
      BY <3>1
    <3>3. new[x] = g[x]
      BY <2>1, <2>2 DEF Merged
    <3> QED
      BY <3>2, <3>3
  <2> HIDE DEF new
  <2> QED
    BY <2>1, <2>2
<1> HIDE DEF new
<1>5. IsFiniteSet(DOMAIN new)
  <2> DEFINE f == [s \in Steps |-> plan(s).id]
             S == {f[s] : s \in Steps}
  <2>1. f \in Surjection(Steps, S)
    BY DEF Surjection
  <2>2. IsFiniteSet(Steps)
    BY PlansAssumption
  <2>3. IsFiniteSet(S)
    <3> HIDE DEF f, S
    <3> QED
      BY <2>1, <2>2, FS_Surjection
  <2>4. \A s \in Steps : DOMAIN plan(s).new \subseteq {f[s]}
    BY StepPlanMayBeStored DEF plan
  <2>5. DOMAIN new \in SUBSET S
    <3> HIDE DEF f
    <3> QED
      BY <1>4, <2>4
  <2> HIDE DEF S
  <2> QED
    BY <2>3, <2>5, FS_Subset
<1>6. \A x \in DOMAIN new :
        /\ x \notin Listed(db)
        /\ x[1] \in {"uuid", "file", "step"}
        /\ x[1] = "uuid" => x[2] = Cardinality(DOMAIN db.plans)
        /\ IsVersion(new[x])
        /\ new[x].from \in Listed(db) \cup {NoId}
        /\ new[x].steps = {}
        /\ new[x].first = NoId /\ ~new[x].deleted
  <2> SUFFICES ASSUME NEW x \in DOMAIN new
               PROVE  /\ x \notin Listed(db)
                      /\ x[1] \in {"uuid", "file", "step"}
                      /\ x[1] = "uuid" => x[2] = Cardinality(DOMAIN db.plans)
                      /\ IsVersion(new[x])
                      /\ new[x].from \in Listed(db) \cup {NoId}
                      /\ new[x].steps = {}
                      /\ new[x].first = NoId /\ ~new[x].deleted
    OBVIOUS
  <2>1. PICK s \in Steps : x \in DOMAIN plan(s).new /\ new[x] = plan(s).new[x]
    BY <1>4
  <2> QED
    BY <2>1, StepPlanMayBeStored DEF plan
<1>7. CASE existing # NoId /\ ToPlan(def) = [id |-> existing, new |-> <<>>]
  <2>1. ToPlan(def).id = existing /\ ToPlan(def).new = <<>>
    BY <1>7
  <2>2. MayBeStored(db, <<>>) /\ DOMAIN <<>> = {}
    <3>1. DOMAIN <<>> = {} /\ <<>> = [x \in DOMAIN <<>> |-> <<>>[x]]
      OBVIOUS
    <3> QED
      BY <3>1, FS_EmptySet DEF MayBeStored
  <2> QED
    BY <1>2, <1>7, <2>1, <2>2
<1>8. CASE ToPlan(def) = [id |-> NewId(id), new |-> all]
  <2>1. ToPlan(def).id = NewId(id) /\ ToPlan(def).new = all
    BY <1>8
  <2>2. /\ DOMAIN all = {NewId(id)} \cup DOMAIN new
        /\ \A x \in DOMAIN all : all[x] = IF x = NewId(id) THEN version ELSE new[x]
        /\ all = [x \in DOMAIN all |-> all[x]]
    BY DEF Over, Only
  <2>3. /\ IsVersion(version) /\ version.from = existing /\ version.first = NoId /\ ~version.deleted
        /\ version.steps = {step.id : step \in steps}
    BY DEF Version, IsVersion
  <2> HIDE DEF all, version
  <2>4. IsFiniteSet(DOMAIN all)
    <3>1. IsFiniteSet({NewId(id)})
      BY FS_Singleton
    <3>2. IsFiniteSet({NewId(id)} \cup DOMAIN new)
      BY <1>5, <3>1, FS_Union
    <3> QED
      BY <2>2, <3>2
  <2>5. version.steps \subseteq DOMAIN db.plans \cup DOMAIN all
    <3>1. ASSUME NEW s \in Steps PROVE plan(s).id \in Listed(db) \cup DOMAIN plan(s).new
      BY StepPlanMayBeStored DEF plan
    <3>2. Listed(db) \subseteq DOMAIN db.plans
      BY ListedPlans DEF PlansInv
    <3>3. \A s \in Steps : DOMAIN plan(s).new \subseteq DOMAIN all
      BY <1>4, <2>2
    <3> QED
      BY <2>3, <3>1, <3>2, <3>3
  <2>6. ASSUME NEW x \in DOMAIN all
        PROVE  /\ x \notin Listed(db)
               /\ x[1] \in {"uuid", "file", "step"}
               /\ x[1] = "uuid" => x[2] = Cardinality(DOMAIN db.plans)
               /\ IsVersion(all[x])
               /\ all[x].from \in Listed(db) \cup {NoId}
               /\ all[x].steps \subseteq DOMAIN db.plans \cup DOMAIN all
               /\ all[x].first = NoId
    <3>1. CASE x = NewId(id)
      BY <1>2, <2>2, <2>3, <2>5, <3>1
    <3>2. CASE x # NewId(id)
      <4>1. x \in DOMAIN new /\ all[x] = new[x]
        BY <2>2, <3>2
      <4> QED
        BY <1>6, <4>1
    <3> QED
      BY <3>1, <3>2
  <2>7. MayBeStored(db, all)
    BY <2>2, <2>4, <2>6 DEF MayBeStored
  <2>8. \A x \in DOMAIN all : ~all[x].deleted
    BY <1>6, <2>2, <2>3
  <2> QED
    BY <2>1, <2>2, <2>7, <2>8
<1> QED
  BY <1>3, <1>7, <1>8

-----------------------------------------------------------------------------
\* The commands.

LEMMA StartsEmpty == Init => PlansInv(db)
<1> SUFFICES ASSUME Init PROVE PlansInv(db)
  OBVIOUS
<1>1. /\ db = [plans |-> <<>>, listed |-> <<>>, byName |-> <<>>]
      /\ db.plans = <<>> /\ db.listed = <<>> /\ db.byName = <<>>
  BY DEF Init
<1>2. DOMAIN db.plans = {} /\ DOMAIN db.byName = {} /\ Len(db.listed) = 0 /\ Listed(db) = {}
  BY <1>1 DEF Listed, Range
<1>3. IsDatabase(db)
  <2>1. <<>> = [x \in DOMAIN <<>> |-> <<>>[x]]
    OBVIOUS
  <2>2. <<>> \in Seq(DOMAIN db.plans)
    OBVIOUS
  <2> QED
    BY <1>1, <1>2, <2>1, <2>2, FS_EmptySet DEF IsDatabase
<1> QED
  BY <1>2, <1>3 DEF PlansInv, FirstIsLater, FirstIsDerived, FromIsEarlier, IsListedOnce, NamesLeadToNewest, NewestHaveNames

LEMMA Derived ==
    ASSUME PlansInv(db), NEW p \in Listed(db)
    PROVE  /\ IsVersion(Derive(db, p)) /\ Derive(db, p).from = p /\ Derive(db, p).first = NoId
           /\ Derive(db, p).steps \subseteq DOMAIN db.plans /\ Derive(db, p).deleted = db.plans[p].deleted
           /\ Derive(db, p).kind = db.plans[p].kind
<1>1. p \in DOMAIN db.plans
  BY ListedPlans DEF PlansInv
<1>2. IsVersion(db.plans[p]) /\ db.plans[p].steps \subseteq DOMAIN db.plans
  BY <1>1 DEF PlansInv, RefersToStored
<1> DEFINE derived == Derive(db, p)
           copy == [db.plans[p] EXCEPT !.from = p]
<1>3. derived = [copy EXCEPT !.first = NoId]
  BY DEF Derive
<1> HIDE DEF derived, copy
<1>4. copy = [db.plans[p] EXCEPT !.from = p]
  BY DEF copy
<1>5. /\ IsVersion(copy) /\ copy.from = p /\ copy.steps = db.plans[p].steps /\ copy.deleted = db.plans[p].deleted
      /\ copy.kind = db.plans[p].kind
  BY <1>2, <1>4, WithFrom
<1>6. /\ IsVersion(derived) /\ derived.from = p /\ derived.first = NoId
      /\ derived.steps = db.plans[p].steps /\ derived.deleted = db.plans[p].deleted /\ derived.kind = db.plans[p].kind
  BY <1>3, <1>5, WithFirst
<1> QED
  BY <1>2, <1>6 DEF derived

\* A version that may be stored as a derivative.
MayFollow(version, p) ==
    /\ IsVersion(version) /\ version.from = p /\ version.first = NoId
    /\ version.steps \subseteq DOMAIN db.plans /\ version.kind = db.plans[p].kind

LEMMA Edited ==
    ASSUME PlansInv(db), NEW p \in Listed(db), NEW name, NEW description
    PROVE  LET version == [Derive(db, p) EXCEPT !.name = name, !.description = description]
           IN  MayFollow(version, p) /\ version.deleted = db.plans[p].deleted
<1> DEFINE derived == Derive(db, p)
           named == [derived EXCEPT !.name = name]
           version == [Derive(db, p) EXCEPT !.name = name, !.description = description]
<1>1. /\ IsVersion(derived) /\ derived.from = p /\ derived.first = NoId
      /\ derived.steps \subseteq DOMAIN db.plans /\ derived.deleted = db.plans[p].deleted
      /\ derived.kind = db.plans[p].kind
  BY Derived
<1>2. version = [named EXCEPT !.description = description]
  OBVIOUS
<1> HIDE DEF version, derived, named
<1>3. /\ IsVersion(named) /\ named.from = p /\ named.first = NoId
      /\ named.steps = derived.steps /\ named.deleted = derived.deleted /\ named.kind = derived.kind
  BY <1>1, WithName DEF named
<1>4. /\ IsVersion(version) /\ version.from = p /\ version.first = NoId
      /\ version.steps = derived.steps /\ version.deleted = derived.deleted /\ version.kind = derived.kind
  BY <1>2, <1>3, WithDescription
<1>5. MayFollow(version, p) /\ version.deleted = db.plans[p].deleted
  BY <1>1, <1>4 DEF MayFollow
<1> QED
  BY <1>5 DEF version

LEMMA Deleted ==
    ASSUME PlansInv(db), NEW p \in Listed(db)
    PROVE  LET version == [Derive(db, p) EXCEPT !.deleted = TRUE]
           IN  MayFollow(version, p)
<1> DEFINE derived == Derive(db, p)
           version == [derived EXCEPT !.deleted = TRUE]
<1>1. /\ IsVersion(derived) /\ derived.from = p /\ derived.first = NoId
      /\ derived.steps \subseteq DOMAIN db.plans /\ derived.kind = db.plans[p].kind
  BY Derived
<1> HIDE DEF derived
<1>2. /\ IsVersion(version) /\ version.from = p /\ version.first = NoId
      /\ version.steps = derived.steps /\ version.kind = derived.kind
  BY <1>1, WithDeleted
<1> HIDE DEF version
<1>3. MayFollow(version, p)
  BY <1>1, <1>2 DEF MayFollow
<1> QED
  BY <1>3 DEF version, derived

LEMMA CommandsKeepPlans ==
    ASSUME PlansInv(db), Next
    PROVE  PlansInv(db') /\ Keeps(db, db')
<1>0. Listed(db) \subseteq DOMAIN db.plans
  BY ListedPlans DEF PlansInv
<1>1. ASSUME NEW name, RunCommandLine(name)
      PROVE  PlansInv(db') /\ Keeps(db, db')
  <2> DEFINE version == Version(name, "plan", NoId, Default, {})
  <2>1. db' = AddNew(db, Uuid(db), version, FALSE)
    BY <1>1 DEF RunCommandLine, Save
  <2>2. IsVersion(version) /\ version.first = NoId /\ version.from = NoId /\ version.steps = {}
    BY DEF Version, IsVersion
  <2> HIDE DEF version
  <2> QED
    BY <2>1, <2>2, StoreOne
<1>2. ASSUME NEW name, NEW steps \in SUBSET Listed(db), Compose(name, steps)
      PROVE  PlansInv(db') /\ Keeps(db, db')
  <2> DEFINE version == Version(name, "composite", NoId, Default, steps)
  <2>1. db' = AddNew(db, Uuid(db), version, FALSE)
    BY <1>2 DEF Compose, Save
  <2>2. IsVersion(version) /\ version.first = NoId /\ version.from = NoId /\ version.steps = steps
    BY DEF Version, IsVersion
  <2> HIDE DEF version
  <2> QED
    BY <1>0, <2>1, <2>2, StoreOne
<1>3. ASSUME NEW p \in Listed(db), NEW name, NEW description, NEW before \in BOOLEAN,
             EditWorkflow(p, name, description, before)
      PROVE  PlansInv(db') /\ Keeps(db, db')
  <2> DEFINE version == [Derive(db, p) EXCEPT !.name = name, !.description = description]
  <2>1. db' = AddNew(db, Uuid(db), version, before)
    BY <1>3 DEF EditWorkflow, Save
  <2>2. MayFollow(version, p)
    BY Edited
  <2> HIDE DEF version
  <2> QED
    BY <2>1, <2>2, StoreOne DEF MayFollow
<1>4. ASSUME NEW p \in Listed(db), NEW force, RemovePlan(p, force)
      PROVE  PlansInv(db') /\ Keeps(db, db')
  <2> DEFINE latest == Latest(db, p)
             version == [Derive(db, latest) EXCEPT !.deleted = TRUE]
  <2>1. db' = AddNew(db, Uuid(db), version, FALSE)
    BY <1>4 DEF RemovePlan, Save
  <2>2. latest \in Listed(db)
    BY LatestLoop DEF PlansInv
  <2> HIDE DEF latest
  <2>3. MayFollow(version, latest)
    BY <2>2, Deleted
  <2> HIDE DEF version
  <2> QED
    BY <2>1, <2>2, <2>3, StoreOne DEF MayFollow
<1>5. ASSUME NEW p, NEW before, ExecuteWorkflow(p, before)
      PROVE  PlansInv(db') /\ Keeps(db, db')
  <2> DEFINE new == {q \in DOMAIN db.plans \ Listed(db) : q \in Leaves(db, p)}
  <2>1. db' = AddAll(db, new, before) /\ new \in SUBSET DOMAIN db.plans
    BY <1>5 DEF ExecuteWorkflow
  <2> HIDE DEF new
  <2> QED
    BY <2>1, AddAllKeepsPlans
<1>6. ASSUME NEW def, NEW selected, RunWorkflowFile(def, ToPlan(def), selected)
      PROVE  PlansInv(db') /\ Keeps(db, db')
  <2> DEFINE root == ToPlan(def)
             stored == Store(db, root.new)
             executed == {p \in stored.plans[root.id].steps : stored.plans[p].name[2] \in selected}
  <2>1. PICK before : db' = Add(AddAll(stored, executed, before), root.id, FALSE)
    BY <1>6 DEF RunWorkflowFile, Save
  <2>2. MayBeStored(db, root.new) /\ root.id \in Listed(db) \cup DOMAIN root.new
    BY FileMayBeStored
  <2> HIDE DEF root
  <2>3. /\ PlansInv(stored) /\ Keeps(db, stored)
        /\ DOMAIN stored.plans = DOMAIN db.plans \cup DOMAIN root.new
    BY <2>2, StoreKeepsPlans
  <2> HIDE DEF stored
  <2>4. root.id \in DOMAIN stored.plans
    BY <1>0, <2>2, <2>3
  <2>5. executed \in SUBSET DOMAIN stored.plans
    BY <2>3, <2>4 DEF PlansInv, RefersToStored
  <2> HIDE DEF executed
  <2> DEFINE added == AddAll(stored, executed, before)
  <2>6. PlansInv(added) /\ Keeps(stored, added) /\ DOMAIN added.plans = DOMAIN stored.plans
    <3> HIDE DEF added
    <3>1. added = AddAll(stored, executed, before)
      BY DEF added
    <3>2. PlansInv(stored) /\ executed \in SUBSET DOMAIN stored.plans
      BY <2>3, <2>5
    <3> QED
      BY ONLY <3>1, <3>2, AddAllKeepsPlans
  <2> HIDE DEF added
  <2>7. PlansInv(Add(added, root.id, FALSE)) /\ Keeps(added, Add(added, root.id, FALSE))
    BY <2>4, <2>6, AddKeepsPlans
  <2>8. Keeps(db, added)
    BY <2>3, <2>6, KeepsIsTransitive
  <2> QED
    BY <2>1, <2>7, <2>8, KeepsIsTransitive DEF added
<1> QED
  BY <1>1, <1>2, <1>3, <1>4, <1>5, <1>6 DEF Next

\* A plan that was removed gets no new first derivative: it may not be edited or
\* run, its removal comes last, and a workflow file gives its new versions, but
\* for steps that an earlier run left out, to plans that are not removed.
LEMMA CommandsKeepRemoved ==
    ASSUME PlansInv(db), Next
    PROVE  PlansStayRemoved(db, db')
<1> SUFFICES ASSUME \A p \in Listed(db') \ Listed(db) : p \notin DOMAIN db.plans
             PROVE  RemovedStay(db, db')
  BY DEF PlansStayRemoved, RemovedStay
<1>0. Listed(db) \subseteq DOMAIN db.plans
  BY ListedPlans DEF PlansInv
<1>1. ASSUME NEW name, RunCommandLine(name)
      PROVE  RemovedStay(db, db')
  <2> DEFINE version == Version(name, "plan", NoId, Default, {})
  <2>1. db' = AddNew(db, Uuid(db), version, FALSE)
    BY <1>1 DEF RunCommandLine, Save
  <2>2. IsVersion(version) /\ version.first = NoId /\ version.from = NoId /\ version.steps = {}
    BY DEF Version, IsVersion
  <2> HIDE DEF version
  <2> QED
    BY <2>1, <2>2, AddNewKeepsRemoved
<1>2. ASSUME NEW name, NEW steps \in SUBSET Listed(db), Compose(name, steps)
      PROVE  RemovedStay(db, db')
  <2> DEFINE version == Version(name, "composite", NoId, Default, steps)
  <2>1. db' = AddNew(db, Uuid(db), version, FALSE)
    BY <1>2 DEF Compose, Save
  <2>2. IsVersion(version) /\ version.first = NoId /\ version.from = NoId /\ version.steps = steps
    BY DEF Version, IsVersion
  <2> HIDE DEF version
  <2> QED
    BY <1>0, <2>1, <2>2, AddNewKeepsRemoved
<1>3. ASSUME NEW p \in Listed(db), NEW name, NEW description, NEW before \in BOOLEAN,
             EditWorkflow(p, name, description, before)
      PROVE  RemovedStay(db, db')
  <2> DEFINE version == [Derive(db, p) EXCEPT !.name = name, !.description = description]
  <2>1. db' = AddNew(db, Uuid(db), version, before) /\ ~IsPlanRemoved(db, p)
    BY <1>3 DEF EditWorkflow, Save
  <2>2. MayFollow(version, p)
    BY Edited
  <2> HIDE DEF version
  <2> QED
    BY <2>1, <2>2, AddNewKeepsRemoved DEF MayFollow
<1>4. ASSUME NEW p \in Listed(db), NEW force, RemovePlan(p, force)
      PROVE  RemovedStay(db, db')
  <2> DEFINE latest == Latest(db, p)
             version == [Derive(db, latest) EXCEPT !.deleted = TRUE]
  <2>1. db' = AddNew(db, Uuid(db), version, FALSE)
    BY <1>4 DEF RemovePlan, Save
  <2>2. latest \in Listed(db)
    BY LatestLoop DEF PlansInv
  <2> HIDE DEF latest
  <2>3. MayFollow(version, latest)
    BY <2>2, Deleted
  <2> HIDE DEF version
  <2> QED
    BY <2>1, <2>2, <2>3, AddNewKeepsRemoved DEF MayFollow
\* What execute_workflow lists was stored before.
<1>5. ASSUME NEW p, NEW before, ExecuteWorkflow(p, before)
      PROVE  RemovedStay(db, db')
  <2> DEFINE new == {q \in DOMAIN db.plans \ Listed(db) : q \in Leaves(db, p)}
  <2>1. db' = AddAll(db, new, before) /\ new # {} /\ new \in SUBSET DOMAIN db.plans
    BY <1>5 DEF ExecuteWorkflow
  <2>2. \A q \in new : q \in DOMAIN db.plans /\ q \notin Listed(db)
    OBVIOUS
  <2> HIDE DEF new
  <2>3. new \subseteq Listed(db')
    BY <2>1, AddAllKeepsPlans
  <2> QED
    BY <2>1, <2>2, <2>3
<1>6. ASSUME NEW def, NEW selected, RunWorkflowFile(def, ToPlan(def), selected)
      PROVE  RemovedStay(db, db')
  <2> DEFINE root == ToPlan(def)
             stored == Store(db, root.new)
             executed == {p \in stored.plans[root.id].steps : stored.plans[p].name[2] \in selected}
  <2>1. PICK before \in SUBSET {p \in executed \ Listed(db) : p \in DOMAIN db.plans} :
                db' = Add(AddAll(stored, executed, before), root.id, FALSE)
    BY <1>6 DEF RunWorkflowFile, Save
  <2>2. MayBeStored(db, root.new) /\ root.id \in Listed(db) \cup DOMAIN root.new
    BY FileMayBeStored
  <2> HIDE DEF root
  <2>3. /\ PlansInv(stored) /\ Keeps(db, stored)
        /\ DOMAIN stored.plans = DOMAIN db.plans \cup DOMAIN root.new
        /\ RemovedStay(db, stored)
    BY <2>2, StoreKeepsPlans, StoreKeepsRemoved
  <2> HIDE DEF stored
  <2>4. root.id \in DOMAIN stored.plans
    BY <1>0, <2>2, <2>3
  <2>5. executed \in SUBSET DOMAIN stored.plans
    BY <2>3, <2>4 DEF PlansInv, RefersToStored
  <2> HIDE DEF executed
  <2> DEFINE added == AddAll(stored, executed, before)
  <2>6. /\ PlansInv(added) /\ Keeps(stored, added) /\ DOMAIN added.plans = DOMAIN stored.plans
        /\ Listed(added) = Listed(stored) \cup executed
        /\ before \cap executed = {} => RemovedStay(stored, added)
    <3> HIDE DEF added
    <3>1. added = AddAll(stored, executed, before)
      BY DEF added
    <3>2. PlansInv(stored) /\ executed \in SUBSET DOMAIN stored.plans
      BY <2>3, <2>5
    <3> QED
      BY ONLY <3>1, <3>2, AddAllKeepsPlans
  <2>7. db' = Add(added, root.id, FALSE)
    BY <2>1
  <2> HIDE DEF added
  <2>8. Listed(db') = Listed(added) \cup {root.id} /\ RemovedStay(added, db')
    BY <2>4, <2>6, <2>7, AddKeepsPlans, AddKeepsRemoved
  <2>9. before \cap executed = {}
    BY <2>1, <2>6, <2>8
  <2>10. RemovedStay(db, added)
    BY <2>3, <2>6, <2>9, RemovedStayTransitively
  <2>11. Keeps(db, added)
    BY <2>3, <2>6, KeepsIsTransitive
  <2> QED
    BY <2>8, <2>10, <2>11, RemovedStayTransitively
<1> QED
  BY <1>1, <1>2, <1>3, <1>4, <1>5, <1>6 DEF Next

\* Only remove_plan removes plans: the other commands list no deleted versions,
\* and edit_workflow edits no removed plan.
LEMMA CommandsRemoveNone ==
    ASSUME PlansInv(db), Undeleted(db), Next
    PROVE  /\ Undeleted(db')
           /\ RemovesNone(db, db') \/ \E p \in Listed(db), force \in BOOLEAN : RemovePlan(p, force)
<1>0. Listed(db) \subseteq DOMAIN db.plans
  BY ListedPlans DEF PlansInv
<1>1. ASSUME NEW name, RunCommandLine(name)
      PROVE  Undeleted(db') /\ RemovesNone(db, db')
  <2> DEFINE version == Version(name, "plan", NoId, Default, {})
  <2>1. db' = AddNew(db, Uuid(db), version, FALSE)
    BY <1>1 DEF RunCommandLine, Save
  <2>2. IsVersion(version) /\ version.first = NoId /\ version.from = NoId /\ version.steps = {} /\ ~version.deleted
    BY DEF Version, IsVersion
  <2> HIDE DEF version
  <2> QED
    BY <2>1, <2>2, AddNewKeepsUndeleted
<1>2. ASSUME NEW name, NEW steps \in SUBSET Listed(db), Compose(name, steps)
      PROVE  Undeleted(db') /\ RemovesNone(db, db')
  <2> DEFINE version == Version(name, "composite", NoId, Default, steps)
  <2>1. db' = AddNew(db, Uuid(db), version, FALSE)
    BY <1>2 DEF Compose, Save
  <2>2. IsVersion(version) /\ version.first = NoId /\ version.from = NoId /\ version.steps = steps /\ ~version.deleted
    BY DEF Version, IsVersion
  <2> HIDE DEF version
  <2> QED
    BY <1>0, <2>1, <2>2, AddNewKeepsUndeleted
<1>3. ASSUME NEW p \in Listed(db), NEW name, NEW description, NEW before \in BOOLEAN,
             EditWorkflow(p, name, description, before)
      PROVE  Undeleted(db') /\ RemovesNone(db, db')
  <2> DEFINE version == [Derive(db, p) EXCEPT !.name = name, !.description = description]
  <2>1. db' = AddNew(db, Uuid(db), version, before) /\ ~IsPlanRemoved(db, p)
    BY <1>3 DEF EditWorkflow, Save
  <2>2. MayFollow(version, p) /\ version.deleted = db.plans[p].deleted
    BY Edited
  <2> HIDE DEF version
  <2>3. ~version.deleted
    BY <2>1, <2>2, Chains DEF IsPlanRemoved
  <2> QED
    BY <2>1, <2>2, <2>3, AddNewKeepsUndeleted DEF MayFollow
<1>4. ASSUME NEW p \in Listed(db), NEW force, RemovePlan(p, force)
      PROVE  Undeleted(db')
  <2> DEFINE latest == Latest(db, p)
             version == [Derive(db, latest) EXCEPT !.deleted = TRUE]
  <2>1. db' = AddNew(db, Uuid(db), version, FALSE)
    BY <1>4 DEF RemovePlan, Save
  <2>2. latest \in Listed(db)
    BY Chains
  <2> HIDE DEF latest
  <2>3. MayFollow(version, latest)
    BY <2>2, Deleted
  <2> HIDE DEF version
  <2> QED
    BY <2>1, <2>2, <2>3, AddNewKeepsUndeleted DEF MayFollow
<1>5. ASSUME NEW p, NEW before, ExecuteWorkflow(p, before)
      PROVE  Undeleted(db') /\ RemovesNone(db, db')
  <2> DEFINE new == {q \in DOMAIN db.plans \ Listed(db) : q \in Leaves(db, p)}
  <2>1. db' = AddAll(db, new, before) /\ new \in SUBSET DOMAIN db.plans
    BY <1>5 DEF ExecuteWorkflow
  <2> HIDE DEF new
  <2> QED
    BY <2>1, AddAllKeepsPlans
<1>6. ASSUME NEW def, NEW selected, RunWorkflowFile(def, ToPlan(def), selected)
      PROVE  Undeleted(db') /\ RemovesNone(db, db')
  <2> DEFINE root == ToPlan(def)
             stored == Store(db, root.new)
             executed == {p \in stored.plans[root.id].steps : stored.plans[p].name[2] \in selected}
  <2>1. PICK before : db' = Add(AddAll(stored, executed, before), root.id, FALSE)
    BY <1>6 DEF RunWorkflowFile, Save
  <2>2. /\ MayBeStored(db, root.new) /\ root.id \in Listed(db) \cup DOMAIN root.new
        /\ \A x \in DOMAIN root.new : ~root.new[x].deleted
    BY FileMayBeStored
  <2> HIDE DEF root
  <2>3. /\ PlansInv(stored) /\ Listed(stored) = Listed(db)
        /\ DOMAIN stored.plans = DOMAIN db.plans \cup DOMAIN root.new
        /\ RemovedStay(stored, db)
    BY <2>2, StoreKeepsPlans, StoreKeepsRemoved
  <2>4. Undeleted(stored)
    <3>1. stored.plans = Over(root.new, db.plans)
      BY DEF PlansInv, IsDatabase, Store
    <3> HIDE DEF stored
    <3>2. \A x \in DOMAIN stored.plans :
             stored.plans[x] = IF x \in DOMAIN root.new THEN root.new[x] ELSE db.plans[x]
      BY <3>1 DEF Over
    <3> QED
      BY <2>2, <2>3, <3>2 DEF Undeleted
  <2>5. RemovesNone(db, stored)
    BY <2>3 DEF RemovesNone, RemovedStay
  <2> HIDE DEF stored
  <2>6. root.id \in DOMAIN stored.plans
    BY <1>0, <2>2, <2>3
  <2>7. executed \in SUBSET DOMAIN stored.plans
    BY <2>3, <2>6 DEF PlansInv, RefersToStored
  <2> HIDE DEF executed
  <2> DEFINE added == AddAll(stored, executed, before)
  <2>8. /\ PlansInv(added) /\ Keeps(stored, added) /\ DOMAIN added.plans = DOMAIN stored.plans
        /\ Undeleted(added) /\ RemovesNone(stored, added)
    <3> HIDE DEF added
    <3>1. added = AddAll(stored, executed, before)
      BY DEF added
    <3>2. PlansInv(stored) /\ Undeleted(stored) /\ executed \in SUBSET DOMAIN stored.plans
      BY <2>3, <2>4, <2>7
    <3> QED
      BY ONLY <3>1, <3>2, AddAllKeepsPlans
  <2>9. db' = Add(added, root.id, FALSE)
    BY <2>1
  <2> HIDE DEF added
  <2>10. root.id \in DOMAIN added.plans /\ (root.id \in Listed(added) \/ ~added.plans[root.id].deleted)
    BY <2>6, <2>8 DEF Undeleted
  <2>11. RemovesNone(added, db')
    BY <2>8, <2>9, <2>10, AddRemovesNone
  <2>12. /\ Listed(db') = Listed(added) \cup {root.id} /\ DOMAIN db'.plans = DOMAIN added.plans
         /\ \A q \in DOMAIN added.plans : db'.plans[q].deleted = added.plans[q].deleted
    BY <2>8, <2>9, <2>10, AddKeepsPlans
  <2>13. Undeleted(db')
    BY <2>8, <2>12 DEF Undeleted
  <2>14. RemovesNone(db, added) /\ Listed(db) \subseteq Listed(added)
    BY <2>3, <2>5, <2>8, RemovesNoneTransitively DEF Keeps
  <2> QED
    BY <2>11, <2>13, <2>14, RemovesNoneTransitively
<1> QED
  BY <1>1, <1>2, <1>3, <1>4, <1>5, <1>6 DEF Next

\* A removal that is not forced: when a version becomes removed, the chain that
\* get_composite_plans_by_child looks at has it, and no composite that a name
\* leads to has a version of this chain.
LEMMA RemovalSparesComposites ==
    ASSUME PlansInv(db), NEW p \in Listed(db), RemovePlan(p, FALSE),
           NEW c \in NewestByName(db'), IsComposite(db'.plans[c]), c \in Listed(db),
           NEW s \in db'.plans[c].steps \cap Listed(db), IsPlanRemoved(db', s)
    PROVE  IsPlanRemoved(db, s)
<1> DEFINE latest == Latest(db, p)
           u == Uuid(db)
           version == [Derive(db, latest) EXCEPT !.deleted = TRUE]
           versions == Only(u, version)
           stored == Store(db, versions)
<1>1. db' = Add(stored, u, FALSE) /\ CompositesByChild(db, p) = {}
  BY DEF RemovePlan, Save, AddNew
<1>2. latest \in Listed(db) /\ Latest(db, latest) = latest /\ Chain(db, latest) = Chain(db, p)
  BY Chains
<1> HIDE DEF latest
<1>3. MayFollow(version, latest)
  BY <1>2, Deleted
<1> HIDE DEF version
<1>4. MayBeStored(db, versions) /\ DOMAIN versions = {u} /\ versions[u] = version
  BY <1>2, <1>3, OneMayBeStored DEF MayFollow
<1> HIDE DEF versions
<1>5. /\ PlansInv(stored) /\ Keeps(db, stored) /\ Listed(stored) = Listed(db)
      /\ DOMAIN stored.plans = DOMAIN db.plans \cup {u}
  BY <1>4, StoreKeepsPlans
<1>6. Listed(db) \subseteq DOMAIN db.plans /\ u \notin Listed(db)
  BY <1>4, ListedPlans DEF PlansInv, MayBeStored
<1>7. stored.byName = db.byName /\ stored.plans[u] = version /\ \A q \in Listed(db) : stored.plans[q] = db.plans[q]
  <2>1. stored.plans = Over(versions, db.plans) /\ stored.byName = db.byName
    BY DEF PlansInv, IsDatabase, Store
  <2> HIDE DEF stored
  <2> QED
    BY <1>4, <1>6, <2>1 DEF Over
<1> HIDE DEF stored, u
<1>8. \A q \in Listed(db) : Chain(stored, q) = Chain(db, q)
  BY <1>5, <1>7, ChainsChange
\* The composite was there, under a name, with the same steps.
<1>9. c \in NewestByName(db) /\ IsComposite(db.plans[c]) /\ s \in db.plans[c].steps
  <2>1. PlansInv(db') /\ Keeps(stored, db')
    BY <1>1, <1>5, AddKeepsPlans
  <2>2. /\ IsVersion(db.plans[c]) /\ IsVersion(db'.plans[c])
        /\ [db'.plans[c] EXCEPT !.first = NoId] = [db.plans[c] EXCEPT !.first = NoId]
    <3>1. c \in DOMAIN db'.plans
      BY <1>5, <1>6, <2>1 DEF Keeps
    <3> QED
      BY <1>5, <1>6, <1>7, <2>1, <3>1 DEF PlansInv, RefersToStored, Keeps, VersionsStay
  <2>3. db'.plans[c].kind = db.plans[c].kind /\ db'.plans[c].steps = db.plans[c].steps /\ db'.plans[c].deleted = db.plans[c].deleted
    <3> DEFINE v == [db'.plans[c] EXCEPT !.first = NoId]
    <3>1. v = [db'.plans[c] EXCEPT !.first = NoId] /\ v = [db.plans[c] EXCEPT !.first = NoId]
      BY <2>2
    <3> HIDE DEF v
    <3>2. v.kind = db'.plans[c].kind /\ v.steps = db'.plans[c].steps /\ v.deleted = db'.plans[c].deleted
      BY <2>2, <3>1, WithFirst
    <3>3. v.kind = db.plans[c].kind /\ v.steps = db.plans[c].steps /\ v.deleted = db.plans[c].deleted
      BY <2>2, <3>1, WithFirst
    <3> QED
      BY <3>2, <3>3
  <2>4. c \in Range(db.byName)
    <3>1. db'.byName = PopThenAdd(stored, u)
      BY <1>1, <1>5, <1>6 DEF Add
    <3>2. \A name \in DOMAIN db'.byName : db'.byName[name] = u \/ (name \in DOMAIN db.byName /\ db'.byName[name] = db.byName[name])
      <4> DEFINE new == stored.plans[u]
                 kept == IF new.from = NoId THEN stored.byName
                         ELSE Without(stored.byName, stored.plans[new.from].name)
      <4>1. db'.byName = Over(Only(new.name, u), kept)
        BY <3>1 DEF PopThenAdd
      <4>2. \A name \in DOMAIN kept : name \in DOMAIN db.byName /\ kept[name] = db.byName[name]
        BY <1>7 DEF Without
      <4> HIDE DEF new, kept
      <4> QED
        BY ONLY <4>1, <4>2 DEF Over, Only
    <3> QED
      BY <1>6, <3>2 DEF NewestByName, Range
  <2> QED
    BY <2>3, <2>4 DEF NewestByName, IsComposite
<1>10. s \notin Chain(db, p)
  BY <1>1, <1>9 DEF CompositesByChild
<1>11. Chain(db', s) = Chain(stored, s)
  <2>1. /\ PlansInv(db') /\ Keeps(stored, db')
        /\ \A q \in Listed(stored) :
              \/ db'.plans[q].first = stored.plans[q].first
              \/ /\ db'.plans[q].first = u /\ q = stored.plans[u].from
                 /\ u \in Listed(db') /\ db'.plans[u].from = q /\ db'.plans[u].first = NoId
    <3>1. u \in DOMAIN stored.plans \ Listed(stored)
      BY <1>5, <1>6
    <3>2. PlansInv(db') /\ Keeps(stored, db')
      BY <1>1, <1>5, <3>1, AddKeepsPlans
    <3>3. \A q \in Listed(stored) :
             \/ db'.plans[q].first = stored.plans[q].first
             \/ /\ db'.plans[q].first = u /\ q = stored.plans[u].from
                /\ u \in Listed(db') /\ db'.plans[u].from = q /\ db'.plans[u].first = NoId
      <4> DEFINE before == FALSE
      <4>1. db' = Add(stored, u, before) /\ PlansInv(stored) /\ before \in BOOLEAN
        BY <1>1, <1>5
      <4> HIDE DEF before
      <4> QED
        BY ONLY <3>1, <4>1, AddChangesFirst
    <3> QED
      BY <3>2, <3>3
  <2>2. \A q \in Listed(stored) :
           LET first == db'.plans[q].first
           IN  \/ first = stored.plans[q].first
               \/ first \in Listed(db') /\ db'.plans[first].from = q /\ db'.plans[first].first = NoId
    BY <2>1
  <2>3. \/ Chain(db', s) = Chain(stored, s)
        \/ \E q \in Listed(stored) : Latest(stored, s) = Latest(stored, q) /\ db'.plans[q].first # stored.plans[q].first
    BY <1>5, <2>1, <2>2, ChainsChange DEF Keeps
  <2>4. ASSUME NEW q \in Listed(stored), Latest(stored, s) = Latest(stored, q), db'.plans[q].first # stored.plans[q].first
        PROVE  FALSE
    <3>1. q = latest
      BY <1>3, <1>7, <2>1, <2>4 DEF MayFollow
    <3>2. Chain(stored, s) = Chain(stored, q)
      BY <1>5, <2>4, Chains
    <3>3. Chain(db, s) = Chain(db, p)
      BY <1>2, <1>5, <1>8, <2>4, <3>1, <3>2
    <3>4. s \in Chain(db, s)
      BY Chains
    <3> QED
      BY <1>10, <3>3, <3>4
  <2> QED
    BY <2>3, <2>4
<1>12. \A x \in Chain(db, s) : db'.plans[x].deleted = db.plans[x].deleted
  <2>1. \A x \in Listed(db) : db'.plans[x].deleted = db.plans[x].deleted
    <3>1. u \in DOMAIN stored.plans
      BY <1>5
    <3>2. \A x \in DOMAIN stored.plans : db'.plans[x].deleted = stored.plans[x].deleted
      BY <1>1, <1>5, <3>1, AddKeepsPlans
    <3> QED
      BY <1>5, <1>6, <1>7, <3>2
  <2> QED
    BY <2>1, Chains
<1> QED
  BY <1>8, <1>11, <1>12 DEF IsPlanRemoved

LEMMA PlansInvHolds == Spec => []PlansInv(db)
<1>1. PlansInv(db) /\ UNCHANGED vars => PlansInv(db')
  BY DEF vars
<1>2. PlansInv(db) /\ [Next]_vars => PlansInv(db)'
  BY <1>1, CommandsKeepPlans
<1> QED
  BY <1>2, StartsEmpty, PTL DEF Spec

\* Names lead to the newest versions (NamesFindNewest), in whatever order plans
\* are run, composed, edited by name or identifier, removed and read from files.
THEOREM NamesFindNewestVersions == Spec => []NamesFindNewest
<1>1. PlansInv(db) => NamesFindNewest
  BY DEF PlansInv, NamesFindNewest
<1> QED
  BY <1>1, PlansInvHolds, PTL

\* No command changes a listed version or brings back a removed plan
\* (HistoryIsKept), whatever the order of the identifiers.
THEOREM HistoryStays == Spec => HistoryIsKept
<1>1. PlansInv(db) /\ [Next]_vars => [VersionsStay(db, db') /\ PlansStayRemoved(db, db')]_vars
  BY CommandsKeepPlans, CommandsKeepRemoved DEF Keeps
<1> QED
  BY <1>1, PlansInvHolds, PTL DEF Spec, HistoryIsKept

LEMMA ForcedAreStored == Spec => [](Undeleted(db) /\ forced \subseteq DOMAIN db.plans)
<1> DEFINE I == Undeleted(db) /\ forced \subseteq DOMAIN db.plans
<1>1. Init => I
  BY DEF Init, Undeleted
<1>2. PlansInv(db) /\ I /\ UNCHANGED vars => I'
  BY DEF vars, Undeleted, Listed
<1>3. ASSUME PlansInv(db), I, Next PROVE I'
  <2>1. Undeleted(db')
    BY <1>3, CommandsRemoveNone
  <2>2. DOMAIN db.plans \subseteq DOMAIN db'.plans
    BY <1>3, CommandsKeepPlans DEF Keeps
  <2>3. forced' = forced \/ \E p \in Listed(db), force \in BOOLEAN : RemovePlan(p, force)
    BY <1>3 DEF Next, RunCommandLine, Compose, EditWorkflow, ExecuteWorkflow, RunWorkflowFile
  <2>4. ASSUME NEW p \in Listed(db), NEW force \in BOOLEAN, RemovePlan(p, force)
        PROVE  forced' \subseteq DOMAIN db'.plans
    <3>1. /\ forced' \subseteq forced \cup {Uuid(db)}
          /\ \E version : db' = AddNew(db, Uuid(db), version, FALSE) /\ MayFollow(version, Latest(db, p))
      BY <1>3, <2>4, Chains, Deleted DEF RemovePlan, Save
    <3>2. PICK version : db' = AddNew(db, Uuid(db), version, FALSE) /\ MayFollow(version, Latest(db, p))
      BY <3>1
    <3>3. Uuid(db) \in DOMAIN db'.plans
      BY <1>3, <3>2, Chains, AddNewKeepsUndeleted DEF MayFollow
    <3> QED
      BY <1>3, <2>2, <3>1, <3>3
  <2> QED
    BY <1>3, <2>1, <2>2, <2>3, <2>4
<1> QED
  BY <1>1, <1>2, <1>3, PlansInvHolds, PTL DEF Spec

\* A step of a composite workflow that a name leads to is removed by force only
\* (OnlyForceBreaksComposites).
THEOREM ComposedStepsStay == Spec => OnlyForceBreaksComposites
<1> DEFINE I == Undeleted(db) /\ forced \subseteq DOMAIN db.plans
           Spared == \A c \in NewestByName(db') : IsComposite(db'.plans[c]) /\ c \in Listed(db) =>
                        \A s \in db'.plans[c].steps \cap Listed(db) :
                            IsPlanRemoved(db', s) => IsPlanRemoved(db, s) \/ forced' # forced
<1>1. ASSUME PlansInv(db), I, Next PROVE Spared
  <2>1. SUFFICES ASSUME NEW c \in NewestByName(db'), IsComposite(db'.plans[c]), c \in Listed(db),
                        NEW s \in db'.plans[c].steps \cap Listed(db), IsPlanRemoved(db', s), forced' = forced
                 PROVE  IsPlanRemoved(db, s)
    OBVIOUS
  <2>2. CASE RemovesNone(db, db')
    BY <2>1, <2>2 DEF RemovesNone
  <2>3. ASSUME NEW p \in Listed(db), NEW force \in BOOLEAN, RemovePlan(p, force) PROVE IsPlanRemoved(db, s)
    <3>1. CASE force
      <4>1. Uuid(db) \in forced
        BY <2>1, <2>3, <3>1 DEF RemovePlan
      <4> QED
        BY <1>1, <4>1, UuidIsNew
    <3>2. CASE ~force
      BY <1>1, <2>1, <2>3, <3>2, RemovalSparesComposites
    <3> QED
      BY <3>1, <3>2
  <2> QED
    BY <1>1, <2>2, <2>3, CommandsRemoveNone
<1>2. PlansInv(db) /\ I /\ [Next]_vars => [Spared]_vars
  BY <1>1
<1> QED
  BY <1>2, PlansInvHolds, ForcedAreStored, PTL DEF Spec, OnlyForceBreaksComposites

-----------------------------------------------------------------------------
\* Workflow files that have not changed.

\* Plans of a workflow file have the kind that their identifier says, a
\* derivative has that of its version, and only steps are stored but not listed.
Kinds(d) ==
    /\ \A p \in DOMAIN d.plans : p[1] \in {"file", "step"} => d.plans[p].kind = p[1]
    /\ \A p \in DOMAIN d.plans : d.plans[p].from # NoId => d.plans[d.plans[p].from].kind = d.plans[p].kind
UnlistedAreSteps(d) == \A p \in DOMAIN d.plans \ Listed(d) : d.plans[p].kind = "step"

\* The first identifier of the file whose plan is not removed leads to a version
\* that equals the definition.
FileEquals(d, p, def) ==
    /\ d.plans[p].name = def.name /\ d.plans[p].description = def.description
    /\ \A s \in Steps : \E q \in d.plans[p].steps : IsStep(d.plans[q], def, s)
FileIsCurrent(d, def) ==
    \E k \in 0..Cardinality(Listed(d)) :
        /\ \A l \in 0..k : FileId(l) \in Listed(d) /\ (IsPlanRemoved(d, FileId(l)) <=> l < k)
        /\ FileEquals(d, Latest(d, FileId(k)), def)

\* Adding steps leaves the plans of files as they are.
FilesStay(d, e) ==
    \A p \in Listed(d) : d.plans[p].kind = "file" => Latest(e, p) = Latest(d, p) /\ Chain(e, p) = Chain(d, p)

LEMMA KindOfLatest ==
    ASSUME NEW d, PlansInv(d), Kinds(d)
    PROVE  \A p \in Listed(d) : d.plans[Latest(d, p)].kind = d.plans[p].kind
<1>1. PICK f : NewestBy(d, f) /\ \A p : Latest(d, p) = f[p]
  BY LatestLoop DEF PlansInv
<1>2. Listed(d) \subseteq DOMAIN d.plans /\ NoId \notin DOMAIN d.plans
  BY ListedPlans, NoIdIsNone DEF PlansInv
<1> DEFINE S == {p \in Listed(d) : d.plans[f[p]].kind = d.plans[p].kind}
<1>3. ASSUME NEW p \in Listed(d), \A q \in Later(d, p) : q \in S PROVE p \in S
  <2>1. CASE d.plans[p].first = NoId
    BY <1>1, <1>2, <2>1 DEF NewestBy
  <2>2. CASE d.plans[p].first # NoId
    <3> DEFINE first == d.plans[p].first
    <3>1. f[p] = f[first]
      BY <1>1, <1>2, <2>2 DEF NewestBy
    <3>2. first \in Later(d, p) /\ d.plans[first].from = p
      BY <1>2, <2>2 DEF PlansInv, FirstIsLater, FirstIsDerived
    <3>3. first \in Listed(d)
      BY <3>2 DEF Later
    <3> HIDE DEF first
    <3>4. d.plans[p].kind = d.plans[first].kind
      BY <1>2, <3>2, <3>3 DEF Kinds
    <3> QED
      BY <1>3, <3>1, <3>2, <3>4
  <2> QED
    BY <2>1, <2>2
<1>4. Listed(d) \subseteq S
  <2> HIDE DEF S
  <2> QED
    BY <1>3, InReverse DEF PlansInv
<1> QED
  BY <1>1, <1>4

LEMMA ContentsKeepKinds ==
    ASSUME NEW d, PlansInv(d), Kinds(d), NEW e, DOMAIN e.plans = DOMAIN d.plans, ContentsStay(d, e)
    PROVE  Kinds(e)
<1>1. \A p \in DOMAIN d.plans : d.plans[p].from # NoId => d.plans[p].from \in DOMAIN d.plans
  BY ListedPlans DEF PlansInv, RefersToStored
<1>2. \A p \in DOMAIN d.plans : e.plans[p].kind = d.plans[p].kind /\ e.plans[p].from = d.plans[p].from
  BY DEF ContentsStay, HaveSameContents
<1> QED
  BY <1>1, <1>2 DEF Kinds

LEMMA FilesStayTransitively ==
    ASSUME NEW d, NEW e, NEW f, FilesStay(d, e), FilesStay(e, f), Listed(d) \subseteq Listed(e),
           Listed(d) \subseteq DOMAIN d.plans, ContentsStay(d, e)
    PROVE  FilesStay(d, f)
BY DEF FilesStay, ContentsStay, HaveSameContents

LEMMA AddKeepsFiles ==
    ASSUME NEW d, PlansInv(d), Kinds(d), NEW p \in DOMAIN d.plans, NEW before \in BOOLEAN,
           p \in Listed(d) \/ d.plans[p].kind = "step"
    PROVE  /\ Kinds(Add(d, p, before)) /\ ContentsStay(d, Add(d, p, before))
           /\ FilesStay(d, Add(d, p, before))
<1> DEFINE e == Add(d, p, before)
<1>1. /\ PlansInv(e) /\ Keeps(d, e) /\ ContentsStay(d, e) /\ DOMAIN e.plans = DOMAIN d.plans
      /\ p \in Listed(e)
  BY AddKeepsPlans
<1>2. CASE p \in Listed(d)
  BY <1>1, <1>2 DEF Add, FilesStay
<1>3. CASE p \notin Listed(d)
  <2>1. \A q \in Listed(d) :
           \/ e.plans[q].first = d.plans[q].first
           \/ /\ e.plans[q].first = p /\ q = d.plans[p].from
              /\ p \in Listed(e) /\ e.plans[p].from = q /\ e.plans[p].first = NoId
    BY <1>3, AddChangesFirst
  <2> HIDE DEF e
  <2>2. \A x \in Listed(d) :
           \/ Latest(e, x) = Latest(d, x) /\ Chain(e, x) = Chain(d, x)
           \/ \E q \in Listed(d) : Latest(d, x) = Latest(d, q) /\ e.plans[q].first # d.plans[q].first
    <3>1. Listed(d) \subseteq Listed(e) /\ \A q \in Listed(d) : e.plans[q].from = d.plans[q].from
      BY <1>1 DEF Keeps
    <3>2. \A q \in Listed(d) :
             LET first == e.plans[q].first
             IN  \/ first = d.plans[q].first
                 \/ first \in Listed(e) /\ e.plans[first].from = q /\ e.plans[first].first = NoId
      BY <2>1
    <3> QED
      BY <1>1, <3>1, <3>2, ChainsChange
  <2>3. ASSUME NEW x \in Listed(d), d.plans[x].kind = "file",
               NEW q \in Listed(d), Latest(d, x) = Latest(d, q), e.plans[q].first # d.plans[q].first
        PROVE  FALSE
    <3>1. q = d.plans[p].from /\ q # NoId
      BY <2>1, <2>3, ListedPlans, NoIdIsNone DEF PlansInv
    <3>2. d.plans[q].kind = "step"
      BY <1>3, <3>1 DEF Kinds
    <3> QED
      BY <2>3, <3>2, KindOfLatest
  <2>4. FilesStay(d, e)
    BY <2>2, <2>3 DEF FilesStay
  <2> QED
    BY <1>1, <2>4, ContentsKeepKinds DEF e
<1> QED
  BY <1>1, <1>2, <1>3, ContentsKeepKinds

LEMMA AddAllKeepsFiles ==
    ASSUME NEW d, PlansInv(d), Kinds(d), NEW ps \in SUBSET DOMAIN d.plans, NEW before,
           \A p \in ps : p \in Listed(d) \/ d.plans[p].kind = "step"
    PROVE  LET e == AddAll(d, ps, before)
           IN  Kinds(e) /\ ContentsStay(d, e) /\ FilesStay(d, e)
<1> DEFINE order == SetToSeq(ps)
           n == Len(order)
<1>1. IsFiniteSet(ps)
  BY FS_Subset DEF PlansInv, IsDatabase
<1>2. order \in Seq(ps)
  BY <1>1, Ordered
<1>3. n \in Nat /\ \A i \in 1..n : order[i] \in ps
  BY <1>2
<1>4. PICK f : /\ f = [i \in 0..n |-> IF i = 0 THEN d ELSE Add(f[i - 1], order[i], order[i] \in before)]
               /\ AddAll(d, ps, before) = f[n]
  BY <1>3, AddAllLoop
<1> DEFINE Sound(e) == /\ PlansInv(e) /\ Listed(d) \subseteq Listed(e) /\ DOMAIN e.plans = DOMAIN d.plans
                       /\ Kinds(e) /\ ContentsStay(d, e) /\ FilesStay(d, e)
           Q == {i \in 0..n : Sound(f[i])}
<1>5. f[0] = d /\ \A i \in 1..n : f[i] = Add(f[i - 1], order[i], order[i] \in before)
  BY <1>3, <1>4
<1> HIDE DEF order, n
<1>6. 0 \in Q
  BY <1>3, <1>5 DEF ContentsStay, HaveSameContents, FilesStay
<1>7. ASSUME NEW i \in 1..n, i - 1 \in Q PROVE i \in Q
  <2> DEFINE e == f[i - 1]
             p == order[i]
             first == p \in before
  <2>1. Sound(e) /\ p \in ps /\ f[i] = Add(e, p, first) /\ first \in BOOLEAN
    BY <1>3, <1>5, <1>7
  <2> HIDE DEF e, p, first
  <2>2. p \in DOMAIN e.plans /\ (p \in Listed(e) \/ e.plans[p].kind = "step")
    BY <2>1 DEF ContentsStay, HaveSameContents
  <2>3. /\ PlansInv(f[i]) /\ Keeps(e, f[i]) /\ DOMAIN f[i].plans = DOMAIN d.plans
        /\ Kinds(f[i]) /\ ContentsStay(e, f[i]) /\ FilesStay(e, f[i])
    BY <2>1, <2>2, AddKeepsPlans, AddKeepsFiles
  <2>4. ContentsStay(d, f[i])
    BY <2>1, <2>3 DEF ContentsStay, HaveSameContents
  <2>5. Listed(d) \subseteq DOMAIN d.plans
    BY ListedPlans DEF PlansInv
  <2>6. FilesStay(d, f[i])
    BY <2>1, <2>3, <2>5, FilesStayTransitively
  <2> QED
    BY <1>3, <2>1, <2>3, <2>4, <2>6 DEF Keeps
<1>8. n \in Q
  <2>1. \A i \in 1..n : i - 1 \in Q => i \in Q
    BY <1>7
  <2> HIDE DEF Q
  <2>2. 0..n \subseteq Q
    BY <1>3, <1>6, <2>1, Induction
  <2> QED
    BY <1>3, <2>2
<1> QED
  BY <1>4, <1>8

LEMMA FileStaysCurrent ==
    ASSUME NEW d, PlansInv(d), Kinds(d), NEW e, PlansInv(e), Listed(d) \subseteq Listed(e),
           ContentsStay(d, e), FilesStay(d, e), NEW def, FileIsCurrent(d, def)
    PROVE  FileIsCurrent(e, def)
<1>1. PICK k \in 0..Cardinality(Listed(d)) :
                /\ \A l \in 0..k : FileId(l) \in Listed(d) /\ (IsPlanRemoved(d, FileId(l)) <=> l < k)
                /\ FileEquals(d, Latest(d, FileId(k)), def)
  BY DEF FileIsCurrent
<1>2. /\ Listed(d) \subseteq DOMAIN d.plans
      /\ \A p \in Listed(d) : Latest(d, p) \in Listed(d) /\ Chain(d, p) \subseteq Listed(d)
      /\ \A p \in DOMAIN d.plans : d.plans[p].steps \subseteq DOMAIN d.plans
  BY ListedPlans, Chains DEF PlansInv, RefersToStored
<1>3. ASSUME NEW l \in 0..k
      PROVE  /\ FileId(l) \in Listed(d) /\ Latest(e, FileId(l)) = Latest(d, FileId(l))
             /\ IsPlanRemoved(e, FileId(l)) <=> IsPlanRemoved(d, FileId(l))
  <2>1. FileId(l)[1] = "file"
    BY DEF FileId
  <2>2. FileId(l) \in Listed(d) /\ d.plans[FileId(l)].kind = "file"
    BY <1>1, <1>2, <2>1 DEF Kinds
  <2>3. Latest(e, FileId(l)) = Latest(d, FileId(l)) /\ Chain(e, FileId(l)) = Chain(d, FileId(l))
    BY <2>2 DEF FilesStay
  <2> QED
    BY <1>2, <2>2, <2>3 DEF IsPlanRemoved, ContentsStay, HaveSameContents
<1>4. FileEquals(e, Latest(e, FileId(k)), def)
  <2> DEFINE p == Latest(d, FileId(k))
  <2>1. p \in DOMAIN d.plans /\ FileEquals(d, p, def) /\ Latest(e, FileId(k)) = p
    BY <1>1, <1>2, <1>3
  <2> HIDE DEF p
  <2>2. /\ e.plans[p].name = d.plans[p].name /\ e.plans[p].description = d.plans[p].description
        /\ e.plans[p].steps = d.plans[p].steps
        /\ \A q \in d.plans[p].steps : /\ e.plans[q].name = d.plans[q].name
                                       /\ e.plans[q].description = d.plans[q].description
    BY <1>2, <2>1 DEF ContentsStay, HaveSameContents
  <2> QED
    BY <2>1, <2>2 DEF FileEquals, IsStep
<1>5. k \in 0..Cardinality(Listed(e))
  <2>1. IsFiniteSet(Listed(e)) /\ Listed(d) \in SUBSET Listed(e)
    BY ListedPlans, FS_Subset DEF PlansInv, IsDatabase
  <2>2. IsFiniteSet(Listed(d)) /\ Cardinality(Listed(d)) <= Cardinality(Listed(e))
    BY <2>1, FS_Subset
  <2>3. Cardinality(Listed(d)) \in Nat /\ Cardinality(Listed(e)) \in Nat
    BY <2>1, <2>2, FS_CardinalityType
  <2> QED
    BY <2>2, <2>3
<1> QED
  BY <1>1, <1>3, <1>4, <1>5 DEF FileIsCurrent

\* New identifiers differ where those that were computed from the path do.
LEMMA NewIdsDiffer ==
    ASSUME NEW x, NEW y, x[1] \in {"file", "step"}, y[1] \in {"file", "step"}, NewId(x) = NewId(y)
    PROVE  x = y
<1> DEFINE n == Cardinality(DOMAIN db.plans)
           ofX == <<"uuid", n, x>>
           ofY == <<"uuid", n, y>>
<1>1. ofX[1] = "uuid" /\ ofX[3] = x /\ ofY[1] = "uuid" /\ ofY[3] = y
  OBVIOUS
<1>2. NewId(x) \in {x, ofX} /\ NewId(y) \in {y, ofY}
  BY DEF NewId
<1> HIDE DEF ofX, ofY
<1> QED
  BY <1>1, <1>2

LEMMA StepPlanContents ==
    ASSUME PlansInv(db), Kinds(db), NEW def, NEW s
    PROVE  LET step == StepPlan(def, s)
           IN  \E id :
                /\ id[1] = "step" /\ id[2] = s
                /\ \/ /\ step.new = <<>> /\ step.id \in Listed(db)
                      /\ db.plans[step.id].kind = "step" /\ IsStep(db.plans[step.id], def, s)
                   \/ /\ step.id = NewId(id) /\ DOMAIN step.new = {step.id}
                      /\ step.new[step.id].kind = "step" /\ IsStep(step.new[step.id], def, s)
                      /\ step.new[step.id].from # NoId => db.plans[step.new[step.id].from].kind = "step"
<1> DEFINE ids == [k \in Sequence |-> StepId(def.name, s, k)]
           id == Free(ids)
           existing == Existing(id)
           version == Version(QualifiedName(def.name, s), "step", existing, def.steps[s], {})
           new == Only(NewId(id), version)
<1>1. id[1] = "step" /\ id[2] = s
  BY StepIdIsFree
<1>2. \/ existing # NoId /\ IsStep(db.plans[existing], def, s) /\ StepPlan(def, s) = [id |-> existing, new |-> <<>>]
      \/ StepPlan(def, s) = [id |-> NewId(id), new |-> new]
  BY DEF StepPlan
<1> HIDE DEF id
<1>3. existing # NoId => existing \in Listed(db) /\ db.plans[existing].kind = "step"
  <2>1. ASSUME existing # NoId PROVE id \in Listed(db) /\ existing = Latest(db, id)
    BY <2>1 DEF Existing
  <2>2. id \in Listed(db) => db.plans[id].kind = "step" /\ db.plans[Latest(db, id)].kind = "step" /\ Latest(db, id) \in Listed(db)
    BY <1>1, ListedPlans, KindOfLatest, Chains DEF Kinds, PlansInv
  <2> QED
    BY <2>1, <2>2
<1> HIDE DEF existing
<1>4. version.kind = "step" /\ version.from = existing /\ IsStep(version, def, s)
  BY DEF Version, IsStep
<1> HIDE DEF version
<1>5. DOMAIN new = {NewId(id)} /\ new[NewId(id)] = version
  BY DEF Only
<1> HIDE DEF new
<1> DEFINE step == StepPlan(def, s)
<1>6. CASE existing # NoId /\ IsStep(db.plans[existing], def, s) /\ step = [id |-> existing, new |-> <<>>]
  BY <1>1, <1>3, <1>6
<1>7. CASE step = [id |-> NewId(id), new |-> new]
  <2>1. step.id = NewId(id) /\ step.new = new
    BY <1>7
  <2> HIDE DEF step
  <2> QED
    BY <1>1, <1>3, <1>4, <1>5, <2>1 DEF step
<1> QED
  BY <1>2, <1>6, <1>7

\* The plan of a file whose definition has changed, or whose plans were removed.
IsNewFile(root, def, id) ==
    /\ root.id = NewId(id) /\ root.id \in DOMAIN root.new
    /\ root.new[root.id] = Version(def.name, "file", Existing(id), def.description, {StepPlan(def, s).id : s \in Steps})
    /\ \A x \in DOMAIN root.new \ {root.id} :
          \E s \in Steps : x \in DOMAIN StepPlan(def, s).new /\ root.new[x] = StepPlan(def, s).new[x]
    /\ \A s \in Steps : \A x \in DOMAIN StepPlan(def, s).new :
          x # root.id /\ x \in DOMAIN root.new /\ root.new[x] = StepPlan(def, s).new[x]

LEMMA FileContents ==
    ASSUME PlansInv(db), Kinds(db), NEW def
    PROVE  \E k \in Sequence :
              /\ \A l \in 0..k - 1 : FileId(l) \in Listed(db) /\ IsPlanRemoved(db, FileId(l))
              /\ FileId(k) \in Listed(db) => ~IsPlanRemoved(db, FileId(k))
              /\ IF FileId(k) \in Listed(db) /\ FileEquals(db, Latest(db, FileId(k)), def)
                 THEN ToPlan(def) = [id |-> Latest(db, FileId(k)), new |-> <<>>]
                 ELSE IsNewFile(ToPlan(def), def, FileId(k))
<1> DEFINE ids == [k \in Sequence |-> FileId(k)]
           id == Free(ids)
           existing == Existing(id)
           plan(s) == StepPlan(def, s)
           steps == {plan(s) : s \in Steps}
           fs == {step.new : step \in steps}
           new == Merged(fs)
           version == Version(def.name, "file", existing, def.description, {step.id : step \in steps})
           all == Over(Only(NewId(id), version), new)
<1>1. PICK k \in Sequence : id = ids[k] /\ IsFree(ids[k]) /\ \A l \in 0..k - 1 : ~IsFree(ids[l])
  <2>1. \A i \in Sequence : ids[i] = FileId(i)
    OBVIOUS
  <2>2. \A i, j \in Sequence : ids[i] = ids[j] => i = j
    BY <2>1 DEF FileId
  <2>3. ids = [i \in Sequence |-> ids[i]]
    OBVIOUS
  <2> HIDE DEF ids
  <2> QED
    BY <2>2, <2>3, SomeIsFree
<1>2. k \in Nat /\ id = FileId(k) /\ id[1] = "file" /\ \A l \in 0..k - 1 : ids[l] = FileId(l)
  <2>1. Cardinality(Listed(db)) \in Nat
    BY ListedPlans, FS_Subset, FS_CardinalityType DEF PlansInv, IsDatabase
  <2>2. k \in Nat /\ 0..k - 1 \subseteq Sequence
    BY <2>1 DEF Sequence
  <2>3. \A i \in Sequence : ids[i] = FileId(i)
    OBVIOUS
  <2> HIDE DEF id, ids
  <2> QED
    BY <1>1, <2>2, <2>3 DEF FileId
<1>3. \A p \in Listed(db) : IsPlanRemoved(db, Latest(db, p)) <=> IsPlanRemoved(db, p)
  BY Chains DEF IsPlanRemoved
<1>4. \/ ToPlan(def) = [id |-> existing, new |-> <<>>] /\ existing # NoId /\ FileEquals(db, existing, def)
      \/ ToPlan(def) = [id |-> NewId(id), new |-> all] /\ ~(existing # NoId /\ FileEquals(db, existing, def))
  BY DEF ToPlan, IsEqual, FileEquals
<1> HIDE DEF ids, id
<1>5. /\ \A l \in 0..k - 1 : FileId(l) \in Listed(db) /\ IsPlanRemoved(db, FileId(l))
      /\ id \in Listed(db) => ~IsPlanRemoved(db, id)
  BY <1>1, <1>2, <1>3 DEF IsFree
<1>6. /\ id \in Listed(db) => existing = Latest(db, id) /\ existing # NoId
      /\ id \notin Listed(db) => existing = NoId
  BY Chains, ListedPlans, NoIdIsNone DEF Existing, PlansInv
<1>7. CASE ToPlan(def) = [id |-> existing, new |-> <<>>] /\ existing # NoId /\ FileEquals(db, existing, def)
  BY <1>2, <1>5, <1>6, <1>7
<1>8. CASE ToPlan(def) = [id |-> NewId(id), new |-> all] /\ ~(existing # NoId /\ FileEquals(db, existing, def))
  <2>1. ~(id \in Listed(db) /\ FileEquals(db, Latest(db, id), def))
    BY <1>6, <1>8
  <2>2. /\ DOMAIN new = UNION {DOMAIN f : f \in fs}
        /\ \A x \in DOMAIN new : \E f \in fs : x \in DOMAIN f /\ new[x] = f[x]
    <3> HIDE DEF fs
    <3>1. DOMAIN new = UNION {DOMAIN f : f \in fs}
      BY DEF Merged
    <3>2. ASSUME NEW x \in DOMAIN new PROVE \E f \in fs : x \in DOMAIN f /\ new[x] = f[x]
      <4>1. \E f \in fs : x \in DOMAIN f
        BY <3>1
      <4> DEFINE g == CHOOSE f \in fs : x \in DOMAIN f
      <4>2. g \in fs /\ x \in DOMAIN g
        BY <4>1
      <4>3. new[x] = g[x]
        BY <3>1, <3>2 DEF Merged
      <4> QED
        BY <4>2, <4>3
    <3> HIDE DEF new
    <3> QED
      BY <3>1, <3>2
  <2>3. /\ DOMAIN all = {NewId(id)} \cup DOMAIN new
        /\ \A x \in DOMAIN all : all[x] = IF x = NewId(id) THEN version ELSE new[x]
    BY DEF Over, Only
  <2>4. {step.id : step \in steps} = {plan(s).id : s \in Steps}
    <3> HIDE DEF plan
    <3> QED
      OBVIOUS
  <2>5. \A s \in Steps : \A x \in DOMAIN plan(s).new : \E i : i[1] = "step" /\ i[2] = s /\ x = NewId(i)
    <3> SUFFICES ASSUME NEW s \in Steps, NEW x \in DOMAIN plan(s).new
                 PROVE  \E i : i[1] = "step" /\ i[2] = s /\ x = NewId(i)
      OBVIOUS
    <3>1. PICK i : /\ i[1] = "step" /\ i[2] = s
                   /\ \/ plan(s).new = <<>>
                      \/ plan(s).id = NewId(i) /\ DOMAIN plan(s).new = {plan(s).id}
      BY StepPlanContents
    <3> HIDE DEF plan
    <3> QED
      BY <3>1
  <2> HIDE DEF plan
  <2>6. \A s, t \in Steps : \A x : x \in DOMAIN plan(s).new /\ x \in DOMAIN plan(t).new => s = t
    BY <2>5, NewIdsDiffer
  <2>7. \A s \in Steps : \A x \in DOMAIN plan(s).new : x # NewId(id)
    BY <1>2, <2>5, NewIdsDiffer
  <2>8. \A x \in DOMAIN new : \E s \in Steps : x \in DOMAIN plan(s).new /\ new[x] = plan(s).new[x]
    <3> HIDE DEF new
    <3> QED
      BY <2>2
  <2>9. \A s \in Steps : DOMAIN plan(s).new \subseteq DOMAIN new
    <3> HIDE DEF new
    <3> QED
      BY <2>2
  <2>10. version = Version(def.name, "file", existing, def.description, {plan(s).id : s \in Steps})
    BY <2>4
  <2> HIDE DEF all, new, version, fs, steps
  <2> DEFINE root == ToPlan(def)
  <2>11. root.id = NewId(id) /\ root.new = all
    BY <1>8
  <2> HIDE DEF root
  <2>12. \A s \in Steps : \A x \in DOMAIN plan(s).new : new[x] = plan(s).new[x]
    BY <2>6, <2>8, <2>9
  <2>13. IsNewFile(root, def, id)
    <3>1. root.id \in DOMAIN root.new /\ root.new[root.id] = version
      BY <2>3, <2>11
    <3>2. \A x \in DOMAIN root.new \ {root.id} :
              \E s \in Steps : x \in DOMAIN plan(s).new /\ root.new[x] = plan(s).new[x]
      BY <2>3, <2>8, <2>11
    <3>3. \A s \in Steps : \A x \in DOMAIN plan(s).new :
              x # root.id /\ x \in DOMAIN root.new /\ root.new[x] = plan(s).new[x]
      BY <2>3, <2>7, <2>9, <2>11, <2>12
    <3> QED
      BY <2>10, <2>11, <3>1, <3>2, <3>3 DEF IsNewFile, plan
  <2> QED
    BY <1>1, <1>2, <1>5, <2>1, <2>13 DEF root
<1> QED
  BY <1>4, <1>7, <1>8

LEMMA CurrentFileIsUsedAgain ==
    ASSUME PlansInv(db), Kinds(db), NEW def, FileIsCurrent(db, def)
    PROVE  ToPlan(def).new = <<>>
<1>1. PICK k \in Sequence :
              /\ \A l \in 0..k - 1 : FileId(l) \in Listed(db) /\ IsPlanRemoved(db, FileId(l))
              /\ FileId(k) \in Listed(db) => ~IsPlanRemoved(db, FileId(k))
              /\ IF FileId(k) \in Listed(db) /\ FileEquals(db, Latest(db, FileId(k)), def)
                 THEN ToPlan(def) = [id |-> Latest(db, FileId(k)), new |-> <<>>]
                 ELSE IsNewFile(ToPlan(def), def, FileId(k))
  BY FileContents
<1>2. PICK m \in Sequence :
              /\ \A l \in 0..m : FileId(l) \in Listed(db) /\ (IsPlanRemoved(db, FileId(l)) <=> l < m)
              /\ FileEquals(db, Latest(db, FileId(m)), def)
  BY DEF FileIsCurrent, Sequence
<1>3. k \in Nat /\ m \in Nat
  BY ListedPlans, FS_Subset, FS_CardinalityType DEF PlansInv, IsDatabase, Sequence
<1>4. ~(k < m)
  BY <1>1, <1>2, <1>3
<1>5. ~(m < k)
  BY <1>1, <1>2, <1>3
<1>6. k = m /\ m \in 0..m
  BY <1>3, <1>4, <1>5
<1>7. ToPlan(def) = [id |-> Latest(db, FileId(k)), new |-> <<>>]
  BY <1>1, <1>2, <1>6
<1> QED
  BY <1>7

LEMMA NewFileIsStored ==
    ASSUME PlansInv(db), Kinds(db), UnlistedAreSteps(db), NEW def,
           NEW id, id[1] = "file", IsNewFile(ToPlan(def), def, id)
    PROVE  LET root == ToPlan(def)
               stored == Store(db, root.new)
           IN  /\ PlansInv(stored) /\ Kinds(stored) /\ Listed(stored) = Listed(db) /\ FilesStay(db, stored)
               /\ \A p \in Listed(db) : stored.plans[p] = db.plans[p]
               /\ root.id \in DOMAIN stored.plans \ Listed(db)
               /\ \A p \in DOMAIN stored.plans \ Listed(db) : p = root.id \/ stored.plans[p].kind = "step"
               /\ stored.plans[root.id].kind = "file" /\ ~stored.plans[root.id].deleted
               /\ stored.plans[root.id].from = Existing(id)
               /\ \A q \in stored.plans[root.id].steps : stored.plans[q].kind = "step"
               /\ FileEquals(stored, root.id, def)
<1> DEFINE root == ToPlan(def)
           r == root.id
           versions == root.new
           plan(s) == StepPlan(def, s)
           version == Version(def.name, "file", Existing(id), def.description, {plan(s).id : s \in Steps})
           stored == Store(db, versions)
<1>1. MayBeStored(db, versions)
  BY FileMayBeStored
<1>2. /\ r = NewId(id) /\ r \in DOMAIN versions /\ versions[r] = version
      /\ \A x \in DOMAIN versions \ {r} : \E s \in Steps : x \in DOMAIN plan(s).new /\ versions[x] = plan(s).new[x]
      /\ \A s \in Steps : \A x \in DOMAIN plan(s).new :
            x # r /\ x \in DOMAIN versions /\ versions[x] = plan(s).new[x]
  BY DEF IsNewFile
<1>3. /\ version.kind = "file" /\ ~version.deleted /\ version.from = Existing(id)
      /\ version.name = def.name /\ version.description = def.description
      /\ version.steps = {plan(s).id : s \in Steps}
  BY DEF Version
<1> HIDE DEF root, r, version, versions
<1>4. /\ PlansInv(stored) /\ Keeps(db, stored) /\ Listed(stored) = Listed(db)
      /\ DOMAIN stored.plans = DOMAIN db.plans \cup DOMAIN versions
  BY <1>1, StoreKeepsPlans
<1>5. \A x \in DOMAIN stored.plans : stored.plans[x] = IF x \in DOMAIN versions THEN versions[x] ELSE db.plans[x]
  <2>1. stored.plans = Over(versions, db.plans)
    BY DEF Store, PlansInv, IsDatabase
  <2> HIDE DEF stored
  <2> QED
    BY <1>4, <2>1 DEF Over
<1> HIDE DEF stored
<1>6. \A p \in Listed(db) : p \in DOMAIN db.plans /\ p \notin DOMAIN versions /\ stored.plans[p] = db.plans[p]
  BY <1>1, <1>4, <1>5, ListedPlans DEF MayBeStored, PlansInv
<1>7. \A s \in Steps : \E i :
        /\ i[1] = "step" /\ i[2] = s
        /\ \/ /\ plan(s).new = <<>> /\ plan(s).id \in Listed(db)
              /\ db.plans[plan(s).id].kind = "step" /\ IsStep(db.plans[plan(s).id], def, s)
           \/ /\ plan(s).id = NewId(i) /\ DOMAIN plan(s).new = {plan(s).id}
              /\ plan(s).new[plan(s).id].kind = "step" /\ IsStep(plan(s).new[plan(s).id], def, s)
              /\ plan(s).new[plan(s).id].from # NoId => db.plans[plan(s).new[plan(s).id].from].kind = "step"
  BY StepPlanContents
<1> HIDE DEF plan
<1>8. \A s \in Steps : stored.plans[plan(s).id].kind = "step" /\ IsStep(stored.plans[plan(s).id], def, s)
  <2> SUFFICES ASSUME NEW s \in Steps
               PROVE  stored.plans[plan(s).id].kind = "step" /\ IsStep(stored.plans[plan(s).id], def, s)
    OBVIOUS
  <2> DEFINE q == plan(s).id
  <2>1. CASE q \in Listed(db) /\ db.plans[q].kind = "step" /\ IsStep(db.plans[q], def, s)
    BY <1>6, <2>1
  <2>2. CASE DOMAIN plan(s).new = {q} /\ plan(s).new[q].kind = "step" /\ IsStep(plan(s).new[q], def, s)
    BY <1>2, <1>4, <1>5, <2>2
  <2> QED
    BY <1>7, <2>1, <2>2
<1>9. \A x \in DOMAIN versions \ {r} :
        /\ versions[x].kind = "step" /\ (x[1] \in {"file", "step"} => x[1] = "step")
        /\ versions[x].from # NoId => db.plans[versions[x].from].kind = "step"
  <2> SUFFICES ASSUME NEW x \in DOMAIN versions \ {r}
               PROVE  /\ versions[x].kind = "step" /\ (x[1] \in {"file", "step"} => x[1] = "step")
                      /\ versions[x].from # NoId => db.plans[versions[x].from].kind = "step"
    OBVIOUS
  <2>1. PICK s \in Steps : x \in DOMAIN plan(s).new /\ versions[x] = plan(s).new[x]
    BY <1>2
  <2>2. PICK i : /\ i[1] = "step"
                 /\ plan(s).id = NewId(i) /\ DOMAIN plan(s).new = {plan(s).id}
                 /\ plan(s).new[plan(s).id].kind = "step"
                 /\ plan(s).new[plan(s).id].from # NoId => db.plans[plan(s).new[plan(s).id].from].kind = "step"
    BY <1>7, <2>1
  <2>3. x = NewId(i) /\ x = plan(s).id
    BY <2>1, <2>2
  <2>4. NewId(i) = i \/ NewId(i)[1] = "uuid"
    BY DEF NewId
  <2> QED
    BY <2>1, <2>2, <2>3, <2>4
<1>10. /\ r[1] \in {"file", "step"} => r[1] = "file"
       /\ Existing(id) # NoId => Existing(id) \in Listed(db) /\ db.plans[Existing(id)].kind = "file"
  <2>1. NewId(id) = id \/ NewId(id)[1] = "uuid"
    BY DEF NewId
  <2>2. Existing(id) # NoId => id \in Listed(db) /\ Existing(id) = Latest(db, id)
    BY DEF Existing
  <2>3. id \in Listed(db) => db.plans[id].kind = "file" /\ db.plans[Latest(db, id)].kind = "file" /\ Latest(db, id) \in Listed(db)
    BY <1>6, KindOfLatest, Chains DEF Kinds
  <2> QED
    BY <1>2, <2>1, <2>2, <2>3
<1>11. Kinds(stored)
  <2>1. ASSUME NEW p \in DOMAIN stored.plans, p[1] \in {"file", "step"} PROVE stored.plans[p].kind = p[1]
    BY <1>2, <1>3, <1>4, <1>5, <1>9, <1>10, <2>1 DEF Kinds
  <2>2. ASSUME NEW p \in DOMAIN stored.plans, stored.plans[p].from # NoId
        PROVE  stored.plans[stored.plans[p].from].kind = stored.plans[p].kind
    <3> DEFINE from == stored.plans[p].from
    <3>1. from \in Listed(db) /\ stored.plans[from] = db.plans[from]
      BY <1>4, <1>6, <2>2 DEF PlansInv, RefersToStored
    <3>2. CASE p = r
      BY <1>2, <1>3, <1>5, <1>10, <2>2, <3>1, <3>2
    <3>3. CASE p \in DOMAIN versions \ {r}
      BY <1>5, <1>9, <2>2, <3>1, <3>3
    <3>4. CASE p \notin DOMAIN versions
      BY <1>4, <1>5, <2>2, <3>1, <3>4 DEF Kinds
    <3> QED
      BY <1>4, <3>2, <3>3, <3>4
  <2> QED
    BY <2>1, <2>2 DEF Kinds
<1>12. FilesStay(db, stored)
  BY <1>4, <1>6, ChainsChange DEF FilesStay
<1>13. \A p \in DOMAIN stored.plans \ Listed(db) : p = r \/ stored.plans[p].kind = "step"
  BY <1>4, <1>5, <1>9 DEF UnlistedAreSteps
<1>14. r \in DOMAIN stored.plans \ Listed(db) /\ stored.plans[r] = version
  BY <1>2, <1>4, <1>5, <1>6
<1>15. \A q \in version.steps : stored.plans[q].kind = "step"
  BY <1>3, <1>8
<1>16. FileEquals(stored, r, def)
  BY <1>3, <1>8, <1>14 DEF FileEquals
<1> QED
  BY <1>3, <1>4, <1>6, <1>11, <1>12, <1>13, <1>14, <1>15, <1>16 DEF root, r, versions, stored

\* What is added last is the newest version, if what it is derived from was.
LEMMA AddedLast ==
    ASSUME NEW d, PlansInv(d), NEW p \in DOMAIN d.plans \ Listed(d)
    PROVE  LET e == Add(d, p, FALSE)
               from == d.plans[p].from
           IN  /\ Latest(e, p) = p
               /\ from = NoId => Chain(e, p) = {p}
               /\ \A q \in Listed(d) : Latest(d, q) = from =>
                     Latest(e, q) = p /\ Chain(e, q) \subseteq {p} \cup Chain(d, q)
<1> DEFINE before == FALSE
           e == Add(d, p, before)
           from == d.plans[p].from
<1>0. ~before /\ before \in BOOLEAN
  OBVIOUS
<1> HIDE DEF before
<1>1. /\ PlansInv(e) /\ Keeps(d, e) /\ Listed(e) = Listed(d) \cup {p} /\ DOMAIN e.plans = DOMAIN d.plans
      /\ ContentsStay(d, e)
  BY <1>0, AddKeepsPlans
<1>2. \A q \in Listed(d) :
         \/ e.plans[q].first = d.plans[q].first
         \/ /\ e.plans[q].first = p /\ q = from
            /\ p \in Listed(e) /\ e.plans[p].from = q /\ e.plans[p].first = NoId
  BY <1>0, AddChangesFirst
<1>3. \/ e.plans = d.plans
      \/ /\ from # NoId /\ (before \/ d.plans[from].first = NoId)
         /\ e.plans = [d.plans EXCEPT ![from].first = p]
  BY DEF Add
<1>4. /\ from \in Listed(d) \cup {NoId} /\ p # from /\ p # NoId /\ d.plans[p].first = NoId
      /\ Listed(d) \subseteq DOMAIN d.plans /\ NoId \notin DOMAIN d.plans
  <2>1. Later(d, p) = {}
    BY ListedPlans DEF Later, PlansInv
  <2> QED
    BY <2>1, ListedPlans, NoIdIsNone DEF PlansInv, FirstIsLater, RefersToStored
<1>5. from # NoId /\ d.plans[from].first = NoId => e.plans[from].first = p
  <2>1. SUFFICES ASSUME from # NoId, d.plans[from].first = NoId PROVE e.plans[from].first = p
    OBVIOUS
  <2>2. e.plans = [d.plans EXCEPT ![from].first = p]
    BY <2>1 DEF Add
  <2>3. e.plans[from] = [d.plans[from] EXCEPT !.first = p] /\ IsVersion(d.plans[from])
    BY <1>4, <2>1, <2>2 DEF PlansInv, RefersToStored
  <2> HIDE DEF e, from
  <2> QED
    BY <2>3, WithFirst
<1> HIDE DEF e
<1>6. e.plans[p] = d.plans[p]
  BY <1>3, <1>4 DEF PlansInv, IsDatabase
<1> HIDE DEF from
<1>7. PICK f : /\ NewestBy(e, f) /\ \A q : Latest(e, q) = f[q]
               /\ \A q \in Listed(e) : f[q] \in Listed(e) /\ e.plans[f[q]].first = NoId
  BY <1>1, LatestLoop DEF PlansInv
<1>8. Latest(e, p) = p
  BY <1>1, <1>4, <1>6, <1>7 DEF NewestBy
<1>9. ASSUME from = NoId PROVE Chain(e, p) = {p}
  <2>1. PICK u : OlderBy(e, u) /\ \A q : Chain(e, q) = u[Latest(e, q)]
    BY <1>1, ChainLoop DEF PlansInv, RefersToStored
  <2> QED
    BY <1>1, <1>6, <1>8, <1>9, <2>1 DEF OlderBy, from
<1>10. ASSUME NEW q \in Listed(d), Latest(d, q) = from
       PROVE  Latest(e, q) = p /\ Chain(e, q) \subseteq {p} \cup Chain(d, q)
  <2>1. from \in Listed(d) /\ Latest(d, from) = from /\ d.plans[from].first = NoId /\ from # NoId
    BY <1>4, <1>10, Chains, LatestLoop DEF PlansInv
  <2>2. \/ Latest(e, q) = Latest(d, q) /\ Chain(e, q) = Chain(d, q)
        \/ \E x \in Listed(d) :
              /\ Latest(d, q) = Latest(d, x)
              /\ e.plans[x].first # d.plans[x].first /\ Latest(e, q) = e.plans[x].first
              /\ Chain(e, q) \subseteq {e.plans[x].first} \cup Chain(d, x)
    <3>1. Listed(d) \subseteq Listed(e) /\ \A x \in Listed(d) : e.plans[x].from = d.plans[x].from
      BY <1>1 DEF Keeps
    <3>2. \A x \in Listed(d) :
             LET first == e.plans[x].first
             IN  \/ first = d.plans[x].first
                 \/ first \in Listed(e) /\ e.plans[first].from = x /\ e.plans[first].first = NoId
      BY <1>2
    <3> QED
      BY <1>1, <3>1, <3>2, ChainsChange
  <2>3. Latest(e, q) # from
    BY <1>1, <1>4, <1>5, <1>7, <2>1
  <2>4. PICK x \in Listed(d) :
              /\ Latest(d, q) = Latest(d, x)
              /\ e.plans[x].first # d.plans[x].first /\ Latest(e, q) = e.plans[x].first
              /\ Chain(e, q) \subseteq {e.plans[x].first} \cup Chain(d, x)
    BY <1>10, <2>2, <2>3
  <2> QED
    BY <1>2, <2>4, Chains
<1> QED
  BY <1>8, <1>9, <1>10 DEF e, from, before

LEMMA FileBecomesCurrent ==
    ASSUME PlansInv(db), Kinds(db), UnlistedAreSteps(db), NEW def, NEW selected,
           RunWorkflowFile(def, ToPlan(def), selected)
    PROVE  Kinds(db') /\ UnlistedAreSteps(db') /\ FileIsCurrent(db', def)
<1> DEFINE root == ToPlan(def)
           r == root.id
           stored == Store(db, root.new)
           executed == {p \in stored.plans[r].steps : stored.plans[p].name[2] \in selected}
<1>0. Listed(db) \subseteq DOMAIN db.plans
  BY ListedPlans DEF PlansInv
<1>1. PICK before : db' = Add(AddAll(stored, executed, before), r, FALSE)
  BY DEF RunWorkflowFile, Save
<1>2. PICK k \in Sequence :
              /\ \A l \in 0..k - 1 : FileId(l) \in Listed(db) /\ IsPlanRemoved(db, FileId(l))
              /\ FileId(k) \in Listed(db) => ~IsPlanRemoved(db, FileId(k))
              /\ IF FileId(k) \in Listed(db) /\ FileEquals(db, Latest(db, FileId(k)), def)
                 THEN root = [id |-> Latest(db, FileId(k)), new |-> <<>>]
                 ELSE IsNewFile(root, def, FileId(k))
  BY FileContents
<1>3. k \in Nat /\ \A l \in 0..k : l = k \/ l \in 0..k - 1
  BY ListedPlans, FS_Subset, FS_CardinalityType DEF PlansInv, IsDatabase, Sequence
<1>4. executed \subseteq stored.plans[r].steps
  OBVIOUS
<1> DEFINE id == FileId(k)
           added == AddAll(stored, executed, before)
<1>5. CASE id \in Listed(db) /\ FileEquals(db, Latest(db, id), def)
  <2>1. r = Latest(db, id) /\ root.new = <<>> /\ r \in Listed(db)
    <3>1. root = [id |-> Latest(db, id), new |-> <<>>]
      BY <1>2, <1>5
    <3> HIDE DEF root
    <3> QED
      BY <1>5, <3>1, Chains
  <2>2. stored = db
    <3>1. Over(<<>>, db.plans) = db.plans
      BY DEF Over, PlansInv, IsDatabase
    <3> HIDE DEF root
    <3> QED
      BY <2>1, <3>1 DEF Store, PlansInv, IsDatabase
  <2> HIDE DEF root, stored
  <2>3. executed \in SUBSET DOMAIN db.plans
    BY <1>0, <1>4, <2>1, <2>2 DEF PlansInv, RefersToStored
  <2>4. \A p \in executed : p \in Listed(db) \/ db.plans[p].kind = "step"
    BY <2>3 DEF UnlistedAreSteps
  <2> HIDE DEF executed
  <2>5. /\ PlansInv(added) /\ Listed(added) = Listed(db) \cup executed /\ DOMAIN added.plans = DOMAIN db.plans
        /\ Kinds(added) /\ ContentsStay(db, added) /\ FilesStay(db, added)
    BY <2>2, <2>3, <2>4, AddAllKeepsPlans, AddAllKeepsFiles
  <2> HIDE DEF added
  <2>6. db' = added
    BY <1>1, <2>1, <2>5 DEF Add, added
  <2>7. FileIsCurrent(db, def)
    BY <1>2, <1>3, <1>5 DEF FileIsCurrent, Sequence
  <2>8. FileIsCurrent(added, def)
    BY <2>5, <2>7, FileStaysCurrent
  <2>9. UnlistedAreSteps(added)
    BY <2>5 DEF UnlistedAreSteps, ContentsStay, HaveSameContents
  <2> QED
    BY <2>5, <2>6, <2>8, <2>9
<1>6. CASE ~(id \in Listed(db) /\ FileEquals(db, Latest(db, id), def))
  <2>1. IsNewFile(root, def, id) /\ id[1] = "file"
    BY <1>2, <1>6 DEF FileId
  <2>2. /\ PlansInv(stored) /\ Kinds(stored) /\ Listed(stored) = Listed(db) /\ FilesStay(db, stored)
        /\ \A p \in Listed(db) : stored.plans[p] = db.plans[p]
        /\ r \in DOMAIN stored.plans \ Listed(db)
        /\ \A p \in DOMAIN stored.plans \ Listed(db) : p = r \/ stored.plans[p].kind = "step"
        /\ stored.plans[r].kind = "file" /\ ~stored.plans[r].deleted
        /\ stored.plans[r].from = Existing(id)
        /\ \A q \in stored.plans[r].steps : stored.plans[q].kind = "step"
        /\ FileEquals(stored, r, def)
    BY <2>1, NewFileIsStored
  <2>3. r = NewId(id)
    BY <2>1 DEF IsNewFile
  <2> HIDE DEF root, stored, r
  <2>4. executed \in SUBSET DOMAIN stored.plans
    BY <1>4, <2>2 DEF PlansInv, RefersToStored
  <2>5. \A p \in executed : stored.plans[p].kind = "step"
    BY <1>4, <2>2
  <2> HIDE DEF executed
  <2>6. /\ PlansInv(added) /\ Listed(added) = Listed(db) \cup executed
        /\ DOMAIN added.plans = DOMAIN stored.plans
        /\ Kinds(added) /\ ContentsStay(stored, added) /\ FilesStay(stored, added)
    BY <2>2, <2>4, <2>5, AddAllKeepsPlans, AddAllKeepsFiles
  <2> HIDE DEF added
  <2>7. r \in DOMAIN added.plans \ Listed(added)
    BY <2>2, <2>5, <2>6
  <2> DEFINE e == Add(added, r, FALSE)
  <2>8. /\ PlansInv(e) /\ Listed(e) = Listed(added) \cup {r} /\ DOMAIN e.plans = DOMAIN stored.plans
        /\ ContentsStay(added, e)
    BY <2>6, <2>7, AddKeepsPlans
  <2>9. RemovedStay(added, e)
    BY <2>6, <2>7, AddKeepsRemoved
  <2>10. /\ Latest(e, r) = r
         /\ Existing(id) = NoId => Chain(e, r) = {r}
         /\ \A q \in Listed(added) : Latest(added, q) = Existing(id) =>
               Latest(e, q) = r /\ Chain(e, q) \subseteq {r} \cup Chain(added, q)
    <3>1. added.plans[r].from = Existing(id)
      BY <2>2, <2>6 DEF ContentsStay, HaveSameContents
    <3> QED
      BY <2>6, <2>7, <3>1, AddedLast
  <2> HIDE DEF e
  <2>11. ContentsStay(stored, e)
    BY <2>6, <2>8 DEF ContentsStay, HaveSameContents
  <2>12. Kinds(e)
    BY <2>2, <2>8, <2>11, ContentsKeepKinds
  <2>13. UnlistedAreSteps(e)
    BY <2>2, <2>6, <2>8, <2>11 DEF UnlistedAreSteps, ContentsStay, HaveSameContents
  <2>14. ASSUME NEW p \in Listed(db), db.plans[p].kind = "file"
         PROVE  /\ p \in Listed(added) /\ Latest(added, p) = Latest(db, p) /\ Chain(added, p) = Chain(db, p)
                /\ IsPlanRemoved(added, p) <=> IsPlanRemoved(db, p)
    <3>1. Latest(added, p) = Latest(db, p) /\ Chain(added, p) = Chain(db, p)
      BY <2>2, <2>6, <2>14 DEF FilesStay
    <3>2. \A q \in Listed(db) : added.plans[q].deleted = db.plans[q].deleted
      BY <2>2, <2>6, ListedPlans DEF PlansInv, ContentsStay, HaveSameContents
    <3>3. Chain(db, p) \subseteq Listed(db)
      BY Chains
    <3> QED
      BY <2>6, <3>1, <3>2, <3>3 DEF IsPlanRemoved
  <2>15. \A l \in 0..k : FileId(l) \in Listed(db) => db.plans[FileId(l)].kind = "file"
    <3>1. \A l \in 0..k : FileId(l)[1] = "file"
      BY DEF FileId
    <3> QED
      BY <1>0, <3>1 DEF Kinds
  <2>16. \A l \in 0..k - 1 : FileId(l) \in Listed(e) /\ IsPlanRemoved(e, FileId(l))
    <3> SUFFICES ASSUME NEW l \in 0..k - 1 PROVE FileId(l) \in Listed(e) /\ IsPlanRemoved(e, FileId(l))
      OBVIOUS
    <3>1. FileId(l) \in Listed(db) /\ IsPlanRemoved(db, FileId(l)) /\ db.plans[FileId(l)].kind = "file"
      BY <1>2, <1>3, <2>15
    <3> QED
      BY <2>8, <2>9, <2>14, <3>1 DEF RemovedStay
  <2>17. id \in Listed(e) /\ ~IsPlanRemoved(e, id) /\ Latest(e, id) = r
    <3>1. ~e.plans[r].deleted /\ \A q \in Listed(db) : e.plans[q].deleted = db.plans[q].deleted
      BY <2>2, <2>11, ListedPlans DEF PlansInv, ContentsStay, HaveSameContents
    <3>2. CASE id \notin Listed(db)
      <4>1. Existing(id) = NoId /\ r = id
        BY <2>3, <3>2 DEF Existing, NewId
      <4> QED
        BY <2>8, <2>10, <3>1, <4>1 DEF IsPlanRemoved
    <3>3. CASE id \in Listed(db)
      <4>1. Existing(id) = Latest(db, id)
        BY <3>3 DEF Existing
      <4>2. db.plans[id].kind = "file" /\ ~IsPlanRemoved(db, id)
        BY <1>2, <1>3, <2>15, <3>3
      <4>3. id \in Listed(added) /\ Latest(added, id) = Latest(db, id) /\ Chain(added, id) = Chain(db, id)
        BY <2>14, <3>3, <4>2
      <4>4. Latest(e, id) = r /\ Chain(e, id) \subseteq {r} \cup Chain(db, id) /\ id \in Listed(e)
        BY <2>8, <2>10, <4>1, <4>3
      <4>5. Chain(db, id) \subseteq Listed(db)
        BY <3>3, Chains
      <4> QED
        BY <3>1, <4>2, <4>4, <4>5 DEF IsPlanRemoved
    <3> QED
      BY <3>2, <3>3
  <2>18. FileEquals(e, r, def)
    <3>1. stored.plans[r].steps \subseteq DOMAIN stored.plans
      BY <2>2 DEF PlansInv, RefersToStored
    <3>2. /\ e.plans[r].name = stored.plans[r].name /\ e.plans[r].description = stored.plans[r].description
          /\ e.plans[r].steps = stored.plans[r].steps
          /\ \A q \in stored.plans[r].steps : /\ e.plans[q].name = stored.plans[q].name
                                              /\ e.plans[q].description = stored.plans[q].description
      BY <2>2, <2>11, <3>1 DEF ContentsStay, HaveSameContents
    <3> QED
      BY <2>2, <3>2 DEF FileEquals, IsStep
  <2>19. k \in 0..Cardinality(Listed(e))
    <3>1. IsFiniteSet(Listed(e)) /\ Listed(db) \in SUBSET Listed(e)
      BY <2>6, <2>8, ListedPlans, FS_Subset DEF PlansInv, IsDatabase
    <3>2. IsFiniteSet(Listed(db)) /\ Cardinality(Listed(db)) <= Cardinality(Listed(e))
      BY <3>1, FS_Subset
    <3>3. Cardinality(Listed(db)) \in Nat /\ Cardinality(Listed(e)) \in Nat
      BY <3>1, <3>2, FS_CardinalityType
    <3> QED
      BY <3>2, <3>3 DEF Sequence
  <2>20. FileIsCurrent(e, def)
    <3>1. \A l \in 0..k : FileId(l) \in Listed(e) /\ (IsPlanRemoved(e, FileId(l)) <=> l < k)
      BY <1>3, <2>16, <2>17
    <3> QED
      BY <2>17, <2>18, <2>19, <3>1 DEF FileIsCurrent
  <2> QED
    BY <1>1, <2>12, <2>13, <2>20 DEF e, added, r
<1> QED
  BY <1>5, <1>6

LEMMA AddNewKeepsKinds ==
    ASSUME NEW d, PlansInv(d), Kinds(d), UnlistedAreSteps(d), NEW p, NEW version, NEW before \in BOOLEAN,
           p = Uuid(d), IsVersion(version), version.first = NoId,
           version.from \in Listed(d) \cup {NoId}, version.steps \subseteq DOMAIN d.plans,
           version.from # NoId => d.plans[version.from].kind = version.kind
    PROVE  Kinds(AddNew(d, p, version, before)) /\ UnlistedAreSteps(AddNew(d, p, version, before))
<1> DEFINE versions == Only(p, version)
           e == Store(d, versions)
           f == Add(e, p, before)
<1>1. MayBeStored(d, versions) /\ DOMAIN versions = {p} /\ versions[p] = version
  BY OneMayBeStored
<1>2. p \notin DOMAIN d.plans /\ p[1] = "uuid"
  BY UuidIsNew DEF Uuid
<1> HIDE DEF versions
<1>3. PlansInv(e) /\ Listed(e) = Listed(d) /\ DOMAIN e.plans = DOMAIN d.plans \cup {p}
  BY <1>1, StoreKeepsPlans
<1>4. e.plans[p] = version /\ \A q \in DOMAIN d.plans : e.plans[q] = d.plans[q]
  <2>1. e.plans = Over(versions, d.plans)
    BY DEF Store, PlansInv, IsDatabase
  <2> HIDE DEF e
  <2> QED
    BY <1>1, <1>2, <1>3, <2>1 DEF Over
<1> HIDE DEF e
<1>5. Kinds(e)
  <2>1. \A q \in DOMAIN d.plans : d.plans[q].from # NoId => d.plans[q].from \in DOMAIN d.plans
    BY ListedPlans DEF PlansInv, RefersToStored
  <2>2. version.from # NoId => version.from \in DOMAIN d.plans
    BY ListedPlans DEF PlansInv
  <2> QED
    BY <1>2, <1>3, <1>4, <2>1, <2>2 DEF Kinds
<1>6. /\ PlansInv(f) /\ Listed(f) = Listed(e) \cup {p} /\ DOMAIN f.plans = DOMAIN e.plans
      /\ ContentsStay(e, f)
  <2>1. PlansInv(e) /\ p \in DOMAIN e.plans
    BY <1>3
  <2> QED
    BY ONLY <2>1, before \in BOOLEAN, AddKeepsPlans
<1> HIDE DEF f
<1>7. Kinds(f)
  BY <1>3, <1>5, <1>6, ContentsKeepKinds
<1>8. UnlistedAreSteps(f)
  BY <1>3, <1>4, <1>6 DEF UnlistedAreSteps, ContentsStay, HaveSameContents
<1> QED
  BY <1>7, <1>8 DEF AddNew, f, e, versions

LEMMA CommandsKeepKinds ==
    ASSUME PlansInv(db), Kinds(db), UnlistedAreSteps(db), ran # NoRun => FileIsCurrent(db, ran), Next
    PROVE  Kinds(db') /\ UnlistedAreSteps(db') /\ (ran' # NoRun => FileIsCurrent(db', ran'))
<1>1. ASSUME NEW name, RunCommandLine(name)
      PROVE  Kinds(db') /\ UnlistedAreSteps(db') /\ ran' = NoRun
  <2> DEFINE version == Version(name, "plan", NoId, Default, {})
  <2>1. db' = AddNew(db, Uuid(db), version, FALSE) /\ ran' = NoRun
    BY <1>1 DEF RunCommandLine, Save
  <2>2. IsVersion(version) /\ version.first = NoId /\ version.from = NoId /\ version.steps = {}
    BY DEF Version, IsVersion
  <2> HIDE DEF version
  <2> QED
    BY <2>1, <2>2, AddNewKeepsKinds
<1>2. ASSUME NEW name, NEW steps \in SUBSET Listed(db), Compose(name, steps)
      PROVE  Kinds(db') /\ UnlistedAreSteps(db') /\ ran' = NoRun
  <2> DEFINE version == Version(name, "composite", NoId, Default, steps)
  <2>1. db' = AddNew(db, Uuid(db), version, FALSE) /\ ran' = NoRun
    BY <1>2 DEF Compose, Save
  <2>2. IsVersion(version) /\ version.first = NoId /\ version.from = NoId /\ version.steps = steps
    BY DEF Version, IsVersion
  <2>3. Listed(db) \subseteq DOMAIN db.plans
    BY ListedPlans DEF PlansInv
  <2> HIDE DEF version
  <2> QED
    BY <2>1, <2>2, <2>3, AddNewKeepsKinds
<1>3. ASSUME NEW p \in Listed(db), NEW name, NEW description, NEW before \in BOOLEAN,
             EditWorkflow(p, name, description, before)
      PROVE  Kinds(db') /\ UnlistedAreSteps(db') /\ ran' = NoRun
  <2> DEFINE version == [Derive(db, p) EXCEPT !.name = name, !.description = description]
  <2>1. db' = AddNew(db, Uuid(db), version, before) /\ ran' = NoRun
    BY <1>3 DEF EditWorkflow, Save
  <2>2. MayFollow(version, p)
    BY Edited
  <2> HIDE DEF version
  <2> QED
    BY <2>1, <2>2, AddNewKeepsKinds DEF MayFollow
<1>4. ASSUME NEW p \in Listed(db), NEW force, RemovePlan(p, force)
      PROVE  Kinds(db') /\ UnlistedAreSteps(db') /\ ran' = NoRun
  <2> DEFINE latest == Latest(db, p)
             version == [Derive(db, latest) EXCEPT !.deleted = TRUE]
  <2>1. db' = AddNew(db, Uuid(db), version, FALSE) /\ ran' = NoRun
    BY <1>4 DEF RemovePlan, Save
  <2>2. latest \in Listed(db)
    BY Chains
  <2> HIDE DEF latest
  <2>3. MayFollow(version, latest)
    BY <2>2, Deleted
  <2> HIDE DEF version
  <2> QED
    BY <2>1, <2>2, <2>3, AddNewKeepsKinds DEF MayFollow
<1>5. ASSUME NEW p, NEW before, ExecuteWorkflow(p, before)
      PROVE  Kinds(db') /\ UnlistedAreSteps(db') /\ (ran' # NoRun => FileIsCurrent(db', ran'))
  <2> DEFINE new == {q \in DOMAIN db.plans \ Listed(db) : q \in Leaves(db, p)}
             added == AddAll(db, new, before)
  <2>1. db' = added /\ ran' = ran
    BY <1>5 DEF ExecuteWorkflow
  <2>2. new \in SUBSET DOMAIN db.plans /\ \A q \in new : db.plans[q].kind = "step"
    BY DEF UnlistedAreSteps
  <2> HIDE DEF new
  <2>3. /\ PlansInv(added) /\ Listed(added) = Listed(db) \cup new /\ DOMAIN added.plans = DOMAIN db.plans
        /\ Kinds(added) /\ ContentsStay(db, added) /\ FilesStay(db, added)
    BY <2>2, AddAllKeepsPlans, AddAllKeepsFiles
  <2> HIDE DEF added
  <2>4. UnlistedAreSteps(added)
    BY <2>3 DEF UnlistedAreSteps, ContentsStay, HaveSameContents
  <2>5. ran # NoRun => FileIsCurrent(added, ran)
    BY <2>3, FileStaysCurrent
  <2> QED
    BY <2>1, <2>3, <2>4, <2>5
<1>6. ASSUME NEW def, NEW selected, RunWorkflowFile(def, ToPlan(def), selected)
      PROVE  Kinds(db') /\ UnlistedAreSteps(db') /\ FileIsCurrent(db', ran')
  BY <1>6, FileBecomesCurrent DEF RunWorkflowFile
<1> QED
  BY <1>1, <1>2, <1>3, <1>4, <1>5, <1>6 DEF Next

\* Running a workflow file again that has not changed stores no new versions
\* (UnchangedFilesKeepTheirPlans), also after its plans were removed, renamed or
\* edited before.
THEOREM UnchangedFilesStay == Spec => UnchangedFilesKeepTheirPlans
<1> DEFINE I == Kinds(db) /\ UnlistedAreSteps(db) /\ (ran # NoRun => FileIsCurrent(db, ran))
           Kept == ran # NoRun /\ ran' = ran => DOMAIN db'.plans = DOMAIN db.plans
<1>1. Init => I
  BY DEF Init, Kinds, UnlistedAreSteps
<1>2. ASSUME I, UNCHANGED vars PROVE I'
  <2>1. db' = db /\ ran' = ran
    BY <1>2 DEF vars
  <2>2. Kinds(db') /\ UnlistedAreSteps(db') /\ (ran' # NoRun => FileIsCurrent(db', ran'))
    BY <1>2, <2>1
  <2> QED
    BY <2>2
<1>3. PlansInv(db) /\ I /\ Next => I'
  BY CommandsKeepKinds
<1>4. ASSUME PlansInv(db), I, Next PROVE Kept
  <2>1. SUFFICES ASSUME ran # NoRun, ran' = ran PROVE DOMAIN db'.plans = DOMAIN db.plans
    OBVIOUS
  <2>2. \/ \E p, before : ExecuteWorkflow(p, before)
        \/ \E def, selected : RunWorkflowFile(def, ToPlan(def), selected)
    BY <1>4, <2>1 DEF Next, RunCommandLine, Compose, EditWorkflow, RemovePlan
  <2>3. ASSUME NEW p, NEW before, ExecuteWorkflow(p, before) PROVE DOMAIN db'.plans = DOMAIN db.plans
    <3> DEFINE new == {q \in DOMAIN db.plans \ Listed(db) : q \in Leaves(db, p)}
    <3>1. db' = AddAll(db, new, before) /\ new \in SUBSET DOMAIN db.plans
      BY <2>3 DEF ExecuteWorkflow
    <3> HIDE DEF new
    <3> QED
      BY <1>4, <3>1, AddAllKeepsPlans
  <2>4. ASSUME NEW def, NEW selected, RunWorkflowFile(def, ToPlan(def), selected)
        PROVE  DOMAIN db'.plans = DOMAIN db.plans
    <3> DEFINE root == ToPlan(def)
               stored == Store(db, root.new)
               executed == {p \in stored.plans[root.id].steps : stored.plans[p].name[2] \in selected}
    <3>1. PICK before : db' = Add(AddAll(stored, executed, before), root.id, FALSE)
      BY <2>4 DEF RunWorkflowFile, Save
    <3>2. root.new = <<>>
      BY <1>4, <2>1, <2>4, CurrentFileIsUsedAgain DEF RunWorkflowFile
    <3>3. MayBeStored(db, root.new) /\ root.id \in Listed(db) \cup DOMAIN root.new
      BY <1>4, FileMayBeStored
    <3> HIDE DEF root
    <3>4. PlansInv(stored) /\ DOMAIN stored.plans = DOMAIN db.plans /\ root.id \in DOMAIN stored.plans
      <4>1. PlansInv(stored) /\ DOMAIN stored.plans = DOMAIN db.plans \cup DOMAIN root.new
        BY <1>4, <3>3, StoreKeepsPlans
      <4>2. DOMAIN root.new = {} /\ Listed(db) \subseteq DOMAIN db.plans
        BY <1>4, <3>2, ListedPlans DEF PlansInv
      <4> QED
        BY <3>3, <4>1, <4>2
    <3> HIDE DEF stored
    <3>5. executed \in SUBSET DOMAIN stored.plans
      BY <3>4 DEF PlansInv, RefersToStored
    <3> HIDE DEF executed
    <3> DEFINE added == AddAll(stored, executed, before)
    <3>6. PlansInv(added) /\ DOMAIN added.plans = DOMAIN stored.plans
      BY <3>4, <3>5, AddAllKeepsPlans
    <3> HIDE DEF added
    <3>7. DOMAIN Add(added, root.id, FALSE).plans = DOMAIN added.plans
      BY <3>4, <3>6, AddKeepsPlans
    <3> QED
      BY <3>1, <3>4, <3>6, <3>7 DEF added
  <2> QED
    BY <2>2, <2>3, <2>4
<1>5. PlansInv(db) /\ I /\ [Next]_vars => [Kept]_vars
  BY <1>4
<1> QED
  BY <1>1, <1>2, <1>3, <1>5, PlansInvHolds, PTL DEF Spec, UnchangedFilesKeepTheirPlans

=============================================================================
