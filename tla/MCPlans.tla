------------------------------ MODULE MCPlans ------------------------------
\* A workflow file of two steps that changes one of them and its name.
EXTENDS Plans

CONSTANTS m, n, s, t, u, v

Def(name, description, ofS, ofT) == [name |-> name, description |-> description, steps |-> (s :> ofS @@ t :> ofT)]
FileDefinitions == {Def(m, u, u, u), Def(m, u, u, v), Def(n, u, u, u)}
Size(file, other) == [file |-> file, other |-> other]
Small == {Size(0, 5), Size(3, 2), Size(4, 1), Size(6, 0)}
=============================================================================
