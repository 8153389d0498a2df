---------------------------- MODULE MCWorkflows ----------------------------
\* Instances of Workflows for TLC.
EXTENDS Workflows

CONSTANTS A, B, C, D,       \* plans
          i, w, x, y, z     \* files

\* C reads a directory with a file that A generates and one that B makes of it; D
\* closes a cycle, and generates the same file as C.
SomeUses == (A :> {{i}}) @@ (B :> {{x}}) @@ (C :> {{x, y}}) @@ (D :> {{y}})
SomeGens == (A :> {{x}}) @@ (B :> {{y}}) @@ (C :> {{z}}) @@ (D :> {{i}, {z}})

\* B reads a directory with a file that A generates, C one that contains this
\* directory and what B generates.
NestedUses == (A :> {{i}}) @@ (B :> {{w, x}}) @@ (C :> {{w, x, y}})
NestedGens == (A :> {{x}}) @@ (B :> {{y}}) @@ (C :> {{z}})
=============================================================================
