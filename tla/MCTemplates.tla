---------------------------- MODULE MCTemplates ----------------------------
\* An instance of Templates for TLC: a template of three versions.
EXTENDS Templates

CONSTANTS ignore

\* The second version has no .gitignore; README changes once, the Dockerfile always.
ThreeVersions ==
    <<[f \in Files |-> 1],
      [f \in Files |-> IF f = ignore THEN 0 ELSE 2],
      [f \in Files |-> IF f = Dockerfile THEN 3 ELSE 2]>>
=============================================================================
