-------------------------- MODULE MCMetadataMerge --------------------------
\* Instances of MetadataMerge for TLC.
EXTENDS MetadataMerge, TLC

\* Branches, names of datasets and files are told apart by nothing.
Symmetry == Permutations(Branches) \cup Permutations(Names) \cup Permutations(Files)
=============================================================================
