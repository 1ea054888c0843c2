------------------------------ MODULE MCFiles ------------------------------
EXTENDS Files, TLC
CONSTANTS p1, p2, p3, x1
MCProcs == {p1, p2, p3}
OnePage == {x1}
Shell == {p1}
Children == {p2, p3}
MCSizes == [read |-> {1}, write |-> {2}]
FilesSymmetry == Permutations(Children)
=============================================================================
