--------------------------- MODULE MCDebianRoots ---------------------------
(* Instance of DebianRoots; processes and jobs are interchangeable.        *)
EXTENDS DebianRoots, TLC

Symmetry == Permutations(Process) \cup Permutations(Job) \cup Permutations(Deps)
=============================================================================
