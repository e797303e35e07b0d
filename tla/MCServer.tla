------------------------------ MODULE MCServer ------------------------------
(* Instances of Server for TLC.                                            *)
EXTENDS Server, TLC

\* Workers are interchangeable, and so are files; descriptors are not.
Symmetry == Permutations(Workers) \cup Permutations(Files)
=============================================================================
