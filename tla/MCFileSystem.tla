---------------------------- MODULE MCFileSystem ----------------------------
(* Instances of FileSystem for TLC.                                        *)
EXTENDS FileSystem

\* Clients are interchangeable, and so are paths.
Symmetry == Permutations(Owners) \cup Permutations(Paths)
=============================================================================
