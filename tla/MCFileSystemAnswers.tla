------------------------- MODULE MCFileSystemAnswers ------------------------
(* Instances of FileSystemAnswers for TLC.                                 *)
EXTENDS FileSystemAnswers

\* Clients are interchangeable, and so are paths.
Symmetry == Permutations(Owners) \cup Permutations(Paths)
=============================================================================
