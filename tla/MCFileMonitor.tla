--------------------------- MODULE MCFileMonitor ---------------------------
(* Instances of FileMonitor for TLC.                                       *)
EXTENDS FileMonitor, TLC

\* Threads are interchangeable, and so are files.
Symmetry == Permutations(Threads) \cup Permutations(Files)
=============================================================================
