------------------------------ MODULE MCClient ------------------------------
(* Instances of Client for TLC.                                            *)
EXTENDS Client

Opt(letter, files, dir) == [letter |-> letter, files |-> files, dir |-> dir]

\* Every option twice, and pairs of options that follow each other.
AllPlans ==
  { <<Opt(l, n, FALSE)>> : l \in Letters \ {"R"}, n \in {0, 2} } \cup
  { <<Opt(l, 2, TRUE), Opt("R", 0, d)>> : l \in {"w", "W", "a", "r"}, d \in BOOLEAN } \cup
  { <<Opt("R", 0, TRUE), Opt(l, 1, TRUE)>> : l \in Letters } \cup
  { <<Opt("e", 1, FALSE), Opt("W", 1, FALSE), Opt("l", 1, FALSE)>> }

\* Files are read and saved.
ReadPlans == { <<Opt("r", 2, TRUE)>> }
=============================================================================
