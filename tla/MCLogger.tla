------------------------------ MODULE MCLogger ------------------------------
EXTENDS Logger, TLC

\* Times 1.618, as long as the numbers are small.
MCGrown(n) == (n * 1618) \div 1000

Symmetry == Permutations(Workers)
=============================================================================
