----------------------------- MODULE MCBlockCache -----------------------------
EXTENDS BlockCache

CONSTANTS b1, b2

\* Blocks of different sizes: a small one that does not make up a sum, a
\* large one that overshoots it.
MCSizes == [b \in Blocks |-> IF b = b1 THEN 1 ELSE 2]

=============================================================================
