------------------------------ MODULE MCBracha ------------------------------
EXTENDS Bracha, TLC

\* The correct validators other than the leader are interchangeable.
Followers == Permutations(Node \ ({Leader} \cup FaultNode))

\* So are the blocks, where all of them are valid and none is repeatable.
Interchangeable == Followers \cup Permutations(Block)
=============================================================================
