------------------------------ MODULE BlockLog ------------------------------
(***************************************************************************)
(* What the consensus nodes (lib/bracha/node.cc) promise a driver that     *)
(* proposes one block, waits until all nodes are in consensus and proposes *)
(* the next (src/node_test_ex.cc): the correct replicas accept the         *)
(* proposals in their order, each of them once, all replicas the same, and *)
(* none that is invalid.  A block that nobody accepts ends the sequence.   *)
(*                                                                         *)
(* What accepted_blocks_ records for a block may be garbage (node.cc reads *)
(* the hash after it has erased the map entry that holds it); garbage      *)
(* stands in the place of that block and of no other.                      *)
(***************************************************************************)
EXTENDS Naturals, Sequences

CONSTANTS
    Replica,     \* the correct validators
    Block,       \* what may be proposed
    ValidBlock,  \* what Block::verify accepts
    Garbage      \* what may be recorded in the place of a block

VARIABLES
    proposed,    \* the blocks proposed so far
    accepted     \* accepted[n]: what n has recorded, in order

Init ==
    /\ proposed = <<>>
    /\ accepted = [n \in Replica |-> <<>>]

\* Nothing is proposed before every replica has accepted the last block.
Propose(b) ==
    /\ \A n \in Replica : Len(accepted[n]) = Len(proposed)
    /\ proposed' = Append(proposed, b)
    /\ UNCHANGED accepted

Accept(n) ==
    /\ Len(accepted[n]) < Len(proposed)
    /\ proposed[Len(accepted[n]) + 1] \in ValidBlock
    /\ \E hash \in {proposed[Len(accepted[n]) + 1]} \cup Garbage :
          accepted' = [accepted EXCEPT ![n] = Append(@, hash)]
    /\ UNCHANGED proposed

Next ==
    \/ \E b \in Block : Propose(b)
    \/ \E n \in Replica : Accept(n)

Spec == Init /\ [][Next]_<<proposed, accepted>>
=============================================================================
