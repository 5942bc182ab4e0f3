----------------------------- MODULE MCKeyChain -----------------------------
(***************************************************************************)
(* Symmetry for KeyChain: the two threads run the same code.               *)
(***************************************************************************)
EXTENDS KeyChain, TLC

Symmetry == Permutations(Thread)
=============================================================================
