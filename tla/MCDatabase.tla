----------------------------- MODULE MCDatabase -----------------------------
(***************************************************************************)
(* Bounds for Database.                                                    *)
(***************************************************************************)
EXTENDS Database

\* A transaction with a public key, and one that has no input and no key.
MCShape ==
    {[inputs |-> <<[txID |-> 1, outputIndex |-> 0]>>,
      outputs |-> <<[value |-> 5, receiverID |-> 3]>>, publicKey |-> <<9>>],
     [inputs |-> <<>>,
      outputs |-> <<[value |-> 5, receiverID |-> 3]>>, publicKey |-> <<>>]}

\* One of the values an uninitialized validator_id_ may have.
MCJunk == {7}

\* No action tells one file from another.
Symmetry == Permutations(File)
=============================================================================
