------------------------------- MODULE Ledger -------------------------------
(***************************************************************************)
(* The checks on coins, transactions and blocks: class UTXOlist            *)
(* (include/blockchain/utxo.h), Transaction::checkSpendingConditions       *)
(* (lib/blockchain/transaction.cc), Block::verifyTxConsist and             *)
(* Block::verify (lib/blockchain/block.cc).  A UTXOlist, the inputs and    *)
(* the outputs of a transaction and a block are sequences, as the vectors  *)
(* of the code are: a list may hold an element twice.                      *)
(***************************************************************************)
EXTENDS Integers, Sequences, FiniteSets, SequencesExt

CONSTANTS
    IntWidth   \* the bits of int, in which checkSpendingConditions adds up

ASSUME WidthAssumption == IntWidth \in Nat \ {0}

Input  == [txID : Nat, outputIndex : Nat]
Output == [value : Nat, receiverID : Nat]
UTXO   == [txID : Nat, outputIndex : Nat, output : Output]

\* What a loop over a vector keeps of it, in its order: the elements in S.
Keep(list, S) ==
    FoldLeft(LAMBDA kept, x : IF x \in S THEN Append(kept, x) ELSE kept,
             <<>>, list)

\* The input that spends utxo u.
InputOf(u) == [txID |-> u.txID, outputIndex |-> u.outputIndex]

\* UTXOlist::index, with 0 for "not found".
Index(ulist, in) == SelectInSeq(ulist, LAMBDA u : InputOf(u) = in)

\* A vector added up in an int: the sum wraps.
IntSum(values) == FoldLeft(+, 0, values) % 2^IntWidth

OutputTotal(tx) == IntSum([i \in DOMAIN tx.outputs |-> tx.outputs[i].value])

\* Every occurrence of an input counts, also the second one of the same.
InputTotal(tx, ulist) ==
    IntSum([i \in DOMAIN tx.inputs |->
              ulist[Index(ulist, tx.inputs[i])].output.value])

CheckSpendingConditions(tx, ulist, walletIds) ==
    IF tx.inputs = <<>>
    THEN tx.outputs = <<>>
    ELSE /\ \A i \in DOMAIN tx.inputs : Index(ulist, tx.inputs[i]) # 0
         /\ InputTotal(tx, ulist) = OutputTotal(tx)
         /\ \A i \in DOMAIN tx.outputs : tx.outputs[i].receiverID \in walletIds

\* Mutant: the transactions are compared by their outputs.
VerifyTxConsistOutputs(txs, new) ==
    \A i \in DOMAIN txs : ToSet(txs[i].outputs) \cap ToSet(new.outputs) = {}

\* No input of the transactions of a block is an input of the new one.
VerifyTxConsist(txs, new) ==
    \A i \in DOMAIN txs : ToSet(txs[i].inputs) \cap ToSet(new.inputs) = {}

\* Mutant: the inputs are not compared.
VerifyEach(txs, ulist, walletIds) ==
    \A i \in DOMAIN txs : CheckSpendingConditions(txs[i], ulist, walletIds)

\* Block::verify: each transaction by itself, and all inputs distinct.
Verify(txs, ulist, walletIds) ==
    LET inputs == FlattenSeq([i \in DOMAIN txs |-> txs[i].inputs])
    IN  /\ \A i \in DOMAIN txs :
              CheckSpendingConditions(txs[i], ulist, walletIds)
        /\ Len(inputs) = Cardinality(ToSet(inputs))
=============================================================================
