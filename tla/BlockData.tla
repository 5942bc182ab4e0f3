----------------------------- MODULE BlockData -----------------------------
(***************************************************************************)
(* Blocks and transactions as data (lib/blockchain): the Merkle root, the  *)
(* digests, and the conversions to JSON and to protobuf and back.          *)
(*                                                                         *)
(* A string that is hashed is a sequence of numbers, one for each decimal  *)
(* that the code writes (numbers below ten, so that a number is a digit)   *)
(* and two brackets around what was hashed before: hash is injective and   *)
(* nothing else.  A SigKey is <<>> before KeyGen and <<k>> after it.  A    *)
(* JSON object is a record that has the fields the code writes.  The block *)
(* id and the round of a signature are left out: they are carried along    *)
(* and enter no digest.                                                    *)
(***************************************************************************)
EXTENDS Integers, Sequences, SequencesExt

\* Two functions, or JSON objects, in one; the first one's values count.
Joined(f, g) ==
    [x \in DOMAIN f \cup DOMAIN g |-> IF x \in DOMAIN f THEN f[x] ELSE g[x]]

hash(s) == <<-1>> \o s \o <<-2>>

Input  == [txID : Nat, outputIndex : Nat]
Output == [value : Nat, receiverID : Nat]

-----------------------------------------------------------------------------
(* Transaction::getDigest leaves the sender and its signature out.         *)

TxDigest(tx) ==
    hash(<<tx.txID>>
         \o FlattenSeq([i \in DOMAIN tx.inputs |->
              <<tx.inputs[i].txID, tx.inputs[i].outputIndex>>])
         \o FlattenSeq([i \in DOMAIN tx.outputs |->
              <<tx.outputs[i].value, tx.outputs[i].receiverID>>]))

\* Mutant: the last hash of an odd number is not paired with itself.
MerkleLevelDropsOdd(hashes) ==
    [i \in 1 .. Len(hashes) \div 2 |-> hash(hashes[2 * i - 1] \o hashes[2 * i])]

\* One iteration of the loop of calculateMerkleRoot.
MerkleLevel(hashes) ==
    LET even == IF Len(hashes) % 2 # 0 THEN Append(hashes, Last(hashes))
                                       ELSE hashes
    IN  [i \in 1 .. Len(even) \div 2 |-> hash(even[2 * i - 1] \o even[2 * i])]

CalculateMerkleRoot(txs) ==
    LET level[k \in 0 .. Len(txs)] ==
          IF k = 0
          THEN [i \in DOMAIN txs |-> TxDigest(txs[i])]
          ELSE LET below == level[k - 1]
               IN  IF Len(below) > 1 THEN MerkleLevel(below) ELSE below
    IN  IF txs = <<>> THEN <<>> ELSE level[Len(txs)][1]

HeaderID(b) == hash(b.prevBlockDigest \o b.merkleRoot)

\* Of a block that is no longer mutable.
GetDigest(b) == hash(Append(HeaderID(b), b.validatorID) \o b.nextKey)

\* Sign returns no signature when there is no key.
SignDigest(digest, key) == IF key = <<>> THEN <<>> ELSE key \o digest

-----------------------------------------------------------------------------
(* JSON.  A list with no elements is never written: its field is missing.  *)

ListField(name, list) == IF list = <<>> THEN <<>> ELSE [n \in {name} |-> list]

TxToString(tx) ==
    Joined([txID |-> tx.txID, senderID |-> tx.senderID, senderSig |-> tx.senderSig],
           Joined(ListField("inputs", tx.inputs),
                  Joined(ListField("outputs", tx.outputs),
                         ListField("publicKey", tx.publicKey))))

\* from_string throws when a field it needs is missing.
TxLoads(j) == {"inputs", "outputs"} \subseteq DOMAIN j

TxFromString(j) ==
    [txID |-> j.txID, inputs |-> j.inputs, outputs |-> j.outputs,
     senderID |-> j.senderID, senderSig |-> j.senderSig,
     publicKey |-> IF "publicKey" \in DOMAIN j THEN j.publicKey ELSE <<>>]

HeaderToString(b) ==
    [prevBlockDigest |-> b.prevBlockDigest, merkleRoot |-> b.merkleRoot]

\* SigKey_to_string throws for a key that was not generated.
BlockSaves(b) ==
    /\ b.nextKey # <<>>
    /\ \A i \in DOMAIN b.validatorSigs : b.validatorSigs[i].publicKey # <<>>

\* Mutant: the signatures of the other validators are not written.
BlockToStringWithoutSigs(b) ==
    Joined([header |-> HeaderToString(b),
            validatorSig |-> b.validatorSig, validatorID |-> b.validatorID,
            publicKey |-> b.nextKey],
           ListField("transactions", [i \in DOMAIN b.txs |-> TxToString(b.txs[i])]))

BlockToString(b) ==
    Joined([header |-> HeaderToString(b),
            validatorSig |-> b.validatorSig, validatorID |-> b.validatorID,
            publicKey |-> b.nextKey],
           Joined(ListField("transactions",
                            [i \in DOMAIN b.txs |-> TxToString(b.txs[i])]),
                  ListField("validatorSigs", b.validatorSigs)))

BlockLoads(j) ==
    /\ "transactions" \in DOMAIN j
    /\ \A i \in DOMAIN j.transactions : TxLoads(j.transactions[i])

BlockFromString(j) ==
    [prevBlockDigest |-> j.header.prevBlockDigest,
     merkleRoot |-> j.header.merkleRoot,
     txs |-> [i \in DOMAIN j.transactions |-> TxFromString(j.transactions[i])],
     validatorSig |-> j.validatorSig, validatorID |-> j.validatorID,
     nextKey |-> j.publicKey,
     validatorSigs |-> IF "validatorSigs" \in DOMAIN j THEN j.validatorSigs ELSE <<>>,
     mutable |-> FALSE]

-----------------------------------------------------------------------------
(* Protobuf: a repeated field may be empty, and the signatures that were   *)
(* collected from the other validators have no field.                      *)

TxToProto(tx) ==
    [input |-> tx.inputs, output |-> tx.outputs, txid |-> tx.txID,
     senderid |-> tx.senderID, publickey |-> tx.publicKey,
     sendersig |-> tx.senderSig]

TxFromProto(p) ==
    [txID |-> p.txid, inputs |-> p.input, outputs |-> p.output,
     senderID |-> p.senderid % 2^16, senderSig |-> p.sendersig,
     publicKey |-> p.publickey]

HeaderToProto(b) ==
    [prevblockdigest |-> b.prevBlockDigest, merkleroot |-> b.merkleRoot]

\* toProtoBlock throws for a mutable block and for one without a next key.
BlockSends(b) == ~b.mutable /\ b.nextKey # <<>>

BlockToProto(b) ==
    [header |-> HeaderToProto(b),
     transaction |-> [i \in DOMAIN b.txs |-> TxToProto(b.txs[i])],
     validatorsig |-> b.validatorSig, validatorid |-> b.validatorID,
     publickey |-> b.nextKey]

\* Mutant: the Merkle root is left to be computed again.
BlockFromProtoWithoutRoot(p) ==
    [prevBlockDigest |-> p.header.prevblockdigest, merkleRoot |-> <<>>,
     txs |-> [i \in DOMAIN p.transaction |-> TxFromProto(p.transaction[i])],
     validatorSig |-> p.validatorsig, validatorID |-> p.validatorid % 2^16,
     nextKey |-> p.publickey, validatorSigs |-> <<>>, mutable |-> FALSE]

BlockFromProto(p) ==
    [prevBlockDigest |-> p.header.prevblockdigest,
     merkleRoot |-> p.header.merkleroot,
     txs |-> [i \in DOMAIN p.transaction |-> TxFromProto(p.transaction[i])],
     validatorSig |-> p.validatorsig, validatorID |-> p.validatorid % 2^16,
     nextKey |-> p.publickey, validatorSigs |-> <<>>, mutable |-> FALSE]
=============================================================================
