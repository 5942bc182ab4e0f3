------------------------------ MODULE Database ------------------------------
(***************************************************************************)
(* database::Database (lib/database/database.cc) and the life of the       *)
(* blocks it stores (lib/blockchain/block.cc).                             *)
(*                                                                         *)
(* One process, the writer, builds blocks and adds them; others open or    *)
(* load the same files.  A process may end at any moment.  Nothing in the  *)
(* repository catches an exception of the database, so one that is thrown  *)
(* ends the process too.  The methods of Block that throw leave the block  *)
(* as it is: they are guards here.                                         *)
(***************************************************************************)
EXTENDS BlockData, FiniteSets

CONSTANTS
    Process,     \* the processes with a Database object
    Writer,      \* the one that changes it
    File,        \* the files it may be saved to
    Shape,       \* the inputs, outputs and key of the transactions
    Junk,        \* what validator_id_ may be before the block is signed
    MaxTxs,      \* bound: transactions
    MaxBlocks,   \* bound: blocks
    MaxKeys,     \* bound: key pairs
    MaxOpens,    \* bound: constructor calls and loads
    MaxFaults    \* bound: existing files that cannot be opened, failed writes

ASSUME DatabaseAssumption ==
    /\ Writer \in Process
    /\ Junk \subseteq 0 .. 9
    /\ \A s \in Shape : /\ s.inputs \in Seq(Input)
                        /\ s.outputs \in Seq(Output)
    /\ {MaxTxs, MaxBlocks, MaxKeys, MaxOpens, MaxFaults} \subseteq Nat

VARIABLES
    blk,       \* the block in the writer's hands, if any
    txs, blocks, keys, opens, faults,  \* how many there have been
    db,        \* db[p]: the Database object of p, if any
    files,     \* files[f]: what the file holds
    saving,    \* the call of save that is under way, if any
    \* History: the digests of the blocks whose addBlock returned 0, or that
    \* save was called with.
    acked,
    \* History: the processes whose object is empty because an existing file
    \* could not be opened; the files such an object was saved over; and the
    \* files whose last write failed without notice.
    blind, overwritten, mute

countVars == <<txs, blocks, keys, opens, faults>>
histVars == <<blind, overwritten, mute>>
vars == <<blk, countVars, db, files, saving, acked, histVars>>

Missing == [state |-> "missing", blockchain |-> <<>>]
Torn    == [state |-> "torn", blockchain |-> <<>>]

Init ==
    /\ blk = <<>>
    /\ txs = 0 /\ blocks = 0 /\ keys = 0 /\ opens = 0 /\ faults = 0
    /\ db = [p \in Process |-> <<>>]
    /\ files = [f \in File |-> Missing]
    /\ saving = <<>>
    /\ acked = [f \in File |-> {}]
    /\ blind = {} /\ overwritten = {} /\ mute = {}

-----------------------------------------------------------------------------
(* The life of a block.                                                    *)

NewBlock(prev, junk) ==
    /\ blk = <<>>
    /\ blocks < MaxBlocks
    /\ blocks' = blocks + 1
    /\ blk' = <<[prevBlockDigest |-> prev, merkleRoot |-> <<>>, txs |-> <<>>,
                 validatorSig |-> <<>>, validatorID |-> junk, nextKey |-> <<>>,
                 validatorSigs |-> <<>>, mutable |-> TRUE]>>
    /\ UNCHANGED <<txs, keys, opens, faults, db, files, saving, acked, histVars>>

AddTransaction(shape) ==
    /\ blk # <<>>
    /\ blk[1].mutable
    /\ txs < MaxTxs
    /\ txs' = txs + 1
    /\ LET tx == [txID |-> txs, senderID |-> 1, senderSig |-> <<1>>,
                  inputs |-> shape.inputs, outputs |-> shape.outputs,
                  publicKey |-> shape.publicKey]
       IN  blk' = [blk EXCEPT ![1].txs = Append(@, tx)]
    /\ UNCHANGED <<blocks, keys, opens, faults, db, files, saving, acked, histVars>>

Finalize ==
    /\ blk # <<>>
    /\ blk[1].mutable
    /\ blk' = [blk EXCEPT ![1].mutable = FALSE,
                          ![1].merkleRoot = CalculateMerkleRoot(blk[1].txs)]
    /\ UNCHANGED <<countVars, db, files, saving, acked, histVars>>

\* With key pair k; the public key of the next pair goes along.
Sign(validator) ==
    LET signed == [blk[1] EXCEPT !.validatorID = validator,
                                 !.nextKey = <<keys + 1>>]
    IN  /\ blk # <<>>
        /\ ~blk[1].mutable
        /\ keys < MaxKeys
        /\ keys' = keys + 1
        /\ blk' = <<[signed EXCEPT !.validatorSig = SignDigest(GetDigest(signed), <<keys>>)]>>
        /\ UNCHANGED <<txs, blocks, opens, faults, db, files, saving, acked, histVars>>

\* The signature of the block is kept in the list, with the key that
\* updateRecvMessages finds for its sender: the announced one (KeyChain).
AddValidatorSignature ==
    /\ blk # <<>>
    /\ blk[1].validatorSig # <<>>
    /\ blk[1].validatorSigs = <<>>
    /\ blk' = [blk EXCEPT ![1].validatorSigs =
                 Append(@, [validatorID |-> blk[1].validatorID,
                            signature |-> blk[1].validatorSig,
                            publicKey |-> blk[1].nextKey])]
    /\ UNCHANGED <<countVars, db, files, saving, acked, histVars>>

RemoveSignatures ==
    /\ blk # <<>>
    /\ blk[1].validatorSig # <<>>
    /\ blk' = [blk EXCEPT ![1].validatorSig = <<>>, ![1].validatorID = 0,
                          ![1].nextKey = <<>>, ![1].validatorSigs = <<>>]
    /\ UNCHANGED <<countVars, db, files, saving, acked, histVars>>

\* The block has come in a message: Block(const chat::Block&).
Receive ==
    /\ blk # <<>>
    /\ BlockSends(blk[1])
    /\ blk' = <<BlockFromProto(BlockToProto(blk[1]))>>
    /\ UNCHANGED <<countVars, db, files, saving, acked, histVars>>

-----------------------------------------------------------------------------
(* Reading a file: the constructor and load.                               *)

\* Mutant: save has written what it could of a torn file, and a short list
\* is as good as a whole one.
ReadableTorn(content) ==
    \/ content.state \in {"missing", "torn"}
    \/ /\ content.state = "chain"
       /\ \A i \in DOMAIN content.blockchain : BlockLoads(content.blockchain[i].block)

\* Whether reading throws: a truncated file does not parse, and an empty
\* database is saved as null, which has no field "blockchain".
Readable(content) ==
    \/ content.state = "missing"
    \/ /\ content.state = "chain"
       /\ \A i \in DOMAIN content.blockchain : BlockLoads(content.blockchain[i].block)

\* Mutant: the map is filled under the id of the header.
FromJsonByHeader(f) ==
    LET chain == files[f].blockchain
        read == [i \in DOMAIN chain |-> BlockFromString(chain[i].block)]
    IN  [filename |-> f, digests |-> [i \in DOMAIN chain |-> chain[i].digest],
         blocks |-> [h \in {HeaderID(b) : b \in ToSet(read)} |->
            CHOOSE b \in ToSet(read) : HeaderID(b) = h]]

FromJson(f) ==
    LET chain == files[f].blockchain
        digests == [i \in DOMAIN chain |-> chain[i].digest]
    IN  [filename |-> f, digests |-> digests,
         blocks |-> [d \in ToSet(digests) |->
            BlockFromString(chain[SelectLastInSeq(chain, LAMBDA e : e.digest = d)].block)]]

\* What p has in memory after the constructor or load; `failed`: the file
\* exists and could not be opened, which is taken for an empty database.
Reads(p, d, failed) ==
    /\ opens < MaxOpens
    /\ opens' = opens + 1
    /\ db' = [db EXCEPT ![p] = <<d>>]
    /\ blind' = IF failed THEN blind \cup {p} ELSE blind \ {p}
    /\ UNCHANGED <<blk, txs, blocks, keys, files, saving, acked, overwritten, mute>>

Read(p, f) ==
    /\ Readable(files[f])
    /\ Reads(p, FromJson(f), FALSE)
    /\ UNCHANGED faults

\* Any other failure of the open (permissions, descriptors) of the ifstream.
ReadFails(p, f) ==
    /\ files[f] # Missing
    /\ faults < MaxFaults
    /\ faults' = faults + 1
    /\ Reads(p, [filename |-> f, digests |-> <<>>, blocks |-> <<>>], TRUE)

OpenDatabase(p, f) == db[p] = <<>> /\ (Read(p, f) \/ ReadFails(p, f))

\* Later calls of addBlock save to the file that was loaded.
Load(p, f) ==
    /\ db[p] # <<>>
    /\ p = Writer => saving = <<>>
    /\ Read(p, f) \/ ReadFails(p, f)

\* The process ends: by a crash, or by an exception.
Exit(p) ==
    /\ db' = [db EXCEPT ![p] = <<>>]
    /\ IF p = Writer THEN blk' = <<>> /\ saving' = <<>>
                     ELSE UNCHANGED <<blk, saving>>
    /\ blind' = blind \ {p}
    /\ UNCHANGED <<txs, blocks, keys, faults, files, acked, overwritten, mute>>

Crash(p) == db[p] # <<>> /\ Exit(p) /\ UNCHANGED opens

ReadThrows(p, f) ==
    /\ opens < MaxOpens
    /\ opens' = opens + 1
    /\ p = Writer => saving = <<>>
    /\ ~Readable(files[f])
    /\ Exit(p)

-----------------------------------------------------------------------------
(* Saving.                                                                 *)

ToJson(d) ==
    IF d.digests = <<>>
    THEN [state |-> "null", blockchain |-> <<>>]
    ELSE [state |-> "chain", blockchain |->
            [i \in DOMAIN d.digests |->
               [digest |-> d.digests[i],
                block |-> BlockToString(d.blocks[d.digests[i]])]]]

\* Mutant: any block is added.
ExtendsAlways(d, b) == TRUE

\* The condition of addBlock.
Extends(d, b) ==
    d.digests # <<>> => Last(d.digests) = b.prevBlockDigest

WithBlock(d, b) ==
    [d EXCEPT !.digests = Append(@, GetDigest(b)),
              !.blocks = Joined([x \in {GetDigest(b)} |-> b], @)]

\* addBlock up to to_json, which comes before the file is opened.
AddBlock ==
    LET d == db[Writer][1]
        b == blk[1]
        new == WithBlock(d, b)
    IN  /\ db[Writer] # <<>> /\ saving = <<>>
        /\ blk # <<>> /\ ~b.mutable
        /\ Extends(d, b)
        /\ BlockSaves(b)
        /\ db' = [db EXCEPT ![Writer] = <<new>>]
        /\ saving' = <<[file |-> d.filename, json |-> ToJson(new), opened |-> FALSE,
                        acks |-> acked[d.filename] \cup {GetDigest(b)}]>>
        /\ blk' = <<>>
        /\ UNCHANGED <<countVars, files, acked, histVars>>

\* getDigest throws for a mutable block, to_json for one that is not signed.
AddBlockThrows ==
    /\ db[Writer] # <<>> /\ saving = <<>>
    /\ blk # <<>>
    /\ Extends(db[Writer][1], blk[1])
    /\ blk[1].mutable \/ ~BlockSaves(blk[1])
    /\ Exit(Writer)
    /\ UNCHANGED opens

\* addBlock returns 1.
RejectBlock ==
    /\ db[Writer] # <<>> /\ saving = <<>>
    /\ blk # <<>>
    /\ ~Extends(db[Writer][1], blk[1])
    /\ blk' = <<>>
    /\ UNCHANGED <<countVars, db, files, saving, acked, histVars>>

\* A call of save from outside (SaveBlockchain).
Save(f) ==
    LET d == db[Writer][1]
    IN  /\ db[Writer] # <<>> /\ saving = <<>>
        /\ files[f] # ToJson(d)
        /\ saving' = <<[file |-> f, json |-> ToJson(d), opened |-> FALSE,
                        acks |-> ToSet(d.digests)]>>
        /\ UNCHANGED <<blk, countVars, db, files, acked, histVars>>

\* The ofstream truncates the file.
SaveOpen ==
    /\ saving # <<>>
    /\ ~saving[1].opened
    /\ files' = [files EXCEPT ![saving[1].file] = Torn]
    /\ saving' = [saving EXCEPT ![1].opened = TRUE]
    /\ UNCHANGED <<blk, countVars, db, acked, histVars>>

\* It cannot be opened.
SaveThrows ==
    /\ saving # <<>>
    /\ ~saving[1].opened
    /\ Exit(Writer)
    /\ UNCHANGED opens

\* save returns, and addBlock returns 0.
SaveEnds ==
    /\ saving # <<>>
    /\ saving[1].opened
    /\ acked' = [acked EXCEPT ![saving[1].file] = saving[1].acks]
    /\ saving' = <<>>
    /\ UNCHANGED <<blk, txs, blocks, keys, opens, db, blind>>

SaveWrite ==
    LET f == saving[1].file
    IN  /\ SaveEnds
        /\ files' = [files EXCEPT ![f] = saving[1].json]
        /\ overwritten' = IF Writer \in blind /\ f = db[Writer][1].filename
                          THEN overwritten \cup {f} ELSE overwritten
        /\ mute' = mute \ {f}
        /\ UNCHANGED faults

\* The write or the close fails, which nothing looks at.
SaveWriteFails ==
    /\ faults < MaxFaults
    /\ SaveEnds
    /\ faults' = faults + 1
    /\ mute' = mute \cup {saving[1].file}
    /\ UNCHANGED <<files, overwritten>>

-----------------------------------------------------------------------------
\* The digests a driver knows of: those of the chain, and what it starts with.
Prevs == {<<>>} \cup UNION {ToSet(d.digests) : d \in ToSet(db[Writer])}

Next ==
    \/ \E prev \in Prevs, junk \in Junk : NewBlock(prev, junk)
    \/ \E s \in Shape : AddTransaction(s)
    \/ Finalize
    \/ Sign(2)
    \/ AddValidatorSignature
    \/ RemoveSignatures
    \/ Receive
    \/ \E p \in Process, f \in File :
          OpenDatabase(p, f) \/ Load(p, f) \/ ReadThrows(p, f)
    \/ \E p \in Process : Crash(p)
    \/ AddBlock \/ AddBlockThrows \/ RejectBlock
    \/ \E f \in File : Save(f)
    \/ SaveOpen \/ SaveThrows \/ SaveWrite \/ SaveWriteFails

Spec == Init /\ [][Next]_vars

-----------------------------------------------------------------------------
(* Properties.                                                             *)

Open == {p \in Process : db[p] # <<>>}

Known == ToSet(blk) \cup UNION {Range(db[p][1].blocks) : p \in Open}

\* Every variable has its type; a map has a block for each digest in the list
\* and no other.
TypeOK ==
    /\ \A b \in Known : b.mutable \in BOOLEAN
    /\ txs \in 0 .. MaxTxs
    /\ blocks \in 0 .. MaxBlocks
    /\ keys \in 0 .. MaxKeys
    /\ opens \in 0 .. MaxOpens
    /\ faults \in 0 .. MaxFaults
    /\ blind \subseteq Open
    /\ overwritten \subseteq File /\ mute \subseteq File
    /\ \A p \in Open : DOMAIN db[p][1].blocks = ToSet(db[p][1].digests)
    /\ \A f \in File : files[f].state \in {"missing", "torn", "null", "chain"}
    /\ saving # <<>> => Writer \in Open

\* An acknowledged block is lost in one way only: a process that opens or
\* loads a file finds in it every block that addBlock has returned 0 for,
\* unless the open failed, or a process whose open failed has saved over the
\* file.  No crash in save and no failed write makes the list shorter:
\* reading a torn file throws.
LossNeedsFailedOpen ==
    [][\A p \in Process :
         (/\ db'[p] # db[p] /\ db'[p] # <<>> /\ p \notin blind'
          /\ db'[p][1].filename \notin overwritten')
             => acked'[db'[p][1].filename] \subseteq ToSet(db'[p][1].digests)]_vars

\* The list is a chain: each block names the digest of the one before it,
\* none comes twice, and a digest that was read from a file is the one that
\* is computed from the block that was read with it.
Chained ==
    \A p \in Open :
        LET d == db[p][1]
        IN  /\ \A i \in 2 .. Len(d.digests) :
                  d.blocks[d.digests[i]].prevBlockDigest = d.digests[i - 1]
            /\ \A x \in ToSet(d.digests) : GetDigest(d.blocks[x]) = x
            /\ Cardinality(ToSet(d.digests)) = Len(d.digests)

\* When addBlock has returned and its write did not fail, its file gives
\* back the very blocks that are in memory, signatures of the other
\* validators included.  It cannot be read only if some block has no
\* transactions, or a transaction that has no inputs or no outputs, or if
\* there is no block at all.
Reloads ==
    (/\ Writer \in Open /\ saving = <<>>
     /\ db[Writer][1].filename \notin mute
     /\ Writer \in blind => db[Writer][1].digests # <<>>) =>
        LET d == db[Writer][1]
            content == files[d.filename]
            whole(b) == /\ b.txs # <<>>
                        /\ \A i \in DOMAIN b.txs : /\ b.txs[i].inputs # <<>>
                                                   /\ b.txs[i].outputs # <<>>
        IN  IF d.digests # <<>> /\ \A x \in ToSet(d.digests) : whole(d.blocks[x])
            THEN Readable(content) /\ FromJson(d.filename) = d
            ELSE ~Readable(content) \/ content.state = "missing"

\* The root of the tree of that height over the digests of the transactions:
\* node[l][i] is the hash at place i of level l, last[l] the last place there.
TreeHash(t, height) ==
    LET last[l \in 0 .. height] == IF l = 0 THEN Len(t) - 1 ELSE last[l - 1] \div 2
        node[l \in 0 .. height] ==
          [i \in 0 .. last[l] |->
             IF l = 0 THEN TxDigest(t[i + 1])
             ELSE LET right == IF 2 * i + 1 <= last[l - 1] THEN 2 * i + 1 ELSE 2 * i
                  IN  hash(node[l - 1][2 * i] \o node[l - 1][right])]
    IN  node[height][0]

\* The height of the tree over n leaves.
TreeHeight(n) ==
    CHOOSE h \in 0 .. n : 2^h >= n /\ (h = 0 \/ 2^(h - 1) < n)

\* The Merkle root that finalize computes level by level, and that every
\* conversion hands on, is the root of the tree over the transactions in
\* which a missing right sibling is the left one.
RootIsTree ==
    \A b \in Known :
        (~b.mutable /\ b.txs # <<>>) =>
            b.merkleRoot = TreeHash(b.txs, TreeHeight(Len(b.txs)))

\* A block that comes in a message is the block that was sent, without the
\* signatures collected from others: its header id, which is what consensus
\* is about, and the digest that its signature is for, are the same.
WireKeepsBlock ==
    [][Receive =>
         /\ HeaderID(blk'[1]) = HeaderID(blk[1])
         /\ GetDigest(blk'[1]) = GetDigest(blk[1])
         /\ blk'[1] = [blk[1] EXCEPT !.validatorSigs = <<>>]]_vars
=============================================================================
