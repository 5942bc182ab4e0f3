--------------------------- MODULE DatabaseProofs ---------------------------
(***************************************************************************)
(* Proofs about Database and the conversions of BlockData, for every set   *)
(* of processes, files and transactions and for all bounds:                *)
(*                                                                         *)
(*   StoreTypeCorrect   the type invariant                                 *)
(*   NoOtherLoss        LossNeedsFailedOpen: what addBlock has             *)
(*                      acknowledged is in the file, or the file cannot be *)
(*                      read, unless an open has failed                    *)
(*   ListIsChain        Chained: every block names the one before it       *)
(*   FileGivesListBack  Reloads: a file that can be read gives the list    *)
(*                      back, and when one cannot be read                  *)
(*   MessageKeepsBlock  WireKeepsBlock: the protobuf form keeps header id  *)
(*                      and digest                                         *)
(*   MerkleRootIsTree   RootIsTree: the root that is computed level by     *)
(*                      level is the root of the tree                      *)
(*                                                                         *)
(* The inductive invariant Inv is about the block of the writer (BlkOK),   *)
(* the numbers handed out (CountsOK) and the objects and files (StoreInv). *)
(* Its core is GoodDb: the digests of a list get longer from block to      *)
(* block, because each contains the one before. So no digest comes twice,  *)
(* and the map of blocks keeps what a list refers to.                      *)
(* Once a block is finalized its root is the one of its transactions       *)
(* (Block), whatever is done with it later.                                *)
(*                                                                         *)
(* The digests and the Merkle root are recursive functions: what is known  *)
(* of them rests on the inductions of FoldLemmas.                          *)
(***************************************************************************)
EXTENDS Database, FoldLemmas

-----------------------------------------------------------------------------
(* The digests and the Merkle root are sequences of numbers.               *)

\* What is hashed is framed.
LEMMA HashType ==
    ASSUME NEW s \in Seq(Int)
    PROVE  hash(s) \in Seq(Int) /\ Len(hash(s)) = Len(s) + 2
  BY DEF hash

\* A transaction as AddTransaction makes it, in all conversions.
Tx == [txID : Nat, senderID : {1}, senderSig : {<<1>>}, inputs : Seq(Input),
       outputs : Seq(Output), publicKey : {s.publicKey : s \in Shape}]

\* The digest of a transaction is a sequence of numbers.
LEMMA TxDigestType ==
    ASSUME NEW tx \in Tx
    PROVE  TxDigest(tx) \in Seq(Int)
  <1> DEFINE ins  == [i \in DOMAIN tx.inputs |->
                        <<tx.inputs[i].txID, tx.inputs[i].outputIndex>>]
             outs == [i \in DOMAIN tx.outputs |->
                        <<tx.outputs[i].value, tx.outputs[i].receiverID>>]
  <1>1. ins \in Seq(Seq(Int))
    <2>1. tx.inputs \in Seq(Input) /\ DOMAIN tx.inputs = 1 .. Len(tx.inputs)
      BY DEF Tx
    <2>2. ASSUME NEW i \in 1 .. Len(tx.inputs)
          PROVE  <<tx.inputs[i].txID, tx.inputs[i].outputIndex>> \in Seq(Int)
      <3>1. tx.inputs[i] \in Input
        BY <2>1
      <3>2. tx.inputs[i].txID \in Int /\ tx.inputs[i].outputIndex \in Int
        BY <3>1 DEF Input
      <3> QED  BY <3>2
    <2> QED  BY <2>1, <2>2
  <1>2. outs \in Seq(Seq(Int))
    <2>1. tx.outputs \in Seq(Output) /\ DOMAIN tx.outputs = 1 .. Len(tx.outputs)
      BY DEF Tx
    <2>2. ASSUME NEW i \in 1 .. Len(tx.outputs)
          PROVE  <<tx.outputs[i].value, tx.outputs[i].receiverID>> \in Seq(Int)
      <3>1. tx.outputs[i] \in Output
        BY <2>1
      <3>2. tx.outputs[i].value \in Int /\ tx.outputs[i].receiverID \in Int
        BY <3>1 DEF Output
      <3> QED  BY <3>2
    <2> QED  BY <2>1, <2>2
  <1>3. FlattenSeq(ins) \in Seq(Int) /\ FlattenSeq(outs) \in Seq(Int)
    BY <1>1, <1>2, FlattenSeqType
  <1>4. <<tx.txID>> \in Seq(Int)
    BY DEF Tx
  <1> HIDE DEF ins, outs
  <1>5. <<tx.txID>> \o FlattenSeq(ins) \o FlattenSeq(outs) \in Seq(Int)
    BY <1>3, <1>4
  <1>6. TxDigest(tx) = hash(<<tx.txID>> \o FlattenSeq(ins) \o FlattenSeq(outs))
    BY DEF TxDigest, ins, outs
  <1> QED  BY <1>5, <1>6, HashType

\* Halves of a length, rounded up.
LEMMA Halves ==
    ASSUME NEW a \in Nat
    PROVE  LET n == (a + 1) \div 2
           IN  /\ n \in Nat
               /\ (2 * n) \div 2 = n
               /\ a > 0 => n > 0
               /\ a % 2 # 0 => a + 1 = 2 * n
               /\ a % 2 = 0 => a = 2 * n
               /\ \A i \in 1 .. n : /\ 2 * i - 1 \in 1 .. a
                                    /\ 2 * i \in 1 .. 2 * n
                                    /\ ~(2 * i <= a) => 2 * i = a + 1 /\ a % 2 # 0
  OBVIOUS

\* The levels of the tree, none of which is empty.
Level == Seq(Seq(Int)) \ {<<>>}

\* One iteration of calculateMerkleRoot makes a level of a level.
LEMMA MerkleLevelType ==
    ASSUME NEW l \in Level
    PROVE  /\ MerkleLevel(l) \in Level
           /\ Len(MerkleLevel(l)) = (Len(l) + 1) \div 2
           /\ \A i \in 1 .. (Len(l) + 1) \div 2 : MerkleLevel(l)[i] =
                hash(l[2 * i - 1] \o l[IF 2 * i <= Len(l) THEN 2 * i ELSE 2 * i - 1])
  <1> DEFINE even == IF Len(l) % 2 # 0 THEN Append(l, Last(l)) ELSE l
             n == (Len(l) + 1) \div 2
  <1>1. l \in Seq(Seq(Int)) /\ Len(l) \in Nat /\ Len(l) > 0
    BY DEF Level
  <1>2. Last(l) \in Seq(Int) /\ Last(l) = l[Len(l)]
    BY <1>1 DEF Last
  <1>3. even \in Seq(Seq(Int)) /\ Len(even) = 2 * n /\ Len(even) \div 2 = n
    <2>1. CASE Len(l) % 2 # 0
      <3>1. even = Append(l, Last(l)) /\ Len(l) + 1 = 2 * n /\ n \in Nat
        BY <1>1, <2>1, Halves
      <3>2. (2 * n) \div 2 = n
        BY <1>1, Halves
      <3>3. even \in Seq(Seq(Int)) /\ Len(even) = Len(l) + 1
        BY <1>1, <1>2, <3>1
      <3> HIDE DEF even, n
      <3> QED  BY <3>1, <3>2, <3>3
    <2>2. CASE Len(l) % 2 = 0
      <3>1. even = l /\ Len(l) = 2 * n /\ n \in Nat
        BY <1>1, <2>2, Halves
      <3> HIDE DEF even, n
      <3> QED  BY <1>1, <3>1
    <2> QED  BY <2>1, <2>2
  <1>4. n \in Nat /\ n > 0
    BY <1>1, Halves
  <1>5. ASSUME NEW i \in 1 .. n
        PROVE  /\ even[2 * i - 1] = l[2 * i - 1]
               /\ even[2 * i] = l[IF 2 * i <= Len(l) THEN 2 * i ELSE 2 * i - 1]
               /\ hash(even[2 * i - 1] \o even[2 * i]) \in Seq(Int)
    <2>1. 2 * i - 1 \in 1 .. Len(l) /\ 2 * i \in 1 .. 2 * n
      BY <1>1, Halves
    <2>2. even[2 * i - 1] = l[2 * i - 1]
      BY <1>1, <1>2, <2>1
    <2>3. even[2 * i] = l[IF 2 * i <= Len(l) THEN 2 * i ELSE 2 * i - 1]
      <3>1. CASE 2 * i <= Len(l)
        BY <1>1, <1>2, <2>1, <3>1
      <3>2. CASE ~(2 * i <= Len(l))
        <4>1. 2 * i = Len(l) + 1 /\ Len(l) % 2 # 0
          BY <1>1, <3>2, Halves
        <4> QED  BY <1>1, <1>2, <4>1, <3>2, SMTT(30)
      <3> QED  BY <3>1, <3>2
    <2>4. even[2 * i - 1] \in Seq(Int) /\ even[2 * i] \in Seq(Int)
      <3> HIDE DEF even
      <3>1. 2 * i - 1 \in 1 .. Len(even) /\ 2 * i \in 1 .. Len(even)
        BY <1>3, <1>4, <2>1
      <3> QED  BY <1>3, <3>1
    <2>5. even[2 * i - 1] \o even[2 * i] \in Seq(Int)
      <3> HIDE DEF even
      <3> QED  BY <2>4
    <2>6. hash(even[2 * i - 1] \o even[2 * i]) \in Seq(Int)
      <3> HIDE DEF even
      <3> QED  BY <2>5, HashType
    <2> HIDE DEF even
    <2> QED  BY <2>2, <2>3, <2>6
  <1>6. MerkleLevel(l) = [i \in 1 .. n |-> hash(even[2 * i - 1] \o even[2 * i])]
    <2>1. MerkleLevel(l) = [i \in 1 .. Len(even) \div 2 |-> hash(even[2 * i - 1] \o even[2 * i])]
      BY DEF MerkleLevel
    <2> QED  BY <2>1, <1>3
  <1> HIDE DEF even, n
  <1>7. MerkleLevel(l) \in Seq(Seq(Int)) /\ Len(MerkleLevel(l)) = n
    BY <1>4, <1>5, <1>6
  <1>8. MerkleLevel(l) # <<>>
    BY <1>4, <1>7
  <1>9. \A i \in 1 .. n : MerkleLevel(l)[i] =
                hash(l[2 * i - 1] \o l[IF 2 * i <= Len(l) THEN 2 * i ELSE 2 * i - 1])
    <2> TAKE i \in 1 .. n
    <2>1. MerkleLevel(l)[i] = hash(even[2 * i - 1] \o even[2 * i])
      BY <1>6
    <2> QED  BY <2>1, <1>5
  <1> QED  BY <1>7, <1>8, <1>9 DEF Level, n

\* The hashes that calculateMerkleRoot begins with.
Leaves(t) == [i \in DOMAIN t |-> TxDigest(t[i])]

\* What an iteration of its loop makes of a level.
NextLevel(l) == IF Len(l) > 1 THEN MerkleLevel(l) ELSE l

\* A level leads to a level.
LEMMA NextLevelType == ASSUME NEW l \in Level PROVE NextLevel(l) \in Level
  BY MerkleLevelType DEF NextLevel

\* The loop of calculateMerkleRoot goes through the levels of the tree, and
\* the root is the first hash of the last of them.
LEMMA MerkleLevels ==
    ASSUME NEW t \in Seq(Tx), t # <<>>
    PROVE  \E level \in [0 .. Len(t) -> Level] :
              /\ level[0] = Leaves(t)
              /\ \A k \in 1 .. Len(t) : level[k] = NextLevel(level[k - 1])
              /\ CalculateMerkleRoot(t) = level[Len(t)][1]
  <1> DEFINE n == Len(t)
             Body(f) == [k \in 0 .. n |->
                           IF k = 0 THEN [i \in DOMAIN t |-> TxDigest(t[i])]
                           ELSE LET below == f[k - 1]
                                IN  IF Len(below) > 1 THEN MerkleLevel(below) ELSE below]
             level == CHOOSE f : f = Body(f)
             step == [k \in Nat |-> [l \in Level |-> NextLevel(l)]]
  <1>1. n \in Nat /\ n > 0
    OBVIOUS
  <1>2. Leaves(t) \in Level
    <2>1. \A i \in 1 .. n : TxDigest(t[i]) \in Seq(Int)
      BY TxDigestType
    <2>2. Leaves(t) \in Seq(Seq(Int)) /\ Len(Leaves(t)) = n
      BY <2>1 DEF Leaves
    <2> QED  BY <1>1, <2>2 DEF Level
  <1>3. step \in [Nat -> [Level -> Level]]
    BY NextLevelType
  <1>4. PICK g \in [0 .. n -> Level] : Steps(g, n, Leaves(t), step)
    <2> HIDE DEF step, n
    <2> QED  BY <1>1, <1>2, <1>3, Recursion
  <1>5. \A k \in 0 .. n : g[k] = IF k = 0 THEN Leaves(t) ELSE NextLevel(g[k - 1])
    <2> SUFFICES ASSUME NEW k \in 0 .. n
                 PROVE  g[k] = IF k = 0 THEN Leaves(t) ELSE NextLevel(g[k - 1])
      OBVIOUS
    <2>1. g[k] = IF k = 0 THEN Leaves(t) ELSE step[k][g[k - 1]]
      BY <1>4 DEF Steps
    <2>2. CASE k = 0
      BY <2>1, <2>2
    <2>3. CASE k # 0
      <3>1. k - 1 \in 0 .. n /\ k \in Nat
        BY <2>3
      <3>2. g[k - 1] \in Level
        BY <3>1
      <3>3. step[k][g[k - 1]] = NextLevel(g[k - 1])
        BY <3>1, <3>2
      <3> HIDE DEF step
      <3> QED  BY <2>1, <2>3, <3>3
    <2> QED  BY <2>2, <2>3
  <1>6. g = Body(g)
    <2> HIDE DEF n
    <2> QED  BY <1>5 DEF Leaves, NextLevel
  <1>7. level = Body(level)
    <2> HIDE DEF Body
    <2> QED  BY <1>6
  <1> HIDE DEF level
  <1>8. \A k \in 0 .. n : level[k] = IF k = 0 THEN Leaves(t) ELSE NextLevel(level[k - 1])
    <2> HIDE DEF n
    <2> QED  BY <1>7 DEF Leaves, NextLevel
  <1> DEFINE T == {k \in Nat : k \in 0 .. n => level[k] \in Level}
  <1>9. 0 \in T
    BY <1>1, <1>2, <1>8
  <1>10. ASSUME NEW k \in Nat, k \in T PROVE k + 1 \in T
    <2>1. ASSUME NEW j \in 0 .. n, j # 0, level[j - 1] \in Level
          PROVE  level[j] \in Level
      BY <1>8, <2>1, NextLevelType
    <2>2. k + 1 \in Nat /\ k + 1 # 0 /\ k + 1 - 1 = k
      OBVIOUS
    <2>3. k + 1 \in 0 .. n => k \in 0 .. n
      OBVIOUS
    <2> QED  BY <1>10, <2>1, <2>2, <2>3
  <1>11. \A k \in Nat : k \in T
    <2> HIDE DEF T
    <2> QED  BY <1>9, <1>10, Induction
  <1>12. \A k \in 0 .. n : level[k] \in Level
    BY <1>11
  <1>13. level \in [0 .. n -> Level]
    <2>1. level = [k \in 0 .. n |-> level[k]]
      <3> HIDE DEF n
      <3> QED  BY <1>7
    <2> QED  BY <2>1, <1>12
  <1>14. CalculateMerkleRoot(t) = level[n][1]
    BY DEF CalculateMerkleRoot, level
  <1>15. level[0] = Leaves(t) /\ \A k \in 1 .. n : level[k] = NextLevel(level[k - 1])
    BY <1>1, <1>8
  <1> QED  BY <1>13, <1>14, <1>15

\* The Merkle root is a sequence of numbers.
LEMMA MerkleRootType ==
    ASSUME NEW t \in Seq(Tx)
    PROVE  CalculateMerkleRoot(t) \in Seq(Int)
  <1>1. CASE t = <<>>
    BY <1>1 DEF CalculateMerkleRoot
  <1>2. CASE t # <<>>
    <2>1. PICK level \in [0 .. Len(t) -> Level] :
             CalculateMerkleRoot(t) = level[Len(t)][1]
      BY <1>2, MerkleLevels
    <2>2. level[Len(t)] \in Level
      OBVIOUS
    <2>3. ASSUME NEW l \in Level PROVE l[1] \in Seq(Int)
      BY DEF Level
    <2> QED  BY <2>1, <2>2, <2>3
  <1> QED  BY <1>1, <1>2

-----------------------------------------------------------------------------
(* The root that is computed level by level is the root of the tree.       *)

\* Every level has half as many hashes as the one before, rounded up.
LEMMA LevelLength ==
    ASSUME NEW l \in Level
    PROVE  /\ Len(l) \in Nat /\ Len(l) > 0
           /\ Len(NextLevel(l)) = (Len(l) + 1) \div 2
  <1>1. Len(l) \in Nat /\ Len(l) > 0
    BY DEF Level
  <1>2. CASE Len(l) > 1
    BY <1>2, MerkleLevelType DEF NextLevel
  <1>3. CASE Len(l) = 1
    <2>1. NextLevel(l) = l
      BY <1>3 DEF NextLevel
    <2> QED  BY <1>1, <1>3, <2>1
  <1>4. Len(l) > 1 \/ Len(l) = 1
    BY <1>1
  <1>5. Len(NextLevel(l)) = (Len(l) + 1) \div 2
    BY <1>2, <1>3, <1>4
  <1> QED  BY <1>1, <1>5

\* The height of a tree is the exponent that TreeHeight asks for.
LEMMA HeightIs ==
    ASSUME NEW n \in Nat, n > 0
    PROVE  /\ TreeHeight(n) \in 0 .. n
           /\ 2^TreeHeight(n) >= n
           /\ TreeHeight(n) = 0 \/ 2^(TreeHeight(n) - 1) < n
  <1> DEFINE Is(h) == 2^h >= n /\ (h = 0 \/ 2^(h - 1) < n)
             T == {h \in Nat : 2^h >= n}
  <1>1. n \in T
    <2>1. PICK p \in Nat : p = 2^n /\ n < p
      BY PowerOfTwo, BelowPower
    <2>2. p >= n
      BY <2>1
    <2> QED  BY <2>1, <2>2
  <1>2. PICK h \in T : \A g \in T : h <= g
    <2>1. T \subseteq Nat /\ T # {}
      BY <1>1
    <2> HIDE DEF T
    <2> QED  BY <2>1, LeastNumber
  <1>3. h \in 0 .. n
    BY <1>1, <1>2
  <1>4. 2^h >= n
    OBVIOUS
  <1>5. h = 0 \/ 2^(h - 1) < n
    <2> SUFFICES ASSUME h # 0 PROVE 2^(h - 1) < n
      OBVIOUS
    <2>1. PICK g \in Nat : g = h - 1
      BY <1>3
    <2>2. ~(h <= g)
      BY <1>3, <2>1
    <2>3. g \notin T
      BY <1>2, <2>2
    <2>4. PICK p \in Nat : p = 2^g
      BY PowerOfTwo
    <2>5. ~(p >= n)
      BY <2>3, <2>4
    <2>6. p < n
      BY <2>5
    <2> QED  BY <2>1, <2>4, <2>6
  <1>6. \E x \in 0 .. n : Is(x)
    BY <1>3, <1>4, <1>5
  <1>7. TreeHeight(n) = CHOOSE x \in 0 .. n : Is(x)
    BY DEF TreeHeight
  <1> HIDE DEF Is
  <1>8. TreeHeight(n) \in 0 .. n /\ Is(TreeHeight(n))
    BY <1>6, <1>7
  <1> QED  BY <1>8 DEF Is

\* Lengths that are halved reach one after that many steps, and not before.
LEMMA LengthsReachOne ==
    ASSUME NEW n \in Nat, n > 0, NEW h \in 0 .. n,
           2^h >= n, h = 0 \/ 2^(h - 1) < n,
           NEW len \in [0 .. n -> Nat], len[0] = n,
           \A k \in 1 .. n : len[k] = (len[k - 1] + 1) \div 2
    PROVE  /\ len[h] <= 1
           /\ \A k \in 0 .. h - 1 : len[k] > 1
  <1> DEFINE S == {k \in Nat : k \in 0 .. h => len[k] <= 2^(h - k)}
             T == {k \in Nat : k \in 0 .. h - 1 => len[k] > 2^(h - 1 - k)}
  <1>1. 0 \in S
    <2>1. h - 0 = h
      OBVIOUS
    <2>2. PICK p \in Nat : p = 2^h
      BY PowerOfTwo
    <2>3. n <= p
      BY <2>2
    <2> QED  BY <2>1, <2>2, <2>3
  <1>2. 0 \in T
    <2>1. h - 1 - 0 = h - 1 /\ (0 \in 0 .. h - 1 => h # 0)
      OBVIOUS
    <2>2. ASSUME h # 0 PROVE len[0] > 2^(h - 1)
      <3>1. h - 1 \in Nat
        BY <2>2
      <3>2. PICK p \in Nat : p = 2^(h - 1)
        BY <3>1, PowerOfTwo
      <3>3. n > p
        BY <2>2, <3>2
      <3> QED  BY <3>2, <3>3
    <2> QED  BY <2>1, <2>2
  <1>3. ASSUME NEW k \in Nat, k + 1 \in 0 .. n, NEW e \in Nat
        PROVE  /\ len[k] <= 2^(e + 1) => len[k + 1] <= 2^e
               /\ len[k] > 2^(e + 1) => len[k + 1] > 2^e
    <2>1. PICK m \in 1 .. n : m = k + 1
      BY <1>3
    <2>2. m - 1 = k
      BY <2>1
    <2>3. len[m] = (len[m - 1] + 1) \div 2
      OBVIOUS
    <2>4. k \in 0 .. n
      BY <2>1
    <2>5. PICK a \in Nat : a = len[k]
      BY <2>4
    <2>6. PICK b \in Nat : b = len[m]
      BY <2>1
    <2>7. b = (a + 1) \div 2
      BY <2>2, <2>3, <2>5, <2>6
    <2>8. PICK p \in Nat : p = 2^e
      BY PowerOfTwo
    <2>9. 2^(e + 1) = 2 * p
      BY <2>8, PowerDoubles
    <2>10. (a <= 2 * p => b <= p) /\ (a > 2 * p => b > p)
      BY <2>7
    <2> QED  BY <2>1, <2>5, <2>6, <2>8, <2>9, <2>10
  <1>4. ASSUME NEW k \in Nat, k \in S PROVE k + 1 \in S
    <2> SUFFICES ASSUME k + 1 \in 0 .. h PROVE len[k + 1] <= 2^(h - (k + 1))
      OBVIOUS
    <2>1. PICK e \in Nat : e = h - (k + 1)
      OBVIOUS
    <2>2. h - k = e + 1 /\ k \in 0 .. h /\ k + 1 \in 0 .. n
      BY <2>1
    <2>3. len[k] <= 2^(e + 1)
      BY <1>4, <2>2
    <2> HIDE DEF S, T
    <2> QED  BY <1>3, <2>1, <2>2, <2>3
  <1>5. ASSUME NEW k \in Nat, k \in T PROVE k + 1 \in T
    <2> SUFFICES ASSUME k + 1 \in 0 .. h - 1 PROVE len[k + 1] > 2^(h - 1 - (k + 1))
      OBVIOUS
    <2>1. PICK e \in Nat : e = h - 1 - (k + 1)
      OBVIOUS
    <2>2. h - 1 - k = e + 1 /\ k \in 0 .. h - 1 /\ k + 1 \in 0 .. n
      BY <2>1
    <2>3. len[k] > 2^(e + 1)
      BY <1>5, <2>2
    <2> HIDE DEF S, T
    <2> QED  BY <1>3, <2>1, <2>2, <2>3
  <1>6. \A k \in Nat : k \in S
    <2> HIDE DEF S
    <2> QED  BY <1>1, <1>4, Induction
  <1>7. \A k \in Nat : k \in T
    <2> HIDE DEF T
    <2> QED  BY <1>2, <1>5, Induction
  <1>8. len[h] <= 1
    <2>1. h \in Nat /\ h \in 0 .. h /\ h - h = 0
      OBVIOUS
    <2>2. h \in S
      <3> HIDE DEF S
      <3> QED  BY <1>6, <2>1
    <2>3. len[h] <= 2^(h - h)
      BY <2>1, <2>2
    <2>4. len[h] <= 2^0
      BY <2>1, <2>3
    <2> QED  BY <2>4, PowerDoubles
  <1>9. ASSUME NEW k \in 0 .. h - 1 PROVE len[k] > 1
    <2>1. PICK e \in Nat : e = h - 1 - k
      OBVIOUS
    <2>2. k \in T
      BY <1>7
    <2>3. len[k] > 2^e
      BY <2>1, <2>2
    <2>4. PICK p \in Nat : p = 2^e /\ p > 0
      BY PowerOfTwo
    <2>5. PICK a \in Nat : a = len[k]
      <3>1. k \in 0 .. n
        OBVIOUS
      <3> HIDE DEF S, T
      <3> QED  BY <3>1
    <2> HIDE DEF S, T
    <2>6. a > p
      BY <2>3, <2>4, <2>5
    <2> QED  BY <2>4, <2>5, <2>6
  <1> QED  BY <1>8, <1>9

\* The last place of a level that is half as long.
LEMMA LastHalves ==
    ASSUME NEW a \in Nat, a > 0
    PROVE  (a + 1) \div 2 - 1 = (a - 1) \div 2
  <1>1. PICK b \in Nat : a = b + 1
    <2>1. a - 1 \in Nat /\ a = (a - 1) + 1
      OBVIOUS
    <2> QED  BY <2>1
  <1>2. a + 1 = b + 2 /\ a - 1 = b
    BY <1>1
  <1>3. (b + 2) \div 2 = b \div 2 + 1
    OBVIOUS
  <1>4. b \div 2 \in Nat
    OBVIOUS
  <1> QED  BY <1>2, <1>3, <1>4

\* The levels that calculateMerkleRoot goes through.
IsLevels(level, t) ==
    /\ level[0] = Leaves(t)
    /\ \A k \in 1 .. Len(t) : level[k] = NextLevel(level[k - 1])

\* The levels up to the height of the tree have more than one hash, the one
\* at its height has one, which is what is left at the end.
LEMMA LevelsOfTree ==
    ASSUME NEW t \in Seq(Tx), t # <<>>, NEW level \in [0 .. Len(t) -> Level],
           IsLevels(level, t), NEW h, h = TreeHeight(Len(t))
    PROVE  /\ h \in 0 .. Len(t)
           /\ Len(level[0]) = Len(t)
           /\ \A k \in 0 .. Len(t) : Len(level[k]) \in Nat /\ Len(level[k]) > 0
           /\ \A k \in 1 .. Len(t) : Len(level[k]) = (Len(level[k - 1]) + 1) \div 2
           /\ \A k \in 0 .. h - 1 : Len(level[k]) > 1
           /\ Len(level[h]) = 1
           /\ level[Len(t)] = level[h]
  <1> DEFINE n == Len(t)
             len == [k \in 0 .. n |-> Len(level[k])]
  <1>1. n \in Nat /\ n > 0
    OBVIOUS
  <1>2. h \in 0 .. n /\ 2^h >= n /\ (h = 0 \/ 2^(h - 1) < n)
    BY <1>1, HeightIs
  <1>3. Len(level[0]) = n
    <2>1. Len(Leaves(t)) = n
      BY DEF Leaves
    <2> QED  BY <2>1 DEF IsLevels
  <1> HIDE DEF n
  <1>4. \A k \in 0 .. n : level[k] \in Level
    BY DEF n
  <1>5. \A k \in 0 .. n : Len(level[k]) \in Nat /\ Len(level[k]) > 0
    BY <1>4, LevelLength
  <1>6. ASSUME NEW k \in 1 .. n PROVE Len(level[k]) = (Len(level[k - 1]) + 1) \div 2
    <2>1. level[k] = NextLevel(level[k - 1])
      BY DEF IsLevels, n
    <2>2. k - 1 \in 0 .. n
      BY <1>1
    <2> QED  BY <1>4, <2>1, <2>2, LevelLength
  <1>7. /\ len \in [0 .. n -> Nat] /\ len[0] = n
        /\ \A k \in 0 .. n : len[k] = Len(level[k])
    BY <1>1, <1>3, <1>5
  <1>8. ASSUME NEW k \in 1 .. n PROVE len[k] = (len[k - 1] + 1) \div 2
    <2>1. k \in 0 .. n /\ k - 1 \in 0 .. n
      BY <1>1
    <2> HIDE DEF len
    <2> QED  BY <1>6, <1>7, <2>1
  <1> HIDE DEF len
  <1>9. len[h] <= 1 /\ \A k \in 0 .. h - 1 : len[k] > 1
    BY <1>1, <1>2, <1>7, <1>8, LengthsReachOne
  <1>10. Len(level[h]) = 1
    <2>1. len[h] = Len(level[h]) /\ Len(level[h]) \in Nat /\ Len(level[h]) > 0
      BY <1>2, <1>5, <1>7
    <2>2. len[h] <= 1
      BY <1>9
    <2> QED  BY <2>1, <2>2
  <1>11. \A k \in 0 .. h - 1 : Len(level[k]) > 1
    <2>1. \A k \in 0 .. h - 1 : k \in 0 .. n
      BY <1>1, <1>2
    <2> QED  BY <1>7, <1>9, <2>1
  <1> DEFINE T == {k \in Nat : k \in h .. n => level[k] = level[h]}
  <1>12. 0 \in T
    BY <1>2
  <1>13. ASSUME NEW k \in Nat, k \in T PROVE k + 1 \in T
    <2> SUFFICES ASSUME k + 1 \in h .. n PROVE level[k + 1] = level[h]
      OBVIOUS
    <2>1. CASE k + 1 = h
      BY <2>1
    <2>2. CASE k + 1 # h
      <3>1. k \in h .. n
        BY <1>1, <1>2, <2>2
      <3>2. level[k] = level[h]
        BY <1>13, <3>1
      <3>3. PICK m \in 1 .. n : m = k + 1
        BY <1>1, <1>2, <2>2
      <3>4. m - 1 = k
        BY <3>3
      <3>5. level[m] = NextLevel(level[m - 1])
        BY DEF IsLevels, n
      <3>6. NextLevel(level[h]) = level[h]
        BY <1>10 DEF NextLevel
      <3> HIDE DEF T
      <3> QED  BY <3>2, <3>3, <3>4, <3>5, <3>6
    <2> QED  BY <2>1, <2>2
  <1>14. \A k \in Nat : k \in T
    <2> HIDE DEF T
    <2> QED  BY <1>12, <1>13, Induction
  <1>15. level[n] = level[h]
    <2>1. n \in T /\ n \in h .. n
      BY <1>1, <1>2, <1>14
    <2> QED  BY <2>1
  <1> QED  BY <1>2, <1>3, <1>5, <1>6, <1>10, <1>11, <1>15 DEF n

\* The root that calculateMerkleRoot computes is the one of the tree.
LEMMA RootOfTree ==
    ASSUME NEW t \in Seq(Tx), t # <<>>
    PROVE  CalculateMerkleRoot(t) = TreeHash(t, TreeHeight(Len(t)))
  <1> DEFINE n == Len(t)
             h == TreeHeight(Len(t))
             LastBody(f) == [l \in 0 .. h |-> IF l = 0 THEN Len(t) - 1 ELSE f[l - 1] \div 2]
             last == CHOOSE f : f = LastBody(f)
             right(l, i) == IF 2 * i + 1 <= last[l - 1] THEN 2 * i + 1 ELSE 2 * i
             Up(l, v) == [i \in 0 .. last[l] |-> hash(v[2 * i] \o v[right(l, i)])]
             NodeBody(f) ==
               [l \in 0 .. h |->
                  [i \in 0 .. last[l] |->
                     IF l = 0 THEN TxDigest(t[i + 1])
                     ELSE hash(f[l - 1][2 * i] \o f[l - 1][right(l, i)])]]
             node == CHOOSE f : f = NodeBody(f)
  <1>1. PICK level \in [0 .. n -> Level] :
           IsLevels(level, t) /\ CalculateMerkleRoot(t) = level[n][1]
    BY MerkleLevels DEF IsLevels
  <1>2. /\ h \in 0 .. n /\ n \in Nat /\ n > 0
        /\ Len(level[0]) = n
        /\ \A k \in 0 .. n : Len(level[k]) \in Nat /\ Len(level[k]) > 0
        /\ \A k \in 1 .. n : Len(level[k]) = (Len(level[k - 1]) + 1) \div 2
        /\ \A k \in 0 .. h - 1 : Len(level[k]) > 1
        /\ Len(level[h]) = 1
        /\ level[n] = level[h]
    <2>1. n \in Nat /\ n > 0
      OBVIOUS
    <2> QED  BY <1>1, <2>1, LevelsOfTree
  <1>3. TreeHash(t, h) = node[h][0]
    BY DEF TreeHash
  <1>4. \A i \in 1 .. n : level[0][i] = TxDigest(t[i])
    BY <1>1 DEF IsLevels, Leaves
  <1>5. \A k \in 0 .. n : level[k] \in Level
    BY <1>1
  <1>6. ASSUME NEW l \in 1 .. h, NEW i \in 1 .. Len(level[l])
        PROVE  /\ 2 * i - 1 \in 1 .. Len(level[l - 1])
               /\ level[l][i] =
                    hash(level[l - 1][2 * i - 1] \o
                         level[l - 1][IF 2 * i <= Len(level[l - 1]) THEN 2 * i ELSE 2 * i - 1])
    <2> HIDE DEF n, h
    <2>1. l \in 1 .. n /\ l - 1 \in 0 .. n /\ l - 1 \in 0 .. h - 1
      BY <1>2
    <2>2. PICK b \in Level : b = level[l - 1]
      BY <1>5, <2>1
    <2>3. Len(b) > 1
      BY <1>2, <2>1, <2>2
    <2>4. level[l] = MerkleLevel(b)
      <3>1. level[l] = NextLevel(level[l - 1])
        BY <1>1, <2>1 DEF IsLevels, n
      <3> QED  BY <2>2, <2>3, <3>1 DEF NextLevel
    <2>5. Len(level[l]) = (Len(b) + 1) \div 2
      BY <1>2, <2>1, <2>2
    <2>6. i \in 1 .. (Len(b) + 1) \div 2
      BY <2>5
    <2>7. level[l][i] = hash(b[2 * i - 1] \o b[IF 2 * i <= Len(b) THEN 2 * i ELSE 2 * i - 1])
      BY <2>4, <2>6, MerkleLevelType
    <2>8. 2 * i - 1 \in 1 .. Len(b)
      <3>1. Len(b) \in Nat
        BY LevelLength
      <3> QED  BY <2>6, <3>1, Halves
    <2> QED  BY <2>2, <2>7, <2>8
  \* The last places.
  <1>7. \A l \in 0 .. h : last[l] = Len(level[l]) - 1
    <2> DEFINE lens == [l \in 0 .. h |-> Len(level[l]) - 1]
    <2>1. ASSUME NEW l \in 1 .. h
          PROVE  l - 1 \in 0 .. h /\ Len(level[l]) - 1 = (Len(level[l - 1]) - 1) \div 2
      <3> HIDE DEF n, h
      <3>1. l \in 1 .. n /\ l - 1 \in 0 .. n /\ l - 1 \in 0 .. h
        BY <1>2
      <3>2. PICK a \in Nat : a = Len(level[l - 1]) /\ a > 0
        BY <1>2, <3>1
      <3>3. Len(level[l]) = (a + 1) \div 2
        BY <1>2, <3>1, <3>2
      <3>4. (a + 1) \div 2 - 1 = (a - 1) \div 2
        BY <3>2, LastHalves
      <3> QED  BY <3>1, <3>2, <3>3, <3>4
    <2>2. lens = LastBody(lens)
      <3>1. ASSUME NEW l \in 0 .. h
            PROVE  Len(level[l]) - 1 = IF l = 0 THEN Len(t) - 1 ELSE lens[l - 1] \div 2
        <4>1. CASE l = 0
          BY <1>2, <4>1
        <4>2. CASE l # 0
          <5> HIDE DEF n, h
          <5>1. l \in 1 .. h
            BY <1>2, <4>2
          <5> QED  BY <2>1, <4>2, <5>1
        <4> QED  BY <4>1, <4>2
      <3> HIDE DEF h
      <3> QED  BY <3>1
    <2>3. last = LastBody(last)
      <3> HIDE DEF LastBody, lens
      <3> QED  BY <2>2
    <2> HIDE DEF last
    <2>4. \A l \in 0 .. h : last[l] = IF l = 0 THEN n - 1 ELSE last[l - 1] \div 2
      <3> HIDE DEF h
      <3> QED  BY <2>3
    <2> HIDE DEF n, h
    <2> DEFINE T == {l \in Nat : l \in 0 .. h => last[l] = Len(level[l]) - 1}
    <2>5. 0 \in T
      BY <1>2, <2>4
    <2>6. ASSUME NEW k \in Nat, k \in T PROVE k + 1 \in T
      <3> SUFFICES ASSUME k + 1 \in 0 .. h PROVE last[k + 1] = Len(level[k + 1]) - 1
        OBVIOUS
      <3>1. PICK m \in 1 .. h : m = k + 1
        BY <1>2
      <3>2. m - 1 = k /\ k \in 0 .. h /\ m \in 0 .. h /\ m # 0
        BY <1>2, <3>1
      <3>3. last[k] = Len(level[k]) - 1
        BY <2>6, <3>2
      <3> HIDE DEF T
      <3>4. last[m] = last[m - 1] \div 2
        BY <2>4, <3>2
      <3>5. Len(level[m]) - 1 = (Len(level[m - 1]) - 1) \div 2
        BY <2>1
      <3> QED  BY <3>1, <3>2, <3>3, <3>4, <3>5
    <2>7. \A l \in Nat : l \in T
      <3> HIDE DEF T
      <3> QED  BY <2>5, <2>6, Induction
    <2> QED  BY <1>2, <2>7
  <1> HIDE DEF last
  \* The hashes of the tree are those of the levels.
  <1>8. \A l \in 0 .. h : node[l] = [i \in 0 .. last[l] |-> level[l][i + 1]]
    <2> DEFINE g == [l \in 0 .. h |-> [i \in 0 .. last[l] |-> level[l][i + 1]]]
    <2>1. ASSUME NEW l \in 1 .. h, NEW i \in 0 .. last[l]
          PROVE  /\ l - 1 \in 0 .. h
                 /\ 2 * i \in 0 .. last[l - 1] /\ right(l, i) \in 0 .. last[l - 1]
                 /\ level[l][i + 1] = hash(level[l - 1][2 * i + 1] \o level[l - 1][right(l, i) + 1])
      <3> HIDE DEF n, h
      <3>1. /\ l - 1 \in 0 .. h /\ l - 1 \in 0 .. n /\ l \in 0 .. h /\ l \in 0 .. n
        BY <1>2
      <3>2. PICK a \in Nat : a = Len(level[l - 1]) /\ a > 0
        BY <1>2, <3>1
      <3>3. last[l - 1] = a - 1 /\ last[l] = Len(level[l]) - 1 /\ Len(level[l]) \in Nat
        BY <1>2, <1>7, <3>1, <3>2
      <3>4. PICK j \in 1 .. Len(level[l]) : j = i + 1
        BY <3>3
      <3>5. /\ 2 * j - 1 \in 1 .. a
            /\ level[l][j] = hash(level[l - 1][2 * j - 1] \o
                                  level[l - 1][IF 2 * j <= a THEN 2 * j ELSE 2 * j - 1])
        BY <1>6, <3>2
      <3>6. 2 * j - 1 = 2 * i + 1 /\ 2 * i \in 0 .. a - 1
        BY <3>2, <3>4, <3>5
      <3>7. /\ right(l, i) \in 0 .. a - 1
            /\ (IF 2 * j <= a THEN 2 * j ELSE 2 * j - 1) = right(l, i) + 1
        <4>1. right(l, i) = IF 2 * i + 1 <= a - 1 THEN 2 * i + 1 ELSE 2 * i
          BY <3>3
        <4> HIDE DEF right
        <4> QED  BY <3>2, <3>4, <3>6, <4>1
      <3> HIDE DEF right
      <3> QED  BY <3>1, <3>3, <3>4, <3>5, <3>6, <3>7
    <2>2. \A l \in 0 .. h : g[l] = [i \in 0 .. last[l] |-> level[l][i + 1]]
      OBVIOUS
    <2> HIDE DEF g
    <2>3. ASSUME NEW l \in 1 .. h PROVE g[l] = Up(l, g[l - 1])
      <3>1. ASSUME NEW i \in 0 .. last[l]
            PROVE  level[l][i + 1] = hash(g[l - 1][2 * i] \o g[l - 1][right(l, i)])
        <4>1. g[l - 1] = [j \in 0 .. last[l - 1] |-> level[l - 1][j + 1]]
          BY <2>1, <2>2
        <4> HIDE DEF right
        <4>2. /\ g[l - 1][2 * i] = level[l - 1][2 * i + 1]
              /\ g[l - 1][right(l, i)] = level[l - 1][right(l, i) + 1]
          BY <2>1, <4>1
        <4> QED  BY <2>1, <4>2
      <3>2. l \in 0 .. h
        BY <1>2
      <3>3. g[l] = [i \in 0 .. last[l] |-> level[l][i + 1]]
        BY <2>2, <3>2
      <3> HIDE DEF right
      <3> QED  BY <3>1, <3>3
    <2>4. g[0] = [i \in 0 .. last[0] |-> TxDigest(t[i + 1])]
      <3> HIDE DEF n, h
      <3>1. 0 \in 0 .. h /\ last[0] = n - 1
        BY <1>2, <1>7
      <3>2. \A i \in 0 .. last[0] : level[0][i + 1] = TxDigest(t[i + 1])
        BY <1>2, <1>4, <3>1
      <3> QED  BY <2>2, <3>1, <3>2
    <2>5. \A f : NodeBody(f) =
                   [l \in 0 .. h |-> IF l = 0 THEN [i \in 0 .. last[0] |-> TxDigest(t[i + 1])]
                                     ELSE Up(l, f[l - 1])]
      <3> HIDE DEF h, right
      <3> QED  OBVIOUS
    <2> HIDE DEF NodeBody, Up
    <2>6. g = NodeBody(g)
      <3>1. g = [l \in 0 .. h |-> g[l]]
        BY DEF g
      <3>2. ASSUME NEW l \in 0 .. h
            PROVE  g[l] = IF l = 0 THEN [i \in 0 .. last[0] |-> TxDigest(t[i + 1])]
                                   ELSE Up(l, g[l - 1])
        <4>1. l = 0 \/ l \in 1 .. h
          BY <1>2
        <4> QED  BY <2>3, <2>4, <4>1
      <3> HIDE DEF h
      <3> QED  BY <2>5, <3>1, <3>2
    <2>7. node = NodeBody(node)
      BY <2>6
    <2> HIDE DEF node, h
    <2>8. \A l \in 0 .. h : node[l] =
             IF l = 0 THEN [i \in 0 .. last[0] |-> TxDigest(t[i + 1])] ELSE Up(l, node[l - 1])
      BY <2>5, <2>7
    <2> DEFINE T == {l \in Nat : l \in 0 .. h => node[l] = g[l]}
    <2>9. 0 \in T
      BY <2>4, <2>8
    <2>10. ASSUME NEW k \in Nat, k \in T PROVE k + 1 \in T
      <3> SUFFICES ASSUME k + 1 \in 0 .. h PROVE node[k + 1] = g[k + 1]
        OBVIOUS
      <3>1. PICK m \in 1 .. h : m = k + 1
        BY <1>2
      <3>2. m - 1 = k /\ k \in 0 .. h /\ m \in 0 .. h /\ m # 0
        BY <1>2, <3>1
      <3>3. node[k] = g[k]
        BY <2>10, <3>2
      <3> HIDE DEF T
      <3>4. node[m] = Up(m, node[m - 1]) /\ g[m] = Up(m, g[m - 1])
        BY <2>3, <2>8, <3>2
      <3> QED  BY <3>1, <3>2, <3>3, <3>4
    <2>11. \A l \in Nat : l \in T
      <3> HIDE DEF T
      <3> QED  BY <2>9, <2>10, Induction
    <2>12. \A l \in 0 .. h : l \in Nat
      BY <1>2
    <2> QED  BY <2>2, <2>11, <2>12
  <1> HIDE DEF node, n, h
  <1>9. node[h][0] = level[h][1]
    <2>1. h \in 0 .. h /\ last[h] = 0
      <3>1. h \in Nat
        BY <1>2
      <3>2. h \in 0 .. h
        BY <3>1
      <3>3. last[h] = Len(level[h]) - 1
        BY <1>7, <3>2
      <3>4. Len(level[h]) = 1
        BY <1>2
      <3> QED  BY <3>2, <3>3, <3>4
    <2>2. node[h] = [i \in 0 .. last[h] |-> level[h][i + 1]]
      BY <1>8, <2>1
    <2>3. 0 \in 0 .. last[h] /\ 0 + 1 = 1
      BY <2>1
    <2> QED  BY <2>2, <2>3
  <1> QED  BY <1>1, <1>2, <1>3, <1>9 DEF h

-----------------------------------------------------------------------------
(* What to_string writes from_string reads.                                *)

\* A list is a field when it has elements.
LEMMA ListFields ==
    ASSUME NEW name, NEW list
    PROVE  /\ list = <<>> => DOMAIN ListField(name, list) = {}
           /\ list # <<>> => /\ DOMAIN ListField(name, list) = {name}
                             /\ ListField(name, list)[name] = list
  BY DEF ListField

\* A transaction that has inputs and outputs is read as it was written, and
\* no other can be read.
LEMMA TxRoundTrip ==
    ASSUME NEW tx \in Tx
    PROVE  /\ TxLoads(TxToString(tx)) <=> tx.inputs # <<>> /\ tx.outputs # <<>>
           /\ TxLoads(TxToString(tx)) => TxFromString(TxToString(tx)) = tx
  <1> DEFINE base == [txID |-> tx.txID, senderID |-> tx.senderID,
                      senderSig |-> tx.senderSig]
             in  == ListField("inputs", tx.inputs)
             out == ListField("outputs", tx.outputs)
             key == ListField("publicKey", tx.publicKey)
             j   == TxToString(tx)
  <1>1. j = Joined(base, Joined(in, Joined(out, key)))
    BY DEF TxToString
  <1>2. DOMAIN base = {"txID", "senderID", "senderSig"}
    OBVIOUS
  <1>3. /\ base["txID"] = tx.txID /\ base["senderID"] = tx.senderID
        /\ base["senderSig"] = tx.senderSig
    OBVIOUS
  <1>4. /\ DOMAIN in = IF tx.inputs = <<>> THEN {} ELSE {"inputs"}
        /\ tx.inputs # <<>> => in["inputs"] = tx.inputs
    BY ListFields
  <1>5. /\ DOMAIN out = IF tx.outputs = <<>> THEN {} ELSE {"outputs"}
        /\ tx.outputs # <<>> => out["outputs"] = tx.outputs
    BY ListFields
  <1>6. /\ DOMAIN key = IF tx.publicKey = <<>> THEN {} ELSE {"publicKey"}
        /\ tx.publicKey # <<>> => key["publicKey"] = tx.publicKey
    BY ListFields
  <1> DEFINE j1 == Joined(out, key)
             j2 == Joined(in, j1)
  <1> HIDE DEF base, in, out, key, j
  <1>7. /\ DOMAIN j1 = (DOMAIN out) \cup (DOMAIN key)
        /\ tx.outputs # <<>> => j1["outputs"] = tx.outputs
        /\ tx.publicKey # <<>> => j1["publicKey"] = tx.publicKey
    BY <1>5, <1>6 DEF Joined
  <1>8. j = Joined(base, j2)
    BY <1>1
  <1> HIDE DEF j1
  <1>9. /\ DOMAIN j2 = (DOMAIN in) \cup (DOMAIN j1)
        /\ tx.inputs # <<>> => j2["inputs"] = tx.inputs
        /\ tx.outputs # <<>> => j2["outputs"] = tx.outputs
        /\ tx.publicKey # <<>> => j2["publicKey"] = tx.publicKey
    BY <1>4, <1>5, <1>6, <1>7 DEF Joined
  <1> HIDE DEF j2
  <1>10. DOMAIN j = (DOMAIN base) \cup (DOMAIN in) \cup (DOMAIN out) \cup (DOMAIN key)
    BY <1>7, <1>8, <1>9 DEF Joined
  <1>11. /\ j["txID"] = tx.txID /\ j["senderID"] = tx.senderID
         /\ j["senderSig"] = tx.senderSig
    BY <1>2, <1>3, <1>8 DEF Joined
  <1>12. /\ tx.inputs # <<>> => j["inputs"] = tx.inputs
         /\ tx.outputs # <<>> => j["outputs"] = tx.outputs
         /\ tx.publicKey # <<>> => j["publicKey"] = tx.publicKey
    BY <1>2, <1>4, <1>5, <1>6, <1>7, <1>8, <1>9 DEF Joined
  <1>13. /\ "inputs" \in DOMAIN j <=> tx.inputs # <<>>
         /\ "outputs" \in DOMAIN j <=> tx.outputs # <<>>
         /\ "publicKey" \in DOMAIN j <=> tx.publicKey # <<>>
    BY <1>2, <1>4, <1>5, <1>6, <1>10
  <1>14. TxLoads(j) <=> tx.inputs # <<>> /\ tx.outputs # <<>>
    BY <1>13 DEF TxLoads
  <1>15. ASSUME TxLoads(j) PROVE TxFromString(j) = tx
    <2>1. /\ j.txID = tx.txID /\ j.senderID = tx.senderID
          /\ j.senderSig = tx.senderSig
          /\ j.inputs = tx.inputs /\ j.outputs = tx.outputs
      BY <1>11, <1>12, <1>14, <1>15
    <2>2. (IF "publicKey" \in DOMAIN j THEN j.publicKey ELSE <<>>) = tx.publicKey
      BY <1>12, <1>13
    <2>3. tx = [txID |-> tx.txID, inputs |-> tx.inputs, outputs |-> tx.outputs,
                senderID |-> tx.senderID, senderSig |-> tx.senderSig,
                publicKey |-> tx.publicKey]
      BY DEF Tx
    <2>4. TxFromString(j) = [txID |-> tx.txID, inputs |-> tx.inputs,
                outputs |-> tx.outputs, senderID |-> tx.senderID,
                senderSig |-> tx.senderSig, publicKey |-> tx.publicKey]
      BY <2>1, <2>2 DEF TxFromString
    <2> QED  BY <2>3, <2>4
  <1> QED  BY <1>14, <1>15 DEF j

\* What is collected of another validator's signature.
SigRecord == [validatorID : 0 .. 9, signature : Seq(Int), publicKey : Seq(Int)]

\* The fields of a block.
BlockRecord ==
    [prevBlockDigest : Seq(Int), merkleRoot : Seq(Int), txs : Seq(Tx),
     validatorSig : Seq(Int), validatorID : 0 .. 9, nextKey : Seq(Int),
     validatorSigs : Seq(SigRecord), mutable : BOOLEAN]

\* A block, in memory or read: once it is finalized, the root belongs to its
\* transactions.
Block == {b \in BlockRecord : ~b.mutable => b.merkleRoot = CalculateMerkleRoot(b.txs)}

\* A block that from_string can read: it has transactions, and these have
\* inputs and outputs.
Whole(b) == /\ b.txs # <<>>
            /\ \A i \in DOMAIN b.txs : b.txs[i].inputs # <<>> /\ b.txs[i].outputs # <<>>

\* A block is a record of its fields.
LEMMA BlockFields ==
    ASSUME NEW b \in Block
    PROVE  b = [prevBlockDigest |-> b.prevBlockDigest, merkleRoot |-> b.merkleRoot,
                txs |-> b.txs, validatorSig |-> b.validatorSig,
                validatorID |-> b.validatorID, nextKey |-> b.nextKey,
                validatorSigs |-> b.validatorSigs, mutable |-> b.mutable]
  BY DEF Block, BlockRecord

\* A whole block is read as it was written, with the signatures of the other
\* validators, and no other block can be read.
LEMMA BlockRoundTrip ==
    ASSUME NEW b \in Block
    PROVE  /\ BlockLoads(BlockToString(b)) <=> Whole(b)
           /\ Whole(b) /\ ~b.mutable => BlockFromString(BlockToString(b)) = b
  <1> DEFINE base == [header |-> HeaderToString(b),
                      validatorSig |-> b.validatorSig, validatorID |-> b.validatorID,
                      publicKey |-> b.nextKey]
             list == [i \in DOMAIN b.txs |-> TxToString(b.txs[i])]
             txf  == ListField("transactions", list)
             sigf == ListField("validatorSigs", b.validatorSigs)
             j    == BlockToString(b)
             j1   == Joined(txf, sigf)
  <1>1. j = Joined(base, j1)
    BY DEF BlockToString
  <1>2. /\ DOMAIN base = {"header", "validatorSig", "validatorID", "publicKey"}
        /\ base["header"] = HeaderToString(b)
        /\ base["validatorSig"] = b.validatorSig
        /\ base["validatorID"] = b.validatorID
        /\ base["publicKey"] = b.nextKey
    OBVIOUS
  <1>3. b.txs \in Seq(Tx) /\ DOMAIN b.txs = 1 .. Len(b.txs) /\ Len(b.txs) \in Nat
    BY DEF Block, BlockRecord
  <1>4. list = <<>> <=> b.txs = <<>>
    BY <1>3
  <1>5. DOMAIN list = DOMAIN b.txs /\ \A i \in DOMAIN b.txs : list[i] = TxToString(b.txs[i])
    OBVIOUS
  <1> HIDE DEF list
  <1>6. /\ DOMAIN txf = IF b.txs = <<>> THEN {} ELSE {"transactions"}
        /\ b.txs # <<>> => txf["transactions"] = list
    BY <1>4, ListFields
  <1>7. /\ DOMAIN sigf = IF b.validatorSigs = <<>> THEN {} ELSE {"validatorSigs"}
        /\ b.validatorSigs # <<>> => sigf["validatorSigs"] = b.validatorSigs
    BY ListFields
  <1> HIDE DEF base, txf, sigf, j
  <1>8. /\ DOMAIN j1 = (DOMAIN txf) \cup (DOMAIN sigf)
        /\ b.txs # <<>> => j1["transactions"] = list
        /\ b.validatorSigs # <<>> => j1["validatorSigs"] = b.validatorSigs
    BY <1>6, <1>7 DEF Joined
  <1> HIDE DEF j1
  <1>9. DOMAIN j = (DOMAIN base) \cup (DOMAIN txf) \cup (DOMAIN sigf)
    BY <1>1, <1>8 DEF Joined
  <1>10. /\ j["header"] = HeaderToString(b)
         /\ j["validatorSig"] = b.validatorSig
         /\ j["validatorID"] = b.validatorID
         /\ j["publicKey"] = b.nextKey
    BY <1>1, <1>2 DEF Joined
  <1>11. /\ b.txs # <<>> => j["transactions"] = list
         /\ b.validatorSigs # <<>> => j["validatorSigs"] = b.validatorSigs
    BY <1>1, <1>2, <1>6, <1>7, <1>8 DEF Joined
  <1>12. /\ "transactions" \in DOMAIN j <=> b.txs # <<>>
         /\ "validatorSigs" \in DOMAIN j <=> b.validatorSigs # <<>>
    BY <1>2, <1>6, <1>7, <1>9
  <1>13. \A i \in DOMAIN b.txs : b.txs[i] \in Tx
    BY <1>3
  <1>14. BlockLoads(j) <=> Whole(b)
    <2>1. CASE b.txs = <<>>
      BY <1>12, <2>1 DEF BlockLoads, Whole
    <2>2. CASE b.txs # <<>>
      <3>1. j.transactions = list
        BY <1>11, <2>2
      <3>2. BlockLoads(j) <=> \A i \in DOMAIN b.txs : TxLoads(TxToString(b.txs[i]))
        BY <1>5, <1>12, <2>2, <3>1 DEF BlockLoads
      <3>3. \A i \in DOMAIN b.txs : TxLoads(TxToString(b.txs[i]))
                                      <=> b.txs[i].inputs # <<>> /\ b.txs[i].outputs # <<>>
        BY <1>13, TxRoundTrip
      <3> QED  BY <2>2, <3>2, <3>3 DEF Whole
    <2> QED  BY <2>1, <2>2
  <1>15. ASSUME Whole(b), ~b.mutable PROVE BlockFromString(j) = b
    <2>1. b.txs # <<>>
      BY <1>15 DEF Whole
    <2>2. j.transactions = list
      BY <1>11, <2>1
    <2>3. \A i \in DOMAIN b.txs : TxFromString(list[i]) = b.txs[i]
      BY <1>5, <1>13, <1>15, TxRoundTrip DEF Whole
    <2>4. [i \in DOMAIN j.transactions |-> TxFromString(j.transactions[i])] = b.txs
      <3>1. [i \in DOMAIN list |-> TxFromString(list[i])] = [i \in DOMAIN b.txs |-> b.txs[i]]
        BY <1>5, <2>3
      <3>2. b.txs = [i \in DOMAIN b.txs |-> b.txs[i]]
        BY <1>3
      <3> QED  BY <2>2, <3>1, <3>2
    <2>5. (IF "validatorSigs" \in DOMAIN j THEN j.validatorSigs ELSE <<>>) = b.validatorSigs
      BY <1>11, <1>12
    <2>6. /\ j.header.prevBlockDigest = b.prevBlockDigest
          /\ j.header.merkleRoot = b.merkleRoot
      BY <1>10 DEF HeaderToString
    <2>7. b.mutable = FALSE
      BY <1>15 DEF Block, BlockRecord
    <2>8. BlockFromString(j) =
            [prevBlockDigest |-> b.prevBlockDigest, merkleRoot |-> b.merkleRoot,
             txs |-> b.txs, validatorSig |-> b.validatorSig,
             validatorID |-> b.validatorID, nextKey |-> b.nextKey,
             validatorSigs |-> b.validatorSigs, mutable |-> FALSE]
      BY <1>10, <2>4, <2>5, <2>6 DEF BlockFromString
    <2> QED  BY <2>7, <2>8, BlockFields
  <1> QED  BY <1>14, <1>15 DEF j

-----------------------------------------------------------------------------
(* What a block becomes in a message, and its digest.                      *)

\* The conversion to protobuf and back keeps all but the signatures collected
\* from the other validators.
LEMMA WireBlock ==
    ASSUME NEW b \in Block, ~b.mutable
    PROVE  BlockFromProto(BlockToProto(b)) = [b EXCEPT !.validatorSigs = <<>>]
  <1> DEFINE p == BlockToProto(b)
             list == [i \in DOMAIN b.txs |-> TxToProto(b.txs[i])]
  <1>1. b.txs \in Seq(Tx) /\ DOMAIN b.txs = 1 .. Len(b.txs)
    BY DEF Block, BlockRecord
  <1>2. \A i \in DOMAIN b.txs : TxFromProto(TxToProto(b.txs[i])) = b.txs[i]
    <2> SUFFICES ASSUME NEW tx \in Tx PROVE TxFromProto(TxToProto(tx)) = tx
      BY <1>1
    <2>1. tx.senderID % 2^16 = tx.senderID
      BY DEF Tx
    <2>2. tx = [txID |-> tx.txID, inputs |-> tx.inputs, outputs |-> tx.outputs,
                senderID |-> tx.senderID, senderSig |-> tx.senderSig,
                publicKey |-> tx.publicKey]
      BY DEF Tx
    <2>3. TxFromProto(TxToProto(tx)) =
            [txID |-> tx.txID, inputs |-> tx.inputs, outputs |-> tx.outputs,
             senderID |-> tx.senderID % 2^16, senderSig |-> tx.senderSig,
             publicKey |-> tx.publicKey]
      BY DEF TxFromProto, TxToProto
    <2> QED  BY <2>1, <2>2, <2>3
  <1>3. [i \in DOMAIN list |-> TxFromProto(list[i])] = b.txs
    <2>1. [i \in DOMAIN list |-> TxFromProto(list[i])] = [i \in DOMAIN b.txs |-> b.txs[i]]
      BY <1>2
    <2>2. b.txs = [i \in DOMAIN b.txs |-> b.txs[i]]
      BY <1>1
    <2> QED  BY <2>1, <2>2
  <1>4. b.validatorID % 2^16 = b.validatorID
    <2>1. ASSUME NEW v \in 0 .. 9 PROVE v % 2^16 = v
      OBVIOUS
    <2> QED  BY <2>1 DEF Block, BlockRecord
  <1>5. /\ p.transaction = list
        /\ p.header.prevblockdigest = b.prevBlockDigest
        /\ p.header.merkleroot = b.merkleRoot
        /\ p.validatorsig = b.validatorSig
        /\ p.validatorid = b.validatorID
        /\ p.publickey = b.nextKey
    BY DEF BlockToProto, HeaderToProto
  <1> HIDE DEF p, list
  <1>6. BlockFromProto(p) =
          [prevBlockDigest |-> b.prevBlockDigest, merkleRoot |-> b.merkleRoot,
           txs |-> b.txs, validatorSig |-> b.validatorSig,
           validatorID |-> b.validatorID, nextKey |-> b.nextKey,
           validatorSigs |-> <<>>, mutable |-> FALSE]
    BY <1>3, <1>4, <1>5 DEF BlockFromProto
  <1>7. b.mutable = FALSE
    BY DEF Block, BlockRecord
  <1>8. [b EXCEPT !.validatorSigs = <<>>] =
          [prevBlockDigest |-> b.prevBlockDigest, merkleRoot |-> b.merkleRoot,
           txs |-> b.txs, validatorSig |-> b.validatorSig,
           validatorID |-> b.validatorID, nextKey |-> b.nextKey,
           validatorSigs |-> <<>>, mutable |-> b.mutable]
    <2>1. ASSUME NEW f1, NEW f2, NEW f3, NEW f4, NEW f5, NEW f6, NEW f7, NEW f8, NEW r,
                 r = [prevBlockDigest |-> f1, merkleRoot |-> f2, txs |-> f3,
                      validatorSig |-> f4, validatorID |-> f5, nextKey |-> f6,
                      validatorSigs |-> f7, mutable |-> f8]
          PROVE  [r EXCEPT !.validatorSigs = <<>>] =
                     [prevBlockDigest |-> f1, merkleRoot |-> f2, txs |-> f3,
                      validatorSig |-> f4, validatorID |-> f5, nextKey |-> f6,
                      validatorSigs |-> <<>>, mutable |-> f8]
      BY <2>1
    <2> QED  BY <2>1, BlockFields
  <1> QED  BY <1>6, <1>7, <1>8 DEF p

\* A digest is a sequence of numbers that is longer than the digest of the
\* block before, which was hashed into it.
LEMMA DigestType ==
    ASSUME NEW b \in Block
    PROVE  GetDigest(b) \in Seq(Int) /\ Len(GetDigest(b)) > Len(b.prevBlockDigest)
  <1>1. /\ b.prevBlockDigest \in Seq(Int) /\ b.merkleRoot \in Seq(Int)
        /\ b.nextKey \in Seq(Int) /\ b.validatorID \in Int
    BY DEF Block, BlockRecord
  <1>2. ASSUME NEW s \in Seq(Int), NEW t \in Seq(Int)
        PROVE  s \o t \in Seq(Int) /\ Len(s \o t) = Len(s) + Len(t)
    OBVIOUS
  <1> DEFINE h == HeaderID(b)
             s == Append(h, b.validatorID)
  <1>3. h \in Seq(Int) /\ Len(h) = Len(b.prevBlockDigest) + Len(b.merkleRoot) + 2
    <2>1. /\ b.prevBlockDigest \o b.merkleRoot \in Seq(Int)
          /\ Len(b.prevBlockDigest \o b.merkleRoot)
               = Len(b.prevBlockDigest) + Len(b.merkleRoot)
      BY <1>1, <1>2
    <2> QED  BY <2>1, HashType DEF HeaderID
  <1> HIDE DEF h
  <1>4. s \in Seq(Int) /\ Len(s) = Len(h) + 1
    <2>1. ASSUME NEW u \in Seq(Int), NEW v \in Int
          PROVE  Append(u, v) \in Seq(Int) /\ Len(Append(u, v)) = Len(u) + 1
      OBVIOUS
    <2> QED  BY <1>1, <1>3, <2>1
  <1>5. GetDigest(b) = hash(s \o b.nextKey)
    BY DEF GetDigest, h
  <1> HIDE DEF s
  <1>6. s \o b.nextKey \in Seq(Int) /\ Len(s \o b.nextKey) = Len(s) + Len(b.nextKey)
    BY <1>1, <1>2, <1>4
  <1>7. /\ GetDigest(b) \in Seq(Int)
        /\ Len(GetDigest(b)) = Len(s) + Len(b.nextKey) + 2
    BY <1>5, <1>6, HashType
  <1>8. /\ Len(b.prevBlockDigest) \in Nat /\ Len(b.merkleRoot) \in Nat
        /\ Len(b.nextKey) \in Nat
    BY <1>1
  <1>9. ASSUME NEW x \in Nat, NEW y \in Nat, NEW z \in Nat
        PROVE  x + y + 2 + 1 + z + 2 > x
    OBVIOUS
  <1>10. Len(GetDigest(b)) = Len(b.prevBlockDigest) + Len(b.merkleRoot) + 2 + 1
                               + Len(b.nextKey) + 2
    BY <1>3, <1>4, <1>7
  <1> QED  BY <1>7, <1>8, <1>9, <1>10

-----------------------------------------------------------------------------
(* A Database object and its file.                                         *)

\* The list of a Database object is a chain of blocks, each of them hashed
\* into the next, and its map has exactly the blocks of the list.  The
\* digests get longer from block to block, which is why none comes twice.
GoodDb(d) ==
    /\ d = [filename |-> d.filename, digests |-> d.digests, blocks |-> d.blocks]
    /\ d.filename \in File
    /\ d.digests \in Seq(Seq(Int))
    /\ d.blocks \in [ToSet(d.digests) -> Block]
    /\ \A x \in ToSet(d.digests) : ~d.blocks[x].mutable /\ GetDigest(d.blocks[x]) = x
    /\ \A i \in 2 .. Len(d.digests) :
          d.blocks[d.digests[i]].prevBlockDigest = d.digests[i - 1]
    /\ \A i, j \in DOMAIN d.digests : i < j => Len(d.digests[i]) < Len(d.digests[j])

\* A file that a good list was written to can be read exactly if the list is
\* not empty and all its blocks are whole, and what is read is the list, with
\* the same blocks.
LEMMA JsonRoundTrip ==
    ASSUME NEW d, GoodDb(d), NEW f \in File, files[f] = ToJson(d)
    PROVE  /\ Readable(files[f]) <=>
                d.digests # <<>> /\ \A x \in ToSet(d.digests) : Whole(d.blocks[x])
           /\ Readable(files[f]) =>
                FromJson(f) = [filename |-> f, digests |-> d.digests, blocks |-> d.blocks]
  <1> DEFINE n == Len(d.digests)
             ds == d.digests
             chain == files[f].blockchain
  <1>1. ds \in Seq(Seq(Int)) /\ n \in Nat /\ DOMAIN ds = 1 .. n
    BY DEF GoodDb
  <1>2. CASE ds = <<>>
    <2>1. files[f].state = "null"
      BY <1>2 DEF ToJson
    <2> QED  BY <1>2, <2>1 DEF Readable
  <1>3. CASE ds # <<>>
    <2>1. /\ files[f].state = "chain"
          /\ chain = [i \in DOMAIN ds |-> [digest |-> ds[i],
                                           block |-> BlockToString(d.blocks[ds[i]])]]
      BY <1>3 DEF ToJson
    <2>2. DOMAIN chain = 1 .. n /\ n # 0
      BY <1>1, <1>3, <2>1
    <2>3. \A i \in 1 .. n : /\ chain[i].digest = ds[i]
                            /\ chain[i].block = BlockToString(d.blocks[ds[i]])
      BY <1>1, <2>1
    <2>4. \A i \in 1 .. n : ds[i] \in ToSet(ds)
      BY <1>1, InToSet
    <2>5. \A x \in ToSet(ds) : \E i \in 1 .. n : ds[i] = x
      BY <1>1, InToSet
    <2>6. \A x \in ToSet(ds) : d.blocks[x] \in Block /\ ~d.blocks[x].mutable
      BY DEF GoodDb
    <2>7. \A x \in ToSet(ds) : BlockLoads(BlockToString(d.blocks[x])) <=> Whole(d.blocks[x])
      BY <2>6, BlockRoundTrip
    <2>8. Readable(files[f]) <=> \A i \in 1 .. n : BlockLoads(chain[i].block)
      BY <2>1, <2>2 DEF Readable
    <2> HIDE DEF chain, ds, n
    <2>9. Readable(files[f]) <=> \A x \in ToSet(ds) : Whole(d.blocks[x])
      BY <2>3, <2>4, <2>5, <2>7, <2>8
    <2>10. ASSUME Readable(files[f])
           PROVE  FromJson(f) = [filename |-> f, digests |-> ds, blocks |-> d.blocks]
      <3> DEFINE at(x) == SelectLastInSeq(chain, LAMBDA e : e.digest = x)
                 read == [i \in DOMAIN chain |-> chain[i].digest]
      <3>1. read = ds
        <4>1. read = [i \in 1 .. n |-> ds[i]]
          BY <2>2, <2>3
        <4>2. ds = [i \in 1 .. n |-> ds[i]]
          BY <1>1
        <4> QED  BY <4>1, <4>2
      <3>2. ASSUME NEW x \in ToSet(ds)
            PROVE  BlockFromString(chain[at(x)].block) = d.blocks[x]
        <4> DEFINE I == {i \in 1 .. Len(chain) : chain[i].digest = x}
        <4>1. Len(chain) = n
          BY <1>1, <2>1 DEF ds, n
        <4>2. I # {}
          BY <2>3, <2>5, <4>1
        <4>3. Max(I) \in I
          BY <1>1, <4>1, <4>2, MaxIsIn
        <4>4. at(x) = Max(I)
          BY <4>2 DEF SelectLastInSeq
        <4>5. at(x) \in 1 .. n /\ chain[at(x)].digest = x
          BY <4>1, <4>3, <4>4
        <4> HIDE DEF at
        <4>6. chain[at(x)].block = BlockToString(d.blocks[x])
          BY <2>3, <4>5
        <4>7. BlockFromString(BlockToString(d.blocks[x])) = d.blocks[x]
          BY <2>6, <2>9, <2>10, BlockRoundTrip
        <4> QED  BY <4>6, <4>7
      <3>3. FromJson(f) = [filename |-> f, digests |-> read,
                           blocks |-> [x \in ToSet(read) |->
                                         BlockFromString(chain[at(x)].block)]]
        BY DEF FromJson, chain
      <3>4. [x \in ToSet(ds) |-> BlockFromString(chain[at(x)].block)]
              = [x \in ToSet(ds) |-> d.blocks[x]]
        BY <3>2
      <3>5. d.blocks = [x \in ToSet(ds) |-> d.blocks[x]]
        BY DEF GoodDb, ds
      <3> HIDE DEF at, read
      <3> QED  BY <3>1, <3>3, <3>4, <3>5
    <2> QED  BY <1>3, <2>9, <2>10 DEF ds
  <1> QED  BY <1>2, <1>3

\* addBlock keeps the chain: the new digest is longer than the one it follows,
\* so it is none of those in the list and replaces no block in the map.
LEMMA WithBlockGood ==
    ASSUME NEW d, GoodDb(d), NEW b \in Block, ~b.mutable, Extends(d, b)
    PROVE  /\ GoodDb(WithBlock(d, b))
           /\ WithBlock(d, b).filename = d.filename
           /\ WithBlock(d, b).digests = Append(d.digests, GetDigest(b))
           /\ ToSet(WithBlock(d, b).digests) = ToSet(d.digests) \cup {GetDigest(b)}
  <1> DEFINE ds == d.digests
             n == Len(ds)
             g == GetDigest(b)
             es == Append(ds, g)
             bs == Joined([x \in {g} |-> b], d.blocks)
             new == [filename |-> d.filename, digests |-> es, blocks |-> bs]
  <1>1. ds \in Seq(Seq(Int)) /\ n \in Nat /\ DOMAIN ds = 1 .. n
    BY DEF GoodDb
  <1>2. g \in Seq(Int) /\ Len(g) > Len(b.prevBlockDigest)
    BY DigestType
  <1> HIDE DEF g
  <1>3. /\ es \in Seq(Seq(Int)) /\ Len(es) = n + 1 /\ DOMAIN es = 1 .. n + 1
        /\ es[n + 1] = g
        /\ \A i \in 1 .. n : es[i] = ds[i]
    BY <1>1, <1>2
  <1>4. ToSet(es) = ToSet(ds) \cup {g}
    <2>1. \A x : x \in ToSet(es) <=> \E i \in 1 .. n + 1 : es[i] = x
      BY <1>3 DEF ToSet
    <2>2. \A x : x \in ToSet(ds) <=> \E i \in 1 .. n : ds[i] = x
      BY <1>1 DEF ToSet
    <2>3. \A i \in 1 .. n + 1 : i = n + 1 \/ i \in 1 .. n
      BY <1>1
    <2>4. n + 1 \in 1 .. n + 1 /\ \A i \in 1 .. n : i \in 1 .. n + 1
      BY <1>1
    <2> HIDE DEF es, ds, n
    <2>5. ASSUME NEW x \in ToSet(es) PROVE x \in ToSet(ds) \cup {g}
      BY <1>3, <2>1, <2>2, <2>3
    <2>6. ASSUME NEW x \in ToSet(ds) PROVE x \in ToSet(es)
      BY <1>3, <2>1, <2>2, <2>4
    <2>7. g \in ToSet(es)
      BY <1>3, <2>1, <2>4
    <2> QED  BY <2>5, <2>6, <2>7
  <1>5. WithBlock(d, b) = new
    <2>1. d = [filename |-> d.filename, digests |-> d.digests, blocks |-> d.blocks]
      BY DEF GoodDb
    <2>2. ASSUME NEW r, NEW x1, NEW x2, NEW x3, NEW y2, NEW y3,
                 r = [filename |-> x1, digests |-> x2, blocks |-> x3]
          PROVE  [r EXCEPT !.digests = y2, !.blocks = y3]
                   = [filename |-> x1, digests |-> y2, blocks |-> y3]
      <3>1. PICK s : s = [filename |-> x1, digests |-> y2, blocks |-> x3]
        OBVIOUS
      <3>2. [r EXCEPT !.digests = y2] = s
        BY <2>2, <3>1
      <3>3. [s EXCEPT !.blocks = y3] = [filename |-> x1, digests |-> y2, blocks |-> y3]
        BY <3>1
      <3>4. [r EXCEPT !.digests = y2, !.blocks = y3]
              = [[r EXCEPT !.digests = y2] EXCEPT !.blocks = y3]
        OBVIOUS
      <3> QED  BY <3>2, <3>3, <3>4
    <2>3. WithBlock(d, b) = [d EXCEPT !.digests = es, !.blocks = bs]
      BY DEF WithBlock, g
    <2> HIDE DEF es, bs
    <2> QED  BY <2>1, <2>2, <2>3
  <1>6. \A i \in 1 .. n : Len(ds[i]) < Len(g)
    <2> SUFFICES ASSUME NEW i \in 1 .. n PROVE Len(ds[i]) < Len(g)
      OBVIOUS
    <2>1. ds # <<>> /\ n \in 1 .. n /\ ds[n] \in Seq(Int) /\ ds[i] \in Seq(Int)
      BY <1>1
    <2>2. ds[n] = b.prevBlockDigest
      BY <2>1 DEF Extends, Last
    <2>3. i < n => Len(ds[i]) < Len(ds[n])
      BY <1>1, <2>1 DEF GoodDb
    <2>4. Len(ds[n]) < Len(g) /\ Len(ds[n]) \in Nat /\ Len(ds[i]) \in Nat /\ Len(g) \in Nat
      BY <1>2, <2>1, <2>2
    <2>5. i = n \/ i < n
      BY <1>1
    <2> QED  BY <2>3, <2>4, <2>5
  <1>7. g \notin ToSet(ds)
    <2>1. ASSUME g \in ToSet(ds) PROVE FALSE
      <3>1. PICK i \in 1 .. n : ds[i] = g
        BY <1>1, <2>1, InToSet
      <3>2. Len(g) < Len(g) /\ Len(g) \in Nat
        BY <1>2, <1>6, <3>1
      <3> QED  BY <3>2
    <2> QED  BY <2>1
  <1>8. d.blocks \in [ToSet(ds) -> Block]
    BY DEF GoodDb
  <1>9. /\ DOMAIN bs = ToSet(es)
        /\ bs[g] = b
        /\ \A x \in ToSet(ds) : bs[x] = d.blocks[x]
    BY <1>4, <1>7, <1>8 DEF Joined
  <1>10. bs \in [ToSet(es) -> Block]
    <2>1. bs = [x \in DOMAIN bs |-> bs[x]]
      BY DEF Joined
    <2>2. \A x \in ToSet(es) : bs[x] \in Block
      BY <1>4, <1>8, <1>9
    <2> HIDE DEF bs, es
    <2> QED  BY <1>9, <2>1, <2>2
  <1>11. \A x \in ToSet(es) : ~bs[x].mutable /\ GetDigest(bs[x]) = x
    <2>1. \A x \in ToSet(ds) : ~d.blocks[x].mutable /\ GetDigest(d.blocks[x]) = x
      BY DEF GoodDb
    <2>2. GetDigest(b) = g
      BY DEF g
    <2> HIDE DEF bs, es, ds
    <2> QED  BY <1>4, <1>9, <2>1, <2>2
  <1>12. ASSUME NEW i \in 2 .. Len(es)
         PROVE  bs[es[i]].prevBlockDigest = es[i - 1]
    <2>1. CASE i = n + 1
      <3>1. ds # <<>> /\ n \in 1 .. n /\ i - 1 = n
        BY <1>1, <1>3, <2>1
      <3>2. ds[n] = b.prevBlockDigest
        BY <3>1 DEF Extends, Last
      <3> HIDE DEF bs, es, ds, n
      <3> QED  BY <1>3, <1>9, <2>1, <3>1, <3>2
    <2>2. CASE i # n + 1
      <3>1. i \in 2 .. n /\ i \in 1 .. n /\ i - 1 \in 1 .. n
        BY <1>1, <1>3, <2>2
      <3>2. d.blocks[ds[i]].prevBlockDigest = ds[i - 1]
        BY <3>1 DEF GoodDb
      <3>3. ds[i] \in ToSet(ds)
        BY <1>1, <3>1, InToSet
      <3>4. bs[ds[i]] = d.blocks[ds[i]]
        BY <1>9, <3>3
      <3>5. es[i] = ds[i] /\ es[i - 1] = ds[i - 1]
        BY <1>3, <3>1
      <3> HIDE DEF bs, es, ds, n
      <3> QED  BY <3>2, <3>4, <3>5
    <2> QED  BY <2>1, <2>2
  <1>13. ASSUME NEW i \in DOMAIN es, NEW j \in DOMAIN es, i < j
         PROVE  Len(es[i]) < Len(es[j])
    <2>1. i \in 1 .. n
      <3>1. i \in 1 .. n + 1 /\ j \in 1 .. n + 1
        BY <1>3
      <3> HIDE DEF es, ds, n
      <3> QED  BY <1>1, <1>13, <3>1
    <2>2. CASE j = n + 1
      <3> HIDE DEF es, ds, n
      <3> QED  BY <1>3, <1>6, <2>1, <2>2
    <2>3. CASE j # n + 1
      <3>1. j \in 1 .. n
        <4>1. j \in 1 .. n + 1
          BY <1>3
        <4> HIDE DEF es, ds, n
        <4> QED  BY <1>1, <2>3, <4>1
      <3>2. Len(ds[i]) < Len(ds[j])
        BY <1>1, <1>13, <2>1, <3>1 DEF GoodDb
      <3> HIDE DEF es, ds, n
      <3> QED  BY <1>3, <2>1, <3>1, <3>2
    <2> QED  BY <2>2, <2>3
  <1>14. d.filename \in File
    BY DEF GoodDb
  <1>15. new.filename = d.filename /\ new.digests = es /\ new.blocks = bs
    OBVIOUS
  <1>16. GoodDb(new)
    <2> HIDE DEF bs, es, ds, n
    <2>1. new = [filename |-> new.filename, digests |-> new.digests, blocks |-> new.blocks]
      OBVIOUS
    <2> HIDE DEF new
    <2> QED  BY <1>3, <1>10, <1>11, <1>12, <1>13, <1>14, <1>15, <2>1 DEF GoodDb
  <1> HIDE DEF new
  <1> QED  BY <1>4, <1>5, <1>15, <1>16 DEF es, ds, g

-----------------------------------------------------------------------------
(* The block in the writer's hands.                                        *)

\* There is at most one, and it is a block.
BlkOK == blk = <<>> \/ \E b \in Block : blk = <<b>>

\* The counters are in their bounds.
CountsOK ==
    /\ txs \in 0 .. MaxTxs
    /\ blocks \in 0 .. MaxBlocks
    /\ keys \in 0 .. MaxKeys
    /\ opens \in 0 .. MaxOpens
    /\ faults \in 0 .. MaxFaults

storeVars == <<db, files, saving, acked, blind, overwritten, mute>>

\* A block that is in hand.
LEMMA InHand ==
    ASSUME BlkOK, blk # <<>>
    PROVE  blk[1] \in Block /\ blk = <<blk[1]>>
  BY DEF BlkOK

\* A list may be empty.
LEMMA EmptyLists == /\ <<>> \in Seq(Int) /\ <<>> \in Seq(Tx) /\ <<>> \in Seq(SigRecord)
  OBVIOUS

\* A field is given another value of its type.
LEMMA FieldSet ==
    ASSUME NEW b \in Block
    PROVE  /\ \A v \in Seq(Int) : [b EXCEPT !.validatorSig = v] \in Block
           /\ \A v \in Seq(Int) : [b EXCEPT !.nextKey = v] \in Block
           /\ \A v \in 0 .. 9 : [b EXCEPT !.validatorID = v] \in Block
           /\ \A v \in Seq(SigRecord) : [b EXCEPT !.validatorSigs = v] \in Block
  BY DEF Block, BlockRecord

\* A constructor makes a block.
LEMMA NewBlockOK ==
    ASSUME NEW prev \in Seq(Int), NEW junk \in Junk, NewBlock(prev, junk)
    PROVE  BlkOK'
  <1> DEFINE b == [prevBlockDigest |-> prev, merkleRoot |-> <<>>, txs |-> <<>>,
                   validatorSig |-> <<>>, validatorID |-> junk, nextKey |-> <<>>,
                   validatorSigs |-> <<>>, mutable |-> TRUE]
  <1>1. junk \in 0 .. 9
    BY DatabaseAssumption
  <1>2. b \in Block
    BY <1>1, EmptyLists DEF Block, BlockRecord
  <1>3. blk' = <<b>>
    BY DEF NewBlock
  <1> QED  BY <1>2, <1>3 DEF BlkOK

\* addTransaction.
LEMMA AddTransactionOK ==
    ASSUME BlkOK, CountsOK, NEW s \in Shape, AddTransaction(s)
    PROVE  BlkOK'
  <1> DEFINE tx == [txID |-> txs, senderID |-> 1, senderSig |-> <<1>>,
                    inputs |-> s.inputs, outputs |-> s.outputs,
                    publicKey |-> s.publicKey]
  <1>1. PICK b \in Block : blk = <<b>>
    BY InHand DEF AddTransaction
  <1>2. tx \in Tx
    BY DatabaseAssumption DEF CountsOK, Tx
  <1> HIDE DEF tx
  <1>3. blk' = <<[b EXCEPT !.txs = Append(@, tx)]>>
    <2>1. blk' = [blk EXCEPT ![1].txs = Append(@, tx)]
      BY DEF AddTransaction, tx
    <2> QED  BY <1>1, <2>1
  <1>4. Append(b.txs, tx) \in Seq(Tx)
    BY <1>2 DEF Block, BlockRecord
  <1>5. b.mutable
    BY <1>1 DEF AddTransaction
  <1>6. [b EXCEPT !.txs = Append(@, tx)] \in Block
    <2>1. PICK t \in Seq(Tx) : t = Append(b.txs, tx)
      BY <1>4
    <2>2. PICK c : c = [b EXCEPT !.txs = t]
      OBVIOUS
    <2>3. c \in BlockRecord /\ c.mutable
      BY <1>5, <2>2 DEF Block, BlockRecord
    <2>4. c \in Block
      BY <2>3 DEF Block
    <2> QED  BY <2>1, <2>2, <2>4
  <1> QED  BY <1>3, <1>6 DEF BlkOK

\* finalize.
LEMMA FinalizeOK ==
    ASSUME BlkOK, Finalize
    PROVE  BlkOK'
  <1>1. PICK b \in Block : blk = <<b>>
    BY InHand DEF Finalize
  <1> DEFINE r == CalculateMerkleRoot(b.txs)
             c == [b EXCEPT !.mutable = FALSE, !.merkleRoot = r]
  <1>2. r \in Seq(Int)
    BY MerkleRootType DEF Block, BlockRecord
  <1>3. CalculateMerkleRoot(blk[1].txs) = r
    BY <1>1
  <1> HIDE DEF r
  <1>4. blk' = [blk EXCEPT ![1].mutable = FALSE, ![1].merkleRoot = r]
    BY <1>3 DEF Finalize
  <1>5. blk' = <<c>>
    BY <1>1, <1>4
  <1>6. c \in Block
    <2>1. b \in BlockRecord
      BY DEF Block
    <2>2. /\ c \in BlockRecord /\ c.merkleRoot = r /\ c.txs = b.txs
      BY <1>2, <2>1 DEF BlockRecord
    <2> HIDE DEF c
    <2> QED  BY <2>2 DEF Block, r
  <1> QED  BY <1>5, <1>6 DEF BlkOK

\* sign.
LEMMA SignOK ==
    ASSUME BlkOK, CountsOK, Sign(2)
    PROVE  BlkOK'
  <1>1. PICK b \in Block : blk = <<b>>
    BY InHand DEF Sign
  <1>2. keys \in Nat /\ keys + 1 \in Int /\ keys \in Int
    BY DatabaseAssumption DEF CountsOK
  <1> DEFINE c == [b EXCEPT !.validatorID = 2, !.nextKey = <<keys + 1>>]
             sig == SignDigest(GetDigest(c), <<keys>>)
  <1>3. c \in Block
    <2>1. PICK b1 : b1 = [b EXCEPT !.validatorID = 2]
      OBVIOUS
    <2>2. b1 \in Block
      <3>1. PICK v \in 0 .. 9 : v = 2
        OBVIOUS
      <3>2. [b EXCEPT !.validatorID = v] \in Block
        BY FieldSet
      <3> QED  BY <2>1, <3>1, <3>2
    <2>3. PICK k \in Seq(Int) : k = <<keys + 1>>
      <3>1. <<keys + 1>> \in Seq(Int)
        BY <1>2
      <3> QED  BY <3>1, Zenon
    <2>4. [b1 EXCEPT !.nextKey = k] \in Block
      BY <2>2, FieldSet
    <2>5. c = [b1 EXCEPT !.nextKey = k]
      BY <2>1, <2>3
    <2> QED  BY <2>4, <2>5
  <1>4. blk' = <<[c EXCEPT !.validatorSig = sig]>>
    BY <1>1 DEF Sign
  <1> HIDE DEF c
  <1>5. sig \in Seq(Int)
    <2>1. GetDigest(c) \in Seq(Int)
      BY <1>3, DigestType
    <2>2. <<keys>> \in Seq(Int)
      BY <1>2
    <2>3. \A s \in Seq(Int), t \in Seq(Int) : s \o t \in Seq(Int)
      OBVIOUS
    <2>4. <<>> \in Seq(Int)
      OBVIOUS
    <2> QED  BY <2>1, <2>2, <2>3, <2>4 DEF SignDigest
  <1> HIDE DEF sig
  <1>6. [c EXCEPT !.validatorSig = sig] \in Block
    BY <1>3, <1>5 DEF Block, BlockRecord
  <1> QED  BY <1>4, <1>6 DEF BlkOK

\* addValidatorSignature.
LEMMA AddValidatorSignatureOK ==
    ASSUME BlkOK, AddValidatorSignature
    PROVE  BlkOK'
  <1>1. PICK b \in Block : blk = <<b>>
    BY InHand DEF AddValidatorSignature
  <1> DEFINE s == [validatorID |-> b.validatorID, signature |-> b.validatorSig,
                   publicKey |-> b.nextKey]
  <1>2. s \in SigRecord
    BY DEF Block, BlockRecord, SigRecord
  <1>3. blk' = [blk EXCEPT ![1].validatorSigs = Append(@, s)]
    BY <1>1 DEF AddValidatorSignature
  <1> HIDE DEF s
  <1>4. blk' = <<[b EXCEPT !.validatorSigs = Append(@, s)]>>
    BY <1>1, <1>3
  <1>5. Append(b.validatorSigs, s) \in Seq(SigRecord)
    BY <1>2 DEF Block, BlockRecord
  <1>6. [b EXCEPT !.validatorSigs = Append(@, s)] \in Block
    BY <1>5 DEF Block, BlockRecord
  <1> QED  BY <1>4, <1>6 DEF BlkOK

\* removeSignatures.
LEMMA RemoveSignaturesOK ==
    ASSUME BlkOK, RemoveSignatures
    PROVE  BlkOK'
  <1>1. PICK b \in Block : blk = <<b>>
    BY InHand DEF RemoveSignatures
  <1> DEFINE c == [b EXCEPT !.validatorSig = <<>>, !.validatorID = 0,
                            !.nextKey = <<>>, !.validatorSigs = <<>>]
  <1>2. blk' = <<c>>
    BY <1>1 DEF RemoveSignatures
  <1>3. c \in Block
    <2>1. PICK b1 : b1 = [b EXCEPT !.validatorSig = <<>>]
      OBVIOUS
    <2>2. PICK b2 : b2 = [b1 EXCEPT !.validatorID = 0]
      OBVIOUS
    <2>3. PICK b3 : b3 = [b2 EXCEPT !.nextKey = <<>>]
      OBVIOUS
    <2>4. b1 \in Block
      BY <2>1, EmptyLists, FieldSet
    <2>5. b2 \in Block
      <3>1. PICK v \in 0 .. 9 : v = 0
        OBVIOUS
      <3>2. [b1 EXCEPT !.validatorID = v] \in Block
        BY <2>4, FieldSet
      <3> QED  BY <2>2, <3>1, <3>2
    <2>6. b3 \in Block
      BY <2>3, <2>5, EmptyLists, FieldSet
    <2>7. [b3 EXCEPT !.validatorSigs = <<>>] \in Block
      BY <2>6, EmptyLists, FieldSet
    <2>8. c = [b3 EXCEPT !.validatorSigs = <<>>]
      BY <2>1, <2>2, <2>3
    <2> QED  BY <2>7, <2>8
  <1> QED  BY <1>2, <1>3 DEF BlkOK

\* What a message makes of the block.
LEMMA ReceivedBlock ==
    ASSUME BlkOK, Receive
    PROVE  /\ blk[1] \in Block
           /\ blk' = <<[blk[1] EXCEPT !.validatorSigs = <<>>]>>
           /\ [blk[1] EXCEPT !.validatorSigs = <<>>] \in Block
  <1>1. PICK b \in Block : blk = <<b>>
    BY InHand DEF Receive
  <1>2. ~b.mutable /\ blk[1] = b
    BY <1>1 DEF Receive, BlockSends
  <1>3. blk' = <<BlockFromProto(BlockToProto(b))>>
    BY <1>2 DEF Receive
  <1>4. BlockFromProto(BlockToProto(b)) = [b EXCEPT !.validatorSigs = <<>>]
    BY <1>2, WireBlock
  <1>5. [b EXCEPT !.validatorSigs = <<>>] \in Block
    BY EmptyLists DEF Block, BlockRecord
  <1> QED  BY <1>2, <1>3, <1>4, <1>5

-----------------------------------------------------------------------------
(* The invariant of the objects, the files and the call of save.           *)

\* What db[p] may be: nothing, or a good list.
Object(o) == o = <<>> \/ \E d : GoodDb(d) /\ o = <<d>>

\* What a file may hold when the blocks with digests a are acknowledged: it
\* has never been written, or it is torn, or it has a good list with all of
\* those blocks.
Content(c, a) ==
    \/ c = Missing /\ a = {}
    \/ c = Torn
    \/ \E d : GoodDb(d) /\ c = ToJson(d) /\ a \subseteq ToSet(d.digests)

\* The file with content c has what list d has.
Synced(d, c) == c = ToJson(d) \/ (c = Missing /\ d.digests = <<>>)

Maps == /\ db = [p \in Process |-> db[p]]
        /\ files = [f \in File |-> files[f]]
        /\ acked = [f \in File |-> acked[f]]

Objects == \A p \in Process : Object(db[p])

\* The blocks that a file owes to its readers.
Owed(f) == IF f \in overwritten THEN {} ELSE acked[f]

Contents == \A f \in File : Content(files[f], Owed(f))

\* The list d may lack acknowledged blocks of its file.
Excused(d) == Writer \in blind \/ d.filename \in overwritten

\* The writer's list has every acknowledged block of its file, unless an open
\* has failed; and the file has what the list has, or will when the call of
\* save has ended, unless the write or the open has failed.
Current ==
    db[Writer] # <<>> =>
        LET d == db[Writer][1]
        IN  /\ Excused(d) \/ acked[d.filename] \subseteq ToSet(d.digests)
            /\ \/ Synced(d, files[d.filename])
               \/ saving # <<>> /\ saving[1].file = d.filename
               \/ d.filename \in mute
               \/ Writer \in blind /\ d.digests = <<>>

\* s is a call of save with list d; when it has opened its file, that is torn.
IsCall(s, d) ==
    /\ s \in [file : File, json : {ToJson(d)}, opened : BOOLEAN, acks : {s.acks}]
    /\ s.opened => files[s.file] = Torn
    /\ \/ s.acks \subseteq ToSet(d.digests)
       \/ s.file = d.filename /\ Excused(d)

\* The call of save is one of the writer, writes its list, and acknowledges
\* no block that is not in it, unless an open has failed.
Pending ==
    saving # <<>> =>
        db[Writer] # <<>> /\ \E s : IsCall(s, db[Writer][1]) /\ saving = <<s>>

\* The history variables have their types.
Histories ==
    /\ blind \subseteq {p \in Process : db[p] # <<>>}
    /\ overwritten \subseteq File /\ mute \subseteq File

StoreInv == Maps /\ Objects /\ Contents /\ Current /\ Pending /\ Histories

\* A step that leaves all of this alone.
LEMMA SameStore == StoreInv /\ UNCHANGED storeVars => StoreInv'
  BY DEF StoreInv, storeVars, Maps, Objects, Contents, Owed, Current, Pending, IsCall,
         Excused, Histories

\* The object that a process has.
LEMMA HasObject ==
    ASSUME NEW o, Object(o), o # <<>>
    PROVE  GoodDb(o[1]) /\ o = <<o[1]>>
  BY DEF Object

\* A good list is one under every name of a file, and written in the same way.
LEMMA OtherName ==
    ASSUME NEW d, GoodDb(d), NEW f \in File
    PROVE  LET e == [filename |-> f, digests |-> d.digests, blocks |-> d.blocks]
           IN  GoodDb(e) /\ ToJson(e) = ToJson(d)
  <1> DEFINE e == [filename |-> f, digests |-> d.digests, blocks |-> d.blocks]
  <1>1. e.filename = f /\ e.digests = d.digests /\ e.blocks = d.blocks
    OBVIOUS
  <1>2. e = [filename |-> e.filename, digests |-> e.digests, blocks |-> e.blocks]
    OBVIOUS
  <1> HIDE DEF e
  <1>3. GoodDb(e)
    BY <1>1, <1>2 DEF GoodDb
  <1>4. ToJson(e) = ToJson(d)
    BY <1>1 DEF ToJson
  <1> QED  BY <1>3, <1>4 DEF e

\* A list with no blocks, which is what a missing file is read as.
LEMMA EmptyIsGood ==
    ASSUME NEW f \in File, NEW bs, bs = [x \in {} |-> x]
    PROVE  GoodDb([filename |-> f, digests |-> <<>>, blocks |-> bs])
  <1> DEFINE e == [filename |-> f, digests |-> <<>>, blocks |-> bs]
  <1>1. e.filename = f /\ e.digests = <<>> /\ e.blocks = bs
    OBVIOUS
  <1>2. e = [filename |-> e.filename, digests |-> e.digests, blocks |-> e.blocks]
    OBVIOUS
  <1>3. ToSet(<<>>) = {}
    BY DEF ToSet
  <1>4. bs \in [ToSet(<<>>) -> Block]
    BY <1>3
  <1>5. <<>> \in Seq(Seq(Int)) /\ Len(<<>>) = 0 /\ DOMAIN <<>> = {}
    OBVIOUS
  <1>6. 2 .. 0 = {}
    OBVIOUS
  <1> HIDE DEF e
  <1> QED  BY <1>1, <1>2, <1>3, <1>4, <1>5, <1>6 DEF GoodDb, e

\* What is read from a file is good, has every block that was acknowledged,
\* and is what the file has.
LEMMA ReadIsGood ==
    ASSUME Contents, NEW f \in File, Readable(files[f])
    PROVE  /\ GoodDb(FromJson(f))
           /\ FromJson(f).filename = f
           /\ Owed(f) \subseteq ToSet(FromJson(f).digests)
           /\ Synced(FromJson(f), files[f])
  <1>1. Content(files[f], Owed(f))
    BY DEF Contents
  <1>2. CASE files[f] = Missing /\ Owed(f) = {}
    <2> DEFINE chain == files[f].blockchain
    <2>1. chain = <<>>
      BY <1>2 DEF Missing
    <2>2. FromJson(f) = [filename |-> f, digests |-> <<>>, blocks |-> [x \in {} |-> x]]
      <3>1. [i \in DOMAIN chain |-> chain[i].digest] = <<>>
        BY <2>1
      <3>2. ToSet(<<>>) = {}
        BY DEF ToSet
      <3>3. [d \in ToSet(<<>>) |->
               BlockFromString(chain[SelectLastInSeq(chain, LAMBDA e : e.digest = d)].block)]
             = [x \in {} |-> x]
        BY <3>2
      <3> QED  BY <3>1, <3>3 DEF FromJson
    <2>3. FromJson(f).filename = f /\ FromJson(f).digests = <<>>
      BY <2>2
    <2> QED  BY <1>2, <2>2, <2>3, EmptyIsGood DEF Synced
  <1>3. CASE files[f] = Torn
    BY <1>3 DEF Readable, Torn
  <1>4. ASSUME NEW d, GoodDb(d), files[f] = ToJson(d), Owed(f) \subseteq ToSet(d.digests)
        PROVE  /\ GoodDb(FromJson(f))
               /\ FromJson(f).filename = f
               /\ Owed(f) \subseteq ToSet(FromJson(f).digests)
               /\ Synced(FromJson(f), files[f])
    <2>1. FromJson(f) = [filename |-> f, digests |-> d.digests, blocks |-> d.blocks]
      BY <1>4, JsonRoundTrip
    <2>2. FromJson(f).filename = f /\ FromJson(f).digests = d.digests
      BY <2>1
    <2>3. GoodDb(FromJson(f)) /\ ToJson(FromJson(f)) = ToJson(d)
      BY <1>4, <2>1, OtherName
    <2> QED  BY <1>4, <2>2, <2>3 DEF Synced
  <1> QED  BY <1>1, <1>2, <1>3, <1>4 DEF Content

-----------------------------------------------------------------------------
(* The steps of the processes.                                             *)

\* A list that p reads from f, or starts with when f cannot be opened, keeps
\* the invariant.
LEMMA ReadsStep ==
    ASSUME StoreInv, NEW p \in Process, NEW f \in File, NEW d, NEW failed \in BOOLEAN,
           Reads(p, d, failed), p = Writer => saving = <<>>,
           GoodDb(d), d.filename = f,
           failed => d.digests = <<>>,
           ~failed => Owed(f) \subseteq ToSet(d.digests) /\ Synced(d, files[f])
    PROVE  /\ StoreInv'
           /\ \A q \in Process : q # p => db'[q] = db[q]
           /\ p \in blind' \/ f \in overwritten' \/ acked'[f] \subseteq ToSet(d.digests)
           /\ db'[p] = <<d>>
  <1>2. /\ db' = [db EXCEPT ![p] = <<d>>]
        /\ files' = files /\ saving' = saving /\ acked' = acked
        /\ overwritten' = overwritten /\ mute' = mute
        /\ blind' = IF failed THEN blind \cup {p} ELSE blind \ {p}
    BY DEF Reads
  <1>3. /\ db' = [q \in Process |-> db'[q]]
        /\ db'[p] = <<d>>
        /\ \A q \in Process : q # p => db'[q] = db[q]
    BY <1>2 DEF StoreInv, Maps
  <1>4. Maps'
    BY <1>2, <1>3 DEF StoreInv, Maps
  <1>5. Objects'
    <2>1. Object(<<d>>)
      BY DEF Object
    <2> QED  BY <1>3, <2>1 DEF StoreInv, Objects
  <1>6. Contents'
    BY <1>2 DEF StoreInv, Contents, Owed
  <1>7. Writer \in Process
    BY DatabaseAssumption
  <1>8. Current'
    <2>1. CASE p = Writer
      <3>1. db'[Writer][1] = d
        BY <1>3, <2>1
      <3>2. CASE failed
        <4>1. Writer \in blind' /\ d.digests = <<>>
          BY <1>2, <2>1, <3>2
        <4> QED  BY <3>1, <4>1 DEF Current, Excused
      <3>3. CASE ~failed
        <4>1. Synced(d, files'[d.filename])
          BY <1>2, <3>3
        <4>2. d.filename \in overwritten' \/ acked'[d.filename] \subseteq ToSet(d.digests)
          BY <1>2, <3>3 DEF Owed
        <4> QED  BY <3>1, <4>1, <4>2 DEF Current, Excused
      <3> QED  BY <3>2, <3>3
    <2>2. CASE p # Writer
      <3>1. db'[Writer] = db[Writer] /\ (Writer \in blind' <=> Writer \in blind)
        BY <1>2, <1>3, <1>7, <2>2
      <3> QED  BY <1>2, <3>1 DEF StoreInv, Current, Excused
    <2> QED  BY <2>1, <2>2
  <1>9. Pending'
    <2>1. CASE p = Writer
      BY <1>2, <2>1 DEF Pending
    <2>2. CASE p # Writer
      <3>1. db'[Writer] = db[Writer] /\ (Writer \in blind' <=> Writer \in blind)
        BY <1>2, <1>3, <1>7, <2>2
      <3> QED  BY <1>2, <3>1 DEF StoreInv, Pending, IsCall, Excused
    <2> QED  BY <2>1, <2>2
  <1>10. Histories'
    BY <1>2, <1>3 DEF StoreInv, Histories
  <1>11. p \in blind' \/ f \in overwritten' \/ acked'[f] \subseteq ToSet(d.digests)
    BY <1>2 DEF Owed
  <1> QED  BY <1>3, <1>4, <1>5, <1>6, <1>8, <1>9, <1>10, <1>11 DEF StoreInv

\* Reading keeps the invariant, and whoever reads has every block that was
\* acknowledged, unless the open failed or the file was overwritten.
LEMMA ReadStep ==
    ASSUME StoreInv, NEW p \in Process, NEW f \in File, Read(p, f) \/ ReadFails(p, f),
           p = Writer => saving = <<>>
    PROVE  /\ StoreInv'
           /\ \A q \in Process : q # p => db'[q] = db[q]
           /\ db'[p] # <<>>
           /\ \/ p \in blind' \/ db'[p][1].filename \in overwritten'
              \/ acked'[db'[p][1].filename] \subseteq ToSet(db'[p][1].digests)
  <1>1. CASE Read(p, f)
    <2> DEFINE d == FromJson(f)
    <2>1. /\ GoodDb(d) /\ d.filename = f
          /\ Owed(f) \subseteq ToSet(d.digests) /\ Synced(d, files[f])
      BY <1>1, ReadIsGood DEF StoreInv, Read
    <2>2. Reads(p, d, FALSE)
      BY <1>1 DEF Read
    <2> HIDE DEF d
    <2>3. /\ StoreInv'
          /\ \A q \in Process : q # p => db'[q] = db[q]
          /\ p \in blind' \/ f \in overwritten' \/ acked'[f] \subseteq ToSet(d.digests)
          /\ db'[p] = <<d>>
      BY <2>1, <2>2, ReadsStep
    <2>4. db'[p] # <<>> /\ db'[p][1] = d
      BY <2>3
    <2> QED  BY <2>1, <2>3, <2>4
  <1>2. CASE ReadFails(p, f)
    <2> DEFINE d == [filename |-> f, digests |-> <<>>, blocks |-> <<>>]
    <2>1. GoodDb(d) /\ d.filename = f /\ d.digests = <<>>
      <3>1. <<>> = [x \in {} |-> x]
        OBVIOUS
      <3> QED  BY <3>1, EmptyIsGood
    <2>2. Reads(p, d, TRUE)
      BY <1>2 DEF ReadFails
    <2> HIDE DEF d
    <2>3. /\ StoreInv'
          /\ \A q \in Process : q # p => db'[q] = db[q]
          /\ p \in blind' \/ f \in overwritten' \/ acked'[f] \subseteq ToSet(d.digests)
          /\ db'[p] = <<d>>
      BY <2>1, <2>2, ReadsStep
    <2>4. db'[p] # <<>> /\ db'[p][1] = d
      BY <2>3
    <2> QED  BY <2>1, <2>3, <2>4
  <1> QED  BY <1>1, <1>2

\* A process that ends takes its list with it, and the call of save.
LEMMA ExitStep ==
    ASSUME StoreInv, NEW p \in Process, Exit(p)
    PROVE  /\ StoreInv'
           /\ db'[p] = <<>>
           /\ \A q \in Process : q # p => db'[q] = db[q]
  <1>1. /\ db' = [db EXCEPT ![p] = <<>>]
        /\ files' = files /\ acked' = acked /\ blind' = blind \ {p}
        /\ overwritten' = overwritten /\ mute' = mute
        /\ p = Writer => saving' = <<>>
        /\ p # Writer => saving' = saving
    BY DEF Exit
  <1>2. /\ db' = [q \in Process |-> db'[q]]
        /\ db'[p] = <<>>
        /\ \A q \in Process : q # p => db'[q] = db[q]
    BY <1>1 DEF StoreInv, Maps
  <1>3. Maps'
    BY <1>1, <1>2 DEF StoreInv, Maps
  <1>4. Objects'
    BY <1>2 DEF StoreInv, Objects, Object
  <1>5. Contents'
    BY <1>1 DEF StoreInv, Contents, Owed
  <1>6. Writer \in Process
    BY DatabaseAssumption
  <1>9. Histories'
    BY <1>1, <1>2 DEF StoreInv, Histories
  <1>7. CASE p = Writer
    <2>1. Current' /\ Pending'
      BY <1>1, <1>2, <1>7 DEF Current, Pending
    <2> QED  BY <1>2, <1>3, <1>4, <1>5, <1>9, <2>1 DEF StoreInv
  <1>8. CASE p # Writer
    <2>1. db'[Writer] = db[Writer] /\ saving' = saving /\ (Writer \in blind' <=> Writer \in blind)
      BY <1>1, <1>2, <1>6, <1>8
    <2>2. Current' /\ Pending'
      BY <1>1, <2>1 DEF StoreInv, Current, Pending, IsCall, Excused
    <2> QED  BY <1>2, <1>3, <1>4, <1>5, <1>9, <2>2 DEF StoreInv
  <1> QED  BY <1>7, <1>8

\* The list that the writer has.
LEMMA WriterHas ==
    ASSUME StoreInv, db[Writer] # <<>>
    PROVE  GoodDb(db[Writer][1]) /\ db[Writer] = <<db[Writer][1]>>
  <1>1. Writer \in Process
    BY DatabaseAssumption
  <1>2. Object(db[Writer])
    BY <1>1 DEF StoreInv, Objects
  <1> QED  BY <1>2, HasObject

\* addBlock puts the block into the list before it is in the file.
LEMMA AddBlockStep ==
    ASSUME StoreInv, BlkOK, AddBlock
    PROVE  StoreInv' /\ blk' = <<>> /\ \A q \in Process : q # Writer => db'[q] = db[q]
  <1>1. PICK d : GoodDb(d) /\ db[Writer] = <<d>> /\ db[Writer][1] = d
    BY WriterHas DEF AddBlock
  <1>2. PICK b \in Block : blk = <<b>> /\ blk[1] = b
    BY InHand DEF AddBlock
  <1>3. ~b.mutable /\ Extends(d, b)
    BY <1>1, <1>2 DEF AddBlock
  <1>4. PICK new : new = WithBlock(d, b)
    OBVIOUS
  <1>5. PICK a : a = acked[d.filename] \cup {GetDigest(b)}
    OBVIOUS
  <1>6. /\ db' = [db EXCEPT ![Writer] = <<new>>]
        /\ saving' = <<[file |-> d.filename, json |-> ToJson(new), opened |-> FALSE,
                        acks |-> a]>>
        /\ blk' = <<>> /\ files' = files /\ acked' = acked
        /\ blind' = blind /\ overwritten' = overwritten /\ mute' = mute
    BY <1>1, <1>2, <1>4, <1>5 DEF AddBlock, histVars
  <1>7. /\ GoodDb(new) /\ new.filename = d.filename
        /\ ToSet(new.digests) = ToSet(d.digests) \cup {GetDigest(b)}
    BY <1>1, <1>3, <1>4, WithBlockGood
  <1>8. Writer \in Process /\ d.filename \in File
    BY <1>1, DatabaseAssumption DEF GoodDb
  <1>9. Excused(d) \/ acked[d.filename] \subseteq ToSet(d.digests)
    BY <1>1 DEF StoreInv, Current
  <1>10. /\ db' = [q \in Process |-> db'[q]]
         /\ db'[Writer] = <<new>>
         /\ \A q \in Process : q # Writer => db'[q] = db[q]
    BY <1>6, <1>8 DEF StoreInv, Maps
  <1>11. Maps'
    BY <1>6, <1>10 DEF StoreInv, Maps
  <1>12. Objects'
    <2>1. Object(<<new>>)
      BY <1>7 DEF Object
    <2> QED  BY <1>10, <2>1 DEF StoreInv, Objects
  <1>13. Contents'
    BY <1>6 DEF StoreInv, Contents, Owed
  <1>14. db'[Writer][1] = new /\ db'[Writer] # <<>>
    BY <1>10
  <1>15. saving' # <<>> /\ saving'[1].file = d.filename
    BY <1>6
  <1>18. Excused(new)' <=> Excused(d)
    BY <1>6, <1>7 DEF Excused
  <1>16. Current'
    <2>1. Excused(new)' \/ acked'[new.filename] \subseteq ToSet(new.digests)
      BY <1>6, <1>7, <1>9, <1>18
    <2> QED  BY <1>7, <1>14, <1>15, <2>1 DEF Current
  <1>17. Pending'
    <2> DEFINE s == [file |-> d.filename, json |-> ToJson(new), opened |-> FALSE, acks |-> a]
    <2>1. a \subseteq ToSet(new.digests) \/ Excused(new)'
      BY <1>5, <1>7, <1>9, <1>18
    <2>2. IsCall(s, new)'
      BY <1>7, <1>8, <2>1 DEF IsCall
    <2>3. saving' = <<s>>
      BY <1>6
    <2> HIDE DEF s
    <2> QED  BY <1>14, <2>2, <2>3 DEF Pending
  <1>19. Histories'
    BY <1>6, <1>10 DEF StoreInv, Histories
  <1> QED  BY <1>6, <1>10, <1>11, <1>12, <1>13, <1>16, <1>17, <1>19 DEF StoreInv

\* save is called for a file.
LEMMA SaveStep ==
    ASSUME StoreInv, NEW f \in File, Save(f)
    PROVE  StoreInv' /\ db' = db
  <1>1. PICK d : GoodDb(d) /\ db[Writer] = <<d>> /\ db[Writer][1] = d
    BY WriterHas DEF Save
  <1>2. /\ saving' = <<[file |-> f, json |-> ToJson(d), opened |-> FALSE,
                        acks |-> ToSet(d.digests)]>>
        /\ db' = db /\ files' = files /\ acked' = acked /\ saving = <<>>
        /\ blind' = blind /\ overwritten' = overwritten /\ mute' = mute
    BY <1>1 DEF Save, histVars
  <1>3. Maps' /\ Objects' /\ Contents' /\ Histories'
    BY <1>2 DEF StoreInv, Maps, Objects, Contents, Owed, Histories
  <1>4. Current'
    BY <1>2 DEF StoreInv, Current, Excused
  <1>5. Pending'
    <2> DEFINE s == [file |-> f, json |-> ToJson(d), opened |-> FALSE,
                     acks |-> ToSet(d.digests)]
    <2>1. IsCall(s, d)'
      BY DEF IsCall
    <2>2. saving' = <<s>>
      BY <1>2
    <2>3. db'[Writer][1] = d /\ db'[Writer] # <<>>
      BY <1>1, <1>2
    <2> HIDE DEF s
    <2> QED  BY <2>1, <2>2, <2>3 DEF Pending
  <1> QED  BY <1>2, <1>3, <1>4, <1>5 DEF StoreInv

\* What the call of save that is under way will write.
LEMMA SavesList ==
    ASSUME StoreInv, saving # <<>>
    PROVE  \E d, s : /\ GoodDb(d) /\ db[Writer] = <<d>> /\ db[Writer][1] = d
                      /\ IsCall(s, d) /\ saving = <<s>>
  <1>1. PICK s : IsCall(s, db[Writer][1]) /\ saving = <<s>>
    BY DEF StoreInv, Pending
  <1>2. GoodDb(db[Writer][1]) /\ db[Writer] = <<db[Writer][1]>>
    BY WriterHas DEF StoreInv, Pending
  <1> QED  BY <1>1, <1>2, Zenon

\* A field of the only element of a list is set.
LEMMA FirstField ==
    ASSUME NEW q, NEW r, NEW v, q = <<r>>
    PROVE  [q EXCEPT ![1].opened = v] = <<[r EXCEPT !.opened = v]>>
  OBVIOUS

\* The call has opened its file.
LEMMA FirstOpened ==
    ASSUME NEW q, NEW r, q = <<r>>
    PROVE  [q EXCEPT ![1].opened = TRUE] = <<[r EXCEPT !.opened = TRUE]>>
  <1>1. \A v : [q EXCEPT ![1].opened = v] = <<[r EXCEPT !.opened = v]>>
    BY FirstField
  <1> QED  BY <1>1, Zenon

\* The file is torn while it is written.
LEMMA SaveOpenStep ==
    ASSUME StoreInv, SaveOpen
    PROVE  StoreInv' /\ db' = db
  <1>1. PICK d, s : /\ GoodDb(d) /\ db[Writer] = <<d>> /\ db[Writer][1] = d
                    /\ IsCall(s, d) /\ saving = <<s>>
    BY SavesList DEF SaveOpen
  <1>2. PICK f \in File : f = s.file /\ saving[1].file = f
    BY <1>1 DEF IsCall
  <1>3. /\ files' = [files EXCEPT ![f] = Torn]
        /\ db' = db /\ acked' = acked
        /\ blind' = blind /\ overwritten' = overwritten /\ mute' = mute
        /\ saving' = [saving EXCEPT ![1].opened = TRUE]
    BY <1>2 DEF SaveOpen, histVars
  <1>5. /\ files' = [g \in File |-> files'[g]]
        /\ files'[f] = Torn
        /\ \A g \in File : g # f => files'[g] = files[g]
    BY <1>1, <1>3 DEF StoreInv, Maps
  <1>4. PICK t : IsCall(t, d)' /\ saving' = <<t>> /\ t.file = f
    <2> DEFINE u == [s EXCEPT !.opened = TRUE]
    <2>0. /\ u \in [file : File, json : {ToJson(d)}, opened : BOOLEAN, acks : {u.acks}]
          /\ u.file = f /\ u.acks = s.acks
      BY <1>1, <1>2 DEF IsCall
    <2>1. IsCall(u, d)' /\ u.file = f
      <3>1. s.acks \subseteq ToSet(d.digests) \/ (f = d.filename /\ Excused(d))
        BY <1>1, <1>2 DEF IsCall
      <3>2. Excused(d)' <=> Excused(d)
        BY <1>3 DEF Excused
      <3> QED  BY <1>5, <2>0, <3>1, <3>2 DEF IsCall
    <2>2. saving' = <<u>>
      <3>1. PICK q : q = saving
        OBVIOUS
      <3>2. q = <<s>> /\ saving' = [q EXCEPT ![1].opened = TRUE]
        BY <1>1, <1>3, <3>1
      <3>3. [q EXCEPT ![1].opened = TRUE] = <<[s EXCEPT !.opened = TRUE]>>
        BY <3>2, FirstOpened
      <3> QED  BY <3>2, <3>3
    <2> HIDE DEF u
    <2> QED  BY <2>1, <2>2
  <1>6. Maps' /\ Objects' /\ Histories'
    BY <1>3, <1>5 DEF StoreInv, Maps, Objects, Histories
  <1>7. Contents'
    <2>1. \A x : Content(Torn, x)
      BY DEF Content
    <2> QED  BY <1>3, <1>5, <2>1 DEF StoreInv, Contents, Owed
  <1>8. saving' # <<>> /\ saving'[1].file = f
    BY <1>4
  <1>9. Current'
    <2>1. d.filename \in File
      BY <1>1 DEF GoodDb
    <2>2. CASE d.filename = f
      BY <1>1, <1>3, <1>8, <2>2 DEF StoreInv, Current, Excused
    <2>3. CASE d.filename # f
      <3>1. files'[d.filename] = files[d.filename]
        BY <1>5, <2>1, <2>3
      <3>2. /\ \/ Synced(d, files[d.filename]) \/ d.filename \in mute
               \/ Writer \in blind /\ d.digests = <<>>
            /\ Excused(d) \/ acked[d.filename] \subseteq ToSet(d.digests)
        BY <1>1, <1>2, <2>3 DEF StoreInv, Current
      <3> QED  BY <1>1, <1>3, <3>1, <3>2 DEF Current, Excused
    <2> QED  BY <2>2, <2>3
  <1>10. Pending'
    <2>1. db'[Writer][1] = d /\ db'[Writer] # <<>>
      BY <1>1, <1>3
    <2> QED  BY <1>4, <2>1 DEF Pending
  <1> QED  BY <1>3, <1>6, <1>7, <1>9, <1>10 DEF StoreInv

\* The call of save ends: the file is written, or the write fails unnoticed,
\* and the blocks are acknowledged.
LEMMA SaveEndStep ==
    ASSUME StoreInv, SaveWrite \/ SaveWriteFails
    PROVE  StoreInv' /\ db' = db
  <1>1. PICK d, s : /\ GoodDb(d) /\ db[Writer] = <<d>> /\ db[Writer][1] = d
                    /\ IsCall(s, d) /\ saving = <<s>>
    BY SavesList DEF SaveWrite, SaveWriteFails, SaveEnds
  <1>a. PICK a : a = s.acks
    OBVIOUS
  <1>2. PICK f \in File :
           /\ saving[1].file = f /\ saving[1].json = ToJson(d) /\ saving[1].acks = a
           /\ a \subseteq ToSet(d.digests) \/ (f = d.filename /\ Excused(d))
    <2>1. saving[1] = s /\ s.file \in File /\ s.json = ToJson(d)
      BY <1>1 DEF IsCall
    <2>2. a \subseteq ToSet(d.digests) \/ (s.file = d.filename /\ Excused(d))
      BY <1>1, <1>a DEF IsCall
    <2> QED  BY <1>a, <2>1, <2>2
  <1>3. /\ acked' = [acked EXCEPT ![f] = a]
        /\ db' = db /\ saving' = <<>> /\ blind' = blind
    BY <1>2 DEF SaveWrite, SaveWriteFails, SaveEnds
  <1>t. files[f] = Torn
    BY <1>1, <1>2 DEF IsCall, SaveWrite, SaveWriteFails, SaveEnds
  <1>4. PICK c : /\ files' = [files EXCEPT ![f] = c]
                 /\ \/ /\ c = ToJson(d) /\ mute' = mute \ {f}
                       /\ overwritten' = IF Writer \in blind /\ f = d.filename
                                         THEN overwritten \cup {f} ELSE overwritten
                    \/ /\ c = Torn /\ mute' = mute \cup {f}
                       /\ overwritten' = overwritten
    <2>1. CASE SaveWrite
      BY <1>1, <1>2, <2>1 DEF SaveWrite
    <2>2. CASE SaveWriteFails
      <3>1. files' = [files EXCEPT ![f] = Torn]
        BY <1>t, <2>2 DEF SaveWriteFails, StoreInv, Maps
      <3> QED  BY <1>2, <2>2, <3>1 DEF SaveWriteFails
    <2> QED  BY <2>1, <2>2
  <1>5. /\ files' = [g \in File |-> files'[g]]
        /\ acked' = [g \in File |-> acked'[g]]
        /\ files'[f] = c /\ acked'[f] = a
        /\ \A g \in File : g # f => files'[g] = files[g] /\ acked'[g] = acked[g]
    BY <1>3, <1>4 DEF StoreInv, Maps
  <1>6. Maps' /\ Objects' /\ Histories'
    BY <1>3, <1>4, <1>5 DEF StoreInv, Maps, Objects, Histories
  <1>7. Contents'
    <2>1. ASSUME NEW g \in File, g # f PROVE Content(files[g], Owed(g))'
      <3>1. Owed(g)' = Owed(g) /\ files'[g] = files[g]
        BY <1>4, <1>5, <2>1 DEF Owed
      <3>2. Content(files[g], Owed(g))
        BY DEF StoreInv, Contents
      <3> QED  BY <3>1, <3>2 DEF Content
    <2>2. Content(files[f], Owed(f))'
      <3>1. CASE c = Torn
        BY <1>5, <3>1 DEF Content
      <3>2. CASE /\ c = ToJson(d)
                 /\ overwritten' = IF Writer \in blind /\ f = d.filename
                                   THEN overwritten \cup {f} ELSE overwritten
        <4>1. Owed(f)' \subseteq ToSet(d.digests)
          BY <1>2, <1>5, <3>2 DEF Owed, Excused
        <4> QED  BY <1>1, <1>5, <3>2, <4>1 DEF Content
      <3> QED  BY <1>4, <3>1, <3>2
    <2> QED  BY <2>1, <2>2 DEF Contents
  <1>8. Current'
    <2>1. d.filename \in File /\ db'[Writer][1] = d
      BY <1>1, <1>3 DEF GoodDb
    <2>2. CASE d.filename = f
      <3>1. Excused(d)' \/ a \subseteq ToSet(d.digests)
        BY <1>2, <1>3, <1>4 DEF Excused
      <3>2. Synced(d, c) \/ f \in mute'
        BY <1>4 DEF Synced
      <3> QED  BY <1>5, <2>1, <2>2, <3>1, <3>2 DEF Current
    <2>3. CASE d.filename # f
      <3>1. files'[d.filename] = files[d.filename] /\ acked'[d.filename] = acked[d.filename]
        BY <1>5, <2>1, <2>3
      <3>2. /\ \/ Synced(d, files[d.filename]) \/ d.filename \in mute
               \/ Writer \in blind /\ d.digests = <<>>
            /\ Excused(d) \/ acked[d.filename] \subseteq ToSet(d.digests)
        BY <1>1, <1>2, <2>3 DEF StoreInv, Current
      <3>3. (d.filename \in mute' <=> d.filename \in mute) /\ (Excused(d) => Excused(d)')
        BY <1>3, <1>4, <2>3 DEF Excused
      <3> QED  BY <1>3, <2>1, <3>1, <3>2, <3>3 DEF Current
    <2> QED  BY <2>2, <2>3
  <1>9. Pending'
    BY <1>3 DEF Pending
  <1> QED  BY <1>3, <1>6, <1>7, <1>8, <1>9 DEF StoreInv

-----------------------------------------------------------------------------
(* The theorems.                                                           *)

Inv == BlkOK /\ CountsOK /\ StoreInv

\* At the beginning there is nothing.
LEMMA InitInv == Init => Inv
  <1> SUFFICES ASSUME Init PROVE Inv
    OBVIOUS
  <1>1. BlkOK
    BY DEF Init, BlkOK
  <1>2. CountsOK
    BY DatabaseAssumption DEF Init, CountsOK
  <1>3. Writer \in Process
    BY DatabaseAssumption
  <1>4. Maps
    BY DEF Init, Maps
  <1>5. Objects
    BY DEF Init, Objects, Object
  <1>6. Contents /\ Histories
    BY DEF Init, Contents, Content, Owed, Histories
  <1>7. Current /\ Pending
    BY <1>3 DEF Init, Current, Pending
  <1> QED  BY <1>1, <1>2, <1>4, <1>5, <1>6, <1>7 DEF Inv, StoreInv

\* The counters stay in their bounds.
LEMMA NextCounts == CountsOK /\ [Next]_vars => CountsOK'
  <1> SUFFICES ASSUME CountsOK, [Next]_vars PROVE CountsOK'
    OBVIOUS
  <1> USE DatabaseAssumption DEF CountsOK
  <1>1. ASSUME NEW prev \in Prevs, NEW junk \in Junk, NewBlock(prev, junk) PROVE CountsOK'
    BY <1>1 DEF NewBlock
  <1>2. ASSUME NEW s \in Shape, AddTransaction(s) PROVE CountsOK'
    BY <1>2 DEF AddTransaction
  <1>3. CASE Finalize \/ AddValidatorSignature \/ RemoveSignatures \/ Receive
    BY <1>3 DEF Finalize, AddValidatorSignature, RemoveSignatures, Receive, countVars
  <1>4. CASE Sign(2)
    BY <1>4 DEF Sign
  <1>5. ASSUME NEW p \in Process, NEW f \in File,
               OpenDatabase(p, f) \/ Load(p, f) \/ ReadThrows(p, f)
        PROVE  CountsOK'
    <2>1. ASSUME Read(p, f) PROVE CountsOK'
      BY <2>1 DEF Read, Reads
    <2>2. ASSUME ReadFails(p, f) PROVE CountsOK'
      BY <2>2 DEF ReadFails, Reads
    <2>3. ASSUME ReadThrows(p, f) PROVE CountsOK'
      BY <2>3 DEF ReadThrows, Exit
    <2> QED  BY <1>5, <2>1, <2>2, <2>3 DEF OpenDatabase, Load
  <1>6. ASSUME NEW p \in Process, Crash(p) PROVE CountsOK'
    BY <1>6 DEF Crash, Exit
  <1>7. CASE AddBlock \/ RejectBlock \/ SaveOpen \/ SaveWrite \/ SaveWriteFails
    BY <1>7 DEF AddBlock, RejectBlock, SaveOpen, SaveWrite, SaveWriteFails, SaveEnds,
                countVars
  <1>8. CASE AddBlockThrows \/ SaveThrows
    BY <1>8 DEF AddBlockThrows, SaveThrows, Exit
  <1>9. ASSUME NEW f \in File, Save(f) PROVE CountsOK'
    BY <1>9 DEF Save, countVars
  <1>10. CASE UNCHANGED vars
    BY <1>10 DEF vars, countVars
  <1> QED
    BY <1>1, <1>2, <1>3, <1>4, <1>5, <1>6, <1>7, <1>8, <1>9, <1>10 DEF Next

\* What a step does to the block in hand, the objects, the files and the call
\* of save; and that a process whose object the step makes or replaces has
\* every acknowledged block.
LEMMA NextStore ==
    ASSUME Inv, [Next]_vars
    PROVE  /\ BlkOK' /\ StoreInv'
           /\ \A p \in Process : p # Writer /\ db'[p] # db[p] /\ db'[p] # <<>> =>
                 \/ p \in blind' \/ db'[p][1].filename \in overwritten'
                 \/ acked'[db'[p][1].filename] \subseteq ToSet(db'[p][1].digests)
  <1> DEFINE Heard == \A p \in Process : p # Writer /\ db'[p] # db[p] /\ db'[p] # <<>> =>
                        \/ p \in blind' \/ db'[p][1].filename \in overwritten'
                        \/ acked'[db'[p][1].filename] \subseteq ToSet(db'[p][1].digests)
             Goal == BlkOK' /\ StoreInv' /\ Heard
  <1> SUFFICES Goal
    OBVIOUS
  <1>1. BlkOK /\ CountsOK /\ StoreInv /\ Writer \in Process
    BY DatabaseAssumption DEF Inv
  <1>2. ASSUME BlkOK', UNCHANGED storeVars PROVE Goal
    <2>1. StoreInv' /\ db' = db
      BY <1>1, <1>2, SameStore DEF storeVars
    <2> QED  BY <1>2, <2>1
  <1>3. ASSUME NEW prev \in Prevs, NEW junk \in Junk, NewBlock(prev, junk) PROVE Goal
    <2>1. prev \in Seq(Int)
      <3>1. CASE prev = <<>>
        BY <3>1
      <3>2. CASE prev # <<>>
        <4>1. PICK d \in ToSet(db[Writer]) : prev \in ToSet(d.digests)
          BY <3>2 DEF Prevs
        <4>2. db[Writer] # <<>>
          BY <4>1 DEF ToSet
        <4>3. GoodDb(db[Writer][1]) /\ db[Writer] = <<db[Writer][1]>>
          BY <1>1, <4>2, WriterHas
        <4>4. d = db[Writer][1]
          BY <4>1, <4>3 DEF ToSet
        <4>5. d.digests \in Seq(Seq(Int))
          BY <4>3, <4>4 DEF GoodDb
        <4> QED  BY <4>1, <4>5, InToSet
      <3> QED  BY <3>1, <3>2
    <2>2. BlkOK'
      BY <1>3, <2>1, NewBlockOK
    <2>3. UNCHANGED storeVars
      BY <1>3 DEF NewBlock, storeVars, histVars
    <2> QED  BY <1>2, <2>2, <2>3
  <1>4. ASSUME NEW s \in Shape, AddTransaction(s) PROVE Goal
    <2>1. UNCHANGED storeVars
      BY <1>4 DEF AddTransaction, storeVars, histVars
    <2>2. BlkOK'
      BY <1>1, <1>4, AddTransactionOK
    <2> QED  BY <1>2, <2>1, <2>2
  <1>5. CASE Finalize
    <2>1. UNCHANGED storeVars
      BY <1>5 DEF Finalize, storeVars, histVars
    <2> QED  BY <1>1, <1>2, <1>5, <2>1, FinalizeOK
  <1>6. CASE Sign(2)
    <2>1. UNCHANGED storeVars
      BY <1>6 DEF Sign, storeVars, histVars
    <2> QED  BY <1>1, <1>2, <1>6, <2>1, SignOK
  <1>7. CASE AddValidatorSignature
    <2>1. UNCHANGED storeVars
      BY <1>7 DEF AddValidatorSignature, storeVars, histVars
    <2> QED  BY <1>1, <1>2, <1>7, <2>1, AddValidatorSignatureOK
  <1>8. CASE RemoveSignatures
    <2>1. UNCHANGED storeVars
      BY <1>8 DEF RemoveSignatures, storeVars, histVars
    <2> QED  BY <1>1, <1>2, <1>8, <2>1, RemoveSignaturesOK
  <1>9. CASE Receive
    <2>1. UNCHANGED storeVars
      BY <1>9 DEF Receive, storeVars, histVars
    <2>2. BlkOK'
      BY <1>1, <1>9, ReceivedBlock DEF BlkOK
    <2> QED  BY <1>2, <2>1, <2>2
  <1>10. ASSUME NEW p \in Process, NEW f \in File, Read(p, f) \/ ReadFails(p, f),
                p = Writer => saving = <<>>
         PROVE  Goal
    <2>1. BlkOK'
      BY <1>1, <1>10 DEF Read, ReadFails, Reads, BlkOK
    <2>2. /\ StoreInv'
          /\ \A q \in Process : q # p => db'[q] = db[q]
          /\ \/ p \in blind' \/ db'[p][1].filename \in overwritten'
             \/ acked'[db'[p][1].filename] \subseteq ToSet(db'[p][1].digests)
      BY <1>1, <1>10, ReadStep
    <2> QED  BY <2>1, <2>2
  <1>11. ASSUME NEW p \in Process, NEW f \in File, OpenDatabase(p, f) \/ Load(p, f)
         PROVE  Goal
    <2>1. (Read(p, f) \/ ReadFails(p, f)) /\ (p = Writer => saving = <<>>)
      BY <1>1, <1>11 DEF OpenDatabase, Load, StoreInv, Pending
    <2> QED  BY <1>10, <2>1
  <1>12. ASSUME NEW p \in Process, Exit(p) PROVE Goal
    <2>1. BlkOK'
      BY <1>1, <1>12 DEF Exit, BlkOK
    <2>2. /\ StoreInv' /\ db'[p] = <<>>
          /\ \A q \in Process : q # p => db'[q] = db[q]
      BY <1>1, <1>12, ExitStep
    <2> QED  BY <2>1, <2>2
  <1>13. CASE AddBlock
    <2>1. /\ StoreInv' /\ blk' = <<>>
          /\ \A q \in Process : q # Writer => db'[q] = db[q]
      BY <1>1, <1>13, AddBlockStep
    <2>2. BlkOK'
      BY <2>1 DEF BlkOK
    <2> QED  BY <2>1, <2>2
  <1>14. CASE RejectBlock
    <2>1. UNCHANGED storeVars /\ blk' = <<>>
      BY <1>14 DEF RejectBlock, storeVars, histVars
    <2>2. BlkOK'
      BY <2>1 DEF BlkOK
    <2> QED  BY <1>2, <2>1, <2>2
  <1>15. ASSUME StoreInv', db' = db, blk' = blk PROVE Goal
    <2>1. BlkOK'
      BY <1>1, <1>15 DEF BlkOK
    <2> QED  BY <1>15, <2>1
  <1>16. ASSUME NEW f \in File, Save(f) PROVE Goal
    <2>1. blk' = blk
      BY <1>16 DEF Save
    <2> QED  BY <1>1, <1>15, <1>16, <2>1, SaveStep
  <1>17. CASE SaveOpen
    <2>1. blk' = blk
      BY <1>17 DEF SaveOpen
    <2> QED  BY <1>1, <1>15, <1>17, <2>1, SaveOpenStep
  <1>18. CASE SaveWrite \/ SaveWriteFails
    <2>1. blk' = blk
      BY <1>18 DEF SaveWrite, SaveWriteFails, SaveEnds
    <2> QED  BY <1>1, <1>15, <1>18, <2>1, SaveEndStep
  <1>19. CASE UNCHANGED vars
    <2>1. BlkOK' /\ UNCHANGED storeVars
      BY <1>1, <1>19 DEF vars, storeVars, histVars, BlkOK
    <2> QED  BY <1>2, <2>1
  <1>20. ASSUME NEW p \in Process, NEW f \in File,
                OpenDatabase(p, f) \/ Load(p, f) \/ ReadThrows(p, f)
         PROVE  Goal
    <2>1. CASE ReadThrows(p, f)
      BY <1>12, <2>1 DEF ReadThrows
    <2> QED  BY <1>11, <1>20, <2>1
  <1>21. ASSUME NEW p \in Process, Crash(p) PROVE Goal
    BY <1>12, <1>21 DEF Crash
  <1>22. CASE AddBlockThrows \/ SaveThrows
    BY <1>1, <1>12, <1>22 DEF AddBlockThrows, SaveThrows
  <1> HIDE DEF Goal
  <1> QED
    BY <1>3, <1>4, <1>5, <1>6, <1>7, <1>8, <1>9, <1>13, <1>14, <1>16, <1>17,
       <1>18, <1>19, <1>20, <1>21, <1>22 DEF Next

\* The invariant holds in every state.
LEMMA AlwaysInv == Spec => []Inv
  <1>1. Inv /\ [Next]_vars => Inv'
    BY NextStore, NextCounts DEF Inv
  <1> QED  BY <1>1, InitInv, PTL DEF Spec

\* The blocks that are known are the one in hand and those of the maps.
LEMMA KnownBlocks ==
    ASSUME Inv, NEW b \in Known
    PROVE  b \in Block
  <1>1. CASE b \in ToSet(blk)
    <2>1. blk # <<>>
      BY <1>1 DEF ToSet
    <2>2. blk[1] \in Block /\ blk = <<blk[1]>>
      BY <2>1, InHand DEF Inv
    <2>3. b = blk[1]
      BY <1>1, <2>2 DEF ToSet
    <2> QED  BY <2>2, <2>3
  <1>2. ASSUME NEW p \in Open, b \in Range(db[p][1].blocks) PROVE b \in Block
    <2>1. p \in Process /\ db[p] # <<>>
      BY DEF Open
    <2>2. GoodDb(db[p][1])
      BY <2>1, HasObject DEF Inv, StoreInv, Objects
    <2>3. db[p][1].blocks \in [ToSet(db[p][1].digests) -> Block]
      BY <2>2 DEF GoodDb
    <2> QED  BY <1>2, <2>3 DEF Range
  <1> QED  BY <1>1, <1>2 DEF Known

\* The type invariant: counters, files and flags have their types, and the
\* map of every Database object has a block for each digest of its list and
\* no other, whatever is read, added, saved or lost in a crash.
THEOREM StoreTypeCorrect == Spec => []TypeOK
  <1>1. ASSUME Inv PROVE TypeOK
    <2>1. \A b \in Known : b.mutable \in BOOLEAN
      BY <1>1, KnownBlocks DEF Block, BlockRecord
    <2>2. CountsOK
      BY <1>1 DEF Inv
    <2>3. ASSUME NEW p \in Open PROVE DOMAIN db[p][1].blocks = ToSet(db[p][1].digests)
      <3>1. p \in Process /\ db[p] # <<>>
        BY DEF Open
      <3>2. GoodDb(db[p][1])
        BY <1>1, <3>1, HasObject DEF Inv, StoreInv, Objects
      <3> QED  BY <3>2 DEF GoodDb
    <2>4. ASSUME NEW f \in File
          PROVE  files[f].state \in {"missing", "torn", "null", "chain"}
      <3>1. Content(files[f], Owed(f))
        BY <1>1 DEF Inv, StoreInv, Contents
      <3>2. ASSUME NEW d, files[f] = ToJson(d) PROVE files[f].state \in {"null", "chain"}
        BY <3>2 DEF ToJson
      <3>3. CASE files[f] = Missing
        BY <3>3 DEF Missing
      <3>4. CASE files[f] = Torn
        BY <3>4 DEF Torn
      <3> QED  BY <3>1, <3>2, <3>3, <3>4 DEF Content
    <2>5. saving # <<>> => Writer \in Open
      BY <1>1, DatabaseAssumption DEF Inv, StoreInv, Pending, Open
    <2>6. blind \subseteq Open /\ overwritten \subseteq File /\ mute \subseteq File
      BY <1>1 DEF Inv, StoreInv, Histories, Open
    <2> QED  BY <2>1, <2>2, <2>3, <2>4, <2>5, <2>6 DEF TypeOK, CountsOK
  <1> QED  BY <1>1, AlwaysInv, PTL

\* An acknowledged block is lost in one way only.  Whatever the writer was
\* doing when it ended, and whichever writes failed unnoticed, a process that
\* opens or loads a file has every block that addBlock has returned 0 for, or
\* reading throws, or the open of an existing file failed: its own, or that
\* of a process that has since saved its empty list over the file.
THEOREM NoOtherLoss == Spec => LossNeedsFailedOpen
  <1>1. Inv /\ [Next]_vars =>
          [\A p \in Process :
             (/\ db'[p] # db[p] /\ db'[p] # <<>> /\ p \notin blind'
              /\ db'[p][1].filename \notin overwritten')
                 => acked'[db'[p][1].filename] \subseteq ToSet(db'[p][1].digests)]_vars
    <2> SUFFICES ASSUME Inv, [Next]_vars, NEW p \in Process,
                        db'[p] # db[p], db'[p] # <<>>, p \notin blind',
                        db'[p][1].filename \notin overwritten'
                 PROVE  acked'[db'[p][1].filename] \subseteq ToSet(db'[p][1].digests)
      OBVIOUS
    <2>1. CASE p = Writer
      <3>1. Current'
        BY NextStore DEF StoreInv
      <3> QED  BY <2>1, <3>1 DEF Current, Excused
    <2>2. CASE p # Writer
      BY <2>2, NextStore
    <2> QED  BY <2>1, <2>2
  <1> QED  BY <1>1, AlwaysInv, PTL DEF Spec, LossNeedsFailedOpen

\* The list of every Database object is a chain, built or read: each block
\* names the digest of the one before it, each digest is the one of its
\* block, and none comes twice.
THEOREM ListIsChain == Spec => []Chained
  <1>1. ASSUME Inv PROVE Chained
    <2> SUFFICES ASSUME NEW p \in Open
                 PROVE  LET d == db[p][1]
                        IN  /\ \A i \in 2 .. Len(d.digests) :
                                  d.blocks[d.digests[i]].prevBlockDigest = d.digests[i - 1]
                            /\ \A x \in ToSet(d.digests) : GetDigest(d.blocks[x]) = x
                            /\ Cardinality(ToSet(d.digests)) = Len(d.digests)
      BY DEF Chained
    <2>1. p \in Process /\ db[p] # <<>>
      BY DEF Open
    <2>2. PICK d : d = db[p][1]
      OBVIOUS
    <2>3. GoodDb(d)
      BY <1>1, <2>1, <2>2, HasObject DEF Inv, StoreInv, Objects
    <2>4. /\ \A i \in 2 .. Len(d.digests) :
                d.blocks[d.digests[i]].prevBlockDigest = d.digests[i - 1]
          /\ \A x \in ToSet(d.digests) : GetDigest(d.blocks[x]) = x
      BY <2>3 DEF GoodDb
    <2>5. Cardinality(ToSet(d.digests)) = Len(d.digests)
      <3> DEFINE ds == d.digests
                 n == Len(ds)
      <3>1. /\ ds \in Seq(Seq(Int)) /\ n \in Nat /\ DOMAIN ds = 1 .. n
            /\ \A i, j \in DOMAIN ds : i < j => Len(ds[i]) < Len(ds[j])
        BY <2>3 DEF GoodDb
      <3>2. ASSUME NEW i \in 1 .. n, NEW j \in 1 .. n, ds[i] = ds[j] PROVE i = j
        <4>1. ds[i] \in Seq(Int) /\ Len(ds[i]) \in Nat
          BY <3>1
        <4>2. \A k \in Nat : ~(k < k)
          OBVIOUS
        <4>3. i \in DOMAIN ds /\ j \in DOMAIN ds
          BY <3>1
        <4>4. (i < j => Len(ds[i]) < Len(ds[j])) /\ (j < i => Len(ds[j]) < Len(ds[i]))
          BY <3>1, <4>3
        <4>5. ~(i < j) /\ ~(j < i)
          <5> HIDE DEF ds, n
          <5> QED  BY <3>2, <4>1, <4>2, <4>4
        <4> QED  BY <3>1, <4>5
      <3>3. \A x : x \in ToSet(ds) <=> \E i \in 1 .. n : ds[i] = x
        BY <3>1 DEF ToSet
      <3>4. ds \in Bijection(1 .. n, ToSet(ds))
        <4> HIDE DEF ds, n
        <4>1. ds \in [1 .. n -> ToSet(ds)]
          BY <3>1, <3>3
        <4>2. ds \in Injection(1 .. n, ToSet(ds))
          BY <3>2, <4>1 DEF Injection, IsInjective
        <4>3. ds \in Surjection(1 .. n, ToSet(ds))
          BY <3>3, <4>1 DEF Surjection
        <4> QED  BY <4>2, <4>3 DEF Bijection
      <3>5. ExistsBijection(1 .. n, ToSet(ds))
        BY <3>4 DEF ExistsBijection
      <3> HIDE DEF ds, n
      <3>6. Cardinality(ToSet(ds)) = n
        BY <3>1, <3>5, FS_CountingElements
      <3> QED  BY <3>6 DEF ds, n
    <2> QED  BY <2>2, <2>4, <2>5
  <1> QED  BY <1>1, AlwaysInv, PTL

\* When addBlock has returned and its write did not fail unnoticed, the file of
\* the writer gives back its list with
\* the very blocks it has in memory; it cannot be read only if there is no
\* block, or one that to_string and from_string disagree about.
THEOREM FileGivesListBack == Spec => []Reloads
  <1>1. ASSUME Inv PROVE Reloads
    <2> SUFFICES ASSUME Writer \in Open, saving = <<>>,
                        db[Writer][1].filename \notin mute,
                        Writer \in blind => db[Writer][1].digests # <<>>
                 PROVE  LET d == db[Writer][1]
                            content == files[d.filename]
                            whole(b) == /\ b.txs # <<>>
                                        /\ \A i \in DOMAIN b.txs : /\ b.txs[i].inputs # <<>>
                                                                   /\ b.txs[i].outputs # <<>>
                        IN  IF d.digests # <<>> /\ \A x \in ToSet(d.digests) : whole(d.blocks[x])
                            THEN Readable(content) /\ FromJson(d.filename) = d
                            ELSE ~Readable(content) \/ content.state = "missing"
      BY DEF Reloads
    <2>1. db[Writer] # <<>> /\ StoreInv
      BY <1>1 DEF Open, Inv
    <2>2. PICK d : d = db[Writer][1]
      OBVIOUS
    <2>3. GoodDb(d)
      BY <2>1, <2>2, WriterHas
    <2>4. Synced(d, files[d.filename])
      BY <2>1, <2>2 DEF StoreInv, Current
    <2>5. d.filename \in File
      BY <2>3 DEF GoodDb
    <2> DEFINE AllWhole == d.digests # <<>> /\ \A x \in ToSet(d.digests) : Whole(d.blocks[x])
    <2>6. IF AllWhole THEN Readable(files[d.filename]) /\ FromJson(d.filename) = d
          ELSE ~Readable(files[d.filename]) \/ files[d.filename].state = "missing"
      <3>1. CASE files[d.filename] = ToJson(d)
        <4>1. /\ Readable(files[d.filename]) <=> AllWhole
              /\ Readable(files[d.filename]) =>
                   FromJson(d.filename) = [filename |-> d.filename, digests |-> d.digests,
                                           blocks |-> d.blocks]
          BY <2>3, <2>5, <3>1, JsonRoundTrip
        <4>2. d = [filename |-> d.filename, digests |-> d.digests, blocks |-> d.blocks]
          BY <2>3 DEF GoodDb
        <4> HIDE DEF AllWhole
        <4> QED  BY <4>1, <4>2
      <3>2. CASE files[d.filename] = Missing /\ d.digests = <<>>
        BY <3>2 DEF Missing
      <3> QED  BY <2>4, <3>1, <3>2 DEF Synced
    <2> QED  BY <2>2, <2>6 DEF Whole
  <1> QED  BY <1>1, AlwaysInv, PTL

\* A block that comes in a message has the header id and the digest of the
\* block that was sent, and is that block without the collected signatures.
THEOREM MessageKeepsBlock == Spec => WireKeepsBlock
  <1>1. ASSUME Inv, Receive
        PROVE  /\ HeaderID(blk'[1]) = HeaderID(blk[1])
               /\ GetDigest(blk'[1]) = GetDigest(blk[1])
               /\ blk'[1] = [blk[1] EXCEPT !.validatorSigs = <<>>]
    <2>1. PICK b : b = blk[1]
      OBVIOUS
    <2>2. /\ b \in Block
          /\ blk' = <<[b EXCEPT !.validatorSigs = <<>>]>>
      BY <1>1, <2>1, ReceivedBlock DEF Inv
    <2>3. PICK c : c = [b EXCEPT !.validatorSigs = <<>>]
      OBVIOUS
    <2>4. blk'[1] = c
      BY <2>2, <2>3
    <2>5. /\ c.prevBlockDigest = b.prevBlockDigest /\ c.merkleRoot = b.merkleRoot
          /\ c.validatorID = b.validatorID /\ c.nextKey = b.nextKey
      BY <2>2, <2>3 DEF Block, BlockRecord
    <2>6. HeaderID(c) = HeaderID(b)
      BY <2>5 DEF HeaderID
    <2>7. GetDigest(c) = GetDigest(b)
      BY <2>5, <2>6 DEF GetDigest
    <2> QED  BY <2>1, <2>3, <2>4, <2>6, <2>7
  <1>2. Inv /\ [Next]_vars =>
          [Receive =>
             /\ HeaderID(blk'[1]) = HeaderID(blk[1])
             /\ GetDigest(blk'[1]) = GetDigest(blk[1])
             /\ blk'[1] = [blk[1] EXCEPT !.validatorSigs = <<>>]]_vars
    BY <1>1
  <1> QED  BY <1>2, AlwaysInv, PTL DEF Spec, WireKeepsBlock

\* The Merkle root of every block that is no longer mutable, in hand, in a
\* list or read from a file, is the root of the tree over its transactions.
THEOREM MerkleRootIsTree == Spec => []RootIsTree
  <1>1. ASSUME Inv PROVE RootIsTree
    <2> SUFFICES ASSUME NEW b \in Known, ~b.mutable, b.txs # <<>>
                 PROVE  b.merkleRoot = TreeHash(b.txs, TreeHeight(Len(b.txs)))
      BY DEF RootIsTree
    <2>1. b \in Block
      BY <1>1, KnownBlocks
    <2>2. b.merkleRoot = CalculateMerkleRoot(b.txs)
      BY <2>1 DEF Block
    <2>3. b.txs \in Seq(Tx)
      BY <2>1 DEF Block, BlockRecord
    <2>4. PICK t \in Seq(Tx) : t = b.txs
      BY <2>3
    <2>5. CalculateMerkleRoot(t) = TreeHash(t, TreeHeight(Len(t)))
      BY <2>4, RootOfTree
    <2> QED  BY <2>2, <2>4, <2>5
  <1> QED  BY <1>1, AlwaysInv, PTL
=============================================================================
