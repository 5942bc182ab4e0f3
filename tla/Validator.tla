------------------------------ MODULE Validator ------------------------------
(***************************************************************************)
(* The ledger of the leading validator (lib/cryptowallet/validator.cc),    *)
(* the wallets that send it transactions (lib/cryptowallet/wallet.cc) and  *)
(* what its node makes of its proposals.                                   *)
(*                                                                         *)
(* Four threads: Listen, ProposeProcess and DBProcess register tasks with  *)
(* the event handler, and the event thread runs them.  An event runs all   *)
(* tasks of its type (module EventLoop).  A TX task takes the transactions *)
(* and then looks at them, a DBSTORE task walks blist_, hands the lists to *)
(* the server and clears blist_; the other threads run in between.  The    *)
(* second PROPOSE task of an event finds the pool empty, and there is one  *)
(* DBSTORE task at most, so that such an event runs one task here.  The    *)
(* consensus thread is module Bracha seen from outside: it delivers one    *)
(* block that Block::verify accepts, and ends; DBProcess does not start it *)
(* again.  Blocks are their sequences of transactions.                     *)
(*                                                                         *)
(* tx_list and blist_ are used after they were destroyed or assigned to:   *)
(* what is read from the freed memory is what was there, or nothing.  That *)
(* the process may also end there adds no behaviour: a prefix is one.      *)
(***************************************************************************)
EXTENDS Ledger

CONSTANTS
    WalletIds,   \* wallets_ids_, in the order of the settings file
    Coins,       \* the coins InitializeCoins gives to each wallet
    Files,       \* what the wallets' files ask for: sender, inputs, outputs
    MaxTx,       \* bound: transactions sent
    MaxEvents    \* bound: events of each type

Wallet == ToSet(WalletIds)

Event == {"TX", "PROPOSE", "DBSTORE"}

\* The first value of Wallet::tx_id_, and how many values a uint16_t has.
FirstTxId == 100
UShort    == 65536

\* InitializeCoins numbers the coins from 0, one for each wallet.
Coin(i) == [txID |-> i - 1, outputIndex |-> 0,
            output |-> [value |-> Coins, receiverID |-> WalletIds[i]]]

InitialCoins == [i \in DOMAIN WalletIds |-> Coin(i)]

CoinsOf(w) ==
    Keep(InitialCoins, {u \in ToSet(InitialCoins) : u.output.receiverID = w})

ASSUME ValidatorAssumption ==
    /\ WalletIds \in Seq(0 .. UShort - 1)   \* ids that fit into a transaction
    /\ Cardinality(Wallet) = Len(WalletIds)
    /\ Coins \in 1 .. 2^IntWidth - 1
    /\ Files \subseteq [sender : Wallet, inputs : Seq(Input), outputs : Seq(Output)]
    /\ MaxTx \in Nat
    /\ MaxEvents \in Nat

VARIABLES
    nextTxId,    \* Wallet::tx_id_
    walletKey,   \* walletKey[w]: the newest key pair of wallet w
    localUtxo,   \* localUtxo[w]: local_utxo_ of wallet w
    txq,         \* the server's queue of transactions
    utxolists,   \* the lists the server answers Sync with
    lpc,         \* Listen: "wait", "found" (newRequests is true), "open"
                 \* (tx_list exists)
    txList,      \* the stack slot of tx_list in Listen, which the TX tasks
                 \* refer to also when its iteration has ended
    epc,         \* the event thread: "idle"; "tx", "reply" in the tasks of a
                 \* TX event; "agree", "clear" in the DBSTORE task
    ran,         \* the tasks it has run for the TX event at hand
    walk,        \* the blocks of blist_ it has still to call OnAgreeBlk with
    utxoSets,    \* utxo_sets_
    pkSets,      \* pk_sets_
    memoryPool,  \* memory_pool_
    blist,       \* blist_
    published,   \* published[e]: events that were not taken yet
    subscribed,  \* subscribed[e]: how many tasks are subscribed to e
    registering, \* the types of which runInLoop has published an event and
                 \* not yet subscribed the task
    events,      \* how many events of each type there have been
    proposals,   \* the blocks that LeaderNode::Propose was called with
    npc,         \* the consensus thread: "run", "accept" or "idle"
    voted,       \* the block of voted_hash_; <<>> before
    accepted,    \* the blocks of accepted_blocks_
    \* History: the transactions that reached the server's queue; of these,
    \* the ones in tx_list that no OnTxReply has looked at, and the ones that
    \* were gone from it before one did; the blocks OnAgreeBlk was called
    \* with; the blocks that were overwritten in blist_.
    received, taken, vanished, applied, overwritten

walletVars == <<nextTxId, walletKey, localUtxo>>
serverVars == <<txq, utxolists>>
ledgerVars == <<utxoSets, pkSets, memoryPool>>
listenVars == <<lpc, txList>>
taskVars   == <<epc, ran, walk>>
eventVars  == <<published, subscribed, registering, events>>
nodeVars   == <<proposals, npc, voted, accepted>>
txHist     == <<received, taken, vanished>>
blockHist  == <<applied, overwritten>>
vars == <<walletVars, serverVars, listenVars, taskVars, ledgerVars, blist,
          eventVars, nodeVars, txHist, blockHist>>

\* InitializeCoins, which runs before the threads are started.
Init ==
    /\ nextTxId = FirstTxId
    /\ walletKey = [w \in Wallet |-> 0]
    /\ localUtxo = [w \in Wallet |-> <<>>]
    /\ txq = <<>>
    /\ utxoSets = [w \in Wallet |-> CoinsOf(w)]
    /\ utxolists = utxoSets
    /\ lpc = "wait"
    /\ txList = <<>>
    /\ epc = "idle"
    /\ ran = 0
    /\ walk = <<>>
    /\ pkSets = [w \in Wallet |-> 0]
    /\ memoryPool = <<>>
    /\ blist = <<>>
    /\ published = [e \in Event |-> 0]
    /\ subscribed = [e \in Event |-> 0]
    /\ registering = {}
    /\ events = [e \in Event |-> 0]
    /\ proposals = {}
    /\ npc = "run"
    /\ voted = <<>>
    /\ accepted = <<>>
    /\ received = {}
    /\ taken = {}
    /\ vanished = {}
    /\ applied = <<>>
    /\ overwritten = <<>>

-----------------------------------------------------------------------------
(* The wallets.                                                            *)

\* SendTx: Sync, then CreateTx with a new id and a new key pair, whose
\* private key signs and whose public key is sent along, then SendTx2Leader,
\* whose call may fail unnoticed.  The sender's id becomes a uint16_t.
SendTx(f) ==
    LET w   == f.sender
        key == walletKey[w] + 1
        tx  == [txID |-> nextTxId, senderID |-> w % UShort, inputs |-> f.inputs,
                outputs |-> f.outputs, publicKey |-> key, senderSig |-> key]
    IN  /\ nextTxId < FirstTxId + MaxTx
        /\ localUtxo' = [localUtxo EXCEPT ![w] = utxolists[w]]
        /\ nextTxId' = nextTxId + 1
        /\ walletKey' = [walletKey EXCEPT ![w] = key]
        /\ \/ /\ txq' = Append(txq, tx)
              /\ received' = received \cup {tx}
           \/ UNCHANGED <<txq, received>>
        /\ UNCHANGED <<utxolists, listenVars, taskVars, ledgerVars, blist,
                       eventVars, nodeVars, taken, vanished, blockHist>>

-----------------------------------------------------------------------------
(* RunTaskInLoop: the event is published, then the task is subscribed.     *)

PublishEvent(e) ==
    /\ e \notin registering
    /\ events[e] < MaxEvents
    /\ events' = [events EXCEPT ![e] = @ + 1]
    /\ published' = [published EXCEPT ![e] = @ + 1]
    /\ registering' = registering \cup {e}
    /\ UNCHANGED subscribed

SubscriberEvent(e) ==
    /\ e \in registering
    /\ registering' = registering \ {e}
    /\ subscribed' = [subscribed EXCEPT ![e] = @ + 1]
    /\ UNCHANGED <<walletVars, serverVars, listenVars, taskVars, ledgerVars,
                   blist, published, events, nodeVars, txHist, blockHist>>

\* Listen wakes up: newRequests has found a transaction in the queue, which
\* a TX task may take before Listen goes on.
ListenWakes ==
    /\ lpc = "wait"
    /\ txq # <<>>
    /\ events["TX"] < MaxEvents
    /\ lpc' = "found"
    /\ UNCHANGED <<walletVars, serverVars, txList, taskVars, ledgerVars, blist,
                   eventVars, nodeVars, txHist, blockHist>>

\* A new tx_list where the last one was, whose elements nobody finds again,
\* then OnRequest.
Listen ==
    /\ lpc = "found"
    /\ lpc' = "open"
    /\ PublishEvent("TX")
    /\ txList' = <<>>
    /\ taken' = {}
    /\ vanished' = vanished \cup taken
    /\ UNCHANGED <<walletVars, serverVars, taskVars, ledgerVars, blist,
                   nodeVars, received, blockHist>>

\* The end of the iteration frees the elements of tx_list: of those S a task
\* may still find what was there.
ListenEnds ==
    /\ lpc = "open"
    /\ "TX" \notin registering
    /\ lpc' = "wait"
    /\ \E S \in SUBSET ToSet(txList) :
          /\ txList' = Keep(txList, S)
          /\ taken' = taken \cap S
          /\ vanished' = vanished \cup (taken \ S)
    /\ UNCHANGED <<walletVars, serverVars, taskVars, ledgerVars, blist,
                   eventVars, nodeVars, received, blockHist>>

ProposeProcess ==
    /\ PublishEvent("PROPOSE")
    /\ UNCHANGED <<walletVars, serverVars, listenVars, taskVars, ledgerVars,
                   blist, nodeVars, txHist, blockHist>>

\* Mutant: getConsensusBlocks is not told to erase.
DBProcessKeepsAccepted ==
    /\ npc # "run"
    /\ "DBSTORE" \notin registering
    /\ blist' = accepted
    /\ walk' \in {walk, [i \in DOMAIN walk |-> <<>>]}
    /\ overwritten' = overwritten \o blist
    /\ IF accepted = <<>> THEN UNCHANGED eventVars ELSE PublishEvent("DBSTORE")
    /\ UNCHANGED <<walletVars, serverVars, listenVars, epc, ran, ledgerVars,
                   nodeVars, txHist, applied>>

\* isConsensus is true from the delivery on.  blist_ is overwritten whether
\* or not the blocks in it were stored, and while they are walked over.
DBProcess ==
    /\ npc # "run"
    /\ "DBSTORE" \notin registering
    /\ blist' = accepted
    /\ walk' \in {walk, [i \in DOMAIN walk |-> <<>>]}
    /\ overwritten' = overwritten \o blist
    /\ accepted' = <<>>
    /\ IF accepted = <<>> THEN UNCHANGED eventVars ELSE PublishEvent("DBSTORE")
    /\ UNCHANGED <<walletVars, serverVars, listenVars, epc, ran, ledgerVars,
                   proposals, npc, voted, txHist, applied>>

-----------------------------------------------------------------------------
(* The event thread: EventProcess and the tasks.                           *)

\* Mutant: the test of publist is missing.
TakeEventUntested(e) ==
    /\ epc = "idle"
    /\ published' = [published EXCEPT ![e] = @ - 1]
    /\ UNCHANGED <<subscribed, registering, events>>

TakeEvent(e) ==
    /\ epc = "idle"
    /\ published[e] > 0
    /\ published' = [published EXCEPT ![e] = @ - 1]
    /\ UNCHANGED <<subscribed, registering, events>>

\* An event that is taken before its task is subscribed.
TakeUnheard(e) ==
    /\ subscribed[e] = 0
    /\ TakeEvent(e)
    /\ UNCHANGED <<walletVars, serverVars, listenVars, taskVars, ledgerVars,
                   blist, nodeVars, txHist, blockHist>>

\* The walk over the TX tasks, which ends where the list ends by then.
TakeTx ==
    /\ subscribed["TX"] > 0
    /\ TakeEvent("TX")
    /\ epc' = "tx"
    /\ UNCHANGED <<walletVars, serverVars, listenVars, ran, walk, ledgerVars,
                   blist, nodeVars, txHist, blockHist>>

EndTx ==
    /\ epc = "tx"
    /\ ran >= subscribed["TX"]
    /\ epc' = "idle"
    /\ ran' = 0
    /\ UNCHANGED <<walletVars, serverVars, listenVars, walk, ledgerVars, blist,
                   eventVars, nodeVars, txHist, blockHist>>

\* The lambda of OnRequest: getTransactions appends to tx_list whatever is
\* in its slot, and OnTxReply follows if there was something to append.
GetTransactions ==
    /\ epc = "tx"
    /\ ran < subscribed["TX"]
    /\ ran' = ran + 1
    /\ txList' = txList \o txq
    /\ txq' = <<>>
    /\ taken' = ToSet(txq)
    /\ epc' = IF txq = <<>> THEN "tx" ELSE "reply"
    /\ UNCHANGED <<walletVars, utxolists, lpc, walk, ledgerVars, blist,
                   eventVars, nodeVars, received, vanished, blockHist>>

\* OnRecvTx stores the key that comes with the transaction and checks the
\* signature with it.
SignatureValid(tx) == tx.senderSig = tx.publicKey

RecvValid(tx) ==
    /\ SignatureValid(tx)
    /\ CheckSpendingConditions(tx, utxoSets[tx.senderID], Wallet)

\* Mutant: only the last transaction is looked at.
OnTxReplyLast ==
    /\ epc = "reply"
    /\ epc' = "tx"
    /\ pkSets' = IF txList = <<>> THEN pkSets
                 ELSE [pkSets EXCEPT ![Last(txList).senderID] = Last(txList).publicKey]
    /\ memoryPool' = IF txList = <<>> THEN memoryPool
                     ELSE memoryPool \o Keep(<<Last(txList)>>, {tx \in taken : RecvValid(tx)})
    /\ taken' = {}
    /\ UNCHANGED <<walletVars, serverVars, listenVars, ran, walk, utxoSets,
                   blist, eventVars, nodeVars, received, vanished, blockHist>>

\* OnTxReply calls OnRecvTx for all that it finds in tx_list, what an
\* earlier task left included.
OnTxReply ==
    /\ epc = "reply"
    /\ epc' = "tx"
    /\ pkSets' = FoldLeft(LAMBDA pk, tx :
                            [pk EXCEPT ![tx.senderID] = tx.publicKey],
                          pkSets, txList)
    /\ memoryPool' = memoryPool \o Keep(txList, {tx \in ToSet(txList) : RecvValid(tx)})
    /\ taken' = {}
    /\ UNCHANGED <<walletVars, serverVars, listenVars, ran, walk, utxoSets,
                   blist, eventVars, nodeVars, received, vanished, blockHist>>

\* CreateBlk pops the newest transaction first, and drops what has become
\* invalid or spends what a transaction in the block spends.
CreateBlk(pool) ==
    FoldRight(LAMBDA tx, bx :
                IF /\ CheckSpendingConditions(tx, utxoSets[tx.senderID], Wallet)
                   /\ VerifyTxConsist(bx, tx)
                THEN Append(bx, tx) ELSE bx,
              pool, <<>>)

\* The lambda of ProposeProcess: CreateBlk, then Propose, also when no
\* transaction was left for the block.
Propose ==
    /\ subscribed["PROPOSE"] > 0
    /\ TakeEvent("PROPOSE")
    /\ proposals' = IF memoryPool = <<>> THEN proposals
                    ELSE proposals \cup {CreateBlk(memoryPool)}
    /\ memoryPool' = <<>>
    /\ UNCHANGED <<walletVars, serverVars, listenVars, taskVars, utxoSets,
                   pkSets, blist, npc, voted, accepted, txHist, blockHist>>

\* UTXOlist::erase.  Past the end, vector::erase moves nothing and drops the
\* last element.
Erase(ulist, k) == IF k <= Len(ulist) THEN RemoveAt(ulist, k) ELSE Front(ulist)

\* OnAgreeBlk for one transaction: the coins are looked up in a copy of the
\* sender's list and erased from the list itself.  The new coins are made
\* and not stored.
SpendInputs(sets, tx) ==
    LET w == tx.senderID
        old == sets[w]
    IN  [sets EXCEPT ![w] =
           FoldLeft(LAMBDA ulist, in :
                      LET k == Index(old, in)
                      IN  IF k = 0 THEN ulist ELSE Erase(ulist, k),
                    old, tx.inputs)]

OnAgreeBlk(sets, bx) == FoldLeft(SpendInputs, sets, bx)

\* The lambda of DBProcess begins to walk over blist_, without a lock.
StoreBlocks ==
    /\ subscribed["DBSTORE"] > 0
    /\ TakeEvent("DBSTORE")
    /\ epc' = "agree"
    /\ walk' = blist
    /\ UNCHANGED <<walletVars, serverVars, listenVars, ran, ledgerVars, blist,
                   nodeVars, txHist, blockHist>>

\* OnAgreeBlk for the next block of the walk.
AgreeBlock ==
    /\ epc = "agree"
    /\ walk # <<>>
    /\ utxoSets' = OnAgreeBlk(utxoSets, Head(walk))
    /\ applied' = Append(applied, Head(walk))
    /\ walk' = Tail(walk)
    /\ UNCHANGED <<walletVars, serverVars, listenVars, epc, ran, pkSets,
                   memoryPool, blist, eventVars, nodeVars, txHist, overwritten>>

\* OnSyncReply waits for _mutex_grpc, which Listen holds while it registers
\* its task.
OnSyncReply ==
    /\ epc = "agree"
    /\ walk = <<>>
    /\ lpc = "wait"
    /\ epc' = "clear"
    /\ utxolists' = utxoSets
    /\ UNCHANGED <<walletVars, txq, listenVars, ran, walk, ledgerVars, blist,
                   eventVars, nodeVars, txHist, blockHist>>

\* blist_ is cleared, whatever it holds by then.
ClearBlocks ==
    /\ epc = "clear"
    /\ epc' = "idle"
    /\ blist' = <<>>
    /\ UNCHANGED <<walletVars, serverVars, listenVars, ran, walk, ledgerVars,
                   eventVars, nodeVars, txHist, blockHist>>

EventProcess ==
    \/ \E e \in Event : TakeUnheard(e)
    \/ TakeTx \/ GetTransactions \/ OnTxReply \/ EndTx
    \/ Propose
    \/ StoreBlocks \/ AgreeBlock \/ OnSyncReply \/ ClearBlocks

-----------------------------------------------------------------------------
(* The consensus thread, from outside.                                     *)

\* The node verifies against the coins that InitializeCoins gave it.
Deliver ==
    /\ npc = "run"
    /\ \E bx \in proposals :
          /\ Verify(bx, InitialCoins, Wallet)
          /\ voted' = bx
    /\ npc' = "accept"
    /\ UNCHANGED <<walletVars, serverVars, listenVars, taskVars, ledgerVars,
                   blist, eventVars, proposals, accepted, txHist, blockHist>>

\* accepted_blocks_ is given the hash, read from freed memory; for a hash
\* that is not the block's getConsensusBlocks returns an empty block.
Accept ==
    /\ npc = "accept"
    /\ npc' = "idle"
    /\ \E bx \in {voted, <<>>} : accepted' = Append(accepted, bx)
    /\ UNCHANGED <<walletVars, serverVars, listenVars, taskVars, ledgerVars,
                   blist, eventVars, proposals, voted, txHist, blockHist>>

-----------------------------------------------------------------------------
Next ==
    \/ \E f \in Files : SendTx(f)
    \/ \E e \in Event : SubscriberEvent(e)
    \/ ListenWakes \/ Listen \/ ListenEnds
    \/ ProposeProcess
    \/ DBProcess
    \/ EventProcess
    \/ Deliver
    \/ Accept

Spec == Init /\ [][Next]_vars

-----------------------------------------------------------------------------
(* Properties.                                                             *)

\* Class Transaction.
Tx == [txID : FirstTxId .. FirstTxId + MaxTx - 1, senderID : Wallet, inputs : Seq(Input),
       outputs : Seq(Output), publicKey : Nat, senderSig : Nat]

\* Every variable has its type; no more events are taken than published.
TypeOK ==
    /\ nextTxId \in FirstTxId .. FirstTxId + MaxTx
    /\ walletKey \in [Wallet -> Nat]
    /\ localUtxo \in [Wallet -> Seq(UTXO)]
    /\ utxolists \in [Wallet -> Seq(UTXO)]
    /\ utxoSets \in [Wallet -> Seq(UTXO)]
    /\ pkSets \in [Wallet -> Nat]
    /\ {txq, txList, memoryPool, voted} \subseteq Seq(Tx)
    /\ {blist, walk, accepted, applied, overwritten} \subseteq Seq(Seq(Tx))
    /\ proposals \subseteq Seq(Tx)
    /\ received \cup taken \cup vanished \subseteq Tx
    /\ lpc \in {"wait", "found", "open"}
    /\ epc \in {"idle", "tx", "reply", "agree", "clear"}
    /\ ran \in Nat
    /\ published \in [Event -> Nat]
    /\ subscribed \in [Event -> Nat]
    /\ registering \subseteq Event
    /\ events \in [Event -> 0 .. MaxEvents]
    /\ npc \in {"run", "accept", "idle"}

InputsOf(bx) == UNION {ToSet(bx[i].inputs) : i \in DOMAIN bx}

\* What becomes of a transaction that has reached the server: it is waiting,
\* or it was invalid from the beginning, or it is in a proposed block, or a
\* proposed block spends what it spends.
Handled(tx) ==
    \/ tx \in ToSet(txq) \cup taken \cup ToSet(memoryPool)
    \/ ~CheckSpendingConditions(tx, CoinsOf(tx.senderID), Wallet)
    \/ \E bx \in proposals :
          \/ tx \in ToSet(bx)
          \/ ToSet(tx.inputs) \cap InputsOf(bx) # {}

\* No valid transaction disappears on the way from the server's queue to a
\* block, through lists that several tasks share (OnTxReply, CreateBlk),
\* but for the ones in tx_list when Listen destroys it or makes a new one
\* between getTransactions and OnTxReply of a task.
TxAccounted == \A tx \in received : tx \in vanished \/ Handled(tx)

\* The block that CreateBlk assembles, from lists that shrink while the pool
\* waits and from a pool that may hold a transaction twice, is one that
\* Block::verify of the nodes accepts against their own list, if no
\* transaction names an input twice.
ProposalVerifies ==
    \A bx \in proposals :
        (\A i \in DOMAIN bx : Cardinality(ToSet(bx[i].inputs)) = Len(bx[i].inputs))
            => Verify(bx, InitialCoins, Wallet)

\* What is worth more than an int can hold.
Wraps(tx) == FoldLeft(+, 0, [i \in DOMAIN tx.outputs |-> tx.outputs[i].value])
                >= 2^IntWidth

\* The block that is delivered makes no coins and loses none: its outputs
\* are worth the coins it spends, each counted once, although
\* checkSpendingConditions counts an input as often as it is named.  If the
\* outputs of a transaction do not fit in an int, this is so only modulo
\* the range of int.
ValueKept ==
    npc # "run" =>
        LET spent == Coins * Cardinality({i \in DOMAIN InitialCoins :
                               InputOf(InitialCoins[i]) \in InputsOf(voted)})
            outs  == FlattenSeq([i \in DOMAIN voted |-> voted[i].outputs])
            paid  == FoldLeft(+, 0, [i \in DOMAIN outs |-> outs[i].value])
        IN  /\ paid % 2^IntWidth = spent % 2^IntWidth
            /\ (\A i \in DOMAIN voted : ~Wraps(voted[i])) => paid = spent

\* OnAgreeBlk is called once at most, and with the delivered block or, for
\* a hash or a list read from freed memory, an empty one, on a way through
\* three threads that do not wait for each other.  A block that it was not
\* called with is on its way, in accepted_blocks_, in blist_ or in the walk
\* over it, or DBProcess has overwritten it.
BlockAccounted ==
    LET places == accepted \o blist \o walk \o applied \o overwritten
    IN  /\ Len(applied) <= 1
        /\ IF npc = "idle"
           THEN places # <<>> /\ ToSet(places) \subseteq {voted, <<>>}
           ELSE places = <<>>
=============================================================================
