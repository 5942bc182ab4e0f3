# TLA+ models of COSICoin

COSICoin is a small permissioned coin. Wallets send transactions to a leading
validator, which collects them into blocks; all validators agree on a block
with a variant of Bracha's reliable broadcast, in which every message is signed
with a one-time key that announces its successor. This directory holds TLA+
models of that program, TLC runs on small instances, and TLAPS proofs for
instances of every size. Paths are relative to `src/`.

## 1. The system

| component | source | state | operations | talks to |
|---|---|---|---|---|
| consensus node | `lib/bracha/node.cc` | counters per block (`echo_this_round_`, `ready_this_round_`), `ready_sent_`, `send_this_round_`, `voted_hash_`, `accepted_blocks_`, `should_broadcast_`, key chains | `RunProtocol`, `RunTaskInWait`, `updateRecvMessages`, `broadcastRound`, `Propose`, `getConsensusBlocks` | server (queue and condition variable), sender pool |
| sender pool | `lib/comms/client.cc` | one message queue per server, one mutex, one condition variable, a stop flag | `Broadcast`, `RunThread_`, destructor | servers of the other validators |
| gRPC server | `lib/comms/server.cc` | consensus queue, transaction queue, UTXO map, `CallData` objects | `HandleRpcs`/`Proceed`, `getMessages`, `getTransactions`, `setUTXOlists` | node and validator (shared condition variable) |
| event handler | `include/cryptowallet/validator.h` | published events, subscribed tasks, one shared `unique_lock` | `runInLoop`, `EventProcess` | validator threads |
| validator | `lib/cryptowallet/validator.cc` | `utxo_sets_`, `pk_sets_`, `memory_pool_`, `blist_` | `InitializeCoins`, `Listen`, `OnRecvTx`, `CreateBlk`, `ProposeProcess`, `DBProcess`, `OnAgreeBlk`, `OnSyncReply` | server, event handler, node |
| wallet | `lib/cryptowallet/wallet.cc` | key pair, local UTXO list, transaction number | `SendTx` (`Sync`, `CreateTx`, `SendTx2Leader`) | server of the leader |
| transactions, blocks | `lib/blockchain/`, `include/blockchain/utxo.h` | a block is mutable, final or signed | `addTransaction`, `finalize`, `sign`, `checkSpendingConditions`, `verifyTxConsist`, `verify`, digests, Merkle root, conversions to JSON and protobuf | validator, node, database |
| one-time signatures | `lib/signature/hash.cc` | a key pair; in the node the current and the next pair, and the known key of every validator | `KeyGen`, `Sign`, `Verify`; `signBlock`, `checkBlockSig` | node, wallet |
| database | `lib/database/database.cc` | list of digests, map of blocks, JSON file | constructor, `addBlock`, `save`, `load` | nobody but its test: the call in `DBProcess` is commented out |
| settings, SHA-256, hash device, logging, drivers | `lib/config`, `lib/signature/sha256.cc`, `lib/interf`, `src/` | | | |

What is hard about it:

* **Concurrency.** A validator process has a consensus thread, the gRPC thread,
  one sender thread per validator, `Listen`, `ProposeProcess`, `DBProcess` and
  the event thread. `Propose` runs in the event thread beside the consensus
  thread and signs with the same key chain.
* **Locks that do not lock.** `RunThread_` unlocks its mutex twice; two waiters
  wait with private mutexes on the server's condition variable; the producers
  of the event handler share one `std::unique_lock` object; `signBlock` changes
  the key chain under no lock at all.
* **Ordering.** The key chain makes a receiver reject what comes out of order
  or after a loss, so every link must keep the order of the sender.
* **Failure.** A `Talk` call that fails is ignored; a validator may crash or
  never send; `RunProtocol` is restarted on top of what the last run left. The
  database truncates its file before it writes it, takes a file that it cannot open
  for a missing one, and its format cannot hold everything that is saved in it.
* **Quorums.** The thresholds count messages and are meant to count validators.
* **Shared and stale state in the ledger.** Tasks run more than once, refer to a
  local variable of a loop iteration that has ended, walk over a list that another
  thread assigns to, and check transactions against lists that change while the
  transactions wait.

What makes each component correct: the node delivers only proposed and valid
blocks, on a quorum of different validators, once, and does not come to rest
half-way; the pool is a totally ordered broadcast; the server keeps the order of
each link and never goes deaf; the event handler runs what is registered; the
ledger loses no valid transaction, proposes what the nodes accept, neither makes
nor loses coins, and applies each agreed block once; the database
loses no block unnoticed and gives back what was put in; a one-time key is used
once, and a receiver that missed a message follows the chain again.

## 2. Modules

| module | models | used by |
|---|---|---|
| `Bracha` | `bracha::Node`, `LeaderNode`, `FaultNode` over an ordered network | `MCBracha`, `BrachaProofs` |
| `BlockLog` | abstract specification of the nodes under the test driver | `Bracha` (refinement) |
| `BroadcastLog` | abstract specification of the sender pool | `SenderPool` (refinement) |
| `SenderPool` | `ValidatorClientImpl` | run directly, `SenderPoolProofs` |
| `ChatServer` | `ChatServiceImpl` and its two waiters | run directly, `ChatServerProofs` |
| `EventLoop` | `EventHandler` | `MCEventLoop`, `EventLoopProofs` |
| `Ledger` | UTXO lists, transaction and block checks | `Validator` |
| `Validator` | the leader's ledger, the wallets and the node seen from outside | `MCValidator`, `ValidatorProofs` |
| `BlockData` | digests, Merkle root and conversions of transactions and blocks | `Database` |
| `Database` | the life of a block and `database::Database` with its files | `MCDatabase`, `DatabaseProofs` |
| `OneTimeSignature` | `KeyGen`, `Sign`, `Verify` | `KeyChain`, `KeyChainProofs` |
| `KeyChain` | `signBlock` in two threads, `checkBlockSig` at a receiver | `MCKeyChain`, `KeyChainProofs` |
| `...Proofs` | theorems about the module of that name (`KeyChainProofs`: also about `OneTimeSignature`), see section 5 | |
| `FoldLemmas` | no code: induction over the natural numbers, recursive functions, and what the folds of the community modules compute | `DatabaseProofs`, `ValidatorProofs` |

The modules rest on each other in this way. `Bracha` represents the network as
one append-only log per sender and one cursor per receiver and sender. That is
what `SenderPool` (the calls on every server are prefixes of one log) and
`ChatServer` (what a client sends is queued in order, once) establish of the
code, each for its own part. `Validator` uses the node only through *it delivers
one block that was proposed and that `Block::verify` accepts*, which is
`Validity` of `Bracha`, and the event handler only through *an event runs the
tasks that are subscribed to its type*, which is `RunsPerEvent` of `EventLoop`.
`Bracha` numbers the keys of a chain and lets a signature verify under the key
with its number: `VerifyExact` is the reason. It runs `signBlock` in one step, which `KeyChain`
splits: what holds in `Bracha` holds of the code as long as no two calls of
`signBlock` overlap (`AbortsOnlyOnOverlap`, `CleanAccepted`), and of `Propose` beside
the consensus thread the code does not ensure that.

An operator whose name extends that of a definition and whose comment starts
with *Mutant* is a faulty variant of it. No specification uses one: each stands
for a plausible bug, and a property of the runs is violated when the variant
takes the place of the definition.

### Bracha

A block is its header id, a key pair its number in the key chain of its owner.
`sent[s]` is what `s` has broadcast, `handled[d][s]` how much of it `d` has taken
from its queue, `lost[d]` the messages whose call to `d` failed. The other
variables are the members of the node under their own names; `pc[n]` is the place
of the consensus thread: `wait` (in `RunTaskInWait`), `echo`, `ready` and `accept`
(in `broadcastRound`), `idle` (outside `RunProtocol`). Within `broadcastRound`, `signedKey[n]` is the
key of a message that is signed and not yet broadcast, and `reached[n]` a block for which the loop has
amplified READY and goes on to deliver it. `counted` and `erased` are history variables.

| action | code |
|---|---|
| `ProposeSign`, `ProposeBroadcast` | `LeaderNode::Propose`: signing and broadcasting are separate critical sections, between which the consensus thread may sign and broadcast |
| `RunProtocol` | the head of `RunProtocol`; a crashed `FaultNode` returns at once |
| `RunTaskInWait` | the wait, `getMessages`, all of `updateRecvMessages` with `checkBlockSig` and `Block::verify`, and the test of `send_this_round_` |
| `RoundSign` | `signBlock` for the next message of the round; the broadcast follows in a step of its own, as in `Propose` |
| `RoundEcho`, `RoundReady`, `RoundAmplify` | the three broadcasts of `broadcastRound` |
| `RoundDeliver`, `RoundAccept` | the delivery and the later push onto `accepted_blocks_` |
| `RoundEnd` | the end of `broadcastRound` and the loop condition |
| `GetConsensusBlocks` | `isConsensus` and `getConsensusBlocks(true)` of `DBProcess` |
| `TalkFails` | a `Talk` call whose status nobody reads |

The hash that `RoundAccept` appends is read through a reference into a map entry
that was erased before (`node.cc:165`): the constant `Garbage` holds the other
values this read may return. `TestDriver` chooses between the schedule of
`node_test_ex.cc`, which starts all nodes, proposes once, joins, and repeats, and
that of class `Validator`, which proposes on a timer and never restarts a node.

`BlockLog` is what the driver relies on: one sequence of proposals, and the `accepted_blocks_` of each correct node growing along it, one
valid block at a time, the next proposal after all have accepted the last. The refinement mapping takes the leader's SEND
messages in their order for `proposed`, and for `accepted` what the correct nodes have pushed, garbage included: garbage
may stand in the place of a block and adds no place.

The hash maps of the code have an entry only for the blocks they have seen; a
block without one counts as 0. Blocks are visited in any order.

### SenderPool and BroadcastLog

`tpc[d]` is the place of sender thread `d` in `RunThread_`, `cpc[c]` that of a
caller in `Broadcast`, `dpc` that of the destructor. The mutex is only *free* or
*held* (`held`): `RunThread_` unlocks it by hand at line 119 and again in the
destructor of its `unique_lock` (`Loop`), whoever holds it by then, and the mutex
of the platform does not know its owner. Because of this two threads can come to
work on one queue. That is a data race, and the behaviour of the model ends there
(`Racing`): everything that is said of the pool is said *up to the first race*.
The refinement mapping is `log <- calls[1] \o hand[1] \o queue[1]`.

### ChatServer

`armed[k]` and `finishing[k]` count the `CallData` objects of kind `k` that wait
for a request and for the completion of their reply. `Proceed`, `ProceedPush`,
`ProceedNotify`, `ProceedRead`, `ProceedFinish` and `ProceedDelete` are the stages
of the three `Proceed` methods; `NewConsensusMessages`, `NodeBlocks`,
`GetMessages`, `UpdateRecvMessages` those of the consensus thread; `NewRequests`,
`ListenBlocks`, `OnRequest` and `GetTransactions` those of `Listen` and its task;
`SetClear` and `SetAssign` are `setUTXOlists`, whose mutex `CallDataSync` does not
take. The test of a predicate and the sleep after it are two steps, since no lock
that the server takes joins them.

### EventLoop

`unique_lock::lock` and `unlock` are modelled down to the flag they test and set
(`TestOwns`, `LockThrows`, `LockMutex`, `SetOwns`, `UnlockThrows`, `UnlockMutex`,
`ClearOwns`), because the threads share one such object. An exception ends the
process. `PopEvent`, `RunTask` and `EndWalk` are `EventProcess`.

### Ledger and Validator

`Ledger` has the checks as operators on sequences: vectors may hold an element
twice, and `InputTotal` counts every occurrence of an input, as the code does.
Sums are taken modulo `2^IntWidth`, the width of the `int` they are added up in.

`Validator` has four threads: `Listen`, the two timers, the event thread and, seen from
outside, the consensus. Only the event thread touches `utxo_sets_`, `pk_sets_` and `memory_pool_`, so
a PROPOSE task is one action; a TX task and the DBSTORE task work on what other threads change, and are
walks of several steps.

| action | code |
|---|---|
| `SendTx` | `Wallet::SendTx`: `Sync`, `CreateTx`, `SendTx2Leader`, whose call may fail |
| `ListenWakes`, `Listen`, `ListenEnds` | an iteration of `Listen`: the wait (215-221), the new `tx_list` and `OnRequest` (223-230), the end, which destroys `tx_list` (232-235) |
| `SubscriberEvent` | the second half of `runInLoop`; the first, `PublishEvent`, is part of the three producers |
| `ProposeProcess`, `DBProcess` | one tick of a timer |
| `TakeUnheard` | `EventProcess` takes an event that no task is subscribed to yet |
| `TakeTx`, `GetTransactions`, `OnTxReply`, `EndTx` | the walk over the TX tasks: each takes the queue into `tx_list` (202) and looks at `tx_list` in a later step (204) |
| `Propose` | `CreateBlk` and `Propose` |
| `StoreBlocks`, `AgreeBlock`, `OnSyncReply`, `ClearBlocks` | the DBSTORE task: the walk over `blist_`, `OnAgreeBlk` for each block, the lists handed to the server once `_mutex_grpc` is free, `blist_.clear()` |
| `Deliver`, `Accept` | the consensus thread sets `voted_hash_`, and pushes onto `accepted_blocks_` later |

Points where the code is not what one would expect, and which the model keeps:

* `tx_list` is a local of the loop in `Listen` and captured by reference. When the iteration ends,
  its elements are freed: `ListenEnds` leaves any part of them for a task to find. The next iteration
  makes an empty list in the same place of the stack (`Listen`), and a task appends to whatever is there. The history
  variables `taken` and `vanished` follow the transactions that are in `tx_list` and that no `OnTxReply` has looked at.
* `OnRecvTx` stores the public key that comes with a transaction and then checks the
  signature with it.
* `OnAgreeBlk` finds the index of a coin in a copy of the list and erases at that index
  in the list, which may be shorter; `vector::erase` past the end drops the last
  element (`Erase`). The outputs of agreed transactions are made and not stored.
* A block is proposed also when no transaction is left for it.
* The node verifies against the coins of `InitializeCoins`, not against the
  leader's current lists, and its consensus thread ends with its first delivery.
* `DBProcess` overwrites `blist_` on every tick, stored or not (`overwritten`), and also while the DBSTORE task walks over it: what
  is left of the walk are then the blocks as they were, or empty ones.

Reading freed memory may also end the process. That adds no behaviour to a safety specification, in which a process may stop
at any step.

### BlockData and Database

A string that is hashed is a sequence of digits with brackets around what was hashed
before, so that a hash is injective and concatenation is what the code does. A JSON
object is a record that has the fields that are written: a list without elements has
no field (`ListField`), which is what loading stumbles over (`TxLoads`, `BlockLoads`).

`blk` is the block in the hands of the writer: `NewBlock` (with a validator id that
nobody has initialized), `AddTransaction`, `Finalize`, `Sign`, `AddValidatorSignature`,
`RemoveSignatures`, and `Receive`, which sends it through protobuf. `db[p]` is the
`Database` object of process `p`, `files[f]` a file: missing, torn, `null` or a chain.
`OpenDatabase`, `Load` and `ReadThrows` are the constructor and `load`, which read the file (`Read`) or fail
to open one that exists (`ReadFails`) and go on with an empty list; `AddBlock`,
`AddBlockThrows`, `RejectBlock` are `addBlock`; `Save` is a call of `save` from outside;
`SaveOpen`, `SaveThrows`, `SaveWrite` and `SaveWriteFails` (the result of the write is not looked at) are the
steps of `save`, between which the process may end (`Crash`). Nobody catches an exception of the database, so one
ends the process. `acked` is a history variable: the blocks whose `addBlock` has returned 0. So are `blind` (the processes
whose last open failed), `overwritten` (the files such a process has saved over) and `mute` (the files whose last write failed).

### OneTimeSignature and KeyChain

A secret is the pair, the place and the list it was drawn for, a message a sequence of
characters of `CharBits` bits. `Sign` and `Verify` use as many characters as the key has
bits for, like the code. In `KeyChain` a thread walks through `broadcastMessage`:
`ReadPrivate`, `ReadPublic`, `KeyGenClear`, `KeyGenPush` (one iteration of `KeyGen`), `ReadNext`,
`SignBlock` or `SignThrows`, `CheckSignature` (the assertion, which is part of the Debug
build that `CMakeLists.txt` sets), `Broadcast`. All of them work on members of the node,
so a second thread can find a key half built. `Receive` is `checkBlockSig` with the
signature that `updateRecvMessages` keeps, `Lose` a call that failed. Two `push_back`s in the
same moment are undefined and the model leaves them out: it interleaves whole iterations
of `KeyGen` and nothing finer. `overlaps` records which calls were under way together.

## 3. Runs

Every passing run explores its whole state space. Where a run says
`CHECK_DEADLOCK FALSE`, the system may really stop: the protocol ends when no
message is under way, and threads sleep when nobody calls.

| run | instance | checks | shows |
|---|---|---|---|
| `consensus` | 3 validators on the schedule of class `Validator`, one proposal of a valid or an invalid block | `TypeOK`, `Validity`, `ReadyJustified`, `QuiescentDelivery` | deliveries are proposed and valid; the first READY follows a quorum of ECHOs of different validators; the protocol never rests with a correct node that has not delivered |
| `restart` | 2 validators, 2 runs of `RunProtocol`, 1 failed call, one block that may be proposed twice | `DeliveryQuorum`, `RunAgreement`, `FollowerAccepted`, `NoDuplicateDelivery`, `ImplementsBlockLog` | left-over messages neither deliver an old block again nor fake a quorum; the nodes accept the one sequence of proposals; a signature of a follower is only rejected right after a loss (for the leader see `swap`) |
| `pool` | 2 callers with 2 broadcasts each, 2 servers, destructor | `TypeOK`, `MutexNotLeaked`, `ImplementsLog`, `DestructorReturns` | up to a race the pool is the abstract log, and no path leaves the mutex locked; the destructor returns unless its `notify_all` comes between the test and the sleep of a thread |
| `server` | a sender with 2 calls of `Talk`, a wallet with a `NewTx` or a `Sync`, the lists replaced once | `TypeOK`, `LinkOrder`, `SyncCurrent`, `CallsReturn`, `WakeupReaches` | each link keeps its order, nothing doubled, nothing acknowledged before it is queued; `Sync` answers with current lists or none; every call is answered; a waiter that sleeps or is about to test its predicate gets what is meant for it |
| `tasks` | 2 producers with 2 tasks each | `TypeOK`, `RunsPerEvent`, `ThrowsOnOverlap`, `HeardRuns` | tasks run once per event, none with an event still queued is forgotten, and the shared lock throws only after an overlap |
| `ledger` | 2 wallets, 2 transactions of 6 kinds, 2 events of each type | `TypeOK`, `TxAccounted`, `ProposalVerifies`, `ValueKept`, `BlockAccounted` | a valid transaction is lost only with the `tx_list` that held it; the nodes accept what the leader proposes; the delivered block keeps the value of the coins; `OnAgreeBlk` is called once at most, with the delivered block or an empty one, and a block it is not called with is on its way or was overwritten |
| `storage` | 2 processes, 2 files, 2 blocks, 3 transactions of 2 shapes, 2 key pairs, 3 openings, 1 failed open or write | `TypeOK`, `Chained`, `Reloads`, `RootIsTree`, `LossNeedsFailedOpen`, `WireKeepsBlock` | an acknowledged block is lost only through a failed open, not through a crash or a failed write; a file gives back what is in memory or cannot be read (and when), the list is a chain, the Merkle root is that of the tree, a block survives protobuf |
| `keys` | 2 threads, 4 calls, 1 lost message, keys of 3 places | `TypeOK`, `OneTime`, `AbortsOnlyOnOverlap`, `CleanAccepted` | a key is used twice, the process ends, or a good signature is refused only where calls of `signBlock` overlap or a message is lost |

Four runs are expected to end in a counterexample. Each states what a line of the
repository says and shows that the code does otherwise:

| run | line | counterexample |
|---|---|---|
| `flagged` | `src/node_test_ex.cc:211`, `settings.json:16` | four validators of which one is flagged and down: delivery needs `2f + 2 = 4` READY messages and three are sent |
| `diverge` | `src/node_test_ex.cc:202-204` | two proposals under way (`validator.cc:252` proposes on a timer): two nodes deliver different blocks |
| `swap` | `include/bracha/node.h:206-207`, `:245` | three validators, two runs: the leader delivers its first block on the READY messages of the others while its own SEND is still in its queue. In its second run it echoes the old block; proposer and consensus thread sign in one order and broadcast in the other, and `checkBlockSig` refuses a message though none was lost (`RejectOnlyAfterLoss`) |
| `lostwake` | `include/comms/client.h:73` | a whole `Broadcast` between the test and the sleep of a sender thread: its message stays in the queue |

`FollowerAccepted` in run `restart` says how far `swap` goes: it is the leader alone whose messages can be swapped.

The code does not do what a comment or a test says in more places. Here a passing property or a theorem states what the code
does do, and names the exception:

* `include/cryptowallet/validator.h:302-306` says that a received transaction reaches the memory pool or is invalid and discarded.
  `Listen` may end its iteration between `getTransactions` (`validator.cc:202`) and `OnTxReply` (`:204`), and what was taken is
  destroyed with `tx_list`. `TxAccounted` collects those in `vanished`; transactions are lost in no other way.
* `include/cryptowallet/validator.h:329-330` and `src/demo.cc:120` say that an accepted block is added and the UTXOs updated. A tick
  of `DBProcess` may overwrite `blist_` (`validator.cc:282`) before the DBSTORE task has run or while it walks over it.
  `BlockAccounted` collects what was lost this way in `overwritten`; a block is lost in no other way and never applied twice.
* `include/bracha/node.h:248` says that the hash of each accepted block is stored. It is read from an entry that was erased
  (`node.cc:165`), and `getConsensusBlocks` may return an empty block. `BlockAccounted` and `BlockLog` permit this and no other block.
* `lib/cryptowallet/validator.cc:144` says "delete the used UTXOs, updates with the new", `src/demo.cc:120` that the UTXO lists
  are updated. `OnAgreeBlk` makes the new coins and drops them (`:152`). Theorem `NoNewCoins` says so for every instance.
* `include/database/database.h:47` says that the database is loaded from the file, and `test/database_test.cc:90-91` expects the saved
  digests of a second object. When the open of an existing file fails the object is empty and its next `addBlock` saves over the
  chain. `LossNeedsFailedOpen` says that acknowledged blocks are lost in no other way, neither by a crash nor by a failed write.
* `include/blockchain/block.h:28` speaks of "the signing key of a signature", and `test/database_test.cc:63` and
  `test/block_test.cc:215` store the key that made the signature. `updateRecvMessages` stores the key of the next message
  (`node.cc:75`). Theorem `StoredKeyVerifiesNext` says so for every message.
* `include/comms/server.h:90` says that the condition variable "gets notified when a new message or transaction is received". A
  notification between the test and the sleep of `RunTaskInWait` or `Listen` wakes nobody; `WakeupReaches` excludes exactly this place.

### Why the bounds are enough

* *Validators.* Three give an ECHO quorum that is a proper majority and a READY quorum
  (2) smaller than the number of validators, so nodes deliver at different times and
  READY messages amplify; `swap` needs three, so that the leader can deliver before its own ECHO.
  Two are enough for the leftovers of an earlier run, and give exactly one quorum. Of four one is crashed in `flagged`; that
  the others deliver when it is not flagged, and for every number of crashed and silent validators that leaves enough for the
  thresholds, is theorem `RestsDelivered`. The counting arguments are proved for every number too (section 5).
* *Proposals, runs, losses.* `MaxProposals`, `MaxRuns` and `MaxLost` are 1 or 2. A
  leftover needs two runs, a race between proposals two proposals, a broken key chain one
  loss.
* *Pool.* Two threads race or wake each other; the second broadcast of a caller is the
  one that meets the state the first has left.
* *Server.* Two calls of one client show order and need the successor of a `CallData`; a second
  client shows mixing. A wallet makes one call, of either kind: a second would only repeat the
  transaction queue's version of what the two `Talk` calls show. No symmetry: liveness is checked.
* *Events.* Two producers overlap, two tasks of one type share a list.
* *Ledger.* Two transactions are every pair of the six kinds in every order. Two TX events give a task that meets
  what the first has left in `tx_list`, two PROPOSE events two blocks; ticks of `DBProcess` that find nothing are not bounded.
  Coins are worth 2. `IntWidth` is 4, and one of the kinds pays 9 + 9 = 18, which wraps
  around to the worth of its coin: it is accepted, delivered and covered by `ValueKept`.
  Lists have one coin per wallet because `InitializeCoins` makes no other and `OnAgreeBlk` adds none.
* *Storage.* Three transactions in a block make the second level of the tree odd; two blocks make a chain and
  a wrong link; one opening after a crash, one by the other process, one of the other file. One fault (`MaxFaults`) is a failed open or a failed
  write; two would only add that one hides the other. The uninitialized validator id is one value that no validator has. Numbers
  are below ten, so that a decimal is a digit.
* *Keys.* Two threads overlap; with a third and a fourth call a key is carried over from one overlap to the
  next. A character of three bits is the number of the announced key, so that
  different digests differ in their bits; with three iterations of `KeyGen` a call can be met before, within and after its loop. `VerifyExact` has no bound.

`Followers`, `File` and `Thread` are symmetric because no definition distinguishes their members;
the runs that check liveness do not use symmetry.

## 4. Fairness

* `SenderPool`, `ChatServer`, `EventLoop`: weak fairness for each thread, since the
  operating system runs every thread that can run. No caller has to call, no producer has to register,
  and no thread has to wake up without a notification.
* `SenderPool` and `EventLoop` claim nothing after a race or an exception.
* `Bracha`, `Validator`, `Database` and `KeyChain` state safety only. That the protocol does not stop half-way is the invariant
  `QuiescentDelivery` about the states of rest; that it reaches such a state needs the wake-ups which
  `lostwake` shows can be missing (and `WakeupReaches` has to except), so no fairness for its threads is assumed.

## 5. Proofs

Eight modules hold theorems. They are about every value of the constants: any number of validators, clients,
threads, processes, blocks and transactions, and every bound.

### Bracha

| theorem | statement | hypothesis |
|---|---|---|
| `TypeCorrect` | `[]TypeOK` | |
| `DeliveryNeedsQuorum` | `[]DeliveryQuorum`: behind a delivery are `2f + 2` different validators | |
| `DeliveredOnce` | `NoDuplicateDelivery`: with fewer than `4f + 4` validators no block is delivered again from leftovers (the bound is part of the property) | |
| `DeliveredIsValid` | `[]Validity`: what is delivered was proposed by the leader and passes `Block::verify` | |
| `ReadyNeedsQuorum` | `[]ReadyJustified`: the first READY for a block follows ECHOs of a quorum of different validators | no block is proposed twice |
| `RunsAgree` | `[]RunAgreement`: every run of `RunProtocol` ends with the block that was proposed in it | schedule of the test driver, fewer than `4f + 4` validators |
| `NodesImplementBlockLog` | `ImplementsBlockLog`: the correct nodes are the log of blocks of `BlockLog` | as for `RunsAgree` |
| `FollowersAreAccepted` | `[]FollowerAccepted`: of every validator but the leader `checkBlockSig` rejects a message only right after a loss | |
| `RestsDelivered` | `[]QuiescentDelivery`: the protocol does not rest before every correct node has delivered | there are as many correct validators as the thresholds ask for |

The assumptions are `NodeAssumption` (a finite set of validators with the leader in it; the leader is not a
`FaultNode`), `BlockAssumption` (the empty string and freed memory are not header ids) and `BoundAssumption`
(the bounds are natural numbers). TLC evaluates them in every run of `MCBracha`.

The hypotheses cannot be dropped:

* *No block twice.* `echo_this_round_` counts messages, and no set like `ready_sent_` keeps a validator from a second
  ECHO. On the schedule of class `Validator`, which proposes an empty block whenever nothing
  in its pool is valid any more, TLC finds `ReadyJustified` violated for three validators and one block that is proposed twice.
* *The test driver's schedule.* With proposals on a timer two nodes may deliver different blocks: run `diverge`.
* *Enough correct validators.* In run `flagged` there are three where delivery needs four.

*Quorums.* `ready_this_round_` counts messages and `DeliveryQuorum` is about validators, so it is not inductive.
`QuorumInv` links the two: a validator broadcasts READY for a block at most once and has it in `ready_sent_`
(`ReadyRecorded`, `ReadyOnce`; `SigningSend` keeps the pending proposal out of it); every sender in a counter has its
READY behind the cursor of the receiver (`CountedHandled`), which makes the senders of a new batch new; so the
counter is the number of different senders (`CounterExact`), no sender is counted again after the counter was erased
(`CountedNew`), and every erased counter was a quorum (`ErasedQuorum`). A second delivery of a block would need two
disjoint quorums (`CountedNew`), for which there are too few validators (`DeliverFresh`).

*Validity.* `ValidInv` says that every ECHO and READY in a log, the SEND slot and every counter that is not zero
belong to a block that the leader has proposed and that passed verification (`LogBacked`, `CounterBacked`). The
thresholds are positive, so nothing is announced or delivered on an empty counter.

*ECHO quorum.* `EchoInv`: an ECHO follows a handled SEND (`EchoFollowsSend`), the block in the SEND slot has not been
echoed (`SlotNew`), so a validator echoes a block once (`EchoOnce`), and the counter is at most the number of validators
heard (`EchoBounded`).

*Runs.* `RunInv` numbers the proposals in the order of the leader's log (`Rank`). A correct node is never in an earlier
run than the last proposal (`RunsAhead`), has delivered the block of every run it has left (`EarlierDelivered`), and so
can only leave a run with a block that it has not delivered before: that of the run (`LeavesWithOwn`).

*Log of blocks.* `SequenceInv` adds that the proposals have the numbers from 1 on (`Numbered`) and that a correct node has pushed once
per run that it has left (`OnePerRun`). A step that broadcasts a proposal is `Propose` (no correct node has left the current run by then, so
all have accepted everything before it), `RoundAccept` of a correct node is `Accept`, and every other step is a stutter.

*Keys.* A follower signs and broadcasts in one thread, so its log is signed with consecutive keys, and what it has signed and
not yet broadcast carries the next one (`Chained`). For the leader this fails with the second proposal (run `swap`). While it has begun to propose at
most once (`OneProposal`), nobody has anything to send before that proposal is broadcast, so every log is in the order of its keys (`KeysInOrder`);
`RestsDelivered` uses this.

*Rest.* `RestInv`: what is behind the cursors of a node that has lost nothing is in its counters (`EchoHeard`,
`ReadyHeard`, `SendHeard`), and a node that waits has nothing left to announce or to deliver (`Settled`). At rest every
correct node has handled the SEND, so all have echoed, so each has heard a quorum of ECHOs or amplified, so all have sent
READY, so each has heard a quorum of those.

### SenderPool

| theorem | statement |
|---|---|
| `PoolTypeCorrect` | `[]TypeOK` |
| `MutexIsNotLeaked` | `[]MutexNotLeaked`: no thread leaves the mutex locked behind it |
| `PoolImplementsLog` | `ImplementsLog`: up to the first race the pool is `BroadcastLog` |

For the refinement, `LogInv` says that there was a race or that what was put into the queue of server `d` is what was put
into that of `d + 1`, and perhaps one message more, of the one caller that is between the two (`Chain`); so the calls on
each server are a prefix of the log (`Prefixes`). The initial states and each action are mapped in turn; a `Broadcast` appends to the abstract log in
the step that pushes to the first queue. Assumed: at least one server, finitely many callers (`PoolAssumption`).

### ChatServer

| theorem | statement |
|---|---|
| `ServerTypeCorrect` | `[]TypeOK` |
| `LinksInOrder` | `[]LinkOrder`: every link keeps its order, nothing twice, nothing answered before it is queued |
| `SyncIsCurrent` | `[]SyncCurrent`: `Sync` answers with lists that were current in the call, or none |

`OrderInv` is about what is queued, in the batch and handled together: the numbers of a client do not reach the call it
waits for before that one is pushed (`NumbersOK`), and the call is there when the waiters are notified
(`QueuedIsThere`). `SyncInv` says that the lists only get newer.

### EventLoop

| theorem | statement |
|---|---|
| `LoopTypeCorrect` | `[]TypeOK` |
| `ThrowsNeedsOverlap` | `[]ThrowsOnOverlap`: the shared `unique_lock` throws only after two threads were in `runInLoop` together |
| `TasksRunPerEvent` | `[]RunsPerEvent`: a task runs once per event from its subscription on, and at most once more |

`LockInv`: without an overlap at most one producer is under way and the flag says whether it is between its lock and its
unlock. `WalkInv`: the lists hold the subscribed tasks once each (`Fresh`, `Listed`), and a task has run once for each
event taken, less one if the walk has still to reach it (`Counted`).

### One-time signatures and key chain

The first two theorems of `KeyChainProofs` are about keys and messages of every length (`KeyAssumption`: a key is a whole
number of characters long), the others about any number of threads and calls:

| theorem | statement |
|---|---|
| `VerifyExact` | `Verify` returns 1 for what `Sign` made of `m` with pair `k` exactly under the public key of `k`, and exactly for messages with the same first `KeyLen` bits: the second half of a hexadecimal digest is not signed |
| `UnsignedIsRefused` | what `Sign` returns without a whole key makes `Verify` return -1, which passes the assertion of `signBlock` and is refused by `checkBlockSig` |
| `ChainTypeCorrect` | `[]TypeOK`: the keys stay bounded however the threads interleave |
| `AbortNeedsOverlap` | `[]AbortsOnlyOnOverlap`: `signBlock` ends the process only in a call that overlapped another |
| `CleanIsAccepted` | `[]CleanAccepted`: of calls that ran alone, a message is refused only after a loss |
| `StoredKeyVerifiesNext` | the key stored with a signature verifies the next one, not this one: not what `block.h:28` says |
| `KeysAreOneTime` | `[]OneTime`: two signatures share a key only if both calls overlapped another |

The first two rest on `SignatureOf` (a signature has one secret per bit) and `PlaceMatches` (what `Verify` compares at one
place is equal exactly if pair and bit are). `ChainInv` says what a call that runs alone finds and leaves (`Alone`,
`Left`), where its message is in the log (`Logged`), and what the receiver has (`Received`); of overlapping calls only
that they leave a pair of lists that fit. The bound on the keys counts the threads that still have something to push
(`Short`). `OneTimeInv` adds that a call draws no secret before the loop of `KeyGen` (`Fresh`); that the next pair
is about to be cleared, or is the unused one of a single call, finished or being built by one thread, or will be too long to sign with
(`Settles`); that a call which runs alone therefore signs with an unused pair or with none (`SignsUnused`), and that
this pair is gone afterwards (`Burnt`). Assumed: finitely many threads, at least one (`ChainAssumption`).

### Validator

| theorem | statement |
|---|---|
| `LedgerTypeCorrect` | `[]TypeOK` |
| `TxIsAccounted` | `[]TxAccounted`: a transaction that the server has taken waits in the queue, the list or the pool, or is proposed, or was invalid from the beginning, or a proposed block spends what it spends, or it was in `tx_list` when `Listen` destroyed it or made a new one |
| `ProposedBlockVerifies` | `[]ProposalVerifies`: `Block::verify` of the nodes accepts what the leader proposes, if no transaction names an input twice |
| `BlockKeepsValue` | `[]ValueKept`: the delivered block pays out what it spends, modulo the range of `int` where the outputs of a transaction do not fit |
| `BlockIsAccounted` | `[]BlockAccounted`: `OnAgreeBlk` is called once at most, with the delivered block or an empty one, and a block it was not called with is on its way or was overwritten |
| `NoNewCoins` | the leader's lists are the initial coins without those that applied blocks spend: the new coins of `validator.cc:144` are never listed |

They hold for all wallets and files, every worth of a coin that fits an `int` (`ValidatorAssumption`) and every width of `int`
(`WidthAssumption`); wallet ids fit into the `uint16_t` of a transaction. `LedgerInv` has four parts. `EventsOK` bounds the events.
`Placed` says how the block can be spread over the five lists: until the DBSTORE task takes it, it is in one of them; from then on it may also be
in the walk or applied, while `DBProcess` has overwritten it, and `blist_` is never filled again. `TakenOK` says that what no task has looked at is in `tx_list`, and only
while a task is about to look. `CoinsOK` is about coins:

* `ListsOK`: the leader's lists have all coins but those that applied blocks spend. It comes out right, although `OnAgreeBlk` erases at
  indices of another version of the list, because a wallet begins with *one* coin: a transaction that passes
  `checkSpendingConditions` names that coin and no other, perhaps several times, so spending it empties the list, and
  from an empty list nothing more is erased.
* `ProposedOK`: the transactions of a proposal pass against the first coin of their sender, and no two of them spend the same
  (`Apart`). The leader checks against its current lists, the nodes against the initial ones; the first are part of the second,
  so what passes there passes here. `Apart` is what `verifyTxConsist` keeps up while `CreateBlk` walks over the pool.
* `VotedOK`: the delivered block is one of the proposals and passed `Block::verify`.
* `QueueOK`: what is queued or taken is signed with the key that comes with it. `TxAccounted` itself: a transaction leaves the queue for `tx_list`, the list
  for the pool and the pool for a block, and only a check or the end of `tx_list` leaves it out.

`BlockKeepsValue` needs no more of the state than `VotedOK` and `ProposedOK`; the rest is arithmetic. `Block::verify` lets no input come
twice, so a transaction of the delivered block spends one coin or none, and its outputs are worth that plus a multiple of `2^IntWidth`, which is
0 if they fit (`Worth`); this adds up over the block. TLC checked `LedgerInv` on the instance of run `ledger` before it was proved.

### Database

| theorem | statement |
|---|---|
| `StoreTypeCorrect` | `[]TypeOK` |
| `NoOtherLoss` | `LossNeedsFailedOpen`: who reads a file has every acknowledged block, or reading throws, unless its open has failed or a process whose open had failed has saved over the file |
| `ListIsChain` | `[]Chained`: each block names the digest of the one before it, and no digest comes twice |
| `FileGivesListBack` | `[]Reloads`: the file gives back what is in memory, and when it cannot be read |
| `MessageKeepsBlock` | `WireKeepsBlock`: the protobuf form keeps header id and digest |
| `MerkleRootIsTree` | `[]RootIsTree`: the root of a finalized block is that of the tree over its transactions |

`Inv` is about the block in hand (`BlkOK`), the counters (`CountsOK`) and objects and files (`StoreInv`): every object is a
chain (`Objects`), every file is torn, or missing with nothing acknowledged, or the written form of a chain with all acknowledged blocks
(`Contents`), and the writer's file has what its list has or is about to (`Current`, `Pending`), each with the exceptions that a failed open or
write makes (`Excused`). That no digest comes
twice is not obvious from the links: the digest of a block contains that of the block before it, so digests get longer
along a chain. That reading undoes writing is shown per conversion, for blocks that `from_string` can read.

`RootIsTree` compares two recursive definitions: `calculateMerkleRoot` replaces a list of hashes by one half as long until one
is left, doubling the last one of an odd list; `TreeHash` defines the root by the height of the tree. The lists have the
lengths `LevelLength` (each is half of the one before, rounded up), which are 1 after exactly `TreeHeight` steps and not before
(`LengthsReachOne`); the lists of the code are the levels of the tree (`IsLevels`, `LevelsOfTree`), so the last one holds its root
(`RootOfTree`). The invariant carries the rest: from `finalize` on the stored root is the one computed from the
transactions the block has (`Block`), through signing, protobuf, saving and loading.

### Recursive functions and folds

The induction theorems of the library take an operator as their parameter, and the provers cannot use those. `FoldLemmas` does
induction over *sets* and *functions* instead. `LeastNumber` rests on the well-foundedness of `<`; `Induction` and `Recursion` (a function
that is defined from its value at the number below exists and satisfies its definition) rest on `LeastNumber`. The folds of the community
modules recurse over sets of indices (`SetRecursion`); `LeftFoldSteps`, `RightFoldSteps`, `FlattenSteps` and `SumSteps` state
what they compute from one element to the next. `PowerDoubles` and `BelowPower` are about powers of two.

### Only model-checked

Every invariant and every action property of the passing runs is proved, and so are the two refinements. What is left is liveness:
`CallsReturn`, `WakeupReaches`, `HeardRuns` and `DestructorReturns`. Fairness and `ENABLED` are out of
the prover's reach. The four counterexamples are TLC's.

## 6. Not modelled

* SHA-256 (`lib/signature/sha256.cc`, third-party) and the random numbers: a hash is taken to be injective and a
  secret never to come twice. The hash device and the Verilog sources.
* `include/json/json.hpp` is the vendored JSON library: 24766 of the 32144 lines under `src/` that count as
  implementation. The models use it as *an object has the fields that were written*. With `sha256.cc` and
  `options-pinned.h`, which are not this program's code either, four fifths of the lines are outside of what can be
  modelled from this repository. Of the rest, the tables above name what is modelled; much of what is left is output, accessors,
  comparison operators and the drivers.
* Parsing of the settings and the transaction files: inputs are constants.
* The comparison operators of transactions, blocks and UTXOs. The tests compare with them; the properties here compare
  values. (`operator!=` of `Output` is true only if both members differ, `output.h:35`.)
* `ValidatorClientImpl::SendToLeader`, `EventHandler::releaseSubscriberEvent` and `ChatServiceImpl::clearUTXOlists`, which nobody calls. Server shutdown, which
  is process exit, and with it the assertion in `HandleRpcs` that a completion queue event is `ok`. `print_dict` and `getReceivedBlock` of the node.
* Validators that send wrong messages: `FaultNode` only crashes or stays silent.
* Logging and the executables, except for the schedules of the drivers.

## 7. Plan

* Runs for more validators than `4f + 3`, where two disjoint quorums exist and the theorems about delivery make no statement: which
  schedule delivers a block twice there.
* The schedule of class `Validator` with the restart that it lacks (`validator.cc:302`), once the code has one: proposals after the first
  delivery, and `RunAgreement` for them.
