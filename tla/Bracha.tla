------------------------------- MODULE Bracha -------------------------------
(***************************************************************************)
(* The consensus protocol of COSICoin: bracha::Node, bracha::LeaderNode    *)
(* and bracha::FaultNode (lib/bracha/node.cc), over the per-destination    *)
(* sender threads of lib/comms/client.cc and the message queue of          *)
(* lib/comms/server.cc.                                                    *)
(*                                                                         *)
(* A block is its header id.  What a node broadcasts goes, in one order,   *)
(* to the queue of every destination, and each queue is emptied by one     *)
(* thread that makes one call at a time: so the network is one append-only *)
(* log per sender and one cursor per link.  A one-time key pair is the     *)
(* number of key pairs its node had generated before it.                   *)
(***************************************************************************)
EXTENDS Integers, Sequences, FiniteSets

CONSTANTS
    Node,          \* the validators of the settings file
    Leader,        \* the validator that runs as LeaderNode
    FaultNode,     \* the validators that run as FaultNode
    CrashNode,     \* those of them started with ByzantineBehavior::CRASH
    Flagged,       \* the validators the settings file marks "faulty"
    Block,         \* header ids of the blocks that may be proposed
    ValidBlock,    \* those whose transactions Block::verify accepts
    Repeatable,    \* those that may be proposed twice: every block without
                   \* transactions has the same header id
    None,          \* the empty string
    Garbage,       \* what a read of a freed string may return, besides
                   \* what the string was
    TestDriver,    \* TRUE: proposals and restarts as node_test_ex.cc does
                   \* them; FALSE: as class validator does
    MaxProposals,  \* bound: calls of LeaderNode::Propose
    MaxRuns,       \* bound: calls of RunProtocol per node
    MaxLost        \* bound: Talk calls that fail

ASSUME NodeAssumption ==
    /\ IsFiniteSet(Node)
    /\ Leader \in Node
    /\ FaultNode \subseteq Node \ {Leader}
    /\ CrashNode \subseteq FaultNode
    /\ Flagged \subseteq Node

ASSUME BlockAssumption ==
    /\ ValidBlock \subseteq Block
    /\ Repeatable \subseteq Block
    /\ None \notin Block
    /\ Garbage \cap Block = {}

ASSUME BoundAssumption ==
    /\ TestDriver \in BOOLEAN
    /\ MaxProposals \in Nat
    /\ MaxRuns \in Nat
    /\ MaxLost \in Nat

VARIABLES
    sent,            \* sent[s]: what s has broadcast, in queue order
    handled,         \* handled[d][s]: how much of it d has taken from mq_
    lost,            \* lost[d]: the messages whose Talk call to d failed
    nextKey,         \* nextKey[n]: my_next_key_pair_
    signing,         \* the leader's signed proposal, not yet broadcast
    \* Where broadcastRound is in a round.  signedKey[n]: the key that the
    \* consensus thread has signed a message with and not yet broadcast it;
    \* reached[n]: the block for which the loop over ready_this_round_ has
    \* sent READY and goes on to deliver it.
    signedKey, reached,
    pc,              \* where the consensus thread is in RunProtocol
    runs,            \* how often RunProtocol was called
    shouldBroadcast, sendThisRound, echoThisRound, readyThisRound,
    readySent, votedHash, acceptedBlocks,
    \* History: the senders of the READY messages that are in the counter,
    \* and of those that were in it when the block was delivered.
    counted, erased

netVars  == <<sent, handled, lost>>
stepVars == <<signedKey, reached>>
keyVars  == <<nextKey, signing, stepVars>>
ctlVars  == <<pc, runs, shouldBroadcast>>
cntVars  == <<echoThisRound, readyThisRound, counted>>
outVars  == <<votedHash, acceptedBlocks, erased>>
vars     == <<netVars, keyVars, ctlVars, sendThisRound, cntVars, readySent,
              outVars>>

\* The consensus thread has no signed message in its hands.
NoKey == -1

N == Cardinality(Node)
F == Cardinality(Flagged)

\* Mutant: "> f_" read as ">= f_".
ReadyThresholdOffByOne == F

EchoThreshold    == (N + F + 1) \div 2
ReadyThreshold   == F + 1
DeliverThreshold == 2 * F + 2       \* "> 2 * f_ + 1"

Message == [type : {"SEND", "ECHO", "READY"}, block : Block, key : Nat]

Init ==
    /\ sent = [n \in Node |-> <<>>]
    /\ handled = [d \in Node |-> [s \in Node |-> 0]]
    /\ lost = [d \in Node |-> {}]
    /\ nextKey = [n \in Node |-> 0]
    /\ signing = {}
    /\ signedKey = [n \in Node |-> NoKey]
    /\ pc = [n \in Node |-> "idle"]
    /\ runs = [n \in Node |-> 0]
    /\ shouldBroadcast = [n \in Node |-> TRUE]
    /\ sendThisRound = [n \in Node |-> None]
    /\ echoThisRound = [n \in Node |-> [b \in Block |-> 0]]
    /\ readyThisRound = [n \in Node |-> [b \in Block |-> 0]]
    /\ readySent = [n \in Node |-> {}]
    /\ reached = [n \in Node |-> None]
    /\ votedHash = [n \in Node |-> None]
    /\ acceptedBlocks = [n \in Node |-> <<>>]
    /\ counted = [n \in Node |-> [b \in Block |-> {}]]
    /\ erased = [n \in Node |-> [b \in Block |-> {}]]

-----------------------------------------------------------------------------
(* A message is identified by its sender and its place in the sender's log.*)

MsgIds == UNION {{s} \X DOMAIN sent[s] : s \in Node}

Msg(m) == sent[m[1]][m[2]]

\* The places of the earlier messages of the sender of m that reach d.
Before(d, m) == {i \in 1 .. m[2] - 1 : <<m[1], i>> \notin lost[d]}

\* val_sig_keys_ holds the key announced by the last message received from
\* the sender, whether it was valid or not; a sender without an entry is
\* believed.  A message announces the key after the one it is signed with.
CheckBlockSig(d, m) ==
    \A i \in Before(d, m) :
        (\A j \in Before(d, m) : j <= i) =>
            Msg(m).key = sent[m[1]][i].key + 1

\* Mutant: Block::verify is not called.
PassesUnverified(d, m) == CheckBlockSig(d, m)

\* Both checks of updateRecvMessages.
Passes(d, m) == CheckBlockSig(d, m) /\ Msg(m).block \in ValidBlock

\* What getMessages returns to d when the messages up to upto[s] have come
\* from each sender s.
Batch(d, upto) ==
    {m \in MsgIds : /\ handled[d][m[1]] < m[2]
                    /\ m[2] <= upto[m[1]]
                    /\ m \notin lost[d]}

Accepted(d, upto, type, b) ==
    {m \in Batch(d, upto) : /\ Msg(m).type = type
                            /\ Msg(m).block = b
                            /\ Passes(d, m)}

\* The senders whose READY for b is among them.
ReadySenders(d, upto, b) == {m[1] : m \in Accepted(d, upto, "READY", b)}

\* Mutant: signBlock does not call KeyGen.
SignBlockSameKey(n) == nextKey' = nextKey

\* signBlock: sign with the next key pair, announce and generate its successor.
SignBlock(n) == nextKey' = [nextKey EXCEPT ![n] = @ + 1]

\* broadcastMessage in the consensus thread, once the block is signed: the
\* message goes to the queue of every validator, the node itself included.
BroadcastMessage(n, type, b) ==
    /\ signedKey[n] # NoKey
    /\ sent' = [sent EXCEPT ![n] =
                  Append(@, [type |-> type, block |-> b, key |-> signedKey[n]])]
    /\ signedKey' = [signedKey EXCEPT ![n] = NoKey]

-----------------------------------------------------------------------------
(* LeaderNode::Propose does not run in the leader's consensus thread, and  *)
(* signs outside the lock it broadcasts under.                             *)

Proposals == {i \in DOMAIN sent[Leader] : sent[Leader][i].type = "SEND"}

Proposed == {sent[Leader][i].block : i \in Proposals}

\* A validator proposes every ten seconds, whatever its node is doing.  The
\* test driver starts every node anew and waits until they are running.
MayPropose(b) ==
    /\ signing = {}
    /\ Cardinality(Proposals) < MaxProposals
    /\ b \in Proposed => b \in Repeatable
    /\ TestDriver =>
          \A n \in Node \ FaultNode : /\ shouldBroadcast[n]
                                      /\ runs[n] = Cardinality(Proposals) + 1

ProposeSign(b) ==
    /\ MayPropose(b)
    /\ signing' = {[type |-> "SEND", block |-> b, key |-> nextKey[Leader]]}
    /\ SignBlock(Leader)
    /\ UNCHANGED <<netVars, stepVars, ctlVars, sendThisRound, cntVars, readySent,
                   outVars>>

ProposeBroadcast ==
    \E m \in signing :
        /\ sent' = [sent EXCEPT ![Leader] = Append(@, m)]
        /\ signing' = {}
        /\ UNCHANGED <<handled, lost, nextKey, stepVars, ctlVars, sendThisRound,
                       cntVars, readySent, outVars>>

\* The status of a Talk call is ignored: when it fails, the message is gone.
TalkFails(m, d) ==
    /\ Cardinality(UNION {{n} \X lost[n] : n \in Node}) < MaxLost
    /\ handled[d][m[1]] < m[2]
    /\ m \notin lost[d]
    /\ lost' = [lost EXCEPT ![d] = @ \cup {m}]
    /\ UNCHANGED <<sent, handled, keyVars, ctlVars, sendThisRound, cntVars,
                   readySent, outVars>>

-----------------------------------------------------------------------------
(* The consensus thread: RunProtocol.                                      *)

\* The test driver joins the threads of one run before it starts the next.
MayStart(n) ==
    \A m \in Node : \/ runs[m] = runs[n] + 1
                    \/ runs[m] = runs[n] /\ pc[m] = "idle"

\* Mutant: the flag keeps the value the last run left.
RunProtocolStaleFlag(n) ==
    /\ pc[n] = "idle"
    /\ runs[n] < MaxRuns
    /\ MayStart(n)
    /\ runs' = [runs EXCEPT ![n] = @ + 1]
    /\ pc' = [pc EXCEPT ![n] = IF shouldBroadcast[n] THEN "wait" ELSE "idle"]
    /\ UNCHANGED <<netVars, keyVars, shouldBroadcast, sendThisRound, cntVars,
                   readySent, outVars>>

RunProtocol(n) ==
    /\ pc[n] = "idle"
    /\ runs[n] < MaxRuns
    /\ MayStart(n)
    /\ runs' = [runs EXCEPT ![n] = @ + 1]
    /\ pc' = [pc EXCEPT ![n] = IF n \in CrashNode THEN "idle" ELSE "wait"]
    /\ shouldBroadcast' = [shouldBroadcast EXCEPT ![n] = n \notin CrashNode]
    /\ UNCHANGED <<netVars, keyVars, sendThisRound, cntVars, readySent,
                   outVars>>

\* Mutant: send_this_round_ is cleared for every message, not for every batch.
LastSendClearedByNext(d, upto) ==
    LET sends == {m \in Batch(d, upto) : Msg(m).type = "SEND" /\ Passes(d, m)}
    IN  IF sends # {} /\ Cardinality(Batch(d, upto)) = 1
        THEN Msg(CHOOSE m \in sends : TRUE).block
        ELSE None

\* Of several SEND messages in one batch only the last is remembered.
LastSend(d, upto) ==
    LET sends == {m \in Batch(d, upto) : Msg(m).type = "SEND" /\ Passes(d, m)}
        last  == {m \in sends : \A k \in sends : k[2] <= m[2]}
    IN  IF last = {} THEN None ELSE Msg(CHOOSE m \in last : TRUE).block

\* Mutant: the ECHO case falls through into the READY case.
UpdateRecvMessagesFallsThrough(n, upto) ==
    /\ handled' = [handled EXCEPT ![n] = upto]
    /\ sendThisRound' = [sendThisRound EXCEPT ![n] = LastSend(n, upto)]
    /\ echoThisRound' = [echoThisRound EXCEPT ![n] =
         [b \in Block |-> @[b] + Cardinality(Accepted(n, upto, "ECHO", b))]]
    /\ readyThisRound' = [readyThisRound EXCEPT ![n] =
         [b \in Block |-> @[b] + Cardinality(Accepted(n, upto, "READY", b))
                               + Cardinality(Accepted(n, upto, "ECHO", b))]]
    /\ counted' = [counted EXCEPT ![n] =
         [b \in Block |-> @[b] \cup ReadySenders(n, upto, b)]]

UpdateRecvMessages(n, upto) ==
    /\ handled' = [handled EXCEPT ![n] = upto]
    /\ sendThisRound' = [sendThisRound EXCEPT ![n] = LastSend(n, upto)]
    /\ echoThisRound' = [echoThisRound EXCEPT ![n] =
         [b \in Block |-> @[b] + Cardinality(Accepted(n, upto, "ECHO", b))]]
    /\ readyThisRound' = [readyThisRound EXCEPT ![n] =
         [b \in Block |-> @[b] + Cardinality(Accepted(n, upto, "READY", b))]]
    /\ counted' = [counted EXCEPT ![n] =
         [b \in Block |-> @[b] \cup ReadySenders(n, upto, b)]]

\* How much of each log may have reached d.
Arrivals(d) ==
    LET longest == CHOOSE k \in {Len(sent[s]) : s \in Node} :
                     \A s \in Node : Len(sent[s]) <= k
    IN  {u \in [Node -> 0 .. longest] :
           \A s \in Node : u[s] \in handled[d][s] .. Len(sent[s])}

\* Mutant: the test of send_this_round_ is missing.
RunTaskInWaitAlwaysEchoes(n) ==
    /\ pc[n] = "wait"
    /\ \E upto \in Arrivals(n) :
          /\ Batch(n, upto) # {} \/ ~shouldBroadcast[n]
          /\ UpdateRecvMessages(n, upto)
    /\ pc' = [pc EXCEPT ![n] = "echo"]
    /\ shouldBroadcast' = [shouldBroadcast EXCEPT ![n] = TRUE]
    /\ UNCHANGED <<sent, lost, keyVars, runs, readySent, outVars>>

\* The wait, getMessages (which empties mq_), updateRecvMessages, and the
\* first line of broadcastRound, which FaultNode overrides with nothing.
RunTaskInWait(n) ==
    /\ pc[n] = "wait"
    /\ \E upto \in Arrivals(n) :
          /\ Batch(n, upto) # {} \/ ~shouldBroadcast[n]
          /\ UpdateRecvMessages(n, upto)
    /\ pc' = [pc EXCEPT ![n] =
                 IF n \in FaultNode THEN @
                 ELSE IF sendThisRound'[n] = None THEN "ready" ELSE "echo"]
    /\ shouldBroadcast' = [shouldBroadcast EXCEPT ![n] = @ \/ n \notin FaultNode]
    /\ UNCHANGED <<sent, lost, keyVars, runs, readySent, outVars>>

-----------------------------------------------------------------------------
(* broadcastRound: a message is signed in one step and broadcast in the    *)
(* next.  In the leader the proposer's thread signs and broadcasts too.    *)

\* What the loop over echo_this_round_ still has to announce.
EchoReady(n) ==
    {b \in Block : echoThisRound[n][b] >= EchoThreshold /\ b \notin readySent[n]}

Deliverable(n) == {b \in Block : readyThisRound[n][b] >= DeliverThreshold}

Amplifiable(n) ==
    {b \in Block : readyThisRound[n][b] >= ReadyThreshold /\ b \notin readySent[n]}

\* signBlock for the next message of the round.
RoundSign(n) ==
    /\ \/ pc[n] = "echo"
       \/ pc[n] = "ready" /\ EchoReady(n) \cup Amplifiable(n) # {}
    /\ signedKey[n] = NoKey
    /\ reached[n] = None
    /\ signedKey' = [signedKey EXCEPT ![n] = nextKey[n]]
    /\ SignBlock(n)
    /\ UNCHANGED <<netVars, signing, reached, ctlVars, sendThisRound, cntVars,
                   readySent, outVars>>

RoundEcho(n) ==
    /\ pc[n] = "echo"
    /\ BroadcastMessage(n, "ECHO", sendThisRound[n])
    /\ sendThisRound' = [sendThisRound EXCEPT ![n] = None]
    /\ pc' = [pc EXCEPT ![n] = "ready"]
    /\ UNCHANGED <<handled, lost, nextKey, signing, reached, runs,
                   shouldBroadcast, cntVars, readySent, outVars>>

SendReady(n, b) ==
    /\ BroadcastMessage(n, "READY", b)
    /\ readySent' = [readySent EXCEPT ![n] = @ \cup {b}]

RoundReady(n, b) ==
    /\ pc[n] = "ready"
    /\ b \in EchoReady(n)
    /\ SendReady(n, b)
    /\ UNCHANGED <<handled, lost, nextKey, signing, reached, ctlVars,
                   sendThisRound, cntVars, outVars>>

\* The loop over ready_this_round_ visits the blocks in the order of a hash
\* map and stops at the first that can be delivered.
RoundAmplify(n, b) ==
    /\ pc[n] = "ready"
    /\ EchoReady(n) = {}
    /\ b \in Amplifiable(n)
    /\ SendReady(n, b)
    /\ reached' = [reached EXCEPT ![n] = IF b \in Deliverable(n) THEN b ELSE None]
    /\ UNCHANGED <<handled, lost, nextKey, signing, ctlVars, sendThisRound,
                   cntVars, outVars>>

\* Mutant: the block stays in the counters.
RoundDeliverKeepsCounters(n, b) ==
    /\ pc[n] = "ready"
    /\ EchoReady(n) = {}
    /\ signedKey[n] = NoKey
    /\ b \in Deliverable(n) \ Amplifiable(n)
    /\ reached[n] \in {b, None}
    /\ reached' = [reached EXCEPT ![n] = None]
    /\ shouldBroadcast' = [shouldBroadcast EXCEPT ![n] = FALSE]
    /\ votedHash' = [votedHash EXCEPT ![n] = b]
    /\ erased' = [erased EXCEPT ![n][b] = @ \cup counted[n][b]]
    /\ pc' = [pc EXCEPT ![n] = "accept"]
    /\ UNCHANGED <<netVars, nextKey, signing, signedKey, runs, sendThisRound,
                   cntVars, readySent, acceptedBlocks>>

RoundDeliver(n, b) ==
    /\ pc[n] = "ready"
    /\ EchoReady(n) = {}
    /\ signedKey[n] = NoKey
    /\ b \in Deliverable(n) \ Amplifiable(n)
    /\ reached[n] \in {b, None}
    /\ reached' = [reached EXCEPT ![n] = None]
    /\ shouldBroadcast' = [shouldBroadcast EXCEPT ![n] = FALSE]
    /\ votedHash' = [votedHash EXCEPT ![n] = b]
    /\ echoThisRound' = [echoThisRound EXCEPT ![n][b] = 0]
    /\ readyThisRound' = [readyThisRound EXCEPT ![n][b] = 0]
    /\ counted' = [counted EXCEPT ![n][b] = {}]
    /\ erased' = [erased EXCEPT ![n][b] = @ \cup counted[n][b]]
    /\ pc' = [pc EXCEPT ![n] = "accept"]
    /\ UNCHANGED <<netVars, nextKey, signing, signedKey, runs, sendThisRound,
                   readySent, acceptedBlocks>>

\* accepted_blocks_.push_back(blk_hash), in a critical section of its own.
\* blk_hash refers into the map entry that was just erased.
RoundAccept(n) ==
    /\ pc[n] = "accept"
    /\ \E hash \in {votedHash[n]} \cup Garbage :
          acceptedBlocks' = [acceptedBlocks EXCEPT ![n] = Append(@, hash)]
    /\ pc' = [pc EXCEPT ![n] = "idle"]
    /\ UNCHANGED <<netVars, keyVars, runs, shouldBroadcast, sendThisRound,
                   cntVars, readySent, votedHash, erased>>

RoundEnd(n) ==
    /\ pc[n] = "ready"
    /\ EchoReady(n) \cup Amplifiable(n) \cup Deliverable(n) = {}
    /\ pc' = [pc EXCEPT ![n] = IF shouldBroadcast[n] THEN "wait" ELSE "idle"]
    /\ UNCHANGED <<netVars, keyVars, runs, shouldBroadcast, sendThisRound,
                   cntVars, readySent, outVars>>

\* validator::DBProcess: isConsensus, then getConsensusBlocks(true).  The
\* test driver does not erase.
GetConsensusBlocks(n) ==
    /\ ~TestDriver
    /\ ~shouldBroadcast[n]
    /\ acceptedBlocks' = [acceptedBlocks EXCEPT ![n] = <<>>]
    /\ shouldBroadcast' = [shouldBroadcast EXCEPT ![n] = FALSE]
    /\ UNCHANGED <<netVars, keyVars, pc, runs, sendThisRound, cntVars,
                   readySent, votedHash, erased>>

-----------------------------------------------------------------------------
Next ==
    \/ \E b \in Block : ProposeSign(b)
    \/ ProposeBroadcast
    \/ \E m \in MsgIds, d \in Node : TalkFails(m, d)
    \/ \E n \in Node :
          \/ RunProtocol(n)
          \/ RunTaskInWait(n)
          \/ RoundSign(n)
          \/ RoundEcho(n)
          \/ \E b \in Block :
                RoundReady(n, b) \/ RoundAmplify(n, b) \/ RoundDeliver(n, b)
          \/ RoundAccept(n)
          \/ RoundEnd(n)
          \/ GetConsensusBlocks(n)

Spec == Init /\ [][Next]_vars

-----------------------------------------------------------------------------
(* Properties.                                                             *)

LogTypeOK ==
    /\ sent \in [Node -> Seq(Message)]
    /\ handled \in [Node -> [Node -> Nat]]
    /\ \A d, s \in Node : handled[d][s] <= Len(sent[s])
    /\ lost \in [Node -> SUBSET MsgIds]

KeyTypeOK ==
    /\ nextKey \in [Node -> Nat]
    /\ signing \subseteq Message
    /\ signedKey \in [Node -> Nat \cup {NoKey}]
    /\ reached \in [Node -> Block \cup {None}]

ControlTypeOK ==
    /\ pc \in [Node -> {"idle", "wait", "echo", "ready", "accept"}]
    /\ runs \in [Node -> Nat]
    /\ shouldBroadcast \in [Node -> BOOLEAN]

CounterTypeOK ==
    /\ sendThisRound \in [Node -> Block \cup {None}]
    /\ \A n \in Node : pc[n] = "echo" => sendThisRound[n] \in Block
    /\ echoThisRound \in [Node -> [Block -> Nat]]
    /\ readyThisRound \in [Node -> [Block -> Nat]]
    /\ counted \in [Node -> [Block -> SUBSET Node]]

OutcomeTypeOK ==
    /\ readySent \in [Node -> SUBSET Block]
    /\ votedHash \in [Node -> Block \cup {None}]
    /\ \A n \in Node : pc[n] = "accept" => votedHash[n] \in Block
    /\ acceptedBlocks \in [Node -> Seq(Block \cup Garbage)]
    /\ erased \in [Node -> [Block -> SUBSET Node]]

\* Every variable has its type: no cursor overruns a log, only messages of a
\* log are lost, and broadcastRound never broadcasts an ECHO for no block.
TypeOK ==
    /\ LogTypeOK
    /\ KeyTypeOK
    /\ ControlTypeOK
    /\ CounterTypeOK
    /\ OutcomeTypeOK

\* Validity.  A node delivers only a block that the leader has broadcast in
\* a SEND message and that Block::verify accepts: no ECHO, READY or delivery
\* (broadcastRound) comes from nothing.
Validity ==
    \A n \in Node : votedHash[n] # None => votedHash[n] \in Proposed \cap ValidBlock

\* A block is delivered (node.cc:155) only when 2f + 2 different validators
\* have broadcast READY for it, although ready_this_round_ counts messages.
DeliveryQuorum ==
    \A n \in Node : votedHash[n] # None =>
        Cardinality({s \in Node : votedHash[n] \in readySent[s]})
            >= DeliverThreshold

\* READY messages cannot support each other into existence: before the first
\* READY for a block, as many different validators as the threshold of
\* node.cc:142 asks for have broadcast an ECHO for it.
ReadyJustified ==
    \A n \in Node : \A b \in readySent[n] :
        Cardinality({s \in Node : \E i \in DOMAIN sent[s] :
                        sent[s][i].type = "ECHO" /\ sent[s][i].block = b})
            >= EchoThreshold

\* The counters of updateRecvMessages and the erase of broadcastRound never
\* make a node deliver one block twice, in this run or a later one, as long
\* as there are fewer than two disjoint quorums.
NoDuplicateDelivery ==
    [][N < 2 * DeliverThreshold =>
         \A n \in Node :
            (pc[n] = "ready" /\ pc'[n] = "accept") =>
                erased[n][votedHash'[n]] = {}]_vars

\* Every non-faulty node is in its wait with no message under way to it, or
\* has left RunProtocol.
Quiescent ==
    /\ signing = {}
    /\ \A n \in Node \ FaultNode :
          /\ runs[n] > 0
          /\ pc[n] \in {"wait", "idle"}
          /\ pc[n] = "wait" =>
                \A m \in MsgIds : m[2] <= handled[n][m[1]] \/ m \in lost[n]

\* Totality.  The protocol cannot come to rest with a valid block proposed
\* and a non-faulty node that has not delivered it, when no call failed.
QuiescentDelivery ==
    (/\ Quiescent
     /\ \A n \in Node : lost[n] = {}
     /\ Cardinality(Proposals) = 1
     /\ Proposed \subseteq ValidBlock)
    => \A n \in Node \ FaultNode : votedHash[n] \in Proposed

\* The block of the k-th SEND message of the leader.
NthProposal(k) ==
    LET i == CHOOSE i \in Proposals :
                Cardinality({j \in Proposals : j <= i}) = k
    IN  sent[Leader][i].block

\* What the test driver asserts of every run of RunProtocol: a node leaves it
\* with the block proposed in that run, whatever messages of the previous
\* run it found in its queue.
RunAgreement ==
    \A n \in Node \ FaultNode :
        (pc[n] = "idle" /\ runs[n] > 0) =>
            /\ Cardinality(Proposals) >= runs[n]
            /\ votedHash[n] = NthProposal(runs[n])

\* The proposals, and what the correct nodes have pushed onto accepted_blocks_.
proposedBlocks == [k \in 1 .. Cardinality(Proposals) |-> NthProposal(k)]
acceptedCorrect == [n \in Node \ FaultNode |-> acceptedBlocks[n]]

Blocks == INSTANCE BlockLog WITH Replica  <- Node \ FaultNode,
                                 proposed <- proposedBlocks,
                                 accepted <- acceptedCorrect

\* As the test driver proposes and restarts, and with fewer than two disjoint
\* quorums, the nodes are a log of blocks: the accepted_blocks_ of all correct
\* nodes grow along the one sequence of proposals, through restarts on top of
\* old counters and queues, failed calls and faulty validators.
ImplementsBlockLog == Blocks!Spec

\* Followers sign in their consensus thread alone: checkBlockSig accepts every
\* message of theirs whose predecessor reached the receiver, across runs,
\* restarts and lost calls.
FollowerAccepted ==
    \A d \in Node, m \in MsgIds :
        m[1] # Leader => CheckBlockSig(d, m) \/ <<m[1], m[2] - 1>> \in lost[d]

-----------------------------------------------------------------------------
(* What the comments and the tests of the repository say.                  *)

\* node_test_ex.cc:202-204 compares the voted hashes of the nodes: no two
\* nodes are in consensus on different blocks.
Agreement ==
    \A n, m \in Node :
        (votedHash[n] # None /\ votedHash[m] # None)
            => votedHash[n] = votedHash[m]

\* node.h:206-207 says of checkBlockSig that it stores the next key and is
\* "true if signature is valid": a message of a correct sender, the leader
\* included, is rejected only when the one before it was lost.
RejectOnlyAfterLoss ==
    \A d \in Node, m \in MsgIds :
        CheckBlockSig(d, m) \/ <<m[1], m[2] - 1>> \in lost[d]
=============================================================================
