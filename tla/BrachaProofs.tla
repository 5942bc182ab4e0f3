---------------------------- MODULE BrachaProofs ----------------------------
(***************************************************************************)
(* Proofs about module Bracha, for any number of validators, of faulty     *)
(* validators, of blocks, of lost calls and of restarts: the types, the    *)
(* READY quorum behind a delivery, the validity of what is delivered, the  *)
(* agreement of the test driver's runs, the refinement of BlockLog, the    *)
(* ECHO quorum behind the first READY, the order of the keys, and the      *)
(* states of rest.                                                         *)
(***************************************************************************)
EXTENDS Bracha, FiniteSetTheorems, TLAPS

-----------------------------------------------------------------------------
(* Messages of the logs.                                                   *)

\* A message id is a sender and a place in its log.
LEMMA MsgIdsMember ==
    ASSUME NEW m
    PROVE  m \in MsgIds <=> \E s \in Node : \E i \in DOMAIN sent[s] : m = <<s, i>>
BY DEF MsgIds

\* Only finitely many messages have been broadcast.
LEMMA MsgIdsFinite ==
    ASSUME sent \in [Node -> Seq(Message)]
    PROVE  IsFiniteSet(MsgIds)
<1> DEFINE ids == [s \in Node |-> {s} \X DOMAIN sent[s]]
           all == {{s} \X DOMAIN sent[s] : s \in Node}
<1>1. IsFiniteSet(all)
  <2>1. ids \in Surjection(Node, all)
    BY DEF Surjection
  <2> QED BY <2>1, FS_Surjection, NodeAssumption
<1>2. ASSUME NEW T \in all PROVE IsFiniteSet(T)
  <2>1. PICK s \in Node : T = {s} \X DOMAIN sent[s]
    OBVIOUS
  <2>2. IsFiniteSet(DOMAIN sent[s])
    <3>1. DOMAIN sent[s] = 1 .. Len(sent[s]) /\ Len(sent[s]) \in Nat
      OBVIOUS
    <3> QED BY <3>1, FS_Interval
  <2> QED BY <2>1, <2>2, FS_Product, FS_Singleton
<1> QED BY <1>1, <1>2, FS_UNION DEF MsgIds

\* The messages that a batch adds to a counter.
LEMMA AcceptedFinite ==
    ASSUME sent \in [Node -> Seq(Message)], NEW d, NEW u, NEW t, NEW b
    PROVE  /\ Accepted(d, u, t, b) \subseteq MsgIds
           /\ IsFiniteSet(Accepted(d, u, t, b))
           /\ Cardinality(Accepted(d, u, t, b)) \in Nat
<1>1. Accepted(d, u, t, b) \subseteq MsgIds
  BY DEF Accepted, Batch
<1> QED BY <1>1, MsgIdsFinite, FS_Subset, FS_CardinalityType

\* What a node may have received of the logs is a cursor for each sender.
LEMMA ArrivalsType ==
    ASSUME LogTypeOK, NEW d \in Node, NEW u \in Arrivals(d)
    PROVE  /\ u \in [Node -> Nat]
           /\ \A s \in Node : handled[d][s] <= u[s] /\ u[s] <= Len(sent[s])
<1>1. \A s \in Node : Len(sent[s]) \in Nat /\ handled[d][s] \in Nat
  BY DEF LogTypeOK
<1>2. \A s \in Node : u[s] \in handled[d][s] .. Len(sent[s])
  BY DEF Arrivals
<1>3. \A s \in Node : u[s] \in Nat /\ handled[d][s] <= u[s] /\ u[s] <= Len(sent[s])
  BY <1>1, <1>2
<1>4. DOMAIN u = Node /\ u = [s \in Node |-> u[s]]
  BY DEF Arrivals
<1> QED BY <1>3, <1>4

\* What the SEND slot takes is the block of an accepted SEND of the batch.
LEMMA LastSendBatch ==
    ASSUME NEW d, NEW u, LastSend(d, u) # None
    PROVE  \E m \in Batch(d, u) : /\ LastSend(d, u) = Msg(m).block
                                  /\ Msg(m).type = "SEND"
                                  /\ Msg(m).block \in ValidBlock
<1> DEFINE sends == {m \in Batch(d, u) : Msg(m).type = "SEND" /\ Passes(d, m)}
           last  == {m \in sends : \A k \in sends : k[2] <= m[2]}
           m1    == CHOOSE m \in last : TRUE
<1>1. last # {} /\ LastSend(d, u) = Msg(m1).block
  BY DEF LastSend
<1>2. m1 \in last
  BY <1>1
<1> QED BY <1>1, <1>2 DEF Passes

\* The SEND slot is empty or holds the block of a SEND message of the logs.
LEMMA LastSendType ==
    ASSUME NEW d, NEW u, LastSend(d, u) # None
    PROVE  \E m \in MsgIds : /\ LastSend(d, u) = Msg(m).block
                             /\ Msg(m).type = "SEND"
                             /\ Msg(m).block \in ValidBlock
BY LastSendBatch DEF Batch

-----------------------------------------------------------------------------
(* The logs only grow.                                                     *)

\* Every message keeps its place in the log of its sender.
LogGrows ==
    \A s \in Node : /\ Len(sent[s]) <= Len(sent'[s])
                    /\ \A i \in DOMAIN sent[s] : /\ i \in DOMAIN sent'[s]
                                                 /\ sent'[s][i] = sent[s][i]

\* LogExtended(n, msg): msg became the last message of n.
LogExtended(n, msg) ==
    \A s \in Node : \A i \in DOMAIN sent'[s] :
        \/ i \in DOMAIN sent[s] /\ sent'[s][i] = sent[s][i]
        \/ s = n /\ i = Len(sent[n]) + 1 /\ sent'[s][i] = msg

\* What appending a message does to the logs.
LEMMA AppendToLog ==
    ASSUME sent \in [Node -> Seq(Message)], NEW n \in Node, NEW msg \in Message,
           sent' = [sent EXCEPT ![n] = Append(@, msg)]
    PROVE  /\ sent' \in [Node -> Seq(Message)]
           /\ LogGrows
           /\ LogExtended(n, msg)
           /\ Len(sent[n]) + 1 \in DOMAIN sent'[n]
           /\ sent'[n][Len(sent[n]) + 1] = msg
<1>1. sent'[n] = Append(sent[n], msg) /\ \A s \in Node \ {n} : sent'[s] = sent[s]
  OBVIOUS
<1>2. /\ Len(sent'[n]) = Len(sent[n]) + 1
      /\ DOMAIN sent'[n] = 1 .. Len(sent[n]) + 1
      /\ \A i \in 1 .. Len(sent[n]) : sent'[n][i] = sent[n][i]
      /\ sent'[n][Len(sent[n]) + 1] = msg
  BY <1>1
<1>3. \A s \in Node : Len(sent[s]) \in Nat /\ DOMAIN sent[s] = 1 .. Len(sent[s])
  OBVIOUS
<1>4. sent' \in [Node -> Seq(Message)]
  OBVIOUS
<1>5. LogGrows
  BY <1>1, <1>2, <1>3 DEF LogGrows
<1>6. LogExtended(n, msg)
  BY <1>1, <1>2, <1>3 DEF LogExtended
<1> QED BY <1>2, <1>3, <1>4, <1>5, <1>6

\* The same for broadcastMessage.
LEMMA BroadcastToLog ==
    ASSUME LogTypeOK, KeyTypeOK, NEW n \in Node, NEW t \in {"SEND", "ECHO", "READY"},
           NEW b \in Block, BroadcastMessage(n, t, b)
    PROVE  /\ sent' \in [Node -> Seq(Message)]
           /\ LogGrows
           /\ LogExtended(n, [type |-> t, block |-> b, key |-> signedKey[n]])
           /\ Len(sent[n]) + 1 \in DOMAIN sent'[n]
           /\ sent'[n][Len(sent[n]) + 1] = [type |-> t, block |-> b, key |-> signedKey[n]]
           /\ signedKey' \in [Node -> Nat \cup {NoKey}]
<1>1. [type |-> t, block |-> b, key |-> signedKey[n]] \in Message
  BY DEF KeyTypeOK, Message, BroadcastMessage
<1>2. sent \in [Node -> Seq(Message)] /\ signedKey' \in [Node -> Nat \cup {NoKey}]
  BY DEF LogTypeOK, KeyTypeOK, BroadcastMessage
<1> QED BY <1>1, <1>2, AppendToLog DEF BroadcastMessage

\* Cursors and losses keep their types when the logs grow.
LEMMA LogTypeKept ==
    ASSUME LogTypeOK, LogGrows, sent' \in [Node -> Seq(Message)],
           UNCHANGED <<handled, lost>>
    PROVE  LogTypeOK'
<1>1. MsgIds \subseteq MsgIds'
  BY DEF LogGrows, MsgIds
<1>2. lost' \in [Node -> SUBSET MsgIds']
  BY <1>1 DEF LogTypeOK
<1>3. \A s \in Node : Len(sent[s]) \in Nat /\ Len(sent'[s]) \in Nat
  BY DEF LogTypeOK
<1>4. \A d, s \in Node : handled'[d][s] <= Len(sent'[s])
  BY <1>3 DEF LogTypeOK, LogGrows
<1> QED BY <1>2, <1>4 DEF LogTypeOK

-----------------------------------------------------------------------------
(* Type correctness.                                                       *)

\* The state functions of one group of variables depend on no other group.
LEMMA LogTypeUnchanged == LogTypeOK /\ UNCHANGED netVars => LogTypeOK'
BY DEF LogTypeOK, MsgIds, netVars

\* A READY message keeps the types.
LEMMA SendReadyType ==
    ASSUME TypeOK, NEW n \in Node, NEW b \in Block, SendReady(n, b),
           UNCHANGED <<handled, lost, nextKey, signing>>,
           reached' \in [Node -> Block \cup {None}]
    PROVE  /\ LogTypeOK'
           /\ KeyTypeOK'
           /\ readySent' \in [Node -> SUBSET Block]
<1>1. /\ LogGrows /\ sent' \in [Node -> Seq(Message)]
      /\ signedKey' \in [Node -> Nat \cup {NoKey}]
  BY BroadcastToLog DEF SendReady, TypeOK
<1>2. LogTypeOK'
  BY <1>1, LogTypeKept DEF TypeOK
<1>3. KeyTypeOK'
  BY <1>1 DEF TypeOK, KeyTypeOK
<1>4. readySent' \in [Node -> SUBSET Block]
  BY DEF SendReady, TypeOK, OutcomeTypeOK
<1> QED BY <1>2, <1>3, <1>4

\* Every step keeps the variables in their types.
LEMMA TypeStep == TypeOK /\ [Next]_vars => TypeOK'
<1> SUFFICES ASSUME TypeOK, [Next]_vars PROVE TypeOK'
  OBVIOUS
<1>0. LogTypeOK /\ KeyTypeOK /\ ControlTypeOK /\ CounterTypeOK /\ OutcomeTypeOK
  BY DEF TypeOK
<1>1. ASSUME NEW b \in Block, ProposeSign(b) PROVE TypeOK'
  <2>1. UNCHANGED <<netVars, ctlVars, sendThisRound, cntVars, readySent, outVars>>
    BY <1>1 DEF ProposeSign
  <2>2. KeyTypeOK'
    BY <1>0, <1>1, NodeAssumption DEF ProposeSign, SignBlock, KeyTypeOK, Message,
                                      stepVars
  <2>3. LogTypeOK'
    BY <1>0, <2>1, LogTypeUnchanged
  <2>4. ControlTypeOK' /\ CounterTypeOK' /\ OutcomeTypeOK'
    BY <1>0, <2>1 DEF ControlTypeOK, CounterTypeOK, OutcomeTypeOK, ctlVars,
                      cntVars, outVars
  <2> QED BY <2>2, <2>3, <2>4 DEF TypeOK
<1>2. ASSUME ProposeBroadcast PROVE TypeOK'
  <2>1. PICK m \in signing :
             /\ sent' = [sent EXCEPT ![Leader] = Append(@, m)]
             /\ signing' = {}
             /\ UNCHANGED <<handled, lost, nextKey, stepVars, ctlVars, sendThisRound,
                            cntVars, readySent, outVars>>
    BY <1>2 DEF ProposeBroadcast
  <2>2. LogGrows /\ sent' \in [Node -> Seq(Message)]
    BY <1>0, <2>1, AppendToLog, NodeAssumption DEF LogTypeOK, KeyTypeOK
  <2>3. LogTypeOK'
    BY <1>0, <2>1, <2>2, LogTypeKept
  <2>4. KeyTypeOK'
    BY <1>0, <2>1 DEF KeyTypeOK, stepVars
  <2>5. ControlTypeOK' /\ CounterTypeOK' /\ OutcomeTypeOK'
    BY <1>0, <2>1 DEF ControlTypeOK, CounterTypeOK, OutcomeTypeOK, ctlVars,
                      cntVars, outVars
  <2> QED BY <2>3, <2>4, <2>5 DEF TypeOK
<1>3. ASSUME NEW m \in MsgIds, NEW d \in Node, TalkFails(m, d) PROVE TypeOK'
  <2>1. /\ lost' = [lost EXCEPT ![d] = @ \cup {m}]
        /\ UNCHANGED <<sent, handled, keyVars, ctlVars, sendThisRound,
                       cntVars, readySent, outVars>>
    BY <1>3 DEF TalkFails
  <2>2. MsgIds' = MsgIds
    BY <2>1 DEF MsgIds
  <2>3. LogTypeOK'
    BY <1>0, <2>1, <2>2 DEF LogTypeOK
  <2>4. KeyTypeOK' /\ ControlTypeOK' /\ CounterTypeOK' /\ OutcomeTypeOK'
    BY <1>0, <2>1 DEF KeyTypeOK, ControlTypeOK, CounterTypeOK, OutcomeTypeOK,
                      keyVars, stepVars, ctlVars, cntVars, outVars
  <2> QED BY <2>3, <2>4 DEF TypeOK
<1>4. ASSUME NEW n \in Node, RunProtocol(n) PROVE TypeOK'
  <2>1. /\ pc' = [pc EXCEPT ![n] = IF n \in CrashNode THEN "idle" ELSE "wait"]
        /\ UNCHANGED <<netVars, keyVars, sendThisRound, cntVars, readySent,
                       outVars>>
    BY <1>4 DEF RunProtocol
  <2>2. LogTypeOK' /\ KeyTypeOK'
    BY <1>0, <2>1, LogTypeUnchanged DEF KeyTypeOK, keyVars, stepVars
  <2>3. shouldBroadcast' \in [Node -> BOOLEAN]
    BY <1>0, <1>4 DEF RunProtocol, ControlTypeOK
  <2>4. ControlTypeOK'
    BY <1>0, <1>4, <2>1, <2>3 DEF RunProtocol, ControlTypeOK
  <2>5. CounterTypeOK' /\ OutcomeTypeOK'
    BY <1>0, <2>1 DEF ControlTypeOK, CounterTypeOK, OutcomeTypeOK, cntVars, outVars
  <2> QED BY <2>2, <2>4, <2>5 DEF TypeOK
<1>5. ASSUME NEW n \in Node, RunTaskInWait(n) PROVE TypeOK'
  <2>1. PICK u \in Arrivals(n) : UpdateRecvMessages(n, u)
    BY <1>5 DEF RunTaskInWait
  <2>2. UNCHANGED <<sent, lost, keyVars, runs, readySent, outVars>>
    BY <1>5 DEF RunTaskInWait
  <2>3. LogTypeOK'
    <3>1. handled' \in [Node -> [Node -> Nat]]
      BY <1>0, <2>1, ArrivalsType DEF UpdateRecvMessages, LogTypeOK
    <3>2. \A d, s \in Node : handled'[d][s] <= Len(sent[s])
      BY <1>0, <2>1, ArrivalsType DEF UpdateRecvMessages, LogTypeOK
    <3> QED BY <1>0, <2>2, <3>1, <3>2 DEF LogTypeOK, MsgIds
  <2>4. CounterTypeOK'
    <3>1. LastSend(n, u) \in Block \cup {None}
      BY LastSendType, BlockAssumption
    <3>2. \A t, b : Cardinality(Accepted(n, u, t, b)) \in Nat
      BY <1>0, AcceptedFinite DEF LogTypeOK
    <3>3. \A b : ReadySenders(n, u, b) \subseteq Node
      BY DEF ReadySenders, Accepted, Batch, MsgIds
    <3>4. sendThisRound' \in [Node -> Block \cup {None}]
      BY <1>0, <2>1, <3>1 DEF UpdateRecvMessages, CounterTypeOK
    <3>5. echoThisRound' \in [Node -> [Block -> Nat]]
      BY <1>0, <2>1, <3>2 DEF UpdateRecvMessages, CounterTypeOK
    <3>6. readyThisRound' \in [Node -> [Block -> Nat]]
      BY <1>0, <2>1, <3>2 DEF UpdateRecvMessages, CounterTypeOK
    <3>7. counted' \in [Node -> [Block -> SUBSET Node]]
      BY <1>0, <2>1, <3>3 DEF UpdateRecvMessages, CounterTypeOK
    <3>8. ASSUME NEW k \in Node, pc'[k] = "echo"
          PROVE  sendThisRound'[k] \in Block
      <4>1. CASE k = n
        BY <1>0, <1>5, <3>4, <3>8, <4>1 DEF RunTaskInWait, ControlTypeOK
      <4>2. CASE k # n
        BY <1>0, <1>5, <2>1, <3>8, <4>2
        DEF RunTaskInWait, UpdateRecvMessages, ControlTypeOK, CounterTypeOK
      <4> QED BY <4>1, <4>2
    <3> QED BY <3>4, <3>5, <3>6, <3>7, <3>8 DEF CounterTypeOK
  <2>5. ControlTypeOK'
    BY <1>0, <1>5, <2>2 DEF RunTaskInWait, ControlTypeOK
  <2>6. KeyTypeOK' /\ OutcomeTypeOK'
    BY <1>0, <1>5, <2>2
    DEF RunTaskInWait, KeyTypeOK, ControlTypeOK, OutcomeTypeOK, keyVars, stepVars, outVars
  <2> QED BY <2>3, <2>4, <2>5, <2>6 DEF TypeOK
<1>6. ASSUME NEW n \in Node, RoundEcho(n) PROVE TypeOK'
  <2>1. /\ sendThisRound[n] \in Block
        /\ BroadcastMessage(n, "ECHO", sendThisRound[n])
    BY <1>0, <1>6 DEF RoundEcho, CounterTypeOK
  <2>2. /\ LogGrows /\ sent' \in [Node -> Seq(Message)]
        /\ signedKey' \in [Node -> Nat \cup {NoKey}]
    BY <1>0, <2>1, BroadcastToLog
  <2>3. LogTypeOK' /\ KeyTypeOK'
    BY <1>0, <1>6, <2>2, LogTypeKept DEF RoundEcho, KeyTypeOK
  <2>4. ControlTypeOK' /\ CounterTypeOK' /\ OutcomeTypeOK'
    BY <1>0, <1>6 DEF RoundEcho, ControlTypeOK, CounterTypeOK, OutcomeTypeOK,
                      cntVars, outVars
  <2> QED BY <2>3, <2>4 DEF TypeOK
<1>7. ASSUME NEW n \in Node, NEW b \in Block,
             RoundReady(n, b) \/ RoundAmplify(n, b)
      PROVE TypeOK'
  <2>1. /\ SendReady(n, b)
        /\ UNCHANGED <<handled, lost, nextKey, signing, ctlVars, sendThisRound,
                       cntVars, outVars>>
    BY <1>7 DEF RoundReady, RoundAmplify
  <2>a. reached' \in [Node -> Block \cup {None}]
    BY <1>0, <1>7 DEF RoundReady, RoundAmplify, KeyTypeOK
  <2>2. LogTypeOK' /\ KeyTypeOK' /\ readySent' \in [Node -> SUBSET Block]
    BY <2>1, <2>a, SendReadyType
  <2>3. ControlTypeOK' /\ CounterTypeOK' /\ OutcomeTypeOK'
    BY <1>0, <2>1, <2>2 DEF ControlTypeOK, CounterTypeOK, OutcomeTypeOK,
                            ctlVars, cntVars, outVars
  <2> QED BY <2>2, <2>3 DEF TypeOK
<1>8. ASSUME NEW n \in Node, NEW b \in Block, RoundDeliver(n, b) PROVE TypeOK'
  <2>1. /\ LogTypeOK'
        /\ KeyTypeOK'
        /\ readySent' \in [Node -> SUBSET Block]
    BY <1>0, <1>8, LogTypeUnchanged
    DEF RoundDeliver, KeyTypeOK, OutcomeTypeOK
  <2>2. ControlTypeOK'
    BY <1>0, <1>8 DEF RoundDeliver, ControlTypeOK
  <2>3. CounterTypeOK'
    BY <1>0, <1>8 DEF RoundDeliver, ControlTypeOK, CounterTypeOK
  <2>4. OutcomeTypeOK'
    BY <1>0, <1>8, <2>1, ZenonT(30)
    DEF RoundDeliver, ControlTypeOK, CounterTypeOK, OutcomeTypeOK
  <2> QED BY <2>1, <2>2, <2>3, <2>4 DEF TypeOK
<1>13. ASSUME NEW n \in Node, RoundSign(n) PROVE TypeOK'
  <2>1. LogTypeOK'
    BY <1>0, <1>13, LogTypeUnchanged DEF RoundSign
  <2>2. KeyTypeOK'
    BY <1>0, <1>13 DEF RoundSign, SignBlock, KeyTypeOK
  <2>3. ControlTypeOK' /\ CounterTypeOK' /\ OutcomeTypeOK'
    BY <1>0, <1>13 DEF RoundSign, ControlTypeOK, CounterTypeOK, OutcomeTypeOK,
                       ctlVars, cntVars, outVars
  <2> QED BY <2>1, <2>2, <2>3 DEF TypeOK
<1>9. ASSUME NEW n \in Node, RoundAccept(n) PROVE TypeOK'
  <2>1. PICK hash \in {votedHash[n]} \cup Garbage :
             acceptedBlocks' = [acceptedBlocks EXCEPT ![n] = Append(@, hash)]
    BY <1>9 DEF RoundAccept
  <2>2. hash \in Block \cup Garbage
    BY <1>0, <1>9, <2>1 DEF RoundAccept, OutcomeTypeOK
  <2>3. acceptedBlocks' \in [Node -> Seq(Block \cup Garbage)]
    BY <1>0, <2>1, <2>2 DEF OutcomeTypeOK
  <2>4. /\ pc' = [pc EXCEPT ![n] = "idle"]
        /\ UNCHANGED <<netVars, keyVars, runs, shouldBroadcast, sendThisRound,
                       cntVars, readySent, votedHash, erased>>
    BY <1>9 DEF RoundAccept
  <2>5. LogTypeOK' /\ KeyTypeOK'
    BY <1>0, <2>4, LogTypeUnchanged DEF KeyTypeOK, keyVars, stepVars
  <2>6. ControlTypeOK' /\ CounterTypeOK' /\ OutcomeTypeOK'
    BY <1>0, <2>3, <2>4 DEF ControlTypeOK, CounterTypeOK, OutcomeTypeOK, cntVars
  <2> QED BY <2>5, <2>6 DEF TypeOK
<1>10. ASSUME NEW n \in Node, RoundEnd(n) PROVE TypeOK'
  <2>1. /\ pc' = [pc EXCEPT ![n] = IF shouldBroadcast[n] THEN "wait" ELSE "idle"]
        /\ UNCHANGED <<netVars, keyVars, runs, shouldBroadcast, sendThisRound,
                       cntVars, readySent, outVars>>
    BY <1>10 DEF RoundEnd
  <2>2. LogTypeOK' /\ KeyTypeOK'
    BY <1>0, <2>1, LogTypeUnchanged DEF KeyTypeOK, keyVars, stepVars
  <2>3. ControlTypeOK' /\ CounterTypeOK' /\ OutcomeTypeOK'
    BY <1>0, <2>1 DEF ControlTypeOK, CounterTypeOK, OutcomeTypeOK, cntVars, outVars
  <2> QED BY <2>2, <2>3 DEF TypeOK
<1>11. ASSUME NEW n \in Node, GetConsensusBlocks(n) PROVE TypeOK'
  <2>1. /\ acceptedBlocks' = [acceptedBlocks EXCEPT ![n] = <<>>]
        /\ UNCHANGED <<netVars, keyVars, pc, runs, sendThisRound, cntVars,
                       readySent, votedHash, erased>>
    BY <1>11 DEF GetConsensusBlocks
  <2>2. LogTypeOK' /\ KeyTypeOK'
    BY <1>0, <2>1, LogTypeUnchanged DEF KeyTypeOK, keyVars, stepVars
  <2>3. ControlTypeOK'
    BY <1>0, <1>11, <2>1 DEF GetConsensusBlocks, ControlTypeOK
  <2>4. CounterTypeOK' /\ OutcomeTypeOK'
    BY <1>0, <2>1 DEF ControlTypeOK, CounterTypeOK, OutcomeTypeOK, cntVars
  <2> QED BY <2>2, <2>3, <2>4 DEF TypeOK
<1>12. CASE UNCHANGED vars
  <2>1. LogTypeOK'
    BY <1>0, <1>12, LogTypeUnchanged DEF vars
  <2>2. KeyTypeOK' /\ ControlTypeOK' /\ CounterTypeOK' /\ OutcomeTypeOK'
    BY <1>0, <1>12 DEF KeyTypeOK, ControlTypeOK, CounterTypeOK, OutcomeTypeOK,
                       vars, keyVars, stepVars, ctlVars, cntVars, outVars
  <2> QED BY <2>1, <2>2 DEF TypeOK
<1> QED BY <1>1, <1>2, <1>3, <1>4, <1>5, <1>6, <1>7, <1>8, <1>9, <1>10,
           <1>11, <1>12, <1>13 DEF Next

\* The model is type correct: in particular no cursor of updateRecvMessages
\* overruns a log, and an ECHO is only broadcast for a block that is known.
THEOREM TypeCorrect == Spec => []TypeOK
<1>1. Init => TypeOK
  BY BlockAssumption DEF Init, TypeOK, LogTypeOK, KeyTypeOK, ControlTypeOK,
                         CounterTypeOK, OutcomeTypeOK, MsgIds
<1> QED BY <1>1, TypeStep, PTL DEF Spec
-----------------------------------------------------------------------------
(* Quorums.  ready_this_round_ counts messages; the theorems are about     *)
(* validators.  The link between the two is that a validator broadcasts    *)
(* READY for a block once (ready_sent_), and that a message is handled     *)
(* once (the cursors).                                                     *)

IsReady(s, i, b) == sent[s][i].type = "READY" /\ sent[s][i].block = b

\* A validator with READY for b in its log has b in ready_sent_.
ReadyRecorded ==
    \A s \in Node, b \in Block : \A i \in DOMAIN sent[s] :
        IsReady(s, i, b) => b \in readySent[s]

\* A validator broadcasts READY for a block at most once.
ReadyOnce ==
    \A s \in Node, b \in Block : \A i, j \in DOMAIN sent[s] :
        IsReady(s, i, b) /\ IsReady(s, j, b) => i = j

\* The leader's pending message is a SEND.
SigningSend == \A m \in signing : m.type = "SEND"

\* A sender in the counter, or in one that was erased, has a READY for the
\* block behind the cursor.
CountedHandled ==
    \A n \in Node, b \in Block : \A s \in counted[n][b] \cup erased[n][b] :
        \E i \in DOMAIN sent[s] : i <= handled[n][s] /\ IsReady(s, i, b)

\* No READY is counted again after the counter was erased.
CountedNew ==
    \A n \in Node, b \in Block : counted[n][b] \cap erased[n][b] = {}

\* The counter is the number of different senders.
CounterExact ==
    \A n \in Node, b \in Block : readyThisRound[n][b] = Cardinality(counted[n][b])

\* What a delivery erases is a quorum.
ErasedQuorum ==
    \A n \in Node, b \in Block :
        erased[n][b] # {} => Cardinality(erased[n][b]) >= DeliverThreshold

QuorumInv ==
    /\ TypeOK
    /\ ReadyRecorded
    /\ ReadyOnce
    /\ SigningSend
    /\ CountedHandled
    /\ CountedNew
    /\ CounterExact
    /\ ErasedQuorum
    /\ DeliveryQuorum

\* The thresholds are numbers.
LEMMA ThresholdType ==
    /\ N \in Nat
    /\ F \in Nat
    /\ DeliverThreshold \in Nat
    /\ DeliverThreshold > 0
    /\ ReadyThreshold <= DeliverThreshold
<1>1. IsFiniteSet(Node) /\ IsFiniteSet(Flagged)
  BY NodeAssumption, FS_Subset
<1>2. N \in Nat /\ F \in Nat
  BY <1>1, FS_CardinalityType DEF N, F
<1> QED BY <1>2 DEF DeliverThreshold, ReadyThreshold

\* The READY messages behind the counters stay where they are.
LEMMA HandledKept ==
    ASSUME QuorumInv, LogGrows, handled' = handled,
           NEW n \in Node, NEW b \in Block, NEW s \in counted[n][b] \cup erased[n][b]
    PROVE  \E i \in DOMAIN sent'[s] : i <= handled'[n][s] /\ IsReady(s, i, b)'
<1>1. s \in Node
  BY DEF QuorumInv, TypeOK, CounterTypeOK, OutcomeTypeOK
<1>2. PICK i \in DOMAIN sent[s] : i <= handled[n][s] /\ IsReady(s, i, b)
  BY DEF QuorumInv, CountedHandled
<1>3. i \in DOMAIN sent'[s] /\ sent'[s][i] = sent[s][i]
  BY <1>1 DEF LogGrows
<1>4. IsReady(s, i, b)'
  BY <1>2, <1>3 DEF IsReady
<1> QED BY <1>2, <1>3, <1>4

\* A broadcast that is not a READY leaves the READY messages alone.
LEMMA OtherMessage ==
    ASSUME QuorumInv, NEW n \in Node, NEW msg, LogExtended(n, msg), LogGrows,
           sent' \in [Node -> Seq(Message)], msg.type # "READY",
           UNCHANGED <<handled, readySent, counted, erased>>
    PROVE  ReadyRecorded' /\ ReadyOnce' /\ CountedHandled'
<1>1. \A s \in Node, b \in Block : \A i \in DOMAIN sent'[s] :
         IsReady(s, i, b)' => i \in DOMAIN sent[s] /\ IsReady(s, i, b)
  BY DEF LogExtended, IsReady
<1>2. ReadyRecorded'
  BY <1>1 DEF QuorumInv, ReadyRecorded
<1>3. ReadyOnce'
  BY <1>1 DEF QuorumInv, ReadyOnce
<1>4. CountedHandled'
  BY HandledKept DEF CountedHandled
<1> QED BY <1>2, <1>3, <1>4

\* A READY for a block not in ready_sent_ keeps them apart.
LEMMA ReadyMessage ==
    ASSUME QuorumInv, NEW n \in Node, NEW b \in Block, SendReady(n, b),
           b \notin readySent[n], handled' = handled
    PROVE  /\ ReadyRecorded'
           /\ ReadyOnce'
           /\ \A k \in Node, c \in Block : \A s \in counted[k][c] \cup erased[k][c] :
                \E i \in DOMAIN sent'[s] : i <= handled'[k][s] /\ IsReady(s, i, c)'
           /\ \A s \in Node : readySent[s] \subseteq readySent'[s]
           /\ b \in readySent'[n]
<1> DEFINE msg == [type |-> "READY", block |-> b, key |-> signedKey[n]]
<1>0. LogTypeOK /\ KeyTypeOK /\ CounterTypeOK /\ OutcomeTypeOK
  BY DEF QuorumInv, TypeOK
<1>1. LogGrows /\ LogExtended(n, msg)
  BY <1>0, BroadcastToLog DEF SendReady
<1>2. /\ \A s \in Node : readySent[s] \subseteq readySent'[s]
      /\ b \in readySent'[n]
  BY <1>0 DEF SendReady, OutcomeTypeOK
<1>3. \A s \in Node, c \in Block : \A i \in DOMAIN sent'[s] :
         IsReady(s, i, c)' =>
            \/ i \in DOMAIN sent[s] /\ IsReady(s, i, c)
            \/ s = n /\ c = b /\ i = Len(sent[n]) + 1
  BY <1>1 DEF LogExtended, IsReady
<1>4. ReadyRecorded'
  BY <1>2, <1>3 DEF QuorumInv, ReadyRecorded
<1>5. \A i \in DOMAIN sent[n] : ~IsReady(n, i, b)
  BY DEF QuorumInv, ReadyRecorded
<1>6. ReadyOnce'
  BY <1>3, <1>5 DEF QuorumInv, ReadyOnce
<1>7. \A k \in Node, c \in Block : \A s \in counted[k][c] \cup erased[k][c] :
         \E i \in DOMAIN sent'[s] : i <= handled'[k][s] /\ IsReady(s, i, c)'
  BY <1>1, HandledKept
<1> QED BY <1>2, <1>4, <1>6, <1>7

\* The quorum behind a delivered block does not shrink.
LEMMA QuorumKept ==
    ASSUME DeliveryQuorum, votedHash' = votedHash,
           \A s \in Node : readySent[s] \subseteq readySent'[s]
    PROVE  DeliveryQuorum'
<1> SUFFICES ASSUME NEW n \in Node, votedHash[n] # None
             PROVE  Cardinality({s \in Node : votedHash[n] \in readySent'[s]})
                        >= DeliverThreshold
  BY DEF DeliveryQuorum, DeliverThreshold, F
<1> DEFINE old == {s \in Node : votedHash[n] \in readySent[s]}
           new == {s \in Node : votedHash[n] \in readySent'[s]}
<1>1. old \subseteq new /\ IsFiniteSet(new) /\ IsFiniteSet(old)
  <2>1. old \subseteq new /\ new \subseteq Node
    OBVIOUS
  <2> QED BY <2>1, FS_Subset, NodeAssumption
<1>2. Cardinality(old) <= Cardinality(new)
  BY <1>1, FS_Subset
<1>3. Cardinality(old) \in Nat /\ Cardinality(new) \in Nat
  BY <1>1, FS_CardinalityType
<1>4. Cardinality(old) >= DeliverThreshold
  BY DEF DeliveryQuorum
<1> QED BY <1>2, <1>3, <1>4, ThresholdType

\* A READY that a batch brings comes from a sender that is in no counter yet,
\* and no two of them come from the same sender.
LEMMA BatchIsNew ==
    ASSUME QuorumInv, NEW n \in Node, NEW u \in Arrivals(n), NEW b \in Block
    PROVE  /\ ReadySenders(n, u, b) \subseteq Node
           /\ ReadySenders(n, u, b) \cap (counted[n][b] \cup erased[n][b]) = {}
           /\ Cardinality(ReadySenders(n, u, b)) =
                Cardinality(Accepted(n, u, "READY", b))
           /\ \A s \in ReadySenders(n, u, b) :
                \E i \in DOMAIN sent[s] : i <= u[s] /\ IsReady(s, i, b)
<1> DEFINE A == Accepted(n, u, "READY", b)
           R == ReadySenders(n, u, b)
<1>0. LogTypeOK
  BY DEF QuorumInv, TypeOK
<1>1. ASSUME NEW m \in A
      PROVE  /\ m[1] \in Node
             /\ m[2] \in DOMAIN sent[m[1]]
             /\ m = <<m[1], m[2]>>
             /\ handled[n][m[1]] < m[2]
             /\ m[2] <= u[m[1]]
             /\ IsReady(m[1], m[2], b)
  <2>1. m \in MsgIds
    BY DEF Accepted, Batch
  <2>2. PICK s \in Node : \E i \in DOMAIN sent[s] : m = <<s, i>>
    BY <2>1, MsgIdsMember
  <2>3. m[1] \in Node /\ m[2] \in DOMAIN sent[m[1]] /\ m = <<m[1], m[2]>>
    BY <2>2
  <2>4. handled[n][m[1]] < m[2] /\ m[2] <= u[m[1]]
    BY DEF Accepted, Batch
  <2>5. IsReady(m[1], m[2], b)
    BY DEF Accepted, Msg, IsReady
  <2> QED BY <2>3, <2>4, <2>5
<1>2. R \subseteq Node
  BY <1>1 DEF ReadySenders
<1>3. R \cap (counted[n][b] \cup erased[n][b]) = {}
  <2> SUFFICES ASSUME NEW s \in R, s \in counted[n][b] \cup erased[n][b]
               PROVE  FALSE
    OBVIOUS
  <2>1. PICK m \in A : m[1] = s
    BY DEF ReadySenders
  <2>2. PICK i \in DOMAIN sent[s] : i <= handled[n][s] /\ IsReady(s, i, b)
    BY DEF QuorumInv, CountedHandled
  <2>3. i = m[2]
    BY <1>1, <2>1, <2>2 DEF QuorumInv, ReadyOnce
  <2>4. i \in Nat /\ handled[n][s] \in Nat
    BY <1>0, <1>2, <2>2 DEF LogTypeOK
  <2> QED BY <1>1, <2>1, <2>2, <2>3, <2>4
<1>4. Cardinality(R) = Cardinality(A)
  <2> DEFINE f == [m \in A |-> m[1]]
  <2>1. f \in [A -> R] /\ \A s \in R : \E m \in A : f[m] = s
    BY DEF ReadySenders
  <2>2. \A k, m \in A : f[k] = f[m] => k = m
    <3> SUFFICES ASSUME NEW k \in A, NEW m \in A, k[1] = m[1]
                 PROVE  k = m
      OBVIOUS
    <3>1. k[2] = m[2]
      BY <1>1 DEF QuorumInv, ReadyOnce
    <3> QED BY <1>1, <3>1
  <2>3. f \in Bijection(A, R)
    BY <2>1, <2>2 DEF Bijection, Injection, Surjection, IsInjective
  <2>4. IsFiniteSet(A)
    BY <1>0, AcceptedFinite DEF LogTypeOK
  <2> QED BY <2>3, <2>4, FS_Bijection DEF ExistsBijection
<1>5. \A s \in R : \E i \in DOMAIN sent[s] : i <= u[s] /\ IsReady(s, i, b)
  BY <1>1 DEF ReadySenders
<1> QED BY <1>2, <1>3, <1>4, <1>5

\* A batch: every READY counted adds one sender.
LEMMA QuorumBatch ==
    ASSUME QuorumInv, TypeOK', NEW n \in Node, RunTaskInWait(n)
    PROVE  QuorumInv'
<1>0. LogTypeOK /\ CounterTypeOK /\ OutcomeTypeOK
  BY DEF QuorumInv, TypeOK
<1>1. PICK u \in Arrivals(n) : UpdateRecvMessages(n, u)
  BY DEF RunTaskInWait
<1>2. UNCHANGED <<sent, signing, readySent, votedHash, erased>>
  BY DEF RunTaskInWait, keyVars, outVars
<1>3. /\ u \in [Node -> Nat]
      /\ \A s \in Node : handled[n][s] <= u[s] /\ u[s] <= Len(sent[s])
  BY <1>0, ArrivalsType
<1>4. /\ handled' = [handled EXCEPT ![n] = u]
      /\ handled'[n] = u
      /\ \A k \in Node \ {n} : handled'[k] = handled[k]
  BY <1>0, <1>1 DEF UpdateRecvMessages, LogTypeOK
<1>5. /\ \A b \in Block : counted'[n][b] = counted[n][b] \cup ReadySenders(n, u, b)
      /\ \A b \in Block : readyThisRound'[n][b] =
            readyThisRound[n][b] + Cardinality(Accepted(n, u, "READY", b))
      /\ \A k \in Node \ {n} : /\ counted'[k] = counted[k]
                               /\ readyThisRound'[k] = readyThisRound[k]
  BY <1>0, <1>1 DEF UpdateRecvMessages, CounterTypeOK
<1>6. \A s \in Node, i \in Nat, b \in Block : IsReady(s, i, b)' <=> IsReady(s, i, b)
  BY <1>2 DEF IsReady
<1>7. ReadyRecorded' /\ ReadyOnce' /\ SigningSend' /\ ErasedQuorum'
  BY <1>2 DEF QuorumInv, ReadyRecorded, ReadyOnce, IsReady, SigningSend,
              ErasedQuorum, DeliverThreshold, F
<1>8. DeliveryQuorum'
  BY <1>2, QuorumKept DEF QuorumInv
<1>9. CountedHandled'
  <2> SUFFICES ASSUME NEW k \in Node, NEW b \in Block,
                      NEW s \in counted'[k][b] \cup erased'[k][b]
               PROVE  \E i \in DOMAIN sent'[s] : i <= handled'[k][s] /\ IsReady(s, i, b)'
    BY DEF CountedHandled
  <2>1. s \in Node
    BY DEF TypeOK, CounterTypeOK, OutcomeTypeOK
  <2>2. CASE s \in counted[k][b] \cup erased[k][b]
    <3>1. PICK i \in DOMAIN sent[s] : i <= handled[k][s] /\ IsReady(s, i, b)
      BY <2>2 DEF QuorumInv, CountedHandled
    <3>2. handled[k][s] <= handled'[k][s]
      BY <1>0, <1>3, <1>4, <2>1, SMTT(30) DEF LogTypeOK
    <3>3. i \in Nat /\ handled[k][s] \in Nat
      BY <1>0, <2>1, <3>1 DEF LogTypeOK
    <3>4. handled'[k][s] \in Nat
      BY <1>3, <1>4, <2>1, <3>3
    <3>5. i <= handled'[k][s]
      BY <3>1, <3>2, <3>3, <3>4
    <3> QED BY <1>2, <3>1, <3>5 DEF IsReady
  <2>3. CASE k = n /\ s \in ReadySenders(n, u, b)
    <3>1. PICK i \in DOMAIN sent[s] : i <= u[s] /\ IsReady(s, i, b)
      BY <2>3, BatchIsNew
    <3> QED BY <1>2, <1>4, <2>3, <3>1 DEF IsReady
  <2>4. s \in counted[k][b] \cup erased[k][b] \/ (k = n /\ s \in ReadySenders(n, u, b))
    BY <1>2, <1>5
  <2> QED BY <2>2, <2>3, <2>4
<1>10. CountedNew'
  BY <1>2, <1>5, BatchIsNew DEF QuorumInv, CountedNew
<1>11. CounterExact'
  <2> SUFFICES ASSUME NEW k \in Node, NEW b \in Block
               PROVE  readyThisRound'[k][b] = Cardinality(counted'[k][b])
    BY DEF CounterExact
  <2>1. CASE k # n
    BY <1>5, <2>1 DEF QuorumInv, CounterExact
  <2>2. CASE k = n
    <3> DEFINE R == ReadySenders(n, u, b)
               C == counted[n][b]
    <3>1. R \subseteq Node /\ C \subseteq Node /\ R \cap C = {}
      BY <1>0, BatchIsNew DEF CounterTypeOK
    <3>2. IsFiniteSet(R) /\ IsFiniteSet(C)
      BY <3>1, FS_Subset, NodeAssumption
    <3>3. Cardinality(C \cup R) = Cardinality(C) + Cardinality(R) - Cardinality(C \cap R)
      BY <3>2, FS_Union
    <3>4. Cardinality(C \cap R) = 0
      BY <3>1, FS_EmptySet
    <3>5. Cardinality(R) = Cardinality(Accepted(n, u, "READY", b))
      BY BatchIsNew
    <3>6. Cardinality(C) \in Nat /\ Cardinality(R) \in Nat
      BY <3>2, FS_CardinalityType
    <3>7. readyThisRound[n][b] = Cardinality(C)
      BY DEF QuorumInv, CounterExact
    <3>8. /\ readyThisRound'[n][b] = Cardinality(C) + Cardinality(R)
          /\ counted'[n][b] = C \cup R
      BY <1>5, <3>5, <3>7
    <3> HIDE DEF R, C
    <3> QED BY <2>2, <3>3, <3>4, <3>6, <3>8
  <2> QED BY <2>1, <2>2
<1> QED BY <1>7, <1>8, <1>9, <1>10, <1>11 DEF QuorumInv

\* A delivery: the counter of the block is a quorum of validators.
LEMMA QuorumDeliver ==
    ASSUME QuorumInv, TypeOK', NEW n \in Node, NEW b \in Block, RoundDeliver(n, b)
    PROVE  /\ QuorumInv'
           /\ Cardinality(counted[n][b]) >= DeliverThreshold
           /\ counted[n][b] \subseteq Node
           /\ erased'[n][b] = erased[n][b] \cup counted[n][b]
           /\ \A k \in Node, c \in Block :
                 <<k, c>> # <<n, b>> => erased'[k][c] = erased[k][c]
<1>0. LogTypeOK /\ CounterTypeOK /\ OutcomeTypeOK
  BY DEF QuorumInv, TypeOK
<1>1. /\ handled' = handled
      /\ signing' = signing
      /\ votedHash' = [votedHash EXCEPT ![n] = b]
      /\ readyThisRound' = [readyThisRound EXCEPT ![n][b] = 0]
      /\ counted' = [counted EXCEPT ![n][b] = {}]
      /\ erased' = [erased EXCEPT ![n][b] = @ \cup counted[n][b]]
      /\ b \in Deliverable(n)
  BY DEF RoundDeliver, netVars
<1>2. /\ counted'[n][b] = {}
      /\ readyThisRound'[n][b] = 0
      /\ erased'[n][b] = erased[n][b] \cup counted[n][b]
      /\ \A k \in Node, c \in Block : <<k, c>> # <<n, b>> =>
            /\ counted'[k][c] = counted[k][c]
            /\ readyThisRound'[k][c] = readyThisRound[k][c]
            /\ erased'[k][c] = erased[k][c]
  BY <1>0, <1>1 DEF CounterTypeOK, OutcomeTypeOK
<1>3. /\ counted[n][b] \subseteq Node
      /\ Cardinality(counted[n][b]) >= DeliverThreshold
  BY <1>0, <1>1 DEF Deliverable, QuorumInv, CounterExact, CounterTypeOK
<1>4. /\ ReadyRecorded'
      /\ ReadyOnce'
      /\ \A s \in Node : readySent[s] \subseteq readySent'[s]
      /\ \A k \in Node, c \in Block : \A s \in counted[k][c] \cup erased[k][c] :
            \E i \in DOMAIN sent'[s] : i <= handled'[k][s] /\ IsReady(s, i, c)'
  <2>1. UNCHANGED <<sent, readySent>>
    BY DEF RoundDeliver, netVars
  <2>2. ReadyRecorded' /\ ReadyOnce'
    BY <2>1 DEF QuorumInv, ReadyRecorded, ReadyOnce, IsReady
  <2>3. LogGrows
    BY <1>0, <2>1 DEF LogGrows, LogTypeOK
  <2> QED BY <1>1, <2>1, <2>2, <2>3, HandledKept
<1>5. SigningSend'
  BY <1>1 DEF QuorumInv, SigningSend
<1>6. CountedHandled'
  BY <1>2, <1>4 DEF CountedHandled
<1>7. CountedNew'
  BY <1>2 DEF QuorumInv, CountedNew
<1>8. CounterExact'
  <2> SUFFICES ASSUME NEW k \in Node, NEW c \in Block
               PROVE  readyThisRound'[k][c] = Cardinality(counted'[k][c])
    BY DEF CounterExact
  <2>1. CASE <<k, c>> = <<n, b>>
    <3>1. k = n /\ c = b
      BY <2>1
    <3>2. readyThisRound'[k][c] = 0 /\ counted'[k][c] = {}
      BY <1>2, <3>1
    <3>3. Cardinality({}) = 0
      BY FS_EmptySet
    <3> QED BY <3>2, <3>3
  <2>2. CASE <<k, c>> # <<n, b>>
    <3>1. readyThisRound'[k][c] = readyThisRound[k][c] /\ counted'[k][c] = counted[k][c]
      BY <1>2, <2>2
    <3>2. readyThisRound[k][c] = Cardinality(counted[k][c])
      BY DEF QuorumInv, CounterExact
    <3> QED BY <3>1, <3>2
  <2> QED BY <2>1, <2>2
<1>9. ErasedQuorum'
  <2>1. Cardinality(counted[n][b]) <= Cardinality(erased'[n][b])
    <3>1. erased'[n][b] \subseteq Node
      BY DEF TypeOK, OutcomeTypeOK
    <3>2. IsFiniteSet(erased'[n][b])
      BY <3>1, NodeAssumption, FS_Subset
    <3> QED BY <1>2, <3>2, FS_Subset
  <2>2. Cardinality(counted[n][b]) \in Nat /\ Cardinality(erased'[n][b]) \in Nat
    <3>1. erased'[n][b] \subseteq Node
      BY DEF TypeOK, OutcomeTypeOK
    <3> QED BY <1>3, <3>1, NodeAssumption, FS_Subset, FS_CardinalityType
  <2>3. Cardinality(erased'[n][b]) >= DeliverThreshold
    BY <1>3, <2>1, <2>2, ThresholdType
  <2>4. DeliverThreshold' = DeliverThreshold
    BY DEF DeliverThreshold, F
  <2> QED BY <1>2, <2>3, <2>4 DEF QuorumInv, ErasedQuorum
<1>10. DeliveryQuorum'
  <2> DEFINE voters(h) == {s \in Node : h \in readySent'[s]}
  <2>1. \A h : IsFiniteSet(voters(h)) /\ Cardinality(voters(h)) \in Nat
    BY NodeAssumption, FS_Subset, FS_CardinalityType
  <2>2. counted[n][b] \subseteq voters(b)
    <3> SUFFICES ASSUME NEW s \in counted[n][b] PROVE b \in readySent'[s]
      BY <1>3
    <3>1. PICK i \in DOMAIN sent[s] : IsReady(s, i, b)
      BY DEF QuorumInv, CountedHandled
    <3> QED BY <1>3, <1>4, <3>1 DEF QuorumInv, ReadyRecorded
  <2>3. Cardinality(voters(b)) >= DeliverThreshold
    <3>1. Cardinality(counted[n][b]) <= Cardinality(voters(b))
      BY <2>1, <2>2, FS_Subset
    <3>2. Cardinality(counted[n][b]) \in Nat
      BY <1>3, NodeAssumption, FS_Subset, FS_CardinalityType
    <3> HIDE DEF voters
    <3> QED BY <1>3, <2>1, <3>1, <3>2, ThresholdType
  <2>4. ASSUME NEW k \in Node, votedHash'[k] # None
        PROVE  Cardinality(voters(votedHash'[k])) >= DeliverThreshold
    <3>1. CASE k = n
      BY <1>0, <1>1, <2>3, <3>1 DEF OutcomeTypeOK
    <3>2. CASE k # n
      <4> DEFINE h   == votedHash[k]
                 old == {s \in Node : h \in readySent[s]}
      <4>1. votedHash'[k] = h /\ h # None
        BY <1>0, <1>1, <2>4, <3>2 DEF OutcomeTypeOK
      <4>2. Cardinality(old) >= DeliverThreshold
        BY <4>1 DEF QuorumInv, DeliveryQuorum
      <4>3. old \subseteq voters(h) /\ old \subseteq Node
        BY <1>4
      <4>4. Cardinality(old) <= Cardinality(voters(h)) /\ Cardinality(old) \in Nat
        BY <2>1, <4>3, NodeAssumption, FS_Subset, FS_CardinalityType
      <4> HIDE DEF h, old, voters
      <4> QED BY <2>1, <4>1, <4>2, <4>4, ThresholdType
    <3> QED BY <3>1, <3>2
  <2> QED BY <2>4 DEF DeliveryQuorum, DeliverThreshold, F
<1> QED BY <1>2, <1>3, <1>4, <1>5, <1>6, <1>7, <1>8, <1>9, <1>10 DEF QuorumInv

\* Every step keeps the invariant.
LEMMA QuorumStep == QuorumInv /\ [Next]_vars => QuorumInv'
<1> SUFFICES ASSUME QuorumInv, [Next]_vars PROVE QuorumInv'
  OBVIOUS
<1>0. TypeOK' /\ LogTypeOK /\ KeyTypeOK /\ CounterTypeOK
  BY TypeStep DEF QuorumInv, TypeOK
<1>a. ASSUME UNCHANGED <<sent, handled, readySent, votedHash, counted, erased,
                         readyThisRound>>,
             SigningSend'
      PROVE  QuorumInv'
  <2>1. DeliveryQuorum'
    BY <1>a, QuorumKept DEF QuorumInv
  <2> QED BY <1>0, <1>a, <2>1
      DEF QuorumInv, ReadyRecorded, ReadyOnce, IsReady, CountedHandled,
          CountedNew, CounterExact, ErasedQuorum, DeliverThreshold, F
<1>b. ASSUME NEW n \in Node, NEW msg, LogExtended(n, msg), LogGrows,
             sent' \in [Node -> Seq(Message)], msg.type # "READY",
             UNCHANGED <<handled, readySent, votedHash, counted, erased,
                         readyThisRound>>,
             SigningSend'
      PROVE  QuorumInv'
  <2>1. ReadyRecorded' /\ ReadyOnce' /\ CountedHandled'
    BY <1>b, OtherMessage
  <2>2. DeliveryQuorum'
    BY <1>b, QuorumKept DEF QuorumInv
  <2>3. CountedNew' /\ CounterExact' /\ ErasedQuorum'
    BY <1>b DEF QuorumInv, CountedNew, CounterExact, ErasedQuorum,
                DeliverThreshold, F
  <2> QED BY <1>0, <1>b, <2>1, <2>2, <2>3 DEF QuorumInv
<1>1. ASSUME NEW b \in Block, ProposeSign(b) PROVE QuorumInv'
  BY <1>a, <1>1 DEF ProposeSign, SigningSend, netVars, cntVars, outVars
<1>2. ASSUME ProposeBroadcast PROVE QuorumInv'
  <2>1. PICK m \in signing : /\ sent' = [sent EXCEPT ![Leader] = Append(@, m)]
                             /\ signing' = {}
                             /\ UNCHANGED <<handled, readySent, cntVars, outVars>>
    BY <1>2 DEF ProposeBroadcast
  <2>2. m \in Message /\ m.type = "SEND"
    BY <1>0 DEF KeyTypeOK, QuorumInv, SigningSend
  <2>3. /\ LogExtended(Leader, m)
        /\ LogGrows
        /\ sent' \in [Node -> Seq(Message)]
    BY <1>0, <2>1, <2>2, AppendToLog, NodeAssumption DEF LogTypeOK
  <2>4. SigningSend'
    BY <2>1 DEF SigningSend
  <2> QED BY <1>b, <2>1, <2>2, <2>3, <2>4, NodeAssumption DEF cntVars, outVars
<1>3. ASSUME NEW m \in MsgIds, NEW d \in Node, TalkFails(m, d) PROVE QuorumInv'
  BY <1>a, <1>3 DEF TalkFails, QuorumInv, SigningSend, keyVars, cntVars, outVars
<1>4. ASSUME NEW n \in Node,
             \/ RunProtocol(n) \/ RoundSign(n) \/ RoundEnd(n)
             \/ RoundAccept(n) \/ GetConsensusBlocks(n)
      PROVE QuorumInv'
  BY <1>a, <1>4 DEF RunProtocol, RoundSign, RoundEnd, RoundAccept, GetConsensusBlocks,
                    QuorumInv, SigningSend, netVars, keyVars, cntVars, outVars
<1>5. ASSUME NEW n \in Node, RunTaskInWait(n) PROVE QuorumInv'
  BY <1>0, <1>5, QuorumBatch
<1>6. ASSUME NEW n \in Node, RoundEcho(n) PROVE QuorumInv'
  <2> DEFINE msg == [type |-> "ECHO", block |-> sendThisRound[n], key |-> signedKey[n]]
  <2>1. /\ sendThisRound[n] \in Block
        /\ BroadcastMessage(n, "ECHO", sendThisRound[n])
        /\ UNCHANGED <<handled, signing, readySent, cntVars, outVars>>
    BY <1>0, <1>6 DEF RoundEcho, CounterTypeOK
  <2>2. LogExtended(n, msg) /\ LogGrows /\ sent' \in [Node -> Seq(Message)]
    BY <1>0, <2>1, BroadcastToLog
  <2>3. SigningSend'
    BY <2>1 DEF QuorumInv, SigningSend
  <2>4. msg.type # "READY"
    OBVIOUS
  <2> QED BY <1>b, <2>1, <2>2, <2>3, <2>4 DEF cntVars, outVars
<1>7. ASSUME NEW n \in Node, NEW b \in Block,
             RoundReady(n, b) \/ RoundAmplify(n, b)
      PROVE QuorumInv'
  <2>1. /\ SendReady(n, b)
        /\ b \notin readySent[n]
        /\ UNCHANGED <<handled, signing, cntVars, outVars>>
    BY <1>7 DEF RoundReady, RoundAmplify, EchoReady, Amplifiable
  <2>2. /\ ReadyRecorded'
        /\ ReadyOnce'
        /\ CountedHandled'
        /\ \A s \in Node : readySent[s] \subseteq readySent'[s]
    BY <2>1, ReadyMessage DEF CountedHandled, cntVars, outVars
  <2>3. DeliveryQuorum'
    BY <2>1, <2>2, QuorumKept DEF QuorumInv, outVars
  <2>4. SigningSend' /\ CountedNew' /\ CounterExact' /\ ErasedQuorum'
    BY <2>1 DEF QuorumInv, SigningSend, CountedNew, CounterExact, ErasedQuorum,
                DeliverThreshold, F, cntVars, outVars
  <2> QED BY <1>0, <2>2, <2>3, <2>4 DEF QuorumInv
<1>8. ASSUME NEW n \in Node, NEW b \in Block, RoundDeliver(n, b) PROVE QuorumInv'
  BY <1>0, <1>8, QuorumDeliver
<1>9. CASE UNCHANGED vars
  BY <1>a, <1>9 DEF QuorumInv, SigningSend, vars, netVars, keyVars, cntVars, outVars
<1> QED BY <1>1, <1>2, <1>3, <1>4, <1>5, <1>6, <1>7, <1>8, <1>9 DEF Next

\* The initial state satisfies the invariant.
LEMMA QuorumInit == Init => QuorumInv
<1> SUFFICES ASSUME Init PROVE QuorumInv
  OBVIOUS
<1>1. TypeOK
  BY BlockAssumption DEF Init, TypeOK, LogTypeOK, KeyTypeOK, ControlTypeOK,
                         CounterTypeOK, OutcomeTypeOK, MsgIds
<1>2. ReadyRecorded /\ ReadyOnce /\ SigningSend
  BY DEF Init, ReadyRecorded, ReadyOnce, SigningSend
<1>3. CountedHandled /\ CountedNew /\ CounterExact /\ ErasedQuorum
  BY FS_EmptySet DEF Init, CountedHandled, CountedNew, CounterExact, ErasedQuorum
<1>4. DeliveryQuorum
  BY DEF Init, DeliveryQuorum
<1> QED BY <1>1, <1>2, <1>3, <1>4 DEF QuorumInv

\* A node delivers a block only when 2f + 2 different validators announced
\* it, whatever is lost, reordered or left over from an earlier run.
THEOREM DeliveryNeedsQuorum == Spec => []DeliveryQuorum
<1>1. QuorumInv => DeliveryQuorum
  BY DEF QuorumInv
<1> QED BY <1>1, QuorumInit, QuorumStep, PTL DEF Spec

\* With fewer than 4f + 4 validators no node delivers a block twice, however
\* often RunProtocol is started again.
THEOREM DeliveredOnce == Spec => NoDuplicateDelivery
<1> DEFINE Once == N < 2 * DeliverThreshold =>
                     \A n \in Node :
                        (pc[n] = "ready" /\ pc'[n] = "accept") =>
                            erased[n][votedHash'[n]] = {}
<1>1. QuorumInv /\ [Next]_vars => [Once]_vars
  <2> SUFFICES ASSUME QuorumInv, Next, N < 2 * DeliverThreshold, NEW n \in Node,
                      pc[n] = "ready", pc'[n] = "accept",
                      erased[n][votedHash'[n]] # {}
               PROVE  FALSE
    OBVIOUS
  <2>0. pc \in [Node -> {"idle", "wait", "echo", "ready", "accept"}]
        /\ votedHash \in [Node -> Block \cup {None}]
    BY DEF QuorumInv, TypeOK, ControlTypeOK, OutcomeTypeOK
  <2>a. PICK k \in Node, b \in Block : RoundDeliver(k, b)
    BY <2>0 DEF Next, ProposeSign, ProposeBroadcast, TalkFails, RunProtocol,
           RunTaskInWait, RoundSign, RoundEcho, RoundReady, RoundAmplify,
           RoundAccept, RoundEnd, GetConsensusBlocks, ctlVars
  <2>b. k = n
    BY <2>0, <2>a DEF RoundDeliver
  <2>1. RoundDeliver(n, b)
    BY <2>a, <2>b
  <2>2. TypeOK'
    BY TypeStep DEF QuorumInv
  <2>3. votedHash'[n] = b
    BY <2>0, <2>1 DEF RoundDeliver
  <2>4. /\ Cardinality(counted[n][b]) >= DeliverThreshold
        /\ counted[n][b] \subseteq Node
    BY <2>1, <2>2, QuorumDeliver
  <2>5. /\ Cardinality(erased[n][b]) >= DeliverThreshold
        /\ erased[n][b] \subseteq Node
    BY <2>3 DEF QuorumInv, ErasedQuorum, TypeOK, OutcomeTypeOK
  <2>6. Cardinality(counted[n][b]) \in Nat /\ Cardinality(erased[n][b]) \in Nat
    BY <2>4, <2>5, NodeAssumption, FS_Subset, FS_CardinalityType
  <2>7. Cardinality(counted[n][b]) + Cardinality(erased[n][b]) > Cardinality(Node)
    BY <2>4, <2>5, <2>6, ThresholdType DEF N
  <2>8. counted[n][b] \cap erased[n][b] # {}
    BY <2>4, <2>5, <2>7, NodeAssumption, FS_MajoritiesIntersect
  <2> QED BY <2>8 DEF QuorumInv, CountedNew
<1> QED BY <1>1, QuorumInit, QuorumStep, PTL DEF Spec, NoDuplicateDelivery
-----------------------------------------------------------------------------
(* Validity.  Every ECHO, READY and vote goes back to a SEND of the leader *)
(* for a block that passed verification: the slot and the counters carry   *)
(* that fact from the messages a node receives to those it broadcasts.     *)

Backed == Proposed \cap ValidBlock

\* Only the leader's log has SEND messages, and all others are backed.
LogBacked ==
    \A s \in Node : \A i \in DOMAIN sent[s] :
        IF sent[s][i].type = "SEND" THEN s = Leader
                                    ELSE sent[s][i].block \in Backed

\* So are the SEND slot and the counters.
CounterBacked ==
    /\ \A n \in Node : sendThisRound[n] # None => sendThisRound[n] \in Backed
    /\ \A n \in Node, b \in Block :
          echoThisRound[n][b] > 0 \/ readyThisRound[n][b] > 0 => b \in Backed

ValidInv ==
    /\ TypeOK
    /\ SigningSend
    /\ LogBacked
    /\ CounterBacked
    /\ Validity

\* A node never announces or delivers on an empty counter.
LEMMA ThresholdsPositive ==
    /\ EchoThreshold \in Nat /\ EchoThreshold > 0
    /\ ReadyThreshold \in Nat /\ ReadyThreshold > 0
    /\ DeliverThreshold \in Nat /\ DeliverThreshold > 0
<1>1. N # 0
  BY NodeAssumption, FS_EmptySet DEF N
<1> QED BY <1>1, ThresholdType DEF EchoThreshold, ReadyThreshold

\* A proposal stays a proposal.
LEMMA BackedGrows == ASSUME LogGrows PROVE Backed \subseteq Backed'
BY NodeAssumption DEF LogGrows, Backed, Proposed, Proposals

\* A log with one more backed message, or one more SEND of the leader.
LEMMA LogBackedKept ==
    ASSUME LogBacked, NEW n \in Node, NEW msg, LogExtended(n, msg), LogGrows,
           IF msg.type = "SEND" THEN n = Leader ELSE msg.block \in Backed
    PROVE  LogBacked'
<1> SUFFICES ASSUME NEW s \in Node, NEW i \in DOMAIN sent'[s]
             PROVE  IF sent'[s][i].type = "SEND" THEN s = Leader
                                                 ELSE sent'[s][i].block \in Backed'
  BY DEF LogBacked
<1>1. CASE i \in DOMAIN sent[s] /\ sent'[s][i] = sent[s][i]
  BY <1>1, BackedGrows DEF LogBacked
<1>2. CASE s = n /\ sent'[s][i] = msg
  BY <1>2, BackedGrows
<1> QED BY <1>1, <1>2 DEF LogExtended

\* A message of the logs is backed if it was accepted.
LEMMA AcceptedBacked ==
    ASSUME LogBacked, NEW m \in MsgIds, Msg(m).block \in ValidBlock
    PROVE  Msg(m).block \in Backed
<1>1. PICK s \in Node : \E i \in DOMAIN sent[s] : m = <<s, i>>
  BY MsgIdsMember
<1>2. PICK i \in DOMAIN sent[s] : m = <<s, i>>
  BY <1>1
<1>3. CASE sent[s][i].type = "SEND"
  BY <1>2, <1>3 DEF LogBacked, Backed, Proposed, Proposals, Msg
<1>4. CASE sent[s][i].type # "SEND"
  BY <1>2, <1>4 DEF LogBacked, Msg
<1> QED BY <1>3, <1>4

\* Every step keeps the invariant.
LEMMA ValidStep == ValidInv /\ [Next]_vars => ValidInv'
<1> SUFFICES ASSUME ValidInv, [Next]_vars PROVE ValidInv'
  OBVIOUS
<1>0. /\ TypeOK' /\ LogTypeOK /\ KeyTypeOK /\ CounterTypeOK /\ OutcomeTypeOK
      /\ SigningSend /\ LogBacked /\ CounterBacked /\ Validity
  BY TypeStep DEF ValidInv, TypeOK
<1>a. ASSUME UNCHANGED <<sent, sendThisRound, echoThisRound, readyThisRound,
                         votedHash>>,
             SigningSend'
      PROVE  ValidInv'
  BY <1>0, <1>a DEF ValidInv, LogBacked, CounterBacked, Validity, Backed,
                    Proposed, Proposals
<1>b. ASSUME LogGrows,
             \A n \in Node : sendThisRound'[n] \in {None, sendThisRound[n]},
             UNCHANGED <<echoThisRound, readyThisRound, votedHash>>
      PROVE  CounterBacked' /\ Validity'
  <2>1. Backed \subseteq Backed'
    BY <1>b, BackedGrows
  <2>2. Backed' = Proposed' \cap ValidBlock
    BY DEF Backed
  <2> QED BY <1>0, <1>b, <2>1, <2>2 DEF CounterBacked, Validity, Backed
<1>1. ASSUME NEW b \in Block, ProposeSign(b) PROVE ValidInv'
  BY <1>a, <1>1 DEF ProposeSign, SigningSend, netVars, cntVars, outVars
<1>2. ASSUME ProposeBroadcast PROVE ValidInv'
  <2>1. PICK m \in signing : /\ sent' = [sent EXCEPT ![Leader] = Append(@, m)]
                             /\ signing' = {}
                             /\ UNCHANGED <<sendThisRound, cntVars, outVars>>
    BY <1>2 DEF ProposeBroadcast
  <2>2. m \in Message /\ m.type = "SEND" /\ Leader \in Node
    BY <1>0, NodeAssumption DEF KeyTypeOK, SigningSend
  <2>3. LogExtended(Leader, m) /\ LogGrows
    BY <1>0, <2>1, <2>2, AppendToLog DEF LogTypeOK
  <2>4. LogBacked'
    BY <1>0, <2>2, <2>3, LogBackedKept
  <2>5. CounterBacked' /\ Validity'
    BY <1>b, <2>1, <2>3 DEF cntVars, outVars
  <2> QED BY <1>0, <2>1, <2>4, <2>5 DEF ValidInv, SigningSend
<1>3. ASSUME NEW m \in MsgIds, NEW d \in Node, TalkFails(m, d) PROVE ValidInv'
  BY <1>0, <1>a, <1>3 DEF TalkFails, SigningSend, keyVars, cntVars, outVars
<1>4. ASSUME NEW n \in Node,
             \/ RunProtocol(n) \/ RoundSign(n) \/ RoundEnd(n) \/ RoundAccept(n)
             \/ GetConsensusBlocks(n)
      PROVE ValidInv'
  BY <1>0, <1>a, <1>4 DEF RunProtocol, RoundSign, RoundEnd, RoundAccept,
       GetConsensusBlocks, SigningSend, netVars, keyVars, cntVars, outVars
<1>5. ASSUME NEW n \in Node, RunTaskInWait(n) PROVE ValidInv'
  <2>1. PICK u \in Arrivals(n) : UpdateRecvMessages(n, u)
    BY <1>5 DEF RunTaskInWait
  <2>2. UNCHANGED <<sent, signing, votedHash>> /\ Backed' = Backed
    BY <1>5 DEF RunTaskInWait, keyVars, outVars, Backed, Proposed, Proposals
  <2>3. LogBacked' /\ SigningSend' /\ Validity'
    BY <1>0, <2>2 DEF LogBacked, SigningSend, Validity, Proposed, Proposals
  <2>4. ASSUME NEW k \in Node, sendThisRound'[k] # None
        PROVE  sendThisRound'[k] \in Backed
    <3>1. CASE k = n
      <4>1. sendThisRound'[k] = LastSend(n, u)
        BY <1>0, <2>1, <3>1 DEF UpdateRecvMessages, CounterTypeOK
      <4>2. PICK m \in MsgIds : /\ LastSend(n, u) = Msg(m).block
                                /\ Msg(m).block \in ValidBlock
        BY <2>4, <4>1, LastSendType
      <4> QED BY <1>0, <4>1, <4>2, AcceptedBacked
    <3>2. CASE k # n
      BY <1>0, <2>1, <2>4, <3>2 DEF UpdateRecvMessages, CounterTypeOK, CounterBacked
    <3> QED BY <3>1, <3>2
  <2>5. ASSUME NEW b \in Block, NEW t \in {"ECHO", "READY"},
               Cardinality(Accepted(n, u, t, b)) > 0
        PROVE  b \in Backed
    <3>1. Accepted(n, u, t, b) # {}
      BY <2>5, FS_EmptySet
    <3>2. PICK m \in MsgIds : Msg(m).block = b /\ Msg(m).block \in ValidBlock
      BY <3>1 DEF Accepted, Batch, Passes
    <3> QED BY <1>0, <3>2, AcceptedBacked
  <2>6. ASSUME NEW k \in Node, NEW b \in Block,
               echoThisRound'[k][b] > 0 \/ readyThisRound'[k][b] > 0
        PROVE  b \in Backed
    <3>1. CASE k = n
      <4>1. /\ echoThisRound'[n][b] =
                 echoThisRound[n][b] + Cardinality(Accepted(n, u, "ECHO", b))
            /\ readyThisRound'[n][b] =
                 readyThisRound[n][b] + Cardinality(Accepted(n, u, "READY", b))
            /\ echoThisRound[n][b] \in Nat /\ readyThisRound[n][b] \in Nat
        BY <1>0, <2>1 DEF UpdateRecvMessages, CounterTypeOK
      <4>2. /\ Cardinality(Accepted(n, u, "ECHO", b)) \in Nat
            /\ Cardinality(Accepted(n, u, "READY", b)) \in Nat
        BY <1>0, AcceptedFinite DEF LogTypeOK
      <4>3. \/ echoThisRound[n][b] > 0
            \/ readyThisRound[n][b] > 0
            \/ Cardinality(Accepted(n, u, "ECHO", b)) > 0
            \/ Cardinality(Accepted(n, u, "READY", b)) > 0
        BY <2>6, <3>1, <4>1, <4>2
      <4> QED BY <1>0, <2>5, <4>3 DEF CounterBacked
    <3>2. CASE k # n
      BY <1>0, <2>1, <2>6, <3>2 DEF UpdateRecvMessages, CounterTypeOK, CounterBacked
    <3> QED BY <3>1, <3>2
  <2> QED BY <1>0, <2>2, <2>3, <2>4, <2>6 DEF ValidInv, CounterBacked
<1>6. ASSUME NEW n \in Node, RoundEcho(n) PROVE ValidInv'
  <2> DEFINE msg == [type |-> "ECHO", block |-> sendThisRound[n], key |-> signedKey[n]]
  <2>1. /\ sendThisRound[n] \in Block
        /\ BroadcastMessage(n, "ECHO", sendThisRound[n])
        /\ sendThisRound' = [sendThisRound EXCEPT ![n] = None]
        /\ UNCHANGED <<signing, cntVars, outVars>>
    BY <1>0, <1>6 DEF RoundEcho, CounterTypeOK
  <2>2. LogExtended(n, msg) /\ LogGrows
    BY <1>0, <2>1, BroadcastToLog
  <2>3. msg.type # "SEND" /\ msg.block \in Backed
    BY <1>0, <2>1, BlockAssumption DEF CounterBacked
  <2>4. LogBacked'
    BY <1>0, <2>2, <2>3, LogBackedKept
  <2>5. CounterBacked' /\ Validity'
    BY <1>0, <1>b, <2>1, <2>2 DEF cntVars, outVars, CounterTypeOK
  <2> QED BY <1>0, <2>1, <2>4, <2>5 DEF ValidInv, SigningSend
<1>7. ASSUME NEW n \in Node, NEW b \in Block, SendReady(n, b), b \in Backed
      PROVE  LogBacked' /\ LogGrows
  <2> DEFINE msg == [type |-> "READY", block |-> b, key |-> signedKey[n]]
  <2>1. LogExtended(n, msg) /\ LogGrows
    BY <1>0, <1>7, BroadcastToLog DEF SendReady
  <2>2. msg.type # "SEND" /\ msg.block \in Backed
    BY <1>7
  <2> QED BY <1>0, <2>1, <2>2, LogBackedKept
<1>8. ASSUME NEW n \in Node, NEW b \in Block,
             RoundReady(n, b) \/ RoundAmplify(n, b)
      PROVE ValidInv'
  <2>1. /\ SendReady(n, b)
        /\ UNCHANGED <<signing, sendThisRound, cntVars, outVars>>
        /\ b \in EchoReady(n) \/ b \in Amplifiable(n)
    BY <1>8 DEF RoundReady, RoundAmplify
  <2>2. b \in Backed
    BY <1>0, <2>1, ThresholdsPositive
    DEF EchoReady, Amplifiable, CounterBacked, CounterTypeOK
  <2>3. LogBacked' /\ LogGrows
    BY <1>7, <2>1, <2>2
  <2>4. CounterBacked' /\ Validity'
    BY <1>b, <2>1, <2>3 DEF cntVars, outVars
  <2> QED BY <1>0, <2>1, <2>3, <2>4 DEF ValidInv, SigningSend
<1>9. ASSUME NEW n \in Node, NEW b \in Block, RoundDeliver(n, b) PROVE ValidInv'
  <2>1. b \in Backed
    BY <1>0, <1>9, ThresholdsPositive
    DEF RoundDeliver, Deliverable, CounterBacked, CounterTypeOK
  <2>2. LogBacked' /\ Backed \subseteq Backed'
    BY <1>0, <1>9 DEF RoundDeliver, netVars, LogBacked, Backed, Proposed, Proposals
  <2>3. CounterBacked'
    BY <1>0, <1>9, <2>2 DEF RoundDeliver, CounterBacked, CounterTypeOK
  <2>4. Backed' = Proposed' \cap ValidBlock
    BY DEF Backed
  <2>5. Validity'
    BY <1>0, <1>9, <2>1, <2>2, <2>4 DEF RoundDeliver, Validity, OutcomeTypeOK, Backed
  <2> QED BY <1>0, <1>9, <2>2, <2>3, <2>5 DEF RoundDeliver, ValidInv, SigningSend
<1>10. CASE UNCHANGED vars
  BY <1>0, <1>a, <1>10 DEF SigningSend, vars, netVars, keyVars, cntVars, outVars
<1> QED BY <1>1, <1>2, <1>3, <1>4, <1>5, <1>6, <1>8, <1>9, <1>10 DEF Next

\* Nothing is broadcast, counted or delivered at first.
LEMMA ValidInit == Init => ValidInv
<1> SUFFICES ASSUME Init PROVE ValidInv
  OBVIOUS
<1>1. TypeOK
  BY QuorumInit DEF QuorumInv
<1> QED BY <1>1 DEF Init, ValidInv, SigningSend, LogBacked, CounterBacked, Validity

\* Whatever a node delivers was proposed by the leader and passed Block::verify.
THEOREM DeliveredIsValid == Spec => []Validity
<1>1. Init => ValidInv
  BY ValidInit
<1>2. ValidInv => Validity
  BY DEF ValidInv
<1> QED BY <1>1, <1>2, ValidStep, PTL DEF Spec

-----------------------------------------------------------------------------
(* What a step does to the logs.                                           *)

\* Every step leaves the logs alone, puts the pending proposal into the log
\* of the leader, or appends a message that is not a SEND.
LEMMA LogStep ==
    ASSUME TypeOK, SigningSend, [Next]_vars
    PROVE  /\ LogGrows
           /\ \/ UNCHANGED sent
              \/ ProposeBroadcast
              \/ \E n \in Node, msg \in Message : /\ msg.type # "SEND"
                                                  /\ LogExtended(n, msg)
<1>0. LogTypeOK /\ KeyTypeOK /\ CounterTypeOK /\ sent \in [Node -> Seq(Message)]
  BY DEF TypeOK, LogTypeOK
<1>a. ASSUME UNCHANGED sent PROVE LogGrows
  BY <1>0, <1>a DEF LogGrows
<1>b. ASSUME NEW n \in Node, NEW t \in {"ECHO", "READY"}, NEW b \in Block,
             BroadcastMessage(n, t, b)
      PROVE  /\ LogGrows
             /\ \E msg \in Message : msg.type # "SEND" /\ LogExtended(n, msg)
  <2> DEFINE msg == [type |-> t, block |-> b, key |-> signedKey[n]]
  <2>1. msg \in Message /\ msg.type # "SEND"
    BY <1>0, <1>b DEF BroadcastMessage, KeyTypeOK, Message
  <2>2. LogGrows /\ LogExtended(n, msg)
    BY <1>0, <1>b, BroadcastToLog
  <2> QED BY <2>1, <2>2
<1>1. CASE ProposeBroadcast
  <2>1. PICK m \in signing : sent' = [sent EXCEPT ![Leader] = Append(@, m)]
    BY <1>1 DEF ProposeBroadcast
  <2>2. m \in Message /\ Leader \in Node
    BY <1>0, NodeAssumption DEF KeyTypeOK
  <2> QED BY <1>0, <1>1, <2>1, <2>2, AppendToLog
<1>2. ASSUME NEW n \in Node, RoundEcho(n)
      PROVE  /\ LogGrows
             /\ \E msg \in Message : msg.type # "SEND" /\ LogExtended(n, msg)
  BY <1>0, <1>2, <1>b DEF RoundEcho, CounterTypeOK
<1>3. ASSUME NEW n \in Node, NEW b \in Block,
             RoundReady(n, b) \/ RoundAmplify(n, b) \/ RoundDeliver(n, b)
      PROVE  \/ UNCHANGED sent
             \/ /\ LogGrows
                /\ \E msg \in Message : msg.type # "SEND" /\ LogExtended(n, msg)
  <2>1. UNCHANGED sent \/ BroadcastMessage(n, "READY", b)
    BY <1>3 DEF RoundReady, RoundAmplify, RoundDeliver, SendReady, netVars
  <2> QED BY <1>b, <2>1
<1>4. \/ UNCHANGED sent
      \/ ProposeBroadcast
      \/ \E n \in Node : RoundEcho(n)
      \/ \E n \in Node, b \in Block :
            RoundReady(n, b) \/ RoundAmplify(n, b) \/ RoundDeliver(n, b)
  BY DEF Next, ProposeSign, TalkFails, RunProtocol, RunTaskInWait, RoundSign,
         RoundAccept, RoundEnd, GetConsensusBlocks, vars, netVars
<1> QED BY <1>a, <1>1, <1>2, <1>3, <1>4

\* A message that is not a SEND leaves the proposals alone.
LEMMA ProposalsKept ==
    ASSUME LogGrows, NEW n \in Node, NEW msg, msg.type # "SEND", LogExtended(n, msg)
    PROVE  /\ Proposals' = Proposals
           /\ \A i \in Proposals : sent'[Leader][i] = sent[Leader][i]
BY NodeAssumption DEF LogGrows, LogExtended, Proposals

-----------------------------------------------------------------------------
(* The runs of the test driver.  Proposals are counted in the order of the *)
(* leader's log: the k-th belongs to the k-th run.                         *)

Correct == Node \ FaultNode

\* The number of the proposal at place i of the leader's log.
Rank(i) == Cardinality({j \in Proposals : j <= i})

\* A correct node is in no earlier run than the last proposal, and in exactly
\* the next one while the leader is proposing.
RunsAhead ==
    \A n \in Correct :
        /\ Cardinality(Proposals) <= runs[n]
        /\ signing # {} => runs[n] = Cardinality(Proposals) + 1

\* A node that has left a run has delivered what was proposed in it.
EarlierDelivered ==
    \A n \in Correct : \A i \in Proposals :
        \/ Rank(i) < runs[n]
        \/ Rank(i) = runs[n] /\ pc[n] \in {"idle", "accept"}
        => erased[n][sent[Leader][i].block] # {}

\* A node that leaves a run has voted for the block of that run.
LeavesWithOwn ==
    \A n \in Correct : (runs[n] > 0 /\ pc[n] \in {"idle", "accept"}) =>
        \E i \in Proposals : /\ Rank(i) = runs[n]
                             /\ votedHash[n] = sent[Leader][i].block

\* Only a delivery ends a run.
RunsUntilDelivery ==
    \A n \in Correct : ~shouldBroadcast[n] => pc[n] \in {"idle", "accept"}

RunParts == RunsAhead /\ EarlierDelivered /\ LeavesWithOwn /\ RunsUntilDelivery

RunInv == QuorumInv /\ ValidInv /\ RunParts

\* Proposals are numbered from 1, each with a number of its own.
LEMMA RankFacts ==
    ASSUME LogTypeOK
    PROVE  /\ Cardinality(Proposals) \in Nat
           /\ \A i \in Proposals : Rank(i) \in 1 .. Cardinality(Proposals)
           /\ \A i, j \in Proposals : Rank(i) = Rank(j) => i = j
<1>1. Proposals \subseteq Nat /\ IsFiniteSet(Proposals)
  <2>1. DOMAIN sent[Leader] = 1 .. Len(sent[Leader]) /\ Len(sent[Leader]) \in Nat
    BY NodeAssumption DEF LogTypeOK
  <2>2. Proposals \subseteq 1 .. Len(sent[Leader])
    BY <2>1 DEF Proposals
  <2>3. IsFiniteSet(1 .. Len(sent[Leader]))
    BY <2>1, FS_Interval
  <2>4. Proposals \subseteq Nat
    BY <2>1, <2>2
  <2>5. IsFiniteSet(Proposals)
    BY <2>2, <2>3, FS_Subset
  <2> QED BY <2>4, <2>5
<1>2. Cardinality(Proposals) \in Nat
  BY <1>1, FS_CardinalityType
<1> DEFINE upTo(i) == {j \in Proposals : j <= i}
<1>3. ASSUME NEW i \in Proposals
      PROVE  /\ IsFiniteSet(upTo(i)) /\ Cardinality(upTo(i)) \in Nat
             /\ i \in upTo(i) /\ upTo(i) # {}
             /\ Cardinality(upTo(i)) <= Cardinality(Proposals)
  <2>1. upTo(i) \subseteq Proposals /\ i \in upTo(i)
    BY <1>1
  <2> QED BY <1>1, <2>1, FS_Subset, FS_CardinalityType
<1>4. ASSUME NEW i \in Proposals PROVE Rank(i) \in 1 .. Cardinality(Proposals)
  <2>1. Cardinality(upTo(i)) # 0
    BY <1>3, FS_EmptySet
  <2> HIDE DEF upTo
  <2>2. Cardinality(upTo(i)) \in 1 .. Cardinality(Proposals)
    BY <1>2, <1>3, <2>1
  <2> QED BY <2>2 DEF Rank, upTo
<1>5. ASSUME NEW i \in Proposals, NEW j \in Proposals, i < j PROVE Rank(i) # Rank(j)
  <2>0. i \in Nat /\ j \in Nat
    BY <1>1
  <2>1. ASSUME NEW k \in upTo(i) PROVE k \in upTo(j)
    <3>1. k \in Proposals /\ k \in Nat /\ k <= i
      BY <1>1
    <3>2. k <= j
      BY <1>5, <2>0, <3>1
    <3> QED BY <3>1, <3>2
  <2>2. j \notin upTo(i)
    BY <1>5, <2>0
  <2>3. j \in upTo(j) /\ IsFiniteSet(upTo(j))
    BY <1>3
  <2> HIDE DEF upTo
  <2>4. upTo(i) \in SUBSET upTo(j) /\ upTo(j) # upTo(i)
    BY <2>1, <2>2, <2>3
  <2>5. Cardinality(upTo(j)) # Cardinality(upTo(i))
    BY <2>3, <2>4, FS_Subset
  <2> QED BY <2>5 DEF Rank, upTo
<1>6. ASSUME NEW i \in Proposals, NEW j \in Proposals, Rank(i) = Rank(j) PROVE i = j
  BY <1>1, <1>5, <1>6
<1> QED BY <1>2, <1>4, <1>6

\* Message m is the last of the leader's log, after L others, and the last of
\* the proposals.
ProposalAdded(m, L) ==
    /\ Proposals \subseteq 1 .. L
    /\ Proposals' = Proposals \cup {L + 1}
    /\ \A i \in Proposals : sent'[Leader][i] = sent[Leader][i]
    /\ \A i \in Proposals : Rank(i)' = Rank(i)
    /\ sent'[Leader][L + 1] = m
    /\ Cardinality(Proposals') = Cardinality(Proposals) + 1
    /\ Rank(L + 1)' = Cardinality(Proposals) + 1

\* A proposal gets the next number and leaves the others theirs.
LEMMA ProposalNumbered ==
    ASSUME LogTypeOK, SigningSend, ProposeBroadcast
    PROVE  \E m \in signing, L \in Nat : ProposalAdded(m, L)
<1>t. Leader \in Node
  BY NodeAssumption
<1>1. PICK m \in signing : sent' = [sent EXCEPT ![Leader] = Append(@, m)]
  BY DEF ProposeBroadcast
<1>2. PICK L \in Nat : L = Len(sent[Leader])
  BY <1>t DEF LogTypeOK
<1>3. /\ DOMAIN sent[Leader] = 1 .. L
      /\ DOMAIN sent'[Leader] = 1 .. L + 1
      /\ \A i \in 1 .. L : sent'[Leader][i] = sent[Leader][i]
      /\ sent'[Leader][L + 1] = m /\ m.type = "SEND"
  BY <1>t, <1>1, <1>2 DEF LogTypeOK, SigningSend
<1>4. /\ Proposals \subseteq 1 .. L
      /\ Proposals' = Proposals \cup {L + 1}
      /\ \A i \in Proposals : sent'[Leader][i] = sent[Leader][i]
  BY <1>3 DEF Proposals
<1>5. ASSUME NEW i \in Proposals PROVE Rank(i)' = Rank(i)
  <2>1. {j \in Proposals' : j <= i} = {j \in Proposals : j <= i}
    BY <1>4
  <2> QED BY <2>1 DEF Rank
<1>6. Cardinality(Proposals') = Cardinality(Proposals) + 1
  <2>1. IsFiniteSet(Proposals) /\ L + 1 \notin Proposals
    <3>1. IsFiniteSet(1 .. L)
      BY FS_Interval
    <3>2. L + 1 \notin 1 .. L
      OBVIOUS
    <3> QED BY <1>4, <3>1, <3>2, FS_Subset
  <2> QED BY <1>4, <2>1, FS_AddElement
<1>7. Rank(L + 1)' = Cardinality(Proposals) + 1
  <2>1. {j \in Proposals' : j <= L + 1} = Proposals'
    <3>1. \A j \in Proposals' : j <= L + 1
      BY <1>4
    <3> QED BY <3>1
  <2>2. Rank(L + 1)' = Cardinality(Proposals')
    BY <2>1 DEF Rank
  <2> QED BY <1>6, <2>2
<1>8. ProposalAdded(m, L)
  BY <1>3, <1>4, <1>5, <1>6, <1>7 DEF ProposalAdded
<1> QED BY <1>8

\* With fewer than 4f + 4 validators no block is delivered again: the quorums
\* of two deliveries would have a validator in common.
LEMMA DeliverFresh ==
    ASSUME QuorumInv, TypeOK', N < 2 * DeliverThreshold, NEW n \in Node,
           NEW b \in Block, RoundDeliver(n, b)
    PROVE  erased[n][b] = {}
<1> SUFFICES ASSUME erased[n][b] # {} PROVE FALSE
  OBVIOUS
<1>1. /\ Cardinality(counted[n][b]) >= DeliverThreshold
      /\ counted[n][b] \subseteq Node
  BY QuorumDeliver
<1>2. /\ Cardinality(erased[n][b]) >= DeliverThreshold
      /\ erased[n][b] \subseteq Node
  BY DEF QuorumInv, ErasedQuorum, TypeOK, OutcomeTypeOK
<1>3. Cardinality(counted[n][b]) \in Nat /\ Cardinality(erased[n][b]) \in Nat
  BY <1>1, <1>2, NodeAssumption, FS_Subset, FS_CardinalityType
<1>4. Cardinality(counted[n][b]) + Cardinality(erased[n][b]) > Cardinality(Node)
  BY <1>1, <1>2, <1>3, ThresholdType DEF N
<1>5. counted[n][b] \cap erased[n][b] # {}
  BY <1>1, <1>2, <1>4, NodeAssumption, FS_MajoritiesIntersect
<1> QED BY <1>5 DEF QuorumInv, CountedNew

\* The parts of the invariant when no proposal is added and the other steps
\* of the consensus threads are of the harmless kind.
LEMMA RunPartsKept ==
    ASSUME RunParts, Proposals' = Proposals,
           \A i \in Proposals : sent'[Leader][i] = sent[Leader][i],
           signing' = signing,
           UNCHANGED <<runs, votedHash, erased>>,
           \A n \in Correct : /\ pc'[n] \in {"idle", "accept"} => pc[n] \in {"idle", "accept"}
                              /\ ~shouldBroadcast'[n] => pc'[n] \in {"idle", "accept"}
    PROVE  RunParts'
<1>1. \A i : Rank(i)' = Rank(i)
  BY DEF Rank
<1>2. RunsAhead' /\ RunsUntilDelivery'
  BY DEF RunParts, RunsAhead, RunsUntilDelivery
<1>3. EarlierDelivered'
  BY <1>1 DEF RunParts, EarlierDelivered
<1>4. LeavesWithOwn'
  BY <1>1 DEF RunParts, LeavesWithOwn
<1> QED BY <1>2, <1>3, <1>4 DEF RunParts

\* Only the broadcast of a proposal changes the proposals.
LEMMA ProposalsStay ==
    ASSUME TypeOK, SigningSend, [Next]_vars, ~ProposeBroadcast
    PROVE  /\ Proposals' = Proposals
           /\ \A i \in Proposals : sent'[Leader][i] = sent[Leader][i]
<1>1. CASE UNCHANGED sent
  BY <1>1 DEF Proposals
<1>2. ASSUME NEW n \in Node, NEW msg \in Message, msg.type # "SEND", LogExtended(n, msg)
      PROVE  /\ Proposals' = Proposals
             /\ \A i \in Proposals : sent'[Leader][i] = sent[Leader][i]
  BY <1>2, LogStep, ProposalsKept
<1> QED BY <1>1, <1>2, LogStep

\* Every step keeps the invariant, as the test driver starts and proposes.
LEMMA RunStep ==
    ASSUME RunInv, [Next]_vars, TestDriver, N < 2 * DeliverThreshold
    PROVE  RunInv'
<1>0. /\ QuorumInv' /\ ValidInv' /\ TypeOK /\ TypeOK' /\ SigningSend /\ LogTypeOK
      /\ RunsAhead /\ EarlierDelivered /\ LeavesWithOwn /\ RunsUntilDelivery /\ RunParts
  BY QuorumStep, ValidStep DEF RunInv, QuorumInv, ValidInv, TypeOK, RunParts
<1>t. /\ pc \in [Node -> {"idle", "wait", "echo", "ready", "accept"}]
      /\ runs \in [Node -> Nat]
      /\ shouldBroadcast \in [Node -> BOOLEAN]
      /\ votedHash \in [Node -> Block \cup {None}]
      /\ erased \in [Node -> [Block -> SUBSET Node]]
      /\ Correct \subseteq Node /\ Leader \in Node
  BY <1>0, NodeAssumption DEF TypeOK, ControlTypeOK, OutcomeTypeOK, Correct
<1>r. /\ Cardinality(Proposals) \in Nat
      /\ \A i \in Proposals : Rank(i) \in 1 .. Cardinality(Proposals)
      /\ \A i, j \in Proposals : Rank(i) = Rank(j) => i = j
  BY <1>0, RankFacts
<1> SUFFICES RunParts'
  BY <1>0 DEF RunInv
<1>s. ASSUME ~ProposeBroadcast
      PROVE  /\ Proposals' = Proposals
             /\ \A i \in Proposals : sent'[Leader][i] = sent[Leader][i]
  BY <1>0, <1>s, ProposalsStay
<1>n. ASSUME signing' # {} PROVE ~ProposeBroadcast
  BY <1>n DEF ProposeBroadcast
<1>1. ASSUME NEW b \in Block, ProposeSign(b) PROVE RunParts'
  <2>1. UNCHANGED <<sent, runs, votedHash, erased, pc, shouldBroadcast>>
    BY <1>1 DEF ProposeSign, netVars, ctlVars, outVars
  <2>2. \A n \in Correct : runs[n] = Cardinality(Proposals) + 1
    BY <1>1 DEF ProposeSign, MayPropose, Correct
  <2>3. Proposals' = Proposals
    BY <2>1 DEF Proposals
  <2>4. RunsAhead'
    BY <1>r, <2>1, <2>2, <2>3 DEF RunsAhead
  <2>5. EarlierDelivered' /\ LeavesWithOwn' /\ RunsUntilDelivery'
    BY <1>0, <2>1, <2>3 DEF EarlierDelivered, LeavesWithOwn, RunsUntilDelivery, Rank
  <2> QED BY <2>4, <2>5 DEF RunParts
<1>2. CASE ProposeBroadcast
  <2>1. /\ signing # {} /\ signing' = {}
        /\ UNCHANGED <<pc, runs, shouldBroadcast, votedHash, erased>>
    BY <1>2 DEF ProposeBroadcast, ctlVars, outVars
  <2>2. PICK m \in signing, L \in Nat : ProposalAdded(m, L)
    BY <1>0, <1>2, ProposalNumbered
  <2>4. /\ Proposals \subseteq 1 .. L
        /\ Proposals' = Proposals \cup {L + 1}
        /\ \A i \in Proposals : sent'[Leader][i] = sent[Leader][i]
    BY <2>2 DEF ProposalAdded
  <2>5. \A i \in Proposals : Rank(i)' = Rank(i)
    BY <2>2 DEF ProposalAdded
  <2>6. Cardinality(Proposals') = Cardinality(Proposals) + 1
    BY <2>2 DEF ProposalAdded
  <2>7. Rank(L + 1)' = Cardinality(Proposals) + 1
    BY <2>2 DEF ProposalAdded
  <2>8. \A n \in Correct : runs[n] = Cardinality(Proposals) + 1
    BY <1>0, <2>1 DEF RunsAhead
  <2>9. \A n \in Correct : pc[n] \notin {"idle", "accept"}
    <3> SUFFICES ASSUME NEW n \in Correct, pc[n] \in {"idle", "accept"} PROVE FALSE
      OBVIOUS
    <3>1. runs[n] = Cardinality(Proposals) + 1 /\ runs[n] > 0
      BY <1>r, <2>8
    <3>2. PICK i \in Proposals : Rank(i) = runs[n]
      BY <1>0, <3>1 DEF LeavesWithOwn
    <3> QED BY <1>r, <3>1, <3>2
  <2>10. RunsAhead'
    BY <1>r, <2>1, <2>6, <2>8 DEF RunsAhead
  <2>11. EarlierDelivered'
    <3> SUFFICES ASSUME NEW n \in Correct, NEW i \in Proposals', Rank(i)' < runs[n]
                 PROVE  erased[n][sent'[Leader][i].block] # {}
      BY <2>1, <2>9 DEF EarlierDelivered
    <3>1. i \in Proposals
      <4>1. ASSUME i = L + 1 PROVE FALSE
        BY <1>r, <2>7, <2>8, <4>1
      <4> QED BY <2>4, <4>1
    <3>2. Rank(i) < runs[n]
      BY <2>5, <3>1
    <3> QED BY <1>0, <2>4, <3>1, <3>2 DEF EarlierDelivered
  <2>12. LeavesWithOwn' /\ RunsUntilDelivery'
    BY <1>0, <2>1, <2>9 DEF LeavesWithOwn, RunsUntilDelivery
  <2> QED BY <2>10, <2>11, <2>12 DEF RunParts
<1>3. ASSUME NEW m \in MsgIds, NEW d \in Node, TalkFails(m, d) PROVE RunParts'
  <2>1. UNCHANGED <<sent, signing, runs, votedHash, erased, pc, shouldBroadcast>>
    BY <1>3 DEF TalkFails, keyVars, stepVars, ctlVars, outVars
  <2>2. Proposals' = Proposals
    BY <2>1 DEF Proposals
  <2> QED BY <1>0, <2>1, <2>2, RunPartsKept DEF RunsUntilDelivery
<1>4. ASSUME NEW n \in Node, RunProtocol(n) PROVE RunParts'
  <2>1. /\ UNCHANGED <<sent, signing, votedHash, erased>>
        /\ pc[n] = "idle" /\ runs'[n] = runs[n] + 1
        /\ n \in Correct => pc'[n] = "wait" /\ shouldBroadcast'[n]
        /\ \A k \in Node \ {n} : /\ runs'[k] = runs[k]
                                 /\ pc'[k] = pc[k]
                                 /\ shouldBroadcast'[k] = shouldBroadcast[k]
    <3>1. n \in Correct => n \notin CrashNode
      BY NodeAssumption DEF Correct
    <3> QED BY <1>4, <1>t, <3>1 DEF RunProtocol, netVars, keyVars, outVars
  <2>2. Proposals' = Proposals /\ \A i : Rank(i)' = Rank(i)
    BY <2>1 DEF Proposals, Rank
  <2>3. RunsAhead'
    <3> SUFFICES ASSUME NEW k \in Correct
                 PROVE  /\ Cardinality(Proposals) <= runs'[k]
                        /\ signing # {} => runs'[k] = Cardinality(Proposals) + 1
      BY <2>1, <2>2 DEF RunsAhead
    <3>1. CASE k # n
      BY <1>0, <1>t, <2>1, <3>1 DEF RunsAhead
    <3>2. CASE k = n /\ signing = {}
      BY <1>0, <1>t, <1>r, <2>1, <3>2 DEF RunsAhead
    <3>3. CASE k = n /\ signing # {}
      <4>1. runs[n] = Cardinality(Proposals) + 1 /\ runs[n] > 0
        BY <1>0, <1>r, <3>3 DEF RunsAhead
      <4>2. PICK i \in Proposals : Rank(i) = runs[n]
        BY <1>0, <2>1, <3>3, <4>1 DEF LeavesWithOwn
      <4> QED BY <1>r, <4>1, <4>2
    <3> QED BY <3>1, <3>2, <3>3
  <2>4. EarlierDelivered'
    <3> SUFFICES ASSUME NEW k \in Correct, NEW i \in Proposals,
                        \/ Rank(i) < runs'[k]
                        \/ Rank(i) = runs'[k] /\ pc'[k] \in {"idle", "accept"}
                 PROVE  erased[k][sent[Leader][i].block] # {}
      BY <2>1, <2>2 DEF EarlierDelivered
    <3>1. CASE k # n
      BY <1>0, <1>t, <2>1, <3>1 DEF EarlierDelivered
    <3>2. CASE k = n
      <4>1. Rank(i) \in Nat /\ runs[n] \in Nat /\ Rank(i) < runs[n] + 1
        BY <1>r, <1>t, <2>1, <3>2
      <4>2. Rank(i) < runs[n] \/ Rank(i) = runs[n]
        BY <4>1
      <4> QED BY <1>0, <2>1, <3>2, <4>2 DEF EarlierDelivered
    <3> QED BY <3>1, <3>2
  <2>5. LeavesWithOwn'
    <3> SUFFICES ASSUME NEW k \in Correct, runs'[k] > 0, pc'[k] \in {"idle", "accept"}
                 PROVE  \E i \in Proposals : /\ Rank(i) = runs'[k]
                                             /\ votedHash[k] = sent[Leader][i].block
      BY <2>1, <2>2 DEF LeavesWithOwn
    <3>1. k # n /\ runs'[k] = runs[k] /\ pc'[k] = pc[k]
      BY <1>t, <2>1
    <3> QED BY <1>0, <3>1 DEF LeavesWithOwn
  <2>6. RunsUntilDelivery'
    BY <1>0, <1>t, <2>1 DEF RunsUntilDelivery
  <2> QED BY <2>3, <2>4, <2>5, <2>6 DEF RunParts
<1>5. ASSUME NEW n \in Node,
             \/ RunTaskInWait(n) \/ RoundSign(n) \/ RoundEcho(n) \/ RoundAccept(n)
             \/ RoundEnd(n) \/ \E b \in Block : RoundReady(n, b) \/ RoundAmplify(n, b)
      PROVE  RunParts'
  <2>1. UNCHANGED <<signing, runs, votedHash, erased>>
    BY <1>5 DEF RunTaskInWait, RoundSign, RoundEcho, RoundAccept, RoundEnd, RoundReady,
                RoundAmplify, keyVars, ctlVars, outVars
  <2>2. \A k \in Node \ {n} : pc'[k] = pc[k] /\ shouldBroadcast'[k] = shouldBroadcast[k]
    BY <1>5, <1>t DEF RunTaskInWait, RoundSign, RoundEcho, RoundAccept, RoundEnd,
                RoundReady, RoundAmplify, ctlVars
  <2>3. ASSUME n \in Correct
        PROVE  /\ pc'[n] \in {"idle", "accept"} => pc[n] \in {"idle", "accept"}
               /\ ~shouldBroadcast'[n] => pc'[n] \in {"idle", "accept"}
    <3>1. CASE RunTaskInWait(n)
      BY <1>t, <2>3, <3>1 DEF RunTaskInWait, Correct
    <3>2. CASE RoundEcho(n)
      BY <1>0, <1>t, <2>3, <3>2 DEF RoundEcho, RunsUntilDelivery
    <3>3. CASE RoundAccept(n)
      BY <1>0, <1>t, <2>3, <3>3 DEF RoundAccept, RunsUntilDelivery
    <3>4. CASE RoundEnd(n)
      BY <1>0, <1>t, <2>3, <3>4 DEF RoundEnd, RunsUntilDelivery
    <3>5. CASE \E b \in Block : RoundReady(n, b) \/ RoundAmplify(n, b)
      BY <1>0, <1>t, <2>3, <3>5 DEF RoundReady, RoundAmplify, RunsUntilDelivery, ctlVars
    <3>6. CASE RoundSign(n)
      BY <1>0, <2>3, <3>6 DEF RoundSign, RunsUntilDelivery, ctlVars
    <3> QED BY <1>5, <3>1, <3>2, <3>3, <3>4, <3>5, <3>6
  <2>4. ~ProposeBroadcast
    <3> SUFFICES ASSUME ProposeBroadcast PROVE FALSE
      OBVIOUS
    <3>1. signing # {} /\ signing' = {}
      BY DEF ProposeBroadcast
    <3> QED BY <2>1, <3>1
  <2>5. \A k \in Correct : /\ pc'[k] \in {"idle", "accept"} => pc[k] \in {"idle", "accept"}
                           /\ ~shouldBroadcast'[k] => pc'[k] \in {"idle", "accept"}
    BY <1>0, <1>t, <2>2, <2>3 DEF RunsUntilDelivery
  <2> QED BY <1>0, <1>s, <2>1, <2>4, <2>5, RunPartsKept
<1>6. ASSUME NEW n \in Node, NEW b \in Block, RoundDeliver(n, b) PROVE RunParts'
  <2>1. /\ UNCHANGED <<signing, runs>>
        /\ pc[n] = "ready" /\ pc'[n] = "accept" /\ votedHash'[n] = b
        /\ \A k \in Node \ {n} : /\ pc'[k] = pc[k]
                                 /\ shouldBroadcast'[k] = shouldBroadcast[k]
                                 /\ votedHash'[k] = votedHash[k]
    BY <1>6, <1>t DEF RoundDeliver
  <2>2. ~ProposeBroadcast
    <3> SUFFICES ASSUME ProposeBroadcast PROVE FALSE
      OBVIOUS
    <3>1. signing # {} /\ signing' = {}
      BY DEF ProposeBroadcast
    <3> QED BY <2>1, <3>1
  <2>3. /\ Proposals' = Proposals /\ \A i : Rank(i)' = Rank(i)
        /\ \A i \in Proposals : sent'[Leader][i] = sent[Leader][i]
    BY <1>s, <2>2 DEF Rank
  <2>4. /\ erased[n][b] = {}
        /\ erased'[n][b] = erased[n][b] \cup counted[n][b]
        /\ \A k \in Node, c \in Block :
              <<k, c>> # <<n, b>> => erased'[k][c] = erased[k][c]
    BY <1>0, <1>6, DeliverFresh, QuorumDeliver DEF RunInv
  <2>5. erased'[n][b] # {}
    <3>1. Cardinality(counted[n][b]) >= DeliverThreshold
      BY <1>0, <1>6, QuorumDeliver DEF RunInv
    <3>2. counted[n][b] # {}
      BY <3>1, ThresholdType, FS_EmptySet
    <3> QED BY <2>4, <3>2
  <2>6. \A k \in Node, c \in Block : erased[k][c] # {} => erased'[k][c] # {}
    BY <2>4, <2>5
  <2>7. ASSUME NEW i \in Proposals PROVE sent[Leader][i].block \in Block
    <3>1. sent[Leader] \in Seq(Message) /\ i \in DOMAIN sent[Leader]
      BY <1>0, <1>t DEF Proposals, LogTypeOK
    <3>2. sent[Leader][i] \in Message
      BY <3>1
    <3> QED BY <3>2 DEF Message
  <2>8. ASSUME n \in Correct
        PROVE  \E i \in Proposals : Rank(i) = runs[n] /\ sent[Leader][i].block = b
    <3>1. b \in Proposed
      BY <1>6, ThresholdsPositive DEF RoundDeliver, Deliverable, RunInv, ValidInv,
                    CounterBacked, TypeOK, CounterTypeOK, Backed
    <3>2. PICK i \in Proposals : sent[Leader][i].block = b
      BY <3>1 DEF Proposed
    <3>3. Rank(i) <= runs[n] /\ ~(Rank(i) < runs[n])
      BY <1>0, <1>r, <1>t, <2>4, <2>8, <3>2 DEF RunsAhead, EarlierDelivered
    <3>4. Rank(i) \in Nat /\ runs[n] \in Nat
      BY <1>r, <1>t
    <3>5. Rank(i) = runs[n]
      BY <3>3, <3>4
    <3> QED BY <3>2, <3>5
  <2>9. RunsAhead'
    BY <1>0, <2>1, <2>3 DEF RunsAhead
  <2>10. EarlierDelivered'
    <3> SUFFICES ASSUME NEW k \in Correct, NEW i \in Proposals,
                        \/ Rank(i) < runs[k]
                        \/ Rank(i) = runs[k] /\ pc'[k] \in {"idle", "accept"}
                 PROVE  erased'[k][sent[Leader][i].block] # {}
      BY <2>1, <2>3 DEF EarlierDelivered
    <3>1. CASE k # n \/ Rank(i) < runs[k]
      <4>1. erased[k][sent[Leader][i].block] # {}
        BY <1>0, <1>t, <2>1, <3>1 DEF EarlierDelivered
      <4> QED BY <1>t, <2>6, <2>7, <4>1
    <3>2. CASE k = n /\ Rank(i) = runs[n]
      <4>1. PICK j \in Proposals : Rank(j) = runs[n] /\ sent[Leader][j].block = b
        BY <2>8, <3>2
      <4>2. i = j
        BY <1>r, <3>2, <4>1
      <4> QED BY <2>5, <3>2, <4>1, <4>2
    <3> QED BY <3>1, <3>2
  <2>11. LeavesWithOwn'
    <3> SUFFICES ASSUME NEW k \in Correct, runs[k] > 0, pc'[k] \in {"idle", "accept"}
                 PROVE  \E i \in Proposals : /\ Rank(i) = runs[k]
                                             /\ votedHash'[k] = sent[Leader][i].block
      BY <2>1, <2>3 DEF LeavesWithOwn
    <3>1. CASE k # n
      BY <1>0, <1>t, <2>1, <3>1 DEF LeavesWithOwn
    <3>2. CASE k = n
      BY <2>1, <2>8, <3>2
    <3> QED BY <3>1, <3>2
  <2>12. RunsUntilDelivery'
    BY <1>0, <1>t, <2>1 DEF RunsUntilDelivery
  <2> QED BY <2>9, <2>10, <2>11, <2>12 DEF RunParts
<1>7. CASE UNCHANGED vars
  <2>1. UNCHANGED <<sent, signing, runs, votedHash, erased, pc, shouldBroadcast>>
    BY <1>7 DEF vars, netVars, keyVars, stepVars, ctlVars, outVars
  <2>2. Proposals' = Proposals
    BY <2>1 DEF Proposals
  <2> QED BY <1>0, <2>1, <2>2, RunPartsKept DEF RunsUntilDelivery
<1> QED BY <1>1, <1>2, <1>3, <1>4, <1>5, <1>6, <1>7 DEF Next, GetConsensusBlocks

\* At the beginning nothing is proposed.
LEMMA RunInit == Init => RunInv
<1> SUFFICES ASSUME Init PROVE RunInv
  OBVIOUS
<1>1. QuorumInv /\ ValidInv
  BY QuorumInit, ValidInit
<1>2. Proposals = {}
  BY NodeAssumption DEF Init, Proposals
<1>3. RunsAhead
  BY <1>2, FS_EmptySet DEF Init, RunsAhead, Correct
<1>4. EarlierDelivered /\ LeavesWithOwn /\ RunsUntilDelivery
  BY <1>2 DEF Init, EarlierDelivered, LeavesWithOwn, RunsUntilDelivery, Correct
<1> QED BY <1>1, <1>3, <1>4 DEF RunInv, RunParts

\* As the test driver starts the nodes and proposes, and with fewer than
\* 4f + 4 validators, every run of RunProtocol ends with the block proposed in
\* it, however many runs there are and whatever calls fail.
THEOREM RunsAgree ==
    ASSUME TestDriver, N < 2 * DeliverThreshold
    PROVE  Spec => []RunAgreement
<1>1. Init => RunInv
  BY RunInit
<1>2. RunInv /\ [Next]_vars => RunInv'
  BY RunStep
<1>3. RunInv => RunAgreement
  <2> SUFFICES ASSUME RunInv, NEW n \in Correct, pc[n] = "idle", runs[n] > 0
               PROVE  /\ Cardinality(Proposals) >= runs[n]
                      /\ votedHash[n] = NthProposal(runs[n])
    BY DEF RunAgreement, Correct
  <2>1. PICK i \in Proposals : Rank(i) = runs[n] /\ votedHash[n] = sent[Leader][i].block
    BY DEF RunInv, RunParts, LeavesWithOwn
  <2>2. /\ Cardinality(Proposals) \in Nat
        /\ \A k \in Proposals : Rank(k) \in 1 .. Cardinality(Proposals)
        /\ \A k, j \in Proposals : Rank(k) = Rank(j) => k = j
    BY RankFacts DEF RunInv, QuorumInv, TypeOK
  <2>3. Cardinality(Proposals) >= runs[n]
    BY <2>1, <2>2
  <2> DEFINE c == CHOOSE k \in Proposals : Rank(k) = runs[n]
  <2>4. c \in Proposals /\ Rank(c) = runs[n]
    BY <2>1
  <2>5. c = i
    BY <2>1, <2>2, <2>4
  <2>6. NthProposal(runs[n]) = sent[Leader][c].block
    BY DEF NthProposal, Rank
  <2> QED BY <2>1, <2>3, <2>5, <2>6
<1> QED BY <1>1, <1>2, <1>3, PTL DEF Spec

-----------------------------------------------------------------------------
(* The sequence of blocks.  Under the test driver a run ends with one push *)
(* onto accepted_blocks_, so the k-th entry of a node is for the k-th      *)
(* proposal.                                                               *)

\* The proposals have the numbers from 1 on.
Numbered ==
    \A k \in 1 .. Cardinality(Proposals) : \E i \in Proposals : Rank(i) = k

\* A correct node has an entry for every run that it has left.
OnePerRun ==
    \A n \in Correct :
        /\ pc[n] # "idle" => runs[n] > 0
        /\ Len(acceptedBlocks[n]) = IF pc[n] = "idle" THEN runs[n] ELSE runs[n] - 1

SequenceInv == RunInv /\ Numbered /\ OnePerRun

\* What NthProposal chooses.
LEMMA NthProposalIs ==
    ASSUME LogTypeOK, NEW i \in Proposals
    PROVE  NthProposal(Rank(i)) = sent[Leader][i].block
<1> DEFINE c == CHOOSE k \in Proposals : Rank(k) = Rank(i)
<1>1. c \in Proposals /\ Rank(c) = Rank(i)
  OBVIOUS
<1>2. c = i
  BY <1>1, RankFacts
<1>3. NthProposal(Rank(i)) = sent[Leader][c].block
  BY DEF NthProposal, Rank
<1> QED BY <1>2, <1>3

\* The proposals are a sequence of blocks.
LEMMA ProposedType ==
    ASSUME LogTypeOK, Numbered
    PROVE  /\ proposedBlocks \in Seq(Block)
           /\ Len(proposedBlocks) = Cardinality(Proposals)
           /\ \A i \in Proposals : proposedBlocks[Rank(i)] = sent[Leader][i].block
<1>1. /\ Cardinality(Proposals) \in Nat
      /\ \A i \in Proposals : Rank(i) \in 1 .. Cardinality(Proposals)
  BY RankFacts
<1>2. ASSUME NEW i \in Proposals PROVE sent[Leader][i].block \in Block
  <2>1. sent[Leader] \in Seq(Message) /\ i \in DOMAIN sent[Leader]
    BY NodeAssumption DEF Proposals, LogTypeOK
  <2>2. sent[Leader][i] \in Message
    BY <2>1
  <2> QED BY <2>2 DEF Message
<1>3. ASSUME NEW k \in 1 .. Cardinality(Proposals) PROVE NthProposal(k) \in Block
  <2>1. PICK i \in Proposals : Rank(i) = k
    BY DEF Numbered
  <2> QED BY <1>2, <2>1, NthProposalIs
<1>4. /\ proposedBlocks \in Seq(Block)
      /\ Len(proposedBlocks) = Cardinality(Proposals)
  BY <1>1, <1>3 DEF proposedBlocks
<1>5. ASSUME NEW i \in Proposals
      PROVE  proposedBlocks[Rank(i)] = sent[Leader][i].block
  BY <1>1, NthProposalIs DEF proposedBlocks
<1> QED BY <1>4, <1>5

\* While no proposal is added, the sequence stays what it is.
LEMMA ProposedKept ==
    ASSUME Numbered, Proposals' = Proposals,
           \A i \in Proposals : sent'[Leader][i] = sent[Leader][i]
    PROVE  proposedBlocks' = proposedBlocks /\ Numbered'
<1>1. Numbered'
  BY DEF Numbered, Rank
<1>2. ASSUME NEW k \in 1 .. Cardinality(Proposals)
      PROVE  NthProposal(k)' = NthProposal(k)
  <2> DEFINE c == CHOOSE i \in Proposals : Cardinality({j \in Proposals : j <= i}) = k
  <2>1. c \in Proposals
    BY DEF Numbered, Rank
  <2>2. NthProposal(k) = sent[Leader][c].block
    BY DEF NthProposal
  <2>3. NthProposal(k)' = sent'[Leader][c].block
    BY DEF NthProposal
  <2> QED BY <2>1, <2>2, <2>3
<1>3. proposedBlocks' = proposedBlocks
  BY <1>2 DEF proposedBlocks
<1> QED BY <1>1, <1>3

\* A proposal is appended to it.
LEMMA ProposedGrows ==
    ASSUME LogTypeOK, Numbered, NEW m, NEW L \in Nat, ProposalAdded(m, L)
    PROVE  proposedBlocks' = Append(proposedBlocks, m.block) /\ Numbered'
<1> DEFINE rank(i) == Cardinality({j \in Proposals' : j <= i})
           card == Cardinality(Proposals)
<1>1. /\ card \in Nat
      /\ \A i \in Proposals : Rank(i) \in 1 .. card
      /\ \A i, j \in Proposals : Rank(i) = Rank(j) => i = j
  BY RankFacts
<1>2. /\ \A i \in Proposals : rank(i) = Rank(i)
      /\ rank(L + 1) = card + 1
      /\ Proposals' = Proposals \cup {L + 1}
      /\ Cardinality(Proposals') = card + 1
      /\ \A i \in Proposals : sent'[Leader][i] = sent[Leader][i]
      /\ sent'[Leader][L + 1] = m
  BY DEF ProposalAdded, Rank
<1>3. \A k \in 1 .. card : \E i \in Proposals : Rank(i) = k
  BY DEF Numbered
<1>4. \A k : NthProposal(k)' = sent'[Leader][CHOOSE i \in Proposals' : rank(i) = k].block
  BY DEF NthProposal
<1>5. Numbered' <=> \A k \in 1 .. Cardinality(Proposals') : \E i \in Proposals' : rank(i) = k
  BY DEF Numbered, Rank
<1>6. /\ proposedBlocks \in Seq(Block) /\ Len(proposedBlocks) = card
      /\ \A i \in Proposals : proposedBlocks[Rank(i)] = sent[Leader][i].block
  BY ProposedType
<1>7. proposedBlocks' = [k \in 1 .. Cardinality(Proposals') |-> NthProposal(k)']
  BY DEF proposedBlocks
<1> HIDE DEF rank, card
<1>8. Numbered'
  <2> SUFFICES ASSUME NEW k \in 1 .. card + 1
               PROVE  \E i \in Proposals' : rank(i) = k
    BY <1>2, <1>5
  <2>1. CASE k = card + 1
    BY <1>2, <2>1
  <2>2. CASE k # card + 1
    <3>1. k \in 1 .. card
      BY <1>1, <2>2
    <3> QED BY <1>2, <1>3, <3>1
  <2> QED BY <2>1, <2>2
<1>9. ASSUME NEW k \in 1 .. card PROVE NthProposal(k)' = proposedBlocks[k]
  <2>1. PICK i \in Proposals : Rank(i) = k
    BY <1>3
  <2> DEFINE c == CHOOSE x \in Proposals' : rank(x) = k
  <2>2. c \in Proposals' /\ rank(c) = k
    BY <1>2, <2>1
  <2> HIDE DEF c
  <2>3. k # card + 1
    BY <1>1
  <2>4. c \in Proposals
    BY <1>2, <2>2, <2>3
  <2>5. c = i
    BY <1>1, <1>2, <2>1, <2>2, <2>4
  <2>6. NthProposal(k)' = sent'[Leader][c].block
    BY <1>4 DEF c
  <2> QED BY <1>2, <1>6, <2>1, <2>5, <2>6
<1>10. ASSUME NEW k, k = card + 1 PROVE NthProposal(k)' = m.block
  <2> DEFINE c == CHOOSE x \in Proposals' : rank(x) = k
  <2>1. c \in Proposals' /\ rank(c) = k
    BY <1>2, <1>10
  <2> HIDE DEF c
  <2>2. \A i \in Proposals : Rank(i) # k
    BY <1>1, <1>10
  <2>3. c = L + 1
    BY <1>2, <2>1, <2>2
  <2>4. NthProposal(k)' = sent'[Leader][c].block
    BY <1>4 DEF c
  <2> QED BY <1>2, <2>3, <2>4
<1>11. proposedBlocks' = Append(proposedBlocks, m.block)
  <2> DEFINE new == [k \in 1 .. card + 1 |-> NthProposal(k)']
  <2>1. proposedBlocks' = new
    BY <1>2, <1>7
  <2>2. \A k \in 1 .. card + 1 :
           new[k] = IF k = card + 1 THEN m.block ELSE proposedBlocks[k]
    <3> SUFFICES ASSUME NEW k \in 1 .. card + 1
                 PROVE  NthProposal(k)' = IF k = card + 1 THEN m.block ELSE proposedBlocks[k]
      OBVIOUS
    <3>1. CASE k = card + 1
      BY <1>10, <3>1
    <3>2. CASE k # card + 1
      <4>1. k \in 1 .. card
        BY <1>1, <3>2
      <4> QED BY <1>9, <3>2, <4>1
    <3> QED BY <3>1, <3>2
  <2>3. DOMAIN new = 1 .. card + 1
    OBVIOUS
  <2>4. new = [k \in 1 .. card + 1 |->
                 IF k = card + 1 THEN m.block ELSE proposedBlocks[k]]
    BY <2>2
  <2>5. Append(proposedBlocks, m.block)
          = [k \in 1 .. card + 1 |-> IF k = card + 1 THEN m.block ELSE proposedBlocks[k]]
    BY <1>1, <1>6
  <2> QED BY <2>1, <2>4, <2>5
<1> QED BY <1>8, <1>11

\* A node that leaves a run has pushed once.
LEMMA OnePerRunStep ==
    ASSUME TypeOK, RunsUntilDelivery, OnePerRun, [Next]_vars, TestDriver
    PROVE  OnePerRun'
<1> SUFFICES ASSUME NEW n \in Correct
             PROVE  /\ pc'[n] # "idle" => runs'[n] > 0
                    /\ Len(acceptedBlocks'[n])
                          = IF pc'[n] = "idle" THEN runs'[n] ELSE runs'[n] - 1
  BY DEF OnePerRun
<1>t. /\ pc \in [Node -> {"idle", "wait", "echo", "ready", "accept"}]
      /\ runs \in [Node -> Nat]
      /\ shouldBroadcast \in [Node -> BOOLEAN]
      /\ acceptedBlocks \in [Node -> Seq(Block \cup Garbage)]
      /\ votedHash \in [Node -> Block \cup {None}]
      /\ pc[n] = "accept" => votedHash[n] \in Block
      /\ n \in Node /\ n \notin FaultNode /\ n \notin CrashNode
  BY NodeAssumption DEF TypeOK, ControlTypeOK, OutcomeTypeOK, Correct
<1>0. /\ pc[n] # "idle" => runs[n] > 0
      /\ Len(acceptedBlocks[n]) = IF pc[n] = "idle" THEN runs[n] ELSE runs[n] - 1
  BY DEF OnePerRun
<1>u. ASSUME UNCHANGED <<runs, acceptedBlocks>>, pc'[n] = "idle" <=> pc[n] = "idle"
      PROVE  /\ pc'[n] # "idle" => runs'[n] > 0
             /\ Len(acceptedBlocks'[n])
                   = IF pc'[n] = "idle" THEN runs'[n] ELSE runs'[n] - 1
  BY <1>0, <1>u
<1>1. CASE RunProtocol(n)
  <2>1. /\ pc[n] = "idle" /\ pc'[n] = "wait" /\ runs'[n] = runs[n] + 1
        /\ acceptedBlocks' = acceptedBlocks
    BY <1>t, <1>1 DEF RunProtocol, outVars
  <2> QED BY <1>0, <1>t, <2>1
<1>2. CASE RoundAccept(n)
  <2>1. PICK hash \in {votedHash[n]} \cup Garbage :
           acceptedBlocks' = [acceptedBlocks EXCEPT ![n] = Append(@, hash)]
    BY <1>2 DEF RoundAccept
  <2>2. pc[n] = "accept" /\ pc'[n] = "idle" /\ runs' = runs
    BY <1>t, <1>2 DEF RoundAccept
  <2>3. Len(acceptedBlocks'[n]) = Len(acceptedBlocks[n]) + 1
    BY <1>t, <2>1, <2>2
  <2> QED BY <1>0, <1>t, <2>2, <2>3
<1>3. CASE RunTaskInWait(n)
  BY <1>t, <1>u, <1>3 DEF RunTaskInWait, outVars
<1>4. CASE RoundSign(n) \/ RoundEcho(n)
  BY <1>t, <1>u, <1>4 DEF RoundSign, RoundEcho, ctlVars, outVars
<1>5. CASE \E b \in Block : RoundReady(n, b) \/ RoundAmplify(n, b) \/ RoundDeliver(n, b)
  BY <1>t, <1>u, <1>5 DEF RoundReady, RoundAmplify, RoundDeliver, ctlVars, outVars
<1>6. CASE RoundEnd(n)
  BY <1>t, <1>u, <1>6 DEF RoundEnd, RunsUntilDelivery, outVars
<1>7. ASSUME NEW k \in Node, k # n,
             \/ RunProtocol(k) \/ RunTaskInWait(k) \/ RoundSign(k) \/ RoundEcho(k)
             \/ RoundAccept(k) \/ RoundEnd(k)
             \/ \E b \in Block : RoundReady(k, b) \/ RoundAmplify(k, b) \/ RoundDeliver(k, b)
      PROVE  /\ pc'[n] # "idle" => runs'[n] > 0
             /\ Len(acceptedBlocks'[n])
                   = IF pc'[n] = "idle" THEN runs'[n] ELSE runs'[n] - 1
  <2>1. pc'[n] = pc[n] /\ runs'[n] = runs[n]
    BY <1>t, <1>7 DEF RunProtocol, RunTaskInWait, RoundSign, RoundEcho, RoundAccept,
                      RoundEnd, RoundReady, RoundAmplify, RoundDeliver, ctlVars
  <2>2. acceptedBlocks'[n] = acceptedBlocks[n]
    BY <1>t, <1>7 DEF RunProtocol, RunTaskInWait, RoundSign, RoundEcho, RoundAccept,
                      RoundEnd, RoundReady, RoundAmplify, RoundDeliver, outVars
  <2> QED BY <1>0, <2>1, <2>2
<1>8. CASE \/ \E b \in Block : ProposeSign(b)
           \/ ProposeBroadcast
           \/ \E m \in MsgIds, d \in Node : TalkFails(m, d)
           \/ UNCHANGED vars
  BY <1>u, <1>8 DEF ProposeSign, ProposeBroadcast, TalkFails, vars, ctlVars, outVars
<1> QED
  BY <1>1, <1>2, <1>3, <1>4, <1>5, <1>6, <1>7, <1>8 DEF Next, GetConsensusBlocks

\* A step of the nodes is a step of the sequence of blocks, or none.
LEMMA SequenceStep ==
    ASSUME SequenceInv, [Next]_vars, TestDriver, N < 2 * DeliverThreshold
    PROVE  SequenceInv' /\ [Blocks!Next]_<<proposedBlocks, acceptedCorrect>>
<1>0. /\ RunInv' /\ OnePerRun' /\ TypeOK /\ SigningSend /\ LogTypeOK
      /\ RunsAhead /\ LeavesWithOwn /\ OnePerRun /\ Numbered /\ RunInv
  BY RunStep, OnePerRunStep DEF SequenceInv, RunInv, RunParts, QuorumInv, TypeOK
<1>t. /\ pc \in [Node -> {"idle", "wait", "echo", "ready", "accept"}]
      /\ runs \in [Node -> Nat]
      /\ acceptedBlocks \in [Node -> Seq(Block \cup Garbage)]
      /\ Correct \subseteq Node /\ Leader \in Node
  BY <1>0, NodeAssumption DEF TypeOK, ControlTypeOK, OutcomeTypeOK, Correct
<1>r. /\ Cardinality(Proposals) \in Nat
      /\ \A i \in Proposals : Rank(i) \in 1 .. Cardinality(Proposals)
  BY <1>0, RankFacts
<1>p. /\ proposedBlocks \in Seq(Block)
      /\ Len(proposedBlocks) = Cardinality(Proposals)
      /\ \A i \in Proposals : proposedBlocks[Rank(i)] = sent[Leader][i].block
  BY <1>0, ProposedType
<1>a. \A n \in Correct : acceptedCorrect[n] = acceptedBlocks[n]
  BY DEF acceptedCorrect, Correct
<1>1. CASE ProposeBroadcast
  <2>1. PICK m \in signing, L \in Nat : ProposalAdded(m, L)
    BY <1>0, <1>1, ProposalNumbered
  <2>2. proposedBlocks' = Append(proposedBlocks, m.block) /\ Numbered'
    BY <1>0, <2>1, ProposedGrows
  <2>3. m.block \in Block
    BY <1>0 DEF TypeOK, KeyTypeOK, Message
  <2>4. UNCHANGED acceptedCorrect
    BY <1>1 DEF ProposeBroadcast, outVars, acceptedCorrect
  <2>5. ASSUME NEW n \in Correct
        PROVE  Len(acceptedCorrect[n]) = Len(proposedBlocks)
    <3>1. runs[n] = Cardinality(Proposals) + 1 /\ runs[n] > 0
      BY <1>0, <1>1, <1>r DEF RunsAhead, ProposeBroadcast
    <3>2. pc[n] # "idle"
      <4>1. ASSUME pc[n] = "idle" PROVE FALSE
        <5>1. PICK i \in Proposals : Rank(i) = runs[n]
          BY <1>0, <3>1, <4>1 DEF LeavesWithOwn
        <5> QED BY <1>r, <3>1, <5>1
      <4> QED BY <4>1
    <3>3. Len(acceptedBlocks[n]) = runs[n] - 1
      BY <1>0, <3>2 DEF OnePerRun
    <3> QED BY <1>a, <1>p, <1>r, <3>1, <3>3
  <2>6. Blocks!Propose(m.block)
    BY <2>2, <2>4, <2>5 DEF Blocks!Propose, Correct
  <2> QED BY <1>0, <2>2, <2>3, <2>6 DEF SequenceInv, Blocks!Next
<1>2. CASE ~ProposeBroadcast
  <2>1. /\ Proposals' = Proposals
        /\ \A i \in Proposals : sent'[Leader][i] = sent[Leader][i]
    BY <1>0, <1>2, ProposalsStay
  <2>2. proposedBlocks' = proposedBlocks /\ Numbered'
    BY <1>0, <2>1, ProposedKept
  <2>3. CASE UNCHANGED acceptedCorrect
    BY <1>0, <2>2, <2>3 DEF SequenceInv
  <2>4. ASSUME NEW n \in Node, RoundAccept(n), n \in Correct
        PROVE  Blocks!Accept(n)
    <3>1. PICK hash \in {votedHash[n]} \cup Garbage :
             acceptedBlocks' = [acceptedBlocks EXCEPT ![n] = Append(@, hash)]
      BY <2>4 DEF RoundAccept
    <3>2. /\ pc[n] = "accept" /\ runs[n] > 0
          /\ Len(acceptedBlocks[n]) = runs[n] - 1
      BY <1>0, <2>4 DEF RoundAccept, OnePerRun
    <3>3. PICK i \in Proposals : Rank(i) = runs[n] /\ votedHash[n] = sent[Leader][i].block
      BY <1>0, <2>4, <3>2 DEF LeavesWithOwn
    <3>4. /\ Len(acceptedCorrect[n]) + 1 = runs[n]
          /\ Len(acceptedCorrect[n]) < Len(proposedBlocks)
          /\ proposedBlocks[runs[n]] = votedHash[n]
      BY <1>a, <1>p, <1>r, <1>t, <2>4, <3>2, <3>3
    <3>5. votedHash[n] \in ValidBlock
      <4>1. votedHash[n] \in Block /\ votedHash[n] # None
        BY <1>0, <2>4, <3>2, BlockAssumption DEF TypeOK, OutcomeTypeOK
      <4> QED BY <1>0, <4>1 DEF RunInv, ValidInv, Validity
    <3>6. acceptedCorrect' = [acceptedCorrect EXCEPT ![n] = Append(@, hash)]
      BY <1>t, <2>4, <3>1 DEF acceptedCorrect, Correct
    <3> QED BY <2>2, <3>1, <3>4, <3>5, <3>6 DEF Blocks!Accept
  <2>5. ASSUME NEW n \in Node, RoundAccept(n), n \notin Correct
        PROVE  UNCHANGED acceptedCorrect
    BY <1>t, <2>5 DEF RoundAccept, acceptedCorrect, Correct
  <2>6. ASSUME ~ \E n \in Node : RoundAccept(n)
        PROVE  UNCHANGED acceptedCorrect
    <3>1. acceptedBlocks' = acceptedBlocks
      <4>1. ASSUME NEW b \in Block, ProposeSign(b) PROVE acceptedBlocks' = acceptedBlocks
        BY <4>1 DEF ProposeSign, outVars
      <4>2. ASSUME ProposeBroadcast PROVE acceptedBlocks' = acceptedBlocks
        BY <4>2 DEF ProposeBroadcast, outVars
      <4>3. ASSUME NEW m, NEW d, TalkFails(m, d) PROVE acceptedBlocks' = acceptedBlocks
        BY <4>3 DEF TalkFails, outVars
      <4>4. ASSUME NEW n \in Node, RunProtocol(n) \/ RunTaskInWait(n) \/ RoundSign(n)
                                  \/ RoundEcho(n) \/ RoundEnd(n) \/ GetConsensusBlocks(n)
            PROVE  acceptedBlocks' = acceptedBlocks
        BY <4>4 DEF RunProtocol, RunTaskInWait, RoundSign, RoundEcho, RoundEnd,
                    GetConsensusBlocks, outVars
      <4>5. ASSUME NEW n \in Node, NEW b \in Block,
                   RoundReady(n, b) \/ RoundAmplify(n, b) \/ RoundDeliver(n, b)
            PROVE  acceptedBlocks' = acceptedBlocks
        BY <4>5 DEF RoundReady, RoundAmplify, RoundDeliver, outVars
      <4>6. UNCHANGED vars => acceptedBlocks' = acceptedBlocks
        BY DEF vars, outVars
      <4> QED BY <2>6, <4>1, <4>2, <4>3, <4>4, <4>5, <4>6 DEF Next
    <3> QED BY <3>1 DEF acceptedCorrect
  <2> QED BY <1>0, <2>2, <2>3, <2>4, <2>5, <2>6 DEF SequenceInv, Blocks!Next, Correct
<1> QED BY <1>1, <1>2

\* As the test driver proposes and restarts, and with fewer than 4f + 4
\* validators, the correct nodes are one log of blocks, for any number of
\* validators and runs, and whichever calls fail.
THEOREM NodesImplementBlockLog ==
    ASSUME TestDriver, N < 2 * DeliverThreshold
    PROVE  Spec => ImplementsBlockLog
<1>1. Init => SequenceInv /\ Blocks!Init
  <2> SUFFICES ASSUME Init PROVE SequenceInv /\ Blocks!Init
    OBVIOUS
  <2>1. Proposals = {} /\ Cardinality(Proposals) = 0
    BY NodeAssumption, FS_EmptySet DEF Init, Proposals
  <2>2. Numbered
    BY <2>1 DEF Numbered
  <2>3. OnePerRun
    BY DEF Init, OnePerRun, Correct
  <2>4. proposedBlocks = <<>>
    BY <2>1 DEF proposedBlocks
  <2>5. acceptedCorrect = [n \in Node \ FaultNode |-> <<>>]
    BY DEF Init, acceptedCorrect
  <2> QED BY <2>2, <2>3, <2>4, <2>5, RunInit DEF SequenceInv, Blocks!Init
<1>2. SequenceInv /\ [Next]_vars
        => SequenceInv' /\ [Blocks!Next]_<<proposedBlocks, acceptedCorrect>>
  BY SequenceStep
<1> QED BY <1>1, <1>2, PTL DEF Spec, ImplementsBlockLog, Blocks!Spec

-----------------------------------------------------------------------------
(* The quorum behind the first READY.  echo_this_round_ counts messages,   *)
(* too; there is no set like ready_sent_ that keeps a validator from       *)
(* sending a second ECHO, only that no block is proposed twice.            *)

\* One of the first k messages of s is of type t and for block b.
InLog(s, t, b, k) ==
    \E i \in DOMAIN sent[s] : i <= k /\ sent[s][i].type = t /\ sent[s][i].block = b

\* Node n has broadcast an ECHO for b.
Echoed(n, b) == InLog(n, "ECHO", b, Len(sent[n]))

\* The validators whose ECHO for b is behind the cursors of n.
Echoers(n, b) == {s \in Node : InLog(s, "ECHO", b, handled[n][s])}

\* The validators that have broadcast one.
EchoSenders(b) == {s \in Node : \E i \in DOMAIN sent[s] :
                      sent[s][i].type = "ECHO" /\ sent[s][i].block = b}

\* No block is proposed twice.
NewProposals ==
    /\ \A i, j \in Proposals : sent[Leader][i].block = sent[Leader][j].block => i = j
    /\ \A m \in signing : m.block \notin Proposed

\* A block in the SEND slot, or in an ECHO, came in a SEND that was handled.
EchoFollowsSend ==
    \A n \in Node, b \in Block :
        sendThisRound[n] = b \/ Echoed(n, b) => InLog(Leader, "SEND", b, handled[n][Leader])

\* The block in the SEND slot has not been echoed yet.
SlotNew == \A n \in Node, b \in Block : sendThisRound[n] = b => ~Echoed(n, b)

\* So a validator broadcasts ECHO for a block at most once.
EchoOnce ==
    \A s \in Node, b \in Block : \A i, j \in DOMAIN sent[s] :
        /\ sent[s][i].type = "ECHO" /\ sent[s][i].block = b
        /\ sent[s][j].type = "ECHO" /\ sent[s][j].block = b
        => i = j

\* The counter is at most the number of validators that were heard.
EchoBounded ==
    \A n \in Node, b \in Block : echoThisRound[n][b] <= Cardinality(Echoers(n, b))

EchoParts == EchoFollowsSend /\ SlotNew /\ EchoOnce /\ EchoBounded

EchoInv == QuorumInv /\ ValidInv /\ NewProposals /\ EchoParts /\ ReadyJustified

\* What is in a log stays there.
LEMMA InLogKept ==
    ASSUME LogGrows, LogTypeOK, NEW s \in Node, NEW t, NEW b, NEW k \in Nat,
           NEW l \in Nat, k <= l, InLog(s, t, b, k)
    PROVE  \E i \in DOMAIN sent'[s] :
              i <= l /\ sent'[s][i].type = t /\ sent'[s][i].block = b
<1>1. PICK i \in DOMAIN sent[s] :
          i <= k /\ sent[s][i].type = t /\ sent[s][i].block = b
  BY DEF InLog
<1>2. i \in Nat
  BY DEF LogTypeOK
<1>3. i \in DOMAIN sent'[s] /\ sent'[s][i] = sent[s][i]
  BY DEF LogGrows
<1> QED BY <1>1, <1>2, <1>3

\* Echoers and echo senders are finite sets of validators.
LEMMA EchoersFinite ==
    ASSUME NEW n, NEW b
    PROVE  /\ IsFiniteSet(Echoers(n, b)) /\ Cardinality(Echoers(n, b)) \in Nat
           /\ IsFiniteSet(EchoSenders(b)) /\ Cardinality(EchoSenders(b)) \in Nat
           /\ Cardinality(Echoers(n, b)) <= Cardinality(EchoSenders(b))
<1>1. Echoers(n, b) \subseteq EchoSenders(b) /\ EchoSenders(b) \subseteq Node
  BY DEF Echoers, EchoSenders, InLog
<1>2. IsFiniteSet(EchoSenders(b)) /\ IsFiniteSet(Echoers(n, b))
  BY <1>1, NodeAssumption, FS_Subset
<1> QED BY <1>1, <1>2, FS_Subset, FS_CardinalityType

\* Their number does not shrink.
LEMMA EchoSendersGrow ==
    ASSUME LogGrows, NEW b
    PROVE  /\ Cardinality(EchoSenders(b)) <= Cardinality(EchoSenders(b)')
           /\ Cardinality(EchoSenders(b)') \in Nat
<1>1. EchoSenders(b) \subseteq EchoSenders(b)' /\ EchoSenders(b)' \subseteq Node
  BY DEF EchoSenders, LogGrows
<1>2. IsFiniteSet(EchoSenders(b)')
  BY <1>1, NodeAssumption, FS_Subset
<1> QED BY <1>1, <1>2, FS_Subset, FS_CardinalityType

\* ReadyJustified in these terms.
LEMMA Justified ==
    ReadyJustified <=> \A n \in Node : \A b \in readySent[n] :
                          Cardinality(EchoSenders(b)) >= EchoThreshold
BY DEF ReadyJustified, EchoSenders

\* Blocks with a READY that is already justified need no further one.
LEMMA JustifiedKept ==
    ASSUME TypeOK, LogGrows, ReadyJustified,
           \A n \in Node : \A b \in readySent'[n] :
              \/ \E k \in Node : b \in readySent[k]
              \/ Cardinality(EchoSenders(b)) >= EchoThreshold
    PROVE  ReadyJustified'
<1> SUFFICES ASSUME NEW n \in Node, NEW b \in readySent'[n]
             PROVE  Cardinality(EchoSenders(b)') >= EchoThreshold
  BY DEF ReadyJustified, EchoSenders, EchoThreshold, N, F
<1>1. Cardinality(EchoSenders(b)) >= EchoThreshold
  BY Justified
<1>2. /\ Cardinality(EchoSenders(b)) <= Cardinality(EchoSenders(b)')
      /\ Cardinality(EchoSenders(b)') \in Nat
  BY EchoSendersGrow
<1>3. Cardinality(EchoSenders(b)) \in Nat /\ EchoThreshold \in Nat
  BY EchoersFinite, ThresholdsPositive
<1> QED BY <1>1, <1>2, <1>3

\* A message that is not an ECHO changes nothing about them.
LEMMA EchoKept ==
    ASSUME TypeOK, EchoParts, LogGrows, NEW n \in Node, NEW msg, msg.type # "ECHO",
           LogExtended(n, msg), sent' \in [Node -> Seq(Message)],
           UNCHANGED <<handled, sendThisRound>>,
           \A k \in Node, b \in Block : echoThisRound'[k][b] \in {0, echoThisRound[k][b]}
    PROVE  EchoParts'
<1>0. LogTypeOK /\ Leader \in Node
  BY NodeAssumption DEF TypeOK
<1>1. \A k \in Node, b \in Block : Echoed(k, b)' => Echoed(k, b)
  <2> SUFFICES ASSUME NEW k \in Node, NEW b \in Block, Echoed(k, b)'
               PROVE  Echoed(k, b)
    OBVIOUS
  <2>1. PICK i \in DOMAIN sent'[k] : sent'[k][i].type = "ECHO" /\ sent'[k][i].block = b
    BY DEF Echoed, InLog
  <2>2. i \in DOMAIN sent[k] /\ sent'[k][i] = sent[k][i]
    BY <2>1 DEF LogExtended
  <2>3. i <= Len(sent[k])
    BY <1>0, <2>2 DEF LogTypeOK
  <2> QED BY <2>1, <2>2, <2>3 DEF Echoed, InLog
<1>2. EchoFollowsSend'
  <2> SUFFICES ASSUME NEW k \in Node, NEW b \in Block,
                      sendThisRound[k] = b \/ Echoed(k, b)
               PROVE  InLog(Leader, "SEND", b, handled[k][Leader])'
    BY <1>1 DEF EchoFollowsSend
  <2>1. InLog(Leader, "SEND", b, handled[k][Leader])
    BY DEF EchoParts, EchoFollowsSend
  <2>2. PICK h \in Nat : h = handled[k][Leader]
    BY <1>0 DEF LogTypeOK
  <2>3. h <= h /\ InLog(Leader, "SEND", b, h)
    BY <2>1, <2>2
  <2>4. \E i \in DOMAIN sent'[Leader] :
           i <= h /\ sent'[Leader][i].type = "SEND" /\ sent'[Leader][i].block = b
    BY <1>0, <2>3, InLogKept
  <2> QED BY <2>2, <2>4 DEF InLog
<1>3. SlotNew'
  BY <1>1 DEF EchoParts, SlotNew
<1>4. EchoOnce'
  BY DEF EchoParts, EchoOnce, LogExtended
<1>5. EchoBounded'
  <2> SUFFICES ASSUME NEW k \in Node, NEW b \in Block
               PROVE  echoThisRound'[k][b] <= Cardinality(Echoers(k, b)')
    BY DEF EchoBounded
  <2>1. Echoers(k, b) \subseteq Echoers(k, b)' /\ Echoers(k, b)' \subseteq Node
    <3>1. ASSUME NEW s \in Echoers(k, b) PROVE s \in Echoers(k, b)'
      <4>1. s \in Node /\ InLog(s, "ECHO", b, handled[k][s])
        BY DEF Echoers
      <4>2. PICK h \in Nat : h = handled[k][s]
        BY <1>0, <4>1 DEF LogTypeOK
      <4>3. h <= h /\ InLog(s, "ECHO", b, h)
        BY <4>1, <4>2
      <4>4. \E i \in DOMAIN sent'[s] :
               i <= h /\ sent'[s][i].type = "ECHO" /\ sent'[s][i].block = b
        BY <1>0, <4>1, <4>3, InLogKept
      <4> QED BY <4>1, <4>2, <4>4 DEF Echoers, InLog
    <3> QED BY <3>1 DEF Echoers
  <2>2. /\ Cardinality(Echoers(k, b)) <= Cardinality(Echoers(k, b)')
        /\ Cardinality(Echoers(k, b)') \in Nat
    BY <2>1, NodeAssumption, FS_Subset, FS_CardinalityType
  <2>3. /\ echoThisRound[k][b] <= Cardinality(Echoers(k, b))
        /\ Cardinality(Echoers(k, b)) \in Nat
        /\ echoThisRound[k][b] \in Nat
    BY EchoersFinite DEF EchoParts, EchoBounded, TypeOK, CounterTypeOK
  <2> QED BY <2>2, <2>3
<1> QED BY <1>2, <1>3, <1>4, <1>5 DEF EchoParts

\* A message of a batch is a message of a log between the old cursor and the
\* new one.
LEMMA BatchMember ==
    ASSUME LogTypeOK, NEW n \in Node, NEW u \in Arrivals(n), NEW m \in Batch(n, u)
    PROVE  /\ m[1] \in Node
           /\ m[2] \in DOMAIN sent[m[1]] /\ m[2] \in Nat
           /\ m = <<m[1], m[2]>>
           /\ handled[n][m[1]] \in Nat /\ handled[n][m[1]] < m[2]
           /\ u[m[1]] \in Nat /\ m[2] <= u[m[1]]
<1>1. m \in MsgIds /\ handled[n][m[1]] < m[2] /\ m[2] <= u[m[1]]
  BY DEF Batch
<1>2. PICK s \in Node : \E i \in DOMAIN sent[s] : m = <<s, i>>
  BY <1>1, MsgIdsMember
<1>3. m[1] \in Node /\ m[2] \in DOMAIN sent[m[1]] /\ m = <<m[1], m[2]>>
  BY <1>2
<1>4. m[2] \in Nat /\ handled[n][m[1]] \in Nat
  BY <1>3 DEF LogTypeOK
<1>5. u[m[1]] \in Nat
  BY <1>3, ArrivalsType
<1> QED BY <1>1, <1>3, <1>4, <1>5

\* Each ECHO that a batch adds to the counter comes from another validator,
\* and from none that was heard before.
LEMMA EchoBatchIsNew ==
    ASSUME TypeOK, EchoOnce, NEW n \in Node, NEW u \in Arrivals(n), NEW b \in Block
    PROVE  \E S \in SUBSET Node :
              /\ S \cap Echoers(n, b) = {}
              /\ Cardinality(S) = Cardinality(Accepted(n, u, "ECHO", b))
              /\ \A s \in S : InLog(s, "ECHO", b, u[s])
<1> DEFINE A == Accepted(n, u, "ECHO", b)
           S == {m[1] : m \in A}
<1>0. LogTypeOK
  BY DEF TypeOK
<1>1. ASSUME NEW m \in A
      PROVE  /\ m[1] \in Node
             /\ m[2] \in DOMAIN sent[m[1]] /\ m[2] \in Nat
             /\ m = <<m[1], m[2]>>
             /\ handled[n][m[1]] \in Nat /\ handled[n][m[1]] < m[2]
             /\ m[2] <= u[m[1]]
             /\ sent[m[1]][m[2]].type = "ECHO" /\ sent[m[1]][m[2]].block = b
  <2>1. m \in Batch(n, u) /\ Msg(m).type = "ECHO" /\ Msg(m).block = b
    BY DEF Accepted
  <2> QED BY <1>0, <2>1, BatchMember DEF Msg
<1>2. S \in SUBSET Node
  BY <1>1
<1>3. ASSUME NEW s \in S, s \in Echoers(n, b) PROVE FALSE
  <2>1. PICK m \in A : m[1] = s
    OBVIOUS
  <2>2. PICK i \in DOMAIN sent[s] : /\ i <= handled[n][s]
                                    /\ sent[s][i].type = "ECHO" /\ sent[s][i].block = b
    BY <1>3 DEF Echoers, InLog
  <2>3. i = m[2]
    BY <1>1, <1>2, <2>1, <2>2 DEF EchoOnce
  <2> QED BY <1>1, <2>1, <2>2, <2>3
<1>4. Cardinality(S) = Cardinality(A)
  <2> DEFINE f == [m \in A |-> m[1]]
  <2>1. f \in [A -> S] /\ \A s \in S : \E m \in A : f[m] = s
    OBVIOUS
  <2>2. \A k, m \in A : f[k] = f[m] => k = m
    <3> SUFFICES ASSUME NEW k \in A, NEW m \in A, k[1] = m[1]
                 PROVE  k = m
      OBVIOUS
    <3>1. k[2] = m[2]
      BY <1>1 DEF EchoOnce
    <3> QED BY <1>1, <3>1
  <2>3. f \in Bijection(A, S)
    BY <2>1, <2>2 DEF Bijection, Injection, Surjection, IsInjective
  <2>4. IsFiniteSet(A)
    BY <1>0, AcceptedFinite DEF LogTypeOK
  <2> QED BY <2>3, <2>4, FS_Bijection DEF ExistsBijection
<1>5. \A s \in S : InLog(s, "ECHO", b, u[s])
  BY <1>1 DEF InLog
<1> QED BY <1>2, <1>3, <1>4, <1>5

\* A batch keeps the parts of the invariant.
LEMMA EchoBatch ==
    ASSUME EchoInv, TypeOK', NEW n \in Node, RunTaskInWait(n)
    PROVE  EchoParts'
<1>0. /\ TypeOK /\ LogTypeOK /\ CounterTypeOK /\ LogBacked /\ NewProposals
      /\ EchoFollowsSend /\ SlotNew /\ EchoOnce /\ EchoBounded /\ Leader \in Node
  BY NodeAssumption DEF EchoInv, ValidInv, TypeOK, EchoParts
<1>1. PICK u \in Arrivals(n) : UpdateRecvMessages(n, u)
  BY DEF RunTaskInWait
<1>2. sent' = sent
  BY DEF RunTaskInWait
<1>3. /\ u \in [Node -> Nat]
      /\ \A s \in Node : handled[n][s] <= u[s]
  BY <1>0, ArrivalsType
<1>4. /\ handled'[n] = u /\ sendThisRound'[n] = LastSend(n, u)
      /\ \A b \in Block : echoThisRound'[n][b] =
            echoThisRound[n][b] + Cardinality(Accepted(n, u, "ECHO", b))
      /\ \A k \in Node \ {n} : /\ handled'[k] = handled[k]
                               /\ sendThisRound'[k] = sendThisRound[k]
                               /\ echoThisRound'[k] = echoThisRound[k]
  BY <1>0, <1>1 DEF UpdateRecvMessages, LogTypeOK, CounterTypeOK
<1>5. \A k, b : Echoed(k, b)' <=> Echoed(k, b)
  BY <1>2 DEF Echoed, InLog
<1>6. ASSUME NEW s \in Node, NEW t, NEW b, InLog(s, t, b, handled[n][s])
      PROVE  InLog(s, t, b, u[s])
  <2>1. PICK i \in DOMAIN sent[s] : /\ i <= handled[n][s] /\ sent[s][i].type = t
                                    /\ sent[s][i].block = b
    BY <1>6 DEF InLog
  <2>2. i \in Nat /\ handled[n][s] \in Nat /\ u[s] \in Nat /\ handled[n][s] <= u[s]
    BY <1>0, <1>3 DEF LogTypeOK
  <2>3. i <= u[s]
    BY <2>1, <2>2
  <2> QED BY <2>1, <2>3 DEF InLog
<1>7. ASSUME NEW b \in Block, sendThisRound'[n] = b
      PROVE  /\ InLog(Leader, "SEND", b, u[Leader])
             /\ ~InLog(Leader, "SEND", b, handled[n][Leader])
  <2>1. LastSend(n, u) = b /\ LastSend(n, u) # None
    BY <1>4, <1>7, BlockAssumption
  <2>2. PICK m \in Batch(n, u) : Msg(m).block = b /\ Msg(m).type = "SEND"
    BY <2>1, LastSendBatch
  <2>3. /\ m[1] \in Node /\ m[2] \in DOMAIN sent[m[1]] /\ m[2] \in Nat
        /\ handled[n][m[1]] \in Nat /\ handled[n][m[1]] < m[2]
        /\ m[2] <= u[m[1]]
        /\ sent[m[1]][m[2]].type = "SEND" /\ sent[m[1]][m[2]].block = b
    BY <1>0, <2>2, BatchMember DEF Msg
  <2>4. m[1] = Leader
    BY <1>0, <2>3 DEF LogBacked
  <2>5. InLog(Leader, "SEND", b, u[Leader])
    BY <2>3, <2>4 DEF InLog
  <2>6. ASSUME InLog(Leader, "SEND", b, handled[n][Leader]) PROVE FALSE
    <3>1. PICK i \in DOMAIN sent[Leader] :
              /\ i <= handled[n][Leader]
              /\ sent[Leader][i].type = "SEND" /\ sent[Leader][i].block = b
      BY <2>6 DEF InLog
    <3>2. i \in Proposals /\ m[2] \in Proposals
      BY <2>3, <2>4, <3>1 DEF Proposals
    <3>3. i = m[2]
      BY <1>0, <2>3, <2>4, <3>1, <3>2 DEF NewProposals
    <3> QED BY <2>3, <2>4, <3>1, <3>3
  <2> QED BY <2>5, <2>6
<1>8. EchoFollowsSend'
  <2> SUFFICES ASSUME NEW k \in Node, NEW b \in Block,
                      sendThisRound'[k] = b \/ Echoed(k, b)
               PROVE  InLog(Leader, "SEND", b, handled[k][Leader])'
    BY <1>5 DEF EchoFollowsSend
  <2>1. CASE k = n
    <3>1. InLog(Leader, "SEND", b, u[Leader])
      BY <1>0, <1>6, <1>7, <2>1 DEF EchoFollowsSend
    <3> QED BY <1>2, <1>4, <2>1, <3>1 DEF InLog
  <2>2. CASE k # n
    <3>1. InLog(Leader, "SEND", b, handled[k][Leader])
      BY <1>0, <1>4, <2>2 DEF EchoFollowsSend
    <3> QED BY <1>2, <1>4, <2>2, <3>1 DEF InLog
  <2> QED BY <2>1, <2>2
<1>9. SlotNew'
  <2> SUFFICES ASSUME NEW k \in Node, NEW b \in Block, sendThisRound'[k] = b
               PROVE  ~Echoed(k, b)
    BY <1>5 DEF SlotNew
  <2>1. CASE k = n
    BY <1>0, <1>7, <2>1 DEF EchoFollowsSend
  <2>2. CASE k # n
    BY <1>0, <1>4, <2>2 DEF SlotNew
  <2> QED BY <2>1, <2>2
<1>10. EchoOnce'
  BY <1>0, <1>2 DEF EchoOnce
<1>11. EchoBounded'
  <2> SUFFICES ASSUME NEW k \in Node, NEW b \in Block
               PROVE  echoThisRound'[k][b] <= Cardinality(Echoers(k, b)')
    BY DEF EchoBounded
  <2>1. CASE k # n
    <3>1. Echoers(k, b)' = Echoers(k, b)
      BY <1>2, <1>4, <2>1 DEF Echoers, InLog
    <3> QED BY <1>0, <1>4, <2>1, <3>1 DEF EchoBounded
  <2>2. CASE k = n
    <3>1. PICK S \in SUBSET Node :
              /\ S \cap Echoers(n, b) = {}
              /\ Cardinality(S) = Cardinality(Accepted(n, u, "ECHO", b))
              /\ \A s \in S : InLog(s, "ECHO", b, u[s])
      BY <1>0, EchoBatchIsNew
    <3>2. PICK E \in SUBSET Node : E = Echoers(n, b)
      BY DEF Echoers
    <3>3. PICK E2 \in SUBSET Node : E2 = Echoers(n, b)'
      BY DEF Echoers
    <3>4. E2 = {s \in Node : InLog(s, "ECHO", b, u[s])}
      BY <1>2, <1>4, <3>3 DEF Echoers, InLog
    <3>5. S \cup E \in SUBSET E2
      BY <1>6, <3>1, <3>2, <3>4 DEF Echoers
    <3>6. IsFiniteSet(S) /\ IsFiniteSet(E) /\ IsFiniteSet(E2)
      BY NodeAssumption, FS_Subset
    <3>7. Cardinality(S \cup E) = Cardinality(S) + Cardinality(E)
      <4>1. Cardinality(S \cup E) =
               Cardinality(S) + Cardinality(E) - Cardinality(S \cap E)
        BY <3>6, FS_Union
      <4>2. Cardinality(S \cap E) = 0
        BY <3>1, <3>2, FS_EmptySet
      <4>3. Cardinality(S) \in Nat /\ Cardinality(E) \in Nat
        BY <3>6, FS_CardinalityType
      <4> QED BY <4>1, <4>2, <4>3
    <3>8. Cardinality(S \cup E) <= Cardinality(E2)
      BY <3>5, <3>6, FS_Subset
    <3>9. /\ Cardinality(S) \in Nat /\ Cardinality(E) \in Nat /\ Cardinality(E2) \in Nat
          /\ echoThisRound[n][b] \in Nat /\ echoThisRound[n][b] <= Cardinality(E)
      BY <1>0, <3>2, <3>6, FS_CardinalityType DEF EchoBounded, CounterTypeOK
    <3>10. echoThisRound'[n][b] = echoThisRound[n][b] + Cardinality(S)
      BY <1>4, <3>1
    <3>11. echoThisRound'[n][b] <= Cardinality(E2)
      BY <3>7, <3>8, <3>9, <3>10
    <3> QED BY <2>2, <3>3, <3>11
  <2> QED BY <2>1, <2>2
<1> QED BY <1>8, <1>9, <1>10, <1>11 DEF EchoParts

\* So does the ECHO of a block from the SEND slot.
LEMMA EchoMessage ==
    ASSUME EchoInv, TypeOK', NEW n \in Node, RoundEcho(n)
    PROVE  EchoParts'
<1>0. /\ TypeOK /\ LogTypeOK /\ KeyTypeOK /\ CounterTypeOK
      /\ EchoFollowsSend /\ SlotNew /\ EchoOnce /\ EchoBounded /\ Leader \in Node
  BY NodeAssumption DEF EchoInv, ValidInv, TypeOK, EchoParts
<1>1. PICK c \in Block : c = sendThisRound[n]
  BY <1>0 DEF RoundEcho, CounterTypeOK
<1> DEFINE msg == [type |-> "ECHO", block |-> c, key |-> signedKey[n]]
<1>2. /\ BroadcastMessage(n, "ECHO", c)
      /\ sendThisRound'[n] = None
      /\ \A k \in Node \ {n} : sendThisRound'[k] = sendThisRound[k]
      /\ UNCHANGED <<handled, echoThisRound>>
  BY <1>0, <1>1 DEF RoundEcho, CounterTypeOK, cntVars
<1>3. LogGrows /\ LogExtended(n, msg)
  BY <1>0, <1>2, BroadcastToLog
<1>4. \A k \in Node, b \in Block : Echoed(k, b)' => Echoed(k, b) \/ (k = n /\ b = c)
  <2> SUFFICES ASSUME NEW k \in Node, NEW b \in Block, Echoed(k, b)',
                      ~(k = n /\ b = c)
               PROVE  Echoed(k, b)
    OBVIOUS
  <2>1. PICK i \in DOMAIN sent'[k] : sent'[k][i].type = "ECHO" /\ sent'[k][i].block = b
    BY DEF Echoed, InLog
  <2>2. i \in DOMAIN sent[k] /\ sent'[k][i] = sent[k][i]
    BY <1>3, <2>1 DEF LogExtended
  <2>3. i <= Len(sent[k])
    BY <1>0, <2>2 DEF LogTypeOK
  <2> QED BY <2>1, <2>2, <2>3 DEF Echoed, InLog
<1>5. ASSUME NEW s \in Node, NEW t, NEW b, NEW k \in Node, InLog(s, t, b, handled[k][s])
      PROVE  InLog(s, t, b, handled[k][s])'
  <2>1. PICK h \in Nat : h = handled[k][s]
    BY <1>0 DEF LogTypeOK
  <2>2. h <= h /\ InLog(s, t, b, h)
    BY <1>5, <2>1
  <2>3. \E i \in DOMAIN sent'[s] :
           i <= h /\ sent'[s][i].type = t /\ sent'[s][i].block = b
    BY <1>0, <1>3, <2>2, InLogKept
  <2> QED BY <1>2, <2>1, <2>3 DEF InLog
<1>6. EchoFollowsSend'
  <2> SUFFICES ASSUME NEW k \in Node, NEW b \in Block,
                      sendThisRound[k] = b \/ Echoed(k, b)
               PROVE  InLog(Leader, "SEND", b, handled[k][Leader])'
    BY <1>1, <1>2, <1>4, BlockAssumption DEF EchoFollowsSend
  <2> QED BY <1>0, <1>5 DEF EchoFollowsSend
<1>7. SlotNew'
  BY <1>0, <1>2, <1>4, BlockAssumption DEF SlotNew
<1>8. EchoOnce'
  <2>1. \A i \in DOMAIN sent[n] : ~(sent[n][i].type = "ECHO" /\ sent[n][i].block = c)
    <3> SUFFICES ASSUME NEW i \in DOMAIN sent[n], sent[n][i].type = "ECHO",
                        sent[n][i].block = c
                 PROVE  FALSE
      OBVIOUS
    <3>1. i <= Len(sent[n])
      BY <1>0 DEF LogTypeOK
    <3>2. Echoed(n, c)
      BY <3>1 DEF Echoed, InLog
    <3> QED BY <1>0, <1>1, <3>2 DEF SlotNew
  <2> QED BY <1>0, <1>3, <2>1 DEF EchoOnce, LogExtended
<1>9. EchoBounded'
  <2> SUFFICES ASSUME NEW k \in Node, NEW b \in Block
               PROVE  echoThisRound[k][b] <= Cardinality(Echoers(k, b)')
    BY <1>2 DEF EchoBounded
  <2>1. Echoers(k, b) \subseteq Echoers(k, b)' /\ Echoers(k, b)' \subseteq Node
    BY <1>5 DEF Echoers
  <2>2. /\ Cardinality(Echoers(k, b)) <= Cardinality(Echoers(k, b)')
        /\ Cardinality(Echoers(k, b)') \in Nat
    BY <2>1, NodeAssumption, FS_Subset, FS_CardinalityType
  <2>3. /\ echoThisRound[k][b] <= Cardinality(Echoers(k, b))
        /\ Cardinality(Echoers(k, b)) \in Nat
        /\ echoThisRound[k][b] \in Nat
    BY <1>0, EchoersFinite DEF EchoBounded, CounterTypeOK
  <2> QED BY <2>2, <2>3
<1> QED BY <1>6, <1>7, <1>8, <1>9 DEF EchoParts

\* Every step keeps the invariant when no block is proposed twice.
LEMMA EchoStep ==
    ASSUME EchoInv, [Next]_vars, Repeatable = {} \/ MaxProposals <= 1
    PROVE  EchoInv'
<1>0. /\ QuorumInv /\ QuorumInv' /\ ValidInv /\ ValidInv' /\ TypeOK /\ TypeOK'
      /\ LogTypeOK /\ KeyTypeOK /\ CounterTypeOK /\ OutcomeTypeOK /\ SigningSend
      /\ NewProposals /\ EchoParts /\ ReadyJustified /\ Leader \in Node
      /\ sent \in [Node -> Seq(Message)] /\ sent' \in [Node -> Seq(Message)]
  BY QuorumStep, ValidStep, NodeAssumption DEF EchoInv, QuorumInv, TypeOK, LogTypeOK
<1>1. LogGrows
  BY <1>0, LogStep
<1> SUFFICES NewProposals' /\ EchoParts' /\ ReadyJustified'
  BY <1>0 DEF EchoInv
<1>a. ASSUME ~ProposeBroadcast, signing' = signing PROVE NewProposals'
  <2>1. /\ Proposals' = Proposals
        /\ \A i \in Proposals : sent'[Leader][i] = sent[Leader][i]
    <3>1. CASE UNCHANGED sent
      BY <3>1 DEF Proposals
    <3>2. ASSUME NEW n \in Node, NEW msg \in Message, msg.type # "SEND",
                 LogExtended(n, msg)
          PROVE  /\ Proposals' = Proposals
                 /\ \A i \in Proposals : sent'[Leader][i] = sent[Leader][i]
      BY <1>1, <3>2, ProposalsKept
    <3> QED BY <1>0, <1>a, <3>1, <3>2, LogStep
  <2>2. Proposed' = Proposed
    BY <2>1 DEF Proposed
  <2> QED BY <1>0, <1>a, <2>1, <2>2 DEF NewProposals
<1>b. ASSUME readySent' = readySent PROVE ReadyJustified'
  BY <1>0, <1>1, <1>b, JustifiedKept
<1>c. ASSUME UNCHANGED sent PROVE \A msg : LogExtended(Leader, msg)
  BY <1>0, <1>c DEF LogExtended
<1>d. ASSUME UNCHANGED <<sent, handled, sendThisRound, echoThisRound>> PROVE EchoParts'
  <2> DEFINE msg == [type |-> "READY"]
  <2>1. LogExtended(Leader, msg) /\ msg.type # "ECHO"
    BY <1>c, <1>d
  <2>2. \A k \in Node, b \in Block : echoThisRound'[k][b] \in {0, echoThisRound[k][b]}
    BY <1>d
  <2> HIDE DEF msg
  <2> QED BY <1>0, <1>1, <1>d, <2>1, <2>2, EchoKept
<1>e. ASSUME signing' = signing PROVE ~ProposeBroadcast
  <2> SUFFICES ASSUME ProposeBroadcast PROVE FALSE
    OBVIOUS
  <2>1. signing # {} /\ signing' = {}
    BY DEF ProposeBroadcast
  <2> QED BY <1>e, <2>1
<1>2. ASSUME NEW b \in Block, ProposeSign(b)
      PROVE  NewProposals' /\ EchoParts' /\ ReadyJustified'
  <2>1. /\ UNCHANGED <<sent, handled, sendThisRound, echoThisRound, readySent>>
        /\ \A m \in signing' : m.block = b
    BY <1>2 DEF ProposeSign, netVars, cntVars
  <2>2. b \notin Proposed
    <3>1. CASE Repeatable = {}
      BY <1>2, <3>1 DEF ProposeSign, MayPropose
    <3>2. CASE MaxProposals <= 1
      <4>1. Cardinality(Proposals) < MaxProposals /\ Cardinality(Proposals) \in Nat
        BY <1>0, <1>2, RankFacts DEF ProposeSign, MayPropose
      <4>2. Cardinality(Proposals) = 0
        BY <3>2, <4>1, BoundAssumption
      <4>3. ASSUME NEW i \in Proposals PROVE FALSE
        <5>1. Rank(i) \in 1 .. Cardinality(Proposals)
          BY <1>0, RankFacts
        <5> QED BY <4>2, <5>1
      <4> QED BY <4>3 DEF Proposed
    <3> QED BY <3>1, <3>2
  <2>3. Proposals' = Proposals /\ Proposed' = Proposed
    BY <2>1 DEF Proposals, Proposed
  <2>4. NewProposals'
    BY <1>0, <2>1, <2>2, <2>3 DEF NewProposals
  <2> QED BY <1>b, <1>d, <2>1, <2>4
<1>3. CASE ProposeBroadcast
  <2>1. PICK m \in signing : /\ sent' = [sent EXCEPT ![Leader] = Append(@, m)]
                             /\ signing' = {}
                             /\ UNCHANGED <<handled, sendThisRound, echoThisRound, readySent>>
    BY <1>3 DEF ProposeBroadcast, cntVars
  <2>2. m \in Message /\ m.type = "SEND" /\ m.block \notin Proposed
    BY <1>0 DEF KeyTypeOK, SigningSend, NewProposals
  <2>3. LogExtended(Leader, m)
    BY <1>0, <2>1, <2>2, AppendToLog
  <2>4. \A k \in Node, b \in Block : echoThisRound'[k][b] \in {0, echoThisRound[k][b]}
    BY <2>1
  <2>5. EchoParts'
    BY <1>0, <1>1, <2>1, <2>2, <2>3, <2>4, EchoKept
  <2>6. NewProposals'
    <3>1. \A i \in Proposals' : \/ i \in Proposals /\ sent'[Leader][i] = sent[Leader][i]
                                \/ i = Len(sent[Leader]) + 1 /\ sent'[Leader][i] = m
      BY <1>0, <2>3 DEF LogExtended, Proposals
    <3>2. \A i \in Proposals : sent[Leader][i].block # m.block
      BY <2>2 DEF Proposed
    <3>3. \A i, j \in Proposals' :
             sent'[Leader][i].block = sent'[Leader][j].block => i = j
      BY <1>0, <3>1, <3>2 DEF NewProposals
    <3> QED BY <2>1, <3>3 DEF NewProposals
  <2> QED BY <1>b, <2>1, <2>5, <2>6
<1>4. ASSUME \/ \E m \in MsgIds, d \in Node : TalkFails(m, d)
             \/ \E n \in Node : \/ RunProtocol(n) \/ RoundSign(n) \/ RoundAccept(n)
                                \/ RoundEnd(n) \/ GetConsensusBlocks(n)
             \/ UNCHANGED vars
      PROVE  NewProposals' /\ EchoParts' /\ ReadyJustified'
  <2>1. UNCHANGED <<sent, handled, signing, sendThisRound, echoThisRound, readySent>>
    BY <1>4 DEF TalkFails, RunProtocol, RoundSign, RoundAccept, RoundEnd,
                GetConsensusBlocks, vars, netVars, keyVars, cntVars
  <2> QED BY <1>a, <1>b, <1>d, <1>e, <2>1
<1>5. ASSUME NEW n \in Node, RunTaskInWait(n)
      PROVE  NewProposals' /\ EchoParts' /\ ReadyJustified'
  <2>1. UNCHANGED <<signing, readySent>>
    BY <1>5 DEF RunTaskInWait, keyVars
  <2>2. EchoParts'
    BY <1>0, <1>5, EchoBatch
  <2> QED BY <1>a, <1>b, <1>e, <2>1, <2>2
<1>6. ASSUME NEW n \in Node, RoundEcho(n)
      PROVE  NewProposals' /\ EchoParts' /\ ReadyJustified'
  <2>1. UNCHANGED <<signing, readySent>>
    BY <1>6 DEF RoundEcho
  <2>2. EchoParts'
    BY <1>0, <1>6, EchoMessage
  <2> QED BY <1>a, <1>b, <1>e, <2>1, <2>2
<1>7. ASSUME NEW n \in Node, NEW b \in Block,
             RoundReady(n, b) \/ RoundAmplify(n, b) \/ RoundDeliver(n, b)
      PROVE  NewProposals' /\ EchoParts' /\ ReadyJustified'
  <2>1. UNCHANGED <<handled, signing, sendThisRound>>
    BY <1>7 DEF RoundReady, RoundAmplify, RoundDeliver, keyVars, netVars
  <2>2. \A k \in Node, c \in Block : echoThisRound'[k][c] \in {0, echoThisRound[k][c]}
    <3>1. CASE RoundReady(n, b) \/ RoundAmplify(n, b)
      BY <3>1 DEF RoundReady, RoundAmplify, cntVars
    <3>2. CASE RoundDeliver(n, b)
      <4>1. echoThisRound' = [echoThisRound EXCEPT ![n][b] = 0]
        BY <3>2 DEF RoundDeliver
      <4>2. echoThisRound \in [Node -> [Block -> Nat]]
        BY <1>0 DEF CounterTypeOK
      <4> QED BY <4>1, <4>2
    <3> QED BY <1>7, <3>1, <3>2
  <2>3. \/ UNCHANGED <<sent, readySent>>
        \/ SendReady(n, b) /\ (b \in EchoReady(n) \/ b \in Amplifiable(n))
    BY <1>7 DEF RoundReady, RoundAmplify, RoundDeliver, netVars
  <2>4. CASE UNCHANGED <<sent, readySent>>
    <3> DEFINE msg == [type |-> "READY"]
    <3>1. LogExtended(Leader, msg) /\ msg.type # "ECHO"
      BY <1>c, <2>4
    <3> HIDE DEF msg
    <3>2. EchoParts'
      BY <1>0, <1>1, <2>1, <2>2, <3>1, EchoKept
    <3> QED BY <1>a, <1>b, <1>e, <2>1, <2>4, <3>2
  <2>5. CASE SendReady(n, b) /\ (b \in EchoReady(n) \/ b \in Amplifiable(n))
    <3> DEFINE msg == [type |-> "READY", block |-> b, key |-> signedKey[n]]
    <3>1. LogExtended(n, msg) /\ msg.type # "ECHO"
      BY <1>0, <2>5, BroadcastToLog DEF SendReady
    <3>2. readySent' = [readySent EXCEPT ![n] = @ \cup {b}]
      BY <2>5 DEF SendReady
    <3> HIDE DEF msg
    <3>3. EchoParts'
      BY <1>0, <1>1, <2>1, <2>2, <3>1, EchoKept
    <3>4. \/ \E k \in Node : b \in readySent[k]
          \/ Cardinality(EchoSenders(b)) >= EchoThreshold
      <4>1. CASE b \in EchoReady(n)
        <5>1. /\ echoThisRound[n][b] >= EchoThreshold
              /\ echoThisRound[n][b] <= Cardinality(Echoers(n, b))
              /\ echoThisRound[n][b] \in Nat
          BY <1>0, <4>1 DEF EchoReady, EchoParts, EchoBounded, CounterTypeOK
        <5> QED BY <5>1, EchoersFinite, ThresholdsPositive
      <4>2. CASE b \in Amplifiable(n)
        <5>1. Cardinality(counted[n][b]) >= ReadyThreshold
          BY <1>0, <4>2 DEF Amplifiable, QuorumInv, CounterExact
        <5>2. counted[n][b] # {}
          BY <5>1, ThresholdsPositive, FS_EmptySet
        <5>3. PICK s \in counted[n][b] : TRUE
          BY <5>2
        <5>4. s \in Node /\ \E i \in DOMAIN sent[s] : IsReady(s, i, b)
          BY <1>0, <5>3 DEF QuorumInv, CountedHandled, CounterTypeOK
        <5> QED BY <1>0, <5>4 DEF QuorumInv, ReadyRecorded
      <4> QED BY <2>5, <4>1, <4>2
    <3>5. ReadyJustified'
      <4>1. \A k \in Node : \A c \in readySent'[k] :
               \/ \E j \in Node : c \in readySent[j]
               \/ Cardinality(EchoSenders(c)) >= EchoThreshold
        BY <1>0, <3>2, <3>4 DEF OutcomeTypeOK
      <4> QED BY <1>0, <1>1, <4>1, JustifiedKept
    <3> QED BY <1>a, <1>e, <2>1, <3>3, <3>5
  <2> QED BY <2>3, <2>4, <2>5
<1> QED BY <1>2, <1>3, <1>4, <1>5, <1>6, <1>7 DEF Next

\* When no block is proposed twice, the first READY for a block follows ECHOs
\* of as many different validators as the threshold asks for: neither ECHO nor
\* READY messages can support each other into existence.
THEOREM ReadyNeedsQuorum ==
    ASSUME Repeatable = {} \/ MaxProposals <= 1
    PROVE  Spec => []ReadyJustified
<1>1. Init => EchoInv
  <2> SUFFICES ASSUME Init PROVE EchoInv
    OBVIOUS
  <2>1. QuorumInv /\ ValidInv
    BY QuorumInit, ValidInit
  <2>2. NewProposals /\ ReadyJustified /\ EchoOnce
    BY NodeAssumption DEF Init, NewProposals, Proposals, ReadyJustified, EchoOnce
  <2>3. \A n \in Node, b \in Block : sendThisRound[n] # b /\ ~Echoed(n, b)
    BY BlockAssumption DEF Init, Echoed, InLog
  <2>4. EchoFollowsSend /\ SlotNew
    BY <2>3 DEF EchoFollowsSend, SlotNew
  <2>5. EchoBounded
    <3> SUFFICES ASSUME NEW n \in Node, NEW b \in Block
                 PROVE  echoThisRound[n][b] <= Cardinality(Echoers(n, b))
      BY DEF EchoBounded
    <3>1. echoThisRound[n][b] = 0
      BY DEF Init
    <3> QED BY <3>1, EchoersFinite
  <2> QED BY <2>1, <2>2, <2>4, <2>5 DEF EchoInv, EchoParts
<1>2. EchoInv /\ [Next]_vars => EchoInv'
  BY EchoStep
<1>3. EchoInv => ReadyJustified
  BY DEF EchoInv
<1> QED BY <1>1, <1>2, <1>3, PTL DEF Spec

-----------------------------------------------------------------------------
(* Key chains.  Each message must be signed with the key that the one      *)
(* before it announced.  Propose signs in one critical section and         *)
(* broadcasts in another, so the log of the leader is in the order of its  *)
(* keys only if its consensus thread has nothing to send in between.  That *)
(* is so for the first proposal: without one nobody has anything to send.  *)

\* The leader has begun to propose at most once.
OneProposal ==
    /\ \A i, j \in Proposals : i = j
    /\ signing # {} => Proposals = {}

\* The log of a node is signed with consecutive keys, and a message that its
\* consensus thread has signed and not yet broadcast carries the next one.
Chained(s) ==
    /\ \A i \in DOMAIN sent[s] : sent[s][i].key = i - 1
    /\ signedKey[s] \in {NoKey, Len(sent[s])}

\* All logs are, and the next key of a node is the one after its last
\* message, the pending one included; the leader has at most one pending.
InKeyOrder ==
    /\ \A s \in Node : Chained(s)
    /\ \A s \in Node : nextKey[s] = IF signedKey[s] # NoKey \/ (s = Leader /\ signing # {})
                                    THEN Len(sent[s]) + 1 ELSE Len(sent[s])
    /\ \A m \in signing : m.key = Len(sent[Leader])
    /\ Proposals = {} => \A s \in Node : signedKey[s] = NoKey

KeysInOrder == OneProposal => InKeyOrder

\* A broadcast of the consensus thread takes the pending key.
LEMMA BroadcastChained ==
    ASSUME TypeOK, NEW n \in Node, Chained(n), NEW t \in {"ECHO", "READY"},
           NEW b \in Block, BroadcastMessage(n, t, b)
    PROVE  /\ Chained(n)'
           /\ signedKey[n] # NoKey /\ signedKey'[n] = NoKey
           /\ Len(sent'[n]) = Len(sent[n]) + 1 /\ Len(sent[n]) \in Nat
           /\ \A s \in Node \ {n} : sent'[s] = sent[s] /\ signedKey'[s] = signedKey[s]
<1> DEFINE msg == [type |-> t, block |-> b, key |-> signedKey[n]]
<1>0. LogTypeOK /\ KeyTypeOK /\ sent \in [Node -> Seq(Message)]
  BY DEF TypeOK, LogTypeOK
<1>1. LogExtended(n, msg)
  BY <1>0, BroadcastToLog
<1>2. /\ sent'[n] = Append(sent[n], msg) /\ signedKey'[n] = NoKey
      /\ \A s \in Node \ {n} : sent'[s] = sent[s] /\ signedKey'[s] = signedKey[s]
  BY <1>0 DEF BroadcastMessage, KeyTypeOK
<1>3. signedKey[n] # NoKey /\ Len(sent[n]) \in Nat /\ msg.key = Len(sent[n])
  BY <1>0 DEF Chained, BroadcastMessage
<1>4. Len(sent'[n]) = Len(sent[n]) + 1
  BY <1>0, <1>2
<1> HIDE DEF msg
<1>5. \A i \in DOMAIN sent'[n] : sent'[n][i].key = i - 1
  BY <1>1, <1>3 DEF LogExtended, Chained
<1> QED BY <1>2, <1>3, <1>4, <1>5 DEF Chained

\* A broadcast in the order of the keys keeps the order.
LEMMA BroadcastInKeyOrder ==
    ASSUME TypeOK, InKeyOrder, signing = {}, signing' = {}, nextKey' = nextKey,
           Proposals' # {}, NEW n \in Node,
           NEW t \in {"ECHO", "READY"}, NEW b \in Block, BroadcastMessage(n, t, b)
    PROVE  InKeyOrder'
<1>1. /\ Chained(n)'
      /\ signedKey[n] # NoKey /\ signedKey'[n] = NoKey
      /\ Len(sent'[n]) = Len(sent[n]) + 1 /\ Len(sent[n]) \in Nat
      /\ \A s \in Node \ {n} : sent'[s] = sent[s] /\ signedKey'[s] = signedKey[s]
  <2>1. Chained(n)
    BY DEF InKeyOrder
  <2> QED BY <2>1, BroadcastChained
<1>2. \A s \in Node : Chained(s)'
  <2> SUFFICES ASSUME NEW s \in Node, s # n PROVE Chained(s)'
    BY <1>1
  <2>1. Chained(s) /\ sent'[s] = sent[s] /\ signedKey'[s] = signedKey[s]
    BY <1>1 DEF InKeyOrder
  <2> QED BY <2>1 DEF Chained
<1>3. \A s \in Node : nextKey'[s] = IF signedKey'[s] # NoKey
                                     THEN Len(sent'[s]) + 1 ELSE Len(sent'[s])
  <2> SUFFICES ASSUME NEW s \in Node
               PROVE  nextKey'[s] = IF signedKey'[s] # NoKey
                                    THEN Len(sent'[s]) + 1 ELSE Len(sent'[s])
    OBVIOUS
  <2>1. nextKey[s] = IF signedKey[s] # NoKey THEN Len(sent[s]) + 1 ELSE Len(sent[s])
    BY DEF InKeyOrder
  <2>2. CASE s = n
    BY <1>1, <2>1, <2>2
  <2>3. CASE s # n
    BY <1>1, <2>1, <2>3
  <2> QED BY <2>2, <2>3
<1> QED BY <1>2, <1>3 DEF InKeyOrder

\* How a step changes the proposals.
LEMMA ProposalStep ==
    ASSUME TypeOK, SigningSend, [Next]_vars
    PROVE  \/ Proposals' = Proposals /\ signing' = signing
           \/ \E b \in Block : ProposeSign(b) /\ Proposals' = Proposals
           \/ /\ ProposeBroadcast
              /\ Proposals' = Proposals \cup {Len(sent[Leader]) + 1}
              /\ Len(sent[Leader]) + 1 \notin Proposals
<1>0. LogTypeOK /\ KeyTypeOK /\ sent \in [Node -> Seq(Message)] /\ Leader \in Node
  BY NodeAssumption DEF TypeOK, LogTypeOK
<1>1. CASE ProposeBroadcast
  <2>1. PICK m \in signing : sent' = [sent EXCEPT ![Leader] = Append(@, m)]
    BY <1>1 DEF ProposeBroadcast
  <2>2. m \in Message /\ m.type = "SEND"
    BY <1>0 DEF KeyTypeOK, SigningSend
  <2>3. PICK L \in Nat : L = Len(sent[Leader])
    BY <1>0
  <2>4. /\ DOMAIN sent[Leader] = 1 .. L
        /\ DOMAIN sent'[Leader] = 1 .. L + 1
        /\ \A i \in 1 .. L : sent'[Leader][i] = sent[Leader][i]
        /\ sent'[Leader][L + 1] = m
    BY <1>0, <2>1, <2>3
  <2>5. Proposals' = Proposals \cup {L + 1} /\ L + 1 \notin Proposals
    BY <2>2, <2>4 DEF Proposals
  <2> QED BY <1>1, <2>3, <2>5
<1>2. CASE \E b \in Block : ProposeSign(b)
  <2>1. UNCHANGED sent
    BY <1>2 DEF ProposeSign, netVars
  <2> QED BY <1>2, <2>1 DEF Proposals
<1>3. CASE ~ProposeBroadcast /\ ~\E b \in Block : ProposeSign(b)
  <2>1. signing' = signing
    BY <1>3, ZenonT(30) DEF Next, TalkFails, RunProtocol, RunTaskInWait, RoundSign,
         RoundEcho, RoundReady, RoundAmplify, RoundDeliver, RoundAccept, RoundEnd, GetConsensusBlocks,
         vars, keyVars
  <2>2. CASE UNCHANGED sent
    BY <2>1, <2>2 DEF Proposals
  <2>3. CASE \E n \in Node, msg \in Message : msg.type # "SEND" /\ LogExtended(n, msg)
    BY <2>1, <2>3, LogStep, ProposalsKept
  <2> QED BY <1>3, <2>2, <2>3, LogStep
<1> QED BY <1>1, <1>2, <1>3

\* There was at most one proposal before if there is after.
LEMMA OneProposalBefore ==
    ASSUME TypeOK, SigningSend, [Next]_vars, OneProposal'
    PROVE  OneProposal
<1>1. CASE Proposals' = Proposals /\ signing' = signing
  BY <1>1 DEF OneProposal
<1>2. CASE \E b \in Block : ProposeSign(b) /\ Proposals' = Proposals
  BY <1>2 DEF OneProposal, ProposeSign, MayPropose
<1>3. CASE /\ Proposals' = Proposals \cup {Len(sent[Leader]) + 1}
           /\ Len(sent[Leader]) + 1 \notin Proposals
  <2>1. Proposals = {}
    BY <1>3 DEF OneProposal
  <2> QED BY <2>1 DEF OneProposal
<1> QED BY <1>1, <1>2, <1>3, ProposalStep

\* Every step keeps the keys in order.
LEMMA KeyStep ==
    ASSUME ValidInv, KeysInOrder, [Next]_vars
    PROVE  KeysInOrder'
<1> SUFFICES ASSUME OneProposal' PROVE InKeyOrder'
  BY DEF KeysInOrder
<1>0. /\ TypeOK /\ TypeOK' /\ SigningSend /\ CounterBacked /\ Leader \in Node
      /\ LogTypeOK /\ KeyTypeOK /\ CounterTypeOK /\ sent \in [Node -> Seq(Message)]
  BY ValidStep, NodeAssumption DEF ValidInv, TypeOK, LogTypeOK
<1>1. OneProposal /\ InKeyOrder
  BY <1>0, OneProposalBefore DEF KeysInOrder
<1>a. ASSUME NEW n \in Node, NEW t \in {"ECHO", "READY"}, NEW b \in Backed,
             BroadcastMessage(n, t, b), UNCHANGED <<signing, nextKey>>
      PROVE  InKeyOrder'
  <2>1. Proposals # {} /\ b \in Block
    BY BlockAssumption DEF Backed, Proposed
  <2>2. signing = {}
    BY <1>1, <2>1 DEF OneProposal
  <2>3. ~ProposeBroadcast
    BY <1>a, <2>2 DEF ProposeBroadcast
  <2>4. Proposals' # {}
    BY <1>0, <2>1, <2>3, ProposalStep
  <2> QED BY <1>0, <1>1, <1>a, <2>1, <2>2, <2>4, BroadcastInKeyOrder
<1>b. ASSUME UNCHANGED <<sent, nextKey, signing, signedKey>> PROVE InKeyOrder'
  BY <1>1, <1>b DEF InKeyOrder, Chained, Proposals
<1>2. ASSUME NEW b \in Block, ProposeSign(b) PROVE InKeyOrder'
  <2>1. /\ signing = {} /\ sent' = sent /\ signedKey' = signedKey
        /\ signing' = {[type |-> "SEND", block |-> b, key |-> nextKey[Leader]]}
        /\ nextKey' = [nextKey EXCEPT ![Leader] = @ + 1]
    BY <1>2 DEF ProposeSign, MayPropose, SignBlock, netVars, stepVars
  <2>2. signing' # {} /\ Proposals' = Proposals
    BY <2>1 DEF Proposals
  <2>3. \A s \in Node : signedKey[s] = NoKey
    BY <1>1, <2>2 DEF OneProposal, InKeyOrder
  <2>4. \A s \in Node : nextKey[s] = Len(sent[s]) /\ Len(sent[s]) \in Nat
    BY <1>0, <1>1, <2>1, <2>3 DEF InKeyOrder
  <2>5. \A m \in signing' : m.key = Len(sent[Leader])
    BY <1>0, <2>1, <2>4
  <2>6. \A s \in Node : nextKey'[s] = IF s = Leader THEN Len(sent[s]) + 1 ELSE Len(sent[s])
    BY <1>0, <2>1, <2>4 DEF KeyTypeOK
  <2>7. \A s \in Node : Chained(s)'
    BY <1>1, <2>1 DEF InKeyOrder, Chained
  <2> QED BY <2>1, <2>2, <2>3, <2>5, <2>6, <2>7 DEF InKeyOrder
<1>3. CASE ProposeBroadcast
  <2>1. PICK m \in signing : /\ sent' = [sent EXCEPT ![Leader] = Append(@, m)]
                             /\ signing' = {} /\ nextKey' = nextKey
                             /\ signedKey' = signedKey
    BY <1>3 DEF ProposeBroadcast, stepVars
  <2>2. m \in Message /\ m.key = Len(sent[Leader]) /\ Len(sent[Leader]) \in Nat
    BY <1>0, <1>1 DEF KeyTypeOK, InKeyOrder
  <2>3. LogExtended(Leader, m)
    BY <1>0, <2>1, <2>2, AppendToLog
  <2>4. /\ Len(sent'[Leader]) = Len(sent[Leader]) + 1
        /\ \A s \in Node \ {Leader} : sent'[s] = sent[s]
    BY <1>0, <2>1
  <2>5. \A s \in Node : signedKey[s] = NoKey
    BY <1>1 DEF OneProposal, InKeyOrder
  <2>6. \A s \in Node : \A i \in DOMAIN sent'[s] : sent'[s][i].key = i - 1
    BY <1>1, <2>2, <2>3 DEF LogExtended, InKeyOrder, Chained
  <2>7. \A s \in Node : Chained(s)'
    BY <2>1, <2>5, <2>6 DEF Chained
  <2>8. \A s \in Node : nextKey'[s] = Len(sent'[s])
    BY <1>1, <2>1, <2>4, <2>5 DEF InKeyOrder
  <2> QED BY <2>1, <2>5, <2>7, <2>8 DEF InKeyOrder
<1>4. ASSUME \/ \E m \in MsgIds, d \in Node : TalkFails(m, d)
             \/ \E n \in Node : \/ RunProtocol(n) \/ RunTaskInWait(n) \/ RoundAccept(n)
                                \/ RoundEnd(n) \/ GetConsensusBlocks(n)
             \/ UNCHANGED vars
      PROVE  InKeyOrder'
  BY <1>b, <1>4 DEF TalkFails, RunProtocol, RunTaskInWait, RoundAccept, RoundEnd,
                    GetConsensusBlocks, vars, netVars, keyVars, stepVars
<1>7. ASSUME NEW n \in Node, RoundSign(n) PROVE InKeyOrder'
  <2>1. \E b \in Backed : TRUE
    <3>1. CASE pc[n] = "echo"
      BY <1>0, <1>7, <3>1, BlockAssumption
      DEF CounterTypeOK, CounterBacked
    <3>2. CASE EchoReady(n) \cup Amplifiable(n) # {}
      <4>1. PICK b \in Block : b \in EchoReady(n) \/ b \in Amplifiable(n)
        BY <3>2 DEF EchoReady, Amplifiable
      <4>2. b \in Backed
        BY <1>0, <4>1, ThresholdsPositive
        DEF EchoReady, Amplifiable, CounterBacked, CounterTypeOK
      <4> QED BY <4>2
    <3> QED BY <1>7, <3>1, <3>2 DEF RoundSign
  <2>2. Proposals # {}
    BY <2>1 DEF Backed, Proposed
  <2>3. signing = {}
    BY <1>1, <2>2 DEF OneProposal
  <2>4. /\ UNCHANGED <<sent, signing>> /\ signedKey[n] = NoKey
        /\ signedKey' = [signedKey EXCEPT ![n] = nextKey[n]]
        /\ nextKey' = [nextKey EXCEPT ![n] = @ + 1]
    BY <1>7 DEF RoundSign, SignBlock, netVars
  <2>5. nextKey[n] = Len(sent[n]) /\ Len(sent[n]) \in Nat
    BY <1>0, <1>1, <2>3, <2>4 DEF InKeyOrder
  <2>6. \A s \in Node : Chained(s)'
    <3> SUFFICES ASSUME NEW s \in Node PROVE Chained(s)'
      OBVIOUS
    <3>1. Chained(s) /\ (signedKey'[s] = signedKey[s] \/ signedKey'[s] = Len(sent[s]))
      BY <1>0, <1>1, <2>4, <2>5 DEF InKeyOrder, KeyTypeOK
    <3> QED BY <2>4, <3>1 DEF Chained
  <2>7. /\ signedKey'[n] = Len(sent[n]) /\ nextKey'[n] = Len(sent[n]) + 1
        /\ \A s \in Node \ {n} : signedKey'[s] = signedKey[s] /\ nextKey'[s] = nextKey[s]
    BY <1>0, <2>4, <2>5 DEF KeyTypeOK
  <2>8. \A s \in Node : nextKey'[s] = IF signedKey'[s] # NoKey
                                       THEN Len(sent'[s]) + 1 ELSE Len(sent'[s])
    <3> SUFFICES ASSUME NEW s \in Node
                 PROVE  nextKey'[s] = IF signedKey'[s] # NoKey
                                      THEN Len(sent'[s]) + 1 ELSE Len(sent'[s])
      OBVIOUS
    <3>1. CASE s = n
      BY <2>4, <2>5, <2>7, <3>1 DEF NoKey
    <3>2. CASE s # n
      <4>1. nextKey[s] = IF signedKey[s] # NoKey THEN Len(sent[s]) + 1 ELSE Len(sent[s])
        BY <1>1, <2>3 DEF InKeyOrder
      <4> QED BY <2>4, <2>7, <3>2, <4>1
    <3> QED BY <3>1, <3>2
  <2>9. Proposals' = Proposals
    BY <2>4 DEF Proposals
  <2> QED BY <2>2, <2>3, <2>4, <2>6, <2>8, <2>9 DEF InKeyOrder
<1>5. ASSUME NEW n \in Node, RoundEcho(n) PROVE InKeyOrder'
  <2>1. PICK b \in Block : b = sendThisRound[n]
    BY <1>0, <1>5 DEF RoundEcho, CounterTypeOK
  <2>2. b \in Backed
    BY <1>0, <2>1, BlockAssumption DEF CounterBacked
  <2>3. BroadcastMessage(n, "ECHO", b) /\ UNCHANGED <<signing, nextKey>>
    BY <1>5, <2>1 DEF RoundEcho
  <2> QED BY <1>a, <2>2, <2>3
<1>6. ASSUME NEW n \in Node, NEW b \in Block,
             RoundReady(n, b) \/ RoundAmplify(n, b) \/ RoundDeliver(n, b)
      PROVE  InKeyOrder'
  <2>1. UNCHANGED <<signing, nextKey>>
    BY <1>6 DEF RoundReady, RoundAmplify, RoundDeliver
  <2>2. \/ UNCHANGED <<sent, signedKey>>
        \/ SendReady(n, b) /\ (b \in EchoReady(n) \/ b \in Amplifiable(n))
    BY <1>6 DEF RoundReady, RoundAmplify, RoundDeliver, netVars
  <2>3. CASE UNCHANGED <<sent, signedKey>>
    BY <1>b, <2>1, <2>3
  <2>4. CASE SendReady(n, b) /\ (b \in EchoReady(n) \/ b \in Amplifiable(n))
    <3>1. b \in Backed
      BY <1>0, <2>4, ThresholdsPositive
      DEF EchoReady, Amplifiable, CounterBacked, CounterTypeOK
    <3> QED BY <1>a, <2>1, <2>4, <3>1 DEF SendReady
  <2> QED BY <2>2, <2>3, <2>4
<1> QED BY <1>2, <1>3, <1>4, <1>5, <1>6, <1>7 DEF Next

\* A message of a sender whose log is chained is rejected only right after a
\* lost one.
LEMMA ChainAccepts ==
    ASSUME TypeOK, NEW d \in Node, NEW m \in MsgIds, Chained(m[1]),
           <<m[1], m[2] - 1>> \notin lost[d]
    PROVE  CheckBlockSig(d, m)
<1>0. sent \in [Node -> Seq(Message)]
  BY DEF TypeOK, LogTypeOK
<1>1. PICK s \in Node : \E k \in DOMAIN sent[s] : m = <<s, k>>
  BY MsgIdsMember
<1>2. PICK k \in DOMAIN sent[s] : m = <<s, k>>
  BY <1>1
<1>3. k \in Nat /\ k >= 1 /\ \A i \in 1 .. k - 1 : i \in DOMAIN sent[s]
  BY <1>0
<1> SUFFICES ASSUME NEW i \in Before(d, m), \A j \in Before(d, m) : j <= i
             PROVE  sent[s][k].key = sent[s][i].key + 1
  BY <1>2 DEF CheckBlockSig, Msg
<1>4. i \in 1 .. k - 1
  BY <1>2 DEF Before
<1>5. k - 1 \in Before(d, m)
  BY <1>2, <1>3, <1>4 DEF Before
<1>6. i = k - 1
  BY <1>3, <1>4, <1>5
<1>7. sent[s][k].key = k - 1 /\ sent[s][i].key = i - 1
  BY <1>2, <1>3, <1>4 DEF Chained
<1> QED BY <1>3, <1>6, <1>7

\* A follower signs in one thread, so nothing comes between its keys and its
\* log, whatever the drivers propose and however often.
FollowerChain ==
    \A s \in Node \ {Leader} :
        /\ Chained(s)
        /\ nextKey[s] = IF signedKey[s] # NoKey THEN Len(sent[s]) + 1 ELSE Len(sent[s])

\* Every step keeps the followers' logs in the order of their keys.
LEMMA FollowerStep ==
    ASSUME TypeOK, FollowerChain, [Next]_vars
    PROVE  FollowerChain'
<1>0. /\ LogTypeOK /\ KeyTypeOK /\ CounterTypeOK /\ sent \in [Node -> Seq(Message)]
  BY DEF TypeOK, LogTypeOK
<1> SUFFICES ASSUME NEW s \in Node \ {Leader}
             PROVE  /\ Chained(s)'
                    /\ nextKey'[s] = IF signedKey'[s] # NoKey
                                     THEN Len(sent'[s]) + 1 ELSE Len(sent'[s])
  BY DEF FollowerChain
<1>1. /\ Chained(s)
      /\ nextKey[s] = IF signedKey[s] # NoKey THEN Len(sent[s]) + 1 ELSE Len(sent[s])
  BY DEF FollowerChain
<1>a. ASSUME sent'[s] = sent[s], signedKey'[s] = signedKey[s], nextKey'[s] = nextKey[s]
      PROVE  /\ Chained(s)'
             /\ nextKey'[s] = IF signedKey'[s] # NoKey
                              THEN Len(sent'[s]) + 1 ELSE Len(sent'[s])
  BY <1>1, <1>a DEF Chained
<1>b. ASSUME NEW n \in Node, NEW t \in {"ECHO", "READY"}, NEW b \in Block,
             BroadcastMessage(n, t, b), nextKey' = nextKey
      PROVE  /\ Chained(s)'
             /\ nextKey'[s] = IF signedKey'[s] # NoKey
                              THEN Len(sent'[s]) + 1 ELSE Len(sent'[s])
  <2>1. CASE n = s
    BY <1>1, <1>b, <2>1, BroadcastChained
  <2>2. CASE n # s
    <3>1. sent'[s] = sent[s] /\ signedKey'[s] = signedKey[s]
      BY <1>0, <1>b, <2>2 DEF BroadcastMessage, KeyTypeOK
    <3> QED BY <1>a, <1>b, <3>1
  <2> QED BY <2>1, <2>2
<1>2. CASE (\E b \in Block : ProposeSign(b)) \/ ProposeBroadcast
  <2>1. sent'[s] = sent[s] /\ signedKey'[s] = signedKey[s] /\ nextKey'[s] = nextKey[s]
    BY <1>0, <1>2, NodeAssumption
    DEF ProposeSign, ProposeBroadcast, SignBlock, KeyTypeOK, netVars, stepVars
  <2> QED BY <1>a, <2>1
<1>3. CASE \/ \E m \in MsgIds, d \in Node : TalkFails(m, d)
           \/ \E n \in Node : \/ RunProtocol(n) \/ RunTaskInWait(n) \/ RoundAccept(n)
                              \/ RoundEnd(n) \/ GetConsensusBlocks(n)
           \/ UNCHANGED vars
  <2>1. UNCHANGED <<sent, nextKey, signedKey>>
    BY <1>3 DEF TalkFails, RunProtocol, RunTaskInWait, RoundAccept, RoundEnd,
                GetConsensusBlocks, vars, netVars, keyVars, stepVars
  <2> QED BY <1>a, <2>1
<1>4. ASSUME NEW n \in Node, RoundEcho(n)
      PROVE  /\ Chained(s)'
             /\ nextKey'[s] = IF signedKey'[s] # NoKey
                              THEN Len(sent'[s]) + 1 ELSE Len(sent'[s])
  BY <1>0, <1>b, <1>4 DEF RoundEcho, CounterTypeOK
<1>5. ASSUME NEW n \in Node, NEW b \in Block,
             RoundReady(n, b) \/ RoundAmplify(n, b) \/ RoundDeliver(n, b)
      PROVE  /\ Chained(s)'
             /\ nextKey'[s] = IF signedKey'[s] # NoKey
                              THEN Len(sent'[s]) + 1 ELSE Len(sent'[s])
  <2>1. CASE RoundReady(n, b) \/ RoundAmplify(n, b)
    BY <1>b, <2>1 DEF RoundReady, RoundAmplify, SendReady
  <2>2. CASE RoundDeliver(n, b)
    BY <1>a, <2>2 DEF RoundDeliver, netVars
  <2> QED BY <1>5, <2>1, <2>2
<1>6. ASSUME NEW n \in Node, RoundSign(n)
      PROVE  /\ Chained(s)'
             /\ nextKey'[s] = IF signedKey'[s] # NoKey
                              THEN Len(sent'[s]) + 1 ELSE Len(sent'[s])
  <2>1. /\ sent' = sent /\ signedKey[n] = NoKey
        /\ signedKey' = [signedKey EXCEPT ![n] = nextKey[n]]
        /\ nextKey' = [nextKey EXCEPT ![n] = @ + 1]
    BY <1>6 DEF RoundSign, SignBlock, netVars
  <2>2. CASE n # s
    BY <1>0, <1>a, <2>1, <2>2 DEF KeyTypeOK
  <2>3. CASE n = s
    <3>1. /\ nextKey[s] = Len(sent[s]) /\ Len(sent[s]) \in Nat
          /\ signedKey'[s] = nextKey[s] /\ nextKey'[s] = nextKey[s] + 1
      BY <1>0, <1>1, <2>1, <2>3 DEF KeyTypeOK
    <3>2. signedKey'[s] # NoKey
      BY <3>1 DEF NoKey
    <3> QED BY <1>1, <2>1, <3>1, <3>2 DEF Chained
  <2> QED BY <2>2, <2>3
<1> QED BY <1>2, <1>3, <1>4, <1>5, <1>6 DEF Next

\* Every message of a validator other than the leader passes the signature
\* check of every receiver that got its predecessor, in any run, after any
\* number of proposals and restarts.
THEOREM FollowersAreAccepted == Spec => []FollowerAccepted
<1>1. Init => TypeOK /\ FollowerChain
  BY QuorumInit DEF QuorumInv, Init, FollowerChain, Chained
<1>2. TypeOK /\ FollowerChain /\ [Next]_vars => (TypeOK /\ FollowerChain)'
  BY TypeStep, FollowerStep
<1>3. TypeOK /\ FollowerChain => FollowerAccepted
  <2> SUFFICES ASSUME TypeOK, FollowerChain, NEW d \in Node, NEW m \in MsgIds,
                      m[1] # Leader, <<m[1], m[2] - 1>> \notin lost[d]
               PROVE  CheckBlockSig(d, m)
    BY DEF FollowerAccepted
  <2>1. m[1] \in Node
    BY MsgIdsMember
  <2> QED BY <2>1, ChainAccepts DEF FollowerChain
<1> QED BY <1>1, <1>2, <1>3, PTL DEF Spec

-----------------------------------------------------------------------------
(* The states of rest.  With one proposal and no call lost, what is behind *)
(* the cursors of a node is in its counters, and a node that waits has     *)
(* nothing left to announce or to deliver.                                 *)

\* Nothing for n was lost, and n has not delivered.
Undisturbed(n) == lost[n] = {} /\ votedHash[n] = None

\* Every ECHO behind the cursors was counted.
EchoHeard ==
    OneProposal => \A n \in Node, b \in ValidBlock :
        Undisturbed(n) => Cardinality(Echoers(n, b)) <= echoThisRound[n][b]

\* So was every READY.
ReadyHeard ==
    OneProposal => \A n \in Node, b \in ValidBlock : Undisturbed(n) =>
        \A s \in Node : InLog(s, "READY", b, handled[n][s]) => s \in counted[n][b]

\* Whoever has handled the SEND is about to echo it or has done so.
SendHeard ==
    OneProposal => \A n \in Correct, b \in ValidBlock :
        lost[n] = {} /\ InLog(Leader, "SEND", b, handled[n][Leader])
            => sendThisRound[n] = b \/ Echoed(n, b)

HeardParts == EchoHeard /\ ReadyHeard /\ SendHeard

\* What the loops of broadcastRound have left to do.
Pending(n) == EchoReady(n) \cup Amplifiable(n) \cup Deliverable(n)

\* A node that waits has nothing left to do.
Settled ==
    \A n \in Correct : (pc[n] \in {"idle", "wait"} /\ votedHash[n] = None) => Pending(n) = {}

\* The SEND slot is only filled between updateRecvMessages and the ECHO.
SlotEcho == \A n \in Correct : sendThisRound[n] # None <=> pc[n] = "echo"

\* A node leaves RunProtocol only when it has delivered.
LeavesDelivered ==
    \A n \in Correct : ~shouldBroadcast[n] \/ (pc[n] = "idle" /\ runs[n] > 0)
                          => votedHash[n] # None

\* What is in ready_sent_ was broadcast.
ReadyBroadcast ==
    \A s \in Node : \A b \in readySent[s] : InLog(s, "READY", b, Len(sent[s]))

ControlParts == Settled /\ SlotEcho /\ LeavesDelivered

RestInv == QuorumInv /\ ValidInv /\ KeysInOrder /\ HeardParts /\ ControlParts /\ ReadyBroadcast

\* A log that grows does so beyond the cursors.
LEMMA CursorKept ==
    ASSUME TypeOK, SigningSend, [Next]_vars, handled' = handled
    PROVE  \A d, s \in Node : \A t, b :
              InLog(s, t, b, handled[d][s])' <=> InLog(s, t, b, handled[d][s])
<1>0. LogTypeOK /\ KeyTypeOK /\ sent \in [Node -> Seq(Message)] /\ Leader \in Node
  BY NodeAssumption DEF TypeOK, LogTypeOK
<1>1. LogGrows
  BY LogStep
<1>2. \E n \in Node : \E msg : LogExtended(n, msg)
  <2>1. CASE UNCHANGED sent
    BY <1>0, <2>1 DEF LogExtended
  <2>2. CASE ProposeBroadcast
    <3>1. PICK m \in signing : sent' = [sent EXCEPT ![Leader] = Append(@, m)]
      BY <2>2 DEF ProposeBroadcast
    <3>2. m \in Message
      BY <1>0 DEF KeyTypeOK
    <3> QED BY <1>0, <3>1, <3>2, AppendToLog
  <2> QED BY <2>1, <2>2, LogStep
<1>3. PICK n \in Node : \E msg : LogExtended(n, msg)
  BY <1>2
<1>4. PICK msg : LogExtended(n, msg)
  BY <1>3
<1> TAKE d, s \in Node
<1> TAKE t, b
<1>5. PICK h \in Nat : h = handled[d][s] /\ h <= Len(sent[s])
  BY <1>0 DEF LogTypeOK
<1>6. \A i \in DOMAIN sent'[s] :
         i <= h => i \in DOMAIN sent[s] /\ sent'[s][i] = sent[s][i]
  <2> SUFFICES ASSUME NEW i \in DOMAIN sent'[s], i <= h
               PROVE  i \in DOMAIN sent[s] /\ sent'[s][i] = sent[s][i]
    OBVIOUS
  <2>1. ~(s = n /\ i = Len(sent[n]) + 1)
    BY <1>0, <1>5
  <2> QED BY <1>4, <2>1 DEF LogExtended
<1>7. \A i \in DOMAIN sent[s] : i \in DOMAIN sent'[s] /\ sent'[s][i] = sent[s][i]
  BY <1>1 DEF LogGrows
<1> QED BY <1>5, <1>6, <1>7 DEF InLog

\* What a node has echoed or announced stays in its log.
LEMMA WholeLogKept ==
    ASSUME TypeOK, LogGrows, TypeOK', NEW s \in Node, NEW t, NEW b,
           InLog(s, t, b, Len(sent[s]))
    PROVE  InLog(s, t, b, Len(sent[s]))'
<1>1. PICK i \in DOMAIN sent[s] : sent[s][i].type = t /\ sent[s][i].block = b
  BY DEF InLog
<1>2. i \in DOMAIN sent'[s] /\ sent'[s][i] = sent[s][i]
  BY DEF LogGrows
<1>3. i <= Len(sent'[s])
  BY <1>2 DEF TypeOK, LogTypeOK
<1> QED BY <1>1, <1>2, <1>3 DEF InLog

\* Steps of the consensus threads other than getMessages, and those of the
\* network and of Propose, count nothing.
LEMMA HeardKept ==
    ASSUME RestInv, [Next]_vars, TypeOK', handled' = handled,
           \A n \in Node : lost'[n] = {} => lost[n] = {},
           \A n \in Node : votedHash'[n] = None =>
              /\ votedHash[n] = None
              /\ echoThisRound'[n] = echoThisRound[n]
              /\ counted'[n] = counted[n],
           \A n \in Correct, b \in Block :
              sendThisRound[n] = b => sendThisRound'[n] = b \/ Echoed(n, b)'
    PROVE  HeardParts'
<1>0. TypeOK /\ SigningSend /\ HeardParts /\ LogGrows /\ Leader \in Node
  BY LogStep, NodeAssumption DEF RestInv, ValidInv
<1>1. \A d, s \in Node : \A t, b :
         InLog(s, t, b, handled[d][s])' <=> InLog(s, t, b, handled[d][s])
  BY <1>0, CursorKept
<1>2. OneProposal' => OneProposal
  BY <1>0, OneProposalBefore
<1>3. \A n \in Node : Undisturbed(n)' => Undisturbed(n)
  BY DEF Undisturbed
<1>4. \A n \in Node : \A b : Echoers(n, b)' = Echoers(n, b)
  BY <1>1 DEF Echoers
<1>5. EchoHeard'
  <2> SUFFICES ASSUME OneProposal', NEW n \in Node, NEW b \in ValidBlock, Undisturbed(n)'
               PROVE  Cardinality(Echoers(n, b)') <= echoThisRound'[n][b]
    BY DEF EchoHeard
  <2>1. Cardinality(Echoers(n, b)) <= echoThisRound[n][b]
    BY <1>0, <1>2, <1>3 DEF HeardParts, EchoHeard
  <2> QED BY <1>4, <2>1 DEF Undisturbed
<1>6. ReadyHeard'
  <2> SUFFICES ASSUME OneProposal', NEW n \in Node, NEW b \in ValidBlock, Undisturbed(n)',
                      NEW s \in Node, InLog(s, "READY", b, handled[n][s])'
               PROVE  s \in counted'[n][b]
    BY DEF ReadyHeard
  <2>1. InLog(s, "READY", b, handled[n][s])
    BY <1>1
  <2>2. s \in counted[n][b]
    BY <1>0, <1>2, <1>3, <2>1 DEF HeardParts, ReadyHeard
  <2> QED BY <2>2 DEF Undisturbed
<1>7. SendHeard'
  <2> SUFFICES ASSUME OneProposal', NEW n \in Correct, NEW b \in ValidBlock,
                      lost'[n] = {}, InLog(Leader, "SEND", b, handled[n][Leader])'
               PROVE  sendThisRound'[n] = b \/ Echoed(n, b)'
    BY DEF SendHeard
  <2>1. n \in Node /\ lost[n] = {} /\ InLog(Leader, "SEND", b, handled[n][Leader])
    BY <1>0, <1>1 DEF Correct
  <2>2. sendThisRound[n] = b \/ Echoed(n, b)
    BY <1>0, <1>2, <2>1 DEF HeardParts, SendHeard
  <2>3. Echoed(n, b) => Echoed(n, b)'
    BY <1>0, <2>1, WholeLogKept DEF Echoed
  <2>4. sendThisRound[n] = b => sendThisRound'[n] = b \/ Echoed(n, b)'
    BY BlockAssumption
  <2> QED BY <2>2, <2>3, <2>4
<1> QED BY <1>5, <1>6, <1>7 DEF HeardParts

\* With no message to n lost, one proposal and so the keys in order, every
\* valid message that comes with a batch is accepted.
LEMMA BatchAccepted ==
    ASSUME TypeOK, InKeyOrder, NEW n \in Node, lost[n] = {}, NEW u \in Arrivals(n),
           NEW s \in Node, NEW i \in DOMAIN sent[s], handled[n][s] < i, i <= u[s],
           sent[s][i].block \in ValidBlock
    PROVE  /\ <<s, i>> \in Batch(n, u)
           /\ Passes(n, <<s, i>>)
           /\ Msg(<<s, i>>) = sent[s][i]
<1>1. <<s, i>> \in MsgIds /\ Msg(<<s, i>>) = sent[s][i]
  BY MsgIdsMember DEF Msg
<1>2. <<s, i>> \in Batch(n, u)
  BY <1>1 DEF Batch
<1>3. CheckBlockSig(n, <<s, i>>)
  <2>1. PICK m \in MsgIds : m = <<s, i>>
    BY <1>1
  <2>2. <<m[1], m[2] - 1>> \notin lost[n]
    OBVIOUS
  <2>3. CheckBlockSig(n, m)
    BY <2>1, <2>2, ChainAccepts DEF InKeyOrder
  <2> QED BY <2>1, <2>3
<1> QED BY <1>1, <1>2, <1>3 DEF Passes

\* A batch: what it brings is counted, and the SEND fills the slot.
LEMMA HeardBatch ==
    ASSUME RestInv, [Next]_vars, TypeOK', NEW n \in Node, RunTaskInWait(n)
    PROVE  HeardParts'
<1>0. /\ TypeOK /\ LogTypeOK /\ CounterTypeOK /\ LogBacked /\ SigningSend
      /\ KeysInOrder /\ EchoHeard /\ ReadyHeard /\ SendHeard /\ SlotEcho
      /\ Leader \in Node /\ Correct \subseteq Node /\ ValidBlock \subseteq Block
      /\ sent \in [Node -> Seq(Message)]
  BY NodeAssumption, BlockAssumption
  DEF RestInv, ValidInv, TypeOK, LogTypeOK, HeardParts, ControlParts, Correct
<1>1. PICK u \in Arrivals(n) : UpdateRecvMessages(n, u)
  BY DEF RunTaskInWait
<1>2. pc[n] = "wait" /\ UNCHANGED <<sent, lost, votedHash>>
  BY DEF RunTaskInWait, outVars
<1>3. /\ u \in [Node -> Nat]
      /\ \A s \in Node : handled[n][s] <= u[s]
  BY <1>0, ArrivalsType
<1>4. /\ handled'[n] = u /\ sendThisRound'[n] = LastSend(n, u)
      /\ \A b \in Block : echoThisRound'[n][b] =
            echoThisRound[n][b] + Cardinality(Accepted(n, u, "ECHO", b))
      /\ \A b \in Block : counted'[n][b] = counted[n][b] \cup ReadySenders(n, u, b)
      /\ \A k \in Node \ {n} : /\ handled'[k] = handled[k]
                               /\ sendThisRound'[k] = sendThisRound[k]
                               /\ echoThisRound'[k] = echoThisRound[k]
                               /\ counted'[k] = counted[k]
  BY <1>0, <1>1 DEF UpdateRecvMessages, LogTypeOK, CounterTypeOK
<1>5. OneProposal' => OneProposal /\ InKeyOrder
  BY <1>0, OneProposalBefore DEF KeysInOrder
<1>6. \A k \in Node : Undisturbed(k)' <=> Undisturbed(k)
  BY <1>2 DEF Undisturbed
<1>7. ASSUME NEW k \in Node \ {n}, NEW s \in Node, NEW t, NEW b
      PROVE  InLog(s, t, b, handled[k][s])' <=> InLog(s, t, b, handled[k][s])
  BY <1>2, <1>4 DEF InLog
<1>8. ASSUME NEW s \in Node, NEW t, NEW b
      PROVE  InLog(s, t, b, handled[n][s])' <=> InLog(s, t, b, u[s])
  BY <1>2, <1>4 DEF InLog
<1>9. ASSUME OneProposal', lost[n] = {}, NEW s \in Node, NEW t, NEW b \in ValidBlock,
             InLog(s, t, b, u[s]), ~InLog(s, t, b, handled[n][s])
      PROVE  \E m \in Batch(n, u) : /\ m[1] = s /\ Passes(n, m)
                                    /\ Msg(m).type = t /\ Msg(m).block = b
  <2>1. PICK i \in DOMAIN sent[s] : i <= u[s] /\ sent[s][i].type = t /\ sent[s][i].block = b
    BY <1>9 DEF InLog
  <2>2. i \in Nat /\ handled[n][s] \in Nat /\ ~(i <= handled[n][s])
    BY <1>0, <1>9, <2>1 DEF InLog, LogTypeOK
  <2>3. handled[n][s] < i
    BY <2>2
  <2>4. InKeyOrder /\ TypeOK /\ sent[s][i].block \in ValidBlock
    BY <1>0, <1>5, <1>9, <2>1
  <2>5. /\ <<s, i>> \in Batch(n, u) /\ Passes(n, <<s, i>>)
        /\ Msg(<<s, i>>) = sent[s][i]
    BY <1>9, <2>1, <2>3, <2>4, BatchAccepted
  <2> QED BY <2>1, <2>5
<1>10. EchoHeard'
  <2> SUFFICES ASSUME OneProposal', NEW k \in Node, NEW b \in ValidBlock, Undisturbed(k)
               PROVE  Cardinality(Echoers(k, b)') <= echoThisRound'[k][b]
    BY <1>6 DEF EchoHeard
  <2>0. b \in Block /\ Cardinality(Echoers(k, b)) <= echoThisRound[k][b]
    BY <1>0, <1>5 DEF EchoHeard
  <2>1. CASE k # n
    <3>1. Echoers(k, b)' = Echoers(k, b)
      BY <1>7, <2>1 DEF Echoers
    <3> QED BY <1>4, <2>0, <2>1, <3>1
  <2>2. CASE k = n
    <3> DEFINE A == Accepted(n, u, "ECHO", b)
               S == {m[1] : m \in A}
    <3>1. PICK E \in SUBSET Node : E = Echoers(n, b)
      BY DEF Echoers
    <3>2. PICK E2 \in SUBSET Node : E2 = Echoers(n, b)'
      BY DEF Echoers
    <3>3. ASSUME NEW s \in E2, s \notin E PROVE s \in S
      <4>1. InLog(s, "ECHO", b, u[s]) /\ ~InLog(s, "ECHO", b, handled[n][s])
        BY <1>8, <3>1, <3>2, <3>3 DEF Echoers
      <4>2. lost[n] = {}
        BY <2>2 DEF Undisturbed
      <4>3. PICK m \in Batch(n, u) : /\ m[1] = s /\ Passes(n, m)
                                     /\ Msg(m).type = "ECHO" /\ Msg(m).block = b
        BY <1>9, <4>1, <4>2
      <4> QED BY <4>3 DEF Accepted
    <3>4. IsFiniteSet(A) /\ Cardinality(A) \in Nat
      BY <1>0, AcceptedFinite
    <3>5. IsFiniteSet(S) /\ Cardinality(S) <= Cardinality(A)
      <4> DEFINE f == [m \in A |-> m[1]]
      <4>1. f \in Surjection(A, S)
        BY DEF Surjection
      <4> HIDE DEF A, S, f
      <4> QED BY <3>4, <4>1, FS_Surjection
    <3> HIDE DEF A, S
    <3>6. E2 \in SUBSET (E \cup S) /\ IsFiniteSet(E) /\ IsFiniteSet(E2)
      BY <3>3, NodeAssumption, FS_Subset
    <3>7. /\ Cardinality(E \cup S) = Cardinality(E) + Cardinality(S) - Cardinality(E \cap S)
          /\ IsFiniteSet(E \cup S) /\ IsFiniteSet(E \cap S)
      BY <3>5, <3>6, FS_Union, FS_Intersection
    <3>8. Cardinality(E2) <= Cardinality(E \cup S)
      BY <3>6, <3>7, FS_Subset
    <3>9. /\ Cardinality(E) \in Nat /\ Cardinality(S) \in Nat /\ Cardinality(E2) \in Nat
          /\ Cardinality(E \cap S) \in Nat
      BY <3>5, <3>6, <3>7, FS_CardinalityType
    <3>10. /\ echoThisRound'[n][b] = echoThisRound[n][b] + Cardinality(A)
           /\ echoThisRound[n][b] \in Nat /\ Cardinality(E) <= echoThisRound[n][b]
      BY <1>0, <1>4, <2>0, <2>2, <3>1 DEF A, CounterTypeOK
    <3>11. Cardinality(E2) <= echoThisRound'[n][b]
      BY <3>4, <3>5, <3>7, <3>8, <3>9, <3>10
    <3> QED BY <2>2, <3>2, <3>11
  <2> QED BY <2>1, <2>2
<1>11. ReadyHeard'
  <2> SUFFICES ASSUME OneProposal', NEW k \in Node, NEW b \in ValidBlock, Undisturbed(k),
                      NEW s \in Node, InLog(s, "READY", b, handled[k][s])'
               PROVE  s \in counted'[k][b]
    BY <1>6 DEF ReadyHeard
  <2>0. b \in Block /\ (InLog(s, "READY", b, handled[k][s]) => s \in counted[k][b])
    BY <1>0, <1>5 DEF ReadyHeard
  <2>1. CASE k # n
    BY <1>4, <1>7, <2>0, <2>1
  <2>2. CASE k = n /\ InLog(s, "READY", b, handled[n][s])
    BY <1>4, <2>0, <2>2
  <2>3. CASE k = n /\ ~InLog(s, "READY", b, handled[n][s])
    <3>1. InLog(s, "READY", b, u[s]) /\ lost[n] = {}
      BY <1>8, <2>3 DEF Undisturbed
    <3>2. PICK m \in Batch(n, u) : /\ m[1] = s /\ Passes(n, m)
                                   /\ Msg(m).type = "READY" /\ Msg(m).block = b
      BY <1>9, <2>3, <3>1
    <3>3. s \in ReadySenders(n, u, b)
      BY <3>2 DEF ReadySenders, Accepted
    <3> QED BY <1>4, <2>0, <2>3, <3>3
  <2> QED BY <2>1, <2>2, <2>3
<1>12. SendHeard'
  <2> SUFFICES ASSUME OneProposal', NEW k \in Correct, NEW b \in ValidBlock,
                      lost[k] = {}, InLog(Leader, "SEND", b, handled[k][Leader])'
               PROVE  sendThisRound'[k] = b \/ Echoed(k, b)
    BY <1>2 DEF SendHeard, Echoed, InLog
  <2>0. /\ b \in Block /\ b # None /\ k \in Node
        /\ InLog(Leader, "SEND", b, handled[k][Leader])
              => sendThisRound[k] = b \/ Echoed(k, b)
    BY <1>0, <1>5, BlockAssumption DEF SendHeard
  <2>1. CASE k # n
    BY <1>0, <1>4, <1>7, <2>0, <2>1
  <2>2. CASE k = n /\ InLog(Leader, "SEND", b, handled[n][Leader])
    <3>1. sendThisRound[n] = None
      BY <1>0, <1>2, <2>2 DEF SlotEcho
    <3> QED BY <2>0, <2>2, <3>1
  <2>3. CASE k = n /\ ~InLog(Leader, "SEND", b, handled[n][Leader])
    <3> DEFINE sends == {m \in Batch(n, u) : Msg(m).type = "SEND" /\ Passes(n, m)}
    <3>1. InLog(Leader, "SEND", b, u[Leader]) /\ lost[n] = {}
      BY <1>0, <1>8, <2>3
    <3>2. PICK m \in Batch(n, u) : /\ m[1] = Leader /\ Passes(n, m)
                                   /\ Msg(m).type = "SEND" /\ Msg(m).block = b
      <4> HIDE DEF sends
      <4>1. PICK s \in Node : s = Leader
        BY <1>0
      <4>2. InLog(s, "SEND", b, u[s]) /\ ~InLog(s, "SEND", b, handled[n][s]) /\ lost[n] = {}
        BY <2>3, <3>1, <4>1
      <4>3. \E m \in Batch(n, u) : /\ m[1] = s /\ Passes(n, m)
                                   /\ Msg(m).type = "SEND" /\ Msg(m).block = b
        BY <1>9, <4>2
      <4> QED BY <4>1, <4>3
    <3>3. ASSUME NEW c \in sends PROVE c = m
      <4>1. /\ c[1] \in Node /\ c[2] \in DOMAIN sent[c[1]] /\ c = <<c[1], c[2]>>
            /\ m[2] \in DOMAIN sent[m[1]] /\ m = <<m[1], m[2]>>
        BY <1>0, <3>2, BatchMember
      <4>2. sent[c[1]][c[2]].type = "SEND" /\ sent[m[1]][m[2]].type = "SEND"
        BY <3>2 DEF Msg
      <4>3. c[1] = Leader
        BY <1>0, <4>1, <4>2 DEF LogBacked
      <4>4. c[2] \in Proposals /\ m[2] \in Proposals
        BY <3>2, <4>1, <4>2, <4>3 DEF Proposals
      <4>5. c[2] = m[2]
        BY <1>5, <4>4 DEF OneProposal
      <4> QED BY <3>2, <4>1, <4>3, <4>5
    <3>4. sends = {m} /\ m[2] \in Nat
      BY <1>0, <3>2, <3>3, BatchMember
    <3>5. {c \in sends : \A j \in sends : j[2] <= c[2]} = {m}
      BY <3>4
    <3>6. LastSend(n, u) = Msg(CHOOSE c \in {m} : TRUE).block
      BY <3>5 DEF LastSend
    <3>7. LastSend(n, u) = b
      BY <3>2, <3>6
    <3> QED BY <1>4, <2>3, <3>7
  <2> QED BY <2>1, <2>2, <2>3
<1> QED BY <1>10, <1>11, <1>12 DEF HeardParts

\* The parts of the invariant about the control of the correct nodes.
LEMMA ControlStep ==
    ASSUME RestInv, [Next]_vars, TypeOK'
    PROVE  ControlParts'
<1>0. /\ Settled /\ SlotEcho /\ LeavesDelivered /\ Correct \subseteq Node
      /\ None \notin Block
  BY BlockAssumption DEF RestInv, ControlParts, Correct
<1>t. /\ pc \in [Node -> {"idle", "wait", "echo", "ready", "accept"}]
      /\ runs \in [Node -> Nat]
      /\ shouldBroadcast \in [Node -> BOOLEAN]
      /\ votedHash \in [Node -> Block \cup {None}]
      /\ \A n \in Node : pc[n] = "accept" => votedHash[n] \in Block
      /\ sendThisRound \in [Node -> Block \cup {None}]
      /\ readySent \in [Node -> SUBSET Block]
      /\ echoThisRound \in [Node -> [Block -> Nat]]
      /\ readyThisRound \in [Node -> [Block -> Nat]]
  BY DEF RestInv, QuorumInv, TypeOK, ControlTypeOK, OutcomeTypeOK, CounterTypeOK
<1>p. ASSUME NEW k \in Node, readySent'[k] = readySent[k],
             echoThisRound'[k] = echoThisRound[k], readyThisRound'[k] = readyThisRound[k]
      PROVE  Pending(k)' = Pending(k)
  BY <1>p DEF Pending, EchoReady, Amplifiable, Deliverable, EchoThreshold,
              ReadyThreshold, DeliverThreshold, N, F
<1> DEFINE
     OK(k) == /\ (pc'[k] \in {"idle", "wait"} /\ votedHash'[k] = None) => Pending(k)' = {}
              /\ sendThisRound'[k] # None <=> pc'[k] = "echo"
              /\ ~shouldBroadcast'[k] \/ (pc'[k] = "idle" /\ runs'[k] > 0)
                    => votedHash'[k] # None
<1> SUFFICES ASSUME NEW k \in Correct PROVE OK(k)
  BY DEF ControlParts, Settled, SlotEcho, LeavesDelivered
<1>a. ASSUME pc'[k] = pc[k], runs'[k] = runs[k], shouldBroadcast'[k] = shouldBroadcast[k],
             sendThisRound'[k] = sendThisRound[k], votedHash'[k] = votedHash[k],
             readySent'[k] = readySent[k], echoThisRound'[k] = echoThisRound[k],
             readyThisRound'[k] = readyThisRound[k]
      PROVE  OK(k)
  BY <1>0, <1>a, <1>p DEF Settled, SlotEcho, LeavesDelivered
<1>1. ASSUME \/ \E b \in Block : ProposeSign(b)
             \/ ProposeBroadcast
             \/ \E m \in MsgIds, d \in Node : TalkFails(m, d)
             \/ UNCHANGED vars
      PROVE  OK(k)
  <2>1. UNCHANGED <<pc, runs, shouldBroadcast, sendThisRound, votedHash, readySent,
                    echoThisRound, readyThisRound>>
    BY <1>1 DEF ProposeSign, ProposeBroadcast, TalkFails, vars, ctlVars, cntVars, outVars
  <2> HIDE DEF OK
  <2> QED BY <1>a, <2>1
<1>2. ASSUME NEW n \in Node, n # k,
             \/ RunProtocol(n) \/ RunTaskInWait(n) \/ RoundSign(n) \/ RoundEcho(n)
             \/ \E b \in Block : RoundReady(n, b) \/ RoundAmplify(n, b) \/ RoundDeliver(n, b)
             \/ RoundAccept(n) \/ RoundEnd(n) \/ GetConsensusBlocks(n)
      PROVE  OK(k)
  <2> HIDE DEF OK
  <2>1. CASE \/ RunProtocol(n) \/ RoundSign(n) \/ RoundAccept(n) \/ RoundEnd(n)
             \/ GetConsensusBlocks(n)
    <3>1. /\ UNCHANGED <<sendThisRound, votedHash, readySent, echoThisRound, readyThisRound>>
          /\ pc'[k] = pc[k] /\ runs'[k] = runs[k]
          /\ shouldBroadcast'[k] = shouldBroadcast[k]
      BY <1>0, <1>t, <1>2, <2>1 DEF RunProtocol, RoundSign, RoundAccept, RoundEnd,
                               GetConsensusBlocks, ctlVars, cntVars, outVars
    <3> QED BY <1>a, <3>1
  <2>2. CASE RunTaskInWait(n)
    <3>1. PICK u : UpdateRecvMessages(n, u)
      BY <2>2 DEF RunTaskInWait
    <3>2. /\ UNCHANGED <<votedHash, readySent, runs>>
          /\ pc'[k] = pc[k]
          /\ shouldBroadcast'[k] = shouldBroadcast[k]
      BY <1>0, <1>t, <1>2, <2>2 DEF RunTaskInWait, outVars
    <3>3. /\ sendThisRound'[k] = sendThisRound[k]
          /\ echoThisRound'[k] = echoThisRound[k] /\ readyThisRound'[k] = readyThisRound[k]
      BY <1>0, <1>t, <1>2, <3>1 DEF UpdateRecvMessages
    <3> QED BY <1>a, <3>2, <3>3
  <2>3. CASE RoundEcho(n)
    <3>1. /\ UNCHANGED <<votedHash, readySent, echoThisRound, readyThisRound, runs,
                         shouldBroadcast>>
          /\ pc'[k] = pc[k] /\ sendThisRound'[k] = sendThisRound[k]
      BY <1>0, <1>t, <1>2, <2>3 DEF RoundEcho, cntVars, outVars
    <3> QED BY <1>a, <3>1
  <2>4. ASSUME NEW b \in Block, RoundReady(n, b) \/ RoundAmplify(n, b) PROVE OK(k)
    <3>1. /\ UNCHANGED <<votedHash, echoThisRound, readyThisRound, runs, pc,
                         shouldBroadcast, sendThisRound>>
          /\ readySent'[k] = readySent[k]
      BY <1>0, <1>t, <1>2, <2>4 DEF RoundReady, RoundAmplify, SendReady, cntVars, outVars,
                                    ctlVars
    <3> QED BY <1>a, <3>1
  <2>5. ASSUME NEW b \in Block, RoundDeliver(n, b) PROVE OK(k)
    <3>1. UNCHANGED <<runs, sendThisRound>> /\ readySent'[k] = readySent[k]
      BY <1>0, <1>t, <1>2, <2>5 DEF RoundDeliver, SendReady
    <3>2. /\ pc'[k] = pc[k] /\ shouldBroadcast'[k] = shouldBroadcast[k]
          /\ votedHash'[k] = votedHash[k]
          /\ echoThisRound'[k] = echoThisRound[k] /\ readyThisRound'[k] = readyThisRound[k]
      BY <1>0, <1>t, <1>2, <2>5 DEF RoundDeliver
    <3> QED BY <1>a, <3>1, <3>2
  <2> QED BY <1>2, <2>1, <2>2, <2>3, <2>4, <2>5
<1>3. CASE RunProtocol(k)
  <2>1. k \notin CrashNode
    BY NodeAssumption DEF Correct
  <2>2. /\ pc[k] = "idle" /\ pc'[k] = "wait" /\ shouldBroadcast'[k]
        /\ UNCHANGED <<sendThisRound, votedHash, readySent, echoThisRound, readyThisRound>>
    BY <1>0, <1>t, <1>3, <2>1 DEF RunProtocol, cntVars, outVars
  <2>3. Pending(k)' = Pending(k)
    BY <1>0, <1>p, <2>2
  <2> QED BY <1>0, <2>2, <2>3 DEF Settled, SlotEcho
<1>4. CASE RunTaskInWait(k)
  <2>1. k \notin FaultNode
    BY DEF Correct
  <2>2. /\ pc'[k] = IF sendThisRound'[k] = None THEN "ready" ELSE "echo"
        /\ shouldBroadcast'[k]
    BY <1>0, <1>t, <1>4, <2>1 DEF RunTaskInWait
  <2> QED BY <2>2
<1>5. CASE RoundEcho(k)
  <2>1. /\ pc[k] = "echo" /\ pc'[k] = "ready" /\ sendThisRound'[k] = None
        /\ UNCHANGED <<shouldBroadcast, votedHash>>
    BY <1>0, <1>t, <1>5 DEF RoundEcho, outVars
  <2> QED BY <1>0, <2>1 DEF LeavesDelivered
<1>6. ASSUME NEW b \in Block, RoundReady(k, b) \/ RoundAmplify(k, b) PROVE OK(k)
  <2>1. pc[k] = "ready" /\ UNCHANGED <<pc, runs, shouldBroadcast, sendThisRound, votedHash>>
    BY <1>6 DEF RoundReady, RoundAmplify, ctlVars, outVars
  <2> QED BY <1>0, <2>1 DEF LeavesDelivered, SlotEcho
<1>7. ASSUME NEW b \in Block, RoundDeliver(k, b) PROVE OK(k)
  <2>1. /\ pc[k] = "ready" /\ pc'[k] = "accept" /\ votedHash'[k] = b
        /\ UNCHANGED sendThisRound
    BY <1>0, <1>t, <1>7 DEF RoundDeliver
  <2> QED BY <1>0, <2>1 DEF SlotEcho
<1>8. CASE RoundAccept(k)
  <2>1. /\ pc[k] = "accept" /\ pc'[k] = "idle"
        /\ UNCHANGED <<shouldBroadcast, sendThisRound, votedHash>>
    BY <1>0, <1>t, <1>8 DEF RoundAccept
  <2>2. votedHash'[k] # None
    BY <1>0, <1>t, <2>1
  <2> QED BY <1>0, <2>1, <2>2 DEF SlotEcho
<1>9. CASE RoundEnd(k)
  <2>1. /\ pc[k] = "ready" /\ pc'[k] = IF shouldBroadcast[k] THEN "wait" ELSE "idle"
        /\ Pending(k) = {}
        /\ UNCHANGED <<runs, shouldBroadcast, sendThisRound, votedHash, readySent,
                       echoThisRound, readyThisRound>>
    BY <1>0, <1>t, <1>9 DEF RoundEnd, Pending, cntVars, outVars
  <2>2. Pending(k)' = Pending(k)
    BY <1>0, <1>p, <2>1
  <2>3. pc'[k] = "idle" => votedHash'[k] # None
    BY <1>0, <2>1 DEF LeavesDelivered
  <2>4. pc'[k] # "echo" /\ sendThisRound'[k] = None
    BY <1>0, <2>1 DEF SlotEcho
  <2>5. ~shouldBroadcast'[k] => votedHash'[k] # None
    BY <1>0, <2>1 DEF LeavesDelivered
  <2> QED BY <2>1, <2>2, <2>3, <2>4, <2>5
<1>10. CASE GetConsensusBlocks(k)
  <2>1. /\ ~shouldBroadcast[k]
        /\ UNCHANGED <<pc, runs, sendThisRound, votedHash, readySent, echoThisRound,
                       readyThisRound>>
    BY <1>10 DEF GetConsensusBlocks, cntVars
  <2>2. votedHash'[k] # None
    BY <1>0, <2>1 DEF LeavesDelivered
  <2> QED BY <1>0, <2>1, <2>2 DEF SlotEcho
<1>12. CASE RoundSign(k)
  <2>1. UNCHANGED <<pc, runs, shouldBroadcast, sendThisRound, votedHash, readySent,
                    echoThisRound, readyThisRound>>
    BY <1>12 DEF RoundSign, ctlVars, cntVars, outVars
  <2> HIDE DEF OK
  <2> QED BY <1>a, <2>1
<1> HIDE DEF OK
<1>11. \A n \in Node :
          \/ RunProtocol(n) \/ RunTaskInWait(n) \/ RoundSign(n) \/ RoundEcho(n)
          \/ \E b \in Block : RoundReady(n, b) \/ RoundAmplify(n, b) \/ RoundDeliver(n, b)
          \/ RoundAccept(n) \/ RoundEnd(n) \/ GetConsensusBlocks(n)
          => OK(k)
  <2> TAKE n \in Node
  <2>1. CASE n # k
    BY <1>2, <2>1
  <2>2. CASE n = k
    BY <1>3, <1>4, <1>5, <1>6, <1>7, <1>8, <1>9, <1>10, <1>12, <2>2
  <2> QED BY <2>1, <2>2
<1> QED BY <1>1, <1>11 DEF Next

\* What is put into ready_sent_ is broadcast in the same step.
LEMMA ReadyBroadcastStep ==
    ASSUME RestInv, [Next]_vars, TypeOK'
    PROVE  ReadyBroadcast'
<1>0. /\ TypeOK /\ LogTypeOK /\ KeyTypeOK /\ OutcomeTypeOK /\ ReadyBroadcast /\ LogGrows
      /\ LogTypeOK'
  BY LogStep DEF RestInv, ValidInv, TypeOK
<1>1. ASSUME NEW s \in Node, NEW b \in readySent[s]
      PROVE  InLog(s, "READY", b, Len(sent[s]))'
  <2>1. InLog(s, "READY", b, Len(sent[s]))
    BY <1>0 DEF ReadyBroadcast
  <2> QED BY <1>0, <2>1, WholeLogKept
<1>2. ASSUME NEW n \in Node, NEW b \in Block, SendReady(n, b) PROVE ReadyBroadcast'
  <2>1. readySent' = [readySent EXCEPT ![n] = @ \cup {b}]
    BY <1>2 DEF SendReady
  <2> DEFINE L == Len(sent[n]) + 1
  <2>2. /\ L \in DOMAIN sent'[n]
        /\ sent'[n][L] = [type |-> "READY", block |-> b, key |-> signedKey[n]]
    BY <1>0, <1>2, BroadcastToLog DEF SendReady
  <2>3. L <= Len(sent'[n])
    BY <1>0, <2>2 DEF LogTypeOK
  <2>4. InLog(n, "READY", b, Len(sent[n]))'
    BY <2>2, <2>3 DEF InLog
  <2> SUFFICES ASSUME NEW s \in Node, NEW c \in readySent'[s]
               PROVE  InLog(s, "READY", c, Len(sent[s]))'
    BY DEF ReadyBroadcast
  <2>5. c \in readySent[s] \/ (s = n /\ c = b)
    BY <1>0, <2>1 DEF OutcomeTypeOK
  <2> QED BY <1>1, <2>4, <2>5
<1>3. CASE readySent' = readySent
  BY <1>1, <1>3 DEF ReadyBroadcast
<1>4. readySent' = readySent \/ \E n \in Node, b \in Block : SendReady(n, b)
  BY ZenonT(30) DEF Next, ProposeSign, ProposeBroadcast, TalkFails, RunProtocol, RunTaskInWait,
         RoundSign, RoundEcho, RoundReady, RoundAmplify, RoundDeliver, RoundAccept,
         RoundEnd, GetConsensusBlocks, vars
<1> QED BY <1>2, <1>3, <1>4

\* Every step keeps the parts about what was heard.
LEMMA HeardStep ==
    ASSUME RestInv, [Next]_vars, TypeOK'
    PROVE  HeardParts'
<1>0. /\ TypeOK /\ LogTypeOK /\ KeyTypeOK /\ CounterTypeOK /\ OutcomeTypeOK
      /\ LogTypeOK' /\ SlotEcho /\ Correct \subseteq Node /\ None \notin Block
  BY BlockAssumption DEF RestInv, ValidInv, TypeOK, ControlParts, Correct
<1>1. CASE \E n \in Node : RunTaskInWait(n)
  BY <1>1, HeardBatch
<1>2. ASSUME \/ \E b \in Block : ProposeSign(b)
             \/ ProposeBroadcast
             \/ \E m \in MsgIds, d \in Node : TalkFails(m, d)
             \/ \E n \in Node : \/ RunProtocol(n) \/ RoundSign(n) \/ RoundAccept(n)
                                \/ RoundEnd(n) \/ GetConsensusBlocks(n)
                                \/ \E b \in Block : RoundReady(n, b) \/ RoundAmplify(n, b)
             \/ UNCHANGED vars
      PROVE  HeardParts'
  <2>1. UNCHANGED <<handled, votedHash, sendThisRound, echoThisRound, counted>>
    BY <1>2 DEF ProposeSign, ProposeBroadcast, TalkFails, RunProtocol, RoundSign,
         RoundAccept, RoundEnd, GetConsensusBlocks, RoundReady, RoundAmplify, vars, netVars, cntVars,
         outVars
  <2>2. \A n \in Node : lost'[n] = {} => lost[n] = {}
    <3>1. CASE lost' = lost
      BY <3>1
    <3>2. ASSUME NEW m \in MsgIds, NEW d \in Node, TalkFails(m, d)
          PROVE  \A n \in Node : lost'[n] = {} => lost[n] = {}
      BY <1>0, <3>2 DEF TalkFails, LogTypeOK
    <3> QED BY <1>2, <3>1, <3>2 DEF ProposeSign, ProposeBroadcast, RunProtocol, RoundSign,
         RoundAccept, RoundEnd, GetConsensusBlocks, RoundReady, RoundAmplify, vars, netVars
  <2> QED BY <2>1, <2>2, HeardKept
<1>3. ASSUME NEW n \in Node, RoundEcho(n) PROVE HeardParts'
  <2>1. PICK c \in Block : c = sendThisRound[n]
    BY <1>0, <1>3 DEF RoundEcho, CounterTypeOK
  <2>2. /\ BroadcastMessage(n, "ECHO", c)
        /\ \A k \in Node \ {n} : sendThisRound'[k] = sendThisRound[k]
        /\ UNCHANGED <<handled, lost, votedHash, echoThisRound, counted>>
    BY <1>0, <1>3, <2>1 DEF RoundEcho, CounterTypeOK, cntVars, outVars
  <2> DEFINE L == Len(sent[n]) + 1
  <2>3. /\ L \in DOMAIN sent'[n]
        /\ sent'[n][L] = [type |-> "ECHO", block |-> c, key |-> signedKey[n]]
    BY <1>0, <2>2, BroadcastToLog
  <2>4. L <= Len(sent'[n])
    BY <1>0, <2>3 DEF LogTypeOK
  <2>5. Echoed(n, c)'
    BY <2>3, <2>4 DEF Echoed, InLog
  <2>6. \A k \in Correct, b \in Block :
           sendThisRound[k] = b => sendThisRound'[k] = b \/ Echoed(k, b)'
    BY <1>0, <2>1, <2>2, <2>5
  <2> QED BY <2>2, <2>6, HeardKept
<1>4. ASSUME NEW n \in Node, NEW b \in Block, RoundDeliver(n, b) PROVE HeardParts'
  <2>1. /\ UNCHANGED <<handled, lost, sendThisRound>>
        /\ votedHash'[n] = b /\ b # None
        /\ \A k \in Node \ {n} : /\ votedHash'[k] = votedHash[k]
                                 /\ echoThisRound'[k] = echoThisRound[k]
                                 /\ counted'[k] = counted[k]
    BY <1>0, <1>4 DEF RoundDeliver, CounterTypeOK, OutcomeTypeOK, netVars
  <2>2. \A k \in Node : votedHash'[k] = None =>
           /\ votedHash[k] = None
           /\ echoThisRound'[k] = echoThisRound[k]
           /\ counted'[k] = counted[k]
    BY <2>1
  <2> QED BY <2>1, <2>2, HeardKept
<1> QED BY <1>1, <1>2, <1>3, <1>4 DEF Next

\* When there are enough correct validators to meet the thresholds, the
\* protocol does not come to rest before every correct node has delivered the
\* proposed block, if one valid block is proposed and no call fails.
THEOREM RestsDelivered ==
    ASSUME Cardinality(Correct) >= EchoThreshold,
           Cardinality(Correct) >= DeliverThreshold
    PROVE  Spec => []QuiescentDelivery
<1>1. Init => RestInv
  <2> SUFFICES ASSUME Init PROVE RestInv
    OBVIOUS
  <2>1. QuorumInv /\ ValidInv
    BY QuorumInit, ValidInit
  <2>2. InKeyOrder /\ ReadyBroadcast
    BY DEF Init, InKeyOrder, Chained, ReadyBroadcast
  <2>3. \A s \in Node : \A t, b, k : ~InLog(s, t, b, k)
    BY DEF Init, InLog
  <2>4. \A n, b : Echoers(n, b) = {}
    BY <2>3 DEF Echoers
  <2>5. EchoHeard
    <3>1. \A n \in Node, b \in ValidBlock : echoThisRound[n][b] = 0
      BY BlockAssumption DEF Init
    <3> QED BY <2>4, <3>1, FS_EmptySet, SMTT(30) DEF EchoHeard
  <2>6. ReadyHeard /\ SendHeard
    BY <2>3, NodeAssumption DEF ReadyHeard, SendHeard
  <2>7. SlotEcho /\ LeavesDelivered
    BY DEF Init, SlotEcho, LeavesDelivered, Correct
  <2>8. Settled
    <3> SUFFICES ASSUME NEW n \in Correct PROVE Pending(n) = {}
      BY DEF Settled
    <3>1. \A b \in Block : echoThisRound[n][b] = 0 /\ readyThisRound[n][b] = 0
      BY DEF Init, Correct
    <3> QED BY <3>1, ThresholdsPositive DEF Pending, EchoReady, Amplifiable, Deliverable
  <2> QED BY <2>1, <2>2, <2>5, <2>6, <2>7, <2>8
          DEF RestInv, KeysInOrder, HeardParts, ControlParts
<1>2. RestInv /\ [Next]_vars => RestInv'
  <2> SUFFICES ASSUME RestInv, [Next]_vars PROVE RestInv'
    OBVIOUS
  <2>1. QuorumInv' /\ ValidInv' /\ KeysInOrder'
    BY QuorumStep, ValidStep, KeyStep DEF RestInv
  <2>2. TypeOK'
    BY <2>1 DEF ValidInv
  <2> QED BY <2>1, <2>2, HeardStep, ControlStep, ReadyBroadcastStep DEF RestInv
<1>3. RestInv => QuiescentDelivery
  <2> SUFFICES ASSUME RestInv, Quiescent, \A n \in Node : lost[n] = {},
                      Cardinality(Proposals) = 1, Proposed \subseteq ValidBlock,
                      NEW n \in Correct, votedHash[n] \notin Proposed
               PROVE  FALSE
    BY DEF QuiescentDelivery, Correct
  <2>0. /\ TypeOK /\ LogTypeOK /\ CounterTypeOK /\ OutcomeTypeOK /\ QuorumInv /\ Validity
        /\ Correct \subseteq Node /\ n \in Node /\ Leader \in Node
        /\ signing = {} /\ sent \in [Node -> Seq(Message)]
        /\ EchoHeard /\ ReadyHeard /\ SendHeard /\ ReadyBroadcast
        /\ Settled /\ SlotEcho /\ LeavesDelivered
    BY NodeAssumption DEF RestInv, QuorumInv, ValidInv, TypeOK, LogTypeOK, HeardParts,
                          ControlParts, Quiescent, Correct
  <2>1. PICK p \in Proposals : TRUE
    BY FS_EmptySet
  <2>2. \A i \in Proposals : i = p
    <3>1. /\ \A i \in Proposals : Rank(i) \in 1 .. 1
          /\ \A i, j \in Proposals : Rank(i) = Rank(j) => i = j
      BY <2>0, RankFacts
    <3> QED BY <2>1, <3>1
  <2>3. OneProposal
    BY <2>0, <2>2 DEF OneProposal
  <2>4. PICK b \in Block : b = sent[Leader][p].block
    <3>1. sent[Leader][p] \in Message
      BY <2>0 DEF Proposals
    <3> QED BY <3>1 DEF Message
  <2>5. Proposed = {b} /\ b \in ValidBlock
    BY <2>1, <2>2, <2>4 DEF Proposed
  <2>a. ASSUME NEW k \in Correct, votedHash[k] = None
        PROVE  /\ pc[k] = "wait" /\ Undisturbed(k) /\ Pending(k) = {}
               /\ \A s \in Node : \A t : InLog(s, t, b, Len(sent[s]))
                                           => InLog(s, t, b, handled[k][s])
    <3>1. pc[k] = "wait"
      BY <2>0, <2>a DEF Quiescent, LeavesDelivered, Correct
    <3>2. \A m \in MsgIds : m[2] <= handled[k][m[1]]
      BY <2>0, <3>1 DEF Quiescent, Correct
    <3>3. Undisturbed(k) /\ Pending(k) = {}
      BY <2>0, <2>a, <3>1 DEF Undisturbed, Settled
    <3>4. ASSUME NEW s \in Node, NEW t, InLog(s, t, b, Len(sent[s]))
          PROVE  InLog(s, t, b, handled[k][s])
      <4>1. PICK i \in DOMAIN sent[s] : sent[s][i].type = t /\ sent[s][i].block = b
        BY <3>4 DEF InLog
      <4>2. <<s, i>> \in MsgIds
        BY MsgIdsMember
      <4>3. PICK m \in MsgIds : m = <<s, i>>
        BY <4>2
      <4>4. i <= handled[k][s]
        BY <3>2, <4>3
      <4> QED BY <4>1, <4>4 DEF InLog
    <3> QED BY <3>1, <3>3, <3>4
  <2>b. ASSUME NEW Q \in SUBSET Node, Cardinality(Q) >= DeliverThreshold,
               \A s \in Q : b \in readySent[s]
        PROVE  FALSE
    <3>1. votedHash[n] = None
      BY <2>0 DEF Validity
    <3>2. /\ Undisturbed(n) /\ Pending(n) = {}
          /\ \A s \in Q : InLog(s, "READY", b, handled[n][s])
      BY <2>0, <2>a, <2>b, <3>1 DEF ReadyBroadcast
    <3>3. Q \in SUBSET counted[n][b] /\ counted[n][b] \in SUBSET Node
      BY <2>0, <2>3, <2>5, <3>2 DEF ReadyHeard, CounterTypeOK
    <3>4. /\ IsFiniteSet(counted[n][b]) /\ IsFiniteSet(Q)
          /\ Cardinality(counted[n][b]) \in Nat /\ Cardinality(Q) \in Nat
      BY <3>3, NodeAssumption, FS_Subset, FS_CardinalityType
    <3>5. Cardinality(Q) <= Cardinality(counted[n][b])
      BY <3>3, <3>4, FS_Subset
    <3>6. readyThisRound[n][b] = Cardinality(counted[n][b])
      BY <2>0 DEF QuorumInv, CounterExact
    <3>7. readyThisRound[n][b] >= DeliverThreshold
      BY <2>b, <3>4, <3>5, <3>6, ThresholdType
    <3> QED BY <3>2, <3>7 DEF Pending, Deliverable
  <2>6. CASE \E k \in Correct : votedHash[k] # None
    <3>1. PICK k \in Correct : votedHash[k] # None
      BY <2>6
    <3>2. votedHash[k] = b
      BY <2>0, <2>5, <3>1 DEF Validity
    <3> DEFINE Q == {s \in Node : b \in readySent[s]}
    <3>3. Cardinality(Q) >= DeliverThreshold
      BY <2>0, <3>1, <3>2 DEF QuorumInv, DeliveryQuorum
    <3>4. Q \in SUBSET Node /\ \A s \in Q : b \in readySent[s]
      OBVIOUS
    <3> HIDE DEF Q
    <3> QED BY <2>b, <3>3, <3>4
  <2>7. CASE \A k \in Correct : votedHash[k] = None
    <3>1. InLog(Leader, "SEND", b, Len(sent[Leader]))
      <4>1. p \in DOMAIN sent[Leader] /\ sent[Leader][p].type = "SEND"
        BY <2>1 DEF Proposals
      <4>2. p <= Len(sent[Leader])
        BY <2>0, <4>1
      <4> QED BY <2>4, <4>1, <4>2 DEF InLog
    <3>2. ASSUME NEW k \in Correct PROVE Echoed(k, b)
      <4>1. pc[k] = "wait" /\ InLog(Leader, "SEND", b, handled[k][Leader])
        BY <2>0, <2>7, <2>a, <3>1
      <4>2. sendThisRound[k] = None
        BY <2>0, <4>1 DEF SlotEcho
      <4>3. lost[k] = {} /\ b # None
        BY <2>0, BlockAssumption
      <4> QED BY <2>0, <2>3, <2>5, <4>1, <4>2, <4>3 DEF SendHeard
    <3>3. ASSUME NEW k \in Correct PROVE b \in readySent[k]
      <4>1. Correct \in SUBSET Echoers(k, b)
        BY <2>0, <2>7, <2>a, <3>2 DEF Echoers, Echoed
      <4>2. /\ Cardinality(Correct) <= Cardinality(Echoers(k, b))
            /\ Cardinality(Correct) \in Nat
            /\ Cardinality(Echoers(k, b)) \in Nat
        BY <4>1, EchoersFinite, FS_Subset, FS_CardinalityType
      <4>3. Undisturbed(k) /\ Pending(k) = {}
        BY <2>7, <2>a
      <4>4. Cardinality(Echoers(k, b)) <= echoThisRound[k][b] /\ echoThisRound[k][b] \in Nat
        BY <2>0, <2>3, <2>5, <4>3 DEF EchoHeard, CounterTypeOK
      <4>5. echoThisRound[k][b] >= EchoThreshold
        BY <4>2, <4>4, ThresholdsPositive
      <4> QED BY <4>3, <4>5 DEF Pending, EchoReady
    <3> QED BY <2>0, <2>b, <3>3
  <2> QED BY <2>6, <2>7
<1> QED BY <1>1, <1>2, <1>3, PTL DEF Spec

=============================================================================
